SPECIFICATION TurnsSpec
CONSTANTS
  Callers = {channel, scheduler}
  DirectCallers = {job}
  Sessions = {s1}
  NoSession = NoSession
INVARIANT
  TurnsOfSessionSerialized
