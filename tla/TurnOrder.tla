----------------------------- MODULE TurnOrder ------------------------------
(***************************************************************************)
(* What the session turn lock promises its callers, without saying how:    *)
(* the turns of one session stand in a line, in the order they asked; the  *)
(* first in line has the session, and only it can leave.  Sessions do not  *)
(* see each other.                                                         *)
(***************************************************************************)
EXTENDS Sequences

CONSTANTS Callers, Sessions

VARIABLE line    \* [Sessions -> Seq(Callers)]

StandsIn(c, s) == \E k \in DOMAIN line[s] : line[s][k] = c

Ask(c, s) ==
  /\ \A r \in Sessions : ~StandsIn(c, r)
  /\ line' = [line EXCEPT ![s] = Append(@, c)]

Leave(s) ==
  /\ line[s] # <<>>
  /\ line' = [line EXCEPT ![s] = Tail(@)]

OrderInit == line = [s \in Sessions |-> <<>>]

OrderNext ==
  \/ \E c \in Callers, s \in Sessions : Ask(c, s)
  \/ \E s \in Sessions : Leave(s)

OrderSpec == OrderInit /\ [][OrderNext]_line
=============================================================================
