-------------------------- MODULE MCServerResponse --------------------------
(* Two requests: one with two tasks (two prompts, or n = 2), one with one.  *)
EXTENDS ServerResponse

CONSTANTS h1, h2, a, b, c

MCReaders == {h1, h2}
MCTasks   == {a, b, c}
MCOwner   == [t \in MCTasks |-> IF t = c THEN h2 ELSE h1]
MCMaxPartial == [t \in MCTasks |-> IF t = b THEN 0 ELSE 1]
=============================================================================
