---------------------------- MODULE MCServerQueue ---------------------------
(* TLC instances of ServerQueue with one slot, which is how local-runtime.ts *)
(* starts the server (--parallel 1).                                       *)
EXTENDS ServerQueue

CONSTANTS r1, r2, r3, s1

MCIdSlot == [t \in Tasks |-> IF t = r2 THEN s1 ELSE AnySlot]
=============================================================================
