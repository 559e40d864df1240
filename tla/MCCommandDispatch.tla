--------------------------- MODULE MCCommandDispatch ---------------------------
(***************************************************************************)
(* Calls of CommandDispatch for TLC: two of one command and one of another *)
(* command, on one thread.                                                 *)
(***************************************************************************)
EXTENDS CommandDispatch, TLC

CONSTANTS q1, q2, q3, send, stop, thread

MCUser == {q1, q2, q3}
MCCommand == {send, stop}
MCCommandOf == q1 :> send @@ q2 :> send @@ q3 :> stop
MCKeyOf == [u \in MCUser |-> thread]
=============================================================================
