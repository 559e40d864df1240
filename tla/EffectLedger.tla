---------------------------- MODULE EffectLedger ----------------------------
(***************************************************************************)
(* What the effect outbox promises a command that enqueues an effect,      *)
(* without slots, signals, leases or processes.                            *)
(*                                                                         *)
(* Effects wait, are tried one at a time per thread, and end. A try may    *)
(* perform its external work, even after the ledger gave it up; work that  *)
(* is bound to the process is performed by one try at most, and never      *)
(* tried again once it was.                                                *)
(***************************************************************************)
EXTENDS Naturals

CONSTANTS
    Effect,      \* effects commands may enqueue
    ThreadOf,    \* the thread each effect belongs to
    Replayable   \* effects that may be performed more than once

VARIABLES
    state,  \* state[e]: "absent", "waiting", "working", "succeeded" or "ended"
    tries,  \* tries[e]: how often e was taken up
    done    \* done[e]: the tries that performed e's external work

vars == <<state, tries, done>>

Init ==
    /\ state = [e \in Effect |-> "absent"]
    /\ tries = [e \in Effect |-> 0]
    /\ done = [e \in Effect |-> {}]

Enqueue(e) ==
    /\ state[e] = "absent"
    /\ state' = [state EXCEPT ![e] = "waiting"]
    /\ UNCHANGED <<tries, done>>

Take(e) ==
    /\ state[e] = "waiting"
    /\ \A d \in Effect : state[d] = "working" => ThreadOf[d] # ThreadOf[e]
    /\ state' = [state EXCEPT ![e] = "working"]
    /\ tries' = [tries EXCEPT ![e] = @ + 1]
    /\ UNCHANGED done

Perform(e) ==
    /\ e \notin Replayable => done[e] = {}
    /\ \E n \in 1 .. tries[e] : done' = [done EXCEPT ![e] = @ \cup {n}]
    /\ UNCHANGED <<state, tries>>

Succeed(e) ==
    /\ state[e] = "working"
    /\ tries[e] \in done[e]
    /\ state' = [state EXCEPT ![e] = "succeeded"]
    /\ UNCHANGED <<tries, done>>

\* The effects of E end without success, those of B go back to wait for another
\* try.
GiveUp(E, B) ==
    /\ \A e \in E : state[e] \in {"waiting", "working"}
    /\ \A e \in B : state[e] = "working" /\ (e \in Replayable \/ done[e] = {})
    /\ state' = [e \in Effect |-> IF e \in E THEN "ended"
                                  ELSE IF e \in B THEN "waiting" ELSE state[e]]
    /\ UNCHANGED <<tries, done>>

Next ==
    \/ \E e \in Effect : Enqueue(e) \/ Take(e) \/ Perform(e) \/ Succeed(e)
    \/ \E E, B \in SUBSET Effect : GiveUp(E, B)

Spec == Init /\ [][Next]_vars
=============================================================================
