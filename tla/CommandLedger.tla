----------------------------- MODULE CommandLedger -----------------------------
(***************************************************************************)
(* What command dispatch promises, without threads, locks, receipts or     *)
(* crashes: a command is decided once, and whoever asks about it, at any   *)
(* time and however often, is told that decision.                          *)
(***************************************************************************)
EXTENDS Naturals

CONSTANT Command

VARIABLES
    decision,   \* decision[c]: how c was decided, and at which sequence
    told        \* told[c]: the decisions callers were told

Open == [status |-> "open", at |-> 0]

Init ==
    /\ decision = [c \in Command |-> Open]
    /\ told = [c \in Command |-> {}]

(* The command takes effect, once, or never will. *)
Decide(c) ==
    /\ decision[c] = Open
    /\ decision'[c] # Open
    /\ decision' = [decision EXCEPT ![c] = decision'[c]]
    /\ UNCHANGED told

Tell(c) ==
    /\ decision[c] # Open
    /\ told' = [told EXCEPT ![c] = @ \cup {decision[c]}]
    /\ UNCHANGED decision

Next == \E c \in Command : Decide(c) \/ Tell(c)

Spec == Init /\ [][Next]_<<decision, told>>
=============================================================================
