---------------------------- MODULE CommandDispatch ----------------------------
(***************************************************************************)
(* A command's way through Orchestrator.ts: the startup gate, the lock of  *)
(* its thread, the receipt lookup, planning, and the transaction of        *)
(* EventSink.ts that reserves the receipt, appends the events and settles  *)
(* the receipt.                                                            *)
(*                                                                         *)
(* A user of the lock is one dispatch call. A client that gave up, was cut *)
(* off or lost the server sends its command again in another call with the *)
(* same command id. Any step of a call may be its last: the RPC server     *)
(* interrupts the calls of a client that is gone, and the process may end. *)
(*                                                                         *)
(* The log keeps the commands' events, one per command. What a command     *)
(* does to its thread is not modelled: planning succeeds or fails.         *)
(***************************************************************************)
EXTENDS KeyedSerial, Sequences

CONSTANTS
    Command,
    CommandOf,   \* CommandOf[u]: the command id of call u
    MaxFaults    \* bound: crashes, interruptions and failing database calls

(* commandThreadId: the lock of a call is the thread of its command. *)
ASSUME DispatchAssumption ==
    /\ CommandOf \in [User -> Command]
    /\ \A u, v \in User : CommandOf[u] = CommandOf[v] => KeyOf[u] = KeyOf[v]
    /\ MaxFaults \in Nat

VARIABLES
    gate,       \* command readiness: pending, ready or failed
    queue,      \* calls made before the server was ready
    worker,     \* the queued call the gate's worker runs, or NoUser
    away,       \* queued calls whose client is gone
    step,       \* where the call is in dispatchWithReceiptEffect
    result,     \* what the call is about to return
    answer,     \* what its client was told
    receipts,   \* durable: the receipt of each command
    log,        \* durable: the commands' events
    published,  \* sequences the live subscribers were sent
    cutOff,     \* history: sequences whose publication never happened
    faults

gateVars == <<gate, queue, worker, away>>
callVars == <<step, result, answer>>
durableVars == <<receipts, log>>
streamVars == <<published, cutOff>>
vars == <<lockVars, gateVars, callVars, durableVars, streamVars, faults>>

Nothing == [status |-> "open", at |-> 0]
Rejected == [status |-> "rejected", at |-> 0]
Failed == [status |-> "failed", at |-> 0]
Accepted(n) == [status |-> "accepted", at |-> n]

Receipt == [status : {"open", "rejected", "accepted"}, at : Nat]
Step == {"idle", "queued", "lookup", "plan", "commit", "reject", "publish", "end"}

(* The commands are answered in good order, and everything has its type. *)
TypeOK ==
    /\ LockTypeOK
    /\ gate \in {"pending", "ready", "failed"}
    /\ queue \in Seq(User)
    /\ worker \in User \cup {NoUser}
    /\ away \subseteq User
    /\ step \in [User -> Step]
    /\ result \in [User -> Receipt \cup {Failed}]
    /\ answer \in [User -> Receipt \cup {Failed}]
    /\ receipts \in [Command -> Receipt]
    /\ log \in Seq(Command)
    /\ published \subseteq 1 .. Len(log)
    /\ cutOff \subseteq 1 .. Len(log)
    /\ faults \in Nat

Init ==
    /\ LockInit
    /\ gate = "pending" /\ queue = <<>> /\ worker = NoUser /\ away = {}
    /\ step = [u \in User |-> "idle"]
    /\ result = [u \in User |-> Nothing]
    /\ answer = [u \in User |-> Nothing]
    /\ receipts = [c \in Command |-> Nothing]
    /\ log = <<>>
    /\ published = {} /\ cutOff = {}
    /\ faults = 0

Fault == faults < MaxFaults /\ faults' = faults + 1

-----------------------------------------------------------------------------
(* The startup gate, serverRuntimeStartup.ts. *)

SignalCommandReady ==
    /\ gate = "pending"
    /\ gate' = "ready"
    /\ UNCHANGED <<queue, worker, away, lockVars, callVars, durableVars, streamVars, faults>>

FailCommandReady ==
    /\ gate = "pending"
    /\ gate' = "failed"
    /\ Fault
    /\ UNCHANGED <<queue, worker, away, lockVars, callVars, durableVars, streamVars>>

(* enqueueCommand on a ready server runs the dispatch in the caller. *)
Dispatch(u) ==
    /\ step[u] = "idle"
    /\ gate = "ready"
    /\ AcquireLock(u)
    /\ step' = [step EXCEPT ![u] = "lookup"]
    /\ UNCHANGED <<gateVars, result, answer, durableVars, streamVars, faults>>

(* Before that it queues it for the gate's worker and awaits the outcome. *)
EnqueueCommand(u) ==
    /\ step[u] = "idle"
    /\ gate = "pending"
    /\ queue' = Append(queue, u)
    /\ step' = [step EXCEPT ![u] = "queued"]
    /\ UNCHANGED <<gate, worker, away, lockVars, result, answer, durableVars, streamVars, faults>>

Refuse(u) ==
    /\ gate = "failed"
    /\ answer' = [answer EXCEPT ![u] = IF u \in away THEN @ ELSE Failed]
    /\ step' = [step EXCEPT ![u] = "end"]
    /\ stage' = [stage EXCEPT ![u] = "gone"]
    /\ UNCHANGED <<gate, worker, away, locks, holder, sem, result, durableVars, streamVars, faults>>

RefuseCall(u) ==
    /\ step[u] = "idle"
    /\ Refuse(u)
    /\ UNCHANGED queue

(* A queued command whose readiness wait fails is settled with the error. *)
RefuseQueued ==
    /\ queue # <<>>
    /\ Refuse(Head(queue))
    /\ queue' = Tail(queue)

(* commandWorker: one queued command at a time, in order. *)
RunQueued ==
    /\ gate = "ready"
    /\ worker = NoUser
    /\ queue # <<>>
    /\ worker' = Head(queue)
    /\ queue' = Tail(queue)
    /\ AcquireLock(Head(queue))
    /\ step' = [step EXCEPT ![Head(queue)] = "lookup"]
    /\ UNCHANGED <<gate, away, result, answer, durableVars, streamVars, faults>>

-----------------------------------------------------------------------------
(* dispatchWithReceiptEffect, under the thread's lock. *)

Enter(u) ==
    /\ TakePermit(u)
    /\ UNCHANGED <<gateVars, callVars, durableVars, streamVars, faults>>

At(u, s) == stage[u] = "inside" /\ step[u] = s

Proceed(u, s) ==
    /\ step' = [step EXCEPT ![u] = s]
    /\ UNCHANGED <<lockVars, gateVars, answer>>

Conclude(u, outcome, s) ==
    /\ result' = [result EXCEPT ![u] = outcome]
    /\ Proceed(u, s)

(* A receipt answers the call, whichever way it was decided. *)
LookUpReceipt(u) ==
    LET existing == receipts[CommandOf[u]] IN
    /\ At(u, "lookup")
    /\ IF existing = Nothing
       THEN Proceed(u, "plan") /\ UNCHANGED result
       ELSE Conclude(u, existing, "end")
    /\ UNCHANGED <<durableVars, streamVars, faults>>

(* dispatchOnce: domain events, or any failure (no event is one too). *)
PlanCommand(u) ==
    /\ At(u, "plan")
    /\ \E s \in {"commit", "reject"} : Proceed(u, s)
    /\ UNCHANGED <<result, durableVars, streamVars, faults>>

CommitRejectedUnrecorded(u) ==
    /\ At(u, "reject")
    /\ Conclude(u, Rejected, "end")
    /\ UNCHANGED <<durableVars, streamVars, faults>>

(* commitRejectedCommand keeps a receipt that is there; the call fails with *)
(* the plan's failure either way.                                           *)
CommitRejected(u) ==
    LET c == CommandOf[u] IN
    /\ At(u, "reject")
    /\ receipts' = [receipts EXCEPT ![c] = IF @ = Nothing THEN Rejected ELSE @]
    /\ Conclude(u, Rejected, "end")
    /\ UNCHANGED <<log, streamVars, faults>>

CommitCommandWithoutReceipt(u) ==
    LET c == CommandOf[u]
        sequence == Len(log) + 1
    IN
    /\ At(u, "commit")
    /\ log' = Append(log, c)
    /\ Conclude(u, Accepted(sequence), "publish")
    /\ UNCHANGED <<receipts, streamVars, faults>>

CommitCommandUnpublished(u) ==
    LET c == CommandOf[u]
        sequence == Len(log) + 1
    IN
    /\ At(u, "commit")
    /\ IF receipts[c] = Nothing
       THEN /\ log' = Append(log, c)
            /\ receipts' = [receipts EXCEPT ![c] = Accepted(sequence)]
            /\ Conclude(u, Accepted(sequence), "end")
       ELSE /\ Conclude(u, receipts[c], "publish")
            /\ UNCHANGED durableVars
    /\ UNCHANGED <<streamVars, faults>>

(* commitCommand: insertIfAbsent, the events and the final receipt are one  *)
(* transaction. A receipt that was there answers instead.                   *)
CommitCommand(u) ==
    LET c == CommandOf[u]
        sequence == Len(log) + 1
    IN
    /\ At(u, "commit")
    /\ IF receipts[c] = Nothing
       THEN /\ log' = Append(log, c)
            /\ receipts' = [receipts EXCEPT ![c] = Accepted(sequence)]
            /\ Conclude(u, Accepted(sequence), "publish")
       ELSE /\ Conclude(u, receipts[c], "end")
            /\ UNCHANGED durableVars
    /\ UNCHANGED <<streamVars, faults>>

(* Live subscribers are sent the events after the transaction. *)
PublishCommitted(u) ==
    /\ At(u, "publish")
    /\ published' = published \cup {result[u].at}
    /\ Proceed(u, "end")
    /\ UNCHANGED <<result, durableVars, cutOff, faults>>

(* A lookup or a transaction fails: no receipt, and the error is no answer. *)
DatabaseFails(u) ==
    /\ \E s \in {"lookup", "commit", "reject"} : At(u, s)
    /\ Conclude(u, Failed, "end")
    /\ Fault
    /\ UNCHANGED <<durableVars, streamVars>>

Finish(u) ==
    /\ step[u] = "end"
    /\ ReturnPermit(u)
    /\ UNCHANGED <<gateVars, callVars, durableVars, streamVars, faults>>

ReturnKeepingWorker(u) ==
    /\ ReleaseLock(u)
    /\ answer' = [answer EXCEPT ![u] = IF u \in away THEN @ ELSE result[u]]
    /\ UNCHANGED <<gateVars, step, result, durableVars, streamVars, faults>>

(* withLock returns: the client, if it still waits, is told the result. *)
Return(u) ==
    /\ ReleaseLock(u)
    /\ answer' = [answer EXCEPT ![u] = IF u \in away THEN @ ELSE result[u]]
    /\ worker' = IF worker = u THEN NoUser ELSE worker
    /\ UNCHANGED <<gate, queue, away, step, result, durableVars, streamVars, faults>>

-----------------------------------------------------------------------------
(* Clients that leave, and the end of the process. *)

(* The sequences of commits that u was about to publish. *)
Unpublished(u) == IF At(u, "publish") THEN {result[u].at} ELSE {}

(* The client of a queued call leaves: the call still runs. *)
LeaveQueued(u) ==
    /\ step[u] = "queued" \/ worker = u
    /\ u \notin away
    /\ stage[u] # "gone"
    /\ away' = away \cup {u}
    /\ Fault
    /\ UNCHANGED <<gate, queue, worker, lockVars, callVars, durableVars, streamVars>>

(* The client of a running call leaves: the call is interrupted where it   *)
(* waits for the permit, or inside. A transaction ends or never began.     *)
Interrupt(u) ==
    /\ worker # u
    /\ \/ AbandonWait(u)
       \/ stage[u] = "inside" /\ step[u] # "end" /\ UNCHANGED lockVars
    /\ step' = [step EXCEPT ![u] = "end"]
    /\ result' = [result EXCEPT ![u] = Nothing]
    /\ cutOff' = cutOff \cup Unpublished(u)
    /\ Fault
    /\ UNCHANGED <<gateVars, answer, durableVars, published>>

(* The process ends and another one starts. *)
Crash ==
    /\ LoseLocks({u \in User : step[u] # "idle"})
    /\ gate' = "pending" /\ queue' = <<>> /\ worker' = NoUser /\ away' = {}
    /\ step' = [u \in User |-> IF step[u] = "idle" THEN "idle" ELSE "end"]
    /\ result' = [u \in User |-> Nothing]
    /\ cutOff' = cutOff \cup UNION {Unpublished(u) : u \in User}
    /\ Fault
    /\ UNCHANGED <<answer, durableVars, published>>

-----------------------------------------------------------------------------
CallStep(u) ==
    \/ Enter(u) \/ LookUpReceipt(u) \/ PlanCommand(u)
    \/ CommitRejected(u) \/ CommitCommand(u) \/ PublishCommitted(u)
    \/ Finish(u) \/ Return(u)

GateStep == SignalCommandReady \/ RunQueued \/ RefuseQueued

Next ==
    \/ GateStep \/ FailCommandReady \/ Crash
    \/ \E u \in User :
        \/ Dispatch(u) \/ EnqueueCommand(u) \/ RefuseCall(u)
        \/ CallStep(u) \/ DatabaseFails(u)
        \/ LeaveQueued(u) \/ Interrupt(u)

Spec == Init /\ [][Next]_vars

(* Fibers that can run do, and the startup comes to an end. *)
FairSpec ==
    /\ Spec
    /\ WF_vars(GateStep)
    /\ \A u \in User : WF_vars(CallStep(u))

-----------------------------------------------------------------------------
(* A receipt and the log tell the same story: an accepted command has its  *)
(* event where the receipt says and nowhere else, a rejected or undecided  *)
(* one has none, whichever calls failed, were interrupted or repeated.     *)
AppliedAsReceipted ==
    \A c \in Command, i \in 1 .. Len(log) :
        log[i] = c <=> receipts[c] = Accepted(i)

(* No caller is told anything but the command's receipt: a retry never     *)
(* hears "rejected" of a command that was applied, nor another sequence.   *)
(* commitRejectedCommand's existing receipt is ignored by its caller, so   *)
(* this rests on the thread's lock.                                        *)
AnswersAgree ==
    \A u \in User :
        answer[u] \notin {Nothing, Failed} => answer[u] = receipts[CommandOf[u]]

(* Only a client that left before its commit was published, or the end of  *)
(* the process, keeps committed events from the live subscribers.          *)
PublishedOrCutOff ==
    \A i \in 1 .. Len(log) :
        \/ i \in published
        \/ i \in cutOff
        \/ \E u \in User : At(u, "publish") /\ result[u].at = i

(* A decision is made once and every answer repeats it, across retries,    *)
(* interruptions and restarts: dispatch implements the abstract ledger.    *)
Told(c) == {answer[u] : u \in {v \in User : CommandOf[v] = c}} \ {Nothing, Failed}
Ledger == INSTANCE CommandLedger
          WITH decision <- receipts, told <- [c \in Command |-> Told(c)]
KeepsDecisions == Ledger!Spec

(* Every call returns, although a thread's calls wait for one another, the *)
(* worker runs the queue one by one, and holders fail or leave.            *)
EveryCallReturns ==
    \A u \in User : step[u] # "idle" ~> stage[u] = "gone"
=============================================================================
