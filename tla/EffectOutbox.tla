---------------------------- MODULE EffectOutbox ----------------------------
(***************************************************************************)
(* The durable effect outbox of orchestration-v2 and the worker slots that *)
(* drain it (EffectOutbox.ts, EffectWorker.ts).                            *)
(*                                                                         *)
(* A command commits effect rows; a worker slot claims the oldest due row  *)
(* of a thread with nothing running, arms a process-local cancellation     *)
(* signal, re-reads the row, executes the external work raced against the  *)
(* signal, and settles the row with the lease token its claim minted.      *)
(* Beside the workers run: commands that cancel unsettled rows and signal  *)
(* them after the commit, the janitor that settles rows whose lease        *)
(* expired and signals their claimers, and the loss and restart of the     *)
(* server process.                                                         *)
(*                                                                         *)
(* Every SQL statement is one step; what the code does to in-memory state  *)
(* after the statement is a later step of the same process, because a      *)
(* fiber may be descheduled at any point between the two.                  *)
(*                                                                         *)
(* Time is abstracted: a row that waits for a retry delay becomes due by   *)
(* BackoffElapses, a running row passes lease_expires_at by LeaseLapses.   *)
(***************************************************************************)
EXTENDS Naturals

CONSTANTS
    Effect,       \* the effect ids commands may enqueue
    Thread,       \* the threads they belong to
    Worker,       \* the daemon's worker slots (EffectWorker.ts: 4)
    TypeOf,       \* TypeOf[e]: the effect's request type
    ThreadOf,     \* ThreadOf[e]: the effect's thread
    None,         \* a worker slot without a claimed effect
    MaxAttempts,  \* DEFAULT_EFFECT_WORKER_MAX_ATTEMPTS
    Slow,         \* effects whose lease can expire before they are settled
    Hanging,      \* effects whose execution may never end (in FairSpec)
    MaxFaults     \* bound: database errors met by a worker slot and losses of
                  \* the server process

ReplaySafeTypes ==
    {"provider-session.detach", "provider-thread.rollback",
     "checkpoint.capture", "terminal.cleanup", "attachment.cleanup"}

ProcessBoundTypes ==
    {"provider-turn.start", "provider-turn.interrupt", "provider-turn.steer",
     "provider-turn.restart", "runtime-request.respond"}

ASSUME OutboxAssumption ==
    /\ TypeOf \in [Effect -> ReplaySafeTypes \cup ProcessBoundTypes]
    /\ ThreadOf \in [Effect -> Thread]
    /\ None \notin Effect
    /\ MaxAttempts \in Nat \ {0}
    /\ Slow \subseteq Effect /\ Hanging \subseteq Effect
    /\ MaxFaults \in Nat

ReplaySafe(e) == TypeOf[e] \in ReplaySafeTypes

\* The type lists commands hand to cancelUnsettled: an interrupt before the
\* provider turn exists retires the start, recovery and the janitor retire
\* every process-bound effect of the thread.
CancelClasses == {{"provider-turn.start", "provider-turn.restart"}, ProcessBoundTypes}

VARIABLES
    \* durable rows
    status,       \* status[e]; "absent" before the effect is enqueued
    attempts,     \* attempt_count
    owner,        \* attempt number inside lease_owner, 0 for NULL: every slot
                  \* of the process shares one worker id
    lapsed,       \* running rows with lease_expires_at < now
    due,          \* pending rows with available_at <= now
    ahead,        \* ahead[e]: due rows with an available_at before e's
    \* process-local state
    up,           \* the process is alive and past its startup reconciliation
    registered,   \* cancellationSignals: the claim whose Deferred the map
                  \* holds for the effect, 0 for no entry
    pc, task, claim, outcome,  \* the worker slots
    fired,        \* slots whose own Deferred has been completed
    retired,      \* rows cancelled, signalCancellations still to run
    swept,        \* rows settled by the janitor, signal loop still to run
    \* history and bounds
    performed,    \* performed[e]: claims whose execution ended successfully
    errors, crashes

rowVars == <<status, attempts, owner, lapsed, due, ahead>>
slotVars == <<pc, task, claim, outcome>>
budgetVars == <<errors, crashes>>
vars == <<rowVars, up, registered, slotVars, fired, retired, swept, performed, budgetVars>>

UnsettledOrFailed == {"pending", "running", "failed"}
Unsettled == {"pending", "running"}
Settled == {"succeeded", "failed", "cancelled"}

TypeOK ==
    /\ status \in [Effect -> {"absent"} \cup Unsettled \cup Settled]
    /\ attempts \in [Effect -> Nat]
    /\ owner \in [Effect -> Nat]
    /\ lapsed \in SUBSET Effect
    /\ due \in SUBSET Effect
    /\ ahead \in [Effect -> SUBSET Effect]
    /\ up \in BOOLEAN
    /\ registered \in [Effect -> Nat]
    /\ pc \in [Worker -> {"idle", "claimed", "armed", "executing", "stopping", "settling"}]
    /\ task \in [Worker -> Effect \cup {None}]
    /\ claim \in [Worker -> Nat]
    /\ outcome \in [Worker -> {"none", "success", "notActive", "failure"}]
    /\ fired \in SUBSET Worker
    /\ retired \in SUBSET Effect
    /\ swept \in SUBSET Effect
    /\ performed \in [Effect -> SUBSET Nat]
    /\ errors \in Nat /\ crashes \in Nat

Init ==
    /\ status = [e \in Effect |-> "absent"]
    /\ attempts = [e \in Effect |-> 0]
    /\ owner = [e \in Effect |-> 0]
    /\ lapsed = {} /\ due = {}
    /\ ahead = [e \in Effect |-> {}]
    /\ up = TRUE
    /\ registered = [e \in Effect |-> 0]
    /\ pc = [w \in Worker |-> "idle"]
    /\ task = [w \in Worker |-> None]
    /\ claim = [w \in Worker |-> 0]
    /\ outcome = [w \in Worker |-> "none"]
    /\ fired = {} /\ retired = {} /\ swept = {}
    /\ performed = [e \in Effect |-> {}]
    /\ errors = 0 /\ crashes = 0

-----------------------------------------------------------------------------
(* The rows' schedule: which pending rows are due, and in which order.     *)

\* The rows S have just come due (available_at = now); the rows of N leave the
\* schedule. Rows already due keep their places ahead of S.
Reschedule(S, N) ==
    /\ due' = (due \ N) \cup S
    /\ ahead' = [e \in Effect |->
                    IF e \in S THEN due \ (N \cup S) ELSE ahead[e] \ (N \cup S)]

\* Rows S take the given status and give up their lease.
Release(S, st) ==
    /\ status' = [e \in Effect |-> IF e \in S THEN st ELSE status[e]]
    /\ owner' = [e \in Effect |-> IF e \in S THEN 0 ELSE owner[e]]
    /\ lapsed' = lapsed \ S

\* The mutants, here and below: a body each with one plausible bug.
ClaimableUnserialized(e) == e \in due

Claimable(e) ==
    /\ e \in due
    /\ \A d \in Effect : status[d] = "running" => ThreadOf[d] # ThreadOf[e]

-----------------------------------------------------------------------------
(* Commands: rows enqueued and cancelled inside a command's transaction.   *)

\* A second enqueue of the same id changes nothing (ON CONFLICT DO NOTHING).
Enqueue(e) ==
    /\ up
    /\ status[e] = "absent"
    /\ status' = [status EXCEPT ![e] = "pending"]
    /\ Reschedule({e}, {})
    /\ UNCHANGED <<attempts, owner, lapsed, up, registered, slotVars, fired,
                   retired, swept, performed, budgetVars>>

CancelUnsettled(t, types) ==
    LET rows == {e \in Effect : /\ ThreadOf[e] = t
                                /\ status[e] \in Unsettled
                                /\ TypeOf[e] \in types}
    IN  /\ up
        /\ rows # {}
        /\ Release(rows, "cancelled")
        /\ Reschedule({}, rows)
        /\ retired' = retired \cup rows
        /\ UNCHANGED <<attempts, up, registered, slotVars, fired, swept,
                       performed, budgetVars>>

\* The slots whose Deferred the map holds for effect e.
Armed(e) == {w \in Worker : /\ task[w] = e
                            /\ pc[w] \in {"armed", "executing"}
                            /\ claim[w] = registered[e]}

SignalCancellation(e) ==
    /\ e \in retired
    /\ retired' = retired \ {e}
    /\ fired' = fired \cup Armed(e)
    /\ UNCHANGED <<rowVars, up, registered, slotVars, swept, performed, budgetVars>>

-----------------------------------------------------------------------------
(* The janitor's first duty: settle claimed rows whose lease expired.      *)

ExpireRequeueableLeases ==
    LET requeued == {e \in lapsed : ReplaySafe(e) /\ attempts[e] < MaxAttempts}
    IN  /\ up
        /\ requeued # {}
        /\ swept = {}
        /\ Release(requeued, "pending")
        /\ Reschedule(requeued, {})
        /\ swept' = requeued
        /\ UNCHANGED <<attempts, up, registered, slotVars, fired, retired,
                       performed, budgetVars>>

ExpireLeases ==
    LET requeued == {e \in lapsed : ReplaySafe(e) /\ attempts[e] < MaxAttempts}
    IN  /\ up
        /\ lapsed # {}
        /\ swept = {}
        /\ status' = [e \in Effect |-> IF e \in requeued THEN "pending"
                                       ELSE IF e \in lapsed THEN "failed"
                                       ELSE status[e]]
        /\ owner' = [e \in Effect |-> IF e \in lapsed THEN 0 ELSE owner[e]]
        /\ lapsed' = {}
        /\ Reschedule(requeued, {})
        /\ swept' = lapsed
        /\ UNCHANGED <<attempts, up, registered, slotVars, fired, retired,
                       performed, budgetVars>>

\* The signal loop looks the Deferred up by effect id, whoever registered it.
SignalExpired(e) ==
    /\ e \in swept
    /\ swept' = swept \ {e}
    /\ fired' = fired \cup Armed(e)
    /\ registered' = [registered EXCEPT ![e] = 0]
    /\ UNCHANGED <<rowVars, up, slotVars, retired, performed, budgetVars>>

-----------------------------------------------------------------------------
(* A worker slot: runOnce.                                                 *)

OwnedWithoutToken(w) == status[task[w]] = "running"
Owned(w) == status[task[w]] = "running" /\ owner[task[w]] = claim[w]

\* The slot returns from runOnce.
Idle(w) ==
    /\ pc' = [pc EXCEPT ![w] = "idle"]
    /\ task' = [task EXCEPT ![w] = None]
    /\ claim' = [claim EXCEPT ![w] = 0]
    /\ outcome' = [outcome EXCEPT ![w] = "none"]
    /\ fired' = fired \ {w}

ClaimNext(w, e) ==
    /\ up
    /\ pc[w] = "idle"
    /\ Claimable(e)
    /\ \A d \in ahead[e] : ~Claimable(d)
    /\ status' = [status EXCEPT ![e] = "running"]
    /\ attempts' = [attempts EXCEPT ![e] = @ + 1]
    /\ owner' = [owner EXCEPT ![e] = attempts[e] + 1]
    /\ Reschedule({}, {e})
    /\ pc' = [pc EXCEPT ![w] = "claimed"]
    /\ task' = [task EXCEPT ![w] = e]
    /\ claim' = [claim EXCEPT ![w] = attempts[e] + 1]
    /\ UNCHANGED <<lapsed, up, registered, outcome, fired, retired, swept,
                   performed, budgetVars>>

ArmUnregistered(w) ==
    /\ pc[w] = "claimed"
    /\ pc' = [pc EXCEPT ![w] = "armed"]
    /\ UNCHANGED <<rowVars, up, registered, task, claim, outcome, fired, retired,
                   swept, performed, budgetVars>>

\* claimNext puts a fresh Deferred in the map after its statement, which the
\* slot awaits from then on.
Arm(w) ==
    /\ pc[w] = "claimed"
    /\ pc' = [pc EXCEPT ![w] = "armed"]
    /\ registered' = [registered EXCEPT ![task[w]] = claim[w]]
    /\ UNCHANGED <<rowVars, up, task, claim, outcome, fired, retired, swept,
                   performed, budgetVars>>

ClearCancellation(w) == registered' = [registered EXCEPT ![task[w]] = 0]

\* The row is read again once the signal is armed.
RereadCancelled(w) ==
    /\ pc[w] = "armed"
    /\ status[task[w]] = "cancelled"
    /\ ClearCancellation(w)
    /\ Idle(w)
    /\ UNCHANGED <<rowVars, up, retired, swept, performed, budgetVars>>

BeginExecutionUnread(w) ==
    /\ pc[w] = "armed"
    /\ pc' = [pc EXCEPT ![w] = "executing"]
    /\ UNCHANGED <<rowVars, up, registered, task, claim, outcome, fired,
                   retired, swept, performed, budgetVars>>

BeginExecution(w) ==
    /\ pc[w] = "armed"
    /\ status[task[w]] # "cancelled"
    /\ pc' = [pc EXCEPT ![w] = "executing"]
    /\ UNCHANGED <<rowVars, up, registered, task, claim, outcome, fired,
                   retired, swept, performed, budgetVars>>

\* The execution ends first. The finalizer of the race clears the signal
\* before the row is settled.
FinishExecution(w, result) ==
    /\ pc[w] = "executing"
    /\ result = "notActive" => TypeOf[task[w]] = "provider-turn.interrupt"
    /\ pc' = [pc EXCEPT ![w] = "settling"]
    /\ outcome' = [outcome EXCEPT ![w] = result]
    /\ performed' = IF result = "failure" THEN performed
                    ELSE [performed EXCEPT ![task[w]] = @ \cup {claim[w]}]
    /\ ClearCancellation(w)
    /\ UNCHANGED <<rowVars, up, task, claim, fired, retired, swept, budgetVars>>

\* The signal wins the race: the execution is interrupted, and the race waits
\* until the execution's own finalizers are done.
WithdrawExecution(w) ==
    /\ pc[w] = "executing"
    /\ w \in fired
    /\ pc' = [pc EXCEPT ![w] = "stopping"]
    /\ UNCHANGED <<rowVars, up, registered, task, claim, outcome, fired,
                   retired, swept, performed, budgetVars>>

ExecutionStopped(w) ==
    /\ pc[w] = "stopping"
    /\ ClearCancellation(w)
    /\ Idle(w)
    /\ UNCHANGED <<rowVars, up, retired, swept, performed, budgetVars>>

-----------------------------------------------------------------------------
(* Settlement: each statement applies only to a running row whose lease    *)
(* token is the claim's, and otherwise changes nothing.                    *)

Succeed(w) ==
    /\ Release({task[w]}, "succeeded")
    /\ UNCHANGED <<due, ahead>>
    /\ ClearCancellation(w)

FailUnknownStatus(w) ==
    /\ Release({task[w]}, "errored")
    /\ UNCHANGED <<due, ahead>>
    /\ ClearCancellation(w)

Fail(w) ==
    /\ Release({task[w]}, "failed")
    /\ UNCHANGED <<due, ahead>>
    /\ ClearCancellation(w)

\* With no delay the row is due at once.
Retry(w, immediate) ==
    /\ Release({task[w]}, "pending")
    /\ Reschedule(IF immediate THEN {task[w]} ELSE {}, {})
    /\ ClearCancellation(w)

Refused(w) ==
    /\ ~Owned(w)
    /\ UNCHANGED <<status, owner, lapsed, due, ahead, registered>>

Settle(w) ==
    /\ pc[w] = "settling"
    /\ \/ Refused(w)
       \/ /\ Owned(w)
          /\ \/ outcome[w] \in {"success", "notActive"} /\ Succeed(w)
             \/ outcome[w] = "failure" /\ claim[w] >= MaxAttempts /\ Fail(w)
             \/ outcome[w] = "failure" /\ claim[w] < MaxAttempts /\ Retry(w, FALSE)
    /\ Idle(w)
    /\ UNCHANGED <<attempts, up, retired, swept, performed, budgetVars>>

RecoverByRequeue(w) == Retry(w, TRUE)

\* The settlement statement itself fails. A claim whose effect may be replayed
\* is requeued, a process-bound one is failed; an interrupt that was not active
\* and an exhausted retry are failed too.
RecoverClaim(w) ==
    IF \/ outcome[w] = "success" /\ ReplaySafe(task[w])
       \/ outcome[w] = "failure" /\ claim[w] < MaxAttempts
    THEN Retry(w, TRUE)
    ELSE Fail(w)

SettleError(w) ==
    /\ errors + crashes < MaxFaults
    /\ errors' = errors + 1
    /\ pc[w] = "settling"
    /\ Owned(w)
    /\ \/ RecoverClaim(w)
       \/ UNCHANGED <<status, owner, lapsed, due, ahead, registered>>  \* recovery fails too
    /\ Idle(w)
    /\ UNCHANGED <<attempts, up, retired, swept, performed, crashes>>

\* The re-read fails: the claim is requeued before anything was executed.
RereadError(w) ==
    /\ errors + crashes < MaxFaults
    /\ errors' = errors + 1
    /\ pc[w] = "armed"
    /\ \/ Refused(w)
       \/ Owned(w) /\ Retry(w, TRUE)
       \/ Owned(w) /\ UNCHANGED <<status, owner, lapsed, due, ahead, registered>>
    /\ Idle(w)
    /\ UNCHANGED <<attempts, up, retired, swept, performed, crashes>>

-----------------------------------------------------------------------------
(* Time and the process.                                                   *)

BackoffElapses(e) ==
    /\ status[e] = "pending"
    /\ e \notin due
    /\ Reschedule({e}, {})
    /\ UNCHANGED <<status, attempts, owner, lapsed, up, registered, slotVars,
                   fired, retired, swept, performed, budgetVars>>

LeaseLapses(e) ==
    /\ e \in Slow
    /\ up
    /\ status[e] = "running"
    /\ e \notin lapsed
    /\ lapsed' = lapsed \cup {e}
    /\ UNCHANGED <<status, attempts, owner, due, ahead, up, registered, slotVars,
                   fired, retired, swept, performed, budgetVars>>

\* The rows survive the process, nothing else does.
Crash ==
    /\ errors + crashes < MaxFaults
    /\ crashes' = crashes + 1
    /\ up
    /\ up' = FALSE
    /\ registered' = [e \in Effect |-> 0]
    /\ pc' = [w \in Worker |-> "idle"]
    /\ task' = [w \in Worker |-> None]
    /\ claim' = [w \in Worker |-> 0]
    /\ outcome' = [w \in Worker |-> "none"]
    /\ fired' = {} /\ retired' = {} /\ swept' = {}
    /\ UNCHANGED <<rowVars, performed, errors>>

RestartRequeueingAll ==
    LET requeued == {e \in Effect : status[e] = "running"}
    IN  /\ ~up
        /\ up' = TRUE
        /\ Release(requeued, "pending")
        /\ Reschedule(requeued, {})
        /\ UNCHANGED <<attempts, registered, slotVars, fired, retired, swept,
                       performed, budgetVars>>

\* reconcileAfterProcessLoss runs before the workers and before commands.
Restart ==
    LET unsettled == {e \in Effect : status[e] \in Unsettled}
        cancelled == {e \in unsettled : ~ReplaySafe(e)}
        requeued == {e \in unsettled : ReplaySafe(e) /\ status[e] = "running"}
    IN  /\ ~up
        /\ up' = TRUE
        /\ status' = [e \in Effect |-> IF e \in cancelled THEN "cancelled"
                                       ELSE IF e \in requeued THEN "pending"
                                       ELSE status[e]]
        /\ owner' = [e \in Effect |-> IF e \in cancelled \cup requeued THEN 0 ELSE owner[e]]
        /\ lapsed' = lapsed \ (cancelled \cup requeued)
        /\ Reschedule(requeued, cancelled)
        /\ UNCHANGED <<attempts, registered, slotVars, fired, retired, swept,
                       performed, budgetVars>>

-----------------------------------------------------------------------------
WorkerStep(w) ==
    \/ \E e \in Effect : ClaimNext(w, e)
    \/ Arm(w)
    \/ RereadCancelled(w)
    \/ BeginExecution(w)
    \/ \E r \in {"success", "notActive", "failure"} : FinishExecution(w, r)
    \/ WithdrawExecution(w)
    \/ ExecutionStopped(w)
    \/ Settle(w)

Next ==
    \/ \E e \in Effect : Enqueue(e)
    \/ \E t \in Thread, types \in CancelClasses : CancelUnsettled(t, types)
    \/ \E e \in Effect : SignalCancellation(e)
    \/ ExpireLeases
    \/ \E e \in Effect : SignalExpired(e)
    \/ \E w \in Worker : WorkerStep(w) \/ SettleError(w) \/ RereadError(w)
    \/ \E e \in Effect : BackoffElapses(e) \/ LeaseLapses(e)
    \/ Crash
    \/ Restart

Spec == Init /\ [][Next]_vars

-----------------------------------------------------------------------------
(* Safety.                                                                 *)

\* Work on one thread is serial: no two rows of a thread are ever running,
\* whichever of claims, retries, expiries and restarts made them pending again
\* (the NOT EXISTS of claimableCandidatePredicate).
OneRunningPerThread ==
    \A d, e \in Effect :
        d # e /\ status[d] = "running" /\ status[e] = "running" => ThreadOf[d] # ThreadOf[e]

\* A success is vouched for by the row's latest claim: a claimer that lost its
\* lease to expiry never settles the row that was claimed again after it
\* (claimNext's per-claim lease token).
SucceededByLatestClaim ==
    \A e \in Effect : status[e] = "succeeded" => attempts[e] \in performed[e]

\* "Their external work must not run twice" (settleExpiredLeases): a
\* process-bound effect has at most one claimer alive, and once its execution
\* has ended successfully no slot is on its way to executing it again, however
\* the settlement that followed went.
ProcessBoundRunsOnce ==
    \A e \in Effect : ~ReplaySafe(e) =>
        /\ \A v, w \in Worker : task[v] = e /\ task[w] = e => v = w
        /\ performed[e] # {} =>
              /\ status[e] # "pending"
              /\ \A w \in Worker : task[w] = e => pc[w] = "settling"

\* A settled row never changes again: late settlements, late cancellations,
\* expiries and restarts all leave it alone.
LeavesSettledAlone == \A e \in Effect : status[e] \in Settled => status'[e] = status[e]
SettledIsFinal == [][LeavesSettledAlone]_vars

\* runOnce arms its signal before it re-reads the row so that no cancellation
\* falls "into the gap between the read and signal registration": once the
\* signals of a cancellation have been sent, every slot still executing a
\* cancelled effect has received its own.
CancellationReachesExecution ==
    \A w \in Worker :
        /\ pc[w] = "executing"
        /\ status[task[w]] = "cancelled"
        /\ task[w] \notin retired
        => w \in fired

\* The signal armed before the re-read stays armed for as long as the claim is
\* owned and executing, so that whoever takes the row away can still stop the
\* slot: cancellation signals are kept and cleared by effect id, and a slot that
\* lost the row must not clear its successor's.
SignalStaysArmed ==
    \A w \in Worker :
        pc[w] = "executing" /\ Owned(w) /\ w \notin fired => registered[task[w]] = claim[w]

\* The outbox is a ledger of effects: whatever slots, signals, leases, errors and
\* process losses do, commands see effects that wait, are tried one at a time per
\* thread, and end; work once performed is not tried again unless it is replay-
\* safe, and success is reported for the try that performed it.
LedgerState ==
    [e \in Effect |-> CASE status[e] = "pending" -> "waiting"
                       [] status[e] = "running" -> "working"
                       [] status[e] \in {"failed", "cancelled"} -> "ended"
                       [] OTHER -> status[e]]

Ledger == INSTANCE EffectLedger WITH
    Replayable <- {e \in Effect : ReplaySafe(e)},
    state <- LedgerState, tries <- attempts, done <- performed

KeepsLedger == Ledger!Spec

-----------------------------------------------------------------------------
(* Liveness.                                                               *)

\* Everything but the external work itself is scheduled by the runtime: slots
\* poll, timers fire, the janitor sweeps, the process comes back.
RuntimeFairness ==
    /\ \A w \in Worker :
          /\ WF_vars(Arm(w)) /\ WF_vars(RereadCancelled(w)) /\ WF_vars(BeginExecution(w))
          /\ WF_vars(WithdrawExecution(w)) /\ WF_vars(ExecutionStopped(w)) /\ WF_vars(Settle(w))
          /\ WF_vars(\E e \in Effect : ClaimNext(w, e))
    /\ \A e \in Effect :
          /\ WF_vars(BackoffElapses(e)) /\ WF_vars(LeaseLapses(e))
          /\ WF_vars(SignalCancellation(e)) /\ WF_vars(SignalExpired(e))
    /\ WF_vars(ExpireLeases)
    /\ WF_vars(Restart)

\* Executions end, except those of the effects in Hanging.
FairSpec ==
    /\ Spec /\ RuntimeFairness
    /\ \A w \in Worker :
          WF_vars(task[w] \notin Hanging
                  /\ \E r \in {"success", "notActive", "failure"} : FinishExecution(w, r))

\* "A claimed effect whose worker hung or died stops wedging its thread's
\* queue": every enqueued effect is settled in the end, through retries, hung
\* executions, expiries, database errors and restarts.
EventuallySettled ==
    \A e \in Effect : status[e] = "pending" ~> status[e] \in Settled
=============================================================================
