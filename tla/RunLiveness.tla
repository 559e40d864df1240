---------------------------- MODULE RunLiveness ----------------------------
(***************************************************************************)
(* What keeps the runs of one thread from being stuck, and from being      *)
(* stopped too soon: the command queue behind the thread's lock, the       *)
(* provider-turn start that claims a run by compare-and-set, the detached  *)
(* ingestion fiber that holds the run's lease and finalizes the run, the   *)
(* janitor that cancels orphaned runs, and recovery after a process loss.  *)
(*                                                                         *)
(* A handler that reads the projection and commits later is two steps: the *)
(* thread lock only excludes the other commands, not the ingestion fiber,  *)
(* the effect worker or the janitor.                                       *)
(*                                                                         *)
(* Effect rows are reduced to provider-turn.start/restart (work) and       *)
(* checkpoint.capture (capture); their leases are EffectOutbox's subject.  *)
(* A provider may end a turn as interrupted at any time, which stands for  *)
(* the provider-turn.interrupt effect.                                     *)
(***************************************************************************)
EXTENDS Integers

CONSTANTS
    MaxRuns,      \* messages dispatched to the thread
    MaxAttempts,  \* attempts of a run: the first and its restarts
    MaxLosses,    \* bound: failed starts, failed captures, lost event streams
    MaxStalls,    \* bound: suspensions of the process longer than the lease's ttl
    MaxCrashes    \* bound: losses of the process

ASSUME RunLivenessAssumption ==
    /\ MaxRuns \in Nat \ {0} /\ MaxAttempts \in Nat \ {0}
    /\ MaxLosses \in Nat /\ MaxStalls \in Nat /\ MaxCrashes \in Nat

Run == 1 .. MaxRuns             \* a run is its ordinal
Turn == Run \X (1 .. MaxAttempts)

VARIABLES
    \* the database
    status,    \* status[r] of the run, "none" before its message is dispatched
    active,    \* activeAttemptId
    attempt,   \* attempt[t]: the run attempt's status
    turn,      \* turn[t]: the provider turn; "accepted" until it is projected
    work,      \* work[t]: the provider-turn.start or restart row
    capture,   \* capture[r]: the checkpoint.capture row
    lease,     \* lease[r]: orchestration_v2_run_leases
    quiet,     \* the thread's last event is older than graceMs
    \* the process
    phase,     \* "down", "booting" (layers built), "serving"
    held,      \* the command inside the thread lock, between read and commit
    notices,   \* runs whose terminal event handleTerminalRun has yet to see
    slot,      \* slot[t]: how far the effect worker is with work[t]
    fiber,     \* fiber[t]: the provider-event ingestion fiber
    outcome,   \* outcome[t]: the terminal event the fiber is finalizing
    janitor,   \* the sweep in progress: its stage, and the copy it loaded
    \* history and bounds
    accepted,  \* turns accepted before the last process loss
    losses, stalls, crashes

Lifecycle == INSTANCE RunLifecycle

vars == <<status, active, attempt, turn, work, capture, lease, quiet, phase, held, notices,
          slot, fiber, outcome, janitor, accepted, losses, stalls, crashes>>
budgetVars == <<losses, stalls, crashes>>

Blocking == {"starting", "running", "waiting"}   \* isBlockingRun; "preparing" is not modelled
Outcomes == {"completed", "interrupted", "failed"}
Terminal == Outcomes \cup {"cancelled"}

NoCommand == [kind |-> "none", run |-> 0]

\* What reconcileProjection will write back: the runs with the activeAttemptId
\* they had, their attempts and provider turns in progress, and the turns whose
\* nodes were still open.
NoCopy == [runs |-> {}, active |-> [r \in Run |-> 0], attempts |-> {}, turns |-> {}, nodes |-> {}]
NoSweep == [stage |-> "idle", copy |-> NoCopy]

TypeOK ==
    /\ status \in [Run -> {"none", "queued"} \cup Blocking \cup Terminal]
    /\ active \in [Run -> 0 .. MaxAttempts]
    /\ attempt \in [Turn -> {"none", "pending", "running", "superseded"} \cup Terminal]
    /\ turn \in [Turn -> {"none", "accepted", "running", "ended"}]
    /\ work \in [Turn -> {"none", "pending", "running", "cancelled", "settled"}]
    /\ capture \in [Run -> {"none", "pending", "running", "settled"}]
    /\ lease \in [Run -> {"none", "valid", "expired"}]
    /\ quiet \in BOOLEAN
    /\ phase \in {"down", "booting", "serving"}
    /\ held \in [kind : {"none", "start", "queue", "restart", "interrupt", "promote"},
                 run : 0 .. MaxRuns]
    /\ notices \subseteq Run
    /\ slot \in [Turn -> {"idle", "awaiting", "loading", "baseline", "forked", "turning",
                          "stopping", "failing", "failed"}]
    /\ fiber \in [Turn -> {"none", "forked", "listening", "deciding", "leaving", "gone"}]
    /\ outcome \in [Turn -> {"none"} \cup Outcomes]
    /\ janitor \in [stage : {"idle", "found", "loaded"},
                   copy : [runs : SUBSET Run, active : [Run -> 0 .. MaxAttempts],
                           attempts : SUBSET Turn, turns : SUBSET Turn, nodes : SUBSET Turn]]
    /\ accepted \subseteq Turn
    /\ losses \in Nat /\ stalls \in Nat /\ crashes \in Nat

Init ==
    /\ status = [r \in Run |-> "none"]
    /\ active = [r \in Run |-> 0]
    /\ attempt = [t \in Turn |-> "none"]
    /\ turn = [t \in Turn |-> "none"]
    /\ work = [t \in Turn |-> "none"]
    /\ capture = [r \in Run |-> "none"]
    /\ lease = [r \in Run |-> "none"]
    /\ quiet = FALSE
    /\ phase = "serving"
    /\ held = NoCommand
    /\ notices = {}
    /\ slot = [t \in Turn |-> "idle"]
    /\ fiber = [t \in Turn |-> "none"]
    /\ outcome = [t \in Turn |-> "none"]
    /\ janitor = NoSweep
    /\ accepted = {}
    /\ losses = 0 /\ stalls = 0 /\ crashes = 0

Serving == phase = "serving"
Nonterminal(r) == status[r] \in {"queued"} \cup Blocking
BlockingRun == \E r \in Run : status[r] \in Blocking
CurrentTurn(r) == <<r, active[r]>>
IsCurrent(t) == active[t[1]] = t[2]

\* Mutants: the gate lets every transition through.
RunGateOpen(r, to) == TRUE
AttemptGateOpen(t, to) == TRUE

\* EventSink's gate, inside the commit's transaction.
RunGate(r, to) == Lifecycle!LegalLifecycleTransition("run", status[r], to, "")
AttemptGate(t, to) == Lifecycle!LegalLifecycleTransition("run-attempt", attempt[t], to, "")

-----------------------------------------------------------------------------
(* Commands. The thread lock is held from the read to the commit; a commit *)
(* the gate rejects changes nothing.                                       *)

NextOrdinal(r) == status[r] = "none" /\ \A q \in Run : q < r => status[q] # "none"
NextQueuedRun(r) == status[r] = "queued" /\ \A q \in Run : q < r => status[q] # "queued"

Locked == held # NoCommand

BeginMessage(r) ==
    /\ Serving /\ ~Locked
    /\ NextOrdinal(r)
    /\ held' = [kind |-> IF BlockingRun THEN "queue" ELSE "start", run |-> r]
    /\ UNCHANGED <<status, active, attempt, turn, work, capture, lease, quiet, phase, notices,
                   slot, fiber, outcome, janitor, accepted, budgetVars>>

BeginRestart(r) ==
    /\ Serving /\ ~Locked
    /\ status[r] = "running" /\ active[r] < MaxAttempts
    /\ turn[CurrentTurn(r)] = "running"
    /\ held' = [kind |-> "restart", run |-> r]
    /\ UNCHANGED <<status, active, attempt, turn, work, capture, lease, quiet, phase, notices,
                   slot, fiber, outcome, janitor, accepted, budgetVars>>

\* Only the interrupt of a run without a running provider turn writes the run.
BeginInterrupt(r) ==
    /\ Serving /\ ~Locked
    /\ status[r] \in {"starting", "running"}
    /\ turn[CurrentTurn(r)] # "running"
    /\ held' = [kind |-> "interrupt", run |-> r]
    /\ UNCHANGED <<status, active, attempt, turn, work, capture, lease, quiet, phase, notices,
                   slot, fiber, outcome, janitor, accepted, budgetVars>>

\* Mutant: startNextQueuedRun without the thread's lock.
HandleTerminalRunUnlocked(n) ==
    /\ Serving
    /\ n \in notices
    /\ notices' = notices \ {n}
    /\ \/ /\ ~Locked /\ ~BlockingRun
          /\ \E r \in Run : NextQueuedRun(r) /\ held' = [kind |-> "promote", run |-> r]
       \/ /\ BlockingRun \/ \A r \in Run : status[r] # "queued"
          /\ UNCHANGED held
    /\ UNCHANGED <<status, active, attempt, turn, work, capture, lease, quiet, phase,
                   slot, fiber, outcome, janitor, accepted, budgetVars>>

\* handleTerminalRun: startNextQueuedRun under the thread's lock.
HandleTerminalRun(n) ==
    /\ Serving /\ ~Locked
    /\ n \in notices
    /\ notices' = notices \ {n}
    /\ \/ /\ ~BlockingRun
          /\ \E r \in Run : NextQueuedRun(r) /\ held' = [kind |-> "promote", run |-> r]
       \/ /\ BlockingRun \/ \A r \in Run : status[r] # "queued"
          /\ UNCHANGED held
    /\ UNCHANGED <<status, active, attempt, turn, work, capture, lease, quiet, phase,
                   slot, fiber, outcome, janitor, accepted, budgetVars>>

\* Mutant: retired with the status of another table.
RetireWorkAsInterrupted ==
    [t \in Turn |-> IF work[t] \in {"pending", "running"} THEN "interrupted" ELSE work[t]]

\* Rows of provider-turn.start and provider-turn.restart that are retired.
RetireWork == [t \in Turn |-> IF work[t] \in {"pending", "running"} THEN "cancelled" ELSE work[t]]

CommitMessage ==
    LET r == held.run
        first == <<r, 1>>
    IN  /\ held.kind \in {"start", "queue"}
        /\ status' = [status EXCEPT ![r] = IF held.kind = "start" THEN "starting" ELSE "queued"]
        /\ active' = [active EXCEPT ![r] = 1]
        /\ attempt' = [attempt EXCEPT ![first] = "pending"]
        /\ work' = IF held.kind = "start" THEN [work EXCEPT ![first] = "pending"] ELSE work
        /\ held' = NoCommand
        /\ quiet' = FALSE
        /\ UNCHANGED <<turn, capture, lease, phase, notices, slot, fiber, outcome, janitor,
                       accepted, budgetVars>>

CommitRestart ==
    LET r == held.run
        next == <<r, active[r] + 1>>
    IN  /\ held.kind = "restart"
        /\ RunGate(r, "starting") /\ AttemptGate(CurrentTurn(r), "superseded")
        /\ status' = [status EXCEPT ![r] = "starting"]
        /\ active' = [active EXCEPT ![r] = @ + 1]
        /\ attempt' = [attempt EXCEPT ![CurrentTurn(r)] = "superseded", ![next] = "pending"]
        /\ work' = [work EXCEPT ![next] = "pending"]
        /\ held' = NoCommand
        /\ quiet' = FALSE
        /\ UNCHANGED <<turn, capture, lease, phase, notices, slot, fiber, outcome, janitor,
                       accepted, budgetVars>>

CommitInterrupt ==
    LET r == held.run
    IN  /\ held.kind = "interrupt"
        /\ RunGate(r, "interrupted") /\ AttemptGate(CurrentTurn(r), "interrupted")
        /\ status' = [status EXCEPT ![r] = "interrupted"]
        /\ attempt' = [attempt EXCEPT ![CurrentTurn(r)] = "interrupted"]
        /\ work' = RetireWork
        /\ notices' = notices \cup {r}
        /\ held' = NoCommand
        /\ quiet' = FALSE
        /\ UNCHANGED <<active, turn, capture, lease, phase, slot, fiber, outcome, janitor,
                       accepted, budgetVars>>

CommitPromote ==
    LET r == held.run
    IN  /\ held.kind = "promote"
        /\ RunGate(r, "starting")
        /\ status' = [status EXCEPT ![r] = "starting"]
        /\ work' = [work EXCEPT ![CurrentTurn(r)] = "pending"]
        /\ held' = NoCommand
        /\ quiet' = FALSE
        /\ UNCHANGED <<active, attempt, turn, capture, lease, phase, notices, slot, fiber,
                       outcome, janitor, accepted, budgetVars>>

CommitRejected ==
    LET r == held.run
    IN  /\ \/ held.kind = "restart" /\ ~(RunGate(r, "starting")
                                         /\ AttemptGate(CurrentTurn(r), "superseded"))
           \/ held.kind = "interrupt" /\ ~(RunGate(r, "interrupted")
                                           /\ AttemptGate(CurrentTurn(r), "interrupted"))
           \/ held.kind = "promote" /\ ~RunGate(r, "starting")
        /\ held' = NoCommand
        /\ UNCHANGED <<status, active, attempt, turn, work, capture, lease, quiet, phase,
                       notices, slot, fiber, outcome, janitor, accepted, budgetVars>>

-----------------------------------------------------------------------------
(* The effect worker on a provider-turn.start or restart row.              *)

ThreadIdle == /\ \A t \in Turn : work[t] # "running"
              /\ \A r \in Run : capture[r] # "running"

\* A restart first interrupts the previous attempt and polls for its end.
ClaimWork(t) ==
    /\ Serving
    /\ work[t] = "pending" /\ ThreadIdle
    /\ work' = [work EXCEPT ![t] = "running"]
    /\ slot' = [slot EXCEPT ![t] = IF t[2] = 1 THEN "loading" ELSE "awaiting"]
    /\ UNCHANGED <<status, active, attempt, turn, capture, lease, quiet, phase, held, notices,
                   fiber, outcome, janitor, accepted, budgetVars>>

\* The row is settled unless it was cancelled under the worker.
Finish(t) ==
    /\ slot' = [slot EXCEPT ![t] = "idle"]
    /\ work' = [work EXCEPT ![t] = IF @ = "running" THEN "settled" ELSE @]

\* interruptAndAwaitTerminal goes on when the turn ended, or when its session is
\* no longer live, as it may be once its fiber stopped listening. It gives up on a
\* turn that is still running after a thousand polls.
AwaitPrevious(t) ==
    LET previous == <<t[1], t[2] - 1>>
    IN  /\ slot[t] = "awaiting"
        /\ \/ /\ turn[previous] # "running" \/ fiber[previous] \in {"deciding", "leaving", "gone"}
              /\ slot' = [slot EXCEPT ![t] = "loading"]
              /\ UNCHANGED work
           \/ turn[previous] = "running" /\ Finish(t)
        /\ UNCHANGED <<status, active, attempt, turn, capture, lease, quiet, phase, held,
                       notices, fiber, outcome, janitor, accepted, budgetVars>>

\* writeIfRunCurrent: starting becomes running for the active attempt only.
BeginTurn(t) ==
    LET r == t[1]
        current == IsCurrent(t) /\ status[r] = "starting"
    IN  /\ slot[t] = "loading"
        /\ \/ /\ current
              /\ status' = [status EXCEPT ![r] = "running"]
              /\ attempt' = [attempt EXCEPT ![t] = "running"]
              /\ quiet' = FALSE
              /\ slot' = [slot EXCEPT ![t] = "baseline"]
              /\ UNCHANGED work
           \/ ~current /\ Finish(t) /\ UNCHANGED <<status, attempt, quiet>>
        /\ UNCHANGED <<active, turn, capture, lease, phase, held, notices, fiber, outcome,
                       janitor, accepted, budgetVars>>

ShouldStartProviderTurn(t) == IsCurrent(t) /\ status[t[1]] = "running"

ForkIngestion(t) ==
    /\ slot[t] = "baseline"
    /\ \/ /\ ShouldStartProviderTurn(t)
          /\ slot' = [slot EXCEPT ![t] = "forked"]
          /\ fiber' = [fiber EXCEPT ![t] = "forked"]
          /\ UNCHANGED work
       \/ ~ShouldStartProviderTurn(t) /\ Finish(t) /\ UNCHANGED fiber
    /\ UNCHANGED <<status, active, attempt, turn, capture, lease, quiet, phase, held, notices,
                   outcome, janitor, accepted, budgetVars>>

\* An ingestion fiber is interrupted before or after it acquired the lease.
InterruptFiber(t) ==
    /\ fiber' = [fiber EXCEPT ![t] = IF @ = "forked" THEN "gone"
                                     ELSE IF @ \in {"listening", "deciding"} THEN "leaving" ELSE @]
    /\ outcome' = [outcome EXCEPT ![t] = "none"]

StartTurn(t) ==
    /\ slot[t] = "forked"
    /\ \/ /\ ShouldStartProviderTurn(t)
          /\ turn' = [turn EXCEPT ![t] = "accepted"]
          /\ slot' = [slot EXCEPT ![t] = "turning"]
          /\ UNCHANGED <<fiber, outcome>>
       \/ /\ ~ShouldStartProviderTurn(t)
          /\ InterruptFiber(t)
          /\ slot' = [slot EXCEPT ![t] = "stopping"]
          /\ UNCHANGED turn
    /\ UNCHANGED <<status, active, attempt, work, capture, lease, quiet, phase, held, notices,
                   janitor, accepted, budgetVars>>

\* startTurn has returned, or the interrupted fiber is gone. The answer of the
\* provider takes longer than the forked fiber's first step, its lease.
EndWork(t) ==
    /\ \/ slot[t] = "turning" /\ fiber[t] # "forked"
       \/ slot[t] = "stopping" /\ fiber[t] = "gone"
    /\ Finish(t)
    /\ UNCHANGED <<status, active, attempt, turn, capture, lease, quiet, phase, held, notices,
                   fiber, outcome, janitor, accepted, budgetVars>>

\* startTurn fails: its fiber is interrupted, then the run is finalized as failed.
StartTurnFails(t) ==
    /\ losses < MaxLosses /\ losses' = losses + 1
    /\ slot[t] = "forked"
    /\ ShouldStartProviderTurn(t)
    /\ InterruptFiber(t)
    /\ slot' = [slot EXCEPT ![t] = "failing"]
    /\ UNCHANGED <<status, active, attempt, turn, work, capture, lease, quiet, phase, held,
                   notices, janitor, accepted, stalls, crashes>>

\* An earlier stage fails until the row's attempts are exhausted.
StartError(t) ==
    /\ losses < MaxLosses /\ losses' = losses + 1
    /\ slot[t] \in {"awaiting", "loading", "baseline"}
    /\ Finish(t)
    /\ UNCHANGED <<status, active, attempt, turn, capture, lease, quiet, phase, held, notices,
                   fiber, outcome, janitor, accepted, stalls, crashes>>

\* The signal of a cancelled row interrupts its execution; the ingestion fiber
\* is detached and stays.
StopWork(t) ==
    /\ work[t] = "cancelled" /\ slot[t] # "idle"
    /\ slot' = [slot EXCEPT ![t] = "idle"]
    /\ UNCHANGED <<status, active, attempt, turn, work, capture, lease, quiet, phase, held,
                   notices, fiber, outcome, janitor, accepted, budgetVars>>

-----------------------------------------------------------------------------
(* The ingestion fiber.                                                    *)

AcquireLease(t) ==
    /\ fiber[t] = "forked"
    /\ fiber' = [fiber EXCEPT ![t] = "listening"]
    /\ lease' = [lease EXCEPT ![t[1]] = "valid"]
    /\ UNCHANGED <<status, active, attempt, turn, work, capture, quiet, phase, held, notices,
                   slot, outcome, janitor, accepted, budgetVars>>

\* provider_turn.updated events, projected in order.
IngestTurn(t) ==
    /\ fiber[t] = "listening"
    /\ turn[t] \in {"accepted", "running"}
    /\ turn' = [turn EXCEPT ![t] = IF @ = "accepted" THEN "running" ELSE "ended"]
    /\ quiet' = FALSE
    /\ UNCHANGED <<status, active, attempt, work, capture, lease, phase, held, notices, slot,
                   fiber, outcome, janitor, accepted, budgetVars>>

ShouldFinalizeRun(t) == IsCurrent(t) /\ status[t[1]] \in {"starting", "running"}

\* Whether to finalize is read before the final write.
Decide(t, o) ==
    /\ fiber[t] = "listening"
    /\ fiber' = [fiber EXCEPT ![t] = IF ShouldFinalizeRun(t) THEN "deciding" ELSE "leaving"]
    /\ outcome' = [outcome EXCEPT ![t] = IF ShouldFinalizeRun(t) THEN o ELSE @]
    /\ UNCHANGED <<status, active, attempt, turn, work, capture, lease, quiet, phase, held,
                   notices, slot, janitor, accepted, stalls, crashes>>

IngestTerminal(t, o) ==
    /\ turn[t] = "ended"
    /\ Decide(t, o)
    /\ UNCHANGED losses

\* The session fails, and with it the fiber's event stream.
StreamFails(t) ==
    /\ losses < MaxLosses /\ losses' = losses + 1
    /\ Decide(t, "failed")

\* A session without a turn in progress is released after its idle timeout; that
\* fails the streams of fibers still waiting for a turn that never started.
IdleRelease(t) ==
    /\ slot[t] = "idle" /\ turn[t] = "none"
    /\ \A u \in Turn : fiber[u] = "listening" => turn[u] = "none"
    /\ Decide(t, "failed")
    /\ UNCHANGED losses

\* The final events carry the run as it was when the turn started.
WriteFinalRunEvents(t, o) ==
    LET r == t[1]
        persisted == IF o = "completed" THEN "waiting" ELSE o
    IN  IF RunGate(r, persisted) /\ AttemptGate(t, o)
        THEN /\ status' = [status EXCEPT ![r] = persisted]
             /\ active' = [active EXCEPT ![r] = t[2]]
             /\ attempt' = [attempt EXCEPT ![t] = o]
             /\ capture' = IF o = "completed" /\ capture[r] = "none"
                           THEN [capture EXCEPT ![r] = "pending"] ELSE capture
             /\ notices' = IF persisted \in Terminal THEN notices \cup {r} ELSE notices
             /\ quiet' = FALSE
        ELSE UNCHANGED <<status, active, attempt, capture, notices, quiet>>

FinalizeRootRun(t) ==
    /\ fiber[t] = "deciding"
    /\ WriteFinalRunEvents(t, outcome[t])
    /\ fiber' = [fiber EXCEPT ![t] = "leaving"]
    /\ outcome' = [outcome EXCEPT ![t] = "none"]
    /\ UNCHANGED <<turn, work, lease, phase, held, slot, janitor, accepted, budgetVars>>

\* The fiber dies without finalizing: its final write fails.
FiberDies(t) ==
    /\ losses < MaxLosses /\ losses' = losses + 1
    /\ fiber[t] \in {"listening", "deciding"}
    /\ fiber' = [fiber EXCEPT ![t] = "leaving"]
    /\ outcome' = [outcome EXCEPT ![t] = "none"]
    /\ UNCHANGED <<status, active, attempt, turn, work, capture, lease, quiet, phase, held,
                   notices, slot, janitor, accepted, stalls, crashes>>

\* The row is deleted by run and process, whichever fiber acquired it last.
ReleaseLease(t) ==
    /\ fiber[t] = "leaving"
    /\ fiber' = [fiber EXCEPT ![t] = "gone"]
    /\ lease' = [lease EXCEPT ![t[1]] = "none"]
    /\ UNCHANGED <<status, active, attempt, turn, work, capture, quiet, phase, held, notices,
                   slot, outcome, janitor, accepted, budgetVars>>

DecideFailure(t) ==
    /\ slot[t] = "failing"
    /\ fiber[t] = "gone"
    /\ \/ /\ ShouldFinalizeRun(t)
          /\ slot' = [slot EXCEPT ![t] = "failed"]
          /\ UNCHANGED work
       \/ ~ShouldFinalizeRun(t) /\ Finish(t)
    /\ UNCHANGED <<status, active, attempt, turn, capture, lease, quiet, phase, held, notices,
                   fiber, outcome, janitor, accepted, budgetVars>>

WriteFailure(t) ==
    /\ slot[t] = "failed"
    /\ WriteFinalRunEvents(t, "failed")
    /\ Finish(t)
    /\ UNCHANGED <<turn, lease, phase, held, fiber, outcome, janitor, accepted, budgetVars>>

-----------------------------------------------------------------------------
(* Checkpoint capture: completes a run parked at "waiting".                *)

ClaimCapture(r) ==
    /\ Serving
    /\ capture[r] = "pending" /\ ThreadIdle
    /\ status[r] = "waiting"
    /\ capture' = [capture EXCEPT ![r] = "running"]
    /\ UNCHANGED <<status, active, attempt, turn, work, lease, quiet, phase, held, notices,
                   slot, fiber, outcome, janitor, accepted, budgetVars>>

CommitCapture(r) ==
    /\ Serving
    /\ capture[r] = "running"
    /\ capture' = [capture EXCEPT ![r] = "settled"]
    /\ IF RunGate(r, "completed")
       THEN /\ status' = [status EXCEPT ![r] = "completed"]
            /\ notices' = notices \cup {r}
            /\ quiet' = FALSE
       ELSE UNCHANGED <<status, notices, quiet>>
    /\ UNCHANGED <<active, attempt, turn, work, lease, phase, held, slot, fiber, outcome,
                   janitor, accepted, budgetVars>>

\* The target is no longer waiting, or the capture fails until it is exhausted.
CaptureFails(r) ==
    /\ Serving
    /\ \/ capture[r] = "pending" /\ ThreadIdle /\ status[r] # "waiting" /\ UNCHANGED losses
       \/ capture[r] = "running" /\ losses < MaxLosses /\ losses' = losses + 1
    /\ capture' = [capture EXCEPT ![r] = "settled"]
    /\ UNCHANGED <<status, active, attempt, turn, work, lease, quiet, phase, held, notices,
                   slot, fiber, outcome, janitor, accepted, stalls, crashes>>

-----------------------------------------------------------------------------
(* Leases and the janitor.                                                 *)

Holders(r) == {t \in Turn : t[1] = r /\ fiber[t] \in {"listening", "deciding", "leaving"}}

LeaseExpires(r) ==
    /\ lease[r] = "valid"
    /\ Holders(r) = {}
    /\ lease' = [lease EXCEPT ![r] = "expired"]
    /\ UNCHANGED <<status, active, attempt, turn, work, capture, quiet, phase, held, notices,
                   slot, fiber, outcome, janitor, accepted, budgetVars>>

\* The machine sleeps: on resume the lease is past its wall-clock expiry and the
\* thread's last event beyond the grace period, before any renewal ran.
Suspend(r) ==
    /\ stalls < MaxStalls /\ stalls' = stalls + 1
    /\ Serving
    /\ lease[r] = "valid"
    /\ lease' = [lease EXCEPT ![r] = "expired"]
    /\ quiet' = TRUE
    /\ UNCHANGED <<status, active, attempt, turn, work, capture, phase, held, notices, slot,
                   fiber, outcome, janitor, accepted, losses, crashes>>

\* Renewal updates an existing row only.
Renew(r) ==
    /\ lease[r] = "expired"
    /\ Holders(r) # {}
    /\ lease' = [lease EXCEPT ![r] = "valid"]
    /\ UNCHANGED <<status, active, attempt, turn, work, capture, quiet, phase, held, notices,
                   slot, fiber, outcome, janitor, accepted, budgetVars>>

\* graceMs passes without an event. It outlasts the handoff gaps of a command,
\* of the terminal-run stream and of a fiber that has yet to acquire its lease.
GraceElapses ==
    /\ ~quiet
    /\ ~Locked /\ notices = {}
    /\ \A t \in Turn : fiber[t] # "forked"
    /\ quiet' = TRUE
    /\ UNCHANGED <<status, active, attempt, turn, work, capture, lease, phase, held, notices,
                   slot, fiber, outcome, janitor, accepted, budgetVars>>

\* Mutant: the orphan query forgets the leases.
UncoveredByEffects ==
    /\ \A t \in Turn : work[t] \notin {"pending", "running"}
    /\ \A r \in Run : capture[r] \notin {"pending", "running"}

\* Mutant: a cancelled effect still covers its thread.
UncoveredUnlessCancelled ==
    /\ \A r \in Run : lease[r] # "valid"
    /\ \A t \in Turn : work[t] \in {"none", "settled"}
    /\ \A r \in Run : capture[r] \notin {"pending", "running"}

Uncovered ==
    /\ \A r \in Run : lease[r] # "valid"
    /\ \A t \in Turn : work[t] \notin {"pending", "running"}
    /\ \A r \in Run : capture[r] \notin {"pending", "running"}

\* Expired leases are pruned and the orphans queried at the same instant.
JanitorFind ==
    /\ Serving
    /\ janitor = NoSweep
    /\ Uncovered /\ quiet
    /\ \E r \in Run : Nonterminal(r)
    /\ janitor' = [stage |-> "found", copy |-> [NoCopy EXCEPT !.runs = {r \in Run : Nonterminal(r)}]]
    /\ lease' = [r \in Run |-> IF lease[r] = "expired" THEN "none" ELSE lease[r]]
    /\ UNCHANGED <<status, active, attempt, turn, work, capture, quiet, phase, held, notices,
                   slot, fiber, outcome, accepted, budgetVars>>

\* Mutant: the prune forgets the expiry.
JanitorPruneAll ==
    /\ Serving
    /\ janitor = NoSweep
    /\ \E r \in Run : lease[r] # "none"
    /\ ~(Uncovered /\ quiet /\ \E r \in Run : Nonterminal(r))
    /\ lease' = [r \in Run |-> "none"]
    /\ UNCHANGED <<status, active, attempt, turn, work, capture, quiet, phase, held, notices,
                   slot, fiber, outcome, janitor, accepted, budgetVars>>

JanitorPrune ==
    /\ Serving
    /\ janitor = NoSweep
    /\ \E r \in Run : lease[r] = "expired"
    /\ ~(Uncovered /\ quiet /\ \E r \in Run : Nonterminal(r))
    /\ lease' = [r \in Run |-> IF lease[r] = "expired" THEN "none" ELSE lease[r]]
    /\ UNCHANGED <<status, active, attempt, turn, work, capture, quiet, phase, held, notices,
                   slot, fiber, outcome, janitor, accepted, budgetVars>>

\* Mutant: every waiting run counts as waiting for its checkpoint.
ReplayableWaiting(r) == status[r] = "waiting"

ReplayableCapture(r) == status[r] = "waiting" /\ capture[r] \in {"pending", "running"}

\* Runs that ended, or wait for their checkpoint, are left out.
Loaded(S) ==
    LET runs == {r \in S : Nonterminal(r) /\ ~ReplayableCapture(r)}
        turnsOf == {t \in Turn : t[1] \in runs}
    IN  [runs |-> runs,
         active |-> [r \in Run |-> IF r \in runs THEN active[r] ELSE 0],
         attempts |-> {t \in turnsOf : attempt[t] \in {"pending", "running"}},
         turns |-> {t \in turnsOf : turn[t] = "running"},
         nodes |-> {t \in turnsOf : fiber[t] = "listening"}]

\* janitorThread reads the projection again, but not the leases.
JanitorLoad ==
    /\ janitor.stage = "found"
    /\ janitor' = [stage |-> "loaded", copy |-> Loaded(janitor.copy.runs)]
    /\ UNCHANGED <<status, active, attempt, turn, work, capture, lease, quiet, phase, held,
                   notices, slot, fiber, outcome, accepted, budgetVars>>

\* The copy is written back, activeAttemptId included, with what was in progress
\* in it now cancelled. Provider turns pass no gate.
Cancel(copy) ==
    /\ status' = [r \in Run |-> IF r \in copy.runs THEN "cancelled" ELSE status[r]]
    /\ active' = [r \in Run |-> IF r \in copy.runs THEN copy.active[r] ELSE active[r]]
    /\ attempt' = [t \in Turn |-> IF t \in copy.attempts THEN "cancelled" ELSE attempt[t]]
    /\ turn' = [t \in Turn |-> IF t \in copy.turns THEN "ended" ELSE turn[t]]
    /\ quiet' = (quiet /\ copy.runs = {})

\* Mutant: the gate looks at the runs only.
CopyGateOfRuns(copy) == \A r \in copy.runs : RunGate(r, "cancelled")

CopyGate(copy) ==
    /\ \A r \in copy.runs : RunGate(r, "cancelled")
    /\ \A t \in copy.attempts : AttemptGate(t, "cancelled")

\* One transaction: the gate rejects the whole of it when a run, an attempt or a
\* node of the copy has ended since the read. Nothing tells handleTerminalRun: it
\* skips reconciliation events.
JanitorTerminalize ==
    /\ janitor.stage = "loaded"
    /\ janitor' = NoSweep
    /\ \/ CopyGate(janitor.copy) /\ Cancel(janitor.copy) /\ work' = RetireWork
       \/ /\ ~CopyGate(janitor.copy) \/ janitor.copy.nodes # {}
          /\ UNCHANGED <<status, active, attempt, turn, work, quiet>>
    /\ UNCHANGED <<capture, lease, phase, held, notices, slot, fiber, outcome, accepted,
                   budgetVars>>

-----------------------------------------------------------------------------
(* Process loss, layer construction, startup reconciliation.               *)

Crash ==
    /\ crashes < MaxCrashes /\ crashes' = crashes + 1
    /\ Serving
    /\ phase' = "down"
    /\ held' = NoCommand
    /\ notices' = {}
    /\ slot' = [t \in Turn |-> "idle"]
    /\ fiber' = [t \in Turn |-> IF fiber[t] = "none" THEN "none" ELSE "gone"]
    /\ outcome' = [t \in Turn |-> "none"]
    /\ janitor' = NoSweep
    /\ accepted' = {t \in Turn : attempt[t] # "none"}
    /\ UNCHANGED <<status, active, attempt, turn, work, capture, lease, quiet, losses, stalls>>

\* Mutant: a queued run is resumed beside a blocking one.
ResumeQueuedRunsUnchecked ==
    /\ phase = "down"
    /\ phase' = "booting"
    /\ IF \A r \in Run : status[r] # "queued"
       THEN UNCHANGED <<status, work, quiet>>
       ELSE \E r \in Run :
              /\ NextQueuedRun(r)
              /\ status' = [status EXCEPT ![r] = "starting"]
              /\ work' = [work EXCEPT ![CurrentTurn(r)] = "pending"]
              /\ quiet' = FALSE
    /\ UNCHANGED <<active, attempt, turn, capture, lease, held, notices, slot, fiber, outcome,
                   janitor, accepted, budgetVars>>

\* resumeQueuedRuns runs while the orchestrator layer is built, which is before
\* the startup reconciliation.
ResumeQueuedRuns ==
    /\ phase = "down"
    /\ phase' = "booting"
    /\ IF BlockingRun \/ \A r \in Run : status[r] # "queued"
       THEN UNCHANGED <<status, work, quiet>>
       ELSE \E r \in Run :
              /\ NextQueuedRun(r)
              /\ status' = [status EXCEPT ![r] = "starting"]
              /\ work' = [work EXCEPT ![CurrentTurn(r)] = "pending"]
              /\ quiet' = FALSE
    /\ UNCHANGED <<active, attempt, turn, capture, lease, held, notices, slot, fiber, outcome,
                   janitor, accepted, budgetVars>>

\* Mutant: reconciliation cancels the runs and leaves their work in the outbox.
RecoverKeepingWork ==
    /\ phase = "booting"
    /\ phase' = "serving"
    /\ Cancel(Loaded(Run))
    /\ capture' = [r \in Run |-> IF capture[r] = "running" THEN "pending" ELSE capture[r]]
    /\ UNCHANGED <<work, lease, held, notices, slot, fiber, outcome, janitor, accepted, budgetVars>>

\* reconcile("startup"), then reconcileAfterProcessLoss. Nothing else writes
\* between its read and its commit, so its copy is not stale.
Recover ==
    /\ phase = "booting"
    /\ phase' = "serving"
    /\ Cancel(Loaded(Run))
    /\ work' = RetireWork
    /\ capture' = [r \in Run |-> IF capture[r] = "running" THEN "pending" ELSE capture[r]]
    /\ UNCHANGED <<lease, held, notices, slot, fiber, outcome, janitor, accepted, budgetVars>>

-----------------------------------------------------------------------------
Command ==
    \/ \E r \in Run : BeginMessage(r) \/ BeginRestart(r) \/ BeginInterrupt(r)
    \/ \E n \in Run : HandleTerminalRun(n)
    \/ CommitMessage \/ CommitRestart \/ CommitInterrupt \/ CommitPromote \/ CommitRejected

TurnStep(t) ==
    \/ ClaimWork(t) \/ AwaitPrevious(t) \/ BeginTurn(t) \/ ForkIngestion(t) \/ StartTurn(t)
    \/ EndWork(t) \/ DecideFailure(t) \/ WriteFailure(t) \/ StopWork(t)
    \/ AcquireLease(t) \/ IngestTurn(t) \/ (\E o \in Outcomes : IngestTerminal(t, o))
    \/ IdleRelease(t) \/ FinalizeRootRun(t) \/ ReleaseLease(t)

Loss(t) == StartTurnFails(t) \/ StartError(t) \/ StreamFails(t) \/ FiberDies(t)

JanitorStep == JanitorFind \/ JanitorPrune \/ JanitorLoad \/ JanitorTerminalize

RunStep(r) == ClaimCapture(r) \/ CommitCapture(r) \/ CaptureFails(r) \/ LeaseExpires(r) \/ Renew(r)

Next ==
    \/ Command
    \/ \E t \in Turn : TurnStep(t) \/ Loss(t)
    \/ \E r \in Run : RunStep(r) \/ Suspend(r)
    \/ GraceElapses
    \/ JanitorStep
    \/ Crash \/ ResumeQueuedRuns \/ Recover

Spec == Init /\ [][Next]_vars

\* Weak fairness for what the process does by itself: the effect daemon and the
\* fibers it forks, the terminal-run stream, a held command's commit, the
\* janitor's interval, and the boot sequence. Messages, restarts, interrupts,
\* losses, suspensions and crashes are the environment's.
Fairness ==
    /\ \A t \in Turn : WF_vars(TurnStep(t))
    /\ \A r \in Run : WF_vars(RunStep(r)) /\ WF_vars(HandleTerminalRun(r))
    /\ WF_vars(CommitMessage \/ CommitRestart \/ CommitInterrupt \/ CommitPromote \/ CommitRejected)
    /\ WF_vars(GraceElapses) /\ WF_vars(JanitorStep)
    /\ WF_vars(ResumeQueuedRuns \/ Recover)

FairSpec == Spec /\ Fairness

-----------------------------------------------------------------------------
(* Properties.                                                             *)

\* A thread works on one run at a time: whatever commands, the terminal-run
\* stream and the boot sequence interleave, no two runs block it.
OneBlockingRun ==
    \A r, q \in Run : status[r] \in Blocking /\ status[q] \in Blocking => r = q

\* A run that ended never changes status again: not by a finalizer, a janitor
\* or a checkpoint capture that read the run before it ended.
EndedRunsStayEnded == [][\A r \in Run : status[r] \in Terminal => status'[r] = status[r]]_vars

\* Neither the fiber of a superseded attempt nor the janitor takes the run back
\* from the restart that replaced it, though each writes a copy of the run, with its
\* activeAttemptId, that may have been made before the restart.
AttemptNeverGoesBack == [][\A r \in Run : active'[r] >= active[r]]_vars

\* Work accepted before a process loss is cancelled by recovery, never executed
\* again by the effect worker of the next process.
RestartReplaysNothing == Serving => \A t \in accepted : slot[t] = "idle"

\* Nothing was lost, the machine never slept and no run was restarted. (The fiber
\* of a superseded attempt may delete its successor's lease.)
Undisturbed == losses = 0 /\ stalls = 0 /\ \A r \in Run : active[r] <= 1

\* In an undisturbed thread a queued run always has a run before it, an unread
\* terminal event or a command in flight that will promote it, across a restart of
\* the process too.
QueueIsServed ==
    Serving /\ Undisturbed /\ (\E r \in Run : status[r] = "queued")
        => BlockingRun \/ notices # {} \/ Locked

\* While the ingestion fiber of the active attempt lives, its run has a lease
\* that has not expired.
LiveFiberHoldsLease ==
    \A t \in Turn : IsCurrent(t) /\ fiber[t] \in {"listening", "deciding"} => lease[t[1]] = "valid"

\* "The lease is held (and renewed) exactly as long as this fiber is alive": so
\* it is for the fiber of a run that was never restarted, as long as the machine
\* was never suspended, whatever else is lost.
UndisturbedFiberHoldsLease ==
    stalls = 0 =>
        \A t \in Turn : /\ IsCurrent(t) /\ t[2] = 1
                        /\ fiber[t] \in {"listening", "deciding"}
                        => lease[t[1]] = "valid"

\* Nor does the janitor cancel the thread's first run while that fiber lives. (A
\* later one it may: queued when the sweep finds it beside an orphan, promoted and
\* leased before the sweep commits.)
JanitorSparesUndisturbedRuns ==
    [][JanitorTerminalize /\ stalls = 0 =>
         \A t \in Turn : /\ IsCurrent(t) /\ t = <<1, 1>>
                         /\ fiber[t] \in {"listening", "deciding"}
                         => status'[t[1]] = status[t[1]]]_vars

\* Every run ends: whatever is lost, a run that was dispatched and is not queued
\* reaches a terminal status, through its fiber, the janitor or recovery.
EveryRunEnds == \A r \in Run : Nonterminal(r) ~> (status[r] \in Terminal)
=============================================================================
