--------------------------- MODULE RunQueueProofs ---------------------------
(***************************************************************************)
(* Two promises of RunLiveness that need more than its types and locks.    *)
(* A queued run of an undisturbed thread is always served: QueueInv is     *)
(* inductive beside IInv; while nothing is lost, every run that blocks the *)
(* thread has a row, a fiber or a capture that will end it (Covered), its  *)
(* end is told to handleTerminalRun, and the janitor finds nothing to      *)
(* sweep. And a sweep spares the thread's first run while that run's first *)
(* fiber lives, though it commits on an old query: SparedInv is inductive. *)
(***************************************************************************)
EXTENDS RunLivenessProofs

\* A row that waits for its claim has neither a worker nor a fiber, and the worker
\* has no fiber before it forks one.
UnforkedInv ==
    \A t \in Turn : /\ work[t] = "pending" => slot[t] = "idle" /\ fiber[t] = "none"
                    /\ slot[t] \in {"awaiting", "loading", "baseline"} => fiber[t] = "none"

\* A restart or an interrupt in the lock is of the run that blocks the thread.
SoleInv == held.kind \in {"restart", "interrupt"} =>
               \A r \in Run : status[r] \in Blocking => r = held.run

\* The grace period does not pass while a run's end is unread or a promotion is in
\* the lock.
QuietInv == stalls = 0 /\ quiet => notices = {} /\ held.kind # "promote"

\* What will end a run that blocks an undisturbed thread: its row, then its fiber,
\* then its checkpoint.
StartCovered(t) ==
    /\ capture[t[1]] = "none"
    /\ \/ work[t] = "pending" /\ slot[t] = "idle"
       \/ work[t] = "running" /\ slot[t] = "loading"

RunCovered(t) ==
    /\ attempt[t] = "running" /\ capture[t[1]] = "none"
    /\ \/ work[t] = "running" /\ slot[t] = "baseline"
       \/ work[t] = "running" /\ slot[t] \in {"forked", "turning"} /\ fiber[t] = "forked"
       \/ fiber[t] \in {"listening", "deciding"}

Covered(t) ==
    /\ status[t[1]] = "starting" => StartCovered(t)
    /\ status[t[1]] = "running" => RunCovered(t)
    /\ status[t[1]] = "waiting" => capture[t[1]] \in {"pending", "running"}

CoverInv == Serving /\ Undisturbed => \A t \in Turn : t[2] = 1 => Covered(t)

\* Some run is queued, or will be by the command in the lock.
Queueing == held.kind = "queue" \/ \E r \in Run : status[r] = "queued"

ServedInv ==
    Serving /\ Undisturbed =>
        /\ Queueing => BlockingRun \/ notices # {} \/ held.kind = "promote"
        /\ held.kind = "promote" => status[held.run] = "queued"

\* The janitor finds no orphan.
SweepIdle == Undisturbed => janitor = NoSweep

QueueInv == IInv /\ UnforkedInv /\ SoleInv /\ QuietInv /\ CoverInv /\ ServedInv /\ SweepIdle

-----------------------------------------------------------------------------
LEMMA QueueInit == Init => QueueInv
<1> SUFFICES ASSUME Init PROVE QueueInv
  OBVIOUS
<1>1. IInv
  BY InitInv
<1>2. UnforkedInv /\ QuietInv /\ SweepIdle
  BY DEF Init, UnforkedInv, QuietInv, SweepIdle
<1>3. SoleInv /\ ServedInv
  BY DEF Init, SoleInv, ServedInv, Queueing, NoCommand
<1>4. CoverInv
  BY TurnParts DEF Init, CoverInv, Covered
<1> QED
  BY <1>1, <1>2, <1>3, <1>4 DEF QueueInv

\* Losses are only counted up.
LEMMA LossesGrow == IInv /\ [Next]_vars => losses' = losses \/ losses' = losses + 1
<1> SUFFICES ASSUME IInv, [Next]_vars PROVE losses' = losses \/ losses' = losses + 1
  OBVIOUS
<1>1. ASSUME NEW t \in Turn, \/ ClaimWork(t) \/ AwaitPrevious(t) \/ BeginTurn(t)
                             \/ ForkIngestion(t) \/ StartTurn(t) \/ EndWork(t)
                             \/ DecideFailure(t) \/ WriteFailure(t) \/ StopWork(t)
      PROVE  losses' = losses
  BY <1>1 DEF ClaimWork, AwaitPrevious, BeginTurn, ForkIngestion, StartTurn, EndWork,
              DecideFailure, WriteFailure, StopWork, budgetVars
<1>2. ASSUME NEW t \in Turn, \/ AcquireLease(t) \/ IngestTurn(t) \/ FinalizeRootRun(t)
                             \/ (\E o \in Outcomes : IngestTerminal(t, o))
                             \/ IdleRelease(t) \/ ReleaseLease(t)
      PROVE  losses' = losses
  BY <1>2 DEF AcquireLease, IngestTurn, FinalizeRootRun, IngestTerminal, IdleRelease, ReleaseLease,
              budgetVars
<1>3. ASSUME NEW t \in Turn, Loss(t) PROVE losses' = losses + 1
  BY <1>3 DEF Loss, StartTurnFails, StartError, StreamFails, FiberDies
<1>4. ASSUME NEW r \in Run, RunStep(r) \/ Suspend(r)
      PROVE  losses' = losses \/ losses' = losses + 1
  BY <1>4 DEF RunStep, ClaimCapture, CommitCapture, CaptureFails, LeaseExpires, Renew, Suspend,
              budgetVars
<1>5. CASE GraceElapses \/ JanitorStep \/ Crash \/ ResumeQueuedRuns \/ Recover \/ UNCHANGED vars
  BY <1>5 DEF GraceElapses, JanitorStep, JanitorFind, JanitorPrune, JanitorLoad,
              JanitorTerminalize, Crash, ResumeQueuedRuns, Recover, vars, budgetVars
<1>6. ASSUME NEW r \in Run, \/ BeginMessage(r) \/ BeginRestart(r) \/ BeginInterrupt(r)
                            \/ HandleTerminalRun(r)
      PROVE  losses' = losses
  BY <1>6 DEF BeginMessage, BeginRestart, BeginInterrupt, HandleTerminalRun, budgetVars
<1>7. CASE CommitMessage \/ CommitRestart \/ CommitInterrupt \/ CommitPromote \/ CommitRejected
  BY <1>7 DEF CommitMessage, CommitRestart, CommitInterrupt, CommitPromote, CommitRejected,
              budgetVars
<1> QED
  BY <1>1, <1>2, <1>3, <1>4, <1>5, <1>6, <1>7 DEF Next, TurnStep, Command

\* A thread that is undisturbed was so before, and nothing disturbed it.
LEMMA StaysUndisturbed ==
    ASSUME IInv, [Next]_vars, Undisturbed'
    PROVE  /\ Undisturbed /\ UNCHANGED <<losses, stalls>>
           /\ ~CommitRestart
           /\ \A t \in Turn : ~Loss(t)
           /\ \A r \in Run : ~Suspend(r)
<1>1. /\ losses \in Nat /\ stalls \in Nat /\ MaxAttempts \in Nat
      /\ active \in [Run -> 0 .. MaxAttempts]
  BY RunLivenessAssumption DEF IInv, TypeOK
<1>2. losses = 0 /\ losses' = 0
  BY <1>1, LossesGrow DEF Undisturbed
<1>3. stalls = 0 /\ stalls' = 0
  BY <1>1, StallsGrow DEF Undisturbed
<1>4. active' \in [Run -> 0 .. MaxAttempts]
  BY TypeStep DEF TypeOK
<1>5. ASSUME NEW r \in Run PROVE active[r] <= 1
  BY <1>1, <1>4, RunsAdvance DEF Undisturbed
<1>6. ~CommitRestart
  <2> SUFFICES ASSUME CommitRestart PROVE FALSE
    OBVIOUS
  <2>1. held.run \in Run /\ active[held.run] # 0
    BY DEF CommitRestart, IInv, HeldInv, AttemptInv, Started, Blocking, Terminal, Outcomes
  <2>2. active'[held.run] = active[held.run] + 1
    BY <1>1, <2>1 DEF CommitRestart
  <2> QED
    BY <1>1, <2>1, <2>2 DEF Undisturbed
<1>7. \A t \in Turn : ~Loss(t)
  BY <1>2 DEF Loss, StartTurnFails, StartError, StreamFails, FiberDies
<1>8. \A r \in Run : ~Suspend(r)
  BY <1>3 DEF Suspend
<1> QED
  BY <1>2, <1>3, <1>5, <1>6, <1>7, <1>8 DEF Undisturbed

\* There a row, and whatever works on it, is of its run's first attempt.
LEMMA FirstTurns ==
    ASSUME IInv, Undisturbed, NEW t \in Turn, work[t] # "none"
    PROVE  t[2] = 1 /\ active[t[1]] = 1
<1>1. t[1] \in Run /\ t[2] \in 1 .. MaxAttempts /\ t[2] <= active[t[1]]
  BY TurnParts DEF IInv, WorkInv
<1>2. active[t[1]] \in 0 .. MaxAttempts /\ MaxAttempts \in Nat /\ active[t[1]] <= 1
  BY <1>1, RunLivenessAssumption DEF IInv, TypeOK, Undisturbed
<1> QED
  BY <1>1, <1>2

-----------------------------------------------------------------------------
(* Rows, workers and fibers.                                                *)

\* How a step moves a worker: it claims the row, begins the turn, starts or fails it.
LEMMA SlotMoves ==
    ASSUME IInv, [Next]_vars, NEW t \in Turn
    PROVE  \/ slot'[t] = slot[t] \/ slot'[t] = "idle"
           \/ ClaimWork(t)
           \/ slot'[t] \in {"loading", "baseline"} /\ slot[t] \in {"awaiting", "loading"}
           \/ slot'[t] \in {"forked", "turning"} /\ slot[t] # "idle"
           \/ slot'[t] \in {"stopping", "failing", "failed"} /\ slot[t] # "idle" /\ fiber'[t] # "forked"
<1> DEFINE Goal ==
       \/ slot'[t] = slot[t] \/ slot'[t] = "idle"
       \/ ClaimWork(t)
       \/ slot'[t] \in {"loading", "baseline"} /\ slot[t] \in {"awaiting", "loading"}
       \/ slot'[t] \in {"forked", "turning"} /\ slot[t] # "idle"
       \/ slot'[t] \in {"stopping", "failing", "failed"} /\ slot[t] # "idle" /\ fiber'[t] # "forked"
<1>1. /\ slot \in [Turn -> {"idle", "awaiting", "loading", "baseline", "forked", "turning",
                            "stopping", "failing", "failed"}]
      /\ fiber \in [Turn -> {"none", "forked", "listening", "deciding", "leaving", "gone"}]
  BY DEF IInv, TypeOK
<1>2. CASE slot' = slot
  BY <1>2
<1>3. ASSUME NEW u \in Turn, Finish(u) PROVE Goal
  BY <1>1, <1>3 DEF Finish
<1>4. ASSUME NEW u \in Turn, ClaimWork(u) PROVE Goal
  BY <1>1, <1>4 DEF ClaimWork
<1>5. ASSUME NEW u \in Turn, AwaitPrevious(u) \/ BeginTurn(u) PROVE Goal
  BY <1>1, <1>3, <1>5 DEF AwaitPrevious, BeginTurn
<1>6. ASSUME NEW u \in Turn, ForkIngestion(u) \/ StartTurn(u) \/ StartTurnFails(u) PROVE Goal
  BY <1>1, <1>3, <1>6 DEF ForkIngestion, StartTurn, StartTurnFails, InterruptFiber
<1>7. ASSUME NEW u \in Turn, EndWork(u) \/ DecideFailure(u) \/ WriteFailure(u) PROVE Goal
  BY <1>1, <1>3, <1>7 DEF EndWork, DecideFailure, WriteFailure
<1>8. ASSUME NEW u \in Turn, StopWork(u) \/ StartError(u) PROVE Goal
  BY <1>1, <1>3, <1>8 DEF StopWork, StartError
<1>9. ASSUME NEW u \in Turn, \/ AcquireLease(u) \/ IngestTurn(u) \/ ReleaseLease(u)
                             \/ (\E o \in Outcomes : IngestTerminal(u, o)) \/ IdleRelease(u)
                             \/ FinalizeRootRun(u) \/ FiberDies(u) \/ StreamFails(u)
      PROVE  slot' = slot
  BY <1>9 DEF AcquireLease, IngestTurn, ReleaseLease, IngestTerminal, IdleRelease, Decide,
              FinalizeRootRun, FiberDies, StreamFails
<1>10. ASSUME NEW r \in Run, RunStep(r) \/ Suspend(r) PROVE slot' = slot
  BY <1>10 DEF RunStep, ClaimCapture, CommitCapture, CaptureFails, LeaseExpires, Renew, Suspend
<1>11. CASE GraceElapses \/ JanitorStep \/ ResumeQueuedRuns \/ Recover \/ UNCHANGED vars
  BY <1>2, <1>11 DEF GraceElapses, JanitorStep, JanitorFind, JanitorPrune, JanitorLoad,
              JanitorTerminalize, ResumeQueuedRuns, Recover, vars
<1>12. CASE Crash
  BY <1>12 DEF Crash
<1>13. ASSUME NEW r \in Run, \/ BeginMessage(r) \/ BeginRestart(r) \/ BeginInterrupt(r)
                             \/ HandleTerminalRun(r)
      PROVE  slot' = slot
  BY <1>13 DEF BeginMessage, BeginRestart, BeginInterrupt, HandleTerminalRun
<1>14. CASE CommitMessage \/ CommitRestart \/ CommitInterrupt \/ CommitPromote \/ CommitRejected
  BY <1>2, <1>14 DEF CommitMessage, CommitRestart, CommitInterrupt, CommitPromote, CommitRejected
<1> QED
  BY <1>2, <1>4, <1>5, <1>6, <1>7, <1>8, <1>9, <1>10, <1>11, <1>12, <1>13, <1>14
     DEF Next, TurnStep, Loss, Command

\* A fiber's life: forked by the worker, it acquires the lease, decides and leaves,
\* or it is interrupted.
LEMMA FiberMoves ==
    ASSUME IInv, [Next]_vars, NEW t \in Turn, fiber'[t] # fiber[t]
    PROVE  \/ ForkIngestion(t) /\ fiber'[t] = "forked"
           \/ fiber[t] = "forked" /\ fiber'[t] \in {"listening", "gone"}
           \/ fiber[t] \in {"listening", "deciding"} /\ fiber'[t] \in {"deciding", "leaving", "gone"}
           \/ fiber[t] = "leaving" /\ fiber'[t] = "gone"
<1> DEFINE Goal ==
       \/ ForkIngestion(t) /\ fiber'[t] = "forked"
       \/ fiber[t] = "forked" /\ fiber'[t] \in {"listening", "gone"}
       \/ fiber[t] \in {"listening", "deciding"} /\ fiber'[t] \in {"deciding", "leaving", "gone"}
       \/ fiber[t] = "leaving" /\ fiber'[t] = "gone"
<1>1. fiber \in [Turn -> {"none", "forked", "listening", "deciding", "leaving", "gone"}]
  BY DEF IInv, TypeOK
<1>2. CASE fiber' = fiber
  BY <1>2
<1>3. ASSUME NEW u \in Turn, InterruptFiber(u) PROVE Goal
  BY <1>1, <1>3 DEF InterruptFiber
<1>4. ASSUME NEW u \in Turn, ForkIngestion(u) PROVE Goal
  <2>1. fiber' = fiber \/ fiber' = [fiber EXCEPT ![u] = "forked"]
    BY <1>4 DEF ForkIngestion
  <2>2. u = t
    BY <1>1, <2>1
  <2> QED
    BY <1>1, <1>4, <2>1, <2>2
<1>5. ASSUME NEW u \in Turn, StartTurn(u) \/ StartTurnFails(u) PROVE Goal
  BY <1>2, <1>3, <1>5 DEF StartTurn, StartTurnFails
<1>6. ASSUME NEW u \in Turn, NEW o \in Outcomes, Decide(u, o) PROVE Goal
  BY <1>1, <1>6 DEF Decide
<1>7. ASSUME NEW u \in Turn, \/ (\E o \in Outcomes : IngestTerminal(u, o)) \/ IdleRelease(u)
                             \/ StreamFails(u)
      PROVE  Goal
  BY <1>6, <1>7 DEF IngestTerminal, IdleRelease, StreamFails, Outcomes
<1>8. ASSUME NEW u \in Turn, AcquireLease(u) \/ ReleaseLease(u) PROVE Goal
  BY <1>1, <1>8 DEF AcquireLease, ReleaseLease
<1>9. ASSUME NEW u \in Turn, FinalizeRootRun(u) \/ FiberDies(u) PROVE Goal
  BY <1>1, <1>9 DEF FinalizeRootRun, FiberDies
<1>10. ASSUME NEW u \in Turn, \/ ClaimWork(u) \/ AwaitPrevious(u) \/ BeginTurn(u) \/ EndWork(u)
                              \/ DecideFailure(u) \/ WriteFailure(u) \/ StopWork(u)
                              \/ IngestTurn(u) \/ StartError(u)
       PROVE  fiber' = fiber
  BY <1>10 DEF ClaimWork, AwaitPrevious, BeginTurn, EndWork, DecideFailure, WriteFailure,
               StopWork, IngestTurn, StartError
<1>11. ASSUME NEW r \in Run, RunStep(r) \/ Suspend(r) PROVE fiber' = fiber
  BY <1>11 DEF RunStep, ClaimCapture, CommitCapture, CaptureFails, LeaseExpires, Renew, Suspend
<1>12. CASE GraceElapses \/ JanitorStep \/ ResumeQueuedRuns \/ Recover \/ UNCHANGED vars
  BY <1>2, <1>12 DEF GraceElapses, JanitorStep, JanitorFind, JanitorPrune, JanitorLoad,
               JanitorTerminalize, ResumeQueuedRuns, Recover, vars
<1>13. CASE Crash
  BY <1>1, <1>13 DEF Crash
<1>14. ASSUME NEW r \in Run, \/ BeginMessage(r) \/ BeginRestart(r) \/ BeginInterrupt(r)
                             \/ HandleTerminalRun(r)
      PROVE  fiber' = fiber
  BY <1>14 DEF BeginMessage, BeginRestart, BeginInterrupt, HandleTerminalRun
<1>15. CASE CommitMessage \/ CommitRestart \/ CommitInterrupt \/ CommitPromote \/ CommitRejected
  BY <1>2, <1>15 DEF CommitMessage, CommitRestart, CommitInterrupt, CommitPromote, CommitRejected
<1> QED
  BY <1>2, <1>4, <1>5, <1>7, <1>8, <1>9, <1>10, <1>11, <1>12, <1>13, <1>14, <1>15
     DEF Next, TurnStep, Loss, Command

\* Rows are inserted for attempts that had none.
LEMMA NewRows ==
    ASSUME IInv, [Next]_vars, NEW t \in Turn, work'[t] = "pending"
    PROVE  \/ work[t] = "pending"
           \/ work[t] = "none" /\ (t[2] = 1 => status[t[1]] \in {"none", "queued"})
<1>1. work \in [Turn -> {"none", "pending", "running", "cancelled", "settled"}]
  BY DEF IInv, TypeOK
<1>2. CASE work' = work \/ work' = RetireWork
  BY <1>1, <1>2 DEF RetireWork
<1>3. ASSUME NEW u \in Turn, NEW w \in {"running", "settled"}, work' = [work EXCEPT ![u] = w]
      PROVE  work[t] = "pending"
  BY <1>1, <1>3
<1>4. ASSUME NEW u \in Turn, work[u] = "none", work' = [work EXCEPT ![u] = "pending"],
             u[2] = 1 => status[u[1]] \in {"none", "queued"}
      PROVE  \/ work[t] = "pending"
             \/ work[t] = "none" /\ (t[2] = 1 => status[t[1]] \in {"none", "queued"})
  BY <1>1, <1>4
<1> QED
  BY <1>2, <1>3, <1>4, WorkWrites

LEMMA UnforkedStep == IInv /\ UnforkedInv /\ [Next]_vars => UnforkedInv'
<1> SUFFICES ASSUME IInv, UnforkedInv, [Next]_vars, NEW t \in Turn
             PROVE  /\ work'[t] = "pending" => slot'[t] = "idle" /\ fiber'[t] = "none"
                    /\ slot'[t] \in {"awaiting", "loading", "baseline"} => fiber'[t] = "none"
  BY DEF UnforkedInv
<1>1. /\ slot \in [Turn -> {"idle", "awaiting", "loading", "baseline", "forked", "turning",
                            "stopping", "failing", "failed"}]
      /\ work \in [Turn -> {"none", "pending", "running", "cancelled", "settled"}]
  BY DEF IInv, TypeOK
<1>2. /\ work[t] = "none" => slot[t] = "idle" /\ fiber[t] = "none"
      /\ work[t] = "pending" => slot[t] = "idle" /\ fiber[t] = "none"
      /\ slot[t] \in {"awaiting", "loading", "baseline"} => fiber[t] = "none"
  BY DEF IInv, WorkInv, UnforkedInv
<1>3. ASSUME fiber[t] = "none", slot[t] # "baseline" \/ slot'[t] \notin {"idle", "forked"}
      PROVE  fiber'[t] = "none"
  <2>1. ForkIngestion(t) => slot[t] = "baseline" /\ slot'[t] \in {"idle", "forked"}
    BY <1>1 DEF ForkIngestion, Finish
  <2> QED
    BY <1>3, <2>1, FiberMoves
<1>4. ClaimWork(t) => work[t] = "pending" /\ work'[t] # "pending"
  BY <1>1 DEF ClaimWork
<1>5. ASSUME work'[t] = "pending" PROVE slot'[t] = "idle" /\ fiber'[t] = "none"
  <2>1. slot[t] = "idle" /\ fiber[t] = "none" /\ ~ClaimWork(t)
    BY <1>2, <1>4, <1>5, NewRows
  <2> QED
    BY <1>3, <2>1, SlotMoves
<1>6. ASSUME slot'[t] \in {"awaiting", "loading", "baseline"} PROVE fiber'[t] = "none"
  <2>1. fiber[t] = "none"
    BY <1>2, <1>4, <1>6, SlotMoves
  <2> QED
    BY <1>3, <1>6, <2>1
<1> QED
  BY <1>5, <1>6

-----------------------------------------------------------------------------
(* The command in the lock, notices and the grace period.                   *)

\* What may change the command in the lock.
LEMMA LockMoves ==
    ASSUME IInv, [Next]_vars
    PROVE  \/ held' = held \/ held' = NoCommand
           \/ \E r \in Run : \/ BeginMessage(r) \/ BeginRestart(r) \/ BeginInterrupt(r)
                             \/ HandleTerminalRun(r)
<1>1. CASE CommitMessage \/ CommitRestart \/ CommitInterrupt \/ CommitPromote \/ CommitRejected
  BY <1>1 DEF CommitMessage, CommitRestart, CommitInterrupt, CommitPromote, CommitRejected
<1>2. ASSUME NEW t \in Turn, BeginTurn(t) \/ FinalizeRootRun(t) \/ WriteFailure(t)
      PROVE  held' = held
  BY <1>2 DEF BeginTurn, FinalizeRootRun, WriteFailure
<1>3. ASSUME NEW r \in Run, CommitCapture(r) PROVE held' = held
  BY <1>3 DEF CommitCapture
<1>4. CASE JanitorTerminalize \/ Crash \/ ResumeQueuedRuns \/ Recover
  BY <1>4 DEF JanitorTerminalize, Crash, ResumeQueuedRuns, Recover
<1> QED
  BY <1>1, <1>2, <1>3, <1>4, Steps DEF Command

\* Only a commit starts or queues a run while the process serves.
LEMMA CommitsUnlock ==
    ASSUME IInv, [Next]_vars, NEW r \in Run, Starts(r) \/ Queues(r), Serving
    PROVE  held' = NoCommand
<1>1. status \in [Run -> {"none", "queued"} \cup Blocking \cup Terminal]
  BY DEF IInv, TypeOK
<1>2. status[r] \in {"none", "queued"} /\ status'[r] # status[r] /\ status'[r] \in {"starting", "queued"}
  BY <1>1 DEF Starts, Queues
<1>3. ~Proceeds
  BY <1>2 DEF Proceeds, Blocking
<1>4. ~ResumeQueuedRuns
  BY DEF ResumeQueuedRuns, Serving
<1>5. CommitMessage \/ CommitRestart \/ CommitInterrupt \/ CommitPromote
  BY <1>2, <1>3, <1>4, OwnMoves, Readings
<1> QED
  BY <1>5 DEF CommitMessage, CommitRestart, CommitInterrupt, CommitPromote

LEMMA SoleStep == IInv /\ SoleInv /\ [Next]_vars => SoleInv'
<1> SUFFICES ASSUME IInv, SoleInv, [Next]_vars, held'.kind \in {"restart", "interrupt"},
                    NEW r \in Run, status'[r] \in Blocking
             PROVE  r = held'.run
  BY DEF SoleInv
<1>1. held' # NoCommand
  BY DEF NoCommand
<1>2. CASE held' = held
  <2>1. Serving /\ ~\E q \in Run : Starts(q) \/ Queues(q)
    BY <1>1, <1>2, CommitsUnlock DEF IInv, HeldInv
  <2>2. status[r] \in Blocking
    BY <2>1, RunMoves DEF Proceeds, Blocking
  <2> QED
    BY <1>2, <2>2 DEF SoleInv
<1>3. ASSUME NEW q \in Run, BeginMessage(q) PROVE FALSE
  BY <1>3 DEF BeginMessage
<1>4. ASSUME NEW q \in Run, BeginRestart(q) \/ BeginInterrupt(q) PROVE r = held'.run
  <2>1. status[q] \in Blocking /\ status' = status /\ held'.run = q
    BY <1>4 DEF BeginRestart, BeginInterrupt, Blocking
  <2> QED
    BY <2>1 DEF IInv, OneBlockingRun
<1>5. ASSUME NEW q \in Run, HandleTerminalRun(q), held' # held PROVE FALSE
  BY <1>5 DEF HandleTerminalRun
<1> QED
  BY <1>1, <1>2, <1>3, <1>4, <1>5, LockMoves

\* A notice is an event, and the grace period does not pass over one.
LEMMA NoticeMoves ==
    ASSUME IInv, [Next]_vars
    PROVE  /\ \/ notices \subseteq notices' \/ Crash
              \/ \E n \in Run : HandleTerminalRun(n)
           /\ notices' \subseteq notices \/ quiet' = FALSE
           /\ quiet' => \/ quiet \/ stalls' = stalls + 1
                        \/ notices = {} /\ held = NoCommand /\ UNCHANGED <<notices, held>>
<1> DEFINE Goal ==
           /\ \/ notices \subseteq notices' \/ Crash
              \/ \E n \in Run : HandleTerminalRun(n)
           /\ notices' \subseteq notices \/ quiet' = FALSE
           /\ quiet' => \/ quiet \/ stalls' = stalls + 1
                        \/ notices = {} /\ held = NoCommand /\ UNCHANGED <<notices, held>>
<1>1. CASE UNCHANGED <<notices, quiet>>
  BY <1>1
<1>2. CASE notices' = notices /\ quiet' = FALSE
  BY <1>2
<1>3. ASSUME NEW t \in Turn, NEW o, WriteFinalRunEvents(t, o) PROVE Goal
  BY <1>3 DEF WriteFinalRunEvents
<1>4. ASSUME NEW t \in Turn, \/ ClaimWork(t) \/ AwaitPrevious(t) \/ BeginTurn(t)
                             \/ ForkIngestion(t) \/ StartTurn(t) \/ EndWork(t)
                             \/ DecideFailure(t) \/ StopWork(t)
      PROVE  notices' = notices /\ (quiet' = quiet \/ quiet' = FALSE)
  BY <1>4 DEF ClaimWork, AwaitPrevious, BeginTurn, ForkIngestion, StartTurn, EndWork,
              DecideFailure, StopWork
<1>5. ASSUME NEW t \in Turn, \/ AcquireLease(t) \/ IngestTurn(t)
                             \/ (\E o \in Outcomes : IngestTerminal(t, o))
                             \/ IdleRelease(t) \/ ReleaseLease(t) \/ Loss(t)
      PROVE  notices' = notices /\ (quiet' = quiet \/ quiet' = FALSE)
  BY <1>5 DEF AcquireLease, IngestTurn, IngestTerminal, IdleRelease, ReleaseLease,
              Decide, Loss, StartTurnFails, StartError, StreamFails, FiberDies
<1>6. ASSUME NEW t \in Turn, FinalizeRootRun(t) \/ WriteFailure(t) PROVE Goal
  BY <1>3, <1>6 DEF FinalizeRootRun, WriteFailure
<1>7. ASSUME NEW r \in Run, \/ ClaimCapture(r) \/ CaptureFails(r) \/ LeaseExpires(r) \/ Renew(r)
      PROVE  UNCHANGED <<notices, quiet>>
  BY <1>7 DEF ClaimCapture, CaptureFails, LeaseExpires, Renew
<1>8. ASSUME NEW r \in Run, CommitCapture(r) \/ Suspend(r) PROVE Goal
  BY <1>8 DEF CommitCapture, Suspend
<1>9. CASE GraceElapses
  BY <1>9 DEF GraceElapses, Locked
<1>10. CASE JanitorStep \/ ResumeQueuedRuns \/ Recover \/ UNCHANGED vars
  <2>1. notices' = notices
    BY <1>10 DEF JanitorStep, JanitorFind, JanitorPrune, JanitorLoad, JanitorTerminalize,
                 ResumeQueuedRuns, Recover, vars
  <2>2. CASE JanitorFind \/ JanitorPrune \/ JanitorLoad \/ ResumeQueuedRuns \/ UNCHANGED vars
    BY <1>2, <2>1, <2>2 DEF JanitorFind, JanitorPrune, JanitorLoad, ResumeQueuedRuns, vars
  <2>3. CASE JanitorTerminalize
    <3>1. quiet' = quiet \/ quiet' = (quiet /\ janitor.copy.runs = {})
      BY <2>3 DEF JanitorTerminalize, Cancel
    <3>2. quiet' => quiet
      BY <3>1, Zenon
    <3> QED
      BY <2>1, <3>2
  <2>4. CASE Recover
    <3>1. \E none \in BOOLEAN : quiet' = (quiet /\ none)
      BY <2>4, Zenon DEF Recover, Cancel
    <3>2. quiet' => quiet
      BY <3>1, Zenon
    <3> QED
      BY <2>1, <3>2
  <2> QED
    BY <1>10, <2>2, <2>3, <2>4 DEF JanitorStep
<1>11. CASE Crash
  BY <1>11 DEF Crash
<1>12. ASSUME NEW r \in Run, BeginMessage(r) \/ BeginRestart(r) \/ BeginInterrupt(r)
      PROVE  UNCHANGED <<notices, quiet>>
  BY <1>12 DEF BeginMessage, BeginRestart, BeginInterrupt
<1>13. ASSUME NEW r \in Run, HandleTerminalRun(r) PROVE Goal
  BY <1>13 DEF HandleTerminalRun
<1>14. CASE CommitMessage \/ CommitRestart \/ CommitInterrupt \/ CommitPromote \/ CommitRejected
  BY <1>14 DEF CommitMessage, CommitRestart, CommitInterrupt, CommitPromote, CommitRejected
<1> QED
  BY <1>1, <1>2, <1>4, <1>5, <1>6, <1>7, <1>8, <1>9, <1>10, <1>11, <1>12, <1>13, <1>14
     DEF Next, TurnStep, RunStep, Command

LEMMA QuietStep == IInv /\ QuietInv /\ [Next]_vars => QuietInv'
<1> SUFFICES ASSUME IInv, QuietInv, [Next]_vars, stalls' = 0, quiet'
             PROVE  notices' = {} /\ held'.kind # "promote"
  BY DEF QuietInv
<1>1. stalls \in Nat /\ quiet' # FALSE
  BY DEF IInv, TypeOK
<1>2. stalls = 0 /\ stalls' # stalls + 1
  BY <1>1, StallsGrow
<1>3. CASE notices = {} /\ held = NoCommand /\ UNCHANGED <<notices, held>>
  BY <1>3 DEF NoCommand
<1>4. CASE quiet
  <2>1. notices = {} /\ held.kind # "promote"
    BY <1>2, <1>4 DEF QuietInv
  <2>2. notices' = {}
    BY <1>1, <2>1, NoticeMoves
  <2>3. \A r \in Run : ~HandleTerminalRun(r)
    BY <2>1 DEF HandleTerminalRun
  <2>4. held' = held \/ held' = NoCommand
            \/ \E r \in Run : BeginMessage(r) \/ BeginRestart(r) \/ BeginInterrupt(r)
    BY <2>3, LockMoves
  <2>5. ASSUME NEW r \in Run, BeginMessage(r) PROVE held'.kind # "promote"
    <3>1. held'.kind \in {"queue", "start"}
      BY <2>5 DEF BeginMessage
    <3> QED
      BY <3>1, "queue" # "promote" /\ "start" # "promote"
  <2>6. ASSUME NEW r \in Run, BeginRestart(r) \/ BeginInterrupt(r) PROVE held'.kind # "promote"
    <3>1. \/ held' = [kind |-> "restart", run |-> r]
          \/ held' = [kind |-> "interrupt", run |-> r]
      BY <2>6 DEF BeginRestart, BeginInterrupt
    <3> QED
      BY <3>1
  <2> QED
    BY <2>1, <2>2, <2>4, <2>5, <2>6, NoCommand.kind = "none" DEF NoCommand
<1> QED
  BY <1>2, <1>3, <1>4, NoticeMoves

-----------------------------------------------------------------------------
(* The end of a run is told, and the queue behind it is served.             *)

\* The final write leaves the run alone, parks it for its checkpoint, or ends it
\* with a notice.
LEMMA FinalWritesTell ==
    ASSUME TypeOK, NEW t \in Turn, NEW o \in Outcomes, WriteFinalRunEvents(t, o)
    PROVE  \/ /\ UNCHANGED <<status, active, attempt, capture, notices, quiet>>
              /\ \/ attempt[t] # "running"
                 \/ status[t[1]] # "running"
           \/ /\ status' = [status EXCEPT ![t[1]] = "waiting"]
              /\ attempt' = [attempt EXCEPT ![t] = "completed"]
              /\ capture' = IF capture[t[1]] = "none"
                            THEN [capture EXCEPT ![t[1]] = "pending"] ELSE capture
           \/ \E st \in Terminal :
              /\ status' = [status EXCEPT ![t[1]] = st] /\ t[1] \in notices'
              /\ attempt' = [attempt EXCEPT ![t] = st] /\ capture' = capture
<1> DEFINE r == t[1]
           persisted == IF o = "completed" THEN "waiting" ELSE o
<1>1. CASE ~(RunGate(r, persisted) /\ AttemptGate(t, o))
  <2>1. UNCHANGED <<status, active, attempt, capture, notices, quiet>>
    BY <1>1 DEF WriteFinalRunEvents
  <2>2. status[r] = "running" => RunGate(r, persisted)
    BY DEF RunGate, Lifecycle!LegalLifecycleTransition, Lifecycle!IsTerminalLifecycleStatus,
           Lifecycle!TerminalLifecycleStatuses
  <2>3. attempt[t] = "running" => AttemptGate(t, o)
    BY DEF AttemptGate, Lifecycle!LegalLifecycleTransition, Lifecycle!IsTerminalLifecycleStatus,
           Lifecycle!TerminalLifecycleStatuses
  <2> QED
    BY <1>1, <2>1, <2>2, <2>3
<1>2. CASE RunGate(r, persisted) /\ AttemptGate(t, o) /\ o = "completed"
  BY <1>2 DEF WriteFinalRunEvents
<1>3. CASE RunGate(r, persisted) /\ AttemptGate(t, o) /\ o # "completed"
  <2>1. persisted = o /\ o \in Terminal
    BY <1>3 DEF Terminal
  <2>2. /\ status' = [status EXCEPT ![r] = o] /\ notices' = notices \cup {r}
        /\ attempt' = [attempt EXCEPT ![t] = o] /\ capture' = capture
    BY <1>3, <2>1 DEF WriteFinalRunEvents
  <2> QED
    BY <2>1, <2>2
<1> QED
  BY <1>1, <1>2, <1>3

\* A run that leaves its blocking status while the process serves is told to
\* handleTerminalRun, unless the janitor cancels it.
LEMMA EndsAreTold ==
    ASSUME IInv, [Next]_vars, NEW r \in Run, ~JanitorTerminalize, ~Recover,
           status[r] \in {"queued"} \cup Blocking, status'[r] # status[r]
    PROVE  status'[r] \in Blocking \/ (status[r] \in Blocking /\ r \in notices')
<1> DEFINE Goal == status'[r] \in Blocking \/ (status[r] \in Blocking /\ r \in notices')
<1>1. /\ status \in [Run -> {"none", "queued"} \cup Blocking \cup Terminal]
      /\ status[r] \in Started => status[r] \in Blocking
      /\ status[r] # "none"
  BY DEF IInv, TypeOK, Started, Blocking, Terminal, Outcomes
<1>2. CASE CommitMessage
  <2>1. held.run \in Run /\ status[held.run] = "none"
    BY <1>2 DEF CommitMessage, IInv, HeldInv
  <2>2. status'[r] = status[r]
    BY <1>1, <1>2, <2>1 DEF CommitMessage
  <2> QED
    BY <2>2
<1>3. CASE CommitRestart \/ CommitPromote
  BY <1>1, <1>3 DEF CommitRestart, CommitPromote, Blocking
<1>4. CASE CommitInterrupt
  <2>1. /\ status' = [status EXCEPT ![held.run] = "interrupted"]
        /\ notices' = notices \cup {held.run} /\ status[held.run] \in Started
    BY <1>4 DEF CommitInterrupt, IInv, HeldInv
  <2> QED
    BY <1>1, <2>1
<1>5. ASSUME NEW t \in Turn, BeginTurn(t) PROVE Goal
  BY <1>1, <1>5 DEF BeginTurn, Blocking
<1>6. ASSUME NEW t \in Turn, NEW o \in Outcomes, work[t] # "none", WriteFinalRunEvents(t, o)
      PROVE  Goal
  <2>1. status[t[1]] \in Started /\ TypeOK
    BY <1>6 DEF IInv, WorkInv
  <2> QED
    BY <1>1, <1>6, <2>1, FinalWritesTell DEF Blocking
<1>7. ASSUME NEW t \in Turn, FinalizeRootRun(t) PROVE Goal
  <2>1. outcome[t] \in Outcomes /\ work[t] # "none" /\ WriteFinalRunEvents(t, outcome[t])
    BY <1>7 DEF FinalizeRootRun, IInv, WorkInv, TypeOK
  <2> QED
    BY <1>6, <2>1
<1>8. ASSUME NEW t \in Turn, WriteFailure(t) PROVE Goal
  <2>1. "failed" \in Outcomes /\ work[t] # "none" /\ WriteFinalRunEvents(t, "failed")
    BY <1>8 DEF WriteFailure, IInv, WorkInv, Outcomes
  <2> QED
    BY <1>6, <2>1
<1>9. ASSUME NEW q \in Run, CommitCapture(q) PROVE Goal
  <2>1. status[q] \in Started
    BY <1>9 DEF CommitCapture, IInv, WorkInv
  <2> QED
    BY <1>1, <1>9, <2>1 DEF CommitCapture
<1>10. CASE Crash
  BY <1>10 DEF Crash
<1>11. CASE ResumeQueuedRuns
  BY <1>1, <1>11 DEF ResumeQueuedRuns, Blocking
<1>12. CASE UNCHANGED <<status, active>>
  BY <1>12
<1> QED
  BY <1>2, <1>3, <1>4, <1>5, <1>7, <1>8, <1>9, <1>10, <1>11, <1>12, Steps, Readings

\* A sweep begins by finding an orphan.
LEMMA JanitorMoves ==
    ASSUME IInv, [Next]_vars
    PROVE  janitor' = janitor \/ janitor' = NoSweep \/ JanitorFind \/ JanitorLoad
<1>1. ASSUME NEW t \in Turn, \/ ClaimWork(t) \/ AwaitPrevious(t) \/ BeginTurn(t)
                             \/ ForkIngestion(t) \/ StartTurn(t) \/ EndWork(t)
                             \/ DecideFailure(t) \/ WriteFailure(t) \/ StopWork(t)
      PROVE  janitor' = janitor
  BY <1>1 DEF ClaimWork, AwaitPrevious, BeginTurn, ForkIngestion, StartTurn, EndWork,
              DecideFailure, WriteFailure, StopWork
<1>2. ASSUME NEW t \in Turn, \/ AcquireLease(t) \/ IngestTurn(t) \/ FinalizeRootRun(t)
                             \/ (\E o \in Outcomes : IngestTerminal(t, o))
                             \/ IdleRelease(t) \/ ReleaseLease(t) \/ Loss(t)
      PROVE  janitor' = janitor
  BY <1>2 DEF AcquireLease, IngestTurn, FinalizeRootRun, IngestTerminal, IdleRelease, ReleaseLease,
              Decide, Loss, StartTurnFails, StartError, StreamFails, FiberDies
<1>3. ASSUME NEW r \in Run, RunStep(r) \/ Suspend(r) PROVE janitor' = janitor
  BY <1>3 DEF RunStep, ClaimCapture, CommitCapture, CaptureFails, LeaseExpires, Renew, Suspend
<1>4. CASE GraceElapses \/ JanitorPrune \/ JanitorTerminalize \/ UNCHANGED vars
  BY <1>4 DEF GraceElapses, JanitorPrune, JanitorTerminalize, vars
<1>5. CASE Crash \/ ResumeQueuedRuns \/ Recover
  BY <1>5 DEF Crash, ResumeQueuedRuns, Recover
<1>6. ASSUME NEW r \in Run, \/ BeginMessage(r) \/ BeginRestart(r) \/ BeginInterrupt(r)
                            \/ HandleTerminalRun(r)
      PROVE  janitor' = janitor
  BY <1>6 DEF BeginMessage, BeginRestart, BeginInterrupt, HandleTerminalRun
<1>7. CASE CommitMessage \/ CommitRestart \/ CommitInterrupt \/ CommitPromote \/ CommitRejected
  BY <1>7 DEF CommitMessage, CommitRestart, CommitInterrupt, CommitPromote, CommitRejected
<1> QED
  BY <1>1, <1>2, <1>3, <1>4, <1>5, <1>6, <1>7 DEF Next, TurnStep, Command, JanitorStep

\* In an undisturbed thread every nonterminal run is covered by a row, a lease or a
\* capture, or is queued behind one that is.
LEMMA NoOrphan ==
    ASSUME QueueInv, Undisturbed, Serving, Uncovered, quiet, NEW r \in Run, Nonterminal(r)
    PROVE  FALSE
<1>1. notices = {} /\ held.kind # "promote" /\ stalls = 0
  BY DEF QueueInv, QuietInv, Undisturbed
<1>2. ASSUME NEW q \in Run, status[q] \in Blocking PROVE FALSE
  <2> DEFINE t == <<q, 1>>
  <2>1. t \in Turn /\ t[1] = q /\ t[2] = 1
    BY TurnParts
  <2> HIDE DEF t
  <2>2. Covered(t)
    BY <2>1 DEF QueueInv, CoverInv
  <2>3. /\ work[t] \notin {"pending", "running"} /\ capture[q] \notin {"pending", "running"}
        /\ lease[q] # "valid"
    BY <2>1 DEF Uncovered
  <2>4. active[q] = 1
    <3>1. active[q] \in 0 .. MaxAttempts /\ active[q] <= 1 /\ active[q] # 0
      BY <1>2 DEF QueueInv, IInv, TypeOK, AttemptInv, Undisturbed, Blocking
    <3> QED
      BY <3>1, RunLivenessAssumption
  <2>5. fiber[t] \notin {"listening", "deciding"}
    BY <1>1, <2>1, <2>3, <2>4 DEF QueueInv, IInv, UndisturbedFiberHoldsLease, IsCurrent
  <2> QED
    BY <1>2, <2>1, <2>2, <2>3, <2>5 DEF Covered, StartCovered, RunCovered, Blocking
<1>3. CASE status[r] = "queued"
  BY <1>1, <1>2, <1>3 DEF QueueInv, ServedInv, Queueing, BlockingRun
<1> QED
  BY <1>2, <1>3 DEF Nonterminal

LEMMA SweepIdleStep == QueueInv /\ [Next]_vars => SweepIdle'
<1> SUFFICES ASSUME QueueInv, [Next]_vars, Undisturbed' PROVE janitor' = NoSweep
  BY DEF SweepIdle
<1>1. IInv /\ Undisturbed /\ janitor = NoSweep
  BY StaysUndisturbed DEF QueueInv, SweepIdle
<1>2. ~JanitorFind
  BY <1>1, NoOrphan DEF JanitorFind
<1>3. ~JanitorLoad
  BY <1>1 DEF JanitorLoad, NoSweep
<1> QED
  BY <1>1, <1>2, <1>3, JanitorMoves

\* While the process serves, whatever promises to promote a queued run hands the
\* promise on.
LEMMA PromiseKept ==
    ASSUME QueueInv, [Next]_vars, Undisturbed, Serving, Serving', Queueing,
           \A r \in Run : ~Starts(r), ~JanitorTerminalize, ~Recover, ~CommitMessage
    PROVE  BlockingRun' \/ notices' # {} \/ held'.kind = "promote" \/ ~Queueing'
<1> SUFFICES ASSUME notices' = {}
             PROVE  BlockingRun' \/ held'.kind = "promote" \/ ~Queueing'
  OBVIOUS
<1>1. IInv
  BY DEF QueueInv
<1>2. \/ BlockingRun \/ notices # {}
      \/ held.kind = "promote" /\ status[held.run] = "queued"
  BY DEF QueueInv, ServedInv
<1>3. ASSUME NEW r \in Run, status[r] \in Blocking PROVE BlockingRun'
  <2>1. status'[r] \in Blocking
    BY <1>1, <1>3, EndsAreTold
  <2> QED
    BY <2>1 DEF BlockingRun
<1>4. CASE notices # {}
  <2>1. ~Crash
    BY DEF Crash, Serving
  <2>2. PICK n \in Run : HandleTerminalRun(n)
    BY <1>1, <1>4, <2>1, NoticeMoves
  <2>3. CASE BlockingRun
    BY <1>3, <2>3 DEF BlockingRun
  <2>4. CASE \E r \in Run : held' = [kind |-> "promote", run |-> r]
    BY <2>4
  <2>5. CASE (\A r \in Run : status[r] # "queued") /\ UNCHANGED held
    <3>1. held' = NoCommand /\ status' = status
      BY <2>2, <2>5 DEF HandleTerminalRun, Locked
    <3>2. held'.kind # "queue"
      BY <3>1 DEF NoCommand
    <3> QED
      BY <2>5, <3>1, <3>2 DEF Queueing
  <2> QED
    BY <2>2, <2>3, <2>4, <2>5 DEF HandleTerminalRun
<1>5. CASE held.kind = "promote" /\ status[held.run] = "queued"
  <2>1. held.run \in Run
    BY <1>1, <1>5 DEF IInv, HeldInv
  <2>2. CASE held' = held
    BY <1>5, <2>2
  <2>3. CASE held' # held
    <3>1. RunGate(held.run, "starting")
      BY <1>5 DEF RunGate, Lifecycle!LegalLifecycleTransition, Lifecycle!IsTerminalLifecycleStatus,
                  Lifecycle!TerminalLifecycleStatuses
    <3>2. ~CommitRejected
      BY <1>5, <3>1 DEF CommitRejected
    <3>3. ~CommitPromote
      <4>1. CommitPromote => Starts(held.run)
        BY <1>1, <1>5 DEF CommitPromote, Starts, IInv, HeldInv
      <4> QED
        BY <2>1, <4>1
    <3>4. ~CommitRestart /\ ~CommitInterrupt
      BY <1>5 DEF CommitRestart, CommitInterrupt
    <3>5. \A r \in Run : /\ ~BeginMessage(r) /\ ~BeginRestart(r) /\ ~BeginInterrupt(r)
                         /\ ~HandleTerminalRun(r)
      BY <1>5 DEF BeginMessage, BeginRestart, BeginInterrupt, HandleTerminalRun, Locked, NoCommand
    <3>6. ~Command
      BY <3>2, <3>3, <3>4, <3>5 DEF Command
    <3>7. ASSUME NEW t \in Turn, BeginTurn(t) \/ FinalizeRootRun(t) \/ WriteFailure(t)
          PROVE  held' = held
      BY <3>7 DEF BeginTurn, FinalizeRootRun, WriteFailure
    <3>8. ASSUME NEW r \in Run, CommitCapture(r) PROVE held' = held
      BY <3>8 DEF CommitCapture
    <3>9. ~Crash /\ ~ResumeQueuedRuns
      BY DEF Crash, ResumeQueuedRuns, Serving
    <3> QED
      BY <2>3, <3>6, <3>7, <3>8, <3>9, Steps
  <2> QED
    BY <2>2, <2>3
<1> QED
  BY <1>2, <1>3, <1>4, <1>5 DEF BlockingRun

\* A promotion in the lock is of a queued run until it commits.
LEMMA PromotionHolds ==
    ASSUME QueueInv, [Next]_vars, Undisturbed, Serving, held'.kind = "promote",
           \A r \in Run : ~Starts(r), ~JanitorTerminalize, ~Recover, ~CommitMessage
    PROVE  status'[held'.run] = "queued"
<1>1. IInv
  BY DEF QueueInv
<1>2. Proceeds
  <2>1. ASSUME NEW r \in Run, Queues(r) PROVE FALSE
    <3>1. status[r] = "none" /\ status'[r] # "none"
      BY <1>1, <2>1 DEF Queues, IInv, TypeOK
    <3> QED
      BY <1>1, <3>1, NewRuns
  <2> QED
    BY <1>1, <2>1, RunMoves
<1>3. CASE held' = held
  <2>1. held.run \in Run /\ status[held.run] = "queued"
    BY <1>1, <1>3 DEF QueueInv, ServedInv, IInv, HeldInv
  <2>2. status'[held.run] \in {"queued", "cancelled"}
    BY <1>2, <2>1 DEF Proceeds, Blocking
  <2> QED
    BY <1>1, <1>3, <2>1, <2>2, EndsAreTold DEF Blocking
<1>4. ASSUME NEW r \in Run, BeginMessage(r) PROVE FALSE
  <2>1. held'.kind \in {"queue", "start"}
    BY <1>4 DEF BeginMessage
  <2> QED
    BY <2>1
<1>5. ASSUME NEW r \in Run, BeginRestart(r) \/ BeginInterrupt(r) PROVE FALSE
  <2>1. \/ held' = [kind |-> "restart", run |-> r]
        \/ held' = [kind |-> "interrupt", run |-> r]
    BY <1>5 DEF BeginRestart, BeginInterrupt
  <2> QED
    BY <2>1
<1>6. ASSUME NEW n \in Run, HandleTerminalRun(n), held' # held
      PROVE  status'[held'.run] = "queued"
  <2>1. PICK r \in Run : NextQueuedRun(r) /\ held' = [kind |-> "promote", run |-> r]
    BY <1>6 DEF HandleTerminalRun
  <2>2. status' = status
    BY <1>6 DEF HandleTerminalRun
  <2> QED
    BY <2>1, <2>2 DEF NextQueuedRun
<1>7. held' # NoCommand
  BY DEF NoCommand
<1> QED
  BY <1>1, <1>3, <1>4, <1>5, <1>6, <1>7, LockMoves

LEMMA ServedStep == QueueInv /\ [Next]_vars => ServedInv'
<1> SUFFICES ASSUME QueueInv, [Next]_vars, Serving', Undisturbed'
             PROVE  /\ Queueing' => BlockingRun' \/ notices' # {} \/ held'.kind = "promote"
                    /\ held'.kind = "promote" => status'[held'.run] = "queued"
  BY DEF ServedInv
<1>1. IInv /\ Undisturbed
  BY StaysUndisturbed DEF QueueInv
<1>2. CASE Recover
  <2>1. held.kind = "none" /\ held' = held
    BY <1>1, <1>2 DEF Recover, IInv, HeldInv, Serving
  <2>2. ASSUME NEW r \in Run, status'[r] = "queued" PROVE FALSE
    BY <1>1, <1>2, <2>2, Recovers DEF CancelsRuns, Nonterminal, ReplayableCapture
  <2> QED
    BY <2>1, <2>2 DEF Queueing
<1>3. CASE ~Recover
  <2>1. Serving
    BY <1>1, <1>3, PhaseMoves DEF Crash, ResumeQueuedRuns, Serving
  <2>2. ~JanitorTerminalize
    BY <1>1 DEF QueueInv, SweepIdle, JanitorTerminalize, NoSweep
  <2>3. ASSUME NEW r \in Run, Starts(r)
        PROVE  BlockingRun' /\ held' = NoCommand
    <3>1. status'[r] = "starting"
      BY <1>1, <2>3 DEF Starts, IInv, TypeOK
    <3> QED
      BY <1>1, <2>1, <2>3, <3>1, CommitsUnlock DEF BlockingRun, Blocking
  <2>4. CASE CommitMessage
    <3>1. /\ held' = NoCommand /\ held.run \in Run /\ status[held.run] = "none"
          /\ notices' = notices /\ held.kind \in {"start", "queue"}
      BY <1>1, <2>4 DEF CommitMessage, IInv, HeldInv
    <3>2. CASE held.kind = "start"
      <4>1. Starts(held.run)
        BY <1>1, <2>4, <3>1, <3>2 DEF CommitMessage, Starts, IInv, HeldInv
      <4> QED
        BY <2>3, <3>1, <4>1 DEF NoCommand
    <3>3. CASE held.kind = "queue"
      <4>1. BlockingRun \/ notices # {}
        BY <1>1, <2>1, <3>3 DEF QueueInv, ServedInv, Queueing
      <4>2. ASSUME NEW r \in Run, status[r] \in Blocking PROVE status'[r] = status[r]
        BY <1>1, <2>4, <3>1, <4>2 DEF CommitMessage, Blocking, IInv, TypeOK
      <4> QED
        BY <3>1, <4>1, <4>2 DEF BlockingRun, NoCommand
    <3> QED
      BY <3>1, <3>2, <3>3
  <2>5. CASE ~CommitMessage /\ \A r \in Run : ~Starts(r)
    <3>1. held'.kind = "promote" => status'[held'.run] = "queued"
      BY <1>1, <1>3, <2>1, <2>2, <2>5, PromotionHolds
    <3>2. ASSUME Queueing', ~Queueing PROVE BlockingRun'
      <4>1. ASSUME NEW r \in Run, status'[r] = "queued" PROVE FALSE
        <5>1. status[r] # "queued"
          BY <3>2 DEF Queueing
        <5>2. status[r] # "none"
          BY <1>1, <2>5, <4>1, NewRuns
        <5>3. ASSUME NEW q \in Run, Queues(q) PROVE FALSE
          <6>1. status[q] = "none" /\ status'[q] # "none"
            BY <1>1, <5>3 DEF Queues, IInv, TypeOK
          <6> QED
            BY <1>1, <2>5, <6>1, NewRuns
        <5> QED
          BY <1>1, <2>5, <4>1, <5>1, <5>3, RunMoves DEF Proceeds, Started, Blocking, Terminal, Outcomes
      <4>2. held'.kind = "queue" /\ held.kind # "queue"
        BY <3>2, <4>1 DEF Queueing
      <4>3. ASSUME NEW r \in Run, BeginRestart(r) \/ BeginInterrupt(r) PROVE FALSE
        <5>1. \/ held' = [kind |-> "restart", run |-> r]
              \/ held' = [kind |-> "interrupt", run |-> r]
          BY <4>3 DEF BeginRestart, BeginInterrupt
        <5> QED
          BY <4>2, <5>1
      <4>4. \A r \in Run : ~HandleTerminalRun(r)
        BY <4>2 DEF HandleTerminalRun
      <4>5. PICK r \in Run : BeginMessage(r)
        BY <1>1, <4>2, <4>3, <4>4, LockMoves DEF NoCommand
      <4>6. BlockingRun /\ status' = status
        <5>1. held'.kind = IF BlockingRun THEN "queue" ELSE "start"
          BY <4>5 DEF BeginMessage
        <5> QED
          BY <4>2, <4>5, <5>1 DEF BeginMessage
      <4> QED
        BY <4>6 DEF BlockingRun
    <3> QED
      BY <1>3, <2>1, <2>2, <2>5, <1>1, <3>1, <3>2, PromiseKept
  <2> QED
    BY <2>3, <2>4, <2>5 DEF NoCommand
<1> QED
  BY <1>2, <1>3

-----------------------------------------------------------------------------
(* What covers a run is handed from its row to its fiber to its checkpoint. *)

\* A turn whose rows a step leaves alone is covered as before.
LEMMA CoverStays ==
    ASSUME NEW u \in Turn, Covered(u),
           status'[u[1]] = status[u[1]], capture'[u[1]] = capture[u[1]],
           attempt'[u] = attempt[u], work'[u] = work[u], slot'[u] = slot[u], fiber'[u] = fiber[u]
    PROVE  Covered(u)'
  BY DEF Covered, StartCovered, RunCovered

\* The worker's and the fiber's steps for another run leave the run alone.
LEMMA OtherRunsStay ==
    ASSUME TypeOK, NEW t \in Turn, TurnStep(t), NEW u \in Turn, u # t, u[1] # t[1]
    PROVE  /\ status'[u[1]] = status[u[1]] /\ capture'[u[1]] = capture[u[1]]
           /\ attempt'[u] = attempt[u] /\ work'[u] = work[u]
           /\ slot'[u] = slot[u] /\ fiber'[u] = fiber[u]
<1> DEFINE Goal == /\ status'[u[1]] = status[u[1]] /\ capture'[u[1]] = capture[u[1]]
                   /\ attempt'[u] = attempt[u] /\ work'[u] = work[u]
                   /\ slot'[u] = slot[u] /\ fiber'[u] = fiber[u]
<1>1. u[1] \in Run /\ t[1] \in Run
  BY TurnParts
<1>2. CASE ClaimWork(t) \/ AwaitPrevious(t) \/ StopWork(t)
  BY <1>1, <1>2 DEF ClaimWork, AwaitPrevious, StopWork, Finish, TypeOK
<1>3. CASE BeginTurn(t) \/ ForkIngestion(t)
  BY <1>1, <1>3 DEF BeginTurn, ForkIngestion, Finish, TypeOK
<1>4. CASE StartTurn(t) \/ EndWork(t) \/ DecideFailure(t)
  BY <1>1, <1>4 DEF StartTurn, InterruptFiber, EndWork, DecideFailure, Finish, TypeOK
<1>5. CASE AcquireLease(t) \/ IngestTurn(t) \/ ReleaseLease(t)
  BY <1>1, <1>5 DEF AcquireLease, IngestTurn, ReleaseLease, TypeOK
<1>6. CASE (\E o \in Outcomes : IngestTerminal(t, o)) \/ IdleRelease(t)
  BY <1>1, <1>6 DEF IngestTerminal, IdleRelease, Decide, TypeOK
<1>7. ASSUME NEW o, WriteFinalRunEvents(t, o)
      PROVE  /\ status'[u[1]] = status[u[1]] /\ capture'[u[1]] = capture[u[1]]
             /\ attempt'[u] = attempt[u]
  BY <1>1, <1>7 DEF WriteFinalRunEvents, TypeOK
<1>8. CASE FinalizeRootRun(t) \/ WriteFailure(t)
  BY <1>1, <1>7, <1>8 DEF FinalizeRootRun, WriteFailure, Finish, TypeOK
<1> QED
  BY <1>2, <1>3, <1>4, <1>5, <1>6, <1>8 DEF TurnStep

\* The worker and the fiber work on rows.
LEMMA StepsHaveRows ==
    ASSUME IInv, NEW t \in Turn, TurnStep(t)
    PROVE  work[t] # "none"
<1>1. work[t] = "none" => slot[t] = "idle" /\ fiber[t] = "none"
  BY DEF IInv, WorkInv
<1>2. CASE ClaimWork(t) \/ StopWork(t)
  BY <1>2 DEF ClaimWork, StopWork
<1>3. CASE \/ AwaitPrevious(t) \/ BeginTurn(t) \/ ForkIngestion(t) \/ StartTurn(t) \/ EndWork(t)
           \/ DecideFailure(t) \/ WriteFailure(t)
  BY <1>1, <1>3 DEF AwaitPrevious, BeginTurn, ForkIngestion, StartTurn, EndWork, DecideFailure,
                    WriteFailure
<1>4. CASE \/ AcquireLease(t) \/ IngestTurn(t) \/ (\E o \in Outcomes : IngestTerminal(t, o))
           \/ IdleRelease(t) \/ FinalizeRootRun(t) \/ ReleaseLease(t)
  BY <1>1, <1>4 DEF AcquireLease, IngestTurn, IngestTerminal, IdleRelease, Decide, FinalizeRootRun,
                    ReleaseLease
<1> QED
  BY <1>2, <1>3, <1>4 DEF TurnStep

\* The worker and the fiber of the run itself hand it on.
LEMMA TurnCovers ==
    ASSUME IInv, UnforkedInv, Undisturbed, NEW t \in Turn, TurnStep(t),
           NEW u \in Turn, u[2] = 1, Covered(u)
    PROVE  Covered(u)'
<1>1. /\ work[t] # "none" /\ t[2] = 1 /\ active[t[1]] = 1 /\ IsCurrent(t)
      /\ t[1] \in Run /\ (u = t \/ (u # t /\ u[1] # t[1]))
  BY StepsHaveRows, FirstTurns, TurnParts DEF IsCurrent
<1>2. CASE u # t
  BY <1>1, <1>2, OtherRunsStay, CoverStays DEF IInv
<1>3. CASE u = t
  <2> SUFFICES Covered(t)'
    BY <1>3
  <2>1. /\ Covered(t) /\ TypeOK
        /\ work[t] = "pending" => slot[t] = "idle" /\ fiber[t] = "none"
        /\ slot[t] \in {"awaiting", "loading", "baseline"} => fiber[t] = "none"
        /\ slot[t] # "idle" => work[t] # "none"
        /\ status[t[1]] \in Started
    BY <1>1, <1>3 DEF IInv, UnforkedInv, WorkInv
  <2>2. CASE ClaimWork(t)
    BY <1>1, <2>1, <2>2 DEF ClaimWork, Covered, StartCovered, RunCovered, TypeOK
  <2>3. CASE AwaitPrevious(t)
    BY <1>1, <2>1, <2>3 DEF AwaitPrevious, Finish, Covered, StartCovered, RunCovered, TypeOK
  <2>4. CASE BeginTurn(t)
    BY <1>1, <2>1, <2>4 DEF BeginTurn, Finish, Covered, StartCovered, RunCovered, TypeOK
  <2>5. CASE ForkIngestion(t)
    BY <1>1, <2>1, <2>5 DEF ForkIngestion, ShouldStartProviderTurn, Finish, Covered, StartCovered,
                            RunCovered, TypeOK
  <2>6. CASE StartTurn(t)
    BY <1>1, <2>1, <2>6 DEF StartTurn, ShouldStartProviderTurn, InterruptFiber, Covered,
                            StartCovered, RunCovered, TypeOK
  <2>7. CASE EndWork(t)
    BY <1>1, <2>1, <2>7 DEF EndWork, Finish, Covered, StartCovered, RunCovered, TypeOK
  <2>8. CASE DecideFailure(t)
    BY <1>1, <2>1, <2>8 DEF DecideFailure, Finish, Covered, StartCovered, RunCovered, TypeOK
  <2>9. CASE StopWork(t)
    BY <1>1, <2>1, <2>9 DEF StopWork, Covered, StartCovered, RunCovered, TypeOK
  <2>10. CASE AcquireLease(t)
    BY <1>1, <2>1, <2>10 DEF AcquireLease, Covered, StartCovered, RunCovered, TypeOK
  <2>11. CASE IngestTurn(t) \/ ReleaseLease(t)
    BY <1>1, <2>1, <2>11 DEF IngestTurn, ReleaseLease, Covered, StartCovered, RunCovered, TypeOK
  <2>12. ASSUME NEW o \in Outcomes, Decide(t, o) PROVE Covered(t)'
    BY <1>1, <2>1, <2>12 DEF Decide, ShouldFinalizeRun, Covered, StartCovered, RunCovered, TypeOK
  <2>13. CASE (\E o \in Outcomes : IngestTerminal(t, o)) \/ IdleRelease(t)
    BY <2>12, <2>13 DEF IngestTerminal, IdleRelease, Outcomes
  <2>14. ASSUME NEW o \in Outcomes, WriteFinalRunEvents(t, o), status[t[1]] # "starting"
         PROVE  Covered(t)'
    <3>1. CASE /\ UNCHANGED <<status, active, attempt, capture, notices, quiet>>
               /\ attempt[t] # "running" \/ status[t[1]] # "running"
      BY <2>1, <2>14, <3>1 DEF Covered, RunCovered
    <3>2. CASE /\ status' = [status EXCEPT ![t[1]] = "waiting"]
               /\ capture' = IF capture[t[1]] = "none"
                             THEN [capture EXCEPT ![t[1]] = "pending"] ELSE capture
      <4>1. status'[t[1]] = "waiting"
        BY <1>1, <2>1, <3>2 DEF TypeOK
      <4>2. status[t[1]] \in {"running", "waiting"}
        <5>1. status[t[1]] = "waiting" \/ status[t[1]] \in Blocking
          <6>1. CASE UNCHANGED <<status, active, attempt, capture, notices, quiet>>
            BY <4>1, <6>1
          <6>2. ASSUME NEW st, status[t[1]] = st \/ status[t[1]] \in Blocking,
                       status' = [status EXCEPT ![t[1]] = st]
                PROVE  status[t[1]] = "waiting" \/ status[t[1]] \in Blocking
            BY <1>1, <2>1, <4>1, <6>2 DEF TypeOK
          <6> QED
            BY <1>1, <2>14, <6>1, <6>2, FinalWrites
        <5> QED
          BY <2>14, <5>1 DEF Blocking
      <4>3. capture[t[1]] = "none" \/ capture[t[1]] \in {"pending", "running"}
        BY <2>1, <4>2 DEF Covered, RunCovered
      <4>4. capture'[t[1]] \in {"pending", "running"}
        BY <1>1, <2>1, <3>2, <4>3 DEF TypeOK
      <4> QED
        BY <4>1, <4>4 DEF Covered
    <3>3. ASSUME NEW st \in Terminal, status' = [status EXCEPT ![t[1]] = st] PROVE Covered(t)'
      <4>1. status'[t[1]] \notin {"starting", "running", "waiting"}
        BY <1>1, <2>1, <3>3 DEF TypeOK, Terminal, Outcomes
      <4> QED
        BY <4>1 DEF Covered
    <3> QED
      BY <2>1, <2>14, <3>1, <3>2, <3>3, FinalWritesTell
  <2>15. CASE FinalizeRootRun(t)
    <3>1. fiber[t] = "deciding" /\ outcome[t] \in Outcomes /\ WriteFinalRunEvents(t, outcome[t])
      BY <2>15 DEF FinalizeRootRun, IInv, WorkInv, TypeOK
    <3>2. status[t[1]] # "starting"
      BY <2>1, <3>1 DEF Covered, StartCovered
    <3> QED
      BY <2>14, <3>1, <3>2
  <2>16. CASE WriteFailure(t)
    <3>1. "failed" \in Outcomes /\ slot[t] = "failed" /\ WriteFinalRunEvents(t, "failed")
      BY <2>16 DEF WriteFailure, Outcomes
    <3>2. status[t[1]] # "starting"
      BY <2>1, <3>1 DEF Covered, StartCovered
    <3> QED
      BY <2>14, <3>1, <3>2
  <2> QED
    BY <1>3, <2>2, <2>3, <2>4, <2>5, <2>6, <2>7, <2>8, <2>9, <2>10, <2>11, <2>13, <2>15, <2>16
       DEF TurnStep
<1> QED
  BY <1>1, <1>2, <1>3

\* So do the commands that commit.
LEMMA CommitCovers ==
    ASSUME QueueInv, Undisturbed, Serving, NEW u \in Turn, u[2] = 1, Covered(u),
           CommitMessage \/ CommitInterrupt \/ CommitPromote
    PROVE  Covered(u)'
<1> DEFINE r == held.run
           first == <<r, 1>>
<1>1. /\ IInv /\ TypeOK /\ r \in Run /\ u[1] \in Run
      /\ first \in Turn /\ first[1] = r /\ first[2] = 1
      /\ u = first \/ (u # first /\ u[1] # r)
  BY TurnParts DEF CommitMessage, CommitInterrupt, CommitPromote, QueueInv, IInv, HeldInv
<1> HIDE DEF first, r
<1>2. ASSUME status[r] \in {"none", "queued"}
      PROVE  work[first] = "none" /\ slot[first] = "idle" /\ capture[r] = "none"
  BY <1>1, <1>2 DEF IInv, WorkInv, Started, Blocking, Terminal, Outcomes
<1>3. ASSUME status' = [status EXCEPT ![r] = "starting"], status[r] \in {"none", "queued"},
             work' = [work EXCEPT ![first] = "pending"], UNCHANGED <<slot, fiber, capture>>,
             u # first => attempt'[u] = attempt[u]
      PROVE  Covered(u)'
  <2>1. CASE u = first
    BY <1>1, <1>2, <1>3, <2>1 DEF Covered, StartCovered, TypeOK
  <2>2. CASE u # first
    BY <1>1, <1>3, <2>2, CoverStays DEF TypeOK
  <2> QED
    BY <2>1, <2>2
<1>4. CASE CommitMessage
  <2>1. status[r] = "none"
    BY <1>1, <1>4 DEF CommitMessage, IInv, HeldInv, r
  <2>2. CASE held.kind = "start"
    <3>1. /\ status' = [status EXCEPT ![r] = "starting"]
          /\ work' = [work EXCEPT ![first] = "pending"]
          /\ attempt' = [attempt EXCEPT ![first] = "pending"]
          /\ UNCHANGED <<slot, fiber, capture>>
      BY <1>4, <2>2 DEF CommitMessage, r, first
    <3> QED
      BY <1>1, <1>3, <2>1, <3>1 DEF TypeOK
  <2>3. CASE held.kind = "queue"
    <3>1. /\ status' = [status EXCEPT ![r] = "queued"]
          /\ attempt' = [attempt EXCEPT ![first] = "pending"]
          /\ UNCHANGED <<work, slot, fiber, capture>>
      BY <1>4, <2>3 DEF CommitMessage, r, first
    <3>2. CASE u = first
      BY <1>1, <3>1, <3>2 DEF Covered, TypeOK
    <3>3. CASE u # first
      BY <1>1, <3>1, <3>3, CoverStays DEF TypeOK
    <3> QED
      BY <3>2, <3>3
  <2> QED
    BY <1>4, <2>2, <2>3 DEF CommitMessage
<1>5. CASE CommitPromote
  <2>1. status[r] = "queued"
    BY <1>5 DEF CommitPromote, QueueInv, ServedInv, r
  <2>2. active[r] = 1
    <3>1. active[r] \in 0 .. MaxAttempts /\ active[r] # 0 /\ active[r] <= 1
      BY <1>1, <2>1 DEF IInv, TypeOK, AttemptInv, Undisturbed
    <3> QED
      BY <3>1, RunLivenessAssumption
  <2>3. /\ status' = [status EXCEPT ![r] = "starting"]
        /\ work' = [work EXCEPT ![first] = "pending"]
        /\ UNCHANGED <<slot, fiber, capture, attempt>>
    BY <1>5, <2>2 DEF CommitPromote, CurrentTurn, r, first
  <2> QED
    BY <1>3, <2>1, <2>3
<1>6. CASE CommitInterrupt
  <2>1. status' = [status EXCEPT ![r] = "interrupted"] /\ held.kind = "interrupt"
    BY <1>6 DEF CommitInterrupt, r
  <2>2. u[1] # r => status[u[1]] \notin Blocking
    BY <1>1, <2>1 DEF QueueInv, SoleInv, r
  <2>3. status'[u[1]] \notin Blocking
    BY <1>1, <2>1, <2>2 DEF TypeOK, Blocking
  <2> QED
    BY <2>3 DEF Covered, Blocking
<1> QED
  BY <1>4, <1>5, <1>6

\* So do the capture and the boot.
LEMMA CaptureCovers ==
    ASSUME TypeOK, NEW r \in Run, ClaimCapture(r) \/ CommitCapture(r) \/ CaptureFails(r),
           losses' = losses, NEW u \in Turn, Covered(u)
    PROVE  Covered(u)'
<1>1. u[1] \in Run /\ losses \in Nat
  BY TurnParts DEF TypeOK
<1>2. CASE ClaimCapture(r)
  BY <1>1, <1>2 DEF ClaimCapture, Covered, StartCovered, RunCovered, TypeOK
<1>3. CASE CommitCapture(r)
  <2>1. status[r] = "waiting" => RunGate(r, "completed")
    BY DEF RunGate, Lifecycle!LegalLifecycleTransition, Lifecycle!IsTerminalLifecycleStatus,
           Lifecycle!TerminalLifecycleStatuses
  <2>2. CASE u[1] = r
    BY <1>1, <1>3, <2>1, <2>2 DEF CommitCapture, Covered, StartCovered, RunCovered, TypeOK
  <2>3. CASE u[1] # r
    BY <1>1, <1>3, <2>3, CoverStays DEF CommitCapture, TypeOK
  <2> QED
    BY <2>2, <2>3
<1>4. CASE CaptureFails(r)
  BY <1>1, <1>4 DEF CaptureFails, Covered, StartCovered, RunCovered, TypeOK
<1> QED
  BY <1>2, <1>3, <1>4

LEMMA RecoveryCovers ==
    ASSUME IInv, Recover, NEW u \in Turn
    PROVE  Covered(u)'
<1> DEFINE r == u[1]
<1>1. r \in Run
  BY TurnParts
<1>2. /\ status'[r] = IF Nonterminal(r) /\ ~ReplayableCapture(r) THEN "cancelled" ELSE status[r]
      /\ capture'[r] = IF capture[r] = "running" THEN "pending" ELSE capture[r]
  BY <1>1, Recovers DEF Recover, CancelsRuns
<1>3. CASE Nonterminal(r) /\ ~ReplayableCapture(r)
  BY <1>2, <1>3 DEF Covered
<1>4. CASE ReplayableCapture(r)
  BY <1>2, <1>4 DEF ReplayableCapture, Covered
<1>5. CASE ~Nonterminal(r)
  BY <1>2, <1>5 DEF Nonterminal, Blocking, Covered
<1> QED
  BY <1>3, <1>4, <1>5

LEMMA CoverStep == QueueInv /\ [Next]_vars => CoverInv'
<1> SUFFICES ASSUME QueueInv, [Next]_vars, Serving', Undisturbed', NEW u \in Turn, u[2] = 1
             PROVE  Covered(u)'
  BY DEF CoverInv
<1>1. /\ IInv /\ TypeOK /\ UnforkedInv /\ Undisturbed /\ losses' = losses /\ ~CommitRestart
      /\ (\A t \in Turn : ~Loss(t)) /\ \A r \in Run : ~Suspend(r)
  BY StaysUndisturbed DEF QueueInv, IInv
<1>2. CASE Recover
  BY <1>1, <1>2, RecoveryCovers
<1>3. CASE ~Recover
  <2>1. Serving
    BY <1>1, <1>3, PhaseMoves DEF Crash, ResumeQueuedRuns, Serving
  <2>2. Covered(u)
    BY <1>1, <2>1 DEF QueueInv, CoverInv
  <2>3. CASE UNCHANGED <<status, capture, attempt, work, slot, fiber>>
    BY <2>2, <2>3, CoverStays
  <2>4. ASSUME NEW t \in Turn, TurnStep(t) PROVE Covered(u)'
    BY <1>1, <2>2, <2>4, TurnCovers
  <2>5. ASSUME NEW r \in Run, RunStep(r) PROVE Covered(u)'
    <3>1. CASE LeaseExpires(r) \/ Renew(r)
      BY <2>3, <3>1 DEF LeaseExpires, Renew
    <3> QED
      BY <1>1, <2>2, <2>5, <3>1, CaptureCovers DEF RunStep
  <2>6. CASE GraceElapses \/ JanitorStep \/ UNCHANGED vars
    <3>1. ~JanitorTerminalize
      BY <1>1 DEF QueueInv, SweepIdle, JanitorTerminalize, NoSweep
    <3> QED
      BY <2>3, <2>6, <3>1 DEF GraceElapses, JanitorStep, JanitorFind, JanitorPrune, JanitorLoad, vars
  <2>7. ~Crash /\ ~ResumeQueuedRuns
    BY DEF Crash, ResumeQueuedRuns, Serving
  <2>8. ASSUME NEW r \in Run, \/ BeginMessage(r) \/ BeginRestart(r) \/ BeginInterrupt(r)
                              \/ HandleTerminalRun(r)
        PROVE  Covered(u)'
    BY <2>3, <2>8 DEF BeginMessage, BeginRestart, BeginInterrupt, HandleTerminalRun
  <2>9. CASE CommitRejected
    BY <2>3, <2>9 DEF CommitRejected
  <2>10. CASE CommitMessage \/ CommitInterrupt \/ CommitPromote
    BY <1>1, <2>1, <2>2, <2>10, CommitCovers
  <2> QED
    BY <1>1, <1>3, <2>4, <2>5, <2>6, <2>7, <2>8, <2>9, <2>10 DEF Next, Command
<1> QED
  BY <1>2, <1>3

-----------------------------------------------------------------------------
LEMMA QueueInvHolds == Spec => []QueueInv
<1>1. QueueInv /\ [Next]_vars => QueueInv'
  <2> SUFFICES ASSUME QueueInv, [Next]_vars PROVE QueueInv'
    OBVIOUS
  <2>1. IInv'
    BY TypeStep, HeldStep, SweepStep, WorkStep, AttemptStep, AcceptedStep, LeaseStep, RunsAdvance
       DEF QueueInv, IInv
  <2>2. UnforkedInv' /\ SoleInv' /\ QuietInv'
    BY UnforkedStep, SoleStep, QuietStep DEF QueueInv
  <2>3. CoverInv' /\ ServedInv' /\ SweepIdle'
    BY CoverStep, ServedStep, SweepIdleStep
  <2> QED
    BY <2>1, <2>2, <2>3 DEF QueueInv
<1> QED
  BY QueueInit, <1>1, PTL DEF Spec

\* In an undisturbed thread a queued run always has a run before it, an unread
\* terminal event or a command in flight that will promote it, whatever messages,
\* interrupts, sweeps, boots and checkpoints interleave, for any number of runs.
THEOREM QueuesAreServed == Spec => []QueueIsServed
<1>1. QueueInv => QueueIsServed
  BY DEF QueueInv, ServedInv, Queueing, QueueIsServed, Locked, NoCommand
<1> QED
  BY QueueInvHolds, <1>1, PTL

\* The janitor finds no run to cancel in an undisturbed thread: every nonterminal run
\* is covered by a row, a lease or a capture, or queued behind one that is.
THEOREM NothingIsSwept == Spec => [](Undisturbed => janitor = NoSweep)
<1>1. QueueInv => (Undisturbed => janitor = NoSweep)
  BY DEF QueueInv, SweepIdle
<1> QED
  BY QueueInvHolds, <1>1, PTL

-----------------------------------------------------------------------------
(* The sweep and the thread's first run. The query of a sweep is not        *)
(* repeated in its commit: what holds a run was dead when it was found, and *)
(* must stay so. SparedInv is inductive beside IInv, UnforkedInv and SoleInv. *)

First == <<1, 1>>
Alive == {"forked", "listening", "deciding"}

\* Runs are dispatched in order; the first one never waits in the queue.
OrdinalInv ==
    /\ (\E r \in Run : status[r] # "none") => status[1] # "none"
    /\ held.kind \in {"start", "queue"} /\ held.run # 1 => status[1] # "none"
    /\ held.kind = "queue" => held.run # 1
    /\ status[1] # "queued"
    /\ janitor.stage # "idle" => status[1] # "none"

\* A worker that stops or failed has interrupted the fiber, and a run that waits for
\* its checkpoint has none.
LeftInv ==
    /\ \A t \in Turn : slot[t] \in {"stopping", "failing", "failed"} => fiber[t] # "forked"
    /\ \A t \in Turn : t[2] = 1 /\ IsCurrent(t) /\ status[t[1]] = "waiting"
                         => fiber[t] \notin Alive

FirstGoesOn == stalls = 0 /\ active[1] = 1 /\ status[1] \in {"starting", "running"}

\* The worker of a run that goes on, and a fiber that has no lease yet, are covered by
\* the row.
RowHeldInv ==
    FirstGoesOn /\ (slot[First] # "idle" \/ fiber[First] = "forked") => work[First] = "running"

\* A run that goes on during a sweep is an orphan: nothing is left that holds it.
OrphanInv ==
    FirstGoesOn /\ janitor.stage # "idle" =>
        slot[First] = "idle" /\ work[First] \notin {"pending", "running"} /\ fiber[First] \notin Alive

SparedInv == /\ IInv /\ UnforkedInv /\ SoleInv /\ OrdinalInv /\ LeftInv
             /\ RowHeldInv /\ OrphanInv

LEMMA FirstParts ==
    1 \in Run /\ First \in Turn /\ First[1] = 1 /\ First[2] = 1 /\ First = <<1, 1>>
<1>1. 1 \in Run
  BY RunLivenessAssumption DEF Run
<1> QED
  BY <1>1, TurnParts DEF First

LEMMA SparedInit == Init => SparedInv
<1> SUFFICES ASSUME Init PROVE SparedInv
  OBVIOUS
<1>1. IInv /\ UnforkedInv /\ SoleInv
  BY QueueInit DEF QueueInv
<1>2. OrdinalInv
  BY FirstParts DEF Init, OrdinalInv, NoCommand, NoSweep
<1>3. LeftInv /\ RowHeldInv /\ OrphanInv
  BY FirstParts DEF Init, LeftInv, RowHeldInv, OrphanInv, Alive, FirstGoesOn
<1> QED
  BY <1>1, <1>2, <1>3 DEF SparedInv

LEMMA OrdinalStep == SparedInv /\ [Next]_vars => OrdinalInv'
<1> SUFFICES ASSUME SparedInv, [Next]_vars PROVE OrdinalInv'
  OBVIOUS
<1>1. /\ IInv /\ OrdinalInv /\ 1 \in Run
      /\ status \in [Run -> {"none", "queued"} \cup Blocking \cup Terminal]
  BY FirstParts DEF SparedInv, IInv, TypeOK
<1>2. status[1] # "none" => status'[1] # "none"
  BY <1>1, RunsAdvance
<1>3. CASE CommitMessage
  <2>1. /\ held.run \in Run /\ status[held.run] = "none" /\ held' = NoCommand
        /\ held.kind \in {"start", "queue"} /\ janitor' = janitor
        /\ status' = [status EXCEPT ![held.run] = IF held.kind = "start" THEN "starting" ELSE "queued"]
    BY <1>1, <1>3 DEF CommitMessage, IInv, HeldInv
  <2>2. status'[1] \notin {"none", "queued"}
    <3>1. CASE held.run = 1
      BY <1>1, <2>1, <3>1 DEF OrdinalInv
    <3>2. CASE held.run # 1
      BY <1>1, <2>1, <3>2 DEF OrdinalInv
    <3> QED
      BY <3>1, <3>2
  <2> QED
    BY <2>1, <2>2 DEF OrdinalInv, NoCommand
<1>4. CASE ~CommitMessage
  <2>1. (\E r \in Run : status'[r] # "none") => status'[1] # "none"
    BY <1>1, <1>2, <1>4, NewRuns DEF OrdinalInv
  <2>2. status'[1] # "queued"
    <3>1. ASSUME Queues(1) PROVE FALSE
      BY <1>1, <1>4, <3>1, NewRuns DEF Queues
    <3>2. ASSUME NEW r \in Run, Starts(r) \/ Queues(r), status'[1] = "queued" PROVE FALSE
      BY <1>1, <3>1, <3>2 DEF Starts, Queues, OrdinalInv
    <3> QED
      BY <1>1, <3>2, RunMoves DEF Proceeds, OrdinalInv, Started, Blocking, Terminal, Outcomes
  <2>3. /\ held'.kind \in {"start", "queue"} /\ held'.run # 1 => status'[1] # "none"
        /\ held'.kind = "queue" => held'.run # 1
    <3>1. CASE held' = held
      BY <1>1, <1>2, <3>1 DEF OrdinalInv
    <3>2. CASE held' = NoCommand
      BY <3>2 DEF NoCommand
    <3>3. ASSUME NEW r \in Run, BeginMessage(r)
          PROVE  /\ held'.run # 1 => status'[1] # "none"
                 /\ held'.kind = "queue" => held'.run # 1
      <4>1. /\ status' = status /\ held'.run = r /\ status[r] = "none"
            /\ \A q \in Run : q < r => status[q] # "none"
            /\ held'.kind = IF BlockingRun THEN "queue" ELSE "start"
        BY <3>3 DEF BeginMessage, NextOrdinal
      <4>2. r # 1 => 1 < r
        BY <3>3, RunLivenessAssumption DEF Run
      <4>3. r = 1 => ~BlockingRun
        BY <1>1, <4>1 DEF OrdinalInv, BlockingRun, Blocking
      <4> QED
        BY <1>1, <4>1, <4>2, <4>3
    <3>4. ASSUME NEW r \in Run, BeginRestart(r) \/ BeginInterrupt(r)
          PROVE  held'.kind \notin {"start", "queue"}
      <4>1. \/ held' = [kind |-> "restart", run |-> r]
            \/ held' = [kind |-> "interrupt", run |-> r]
        BY <3>4 DEF BeginRestart, BeginInterrupt
      <4> QED
        BY <4>1
    <3>5. ASSUME NEW r \in Run, HandleTerminalRun(r), held' # held
          PROVE  held'.kind \notin {"start", "queue"}
      <4>1. \E q \in Run : held' = [kind |-> "promote", run |-> q]
        BY <3>5 DEF HandleTerminalRun
      <4> QED
        BY <4>1
    <3> QED
      BY <1>1, <3>1, <3>2, <3>3, <3>4, <3>5, LockMoves
  <2>4. janitor'.stage # "idle" => status'[1] # "none"
    <3>1. ASSUME JanitorFind PROVE status'[1] # "none"
      BY <1>1, <1>2, <3>1 DEF JanitorFind, Nonterminal, Blocking, OrdinalInv
    <3>2. ASSUME JanitorLoad PROVE status'[1] # "none"
      BY <1>1, <1>2, <3>2 DEF JanitorLoad, OrdinalInv
    <3> QED
      BY <1>1, <1>2, <3>1, <3>2, JanitorMoves DEF OrdinalInv, NoSweep
  <2> QED
    BY <2>1, <2>2, <2>3, <2>4 DEF OrdinalInv
<1> QED
  BY <1>3, <1>4

\* A run goes on from its dispatch, its promotion or a restart only, and waits for its
\* checkpoint from the final write of its fiber only.
LEMMA GoesOn ==
    ASSUME IInv, [Next]_vars, NEW r \in Run, status'[r] # status[r]
    PROVE  /\ status'[r] \in {"starting", "running"} =>
                \/ status[r] \in {"none", "queued", "starting", "running"}
                \/ CommitRestart
           /\ status'[r] = "waiting" => \E t \in Turn : t[1] = r /\ FinalizeRootRun(t)
<1> DEFINE Goal == /\ status'[r] \in {"starting", "running"} =>
                         \/ status[r] \in {"none", "queued", "starting", "running"}
                         \/ CommitRestart
                   /\ status'[r] = "waiting" => \E t \in Turn : t[1] = r /\ FinalizeRootRun(t)
<1>1. status \in [Run -> {"none", "queued"} \cup Blocking \cup Terminal] /\ TypeOK
  BY DEF IInv, TypeOK
<1>2. ASSUME NEW q, NEW st, status' = [status EXCEPT ![q] = st],
             \/ st \in {"queued"} \cup Terminal
             \/ st \in {"starting", "running"} /\ status[q] \in {"none", "queued", "starting"}
      PROVE  Goal
  BY <1>1, <1>2 DEF Terminal, Outcomes
<1>3. CASE CommitMessage
  <2>1. status[held.run] = "none"
    BY <1>3 DEF CommitMessage, IInv, HeldInv
  <2> QED
    BY <1>2, <1>3, <2>1 DEF CommitMessage
<1>4. CASE CommitRestart
  BY <1>1, <1>4 DEF CommitRestart
<1>5. CASE CommitInterrupt
  BY <1>2, <1>5 DEF CommitInterrupt, Terminal, Outcomes
<1>6. CASE CommitPromote
  <2>1. status[held.run] = "queued"
    BY <1>6, Gates DEF CommitPromote, IInv, HeldInv, Started, Blocking, Terminal
  <2> QED
    BY <1>2, <1>6, <2>1 DEF CommitPromote
<1>7. ASSUME NEW t \in Turn, BeginTurn(t) PROVE Goal
  BY <1>2, <1>7 DEF BeginTurn
<1>8. ASSUME NEW t \in Turn, NEW o \in Outcomes, WriteFinalRunEvents(t, o)
      PROVE  /\ status'[r] \notin {"starting", "running"}
             /\ status'[r] = "waiting" => t[1] = r /\ o = "completed"
  <2>1. CASE status' = [status EXCEPT ![t[1]] = IF o = "completed" THEN "waiting" ELSE o]
    BY <1>1, <2>1 DEF Outcomes
  <2> QED
    BY <1>8, <2>1 DEF WriteFinalRunEvents
<1>9. ASSUME NEW t \in Turn, FinalizeRootRun(t) PROVE Goal
  <2>1. outcome[t] \in Outcomes /\ WriteFinalRunEvents(t, outcome[t])
    BY <1>9 DEF FinalizeRootRun, IInv, WorkInv, TypeOK
  <2> QED
    BY <1>8, <1>9, <2>1
<1>10. ASSUME NEW t \in Turn, WriteFailure(t) PROVE Goal
  <2>1. "failed" \in Outcomes /\ "failed" # "completed" /\ WriteFinalRunEvents(t, "failed")
    BY <1>10 DEF WriteFailure, Outcomes
  <2> QED
    BY <1>8, <2>1
<1>11. ASSUME NEW q \in Run, CommitCapture(q) PROVE Goal
  BY <1>2, <1>11 DEF CommitCapture, Terminal, Outcomes
<1>12. CASE JanitorTerminalize \/ Recover
  <2>1. ASSUME NEW S, CancelsRuns(S) PROVE Goal
    BY <1>1, <2>1 DEF CancelsRuns
  <2> QED
    BY <1>12, <2>1, SweepCommits, Recovers
<1>13. CASE ResumeQueuedRuns
  BY <1>2, <1>13 DEF ResumeQueuedRuns, NextQueuedRun
<1>14. CASE Crash \/ UNCHANGED <<status, active>>
  BY <1>14 DEF Crash
<1> QED
  BY <1>3, <1>4, <1>5, <1>6, <1>7, <1>9, <1>10, <1>11, <1>12, <1>13, <1>14, Steps, Readings

\* A run that was not restarted had no other attempt before.
LEMMA NotRestarted ==
    ASSUME IInv, [Next]_vars, NEW r \in Run, active'[r] = 1, status[r] # "none"
    PROVE  /\ active[r] = 1 /\ ~(CommitRestart /\ held.run = r)
           /\ \A t \in Turn : t[1] = r /\ work[t] # "none" => t[2] = 1
<1>1. /\ active \in [Run -> 0 .. MaxAttempts] /\ MaxAttempts \in Nat
      /\ active[r] # 0 /\ active'[r] >= active[r]
  BY RunLivenessAssumption, RunsAdvance DEF IInv, TypeOK, AttemptInv
<1>2. active[r] = 1
  BY <1>1
<1>3. ~(CommitRestart /\ held.run = r)
  BY <1>1, <1>2 DEF CommitRestart
<1>4. ASSUME NEW t \in Turn, t[1] = r, work[t] # "none" PROVE t[2] = 1
  <2>1. t[2] \in 1 .. MaxAttempts /\ t[2] <= active[r]
    BY <1>4, TurnParts DEF IInv, WorkInv
  <2> QED
    BY <1>1, <1>2, <2>1
<1> QED
  BY <1>2, <1>3, <1>4

LEMMA LeftStep == SparedInv /\ [Next]_vars => LeftInv'
<1> SUFFICES ASSUME SparedInv, [Next]_vars, NEW t \in Turn
             PROVE  /\ slot'[t] \in {"stopping", "failing", "failed"} => fiber'[t] # "forked"
                    /\ t[2] = 1 /\ IsCurrent(t)' /\ status'[t[1]] = "waiting"
                           => fiber'[t] \notin Alive
  BY DEF LeftInv, IsCurrent
<1>1. /\ IInv /\ UnforkedInv /\ LeftInv /\ t[1] \in Run
      /\ fiber \in [Turn -> {"none", "forked", "listening", "deciding", "leaving", "gone"}]
      /\ slot \in [Turn -> {"idle", "awaiting", "loading", "baseline", "forked", "turning",
                            "stopping", "failing", "failed"}]
  BY TurnParts DEF SparedInv, IInv, TypeOK
<1>2. ForkIngestion(t) /\ fiber'[t] # fiber[t] =>
           /\ slot[t] = "baseline" /\ slot'[t] = "forked" /\ status[t[1]] = "running"
           /\ status' = status
  BY <1>1 DEF ForkIngestion, ShouldStartProviderTurn
<1>3. ASSUME slot'[t] \in {"stopping", "failing", "failed"}, fiber'[t] = "forked" PROVE FALSE
  <2>1. fiber[t] = "forked"
    BY <1>1, <1>2, <1>3, FiberMoves
  <2>2. slot'[t] = slot[t]
    <3>1. ClaimWork(t) => slot'[t] \in {"loading", "awaiting"}
      BY <1>1 DEF ClaimWork
    <3> QED
      BY <1>1, <1>3, <3>1, SlotMoves
  <2> QED
    BY <1>1, <1>3, <2>1, <2>2 DEF LeftInv
<1>4. ASSUME t[2] = 1, IsCurrent(t)', status'[t[1]] = "waiting" PROVE fiber'[t] \notin Alive
  <2>1. active'[t[1]] = 1 /\ status[t[1]] # "none"
    <3>1. status[t[1]] = "none" => CommitMessage
      BY <1>1, <1>4, NewRuns
    <3>2. CommitMessage /\ status[t[1]] = "none" => status'[t[1]] # "waiting"
      BY <1>1 DEF CommitMessage, IInv, TypeOK
    <3> QED
      BY <1>4, <3>1, <3>2 DEF IsCurrent
  <2>2. active[t[1]] = 1
    BY <1>1, <2>1, NotRestarted
  <2>3. CASE status[t[1]] = "waiting"
    <3>1. fiber[t] \notin Alive
      BY <1>1, <1>4, <2>2, <2>3 DEF LeftInv, IsCurrent
    <3> QED
      BY <1>1, <1>2, <2>3, <3>1, FiberMoves DEF Alive
  <2>4. CASE status[t[1]] # "waiting"
    <3>1. PICK u \in Turn : u[1] = t[1] /\ FinalizeRootRun(u)
      BY <1>1, <1>4, <2>4, GoesOn
    <3>2. work[u] # "none"
      BY <3>1 DEF FinalizeRootRun, SparedInv, IInv, WorkInv
    <3>3. u = t
      BY <1>1, <1>4, <2>1, <3>1, <3>2, NotRestarted, TurnParts
    <3>4. fiber'[t] = "leaving"
      BY <1>1, <3>1, <3>3 DEF FinalizeRootRun
    <3> QED
      BY <3>4 DEF Alive
  <2> QED
    BY <2>3, <2>4
<1> QED
  BY <1>3, <1>4

\* What ends a row in execution: its worker, which has no unleased fiber then, or the
\* commits that retire every row.
LEMMA WorkEnds ==
    ASSUME IInv, UnforkedInv, LeftInv, [Next]_vars, NEW t \in Turn,
           work[t] = "running", work'[t] # "running"
    PROVE  \/ slot'[t] = "idle" /\ fiber'[t] # "forked"
           \/ CommitInterrupt \/ JanitorTerminalize \/ Recover
<1> DEFINE Finished == slot'[t] = "idle" /\ fiber'[t] # "forked"
<1>1. /\ work \in [Turn -> {"none", "pending", "running", "cancelled", "settled"}]
      /\ slot \in [Turn -> {"idle", "awaiting", "loading", "baseline", "forked", "turning",
                            "stopping", "failing", "failed"}]
      /\ slot[t] \in {"loading", "baseline", "awaiting"} => fiber[t] = "none"
      /\ slot[t] = "failed" => fiber[t] # "forked"
  BY DEF IInv, TypeOK, UnforkedInv, LeftInv
<1>2. work' # work
  OBVIOUS
<1>3. ASSUME NEW u \in Turn, Finish(u) PROVE u = t /\ slot'[t] = "idle"
  BY <1>1, <1>3 DEF Finish
<1>4. ASSUME NEW u \in Turn, AwaitPrevious(u) \/ BeginTurn(u) \/ StartError(u) PROVE Finished
  BY <1>1, <1>2, <1>3, <1>4 DEF AwaitPrevious, BeginTurn, StartError
<1>5. ASSUME NEW u \in Turn, ForkIngestion(u) PROVE Finished
  BY <1>1, <1>2, <1>3, <1>5 DEF ForkIngestion
<1>6. ASSUME NEW u \in Turn, EndWork(u) \/ DecideFailure(u) PROVE Finished
  BY <1>1, <1>2, <1>3, <1>6 DEF EndWork, DecideFailure
<1>7. ASSUME NEW u \in Turn, WriteFailure(u) PROVE Finished
  BY <1>1, <1>3, <1>7 DEF WriteFailure
<1>8. ASSUME NEW u \in Turn, ClaimWork(u) PROVE FALSE
  BY <1>1, <1>8 DEF ClaimWork
<1>9. ASSUME NEW u \in Turn, \/ StartTurn(u) \/ StopWork(u)
                             \/ AcquireLease(u) \/ IngestTurn(u) \/ ReleaseLease(u)
                             \/ (\E o \in Outcomes : IngestTerminal(u, o)) \/ IdleRelease(u)
      PROVE  FALSE
  BY <1>2, <1>9 DEF StartTurn, StopWork, AcquireLease, IngestTurn, ReleaseLease,
              IngestTerminal, IdleRelease, Decide
<1>10. ASSUME NEW u \in Turn, FinalizeRootRun(u) \/ StartTurnFails(u) \/ FiberDies(u) \/ StreamFails(u)
       PROVE  FALSE
  BY <1>2, <1>10 DEF FinalizeRootRun, StartTurnFails, FiberDies, StreamFails, Decide
<1>11. ASSUME NEW r \in Run, RunStep(r) \/ Suspend(r) PROVE FALSE
  BY <1>2, <1>11 DEF RunStep, ClaimCapture, CommitCapture, CaptureFails, LeaseExpires, Renew, Suspend
<1>12. CASE GraceElapses \/ JanitorFind \/ JanitorPrune \/ JanitorLoad \/ Crash \/ UNCHANGED vars
  BY <1>2, <1>12 DEF GraceElapses, JanitorFind, JanitorPrune, JanitorLoad, Crash, vars
<1>13. ASSUME NEW r \in Run, \/ BeginMessage(r) \/ BeginRestart(r) \/ BeginInterrupt(r)
                             \/ HandleTerminalRun(r)
       PROVE  FALSE
  BY <1>2, <1>13 DEF BeginMessage, BeginRestart, BeginInterrupt, HandleTerminalRun
<1>14. ASSUME NEW u, work' = [work EXCEPT ![u] = "pending"] PROVE work'[t] = "pending"
  BY <1>1, <1>14
<1>15. CASE CommitMessage \/ CommitRestart \/ CommitPromote \/ ResumeQueuedRuns
  <2>1. work'[t] = "pending"
    BY <1>2, <1>14, <1>15 DEF CommitMessage, CommitRestart, CommitPromote, ResumeQueuedRuns
  <2> QED
    BY <2>1, NewRows
<1>16. ~CommitRejected
  BY <1>2 DEF CommitRejected
<1> QED
  BY <1>4, <1>5, <1>6, <1>7, <1>8, <1>9, <1>10, <1>11, <1>12, <1>13, <1>15, <1>16
     DEF Next, TurnStep, Loss, Command, JanitorStep

\* The first run goes on only where it went on before, or is dispatched.
LEMMA WentOn ==
    ASSUME SparedInv, [Next]_vars, FirstGoesOn', status[1] # "none"
    PROVE  FirstGoesOn
<1>1. /\ IInv /\ OrdinalInv /\ 1 \in Run /\ stalls \in Nat
  BY FirstParts DEF SparedInv, IInv, TypeOK
<1>2. stalls = 0
  BY <1>1, StallsGrow DEF FirstGoesOn
<1>3. active[1] = 1 /\ ~(CommitRestart /\ held.run = 1)
  BY <1>1, NotRestarted DEF FirstGoesOn
<1>4. CommitRestart => status'[1] = status[1]
  BY <1>1, <1>3 DEF CommitRestart, IInv, TypeOK
<1>5. status[1] \in {"starting", "running"}
  BY <1>1, <1>4, GoesOn DEF FirstGoesOn, OrdinalInv
<1> QED
  BY <1>2, <1>3, <1>5 DEF FirstGoesOn

LEMMA RowHeldStep == SparedInv /\ [Next]_vars => RowHeldInv'
<1> SUFFICES ASSUME SparedInv, [Next]_vars, FirstGoesOn',
                    slot'[First] # "idle" \/ fiber'[First] = "forked", work'[First] # "running"
             PROVE  FALSE
  BY DEF RowHeldInv, First
<1>1. /\ IInv /\ UnforkedInv /\ SoleInv /\ LeftInv /\ RowHeldInv /\ OrphanInv
      /\ 1 \in Run /\ First \in Turn /\ First[1] = 1
      /\ slot \in [Turn -> {"idle", "awaiting", "loading", "baseline", "forked", "turning",
                            "stopping", "failing", "failed"}]
      /\ status \in [Run -> {"none", "queued"} \cup Blocking \cup Terminal]
      /\ work \in [Turn -> {"none", "pending", "running", "cancelled", "settled"}]
  BY FirstParts DEF SparedInv, IInv, TypeOK
<1>2. status[1] # "none"
  <2> SUFFICES ASSUME status[1] = "none" PROVE FALSE
    OBVIOUS
  <2>1. slot[First] = "idle" /\ fiber[First] = "none"
    BY <1>1 DEF IInv, WorkInv, Started, Blocking, Terminal, Outcomes
  <2>2. CommitMessage
    BY <1>1, NewRuns DEF FirstGoesOn
  <2> QED
    BY <2>1, <2>2 DEF CommitMessage
<1>3. FirstGoesOn
  BY <1>2, WentOn
<1>4. ~ClaimWork(First)
  BY <1>1 DEF ClaimWork
<1>5. slot[First] # "idle" \/ fiber[First] = "forked"
  <2>1. ForkIngestion(First) => slot[First] # "idle"
    BY DEF ForkIngestion
  <2> QED
    BY <1>1, <1>4, <2>1, SlotMoves, FiberMoves
<1>6. work[First] = "running"
  BY <1>1, <1>3, <1>5 DEF RowHeldInv
<1>7. ~JanitorTerminalize
  BY <1>1, <1>3, <1>6 DEF OrphanInv, JanitorTerminalize
<1>8. ~CommitInterrupt
  <2> SUFFICES ASSUME CommitInterrupt PROVE FALSE
    OBVIOUS
  <2>1. held.run = 1
    BY <1>1, <1>3 DEF SoleInv, CommitInterrupt, FirstGoesOn, Blocking
  <2>2. status'[1] = "interrupted"
    BY <1>1, <2>1 DEF CommitInterrupt
  <2> QED
    BY <2>2 DEF FirstGoesOn
<1>9. ~Recover
  <2> SUFFICES ASSUME Recover PROVE FALSE
    OBVIOUS
  <2>1. Nonterminal(1) /\ ~ReplayableCapture(1)
    BY <1>3 DEF FirstGoesOn, Nonterminal, ReplayableCapture, Blocking
  <2>2. status'[1] = "cancelled"
    BY <1>1, <2>1, Recovers DEF CancelsRuns
  <2> QED
    BY <2>2 DEF FirstGoesOn
<1> QED
  BY <1>1, <1>6, <1>7, <1>8, <1>9, WorkEnds

LEMMA OrphanStep == SparedInv /\ [Next]_vars => OrphanInv'
<1> SUFFICES ASSUME SparedInv, [Next]_vars, FirstGoesOn', janitor'.stage # "idle"
             PROVE  /\ slot'[First] = "idle" /\ work'[First] \notin {"pending", "running"}
                    /\ fiber'[First] \notin Alive
  BY DEF OrphanInv, First, Alive
<1>1. /\ IInv /\ OrdinalInv /\ RowHeldInv /\ OrphanInv
      /\ 1 \in Run /\ First \in Turn /\ First[1] = 1 /\ First[2] = 1
      /\ work \in [Turn -> {"none", "pending", "running", "cancelled", "settled"}]
      /\ fiber \in [Turn -> {"none", "forked", "listening", "deciding", "leaving", "gone"}]
  BY FirstParts DEF SparedInv, IInv, TypeOK
<1>2. CASE JanitorFind
  <2>1. /\ UNCHANGED <<status, active, stalls, slot, work, fiber>>
        /\ lease[1] # "valid" /\ work[First] \notin {"pending", "running"}
    BY <1>1, <1>2 DEF JanitorFind, Uncovered, budgetVars
  <2>2. FirstGoesOn
    BY <2>1 DEF FirstGoesOn
  <2>3. slot[First] = "idle" /\ fiber[First] # "forked"
    BY <1>1, <2>1, <2>2 DEF RowHeldInv
  <2>4. fiber[First] \notin {"listening", "deciding"}
    BY <1>1, <2>1, <2>2 DEF IInv, UndisturbedFiberHoldsLease, FirstGoesOn, IsCurrent
  <2> QED
    BY <2>1, <2>3, <2>4 DEF Alive
<1>3. CASE janitor.stage # "idle"
  <2>1. FirstGoesOn
    BY <1>1, <1>3, WentOn DEF OrdinalInv
  <2>2. slot[First] = "idle" /\ work[First] \notin {"pending", "running"} /\ fiber[First] \notin Alive
    BY <1>1, <1>3, <2>1 DEF OrphanInv
  <2>3. slot'[First] = "idle"
    BY <1>1, <2>2, SlotMoves DEF ClaimWork
  <2>4. fiber'[First] \notin Alive
    BY <1>1, <2>2, FiberMoves DEF ForkIngestion, Alive
  <2>5. work'[First] # "pending"
    BY <1>1, <2>1, <2>2, NewRows DEF FirstGoesOn
  <2>6. work'[First] # "running"
    <3>1. CASE work' = work \/ work' = RetireWork
      BY <1>1, <2>2, <3>1 DEF RetireWork
    <3>2. ASSUME NEW u \in Turn, NEW w, work[u] \in {"pending", "running"},
                 work' = [work EXCEPT ![u] = w]
          PROVE  work'[First] # "running"
      BY <1>1, <2>2, <3>2
    <3>3. ASSUME NEW u \in Turn, work' = [work EXCEPT ![u] = "pending"]
          PROVE  work'[First] # "running"
      BY <1>1, <2>2, <3>3
    <3> QED
      BY <1>1, <3>1, <3>2, <3>3, WorkWrites
  <2> QED
    BY <2>3, <2>4, <2>5, <2>6
<1>4. CASE janitor' = janitor \/ janitor' = NoSweep \/ JanitorLoad
  BY <1>3, <1>4 DEF NoSweep, JanitorLoad
<1> QED
  BY <1>1, <1>2, <1>4, JanitorMoves

LEMMA SparedInvHolds == Spec => []SparedInv
<1>1. SparedInv /\ [Next]_vars => SparedInv'
  <2> SUFFICES ASSUME SparedInv, [Next]_vars PROVE SparedInv'
    OBVIOUS
  <2>1. IInv'
    BY TypeStep, HeldStep, SweepStep, WorkStep, AttemptStep, AcceptedStep, LeaseStep, RunsAdvance
       DEF SparedInv, IInv
  <2>2. UnforkedInv' /\ SoleInv'
    BY UnforkedStep, SoleStep DEF SparedInv
  <2>3. OrdinalInv' /\ LeftInv' /\ RowHeldInv' /\ OrphanInv'
    BY OrdinalStep, LeftStep, RowHeldStep, OrphanStep
  <2> QED
    BY <2>1, <2>2, <2>3 DEF SparedInv
<1> QED
  BY SparedInit, <1>1, PTL DEF Spec

\* The janitor does not cancel the thread's first run while the fiber of its first
\* attempt lives and the machine never slept, though the sweep's query is not repeated
\* when it commits: the run it found held nothing, and nothing takes hold of it later.
THEOREM FirstRunIsSpared == Spec => JanitorSparesUndisturbedRuns
<1>1. ASSUME SparedInv, JanitorTerminalize, stalls = 0, NEW t \in Turn, IsCurrent(t),
             t = <<1, 1>>, fiber[t] \in {"listening", "deciding"}, status'[t[1]] # status[t[1]]
      PROVE  FALSE
  <2>1. /\ IInv /\ OrdinalInv /\ LeftInv /\ OrphanInv
        /\ 1 \in Run /\ t = First /\ t[1] = 1 /\ t[2] = 1 /\ active[1] = 1 /\ fiber[t] \in Alive
        /\ status \in [Run -> {"none", "queued"} \cup Blocking \cup Terminal]
    BY <1>1, FirstParts DEF SparedInv, IInv, TypeOK, First, IsCurrent, Alive
  <2>2. /\ 1 \in janitor.copy.runs /\ status'[1] = "cancelled"
        /\ status[1] \in {"queued", "cancelled"} \cup Blocking
    BY <1>1, <2>1, SweepCommits DEF CancelsRuns
  <2>3. status[1] \notin {"none", "queued"}
    BY <2>1, <2>2 DEF IInv, SweepInv, OrdinalInv
  <2>4. status[1] # "waiting"
    BY <1>1, <2>1 DEF LeftInv
  <2>5. status[1] \notin {"starting", "running"}
    BY <1>1, <2>1 DEF OrphanInv, FirstGoesOn, JanitorTerminalize
  <2> QED
    BY <1>1, <2>1, <2>2, <2>3, <2>4, <2>5 DEF Blocking
<1>2. SparedInv /\ [Next]_vars
        => [JanitorTerminalize /\ stalls = 0 =>
              \A t \in Turn : /\ IsCurrent(t) /\ t = <<1, 1>>
                              /\ fiber[t] \in {"listening", "deciding"}
                              => status'[t[1]] = status[t[1]]]_vars
  BY <1>1
<1> QED
  BY SparedInvHolds, <1>2, PTL DEF Spec, JanitorSparesUndisturbedRuns
=============================================================================
