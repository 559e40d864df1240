------------------------- MODULE RunLivenessProofs -------------------------
(***************************************************************************)
(* Proofs about RunLiveness, for any number of runs, attempts, losses,     *)
(* suspensions and crashes. IInv is the inductive invariant; RunMoves sums *)
(* up what any step may do to the runs' statuses.                          *)
(***************************************************************************)
EXTENDS RunLiveness, TLAPS

Started == Blocking \cup Terminal

\* What the command inside the lock has read still holds when it commits, or the
\* gate will refuse it.
HeldInv ==
    /\ held.kind # "none" => Serving /\ held.run \in Run
    /\ held.kind \in {"start", "queue"} => status[held.run] = "none"
    /\ held.kind \in {"start", "promote"} => ~BlockingRun
    /\ held.kind = "promote" => status[held.run] \in {"queued", "cancelled"}
    /\ held.kind \in {"restart", "interrupt"} => status[held.run] \in Started
    /\ held.kind = "restart" => active[held.run] < MaxAttempts

\* The run as the janitor loaded it names the active attempt, which the janitor will
\* cancel or which has ended and so cannot be superseded any more; or that attempt
\* was in progress then and is superseded now, so that the gate will refuse the copy.
CopyInv(r) ==
    LET t == <<r, janitor.copy.active[r]>>
    IN  \/ /\ janitor.copy.active[r] = active[r]
           /\ t \in janitor.copy.attempts \/ attempt[t] \in Terminal
        \/ t \in janitor.copy.attempts /\ attempt[t] = "superseded"

\* The janitor sweeps runs that were dispatched, and attempts of theirs.
SweepInv ==
    /\ \A r \in janitor.copy.runs : status[r] # "none"
    /\ \A t \in janitor.copy.attempts : t[1] \in janitor.copy.runs /\ attempt[t] # "none"
    /\ janitor.stage = "loaded" => \A r \in janitor.copy.runs : CopyInv(r)

\* Effects, fibers and captures belong to runs that were started.
WorkInv ==
    /\ \A t \in Turn : work[t] # "none" => status[t[1]] \in Started /\ t[2] <= active[t[1]]
    /\ \A t \in Turn : slot[t] # "idle" => work[t] # "none"
    /\ \A t \in Turn : fiber[t] # "none" => work[t] # "none"
    /\ \A t \in Turn : fiber[t] = "deciding" => outcome[t] # "none"
    /\ \A r \in Run : capture[r] # "none" => status[r] \in Started

\* A dispatched run has an active attempt, pending until its turn begins, and the
\* attempts before it, and no others, are superseded.
AttemptInv ==
    /\ \A r \in Run : status[r] = "none" <=> active[r] = 0
    /\ \A t \in Turn : t[2] < active[t[1]] <=> attempt[t] = "superseded"
    /\ \A r \in Run : status[r] # "none" => attempt[CurrentTurn(r)] # "none"
    /\ \A r \in Run : status[r] \in {"queued", "starting"} => attempt[CurrentTurn(r)] = "pending"

\* Turns accepted before a process loss belong to runs that recovery ended, or that
\* wait for their checkpoint; their rows are retired, and no command that would
\* start such a run again is in the lock.
AcceptedInv ==
    /\ \A t \in Turn : attempt[t] # "none" => status[t[1]] # "none"
    /\ \A t \in accepted : status[t[1]] # "none"
    /\ ~Serving => \A t \in Turn : slot[t] = "idle"
    /\ Serving => \A t \in accepted :
                     /\ status[t[1]] \in {"waiting"} \cup Terminal
                     /\ slot[t] = "idle" /\ work[t] \notin {"pending", "running"}
                     /\ held.kind \in {"restart", "promote"} => held.run # t[1]

IInv == /\ TypeOK /\ HeldInv /\ SweepInv /\ WorkInv /\ AttemptInv /\ OneBlockingRun
        /\ AcceptedInv /\ UndisturbedFiberHoldsLease

-----------------------------------------------------------------------------
\* The parts of a turn, and a turn built from them.
LEMMA TurnParts ==
    /\ \A t \in Turn : t[1] \in Run /\ t[2] \in 1 .. MaxAttempts /\ t = <<t[1], t[2]>>
    /\ \A r \in Run, n \in 1 .. MaxAttempts : /\ <<r, n>> \in Turn
                                              /\ <<r, n>>[1] = r /\ <<r, n>>[2] = n
    /\ Run \subseteq Nat \ {0} /\ \A r \in Run : r \in 0 .. MaxRuns
    /\ 1 \in 1 .. MaxAttempts
  BY RunLivenessAssumption DEF Turn, Run

\* The gate of EventSink, for runs and attempts.
LEMMA Gates ==
    /\ \A r \in Run, to \in Started : RunGate(r, to) => status[r] = to \/ status[r] \notin Terminal
    /\ \A t \in Turn, to \in Terminal :
          AttemptGate(t, to) => attempt[t] = to \/ attempt[t] \notin {"superseded"} \cup Terminal
    /\ \A t \in Turn : AttemptGate(t, "superseded") => attempt[t] \notin Terminal
  BY DEF RunGate, AttemptGate, Lifecycle!LegalLifecycleTransition, Lifecycle!TerminalLifecycleStatuses,
     Lifecycle!IsTerminalLifecycleStatus, Lifecycle!ReopenableNodeKinds,
     Started, Blocking, Terminal, Outcomes

-----------------------------------------------------------------------------
LEMMA NoSweepType ==
    NoSweep \in [stage : {"idle", "found", "loaded"},
                copy : [runs : SUBSET Run, active : [Run -> 0 .. MaxAttempts],
                        attempts : SUBSET Turn, turns : SUBSET Turn, nodes : SUBSET Turn]]
<1>1. 0 \in 0 .. MaxAttempts
  BY RunLivenessAssumption
<1> QED
  BY <1>1 DEF NoSweep, NoCopy

\* Nothing is dispatched when the server starts on an empty database.
LEMMA InitInv == Init => IInv
<1> SUFFICES ASSUME Init PROVE IInv
  OBVIOUS
<1>1. TypeOK
  <2>1. 0 \in 0 .. MaxAttempts /\ NoCommand.run \in 0 .. MaxRuns /\ NoCommand.kind = "none"
    BY RunLivenessAssumption DEF NoCommand
  <2>2. NoCommand \in [kind : {"none", "start", "queue", "restart", "interrupt", "promote"},
                       run : 0 .. MaxRuns]
    BY <2>1 DEF NoCommand
  <2> QED
    BY <2>1, <2>2, NoSweepType DEF Init, TypeOK
<1>2. HeldInv /\ SweepInv /\ WorkInv
  BY DEF Init, HeldInv, SweepInv, WorkInv, NoCommand, NoSweep, NoCopy
<1>4. AttemptInv
  BY TurnParts DEF Init, AttemptInv
<1>3. OneBlockingRun
  BY DEF Init, OneBlockingRun, Blocking
<1>5. AcceptedInv /\ UndisturbedFiberHoldsLease
  BY DEF Init, AcceptedInv, UndisturbedFiberHoldsLease, Serving
<1> QED
  BY <1>1, <1>2, <1>3, <1>4, <1>5 DEF IInv

-----------------------------------------------------------------------------
\* What the final write of a run does to it, whoever writes it: the run of the
\* active attempt leaves a blocking status, or nothing changes.
LEMMA FinalWrites ==
    ASSUME IInv, NEW t \in Turn, NEW o \in Outcomes, work[t] # "none", WriteFinalRunEvents(t, o)
    PROVE  \/ UNCHANGED <<status, active, attempt, capture, notices, quiet>>
           \/ /\ status[t[1]] \in Started
              /\ \E st \in {"waiting"} \cup Outcomes :
                    /\ status[t[1]] = st \/ status[t[1]] \in Blocking
                    /\ status' = [status EXCEPT ![t[1]] = st]
              /\ active' = active /\ t[2] = active[t[1]]
              /\ attempt' = [attempt EXCEPT ![t] = o]
              /\ attempt[t] = o \/ attempt[t] \notin {"superseded"} \cup Terminal
              /\ capture' = capture \/ capture' = [capture EXCEPT ![t[1]] = "pending"]
              /\ notices' = notices \/ notices' = notices \cup {t[1]}
              /\ quiet' = FALSE
<1> DEFINE r == t[1]
           persisted == IF o = "completed" THEN "waiting" ELSE o
<1>1. r \in Run /\ t[2] \in 1 .. MaxAttempts
  BY TurnParts
<1>2. status[r] \in Started /\ t[2] <= active[r]
  BY DEF IInv, WorkInv
<1>3. persisted \in {"waiting"} \cup Outcomes /\ persisted \in Started
  BY DEF Outcomes, Started, Blocking, Terminal
<1>4. CASE ~(RunGate(r, persisted) /\ AttemptGate(t, o))
  BY <1>4 DEF WriteFinalRunEvents
<1>5. CASE RunGate(r, persisted) /\ AttemptGate(t, o)
  <2>1. status[r] = persisted \/ status[r] \in Blocking
    BY <1>1, <1>2, <1>3, <1>5, Gates DEF Started
  <2>2. o \in Terminal /\ (attempt[t] = o \/ attempt[t] \notin {"superseded"} \cup Terminal)
    BY <1>5, Gates DEF Terminal
  <2>3. t[2] = active[r]
    <3>1. active[r] \in 0 .. MaxAttempts
      BY <1>1 DEF IInv, TypeOK
    <3>2. ~(t[2] < active[r])
      BY <2>2 DEF IInv, AttemptInv, Outcomes
    <3> QED
      BY <1>1, <1>2, <3>1, <3>2, RunLivenessAssumption
  <2>4. /\ status' = [status EXCEPT ![r] = persisted]
        /\ active' = [active EXCEPT ![r] = t[2]]
        /\ attempt' = [attempt EXCEPT ![t] = o]
        /\ capture' = capture \/ capture' = [capture EXCEPT ![r] = "pending"]
        /\ notices' = notices \/ notices' = notices \cup {r}
        /\ quiet' = FALSE
    BY <1>5 DEF WriteFinalRunEvents
  <2>5. active' = active
    BY <1>1, <2>3, <2>4 DEF IInv, TypeOK
  <2> QED
    BY <1>2, <1>3, <2>1, <2>2, <2>3, <2>4, <2>5
<1> QED
  BY <1>4, <1>5

-----------------------------------------------------------------------------
(* The moves of a run. Every step of the system is one of: a run is queued, *)
(* a run is started while no run blocks the thread, or runs leave their     *)
(* blocking statuses and queued runs are cancelled.                         *)

Queues(r) == status[r] = "none" /\ status' = [status EXCEPT ![r] = "queued"]

Starts(r) ==
    /\ status[r] \in {"none", "queued"} /\ ~BlockingRun
    /\ status' = [status EXCEPT ![r] = "starting"]

Proceeds ==
    \A r \in Run : \/ status'[r] = status[r]
                   \/ status[r] \in Blocking /\ status'[r] \in Started
                   \/ status[r] = "queued" /\ status'[r] = "cancelled"

\* The steps of the worker and the ingestion fiber that leave the runs alone.
LEMMA TurnStepsAside ==
    ASSUME NEW t \in Turn,
           \/ ClaimWork(t) \/ AwaitPrevious(t) \/ ForkIngestion(t) \/ StartTurn(t) \/ EndWork(t)
           \/ DecideFailure(t) \/ StopWork(t) \/ AcquireLease(t) \/ IngestTurn(t)
           \/ (\E o \in Outcomes : IngestTerminal(t, o)) \/ IdleRelease(t) \/ ReleaseLease(t)
           \/ StartTurnFails(t) \/ StartError(t) \/ StreamFails(t) \/ FiberDies(t)
    PROVE  UNCHANGED <<status, active, attempt, phase, held>>
<1>1. ASSUME ClaimWork(t) \/ AwaitPrevious(t) \/ ForkIngestion(t) \/ StartTurn(t) \/ EndWork(t)
      PROVE  UNCHANGED <<status, active, attempt, phase, held>>
  BY <1>1 DEF ClaimWork, AwaitPrevious, ForkIngestion, StartTurn, EndWork
<1>2. ASSUME DecideFailure(t) \/ StopWork(t) \/ AcquireLease(t) \/ IngestTurn(t) \/ ReleaseLease(t)
      PROVE  UNCHANGED <<status, active, attempt, phase, held>>
  BY <1>2 DEF DecideFailure, StopWork, AcquireLease, IngestTurn, ReleaseLease
<1>3. ASSUME NEW o \in Outcomes, Decide(t, o)
      PROVE  UNCHANGED <<status, active, attempt, phase, held>>
  BY <1>3 DEF Decide
<1>4. ASSUME (\E o \in Outcomes : IngestTerminal(t, o)) \/ IdleRelease(t) \/ StreamFails(t)
      PROVE  \E o \in Outcomes : Decide(t, o)
  BY <1>4 DEF IngestTerminal, IdleRelease, StreamFails, Outcomes
<1>5. ASSUME StartTurnFails(t) \/ StartError(t) \/ FiberDies(t)
      PROVE  UNCHANGED <<status, active, attempt, phase, held>>
  BY <1>5 DEF StartTurnFails, StartError, FiberDies
<1> QED
  BY <1>1, <1>2, <1>3, <1>4, <1>5

\* So do captures that begin or fail, leases, the clock and a sweep up to its commit.
LEMMA OtherStepsAside ==
    ASSUME \/ \E r \in Run : \/ ClaimCapture(r) \/ CaptureFails(r) \/ LeaseExpires(r)
                             \/ Renew(r) \/ Suspend(r)
           \/ GraceElapses \/ JanitorFind \/ JanitorPrune \/ JanitorLoad
    PROVE  UNCHANGED <<status, active, attempt, phase, held>>
<1>1. ASSUME NEW r \in Run, ClaimCapture(r) \/ CaptureFails(r) \/ LeaseExpires(r)
      PROVE  UNCHANGED <<status, active, attempt, phase, held>>
  BY <1>1 DEF ClaimCapture, CaptureFails, LeaseExpires
<1>2. ASSUME NEW r \in Run, Renew(r) \/ Suspend(r)
      PROVE  UNCHANGED <<status, active, attempt, phase, held>>
  BY <1>2 DEF Renew, Suspend
<1>3. ASSUME GraceElapses \/ JanitorFind \/ JanitorPrune \/ JanitorLoad
      PROVE  UNCHANGED <<status, active, attempt, phase, held>>
  BY <1>3 DEF GraceElapses, JanitorFind, JanitorPrune, JanitorLoad
<1> QED
  BY <1>1, <1>2, <1>3

\* What cancelling the runs of S does to runs and attempts.
CancelsRuns(S) ==
    /\ status' = [r \in Run |-> IF r \in S THEN "cancelled" ELSE status[r]]
    /\ active' = active
    /\ \A t \in Turn : \/ attempt'[t] = attempt[t]
                       \/ /\ t[1] \in S /\ attempt[t] \in {"pending", "running"}
                          /\ attempt'[t] = "cancelled"
    /\ quiet' = (quiet /\ S = {})

\* A sweep that the gate lets through writes back the active attempts: one that was
\* superseded since the read is among the attempts it cancels, and is refused.
LEMMA SweepCommits ==
    ASSUME IInv, JanitorTerminalize
    PROVE  /\ janitor.copy.runs \in SUBSET Run
           /\ \/ UNCHANGED <<status, active, attempt, turn, work, quiet>>
              \/ /\ \A r \in janitor.copy.runs : status[r] \in {"queued", "cancelled"} \cup Blocking
                 /\ CancelsRuns(janitor.copy.runs) /\ work' = RetireWork
<1> DEFINE copy == janitor.copy
<1>1. /\ copy.runs \subseteq Run /\ copy.active \in [Run -> 0 .. MaxAttempts]
      /\ copy.attempts \subseteq Turn /\ active \in [Run -> 0 .. MaxAttempts]
      /\ attempt \in [Turn -> {"none", "pending", "running", "superseded"} \cup Terminal]
      /\ status \in [Run -> {"none", "queued"} \cup Blocking \cup Terminal]
  BY DEF IInv, TypeOK
<1>2. CASE UNCHANGED <<status, active, attempt, turn, work, quiet>>
  BY <1>1, <1>2
<1>3. CASE CopyGate(copy) /\ Cancel(copy) /\ work' = RetireWork
  <2>1. ASSUME NEW r \in copy.runs
        PROVE  status[r] \in {"queued", "cancelled"} \cup Blocking
    <3>1. r \in Run /\ status[r] # "none"
      BY <1>1 DEF IInv, SweepInv
    <3>2. status[r] = "cancelled" \/ status[r] \notin Terminal
      BY <1>3, <3>1, Gates DEF CopyGate, Started, Terminal
    <3> QED
      BY <1>1, <3>1, <3>2
  <2>2. ASSUME NEW t \in copy.attempts
        PROVE  /\ t \in Turn /\ t[1] \in copy.runs
               /\ attempt[t] \in {"pending", "running", "cancelled"}
    <3>1. t \in Turn /\ t[1] \in copy.runs /\ attempt[t] # "none"
      BY <1>1 DEF IInv, SweepInv
    <3>2. attempt[t] = "cancelled" \/ attempt[t] \notin {"superseded"} \cup Terminal
      BY <1>3, <3>1, Gates DEF CopyGate, Terminal
    <3> QED
      BY <1>1, <3>1, <3>2
  <2>3. ASSUME NEW r \in copy.runs PROVE copy.active[r] = active[r]
    <3>1. CopyInv(r)
      BY DEF IInv, SweepInv, JanitorTerminalize
    <3>2. <<r, copy.active[r]>> \in copy.attempts => attempt[<<r, copy.active[r]>>] # "superseded"
      BY <2>2
    <3> QED
      BY <3>1, <3>2 DEF CopyInv
  <2>4. active' = active
    BY <1>1, <1>3, <2>3 DEF Cancel
  <2>5. ASSUME NEW t \in Turn
        PROVE  \/ attempt'[t] = attempt[t]
               \/ /\ t[1] \in copy.runs /\ attempt[t] \in {"pending", "running"}
                  /\ attempt'[t] = "cancelled"
    <3>1. attempt'[t] = IF t \in copy.attempts THEN "cancelled" ELSE attempt[t]
      BY <1>3 DEF Cancel
    <3> QED
      BY <2>2, <3>1
  <2> QED
    BY <1>1, <1>3, <2>1, <2>4, <2>5 DEF Cancel, CancelsRuns
<1> QED
  BY <1>2, <1>3 DEF JanitorTerminalize

\* Recovery cancels every run in progress but those that wait for their checkpoint.
LEMMA Recovers ==
    ASSUME IInv, Recover
    PROVE  /\ CancelsRuns({r \in Run : Nonterminal(r) /\ ~ReplayableCapture(r)})
           /\ work' = RetireWork
<1> DEFINE S == {r \in Run : Nonterminal(r) /\ ~ReplayableCapture(r)}
           copy == Loaded(Run)
<1>1. /\ active \in [Run -> 0 .. MaxAttempts] /\ Cancel(copy) /\ work' = RetireWork
      /\ \A t \in Turn : t[1] \in Run
  BY TurnParts DEF IInv, TypeOK, Recover
<1>2. /\ copy.runs = S
      /\ copy.active = [r \in Run |-> IF r \in S THEN active[r] ELSE 0]
      /\ copy.attempts = {t \in Turn : t[1] \in S /\ attempt[t] \in {"pending", "running"}}
  BY DEF Loaded
<1> HIDE DEF S, copy
<1>3. active' = active
  BY <1>1, <1>2 DEF Cancel
<1>4. ASSUME NEW t \in Turn
      PROVE  \/ attempt'[t] = attempt[t]
             \/ t[1] \in S /\ attempt[t] \in {"pending", "running"} /\ attempt'[t] = "cancelled"
  BY <1>1, <1>2 DEF Cancel
<1>5. CancelsRuns(S)
  BY <1>1, <1>2, <1>3, <1>4 DEF Cancel, CancelsRuns
<1> QED
  BY <1>1, <1>5 DEF S

\* Cancelling runs of S, which the gate lets it cancel or the read found
\* nonterminal, is proceeding.
LEMMA Cancels ==
    ASSUME IInv, NEW S \in SUBSET Run, CancelsRuns(S),
           \A r \in S : status[r] \in {"queued", "cancelled"} \cup Blocking
    PROVE  Proceeds
  BY DEF CancelsRuns, Proceeds, Started, Terminal

\* An update of one run from a blocking status is proceeding.
LEMMA Updates ==
    ASSUME IInv, NEW r \in Run, NEW to \in Started, status' = [status EXCEPT ![r] = to],
           status[r] = to \/ status[r] \in Blocking
    PROVE  Proceeds
  BY DEF Proceeds, IInv, TypeOK

\* The final write of a run is proceeding.
LEMMA FinalWriteProceeds ==
    ASSUME IInv, NEW t \in Turn, NEW o \in Outcomes, work[t] # "none", WriteFinalRunEvents(t, o)
    PROVE  Proceeds /\ active' = active
<1>1. CASE UNCHANGED <<status, active, attempt, capture, notices, quiet>>
  BY <1>1 DEF Proceeds
<1>2. CASE /\ active' = active
           /\ \E st \in {"waiting"} \cup Outcomes :
                 /\ status[t[1]] = st \/ status[t[1]] \in Blocking
                 /\ status' = [status EXCEPT ![t[1]] = st]
  <2>1. PICK st \in {"waiting"} \cup Outcomes :
                 /\ status[t[1]] = st \/ status[t[1]] \in Blocking
                 /\ status' = [status EXCEPT ![t[1]] = st]
    BY <1>2
  <2>2. st \in Started /\ t[1] \in Run
    BY TurnParts DEF Started, Blocking, Terminal, Outcomes
  <2> QED
    BY <1>2, <2>1, <2>2, Updates
<1> QED
  BY <1>1, <1>2, FinalWrites

-----------------------------------------------------------------------------
\* The steps that may move a run, a command or the process.
LEMMA Steps ==
    ASSUME [Next]_vars
    PROVE  \/ UNCHANGED <<status, active, attempt, phase, held>>
           \/ Command
           \/ \E t \in Turn : BeginTurn(t) \/ FinalizeRootRun(t) \/ WriteFailure(t)
           \/ \E r \in Run : CommitCapture(r)
           \/ JanitorTerminalize \/ Crash \/ ResumeQueuedRuns \/ Recover
<1>1. CASE UNCHANGED vars
  BY <1>1 DEF vars
<1>2. ASSUME NEW t \in Turn, TurnStep(t) \/ Loss(t)
      PROVE  \/ UNCHANGED <<status, active, attempt, phase, held>>
             \/ BeginTurn(t) \/ FinalizeRootRun(t) \/ WriteFailure(t)
  BY <1>2, TurnStepsAside DEF TurnStep, Loss
<1>3. ASSUME NEW r \in Run, RunStep(r) \/ Suspend(r)
      PROVE  UNCHANGED <<status, active, attempt, phase, held>> \/ CommitCapture(r)
  BY <1>3, OtherStepsAside DEF RunStep
<1>4. CASE GraceElapses \/ JanitorStep
  BY <1>4, OtherStepsAside DEF JanitorStep
<1> QED
  BY <1>1, <1>2, <1>3, <1>4 DEF Next

\* The commands that only read.
LEMMA Readings ==
    ASSUME Command
    PROVE  \/ UNCHANGED <<status, active, attempt>>
           \/ CommitMessage \/ CommitRestart \/ CommitInterrupt \/ CommitPromote
<1>1. ASSUME NEW r \in Run, BeginMessage(r) \/ BeginRestart(r) \/ BeginInterrupt(r)
      PROVE  UNCHANGED <<status, active, attempt>>
  BY <1>1 DEF BeginMessage, BeginRestart, BeginInterrupt
<1>2. ASSUME (\E n \in Run : HandleTerminalRun(n)) \/ CommitRejected
      PROVE  UNCHANGED <<status, active, attempt>>
  BY <1>2 DEF HandleTerminalRun, CommitRejected
<1> QED
  BY <1>1, <1>2 DEF Command

\* Whatever happens outside the thread's lock and the boot only proceeds.
LEMMA OwnMoves ==
    ASSUME IInv, [Next]_vars, ~Command, ~ResumeQueuedRuns
    PROVE  Proceeds
<1>1. CASE UNCHANGED <<status, active>>
  BY <1>1 DEF Proceeds
<1>2. ASSUME NEW t \in Turn, BeginTurn(t) PROVE Proceeds
  <2>1. CASE UNCHANGED status
    BY <2>1 DEF Proceeds
  <2>2. CASE status[t[1]] = "starting" /\ status' = [status EXCEPT ![t[1]] = "running"]
    <3>1. t[1] \in Run /\ "running" \in Started /\ "starting" \in Blocking
      BY TurnParts DEF Started, Blocking
    <3> QED
      BY <2>2, <3>1, Updates
  <2> QED
    BY <1>2, <2>1, <2>2 DEF BeginTurn
<1>3. ASSUME NEW t \in Turn, FinalizeRootRun(t) PROVE Proceeds
  <2>1. outcome[t] \in Outcomes /\ work[t] # "none" /\ WriteFinalRunEvents(t, outcome[t])
    BY <1>3 DEF FinalizeRootRun, IInv, WorkInv, TypeOK
  <2> QED
    BY <2>1, FinalWriteProceeds
<1>4. ASSUME NEW t \in Turn, WriteFailure(t) PROVE Proceeds
  <2>1. "failed" \in Outcomes /\ work[t] # "none" /\ WriteFinalRunEvents(t, "failed")
    BY <1>4 DEF WriteFailure, IInv, WorkInv, Outcomes
  <2> QED
    BY <2>1, FinalWriteProceeds
<1>5. ASSUME NEW r \in Run, CommitCapture(r) PROVE Proceeds
  <2>1. CASE UNCHANGED status
    BY <2>1 DEF Proceeds
  <2>2. CASE RunGate(r, "completed") /\ status' = [status EXCEPT ![r] = "completed"]
    <3>1. status[r] \in Started
      BY <1>5 DEF CommitCapture, IInv, WorkInv
    <3>2. "completed" \in Started /\ (status[r] = "completed" \/ status[r] \in Blocking)
      BY <2>2, <3>1, Gates DEF Started, Terminal, Outcomes
    <3> QED
      BY <2>2, <3>2, Updates
  <2> QED
    BY <1>5, <2>1, <2>2 DEF CommitCapture
<1>6. CASE JanitorTerminalize
  <2>1. CASE UNCHANGED status
    BY <2>1 DEF Proceeds
  <2> QED
    BY <1>6, <2>1, SweepCommits, Cancels
<1>7. CASE Crash
  BY <1>7 DEF Crash, Proceeds
<1>8. CASE Recover
  <2> DEFINE runs == {r \in Run : Nonterminal(r) /\ ~ReplayableCapture(r)}
  <2>1. CancelsRuns(runs)
    BY <1>8, Recovers
  <2>2. \A r \in runs : status[r] \in {"queued", "cancelled"} \cup Blocking
    BY DEF Nonterminal
  <2> QED
    BY <2>1, <2>2, Cancels
<1> QED
  BY <1>1, <1>2, <1>3, <1>4, <1>5, <1>6, <1>7, <1>8, Steps

\* Commands and the boot may also start or queue a run.
LEMMA CommandMoves ==
    ASSUME IInv, Command \/ ResumeQueuedRuns
    PROVE  Proceeds \/ \E r \in Run : Starts(r) \/ Queues(r)
<1>1. CASE UNCHANGED <<status, active>>
  BY <1>1 DEF Proceeds
<1>2. CASE CommitMessage
  <2>1. held.run \in Run /\ status[held.run] = "none"
    BY <1>2 DEF CommitMessage, IInv, HeldInv
  <2>2. CASE held.kind = "start"
    <3>1. ~BlockingRun
      BY <2>2 DEF IInv, HeldInv
    <3>2. status' = [status EXCEPT ![held.run] = "starting"]
      BY <1>2, <2>2 DEF CommitMessage
    <3> QED
      BY <2>1, <3>1, <3>2 DEF Starts
  <2>3. CASE held.kind = "queue"
    BY <1>2, <2>1, <2>3 DEF CommitMessage, Queues
  <2> QED
    BY <1>2, <2>2, <2>3 DEF CommitMessage
<1>3. CASE CommitRestart
  <2>1. held.run \in Run /\ status[held.run] \in Started /\ RunGate(held.run, "starting")
    BY <1>3 DEF CommitRestart, IInv, HeldInv
  <2>2. status[held.run] \in Blocking /\ "starting" \in Started
    BY <2>1, Gates DEF Started, Blocking
  <2> QED
    BY <1>3, <2>1, <2>2, Updates DEF CommitRestart
<1>4. CASE CommitInterrupt
  <2>1. held.run \in Run /\ status[held.run] \in Started /\ RunGate(held.run, "interrupted")
    BY <1>4 DEF CommitInterrupt, IInv, HeldInv
  <2>2. /\ status[held.run] = "interrupted" \/ status[held.run] \in Blocking
        /\ "interrupted" \in Started
    BY <2>1, Gates DEF Started, Terminal, Outcomes
  <2> QED
    BY <1>4, <2>1, <2>2, Updates DEF CommitInterrupt
<1>5. CASE CommitPromote
  <2>1. /\ held.run \in Run /\ status[held.run] \in {"queued", "cancelled"} /\ ~BlockingRun
        /\ RunGate(held.run, "starting")
    BY <1>5 DEF CommitPromote, IInv, HeldInv
  <2>2. status[held.run] = "queued"
    BY <2>1, Gates DEF Started, Blocking, Terminal
  <2> QED
    BY <1>5, <2>1, <2>2 DEF CommitPromote, Starts
<1>6. CASE ResumeQueuedRuns
  <2>1. CASE UNCHANGED status
    BY <2>1 DEF Proceeds
  <2>2. ASSUME NEW r \in Run, NextQueuedRun(r), status' = [status EXCEPT ![r] = "starting"],
               ~BlockingRun
        PROVE  Starts(r)
    BY <2>2 DEF NextQueuedRun, Starts
  <2> QED
    BY <1>6, <2>1, <2>2 DEF ResumeQueuedRuns
<1> QED
  BY <1>1, <1>2, <1>3, <1>4, <1>5, <1>6, Readings

\* Every step is one of the moves.
LEMMA RunMoves ==
    ASSUME IInv, [Next]_vars
    PROVE  Proceeds \/ \E r \in Run : Starts(r) \/ Queues(r)
  BY OwnMoves, CommandMoves

\* Only two commands move the active attempt, both forward.
LEMMA ActiveMoves ==
    ASSUME IInv, [Next]_vars
    PROVE  active' = active \/ CommitMessage \/ CommitRestart
<1>1. ASSUME NEW t \in Turn, FinalizeRootRun(t) PROVE active' = active
  <2>1. outcome[t] \in Outcomes /\ work[t] # "none" /\ WriteFinalRunEvents(t, outcome[t])
    BY <1>1 DEF FinalizeRootRun, IInv, WorkInv, TypeOK
  <2> QED
    BY <2>1, FinalWriteProceeds
<1>2. ASSUME NEW t \in Turn, WriteFailure(t) PROVE active' = active
  <2>1. "failed" \in Outcomes /\ work[t] # "none" /\ WriteFinalRunEvents(t, "failed")
    BY <1>2 DEF WriteFailure, IInv, WorkInv, Outcomes
  <2> QED
    BY <2>1, FinalWriteProceeds
<1>3. ASSUME NEW t \in Turn, BeginTurn(t) PROVE active' = active
  BY <1>3 DEF BeginTurn
<1>4. ASSUME NEW r \in Run, CommitCapture(r) PROVE active' = active
  BY <1>4 DEF CommitCapture
<1>5. CASE CommitInterrupt \/ CommitPromote
  BY <1>5 DEF CommitInterrupt, CommitPromote
<1>6. CASE Crash \/ ResumeQueuedRuns
  BY <1>6 DEF Crash, ResumeQueuedRuns
<1>7. CASE JanitorTerminalize \/ Recover
  BY <1>7, SweepCommits, Recovers DEF CancelsRuns
<1> QED
  BY <1>1, <1>2, <1>3, <1>4, <1>5, <1>6, <1>7, Steps, Readings

\* What the moves preserve.
LEMMA RunsAdvance ==
    ASSUME IInv, [Next]_vars
    PROVE  /\ \A r \in Run : status[r] \in Terminal => status'[r] = status[r]
           /\ \A r \in Run : status[r] \in Started => status'[r] \in Started
           /\ \A r \in Run : status[r] # "none" => status'[r] # "none"
           /\ \A r \in Run : active'[r] >= active[r]
           /\ OneBlockingRun'
<1> DEFINE Kept == /\ \A r \in Run : status[r] \in Terminal => status'[r] = status[r]
                   /\ \A r \in Run : status[r] \in Started => status'[r] \in Started
                   /\ \A r \in Run : status[r] # "none" => status'[r] # "none"
                   /\ OneBlockingRun'
<1>1. /\ status \in [Run -> {"none", "queued"} \cup Blocking \cup Terminal]
      /\ active \in [Run -> 0 .. MaxAttempts]
  BY DEF IInv, TypeOK
<1>2. ASSUME Proceeds PROVE Kept
  <2>1. ASSUME NEW r \in Run
        PROVE  /\ status[r] \in Terminal => status'[r] = status[r]
               /\ status[r] \in Started => status'[r] \in Started
               /\ status[r] # "none" => status'[r] # "none"
               /\ status'[r] \in Blocking => status[r] \in Blocking
    <3>1. \/ status'[r] = status[r]
          \/ status[r] \in Blocking /\ status'[r] \in Started
          \/ status[r] = "queued" /\ status'[r] = "cancelled"
      BY <1>2 DEF Proceeds
    <3> QED
      BY <3>1 DEF Started, Blocking, Terminal, Outcomes
  <2>2. OneBlockingRun'
    BY <2>1 DEF IInv, OneBlockingRun
  <2> QED
    BY <2>1, <2>2
<1>3. ASSUME NEW q \in Run, Starts(q)
      PROVE  Kept
  BY <1>1, <1>3 DEF Starts, Started, Blocking, Terminal, Outcomes, OneBlockingRun, BlockingRun
<1>4. ASSUME NEW q \in Run, Queues(q)
      PROVE  Kept
  BY <1>1, <1>4 DEF Queues, Started, Blocking, Terminal, Outcomes, OneBlockingRun, IInv
<1>5. \A r \in Run : active'[r] >= active[r]
  <2>1. CASE active' = active
    BY <1>1, <2>1
  <2>2. CASE CommitMessage
    <3>1. held.run \in Run /\ active[held.run] = 0
      BY <2>2 DEF CommitMessage, IInv, HeldInv, AttemptInv
    <3>2. active' = [active EXCEPT ![held.run] = 1]
      BY <2>2 DEF CommitMessage
    <3> QED
      BY <1>1, <3>1, <3>2
  <2>3. CASE CommitRestart
    <3>1. active' = [active EXCEPT ![held.run] = @ + 1]
      BY <2>3 DEF CommitRestart
    <3> QED
      BY <1>1, <3>1
  <2> QED
    BY <2>1, <2>2, <2>3, ActiveMoves
<1>6. Proceeds \/ \E r \in Run : Starts(r) \/ Queues(r)
  BY RunMoves
<1> QED
  BY <1>2, <1>3, <1>4, <1>5, <1>6

-----------------------------------------------------------------------------
\* Types of what the shared parts of the handlers write.
LEMMA FinishTypes ==
    ASSUME TypeOK, NEW t \in Turn, Finish(t)
    PROVE  /\ work' \in [Turn -> {"none", "pending", "running", "cancelled", "settled"}]
           /\ slot' \in [Turn -> {"idle", "awaiting", "loading", "baseline", "forked", "turning",
                                 "stopping", "failing", "failed"}]
  BY DEF Finish, TypeOK

LEMMA FinalWriteTypes ==
    ASSUME TypeOK, NEW t \in Turn, NEW o \in Outcomes, WriteFinalRunEvents(t, o)
    PROVE  /\ status' \in [Run -> {"none", "queued"} \cup Blocking \cup Terminal]
           /\ active' \in [Run -> 0 .. MaxAttempts]
           /\ attempt' \in [Turn -> {"none", "pending", "running", "superseded"} \cup Terminal]
           /\ capture' \in [Run -> {"none", "pending", "running", "settled"}]
           /\ notices' \subseteq Run /\ quiet' \in BOOLEAN
<1> DEFINE r == t[1]
           persisted == IF o = "completed" THEN "waiting" ELSE o
<1>1. r \in Run /\ t[2] \in 0 .. MaxAttempts
  BY TurnParts
<1>2. persisted \in {"none", "queued"} \cup Blocking \cup Terminal /\ o \in Terminal
  BY DEF Blocking, Terminal, Outcomes
<1>3. CASE ~(RunGate(r, persisted) /\ AttemptGate(t, o))
  BY <1>3 DEF WriteFinalRunEvents, TypeOK
<1>4. CASE RunGate(r, persisted) /\ AttemptGate(t, o)
  <2>1. /\ status' = [status EXCEPT ![r] = persisted]
        /\ active' = [active EXCEPT ![r] = t[2]]
        /\ attempt' = [attempt EXCEPT ![t] = o]
        /\ capture' = capture \/ capture' = [capture EXCEPT ![r] = "pending"]
        /\ notices' = notices \/ notices' = notices \cup {r}
        /\ quiet' = FALSE
    BY <1>4 DEF WriteFinalRunEvents
  <2> HIDE DEF r, persisted
  <2>2. status' \in [Run -> {"none", "queued"} \cup Blocking \cup Terminal]
    BY <1>1, <1>2, <2>1 DEF TypeOK
  <2>3. active' \in [Run -> 0 .. MaxAttempts]
    BY <1>1, <2>1 DEF TypeOK
  <2>4. attempt' \in [Turn -> {"none", "pending", "running", "superseded"} \cup Terminal]
    BY <1>2, <2>1 DEF TypeOK
  <2>5. capture' \in [Run -> {"none", "pending", "running", "settled"}]
    BY <1>1, <2>1 DEF TypeOK
  <2>6. notices' \subseteq Run /\ quiet' \in BOOLEAN
    BY <1>1, <2>1 DEF TypeOK
  <2> QED
    BY <2>2, <2>3, <2>4, <2>5, <2>6
<1> QED
  BY <1>3, <1>4

LEMMA CancelTypes ==
    ASSUME TypeOK, NEW S \in SUBSET Run, CancelsRuns(S), work' = RetireWork,
           NEW copy, turn' = [t \in Turn |-> IF t \in copy.turns THEN "ended" ELSE turn[t]],
           attempt' = [t \in Turn |-> IF t \in copy.attempts THEN "cancelled" ELSE attempt[t]]
    PROVE  /\ status' \in [Run -> {"none", "queued"} \cup Blocking \cup Terminal]
           /\ active' \in [Run -> 0 .. MaxAttempts]
           /\ attempt' \in [Turn -> {"none", "pending", "running", "superseded"} \cup Terminal]
           /\ turn' \in [Turn -> {"none", "accepted", "running", "ended"}]
           /\ work' \in [Turn -> {"none", "pending", "running", "cancelled", "settled"}]
           /\ quiet' \in BOOLEAN
<1>1. status' \in [Run -> {"none", "queued"} \cup Blocking \cup Terminal] /\ active' \in [Run -> 0 .. MaxAttempts]
  BY DEF CancelsRuns, TypeOK, Terminal
<1>2. attempt' \in [Turn -> {"none", "pending", "running", "superseded"} \cup Terminal]
  BY DEF TypeOK, Terminal
<1>3. turn' \in [Turn -> {"none", "accepted", "running", "ended"}]
  BY DEF TypeOK
<1>4. work' \in [Turn -> {"none", "pending", "running", "cancelled", "settled"}]
  BY DEF RetireWork, TypeOK
<1>5. quiet' \in BOOLEAN
  BY DEF CancelsRuns, TypeOK
<1> QED
  BY <1>1, <1>2, <1>3, <1>4, <1>5

\* What a sweep or recovery reads of the projection.
LEMMA LoadedTypes ==
    ASSUME TypeOK, NEW S \in SUBSET Run
    PROVE  Loaded(S) \in [runs : SUBSET Run, active : [Run -> 0 .. MaxAttempts],
                          attempts : SUBSET Turn, turns : SUBSET Turn, nodes : SUBSET Turn]
<1>1. /\ active \in [Run -> 0 .. MaxAttempts] /\ 0 \in 0 .. MaxAttempts
  BY RunLivenessAssumption DEF TypeOK
<1> QED
  BY <1>1 DEF Loaded

\* Sweeps and recovery keep every variable's type.
LEMMA ReconcileTypes ==
    ASSUME IInv, JanitorTerminalize \/ Recover
    PROVE  TypeOK'
<1>1. TypeOK
  BY DEF IInv
<1>2. CASE JanitorTerminalize
  <2>1. /\ janitor' = NoSweep
        /\ UNCHANGED <<capture, lease, phase, held, notices, slot, fiber, outcome, accepted,
                       losses, stalls, crashes>>
        /\ \/ UNCHANGED <<status, active, attempt, turn, work, quiet>>
           \/ Cancel(janitor.copy)
    BY <1>2 DEF JanitorTerminalize, budgetVars
  <2>2. CASE UNCHANGED <<status, active, attempt, turn, work, quiet>>
    BY <1>1, <2>1, <2>2, NoSweepType DEF TypeOK
  <2>3. CASE Cancel(janitor.copy) /\ CancelsRuns(janitor.copy.runs) /\ work' = RetireWork
    <3>1. /\ status' \in [Run -> {"none", "queued"} \cup Blocking \cup Terminal]
          /\ active' \in [Run -> 0 .. MaxAttempts]
          /\ attempt' \in [Turn -> {"none", "pending", "running", "superseded"} \cup Terminal]
          /\ turn' \in [Turn -> {"none", "accepted", "running", "ended"}]
          /\ work' \in [Turn -> {"none", "pending", "running", "cancelled", "settled"}]
          /\ quiet' \in BOOLEAN
      BY <1>1, <1>2, <2>3, SweepCommits, CancelTypes DEF Cancel
    <3> QED
      BY <1>1, <2>1, <3>1, NoSweepType DEF TypeOK
  <2> QED
    BY <1>2, <2>1, <2>2, <2>3, SweepCommits
<1>3. CASE Recover
  <2> DEFINE runs == {r \in Run : Nonterminal(r) /\ ~ReplayableCapture(r)}
  <2>1. /\ phase' = "serving" /\ Cancel(Loaded(Run)) /\ CancelsRuns(runs) /\ work' = RetireWork
        /\ capture' = [r \in Run |-> IF capture[r] = "running" THEN "pending" ELSE capture[r]]
        /\ UNCHANGED <<lease, held, notices, slot, fiber, outcome, janitor, accepted,
                       losses, stalls, crashes>>
    BY <1>3, Recovers DEF Recover, budgetVars
  <2>2. /\ status' \in [Run -> {"none", "queued"} \cup Blocking \cup Terminal]
        /\ active' \in [Run -> 0 .. MaxAttempts]
        /\ attempt' \in [Turn -> {"none", "pending", "running", "superseded"} \cup Terminal]
        /\ turn' \in [Turn -> {"none", "accepted", "running", "ended"}]
        /\ work' \in [Turn -> {"none", "pending", "running", "cancelled", "settled"}]
        /\ quiet' \in BOOLEAN
    <3>1. runs \in SUBSET Run
      OBVIOUS
    <3> HIDE DEF runs
    <3> QED
      BY <1>1, <2>1, <3>1, CancelTypes DEF Cancel
  <2>3. capture' \in [Run -> {"none", "pending", "running", "settled"}]
    BY <1>1, <2>1 DEF TypeOK
  <2> QED
    BY <1>1, <2>1, <2>2, <2>3 DEF TypeOK
<1> QED
  BY <1>2, <1>3

\* The current attempt of a dispatched run is a turn.
LEMMA CurrentTurns ==
    ASSUME IInv
    PROVE  \A r \in Run : status[r] # "none" => CurrentTurn(r) \in Turn
<1> SUFFICES ASSUME NEW r \in Run, status[r] # "none" PROVE CurrentTurn(r) \in Turn
  OBVIOUS
<1>1. active[r] \in 1 .. MaxAttempts
  BY RunLivenessAssumption DEF IInv, TypeOK, AttemptInv
<1> QED
  BY <1>1, TurnParts DEF CurrentTurn

\* Every step keeps every variable's type.
LEMMA TypeStep == IInv /\ [Next]_vars => TypeOK'
<1> SUFFICES ASSUME IInv, [Next]_vars PROVE TypeOK'
  OBVIOUS
<1> USE TurnParts, RunLivenessAssumption
    DEF IInv, TypeOK, budgetVars, NoCommand, Blocking, Outcomes, Terminal
<1>1. ASSUME NEW r \in Run, BeginMessage(r) PROVE TypeOK'
  BY <1>1 DEF BeginMessage
<1>2. ASSUME NEW r \in Run, BeginRestart(r) PROVE TypeOK'
  BY <1>2 DEF BeginRestart
<1>3. ASSUME NEW r \in Run, BeginInterrupt(r) PROVE TypeOK'
  BY <1>3 DEF BeginInterrupt
<1>4. ASSUME NEW r \in Run, HandleTerminalRun(r) PROVE TypeOK'
  BY <1>4 DEF HandleTerminalRun
<1>5. ASSUME CommitMessage PROVE TypeOK'
  <2>1. held.run \in Run /\ <<held.run, 1>> \in Turn
    BY <1>5 DEF CommitMessage, HeldInv
  <2>2. CASE held.kind = "start"
    <3>1. /\ status' = [status EXCEPT ![held.run] = "starting"]
            /\ active' = [active EXCEPT ![held.run] = 1]
            /\ attempt' = [attempt EXCEPT ![<<held.run, 1>>] = "pending"]
            /\ work' = [work EXCEPT ![<<held.run, 1>>] = "pending"]
            /\ held' = NoCommand
            /\ quiet' = FALSE
            /\ UNCHANGED <<turn, capture, lease, phase, notices, slot, fiber, outcome, janitor,
                         accepted, losses, stalls, crashes>>
      BY <1>5, <2>2 DEF CommitMessage, budgetVars
    <3>2. status' \in [Run -> {"none", "queued"} \cup Blocking \cup Terminal]
      BY <2>1, <3>1
    <3>3. active' \in [Run -> 0 .. MaxAttempts]
      BY <2>1, <3>1
    <3>4. attempt' \in [Turn -> {"none", "pending", "running", "superseded"} \cup Terminal]
      BY <2>1, <3>1
    <3>5. work' \in [Turn -> {"none", "pending", "running", "cancelled", "settled"}]
      BY <2>1, <3>1
    <3>6. held' \in [kind : {"none", "start", "queue", "restart", "interrupt", "promote"},
                    run : 0 .. MaxRuns]
      BY <2>1, <3>1
    <3> QED
      BY <2>1, <3>1, <3>2, <3>3, <3>4, <3>5, <3>6
  <2>3. CASE held.kind = "queue"
    <3>1. /\ status' = [status EXCEPT ![held.run] = "queued"]
            /\ active' = [active EXCEPT ![held.run] = 1]
            /\ attempt' = [attempt EXCEPT ![<<held.run, 1>>] = "pending"]
            /\ work' = work
            /\ held' = NoCommand
            /\ quiet' = FALSE
            /\ UNCHANGED <<turn, capture, lease, phase, notices, slot, fiber, outcome, janitor,
                         accepted, losses, stalls, crashes>>
      BY <1>5, <2>3 DEF CommitMessage, budgetVars
    <3>2. status' \in [Run -> {"none", "queued"} \cup Blocking \cup Terminal]
      BY <2>1, <3>1
    <3>3. active' \in [Run -> 0 .. MaxAttempts]
      BY <2>1, <3>1
    <3>4. attempt' \in [Turn -> {"none", "pending", "running", "superseded"} \cup Terminal]
      BY <2>1, <3>1
    <3>5. work' \in [Turn -> {"none", "pending", "running", "cancelled", "settled"}]
      BY <2>1, <3>1
    <3>6. held' \in [kind : {"none", "start", "queue", "restart", "interrupt", "promote"},
                    run : 0 .. MaxRuns]
      BY <2>1, <3>1
    <3> QED
      BY <2>1, <3>1, <3>2, <3>3, <3>4, <3>5, <3>6
  <2> QED
    BY <1>5, <2>2, <2>3 DEF CommitMessage
<1>6. ASSUME CommitRestart PROVE TypeOK'
  <2> DEFINE r == held.run
             next == <<r, active[r] + 1>>
  <2>1. r \in Run /\ active[r] \in 0 .. MaxAttempts /\ active[r] < MaxAttempts
    BY <1>6 DEF CommitRestart, HeldInv
  <2>2. active[r] + 1 \in 1 .. MaxAttempts /\ active[r] + 1 \in 0 .. MaxAttempts
    BY <2>1
  <2>3. next \in Turn
    BY <2>1, <2>2
  <2>4. /\ status' = [status EXCEPT ![r] = "starting"]
        /\ active' = [active EXCEPT ![r] = active[r] + 1]
        /\ attempt' = [attempt EXCEPT ![CurrentTurn(r)] = "superseded", ![next] = "pending"]
        /\ work' = [work EXCEPT ![next] = "pending"]
        /\ held' = NoCommand /\ quiet' = FALSE
        /\ UNCHANGED <<turn, capture, lease, phase, notices, slot, fiber, outcome, janitor,
                         accepted, losses, stalls, crashes>>
    BY <1>6 DEF CommitRestart, budgetVars
  <2>5. active' \in [Run -> 0 .. MaxAttempts]
    BY <2>1, <2>2, <2>4
  <2> HIDE DEF next, r
  <2>6. status' \in [Run -> {"none", "queued"} \cup Blocking \cup Terminal]
    BY <2>3, <2>4, <2>5
  <2>7. attempt' \in [Turn -> {"none", "pending", "running", "superseded"} \cup Terminal]
    BY <2>3, <2>4, <2>5
  <2>8. work' \in [Turn -> {"none", "pending", "running", "cancelled", "settled"}]
    BY <2>3, <2>4, <2>5
  <2>9. held' \in [kind : {"none", "start", "queue", "restart", "interrupt", "promote"},
                    run : 0 .. MaxRuns]
    BY <2>3, <2>4, <2>5
  <2> QED
    BY <2>3, <2>4, <2>5, <2>6, <2>7, <2>8, <2>9
<1>7. ASSUME CommitInterrupt PROVE TypeOK'
  <2>1. held.run \in Run
    BY <1>7 DEF CommitInterrupt, HeldInv
  <2>3. /\ status' = [status EXCEPT ![held.run] = "interrupted"]
        /\ attempt' = [attempt EXCEPT ![CurrentTurn(held.run)] = "interrupted"]
        /\ notices' = notices \cup {held.run}
        /\ held' = NoCommand /\ quiet' = FALSE
        /\ UNCHANGED <<active, turn, capture, lease, phase, slot, fiber, outcome, janitor,
                         accepted, losses, stalls, crashes>>
    BY <1>7 DEF CommitInterrupt, budgetVars
  <2>2. work' \in [Turn -> {"none", "pending", "running", "cancelled", "settled"}]
    BY <1>7 DEF CommitInterrupt, RetireWork
  <2>4. status' \in [Run -> {"none", "queued"} \cup Blocking \cup Terminal]
    BY <2>1, <2>2, <2>3
  <2>5. attempt' \in [Turn -> {"none", "pending", "running", "superseded"} \cup Terminal]
    BY <2>1, <2>2, <2>3
  <2>6. notices' \subseteq Run
    BY <2>1, <2>2, <2>3
  <2>7. held' \in [kind : {"none", "start", "queue", "restart", "interrupt", "promote"},
                    run : 0 .. MaxRuns]
    BY <2>1, <2>2, <2>3
  <2> QED
    BY <2>1, <2>2, <2>3, <2>4, <2>5, <2>6, <2>7
<1>8. ASSUME CommitPromote PROVE TypeOK'
  <2>1. /\ status' = [status EXCEPT ![held.run] = "starting"]
        /\ work' = [work EXCEPT ![CurrentTurn(held.run)] = "pending"]
        /\ held' = NoCommand /\ quiet' = FALSE
        /\ UNCHANGED <<active, attempt, turn, capture, lease, phase, notices, slot, fiber,
                         outcome, janitor, accepted, losses, stalls, crashes>>
    BY <1>8 DEF CommitPromote, budgetVars
  <2>2. status' \in [Run -> {"none", "queued"} \cup Blocking \cup Terminal]
    BY <2>1
  <2>3. work' \in [Turn -> {"none", "pending", "running", "cancelled", "settled"}]
    BY <2>1
  <2>4. held' \in [kind : {"none", "start", "queue", "restart", "interrupt", "promote"},
                    run : 0 .. MaxRuns]
    BY <2>1
  <2> QED
    BY <2>1, <2>2, <2>3, <2>4
<1>9. ASSUME CommitRejected PROVE TypeOK'
  BY <1>9 DEF CommitRejected
<1>10. ASSUME NEW t \in Turn, ClaimWork(t) PROVE TypeOK'
  BY <1>10 DEF ClaimWork
<1>11. ASSUME NEW t \in Turn, AwaitPrevious(t) PROVE TypeOK'
  <2>1. CASE Finish(t)
    BY <1>11, <2>1, FinishTypes DEF AwaitPrevious
  <2>2. CASE slot' = [slot EXCEPT ![t] = "loading"] /\ UNCHANGED work
    BY <1>11, <2>2 DEF AwaitPrevious
  <2> QED
    BY <1>11, <2>1, <2>2 DEF AwaitPrevious
<1>12. ASSUME NEW t \in Turn, BeginTurn(t) PROVE TypeOK'
  <2>1. CASE IsCurrent(t) /\ status[t[1]] = "starting"
    <3>1. /\ status' = [status EXCEPT ![t[1]] = "running"]
            /\ attempt' = [attempt EXCEPT ![t] = "running"]
            /\ quiet' = FALSE
            /\ slot' = [slot EXCEPT ![t] = "baseline"]
            /\ UNCHANGED <<active, turn, work, capture, lease, phase, held, notices, fiber,
                         outcome, janitor, accepted, losses, stalls, crashes>>
      BY <1>12, <2>1 DEF BeginTurn, budgetVars
    <3> QED
      BY <3>1
  <2>2. CASE ~(IsCurrent(t) /\ status[t[1]] = "starting")
    <3>1. Finish(t) /\ UNCHANGED <<status, attempt, quiet>>
      BY <1>12, <2>2 DEF BeginTurn
    <3> QED
      BY <1>12, <3>1, FinishTypes DEF BeginTurn
  <2> QED
    BY <2>1, <2>2
<1>13. ASSUME NEW t \in Turn, ForkIngestion(t) PROVE TypeOK'
  <2>1. CASE Finish(t) /\ UNCHANGED fiber
    BY <1>13, <2>1, FinishTypes DEF ForkIngestion
  <2>2. CASE ShouldStartProviderTurn(t) /\ ~(Finish(t) /\ UNCHANGED fiber)
    <3>1. /\ slot' = [slot EXCEPT ![t] = "forked"]
            /\ fiber' = [fiber EXCEPT ![t] = "forked"]
            /\ UNCHANGED <<status, active, attempt, turn, work, capture, lease, quiet, phase,
                         held, notices, outcome, janitor, accepted, losses, stalls, crashes>>
      BY <1>13, <2>2 DEF ForkIngestion, budgetVars
    <3> QED
      BY <3>1
  <2> QED
    BY <1>13, <2>1, <2>2 DEF ForkIngestion
<1>14. ASSUME NEW t \in Turn, StartTurn(t) PROVE TypeOK'
  <2>1. CASE ShouldStartProviderTurn(t)
    <3>1. /\ turn' = [turn EXCEPT ![t] = "accepted"]
            /\ slot' = [slot EXCEPT ![t] = "turning"]
            /\ UNCHANGED <<status, active, attempt, work, capture, lease, quiet, phase, held,
                         notices, fiber, outcome, janitor, accepted, losses, stalls, crashes>>
      BY <1>14, <2>1 DEF StartTurn, budgetVars
    <3> QED
      BY <3>1
  <2>2. CASE ~ShouldStartProviderTurn(t)
    <3>1. /\ InterruptFiber(t)
            /\ slot' = [slot EXCEPT ![t] = "stopping"]
            /\ UNCHANGED <<status, active, attempt, turn, work, capture, lease, quiet, phase,
                         held, notices, janitor, accepted, losses, stalls, crashes>>
      BY <1>14, <2>2 DEF StartTurn, budgetVars
    <3> QED
      BY <3>1 DEF InterruptFiber
  <2> QED
    BY <2>1, <2>2
<1>15. ASSUME NEW t \in Turn, EndWork(t) PROVE TypeOK'
  BY <1>15 DEF EndWork, Finish
<1>16. ASSUME NEW t \in Turn, DecideFailure(t) PROVE TypeOK'
  <2>1. CASE Finish(t)
    BY <1>16, <2>1, FinishTypes DEF DecideFailure
  <2>2. CASE ShouldFinalizeRun(t)
    BY <1>16, <2>2 DEF DecideFailure
  <2> QED
    BY <1>16, <2>1, <2>2 DEF DecideFailure
<1>17. ASSUME NEW t \in Turn, WriteFailure(t) PROVE TypeOK'
  <2>1. WriteFinalRunEvents(t, "failed") /\ Finish(t) /\ "failed" \in Outcomes
    BY <1>17 DEF WriteFailure, Outcomes
  <2> QED
    BY <1>17, <2>1, FinishTypes, FinalWriteTypes DEF WriteFailure
<1>18. ASSUME NEW t \in Turn, StopWork(t) PROVE TypeOK'
  BY <1>18 DEF StopWork
<1>19. ASSUME NEW t \in Turn, AcquireLease(t) PROVE TypeOK'
  BY <1>19 DEF AcquireLease
<1>20. ASSUME NEW t \in Turn, IngestTurn(t) PROVE TypeOK'
  BY <1>20 DEF IngestTurn
<1>21. ASSUME NEW t \in Turn, NEW o \in Outcomes, IngestTerminal(t, o) PROVE TypeOK'
  BY <1>21 DEF IngestTerminal, Decide
<1>22. ASSUME NEW t \in Turn, IdleRelease(t) PROVE TypeOK'
  BY <1>22 DEF IdleRelease, Decide
<1>23. ASSUME NEW t \in Turn, FinalizeRootRun(t) PROVE TypeOK'
  <2>1. WriteFinalRunEvents(t, outcome[t]) /\ outcome[t] \in Outcomes
    BY <1>23 DEF FinalizeRootRun, WorkInv
  <2> QED
    BY <1>23, <2>1, FinalWriteTypes DEF FinalizeRootRun
<1>24. ASSUME NEW t \in Turn, ReleaseLease(t) PROVE TypeOK'
  BY <1>24 DEF ReleaseLease
<1>25. ASSUME NEW t \in Turn, StartTurnFails(t) PROVE TypeOK'
  BY <1>25 DEF StartTurnFails, InterruptFiber
<1>26. ASSUME NEW t \in Turn, StartError(t) PROVE TypeOK'
  BY <1>26 DEF StartError, Finish
<1>27. ASSUME NEW t \in Turn, StreamFails(t) PROVE TypeOK'
  BY <1>27 DEF StreamFails, Decide
<1>28. ASSUME NEW t \in Turn, FiberDies(t) PROVE TypeOK'
  BY <1>28 DEF FiberDies
<1>29. ASSUME NEW r \in Run, ClaimCapture(r) PROVE TypeOK'
  BY <1>29 DEF ClaimCapture
<1>30. ASSUME NEW r \in Run, CommitCapture(r) PROVE TypeOK'
  <2>1. CASE RunGate(r, "completed")
    <3>1. /\ capture' = [capture EXCEPT ![r] = "settled"]
            /\ status' = [status EXCEPT ![r] = "completed"]
            /\ notices' = notices \cup {r}
            /\ quiet' = FALSE
            /\ UNCHANGED <<active, attempt, turn, work, lease, phase, held, slot, fiber,
                         outcome, janitor, accepted, losses, stalls, crashes>>
      BY <1>30, <2>1 DEF CommitCapture, budgetVars
    <3>2. status' \in [Run -> {"none", "queued"} \cup Blocking \cup Terminal]
      BY <3>1
    <3>3. notices' \subseteq Run
      BY <3>1
    <3>4. capture' \in [Run -> {"none", "pending", "running", "settled"}]
      BY <3>1
    <3> QED
      BY <3>1, <3>2, <3>3, <3>4
  <2>2. CASE ~RunGate(r, "completed")
    BY <1>30, <2>2 DEF CommitCapture
  <2> QED
    BY <2>1, <2>2
<1>31. ASSUME NEW r \in Run, CaptureFails(r) PROVE TypeOK'
  BY <1>31 DEF CaptureFails
<1>32. ASSUME NEW r \in Run, LeaseExpires(r) PROVE TypeOK'
  BY <1>32 DEF LeaseExpires
<1>33. ASSUME NEW r \in Run, Renew(r) PROVE TypeOK'
  BY <1>33 DEF Renew
<1>34. ASSUME NEW r \in Run, Suspend(r) PROVE TypeOK'
  BY <1>34 DEF Suspend
<1>35. ASSUME GraceElapses PROVE TypeOK'
  BY <1>35 DEF GraceElapses
<1>36. ASSUME JanitorFind PROVE TypeOK'
  <2>1. PICK S \in SUBSET Run : janitor' = [stage |-> "found", copy |-> [NoCopy EXCEPT !.runs = S]]
    <3> DEFINE R == {r \in Run : Nonterminal(r)}
    <3>1. R \in SUBSET Run
      OBVIOUS
    <3>2. janitor' = [stage |-> "found", copy |-> [NoCopy EXCEPT !.runs = R]]
      BY <1>36 DEF JanitorFind
    <3> QED
      BY <3>1, <3>2
  <2>2. janitor' \in [stage : {"idle", "found", "loaded"},
                     copy : [runs : SUBSET Run, active : [Run -> 0 .. MaxAttempts],
                             attempts : SUBSET Turn, turns : SUBSET Turn, nodes : SUBSET Turn]]
    <3>1. 0 \in 0 .. MaxAttempts
      BY RunLivenessAssumption
    <3>2. janitor' = [stage |-> "found",
                      copy |-> [runs |-> S, active |-> [r \in Run |-> 0], attempts |-> {},
                                turns |-> {}, nodes |-> {}]]
      BY <2>1 DEF NoCopy
    <3> QED
      BY <3>1, <3>2
  <2> QED
    BY <1>36, <2>2 DEF JanitorFind
<1>37. ASSUME JanitorPrune PROVE TypeOK'
  BY <1>37 DEF JanitorPrune
<1>38. ASSUME JanitorLoad PROVE TypeOK'
  <2>1. /\ janitor' = [stage |-> "loaded", copy |-> Loaded(janitor.copy.runs)]
        /\ janitor.copy.runs \in SUBSET Run
    BY <1>38 DEF JanitorLoad
  <2> QED
    BY <1>38, <2>1, LoadedTypes DEF JanitorLoad
<1>39. ASSUME JanitorTerminalize PROVE TypeOK'
  BY <1>39, ReconcileTypes
<1>40. ASSUME Crash PROVE TypeOK'
  BY <1>40, NoSweepType DEF Crash
<1>41. ASSUME ResumeQueuedRuns PROVE TypeOK'
  <2>1. CASE UNCHANGED <<status, work, quiet>>
    BY <1>41, <2>1 DEF ResumeQueuedRuns
  <2>2. ASSUME NEW r \in Run, status' = [status EXCEPT ![r] = "starting"],
               work' = [work EXCEPT ![CurrentTurn(r)] = "pending"], quiet' = FALSE
        PROVE  TypeOK'
    BY <1>41, <2>2 DEF ResumeQueuedRuns
  <2> QED
    BY <1>41, <2>1, <2>2 DEF ResumeQueuedRuns
<1>42. ASSUME Recover PROVE TypeOK'
  BY <1>42, ReconcileTypes
<1>43. ASSUME UNCHANGED vars PROVE TypeOK'
  BY <1>43 DEF vars
<1> HIDE DEF IInv, TypeOK, Outcomes
<1> QED
  BY <1>1, <1>2, <1>3, <1>4, <1>5, <1>6, <1>7, <1>8, <1>9, <1>10, <1>11,
     <1>12, <1>13, <1>14, <1>15, <1>16, <1>17, <1>18, <1>19, <1>20, <1>21,
     <1>22, <1>23, <1>24, <1>25, <1>26, <1>27, <1>28, <1>29, <1>30, <1>31,
     <1>32, <1>33, <1>34, <1>35, <1>36, <1>37, <1>38, <1>39, <1>40, <1>41,
     <1>42, <1>43
  DEF Next, Command, TurnStep, Loss, RunStep, JanitorStep

-----------------------------------------------------------------------------
(* Work, fibers and captures follow the runs.                               *)

\* The worker settles or claims a row, a cancellation retires rows, and a run
\* that starts gets a row for its active attempt.
LEMMA WorkWrites ==
    ASSUME IInv, [Next]_vars
    PROVE  \/ work' = work \/ work' = RetireWork
           \/ \E t \in Turn : /\ work[t] \in {"pending", "running"}
                              /\ \E w \in {"running", "settled"} : work' = [work EXCEPT ![t] = w]
           \/ \E t \in Turn : /\ status'[t[1]] = "starting" /\ t[2] <= active'[t[1]]
                              /\ work[t] = "none" /\ work' = [work EXCEPT ![t] = "pending"]
                              /\ t[2] = 1 => status[t[1]] \in {"none", "queued"}
<1> DEFINE Written(t) == /\ work[t] \in {"pending", "running"}
                         /\ \E w \in {"running", "settled"} : work' = [work EXCEPT ![t] = w]
           Created(t) == /\ status'[t[1]] = "starting" /\ t[2] <= active'[t[1]]
                         /\ work[t] = "none" /\ work' = [work EXCEPT ![t] = "pending"]
                         /\ t[2] = 1 => status[t[1]] \in {"none", "queued"}
<1>1. /\ status \in [Run -> {"none", "queued"} \cup Blocking \cup Terminal]
      /\ active \in [Run -> 0 .. MaxAttempts]
      /\ work \in [Turn -> {"none", "pending", "running", "cancelled", "settled"}]
  BY DEF IInv, TypeOK
<1>2. ASSUME NEW t \in Turn, Finish(t) PROVE work' = work \/ Written(t)
  BY <1>1, <1>2 DEF Finish
<1>3. ASSUME NEW t \in Turn, \/ BeginTurn(t) \/ ForkIngestion(t) \/ EndWork(t)
                             \/ DecideFailure(t) \/ WriteFailure(t) \/ StartError(t)
                             \/ AwaitPrevious(t)
      PROVE  work' = work \/ Finish(t)
  BY <1>3 DEF AwaitPrevious, BeginTurn, ForkIngestion, EndWork, DecideFailure, WriteFailure, StartError
<1>4. ASSUME NEW t \in Turn, ClaimWork(t) PROVE Written(t)
  BY <1>4 DEF ClaimWork
<1>5. ASSUME NEW t \in Turn, \/ StartTurn(t) \/ StopWork(t)
                             \/ AcquireLease(t) \/ IngestTurn(t) \/ ReleaseLease(t)
                             \/ (\E o \in Outcomes : IngestTerminal(t, o)) \/ IdleRelease(t)
      PROVE  work' = work
  BY <1>5 DEF StartTurn, StopWork, AcquireLease, IngestTurn, ReleaseLease,
              IngestTerminal, IdleRelease, Decide
<1>6. ASSUME NEW t \in Turn, FinalizeRootRun(t) \/ StartTurnFails(t) \/ FiberDies(t) \/ StreamFails(t)
      PROVE  work' = work
  BY <1>6 DEF FinalizeRootRun, StartTurnFails, FiberDies, StreamFails, Decide
<1>7. ASSUME NEW r \in Run, RunStep(r) \/ Suspend(r) PROVE work' = work
  BY <1>7 DEF RunStep, ClaimCapture, CommitCapture, CaptureFails, LeaseExpires, Renew, Suspend
<1>8. CASE GraceElapses \/ JanitorFind \/ JanitorPrune \/ JanitorLoad \/ Crash \/ UNCHANGED vars
  BY <1>8 DEF GraceElapses, JanitorFind, JanitorPrune, JanitorLoad, Crash, vars
<1>9. CASE CommitInterrupt \/ JanitorTerminalize \/ Recover
  BY <1>9 DEF CommitInterrupt, JanitorTerminalize, Recover
<1>10. CASE CommitMessage
  <2>1. /\ held.run \in Run /\ <<held.run, 1>> \in Turn
        /\ <<held.run, 1>>[1] = held.run /\ <<held.run, 1>>[2] = 1
    BY <1>10, TurnParts DEF CommitMessage, IInv, HeldInv
  <2>2. CASE held.kind = "start"
    <3>1. /\ status' = [status EXCEPT ![held.run] = "starting"]
          /\ active' = [active EXCEPT ![held.run] = 1]
          /\ work' = [work EXCEPT ![<<held.run, 1>>] = "pending"]
      BY <1>10, <2>2 DEF CommitMessage
    <3>2. work[<<held.run, 1>>] = "none" /\ status[held.run] = "none"
      BY <1>10, <2>1 DEF CommitMessage, IInv, HeldInv, WorkInv, Started, Blocking, Terminal, Outcomes
    <3>3. Created(<<held.run, 1>>)
      BY <1>1, <2>1, <3>1, <3>2
    <3> QED
      BY <2>1, <3>3
  <2> QED
    BY <1>10, <2>2 DEF CommitMessage
<1>11. CASE CommitRestart
  <2> DEFINE r == held.run
             next == <<r, active[r] + 1>>
  <2>1. r \in Run /\ active[r] + 1 \in 1 .. MaxAttempts /\ active[r] # 0
    BY <1>1, <1>11, RunLivenessAssumption
       DEF CommitRestart, IInv, HeldInv, AttemptInv, Started, Blocking, Terminal, Outcomes
  <2>2. next \in Turn /\ next[1] = r /\ next[2] = active[r] + 1 /\ next[2] # 1
    BY <1>1, <2>1, TurnParts
  <2>3. /\ status' = [status EXCEPT ![r] = "starting"]
        /\ active' = [active EXCEPT ![r] = active[r] + 1]
        /\ work' = [work EXCEPT ![next] = "pending"]
    BY <1>11 DEF CommitRestart
  <2>4. work[next] = "none"
    BY <1>1, <2>1, <2>2, RunLivenessAssumption DEF IInv, WorkInv
  <2>5. Created(next)
    BY <1>1, <2>1, <2>2, <2>3, <2>4
  <2> QED
    BY <2>2, <2>5
<1>12. ASSUME NEW r \in Run, status[r] = "queued", active' = active,
              status' = [status EXCEPT ![r] = "starting"],
              work' = [work EXCEPT ![CurrentTurn(r)] = "pending"]
       PROVE  \E t \in Turn : Created(t)
  <2>1. CurrentTurn(r) \in Turn /\ CurrentTurn(r)[1] = r /\ CurrentTurn(r)[2] = active[r]
    BY <1>12, CurrentTurns, TurnParts DEF CurrentTurn
  <2>2. work[CurrentTurn(r)] = "none"
    BY <1>12, <2>1 DEF IInv, WorkInv, Started, Blocking, Terminal, Outcomes
  <2>3. Created(CurrentTurn(r))
    BY <1>1, <1>12, <2>1, <2>2
  <2> QED
    BY <2>1, <2>3
<1>13. CASE CommitPromote
  <2>1. held.run \in Run /\ status[held.run] = "queued"
    BY <1>13, Gates DEF CommitPromote, IInv, HeldInv, Started, Blocking, Terminal
  <2> QED
    BY <1>12, <1>13, <2>1 DEF CommitPromote
<1>14. CASE ResumeQueuedRuns
  <2>1. CASE UNCHANGED work
    BY <2>1
  <2>2. ASSUME NEW r \in Run, NextQueuedRun(r), status' = [status EXCEPT ![r] = "starting"],
               work' = [work EXCEPT ![CurrentTurn(r)] = "pending"]
        PROVE  \E t \in Turn : Created(t)
    BY <1>12, <1>14, <2>2 DEF NextQueuedRun, ResumeQueuedRuns
  <2> QED
    BY <1>14, <2>1, <2>2 DEF ResumeQueuedRuns
<1>15. ASSUME NEW r \in Run, \/ BeginMessage(r) \/ BeginRestart(r) \/ BeginInterrupt(r)
                             \/ HandleTerminalRun(r)
       PROVE  work' = work
  BY <1>15 DEF BeginMessage, BeginRestart, BeginInterrupt, HandleTerminalRun
<1>16. CASE CommitRejected
  BY <1>16 DEF CommitRejected
<1>17. ASSUME NEW t \in Turn, TurnStep(t) \/ Loss(t) PROVE work' = work \/ Written(t)
  BY <1>2, <1>3, <1>4, <1>5, <1>6, <1>17 DEF TurnStep, Loss
<1>18. CASE Command
  BY <1>9, <1>10, <1>11, <1>13, <1>15, <1>16, <1>18 DEF Command
<1> HIDE DEF Created
<1> QED
  BY <1>7, <1>8, <1>9, <1>14, <1>17, <1>18 DEF Next, JanitorStep, Written

\* The worker leaves idle only by claiming a pending row.
LEMMA SlotWrites ==
    ASSUME IInv, [Next]_vars, NEW t \in Turn, slot'[t] # "idle"
    PROVE  slot[t] # "idle" \/ (Serving /\ work[t] = "pending")
<1>1. slot \in [Turn -> {"idle", "awaiting", "loading", "baseline", "forked", "turning",
                         "stopping", "failing", "failed"}]
  BY DEF IInv, TypeOK
<1>2. CASE slot' = slot
  BY <1>2
<1>3. ASSUME NEW u \in Turn, NEW x, slot' = [slot EXCEPT ![u] = x],
             slot[u] # "idle" \/ (Serving /\ work[u] = "pending")
      PROVE  slot[t] # "idle" \/ (Serving /\ work[t] = "pending")
  BY <1>1, <1>3
<1>4. ASSUME NEW u \in Turn, NEW x, slot' = [slot EXCEPT ![u] = "idle"]
      PROVE  slot[t] # "idle" \/ (Serving /\ work[t] = "pending")
  BY <1>1, <1>4
<1>5. ASSUME NEW u \in Turn, ClaimWork(u) \/ AwaitPrevious(u) \/ StartTurn(u) \/ EndWork(u)
      PROVE  slot[t] # "idle" \/ (Serving /\ work[t] = "pending")
  BY <1>3, <1>4, <1>5 DEF ClaimWork, AwaitPrevious, StartTurn, EndWork, Finish
<1>6. ASSUME NEW u \in Turn, \/ BeginTurn(u) \/ ForkIngestion(u) \/ DecideFailure(u)
                             \/ WriteFailure(u) \/ StopWork(u)
      PROVE  slot[t] # "idle" \/ (Serving /\ work[t] = "pending")
  BY <1>3, <1>4, <1>6 DEF BeginTurn, ForkIngestion, DecideFailure, WriteFailure, StopWork, Finish
<1>7. ASSUME NEW u \in Turn, StartTurnFails(u) \/ StartError(u)
      PROVE  slot[t] # "idle" \/ (Serving /\ work[t] = "pending")
  BY <1>3, <1>4, <1>7 DEF StartTurnFails, StartError, Finish
<1>8. ASSUME NEW u \in Turn, \/ AcquireLease(u) \/ IngestTurn(u) \/ ReleaseLease(u)
                             \/ (\E o \in Outcomes : IngestTerminal(u, o)) \/ IdleRelease(u)
                             \/ FinalizeRootRun(u) \/ FiberDies(u) \/ StreamFails(u)
      PROVE  slot' = slot
  BY <1>8 DEF AcquireLease, IngestTurn, ReleaseLease, IngestTerminal, IdleRelease, Decide,
              FinalizeRootRun, FiberDies, StreamFails
<1>9. ASSUME NEW r \in Run, RunStep(r) \/ Suspend(r) PROVE slot' = slot
  BY <1>9 DEF RunStep, ClaimCapture, CommitCapture, CaptureFails, LeaseExpires, Renew, Suspend
<1>10. CASE GraceElapses \/ JanitorStep \/ ResumeQueuedRuns \/ Recover \/ UNCHANGED vars
  BY <1>2, <1>10 DEF GraceElapses, JanitorStep, JanitorFind, JanitorPrune, JanitorLoad,
                     JanitorTerminalize, ResumeQueuedRuns, Recover, vars
<1>11. CASE Crash
  BY <1>11 DEF Crash
<1>12. ASSUME NEW r \in Run, \/ BeginMessage(r) \/ BeginRestart(r) \/ BeginInterrupt(r)
                             \/ HandleTerminalRun(r)
       PROVE  slot' = slot
  BY <1>12 DEF BeginMessage, BeginRestart, BeginInterrupt, HandleTerminalRun
<1>13. CASE CommitMessage \/ CommitRestart \/ CommitInterrupt \/ CommitPromote \/ CommitRejected
  BY <1>2, <1>13 DEF CommitMessage, CommitRestart, CommitInterrupt, CommitPromote, CommitRejected
<1>14. CASE \E u \in Turn : TurnStep(u) \/ Loss(u)
  BY <1>2, <1>5, <1>6, <1>7, <1>8, <1>14 DEF TurnStep, Loss
<1>15. CASE Command
  BY <1>2, <1>12, <1>13, <1>15 DEF Command
<1> QED
  BY <1>2, <1>9, <1>10, <1>11, <1>14, <1>15 DEF Next

\* A fiber is forked by the worker that executes its row.
LEMMA FiberWrites ==
    ASSUME IInv, [Next]_vars, NEW t \in Turn
    PROVE  /\ fiber'[t] # "none" => fiber[t] # "none" \/ slot[t] # "idle"
           /\ fiber'[t] = "deciding" => outcome'[t] # "none"
<1> DEFINE Goal == /\ fiber'[t] # "none" => fiber[t] # "none" \/ slot[t] # "idle"
                   /\ fiber'[t] = "deciding" => outcome'[t] # "none"
<1>1. /\ fiber \in [Turn -> {"none", "forked", "listening", "deciding", "leaving", "gone"}]
      /\ outcome \in [Turn -> {"none"} \cup Outcomes]
      /\ fiber[t] = "deciding" => outcome[t] # "none"
  BY DEF IInv, TypeOK, WorkInv
<1>2. CASE fiber' = fiber /\ outcome' = outcome
  BY <1>1, <1>2
<1>3. ASSUME NEW u \in Turn, NEW x, fiber' = [fiber EXCEPT ![u] = x], outcome' = outcome,
             fiber[u] # "none" \/ slot[u] # "idle", x # "deciding" \/ fiber[u] = "deciding"
      PROVE  Goal
  BY <1>1, <1>3
<1>4. ASSUME NEW u \in Turn, NEW o \in Outcomes, Decide(u, o) PROVE Goal
  BY <1>1, <1>4 DEF Decide, Outcomes
<1>5. ASSUME NEW u \in Turn, InterruptFiber(u), slot[u] # "idle" PROVE Goal
  BY <1>1, <1>5 DEF InterruptFiber
<1>6. ASSUME NEW u \in Turn, ForkIngestion(u) \/ AcquireLease(u) \/ ReleaseLease(u)
      PROVE  Goal
  BY <1>2, <1>3, <1>6 DEF ForkIngestion, AcquireLease, ReleaseLease
<1>7. ASSUME NEW u \in Turn, FinalizeRootRun(u) \/ FiberDies(u) PROVE Goal
  <2>1. /\ fiber[u] # "none"
        /\ fiber' = [fiber EXCEPT ![u] = "leaving"]
        /\ outcome' = [outcome EXCEPT ![u] = "none"]
    BY <1>7 DEF FinalizeRootRun, FiberDies
  <2> QED
    BY <1>1, <2>1
<1>8. ASSUME NEW u \in Turn, StartTurn(u) \/ StartTurnFails(u) PROVE Goal
  BY <1>2, <1>5, <1>8 DEF StartTurn, StartTurnFails
<1>9. ASSUME NEW u \in Turn, (\E o \in Outcomes : IngestTerminal(u, o)) \/ IdleRelease(u)
                             \/ StreamFails(u)
      PROVE  Goal
  <2>1. \E o \in Outcomes : Decide(u, o)
    BY <1>9 DEF IngestTerminal, IdleRelease, StreamFails, Outcomes
  <2> QED
    BY <1>4, <2>1
<1>10. ASSUME NEW u \in Turn, \/ ClaimWork(u) \/ AwaitPrevious(u) \/ BeginTurn(u) \/ EndWork(u)
                              \/ DecideFailure(u) \/ WriteFailure(u) \/ StopWork(u)
                              \/ IngestTurn(u) \/ StartError(u)
       PROVE  fiber' = fiber /\ outcome' = outcome
  BY <1>10 DEF ClaimWork, AwaitPrevious, BeginTurn, EndWork, DecideFailure, WriteFailure,
               StopWork, IngestTurn, StartError
<1>11. ASSUME NEW r \in Run, RunStep(r) \/ Suspend(r) PROVE fiber' = fiber /\ outcome' = outcome
  BY <1>11 DEF RunStep, ClaimCapture, CommitCapture, CaptureFails, LeaseExpires, Renew, Suspend
<1>12. CASE GraceElapses \/ JanitorStep \/ ResumeQueuedRuns \/ Recover \/ UNCHANGED vars
  BY <1>2, <1>12 DEF GraceElapses, JanitorStep, JanitorFind, JanitorPrune, JanitorLoad,
                     JanitorTerminalize, ResumeQueuedRuns, Recover, vars
<1>13. CASE Crash
  BY <1>1, <1>13 DEF Crash
<1>14. ASSUME NEW r \in Run, \/ BeginMessage(r) \/ BeginRestart(r) \/ BeginInterrupt(r)
                             \/ HandleTerminalRun(r)
       PROVE  fiber' = fiber /\ outcome' = outcome
  BY <1>14 DEF BeginMessage, BeginRestart, BeginInterrupt, HandleTerminalRun
<1>15. CASE CommitMessage \/ CommitRestart \/ CommitInterrupt \/ CommitPromote \/ CommitRejected
  BY <1>2, <1>15 DEF CommitMessage, CommitRestart, CommitInterrupt, CommitPromote, CommitRejected
<1>16. CASE \E u \in Turn : TurnStep(u) \/ Loss(u)
  BY <1>2, <1>6, <1>7, <1>8, <1>9, <1>10, <1>16 DEF TurnStep, Loss
<1>17. CASE Command
  BY <1>2, <1>14, <1>15, <1>17 DEF Command
<1> QED
  BY <1>2, <1>11, <1>12, <1>13, <1>16, <1>17 DEF Next

\* A capture is requested by the final write of a run.
LEMMA CaptureWrites ==
    ASSUME IInv, [Next]_vars, NEW r \in Run, capture'[r] # "none"
    PROVE  status[r] \in Started
<1>1. /\ capture \in [Run -> {"none", "pending", "running", "settled"}]
      /\ capture[r] # "none" => status[r] \in Started
  BY DEF IInv, TypeOK, WorkInv
<1>2. CASE capture' = capture
  BY <1>1, <1>2
<1>3. ASSUME NEW t \in Turn, NEW o \in Outcomes, work[t] # "none", WriteFinalRunEvents(t, o)
      PROVE  status[r] \in Started
  <2>1. \/ capture' = capture
        \/ status[t[1]] \in Started /\ capture' = [capture EXCEPT ![t[1]] = "pending"]
    BY <1>3, FinalWrites
  <2> QED
    BY <1>1, <2>1, TurnParts
<1>4. ASSUME NEW t \in Turn, FinalizeRootRun(t) PROVE status[r] \in Started
  <2>1. outcome[t] \in Outcomes /\ work[t] # "none" /\ WriteFinalRunEvents(t, outcome[t])
    BY <1>4 DEF FinalizeRootRun, IInv, WorkInv, TypeOK
  <2> QED
    BY <1>3, <2>1
<1>5. ASSUME NEW t \in Turn, WriteFailure(t) PROVE status[r] \in Started
  <2>1. "failed" \in Outcomes /\ work[t] # "none" /\ WriteFinalRunEvents(t, "failed")
    BY <1>5 DEF WriteFailure, IInv, WorkInv, Outcomes
  <2> QED
    BY <1>3, <2>1
<1>6. ASSUME NEW q \in Run, ClaimCapture(q) \/ CommitCapture(q) \/ CaptureFails(q)
      PROVE  status[r] \in Started
  <2>1. capture[q] # "none" /\ \E x : capture' = [capture EXCEPT ![q] = x]
    BY <1>6 DEF ClaimCapture, CommitCapture, CaptureFails
  <2> QED
    BY <1>1, <2>1
<1>7. CASE Recover
  BY <1>1, <1>7 DEF Recover
<1>8. ASSUME NEW q \in Run, LeaseExpires(q) \/ Renew(q) \/ Suspend(q) PROVE capture' = capture
  BY <1>8 DEF LeaseExpires, Renew, Suspend
<1>9. ASSUME NEW t \in Turn, \/ ClaimWork(t) \/ AwaitPrevious(t) \/ BeginTurn(t)
                             \/ ForkIngestion(t) \/ StartTurn(t) \/ EndWork(t)
                             \/ DecideFailure(t) \/ StopWork(t) \/ AcquireLease(t)
      PROVE  capture' = capture
  BY <1>9 DEF ClaimWork, AwaitPrevious, BeginTurn, ForkIngestion, StartTurn, EndWork,
              DecideFailure, StopWork, AcquireLease
<1>10. ASSUME NEW t \in Turn, \/ IngestTurn(t) \/ (\E o \in Outcomes : IngestTerminal(t, o))
                              \/ IdleRelease(t) \/ ReleaseLease(t) \/ Loss(t)
       PROVE  capture' = capture
  BY <1>10 DEF IngestTurn, IngestTerminal, IdleRelease, ReleaseLease, Decide, Loss,
               StartTurnFails, StartError, StreamFails, FiberDies
<1>11. CASE GraceElapses \/ JanitorStep \/ Crash \/ ResumeQueuedRuns \/ UNCHANGED vars
  BY <1>2, <1>11 DEF GraceElapses, JanitorStep, JanitorFind, JanitorPrune, JanitorLoad,
                     JanitorTerminalize, Crash, ResumeQueuedRuns, vars
<1>12. ASSUME NEW q \in Run, \/ BeginMessage(q) \/ BeginRestart(q) \/ BeginInterrupt(q)
                             \/ HandleTerminalRun(q)
       PROVE  capture' = capture
  BY <1>12 DEF BeginMessage, BeginRestart, BeginInterrupt, HandleTerminalRun
<1>13. CASE CommitMessage \/ CommitRestart \/ CommitInterrupt \/ CommitPromote \/ CommitRejected
  BY <1>2, <1>13 DEF CommitMessage, CommitRestart, CommitInterrupt, CommitPromote, CommitRejected
<1>14. CASE \E t \in Turn : TurnStep(t) \/ Loss(t)
  BY <1>2, <1>4, <1>5, <1>9, <1>10, <1>14 DEF TurnStep
<1>15. CASE \E q \in Run : RunStep(q) \/ Suspend(q)
  BY <1>2, <1>6, <1>8, <1>15 DEF RunStep
<1>16. CASE Command
  BY <1>2, <1>12, <1>13, <1>16 DEF Command
<1> QED
  BY <1>7, <1>11, <1>14, <1>15, <1>16 DEF Next

\* The work invariant.
LEMMA WorkStep == IInv /\ [Next]_vars => WorkInv'
<1> SUFFICES ASSUME IInv, [Next]_vars PROVE WorkInv'
  OBVIOUS
<1>1. ASSUME NEW t \in Turn
      PROVE  /\ work[t] # "none" => work'[t] # "none"
             /\ work'[t] # "none" => status'[t[1]] \in Started /\ t[2] <= active'[t[1]]
  <2>1. /\ work \in [Turn -> {"none", "pending", "running", "cancelled", "settled"}]
        /\ t[1] \in Run /\ t[2] \in Nat
        /\ active[t[1]] \in Nat /\ active'[t[1]] \in Nat
    BY TurnParts, TypeStep, RunLivenessAssumption DEF IInv, TypeOK
  <2>2. work[t] # "none" => status'[t[1]] \in Started /\ t[2] <= active'[t[1]]
    BY <2>1, RunsAdvance DEF IInv, WorkInv
  <2>3. CASE work' = work
    BY <2>2, <2>3
  <2>4. CASE work' = RetireWork
    BY <2>1, <2>2, <2>4 DEF RetireWork
  <2>5. ASSUME NEW u \in Turn, work[u] # "none", NEW w \in {"running", "settled"},
               work' = [work EXCEPT ![u] = w]
        PROVE  work'[t] # "none" <=> work[t] # "none"
    BY <2>1, <2>5
  <2>6. ASSUME NEW u \in Turn, status'[u[1]] = "starting", u[2] <= active'[u[1]],
               work' = [work EXCEPT ![u] = "pending"]
        PROVE  /\ work[t] # "none" => work'[t] # "none"
               /\ work'[t] # "none" => work[t] # "none" \/ t = u
    BY <2>1, <2>6
  <2>7. "starting" \in Started
    BY DEF Started, Blocking
  <2> QED
    BY <2>2, <2>3, <2>4, <2>5, <2>6, <2>7, WorkWrites
<1>2. ASSUME NEW t \in Turn, slot'[t] # "idle" PROVE work'[t] # "none"
  BY <1>1, <1>2, SlotWrites DEF IInv, WorkInv
<1>3. ASSUME NEW t \in Turn
      PROVE  /\ fiber'[t] # "none" => work'[t] # "none"
             /\ fiber'[t] = "deciding" => outcome'[t] # "none"
  BY <1>1, FiberWrites DEF IInv, WorkInv
<1>4. ASSUME NEW r \in Run, capture'[r] # "none" PROVE status'[r] \in Started
  BY <1>4, CaptureWrites, RunsAdvance
<1> QED
  BY <1>1, <1>2, <1>3, <1>4 DEF WorkInv

-----------------------------------------------------------------------------
(* Attempts.                                                                *)

\* Only the dispatch of a message creates a run.
LEMMA NewRuns ==
    ASSUME IInv, [Next]_vars, NEW r \in Run, status[r] = "none", status'[r] # "none"
    PROVE  CommitMessage
<1>1. status \in [Run -> {"none", "queued"} \cup Blocking \cup Terminal]
  BY DEF IInv, TypeOK
<1>2. ASSUME Proceeds PROVE FALSE
  BY <1>2 DEF Proceeds, Blocking
<1>3. CASE UNCHANGED <<status, active>>
  BY <1>3
<1>4. ASSUME NEW q \in Run, NEW to, status[q] # "none", status' = [status EXCEPT ![q] = to]
      PROVE  FALSE
  BY <1>1, <1>4
<1>5. CASE CommitRestart
  <2>1. /\ held.run \in Run /\ status[held.run] # "none"
        /\ status' = [status EXCEPT ![held.run] = "starting"]
    BY <1>5 DEF CommitRestart, IInv, HeldInv, Started, Blocking, Terminal, Outcomes
  <2> QED
    BY <1>4, <2>1
<1>6. CASE CommitInterrupt
  <2>1. /\ held.run \in Run /\ status[held.run] # "none"
        /\ status' = [status EXCEPT ![held.run] = "interrupted"]
    BY <1>6 DEF CommitInterrupt, IInv, HeldInv, Started, Blocking, Terminal, Outcomes
  <2> QED
    BY <1>4, <2>1
<1>7. CASE CommitPromote
  <2>1. /\ held.run \in Run /\ status[held.run] # "none"
        /\ status' = [status EXCEPT ![held.run] = "starting"]
    BY <1>7 DEF CommitPromote, IInv, HeldInv
  <2> QED
    BY <1>4, <2>1
<1>8. CASE ResumeQueuedRuns
  <2>1. ASSUME NEW q \in Run, NextQueuedRun(q), status' = [status EXCEPT ![q] = "starting"]
        PROVE  FALSE
    BY <1>4, <2>1 DEF NextQueuedRun
  <2> QED
    BY <1>8, <2>1 DEF ResumeQueuedRuns
<1> QED
  BY <1>2, <1>3, <1>5, <1>6, <1>7, <1>8, OwnMoves, Readings

\* Outside the dispatch of a message and a restart, an attempt in progress may
\* advance and any other stays as it is; a run that is queued or starting was so
\* before, with the same active attempt.
Advances(t) ==
    \/ attempt'[t] = attempt[t]
    \/ /\ attempt[t] \notin {"none", "superseded"} \cup Terminal
       /\ attempt'[t] \in {"running"} \cup Terminal

StartsLate(r) ==
    status'[r] \in {"queued", "starting"} =>
        /\ status[r] \in {"queued", "starting"}
        /\ attempt'[CurrentTurn(r)] = attempt[CurrentTurn(r)]

AttemptsAside == (\A t \in Turn : Advances(t)) /\ (\A r \in Run : StartsLate(r))

\* One attempt is written, and its run with a status other than queued or starting.
LEMMA AttemptWrites ==
    ASSUME IInv, NEW u \in Turn, NEW x \in {"running"} \cup Terminal, NEW to,
           attempt' = [attempt EXCEPT ![u] = x], status' = [status EXCEPT ![u[1]] = to],
           to \notin {"queued", "starting"},
           attempt[u] = x \/ attempt[u] \notin {"none", "superseded"} \cup Terminal
    PROVE  AttemptsAside
<1>1. /\ attempt \in [Turn -> {"none", "pending", "running", "superseded"} \cup Terminal]
      /\ status \in [Run -> {"none", "queued"} \cup Blocking \cup Terminal] /\ u[1] \in Run
  BY TurnParts DEF IInv, TypeOK
<1>2. \A t \in Turn : Advances(t)
  BY <1>1 DEF Advances
<1>3. ASSUME NEW r \in Run, status'[r] \in {"queued", "starting"}
      PROVE  /\ status[r] \in {"queued", "starting"}
             /\ attempt'[CurrentTurn(r)] = attempt[CurrentTurn(r)]
  <2>1. r # u[1] /\ status'[r] = status[r]
    BY <1>1, <1>3
  <2>2. CurrentTurn(r) # u
    BY <2>1 DEF CurrentTurn
  <2>3. CurrentTurn(r) \in Turn
    BY <1>1, <1>3, <2>1, CurrentTurns
  <2> QED
    BY <1>1, <1>3, <2>1, <2>2, <2>3
<1> QED
  BY <1>2, <1>3 DEF StartsLate, AttemptsAside

\* No attempt is written, and no run but a queued one becomes queued or starting.
LEMMA StatusWrites ==
    ASSUME IInv, attempt' = attempt,
           \/ status' = status
           \/ \E q \in Run : \E to :
                 /\ status' = [status EXCEPT ![q] = to]
                 /\ to \notin {"queued", "starting"} \/ status[q] = "queued"
    PROVE  AttemptsAside
<1>1. status \in [Run -> {"none", "queued"} \cup Blocking \cup Terminal]
  BY DEF IInv, TypeOK
<1>2. \A t \in Turn : Advances(t)
  BY DEF Advances
<1>3. \A r \in Run : StartsLate(r)
  BY <1>1 DEF StartsLate
<1> QED
  BY <1>2, <1>3 DEF AttemptsAside

LEMMA AttemptMoves ==
    ASSUME IInv, [Next]_vars, ~CommitMessage, ~CommitRestart
    PROVE  AttemptsAside
<1>1. /\ attempt \in [Turn -> {"none", "pending", "running", "superseded"} \cup Terminal]
      /\ status \in [Run -> {"none", "queued"} \cup Blocking \cup Terminal]
      /\ \A t \in Turn : t[1] \in Run
  BY TurnParts DEF IInv, TypeOK
<1>2. CASE UNCHANGED <<status, active, attempt>>
  BY <1>2, StatusWrites
<1>3. ASSUME NEW u \in Turn, BeginTurn(u) PROVE AttemptsAside
  <2>1. CASE UNCHANGED <<status, attempt>>
    BY <2>1, StatusWrites
  <2>2. CASE /\ IsCurrent(u) /\ status[u[1]] = "starting"
             /\ status' = [status EXCEPT ![u[1]] = "running"]
             /\ attempt' = [attempt EXCEPT ![u] = "running"]
    <3>1. u = CurrentTurn(u[1])
      BY <2>2, TurnParts DEF IsCurrent, CurrentTurn
    <3>2. attempt[u] = "pending"
      BY <1>1, <2>2, <3>1 DEF IInv, AttemptInv
    <3> QED
      BY <2>2, <3>2, AttemptWrites DEF Terminal, Outcomes
  <2> QED
    BY <1>3, <2>1, <2>2 DEF BeginTurn
<1>4. ASSUME NEW u \in Turn, NEW o \in Outcomes, work[u] # "none", WriteFinalRunEvents(u, o)
      PROVE  AttemptsAside
  <2>1. CASE UNCHANGED <<status, active, attempt, capture, notices, quiet>>
    BY <2>1, StatusWrites
  <2>2. CASE /\ status[u[1]] \in Started /\ u[2] = active[u[1]]
             /\ \E st \in {"waiting"} \cup Outcomes : status' = [status EXCEPT ![u[1]] = st]
             /\ attempt' = [attempt EXCEPT ![u] = o]
             /\ attempt[u] = o \/ attempt[u] \notin {"superseded"} \cup Terminal
    <3>1. u = CurrentTurn(u[1]) /\ status[u[1]] # "none"
      BY <2>2, TurnParts DEF CurrentTurn, Started, Blocking, Terminal, Outcomes
    <3>2. attempt[u] # "none"
      BY <1>1, <3>1 DEF IInv, AttemptInv
    <3>3. PICK st \in {"waiting"} \cup Outcomes : status' = [status EXCEPT ![u[1]] = st]
      BY <2>2
    <3> QED
      BY <2>2, <3>2, <3>3, AttemptWrites DEF Terminal, Outcomes
  <2> QED
    BY <1>4, <2>1, <2>2, FinalWrites
<1>5. ASSUME NEW u \in Turn, FinalizeRootRun(u) PROVE AttemptsAside
  <2>1. outcome[u] \in Outcomes /\ work[u] # "none" /\ WriteFinalRunEvents(u, outcome[u])
    BY <1>5 DEF FinalizeRootRun, IInv, WorkInv, TypeOK
  <2> QED
    BY <1>4, <2>1
<1>6. ASSUME NEW u \in Turn, WriteFailure(u) PROVE AttemptsAside
  <2>1. "failed" \in Outcomes /\ work[u] # "none" /\ WriteFinalRunEvents(u, "failed")
    BY <1>6 DEF WriteFailure, IInv, WorkInv, Outcomes
  <2> QED
    BY <1>4, <2>1
<1>7. ASSUME NEW r \in Run, CommitCapture(r) PROVE AttemptsAside
  BY <1>7, StatusWrites DEF CommitCapture
<1>8. ASSUME NEW S \in SUBSET Run, CancelsRuns(S) PROVE AttemptsAside
  <2>1. \A t \in Turn : Advances(t)
    BY <1>8 DEF CancelsRuns, Advances, Terminal, Outcomes
  <2>2. ASSUME NEW r \in Run, status'[r] \in {"queued", "starting"}
        PROVE  /\ status[r] \in {"queued", "starting"}
               /\ attempt'[CurrentTurn(r)] = attempt[CurrentTurn(r)]
    <3>1. r \notin S /\ status'[r] = status[r]
      BY <1>8, <2>2 DEF CancelsRuns
    <3>2. CurrentTurn(r) \in Turn /\ CurrentTurn(r)[1] = r
      BY <2>2, <3>1, CurrentTurns DEF CurrentTurn
    <3> QED
      BY <1>8, <2>2, <3>1, <3>2 DEF CancelsRuns
  <2> QED
    BY <2>1, <2>2 DEF StartsLate, AttemptsAside
<1>9. CASE JanitorTerminalize \/ Recover
  <2>1. CASE UNCHANGED <<status, attempt>>
    BY <2>1, StatusWrites
  <2> QED
    BY <1>8, <1>9, <2>1, SweepCommits, Recovers
<1>10. CASE CommitInterrupt
  <2>1. /\ held.run \in Run /\ status[held.run] # "none" /\ AttemptGate(CurrentTurn(held.run), "interrupted")
        /\ status' = [status EXCEPT ![held.run] = "interrupted"]
        /\ attempt' = [attempt EXCEPT ![CurrentTurn(held.run)] = "interrupted"]
    BY <1>10 DEF CommitInterrupt, IInv, HeldInv, Started, Blocking, Terminal, Outcomes
  <2>2. /\ CurrentTurn(held.run) \in Turn /\ CurrentTurn(held.run)[1] = held.run
        /\ attempt[CurrentTurn(held.run)] # "none"
    BY <2>1, CurrentTurns DEF CurrentTurn, IInv, AttemptInv
  <2>3. /\ "interrupted" \in Terminal
        /\ \/ attempt[CurrentTurn(held.run)] = "interrupted"
           \/ attempt[CurrentTurn(held.run)] \notin {"superseded"} \cup Terminal
    BY <2>1, <2>2, Gates DEF Terminal, Outcomes
  <2> QED
    BY <2>1, <2>2, <2>3, AttemptWrites
<1>11. CASE CommitPromote
  <2>1. held.run \in Run /\ status[held.run] = "queued"
    BY <1>11, Gates DEF CommitPromote, IInv, HeldInv, Started, Blocking, Terminal
  <2> QED
    BY <1>11, <2>1, StatusWrites DEF CommitPromote
<1>12. CASE Crash
  BY <1>12, StatusWrites DEF Crash
<1>13. CASE ResumeQueuedRuns
  BY <1>13, StatusWrites DEF ResumeQueuedRuns, NextQueuedRun
<1>14. CASE Command
  BY <1>2, <1>10, <1>11, <1>14, Readings
<1> QED
  BY <1>2, <1>3, <1>5, <1>6, <1>7, <1>9, <1>12, <1>13, <1>14, Steps

\* The attempt invariant.
LEMMA AttemptStep == IInv /\ [Next]_vars => AttemptInv'
<1> SUFFICES ASSUME IInv, [Next]_vars PROVE AttemptInv'
  OBVIOUS
<1>1. /\ active \in [Run -> 0 .. MaxAttempts] /\ MaxAttempts \in Nat
      /\ status \in [Run -> {"none", "queued"} \cup Blocking \cup Terminal]
      /\ attempt \in [Turn -> {"none", "pending", "running", "superseded"} \cup Terminal]
      /\ \A r \in Run : status[r] = "none" <=> active[r] = 0
      /\ \A t \in Turn : t[2] < active[t[1]] <=> attempt[t] = "superseded"
      /\ \A r \in Run : status[r] # "none" => attempt[<<r, active[r]>>] # "none"
      /\ \A r \in Run : status[r] \in {"queued", "starting"} => attempt[<<r, active[r]>>] = "pending"
  BY RunLivenessAssumption DEF IInv, TypeOK, AttemptInv, CurrentTurn
<1>2. CASE CommitMessage
  <2> DEFINE m == held.run
             first == <<m, 1>>
  <2>1. /\ m \in Run /\ status[m] = "none" /\ active' = [active EXCEPT ![m] = 1]
        /\ attempt' = [attempt EXCEPT ![first] = "pending"] /\ first \in Turn
        /\ \E st \in {"starting", "queued"} : status' = [status EXCEPT ![m] = st]
    BY <1>2, TurnParts DEF CommitMessage, IInv, HeldInv
  <2>2. \A r \in Run : status'[r] = "none" <=> active'[r] = 0
    BY <1>1, <2>1
  <2>3. ASSUME NEW t \in Turn PROVE t[2] < active'[t[1]] <=> attempt'[t] = "superseded"
    <3>1. t[1] \in Run /\ t[2] \in Nat \ {0} /\ active[t[1]] \in Nat
      BY <1>1, TurnParts
    <3>2. t[2] < active'[t[1]] <=> t[2] < active[t[1]]
      BY <1>1, <2>1, <3>1
    <3>3. CASE t = first
      <4>1. t[1] = m /\ ~(t[2] < active[t[1]])
        BY <1>1, <2>1, <3>1, <3>3
      <4> QED
        BY <1>1, <2>1, <3>2, <3>3, <4>1
    <3>4. CASE t # first
      BY <1>1, <2>1, <3>2, <3>4
    <3> QED
      BY <3>3, <3>4
  <2>4. ASSUME NEW r \in Run, status'[r] # "none"
        PROVE  /\ attempt'[<<r, active'[r]>>] # "none"
               /\ status'[r] \in {"queued", "starting"} => attempt'[<<r, active'[r]>>] = "pending"
    <3>1. CASE r = m
      BY <1>1, <2>1, <3>1
    <3>2. CASE r # m
      <4>1. status'[r] = status[r] /\ active'[r] = active[r] /\ <<r, active[r]>> # first
        BY <1>1, <2>1, <3>2
      <4>2. <<r, active[r]>> \in Turn
        BY <2>4, <4>1, CurrentTurns DEF CurrentTurn
      <4> QED
        BY <1>1, <2>1, <2>4, <4>1, <4>2
    <3> QED
      BY <3>1, <3>2
  <2>5. "starting" # "none" /\ "queued" # "none"
    OBVIOUS
  <2> QED
    BY <2>2, <2>3, <2>4, <2>5 DEF AttemptInv, CurrentTurn
<1>3. CASE CommitRestart
  <2> DEFINE m == held.run
             current == <<m, active[m]>>
             next == <<m, active[m] + 1>>
  <2>1. /\ m \in Run /\ active' = [active EXCEPT ![m] = active[m] + 1]
        /\ active[m] + 1 \in 1 .. MaxAttempts
        /\ status' = [status EXCEPT ![m] = "starting"] /\ status[m] # "none"
        /\ attempt' = [attempt EXCEPT ![current] = "superseded", ![next] = "pending"]
    BY <1>1, <1>3 DEF CommitRestart, CurrentTurn, IInv, HeldInv, Started, Blocking, Terminal, Outcomes
  <2>2. next \in Turn /\ current \in Turn /\ next # current
    BY <1>1, <2>1, TurnParts, CurrentTurns DEF CurrentTurn
  <2>3. \A q \in Run : status'[q] = "none" <=> active'[q] = 0
    BY <1>1, <2>1
  <2>4. ASSUME NEW t \in Turn PROVE t[2] < active'[t[1]] <=> attempt'[t] = "superseded"
    <3>1. t[1] \in Run /\ t[2] \in Nat /\ t = <<t[1], t[2]>> /\ active[t[1]] \in Nat
      BY <1>1, TurnParts
    <3>2. CASE t = current
      <4>1. t[1] = m /\ t[2] = active[m] /\ t # next
        BY <2>2, <3>2
      <4> HIDE DEF next, m, current
      <4> QED
        BY <1>1, <2>1, <3>1, <3>2, <4>1
    <3>3. CASE t = next
      <4>1. t[1] = m /\ t[2] = active[m] + 1
        BY <3>3
      <4> HIDE DEF next, m, current
      <4> QED
        BY <1>1, <2>1, <3>1, <3>3, <4>1
    <3>4. CASE t # current /\ t # next
      <4>1. t[2] < active'[t[1]] <=> t[2] < active[t[1]]
        <5>1. CASE t[1] = m
          <6>1. t[2] # active[m] /\ active'[t[1]] = active[m] + 1
            BY <1>1, <2>1, <3>1, <3>4, <5>1
          <6> QED
            BY <3>1, <5>1, <6>1
        <5>2. CASE t[1] # m
          BY <1>1, <2>1, <3>1, <5>2
        <5> QED
          BY <5>1, <5>2
      <4>2. attempt'[t] = attempt[t]
        BY <1>1, <2>1, <3>4
      <4> QED
        BY <1>1, <4>1, <4>2
    <3> QED
      BY <3>2, <3>3, <3>4
  <2>5. ASSUME NEW r \in Run, status'[r] # "none"
        PROVE  /\ attempt'[<<r, active'[r]>>] # "none"
               /\ status'[r] \in {"queued", "starting"} => attempt'[<<r, active'[r]>>] = "pending"
    <3>1. CASE r = m
      BY <1>1, <2>1, <2>2, <3>1
    <3>2. CASE r # m
      <4>1. /\ status'[r] = status[r] /\ active'[r] = active[r]
            /\ <<r, active[r]>> # current /\ <<r, active[r]>> # next
        BY <1>1, <2>1, <3>2
      <4>2. <<r, active[r]>> \in Turn
        BY <2>5, <4>1, CurrentTurns DEF CurrentTurn
      <4> HIDE DEF next, m, current
      <4> QED
        BY <1>1, <2>1, <2>5, <4>1, <4>2
    <3> QED
      BY <3>1, <3>2
  <2>6. "starting" # "none" /\ "queued" # "none"
    OBVIOUS
  <2> QED
    BY <2>3, <2>4, <2>5, <2>6 DEF AttemptInv, CurrentTurn
<1>4. CASE active' = active /\ ~CommitMessage /\ ~CommitRestart
  <2>1. AttemptsAside
    BY <1>4, AttemptMoves
  <2>2. \A r \in Run : status'[r] = "none" <=> active'[r] = 0
    BY <1>1, <1>4, NewRuns, RunsAdvance
  <2>3. \A t \in Turn : t[2] < active'[t[1]] <=> attempt'[t] = "superseded"
    BY <1>1, <1>4, <2>1 DEF AttemptsAside, Advances, Terminal, Outcomes
  <2>4. ASSUME NEW r \in Run, status'[r] # "none"
        PROVE  /\ attempt'[<<r, active'[r]>>] # "none"
               /\ status'[r] \in {"queued", "starting"} => attempt'[<<r, active'[r]>>] = "pending"
    <3>1. status[r] # "none" /\ <<r, active[r]>> \in Turn
      BY <1>4, <2>4, NewRuns, CurrentTurns DEF CurrentTurn
    <3>2. attempt[<<r, active[r]>>] # "none" /\ Advances(<<r, active[r]>>) /\ StartsLate(r)
      BY <1>1, <2>1, <3>1 DEF AttemptsAside
    <3>3. attempt'[<<r, active[r]>>] # "none"
      BY <3>2 DEF Advances, Terminal, Outcomes
    <3> QED
      BY <1>1, <1>4, <3>2, <3>3 DEF StartsLate, CurrentTurn
  <2>5. "starting" # "none" /\ "queued" # "none"
    OBVIOUS
  <2> QED
    BY <2>2, <2>3, <2>4, <2>5 DEF AttemptInv, CurrentTurn
<1> QED
  BY <1>2, <1>3, <1>4, ActiveMoves

-----------------------------------------------------------------------------
(* What was read under the lock, or by the janitor, and the theorems.       *)

\* A command in the lock keeps what it read while others proceed.
LEMMA HeldStays ==
    ASSUME IInv, Proceeds, UNCHANGED <<active, phase, held>>
    PROVE  HeldInv'
<1>1. HeldInv
  BY DEF IInv
<1>2. CASE held.kind = "none"
  BY <1>2 DEF HeldInv
<1>3. CASE held.kind # "none"
  <2> DEFINE r == held.run
  <2>1. r \in Run /\ Serving'
    BY <1>1, <1>3 DEF HeldInv, Serving
  <2>2. /\ status[r] = "none" => status'[r] = "none"
        /\ status[r] \in {"queued", "cancelled"} => status'[r] \in {"queued", "cancelled"}
        /\ status[r] \in Started => status'[r] \in Started
    BY <2>1 DEF Proceeds, Started, Blocking, Terminal, Outcomes
  <2>3. ~BlockingRun => ~BlockingRun'
    BY DEF Proceeds, BlockingRun, Blocking
  <2> QED
    BY <1>1, <1>3, <2>1, <2>2, <2>3 DEF HeldInv
<1> QED
  BY <1>2, <1>3

\* A command reads what it needs when it takes the lock.
LEMMA HeldBegins ==
    ASSUME IInv, NEW r \in Run,
           \/ BeginMessage(r) \/ BeginRestart(r) \/ BeginInterrupt(r) \/ HandleTerminalRun(r)
    PROVE  HeldInv'
<1>1. UNCHANGED <<status, active, phase>> /\ Serving
  BY DEF BeginMessage, BeginRestart, BeginInterrupt, HandleTerminalRun
<1>2. Serving' /\ (BlockingRun' <=> BlockingRun)
  BY <1>1 DEF Serving, BlockingRun
<1>3. CASE UNCHANGED held
  <2>1. Proceeds
    BY <1>1 DEF Proceeds
  <2> QED
    BY <1>1, <1>3, <2>1, HeldStays
<1>4. CASE BeginMessage(r)
  <2>1. /\ held' = [kind |-> IF BlockingRun THEN "queue" ELSE "start", run |-> r]
        /\ status[r] = "none"
    BY <1>4 DEF BeginMessage, NextOrdinal
  <2>2. /\ held'.run = r
        /\ \/ held'.kind = "queue"
           \/ held'.kind = "start" /\ ~BlockingRun
    BY <2>1
  <2> QED
    BY <1>1, <1>2, <2>1, <2>2 DEF HeldInv
<1>5. CASE BeginRestart(r) \/ BeginInterrupt(r)
  <2>1. /\ held'.run = r /\ status[r] \in Started
        /\ \/ held'.kind = "restart" /\ active[r] < MaxAttempts
           \/ held'.kind = "interrupt"
    BY <1>5 DEF BeginRestart, BeginInterrupt, Started, Blocking
  <2> QED
    BY <1>1, <1>2, <2>1 DEF HeldInv
<1>6. CASE HandleTerminalRun(r)
  <2>1. ASSUME NEW q \in Run, ~BlockingRun, NextQueuedRun(q),
               held' = [kind |-> "promote", run |-> q]
        PROVE  HeldInv'
    <3>1. held'.run = q /\ held'.kind = "promote" /\ status[q] = "queued"
      BY <2>1 DEF NextQueuedRun
    <3> QED
      BY <1>1, <1>2, <2>1, <3>1 DEF HeldInv
  <2> QED
    BY <1>3, <1>6, <2>1 DEF HandleTerminalRun
<1> QED
  BY <1>4, <1>5, <1>6

\* The held part of the read invariant.
LEMMA HeldStep == IInv /\ [Next]_vars => HeldInv'
<1> SUFFICES ASSUME IInv, [Next]_vars PROVE HeldInv'
  OBVIOUS
<1>1. CASE held' = NoCommand
  BY <1>1 DEF NoCommand, HeldInv
<1>2. CASE UNCHANGED <<status, active, attempt, phase, held>>
  BY <1>2, HeldStays DEF Proceeds
<1>3. CASE CommitMessage \/ CommitRestart \/ CommitInterrupt \/ CommitPromote \/ CommitRejected
  BY <1>1, <1>3 DEF CommitMessage, CommitRestart, CommitInterrupt, CommitPromote, CommitRejected
<1>4. CASE Command
  BY <1>3, <1>4, HeldBegins DEF Command
<1>5. CASE Crash
  BY <1>1, <1>5 DEF Crash
<1>6. CASE ResumeQueuedRuns \/ Recover
  <2>1. held.kind = "none" /\ held' = held
    BY <1>6 DEF ResumeQueuedRuns, Recover, IInv, HeldInv, Serving
  <2> QED
    BY <2>1 DEF HeldInv
<1>7. CASE ~Command /\ ~ResumeQueuedRuns /\ UNCHANGED <<phase, held>>
  <2>1. active' = active
    BY <1>7, ActiveMoves DEF Command
  <2> QED
    BY <1>7, <2>1, OwnMoves, HeldStays
<1>8. ASSUME NEW t \in Turn, BeginTurn(t) \/ FinalizeRootRun(t) \/ WriteFailure(t)
      PROVE  UNCHANGED <<phase, held>>
  BY <1>8 DEF BeginTurn, FinalizeRootRun, WriteFailure
<1>9. ASSUME NEW r \in Run, CommitCapture(r) PROVE UNCHANGED <<phase, held>>
  BY <1>9 DEF CommitCapture
<1>10. ASSUME JanitorTerminalize PROVE UNCHANGED <<phase, held>>
  BY <1>10 DEF JanitorTerminalize
<1> QED
  BY <1>2, <1>4, <1>5, <1>6, <1>7, <1>8, <1>9, <1>10, Steps

\* An attempt that exists goes on existing.
LEMMA AttemptsStay ==
    ASSUME IInv, [Next]_vars, NEW t \in Turn, attempt[t] # "none"
    PROVE  attempt'[t] # "none"
<1>1. attempt \in [Turn -> {"none", "pending", "running", "superseded"} \cup Terminal]
  BY DEF IInv, TypeOK
<1>2. CASE CommitMessage \/ CommitRestart
  BY <1>1, <1>2 DEF CommitMessage, CommitRestart
<1>3. CASE ~CommitMessage /\ ~CommitRestart
  BY <1>3, AttemptMoves DEF AttemptsAside, Advances, Terminal, Outcomes
<1> QED
  BY <1>2, <1>3

\* A copy stays fit to be written back, or refused, whatever happens to its run.
LEMMA CopyStays ==
    ASSUME IInv, [Next]_vars, janitor' = janitor, NEW r \in janitor.copy.runs, CopyInv(r)
    PROVE  CopyInv(r)'
<1> DEFINE c == janitor.copy.active[r]
           t == <<r, c>>
<1>1. /\ r \in Run /\ status[r] # "none" /\ active \in [Run -> 0 .. MaxAttempts]
      /\ attempt \in [Turn -> {"none", "pending", "running", "superseded"} \cup Terminal]
      /\ janitor.copy.attempts \subseteq Turn
      /\ active[r] \in Nat
  BY RunLivenessAssumption DEF IInv, TypeOK, SweepInv
<1>2. t \in Turn
  <2>1. CASE c = active[r]
    BY <1>1, <2>1, CurrentTurns DEF CurrentTurn
  <2>2. CASE t \in janitor.copy.attempts
    BY <1>1, <2>2
  <2> QED
    BY <2>1, <2>2 DEF CopyInv
<1>3. CASE active'[r] = active[r] /\ Advances(t)
  BY <1>3 DEF Advances, CopyInv, Terminal, Outcomes
<1>4. CASE CommitMessage
  <2>1. /\ held.run \in Run /\ held.run # r
        /\ active' = [active EXCEPT ![held.run] = 1]
        /\ attempt' = [attempt EXCEPT ![<<held.run, 1>>] = "pending"]
    BY <1>1, <1>4 DEF CommitMessage, IInv, HeldInv
  <2>2. active'[r] = active[r] /\ attempt'[t] = attempt[t]
    BY <1>1, <1>2, <2>1
  <2> QED
    BY <1>3, <2>2 DEF Advances
<1>5. CASE CommitRestart
  <2>1. /\ held.run \in Run /\ AttemptGate(CurrentTurn(held.run), "superseded")
        /\ active' = [active EXCEPT ![held.run] = @ + 1]
        /\ attempt' = [attempt EXCEPT ![CurrentTurn(held.run)] = "superseded",
                                      ![<<held.run, active[held.run] + 1>>] = "pending"]
    BY <1>5 DEF CommitRestart, IInv, HeldInv
  <2>2. CASE held.run # r
    <3>1. t # CurrentTurn(held.run) /\ t # <<held.run, active[held.run] + 1>>
      BY <2>2 DEF CurrentTurn
    <3>2. active'[r] = active[r] /\ attempt'[t] = attempt[t]
      BY <1>1, <1>2, <2>1, <2>2, <3>1
    <3> QED
      BY <1>3, <3>2 DEF Advances
  <2>3. CASE held.run = r
    <3>1. CASE c = active[r]
      <4>1. t = CurrentTurn(r) /\ t # <<r, active[r] + 1>>
        BY <1>1, <3>1 DEF CurrentTurn
      <4>2. attempt[t] \notin Terminal
        BY <1>2, <2>1, <2>3, <4>1, Gates
      <4>3. t \in janitor.copy.attempts
        <5>1. attempt[t] # "superseded"
          BY <1>1, <1>2, <3>1 DEF IInv, AttemptInv
        <5> QED
          BY <4>2, <5>1 DEF CopyInv
      <4>4. attempt'[t] = "superseded"
        BY <1>1, <1>2, <2>1, <2>3, <4>1
      <4> QED
        BY <4>3, <4>4 DEF CopyInv
    <3>2. CASE t \in janitor.copy.attempts /\ attempt[t] = "superseded"
      <4>1. t[1] = r /\ t[2] = c /\ c < active[r] /\ c \in Nat
        BY <1>1, <1>2, <3>2, TurnParts DEF IInv, AttemptInv
      <4>2. t # <<r, active[r] + 1>>
        BY <1>1, <4>1
      <4>3. attempt'[t] = "superseded"
        BY <1>1, <1>2, <2>1, <2>3, <3>2, <4>2
      <4> QED
        BY <3>2, <4>3 DEF CopyInv
    <3> QED
      BY <3>1, <3>2 DEF CopyInv
  <2> QED
    BY <2>2, <2>3
<1>6. CASE ~CommitMessage /\ ~CommitRestart
  <2>1. active' = active /\ Advances(t)
    BY <1>2, <1>6, ActiveMoves, AttemptMoves DEF AttemptsAside
  <2> QED
    BY <1>3, <2>1
<1> QED
  BY <1>4, <1>5, <1>6

\* The sweep.
LEMMA SweepStep == IInv /\ [Next]_vars => SweepInv'
<1> SUFFICES ASSUME IInv, [Next]_vars PROVE SweepInv'
  OBVIOUS
<1>1. /\ janitor.copy.runs \subseteq Run /\ janitor.copy.attempts \subseteq Turn
      /\ janitor.copy.active \in [Run -> 0 .. MaxAttempts]
  BY DEF IInv, TypeOK
<1>2. CASE janitor' = janitor
  <2>1. \A r \in janitor'.copy.runs : status'[r] # "none"
    BY <1>1, <1>2, RunsAdvance DEF IInv, SweepInv
  <2>2. \A t \in janitor'.copy.attempts : t[1] \in janitor'.copy.runs /\ attempt'[t] # "none"
    BY <1>1, <1>2, AttemptsStay DEF IInv, SweepInv
  <2>3. janitor'.stage = "loaded" => \A r \in janitor'.copy.runs : CopyInv(r)'
    BY <1>1, <1>2, CopyStays DEF IInv, SweepInv
  <2> QED
    BY <2>1, <2>2, <2>3 DEF SweepInv
<1>3. CASE janitor' = NoSweep
  BY <1>3 DEF NoSweep, NoCopy, SweepInv
<1>4. CASE JanitorFind
  <2>1. /\ \A r \in janitor'.copy.runs : r \in Run /\ Nonterminal(r)
        /\ janitor'.copy.attempts = {} /\ janitor'.stage = "found"
    BY <1>4 DEF JanitorFind, NoCopy
  <2>2. \A r \in Run : Nonterminal(r) => status[r] # "none"
    BY DEF Nonterminal, Blocking
  <2> QED
    BY <2>1, <2>2, RunsAdvance DEF SweepInv
<1>5. CASE JanitorLoad
  <2>1. /\ janitor'.copy = Loaded(janitor.copy.runs)
        /\ UNCHANGED <<status, active, attempt>>
    BY <1>5 DEF JanitorLoad
  <2>2. /\ \A r \in janitor'.copy.runs : /\ r \in Run /\ status[r] # "none"
                                         /\ janitor'.copy.active[r] = active[r]
        /\ \A t \in Turn : t \in janitor'.copy.attempts <=>
               t[1] \in janitor'.copy.runs /\ attempt[t] \in {"pending", "running"}
        /\ janitor'.copy.attempts \subseteq Turn
    BY <1>1, <2>1 DEF Loaded, IInv, SweepInv
  <2>3. ASSUME NEW r \in janitor'.copy.runs PROVE CopyInv(r)'
    <3>1. CurrentTurn(r) \in Turn /\ CurrentTurn(r)[1] = r /\ CurrentTurn(r)[2] = active[r]
      BY <2>2, CurrentTurns DEF CurrentTurn
    <3>2. attempt[CurrentTurn(r)] \notin {"none", "superseded"}
      BY <2>2, <3>1, RunLivenessAssumption DEF IInv, AttemptInv, TypeOK
    <3>3. attempt[CurrentTurn(r)] \in {"pending", "running"} \cup Terminal
      BY <3>1, <3>2 DEF IInv, TypeOK
    <3> QED
      BY <2>1, <2>2, <3>1, <3>3 DEF CopyInv, CurrentTurn
  <2> QED
    BY <2>1, <2>2, <2>3 DEF SweepInv
<1>6. ASSUME NEW t \in Turn, \/ ClaimWork(t) \/ AwaitPrevious(t) \/ BeginTurn(t)
                             \/ ForkIngestion(t) \/ StartTurn(t) \/ EndWork(t)
                             \/ DecideFailure(t) \/ WriteFailure(t) \/ StopWork(t)
      PROVE  janitor' = janitor
  BY <1>6 DEF ClaimWork, AwaitPrevious, BeginTurn, ForkIngestion, StartTurn, EndWork,
              DecideFailure, WriteFailure, StopWork
<1>7. ASSUME NEW t \in Turn, \/ AcquireLease(t) \/ IngestTurn(t) \/ FinalizeRootRun(t)
                             \/ (\E o \in Outcomes : IngestTerminal(t, o))
                             \/ IdleRelease(t) \/ ReleaseLease(t) \/ Loss(t)
      PROVE  janitor' = janitor
  BY <1>7 DEF AcquireLease, IngestTurn, FinalizeRootRun, IngestTerminal, IdleRelease, ReleaseLease,
              Decide, Loss, StartTurnFails, StartError, StreamFails, FiberDies
<1>8. ASSUME NEW r \in Run, RunStep(r) \/ Suspend(r) PROVE janitor' = janitor
  BY <1>8 DEF RunStep, ClaimCapture, CommitCapture, CaptureFails, LeaseExpires, Renew, Suspend
<1>9. CASE GraceElapses \/ JanitorPrune \/ ResumeQueuedRuns \/ Recover \/ UNCHANGED vars
  BY <1>2, <1>9 DEF GraceElapses, JanitorPrune, ResumeQueuedRuns, Recover, vars
<1>10. CASE JanitorTerminalize \/ Crash
  BY <1>3, <1>10 DEF JanitorTerminalize, Crash
<1>11. ASSUME NEW r \in Run, \/ BeginMessage(r) \/ BeginRestart(r) \/ BeginInterrupt(r)
                             \/ HandleTerminalRun(r)
       PROVE  janitor' = janitor
  BY <1>11 DEF BeginMessage, BeginRestart, BeginInterrupt, HandleTerminalRun
<1>12. CASE CommitMessage \/ CommitRestart \/ CommitInterrupt \/ CommitPromote \/ CommitRejected
  BY <1>2, <1>12 DEF CommitMessage, CommitRestart, CommitInterrupt, CommitPromote, CommitRejected
<1>13. CASE \E t \in Turn : TurnStep(t) \/ Loss(t)
  BY <1>2, <1>6, <1>7, <1>13 DEF TurnStep
<1>14. CASE Command
  BY <1>2, <1>11, <1>12, <1>14 DEF Command
<1> QED
  BY <1>2, <1>4, <1>5, <1>8, <1>9, <1>10, <1>13, <1>14 DEF Next, JanitorStep

-----------------------------------------------------------------------------
(* A fiber and its lease.                                                   *)

\* A fiber listens since it acquired its run's lease.
LEMMA Listening ==
    ASSUME IInv, [Next]_vars, NEW t \in Turn, fiber'[t] \in {"listening", "deciding"}
    PROVE  fiber[t] \in {"listening", "deciding"} \/ AcquireLease(t)
<1> DEFINE Goal == fiber[t] \in {"listening", "deciding"} \/ AcquireLease(t)
<1>1. fiber \in [Turn -> {"none", "forked", "listening", "deciding", "leaving", "gone"}]
  BY DEF IInv, TypeOK
<1>2. CASE fiber' = fiber
  BY <1>2
<1>3. ASSUME NEW u \in Turn, NEW x, fiber' = [fiber EXCEPT ![u] = x],
             \/ x \notin {"listening", "deciding"}
             \/ fiber[u] \in {"listening", "deciding"}
      PROVE  Goal
  BY <1>1, <1>3
<1>4. ASSUME NEW u \in Turn, AcquireLease(u) PROVE Goal
  <2>1. fiber' = [fiber EXCEPT ![u] = "listening"]
    BY <1>4 DEF AcquireLease
  <2>2. u = t \/ fiber'[t] = fiber[t]
    BY <1>1, <2>1
  <2> QED
    BY <1>4, <2>2
<1>5. ASSUME NEW u \in Turn, InterruptFiber(u) PROVE Goal
  BY <1>1, <1>5 DEF InterruptFiber
<1>6. ASSUME NEW u \in Turn, ForkIngestion(u) \/ ReleaseLease(u) PROVE Goal
  BY <1>2, <1>3, <1>6 DEF ForkIngestion, ReleaseLease
<1>7. ASSUME NEW u \in Turn, FinalizeRootRun(u) \/ FiberDies(u) PROVE Goal
  BY <1>3, <1>7 DEF FinalizeRootRun, FiberDies
<1>8. ASSUME NEW u \in Turn, StartTurn(u) \/ StartTurnFails(u) PROVE Goal
  BY <1>2, <1>5, <1>8 DEF StartTurn, StartTurnFails
<1>9. ASSUME NEW u \in Turn, \/ (\E o \in Outcomes : IngestTerminal(u, o))
                             \/ IdleRelease(u) \/ StreamFails(u)
      PROVE  Goal
  BY <1>3, <1>9 DEF IngestTerminal, IdleRelease, StreamFails, Decide
<1>10. ASSUME NEW u \in Turn, \/ ClaimWork(u) \/ AwaitPrevious(u) \/ BeginTurn(u) \/ EndWork(u)
                              \/ DecideFailure(u) \/ WriteFailure(u) \/ StopWork(u)
                              \/ IngestTurn(u) \/ StartError(u)
       PROVE  fiber' = fiber
  BY <1>10 DEF ClaimWork, AwaitPrevious, BeginTurn, EndWork, DecideFailure, WriteFailure,
               StopWork, IngestTurn, StartError
<1>11. ASSUME NEW r \in Run, RunStep(r) \/ Suspend(r) PROVE fiber' = fiber
  BY <1>11 DEF RunStep, ClaimCapture, CommitCapture, CaptureFails, LeaseExpires, Renew, Suspend
<1>12. CASE GraceElapses \/ JanitorStep \/ ResumeQueuedRuns \/ Recover \/ UNCHANGED vars
  BY <1>2, <1>12 DEF GraceElapses, JanitorStep, JanitorFind, JanitorPrune, JanitorLoad,
                     JanitorTerminalize, ResumeQueuedRuns, Recover, vars
<1>13. CASE Crash
  BY <1>1, <1>13 DEF Crash
<1>14. ASSUME NEW r \in Run, \/ BeginMessage(r) \/ BeginRestart(r) \/ BeginInterrupt(r)
                             \/ HandleTerminalRun(r)
       PROVE  fiber' = fiber
  BY <1>14 DEF BeginMessage, BeginRestart, BeginInterrupt, HandleTerminalRun
<1>15. CASE CommitMessage \/ CommitRestart \/ CommitInterrupt \/ CommitPromote \/ CommitRejected
  BY <1>2, <1>15 DEF CommitMessage, CommitRestart, CommitInterrupt, CommitPromote, CommitRejected
<1>16. CASE \E u \in Turn : TurnStep(u) \/ Loss(u)
  BY <1>2, <1>4, <1>6, <1>7, <1>8, <1>9, <1>10, <1>16 DEF TurnStep, Loss
<1>17. CASE Command
  BY <1>2, <1>14, <1>15, <1>17 DEF Command
<1> QED
  BY <1>2, <1>11, <1>12, <1>13, <1>16, <1>17 DEF Next

\* A valid lease ends with the fiber that releases it, with no fiber to renew it, or
\* while the machine sleeps.
LEMMA LeaseWrites ==
    ASSUME IInv, [Next]_vars, NEW r \in Run, lease[r] = "valid"
    PROVE  \/ lease'[r] = "valid"
           \/ Holders(r) = {} /\ fiber' = fiber
           \/ stalls' = stalls + 1
           \/ \E u \in Turn : u[1] = r /\ ReleaseLease(u)
<1> DEFINE Goal == \/ lease'[r] = "valid"
                   \/ Holders(r) = {} /\ fiber' = fiber
                   \/ stalls' = stalls + 1
                   \/ \E u \in Turn : u[1] = r /\ ReleaseLease(u)
<1>1. lease \in [Run -> {"none", "valid", "expired"}]
  BY DEF IInv, TypeOK
<1>2. CASE lease' = lease
  BY <1>2
<1>3. ASSUME NEW q \in Run, LeaseExpires(q) PROVE Goal
  BY <1>1, <1>3 DEF LeaseExpires
<1>4. ASSUME NEW q \in Run, Suspend(q) PROVE Goal
  BY <1>4 DEF Suspend
<1>5. ASSUME NEW q \in Run, Renew(q) PROVE Goal
  BY <1>1, <1>5 DEF Renew
<1>6. ASSUME NEW u \in Turn, AcquireLease(u) PROVE Goal
  BY <1>1, <1>6, TurnParts DEF AcquireLease
<1>7. ASSUME NEW u \in Turn, ReleaseLease(u) PROVE Goal
  <2>1. lease' = [lease EXCEPT ![u[1]] = "none"] /\ u[1] \in Run
    BY <1>7, TurnParts DEF ReleaseLease
  <2>2. u[1] = r \/ lease'[r] = lease[r]
    BY <1>1, <2>1
  <2> QED
    BY <1>7, <2>2
<1>8. CASE JanitorFind \/ JanitorPrune
  BY <1>8 DEF JanitorFind, JanitorPrune
<1>9. ASSUME NEW u \in Turn, \/ ClaimWork(u) \/ AwaitPrevious(u) \/ BeginTurn(u)
                             \/ ForkIngestion(u) \/ StartTurn(u) \/ EndWork(u)
                             \/ DecideFailure(u) \/ WriteFailure(u) \/ StopWork(u)
      PROVE  lease' = lease
  BY <1>9 DEF ClaimWork, AwaitPrevious, BeginTurn, ForkIngestion, StartTurn, EndWork,
              DecideFailure, WriteFailure, StopWork
<1>10. ASSUME NEW u \in Turn, \/ IngestTurn(u) \/ (\E o \in Outcomes : IngestTerminal(u, o))
                              \/ IdleRelease(u) \/ FinalizeRootRun(u) \/ Loss(u)
       PROVE  lease' = lease
  BY <1>10 DEF IngestTurn, IngestTerminal, IdleRelease, FinalizeRootRun, Decide, Loss,
               StartTurnFails, StartError, StreamFails, FiberDies
<1>11. ASSUME NEW q \in Run, ClaimCapture(q) \/ CommitCapture(q) \/ CaptureFails(q)
       PROVE  lease' = lease
  BY <1>11 DEF ClaimCapture, CommitCapture, CaptureFails
<1>12. CASE \/ GraceElapses \/ JanitorLoad \/ JanitorTerminalize \/ Crash
            \/ ResumeQueuedRuns \/ Recover \/ UNCHANGED vars
  BY <1>2, <1>12 DEF GraceElapses, JanitorLoad, JanitorTerminalize, Crash, ResumeQueuedRuns,
                     Recover, vars
<1>13. ASSUME NEW q \in Run, \/ BeginMessage(q) \/ BeginRestart(q) \/ BeginInterrupt(q)
                             \/ HandleTerminalRun(q)
       PROVE  lease' = lease
  BY <1>13 DEF BeginMessage, BeginRestart, BeginInterrupt, HandleTerminalRun
<1>14. CASE CommitMessage \/ CommitRestart \/ CommitInterrupt \/ CommitPromote \/ CommitRejected
  BY <1>2, <1>14 DEF CommitMessage, CommitRestart, CommitInterrupt, CommitPromote, CommitRejected
<1>15. CASE \E u \in Turn : TurnStep(u) \/ Loss(u)
  BY <1>2, <1>6, <1>7, <1>9, <1>10, <1>15 DEF TurnStep
<1>16. CASE \E q \in Run : RunStep(q) \/ Suspend(q)
  BY <1>2, <1>3, <1>4, <1>5, <1>11, <1>16 DEF RunStep
<1>17. CASE Command
  BY <1>2, <1>13, <1>14, <1>17 DEF Command
<1> QED
  BY <1>8, <1>12, <1>15, <1>16, <1>17 DEF Next, JanitorStep

\* Suspensions are only counted.
LEMMA StallsGrow == IInv /\ [Next]_vars => stalls' = stalls \/ stalls' = stalls + 1
<1> SUFFICES ASSUME IInv, [Next]_vars PROVE stalls' = stalls \/ stalls' = stalls + 1
  OBVIOUS
<1>1. ASSUME NEW t \in Turn, \/ ClaimWork(t) \/ AwaitPrevious(t) \/ BeginTurn(t)
                             \/ ForkIngestion(t) \/ StartTurn(t) \/ EndWork(t)
                             \/ DecideFailure(t) \/ WriteFailure(t) \/ StopWork(t)
      PROVE  stalls' = stalls
  BY <1>1 DEF ClaimWork, AwaitPrevious, BeginTurn, ForkIngestion, StartTurn, EndWork,
              DecideFailure, WriteFailure, StopWork, budgetVars
<1>2. ASSUME NEW t \in Turn, \/ AcquireLease(t) \/ IngestTurn(t) \/ FinalizeRootRun(t)
                             \/ (\E o \in Outcomes : IngestTerminal(t, o))
                             \/ IdleRelease(t) \/ ReleaseLease(t) \/ Loss(t)
      PROVE  stalls' = stalls
  BY <1>2 DEF AcquireLease, IngestTurn, FinalizeRootRun, IngestTerminal, IdleRelease, ReleaseLease,
              Decide, Loss, StartTurnFails, StartError, StreamFails, FiberDies, budgetVars
<1>3. ASSUME NEW r \in Run, RunStep(r) \/ Suspend(r)
      PROVE  stalls' = stalls \/ stalls' = stalls + 1
  BY <1>3 DEF RunStep, ClaimCapture, CommitCapture, CaptureFails, LeaseExpires, Renew, Suspend,
              budgetVars
<1>4. CASE GraceElapses \/ JanitorStep \/ Crash \/ ResumeQueuedRuns \/ Recover \/ UNCHANGED vars
  BY <1>4 DEF GraceElapses, JanitorStep, JanitorFind, JanitorPrune, JanitorLoad,
              JanitorTerminalize, Crash, ResumeQueuedRuns, Recover, vars, budgetVars
<1>5. ASSUME NEW r \in Run, \/ BeginMessage(r) \/ BeginRestart(r) \/ BeginInterrupt(r)
                            \/ HandleTerminalRun(r)
      PROVE  stalls' = stalls
  BY <1>5 DEF BeginMessage, BeginRestart, BeginInterrupt, HandleTerminalRun, budgetVars
<1>6. CASE CommitMessage \/ CommitRestart \/ CommitInterrupt \/ CommitPromote \/ CommitRejected
  BY <1>6 DEF CommitMessage, CommitRestart, CommitInterrupt, CommitPromote, CommitRejected,
              budgetVars
<1> QED
  BY <1>1, <1>2, <1>3, <1>4, <1>5, <1>6 DEF Next, TurnStep, Command

\* The first fiber of a run that was never restarted is the only one that can
\* release the run's lease.
LEMMA LeaseStep == IInv /\ [Next]_vars => UndisturbedFiberHoldsLease'
<1> SUFFICES ASSUME IInv, [Next]_vars, stalls' = 0, NEW t \in Turn,
                    IsCurrent(t)', t[2] = 1, fiber'[t] \in {"listening", "deciding"}
             PROVE  lease'[t[1]] = "valid"
  BY DEF UndisturbedFiberHoldsLease
<1> DEFINE r == t[1]
<1>1. /\ r \in Run /\ stalls \in Nat
      /\ lease \in [Run -> {"none", "valid", "expired"}]
      /\ active \in [Run -> 0 .. MaxAttempts] /\ MaxAttempts \in Nat
  BY TurnParts, RunLivenessAssumption DEF IInv, TypeOK
<1>2. stalls = 0 /\ stalls' # stalls + 1
  BY <1>1, StallsGrow
<1>3. CASE AcquireLease(t)
  BY <1>1, <1>3 DEF AcquireLease
<1>4. CASE fiber[t] \in {"listening", "deciding"}
  <2>1. active[r] = 1
    <3>1. work[t] # "none" /\ 1 <= active[r]
      BY <1>4 DEF IInv, WorkInv
    <3>2. active'[r] >= active[r] /\ active'[r] = 1
      BY <1>1, RunsAdvance DEF IsCurrent
    <3> QED
      BY <1>1, <3>1, <3>2
  <2>2. lease[r] = "valid"
    BY <1>2, <1>4, <2>1 DEF IInv, UndisturbedFiberHoldsLease, IsCurrent
  <2>3. t \in Holders(r)
    BY <1>4 DEF Holders
  <2>4. ASSUME NEW u \in Turn, u[1] = r, ReleaseLease(u) PROVE FALSE
    <3>1. fiber[u] = "leaving" /\ work[u] # "none"
      BY <2>4 DEF ReleaseLease, IInv, WorkInv
    <3>2. u[2] <= active[r] /\ u[2] \in Nat \ {0}
      BY <2>4, <3>1, TurnParts, RunLivenessAssumption DEF IInv, WorkInv
    <3>3. u = t
      BY <2>1, <2>4, <3>2, TurnParts
    <3> QED
      BY <1>4, <3>1, <3>3
  <2>5. \/ lease'[r] = "valid" \/ Holders(r) = {} \/ stalls' = stalls + 1
        \/ \E u \in Turn : u[1] = r /\ ReleaseLease(u)
    BY <1>1, <2>2, LeaseWrites
  <2> QED
    BY <1>2, <2>3, <2>4, <2>5
<1> QED
  BY <1>3, <1>4, Listening

-----------------------------------------------------------------------------
(* What a process loss leaves behind.                                       *)

\* Attempts belong to dispatched runs.
LEMMA NewAttempts ==
    ASSUME IInv, [Next]_vars, NEW t \in Turn, attempt'[t] # "none"
    PROVE  status'[t[1]] # "none"
<1>1. /\ attempt \in [Turn -> {"none", "pending", "running", "superseded"} \cup Terminal]
      /\ attempt[t] # "none" => status[t[1]] # "none"
      /\ t[1] \in Run
  BY TurnParts DEF IInv, TypeOK, AcceptedInv
<1>2. status[t[1]] # "none" => status'[t[1]] # "none"
  BY <1>1, RunsAdvance
<1>3. CASE ~CommitMessage /\ ~CommitRestart
  <2>1. attempt[t] # "none"
    BY <1>1, <1>3, AttemptMoves DEF AttemptsAside, Advances
  <2> QED
    BY <1>1, <1>2, <2>1
<1>4. CASE CommitMessage
  <2>1. /\ held.run \in Run
        /\ attempt' = [attempt EXCEPT ![<<held.run, 1>>] = "pending"]
        /\ \E st \in {"starting", "queued"} : status' = [status EXCEPT ![held.run] = st]
    BY <1>4 DEF CommitMessage, IInv, HeldInv
  <2>2. CASE t = <<held.run, 1>>
    <3>1. t[1] = held.run
      BY <2>2
    <3> QED
      BY <1>1, <2>1, <3>1 DEF IInv, TypeOK
  <2>3. CASE t # <<held.run, 1>>
    BY <1>1, <1>2, <2>1, <2>3
  <2> QED
    BY <2>2, <2>3
<1>5. CASE CommitRestart
  <2>1. /\ held.run \in Run /\ status[held.run] # "none"
        /\ attempt' = [attempt EXCEPT ![CurrentTurn(held.run)] = "superseded",
                                      ![<<held.run, active[held.run] + 1>>] = "pending"]
    BY <1>5 DEF CommitRestart, IInv, HeldInv, Started, Blocking, Terminal, Outcomes
  <2>2. CASE t[1] = held.run
    BY <1>2, <2>1, <2>2
  <2>3. CASE t[1] # held.run
    <3>1. t # CurrentTurn(held.run) /\ t # <<held.run, active[held.run] + 1>>
      BY <2>3 DEF CurrentTurn
    <3> QED
      BY <1>1, <1>2, <2>1, <3>1
  <2> QED
    BY <2>2, <2>3
<1> QED
  BY <1>3, <1>4, <1>5

\* The process is lost and comes back by three actions; the turns accepted before a
\* loss are fixed when it happens.
LEMMA PhaseMoves ==
    ASSUME IInv, [Next]_vars
    PROVE  UNCHANGED <<phase, accepted>> \/ Crash \/ ResumeQueuedRuns \/ Recover
<1>1. ASSUME NEW t \in Turn, \/ ClaimWork(t) \/ AwaitPrevious(t) \/ BeginTurn(t)
                             \/ ForkIngestion(t) \/ StartTurn(t) \/ EndWork(t)
                             \/ DecideFailure(t) \/ WriteFailure(t) \/ StopWork(t)
      PROVE  UNCHANGED <<phase, accepted>>
  BY <1>1 DEF ClaimWork, AwaitPrevious, BeginTurn, ForkIngestion, StartTurn, EndWork,
              DecideFailure, WriteFailure, StopWork
<1>2. ASSUME NEW t \in Turn, \/ AcquireLease(t) \/ IngestTurn(t) \/ FinalizeRootRun(t)
                             \/ (\E o \in Outcomes : IngestTerminal(t, o))
                             \/ IdleRelease(t) \/ ReleaseLease(t) \/ Loss(t)
      PROVE  UNCHANGED <<phase, accepted>>
  BY <1>2 DEF AcquireLease, IngestTurn, FinalizeRootRun, IngestTerminal, IdleRelease, ReleaseLease,
              Decide, Loss, StartTurnFails, StartError, StreamFails, FiberDies
<1>3. ASSUME NEW r \in Run, RunStep(r) \/ Suspend(r) PROVE UNCHANGED <<phase, accepted>>
  BY <1>3 DEF RunStep, ClaimCapture, CommitCapture, CaptureFails, LeaseExpires, Renew, Suspend
<1>4. CASE GraceElapses \/ JanitorStep \/ UNCHANGED vars
  BY <1>4 DEF GraceElapses, JanitorStep, JanitorFind, JanitorPrune, JanitorLoad,
              JanitorTerminalize, vars
<1>5. ASSUME NEW r \in Run, \/ BeginMessage(r) \/ BeginRestart(r) \/ BeginInterrupt(r)
                            \/ HandleTerminalRun(r)
      PROVE  UNCHANGED <<phase, accepted>>
  BY <1>5 DEF BeginMessage, BeginRestart, BeginInterrupt, HandleTerminalRun
<1>6. CASE CommitMessage \/ CommitRestart \/ CommitInterrupt \/ CommitPromote \/ CommitRejected
  BY <1>6 DEF CommitMessage, CommitRestart, CommitInterrupt, CommitPromote, CommitRejected
<1> QED
  BY <1>1, <1>2, <1>3, <1>4, <1>5, <1>6 DEF Next, TurnStep, Command

\* A run that ended, or waits for its checkpoint, moves on only to its end, unless
\* a command in the lock restarts it.
LEMMA SettledStays ==
    ASSUME IInv, [Next]_vars, NEW r \in Run, status[r] \in {"waiting"} \cup Terminal,
           held.kind \in {"restart", "promote"} => held.run # r
    PROVE  status'[r] \in {"waiting"} \cup Terminal
<1> DEFINE Settled == {"waiting"} \cup Terminal
<1>1. /\ status \in [Run -> {"none", "queued"} \cup Blocking \cup Terminal]
      /\ "starting" \notin Settled /\ "queued" \notin Settled /\ "none" \notin Settled
      /\ "interrupted" \in Settled /\ "completed" \in Settled /\ "cancelled" \in Settled
      /\ Outcomes \subseteq Settled
  BY DEF IInv, TypeOK, Terminal, Outcomes
<1>2. CASE UNCHANGED status
  BY <1>2
<1>3. ASSUME NEW q \in Run, NEW to, status' = [status EXCEPT ![q] = to],
             to \in Settled \/ status[q] \notin Settled \/ q # r
      PROVE  status'[r] \in Settled
  BY <1>1, <1>3
<1>4. CASE CommitMessage
  <2>1. held.run \in Run /\ status[held.run] = "none" /\ \E to : status' = [status EXCEPT ![held.run] = to]
    BY <1>4 DEF CommitMessage, IInv, HeldInv
  <2> QED
    BY <1>1, <1>3, <2>1
<1>5. CASE CommitRestart \/ CommitPromote
  <2>1. held.run \in Run /\ held.run # r /\ status' = [status EXCEPT ![held.run] = "starting"]
    BY <1>5 DEF CommitRestart, CommitPromote, IInv, HeldInv
  <2> QED
    BY <1>3, <2>1
<1>6. CASE CommitInterrupt
  <2>1. held.run \in Run /\ status' = [status EXCEPT ![held.run] = "interrupted"]
    BY <1>6 DEF CommitInterrupt, IInv, HeldInv
  <2> QED
    BY <1>1, <1>3, <2>1
<1>7. ASSUME NEW t \in Turn, BeginTurn(t) PROVE status'[r] \in Settled
  <2>1. \/ UNCHANGED status
        \/ status[t[1]] = "starting" /\ status' = [status EXCEPT ![t[1]] = "running"]
    BY <1>7 DEF BeginTurn
  <2> QED
    BY <1>1, <1>2, <1>3, <2>1, TurnParts
<1>8. ASSUME NEW t \in Turn, NEW o \in Outcomes, work[t] # "none", WriteFinalRunEvents(t, o)
      PROVE  status'[r] \in Settled
  <2>1. \/ UNCHANGED status
        \/ \E st \in {"waiting"} \cup Outcomes : status' = [status EXCEPT ![t[1]] = st]
    BY <1>8, FinalWrites
  <2> QED
    BY <1>1, <1>2, <1>3, <2>1, TurnParts
<1>9. ASSUME NEW t \in Turn, FinalizeRootRun(t) PROVE status'[r] \in Settled
  <2>1. outcome[t] \in Outcomes /\ work[t] # "none" /\ WriteFinalRunEvents(t, outcome[t])
    BY <1>9 DEF FinalizeRootRun, IInv, WorkInv, TypeOK
  <2> QED
    BY <1>8, <2>1
<1>10. ASSUME NEW t \in Turn, WriteFailure(t) PROVE status'[r] \in Settled
  <2>1. "failed" \in Outcomes /\ work[t] # "none" /\ WriteFinalRunEvents(t, "failed")
    BY <1>10 DEF WriteFailure, IInv, WorkInv, Outcomes
  <2> QED
    BY <1>8, <2>1
<1>11. ASSUME NEW q \in Run, CommitCapture(q) PROVE status'[r] \in Settled
  BY <1>1, <1>2, <1>3, <1>11 DEF CommitCapture
<1>12. ASSUME NEW S, CancelsRuns(S) PROVE status'[r] \in Settled
  BY <1>1, <1>12 DEF CancelsRuns
<1>13. CASE JanitorTerminalize \/ Recover
  BY <1>2, <1>12, <1>13, SweepCommits, Recovers
<1>14. CASE Crash
  BY <1>2, <1>14 DEF Crash
<1>15. CASE ResumeQueuedRuns
  BY <1>1, <1>2, <1>3, <1>15 DEF ResumeQueuedRuns, NextQueuedRun
<1>16. CASE Command
  BY <1>2, <1>4, <1>5, <1>6, <1>16, Readings
<1> QED
  BY <1>2, <1>7, <1>9, <1>10, <1>11, <1>13, <1>14, <1>15, <1>16, Steps

\* A command takes the lock for a run in progress or for a queued one, or is the
\* first of its run.
LEMMA HeldWrites ==
    ASSUME IInv, [Next]_vars, held'.kind \in {"restart", "promote"}
    PROVE  held' = held \/ status[held'.run] \in {"running", "queued"}
<1> DEFINE Goal == held' = held \/ status[held'.run] \in {"running", "queued"}
<1>1. CASE held' = NoCommand
  BY <1>1 DEF NoCommand
<1>2. CASE UNCHANGED <<status, active, attempt, phase, held>>
  BY <1>2
<1>3. ASSUME NEW r \in Run, BeginMessage(r) PROVE FALSE
  <2>1. held'.kind \in {"queue", "start"}
    BY <1>3 DEF BeginMessage
  <2> QED
    BY <2>1
<1>4. ASSUME NEW r \in Run, BeginRestart(r) PROVE Goal
  BY <1>4 DEF BeginRestart
<1>5. ASSUME NEW r \in Run, BeginInterrupt(r) PROVE FALSE
  BY <1>5 DEF BeginInterrupt
<1>6. ASSUME NEW r \in Run, HandleTerminalRun(r) PROVE Goal
  BY <1>6 DEF HandleTerminalRun, NextQueuedRun
<1>7. CASE CommitMessage \/ CommitRestart \/ CommitInterrupt \/ CommitPromote \/ CommitRejected
  BY <1>1, <1>7 DEF CommitMessage, CommitRestart, CommitInterrupt, CommitPromote, CommitRejected
<1>8. CASE Command
  BY <1>3, <1>4, <1>5, <1>6, <1>7, <1>8 DEF Command
<1>9. ASSUME NEW t \in Turn, BeginTurn(t) \/ FinalizeRootRun(t) \/ WriteFailure(t)
      PROVE  held' = held
  BY <1>9 DEF BeginTurn, FinalizeRootRun, WriteFailure
<1>10. ASSUME NEW r \in Run, CommitCapture(r) PROVE held' = held
  BY <1>10 DEF CommitCapture
<1>11. CASE JanitorTerminalize \/ ResumeQueuedRuns \/ Recover
  BY <1>11 DEF JanitorTerminalize, ResumeQueuedRuns, Recover
<1>12. CASE Crash
  BY <1>1, <1>12 DEF Crash
<1> QED
  BY <1>2, <1>8, <1>9, <1>10, <1>11, <1>12, Steps

\* Recovery retires the rows of the runs it ends, and nothing starts them again.
LEMMA AcceptedStep == IInv /\ [Next]_vars => AcceptedInv'
<1> SUFFICES ASSUME IInv, [Next]_vars PROVE AcceptedInv'
  OBVIOUS
<1>1. /\ status \in [Run -> {"none", "queued"} \cup Blocking \cup Terminal]
      /\ slot \in [Turn -> {"idle", "awaiting", "loading", "baseline", "forked", "turning",
                            "stopping", "failing", "failed"}]
      /\ work \in [Turn -> {"none", "pending", "running", "cancelled", "settled"}]
      /\ accepted \subseteq Turn
      /\ \A t \in Turn : t[1] \in Run
  BY TurnParts DEF IInv, TypeOK
<1>2. AcceptedInv
  BY DEF IInv
<1>3. \A t \in Turn : attempt'[t] # "none" => status'[t[1]] # "none"
  BY NewAttempts
<1>4. CASE Crash
  <2>1. /\ accepted' = {t \in Turn : attempt[t] # "none"} /\ phase' = "down"
        /\ status' = status /\ \A t \in Turn : slot'[t] = "idle"
    BY <1>4 DEF Crash
  <2> QED
    BY <1>2, <1>3, <2>1 DEF AcceptedInv, Serving
<1>5. CASE accepted' = accepted
  <2>1. \A t \in accepted' : status'[t[1]] # "none"
    BY <1>1, <1>2, <1>5, RunsAdvance DEF AcceptedInv
  <2>2. CASE ResumeQueuedRuns
    <3>1. ~Serving /\ ~Serving' /\ slot' = slot
      BY <2>2 DEF ResumeQueuedRuns, Serving
    <3> QED
      BY <1>2, <1>3, <2>1, <3>1 DEF AcceptedInv
  <2>3. CASE Recover
    <3> DEFINE runs == {r \in Run : Nonterminal(r) /\ ~ReplayableCapture(r)}
    <3>1. /\ ~Serving /\ Serving' /\ slot' = slot /\ held' = held
          /\ CancelsRuns(runs) /\ work' = RetireWork
      BY <2>3, Recovers DEF Recover, Serving
    <3>2. held'.kind = "none"
      BY <3>1 DEF IInv, HeldInv
    <3>3. ASSUME NEW t \in accepted' PROVE status'[t[1]] \in {"waiting"} \cup Terminal
      <4>1. t[1] \in Run /\ status[t[1]] # "none"
        BY <1>1, <1>2, <1>5, <3>3 DEF AcceptedInv
      <4>2. status'[t[1]] = IF t[1] \in runs THEN "cancelled" ELSE status[t[1]]
        BY <3>1, <4>1 DEF CancelsRuns
      <4>3. t[1] \notin runs => status[t[1]] \in {"waiting"} \cup Terminal
        BY <1>1, <4>1 DEF Nonterminal, ReplayableCapture
      <4> QED
        BY <4>2, <4>3 DEF Terminal
    <3>4. ASSUME NEW t \in accepted'
          PROVE  slot'[t] = "idle" /\ work'[t] \notin {"pending", "running"}
      BY <1>1, <1>2, <1>5, <3>1, <3>4 DEF AcceptedInv, RetireWork
    <3> QED
      BY <1>2, <1>3, <2>1, <3>1, <3>2, <3>3, <3>4 DEF AcceptedInv
  <2>4. CASE phase' = phase /\ ~Serving
    <3>1. ~Serving' /\ \A t \in Turn : slot[t] = "idle"
      BY <1>2, <2>4 DEF AcceptedInv, Serving
    <3>2. \A t \in Turn : slot'[t] = "idle"
      BY <2>4, <3>1, SlotWrites
    <3> QED
      BY <1>3, <2>1, <3>1, <3>2 DEF AcceptedInv
  <2>5. CASE phase' = phase /\ Serving
    <3>1. Serving'
      BY <2>5 DEF Serving
    <3>2. ASSUME NEW t \in accepted'
          PROVE  /\ status'[t[1]] \in {"waiting"} \cup Terminal
                 /\ slot'[t] = "idle" /\ work'[t] \notin {"pending", "running"}
                 /\ held'.kind \in {"restart", "promote"} => held'.run # t[1]
      <4>1. /\ t \in Turn /\ t[1] \in Run
            /\ status[t[1]] \in {"waiting"} \cup Terminal
            /\ slot[t] = "idle" /\ work[t] \notin {"pending", "running"}
            /\ held.kind \in {"restart", "promote"} => held.run # t[1]
        BY <1>1, <1>2, <1>5, <2>5, <3>2 DEF AcceptedInv
      <4>2. status'[t[1]] \in {"waiting"} \cup Terminal
        BY <4>1, SettledStays
      <4>3. slot'[t] = "idle"
        BY <4>1, SlotWrites
      <4>4. held'.kind \in {"restart", "promote"} => held'.run # t[1]
        BY <4>1, HeldWrites DEF Terminal, Outcomes
      <4>5. work'[t] \notin {"pending", "running"}
        <5>1. status'[t[1]] # "starting"
          BY <4>2 DEF Terminal, Outcomes
        <5>2. CASE work' = work \/ work' = RetireWork
          BY <4>1, <5>2 DEF RetireWork
        <5>3. ASSUME NEW u \in Turn, NEW w, work' = [work EXCEPT ![u] = w], u # t
              PROVE  work'[t] = work[t]
          BY <1>1, <4>1, <5>3
        <5> QED
          BY <4>1, <5>1, <5>2, <5>3, WorkWrites
      <4> QED
        BY <4>2, <4>3, <4>4, <4>5
    <3> QED
      BY <1>3, <2>1, <3>1, <3>2 DEF AcceptedInv
  <2> QED
    BY <2>2, <2>3, <2>4, <2>5, PhaseMoves, <1>4 DEF Crash, Serving
<1> QED
  BY <1>4, <1>5, PhaseMoves DEF ResumeQueuedRuns, Recover

-----------------------------------------------------------------------------
\* The inductive invariant holds in every reachable state, for any number of runs
\* and attempts and any budget of losses, suspensions and crashes.
THEOREM InductiveInvariant == Spec => []IInv
<1>1. IInv /\ [Next]_vars => IInv'
  BY TypeStep, HeldStep, SweepStep, WorkStep, AttemptStep, AcceptedStep, LeaseStep, RunsAdvance DEF IInv
<1> QED
  BY InitInv, <1>1, PTL DEF Spec

\* Every variable keeps its type.
THEOREM TypeCorrect == Spec => []TypeOK
<1>1. IInv => TypeOK
  BY DEF IInv
<1> QED
  BY InductiveInvariant, <1>1, PTL

\* A thread works on one run at a time: whatever messages, restarts, promotions of
\* queued runs and boots interleave with the worker, the fibers and the janitor.
THEOREM ThreadRunsOne == Spec => []OneBlockingRun
<1>1. IInv => OneBlockingRun
  BY DEF IInv
<1> QED
  BY InductiveInvariant, <1>1, PTL

\* A run that ended keeps its status: every write that read it before it ended is
\* refused by the lifecycle gate.
THEOREM RunsStayEnded == Spec => EndedRunsStayEnded
<1>1. IInv /\ [Next]_vars => [\A r \in Run : status[r] \in Terminal => status'[r] = status[r]]_vars
  BY RunsAdvance
<1> QED
  BY InductiveInvariant, <1>1, PTL DEF Spec, EndedRunsStayEnded

\* Neither a superseded fiber's final write nor a sweep that loaded the run before a
\* restart moves the run back: each writes the superseded attempt as ended too, and
\* the gate refuses that, and the run's activeAttemptId with it.
THEOREM AttemptsAdvance == Spec => AttemptNeverGoesBack
<1>1. IInv /\ [Next]_vars => [\A r \in Run : active'[r] >= active[r]]_vars
  BY RunsAdvance
<1> QED
  BY InductiveInvariant, <1>1, PTL DEF Spec, AttemptNeverGoesBack

\* "The lease is held (and renewed) exactly as long as this fiber is alive": true of
\* a run that was never restarted, as long as the machine never slept; the shared
\* row of a restarted run is what breaks it.
THEOREM UndisturbedLease == Spec => []UndisturbedFiberHoldsLease
<1>1. IInv => UndisturbedFiberHoldsLease
  BY DEF IInv
<1> QED
  BY InductiveInvariant, <1>1, PTL

\* A turn accepted before a loss of the process is never executed by the effect
\* worker of a later one: recovery retires its row before the worker serves.
THEOREM NothingIsReplayed == Spec => []RestartReplaysNothing
<1>1. IInv => RestartReplaysNothing
  BY DEF IInv, AcceptedInv, RestartReplaysNothing
<1> QED
  BY InductiveInvariant, <1>1, PTL
=============================================================================
