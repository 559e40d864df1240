----------------------- MODULE ProviderSessionsProofs -----------------------
(***************************************************************************)
(* That a session is not released as idle while its runtime executes a      *)
(* turn, that a turn is answered, and that live runtimes are in the map,    *)
(* for any number of clients, runtimes, timers and disturbances.            *)
(*                                                                         *)
(* The invariant says which runtime a client may still hold: one that was   *)
(* handed out and is alive is the one in the map.                           *)
(***************************************************************************)
EXTENDS ProviderSessions, FiniteSetTheorems, TLAPS

EntryRecord == [rt : 0 .. MaxRuntimes, gen : Nat, busy : Nat,
                timer : 0 .. MaxTimers, pinned : 0 .. MaxPins]
TimerRecord == [stage : {"free", "sleeping", "probing"}, gen : Nat,
                rt : 0 .. MaxRuntimes, pinned : 0 .. MaxPins, stale : BOOLEAN]
PumpRecord == [on : BOOLEAN, busy : BOOLEAN, event : SUBSET Client]
Steps == {"idle", "opening", "recording", "attaching", "touching", "ready",
          "starting", "failing", "running", "done"}

\* The parts of TypeOK.
EntryOK == entry \in EntryRecord
TimersOK == timer \in [Timer -> TimerRecord] /\ plan \in [Client \cup Runtime -> Nat]
RuntimesOK ==
    /\ adapter \in [Runtime -> {"none", "opening", "live", "closing", "closed"}]
    /\ native \in [Runtime -> SUBSET Client]
    /\ inbox \in [Runtime -> SUBSET Client]
    /\ pump \in [Runtime -> PumpRecord]
    /\ subs \in [Runtime -> SUBSET Client]
    /\ persisted \in {"none", "ready", "stopped"}
ClientsOK ==
    /\ pc \in [Client -> Steps]
    /\ rt \in [Client -> 0 .. MaxRuntimes]
    /\ counted \in [Client -> 0 .. MaxRuntimes]

\* Clients with a runtime in their hands, and those that have not asked for a turn.
Handed == {"recording", "attaching", "touching", "ready", "starting", "failing", "running"}
NotStarted == {"idle", "opening", "recording", "attaching", "touching", "ready"}
Opened == {"live", "closing", "closed"}

\* One client in the session's open lock.
LockInv == \A c, d \in Client : pc[c] \in InOpen /\ pc[d] \in InOpen => c = d

\* The map's runtime is alive, and it is the only one alive that a client was handed.
OwnerInv ==
    /\ entry.rt # 0 => adapter[entry.rt] = "live"
    /\ \A c \in Client :
          /\ pc[c] = "opening" => entry.rt = 0 /\ rt[c] # 0 /\ adapter[rt[c]] = "opening"
          /\ pc[c] \in Handed =>
                /\ rt[c] # 0 /\ adapter[rt[c]] \in Opened
                /\ adapter[rt[c]] = "live" => entry.rt = rt[c]
          /\ pc[c] = "recording" => entry.rt \in {0, rt[c]}

\* A turn is in one place: none before it was started, then with its runtime or
\* as the event of its end.
PlaceInv ==
    \A c \in Client, r \in Runtime :
        /\ c \in native[r] \cup inbox[r] => pc[c] \in {"running", "done"}
        /\ c \in native[r] =>
              /\ adapter[r] \in Opened
              /\ \A q \in Runtime : (c \in native[q] => q = r) /\ c \notin inbox[q]

\* A turn that starts or runs on a live runtime is counted in it.
CountedInv ==
    /\ \A c \in Client :
          /\ pc[c] \in NotStarted => counted[c] = 0
          /\ counted[c] # 0 => adapter[counted[c]] \in Opened
          /\ pc[c] = "starting" /\ adapter[rt[c]] = "live" => counted[c] = rt[c]
    /\ \A c \in Client, r \in Runtime :
          c \in native[r] /\ adapter[r] = "live" => counted[c] = r

\* The map's runtime has its pump, once it is recorded; a turn whose reader
\* is subscribed is with the map's runtime or on its way through the pump.
PumpsRest == \A r \in Runtime : ~pump[r].busy => pump[r].event = {}
PumpRuns ==
    entry.rt # 0 /\ ~interrupted =>
        /\ pump[entry.rt].on \/ \E d \in Client : pc[d] = "recording"
        /\ \A c \in Client :
              pc[c] \in Handed \ {"recording"} /\ rt[c] = entry.rt => pump[entry.rt].on
TurnsWaitedFor ==
    \A c \in Client :
        pc[c] = "running" /\ c \in subs[rt[c]] =>
            /\ entry.rt = rt[c]
            /\ c \in native[rt[c]] \cup inbox[rt[c]] \cup pump[rt[c]].event
PumpInv == PumpsRest /\ PumpRuns /\ TurnsWaitedFor

\* Nothing is closing behind a session that was opened after the last one had
\* closed, and it is recorded before anybody else is handed it.
RecordInv ==
    ~outrun =>
        /\ entry.rt # 0 \/ (\E c \in Client : pc[c] = "opening") =>
              \A r \in Runtime : adapter[r] # "closing"
        /\ ~interrupted /\ entry.rt # 0 =>
              /\ persisted = "ready" \/ \E d \in Client : pc[d] = "recording"
              /\ \A c \in Client :
                    pc[c] \in Handed \ {"recording"} /\ rt[c] = entry.rt => persisted = "ready"

\* An idle session's registered fiber waits for its generation, and has probed no
\* other runtime, or a rescheduling is under way.
TimedInv ==
    Schedules(entry) /\ ~interrupted =>
        \/ /\ Waiting(entry.timer)
           /\ timer[entry.timer].gen = entry.gen
           /\ timer[entry.timer].stage = "probing" => timer[entry.timer].rt = entry.rt
        \/ \E p \in Client \cup Runtime : plan[p] # 0
        \/ \E c \in Client : pc[c] = "recording"

\* The registered fiber is the only one that waits, and every use interrupts it.
FreshInv ==
    /\ entry.rt = 0 => entry.timer = None
    /\ ~overtaken =>
          \A i \in Timer : timer[i].stage # "free" => entry.timer = i /\ ~timer[i].stale

\* busyCount is the number of the turns counted in the map's runtime.
TurnsCounted == {c \in Client : entry.rt # 0 /\ counted[c] = entry.rt}

\* The inductive invariant.
IInv ==
    /\ EntryOK /\ TimersOK /\ RuntimesOK /\ ClientsOK
    /\ LockInv /\ OwnerInv /\ PlaceInv /\ CountedInv /\ PumpInv /\ RecordInv
    /\ TimedInv /\ FreshInv
    /\ LiveRuntimesAreOwned /\ BusyCountIsTurns

-----------------------------------------------------------------------------

\* Updates of records that keep their types.
LEMMA PumpUpdated ==
  ASSUME NEW q \in PumpRecord, NEW b \in BOOLEAN, NEW E \in SUBSET Client
  PROVE  [q EXCEPT !.busy = b, !.event = E] \in PumpRecord
BY DEF PumpRecord

LEMMA PumpSwitched ==
  ASSUME NEW q \in PumpRecord, NEW b \in BOOLEAN
  PROVE  [q EXCEPT !.on = b] \in PumpRecord
BY DEF PumpRecord

LEMMA EntryUpdated ==
  ASSUME NEW e \in EntryRecord, NEW n \in Nat, NEW k \in 0 .. MaxTimers, NEW m \in 0 .. MaxPins
  PROVE  [e EXCEPT !.busy = n, !.timer = k, !.pinned = m] \in EntryRecord
BY DEF EntryRecord

LEMMA TimerUpdated ==
  ASSUME NEW t \in TimerRecord, NEW a \in {"free", "sleeping", "probing"},
         NEW q \in 0 .. MaxRuntimes, NEW m \in 0 .. MaxPins
  PROVE  [t EXCEPT !.stage = a, !.rt = q, !.pinned = m] \in TimerRecord
BY DEF TimerRecord

LEMMA TimerForked ==
  ASSUME NEW t \in TimerRecord, NEW a \in {"free", "sleeping", "probing"}, NEW g \in Nat
  PROVE  [t EXCEPT !.stage = a, !.gen = g] \in TimerRecord
BY DEF TimerRecord

\* A decremented busy count changes nothing else of the entry.
LEMMA UnbusiedEntry ==
  ASSUME EntryOK
  PROVE  /\ Unbusied \in EntryRecord /\ Unbusied.rt = entry.rt
         /\ Unbusied.busy = IF entry.busy = 0 THEN 0 ELSE entry.busy - 1
BY DEF EntryOK, EntryRecord, Unbusied

\* Interrupting an idle fiber, beginning a rescheduling and ending it keep the
\* types of the timers; the last keeps the entry's runtime and busy count, too.
LEMMA Cancelled ==
  ASSUME timer \in [Timer -> TimerRecord], NEW i, CancelIdleFiber(i)
  PROVE  timer' \in [Timer -> TimerRecord]
<1>1. NoTimer \in TimerRecord
  BY SessionsAssumption DEF NoTimer, TimerRecord
<1>2. \A j \in Timer : [timer[j] EXCEPT !.stale = TRUE] \in TimerRecord
  BY DEF TimerRecord
<1> QED
  BY <1>1, <1>2 DEF CancelIdleFiber

LEMMA Scheduled ==
  ASSUME TimersOK, NEW p \in Client \cup Runtime, NEW e \in EntryRecord, BeginSchedule(p, e)
  PROVE  TimersOK'
<1>1. CASE UNCHANGED <<timer, plan>>
  BY <1>1 DEF TimersOK
<1>2. CASE CancelIdleFiber(e.timer) /\ plan' = [plan EXCEPT ![p] = e.gen + 1]
  <2>1. timer' \in [Timer -> TimerRecord]
    BY <1>2, Cancelled DEF TimersOK
  <2>2. e.gen + 1 \in Nat
    BY DEF EntryRecord
  <2> QED
    BY <1>2, <2>1, <2>2 DEF TimersOK
<1> QED
  BY <1>1, <1>2 DEF BeginSchedule

LEMMA Armed ==
  ASSUME TimersOK, EntryOK, NEW p \in Client \cup Runtime, ArmIdleRelease(p)
  PROVE  TimersOK' /\ EntryOK' /\ entry'.rt = entry.rt /\ entry'.busy = entry.busy
<1>1. PICK i \in Timer :
         /\ timer' = [timer EXCEPT ![i] = Asleep(plan[p])]
         /\ plan' = [plan EXCEPT ![p] = 0]
         /\ entry' = IF Schedules(entry)
                     THEN [entry EXCEPT !.gen = plan[p], !.timer = i] ELSE entry
  BY DEF ArmIdleRelease
<1>2. plan[p] \in Nat /\ i \in 0 .. MaxTimers
  BY SessionsAssumption DEF TimersOK, Timer
<1>3. Asleep(plan[p]) \in TimerRecord
  <2>1. NoTimer \in TimerRecord
    BY SessionsAssumption DEF NoTimer, TimerRecord
  <2> QED
    BY <1>2, <2>1, TimerForked DEF Asleep
<1>4. TimersOK'
  BY <1>1, <1>3 DEF TimersOK
<1>5. CASE Schedules(entry)
  BY <1>1, <1>2, <1>4, <1>5 DEF EntryOK, EntryRecord
<1>6. CASE ~Schedules(entry)
  BY <1>1, <1>4, <1>6 DEF EntryOK
<1> QED
  BY <1>5, <1>6

\* Each step keeps the types of the clients.
LEMMA ClientsStayTyped ==
  ASSUME ClientsOK, EntryOK, [Next]_vars
  PROVE  ClientsOK'
<1> USE SessionsAssumption DEF Runtime, None, sessionVars, runtimeVars, clientVars, historyVars
<1>1. ASSUME NEW c \in Client, Open(c)
      PROVE  ClientsOK'
  BY <1>1 DEF Open, Touch, Go, ClientsOK, Steps, EntryOK, EntryRecord
<1>2. ASSUME NEW c \in Client, Attached(c)
      PROVE  ClientsOK'
  BY <1>2 DEF Attached, Touch, Go, ClientsOK, Steps
<1>3. ASSUME NEW c \in Client, AttachFails(c)
      PROVE  ClientsOK'
  BY <1>3 DEF AttachFails, Leave, Go, ClientsOK, Steps
<1>4. ASSUME NEW c \in Client, OpenFails(c)
      PROVE  ClientsOK'
  BY <1>4 DEF OpenFails, Leave, Go, ClientsOK, Steps
<1>5. ASSUME NEW c \in Client, OpenSession(c)
      PROVE  ClientsOK'
  BY <1>5 DEF OpenSession, Go, ClientsOK, Steps
<1>6. ASSUME NEW c \in Client, RecordSession(c)
      PROVE  ClientsOK'
  BY <1>6 DEF RecordSession, Touch, Go, ClientsOK, Steps
<1>7. ASSUME NEW c \in Client, RecordFails(c)
      PROVE  ClientsOK'
  BY <1>7 DEF RecordFails, Leave, Go, ClientsOK, Steps
<1>8. ASSUME NEW c \in Client, Touched(c)
      PROVE  ClientsOK'
  BY <1>8 DEF Touched, Go, Leave, ClientsOK, Steps
<1>9. ASSUME NEW c \in Client, MarkBusy(c)
      PROVE  ClientsOK'
  BY <1>9 DEF MarkBusy, Go, ClientsOK, Steps, EntryOK, EntryRecord
<1>10. ASSUME NEW c \in Client, StartTurn(c)
       PROVE  ClientsOK'
  BY <1>10 DEF StartTurn, Go, ClientsOK, Steps
<1>11. ASSUME NEW c \in Client, StartFails(c)
       PROVE  ClientsOK'
  BY <1>11 DEF StartFails, CountDown, Go, Leave, ClientsOK, Steps
<1>12. ASSUME NEW c \in Client, TurnAnswered(c)
       PROVE  ClientsOK'
  BY <1>12 DEF TurnAnswered, Leave, Go, ClientsOK, Steps
<1>13. ASSUME NEW c \in Client, Interrupted(c)
       PROVE  ClientsOK'
  BY <1>13 DEF Interrupted, Leave, Go, ClientsOK, Steps
<1>14. ASSUME NEW i \in Timer, IdleWindowEnds(i)
       PROVE  ClientsOK'
  BY <1>14 DEF IdleWindowEnds, ClientsOK
<1>15. ASSUME NEW i \in Timer, DeferIdleRelease(i)
       PROVE  ClientsOK'
  BY <1>15 DEF DeferIdleRelease, ClientsOK
<1>16. ASSUME NEW i \in Timer, IdleRelease(i)
       PROVE  ClientsOK'
  BY <1>16 DEF IdleRelease, ClientsOK
<1>17. ASSUME NEW r \in Runtime, NEW c \in Client, PumpTerminal(r, c)
       PROVE  ClientsOK'
  BY <1>17 DEF PumpTerminal, CountDown, ClientsOK
<1>18. ASSUME NEW r \in Runtime, PumpTouched(r)
       PROVE  ClientsOK'
  BY <1>18 DEF PumpTouched, ClientsOK
<1>19. ASSUME NEW r \in Runtime, PumpOther(r)
       PROVE  ClientsOK'
  BY <1>19 DEF PumpOther, ClientsOK
<1>20. ASSUME NEW r \in Runtime, StreamEnds(r)
       PROVE  ClientsOK'
  BY <1>20 DEF StreamEnds, ClientsOK
<1>21. ASSUME NEW r \in Runtime, Closed(r)
       PROVE  ClientsOK'
  BY <1>21 DEF Closed, ClientsOK
<1>22. ASSUME NEW r \in Runtime, NEW c \in Client, TurnEnds(r, c)
       PROVE  ClientsOK'
  BY <1>22 DEF TurnEnds, ClientsOK
<1>23. ASSUME Close
       PROVE  ClientsOK'
  BY <1>23 DEF Close, ClientsOK
<1>24. CASE UNCHANGED vars
  BY <1>24 DEF vars, ClientsOK
<1> QED
  BY <1>1, <1>2, <1>3, <1>4, <1>5, <1>6, <1>7, <1>8, <1>9, <1>10, <1>11, <1>12, <1>13,
     <1>14, <1>15, <1>16, <1>17, <1>18, <1>19, <1>20, <1>21, <1>22, <1>23, <1>24 DEF Next,
     ClientStep, TimerStep, PumpStep

\* Each step keeps the types of the runtimes and their pumps.
LEMMA RuntimesStayTyped ==
  ASSUME RuntimesOK, ClientsOK, EntryOK, [Next]_vars
  PROVE  RuntimesOK'
<1> USE SessionsAssumption DEF Runtime, None, sessionVars, runtimeVars, clientVars, historyVars
<1>1. ASSUME NEW c \in Client, Open(c)
      PROVE  RuntimesOK'
  BY <1>1 DEF Open, RuntimesOK
<1>2. ASSUME NEW c \in Client, Attached(c)
      PROVE  RuntimesOK'
  BY <1>2 DEF Attached, RuntimesOK
<1>3. ASSUME NEW c \in Client, AttachFails(c)
      PROVE  RuntimesOK'
  BY <1>3 DEF AttachFails, RuntimesOK
<1>4. ASSUME NEW c \in Client, OpenFails(c)
      PROVE  RuntimesOK'
  BY <1>4 DEF OpenFails, RuntimesOK
<1>5. ASSUME NEW c \in Client, OpenSession(c)
      PROVE  RuntimesOK'
  BY <1>5 DEF OpenSession, RuntimesOK
<1>6. ASSUME NEW c \in Client, RecordSession(c)
      PROVE  RuntimesOK'
  <2>1. pump' = [pump EXCEPT ![rt[c]] = [pump[rt[c]] EXCEPT !.on = TRUE]]
    BY <1>6 DEF RecordSession
  <2>2. pump' \in [Runtime -> PumpRecord]
    BY <2>1, PumpSwitched DEF RuntimesOK
  <2> QED
    BY <1>6, <2>2 DEF RecordSession, RuntimesOK
<1>7. ASSUME NEW c \in Client, RecordFails(c)
      PROVE  RuntimesOK'
  BY <1>7 DEF RecordFails, Remove, RuntimesOK
<1>8. ASSUME NEW c \in Client, Touched(c)
      PROVE  RuntimesOK'
  BY <1>8 DEF Touched, RuntimesOK
<1>9. ASSUME NEW c \in Client, MarkBusy(c)
      PROVE  RuntimesOK'
  BY <1>9 DEF MarkBusy, RuntimesOK, EntryOK, EntryRecord
<1>10. ASSUME NEW c \in Client, StartTurn(c)
       PROVE  RuntimesOK'
  BY <1>10 DEF StartTurn, RuntimesOK, PumpRecord
<1>11. ASSUME NEW c \in Client, StartFails(c)
       PROVE  RuntimesOK'
  BY <1>11 DEF StartFails, RuntimesOK
<1>12. ASSUME NEW c \in Client, TurnAnswered(c)
       PROVE  RuntimesOK'
  BY <1>12 DEF TurnAnswered, RuntimesOK
<1>13. ASSUME NEW c \in Client, Interrupted(c)
       PROVE  RuntimesOK'
  <2>1. UNCHANGED <<inbox, pump, persisted>>
    BY <1>13 DEF Interrupted
  <2>2. adapter' \in [Runtime -> {"none", "opening", "live", "closing", "closed"}]
    BY <1>13 DEF Interrupted, RuntimesOK
  <2>3. native' \in [Runtime -> SUBSET Client]
    <3>1. CASE native' = [native EXCEPT ![rt[c]] = @ \cup {c}]
      BY <3>1 DEF RuntimesOK
    <3>2. CASE UNCHANGED native
      BY <3>2 DEF RuntimesOK
    <3> QED
      BY <1>13, <3>1, <3>2 DEF Interrupted
  <2>4. subs' \in [Runtime -> SUBSET Client]
    BY <1>13 DEF Interrupted, RuntimesOK
  <2> QED
    BY <2>1, <2>2, <2>3, <2>4 DEF RuntimesOK
<1>14. ASSUME NEW i \in Timer, IdleWindowEnds(i)
       PROVE  RuntimesOK'
  BY <1>14 DEF IdleWindowEnds, RuntimesOK
<1>15. ASSUME NEW i \in Timer, DeferIdleRelease(i)
       PROVE  RuntimesOK'
  BY <1>15 DEF DeferIdleRelease, RuntimesOK
<1>16. ASSUME NEW i \in Timer, IdleRelease(i)
       PROVE  RuntimesOK'
  BY <1>16 DEF IdleRelease, Remove, RuntimesOK
<1>17. ASSUME NEW r \in Runtime, NEW c \in Client, PumpTerminal(r, c)
       PROVE  RuntimesOK'
  <2>1. UNCHANGED <<adapter, native, persisted>>
    BY <1>17 DEF PumpTerminal
  <2>2. inbox' \in [Runtime -> SUBSET Client]
    BY <1>17 DEF PumpTerminal, RuntimesOK
  <2>3. CASE pump' = [pump EXCEPT ![r].busy = TRUE, ![r].event = {c}] /\ UNCHANGED subs
    <3>1. pump' = [pump EXCEPT ![r] = [pump[r] EXCEPT !.busy = TRUE, !.event = {c}]]
      BY <2>3
    <3>2. [pump[r] EXCEPT !.busy = TRUE, !.event = {c}] \in PumpRecord
      BY PumpUpdated DEF RuntimesOK
    <3>3. pump' \in [Runtime -> PumpRecord]
      BY <3>1, <3>2 DEF RuntimesOK
    <3> QED
      BY <2>1, <2>2, <2>3, <3>3 DEF RuntimesOK
  <2>4. CASE UNCHANGED pump /\ subs' = [subs EXCEPT ![r] = @ \ {c}]
    BY <2>1, <2>2, <2>4 DEF RuntimesOK
  <2> QED
    BY <1>17, <2>3, <2>4 DEF PumpTerminal, HoldOrPublish, Publish
<1>18. ASSUME NEW r \in Runtime, PumpTouched(r)
       PROVE  RuntimesOK'
  <2>1. UNCHANGED <<adapter, native, inbox, persisted>>
    BY <1>18 DEF PumpTouched
  <2>2. pump' = [pump EXCEPT ![r] = [pump[r] EXCEPT !.busy = FALSE, !.event = {}]]
    BY <1>18 DEF PumpTouched
  <2>3. pump' \in [Runtime -> PumpRecord]
    BY <2>2, PumpUpdated DEF RuntimesOK
  <2>4. subs' \in [Runtime -> SUBSET Client]
    BY <1>18 DEF PumpTouched, Publish, RuntimesOK
  <2> QED
    BY <2>1, <2>3, <2>4 DEF RuntimesOK
<1>19. ASSUME NEW r \in Runtime, PumpOther(r)
       PROVE  RuntimesOK'
  <2>1. UNCHANGED <<adapter, native, inbox, persisted>>
    BY <1>19 DEF PumpOther
  <2>2. CASE pump' = [pump EXCEPT ![r].busy = TRUE, ![r].event = {}] /\ UNCHANGED subs
    <3>1. pump' = [pump EXCEPT ![r] = [pump[r] EXCEPT !.busy = TRUE, !.event = {}]]
      BY <2>2
    <3>2. [pump[r] EXCEPT !.busy = TRUE, !.event = {}] \in PumpRecord
      BY PumpUpdated DEF RuntimesOK
    <3>3. pump' \in [Runtime -> PumpRecord]
      BY <3>1, <3>2 DEF RuntimesOK
    <3> QED
      BY <2>1, <2>2, <3>3 DEF RuntimesOK
  <2>3. CASE UNCHANGED pump /\ subs' = [subs EXCEPT ![r] = @ \ {}]
    BY <2>1, <2>3 DEF RuntimesOK
  <2> QED
    BY <1>19, <2>2, <2>3 DEF PumpOther, HoldOrPublish, Publish
<1>20. ASSUME NEW r \in Runtime, StreamEnds(r)
       PROVE  RuntimesOK'
  <2>1. UNCHANGED persisted /\ pump' = [pump EXCEPT ![r] = [pump[r] EXCEPT !.on = FALSE]]
    BY <1>20 DEF StreamEnds
  <2>2. pump' \in [Runtime -> PumpRecord]
    BY <2>1, PumpSwitched DEF RuntimesOK
  <2>3. native' \in [Runtime -> SUBSET Client] /\ inbox' \in [Runtime -> SUBSET Client]
    BY <1>20 DEF StreamEnds, RuntimesOK
  <2>4. subs' \in [Runtime -> SUBSET Client]
    BY <1>20 DEF StreamEnds, Remove, RuntimesOK
  <2>5. adapter' \in [Runtime -> {"none", "opening", "live", "closing", "closed"}]
    BY <1>20 DEF StreamEnds, Remove, RuntimesOK
  <2> QED
    BY <2>1, <2>2, <2>3, <2>4, <2>5 DEF RuntimesOK
<1>21. ASSUME NEW r \in Runtime, Closed(r)
       PROVE  RuntimesOK'
  BY <1>21 DEF Closed, RuntimesOK
<1>22. ASSUME NEW r \in Runtime, NEW c \in Client, TurnEnds(r, c)
       PROVE  RuntimesOK'
  BY <1>22 DEF TurnEnds, RuntimesOK
<1>23. ASSUME Close
       PROVE  RuntimesOK'
  BY <1>23 DEF Close, Remove, RuntimesOK
<1>24. CASE UNCHANGED vars
  BY <1>24 DEF vars, RuntimesOK
<1> QED
  BY <1>1, <1>2, <1>3, <1>4, <1>5, <1>6, <1>7, <1>8, <1>9, <1>10, <1>11, <1>12, <1>13,
     <1>14, <1>15, <1>16, <1>17, <1>18, <1>19, <1>20, <1>21, <1>22, <1>23, <1>24 DEF Next,
     ClientStep, TimerStep, PumpStep

\* Each step keeps the type of the map's entry.
LEMMA EntryStaysTyped ==
  ASSUME EntryOK, TimersOK, ClientsOK, [Next]_vars
  PROVE  EntryOK'
<1> USE SessionsAssumption DEF Runtime, None, sessionVars, runtimeVars, clientVars, historyVars
<1>1. ASSUME NEW c \in Client, Open(c)
      PROVE  EntryOK'
  BY <1>1 DEF Open, EntryOK
<1>2. ASSUME NEW c \in Client, Attached(c)
      PROVE  EntryOK'
  BY <1>2 DEF Attached, EntryOK
<1>3. ASSUME NEW c \in Client, AttachFails(c)
      PROVE  EntryOK'
  BY <1>3 DEF AttachFails, EntryOK
<1>4. ASSUME NEW c \in Client, OpenFails(c)
      PROVE  EntryOK'
  BY <1>4 DEF OpenFails, EntryOK
<1>5. ASSUME NEW c \in Client, OpenSession(c)
      PROVE  EntryOK'
  BY <1>5 DEF OpenSession, NoEntry, EntryOK, EntryRecord, ClientsOK
<1>6. ASSUME NEW c \in Client, RecordSession(c)
      PROVE  EntryOK'
  BY <1>6 DEF RecordSession, EntryOK
<1>7. ASSUME NEW c \in Client, RecordFails(c)
      PROVE  EntryOK'
  BY <1>7 DEF RecordFails, Remove, NoEntry, EntryOK, EntryRecord
<1>8. ASSUME NEW c \in Client, Touched(c)
      PROVE  EntryOK'
  BY <1>8, Armed DEF Touched
<1>9. ASSUME NEW c \in Client, MarkBusy(c)
      PROVE  EntryOK'
  <2>1. CASE entry.rt = 0
    BY <1>9, <2>1 DEF MarkBusy, EntryOK
  <2>2. CASE entry.rt # 0
    <3>1. entry' = [entry EXCEPT !.busy = entry.busy + 1, !.timer = None, !.pinned = 0]
      BY <1>9, <2>2 DEF MarkBusy
    <3>2. entry.busy + 1 \in Nat /\ None \in 0 .. MaxTimers /\ 0 \in 0 .. MaxPins
      BY DEF EntryOK, EntryRecord
    <3> QED
      BY <3>1, <3>2, EntryUpdated DEF EntryOK
  <2> QED
    BY <2>1, <2>2
<1>10. ASSUME NEW c \in Client, StartTurn(c)
       PROVE  EntryOK'
  BY <1>10 DEF StartTurn, EntryOK
<1>11. ASSUME NEW c \in Client, StartFails(c)
       PROVE  EntryOK'
  BY <1>11 DEF StartFails, CountDown, Unbusied, EntryOK, EntryRecord
<1>12. ASSUME NEW c \in Client, TurnAnswered(c)
       PROVE  EntryOK'
  BY <1>12 DEF TurnAnswered, EntryOK
<1>13. ASSUME NEW c \in Client, Interrupted(c)
       PROVE  EntryOK'
  BY <1>13 DEF Interrupted, EntryOK
<1>14. ASSUME NEW i \in Timer, IdleWindowEnds(i)
       PROVE  EntryOK'
  BY <1>14 DEF IdleWindowEnds, EntryOK
<1>15. ASSUME NEW i \in Timer, DeferIdleRelease(i)
       PROVE  EntryOK'
  BY <1>15 DEF DeferIdleRelease, EntryOK, EntryRecord, TimersOK, TimerRecord
<1>16. ASSUME NEW i \in Timer, IdleRelease(i)
       PROVE  EntryOK'
  BY <1>16 DEF IdleRelease, Remove, NoEntry, EntryOK, EntryRecord
<1>17. ASSUME NEW r \in Runtime, NEW c \in Client, PumpTerminal(r, c)
       PROVE  EntryOK'
  BY <1>17 DEF PumpTerminal, CountDown, Unbusied, EntryOK, EntryRecord
<1>18. ASSUME NEW r \in Runtime, PumpTouched(r)
       PROVE  EntryOK'
  BY <1>18, Armed DEF PumpTouched
<1>19. ASSUME NEW r \in Runtime, PumpOther(r)
       PROVE  EntryOK'
  BY <1>19 DEF PumpOther, EntryOK
<1>20. ASSUME NEW r \in Runtime, StreamEnds(r)
       PROVE  EntryOK'
  BY <1>20 DEF StreamEnds, Remove, NoEntry, EntryOK, EntryRecord
<1>21. ASSUME NEW r \in Runtime, Closed(r)
       PROVE  EntryOK'
  BY <1>21 DEF Closed, EntryOK
<1>22. ASSUME NEW r \in Runtime, NEW c \in Client, TurnEnds(r, c)
       PROVE  EntryOK'
  BY <1>22 DEF TurnEnds, EntryOK
<1>23. ASSUME Close
       PROVE  EntryOK'
  BY <1>23 DEF Close, Remove, NoEntry, EntryOK, EntryRecord
<1>24. CASE UNCHANGED vars
  BY <1>24 DEF vars, EntryOK
<1> QED
  BY <1>1, <1>2, <1>3, <1>4, <1>5, <1>6, <1>7, <1>8, <1>9, <1>10, <1>11, <1>12, <1>13,
     <1>14, <1>15, <1>16, <1>17, <1>18, <1>19, <1>20, <1>21, <1>22, <1>23, <1>24 DEF Next,
     ClientStep, TimerStep, PumpStep

\* Each step keeps the types of the idle fibers.
LEMMA TimersStayTyped ==
  ASSUME EntryOK, TimersOK, [Next]_vars
  PROVE  TimersOK'
<1> USE SessionsAssumption DEF Runtime, None, sessionVars, runtimeVars, clientVars, historyVars
<1>1. ASSUME NEW c \in Client, Open(c)
      PROVE  TimersOK'
  <2>1. BeginSchedule(c, entry) \/ UNCHANGED <<timer, plan>>
    BY <1>1 DEF Open, Touch
  <2>2. CASE BeginSchedule(c, entry)
    BY <2>2, Scheduled DEF EntryOK
  <2>3. CASE UNCHANGED <<timer, plan>>
    BY <2>3 DEF TimersOK
  <2> QED
    BY <2>1, <2>2, <2>3
<1>2. ASSUME NEW c \in Client, Attached(c)
      PROVE  TimersOK'
  <2>1. BeginSchedule(c, entry)
    BY <1>2 DEF Attached, Touch
  <2> QED
    BY <2>1, Scheduled DEF EntryOK
<1>3. ASSUME NEW c \in Client, AttachFails(c)
      PROVE  TimersOK'
  BY <1>3 DEF AttachFails, TimersOK
<1>4. ASSUME NEW c \in Client, OpenFails(c)
      PROVE  TimersOK'
  BY <1>4 DEF OpenFails, TimersOK
<1>5. ASSUME NEW c \in Client, OpenSession(c)
      PROVE  TimersOK'
  BY <1>5 DEF OpenSession, TimersOK
<1>6. ASSUME NEW c \in Client, RecordSession(c)
      PROVE  TimersOK'
  <2>1. BeginSchedule(c, entry)
    BY <1>6 DEF RecordSession, Touch
  <2> QED
    BY <2>1, Scheduled DEF EntryOK
<1>7. ASSUME NEW c \in Client, RecordFails(c)
      PROVE  TimersOK'
  <2>1. CASE CancelIdleFiber(entry.timer)
    BY <1>7, <2>1, Cancelled DEF RecordFails, TimersOK
  <2>2. CASE UNCHANGED timer
    BY <1>7, <2>2 DEF RecordFails, TimersOK
  <2> QED
    BY <1>7, <2>1, <2>2 DEF RecordFails
<1>8. ASSUME NEW c \in Client, Touched(c)
      PROVE  TimersOK'
  BY <1>8, Armed DEF Touched
<1>9. ASSUME NEW c \in Client, MarkBusy(c)
      PROVE  TimersOK'
  <2>1. CASE CancelIdleFiber(entry.timer)
    BY <1>9, <2>1, Cancelled DEF MarkBusy, TimersOK
  <2>2. CASE UNCHANGED timer
    BY <1>9, <2>2 DEF MarkBusy, TimersOK
  <2> QED
    BY <1>9, <2>1, <2>2 DEF MarkBusy
<1>10. ASSUME NEW c \in Client, StartTurn(c)
       PROVE  TimersOK'
  BY <1>10 DEF StartTurn, TimersOK
<1>11. ASSUME NEW c \in Client, StartFails(c)
       PROVE  TimersOK'
  <2>1. BeginSchedule(c, Unbusied)
    BY <1>11 DEF StartFails, CountDown
  <2> QED
    BY <2>1, Scheduled, UnbusiedEntry DEF EntryOK
<1>12. ASSUME NEW c \in Client, TurnAnswered(c)
       PROVE  TimersOK'
  BY <1>12 DEF TurnAnswered, TimersOK
<1>13. ASSUME NEW c \in Client, Interrupted(c)
       PROVE  TimersOK'
  BY <1>13 DEF Interrupted, TimersOK
<1>14. ASSUME NEW i \in Timer, IdleWindowEnds(i)
       PROVE  TimersOK'
  <2>1. entry.rt \in 0 .. MaxRuntimes /\ entry.pinned \in 0 .. MaxPins
    BY DEF EntryOK, EntryRecord
  <2>2. [timer[i] EXCEPT !.stage = "probing", !.rt = entry.rt, !.pinned = entry.pinned]
            \in TimerRecord
    BY <2>1 DEF TimersOK, TimerRecord
  <2>3. NoTimer \in TimerRecord
    BY DEF NoTimer, TimerRecord
  <2>4. \E t \in TimerRecord : timer' = [timer EXCEPT ![i] = t]
    BY <1>14, <2>2, <2>3 DEF IdleWindowEnds
  <2> QED
    BY <1>14, <2>4 DEF IdleWindowEnds, TimersOK
<1>15. ASSUME NEW i \in Timer, DeferIdleRelease(i)
       PROVE  TimersOK'
  <2>1. [timer[i] EXCEPT !.stage = "sleeping", !.rt = 0, !.pinned = 0] \in TimerRecord
    <3>1. 0 \in 0 .. MaxRuntimes /\ 0 \in 0 .. MaxPins
      OBVIOUS
    <3> QED
      BY <3>1, TimerUpdated DEF TimersOK
  <2>2. NoTimer \in TimerRecord
    BY DEF NoTimer, TimerRecord
  <2>3. \E t \in TimerRecord : timer' = [timer EXCEPT ![i] = t]
    BY <1>15, <2>1, <2>2 DEF DeferIdleRelease, TimersOK, TimerRecord
  <2> QED
    BY <1>15, <2>3 DEF DeferIdleRelease, TimersOK
<1>16. ASSUME NEW i \in Timer, IdleRelease(i)
       PROVE  TimersOK'
  <2>1. NoTimer \in TimerRecord
    BY DEF NoTimer, TimerRecord
  <2> QED
    BY <1>16, <2>1 DEF IdleRelease, TimersOK
<1>17. ASSUME NEW r \in Runtime, NEW c \in Client, PumpTerminal(r, c)
       PROVE  TimersOK'
  <2>1. BeginSchedule(r, Unbusied)
    BY <1>17 DEF PumpTerminal, CountDown
  <2> QED
    BY <2>1, Scheduled, UnbusiedEntry DEF EntryOK
<1>18. ASSUME NEW r \in Runtime, PumpTouched(r)
       PROVE  TimersOK'
  BY <1>18, Armed DEF PumpTouched
<1>19. ASSUME NEW r \in Runtime, PumpOther(r)
       PROVE  TimersOK'
  <2>1. BeginSchedule(r, entry)
    BY <1>19 DEF PumpOther
  <2> QED
    BY <2>1, Scheduled DEF EntryOK
<1>20. ASSUME NEW r \in Runtime, StreamEnds(r)
       PROVE  TimersOK'
  <2>1. CancelIdleFiber(entry.timer) /\ UNCHANGED plan
    BY <1>20 DEF StreamEnds
  <2> QED
    BY <2>1, Cancelled DEF TimersOK
<1>21. ASSUME NEW r \in Runtime, Closed(r)
       PROVE  TimersOK'
  BY <1>21 DEF Closed, TimersOK
<1>22. ASSUME NEW r \in Runtime, NEW c \in Client, TurnEnds(r, c)
       PROVE  TimersOK'
  BY <1>22 DEF TurnEnds, TimersOK
<1>23. ASSUME Close
       PROVE  TimersOK'
  <2>1. CancelIdleFiber(entry.timer) /\ UNCHANGED plan
    BY <1>23 DEF Close
  <2> QED
    BY <2>1, Cancelled DEF TimersOK
<1>24. CASE UNCHANGED vars
  BY <1>24 DEF vars, TimersOK
<1> QED
  BY <1>1, <1>2, <1>3, <1>4, <1>5, <1>6, <1>7, <1>8, <1>9, <1>10, <1>11, <1>12, <1>13,
     <1>14, <1>15, <1>16, <1>17, <1>18, <1>19, <1>20, <1>21, <1>22, <1>23, <1>24 DEF Next,
     ClientStep, TimerStep, PumpStep

\* Each step leaves one client in the open lock.
LEMMA LockStaysExclusive ==
  ASSUME ClientsOK, LockInv, [Next]_vars
  PROVE  LockInv'
<1> USE SessionsAssumption DEF Runtime, None, sessionVars, runtimeVars, clientVars, historyVars
<1>1. ASSUME NEW c \in Client, Open(c)
      PROVE  LockInv'
  BY <1>1 DEF Open, Touch, Go, ClientsOK, LockInv
<1>2. ASSUME NEW c \in Client, Attached(c)
      PROVE  LockInv'
  BY <1>2 DEF Attached, Touch, Go, LockInv, InOpen
<1>3. ASSUME NEW c \in Client, AttachFails(c)
      PROVE  LockInv'
  BY <1>3 DEF AttachFails, Leave, Go, LockInv, InOpen
<1>4. ASSUME NEW c \in Client, OpenFails(c)
      PROVE  LockInv'
  BY <1>4 DEF OpenFails, Leave, Go, LockInv, InOpen
<1>5. ASSUME NEW c \in Client, OpenSession(c)
      PROVE  LockInv'
  BY <1>5 DEF OpenSession, Go, LockInv, InOpen
<1>6. ASSUME NEW c \in Client, RecordSession(c)
      PROVE  LockInv'
  BY <1>6 DEF RecordSession, Touch, Go, LockInv, InOpen
<1>7. ASSUME NEW c \in Client, RecordFails(c)
      PROVE  LockInv'
  BY <1>7 DEF RecordFails, Leave, Go, LockInv, InOpen
<1>8. ASSUME NEW c \in Client, Touched(c)
      PROVE  LockInv'
  BY <1>8 DEF Touched, Go, Leave, ClientsOK, LockInv, InOpen
<1>9. ASSUME NEW c \in Client, MarkBusy(c)
      PROVE  LockInv'
  BY <1>9 DEF MarkBusy, Go, LockInv, InOpen
<1>10. ASSUME NEW c \in Client, StartTurn(c)
       PROVE  LockInv'
  BY <1>10 DEF StartTurn, Go, LockInv, InOpen
<1>11. ASSUME NEW c \in Client, StartFails(c)
       PROVE  LockInv'
  BY <1>11 DEF StartFails, Go, Leave, ClientsOK, LockInv, InOpen
<1>12. ASSUME NEW c \in Client, TurnAnswered(c)
       PROVE  LockInv'
  BY <1>12 DEF TurnAnswered, Leave, Go, LockInv, InOpen
<1>13. ASSUME NEW c \in Client, Interrupted(c)
       PROVE  LockInv'
  BY <1>13 DEF Interrupted, Leave, Go, LockInv, InOpen
<1>14. ASSUME NEW i \in Timer, IdleWindowEnds(i)
       PROVE  LockInv'
  BY <1>14 DEF IdleWindowEnds, LockInv
<1>15. ASSUME NEW i \in Timer, DeferIdleRelease(i)
       PROVE  LockInv'
  BY <1>15 DEF DeferIdleRelease, LockInv
<1>16. ASSUME NEW i \in Timer, IdleRelease(i)
       PROVE  LockInv'
  BY <1>16 DEF IdleRelease, LockInv
<1>17. ASSUME NEW r \in Runtime, NEW c \in Client, PumpTerminal(r, c)
       PROVE  LockInv'
  BY <1>17 DEF PumpTerminal, LockInv
<1>18. ASSUME NEW r \in Runtime, PumpTouched(r)
       PROVE  LockInv'
  BY <1>18 DEF PumpTouched, LockInv
<1>19. ASSUME NEW r \in Runtime, PumpOther(r)
       PROVE  LockInv'
  BY <1>19 DEF PumpOther, LockInv
<1>20. ASSUME NEW r \in Runtime, StreamEnds(r)
       PROVE  LockInv'
  BY <1>20 DEF StreamEnds, LockInv
<1>21. ASSUME NEW r \in Runtime, Closed(r)
       PROVE  LockInv'
  BY <1>21 DEF Closed, LockInv
<1>22. ASSUME NEW r \in Runtime, NEW c \in Client, TurnEnds(r, c)
       PROVE  LockInv'
  BY <1>22 DEF TurnEnds, LockInv
<1>23. ASSUME Close
       PROVE  LockInv'
  BY <1>23 DEF Close, LockInv
<1>24. CASE UNCHANGED vars
  BY <1>24 DEF vars, LockInv
<1> QED
  BY <1>1, <1>2, <1>3, <1>4, <1>5, <1>6, <1>7, <1>8, <1>9, <1>10, <1>11, <1>12, <1>13,
     <1>14, <1>15, <1>16, <1>17, <1>18, <1>19, <1>20, <1>21, <1>22, <1>23, <1>24 DEF Next,
     ClientStep, TimerStep, PumpStep

\* What the larger steps do to the clients, the map and the runtimes.
LEMMA OpenEffect ==
  ASSUME ClientsOK, RuntimesOK, NEW c \in Client, Open(c)
  PROVE  /\ pc[c] = "idle" /\ \A d \in Client : pc[d] \notin InOpen
         /\ UNCHANGED <<entry, native, inbox, pump, subs, persisted, counted, crossed, interrupted>>
         /\ \A d \in Client \ {c} : pc'[d] = pc[d] /\ rt'[d] = rt[d]
         /\ \/ /\ entry.rt # 0 /\ rt'[c] = entry.rt
               /\ pc'[c] \in {"attaching", "touching", "ready"}
               /\ UNCHANGED <<adapter, outrun>>
            \/ /\ entry.rt = 0 /\ pc'[c] = "opening" /\ rt'[c] \in Runtime
               /\ adapter[rt'[c]] = "none" /\ adapter'[rt'[c]] = "opening"
               /\ \A r \in Runtime : r # rt'[c] => adapter'[r] = adapter[r]
               /\ ~outrun' => ~outrun /\ \A r \in Runtime : adapter[r] # "closing"
<1> USE DEF ClientsOK, RuntimesOK
<1>1. /\ pc[c] = "idle" /\ \A d \in Client : pc[d] \notin InOpen
      /\ UNCHANGED <<entry, native, inbox, pump, subs, persisted, counted, crossed, interrupted>>
  BY DEF Open
<1>2. CASE entry.rt # 0
  <2>1. rt' = [rt EXCEPT ![c] = entry.rt] /\ UNCHANGED <<adapter, outrun>>
    BY <1>2 DEF Open
  <2>2. PICK a \in {"attaching", "touching", "ready"} : pc' = [pc EXCEPT ![c] = a]
    BY <1>2 DEF Open, Touch, Go
  <2> QED
    BY <1>1, <1>2, <2>1, <2>2
<1>3. CASE entry.rt = 0
  <2>1. PICK r \in Runtime :
           /\ \A q \in Runtime : adapter[q] = "none" <=> q >= r
           /\ adapter' = [adapter EXCEPT ![r] = "opening"]
           /\ rt' = [rt EXCEPT ![c] = r]
           /\ outrun' = (outrun \/ \E q \in Runtime : adapter[q] = "closing")
           /\ Go(c, "opening")
    BY <1>3 DEF Open
  <2>2. adapter[r] = "none"
    BY <2>1 DEF Runtime
  <2>3. \A d \in Client \ {c} : pc'[d] = pc[d] /\ rt'[d] = rt[d]
    BY <2>1 DEF Go
  <2>4. pc'[c] = "opening" /\ rt'[c] = r
    BY <2>1 DEF Go
  <2>5. adapter'[r] = "opening" /\ \A q \in Runtime : q # r => adapter'[q] = adapter[q]
    BY <2>1
  <2> QED
    BY <1>1, <1>3, <2>1, <2>2, <2>3, <2>4, <2>5
<1> QED
  BY <1>2, <1>3

LEMMA StartFailsEffect ==
  ASSUME ClientsOK, RuntimesOK, EntryOK, NEW c \in Client, StartFails(c)
  PROVE  /\ pc[c] = "starting" /\ pc'[c] \in {"failing", "done"}
         /\ pc'[c] = "failing" => rt'[c] = rt[c]
         /\ \A d \in Client \ {c} : pc'[d] = pc[d] /\ rt'[d] = rt[d] /\ counted'[d] = counted[d]
         /\ counted'[c] = 0
         /\ entry'.rt = entry.rt
         /\ entry'.busy = IF entry.busy = 0 THEN 0 ELSE entry.busy - 1
         /\ \A r \in Runtime : subs'[r] \subseteq subs[r] /\ subs[r] \subseteq subs'[r] \cup {c}
         /\ crossed' = (crossed \/ entry.rt \notin {0, counted[c]})
         /\ UNCHANGED <<adapter, native, inbox, pump, persisted, interrupted, outrun>>
<1>1. /\ pc[c] = "starting" /\ entry' = Unbusied
      /\ counted' = [counted EXCEPT ![c] = 0]
      /\ subs' = [subs EXCEPT ![rt[c]] = @ \ {c}]
      /\ crossed' = (crossed \/ entry.rt \notin {0, counted[c]})
      /\ UNCHANGED <<adapter, native, inbox, pump, persisted, interrupted, outrun>>
  BY DEF StartFails, CountDown
<1>2. CASE pc' = [pc EXCEPT ![c] = "failing"] /\ UNCHANGED rt
  BY <1>1, <1>2, UnbusiedEntry DEF ClientsOK, RuntimesOK
<1>3. CASE pc' = [pc EXCEPT ![c] = "done"] /\ rt' = [rt EXCEPT ![c] = 0]
  BY <1>1, <1>3, UnbusiedEntry DEF ClientsOK, RuntimesOK
<1> QED
  BY <1>2, <1>3 DEF StartFails, Go, Leave

LEMMA PumpTerminalEffect ==
  ASSUME ClientsOK, RuntimesOK, EntryOK, NEW r \in Runtime, NEW c \in Client, PumpTerminal(r, c)
  PROVE  /\ c \in inbox[r] /\ ~pump[r].busy
         /\ inbox'[r] = inbox[r] \ {c} /\ \A q \in Runtime \ {r} : inbox'[q] = inbox[q]
         /\ counted'[c] = 0 /\ \A d \in Client \ {c} : counted'[d] = counted[d]
         /\ entry'.rt = entry.rt
         /\ entry'.busy = IF entry.busy = 0 THEN 0 ELSE entry.busy - 1
         /\ crossed' = (crossed \/ entry.rt \notin {0, counted[c]})
         /\ UNCHANGED <<adapter, native, pc, rt, persisted, interrupted, outrun>>
         /\ \/ pump' = [pump EXCEPT ![r].busy = TRUE, ![r].event = {c}] /\ UNCHANGED subs
            \/ UNCHANGED pump /\ subs' = [subs EXCEPT ![r] = @ \ {c}]
<1>1. /\ c \in inbox[r] /\ ~pump[r].busy /\ inbox' = [inbox EXCEPT ![r] = @ \ {c}]
      /\ counted' = [counted EXCEPT ![c] = 0] /\ entry' = Unbusied
      /\ crossed' = (crossed \/ entry.rt \notin {0, counted[c]})
      /\ UNCHANGED <<adapter, native, pc, rt, persisted, interrupted, outrun>>
  BY DEF PumpTerminal, PumpReady, CountDown, clientVars
<1>2. \/ pump' = [pump EXCEPT ![r].busy = TRUE, ![r].event = {c}] /\ UNCHANGED subs
      \/ UNCHANGED pump /\ subs' = [subs EXCEPT ![r] = @ \ {c}]
  BY DEF PumpTerminal, HoldOrPublish, Publish
<1>3. inbox'[r] = inbox[r] \ {c} /\ \A q \in Runtime \ {r} : inbox'[q] = inbox[q]
  BY <1>1 DEF RuntimesOK
<1>4. counted'[c] = 0 /\ \A d \in Client \ {c} : counted'[d] = counted[d]
  BY <1>1 DEF ClientsOK
<1>5. /\ entry'.rt = entry.rt
      /\ entry'.busy = IF entry.busy = 0 THEN 0 ELSE entry.busy - 1
  BY <1>1, UnbusiedEntry
<1> QED
  BY <1>1, <1>2, <1>3, <1>4, <1>5

LEMMA InterruptedEffect ==
  ASSUME ClientsOK, RuntimesOK, NEW c \in Client, Interrupted(c)
  PROVE  /\ pc[c] \in InOpen \cup {"starting"} /\ pc'[c] = "done" /\ interrupted'
         /\ \A d \in Client \ {c} : pc'[d] = pc[d] /\ rt'[d] = rt[d]
         /\ \A r \in Runtime : subs'[r] \subseteq subs[r] /\ subs[r] \subseteq subs'[r] \cup {c}
         /\ \A r \in Runtime : \/ adapter'[r] = adapter[r]
                               \/ pc[c] = "opening" /\ r = rt[c] /\ adapter'[r] = "live"
         /\ \A r \in Runtime : \/ native'[r] = native[r]
                               \/ /\ pc[c] = "starting" /\ r = rt[c] /\ adapter[r] = "live"
                                  /\ native'[r] = native[r] \cup {c}
         /\ UNCHANGED <<entry, inbox, pump, persisted, counted, crossed, outrun>>
<1>1. /\ pc[c] \in InOpen \cup {"starting"} /\ interrupted' = TRUE
      /\ pc' = [pc EXCEPT ![c] = "done"] /\ rt' = [rt EXCEPT ![c] = 0]
      /\ subs' = [subs EXCEPT ![rt[c]] = @ \ {c}]
      /\ adapter' = IF pc[c] = "opening" THEN [adapter EXCEPT ![rt[c]] = "live"] ELSE adapter
      /\ UNCHANGED <<entry, inbox, pump, persisted, counted, crossed, outrun>>
  BY DEF Interrupted, Leave, Go, sessionVars
<1>2. \/ UNCHANGED native
      \/ /\ pc[c] = "starting" /\ adapter[rt[c]] = "live"
         /\ native' = [native EXCEPT ![rt[c]] = @ \cup {c}]
  BY DEF Interrupted
<1>3. pc'[c] = "done" /\ \A d \in Client \ {c} : pc'[d] = pc[d] /\ rt'[d] = rt[d]
  BY <1>1 DEF ClientsOK
<1>4. \A r \in Runtime : subs'[r] \subseteq subs[r] /\ subs[r] \subseteq subs'[r] \cup {c}
  BY <1>1 DEF RuntimesOK
<1>5. \A r \in Runtime : \/ adapter'[r] = adapter[r]
                         \/ pc[c] = "opening" /\ r = rt[c] /\ adapter'[r] = "live"
  BY <1>1 DEF RuntimesOK
<1>6. \A r \in Runtime : \/ native'[r] = native[r]
                         \/ /\ pc[c] = "starting" /\ r = rt[c] /\ adapter[r] = "live"
                            /\ native'[r] = native[r] \cup {c}
  BY <1>2 DEF RuntimesOK
<1> QED
  BY <1>1, <1>3, <1>4, <1>5, <1>6

\* Each step leaves the runtimes that clients hold in the map or closing.
LEMMA RuntimesStayOwned ==
  ASSUME ClientsOK, EntryOK, TimersOK, RuntimesOK, LockInv, OwnerInv, [Next]_vars
  PROVE  OwnerInv'
<1> USE SessionsAssumption DEF Runtime, None, sessionVars, runtimeVars, clientVars, historyVars
<1>1. ASSUME NEW c \in Client, Open(c)
      PROVE  OwnerInv'
  <2>1. \A d \in Client \ {c} : pc'[d] = pc[d] /\ rt'[d] = rt[d]
    BY <1>1, OpenEffect
  <2>2. UNCHANGED entry /\ pc'[c] \in {"opening", "attaching", "touching", "ready"}
    BY <1>1, OpenEffect
  <2>3. CASE entry.rt # 0
    BY <1>1, <2>1, <2>2, <2>3, OpenEffect DEF OwnerInv, Handed, Opened, InOpen, EntryOK,
       EntryRecord
  <2>4. CASE entry.rt = 0
    <3>1. /\ pc'[c] = "opening" /\ rt'[c] \in Runtime
          /\ adapter[rt'[c]] = "none" /\ adapter'[rt'[c]] = "opening"
          /\ \A r \in Runtime : r # rt'[c] => adapter'[r] = adapter[r]
      BY <1>1, <2>4, OpenEffect
    <3>2. \A d \in Client \ {c} : pc[d] \notin InOpen
      BY <1>1, OpenEffect
    <3>3. \A d \in Client \ {c} : pc[d] \in Handed => rt[d] \in Runtime /\ rt[d] # rt'[c]
      BY <3>1 DEF OwnerInv, Opened, ClientsOK
    <3> QED
      BY <2>1, <2>2, <2>4, <3>1, <3>2, <3>3 DEF OwnerInv, Handed, InOpen
  <2> QED
    BY <2>3, <2>4
<1>2. ASSUME NEW c \in Client, Attached(c)
      PROVE  OwnerInv'
  BY <1>2 DEF Attached, Touch, Go, OwnerInv, Handed
<1>3. ASSUME NEW c \in Client, AttachFails(c)
      PROVE  OwnerInv'
  BY <1>3 DEF AttachFails, Leave, Go, ClientsOK, OwnerInv, Handed
<1>4. ASSUME NEW c \in Client, OpenFails(c)
      PROVE  OwnerInv'
  BY <1>4 DEF OpenFails, Leave, Go, ClientsOK, LockInv, OwnerInv, Handed, Opened, InOpen
<1>5. ASSUME NEW c \in Client, OpenSession(c)
      PROVE  OwnerInv'
  BY <1>5 DEF OpenSession, Go, ClientsOK, RuntimesOK, LockInv, OwnerInv, Opened, InOpen
<1>6. ASSUME NEW c \in Client, RecordSession(c)
      PROVE  OwnerInv'
  BY <1>6 DEF RecordSession, Touch, Go, OwnerInv, Handed
<1>7. ASSUME NEW c \in Client, RecordFails(c)
      PROVE  OwnerInv'
  BY <1>7 DEF RecordFails, Remove, Leave, Go, NoEntry, ClientsOK, Steps, RuntimesOK,
     OwnerInv, Handed, Opened, InOpen
<1>8. ASSUME NEW c \in Client, Touched(c)
      PROVE  OwnerInv'
  <2>1. entry'.rt = entry.rt
    BY <1>8, Armed DEF Touched
  <2> QED
    BY <1>8, <2>1 DEF Touched, Go, Leave, ClientsOK, Steps, EntryOK, EntryRecord,
       RuntimesOK, LockInv, OwnerInv, Handed, Opened, InOpen
<1>9. ASSUME NEW c \in Client, MarkBusy(c)
      PROVE  OwnerInv'
  <2>1. CASE entry.rt = 0
    BY <1>9, <2>1 DEF MarkBusy, Go, ClientsOK, OwnerInv, Handed, InOpen
  <2>2. CASE entry.rt # 0
    <3>1. entry'.rt = entry.rt
      BY <1>9, <2>2 DEF MarkBusy, EntryOK, EntryRecord
    <3>2. pc[c] = "ready" /\ pc' = [pc EXCEPT ![c] = "starting"] /\ UNCHANGED <<adapter, rt>>
      BY <1>9 DEF MarkBusy, Go
    <3> QED
      BY <3>1, <3>2 DEF ClientsOK, OwnerInv, Handed
  <2> QED
    BY <2>1, <2>2
<1>10. ASSUME NEW c \in Client, StartTurn(c)
       PROVE  OwnerInv'
  BY <1>10 DEF StartTurn, Go, OwnerInv, Handed
<1>11. ASSUME NEW c \in Client, StartFails(c)
       PROVE  OwnerInv'
  BY <1>11 DEF StartFails, CountDown, Unbusied, Go, Leave, ClientsOK, OwnerInv, Handed
<1>12. ASSUME NEW c \in Client, TurnAnswered(c)
       PROVE  OwnerInv'
  BY <1>12 DEF TurnAnswered, Leave, Go, ClientsOK, OwnerInv, Handed
<1>13. ASSUME NEW c \in Client, Interrupted(c)
       PROVE  OwnerInv'
  BY <1>13 DEF Interrupted, Leave, Go, ClientsOK, LockInv, OwnerInv, Handed, Opened
<1>14. ASSUME NEW i \in Timer, IdleWindowEnds(i)
       PROVE  OwnerInv'
  BY <1>14 DEF IdleWindowEnds, OwnerInv
<1>15. ASSUME NEW i \in Timer, DeferIdleRelease(i)
       PROVE  OwnerInv'
  BY <1>15 DEF DeferIdleRelease, EntryOK, EntryRecord, OwnerInv
<1>16. ASSUME NEW i \in Timer, IdleRelease(i)
       PROVE  OwnerInv'
  <2>1. CASE Remove /\ UNCHANGED <<pc, rt, native, inbox, pump, persisted, counted, crossed,
                                    interrupted, outrun>>
    BY <2>1 DEF Remove, NoEntry, ClientsOK, Steps, EntryOK, EntryRecord, RuntimesOK,
       LockInv, OwnerInv, Handed, Opened, InOpen
  <2>2. CASE UNCHANGED <<entry, subs, adapter, pc, rt, native, inbox, pump, persisted, counted,
                         crossed, interrupted, outrun>>
    BY <2>2 DEF ClientsOK, Steps, EntryOK, EntryRecord, RuntimesOK, LockInv, OwnerInv,
       Handed, Opened, InOpen
  <2> QED
    BY <1>16, <2>1, <2>2 DEF IdleRelease
<1>17. ASSUME NEW r \in Runtime, NEW c \in Client, PumpTerminal(r, c)
       PROVE  OwnerInv'
  BY <1>17 DEF PumpTerminal, CountDown, Unbusied, OwnerInv
<1>18. ASSUME NEW r \in Runtime, PumpTouched(r)
       PROVE  OwnerInv'
  <2>1. entry'.rt = entry.rt
    BY <1>18, Armed DEF PumpTouched
  <2> QED
    BY <1>18, <2>1 DEF PumpTouched, ClientsOK, Steps, EntryOK, EntryRecord, RuntimesOK,
       LockInv, OwnerInv, Handed, Opened, InOpen
<1>19. ASSUME NEW r \in Runtime, PumpOther(r)
       PROVE  OwnerInv'
  BY <1>19 DEF PumpOther, OwnerInv
<1>20. ASSUME NEW r \in Runtime, StreamEnds(r)
       PROVE  OwnerInv'
  BY <1>20 DEF StreamEnds, Remove, NoEntry, RuntimesOK, OwnerInv, Opened
<1>21. ASSUME NEW r \in Runtime, Closed(r)
       PROVE  OwnerInv'
  BY <1>21 DEF Closed, OwnerInv, Opened
<1>22. ASSUME NEW r \in Runtime, NEW c \in Client, TurnEnds(r, c)
       PROVE  OwnerInv'
  BY <1>22 DEF TurnEnds, OwnerInv
<1>23. ASSUME Close
       PROVE  OwnerInv'
  BY <1>23 DEF Close, Remove, NoEntry, ClientsOK, RuntimesOK, OwnerInv, Opened
<1>24. CASE UNCHANGED vars
  BY <1>24 DEF vars, OwnerInv
<1> QED
  BY <1>1, <1>2, <1>3, <1>4, <1>5, <1>6, <1>7, <1>8, <1>9, <1>10, <1>11, <1>12, <1>13,
     <1>14, <1>15, <1>16, <1>17, <1>18, <1>19, <1>20, <1>21, <1>22, <1>23, <1>24 DEF Next,
     ClientStep, TimerStep, PumpStep

\* Each step leaves a turn in one place.
LEMMA TurnsStayPlaced ==
  ASSUME ClientsOK, RuntimesOK, EntryOK, PlaceInv, [Next]_vars
  PROVE  PlaceInv'
<1> USE SessionsAssumption DEF Runtime, None, sessionVars, runtimeVars, clientVars, historyVars
<1>1. ASSUME NEW c \in Client, Open(c)
      PROVE  PlaceInv'
  BY <1>1, OpenEffect DEF PlaceInv, Opened
<1>2. ASSUME NEW c \in Client, Attached(c)
      PROVE  PlaceInv'
  BY <1>2 DEF Attached, Touch, Go, PlaceInv
<1>3. ASSUME NEW c \in Client, AttachFails(c)
      PROVE  PlaceInv'
  BY <1>3 DEF AttachFails, Leave, Go, PlaceInv
<1>4. ASSUME NEW c \in Client, OpenFails(c)
      PROVE  PlaceInv'
  BY <1>4 DEF OpenFails, Leave, Go, PlaceInv, Opened
<1>5. ASSUME NEW c \in Client, OpenSession(c)
      PROVE  PlaceInv'
  BY <1>5 DEF OpenSession, Go, PlaceInv, Opened
<1>6. ASSUME NEW c \in Client, RecordSession(c)
      PROVE  PlaceInv'
  BY <1>6 DEF RecordSession, Touch, Go, PlaceInv
<1>7. ASSUME NEW c \in Client, RecordFails(c)
      PROVE  PlaceInv'
  BY <1>7 DEF RecordFails, Remove, Leave, Go, RuntimesOK, PlaceInv, Opened
<1>8. ASSUME NEW c \in Client, Touched(c)
      PROVE  PlaceInv'
  BY <1>8 DEF Touched, Go, Leave, ClientsOK, PlaceInv
<1>9. ASSUME NEW c \in Client, MarkBusy(c)
      PROVE  PlaceInv'
  BY <1>9 DEF MarkBusy, Go, PlaceInv
<1>10. ASSUME NEW c \in Client, StartTurn(c)
       PROVE  PlaceInv'
  BY <1>10 DEF StartTurn, Go, ClientsOK, PlaceInv, Opened
<1>11. ASSUME NEW c \in Client, StartFails(c)
       PROVE  PlaceInv'
  BY <1>11, StartFailsEffect DEF PlaceInv, Opened
<1>12. ASSUME NEW c \in Client, TurnAnswered(c)
       PROVE  PlaceInv'
  BY <1>12 DEF TurnAnswered, Leave, Go, PlaceInv
<1>13. ASSUME NEW c \in Client, Interrupted(c)
       PROVE  PlaceInv'
  <2>1. pc[c] \notin {"running", "done"} /\ pc'[c] = "done" /\ UNCHANGED inbox
    BY <1>13, InterruptedEffect DEF InOpen
  <2>2. \A d \in Client \ {c} : pc'[d] = pc[d]
    BY <1>13, InterruptedEffect
  <2>3. \A r \in Runtime, d \in Client \ {c} : d \in native'[r] <=> d \in native[r]
    BY <1>13, InterruptedEffect
  <2>4. \A r \in Runtime : c \notin native[r] /\ c \notin inbox[r]
    BY <2>1 DEF PlaceInv
  <2>5. \A r \in Runtime : c \in native'[r] => r = rt[c]
    BY <1>13, <2>4, InterruptedEffect
  <2> QED
    <3>1. ASSUME NEW d \in Client, NEW r \in Runtime
          PROVE  /\ d \in native'[r] \cup inbox'[r] => pc'[d] \in {"running", "done"}
                 /\ d \in native'[r] => adapter'[r] \in Opened
                 /\ d \in native'[r] =>
                       \A q \in Runtime : (d \in native'[q] => q = r) /\ d \notin inbox'[q]
      <4>1. d \in native'[r] => adapter'[r] \in Opened
        BY <1>13, <2>3, <2>4, InterruptedEffect DEF PlaceInv, Opened
      <4>2. CASE d = c
        BY <2>1, <2>4, <2>5, <4>1, <4>2
      <4>3. CASE d # c
        BY <2>1, <2>2, <2>3, <4>1, <4>3 DEF PlaceInv
      <4> QED
        BY <4>2, <4>3
    <3> QED
      BY <3>1 DEF PlaceInv
<1>14. ASSUME NEW i \in Timer, IdleWindowEnds(i)
       PROVE  PlaceInv'
  BY <1>14 DEF IdleWindowEnds, PlaceInv
<1>15. ASSUME NEW i \in Timer, DeferIdleRelease(i)
       PROVE  PlaceInv'
  BY <1>15 DEF DeferIdleRelease, PlaceInv
<1>16. ASSUME NEW i \in Timer, IdleRelease(i)
       PROVE  PlaceInv'
  BY <1>16 DEF IdleRelease, Remove, RuntimesOK, PlaceInv, Opened
<1>17. ASSUME NEW r \in Runtime, NEW c \in Client, PumpTerminal(r, c)
       PROVE  PlaceInv'
  <2>1. UNCHANGED <<adapter, native, pc>>
    BY <1>17, PumpTerminalEffect
  <2>2. \A q \in Runtime : inbox'[q] \subseteq inbox[q]
    BY <1>17, PumpTerminalEffect
  <2> QED
    BY <2>1, <2>2 DEF PlaceInv
<1>18. ASSUME NEW r \in Runtime, PumpTouched(r)
       PROVE  PlaceInv'
  BY <1>18 DEF PumpTouched, PlaceInv
<1>19. ASSUME NEW r \in Runtime, PumpOther(r)
       PROVE  PlaceInv'
  BY <1>19 DEF PumpOther, PlaceInv
<1>20. ASSUME NEW r \in Runtime, StreamEnds(r)
       PROVE  PlaceInv'
  BY <1>20 DEF StreamEnds, Remove, RuntimesOK, PlaceInv
<1>21. ASSUME NEW r \in Runtime, Closed(r)
       PROVE  PlaceInv'
  BY <1>21 DEF Closed, RuntimesOK, PlaceInv
<1>22. ASSUME NEW r \in Runtime, NEW c \in Client, TurnEnds(r, c)
       PROVE  PlaceInv'
  BY <1>22 DEF TurnEnds, RuntimesOK, PlaceInv
<1>23. ASSUME Close
       PROVE  PlaceInv'
  BY <1>23 DEF Close, Remove, PlaceInv, Opened
<1>24. CASE UNCHANGED vars
  BY <1>24 DEF vars, PlaceInv
<1> QED
  BY <1>1, <1>2, <1>3, <1>4, <1>5, <1>6, <1>7, <1>8, <1>9, <1>10, <1>11, <1>12, <1>13,
     <1>14, <1>15, <1>16, <1>17, <1>18, <1>19, <1>20, <1>21, <1>22, <1>23, <1>24 DEF Next,
     ClientStep, TimerStep, PumpStep

\* Each step leaves the turns of a live runtime counted in it.
LEMMA TurnsStayCounted ==
  ASSUME ClientsOK, EntryOK, RuntimesOK, OwnerInv, PlaceInv, CountedInv, [Next]_vars
  PROVE  CountedInv'
<1> USE SessionsAssumption DEF Runtime, None, sessionVars, runtimeVars, clientVars, historyVars
<1>1. ASSUME NEW c \in Client, Open(c)
      PROVE  CountedInv'
  <2>1. \A d \in Client \ {c} : pc'[d] = pc[d] /\ rt'[d] = rt[d]
    BY <1>1, OpenEffect
  <2>2. /\ pc[c] \in NotStarted /\ pc'[c] \in NotStarted \ {"starting"}
        /\ UNCHANGED <<counted, native>>
    BY <1>1, OpenEffect DEF NotStarted
  <2>3. \A r \in Runtime : \/ adapter'[r] = adapter[r]
                           \/ adapter[r] = "none" /\ adapter'[r] = "opening"
    BY <1>1, OpenEffect
  <2>4. \A d \in Client : pc[d] = "starting" => rt[d] \in Runtime
    BY DEF OwnerInv, Handed, ClientsOK
  <2> QED
    BY <2>1, <2>2, <2>3, <2>4 DEF CountedInv, Opened, ClientsOK
<1>2. ASSUME NEW c \in Client, Attached(c)
      PROVE  CountedInv'
  BY <1>2 DEF Attached, Touch, Go, CountedInv, NotStarted
<1>3. ASSUME NEW c \in Client, AttachFails(c)
      PROVE  CountedInv'
  BY <1>3 DEF AttachFails, Leave, Go, CountedInv, NotStarted
<1>4. ASSUME NEW c \in Client, OpenFails(c)
      PROVE  CountedInv'
  BY <1>4 DEF OpenFails, Leave, Go, Opened, CountedInv, NotStarted
<1>5. ASSUME NEW c \in Client, OpenSession(c)
      PROVE  CountedInv'
  <2>1. pc[c] = "opening" /\ adapter[rt[c]] = "opening" /\ rt[c] \in Runtime
    BY <1>5 DEF OpenSession, OwnerInv, ClientsOK
  <2>2. /\ adapter' = [adapter EXCEPT ![rt[c]] = "live"]
        /\ UNCHANGED <<native, counted, rt>> /\ pc' = [pc EXCEPT ![c] = "recording"]
    BY <1>5 DEF OpenSession, Go
  <2>3. adapter'[rt[c]] = "live" /\ \A r \in Runtime \ {rt[c]} : adapter'[r] = adapter[r]
    BY <2>1, <2>2 DEF RuntimesOK
  <2>4. \A d \in Client : \/ pc'[d] = pc[d]
                          \/ d = c /\ pc[c] \in NotStarted /\ pc'[c] = "recording"
    BY <2>1, <2>2 DEF ClientsOK, NotStarted
  <2>5. \A d \in Client : /\ counted[d] # rt[c]
                          /\ pc[d] = "starting" => rt[d] \in Runtime \ {rt[c]}
    BY <2>1 DEF CountedInv, OwnerInv, Handed, Opened, ClientsOK
  <2>6. \A d \in Client : d \notin native[rt[c]]
    <3>1. SUFFICES ASSUME NEW d \in Client, d \in native[rt[c]]
                   PROVE  FALSE
      OBVIOUS
    <3> QED
      BY <2>1, <3>1 DEF PlaceInv, Opened
  <2> QED
    BY <2>2, <2>3, <2>4, <2>5, <2>6 DEF CountedInv, ClientsOK
<1>6. ASSUME NEW c \in Client, RecordSession(c)
      PROVE  CountedInv'
  BY <1>6 DEF RecordSession, Touch, Go, CountedInv, NotStarted
<1>7. ASSUME NEW c \in Client, RecordFails(c)
      PROVE  CountedInv'
  BY <1>7 DEF RecordFails, Remove, Leave, Go, ClientsOK, Steps, RuntimesOK, OwnerInv,
     Handed, Opened, CountedInv, NotStarted, InOpen
<1>8. ASSUME NEW c \in Client, Touched(c)
      PROVE  CountedInv'
  BY <1>8 DEF Touched, Go, Leave, ClientsOK, Steps, Opened, CountedInv, NotStarted, InOpen
<1>9. ASSUME NEW c \in Client, MarkBusy(c)
      PROVE  CountedInv'
  BY <1>9 DEF MarkBusy, Go, ClientsOK, OwnerInv, Handed, Opened, CountedInv, NotStarted
<1>10. ASSUME NEW c \in Client, StartTurn(c)
       PROVE  CountedInv'
  BY <1>10 DEF StartTurn, Go, CountedInv, NotStarted
<1>11. ASSUME NEW c \in Client, StartFails(c)
       PROVE  CountedInv'
  <2>1. \A d \in Client \ {c} : pc'[d] = pc[d] /\ rt'[d] = rt[d] /\ counted'[d] = counted[d]
    BY <1>11, StartFailsEffect
  <2>2. /\ pc[c] = "starting" /\ pc'[c] \in {"failing", "done"} /\ counted'[c] = 0
        /\ UNCHANGED <<adapter, native>>
    BY <1>11, StartFailsEffect
  <2>3. \A r \in Runtime : c \notin native[r]
    BY <2>2 DEF PlaceInv
  <2> QED
    BY <2>1, <2>2, <2>3 DEF CountedInv, NotStarted
<1>12. ASSUME NEW c \in Client, TurnAnswered(c)
       PROVE  CountedInv'
  BY <1>12 DEF TurnAnswered, Leave, Go, CountedInv, NotStarted
<1>13. ASSUME NEW c \in Client, Interrupted(c)
       PROVE  CountedInv'
  <2>1. \A d \in Client \ {c} : pc'[d] = pc[d] /\ rt'[d] = rt[d]
    BY <1>13, InterruptedEffect
  <2>2. pc'[c] = "done" /\ UNCHANGED counted
    BY <1>13, InterruptedEffect
  <2>3. \A r \in Runtime :
           adapter'[r] = adapter[r] \/ (adapter[r] = "opening" /\ adapter'[r] = "live")
    <3> SUFFICES ASSUME NEW r \in Runtime
                 PROVE  \/ adapter'[r] = adapter[r]
                        \/ adapter[r] = "opening" /\ adapter'[r] = "live"
      OBVIOUS
    <3>1. \/ adapter'[r] = adapter[r]
          \/ pc[c] = "opening" /\ r = rt[c] /\ adapter'[r] = "live"
      BY <1>13, InterruptedEffect
    <3>2. pc[c] = "opening" => adapter[rt[c]] = "opening"
      BY DEF OwnerInv
    <3> QED
      BY <3>1, <3>2
  <2>4. \A d \in Client :
           counted[d] # 0 => counted[d] \in Runtime /\ adapter[counted[d]] \in Opened
    BY DEF CountedInv, ClientsOK
  <2>5. \A d \in Client : pc[d] = "starting" => rt[d] \in Runtime /\ adapter[rt[d]] \in Opened
    BY DEF OwnerInv, Handed, ClientsOK
  <2>6. \A d \in Client, r \in Runtime : d \in native[r] => adapter[r] \in Opened
    BY DEF PlaceInv
  <2>7. \A d \in Client, r \in Runtime :
           d \in native'[r] => \/ d \in native[r]
                               \/ /\ d = c /\ pc[c] = "starting" /\ r = rt[c]
                                  /\ adapter[r] = "live"
    BY <1>13, InterruptedEffect
  <2>8. ASSUME NEW d \in Client
        PROVE  /\ pc'[d] \in NotStarted => counted'[d] = 0
               /\ counted'[d] # 0 => adapter'[counted'[d]] \in Opened
               /\ pc'[d] = "starting" /\ adapter'[rt'[d]] = "live" => counted'[d] = rt'[d]
    <3>1. CASE d = c
      BY <2>2, <2>3, <2>4, <3>1 DEF NotStarted, Opened
    <3>2. CASE d # c
      BY <2>1, <2>2, <2>3, <2>4, <2>5, <3>2 DEF CountedInv, Opened
    <3> QED
      BY <3>1, <3>2
  <2>9. ASSUME NEW d \in Client, NEW r \in Runtime, d \in native'[r], adapter'[r] = "live"
        PROVE  counted'[d] = r
    <3>1. CASE d \in native[r]
      BY <2>2, <2>3, <2>6, <2>9, <3>1 DEF CountedInv, Opened
    <3>2. CASE d \notin native[r]
      BY <2>2, <2>7, <2>9, <3>2 DEF CountedInv
    <3> QED
      BY <3>1, <3>2
  <2> QED
    BY <2>8, <2>9 DEF CountedInv
<1>14. ASSUME NEW i \in Timer, IdleWindowEnds(i)
       PROVE  CountedInv'
  BY <1>14 DEF IdleWindowEnds, CountedInv
<1>15. ASSUME NEW i \in Timer, DeferIdleRelease(i)
       PROVE  CountedInv'
  BY <1>15 DEF DeferIdleRelease, CountedInv
<1>16. ASSUME NEW i \in Timer, IdleRelease(i)
       PROVE  CountedInv'
  <2>1. CASE Remove /\ UNCHANGED <<pc, rt, native, inbox, pump, persisted, counted, crossed,
                                    interrupted, outrun>>
    BY <2>1 DEF Remove, NoEntry, ClientsOK, Steps, EntryOK, EntryRecord, RuntimesOK,
       OwnerInv, Handed, Opened, PlaceInv, CountedInv, NotStarted, InOpen
  <2>2. CASE UNCHANGED <<entry, subs, adapter, pc, rt, native, inbox, pump, persisted, counted,
                         crossed, interrupted, outrun>>
    BY <2>2 DEF ClientsOK, Steps, EntryOK, EntryRecord, RuntimesOK, OwnerInv, Handed,
       Opened, PlaceInv, CountedInv, NotStarted, InOpen
  <2> QED
    BY <1>16, <2>1, <2>2 DEF IdleRelease
<1>17. ASSUME NEW r \in Runtime, NEW c \in Client, PumpTerminal(r, c)
       PROVE  CountedInv'
  <2>1. \A d \in Client \ {c} : counted'[d] = counted[d]
    BY <1>17, PumpTerminalEffect
  <2>2. counted'[c] = 0 /\ c \in inbox[r] /\ UNCHANGED <<adapter, native, pc, rt>>
    BY <1>17, PumpTerminalEffect
  <2>3. pc[c] \in {"running", "done"} /\ \A q \in Runtime : c \notin native[q]
    BY <2>2 DEF PlaceInv
  <2> QED
    BY <2>1, <2>2, <2>3 DEF CountedInv
<1>18. ASSUME NEW r \in Runtime, PumpTouched(r)
       PROVE  CountedInv'
  BY <1>18 DEF PumpTouched, CountedInv
<1>19. ASSUME NEW r \in Runtime, PumpOther(r)
       PROVE  CountedInv'
  BY <1>19 DEF PumpOther, CountedInv
<1>20. ASSUME NEW r \in Runtime, StreamEnds(r)
       PROVE  CountedInv'
  BY <1>20 DEF StreamEnds, Remove, Opened, CountedInv
<1>21. ASSUME NEW r \in Runtime, Closed(r)
       PROVE  CountedInv'
  BY <1>21 DEF Closed, Opened, CountedInv
<1>22. ASSUME NEW r \in Runtime, NEW c \in Client, TurnEnds(r, c)
       PROVE  CountedInv'
  BY <1>22 DEF TurnEnds, CountedInv
<1>23. ASSUME Close
       PROVE  CountedInv'
  BY <1>23 DEF Close, Remove, Opened, CountedInv
<1>24. CASE UNCHANGED vars
  BY <1>24 DEF vars, CountedInv
<1> QED
  BY <1>1, <1>2, <1>3, <1>4, <1>5, <1>6, <1>7, <1>8, <1>9, <1>10, <1>11, <1>12, <1>13,
     <1>14, <1>15, <1>16, <1>17, <1>18, <1>19, <1>20, <1>21, <1>22, <1>23, <1>24 DEF Next,
     ClientStep, TimerStep, PumpStep

\* The session's removal fails whoever is subscribed to it.
LEMMA RemovedPumps ==
  ASSUME EntryOK, ClientsOK, RuntimesOK, OwnerInv, PumpInv, Remove,
         UNCHANGED <<native, inbox, pump, interrupted>>,
         \A d \in Client : pc'[d] = "running" => pc[d] = "running" /\ rt'[d] = rt[d]
  PROVE  PumpInv'
<1>1. entry'.rt = 0
  BY DEF Remove, NoEntry
<1>2. \A d \in Client : pc[d] = "running" => rt[d] \in Runtime
  BY DEF OwnerInv, Handed, ClientsOK, Runtime
<1>3. ASSUME NEW d \in Client, pc[d] = "running", d \in subs'[rt[d]]
      PROVE  FALSE
  <2>1. d \in subs[rt[d]] /\ rt[d] # entry.rt
    BY <1>2, <1>3 DEF Remove, RuntimesOK
  <2> QED
    BY <1>3, <2>1 DEF PumpInv, PumpsRest, PumpRuns, TurnsWaitedFor
<1> QED
  BY <1>1, <1>3 DEF PumpInv, PumpsRest, PumpRuns, TurnsWaitedFor

\* Each step leaves the map's runtime with its pump, and a turn that is waited for
\* with the runtime or the pump.
LEMMA PumpsStayOn ==
  ASSUME ClientsOK, EntryOK, TimersOK, RuntimesOK, LockInv, OwnerInv, PlaceInv, PumpInv,
      [Next]_vars
  PROVE  PumpInv'
<1> USE SessionsAssumption DEF Runtime, None, sessionVars, runtimeVars, clientVars, historyVars
<1>1. ASSUME NEW c \in Client, Open(c)
      PROVE  PumpInv'
  <2>1. \A d \in Client \ {c} : pc'[d] = pc[d] /\ rt'[d] = rt[d]
    BY <1>1, OpenEffect
  <2>2. /\ pc[c] = "idle" /\ pc'[c] \in {"opening", "attaching", "touching", "ready"}
        /\ pc'[c] = "opening" => entry.rt = 0
        /\ UNCHANGED <<entry, native, inbox, pump, subs, interrupted>>
    BY <1>1, OpenEffect
  <2>3. \A d \in Client : pc[d] # "recording"
    BY <1>1, OpenEffect DEF InOpen
  <2> QED
    BY <2>1, <2>2, <2>3 DEF PumpInv, PumpsRest, PumpRuns, TurnsWaitedFor, Handed
<1>2. ASSUME NEW c \in Client, Attached(c)
      PROVE  PumpInv'
  BY <1>2 DEF Attached, Touch, Go, Handed, PumpInv, PumpsRest, PumpRuns, TurnsWaitedFor
<1>3. ASSUME NEW c \in Client, AttachFails(c)
      PROVE  PumpInv'
  BY <1>3 DEF AttachFails, Leave, Go, ClientsOK, PumpInv, PumpsRest, PumpRuns,
     TurnsWaitedFor, InOpen
<1>4. ASSUME NEW c \in Client, OpenFails(c)
      PROVE  PumpInv'
  BY <1>4 DEF OpenFails, Leave, Go, ClientsOK, PumpInv, PumpsRest, PumpRuns,
     TurnsWaitedFor
<1>5. ASSUME NEW c \in Client, OpenSession(c)
      PROVE  PumpInv'
  <2>1. pc[c] = "opening" /\ entry.rt = 0 /\ adapter[rt[c]] = "opening" /\ rt[c] \in Runtime
    BY <1>5 DEF OpenSession, OwnerInv, ClientsOK
  <2>2. pc'[c] = "recording" /\ \A d \in Client \ {c} : pc'[d] = pc[d]
    BY <1>5 DEF OpenSession, Go, ClientsOK
  <2>3. entry'.rt = rt[c] /\ UNCHANGED <<rt, native, inbox, pump, subs, interrupted>>
    BY <1>5 DEF OpenSession, NoEntry
  <2>4. \A d \in Client : pc[d] \in Handed => rt[d] # rt[c]
    BY <2>1 DEF OwnerInv, Opened
  <2>5. \A d \in Client : pc[d] = "running" => rt[d] # 0
    BY DEF OwnerInv, Handed
  <2> QED
    BY <2>1, <2>2, <2>3, <2>4, <2>5 DEF PumpInv, PumpsRest, PumpRuns, TurnsWaitedFor,
       Handed
<1>6. ASSUME NEW c \in Client, RecordSession(c)
      PROVE  PumpInv'
  BY <1>6 DEF RecordSession, Touch, Go, ClientsOK, RuntimesOK, OwnerInv, PumpInv,
     PumpsRest, PumpRuns, TurnsWaitedFor, InOpen
<1>7. ASSUME NEW c \in Client, RecordFails(c)
      PROVE  PumpInv'
  <2>1. UNCHANGED <<native, inbox, pump, interrupted>> /\ pc' = [pc EXCEPT ![c] = "done"]
        /\ rt' = [rt EXCEPT ![c] = 0]
    BY <1>7 DEF RecordFails, Leave, Go
  <2>2. \A d \in Client : pc'[d] = "running" => pc[d] = "running" /\ rt'[d] = rt[d]
    BY <2>1 DEF ClientsOK
  <2>3. CASE Remove
    BY <2>1, <2>2, <2>3, RemovedPumps
  <2>4. CASE entry.rt = 0 /\ UNCHANGED <<entry, subs, adapter>>
    BY <2>1, <2>2, <2>4 DEF PumpInv, PumpsRest, PumpRuns, TurnsWaitedFor
  <2> QED
    BY <1>7, <2>3, <2>4 DEF RecordFails
<1>8. ASSUME NEW c \in Client, Touched(c)
      PROVE  PumpInv'
  <2>1. entry'.rt = entry.rt /\ UNCHANGED <<native, inbox, pump, subs, interrupted>>
    BY <1>8, Armed DEF Touched
  <2>2. CASE pc[c] = "touching" /\ pc' = [pc EXCEPT ![c] = "ready"] /\ UNCHANGED rt
    BY <2>1, <2>2 DEF PumpInv, PumpsRest, PumpRuns, TurnsWaitedFor, ClientsOK, Handed
  <2>3. CASE pc[c] = "failing" /\ pc' = [pc EXCEPT ![c] = "done"] /\ rt' = [rt EXCEPT ![c] = 0]
    BY <2>1, <2>3 DEF PumpInv, PumpsRest, PumpRuns, TurnsWaitedFor, ClientsOK, Handed
  <2> QED
    BY <1>8, <2>2, <2>3 DEF Touched, Go, Leave
<1>9. ASSUME NEW c \in Client, MarkBusy(c)
      PROVE  PumpInv'
  <2>1. entry'.rt = entry.rt
    BY <1>9 DEF MarkBusy, EntryOK, EntryRecord
  <2>2. /\ pc[c] = "ready" /\ pc'[c] = "starting"
        /\ \A d \in Client \ {c} : pc'[d] = pc[d]
        /\ UNCHANGED <<rt, native, inbox, pump, interrupted>>
    BY <1>9 DEF MarkBusy, Go, ClientsOK
  <2>3. \A r \in Runtime, d \in Client \ {c} : d \in subs'[r] => d \in subs[r]
    BY <1>9 DEF MarkBusy, RuntimesOK
  <2>4. \A d \in Client : pc[d] = "running" => rt[d] \in Runtime
    BY DEF OwnerInv, Handed, ClientsOK
  <2> QED
    BY <2>1, <2>2, <2>3, <2>4 DEF PumpInv, PumpsRest, PumpRuns, TurnsWaitedFor, Handed
<1>10. ASSUME NEW c \in Client, StartTurn(c)
       PROVE  PumpInv'
  BY <1>10 DEF StartTurn, Go, ClientsOK, RuntimesOK, OwnerInv, Handed, PumpInv, PumpsRest,
     PumpRuns, TurnsWaitedFor
<1>11. ASSUME NEW c \in Client, StartFails(c)
       PROVE  PumpInv'
  <2>1. \A d \in Client \ {c} : pc'[d] = pc[d] /\ rt'[d] = rt[d]
    BY <1>11, StartFailsEffect
  <2>2. /\ pc[c] = "starting" /\ pc'[c] \in {"failing", "done"}
        /\ pc'[c] = "failing" => rt'[c] = rt[c]
        /\ entry'.rt = entry.rt
        /\ UNCHANGED <<native, inbox, pump, interrupted>>
    BY <1>11, StartFailsEffect
  <2>3. \A r \in Runtime : subs'[r] \subseteq subs[r]
    BY <1>11, StartFailsEffect
  <2>4. \A d \in Client : pc[d] = "running" => rt[d] \in Runtime
    BY DEF OwnerInv, Handed, ClientsOK
  <2> QED
    BY <2>1, <2>2, <2>3, <2>4 DEF PumpInv, PumpsRest, PumpRuns, TurnsWaitedFor, Handed
<1>12. ASSUME NEW c \in Client, TurnAnswered(c)
       PROVE  PumpInv'
  BY <1>12 DEF TurnAnswered, Leave, Go, ClientsOK, Steps, PumpInv, PumpsRest, PumpRuns,
     TurnsWaitedFor
<1>13. ASSUME NEW c \in Client, Interrupted(c)
       PROVE  PumpInv'
  BY <1>13 DEF Interrupted, Leave, Go, ClientsOK, Steps, RuntimesOK, OwnerInv, Handed,
     PumpInv, PumpsRest, PumpRuns, TurnsWaitedFor, InOpen
<1>14. ASSUME NEW i \in Timer, IdleWindowEnds(i)
       PROVE  PumpInv'
  BY <1>14 DEF IdleWindowEnds, PumpInv, PumpsRest, PumpRuns, TurnsWaitedFor
<1>15. ASSUME NEW i \in Timer, DeferIdleRelease(i)
       PROVE  PumpInv'
  BY <1>15 DEF DeferIdleRelease, EntryOK, EntryRecord, PumpInv, PumpsRest, PumpRuns,
     TurnsWaitedFor
<1>16. ASSUME NEW i \in Timer, IdleRelease(i)
       PROVE  PumpInv'
  <2>1. UNCHANGED <<native, inbox, pump, interrupted, pc, rt>>
    BY <1>16 DEF IdleRelease
  <2>2. CASE Remove
    BY <2>1, <2>2, RemovedPumps
  <2>3. CASE UNCHANGED <<entry, subs, adapter>>
    BY <2>1, <2>3 DEF PumpInv, PumpsRest, PumpRuns, TurnsWaitedFor
  <2> QED
    BY <1>16, <2>2, <2>3 DEF IdleRelease
<1>17. ASSUME NEW r \in Runtime, NEW c \in Client, PumpTerminal(r, c)
       PROVE  PumpInv'
  <2>1. /\ ~pump[r].busy /\ entry'.rt = entry.rt /\ UNCHANGED <<native, pc, rt, interrupted>>
        /\ inbox'[r] = inbox[r] \ {c} /\ \A q \in Runtime \ {r} : inbox'[q] = inbox[q]
    BY <1>17, PumpTerminalEffect
  <2>2. \A d \in Client : pc[d] = "running" => rt[d] \in Runtime
    BY DEF OwnerInv, Handed, ClientsOK
  <2>3. pump[r].event = {}
    BY <2>1 DEF PumpInv, PumpsRest, PumpRuns, TurnsWaitedFor
  <2>4. CASE pump' = [pump EXCEPT ![r].busy = TRUE, ![r].event = {c}] /\ UNCHANGED subs
    <3>1. /\ pump'[r].busy /\ pump'[r].event = {c}
          /\ \A q \in Runtime \ {r} : pump'[q] = pump[q]
          /\ \A q \in Runtime : pump'[q].on = pump[q].on
      BY <2>4 DEF RuntimesOK, PumpRecord
    <3>2. entry.rt # 0 => entry.rt \in Runtime
      BY DEF EntryOK, EntryRecord
    <3>3. \A q \in Runtime : ~pump'[q].busy => pump'[q].event = {}
      BY <3>1 DEF PumpInv, PumpsRest, PumpRuns, TurnsWaitedFor
    <3>4. ASSUME NEW d \in Client, pc[d] = "running", d \in subs[rt[d]]
          PROVE  d \in native[rt[d]] \cup inbox'[rt[d]] \cup pump'[rt[d]].event
      <4>1. d \in native[rt[d]] \cup inbox[rt[d]] \cup pump[rt[d]].event
        BY <3>4 DEF PumpInv, PumpsRest, PumpRuns, TurnsWaitedFor
      <4>2. CASE rt[d] = r
        BY <2>1, <2>3, <3>1, <4>1, <4>2
      <4>3. CASE rt[d] # r
        BY <2>1, <2>2, <3>1, <3>4, <4>1, <4>3
      <4> QED
        BY <4>2, <4>3
    <3> QED
      <4>1. PumpsRest'
        BY <3>3 DEF PumpsRest
      <4>2. PumpRuns'
        BY <2>1, <3>1, <3>2 DEF PumpInv, PumpRuns
      <4>3. TurnsWaitedFor'
        BY <2>1, <2>4, <3>4 DEF PumpInv, TurnsWaitedFor
      <4> QED
        BY <4>1, <4>2, <4>3 DEF PumpInv
  <2>5. CASE UNCHANGED pump /\ subs' = [subs EXCEPT ![r] = @ \ {c}]
    <3>1. subs'[r] = subs[r] \ {c} /\ \A q \in Runtime \ {r} : subs'[q] = subs[q]
      BY <2>5 DEF RuntimesOK
    <3> QED
      BY <2>1, <2>2, <2>3, <2>5, <3>1 DEF PumpInv, PumpsRest, PumpRuns, TurnsWaitedFor
  <2> QED
    BY <1>17, <2>4, <2>5, PumpTerminalEffect
<1>18. ASSUME NEW r \in Runtime, PumpTouched(r)
       PROVE  PumpInv'
  BY <1>18 DEF PumpTouched, ArmIdleRelease, Publish, Steps, EntryOK, EntryRecord,
     RuntimesOK, PumpRecord, OwnerInv, Handed, PlaceInv, PumpInv, PumpsRest, PumpRuns,
     TurnsWaitedFor
<1>19. ASSUME NEW r \in Runtime, PumpOther(r)
       PROVE  PumpInv'
  <2>1. ~pump[r].busy /\ UNCHANGED <<entry, native, inbox, pc, rt, interrupted>>
    BY <1>19 DEF PumpOther, PumpReady
  <2>2. pump[r].event = {}
    BY <2>1 DEF PumpInv, PumpsRest, PumpRuns, TurnsWaitedFor
  <2>3. CASE pump' = [pump EXCEPT ![r].busy = TRUE, ![r].event = {}] /\ UNCHANGED subs
    <3>1. /\ pump'[r].busy /\ \A q \in Runtime : pump'[q].event = pump[q].event
          /\ \A q \in Runtime \ {r} : pump'[q] = pump[q]
          /\ \A q \in Runtime : pump'[q].on = pump[q].on
      BY <2>2, <2>3 DEF RuntimesOK, PumpRecord
    <3>2. entry.rt # 0 => entry.rt \in Runtime
      BY DEF EntryOK, EntryRecord
    <3>3. \A d \in Client : pc[d] = "running" => rt[d] \in Runtime
      BY DEF OwnerInv, Handed, ClientsOK
    <3>4. \A q \in Runtime : ~pump'[q].busy => pump'[q].event = {}
      BY <2>2, <3>1 DEF PumpInv, PumpsRest, PumpRuns, TurnsWaitedFor
    <3> QED
      <4>1. PumpsRest'
        BY <3>4 DEF PumpsRest
      <4>2. PumpRuns'
        BY <2>1, <3>1, <3>2 DEF PumpInv, PumpRuns
      <4>3. TurnsWaitedFor'
        <5>1. SUFFICES ASSUME NEW d \in Client, pc[d] = "running", d \in subs[rt[d]]
                       PROVE  /\ entry.rt = rt[d]
                              /\ d \in native[rt[d]] \cup inbox[rt[d]] \cup pump'[rt[d]].event
          BY <2>1, <2>3 DEF TurnsWaitedFor
        <5>2. pump'[rt[d]].event = pump[rt[d]].event
          BY <3>1, <3>3, <5>1
        <5> QED
          BY <5>1, <5>2 DEF PumpInv, TurnsWaitedFor
      <4> QED
        BY <4>1, <4>2, <4>3 DEF PumpInv
  <2>4. CASE UNCHANGED pump /\ subs' = [subs EXCEPT ![r] = @ \ {}]
    <3>1. \A q \in Runtime : subs'[q] = subs[q]
      BY <2>4 DEF RuntimesOK
    <3>2. \A d \in Client : pc[d] = "running" => rt[d] \in Runtime
      BY DEF OwnerInv, Handed, ClientsOK
    <3> QED
      BY <2>1, <2>4, <3>1, <3>2 DEF PumpInv, PumpsRest, PumpRuns, TurnsWaitedFor
  <2> QED
    BY <1>19, <2>3, <2>4 DEF PumpOther, HoldOrPublish, Publish
<1>20. ASSUME NEW r \in Runtime, StreamEnds(r)
       PROVE  PumpInv'
  BY <1>20 DEF StreamEnds, Remove, NoEntry, RuntimesOK, PumpInv, PumpsRest, PumpRuns,
     TurnsWaitedFor
<1>21. ASSUME NEW r \in Runtime, Closed(r)
       PROVE  PumpInv'
  BY <1>21 DEF Closed, Steps, OwnerInv, PumpInv, PumpsRest, PumpRuns, TurnsWaitedFor,
     InOpen
<1>22. ASSUME NEW r \in Runtime, NEW c \in Client, TurnEnds(r, c)
       PROVE  PumpInv'
  BY <1>22 DEF TurnEnds, Steps, RuntimesOK, PumpInv, PumpsRest, PumpRuns, TurnsWaitedFor,
     InOpen
<1>23. ASSUME Close
       PROVE  PumpInv'
  BY <1>23 DEF Close, Remove, NoEntry, ClientsOK, RuntimesOK, PumpInv, PumpsRest,
     PumpRuns, TurnsWaitedFor
<1>24. CASE UNCHANGED vars
  BY <1>24 DEF vars, PumpInv, PumpsRest, PumpRuns, TurnsWaitedFor
<1> QED
  BY <1>1, <1>2, <1>3, <1>4, <1>5, <1>6, <1>7, <1>8, <1>9, <1>10, <1>11, <1>12, <1>13,
     <1>14, <1>15, <1>16, <1>17, <1>18, <1>19, <1>20, <1>21, <1>22, <1>23, <1>24 DEF Next,
     ClientStep, TimerStep, PumpStep

\* Each step leaves the map's session recorded as ready.
LEMMA SessionStaysRecorded ==
  ASSUME ClientsOK, EntryOK, TimersOK, RuntimesOK, LockInv, OwnerInv, RecordInv, [Next]_vars
  PROVE  RecordInv'
<1> USE SessionsAssumption DEF Runtime, None, sessionVars, runtimeVars, clientVars, historyVars
<1>1. ASSUME NEW c \in Client, Open(c)
      PROVE  RecordInv'
  <2>1. \A d \in Client \ {c} : pc'[d] = pc[d] /\ rt'[d] = rt[d]
    BY <1>1, OpenEffect
  <2>2. /\ pc[c] = "idle" /\ pc'[c] \in {"opening", "attaching", "touching", "ready"}
        /\ UNCHANGED <<entry, persisted, interrupted>>
    BY <1>1, OpenEffect
  <2>3. \A d \in Client : pc[d] # "recording" /\ pc[d] # "opening"
    BY <1>1, OpenEffect DEF InOpen
  <2>4. CASE entry.rt # 0
    <3>1. UNCHANGED <<adapter, outrun>> /\ pc'[c] # "opening"
      BY <1>1, <2>4, OpenEffect
    <3> QED
      BY <2>1, <2>2, <2>3, <2>4, <3>1 DEF RecordInv, Handed
  <2>5. CASE entry.rt = 0
    <3>1. /\ adapter'[rt'[c]] = "opening" /\ rt'[c] \in Runtime
          /\ \A r \in Runtime : r # rt'[c] => adapter'[r] = adapter[r]
          /\ ~outrun' => ~outrun /\ \A r \in Runtime : adapter[r] # "closing"
      BY <1>1, <2>5, OpenEffect
    <3> QED
      BY <2>2, <2>5, <3>1 DEF RecordInv
  <2> QED
    BY <2>4, <2>5
<1>2. ASSUME NEW c \in Client, Attached(c)
      PROVE  RecordInv'
  BY <1>2 DEF Attached, Touch, Go, RecordInv
<1>3. ASSUME NEW c \in Client, AttachFails(c)
      PROVE  RecordInv'
  BY <1>3 DEF AttachFails, Leave, Go, ClientsOK, RecordInv
<1>4. ASSUME NEW c \in Client, OpenFails(c)
      PROVE  RecordInv'
  BY <1>4 DEF OpenFails, OwnerInv, RecordInv
<1>5. ASSUME NEW c \in Client, OpenSession(c)
      PROVE  RecordInv'
  BY <1>5 DEF OpenSession, Go, ClientsOK, OwnerInv, Opened, RecordInv
<1>6. ASSUME NEW c \in Client, RecordSession(c)
      PROVE  RecordInv'
  BY <1>6 DEF RecordSession, Touch, Go, RecordInv
<1>7. ASSUME NEW c \in Client, RecordFails(c)
      PROVE  RecordInv'
  BY <1>7 DEF RecordFails, Remove, Leave, Go, NoEntry, OwnerInv, RecordInv
<1>8. ASSUME NEW c \in Client, Touched(c)
      PROVE  RecordInv'
  <2>1. entry'.rt = entry.rt /\ UNCHANGED <<adapter, persisted, interrupted, outrun>>
    BY <1>8, Armed DEF Touched
  <2>2. CASE pc[c] = "touching" /\ pc' = [pc EXCEPT ![c] = "ready"] /\ UNCHANGED rt
    BY <2>1, <2>2 DEF RecordInv, ClientsOK, Handed
  <2>3. CASE pc[c] = "failing" /\ pc' = [pc EXCEPT ![c] = "done"] /\ rt' = [rt EXCEPT ![c] = 0]
    BY <2>1, <2>3 DEF RecordInv, ClientsOK, Handed
  <2> QED
    BY <1>8, <2>2, <2>3 DEF Touched, Go, Leave
<1>9. ASSUME NEW c \in Client, MarkBusy(c)
      PROVE  RecordInv'
  <2>1. CASE entry.rt = 0
    BY <1>9, <2>1 DEF MarkBusy, Go, ClientsOK, RecordInv, Handed, InOpen
  <2>2. CASE entry.rt # 0
    <3>1. entry'.rt = entry.rt
      BY <1>9, <2>2 DEF MarkBusy, EntryOK, EntryRecord
    <3>2. /\ pc[c] = "ready" /\ pc' = [pc EXCEPT ![c] = "starting"]
          /\ UNCHANGED <<adapter, rt, persisted, interrupted, outrun>>
      BY <1>9 DEF MarkBusy, Go
    <3> QED
      BY <3>1, <3>2 DEF ClientsOK, RecordInv, Handed
  <2> QED
    BY <2>1, <2>2
<1>10. ASSUME NEW c \in Client, StartTurn(c)
       PROVE  RecordInv'
  BY <1>10 DEF StartTurn, OwnerInv, Handed, RecordInv
<1>11. ASSUME NEW c \in Client, StartFails(c)
       PROVE  RecordInv'
  <2>1. \A d \in Client \ {c} : pc'[d] = pc[d] /\ rt'[d] = rt[d]
    BY <1>11, StartFailsEffect
  <2>2. /\ pc[c] = "starting" /\ pc'[c] \in {"failing", "done"}
        /\ pc'[c] = "failing" => rt'[c] = rt[c]
        /\ entry'.rt = entry.rt
        /\ UNCHANGED <<adapter, persisted, interrupted, outrun>>
    BY <1>11, StartFailsEffect
  <2> QED
    BY <2>1, <2>2 DEF RecordInv, Handed
<1>12. ASSUME NEW c \in Client, TurnAnswered(c)
       PROVE  RecordInv'
  BY <1>12 DEF TurnAnswered, Leave, Go, ClientsOK, RecordInv
<1>13. ASSUME NEW c \in Client, Interrupted(c)
       PROVE  RecordInv'
  BY <1>13 DEF Interrupted, Leave, Go, RecordInv
<1>14. ASSUME NEW i \in Timer, IdleWindowEnds(i)
       PROVE  RecordInv'
  BY <1>14 DEF IdleWindowEnds, RecordInv
<1>15. ASSUME NEW i \in Timer, DeferIdleRelease(i)
       PROVE  RecordInv'
  BY <1>15 DEF DeferIdleRelease, EntryOK, EntryRecord, RecordInv
<1>16. ASSUME NEW i \in Timer, IdleRelease(i)
       PROVE  RecordInv'
  <2>1. UNCHANGED <<pc, rt, persisted, interrupted, outrun>>
    BY <1>16 DEF IdleRelease
  <2>2. CASE StillIdle(i)
    <3>1. entry'.rt = 0
      BY <1>16, <2>2 DEF IdleRelease, Remove, NoEntry
    <3>2. \A d \in Client : pc[d] # "opening"
      BY <2>2 DEF StillIdle, OwnerInv
    <3> QED
      BY <2>1, <3>1, <3>2 DEF RecordInv
  <2>3. CASE UNCHANGED <<entry, subs, adapter>>
    BY <2>1, <2>3 DEF RecordInv
  <2> QED
    BY <1>16, <2>2, <2>3 DEF IdleRelease
<1>17. ASSUME NEW r \in Runtime, NEW c \in Client, PumpTerminal(r, c)
       PROVE  RecordInv'
  <2>1. entry'.rt = entry.rt /\ UNCHANGED <<adapter, pc, rt, persisted, interrupted, outrun>>
    BY <1>17, PumpTerminalEffect
  <2> QED
    BY <2>1 DEF RecordInv
<1>18. ASSUME NEW r \in Runtime, PumpTouched(r)
       PROVE  RecordInv'
  <2>1. entry'.rt = entry.rt
    BY <1>18, Armed DEF PumpTouched
  <2> QED
    BY <1>18, <2>1 DEF PumpTouched, RecordInv
<1>19. ASSUME NEW r \in Runtime, PumpOther(r)
       PROVE  RecordInv'
  BY <1>19 DEF PumpOther, RecordInv
<1>20. ASSUME NEW r \in Runtime, StreamEnds(r)
       PROVE  RecordInv'
  BY <1>20 DEF StreamEnds, Remove, NoEntry, OwnerInv, RecordInv
<1>21. ASSUME NEW r \in Runtime, Closed(r)
       PROVE  RecordInv'
  BY <1>21 DEF Closed, RecordInv
<1>22. ASSUME NEW r \in Runtime, NEW c \in Client, TurnEnds(r, c)
       PROVE  RecordInv'
  BY <1>22 DEF TurnEnds, RecordInv
<1>23. ASSUME Close
       PROVE  RecordInv'
  BY <1>23 DEF Close, Remove, NoEntry, OwnerInv, RecordInv
<1>24. CASE UNCHANGED vars
  BY <1>24 DEF vars, RecordInv
<1> QED
  BY <1>1, <1>2, <1>3, <1>4, <1>5, <1>6, <1>7, <1>8, <1>9, <1>10, <1>11, <1>12, <1>13,
     <1>14, <1>15, <1>16, <1>17, <1>18, <1>19, <1>20, <1>21, <1>22, <1>23, <1>24 DEF Next,
     ClientStep, TimerStep, PumpStep

\* Each step leaves the live runtimes in the map.
LEMMA LiveStayOwned ==
  ASSUME ClientsOK, EntryOK, TimersOK, RuntimesOK, OwnerInv, LiveRuntimesAreOwned, [Next]_vars
  PROVE  LiveRuntimesAreOwned'
<1> USE SessionsAssumption DEF Runtime, None, sessionVars, runtimeVars, clientVars, historyVars
<1>1. ASSUME NEW c \in Client, Open(c)
      PROVE  LiveRuntimesAreOwned'
  <2>1. UNCHANGED <<entry, interrupted>>
    BY <1>1, OpenEffect
  <2>2. \A r \in Runtime : adapter'[r] = "live" => adapter[r] = "live"
    BY <1>1, OpenEffect
  <2> QED
    BY <2>1, <2>2 DEF LiveRuntimesAreOwned
<1>2. ASSUME NEW c \in Client, Attached(c)
      PROVE  LiveRuntimesAreOwned'
  BY <1>2 DEF Attached, LiveRuntimesAreOwned
<1>3. ASSUME NEW c \in Client, AttachFails(c)
      PROVE  LiveRuntimesAreOwned'
  BY <1>3 DEF AttachFails, LiveRuntimesAreOwned
<1>4. ASSUME NEW c \in Client, OpenFails(c)
      PROVE  LiveRuntimesAreOwned'
  BY <1>4 DEF OpenFails, LiveRuntimesAreOwned
<1>5. ASSUME NEW c \in Client, OpenSession(c)
      PROVE  LiveRuntimesAreOwned'
  BY <1>5 DEF OpenSession, OwnerInv, LiveRuntimesAreOwned
<1>6. ASSUME NEW c \in Client, RecordSession(c)
      PROVE  LiveRuntimesAreOwned'
  BY <1>6 DEF RecordSession, LiveRuntimesAreOwned
<1>7. ASSUME NEW c \in Client, RecordFails(c)
      PROVE  LiveRuntimesAreOwned'
  BY <1>7 DEF RecordFails, Remove, RuntimesOK, LiveRuntimesAreOwned
<1>8. ASSUME NEW c \in Client, Touched(c)
      PROVE  LiveRuntimesAreOwned'
  <2>1. entry'.rt = entry.rt
    BY <1>8, Armed DEF Touched
  <2> QED
    BY <1>8, <2>1 DEF Touched, LiveRuntimesAreOwned
<1>9. ASSUME NEW c \in Client, MarkBusy(c)
      PROVE  LiveRuntimesAreOwned'
  BY <1>9 DEF MarkBusy, EntryOK, EntryRecord, LiveRuntimesAreOwned
<1>10. ASSUME NEW c \in Client, StartTurn(c)
       PROVE  LiveRuntimesAreOwned'
  BY <1>10 DEF StartTurn, LiveRuntimesAreOwned
<1>11. ASSUME NEW c \in Client, StartFails(c)
       PROVE  LiveRuntimesAreOwned'
  <2>1. entry'.rt = entry.rt /\ UNCHANGED <<adapter, interrupted>>
    BY <1>11, StartFailsEffect
  <2> QED
    BY <2>1 DEF LiveRuntimesAreOwned
<1>12. ASSUME NEW c \in Client, TurnAnswered(c)
       PROVE  LiveRuntimesAreOwned'
  BY <1>12 DEF TurnAnswered, LiveRuntimesAreOwned
<1>13. ASSUME NEW c \in Client, Interrupted(c)
       PROVE  LiveRuntimesAreOwned'
  BY <1>13 DEF Interrupted, LiveRuntimesAreOwned
<1>14. ASSUME NEW i \in Timer, IdleWindowEnds(i)
       PROVE  LiveRuntimesAreOwned'
  BY <1>14 DEF IdleWindowEnds, LiveRuntimesAreOwned
<1>15. ASSUME NEW i \in Timer, DeferIdleRelease(i)
       PROVE  LiveRuntimesAreOwned'
  BY <1>15 DEF DeferIdleRelease, EntryOK, EntryRecord, LiveRuntimesAreOwned
<1>16. ASSUME NEW i \in Timer, IdleRelease(i)
       PROVE  LiveRuntimesAreOwned'
  BY <1>16 DEF IdleRelease, Remove, RuntimesOK, LiveRuntimesAreOwned
<1>17. ASSUME NEW r \in Runtime, NEW c \in Client, PumpTerminal(r, c)
       PROVE  LiveRuntimesAreOwned'
  <2>1. entry'.rt = entry.rt /\ UNCHANGED <<adapter, interrupted>>
    BY <1>17, PumpTerminalEffect
  <2> QED
    BY <2>1 DEF LiveRuntimesAreOwned
<1>18. ASSUME NEW r \in Runtime, PumpTouched(r)
       PROVE  LiveRuntimesAreOwned'
  <2>1. entry'.rt = entry.rt
    BY <1>18, Armed DEF PumpTouched
  <2> QED
    BY <1>18, <2>1 DEF PumpTouched, LiveRuntimesAreOwned
<1>19. ASSUME NEW r \in Runtime, PumpOther(r)
       PROVE  LiveRuntimesAreOwned'
  BY <1>19 DEF PumpOther, LiveRuntimesAreOwned
<1>20. ASSUME NEW r \in Runtime, StreamEnds(r)
       PROVE  LiveRuntimesAreOwned'
  BY <1>20 DEF StreamEnds, Remove, RuntimesOK, LiveRuntimesAreOwned
<1>21. ASSUME NEW r \in Runtime, Closed(r)
       PROVE  LiveRuntimesAreOwned'
  BY <1>21 DEF Closed, LiveRuntimesAreOwned
<1>22. ASSUME NEW r \in Runtime, NEW c \in Client, TurnEnds(r, c)
       PROVE  LiveRuntimesAreOwned'
  BY <1>22 DEF TurnEnds, LiveRuntimesAreOwned
<1>23. ASSUME Close
       PROVE  LiveRuntimesAreOwned'
  BY <1>23 DEF Close, Remove, RuntimesOK, LiveRuntimesAreOwned
<1>24. CASE UNCHANGED vars
  BY <1>24 DEF vars, LiveRuntimesAreOwned
<1> QED
  BY <1>1, <1>2, <1>3, <1>4, <1>5, <1>6, <1>7, <1>8, <1>9, <1>10, <1>11, <1>12, <1>13,
     <1>14, <1>15, <1>16, <1>17, <1>18, <1>19, <1>20, <1>21, <1>22, <1>23, <1>24 DEF Next,
     ClientStep, TimerStep, PumpStep

\* What a step does to the number of the turns counted: nothing when it leaves
\* the runtime, its count and the turns alone, and a removal empties both.
LEMMA CountKept ==
  ASSUME BusyCountIsTurns, entry'.rt = entry.rt, entry'.busy = entry.busy,
         UNCHANGED <<counted, crossed>>
  PROVE  BusyCountIsTurns'
BY DEF BusyCountIsTurns

LEMMA CountEmptied ==
  ASSUME entry'.busy = 0, \A d \in Client : entry'.rt = 0 \/ counted'[d] # entry'.rt
  PROVE  BusyCountIsTurns'
<1>1. TurnsCounted' = {}
  BY DEF TurnsCounted
<1> QED
  BY <1>1, FS_EmptySet DEF BusyCountIsTurns, TurnsCounted

\* Counting a turn down takes it out of the turns counted.
LEMMA CountedDown ==
  ASSUME BusyCountIsTurns, NEW c \in Client,
         entry'.rt = entry.rt,
         entry'.busy = IF entry.busy = 0 THEN 0 ELSE entry.busy - 1,
         counted'[c] = 0, \A d \in Client \ {c} : counted'[d] = counted[d],
         crossed' = (crossed \/ entry.rt \notin {0, counted[c]})
  PROVE  BusyCountIsTurns'
<1> SUFFICES ASSUME ~crossed' PROVE entry'.busy = Cardinality(TurnsCounted')
  BY DEF BusyCountIsTurns, TurnsCounted
<1>1. entry.busy = Cardinality(TurnsCounted) /\ entry.rt \in {0, counted[c]}
  BY DEF BusyCountIsTurns, TurnsCounted
<1>2. CASE entry.rt = 0
  <2>1. TurnsCounted = {} /\ TurnsCounted' = {}
    BY <1>2 DEF TurnsCounted
  <2> QED
    BY <1>1, <2>1, FS_EmptySet
<1>3. CASE entry.rt # 0
  <2>1. c \in TurnsCounted /\ TurnsCounted' = TurnsCounted \ {c}
    BY <1>1, <1>3 DEF TurnsCounted
  <2>2. IsFiniteSet(TurnsCounted)
    BY SessionsAssumption, FS_Subset DEF TurnsCounted
  <2>3. Cardinality(TurnsCounted') = Cardinality(TurnsCounted) - 1
    BY <2>1, <2>2, FS_RemoveElement
  <2>4. Cardinality(TurnsCounted) \in Nat /\ Cardinality(TurnsCounted) # 0
    BY <2>1, <2>2, FS_CardinalityType, FS_EmptySet
  <2> QED
    BY <1>1, <2>3, <2>4
<1> QED
  BY <1>2, <1>3

\* Each step leaves the busy count the number of the turns.
LEMMA BusyStaysCounted ==
  ASSUME ClientsOK, EntryOK, TimersOK, RuntimesOK, OwnerInv, CountedInv, BusyCountIsTurns,
      [Next]_vars
  PROVE  BusyCountIsTurns'
<1> USE SessionsAssumption DEF Runtime, None, sessionVars, runtimeVars, clientVars, historyVars
<1>1. ASSUME NEW c \in Client, Open(c)
      PROVE  BusyCountIsTurns'
  <2>1. entry'.rt = entry.rt /\ entry'.busy = entry.busy /\ UNCHANGED <<counted, crossed>>
    BY <1>1, OpenEffect
  <2> QED
    BY <2>1, CountKept
<1>2. ASSUME NEW c \in Client, Attached(c)
      PROVE  BusyCountIsTurns'
  <2>1. entry'.rt = entry.rt /\ entry'.busy = entry.busy /\ UNCHANGED <<counted, crossed>>
    BY <1>2 DEF Attached
  <2> QED
    BY <2>1, CountKept
<1>3. ASSUME NEW c \in Client, AttachFails(c)
      PROVE  BusyCountIsTurns'
  <2>1. entry'.rt = entry.rt /\ entry'.busy = entry.busy /\ UNCHANGED <<counted, crossed>>
    BY <1>3 DEF AttachFails
  <2> QED
    BY <2>1, CountKept
<1>4. ASSUME NEW c \in Client, OpenFails(c)
      PROVE  BusyCountIsTurns'
  <2>1. entry'.rt = entry.rt /\ entry'.busy = entry.busy /\ UNCHANGED <<counted, crossed>>
    BY <1>4 DEF OpenFails
  <2> QED
    BY <2>1, CountKept
<1>5. ASSUME NEW c \in Client, OpenSession(c)
      PROVE  BusyCountIsTurns'
  <2>1. /\ rt[c] \in Runtime /\ adapter[rt[c]] = "opening"
        /\ entry'.rt = rt[c] /\ entry'.busy = 0 /\ UNCHANGED counted
    BY <1>5 DEF OpenSession, NoEntry, OwnerInv, ClientsOK
  <2>2. \A d \in Client : counted[d] # rt[c]
    BY <2>1 DEF CountedInv, Opened
  <2> QED
    BY <2>1, <2>2, CountEmptied
<1>6. ASSUME NEW c \in Client, RecordSession(c)
      PROVE  BusyCountIsTurns'
  <2>1. entry'.rt = entry.rt /\ entry'.busy = entry.busy /\ UNCHANGED <<counted, crossed>>
    BY <1>6 DEF RecordSession
  <2> QED
    BY <2>1, CountKept
<1>7. ASSUME NEW c \in Client, RecordFails(c)
      PROVE  BusyCountIsTurns'
  <2>1. CASE Remove
    <3>1. entry'.rt = 0 /\ entry'.busy = 0
      BY <2>1 DEF Remove, NoEntry
    <3> QED
      BY <3>1, CountEmptied
  <2>2. CASE UNCHANGED entry
    <3>1. UNCHANGED <<counted, crossed>>
      BY <1>7 DEF RecordFails
    <3> QED
      BY <2>2, <3>1, CountKept
  <2> QED
    BY <1>7, <2>1, <2>2 DEF RecordFails
<1>8. ASSUME NEW c \in Client, Touched(c)
      PROVE  BusyCountIsTurns'
  <2>1. entry'.rt = entry.rt /\ entry'.busy = entry.busy /\ UNCHANGED <<counted, crossed>>
    BY <1>8, Armed DEF Touched
  <2> QED
    BY <2>1, CountKept
<1>9. ASSUME NEW c \in Client, MarkBusy(c)
      PROVE  BusyCountIsTurns'
  <2>1. /\ counted[c] = 0 /\ counted'[c] = entry.rt /\ UNCHANGED crossed
        /\ \A d \in Client \ {c} : counted'[d] = counted[d]
    BY <1>9 DEF MarkBusy, ClientsOK, CountedInv, NotStarted, EntryOK, EntryRecord
  <2>2. CASE entry.rt = 0
    <3>1. UNCHANGED entry
      BY <1>9, <2>2 DEF MarkBusy
    <3>2. TurnsCounted' = TurnsCounted
      BY <2>2, <3>1 DEF TurnsCounted
    <3> QED
      BY <2>1, <3>1, <3>2 DEF BusyCountIsTurns, TurnsCounted
  <2>3. CASE entry.rt # 0
    <3>1. entry'.rt = entry.rt /\ entry'.busy = entry.busy + 1
      BY <1>9, <2>3 DEF MarkBusy, EntryOK, EntryRecord
    <3>2. TurnsCounted' = TurnsCounted \cup {c} /\ c \notin TurnsCounted
      BY <2>1, <2>3, <3>1 DEF TurnsCounted
    <3>3. IsFiniteSet(TurnsCounted)
      BY FS_Subset DEF TurnsCounted
    <3>4. Cardinality(TurnsCounted') = Cardinality(TurnsCounted) + 1
      BY <3>2, <3>3, FS_AddElement
    <3> QED
      BY <2>1, <3>1, <3>4 DEF BusyCountIsTurns, TurnsCounted
  <2> QED
    BY <2>2, <2>3
<1>10. ASSUME NEW c \in Client, StartTurn(c)
       PROVE  BusyCountIsTurns'
  <2>1. entry'.rt = entry.rt /\ entry'.busy = entry.busy /\ UNCHANGED <<counted, crossed>>
    BY <1>10 DEF StartTurn
  <2> QED
    BY <2>1, CountKept
<1>11. ASSUME NEW c \in Client, StartFails(c)
       PROVE  BusyCountIsTurns'
  <2>1. /\ entry'.rt = entry.rt
        /\ entry'.busy = IF entry.busy = 0 THEN 0 ELSE entry.busy - 1
        /\ counted'[c] = 0 /\ \A d \in Client \ {c} : counted'[d] = counted[d]
        /\ crossed' = (crossed \/ entry.rt \notin {0, counted[c]})
    BY <1>11, StartFailsEffect
  <2> QED
    BY <2>1, CountedDown
<1>12. ASSUME NEW c \in Client, TurnAnswered(c)
       PROVE  BusyCountIsTurns'
  <2>1. entry'.rt = entry.rt /\ entry'.busy = entry.busy /\ UNCHANGED <<counted, crossed>>
    BY <1>12 DEF TurnAnswered
  <2> QED
    BY <2>1, CountKept
<1>13. ASSUME NEW c \in Client, Interrupted(c)
       PROVE  BusyCountIsTurns'
  <2>1. entry'.rt = entry.rt /\ entry'.busy = entry.busy /\ UNCHANGED <<counted, crossed>>
    BY <1>13 DEF Interrupted
  <2> QED
    BY <2>1, CountKept
<1>14. ASSUME NEW i \in Timer, IdleWindowEnds(i)
       PROVE  BusyCountIsTurns'
  <2>1. entry'.rt = entry.rt /\ entry'.busy = entry.busy /\ UNCHANGED <<counted, crossed>>
    BY <1>14 DEF IdleWindowEnds
  <2> QED
    BY <2>1, CountKept
<1>15. ASSUME NEW i \in Timer, DeferIdleRelease(i)
       PROVE  BusyCountIsTurns'
  <2>1. entry'.rt = entry.rt /\ entry'.busy = entry.busy /\ UNCHANGED <<counted, crossed>>
    BY <1>15 DEF DeferIdleRelease, EntryOK, EntryRecord
  <2> QED
    BY <2>1, CountKept
<1>16. ASSUME NEW i \in Timer, IdleRelease(i)
       PROVE  BusyCountIsTurns'
  <2>1. CASE Remove
    <3>1. entry'.rt = 0 /\ entry'.busy = 0
      BY <2>1 DEF Remove, NoEntry
    <3> QED
      BY <3>1, CountEmptied
  <2>2. CASE UNCHANGED entry
    <3>1. UNCHANGED <<counted, crossed>>
      BY <1>16 DEF IdleRelease
    <3> QED
      BY <2>2, <3>1, CountKept
  <2> QED
    BY <1>16, <2>1, <2>2 DEF IdleRelease
<1>17. ASSUME NEW r \in Runtime, NEW c \in Client, PumpTerminal(r, c)
       PROVE  BusyCountIsTurns'
  <2>1. /\ entry'.rt = entry.rt
        /\ entry'.busy = IF entry.busy = 0 THEN 0 ELSE entry.busy - 1
        /\ counted'[c] = 0 /\ \A d \in Client \ {c} : counted'[d] = counted[d]
        /\ crossed' = (crossed \/ entry.rt \notin {0, counted[c]})
    BY <1>17, PumpTerminalEffect
  <2> QED
    BY <2>1, CountedDown
<1>18. ASSUME NEW r \in Runtime, PumpTouched(r)
       PROVE  BusyCountIsTurns'
  <2>1. entry'.rt = entry.rt /\ entry'.busy = entry.busy /\ UNCHANGED <<counted, crossed>>
    BY <1>18, Armed DEF PumpTouched
  <2> QED
    BY <2>1, CountKept
<1>19. ASSUME NEW r \in Runtime, PumpOther(r)
       PROVE  BusyCountIsTurns'
  <2>1. entry'.rt = entry.rt /\ entry'.busy = entry.busy /\ UNCHANGED <<counted, crossed>>
    BY <1>19 DEF PumpOther
  <2> QED
    BY <2>1, CountKept
<1>20. ASSUME NEW r \in Runtime, StreamEnds(r)
       PROVE  BusyCountIsTurns'
  <2>1. entry'.rt = 0 /\ entry'.busy = 0
    BY <1>20 DEF StreamEnds, Remove, NoEntry
  <2> QED
    BY <2>1, CountEmptied
<1>21. ASSUME NEW r \in Runtime, Closed(r)
       PROVE  BusyCountIsTurns'
  <2>1. entry'.rt = entry.rt /\ entry'.busy = entry.busy /\ UNCHANGED <<counted, crossed>>
    BY <1>21 DEF Closed
  <2> QED
    BY <2>1, CountKept
<1>22. ASSUME NEW r \in Runtime, NEW c \in Client, TurnEnds(r, c)
       PROVE  BusyCountIsTurns'
  <2>1. entry'.rt = entry.rt /\ entry'.busy = entry.busy /\ UNCHANGED <<counted, crossed>>
    BY <1>22 DEF TurnEnds
  <2> QED
    BY <2>1, CountKept
<1>23. ASSUME Close
       PROVE  BusyCountIsTurns'
  <2>1. entry'.rt = 0 /\ entry'.busy = 0
    BY <1>23 DEF Close, Remove, NoEntry
  <2> QED
    BY <2>1, CountEmptied
<1>24. CASE UNCHANGED vars
  BY <1>24 DEF vars, BusyCountIsTurns
<1> QED
  BY <1>1, <1>2, <1>3, <1>4, <1>5, <1>6, <1>7, <1>8, <1>9, <1>10, <1>11, <1>12, <1>13,
     <1>14, <1>15, <1>16, <1>17, <1>18, <1>19, <1>20, <1>21, <1>22, <1>23, <1>24 DEF Next,
     ClientStep, TimerStep, PumpStep

\* A session whose rescheduling has begun, or that is busy or gone, is timed.
LEMMA BegunTimed ==
  ASSUME TimersOK, NEW p \in Client \cup Runtime, NEW e \in EntryRecord, BeginSchedule(p, e),
         entry'.rt = e.rt, entry'.busy = e.busy
  PROVE  TimedInv'
<1>1. e.busy \in Nat /\ e.gen \in Nat
  BY DEF EntryRecord
<1>2. CASE e.rt = 0 \/ e.busy > 0
  BY <1>1, <1>2 DEF TimedInv, Schedules
<1>3. CASE ~(e.rt = 0 \/ e.busy > 0)
  <2>1. plan' = [plan EXCEPT ![p] = e.gen + 1]
    BY <1>3 DEF BeginSchedule
  <2>2. plan'[p] # 0
    BY <1>1, <2>1 DEF TimersOK
  <2> QED
    BY <2>2 DEF TimedInv
<1> QED
  BY <1>2, <1>3

\* So is one whose idle fiber has just been forked.
LEMMA ArmedTimed ==
  ASSUME TimersOK, EntryOK, NEW p \in Client \cup Runtime, ArmIdleRelease(p)
  PROVE  TimedInv'
<1>1. PICK i \in Timer :
         /\ timer' = [timer EXCEPT ![i] = Asleep(plan[p])]
         /\ entry' = IF Schedules(entry)
                     THEN [entry EXCEPT !.gen = plan[p], !.timer = i] ELSE entry
  BY DEF ArmIdleRelease
<1>2. timer'[i].stage = "sleeping" /\ timer'[i].gen = plan[p] /\ i # None
  BY <1>1 DEF TimersOK, Asleep, NoTimer, Timer, None
<1>3. CASE Schedules(entry)
  <2>1. entry'.gen = plan[p] /\ entry'.timer = i
    BY <1>1, <1>3 DEF EntryOK, EntryRecord
  <2> QED
    BY <1>2, <2>1 DEF TimedInv, Waiting
<1>4. CASE ~Schedules(entry)
  BY <1>1, <1>4 DEF TimedInv, Schedules
<1> QED
  BY <1>3, <1>4

\* A forked fiber is the only one, unless the rescheduling was overtaken.
LEMMA ArmedFresh ==
  ASSUME TimersOK, EntryOK, FreshInv, NEW p \in Client \cup Runtime, ArmIdleRelease(p)
  PROVE  FreshInv'
<1>1. PICK i \in Timer :
         /\ timer' = [timer EXCEPT ![i] = Asleep(plan[p])]
         /\ entry' = IF Schedules(entry)
                     THEN [entry EXCEPT !.gen = plan[p], !.timer = i] ELSE entry
         /\ overtaken' = (overtaken \/ ~Schedules(entry) \/ Waiting(entry.timer))
  BY DEF ArmIdleRelease
<1>2. CASE ~Schedules(entry)
  BY <1>1, <1>2 DEF FreshInv
<1>3. CASE Schedules(entry)
  <2>1. entry'.timer = i /\ entry'.rt # 0
    BY <1>1, <1>3 DEF EntryOK, EntryRecord, Schedules
  <2>2. ~timer'[i].stale
    BY <1>1 DEF TimersOK, Asleep, NoTimer
  <2>3. ASSUME ~overtaken', NEW j \in Timer, j # i
        PROVE  timer'[j].stage = "free"
    <3>1. timer'[j] = timer[j]
      BY <1>1, <2>3 DEF TimersOK
    <3>2. entry.timer = j => timer[j].stage = "free"
      <4>1. ~Waiting(entry.timer)
        BY <1>1, <2>3
      <4>2. j # None
        BY DEF None, Timer
      <4> QED
        BY <4>1, <4>2 DEF Waiting
    <3>3. timer[j].stage # "free" => entry.timer = j
      BY <1>1, <2>3 DEF FreshInv
    <3> QED
      BY <3>1, <3>2, <3>3
  <2> QED
    BY <2>1, <2>2, <2>3 DEF FreshInv
<1> QED
  BY <1>2, <1>3

\* Interrupting the registered fiber leaves none that waits.
LEMMA CancelledFresh ==
  ASSUME TimersOK, FreshInv, CancelIdleFiber(entry.timer), UNCHANGED overtaken,
         entry'.rt = 0 => entry'.timer = None
  PROVE  FreshInv'
<1>1. ASSUME ~overtaken, NEW i \in Timer
      PROVE  timer'[i].stage = "free"
  <2>1. timer[i].stage # "free" => entry.timer = i
    BY <1>1 DEF FreshInv
  <2>2. timer'[i] = NoTimer
    BY <2>1 DEF CancelIdleFiber
  <2> QED
    BY <2>2 DEF NoTimer
<1> QED
  BY <1>1 DEF FreshInv

LEMMA BegunFresh ==
  ASSUME TimersOK, FreshInv, NEW p, NEW e, e.timer = entry.timer, BeginSchedule(p, e),
         UNCHANGED overtaken, entry'.rt = entry.rt, entry'.timer = entry.timer
  PROVE  FreshInv'
<1>1. CASE UNCHANGED timer
  BY <1>1 DEF FreshInv
<1>2. CASE CancelIdleFiber(e.timer)
  <2>1. CancelIdleFiber(entry.timer)
    BY <1>2
  <2>2. entry'.rt = 0 => entry'.timer = None
    BY DEF FreshInv
  <2> QED
    BY <2>1, <2>2, CancelledFresh
<1> QED
  BY <1>1, <1>2 DEF BeginSchedule

\* Each step leaves an idle session with its idle fiber, or being rescheduled.
LEMMA SessionStaysTimed ==
  ASSUME ClientsOK, EntryOK, TimersOK, RuntimesOK, OwnerInv, TimedInv, [Next]_vars
  PROVE  TimedInv'
<1> USE SessionsAssumption DEF Runtime, None, sessionVars, runtimeVars, clientVars, historyVars
<1>1. ASSUME NEW c \in Client, Open(c)
      PROVE  TimedInv'
  <2>1. UNCHANGED <<entry, interrupted>> /\ \A d \in Client : pc[d] # "recording"
    BY <1>1, OpenEffect DEF InOpen
  <2>2. BeginSchedule(c, entry) \/ UNCHANGED <<timer, plan>>
    BY <1>1 DEF Open, Touch
  <2>3. CASE BeginSchedule(c, entry)
    BY <2>1, <2>3, BegunTimed DEF EntryOK
  <2>4. CASE UNCHANGED <<timer, plan>>
    BY <2>1, <2>4 DEF TimedInv, Schedules, Waiting
  <2> QED
    BY <2>2, <2>3, <2>4
<1>2. ASSUME NEW c \in Client, Attached(c)
      PROVE  TimedInv'
  <2>1. BeginSchedule(c, entry) /\ UNCHANGED entry
    BY <1>2 DEF Attached, Touch
  <2> QED
    BY <2>1, BegunTimed DEF EntryOK
<1>3. ASSUME NEW c \in Client, AttachFails(c)
      PROVE  TimedInv'
  BY <1>3 DEF AttachFails, Leave, Go, TimedInv, Waiting
<1>4. ASSUME NEW c \in Client, OpenFails(c)
      PROVE  TimedInv'
  BY <1>4 DEF OpenFails, Leave, Go, TimedInv, Waiting
<1>5. ASSUME NEW c \in Client, OpenSession(c)
      PROVE  TimedInv'
  <2>1. pc'[c] = "recording"
    BY <1>5 DEF OpenSession, Go, ClientsOK
  <2> QED
    BY <2>1 DEF TimedInv
<1>6. ASSUME NEW c \in Client, RecordSession(c)
      PROVE  TimedInv'
  <2>1. BeginSchedule(c, entry) /\ UNCHANGED entry
    BY <1>6 DEF RecordSession, Touch
  <2> QED
    BY <2>1, BegunTimed DEF EntryOK
<1>7. ASSUME NEW c \in Client, RecordFails(c)
      PROVE  TimedInv'
  <2>1. entry'.rt = 0
    BY <1>7 DEF RecordFails, Remove, NoEntry
  <2> QED
    BY <2>1 DEF TimedInv, Schedules
<1>8. ASSUME NEW c \in Client, Touched(c)
      PROVE  TimedInv'
  BY <1>8, ArmedTimed DEF Touched
<1>9. ASSUME NEW c \in Client, MarkBusy(c)
      PROVE  TimedInv'
  <2>1. CASE entry.rt = 0
    <3>1. entry'.rt = 0
      BY <1>9, <2>1 DEF MarkBusy
    <3> QED
      BY <3>1 DEF TimedInv, Schedules
  <2>2. CASE entry.rt # 0
    <3>1. entry'.busy = entry.busy + 1 /\ entry.busy \in Nat
      BY <1>9, <2>2 DEF MarkBusy, EntryOK, EntryRecord
    <3>2. entry'.busy # 0
      BY <3>1
    <3> QED
      BY <3>2 DEF TimedInv, Schedules
  <2> QED
    BY <2>1, <2>2
<1>10. ASSUME NEW c \in Client, StartTurn(c)
       PROVE  TimedInv'
  BY <1>10 DEF StartTurn, Go, TimedInv, Waiting
<1>11. ASSUME NEW c \in Client, StartFails(c)
       PROVE  TimedInv'
  <2>1. BeginSchedule(c, Unbusied) /\ entry' = Unbusied
    BY <1>11 DEF StartFails, CountDown
  <2>2. Unbusied \in EntryRecord /\ Unbusied.rt = entry.rt /\ Unbusied.timer = entry.timer
    BY UnbusiedEntry DEF Unbusied, EntryOK, EntryRecord
  <2> QED
    BY <2>1, <2>2, BegunTimed
<1>12. ASSUME NEW c \in Client, TurnAnswered(c)
       PROVE  TimedInv'
  BY <1>12 DEF TurnAnswered, Leave, Go, TimedInv, Waiting
<1>13. ASSUME NEW c \in Client, Interrupted(c)
       PROVE  TimedInv'
  <2>1. interrupted'
    BY <1>13 DEF Interrupted
  <2> QED
    BY <2>1 DEF TimedInv
<1>14. ASSUME NEW i \in Timer, IdleWindowEnds(i)
       PROVE  TimedInv'
  <2> SUFFICES ASSUME Schedules(entry), ~interrupted, Waiting(entry.timer),
                      timer[entry.timer].gen = entry.gen,
                      timer[entry.timer].stage = "probing" => timer[entry.timer].rt = entry.rt
               PROVE  /\ Waiting(entry.timer)'
                      /\ timer'[entry.timer].gen = entry.gen
                      /\ timer'[entry.timer].stage = "probing" =>
                            timer'[entry.timer].rt = entry.rt
    BY <1>14 DEF IdleWindowEnds, TimedInv, Schedules
  <2>1. timer' = [timer EXCEPT ![i] =
                    IF StillIdle(i)
                    THEN [timer[i] EXCEPT !.stage = "probing", !.rt = entry.rt,
                                          !.pinned = entry.pinned]
                    ELSE NoTimer]
        /\ UNCHANGED entry
    BY <1>14 DEF IdleWindowEnds
  <2>2. CASE entry.timer # i
    BY <2>1, <2>2 DEF Waiting, TimersOK
  <2>3. CASE entry.timer = i
    <3>1. StillIdle(i)
      BY <2>3 DEF StillIdle, Schedules
    <3> QED
      BY <2>1, <2>3, <3>1 DEF Waiting, TimersOK, TimerRecord
  <2> QED
    BY <2>2, <2>3
<1>15. ASSUME NEW i \in Timer, DeferIdleRelease(i)
       PROVE  TimedInv'
  <2> SUFFICES ASSUME Schedules(entry), ~interrupted, Waiting(entry.timer),
                      timer[entry.timer].gen = entry.gen,
                      timer[entry.timer].stage = "probing" => timer[entry.timer].rt = entry.rt
               PROVE  /\ Waiting(entry.timer)'
                      /\ timer'[entry.timer].gen = entry.gen
                      /\ timer'[entry.timer].stage = "probing" =>
                            timer'[entry.timer].rt = entry.rt
                      /\ entry'.timer = entry.timer /\ entry'.gen = entry.gen
                      /\ entry'.rt = entry.rt
    BY <1>15 DEF DeferIdleRelease, TimedInv, Schedules, Waiting, EntryOK, EntryRecord
  <2>1. entry'.timer = entry.timer /\ entry'.gen = entry.gen /\ entry'.rt = entry.rt
    BY <1>15 DEF DeferIdleRelease, EntryOK, EntryRecord
  <2>2. CASE entry.timer # i
    <3>1. timer'[entry.timer] = timer[entry.timer]
      <4>1. entry.timer \in Timer
        BY DEF Waiting, EntryOK, EntryRecord, Timer, None
      <4>2. CASE timer' = [timer EXCEPT ![i].stage = "sleeping", ![i].rt = 0, ![i].pinned = 0]
        BY <2>2, <4>1, <4>2 DEF TimersOK
      <4>3. CASE timer' = [timer EXCEPT ![i] = NoTimer]
        BY <2>2, <4>1, <4>3 DEF TimersOK
      <4> QED
        BY <1>15, <4>2, <4>3 DEF DeferIdleRelease
    <3> QED
      BY <2>1, <3>1 DEF Waiting
  <2>3. CASE entry.timer = i
    <3>1. StillIdle(i) /\ entry.rt = timer[i].rt
      BY <1>15, <2>3 DEF StillIdle, Schedules, DeferIdleRelease
    <3>2. timer' = [timer EXCEPT ![i] = [timer[i] EXCEPT !.stage = "sleeping", !.rt = 0,
                                                         !.pinned = 0]]
      BY <1>15, <3>1 DEF DeferIdleRelease
    <3> QED
      BY <2>1, <2>3, <3>2 DEF Waiting, TimersOK, TimerRecord
  <2> QED
    BY <2>2, <2>3
<1>16. ASSUME NEW i \in Timer, IdleRelease(i)
       PROVE  TimedInv'
  <2>1. CASE StillIdle(i)
    <3>1. entry'.rt = 0
      BY <1>16, <2>1 DEF IdleRelease, Remove, NoEntry
    <3> QED
      BY <3>1 DEF TimedInv, Schedules
  <2>2. CASE ~StillIdle(i)
    <3>1. UNCHANGED <<entry, plan, pc, interrupted>> /\ timer' = [timer EXCEPT ![i] = NoTimer]
      BY <1>16, <2>2 DEF IdleRelease
    <3>2. Schedules(entry) => ~(entry.timer = i /\ timer[i].gen = entry.gen)
      BY <2>2 DEF StillIdle, Schedules
    <3>3. \A j \in Timer : j # i => timer'[j] = timer[j]
      BY <3>1 DEF TimersOK
    <3>4. entry.timer # None => entry.timer \in Timer
      BY DEF EntryOK, EntryRecord, Timer
    <3> QED
      BY <3>1, <3>2, <3>3, <3>4 DEF TimedInv, Schedules, Waiting
  <2> QED
    BY <2>1, <2>2
<1>17. ASSUME NEW r \in Runtime, NEW c \in Client, PumpTerminal(r, c)
       PROVE  TimedInv'
  <2>1. BeginSchedule(r, Unbusied) /\ entry' = Unbusied
    BY <1>17 DEF PumpTerminal, CountDown
  <2>2. Unbusied \in EntryRecord /\ Unbusied.rt = entry.rt /\ Unbusied.timer = entry.timer
    BY UnbusiedEntry DEF Unbusied, EntryOK, EntryRecord
  <2> QED
    BY <2>1, <2>2, BegunTimed
<1>18. ASSUME NEW r \in Runtime, PumpTouched(r)
       PROVE  TimedInv'
  BY <1>18, ArmedTimed DEF PumpTouched
<1>19. ASSUME NEW r \in Runtime, PumpOther(r)
       PROVE  TimedInv'
  <2>1. BeginSchedule(r, entry) /\ UNCHANGED entry
    BY <1>19 DEF PumpOther
  <2> QED
    BY <2>1, BegunTimed DEF EntryOK
<1>20. ASSUME NEW r \in Runtime, StreamEnds(r)
       PROVE  TimedInv'
  <2>1. entry'.rt = 0
    BY <1>20 DEF StreamEnds, Remove, NoEntry
  <2> QED
    BY <2>1 DEF TimedInv, Schedules
<1>21. ASSUME NEW r \in Runtime, Closed(r)
       PROVE  TimedInv'
  BY <1>21 DEF Closed, TimedInv, Waiting
<1>22. ASSUME NEW r \in Runtime, NEW c \in Client, TurnEnds(r, c)
       PROVE  TimedInv'
  BY <1>22 DEF TurnEnds, TimedInv, Waiting
<1>23. ASSUME Close
       PROVE  TimedInv'
  <2>1. entry'.rt = 0
    BY <1>23 DEF Close, Remove, NoEntry
  <2> QED
    BY <2>1 DEF TimedInv, Schedules
<1>24. CASE UNCHANGED vars
  BY <1>24 DEF vars, TimedInv, Waiting
<1> QED
  BY <1>1, <1>2, <1>3, <1>4, <1>5, <1>6, <1>7, <1>8, <1>9, <1>10, <1>11, <1>12, <1>13,
     <1>14, <1>15, <1>16, <1>17, <1>18, <1>19, <1>20, <1>21, <1>22, <1>23, <1>24 DEF Next,
     ClientStep, TimerStep, PumpStep

\* Each step leaves the registered fiber the only one that waits.
LEMMA FibersStayFresh ==
  ASSUME EntryOK, TimersOK, OwnerInv, FreshInv, [Next]_vars
  PROVE  FreshInv'
<1> USE SessionsAssumption DEF Runtime, None, sessionVars, runtimeVars, clientVars, historyVars
<1>1. ASSUME NEW c \in Client, Open(c)
      PROVE  FreshInv'
  <2>1. UNCHANGED <<entry, overtaken>>
    BY <1>1 DEF Open
  <2>2. BeginSchedule(c, entry) \/ UNCHANGED <<timer, plan>>
    BY <1>1 DEF Open, Touch
  <2>3. CASE BeginSchedule(c, entry)
    BY <2>1, <2>3, BegunFresh
  <2>4. CASE UNCHANGED <<timer, plan>>
    BY <2>1, <2>4 DEF FreshInv
  <2> QED
    BY <2>2, <2>3, <2>4
<1>2. ASSUME NEW c \in Client, Attached(c)
      PROVE  FreshInv'
  <2>1. BeginSchedule(c, entry) /\ UNCHANGED entry /\ UNCHANGED overtaken
    BY <1>2 DEF Attached, Touch
  <2> QED
    BY <2>1, BegunFresh DEF EntryOK
<1>3. ASSUME NEW c \in Client, AttachFails(c)
      PROVE  FreshInv'
  BY <1>3 DEF AttachFails, FreshInv
<1>4. ASSUME NEW c \in Client, OpenFails(c)
      PROVE  FreshInv'
  BY <1>4 DEF OpenFails, FreshInv
<1>5. ASSUME NEW c \in Client, OpenSession(c)
      PROVE  FreshInv'
  <2>1. pc[c] = "opening" /\ UNCHANGED <<timer, overtaken>> /\ entry'.timer = None
    BY <1>5 DEF OpenSession, NoEntry
  <2>2. entry.timer = None
    BY <2>1 DEF OwnerInv, FreshInv
  <2> QED
    BY <2>1, <2>2 DEF FreshInv, Timer
<1>6. ASSUME NEW c \in Client, RecordSession(c)
      PROVE  FreshInv'
  <2>1. BeginSchedule(c, entry) /\ UNCHANGED entry /\ UNCHANGED overtaken
    BY <1>6 DEF RecordSession, Touch
  <2> QED
    BY <2>1, BegunFresh DEF EntryOK
<1>7. ASSUME NEW c \in Client, RecordFails(c)
      PROVE  FreshInv'
  <2>1. CASE entry.rt # 0
    <3>1. CancelIdleFiber(entry.timer) /\ UNCHANGED overtaken /\ entry'.timer = None
      BY <1>7, <2>1 DEF RecordFails, Remove, NoEntry
    <3> QED
      BY <3>1, CancelledFresh
  <2>2. CASE entry.rt = 0
    BY <1>7, <2>2 DEF RecordFails, FreshInv
  <2> QED
    BY <2>1, <2>2
<1>8. ASSUME NEW c \in Client, Touched(c)
      PROVE  FreshInv'
  BY <1>8, ArmedFresh DEF Touched
<1>9. ASSUME NEW c \in Client, MarkBusy(c)
      PROVE  FreshInv'
  <2>1. CASE entry.rt # 0
    <3>1. CancelIdleFiber(entry.timer) /\ UNCHANGED overtaken /\ entry'.timer = None
      BY <1>9, <2>1 DEF MarkBusy, EntryOK, EntryRecord
    <3> QED
      BY <3>1, CancelledFresh
  <2>2. CASE entry.rt = 0
    BY <1>9, <2>2 DEF MarkBusy, FreshInv
  <2> QED
    BY <2>1, <2>2
<1>10. ASSUME NEW c \in Client, StartTurn(c)
       PROVE  FreshInv'
  BY <1>10 DEF StartTurn, FreshInv
<1>11. ASSUME NEW c \in Client, StartFails(c)
       PROVE  FreshInv'
  <2>1. BeginSchedule(c, Unbusied) /\ entry' = Unbusied /\ UNCHANGED overtaken
    BY <1>11 DEF StartFails, CountDown
  <2>2. Unbusied \in EntryRecord /\ Unbusied.rt = entry.rt /\ Unbusied.timer = entry.timer
    BY UnbusiedEntry DEF Unbusied, EntryOK, EntryRecord
  <2> QED
    BY <2>1, <2>2, BegunFresh
<1>12. ASSUME NEW c \in Client, TurnAnswered(c)
       PROVE  FreshInv'
  BY <1>12 DEF TurnAnswered, FreshInv
<1>13. ASSUME NEW c \in Client, Interrupted(c)
       PROVE  FreshInv'
  BY <1>13 DEF Interrupted, FreshInv
<1>14. ASSUME NEW i \in Timer, IdleWindowEnds(i)
       PROVE  FreshInv'
  <2>1. UNCHANGED <<entry, overtaken>> /\ \A j \in Timer : j # i => timer'[j] = timer[j]
    BY <1>14 DEF IdleWindowEnds, TimersOK
  <2>2. /\ timer[i].stage # "free"
        /\ timer'[i].stage # "free" => timer'[i].stale = timer[i].stale
    BY <1>14 DEF IdleWindowEnds, TimersOK, TimerRecord, NoTimer
  <2> QED
    BY <2>1, <2>2 DEF FreshInv
<1>15. ASSUME NEW i \in Timer, DeferIdleRelease(i)
       PROVE  FreshInv'
  <2>1. /\ entry'.timer = entry.timer /\ entry'.rt = entry.rt /\ UNCHANGED overtaken
        /\ \A j \in Timer : j # i => timer'[j] = timer[j]
    BY <1>15 DEF DeferIdleRelease, TimersOK, EntryOK, EntryRecord
  <2>2. /\ timer[i].stage # "free"
        /\ timer'[i].stage # "free" => timer'[i].stale = timer[i].stale
    BY <1>15 DEF DeferIdleRelease, TimersOK, TimerRecord, NoTimer
  <2> QED
    BY <2>1, <2>2 DEF FreshInv
<1>16. ASSUME NEW i \in Timer, IdleRelease(i)
       PROVE  FreshInv'
  <2>1. /\ timer[i].stage # "free" /\ timer'[i].stage = "free" /\ UNCHANGED overtaken
        /\ \A j \in Timer : j # i => timer'[j] = timer[j]
    BY <1>16 DEF IdleRelease, TimersOK, NoTimer
  <2>2. (entry'.timer = entry.timer /\ entry'.rt = entry.rt) \/ entry'.timer = None
    BY <1>16 DEF IdleRelease, Remove, NoEntry
  <2>3. ~overtaken => \A j \in Timer : timer'[j].stage = "free"
    BY <2>1 DEF FreshInv
  <2> QED
    BY <2>1, <2>2, <2>3 DEF FreshInv
<1>17. ASSUME NEW r \in Runtime, NEW c \in Client, PumpTerminal(r, c)
       PROVE  FreshInv'
  <2>1. BeginSchedule(r, Unbusied) /\ entry' = Unbusied /\ UNCHANGED overtaken
    BY <1>17 DEF PumpTerminal, CountDown
  <2>2. Unbusied \in EntryRecord /\ Unbusied.rt = entry.rt /\ Unbusied.timer = entry.timer
    BY UnbusiedEntry DEF Unbusied, EntryOK, EntryRecord
  <2> QED
    BY <2>1, <2>2, BegunFresh
<1>18. ASSUME NEW r \in Runtime, PumpTouched(r)
       PROVE  FreshInv'
  BY <1>18, ArmedFresh DEF PumpTouched
<1>19. ASSUME NEW r \in Runtime, PumpOther(r)
       PROVE  FreshInv'
  <2>1. BeginSchedule(r, entry) /\ UNCHANGED entry /\ UNCHANGED overtaken
    BY <1>19 DEF PumpOther
  <2> QED
    BY <2>1, BegunFresh DEF EntryOK
<1>20. ASSUME NEW r \in Runtime, StreamEnds(r)
       PROVE  FreshInv'
  <2>1. CancelIdleFiber(entry.timer) /\ UNCHANGED overtaken /\ entry'.timer = None
    BY <1>20 DEF StreamEnds, Remove, NoEntry
  <2> QED
    BY <2>1, CancelledFresh
<1>21. ASSUME NEW r \in Runtime, Closed(r)
       PROVE  FreshInv'
  BY <1>21 DEF Closed, FreshInv
<1>22. ASSUME NEW r \in Runtime, NEW c \in Client, TurnEnds(r, c)
       PROVE  FreshInv'
  BY <1>22 DEF TurnEnds, FreshInv
<1>23. ASSUME Close
       PROVE  FreshInv'
  <2>1. CancelIdleFiber(entry.timer) /\ UNCHANGED overtaken /\ entry'.timer = None
    BY <1>23 DEF Close, Remove, NoEntry
  <2> QED
    BY <2>1, CancelledFresh
<1>24. CASE UNCHANGED vars
  BY <1>24 DEF vars, FreshInv
<1> QED
  BY <1>1, <1>2, <1>3, <1>4, <1>5, <1>6, <1>7, <1>8, <1>9, <1>10, <1>11, <1>12, <1>13,
     <1>14, <1>15, <1>16, <1>17, <1>18, <1>19, <1>20, <1>21, <1>22, <1>23, <1>24 DEF Next,
     ClientStep, TimerStep, PumpStep

LEMMA InitImpliesIInv ==
  ASSUME Init
  PROVE  IInv
<1> USE SessionsAssumption DEF Init, Runtime, None
<1>1. EntryOK
  BY DEF EntryOK, EntryRecord, NoEntry
<1>2. TimersOK
  BY DEF TimersOK, TimerRecord, NoTimer
<1>3. RuntimesOK
  BY DEF RuntimesOK, PumpRecord
<1>4. ClientsOK
  BY DEF ClientsOK, Steps
<1>5. LockInv /\ OwnerInv /\ PlaceInv
  BY DEF LockInv, OwnerInv, PlaceInv, InOpen, Handed, NoEntry
<1>6. CountedInv
  BY DEF CountedInv, NotStarted
<1>7. PumpInv /\ RecordInv
  BY DEF PumpInv, PumpsRest, PumpRuns, TurnsWaitedFor, RecordInv, NoEntry
<1>8. LiveRuntimesAreOwned
  BY DEF LiveRuntimesAreOwned
<1>9. TimedInv /\ FreshInv
  BY DEF TimedInv, FreshInv, Schedules, NoEntry, NoTimer
<1>10. BusyCountIsTurns
  <2>1. TurnsCounted = {}
    BY DEF TurnsCounted, NoEntry
  <2> QED
    BY <2>1, FS_EmptySet DEF BusyCountIsTurns, TurnsCounted, NoEntry
<1> QED
  BY <1>1, <1>2, <1>3, <1>4, <1>5, <1>6, <1>7, <1>8, <1>9, <1>10 DEF IInv

LEMMA StepKeepsIInv ==
  ASSUME IInv, [Next]_vars
  PROVE  IInv'
<1> USE DEF IInv
<1>1. EntryOK' /\ TimersOK' /\ RuntimesOK' /\ ClientsOK'
  BY EntryStaysTyped, TimersStayTyped, RuntimesStayTyped, ClientsStayTyped
<1>2. LockInv' /\ OwnerInv'
  BY LockStaysExclusive, RuntimesStayOwned
<1>3. PlaceInv' /\ CountedInv'
  BY TurnsStayPlaced, TurnsStayCounted
<1>4. PumpInv' /\ RecordInv'
  BY PumpsStayOn, SessionStaysRecorded
<1>5. TimedInv' /\ FreshInv'
  BY SessionStaysTimed, FibersStayFresh
<1>6. LiveRuntimesAreOwned' /\ BusyCountIsTurns'
  BY LiveStayOwned, BusyStaysCounted
<1> QED
  BY <1>1, <1>2, <1>3, <1>4, <1>5, <1>6

-----------------------------------------------------------------------------
\* The inductive invariant holds in every state the session can reach.
THEOREM Invariance == Spec => []IInv
<1>1. Init => IInv
  BY InitImpliesIInv
<1>2. IInv /\ [Next]_vars => IInv'
  BY StepKeepsIInv
<1> QED
  BY <1>1, <1>2, PTL DEF Spec

\* Every variable keeps its type.
THEOREM TypeCorrect == Spec => []TypeOK
<1>1. IInv => TypeOK
  BY DEF IInv, EntryOK, EntryRecord, TimersOK, TimerRecord, RuntimesOK, PumpRecord,
     ClientsOK, Steps, TypeOK
<1> QED
  BY <1>1, Invariance, PTL

\* A provider runtime that is alive is in the map, where shutdown, close and the
\* idle release find it, unless the client that opened it was interrupted.
THEOREM LiveRuntimesOwned == Spec => []LiveRuntimesAreOwned
<1>1. IInv => LiveRuntimesAreOwned
  BY DEF IInv
<1> QED
  BY <1>1, Invariance, PTL

\* busyCount is the number of the turns the session is kept for, whatever starts
\* failed, ended late or were interrupted.
THEOREM BusyCountCorrect == Spec => []BusyCountIsTurns
<1>1. IInv => BusyCountIsTurns
  BY DEF IInv
<1> QED
  BY <1>1, Invariance, PTL

\* Whoever waits for the end of a turn will be told: the turn is with the map's
\* runtime, or its end with a pump that runs.
THEOREM TurnsAreAnswered == Spec => []TurnWillBeAnswered
<1>1. IInv => TurnWillBeAnswered
  <2>1. SUFFICES ASSUME IInv, ~interrupted,
                        NEW c \in Client, pc[c] = "running", c \in subs[rt[c]]
                 PROVE  /\ entry.rt = rt[c] /\ pump[rt[c]].on
                        /\ c \in native[rt[c]] \cup inbox[rt[c]] \cup pump[rt[c]].event
    BY DEF TurnWillBeAnswered
  <2>2. /\ entry.rt = rt[c]
        /\ c \in native[rt[c]] \cup inbox[rt[c]] \cup pump[rt[c]].event
    BY <2>1 DEF IInv, PumpInv, TurnsWaitedFor
  <2>3. rt[c] # 0
    BY <2>1 DEF IInv, OwnerInv, Handed
  <2>4. pump[entry.rt].on
    BY <2>1, <2>2, <2>3 DEF IInv, PumpInv, PumpRuns, Handed
  <2> QED
    BY <2>2, <2>4
<1> QED
  BY <1>1, Invariance, PTL

\* A session that a client has from the map is recorded as ready, unless it was
\* opened while the runtime before it was closing, or its opener was interrupted.
THEOREM ReadySessionsRecorded == Spec => []PersistedWhileLive
<1>1. IInv => PersistedWhileLive
  BY DEF IInv, RecordInv, PersistedWhileLive, Handed
<1> QED
  BY <1>1, Invariance, PTL

\* No idle release takes a session whose runtime is starting or executing a
\* turn, unless the end of an earlier runtime's turn was counted against it.
THEOREM NoTurnIsReleased == Spec => ActiveSessionsAreKept
<1>1. ASSUME IInv, ~crossed, NEW i \in Timer, Released(i)
      PROVE  TurnsOn(entry.rt) = {}
  <2>1. entry.rt # 0 /\ entry.busy = 0 /\ adapter[entry.rt] = "live"
    BY <1>1 DEF Released, StillIdle, IInv, OwnerInv
  <2>2. Cardinality(TurnsCounted) = 0
    BY <1>1, <2>1 DEF IInv, BusyCountIsTurns, TurnsCounted
  <2>3. IsFiniteSet(TurnsCounted)
    BY SessionsAssumption, FS_Subset DEF TurnsCounted
  <2>4. TurnsCounted = {}
    BY <2>2, <2>3, FS_EmptySet
  <2>5. entry.rt \in Runtime
    BY <1>1, <2>1, SessionsAssumption DEF IInv, EntryOK, EntryRecord, Runtime
  <2>6. \A c \in Client : c \in native[entry.rt] => counted[c] = entry.rt
    BY <1>1, <2>1, <2>5 DEF IInv, CountedInv
  <2>7. native[entry.rt] \subseteq Client
    BY <1>1, <2>5 DEF IInv, RuntimesOK
  <2>8. \A c \in Client : ~(pc[c] = "starting" /\ rt[c] = entry.rt)
    BY <1>1, <2>1, <2>4 DEF IInv, CountedInv, TurnsCounted
  <2> QED
    BY <2>1, <2>4, <2>6, <2>7, <2>8 DEF TurnsOn, TurnsCounted
<1>2. IInv => [\A i \in Timer : Released(i) /\ ~crossed => TurnsOn(entry.rt) = {}]_vars
  BY <1>1
<1> QED
  BY <1>2, Invariance, PTL DEF ActiveSessionsAreKept

\* A session that is idle has its idle fiber, or somebody is about to fork one:
\* its generation cannot leave it without.
THEOREM IdleSessionsAreTimed == Spec => []IdleSessionIsTimed
<1>1. IInv => IdleSessionIsTimed
  <2>1. SUFFICES ASSUME IInv, Schedules(entry), ~interrupted, Waiting(entry.timer),
                        timer[entry.timer].gen = entry.gen
                 PROVE  \E i \in Timer : timer[i].stage # "free" /\ timer[i].gen = entry.gen
    BY DEF IInv, TimedInv, IdleSessionIsTimed
  <2>2. entry.timer \in Timer
    BY <2>1 DEF IInv, EntryOK, EntryRecord, Waiting, Timer, None
  <2> QED
    BY <2>1, <2>2 DEF Waiting
<1> QED
  BY <1>1, Invariance, PTL

\* A whole idle window passes between the last use of a session and its idle
\* release, unless a rescheduling left a fiber that is not registered.
THEOREM IdleWindowsAreFull == Spec => FullIdleWindow
<1>1. ASSUME IInv, ~overtaken, NEW i \in Timer, Released(i)
      PROVE  ~timer[i].stale
  BY <1>1 DEF Released, IdleRelease, IInv, FreshInv
<1>2. IInv => [\A i \in Timer : Released(i) /\ ~overtaken => ~timer[i].stale]_vars
  BY <1>1
<1> QED
  BY <1>2, Invariance, PTL DEF FullIdleWindow

=============================================================================
