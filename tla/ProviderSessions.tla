--------------------------- MODULE ProviderSessions ---------------------------
(***************************************************************************)
(* One provider session id in ProviderSessionManager.ts: the entry of the  *)
(* live-session map, the provider runtimes that succeed one another behind *)
(* it, the idle timers, the clients that open the session and run turns on *)
(* it, and the event pump of each runtime.                                 *)
(*                                                                         *)
(* Everything but the open lock finds the session by its id, so that what  *)
(* an earlier runtime leaves behind (a timer, a pump, a failing start)     *)
(* meets the entry of its replacement.                                     *)
(*                                                                         *)
(* What a fiber does between two suspensions (a sleep, an adapter call, an *)
(* SQL write, waiting for an interrupted fiber) is one step. MCP           *)
(* credentials and detached threads are McpCredentials' subject.           *)
(***************************************************************************)
EXTENDS Naturals, FiniteSets, TLC

CONSTANTS
    Client,       \* fibers that open the session for a thread and run one turn
    MaxTimers,    \* bound: idle fibers alive at the same time
    MaxRuntimes,  \* bound: runtimes opened
    MaxPins,      \* maxIdlePinMs, in idle windows
    MaxDisturbances,  \* bound: other events, manual closes, failed attachments and records,
                      \* interrupted clients
    LateEvents    \* a closing runtime still reports its turns' ends

ASSUME SessionsAssumption ==
    /\ IsFiniteSet(Client)
    /\ MaxTimers \in Nat \ {0} /\ MaxRuntimes \in Nat \ {0}
    /\ MaxPins \in Nat /\ MaxDisturbances \in Nat
    /\ LateEvents \in BOOLEAN

Runtime == 1 .. MaxRuntimes
Timer == 1 .. MaxTimers
None == 0

VARIABLES
    entry,      \* the map's entry: runtime (0: no entry), idleGeneration,
                \* busyCount, idleFiber, pinned windows
    timer,      \* timer[i]: an idle fiber; stale: the session was used since
    adapter,    \* adapter[r]: the provider runtime
    native,     \* native[r]: clients whose turn the provider executes
    inbox,      \* inbox[r]: turn.terminal events the pump has yet to read
    pump,       \* pump[r]: the event pump, with the event it holds
    subs,       \* subs[r]: clients subscribed to r's events
    pc, rt,     \* the clients, and the runtime each was handed
    plan,       \* plan[p]: the generation a client or pump is about to arm
    persisted,  \* the session's status in the projection
    disturbances,
    \* history
    counted,    \* counted[c]: the runtime whose busyCount c's turn is in
    overtaken,  \* a rescheduling left a fiber that is not registered
    crossed,    \* a turn's end was counted against another runtime
    interrupted, \* a client was interrupted
    outrun      \* a runtime was opened while an earlier one was closing

sessionVars == <<entry, timer>>
runtimeVars == <<adapter, native, inbox, pump, subs>>
clientVars == <<pc, rt>>
historyVars == <<counted, overtaken, crossed, interrupted, outrun>>
vars == <<sessionVars, runtimeVars, clientVars, plan, persisted, disturbances, historyVars>>

Disturbance ==
    disturbances < MaxDisturbances /\ disturbances' = disturbances + 1

NoEntry == [rt |-> 0, gen |-> 0, busy |-> 0, timer |-> None, pinned |-> 0]
NoTimer == [stage |-> "free", gen |-> 0, rt |-> 0, pinned |-> 0, stale |-> FALSE]
Asleep(gen) == [NoTimer EXCEPT !.stage = "sleeping", !.gen = gen]

TypeOK ==
    /\ entry \in [rt : 0 .. MaxRuntimes, gen : Nat, busy : Nat,
                  timer : 0 .. MaxTimers, pinned : 0 .. MaxPins]
    /\ timer \in [Timer -> [stage : {"free", "sleeping", "probing"}, gen : Nat,
                            rt : 0 .. MaxRuntimes, pinned : 0 .. MaxPins, stale : BOOLEAN]]
    /\ adapter \in [Runtime -> {"none", "opening", "live", "closing", "closed"}]
    /\ native \in [Runtime -> SUBSET Client]
    /\ inbox \in [Runtime -> SUBSET Client]
    /\ pump \in [Runtime -> [on : BOOLEAN, busy : BOOLEAN, event : SUBSET Client]]
    /\ subs \in [Runtime -> SUBSET Client]
    /\ pc \in [Client -> {"idle", "opening", "recording", "attaching", "touching", "ready",
                          "starting", "failing", "running", "done"}]
    /\ rt \in [Client -> 0 .. MaxRuntimes]
    /\ plan \in [Client \cup Runtime -> Nat]
    /\ persisted \in {"none", "ready", "stopped"}
    /\ counted \in [Client -> 0 .. MaxRuntimes]

Init ==
    /\ entry = NoEntry
    /\ timer = [i \in Timer |-> NoTimer]
    /\ adapter = [r \in Runtime |-> "none"]
    /\ native = [r \in Runtime |-> {}]
    /\ inbox = [r \in Runtime |-> {}]
    /\ pump = [r \in Runtime |-> [on |-> FALSE, busy |-> FALSE, event |-> {}]]
    /\ subs = [r \in Runtime |-> {}]
    /\ pc = [c \in Client |-> "idle"]
    /\ rt = [c \in Client |-> 0]
    /\ plan = [p \in Client \cup Runtime |-> 0]
    /\ persisted = "none"
    /\ disturbances = 0
    /\ counted = [c \in Client |-> 0]
    /\ overtaken = FALSE /\ crossed = FALSE /\ interrupted = FALSE /\ outrun = FALSE

-----------------------------------------------------------------------------
(* Idle timers.                                                            *)

\* Interrupting an idle fiber ends it; every fiber that survives a use of the
\* session is stale.
CancelIdleFiber(i) ==
    timer' = [j \in Timer |-> IF j = i \/ timer[j].stage = "free" THEN NoTimer
                              ELSE [timer[j] EXCEPT !.stale = TRUE]]

\* scheduleIdleReleaseInternal up to the interruption of the registered fiber,
\* for process p and entry e; the process goes on in ArmIdleRelease.
BeginSchedule(p, e) ==
    IF e.rt = 0 \/ e.busy > 0
    THEN UNCHANGED <<timer, plan>>
    ELSE CancelIdleFiber(e.timer) /\ plan' = [plan EXCEPT ![p] = e.gen + 1]

Schedules(e) == e.rt # 0 /\ e.busy = 0

Waiting(i) == i # None /\ timer[i].stage # "free"

\* The rest of it: a fresh fiber is forked in any case, and registered unless
\* the session has become busy or is gone. One that is not, or that takes the
\* place of a fiber that still waits, leaves a fiber that nobody can interrupt.
ArmIdleRelease(p) ==
    \E i \in Timer :
        /\ \A j \in Timer : j < i => timer[j].stage # "free"
        /\ timer[i].stage = "free"
        /\ timer' = [timer EXCEPT ![i] = Asleep(plan[p])]
        /\ plan' = [plan EXCEPT ![p] = 0]
        /\ entry' = IF Schedules(entry)
                    THEN [entry EXCEPT !.gen = plan[p], !.timer = i] ELSE entry
        /\ overtaken' = (overtaken \/ ~Schedules(entry) \/ Waiting(entry.timer))

\* The mutants, here and below: a definition each with one plausible bug.
\* Here the guard forgets the turns that started during the probe.
StillIdleByGeneration(i) == entry.rt # 0 /\ entry.gen = timer[i].gen

StillIdle(i) == entry.rt # 0 /\ entry.busy = 0 /\ entry.gen = timer[i].gen

RemoveWithoutClosing ==
    /\ entry' = NoEntry
    /\ subs' = [subs EXCEPT ![entry.rt] = {}]
    /\ UNCHANGED adapter

RemoveSilently ==
    /\ entry' = NoEntry
    /\ adapter' = [adapter EXCEPT ![entry.rt] = "closing"]
    /\ UNCHANGED subs

\* The session leaves the map; its subscribers are failed; the scope starts to
\* close.
Remove ==
    /\ entry' = NoEntry
    /\ subs' = [subs EXCEPT ![entry.rt] = {}]
    /\ adapter' = [adapter EXCEPT ![entry.rt] = "closing"]

IdleWindowEnds(i) ==
    /\ timer[i].stage = "sleeping"
    /\ timer' = [timer EXCEPT ![i] =
                    IF StillIdle(i)
                    THEN [@ EXCEPT !.stage = "probing", !.rt = entry.rt, !.pinned = entry.pinned]
                    ELSE NoTimer]
    /\ UNCHANGED <<entry, runtimeVars, clientVars, plan, persisted, disturbances, historyVars>>

DeferIdleReleaseOnce(i) ==
    /\ timer[i].stage = "probing"
    /\ timer[i].pinned < MaxPins
    /\ entry' = IF StillIdle(i) /\ entry.rt = timer[i].rt
                THEN [entry EXCEPT !.pinned = timer[i].pinned + 1] ELSE entry
    /\ timer' = [timer EXCEPT ![i] = NoTimer]
    /\ UNCHANGED <<runtimeVars, clientVars, plan, persisted, disturbances, historyVars>>

\* Background work is pending and the pin has not expired.
DeferIdleRelease(i) ==
    /\ timer[i].stage = "probing"
    /\ timer[i].pinned < MaxPins
    /\ IF StillIdle(i) /\ entry.rt = timer[i].rt
       THEN /\ entry' = [entry EXCEPT !.pinned = timer[i].pinned + 1]
            /\ timer' = [timer EXCEPT ![i].stage = "sleeping", ![i].rt = 0, ![i].pinned = 0]
       ELSE UNCHANGED entry /\ timer' = [timer EXCEPT ![i] = NoTimer]
    /\ UNCHANGED <<runtimeVars, clientVars, plan, persisted, disturbances, historyVars>>

\* releaseEntry with onlyIfIdleGeneration: the guard is part of the removal.
IdleRelease(i) ==
    /\ timer[i].stage = "probing"
    /\ timer' = [timer EXCEPT ![i] = NoTimer]
    /\ IF StillIdle(i) THEN Remove ELSE UNCHANGED <<entry, subs, adapter>>
    /\ UNCHANGED <<native, inbox, pump, clientVars, plan, persisted, disturbances, historyVars>>

-----------------------------------------------------------------------------
(* Clients: open, under the session's open lock.                           *)

InOpen == {"opening", "recording", "attaching", "touching"}
Go(c, where) == pc' = [pc EXCEPT ![c] = where]
Leave(c) == Go(c, "done") /\ rt' = [rt EXCEPT ![c] = 0]

\* touchActivity, and the step the client goes on to.
Touch(c, e, where) == BeginSchedule(c, e) /\ Go(c, IF Schedules(e) THEN "touching" ELSE where)

\* The thread of c is attached already, or is attached, or a runtime is opened.
Open(c) ==
    /\ pc[c] = "idle"
    /\ \A d \in Client : pc[d] \notin InOpen
    /\ IF entry.rt # 0
       THEN /\ rt' = [rt EXCEPT ![c] = entry.rt]
            /\ \/ Touch(c, entry, "ready")
               \/ Go(c, "attaching") /\ UNCHANGED <<timer, plan>>
            /\ UNCHANGED <<adapter, outrun>>
       ELSE \E r \in Runtime :
            /\ \A q \in Runtime : adapter[q] = "none" <=> q >= r
            /\ adapter' = [adapter EXCEPT ![r] = "opening"]
            /\ rt' = [rt EXCEPT ![c] = r]
            /\ outrun' = (outrun \/ \E q \in Runtime : adapter[q] = "closing")
            /\ Go(c, "opening")
            /\ UNCHANGED <<timer, plan>>
    /\ UNCHANGED <<entry, native, inbox, pump, subs, persisted, disturbances, counted, overtaken,
                   crossed, interrupted>>

\* The attachment is recorded: the session may have left the map meanwhile.
Attached(c) ==
    /\ pc[c] = "attaching"
    /\ Touch(c, entry, "ready")
    /\ persisted' = IF entry.rt # 0 THEN "ready" ELSE persisted
    /\ UNCHANGED <<entry, runtimeVars, rt, disturbances, historyVars>>

AttachFails(c) ==
    /\ pc[c] = "attaching"
    /\ Disturbance
    /\ Leave(c)
    /\ UNCHANGED <<sessionVars, runtimeVars, plan, persisted, historyVars>>

OpenFails(c) ==
    /\ pc[c] = "opening"
    /\ adapter' = [adapter EXCEPT ![rt[c]] = "closed"]
    /\ Leave(c)
    /\ UNCHANGED <<sessionVars, native, inbox, pump, subs, plan, persisted, disturbances, historyVars>>

\* openSession answered: the entry replaces whatever the map held.
OpenSession(c) ==
    /\ pc[c] = "opening"
    /\ adapter' = [adapter EXCEPT ![rt[c]] = "live"]
    /\ entry' = [NoEntry EXCEPT !.rt = rt[c]]
    /\ Go(c, "recording")
    /\ UNCHANGED <<timer, native, inbox, pump, subs, rt, plan, persisted, disturbances, historyVars>>

RecordSessionUnwritten(c) ==
    /\ pc[c] = "recording"
    /\ pump' = [pump EXCEPT ![rt[c]].on = TRUE]
    /\ Touch(c, entry, "ready")
    /\ UNCHANGED <<entry, adapter, native, inbox, subs, rt, persisted, disturbances, historyVars>>

\* The attachment is recorded, the pump started, the first idle window begun.
RecordSession(c) ==
    /\ pc[c] = "recording"
    /\ persisted' = "ready"
    /\ pump' = [pump EXCEPT ![rt[c]].on = TRUE]
    /\ Touch(c, entry, "ready")
    /\ UNCHANGED <<entry, adapter, native, inbox, subs, rt, disturbances, historyVars>>

\* Recording the attachment fails: the new session is released again.
RecordFails(c) ==
    /\ pc[c] = "recording"
    /\ Disturbance
    /\ IF entry.rt # 0 THEN Remove /\ CancelIdleFiber(entry.timer)
       ELSE UNCHANGED <<sessionVars, subs, adapter>>
    /\ Leave(c)
    /\ UNCHANGED <<native, inbox, pump, plan, persisted, historyVars>>

Touched(c) ==
    /\ ArmIdleRelease(c)
    /\ \/ pc[c] = "touching" /\ Go(c, "ready") /\ UNCHANGED rt
       \/ pc[c] = "failing" /\ Leave(c)
    /\ UNCHANGED <<runtimeVars, persisted, disturbances, counted, crossed, interrupted, outrun>>

-----------------------------------------------------------------------------
(* Clients: a turn on the runtime that open returned.                      *)

MarkBusyKeepingFiber(c) ==
    /\ pc[c] = "ready"
    /\ subs' = [subs EXCEPT ![rt[c]] = @ \cup {c}]
    /\ Go(c, "starting")
    /\ IF entry.rt = 0 THEN UNCHANGED sessionVars
       ELSE /\ entry' = [entry EXCEPT !.busy = @ + 1, !.timer = None, !.pinned = 0]
            /\ UNCHANGED timer
    /\ counted' = [counted EXCEPT ![c] = entry.rt]
    /\ UNCHANGED <<adapter, native, inbox, pump, rt, plan, persisted, disturbances,
                   overtaken, crossed, interrupted, outrun>>

\* The turn's reader subscribes; then startTurn marks the session busy, before
\* it calls the adapter.
MarkBusy(c) ==
    /\ pc[c] = "ready"
    /\ subs' = [subs EXCEPT ![rt[c]] = @ \cup {c}]
    /\ Go(c, "starting")
    /\ IF entry.rt = 0 THEN UNCHANGED sessionVars
       ELSE /\ entry' = [entry EXCEPT !.busy = @ + 1, !.timer = None, !.pinned = 0]
            /\ CancelIdleFiber(entry.timer)
    /\ counted' = [counted EXCEPT ![c] = entry.rt]
    /\ UNCHANGED <<adapter, native, inbox, pump, rt, plan, persisted, disturbances,
                   overtaken, crossed, interrupted, outrun>>

\* busyCount goes down, never below zero, on whatever entry has the id.
Unbusied == [entry EXCEPT !.busy = IF @ = 0 THEN 0 ELSE @ - 1]

CountDown(c, p) ==
    /\ entry' = Unbusied
    /\ BeginSchedule(p, Unbusied)
    /\ counted' = [counted EXCEPT ![c] = 0]
    /\ crossed' = (crossed \/ entry.rt \notin {0, counted[c]})

StartTurn(c) ==
    /\ pc[c] = "starting"
    /\ adapter[rt[c]] = "live"
    /\ native' = [native EXCEPT ![rt[c]] = @ \cup {c}]
    /\ Go(c, "running")
    /\ UNCHANGED <<sessionVars, adapter, inbox, pump, subs, rt, plan, persisted, disturbances, historyVars>>

StartFailsBusy(c) ==
    /\ pc[c] = "starting"
    /\ subs' = [subs EXCEPT ![rt[c]] = @ \ {c}]
    /\ counted' = [counted EXCEPT ![c] = 0]
    /\ Leave(c)
    /\ UNCHANGED <<sessionVars, adapter, native, inbox, pump, plan, persisted, disturbances,
                   overtaken, crossed, interrupted, outrun>>

StartFails(c) ==
    /\ pc[c] = "starting"
    /\ subs' = [subs EXCEPT ![rt[c]] = @ \ {c}]
    /\ CountDown(c, c)
    /\ IF Schedules(Unbusied) THEN Go(c, "failing") /\ UNCHANGED rt ELSE Leave(c)
    /\ UNCHANGED <<adapter, native, inbox, pump, persisted, disturbances, overtaken,
                   interrupted, outrun>>

\* The subscription ended with the turn's end or the session's failure.
TurnAnswered(c) ==
    /\ pc[c] = "running"
    /\ c \notin subs[rt[c]]
    /\ Leave(c)
    /\ UNCHANGED <<sessionVars, runtimeVars, plan, persisted, disturbances, historyVars>>

\* The fiber is interrupted while it waits for the adapter, the database or an
\* idle fiber. A start may reach the provider all the same.
Interrupted(c) ==
    /\ Disturbance
    /\ pc[c] \in InOpen \cup {"starting"}
    /\ Leave(c)
    /\ plan' = [plan EXCEPT ![c] = 0]
    /\ subs' = [subs EXCEPT ![rt[c]] = @ \ {c}]
    /\ adapter' = IF pc[c] = "opening" THEN [adapter EXCEPT ![rt[c]] = "live"] ELSE adapter
    /\ \/ UNCHANGED native
       \/ /\ pc[c] = "starting" /\ adapter[rt[c]] = "live"
          /\ native' = [native EXCEPT ![rt[c]] = @ \cup {c}]
    /\ interrupted' = TRUE
    /\ UNCHANGED <<sessionVars, inbox, pump, persisted, counted, overtaken, crossed, outrun>>

-----------------------------------------------------------------------------
(* Provider runtimes and their pumps.                                      *)

TurnEnds(r, c) ==
    /\ adapter[r] = "live" /\ c \in native[r]
    /\ native' = [native EXCEPT ![r] = @ \ {c}]
    /\ inbox' = [inbox EXCEPT ![r] = @ \cup {c}]
    /\ UNCHANGED <<sessionVars, adapter, pump, subs, clientVars, plan, persisted, disturbances, historyVars>>

PumpReady(r) == pump[r].on /\ ~pump[r].busy

\* An event is handed to the subscribers after the activity it stands for.
Publish(r, E) == subs' = [subs EXCEPT ![r] = @ \ E]

HoldOrPublish(r, e, E) ==
    IF Schedules(e)
    THEN pump' = [pump EXCEPT ![r].busy = TRUE, ![r].event = E] /\ UNCHANGED subs
    ELSE UNCHANGED pump /\ Publish(r, E)

PumpTerminal(r, c) ==
    /\ PumpReady(r) /\ c \in inbox[r]
    /\ inbox' = [inbox EXCEPT ![r] = @ \ {c}]
    /\ CountDown(c, r)
    /\ HoldOrPublish(r, Unbusied, {c})
    /\ UNCHANGED <<adapter, native, clientVars, persisted, disturbances, overtaken, interrupted, outrun>>

PumpOther(r) ==
    /\ PumpReady(r) /\ adapter[r] = "live"
    /\ Disturbance
    /\ BeginSchedule(r, entry)
    /\ HoldOrPublish(r, entry, {})
    /\ UNCHANGED <<entry, adapter, native, inbox, clientVars, persisted, historyVars>>

PumpTouched(r) ==
    /\ pump[r].busy
    /\ ArmIdleRelease(r)
    /\ pump' = [pump EXCEPT ![r].busy = FALSE, ![r].event = {}]
    /\ Publish(r, pump[r].event)
    /\ UNCHANGED <<adapter, native, inbox, clientVars, persisted, disturbances, counted,
                   crossed, interrupted, outrun>>

\* The runtime's event stream ends and its entry is released. After the entry
\* is gone, or replaced, the end of the stream changes nothing.
StreamEnds(r) ==
    /\ PumpReady(r) /\ entry.rt = r
    /\ pump' = [pump EXCEPT ![r].on = FALSE]
    /\ native' = [native EXCEPT ![r] = {}]
    /\ inbox' = [inbox EXCEPT ![r] = {}]
    /\ Remove
    /\ CancelIdleFiber(entry.timer)
    /\ UNCHANGED <<clientVars, plan, persisted, disturbances, historyVars>>

\* close, or a detach that leaves no thread.
Close ==
    /\ Disturbance
    /\ entry.rt # 0
    /\ Remove
    /\ CancelIdleFiber(entry.timer)
    /\ UNCHANGED <<native, inbox, pump, clientVars, plan, persisted, historyVars>>

\* The scope is closed, or given up on, and the release recorded.
Closed(r) ==
    /\ adapter[r] = "closing"
    /\ adapter' = [adapter EXCEPT ![r] = "closed"]
    /\ native' = [native EXCEPT ![r] = {}]
    /\ inbox' = IF LateEvents THEN [inbox EXCEPT ![r] = @ \cup native[r]] ELSE inbox
    /\ persisted' = "stopped"
    /\ UNCHANGED <<sessionVars, pump, subs, clientVars, plan, disturbances, historyVars>>

-----------------------------------------------------------------------------
ClientStep(c) ==
    \/ Attached(c) \/ OpenFails(c) \/ OpenSession(c) \/ RecordSession(c) \/ Touched(c)
    \/ MarkBusy(c) \/ StartTurn(c) \/ StartFails(c) \/ TurnAnswered(c)

TimerStep(i) == IdleWindowEnds(i) \/ DeferIdleRelease(i) \/ IdleRelease(i)

PumpStep(r) == (\E c \in Client : PumpTerminal(r, c)) \/ PumpTouched(r)

Next ==
    \/ \E c \in Client : Open(c) \/ ClientStep(c) \/ AttachFails(c) \/ RecordFails(c) \/ Interrupted(c)
    \/ \E i \in Timer : TimerStep(i)
    \/ \E r \in Runtime : \/ PumpStep(r) \/ PumpOther(r) \/ StreamEnds(r) \/ Closed(r)
                          \/ \E c \in Client : TurnEnds(r, c)
    \/ Close

Spec == Init /\ [][Next]_vars

Clients == Permutations(Client)

-----------------------------------------------------------------------------
(* Properties.                                                             *)

\* "Keeps active sessions alive until the provider turn terminates": an idle
\* release never takes a session whose runtime is starting or executing a turn,
\* unless the end of an earlier runtime's turn was counted against it.
TurnsOn(r) == native[r] \cup {c \in Client : pc[c] = "starting" /\ rt[c] = r}

Released(i) == IdleRelease(i) /\ StillIdle(i)

ActiveSessionsAreKept ==
    [][\A i \in Timer : Released(i) /\ ~crossed => TurnsOn(entry.rt) = {}]_vars

\* A whole idle window passes between the last use of a session and its idle
\* release, unless reschedulings overtook one another, or a turn or the end of
\* the session, and left a fiber that is not registered.
FullIdleWindow == [][\A i \in Timer : Released(i) /\ ~overtaken => ~timer[i].stale]_vars

\* busyCount is the number of turns the session is kept for, through starts that
\* fail, turns that end on a closing runtime and interrupted starts.
BusyCountIsTurns ==
    ~crossed => entry.busy = Cardinality({c \in Client : entry.rt # 0 /\ counted[c] = entry.rt})

\* A session that is idle will be released: its current idle timer runs, or
\* somebody is about to start one. Its generation guard cannot leave it without.
IdleSessionIsTimed ==
    Schedules(entry) /\ ~interrupted =>
        \/ \E i \in Timer : timer[i].stage # "free" /\ timer[i].gen = entry.gen
        \/ \E p \in Client \cup Runtime : plan[p] # 0
        \/ \E c \in Client : pc[c] = "recording"

\* Whoever waits for the end of a turn will be told: its runtime still executes
\* the turn, or has its end in the hands of a pump that runs, and only the
\* session's end, which fails its subscribers, can stop either.
TurnWillBeAnswered ==
    \A c \in Client :
        pc[c] = "running" /\ c \in subs[rt[c]] /\ ~interrupted =>
            /\ entry.rt = rt[c] /\ pump[rt[c]].on
            /\ c \in native[rt[c]] \cup inbox[rt[c]] \cup pump[rt[c]].event

\* A provider runtime that is alive is in the map, where shutdown, close and the
\* idle release find it, unless the client that opened it was interrupted.
LiveRuntimesAreOwned ==
    \A r \in Runtime : adapter[r] = "live" => entry.rt = r \/ interrupted

\* The projection calls a session ready while a client has it from the map, so
\* that the turn-start and steering paths, which skip stopped sessions, find it:
\* a late "stopped" cannot hide it, unless it was opened again while the runtime
\* before it was still closing, or never recorded because its opener was interrupted.
PersistedWhileLive ==
    \A c \in Client :
        entry.rt # 0 /\ pc[c] = "ready" /\ rt[c] = entry.rt /\ ~outrun /\ ~interrupted =>
            persisted = "ready"
=============================================================================
