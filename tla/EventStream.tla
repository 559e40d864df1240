---------------------------- MODULE EventStream ----------------------------
(***************************************************************************)
(* The committed events of one thread on their way to one client: EventSink *)
(* commits a batch and publishes it afterwards, the subscription replays    *)
(* what the client misses and then follows the live events, and the client  *)
(* keeps a cursor, drops what is not above it, and caches its projection.   *)
(*                                                                         *)
(* An event is its sequence number; the events of other threads only leave *)
(* gaps between the numbers. A projection is the set of the events folded  *)
(* into it. The frames on the socket are a sequence; the client applies a  *)
(* frame between two turns of its event loop, in one step.                 *)
(***************************************************************************)
EXTENDS Integers, Sequences

CONSTANTS
    Writers,      \* fibers that write to the thread: commands, ingestion, ...
    MaxEvents,    \* bound: events committed to the thread
    MaxBatch,     \* bound: events of one commit
    MaxDrops,     \* bound: lost connections, wake-ups, reopenings and crashes
    ReplayLimit   \* DEFAULT_READ_FROM_SEQUENCE_LIMIT, the rows of one read

ASSUME EventStreamAssumption ==
    /\ MaxEvents \in Nat \ {0} /\ MaxBatch \in Nat \ {0}
    /\ MaxDrops \in Nat /\ ReplayLimit \in Nat \ {0}

Event == 1 .. MaxEvents
Cursor == 0 .. MaxEvents
NoCursor == -1         \* the request carries no afterSequence
NoProjection == {0}    \* Option.none: no event has the sequence 0

Copy == [seq : Cursor, seen : (SUBSET Event) \cup {NoProjection}]
NoCopy == [seq |-> 0, seen |-> NoProjection]

VARIABLES
    \* the server
    log,        \* the thread's last committed sequence
    deletedAt,  \* the sequence of its thread.deleted event, 0 while it exists
    pending,    \* pending[w]: the batch w committed and has yet to publish
    \* the subscription
    feed,       \* how far it is; "closed" until it is requested, "ended" when it never will be
    after,      \* the sequence its next read starts from
    high,       \* the high-water mark it read last
    buffer,     \* events published since it attached and before it caught up
    wire,       \* frames on their way to the client
    \* the client
    data,       \* the projection it shows
    last,       \* lastSequence
    status,     \* "synchronizing", "live", "cached", "empty", "deleted"
    awaiting,   \* awaitingCompletion
    queued,     \* the copy waiting for the debounced save
    saved,      \* the cached copy
    \* history and bounds
    forfeited,  \* events that a later one was published before, or that never were
    promised,   \* what was committed when the subscription was answered
    drops

serverVars == <<log, deletedAt, pending>>
feedVars == <<feed, after, high, buffer>>
clientVars == <<data, last, status, awaiting, queued, saved>>
historyVars == <<forfeited, promised, drops>>
vars == <<serverVars, feedVars, wire, clientVars, historyVars>>

Idle == [after |-> 0, through |-> 0]
Batch(w) == (pending[w].after + 1) .. pending[w].through

Larger(m, n) == IF m >= n THEN m ELSE n
Smaller(m, n) == IF m <= n THEN m ELSE n

Frame(k, n) == [kind |-> k, seq |-> n]
Synchronized == Frame("synchronized", 0)

\* The event frames of the sequences above m, up to n.
Events(m, n) == [i \in 1 .. (n - m) |-> Frame("event", m + i)]
Above(m, frames) ==
    LET kept[i \in 0 .. Len(frames)] ==
            IF i = 0 THEN <<>>
            ELSE IF frames[i].seq > m THEN Append(kept[i - 1], frames[i]) ELSE kept[i - 1]
    IN  kept[Len(frames)]

TypeOK ==
    /\ log \in Event
    /\ deletedAt \in Cursor
    /\ pending \in [Writers -> [after : Cursor, through : Cursor]]
    /\ feed \in {"closed", "loading", "requested", "replaying", "attaching", "attached",
                "catching", "live", "ended"}
    /\ after \in Cursor \cup {NoCursor}
    /\ high \in Cursor
    /\ buffer \in Seq([kind : {"event"}, seq : Event])
    /\ wire \in Seq([kind : {"event", "snapshot", "synchronized"}, seq : Cursor])
    /\ data \in (SUBSET Event) \cup {NoProjection}
    /\ last \in Cursor
    /\ status \in {"synchronizing", "live", "cached", "empty", "deleted"}
    /\ awaiting \in BOOLEAN
    /\ queued \in Copy
    /\ saved \in Copy
    /\ forfeited \subseteq Event
    /\ promised \in Cursor
    /\ drops \in 0 .. MaxDrops

\* The thread was created and published; no client has opened it yet.
Init ==
    /\ log = 1
    /\ deletedAt = 0
    /\ pending = [w \in Writers |-> Idle]
    /\ feed = "closed"
    /\ after = NoCursor
    /\ high = 0
    /\ buffer = <<>>
    /\ wire = <<>>
    /\ data = NoProjection
    /\ last = 0
    /\ status = "synchronizing"
    /\ awaiting = FALSE
    /\ queued = NoCopy
    /\ saved = NoCopy
    /\ forfeited = {}
    /\ promised = 0
    /\ drops = 0

-----------------------------------------------------------------------------
(* The event sink *)

\* One transaction appends the events and applies them to the projections.
\* The last event of the batch may be the thread's deletion.
Commit(w) ==
    /\ pending[w] = Idle
    /\ \E n \in 1 .. MaxBatch :
          /\ log + n <= MaxEvents
          /\ log' = log + n
          /\ pending' = [pending EXCEPT ![w] = [after |-> log, through |-> log + n]]
          /\ deletedAt' \in {deletedAt} \cup {m \in {log + n} : deletedAt = 0}
    /\ UNCHANGED <<feedVars, wire, clientVars, historyVars>>

\* The batch goes to every attached subscription, which filters it.
Publish(w) ==
    /\ pending[w] # Idle
    /\ LET batch == pending[w] IN
          /\ buffer' = IF feed \in {"attached", "catching"}
                         THEN buffer \o Events(batch.after, batch.through) ELSE buffer
          /\ wire' = IF feed = "live"
                       THEN wire \o Above(Larger(high, after),
                                          Events(batch.after, batch.through))
                       ELSE wire
          /\ forfeited' = forfeited \cup
               {e \in UNION {Batch(v) : v \in Writers \ {w}} : e < batch.through}
    /\ pending' = [pending EXCEPT ![w] = Idle]
    /\ UNCHANGED <<log, deletedAt, feed, after, high, clientVars, promised, drops>>

\* The writing fiber is interrupted between its commit and its publication.
AbandonPublication(w) ==
    /\ pending[w] # Idle
    /\ pending' = [pending EXCEPT ![w] = Idle]
    /\ forfeited' = forfeited \cup Batch(w)
    /\ UNCHANGED <<log, deletedAt, feedVars, wire, clientVars, promised, drops>>

-----------------------------------------------------------------------------
(* The client's reducer *)

\* Mutant: shown as live whatever the subscription still has to replay.
SetThreadLive(projection, sequence) ==
    /\ data' = projection
    /\ status' = "live"
    /\ queued' \in {queued, [seq |-> sequence, seen |-> projection]}

\* The projection is shown, and offered to the debounced save unless a run is
\* active in it.
SetThread(projection, sequence) ==
    /\ data' = projection
    /\ status' = IF awaiting THEN "synchronizing" ELSE "live"
    /\ queued' \in {queued, [seq |-> sequence, seen |-> projection]}

SetDeleted ==
    /\ awaiting' = FALSE
    /\ data' = NoProjection
    /\ status' = "deleted"
    /\ saved' = NoCopy

ApplySynchronized ==
    /\ awaiting' = FALSE
    /\ status' = IF data # NoProjection /\ status # "deleted" THEN "live" ELSE status
    /\ UNCHANGED <<data, last, queued, saved>>

ApplySnapshot(n) ==
    /\ last' = n
    /\ SetThread(1 .. n, n)
    /\ UNCHANGED <<awaiting, saved>>

ApplyEvent(n) ==
    IF n <= last
      THEN UNCHANGED clientVars
      ELSE /\ last' = n
           /\ \/ /\ n = deletedAt
                 /\ SetDeleted
                 /\ UNCHANGED queued
              \/ /\ n # deletedAt
                 /\ data = NoProjection
                 /\ UNCHANGED <<data, status, awaiting, queued, saved>>
              \/ /\ n # deletedAt
                 /\ data # NoProjection
                 /\ SetThread(data \cup {n}, n)
                 /\ UNCHANGED <<awaiting, saved>>

Receive ==
    /\ wire # <<>>
    /\ wire' = Tail(wire)
    /\ LET frame == Head(wire) IN
          \/ frame.kind = "synchronized" /\ ApplySynchronized
          \/ frame.kind = "snapshot" /\ ApplySnapshot(frame.seq)
          \/ frame.kind = "event" /\ ApplyEvent(frame.seq)
    /\ UNCHANGED <<serverVars, feedVars, historyVars>>

\* Mutant: saved under the cursor of the moment.
PersistCurrentCursor ==
    /\ queued # NoCopy
    /\ saved' = [seq |-> last, seen |-> queued.seen]
    /\ queued' = NoCopy
    /\ UNCHANGED <<serverVars, feedVars, wire, data, last, status, awaiting, historyVars>>

\* 500 ms after the last offer.
Persist ==
    /\ queued # NoCopy
    /\ saved' = queued
    /\ queued' = NoCopy
    /\ UNCHANGED <<serverVars, feedVars, wire, data, last, status, awaiting, historyVars>>

-----------------------------------------------------------------------------
(* The subscription *)

\* Mutant: a subscription that was lost is not requested again.
SubscribeOnce ==
    /\ feed = "closed" /\ status \notin {"cached", "empty"}
    /\ awaiting' = TRUE
    /\ status' = IF status = "deleted" THEN status ELSE "synchronizing"
    /\ IF data = NoProjection /\ status # "deleted"
         THEN feed' = "loading" /\ after' = log
         ELSE feed' = "requested" /\ after' = IF data = NoProjection THEN NoCursor ELSE last
    /\ UNCHANGED <<serverVars, high, buffer, wire, data, last, queued, saved, historyVars>>

\* makeSubscribeInput: without a projection the client tries HTTP first.
Subscribe ==
    /\ feed = "closed"
    /\ awaiting' = TRUE
    /\ status' = IF status = "deleted" THEN status ELSE "synchronizing"
    /\ IF data = NoProjection /\ status # "deleted"
         THEN feed' = "loading" /\ after' = log
         ELSE feed' = "requested" /\ after' = IF data = NoProjection THEN NoCursor ELSE last
    /\ UNCHANGED <<serverVars, high, buffer, wire, data, last, queued, saved, historyVars>>

\* The snapshot was read between the HTTP request and its answer.
LoadSnapshot ==
    /\ feed = "loading"
    /\ feed' = "requested"
    /\ \E n \in after .. log :
          /\ ApplySnapshot(n)
          /\ after' = n
    /\ UNCHANGED <<serverVars, high, buffer, wire, historyVars>>

\* HTTP failed or timed out: the request carries no cursor.
LoadNothing ==
    /\ feed = "loading"
    /\ feed' = "requested"
    /\ after' = NoCursor
    /\ UNCHANGED <<serverVars, high, buffer, wire, clientVars, historyVars>>

\* The server reads the high-water mark the replay goes to.
AnswerResume ==
    /\ feed = "requested"
    /\ after # NoCursor
    /\ feed' = "replaying"
    /\ high' = log
    /\ promised' = log
    /\ UNCHANGED <<serverVars, after, buffer, wire, clientVars, forfeited, drops>>

\* One read of at most ReplayLimit rows, then the completion marker.
Replay ==
    /\ feed = "replaying"
    /\ feed' = "attaching"
    /\ wire' = wire \o Append(Events(after, Smaller(high, after + ReplayLimit)), Synchronized)
    /\ after' = high
    /\ UNCHANGED <<serverVars, high, buffer, clientVars, historyVars>>

\* Projection and sequence are read in one transaction.
AnswerSnapshot ==
    /\ feed = "requested"
    /\ after = NoCursor
    /\ feed' = "attaching"
    /\ wire' = wire \o <<Frame("snapshot", log), Synchronized>>
    /\ after' = log
    /\ promised' = log
    /\ UNCHANGED <<serverVars, high, buffer, clientVars, forfeited, drops>>

\* EventSink.stream subscribes to the live events first ...
Attach ==
    /\ feed = "attaching"
    /\ feed' = "attached"
    /\ UNCHANGED <<serverVars, after, high, buffer, wire, clientVars, historyVars>>

\* ... and then captures the high-water mark.
ReadHighWater ==
    /\ feed = "attached"
    /\ feed' = "catching"
    /\ high' = log
    /\ UNCHANGED <<serverVars, after, buffer, wire, clientVars, historyVars>>

\* Mutant: what was published while the pages were read is discarded.
CatchUpUnbuffered ==
    /\ feed = "catching"
    /\ feed' = "live"
    /\ wire' = wire \o Events(after, high)
    /\ buffer' = <<>>
    /\ UNCHANGED <<serverVars, after, high, clientVars, historyVars>>

\* Every page up to the mark, then the buffered events above it, then live.
CatchUp ==
    /\ feed = "catching"
    /\ feed' = "live"
    /\ wire' = wire \o Events(after, high) \o Above(Larger(high, after), buffer)
    /\ buffer' = <<>>
    /\ UNCHANGED <<serverVars, after, high, clientVars, historyVars>>

-----------------------------------------------------------------------------
(* What interrupts them *)

StatusWithoutLiveData == IF data = NoProjection THEN "empty" ELSE "cached"

StopFeed(stage) ==
    /\ feed' = stage
    /\ after' = NoCursor
    /\ high' = 0
    /\ buffer' = <<>>
    /\ wire' = <<>>

Drop == drops < MaxDrops /\ drops' = drops + 1

SetDisconnected ==
    /\ awaiting' = FALSE
    /\ status' = IF status = "deleted" THEN status ELSE StatusWithoutLiveData
    /\ UNCHANGED <<data, last, queued, saved>>

\* Another session or retry will request it, unless it ended for good.
Unrequested == IF feed = "ended" THEN "ended" ELSE "closed"

\* The transport is lost, and the subscription waits for the next session; or it
\* fails in an expected way, and is retried. One that ended is only shown as lost.
Disconnect ==
    /\ Drop
    /\ feed # "closed"
    /\ StopFeed(Unrequested)
    /\ SetDisconnected
    /\ UNCHANGED <<serverVars, forfeited, promised>>

\* A failure with a defect or an interruption in it is raised again, past the
\* sessions to come: the fiber that applies the items ends, and the thread is
\* shown as it was. No bound: nothing but Reopen leads out of it.
EndSubscription ==
    /\ feed \notin {"closed", "ended"}
    /\ StopFeed("ended")
    /\ UNCHANGED <<serverVars, clientVars, historyVars>>

\* The connection is back, and the thread waits for a subscription it has no more.
SetReady ==
    /\ feed = "ended" /\ status \in {"cached", "empty"}
    /\ status' = "synchronizing"
    /\ UNCHANGED <<serverVars, feedVars, wire, data, last, awaiting, queued, saved, historyVars>>

\* A foreground wake-up replaces the subscription on the same session.
Resubscribe ==
    /\ Drop
    /\ feed \notin {"closed", "ended"}
    /\ StopFeed("closed")
    /\ UNCHANGED <<serverVars, clientVars, forfeited, promised>>

\* The server process is lost with the batches it had not published.
Crash ==
    /\ Drop
    /\ pending' = [w \in Writers |-> Idle]
    /\ StopFeed(Unrequested)
    /\ SetDisconnected
    /\ UNCHANGED <<log, deletedAt, forfeited, promised>>

\* The thread's state is closed, its finalizer saving a projection without an
\* active run, or the page is killed; it is opened again from the cache.
Reopen ==
    /\ Drop
    /\ StopFeed("closed")
    /\ saved' \in {saved} \cup {c \in {[seq |-> last, seen |-> data]} : data # NoProjection}
    /\ data' = saved'.seen
    /\ last' = saved'.seq
    /\ status' = "synchronizing"
    /\ awaiting' = FALSE
    /\ queued' = NoCopy
    /\ UNCHANGED <<serverVars, forfeited, promised>>

Deliver ==
    \/ Subscribe \/ LoadSnapshot \/ LoadNothing \/ AnswerResume \/ Replay \/ AnswerSnapshot
    \/ Attach \/ ReadHighWater \/ CatchUp

Next ==
    \/ \E w \in Writers : Commit(w) \/ Publish(w) \/ AbandonPublication(w)
    \/ Deliver \/ Receive \/ Persist
    \/ Disconnect \/ EndSubscription \/ SetReady \/ Resubscribe \/ Crash \/ Reopen

Spec == Init /\ [][Next]_vars

\* A writer leaves its commit one way or the other, the subscription and the
\* client go on while connected, and a new session follows a lost one (Subscribe).
Fairness ==
    /\ \A w \in Writers : WF_vars(Publish(w) \/ AbandonPublication(w))
    /\ WF_vars(Deliver)
    /\ WF_vars(Receive)

FairSpec == Spec /\ Fairness

-----------------------------------------------------------------------------
(* Properties *)

\* A copy whose cursor is trusted to stand for every event up to it.
Complete(copy) ==
    copy.seen # NoProjection => \A e \in 1 .. copy.seq : e \in copy.seen \cup forfeited

\* The client's cursor never passes an event its projection lacks, unless that
\* event was published after a later one, or never.
NothingSkipped == Complete([seq |-> last, seen |-> data])

\* The same of the cached copy and of the one waiting to be saved, so that a
\* warm cache can be resumed from its cursor.
CacheIsResumable == Complete(queued) /\ Complete(saved)

\* A thread shown as live holds everything that had been committed when its
\* subscription was answered.
LiveMeansCaughtUp == status = "live" => \A e \in 1 .. promised : e \in data \cup forfeited

\* Once connections last, the client comes to hold every committed event, or
\* to know that the thread is deleted, whatever failures were expected; a failure
\* that was not ends the subscription until the thread is opened again.
CatchesUp ==
    <>[](\/ status = "deleted" \/ feed = "ended"
         \/ data # NoProjection /\ 1 .. log \subseteq data \cup forfeited)
=============================================================================
