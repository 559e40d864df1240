------------------------- MODULE EventStreamProofs -------------------------
(***************************************************************************)
(* That a client's cursor never passes an event its projection lacks, that  *)
(* its cache can be resumed, and that a thread shown as live is caught up,  *)
(* for any number of writers, events and lost connections, as long as no    *)
(* client falls further behind than one read of the event store holds.      *)
(*                                                                         *)
(* The invariant follows an event from its commit to the client: it is      *)
(* behind the cursor, or lost, or in or before a frame that travels, or     *)
(* still with the writer that has yet to publish it.                        *)
(***************************************************************************)
EXTENDS EventStream, FiniteSetTheorems, TLAPS

\* Every event up to n is behind the cursor, lost, or in or before one of the first i frames.
Accounted(n, frames, i, cursor, lost) ==
    \A e \in 1 .. n : e <= cursor \/ e \in lost \/ \E j \in 1 .. i : frames[j].seq >= e

\* Up to each frame nothing is missing, from a sequence on.
Chained(frames, from, lost) ==
    \A k \in 1 .. Len(frames) : Accounted(frames[k].seq - 1, frames, k - 1, from, lost)

\* The client may apply the frames one by one: each event follows what precedes
\* it, a snapshot comes first, and the marker follows what is due.
InOrder(frames, cursor, lost, due) ==
    \A i \in 1 .. Len(frames) :
        LET f == frames[i] IN
        /\ f.kind = "event" => f.seq >= 1 /\ Accounted(f.seq - 1, frames, i - 1, cursor, lost)
        /\ f.kind = "snapshot" => i = 1 /\ cursor <= f.seq
        /\ f.kind = "synchronized" => f.seq = 0 /\ Accounted(due, frames, i - 1, cursor, lost)

\* The frames that travel can be applied as they come.
WireInv == InOrder(wire, last, forfeited, promised)

\* Committed and not yet published.
Underway == UNION {Batch(w) : w \in Writers}

\* No sequence anywhere is above the log.
BoundInv ==
    /\ \A w \in Writers : /\ pending[w] = Idle \/ pending[w].after < pending[w].through
                          /\ pending[w].through <= log
    /\ last <= log /\ queued.seq <= log /\ saved.seq <= log
    /\ after <= log /\ high <= log
    /\ \A i \in 1 .. Len(wire) : wire[i].seq <= log
    /\ \A i \in 1 .. Len(buffer) : buffer[i].seq <= log

\* What the subscription has sent, and has yet to send, at each of its stages.
FeedInv ==
    /\ feed \in {"closed", "loading", "requested", "replaying", "ended"} => wire = <<>>
    /\ feed \notin {"attached", "catching"} => buffer = <<>>
    /\ feed \in {"loading", "requested", "replaying"} => awaiting
    /\ feed \in {"loading", "requested"} => status # "live"
    /\ feed \in {"requested", "replaying"} => after <= last
    /\ feed \in {"loading", "replaying", "attaching", "attached", "catching", "live"} => after \in Cursor
    /\ feed = "replaying" => promised <= high
    /\ feed \in {"attaching", "attached", "catching"} =>
           Accounted(after, wire, Len(wire), last, forfeited)
    /\ feed = "catching" =>
           /\ Chained(buffer, high, forfeited)
           /\ Accounted(log, buffer, Len(buffer), high, forfeited \cup Underway)
    /\ feed = "live" =>
           /\ Accounted(Larger(high, after), wire, Len(wire), last, forfeited)
           /\ Accounted(log, wire, Len(wire), last, forfeited \cup Underway)

\* The cursor has passed what was committed when the subscription was answered.
CaughtUp == \A e \in 1 .. promised : e <= last \/ e \in forfeited

\* The thread is shown as live only when it is caught up, and a completed
\* handshake means that it is, or that there is nothing to show.
ShownInv ==
    /\ status = "live" => data # NoProjection /\ CaughtUp
    /\ feed \in {"attaching", "attached", "catching", "live"} /\ ~awaiting =>
           \/ CaughtUp
           \/ /\ data = NoProjection
              /\ \A i \in 1 .. Len(wire) : wire[i].kind # "snapshot"

\* The client is not further behind than one read of the event store.
WithinOneRead == feed = "replaying" => high - after <= ReplayLimit

\* The inductive invariant.
IInv == TypeOK /\ BoundInv /\ WireInv /\ FeedInv /\ ShownInv /\ NothingSkipped /\ CacheIsResumable

-----------------------------------------------------------------------------
\* The naturals are well-ordered, as the finite intervals below them are.
LEMMA LeastNatural == 
  ASSUME NEW S \in SUBSET Nat, S # {}
  PROVE  \E n \in S : \A k \in S : n <= k
<1> DEFINE UpTo(n) == 1 .. n
<1> DEFINE T == {UpTo(n) : n \in S}
<1>1. \A n \in S : IsFiniteSet(UpTo(n)) /\ UpTo(n) \subseteq Nat
  BY FS_Interval
<1>2. T \subseteq FiniteSubsetsOf(Nat) /\ T # {}
  BY <1>1 DEF FiniteSubsetsOf
<1>3. PICK x \in T : \A y \in T : <<y, x>> \notin StrictSubsetOrdering(Nat)
  BY <1>2, FS_StrictSubsetOrderingWellFounded, WFMin
<1>4. PICK n \in S : x = UpTo(n)
  OBVIOUS
<1>5. ASSUME NEW k \in S, k < n
      PROVE  FALSE
  <2>1. UpTo(k) \subseteq UpTo(n) /\ UpTo(k) # UpTo(n)
    BY <1>5
  <2>2. <<UpTo(k), UpTo(n)>> \in StrictSubsetOrdering(Nat)
    BY <2>1, <1>1 DEF StrictSubsetOrdering
  <2> QED
    BY <2>2, <1>3, <1>4
<1> QED
  BY <1>5

\* A set of naturals with 0 and every successor of a member holds them all.
LEMMA Induction ==
  ASSUME NEW S, 0 \in S, \A n \in Nat : n \in S => n + 1 \in S
  PROVE  Nat \subseteq S
<1>1. SUFFICES ASSUME Nat \ S # {}
               PROVE  FALSE
  OBVIOUS
<1>2. PICK n \in Nat \ S : \A k \in Nat \ S : n <= k
  BY <1>1, LeastNatural
<1>3. n # 0 /\ n - 1 \in Nat /\ n - 1 \in S
  BY <1>2
<1> QED
  BY <1>2, <1>3

-----------------------------------------------------------------------------
AnyFrame == [kind : {"event", "snapshot", "synchronized"}, seq : Cursor]

\* One step of the recursion in Above.
KeptStep(m, s, g, i) ==
    IF i = 0 THEN <<>>
    ELSE IF s[i].seq > m THEN Append(g[i - 1], s[i]) ELSE g[i - 1]

\* r holds the first n frames of s that are above m, each after the earlier ones.
Filtered(m, s, n, r) ==
    /\ r \in Seq(AnyFrame)
    /\ \A k \in 1 .. Len(r) : \E i \in 1 .. n :
          /\ r[k] = s[i] /\ s[i].seq > m
          /\ \A h \in 1 .. i - 1 : s[h].seq > m => \E j \in 1 .. k - 1 : r[j] = s[h]
    /\ \A i \in 1 .. n : s[i].seq > m => \E k \in 1 .. Len(r) : r[k] = s[i]

\* The recursive function in Above exists.
LEMMA KeptExists ==
  ASSUME NEW m, NEW s \in Seq(AnyFrame)
  PROVE  \E g : g = [i \in 0 .. Len(s) |-> KeptStep(m, s, g, i)]
<1> DEFINE Done == {n \in Nat : \E g : g = [i \in 0 .. n |-> KeptStep(m, s, g, i)]}
<1>1. 0 \in Done
  <2> DEFINE g == [i \in 0 .. 0 |-> <<>>]
  <2>1. g = [i \in 0 .. 0 |-> KeptStep(m, s, g, i)]
    BY DEF KeptStep
  <2> QED
    BY <2>1
<1>2. ASSUME NEW n \in Nat, n \in Done
      PROVE  n + 1 \in Done
  <2>1. PICK g : g = [i \in 0 .. n |-> KeptStep(m, s, g, i)]
    BY <1>2
  <2> DEFINE h == [i \in 0 .. n + 1 |-> IF i = n + 1 THEN KeptStep(m, s, g, i) ELSE g[i]]
  <2>2. \A i \in 0 .. n + 1 : KeptStep(m, s, h, i) = KeptStep(m, s, g, i)
    BY DEF KeptStep
  <2>3. \A i \in 0 .. n + 1 : h[i] = KeptStep(m, s, g, i)
    BY <2>1
  <2>4. h = [i \in 0 .. n + 1 |-> KeptStep(m, s, h, i)]
    BY <2>2, <2>3
  <2> HIDE DEF h
  <2>5. \E f : f = [i \in 0 .. n + 1 |-> KeptStep(m, s, f, i)]
    BY <2>4
  <2> QED
    BY <2>5
<1> HIDE DEF Done
<1>3. Len(s) \in Done
  BY <1>1, <1>2, Induction
<1> QED
  BY <1>3 DEF Done

\* Above returns the frames above m, in their order.
LEMMA AboveFilters ==
  ASSUME NEW m \in Int, NEW s \in Seq(AnyFrame)
  PROVE  Filtered(m, s, Len(s), Above(m, s))
<1>1. PICK g : g = [i \in 0 .. Len(s) |-> KeptStep(m, s, g, i)]
  BY KeptExists
<1>2. PICK h : /\ h = [i \in 0 .. Len(s) |-> KeptStep(m, s, h, i)]
               /\ Above(m, s) = h[Len(s)]
  BY <1>1 DEF Above, KeptStep
<1> DEFINE Done == {n \in Nat : n <= Len(s) => Filtered(m, s, n, h[n])}
<1>3. 0 \in Done
  <2>1. h[0] = <<>>
    BY <1>2 DEF KeptStep
  <2>2. <<>> \in Seq(AnyFrame) /\ Len(<<>>) = 0
    OBVIOUS
  <2>3. Filtered(m, s, 0, <<>>)
    BY <2>2 DEF Filtered
  <2> QED
    BY <2>1, <2>3
<1>4. ASSUME NEW n \in Nat, n \in Done, n + 1 <= Len(s)
      PROVE  Filtered(m, s, n + 1, h[n + 1])
  <2> DEFINE r == h[n]
  <2> DEFINE f == s[n + 1]
  <2>1. Filtered(m, s, n, r)
    BY <1>4
  <2>2. h[n + 1] = IF f.seq > m THEN Append(r, f) ELSE r
    <3>1. n + 1 \in 0 .. Len(s) /\ n + 1 # 0 /\ (n + 1) - 1 = n
      BY <1>4
    <3>2. h[n + 1] = KeptStep(m, s, h, n + 1)
      BY <1>2, <3>1
    <3> QED
      BY <3>1, <3>2 DEF KeptStep
  <2>3. f \in AnyFrame
    <3>1. n + 1 \in 1 .. Len(s)
      BY <1>4
    <3> QED
      BY <3>1
  <2> HIDE DEF r, f
  <2>4. CASE ~(f.seq > m)
    <3>1. h[n + 1] = r /\ 1 .. n \subseteq 1 .. n + 1
      BY <2>2, <2>4
    <3>2. ASSUME NEW i \in 1 .. n + 1, s[i].seq > m
          PROVE  \E k \in 1 .. Len(r) : r[k] = s[i]
      <4>1. i \in 1 .. n
        BY <2>4, <3>2 DEF f
      <4> QED
        BY <2>1, <3>2, <4>1 DEF Filtered
    <3>3. Filtered(m, s, n + 1, r)
      BY <2>1, <3>1, <3>2 DEF Filtered
    <3> QED
      BY <3>1, <3>3
  <2>5. CASE f.seq > m
    <3> DEFINE q == Append(r, f)
    <3>1. /\ r \in Seq(AnyFrame) /\ q \in Seq(AnyFrame) /\ Len(q) = Len(r) + 1
          /\ \A k \in 1 .. Len(r) : q[k] = r[k]
          /\ q[Len(r) + 1] = f
      BY <2>1, <2>3 DEF Filtered
    <3> HIDE DEF q
    <3>2. ASSUME NEW k \in 1 .. Len(q)
          PROVE  \E i \in 1 .. n + 1 :
                   /\ q[k] = s[i] /\ s[i].seq > m
                   /\ \A p \in 1 .. i - 1 : s[p].seq > m => \E j \in 1 .. k - 1 : q[j] = s[p]
      <4>1. CASE k = Len(r) + 1
        <5>1. ASSUME NEW p \in 1 .. n, s[p].seq > m
              PROVE  \E j \in 1 .. k - 1 : q[j] = s[p]
          <6>1. PICK j \in 1 .. Len(r) : r[j] = s[p]
            BY <2>1, <5>1 DEF Filtered
          <6> QED
            BY <3>1, <4>1, <6>1
        <5> QED
          <6>1. n + 1 \in 1 .. n + 1 /\ q[k] = s[n + 1] /\ s[n + 1].seq > m /\ (n + 1) - 1 = n
            BY <3>1, <4>1, <2>5 DEF f
          <6>2. \A p \in 1 .. (n + 1) - 1 : s[p].seq > m => \E j \in 1 .. k - 1 : q[j] = s[p]
            BY <5>1, <6>1
          <6> WITNESS n + 1 \in 1 .. n + 1
          <6> QED
            BY <6>1, <6>2
      <4>2. CASE k \in 1 .. Len(r)
        <5>1. PICK i \in 1 .. n :
                /\ r[k] = s[i] /\ s[i].seq > m
                /\ \A p \in 1 .. i - 1 : s[p].seq > m => \E j \in 1 .. k - 1 : r[j] = s[p]
          BY <2>1, <4>2 DEF Filtered
        <5>2. \A j \in 1 .. k - 1 : q[j] = r[j]
          BY <3>1, <4>2
        <5>3. i \in 1 .. n + 1 /\ q[k] = s[i]
          BY <3>1, <4>2, <5>1
        <5> QED
          BY <5>1, <5>2, <5>3
      <4>3. Len(r) \in Nat /\ (k = Len(r) + 1 \/ k \in 1 .. Len(r))
        BY <3>1
      <4> QED
        BY <4>1, <4>2, <4>3
    <3>3. ASSUME NEW i \in 1 .. n + 1, s[i].seq > m
          PROVE  \E k \in 1 .. Len(q) : q[k] = s[i]
      <4>1. CASE i = n + 1
        BY <3>1, <4>1 DEF f
      <4>2. CASE i \in 1 .. n
        <5>1. PICK k \in 1 .. Len(r) : r[k] = s[i]
          BY <2>1, <3>3, <4>2 DEF Filtered
        <5> QED
          BY <5>1, <3>1
      <4> QED
        BY <4>1, <4>2
    <3> QED
      <4>1. Filtered(m, s, n + 1, q)
        BY <3>1, <3>2, <3>3 DEF Filtered
      <4> QED
        BY <2>2, <2>5, <4>1 DEF q
  <2> QED
    BY <2>4, <2>5
<1> HIDE DEF Done
<1>5. Len(s) \in Done
  <2>1. \A n \in Nat : n \in Done => n + 1 \in Done
    BY <1>4 DEF Done
  <2> QED
    BY <1>3, <2>1, Induction
<1> QED
  BY <1>2, <1>5 DEF Done

AnyEvent == [kind : {"event"}, seq : Event]

\* Sequences are numbers.
LEMMA CursorFacts ==
  /\ MaxEvents \in Nat
  /\ Event \subseteq Cursor /\ Cursor \subseteq Nat /\ Cursor \subseteq Int /\ NoCursor \in Int
  /\ AnyEvent \subseteq AnyFrame
  /\ \A f \in AnyFrame : f.seq \in Cursor
BY EventStreamAssumption DEF Event, Cursor, AnyEvent, AnyFrame, NoCursor

\* Where the frames of a concatenation come from.
LEMMA ConcatFacts ==
  ASSUME NEW T, NEW w \in Seq(T), NEW r \in Seq(T)
  PROVE  /\ w \o r \in Seq(T)
         /\ Len(w) \in Nat /\ Len(r) \in Nat
         /\ Len(w \o r) = Len(w) + Len(r)
         /\ \A i \in 1 .. Len(w) : (w \o r)[i] = w[i]
         /\ \A k \in 1 .. Len(r) : (w \o r)[Len(w) + k] = r[k]
OBVIOUS

\* Events(m, n) has every event above m up to n, in order.
LEMMA EventsFacts ==
  ASSUME NEW m \in Cursor, NEW n \in Cursor
  PROVE  LET r == Events(m, n) IN
         /\ r \in Seq(AnyEvent)
         /\ \A k \in 1 .. Len(r) : r[k].kind = "event" /\ r[k].seq \in (m + 1) .. n
         /\ \A e \in (m + 1) .. n : \E k \in 1 .. Len(r) : r[k].seq = e
         /\ Chained(r, m, {})
<1> DEFINE r == Events(m, n)
<1>1. m \in Nat /\ n \in Nat /\ n <= MaxEvents /\ MaxEvents \in Nat
  BY CursorFacts DEF Cursor
<1>2. \A k \in 1 .. (n - m) : r[k] = [kind |-> "event", seq |-> m + k]
  BY DEF Events, Frame
<1>3. r \in Seq(AnyEvent) /\ (Len(r) = n - m \/ (n - m < 0 /\ Len(r) = 0))
  <2>1. CASE n - m \in Nat
    <3>1. \A k \in 1 .. (n - m) : [kind |-> "event", seq |-> m + k] \in AnyEvent
      BY <1>1 DEF AnyEvent, Event
    <3>2. r \in [1 .. (n - m) -> AnyEvent]
      BY <3>1 DEF Events, Frame
    <3> QED
      BY <3>2, <2>1
  <2>2. CASE n - m < 0
    <3>1. r = <<>>
      BY <2>2, <1>1 DEF Events
    <3> QED
      BY <3>1, <2>2
  <2> QED
    BY <2>1, <2>2, <1>1
<1>4. \A k \in 1 .. Len(r) : r[k].kind = "event" /\ r[k].seq = m + k /\ k <= n - m
  <2>1. SUFFICES ASSUME NEW k \in 1 .. Len(r)
                 PROVE  r[k].kind = "event" /\ r[k].seq = m + k /\ k <= n - m
    OBVIOUS
  <2>2. k \in 1 .. (n - m) /\ k <= n - m
    BY <1>1, <1>3
  <2>3. r[k] = [kind |-> "event", seq |-> m + k]
    BY <1>2, <2>2
  <2> HIDE DEF r
  <2> QED
    BY <2>2, <2>3
<1> HIDE DEF r
<1>5. \A e \in (m + 1) .. n : e - m \in 1 .. Len(r) /\ r[e - m].seq = e
  BY <1>1, <1>3, <1>4
<1>6. Chained(r, m, {})
  <2>1. SUFFICES ASSUME NEW k \in 1 .. Len(r), NEW e \in 1 .. (r[k].seq - 1), ~(e <= m)
                 PROVE  \E j \in 1 .. k - 1 : r[j].seq >= e
    BY DEF Chained, Accounted
  <2>2. e \in Int /\ e < m + k
    BY <1>1, <1>4
  <2>3. e - m \in 1 .. k - 1
    BY <1>1, <2>1, <2>2
  <2>4. e - m \in 1 .. Len(r)
    BY <1>1, <1>3, <2>3
  <2>5. r[e - m].seq = e
    BY <1>1, <1>4, <2>2, <2>4
  <2> QED
    BY <2>2, <2>3, <2>5
<1> QED
  BY <1>1, <1>3, <1>4, <1>5, <1>6 DEF r

\* Filtering frames keeps them chained, from the mark on.
LEMMA AboveFacts ==
  ASSUME NEW m \in Int, NEW s \in Seq(AnyFrame)
  PROVE  LET r == Above(m, s) IN
         /\ r \in Seq(AnyFrame)
         /\ \A k \in 1 .. Len(r) : \E i \in 1 .. Len(s) : r[k] = s[i] /\ s[i].seq > m
         /\ \A i \in 1 .. Len(s) : s[i].seq > m => \E k \in 1 .. Len(r) : r[k] = s[i]
         /\ \A h \in Int : \A lost : h <= m /\ Chained(s, h, lost) => Chained(r, m, lost)
<1> DEFINE r == Above(m, s)
<1>1. Filtered(m, s, Len(s), r)
  BY AboveFilters
<1> HIDE DEF r
<1>2. ASSUME NEW h \in Int, NEW lost, h <= m, Chained(s, h, lost)
      PROVE  Chained(r, m, lost)
  <2>1. SUFFICES ASSUME NEW k \in 1 .. Len(r), NEW e \in 1 .. (r[k].seq - 1)
                 PROVE  e <= m \/ e \in lost \/ \E j \in 1 .. k - 1 : r[j].seq >= e
    BY DEF Chained, Accounted
  <2>2. PICK i \in 1 .. Len(s) :
          /\ r[k] = s[i] /\ s[i].seq > m
          /\ \A p \in 1 .. i - 1 : s[p].seq > m => \E j \in 1 .. k - 1 : r[j] = s[p]
    BY <1>1 DEF Filtered
  <2>3. e <= h \/ e \in lost \/ \E p \in 1 .. i - 1 : s[p].seq >= e
    BY <1>2, <2>2 DEF Chained, Accounted
  <2>4. ASSUME NEW p \in 1 .. i - 1, s[p].seq >= e
        PROVE  e <= m \/ \E j \in 1 .. k - 1 : r[j].seq >= e
    <3>1. s[p] \in AnyFrame /\ p \in 1 .. Len(s)
      BY <2>2
    <3>2. s[p].seq \in Int
      BY <3>1, CursorFacts
    <3> QED
      BY <2>2, <2>4, <3>1, <3>2
  <2> QED
    BY <1>2, <2>3, <2>4
<1> QED
  BY <1>1, <1>2 DEF Filtered, r

\* Frames appended in order to others: what lies before each is accounted for
\* among those appended, or it is ahead of them all, among the others.
LEMMA AppendedInOrder ==
  ASSUME NEW w \in Seq(AnyFrame), NEW r \in Seq(AnyFrame), NEW from, NEW ahead,
         NEW cursor \in Int, NEW lost,
         Chained(r, from, ahead),
         Accounted(from, w, Len(w), cursor, lost),
         \A e \in ahead : e <= cursor \/ e \in lost \/ \E j \in 1 .. Len(w) : w[j].seq >= e,
         NEW k \in 1 .. Len(r)
  PROVE  Accounted(r[k].seq - 1, w \o r, Len(w) + k - 1, cursor, lost)
<1> DEFINE q == w \o r
<1>1. /\ Len(w) \in Nat /\ Len(r) \in Nat
      /\ \A i \in 1 .. Len(w) : q[i] = w[i]
      /\ \A i \in 1 .. Len(r) : q[Len(w) + i] = r[i]
  BY ConcatFacts
<1> HIDE DEF q
<1>2. SUFFICES ASSUME NEW e \in 1 .. (r[k].seq - 1)
               PROVE  \/ e <= cursor \/ e \in lost
                      \/ \E j \in 1 .. (Len(w) + k - 1) : q[j].seq >= e
  BY DEF Accounted, q
<1>3. e <= from \/ e \in ahead \/ \E j \in 1 .. k - 1 : r[j].seq >= e
  BY DEF Chained, Accounted
<1>4. ASSUME NEW j \in 1 .. k - 1, r[j].seq >= e
      PROVE  \E p \in 1 .. (Len(w) + k - 1) : q[p].seq >= e
  <2>1. Len(w) + j \in 1 .. (Len(w) + k - 1) /\ q[Len(w) + j] = r[j]
    BY <1>1
  <2> QED
    BY <1>4, <2>1
<1>5. CASE e <= from \/ e \in ahead
  <2>1. e <= cursor \/ e \in lost \/ \E j \in 1 .. Len(w) : w[j].seq >= e
    BY <1>5 DEF Accounted
  <2>2. \A j \in 1 .. Len(w) : j \in 1 .. (Len(w) + k - 1) /\ q[j] = w[j]
    BY <1>1
  <2> QED
    BY <2>1, <2>2
<1> QED
  BY <1>3, <1>4, <1>5

\* Chained frames may follow others that account for what they start from.
LEMMA ChainedConcat ==
  ASSUME NEW w \in Seq(AnyFrame), NEW r \in Seq(AnyFrame), NEW from, NEW ahead,
         NEW cursor \in Int, NEW lost,
         Chained(w, cursor, lost), Chained(r, from, ahead),
         Accounted(from, w, Len(w), cursor, lost),
         \A e \in ahead : e <= cursor \/ e \in lost \/ \E j \in 1 .. Len(w) : w[j].seq >= e
  PROVE  Chained(w \o r, cursor, lost)
<1> DEFINE q == w \o r
<1>1. /\ Len(w) \in Nat /\ Len(r) \in Nat /\ Len(q) = Len(w) + Len(r)
      /\ \A i \in 1 .. Len(w) : q[i] = w[i]
      /\ \A k \in 1 .. Len(r) : q[Len(w) + k] = r[k]
  BY ConcatFacts
<1>2. \A k \in 1 .. Len(r) : Accounted(r[k].seq - 1, q, Len(w) + k - 1, cursor, lost)
  BY AppendedInOrder
<1> HIDE DEF q
<1>3. SUFFICES ASSUME NEW i \in 1 .. Len(q)
               PROVE  Accounted(q[i].seq - 1, q, i - 1, cursor, lost)
  BY DEF Chained, q
<1>4. CASE i \in 1 .. Len(w)
  <2>1. Accounted(w[i].seq - 1, w, i - 1, cursor, lost)
    BY <1>4 DEF Chained
  <2>2. \A j \in 1 .. i - 1 : q[j] = w[j]
    BY <1>1, <1>4
  <2> QED
    BY <1>1, <1>4, <2>1, <2>2 DEF Accounted
<1>5. CASE i \notin 1 .. Len(w)
  <2>1. i - Len(w) \in 1 .. Len(r) /\ i = Len(w) + (i - Len(w))
    BY <1>1, <1>5
  <2>2. PICK k \in 1 .. Len(r) : i = Len(w) + k
    BY <2>1
  <2> QED
    BY <1>1, <1>2, <2>2
<1> QED
  BY <1>4, <1>5

\* So may they on the wire.
LEMMA InOrderConcat ==
  ASSUME NEW w \in Seq(AnyFrame), NEW r \in Seq(AnyFrame), NEW from, NEW ahead,
         NEW cursor \in Int, NEW lost, NEW due,
         InOrder(w, cursor, lost, due),
         Accounted(from, w, Len(w), cursor, lost),
         \A e \in ahead : e <= cursor \/ e \in lost \/ \E j \in 1 .. Len(w) : w[j].seq >= e,
         \A k \in 1 .. Len(r) : r[k].kind = "event" /\ r[k].seq >= 1,
         Chained(r, from, ahead)
  PROVE  InOrder(w \o r, cursor, lost, due)
<1> DEFINE q == w \o r
<1>1. /\ q \in Seq(AnyFrame) /\ Len(w) \in Nat /\ Len(r) \in Nat
      /\ Len(q) = Len(w) + Len(r)
      /\ \A i \in 1 .. Len(w) : q[i] = w[i]
      /\ \A k \in 1 .. Len(r) : q[Len(w) + k] = r[k]
  BY ConcatFacts
<1>2. \A k \in 1 .. Len(r) : Accounted(r[k].seq - 1, q, Len(w) + k - 1, cursor, lost)
  BY AppendedInOrder
<1> HIDE DEF q
<1>3. ASSUME NEW i \in 1 .. Len(w), NEW n
      PROVE  Accounted(n, w, i - 1, cursor, lost) => Accounted(n, q, i - 1, cursor, lost)
  <2>1. \A j \in 1 .. i - 1 : q[j] = w[j]
    BY <1>1
  <2> QED
    BY <2>1 DEF Accounted
<1>4. SUFFICES ASSUME NEW i \in 1 .. Len(q)
               PROVE  LET f == q[i] IN
                      /\ f.kind = "event" =>
                            f.seq >= 1 /\ Accounted(f.seq - 1, q, i - 1, cursor, lost)
                      /\ f.kind = "snapshot" => i = 1 /\ cursor <= f.seq
                      /\ f.kind = "synchronized" =>
                            f.seq = 0 /\ Accounted(due, q, i - 1, cursor, lost)
  BY DEF InOrder, q
<1>5. CASE i \in 1 .. Len(w)
  BY <1>1, <1>3, <1>5 DEF InOrder
<1>6. CASE i \notin 1 .. Len(w)
  <2>1. i - Len(w) \in 1 .. Len(r) /\ i = Len(w) + (i - Len(w))
    BY <1>1, <1>6
  <2>2. PICK k \in 1 .. Len(r) : i = Len(w) + k
    BY <2>1
  <2>3. q[i] = r[k] /\ r[k].kind = "event" /\ r[k].seq >= 1
    BY <1>1, <2>2
  <2> QED
    BY <1>2, <2>2, <2>3
<1> QED
  BY <1>5, <1>6

\* More losses leave the frames in order.
LEMMA InOrderGrows ==
  ASSUME NEW frames, NEW cursor \in Int, NEW due, NEW lost, NEW gone, lost \subseteq gone,
         InOrder(frames, cursor, lost, due)
  PROVE  InOrder(frames, cursor, gone, due)
<1>1. \A n, i : Accounted(n, frames, i, cursor, lost) => Accounted(n, frames, i, cursor, gone)
  BY DEF Accounted
<1> QED
  BY <1>1 DEF InOrder

\* What frames account for, they do with others behind them.
LEMMA AccountedConcat ==
  ASSUME NEW w \in Seq(AnyFrame), NEW r \in Seq(AnyFrame), NEW n, NEW cursor, NEW lost,
         Accounted(n, w, Len(w), cursor, lost)
  PROVE  Accounted(n, w \o r, Len(w \o r), cursor, lost)
<1> DEFINE q == w \o r
<1>1. \A j \in 1 .. Len(w) : j \in 1 .. Len(q) /\ q[j] = w[j]
  BY ConcatFacts
<1> HIDE DEF q
<1>2. Accounted(n, q, Len(q), cursor, lost)
  BY <1>1 DEF Accounted
<1> QED
  BY <1>2 DEF q

\* A frame among those appended accounts for what is up to it.
LEMMA AppendedAccounted ==
  ASSUME NEW w \in Seq(AnyFrame), NEW r \in Seq(AnyFrame), NEW e,
         \E k \in 1 .. Len(r) : r[k].seq >= e
  PROVE  \E j \in 1 .. Len(w \o r) : (w \o r)[j].seq >= e
<1>1. PICK k \in 1 .. Len(r) : r[k].seq >= e
  OBVIOUS
<1>2. Len(w) + k \in 1 .. Len(w \o r) /\ (w \o r)[Len(w) + k] = r[k]
  BY ConcatFacts
<1> QED
  BY <1>1, <1>2

\* Reading the events from m to n behind what accounts for those up to m.
LEMMA EventsAccounted ==
  ASSUME NEW w \in Seq(AnyFrame), NEW m \in Cursor, NEW n \in Cursor, NEW cursor, NEW lost,
         Accounted(m, w, Len(w), cursor, lost)
  PROVE  Accounted(n, w \o Events(m, n), Len(w \o Events(m, n)), cursor, lost)
<1> DEFINE r == Events(m, n)
<1>1. /\ r \in Seq(AnyFrame)
      /\ \A e \in (m + 1) .. n : \E k \in 1 .. Len(r) : r[k].seq = e
  <2>1. r \in Seq(AnyEvent)
    BY EventsFacts
  <2>2. r \in Seq(AnyFrame)
    BY <2>1, CursorFacts
  <2> QED
    BY <2>2, EventsFacts
<1> HIDE DEF r
<1>2. Accounted(m, w \o r, Len(w \o r), cursor, lost)
  BY <1>1, AccountedConcat
<1>3. ASSUME NEW e \in 1 .. n, ~(e <= m)
      PROVE  \E j \in 1 .. Len(w \o r) : (w \o r)[j].seq >= e
  <2>1. m \in Int /\ n \in Int /\ e \in (m + 1) .. n
    BY <1>3, CursorFacts
  <2>2. \E k \in 1 .. Len(r) : r[k].seq >= e
    BY <1>1, <2>1
  <2> QED
    BY <1>1, <2>2, AppendedAccounted
<1>4. m \in Int /\ n \in Int
  BY CursorFacts
<1>5. Accounted(n, w \o r, Len(w \o r), cursor, lost)
  BY <1>2, <1>3, <1>4 DEF Accounted
<1> QED
  BY <1>5 DEF r

\* The client applies the first frame, and its cursor moves to it or is past it.
LEMMA InOrderTail ==
  ASSUME NEW w \in Seq(AnyFrame), w # <<>>, NEW cursor \in Int, NEW reach \in Int,
         NEW lost, NEW due, InOrder(w, cursor, lost, due),
         cursor <= reach, Head(w).seq <= reach
  PROVE  /\ InOrder(Tail(w), reach, lost, due)
         /\ \A i \in 1 .. Len(Tail(w)) : Tail(w)[i].kind # "snapshot"
         /\ \A n, gone : Accounted(n, w, Len(w), cursor, gone)
                          => Accounted(n, Tail(w), Len(Tail(w)), reach, gone)
<1> DEFINE q == Tail(w)
<1>1. /\ Len(w) \in Nat /\ Len(w) > 0 /\ q \in Seq(AnyFrame) /\ Len(q) = Len(w) - 1
      /\ Head(w) = w[1]
      /\ \A i \in 1 .. Len(q) : q[i] = w[i + 1]
  OBVIOUS
<1>2. \A i \in 1 .. Len(w) : w[i].seq \in Int
  <2>1. \A i \in 1 .. Len(w) : w[i] \in AnyFrame
    OBVIOUS
  <2> QED
    BY <2>1, CursorFacts
<1> HIDE DEF q
<1>3. ASSUME NEW n, NEW gone, NEW i \in 1 .. Len(w), Accounted(n, w, i, cursor, gone)
      PROVE  Accounted(n, q, i - 1, reach, gone)
  <2>1. SUFFICES ASSUME NEW e \in 1 .. n
                 PROVE  e <= reach \/ e \in gone \/ \E j \in 1 .. i - 1 : q[j].seq >= e
    BY DEF Accounted
  <2>2. e <= cursor \/ e \in gone \/ \E j \in 1 .. i : w[j].seq >= e
    BY <1>3 DEF Accounted
  <2>3. ASSUME NEW j \in 1 .. i, w[j].seq >= e
        PROVE  e <= reach \/ \E p \in 1 .. i - 1 : q[p].seq >= e
    <3>1. CASE j = 1
      BY <1>1, <1>2, <2>3, <3>1
    <3>2. CASE j # 1
      <4>1. j - 1 \in 1 .. i - 1 /\ j - 1 \in 1 .. Len(q) /\ (j - 1) + 1 = j
        BY <1>1, <3>2
      <4>2. q[j - 1] = w[j]
        BY <1>1, <4>1
      <4> QED
        BY <2>3, <4>1, <4>2
    <3> QED
      BY <3>1, <3>2
  <2> QED
    BY <2>2, <2>3
<1>4. \A i \in 1 .. Len(q) : i + 1 \in 1 .. Len(w) /\ i \in 1 .. Len(w) /\ (i + 1) - 1 = i /\ i + 1 # 1
  BY <1>1
<1>5. InOrder(q, reach, lost, due) /\ \A i \in 1 .. Len(q) : q[i].kind # "snapshot"
  <2>1. SUFFICES ASSUME NEW i \in 1 .. Len(q)
                 PROVE  LET f == q[i] IN
                        /\ f.kind # "snapshot"
                        /\ f.kind = "event" =>
                              f.seq >= 1 /\ Accounted(f.seq - 1, q, i - 1, reach, lost)
                        /\ f.kind = "synchronized" =>
                              f.seq = 0 /\ Accounted(due, q, i - 1, reach, lost)
    BY DEF InOrder
  <2>2. LET f == w[i + 1] IN
        /\ f.kind # "snapshot"
        /\ f.kind = "event" => f.seq >= 1 /\ Accounted(f.seq - 1, w, i, cursor, lost)
        /\ f.kind = "synchronized" => f.seq = 0 /\ Accounted(due, w, i, cursor, lost)
    BY <1>4 DEF InOrder
  <2> QED
    BY <1>1, <1>3, <1>4, <2>2
<1>6. \A n, gone : Accounted(n, w, Len(w), cursor, gone) => Accounted(n, q, Len(q), reach, gone)
  BY <1>1, <1>3
<1> QED
  BY <1>5, <1>6 DEF q

-----------------------------------------------------------------------------
\* What the steps below need of the types.
LEMMA TypeFacts ==
  ASSUME IInv
  PROVE  /\ log \in Int /\ log >= 1 /\ log <= MaxEvents /\ MaxEvents \in Nat
         /\ last \in Cursor /\ high \in Cursor /\ promised \in Cursor /\ log \in Cursor
         /\ Cursor = 0 .. MaxEvents /\ Event = 1 .. MaxEvents /\ Cursor \subseteq Int
         /\ after \in Int
         /\ wire \in Seq(AnyFrame) /\ buffer \in Seq(AnyFrame) /\ buffer \in Seq(AnyEvent)
         /\ Len(wire) \in Nat /\ Len(buffer) \in Nat
         /\ \A w \in Writers : /\ pending[w].after \in Cursor /\ pending[w].through \in Cursor
                               /\ Batch(w) \subseteq 1 .. log
<1>1. TypeOK /\ BoundInv
  BY DEF IInv
<1>2. log \in Event /\ MaxEvents \in Nat /\ Cursor = 0 .. MaxEvents /\ Event = 1 .. MaxEvents
  BY <1>1, CursorFacts DEF TypeOK, Cursor, Event
<1>3. buffer \in Seq(AnyEvent)
  BY <1>1 DEF TypeOK, AnyEvent
<1>4. buffer \in Seq(AnyFrame)
  BY <1>3, CursorFacts
<1>5. wire \in Seq(AnyFrame)
  BY <1>1 DEF TypeOK, AnyFrame
<1>6. ASSUME NEW w \in Writers
      PROVE  /\ pending[w].after \in Cursor /\ pending[w].through \in Cursor
             /\ Batch(w) \subseteq 1 .. log
  <2>1. pending[w].after \in Cursor /\ pending[w].through \in Cursor /\ pending[w].through <= log
    BY <1>1 DEF TypeOK, BoundInv
  <2> QED
    BY <2>1, <1>2 DEF Batch
<1>7. after \in Int
  BY <1>1, <1>2 DEF TypeOK, NoCursor
<1> QED
  BY <1>1, <1>2, <1>3, <1>4, <1>5, <1>6, <1>7 DEF TypeOK

\* What is only about the client's copies survives as long as they do not change.
LEMMA CopiesKept ==
  ASSUME IInv, forfeited \subseteq forfeited', UNCHANGED <<data, last, queued, saved>>
  PROVE  NothingSkipped' /\ CacheIsResumable'
BY DEF IInv, NothingSkipped, CacheIsResumable, Complete

\* New events are under way, and no cursor is above them.
LEMMA CommitStep ==
  ASSUME IInv, NEW w \in Writers, Commit(w)
  PROVE  IInv'
<1>0. TypeOK /\ BoundInv /\ WireInv /\ FeedInv /\ ShownInv
  BY DEF IInv
<1>1. PICK n \in 1 .. MaxBatch :
        /\ log + n <= MaxEvents
        /\ log' = log + n
        /\ pending' = [pending EXCEPT ![w] = [after |-> log, through |-> log + n]]
        /\ deletedAt' \in {deletedAt} \cup {m \in {log + n} : deletedAt = 0}
  BY DEF Commit
<1>2. UNCHANGED <<feed, after, high, buffer, wire, data, last, status, awaiting, queued, saved,
                  forfeited, promised, drops>>
  BY DEF Commit, feedVars, clientVars, historyVars
<1>3. pending[w] = Idle
  BY DEF Commit
<1>4. /\ n \in Nat /\ n >= 1 /\ log + n \in Cursor /\ log + n \in Event /\ log \in Cursor
      /\ log < log + n
  BY <1>1, TypeFacts, EventStreamAssumption
<1>5. TypeOK'
  BY <1>0, <1>1, <1>2, <1>4 DEF TypeOK
<1>6. BoundInv'
  <2>1. \A v \in Writers : pending'[v] = IF v = w THEN [after |-> log, through |-> log + n]
                                        ELSE pending[v]
    BY <1>0, <1>1 DEF TypeOK
  <2>2. \A v \in Writers : /\ pending'[v] = Idle \/ pending'[v].after < pending'[v].through
                          /\ pending'[v].through <= log + n
    <3>1. \A v \in Writers : pending[v].through \in Int /\ pending[v].through <= log
      BY <1>0, TypeFacts DEF BoundInv
    <3> QED
      BY <2>1, <3>1, <1>0, <1>4, TypeFacts DEF BoundInv
  <2>3. \A k : k <= log /\ k \in Int => k <= log + n
    BY <1>4, TypeFacts
  <2>4. /\ \A i \in 1 .. Len(wire) : wire[i].seq \in Int
        /\ \A i \in 1 .. Len(buffer) : buffer[i].seq \in Int
        /\ queued.seq \in Int /\ saved.seq \in Int
    <3>1. /\ \A i \in 1 .. Len(wire) : wire[i] \in AnyFrame
          /\ \A i \in 1 .. Len(buffer) : buffer[i] \in AnyFrame
      BY TypeFacts
    <3> QED
      BY <3>1, <1>0, TypeFacts, CursorFacts DEF TypeOK, Copy
  <2> QED
    BY <2>2, <2>3, <2>4, <1>0, <1>1, <1>2, TypeFacts DEF BoundInv
<1>7. WireInv'
  BY <1>0, <1>2 DEF WireInv
<1>8. FeedInv'
  <2>1. \A e \in (log + 1) .. (log + n) : e \in Underway'
    <3>1. pending'[w] = [after |-> log, through |-> log + n]
      BY <1>0, <1>1 DEF TypeOK
    <3> QED
      BY <3>1 DEF Underway, Batch
  <2>2. Underway \subseteq Underway'
    <3>1. \A v \in Writers : v # w => Batch(v)' = Batch(v)
      BY <1>0, <1>1 DEF TypeOK, Batch
    <3>2. Batch(w) = {}
      BY <1>3 DEF Batch, Idle
    <3> QED
      BY <3>1, <3>2 DEF Underway
  <2>3. \A frames, i, cursor :
           Accounted(log, frames, i, cursor, forfeited \cup Underway)
           => Accounted(log + n, frames, i, cursor, forfeited \cup Underway')
    <3>1. \A e \in 1 .. (log + n) : e \in 1 .. log \/ e \in (log + 1) .. (log + n)
      BY <1>4, TypeFacts
    <3> QED
      BY <2>1, <2>2, <3>1 DEF Accounted
  <2> QED
    BY <2>3, <1>0, <1>1, <1>2 DEF FeedInv
<1>9. ShownInv'
  BY <1>0, <1>2 DEF ShownInv, CaughtUp
<1> QED
  BY <1>2, <1>5, <1>6, <1>7, <1>8, <1>9, CopiesKept DEF IInv

\* The events of an interrupted publication are lost.
LEMMA AbandonPublicationStep ==
  ASSUME IInv, NEW w \in Writers, AbandonPublication(w)
  PROVE  IInv'
<1>0. TypeOK /\ BoundInv /\ WireInv /\ FeedInv /\ ShownInv
  BY DEF IInv
<1>1. /\ pending' = [pending EXCEPT ![w] = Idle]
      /\ forfeited' = forfeited \cup Batch(w)
      /\ UNCHANGED <<log, deletedAt, feed, after, high, buffer, wire, data, last, status,
                     awaiting, queued, saved, promised, drops>>
  BY DEF AbandonPublication, feedVars, clientVars
<1>2. \A v \in Writers : /\ pending'[v] = IF v = w THEN Idle ELSE pending[v]
                        /\ v # w => Batch(v)' = Batch(v)
  BY <1>0, <1>1 DEF TypeOK, Batch
<1>3. forfeited \subseteq forfeited' /\ forfeited \cup Underway \subseteq forfeited' \cup Underway'
  BY <1>1, <1>2 DEF Underway
<1>4. TypeOK'
  <2>1. Batch(w) \subseteq Event /\ Idle \in [after : Cursor, through : Cursor]
    BY TypeFacts DEF Idle
  <2> QED
    BY <1>0, <1>1, <2>1 DEF TypeOK
<1>5. BoundInv'
  <2>1. Idle.through <= log
    BY TypeFacts DEF Idle
  <2> QED
    BY <1>0, <1>1, <1>2, <2>1 DEF BoundInv
<1>6. WireInv'
  BY <1>0, <1>1, <1>3, TypeFacts, InOrderGrows DEF WireInv
<1>7. FeedInv'
  <2>1. \A n, frames, i, cursor :
          /\ Accounted(n, frames, i, cursor, forfeited) => Accounted(n, frames, i, cursor, forfeited')
          /\ Accounted(n, frames, i, cursor, forfeited \cup Underway)
             => Accounted(n, frames, i, cursor, forfeited' \cup Underway')
    BY <1>3 DEF Accounted
  <2> QED
    BY <2>1, <1>0, <1>1 DEF FeedInv, Chained
<1>8. ShownInv'
  BY <1>0, <1>1, <1>3 DEF ShownInv, CaughtUp
<1> QED
  BY <1>1, <1>3, <1>4, <1>5, <1>6, <1>7, <1>8, CopiesKept DEF IInv

\* A published batch is in order after what the subscription got before it: what
\* lies before the batch is forfeited now, or was accounted for already.
LEMMA PublishStep ==
  ASSUME IInv, NEW w \in Writers, Publish(w)
  PROVE  IInv'
<1> DEFINE batch == Events(pending[w].after, pending[w].through)
<1> DEFINE mark == Larger(high, after)
<1> DEFINE fresh == Above(mark, batch)
<1> DEFINE before == 1 .. pending[w].after
<1>0. TypeOK /\ BoundInv /\ WireInv /\ FeedInv /\ ShownInv
  BY DEF IInv
<1>1. /\ pending' = [pending EXCEPT ![w] = Idle]
      /\ forfeited' = forfeited \cup
            {e \in UNION {Batch(v) : v \in Writers \ {w}} : e < pending[w].through}
      /\ buffer' = IF feed \in {"attached", "catching"} THEN buffer \o batch ELSE buffer
      /\ wire' = IF feed = "live" THEN wire \o fresh ELSE wire
      /\ UNCHANGED <<log, deletedAt, feed, after, high, data, last, status, awaiting, queued,
                     saved, promised, drops>>
  BY DEF Publish, clientVars
<1>2. \A v \in Writers : /\ pending'[v] = IF v = w THEN Idle ELSE pending[v]
                        /\ v # w => Batch(v)' = Batch(v)
  BY <1>0, <1>1 DEF TypeOK, Batch
<1>3. /\ forfeited \subseteq forfeited'
      /\ \A e \in Underway : e \in Batch(w) \/ e \in Underway'
  BY <1>1, <1>2 DEF Underway
<1>4. /\ pending[w].after \in Cursor /\ pending[w].through \in Cursor
      /\ pending[w].through <= log /\ pending[w].after < pending[w].through
  BY <1>0, TypeFacts DEF BoundInv, Publish
<1>5. /\ batch \in Seq(AnyEvent) /\ batch \in Seq(AnyFrame) /\ Len(batch) \in Nat
      /\ \A k \in 1 .. Len(batch) : /\ batch[k].kind = "event" /\ batch[k].seq \in Event
                                    /\ batch[k].seq >= 1 /\ batch[k].seq <= log
      /\ \A e \in Batch(w) : \E k \in 1 .. Len(batch) : batch[k].seq = e
      /\ Chained(batch, 0, before)
  <2>1. batch \in Seq(AnyEvent)
    BY <1>4, EventsFacts
  <2>2. batch \in Seq(AnyFrame) /\ Len(batch) \in Nat
    BY <2>1, CursorFacts
  <2>3. \A k \in 1 .. Len(batch) : batch[k].kind = "event" /\ batch[k].seq \in Batch(w)
    BY <1>4, EventsFacts DEF Batch
  <2>4. \A e \in Batch(w) : e \in Event /\ e >= 1 /\ e <= log
    BY TypeFacts
  <2>5. Chained(batch, pending[w].after, {})
    BY <1>4, EventsFacts
  <2>6. \A e \in Nat : e <= pending[w].after /\ e >= 1 => e \in before
    BY <1>4, TypeFacts
  <2>7. Chained(batch, 0, before)
    BY <2>5, <2>6 DEF Chained, Accounted
  <2>8. \A e \in Batch(w) : \E k \in 1 .. Len(batch) : batch[k].seq = e
    BY <1>4, EventsFacts DEF Batch
  <2> QED
    BY <2>1, <2>2, <2>3, <2>4, <2>7, <2>8
<1>6. mark \in Int /\ mark >= 0 /\ mark <= log
  BY <1>0, TypeFacts DEF Larger, BoundInv
<1> HIDE DEF batch, mark
<1>7. /\ fresh \in Seq(AnyFrame) /\ Len(fresh) \in Nat
      /\ \A k \in 1 .. Len(fresh) : \E i \in 1 .. Len(batch) : fresh[k] = batch[i]
      /\ \A i \in 1 .. Len(batch) : batch[i].seq > mark => \E k \in 1 .. Len(fresh) : fresh[k] = batch[i]
      /\ Chained(fresh, mark, before)
  <2>1. fresh \in Seq(AnyFrame)
    BY <1>5, <1>6, AboveFacts
  <2>2. \A k \in 1 .. Len(fresh) : \E i \in 1 .. Len(batch) : fresh[k] = batch[i]
    BY <1>5, <1>6, AboveFacts
  <2>3. \A i \in 1 .. Len(batch) : batch[i].seq > mark => \E k \in 1 .. Len(fresh) : fresh[k] = batch[i]
    BY <1>5, <1>6, AboveFacts
  <2>4. Chained(fresh, mark, before)
    <3>1. 0 \in Int /\ 0 <= mark
      BY <1>6
    <3> QED
      BY <1>5, <1>6, <3>1, AboveFacts
  <2>5. Len(fresh) \in Nat
    BY <2>1
  <2> QED
    BY <2>1, <2>2, <2>3, <2>4, <2>5
<1>8. /\ \A k \in 1 .. Len(fresh) : /\ fresh[k].kind = "event"
                                    /\ fresh[k].seq >= 1 /\ fresh[k].seq <= log
      /\ \A e \in Batch(w) : e > mark => \E k \in 1 .. Len(fresh) : fresh[k].seq = e
  <2>1. ASSUME NEW k \in 1 .. Len(fresh)
        PROVE  fresh[k].kind = "event" /\ fresh[k].seq >= 1 /\ fresh[k].seq <= log
    <3>1. PICK i \in 1 .. Len(batch) : fresh[k] = batch[i]
      BY <1>7
    <3> QED
      BY <1>5, <3>1
  <2>2. ASSUME NEW e \in Batch(w), e > mark
        PROVE  \E k \in 1 .. Len(fresh) : fresh[k].seq = e
    <3>1. PICK i \in 1 .. Len(batch) : batch[i].seq = e
      BY <1>5
    <3>2. PICK k \in 1 .. Len(fresh) : fresh[k] = batch[i]
      BY <1>7, <2>2, <3>1
    <3> QED
      BY <3>1, <3>2
  <2> HIDE DEF fresh
  <2> QED
    BY <2>1, <2>2
<1> HIDE DEF fresh
<1>9. ASSUME NEW frames, NEW cursor, NEW e \in before,
             Accounted(log, frames, Len(frames), cursor, forfeited \cup Underway)
      PROVE  e <= cursor \/ e \in forfeited' \/ \E j \in 1 .. Len(frames) : frames[j].seq >= e
  <2>1. e \in 1 .. log /\ e < pending[w].through /\ e \notin Batch(w)
    BY <1>4, TypeFacts DEF Batch
  <2>2. e \in Underway => e \in forfeited'
    BY <2>1, <1>1 DEF Underway
  <2> QED
    BY <1>3, <1>9, <2>1, <2>2 DEF Accounted
<1>10. \A n, frames, i, cursor :
          Accounted(n, frames, i, cursor, forfeited) => Accounted(n, frames, i, cursor, forfeited')
  BY <1>3 DEF Accounted
<1>11. wire' \in Seq(AnyFrame) /\ \A i \in 1 .. Len(wire') : wire'[i].seq <= log
  <2>1. CASE feed = "live"
    <3>1. wire' \in Seq(AnyFrame) /\ Len(wire') = Len(wire) + Len(fresh)
      BY <1>1, <1>7, <2>1, TypeFacts, ConcatFacts
    <3>2. ASSUME NEW i \in 1 .. Len(wire')
          PROVE  wire'[i].seq <= log
      <4>1. CASE i \in 1 .. Len(wire)
        BY <1>0, <1>1, <1>7, <2>1, <4>1, TypeFacts, ConcatFacts DEF BoundInv
      <4>2. CASE i \notin 1 .. Len(wire)
        <5>1. i - Len(wire) \in 1 .. Len(fresh) /\ i = Len(wire) + (i - Len(wire))
          BY <3>1, <4>2, <1>7, TypeFacts
        <5>2. wire'[i] = fresh[i - Len(wire)]
          BY <5>1, <1>1, <1>7, <2>1, TypeFacts, ConcatFacts
        <5> QED
          BY <5>1, <5>2, <1>8
      <4> QED
        BY <4>1, <4>2
    <3> QED
      BY <3>1, <3>2
  <2>2. CASE feed # "live"
    BY <1>0, <1>1, <2>2, TypeFacts DEF BoundInv
  <2> QED
    BY <2>1, <2>2
<1>12. buffer' \in Seq(AnyEvent) /\ \A i \in 1 .. Len(buffer') : buffer'[i].seq <= log
  <2>1. CASE feed \in {"attached", "catching"}
    <3>1. buffer' \in Seq(AnyEvent) /\ Len(buffer') = Len(buffer) + Len(batch)
      BY <1>1, <1>5, <2>1, TypeFacts, ConcatFacts
    <3>2. ASSUME NEW i \in 1 .. Len(buffer')
          PROVE  buffer'[i].seq <= log
      <4>1. CASE i \in 1 .. Len(buffer)
        BY <1>0, <1>1, <1>5, <2>1, <4>1, TypeFacts, ConcatFacts DEF BoundInv
      <4>2. CASE i \notin 1 .. Len(buffer)
        <5>1. i - Len(buffer) \in 1 .. Len(batch) /\ i = Len(buffer) + (i - Len(buffer))
          BY <3>1, <4>2, <1>5, TypeFacts
        <5>2. buffer'[i] = batch[i - Len(buffer)]
          BY <5>1, <1>1, <1>5, <2>1, TypeFacts, ConcatFacts
        <5> QED
          BY <5>1, <5>2, <1>5
      <4> QED
        BY <4>1, <4>2
    <3> QED
      BY <3>1, <3>2
  <2>2. CASE feed \notin {"attached", "catching"}
    BY <1>0, <1>1, <2>2, TypeFacts DEF BoundInv
  <2> QED
    BY <2>1, <2>2
<1>13. TypeOK'
  <2>1. forfeited' \subseteq Event /\ Idle \in [after : Cursor, through : Cursor]
    <3>1. \A v \in Writers : Batch(v) \subseteq Event
      BY TypeFacts
    <3> QED
      BY <1>0, <1>1, <3>1, TypeFacts DEF Idle, TypeOK
  <2> QED
    BY <1>0, <1>1, <1>11, <1>12, <2>1 DEF TypeOK, AnyEvent, AnyFrame
<1>14. BoundInv'
  <2>1. Idle.through <= log
    BY TypeFacts DEF Idle
  <2> QED
    BY <1>0, <1>1, <1>2, <1>11, <1>12, <2>1 DEF BoundInv
<1>15. WireInv'
  <2>1. InOrder(wire, last, forfeited', promised)
    BY <1>0, <1>3, TypeFacts, InOrderGrows DEF WireInv
  <2>2. CASE feed = "live"
    <3>1. Accounted(mark, wire, Len(wire), last, forfeited')
      BY <1>0, <1>10, <2>2 DEF FeedInv, mark
    <3>2. \A e \in before : e <= last \/ e \in forfeited' \/ \E j \in 1 .. Len(wire) : wire[j].seq >= e
      BY <1>0, <1>9, <2>2 DEF FeedInv
    <3>3. InOrder(wire \o fresh, last, forfeited', promised)
      BY <1>7, <1>8, <2>1, <3>1, <3>2, TypeFacts, InOrderConcat
    <3> QED
      BY <1>1, <2>2, <3>3 DEF WireInv
  <2>3. CASE feed # "live"
    BY <1>1, <2>1, <2>3 DEF WireInv
  <2> QED
    BY <2>2, <2>3
<1>16. FeedInv'
  <2>1. CASE feed = "live"
    <3>1. /\ Accounted(mark, wire, Len(wire), last, forfeited)
          /\ Accounted(log, wire, Len(wire), last, forfeited \cup Underway)
      BY <1>0, <2>1 DEF FeedInv, mark
    <3>2. Accounted(mark, wire', Len(wire'), last, forfeited')
      BY <3>1, <1>1, <1>7, <1>10, <2>1, TypeFacts, AccountedConcat
    <3>3. ASSUME NEW e \in 1 .. log
          PROVE  \/ e <= last \/ e \in forfeited' \cup Underway'
                 \/ \E j \in 1 .. Len(wire') : wire'[j].seq >= e
      <4>1. Accounted(log, wire', Len(wire'), last, forfeited \cup Underway)
        BY <3>1, <1>1, <1>7, <2>1, TypeFacts, AccountedConcat
      <4>2. CASE e \in Batch(w) /\ ~(e <= mark)
        <5>1. \E k \in 1 .. Len(fresh) : fresh[k].seq >= e
          BY <4>2, <1>6, <1>8, TypeFacts
        <5> QED
          BY <5>1, <1>1, <1>7, <2>1, TypeFacts, AppendedAccounted
      <4>3. CASE e <= mark
        BY <3>2, <4>3, <1>6, TypeFacts DEF Accounted
      <4>4. CASE e \notin Batch(w)
        BY <4>1, <4>4, <1>3 DEF Accounted
      <4> QED
        BY <4>2, <4>3, <4>4
    <3>4. Accounted(log, wire', Len(wire'), last, forfeited' \cup Underway')
      BY <3>3 DEF Accounted
    <3> QED
      BY <1>0, <1>1, <2>1, <3>2, <3>4 DEF FeedInv, mark
  <2>2. CASE feed = "catching"
    <3>1. /\ Chained(buffer, high, forfeited')
          /\ Accounted(log, buffer, Len(buffer), high, forfeited \cup Underway)
      BY <1>0, <1>10, <2>2 DEF FeedInv, Chained
    <3>2. \A e \in before : e <= high \/ e \in forfeited' \/ \E j \in 1 .. Len(buffer) : buffer[j].seq >= e
      BY <1>9, <3>1
    <3>3. Accounted(0, buffer, Len(buffer), high, forfeited')
      BY DEF Accounted
    <3>4. Chained(buffer', high, forfeited')
      BY <3>1, <3>2, <3>3, <1>1, <1>5, <2>2, TypeFacts, ChainedConcat
    <3>5. ASSUME NEW e \in 1 .. log
          PROVE  \/ e <= high \/ e \in forfeited' \cup Underway'
                 \/ \E j \in 1 .. Len(buffer') : buffer'[j].seq >= e
      <4>1. Accounted(log, buffer', Len(buffer'), high, forfeited \cup Underway)
        BY <3>1, <1>1, <1>5, <2>2, TypeFacts, AccountedConcat
      <4>2. CASE e \in Batch(w)
        <5>1. \E k \in 1 .. Len(batch) : batch[k].seq >= e
          <6>1. PICK k \in 1 .. Len(batch) : batch[k].seq = e
            BY <4>2, <1>5
          <6>2. e \in Int /\ e >= e
            OBVIOUS
          <6> QED
            BY <6>1, <6>2
        <5> QED
          BY <5>1, <1>1, <1>5, <2>2, TypeFacts, AppendedAccounted
      <4>3. CASE e \notin Batch(w)
        BY <4>1, <4>3, <1>3 DEF Accounted
      <4> QED
        BY <4>2, <4>3
    <3>6. Accounted(log, buffer', Len(buffer'), high, forfeited' \cup Underway')
      BY <3>5 DEF Accounted
    <3>7. Accounted(after, wire', Len(wire'), last, forfeited')
      BY <1>0, <1>1, <1>10, <2>2 DEF FeedInv
    <3> QED
      BY <1>0, <1>1, <2>2, <3>4, <3>6, <3>7 DEF FeedInv
  <2>3. CASE feed \notin {"live", "catching"}
    BY <1>0, <1>1, <1>10, <2>3 DEF FeedInv
  <2> QED
    BY <2>1, <2>2, <2>3
<1>17. ShownInv'
  <2>1. ASSUME feed = "live", \A i \in 1 .. Len(wire) : wire[i].kind # "snapshot"
        PROVE  \A i \in 1 .. Len(wire') : wire'[i].kind # "snapshot"
    <3>1. SUFFICES ASSUME NEW i \in 1 .. Len(wire')
                   PROVE  wire'[i].kind # "snapshot"
      OBVIOUS
    <3>2. CASE i \in 1 .. Len(wire)
      BY <1>1, <1>7, <2>1, <3>2, TypeFacts, ConcatFacts
    <3>3. CASE i \notin 1 .. Len(wire)
      <4>1. i - Len(wire) \in 1 .. Len(fresh) /\ i = Len(wire) + (i - Len(wire))
        BY <1>1, <1>7, <2>1, <3>3, TypeFacts, ConcatFacts
      <4>2. wire'[i] = fresh[i - Len(wire)]
        BY <4>1, <1>1, <1>7, <2>1, TypeFacts, ConcatFacts
      <4> QED
        BY <4>1, <4>2, <1>8
    <3> QED
      BY <3>2, <3>3
  <2>2. feed # "live" => wire' = wire
    BY <1>1
  <2> QED
    BY <1>0, <1>1, <1>3, <2>1, <2>2 DEF ShownInv, CaughtUp
<1> QED
  BY <1>1, <1>3, <1>13, <1>14, <1>15, <1>16, <1>17, CopiesKept DEF IInv

\* No copy is a copy.
LEMMA NoCopyFacts ==
  NoCopy \in Copy /\ NoCopy.seq = 0 /\ NoCopy.seen = NoProjection
<1>1. 0 \in Cursor
  BY CursorFacts DEF Cursor
<1> QED
  BY <1>1 DEF NoCopy, Copy

\* What a closed subscription leaves behind is well-typed.
LEMMA ClosedFacts ==
  /\ <<>> \in Seq([kind : {"event"}, seq : Event])
  /\ <<>> \in Seq([kind : {"event", "snapshot", "synchronized"}, seq : Cursor])
  /\ [w \in Writers |-> Idle] \in [Writers -> [after : Cursor, through : Cursor]]
  /\ 0 \in Cursor
<1>1. 0 \in Cursor
  BY CursorFacts DEF Cursor
<1>2. Idle \in [after : Cursor, through : Cursor]
  BY <1>1 DEF Idle
<1> QED
  BY <1>1, <1>2

\* The copy that was waiting is saved.
LEMMA PersistStep ==
  ASSUME IInv, Persist
  PROVE  IInv'
<1>0. TypeOK /\ BoundInv /\ WireInv /\ FeedInv /\ ShownInv /\ NothingSkipped /\ CacheIsResumable
  BY DEF IInv
<1>1. /\ saved' = queued /\ queued' = NoCopy
      /\ UNCHANGED <<log, deletedAt, pending, feed, after, high, buffer, wire, data, last, status,
                     awaiting, forfeited, promised, drops>>
  BY DEF Persist, serverVars, feedVars, historyVars
<1>2. NoCopy \in Copy /\ NoCopy.seq = 0 /\ NoCopy.seen = NoProjection
  BY NoCopyFacts
<1>3. TypeOK'
  BY <1>0, <1>1, <1>2 DEF TypeOK
<1>4. BoundInv'
  BY <1>0, <1>1, <1>2, TypeFacts DEF BoundInv
<1>5. WireInv' /\ FeedInv' /\ ShownInv'
  BY <1>0, <1>1 DEF WireInv, FeedInv, ShownInv, CaughtUp, Underway, Batch
<1>6. NothingSkipped' /\ CacheIsResumable'
  BY <1>0, <1>1, <1>2 DEF NothingSkipped, CacheIsResumable, Complete
<1> QED
  BY <1>3, <1>4, <1>5, <1>6 DEF IInv

\* The request carries no cursor, or the client's own.
LEMMA SubscribeStep ==
  ASSUME IInv, Subscribe
  PROVE  IInv'
<1>0. TypeOK /\ BoundInv /\ WireInv /\ FeedInv /\ ShownInv
  BY DEF IInv
<1>1. /\ feed = "closed" /\ awaiting' = TRUE
      /\ status' \in {"deleted", "synchronizing"}
      /\ \/ feed' = "loading" /\ after' = log
         \/ feed' = "requested" /\ after' \in {NoCursor, last}
      /\ UNCHANGED <<log, deletedAt, pending, high, buffer, wire, data, last, queued, saved,
                     forfeited, promised, drops>>
  BY DEF Subscribe, serverVars, historyVars
<1>2. NoCursor <= last /\ NoCursor <= log /\ last <= log
  BY <1>0, TypeFacts DEF NoCursor, BoundInv
<1>3. TypeOK'
  BY <1>0, <1>1, TypeFacts DEF TypeOK
<1>4. BoundInv'
  BY <1>0, <1>1, <1>2, TypeFacts DEF BoundInv
<1>5. WireInv'
  BY <1>0, <1>1 DEF WireInv
<1>6. FeedInv'
  BY <1>0, <1>1, <1>2, TypeFacts DEF FeedInv
<1>7. ShownInv'
  BY <1>1 DEF ShownInv
<1> QED
  BY <1>1, <1>3, <1>4, <1>5, <1>6, <1>7, CopiesKept DEF IInv

\* The client holds the snapshot before it asks for what follows it.
LEMMA LoadSnapshotStep ==
  ASSUME IInv, LoadSnapshot
  PROVE  IInv'
<1>0. TypeOK /\ BoundInv /\ WireInv /\ FeedInv /\ ShownInv /\ CacheIsResumable
  BY DEF IInv
<1>1. PICK n \in after .. log :
        /\ last' = n /\ data' = 1 .. n /\ after' = n
        /\ status' = IF awaiting THEN "synchronizing" ELSE "live"
        /\ queued' \in {queued, [seq |-> n, seen |-> 1 .. n]}
  BY DEF LoadSnapshot, ApplySnapshot, SetThread
<1>2. /\ feed = "loading" /\ feed' = "requested"
      /\ UNCHANGED <<log, deletedAt, pending, high, buffer, wire, awaiting, saved, forfeited,
                     promised, drops>>
  BY DEF LoadSnapshot, ApplySnapshot, serverVars, historyVars
<1>3. wire = <<>> /\ awaiting /\ after \in Cursor
  BY <1>0, <1>2 DEF FeedInv
<1>4. n \in Cursor /\ n <= log /\ 1 .. n \subseteq Event
  BY <1>3, TypeFacts
<1>5. [seq |-> n, seen |-> 1 .. n] \in Copy
  BY <1>4 DEF Copy
<1>6. TypeOK'
  BY <1>0, <1>1, <1>2, <1>3, <1>4, <1>5 DEF TypeOK
<1>7. BoundInv'
  BY <1>0, <1>1, <1>2, <1>4 DEF BoundInv
<1>8. WireInv'
  BY <1>2, <1>3 DEF WireInv, InOrder
<1>9. FeedInv'
  BY <1>0, <1>1, <1>2, <1>3, <1>4 DEF FeedInv
<1>10. ShownInv'
  BY <1>1, <1>2, <1>3 DEF ShownInv
<1>11. NothingSkipped' /\ CacheIsResumable'
  BY <1>0, <1>1, <1>2 DEF NothingSkipped, CacheIsResumable, Complete
<1> QED
  BY <1>6, <1>7, <1>8, <1>9, <1>10, <1>11 DEF IInv

\* The stages that send nothing.
LEMMA HandshakeStep ==
  ASSUME IInv, LoadNothing \/ AnswerResume \/ Attach \/ ReadHighWater
  PROVE  IInv'
<1>0. TypeOK /\ BoundInv /\ WireInv /\ FeedInv /\ ShownInv
  BY DEF IInv
<1>1. UNCHANGED <<log, deletedAt, pending, buffer, wire, data, last, status, awaiting, queued,
                  saved, forfeited, drops>>
  BY DEF LoadNothing, AnswerResume, Attach, ReadHighWater, serverVars, clientVars, historyVars
<1>2. /\ after' \in {after, NoCursor} /\ high' \in {high, log} /\ promised' \in {promised, log}
      /\ feed' \in {"requested", "replaying", "attached", "catching"}
  BY DEF LoadNothing, AnswerResume, Attach, ReadHighWater, historyVars
<1>3. TypeOK'
  BY <1>0, <1>1, <1>2, TypeFacts DEF TypeOK
<1>4. BoundInv'
  BY <1>0, <1>1, <1>2, TypeFacts DEF BoundInv, NoCursor
<1>5. CASE LoadNothing
  <2>1. feed = "loading" /\ feed' = "requested" /\ after' = NoCursor /\ UNCHANGED promised
    BY <1>5 DEF LoadNothing, historyVars
  <2>2. NoCursor <= last
    BY TypeFacts DEF NoCursor
  <2>3. WireInv' /\ FeedInv' /\ ShownInv'
    BY <1>0, <1>1, <2>1, <2>2 DEF WireInv, FeedInv, ShownInv, CaughtUp
  <2> QED
    BY <1>1, <1>3, <1>4, <2>3, CopiesKept DEF IInv
<1>6. CASE AnswerResume
  <2>1. /\ feed = "requested" /\ feed' = "replaying" /\ after # NoCursor /\ after' = after
        /\ high' = log /\ promised' = log
    BY <1>6 DEF AnswerResume
  <2>2. after \in Cursor /\ wire = <<>> /\ status # "live" /\ log <= log
    BY <1>0, <2>1, TypeFacts DEF TypeOK, FeedInv
  <2>3. WireInv'
    BY <1>1, <2>2 DEF WireInv, InOrder
  <2>4. FeedInv' /\ ShownInv'
    BY <1>0, <1>1, <2>1, <2>2 DEF FeedInv, ShownInv
  <2> QED
    BY <1>1, <1>3, <1>4, <2>3, <2>4, CopiesKept DEF IInv
<1>7. CASE Attach
  <2>1. feed = "attaching" /\ feed' = "attached" /\ UNCHANGED <<after, high, promised>>
    BY <1>7 DEF Attach, historyVars
  <2>2. WireInv' /\ FeedInv' /\ ShownInv'
    BY <1>0, <1>1, <2>1 DEF WireInv, FeedInv, ShownInv, CaughtUp
  <2> QED
    BY <1>1, <1>3, <1>4, <2>2, CopiesKept DEF IInv
<1>8. CASE ReadHighWater
  <2>1. feed = "attached" /\ feed' = "catching" /\ high' = log /\ UNCHANGED <<after, promised>>
    BY <1>8 DEF ReadHighWater, historyVars
  <2>2. /\ Chained(buffer, log, forfeited)
        /\ Accounted(log, buffer, Len(buffer), log, forfeited \cup Underway')
    <3>1. \A k \in 1 .. Len(buffer) : buffer[k].seq \in Int /\ buffer[k].seq <= log
      <4>1. \A k \in 1 .. Len(buffer) : buffer[k] \in AnyFrame
        BY TypeFacts
      <4> QED
        BY <4>1, <1>0, CursorFacts DEF BoundInv
    <3> QED
      BY <3>1, TypeFacts DEF Chained, Accounted
  <2>3. FeedInv'
    BY <1>0, <1>1, <2>1, <2>2 DEF FeedInv
  <2>4. WireInv' /\ ShownInv'
    BY <1>0, <1>1, <2>1 DEF WireInv, ShownInv, CaughtUp
  <2> QED
    BY <1>1, <1>3, <1>4, <2>3, <2>4, CopiesKept DEF IInv
<1> QED
  BY <1>5, <1>6, <1>7, <1>8

\* A subscription that ends takes its frames with it.
LEMMA CloseStep ==
  ASSUME IInv, Disconnect \/ EndSubscription \/ Resubscribe \/ Crash
  PROVE  IInv'
<1>0. TypeOK /\ BoundInv /\ ShownInv
  BY DEF IInv
<1>1. /\ feed' \in {"closed", "ended"}
      /\ after' = NoCursor /\ high' = 0 /\ buffer' = <<>> /\ wire' = <<>>
      /\ drops' = drops \/ (drops' = drops + 1 /\ drops < MaxDrops)
      /\ UNCHANGED <<log, deletedAt, data, last, queued, saved, forfeited, promised>>
      /\ pending' \in {pending, [w \in Writers |-> Idle]}
  BY DEF Disconnect, EndSubscription, Resubscribe, Crash, StopFeed, Unrequested, Drop,
         SetDisconnected, serverVars, clientVars, historyVars
<1>2. /\ awaiting' \in {FALSE, awaiting}
      /\ status' = status \/ status' \in {"deleted", "empty", "cached"}
  BY DEF Disconnect, EndSubscription, Resubscribe, Crash, SetDisconnected, StatusWithoutLiveData,
         clientVars
<1>3. Idle \in [after : Cursor, through : Cursor] /\ Idle.through <= log /\ Idle.through = 0
  BY TypeFacts DEF Idle
<1>4. TypeOK'
  <2>1. drops' \in 0 .. MaxDrops /\ 0 \in Cursor
    BY <1>0, <1>1, EventStreamAssumption, TypeFacts DEF TypeOK
  <2> QED
    BY <1>0, <1>1, <1>2, <1>3, <2>1, ClosedFacts DEF TypeOK
<1>5. BoundInv'
  <2>1. Len(<<>>) = 0 /\ NoCursor <= log /\ 0 <= log
    BY TypeFacts DEF NoCursor
  <2> QED
    BY <1>0, <1>1, <1>3, <2>1 DEF BoundInv
<1>6. WireInv' /\ FeedInv'
  BY <1>1 DEF WireInv, InOrder, FeedInv
<1>7. ShownInv'
  BY <1>0, <1>1, <1>2 DEF ShownInv, CaughtUp
<1> QED
  BY <1>1, <1>4, <1>5, <1>6, <1>7, CopiesKept DEF IInv

\* A thread whose subscription ended is shown as synchronizing, and holds what it held.
LEMMA SetReadyStep ==
  ASSUME IInv, SetReady
  PROVE  IInv'
<1>1. /\ feed = "ended" /\ status' = "synchronizing"
      /\ UNCHANGED <<log, deletedAt, pending, feed, after, high, buffer, wire, data, last,
                     awaiting, queued, saved, forfeited, promised, drops>>
  BY DEF SetReady, serverVars, feedVars, historyVars
<1>2. TypeOK' /\ BoundInv' /\ WireInv'
  BY <1>1 DEF IInv, TypeOK, BoundInv, WireInv
<1>3. FeedInv' /\ ShownInv'
  BY <1>1 DEF IInv, FeedInv, ShownInv, CaughtUp, Underway, Batch
<1> QED
  BY <1>1, <1>2, <1>3, CopiesKept DEF IInv

\* The client starts again from a copy that was complete.
LEMMA ReopenStep ==
  ASSUME IInv, Reopen
  PROVE  IInv'
<1>0. TypeOK /\ BoundInv /\ NothingSkipped /\ CacheIsResumable
  BY DEF IInv
<1>1. /\ feed' = "closed" /\ after' = NoCursor /\ high' = 0 /\ buffer' = <<>> /\ wire' = <<>>
      /\ drops' = drops + 1 /\ drops < MaxDrops
      /\ saved' = saved \/ saved' = [seq |-> last, seen |-> data]
      /\ data' = saved'.seen /\ last' = saved'.seq
      /\ status' = "synchronizing" /\ awaiting' = FALSE /\ queued' = NoCopy
      /\ UNCHANGED <<log, deletedAt, pending, forfeited, promised>>
  BY DEF Reopen, StopFeed, Drop, serverVars
<1>2. NoCopy \in Copy /\ NoCopy.seq = 0 /\ NoCopy.seen = NoProjection
  BY NoCopyFacts
<1>3. saved' \in Copy /\ saved'.seq <= log
  BY <1>0, <1>1 DEF TypeOK, BoundInv, Copy
<1>4. TypeOK'
  <2>1. drops' \in 0 .. MaxDrops /\ 0 \in Cursor
    BY <1>0, <1>1, EventStreamAssumption, TypeFacts DEF TypeOK
  <2>2. saved'.seen \in (SUBSET Event) \cup {NoProjection} /\ saved'.seq \in Cursor
    BY <1>3 DEF Copy
  <2> QED
    BY <1>0, <1>1, <1>2, <1>3, <2>1, <2>2, ClosedFacts DEF TypeOK
<1>5. BoundInv'
  <2>1. Len(<<>>) = 0 /\ NoCursor <= log /\ 0 <= log
    BY TypeFacts DEF NoCursor
  <2> QED
    BY <1>0, <1>1, <1>2, <1>3, <2>1 DEF BoundInv
<1>6. WireInv' /\ FeedInv' /\ ShownInv'
  BY <1>1 DEF WireInv, InOrder, FeedInv, ShownInv
<1>7. NothingSkipped' /\ CacheIsResumable'
  BY <1>0, <1>1, <1>2 DEF NothingSkipped, CacheIsResumable, Complete
<1> QED
  BY <1>4, <1>5, <1>6, <1>7 DEF IInv

\* The client's cursor only moves forward over the frames it applies, to a
\* projection that holds what the frame accounts for.
LEMMA ReceiveStep ==
  ASSUME IInv, Receive
  PROVE  IInv'
<1> DEFINE frame == Head(wire)
<1>0. /\ TypeOK /\ BoundInv /\ WireInv /\ FeedInv /\ ShownInv
      /\ NothingSkipped /\ CacheIsResumable
  BY DEF IInv
<1>1. /\ wire # <<>> /\ wire' = Tail(wire)
      /\ UNCHANGED <<log, deletedAt, pending, feed, after, high, buffer, forfeited, promised, drops>>
      /\ \/ frame.kind = "synchronized" /\ ApplySynchronized
         \/ frame.kind = "snapshot" /\ ApplySnapshot(frame.seq)
         \/ frame.kind = "event" /\ ApplyEvent(frame.seq)
  BY DEF Receive, serverVars, feedVars, historyVars
<1>2. /\ frame = wire[1] /\ frame \in AnyFrame /\ frame.seq \in Cursor /\ frame.seq \in Int
      /\ frame.seq <= log
      /\ Len(wire) \in Nat /\ 1 \in 1 .. Len(wire)
      /\ Tail(wire) \in Seq(AnyFrame) /\ Len(Tail(wire)) = Len(wire) - 1
      /\ \A i \in 1 .. Len(Tail(wire)) : i + 1 \in 1 .. Len(wire) /\ Tail(wire)[i] = wire[i + 1]
  <2>1. wire \in Seq(AnyFrame)
    BY TypeFacts
  <2>2. frame = wire[1] /\ frame \in AnyFrame /\ 1 \in 1 .. Len(wire) /\ Len(wire) \in Nat
    BY <1>1, <2>1
  <2>3. frame.seq \in Cursor /\ frame.seq \in Int
    BY <2>2, CursorFacts
  <2>4. frame.seq <= log
    BY <1>0, <2>2 DEF BoundInv
  <2>5. Tail(wire) \in Seq(AnyFrame) /\ Len(Tail(wire)) = Len(wire) - 1
    BY <1>1, <2>1
  <2>6. \A i \in 1 .. Len(Tail(wire)) : i + 1 \in 1 .. Len(wire) /\ Tail(wire)[i] = wire[i + 1]
    BY <1>1, <2>1
  <2> QED
    BY <2>2, <2>3, <2>4, <2>5, <2>6
<1> HIDE DEF frame
<1>3. /\ frame.kind = "event" =>
            frame.seq >= 1 /\ \A e \in 1 .. frame.seq - 1 : e <= last \/ e \in forfeited
      /\ frame.kind = "snapshot" => last <= frame.seq
      /\ frame.kind = "synchronized" => frame.seq = 0 /\ CaughtUp
  <2>1. /\ frame.kind = "event" =>
              frame.seq >= 1 /\ Accounted(frame.seq - 1, wire, 1 - 1, last, forfeited)
        /\ frame.kind = "snapshot" => last <= frame.seq
        /\ frame.kind = "synchronized" =>
              frame.seq = 0 /\ Accounted(promised, wire, 1 - 1, last, forfeited)
    BY <1>0, <1>2 DEF WireInv, InOrder
  <2> QED
    BY <2>1 DEF Accounted, CaughtUp
<1>4. feed \in {"attaching", "attached", "catching", "live"}
  BY <1>0, <1>1 DEF FeedInv, TypeOK
\* What each kind of frame does to the client.
<1>5. \/ /\ UNCHANGED <<data, last, status, awaiting, queued, saved>>
         /\ frame.kind = "event" /\ frame.seq <= last
      \/ /\ UNCHANGED <<data, last, queued, saved>>
         /\ frame.kind = "synchronized" /\ awaiting' = FALSE
         /\ status' = IF data # NoProjection /\ status # "deleted" THEN "live" ELSE status
      \/ /\ UNCHANGED <<data, status, awaiting, queued, saved>>
         /\ last' = frame.seq /\ ~(frame.seq <= last)
         /\ frame.kind = "event" /\ data = NoProjection
      \/ /\ UNCHANGED queued
         /\ last' = frame.seq /\ ~(frame.seq <= last) /\ frame.kind = "event"
         /\ awaiting' = FALSE /\ data' = NoProjection /\ status' = "deleted" /\ saved' = NoCopy
      \/ /\ UNCHANGED <<awaiting, saved>>
         /\ last' = frame.seq
         /\ status' = IF awaiting THEN "synchronizing" ELSE "live"
         /\ queued' \in {queued, [seq |-> last', seen |-> data']}
         /\ \/ frame.kind = "snapshot" /\ data' = 1 .. frame.seq
            \/ /\ frame.kind = "event" /\ ~(frame.seq <= last)
               /\ data # NoProjection /\ data' = data \cup {frame.seq}
  BY <1>1 DEF ApplySynchronized, ApplySnapshot, ApplyEvent, SetThread, SetDeleted, clientVars
<1>6. last' \in Cursor /\ last <= last' /\ frame.seq <= last' /\ last' <= log
  BY <1>0, <1>2, <1>3, <1>5, TypeFacts DEF BoundInv
<1>7. data' \in (SUBSET Event) \cup {NoProjection}
  <2>1. frame.kind = "event" => frame.seq \in Event
    BY <1>2, <1>3, TypeFacts
  <2>2. 1 .. frame.seq \subseteq Event
    BY <1>2, TypeFacts
  <2> QED
    BY <1>0, <1>5, <2>1, <2>2 DEF TypeOK
<1>8. /\ NoCopy \in Copy /\ NoCopy.seq = 0 /\ NoCopy.seen = NoProjection
      /\ [seq |-> last', seen |-> data'] \in Copy
      /\ queued' \in {queued, [seq |-> last', seen |-> data']}
      /\ saved' \in {saved, NoCopy}
  BY <1>5, <1>6, <1>7, NoCopyFacts DEF Copy
<1>9. TypeOK'
  BY <1>0, <1>1, <1>2, <1>5, <1>6, <1>7, <1>8 DEF TypeOK, AnyFrame
<1>10. BoundInv'
  <2>1. queued'.seq <= log /\ saved'.seq <= log
    BY <1>0, <1>6, <1>8, TypeFacts DEF BoundInv
  <2> QED
    BY <1>0, <1>1, <1>2, <1>6, <2>1 DEF BoundInv
<1>11. /\ InOrder(wire', last', forfeited, promised)
       /\ \A i \in 1 .. Len(wire') : wire'[i].kind # "snapshot"
       /\ \A n, gone : Accounted(n, wire, Len(wire), last, gone)
                        => Accounted(n, wire', Len(wire'), last', gone)
  <2>1. /\ wire \in Seq(AnyFrame) /\ last \in Int /\ last' \in Int
        /\ InOrder(wire, last, forfeited, promised)
    BY <1>0, <1>6, TypeFacts DEF WireInv
  <2> QED
    BY <1>1, <1>6, <2>1, InOrderTail DEF frame
<1>12. WireInv'
  BY <1>1, <1>11 DEF WireInv
<1>13. FeedInv'
  BY <1>0, <1>1, <1>4, <1>11 DEF FeedInv, Underway, Batch
<1>14. NothingSkipped'
  <2>1. SUFFICES ASSUME data' # NoProjection, NEW e \in 1 .. last'
                 PROVE  e \in data' \cup forfeited
    BY <1>1 DEF NothingSkipped, Complete
  <2>2. data # NoProjection /\ e <= last => e \in data \cup forfeited
    BY <1>0, TypeFacts DEF NothingSkipped, Complete
  <2>3. CASE UNCHANGED <<data, last>>
    BY <2>1, <2>2, <2>3, TypeFacts
  <2>4. CASE last' = frame.seq /\ frame.kind = "snapshot" /\ data' = 1 .. frame.seq
    BY <2>1, <2>4
  <2>5. CASE /\ last' = frame.seq /\ frame.kind = "event"
             /\ data # NoProjection /\ data' = data \cup {frame.seq}
    <3>1. e = frame.seq \/ e \in 1 .. frame.seq - 1
      BY <1>2, <2>1, <2>5
    <3> QED
      BY <1>3, <2>2, <2>5, <3>1
  <2> QED
    BY <1>5, <2>1, <2>3, <2>4, <2>5
<1>15. CacheIsResumable'
  BY <1>0, <1>1, <1>8, <1>14 DEF CacheIsResumable, NothingSkipped, Complete
<1>16. ShownInv'
  <2>1. CaughtUp => CaughtUp'
    BY <1>1, <1>6, TypeFacts DEF CaughtUp
  <2>2. frame.kind \in {"snapshot", "event"} /\ ~awaiting =>
          \/ CaughtUp
          \/ frame.kind = "event" /\ data = NoProjection
    BY <1>0, <1>2, <1>4 DEF ShownInv
  <2>3. /\ NoProjection # 1 .. frame.seq
        /\ frame.kind = "event" => NoProjection # data \cup {frame.seq}
    <3>1. 0 \in NoProjection /\ 0 \notin 1 .. frame.seq /\ \A n \in NoProjection : n = 0
      BY DEF NoProjection
    <3>2. frame.kind = "event" => frame.seq # 0
      BY <1>2, <1>3
    <3> QED
      BY <3>1, <3>2
  <2>4. status' = "live" => data' # NoProjection /\ CaughtUp'
    BY <1>0, <1>3, <1>5, <2>1, <2>2, <2>3 DEF ShownInv
  <2>5. ~awaiting' => CaughtUp' \/ data' = NoProjection
    BY <1>0, <1>3, <1>4, <1>5, <2>1, <2>2 DEF ShownInv
  <2> QED
    BY <1>11, <2>4, <2>5 DEF ShownInv
<1> QED
  BY <1>9, <1>10, <1>12, <1>13, <1>14, <1>15, <1>16 DEF IInv

\* The completion marker goes behind what accounts for the events due.
LEMMA SynchronizedInOrder ==
  ASSUME NEW w \in Seq(AnyFrame), NEW cursor, NEW lost, NEW due,
         InOrder(w, cursor, lost, due), Accounted(due, w, Len(w), cursor, lost)
  PROVE  /\ Append(w, Synchronized) \in Seq(AnyFrame)
         /\ InOrder(Append(w, Synchronized), cursor, lost, due)
         /\ \A i \in 1 .. Len(Append(w, Synchronized)) :
               i \in 1 .. Len(w) \/ Append(w, Synchronized)[i] = Synchronized
         /\ \A n : Accounted(n, w, Len(w), cursor, lost)
              => Accounted(n, Append(w, Synchronized), Len(Append(w, Synchronized)), cursor, lost)
<1> DEFINE q == Append(w, Synchronized)
<1>1. Synchronized \in AnyFrame /\ Synchronized.kind = "synchronized" /\ Synchronized.seq = 0
  BY CursorFacts DEF Synchronized, Frame, AnyFrame, Cursor
<1>2. /\ q \in Seq(AnyFrame) /\ Len(w) \in Nat /\ Len(q) = Len(w) + 1
      /\ \A i \in 1 .. Len(w) : q[i] = w[i]
      /\ q[Len(w) + 1] = Synchronized
  BY <1>1
<1> HIDE DEF q
<1>3. ASSUME NEW i \in 1 .. Len(q), NEW n
      PROVE  Accounted(n, w, i - 1, cursor, lost) => Accounted(n, q, i - 1, cursor, lost)
  <2>1. \A j \in 1 .. i - 1 : q[j] = w[j]
    BY <1>2
  <2> QED
    BY <2>1 DEF Accounted
<1>4. \A i \in 1 .. Len(q) : i \in 1 .. Len(w) \/ (i = Len(w) + 1 /\ q[i] = Synchronized)
  BY <1>2
<1>5. InOrder(q, cursor, lost, due)
  <2>1. SUFFICES ASSUME NEW i \in 1 .. Len(q)
                 PROVE  LET f == q[i] IN
                        /\ f.kind = "event" =>
                              f.seq >= 1 /\ Accounted(f.seq - 1, q, i - 1, cursor, lost)
                        /\ f.kind = "snapshot" => i = 1 /\ cursor <= f.seq
                        /\ f.kind = "synchronized" =>
                              f.seq = 0 /\ Accounted(due, q, i - 1, cursor, lost)
    BY DEF InOrder
  <2>2. CASE i \in 1 .. Len(w)
    BY <1>2, <1>3, <2>2 DEF InOrder
  <2>3. CASE i = Len(w) + 1
    <3>1. i - 1 = Len(w) /\ q[i] = Synchronized
      BY <1>2, <2>3
    <3>2. Accounted(due, q, i - 1, cursor, lost)
      BY <1>3, <3>1
    <3> QED
      BY <1>1, <3>1, <3>2
  <2> QED
    BY <1>4, <2>2, <2>3
<1>6. \A n : Accounted(n, w, Len(w), cursor, lost) => Accounted(n, q, Len(q), cursor, lost)
  BY <1>2 DEF Accounted
<1> QED
  BY <1>2, <1>4, <1>5, <1>6 DEF q

\* A read that is not truncated reaches the high-water mark.
LEMMA ReplayStep ==
  ASSUME IInv, WithinOneRead, Replay
  PROVE  IInv'
<1> DEFINE r == Events(after, high)
<1>0. TypeOK /\ BoundInv /\ WireInv /\ FeedInv /\ ShownInv
  BY DEF IInv
<1>1. /\ feed = "replaying" /\ feed' = "attaching" /\ after' = high
      /\ wire' = wire \o Append(Events(after, Smaller(high, after + ReplayLimit)), Synchronized)
      /\ UNCHANGED <<log, deletedAt, pending, high, buffer, data, last, status, awaiting, queued,
                     saved, forfeited, promised, drops>>
  BY DEF Replay, serverVars, clientVars, historyVars
<1>2. /\ wire = <<>> /\ after \in Cursor /\ after <= last /\ promised <= high /\ awaiting
      /\ high \in Cursor /\ high <= log
  BY <1>0, <1>1, TypeFacts DEF FeedInv, BoundInv
<1>3. /\ r \in Seq(AnyFrame) /\ Len(r) \in Nat /\ Chained(r, after, {})
      /\ \A k \in 1 .. Len(r) : r[k].kind = "event" /\ r[k].seq >= 1 /\ r[k].seq <= high
  <2>1. r \in Seq(AnyEvent) /\ Chained(r, after, {})
    BY <1>2, EventsFacts
  <2>2. r \in Seq(AnyFrame) /\ Len(r) \in Nat
    BY <2>1, CursorFacts
  <2>3. \A k \in 1 .. Len(r) : r[k].kind = "event" /\ r[k].seq \in (after + 1) .. high
    BY <1>2, EventsFacts
  <2>4. \A e \in (after + 1) .. high : e >= 1 /\ e <= high
    BY <1>2, TypeFacts
  <2> QED
    BY <2>1, <2>2, <2>3, <2>4
<1>4. wire' = Append(r, Synchronized)
  <2>1. Smaller(high, after + ReplayLimit) = high
    BY <1>1, <1>2, TypeFacts, EventStreamAssumption DEF Smaller, WithinOneRead
  <2>2. Append(r, Synchronized) \in Seq(AnyFrame)
    <3>1. Synchronized \in AnyFrame
      BY CursorFacts DEF Synchronized, Frame, AnyFrame, Cursor
    <3> QED
      BY <1>3, <3>1
  <2> HIDE DEF r
  <2>3. <<>> \o Append(r, Synchronized) = Append(r, Synchronized)
    BY <2>2
  <2> QED
    BY <1>1, <1>2, <2>1, <2>3 DEF r
<1>5. wire \in Seq(AnyFrame) /\ Len(wire) = 0 /\ wire \o r = r
  BY <1>2, <1>3
<1>6. Accounted(after, wire, Len(wire), last, forfeited) /\ InOrder(wire, last, forfeited, promised)
  BY <1>2, <1>5, TypeFacts DEF Accounted, InOrder
<1>7. Accounted(high, r, Len(r), last, forfeited)
  <2>1. Accounted(high, wire \o r, Len(wire \o r), last, forfeited)
    BY <1>2, <1>5, <1>6, EventsAccounted
  <2> QED
    BY <1>5, <2>1
<1> HIDE DEF r
<1>8. InOrder(r, last, forfeited, promised)
  <2>1. last \in Int /\ wire \in Seq(AnyFrame)
    BY TypeFacts
  <2>2. \A e \in {} : e <= last \/ e \in forfeited \/ \E j \in 1 .. Len(wire) : wire[j].seq >= e
    OBVIOUS
  <2>3. \A k \in 1 .. Len(r) : r[k].kind = "event" /\ r[k].seq >= 1
    BY <1>3
  <2>4. InOrder(wire \o r, last, forfeited, promised)
    BY <1>3, <1>6, <2>1, <2>2, <2>3, InOrderConcat
  <2> QED
    BY <1>5, <2>4
<1>9. Accounted(promised, r, Len(r), last, forfeited)
  BY <1>2, <1>7, TypeFacts DEF Accounted
<1>10. /\ wire' \in Seq(AnyFrame)
       /\ InOrder(wire', last, forfeited, promised)
       /\ \A i \in 1 .. Len(wire') : i \in 1 .. Len(r) \/ wire'[i] = Synchronized
       /\ Accounted(high, wire', Len(wire'), last, forfeited)
  BY <1>3, <1>4, <1>7, <1>8, <1>9, SynchronizedInOrder
<1>11. \A i \in 1 .. Len(wire') : wire'[i].seq <= log
  <2>1. Synchronized.seq <= log /\ \A n \in Int : n <= high => n <= log
    BY <1>2, TypeFacts DEF Synchronized, Frame
  <2>2. \A i \in 1 .. Len(r) : wire'[i] = r[i] /\ r[i].seq <= log
    <3>1. \A i \in 1 .. Len(r) : r[i] \in AnyFrame
      BY <1>3
    <3>2. \A i \in 1 .. Len(r) : r[i].seq \in Int
      BY <3>1, CursorFacts
    <3>3. \A i \in 1 .. Len(r) : wire'[i] = r[i]
      BY <1>3, <1>4
    <3> QED
      BY <1>3, <2>1, <3>2, <3>3
  <2> QED
    BY <1>10, <2>1, <2>2
<1>12. TypeOK'
  BY <1>0, <1>1, <1>2, <1>10 DEF TypeOK, AnyFrame
<1>13. BoundInv'
  BY <1>0, <1>1, <1>2, <1>11 DEF BoundInv
<1>14. WireInv'
  BY <1>1, <1>10 DEF WireInv
<1>15. FeedInv'
  BY <1>0, <1>1, <1>2, <1>10 DEF FeedInv
<1>16. ShownInv'
  BY <1>0, <1>1, <1>2 DEF ShownInv, CaughtUp
<1> QED
  BY <1>1, <1>12, <1>13, <1>14, <1>15, <1>16, CopiesKept DEF IInv

\* The snapshot holds everything committed when it was read.
LEMMA AnswerSnapshotStep ==
  ASSUME IInv, AnswerSnapshot
  PROVE  IInv'
<1> DEFINE r == <<Frame("snapshot", log), Synchronized>>
<1>0. TypeOK /\ BoundInv /\ WireInv /\ FeedInv /\ ShownInv
  BY DEF IInv
<1>1. /\ feed = "requested" /\ feed' = "attaching" /\ after' = log /\ promised' = log
      /\ wire' = wire \o r
      /\ UNCHANGED <<log, deletedAt, pending, high, buffer, data, last, status, awaiting, queued,
                     saved, forfeited, drops>>
  BY DEF AnswerSnapshot, serverVars, clientVars
<1>2. wire = <<>> /\ status # "live" /\ awaiting /\ buffer = <<>>
  BY <1>0, <1>1 DEF FeedInv
<1>3. log \in Cursor /\ log \in Int /\ log >= 1 /\ last <= log /\ log <= log
  BY <1>0, TypeFacts DEF BoundInv
<1>4. /\ r \in Seq(AnyFrame) /\ Len(r) = 2
      /\ r[1].kind = "snapshot" /\ r[1].seq = log
      /\ r[2].kind = "synchronized" /\ r[2].seq = 0
  <2>1. 0 \in Cursor
    BY CursorFacts DEF Cursor
  <2> QED
    BY <1>3, <2>1 DEF Frame, Synchronized, AnyFrame
<1> HIDE DEF r
<1>5. wire' = r
  BY <1>1, <1>2, <1>4
<1>6. \A i \in 1 .. 2 : i = 1 \/ i = 2
  OBVIOUS
<1>7. Accounted(log, r, 1, last, forfeited) /\ Accounted(log, r, 2, last, forfeited)
  <2>1. SUFFICES ASSUME NEW e \in 1 .. log
                 PROVE  r[1].seq >= e /\ 1 \in 1 .. 1 /\ 1 \in 1 .. 2
    BY DEF Accounted
  <2> QED
    BY <1>3, <1>4
<1>8. InOrder(r, last, forfeited, log)
  <2>1. 2 - 1 = 1
    OBVIOUS
  <2> QED
    BY <1>3, <1>4, <1>6, <1>7, <2>1 DEF InOrder
<1>9. TypeOK'
  BY <1>0, <1>1, <1>3, <1>4, <1>5 DEF TypeOK, AnyFrame
<1>10. BoundInv'
  <2>1. \A i \in 1 .. Len(wire') : wire'[i].seq <= log
    <3>1. r[1].seq <= log /\ r[2].seq <= log
      BY <1>3, <1>4
    <3> QED
      BY <1>4, <1>5, <1>6, <3>1
  <2> QED
    BY <1>0, <1>1, <1>3, <2>1 DEF BoundInv
<1>11. WireInv'
  BY <1>1, <1>5, <1>8 DEF WireInv
<1>12. FeedInv'
  BY <1>1, <1>2, <1>3, <1>4, <1>5, <1>7 DEF FeedInv
<1>13. ShownInv'
  BY <1>1, <1>2 DEF ShownInv
<1> QED
  BY <1>1, <1>9, <1>10, <1>11, <1>12, <1>13, CopiesKept DEF IInv

\* What was published while the pages were read is above the mark they reach,
\* or among what they hold.
LEMMA CatchUpStep ==
  ASSUME IInv, CatchUp
  PROVE  IInv'
<1> DEFINE pages == Events(after, high)
<1> DEFINE mark == Larger(high, after)
<1> DEFINE rest == Above(mark, buffer)
<1> DEFINE mid == wire \o pages
<1>0. TypeOK /\ BoundInv /\ WireInv /\ FeedInv /\ ShownInv
  BY DEF IInv
<1>1. /\ feed = "catching" /\ feed' = "live" /\ buffer' = <<>>
      /\ wire' = mid \o rest
      /\ UNCHANGED <<log, deletedAt, pending, after, high, data, last, status, awaiting, queued,
                     saved, forfeited, promised, drops>>
  BY DEF CatchUp, serverVars, clientVars, historyVars
<1>2. /\ after \in Cursor /\ high \in Cursor /\ after <= log /\ high <= log
      /\ last \in Int /\ log \in Int
      /\ wire \in Seq(AnyFrame) /\ Len(wire) \in Nat
      /\ \A i \in 1 .. Len(wire) : wire[i].seq <= log
      /\ Accounted(after, wire, Len(wire), last, forfeited)
      /\ Chained(buffer, high, forfeited)
      /\ Accounted(log, buffer, Len(buffer), high, forfeited \cup Underway)
  BY <1>0, <1>1, TypeFacts DEF FeedInv, BoundInv
<1>3. /\ pages \in Seq(AnyFrame) /\ Len(pages) \in Nat /\ Chained(pages, after, {})
      /\ \A k \in 1 .. Len(pages) : pages[k].kind = "event" /\ pages[k].seq >= 1
      /\ \A k \in 1 .. Len(pages) : pages[k].seq <= log
  <2>1. pages \in Seq(AnyEvent) /\ Chained(pages, after, {})
    BY <1>2, EventsFacts
  <2>2. pages \in Seq(AnyFrame) /\ Len(pages) \in Nat
    BY <2>1, CursorFacts
  <2>3. \A k \in 1 .. Len(pages) : pages[k].kind = "event" /\ pages[k].seq \in (after + 1) .. high
    BY <1>2, EventsFacts
  <2>4. \A e \in (after + 1) .. high : e >= 1 /\ e <= log
    BY <1>2, TypeFacts
  <2> QED
    BY <2>1, <2>2, <2>3, <2>4
<1>4. mark \in Int /\ high <= mark /\ after <= mark /\ mark \in {high, after}
  BY <1>2, TypeFacts DEF Larger
<1>5. Accounted(high, mid, Len(mid), last, forfeited)
  BY <1>2, EventsAccounted
<1> HIDE DEF pages, mark
<1>6. /\ mid \in Seq(AnyFrame) /\ Len(mid) \in Nat
      /\ InOrder(mid, last, forfeited, promised)
      /\ \A i \in 1 .. Len(mid) : mid[i].seq <= log
      /\ \A i \in 1 .. Len(mid) : (i \in 1 .. Len(wire) /\ mid[i] = wire[i]) \/ mid[i].kind = "event"
  <2>1. /\ mid \in Seq(AnyFrame) /\ Len(mid) \in Nat /\ Len(mid) = Len(wire) + Len(pages)
        /\ \A i \in 1 .. Len(wire) : mid[i] = wire[i]
        /\ \A k \in 1 .. Len(pages) : mid[Len(wire) + k] = pages[k]
    BY <1>2, <1>3, ConcatFacts
  <2>2. InOrder(mid, last, forfeited, promised)
    <3>1. \A e \in {} : e <= last \/ e \in forfeited \/ \E j \in 1 .. Len(wire) : wire[j].seq >= e
      OBVIOUS
    <3>2. InOrder(wire, last, forfeited, promised)
      BY <1>0 DEF WireInv
    <3> QED
      BY <1>2, <1>3, <3>1, <3>2, InOrderConcat
  <2> HIDE DEF mid
  <2>3. ASSUME NEW i \in 1 .. Len(mid)
        PROVE  /\ mid[i].seq <= log
               /\ (i \in 1 .. Len(wire) /\ mid[i] = wire[i]) \/ mid[i].kind = "event"
    <3>1. CASE i \in 1 .. Len(wire)
      BY <1>2, <2>1, <3>1
    <3>2. CASE i \notin 1 .. Len(wire)
      <4>1. i - Len(wire) \in 1 .. Len(pages) /\ i = Len(wire) + (i - Len(wire))
        BY <1>2, <1>3, <2>1, <3>2
      <4>2. mid[i] = pages[i - Len(wire)]
        BY <2>1, <4>1
      <4> QED
        BY <1>3, <4>1, <4>2
    <3> QED
      BY <3>1, <3>2
  <2> QED
    BY <2>1, <2>2, <2>3
<1>7. Accounted(after, mid, Len(mid), last, forfeited)
  BY <1>2, <1>3, AccountedConcat
<1> HIDE DEF mid
<1>8. Accounted(mark, mid, Len(mid), last, forfeited)
  BY <1>4, <1>5, <1>7
<1>9. /\ rest \in Seq(AnyFrame) /\ Len(rest) \in Nat
      /\ Chained(rest, mark, forfeited)
      /\ \A k \in 1 .. Len(rest) : rest[k].kind = "event" /\ rest[k].seq >= 1
      /\ \A k \in 1 .. Len(rest) : rest[k].seq <= log
      /\ \A i \in 1 .. Len(buffer) : buffer[i].seq > mark => \E k \in 1 .. Len(rest) : rest[k] = buffer[i]
  <2>1. buffer \in Seq(AnyFrame) /\ buffer \in Seq(AnyEvent) /\ mark \in Int /\ high \in Int
    BY <1>4, <1>2, TypeFacts
  <2>2. rest \in Seq(AnyFrame)
    BY <2>1, AboveFacts
  <2>3. Chained(rest, mark, forfeited)
    BY <1>2, <1>4, <2>1, AboveFacts
  <2>4. \A k \in 1 .. Len(rest) : \E i \in 1 .. Len(buffer) : rest[k] = buffer[i]
    BY <2>1, AboveFacts
  <2>5. \A i \in 1 .. Len(buffer) : buffer[i].seq > mark => \E k \in 1 .. Len(rest) : rest[k] = buffer[i]
    BY <2>1, AboveFacts
  <2>6. \A i \in 1 .. Len(buffer) : /\ buffer[i].kind = "event" /\ buffer[i].seq >= 1
                                    /\ buffer[i].seq <= log
    <3>1. \A i \in 1 .. Len(buffer) : buffer[i] \in AnyEvent
      BY <2>1
    <3>2. \A f \in AnyEvent : f.kind = "event" /\ f.seq >= 1
      BY TypeFacts DEF AnyEvent
    <3> QED
      BY <1>0, <3>1, <3>2 DEF BoundInv
  <2>7. Len(rest) \in Nat
    BY <2>2
  <2> HIDE DEF rest
  <2> QED
    BY <2>2, <2>3, <2>4, <2>5, <2>6, <2>7
<1> HIDE DEF rest
<1>10. /\ wire' \in Seq(AnyFrame) /\ Len(wire') = Len(mid) + Len(rest)
       /\ \A i \in 1 .. Len(mid) : wire'[i] = mid[i]
       /\ \A k \in 1 .. Len(rest) : wire'[Len(mid) + k] = rest[k]
  BY <1>1, <1>6, <1>9, ConcatFacts
<1>11. ASSUME NEW i \in 1 .. Len(wire')
       PROVE  /\ wire'[i].seq <= log
              /\ (i \in 1 .. Len(wire) /\ wire'[i] = wire[i]) \/ wire'[i].kind = "event"
  <2>1. CASE i \in 1 .. Len(mid)
    BY <1>6, <1>10, <2>1
  <2>2. CASE i \notin 1 .. Len(mid)
    <3>1. i - Len(mid) \in 1 .. Len(rest) /\ i = Len(mid) + (i - Len(mid))
      BY <1>6, <1>9, <1>10, <2>2
    <3>2. wire'[i] = rest[i - Len(mid)]
      BY <1>10, <3>1
    <3> QED
      BY <1>9, <3>1, <3>2
  <2> QED
    BY <2>1, <2>2
<1>12. WireInv'
  <2>1. \A e \in forfeited : e <= last \/ e \in forfeited \/ \E j \in 1 .. Len(mid) : mid[j].seq >= e
    OBVIOUS
  <2>2. InOrder(mid \o rest, last, forfeited, promised)
    BY <1>2, <1>6, <1>8, <1>9, <2>1, InOrderConcat
  <2> QED
    BY <1>1, <2>2 DEF WireInv
<1>13. Accounted(mark, wire', Len(wire'), last, forfeited)
  BY <1>1, <1>6, <1>8, <1>9, AccountedConcat
<1>14. Accounted(log, wire', Len(wire'), last, forfeited \cup Underway)
  <2>1. SUFFICES ASSUME NEW e \in 1 .. log
                 PROVE  \/ e <= last \/ e \in forfeited \cup Underway
                        \/ \E j \in 1 .. Len(wire') : wire'[j].seq >= e
    BY DEF Accounted
  <2>2. e <= high \/ e \in forfeited \cup Underway \/ \E i \in 1 .. Len(buffer) : buffer[i].seq >= e
    BY <1>2 DEF Accounted
  <2>3. CASE e <= mark
    <3>1. e \in 1 .. mark
      BY <1>4, <2>3
    <3> QED
      BY <1>13, <3>1 DEF Accounted
  <2>4. ASSUME NEW i \in 1 .. Len(buffer), buffer[i].seq >= e, ~(e <= mark)
        PROVE  \E j \in 1 .. Len(wire') : wire'[j].seq >= e
    <3>1. buffer[i].seq \in Int
      <4>1. buffer[i] \in AnyFrame
        BY TypeFacts
      <4> QED
        BY <4>1, CursorFacts
    <3>2. buffer[i].seq > mark
      BY <1>4, <2>4, <3>1
    <3>3. \E k \in 1 .. Len(rest) : rest[k].seq >= e
      BY <1>9, <2>4, <3>2
    <3> QED
      BY <1>1, <1>6, <1>9, <3>3, AppendedAccounted
  <2>5. e <= high => e <= mark
    BY <1>2, <1>4, TypeFacts
  <2> QED
    BY <2>2, <2>3, <2>4, <2>5
<1>15. TypeOK'
  BY <1>0, <1>1, <1>10, ClosedFacts DEF TypeOK, AnyFrame
<1>16. BoundInv'
  <2>1. Len(<<>>) = 0
    OBVIOUS
  <2> QED
    BY <1>0, <1>1, <1>11, <2>1 DEF BoundInv
<1>17. FeedInv'
  BY <1>1, <1>2, <1>13, <1>14 DEF FeedInv, mark, Underway, Batch
<1>18. ShownInv'
  BY <1>0, <1>1, <1>11 DEF ShownInv, CaughtUp
<1> QED
  BY <1>1, <1>12, <1>15, <1>16, <1>17, <1>18, CopiesKept DEF IInv

\* The invariant holds before any client opens the thread.
LEMMA InitIInv == Init => IInv
<1>1. SUFFICES ASSUME Init
               PROVE  IInv
  OBVIOUS
<1>2. /\ log = 1 /\ deletedAt = 0 /\ pending = [w \in Writers |-> Idle] /\ feed = "closed"
      /\ after = NoCursor /\ high = 0 /\ buffer = <<>> /\ wire = <<>> /\ data = NoProjection
      /\ last = 0 /\ status = "synchronizing" /\ awaiting = FALSE /\ queued = NoCopy
      /\ saved = NoCopy /\ forfeited = {} /\ promised = 0 /\ drops = 0
  BY <1>1 DEF Init
<1>3. NoCopy \in Copy /\ NoCopy.seq = 0 /\ NoCopy.seen = NoProjection
  BY NoCopyFacts
<1>4. 1 \in Event /\ 0 \in 0 .. MaxDrops
  BY EventStreamAssumption DEF Event
<1>5. TypeOK
  BY <1>2, <1>3, <1>4, ClosedFacts DEF TypeOK
<1>6. BoundInv
  <2>1. Len(<<>>) = 0 /\ NoCursor <= 1 /\ Idle.through = 0
    BY DEF NoCursor, Idle
  <2> QED
    BY <1>2, <1>3, <2>1 DEF BoundInv
<1>7. WireInv /\ FeedInv /\ ShownInv
  BY <1>2 DEF WireInv, InOrder, FeedInv, ShownInv
<1>8. NothingSkipped /\ CacheIsResumable
  BY <1>2, <1>3 DEF NothingSkipped, CacheIsResumable, Complete
<1> QED
  BY <1>5, <1>6, <1>7, <1>8 DEF IInv

\* Every step keeps the invariant.
LEMMA NextStep ==
  ASSUME IInv, WithinOneRead, [Next]_vars
  PROVE  IInv'
<1>1. CASE \E w \in Writers : Commit(w) \/ Publish(w) \/ AbandonPublication(w)
  BY <1>1, CommitStep, PublishStep, AbandonPublicationStep
<1>2. CASE Deliver
  BY <1>2, SubscribeStep, LoadSnapshotStep, HandshakeStep, ReplayStep, AnswerSnapshotStep,
     CatchUpStep DEF Deliver
<1>3. CASE Receive \/ Persist
  BY <1>3, ReceiveStep, PersistStep
<1>4. CASE Disconnect \/ EndSubscription \/ SetReady \/ Resubscribe \/ Crash \/ Reopen
  BY <1>4, CloseStep, SetReadyStep, ReopenStep
<1>5. CASE UNCHANGED vars
  <2>1. UNCHANGED <<log, deletedAt, pending, feed, after, high, buffer, wire, data, last, status,
                    awaiting, queued, saved, forfeited, promised, drops>>
    BY <1>5 DEF vars, serverVars, feedVars, clientVars, historyVars
  <2>2. TypeOK' /\ BoundInv' /\ WireInv' /\ FeedInv' /\ ShownInv'
    BY <2>1 DEF IInv, TypeOK, BoundInv, WireInv, FeedInv, Underway, Batch, ShownInv, CaughtUp
  <2> QED
    BY <2>1, <2>2, CopiesKept DEF IInv
<1> QED
  BY <1>1, <1>2, <1>3, <1>4, <1>5 DEF Next

\* What is caught up and skips nothing is complete.
LEMMA LiveIsComplete == IInv => LiveMeansCaughtUp
<1>1. SUFFICES ASSUME IInv, status = "live", NEW e \in 1 .. promised
               PROVE  e \in data \cup forfeited
  BY DEF LiveMeansCaughtUp
<1>2. data # NoProjection /\ (e <= last \/ e \in forfeited)
  BY <1>1 DEF IInv, ShownInv, CaughtUp
<1>3. e <= last => e \in 1 .. last
  BY <1>1, TypeFacts
<1> QED
  BY <1>1, <1>2, <1>3 DEF IInv, NothingSkipped, Complete

-----------------------------------------------------------------------------
\* The invariant holds in every state, while no replay is truncated by the limit
\* of readFromSequence.
THEOREM Invariance == Spec /\ []WithinOneRead => []IInv
<1>1. IInv /\ WithinOneRead /\ [Next]_vars => IInv'
  BY NextStep
<1> QED
  BY InitIInv, <1>1, PTL DEF Spec

\* Every variable keeps its type.
THEOREM TypeCorrect == Spec /\ []WithinOneRead => []TypeOK
<1>1. IInv => TypeOK
  BY DEF IInv
<1> QED
  BY Invariance, <1>1, PTL

\* The client's cursor never passes an event its projection lacks, unless the
\* event was published after a later one, or never (EventSink, thread state).
THEOREM NothingIsSkipped == Spec /\ []WithinOneRead => []NothingSkipped
<1>1. IInv => NothingSkipped
  BY DEF IInv
<1> QED
  BY Invariance, <1>1, PTL

\* The copy in the cache and the one waiting for it can be resumed from their
\* cursor (persist, and the finalizer of the thread's state).
THEOREM CacheStaysResumable == Spec /\ []WithinOneRead => []CacheIsResumable
<1>1. IInv => CacheIsResumable
  BY DEF IInv
<1> QED
  BY Invariance, <1>1, PTL

\* A thread shown as live holds what had been committed when its subscription was
\* answered (the completion marker, awaitingCompletion).
THEOREM LiveIsCaughtUp == Spec /\ []WithinOneRead => []LiveMeansCaughtUp
<1>1. IInv => LiveMeansCaughtUp
  BY LiveIsComplete
<1> QED
  BY Invariance, <1>1, PTL
=============================================================================
