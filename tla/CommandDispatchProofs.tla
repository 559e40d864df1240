------------------------- MODULE CommandDispatchProofs -------------------------
(***************************************************************************)
(* Proofs about KeyedSerial and CommandDispatch, for every set of calls,   *)
(* commands and threads, and every number of faults.                       *)
(***************************************************************************)
EXTENDS CommandDispatch, FiniteSetTheorems, TLAPS

UsingLock == {"waiting", "inside", "leaving"}

\* Whoever is between acquireLock and releaseLock has the semaphore of its key's
\* entry, and whoever is inside has its permit.
LockInv ==
    /\ LockTypeOK
    /\ EntriesCountUsers
    /\ \A u \in User : stage[u] \in UsingLock =>
          locks[KeyOf[u]] # NoEntry /\ sem[u] = locks[KeyOf[u]].semaphore
    /\ \A u \in User : stage[u] = "inside" => holder[sem[u]] = u

\* A call outside the lock has not come yet or is queued, once; one that waits
\* for the permit has yet to look for its receipt; a call is told something only
\* as it returns.
CallInv ==
    /\ \A u \in User : step[u] \in {"idle", "queued"} => stage[u] = "outside"
    /\ \A u \in User : stage[u] = "waiting" => step[u] = "lookup"
    /\ \A i \in 1 .. Len(queue) : step[queue[i]] = "queued"
    /\ \A i, j \in 1 .. Len(queue) : queue[i] = queue[j] => i = j
    /\ \A u \in User : stage[u] # "gone" => answer[u] = Nothing

\* A receipt is undecided, rejected, or points at an event of the log.
ReceiptsInv ==
    \A c \in Command :
        \/ receipts[c] \in {Nothing, Rejected}
        \/ \E i \in 1 .. Len(log) : receipts[c] = Accepted(i)

\* A call that found no receipt still would; a call about to publish has just
\* had its command accepted; every result is the receipt.
ResultsInv ==
    /\ \A u \in User :
          stage[u] = "inside" /\ step[u] \in {"plan", "commit", "reject"} =>
              receipts[CommandOf[u]] = Nothing
    /\ \A u \in User :
          At(u, "publish") => result[u].status = "accepted"
    /\ \A u \in User :
          result[u] \notin {Nothing, Failed} => result[u] = receipts[CommandOf[u]]

IInv ==
    /\ TypeOK
    /\ LockInv
    /\ CallInv
    /\ ReceiptsInv
    /\ ResultsInv
    /\ AppliedAsReceipted
    /\ AnswersAgree
    /\ PublishedOrCutOff

-----------------------------------------------------------------------------
(* The lock.                                                               *)

\* The users of a key are finitely many: they can be counted.
LEMMA UsersFinite ==
  ASSUME NEW k \in Key
  PROVE  IsFiniteSet(UsersOf(k)) /\ Cardinality(UsersOf(k)) \in Nat
<1>1. UsersOf(k) \in SUBSET User
  BY DEF UsersOf
<1> QED
  BY <1>1, FS_Subset, FS_CardinalityType, KeyedSerialAssumption

LEMMA LockInitInv == LockInit => LockInv
<1> SUFFICES ASSUME LockInit PROVE LockInv
  OBVIOUS
<1> USE KeyedSerialAssumption DEF LockInit
<1>1. LockTypeOK
  BY DEF LockTypeOK, Stage
<1>2. \A k \in Key : UsersOf(k) = {}
  BY DEF UsersOf
<1> QED
  BY <1>1, <1>2 DEF LockInv, EntriesCountUsers, UsingLock

\* An existing entry is a record of the map.
LEMMA EntryType ==
  ASSUME LockTypeOK, NEW k \in Key, locks[k] # NoEntry
  PROVE  /\ locks[k] \in LockEntry
         /\ locks[k].semaphore \in User /\ locks[k].users \in Nat
BY DEF LockTypeOK, LockEntry

\* The permit of a semaphore has one holder, and users of a key share its
\* semaphore: nobody is inside with another user of the same key.
THEOREM InsideAlone == LockInv => OneInsidePerKey
BY DEF LockInv, OneInsidePerKey, UsingLock

\* acquireLock adds one user, who gets the entry's semaphore.
LEMMA AcquireLockInv ==
  ASSUME LockInv, NEW u \in User, AcquireLock(u)
  PROVE  LockInv'
<1> USE KeyedSerialAssumption
<1> DEFINE k == KeyOf[u]
           joined == IF locks[k] = NoEntry
                     THEN [semaphore |-> u, users |-> 1]
                     ELSE [semaphore |-> locks[k].semaphore, users |-> locks[k].users + 1]
<1>0. k \in Key
  OBVIOUS
<1>1. LockTypeOK /\ stage[u] = "outside"
  BY DEF LockInv, AcquireLock
<1>2. joined \in LockEntry /\ joined # NoEntry /\ joined.semaphore \in User
  BY <1>0, <1>1, EntryType DEF LockEntry
<1>3. /\ locks' = [locks EXCEPT ![k] = joined]
      /\ sem' = [sem EXCEPT ![u] = joined.semaphore]
      /\ stage' = [stage EXCEPT ![u] = "waiting"]
      /\ holder' = holder
  BY DEF AcquireLock
<1> HIDE DEF joined
<1>4. LockTypeOK'
  BY <1>0, <1>1, <1>2, <1>3 DEF LockTypeOK, Stage
<1>5. /\ \A l \in Key \ {k} : UsersOf(l)' = UsersOf(l)
      /\ UsersOf(k)' = UsersOf(k) \cup {u} /\ u \notin UsersOf(k)
  BY <1>1, <1>3 DEF UsersOf, LockTypeOK
<1>6. joined.users = Cardinality(UsersOf(k)) + 1
  <2>1. CASE locks[k] = NoEntry
    <3>1. UsersOf(k) = {} /\ joined.users = 1
      BY <1>0, <2>1 DEF LockInv, EntriesCountUsers, joined
    <3> QED
      BY <3>1, FS_EmptySet
  <2>2. CASE locks[k] # NoEntry
    BY <1>0, <2>2 DEF LockInv, EntriesCountUsers, joined
  <2> QED
    BY <2>1, <2>2
<1>7. Cardinality(UsersOf(k)') = joined.users
  BY <1>0, <1>5, <1>6, FS_AddElement, UsersFinite
<1>8. EntriesCountUsers'
  <2> SUFFICES ASSUME NEW l \in Key
               PROVE  IF locks'[l] = NoEntry THEN UsersOf(l)' = {}
                      ELSE locks'[l].users = Cardinality(UsersOf(l)') /\ UsersOf(l)' # {}
    BY DEF EntriesCountUsers
  <2>1. CASE l = k
    BY <1>1, <1>2, <1>3, <1>5, <1>7, <2>1 DEF LockTypeOK
  <2>2. CASE l # k
    BY <1>3, <1>5, <2>2 DEF LockInv, EntriesCountUsers
  <2> QED
    BY <2>1, <2>2
<1>9. ASSUME NEW v \in User, stage'[v] \in UsingLock
      PROVE  locks'[KeyOf[v]] # NoEntry /\ sem'[v] = locks'[KeyOf[v]].semaphore
  <2>1. CASE v = u
    BY <1>1, <1>2, <1>3, <2>1 DEF LockTypeOK
  <2>2. CASE v # u
    <3>1. stage[v] \in UsingLock
      BY <1>1, <1>3, <1>9, <2>2 DEF LockTypeOK
    <3>2. locks[KeyOf[v]] # NoEntry /\ sem[v] = locks[KeyOf[v]].semaphore
      BY <3>1 DEF LockInv
    <3>3. locks'[KeyOf[v]] # NoEntry /\ locks'[KeyOf[v]].semaphore = locks[KeyOf[v]].semaphore
      BY <1>1, <1>2, <1>3, <3>2 DEF LockTypeOK, joined
    <3> QED
      BY <1>1, <1>3, <2>2, <3>2, <3>3 DEF LockTypeOK
  <2> QED
    BY <2>1, <2>2
<1>10. ASSUME NEW v \in User, stage'[v] = "inside"
       PROVE  holder'[sem'[v]] = v
  BY <1>1, <1>3, <1>10 DEF LockInv, LockTypeOK
<1> QED
  BY <1>4, <1>8, <1>9, <1>10 DEF LockInv

\* A step of withLock that changes neither the map nor who uses it keeps the
\* counts, and the semaphores the users have.
LEMMA SameUsersInv ==
  ASSUME LockInv, LockTypeOK', UNCHANGED <<locks, sem>>,
         \A v \in User : stage'[v] \in UsingLock <=> stage[v] \in UsingLock,
         \A v \in User : stage'[v] = "inside" => holder'[sem[v]] = v
  PROVE  LockInv'
<1>1. \A k \in Key : UsersOf(k)' = UsersOf(k)
  BY DEF UsersOf, UsingLock
<1>2. EntriesCountUsers'
  BY <1>1 DEF LockInv, EntriesCountUsers
<1> QED
  BY <1>2 DEF LockInv

LEMMA TakePermitInv ==
  ASSUME LockInv, NEW u \in User, TakePermit(u)
  PROVE  LockInv'
<1> USE KeyedSerialAssumption
<1>1. LockTypeOK /\ sem[u] \in User
  <2>1. stage[u] \in UsingLock
    BY DEF TakePermit, UsingLock
  <2> QED
    BY <2>1, EntryType DEF LockInv
<1>2. LockTypeOK'
  BY <1>1 DEF TakePermit, LockTypeOK, Stage
<1>3. \A v \in User : stage'[v] \in UsingLock <=> stage[v] \in UsingLock
  BY <1>1 DEF TakePermit, LockTypeOK, UsingLock
<1>4. ASSUME NEW v \in User, stage'[v] = "inside"
      PROVE  holder'[sem[v]] = v
  BY <1>1, <1>4 DEF TakePermit, LockTypeOK, LockInv
<1> QED
  BY <1>2, <1>3, <1>4, SameUsersInv DEF TakePermit

LEMMA AbandonWaitInv ==
  ASSUME LockInv, NEW u \in User, AbandonWait(u)
  PROVE  LockInv'
<1>1. LockTypeOK'
  BY DEF AbandonWait, LockInv, LockTypeOK, Stage
<1>2. \A v \in User : /\ stage'[v] \in UsingLock <=> stage[v] \in UsingLock
                      /\ stage'[v] = "inside" => holder'[sem[v]] = v
  BY DEF AbandonWait, LockInv, LockTypeOK, UsingLock
<1> QED
  BY <1>1, <1>2, SameUsersInv DEF AbandonWait

LEMMA ReturnPermitInv ==
  ASSUME LockInv, NEW u \in User, ReturnPermit(u)
  PROVE  LockInv'
<1> USE KeyedSerialAssumption
<1>1. LockTypeOK'
  BY DEF ReturnPermit, LockInv, LockTypeOK, Stage
<1>2. \A v \in User : stage'[v] \in UsingLock <=> stage[v] \in UsingLock
  BY DEF ReturnPermit, LockInv, LockTypeOK, UsingLock
<1>3. ASSUME NEW v \in User, stage'[v] = "inside"
      PROVE  holder'[sem[v]] = v
  BY <1>3 DEF ReturnPermit, LockInv, LockTypeOK
<1> QED
  BY <1>1, <1>2, <1>3, SameUsersInv DEF ReturnPermit

\* releaseLock takes one user off the entry, and the entry off the map with its
\* last user.
LEMMA ReleaseLockInv ==
  ASSUME LockInv, NEW u \in User, ReleaseLock(u)
  PROVE  LockInv'
<1> USE KeyedSerialAssumption
<1> DEFINE k == KeyOf[u]
<1>0. k \in Key
  OBVIOUS
<1>1. LockTypeOK /\ stage[u] = "leaving" /\ u \in UsersOf(k)
  BY DEF LockInv, ReleaseLock, UsersOf
<1>2. /\ locks' = [locks EXCEPT ![k] = Decremented(locks[k])]
      /\ stage' = [stage EXCEPT ![u] = "gone"]
      /\ UNCHANGED <<holder, sem>>
  BY DEF ReleaseLock
<1>3. /\ locks[k] # NoEntry /\ locks[k] \in LockEntry
      /\ locks[k].users = Cardinality(UsersOf(k)) /\ locks[k].users \in Nat
  BY <1>0, <1>1, EntryType DEF LockInv, EntriesCountUsers
<1>4. Decremented(locks[k]) \in LockEntry \cup {NoEntry}
  <2>1. locks[k].users # 0
    BY <1>0, <1>1, <1>3, UsersFinite, FS_EmptySet
  <2> QED
    BY <1>3, <2>1 DEF Decremented, LockEntry
<1>5. LockTypeOK'
  BY <1>0, <1>1, <1>2, <1>4 DEF LockTypeOK, Stage
<1>6. /\ \A l \in Key \ {k} : UsersOf(l)' = UsersOf(l)
      /\ UsersOf(k)' = UsersOf(k) \ {u}
  BY <1>1, <1>2 DEF UsersOf, LockTypeOK
<1>7. /\ IsFiniteSet(UsersOf(k)')
      /\ Cardinality(UsersOf(k)') = locks[k].users - 1
  BY <1>0, <1>1, <1>3, <1>6, FS_RemoveElement, UsersFinite
<1>8. IF locks[k].users = 1 THEN UsersOf(k)' = {} ELSE UsersOf(k)' # {}
  BY <1>3, <1>7, FS_EmptySet
<1>9. EntriesCountUsers'
  <2> SUFFICES ASSUME NEW l \in Key
               PROVE  IF locks'[l] = NoEntry THEN UsersOf(l)' = {}
                      ELSE locks'[l].users = Cardinality(UsersOf(l)') /\ UsersOf(l)' # {}
    BY DEF EntriesCountUsers
  <2>1. CASE l = k /\ locks[k].users = 1
    BY <1>1, <1>2, <1>8, <2>1 DEF LockTypeOK, Decremented
  <2>2. CASE l = k /\ locks[k].users # 1
    <3>1. locks'[k] = [locks[k] EXCEPT !.users = @ - 1]
      BY <1>0, <1>1, <1>2, <1>3, <2>2 DEF LockTypeOK, Decremented
    <3>2. locks'[k].users = locks[k].users - 1
      BY <1>3, <3>1 DEF LockEntry
    <3>3. locks'[k] # NoEntry
      <4>1. locks'[k] \in LockEntry
        BY <1>3, <1>7, <1>8, <2>2, <3>1, FS_CardinalityType DEF LockEntry
      <4> QED
        BY <4>1 DEF LockEntry
    <3> QED
      BY <1>7, <1>8, <2>2, <3>2, <3>3
  <2>3. CASE l # k
    BY <1>2, <1>6, <2>3 DEF LockInv, EntriesCountUsers
  <2> QED
    BY <2>1, <2>2, <2>3
<1>10. ASSUME NEW v \in User, stage'[v] \in UsingLock
       PROVE  locks'[KeyOf[v]] # NoEntry /\ sem'[v] = locks'[KeyOf[v]].semaphore
  <2>1. v # u /\ stage[v] \in UsingLock
    BY <1>1, <1>2, <1>10 DEF LockTypeOK, UsingLock
  <2>2. locks[KeyOf[v]] # NoEntry /\ sem[v] = locks[KeyOf[v]].semaphore
    BY <2>1 DEF LockInv
  <2>3. CASE KeyOf[v] # k
    BY <1>2, <2>2, <2>3 DEF LockInv
  <2>4. CASE KeyOf[v] = k
    <3>1. v \in UsersOf(k)'
      BY <1>10, <2>4 DEF UsersOf, UsingLock
    <3>2. locks[k].users # 1 /\ locks'[k] # NoEntry
      BY <1>0, <1>8, <1>9, <3>1 DEF EntriesCountUsers
    <3>3. locks'[k] = [locks[k] EXCEPT !.users = @ - 1]
      BY <1>0, <1>1, <1>2, <1>3, <3>2 DEF LockTypeOK, Decremented
    <3> QED
      BY <1>2, <1>3, <2>2, <2>4, <3>2, <3>3 DEF LockEntry
  <2> QED
    BY <2>3, <2>4
<1>11. ASSUME NEW v \in User, stage'[v] = "inside"
       PROVE  holder'[sem'[v]] = v
  BY <1>1, <1>2, <1>11 DEF LockInv, LockTypeOK
<1> QED
  BY <1>5, <1>9, <1>10, <1>11 DEF LockInv

LEMMA LoseLocksInv ==
  ASSUME NEW came, LoseLocks(came)
  PROVE  LockInv'
<1> USE KeyedSerialAssumption DEF LoseLocks
<1>1. LockTypeOK'
  BY DEF LockTypeOK, Stage
<1>2. \A u \in User : stage'[u] \in {"gone", "outside"}
  OBVIOUS
<1>3. \A k \in Key : UsersOf(k)' = {}
  BY <1>2 DEF UsersOf
<1> QED
  BY <1>1, <1>2, <1>3 DEF LockInv, EntriesCountUsers, UsingLock
-----------------------------------------------------------------------------
(* The invariant.                                                          *)

\* A process that starts on an empty database has no calls and no receipts.
LEMMA InitInv == Init => IInv
<1> SUFFICES ASSUME Init PROVE IInv
  OBVIOUS
<1>1. LockInv
  BY LockInitInv DEF Init
<1>2. TypeOK
  BY <1>1, DispatchAssumption
     DEF Init, TypeOK, LockInv, Step, Receipt, Nothing, Failed
<1>3. CallInv
  BY DEF Init, CallInv, LockInit
<1>4. ReceiptsInv /\ ResultsInv
  BY DEF Init, ReceiptsInv, ResultsInv, At
<1>5. AppliedAsReceipted /\ AnswersAgree /\ PublishedOrCutOff
  BY DispatchAssumption DEF Init, AppliedAsReceipted, AnswersAgree, PublishedOrCutOff
<1> QED
  BY <1>1, <1>2, <1>3, <1>4, <1>5 DEF IInv

\* Every step of a call works the lock, or leaves it alone, and never beside
\* another user of the thread.
LEMMA LockKept == IInv /\ [Next]_vars => LockInv'
<1> SUFFICES ASSUME IInv, [Next]_vars PROVE LockInv'
  OBVIOUS
<1>0. LockInv /\ LockTypeOK
  BY DEF IInv, LockInv
<1>1. ASSUME UNCHANGED lockVars PROVE LockInv'
  <2>1. /\ LockTypeOK' /\ UNCHANGED <<locks, sem>>
        /\ \A v \in User : /\ stage'[v] \in UsingLock <=> stage[v] \in UsingLock
                           /\ stage'[v] = "inside" => holder'[sem[v]] = v
    BY <1>0, <1>1 DEF lockVars, LockTypeOK, LockInv
  <2> QED
    BY <1>0, <2>1, SameUsersInv
<1>2. ASSUME NEW u \in User, step[u] \in {"idle", "queued"}, Refuse(u) PROVE LockInv'
  <2>1. stage[u] = "outside"
    BY <1>2 DEF IInv, CallInv
  <2>2. /\ UNCHANGED <<locks, holder, sem>>
        /\ stage' = [stage EXCEPT ![u] = "gone"]
    BY <1>2 DEF Refuse
  <2>3. LockTypeOK'
    BY <1>0, <2>2 DEF LockTypeOK, Stage
  <2>4. \A v \in User : /\ stage'[v] \in UsingLock <=> stage[v] \in UsingLock
                        /\ stage'[v] = "inside" => holder'[sem[v]] = v
    BY <1>0, <2>1, <2>2 DEF LockTypeOK, LockInv, UsingLock
  <2> QED
    BY <1>0, <2>2, <2>3, <2>4, SameUsersInv
<1>3. queue # <<>> => Head(queue) \in User /\ step[Head(queue)] = "queued"
  BY DEF IInv, TypeOK, CallInv
<1>4. CASE SignalCommandReady \/ FailCommandReady
  BY <1>1, <1>4 DEF SignalCommandReady, FailCommandReady
<1>5. CASE RunQueued
  BY <1>0, <1>3, <1>5, AcquireLockInv DEF RunQueued
<1>6. CASE RefuseQueued
  BY <1>2, <1>3, <1>6 DEF RefuseQueued
<1>7. CASE Crash
  BY <1>7, LoseLocksInv DEF Crash
<1>8. ASSUME NEW u \in User, Dispatch(u) PROVE LockInv'
  BY <1>0, <1>8, AcquireLockInv DEF Dispatch
<1>9. ASSUME NEW u \in User, RefuseCall(u) PROVE LockInv'
  BY <1>2, <1>9 DEF RefuseCall
<1>10. ASSUME NEW u \in User, Enter(u) PROVE LockInv'
  BY <1>0, <1>10, TakePermitInv DEF Enter
<1>11. ASSUME NEW u \in User, Finish(u) PROVE LockInv'
  BY <1>0, <1>11, ReturnPermitInv DEF Finish
<1>12. ASSUME NEW u \in User, Return(u) PROVE LockInv'
  BY <1>0, <1>12, ReleaseLockInv DEF Return
<1>13. ASSUME NEW u \in User, Interrupt(u) PROVE LockInv'
  BY <1>0, <1>1, <1>13, AbandonWaitInv DEF Interrupt
<1>14. ASSUME NEW u \in User,
              \/ EnqueueCommand(u) \/ LookUpReceipt(u) \/ PlanCommand(u) \/ CommitRejected(u)
              \/ CommitCommand(u) \/ PublishCommitted(u) \/ DatabaseFails(u) \/ LeaveQueued(u)
       PROVE  LockInv'
  BY <1>1, <1>14 DEF EnqueueCommand, LookUpReceipt, PlanCommand, CommitRejected, CommitCommand,
     PublishCommitted, DatabaseFails, LeaveQueued, Conclude, Proceed
<1>15. CASE UNCHANGED vars
  BY <1>1, <1>15 DEF vars
<1> QED
  BY <1>4, <1>5, <1>6, <1>7, <1>8, <1>9, <1>10, <1>11, <1>12, <1>13, <1>14, <1>15
     DEF Next, GateStep, CallStep
\* A call about to publish has the sequence of an event in the log.
LEMMA PublishesLogged ==
  ASSUME IInv, NEW u \in User, At(u, "publish")
  PROVE  /\ result[u] = receipts[CommandOf[u]]
         /\ \E i \in 1 .. Len(log) : result[u] = Accepted(i)
         /\ result[u].at \in 1 .. Len(log)
<1>1. result[u].status = "accepted"
  BY DEF IInv, ResultsInv
<1>2. result[u] = receipts[CommandOf[u]]
  BY <1>1 DEF IInv, ResultsInv, Nothing, Failed
<1>3. CommandOf[u] \in Command
  BY DispatchAssumption
<1>4. PICK i \in 1 .. Len(log) : result[u] = Accepted(i)
  BY <1>1, <1>2, <1>3 DEF IInv, ReceiptsInv, Nothing, Rejected
<1> QED
  BY <1>2, <1>4 DEF Accepted

\* The sequences that an interruption or a crash keeps from the subscribers are
\* in the log.
LEMMA UnpublishedLogged ==
  ASSUME IInv, NEW u \in User
  PROVE  Unpublished(u) \subseteq 1 .. Len(log)
BY PublishesLogged DEF Unpublished

\* Steps that leave the durable state alone keep what it is.
LEMMA TypeKept == IInv /\ [Next]_vars => TypeOK'
<1> SUFFICES ASSUME IInv, [Next]_vars PROVE TypeOK'
  OBVIOUS
<1>0. /\ TypeOK
      /\ LockTypeOK'
  BY LockKept DEF IInv, LockInv
<1> USE DispatchAssumption, KeyedSerialAssumption
<1>1. \A u \in User : CommandOf[u] \in Command
  OBVIOUS
<1>2. /\ Failed \in Receipt \cup {Failed} /\ Nothing \in Receipt /\ Rejected \in Receipt
      /\ \A n \in Nat : Accepted(n) \in Receipt
  BY DEF Receipt, Nothing, Rejected, Accepted
<1>3. queue # <<>> => Head(queue) \in User /\ Tail(queue) \in Seq(User)
  BY <1>0 DEF TypeOK
<1>4. CASE SignalCommandReady \/ FailCommandReady
  <2>1. /\ gate' \in {"ready", "failed"} /\ faults' \in Nat
        /\ UNCHANGED <<queue, worker, away, callVars, durableVars, streamVars>>
    BY <1>0, <1>4 DEF SignalCommandReady, FailCommandReady, TypeOK, Fault
  <2> QED
    BY <1>0, <2>1 DEF TypeOK, callVars, durableVars, streamVars
<1>5. CASE RunQueued
  BY <1>0, <1>3, <1>5 DEF RunQueued, TypeOK, Step, durableVars, streamVars
<1>6. ASSUME NEW u \in User, Refuse(u), queue' \in Seq(User) PROVE TypeOK'
  BY <1>0, <1>2, <1>6 DEF Refuse, TypeOK, Step, durableVars, streamVars
<1>7. CASE RefuseQueued
  BY <1>3, <1>6, <1>7 DEF RefuseQueued
<1>8. CASE Crash
  <2>1. cutOff' \subseteq 1 .. Len(log)
    <3>1. \A u \in User : Unpublished(u) \subseteq 1 .. Len(log)
      BY UnpublishedLogged
    <3>2. UNION {Unpublished(u) : u \in User} \subseteq 1 .. Len(log)
      BY <3>1, Zenon
    <3> QED
      BY <1>0, <1>8, <3>2 DEF Crash, TypeOK
  <2> QED
    BY <1>0, <1>2, <1>8, <2>1 DEF Crash, TypeOK, Step, Fault, durableVars
<1>9. ASSUME NEW u \in User, Dispatch(u) PROVE TypeOK'
  BY <1>0, <1>9 DEF Dispatch, TypeOK, Step, gateVars, durableVars, streamVars
<1>10. ASSUME NEW u \in User, EnqueueCommand(u) PROVE TypeOK'
  BY <1>0, <1>10 DEF EnqueueCommand, TypeOK, Step, durableVars, streamVars
<1>11. ASSUME NEW u \in User, RefuseCall(u) PROVE TypeOK'
  BY <1>0, <1>6, <1>11 DEF RefuseCall, TypeOK
<1>12. ASSUME NEW u \in User, Enter(u) \/ Finish(u) PROVE TypeOK'
  BY <1>0, <1>12 DEF Enter, Finish, TypeOK, gateVars, callVars, durableVars, streamVars
<1>13. ASSUME NEW u \in User, Return(u) PROVE TypeOK'
  BY <1>0, <1>13 DEF Return, TypeOK, durableVars, streamVars
<1>14. ASSUME NEW u \in User, Interrupt(u) PROVE TypeOK'
  <2>1. cutOff' \subseteq 1 .. Len(log)
    BY <1>0, <1>14, UnpublishedLogged DEF Interrupt, TypeOK
  <2> QED
    BY <1>0, <1>2, <1>14, <2>1 DEF Interrupt, TypeOK, Step, Fault, gateVars, durableVars
<1>15. ASSUME NEW u \in User, LookUpReceipt(u) \/ PlanCommand(u) PROVE TypeOK'
  <2>1. /\ step' \in [User -> Step] /\ result' \in [User -> Receipt \cup {Failed}]
        /\ UNCHANGED <<gateVars, answer, durableVars, streamVars, faults>>
    <3>1. CASE LookUpReceipt(u)
      <4>1. /\ receipts[CommandOf[u]] \in Receipt
            /\ UNCHANGED <<gateVars, answer, durableVars, streamVars, faults>>
            /\ result' = result \/ result' = [result EXCEPT ![u] = receipts[CommandOf[u]]]
            /\ \E s \in Step : step' = [step EXCEPT ![u] = s]
        BY <1>0, <1>1, <3>1 DEF LookUpReceipt, Conclude, Proceed, TypeOK, Step
      <4>2. result' \in [User -> Receipt \cup {Failed}]
        BY <1>0, <4>1 DEF TypeOK
      <4>3. step' \in [User -> Step]
        BY <1>0, <4>1 DEF TypeOK
      <4> QED
        BY <4>1, <4>2, <4>3
    <3>2. CASE PlanCommand(u)
      BY <1>0, <3>2 DEF PlanCommand, Proceed, TypeOK, Step
    <3> QED
      BY <1>15, <3>1, <3>2
  <2> QED
    BY <1>0, <2>1 DEF TypeOK, gateVars, durableVars, streamVars
<1>16. ASSUME NEW u \in User, CommitRejected(u) PROVE TypeOK'
  BY <1>0, <1>1, <1>2, <1>16 DEF CommitRejected, Conclude, Proceed, TypeOK, Step, gateVars,
     streamVars
<1>17. ASSUME NEW u \in User, CommitCommand(u) PROVE TypeOK'
  <2>1. /\ result' \in [User -> Receipt \cup {Failed}]
        /\ receipts' \in [Command -> Receipt]
    <3>1. Accepted(Len(log) + 1) \in Receipt /\ receipts[CommandOf[u]] \in Receipt
      BY <1>0, <1>1, <1>2 DEF TypeOK
    <3>2. CASE receipts[CommandOf[u]] = Nothing
      <4>1. /\ result' = [result EXCEPT ![u] = Accepted(Len(log) + 1)]
            /\ receipts' = [receipts EXCEPT ![CommandOf[u]] = Accepted(Len(log) + 1)]
        BY <1>17, <3>2 DEF CommitCommand, Conclude
      <4> QED
        BY <1>0, <1>1, <3>1, <4>1 DEF TypeOK
    <3>3. CASE receipts[CommandOf[u]] # Nothing
      BY <1>0, <1>17, <3>1, <3>3 DEF CommitCommand, Conclude, TypeOK, durableVars
    <3> QED
      BY <3>2, <3>3
  <2>2. log' \in Seq(Command) /\ Len(log) \in Nat /\ Len(log') >= Len(log)
    <3>1. log' = log \/ log' = Append(log, CommandOf[u])
      BY <1>17 DEF CommitCommand, durableVars
    <3> QED
      BY <1>0, <1>1, <3>1 DEF TypeOK
  <2>3. published' \subseteq 1 .. Len(log') /\ cutOff' \subseteq 1 .. Len(log')
    BY <1>0, <1>17, <2>2 DEF CommitCommand, TypeOK, streamVars
  <2>4. step' \in [User -> Step]
    BY <1>0, <1>17 DEF CommitCommand, Conclude, Proceed, TypeOK, Step
  <2> QED
    BY <1>0, <1>17, <2>1, <2>2, <2>3, <2>4 DEF CommitCommand, Conclude, Proceed, TypeOK, gateVars
<1>18. ASSUME NEW u \in User, PublishCommitted(u) PROVE TypeOK'
  <2>1. result[u].at \in 1 .. Len(log)
    BY <1>18, PublishesLogged DEF PublishCommitted
  <2> QED
    BY <1>0, <1>18, <2>1 DEF PublishCommitted, Proceed, TypeOK, Step, gateVars, durableVars
<1>19. ASSUME NEW u \in User, DatabaseFails(u) PROVE TypeOK'
  BY <1>0, <1>2, <1>19 DEF DatabaseFails, Conclude, Proceed, TypeOK, Step, Fault, gateVars,
     durableVars, streamVars
<1>20. ASSUME NEW u \in User, LeaveQueued(u) PROVE TypeOK'
  BY <1>0, <1>20 DEF LeaveQueued, TypeOK, Fault, lockVars, callVars, durableVars, streamVars
<1>21. CASE UNCHANGED vars
  BY <1>0, <1>21 DEF vars, TypeOK, gateVars, callVars, durableVars, streamVars
<1> QED
  BY <1>4, <1>5, <1>7, <1>8, <1>9, <1>10, <1>11, <1>12, <1>13, <1>14, <1>15, <1>16, <1>17,
     <1>18, <1>19, <1>20, <1>21 DEF Next, GateStep, CallStep

\* Calls are queued once, before they reach the lock, and answered as they leave.
LEMMA CallsKept == IInv /\ [Next]_vars => CallInv'
<1> SUFFICES ASSUME IInv, [Next]_vars PROVE CallInv'
  OBVIOUS
<1>0. TypeOK /\ CallInv /\ LockTypeOK
  BY DEF IInv, LockInv
\* A step of one call that is not queued and keeps the queue.
<1>1. ASSUME NEW u \in User, NEW s \in Step \ {"idle", "queued"},
             step[u] # "queued", queue' = queue,
             step' = [step EXCEPT ![u] = s],
             \A v \in User \ {u} : stage'[v] = stage[v] /\ answer'[v] = answer[v],
             stage'[u] # "gone" => answer'[u] = Nothing,
             stage'[u] = "waiting" => s = "lookup"
      PROVE  CallInv'
  <2>1. \A v \in User : /\ stage'[v] = "waiting" => step'[v] = "lookup"
                        /\ step'[v] \in {"idle", "queued"} => stage'[v] = "outside"
                        /\ stage'[v] # "gone" => answer'[v] = Nothing
    BY <1>0, <1>1 DEF CallInv, TypeOK
  <2>2. \A i \in 1 .. Len(queue) : queue[i] \in User /\ queue[i] # u
    BY <1>0, <1>1 DEF CallInv, TypeOK
  <2>3. \A i \in 1 .. Len(queue') : step'[queue'[i]] = "queued"
    BY <1>0, <1>1, <2>2 DEF CallInv, TypeOK
  <2> QED
    BY <1>0, <1>1, <2>1, <2>3 DEF CallInv
<1>2. \A u \in User : stage[u] # "outside" => step[u] # "queued" /\ step[u] # "idle"
  BY <1>0 DEF CallInv
<1>3. queue # <<>> =>
        /\ Head(queue) \in User /\ step[Head(queue)] = "queued"
        /\ stage[Head(queue)] = "outside"
        /\ Len(Tail(queue)) = Len(queue) - 1
        /\ \A i \in 1 .. Len(Tail(queue)) :
              /\ Tail(queue)[i] = queue[i + 1] /\ i + 1 \in 1 .. Len(queue)
              /\ queue[i + 1] # Head(queue) /\ queue[i + 1] \in User
  BY <1>0 DEF CallInv, TypeOK
\* The head of the queue leaves it.
<1>4. ASSUME queue # <<>>, queue' = Tail(queue), NEW s \in Step \ {"idle", "queued"},
             step' = [step EXCEPT ![Head(queue)] = s],
             \A v \in User \ {Head(queue)} : stage'[v] = stage[v] /\ answer'[v] = answer[v],
             stage'[Head(queue)] # "gone" => answer'[Head(queue)] = Nothing,
             stage'[Head(queue)] = "waiting" => s = "lookup"
      PROVE  CallInv'
  <2>1. \A v \in User : /\ step'[v] \in {"idle", "queued"} => stage'[v] = "outside"
                        /\ stage'[v] = "waiting" => step'[v] = "lookup"
    BY <1>0, <1>3, <1>4 DEF CallInv, TypeOK
  <2>2. \A i \in 1 .. Len(queue') : step'[queue'[i]] = "queued"
    BY <1>0, <1>3, <1>4 DEF CallInv, TypeOK
  <2>3. \A i, j \in 1 .. Len(queue') : queue'[i] = queue'[j] => i = j
    BY <1>0, <1>3, <1>4 DEF CallInv
  <2>4. \A v \in User : stage'[v] # "gone" => answer'[v] = Nothing
    BY <1>0, <1>4 DEF CallInv
  <2> QED
    BY <2>1, <2>2, <2>3, <2>4 DEF CallInv
<1>5. CASE SignalCommandReady \/ FailCommandReady \/ UNCHANGED vars
  BY <1>0, <1>5 DEF SignalCommandReady, FailCommandReady, vars, CallInv, lockVars, gateVars,
     callVars
<1>6. CASE RunQueued
  <2>1. answer[Head(queue)] = Nothing
    BY <1>0, <1>3, <1>6 DEF RunQueued, CallInv
  <2> QED
    BY <1>0, <1>3, <1>4, <1>6, <2>1 DEF RunQueued, AcquireLock, LockTypeOK, Step
<1>7. CASE RefuseQueued
  BY <1>0, <1>3, <1>4, <1>7 DEF RefuseQueued, Refuse, LockTypeOK, TypeOK, Step
<1>8. CASE Crash
  BY <1>0, <1>8 DEF Crash, LoseLocks, CallInv, TypeOK, LockTypeOK
<1>9. ASSUME NEW u \in User, Dispatch(u) PROVE CallInv'
  <2>1. answer[u] = Nothing
    BY <1>0, <1>9 DEF Dispatch, CallInv
  <2> QED
    BY <1>0, <1>1, <1>9, <2>1 DEF Dispatch, AcquireLock, LockTypeOK, Step, gateVars
<1>10. ASSUME NEW u \in User, EnqueueCommand(u) PROVE CallInv'
  <2>1. /\ Len(queue') = Len(queue) + 1 /\ queue'[Len(queue) + 1] = u
        /\ \A i \in 1 .. Len(queue) : queue'[i] = queue[i] /\ queue[i] # u /\ queue[i] \in User
    BY <1>0, <1>10 DEF EnqueueCommand, TypeOK, CallInv
  <2>2. Len(queue) \in Nat
    BY <1>0 DEF TypeOK
  <2>3. \A i \in 1 .. Len(queue') : step'[queue'[i]] = "queued"
    BY <1>0, <1>10, <2>1, <2>2 DEF EnqueueCommand, TypeOK, CallInv
  <2>4. \A i, j \in 1 .. Len(queue') : queue'[i] = queue'[j] => i = j
    BY <1>0, <2>1, <2>2 DEF CallInv
  <2>5. /\ \A v \in User : /\ step'[v] \in {"idle", "queued"} => stage'[v] = "outside"
                           /\ stage'[v] = "waiting" => step'[v] = "lookup"
        /\ \A v \in User : stage'[v] # "gone" => answer'[v] = Nothing
    BY <1>0, <1>10 DEF EnqueueCommand, TypeOK, CallInv, lockVars
  <2> QED
    BY <2>3, <2>4, <2>5 DEF CallInv
<1>11. ASSUME NEW u \in User, RefuseCall(u) PROVE CallInv'
  BY <1>0, <1>1, <1>11 DEF RefuseCall, Refuse, LockTypeOK, TypeOK, Step
<1>12. ASSUME NEW u \in User, Enter(u) PROVE CallInv'
  BY <1>0, <1>2, <1>12 DEF Enter, TakePermit, CallInv, LockTypeOK, gateVars, callVars
<1>13. ASSUME NEW u \in User, Finish(u) PROVE CallInv'
  BY <1>0, <1>2, <1>13 DEF Finish, ReturnPermit, CallInv, LockTypeOK, gateVars, callVars
<1>14. ASSUME NEW u \in User, Return(u) PROVE CallInv'
  BY <1>0, <1>2, <1>14 DEF Return, ReleaseLock, CallInv, LockTypeOK, TypeOK
<1>15. ASSUME NEW u \in User, Interrupt(u) PROVE CallInv'
  <2>1. stage[u] \in {"waiting", "inside"} /\ stage'[u] \in {"inside", "leaving"}
    BY <1>0, <1>15 DEF Interrupt, AbandonWait, lockVars, LockTypeOK
  <2>2. /\ step[u] # "queued" /\ answer[u] = Nothing
        /\ answer' = answer /\ queue' = queue /\ step' = [step EXCEPT ![u] = "end"]
        /\ \A v \in User \ {u} : stage'[v] = stage[v]
    BY <1>0, <1>2, <1>15, <2>1 DEF Interrupt, AbandonWait, lockVars, LockTypeOK, gateVars, CallInv
  <2> QED
    BY <1>1, <2>1, <2>2 DEF Step
<1>16. ASSUME NEW u \in User,
              \/ LookUpReceipt(u) \/ PlanCommand(u) \/ CommitRejected(u) \/ CommitCommand(u)
              \/ PublishCommitted(u) \/ DatabaseFails(u)
       PROVE  CallInv'
  <2>1. /\ stage[u] = "inside" /\ stage' = stage /\ answer' = answer /\ queue' = queue
        /\ \E s \in Step \ {"idle", "queued"} : step' = [step EXCEPT ![u] = s]
    BY <1>16 DEF LookUpReceipt, PlanCommand, CommitRejected, CommitCommand, PublishCommitted,
       DatabaseFails, Conclude, Proceed, At, Step, lockVars, gateVars
  <2>2. step[u] # "queued" /\ answer[u] = Nothing
    BY <1>0, <1>2, <2>1 DEF CallInv
  <2> QED
    BY <1>1, <2>1, <2>2
<1>17. ASSUME NEW u \in User, LeaveQueued(u) PROVE CallInv'
  BY <1>0, <1>17 DEF LeaveQueued, CallInv, lockVars, callVars
<1> QED
  BY <1>5, <1>6, <1>7, <1>8, <1>9, <1>10, <1>11, <1>12, <1>13, <1>14, <1>15, <1>16, <1>17
     DEF Next, GateStep, CallStep
\* Receipts differ as their statuses and sequences do.
LEMMA ReceiptsDiffer ==
  /\ \A i : Accepted(i) # Nothing /\ Accepted(i) # Rejected /\ Accepted(i) # Failed
  /\ \A i, j : Accepted(i) = Accepted(j) => i = j
  /\ Nothing # Rejected /\ Nothing # Failed /\ Rejected # Failed
BY DEF Accepted, Nothing, Rejected, Failed

\* The durable state changes in two steps only: a first commit, or a first
\* rejection.
LEMMA DurableSteps ==
  ASSUME IInv, [Next]_vars
  PROVE  \/ UNCHANGED durableVars
         \/ \E u \in User :
               /\ At(u, "commit") /\ receipts[CommandOf[u]] = Nothing
               /\ log' = Append(log, CommandOf[u])
               /\ receipts' = [receipts EXCEPT ![CommandOf[u]] = Accepted(Len(log) + 1)]
               /\ CommitCommand(u)
         \/ \E u \in User :
               /\ At(u, "reject") /\ receipts[CommandOf[u]] = Nothing
               /\ log' = log
               /\ receipts' = [receipts EXCEPT ![CommandOf[u]] = Rejected]
               /\ CommitRejected(u)
<1>1. CASE UNCHANGED vars
  BY <1>1 DEF vars
<1>2. CASE SignalCommandReady \/ FailCommandReady \/ RunQueued \/ RefuseQueued \/ Crash
  BY <1>2 DEF SignalCommandReady, FailCommandReady, RunQueued, RefuseQueued, Refuse, Crash
<1>3. ASSUME NEW u \in User,
             \/ Dispatch(u) \/ EnqueueCommand(u) \/ RefuseCall(u) \/ Enter(u) \/ LookUpReceipt(u)
             \/ PlanCommand(u) \/ PublishCommitted(u) \/ Finish(u) \/ Return(u)
             \/ DatabaseFails(u) \/ LeaveQueued(u) \/ Interrupt(u)
      PROVE  UNCHANGED durableVars
  BY <1>3 DEF Dispatch, EnqueueCommand, RefuseCall, Refuse, Enter, LookUpReceipt, PlanCommand,
     PublishCommitted, Finish, Return, DatabaseFails, LeaveQueued, Interrupt, durableVars
<1>4. ASSUME NEW u \in User, CommitCommand(u)
      PROVE  \/ UNCHANGED durableVars
             \/ /\ At(u, "commit") /\ receipts[CommandOf[u]] = Nothing
                /\ log' = Append(log, CommandOf[u])
                /\ receipts' = [receipts EXCEPT ![CommandOf[u]] = Accepted(Len(log) + 1)]
  BY <1>4 DEF CommitCommand
<1>5. ASSUME NEW u \in User, CommitRejected(u)
      PROVE  /\ At(u, "reject") /\ receipts[CommandOf[u]] = Nothing
             /\ log' = log
             /\ receipts' = [receipts EXCEPT ![CommandOf[u]] = Rejected]
  BY <1>5 DEF CommitRejected, IInv, ResultsInv, At
<1> QED
  BY <1>1, <1>2, <1>3, <1>4, <1>5 DEF Next, GateStep, CallStep

\* The log and the receipts change together, and a receipt that is there stays.
LEMMA ReceiptsKept ==
  ASSUME IInv, [Next]_vars
  PROVE  /\ ReceiptsInv'
         /\ AppliedAsReceipted'
         /\ \A c \in Command : receipts[c] # Nothing => receipts'[c] = receipts[c]
         /\ Len(log') >= Len(log)
<1> USE DispatchAssumption
<1>0. TypeOK /\ ReceiptsInv /\ AppliedAsReceipted /\ Len(log) \in Nat
  BY DEF IInv, TypeOK
<1>1. CASE UNCHANGED durableVars
  BY <1>0, <1>1 DEF durableVars, ReceiptsInv, AppliedAsReceipted
<1>2. ASSUME NEW u \in User, receipts[CommandOf[u]] = Nothing,
             log' = Append(log, CommandOf[u]),
             receipts' = [receipts EXCEPT ![CommandOf[u]] = Accepted(Len(log) + 1)]
      PROVE  /\ ReceiptsInv' /\ AppliedAsReceipted'
             /\ \A c \in Command : receipts[c] # Nothing => receipts'[c] = receipts[c]
             /\ Len(log') >= Len(log)
  <2> DEFINE n == Len(log) + 1
             c == CommandOf[u]
  <2>1. c \in Command
    OBVIOUS
  <2>2. /\ Len(log') = n /\ log'[n] = c
        /\ \A i \in 1 .. Len(log) : log'[i] = log[i]
    BY <1>0, <1>2, <2>1 DEF TypeOK
  <2>3. /\ receipts'[c] = Accepted(n)
        /\ \A d \in Command \ {c} : receipts'[d] = receipts[d]
    BY <1>0, <1>2, <2>1 DEF TypeOK
  <2>4. ReceiptsInv'
    BY <1>0, <2>2, <2>3 DEF ReceiptsInv
  <2>5. ASSUME NEW d \in Command, NEW i \in 1 .. Len(log')
        PROVE  log'[i] = d <=> receipts'[d] = Accepted(i)
    <3>1. CASE i = n /\ d = c
      BY <2>2, <2>3, <3>1
    <3>2. CASE i = n /\ d # c
      <4>1. receipts[d] # Accepted(n)
        BY <1>0, ReceiptsDiffer DEF ReceiptsInv
      <4> QED
        BY <2>2, <2>3, <3>2, <4>1
    <3>3. CASE i # n /\ d = c
      <4>1. log[i] # c
        BY <1>0, <1>2, <2>1, <2>2, <3>3, ReceiptsDiffer DEF AppliedAsReceipted
      <4> QED
        BY <1>0, <2>2, <2>3, <3>3, <4>1, ReceiptsDiffer
    <3>4. CASE i # n /\ d # c
      BY <1>0, <2>2, <2>3, <3>4 DEF AppliedAsReceipted
    <3> QED
      BY <3>1, <3>2, <3>3, <3>4
  <2> QED
    BY <1>0, <1>2, <2>2, <2>3, <2>4, <2>5 DEF AppliedAsReceipted
<1>3. ASSUME NEW u \in User, receipts[CommandOf[u]] = Nothing, log' = log,
             receipts' = [receipts EXCEPT ![CommandOf[u]] = Rejected]
      PROVE  /\ ReceiptsInv' /\ AppliedAsReceipted'
             /\ \A c \in Command : receipts[c] # Nothing => receipts'[c] = receipts[c]
             /\ Len(log') >= Len(log)
  <2>1. CommandOf[u] \in Command
    OBVIOUS
  <2>2. /\ receipts'[CommandOf[u]] = Rejected
        /\ \A d \in Command \ {CommandOf[u]} : receipts'[d] = receipts[d]
    BY <1>0, <1>3, <2>1 DEF TypeOK
  <2>3. ReceiptsInv'
    BY <1>0, <1>3, <2>2 DEF ReceiptsInv
  <2>4. AppliedAsReceipted'
    BY <1>0, <1>3, <2>1, <2>2, ReceiptsDiffer DEF AppliedAsReceipted
  <2> QED
    BY <1>0, <1>3, <2>2, <2>3, <2>4
<1> QED
  BY <1>1, <1>2, <1>3, DurableSteps

\* Whatever a call found or decided is still so, as no other call of the thread
\* is inside with it.
LEMMA ResultsKept ==
  ASSUME IInv, [Next]_vars
  PROVE  ResultsInv'
<1> USE DispatchAssumption
<1>0. /\ TypeOK /\ LockTypeOK /\ ResultsInv /\ OneInsidePerKey
      /\ \A c \in Command : receipts[c] # Nothing => receipts'[c] = receipts[c]
  BY InsideAlone, ReceiptsKept DEF IInv, LockInv
\* Calls a step leaves where they are.
<1>1. ASSUME NEW v \in User, stage'[v] = stage[v], step'[v] = step[v], result'[v] = result[v]
      PROVE  /\ stage'[v] = "inside" /\ step'[v] \in {"plan", "commit", "reject"} =>
                    receipts'[CommandOf[v]] = Nothing
             /\ At(v, "publish")' => result'[v].status = "accepted"
             /\ result'[v] \notin {Nothing, Failed} => result'[v] = receipts'[CommandOf[v]]
  <2>1. CommandOf[v] \in Command
    OBVIOUS
  <2>2. At(v, "publish")' => result'[v].status = "accepted"
    BY <1>0, <1>1 DEF ResultsInv, At
  <2>3. ASSUME result'[v] \notin {Nothing, Failed}
        PROVE  result'[v] = receipts'[CommandOf[v]]
    BY <1>0, <1>1, <2>1, <2>3 DEF ResultsInv
  <2>4. ASSUME stage'[v] = "inside", step'[v] \in {"plan", "commit", "reject"}
        PROVE  receipts'[CommandOf[v]] = Nothing
    <3>1. receipts[CommandOf[v]] = Nothing
      BY <1>0, <1>1, <2>4 DEF ResultsInv
    <3>2. CASE UNCHANGED durableVars
      BY <3>1, <3>2 DEF durableVars
    <3>3. ASSUME NEW u \in User, stage[u] = "inside", NEW r,
                 receipts' = [receipts EXCEPT ![CommandOf[u]] = r],
                 step'[u] # step[u]
          PROVE  receipts'[CommandOf[v]] = Nothing
      <4>1. u # v
        BY <1>1, <3>3
      <4>2. CommandOf[u] # CommandOf[v]
        BY <1>0, <1>1, <2>4, <3>3, <4>1 DEF OneInsidePerKey
      <4> QED
        BY <1>0, <2>1, <3>1, <3>3, <4>2 DEF TypeOK
    <3>4. \A u \in User : CommitCommand(u) \/ CommitRejected(u) =>
                             stage[u] = "inside" /\ step'[u] # step[u]
      BY <1>0 DEF CommitCommand, CommitRejected, Conclude, Proceed, At, TypeOK
    <3> QED
      BY <3>2, <3>3, <3>4, DurableSteps
  <2> QED
    BY <2>2, <2>3, <2>4
\* A step of one call.
<1>2. ASSUME NEW u \in User,
             \A v \in User \ {u} :
                stage'[v] = stage[v] /\ step'[v] = step[v] /\ result'[v] = result[v],
             /\ stage'[u] = "inside" /\ step'[u] \in {"plan", "commit", "reject"} =>
                    receipts'[CommandOf[u]] = Nothing
             /\ At(u, "publish")' => result'[u].status = "accepted"
             /\ result'[u] \notin {Nothing, Failed} => result'[u] = receipts'[CommandOf[u]]
      PROVE  ResultsInv'
  BY <1>1, <1>2 DEF ResultsInv
\* A step that puts a call before or past the work inside.
<1>3. ASSUME NEW u \in User,
             \A v \in User \ {u} : stage'[v] = stage[v] /\ step'[v] = step[v],
             step'[u] \in {"lookup", "queued", "end"} \/ stage'[u] # "inside",
             result' = result
      PROVE  ResultsInv'
  <2>1. result'[u] \notin {Nothing, Failed} => result'[u] = receipts'[CommandOf[u]]
    BY <1>0, <1>3 DEF ResultsInv
  <2> QED
    BY <1>2, <1>3, <2>1 DEF At
<1>4. CASE SignalCommandReady \/ FailCommandReady \/ UNCHANGED vars
  <2>1. \A v \in User : stage'[v] = stage[v] /\ step'[v] = step[v] /\ result'[v] = result[v]
    BY <1>4 DEF SignalCommandReady, FailCommandReady, vars, lockVars, callVars
  <2> QED
    BY <1>1, <2>1 DEF ResultsInv
<1>5. CASE RunQueued
  <2>1. Head(queue) \in User
    BY <1>0, <1>5 DEF RunQueued, TypeOK
  <2> QED
    BY <1>0, <1>3, <1>5, <2>1 DEF RunQueued, AcquireLock, LockTypeOK, TypeOK
<1>6. ASSUME NEW u \in User, Refuse(u) PROVE ResultsInv'
  BY <1>0, <1>3, <1>6 DEF Refuse, LockTypeOK, TypeOK
<1>7. CASE RefuseQueued
  <2>1. Head(queue) \in User
    BY <1>0, <1>7 DEF RefuseQueued, TypeOK
  <2> QED
    BY <1>6, <1>7, <2>1 DEF RefuseQueued
<1>8. CASE Crash
  <2>1. \A u \in User : stage'[u] # "inside" /\ result'[u] = Nothing
    BY <1>8 DEF Crash, LoseLocks
  <2> QED
    BY <2>1 DEF ResultsInv, At
<1>9. ASSUME NEW u \in User, Dispatch(u) \/ EnqueueCommand(u) \/ RefuseCall(u)
      PROVE  ResultsInv'
  <2>1. CASE Dispatch(u)
    BY <1>0, <1>3, <2>1 DEF Dispatch, AcquireLock, LockTypeOK, TypeOK
  <2>2. CASE EnqueueCommand(u)
    BY <1>0, <1>3, <2>2 DEF EnqueueCommand, lockVars, TypeOK
  <2>3. CASE RefuseCall(u)
    BY <1>6, <2>3 DEF RefuseCall
  <2> QED
    BY <1>9, <2>1, <2>2, <2>3
<1>10. ASSUME NEW u \in User, Enter(u) PROVE ResultsInv'
  <2>1. /\ stage[u] = "waiting" /\ step' = step /\ result' = result
        /\ \A v \in User \ {u} : stage'[v] = stage[v]
    BY <1>0, <1>10 DEF Enter, TakePermit, callVars, LockTypeOK
  <2>2. step[u] = "lookup"
    BY <2>1 DEF IInv, CallInv
  <2> QED
    BY <1>3, <2>1, <2>2
<1>11. ASSUME NEW u \in User, Finish(u) \/ Return(u) PROVE ResultsInv'
  BY <1>0, <1>3, <1>11 DEF Finish, ReturnPermit, Return, ReleaseLock, callVars, LockTypeOK
<1>12. ASSUME NEW u \in User, Interrupt(u) PROVE ResultsInv'
  BY <1>0, <1>2, <1>12 DEF Interrupt, AbandonWait, lockVars, LockTypeOK, TypeOK, At
<1>13. ASSUME NEW u \in User, LeaveQueued(u) PROVE ResultsInv'
  BY <1>1, <1>13 DEF LeaveQueued, lockVars, callVars, ResultsInv
<1>14. ASSUME NEW u \in User, PublishCommitted(u) PROVE ResultsInv'
  BY <1>0, <1>3, <1>14 DEF PublishCommitted, Proceed, lockVars, TypeOK
<1>15. ASSUME NEW u \in User, PlanCommand(u) PROVE ResultsInv'
  <2>1. /\ At(u, "plan") /\ step'[u] \in {"commit", "reject"} /\ UNCHANGED <<result, receipts>>
        /\ \A v \in User \ {u} : stage'[v] = stage[v] /\ step'[v] = step[v]
    BY <1>0, <1>15 DEF PlanCommand, Proceed, lockVars, durableVars, TypeOK
  <2>2. receipts[CommandOf[u]] = Nothing
    BY <1>0, <2>1 DEF ResultsInv, At
  <2> QED
    BY <1>0, <1>2, <2>1, <2>2 DEF At, ResultsInv
<1>16. ASSUME NEW u \in User, LookUpReceipt(u) PROVE ResultsInv'
  <2>1. CASE receipts[CommandOf[u]] = Nothing
    BY <1>0, <1>2, <1>16, <2>1 DEF LookUpReceipt, Proceed, lockVars, durableVars, TypeOK, At,
       ResultsInv
  <2>2. CASE receipts[CommandOf[u]] # Nothing
    BY <1>0, <1>2, <1>16, <2>2 DEF LookUpReceipt, Conclude, Proceed, lockVars, durableVars,
       TypeOK, At
  <2> QED
    BY <2>1, <2>2
<1>17. ASSUME NEW u \in User, DatabaseFails(u) PROVE ResultsInv'
  BY <1>0, <1>2, <1>17 DEF DatabaseFails, Conclude, Proceed, lockVars, TypeOK, At
<1>18. ASSUME NEW u \in User, CommitRejected(u) PROVE ResultsInv'
  <2>1. CommandOf[u] \in Command /\ receipts[CommandOf[u]] = Nothing
    BY <1>0, <1>18 DEF CommitRejected, ResultsInv, At
  <2>2. receipts'[CommandOf[u]] = Rejected /\ result'[u] = Rejected /\ step'[u] = "end"
    BY <1>0, <1>18, <2>1 DEF CommitRejected, Conclude, Proceed, TypeOK
  <2>3. \A v \in User \ {u} : stage'[v] = stage[v] /\ step'[v] = step[v] /\ result'[v] = result[v]
    BY <1>0, <1>18 DEF CommitRejected, Conclude, Proceed, lockVars, TypeOK
  <2> QED
    BY <1>2, <2>2, <2>3 DEF At
<1>19. ASSUME NEW u \in User, CommitCommand(u) PROVE ResultsInv'
  <2>1. CommandOf[u] \in Command /\ receipts[CommandOf[u]] = Nothing
    BY <1>0, <1>19 DEF CommitCommand, ResultsInv, At
  <2>2. /\ receipts'[CommandOf[u]] = Accepted(Len(log) + 1)
        /\ result'[u] = Accepted(Len(log) + 1) /\ step'[u] = "publish"
    BY <1>0, <1>19, <2>1 DEF CommitCommand, Conclude, Proceed, TypeOK
  <2>3. \A v \in User \ {u} : stage'[v] = stage[v] /\ step'[v] = step[v] /\ result'[v] = result[v]
    BY <1>0, <1>19 DEF CommitCommand, Conclude, Proceed, lockVars, TypeOK
  <2> QED
    BY <1>2, <2>2, <2>3 DEF Accepted
<1> QED
  BY <1>4, <1>5, <1>7, <1>8, <1>9, <1>10, <1>11, <1>12, <1>13, <1>14, <1>15, <1>16, <1>17,
     <1>18, <1>19 DEF Next, GateStep, CallStep
\* Only a call that returns its result or is refused tells its client anything.
LEMMA AnswerSteps ==
  ASSUME IInv, [Next]_vars
  PROVE  \/ UNCHANGED answer
         \/ \E u \in User :
               /\ answer[u] = Nothing
               /\ \/ answer' = [answer EXCEPT ![u] = Failed]
                  \/ answer' = [answer EXCEPT ![u] = result[u]] /\ UNCHANGED durableVars
<1>0. TypeOK /\ CallInv
  BY DEF IInv
<1>1. CASE UNCHANGED vars
  BY <1>1 DEF vars, callVars
<1>2. CASE SignalCommandReady \/ FailCommandReady \/ RunQueued \/ Crash
  BY <1>2 DEF SignalCommandReady, FailCommandReady, RunQueued, Crash, callVars
<1>3. ASSUME NEW u \in User, step[u] \in {"idle", "queued"}, Refuse(u)
      PROVE  \/ UNCHANGED answer
             \/ answer' = [answer EXCEPT ![u] = Failed] /\ answer[u] = Nothing
  BY <1>0, <1>3 DEF Refuse, CallInv, TypeOK
<1>4. CASE RefuseQueued
  <2>1. Head(queue) \in User /\ step[Head(queue)] = "queued"
    BY <1>0, <1>4 DEF RefuseQueued, TypeOK, CallInv
  <2> QED
    BY <1>3, <1>4, <2>1 DEF RefuseQueued
<1>5. ASSUME NEW u \in User, RefuseCall(u)
      PROVE  \/ UNCHANGED answer
             \/ answer' = [answer EXCEPT ![u] = Failed] /\ answer[u] = Nothing
  BY <1>3, <1>5 DEF RefuseCall
<1>6. ASSUME NEW u \in User, Return(u)
      PROVE  \/ UNCHANGED answer
             \/ /\ answer[u] = Nothing
                /\ answer' = [answer EXCEPT ![u] = result[u]] /\ UNCHANGED durableVars
  BY <1>0, <1>6 DEF Return, ReleaseLock, CallInv, TypeOK
<1>7. ASSUME NEW u \in User,
             \/ Dispatch(u) \/ EnqueueCommand(u) \/ Enter(u) \/ LookUpReceipt(u)
             \/ PlanCommand(u) \/ CommitRejected(u) \/ CommitCommand(u) \/ PublishCommitted(u)
             \/ Finish(u) \/ DatabaseFails(u) \/ LeaveQueued(u) \/ Interrupt(u)
      PROVE  UNCHANGED answer
  BY <1>7 DEF Dispatch, EnqueueCommand, Enter, LookUpReceipt, PlanCommand, CommitRejected,
     CommitCommand, PublishCommitted, Finish, DatabaseFails, LeaveQueued, Interrupt, Conclude,
     Proceed, callVars
<1> QED
  BY <1>1, <1>2, <1>3, <1>4, <1>5, <1>6, <1>7 DEF Next, GateStep, CallStep

LEMMA AnswersKept ==
  ASSUME IInv, [Next]_vars
  PROVE  AnswersAgree'
<1> USE DispatchAssumption
<1>0. /\ TypeOK /\ AnswersAgree /\ ResultsInv
      /\ \A c \in Command : receipts[c] # Nothing => receipts'[c] = receipts[c]
  BY ReceiptsKept DEF IInv
<1>1. ASSUME NEW v \in User, answer'[v] = answer[v], answer'[v] \notin {Nothing, Failed}
      PROVE  answer'[v] = receipts'[CommandOf[v]]
  BY <1>0, <1>1 DEF AnswersAgree
<1>2. CASE UNCHANGED answer
  BY <1>1, <1>2 DEF AnswersAgree
<1>3. ASSUME NEW u \in User, answer' = [answer EXCEPT ![u] = Failed]
      PROVE  AnswersAgree'
  <2>1. answer'[u] = Failed /\ \A v \in User \ {u} : answer'[v] = answer[v]
    BY <1>0, <1>3 DEF TypeOK
  <2> QED
    BY <1>1, <2>1 DEF AnswersAgree
<1>4. ASSUME NEW u \in User, answer' = [answer EXCEPT ![u] = result[u]], UNCHANGED durableVars
      PROVE  AnswersAgree'
  <2>1. answer'[u] = result[u] /\ \A v \in User \ {u} : answer'[v] = answer[v]
    BY <1>0, <1>4 DEF TypeOK
  <2>2. result[u] \notin {Nothing, Failed} => result[u] = receipts'[CommandOf[u]]
    BY <1>0, <1>4 DEF ResultsInv, durableVars
  <2> QED
    BY <1>1, <2>1, <2>2 DEF AnswersAgree
<1> QED
  BY <1>2, <1>3, <1>4, AnswerSteps

\* A committed event stays with the call that will publish it, until it is
\* published or the call is ended.
LEMMA PublicationKept ==
  ASSUME IInv, [Next]_vars
  PROVE  PublishedOrCutOff'
<1> USE DispatchAssumption
<1>0. TypeOK /\ LockTypeOK /\ CallInv /\ PublishedOrCutOff
  BY DEF IInv, LockInv
\* Events that were there before: their publisher stays, has published or is
\* cut off.
<1>1. ASSUME Len(log') = Len(log), published \subseteq published', cutOff \subseteq cutOff',
             \A u \in User : At(u, "publish") =>
                \/ At(u, "publish")' /\ result'[u] = result[u]
                \/ result[u].at \in published' \cup cutOff'
      PROVE  PublishedOrCutOff'
  BY <1>0, <1>1 DEF PublishedOrCutOff
<1>2. ASSUME UNCHANGED <<durableVars, streamVars>>, NEW u \in User, ~At(u, "publish"),
             \A v \in User \ {u} :
                stage'[v] = stage[v] /\ step'[v] = step[v] /\ result'[v] = result[v]
      PROVE  PublishedOrCutOff'
  BY <1>1, <1>2 DEF durableVars, streamVars, At
<1>3. CASE SignalCommandReady \/ FailCommandReady \/ UNCHANGED vars
  BY <1>1, <1>3 DEF SignalCommandReady, FailCommandReady, vars, lockVars, callVars, durableVars,
     streamVars, At
<1>4. ASSUME NEW u \in User, stage[u] = "outside", AcquireLock(u), NEW s,
             step' = [step EXCEPT ![u] = s],
             UNCHANGED <<result, durableVars, streamVars>>
      PROVE  PublishedOrCutOff'
  BY <1>0, <1>2, <1>4 DEF AcquireLock, LockTypeOK, TypeOK, At
<1>5. CASE RunQueued
  <2>1. Head(queue) \in User /\ stage[Head(queue)] = "outside"
    BY <1>0, <1>5 DEF RunQueued, TypeOK, AcquireLock
  <2> QED
    BY <1>4, <1>5, <2>1 DEF RunQueued
<1>6. ASSUME NEW u \in User, step[u] \in {"idle", "queued"}, Refuse(u)
      PROVE  PublishedOrCutOff'
  BY <1>0, <1>2, <1>6 DEF Refuse, LockTypeOK, TypeOK, At
<1>7. CASE RefuseQueued
  <2>1. Head(queue) \in User /\ step[Head(queue)] = "queued"
    BY <1>0, <1>7 DEF RefuseQueued, TypeOK, CallInv
  <2> QED
    BY <1>6, <1>7, <2>1 DEF RefuseQueued
<1>8. CASE Crash
  <2>1. \A u \in User : At(u, "publish") => result[u].at \in cutOff'
    <3>1. cutOff' = cutOff \cup UNION {Unpublished(u) : u \in User}
      BY <1>8 DEF Crash
    <3>2. \A u \in User : At(u, "publish") => result[u].at \in Unpublished(u)
      BY DEF Unpublished
    <3> QED
      BY <3>1, <3>2, Zenon
  <2>2. UNCHANGED <<log, published>> /\ cutOff \subseteq cutOff'
    BY <1>8 DEF Crash, durableVars
  <2> QED
    BY <1>1, <2>1, <2>2
<1>9. ASSUME NEW u \in User, Dispatch(u) \/ EnqueueCommand(u) \/ RefuseCall(u)
      PROVE  PublishedOrCutOff'
  <2>1. CASE Dispatch(u)
    BY <1>4, <2>1 DEF Dispatch, AcquireLock
  <2>2. CASE EnqueueCommand(u)
    BY <1>0, <1>2, <2>2 DEF EnqueueCommand, lockVars, TypeOK, At
  <2>3. CASE RefuseCall(u)
    BY <1>6, <2>3 DEF RefuseCall
  <2> QED
    BY <1>9, <2>1, <2>2, <2>3
<1>10. ASSUME NEW u \in User, Enter(u) \/ Finish(u) \/ Return(u)
       PROVE  PublishedOrCutOff'
  <2>1. ~At(u, "publish") /\ UNCHANGED <<step, result, durableVars, streamVars>>
    BY <1>10 DEF Enter, TakePermit, Finish, Return, ReleaseLock, callVars, At
  <2>2. \A v \in User \ {u} : stage'[v] = stage[v]
    BY <1>0, <1>10 DEF Enter, TakePermit, Finish, ReturnPermit, Return, ReleaseLock, LockTypeOK
  <2> QED
    BY <1>2, <2>1, <2>2
<1>11. ASSUME NEW u \in User, Interrupt(u) PROVE PublishedOrCutOff'
  <2>1. /\ At(u, "publish") => result[u].at \in cutOff'
        /\ UNCHANGED <<log, published>> /\ cutOff \subseteq cutOff'
    BY <1>11 DEF Interrupt, Unpublished, durableVars
  <2>2. \A v \in User \ {u} :
            stage'[v] = stage[v] /\ step'[v] = step[v] /\ result'[v] = result[v]
    BY <1>0, <1>11 DEF Interrupt, AbandonWait, lockVars, LockTypeOK, TypeOK
  <2> QED
    BY <1>1, <2>1, <2>2 DEF At
<1>12. ASSUME NEW u \in User, LeaveQueued(u) PROVE PublishedOrCutOff'
  BY <1>1, <1>12 DEF LeaveQueued, lockVars, callVars, durableVars, streamVars, At
<1>13. ASSUME NEW u \in User,
              LookUpReceipt(u) \/ PlanCommand(u) \/ CommitRejected(u) \/ DatabaseFails(u)
       PROVE  PublishedOrCutOff'
  <2>1. /\ ~At(u, "publish") /\ UNCHANGED <<stage, log, streamVars>>
        /\ \E s : step' = [step EXCEPT ![u] = s]
        /\ result' = result \/ \E r : result' = [result EXCEPT ![u] = r]
    BY <1>13 DEF LookUpReceipt, PlanCommand, CommitRejected, DatabaseFails, Conclude, Proceed,
       lockVars, durableVars, At
  <2>2. \A v \in User \ {u} :
            stage'[v] = stage[v] /\ step'[v] = step[v] /\ result'[v] = result[v]
    BY <1>0, <2>1 DEF TypeOK
  <2> QED
    BY <1>1, <2>1, <2>2 DEF streamVars, At
<1>14. ASSUME NEW u \in User, PublishCommitted(u) PROVE PublishedOrCutOff'
  <2>1. /\ result[u].at \in published' /\ published \subseteq published'
        /\ UNCHANGED <<stage, result, log, cutOff>>
        /\ \A v \in User \ {u} : step'[v] = step[v]
    BY <1>0, <1>14 DEF PublishCommitted, Proceed, lockVars, durableVars, TypeOK
  <2> QED
    BY <1>1, <2>1 DEF At
<1>15. ASSUME NEW u \in User, CommitCommand(u) PROVE PublishedOrCutOff'
  <2>1. CommandOf[u] \in Command /\ receipts[CommandOf[u]] = Nothing
    BY <1>15 DEF CommitCommand, IInv, ResultsInv, At
  <2>2. /\ log' = Append(log, CommandOf[u]) /\ UNCHANGED <<stage, published, cutOff>>
        /\ step' = [step EXCEPT ![u] = "publish"]
        /\ result' = [result EXCEPT ![u] = Accepted(Len(log) + 1)]
        /\ At(u, "commit")
    BY <1>15, <2>1 DEF CommitCommand, Conclude, Proceed, lockVars, streamVars
  <2>3. Len(log') = Len(log) + 1 /\ Len(log) \in Nat
    BY <1>0, <2>1, <2>2 DEF TypeOK
  <2>4. At(u, "publish")' /\ result'[u].at = Len(log')
    BY <1>0, <2>2, <2>3 DEF TypeOK, At, Accepted
  <2>5. \A v \in User : At(v, "publish") => At(v, "publish")' /\ result'[v] = result[v]
    BY <1>0, <2>2 DEF TypeOK, At
  <2>6. ASSUME NEW i \in 1 .. Len(log')
        PROVE  \/ i \in published' \/ i \in cutOff'
               \/ \E v \in User : At(v, "publish")' /\ result'[v].at = i
    <3>1. CASE i = Len(log')
      BY <2>4, <3>1
    <3>2. CASE i # Len(log')
      <4>1. i \in 1 .. Len(log)
        BY <2>3, <3>2
      <4> QED
        BY <1>0, <2>2, <2>5, <4>1 DEF PublishedOrCutOff
    <3> QED
      BY <3>1, <3>2
  <2> QED
    BY <2>6 DEF PublishedOrCutOff
<1> QED
  BY <1>3, <1>5, <1>7, <1>8, <1>9, <1>10, <1>11, <1>12, <1>13, <1>14, <1>15
     DEF Next, GateStep, CallStep

THEOREM Invariance == Spec => []IInv
<1>1. IInv /\ [Next]_vars => IInv'
  BY LockKept, TypeKept, CallsKept, ReceiptsKept, ResultsKept, AnswersKept, PublicationKept
     DEF IInv
<1> QED
  BY <1>1, InitInv, PTL DEF Spec

\* Every reachable state of command dispatch is well-typed.
THEOREM TypeCorrect == Spec => []TypeOK
<1>1. IInv => TypeOK
  BY DEF IInv
<1> QED
  BY <1>1, Invariance, PTL

\* No two calls of one thread are ever inside the lock together, although the
\* lock's entry comes and goes.
THEOREM LocksExclude == Spec => []OneInsidePerKey
<1>1. IInv => OneInsidePerKey
  BY InsideAlone DEF IInv
<1> QED
  BY <1>1, Invariance, PTL

\* The lock map keeps an entry exactly while the thread has calls.
THEOREM EntriesAreCounted == Spec => []EntriesCountUsers
<1>1. IInv => EntriesCountUsers
  BY DEF IInv, LockInv
<1> QED
  BY <1>1, Invariance, PTL

\* Receipts and log tell the same story.
THEOREM ReceiptsMatchLog == Spec => []AppliedAsReceipted
<1>1. IInv => AppliedAsReceipted
  BY DEF IInv
<1> QED
  BY <1>1, Invariance, PTL

\* No caller is told anything but the command's receipt.
THEOREM AnswersAreReceipts == Spec => []AnswersAgree
<1>1. IInv => AnswersAgree
  BY DEF IInv
<1> QED
  BY <1>1, Invariance, PTL

\* Only interrupted calls and lost processes keep events from the subscribers.
THEOREM CommitsArePublished == Spec => []PublishedOrCutOff
<1>1. IInv => PublishedOrCutOff
  BY DEF IInv
<1> QED
  BY <1>1, Invariance, PTL

-----------------------------------------------------------------------------
(* Refinement: dispatch implements CommandLedger.                          *)

LEMMA LedgerInit == Init => Ledger!Init
<1> SUFFICES ASSUME Init PROVE Ledger!Init
  OBVIOUS
<1>1. \A c \in Command : Told(c) = {}
  BY DEF Init, Told
<1> QED
  BY <1>1 DEF Init, Ledger!Init, Ledger!Open, Nothing

\* A commit or a rejection decides, a return tells, all else is a stutter.
LEMMA LedgerStep ==
  ASSUME IInv, [Next]_vars
  PROVE  [Ledger!Next]_<<receipts, [c \in Command |-> Told(c)]>>
<1> USE DispatchAssumption
<1>0. TypeOK /\ ResultsInv
  BY DEF IInv
<1>1. ASSUME UNCHANGED answer
      PROVE  UNCHANGED [c \in Command |-> Told(c)]
  BY <1>1 DEF Told
<1>2. ASSUME NEW c \in Command, receipts[c] = Nothing, NEW r, r # Nothing,
             receipts' = [receipts EXCEPT ![c] = r], UNCHANGED answer
      PROVE  Ledger!Next
  <2>1. receipts'[c] = r
    BY <1>0, <1>2 DEF TypeOK
  <2>2. Ledger!Decide(c)
    BY <1>1, <1>2, <2>1 DEF Ledger!Decide, Ledger!Open, Nothing
  <2> QED
    BY <2>2 DEF Ledger!Next
<1>3. ASSUME NEW u \in User, answer[u] = Nothing, result[u] \notin {Nothing, Failed},
             answer' = [answer EXCEPT ![u] = result[u]], UNCHANGED durableVars
      PROVE  Ledger!Next
  <2>1. /\ CommandOf[u] \in Command /\ UNCHANGED receipts
        /\ result[u] = receipts[CommandOf[u]]
    BY <1>0, <1>3 DEF durableVars, ResultsInv
  <2>2. answer'[u] = result[u] /\ \A v \in User \ {u} : answer'[v] = answer[v]
    BY <1>0, <1>3 DEF TypeOK
  <2>3. Told(CommandOf[u])' = Told(CommandOf[u]) \cup {result[u]}
    BY <1>3, <2>2 DEF Told
  <2>4. \A c \in Command \ {CommandOf[u]} : Told(c)' = Told(c)
    BY <2>2 DEF Told
  <2>5. Ledger!Tell(CommandOf[u])
    BY <1>3, <2>1, <2>3, <2>4 DEF Ledger!Tell, Ledger!Open, Nothing
  <2> QED
    BY <2>1, <2>5 DEF Ledger!Next
<1>4. ASSUME NEW u \in User, answer[u] = Nothing, NEW r \in {Nothing, Failed},
             answer' = [answer EXCEPT ![u] = r]
      PROVE  UNCHANGED [c \in Command |-> Told(c)]
  <2>1. answer'[u] = r /\ \A v \in User \ {u} : answer'[v] = answer[v]
    BY <1>0, <1>4 DEF TypeOK
  <2>2. \A c \in Command : Told(c)' = Told(c)
    BY <1>4, <2>1 DEF Told
  <2> QED
    BY <2>2
<1>5. \A u \in User : CommitCommand(u) \/ CommitRejected(u) => UNCHANGED answer
  BY DEF CommitCommand, CommitRejected, Conclude, Proceed
<1>6. CASE UNCHANGED durableVars
  BY <1>1, <1>3, <1>4, <1>6, AnswerSteps DEF durableVars
<1>7. CASE ~UNCHANGED durableVars
  <2>1. PICK u \in User :
            /\ receipts[CommandOf[u]] = Nothing /\ UNCHANGED answer
            /\ \/ receipts' = [receipts EXCEPT ![CommandOf[u]] = Accepted(Len(log) + 1)]
               \/ receipts' = [receipts EXCEPT ![CommandOf[u]] = Rejected]
    BY <1>5, <1>7, DurableSteps
  <2>2. CommandOf[u] \in Command
    OBVIOUS
  <2> QED
    BY <1>2, <2>1, <2>2, ReceiptsDiffer
<1> QED
  BY <1>6, <1>7

\* Dispatch implements the ledger: a command is decided once, and every answer,
\* across retries, interruptions and restarts, repeats the decision.
THEOREM DecisionsAreKept == Spec => KeepsDecisions
<1>1. IInv /\ [Next]_vars => [Ledger!Next]_<<receipts, [c \in Command |-> Told(c)]>>
  BY LedgerStep
<1> QED
  BY <1>1, LedgerInit, Invariance, PTL DEF Spec, KeepsDecisions, Ledger!Spec
=============================================================================
