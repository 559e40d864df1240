------------------------------ MODULE KeyedSerial ------------------------------
(***************************************************************************)
(* KeyedSerialExecutor.ts: a lock per key whose entry lives only while     *)
(* somebody uses it. A user takes part in one withLock call; a caller that *)
(* comes again is another user.                                            *)
(*                                                                         *)
(* The first user of a key offers its own semaphore, so that a semaphore   *)
(* is named by the user that made it.                                      *)
(***************************************************************************)
EXTENDS Naturals, FiniteSets

CONSTANTS
    User,     \* calls of withLock
    Key,
    KeyOf,    \* KeyOf[u]: the key u locks
    NoEntry, NoUser

ASSUME KeyedSerialAssumption ==
    /\ IsFiniteSet(User)
    /\ KeyOf \in [User -> Key]
    /\ NoUser \notin User
    /\ NoEntry \notin [semaphore : User, users : Nat]

VARIABLES
    locks,    \* the map: key -> semaphore and number of users, or NoEntry
    holder,   \* holder[s]: who has the permit of semaphore s
    sem,      \* sem[u]: the semaphore acquireLock handed to u
    stage     \* where u is in withLock

lockVars == <<locks, holder, sem, stage>>

LockEntry == [semaphore : User, users : Nat]
Stage == {"outside", "waiting", "inside", "leaving", "gone"}

LockTypeOK ==
    /\ locks \in [Key -> LockEntry \cup {NoEntry}]
    /\ holder \in [User -> User \cup {NoUser}]
    /\ sem \in [User -> User \cup {NoUser}]
    /\ stage \in [User -> Stage]

LockInit ==
    /\ locks = [k \in Key |-> NoEntry]
    /\ holder = [u \in User |-> NoUser]
    /\ sem = [u \in User |-> NoUser]
    /\ stage = [u \in User |-> "outside"]

(* The users counted in an entry: from acquireLock to releaseLock. *)
UsersOf(k) ==
    {u \in User : KeyOf[u] = k /\ stage[u] \in {"waiting", "inside", "leaving"}}

AcquireLock(u) ==
    LET k == KeyOf[u]
        existing == locks[k]
        joined == IF existing = NoEntry
                  THEN [semaphore |-> u, users |-> 1]
                  ELSE [semaphore |-> existing.semaphore, users |-> existing.users + 1]
    IN  /\ stage[u] = "outside"
        /\ locks' = [locks EXCEPT ![k] = joined]
        /\ sem' = [sem EXCEPT ![u] = joined.semaphore]
        /\ stage' = [stage EXCEPT ![u] = "waiting"]
        /\ UNCHANGED holder

TakePermit(u) ==
    /\ stage[u] = "waiting"
    /\ holder[sem[u]] = NoUser
    /\ holder' = [holder EXCEPT ![sem[u]] = u]
    /\ stage' = [stage EXCEPT ![u] = "inside"]
    /\ UNCHANGED <<locks, sem>>

\* The mutants, here and below: a definition each with one plausible bug.
AbandonWaitKeepingEntry(u) ==
    /\ stage[u] = "waiting"
    /\ stage' = [stage EXCEPT ![u] = "gone"]
    /\ UNCHANGED <<locks, holder, sem>>

(* The wait for the permit is interruptible. *)
AbandonWait(u) ==
    /\ stage[u] = "waiting"
    /\ stage' = [stage EXCEPT ![u] = "leaving"]
    /\ UNCHANGED <<locks, holder, sem>>

(* However the work ends, the permit goes back and then the entry. *)
ReturnPermit(u) ==
    /\ stage[u] = "inside"
    /\ holder' = [holder EXCEPT ![sem[u]] = NoUser]
    /\ stage' = [stage EXCEPT ![u] = "leaving"]
    /\ UNCHANGED <<locks, sem>>

DroppedByAnyUser(existing) == NoEntry

Decremented(existing) ==
    IF existing = NoEntry THEN NoEntry
    ELSE IF existing.users = 1 THEN NoEntry
    ELSE [existing EXCEPT !.users = @ - 1]

ReleaseLock(u) ==
    /\ stage[u] = "leaving"
    /\ locks' = [locks EXCEPT ![KeyOf[u]] = Decremented(@)]
    /\ stage' = [stage EXCEPT ![u] = "gone"]
    /\ UNCHANGED <<holder, sem>>

(* Another process starts with an empty map; the calls that came to the    *)
(* last one are gone.                                                      *)
LoseLocks(came) ==
    /\ locks' = [k \in Key |-> NoEntry]
    /\ holder' = [u \in User |-> NoUser]
    /\ sem' = [u \in User |-> NoUser]
    /\ stage' = [u \in User |-> IF u \in came THEN "gone" ELSE "outside"]

-----------------------------------------------------------------------------
(* Two users of one key are never inside together, although the key's      *)
(* entry is deleted and made again with another semaphore: releaseLock     *)
(* must drop it with its last user, waiting users included.                *)
OneInsidePerKey ==
    \A u, v \in User :
        stage[u] = "inside" /\ stage[v] = "inside" /\ KeyOf[u] = KeyOf[v] => u = v

(* The map keeps an entry exactly while the key has users, and counts them:*)
(* it neither grows with every thread ever dispatched to nor forgets one.  *)
EntriesCountUsers ==
    \A k \in Key :
        IF locks[k] = NoEntry THEN UsersOf(k) = {}
        ELSE locks[k].users = Cardinality(UsersOf(k)) /\ UsersOf(k) # {}
=============================================================================
