------------------------ MODULE McpCredentialsProofs ------------------------
(***************************************************************************)
(* That a provider process keeps a working credential, that reservations    *)
(* are counted right, that no credential is left behind and that a session  *)
(* which serves the thread knows its credential, for any number of openers, *)
(* sessions, credentials and disturbances.                                  *)
(*                                                                         *)
(* The registry never has two credentials of the thread: it holds the       *)
(* slot's or none. The invariant says in whose hands that one is.           *)
(***************************************************************************)
EXTENDS McpCredentials, FiniteSetTheorems, TLAPS

OpenerRecord == [at : Busy \cup {"idle"}, target : Session \cup {None},
                 way : {"start", "attach"}, held : Credential \cup {None},
                 minted : BOOLEAN, conf : Credential \cup {None}]
EntryRecord == [live : BOOLEAN, attached : BOOLEAN,
                cred : Credential \cup {None}, baked : Credential \cup {None}]

\* The parts of TypeOK.
OpenerOK == opener \in [Opener -> OpenerRecord]
EntryOK == entry \in [Session -> EntryRecord]
RegistryOK ==
    /\ issued \in 0 .. MaxCredentials
    /\ valid \subseteq 1 .. issued
    /\ slot \in 0 .. issued
    /\ disturbances \in 0 .. MaxDisturbances
CountOK == reservations \in [Credential -> Nat]
RestOK ==
    /\ closing \subseteq [session : Session, cred : Credential \cup {None}]
    /\ retired \subseteq Credential /\ spared \subseteq Credential
    /\ givenBack \subseteq Credential
    /\ orphaned \subseteq Credential /\ cutShort \subseteq Session

\* In the prepare lock, and with a credential that is prepared and still reserved.
Preparing == {"resolving", "issuing"}
Holding == {"launching", "opening", "recording", "writing"}

\* What an opener has at each of its steps.
Staged(o) ==
    /\ o.at = "idle" => o = Idle
    /\ o.at # "idle" => o.target \in Session
    /\ o.at \in {"preparing", "issuing"} => o.held = None
    /\ o.at \in {"preparing", "resolving", "issuing"} => ~o.minted
    /\ o.at \in Holding \cup {"resolving", "persisting"} => o.held # None
    /\ o.at \in {"launching", "opening", "persisting"} => o.way = "start"
    /\ o.at \in {"recording", "writing"} => o.way = "attach"
StageInv == \A p \in Opener : Staged(opener[p]) /\ opener[p].held <= issued

\* One opener in the prepare lock, and one in the open lock of each session.
LockInv ==
    \A p, q \in Opener : p # q =>
        /\ ~(opener[p].at \in Preparing /\ opener[q].at \in Preparing)
        /\ opener[p].at # "idle" /\ opener[q].at # "idle" => opener[p].target # opener[q].target

\* An entry that is not live has nothing; one that is started is not live yet.
EntryInv ==
    /\ \A s \in Session : /\ ~entry[s].live => ~entry[s].attached /\ entry[s].cred = None
                          /\ entry[s].cred <= issued
    /\ \A p \in Opener :
          opener[p].at \in Busy \ {"persisting"} /\ opener[p].way = "start" =>
              ~entry[opener[p].target].live

\* The registry has the slot's credential or none, and none while one is issued.
RegistryInv ==
    /\ valid \subseteq {slot}
    /\ \A p \in Opener : /\ At(p, "issuing") => valid = {}
                         /\ At(p, "resolving") => slot \in {opener[p].held, None}

\* An opener's credential is reserved; the count is exact but for what was lost.
Holders(c) == {p \in Opener : Holds(p, c)}
CountInv ==
    \A c \in Credential :
        /\ Cardinality(Holders(c)) <= reservations[c]
        /\ c \notin orphaned => Cardinality(Holders(c)) = reservations[c]

\* A credential that is recorded, or prepared and still reserved, works.
Works(c) == c \in valid \cup retired \cup givenBack
WorkInv ==
    /\ \A s \in Session : entry[s].cred # None => Works(entry[s].cred)
    /\ \A p \in Opener : opener[p].at \in Holding => Works(opener[p].held)

\* A credential that works is recorded, or awaits a finalizer, or is on its way
\* from the opener that minted it to the entry; recording it displaces no other.
Owned(c) ==
    \/ RecordedElsewhere(c)
    \/ \E x \in closing : x.cred = c
    \/ \E p \in Opener :
          opener[p].at \in {"launching", "opening", "recording"}
              /\ opener[p].minted /\ opener[p].held = c
OwnerInv ==
    /\ \A c \in valid \ (spared \cup orphaned) : Owned(c)
    /\ \A p \in Opener : At(p, "recording") =>
          LET c == entry[opener[p].target].cred IN c \in valid => c = opener[p].held

\* A session that serves the thread knows its credential, or is being attached.
AttachInv ==
    \A s \in Session \ cutShort : entry[s].attached =>
        \/ entry[s].cred # None
        \/ \E p \in Opener :
              /\ opener[p].target = s /\ opener[p].way = "attach"
              /\ opener[p].at \in {"preparing", "resolving", "issuing", "recording"}

\* The inductive invariant.
IInv ==
    /\ OpenerOK /\ EntryOK /\ RegistryOK /\ CountOK /\ RestOK
    /\ StageInv /\ LockInv /\ EntryInv /\ RegistryInv
    /\ CountInv /\ WorkInv /\ OwnerInv /\ AttachInv

-----------------------------------------------------------------------------

\* Two updates of an opener's record that keep its type.
LEMMA Launched ==
  ASSUME NEW o \in OpenerRecord, NEW a \in Busy, NEW c \in Credential \cup {None}
  PROVE  [o EXCEPT !.at = a, !.conf = c] \in OpenerRecord
BY DEF OpenerRecord

LEMMA Issued ==
  ASSUME NEW o \in OpenerRecord, NEW a \in Busy, NEW c \in Credential
  PROVE  [o EXCEPT !.at = a, !.held = c, !.minted = TRUE] \in OpenerRecord
BY DEF OpenerRecord

\* Each step keeps the types of the openers.
LEMMA OpenersStayTyped ==
  ASSUME OpenerOK, RegistryOK, [Next]_vars
  PROVE  OpenerOK'
<1> USE CredentialsAssumption DEF Credential, None, registryVars, historyVars
<1>1. ASSUME NEW p \in Opener, NEW s \in Session, Open(p, s)
      PROVE  OpenerOK'
  BY <1>1 DEF Open, OpenerOK, OpenerRecord, RegistryOK, Idle, Busy
<1>2. ASSUME NEW p \in Opener, Prepare(p)
      PROVE  OpenerOK'
  BY <1>2 DEF Prepare, Go, OpenerOK, OpenerRecord, RegistryOK, Idle, Busy
<1>3. ASSUME NEW p \in Opener, Resolve(p)
      PROVE  OpenerOK'
  BY <1>3 DEF Resolve, Go, Prepared, OpenerOK, OpenerRecord, RegistryOK, Idle, Busy
<1>4. ASSUME NEW p \in Opener, Issue(p)
      PROVE  OpenerOK'
  <2> DEFINE r == [opener[p] EXCEPT !.at = Prepared(p), !.held = issued + 1, !.minted =
      TRUE]
  <2>1. opener' = [opener EXCEPT ![p] = r]
    BY <1>4 DEF Issue, OpenerOK, OpenerRecord
  <2>2. issued + 1 \in Credential /\ Prepared(p) \in Busy
    BY <1>4 DEF Issue, RegistryOK, Prepared, Busy
  <2>3. opener[p] \in OpenerRecord
    BY DEF OpenerOK
  <2>4. r \in OpenerRecord
    BY <2>2, <2>3, Issued
  <2> QED
    BY <2>1, <2>4 DEF OpenerOK
<1>5. ASSUME NEW p \in Opener, Launch(p)
      PROVE  OpenerOK'
  <2> DEFINE r == [opener[p] EXCEPT !.at = "opening", !.conf = slot]
  <2>1. opener' = [opener EXCEPT ![p] = r]
    BY <1>5 DEF Launch, OpenerOK, OpenerRecord
  <2>2. "opening" \in Busy /\ slot \in Credential \cup {None}
    BY DEF Busy, RegistryOK
  <2>3. opener[p] \in OpenerRecord
    BY DEF OpenerOK
  <2>4. r \in OpenerRecord
    BY <2>2, <2>3, Launched
  <2> QED
    BY <2>1, <2>4 DEF OpenerOK
<1>6. ASSUME NEW p \in Opener, OpenSucceeds(p)
      PROVE  OpenerOK'
  BY <1>6 DEF OpenSucceeds, Go, OpenerOK, OpenerRecord, RegistryOK, Idle, Busy
<1>7. ASSUME NEW p \in Opener, OpenFails(p)
      PROVE  OpenerOK'
  BY <1>7 DEF OpenFails, Leave, OpenerOK, OpenerRecord, RegistryOK, Idle, Busy
<1>8. ASSUME NEW p \in Opener, Return(p)
      PROVE  OpenerOK'
  BY <1>8 DEF Return, Leave, OpenerOK, OpenerRecord, RegistryOK, Idle, Busy
<1>9. ASSUME NEW p \in Opener, PersistFails(p)
      PROVE  OpenerOK'
  BY <1>9 DEF PersistFails, Leave, OpenerOK, OpenerRecord, RegistryOK, Idle, Busy
<1>10. ASSUME NEW p \in Opener, Record(p)
       PROVE  OpenerOK'
  <2>1. CASE opener' = [opener EXCEPT ![p].at = "writing"]
    BY <2>1 DEF OpenerOK, OpenerRecord, Busy
  <2>2. CASE opener' = [opener EXCEPT ![p] = Idle]
    BY <2>2 DEF OpenerOK, OpenerRecord, Idle
  <2> QED
    BY <1>10, <2>1, <2>2 DEF Record, Go, Leave
<1>11. ASSUME NEW p \in Opener, AttachSucceeds(p)
       PROVE  OpenerOK'
  BY <1>11 DEF AttachSucceeds, Leave, OpenerOK, OpenerRecord, RegistryOK, Idle, Busy
<1>12. ASSUME NEW p \in Opener, AttachFails(p)
       PROVE  OpenerOK'
  BY <1>12 DEF AttachFails, Leave, OpenerOK, OpenerRecord, RegistryOK, Idle, Busy
<1>13. ASSUME NEW p \in Opener, Interrupt(p)
       PROVE  OpenerOK'
  BY <1>13 DEF Interrupt, Leave, OpenerOK, OpenerRecord, RegistryOK, Idle, Busy
<1>14. ASSUME NEW s \in Session, OpenedForAnother(s)
       PROVE  OpenerOK'
  BY <1>14 DEF OpenedForAnother, OpenerOK, OpenerRecord, RegistryOK, Idle, Busy
<1>15. ASSUME NEW s \in Session, StartConversation(s)
       PROVE  OpenerOK'
  BY <1>15 DEF StartConversation, OpenerOK, OpenerRecord, RegistryOK, Idle, Busy
<1>16. ASSUME NEW s \in Session, Release(s)
       PROVE  OpenerOK'
  BY <1>16 DEF Release, OpenerOK, OpenerRecord, RegistryOK, Idle, Busy
<1>17. ASSUME NEW s \in Session, Detach(s)
       PROVE  OpenerOK'
  BY <1>17 DEF Detach, OpenerOK, OpenerRecord, RegistryOK, Idle, Busy
<1>18. ASSUME NEW s \in Session, DetachTerminally(s)
       PROVE  OpenerOK'
  BY <1>18 DEF DetachTerminally, OpenerOK, OpenerRecord, RegistryOK, Idle, Busy
<1>19. ASSUME NEW x \in closing, Finalize(x)
       PROVE  OpenerOK'
  BY <1>19 DEF Finalize, OpenerOK, OpenerRecord, RegistryOK, Idle, Busy
<1>20. ASSUME NEW c \in valid, Expire(c)
       PROVE  OpenerOK'
  BY <1>20 DEF Expire, OpenerOK, OpenerRecord, RegistryOK, Idle, Busy
<1>21. CASE UNCHANGED vars
  BY <1>21 DEF vars, OpenerOK, OpenerRecord, RegistryOK, Idle, Busy
<1> QED
  BY <1>1, <1>2, <1>3, <1>4, <1>5, <1>6, <1>7, <1>8, <1>9, <1>10, <1>11, <1>12, <1>13,
     <1>14, <1>15, <1>16, <1>17, <1>18, <1>19, <1>20, <1>21 DEF Next

\* Each step keeps the types of the live-session map.
LEMMA EntriesStayTyped ==
  ASSUME EntryOK, OpenerOK, RegistryOK, [Next]_vars
  PROVE  EntryOK'
<1> USE CredentialsAssumption DEF Credential, None, registryVars, historyVars
<1>1. ASSUME NEW p \in Opener, NEW s \in Session, Open(p, s)
      PROVE  EntryOK'
  BY <1>1 DEF Open, EntryOK, EntryRecord, OpenerOK, OpenerRecord, RegistryOK, Absent
<1>2. ASSUME NEW p \in Opener, Prepare(p)
      PROVE  EntryOK'
  BY <1>2 DEF Prepare, EntryOK, EntryRecord, OpenerOK, OpenerRecord, RegistryOK, Absent
<1>3. ASSUME NEW p \in Opener, Resolve(p)
      PROVE  EntryOK'
  BY <1>3 DEF Resolve, EntryOK, EntryRecord, OpenerOK, OpenerRecord, RegistryOK, Absent
<1>4. ASSUME NEW p \in Opener, Issue(p)
      PROVE  EntryOK'
  BY <1>4 DEF Issue, EntryOK, EntryRecord, OpenerOK, OpenerRecord, RegistryOK, Absent
<1>5. ASSUME NEW p \in Opener, Launch(p)
      PROVE  EntryOK'
  BY <1>5 DEF Launch, EntryOK, EntryRecord, OpenerOK, OpenerRecord, RegistryOK, Absent
<1>6. ASSUME NEW p \in Opener, OpenSucceeds(p)
      PROVE  EntryOK'
  BY <1>6 DEF OpenSucceeds, EntryOK, EntryRecord, OpenerOK, OpenerRecord, RegistryOK,
     Absent
<1>7. ASSUME NEW p \in Opener, OpenFails(p)
      PROVE  EntryOK'
  BY <1>7 DEF OpenFails, EntryOK, EntryRecord, OpenerOK, OpenerRecord, RegistryOK, Absent
<1>8. ASSUME NEW p \in Opener, Return(p)
      PROVE  EntryOK'
  BY <1>8 DEF Return, EntryOK, EntryRecord, OpenerOK, OpenerRecord, RegistryOK, Absent
<1>9. ASSUME NEW p \in Opener, PersistFails(p)
      PROVE  EntryOK'
  <2>1. \/ UNCHANGED entry
        \/ entry' = [entry EXCEPT ![opener[p].target] = Absent]
    BY <1>9 DEF PersistFails, Remove
  <2>2. CASE entry' = [entry EXCEPT ![opener[p].target] = Absent]
    BY <2>2 DEF EntryOK, EntryRecord, Absent
  <2> QED
    BY <2>1, <2>2 DEF EntryOK
<1>10. ASSUME NEW p \in Opener, Record(p)
       PROVE  EntryOK'
  BY <1>10 DEF Record, EntryOK, EntryRecord, OpenerOK, OpenerRecord, RegistryOK, Absent
<1>11. ASSUME NEW p \in Opener, AttachSucceeds(p)
       PROVE  EntryOK'
  BY <1>11 DEF AttachSucceeds, EntryOK, EntryRecord, OpenerOK, OpenerRecord, RegistryOK,
     Absent
<1>12. ASSUME NEW p \in Opener, AttachFails(p)
       PROVE  EntryOK'
  <2>1. entry' = [entry EXCEPT ![opener[p].target].attached = FALSE]
    BY <1>12 DEF AttachFails
  <2> QED
    BY <2>1 DEF EntryOK, EntryRecord
<1>13. ASSUME NEW p \in Opener, Interrupt(p)
       PROVE  EntryOK'
  BY <1>13 DEF Interrupt, EntryOK, EntryRecord, OpenerOK, OpenerRecord, RegistryOK, Absent
<1>14. ASSUME NEW s \in Session, OpenedForAnother(s)
       PROVE  EntryOK'
  BY <1>14 DEF OpenedForAnother, EntryOK, EntryRecord, OpenerOK, OpenerRecord, RegistryOK,
     Absent
<1>15. ASSUME NEW s \in Session, StartConversation(s)
       PROVE  EntryOK'
  BY <1>15 DEF StartConversation, EntryOK, EntryRecord, OpenerOK, OpenerRecord,
     RegistryOK, Absent
<1>16. ASSUME NEW s \in Session, Release(s)
       PROVE  EntryOK'
  BY <1>16 DEF Release, Remove, EntryOK, EntryRecord, OpenerOK, OpenerRecord, RegistryOK,
     Absent
<1>17. ASSUME NEW s \in Session, Detach(s)
       PROVE  EntryOK'
  <2>1. \/ entry' = [entry EXCEPT ![s].attached = FALSE]
        \/ entry' = [entry EXCEPT ![s] = Absent]
    BY <1>17 DEF Detach, Remove
  <2>2. CASE entry' = [entry EXCEPT ![s].attached = FALSE]
    BY <2>2 DEF EntryOK, EntryRecord
  <2>3. CASE entry' = [entry EXCEPT ![s] = Absent]
    BY <2>3 DEF EntryOK, EntryRecord, Absent
  <2> QED
    BY <2>1, <2>2, <2>3
<1>18. ASSUME NEW s \in Session, DetachTerminally(s)
       PROVE  EntryOK'
  <2>1. \/ UNCHANGED entry
        \/ entry' = [entry EXCEPT ![s].attached = FALSE, ![s].cred = None]
        \/ entry' = [entry EXCEPT ![s] = Absent]
    BY <1>18 DEF DetachTerminally
  <2>2. CASE entry' = [entry EXCEPT ![s].attached = FALSE, ![s].cred = None]
    BY <2>2 DEF EntryOK, EntryRecord
  <2>3. CASE entry' = [entry EXCEPT ![s] = Absent]
    BY <2>3 DEF EntryOK, EntryRecord, Absent
  <2> QED
    BY <2>1, <2>2, <2>3 DEF EntryOK
<1>19. ASSUME NEW x \in closing, Finalize(x)
       PROVE  EntryOK'
  BY <1>19 DEF Finalize, EntryOK, EntryRecord, OpenerOK, OpenerRecord, RegistryOK, Absent
<1>20. ASSUME NEW c \in valid, Expire(c)
       PROVE  EntryOK'
  BY <1>20 DEF Expire, EntryOK, EntryRecord, OpenerOK, OpenerRecord, RegistryOK, Absent
<1>21. CASE UNCHANGED vars
  BY <1>21 DEF vars, EntryOK, EntryRecord, OpenerOK, OpenerRecord, RegistryOK, Absent
<1> QED
  BY <1>1, <1>2, <1>3, <1>4, <1>5, <1>6, <1>7, <1>8, <1>9, <1>10, <1>11, <1>12, <1>13,
     <1>14, <1>15, <1>16, <1>17, <1>18, <1>19, <1>20, <1>21 DEF Next

\* Each step keeps the types of the registry and of the slot.
LEMMA RegistryStaysTyped ==
  ASSUME OpenerOK, RegistryOK, [Next]_vars
  PROVE  RegistryOK'
<1> USE CredentialsAssumption DEF Credential, None, registryVars, historyVars
<1>1. ASSUME NEW p \in Opener, NEW s \in Session, Open(p, s)
      PROVE  RegistryOK'
  BY <1>1 DEF Open, RegistryOK
<1>2. ASSUME NEW p \in Opener, Prepare(p)
      PROVE  RegistryOK'
  BY <1>2 DEF Prepare, RegistryOK
<1>3. ASSUME NEW p \in Opener, Resolve(p)
      PROVE  RegistryOK'
  BY <1>3 DEF Resolve, RegistryOK
<1>4. ASSUME NEW p \in Opener, Issue(p)
      PROVE  RegistryOK'
  BY <1>4 DEF Issue, RegistryOK
<1>5. ASSUME NEW p \in Opener, Launch(p)
      PROVE  RegistryOK'
  BY <1>5 DEF Launch, RegistryOK
<1>6. ASSUME NEW p \in Opener, OpenSucceeds(p)
      PROVE  RegistryOK'
  BY <1>6 DEF OpenSucceeds, RegistryOK
<1>7. ASSUME NEW p \in Opener, OpenFails(p)
      PROVE  RegistryOK'
  <2>1. valid' \subseteq valid /\ slot' \in {slot, None} /\ UNCHANGED issued
    BY <1>7 DEF OpenFails, GiveBack, Clear
  <2>2. disturbances' \in 0 .. MaxDisturbances
    BY <1>7 DEF OpenFails, Disturb, RegistryOK
  <2> QED
    BY <2>1, <2>2 DEF RegistryOK
<1>8. ASSUME NEW p \in Opener, Return(p)
      PROVE  RegistryOK'
  BY <1>8 DEF Return, RegistryOK
<1>9. ASSUME NEW p \in Opener, PersistFails(p)
      PROVE  RegistryOK'
  BY <1>9 DEF PersistFails, Disturb, RegistryOK
<1>10. ASSUME NEW p \in Opener, Record(p)
       PROVE  RegistryOK'
  BY <1>10 DEF Record, RegistryOK
<1>11. ASSUME NEW p \in Opener, AttachSucceeds(p)
       PROVE  RegistryOK'
  BY <1>11 DEF AttachSucceeds, RegistryOK
<1>12. ASSUME NEW p \in Opener, AttachFails(p)
       PROVE  RegistryOK'
  <2>1. valid' \subseteq valid /\ slot' \in {slot, None} /\ UNCHANGED issued
    BY <1>12 DEF AttachFails, GiveBack, Clear
  <2>2. disturbances' \in 0 .. MaxDisturbances
    BY <1>12 DEF AttachFails, Disturb, RegistryOK
  <2> QED
    BY <2>1, <2>2 DEF RegistryOK
<1>13. ASSUME NEW p \in Opener, Interrupt(p)
       PROVE  RegistryOK'
  BY <1>13 DEF Interrupt, Disturb, RegistryOK
<1>14. ASSUME NEW s \in Session, OpenedForAnother(s)
       PROVE  RegistryOK'
  BY <1>14 DEF OpenedForAnother, RegistryOK
<1>15. ASSUME NEW s \in Session, StartConversation(s)
       PROVE  RegistryOK'
  BY <1>15 DEF StartConversation, RegistryOK
<1>16. ASSUME NEW s \in Session, Release(s)
       PROVE  RegistryOK'
  BY <1>16 DEF Release, RegistryOK
<1>17. ASSUME NEW s \in Session, Detach(s)
       PROVE  RegistryOK'
  BY <1>17 DEF Detach, RegistryOK
<1>18. ASSUME NEW s \in Session, DetachTerminally(s)
       PROVE  RegistryOK'
  BY <1>18 DEF DetachTerminally, Disturb, ClearThread, RegistryOK
<1>19. ASSUME NEW x \in closing, Finalize(x)
       PROVE  RegistryOK'
  <2>1. valid' \subseteq valid /\ slot' \in {slot, None} /\ UNCHANGED <<issued,
      disturbances>>
    BY <1>19 DEF Finalize, Clear
  <2> QED
    BY <2>1 DEF RegistryOK
<1>20. ASSUME NEW c \in valid, Expire(c)
       PROVE  RegistryOK'
  BY <1>20 DEF Expire, Disturb, RegistryOK
<1>21. CASE UNCHANGED vars
  BY <1>21 DEF vars, RegistryOK
<1> QED
  BY <1>1, <1>2, <1>3, <1>4, <1>5, <1>6, <1>7, <1>8, <1>9, <1>10, <1>11, <1>12, <1>13,
     <1>14, <1>15, <1>16, <1>17, <1>18, <1>19, <1>20, <1>21 DEF Next

\* Each step keeps the types of the reservations.
LEMMA CountsStayTyped ==
  ASSUME CountOK, OpenerOK, RegistryOK, [Next]_vars
  PROVE  CountOK'
<1> USE CredentialsAssumption DEF Credential, None, registryVars, historyVars
<1>1. ASSUME NEW p \in Opener, NEW s \in Session, Open(p, s)
      PROVE  CountOK'
  BY <1>1 DEF Open, CountOK, OpenerOK, OpenerRecord, RegistryOK
<1>2. ASSUME NEW p \in Opener, Prepare(p)
      PROVE  CountOK'
  BY <1>2 DEF Prepare, Reserve, CountOK, OpenerOK, OpenerRecord, RegistryOK
<1>3. ASSUME NEW p \in Opener, Resolve(p)
      PROVE  CountOK'
  BY <1>3 DEF Resolve, Drop, CountOK, OpenerOK, OpenerRecord, RegistryOK
<1>4. ASSUME NEW p \in Opener, Issue(p)
      PROVE  CountOK'
  BY <1>4 DEF Issue, Reserve, CountOK, OpenerOK, OpenerRecord, RegistryOK
<1>5. ASSUME NEW p \in Opener, Launch(p)
      PROVE  CountOK'
  BY <1>5 DEF Launch, CountOK, OpenerOK, OpenerRecord, RegistryOK
<1>6. ASSUME NEW p \in Opener, OpenSucceeds(p)
      PROVE  CountOK'
  BY <1>6 DEF OpenSucceeds, Drop, CountOK, OpenerOK, OpenerRecord, RegistryOK
<1>7. ASSUME NEW p \in Opener, OpenFails(p)
      PROVE  CountOK'
  BY <1>7 DEF OpenFails, Drop, CountOK, OpenerOK, OpenerRecord, RegistryOK
<1>8. ASSUME NEW p \in Opener, Return(p)
      PROVE  CountOK'
  BY <1>8 DEF Return, CountOK, OpenerOK, OpenerRecord, RegistryOK
<1>9. ASSUME NEW p \in Opener, PersistFails(p)
      PROVE  CountOK'
  BY <1>9 DEF PersistFails, CountOK, OpenerOK, OpenerRecord, RegistryOK
<1>10. ASSUME NEW p \in Opener, Record(p)
       PROVE  CountOK'
  BY <1>10 DEF Record, Drop, CountOK, OpenerOK, OpenerRecord, RegistryOK
<1>11. ASSUME NEW p \in Opener, AttachSucceeds(p)
       PROVE  CountOK'
  BY <1>11 DEF AttachSucceeds, Drop, CountOK, OpenerOK, OpenerRecord, RegistryOK
<1>12. ASSUME NEW p \in Opener, AttachFails(p)
       PROVE  CountOK'
  BY <1>12 DEF AttachFails, Drop, CountOK, OpenerOK, OpenerRecord, RegistryOK
<1>13. ASSUME NEW p \in Opener, Interrupt(p)
       PROVE  CountOK'
  BY <1>13 DEF Interrupt, Drop, CountOK, OpenerOK, OpenerRecord, RegistryOK
<1>14. ASSUME NEW s \in Session, OpenedForAnother(s)
       PROVE  CountOK'
  BY <1>14 DEF OpenedForAnother, CountOK, OpenerOK, OpenerRecord, RegistryOK
<1>15. ASSUME NEW s \in Session, StartConversation(s)
       PROVE  CountOK'
  BY <1>15 DEF StartConversation, CountOK, OpenerOK, OpenerRecord, RegistryOK
<1>16. ASSUME NEW s \in Session, Release(s)
       PROVE  CountOK'
  BY <1>16 DEF Release, CountOK, OpenerOK, OpenerRecord, RegistryOK
<1>17. ASSUME NEW s \in Session, Detach(s)
       PROVE  CountOK'
  BY <1>17 DEF Detach, CountOK, OpenerOK, OpenerRecord, RegistryOK
<1>18. ASSUME NEW s \in Session, DetachTerminally(s)
       PROVE  CountOK'
  BY <1>18 DEF DetachTerminally, CountOK, OpenerOK, OpenerRecord, RegistryOK
<1>19. ASSUME NEW x \in closing, Finalize(x)
       PROVE  CountOK'
  BY <1>19 DEF Finalize, CountOK, OpenerOK, OpenerRecord, RegistryOK
<1>20. ASSUME NEW c \in valid, Expire(c)
       PROVE  CountOK'
  BY <1>20 DEF Expire, CountOK, OpenerOK, OpenerRecord, RegistryOK
<1>21. CASE UNCHANGED vars
  BY <1>21 DEF vars, CountOK, OpenerOK, OpenerRecord, RegistryOK
<1> QED
  BY <1>1, <1>2, <1>3, <1>4, <1>5, <1>6, <1>7, <1>8, <1>9, <1>10, <1>11, <1>12, <1>13,
     <1>14, <1>15, <1>16, <1>17, <1>18, <1>19, <1>20, <1>21 DEF Next

\* Each step keeps the types of the finalizers that are due and of the history.
LEMMA RestStaysTyped ==
  ASSUME OpenerOK, EntryOK, RegistryOK, StageInv, RestOK, [Next]_vars
  PROVE  RestOK'
<1> USE CredentialsAssumption DEF Credential, None, registryVars, historyVars
<1>1. ASSUME NEW p \in Opener, NEW s \in Session, Open(p, s)
      PROVE  RestOK'
  BY <1>1 DEF Open, At, RestOK, OpenerOK, OpenerRecord, EntryOK, EntryRecord, RegistryOK,
     StageInv, Staged, Holding
<1>2. ASSUME NEW p \in Opener, Prepare(p)
      PROVE  RestOK'
  BY <1>2 DEF Prepare, At, RestOK, OpenerOK, OpenerRecord, EntryOK, EntryRecord,
     RegistryOK, StageInv, Staged, Holding
<1>3. ASSUME NEW p \in Opener, Resolve(p)
      PROVE  RestOK'
  BY <1>3 DEF Resolve, At, RestOK, OpenerOK, OpenerRecord, EntryOK, EntryRecord,
     RegistryOK, StageInv, Staged, Holding
<1>4. ASSUME NEW p \in Opener, Issue(p)
      PROVE  RestOK'
  BY <1>4 DEF Issue, At, RestOK, OpenerOK, OpenerRecord, EntryOK, EntryRecord, RegistryOK,
     StageInv, Staged, Holding
<1>5. ASSUME NEW p \in Opener, Launch(p)
      PROVE  RestOK'
  BY <1>5 DEF Launch, At, RestOK, OpenerOK, OpenerRecord, EntryOK, EntryRecord,
     RegistryOK, StageInv, Staged, Holding
<1>6. ASSUME NEW p \in Opener, OpenSucceeds(p)
      PROVE  RestOK'
  BY <1>6 DEF OpenSucceeds, At, RestOK, OpenerOK, OpenerRecord, EntryOK, EntryRecord,
     RegistryOK, StageInv, Staged, Holding
<1>7. ASSUME NEW p \in Opener, OpenFails(p)
      PROVE  RestOK'
  <2>1. opener[p].held \in Credential
    BY <1>7 DEF OpenFails, At, StageInv, Staged, Holding, OpenerOK, OpenerRecord
  <2>2. givenBack' \subseteq givenBack \cup {opener[p].held}
    BY <1>7 DEF OpenFails, GiveBack
  <2> QED
    BY <1>7, <2>1, <2>2 DEF OpenFails, RestOK
<1>8. ASSUME NEW p \in Opener, Return(p)
      PROVE  RestOK'
  BY <1>8 DEF Return, At, RestOK, OpenerOK, OpenerRecord, EntryOK, EntryRecord,
     RegistryOK, StageInv, Staged, Holding
<1>9. ASSUME NEW p \in Opener, PersistFails(p)
      PROVE  RestOK'
  <2>1. opener[p].target \in Session
    BY <1>9 DEF PersistFails, At, StageInv, Staged
  <2>2. \/ UNCHANGED closing
        \/ closing' = closing \cup
               {[session |-> opener[p].target, cred |-> entry[opener[p].target].cred]}
    BY <1>9 DEF PersistFails, Remove
  <2>3. UNCHANGED <<retired, givenBack, spared, orphaned, cutShort>>
    BY <1>9 DEF PersistFails
  <2> QED
    BY <2>1, <2>2, <2>3 DEF RestOK, EntryOK, EntryRecord
<1>10. ASSUME NEW p \in Opener, Record(p)
       PROVE  RestOK'
  <2>1. opener[p].held \in Credential
    BY <1>10 DEF Record, At, StageInv, Staged, Holding, OpenerOK, OpenerRecord
  <2>2. \/ UNCHANGED orphaned
        \/ orphaned' = orphaned \cup {opener[p].held}
    BY <1>10 DEF Record
  <2> QED
    BY <1>10, <2>1, <2>2 DEF Record, RestOK
<1>11. ASSUME NEW p \in Opener, AttachSucceeds(p)
       PROVE  RestOK'
  BY <1>11 DEF AttachSucceeds, At, RestOK, OpenerOK, OpenerRecord, EntryOK, EntryRecord,
     RegistryOK, StageInv, Staged, Holding
<1>12. ASSUME NEW p \in Opener, AttachFails(p)
       PROVE  RestOK'
  BY <1>12 DEF AttachFails, At, GiveBack, RestOK, OpenerOK, OpenerRecord, EntryOK,
     EntryRecord, RegistryOK, StageInv, Staged, Holding
<1>13. ASSUME NEW p \in Opener, Interrupt(p)
       PROVE  RestOK'
  <2>1. opener[p].target \in Session
    BY <1>13 DEF Interrupt, StageInv, Staged, Busy
  <2>2. orphaned' \subseteq orphaned \cup (IF opener[p].held = None THEN {} ELSE
      {opener[p].held})
    BY <1>13 DEF Interrupt
  <2>3. cutShort' \subseteq cutShort \cup {opener[p].target}
    BY <1>13 DEF Interrupt
  <2> QED
    BY <1>13, <2>1, <2>2, <2>3 DEF Interrupt, RestOK, OpenerOK, OpenerRecord
<1>14. ASSUME NEW s \in Session, OpenedForAnother(s)
       PROVE  RestOK'
  BY <1>14 DEF OpenedForAnother, RestOK, OpenerOK, OpenerRecord, EntryOK, EntryRecord,
     RegistryOK, StageInv, Staged, Holding
<1>15. ASSUME NEW s \in Session, StartConversation(s)
       PROVE  RestOK'
  BY <1>15 DEF StartConversation, RestOK, OpenerOK, OpenerRecord, EntryOK, EntryRecord,
     RegistryOK, StageInv, Staged, Holding
<1>16. ASSUME NEW s \in Session, Release(s)
       PROVE  RestOK'
  BY <1>16 DEF Release, Remove, RestOK, OpenerOK, OpenerRecord, EntryOK, EntryRecord,
     RegistryOK, StageInv, Staged, Holding
<1>17. ASSUME NEW s \in Session, Detach(s)
       PROVE  RestOK'
  BY <1>17 DEF Detach, Remove, RestOK, OpenerOK, OpenerRecord, EntryOK, EntryRecord,
     RegistryOK, StageInv, Staged, Holding
<1>18. ASSUME NEW s \in Session, DetachTerminally(s)
       PROVE  RestOK'
  BY <1>18 DEF DetachTerminally, RestOK, OpenerOK, OpenerRecord, EntryOK, EntryRecord,
     RegistryOK, StageInv, Staged, Holding
<1>19. ASSUME NEW x \in closing, Finalize(x)
       PROVE  RestOK'
  <2>1. x.cred \in Credential \cup {None}
    BY <1>19 DEF RestOK
  <2>2. spared' \subseteq spared \cup (IF x.cred = None THEN {} ELSE {x.cred})
    BY <1>19 DEF Finalize
  <2> QED
    BY <1>19, <2>1, <2>2 DEF Finalize, RestOK
<1>20. ASSUME NEW c \in valid, Expire(c)
       PROVE  RestOK'
  BY <1>20 DEF Expire, RestOK, OpenerOK, OpenerRecord, EntryOK, EntryRecord, RegistryOK,
     StageInv, Staged, Holding
<1>21. CASE UNCHANGED vars
  BY <1>21 DEF vars, RestOK, OpenerOK, OpenerRecord, EntryOK, EntryRecord, RegistryOK,
     StageInv, Staged, Holding
<1> QED
  BY <1>1, <1>2, <1>3, <1>4, <1>5, <1>6, <1>7, <1>8, <1>9, <1>10, <1>11, <1>12, <1>13,
     <1>14, <1>15, <1>16, <1>17, <1>18, <1>19, <1>20, <1>21 DEF Next

\* Each step leaves every opener with what its next step takes for granted.
LEMMA StagesStayRight ==
  ASSUME OpenerOK, RegistryOK, StageInv, [Next]_vars
  PROVE  StageInv'
<1> USE CredentialsAssumption DEF Credential, None, registryVars, historyVars
<1>1. ASSUME NEW p \in Opener, NEW s \in Session, Open(p, s)
      PROVE  StageInv'
  BY <1>1 DEF Open, At, OpenerOK, OpenerRecord, RegistryOK, StageInv, Staged, Holding,
     Idle, Busy
<1>2. ASSUME NEW p \in Opener, Prepare(p)
      PROVE  StageInv'
  <2>1. \A q \in Opener \ {p} : opener'[q] = opener[q]
    BY <1>2 DEF Prepare, Go, OpenerOK
  <2>2. CASE slot # None
    <3>1. opener' = [opener EXCEPT ![p].at = "resolving", ![p].held = slot]
      BY <1>2, <2>2 DEF Prepare
    <3> QED
      BY <1>2, <2>1, <2>2, <3>1 DEF Prepare, At, OpenerOK, OpenerRecord, RegistryOK,
         StageInv, Staged, Holding
  <2>3. CASE slot = None
    <3>1. opener' = [opener EXCEPT ![p].at = "issuing"]
      BY <1>2, <2>3 DEF Prepare, Go
    <3> QED
      BY <1>2, <2>1, <3>1 DEF Prepare, At, OpenerOK, OpenerRecord, StageInv, Staged,
         Holding
  <2> QED
    BY <2>2, <2>3
<1>3. ASSUME NEW p \in Opener, Resolve(p)
      PROVE  StageInv'
  <2>1. \A q \in Opener \ {p} : opener'[q] = opener[q]
    BY <1>3 DEF Resolve, Go, OpenerOK
  <2>2. CASE opener[p].held \in valid
    <3>1. opener' = [opener EXCEPT ![p].at = Prepared(p)]
      BY <1>3, <2>2 DEF Resolve, Go
    <3> QED
      BY <1>3, <2>1, <3>1 DEF Resolve, At, Prepared, OpenerOK, OpenerRecord, StageInv,
         Staged, Holding
  <2>3. CASE opener[p].held \notin valid
    <3>1. opener' = [opener EXCEPT ![p].at = "issuing", ![p].held = None]
      BY <1>3, <2>3 DEF Resolve
    <3> QED
      BY <1>3, <2>1, <3>1 DEF Resolve, At, OpenerOK, OpenerRecord, RegistryOK, StageInv,
         Staged, Holding
  <2> QED
    BY <2>2, <2>3
<1>4. ASSUME NEW p \in Opener, Issue(p)
      PROVE  StageInv'
  BY <1>4 DEF Issue, At, Prepared, OpenerOK, OpenerRecord, RegistryOK, StageInv, Staged,
     Holding, Idle, Busy
<1>5. ASSUME NEW p \in Opener, Launch(p)
      PROVE  StageInv'
  <2>1. \A q \in Opener \ {p} : opener'[q] = opener[q]
    BY <1>5 DEF Launch, OpenerOK
  <2>2. opener' = [opener EXCEPT ![p].at = "opening", ![p].conf = slot]
    BY <1>5 DEF Launch
  <2> QED
    BY <1>5, <2>1, <2>2 DEF Launch, At, OpenerOK, OpenerRecord, StageInv, Staged, Holding
<1>6. ASSUME NEW p \in Opener, OpenSucceeds(p)
      PROVE  StageInv'
  BY <1>6 DEF OpenSucceeds, At, Go, OpenerOK, OpenerRecord, RegistryOK, StageInv, Staged,
     Holding, Idle, Busy
<1>7. ASSUME NEW p \in Opener, OpenFails(p)
      PROVE  StageInv'
  BY <1>7 DEF OpenFails, At, GiveBack, Clear, Leave, OpenerOK, OpenerRecord, RegistryOK,
     StageInv, Staged, Holding, Idle, Busy
<1>8. ASSUME NEW p \in Opener, Return(p)
      PROVE  StageInv'
  BY <1>8 DEF Return, At, Leave, OpenerOK, OpenerRecord, RegistryOK, StageInv, Staged,
     Holding, Idle, Busy
<1>9. ASSUME NEW p \in Opener, PersistFails(p)
      PROVE  StageInv'
  BY <1>9 DEF PersistFails, At, Leave, OpenerOK, OpenerRecord, RegistryOK, StageInv,
     Staged, Holding, Idle, Busy
<1>10. ASSUME NEW p \in Opener, Record(p)
       PROVE  StageInv'
  <2>1. CASE opener' = [opener EXCEPT ![p].at = "writing"]
    BY <1>10, <2>1 DEF Record, At, OpenerOK, OpenerRecord, StageInv, Staged, Holding
  <2>2. CASE opener' = [opener EXCEPT ![p] = Idle]
    BY <1>10, <2>2 DEF Record, OpenerOK, RegistryOK, StageInv, Staged, Idle, Holding
  <2> QED
    BY <1>10, <2>1, <2>2 DEF Record, Go, Leave
<1>11. ASSUME NEW p \in Opener, AttachSucceeds(p)
       PROVE  StageInv'
  BY <1>11 DEF AttachSucceeds, At, Leave, OpenerOK, OpenerRecord, RegistryOK, StageInv,
     Staged, Holding, Idle, Busy
<1>12. ASSUME NEW p \in Opener, AttachFails(p)
       PROVE  StageInv'
  BY <1>12 DEF AttachFails, At, GiveBack, Clear, Leave, OpenerOK, OpenerRecord,
     RegistryOK, StageInv, Staged, Holding, Idle, Busy
<1>13. ASSUME NEW p \in Opener, Interrupt(p)
       PROVE  StageInv'
  BY <1>13 DEF Interrupt, At, Leave, OpenerOK, OpenerRecord, RegistryOK, StageInv, Staged,
     Holding, Idle, Busy
<1>14. ASSUME NEW s \in Session, OpenedForAnother(s)
       PROVE  StageInv'
  BY <1>14 DEF OpenedForAnother, OpenerOK, OpenerRecord, RegistryOK, StageInv, Staged,
     Holding, Idle, Busy
<1>15. ASSUME NEW s \in Session, StartConversation(s)
       PROVE  StageInv'
  BY <1>15 DEF StartConversation, OpenerOK, OpenerRecord, RegistryOK, StageInv, Staged,
     Holding, Idle, Busy
<1>16. ASSUME NEW s \in Session, Release(s)
       PROVE  StageInv'
  BY <1>16 DEF Release, OpenerOK, OpenerRecord, RegistryOK, StageInv, Staged, Holding,
     Idle, Busy
<1>17. ASSUME NEW s \in Session, Detach(s)
       PROVE  StageInv'
  BY <1>17 DEF Detach, OpenerOK, OpenerRecord, RegistryOK, StageInv, Staged, Holding,
     Idle, Busy
<1>18. ASSUME NEW s \in Session, DetachTerminally(s)
       PROVE  StageInv'
  BY <1>18 DEF DetachTerminally, ClearThread, OpenerOK, OpenerRecord, RegistryOK,
     StageInv, Staged, Holding, Idle, Busy
<1>19. ASSUME NEW x \in closing, Finalize(x)
       PROVE  StageInv'
  BY <1>19 DEF Finalize, Clear, OpenerOK, OpenerRecord, RegistryOK, StageInv, Staged,
     Holding, Idle, Busy
<1>20. ASSUME NEW c \in valid, Expire(c)
       PROVE  StageInv'
  BY <1>20 DEF Expire, OpenerOK, OpenerRecord, RegistryOK, StageInv, Staged, Holding,
     Idle, Busy
<1>21. CASE UNCHANGED vars
  BY <1>21 DEF vars, OpenerOK, OpenerRecord, RegistryOK, StageInv, Staged, Holding, Idle,
     Busy
<1> QED
  BY <1>1, <1>2, <1>3, <1>4, <1>5, <1>6, <1>7, <1>8, <1>9, <1>10, <1>11, <1>12, <1>13,
     <1>14, <1>15, <1>16, <1>17, <1>18, <1>19, <1>20, <1>21 DEF Next

\* Each step keeps the locks exclusive.
LEMMA LocksStayExclusive ==
  ASSUME OpenerOK, StageInv, LockInv, [Next]_vars
  PROVE  LockInv'
<1> USE CredentialsAssumption DEF Credential, None, registryVars, historyVars
<1>1. ASSUME NEW p \in Opener, NEW s \in Session, Open(p, s)
      PROVE  LockInv'
  BY <1>1 DEF Open, At, OpenLockFree, OpenerOK, OpenerRecord, StageInv, Staged, LockInv,
     Preparing, Idle, Busy, PrepareLockFree
<1>2. ASSUME NEW p \in Opener, Prepare(p)
      PROVE  LockInv'
  BY <1>2 DEF Prepare, At, PrepareLockFree, Go, OpenerOK, OpenerRecord, StageInv, Staged,
     LockInv, Preparing, Idle, Busy, OpenLockFree
<1>3. ASSUME NEW p \in Opener, Resolve(p)
      PROVE  LockInv'
  BY <1>3 DEF Resolve, At, Go, Prepared, OpenerOK, OpenerRecord, StageInv, Staged,
     LockInv, Preparing, Idle, Busy, OpenLockFree, PrepareLockFree
<1>4. ASSUME NEW p \in Opener, Issue(p)
      PROVE  LockInv'
  BY <1>4 DEF Issue, At, Prepared, OpenerOK, OpenerRecord, StageInv, Staged, LockInv,
     Preparing, Idle, Busy, OpenLockFree, PrepareLockFree
<1>5. ASSUME NEW p \in Opener, Launch(p)
      PROVE  LockInv'
  BY <1>5 DEF Launch, At, OpenerOK, OpenerRecord, StageInv, Staged, LockInv, Preparing,
     Idle, Busy, OpenLockFree, PrepareLockFree
<1>6. ASSUME NEW p \in Opener, OpenSucceeds(p)
      PROVE  LockInv'
  BY <1>6 DEF OpenSucceeds, At, Go, OpenerOK, OpenerRecord, StageInv, Staged, LockInv,
     Preparing, Idle, Busy, OpenLockFree, PrepareLockFree
<1>7. ASSUME NEW p \in Opener, OpenFails(p)
      PROVE  LockInv'
  BY <1>7 DEF OpenFails, At, Leave, OpenerOK, OpenerRecord, StageInv, Staged, LockInv,
     Preparing, Idle, Busy, OpenLockFree, PrepareLockFree
<1>8. ASSUME NEW p \in Opener, Return(p)
      PROVE  LockInv'
  BY <1>8 DEF Return, At, Leave, OpenerOK, OpenerRecord, StageInv, Staged, LockInv,
     Preparing, Idle, Busy, OpenLockFree, PrepareLockFree
<1>9. ASSUME NEW p \in Opener, PersistFails(p)
      PROVE  LockInv'
  BY <1>9 DEF PersistFails, At, Leave, OpenerOK, OpenerRecord, StageInv, Staged, LockInv,
     Preparing, Idle, Busy, OpenLockFree, PrepareLockFree
<1>10. ASSUME NEW p \in Opener, Record(p)
       PROVE  LockInv'
  BY <1>10 DEF Record, At, Go, Leave, OpenerOK, OpenerRecord, StageInv, Staged, LockInv,
     Preparing, Idle, Busy, OpenLockFree, PrepareLockFree
<1>11. ASSUME NEW p \in Opener, AttachSucceeds(p)
       PROVE  LockInv'
  BY <1>11 DEF AttachSucceeds, At, Leave, OpenerOK, OpenerRecord, StageInv, Staged,
     LockInv, Preparing, Idle, Busy, OpenLockFree, PrepareLockFree
<1>12. ASSUME NEW p \in Opener, AttachFails(p)
       PROVE  LockInv'
  BY <1>12 DEF AttachFails, At, Leave, OpenerOK, OpenerRecord, StageInv, Staged, LockInv,
     Preparing, Idle, Busy, OpenLockFree, PrepareLockFree
<1>13. ASSUME NEW p \in Opener, Interrupt(p)
       PROVE  LockInv'
  BY <1>13 DEF Interrupt, At, Leave, OpenerOK, OpenerRecord, StageInv, Staged, LockInv,
     Preparing, Idle, Busy, OpenLockFree, PrepareLockFree
<1>14. ASSUME NEW s \in Session, OpenedForAnother(s)
       PROVE  LockInv'
  BY <1>14 DEF OpenedForAnother, OpenLockFree, OpenerOK, OpenerRecord, StageInv, Staged,
     LockInv, Preparing, Idle, Busy, PrepareLockFree
<1>15. ASSUME NEW s \in Session, StartConversation(s)
       PROVE  LockInv'
  BY <1>15 DEF StartConversation, OpenLockFree, OpenerOK, OpenerRecord, StageInv, Staged,
     LockInv, Preparing, Idle, Busy, PrepareLockFree
<1>16. ASSUME NEW s \in Session, Release(s)
       PROVE  LockInv'
  BY <1>16 DEF Release, OpenerOK, OpenerRecord, StageInv, Staged, LockInv, Preparing,
     Idle, Busy, OpenLockFree, PrepareLockFree
<1>17. ASSUME NEW s \in Session, Detach(s)
       PROVE  LockInv'
  BY <1>17 DEF Detach, OpenerOK, OpenerRecord, StageInv, Staged, LockInv, Preparing, Idle,
     Busy, OpenLockFree, PrepareLockFree
<1>18. ASSUME NEW s \in Session, DetachTerminally(s)
       PROVE  LockInv'
  BY <1>18 DEF DetachTerminally, OpenerOK, OpenerRecord, StageInv, Staged, LockInv,
     Preparing, Idle, Busy, OpenLockFree, PrepareLockFree
<1>19. ASSUME NEW x \in closing, Finalize(x)
       PROVE  LockInv'
  BY <1>19 DEF Finalize, OpenerOK, OpenerRecord, StageInv, Staged, LockInv, Preparing,
     Idle, Busy, OpenLockFree, PrepareLockFree
<1>20. ASSUME NEW c \in valid, Expire(c)
       PROVE  LockInv'
  BY <1>20 DEF Expire, OpenerOK, OpenerRecord, StageInv, Staged, LockInv, Preparing, Idle,
     Busy, OpenLockFree, PrepareLockFree
<1>21. CASE UNCHANGED vars
  BY <1>21 DEF vars, OpenerOK, OpenerRecord, StageInv, Staged, LockInv, Preparing, Idle,
     Busy, OpenLockFree, PrepareLockFree
<1> QED
  BY <1>1, <1>2, <1>3, <1>4, <1>5, <1>6, <1>7, <1>8, <1>9, <1>10, <1>11, <1>12, <1>13,
     <1>14, <1>15, <1>16, <1>17, <1>18, <1>19, <1>20, <1>21 DEF Next

\* Each step keeps entries that are not live empty, and starts only those.
LEMMA EntriesStayRight ==
  ASSUME OpenerOK, EntryOK, RegistryOK, StageInv, LockInv, EntryInv, [Next]_vars
  PROVE  EntryInv'
<1> USE CredentialsAssumption DEF Credential, None, registryVars, historyVars
<1>1. ASSUME NEW p \in Opener, NEW s \in Session, Open(p, s)
      PROVE  EntryInv'
  BY <1>1 DEF Open, At, OpenLockFree, OpenerOK, OpenerRecord, EntryOK, EntryRecord,
     RegistryOK, StageInv, Staged, LockInv, EntryInv, Holding, Busy, Idle, Absent
<1>2. ASSUME NEW p \in Opener, Prepare(p)
      PROVE  EntryInv'
  BY <1>2 DEF Prepare, At, Go, OpenerOK, OpenerRecord, EntryOK, EntryRecord, RegistryOK,
     StageInv, Staged, LockInv, EntryInv, Holding, Busy, Idle, Absent
<1>3. ASSUME NEW p \in Opener, Resolve(p)
      PROVE  EntryInv'
  BY <1>3 DEF Resolve, At, Go, Prepared, OpenerOK, OpenerRecord, EntryOK, EntryRecord,
     RegistryOK, StageInv, Staged, LockInv, EntryInv, Holding, Busy, Idle, Absent
<1>4. ASSUME NEW p \in Opener, Issue(p)
      PROVE  EntryInv'
  BY <1>4 DEF Issue, At, Prepared, OpenerOK, OpenerRecord, EntryOK, EntryRecord,
     RegistryOK, StageInv, Staged, LockInv, EntryInv, Holding, Busy, Idle, Absent
<1>5. ASSUME NEW p \in Opener, Launch(p)
      PROVE  EntryInv'
  BY <1>5 DEF Launch, At, OpenerOK, OpenerRecord, EntryOK, EntryRecord, RegistryOK,
     StageInv, Staged, LockInv, EntryInv, Holding, Busy, Idle, Absent
<1>6. ASSUME NEW p \in Opener, OpenSucceeds(p)
      PROVE  EntryInv'
  BY <1>6 DEF OpenSucceeds, At, Go, OpenerOK, OpenerRecord, EntryOK, EntryRecord,
     RegistryOK, StageInv, Staged, LockInv, EntryInv, Holding, Busy, Idle, Absent
<1>7. ASSUME NEW p \in Opener, OpenFails(p)
      PROVE  EntryInv'
  BY <1>7 DEF OpenFails, At, GiveBack, Clear, Leave, OpenerOK, OpenerRecord, EntryOK,
     EntryRecord, RegistryOK, StageInv, Staged, LockInv, EntryInv, Holding, Busy, Idle,
     Absent
<1>8. ASSUME NEW p \in Opener, Return(p)
      PROVE  EntryInv'
  BY <1>8 DEF Return, At, Leave, OpenerOK, OpenerRecord, EntryOK, EntryRecord, RegistryOK,
     StageInv, Staged, LockInv, EntryInv, Holding, Busy, Idle, Absent
<1>9. ASSUME NEW p \in Opener, PersistFails(p)
      PROVE  EntryInv'
  BY <1>9 DEF PersistFails, At, Remove, Leave, OpenerOK, OpenerRecord, EntryOK,
     EntryRecord, RegistryOK, StageInv, Staged, LockInv, EntryInv, Holding, Busy, Idle,
     Absent
<1>10. ASSUME NEW p \in Opener, Record(p)
       PROVE  EntryInv'
  BY <1>10 DEF Record, At, Go, Leave, OpenerOK, OpenerRecord, EntryOK, EntryRecord,
     RegistryOK, StageInv, Staged, LockInv, EntryInv, Holding, Busy, Idle, Absent
<1>11. ASSUME NEW p \in Opener, AttachSucceeds(p)
       PROVE  EntryInv'
  BY <1>11 DEF AttachSucceeds, At, Leave, OpenerOK, OpenerRecord, EntryOK, EntryRecord,
     RegistryOK, StageInv, Staged, LockInv, EntryInv, Holding, Busy, Idle, Absent
<1>12. ASSUME NEW p \in Opener, AttachFails(p)
       PROVE  EntryInv'
  BY <1>12 DEF AttachFails, At, GiveBack, Clear, Leave, OpenerOK, OpenerRecord, EntryOK,
     EntryRecord, RegistryOK, StageInv, Staged, LockInv, EntryInv, Holding, Busy, Idle,
     Absent
<1>13. ASSUME NEW p \in Opener, Interrupt(p)
       PROVE  EntryInv'
  BY <1>13 DEF Interrupt, At, Leave, OpenerOK, OpenerRecord, EntryOK, EntryRecord,
     RegistryOK, StageInv, Staged, LockInv, EntryInv, Holding, Busy, Idle, Absent
<1>14. ASSUME NEW s \in Session, OpenedForAnother(s)
       PROVE  EntryInv'
  BY <1>14 DEF OpenedForAnother, OpenLockFree, OpenerOK, OpenerRecord, EntryOK,
     EntryRecord, RegistryOK, StageInv, Staged, LockInv, EntryInv, Holding, Busy, Idle,
     Absent
<1>15. ASSUME NEW s \in Session, StartConversation(s)
       PROVE  EntryInv'
  BY <1>15 DEF StartConversation, OpenLockFree, OpenerOK, OpenerRecord, EntryOK,
     EntryRecord, RegistryOK, StageInv, Staged, LockInv, EntryInv, Holding, Busy, Idle,
     Absent
<1>16. ASSUME NEW s \in Session, Release(s)
       PROVE  EntryInv'
  BY <1>16 DEF Release, Remove, OpenerOK, OpenerRecord, EntryOK, EntryRecord, RegistryOK,
     StageInv, Staged, LockInv, EntryInv, Holding, Busy, Idle, Absent
<1>17. ASSUME NEW s \in Session, Detach(s)
       PROVE  EntryInv'
  BY <1>17 DEF Detach, Remove, OpenerOK, OpenerRecord, EntryOK, EntryRecord, RegistryOK,
     StageInv, Staged, LockInv, EntryInv, Holding, Busy, Idle, Absent
<1>18. ASSUME NEW s \in Session, DetachTerminally(s)
       PROVE  EntryInv'
  BY <1>18 DEF DetachTerminally, ClearThread, OpenerOK, OpenerRecord, EntryOK,
     EntryRecord, RegistryOK, StageInv, Staged, LockInv, EntryInv, Holding, Busy, Idle,
     Absent
<1>19. ASSUME NEW x \in closing, Finalize(x)
       PROVE  EntryInv'
  BY <1>19 DEF Finalize, Clear, OpenerOK, OpenerRecord, EntryOK, EntryRecord, RegistryOK,
     StageInv, Staged, LockInv, EntryInv, Holding, Busy, Idle, Absent
<1>20. ASSUME NEW c \in valid, Expire(c)
       PROVE  EntryInv'
  BY <1>20 DEF Expire, OpenerOK, OpenerRecord, EntryOK, EntryRecord, RegistryOK, StageInv,
     Staged, LockInv, EntryInv, Holding, Busy, Idle, Absent
<1>21. CASE UNCHANGED vars
  BY <1>21 DEF vars, OpenerOK, OpenerRecord, EntryOK, EntryRecord, RegistryOK, StageInv,
     Staged, LockInv, EntryInv, Holding, Busy, Idle, Absent
<1> QED
  BY <1>1, <1>2, <1>3, <1>4, <1>5, <1>6, <1>7, <1>8, <1>9, <1>10, <1>11, <1>12, <1>13,
     <1>14, <1>15, <1>16, <1>17, <1>18, <1>19, <1>20, <1>21 DEF Next

\* Each step leaves the registry with the credential of the slot or with none.
LEMMA OneCredentialAtATime ==
  ASSUME OpenerOK, RegistryOK, StageInv, LockInv, RegistryInv, [Next]_vars
  PROVE  RegistryInv'
<1> USE CredentialsAssumption DEF Credential, None, registryVars, historyVars
<1>1. ASSUME NEW p \in Opener, NEW s \in Session, Open(p, s)
      PROVE  RegistryInv'
  BY <1>1 DEF Open, At, OpenerOK, OpenerRecord, RegistryOK, StageInv, Staged, LockInv,
     RegistryInv, Holding, Preparing, Idle, Busy
<1>2. ASSUME NEW p \in Opener, Prepare(p)
      PROVE  RegistryInv'
  BY <1>2 DEF Prepare, At, PrepareLockFree, Go, OpenerOK, OpenerRecord, RegistryOK,
     StageInv, Staged, LockInv, RegistryInv, Holding, Preparing, Idle, Busy
<1>3. ASSUME NEW p \in Opener, Resolve(p)
      PROVE  RegistryInv'
  BY <1>3 DEF Resolve, At, Go, Prepared, OpenerOK, OpenerRecord, RegistryOK, StageInv,
     Staged, LockInv, RegistryInv, Holding, Preparing, Idle, Busy
<1>4. ASSUME NEW p \in Opener, Issue(p)
      PROVE  RegistryInv'
  BY <1>4 DEF Issue, At, Prepared, OpenerOK, OpenerRecord, RegistryOK, StageInv, Staged,
     LockInv, RegistryInv, Holding, Preparing, Idle, Busy
<1>5. ASSUME NEW p \in Opener, Launch(p)
      PROVE  RegistryInv'
  BY <1>5 DEF Launch, At, OpenerOK, OpenerRecord, RegistryOK, StageInv, Staged, LockInv,
     RegistryInv, Holding, Preparing, Idle, Busy
<1>6. ASSUME NEW p \in Opener, OpenSucceeds(p)
      PROVE  RegistryInv'
  BY <1>6 DEF OpenSucceeds, At, Go, OpenerOK, OpenerRecord, RegistryOK, StageInv, Staged,
     LockInv, RegistryInv, Holding, Preparing, Idle, Busy
<1>7. ASSUME NEW p \in Opener, OpenFails(p)
      PROVE  RegistryInv'
  BY <1>7 DEF OpenFails, At, GiveBack, Clear, Leave, OpenerOK, OpenerRecord, RegistryOK,
     StageInv, Staged, LockInv, RegistryInv, Holding, Preparing, Idle, Busy
<1>8. ASSUME NEW p \in Opener, Return(p)
      PROVE  RegistryInv'
  BY <1>8 DEF Return, At, Leave, OpenerOK, OpenerRecord, RegistryOK, StageInv, Staged,
     LockInv, RegistryInv, Holding, Preparing, Idle, Busy
<1>9. ASSUME NEW p \in Opener, PersistFails(p)
      PROVE  RegistryInv'
  BY <1>9 DEF PersistFails, At, Leave, OpenerOK, OpenerRecord, RegistryOK, StageInv,
     Staged, LockInv, RegistryInv, Holding, Preparing, Idle, Busy
<1>10. ASSUME NEW p \in Opener, Record(p)
       PROVE  RegistryInv'
  BY <1>10 DEF Record, At, Go, Leave, OpenerOK, OpenerRecord, RegistryOK, StageInv,
     Staged, LockInv, RegistryInv, Holding, Preparing, Idle, Busy
<1>11. ASSUME NEW p \in Opener, AttachSucceeds(p)
       PROVE  RegistryInv'
  BY <1>11 DEF AttachSucceeds, At, Leave, OpenerOK, OpenerRecord, RegistryOK, StageInv,
     Staged, LockInv, RegistryInv, Holding, Preparing, Idle, Busy
<1>12. ASSUME NEW p \in Opener, AttachFails(p)
       PROVE  RegistryInv'
  BY <1>12 DEF AttachFails, At, GiveBack, Clear, Leave, OpenerOK, OpenerRecord,
     RegistryOK, StageInv, Staged, LockInv, RegistryInv, Holding, Preparing, Idle, Busy
<1>13. ASSUME NEW p \in Opener, Interrupt(p)
       PROVE  RegistryInv'
  BY <1>13 DEF Interrupt, At, Leave, OpenerOK, OpenerRecord, RegistryOK, StageInv, Staged,
     LockInv, RegistryInv, Holding, Preparing, Idle, Busy
<1>14. ASSUME NEW s \in Session, OpenedForAnother(s)
       PROVE  RegistryInv'
  BY <1>14 DEF OpenedForAnother, At, OpenerOK, OpenerRecord, RegistryOK, StageInv, Staged,
     LockInv, RegistryInv, Holding, Preparing, Idle, Busy
<1>15. ASSUME NEW s \in Session, StartConversation(s)
       PROVE  RegistryInv'
  BY <1>15 DEF StartConversation, At, OpenerOK, OpenerRecord, RegistryOK, StageInv,
     Staged, LockInv, RegistryInv, Holding, Preparing, Idle, Busy
<1>16. ASSUME NEW s \in Session, Release(s)
       PROVE  RegistryInv'
  BY <1>16 DEF Release, At, OpenerOK, OpenerRecord, RegistryOK, StageInv, Staged, LockInv,
     RegistryInv, Holding, Preparing, Idle, Busy
<1>17. ASSUME NEW s \in Session, Detach(s)
       PROVE  RegistryInv'
  BY <1>17 DEF Detach, At, OpenerOK, OpenerRecord, RegistryOK, StageInv, Staged, LockInv,
     RegistryInv, Holding, Preparing, Idle, Busy
<1>18. ASSUME NEW s \in Session, DetachTerminally(s)
       PROVE  RegistryInv'
  BY <1>18 DEF DetachTerminally, ClearThread, At, OpenerOK, OpenerRecord, RegistryOK,
     StageInv, Staged, LockInv, RegistryInv, Holding, Preparing, Idle, Busy
<1>19. ASSUME NEW x \in closing, Finalize(x)
       PROVE  RegistryInv'
  BY <1>19 DEF Finalize, Clear, At, OpenerOK, OpenerRecord, RegistryOK, StageInv, Staged,
     LockInv, RegistryInv, Holding, Preparing, Idle, Busy
<1>20. ASSUME NEW c \in valid, Expire(c)
       PROVE  RegistryInv'
  BY <1>20 DEF Expire, At, OpenerOK, OpenerRecord, RegistryOK, StageInv, Staged, LockInv,
     RegistryInv, Holding, Preparing, Idle, Busy
<1>21. CASE UNCHANGED vars
  BY <1>21 DEF vars, At, OpenerOK, OpenerRecord, RegistryOK, StageInv, Staged, LockInv,
     RegistryInv, Holding, Preparing, Idle, Busy
<1> QED
  BY <1>1, <1>2, <1>3, <1>4, <1>5, <1>6, <1>7, <1>8, <1>9, <1>10, <1>11, <1>12, <1>13,
     <1>14, <1>15, <1>16, <1>17, <1>18, <1>19, <1>20, <1>21 DEF Next

\* What an opener holds between preparing and recording it is reserved.
LEMMA HeldIsReserved ==
  ASSUME IsFiniteSet(Opener), CountOK, CountInv,
         NEW p \in Opener, NEW c \in Credential, Holds(p, c)
  PROVE  Reserved(c)
<1>1. IsFiniteSet(Holders(c)) /\ p \in Holders(c)
  BY FS_Subset DEF Holders
<1>2. Cardinality(Holders(c)) \in Nat \ {0}
  BY <1>1, FS_CardinalityType, FS_EmptySet
<1> QED
  BY <1>2 DEF CountInv, CountOK, Reserved, None, Credential

\* Each step leaves the recorded and the held credentials working.
LEMMA CredentialsStayWorking ==
  ASSUME OpenerOK, EntryOK, RegistryOK, CountOK, StageInv, LockInv, EntryInv, RegistryInv,
      CountInv, WorkInv, [Next]_vars
  PROVE  WorkInv'
<1> USE CredentialsAssumption DEF Credential, None, registryVars, historyVars
<1>1. ASSUME NEW p \in Opener, NEW s \in Session, Open(p, s)
      PROVE  WorkInv'
  BY <1>1 DEF Open, At, OpenerOK, OpenerRecord, EntryOK, EntryRecord, RegistryOK,
     StageInv, Staged, EntryInv, RegistryInv, WorkInv, Works, Holding, Idle, Busy, Absent
<1>2. ASSUME NEW p \in Opener, Prepare(p)
      PROVE  WorkInv'
  BY <1>2 DEF Prepare, At, Go, OpenerOK, OpenerRecord, EntryOK, EntryRecord, RegistryOK,
     StageInv, Staged, EntryInv, RegistryInv, WorkInv, Works, Holding, Idle, Busy, Absent
<1>3. ASSUME NEW p \in Opener, Resolve(p)
      PROVE  WorkInv'
  BY <1>3 DEF Resolve, At, Go, Prepared, OpenerOK, OpenerRecord, EntryOK, EntryRecord,
     RegistryOK, StageInv, Staged, EntryInv, RegistryInv, WorkInv, Works, Holding, Idle,
     Busy, Absent
<1>4. ASSUME NEW p \in Opener, Issue(p)
      PROVE  WorkInv'
  BY <1>4 DEF Issue, At, Prepared, OpenerOK, OpenerRecord, EntryOK, EntryRecord,
     RegistryOK, StageInv, Staged, EntryInv, RegistryInv, WorkInv, Works, Holding, Idle,
     Busy, Absent
<1>5. ASSUME NEW p \in Opener, Launch(p)
      PROVE  WorkInv'
  BY <1>5 DEF Launch, At, OpenerOK, OpenerRecord, EntryOK, EntryRecord, RegistryOK,
     StageInv, Staged, EntryInv, RegistryInv, WorkInv, Works, Holding, Idle, Busy, Absent
<1>6. ASSUME NEW p \in Opener, OpenSucceeds(p)
      PROVE  WorkInv'
  BY <1>6 DEF OpenSucceeds, At, Go, OpenerOK, OpenerRecord, EntryOK, EntryRecord,
     RegistryOK, StageInv, Staged, EntryInv, RegistryInv, WorkInv, Works, Holding, Idle,
     Busy, Absent
<1>7. ASSUME NEW p \in Opener, OpenFails(p)
      PROVE  WorkInv'
  BY <1>7 DEF OpenFails, At, GiveBack, Clear, Leave, OpenerOK, OpenerRecord, EntryOK,
     EntryRecord, RegistryOK, StageInv, Staged, EntryInv, RegistryInv, WorkInv, Works,
     Holding, Idle, Busy, Absent
<1>8. ASSUME NEW p \in Opener, Return(p)
      PROVE  WorkInv'
  BY <1>8 DEF Return, At, Leave, OpenerOK, OpenerRecord, EntryOK, EntryRecord, RegistryOK,
     StageInv, Staged, EntryInv, RegistryInv, WorkInv, Works, Holding, Idle, Busy, Absent
<1>9. ASSUME NEW p \in Opener, PersistFails(p)
      PROVE  WorkInv'
  BY <1>9 DEF PersistFails, At, Remove, Leave, OpenerOK, OpenerRecord, EntryOK,
     EntryRecord, RegistryOK, StageInv, Staged, EntryInv, RegistryInv, WorkInv, Works,
     Holding, Idle, Busy, Absent
<1>10. ASSUME NEW p \in Opener, Record(p)
       PROVE  WorkInv'
  BY <1>10 DEF Record, At, Go, Leave, OpenerOK, OpenerRecord, EntryOK, EntryRecord,
     RegistryOK, StageInv, Staged, EntryInv, RegistryInv, WorkInv, Works, Holding, Idle,
     Busy, Absent
<1>11. ASSUME NEW p \in Opener, AttachSucceeds(p)
       PROVE  WorkInv'
  BY <1>11 DEF AttachSucceeds, At, Leave, OpenerOK, OpenerRecord, EntryOK, EntryRecord,
     RegistryOK, StageInv, Staged, EntryInv, RegistryInv, WorkInv, Works, Holding, Idle,
     Busy, Absent
<1>12. ASSUME NEW p \in Opener, AttachFails(p)
       PROVE  WorkInv'
  BY <1>12 DEF AttachFails, At, GiveBack, Clear, Leave, OpenerOK, OpenerRecord, EntryOK,
     EntryRecord, RegistryOK, StageInv, Staged, EntryInv, RegistryInv, WorkInv, Works,
     Holding, Idle, Busy, Absent
<1>13. ASSUME NEW p \in Opener, Interrupt(p)
       PROVE  WorkInv'
  BY <1>13 DEF Interrupt, At, Leave, OpenerOK, OpenerRecord, EntryOK, EntryRecord,
     RegistryOK, StageInv, Staged, EntryInv, RegistryInv, WorkInv, Works, Holding, Idle,
     Busy, Absent
<1>14. ASSUME NEW s \in Session, OpenedForAnother(s)
       PROVE  WorkInv'
  BY <1>14 DEF OpenedForAnother, OpenerOK, OpenerRecord, EntryOK, EntryRecord, RegistryOK,
     StageInv, Staged, EntryInv, RegistryInv, WorkInv, Works, At, Holding, Idle, Busy,
     Absent
<1>15. ASSUME NEW s \in Session, StartConversation(s)
       PROVE  WorkInv'
  BY <1>15 DEF StartConversation, OpenerOK, OpenerRecord, EntryOK, EntryRecord,
     RegistryOK, StageInv, Staged, EntryInv, RegistryInv, WorkInv, Works, At, Holding,
     Idle, Busy, Absent
<1>16. ASSUME NEW s \in Session, Release(s)
       PROVE  WorkInv'
  BY <1>16 DEF Release, Remove, OpenerOK, OpenerRecord, EntryOK, EntryRecord, RegistryOK,
     StageInv, Staged, EntryInv, RegistryInv, WorkInv, Works, At, Holding, Idle, Busy,
     Absent
<1>17. ASSUME NEW s \in Session, Detach(s)
       PROVE  WorkInv'
  BY <1>17 DEF Detach, Remove, OpenerOK, OpenerRecord, EntryOK, EntryRecord, RegistryOK,
     StageInv, Staged, EntryInv, RegistryInv, WorkInv, Works, At, Holding, Idle, Busy,
     Absent
<1>18. ASSUME NEW s \in Session, DetachTerminally(s)
       PROVE  WorkInv'
  BY <1>18 DEF DetachTerminally, ClearThread, OpenerOK, OpenerRecord, EntryOK,
     EntryRecord, RegistryOK, StageInv, Staged, EntryInv, RegistryInv, WorkInv, Works, At,
     Holding, Idle, Busy, Absent
<1>19. ASSUME NEW x \in closing, Finalize(x)
       PROVE  WorkInv'
  <2>1. UNCHANGED <<entry, opener, retired, givenBack>>
    BY <1>19 DEF Finalize
  <2>2. CASE UNCHANGED valid
    BY <2>1, <2>2 DEF WorkInv, Works
  <2>3. CASE ~UNCHANGED valid
    <3>1. x.cred # None /\ ~Reserved(x.cred) /\ ~RecordedElsewhere(x.cred) /\ valid' =
        valid \ {x.cred}
      BY <1>19, <2>3 DEF Finalize, Clear
    <3>2. \A s \in Session : entry[s].cred # x.cred
      BY <3>1 DEF RecordedElsewhere, EntryInv
    <3>3. \A p \in Opener : opener[p].at \in Holding => opener[p].held # x.cred
      <4>1. SUFFICES ASSUME NEW p \in Opener, opener[p].at \in Holding, opener[p].held =
          x.cred
                     PROVE  FALSE
        OBVIOUS
      <4>2. x.cred \in Credential /\ Holds(p, x.cred)
        BY <3>1, <4>1 DEF OpenerOK, OpenerRecord, Holds, Holding, Busy
      <4> QED
        BY <3>1, <4>2, HeldIsReserved
    <3> QED
      BY <2>1, <3>1, <3>2, <3>3 DEF WorkInv, Works
  <2> QED
    BY <2>2, <2>3
<1>20. ASSUME NEW c \in valid, Expire(c)
       PROVE  WorkInv'
  BY <1>20 DEF Expire, OpenerOK, OpenerRecord, EntryOK, EntryRecord, RegistryOK, StageInv,
     Staged, EntryInv, RegistryInv, WorkInv, Works, At, Holding, Idle, Busy, Absent
<1>21. CASE UNCHANGED vars
  BY <1>21 DEF vars, OpenerOK, OpenerRecord, EntryOK, EntryRecord, RegistryOK, StageInv,
     Staged, EntryInv, RegistryInv, WorkInv, Works, At, Holding, Idle, Busy, Absent
<1> QED
  BY <1>1, <1>2, <1>3, <1>4, <1>5, <1>6, <1>7, <1>8, <1>9, <1>10, <1>11, <1>12, <1>13,
     <1>14, <1>15, <1>16, <1>17, <1>18, <1>19, <1>20, <1>21 DEF Next

\* Each step leaves an attached session with a credential or with an attachment under way.
LEMMA AttachedStayConfigured ==
  ASSUME OpenerOK, EntryOK, StageInv, LockInv, EntryInv, AttachInv, [Next]_vars
  PROVE  AttachInv'
<1> USE CredentialsAssumption DEF Credential, None, registryVars, historyVars
<1>1. ASSUME NEW p \in Opener, NEW s \in Session, Open(p, s)
      PROVE  AttachInv'
  BY <1>1 DEF Open, At, OpenLockFree, OpenerOK, OpenerRecord, EntryOK, EntryRecord,
     StageInv, Staged, LockInv, EntryInv, AttachInv, Holding, Idle, Busy, Absent
<1>2. ASSUME NEW p \in Opener, Prepare(p)
      PROVE  AttachInv'
  BY <1>2 DEF Prepare, At, Go, OpenerOK, OpenerRecord, EntryOK, EntryRecord, StageInv,
     Staged, LockInv, EntryInv, AttachInv, Holding, Idle, Busy, Absent
<1>3. ASSUME NEW p \in Opener, Resolve(p)
      PROVE  AttachInv'
  <2>1. \A q \in Opener : opener'[q].target = opener[q].target /\ opener'[q].way =
      opener[q].way
    BY <1>3 DEF Resolve, Go, OpenerOK, OpenerRecord
  <2>2. \A q \in Opener \ {p} : opener'[q].at = opener[q].at
    BY <1>3 DEF Resolve, Go, OpenerOK, OpenerRecord
  <2>3. opener[p].way = "attach" => opener'[p].at \in {"issuing", "recording"}
    BY <1>3 DEF Resolve, Go, Prepared, OpenerOK, OpenerRecord
  <2> QED
    BY <1>3, <2>1, <2>2, <2>3 DEF Resolve, AttachInv
<1>4. ASSUME NEW p \in Opener, Issue(p)
      PROVE  AttachInv'
  BY <1>4 DEF Issue, At, Prepared, OpenerOK, OpenerRecord, EntryOK, EntryRecord, StageInv,
     Staged, LockInv, EntryInv, AttachInv, Holding, Idle, Busy, Absent
<1>5. ASSUME NEW p \in Opener, Launch(p)
      PROVE  AttachInv'
  BY <1>5 DEF Launch, At, OpenerOK, OpenerRecord, EntryOK, EntryRecord, StageInv, Staged,
     LockInv, EntryInv, AttachInv, Holding, Idle, Busy, Absent
<1>6. ASSUME NEW p \in Opener, OpenSucceeds(p)
      PROVE  AttachInv'
  BY <1>6 DEF OpenSucceeds, At, Go, OpenerOK, OpenerRecord, EntryOK, EntryRecord,
     StageInv, Staged, LockInv, EntryInv, AttachInv, Holding, Idle, Busy, Absent
<1>7. ASSUME NEW p \in Opener, OpenFails(p)
      PROVE  AttachInv'
  BY <1>7 DEF OpenFails, At, Leave, OpenerOK, OpenerRecord, EntryOK, EntryRecord,
     StageInv, Staged, LockInv, EntryInv, AttachInv, Holding, Idle, Busy, Absent
<1>8. ASSUME NEW p \in Opener, Return(p)
      PROVE  AttachInv'
  BY <1>8 DEF Return, At, Leave, OpenerOK, OpenerRecord, EntryOK, EntryRecord, StageInv,
     Staged, LockInv, EntryInv, AttachInv, Holding, Idle, Busy, Absent
<1>9. ASSUME NEW p \in Opener, PersistFails(p)
      PROVE  AttachInv'
  BY <1>9 DEF PersistFails, At, Remove, Leave, OpenerOK, OpenerRecord, EntryOK,
     EntryRecord, StageInv, Staged, LockInv, EntryInv, AttachInv, Holding, Idle, Busy,
     Absent
<1>10. ASSUME NEW p \in Opener, Record(p)
       PROVE  AttachInv'
  <2>1. \A q \in Opener \ {p} : opener'[q] = opener[q]
    BY <1>10 DEF Record, Go, Leave, OpenerOK
  <2>2. CASE entry[opener[p].target].live
    <3>1. entry' = [entry EXCEPT ![opener[p].target].cred = opener[p].held] /\ UNCHANGED
        cutShort
      BY <1>10, <2>2 DEF Record
    <3>2. opener[p].held # None
      BY <1>10 DEF Record, At, StageInv, Staged, Holding
    <3> QED
      BY <2>1, <3>1, <3>2 DEF AttachInv, EntryOK, EntryRecord
  <2>3. CASE ~entry[opener[p].target].live
    <3>1. UNCHANGED <<entry, cutShort>>
      BY <1>10, <2>3 DEF Record
    <3>2. \A s \in Session : entry[s].attached => s # opener[p].target
      BY <2>3 DEF EntryInv
    <3> QED
      BY <2>1, <3>1, <3>2 DEF AttachInv
  <2> QED
    BY <2>2, <2>3
<1>11. ASSUME NEW p \in Opener, AttachSucceeds(p)
       PROVE  AttachInv'
  BY <1>11 DEF AttachSucceeds, At, Leave, OpenerOK, OpenerRecord, EntryOK, EntryRecord,
     StageInv, Staged, LockInv, EntryInv, AttachInv, Holding, Idle, Busy, Absent
<1>12. ASSUME NEW p \in Opener, AttachFails(p)
       PROVE  AttachInv'
  BY <1>12 DEF AttachFails, At, Leave, OpenerOK, OpenerRecord, EntryOK, EntryRecord,
     StageInv, Staged, LockInv, EntryInv, AttachInv, Holding, Idle, Busy, Absent
<1>13. ASSUME NEW p \in Opener, Interrupt(p)
       PROVE  AttachInv'
  BY <1>13 DEF Interrupt, At, Leave, OpenerOK, OpenerRecord, EntryOK, EntryRecord,
     StageInv, Staged, LockInv, EntryInv, AttachInv, Holding, Idle, Busy, Absent
<1>14. ASSUME NEW s \in Session, OpenedForAnother(s)
       PROVE  AttachInv'
  BY <1>14 DEF OpenedForAnother, OpenLockFree, OpenerOK, OpenerRecord, EntryOK,
     EntryRecord, StageInv, Staged, LockInv, EntryInv, AttachInv, At, Holding, Idle, Busy,
     Absent
<1>15. ASSUME NEW s \in Session, StartConversation(s)
       PROVE  AttachInv'
  BY <1>15 DEF StartConversation, OpenLockFree, OpenerOK, OpenerRecord, EntryOK,
     EntryRecord, StageInv, Staged, LockInv, EntryInv, AttachInv, At, Holding, Idle, Busy,
     Absent
<1>16. ASSUME NEW s \in Session, Release(s)
       PROVE  AttachInv'
  BY <1>16 DEF Release, Remove, OpenerOK, OpenerRecord, EntryOK, EntryRecord, StageInv,
     Staged, LockInv, EntryInv, AttachInv, At, Holding, Idle, Busy, Absent
<1>17. ASSUME NEW s \in Session, Detach(s)
       PROVE  AttachInv'
  BY <1>17 DEF Detach, Remove, OpenerOK, OpenerRecord, EntryOK, EntryRecord, StageInv,
     Staged, LockInv, EntryInv, AttachInv, At, Holding, Idle, Busy, Absent
<1>18. ASSUME NEW s \in Session, DetachTerminally(s)
       PROVE  AttachInv'
  <2>1. \A t \in Session : entry'[t] = entry[t] \/ ~entry'[t].attached
    <3>1. CASE UNCHANGED entry
      BY <3>1
    <3>2. CASE entry' = [entry EXCEPT ![s].attached = FALSE, ![s].cred = None]
      BY <3>2 DEF EntryOK, EntryRecord
    <3>3. CASE entry' = [entry EXCEPT ![s] = Absent]
      BY <3>3 DEF EntryOK, Absent
    <3> QED
      BY <1>18, <3>1, <3>2, <3>3 DEF DetachTerminally
  <2> QED
    BY <1>18, <2>1 DEF DetachTerminally, AttachInv
<1>19. ASSUME NEW x \in closing, Finalize(x)
       PROVE  AttachInv'
  BY <1>19 DEF Finalize, OpenerOK, OpenerRecord, EntryOK, EntryRecord, StageInv, Staged,
     LockInv, EntryInv, AttachInv, At, Holding, Idle, Busy, Absent
<1>20. ASSUME NEW c \in valid, Expire(c)
       PROVE  AttachInv'
  BY <1>20 DEF Expire, OpenerOK, OpenerRecord, EntryOK, EntryRecord, StageInv, Staged,
     LockInv, EntryInv, AttachInv, At, Holding, Idle, Busy, Absent
<1>21. CASE UNCHANGED vars
  BY <1>21 DEF vars, OpenerOK, OpenerRecord, EntryOK, EntryRecord, StageInv, Staged,
     LockInv, EntryInv, AttachInv, At, Holding, Idle, Busy, Absent
<1> QED
  BY <1>1, <1>2, <1>3, <1>4, <1>5, <1>6, <1>7, <1>8, <1>9, <1>10, <1>11, <1>12, <1>13,
     <1>14, <1>15, <1>16, <1>17, <1>18, <1>19, <1>20, <1>21 DEF Next

\* A credential recorded in an entry that is removed passes to its finalizer.
LEMMA RemovalKeepsOwners ==
  ASSUME NEW s \in Session, NEW c, Owned(c),
         closing' = closing \cup {[session |-> s, cred |-> entry[s].cred]},
         \A t \in Session \ {s} : entry'[t] = entry[t],
         \A q \in Opener : \/ opener'[q] = opener[q]
                           \/ opener[q].at \notin {"launching", "opening", "recording"}
  PROVE  Owned(c)'
<1>1. CASE RecordedElsewhere(c)
  <2>1. PICK t \in Session : entry[t].live /\ entry[t].cred = c
    BY <1>1 DEF RecordedElsewhere
  <2>2. CASE t = s
    <3>1. [session |-> s, cred |-> entry[s].cred] \in closing'
      OBVIOUS
    <3> QED
      BY <2>1, <2>2, <3>1 DEF Owned
  <2>3. CASE t # s
    BY <2>1, <2>3 DEF Owned, RecordedElsewhere
  <2> QED
    BY <2>2, <2>3
<1>2. CASE \E x \in closing : x.cred = c
  BY <1>2 DEF Owned
<1>3. CASE ~RecordedElsewhere(c) /\ ~(\E x \in closing : x.cred = c)
  BY <1>3 DEF Owned
<1> QED
  BY <1>1, <1>2, <1>3

\* Each step leaves a credential that works with an owner.
LEMMA CredentialsStayOwned ==
  ASSUME OpenerOK, EntryOK, RegistryOK, StageInv, LockInv, EntryInv, RegistryInv,
      OwnerInv, [Next]_vars
  PROVE  OwnerInv'
<1> USE CredentialsAssumption DEF Credential, None, registryVars, historyVars
<1>1. ASSUME NEW p \in Opener, NEW s \in Session, Open(p, s)
      PROVE  OwnerInv'
  BY <1>1 DEF Open, At, OpenLockFree, OpenerOK, OpenerRecord, EntryOK, EntryRecord,
     RegistryOK, StageInv, Staged, LockInv, EntryInv, RegistryInv, OwnerInv, Owned,
     RecordedElsewhere, Holding, Preparing, Idle, Busy, Absent
<1>2. ASSUME NEW p \in Opener, Prepare(p)
      PROVE  OwnerInv'
  BY <1>2 DEF Prepare, At, Go, OpenerOK, OpenerRecord, EntryOK, EntryRecord, RegistryOK,
     StageInv, Staged, LockInv, EntryInv, RegistryInv, OwnerInv, Owned, RecordedElsewhere,
     Holding, Preparing, Idle, Busy, Absent
<1>3. ASSUME NEW p \in Opener, Resolve(p)
      PROVE  OwnerInv'
  BY <1>3 DEF Resolve, At, Go, Prepared, OpenerOK, OpenerRecord, EntryOK, EntryRecord,
     RegistryOK, StageInv, Staged, LockInv, EntryInv, RegistryInv, OwnerInv, Owned,
     RecordedElsewhere, Holding, Preparing, Idle, Busy, Absent
<1>4. ASSUME NEW p \in Opener, Issue(p)
      PROVE  OwnerInv'
  BY <1>4 DEF Issue, At, Prepared, OpenerOK, OpenerRecord, EntryOK, EntryRecord,
     RegistryOK, StageInv, Staged, LockInv, EntryInv, RegistryInv, OwnerInv, Owned,
     RecordedElsewhere, Holding, Preparing, Idle, Busy, Absent
<1>5. ASSUME NEW p \in Opener, Launch(p)
      PROVE  OwnerInv'
  BY <1>5 DEF Launch, At, OpenerOK, OpenerRecord, EntryOK, EntryRecord, RegistryOK,
     StageInv, Staged, LockInv, EntryInv, RegistryInv, OwnerInv, Owned, RecordedElsewhere,
     Holding, Preparing, Idle, Busy, Absent
<1>6. ASSUME NEW p \in Opener, OpenSucceeds(p)
      PROVE  OwnerInv'
  <2> DEFINE s == opener[p].target
  <2>1. s \in Session /\ ~entry[s].live
    BY <1>6 DEF OpenSucceeds, At, StageInv, Staged, EntryInv, Busy
  <2>2. /\ \A t \in Session \ {s} : entry'[t] = entry[t]
        /\ entry'[s].live /\ entry'[s].cred = opener[p].held
    BY <1>6, <2>1 DEF OpenSucceeds, EntryOK
  <2>3. opener'[p].at = "persisting" /\ \A q \in Opener \ {p} : opener'[q] = opener[q]
    BY <1>6 DEF OpenSucceeds, Go, OpenerOK, OpenerRecord
  <2>4. \A c \in Credential : Owned(c) => Owned(c)'
    BY <1>6, <2>1, <2>2, <2>3 DEF OpenSucceeds, Owned, RecordedElsewhere
  <2>5. \A q \in Opener \ {p} : At(q, "recording") => opener[q].target # s
    BY <1>6 DEF OpenSucceeds, At, LockInv
  <2>6. \A q \in Opener \ {p} : At(q, "recording") => opener[q].target \in Session
    BY DEF At, StageInv, Staged
  <2>7. \A q \in Opener : At(q, "recording")' =>
            /\ At(q, "recording") /\ opener'[q] = opener[q]
            /\ entry'[opener[q].target] = entry[opener[q].target]
    BY <2>2, <2>3, <2>5, <2>6 DEF At
  <2>8. UNCHANGED <<valid, spared, orphaned>> /\ valid \subseteq Credential
    BY <1>6 DEF OpenSucceeds, RegistryOK
  <2> QED
    BY <2>4, <2>7, <2>8 DEF OwnerInv
<1>7. ASSUME NEW p \in Opener, OpenFails(p)
      PROVE  OwnerInv'
  <2>1. /\ valid' \subseteq valid
        /\ opener[p].minted => opener[p].held \notin valid'
    BY <1>7 DEF OpenFails, GiveBack, Clear
  <2>2. opener'[p].at = "idle" /\ \A q \in Opener \ {p} : opener'[q] = opener[q]
    BY <1>7 DEF OpenFails, Leave, Idle, OpenerOK
  <2>3. UNCHANGED <<entry, closing, spared, orphaned>>
    BY <1>7 DEF OpenFails
  <2>4. \A c \in valid' : Owned(c) => Owned(c)'
    BY <2>1, <2>2, <2>3 DEF Owned, RecordedElsewhere
  <2> QED
    BY <2>1, <2>2, <2>3, <2>4 DEF OwnerInv, At
<1>8. ASSUME NEW p \in Opener, Return(p)
      PROVE  OwnerInv'
  <2>1. opener'[p].at = "idle" /\ \A q \in Opener \ {p} : opener'[q] = opener[q]
    BY <1>8 DEF Return, Leave, Idle, OpenerOK
  <2>2. \A c \in Credential : Owned(c) => Owned(c)'
    BY <1>8, <2>1 DEF Return, At, Owned, RecordedElsewhere
  <2> QED
    BY <1>8, <2>1, <2>2 DEF Return, At, OwnerInv, RegistryOK
<1>9. ASSUME NEW p \in Opener, PersistFails(p)
      PROVE  OwnerInv'
  <2> DEFINE s == opener[p].target
  <2>1. s \in Session
    BY <1>9 DEF PersistFails, At, StageInv, Staged
  <2>2. opener'[p].at = "idle" /\ \A q \in Opener \ {p} : opener'[q] = opener[q]
    BY <1>9 DEF PersistFails, Leave, Idle, OpenerOK
  <2>3. UNCHANGED <<valid, spared, orphaned>> /\ valid \subseteq Credential
    BY <1>9 DEF PersistFails, RegistryOK
  <2>4. CASE ~entry[s].live
    <3>1. UNCHANGED <<entry, closing>>
      BY <1>9, <2>4 DEF PersistFails
    <3>2. \A c \in Credential : Owned(c) => Owned(c)'
      BY <1>9, <2>2, <3>1 DEF PersistFails, At, Owned, RecordedElsewhere
    <3> QED
      BY <1>9, <2>2, <2>3, <3>1, <3>2 DEF OwnerInv, At
  <2>5. CASE entry[s].live
    <3>1. /\ closing' = closing \cup {[session |-> s, cred |-> entry[s].cred]}
          /\ \A t \in Session \ {s} : entry'[t] = entry[t]
      BY <1>9, <2>1, <2>5 DEF PersistFails, Remove, EntryOK
    <3>2. \A c \in Credential : Owned(c) => Owned(c)'
      BY <1>9, <2>1, <2>2, <3>1, RemovalKeepsOwners DEF PersistFails, At
    <3>3. \A q \in Opener \ {p} : At(q, "recording") => opener[q].target \in Session \ {s}
      BY <1>9 DEF PersistFails, At, LockInv, StageInv, Staged
    <3> QED
      BY <2>2, <2>3, <3>1, <3>2, <3>3 DEF OwnerInv, At
  <2> QED
    BY <2>4, <2>5
<1>10. ASSUME NEW p \in Opener, Record(p)
       PROVE  OwnerInv'
  <2> DEFINE s == opener[p].target
  <2>1. s \in Session
    BY <1>10 DEF Record, At, StageInv, Staged
  <2>2. /\ opener'[p].at \in {"writing", "idle"}
        /\ \A q \in Opener \ {p} : opener'[q] = opener[q]
    BY <1>10 DEF Record, Go, Leave, Idle, OpenerOK, OpenerRecord
  <2>3. UNCHANGED <<valid, spared, closing>> /\ valid \subseteq Credential
    BY <1>10 DEF Record, RegistryOK
  <2>4. CASE ~entry[s].live
    <3>1. UNCHANGED entry /\ orphaned' = orphaned \cup {opener[p].held}
      BY <1>10, <2>4 DEF Record
    <3>2. \A c \in Credential \ {opener[p].held} : Owned(c) => Owned(c)'
      BY <2>2, <2>3, <3>1 DEF Owned, RecordedElsewhere
    <3> QED
      BY <2>2, <2>3, <3>1, <3>2 DEF OwnerInv, At
  <2>5. CASE entry[s].live
    <3>1. UNCHANGED orphaned /\ entry' = [entry EXCEPT ![s].cred = opener[p].held]
      BY <1>10, <2>5 DEF Record
    <3>2. /\ entry'[s].live /\ entry'[s].cred = opener[p].held
          /\ \A t \in Session \ {s} : entry'[t] = entry[t]
      BY <2>1, <2>5, <3>1 DEF EntryOK, EntryRecord
    <3>3. entry[s].cred \in valid => entry[s].cred = opener[p].held
      BY <1>10 DEF Record, OwnerInv
    <3>4. \A c \in valid : Owned(c) => Owned(c)'
      BY <2>1, <2>2, <2>3, <3>2, <3>3 DEF Owned, RecordedElsewhere
    <3>5. \A q \in Opener \ {p} : At(q, "recording") => opener[q].target \in Session \ {s}
      BY <1>10 DEF Record, At, LockInv, StageInv, Staged
    <3> QED
      BY <2>2, <2>3, <3>1, <3>2, <3>4, <3>5 DEF OwnerInv, At
  <2> QED
    BY <2>4, <2>5
<1>11. ASSUME NEW p \in Opener, AttachSucceeds(p)
       PROVE  OwnerInv'
  BY <1>11 DEF AttachSucceeds, At, Leave, OpenerOK, OpenerRecord, EntryOK, EntryRecord,
     RegistryOK, StageInv, Staged, LockInv, EntryInv, RegistryInv, OwnerInv, Owned,
     RecordedElsewhere, Holding, Preparing, Idle, Busy, Absent
<1>12. ASSUME NEW p \in Opener, AttachFails(p)
       PROVE  OwnerInv'
  BY <1>12 DEF AttachFails, At, GiveBack, Clear, Leave, OpenerOK, OpenerRecord, EntryOK,
     EntryRecord, RegistryOK, StageInv, Staged, LockInv, EntryInv, RegistryInv, OwnerInv,
     Owned, RecordedElsewhere, Holding, Preparing, Idle, Busy, Absent
<1>13. ASSUME NEW p \in Opener, Interrupt(p)
       PROVE  OwnerInv'
  BY <1>13 DEF Interrupt, At, Leave, OpenerOK, OpenerRecord, EntryOK, EntryRecord,
     RegistryOK, StageInv, Staged, LockInv, EntryInv, RegistryInv, OwnerInv, Owned,
     RecordedElsewhere, Holding, Preparing, Idle, Busy, Absent
<1>14. ASSUME NEW s \in Session, OpenedForAnother(s)
       PROVE  OwnerInv'
  BY <1>14 DEF OpenedForAnother, OpenLockFree, OpenerOK, OpenerRecord, EntryOK,
     EntryRecord, RegistryOK, StageInv, Staged, LockInv, EntryInv, RegistryInv, OwnerInv,
     Owned, At, RecordedElsewhere, Holding, Preparing, Idle, Busy, Absent
<1>15. ASSUME NEW s \in Session, StartConversation(s)
       PROVE  OwnerInv'
  BY <1>15 DEF StartConversation, OpenLockFree, OpenerOK, OpenerRecord, EntryOK,
     EntryRecord, RegistryOK, StageInv, Staged, LockInv, EntryInv, RegistryInv, OwnerInv,
     Owned, At, RecordedElsewhere, Holding, Preparing, Idle, Busy, Absent
<1>16. ASSUME NEW s \in Session, Release(s)
       PROVE  OwnerInv'
  <2>1. /\ closing' = closing \cup {[session |-> s, cred |-> entry[s].cred]}
        /\ entry' = [entry EXCEPT ![s] = Absent]
        /\ UNCHANGED <<valid, spared, orphaned, opener>>
    BY <1>16 DEF Release, Remove
  <2>2. entry'[s].cred = None /\ \A t \in Session \ {s} : entry'[t] = entry[t]
    BY <2>1 DEF EntryOK, Absent
  <2>3. \A c \in valid : Owned(c) => Owned(c)'
    BY <2>1, <2>2, RemovalKeepsOwners
  <2>4. None \notin valid /\ \A q \in Opener : At(q, "recording") => opener[q].target \in
      Session
    BY DEF RegistryOK, At, StageInv, Staged
  <2> QED
    BY <2>1, <2>2, <2>3, <2>4 DEF OwnerInv, At
<1>17. ASSUME NEW s \in Session, Detach(s)
       PROVE  OwnerInv'
  <2>1. UNCHANGED <<valid, spared, orphaned, opener>>
    BY <1>17 DEF Detach
  <2>2. None \notin valid /\ \A q \in Opener : At(q, "recording") => opener[q].target \in
      Session
    BY DEF RegistryOK, At, StageInv, Staged
  <2>3. CASE s \in Shared
    <3>1. entry' = [entry EXCEPT ![s].attached = FALSE] /\ UNCHANGED closing
      BY <1>17, <2>3 DEF Detach
    <3>2. \A t \in Session : entry'[t].live = entry[t].live /\ entry'[t].cred =
        entry[t].cred
      BY <3>1 DEF EntryOK, EntryRecord
    <3>3. \A c \in valid : Owned(c) => Owned(c)'
      BY <2>1, <3>1, <3>2 DEF Owned, RecordedElsewhere
    <3> QED
      BY <2>1, <2>2, <3>2, <3>3 DEF OwnerInv, At
  <2>4. CASE s \notin Shared
    <3>1. /\ closing' = closing \cup {[session |-> s, cred |-> entry[s].cred]}
          /\ entry' = [entry EXCEPT ![s] = Absent]
      BY <1>17, <2>4 DEF Detach, Remove
    <3>2. entry'[s].cred = None /\ \A t \in Session \ {s} : entry'[t] = entry[t]
      BY <3>1 DEF EntryOK, Absent
    <3>3. \A c \in valid : Owned(c) => Owned(c)'
      BY <2>1, <3>1, <3>2, RemovalKeepsOwners
    <3> QED
      BY <2>1, <2>2, <3>2, <3>3 DEF OwnerInv, At
  <2> QED
    BY <2>3, <2>4
<1>18. ASSUME NEW s \in Session, DetachTerminally(s)
       PROVE  OwnerInv'
  BY <1>18 DEF DetachTerminally, ClearThread, OpenerOK, OpenerRecord, EntryOK,
     EntryRecord, RegistryOK, StageInv, Staged, LockInv, EntryInv, RegistryInv, OwnerInv,
     Owned, At, RecordedElsewhere, Holding, Preparing, Idle, Busy, Absent
<1>19. ASSUME NEW x \in closing, Finalize(x)
       PROVE  OwnerInv'
  <2>1. UNCHANGED <<entry, opener, orphaned>> /\ closing' = closing \ {x}
    BY <1>19 DEF Finalize
  <2>2. valid' \subseteq valid /\ spared \subseteq spared'
    BY <1>19 DEF Finalize, Clear
  <2>3. x.cred \in valid' \ spared' => RecordedElsewhere(x.cred)
    BY <1>19 DEF Finalize, Clear, RegistryOK
  <2>4. \A c \in valid' \ spared' : Owned(c) => Owned(c)'
    BY <2>1, <2>3 DEF Owned, RecordedElsewhere
  <2> QED
    BY <2>1, <2>2, <2>4 DEF OwnerInv, At
<1>20. ASSUME NEW c \in valid, Expire(c)
       PROVE  OwnerInv'
  BY <1>20 DEF Expire, OpenerOK, OpenerRecord, EntryOK, EntryRecord, RegistryOK, StageInv,
     Staged, LockInv, EntryInv, RegistryInv, OwnerInv, Owned, At, RecordedElsewhere,
     Holding, Preparing, Idle, Busy, Absent
<1>21. CASE UNCHANGED vars
  BY <1>21 DEF vars, OpenerOK, OpenerRecord, EntryOK, EntryRecord, RegistryOK, StageInv,
     Staged, LockInv, EntryInv, RegistryInv, OwnerInv, Owned, At, RecordedElsewhere,
     Holding, Preparing, Idle, Busy, Absent
<1> QED
  BY <1>1, <1>2, <1>3, <1>4, <1>5, <1>6, <1>7, <1>8, <1>9, <1>10, <1>11, <1>12, <1>13,
     <1>14, <1>15, <1>16, <1>17, <1>18, <1>19, <1>20, <1>21 DEF Next

\* A step that neither adds a holder nor removes one leaves the counts right.
LEMMA SameHolders ==
  ASSUME CountInv, UNCHANGED reservations, orphaned \subseteq orphaned',
         \A q \in Opener, c \in Credential : Holds(q, c)' <=> Holds(q, c)
  PROVE  CountInv'
<1>1. \A c \in Credential : Holders(c)' = Holders(c)
  BY DEF Holders
<1> QED
  BY <1>1 DEF CountInv

\* A reservation counts one more holder.
LEMMA HolderAdded ==
  ASSUME IsFiniteSet(Opener), CountOK, CountInv, UNCHANGED orphaned,
         NEW p \in Opener, NEW d \in Credential, Reserve(d),
         \A q \in Opener \ {p}, c \in Credential : Holds(q, c)' <=> Holds(q, c),
         \A c \in Credential : ~Holds(p, c) /\ (Holds(p, c)' <=> c = d)
  PROVE  CountInv'
<1>1. \A c \in Credential : IsFiniteSet(Holders(c))
  BY FS_Subset DEF Holders
<1>2. \A c \in Credential \ {d} : Holders(c)' = Holders(c) /\ reservations'[c] = reservations[c]
  BY DEF Holders, Reserve, CountOK
<1>3. p \notin Holders(d) /\ Holders(d)' = Holders(d) \cup {p}
  BY DEF Holders
<1>4. Cardinality(Holders(d)') = Cardinality(Holders(d)) + 1
  BY <1>1, <1>3, FS_AddElement
<1>5. reservations'[d] = reservations[d] + 1
  BY DEF Reserve, CountOK
<1>6. Cardinality(Holders(d)) \in Nat /\ reservations[d] \in Nat
  BY <1>1, FS_CardinalityType DEF CountOK
<1> QED
  BY <1>2, <1>4, <1>5, <1>6 DEF CountInv

\* A dropped reservation counts one less, and the count was not zero.
LEMMA HolderGone ==
  ASSUME IsFiniteSet(Opener), CountOK, CountInv, orphaned \subseteq orphaned',
         NEW p \in Opener, NEW d \in Credential, Drop(d),
         \A q \in Opener \ {p}, c \in Credential : Holds(q, c)' <=> Holds(q, c),
         \A c \in Credential : ~Holds(p, c)' /\ (Holds(p, c) <=> c = d)
  PROVE  CountInv'
<1>1. \A c \in Credential : IsFiniteSet(Holders(c))
  BY FS_Subset DEF Holders
<1>2. d # None
  BY DEF Credential, None
<1>3. \A c \in Credential \ {d} : Holders(c)' = Holders(c) /\ reservations'[c] = reservations[c]
  BY <1>2 DEF Holders, Drop, CountOK
<1>4. p \in Holders(d) /\ Holders(d)' = Holders(d) \ {p}
  BY DEF Holders
<1>5. Cardinality(Holders(d)') = Cardinality(Holders(d)) - 1
  BY <1>1, <1>4, FS_RemoveElement
<1>6. /\ Cardinality(Holders(d)) \in Nat /\ Cardinality(Holders(d)) # 0
      /\ reservations[d] \in Nat
  BY <1>1, <1>4, FS_CardinalityType, FS_EmptySet DEF CountOK
<1>7. Cardinality(Holders(d)) <= reservations[d]
  BY DEF CountInv
<1>8. reservations'[d] = reservations[d] - 1
  BY <1>2, <1>6, <1>7 DEF Drop, CountOK
<1> QED
  BY <1>3, <1>5, <1>6, <1>8 DEF CountInv

\* A reservation that is kept when its holder goes is one of an orphan.
LEMMA HolderLost ==
  ASSUME IsFiniteSet(Opener), CountOK, CountInv, UNCHANGED reservations,
         NEW p \in Opener, NEW d \in Credential, orphaned' = orphaned \cup {d},
         \A q \in Opener \ {p}, c \in Credential : Holds(q, c)' <=> Holds(q, c),
         \A c \in Credential : ~Holds(p, c)' /\ (Holds(p, c) <=> c = d)
  PROVE  CountInv'
<1>1. \A c \in Credential : IsFiniteSet(Holders(c))
  BY FS_Subset DEF Holders
<1>2. \A c \in Credential \ {d} : Holders(c)' = Holders(c)
  BY DEF Holders
<1>3. p \in Holders(d) /\ Holders(d)' = Holders(d) \ {p}
  BY DEF Holders
<1>4. Cardinality(Holders(d)') = Cardinality(Holders(d)) - 1
  BY <1>1, <1>3, FS_RemoveElement
<1>5. Cardinality(Holders(d)) \in Nat /\ reservations[d] \in Nat
  BY <1>1, FS_CardinalityType DEF CountOK
<1> QED
  BY <1>2, <1>4, <1>5 DEF CountInv

\* Each step leaves the reservations of a credential counted right.
LEMMA ReservationsStayCounted ==
  ASSUME OpenerOK, RegistryOK, CountOK, StageInv, CountInv, [Next]_vars
  PROVE  CountInv'
<1> USE CredentialsAssumption DEF Credential, None, registryVars, historyVars
<1>1. ASSUME NEW p \in Opener, NEW s \in Session, Open(p, s)
      PROVE  CountInv'
  <2>1. \A q \in Opener \ {p} : opener'[q] = opener[q]
    BY <1>1 DEF Open, OpenerOK
  <2>2. \A q \in Opener \ {p}, c \in Credential : Holds(q, c)' <=> Holds(q, c)
    BY <2>1 DEF Holds
  <2>3. \A c \in Credential : Holds(p, c)' <=> Holds(p, c)
    BY <1>1 DEF Open, At, StageInv, Staged, Idle, Holds, Busy, OpenerOK, OpenerRecord
  <2>4. UNCHANGED <<reservations, orphaned>>
    BY <1>1 DEF Open
  <2> QED
    BY <2>2, <2>3, <2>4, SameHolders
<1>2. ASSUME NEW p \in Opener, Prepare(p)
      PROVE  CountInv'
  <2>1. \A q \in Opener \ {p} : opener'[q] = opener[q]
    BY <1>2 DEF Prepare, Go, OpenerOK
  <2>2. \A q \in Opener \ {p}, c \in Credential : Holds(q, c)' <=> Holds(q, c)
    BY <2>1 DEF Holds
  <2>3. \A c \in Credential : ~Holds(p, c)
    BY <1>2 DEF Prepare, At, StageInv, Staged, Holds
  <2>4. UNCHANGED orphaned
    BY <1>2 DEF Prepare
  <2>5. CASE slot # None
    <3>1. slot \in Credential
      BY <2>5 DEF RegistryOK
    <3>2. Reserve(slot) /\ opener' = [opener EXCEPT ![p].at = "resolving", ![p].held =
        slot]
      BY <1>2, <2>5 DEF Prepare
    <3>3. \A c \in Credential : Holds(p, c)' <=> c = slot
      BY <3>2 DEF Holds, Busy, OpenerOK, OpenerRecord
    <3> QED
      BY <2>2, <2>3, <2>4, <3>1, <3>2, <3>3, HolderAdded
  <2>6. CASE slot = None
    <3>1. UNCHANGED reservations /\ opener' = [opener EXCEPT ![p].at = "issuing"]
      BY <1>2, <2>6 DEF Prepare, Go
    <3>2. opener[p].held = None
      BY <1>2 DEF Prepare, At, StageInv, Staged
    <3>3. \A c \in Credential : ~Holds(p, c)'
      BY <3>1, <3>2 DEF Holds, OpenerOK, OpenerRecord
    <3> QED
      BY <2>2, <2>3, <2>4, <3>1, <3>3, SameHolders
  <2> QED
    BY <2>5, <2>6
<1>3. ASSUME NEW p \in Opener, Resolve(p)
      PROVE  CountInv'
  <2>1. \A q \in Opener \ {p} : opener'[q] = opener[q]
    BY <1>3 DEF Resolve, Go, OpenerOK
  <2>2. \A q \in Opener \ {p}, c \in Credential : Holds(q, c)' <=> Holds(q, c)
    BY <2>1 DEF Holds
  <2>3. UNCHANGED orphaned
    BY <1>3 DEF Resolve
  <2>4. CASE opener[p].held \in valid
    <3>1. UNCHANGED reservations /\ opener' = [opener EXCEPT ![p].at = Prepared(p)]
      BY <1>3, <2>4 DEF Resolve, Go
    <3>2. \A c \in Credential : Holds(p, c)' <=> Holds(p, c)
      BY <1>3, <3>1 DEF Resolve, At, Prepared, Holds, Busy, OpenerOK, OpenerRecord
    <3> QED
      BY <2>2, <2>3, <3>1, <3>2, SameHolders
  <2>5. CASE opener[p].held \notin valid
    <3>1. /\ Drop(opener[p].held)
          /\ opener' = [opener EXCEPT ![p].at = "issuing", ![p].held = None]
      BY <1>3, <2>5 DEF Resolve
    <3>2. /\ opener[p].held \in Credential
          /\ \A c \in Credential : Holds(p, c) <=> c = opener[p].held
      BY <1>3 DEF Resolve, At, StageInv, Staged, Holding, Holds, Busy, OpenerOK,
         OpenerRecord
    <3>3. \A c \in Credential : ~Holds(p, c)'
      BY <3>1 DEF Holds, OpenerOK, OpenerRecord
    <3> QED
      BY <2>2, <2>3, <3>1, <3>2, <3>3, HolderGone
  <2> QED
    BY <2>4, <2>5
<1>4. ASSUME NEW p \in Opener, Issue(p)
      PROVE  CountInv'
  <2>1. \A q \in Opener \ {p} : opener'[q] = opener[q]
    BY <1>4 DEF Issue, OpenerOK
  <2>2. \A q \in Opener \ {p}, c \in Credential : Holds(q, c)' <=> Holds(q, c)
    BY <2>1 DEF Holds
  <2>3. issued + 1 \in Credential /\ Reserve(issued + 1) /\ UNCHANGED orphaned
    BY <1>4 DEF Issue, RegistryOK
  <2>4. \A c \in Credential : ~Holds(p, c)
    BY <1>4 DEF Issue, At, StageInv, Staged, Holds
  <2>5. opener' = [opener EXCEPT ![p].at = Prepared(p), ![p].held = issued + 1,
      ![p].minted = TRUE]
    BY <1>4 DEF Issue
  <2>6. \A c \in Credential : Holds(p, c)' <=> c = issued + 1
    BY <2>5 DEF Prepared, Holds, Busy, OpenerOK, OpenerRecord
  <2> QED
    BY <2>2, <2>3, <2>4, <2>6, HolderAdded
<1>5. ASSUME NEW p \in Opener, Launch(p)
      PROVE  CountInv'
  <2>1. \A q \in Opener \ {p} : opener'[q] = opener[q]
    BY <1>5 DEF Launch, OpenerOK
  <2>2. \A q \in Opener \ {p}, c \in Credential : Holds(q, c)' <=> Holds(q, c)
    BY <2>1 DEF Holds
  <2>3. \A c \in Credential : Holds(p, c)' <=> Holds(p, c)
    BY <1>5 DEF Launch, At, StageInv, Staged, Idle, Holds, Busy, OpenerOK, OpenerRecord
  <2>4. UNCHANGED <<reservations, orphaned>>
    BY <1>5 DEF Launch
  <2> QED
    BY <2>2, <2>3, <2>4, SameHolders
<1>6. ASSUME NEW p \in Opener, OpenSucceeds(p)
      PROVE  CountInv'
  <2>1. \A q \in Opener \ {p} : opener'[q] = opener[q]
    BY <1>6 DEF OpenSucceeds, Go, OpenerOK
  <2>2. \A q \in Opener \ {p}, c \in Credential : Holds(q, c)' <=> Holds(q, c)
    BY <2>1 DEF Holds
  <2>3. opener[p].held \in Credential /\ \A c \in Credential : Holds(p, c) <=> c =
      opener[p].held
    BY <1>6 DEF OpenSucceeds, At, StageInv, Staged, Holding, Holds, Busy, OpenerOK,
       OpenerRecord
  <2>4. \A c \in Credential : ~Holds(p, c)'
    BY <1>6 DEF OpenSucceeds, Go, Idle, Holds, Busy, OpenerOK, OpenerRecord
  <2>5. Drop(opener[p].held) /\ orphaned \subseteq orphaned'
    BY <1>6 DEF OpenSucceeds
  <2> QED
    BY <2>2, <2>3, <2>4, <2>5, HolderGone
<1>7. ASSUME NEW p \in Opener, OpenFails(p)
      PROVE  CountInv'
  <2>1. \A q \in Opener \ {p} : opener'[q] = opener[q]
    BY <1>7 DEF OpenFails, Leave, OpenerOK
  <2>2. \A q \in Opener \ {p}, c \in Credential : Holds(q, c)' <=> Holds(q, c)
    BY <2>1 DEF Holds
  <2>3. opener[p].held \in Credential /\ \A c \in Credential : Holds(p, c) <=> c =
      opener[p].held
    BY <1>7 DEF OpenFails, At, StageInv, Staged, Holding, Holds, Busy, OpenerOK,
       OpenerRecord
  <2>4. \A c \in Credential : ~Holds(p, c)'
    BY <1>7 DEF OpenFails, Leave, Idle, Holds, Busy, OpenerOK, OpenerRecord
  <2>5. Drop(opener[p].held) /\ orphaned \subseteq orphaned'
    BY <1>7 DEF OpenFails
  <2> QED
    BY <2>2, <2>3, <2>4, <2>5, HolderGone
<1>8. ASSUME NEW p \in Opener, Return(p)
      PROVE  CountInv'
  <2>1. \A q \in Opener \ {p} : opener'[q] = opener[q]
    BY <1>8 DEF Return, Leave, OpenerOK
  <2>2. \A q \in Opener \ {p}, c \in Credential : Holds(q, c)' <=> Holds(q, c)
    BY <2>1 DEF Holds
  <2>3. \A c \in Credential : Holds(p, c)' <=> Holds(p, c)
    BY <1>8 DEF Return, Leave, At, StageInv, Staged, Idle, Holds, Busy, OpenerOK,
       OpenerRecord
  <2>4. UNCHANGED <<reservations, orphaned>>
    BY <1>8 DEF Return
  <2> QED
    BY <2>2, <2>3, <2>4, SameHolders
<1>9. ASSUME NEW p \in Opener, PersistFails(p)
      PROVE  CountInv'
  <2>1. \A q \in Opener \ {p} : opener'[q] = opener[q]
    BY <1>9 DEF PersistFails, Leave, OpenerOK
  <2>2. \A q \in Opener \ {p}, c \in Credential : Holds(q, c)' <=> Holds(q, c)
    BY <2>1 DEF Holds
  <2>3. \A c \in Credential : Holds(p, c)' <=> Holds(p, c)
    BY <1>9 DEF PersistFails, Leave, At, StageInv, Staged, Idle, Holds, Busy, OpenerOK,
       OpenerRecord
  <2>4. UNCHANGED <<reservations, orphaned>>
    BY <1>9 DEF PersistFails
  <2> QED
    BY <2>2, <2>3, <2>4, SameHolders
<1>10. ASSUME NEW p \in Opener, Record(p)
       PROVE  CountInv'
  <2>1. \A q \in Opener \ {p} : opener'[q] = opener[q]
    BY <1>10 DEF Record, Go, Leave, OpenerOK
  <2>2. \A q \in Opener \ {p}, c \in Credential : Holds(q, c)' <=> Holds(q, c)
    BY <2>1 DEF Holds
  <2>3. /\ opener[p].held \in Credential
        /\ \A c \in Credential : Holds(p, c) <=> c = opener[p].held
    BY <1>10 DEF Record, At, StageInv, Staged, Holding, Holds, Busy, OpenerOK,
       OpenerRecord
  <2>4. CASE entry[opener[p].target].live
    <3>1. UNCHANGED <<reservations, orphaned>> /\ opener' = [opener EXCEPT ![p].at =
        "writing"]
      BY <1>10, <2>4 DEF Record, Go
    <3>2. \A c \in Credential : Holds(p, c)' <=> Holds(p, c)
      BY <1>10, <3>1 DEF Record, At, Holds, Busy, OpenerOK, OpenerRecord
    <3> QED
      BY <2>2, <3>1, <3>2, SameHolders
  <2>5. CASE ~entry[opener[p].target].live
    <3>1. /\ Drop(opener[p].held) /\ orphaned \subseteq orphaned'
          /\ opener' = [opener EXCEPT ![p] = Idle]
      BY <1>10, <2>5 DEF Record, Leave
    <3>2. \A c \in Credential : ~Holds(p, c)'
      BY <3>1 DEF Holds, Idle, OpenerOK
    <3> QED
      BY <2>2, <2>3, <3>1, <3>2, HolderGone
  <2> QED
    BY <2>4, <2>5
<1>11. ASSUME NEW p \in Opener, AttachSucceeds(p)
       PROVE  CountInv'
  <2>1. \A q \in Opener \ {p} : opener'[q] = opener[q]
    BY <1>11 DEF AttachSucceeds, Leave, OpenerOK
  <2>2. \A q \in Opener \ {p}, c \in Credential : Holds(q, c)' <=> Holds(q, c)
    BY <2>1 DEF Holds
  <2>3. opener[p].held \in Credential /\ \A c \in Credential : Holds(p, c) <=> c =
      opener[p].held
    BY <1>11 DEF AttachSucceeds, At, StageInv, Staged, Holding, Holds, Busy, OpenerOK,
       OpenerRecord
  <2>4. \A c \in Credential : ~Holds(p, c)'
    BY <1>11 DEF AttachSucceeds, Leave, Idle, Holds, Busy, OpenerOK, OpenerRecord
  <2>5. Drop(opener[p].held) /\ orphaned \subseteq orphaned'
    BY <1>11 DEF AttachSucceeds
  <2> QED
    BY <2>2, <2>3, <2>4, <2>5, HolderGone
<1>12. ASSUME NEW p \in Opener, AttachFails(p)
       PROVE  CountInv'
  <2>1. \A q \in Opener \ {p} : opener'[q] = opener[q]
    BY <1>12 DEF AttachFails, Leave, OpenerOK
  <2>2. \A q \in Opener \ {p}, c \in Credential : Holds(q, c)' <=> Holds(q, c)
    BY <2>1 DEF Holds
  <2>3. opener[p].held \in Credential /\ \A c \in Credential : Holds(p, c) <=> c =
      opener[p].held
    BY <1>12 DEF AttachFails, At, StageInv, Staged, Holding, Holds, Busy, OpenerOK,
       OpenerRecord
  <2>4. \A c \in Credential : ~Holds(p, c)'
    BY <1>12 DEF AttachFails, Leave, Idle, Holds, Busy, OpenerOK, OpenerRecord
  <2>5. Drop(opener[p].held) /\ orphaned \subseteq orphaned'
    BY <1>12 DEF AttachFails
  <2> QED
    BY <2>2, <2>3, <2>4, <2>5, HolderGone
<1>13. ASSUME NEW p \in Opener, Interrupt(p)
       PROVE  CountInv'
  <2>1. \A q \in Opener \ {p} : opener'[q] = opener[q]
    BY <1>13 DEF Interrupt, Leave, OpenerOK
  <2>2. \A q \in Opener \ {p}, c \in Credential : Holds(q, c)' <=> Holds(q, c)
    BY <2>1 DEF Holds
  <2>3. \A c \in Credential : ~Holds(p, c)'
    BY <1>13 DEF Interrupt, Leave, Holds, Idle, OpenerOK
  <2>4. CASE opener[p].at \in Holding \cup {"resolving"}
    <3>1. /\ opener[p].held \in Credential
          /\ \A c \in Credential : Holds(p, c) <=> c = opener[p].held
      BY <2>4 DEF StageInv, Staged, Holding, Holds, Busy, OpenerOK, OpenerRecord
    <3>2. orphaned' = orphaned \cup {opener[p].held}
      BY <1>13, <2>4, <3>1 DEF Interrupt, At, Holding
    <3>3. CASE opener[p].at \in Holding
      <4>1. Drop(opener[p].held)
        BY <1>13, <3>3 DEF Interrupt, Holding
      <4> QED
        BY <2>2, <2>3, <3>1, <3>2, <4>1, HolderGone
    <3>4. CASE opener[p].at = "resolving"
      <4>1. UNCHANGED reservations
        BY <1>13, <3>4 DEF Interrupt
      <4> QED
        BY <2>2, <2>3, <3>1, <3>2, <4>1, HolderLost
    <3> QED
      BY <2>4, <3>3, <3>4
  <2>5. CASE opener[p].at \notin Holding \cup {"resolving"}
    <3>1. \A c \in Credential : ~Holds(p, c)
      BY <1>13, <2>5 DEF Interrupt, StageInv, Staged, Holding, Holds, Busy
    <3>2. UNCHANGED reservations /\ orphaned \subseteq orphaned'
      BY <1>13, <2>5 DEF Interrupt, Holding
    <3> QED
      BY <2>2, <2>3, <3>1, <3>2, SameHolders
  <2> QED
    BY <2>4, <2>5
<1>14. ASSUME NEW s \in Session, OpenedForAnother(s)
       PROVE  CountInv'
  BY <1>14, SameHolders DEF OpenedForAnother, Holds
<1>15. ASSUME NEW s \in Session, StartConversation(s)
       PROVE  CountInv'
  BY <1>15, SameHolders DEF StartConversation, Holds
<1>16. ASSUME NEW s \in Session, Release(s)
       PROVE  CountInv'
  BY <1>16, SameHolders DEF Release, Holds
<1>17. ASSUME NEW s \in Session, Detach(s)
       PROVE  CountInv'
  BY <1>17, SameHolders DEF Detach, Holds
<1>18. ASSUME NEW s \in Session, DetachTerminally(s)
       PROVE  CountInv'
  BY <1>18, SameHolders DEF DetachTerminally, Holds
<1>19. ASSUME NEW x \in closing, Finalize(x)
       PROVE  CountInv'
  BY <1>19, SameHolders DEF Finalize, Holds
<1>20. ASSUME NEW c \in valid, Expire(c)
       PROVE  CountInv'
  BY <1>20, SameHolders DEF Expire, Holds
<1>21. CASE UNCHANGED vars
  BY <1>21 DEF vars, CountInv, Holders, Holds
<1> QED
  BY <1>1, <1>2, <1>3, <1>4, <1>5, <1>6, <1>7, <1>8, <1>9, <1>10, <1>11, <1>12, <1>13,
     <1>14, <1>15, <1>16, <1>17, <1>18, <1>19, <1>20, <1>21 DEF Next

-----------------------------------------------------------------------------
\* The initial state satisfies the invariant.
LEMMA InitImpliesIInv ==
  ASSUME Init
  PROVE  IInv
<1> USE CredentialsAssumption DEF Init, Credential, None
<1>1. OpenerOK /\ EntryOK /\ RegistryOK /\ CountOK /\ RestOK
  BY DEF OpenerOK, OpenerRecord, Idle, EntryOK, EntryRecord, Absent, RegistryOK, CountOK, RestOK
<1>2. StageInv /\ LockInv /\ EntryInv /\ RegistryInv
  BY DEF StageInv, Staged, Holding, Idle, LockInv, Preparing, EntryInv, Absent, RegistryInv, At, Busy
<1>3. \A c \in Credential : Holders(c) = {}
  BY DEF Holders, Holds, Idle
<1>4. CountInv
  <2>1. \A c \in Credential : Cardinality(Holders(c)) = 0
    BY <1>3, FS_EmptySet
  <2> QED
    BY <2>1 DEF CountInv
<1>5. WorkInv /\ OwnerInv /\ AttachInv
  BY DEF WorkInv, OwnerInv, AttachInv, At, Holding, Idle, Absent
<1> QED
  BY <1>1, <1>2, <1>4, <1>5 DEF IInv

\* Each step keeps the invariant.
LEMMA StepKeepsIInv ==
  ASSUME IInv, [Next]_vars
  PROVE  IInv'
<1> USE DEF IInv
<1>1. OpenerOK' /\ EntryOK' /\ RegistryOK' /\ CountOK' /\ RestOK'
  BY OpenersStayTyped, EntriesStayTyped, RegistryStaysTyped, CountsStayTyped, RestStaysTyped
<1>2. StageInv' /\ LockInv' /\ EntryInv' /\ RegistryInv'
  BY StagesStayRight, LocksStayExclusive, EntriesStayRight, OneCredentialAtATime
<1>3. CountInv' /\ WorkInv' /\ OwnerInv' /\ AttachInv'
  BY ReservationsStayCounted, CredentialsStayWorking, CredentialsStayOwned, AttachedStayConfigured
<1> QED
  BY <1>1, <1>2, <1>3

\* The invariant holds in every state, for any numbers of openers, sessions,
\* credentials and disturbances.
THEOREM Invariance == Spec => []IInv
<1>1. Init => IInv
  BY InitImpliesIInv
<1>2. IInv /\ [Next]_vars => IInv'
  BY StepKeepsIInv
<1> QED
  BY <1>1, <1>2, PTL DEF Spec

\* The state stays well typed, and the registry has only credentials that were issued.
THEOREM TypeCorrect == Spec => []TypeOK
<1>1. IInv => TypeOK
  BY DEF IInv, TypeOK, OpenerOK, OpenerRecord, EntryOK, EntryRecord, RegistryOK, CountOK, RestOK
<1> QED
  BY <1>1, Invariance, PTL

\* A process keeps a working credential, whoever else comes and goes for the
\* thread, unless the opener that minted it fails.
THEOREM CredentialsWork == Spec => []ReusedCredentialsWork
<1>1. IInv => ReusedCredentialsWork
  BY DEF IInv, WorkInv, Works, Holding, ReusedCredentialsWork, BakedIn, At, Credential, None
<1> QED
  BY <1>1, Invariance, PTL

\* Between preparing a credential and recording it an opener has it reserved,
\* exactly once; only an interrupted validation keeps a reservation.
THEOREM ReservationsCount == Spec => []ReservationsAreHeld
<1>1. IInv => ReservationsAreHeld
  BY DEF IInv, CountInv, Holders, ReservationsAreHeld
<1> QED
  BY <1>1, Invariance, PTL

\* At rest a credential that works belongs to a live session, but for those an
\* opener lost or a finalizer left to one.
THEOREM NoneIsLeftBehind == Spec => []NoStrayCredential
<1>1. ASSUME IInv, AtRest, NEW c \in valid \ (spared \cup orphaned)
      PROVE  RecordedElsewhere(c)
  BY <1>1 DEF IInv, OwnerInv, Owned, AtRest, At
<1>2. IInv => NoStrayCredential
  BY <1>1 DEF NoStrayCredential
<1> QED
  BY <1>2, Invariance, PTL

\* A session that serves the thread knows the thread's credential, unless its
\* attachment was interrupted.
THEOREM AttachedKnowTheirs == Spec => []AttachedAreConfigured
<1>1. IInv => AttachedAreConfigured
  BY DEF IInv, AttachInv, AttachedAreConfigured, OpenLockFree
<1> QED
  BY <1>1, Invariance, PTL

=============================================================================
