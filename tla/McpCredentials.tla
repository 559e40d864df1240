---------------------------- MODULE McpCredentials ----------------------------
(***************************************************************************)
(* The MCP credential of one thread in ProviderSessionManager.ts, with the *)
(* registry of McpSessionRegistry.ts and the thread's configuration slot   *)
(* of McpProviderSession.ts. Sessions of the thread are opened, attached,  *)
(* detached and released at the same time; a provider process bakes in the *)
(* credential it finds in the slot and cannot take another one later.      *)
(*                                                                         *)
(* The open lock of a session and the prepare lock of the thread are used  *)
(* by their contract (KeyedSerial). Steps end where a fiber suspends: at a *)
(* lock, a token digest, an adapter call, a database write.                *)
(***************************************************************************)
EXTENDS Naturals, FiniteSets, TLC

CONSTANTS
    Session,         \* provider session ids of the thread
    Shared,          \* those of a provider that serves several threads
    Opener,          \* fibers that call open for the thread
    MaxCredentials,  \* bound: credentials issued
    MaxDisturbances  \* bound: failures, interruptions, expiries, archivings

ASSUME CredentialsAssumption ==
    /\ Shared \subseteq Session /\ IsFiniteSet(Opener)
    /\ MaxCredentials \in Nat /\ MaxDisturbances \in Nat

None == 0
Openers == Permutations(Opener)
Credential == 1 .. MaxCredentials

VARIABLES
    entry,        \* entry[s]: the live-session map, from the thread's view
    closing,      \* released entries whose finalizer has not run (two alike
                  \* count as one: their finalizers do the same)
    valid,        \* the registry's credentials of the thread
    slot,         \* the thread's configuration for adapters, or None
    reservations, \* reservations[c]: counted
    opener,       \* each opener: where it is, the session it opens, whether it
                  \* starts or attaches to it, the credential prepared (or being
                  \* validated), whether it was minted for this call, and what
                  \* the adapter baked into the process it starts
    issued,       \* credentials issued so far
    disturbances,
    \* history
    retired,      \* credentials that expired or whose thread was archived
    givenBack,    \* credentials revoked by the opener that minted them
    spared,       \* credentials a finalizer left to an opener in flight
    orphaned,     \* credentials an opener lost: interrupted, or its entry gone
    cutShort      \* sessions an interrupted attachment left half done

registryVars == <<valid, slot, issued>>
historyVars == <<retired, givenBack, spared, orphaned, cutShort>>
vars == <<entry, closing, registryVars, reservations, opener, disturbances, historyVars>>

Absent == [live |-> FALSE, attached |-> FALSE, cred |-> None, baked |-> None]

Idle == [at |-> "idle", target |-> None, way |-> "start",
         held |-> None, minted |-> FALSE, conf |-> None]
Busy == {"preparing", "resolving", "issuing", "launching", "opening", "persisting",
         "recording", "writing"}

(* Types, and credentials in the registry are ones that were issued. *)
TypeOK ==
    /\ entry \in [Session -> [live : BOOLEAN, attached : BOOLEAN,
                              cred : Credential \cup {None}, baked : Credential \cup {None}]]
    /\ closing \subseteq [session : Session, cred : Credential \cup {None}]
    /\ issued \in 0 .. MaxCredentials
    /\ valid \subseteq 1 .. issued
    /\ slot \in 0 .. issued
    /\ reservations \in [Credential -> Nat]
    /\ opener \in [Opener -> [at : Busy \cup {"idle"}, target : Session \cup {None},
                               way : {"start", "attach"}, held : Credential \cup {None},
                               minted : BOOLEAN, conf : Credential \cup {None}]]
    /\ disturbances \in 0 .. MaxDisturbances
    /\ retired \subseteq Credential /\ spared \subseteq Credential
    /\ givenBack \subseteq Credential
    /\ orphaned \subseteq Credential /\ cutShort \subseteq Session

Init ==
    /\ entry = [s \in Session |-> Absent]
    /\ closing = {}
    /\ valid = {} /\ slot = None /\ issued = 0
    /\ reservations = [c \in Credential |-> 0]
    /\ opener = [p \in Opener |-> Idle]
    /\ disturbances = 0
    /\ retired = {} /\ givenBack = {} /\ spared = {} /\ orphaned = {} /\ cutShort = {}

Disturb == disturbances < MaxDisturbances /\ disturbances' = disturbances + 1

At(p, step) == opener[p].at = step
Go(p, step) == opener' = [opener EXCEPT ![p].at = step]
Leave(p) == opener' = [opener EXCEPT ![p] = Idle]
Reserved(c) == c # None /\ reservations[c] > 0
Reserve(c) == reservations' = [reservations EXCEPT ![c] = @ + 1]
Drop(c) == reservations' =
    IF c = None THEN reservations
    ELSE [reservations EXCEPT ![c] = IF @ <= 1 THEN 0 ELSE @ - 1]

(* clearMcpSession: scoped to one credential, and to the whole thread. *)
Clear(c) ==
    /\ valid' = valid \ {c}
    /\ slot' = IF slot = c THEN None ELSE slot
    /\ UNCHANGED issued

ClearThread ==
    /\ valid' = {}
    /\ slot' = None
    /\ UNCHANGED issued

(* releaseEntry takes the entry out of the map; the rest is a finalizer's. *)
Remove(s) ==
    /\ entry' = [entry EXCEPT ![s] = Absent]
    /\ closing' = closing \cup {[session |-> s, cred |-> entry[s].cred]}

-----------------------------------------------------------------------------
(* open and ensureThreadAttached. *)

OpenLockFree(s) == \A p \in Opener : opener[p].target # s
PrepareLockFree == \A p \in Opener : opener[p].at \notin {"resolving", "issuing"}

(* A live session that serves the thread is returned as it is, another one *)
(* is attached if its provider can, and an absent one is started.          *)
Open(p, s) ==
    /\ At(p, "idle")
    /\ OpenLockFree(s)
    /\ entry[s].live => ~entry[s].attached /\ s \in Shared
    /\ entry' = [entry EXCEPT ![s].attached = entry[s].live]
    /\ opener' = [opener EXCEPT ![p] =
            [Idle EXCEPT !.at = "preparing", !.target = s,
                         !.way = IF entry[s].live THEN "attach" ELSE "start"]]
    /\ UNCHANGED <<closing, registryVars, reservations, disturbances, historyVars>>

(* prepareMcpSession, in the thread's prepare lock: the slot's credential  *)
(* is reserved before it is validated; without one the thread is rotated.  *)
Prepare(p) ==
    /\ At(p, "preparing")
    /\ PrepareLockFree
    /\ IF slot # None
       THEN /\ opener' = [opener EXCEPT ![p].at = "resolving", ![p].held = slot]
            /\ Reserve(slot)
            /\ UNCHANGED valid
       ELSE /\ valid' = {}
            /\ Go(p, "issuing")
            /\ UNCHANGED reservations
    /\ UNCHANGED <<entry, closing, slot, issued, disturbances, historyVars>>

Prepared(p) == IF opener[p].way = "start" THEN "launching" ELSE "recording"

\* The mutants, here and below: a definition each with one plausible bug.
ResolveKeepingReservation(p) ==
    /\ At(p, "resolving")
    /\ IF opener[p].held \in valid
       THEN Go(p, Prepared(p)) /\ UNCHANGED valid
       ELSE /\ valid' = {}
            /\ opener' = [opener EXCEPT ![p].at = "issuing", ![p].held = None]
    /\ UNCHANGED <<entry, closing, slot, issued, reservations, disturbances, historyVars>>

Resolve(p) ==
    /\ At(p, "resolving")
    /\ IF opener[p].held \in valid
       THEN Go(p, Prepared(p)) /\ UNCHANGED <<valid, reservations>>
       ELSE /\ Drop(opener[p].held)
            /\ valid' = {}
            /\ opener' = [opener EXCEPT ![p].at = "issuing", ![p].held = None]
    /\ UNCHANGED <<entry, closing, slot, issued, disturbances, historyVars>>

(* The new token is digested first; then everything happens at once. *)
Issue(p) ==
    LET c == issued + 1 IN
    /\ At(p, "issuing")
    /\ issued < MaxCredentials
    /\ issued' = c
    /\ valid' = valid \cup {c}
    /\ slot' = c
    /\ Reserve(c)
    /\ opener' = [opener EXCEPT ![p].at = Prepared(p), ![p].held = c, ![p].minted = TRUE]
    /\ UNCHANGED <<entry, closing, disturbances, historyVars>>

(* adapter.openSession reads the thread's slot for the process it starts.  *)
Launch(p) ==
    /\ At(p, "launching")
    /\ opener' = [opener EXCEPT ![p].at = "opening", ![p].conf = slot]
    /\ UNCHANGED <<entry, closing, registryVars, reservations, disturbances, historyVars>>

OpenSucceeds(p) ==
    /\ At(p, "opening")
    /\ entry' = [entry EXCEPT ![opener[p].target] =
            [live |-> TRUE, attached |-> TRUE, cred |-> opener[p].held, baked |-> opener[p].conf]]
    /\ Drop(opener[p].held)
    /\ Go(p, "persisting")
    /\ UNCHANGED <<closing, registryVars, disturbances, historyVars>>

(* Only a credential this call minted is revoked, another one is taken to  *)
(* be held by the process it was reused from.                              *)
GiveBack(p) ==
    IF opener[p].minted
    THEN Clear(opener[p].held) /\ givenBack' = givenBack \cup {opener[p].held}
    ELSE UNCHANGED <<registryVars, givenBack>>

OpenFails(p) ==
    /\ At(p, "opening")
    /\ Disturb
    /\ Drop(opener[p].held)
    /\ GiveBack(p)
    /\ Leave(p)
    /\ UNCHANGED <<entry, closing, retired, spared, orphaned, cutShort>>

Return(p) ==
    /\ At(p, "persisting")
    /\ Leave(p)
    /\ UNCHANGED <<entry, closing, registryVars, reservations, disturbances, historyVars>>

(* The attachment event is not stored: the new session is released again.  *)
PersistFails(p) ==
    /\ At(p, "persisting")
    /\ Disturb
    /\ IF entry[opener[p].target].live THEN Remove(opener[p].target) ELSE UNCHANGED <<entry, closing>>
    /\ Leave(p)
    /\ UNCHANGED <<registryVars, reservations, historyVars>>

RecordMintedOnly(p) ==
    LET s == opener[p].target IN
    /\ At(p, "recording")
    /\ IF entry[s].live
       THEN /\ entry' = IF opener[p].minted
                        THEN [entry EXCEPT ![s].cred = opener[p].held] ELSE entry
            /\ Go(p, "writing")
            /\ UNCHANGED <<reservations, orphaned>>
       ELSE /\ Drop(opener[p].held)
            /\ orphaned' = orphaned \cup {opener[p].held}
            /\ Leave(p)
            /\ UNCHANGED entry
    /\ UNCHANGED <<closing, registryVars, disturbances, retired, givenBack, spared, cutShort>>

(* An attachment is recorded in the entry, unless that is gone by now. *)
Record(p) ==
    LET s == opener[p].target IN
    /\ At(p, "recording")
    /\ IF entry[s].live
       THEN /\ entry' = [entry EXCEPT ![s].cred = opener[p].held]
            /\ Go(p, "writing")
            /\ UNCHANGED <<reservations, orphaned>>
       ELSE /\ Drop(opener[p].held)
            /\ orphaned' = orphaned \cup {opener[p].held}
            /\ Leave(p)
            /\ UNCHANGED entry
    /\ UNCHANGED <<closing, registryVars, disturbances, retired, givenBack, spared, cutShort>>

AttachSucceeds(p) ==
    /\ At(p, "writing")
    /\ Drop(opener[p].held)
    /\ Leave(p)
    /\ UNCHANGED <<entry, closing, registryVars, disturbances, historyVars>>

AttachFails(p) ==
    /\ At(p, "writing")
    /\ Disturb
    /\ entry' = [entry EXCEPT ![opener[p].target].attached = FALSE]
    /\ Drop(opener[p].held)
    /\ GiveBack(p)
    /\ Leave(p)
    /\ UNCHANGED <<closing, retired, spared, orphaned, cutShort>>

(* The opener's fiber is interrupted where it waits. prepareMcpSession's   *)
(* own reservation is not dropped, the caller's is; nothing is revoked and *)
(* no attachment is undone.                                                *)
Interrupt(p) ==
    LET s == opener[p].target IN
    /\ opener[p].at \in Busy
    /\ Disturb
    /\ IF opener[p].at \in {"launching", "opening", "recording", "writing"}
       THEN Drop(opener[p].held) ELSE UNCHANGED reservations
    /\ orphaned' = IF At(p, "persisting") \/ opener[p].held = None
                   THEN orphaned ELSE orphaned \cup {opener[p].held}
    /\ cutShort' = IF opener[p].way = "attach" /\ ~At(p, "writing") /\ entry[s].live
                   THEN cutShort \cup {s} ELSE cutShort
    /\ Leave(p)
    /\ UNCHANGED <<entry, closing, registryVars, retired, givenBack, spared>>

-----------------------------------------------------------------------------
(* The other operations, at any time. *)

(* A shared session that was opened for another thread. *)
OpenedForAnother(s) ==
    /\ s \in Shared /\ ~entry[s].live
    /\ OpenLockFree(s)
    /\ entry' = [entry EXCEPT ![s] = [Absent EXCEPT !.live = TRUE]]
    /\ UNCHANGED <<closing, registryVars, reservations, opener, disturbances, historyVars>>

(* A provider that starts its MCP client with the conversation bakes in    *)
(* what the slot then holds.                                               *)
StartConversation(s) ==
    /\ entry[s].attached /\ entry[s].baked = None /\ slot # None
    /\ OpenLockFree(s)
    /\ entry' = [entry EXCEPT ![s].baked = slot]
    /\ UNCHANGED <<closing, registryVars, reservations, opener, disturbances, historyVars>>

(* releaseEntry, for whatever reason. *)
Release(s) ==
    /\ entry[s].live
    /\ Remove(s)
    /\ UNCHANGED <<registryVars, reservations, opener, disturbances, historyVars>>

RecordedElsewhere(c) == \E s \in Session : entry[s].live /\ entry[s].cred = c
AttachedElsewhere == \E s \in Session : entry[s].attached

FinalizeBlindly(x) ==
    /\ x \in closing
    /\ closing' = closing \ {x}
    /\ IF x.cred = None \/ RecordedElsewhere(x.cred) THEN UNCHANGED registryVars
       ELSE Clear(x.cred)
    /\ UNCHANGED <<entry, reservations, opener, disturbances, historyVars>>

(* Its finalizer, after the scope closed and the release was persisted. *)
Finalize(x) ==
    LET c == x.cred
        heldElsewhere == Reserved(c) \/ AttachedElsewhere \/ RecordedElsewhere(c)
    IN
    /\ x \in closing
    /\ closing' = closing \ {x}
    /\ IF c = None \/ heldElsewhere
       THEN /\ spared' = IF c # None /\ ~RecordedElsewhere(c) THEN spared \cup {c} ELSE spared
            /\ UNCHANGED registryVars
       ELSE Clear(c) /\ UNCHANGED spared
    /\ UNCHANGED <<entry, reservations, opener, disturbances, retired, givenBack, orphaned, cutShort>>

DetachForgetting(s) ==
    /\ entry[s].attached
    /\ IF s \in Shared
       THEN /\ entry' = [entry EXCEPT ![s].attached = FALSE, ![s].cred = None]
            /\ UNCHANGED closing
       ELSE Remove(s)
    /\ UNCHANGED <<registryVars, reservations, opener, disturbances, historyVars>>

(* A detachment keeps the credential for the thread's return, unless the   *)
(* session serves nobody else and is released.                             *)
Detach(s) ==
    /\ entry[s].attached
    /\ IF s \in Shared
       THEN entry' = [entry EXCEPT ![s].attached = FALSE] /\ UNCHANGED closing
       ELSE Remove(s)
    /\ UNCHANGED <<registryVars, reservations, opener, disturbances, historyVars>>

(* The thread is archived or deleted: all its credentials go at once. *)
DetachTerminally(s) ==
    /\ Disturb
    /\ ClearThread
    /\ IF ~entry[s].attached THEN UNCHANGED <<entry, closing>>
       ELSE IF s \in Shared
       THEN /\ entry' = [entry EXCEPT ![s].attached = FALSE, ![s].cred = None]
            /\ UNCHANGED closing
       ELSE /\ entry' = [entry EXCEPT ![s] = Absent]
            /\ closing' = closing \cup {[session |-> s, cred |-> None]}
    /\ retired' = retired \cup valid
    /\ UNCHANGED <<reservations, opener, givenBack, spared, orphaned, cutShort>>

(* No sign of life for the liveness window, which no opening lasts. *)
Expire(c) ==
    /\ c \in valid
    /\ \A p \in Opener : opener[p].at \in Busy => opener[p].held # c
    /\ Disturb
    /\ valid' = valid \ {c}
    /\ retired' = retired \cup {c}
    /\ UNCHANGED <<entry, closing, slot, issued, reservations, opener, givenBack, spared, orphaned, cutShort>>

-----------------------------------------------------------------------------
Next ==
    \/ \E p \in Opener :
        \/ \E s \in Session : Open(p, s)
        \/ Prepare(p) \/ Resolve(p) \/ Issue(p)
        \/ Launch(p) \/ OpenSucceeds(p) \/ OpenFails(p)
        \/ Return(p) \/ PersistFails(p)
        \/ Record(p) \/ AttachSucceeds(p) \/ AttachFails(p)
        \/ Interrupt(p)
    \/ \E s \in Session :
        \/ OpenedForAnother(s) \/ StartConversation(s) \/ Release(s)
        \/ Detach(s) \/ DetachTerminally(s)
    \/ \E x \in closing : Finalize(x)
    \/ \E c \in valid : Expire(c)

Spec == Init /\ [][Next]_vars

-----------------------------------------------------------------------------
(* The credential a provider process was prepared and configured with      *)
(* works for as long as the thread is attached to its session, and while   *)
(* it is starting, unless it expired or the thread is gone: a reservation  *)
(* protects it from whoever else comes and goes.                           *)
BakedIn(c) ==
    \/ \E s \in Session : entry[s].attached /\ entry[s].cred = c /\ entry[s].baked = c
    \/ \E p \in Opener : At(p, "opening") /\ opener[p].held = c /\ opener[p].conf = c
ConfiguredCredentialsWork ==
    \A c \in Credential : BakedIn(c) => c \in valid \cup retired

(* The same but for one thing: an opener that fails revokes what it minted *)
(* without asking who reuses it. Releases, rotations and other openers'    *)
(* failures leave the credential alone.                                    *)
ReusedCredentialsWork ==
    \A c \in Credential : BakedIn(c) => c \in valid \cup retired \cup givenBack

(* At rest, a credential that still works belongs to a live session: it    *)
(* outlives its sessions only if a finalizer left it to an opener that did *)
(* not keep it, or an opener was interrupted or found its entry gone.      *)
AtRest == closing = {} /\ \A p \in Opener : At(p, "idle")
NoStrayCredential ==
    AtRest => \A c \in valid \ (spared \cup orphaned) : RecordedElsewhere(c)

(* A reservation stands for an opener between preparing a credential and   *)
(* recording it, and is dropped once, however that ends; only an           *)
(* interruption while the credential is being validated keeps one.         *)
Holds(p, c) == opener[p].held = c /\ opener[p].at \in Busy \ {"persisting"}
ReservationsAreHeld ==
    \A c \in Credential \ orphaned :
        reservations[c] = Cardinality({p \in Opener : Holds(p, c)})

(* A session that serves the thread knows the thread's credential, unless  *)
(* the attachment was interrupted half way.                                *)
AttachedAreConfigured ==
    \A s \in Session \ cutShort :
        entry[s].attached /\ OpenLockFree(s) => entry[s].cred # None
=============================================================================
