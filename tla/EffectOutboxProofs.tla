-------------------------- MODULE EffectOutboxProofs --------------------------
(***************************************************************************)
(* Proofs about EffectOutbox for every set of effects, threads and worker  *)
(* slots and every bound.                                                  *)
(***************************************************************************)
EXTENDS EffectOutbox, TLAPS

\* The schedule and the lease columns say the same as the status column: only
\* pending rows are due, only running rows lapse, and a running row carries the
\* token of its latest claim. Rows never enqueued have no history, and only
\* process-bound rows are ever cancelled.
RowInv ==
    /\ \A e \in lapsed : status[e] = "running" /\ e \in Slow
    /\ \A e \in Effect : status[e] = "cancelled" => ~ReplaySafe(e)
    /\ \A e \in due : status[e] = "pending"
    /\ \A e \in Effect : status[e] = "running" => owner[e] = attempts[e]
    /\ \A e \in Effect : status[e] = "absent" => performed[e] = {}

\* A busy slot holds a claim some claimNext minted, no two slots the same one,
\* and a slot that is about to report success has performed its effect. A lost
\* process has no slots.
SlotInv ==
    /\ ~up => \A w \in Worker : pc[w] = "idle"
    /\ \A w \in Worker : pc[w] = "idle" <=> task[w] = None
    /\ \A w \in Worker : pc[w] # "idle" =>
          /\ status[task[w]] # "absent"
          /\ claim[w] <= attempts[task[w]]
    /\ \A v, w \in Worker :
          v # w /\ pc[v] # "idle" /\ task[v] = task[w] => claim[v] # claim[w]
    /\ \A w \in Worker : pc[w] = "settling" /\ outcome[w] # "failure" =>
          claim[w] \in performed[task[w]]

\* The effects no second claimer ever works on beside the first: those that are
\* never requeued from under a claimer.
Undisputed(e) == ~ReplaySafe(e) \/ e \notin Slow

\* The claimer of such an effect is alone with it and owns the row until it is
\* settled.
SoleClaimerInv ==
    \A e \in Effect : Undisputed(e) =>
        /\ \A v, w \in Worker : task[v] = e /\ task[w] = e => v = w
        /\ \A w \in Worker : task[w] = e => Owned(w) \/ status[e] \in Settled

\* A process-bound effect once performed only waits for its settlement.
PerformedInv ==
    \A e \in Effect : ~ReplaySafe(e) /\ performed[e] # {} =>
        \A w \in Worker : task[w] = e => outcome[w] # "failure"

\* From the moment the signal is armed, the claimer of such an effect has the map
\* hold its own Deferred, or has received it.
SignalInv ==
    \A w \in Worker :
        pc[w] \in {"armed", "executing"} /\ Undisputed(task[w]) =>
            w \in fired \/ registered[task[w]] = claim[w]

IInv ==
    /\ TypeOK
    /\ RowInv
    /\ SlotInv
    /\ SoleClaimerInv
    /\ PerformedInv
    /\ SignalInv
    /\ CancellationReachesExecution
    /\ ProcessBoundRunsOnce
    /\ SucceededByLatestClaim
    /\ OneRunningPerThread

-----------------------------------------------------------------------------
\* Nothing is enqueued, claimed or performed when the server starts on an empty
\* database.
LEMMA InitInv == Init => IInv
<1> SUFFICES ASSUME Init PROVE IInv
  OBVIOUS
<1> USE OutboxAssumption DEF Init
<1>1. TypeOK
  BY DEF TypeOK, Unsettled, Settled
<1>2. RowInv
  BY DEF RowInv
<1>3. SlotInv
  BY DEF SlotInv
<1>4. SoleClaimerInv /\ PerformedInv /\ ProcessBoundRunsOnce
  BY DEF SoleClaimerInv, PerformedInv, ProcessBoundRunsOnce
<1>5. SucceededByLatestClaim /\ OneRunningPerThread
  BY DEF SucceededByLatestClaim, OneRunningPerThread
<1>6. SignalInv /\ CancellationReachesExecution
  BY DEF SignalInv, CancellationReachesExecution
<1> QED
  BY <1>1, <1>2, <1>3, <1>4, <1>5, <1>6 DEF IInv

-----------------------------------------------------------------------------
\* A slot gives up the row it owns; a row it puts back may run again only if
\* nothing was executed, the execution failed or the effect is replay-safe.
GivenUp(w, st) ==
    /\ Owned(w)
    /\ Release({task[w]}, st)
    /\ due' = due \/ (st = "pending" /\ due' = due \cup {task[w]})
    /\ st = "succeeded" => pc[w] = "settling" /\ outcome[w] # "failure"
    /\ st = "pending" => pc[w] = "armed" \/ outcome[w] = "failure" \/ ReplaySafe(task[w])

\* What a settlement comes to, whichever statement made it and whether or not
\* that statement failed: nothing, or the row given up.
Settlement(w) ==
    /\ pc[w] \in {"armed", "settling"}
    /\ Idle(w)
    /\ UNCHANGED <<attempts, up, retired, swept, performed, crashes>>
    /\ ahead' \in [Effect -> SUBSET Effect]
    /\ registered' = registered \/ registered' = [registered EXCEPT ![task[w]] = 0]
    /\ errors' \in Nat
    /\ \/ UNCHANGED <<status, owner, lapsed, due>>
       \/ \E st \in {"succeeded", "failed", "pending"} : GivenUp(w, st)

\* The three ways a slot leaves a claim are settlements.
LEMMA Settlements ==
    ASSUME IInv, NEW w \in Worker, Settle(w) \/ SettleError(w) \/ RereadError(w)
    PROVE  Settlement(w)
<1> DEFINE Typed == /\ ahead' \in [Effect -> SUBSET Effect]
                    /\ \/ registered' = registered
                       \/ registered' = [registered EXCEPT ![task[w]] = 0]
<1>1. /\ pc[w] \in {"armed", "settling"}
      /\ task[w] \in Effect
      /\ Idle(w)
      /\ UNCHANGED <<attempts, up, retired, swept, performed, crashes>>
      /\ errors' \in Nat
  <2>1. pc[w] \in {"armed", "settling"} /\ Idle(w)
    BY DEF Settle, SettleError, RereadError
  <2>2. task[w] \in Effect
    BY <2>1, OutboxAssumption DEF IInv, TypeOK, SlotInv
  <2>3. UNCHANGED <<attempts, up, retired, swept, performed, crashes>>
    BY DEF Settle, SettleError, RereadError, budgetVars
  <2>4. errors' = errors \/ errors' = errors + 1
    <3>1. CASE Settle(w)
      BY <3>1 DEF Settle, budgetVars
    <3>2. CASE SettleError(w) \/ RereadError(w)
      BY <3>2 DEF SettleError, RereadError
    <3> QED
      BY <3>1, <3>2
  <2> QED
    BY <2>1, <2>2, <2>3, <2>4 DEF IInv, TypeOK
<1>2. ASSUME NEW i \in BOOLEAN, Retry(w, i), Owned(w),
             pc[w] = "armed" \/ outcome[w] = "failure" \/ ReplaySafe(task[w])
      PROVE  GivenUp(w, "pending") /\ Typed
  <2>1. due' = due \/ due' = due \cup {task[w]}
    BY <1>2 DEF Retry, Reschedule
  <2>2. GivenUp(w, "pending")
    BY <1>2, <2>1 DEF Retry, GivenUp
  <2>3. ahead' \in [Effect -> SUBSET Effect]
    BY <1>2 DEF Retry, Reschedule, IInv, TypeOK
  <2>4. registered' = [registered EXCEPT ![task[w]] = 0]
    BY <1>2 DEF Retry, ClearCancellation
  <2> QED
    BY <2>2, <2>3, <2>4
<1>3. ASSUME Fail(w), Owned(w) PROVE GivenUp(w, "failed") /\ Typed
  <2>1. GivenUp(w, "failed")
    BY <1>3 DEF Fail, GivenUp
  <2>2. Typed
    BY <1>3 DEF Fail, ClearCancellation, IInv, TypeOK
  <2> QED
    BY <2>1, <2>2
<1>4. ASSUME Succeed(w), Owned(w), pc[w] = "settling", outcome[w] # "failure"
      PROVE  GivenUp(w, "succeeded") /\ Typed
  <2>1. GivenUp(w, "succeeded")
    BY <1>4 DEF Succeed, GivenUp
  <2>2. Typed
    BY <1>4 DEF Succeed, ClearCancellation, IInv, TypeOK
  <2> QED
    BY <2>1, <2>2
<1>5. ASSUME UNCHANGED <<status, owner, lapsed, due, ahead, registered>> PROVE Typed
  BY <1>5 DEF IInv, TypeOK
<1>6. /\ Typed
      /\ \/ UNCHANGED <<status, owner, lapsed, due>>
         \/ \E st \in {"succeeded", "failed", "pending"} : GivenUp(w, st)
  <2>1. CASE Settle(w)
    BY <1>2, <1>3, <1>4, <1>5, <2>1 DEF Settle, Refused
  <2>2. CASE SettleError(w)
    BY <1>2, <1>3, <1>5, <2>2 DEF SettleError, RecoverClaim
  <2>3. CASE RereadError(w)
    BY <1>2, <1>5, <2>3 DEF RereadError, Refused
  <2> QED
    BY <2>1, <2>2, <2>3
<1> QED
  BY <1>1, <1>6 DEF Settlement

-----------------------------------------------------------------------------
\* Every step keeps the types.
LEMMA TypeStep == IInv /\ [Next]_vars => TypeOK'
<1> SUFFICES ASSUME IInv, [Next]_vars PROVE TypeOK'
  OBVIOUS
<1> USE OutboxAssumption DEF IInv, TypeOK, SlotInv, Unsettled, Settled, rowVars,
   slotVars, budgetVars
<1>1. ASSUME NEW e \in Effect, Enqueue(e) PROVE TypeOK'
  BY <1>1 DEF Enqueue, Reschedule
<1>2. ASSUME NEW t \in Thread, NEW types \in CancelClasses, CancelUnsettled(t, types) PROVE TypeOK'
  BY <1>2 DEF CancelUnsettled, Release, Reschedule
<1>3. ASSUME NEW e \in Effect, SignalCancellation(e) PROVE TypeOK'
  BY <1>3 DEF SignalCancellation, Armed
<1>4. ASSUME ExpireLeases PROVE TypeOK'
  BY <1>4 DEF ExpireLeases, Reschedule
<1>5. ASSUME NEW e \in Effect, SignalExpired(e) PROVE TypeOK'
  BY <1>5 DEF SignalExpired, Armed
<1>6. ASSUME NEW w \in Worker, NEW e \in Effect, ClaimNext(w, e) PROVE TypeOK'
  BY <1>6 DEF ClaimNext, Claimable, Reschedule
<1>7. ASSUME NEW w \in Worker, Arm(w) PROVE TypeOK'
  BY <1>7 DEF Arm
<1>8. ASSUME NEW w \in Worker, RereadCancelled(w) PROVE TypeOK'
  BY <1>8 DEF RereadCancelled, ClearCancellation, Idle
<1>9. ASSUME NEW w \in Worker, BeginExecution(w) PROVE TypeOK'
  BY <1>9 DEF BeginExecution
<1>10. ASSUME NEW w \in Worker, NEW r \in {"success", "notActive", "failure"}, FinishExecution(w, r) PROVE TypeOK'
  BY <1>10 DEF FinishExecution, ClearCancellation
<1>11. ASSUME NEW w \in Worker, WithdrawExecution(w) PROVE TypeOK'
  BY <1>11 DEF WithdrawExecution
<1>12. ASSUME NEW w \in Worker, ExecutionStopped(w) PROVE TypeOK'
  BY <1>12 DEF ExecutionStopped, ClearCancellation, Idle
<1>13. ASSUME NEW w \in Worker, Settlement(w) PROVE TypeOK'
  <2>1. registered' \in [Effect -> Nat]
    BY <1>13 DEF Settlement
  <2>2. /\ status' \in [Effect -> {"absent"} \cup Unsettled \cup Settled]
        /\ owner' \in [Effect -> Nat]
        /\ lapsed' \in SUBSET Effect /\ due' \in SUBSET Effect
    BY <1>13 DEF Settlement, GivenUp, Release, Owned
  <2> QED
    BY <1>13, <2>1, <2>2 DEF Settlement, Idle
<1>14. ASSUME NEW e \in Effect, BackoffElapses(e) PROVE TypeOK'
  BY <1>14 DEF BackoffElapses, Reschedule
<1>15. ASSUME NEW e \in Effect, LeaseLapses(e) PROVE TypeOK'
  BY <1>15 DEF LeaseLapses
<1>16. ASSUME Crash PROVE TypeOK'
  <2>1. crashes' \in Nat
    BY <1>16 DEF Crash
  <2> QED
    BY <1>16, <2>1 DEF Crash
<1>17. ASSUME Restart PROVE TypeOK'
  BY <1>17 DEF Restart, Reschedule
<1>18. ASSUME UNCHANGED vars PROVE TypeOK'
  BY <1>18 DEF vars
<1> HIDE OutboxAssumption DEF IInv, TypeOK, SlotInv, Unsettled, Settled, rowVars,
   slotVars, budgetVars
<1> QED
  BY <1>1, <1>2, <1>3, <1>4, <1>5, <1>6, <1>7, <1>8, <1>9, <1>10, <1>11, <1>12,
     <1>13, <1>14, <1>15, <1>16, <1>17, <1>18, Settlements DEF Next, WorkerStep
-----------------------------------------------------------------------------
\* No command cancels a replay-safe effect.
LEMMA OnlyProcessBoundCancelled ==
  ASSUME NEW types \in CancelClasses, NEW e \in Effect, TypeOf[e] \in types
  PROVE  ~ReplaySafe(e)
BY DEF CancelClasses, ReplaySafe, ReplaySafeTypes, ProcessBoundTypes

\* Every step keeps the schedule, the leases and the history in line with the
\* status.
LEMMA RowStep == IInv /\ [Next]_vars => RowInv'
<1> SUFFICES ASSUME IInv, [Next]_vars PROVE RowInv'
  OBVIOUS
<1> USE OutboxAssumption DEF IInv, RowInv, TypeOK, SlotInv, Unsettled, Settled,
   rowVars, slotVars, budgetVars
<1>1. ASSUME NEW e \in Effect, Enqueue(e) PROVE RowInv'
  BY <1>1 DEF Enqueue, Reschedule
<1>2. ASSUME NEW t \in Thread, NEW types \in CancelClasses, CancelUnsettled(t, types) PROVE RowInv'
  BY <1>2, OnlyProcessBoundCancelled DEF CancelUnsettled, Release, Reschedule
<1>3. ASSUME NEW e \in Effect, SignalCancellation(e) PROVE RowInv'
  BY <1>3 DEF SignalCancellation, Armed
<1>4. ASSUME ExpireLeases PROVE RowInv'
  BY <1>4 DEF ExpireLeases, Reschedule
<1>5. ASSUME NEW e \in Effect, SignalExpired(e) PROVE RowInv'
  BY <1>5 DEF SignalExpired, Armed
<1>6. ASSUME NEW w \in Worker, NEW e \in Effect, ClaimNext(w, e) PROVE RowInv'
  BY <1>6 DEF ClaimNext, Claimable, Reschedule
<1>7. ASSUME NEW w \in Worker, Arm(w) PROVE RowInv'
  BY <1>7 DEF Arm
<1>8. ASSUME NEW w \in Worker, RereadCancelled(w) PROVE RowInv'
  BY <1>8 DEF RereadCancelled, ClearCancellation, Idle
<1>9. ASSUME NEW w \in Worker, BeginExecution(w) PROVE RowInv'
  BY <1>9 DEF BeginExecution
<1>10. ASSUME NEW w \in Worker, NEW r \in {"success", "notActive", "failure"}, FinishExecution(w, r) PROVE RowInv'
  BY <1>10 DEF FinishExecution, ClearCancellation
<1>11. ASSUME NEW w \in Worker, WithdrawExecution(w) PROVE RowInv'
  BY <1>11 DEF WithdrawExecution
<1>12. ASSUME NEW w \in Worker, ExecutionStopped(w) PROVE RowInv'
  BY <1>12 DEF ExecutionStopped, ClearCancellation, Idle
<1>13. ASSUME NEW w \in Worker, Settlement(w) PROVE RowInv'
  <2>1. attempts' = attempts /\ performed' = performed
    BY <1>13 DEF Settlement
  <2>2. CASE UNCHANGED <<status, owner, lapsed, due>>
    BY <2>1, <2>2
  <2>3. ASSUME NEW st \in {"succeeded", "failed", "pending"}, GivenUp(w, st) PROVE RowInv'
    <3>1. status[task[w]] = "running" /\ task[w] \in Effect
      BY <1>13, <2>3 DEF GivenUp, Owned, Settlement
    <3>2. /\ status' = [e \in Effect |-> IF e \in {task[w]} THEN st ELSE status[e]]
          /\ owner' = [e \in Effect |-> IF e \in {task[w]} THEN 0 ELSE owner[e]]
          /\ lapsed' = lapsed \ {task[w]}
          /\ due' = due \/ (st = "pending" /\ due' = due \cup {task[w]})
      BY <2>3 DEF GivenUp, Release
    <3>3. \A e \in lapsed' : status'[e] = "running" /\ e \in Slow
      BY <3>2
    <3>7. \A e \in Effect : status'[e] = "cancelled" => ~ReplaySafe(e)
      BY <2>3, <3>2
    <3>4. ASSUME NEW e \in due' PROVE status'[e] = "pending"
      <4>1. CASE e = task[w]
        <5>1. e \notin due
          BY <3>1, <4>1
        <5> QED
          BY <3>1, <3>2, <4>1, <5>1
      <4>2. CASE e # task[w]
        BY <3>2, <4>2
      <4> QED
        BY <4>1, <4>2
    <3>5. \A e \in Effect : status'[e] = "running" => owner'[e] = attempts'[e]
      BY <2>1, <2>3, <3>2
    <3>6. \A e \in Effect : status'[e] = "absent" => performed'[e] = {}
      BY <2>1, <2>3, <3>2
    <3> QED
      BY <3>3, <3>4, <3>5, <3>6, <3>7 DEF ReplaySafe
  <2> QED
    BY <1>13, <2>2, <2>3 DEF Settlement
<1>14. ASSUME NEW e \in Effect, BackoffElapses(e) PROVE RowInv'
  BY <1>14 DEF BackoffElapses, Reschedule
<1>15. ASSUME NEW e \in Effect, LeaseLapses(e) PROVE RowInv'
  BY <1>15 DEF LeaseLapses
<1>16. ASSUME Crash PROVE RowInv'
  BY <1>16 DEF Crash
<1>17. ASSUME Restart PROVE RowInv'
  BY <1>17 DEF Restart, Reschedule
<1>18. ASSUME UNCHANGED vars PROVE RowInv'
  BY <1>18 DEF vars
<1> HIDE OutboxAssumption DEF IInv, RowInv, TypeOK, SlotInv, Unsettled, Settled,
   rowVars, slotVars, budgetVars
<1> QED
  BY <1>1, <1>2, <1>3, <1>4, <1>5, <1>6, <1>7, <1>8, <1>9, <1>10, <1>11, <1>12,
     <1>13, <1>14, <1>15, <1>16, <1>17, <1>18, Settlements DEF Next, WorkerStep
-----------------------------------------------------------------------------
\* Every step leaves the busy slots with claims of their own, minted by claimNext.
LEMMA SlotStep == IInv /\ [Next]_vars => SlotInv'
<1> SUFFICES ASSUME IInv, [Next]_vars PROVE SlotInv'
  OBVIOUS
<1> USE OutboxAssumption DEF IInv, RowInv, TypeOK, SlotInv, Unsettled, Settled,
   rowVars, slotVars, budgetVars
<1>1. ASSUME NEW e \in Effect, Enqueue(e) PROVE SlotInv'
  BY <1>1 DEF Enqueue, Reschedule
<1>2. ASSUME NEW t \in Thread, NEW types \in CancelClasses, CancelUnsettled(t, types) PROVE SlotInv'
  BY <1>2 DEF CancelUnsettled, Release, Reschedule
<1>3. ASSUME NEW e \in Effect, SignalCancellation(e) PROVE SlotInv'
  BY <1>3 DEF SignalCancellation, Armed
<1>4. ASSUME ExpireLeases PROVE SlotInv'
  BY <1>4 DEF ExpireLeases, Reschedule
<1>5. ASSUME NEW e \in Effect, SignalExpired(e) PROVE SlotInv'
  BY <1>5 DEF SignalExpired, Armed
<1>6. ASSUME NEW w \in Worker, NEW e \in Effect, ClaimNext(w, e) PROVE SlotInv'
  BY <1>6 DEF ClaimNext, Claimable, Reschedule
<1>7. ASSUME NEW w \in Worker, Arm(w) PROVE SlotInv'
  BY <1>7 DEF Arm
<1>8. ASSUME NEW w \in Worker, RereadCancelled(w) PROVE SlotInv'
  BY <1>8 DEF RereadCancelled, ClearCancellation, Idle
<1>9. ASSUME NEW w \in Worker, BeginExecution(w) PROVE SlotInv'
  BY <1>9 DEF BeginExecution
<1>10. ASSUME NEW w \in Worker, NEW r \in {"success", "notActive", "failure"}, FinishExecution(w, r) PROVE SlotInv'
  BY <1>10 DEF FinishExecution, ClearCancellation
<1>11. ASSUME NEW w \in Worker, WithdrawExecution(w) PROVE SlotInv'
  BY <1>11 DEF WithdrawExecution
<1>12. ASSUME NEW w \in Worker, ExecutionStopped(w) PROVE SlotInv'
  BY <1>12 DEF ExecutionStopped, ClearCancellation, Idle
<1>13. ASSUME NEW w \in Worker, Settlement(w) PROVE SlotInv'
  BY <1>13 DEF Settlement, GivenUp, Release, Idle, Owned
<1>14. ASSUME NEW e \in Effect, BackoffElapses(e) PROVE SlotInv'
  BY <1>14 DEF BackoffElapses, Reschedule
<1>15. ASSUME NEW e \in Effect, LeaseLapses(e) PROVE SlotInv'
  BY <1>15 DEF LeaseLapses
<1>16. ASSUME Crash PROVE SlotInv'
  BY <1>16 DEF Crash
<1>17. ASSUME Restart PROVE SlotInv'
  BY <1>17 DEF Restart, Reschedule
<1>18. ASSUME UNCHANGED vars PROVE SlotInv'
  BY <1>18 DEF vars
<1> HIDE OutboxAssumption DEF IInv, RowInv, TypeOK, SlotInv, Unsettled, Settled,
   rowVars, slotVars, budgetVars
<1> QED
  BY <1>1, <1>2, <1>3, <1>4, <1>5, <1>6, <1>7, <1>8, <1>9, <1>10, <1>11, <1>12,
     <1>13, <1>14, <1>15, <1>16, <1>17, <1>18, Settlements DEF Next, WorkerStep
-----------------------------------------------------------------------------
\* No step takes an unsettled row from a claimer nothing can be requeued under, or
\* gives it to a second one.
LEMMA SoleClaimerStep == IInv /\ [Next]_vars => SoleClaimerInv'
<1> SUFFICES ASSUME IInv, [Next]_vars PROVE SoleClaimerInv'
  OBVIOUS
<1> USE OutboxAssumption DEF IInv, RowInv, SoleClaimerInv, Undisputed, Owned, TypeOK, SlotInv,
   Unsettled, Settled, rowVars, slotVars, budgetVars
<1>1. ASSUME NEW e \in Effect, Enqueue(e) PROVE SoleClaimerInv'
  BY <1>1 DEF Enqueue, Reschedule
<1>2. ASSUME NEW t \in Thread, NEW types \in CancelClasses, CancelUnsettled(t, types) PROVE SoleClaimerInv'
  BY <1>2 DEF CancelUnsettled, Release, Reschedule
<1>3. ASSUME NEW e \in Effect, SignalCancellation(e) PROVE SoleClaimerInv'
  BY <1>3 DEF SignalCancellation, Armed
<1>4. ASSUME ExpireLeases PROVE SoleClaimerInv'
  BY <1>4 DEF ExpireLeases, Reschedule
<1>5. ASSUME NEW e \in Effect, SignalExpired(e) PROVE SoleClaimerInv'
  BY <1>5 DEF SignalExpired, Armed
<1>6. ASSUME NEW w \in Worker, NEW e \in Effect, ClaimNext(w, e) PROVE SoleClaimerInv'
  BY <1>6 DEF ClaimNext, Claimable, Reschedule
<1>7. ASSUME NEW w \in Worker, Arm(w) PROVE SoleClaimerInv'
  BY <1>7 DEF Arm
<1>8. ASSUME NEW w \in Worker, RereadCancelled(w) PROVE SoleClaimerInv'
  BY <1>8 DEF RereadCancelled, ClearCancellation, Idle
<1>9. ASSUME NEW w \in Worker, BeginExecution(w) PROVE SoleClaimerInv'
  BY <1>9 DEF BeginExecution
<1>10. ASSUME NEW w \in Worker, NEW r \in {"success", "notActive", "failure"}, FinishExecution(w, r) PROVE SoleClaimerInv'
  BY <1>10 DEF FinishExecution, ClearCancellation
<1>11. ASSUME NEW w \in Worker, WithdrawExecution(w) PROVE SoleClaimerInv'
  BY <1>11 DEF WithdrawExecution
<1>12. ASSUME NEW w \in Worker, ExecutionStopped(w) PROVE SoleClaimerInv'
  BY <1>12 DEF ExecutionStopped, ClearCancellation, Idle
<1>13. ASSUME NEW w \in Worker, Settlement(w) PROVE SoleClaimerInv'
  <2>1. /\ \A v \in Worker : v # w => task'[v] = task[v] /\ claim'[v] = claim[v]
        /\ task'[w] = None
    BY <1>13 DEF Settlement, Idle
  <2> SUFFICES ASSUME NEW e \in Effect, Undisputed(e)
               PROVE  /\ \A u, v \in Worker : task'[u] = e /\ task'[v] = e => u = v
                      /\ \A v \in Worker : task'[v] = e => Owned(v)' \/ status'[e] \in Settled
    BY DEF ReplaySafe
  <2>2. \A v \in Worker : task'[v] = e => v # w /\ task[v] = e /\ task[w] # e
    BY <2>1
  <2>3. task[w] # e => status'[e] = status[e] /\ owner'[e] = owner[e]
    BY <1>13 DEF Settlement, GivenUp, Release
  <2> QED
    BY <2>1, <2>2, <2>3
<1>14. ASSUME NEW e \in Effect, BackoffElapses(e) PROVE SoleClaimerInv'
  BY <1>14 DEF BackoffElapses, Reschedule
<1>15. ASSUME NEW e \in Effect, LeaseLapses(e) PROVE SoleClaimerInv'
  BY <1>15 DEF LeaseLapses
<1>16. ASSUME Crash PROVE SoleClaimerInv'
  BY <1>16 DEF Crash
<1>17. ASSUME Restart PROVE SoleClaimerInv'
  BY <1>17 DEF Restart, Reschedule
<1>18. ASSUME UNCHANGED vars PROVE SoleClaimerInv'
  BY <1>18 DEF vars
<1> HIDE OutboxAssumption DEF IInv, RowInv, SoleClaimerInv, Undisputed, Owned, TypeOK, SlotInv,
   Unsettled, Settled, rowVars, slotVars, budgetVars
<1> QED
  BY <1>1, <1>2, <1>3, <1>4, <1>5, <1>6, <1>7, <1>8, <1>9, <1>10, <1>11, <1>12,
     <1>13, <1>14, <1>15, <1>16, <1>17, <1>18, Settlements DEF Next, WorkerStep
-----------------------------------------------------------------------------
\* A slot that leaves runOnce leaves the others as they are.
LEMMA Leaving ==
  ASSUME IInv, NEW w \in Worker, Idle(w)
  PROVE  /\ task'[w] = None
         /\ \A v \in Worker \ {w} : /\ pc'[v] = pc[v] /\ task'[v] = task[v]
                                   /\ claim'[v] = claim[v] /\ outcome'[v] = outcome[v]
BY DEF IInv, TypeOK, Idle

LEMMA LeavingKeepsPerformed ==
  ASSUME IInv, NEW w \in Worker, Idle(w), UNCHANGED performed
  PROVE  PerformedInv'
<1>1. \A e \in Effect, v \in Worker : task'[v] = e => v # w
  BY Leaving, OutboxAssumption
<1> QED
  BY <1>1, Leaving DEF PerformedInv, IInv, ReplaySafe

\* A process-bound effect is performed by its only claimer, which then succeeds.
LEMMA PerformedStep == IInv /\ [Next]_vars => PerformedInv'
<1> SUFFICES ASSUME IInv, [Next]_vars PROVE PerformedInv'
  OBVIOUS
<1> USE OutboxAssumption DEF IInv, RowInv, PerformedInv, ProcessBoundRunsOnce, SoleClaimerInv,
   Undisputed, Owned, TypeOK, SlotInv, Unsettled, Settled, rowVars, slotVars, budgetVars
<1>1. ASSUME NEW e \in Effect, Enqueue(e) PROVE PerformedInv'
  BY <1>1 DEF Enqueue, Reschedule
<1>2. ASSUME NEW t \in Thread, NEW types \in CancelClasses, CancelUnsettled(t, types) PROVE PerformedInv'
  BY <1>2 DEF CancelUnsettled, Release, Reschedule
<1>3. ASSUME NEW e \in Effect, SignalCancellation(e) PROVE PerformedInv'
  BY <1>3 DEF SignalCancellation, Armed
<1>4. ASSUME ExpireLeases PROVE PerformedInv'
  BY <1>4 DEF ExpireLeases, Reschedule
<1>5. ASSUME NEW e \in Effect, SignalExpired(e) PROVE PerformedInv'
  BY <1>5 DEF SignalExpired, Armed
<1>6. ASSUME NEW w \in Worker, NEW e \in Effect, ClaimNext(w, e) PROVE PerformedInv'
  <2>1. ~ReplaySafe(e) => performed[e] = {}
    BY <1>6 DEF ClaimNext, Claimable
  <2>2. /\ \A v \in Worker : v # w => task'[v] = task[v]
        /\ task'[w] = e
        /\ performed' = performed /\ outcome' = outcome
    BY <1>6 DEF ClaimNext
  <2> QED
    BY <2>1, <2>2 DEF ReplaySafe
<1>7. ASSUME NEW w \in Worker, Arm(w) PROVE PerformedInv'
  BY <1>7 DEF Arm
<1>8. ASSUME NEW w \in Worker, RereadCancelled(w) PROVE PerformedInv'
  BY <1>8, LeavingKeepsPerformed DEF RereadCancelled
<1>9. ASSUME NEW w \in Worker, BeginExecution(w) PROVE PerformedInv'
  BY <1>9 DEF BeginExecution
<1>10. ASSUME NEW w \in Worker, NEW r \in {"success", "notActive", "failure"}, FinishExecution(w, r) PROVE PerformedInv'
  BY <1>10 DEF FinishExecution, ClearCancellation
<1>11. ASSUME NEW w \in Worker, WithdrawExecution(w) PROVE PerformedInv'
  BY <1>11 DEF WithdrawExecution
<1>12. ASSUME NEW w \in Worker, ExecutionStopped(w) PROVE PerformedInv'
  BY <1>12, LeavingKeepsPerformed DEF ExecutionStopped
<1>13. ASSUME NEW w \in Worker, Settlement(w) PROVE PerformedInv'
  BY <1>13, LeavingKeepsPerformed DEF Settlement
<1>14. ASSUME NEW e \in Effect, BackoffElapses(e) PROVE PerformedInv'
  BY <1>14 DEF BackoffElapses, Reschedule
<1>15. ASSUME NEW e \in Effect, LeaseLapses(e) PROVE PerformedInv'
  BY <1>15 DEF LeaseLapses
<1>16. ASSUME Crash PROVE PerformedInv'
  BY <1>16 DEF Crash
<1>17. ASSUME Restart PROVE PerformedInv'
  BY <1>17 DEF Restart, Reschedule
<1>18. ASSUME UNCHANGED vars PROVE PerformedInv'
  BY <1>18 DEF vars
<1> HIDE OutboxAssumption DEF IInv, RowInv, PerformedInv, ProcessBoundRunsOnce, SoleClaimerInv,
   Undisputed, Owned, TypeOK, SlotInv, Unsettled, Settled, rowVars, slotVars, budgetVars
<1> QED
  BY <1>1, <1>2, <1>3, <1>4, <1>5, <1>6, <1>7, <1>8, <1>9, <1>10, <1>11, <1>12,
     <1>13, <1>14, <1>15, <1>16, <1>17, <1>18, Settlements DEF Next, WorkerStep
-----------------------------------------------------------------------------
\* A signal armed for an undisputed claim is taken from the map by its own slot, or
\* once it was fired.
LEMMA SignalStep == IInv /\ [Next]_vars => SignalInv'
<1> SUFFICES ASSUME IInv, [Next]_vars PROVE SignalInv'
  OBVIOUS
<1> USE OutboxAssumption DEF IInv, SignalInv, SoleClaimerInv, Undisputed, TypeOK, SlotInv,
   rowVars, slotVars, budgetVars
<1>1. ASSUME NEW e \in Effect, Enqueue(e) PROVE SignalInv'
  BY <1>1 DEF Enqueue, Reschedule
<1>2. ASSUME NEW t \in Thread, NEW types \in CancelClasses, CancelUnsettled(t, types) PROVE SignalInv'
  BY <1>2 DEF CancelUnsettled, Release, Reschedule
<1>3. ASSUME NEW e \in Effect, SignalCancellation(e) PROVE SignalInv'
  BY <1>3 DEF SignalCancellation, Armed
<1>4. ASSUME ExpireLeases PROVE SignalInv'
  BY <1>4 DEF ExpireLeases, Reschedule
<1>5. ASSUME NEW e \in Effect, SignalExpired(e) PROVE SignalInv'
  BY <1>5 DEF SignalExpired, Armed
<1>6. ASSUME NEW w \in Worker, NEW e \in Effect, ClaimNext(w, e) PROVE SignalInv'
  BY <1>6 DEF ClaimNext, Claimable, Reschedule
<1>7. ASSUME NEW w \in Worker, Arm(w) PROVE SignalInv'
  BY <1>7 DEF Arm
<1>8. ASSUME NEW w \in Worker, RereadCancelled(w) PROVE SignalInv'
  BY <1>8 DEF RereadCancelled, ClearCancellation, Idle
<1>9. ASSUME NEW w \in Worker, BeginExecution(w) PROVE SignalInv'
  BY <1>9 DEF BeginExecution
<1>10. ASSUME NEW w \in Worker, NEW r \in {"success", "notActive", "failure"}, FinishExecution(w, r) PROVE SignalInv'
  BY <1>10 DEF FinishExecution, ClearCancellation
<1>11. ASSUME NEW w \in Worker, WithdrawExecution(w) PROVE SignalInv'
  BY <1>11 DEF WithdrawExecution
<1>12. ASSUME NEW w \in Worker, ExecutionStopped(w) PROVE SignalInv'
  BY <1>12 DEF ExecutionStopped, ClearCancellation, Idle
<1>13. ASSUME NEW w \in Worker, Settlement(w) PROVE SignalInv'
  BY <1>13 DEF Settlement, Idle, Undisputed
<1>14. ASSUME NEW e \in Effect, BackoffElapses(e) PROVE SignalInv'
  BY <1>14 DEF BackoffElapses, Reschedule
<1>15. ASSUME NEW e \in Effect, LeaseLapses(e) PROVE SignalInv'
  BY <1>15 DEF LeaseLapses
<1>16. ASSUME Crash PROVE SignalInv'
  BY <1>16 DEF Crash
<1>17. ASSUME Restart PROVE SignalInv'
  BY <1>17 DEF Restart, Reschedule
<1>18. ASSUME UNCHANGED vars PROVE SignalInv'
  BY <1>18 DEF vars
<1> HIDE OutboxAssumption DEF IInv, SignalInv, SoleClaimerInv, Undisputed, TypeOK, SlotInv,
   rowVars, slotVars, budgetVars
<1> QED
  BY <1>1, <1>2, <1>3, <1>4, <1>5, <1>6, <1>7, <1>8, <1>9, <1>10, <1>11, <1>12,
     <1>13, <1>14, <1>15, <1>16, <1>17, <1>18, Settlements DEF Next, WorkerStep
-----------------------------------------------------------------------------
\* A cancellation overtakes no slot: one that re-read its row before the
\* cancellation has its signal armed when the signals are sent.
LEMMA ReachStep == IInv /\ [Next]_vars => CancellationReachesExecution'
<1> SUFFICES ASSUME IInv, [Next]_vars PROVE CancellationReachesExecution'
  OBVIOUS
<1> USE OutboxAssumption DEF IInv, RowInv, SignalInv, CancellationReachesExecution,
   Undisputed, TypeOK, SlotInv, Unsettled, Settled, rowVars, slotVars, budgetVars
<1>1. ASSUME NEW e \in Effect, Enqueue(e) PROVE CancellationReachesExecution'
  BY <1>1 DEF Enqueue, Reschedule
<1>2. ASSUME NEW t \in Thread, NEW types \in CancelClasses, CancelUnsettled(t, types) PROVE CancellationReachesExecution'
  BY <1>2 DEF CancelUnsettled, Release, Reschedule
<1>3. ASSUME NEW e \in Effect, SignalCancellation(e) PROVE CancellationReachesExecution'
  BY <1>3 DEF SignalCancellation, Armed
<1>4. ASSUME ExpireLeases PROVE CancellationReachesExecution'
  BY <1>4 DEF ExpireLeases, Reschedule
<1>5. ASSUME NEW e \in Effect, SignalExpired(e) PROVE CancellationReachesExecution'
  BY <1>5 DEF SignalExpired, Armed
<1>6. ASSUME NEW w \in Worker, NEW e \in Effect, ClaimNext(w, e) PROVE CancellationReachesExecution'
  BY <1>6 DEF ClaimNext, Claimable, Reschedule
<1>7. ASSUME NEW w \in Worker, Arm(w) PROVE CancellationReachesExecution'
  BY <1>7 DEF Arm
<1>8. ASSUME NEW w \in Worker, RereadCancelled(w) PROVE CancellationReachesExecution'
  BY <1>8 DEF RereadCancelled, ClearCancellation, Idle
<1>9. ASSUME NEW w \in Worker, BeginExecution(w) PROVE CancellationReachesExecution'
  BY <1>9 DEF BeginExecution
<1>10. ASSUME NEW w \in Worker, NEW r \in {"success", "notActive", "failure"}, FinishExecution(w, r) PROVE CancellationReachesExecution'
  BY <1>10 DEF FinishExecution, ClearCancellation
<1>11. ASSUME NEW w \in Worker, WithdrawExecution(w) PROVE CancellationReachesExecution'
  BY <1>11 DEF WithdrawExecution
<1>12. ASSUME NEW w \in Worker, ExecutionStopped(w) PROVE CancellationReachesExecution'
  BY <1>12 DEF ExecutionStopped, ClearCancellation, Idle
<1>13. ASSUME NEW w \in Worker, Settlement(w) PROVE CancellationReachesExecution'
  BY <1>13 DEF Settlement, GivenUp, Release, Idle, Owned
<1>14. ASSUME NEW e \in Effect, BackoffElapses(e) PROVE CancellationReachesExecution'
  BY <1>14 DEF BackoffElapses, Reschedule
<1>15. ASSUME NEW e \in Effect, LeaseLapses(e) PROVE CancellationReachesExecution'
  BY <1>15 DEF LeaseLapses
<1>16. ASSUME Crash PROVE CancellationReachesExecution'
  BY <1>16 DEF Crash
<1>17. ASSUME Restart PROVE CancellationReachesExecution'
  BY <1>17 DEF Restart, Reschedule
<1>18. ASSUME UNCHANGED vars PROVE CancellationReachesExecution'
  BY <1>18 DEF vars
<1> HIDE OutboxAssumption DEF IInv, RowInv, SignalInv, CancellationReachesExecution,
   Undisputed, TypeOK, SlotInv, Unsettled, Settled, rowVars, slotVars, budgetVars
<1> QED
  BY <1>1, <1>2, <1>3, <1>4, <1>5, <1>6, <1>7, <1>8, <1>9, <1>10, <1>11, <1>12,
     <1>13, <1>14, <1>15, <1>16, <1>17, <1>18, Settlements DEF Next, WorkerStep
-----------------------------------------------------------------------------
\* A settlement puts a performed process-bound row back for nobody.
LEMMA SettledOnce ==
  ASSUME IInv, NEW w \in Worker, Settlement(w)
  PROVE  ProcessBoundRunsOnce'
<1>1. /\ task'[w] = None
      /\ \A v \in Worker \ {w} : task'[v] = task[v] /\ pc'[v] = pc[v]
      /\ performed' = performed
  BY Leaving DEF Settlement
<1> SUFFICES ASSUME NEW e \in Effect, ~ReplaySafe(e)
             PROVE  /\ \A u, v \in Worker : task'[u] = e /\ task'[v] = e => u = v
                    /\ performed'[e] # {} =>
                          /\ status'[e] # "pending"
                          /\ \A v \in Worker : task'[v] = e => pc'[v] = "settling"
  BY DEF ProcessBoundRunsOnce, ReplaySafe
<1>2. \A v \in Worker : task'[v] = e => v # w /\ task[v] = e
  BY <1>1, OutboxAssumption
<1>3. ASSUME performed[e] # {} PROVE status'[e] # "pending"
  <2>1. status[e] # "pending" /\ (task[w] = e => pc[w] = "settling" /\ outcome[w] # "failure")
    BY <1>3 DEF IInv, ProcessBoundRunsOnce, PerformedInv
  <2>2. status'[e] = status[e] \/ (task[w] = e /\ \E st : GivenUp(w, st) /\ status'[e] = st)
    BY DEF Settlement, GivenUp, Release
  <2> QED
    BY <2>1, <2>2 DEF GivenUp
<1> QED
  BY <1>1, <1>2, <1>3 DEF IInv, ProcessBoundRunsOnce

\* No step starts a process-bound effect twice.
LEMMA RunsOnceStep == IInv /\ [Next]_vars => ProcessBoundRunsOnce'
<1> SUFFICES ASSUME IInv, [Next]_vars PROVE ProcessBoundRunsOnce'
  OBVIOUS
<1> USE OutboxAssumption DEF IInv, RowInv, SoleClaimerInv, PerformedInv, Undisputed,
   ProcessBoundRunsOnce, Owned, TypeOK, SlotInv, Unsettled, Settled, rowVars, slotVars, budgetVars
<1>1. ASSUME NEW e \in Effect, Enqueue(e) PROVE ProcessBoundRunsOnce'
  BY <1>1 DEF Enqueue, Reschedule
<1>2. ASSUME NEW t \in Thread, NEW types \in CancelClasses, CancelUnsettled(t, types) PROVE ProcessBoundRunsOnce'
  BY <1>2 DEF CancelUnsettled, Release, Reschedule
<1>3. ASSUME NEW e \in Effect, SignalCancellation(e) PROVE ProcessBoundRunsOnce'
  BY <1>3 DEF SignalCancellation, Armed
<1>4. ASSUME ExpireLeases PROVE ProcessBoundRunsOnce'
  BY <1>4 DEF ExpireLeases, Reschedule
<1>5. ASSUME NEW e \in Effect, SignalExpired(e) PROVE ProcessBoundRunsOnce'
  BY <1>5 DEF SignalExpired, Armed
<1>6. ASSUME NEW w \in Worker, NEW e \in Effect, ClaimNext(w, e) PROVE ProcessBoundRunsOnce'
  <2>1. status[e] = "pending"
    BY <1>6 DEF ClaimNext, Claimable
  <2>2. ~ReplaySafe(e) => performed[e] = {} /\ \A v \in Worker : task[v] # e
    BY <2>1
  <2>3. /\ \A v \in Worker : v # w => task'[v] = task[v] /\ pc'[v] = pc[v]
        /\ task'[w] = e /\ task[w] = None
        /\ \A d \in Effect : d # e => status'[d] = status[d]
        /\ performed' = performed
    BY <1>6 DEF ClaimNext
  <2> QED
    BY <2>2, <2>3
<1>7. ASSUME NEW w \in Worker, Arm(w) PROVE ProcessBoundRunsOnce'
  BY <1>7 DEF Arm
<1>8. ASSUME NEW w \in Worker, RereadCancelled(w) PROVE ProcessBoundRunsOnce'
  BY <1>8 DEF RereadCancelled, ClearCancellation, Idle
<1>9. ASSUME NEW w \in Worker, BeginExecution(w) PROVE ProcessBoundRunsOnce'
  BY <1>9 DEF BeginExecution
<1>10. ASSUME NEW w \in Worker, NEW r \in {"success", "notActive", "failure"}, FinishExecution(w, r) PROVE ProcessBoundRunsOnce'
  BY <1>10 DEF FinishExecution, ClearCancellation
<1>11. ASSUME NEW w \in Worker, WithdrawExecution(w) PROVE ProcessBoundRunsOnce'
  BY <1>11 DEF WithdrawExecution
<1>12. ASSUME NEW w \in Worker, ExecutionStopped(w) PROVE ProcessBoundRunsOnce'
  BY <1>12 DEF ExecutionStopped, ClearCancellation, Idle
<1>13. ASSUME NEW w \in Worker, Settlement(w) PROVE ProcessBoundRunsOnce'
  BY <1>13, SettledOnce
<1>14. ASSUME NEW e \in Effect, BackoffElapses(e) PROVE ProcessBoundRunsOnce'
  BY <1>14 DEF BackoffElapses, Reschedule
<1>15. ASSUME NEW e \in Effect, LeaseLapses(e) PROVE ProcessBoundRunsOnce'
  BY <1>15 DEF LeaseLapses
<1>16. ASSUME Crash PROVE ProcessBoundRunsOnce'
  BY <1>16 DEF Crash
<1>17. ASSUME Restart PROVE ProcessBoundRunsOnce'
  BY <1>17 DEF Restart, Reschedule
<1>18. ASSUME UNCHANGED vars PROVE ProcessBoundRunsOnce'
  BY <1>18 DEF vars
<1> HIDE OutboxAssumption DEF IInv, RowInv, SoleClaimerInv, PerformedInv, Undisputed,
   ProcessBoundRunsOnce, Owned, TypeOK, SlotInv, Unsettled, Settled, rowVars, slotVars, budgetVars
<1> QED
  BY <1>1, <1>2, <1>3, <1>4, <1>5, <1>6, <1>7, <1>8, <1>9, <1>10, <1>11, <1>12,
     <1>13, <1>14, <1>15, <1>16, <1>17, <1>18, Settlements DEF Next, WorkerStep
-----------------------------------------------------------------------------
\* A row becomes succeeded only by the settlement of its latest claim.
LEMMA ProvenanceStep == IInv /\ [Next]_vars => SucceededByLatestClaim'
<1> SUFFICES ASSUME IInv, [Next]_vars PROVE SucceededByLatestClaim'
  OBVIOUS
<1> USE OutboxAssumption DEF IInv, RowInv, SucceededByLatestClaim, TypeOK, SlotInv,
   Unsettled, Settled, rowVars, slotVars, budgetVars
<1>1. ASSUME NEW e \in Effect, Enqueue(e) PROVE SucceededByLatestClaim'
  BY <1>1 DEF Enqueue, Reschedule
<1>2. ASSUME NEW t \in Thread, NEW types \in CancelClasses, CancelUnsettled(t, types) PROVE SucceededByLatestClaim'
  BY <1>2 DEF CancelUnsettled, Release, Reschedule
<1>3. ASSUME NEW e \in Effect, SignalCancellation(e) PROVE SucceededByLatestClaim'
  BY <1>3 DEF SignalCancellation, Armed
<1>4. ASSUME ExpireLeases PROVE SucceededByLatestClaim'
  BY <1>4 DEF ExpireLeases, Reschedule
<1>5. ASSUME NEW e \in Effect, SignalExpired(e) PROVE SucceededByLatestClaim'
  BY <1>5 DEF SignalExpired, Armed
<1>6. ASSUME NEW w \in Worker, NEW e \in Effect, ClaimNext(w, e) PROVE SucceededByLatestClaim'
  BY <1>6 DEF ClaimNext, Claimable, Reschedule
<1>7. ASSUME NEW w \in Worker, Arm(w) PROVE SucceededByLatestClaim'
  BY <1>7 DEF Arm
<1>8. ASSUME NEW w \in Worker, RereadCancelled(w) PROVE SucceededByLatestClaim'
  BY <1>8 DEF RereadCancelled, ClearCancellation, Idle
<1>9. ASSUME NEW w \in Worker, BeginExecution(w) PROVE SucceededByLatestClaim'
  BY <1>9 DEF BeginExecution
<1>10. ASSUME NEW w \in Worker, NEW r \in {"success", "notActive", "failure"}, FinishExecution(w, r) PROVE SucceededByLatestClaim'
  BY <1>10 DEF FinishExecution, ClearCancellation
<1>11. ASSUME NEW w \in Worker, WithdrawExecution(w) PROVE SucceededByLatestClaim'
  BY <1>11 DEF WithdrawExecution
<1>12. ASSUME NEW w \in Worker, ExecutionStopped(w) PROVE SucceededByLatestClaim'
  BY <1>12 DEF ExecutionStopped, ClearCancellation, Idle
<1>13. ASSUME NEW w \in Worker, Settlement(w) PROVE SucceededByLatestClaim'
  BY <1>13 DEF Settlement, GivenUp, Release, Idle, Owned
<1>14. ASSUME NEW e \in Effect, BackoffElapses(e) PROVE SucceededByLatestClaim'
  BY <1>14 DEF BackoffElapses, Reschedule
<1>15. ASSUME NEW e \in Effect, LeaseLapses(e) PROVE SucceededByLatestClaim'
  BY <1>15 DEF LeaseLapses
<1>16. ASSUME Crash PROVE SucceededByLatestClaim'
  BY <1>16 DEF Crash
<1>17. ASSUME Restart PROVE SucceededByLatestClaim'
  BY <1>17 DEF Restart, Reschedule
<1>18. ASSUME UNCHANGED vars PROVE SucceededByLatestClaim'
  BY <1>18 DEF vars
<1> HIDE OutboxAssumption DEF IInv, RowInv, SucceededByLatestClaim, TypeOK, SlotInv,
   Unsettled, Settled, rowVars, slotVars, budgetVars
<1> QED
  BY <1>1, <1>2, <1>3, <1>4, <1>5, <1>6, <1>7, <1>8, <1>9, <1>10, <1>11, <1>12,
     <1>13, <1>14, <1>15, <1>16, <1>17, <1>18, Settlements DEF Next, WorkerStep
-----------------------------------------------------------------------------
\* Only a claim makes a row running, and none does while the thread has one.
LEMMA SerialStep == IInv /\ [Next]_vars => OneRunningPerThread'
<1> SUFFICES ASSUME IInv, [Next]_vars PROVE OneRunningPerThread'
  OBVIOUS
<1> USE OutboxAssumption DEF IInv, RowInv, OneRunningPerThread, TypeOK, SlotInv,
   Unsettled, Settled, rowVars, slotVars, budgetVars
<1>1. ASSUME NEW e \in Effect, Enqueue(e) PROVE OneRunningPerThread'
  BY <1>1 DEF Enqueue, Reschedule
<1>2. ASSUME NEW t \in Thread, NEW types \in CancelClasses, CancelUnsettled(t, types) PROVE OneRunningPerThread'
  BY <1>2 DEF CancelUnsettled, Release, Reschedule
<1>3. ASSUME NEW e \in Effect, SignalCancellation(e) PROVE OneRunningPerThread'
  BY <1>3 DEF SignalCancellation, Armed
<1>4. ASSUME ExpireLeases PROVE OneRunningPerThread'
  BY <1>4 DEF ExpireLeases, Reschedule
<1>5. ASSUME NEW e \in Effect, SignalExpired(e) PROVE OneRunningPerThread'
  BY <1>5 DEF SignalExpired, Armed
<1>6. ASSUME NEW w \in Worker, NEW e \in Effect, ClaimNext(w, e) PROVE OneRunningPerThread'
  BY <1>6 DEF ClaimNext, Claimable, Reschedule
<1>7. ASSUME NEW w \in Worker, Arm(w) PROVE OneRunningPerThread'
  BY <1>7 DEF Arm
<1>8. ASSUME NEW w \in Worker, RereadCancelled(w) PROVE OneRunningPerThread'
  BY <1>8 DEF RereadCancelled, ClearCancellation, Idle
<1>9. ASSUME NEW w \in Worker, BeginExecution(w) PROVE OneRunningPerThread'
  BY <1>9 DEF BeginExecution
<1>10. ASSUME NEW w \in Worker, NEW r \in {"success", "notActive", "failure"}, FinishExecution(w, r) PROVE OneRunningPerThread'
  BY <1>10 DEF FinishExecution, ClearCancellation
<1>11. ASSUME NEW w \in Worker, WithdrawExecution(w) PROVE OneRunningPerThread'
  BY <1>11 DEF WithdrawExecution
<1>12. ASSUME NEW w \in Worker, ExecutionStopped(w) PROVE OneRunningPerThread'
  BY <1>12 DEF ExecutionStopped, ClearCancellation, Idle
<1>13. ASSUME NEW w \in Worker, Settlement(w) PROVE OneRunningPerThread'
  BY <1>13 DEF Settlement, GivenUp, Release, Idle, Owned
<1>14. ASSUME NEW e \in Effect, BackoffElapses(e) PROVE OneRunningPerThread'
  BY <1>14 DEF BackoffElapses, Reschedule
<1>15. ASSUME NEW e \in Effect, LeaseLapses(e) PROVE OneRunningPerThread'
  BY <1>15 DEF LeaseLapses
<1>16. ASSUME Crash PROVE OneRunningPerThread'
  BY <1>16 DEF Crash
<1>17. ASSUME Restart PROVE OneRunningPerThread'
  BY <1>17 DEF Restart, Reschedule
<1>18. ASSUME UNCHANGED vars PROVE OneRunningPerThread'
  BY <1>18 DEF vars
<1> HIDE OutboxAssumption DEF IInv, RowInv, OneRunningPerThread, TypeOK, SlotInv,
   Unsettled, Settled, rowVars, slotVars, budgetVars
<1> QED
  BY <1>1, <1>2, <1>3, <1>4, <1>5, <1>6, <1>7, <1>8, <1>9, <1>10, <1>11, <1>12,
     <1>13, <1>14, <1>15, <1>16, <1>17, <1>18, Settlements DEF Next, WorkerStep
-----------------------------------------------------------------------------
\* The invariant the theorems rest on.
LEMMA Invariance == Spec => []IInv
<1>1. IInv /\ [Next]_vars => IInv'
  BY TypeStep, RowStep, SlotStep, SoleClaimerStep, PerformedStep, SignalStep, ReachStep,
     RunsOnceStep, ProvenanceStep, SerialStep DEF IInv
<1> QED
  BY InitInv, <1>1, PTL DEF Spec

\* Every reachable state of the outbox and its worker slots is well typed.
THEOREM TypeCorrect == Spec => []TypeOK
<1>1. IInv => TypeOK
  BY DEF IInv
<1> QED
  BY Invariance, <1>1, PTL

\* The external work of a thread is serial (claimableCandidatePredicate).
THEOREM ThreadsAreSerial == Spec => []OneRunningPerThread
<1>1. IInv => OneRunningPerThread
  BY DEF IInv
<1> QED
  BY Invariance, <1>1, PTL

\* An effect is recorded as succeeded only by the claim that performed it
\* (the lease token of claimNext, checked by succeed).
THEOREM SuccessIsLatestClaims == Spec => []SucceededByLatestClaim
<1>1. IInv => SucceededByLatestClaim
  BY DEF IInv
<1> QED
  BY Invariance, <1>1, PTL

\* Process-bound work is neither claimed by two slots at once nor started again
\* once performed (settleExpiredLeases, recoverPostSuccessSettlement and
\* reconcileAfterProcessLoss).
THEOREM ProcessBoundWorkRunsOnce == Spec => []ProcessBoundRunsOnce
<1>1. IInv => ProcessBoundRunsOnce
  BY DEF IInv
<1> QED
  BY Invariance, <1>1, PTL

\* No cancellation falls into the gap between the re-read of a row and the
\* execution of its effect: once the signals of a cancellation have been sent,
\* every slot still executing a cancelled effect has received its own (runOnce,
\* signalCancellations).
THEOREM CancellationsReachExecutions == Spec => []CancellationReachesExecution
<1>1. IInv => CancellationReachesExecution
  BY DEF IInv
<1> QED
  BY Invariance, <1>1, PTL

\* As long as no replay-safe effect outlasts its lease, an owned execution keeps
\* the signal claimNext armed for it, and whoever takes its row away can stop it.
\* The hypothesis cannot be dropped: two claimers of one effect share its entry of
\* the map, and the first to leave runOnce clears it.
THEOREM SignalsStayArmed ==
  ASSUME \A e \in Slow : ~ReplaySafe(e)
  PROVE  Spec => []SignalStaysArmed
<1>1. IInv => SignalStaysArmed
  BY OutboxAssumption DEF IInv, TypeOK, SlotInv, SignalInv, SignalStaysArmed, Undisputed
<1> QED
  BY Invariance, <1>1, PTL

-----------------------------------------------------------------------------
\* Every step leaves settled rows alone: the rows a step writes are absent, due,
\* lapsed, owned by the writer or unsettled.
LEMMA FinalStep == IInv /\ [Next]_vars => LeavesSettledAlone
<1> SUFFICES ASSUME IInv, [Next]_vars PROVE LeavesSettledAlone
  OBVIOUS
<1> USE OutboxAssumption DEF IInv, RowInv, LeavesSettledAlone, TypeOK, SlotInv, Unsettled, Settled,
   rowVars, slotVars, budgetVars
<1>1. ASSUME NEW e \in Effect, Enqueue(e) PROVE LeavesSettledAlone
  BY <1>1 DEF Enqueue, Reschedule
<1>2. ASSUME NEW t \in Thread, NEW types \in CancelClasses, CancelUnsettled(t, types) PROVE LeavesSettledAlone
  BY <1>2 DEF CancelUnsettled, Release, Reschedule
<1>3. ASSUME NEW e \in Effect, SignalCancellation(e) PROVE LeavesSettledAlone
  BY <1>3 DEF SignalCancellation, Armed
<1>4. ASSUME ExpireLeases PROVE LeavesSettledAlone
  BY <1>4 DEF ExpireLeases, Reschedule
<1>5. ASSUME NEW e \in Effect, SignalExpired(e) PROVE LeavesSettledAlone
  BY <1>5 DEF SignalExpired, Armed
<1>6. ASSUME NEW w \in Worker, NEW e \in Effect, ClaimNext(w, e) PROVE LeavesSettledAlone
  BY <1>6 DEF ClaimNext, Claimable, Reschedule
<1>7. ASSUME NEW w \in Worker, Arm(w) PROVE LeavesSettledAlone
  BY <1>7 DEF Arm
<1>8. ASSUME NEW w \in Worker, RereadCancelled(w) PROVE LeavesSettledAlone
  BY <1>8 DEF RereadCancelled, ClearCancellation, Idle
<1>9. ASSUME NEW w \in Worker, BeginExecution(w) PROVE LeavesSettledAlone
  BY <1>9 DEF BeginExecution
<1>10. ASSUME NEW w \in Worker, NEW r \in {"success", "notActive", "failure"}, FinishExecution(w, r) PROVE LeavesSettledAlone
  BY <1>10 DEF FinishExecution, ClearCancellation
<1>11. ASSUME NEW w \in Worker, WithdrawExecution(w) PROVE LeavesSettledAlone
  BY <1>11 DEF WithdrawExecution
<1>12. ASSUME NEW w \in Worker, ExecutionStopped(w) PROVE LeavesSettledAlone
  BY <1>12 DEF ExecutionStopped, ClearCancellation, Idle
<1>13. ASSUME NEW w \in Worker, Settlement(w) PROVE LeavesSettledAlone
  BY <1>13 DEF Settlement, GivenUp, Release, Idle, Owned
<1>14. ASSUME NEW e \in Effect, BackoffElapses(e) PROVE LeavesSettledAlone
  BY <1>14 DEF BackoffElapses, Reschedule
<1>15. ASSUME NEW e \in Effect, LeaseLapses(e) PROVE LeavesSettledAlone
  BY <1>15 DEF LeaseLapses
<1>16. ASSUME Crash PROVE LeavesSettledAlone
  BY <1>16 DEF Crash
<1>17. ASSUME Restart PROVE LeavesSettledAlone
  BY <1>17 DEF Restart, Reschedule
<1>18. ASSUME UNCHANGED vars PROVE LeavesSettledAlone
  BY <1>18 DEF vars
<1> HIDE OutboxAssumption DEF IInv, RowInv, LeavesSettledAlone, TypeOK, SlotInv, Unsettled, Settled,
   rowVars, slotVars, budgetVars
<1> QED
  BY <1>1, <1>2, <1>3, <1>4, <1>5, <1>6, <1>7, <1>8, <1>9, <1>10, <1>11, <1>12,
     <1>13, <1>14, <1>15, <1>16, <1>17, <1>18, Settlements DEF Next, WorkerStep

\* Settled rows stay settled under late settlements, cancellations, expiries and
\* restarts.
THEOREM SettledRowsAreFinal == Spec => SettledIsFinal
<1>1. IInv /\ [Next]_vars => [LeavesSettledAlone]_vars
  BY FinalStep
<1> QED
  BY Invariance, <1>1, PTL DEF Spec, SettledIsFinal
-----------------------------------------------------------------------------
(* Refinement: the outbox implements EffectLedger.                         *)

ClaimsCounted == \A w \in Worker : pc[w] # "idle" => claim[w] # 0

\* A claim is the number of one of its row's attempts, the first being 1.
LEMMA ClaimsAreCounted == Spec => []ClaimsCounted
<1>1. Init => ClaimsCounted
  BY DEF Init, ClaimsCounted
<1>2. ASSUME IInv, ClaimsCounted, [Next]_vars
      PROVE  ClaimsCounted'
  <2> USE OutboxAssumption DEF IInv, TypeOK, ClaimsCounted
  <2>1. ASSUME NEW w \in Worker, NEW e \in Effect, ClaimNext(w, e) PROVE ClaimsCounted'
    BY <1>2, <2>1 DEF ClaimNext
  <2>2. ASSUME NEW w \in Worker, Idle(w) PROVE ClaimsCounted'
    BY <1>2, <2>2 DEF Idle
  <2>3. ASSUME NEW w \in Worker,
               \/ Arm(w) \/ BeginExecution(w) \/ WithdrawExecution(w)
               \/ \E r \in {"success", "notActive", "failure"} : FinishExecution(w, r)
        PROVE  ClaimsCounted'
    BY <1>2, <2>3 DEF Arm, BeginExecution, WithdrawExecution, FinishExecution
  <2>4. CASE Crash
    BY <2>4 DEF Crash
  <2>5. ASSUME UNCHANGED slotVars PROVE ClaimsCounted'
    BY <1>2, <2>5 DEF slotVars
  <2>6. CASE Restart \/ ExpireLeases \/ UNCHANGED vars
    BY <2>5, <2>6 DEF Restart, ExpireLeases, vars
  <2>7. ASSUME NEW e \in Effect,
               \/ Enqueue(e) \/ SignalCancellation(e) \/ SignalExpired(e)
               \/ BackoffElapses(e) \/ LeaseLapses(e)
        PROVE  ClaimsCounted'
    BY <2>5, <2>7 DEF Enqueue, SignalCancellation, SignalExpired, BackoffElapses, LeaseLapses
  <2>8. ASSUME NEW t \in Thread, NEW types \in CancelClasses, CancelUnsettled(t, types)
        PROVE  ClaimsCounted'
    BY <2>5, <2>8 DEF CancelUnsettled
  <2>9. ASSUME NEW w \in Worker,
               \/ RereadCancelled(w) \/ ExecutionStopped(w) \/ Settle(w)
               \/ SettleError(w) \/ RereadError(w)
        PROVE  ClaimsCounted'
    BY <2>2, <2>9 DEF RereadCancelled, ExecutionStopped, Settle, SettleError, RereadError
  <2> HIDE OutboxAssumption DEF IInv, TypeOK, ClaimsCounted
  <2> QED
    BY <1>2, <2>1, <2>3, <2>4, <2>6, <2>7, <2>8, <2>9 DEF Next, WorkerStep
<1> QED
  BY <1>1, <1>2, Invariance, PTL DEF Spec

LEMMA LedgerInit == Init => Ledger!Init
BY DEF Init, LedgerState, Ledger!Init

\* Rows that change hands without success: E end, B go back to wait.
LEMMA GivesUp ==
  ASSUME IInv, NEW E \in SUBSET Effect, NEW B \in SUBSET Effect,
         \A e \in E : status[e] \in Unsettled,
         \A e \in B : status[e] = "running" /\ (ReplaySafe(e) \/ performed[e] = {}),
         \A e \in Effect : IF e \in E THEN status'[e] \in {"failed", "cancelled"}
                           ELSE IF e \in B THEN status'[e] = "pending"
                           ELSE status'[e] = status[e],
         UNCHANGED <<attempts, performed>>
  PROVE  Ledger!Next
<1>1. \A e \in Effect : LedgerState'[e] = IF e \in E THEN "ended"
                                          ELSE IF e \in B THEN "waiting" ELSE LedgerState[e]
  BY DEF LedgerState
<1>2. LedgerState' = [e \in Effect |-> IF e \in E THEN "ended"
                                       ELSE IF e \in B THEN "waiting" ELSE LedgerState[e]]
  BY <1>1 DEF LedgerState
<1>3. /\ \A e \in E : LedgerState[e] \in {"waiting", "working"}
      /\ \A e \in B : LedgerState[e] = "working"
  BY DEF LedgerState, Unsettled
<1>4. Ledger!GiveUp(E, B)
  BY <1>2, <1>3 DEF Ledger!GiveUp
<1> QED
  BY <1>4 DEF Ledger!Next

\* One row changes.
LEMMA OneRowMoves ==
  ASSUME IInv, NEW e \in Effect, NEW st, status' = [status EXCEPT ![e] = st]
  PROVE  LedgerState' = [LedgerState EXCEPT ![e] =
            CASE st = "pending" -> "waiting"
              [] st = "running" -> "working"
              [] st \in {"failed", "cancelled"} -> "ended"
              [] OTHER -> st]
<1> DEFINE seen == CASE st = "pending" -> "waiting"
                     [] st = "running" -> "working"
                     [] st \in {"failed", "cancelled"} -> "ended"
                     [] OTHER -> st
<1>1. status'[e] = st /\ \A d \in Effect \ {e} : status'[d] = status[d]
  BY DEF IInv, TypeOK
<1>2. LedgerState'[e] = seen
  BY <1>1 DEF LedgerState
<1>3. \A d \in Effect \ {e} : LedgerState'[d] = LedgerState[d]
  BY <1>1 DEF LedgerState
<1> HIDE DEF seen
<1>4. LedgerState' = [LedgerState EXCEPT ![e] = seen]
  <2>1. /\ LedgerState = [d \in Effect |-> LedgerState[d]]
        /\ LedgerState' = [d \in Effect |-> LedgerState'[d]]
    BY DEF LedgerState
  <2> QED
    BY <1>2, <1>3, <2>1
<1> QED
  BY <1>4 DEF seen

\* Every step of the outbox is one of the ledger, or a stutter.
LEMMA LedgerStep ==
  ASSUME IInv, ClaimsCounted, [Next]_vars
  PROVE  [Ledger!Next]_<<LedgerState, attempts, performed>>
<1> USE OutboxAssumption
<1>0. TypeOK /\ RowInv /\ SlotInv /\ PerformedInv /\ ProcessBoundRunsOnce
  BY DEF IInv
<1>1. ASSUME UNCHANGED <<status, attempts, performed>>
      PROVE  UNCHANGED <<LedgerState, attempts, performed>>
  BY <1>1 DEF LedgerState
<1>2. \A w \in Worker : pc[w] # "idle" => task[w] \in Effect
  BY <1>0 DEF TypeOK, SlotInv
<1>3. ASSUME NEW e \in Effect, Enqueue(e) PROVE Ledger!Next
  <2>1. LedgerState[e] = "absent"
    BY <1>3 DEF Enqueue, LedgerState
  <2>2. LedgerState' = [LedgerState EXCEPT ![e] = "waiting"]
    BY <1>3, OneRowMoves DEF Enqueue
  <2>3. Ledger!Enqueue(e)
    BY <1>3, <2>1, <2>2 DEF Enqueue, Ledger!Enqueue
  <2> QED
    BY <2>3 DEF Ledger!Next
<1>4. ASSUME NEW t \in Thread, NEW types \in CancelClasses, CancelUnsettled(t, types)
      PROVE  Ledger!Next
  <2> DEFINE rows == {e \in Effect : /\ ThreadOf[e] = t
                                     /\ status[e] \in Unsettled
                                     /\ TypeOf[e] \in types}
  <2>1. /\ \A e \in Effect : status'[e] = IF e \in rows THEN "cancelled" ELSE status[e]
        /\ UNCHANGED <<attempts, performed>>
    BY <1>4 DEF CancelUnsettled, Release
  <2> DEFINE none == {e \in Effect : FALSE}
  <2>2. /\ rows \in SUBSET Effect /\ none \in SUBSET Effect /\ \A e \in rows : status[e] \in Unsettled
        /\ \A e \in none : FALSE
    OBVIOUS
  <2> HIDE DEF rows, none
  <2>3. \A e \in Effect : IF e \in rows THEN status'[e] \in {"failed", "cancelled"}
                          ELSE IF e \in none THEN status'[e] = "pending"
                          ELSE status'[e] = status[e]
    BY <2>1, <2>2
  <2> QED
    BY <2>1, <2>2, <2>3, GivesUp
<1>5. CASE ExpireLeases
  <2> DEFINE requeued == {e \in lapsed : ReplaySafe(e) /\ attempts[e] < MaxAttempts}
  <2>1. /\ \A e \in Effect : status'[e] = IF e \in requeued THEN "pending"
                                          ELSE IF e \in lapsed THEN "failed"
                                          ELSE status[e]
        /\ UNCHANGED <<attempts, performed>>
    BY <1>5 DEF ExpireLeases
  <2>2. /\ requeued \in SUBSET Effect /\ lapsed \ requeued \in SUBSET Effect
        /\ \A e \in lapsed : status[e] = "running"
        /\ \A e \in requeued : ReplaySafe(e) /\ e \in lapsed
    BY <1>0 DEF TypeOK, RowInv
  <2> HIDE DEF requeued
  <2>3. \A e \in Effect : IF e \in lapsed \ requeued THEN status'[e] \in {"failed", "cancelled"}
                          ELSE IF e \in requeued THEN status'[e] = "pending"
                          ELSE status'[e] = status[e]
    BY <2>1, <2>2
  <2>4. /\ \A e \in lapsed \ requeued : status[e] \in Unsettled
        /\ \A e \in requeued : status[e] = "running" /\ (ReplaySafe(e) \/ performed[e] = {})
    BY <2>2 DEF Unsettled
  <2> QED
    BY <2>1, <2>2, <2>3, <2>4, GivesUp
<1>6. CASE Restart
  <2> DEFINE cancelled == {e \in Effect : status[e] \in Unsettled /\ ~ReplaySafe(e)}
             requeued == {e \in Effect : status[e] = "running" /\ ReplaySafe(e)}
  <2>1. /\ \A e \in Effect : status'[e] = IF e \in cancelled THEN "cancelled"
                                          ELSE IF e \in requeued THEN "pending"
                                          ELSE status[e]
        /\ UNCHANGED <<attempts, performed>>
    BY <1>6 DEF Restart, Unsettled
  <2>2. /\ cancelled \in SUBSET Effect /\ requeued \in SUBSET Effect
        /\ \A e \in cancelled : status[e] \in Unsettled
        /\ \A e \in requeued : status[e] = "running" /\ (ReplaySafe(e) \/ performed[e] = {})
    OBVIOUS
  <2> HIDE DEF cancelled, requeued
  <2>3. \A e \in Effect : IF e \in cancelled THEN status'[e] \in {"failed", "cancelled"}
                          ELSE IF e \in requeued THEN status'[e] = "pending"
                          ELSE status'[e] = status[e]
    BY <2>1
  <2> QED
    BY <2>1, <2>2, <2>3, GivesUp
<1>7. ASSUME NEW w \in Worker, NEW e \in Effect, ClaimNext(w, e) PROVE Ledger!Next
  <2>1. status[e] = "pending"
    BY <1>0, <1>7 DEF ClaimNext, Claimable, RowInv
  <2>2. LedgerState' = [LedgerState EXCEPT ![e] = "working"]
    BY <1>7, OneRowMoves DEF ClaimNext
  <2>3. /\ LedgerState[e] = "waiting"
        /\ \A d \in Effect : LedgerState[d] = "working" => ThreadOf[d] # ThreadOf[e]
    BY <1>0, <1>7, <2>1 DEF ClaimNext, Claimable, LedgerState, TypeOK, Unsettled, Settled
  <2>4. Ledger!Take(e)
    BY <1>7, <2>2, <2>3 DEF ClaimNext, Ledger!Take
  <2> QED
    BY <2>4 DEF Ledger!Next
<1>8. ASSUME NEW w \in Worker, NEW r \in {"success", "notActive", "failure"},
             FinishExecution(w, r)
      PROVE  [Ledger!Next]_<<LedgerState, attempts, performed>>
  <2> DEFINE e == task[w]
  <2>1. e \in Effect /\ pc[w] = "executing" /\ UNCHANGED <<status, attempts>>
    BY <1>2, <1>8 DEF FinishExecution, rowVars
  <2>2. CASE r = "failure"
    BY <1>1, <1>8, <2>1, <2>2 DEF FinishExecution
  <2>3. CASE r # "failure"
    <3>1. performed' = [performed EXCEPT ![e] = @ \cup {claim[w]}]
      BY <1>8, <2>3 DEF FinishExecution
    <3>2. claim[w] \in 1 .. attempts[e]
      BY <1>0, <2>1 DEF TypeOK, SlotInv, ClaimsCounted
    <3>3. ~ReplaySafe(e) => performed[e] = {}
      BY <1>0, <2>1 DEF ProcessBoundRunsOnce
    <3>4. UNCHANGED LedgerState
      BY <2>1 DEF LedgerState
    <3>5. Ledger!Perform(e)
      BY <2>1, <3>1, <3>2, <3>3, <3>4 DEF Ledger!Perform
    <3> QED
      BY <2>1, <3>5 DEF Ledger!Next
  <2> QED
    BY <2>2, <2>3
<1>9. ASSUME NEW w \in Worker, Settlement(w)
      PROVE  [Ledger!Next]_<<LedgerState, attempts, performed>>
  <2> DEFINE e == task[w]
  <2>1. /\ e \in Effect /\ pc[w] \in {"armed", "settling"}
        /\ UNCHANGED <<attempts, performed>>
    BY <1>2, <1>9 DEF Settlement
  <2>2. CASE UNCHANGED status
    BY <1>1, <2>1, <2>2
  <2>3. ASSUME NEW st \in {"succeeded", "failed", "pending"}, GivenUp(w, st)
        PROVE  Ledger!Next
    <3> DEFINE one == {d \in Effect : d = e}
               none == {d \in Effect : FALSE}
    <3>0. /\ one \in SUBSET Effect /\ none \in SUBSET Effect
          /\ \A d \in none : FALSE
          /\ \A d \in Effect : d \in one <=> d = e
      OBVIOUS
    <3> HIDE DEF one, none
    <3>1. /\ status[e] = "running" /\ claim[w] = attempts[e]
          /\ \A d \in Effect : status'[d] = IF d = e THEN st ELSE status[d]
          /\ status' = [status EXCEPT ![e] = st]
      BY <1>0, <2>1, <2>3 DEF GivenUp, Owned, Release, RowInv, TypeOK
    <3>2. CASE st = "failed"
      <4>1. /\ \A d \in one : status[d] \in Unsettled
            /\ \A d \in Effect : IF d \in one THEN status'[d] \in {"failed", "cancelled"}
                                ELSE IF d \in none THEN status'[d] = "pending"
                                ELSE status'[d] = status[d]
        BY <2>1, <3>0, <3>1, <3>2 DEF Unsettled
      <4> QED
        BY <2>1, <3>0, <4>1, GivesUp
    <3>3. CASE st = "pending"
      <4>1. ReplaySafe(e) \/ performed[e] = {}
        BY <1>0, <2>1, <2>3, <3>3 DEF GivenUp, ProcessBoundRunsOnce, PerformedInv
      <4>2. /\ \A d \in one : status[d] = "running" /\ (ReplaySafe(d) \/ performed[d] = {})
            /\ \A d \in Effect : IF d \in none THEN status'[d] \in {"failed", "cancelled"}
                                ELSE IF d \in one THEN status'[d] = "pending"
                                ELSE status'[d] = status[d]
        BY <2>1, <3>0, <3>1, <3>3, <4>1
      <4> QED
        BY <2>1, <3>0, <4>2, GivesUp
    <3>4. CASE st = "succeeded"
      <4>1. attempts[e] \in performed[e]
        BY <1>0, <2>3, <3>1, <3>4 DEF GivenUp, SlotInv
      <4>2. LedgerState' = [LedgerState EXCEPT ![e] = "succeeded"]
        BY <2>1, <3>1, <3>4, OneRowMoves
      <4>3. LedgerState[e] = "working"
        BY <2>1, <3>1 DEF LedgerState
      <4>4. Ledger!Succeed(e)
        BY <2>1, <4>1, <4>2, <4>3 DEF Ledger!Succeed
      <4> QED
        BY <2>1, <4>4 DEF Ledger!Next
    <3> QED
      BY <3>2, <3>3, <3>4
  <2> QED
    BY <1>9, <2>2, <2>3 DEF Settlement
<1>10. ASSUME NEW e \in Effect,
              \/ SignalCancellation(e) \/ SignalExpired(e) \/ BackoffElapses(e) \/ LeaseLapses(e)
       PROVE  UNCHANGED <<status, attempts, performed>>
  BY <1>10 DEF SignalCancellation, SignalExpired, BackoffElapses, LeaseLapses, rowVars
<1>11. ASSUME NEW w \in Worker,
              \/ Arm(w) \/ RereadCancelled(w) \/ BeginExecution(w) \/ WithdrawExecution(w)
              \/ ExecutionStopped(w)
       PROVE  UNCHANGED <<status, attempts, performed>>
  BY <1>11 DEF Arm, RereadCancelled, BeginExecution, WithdrawExecution, ExecutionStopped, rowVars
<1>12. Crash \/ UNCHANGED vars => UNCHANGED <<status, attempts, performed>>
  BY DEF Crash, vars, rowVars
<1> QED
  BY <1>1, <1>3, <1>4, <1>5, <1>6, <1>7, <1>8, <1>9, <1>10, <1>11, <1>12, Settlements
     DEF Next, WorkerStep

\* The outbox implements the ledger: whatever slots, signals, leases, errors and
\* process losses do, effects wait, are tried one at a time per thread and end,
\* and process-bound work is not tried again once it was performed.
THEOREM OutboxKeepsLedger == Spec => KeepsLedger
<1>1. IInv /\ ClaimsCounted /\ [Next]_vars => [Ledger!Next]_<<LedgerState, attempts, performed>>
  BY LedgerStep
<1> QED
  BY <1>1, LedgerInit, Invariance, ClaimsAreCounted, PTL
     DEF Spec, KeepsLedger, Ledger!Spec, Ledger!vars
=============================================================================
