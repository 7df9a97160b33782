------------------------------ MODULE WorkerProofs ------------------------------
(***************************************************************************)
(* Proofs about WorkerOwnership.                                           *)
(*                                                                         *)
(* The inductive invariant says how start_agent, stop_agent, the registry  *)
(* and the loop of an instance fit together (WorkerInv), that a loop in a  *)
(* cycle holds the execution lock (LockInv, until a cycle outlives it),    *)
(* and that whoever starts or runs the agent is the owner (OwnerInv, until *)
(* a refresh is late).                                                     *)
(***************************************************************************)
EXTENDS WorkerOwnership, TLAPS

WorkerInv ==
    \A i \in Instances :
        /\ up[i] # "up" => starter[i] = "idle" /\ call[i] = None
        /\ up[i] = "down" => ~registered[i]
        /\ loop[i] # "none" => stopper[i] = "idle"
        /\ running[i] => registered[i] /\ stopper[i] = "idle"
        /\ starter[i] # "idle" => ~registered[i]
        /\ stopper[i] # "idle" => registered[i]

LockInv ==
    \A i \in Instances :
        InCycle(i) => execLock /\ \A j \in Instances : InCycle(j) => j = i

\* From the claim to the release of the key.
Holds(i) == starter[i] # "idle" \/ (registered[i] /\ stopper[i] # "released")

OwnerInv == \A i \in Instances : Holds(i) => owner = i

NoManual == \A i \in Instances : ~manual[i]

IInv ==
    /\ TypeOK
    /\ WorkerInv
    /\ "slow" \notin happened => LockInv
    /\ "trigger" \notin happened => NoManual
    /\ "stall" \notin happened => OwnerInv

-----------------------------------------------------------------------------
(* The invariant holds initially.                                           *)
LEMMA InitHolds == Init => IInv
<1> SUFFICES ASSUME Init PROVE IInv
  OBVIOUS
<1>1. TypeOK
  BY DEF Init, TypeOK, Statuses, Loops
<1>2. WorkerInv /\ LockInv /\ NoManual /\ OwnerInv
  BY DEF Init, WorkerInv, LockInv, NoManual, OwnerInv, Holds, InCycle
<1> QED BY <1>1, <1>2 DEF IInv

(* What has happened is not forgotten.                                      *)
LEMMA HappenedGrows == [Next]_vars => happened \subseteq happened'
<1> SUFFICES ASSUME [Next]_vars PROVE happened \subseteq happened'
  OBVIOUS
<1> USE DEF Incident, bounds
<1>1. CASE OwnerExpires \/ OwnerStalls \/ LockExpires \/ LockOutlived \/ UNCHANGED vars
  BY <1>1 DEF OwnerExpires, OwnerStalls, LockExpires, LockOutlived, vars
<1>2. ASSUME NEW i \in Instances, NEW new \in Requests, RequestStatus(i, new)
      PROVE  happened \subseteq happened'
  BY <1>2 DEF RequestStatus
<1>3. ASSUME NEW i \in Instances, ServeRequest(i) \/ SyncStart(i) \/ RouteStart(i)
      PROVE  happened \subseteq happened'
  BY <1>3 DEF ServeRequest, CommitStatus, ApiStart, ApiStartIdle, ApiStop, ApiStopIdle,
              SyncStart, RouteStart, Claim
<1>4. ASSUME NEW i \in Instances, Start(i) \/ Stop(i) \/ Sync(i) \/ RouteStop(i) \/ Process(i)
      PROVE  happened \subseteq happened'
  BY <1>4 DEF Start, CheckStatus, Launch, LaunchFails, Stop, ReleaseStopped, Unregister, Sync,
              Reclaim, StopLost, RouteStop, Process, StopAll, Exit, Restart
<1>5. ASSUME NEW i \in Instances,
             RunLoop(i) \/ Trigger(i) \/ EndTrigger(i) \/ Crash(i) \/ ShutDown(i)
      PROVE  happened \subseteq happened'
  BY <1>5 DEF RunLoop, BeginCycle, ReadStatus, QuitLoop, EndCycle, FailForGood, WriteError,
              Trigger, EndTrigger, Crash, ShutDown
<1> QED BY <1>1, <1>2, <1>3, <1>4, <1>5 DEF Next

(* Types, and how the parts of one instance fit together.                   *)
LEMMA TypeStep == TypeOK /\ WorkerInv /\ [Next]_vars => TypeOK' /\ WorkerInv'
<1> SUFFICES ASSUME TypeOK, WorkerInv, [Next]_vars PROVE TypeOK' /\ WorkerInv'
  OBVIOUS
<1> USE OwnershipNone, OwnershipParameters
    DEF TypeOK, WorkerInv, Statuses, Loops, Call, Requests, process, worker, shared, bounds, Incident,
        Voiding
<1>1. CASE OwnerExpires \/ OwnerStalls \/ LockExpires \/ LockOutlived
  <2>1. /\ UNCHANGED <<status, up, call, starter, stopper, manual, changes>>
        /\ UNCHANGED <<registered, running, loop>>
    BY <1>1 DEF OwnerExpires, OwnerStalls, LockExpires, LockOutlived
  <2>2. owner' \in {owner, None} /\ execLock' \in {execLock, FALSE}
    BY <1>1 DEF OwnerExpires, OwnerStalls, LockExpires, LockOutlived
  <2>3. incidents' \in Nat /\ happened' \subseteq Voiding
    <3> HIDE DEF Statuses, Loops, Call, Requests, WorkerInv, process, worker, shared, Voiding
    <3>1. \/ UNCHANGED <<incidents, happened>>
          \/ \E kind \in {"stall", "slow"} : Incident(kind)
      BY <1>1 DEF OwnerExpires, OwnerStalls, LockExpires, LockOutlived
    <3> QED BY <3>1
  <2> HIDE DEF Incident, process, worker, shared, bounds
  <2>4. TypeOK'
    BY <2>1, <2>2, <2>3
  <2>5. WorkerInv'
    BY <2>1
  <2> QED BY <2>4, <2>5
<1>2. ASSUME NEW i \in Instances, NEW new \in Requests, RequestStatus(i, new)
      PROVE  TypeOK' /\ WorkerInv'
  BY <1>2 DEF RequestStatus
<1>3. ASSUME NEW i \in Instances, ServeRequest(i)
      PROVE  TypeOK' /\ WorkerInv'
  <2>1. CASE CommitStatus(i)
    BY <2>1 DEF CommitStatus
  <2>2. CASE ApiStart(i)
    BY <2>2 DEF ApiStart, Synced, Claim
  <2>3. CASE ApiStartIdle(i)
    BY <2>3 DEF ApiStartIdle, Synced
  <2>4. CASE ApiStop(i)
    BY <2>4 DEF ApiStop, Synced, BeginStop, CancelLoop, ReleaseLock
  <2>5. CASE ApiStopIdle(i)
    BY <2>5 DEF ApiStopIdle, Synced
  <2> QED BY <1>3, <2>1, <2>2, <2>3, <2>4, <2>5 DEF ServeRequest
<1>4. ASSUME NEW i \in Instances, SyncStart(i)
      PROVE  TypeOK' /\ WorkerInv'
  BY <1>4 DEF SyncStart, Claim
<1>5. ASSUME NEW i \in Instances, Start(i)
      PROVE  TypeOK' /\ WorkerInv'
  <2>1. CASE CheckStatus(i)
    BY <2>1 DEF CheckStatus, ReleaseOwnership
  <2>2. CASE Launch(i)
    BY <2>2 DEF Launch
  <2>3. CASE LaunchFails(i)
    BY <2>3 DEF LaunchFails, ReleaseOwnership
  <2> QED BY <1>5, <2>1, <2>2, <2>3 DEF Start
<1>6. ASSUME NEW i \in Instances, Stop(i)
      PROVE  TypeOK' /\ WorkerInv'
  <2>1. CASE ReleaseStopped(i)
    BY <2>1 DEF ReleaseStopped, ReleaseOwnership
  <2>2. CASE Unregister(i)
    BY <2>2 DEF Unregister
  <2> QED BY <1>6, <2>1, <2>2 DEF Stop
<1>7. ASSUME NEW i \in Instances, Sync(i)
      PROVE  TypeOK' /\ WorkerInv'
  <2>1. CASE Reclaim(i)
    BY <2>1 DEF Reclaim
  <2>2. CASE StopLost(i)
    BY <2>2 DEF StopLost, BeginStop, CancelLoop, ReleaseLock
  <2> QED BY <1>7, <2>1, <2>2 DEF Sync
<1>8. ASSUME NEW i \in Instances, RunLoop(i)
      PROVE  TypeOK' /\ WorkerInv'
  <2>1. CASE BeginCycle(i)
    BY <2>1 DEF BeginCycle
  <2>2. CASE ReadStatus(i)
    BY <2>2 DEF ReadStatus
  <2>3. CASE QuitLoop(i)
    BY <2>3 DEF QuitLoop, ReleaseLock
  <2>4. CASE EndCycle(i)
    BY <2>4 DEF EndCycle, ReleaseLock
  <2>5. CASE FailForGood(i)
    <3>1. incidents' \in Nat /\ loop[i] # "none"
      BY <2>5 DEF FailForGood, InCycle
    <3>2. TypeOK'
      BY <2>5, <3>1 DEF FailForGood, ReleaseLock
    <3>3. WorkerInv'
      BY <2>5, <3>1 DEF FailForGood, ReleaseLock
    <3> QED BY <3>2, <3>3
  <2>6. CASE WriteError(i)
    BY <2>6 DEF WriteError
  <2> QED BY <1>8, <2>1, <2>2, <2>3, <2>4, <2>5, <2>6 DEF RunLoop
<1>9. ASSUME NEW i \in Instances, Trigger(i) \/ EndTrigger(i)
      PROVE  TypeOK' /\ WorkerInv'
  <2>1. CASE Trigger(i)
    BY <2>1 DEF Trigger
  <2>2. CASE EndTrigger(i)
    BY <2>2 DEF EndTrigger
  <2> QED BY <1>9, <2>1, <2>2
<1>10. ASSUME NEW i \in Instances, Crash(i) \/ ShutDown(i)
       PROVE  TypeOK' /\ WorkerInv'
  <2>1. CASE Crash(i)
    BY <2>1 DEF Crash
  <2>2. CASE ShutDown(i)
    BY <2>2 DEF ShutDown
  <2> QED BY <1>10, <2>1, <2>2
<1>11. ASSUME NEW i \in Instances, Process(i)
       PROVE  TypeOK' /\ WorkerInv'
  <2>1. CASE StopAll(i)
    BY <2>1 DEF StopAll, BeginStop, CancelLoop, ReleaseLock
  <2>2. CASE Exit(i)
    BY <2>2 DEF Exit
  <2>3. CASE Restart(i)
    BY <2>3 DEF Restart
  <2> QED BY <1>11, <2>1, <2>2, <2>3 DEF Process
<1>12. CASE UNCHANGED vars
  <2>1. TypeOK'
    BY <1>12 DEF vars
  <2>2. WorkerInv'
    BY <1>12 DEF vars
  <2> QED BY <2>1, <2>2
<1>13. ASSUME NEW i \in Instances, RouteStart(i)
       PROVE  TypeOK' /\ WorkerInv'
  BY <1>13 DEF RouteStart, Claim
<1>14. ASSUME NEW i \in Instances, RouteStop(i)
       PROVE  TypeOK' /\ WorkerInv'
  <2>1. /\ incidents' \in Nat /\ happened' \subseteq Voiding
        /\ UNCHANGED <<status, owner, up, call, starter, registered, manual, changes>>
    BY <1>14 DEF RouteStop
  <2>2. /\ running' = [running EXCEPT ![i] = FALSE]
        /\ loop' = [loop EXCEPT ![i] = "none"]
        /\ stopper' = [stopper EXCEPT ![i] = "stopping"]
        /\ execLock' \in {execLock, FALSE}
        /\ registered[i]
    BY <1>14 DEF RouteStop, BeginStop, CancelLoop, ReleaseLock
  <2> HIDE DEF Incident, process, worker, shared, bounds
  <2>3. TypeOK'
    BY <2>1, <2>2
  <2>4. WorkerInv'
    BY <2>1, <2>2
  <2> QED BY <2>3, <2>4
<1> QED
  BY <1>1, <1>2, <1>3, <1>4, <1>5, <1>6, <1>7, <1>8, <1>9, <1>10, <1>11, <1>12, <1>13, <1>14 DEF Next

-----------------------------------------------------------------------------
(* Stopping a worker's loop leaves no cycle without the lock.               *)
LEMMA BeginStopKeepsLock ==
  ASSUME TypeOK, LockInv, NEW i \in Instances, BeginStop(i)
  PROVE  LockInv'
  BY DEF TypeOK, LockInv, BeginStop, CancelLoop, ReleaseLock, InCycle

(* A cycle holds the execution lock as long as none has outlived it.        *)
LEMMA LockStep ==
  ASSUME TypeOK, LockInv, "slow" \notin happened', [Next]_vars
  PROVE  LockInv'
<1> USE DEF TypeOK, LockInv, InCycle, process, worker, shared, bounds
<1>1. CASE UNCHANGED <<loop, execLock>>
  BY <1>1
<1>2. ASSUME NEW i \in Instances, BeginCycle(i) PROVE LockInv'
  BY <1>2 DEF BeginCycle, LockFree
<1>3. ASSUME NEW i \in Instances, ReadStatus(i) PROVE LockInv'
  BY <1>3 DEF ReadStatus
<1>4. ASSUME NEW i \in Instances, QuitLoop(i) PROVE LockInv'
  BY <1>4 DEF QuitLoop, ReleaseLock
<1>5. ASSUME NEW i \in Instances, EndCycle(i) PROVE LockInv'
  BY <1>5 DEF EndCycle, ReleaseLock
<1>6. ASSUME NEW i \in Instances, FailForGood(i) PROVE LockInv'
  BY <1>6 DEF FailForGood, ReleaseLock
<1>7. ASSUME NEW i \in Instances, WriteError(i) PROVE LockInv'
  BY <1>7 DEF WriteError
<1>8. ASSUME NEW i \in Instances, ApiStop(i) \/ RouteStop(i) \/ StopLost(i) \/ StopAll(i) PROVE LockInv'
  <2>1. BeginStop(i)
    BY <1>8 DEF ApiStop, RouteStop, StopLost, StopAll
  <2> QED BY <2>1, BeginStopKeepsLock
<1>9. ASSUME NEW i \in Instances, Launch(i) PROVE LockInv'
  BY <1>9 DEF Launch
<1>10. ASSUME NEW i \in Instances, Crash(i) PROVE LockInv'
  BY <1>10 DEF Crash
<1>11. CASE LockExpires
  BY <1>11 DEF LockExpires
<1>12. CASE LockOutlived
  BY <1>12 DEF LockOutlived, Incident, Voiding
<1>13. ASSUME NEW i \in Instances, NEW new \in Requests, RequestStatus(i, new)
       PROVE  UNCHANGED <<loop, execLock>>
  BY <1>13 DEF RequestStatus
<1>14. ASSUME NEW i \in Instances,
              CommitStatus(i) \/ ApiStart(i) \/ ApiStartIdle(i) \/ ApiStopIdle(i) \/ SyncStart(i) \/ RouteStart(i)
       PROVE  UNCHANGED <<loop, execLock>>
  BY <1>14 DEF CommitStatus, ApiStart, ApiStartIdle, ApiStopIdle, SyncStart, RouteStart, Claim
<1>15. ASSUME NEW i \in Instances,
              CheckStatus(i) \/ LaunchFails(i) \/ ReleaseStopped(i) \/ Unregister(i) \/ Reclaim(i)
       PROVE  UNCHANGED <<loop, execLock>>
  BY <1>15 DEF CheckStatus, LaunchFails, ReleaseStopped, Unregister, Reclaim
<1>16. ASSUME NEW i \in Instances,
              Trigger(i) \/ EndTrigger(i) \/ ShutDown(i) \/ Exit(i) \/ Restart(i)
       PROVE  UNCHANGED <<loop, execLock>>
  BY <1>16 DEF Trigger, EndTrigger, ShutDown, Exit, Restart
<1>17. CASE OwnerExpires \/ OwnerStalls \/ UNCHANGED vars
  BY <1>17, <1>1 DEF OwnerExpires, OwnerStalls, vars
<1> HIDE DEF TypeOK, LockInv, InCycle, process, worker, shared, bounds
<1> QED
  BY <1>1, <1>2, <1>3, <1>4, <1>5, <1>6, <1>7, <1>8, <1>9, <1>10, <1>11, <1>12,
     <1>13, <1>14, <1>15, <1>16, <1>17
  DEF Next, ServeRequest, Start, Stop, Sync, RunLoop, Process

(* Before the first trigger there is no manual cycle.                       *)
LEMMA ManualStep ==
  ASSUME TypeOK, NoManual, "trigger" \notin happened', [Next]_vars
  PROVE  NoManual'
<1> USE DEF TypeOK, NoManual, process, worker, shared, bounds
<1>1. CASE UNCHANGED manual
  BY <1>1
<1>2. ASSUME NEW i \in Instances, Crash(i) PROVE NoManual'
  BY <1>2 DEF Crash
<1>3. ASSUME NEW i \in Instances, Trigger(i) \/ EndTrigger(i) PROVE NoManual'
  BY <1>3 DEF Trigger, EndTrigger, Incident, Voiding
<1>4. ASSUME NEW i \in Instances, NEW new \in Requests, RequestStatus(i, new)
      PROVE  UNCHANGED manual
  BY <1>4 DEF RequestStatus
<1>5. ASSUME NEW i \in Instances, ServeRequest(i) \/ SyncStart(i) \/ Start(i) \/ RouteStart(i) \/ RouteStop(i)
      PROVE  UNCHANGED manual
  BY <1>5 DEF ServeRequest, CommitStatus, ApiStart, ApiStartIdle, ApiStop, ApiStopIdle,
              SyncStart, Claim, Start, CheckStatus, Launch, LaunchFails, RouteStart, RouteStop
<1>6. ASSUME NEW i \in Instances, Stop(i) \/ Sync(i) \/ Process(i) \/ ShutDown(i)
      PROVE  UNCHANGED manual
  BY <1>6 DEF Stop, ReleaseStopped, Unregister, Sync, Reclaim, StopLost, Process, StopAll,
              Exit, Restart, ShutDown
<1>7. ASSUME NEW i \in Instances, RunLoop(i)
      PROVE  UNCHANGED manual
  BY <1>7 DEF RunLoop, BeginCycle, ReadStatus, QuitLoop, EndCycle, FailForGood, WriteError
<1>8. CASE OwnerExpires \/ OwnerStalls \/ LockExpires \/ LockOutlived \/ UNCHANGED vars
  BY <1>8, <1>1 DEF OwnerExpires, OwnerStalls, LockExpires, LockOutlived, vars
<1> HIDE DEF TypeOK, NoManual, process, worker, shared, bounds
<1> QED
  BY <1>1, <1>2, <1>3, <1>4, <1>5, <1>6, <1>7, <1>8 DEF Next

-----------------------------------------------------------------------------
(* Whoever starts or runs the agent owns it as long as no refresh was late. *)
LEMMA OwnerStep ==
  ASSUME TypeOK, WorkerInv, OwnerInv, "stall" \notin happened', [Next]_vars
  PROVE  OwnerInv'
<1> USE OwnershipNone
    DEF TypeOK, WorkerInv, OwnerInv, Holds, process, worker, shared, bounds
<1>1. CASE UNCHANGED <<owner, starter, stopper, registered>>
  BY <1>1
<1>2. CASE OwnerExpires
  BY <1>2 DEF OwnerExpires, Abandons
<1>3. CASE OwnerStalls
  BY <1>3 DEF OwnerStalls, Incident, Voiding
<1>4. ASSUME NEW i \in Instances, Claim(i) PROVE OwnerInv'
  BY <1>4 DEF Claim, Claimable
<1>5. ASSUME NEW i \in Instances, CheckStatus(i) PROVE OwnerInv'
  BY <1>5 DEF CheckStatus, ReleaseOwnership
<1>6. ASSUME NEW i \in Instances, Launch(i) PROVE OwnerInv'
  BY <1>6 DEF Launch
<1>7. ASSUME NEW i \in Instances, LaunchFails(i) PROVE OwnerInv'
  BY <1>7 DEF LaunchFails, ReleaseOwnership
<1>8. ASSUME NEW i \in Instances, ApiStop(i) \/ RouteStop(i) \/ StopLost(i) \/ StopAll(i) PROVE OwnerInv'
  <2>1. /\ registered[i] /\ stopper' = [stopper EXCEPT ![i] = "stopping"]
        /\ stopper[i] = "idle"
        /\ UNCHANGED <<owner, starter, registered>>
    BY <1>8 DEF ApiStop, RouteStop, StopLost, StopAll, BeginStop
  <2> QED BY <2>1
<1>9. ASSUME NEW i \in Instances, ReleaseStopped(i) PROVE OwnerInv'
  BY <1>9 DEF ReleaseStopped, ReleaseOwnership
<1>10. ASSUME NEW i \in Instances, Unregister(i) PROVE OwnerInv'
  BY <1>10 DEF Unregister
<1>11. ASSUME NEW i \in Instances, Reclaim(i) PROVE OwnerInv'
  BY <1>11 DEF Reclaim
<1>12. ASSUME NEW i \in Instances, Crash(i) PROVE OwnerInv'
  BY <1>12 DEF Crash
<1>13. ASSUME NEW i \in Instances, ShutDown(i) PROVE OwnerInv'
  BY <1>13 DEF ShutDown
<1>14. ASSUME NEW i \in Instances, NEW new \in Requests, RequestStatus(i, new)
       PROVE  UNCHANGED <<owner, starter, stopper, registered>>
  BY <1>14 DEF RequestStatus
<1>15. ASSUME NEW i \in Instances, CommitStatus(i) \/ ApiStartIdle(i) \/ ApiStopIdle(i)
       PROVE  UNCHANGED <<owner, starter, stopper, registered>>
  BY <1>15 DEF CommitStatus, ApiStartIdle, ApiStopIdle
<1>16. ASSUME NEW i \in Instances, RunLoop(i)
       PROVE  UNCHANGED <<owner, starter, stopper, registered>>
  BY <1>16 DEF RunLoop, BeginCycle, ReadStatus, QuitLoop, EndCycle, FailForGood, WriteError
<1>17. ASSUME NEW i \in Instances, Trigger(i) \/ EndTrigger(i) \/ Exit(i) \/ Restart(i)
       PROVE  UNCHANGED <<owner, starter, stopper, registered>>
  BY <1>17 DEF Trigger, EndTrigger, Exit, Restart
<1>18. CASE LockExpires \/ LockOutlived \/ UNCHANGED vars
  BY <1>18, <1>1 DEF LockExpires, LockOutlived, vars
<1> HIDE DEF TypeOK, WorkerInv, OwnerInv, Holds, process, worker, shared, bounds
<1> QED
  BY <1>1, <1>2, <1>3, <1>4, <1>5, <1>6, <1>7, <1>8, <1>9, <1>10, <1>11, <1>12,
     <1>13, <1>14, <1>15, <1>16, <1>17, <1>18
  DEF Next, ServeRequest, ApiStart, SyncStart, RouteStart, Start, Stop, Sync, Process

-----------------------------------------------------------------------------
(* The inductive invariant of workers, execution lock and ownership.        *)
THEOREM WorkerInvariance == Spec => []IInv
<1>1. IInv /\ [Next]_vars => IInv'
  BY HappenedGrows, TypeStep, LockStep, ManualStep, OwnerStep DEF IInv
<1> QED
  BY InitHolds, <1>1, PTL DEF Spec

(* Types, and no loop without its registered worker.                        *)
THEOREM WorkerTypeCorrect == Spec => []TypeOK
<1>1. IInv => TypeOK
  BY DEF IInv
<1> QED
  BY WorkerInvariance, <1>1, PTL

(* Workers' cycles exclude each other, late refreshes and crashes included, *)
(* until one outlives its execution lock; and no other cycle is under way   *)
(* until one is triggered by hand (acquire_execution_lock, _run_cycle).     *)
THEOREM CyclesAreExclusive == Spec => []CyclesExclusive
<1>1. IInv => CyclesExclusive
  BY DEF IInv, LockInv, NoManual, CyclesExclusive
<1> QED
  BY WorkerInvariance, <1>1, PTL

(* One worker in all instances until a refresh is late                      *)
(* (try_acquire_ownership, refresh_ownership, release_ownership).           *)
THEOREM WorkersAreExclusive == Spec => []WorkersExclusive
<1>1. IInv => WorkersExclusive
  BY DEF IInv, WorkerInv, OwnerInv, Holds, WorkersExclusive
<1> QED
  BY WorkerInvariance, <1>1, PTL
=============================================================================
