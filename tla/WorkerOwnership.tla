---------------------------- MODULE WorkerOwnership ----------------------------
(***************************************************************************)
(* Which backend process runs an agent (workers/lifecycle.py,              *)
(* workers/ai_backend.py, POST /agents/{id}/status).  One agent, several   *)
(* instances of the backend that share the agents table and Redis.         *)
(*                                                                         *)
(* An instance claims the agent's ownership key with SET NX, starts a      *)
(* worker and keeps the key alive from a task that runs every minute; the  *)
(* same task claims active agents nobody owns.  The worker's loop takes an *)
(* execution lock, another Redis key, around every cycle.  Both keys have  *)
(* a time to live.  What a cycle does is the subject of PositionLedger.    *)
(***************************************************************************)
EXTENDS Integers

CONSTANTS
    Instances,
    None,           \* "no value"
    Incidents,      \* what may go wrong in a behaviour, see IncidentKinds
    MaxIncidents,   \* bound on the incidents of a behaviour
    MaxChanges      \* bound on the status requests of a behaviour

IncidentKinds == {
    "crash",      \* a process dies
    "shutdown",   \* a process is stopped in order
    "stall",      \* the refresh of a live owner comes after the key expired
    "slow",       \* a cycle outlives the time to live of its execution lock
    "error",      \* a cycle fails for good, or too often within the window
    "init",       \* the trader cannot be created
    "byhand",     \* a worker is started or stopped past the status
    "trigger"}    \* a user runs a cycle by hand

\* After these, cycles or workers no longer exclude each other.
Voiding == {"stall", "slow", "trigger"}

ASSUME OwnershipNone == None \notin Instances
ASSUME OwnershipParameters ==
    Incidents \subseteq IncidentKinds /\ MaxIncidents \in Nat /\ MaxChanges \in Nat

VARIABLES
    status,       \* agents.status
    owner,        \* the ownership key in Redis
    execLock,     \* is the execution lock's key in Redis set?
    up,           \* state of each process
    call,         \* the status request a process serves, between its steps
    starter,      \* progress of start_agent
    stopper,      \* progress of stop_agent
    registered,   \* is the agent in the backend's _workers?
    running,      \* the worker's _running flag
    loop,         \* the worker's _run_loop
    manual,       \* is a cycle triggered by hand under way?
    incidents, changes,
    happened      \* the incidents so far that void an exclusion (history)

shared  == <<status, owner, execLock>>
worker  == <<registered, running, loop>>
process == <<up, call, starter, stopper, worker, manual>>
bounds  == <<incidents, changes, happened>>
vars    == <<shared, process, bounds>>

-----------------------------------------------------------------------------
\* "warning" is accepted by the route but nothing ever writes it.
Statuses == {"draft", "active", "paused", "stopped", "error"}

ValidTransitions ==
    {<<"draft", "active">>, <<"active", "paused">>, <<"active", "stopped">>,
     <<"paused", "active">>, <<"paused", "stopped">>,
     <<"error", "active">>, <<"error", "stopped">>}

Requests == {"active", "paused", "stopped"}

\* A request that has been validated, and one that has been committed.
Call == [step : {"commit", "sync"}, new : Requests]

Loops == {"none",      \* no task
          "idle",      \* between cycles
          "locked",    \* execution lock taken, status not read yet
          "cycle",     \* in the strategy engine
          "failing",   \* out of the cycle, about to write status 'error'
          "dead"}      \* the task has returned

InCycle(i) == loop[i] \in {"locked", "cycle"}

Init ==
    /\ status     = "draft"
    /\ owner      = None
    /\ execLock   = FALSE
    /\ up         = [i \in Instances |-> "up"]
    /\ call       = [i \in Instances |-> None]
    /\ starter    = [i \in Instances |-> "idle"]
    /\ stopper    = [i \in Instances |-> "idle"]
    /\ registered = [i \in Instances |-> FALSE]
    /\ running    = [i \in Instances |-> FALSE]
    /\ loop       = [i \in Instances |-> "none"]
    /\ manual     = [i \in Instances |-> FALSE]
    /\ incidents  = 0
    /\ changes    = 0
    /\ happened   = {}

Incident(kind) ==
    /\ kind \in Incidents
    /\ incidents < MaxIncidents
    /\ incidents' = incidents + 1
    /\ happened' = happened \cup ({kind} \cap Voiding)

-----------------------------------------------------------------------------
(* The two keys.                                                            *)

\* Wrong variant of Claimable: SET without NX.
Claimable_Always(i) == TRUE

\* SET NX.
Claimable(i) == owner = None

\* The Lua script deletes the key only if it still holds this instance.
ReleaseOwnership(i) == owner' = IF owner = i THEN None ELSE owner

\* Wrong variant of LockFree: SET without NX.
LockFree_Always(i) == TRUE

LockFree(i) == ~execLock

\* The key is deleted whoever set it.
ReleaseLock == execLock' = FALSE

\* Nobody at i refreshes the key.
Abandons(i) ==
    \/ up[i] = "down"
    \/ ~registered[i] /\ starter[i] = "idle" /\ stopper[i] = "idle"

OwnerExpires ==
    /\ owner # None /\ Abandons(owner)
    /\ owner' = None
    /\ UNCHANGED <<status, execLock, process, bounds>>

OwnerStalls ==
    /\ Incident("stall")
    /\ owner # None /\ ~Abandons(owner)
    /\ owner' = None
    /\ UNCHANGED <<status, execLock, process, changes>>

LockExpires ==
    /\ execLock /\ \A i \in Instances : ~InCycle(i)
    /\ execLock' = FALSE
    /\ UNCHANGED <<status, owner, process, bounds>>

LockOutlived ==
    /\ Incident("slow")
    /\ execLock /\ \E i \in Instances : InCycle(i)
    /\ execLock' = FALSE
    /\ UNCHANGED <<status, owner, process, changes>>

-----------------------------------------------------------------------------
(* POST /agents/{id}/status.                                                *)

\* The request is validated against the status it reads, ...
RequestStatus(i, new) ==
    /\ up[i] = "up" /\ call[i] = None
    /\ changes < MaxChanges
    /\ <<status, new>> \in ValidTransitions
    /\ call' = [call EXCEPT ![i] = [step |-> "commit", new |-> new]]
    /\ changes' = changes + 1
    /\ UNCHANGED <<shared, up, starter, stopper, worker, manual, incidents, happened>>

\* ... committed, ...
CommitStatus(i) ==
    /\ call[i] # None /\ call[i].step = "commit"
    /\ status' = call[i].new
    /\ call' = [call EXCEPT ![i].step = "sync"]
    /\ UNCHANGED <<owner, execLock, up, starter, stopper, worker, manual, bounds>>

\* ... and passed to the worker manager of the instance that serves it.
Synced(i, news) ==
    /\ call[i] # None /\ call[i].step = "sync" /\ call[i].new \in news
    /\ call' = [call EXCEPT ![i] = None]

-----------------------------------------------------------------------------
(* start_agent.                                                             *)

Claim(i) ==
    /\ ~registered[i] /\ starter[i] = "idle" /\ Claimable(i)
    /\ owner' = i
    /\ starter' = [starter EXCEPT ![i] = "claimed"]
    /\ UNCHANGED <<status, execLock, up, stopper, worker, manual, bounds>>

ApiStart(i) == Synced(i, {"active"}) /\ Claim(i)

\* Already running, being started, or owned by another instance.
ApiStartIdle(i) ==
    /\ Synced(i, {"active"})
    /\ registered[i] \/ ~Claimable(i)
    /\ UNCHANGED <<shared, up, starter, stopper, worker, manual, bounds>>

\* Wrong variant of Orphaned: the periodic task only refreshes.
Orphaned_Never(i) == FALSE

Orphaned(i) == status = "active"

\* start() and the periodic task: active agents without a worker here.
SyncStart(i) == up[i] = "up" /\ Orphaned(i) /\ Claim(i) /\ UNCHANGED call

\* The agent is read again in a session of its own.
CheckStatus(i) ==
    /\ starter[i] = "claimed"
    /\ IF status = "active"
       THEN starter' = [starter EXCEPT ![i] = "checked"] /\ UNCHANGED owner
       ELSE starter' = [starter EXCEPT ![i] = "idle"] /\ ReleaseOwnership(i)
    /\ UNCHANGED <<status, execLock, up, call, stopper, worker, manual, bounds>>

\* The trader is ready; the worker is started and registered.
Launch(i) ==
    /\ starter[i] = "checked"
    /\ starter'    = [starter EXCEPT ![i] = "idle"]
    /\ registered' = [registered EXCEPT ![i] = TRUE]
    /\ running'    = [running EXCEPT ![i] = TRUE]
    /\ loop'       = [loop EXCEPT ![i] = "idle"]
    /\ UNCHANGED <<shared, up, call, stopper, manual, bounds>>

\* No trader: status 'error', or none where the failure was unexpected.
LaunchFails(i) ==
    /\ Incident("init")
    /\ starter[i] = "checked"
    /\ status' \in {"error", status}
    /\ starter' = [starter EXCEPT ![i] = "idle"]
    /\ ReleaseOwnership(i)
    /\ UNCHANGED <<execLock, up, call, stopper, worker, manual, changes>>

-----------------------------------------------------------------------------
(* stop_agent.                                                              *)

\* Wrong variant of CancelLoop: the task is left alone.
CancelLoop_Forgotten(i) == UNCHANGED <<loop, execLock>>

\* The task is cancelled; a cycle releases its lock on the way out.
CancelLoop(i) ==
    /\ loop' = [loop EXCEPT ![i] = "none"]
    /\ IF InCycle(i) THEN ReleaseLock ELSE UNCHANGED execLock

BeginStop(i) ==
    /\ registered[i] /\ stopper[i] = "idle"
    /\ running' = [running EXCEPT ![i] = FALSE]
    /\ CancelLoop(i)
    /\ stopper' = [stopper EXCEPT ![i] = "stopping"]

ApiStop(i) ==
    /\ Synced(i, {"paused", "stopped"})
    /\ BeginStop(i)
    /\ UNCHANGED <<status, owner, up, starter, registered, manual, bounds>>

ApiStopIdle(i) ==
    /\ Synced(i, {"paused", "stopped"})
    /\ ~registered[i]
    /\ UNCHANGED <<shared, up, starter, stopper, worker, manual, bounds>>

\* POST /workers/{id}/start and /stop: the status is not changed, so the
\* periodic task starts again what a user has stopped here.
RouteStart(i) ==
    /\ "byhand" \in Incidents
    /\ up[i] = "up"
    /\ Claim(i)
    /\ UNCHANGED call

RouteStop(i) ==
    /\ Incident("byhand")
    /\ up[i] = "up"
    /\ BeginStop(i)
    /\ UNCHANGED <<status, owner, up, call, starter, registered, manual, changes>>

ReleaseStopped(i) ==
    /\ stopper[i] = "stopping"
    /\ ReleaseOwnership(i)
    /\ stopper' = [stopper EXCEPT ![i] = "released"]
    /\ UNCHANGED <<status, execLock, up, call, starter, worker, manual, bounds>>

Unregister(i) ==
    /\ stopper[i] = "released"
    /\ stopper'    = [stopper EXCEPT ![i] = "idle"]
    /\ registered' = [registered EXCEPT ![i] = FALSE]
    /\ UNCHANGED <<shared, up, call, starter, running, loop, manual, bounds>>

-----------------------------------------------------------------------------
(* The periodic task: refresh_ownership for every registered worker.        *)

\* The key has expired: reclaimed with SET NX.
Reclaim(i) ==
    /\ up[i] = "up" /\ registered[i] /\ owner = None
    /\ owner' = i
    /\ UNCHANGED <<status, execLock, process, bounds>>

\* Wrong variant of Lost: another owner goes unnoticed.
Lost_Never(i) == FALSE

Lost(i) == owner \notin {None, i}

StopLost(i) ==
    /\ up[i] = "up" /\ Lost(i)
    /\ BeginStop(i)
    /\ UNCHANGED <<status, owner, up, call, starter, registered, manual, bounds>>

-----------------------------------------------------------------------------
(* The worker's loop.  A cycle that finds the lock taken is skipped.        *)

BeginCycle(i) ==
    /\ loop[i] = "idle" /\ LockFree(i)
    /\ execLock' = TRUE
    /\ loop' = [loop EXCEPT ![i] = "locked"]
    /\ UNCHANGED <<status, owner, up, call, starter, stopper, registered, running, manual, bounds>>

\* Wrong variant of MayRun: the status is not looked at.
MayRun_Always(s) == TRUE

MayRun(s) == s = "active"

ReadStatus(i) ==
    /\ loop[i] = "locked" /\ MayRun(status)
    /\ loop' = [loop EXCEPT ![i] = "cycle"]
    /\ UNCHANGED <<shared, up, call, starter, stopper, registered, running, manual, bounds>>

\* Not active: the loop ends, the worker stays registered.
QuitLoop(i) ==
    /\ loop[i] = "locked" /\ ~MayRun(status)
    /\ loop'    = [loop EXCEPT ![i] = "dead"]
    /\ running' = [running EXCEPT ![i] = FALSE]
    /\ ReleaseLock
    /\ UNCHANGED <<status, owner, up, call, starter, stopper, registered, manual, bounds>>

\* The cycle ends, or fails and will be retried.
EndCycle(i) ==
    /\ loop[i] = "cycle"
    /\ loop' = [loop EXCEPT ![i] = "idle"]
    /\ ReleaseLock
    /\ UNCHANGED <<status, owner, up, call, starter, stopper, registered, running, manual, bounds>>

FailForGood(i) ==
    /\ Incident("error")
    /\ InCycle(i)
    /\ loop' = [loop EXCEPT ![i] = "failing"]
    /\ ReleaseLock
    /\ UNCHANGED <<status, owner, up, call, starter, stopper, registered, running, manual, changes>>

\* The loop ends; _running stays set, and with it the heartbeat task.
WriteError(i) ==
    /\ loop[i] = "failing"
    /\ status' = "error"
    /\ loop' = [loop EXCEPT ![i] = "dead"]
    /\ UNCHANGED <<owner, execLock, up, call, starter, stopper, registered, running, manual, bounds>>

-----------------------------------------------------------------------------
(* POST /agents/{id}/trigger: a cycle outside the worker, without the lock. *)

Trigger(i) ==
    /\ Incident("trigger")
    /\ up[i] = "up" /\ ~manual[i] /\ status = "active"
    /\ manual' = [manual EXCEPT ![i] = TRUE]
    /\ UNCHANGED <<shared, up, call, starter, stopper, worker, changes>>

EndTrigger(i) ==
    /\ manual[i]
    /\ manual' = [manual EXCEPT ![i] = FALSE]
    /\ UNCHANGED <<shared, up, call, starter, stopper, worker, bounds>>

-----------------------------------------------------------------------------
(* Processes.                                                               *)

\* What dies with the process; the keys stay in Redis.
Crash(i) ==
    /\ Incident("crash")
    /\ up[i] # "down"
    /\ up'         = [up EXCEPT ![i] = "down"]
    /\ call'       = [call EXCEPT ![i] = None]
    /\ starter'    = [starter EXCEPT ![i] = "idle"]
    /\ stopper'    = [stopper EXCEPT ![i] = "idle"]
    /\ registered' = [registered EXCEPT ![i] = FALSE]
    /\ running'    = [running EXCEPT ![i] = FALSE]
    /\ loop'       = [loop EXCEPT ![i] = "none"]
    /\ manual'     = [manual EXCEPT ![i] = FALSE]
    /\ UNCHANGED <<shared, changes>>

\* Requests have drained; the periodic task is cancelled, and a start it was
\* making with it: CancelledError is no Exception, the claim stays behind.
ShutDown(i) ==
    /\ Incident("shutdown")
    /\ up[i] = "up" /\ call[i] = None /\ ~manual[i] /\ stopper[i] = "idle"
    /\ up'      = [up EXCEPT ![i] = "closing"]
    /\ starter' = [starter EXCEPT ![i] = "idle"]
    /\ UNCHANGED <<shared, call, stopper, worker, manual, changes>>

StopAll(i) ==
    /\ up[i] = "closing"
    /\ BeginStop(i)
    /\ UNCHANGED <<status, owner, up, call, starter, registered, manual, bounds>>

Exit(i) ==
    /\ up[i] = "closing" /\ ~registered[i]
    /\ up' = [up EXCEPT ![i] = "down"]
    /\ UNCHANGED <<shared, call, starter, stopper, worker, manual, bounds>>

Restart(i) ==
    /\ up[i] = "down"
    /\ up' = [up EXCEPT ![i] = "up"]
    /\ UNCHANGED <<shared, call, starter, stopper, worker, manual, bounds>>

-----------------------------------------------------------------------------
ServeRequest(i) ==
    \/ CommitStatus(i) \/ ApiStart(i) \/ ApiStartIdle(i) \/ ApiStop(i) \/ ApiStopIdle(i)

Start(i) == CheckStatus(i) \/ Launch(i) \/ LaunchFails(i)

Stop(i) == ReleaseStopped(i) \/ Unregister(i)

Sync(i) == Reclaim(i) \/ StopLost(i)

RunLoop(i) ==
    \/ BeginCycle(i) \/ ReadStatus(i) \/ QuitLoop(i) \/ EndCycle(i)
    \/ FailForGood(i) \/ WriteError(i)

Process(i) == StopAll(i) \/ Exit(i) \/ Restart(i)

Next ==
    \/ OwnerExpires \/ OwnerStalls \/ LockExpires \/ LockOutlived
    \/ \E i \in Instances :
          \/ \E new \in Requests : RequestStatus(i, new)
          \/ ServeRequest(i) \/ SyncStart(i) \/ Start(i) \/ Stop(i) \/ Sync(i)
          \/ RouteStart(i) \/ RouteStop(i)
          \/ RunLoop(i) \/ Trigger(i) \/ EndTrigger(i)
          \/ Crash(i) \/ ShutDown(i) \/ Process(i)

Spec == Init /\ [][Next]_vars

\* Tasks that are runnable run, keys expire, and a process that is down is
\* started again.
Fairness ==
    /\ WF_vars(OwnerExpires) /\ WF_vars(LockExpires)
    /\ \A i \in Instances :
          /\ WF_vars(ServeRequest(i)) /\ WF_vars(SyncStart(i)) /\ WF_vars(Start(i))
          /\ WF_vars(Stop(i)) /\ WF_vars(Sync(i)) /\ WF_vars(RunLoop(i))
          /\ WF_vars(EndTrigger(i)) /\ WF_vars(Process(i))

FairSpec == Spec /\ Fairness

-----------------------------------------------------------------------------
(* Every variable stays within its type, and a loop belongs to a registered *)
(* worker of a live process: stop_agent and a crash leave no task behind.   *)
TypeOK ==
    /\ status \in Statuses
    /\ owner \in Instances \cup {None}
    /\ execLock \in BOOLEAN
    /\ up \in [Instances -> {"up", "closing", "down"}]
    /\ call \in [Instances -> Call \cup {None}]
    /\ starter \in [Instances -> {"idle", "claimed", "checked"}]
    /\ stopper \in [Instances -> {"idle", "stopping", "released"}]
    /\ registered \in [Instances -> BOOLEAN]
    /\ running \in [Instances -> BOOLEAN]
    /\ loop \in [Instances -> Loops]
    /\ manual \in [Instances -> BOOLEAN]
    /\ incidents \in Nat /\ changes \in Nat /\ happened \subseteq Voiding
    /\ \A i \in Instances : loop[i] # "none" => registered[i] /\ up[i] # "down"

(* At most one worker is in a cycle of the agent in all instances, even     *)
(* while two of them believe they own it, as long as no cycle has outlived  *)
(* its execution lock; nor is any cycle under way beside it as long as none *)
(* was triggered by hand.  "Prevents concurrent execution across all        *)
(* instances" (acquire_execution_lock) is more than the code does: a cycle  *)
(* that outlived the lock deletes the lock of the next one, and             *)
(* trigger_execution takes none.                                            *)
CyclesExclusive ==
    \A i, j \in Instances :
        /\ "slow" \notin happened /\ InCycle(i) /\ InCycle(j) => i = j
        /\ "trigger" \notin happened => ~manual[i]

(* At most one instance runs a worker for the agent, as long as no refresh  *)
(* of a live owner has been late (lifecycle.py: "Only one instance can own  *)
(* a worker at a time").                                                    *)
WorkersExclusive ==
    "stall" \notin happened =>
        \A i, j \in Instances : running[i] /\ running[j] => i = j

\* The loop ended by itself, and its worker is still in _workers.
Left(i) == loop[i] = "dead"

Runs == \E i \in Instances : loop[i] = "cycle"

(* An agent that stays active keeps being run: after a crash, a shutdown, a *)
(* failed start or a late refresh some instance picks it up.  Excepted are  *)
(* agents whose loop ended by itself and was left registered, as after a    *)
(* pause that another instance served.                                      *)
ActiveAgentRuns == []<>(status # "active" \/ Runs \/ \E i \in Instances : Left(i))

(* An agent that stays active keeps being run, without the exception        *)
(* (_periodic_sync: "Periodically refresh ownership and pick up orphaned    *)
(* agents").                                                                *)
OrphansArePickedUp == []<>(status # "active" \/ Runs)

(* A worker whose ownership went to another instance is stopped, or owns    *)
(* the agent again.                                                         *)
LostOwnerStops ==
    \A i \in Instances : running[i] /\ owner \notin {None, i} ~>
                         ~running[i] \/ owner \in {None, i}

(* Once an agent is paused or stopped for good its cycles come to an end,   *)
(* whichever instance served the request.                                   *)
StoppedAgentRests ==
    <>[](status # "active") => <>[](\A i \in Instances : ~InCycle(i) /\ ~manual[i])
=============================================================================
