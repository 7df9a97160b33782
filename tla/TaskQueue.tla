------------------------------ MODULE TaskQueue ------------------------------
(***************************************************************************)
(* The distributed mode: cycles of an agent as jobs of an ARQ queue        *)
(* (tasks.py, queue.py), with the heartbeat columns of the agent's row     *)
(* (worker_heartbeat.py) as the only sign of life.                         *)
(*                                                                         *)
(* Of the queue the code relies on this: a job id is taken from the moment *)
(* it is enqueued until the kept result of the job has expired, and an id  *)
(* that is taken is refused; a job whose worker dies is run again; a job   *)
(* is cut off after its time limit, which is also that of the execution    *)
(* lock and of a heartbeat (300 s).                                        *)
(*                                                                         *)
(* The worker is run with WorkerSettings, which names its jobs and no cron  *)
(* jobs; those that get_worker_settings lists are never scheduled.  So the *)
(* synchronisation runs when a worker starts up, and not again.            *)
(*                                                                         *)
(* One agent is modelled, with times as seen from now.                     *)
(***************************************************************************)
EXTENDS Integers, FiniteSets

CONSTANTS
    None,
    MaxTries,    \* worker_max_consecutive_errors
    MaxRequests, \* bound on the requests of users
    MaxCrashes   \* bound on the deaths of the worker process

QueueParameters ==
    /\ MaxTries \in Nat \ {0} /\ MaxRequests \in Nat /\ MaxCrashes \in Nat
    /\ None \notin {"agent", "manual", "stop"}

VARIABLES
    agent,     \* the agent's row
    job,       \* the queue's entry for each job id
    pc,        \* where a running job stands
    lock,      \* exec_lock:agent:<id>: the job that holds it
    sync,      \* the synchronisation under way
    up,        \* is the worker process up, its start-up done?
    requests,
    crashes

vars == <<agent, job, pc, lock, sync, up, requests, crashes>>

-----------------------------------------------------------------------------
\* Job ids: "agent:<id>", "manual:agent:<id>:<random>", and the random id of a
\* stop job.
Ids == {"agent", "manual", "stop"}

\* beat is worker_heartbeat_at, ran last_run_at, next next_run_at; touched: was
\* updated_at set within the grace of a start-up?
Agent == [status : {"active", "paused", "error"},
          beat : {"none", "fresh", "stale"},
          ran : {"never", "recent", "old"},
          next : {"unset", "later", "past"},
          touched : BOOLEAN]

Job == [fn : {"execute", "start", "stop"},
        state : {"absent", "queued", "running", "done"}, try : Nat]

NoJob == [fn |-> "execute", state |-> "absent", try |-> 0]

Steps == {"idle", "begin", "check", "trader", "work", "successor", "release"}

Sync == [at : {"idle", "detect", "mark", "clear", "schedule"}, stale : BOOLEAN]

Init ==
    /\ agent = [status |-> "paused", beat |-> "none", ran |-> "never",
                next |-> "unset", touched |-> FALSE]
    /\ job = [id \in Ids |-> NoJob]
    /\ pc = [id \in Ids |-> "idle"]
    /\ lock = None
    /\ sync = [at |-> "idle", stale |-> FALSE]
    /\ up = FALSE
    /\ requests = 0 /\ crashes = 0

queue    == <<job, pc>>
counters == <<requests, crashes>>

\* enqueue_job: a job or a result under the id makes the queue refuse.
Enqueued(jobs, id, fn) ==
    IF jobs[id].state = "absent"
    THEN [jobs EXCEPT ![id] = [fn |-> fn, state |-> "queued", try |-> 0]]
    ELSE jobs

-----------------------------------------------------------------------------
(* Requests (WorkerManager in distributed mode, TaskQueueService).          *)

Request == requests < MaxRequests /\ requests' = requests + 1

\* The status is committed, then the start job is submitted under the id of the
\* agent's cycles; Redis may fail.
StartAgent ==
    /\ Request
    /\ agent.status # "active"
    /\ agent' = [agent EXCEPT !.status = "active", !.touched = TRUE]
    /\ \/ job' = Enqueued(job, "agent", "start")
       \/ UNCHANGED job
    /\ UNCHANGED <<pc, lock, sync, up, crashes>>

\* The abort of a waiting job makes the worker run it at once; the worker does
\* not allow jobs to be aborted while they run.
StopAgent ==
    /\ Request
    /\ agent.status = "active"
    /\ agent' = [agent EXCEPT !.status = "paused", !.touched = TRUE]
    /\ \/ job' = Enqueued(job, "stop", "stop")
       \/ UNCHANGED job
    /\ UNCHANGED <<pc, lock, sync, up, crashes>>

TriggerAgent ==
    /\ Request
    /\ job' = Enqueued(job, "manual", "execute")
    /\ UNCHANGED <<agent, pc, lock, sync, up, crashes>>

-----------------------------------------------------------------------------
(* Jobs.                                                                    *)

At(id, step)   == pc[id] = step
Goto(id, step) == pc' = [pc EXCEPT ![id] = step]

PickUp(id) ==
    /\ up
    /\ job[id].state = "queued"
    /\ job' = [job EXCEPT ![id].state = "running", ![id].try = @ + 1]
    /\ Goto(id, "begin")
    /\ UNCHANGED <<agent, lock, sync, up, counters>>

\* The job is over; its result is kept.
Finished(id) ==
    /\ job' = [job EXCEPT ![id].state = "done"]
    /\ Goto(id, "idle")

\* start_agent_execution submits the first cycle under the id it runs under
\* itself.
RunStart(id) ==
    /\ At(id, "begin") /\ job[id].fn = "start"
    /\ job' = [Enqueued(job, "agent", "execute") EXCEPT ![id].state = "done"]
    /\ Goto(id, "idle")
    /\ UNCHANGED <<agent, lock, sync, up, counters>>

\* stop_agent_execution clears the heartbeat.
RunStop(id) ==
    /\ At(id, "begin") /\ job[id].fn = "stop"
    /\ agent' = [agent EXCEPT !.beat = "none", !.touched = TRUE]
    /\ Finished(id)
    /\ UNCHANGED <<lock, sync, up, counters>>

TakeLock(id) ==
    /\ At(id, "begin") /\ job[id].fn = "execute"
    /\ lock = None
    /\ lock' = id
    /\ Goto(id, "check")
    /\ UNCHANGED <<agent, job, sync, up, counters>>

\* Wrong variant of SkipCycle: the lock is deleted in any case.
SkipCycle_Releases(id) ==
    /\ At(id, "begin") /\ job[id].fn = "execute"
    /\ lock # None
    /\ lock' = None
    /\ Finished(id)
    /\ UNCHANGED <<agent, sync, up, counters>>

\* Another job executes the agent: the cycle is skipped, and no next one submitted.
SkipCycle(id) ==
    /\ At(id, "begin") /\ job[id].fn = "execute"
    /\ lock # None
    /\ Finished(id)
    /\ UNCHANGED <<agent, lock, sync, up, counters>>

\* The heartbeat is committed at once.
CheckAgent(id) ==
    /\ At(id, "check")
    /\ IF agent.status = "active"
       THEN /\ agent' = [agent EXCEPT !.beat = "fresh", !.touched = TRUE]
            /\ Goto(id, "trader")
       ELSE UNCHANGED agent /\ Goto(id, "release")
    /\ UNCHANGED <<job, lock, sync, up, counters>>

\* No account, no credentials, or the exchange cannot be reached.
TraderFails(id) ==
    /\ At(id, "trader")
    /\ agent' = [agent EXCEPT !.status = "error", !.touched = TRUE]
    /\ Goto(id, "release")
    /\ UNCHANGED <<job, lock, sync, up, counters>>

TraderReady(id) ==
    /\ At(id, "trader")
    /\ Goto(id, "work")
    /\ UNCHANGED <<agent, job, lock, sync, up, counters>>

CommitCycle(id) ==
    /\ At(id, "work")
    /\ agent' = [agent EXCEPT !.ran = "recent", !.next = "later", !.touched = TRUE]
    /\ Goto(id, "successor")
    /\ UNCHANGED <<job, lock, sync, up, counters>>

\* Any exception: the agent is given up once the queue has tried the job often
\* enough; the job itself ends without an error.
CycleFails(id) ==
    /\ At(id, "work") \/ At(id, "successor")
    /\ agent' = IF job[id].try >= MaxTries
                THEN [agent EXCEPT !.status = "error", !.touched = TRUE] ELSE agent
    /\ Goto(id, "release")
    /\ UNCHANGED <<job, lock, sync, up, counters>>

\* "Schedule next execution".
SubmitSuccessor(id) ==
    /\ At(id, "successor")
    /\ job' = Enqueued(job, "agent", "execute")
    /\ Goto(id, "release")
    /\ UNCHANGED <<agent, lock, sync, up, counters>>

\* The worker cuts the job off.
JobTimesOut(id) ==
    /\ pc[id] \in {"check", "trader", "work", "successor"}
    /\ Goto(id, "release")
    /\ UNCHANGED <<agent, job, lock, sync, up, counters>>

ReleaseLock(id) ==
    /\ At(id, "release")
    /\ lock' = None
    /\ Finished(id)
    /\ UNCHANGED <<agent, sync, up, counters>>

JobStep(id) ==
    \/ PickUp(id) \/ RunStart(id) \/ RunStop(id)
    \/ TakeLock(id) \/ SkipCycle(id) \/ CheckAgent(id)
    \/ TraderFails(id) \/ TraderReady(id) \/ CommitCycle(id)
    \/ SubmitSuccessor(id) \/ ReleaseLock(id)

-----------------------------------------------------------------------------
(* sync_active_strategies: on start-up.                                     *)

SyncTo(at) == sync' = [sync EXCEPT !.at = at]

SyncBegin ==
    /\ sync.at = "idle"
    /\ ~up
    /\ SyncTo("detect")
    /\ UNCHANGED <<agent, queue, lock, up, counters>>

\* detect_stale_agents: no recent heartbeat, or none and no recent run.
Stale ==
    /\ agent.status = "active"
    /\ \/ agent.beat = "stale"
       \/ agent.beat = "none" /\ agent.ran = "old"

SyncDetect ==
    /\ sync.at = "detect"
    /\ sync' = [at |-> "mark", stale |-> Stale]
    /\ UNCHANGED <<agent, queue, lock, up, counters>>

\* mark_stale_agents_as_error updates what it has found by id.
SyncMark ==
    /\ sync.at = "mark"
    /\ agent' = IF sync.stale
                THEN [agent EXCEPT !.status = "error", !.beat = "none", !.touched = TRUE]
                ELSE agent
    /\ sync' = [at |-> "clear", stale |-> FALSE]
    /\ UNCHANGED <<queue, lock, up, counters>>

\* clear_all_heartbeats_for_active_agents, those of running cycles included.
SyncClear ==
    /\ sync.at = "clear"
    /\ agent' = IF agent.status = "active"
                THEN [agent EXCEPT !.beat = "none", !.touched = TRUE] ELSE agent
    /\ SyncTo("schedule")
    /\ UNCHANGED <<queue, lock, up, counters>>

IsAgentRunning ==
    /\ agent.status = "active"
    /\ agent.beat = "fresh" \/ (agent.beat = "none" /\ agent.touched)

NeedsJob ==
    /\ agent.status = "active"
    /\ job["agent"].state = "absent"
    /\ ~(agent.next = "later" /\ IsAgentRunning)

\* It ends the worker's start-up.
SyncSchedule ==
    /\ sync.at = "schedule"
    /\ job' = IF NeedsJob THEN Enqueued(job, "agent", "execute") ELSE job
    /\ SyncTo("idle")
    /\ up' = TRUE
    /\ UNCHANGED <<agent, pc, lock, counters>>

SyncStep == SyncBegin \/ SyncDetect \/ SyncMark \/ SyncClear \/ SyncSchedule

-----------------------------------------------------------------------------
(* Time and the death of the worker.                                        *)

InCycle(id) == pc[id] \in {"trader", "work", "successor", "release"}

\* A heartbeat lives as long as a job may run.
BeatAges ==
    /\ agent.beat = "fresh" /\ ~agent.touched
    /\ ~\E id \in Ids : InCycle(id)
    /\ agent' = [agent EXCEPT !.beat = "stale"]
    /\ UNCHANGED <<queue, lock, sync, up, counters>>

RunAges ==
    /\ agent.ran = "recent"
    /\ agent' = [agent EXCEPT !.ran = "old"]
    /\ UNCHANGED <<queue, lock, sync, up, counters>>

NextComes ==
    /\ agent.next = "later"
    /\ agent' = [agent EXCEPT !.next = "past"]
    /\ UNCHANGED <<queue, lock, sync, up, counters>>

GraceEnds ==
    /\ agent.touched
    /\ agent' = [agent EXCEPT !.touched = FALSE]
    /\ UNCHANGED <<queue, lock, sync, up, counters>>

ResultExpires(id) ==
    /\ job[id].state = "done"
    /\ job' = [job EXCEPT ![id] = NoJob]
    /\ UNCHANGED <<agent, pc, lock, sync, up, counters>>

\* Only the lock of a job that died with its worker lives to its time limit.
LockExpires ==
    /\ lock # None
    /\ pc[lock] \in {"idle", "begin"}
    /\ lock' = None
    /\ UNCHANGED <<agent, queue, sync, up, counters>>

WorkerDies ==
    /\ crashes < MaxCrashes
    /\ crashes' = crashes + 1
    /\ up' = FALSE
    /\ job' = [id \in Ids |-> IF job[id].state = "running"
                              THEN [job[id] EXCEPT !.state = "queued"] ELSE job[id]]
    /\ pc' = [id \in Ids |-> "idle"]
    /\ sync' = [at |-> "idle", stale |-> FALSE]
    /\ UNCHANGED <<agent, lock, requests>>

Time == NextComes \/ GraceEnds \/ LockExpires \/ \E id \in Ids : ResultExpires(id)

Next ==
    \/ StartAgent \/ StopAgent \/ TriggerAgent
    \/ \E id \in Ids : JobStep(id) \/ CycleFails(id) \/ JobTimesOut(id)
    \/ SyncStep
    \/ Time \/ BeatAges \/ RunAges
    \/ WorkerDies

Spec == Init /\ [][Next]_vars

\* The queue serves its jobs, a start-up comes to its end, and time passes.
Fairness ==
    /\ \A id \in Ids : WF_vars(JobStep(id)) /\ WF_vars(ResultExpires(id))
    /\ WF_vars(SyncStep)
    /\ WF_vars(NextComes) /\ WF_vars(GraceEnds) /\ WF_vars(LockExpires)

FairSpec == Spec /\ Fairness

-----------------------------------------------------------------------------
(* Every variable stays within its type.                                    *)
TypeOK ==
    /\ agent \in Agent
    /\ job \in [Ids -> Job]
    /\ pc \in [Ids -> Steps]
    /\ lock \in Ids \cup {None}
    /\ sync \in Sync
    /\ up \in BOOLEAN
    /\ requests \in Nat /\ crashes \in Nat

(* At most one job is inside the agent's cycle, and it holds the lock,      *)
(* although the lock is deleted without a look at its holder: scheduled and *)
(* manual jobs, jobs run again after a crash and expired locks included     *)
(* ("Prevents concurrent execution", tasks.py).                             *)
CyclesExclusive ==
    \A id \in Ids : pc[id] \in {"check"} \/ InCycle(id) => lock = id

(* An agent that was executed and stays active is executed again: what its  *)
(* cycle fails to submit, the synchronisation submits once the old id is    *)
(* free ("Sync agents every 5 minutes (handles heartbeat recovery)",        *)
(* tasks.py).                                                               *)
AgentRunsAgain ==
    agent.status = "active" /\ (\E id \in Ids : At(id, "successor")) ~>
    agent.status # "active" \/ (\E id \in Ids : At(id, "trader"))
=============================================================================
