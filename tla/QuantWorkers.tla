----------------------------- MODULE QuantWorkers -----------------------------
(***************************************************************************)
(* The workers of one quant agent (workers/quant_backend.py,               *)
(* workers/unified_manager.py, core/retry_utils.py) and what they keep of  *)
(* its trades.  A cycle loads the agent's row, trades on the exchange, and *)
(* writes runtime state and counters when it ends.  It holds a lock with a *)
(* time to live in Redis and is cancelled when it takes too long; how an   *)
(* instance comes to own the agent is the subject of WorkerOwnership, what *)
(* a cycle decides that of QuantEngine.                                    *)
(*                                                                         *)
(* Time passes in ticks.                                                   *)
(***************************************************************************)
EXTENDS Naturals, Sequences, Lists

CONSTANTS
    Instances,          \* processes of the backend
    None,
    LockTTL,            \* EXEC_LOCK_TTL_SECONDS,
    CycleTimeout,       \* the limit on a cycle,
    Window, MaxErrors,  \* and the error window, all in ticks
    Accidents,          \* what may go wrong, see AccidentKinds
    MaxAccidents, MaxOrders, MaxChanges     \* bounds

AccidentKinds ==
    {"slow",        \* a cycle runs into its time limit
     "error",       \* a cycle raises
     "init",        \* the trader cannot be created
     "stall",       \* a live owner refreshes its key too late
     "crash",       \* a process dies
     "lost",        \* an order is executed and its answer is lost
     "flat",        \* a close finds no position
     "raise",       \* an order raises, and the engine gives up
     "trigger"}     \* a cycle is run by hand

\* _run_loop: between cycles, lock taken, trading, over.
Loops == {"idle", "locked", "cycle", "dead"}

\* The fields of a worker.
AnyWorker == [loop : Loops, age : 0..CycleTimeout, loaded : [state : Nat, trades : Nat],
              counted : Nat, errors : Seq(Nat)]

QuantWorkerParameters ==
    /\ None \notin Instances \cup AnyWorker /\ Accidents \subseteq AccidentKinds
    /\ {MaxAccidents, MaxOrders, MaxChanges} \subseteq Nat
    /\ {LockTTL, CycleTimeout, Window, MaxErrors} \subseteq Nat \ {0}
    /\ CycleTimeout <= LockTTL

VARIABLES
    status,     \* agents.status
    row,        \* the orders that runtime_state and total_trades of the agent's row know of
    orders,     \* the orders on the exchange
    owner,      \* the ownership key
    lockLeft,   \* the time the execution lock has left, 0 when the key is not there
    worker,     \* the worker registered in each process, or None
    manual,     \* the cycle run by hand, or None
    lost,       \* (history) the orders that total_trades will never know of
    phantom,    \* (history) the closes counted without an order
    byHand,     \* (history) has a cycle been run by hand?
    accidents, changes

quantWorkerVars ==
    <<status, row, orders, owner, lockLeft, worker, manual, lost, phantom, byHand, accidents, changes>>

-----------------------------------------------------------------------------
Statuses == {"draft", "active", "paused", "error"}
MaxTrades == MaxOrders + MaxAccidents
Known    == [state : 0..MaxTrades, trades : 0..MaxTrades]
Nothing  == [state |-> 0, trades |-> 0]

\* A new worker: counted are the trades its engine counts in this cycle, errors the ages of
\* those in its window.
Worker == [loop |-> "idle", age |-> 0, loaded |-> Nothing, counted |-> 0, errors |-> <<>>]

Init ==
    /\ status = "draft"
    /\ row = Nothing
    /\ orders = 0
    /\ owner = None
    /\ lockLeft = 0
    /\ worker = [i \in Instances |-> None]
    /\ manual = None
    /\ lost = 0 /\ phantom = 0
    /\ byHand = FALSE
    /\ accidents = 0
    /\ changes = 0

Accident(kind) ==
    /\ kind \in Accidents
    /\ accidents < MaxAccidents
    /\ accidents' = accidents + 1

In(i, loops) == worker[i] # None /\ worker[i].loop \in loops
Busy(i)      == In(i, {"locked", "cycle"})

\* What a cycle counted and does not write, nobody will.
CutShort(i) == lost' = lost + worker[i].counted

\* Wrong variant of LockFree: SET without NX.
LockFree_Always == TRUE

LockFree == lockLeft = 0

\* Left by a cycle, the lock is deleted.
Unlock(i) == lockLeft' = IF Busy(i) THEN 0 ELSE lockLeft

-----------------------------------------------------------------------------
(* Starting and stopping.                                                   *)

\* POST /agents/{id}/status at an instance that does not run the agent, or at none.
SetStatus(new) ==
    /\ changes < MaxChanges
    /\ new # status
    /\ status' = new
    /\ changes' = changes + 1
    /\ UNCHANGED <<row, orders, owner, lockLeft, worker, manual, lost, phantom, byHand, accidents>>

StartAgent(i) ==
    /\ status = "active" /\ worker[i] = None
    /\ owner = None
    /\ owner' = i
    /\ worker' = [worker EXCEPT ![i] = Worker]
    /\ UNCHANGED <<status, row, orders, lockLeft, manual, lost, phantom, byHand, accidents, changes>>

\* The status becomes 'error' where the failure is a known one.
StartFails(i) ==
    /\ Accident("init")
    /\ status = "active" /\ worker[i] = None /\ owner = None
    /\ status' \in {"error", status}
    /\ UNCHANGED <<row, orders, owner, lockLeft, worker, manual, lost, phantom, byHand, changes>>

\* The loop's task is cancelled, with the cycle it is in; the key is deleted if it is ours.
Stopped(i) ==
    /\ Unlock(i)
    /\ CutShort(i)
    /\ owner' = IF owner = i THEN None ELSE owner
    /\ worker' = [worker EXCEPT ![i] = None]

StopAgent(i, new) ==
    /\ changes < MaxChanges
    /\ worker[i] # None
    /\ status' = new
    /\ changes' = changes + 1
    /\ Stopped(i)
    /\ UNCHANGED <<row, orders, manual, phantom, byHand, accidents>>

StopLost(i) ==
    /\ worker[i] # None /\ owner \notin {None, i}
    /\ Stopped(i)
    /\ UNCHANGED <<status, row, orders, manual, phantom, byHand, accidents, changes>>

Reclaim(i) ==
    /\ worker[i] # None /\ owner = None
    /\ owner' = i
    /\ UNCHANGED <<status, row, orders, lockLeft, worker, manual, lost, phantom, byHand, accidents, changes>>

\* The key of a process that is gone expires, that of a live one only by accident.
OwnerExpires ==
    /\ owner # None
    /\ IF worker[owner] = None THEN UNCHANGED accidents ELSE Accident("stall")
    /\ owner' = None
    /\ UNCHANGED <<status, row, orders, lockLeft, worker, manual, lost, phantom, byHand, changes>>

Crash(i) ==
    /\ Accident("crash")
    /\ worker[i] # None
    /\ CutShort(i)
    /\ worker' = [worker EXCEPT ![i] = None]
    /\ UNCHANGED <<status, row, orders, owner, lockLeft, manual, phantom, byHand, changes>>

-----------------------------------------------------------------------------
(* A cycle.                                                                 *)

\* A cycle that ends well empties the error window; so does one that is skipped.
Succeeded(w) == [w EXCEPT !.loop = "idle", !.age = 0, !.counted = 0, !.loaded = Nothing,
                          !.errors = <<>>]

Skip(i) ==
    /\ In(i, {"idle"}) /\ ~LockFree
    /\ worker' = [worker EXCEPT ![i] = Succeeded(@)]
    /\ UNCHANGED <<status, row, orders, owner, lockLeft, manual, lost, phantom, byHand, accidents, changes>>

Begin(i) ==
    /\ In(i, {"idle"}) /\ LockFree
    /\ lockLeft' = LockTTL
    /\ worker' = [worker EXCEPT ![i].loop = "locked"]
    /\ UNCHANGED <<status, row, orders, owner, manual, lost, phantom, byHand, accidents, changes>>

\* The row is read; an agent that is not active ends the loop, and its worker stays.
Load(i) ==
    /\ In(i, {"locked"})
    /\ IF status = "active"
         THEN /\ worker' = [worker EXCEPT ![i].loop = "cycle", ![i].loaded = row]
              /\ UNCHANGED lockLeft
         ELSE /\ worker' = [worker EXCEPT ![i].loop = "dead", ![i].age = 0]
              /\ Unlock(i)
    /\ UNCHANGED <<status, row, orders, owner, manual, lost, phantom, byHand, accidents, changes>>

\* An order that the engine counts.
Trade(i) ==
    /\ In(i, {"cycle"})
    /\ orders < MaxOrders
    /\ orders' = orders + 1
    /\ worker' = [worker EXCEPT ![i].counted = @ + 1]
    /\ UNCHANGED <<status, row, owner, lockLeft, manual, lost, phantom, byHand, accidents, changes>>

\* An executed order whose answer is lost counts as refused.
Unanswered(i) ==
    /\ Accident("lost")
    /\ In(i, {"cycle"})
    /\ orders < MaxOrders
    /\ orders' = orders + 1
    /\ lost' = lost + 1
    /\ UNCHANGED <<status, row, owner, lockLeft, worker, manual, phantom, byHand, changes>>

\* A close that finds no position is a success, and counted.
CloseFlat(i) ==
    /\ Accident("flat")
    /\ In(i, {"cycle"})
    /\ phantom' = phantom + 1
    /\ worker' = [worker EXCEPT ![i].counted = @ + 1]
    /\ UNCHANGED <<status, row, orders, owner, lockLeft, manual, lost, byHand, changes>>

\* The cycle is recorded and its lock deleted.
Recorded(i) ==
    /\ In(i, {"cycle"})
    /\ worker' = [worker EXCEPT ![i] = Succeeded(@)]
    /\ Unlock(i)

\* update_runtime_state and update_performance write what was loaded plus what was done.
Commit(i) ==
    /\ Recorded(i)
    /\ row' = [state |-> worker[i].loaded.state + worker[i].counted,
               trades |-> worker[i].loaded.trades + worker[i].counted]
    /\ UNCHANGED <<status, orders, owner, manual, lost, phantom, byHand, accidents, changes>>

\* An order raises, executed or not.  The engine answers with the state it was given and no
\* trades, whatever it did before; the cycle ends as one that went well.
EngineFails(i) ==
    /\ Accident("raise")
    /\ Recorded(i)
    /\ \E n \in {0, 1} :
          /\ orders + n <= MaxOrders
          /\ orders' = orders + n
          /\ lost' = lost + n + worker[i].counted
    /\ row' = [row EXCEPT !.state = worker[i].loaded.state]
    /\ UNCHANGED <<status, owner, manual, phantom, byHand, changes>>

\* The errors still within the window, and the new one.
Recent(errors) == Kept(errors, 0 .. (Window - 1)) \o <<0>>

\* Too many errors within the window end the loop for good.
Failed(i) ==
    LET w == worker[i]
        recent == Recent(w.errors)
        stops == Len(recent) >= MaxErrors
    IN  /\ worker' = [worker EXCEPT ![i] =
                        [Succeeded(w) EXCEPT !.loop = IF stops THEN "dead" ELSE "idle",
                                             !.errors = recent]]
        /\ status' = IF stops THEN "error" ELSE status
        /\ CutShort(i)
        /\ Unlock(i)

\* Wrong variant of Overdue: no limit on a cycle.
Overdue_Never(i) == FALSE

Overdue(i) == Busy(i) /\ worker[i].age = CycleTimeout

TimeOut(i) ==
    /\ Accident("slow")
    /\ Overdue(i)
    /\ Failed(i)
    /\ UNCHANGED <<row, orders, owner, manual, phantom, byHand, changes>>

CycleFails(i) ==
    /\ Accident("error")
    /\ In(i, {"cycle"})
    /\ Failed(i)
    /\ UNCHANGED <<row, orders, owner, manual, phantom, byHand, changes>>

\* An error that no retry mends.
CycleFailsForGood(i) ==
    /\ Accident("error")
    /\ In(i, {"cycle"})
    /\ worker' = [worker EXCEPT ![i] = [Succeeded(@) EXCEPT !.loop = "dead"]]
    /\ status' = "error"
    /\ CutShort(i)
    /\ Unlock(i)
    /\ UNCHANGED <<row, orders, owner, manual, phantom, byHand, changes>>

-----------------------------------------------------------------------------
(* trigger_execution: no lock, no limit, and no update of the counters.     *)

\* POST /agents/{id}/trigger: any active agent, whatever its worker is doing.
MayTrigger == status = "active"

Trigger ==
    /\ Accident("trigger")
    /\ manual = None /\ MayTrigger
    /\ manual' = [loaded |-> row.state, placed |-> 0]
    /\ byHand' = TRUE
    /\ UNCHANGED <<status, row, orders, owner, lockLeft, worker, lost, phantom, changes>>

TriggerTrade ==
    /\ manual # None
    /\ orders < MaxOrders
    /\ orders' = orders + 1
    /\ lost' = lost + 1
    /\ manual' = [manual EXCEPT !.placed = @ + 1]
    /\ UNCHANGED <<status, row, owner, lockLeft, worker, phantom, byHand, accidents, changes>>

\* The new state knows of all its orders or of some; or nothing is written.
TriggerEnds ==
    /\ manual # None
    /\ \/ UNCHANGED row
       \/ \E n \in 0..manual.placed : row' = [row EXCEPT !.state = manual.loaded + n]
    /\ manual' = None
    /\ UNCHANGED <<status, orders, owner, lockLeft, worker, lost, phantom, byHand, accidents, changes>>

-----------------------------------------------------------------------------
\* Timers fire when they are due.  The time limit of a cycle was set before its lock was
\* taken, so at a tie the cycle is cancelled first; a cycle that would be late may not be
\* where "slow" is no accident of the run.
Tick ==
    /\ \A i \in Instances : ~Overdue(i)
    /\ \A i \in Instances : Busy(i) /\ worker[i].age + 1 = CycleTimeout =>
                                "slow" \in Accidents /\ accidents < MaxAccidents
    /\ lockLeft > 0 \/ \E i \in Instances : worker[i] # None /\ worker[i].errors # <<>>
    /\ lockLeft' = IF lockLeft = 1 /\ \E i \in Instances : Busy(i) /\ worker[i].age + 1 = CycleTimeout
                     THEN 1 ELSE IF lockLeft = 0 THEN 0 ELSE lockLeft - 1
    /\ worker' = [i \in Instances |->
                    IF worker[i] = None THEN None
                    ELSE [worker[i] EXCEPT
                            !.age = IF Busy(i) THEN @ + 1 ELSE @,
                            !.errors = [k \in DOMAIN @ |-> IF @[k] < Window THEN @[k] + 1 ELSE @[k]]]]
    /\ UNCHANGED <<status, row, orders, owner, manual, lost, phantom, byHand, accidents, changes>>

Next ==
    \/ \E new \in {"active", "paused"} : SetStatus(new)
    \/ \E i \in Instances :
          \/ StartAgent(i) \/ StartFails(i) \/ StopAgent(i, "paused") \/ StopLost(i) \/ Reclaim(i)
          \/ Crash(i)
          \/ Skip(i) \/ Begin(i) \/ Load(i)
          \/ Trade(i) \/ Unanswered(i) \/ CloseFlat(i) \/ Commit(i) \/ EngineFails(i)
          \/ TimeOut(i) \/ CycleFails(i) \/ CycleFailsForGood(i)
    \/ OwnerExpires
    \/ Trigger \/ TriggerTrade \/ TriggerEnds
    \/ Tick

Spec == Init /\ [][Next]_quantWorkerVars

-----------------------------------------------------------------------------
TypeOK ==
    /\ status \in Statuses
    /\ row \in Known /\ orders \in 0..MaxOrders
    /\ owner \in Instances \cup {None}
    /\ lockLeft \in 0..LockTTL
    /\ \A i \in Instances :
          worker[i] # None =>
              /\ worker[i].loop \in Loops /\ worker[i].age \in 0..CycleTimeout
              /\ worker[i].loaded \in Known /\ worker[i].counted \in 0..MaxTrades
              /\ worker[i].errors \in Seq(0..Window)
    /\ manual = None \/ manual \in [loaded : 0..MaxTrades, placed : 0..MaxTrades]
    /\ lost \in 0..MaxTrades /\ phantom \in 0..MaxAccidents /\ byHand \in BOOLEAN
    /\ accidents \in 0..MaxAccidents /\ changes \in 0..MaxChanges

(* While several instances believe they own the agent, and whatever cuts a  *)
(* cycle short, no trade is counted over a stale row:                       *)
(*   - every order is in the row's total_trades, counted by the cycle under *)
(*     way, or lost, and nothing else is counted but closes that found no   *)
(*     position;                                                            *)
(*   - the runtime state knows as many trades as total_trades, unless a     *)
(*     cycle was run by hand, and never more than were done.                *)
(* Lost for good is what a cycle had done that was cut short (by its limit, *)
(* an error, a pause, a crash) or whose engine gave up, an order whose      *)
(* answer was lost, and every order of a cycle run by hand.                 *)
RowKnowsOrders ==
    LET counted(i) == IF worker[i] = None THEN 0 ELSE worker[i].counted
        done == orders + phantom
    IN  /\ \A i \in Instances : counted(i) > 0 =>
              done = row.trades + lost + counted(i) /\ worker[i].loaded.trades = row.trades
        /\ (\A i \in Instances : counted(i) = 0) => done = row.trades + lost
        /\ IF byHand THEN row.state <= done ELSE row.state = row.trades
=============================================================================
