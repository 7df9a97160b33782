-------------------------------- MODULE Reports --------------------------------
(***************************************************************************)
(* Performance reports: the daily snapshots of accounts and agents         *)
(* (services/pnl_service.py), written by the job of 00:00 UTC              *)
(* (workers/tasks.py) and by a user's own request (api/routes/analytics.py)*)
(* and the dashboard, which keeps the day's first total as the baseline of *)
(* today's P&L (api/routes/dashboard.py, services/redis_service.py).       *)
(*                                                                         *)
(* The job is one transaction for all accounts and agents.  Money is in    *)
(* whole units, and of the figures of a snapshot the model keeps the level *)
(* and the day's change; percentages, margins and position lists follow    *)
(* from the same reading.  No transaction straddles midnight: the job      *)
(* starts with the day and is killed after five minutes, a request's       *)
(* transaction lasts for a fraction of a second.                           *)
(***************************************************************************)
EXTENDS Integers, FiniteSets, FiniteSetsExt, Sums

CONSTANTS
    Accounts,
    Agents,
    None,       \* no snapshot, no cached value
    MaxDay,     \* bounds: days 0 .. MaxDay,
    MaxLevel,   \* equities 1 .. MaxLevel, agents' results -MaxLevel .. MaxLevel,
    MaxMoves    \* changes of equities, results, connections and statuses

ReportParameters ==
    /\ None \notin Accounts /\ IsFiniteSet(Accounts)
    /\ {MaxDay, MaxMoves} \subseteq Nat /\ MaxLevel \in Nat \ {0}

VARIABLES
    day,
    equity,         \* what each exchange account is worth
    connected,      \* ExchangeAccountDB.is_connected
    result,         \* AgentDB.total_pnl
    active,         \* the agents whose status is "active"
    accountRow,     \* daily_account_snapshots, by account and day
    agentRow,       \* daily_agent_snapshots, by agent and day
    job,            \* the transaction of create_daily_snapshots
    sync,           \* the transaction of sync_account_snapshot
    startEquity,    \* Redis: today's baseline
    balance,        \* Redis: the balances read in the last ten seconds
    moves

reportVars == <<day, equity, connected, result, active, accountRow, agentRow,
                job, sync, startEquity, balance, moves>>
world     == <<equity, connected, result, active, moves>>
dashboard == <<startEquity, balance>>

-----------------------------------------------------------------------------
Days == 0 .. MaxDay

AccountRow == [level : 1 .. MaxLevel, change : Int]
AgentRow   == [level : Int, change : Int]

NoSync == [step |-> "idle", account |-> None, level |-> 0, row |-> None, exists |-> FALSE]
NoJob  == [step |-> "due", todo |-> {}, at |-> None, row |-> None, exists |-> FALSE,
           rows |-> [a \in Accounts |-> None]]

Init ==
    /\ day = 0
    /\ equity = [a \in Accounts |-> 1]
    /\ connected \in SUBSET Accounts
    /\ result = [g \in Agents |-> 0]
    /\ active = Agents
    /\ accountRow = [a \in Accounts |-> [d \in Days |-> None]]
    /\ agentRow = [g \in Agents |-> [d \in Days |-> None]]
    /\ job = NoJob
    /\ sync = NoSync
    /\ startEquity = None
    /\ balance = [a \in Accounts |-> None]
    /\ moves = 0

-----------------------------------------------------------------------------
(* The world                                                               *)

Moves == moves < MaxMoves /\ moves' = moves + 1

EquityMoves(a) ==
    /\ Moves
    /\ \E e \in 1 .. MaxLevel : equity' = [equity EXCEPT ![a] = e]
    /\ UNCHANGED <<day, connected, result, active, accountRow, agentRow, job, sync>>
    /\ UNCHANGED dashboard

\* An agent closes a trade (update_performance).
AgentTrades(g) ==
    /\ Moves
    /\ \E p \in {-1, 1} :
          /\ result[g] + p \in -MaxLevel .. MaxLevel
          /\ result' = [result EXCEPT ![g] = @ + p]
    /\ UNCHANGED <<day, equity, connected, active, accountRow, agentRow, job, sync>>
    /\ UNCHANGED dashboard

\* A connection test or a balance request succeeds.  One that fails is rolled back
\* and leaves the account as it is (Credentials).
ConnectionTested(a) ==
    /\ Moves
    /\ a \notin connected
    /\ connected' = connected \cup {a}
    /\ UNCHANGED <<day, equity, result, active, accountRow, agentRow, job, sync>>
    /\ UNCHANGED dashboard

StatusChanges(g) ==
    /\ Moves
    /\ active' \in {active \cup {g}, active \ {g}}
    /\ UNCHANGED <<day, equity, connected, result, accountRow, agentRow, job, sync>>
    /\ UNCHANGED dashboard

\* The baseline is kept under the date.
Midnight ==
    /\ day < MaxDay
    /\ job.step \in {"due", "done"}
    /\ sync = NoSync
    /\ day' = day + 1
    /\ job' = NoJob
    /\ startEquity' = None
    /\ UNCHANGED <<accountRow, agentRow, sync, balance>>
    /\ UNCHANGED world

-----------------------------------------------------------------------------
(* Snapshots                                                               *)

Yesterday(table) == IF day = 0 THEN None ELSE table[day - 1]

\* create_account_snapshot: without yesterday's row the day starts at zero.
AccountChange(a, level) ==
    IF Yesterday(accountRow[a]) = None THEN 0 ELSE level - accountRow[a][day - 1].level

\* create_agent_snapshot: without yesterday's row everything so far is today's.
AgentChange(g) ==
    IF Yesterday(agentRow[g]) = None THEN result[g]
    ELSE result[g] - agentRow[g][day - 1].level

NewAccountRow(a, level) == [level |-> level, change |-> AccountChange(a, level)]
NewAgentRow(g) == [level |-> result[g], change |-> AgentChange(g)]

JobStarts ==
    /\ job.step = "due"
    /\ job' = [NoJob EXCEPT !.step = "running", !.todo = connected]
    /\ UNCHANGED <<day, accountRow, agentRow, sync>>
    /\ UNCHANGED <<world, dashboard>>

\* An account whose exchange does not answer is passed over.
JobPasses(a) ==
    /\ job.step = "running" /\ job.at = None /\ a \in job.todo
    /\ job' = [job EXCEPT !.todo = @ \ {a}]
    /\ UNCHANGED <<day, accountRow, agentRow, sync>>
    /\ UNCHANGED <<world, dashboard>>

JobLooks(a) ==
    /\ job.step = "running" /\ job.at = None /\ a \in job.todo
    /\ job' = [job EXCEPT !.at = a, !.todo = @ \ {a},
                          !.row = NewAccountRow(a, equity[a]),
                          !.exists = accountRow[a][day] # None]
    /\ UNCHANGED <<day, accountRow, agentRow, sync>>
    /\ UNCHANGED <<world, dashboard>>

\* A row that appeared since the look violates the unique index; the session is
\* then unusable and the whole transaction is lost.
JobFlushes ==
    /\ job.at # None
    /\ job' = IF ~job.exists /\ accountRow[job.at][day] # None
              THEN [NoJob EXCEPT !.step = "done"]
              ELSE [job EXCEPT !.rows[job.at] = job.row,
                               !.at = None, !.row = None, !.exists = FALSE]
    /\ UNCHANGED <<day, accountRow, agentRow, sync>>
    /\ UNCHANGED <<world, dashboard>>

\* The active agents' rows and the commit.
JobCommits ==
    /\ job.step = "running" /\ job.at = None /\ job.todo = {}
    /\ accountRow' = [a \in Accounts |->
          IF job.rows[a] = None THEN accountRow[a]
          ELSE [accountRow[a] EXCEPT ![day] = job.rows[a]]]
    /\ agentRow' = [g \in Agents |->
          IF g \in active THEN [agentRow[g] EXCEPT ![day] = NewAgentRow(g)] ELSE agentRow[g]]
    /\ job' = [NoJob EXCEPT !.step = "done"]
    /\ UNCHANGED <<day, sync>>
    /\ UNCHANGED <<world, dashboard>>

\* The job is killed, or its process dies.
JobLost ==
    /\ job.step = "running"
    /\ job' = [NoJob EXCEPT !.step = "done"]
    /\ UNCHANGED <<day, accountRow, agentRow, sync>>
    /\ UNCHANGED <<world, dashboard>>

\* A request reads the exchange; then it reads the tables; then it writes.
SyncFetches(a) ==
    /\ sync = NoSync
    /\ a \in connected
    /\ sync' = [NoSync EXCEPT !.step = "fetched", !.account = a, !.level = equity[a]]
    /\ UNCHANGED <<day, accountRow, agentRow, job>>
    /\ UNCHANGED <<world, dashboard>>

SyncLooks ==
    /\ sync.step = "fetched"
    /\ sync' = [sync EXCEPT !.step = "looked",
                            !.row = NewAccountRow(sync.account, sync.level),
                            !.exists = accountRow[sync.account][day] # None]
    /\ UNCHANGED <<day, accountRow, agentRow, job>>
    /\ UNCHANGED <<world, dashboard>>

\* Wrong variant of Saved: an existing row keeps the change it had.
Saved_ChangeKept(old, new) ==
    IF old = None THEN new ELSE [new EXCEPT !.change = old.change]

\* All figures of an existing row are replaced.
Saved(old, new) == new

\* It waits for the job's transaction if that has written the row; a row that
\* appeared since the look is refused by the unique index.
SyncWrites ==
    /\ sync.step = "looked"
    /\ job.rows[sync.account] = None
    /\ LET a == sync.account
           old == accountRow[a][day]
       IN  accountRow' = IF ~sync.exists /\ old # None THEN accountRow
                         ELSE [accountRow EXCEPT ![a][day] = Saved(old, sync.row)]
    /\ sync' = NoSync
    /\ UNCHANGED <<day, agentRow, job>>
    /\ UNCHANGED <<world, dashboard>>

-----------------------------------------------------------------------------
(* The dashboard                                                           *)

BalanceExpires(a) ==
    /\ balance[a] # None
    /\ balance' = [balance EXCEPT ![a] = None]
    /\ UNCHANGED <<day, accountRow, agentRow, job, sync, startEquity>>
    /\ UNCHANGED world

WeekStart == 1      \* day 0 belongs to the week before

\* The week's figure of an account: the sum of its rows' daily changes.
Weekly(a) == Total(
    [d \in Days |-> IF accountRow[a][d] = None THEN 0 ELSE accountRow[a][d].change],
    WeekStart .. day)

\* The same of a mock agent, and the equity curve of an account: the points' cumulative P&L.
MockWeekly(g) == Total(
    [d \in Days |-> IF agentRow[g][d] = None THEN 0 ELSE agentRow[g][d].change],
    WeekStart .. day)

Curve(a) ==
    LET points == {d \in 0 .. day : accountRow[a][d] # None}
        first  == accountRow[a][Min(points)]
    IN  [d \in points |->
            [equity |-> accountRow[a][d].level,
             initial |-> first.level - first.change,
             cumulative |-> Total([e \in points |-> accountRow[a][e].change], {e \in points : e <= d})]]

\* The total of the first answer of the day becomes the baseline; later answers
\* show the distance from it.
Baseline(total) == IF startEquity = None /\ total > 0 THEN total ELSE startEquity

\* What the dashboard knows of an account: the cached balance or the exchange's.
LevelOf(a) == IF balance[a] # None THEN balance[a] ELSE equity[a]

\* "answering" are the exchanges that answer; an account that is missing is
\* missing in the total, and in the baseline taken from it.
GetDashboardStats(answering) ==
    /\ LET counted == {a \in connected : balance[a] # None \/ a \in answering}
       IN  /\ balance' = [a \in Accounts |-> IF a \in counted THEN LevelOf(a) ELSE balance[a]]
           /\ startEquity' = Baseline(Total([a \in Accounts |-> LevelOf(a)], counted))
    /\ UNCHANGED <<day, accountRow, agentRow, job, sync>>
    /\ UNCHANGED world

-----------------------------------------------------------------------------
Next ==
    \/ Midnight \/ JobStarts \/ JobFlushes \/ JobCommits \/ JobLost
    \/ SyncLooks \/ SyncWrites
    \/ \E a \in Accounts : EquityMoves(a) \/ ConnectionTested(a) \/ JobPasses(a)
                           \/ JobLooks(a) \/ SyncFetches(a) \/ BalanceExpires(a)
    \/ \E g \in Agents : AgentTrades(g) \/ StatusChanges(g)
    \/ \E answering \in SUBSET Accounts : GetDashboardStats(answering)

Spec == Init /\ [][Next]_reportVars

-----------------------------------------------------------------------------
TypeOK ==
    /\ day \in Days
    /\ equity \in [Accounts -> 1 .. MaxLevel]
    /\ connected \subseteq Accounts /\ active \subseteq Agents
    /\ result \in [Agents -> -MaxLevel .. MaxLevel]
    /\ \A a \in Accounts, d \in Days :
          accountRow[a][d] = None \/ accountRow[a][d] \in AccountRow
    /\ \A g \in Agents, d \in Days :
          agentRow[g][d] = None \/ agentRow[g][d] \in AgentRow
    /\ job.step \in {"due", "running", "done"}
    /\ sync.step \in {"idle", "fetched", "looked"}
    /\ startEquity \in Int \cup {None}
    /\ \A a \in Accounts : balance[a] \in (1 .. MaxLevel) \cup {None}
    /\ moves \in 0 .. MaxMoves

(* The reports of a period add up.  If no day's snapshot is missing, the     *)
(* week's P&L of an account and of a mock agent is what they gained since   *)
(* the last snapshot of the week before, and the account's equity curve     *)
(* leads from its first equity to each day's: whatever the order of the     *)
(* job's and the users' transactions, of failures and repeated snapshots.   *)
Unbroken(table) == \A d \in 0 .. day : table[d] # None

PeriodsAddUp ==
    /\ \A a \in Accounts : Unbroken(accountRow[a]) /\ day >= WeekStart =>
          Weekly(a) = accountRow[a][day].level - accountRow[a][0].level
    /\ \A g \in Agents : Unbroken(agentRow[g]) /\ day >= WeekStart =>
          MockWeekly(g) = agentRow[g][day].level - agentRow[g][0].level
    /\ \A a \in Accounts : Unbroken(accountRow[a]) =>
          \A d \in 0 .. day : Curve(a)[d].equity = Curve(a)[d].initial + Curve(a)[d].cumulative

=============================================================================
