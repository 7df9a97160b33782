---------------------------- MODULE PositionLedger ----------------------------
(***************************************************************************)
(* The position ledger of agents that share one exchange account.          *)
(*                                                                         *)
(* A trading cycle is one database transaction: it claims a symbol slot    *)
(* (a "pending" row of agent_positions), places the order, confirms or     *)
(* releases the claim, and commits when the whole cycle is over            *)
(* (strategy_engine.py, ai_backend.py, quant_backend.py).  The exchange    *)
(* keeps one net position per symbol for the account.  A reconciliation    *)
(* job compares the two in a transaction of its own.                       *)
(*                                                                         *)
(* Every transaction reads the last committed version of a row, or its own *)
(* uncommitted one (READ COMMITTED); a row another transaction has written *)
(* is locked until that transaction ends.                                  *)
(***************************************************************************)
EXTENDS Integers, FiniteSets, Sums

CONSTANTS
    Agents,        \* agents trading on the account
    Symbols,       \* symbols they trade
    Rows,          \* identifiers available for agent_positions rows (a bound)
    Cycles,        \* slots in which trading cycles run
    Recon,         \* the reconciliation job's transaction
    None,          \* "no value"
    Accumulators,  \* agents whose engine passes allow_accumulate=True (quant)
    Capital,       \* effective capital of each agent, in units of one order
    MaxOpens,      \* bound on the decisions to open in a behaviour
    Overlap,       \* can two cycles of one agent run at the same time?
    Reconciling,   \* does the reconciliation job run?
    Faults,        \* the faults the environment may produce
    Estimates      \* sizes recorded for an order that does not report its fill

FaultKinds == {"reject", "raise", "lost", "silent", "trigger", "crash"}

ASSUME CyclesAssumption == Recon \notin Cycles /\ None \notin Cycles \cup {Recon}
ASSUME NoneAssumption   == None \notin Agents \cup Symbols \cup Rows
ASSUME ParametersAssumption ==
    /\ Accumulators \subseteq Agents
    /\ Capital \in [Agents -> Nat]
    /\ IsFiniteSet(Rows) /\ MaxOpens \in 0 .. Cardinality(Rows)
    /\ Overlap \in BOOLEAN /\ Reconciling \in BOOLEAN
    /\ Faults \subseteq FaultKinds /\ Estimates \subseteq Nat \ {0}

VARIABLES
    rows,      \* committed version of each agent_positions row
    draft,     \* uncommitted version of a row, where some transaction wrote it
    holder,    \* the transaction that wrote (and so locks) the row, or None
    aged,      \* rows whose opened_at is more than 300 s ago
    exch,      \* the account's net position per symbol, in units of one order
    cyc,       \* local state of each trading cycle
    capLock,   \* holder of the Redis lock agent_capital_lock:{agent}
    recon,     \* local state of the reconciliation job
    opens,     \* decisions to open taken so far
    unsure     \* symbols in which an order has succeeded without saying what it filled

ledger == <<rows, draft, holder>>
vars   == <<rows, draft, holder, aged, exch, cyc, capLock, recon, opens, unsure>>

-----------------------------------------------------------------------------
(* Rows.  A long position has side 1, a short one side -1.                  *)

Sides    == {1, -1}
Statuses == {"absent", "pending", "open", "closed"}

\* size and usd are in units of one order; pnls counts the pnl_records rows that
\* refer to the position.
Row == [status : Statuses, agent : Agents \cup {None}, symbol : Symbols \cup {None},
        side : Sides, size : Nat, usd : Nat, pnls : Nat]

Absent == [status |-> "absent", agent |-> None, symbol |-> None,
           side |-> 1, size |-> 0, usd |-> 0, pnls |-> 0]

Pending(a, s, sd) == [Absent EXCEPT !.status = "pending", !.agent = a, !.symbol = s,
                                    !.side = sd]

Live(v)         == v.status \in {"open", "pending"}
HasKey(v, a, s) == v.agent = a /\ v.symbol = s
SameKey(v, w)   == v.agent = w.agent /\ v.symbol = w.symbol

\* The newest version of a row, and the one transaction t reads.
Latest(r)     == IF holder[r] = None THEN rows[r] ELSE draft[r]
Visible(t, r) == IF holder[r] = t THEN draft[r] ELSE rows[r]

\* Transaction t may write row r at once; otherwise its statement waits.
Writable(t, r) == holder[r] \in {None, t}

Write(t, r, v) ==
    /\ draft'  = [draft EXCEPT ![r] = v]
    /\ holder' = [holder EXCEPT ![r] = t]
    /\ UNCHANGED rows

Commit(t) ==
    /\ rows'   = [r \in Rows |-> IF holder[r] = t THEN draft[r] ELSE rows[r]]
    /\ draft'  = [r \in Rows |-> IF holder[r] = t THEN Absent ELSE draft[r]]
    /\ holder' = [r \in Rows |-> IF holder[r] = t THEN None ELSE holder[r]]

Rollback(t) ==
    /\ draft'  = [r \in Rows |-> IF holder[r] = t THEN Absent ELSE draft[r]]
    /\ holder' = [r \in Rows |-> IF holder[r] = t THEN None ELSE holder[r]]
    /\ UNCHANGED rows

\* get_agent_position_for_symbol: the open or pending rows t sees for (a, s).
SlotRows(t, a, s) == {r \in Rows : Live(Visible(t, r)) /\ HasKey(Visible(t, r), a, s)}

\* Wrong variant of InSlot: the index leaves pending rows out.
InSlot_OpenOnly(v, a, s) == v.status = "open" /\ HasKey(v, a, s)

\* Rows with a committed or uncommitted version in slot (a, s): what the
\* partial unique index looks at when a row is inserted.
InSlot(v, a, s)    == Live(v) /\ HasKey(v, a, s)
IndexEntries(a, s) == {r \in Rows : InSlot(rows[r], a, s) \/ InSlot(draft[r], a, s)}

\* Wrong variant of Magnitude: the sign of a short position is kept.
Magnitude_Signed(n) == n

Magnitude(n) == IF n < 0 THEN -n ELSE n

-----------------------------------------------------------------------------
(* Trading cycles.                                                          *)
(*   claim -> check -> insert -> order -> record | verify | release         *)
(*   close -> closerec                                                      *)
(* and back to "ready", where the cycle takes its next decision or commits. *)

Pcs == {"idle", "ready", "claim", "check", "insert", "order", "verify",
        "record", "release", "close", "closerec"}

\* row is the record the cycle works on, and existing and seen what the
\* session's object said of it when it was read: claim.status == "open", claim.size
\* and claim.size_usd.  The object stays referenced, so the session does not reload
\* it.  fill and cost are what is to be recorded of an order.
Cycle == [pc : Pcs, agent : Agents \cup {None}, symbol : Symbols \cup {None},
          side : Sides, row : Rows \cup {None}, existing : BOOLEAN,
          seen : Nat, seenUsd : Nat, fill : Nat, cost : Nat]

IdleCycle == [pc |-> "idle", agent |-> None, symbol |-> None, side |-> 1, row |-> None,
              existing |-> FALSE, seen |-> 0, seenUsd |-> 0, fill |-> 0, cost |-> 0]

ReadyCycle(a) == [IdleCycle EXCEPT !.pc = "ready", !.agent = a]

At(c, label)  == cyc[c].pc = label
Goto(c, label) == cyc' = [cyc EXCEPT ![c].pc = label]
Done(c)        == cyc' = [cyc EXCEPT ![c] = ReadyCycle(cyc[c].agent)]

Unlock(c) == capLock' = [a \in Agents |-> IF capLock[a] = c THEN None ELSE capLock[a]]

IdleRecon == [pc |-> "idle", flat |-> {}, zombies |-> {}]

Init ==
    /\ rows    = [r \in Rows |-> Absent]
    /\ draft   = [r \in Rows |-> Absent]
    /\ holder  = [r \in Rows |-> None]
    /\ aged    = {}
    /\ exch    = [s \in Symbols |-> 0]
    /\ cyc     = [c \in Cycles |-> IdleCycle]
    /\ capLock = [a \in Agents |-> None]
    /\ recon   = IdleRecon
    /\ opens   = 0
    /\ unsure  = {}

\* The execution lock lets one scheduled cycle of an agent run at a time; a
\* manual trigger, or a cycle that outlives the lock's TTL, overlaps it.
Begin(c, a) ==
    /\ At(c, "idle")
    /\ Overlap \/ \A d \in Cycles : cyc[d].agent # a
    /\ cyc' = [cyc EXCEPT ![c] = ReadyCycle(a)]
    /\ UNCHANGED <<ledger, aged, exch, capLock, recon, opens, unsure>>

\* open_position: the decision to open (or add to) a position.  The engines
\* that accumulate only ever open long.
DecideOpen(c, s, sd) ==
    /\ At(c, "ready")
    /\ cyc[c].agent \in Accumulators => sd = 1
    /\ opens < MaxOpens
    /\ opens' = opens + 1
    /\ cyc' = [cyc EXCEPT ![c].pc = "claim", ![c].symbol = s, ![c].side = sd]
    /\ UNCHANGED <<ledger, aged, exch, capLock, recon, unsure>>

\* claim_position_with_capital_check: take the agent's capital lock.
TakeCapitalLock(c) ==
    /\ At(c, "claim")
    /\ capLock[cyc[c].agent] = None
    /\ capLock' = [capLock EXCEPT ![cyc[c].agent] = c]
    /\ Goto(c, "check")
    /\ UNCHANGED <<ledger, aged, exch, recon, opens, unsure>>

\* blocking_timeout ran out: CapitalExceededError, no order.
CapitalLockTimeout(c) ==
    /\ At(c, "claim")
    /\ capLock[cyc[c].agent] # None
    /\ Done(c)
    /\ UNCHANGED <<ledger, aged, exch, capLock, recon, opens, unsure>>

\* The lock's TTL runs out while its holder waits or is gone.
CapitalLockExpires(a) ==
    /\ capLock[a] # None
    /\ capLock' = [capLock EXCEPT ![a] = None]
    /\ UNCHANGED <<ledger, aged, exch, cyc, recon, opens, unsure>>

\* check_capital_allocation: margin of the open rows this session sees.
UsedMargin(c, a) ==
    Total([r \in Rows |-> Visible(c, r).usd],
          {r \in Rows : Visible(c, r).status = "open" /\ Visible(c, r).agent = a})

CapitalAllows(c, a) == UsedMargin(c, a) + 1 <= Capital[a]

\* The check fails: CapitalExceededError, no order.
CapitalExceeded(c) ==
    /\ At(c, "check")
    /\ ~CapitalAllows(c, cyc[c].agent)
    /\ Unlock(c) /\ Done(c)
    /\ UNCHANGED <<ledger, aged, exch, recon, opens, unsure>>

\* claim_position finds the agent's own record and returns it.
ClaimExisting(c) ==
    /\ At(c, "check")
    /\ CapitalAllows(c, cyc[c].agent)
    /\ \E r \in SlotRows(c, cyc[c].agent, cyc[c].symbol) :
          cyc' = [cyc EXCEPT ![c].pc = "order", ![c].row = r,
                             ![c].existing = Visible(c, r).status = "open",
                             ![c].seen = Visible(c, r).size,
                             ![c].seenUsd = Visible(c, r).usd]
    /\ Unlock(c)
    /\ UNCHANGED <<ledger, aged, exch, recon, opens, unsure>>

\* ... or finds none, and goes on to insert one.
ClaimMissing(c) ==
    /\ At(c, "check")
    /\ CapitalAllows(c, cyc[c].agent)
    /\ SlotRows(c, cyc[c].agent, cyc[c].symbol) = {}
    /\ Goto(c, "insert")
    /\ UNCHANGED <<ledger, aged, exch, capLock, recon, opens, unsure>>

\* The insert waits for every transaction that wrote into the slot.
SlotFree(c) ==
    \A r \in IndexEntries(cyc[c].agent, cyc[c].symbol) : Writable(c, r)

\* Wrong variant of SlotTaken: only pending rows are unique.
SlotTaken_PendingOnly(c) ==
    \E r \in Rows :
        Latest(r).status = "pending" /\ HasKey(Latest(r), cyc[c].agent, cyc[c].symbol)

\* Unique index violated: PositionConflictError, no order.
SlotTaken(c) ==
    \E r \in Rows : InSlot(Latest(r), cyc[c].agent, cyc[c].symbol)

ClaimConflict(c) ==
    /\ At(c, "insert") /\ SlotFree(c)
    /\ SlotTaken(c)
    /\ Unlock(c) /\ Done(c)
    /\ UNCHANGED <<ledger, aged, exch, recon, opens, unsure>>

ClaimInsert(c) ==
    /\ At(c, "insert") /\ SlotFree(c)
    /\ ~SlotTaken(c)
    /\ \E r \in Rows :
          /\ rows[r] = Absent /\ holder[r] = None
          /\ Write(c, r, Pending(cyc[c].agent, cyc[c].symbol, cyc[c].side))
          /\ cyc' = [cyc EXCEPT ![c].pc = "order", ![c].row = r]
    /\ Unlock(c)
    /\ UNCHANGED <<aged, exch, recon, opens, unsure>>

\* What open_long or open_short made of the order goes on record.
ToRecord(c, fill, cost) ==
    cyc' = [cyc EXCEPT ![c].pc = "record", ![c].fill = fill, ![c].cost = cost]

\* open_long / open_short: what the exchange does and what the trader reports.
OrderFilled(c) ==
    /\ At(c, "order")
    /\ exch' = [exch EXCEPT ![cyc[c].symbol] = @ + cyc[c].side]
    /\ ToRecord(c, 1, 1)
    /\ UNCHANGED <<ledger, aged, capLock, recon, opens, unsure>>

\* The order is accepted and the answer names no filled size (success, filled_size
\* 0), whether or not the exchange has executed it.  The service records the estimate
\* size_usd / (filled_price or 1.0): the true size when the average price is reported.
OrderUnreported(c) ==
    /\ At(c, "order") /\ "silent" \in Faults
    /\ \E executed \in {0, cyc[c].side} :
          exch' = [exch EXCEPT ![cyc[c].symbol] = @ + executed]
    /\ \E estimate \in Estimates : ToRecord(c, estimate, 1)
    /\ unsure' = unsure \cup {cyc[c].symbol}
    /\ UNCHANGED <<ledger, aged, capLock, recon, opens>>

\* A failed result releases a fresh claim and leaves an existing one alone.
OrderFailed(c) ==
    IF cyc[c].existing THEN Done(c) ELSE Goto(c, "release")

OrderRejected(c) ==
    /\ At(c, "order") /\ "reject" \in Faults
    /\ OrderFailed(c)
    /\ UNCHANGED <<ledger, aged, exch, capLock, recon, opens, unsure>>

\* The order is executed but its answer lost: place_market_order turns every
\* exception into OrderResult(success=False).
OrderAnswerLost(c) ==
    /\ At(c, "order") /\ "lost" \in Faults
    /\ exch' = [exch EXCEPT ![cyc[c].symbol] = @ + cyc[c].side]
    /\ OrderFailed(c)
    /\ UNCHANGED <<ledger, aged, capLock, recon, opens, unsure>>

\* The price or the leverage call raises, before any order is placed.
OrderRaised(c) ==
    /\ At(c, "order") /\ "raise" \in Faults
    /\ IF cyc[c].existing THEN Done(c) ELSE Goto(c, "verify")
    /\ UNCHANGED <<ledger, aged, exch, capLock, recon, opens, unsure>>

\* The handler of that exception asks the exchange for the account's position
\* and confirms the claim with it; it releases the claim when there is none,
\* or when this call fails too.
VerifyFound(c) ==
    /\ At(c, "verify")
    /\ exch[cyc[c].symbol] # 0
    /\ ToRecord(c, Magnitude(exch[cyc[c].symbol]), Magnitude(exch[cyc[c].symbol]))
    /\ UNCHANGED <<ledger, aged, exch, capLock, recon, opens, unsure>>

VerifyNothing(c) ==
    /\ At(c, "verify")
    /\ Goto(c, "release")
    /\ UNCHANGED <<ledger, aged, exch, capLock, recon, opens, unsure>>

\* accumulate_position: the new sizes are computed from the session's object, which
\* says "open" as it did when it was read.
Accumulates(c) == cyc[c].existing /\ cyc[c].agent \in Accumulators

\* Wrong variant of AccumulatePosition: the fill replaces the size.
AccumulatePosition_Replace(c) ==
    /\ At(c, "record") /\ Accumulates(c)
    /\ Writable(c, cyc[c].row)
    /\ Write(c, cyc[c].row,
             [Latest(cyc[c].row) EXCEPT !.size = cyc[c].fill, !.usd = cyc[c].cost])
    /\ Done(c)
    /\ UNCHANGED <<aged, exch, capLock, recon, opens, unsure>>

AccumulatePosition(c) ==
    /\ At(c, "record") /\ Accumulates(c)
    /\ Writable(c, cyc[c].row)
    /\ Write(c, cyc[c].row,
             [Latest(cyc[c].row) EXCEPT !.size = cyc[c].seen + cyc[c].fill,
                                        !.usd  = cyc[c].seenUsd + cyc[c].cost])
    /\ Done(c)
    /\ UNCHANGED <<aged, exch, capLock, recon, opens, unsure>>

\* Wrong variant of Confirmable: no condition on the status.
Confirmable_Always(c) == Visible(c, cyc[c].row).status # "absent"

\* confirm_position: UPDATE ... WHERE status = 'pending'.
Confirmable(c) == Visible(c, cyc[c].row).status = "pending"

ConfirmPosition(c) ==
    /\ At(c, "record") /\ ~Accumulates(c)
    /\ Confirmable(c) /\ Writable(c, cyc[c].row)
    /\ Write(c, cyc[c].row,
             [Latest(cyc[c].row) EXCEPT !.status = "open", !.size = cyc[c].fill,
                                        !.usd = cyc[c].cost])
    /\ Done(c)
    /\ UNCHANGED <<aged, exch, capLock, recon, opens, unsure>>

\* ... which updates nothing when the agent's row is open already.
ConfirmNothing(c) ==
    /\ At(c, "record") /\ ~Accumulates(c)
    /\ ~Confirmable(c)
    /\ Done(c)
    /\ UNCHANGED <<ledger, aged, exch, capLock, recon, opens, unsure>>

\* Wrong variant of ReleaseClaim: the claim is left behind.
ReleaseClaim_Keep(c) ==
    /\ At(c, "release")
    /\ UNCHANGED ledger
    /\ Done(c)
    /\ UNCHANGED <<aged, exch, capLock, recon, opens, unsure>>

\* release_claim: DELETE ... WHERE status = 'pending'.
ReleaseClaim(c) ==
    /\ At(c, "release")
    /\ IF Confirmable(c) THEN /\ Writable(c, cyc[c].row)
                              /\ Write(c, cyc[c].row, Absent)
                         ELSE UNCHANGED ledger
    /\ Done(c)
    /\ UNCHANGED <<aged, exch, capLock, recon, opens, unsure>>

\* close_position: read the agent's record, if it has one, ...
DecideClose(c, s) ==
    /\ At(c, "ready")
    /\ LET slot == SlotRows(c, cyc[c].agent, s) IN
       \E r \in IF slot = {} THEN {None} ELSE slot :
          cyc' = [cyc EXCEPT ![c].pc = "close", ![c].symbol = s, ![c].row = r]
    /\ UNCHANGED <<ledger, aged, exch, capLock, recon, opens, unsure>>

\* ... then close the account's whole position in the symbol, record or not; an
\* account without one is closed successfully (status "no_position").
CloseFilled(c) ==
    /\ At(c, "close")
    /\ exch' = [exch EXCEPT ![cyc[c].symbol] = 0]
    /\ IF cyc[c].row = None THEN Done(c) ELSE Goto(c, "closerec")
    /\ UNCHANGED <<ledger, aged, capLock, recon, opens, unsure>>

\* The order to close is accepted and names no filled size: nothing is sold, and the
\* record is closed all the same.
CloseUnreported(c) ==
    /\ At(c, "close") /\ "silent" \in Faults
    /\ exch[cyc[c].symbol] # 0
    /\ unsure' = unsure \cup {cyc[c].symbol}
    /\ IF cyc[c].row = None THEN Done(c) ELSE Goto(c, "closerec")
    /\ UNCHANGED <<ledger, aged, exch, capLock, recon, opens>>

CloseRejected(c) ==
    /\ At(c, "close") /\ "reject" \in Faults
    /\ Done(c)
    /\ UNCHANGED <<ledger, aged, exch, capLock, recon, opens, unsure>>

CloseAnswerLost(c) ==
    /\ At(c, "close") /\ "lost" \in Faults
    /\ exch' = [exch EXCEPT ![cyc[c].symbol] = 0]
    /\ Done(c)
    /\ UNCHANGED <<ledger, aged, capLock, recon, opens, unsure>>

\* close_position_record: UPDATE ... WHERE id, whatever the status, and one
\* more row in pnl_records.
Closed(v) == [v EXCEPT !.status = "closed", !.pnls = @ + 1]

ClosePositionRecord(c) ==
    /\ At(c, "closerec")
    /\ Writable(c, cyc[c].row)
    /\ Write(c, cyc[c].row, Closed(Latest(cyc[c].row)))
    /\ Done(c)
    /\ UNCHANGED <<aged, exch, capLock, recon, opens, unsure>>

\* The cycle saves its decision record and commits everything it wrote.
Finish(c) ==
    /\ At(c, "ready")
    /\ Commit(c)
    /\ cyc' = [cyc EXCEPT ![c] = IdleCycle]
    /\ UNCHANGED <<aged, exch, capLock, recon, opens, unsure>>

-----------------------------------------------------------------------------
(* Reconciliation: one transaction over the account.                        *)

CommittedLive == {r \in Rows : Live(rows[r])}

\* trader.get_positions(), when some row is open or pending.
ReconFetch ==
    /\ Reconciling
    /\ recon.pc = "idle"
    /\ CommittedLive # {}
    /\ recon' = [recon EXCEPT !.pc = "fetched", !.flat = {s \in Symbols : exch[s] = 0}]
    /\ UNCHANGED <<ledger, aged, exch, cyc, capLock, opens, unsure>>

\* reconcile: rows past the grace period in symbols the exchange did not list.
ReconScan ==
    /\ recon.pc = "fetched"
    /\ recon' = [recon EXCEPT !.pc = "closing", !.flat = {},
          !.zombies = {r \in CommittedLive : rows[r].symbol \in recon.flat /\ r \in aged}]
    /\ UNCHANGED <<ledger, aged, exch, cyc, capLock, opens, unsure>>

ReconClose(r) ==
    /\ r \in recon.zombies
    /\ Writable(Recon, r)
    /\ Write(Recon, r, Closed(Latest(r)))
    /\ recon' = [recon EXCEPT !.zombies = @ \ {r}]
    /\ UNCHANGED <<aged, exch, cyc, capLock, opens, unsure>>

\* cleanup_stale_pending deletes old pending rows.
StalePending == {r \in aged : Visible(Recon, r).status = "pending"}

ReconCleanup ==
    /\ recon.pc = "closing" /\ recon.zombies = {}
    /\ \A r \in StalePending : Writable(Recon, r)
    /\ draft'  = [r \in Rows |-> IF r \in StalePending THEN Absent ELSE draft[r]]
    /\ holder' = [r \in Rows |-> IF r \in StalePending THEN Recon ELSE holder[r]]
    /\ recon'  = [recon EXCEPT !.pc = "committing"]
    /\ UNCHANGED <<rows, aged, exch, cyc, capLock, opens, unsure>>

ReconCommit ==
    /\ recon.pc = "committing"
    /\ Commit(Recon)
    /\ recon' = IdleRecon
    /\ UNCHANGED <<aged, exch, cyc, capLock, opens, unsure>>

-----------------------------------------------------------------------------
(* The environment.                                                         *)

\* The rows whose lock a transaction's current statement waits for.
Waits(t) ==
    {r \in Rows :
        /\ ~Writable(t, r)
        /\ \/ t = Recon /\ r \in recon.zombies
           \/ /\ t # Recon /\ At(t, "insert")
              /\ r \in IndexEntries(cyc[t].agent, cyc[t].symbol)
           \/ /\ t # Recon /\ r = cyc[t].row
              /\ At(t, "closerec") \/ (At(t, "record") /\ Accumulates(t))}

\* Transactions that wait for each other: the database aborts one of them.
DeadlockVictim(t) ==
    \E group \in SUBSET (Cycles \cup {Recon}) :
        /\ t \in group
        /\ \A u \in group : \E r \in Waits(u) : holder[r] \in group

\* The cycle is cancelled, or its process dies, or the database aborts its
\* transaction: nothing it wrote stays.
Abort(c) ==
    /\ ~At(c, "idle")
    /\ "crash" \in Faults \/ DeadlockVictim(c)
    /\ Rollback(c)
    /\ cyc' = [cyc EXCEPT ![c] = IdleCycle]
    /\ UNCHANGED <<aged, exch, capLock, recon, opens, unsure>>

ReconAbort ==
    /\ recon.pc # "idle"
    /\ "crash" \in Faults \/ DeadlockVictim(Recon)
    /\ Rollback(Recon)
    /\ recon' = IdleRecon
    /\ UNCHANGED <<aged, exch, cyc, capLock, opens, unsure>>

\* Five minutes pass since the row's opened_at.  The scan follows its fetch
\* within moments, so no row gets old between the two.
Age(r) ==
    /\ Live(rows[r]) /\ r \notin aged
    /\ recon.pc # "fetched"
    /\ aged' = aged \cup {r}
    /\ UNCHANGED <<ledger, exch, cyc, capLock, recon, opens, unsure>>

\* A stop-loss, a take-profit or a liquidation closes the exchange position.
ExchangeCloses(s) ==
    /\ "trigger" \in Faults
    /\ exch[s] # 0
    /\ exch' = [exch EXCEPT ![s] = 0]
    /\ UNCHANGED <<ledger, aged, cyc, capLock, recon, opens, unsure>>

-----------------------------------------------------------------------------
Claiming(c) ==
    \/ \E s \in Symbols, sd \in Sides : DecideOpen(c, s, sd)
    \/ TakeCapitalLock(c) \/ CapitalLockTimeout(c) \/ CapitalExceeded(c)
    \/ ClaimExisting(c) \/ ClaimMissing(c) \/ ClaimConflict(c) \/ ClaimInsert(c)

Ordering(c) ==
    \/ OrderFilled(c) \/ OrderUnreported(c)
    \/ OrderRejected(c) \/ OrderAnswerLost(c) \/ OrderRaised(c)
    \/ VerifyFound(c) \/ VerifyNothing(c)

Recording(c) ==
    \/ AccumulatePosition(c) \/ ConfirmPosition(c) \/ ConfirmNothing(c)
    \/ ReleaseClaim(c)

Closing(c) ==
    \/ \E s \in Symbols : DecideClose(c, s)
    \/ CloseFilled(c) \/ CloseUnreported(c) \/ CloseRejected(c) \/ CloseAnswerLost(c)
    \/ ClosePositionRecord(c)

CycleStep(c) ==
    \/ \E a \in Agents : Begin(c, a)
    \/ Claiming(c) \/ Ordering(c) \/ Recording(c) \/ Closing(c)
    \/ Finish(c) \/ Abort(c)

Reconciliation ==
    \/ ReconFetch \/ ReconScan \/ ReconCleanup \/ ReconCommit \/ ReconAbort
    \/ \E r \in Rows : ReconClose(r)

Environment ==
    \/ \E a \in Agents : CapitalLockExpires(a)
    \/ \E r \in Rows : Age(r)
    \/ \E s \in Symbols : ExchangeCloses(s)

Next == (\E c \in Cycles : CycleStep(c)) \/ Reconciliation \/ Environment

Spec == Init /\ [][Next]_vars

-----------------------------------------------------------------------------
(* Properties.                                                              *)

(* Every variable stays within its type, whatever interleaving of cycles,   *)
(* reconciliation and faults.                                               *)
TypeOK ==
    /\ rows  \in [Rows -> Row]
    /\ draft \in [Rows -> Row]
    /\ holder \in [Rows -> Cycles \cup {Recon, None}]
    /\ aged \subseteq Rows
    /\ exch \in [Symbols -> Int]
    /\ cyc \in [Cycles -> Cycle]
    /\ capLock \in [Agents -> Cycles \cup {None}]
    /\ recon \in [pc : {"idle", "fetched", "closing", "committing"},
                  flat : SUBSET Symbols, zombies : SUBSET Rows]
    /\ opens \in Nat
    /\ unsure \subseteq Symbols

(* The ledger never holds two open or pending rows for one agent and symbol *)
(* (models.py: "Only ONE open position per (agent_id, symbol)"), although   *)
(* two cycles of the agent may both find the slot free before inserting.    *)
OneLiveRowPerSymbol ==
    \A r, q \in Rows :
        r # q /\ Live(rows[r]) /\ Live(rows[q]) => ~SameKey(rows[r], rows[q])

(* A claim is visible to nobody but the cycle that made it: it is committed *)
(* only once confirmed, so no other cycle, and no cleanup, ever meets it.   *)
NoCommittedClaim == \A r \in Rows : rows[r].status # "pending"

(* Two overlapping cycles of an agent are never both between the claim and  *)
(* the confirmation of a fresh slot for the same symbol: one of them waits  *)
(* for the other's transaction instead of placing a second first order.     *)
FreshOrder(c) ==
    cyc[c].pc \in {"order", "verify", "record", "release"} /\ ~cyc[c].existing

OneFreshOrderPerSlot ==
    \A c, d \in Cycles :
        c # d /\ FreshOrder(c) /\ FreshOrder(d) =>
            ~(cyc[c].agent = cyc[d].agent /\ cyc[c].symbol = cyc[d].symbol)

(* A committed row only advances: an open row stays open or is closed, a    *)
(* closed row stays closed, and neither ever changes its agent or symbol.   *)
RowsOnlyAdvance ==
    [][\A r \in Rows :
          /\ rows[r].status = "open" => rows'[r].status \in {"open", "closed"}
          /\ rows[r].status = "closed" => rows'[r].status = "closed"
          /\ rows[r].status \in {"open", "closed"} => SameKey(rows[r], rows'[r])]_vars

Quiet == recon.pc = "idle" /\ \A c \in Cycles : At(c, "idle")

\* Signed size of the committed open rows of a symbol.
NetPosition(s) ==
    Total([r \in Rows |-> rows[r].side * rows[r].size],
          {r \in Rows : rows[r].status = "open" /\ rows[r].symbol = s})

(* With no transaction under way the exchange position of a symbol is the   *)
(* sum of the agents' rows (models.py: "The actual exchange position =      *)
(* SUM of all agent positions on that account for that symbol"), unless an  *)
(* order in it has succeeded without saying what it filled: its row then    *)
(* holds an estimate, or is closed while the exchange still holds it.       *)
LedgerMatchesExchange ==
    Quiet => \A s \in Symbols \ unsure : exch[s] = NetPosition(s)

(* The margin of an agent's committed open rows never exceeds its capital   *)
(* allocation (claim_position_with_capital_check).  In a symbol whose       *)
(* orders did not all report their fill it may: a claim then adopts, after  *)
(* an exception, a position the ledger does not know.                       *)
CapitalRespected ==
    \A a \in Agents :
        Total([r \in Rows |-> rows[r].usd],
              {r \in Rows : /\ rows[r].status = "open" /\ rows[r].agent = a
                            /\ rows[r].symbol \notin unsure})
            <= Capital[a]

OthersHold(a, s) ==
    \E r \in Rows : rows[r].status = "open" /\ rows[r].symbol = s /\ rows[r].agent # a

(* An agent that closes a symbol changes the exchange position only when no *)
(* other agent holds an open position in it.                                *)
CloseSparesOtherAgents ==
    [][\A c \in Cycles : At(c, "close") /\ exch' # exch =>
          ~OthersHold(cyc[c].agent, cyc[c].symbol)]_vars
=============================================================================
