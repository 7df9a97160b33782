----------------------------- MODULE PaperTrading -----------------------------
(***************************************************************************)
(* A mock agent: the cycle of strategy_engine.py and the execution service *)
(* on a MockTrader.                                                        *)
(*                                                                         *)
(* The agent's account lives in its worker's memory for as long as the     *)
(* worker runs; its position rows are committed at the end of each cycle.  *)
(* A worker that starts rebuilds the account from the rows: the initial    *)
(* balance plus what the closed ones realised, and the open ones.  A       *)
(* manual run of the agent builds an account of its own in the same way    *)
(* and throws it away.  What the user sees is computed from the rows, the  *)
(* counter agents.total_pnl and public prices.                             *)
(***************************************************************************)
EXTENDS Simulator

CONSTANTS
    MaxPositions,   \* default_max_positions
    MaxTicks,       \* bound on the price changes of a behaviour
    MaxOrders       \* bound on its orders

PaperParameters == {MaxPositions, MaxTicks, MaxOrders} \subseteq Nat

VARIABLES
    price,      \* what MockTrader's cache answers
    running,    \* a worker runs, ...
    account,    \* ... with this account
    book,       \* the committed rows
    total,      \* agents.total_pnl
    cyc,        \* the cycle: its phase, the rows as its session sees them and what it gained
    drift,      \* what has happened to this worker that its rows do not tell
    ticks, orders

paperVars == <<price, running, account, book, total, cyc, drift, ticks, orders>>

-----------------------------------------------------------------------------
NoRow == [side |-> "none", size |-> 0, cost |-> 0]
Rows  == [side : Sides \cup {"none"}, size : Nat, cost : Nat]

\* The open row of each symbol, and the sum of realized_pnl over the closed ones.
Books == [rows : [Symbols -> Rows], realized : Int]
Empty == [rows |-> [s \in Symbols |-> NoRow], realized |-> 0]

Open(b)    == {s \in Symbols : b.rows[s] # NoRow}
RowOf(p)   == [side |-> p.side, size |-> p.size, cost |-> p.cost]
FromRow(r) == [Flat EXCEPT !.side = r.side, !.size = r.size, !.cost = r.cost]

\* What a worker's rows do not tell ends with the worker; a trade that was not counted stays so.
Drifts  == {"stopped_out", "added", "aborted", "triggered", "uncounted"}
Lasting == {"uncounted"}
Idle    == [phase |-> "idle", book |-> Empty, gain |-> 0]

\* Wrong variant of Restored: nothing to restore without an open position.
Restored_OpenOnly(b) ==
    IF Open(b) # {}
    THEN [balance |-> InitialBalance + b.realized, pos |-> [s \in Symbols |-> FromRow(b.rows[s])]]
    ELSE Account(InitialBalance)

\* _restore_mock_trader_state: rows have no stops.
Restored(b) ==
    IF Open(b) # {} \/ b.realized # 0
    THEN [balance |-> InitialBalance + b.realized, pos |-> [s \in Symbols |-> FromRow(b.rows[s])]]
    ELSE Account(InitialBalance)

Init ==
    /\ \E p \in Prices : price = [s \in Symbols |-> p]
    /\ running = FALSE
    /\ account = Account(InitialBalance)
    /\ book = Empty
    /\ total = 0
    /\ cyc = Idle
    /\ drift = {}
    /\ ticks = 0 /\ orders = 0

-----------------------------------------------------------------------------
(* What one order does to an account and to a book.  Every call of the      *)
(* trader refreshes its prices first.                                       *)

Refreshed(a) == SetPrices(a, price)

\* close_position: no position is a success without a price, and the row is closed at 0.
RowClosed(b, s, gain) ==
    IF b.rows[s] = NoRow THEN b
    ELSE [rows |-> [b.rows EXCEPT ![s] = NoRow], realized |-> b.realized + gain]

Close(a, b, s) ==
    LET held == Refreshed(a).pos[s]
        fill == ExitFill(held, price[s])
    IN  IF held = Flat
        THEN [account |-> Refreshed(a), book |-> RowClosed(b, s, 0)]
        ELSE [account |-> ClosedAt(Refreshed(a), s, fill),
              book    |-> RowClosed(b, s, Pnl(b.rows[s], fill))]

\* Wrong variant of Affordable: the margin in use is not taken off.
Affordable_OnEquity(a, s, size) == size * Fill("long", price[s]) <= Leverage * a.balance

\* _apply_position_limits.  The 5 % it keeps back cover the slippage; its other limits
\* only make the order smaller.
Affordable(a, s, size) == size * Fill("long", price[s]) <= Spare(a)

\* claim, order, confirm or release.  A row that is open already is left as it is.
Ordered(a, b, s, side, size, stops) ==
    LET result == Order(Refreshed(a), s, side, size, price[s])
    IN  IF ~result.success THEN [account |-> result.account, book |-> b]
        ELSE LET placed == WithStops(result.account, s, stops)
             IN  [account |-> placed,
                  book    |-> IF s \in Open(b) THEN b
                              ELSE [b EXCEPT !.rows[s] =
                                   [side |-> side, size |-> size, cost |-> size * Fill(side, price[s])]]]

\* The account is read again and the order is sized on it; the margin and drawdown
\* limits, like the agent's capital, may refuse it at any time.
MayOpen(a, b, s, size) ==
    /\ Cardinality(Open(b)) < MaxPositions
    /\ Affordable(Refreshed(a), s, size)

\* A stop has fired when prices were last refreshed.
Fired(a) == IF Refreshed(a) # a THEN {"stopped_out"} ELSE {}

-----------------------------------------------------------------------------
(* The worker.                                                              *)

StartWorker ==
    /\ ~running
    /\ running' = TRUE
    /\ account' = Restored(book)
    /\ drift' = drift \cap Lasting
    /\ UNCHANGED <<price, book, total, cyc, ticks, orders>>

\* What a cycle has gained is counted after its rows are committed.
Uncounted == IF cyc.phase = "saved" /\ cyc.gain # 0 THEN Lasting ELSE {}

\* A crash, or a stop that leaves the positions open.
StopWorker ==
    /\ running
    /\ running' = FALSE
    /\ account' = Account(InitialBalance)
    /\ drift' = (drift \cap Lasting) \cup Uncounted
    /\ cyc' = Idle
    /\ UNCHANGED <<price, book, total, ticks, orders>>

\* The user stops the agent and closes its positions: the rows are closed at no price.
StopAndClose ==
    /\ cyc.phase = "idle"
    /\ Open(book) # {}
    /\ running' = FALSE
    /\ account' = Account(InitialBalance)
    /\ drift' = drift \cap Lasting
    /\ book' = [Empty EXCEPT !.realized = book.realized]
    /\ UNCHANGED <<price, total, cyc, ticks, orders>>

BeginCycle ==
    /\ running /\ cyc.phase = "idle"
    /\ account' = Refreshed(account)
    /\ drift' = drift \cup Fired(account)
    /\ cyc' = [phase |-> "closing", book |-> book, gain |-> 0]
    /\ UNCHANGED <<price, running, book, total, ticks, orders>>

\* Decisions to close come first, ...
CloseDecision(s) ==
    /\ cyc.phase = "closing" /\ orders < MaxOrders
    /\ LET after == Close(account, cyc.book, s)
       IN  /\ account' = after.account
           /\ cyc' = [cyc EXCEPT !.book = after.book,
                                 !.gain = @ + after.book.realized - cyc.book.realized]
    /\ drift' = drift \cup Fired(account)
    /\ orders' = orders + 1
    /\ UNCHANGED <<price, running, book, total, ticks>>

\* ... and then those to open.
OpenDecision(s, side, size, stops) ==
    /\ cyc.phase \in {"closing", "opening"} /\ orders < MaxOrders
    /\ stops \in StopsFor(side, Fill(side, price[s]))
    /\ MayOpen(account, cyc.book, s, size)
    /\ LET after == Ordered(account, cyc.book, s, side, size, stops)
       IN  account' = after.account /\ cyc' = [cyc EXCEPT !.phase = "opening", !.book = after.book]
    /\ drift' = drift \cup Fired(account) \cup (IF s \in Open(cyc.book) THEN {"added"} ELSE {})
    /\ orders' = orders + 1
    /\ UNCHANGED <<price, running, book, total, ticks>>

\* _save_decision_record commits what the session holds, ...
SaveDecision ==
    /\ cyc.phase \in {"closing", "opening"}
    /\ book' = cyc.book
    /\ cyc' = [cyc EXCEPT !.phase = "saved"]
    /\ UNCHANGED <<price, running, account, total, drift, ticks, orders>>

\* Wrong variant of CountTrades: the sum is replaced and not added to.
CountTrades_Replaces ==
    /\ cyc.phase = "saved"
    /\ total' = cyc.gain
    /\ cyc' = Idle
    /\ UNCHANGED <<price, running, account, book, drift, ticks, orders>>

\* ... and only then the trades are counted: update_performance, and the worker's commit.
CountTrades ==
    /\ cyc.phase = "saved"
    /\ total' = total + cyc.gain
    /\ cyc' = Idle
    /\ UNCHANGED <<price, running, account, book, drift, ticks, orders>>

\* The cycle ends in an exception: the rows are rolled back, the account is not.
AbortCycle ==
    /\ cyc.phase # "idle"
    /\ cyc' = Idle
    /\ drift' = drift \cup Uncounted \cup (IF cyc.phase = "saved" THEN {} ELSE {"aborted"})
    /\ UNCHANGED <<price, running, account, book, total, ticks, orders>>

\* trigger_execution: one decision on an account of its own.
TriggerClose(s) ==
    /\ running /\ cyc.phase = "idle" /\ orders < MaxOrders
    /\ book' = Close(Restored(book), book, s).book
    /\ total' = total + book'.realized - book.realized
    /\ drift' = drift \cup {"triggered"}
    /\ orders' = orders + 1
    /\ UNCHANGED <<price, running, account, cyc, ticks>>

TriggerOpen(s, side, size) ==
    /\ running /\ cyc.phase = "idle" /\ orders < MaxOrders
    /\ MayOpen(Restored(book), book, s, size)
    /\ book' = Ordered(Restored(book), book, s, side, size, [sl |-> 0, tp |-> 0]).book
    /\ drift' = drift \cup {"triggered"}
    /\ orders' = orders + 1
    /\ UNCHANGED <<price, running, account, total, cyc, ticks>>

Tick(s, p) ==
    /\ ticks < MaxTicks
    /\ p # price[s]
    /\ price' = [price EXCEPT ![s] = p]
    /\ ticks' = ticks + 1
    /\ UNCHANGED <<running, account, book, total, cyc, drift, orders>>

Next ==
    \/ StartWorker \/ StopWorker \/ StopAndClose
    \/ BeginCycle \/ SaveDecision \/ CountTrades \/ AbortCycle
    \/ \E s \in Symbols :
          \/ CloseDecision(s) \/ TriggerClose(s)
          \/ \E p \in Prices : Tick(s, p)
          \/ \E side \in Sides, size \in Sizes :
                \/ TriggerOpen(s, side, size)
                \/ \E stops \in StopsFor(side, Fill(side, price[s])) :
                      OpenDecision(s, side, size, stops)

Spec == Init /\ [][Next]_paperVars

-----------------------------------------------------------------------------
(* What the pages of the agent show between two cycles.                     *)

\* _fetch_public_prices: symbols that no answer came for are left out.
PublicPrices(answered) == [s \in answered |-> price[s]]

\* GET /agents/{id}/positions: a row without a price has no unrealised result.
PositionsPage(prices) ==
    [s \in Open(book) \cap DOMAIN prices |-> Pnl(book.rows[s], prices[s])]

\* The virtual account.  The margin in use is multiplied by the leverage, as in Spare.
VirtualAccount(prices) ==
    LET unrealized == Total(PositionsPage(prices), DOMAIN PositionsPage(prices))
    IN  [equity     |-> InitialBalance + unrealized + total,
         unrealized |-> unrealized,
         margin     |-> Total([s \in Symbols |-> book.rows[s].cost], Open(book))]

\* GET /agents/{id}/account-state.
AccountPage(answered) == VirtualAccount(PublicPrices(answered))

-----------------------------------------------------------------------------
TypeOK ==
    /\ price \in [Symbols -> Prices]
    /\ running \in BOOLEAN
    /\ account \in Accounts
    /\ book \in Books
    /\ total \in Int
    /\ cyc \in [phase : {"idle", "closing", "opening", "saved"}, book : Books, gain : Int]
    /\ drift \subseteq Drifts
    /\ {ticks, orders} \subseteq Nat

Agree(b) ==
    /\ account.balance = InitialBalance + b.realized
    /\ \A s \in Symbols : RowOf(account.pos[s]) = b.rows[s]

\* The rows that stand for the account: the session's during a cycle.
CurrentBook == IF cyc.phase = "idle" THEN book ELSE cyc.book

(* "Reconstructs the SimulatedTrader's in-memory balance and open positions *)
(* so that mock agents survive worker restarts" (tasks.py): a restart, at   *)
(* any moment and however often, gives the account that the worker would    *)
(* have, unless since the last start a stop fired, an order added to a held *)
(* symbol, a cycle was rolled back or the agent was run by hand.            *)
BooksAgree == running /\ drift \subseteq Lasting => Agree(CurrentBook)

(* An order of a cycle that opens a symbol or adds to it on its side leaves *)
(* the margin of all positions covered by the balance, although the         *)
(* simulator looks at this order alone: the engine reads the account again  *)
(* before each order.                                                       *)
OrderLeavesMarginCovered ==
    \A s \in Symbols :
        LET p == account.pos[s]  q == account'.pos[s]
        IN  cyc.phase # "idle" /\ q.size > p.size /\ p.side \in {"none", q.side}
               => Spare(account') >= 0

(* What the user sees is the account the agent trades on.  Between cycles   *)
(* the equity, unrealised result and margin that the page computes from the *)
(* rows, the counter total_pnl and public prices are those of the simulator *)
(* in the worker's memory, or of the one that a worker would restore, less  *)
(* the unrealised result of the symbols no price came for; but for the      *)
(* drifts above, and trades whose cycle ended between the commit of their   *)
(* rows and their counting.                                                 *)
PageShowsAccount ==
    LET trading == IF running THEN account ELSE Restored(book)
    IN  cyc.phase = "idle" /\ drift = {} =>
          \A answered \in SUBSET Symbols :
             LET page  == AccountPage(answered)
                 gains == Total([s \in Symbols |-> Pnl(trading.pos[s], price[s])], answered)
             IN  /\ page.equity = trading.balance + gains
                 /\ page.unrealized = gains
                 /\ Leverage * trading.balance - page.margin = Spare(trading)

(* The rows, the account and the page tell one story.                       *)
AccountsAgree == BooksAgree /\ PageShowsAccount
=============================================================================
