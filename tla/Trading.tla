-------------------------------- MODULE Trading --------------------------------
(***************************************************************************)
(* The components a trading decision passes through: the position ledger,  *)
(* the quant engines, paper trading, the decision cycle, the backtest and  *)
(* the trader of a real exchange.  They share no state: in a behaviour one *)
(* of them, "part", moves and the others rest.                             *)
(***************************************************************************)
EXTENDS Integers, Sequences

CONSTANTS
    \* PositionLedger
    Agent, Coins, Entries, Slots, Job, NoValue, Allocation, MaxOpens, Guesses,
    \* QuantEngine
    Engines, GridCount, Budget, MaxOrders, MaxCycles, MaxInterferences,
    \* PaperTrading (on the same coins)
    Quotes, Sizes, Slip, Leverage, Deposit, MaxPositions, MaxTicks, MaxPlaced,
    \* DecisionCycle
    Watchlist, Answers, Debaters, MinParticipants, MinConfidence, MaxHeld, MaxRounds,
    \* Backtest (on the same coins, with the slippage and leverage of paper trading)
    Candles, Lots, Stake, Watched, LastHour, Histories, Page, Window, Ratio, MinNotional,
    Interval, Replies, MaxReplies,
    \* ExchangeOrders
    MaxSize, MaxNet, MaxTries, MaxCalls, MaxForeign

VARIABLES
    part,
    rows, draft, holder, aged, exch, cyc, capLock, recon, opens, unsure,
    kind, version, runtime, size, position, step, happened, cycles, interferences,
    price, running, account, book, total, session, drift, ticks, placed,
    mode, enhanced, phase, priced, answers, plan, holdings, committed, results, orders, raised,
    record, rounds,
    stage, decider, data, hour, run, replies, saved,
    net, resting, call, result, calls, foreign

ledgerVars == <<rows, draft, holder, aged, exch, cyc, capLock, recon, opens, unsure>>
engineVars == <<kind, version, runtime, size, position, step, happened, cycles, interferences>>
paperVars  == <<price, running, account, book, total, session, drift, ticks, placed>>
cycleVars  == <<mode, enhanced, phase, priced, answers, plan, holdings, committed, results, orders,
                raised, record, rounds>>
backtestVars == <<stage, decider, data, hour, run, replies, saved>>
traderVars == <<net, resting, call, result, calls, foreign>>

vars == <<part, ledgerVars, engineVars, paperVars, cycleVars, backtestVars, traderVars>>

-----------------------------------------------------------------------------
\* One accumulating agent whose cycles do not overlap, with orders that are rejected,
\* raise or do not report what they filled.
Ledger == INSTANCE PositionLedger WITH
    Agents <- {Agent}, Symbols <- Coins, Rows <- Entries, Cycles <- Slots, Recon <- Job,
    None <- NoValue, Accumulators <- {Agent}, Capital <- [a \in {Agent} |-> Allocation],
    Overlap <- FALSE, Reconciling <- FALSE, Faults <- {"reject", "raise", "silent"},
    Estimates <- Guesses

Quant == INSTANCE QuantEngine WITH
    saved <- runtime, row <- size, exch <- position, cyc <- step, foreign <- interferences,
    Kinds <- Engines, MaxForeign <- MaxInterferences

Paper == INSTANCE PaperTrading WITH
    cyc <- session, orders <- placed,
    Symbols <- Coins, Prices <- Quotes, InitialBalance <- Deposit, MaxOrders <- MaxPlaced

Cycle == INSTANCE DecisionCycle WITH
    rows <- holdings, cycles <- rounds, MaxPositions <- MaxHeld, MaxCycles <- MaxRounds

Backtest == INSTANCE Backtest WITH
    phase <- stage, mode <- decider, answers <- replies,
    Symbols <- Coins, Prices <- Candles, Sizes <- Lots, InitialBalance <- Stake,
    Answers <- Replies, MaxAnswers <- MaxReplies

Trader == INSTANCE ExchangeOrders

ASSUME TradingParameters ==
    /\ Ledger!CyclesAssumption /\ Ledger!NoneAssumption /\ Ledger!ParametersAssumption
    /\ Quant!QuantParameters
    /\ Paper!SimulatorParameters /\ Paper!PaperParameters
    /\ Cycle!CycleParameters
    /\ Backtest!SimulatorParameters /\ Backtest!BacktestParameters
    /\ Trader!OrderParameters

-----------------------------------------------------------------------------
Parts == {"ledger", "quant", "paper", "cycle", "backtest", "trader"}

Init ==
    /\ part \in Parts
    /\ Ledger!Init /\ Quant!Init /\ Paper!Init /\ Cycle!Init /\ Backtest!Init /\ Trader!Init
    \* one initial state of a component at rest will do
    /\ part # "quant" => kind = CHOOSE k \in Engines : TRUE
    /\ part # "paper" => \A s \in Coins : price[s] = CHOOSE p \in Quotes : TRUE
    /\ part # "cycle" => mode = "single" /\ enhanced = FALSE
    /\ part # "backtest" => decider = "rules"

OthersRest ==
    /\ UNCHANGED part
    /\ part = "ledger" \/ UNCHANGED ledgerVars
    /\ part = "quant" \/ UNCHANGED engineVars
    /\ part = "paper" \/ UNCHANGED paperVars
    /\ part = "cycle" \/ UNCHANGED cycleVars
    /\ part = "backtest" \/ UNCHANGED backtestVars
    /\ part = "trader" \/ UNCHANGED traderVars

Next ==
    \/ part = "ledger" /\ Ledger!Next /\ OthersRest
    \/ part = "quant" /\ Quant!Next /\ OthersRest
    \/ part = "paper" /\ Paper!Next /\ OthersRest
    \/ part = "cycle" /\ Cycle!Next /\ OthersRest
    \/ part = "backtest" /\ Backtest!Next /\ OthersRest
    \/ part = "trader" /\ Trader!Next /\ OthersRest

Spec == Init /\ [][Next]_vars

-----------------------------------------------------------------------------
(* PositionLedger: between the cycles of an agent that is alone on its      *)
(* account and runs one at a time, the ledger equals the exchange and the   *)
(* margin stays within the capital, in every symbol whose orders reported   *)
(* what they filled, whatever orders were refused, raised or silent.  Not   *)
(* so, and not among its faults, after a lost answer, a stop that fired on  *)
(* the exchange or a crash between an order and the commit.                 *)
LedgerIsSound == part = "ledger" => Ledger!LedgerMatchesExchange /\ Ledger!CapitalRespected

(* QuantEngine: a DCA engine sells what its row holds, a grid's row has     *)
(* levels to sell and an RSI engine holds one order, however cycles are cut *)
(* short and orders fail or do not report their fill.  Exceptions, by kind: *)
(* adoption after an error of an order (DCA, grid), the reconciliation job  *)
(* (DCA), a changed configuration (grid), a failed look at the exchange and *)
(* an opening by another (RSI).                                             *)
StateTellsPosition == part = "quant" => Quant!TypeOK /\ Quant!StateTellsPosition

(* PaperTrading: a restart gives the account the worker would have, and the *)
(* user's page shows the account the agent trades on.                       *)
AccountsAgree == part = "paper" => Paper!TypeOK /\ Paper!AccountsAgree

(* PaperTrading: an order leaves the margin of all positions covered.       *)
OrdersKeepMarginCovered == [][part = "paper" => Paper!OrderLeavesMarginCovered]_vars

(* DecisionCycle: the orders of a cycle keep the limit on positions, carry  *)
(* stops and have the debate behind them.                                   *)
OrdersFollowRules == part = "cycle" => Cycle!TypeOK /\ Cycle!OrdersFollowRules

(* DecisionCycle: a saved record explains the rows of its cycle.            *)
RecordExplainsRows == [][part = "cycle" => Cycle!RecordExplains]_vars

(* Backtest: no look into later candles, and a report that adds up.         *)
ReportIsHonest == part = "backtest" => Backtest!TypeOK /\ Backtest!ReportIsHonest

(* ExchangeOrders: however its requests fail, a call of the trader has its  *)
(* market order executed once at most.                                      *)
OneFillPerCall == part = "trader" => Trader!TypeOK /\ Trader!OneFillPerCall
=============================================================================
