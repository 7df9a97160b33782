-------------------------------- MODULE Backtest --------------------------------
(***************************************************************************)
(* A backtest (backtest/engine.py, data_provider.py, routes/backtest.py):  *)
(* candles are loaded page by page, turned into snapshots and replayed in  *)
(* order on a SimulatedTrader, with decisions of a moving-average rule or  *)
(* of the AI.                                                              *)
(*                                                                         *)
(* The module runs two backtests of one strategy side by side, over        *)
(* histories that may differ.  What a backtest knows of the future is then *)
(* what makes it differ while the histories still agree.                   *)
(***************************************************************************)
EXTENDS Simulator, SequencesExt

CONSTANTS
    Watched,         \* config.symbols, in order
    LastHour,        \* the hours of a history are 1..LastHour
    Histories,       \* [Symbols -> [Hours -> Prices \cup {0}]]; 0 where there is no candle
    Page,            \* candles of one request
    Window,          \* candles of the moving average
    Ratio,           \* max_position_ratio, in percent
    MinNotional,     \* the smallest position the rule opens
    Interval,        \* decision_interval_candles
    Answers,         \* lists of instructions the AI may answer with
    MaxAnswers       \* bound on the answers other than to hold

Hours  == 1..LastHour
Worlds == {1, 2}

\* A cautious instruction, one of the rule, looks at the position held first.
Instructions ==
    [action : Sides \cup {"close", "none"}, symbol : Symbols, notional : Int,
     stops : [sl : Nat, tp : Nat], cautious : BOOLEAN]

BacktestParameters ==
    /\ {LastHour, Page, Window, Interval} \subseteq Nat \ {0}
    /\ {Ratio, MinNotional, MaxAnswers} \subseteq Nat
    /\ Watched \in Seq(Symbols)
    /\ \A h \in Histories : h \in [Symbols -> [Hours -> Prices \cup {0}]]
    /\ \A a \in Answers : a \in Seq(Instructions) /\ \A k \in DOMAIN a : a[k].notional >= 0

VARIABLES
    phase,      \* "request", "running", "done" or "failed"
    mode,       \* "rules" or "ai"
    data,       \* DataProvider._data of each world
    hour,       \* the last hour replayed
    run,        \* the engine of each world
    answers,    \* answers the AI has given
    saved       \* results persisted by create_backtest

vars == <<phase, mode, data, hour, run, answers, saved>>

-----------------------------------------------------------------------------
(* The engine's state and the trader's: account, last price of each symbol *)
(* (0 before the first), closed trades, equity curve, peak and the deepest *)
(* fall below it, and the candles replayed.                                *)
NewRun ==
    [acct |-> Account(InitialBalance), price |-> [s \in Symbols |-> 0], trades |-> <<>>,
     curve |-> <<>>, peak |-> InitialBalance, worst |-> [fall |-> 0, peak |-> 1], candles |-> 0]

NoData == [s \in Symbols |-> [u \in Hours |-> 0]]

Equity(r) == r.acct.balance + Total([s \in Symbols |-> Pnl(r.acct.pos[s], r.price[s])], Symbols)

Deeper(x, y) == x.fall * y.peak > y.fall * x.peak

Trade(p, s, fill) == [symbol |-> s, side |-> p.side, pnl |-> Pnl(p, fill)]

\* The positions of the symbols in S are closed one after the other, in any order.
Closed(r, S, fill) ==
    LET order == SetToSeq(S)
        gain  == Total([s \in S |-> Pnl(r.acct.pos[s], fill[s])], S)
        flat  == [s \in Symbols |-> IF s \in S THEN Flat ELSE r.acct.pos[s]]
        ended == [k \in DOMAIN order |-> Trade(r.acct.pos[order[k]], order[k], fill[order[k]])]
    IN  [r EXCEPT !.acct = [balance |-> r.acct.balance + gain, pos |-> flat], !.trades = @ \o ended]

\* set_prices: a symbol without a candle keeps its price; stops and targets fire on it.
NewPrices(r, quote) ==
    LET price == [s \in Symbols |-> IF quote[s] > 0 THEN quote[s] ELSE r.price[s]]
        hit   == {s \in Symbols : StopHit(r.acct.pos[s], price[s]) \/ TargetHit(r.acct.pos[s], price[s])}
    IN  Closed([r EXCEPT !.price = price], hit, price)

\* _update_metrics, and the point of the equity curve.
Measured(r) ==
    LET peak == IF Equity(r) > r.peak THEN Equity(r) ELSE r.peak
        fall == [fall |-> peak - Equity(r), peak |-> peak]
    IN  [r EXCEPT !.peak = peak, !.worst = IF Deeper(fall, @) THEN fall ELSE @,
                  !.curve = Append(@, Equity(r))]

\* open_long and open_short; without a price they raise.
Open(r, s, side, notional, stops) ==
    LET size   == notional \div r.price[s]
        held   == r.acct.pos[s]
        result == Order(r.acct, s, side, size, r.price[s])
        booked == IF held.side = Opposite(side)
                  THEN Append(r.trades, Trade(held, s, Fill(side, r.price[s]))) ELSE r.trades
    IN  IF r.price[s] = 0 \/ size = 0 THEN r
        ELSE [r EXCEPT !.trades = booked,
                       !.acct = IF result.success THEN WithStops(result.account, s, stops)
                                                  ELSE result.account]

\* close_position, for those of the symbols that have one.
Exits(r, S) ==
    Closed(r, {s \in S : r.acct.pos[s] # Flat},
           [s \in Symbols |-> ExitFill(r.acct.pos[s], r.price[s])])

\* An order that raises is skipped.
Obeyed(r, o) ==
    LET held  == r.acct.pos[o.symbol]
        turns == o.action \in Sides /\ o.cautious /\ held.side = Opposite(o.action)
        opens == o.action \in Sides /\ (o.cautious => held = Flat /\ o.notional > MinNotional)
    IN  IF o.action = "close" \/ turns THEN Exits(r, {o.symbol})
        ELSE IF opens THEN Open(r, o.symbol, o.action, o.notional, o.stops)
        ELSE r

\* _execute_decisions and the loop of the rule: in the order of the list.
Executed(r, list) ==
    LET after[k \in 0..Len(list)] == IF k = 0 THEN r ELSE Obeyed(after[k - 1], list[k])
    IN  after[Len(list)]

-----------------------------------------------------------------------------
(* _rule_based_decision.                                                    *)

CandlesBefore(d, s, t) == {u \in Hours : u < t /\ d[s][u] > 0}

\* Wrong variant of Averaged: the window is counted from the end of the series.
Averaged_Newest(d, s, t) ==
    LET all == {u \in Hours : d[s][u] > 0}
    IN  {u \in all : Cardinality({v \in all : v >= u}) <= Window}

\* The candles of the moving average.
Averaged(d, s, t) ==
    LET past == CandlesBefore(d, s, t)
    IN  {u \in past : Cardinality({v \in past : v >= u}) <= Window}

\* One percent above or below the average of enough candles.
Signal(d, s, t) ==
    LET sum == Total(d[s], Averaged(d, s, t))
    IN  IF d[s][t] = 0 \/ Cardinality(CandlesBefore(d, s, t)) < Window THEN "none"
        ELSE IF 100 * Window * d[s][t] > 101 * sum THEN "long"
        ELSE IF 100 * Window * d[s][t] < 99 * sum THEN "short"
        ELSE "none"

RuleStops(side, price) ==
    IF side = "long" THEN [sl |-> (97 * price) \div 100, tp |-> (106 * price) \div 100]
                     ELSE [sl |-> (103 * price) \div 100, tp |-> (94 * price) \div 100]

\* The account is read once, before the first symbol.
Rule(r, d, t) ==
    [k \in DOMAIN Watched |->
        LET s == Watched[k]
            side == Signal(d, s, t)
        IN  [action |-> side, symbol |-> s, notional |-> (Spare(r.acct) * Ratio) \div 100,
             stops |-> RuleStops(side, d[s][t]), cautious |-> TRUE]]

-----------------------------------------------------------------------------
Init ==
    /\ phase = "request"
    /\ mode \in {"rules", "ai"}
    /\ data = [w \in Worlds |-> NoData]
    /\ hour = 0
    /\ run = [w \in Worlds |-> NewRun]
    /\ answers = 0
    /\ saved = {}

\* A failing page ends the series of its symbol, and the first one its loading.
Loaded(h, end) == [s \in Symbols |-> [u \in Hours |-> IF u <= end[s] THEN h[s][u] ELSE 0]]

\* The symbols asked for need not be those the strategy trades.
Load(asked, h1, h2, end) ==
    /\ phase = "request"
    /\ LET reached == [s \in Symbols |-> IF s \in asked THEN end[s] ELSE 0]
           loaded  == <<Loaded(h1, reached), Loaded(h2, reached)>>
       IN  /\ data' = loaded
           /\ phase' = IF \E w \in Worlds : loaded[w] = NoData THEN "failed" ELSE "running"
    /\ UNCHANGED <<mode, hour, run, answers, saved>>

Quote(d, t) == [s \in Symbols |-> d[s][t]]

HasSnapshot(d, t) == \E s \in Symbols : d[s][t] > 0

Replayed(r, d, t, answer) ==
    LET priced  == Measured(NewPrices(r, Quote(d, t)))
        list    == IF mode = "ai" THEN answer ELSE Rule(priced, d, t)
        decided == IF r.candles % Interval # 0 THEN priced ELSE Executed(priced, list)
    IN  IF HasSnapshot(d, t) THEN [decided EXCEPT !.candles = @ + 1] ELSE r

\* The AI is shown the account and the prices of the snapshot, and answers both alike.
Candle(answer) ==
    /\ phase = "running" /\ hour < LastHour
    /\ answer # <<>> => mode = "ai" /\ answers < MaxAnswers
    /\ hour' = hour + 1
    /\ run' = [w \in Worlds |-> Replayed(run[w], data[w], hour', answer)]
    /\ answers' = IF answer = <<>> THEN answers ELSE answers + 1
    /\ UNCHANGED <<phase, mode, data, saved>>

\* Wrong variant of Liquidated: positions without a target are left.
Liquidated_Targets(r) == Exits(r, {s \in Symbols : r.acct.pos[s].tp > 0})

Liquidated(r) == Exits(r, Symbols)

\* The remaining positions are closed after the last point of the curve.
Finish ==
    /\ phase = "running" /\ hour = LastHour
    /\ run' = [w \in Worlds |-> Liquidated(run[w])]
    /\ phase' = "done"
    /\ UNCHANGED <<mode, data, hour, answers, saved>>

\* An exception: nothing is stored.
Fail ==
    /\ phase = "running"
    /\ phase' = "failed"
    /\ UNCHANGED <<mode, data, hour, run, answers, saved>>

Gains(trades, S) == Total([k \in DOMAIN trades |-> trades[k].pnl], S)

\* get_statistics.  A trade that gains nothing is neither won nor lost.
Report(r) ==
    LET of(side) == {k \in DOMAIN r.trades : r.trades[k].side = side}
    IN  [balance |-> r.acct.balance,
         worst   |-> r.worst,
         total   |-> Gains(r.trades, DOMAIN r.trades),
         won     |-> Cardinality({k \in DOMAIN r.trades : r.trades[k].pnl > 0}),
         lost    |-> Cardinality({k \in DOMAIN r.trades : r.trades[k].pnl < 0}),
         bySide  |-> [side \in Sides |-> Gains(r.trades, of(side))]]

\* A row of backtest_results.
Stored(r) == [result |-> Report(r), curve |-> r.curve]

\* create_backtest stores the result; the other two routes only answer with it.
Save ==
    /\ phase = "done" /\ saved = {}
    /\ saved' = {Stored(run[1])}
    /\ UNCHANGED <<phase, mode, data, hour, run, answers>>

Delete ==
    /\ saved # {}
    /\ saved' = {}
    /\ phase' = "closed"
    /\ UNCHANGED <<mode, data, hour, run, answers>>

Next ==
    \/ \E asked \in SUBSET Symbols, h1, h2 \in Histories,
          end \in [Symbols -> {u \in 0..LastHour : u % Page = 0 \/ u = LastHour}] :
          Load(asked, h1, h2, end)
    \/ \E answer \in Answers \cup {<<>>} : Candle(answer)
    \/ Finish \/ Fail \/ Save \/ Delete

Spec == Init /\ [][Next]_vars

-----------------------------------------------------------------------------
TypeOK ==
    /\ phase \in {"request", "running", "done", "failed", "closed"}
    /\ mode \in {"rules", "ai"}
    /\ data \in [Worlds -> [Symbols -> [Hours -> Prices \cup {0}]]]
    /\ hour \in 0..LastHour
    /\ \A w \in Worlds : run[w].acct \in Accounts
    /\ answers \in 0..MaxAnswers
    /\ Cardinality(saved) <= 1

Alike(t) == \A s \in Symbols, u \in 1..t : data[1][s][u] = data[2][s][u]

(* Two histories that agree up to an hour give the same account, trades and *)
(* equity curve up to that hour: no decision, stop or metric of the replay  *)
(* looks at a later candle.                                                 *)
NoHindsight == Alike(hour) => run[1] = run[2]

(* What the report says when the run is over: the trades explain the whole  *)
(* change of the balance, as a total and by side, with no position left     *)
(* open; and the drawdown of the statistics, measured by the trader, is the *)
(* deepest point of the drawdown curve, computed from the equity curve.     *)
ReportAddsUp ==
    phase = "done" =>
        \A w \in Worlds :
            LET r == Report(run[w])
                c == run[w].curve
                peak(j) == Max({c[i] : i \in 1..j})
                falls == {[fall |-> peak(j) - c[j], peak |-> peak(j)] : j \in DOMAIN c}
            IN  /\ run[w].acct.pos = [s \in Symbols |-> Flat]
                /\ r.balance - InitialBalance = r.total
                /\ r.total = r.bySide["long"] + r.bySide["short"]
                /\ ~\E f \in falls : Deeper(f, r.worst)
                /\ r.worst.fall > 0 => r.worst \in falls

(* What a finished run reports was computed from its own past, in full.     *)
ReportIsHonest == NoHindsight /\ ReportAddsUp
=============================================================================
