------------------------------- MODULE Simulator -------------------------------
(***************************************************************************)
(* SimulatedTrader (backtest/simulator.py): the exchange that mock agents   *)
(* and backtests trade on.  It lives in the memory of one process and is a *)
(* value here: an operation maps an account to the account after it.       *)
(*                                                                         *)
(* A position keeps its cost, entry price times size, so that averaging an *)
(* entry is an addition.  Every order has the same leverage, and amounts of*)
(* margin are compared multiplied by it.  Fees are counted by the code and *)
(* never taken from the balance.                                           *)
(***************************************************************************)
EXTENDS Integers, FiniteSets, Sums

CONSTANTS
    Symbols,
    Prices,          \* the prices a symbol may have
    Sizes,           \* sizes of an order
    Slip,            \* slippage of a market order
    Leverage,
    InitialBalance

SimulatorParameters ==
    /\ IsFiniteSet(Symbols)
    /\ Prices \cup Sizes \subseteq Nat \ {0}
    /\ Slip \in Nat /\ \A p \in Prices : Slip < p
    /\ {Leverage, InitialBalance} \subseteq Nat \ {0}

Sides == {"long", "short"}

\* sl and tp are 0 without a stop and a target.
Flat == [side |-> "none", size |-> 0, cost |-> 0, sl |-> 0, tp |-> 0]

Positions == [side : Sides \cup {"none"}, size : Nat, cost : Nat, sl : Nat, tp : Nat]
Accounts  == [balance : Int, pos : [Symbols -> Positions]]

Account(balance) == [balance |-> balance, pos |-> [s \in Symbols |-> Flat]]

Opposite(side) == IF side = "long" THEN "short" ELSE "long"

\* What a position has gained at a price.
Pnl(p, price) ==
    CASE p.side = "long"  -> price * p.size - p.cost
      [] p.side = "short" -> p.cost - price * p.size
      [] OTHER            -> 0

StopHit(p, price) ==
    p.sl > 0 /\ \/ p.side = "long"  /\ price <= p.sl
                \/ p.side = "short" /\ price >= p.sl

TargetHit(p, price) ==
    p.tp > 0 /\ \/ p.side = "long"  /\ price >= p.tp
                \/ p.side = "short" /\ price <= p.tp

\* The position of s is closed as a whole at a price.
ClosedAt(a, s, price) ==
    [balance |-> a.balance + Pnl(a.pos[s], price), pos |-> [a.pos EXCEPT ![s] = Flat]]

\* New prices close the positions whose stop or target they reach.
SetPrices(a, price) ==
    LET hit == {s \in Symbols : StopHit(a.pos[s], price[s]) \/ TargetHit(a.pos[s], price[s])}
    IN  [balance |-> a.balance + Total([s \in Symbols |-> Pnl(a.pos[s], price[s])], hit),
         pos     |-> [s \in Symbols |-> IF s \in hit THEN Flat ELSE a.pos[s]]]

\* The available balance times the leverage: what may still be bought.
Spare(a) == Leverage * a.balance - Total([s \in Symbols |-> a.pos[s].cost], Symbols)

\* A market order pays the slippage.
Fill(side, price) == IF side = "long" THEN price + Slip ELSE price - Slip

ExitFill(p, price) == Fill(Opposite(p.side), price)

Increased(p, size, fill) == [p EXCEPT !.size = @ + size, !.cost = @ + size * fill]

\* An order on the side held adds to the position and asks for no margin; one on the
\* other side closes it first, and the margin is compared with the balance alone.
Order(a, s, side, size, price) ==
    LET fill == Fill(side, price)
        held == a.pos[s]
        base == IF held.side = Opposite(side) THEN ClosedAt(a, s, fill) ELSE a
        new  == [Flat EXCEPT !.side = side, !.size = size, !.cost = size * fill]
        done(p) == [success |-> TRUE, account |-> [base EXCEPT !.pos[s] = p]]
    IN  IF held.side = side
        THEN done(Increased(held, size, fill))
        ELSE IF size * fill > Leverage * base.balance
             THEN [success |-> FALSE, account |-> base]
             ELSE done(new)

\* Stops on the wrong side of the fill are moved, so a stop is below and a target above
\* the price paid for a long, and the other way round for a short.
StopsFor(side, fill) ==
    LET below == {p \in Prices : p < fill}
        above == {p \in Prices : p > fill}
    IN  IF side = "long" THEN [sl : below \cup {0}, tp : above \cup {0}]
                         ELSE [sl : above \cup {0}, tp : below \cup {0}]

WithStops(a, s, stops) ==
    [a EXCEPT !.pos[s].sl = IF stops.sl > 0 THEN stops.sl ELSE @,
              !.pos[s].tp = IF stops.tp > 0 THEN stops.tp ELSE @]
=============================================================================
