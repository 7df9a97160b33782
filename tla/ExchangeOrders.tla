----------------------------- MODULE ExchangeOrders -----------------------------
(***************************************************************************)
(* One CCXTTrader on a real exchange (traders/base.py, ccxt_trader.py): the*)
(* calls a cycle makes, request by request, for one symbol.  Between two   *)
(* requests the exchange goes on: resting stops fire, other clients of the *)
(* account trade.  The net position is a number, negative when short.      *)
(***************************************************************************)
EXTENDS Integers, FiniteSets

CONSTANTS
    MaxSize,       \* largest order
    MaxNet,        \* bound on the net position
    MaxTries,      \* attempts to read a price: three
    MaxCalls,      \* bounds on the calls of the trader, ...
    MaxForeign     \* ... and on the orders of other clients

OrderParameters ==
    {MaxSize, MaxNet, MaxTries, MaxCalls, MaxForeign} \subseteq Nat \ {0}

VARIABLES
    net,           \* the account's position, on the exchange
    resting,       \* its resting stop and target orders, on the exchange
    call,          \* the call in progress
    result,        \* what the last call told its caller
    calls, foreign

vars == <<net, resting, call, result, calls, foreign>>

-----------------------------------------------------------------------------
Sides == {"buy", "sell"}
Kinds == {"stop", "target"}
Sign(side) == IF side = "buy" THEN 1 ELSE -1
Other(side) == IF side = "buy" THEN "sell" ELSE "buy"
Abs(n) == IF n < 0 THEN -n ELSE n

\* `fills' counts the executions of the call's market order.
Idle == [op |-> "none", step |-> "idle", side |-> "buy", size |-> 0, wants |-> {}, tries |-> 0,
         fills |-> 0]

Results == {"none", "filled", "unfilled", "no_position", "failed", "raised"}

Init ==
    /\ net = 0
    /\ resting = {}
    /\ call = Idle
    /\ result = "none"
    /\ calls = 0 /\ foreign = 0

Return(r) ==
    /\ call' = Idle
    /\ result' = r

Goto(step) == call' = [call EXCEPT !.step = step, !.tries = 0]

\* A call that only asks leaves the exchange as it is.
Asking(step) ==
    /\ call.step = step
    /\ UNCHANGED <<net, resting, calls, foreign>>

-----------------------------------------------------------------------------
(* The caller.                                                              *)

\* open_long and open_short.
OpenPosition(side, size, wants) ==
    /\ call = Idle /\ calls < MaxCalls
    /\ call' = [Idle EXCEPT !.op = "open", !.step = "price", !.side = side, !.size = size,
                            !.wants = wants]
    /\ calls' = calls + 1
    /\ UNCHANGED <<net, resting, result, foreign>>

ClosePosition ==
    /\ call = Idle /\ calls < MaxCalls
    /\ call' = [Idle EXCEPT !.op = "close", !.step = "position"]
    /\ calls' = calls + 1
    /\ UNCHANGED <<net, resting, result, foreign>>

\* close_position reads the whole net position of the account.
PositionRead ==
    /\ Asking("position")
    /\ IF net = 0 THEN Return("no_position")
       ELSE /\ call' = [call EXCEPT !.step = "price", !.size = Abs(net),
                                    !.side = IF net > 0 THEN "sell" ELSE "buy"]
            /\ UNCHANGED result

PositionFails ==
    /\ Asking("position")
    /\ Return("failed")

\* The margin mode and the leverage are set for entries only.
PriceRead ==
    /\ Asking("price")
    /\ Goto(IF call.op = "open" THEN "leverage" ELSE "order")
    /\ UNCHANGED result

\* close_position turns exceptions into results, open_long does not.
PriceFails ==
    /\ Asking("price")
    /\ IF call.tries + 1 < MaxTries
       THEN /\ call' = [call EXCEPT !.tries = @ + 1]
            /\ UNCHANGED result
       ELSE Return(IF call.op = "open" THEN "raised" ELSE "failed")

LeverageSet ==
    /\ Asking("leverage")
    /\ Goto("order")
    /\ UNCHANGED result

\* A margin mode that cannot change, or a leverage that is refused: set_leverage is
\* called outside the handlers of place_market_order.
LeverageRefused ==
    /\ Asking("leverage")
    /\ Return("raised")

\* Too small an entry is not sent.
BelowMinimum ==
    /\ Asking("order") /\ call.op = "open"
    /\ Return("failed")

\* Wrong variant of ReduceOnly: closing orders are not marked.
ReduceOnly_Never == FALSE

ReduceOnly == call.op = "close"

\* What the exchange executes of a market order.
Executable(side, size) ==
    IF ReduceOnly
    THEN IF Sign(side) * net >= 0 THEN 0 ELSE IF Abs(net) < size THEN Abs(net) ELSE size
    ELSE size

Executes ==
    LET size == Executable(call.side, call.size)
    IN  /\ size > 0
        /\ Abs(net + Sign(call.side) * size) <= MaxNet
        /\ net' = net + Sign(call.side) * size

\* The answer may carry no filled size yet: then stops and targets are not placed.
OrderFilled ==
    /\ call.step \in {"order", "again"}
    /\ Executes
    /\ IF call.op = "open"
       THEN \/ /\ call' = [call EXCEPT !.step = "stop", !.fills = @ + 1]
               /\ UNCHANGED result
            \/ Return("unfilled")
       ELSE Return("filled")
    /\ UNCHANGED <<resting, calls, foreign>>

\* No funds, an invalid order, or the leverage, which place_market_order sets once more.
OrderRejected ==
    /\ Asking(call.step) /\ call.step \in {"order", "again"}
    /\ Return("failed")

\* The order is accepted, and none of it is executed.
OrderUnexecuted ==
    /\ Asking(call.step) /\ call.step \in {"order", "again"}
    /\ Return("unfilled")

\* A second attempt follows the first only; its failures are final.
RateLimited ==
    /\ Asking("order")
    /\ Goto("again")
    /\ UNCHANGED result

\* Wrong variant of AfterLostAnswer: any error is tried again.
AfterLostAnswer_Retry ==
    IF call.step = "order"
    THEN /\ call' = [call EXCEPT !.step = "again", !.fills = @ + 1]
         /\ UNCHANGED result
    ELSE /\ call' = [call EXCEPT !.step = "stop", !.fills = @ + 1]
         /\ UNCHANGED result

AfterLostAnswer == Return("failed")

\* The exchange has executed the order and the trader learns of an error.
AnswerLost ==
    /\ call.step \in {"order", "again"}
    /\ Executes
    /\ AfterLostAnswer
    /\ UNCHANGED <<resting, calls, foreign>>

\* place_stop_loss and place_take_profit: an error does not touch the entry's result.
Placed(kind) == [kind |-> kind, side |-> Other(call.side)]

Protect(kind, next) ==
    /\ call.step = kind
    /\ \/ /\ kind \in call.wants
          /\ resting' = resting \cup {Placed(kind)}
       \/ UNCHANGED resting
    /\ next
    /\ UNCHANGED <<net, calls, foreign>>

PlaceStopLoss   == Protect("stop", Goto("target") /\ UNCHANGED result)
PlaceTakeProfit == Protect("target", Return("filled"))

-----------------------------------------------------------------------------
(* The exchange.                                                            *)

\* A resting order fires; it is reduce-only and closes what there is on its side.
Fires(r) ==
    /\ net' = IF Sign(r.side) * net < 0 THEN 0 ELSE net
    /\ resting' = resting \ {r}
    /\ UNCHANGED <<call, result, calls, foreign>>

\* An exchange may cancel the resting orders of a position that is gone; the code never does.
Cancels(r) ==
    /\ net = 0
    /\ resting' = resting \ {r}
    /\ UNCHANGED <<net, call, result, calls, foreign>>

\* Another agent, or the user, trades on the same account.
Foreign(side, size) ==
    /\ foreign < MaxForeign
    /\ Abs(net + Sign(side) * size) <= MaxNet
    /\ net' = net + Sign(side) * size
    /\ foreign' = foreign + 1
    /\ UNCHANGED <<resting, call, result, calls>>

Next ==
    \/ \E side \in Sides, size \in 1..MaxSize :
          \/ Foreign(side, size)
          \/ \E wants \in SUBSET Kinds : OpenPosition(side, size, wants)
    \/ ClosePosition
    \/ PositionRead \/ PositionFails
    \/ PriceRead \/ PriceFails
    \/ BelowMinimum \/ LeverageSet \/ LeverageRefused
    \/ OrderFilled \/ OrderRejected \/ OrderUnexecuted \/ RateLimited \/ AnswerLost
    \/ PlaceStopLoss \/ PlaceTakeProfit
    \/ \E r \in resting : Fires(r) \/ Cancels(r)

Spec == Init /\ [][Next]_vars

-----------------------------------------------------------------------------
TypeOK ==
    /\ net \in -MaxNet..MaxNet
    /\ resting \subseteq [kind : Kinds, side : Sides]
    /\ call \in [op : {"none", "open", "close"},
                 step : {"idle", "position", "price", "leverage", "order", "again", "stop", "target"},
                 side : Sides, size : Nat, wants : SUBSET Kinds, tries : 0..MaxTries,
                 fills : 0..2]
    /\ result \in Results
    /\ calls \in 0..MaxCalls /\ foreign \in 0..MaxForeign

(* However its requests fail, a call's market order is executed once at     *)
(* most: a rate limit is tried again and a lost answer is not.  An entry    *)
(* reported as failed may have been executed; one reported as filled has.   *)
OneFillPerCall == call.fills <= 1
=============================================================================
