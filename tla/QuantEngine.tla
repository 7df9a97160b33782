----------------------------- MODULE QuantEngine -----------------------------
(***************************************************************************)
(* The rule-based engines (quant_engine.py) in the cycle of the quant      *)
(* backend: grid, dollar-cost averaging and RSI.                           *)
(*                                                                         *)
(* An engine decides from a runtime state that is saved with the ledger    *)
(* row of its position in one commit at the end of a cycle, while its      *)
(* orders are on the exchange as soon as they are placed.  A cycle that is *)
(* cut short (the 300 s limit, a crash) loses the former and keeps the     *)
(* latter, and the worker runs the next cycle from what was saved.         *)
(*                                                                         *)
(* An order buys one unit.  Grid level i is the price i; prices are given  *)
(* in steps of the grid.  A market order is executed when it is placed or  *)
(* not at all, but its answer need not say so: a success whose "filled" is *)
(* missing or zero is counted as if it had been filled.                    *)
(***************************************************************************)
EXTENDS Integers, FiniteSets

CONSTANTS
    Kinds,        \* the engines considered
    GridCount,    \* config: steps of the grid
    Budget,       \* config: total_budget in orders (0: no limit)
    MaxOrders,    \* config: max_orders (0: no limit)
    Guesses,      \* what the ledger counts for an order of one unit that did not
                  \* report its fill: size_usd / (filled_price or 1.0)
    MaxCycles,    \* bound on the cycles of a behaviour
    MaxForeign    \* bound on what others do to the account

QuantParameters ==
    /\ Kinds \subseteq {"grid", "dca", "rsi"}
    /\ GridCount \in Nat \ {0}
    /\ Guesses \subseteq Nat \ {0}
    /\ {Budget, MaxOrders, MaxCycles, MaxForeign} \subseteq Nat

VARIABLES
    kind,      \* the strategy's type
    version,   \* the configuration, which the user may change
    saved,     \* committed runtime_state
    row,       \* size of the agent's committed position row, 0 without one
    exch,      \* size of the account's position on the exchange
    cyc,       \* the cycle under way
    happened,  \* kinds of accident so far
    cycles,    \* cycles begun
    foreign    \* interferences so far

vars == <<kind, version, saved, row, exch, cyc, happened, cycles, foreign>>

-----------------------------------------------------------------------------
Levels == 0 .. GridCount
Prices == 0 .. GridCount + 1
Rsi    == {"oversold", "between", "overbought", "unknown"}

RuntimeState == [initialized : BOOLEAN, config : Nat,
                 bought : SUBSET Levels, sold : SUBSET Levels,
                 invested : Nat, placed : Nat, quantity : Nat, has : BOOLEAN]

Blank == [initialized |-> FALSE, config |-> 0, bought |-> {}, sold |-> {},
          invested |-> 0, placed |-> 0, quantity |-> 0, has |-> FALSE]

Accidents == {"aborted", "lost", "raised", "blind", "opened", "closed",
              "zombie", "reconfigured", "unfilled"}

\* state is the dictionary the engine returns; bought and sold are its local
\* copies of the grid's sets; position is the row as the session sees it.
Cycle == [pc : {"idle", "level", "profit", "buy", "sync", "signal", "record"},
          state : RuntimeState, position : Nat,
          price : Prices, rsi : Rsi, level : Nat,
          bought : SUBSET Levels, sold : SUBSET Levels]

Idle == [pc |-> "idle", state |-> Blank, position |-> 0, price |-> 0,
         rsi |-> "unknown", level |-> 0, bought |-> {}, sold |-> {}]

Init ==
    /\ kind \in Kinds
    /\ version = 1
    /\ saved = Blank
    /\ row = 0 /\ exch = 0
    /\ cyc = Idle
    /\ happened = {}
    /\ cycles = 0 /\ foreign = 0

durable == <<saved, row>>
others  == <<kind, version, cycles, foreign>>

At(label) == cyc.pc = label

-----------------------------------------------------------------------------
(* Orders through the execution service.  done and failed are the cycle     *)
(* after an order that succeeded and after one that did not.                *)

\* _open_with_isolation.  A success may not report its fill.  Refused: no capital, a
\* conflict of claims, or the exchange says no.  An exception makes the service ask the exchange for the
\* position, whose whole size becomes that of a newly claimed row.  A TradeError
\* then fails this order only, another exception the whole engine.
Open(done, failed) ==
    \/ /\ exch' = exch + 1
       /\ cyc' = [done EXCEPT !.position = cyc.position + 1]
       /\ UNCHANGED happened
    \/ \E filled \in {0, 1}, guess \in Guesses :
          /\ exch' = exch + filled
          /\ cyc' = [done EXCEPT !.position = cyc.position + guess]
          /\ happened' = happened \cup {"unfilled"}
    \/ /\ cyc' = failed
       /\ UNCHANGED <<exch, happened>>
    \/ /\ exch' = exch + 1
       /\ cyc' = failed
       /\ happened' = happened \cup {"lost"}
    \/ \E filled \in {0, 1}, after \in {failed, [cyc EXCEPT !.pc = "record"]} :
          /\ exch' = exch + filled
          /\ cyc' = [after EXCEPT !.position =
                        IF cyc.position = 0 THEN exch + filled ELSE cyc.position]
          /\ happened' = happened \cup {"raised"}

\* Wrong variant of Close: one unit is sold.
Close_OneUnit(done, failed) ==
    /\ exch' = exch - 1
    /\ cyc' = [done EXCEPT !.position = 0]
    /\ UNCHANGED happened

\* _close_with_isolation sells whatever the account holds and closes the row; an
\* account without a position is closed successfully, and so is one whose order
\* was accepted and not filled.
Close(done, failed) ==
    \/ /\ exch' = 0
       /\ cyc' = [done EXCEPT !.position = 0]
       /\ UNCHANGED happened
    \/ /\ exch > 0
       /\ cyc' = [done EXCEPT !.position = 0]
       /\ happened' = happened \cup {"unfilled"}
       /\ UNCHANGED exch
    \/ /\ exch > 0
       /\ cyc' = failed
       /\ UNCHANGED <<exch, happened>>
    \/ /\ exch > 0
       /\ exch' = 0
       /\ cyc' = failed
       /\ happened' = happened \cup {"lost"}

-----------------------------------------------------------------------------
(* A cycle of the worker.                                                   *)

\* The state of a first run; a grid starts anew when its configuration changes.
Initial(state) ==
    IF state.initialized /\ (kind = "grid" => state.config = version)
    THEN state
    ELSE [Blank EXCEPT !.initialized = TRUE, !.config = version]

\* The agent is active and its row and runtime state are read.  Only a grid looks
\* at the price as such, only the RSI engine at the indicator.
BeginCycle(price, rsi) ==
    /\ At("idle")
    /\ kind # "grid" => price = 0
    /\ kind # "rsi" => rsi = "unknown"
    /\ cycles < MaxCycles
    /\ cycles' = cycles + 1
    /\ LET state == Initial(saved) IN
       cyc' = [Idle EXCEPT
          !.pc = CASE kind = "grid" -> "level" [] kind = "dca" -> "profit"
                   [] OTHER -> IF rsi = "unknown" THEN "record" ELSE "sync",
          !.state = state, !.position = row, !.price = price, !.rsi = rsi,
          !.bought = state.bought, !.sold = state.sold]
    /\ UNCHANGED <<kind, version, durable, exch, happened, foreign>>

\* There is no valid price: the engine gives up and returns the state it was given.
NoPrice ==
    /\ cyc.pc \in {"level", "profit", "sync"} /\ cyc.level = 0
    /\ cyc' = [cyc EXCEPT !.pc = "record", !.state = saved]
    /\ UNCHANGED <<others, durable, exch, happened>>

\* Wrong variant of Record: the position service's changes are not committed.
Record_StateOnly ==
    /\ At("record")
    /\ saved' = cyc.state
    /\ cyc' = Idle
    /\ UNCHANGED <<others, row, exch, happened>>

\* update_runtime_state and the one commit of the cycle.
Record ==
    /\ At("record")
    /\ saved' = cyc.state
    /\ row' = cyc.position
    /\ cyc' = Idle
    /\ UNCHANGED <<others, exch, happened>>

\* The 300 s limit, a cancelled worker or a crash: the session is rolled back.
Abort ==
    /\ ~At("idle")
    /\ cyc' = Idle
    /\ happened' = happened \cup {"aborted"}
    /\ UNCHANGED <<others, durable, exch>>

-----------------------------------------------------------------------------
(* GridEngine.                                                              *)

GridBuys(i)  == cyc.price <= i /\ i \notin cyc.bought
GridSells(i) == cyc.price >= i + 1 /\ i \in cyc.bought \ cyc.sold

NextLevel == [cyc EXCEPT !.level = cyc.level + 1]

GridBuy ==
    /\ At("level") /\ cyc.level \in Levels
    /\ GridBuys(cyc.level)
    /\ Open([NextLevel EXCEPT !.bought = @ \cup {cyc.level}], NextLevel)
    /\ UNCHANGED <<others, durable>>

\* The sale of one level closes the agent's whole position.
GridSell ==
    /\ At("level") /\ cyc.level \in Levels
    /\ GridSells(cyc.level)
    /\ Close([NextLevel EXCEPT !.sold = @ \cup {cyc.level}], NextLevel)
    /\ UNCHANGED <<others, durable>>

GridSkip ==
    /\ At("level") /\ cyc.level \in Levels
    /\ ~GridBuys(cyc.level) /\ ~GridSells(cyc.level)
    /\ cyc' = NextLevel
    /\ UNCHANGED <<others, durable, exch, happened>>

\* Wrong variant of GridEnd: the bought levels are not written back.
GridEnd_ForgetsBuys ==
    /\ At("level") /\ cyc.level \notin Levels
    /\ cyc' = [cyc EXCEPT !.pc = "record", !.state.sold = cyc.sold]
    /\ UNCHANGED <<others, durable, exch, happened>>

GridEnd ==
    /\ At("level") /\ cyc.level \notin Levels
    /\ cyc' = [cyc EXCEPT !.pc = "record",
                          !.state.bought = cyc.bought, !.state.sold = cyc.sold]
    /\ UNCHANGED <<others, durable, exch, happened>>

-----------------------------------------------------------------------------
(* DCAEngine.                                                               *)

\* A sold-out position leaves orders_placed and last_order_time as they are.
SoldOut(state) == [state EXCEPT !.invested = 0, !.quantity = 0]

\* The price is far enough above the average cost; a failed sale goes on to buy.
DcaTakeProfit ==
    /\ At("profit")
    /\ cyc.state.quantity > 0
    /\ Close([cyc EXCEPT !.pc = "record", !.state = SoldOut(@)],
             [cyc EXCEPT !.pc = "buy"])
    /\ UNCHANGED <<others, durable>>

DcaHold ==
    /\ At("profit")
    /\ cyc' = [cyc EXCEPT !.pc = "buy"]
    /\ UNCHANGED <<others, durable, exch, happened>>

LimitReached(state) ==
    \/ Budget > 0 /\ state.invested >= Budget
    \/ MaxOrders > 0 /\ state.placed >= MaxOrders

\* A limit is reached, or the interval since the last order has not passed.
DcaWait ==
    /\ At("buy")
    /\ LimitReached(cyc.state) \/ cyc.state.placed > 0
    /\ cyc' = [cyc EXCEPT !.pc = "record"]
    /\ UNCHANGED <<others, durable, exch, happened>>

\* The filled quantity, or the one ordered when the answer has none.
Averaged(state) == [state EXCEPT !.placed = @ + 1, !.invested = @ + 1, !.quantity = @ + 1]

DcaBuy ==
    /\ At("buy")
    /\ ~LimitReached(cyc.state)
    /\ Open([cyc EXCEPT !.pc = "record", !.state = Averaged(@)],
            [cyc EXCEPT !.pc = "record"])
    /\ UNCHANGED <<others, durable>>

-----------------------------------------------------------------------------
(* RSIEngine.                                                               *)

\* Wrong variant of RsiSync: a position the state does not know is left alone.
RsiSync_OnlyClears ==
    /\ At("sync")
    /\ cyc' = [cyc EXCEPT !.pc = "signal", !.state.has = @ /\ exch > 0]
    /\ UNCHANGED <<others, durable, exch, happened>>

\* has_position follows the account's position, whoever opened it.
RsiSync ==
    /\ At("sync")
    /\ cyc' = [cyc EXCEPT !.pc = "signal", !.state.has = exch > 0]
    /\ UNCHANGED <<others, durable, exch, happened>>

\* The query fails: the engine goes on with what it remembers.
RsiSyncFails ==
    /\ At("sync")
    /\ cyc' = [cyc EXCEPT !.pc = "signal"]
    /\ happened' = happened \cup {"blind"}
    /\ UNCHANGED <<others, durable, exch>>

RsiSignal ==
    CASE cyc.rsi = "oversold" /\ ~cyc.state.has -> "buy"
      [] cyc.rsi = "overbought" /\ cyc.state.has -> "sell"
      [] OTHER -> "none"

RsiTrade ==
    /\ At("signal")
    /\ LET failed == [cyc EXCEPT !.pc = "record"] IN
       CASE RsiSignal = "buy"  -> Open([failed EXCEPT !.state.has = TRUE], failed)
         [] RsiSignal = "sell" -> Close([failed EXCEPT !.state.has = FALSE], failed)
         [] OTHER -> cyc' = failed /\ UNCHANGED <<exch, happened>>
    /\ UNCHANGED <<others, durable>>

-----------------------------------------------------------------------------
(* What others do.                                                          *)

Interferes(what) ==
    /\ foreign < MaxForeign
    /\ foreign' = foreign + 1
    /\ happened' = happened \cup {what}

\* Another agent of the account opens the symbol, or an order is filled after all, ...
ForeignOpen ==
    /\ Interferes("opened")
    /\ exch' = exch + 1
    /\ UNCHANGED <<kind, version, durable, cyc, cycles>>

\* ... or closes it, as a stop order or a liquidation does.
ForeignClose ==
    /\ exch > 0
    /\ Interferes("closed")
    /\ exch' = 0
    /\ UNCHANGED <<kind, version, durable, cyc, cycles>>

\* The reconciliation job closes a row whose position is gone.
Reconcile ==
    /\ At("idle")
    /\ row > 0 /\ exch = 0
    /\ row' = 0
    /\ happened' = happened \cup {"zombie"}
    /\ UNCHANGED <<others, saved, exch, cyc>>

\* The user changes the strategy's configuration.
Reconfigure ==
    /\ Interferes("reconfigured")
    /\ version' = version + 1
    /\ UNCHANGED <<kind, durable, exch, cyc, cycles>>

-----------------------------------------------------------------------------
Engine ==
    \/ GridBuy \/ GridSell \/ GridSkip \/ GridEnd
    \/ DcaTakeProfit \/ DcaHold \/ DcaWait \/ DcaBuy
    \/ RsiSync \/ RsiSyncFails \/ RsiTrade
    \/ NoPrice

Next ==
    \/ \E price \in Prices, rsi \in Rsi : BeginCycle(price, rsi)
    \/ Engine \/ Record \/ Abort
    \/ ForeignOpen \/ ForeignClose \/ Reconcile \/ Reconfigure

Spec == Init /\ [][Next]_vars

-----------------------------------------------------------------------------
(* Every variable stays within its type.                                    *)
TypeOK ==
    /\ kind \in Kinds
    /\ saved \in RuntimeState
    /\ {version, row, exch, cycles, foreign} \subseteq Nat
    /\ cyc \in Cycle
    /\ happened \subseteq Accidents

Free(accidents) == happened \cap accidents = {}

(* A DCA engine averages over and sells what its ledger row holds: cycles   *)
(* cut short, refused orders and lost answers leave both as they were.      *)
(* After orders that did not report their fill the two sizes may differ,    *)
(* but neither is without the other.  Exceptions: an error of an order      *)
(* after which the account's position was adopted, and the reconciliation   *)
(* job, move one of the two alone.                                          *)
DcaQuantityIsLedgers ==
    kind = "dca" /\ Free({"raised", "zombie"}) =>
        /\ saved.quantity = 0 <=> row = 0
        /\ Free({"unfilled"}) => saved.quantity = row

(* What the ledger shows for a grid agent was bought for levels that the    *)
(* engine still has to sell, however cycles are cut short and orders fail:  *)
(* as many as the units of the row, if every order reported its fill, and   *)
(* one at least.  Exceptions: an error of an order after which the          *)
(* account's position was adopted, and a changed configuration, which makes *)
(* the engine forget its levels.                                            *)
GridUnitsHaveLevels ==
    kind = "grid" /\ Free({"raised", "reconfigured"}) =>
        /\ row > 0 => saved.bought \ saved.sold # {}
        /\ Free({"unfilled"}) => row <= Cardinality(saved.bought \ saved.sold)

(* An RSI engine never holds two orders, although a cycle cut short forgets *)
(* the order it has placed, an answer may be lost and a sale may not have   *)
(* been filled: the next cycle asks the exchange first ("Reconcile          *)
(* has_position with actual exchange state", quant_engine.py).  Exceptions: *)
(* the question failed, or another opened the symbol.                       *)
RsiHoldsOneOrder ==
    kind = "rsi" /\ Free({"blind", "opened"}) => exch <= 1

(* What an engine's saved state says of its position is true, with the      *)
(* exceptions named above.                                                  *)
StateTellsPosition == DcaQuantityIsLedgers /\ GridUnitsHaveLevels /\ RsiHoldsOneOrder
=============================================================================
