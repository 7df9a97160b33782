------------------------------ MODULE DecisionCycle ------------------------------
(***************************************************************************)
(* The cycle of an AI agent, StrategyEngine.run_cycle: account and market  *)
(* data, one model or a debate of several, the risk controls, the orders,  *)
(* the decision record.                                                    *)
(*                                                                         *)
(* An order's way through claims and exchange is PositionLedger's; here it *)
(* fills, is refused, or raises.  Leverage and sizes are left out.         *)
(***************************************************************************)
EXTENDS Consensus, Functions

CONSTANTS
    Watchlist,        \* the strategy's symbols
    Answers,          \* what a model may answer, a set of Answer
    Debaters,         \* number of models of a debate
    MinParticipants,
    MinConfidence,
    MaxPositions,     \* default_max_positions
    MaxCycles         \* bound on the cycles of a behaviour

Decided == UNION {Range(a.decisions) : a \in Answers}
Symbols == Watchlist \cup {d.symbol : d \in Decided}

CycleParameters ==
    /\ \A a \in Answers : a \in [overall : Int, decisions : Seq(Decisions(Symbols))]
    /\ Debaters \in Nat /\ Debaters >= 2
    /\ MinParticipants \in 2 .. Debaters
    /\ {MinConfidence, MaxPositions, MaxCycles} \subseteq Nat

VARIABLES
    mode,       \* "single" or the consensus mode of the debate, fixed
    enhanced,   \* market contexts are used, fixed
    phase,      \* idle, asking, deciding, executing, saving
    priced,     \* symbols with a market price in this cycle's contexts
    answers,    \* the models' answers, empty while asking
    plan,       \* validated decisions not yet executed
    rows,       \* the agent's open rows: side of each symbol
    committed,  \* the rows at the last commit
    results,    \* execution_results of this cycle
    orders,     \* the orders of this cycle that were filled, whoever knows
    raised,     \* those of them whose call raised
    record,     \* what the cycle's decision record says
    cycles

vars == <<mode, enhanced, phase, priced, answers, plan, rows, committed, results, orders,
          raised, record, cycles>>
fixed == <<mode, enhanced>>

Sides  == {"long", "short"}
None   == "none"
NoRecord == [saved |-> FALSE, executed |-> FALSE, results |-> <<>>]
Pending  == Answer(-1, <<>>)

Models == IF mode = "single" THEN 1 .. 1 ELSE 1 .. Debaters

Init ==
    /\ mode \in Modes \cup {"single"}
    /\ enhanced \in BOOLEAN
    /\ phase = "idle" /\ priced = {}
    /\ answers = <<>> /\ plan = <<>>
    /\ rows = [s \in Symbols |-> None] /\ committed = rows
    /\ results = <<>> /\ orders = {} /\ raised = {}
    /\ record = NoRecord /\ cycles = 0

Save(executed, kept) ==
    /\ record' = [saved |-> TRUE, executed |-> executed, results |-> kept]
    /\ committed' = rows

-----------------------------------------------------------------------------
(* Account and market data.                                                 *)

\* A symbol whose data could not be had is priced 0 and does not count as known;
\* without market contexts the parser is given no prices at all.
PricedBy(known) == IF enhanced THEN known ELSE {}

Begin ==
    /\ phase = "idle" /\ cycles < MaxCycles
    /\ cycles' = cycles + 1
    /\ phase' = "asking"
    /\ \E known \in SUBSET Watchlist : priced' = PricedBy(known)
    /\ answers' = [i \in Models |-> Pending]
    /\ results' = <<>> /\ orders' = {} /\ raised' = {} /\ record' = NoRecord
    /\ UNCHANGED <<fixed, plan, rows, committed>>

\* Equity at or below zero ends the cycle with a record of its own.
OutOfEquity ==
    /\ phase = "asking" /\ \A i \in Models : answers[i] = Pending
    /\ phase' = "idle" /\ answers' = <<>>
    /\ Save(FALSE, <<>>)
    /\ UNCHANGED <<fixed, priced, plan, rows, results, orders, raised, cycles>>

\* The account's state cannot be read: the record is never written either, because
\* its arguments are unbound.
AccountUnknown ==
    /\ phase = "asking" /\ \A i \in Models : answers[i] = Pending
    /\ phase' = "idle" /\ answers' = <<>>
    /\ UNCHANGED <<fixed, priced, plan, rows, committed, results, orders, raised, record, cycles>>

-----------------------------------------------------------------------------
(* The models answer, in parallel in a debate, and the answers become       *)
(* decisions.                                                               *)

AnswerArrives(i) ==
    /\ phase = "asking" /\ answers[i] = Pending
    /\ \E a \in Answers \cup {Failed} : answers' = [answers EXCEPT ![i] = a]
    /\ phase' = IF \A j \in Models \ {i} : answers[j] # Pending THEN "deciding" ELSE phase
    /\ UNCHANGED <<fixed, priced, plan, rows, committed, results, orders, raised, record, cycles>>

\* _ensure_sl_tp: without stops, an entry price or a market price gives them.
WithStops(d, known) ==
    IF d.action \in OpenActions /\ ~d.stops /\ (d.entry \/ d.symbol \in known)
    THEN [d EXCEPT !.stops = TRUE, !.entry = TRUE] ELSE d

Validated(decisions, known) == [k \in DOMAIN decisions |-> WithStops(decisions[k], known)]

Participants == Succeeded(answers)
Enough == Len(Participants) >= MinParticipants

\* Wrong variant of Final: the consensus of a debate goes without the second validation.
Final_NotValidated ==
    IF mode = "single" THEN Validated(answers[1].decisions, priced)
    ELSE IF ~Enough THEN <<>>
    ELSE Consensus(mode, [i \in DOMAIN Participants |->
             [Participants[i] EXCEPT !.decisions = Validated(@, {})]])

\* The answer of a single model is parsed with the market's prices.  In a debate each
\* answer is parsed without prices, and the consensus is validated again with them.
Final ==
    IF mode = "single" THEN Validated(answers[1].decisions, priced)
    ELSE IF ~Enough THEN <<>>
    ELSE Validated(Consensus(mode, [i \in DOMAIN Participants |->
             [Participants[i] EXCEPT !.decisions = Validated(@, {})]]), priced)

Decide ==
    /\ phase = "deciding"
    /\ plan' = Final
    /\ phase' = "executing"
    /\ UNCHANGED <<fixed, priced, answers, rows, committed, results, orders, raised, record, cycles>>

-----------------------------------------------------------------------------
(* The orders: closes first, then opens, then the rest.                     *)

Class(d) == IF d.action \in CloseActions THEN 0 ELSE IF d.action \in OpenActions THEN 1 ELSE 2
SideOf(d) == IF d.action = "open_long" THEN "long" ELSE "short"

NextUp == {k \in DOMAIN plan : \A j \in DOMAIN plan : Class(plan[k]) <= Class(plan[j])}

Result(d, executed) == [symbol |-> d.symbol, action |-> d.action, executed |-> executed]
Report(k, executed) ==
    /\ results' = Append(results, Result(plan[k], executed))
    /\ plan' = RemoveAt(plan, k)
    /\ UNCHANGED <<fixed, phase, priced, answers, committed, record, cycles>>

OpenRows == {s \in Symbols : rows[s] # None}

Willing(d) ==
    /\ d.symbol \in Watchlist
    /\ d.action \notin Idle
    /\ d.confidence >= MinConfidence

\* Wrong variant of MayOpen: the rows are counted when the cycle starts.
MayOpen_AtStart == Cardinality({s \in Symbols : committed[s] # None}) < MaxPositions

\* _check_can_open_position counts the agent's rows anew for every decision.  Margin
\* and drawdown can refuse as well, and a size below the minimum: see Skip.
MayOpen == Cardinality(OpenRows) < MaxPositions

Skip(k) ==
    /\ phase = "executing" /\ k \in NextUp
    /\ ~Willing(plan[k]) \/ plan[k].action \in OpenActions
    /\ Report(k, FALSE)
    /\ UNCHANGED <<rows, orders, raised>>

Ready(k, actions) ==
    /\ phase = "executing" /\ k \in NextUp
    /\ Willing(plan[k]) /\ plan[k].action \in actions

\* A symbol the agent already holds keeps its row whatever the new order was.
Rowed(d) == IF rows[d.symbol] = None THEN [rows EXCEPT ![d.symbol] = SideOf(d)] ELSE rows

Open(k) ==
    /\ Ready(k, OpenActions) /\ MayOpen
    /\ orders' = orders \cup {plan[k]}
    /\ rows' = Rowed(plan[k])
    /\ Report(k, TRUE)
    /\ UNCHANGED raised

\* The call raises after the order was filled; the position is found on the exchange
\* and the row confirmed, and the exception goes on: not executed, says the result.
OpenRaises(k) ==
    /\ Ready(k, OpenActions) /\ MayOpen
    /\ orders' = orders \cup {plan[k]}
    /\ rows' = Rowed(plan[k])
    /\ raised' = raised \cup {plan[k]}
    /\ Report(k, FALSE)

\* Wrong variant of Close: the result stays as it was prepared, not executed.
Close_Unreported(k) ==
    /\ Ready(k, CloseActions)
    /\ orders' = orders \cup {plan[k]}
    /\ rows' = [rows EXCEPT ![plan[k].symbol] = None]
    /\ Report(k, FALSE)
    /\ UNCHANGED raised

\* Whatever side the action names, the symbol's position is closed, and closing a
\* symbol that has none succeeds too.
Close(k) ==
    /\ Ready(k, CloseActions)
    /\ orders' = orders \cup {plan[k]}
    /\ rows' = [rows EXCEPT ![plan[k].symbol] = None]
    /\ Report(k, TRUE)
    /\ UNCHANGED raised

Refused(k) ==
    /\ Ready(k, OpenActions \cup CloseActions)
    /\ plan[k].action \in OpenActions => MayOpen
    /\ Report(k, FALSE)
    /\ UNCHANGED <<rows, orders, raised>>

\* The close is filled and its answer lost: the row stays.
CloseRaises(k) ==
    /\ Ready(k, CloseActions)
    /\ orders' = orders \cup {plan[k]}
    /\ raised' = raised \cup {plan[k]}
    /\ Report(k, FALSE)
    /\ UNCHANGED rows

-----------------------------------------------------------------------------
(* The record.                                                              *)

Done ==
    /\ phase = "executing" /\ plan = <<>>
    /\ phase' = "saving"
    /\ UNCHANGED <<fixed, priced, answers, plan, rows, committed, results, orders, raised, record, cycles>>

\* Saving the record commits the rows with it.
SaveRecord ==
    /\ phase = "saving"
    /\ Save(\E k \in DOMAIN results : results[k].executed, results)
    /\ phase' = "idle" /\ answers' = <<>>
    /\ UNCHANGED <<fixed, priced, plan, rows, results, orders, raised, cycles>>

\* A statement fails while the cycle runs: its exception is swallowed where it is
\* raised, the transaction is lost, and so is the record.
DatabaseFails ==
    /\ phase \in {"executing", "saving"}
    /\ rows' = committed
    /\ phase' = "idle" /\ answers' = <<>> /\ plan' = <<>>
    /\ UNCHANGED <<fixed, priced, committed, results, orders, raised, record, cycles>>

-----------------------------------------------------------------------------
Execute == \E k \in DOMAIN plan :
    Skip(k) \/ Open(k) \/ OpenRaises(k) \/ Close(k) \/ Refused(k) \/ CloseRaises(k)

Next ==
    \/ Begin \/ OutOfEquity \/ AccountUnknown
    \/ \E i \in Models : AnswerArrives(i)
    \/ Decide \/ Execute \/ Done \/ SaveRecord \/ DatabaseFails

Spec == Init /\ [][Next]_vars

-----------------------------------------------------------------------------
Results == [symbol : Symbols, action : Actions, executed : BOOLEAN]

TypeOK ==
    /\ mode \in Modes \cup {"single"} /\ enhanced \in BOOLEAN
    /\ phase \in {"idle", "asking", "deciding", "executing", "saving"}
    /\ priced \subseteq Watchlist
    /\ \A i \in DOMAIN answers : answers[i] \in Answers \cup {Failed, Pending}
    /\ {rows, committed} \subseteq [Symbols -> Sides \cup {None}]
    /\ \A k \in DOMAIN results : results[k] \in Results
    /\ \A o \in orders : o.symbol \in Watchlist /\ o.action \notin Idle
    /\ cycles \in 0 .. MaxCycles

(* A cycle never takes the agent beyond the number of positions it may hold, *)
(* however many opens one answer asks for (_check_can_open_position).        *)
WithinMaxPositions == Cardinality(OpenRows) <= MaxPositions

(* Every open order of a symbol that has a market price in this cycle is     *)
(* sent with stops, whichever of the engine's two ways it came.              *)
OpensCarryStops ==
    \A o \in orders : o.action \in OpenActions /\ o.symbol \in priced => o.stops

(* While the orders of a debate go out, each has more participants behind it *)
(* than against it in a majority vote, and all of them in a unanimous one,   *)
(* provided no participant named a symbol and action twice: ballots are      *)
(* counted, not the models that cast them.                                   *)
Backers(s, act) ==
    {i \in DOMAIN Participants :
        \E k \in DOMAIN Participants[i].decisions :
            Participants[i].decisions[k].symbol = s /\ Participants[i].decisions[k].action = act}
OneBallotEach ==
    \A i \in DOMAIN Participants : IsInjective([k \in DOMAIN Participants[i].decisions |->
        <<Participants[i].decisions[k].symbol, Participants[i].decisions[k].action>>])

OrdersAreBacked ==
    phase = "executing" /\ OneBallotEach =>
        \A o \in orders :
            /\ mode = "majority_vote" =>
                  \A act \in Actions \ {o.action} :
                      Cardinality(Backers(o.symbol, act)) < Cardinality(Backers(o.symbol, o.action))
            /\ mode = "unanimous" => Backers(o.symbol, o.action) = DOMAIN Participants
            /\ mode # "single" => Enough

(* What a cycle sends to the exchange keeps these three rules.               *)
OrdersFollowRules == WithinMaxPositions /\ OpensCarryStops /\ OrdersAreBacked

(* A saved record explains the agent's rows: a row that the cycle opened or  *)
(* closed has an executed result, unless the order's call raised after it    *)
(* was filled.                                                               *)
Known(s) == \E k \in DOMAIN record.results : record.results[k].executed /\ record.results[k].symbol = s

RecordExplains ==
    SaveRecord =>
        /\ IF record'.executed THEN orders # {} ELSE orders = raised
        /\ \A s \in Symbols : rows[s] # committed[s] =>
              Known(s)' \/ \E o \in raised : o.symbol = s
=============================================================================
