----------------------------- MODULE OrderTracking -----------------------------
(***************************************************************************)
(* The order manager (services/order_manager.py): it submits an order,     *)
(* polls the exchange in a task per order, calls back when the status      *)
(* changes, cancels, and keeps a copy of every order in Redis for 24 hours.*)
(*                                                                         *)
(* Everything runs in one event loop; a poll or a cancellation is a request*)
(* and, later, its answer.  "Answers" says whether the trader implements   *)
(* get_order: the interface asks for it (traders/base.py), while the       *)
(* traders of this repository inherit the default, which knows no order,   *)
(* and then every task ends with its first poll.                           *)
(*                                                                         *)
(* A failed submission has no order id and is never tracked, and an        *)
(* exchange does not report "failed", the only status that is retried: so  *)
(* no order is ever submitted again, and retrying has no action here.      *)
(***************************************************************************)
EXTENDS Naturals, FiniteSets

CONSTANTS
    Orders,     \* bound: the order ids the exchange hands out
    Callers,    \* the tasks that cancel orders
    None,
    Size,       \* contracts in an order
    Answers,    \* does get_order know orders?
    MaxRestarts \* bound: restarts of the process

VARIABLES
    exchange,   \* the exchange's own book
    local,      \* the Order objects in self._orders
    saved,      \* the copies in Redis
    task,       \* the tracking task of each order
    call,       \* the cancellation each caller is waiting for
    ended,      \* how often the end of the order has been called back
    restarts

trackingVars == <<exchange, local, saved, task, call, ended, restarts>>

-----------------------------------------------------------------------------
OpenStatuses  == {"submitted", "open", "partially_filled"}
FinalStatuses == {"filled", "cancelled", "rejected"}
Order == [status : OpenStatuses \cup FinalStatuses, filled : 0 .. Size]

TrackingParameters ==
    /\ None \notin Orders \cup Callers \cup Order
    /\ Size \in Nat \ {0}
    /\ Answers \in BOOLEAN
    /\ MaxRestarts \in Nat

IsOpen(order) == order.status \in OpenStatuses

NoTask == [step |-> "none", last |-> "submitted", seen |-> None]

Init ==
    /\ exchange = [o \in Orders |-> None]
    /\ local = [o \in Orders |-> None]
    /\ saved = [o \in Orders |-> None]
    /\ task = [o \in Orders |-> NoTask]
    /\ call = [c \in Callers |-> None]
    /\ ended = [o \in Orders |-> 0]
    /\ restarts = 0

-----------------------------------------------------------------------------
(* The exchange                                                            *)

StatusAt(filled) ==
    IF filled = Size THEN "filled" ELSE IF filled > 0 THEN "partially_filled" ELSE "open"

Fill(o) ==
    /\ exchange[o] # None /\ IsOpen(exchange[o])
    /\ LET n == exchange[o].filled + 1
       IN  exchange' = [exchange EXCEPT ![o] = [status |-> StatusAt(n), filled |-> n]]
    /\ UNCHANGED <<local, saved, task, call, ended, restarts>>

\* The exchange ends an order itself.
Drop(o) ==
    /\ exchange[o] # None /\ IsOpen(exchange[o])
    /\ \E s \in {"cancelled", "rejected"} :
          exchange' = [exchange EXCEPT ![o].status = s]
    /\ UNCHANGED <<local, saved, task, call, ended, restarts>>

-----------------------------------------------------------------------------
(* Placing                                                                 *)

\* _submit_order reads the fill that came with the answer.
Submitted(filled) ==
    [status |-> IF filled = 0 THEN "submitted" ELSE StatusAt(filled), filled |-> filled]

\* place_order_with_tracking.  If Redis refuses the copy the caller gets an
\* exception: the order is at the exchange, and neither cached nor tracked.
Place(o) ==
    /\ exchange[o] = None
    /\ \E filled \in 0 .. Size, redis \in BOOLEAN :
        LET order == Submitted(filled)
        IN  /\ exchange' = [exchange EXCEPT ![o] = [status |-> StatusAt(filled), filled |-> filled]]
            /\ local' = [local EXCEPT ![o] = IF redis THEN order ELSE None]
            /\ saved' = [saved EXCEPT ![o] = IF redis THEN order ELSE None]
            /\ task' = [task EXCEPT ![o] =
                  IF redis /\ IsOpen(order)
                  THEN [step |-> "waiting", last |-> order.status, seen |-> None] ELSE NoTask]
    /\ UNCHANGED <<call, ended, restarts>>

-----------------------------------------------------------------------------
(* Tracking                                                                *)

\* After the pause the task asks the exchange; its loop ends with the order.
PollAsks(o) ==
    /\ task[o].step = "waiting"
    /\ task' = [task EXCEPT ![o] =
          IF ~IsOpen(local[o]) THEN NoTask
          ELSE [@ EXCEPT !.step = "asked", !.seen = exchange[o]]]
    /\ UNCHANGED <<exchange, local, saved, call, ended, restarts>>

\* The request fails and is repeated.
PollFails(o) ==
    /\ task[o].step = "asked"
    /\ task' = [task EXCEPT ![o].step = "waiting", ![o].seen = None]
    /\ UNCHANGED <<exchange, local, saved, call, ended, restarts>>

\* The exchange does not know the order: nobody tracks it any more.
PollFindsNothing(o) ==
    /\ task[o].step = "asked"
    /\ task' = [task EXCEPT ![o] = NoTask]
    /\ UNCHANGED <<exchange, local, saved, call, ended, restarts>>

\* The object takes over what the exchange said, and a new status is called back
\* unless Redis refuses the copy: then the loop sees the new status already.
PollAnswers(o) ==
    /\ task[o].step = "asked"
    /\ Answers
    /\ LET order == task[o].seen
           news == order.status # task[o].last
       IN  /\ local' = [local EXCEPT ![o] = order]
           /\ \/ /\ saved' = [saved EXCEPT ![o] = order]
                 /\ task' = [task EXCEPT ![o] =
                       IF IsOpen(order)
                       THEN [step |-> "waiting", last |-> order.status, seen |-> None]
                       ELSE NoTask]
                 /\ ended' = IF news /\ ~IsOpen(order)
                             THEN [ended EXCEPT ![o] = @ + 1] ELSE ended
              \/ /\ task' = [task EXCEPT ![o] = IF IsOpen(order)
                                                THEN [@ EXCEPT !.step = "waiting", !.seen = None]
                                                ELSE NoTask]
                 /\ UNCHANGED <<saved, ended>>
    /\ UNCHANGED <<exchange, call, restarts>>

-----------------------------------------------------------------------------
(* Cancelling                                                              *)

\* get_order: the object of this process, or one made from the copy.
Known(o) == IF local[o] # None THEN local[o] ELSE saved[o]

\* Wrong variant of StopTracking: the task of the order runs on.
StopTracking_Not(cancelled) == task' = task

StopTracking(cancelled) ==
    task' = [o \in Orders |-> IF o \in cancelled THEN NoTask ELSE task[o]]

\* cancel_order: tracking stops before the exchange has agreed.
CancelOrder(c, o) ==
    /\ call[c] = None
    /\ Known(o) # None
    /\ IsOpen(Known(o))
    /\ local' = [local EXCEPT ![o] = Known(o)]
    /\ StopTracking({o})
    /\ call' = [call EXCEPT ![c] = o]
    /\ UNCHANGED <<exchange, saved, ended, restarts>>

\* If the exchange refuses, the object stays open, and nobody tracks it.  If Redis
\* refuses the copy, nobody is called back.
CancelAnswered(c) ==
    /\ call[c] # None
    /\ LET o == call[c]
       IN  IF IsOpen(exchange[o])
           THEN /\ exchange' = [exchange EXCEPT ![o].status = "cancelled"]
                /\ local' = [local EXCEPT ![o].status = "cancelled"]
                /\ \/ /\ saved' = [saved EXCEPT ![o] = local'[o]]
                      /\ ended' = [ended EXCEPT ![o] = @ + 1]
                   \/ UNCHANGED <<saved, ended>>
           ELSE UNCHANGED <<exchange, local, saved, ended>>
    /\ call' = [call EXCEPT ![c] = None]
    /\ UNCHANGED <<task, restarts>>

\* The request to the exchange is lost: the trader's cancel_order answers FALSE.
CancelLost(c) ==
    /\ call[c] # None
    /\ call' = [call EXCEPT ![c] = None]
    /\ UNCHANGED <<exchange, local, saved, task, ended, restarts>>

\* cancel_all_orders leaves the objects as they are.
CancelAllOrders ==
    /\ exchange' = [o \in Orders |->
          IF exchange[o] # None /\ IsOpen(exchange[o])
          THEN [exchange[o] EXCEPT !.status = "cancelled"] ELSE exchange[o]]
    /\ StopTracking(Orders)
    /\ UNCHANGED <<local, saved, call, ended, restarts>>

\* close, or the process restarts: nothing resumes the tracking.
Restart ==
    /\ restarts < MaxRestarts
    /\ restarts' = restarts + 1
    /\ local' = [o \in Orders |-> None]
    /\ task' = [o \in Orders |-> NoTask]
    /\ call' = [c \in Callers |-> None]
    /\ UNCHANGED <<exchange, saved, ended>>

-----------------------------------------------------------------------------
Next ==
    \/ \E o \in Orders : \/ Fill(o) \/ Drop(o) \/ Place(o)
                         \/ PollAsks(o) \/ PollFails(o) \/ PollFindsNothing(o) \/ PollAnswers(o)
                         \/ \E c \in Callers : CancelOrder(c, o)
    \/ \E c \in Callers : CancelAnswered(c) \/ CancelLost(c)
    \/ CancelAllOrders
    \/ Restart

Spec == Init /\ [][Next]_trackingVars

-----------------------------------------------------------------------------
TypeOK ==
    /\ exchange \in [Orders -> Order \cup {None}]
    /\ local \in [Orders -> Order \cup {None}]
    /\ saved \in [Orders -> Order \cup {None}]
    /\ task \in [Orders -> [step : {"none", "waiting", "asked"}, last : OpenStatuses,
                           seen : Order \cup {None}]]
    /\ call \in [Callers -> Orders \cup {None}]
    /\ ended \in [Orders -> Nat]
    /\ restarts \in 0 .. MaxRestarts

\* The end of an order is called back at most once, and what the manager takes for
\* an order's end is its end at the exchange: no answer that was under way when the
\* order was cancelled, and no second cancellation, reopens it or ends it again.
EndIsFinal ==
    \A o \in Orders :
        /\ ended[o] <= 1
        /\ local[o] # None /\ ~IsOpen(local[o]) => local[o].status = exchange[o].status
        /\ ended[o] = 1 /\ local[o] # None => ~IsOpen(local[o])
=============================================================================
