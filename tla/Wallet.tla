-------------------------------- MODULE Wallet --------------------------------
(***************************************************************************)
(* User wallets and recharge orders (wallet_service.py, the wallet and     *)
(* recharge repositories, the routes recharge.py and wallets.py).          *)
(*                                                                         *)
(* A request is one database session: it reads rows into objects, changes  *)
(* the objects, flushes the changes as UPDATEs that set absolute values,   *)
(* and commits.  A read takes no lock and sees the last committed version; *)
(* an UPDATE locks its row until the session ends.  An object the session  *)
(* holds already is not read again, so the version that update_balance     *)
(* compares is the one its caller took from the same object: the check is  *)
(* always passed, and there is no step for its failure.                    *)
(***************************************************************************)
EXTENDS Integers

CONSTANTS
    Users, Orders, Sessions,
    None,         \* "no value"
    Amounts,      \* amounts of an order or of a request
    Kinds,        \* the kinds of request that arrive
    Concurrent,   \* may two requests overlap?
    Crashes,      \* may a request be cut short?
    MaxRequests   \* bound on the requests of a behaviour

OrderKinds  == {"mark_paid", "confirm", "cancel"}
CreditKinds == {"gift", "refund", "adjust_down"}
WalletKinds == CreditKinds \cup {"consume", "view"}

ASSUME WalletNone    == None \notin Users \cup Orders \cup Sessions /\ None \notin Nat
ASSUME WalletAmounts == Amounts \subseteq Nat \ {0}
ASSUME WalletParameters ==
    /\ Kinds \subseteq OrderKinds \cup WalletKinds
    /\ Concurrent \in BOOLEAN /\ Crashes \in BOOLEAN /\ MaxRequests \in Nat

VARIABLES
    balance,   \* committed wallets.balance, None for a user without a wallet
    posted,    \* signed sum of the user's committed wallet_transactions
    order,     \* committed recharge_orders rows
    credits,   \* committed recharge transactions that refer to the order
    walletOf,  \* the session that wrote (and so locks) the user's wallet row
    orderOf,   \* the session that wrote (and so locks) the order row
    ses,       \* local state of each session
    requests   \* requests served so far

vars == <<balance, posted, order, credits, walletOf, orderOf, ses, requests>>

-----------------------------------------------------------------------------
OrderStatuses == {"absent", "pending", "paid", "completed", "failed"}

Order == [status : OrderStatuses, user : Users \cup {None}, amount : Nat]

AbsentOrder == [status |-> "absent", user |-> None, amount |-> 0]

Pcs == {"idle", "mark", "process", "check", "wallet", "create", "update", "commit"}

\* loaded is the order's status when the session read it, status the one it
\* has written; seen is the balance of the session's wallet object.
Session == [pc : Pcs, kind : OrderKinds \cup WalletKinds \cup {None},
            user : Users \cup {None}, order : Orders \cup {None}, amount : Nat,
            loaded : OrderStatuses, status : OrderStatuses, seen : Nat]

Fresh(pc, kind, u, o, n, l) ==
    [pc |-> pc, kind |-> kind, user |-> u, order |-> o, amount |-> n,
     loaded |-> l, status |-> "absent", seen |-> 0]

IdleSession == Fresh("idle", None, None, None, 0, "absent")

At(s, label)   == ses[s].pc = label
Goto(s, label) == ses' = [ses EXCEPT ![s].pc = label]

Init ==
    /\ balance  = [u \in Users |-> None]
    /\ posted   = [u \in Users |-> 0]
    /\ order    = [o \in Orders |-> AbsentOrder]
    /\ credits  = [o \in Orders |-> 0]
    /\ walletOf = [u \in Users |-> None]
    /\ orderOf  = [o \in Orders |-> None]
    /\ ses      = [s \in Sessions |-> IdleSession]
    /\ requests = 0

committed == <<balance, posted, order, credits>>

\* The session ends: its row locks go, its uncommitted changes with it.
Release(s) ==
    /\ walletOf' = [u \in Users |-> IF walletOf[u] = s THEN None ELSE walletOf[u]]
    /\ orderOf'  = [o \in Orders |-> IF orderOf[o] = s THEN None ELSE orderOf[o]]
    /\ ses'      = [ses EXCEPT ![s] = IdleSession]

\* Wrong variant of Rollback: the session is dropped with its locks.
Rollback_KeepsLocks(s) ==
    /\ ses' = [ses EXCEPT ![s] = IdleSession]
    /\ UNCHANGED <<committed, walletOf, orderOf, requests>>

Rollback(s) == Release(s) /\ UNCHANGED <<committed, requests>>

\* A request arrives at a free session.
Accept(s, kind) ==
    /\ kind \in Kinds
    /\ At(s, "idle")
    /\ Concurrent \/ \A t \in Sessions : At(t, "idle")
    /\ requests < MaxRequests
    /\ requests' = requests + 1

-----------------------------------------------------------------------------
(* Recharge orders.                                                         *)

\* POST /recharge/orders, a transaction of its own on a new row.
CreateOrder(o, u, n) ==
    /\ order[o] = AbsentOrder
    /\ order' = [order EXCEPT ![o] = [status |-> "pending", user |-> u, amount |-> n]]
    /\ UNCHANGED <<balance, posted, credits, walletOf, orderOf, ses, requests>>

Cancellable(v) == v.status \in {"pending", "paid"}

\* The request reads its order; no order, or one that cannot be cancelled, is
\* answered with an error.
LoadOrder(s, kind, o) ==
    /\ kind \in OrderKinds
    /\ Accept(s, kind)
    /\ order[o].status # "absent"
    /\ kind = "cancel" => Cancellable(order[o])
    /\ ses' = [ses EXCEPT ![s] =
          Fresh("mark", kind, order[o].user, o, order[o].amount, order[o].status)]
    /\ UNCHANGED <<committed, walletOf, orderOf>>

Target(kind) == IF kind = "cancel" THEN "failed" ELSE "paid"

\* update_status: the UPDATE sets the status only where it differs from the one
\* that was read; the object is then refreshed from the locked row.
MarkOrder(s) ==
    /\ At(s, "mark")
    /\ orderOf[ses[s].order] = None
    /\ orderOf' = [orderOf EXCEPT ![ses[s].order] = s]
    /\ LET target == Target(ses[s].kind) IN
       ses' = [ses EXCEPT
          ![s].pc = IF ses[s].kind = "confirm" THEN "process" ELSE "commit",
          ![s].status = IF ses[s].loaded = target THEN order[ses[s].order].status
                                                  ELSE target]
    /\ UNCHANGED <<committed, walletOf, requests>>

\* process_recharge goes on with a paid order and refuses any other.
ProcessRecharge(s) ==
    /\ At(s, "process")
    /\ ses[s].status = "paid"
    /\ Goto(s, "wallet")
    /\ UNCHANGED <<committed, walletOf, orderOf, requests>>

RefuseRecharge(s) ==
    /\ At(s, "process")
    /\ ses[s].status # "paid"
    /\ Rollback(s)

-----------------------------------------------------------------------------
(* Balances.                                                                *)

BeginWalletRequest(s, kind, u, n) ==
    /\ kind \in WalletKinds
    /\ Accept(s, kind)
    /\ ses' = [ses EXCEPT ![s] =
          Fresh(IF kind = "adjust_down" THEN "check" ELSE "wallet",
                kind, u, None, n, "absent")]
    /\ UNCHANGED <<committed, walletOf, orderOf>>

\* adjust_balance: a negative adjustment needs that much balance (a wallet made
\* for the question has none, and is rolled back).
Covers(b, n) == b # None /\ b >= n

CheckAdjustment(s) ==
    /\ At(s, "check")
    /\ IF Covers(balance[ses[s].user], ses[s].amount)
       THEN Goto(s, "wallet") /\ UNCHANGED <<committed, walletOf, orderOf, requests>>
       ELSE Rollback(s)

\* get_or_create: the wallet is read, ...
ReadWallet(s) ==
    /\ At(s, "wallet")
    /\ balance[ses[s].user] # None
    /\ ses' = [ses EXCEPT ![s].seen = balance[ses[s].user],
                          ![s].pc = IF ses[s].kind = "view" THEN "commit" ELSE "update"]
    /\ UNCHANGED <<committed, walletOf, orderOf, requests>>

\* ... or missed, and inserted, ...
MissWallet(s) ==
    /\ At(s, "wallet")
    /\ balance[ses[s].user] = None
    /\ Goto(s, "create")
    /\ UNCHANGED <<committed, walletOf, orderOf, requests>>

CreateWallet(s) ==
    /\ At(s, "create")
    /\ walletOf[ses[s].user] = None /\ balance[ses[s].user] = None
    /\ walletOf' = [walletOf EXCEPT ![ses[s].user] = s]
    /\ ses' = [ses EXCEPT ![s].pc = IF ses[s].kind = "view" THEN "commit" ELSE "update"]
    /\ UNCHANGED <<committed, orderOf, requests>>

\* ... unless another session inserted it meanwhile: user_id is unique.
CreateConflict(s) ==
    /\ At(s, "create")
    /\ walletOf[ses[s].user] = None /\ balance[ses[s].user] # None
    /\ Rollback(s)

\* Wrong variant of Affordable: consumption is not checked against the balance.
Affordable_Always(v) == TRUE

Affordable(v) == v.kind = "consume" => v.seen >= v.amount

\* InsufficientBalanceError.
RefuseConsumption(s) ==
    /\ At(s, "update")
    /\ ~Affordable(ses[s])
    /\ Rollback(s)

\* update_balance: SET balance = <the object's new value>, under the row lock.
UpdateBalance(s) ==
    /\ At(s, "update")
    /\ Affordable(ses[s])
    /\ walletOf[ses[s].user] \in {None, s}
    /\ walletOf' = [walletOf EXCEPT ![ses[s].user] = s]
    /\ Goto(s, "commit")
    /\ UNCHANGED <<committed, orderOf, requests>>

\* The balance_delta of the request.  A negative adjustment is a refund of its
\* magnitude.
Delta(v) == CASE v.kind \in CreditKinds \cup {"confirm"} -> v.amount
              [] v.kind = "consume" -> -v.amount
              [] OTHER -> 0

\* The signed amount of its transaction, by type: recharge, gift, refund or
\* consume.
Posting(v) == IF v.kind = "consume" THEN -v.amount
              ELSE IF v.kind = "view" THEN 0 ELSE v.amount

\* Wrong variant of FinalStatus: marking an order paid completes it.
FinalStatus_MarkCompletes(v) ==
    IF v.kind \in {"confirm", "mark_paid"} THEN "completed" ELSE v.status

\* process_recharge ends with mark_completed.
FinalStatus(v) == IF v.kind = "confirm" THEN "completed" ELSE v.status

\* create_transaction, mark_completed and COMMIT.
CommitRequest(s) ==
    /\ At(s, "commit")
    /\ LET v == ses[s] IN
       /\ balance' = [u \in Users |-> IF walletOf[u] = s THEN v.seen + Delta(v)
                                                         ELSE balance[u]]
       /\ posted'  = [u \in Users |-> IF walletOf[u] = s THEN posted[u] + Posting(v)
                                                         ELSE posted[u]]
       /\ order'   = [o \in Orders |-> IF orderOf[o] = s
                                       THEN [order[o] EXCEPT !.status = FinalStatus(v)]
                                       ELSE order[o]]
       /\ credits' = [o \in Orders |-> IF orderOf[o] = s /\ v.kind = "confirm"
                                       THEN credits[o] + 1 ELSE credits[o]]
    /\ Release(s)
    /\ UNCHANGED requests

\* The client goes away or the process dies: get_db rolls back.
Abort(s) ==
    /\ Crashes
    /\ ~At(s, "idle")
    /\ Rollback(s)

-----------------------------------------------------------------------------
OrderRequest(s) ==
    \/ \E kind \in OrderKinds, o \in Orders : LoadOrder(s, kind, o)
    \/ MarkOrder(s) \/ ProcessRecharge(s) \/ RefuseRecharge(s)

WalletRequest(s) ==
    \/ \E kind \in WalletKinds, u \in Users, n \in Amounts : BeginWalletRequest(s, kind, u, n)
    \/ CheckAdjustment(s)
    \/ ReadWallet(s) \/ MissWallet(s) \/ CreateWallet(s) \/ CreateConflict(s)
    \/ RefuseConsumption(s) \/ UpdateBalance(s)

Serve(s) == OrderRequest(s) \/ WalletRequest(s) \/ CommitRequest(s)

Next ==
    \/ \E s \in Sessions : Serve(s) \/ Abort(s)
    \/ \E o \in Orders, u \in Users, n \in Amounts : CreateOrder(o, u, n)

Spec == Init /\ [][Next]_vars

\* A request that has begun goes on, though it may be cut short, and row locks
\* are granted in turn.
FairSpec == Spec /\ \A s \in Sessions : SF_vars(Serve(s) /\ ~At(s, "idle"))

-----------------------------------------------------------------------------
(* Every variable stays within its type.  In particular no wallet's balance *)
(* and no balance a session has read is ever negative: although two         *)
(* consumptions may both pass the check of consume() on one balance, each   *)
(* writes the balance it has read less its own amount.                      *)
TypeOK ==
    /\ balance \in [Users -> Nat \cup {None}]
    /\ posted \in [Users -> Int]
    /\ order \in [Orders -> Order]
    /\ credits \in [Orders -> Nat]
    /\ walletOf \in [Users -> Sessions \cup {None}]
    /\ orderOf \in [Orders -> Sessions \cup {None}]
    /\ ses \in [Sessions -> Session]
    /\ requests \in Nat

(* The credit of an order and its completion are one commit: a completed    *)
(* order has its recharge transaction, a pending one has none, whatever     *)
(* confirmations, cancellations and crashes overlap.                        *)
StatusTellsCredit ==
    \A o \in Orders :
        /\ order[o].status = "completed" => credits[o] > 0
        /\ order[o].status \in {"absent", "pending"} => credits[o] = 0

BalanceOf(u) == IF balance[u] = None THEN 0 ELSE balance[u]

(* A wallet's balance is the sum of its transactions, however requests      *)
(* overlap ("Uses optimistic locking (version) for concurrent updates",     *)
(* models.py).  The code keeps this only where they do not: two sessions    *)
(* that have read the same balance both write what they make of it.         *)
BalanceMatchesTransactions == \A u \in Users : posted[u] = BalanceOf(u)

(* Every request is answered: sessions that wait for each other's rows      *)
(* never wait in a circle, orders being locked before wallets.              *)
RequestsEnd == \A s \in Sessions : ~At(s, "idle") ~> At(s, "idle")
=============================================================================
