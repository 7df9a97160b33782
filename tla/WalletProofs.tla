----------------------------- MODULE WalletProofs -----------------------------
(***************************************************************************)
(* Proofs about wallets and recharge orders, for any users, orders and     *)
(* sessions, and requests that overlap and crash as they like.             *)
(*                                                                         *)
(* The invariant says what a session at each label has read (SessionInv),  *)
(* what a row lock tells of the session that holds it (LockInv), and, when *)
(* requests do not overlap, that the balance a session has read is still   *)
(* the committed one (FreshInv).                                           *)
(***************************************************************************)
EXTENDS Wallet, TLAPS

BalanceKinds == WalletKinds \cup {"confirm"}

SessionInv ==
    \A s \in Sessions :
        /\ ~At(s, "idle") => ses[s].user \in Users
        /\ At(s, "mark") =>
              /\ ses[s].order \in Orders /\ ses[s].kind # "consume"
              /\ order[ses[s].order].status # "absent"
        /\ ses[s].pc \in {"check", "wallet", "create", "update"} =>
              ses[s].kind \in BalanceKinds
        /\ At(s, "process") => ses[s].kind = "confirm"
        /\ At(s, "commit") => Affordable(ses[s])
        /\ ses[s].pc \in {"mark", "process", "check", "wallet", "create"} => ses[s].seen = 0

OrderInv ==
    \A o \in Orders : order[o].status # "absent" => order[o].user \in Users

LockInv ==
    /\ \A o \in Orders, s \in Sessions : orderOf[o] = s =>
          /\ ses[s].pc \notin {"idle", "mark", "check"}
          /\ order[o].status # "absent"
          /\ ses[s].status \in {"paid", "failed", order[o].status}
    /\ \A u \in Users, s \in Sessions : walletOf[u] = s =>
          /\ ses[s].pc \in {"update", "commit"}
          /\ ses[s].kind \in BalanceKinds
          /\ u = ses[s].user

FreshInv ==
    /\ \A s, t \in Sessions : s # t => At(s, "idle") \/ At(t, "idle")
    /\ \A s \in Sessions :
          At(s, "update") \/ (\E u \in Users : walletOf[u] = s) =>
              ses[s].seen = BalanceOf(ses[s].user)
    /\ BalanceMatchesTransactions

IInv ==
    /\ TypeOK
    /\ SessionInv /\ OrderInv /\ LockInv
    /\ StatusTellsCredit
    /\ ~Concurrent => FreshInv

-----------------------------------------------------------------------------
(* The initial states.                                                      *)

LEMMA InitInv == Init => IInv
<1> SUFFICES ASSUME Init PROVE IInv
  OBVIOUS
<1> USE DEF Init, At, IdleSession, Fresh, AbsentOrder
<1>1. TypeOK
  BY DEF TypeOK, Order, OrderStatuses, Session, Pcs
<1>2. SessionInv /\ OrderInv /\ StatusTellsCredit
  BY DEF SessionInv, OrderInv, StatusTellsCredit
<1>3. LockInv
  BY WalletNone DEF LockInv
<1>4. FreshInv
  BY WalletNone DEF FreshInv, BalanceMatchesTransactions, BalanceOf
<1> QED
  BY <1>1, <1>2, <1>3, <1>4 DEF IInv

-----------------------------------------------------------------------------
(* A session that gives everything up.                                      *)

LEMMA RollbackInv ==
    ASSUME IInv, NEW s \in Sessions, Rollback(s)
    PROVE  IInv'
<1> USE DEF Rollback, Release, committed
<1>1. TypeOK'
  BY DEF IInv, TypeOK, Session, IdleSession, Fresh, Pcs, OrderStatuses
<1>2. SessionInv'
  BY DEF IInv, TypeOK, SessionInv, At, IdleSession, Fresh, Affordable
<1>3. OrderInv' /\ StatusTellsCredit'
  BY DEF IInv, OrderInv, StatusTellsCredit
<1>4. LockInv'
  BY WalletNone DEF IInv, TypeOK, LockInv, IdleSession, Fresh
<1>5. ASSUME ~Concurrent PROVE FreshInv'
  BY <1>5, WalletNone
     DEF IInv, TypeOK, FreshInv, At, IdleSession, Fresh, BalanceMatchesTransactions, BalanceOf
<1> QED
  BY <1>1, <1>2, <1>3, <1>4, <1>5 DEF IInv

-----------------------------------------------------------------------------
(* Recharge orders.                                                         *)

LEMMA CreateOrderInv ==
    ASSUME IInv, NEW o \in Orders, NEW u \in Users, NEW n \in Amounts, CreateOrder(o, u, n)
    PROVE  IInv'
<1> USE DEF CreateOrder
<1>1. TypeOK'
  BY WalletAmounts DEF IInv, TypeOK, Order, OrderStatuses
<1>2. SessionInv'
  BY DEF IInv, TypeOK, SessionInv, At, Affordable
<1>3. OrderInv' /\ StatusTellsCredit'
  BY DEF IInv, TypeOK, OrderInv, StatusTellsCredit, AbsentOrder
<1>4. LockInv'
  BY DEF IInv, TypeOK, LockInv, AbsentOrder
<1>5. ASSUME ~Concurrent PROVE FreshInv'
  BY <1>5 DEF IInv, FreshInv, At, BalanceMatchesTransactions, BalanceOf
<1> QED
  BY <1>1, <1>2, <1>3, <1>4, <1>5 DEF IInv

LEMMA LoadOrderInv ==
    ASSUME IInv, NEW s \in Sessions, NEW kind \in OrderKinds, NEW o \in Orders,
           LoadOrder(s, kind, o)
    PROVE  IInv'
<1> DEFINE v == Fresh("mark", kind, order[o].user, o, order[o].amount, order[o].status)
<1>0. /\ order[o] \in Order /\ order[o].user \in Users /\ order[o].status # "absent"
      /\ At(s, "idle") /\ (Concurrent \/ \A t \in Sessions : At(t, "idle"))
      /\ ses' = [ses EXCEPT ![s] = v]
      /\ UNCHANGED <<balance, posted, order, credits, walletOf, orderOf>>
      /\ requests' \in Nat
  BY DEF IInv, TypeOK, OrderInv, LoadOrder, Accept, committed
<1>a. /\ v \in Session
      /\ v.pc = "mark" /\ v.user \in Users /\ v.order = o /\ v.seen = 0
      /\ v.kind # "consume"
  BY <1>0 DEF Fresh, Session, Pcs, OrderStatuses, Order, OrderKinds
<1> HIDE DEF v
<1>1. TypeOK'
  BY <1>0, <1>a DEF IInv, TypeOK
<1>2. SessionInv'
  BY <1>0, <1>a DEF IInv, TypeOK, SessionInv, At, Affordable
<1>3. OrderInv' /\ StatusTellsCredit'
  BY <1>0 DEF IInv, OrderInv, StatusTellsCredit
<1>4. LockInv'
  BY <1>0, <1>a DEF IInv, TypeOK, LockInv, At
<1>5. ASSUME ~Concurrent PROVE FreshInv'
  BY <1>0, <1>a, <1>5 DEF IInv, TypeOK, LockInv, FreshInv, At,
     BalanceMatchesTransactions, BalanceOf
<1> QED
  BY <1>1, <1>2, <1>3, <1>4, <1>5 DEF IInv

LEMMA MarkOrderInv ==
    ASSUME IInv, NEW s \in Sessions, MarkOrder(s)
    PROVE  IInv'
<1> DEFINE o  == ses[s].order
           p  == IF ses[s].kind = "confirm" THEN "process" ELSE "commit"
           st == IF ses[s].loaded = Target(ses[s].kind)
                 THEN order[o].status ELSE Target(ses[s].kind)
<1>0. /\ ses[s] \in Session /\ At(s, "mark") /\ o \in Orders
      /\ order[o] \in Order /\ order[o].status # "absent"
      /\ orderOf[o] = None /\ orderOf' = [orderOf EXCEPT ![o] = s]
      /\ ses' = [ses EXCEPT ![s].pc = p, ![s].status = st]
      /\ UNCHANGED <<balance, posted, order, credits, walletOf, requests>>
  BY DEF IInv, TypeOK, SessionInv, MarkOrder, committed, At
<1>a. /\ p \in Pcs /\ st \in OrderStatuses /\ p \in {"process", "commit"}
      /\ p = "process" => ses[s].kind = "confirm"
      /\ st \in {"paid", "failed", order[o].status}
  BY <1>0 DEF Pcs, OrderStatuses, Target, Order
<1>b. p = "commit" => ses[s].kind # "consume"
  BY <1>0 DEF IInv, SessionInv
<1> HIDE DEF p, st, o
<1>1. TypeOK'
  BY <1>0, <1>a DEF IInv, TypeOK, Session
<1>2. SessionInv'
  BY <1>0, <1>a, <1>b DEF IInv, TypeOK, SessionInv, At, Affordable, Session
<1>3. OrderInv' /\ StatusTellsCredit'
  BY <1>0 DEF IInv, OrderInv, StatusTellsCredit
<1>4. LockInv'
  BY <1>0, <1>a, WalletNone DEF IInv, TypeOK, LockInv, At, Session
<1>5. ASSUME ~Concurrent PROVE FreshInv'
  BY <1>0, <1>a, <1>5 DEF IInv, TypeOK, LockInv, FreshInv, At, BalanceMatchesTransactions, BalanceOf
<1> QED
  BY <1>1, <1>2, <1>3, <1>4, <1>5 DEF IInv

-----------------------------------------------------------------------------
(* Balances.                                                                *)

LEMMA BeginWalletRequestInv ==
    ASSUME IInv, NEW s \in Sessions, NEW kind \in WalletKinds, NEW u \in Users,
           NEW n \in Amounts, BeginWalletRequest(s, kind, u, n)
    PROVE  IInv'
<1> DEFINE p == IF kind = "adjust_down" THEN "check" ELSE "wallet"
           v == Fresh(p, kind, u, None, n, "absent")
<1>0. /\ At(s, "idle") /\ (Concurrent \/ \A t \in Sessions : At(t, "idle"))
      /\ ses' = [ses EXCEPT ![s] = v]
      /\ UNCHANGED <<balance, posted, order, credits, walletOf, orderOf>>
      /\ requests' \in Nat
  BY DEF IInv, TypeOK, BeginWalletRequest, Accept, committed
<1>p. p \in {"check", "wallet"}
  OBVIOUS
<1> HIDE DEF p
<1>a. /\ v \in Session
      /\ v.pc \in {"check", "wallet"} /\ v.kind = kind /\ v.user = u /\ v.seen = 0
  BY <1>p, WalletAmounts DEF Fresh, Session, Pcs, OrderStatuses
<1> HIDE DEF v
<1>1. TypeOK'
  BY <1>0, <1>a DEF IInv, TypeOK
<1>2. SessionInv'
  BY <1>0, <1>a DEF IInv, TypeOK, SessionInv, At, Affordable, BalanceKinds
<1>3. OrderInv' /\ StatusTellsCredit'
  BY <1>0 DEF IInv, OrderInv, StatusTellsCredit
<1>4. LockInv'
  BY <1>0, <1>a DEF IInv, TypeOK, LockInv, At
<1>5. ASSUME ~Concurrent PROVE FreshInv'
  BY <1>0, <1>a, <1>5 DEF IInv, TypeOK, LockInv, FreshInv, At,
     BalanceMatchesTransactions, BalanceOf
<1> QED
  BY <1>1, <1>2, <1>3, <1>4, <1>5 DEF IInv

\* Steps that only move a session from one label to the next.
LEMMA GotoInv ==
    ASSUME IInv, NEW s \in Sessions, NEW label, UNCHANGED <<committed, walletOf, orderOf, requests>>,
           Goto(s, label),
           \/ At(s, "process") /\ label = "wallet"
           \/ At(s, "check") /\ label = "wallet"
           \/ At(s, "wallet") /\ label = "create"
    PROVE  IInv'
<1> USE DEF Goto, committed
<1>1. TypeOK'
  BY DEF IInv, TypeOK, Session, Pcs
<1>2. SessionInv'
  BY DEF IInv, TypeOK, SessionInv, At, Affordable, BalanceKinds, Session
<1>3. OrderInv' /\ StatusTellsCredit'
  BY DEF IInv, OrderInv, StatusTellsCredit
<1>4. LockInv'
  BY DEF IInv, TypeOK, LockInv, At
<1>5. ASSUME ~Concurrent PROVE FreshInv'
  BY <1>5 DEF IInv, TypeOK, LockInv, FreshInv, At, BalanceMatchesTransactions, BalanceOf
<1> QED
  BY <1>1, <1>2, <1>3, <1>4, <1>5 DEF IInv

LEMMA ReadWalletInv ==
    ASSUME IInv, NEW s \in Sessions, ReadWallet(s)
    PROVE  IInv'
<1> USE DEF ReadWallet, committed
<1>0. ses[s] \in Session /\ ses[s].user \in Users /\ balance[ses[s].user] \in Nat
  BY DEF IInv, TypeOK, SessionInv, At
<1>1. TypeOK'
  BY <1>0 DEF IInv, TypeOK, Session, Pcs
<1>2. SessionInv'
  BY <1>0 DEF IInv, TypeOK, SessionInv, At, Affordable, BalanceKinds, Session
<1>3. OrderInv' /\ StatusTellsCredit'
  BY DEF IInv, OrderInv, StatusTellsCredit
<1>4. LockInv'
  BY DEF IInv, TypeOK, LockInv, At
<1>5. ASSUME ~Concurrent PROVE FreshInv'
  BY <1>0, <1>5 DEF IInv, TypeOK, LockInv, FreshInv, At, BalanceMatchesTransactions, BalanceOf
<1> QED
  BY <1>1, <1>2, <1>3, <1>4, <1>5 DEF IInv

LEMMA CreateWalletInv ==
    ASSUME IInv, NEW s \in Sessions, CreateWallet(s)
    PROVE  IInv'
<1> USE DEF CreateWallet, committed
<1>0. ses[s] \in Session /\ ses[s].user \in Users /\ ses[s].seen = 0
  BY DEF IInv, TypeOK, SessionInv, At
<1>1. TypeOK'
  BY <1>0 DEF IInv, TypeOK, Session, Pcs
<1>2. SessionInv'
  BY <1>0 DEF IInv, TypeOK, SessionInv, At, Affordable, BalanceKinds, Session
<1>3. OrderInv' /\ StatusTellsCredit'
  BY DEF IInv, OrderInv, StatusTellsCredit
<1>4. LockInv'
  BY <1>0, WalletNone DEF IInv, TypeOK, SessionInv, LockInv, At
<1>5. ASSUME ~Concurrent PROVE FreshInv'
  BY <1>0, <1>5 DEF IInv, TypeOK, FreshInv, At, BalanceMatchesTransactions, BalanceOf
<1> QED
  BY <1>1, <1>2, <1>3, <1>4, <1>5 DEF IInv

LEMMA UpdateBalanceInv ==
    ASSUME IInv, NEW s \in Sessions, UpdateBalance(s)
    PROVE  IInv'
<1> USE DEF UpdateBalance, Goto, committed
<1>0. ses[s] \in Session /\ ses[s].user \in Users
  BY DEF IInv, TypeOK, SessionInv, At
<1>1. TypeOK'
  BY <1>0 DEF IInv, TypeOK, Session, Pcs
<1>2. SessionInv'
  BY <1>0 DEF IInv, TypeOK, SessionInv, At, Affordable, BalanceKinds, Session
<1>3. OrderInv' /\ StatusTellsCredit'
  BY DEF IInv, OrderInv, StatusTellsCredit
<1>4. LockInv'
  BY <1>0, WalletNone DEF IInv, TypeOK, SessionInv, LockInv, At
<1>5. ASSUME ~Concurrent PROVE FreshInv'
  BY <1>0, <1>5 DEF IInv, TypeOK, FreshInv, At, BalanceMatchesTransactions, BalanceOf
<1> QED
  BY <1>1, <1>2, <1>3, <1>4, <1>5 DEF IInv

-----------------------------------------------------------------------------
(* The commit.                                                              *)

\* What a session writes is a balance, and is what it posts.
LEMMA CommitAmounts ==
    ASSUME IInv, NEW s \in Sessions, At(s, "commit")
    PROVE  /\ ses[s].seen + Delta(ses[s]) \in Nat
           /\ ses[s].kind \in BalanceKinds => Posting(ses[s]) = Delta(ses[s])
           /\ Posting(ses[s]) \in Int
<1>1. ses[s] \in Session /\ Affordable(ses[s])
  BY DEF IInv, TypeOK, SessionInv
<1>2. ses[s].amount \in Nat /\ ses[s].seen \in Nat
  BY <1>1 DEF Session
<1>3. CASE ses[s].kind = "consume"
  BY <1>1, <1>2, <1>3 DEF Delta, Posting, Affordable, CreditKinds
<1>4. CASE ses[s].kind \in CreditKinds \cup {"confirm"}
  BY <1>1, <1>2, <1>4 DEF Delta, Posting, CreditKinds
<1>5. CASE ses[s].kind \notin CreditKinds \cup {"confirm", "consume"}
  BY <1>1, <1>2, <1>5 DEF Delta, Posting, CreditKinds, BalanceKinds, WalletKinds
<1> QED
  BY <1>3, <1>4, <1>5

LEMMA CommitRequestInv ==
    ASSUME IInv, NEW s \in Sessions, CommitRequest(s)
    PROVE  IInv'
<1> USE DEF CommitRequest, Release
<1> DEFINE b == ses[s].seen + Delta(ses[s])
           p == Posting(ses[s])
<1>0. /\ At(s, "commit") /\ ses[s] \in Session
      /\ b \in Nat /\ p \in Int
      /\ ses[s].kind \in BalanceKinds => p = Delta(ses[s])
      /\ FinalStatus(ses[s]) \in OrderStatuses
  BY CommitAmounts DEF IInv, TypeOK, Session, FinalStatus, OrderStatuses
<1>a. /\ order' \in [Orders -> Order]
      /\ \A o \in Orders : order'[o] =
            IF orderOf[o] = s THEN [order[o] EXCEPT !.status = FinalStatus(ses[s])]
                              ELSE order[o]
  BY <1>0 DEF IInv, TypeOK, Order
<1>1. TypeOK'
  <2>1. balance' \in [Users -> Nat \cup {None}] /\ posted' \in [Users -> Int]
    BY <1>0 DEF IInv, TypeOK
  <2>2. order' \in [Orders -> Order] /\ credits' \in [Orders -> Nat]
    BY <1>0, <1>a DEF IInv, TypeOK
  <2>3. ses' \in [Sessions -> Session]
    BY DEF IInv, TypeOK, Session, IdleSession, Fresh, Pcs, OrderStatuses
  <2> QED
    BY <2>1, <2>2, <2>3 DEF IInv, TypeOK
<1>2. \A o \in Orders :
         /\ order'[o].user = order[o].user
         /\ orderOf[o] # s => order'[o] = order[o] /\ credits'[o] = credits[o]
         /\ orderOf[o] = s => order'[o].status = FinalStatus(ses[s])
         /\ order[o].status # "absent" <=> order'[o].status # "absent"
  <2> SUFFICES ASSUME NEW o \in Orders
               PROVE  /\ order'[o].user = order[o].user
                      /\ orderOf[o] # s => order'[o] = order[o] /\ credits'[o] = credits[o]
                      /\ orderOf[o] = s => order'[o].status = FinalStatus(ses[s])
                      /\ order[o].status # "absent" <=> order'[o].status # "absent"
    OBVIOUS
  <2>1. order[o] \in Order
    BY DEF IInv, TypeOK
  <2>2. CASE orderOf[o] # s
    BY <1>a, <2>2
  <2>3. CASE orderOf[o] = s
    BY <1>a, <2>1, <2>3 DEF IInv, LockInv, Order, FinalStatus
  <2> QED
    BY <2>2, <2>3
<1>3. SessionInv'
  BY <1>2 DEF IInv, TypeOK, SessionInv, At, IdleSession, Fresh, Affordable
<1>4. OrderInv'
  BY <1>2 DEF IInv, OrderInv
<1>5. LockInv'
  BY <1>2, WalletNone DEF IInv, TypeOK, LockInv, IdleSession, Fresh
<1>6. StatusTellsCredit'
  <2> SUFFICES ASSUME NEW o \in Orders
               PROVE  /\ order'[o].status = "completed" => credits'[o] > 0
                      /\ order'[o].status \in {"absent", "pending"} => credits'[o] = 0
    BY DEF StatusTellsCredit
  <2>1. CASE orderOf[o] # s
    BY <2>1, <1>2 DEF IInv, StatusTellsCredit
  <2>2. CASE orderOf[o] = s /\ ses[s].kind = "confirm"
    BY <2>2, <1>2 DEF IInv, TypeOK, FinalStatus
  <2>3. CASE orderOf[o] = s /\ ses[s].kind # "confirm"
    BY <2>3, <1>2 DEF IInv, TypeOK, LockInv, StatusTellsCredit, FinalStatus
  <2> QED
    BY <2>1, <2>2, <2>3
<1>7. ASSUME ~Concurrent PROVE FreshInv'
  <2>1. \A t, w \in Sessions : t # w => At(t, "idle")' \/ At(w, "idle")'
    BY <1>7 DEF IInv, TypeOK, FreshInv, At, IdleSession, Fresh
  <2>2. \A t \in Sessions : At(t, "idle")'
    BY <1>0, <1>7 DEF IInv, TypeOK, FreshInv, At, IdleSession, Fresh
  <2>3. \A t \in Sessions, u \in Users : walletOf'[u] # t
    BY <2>2, <1>5 DEF LockInv, At
  <2>4. BalanceMatchesTransactions'
    <3> SUFFICES ASSUME NEW u \in Users PROVE posted'[u] = BalanceOf(u)'
      BY DEF BalanceMatchesTransactions
    <3>0. posted[u] = BalanceOf(u) /\ posted[u] \in Int
      BY <1>7 DEF IInv, TypeOK, FreshInv, BalanceMatchesTransactions
    <3>1. CASE walletOf[u] # s
      BY <3>0, <3>1 DEF BalanceOf, IInv, TypeOK
    <3>2. CASE walletOf[u] = s
      <4>1. ses[s].kind \in BalanceKinds /\ u = ses[s].user /\ ses[s].seen = BalanceOf(u)
        BY <1>7, <3>2 DEF IInv, LockInv, FreshInv
      <4>2. balance'[u] = b /\ posted'[u] = posted[u] + p
        BY <3>2 DEF IInv, TypeOK
      <4>3. b # None => posted'[u] = b
        BY <4>1, <4>2, <3>0, <1>0
      <4>4. b = None => b = 0
        BY <1>0, WalletNone
      <4> QED
        BY <4>1, <4>2, <4>3, <4>4, <3>0, <1>0 DEF BalanceOf
    <3> QED
      BY <3>1, <3>2
  <2> QED
    BY <2>1, <2>2, <2>3, <2>4 DEF FreshInv, At
<1> QED
  BY <1>1, <1>3, <1>4, <1>5, <1>6, <1>7 DEF IInv

-----------------------------------------------------------------------------
LEMMA UnchangedInv ==
    ASSUME IInv, UNCHANGED vars
    PROVE  IInv'
<1> USE DEF vars
<1>1. TypeOK' /\ OrderInv' /\ StatusTellsCredit'
  BY DEF IInv, TypeOK, OrderInv, StatusTellsCredit
<1>2. SessionInv' /\ LockInv'
  BY DEF IInv, SessionInv, LockInv, At, Affordable
<1>3. ASSUME ~Concurrent PROVE FreshInv'
  BY <1>3 DEF IInv, FreshInv, At, BalanceMatchesTransactions, BalanceOf
<1> QED
  BY <1>1, <1>2, <1>3 DEF IInv

LEMMA NextInv ==
    ASSUME IInv, [Next]_vars
    PROVE  IInv'
<1>1. ASSUME NEW s \in Sessions, OrderRequest(s) PROVE IInv'
  <2>1. ASSUME NEW kind \in OrderKinds, NEW o \in Orders, LoadOrder(s, kind, o) PROVE IInv'
    BY <2>1, LoadOrderInv
  <2>2. CASE MarkOrder(s)
    BY <2>2, MarkOrderInv
  <2>3. CASE ProcessRecharge(s)
    BY <2>3, GotoInv DEF ProcessRecharge
  <2>4. CASE RefuseRecharge(s)
    BY <2>4, RollbackInv DEF RefuseRecharge
  <2> QED
    BY <1>1, <2>1, <2>2, <2>3, <2>4 DEF OrderRequest
<1>2. ASSUME NEW s \in Sessions, WalletRequest(s) PROVE IInv'
  <2>1. ASSUME NEW kind \in WalletKinds, NEW u \in Users, NEW n \in Amounts,
               BeginWalletRequest(s, kind, u, n)
        PROVE  IInv'
    BY <2>1, BeginWalletRequestInv
  <2>2. CASE CheckAdjustment(s)
    BY <2>2, GotoInv, RollbackInv DEF CheckAdjustment
  <2>3. CASE ReadWallet(s)
    BY <2>3, ReadWalletInv
  <2>4. CASE MissWallet(s)
    BY <2>4, GotoInv DEF MissWallet
  <2>5. CASE CreateWallet(s)
    BY <2>5, CreateWalletInv
  <2>6. CASE CreateConflict(s)
    BY <2>6, RollbackInv DEF CreateConflict
  <2>7. CASE RefuseConsumption(s)
    BY <2>7, RollbackInv DEF RefuseConsumption
  <2>8. CASE UpdateBalance(s)
    BY <2>8, UpdateBalanceInv
  <2> QED
    BY <1>2, <2>1, <2>2, <2>3, <2>4, <2>5, <2>6, <2>7, <2>8 DEF WalletRequest
<1>3. ASSUME NEW s \in Sessions, CommitRequest(s) PROVE IInv'
  BY <1>3, CommitRequestInv
<1>4. ASSUME NEW s \in Sessions, Abort(s) PROVE IInv'
  BY <1>4, RollbackInv DEF Abort
<1>5. ASSUME NEW o \in Orders, NEW u \in Users, NEW n \in Amounts, CreateOrder(o, u, n)
      PROVE  IInv'
  BY <1>5, CreateOrderInv
<1>6. CASE UNCHANGED vars
  BY <1>6, UnchangedInv
<1> QED
  BY <1>1, <1>2, <1>3, <1>4, <1>5, <1>6 DEF Next, Serve

(* The invariant holds in every reachable state, whatever requests overlap. *)
THEOREM WalletInvariance == Spec => []IInv
BY InitInv, NextInv, PTL DEF Spec

(* Every variable keeps its type; no balance is ever negative.              *)
THEOREM WalletTypeCorrect == Spec => []TypeOK
<1>1. IInv => TypeOK
  BY DEF IInv
<1> QED
  BY <1>1, WalletInvariance, PTL

(* The status of an order tells whether it was credited, however            *)
(* confirmations, cancellations and crashes overlap.                        *)
THEOREM CompletedIsCredited == Spec => []StatusTellsCredit
<1>1. IInv => StatusTellsCredit
  BY DEF IInv
<1> QED
  BY <1>1, WalletInvariance, PTL

\* Session s can go on only when t ends: t has written the row that the UPDATE
\* or the INSERT of s is about.
WaitsFor(s, t) ==
    \/ At(s, "mark") /\ orderOf[ses[s].order] = t
    \/ At(s, "create") /\ walletOf[ses[s].user] = t
    \/ At(s, "update") /\ walletOf[ses[s].user] = t /\ s # t

\* Who has written a wallet waits for nobody; who has written an order waits
\* for such a session at most.
ShortWaits ==
    \A s, t, r \in Sessions :
        WaitsFor(s, t) =>
            /\ s # t
            /\ WaitsFor(t, r) => At(s, "mark") /\ ~At(t, "mark")

(* Sessions never wait for each other's rows in a circle, whatever requests *)
(* overlap (recharge.py writes the order before WalletService writes the    *)
(* wallet, and no request writes two wallets or two orders): a session that *)
(* waits for one that waits is about to write its order, and the one it     *)
(* waits for is past that, so that no third one waits.  This is why         *)
(* requests end.                                                            *)
THEOREM WaitsAreShort == Spec => []ShortWaits
<1>1. IInv => ShortWaits
  <2> SUFFICES ASSUME IInv,
                      NEW s \in Sessions, NEW t \in Sessions, NEW r \in Sessions,
                      WaitsFor(s, t)
               PROVE  /\ s # t
                      /\ WaitsFor(t, r) => At(s, "mark") /\ ~At(t, "mark")
    BY DEF ShortWaits
  <2>1. CASE At(s, "mark") /\ orderOf[ses[s].order] = t
    <3>1. ses[t].pc \notin {"idle", "mark", "check"}
      BY <2>1 DEF IInv, LockInv, SessionInv, At
    <3> QED
      BY <2>1, <3>1 DEF At
  <2>2. CASE ses[s].pc \in {"create", "update"} /\ walletOf[ses[s].user] = t
    <3>1. ses[t].pc \in {"update", "commit"} /\ ses[s].user = ses[t].user
      BY <2>2 DEF IInv, LockInv, SessionInv, At
    <3>2. s # t
      BY <2>2, <3>1 DEF WaitsFor, At
    <3>3. ~WaitsFor(t, r)
      BY <2>2, <3>1 DEF WaitsFor, At
    <3> QED
      BY <3>2, <3>3
  <2> QED
    BY <2>1, <2>2 DEF WaitsFor, At
<1> QED
  BY <1>1, WalletInvariance, PTL

(* When requests do not overlap, the balance of every wallet is the sum of  *)
(* its transactions.                                                        *)
THEOREM SequentialBalance ==
    ASSUME ~Concurrent
    PROVE  Spec => []BalanceMatchesTransactions
<1>1. IInv => BalanceMatchesTransactions
  BY DEF IInv, FreshInv
<1> QED
  BY <1>1, WalletInvariance, PTL
=============================================================================
