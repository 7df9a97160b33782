---------------------------- MODULE TradingProofs ----------------------------
(***************************************************************************)
(* What holds of the components behind a trading decision for any values   *)
(* of their constants.  Each part has its inductive invariant and a lemma  *)
(* for each of its actions; the theorems of the composition are at the end.*)
(***************************************************************************)
EXTENDS Trading, RecursionProofs

-----------------------------------------------------------------------------
(* PositionLedger: the ledger equals the exchange.                          *)

LEMMA SameLedger ==
  /\ \A f, S : Ledger!Total(f, S) = Total(f, S)
  /\ \A S : Ledger!IsFiniteSet(S) <=> IsFiniteSet(S)
<1>1. \A f, S : Ledger!Total(f, S) = Total(f, S)
  BY DEF Ledger!Total, Total
<1>2. \A S : Ledger!IsFiniteSet(S) <=> IsFiniteSet(S)
  BY DEF Ledger!IsFiniteSet, IsFiniteSet
<1> QED BY <1>1, <1>2

\* What the agent's cycles write into a row.
OwnRow(v) ==
    /\ v \in Ledger!Row
    /\ Ledger!Live(v) => v.agent = Agent /\ v.symbol \in Coins /\ v.side = 1

\* f gives each row a version; at most one per symbol is live.
OwnRows(f) ==
    /\ f \in [Entries -> Ledger!Row]
    /\ \A r \in Entries : OwnRow(f[r])
    /\ \A r, q \in Entries :
          Ledger!Live(f[r]) /\ Ledger!Live(f[q]) /\ f[r].symbol = f[q].symbol => r = q

\* What is said of the symbols S: those whose orders have all reported their fills.
Margin(S, v)  == IF v.status = "open" /\ v.symbol \in S THEN v.usd ELSE 0
Margins(S, f) == Total([r \in Entries |-> Margin(S, f[r])], Entries)

\* The newest versions.
Newest == [r \in Entries |-> Ledger!Latest(r)]

OpenIn(f, r, s) == f[r].status = "open" /\ f[r].symbol = s

\* The positions x are n units of s ahead of the rows f.
Ahead(f, x, s, n) ==
    /\ \A r \in Entries : OpenIn(f, r, s) => x[s] = f[r].size + n
    /\ (\A r \in Entries : ~OpenIn(f, r, s)) => x[s] = n

\* Where a cycle with the local state k stands, the rows may lag behind in its
\* symbol: by the order it is about to record, or by the position it has closed.
Balanced(k, f, x, S) ==
    \A s \in S :
        IF k.pc = "closerec" /\ k.symbol = s THEN x[s] = 0
        ELSE Ahead(f, x, s, IF k.pc = "record" /\ k.symbol = s THEN 1 ELSE 0)

Ordering  == {"order", "verify", "record", "release"}
Deciding  == {"claim", "check", "insert"} \cup Ordering

\* A claim is pending only while its cycle works on it.
ClaimsAreHeld(k, f) ==
    \A r \in Entries : f[r].status = "pending" => k.pc \in Ordering /\ ~k.existing /\ k.row = r

\* What the cycle remembers of its row is the row.
Remembers(k, f, S) ==
    /\ k.pc \in Deciding => k.symbol \in Coins /\ k.side = 1
    /\ k.pc \in {"ready", "claim", "check", "insert", "verify", "release"} => ~k.existing
    /\ k.pc \in Ordering =>
          /\ k.row \in Entries /\ f[k.row].symbol = k.symbol
          /\ f[k.row].status = (IF k.existing THEN "open" ELSE "pending")
          /\ k.existing => k.seen = f[k.row].size /\ k.seenUsd = f[k.row].usd
    /\ k.pc \in Ordering \cup {"insert"} => Margins(S, f) + 1 <= Allocation
    /\ k.pc = "record" /\ k.symbol \in S => k.fill = 1 /\ k.cost = 1
    /\ k.pc \in {"close", "closerec"} => k.symbol \in Coins
    /\ k.pc = "close" =>
          IF k.row = NoValue THEN \A r \in Entries : ~OpenIn(f, r, k.symbol)
          ELSE k.row \in Entries /\ OpenIn(f, k.row, k.symbol)
    /\ k.pc = "closerec" => k.row \in Entries /\ OpenIn(f, k.row, k.symbol)

Consistent(k, f, x, S) == Balanced(k, f, x, S) /\ ClaimsAreHeld(k, f) /\ Remembers(k, f, S)

\* The inductive invariant, as far as it speaks of the symbols S.
LedgerInvFor(S) ==
    /\ \E V : draft \in [Entries -> V]
    /\ holder \in [Entries -> Slots \cup {NoValue}]
    /\ exch \in [Coins -> Int]
    /\ cyc \in [Slots -> Ledger!Cycle]
    /\ recon = Ledger!IdleRecon
    /\ \A c, d \in Slots : cyc[c].pc # "idle" /\ cyc[d].pc # "idle" => c = d
    /\ \A c \in Slots : cyc[c].agent = IF cyc[c].pc = "idle" THEN NoValue ELSE Agent
    /\ \A r \in Entries : holder[r] # NoValue => cyc[holder[r]].pc # "idle"
    /\ OwnRows(rows) /\ Margins(S, rows) <= Allocation
    /\ \A r \in Entries : rows[r].status # "pending"
    /\ OwnRows(Newest) /\ Margins(S, Newest) <= Allocation
    /\ \A c \in Slots : cyc[c].pc # "idle" => Consistent(cyc[c], Newest, exch, S)
    /\ (\A c \in Slots : cyc[c].pc = "idle") => Consistent(Ledger!IdleCycle, Newest, exch, S)

LedgerInv == unsure \subseteq Coins /\ LedgerInvFor(Coins \ unsure)

LedgerConstants ==
    Ledger!CyclesAssumption /\ Ledger!NoneAssumption /\ Ledger!ParametersAssumption

LEMMA LedgerConstantsAre ==
  ASSUME LedgerConstants
  PROVE  /\ IsFiniteSet(Entries) /\ Allocation \in Nat
         /\ NoValue \notin Slots /\ NoValue # Agent /\ NoValue \notin Coins \cup Entries
<1>1. IsFiniteSet(Entries)
  BY SameLedger DEF LedgerConstants, Ledger!ParametersAssumption
<1>2. Allocation \in Nat
  <2>1. [a \in {Agent} |-> Allocation] \in [{Agent} -> Nat]
    BY DEF LedgerConstants, Ledger!ParametersAssumption
  <2> QED BY <2>1
<1>3. NoValue \notin Slots /\ NoValue # Agent /\ NoValue \notin Coins \cup Entries
  BY DEF LedgerConstants, Ledger!CyclesAssumption, Ledger!NoneAssumption
<1> QED BY <1>1, <1>2, <1>3

(* Rows.                                                                    *)
LEMMA LedgerRowIs ==
  ASSUME NEW S, NEW v \in Ledger!Row
  PROVE  /\ v.status \in Ledger!Statuses /\ v.agent \in {Agent, NoValue}
         /\ v.symbol \in Coins \cup {NoValue} /\ v.side \in {1, -1}
         /\ v.size \in Nat /\ v.usd \in Nat /\ v.pnls \in Nat /\ Margin(S, v) \in Nat
BY DEF Ledger!Row, Ledger!Sides, Margin

LEMMA AbsentIs ==
  /\ Ledger!Absent \in Ledger!Row /\ OwnRow(Ledger!Absent)
  /\ \A S : Margin(S, Ledger!Absent) = 0
  /\ Ledger!Absent.status = "absent" /\ ~Ledger!Live(Ledger!Absent)
BY DEF Ledger!Absent, Ledger!Row, Ledger!Statuses, Ledger!Sides, OwnRow, Ledger!Live, Margin

LEMMA ClaimIs ==
  ASSUME NEW S, NEW s \in Coins, NEW v, v = Ledger!Pending(Agent, s, 1)
  PROVE  OwnRow(v) /\ v.status = "pending" /\ v.symbol = s /\ Margin(S, v) = 0
BY DEF Ledger!Pending, Ledger!Absent, Ledger!Row, Ledger!Statuses, Ledger!Sides, OwnRow, Ledger!Live, Margin

\* confirm_position and accumulate_position
Confirmed(v, n, m) == [v EXCEPT !.status = "open", !.size = n, !.usd = m]

LEMMA FilledIs ==
  ASSUME NEW S, NEW v, OwnRow(v), Ledger!Live(v), NEW n \in Nat, NEW m \in Nat,
         NEW w, w = Confirmed(v, n, m)
  PROVE  /\ OwnRow(w) /\ w.status = "open" /\ w.size = n /\ w.usd = m /\ w.symbol = v.symbol
         /\ Margin(S, w) = IF v.symbol \in S THEN m ELSE 0
<1>1. w \in Ledger!Row
  BY DEF OwnRow, Ledger!Row, Ledger!Statuses, Confirmed
<1>2. /\ w.status = "open" /\ w.size = n /\ w.usd = m /\ w.symbol = v.symbol
      /\ w.agent = v.agent /\ w.side = v.side
  BY DEF OwnRow, Ledger!Row, Confirmed
<1> QED BY <1>1, <1>2 DEF OwnRow, Margin

LEMMA ClosedRowIs ==
  ASSUME NEW S, NEW v, OwnRow(v), NEW w, w = Ledger!Closed(v)
  PROVE  OwnRow(w) /\ w.status = "closed" /\ Margin(S, w) = 0 /\ ~Ledger!Live(w)
<1>0. PICK n \in Nat : n = v.pnls + 1
  BY LedgerRowIs DEF OwnRow
<1>1. w = [v EXCEPT !.status = "closed", !.pnls = n]
  BY <1>0 DEF Ledger!Closed
<1>2. w \in Ledger!Row /\ w.status = "closed"
  BY <1>1 DEF OwnRow, Ledger!Row, Ledger!Statuses
<1> QED BY <1>2 DEF OwnRow, Margin, Ledger!Live

(* One more version: the margins change by that row's.                      *)
LEMMA MarginsAfter ==
  ASSUME IsFiniteSet(Entries), NEW f, OwnRows(f), NEW r \in Entries, NEW v \in Ledger!Row, NEW g,
         g = [f EXCEPT ![r] = v], NEW S
  PROVE  /\ Margins(S, f) \in Int
         /\ Margins(S, g) = Margins(S, f) + (Margin(S, v) - Margin(S, f[r]))
<1>1. PICK a, b : a = [q \in Entries |-> Margin(S, f[q])] /\ b = [q \in Entries |-> Margin(S, g[q])]
  OBVIOUS
<1>2. \A q \in Entries : a[q] \in Int /\ b[q] \in Int
  BY <1>1, LedgerRowIs DEF OwnRows
<1>3. \A q \in Entries \ {r} : a[q] = b[q]
  BY <1>1 DEF OwnRows
<1>4. b[r] = Margin(S, v) /\ a[r] = Margin(S, f[r])
  BY <1>1 DEF OwnRows
<1>5. Total(a, Entries) \in Int /\ Total(b, Entries) = Total(a, Entries) + (b[r] - a[r])
  BY <1>2, <1>3, SumChanges
<1> QED BY <1>1, <1>4, <1>5 DEF Margins

LEMMA StillCovered ==
  ASSUME IsFiniteSet(Entries), NEW f, OwnRows(f), NEW r \in Entries, NEW v, v \in Ledger!Row,
         NEW g, g = [f EXCEPT ![r] = v], NEW S,
         Margins(S, f) + (Margin(S, v) - Margin(S, f[r])) <= Allocation
  PROVE  Margins(S, g) <= Allocation
<1>1. Margins(S, g) = Margins(S, f) + (Margin(S, v) - Margin(S, f[r]))
  BY MarginsAfter
<1> QED BY <1>1

LEMMA OwnRowsWith ==
  ASSUME NEW f, OwnRows(f), NEW r \in Entries, NEW v, OwnRow(v), NEW g, g = [f EXCEPT ![r] = v],
         Ledger!Live(v) =>
            \A q \in Entries : Ledger!Live(f[q]) /\ f[q].symbol = v.symbol => q = r
  PROVE  OwnRows(g)
<1>1. /\ g \in [Entries -> Ledger!Row] /\ g[r] = v
      /\ \A q \in Entries : q # r => g[q] = f[q]
  BY DEF OwnRows, OwnRow
<1>2. \A q \in Entries : OwnRow(g[q])
  BY <1>1 DEF OwnRows
<1>3. ASSUME NEW p \in Entries, NEW q \in Entries, Ledger!Live(g[p]), Ledger!Live(g[q]),
             g[p].symbol = g[q].symbol
      PROVE  p = q
  <2>1. CASE p # r /\ q # r
    BY <1>1, <1>3, <2>1 DEF OwnRows
  <2>2. CASE p = r \/ q = r
    BY <1>1, <1>3, <2>2
  <2> QED BY <2>1, <2>2
<1> QED BY <1>1, <1>2, <1>3 DEF OwnRows

(* Fewer symbols, less margin.                                              *)
LEMMA MarginsShrink ==
  ASSUME IsFiniteSet(Entries), NEW f, OwnRows(f), NEW S, NEW T \in SUBSET S
  PROVE  Margins(T, f) \in Int /\ Margins(S, f) \in Int /\ Margins(T, f) <= Margins(S, f)
<1>1. PICK a, b : a = [r \in Entries |-> Margin(T, f[r])] /\ b = [r \in Entries |-> Margin(S, f[r])]
  OBVIOUS
<1>2. \A r \in Entries : f[r].usd \in Nat
  BY LedgerRowIs DEF OwnRows
<1>3. \A r \in Entries : a[r] \in Int /\ b[r] \in Int /\ a[r] <= b[r]
  BY <1>1, <1>2 DEF Margin
<1>4. Total(a, Entries) <= Total(b, Entries) /\ Total(a, Entries) \in Int /\ Total(b, Entries) \in Int
  BY <1>3, SumGrows, SumIsInt
<1> QED BY <1>1, <1>4 DEF Margins

(* A row of another symbol, or one that is not open, does not count.        *)
LEMMA AheadAfter ==
  ASSUME NEW f, OwnRows(f), NEW r \in Entries, NEW v, NEW g, g = [f EXCEPT ![r] = v],
         NEW s, ~OpenIn(f, r, s), ~(v.status = "open" /\ v.symbol = s),
         NEW x, NEW n, Ahead(f, x, s, n)
  PROVE  Ahead(g, x, s, n)
<1>1. g[r] = v /\ \A q \in Entries : q # r => g[q] = f[q]
  BY DEF OwnRows
<1>2. \A q \in Entries : OpenIn(g, q, s) <=> OpenIn(f, q, s)
  BY <1>1 DEF OpenIn
<1>3. \A q \in Entries : OpenIn(g, q, s) => g[q] = f[q]
  BY <1>1 DEF OpenIn
<1> QED BY <1>2, <1>3 DEF Ahead

(* The margin that check_capital_allocation adds up.                        *)
LEMMA OpenMargins ==
  ASSUME IsFiniteSet(Entries), NEW S, NEW f, OwnRows(f), NEW T \in SUBSET Entries,
         T = {r \in Entries : /\ f[r].status = "open" /\ f[r].agent = Agent
                              /\ f[r].symbol \in S}
  PROVE  Total([r \in Entries |-> f[r].usd], T) = Margins(S, f)
<1>1. PICK a, b : /\ a = [r \in Entries |-> f[r].usd]
                  /\ b = [r \in Entries |-> Margin(S, f[r])]
  OBVIOUS
<1>2. IsFiniteSet(T)
  BY FS_Subset
<1>3. \A r \in T : a[r] = b[r]
  BY <1>1 DEF Margin
<1>4. \A r \in Entries : b[r] \in Int
  BY <1>1, LedgerRowIs DEF OwnRows
<1>5. \A r \in Entries \ T : b[r] = 0
  <2> SUFFICES ASSUME NEW r \in Entries, r \notin T PROVE b[r] = 0
    OBVIOUS
  <2>1. f[r].status # "open" \/ f[r].symbol \notin S
    BY DEF OwnRows, OwnRow, Ledger!Live
  <2> QED BY <1>1, <2>1 DEF Margin
<1>6. Total(a, T) = Total(b, T)
  BY <1>2, <1>3, SumAgrees
<1>7. Total(b, Entries) = Total(b, T)
  BY <1>2, <1>4, <1>5, SumOfSupport
<1> QED BY <1>1, <1>6, <1>7 DEF Margins

(* The signed size of one symbol's rows.                                    *)
LEMMA NetIs ==
  ASSUME IsFiniteSet(Entries), OwnRows(rows), NEW s \in Coins, Ahead(rows, exch, s, 0)
  PROVE  exch[s] = Ledger!NetPosition(s)
<1>1. PICK a, T : /\ a = [r \in Entries |-> rows[r].side * rows[r].size]
                  /\ T = {r \in Entries : rows[r].status = "open" /\ rows[r].symbol = s}
  OBVIOUS
<1>2. Ledger!NetPosition(s) = Total(a, T)
  BY <1>1, SameLedger DEF Ledger!NetPosition
<1>3. CASE T = {}
  <2>1. exch[s] = 0
    BY <1>1, <1>3 DEF Ahead, OpenIn
  <2> QED BY <1>2, <1>3, <2>1, SumOfNone
<1>4. CASE T # {}
  <2>1. PICK r \in T : TRUE
    BY <1>4
  <2>2. r \in Entries /\ rows[r].status = "open" /\ rows[r].symbol = s
    BY <1>1, <2>1
  <2>3. T = {r}
    BY <1>1, <2>2 DEF OwnRows, Ledger!Live
  <2>4. rows[r].side = 1 /\ rows[r].size \in Nat
    BY <2>2, LedgerRowIs DEF OwnRows, OwnRow, Ledger!Live
  <2>5. a[r] = rows[r].size
    BY <1>1, <2>2, <2>4
  <2>6. exch[s] = rows[r].size
    BY <2>2, <2>4 DEF Ahead, OpenIn
  <2>7. Total(a, T) = a[r] + Total(a, T \ {r})
    <3>1. IsFiniteSet(T) /\ \A y \in T : a[y] \in Int
      BY <1>1, <2>3, <2>4, <2>5, FS_Subset
    <3> QED BY <2>1, <3>1, SumSplits
  <2>8. Total(a, T \ {r}) = 0
    BY <2>3, SumOfNone
  <2> QED BY <1>2, <2>4, <2>5, <2>6, <2>7, <2>8
<1> QED BY <1>3, <1>4

-----------------------------------------------------------------------------
(* The agent's cycle is alone: what it reads is the newest version.         *)
LEMMA CycleIsAlone ==
  ASSUME LedgerConstants, NEW S \in SUBSET Coins, LedgerInvFor(S), NEW c \in Slots,
         cyc[c].pc # "idle"
  PROVE  /\ cyc[c] \in Ledger!Cycle /\ cyc[c].agent = Agent /\ Consistent(cyc[c], Newest, exch, S)
         /\ \A d \in Slots : d # c => cyc[d].pc = "idle"
         /\ \A r \in Entries : holder[r] \in {NoValue, c}
         /\ \A r \in Entries : Ledger!Visible(c, r) = Newest[r] /\ Ledger!Latest(r) = Newest[r]
         /\ \A r \in Entries : Ledger!Writable(c, r)
<1>1. NoValue \notin Slots
  BY LedgerConstantsAre
<1>2. \A d \in Slots : d # c => cyc[d].pc = "idle"
  BY DEF LedgerInvFor
<1>3. \A r \in Entries : holder[r] \in {NoValue, c}
  BY <1>2 DEF LedgerInvFor
<1>4. \A r \in Entries : Ledger!Visible(c, r) = Newest[r] /\ Ledger!Latest(r) = Newest[r]
  BY <1>1, <1>3 DEF Newest, Ledger!Latest, Ledger!Visible
<1>5. \A r \in Entries : Ledger!Writable(c, r)
  BY <1>3 DEF Ledger!Writable
<1>6. cyc[c] \in Ledger!Cycle /\ cyc[c].agent = Agent /\ Consistent(cyc[c], Newest, exch, S)
  BY DEF LedgerInvFor
<1> QED BY <1>2, <1>3, <1>4, <1>5, <1>6

(* Where the invariant must be looked at again after a cycle's step.        *)
LEMMA LedgerSuffices ==
  ASSUME LedgerConstants, NEW S \in SUBSET Coins, LedgerInvFor(S), NEW c \in Slots,
         cyc[c].pc # "idle",
         NEW k \in Ledger!Cycle, k.pc # "idle", k.agent = Agent, cyc' = [cyc EXCEPT ![c] = k],
         rows' = rows, recon' = recon, exch' \in [Coins -> Int],
         \E V : draft' \in [Entries -> V], holder' \in [Entries -> Slots \cup {NoValue}],
         \A r \in Entries : holder'[r] \in {NoValue, c},
         NEW f, Newest' = f, OwnRows(f), Margins(S, f) <= Allocation, Consistent(k, f, exch', S)
  PROVE  LedgerInvFor(S)'
<1>1. cyc' \in [Slots -> Ledger!Cycle] /\ cyc'[c] = k /\ \A d \in Slots : d # c => cyc'[d] = cyc[d]
  BY DEF LedgerInvFor
<1>2. \A d \in Slots : d # c => cyc'[d].pc = "idle"
  BY <1>1, CycleIsAlone
<1>3. \A d, e \in Slots : cyc'[d].pc # "idle" /\ cyc'[e].pc # "idle" => d = e
  BY <1>2
<1>4. \A d \in Slots : cyc'[d].agent = IF cyc'[d].pc = "idle" THEN NoValue ELSE Agent
  BY <1>1, <1>2 DEF LedgerInvFor
<1>5. \A r \in Entries : holder'[r] # NoValue => cyc'[holder'[r]].pc # "idle"
  BY <1>1
<1>6. \A d \in Slots : cyc'[d].pc # "idle" => Consistent(cyc'[d], Newest', exch', S)
  BY <1>1, <1>2
<1>7. ~(\A d \in Slots : cyc'[d].pc = "idle")
  BY <1>1
<1>8. recon' = Ledger!IdleRecon /\ OwnRows(rows') /\ Margins(S, rows') <= Allocation
      /\ \A r \in Entries : rows'[r].status # "pending"
  BY DEF LedgerInvFor
<1>9. OwnRows(Newest') /\ Margins(S, Newest') <= Allocation
  OBVIOUS
<1>10. /\ OwnRows(rows)' = OwnRows(rows') /\ Margins(S, rows)' = Margins(S, rows')
       /\ OwnRows(Newest)' = OwnRows(Newest') /\ Margins(S, Newest)' = Margins(S, Newest')
       /\ Ledger!IdleRecon' = Ledger!IdleRecon
       /\ \A d \in Slots : Consistent(cyc[d], Newest, exch, S)' = Consistent(cyc'[d], Newest', exch', S)
  OBVIOUS
<1> HIDE DEF Newest, OwnRows, Margins, Consistent
<1> QED BY <1>1, <1>3, <1>4, <1>5, <1>6, <1>7, <1>8, <1>9 DEF LedgerInvFor

LEMMA MoveKeeps ==
  ASSUME LedgerConstants, NEW S \in SUBSET Coins, LedgerInvFor(S), NEW c \in Slots,
         cyc[c].pc # "idle",
         NEW k \in Ledger!Cycle, k.pc # "idle", k.agent = Agent, cyc' = [cyc EXCEPT ![c] = k],
         UNCHANGED <<Ledger!ledger, recon>>, exch' \in [Coins -> Int],
         Consistent(k, Newest, exch', S)
  PROVE  LedgerInvFor(S)'
<1>1. rows' = rows /\ draft' = draft /\ holder' = holder /\ recon' = recon
  BY DEF Ledger!ledger
<1>2. Newest' = Newest
  BY <1>1 DEF Newest, Ledger!Latest
<1>3. PICK f : f = Newest
  OBVIOUS
<1>4. OwnRows(f) /\ Margins(S, f) <= Allocation /\ Consistent(k, f, exch', S)
  BY <1>3 DEF LedgerInvFor
<1>5. \A r \in Entries : holder'[r] \in {NoValue, c}
  BY <1>1, CycleIsAlone
<1>6. (\E V : draft' \in [Entries -> V]) /\ holder' \in [Entries -> Slots \cup {NoValue}]
  BY <1>1 DEF LedgerInvFor
<1>7. Newest' = f
  BY <1>2, <1>3
<1> QED BY <1>1, <1>4, <1>5, <1>6, <1>7, LedgerSuffices

LEMMA WriteKeeps ==
  ASSUME LedgerConstants, NEW S \in SUBSET Coins, LedgerInvFor(S), NEW c \in Slots,
         cyc[c].pc # "idle",
         NEW k \in Ledger!Cycle, k.pc # "idle", k.agent = Agent, cyc' = [cyc EXCEPT ![c] = k],
         NEW r \in Entries, NEW v, OwnRow(v), Ledger!Write(c, r, v),
         Ledger!Live(v) =>
            \A q \in Entries : Ledger!Live(Newest[q]) /\ Newest[q].symbol = v.symbol => q = r,
         Margins(S, Newest) + (Margin(S, v) - Margin(S, Newest[r])) <= Allocation,
         recon' = recon, exch' = exch,
         NEW f, f = [Newest EXCEPT ![r] = v], Consistent(k, f, exch, S)
  PROVE  LedgerInvFor(S)'
<1>1. rows' = rows /\ draft' = [draft EXCEPT ![r] = v] /\ holder' = [holder EXCEPT ![r] = c]
  BY DEF Ledger!Write
<1>2. \A q \in Entries : holder[q] \in {NoValue, c}
  BY CycleIsAlone
<1>3. holder' \in [Entries -> Slots \cup {NoValue}] /\ \A q \in Entries : holder'[q] \in {NoValue, c}
  BY <1>1, <1>2 DEF LedgerInvFor
<1>4. PICK V : draft \in [Entries -> V]
  BY DEF LedgerInvFor
<1>5. /\ draft' \in [Entries -> V \cup {v}] /\ draft'[r] = v
      /\ \A q \in Entries : q # r => draft'[q] = draft[q]
  BY <1>1, <1>4
<1>6. Newest' = f
  <2>1. NoValue # c
    BY LedgerConstantsAre
  <2>2. holder'[r] = c /\ \A q \in Entries : q # r => holder'[q] = holder[q]
    BY <1>1 DEF LedgerInvFor
  <2>3. \A q \in Entries : Ledger!Latest(q)' = IF q = r THEN v ELSE Ledger!Latest(q)
    BY <1>1, <1>5, <2>1, <2>2 DEF Ledger!Latest
  <2>4. Newest' = [q \in Entries |-> IF q = r THEN v ELSE Ledger!Latest(q)]
    BY <2>3 DEF Newest
  <2>5. f = [q \in Entries |-> IF q = r THEN v ELSE Ledger!Latest(q)]
    BY DEF Newest
  <2> QED BY <2>4, <2>5
<1>7. OwnRows(Newest)
  BY DEF LedgerInvFor
<1>8. OwnRows(f)
  BY <1>7, OwnRowsWith, ZenonT(60)
<1>9. Margins(S, f) <= Allocation
  <2>1. IsFiniteSet(Entries) /\ v \in Ledger!Row
    BY LedgerConstantsAre DEF OwnRow
  <2>2. PICK e : e = Newest
    OBVIOUS
  <2>3. OwnRows(e) /\ f = [e EXCEPT ![r] = v]
        /\ Margins(S, e) + (Margin(S, v) - Margin(S, e[r])) <= Allocation
    BY <1>7, <2>2
  <2> QED BY <2>1, <2>3, StillCovered
<1>10. exch' \in [Coins -> Int] /\ Consistent(k, f, exch', S)
  BY DEF LedgerInvFor
<1>11. \E W : draft' \in [Entries -> W]
  BY <1>5
<1> QED BY <1>1, <1>3, <1>6, <1>8, <1>9, <1>10, <1>11, LedgerSuffices

-----------------------------------------------------------------------------
(* The local state of a cycle.                                              *)
LEMMA LocalIs ==
  ASSUME NEW k \in Ledger!Cycle
  PROVE  /\ k.pc \in Ledger!Pcs /\ k.agent \in {Agent, NoValue} /\ k.symbol \in Coins \cup {NoValue}
         /\ k.side \in {1, -1} /\ k.row \in Entries \cup {NoValue} /\ k.existing \in BOOLEAN
         /\ k.seen \in Nat /\ k.seenUsd \in Nat /\ k.fill \in Nat /\ k.cost \in Nat
BY DEF Ledger!Cycle, Ledger!Sides

LEMMA ReadyIs ==
  /\ Ledger!ReadyCycle(Agent) \in Ledger!Cycle /\ Ledger!ReadyCycle(Agent).pc = "ready"
  /\ Ledger!ReadyCycle(Agent).agent = Agent /\ ~Ledger!ReadyCycle(Agent).existing
  /\ Ledger!IdleCycle \in Ledger!Cycle /\ Ledger!IdleCycle.pc = "idle"
  /\ Ledger!IdleCycle.agent = NoValue
BY DEF Ledger!ReadyCycle, Ledger!IdleCycle, Ledger!Cycle, Ledger!Pcs, Ledger!Sides

LEMMA GoesTo ==
  ASSUME NEW j \in Ledger!Cycle, NEW p \in Ledger!Pcs, NEW k, k = [j EXCEPT !.pc = p]
  PROVE  /\ k \in Ledger!Cycle /\ k.pc = p /\ k.agent = j.agent /\ k.symbol = j.symbol
         /\ k.side = j.side /\ k.row = j.row /\ k.existing = j.existing /\ k.seen = j.seen
         /\ k.fill = j.fill /\ k.seenUsd = j.seenUsd /\ k.cost = j.cost
BY DEF Ledger!Cycle

\* Neither ahead of the rows nor behind them.
Level(k) == k.pc \notin {"record", "closerec"}

LEMMA LevelIs ==
  ASSUME NEW S, NEW j, NEW k, Level(j), Level(k), NEW f, NEW x, Balanced(j, f, x, S)
  PROVE  Balanced(k, f, x, S) /\ \A s \in S : Ahead(f, x, s, 0)
<1>1. \A s \in S : Ahead(f, x, s, 0)
  BY DEF Level, Balanced
<1> QED BY <1>1 DEF Level, Balanced

LEMMA LevelMoveKeeps ==
  ASSUME LedgerConstants, NEW S \in SUBSET Coins, LedgerInvFor(S), NEW c \in Slots,
         cyc[c].pc # "idle", Level(cyc[c]),
         NEW k \in Ledger!Cycle, k.pc # "idle", k.agent = Agent, cyc' = [cyc EXCEPT ![c] = k],
         UNCHANGED <<Ledger!ledger, recon>>, exch' \in [Coins -> Int],
         \A s \in S : exch'[s] = exch[s], Level(k),
         ClaimsAreHeld(k, Newest), Remembers(k, Newest, S)
  PROVE  LedgerInvFor(S)'
<1>1. Balanced(cyc[c], Newest, exch, S)
  BY CycleIsAlone DEF Consistent
<1>2. Balanced(k, Newest, exch, S)
  BY <1>1, LevelIs
<1>3. Consistent(k, Newest, exch', S)
  BY <1>2 DEF Consistent, Balanced, Ahead
<1> QED BY <1>3, MoveKeeps

\* No claim is pending unless the cycle is at one of its own.
LEMMA NothingPending ==
  ASSUME LedgerConstants, NEW S \in SUBSET Coins, LedgerInvFor(S), NEW c \in Slots,
         cyc[c].pc # "idle",
         cyc[c].pc \notin Ordering \/ cyc[c].existing
  PROVE  \A r \in Entries : Newest[r].status # "pending"
BY CycleIsAlone DEF Consistent, ClaimsAreHeld

LEMMA DoneKeeps ==
  ASSUME LedgerConstants, NEW S \in SUBSET Coins, LedgerInvFor(S), NEW c \in Slots,
         cyc[c].pc # "idle", Level(cyc[c]),
         cyc[c].pc \notin Ordering \/ cyc[c].existing, Ledger!Done(c),
         UNCHANGED <<Ledger!ledger, recon>>, exch' \in [Coins -> Int],
         \A s \in S : exch'[s] = exch[s]
  PROVE  LedgerInvFor(S)'
<1>1. PICK k : k = Ledger!ReadyCycle(Agent)
  OBVIOUS
<1>2. k \in Ledger!Cycle /\ k.pc = "ready" /\ k.agent = Agent /\ ~k.existing
  BY <1>1, ReadyIs
<1>3. cyc' = [cyc EXCEPT ![c] = k]
  BY <1>1, CycleIsAlone DEF Ledger!Done
<1>4. ClaimsAreHeld(k, Newest)
  BY NothingPending DEF ClaimsAreHeld
<1>5. Remembers(k, Newest, S) /\ Level(k)
  BY <1>2 DEF Remembers, Level, Deciding, Ordering
<1> QED BY <1>2, <1>3, <1>4, <1>5, LevelMoveKeeps

LEMMA GotoKeeps ==
  ASSUME LedgerConstants, NEW S \in SUBSET Coins, LedgerInvFor(S), NEW c \in Slots,
         cyc[c].pc # "idle", Level(cyc[c]),
         NEW p \in Ledger!Pcs, p \notin {"idle", "record", "closerec"}, Ledger!Goto(c, p),
         UNCHANGED <<Ledger!ledger, recon>>, exch' \in [Coins -> Int],
         \A s \in S : exch'[s] = exch[s],
         \A k \in Ledger!Cycle :
            /\ k.pc = p /\ k.symbol = cyc[c].symbol /\ k.side = cyc[c].side /\ k.row = cyc[c].row
            /\ k.existing = cyc[c].existing /\ k.seen = cyc[c].seen
            /\ k.seenUsd = cyc[c].seenUsd
            => ClaimsAreHeld(k, Newest) /\ Remembers(k, Newest, S)
  PROVE  LedgerInvFor(S)'
<1>1. PICK k : k = [cyc[c] EXCEPT !.pc = p]
  OBVIOUS
<1>2. cyc[c] \in Ledger!Cycle /\ cyc[c].agent = Agent
  BY CycleIsAlone
<1>3. /\ k \in Ledger!Cycle /\ k.pc = p /\ k.agent = Agent /\ k.symbol = cyc[c].symbol
      /\ k.side = cyc[c].side /\ k.row = cyc[c].row /\ k.existing = cyc[c].existing
      /\ k.seen = cyc[c].seen /\ k.seenUsd = cyc[c].seenUsd
  BY <1>1, <1>2, GoesTo
<1>4. cyc' = [cyc EXCEPT ![c] = k]
  BY <1>1 DEF Ledger!Goto
<1>5. ClaimsAreHeld(k, Newest) /\ Remembers(k, Newest, S)
  BY <1>3
<1>6. Level(k) /\ k.pc # "idle"
  BY <1>3 DEF Level
<1> QED BY <1>3, <1>4, <1>5, <1>6, LevelMoveKeeps

-----------------------------------------------------------------------------
(* Claiming a slot.                                                         *)
LEMMA DecideOpenKeeps ==
  ASSUME LedgerConstants, NEW S \in SUBSET Coins, LedgerInvFor(S), NEW c \in Slots,
         NEW s \in Coins, NEW sd \in Ledger!Sides,
         Ledger!DecideOpen(c, s, sd)
  PROVE  LedgerInvFor(S)'
<1>1. cyc[c].pc = "ready" /\ exch' = exch
      /\ exch' \in [Coins -> Int] /\ UNCHANGED <<Ledger!ledger, recon>>
  BY DEF Ledger!DecideOpen, Ledger!At, LedgerInvFor
<1>2. cyc[c] \in Ledger!Cycle /\ cyc[c].agent = Agent /\ Consistent(cyc[c], Newest, exch, S)
  BY <1>1, CycleIsAlone
<1>3. sd = 1
  BY <1>2 DEF Ledger!DecideOpen
<1>4. PICK k : k = [cyc[c] EXCEPT !.pc = "claim", !.symbol = s, !.side = 1]
  OBVIOUS
<1>5. k \in Ledger!Cycle
  BY <1>2, <1>4 DEF Ledger!Cycle, Ledger!Pcs, Ledger!Sides
<1>6. k.pc = "claim" /\ k.symbol = s /\ k.side = 1 /\ k.agent = Agent /\ k.existing = cyc[c].existing
  BY <1>2, <1>4 DEF Ledger!Cycle
<1>7. cyc' = [cyc EXCEPT ![c] = k]
  BY <1>3, <1>4 DEF Ledger!DecideOpen
<1>8. ~k.existing
  BY <1>1, <1>2, <1>6 DEF Consistent, Remembers
<1>9. ClaimsAreHeld(k, Newest)
  BY <1>1, NothingPending DEF ClaimsAreHeld, Ordering
<1>10. Remembers(k, Newest, S) /\ Level(k) /\ Level(cyc[c])
  BY <1>1, <1>6, <1>8 DEF Remembers, Level, Deciding, Ordering
<1> QED BY <1>1, <1>5, <1>6, <1>7, <1>9, <1>10, LevelMoveKeeps

LEMMA LockKeeps ==
  ASSUME LedgerConstants, NEW S \in SUBSET Coins, LedgerInvFor(S), NEW c \in Slots,
         \/ Ledger!TakeCapitalLock(c) \/ Ledger!CapitalLockTimeout(c)
         \/ Ledger!CapitalExceeded(c) \/ Ledger!ClaimConflict(c)
  PROVE  LedgerInvFor(S)'
<1>1. CASE Ledger!TakeCapitalLock(c)
  <2>1. cyc[c].pc = "claim" /\ Ledger!Goto(c, "check") /\ exch' = exch /\ exch' \in [Coins -> Int]
        /\ UNCHANGED <<Ledger!ledger, recon>>
    BY <1>1 DEF Ledger!TakeCapitalLock, Ledger!At, LedgerInvFor
  <2>2. Consistent(cyc[c], Newest, exch, S) /\ Level(cyc[c])
    BY <2>1, CycleIsAlone DEF Level
  <2>3. "check" \in Ledger!Pcs /\ "check" \notin {"idle", "record", "closerec"}
    BY DEF Ledger!Pcs
  <2>4. ASSUME NEW k \in Ledger!Cycle, k.pc = "check", k.symbol = cyc[c].symbol,
               k.side = cyc[c].side, k.existing = cyc[c].existing
        PROVE  ClaimsAreHeld(k, Newest) /\ Remembers(k, Newest, S)
    BY <2>1, <2>2, <2>4
       DEF Consistent, ClaimsAreHeld, Remembers, Deciding, Ordering
  <2> QED BY <2>1, <2>2, <2>3, <2>4, GotoKeeps
<1>2. CASE Ledger!CapitalLockTimeout(c) \/ Ledger!CapitalExceeded(c) \/ Ledger!ClaimConflict(c)
  <2>1. cyc[c].pc \in {"claim", "check", "insert"} /\ Ledger!Done(c) /\ exch' = exch /\ exch' \in [Coins -> Int]
        /\ UNCHANGED <<Ledger!ledger, recon>>
    BY <1>2 DEF Ledger!CapitalLockTimeout, Ledger!CapitalExceeded, Ledger!ClaimConflict, Ledger!At, LedgerInvFor
  <2> QED BY <2>1, DoneKeeps DEF Level, Ordering
<1> QED BY <1>1, <1>2

(* The capital check adds up what the cycle sees, which is what there is.   *)
LEMMA CapitalIs ==
  ASSUME LedgerConstants, NEW S \in SUBSET Coins, LedgerInvFor(S), NEW c \in Slots,
         cyc[c].pc # "idle",
         Ledger!CapitalAllows(c, cyc[c].agent)
  PROVE  Margins(S, Newest) + 1 <= Allocation
<1>1. cyc[c].agent = Agent /\ \A r \in Entries : Ledger!Visible(c, r) = Newest[r]
  BY CycleIsAlone
<1>2. Ledger!UsedMargin(c, Agent) =
        Total([r \in Entries |-> Newest[r].usd],
              {r \in Entries : Newest[r].status = "open" /\ Newest[r].agent = Agent})
  <2>1. PICK a, T : /\ a = [r \in Entries |-> Newest[r].usd]
                    /\ T = {r \in Entries : Newest[r].status = "open" /\ Newest[r].agent = Agent}
    OBVIOUS
  <2>2. /\ a = [r \in Entries |-> Ledger!Visible(c, r).usd]
        /\ T = {r \in Entries : /\ Ledger!Visible(c, r).status = "open"
                                 /\ Ledger!Visible(c, r).agent = Agent}
    BY <1>1, <2>1
  <2>3. Ledger!UsedMargin(c, Agent) = Ledger!Total(a, T)
    BY <2>2 DEF Ledger!UsedMargin
  <2> QED BY <2>1, <2>3, SameLedger
<1>3. IsFiniteSet(Entries) /\ OwnRows(Newest) /\ Allocation \in Nat
  BY LedgerConstantsAre DEF LedgerInvFor
<1>4. Ledger!UsedMargin(c, Agent) = Margins(Coins, Newest)
  <2>1. PICK f, T : /\ f = Newest
                    /\ T = {r \in Entries : /\ f[r].status = "open" /\ f[r].agent = Agent
                                             /\ f[r].symbol \in Coins}
    OBVIOUS
  <2>2. T = {r \in Entries : Newest[r].status = "open" /\ Newest[r].agent = Agent}
    BY <1>3, <2>1 DEF OwnRows, OwnRow, Ledger!Live
  <2> QED BY <1>2, <1>3, <2>1, <2>2, OpenMargins
<1>5. /\ Margins(S, Newest) <= Margins(Coins, Newest)
      /\ Margins(S, Newest) \in Int /\ Margins(Coins, Newest) \in Int
  BY <1>3, MarginsShrink
<1>6. Ledger!UsedMargin(c, Agent) + 1 <= Allocation
  BY <1>1 DEF Ledger!CapitalAllows
<1> QED BY <1>3, <1>4, <1>5, <1>6

LEMMA ClaimExistingKeeps ==
  ASSUME LedgerConstants, NEW S \in SUBSET Coins, LedgerInvFor(S), NEW c \in Slots,
         Ledger!ClaimExisting(c)
  PROVE  LedgerInvFor(S)'
<1>1. cyc[c].pc = "check" /\ exch' = exch
      /\ exch' \in [Coins -> Int] /\ UNCHANGED <<Ledger!ledger, recon>>
  BY DEF Ledger!ClaimExisting, Ledger!At, LedgerInvFor
<1>2. /\ cyc[c] \in Ledger!Cycle /\ cyc[c].agent = Agent /\ Consistent(cyc[c], Newest, exch, S)
      /\ \A r \in Entries : Ledger!Visible(c, r) = Newest[r]
  BY <1>1, CycleIsAlone
<1>3. Margins(S, Newest) + 1 <= Allocation
  BY <1>1, CapitalIs, SMTT(60) DEF Ledger!ClaimExisting
<1>4. PICK r \in Ledger!SlotRows(c, cyc[c].agent, cyc[c].symbol) :
         cyc' = [cyc EXCEPT ![c].pc = "order", ![c].row = r,
                            ![c].existing = Ledger!Visible(c, r).status = "open",
                            ![c].seen = Ledger!Visible(c, r).size,
                            ![c].seenUsd = Ledger!Visible(c, r).usd]
  BY DEF Ledger!ClaimExisting
<1>5. r \in Entries /\ Ledger!Live(Newest[r]) /\ Newest[r].symbol = cyc[c].symbol
  BY <1>2, <1>4 DEF Ledger!SlotRows, Ledger!HasKey
<1>6. Newest[r].status = "open"
  BY <1>1, <1>5, NothingPending DEF Ledger!Live, Ordering
<1>7. Newest[r] \in Ledger!Row /\ Newest[r].size \in Nat /\ Newest[r].usd \in Nat
  BY <1>5, LedgerRowIs DEF LedgerInvFor, OwnRows
<1>8. PICK n \in Nat, m \in Nat : n = Newest[r].size /\ m = Newest[r].usd
  BY <1>7
<1>9. PICK k : k = [cyc[c] EXCEPT !.pc = "order", !.row = r, !.existing = TRUE, !.seen = n,
                                  !.seenUsd = m]
  OBVIOUS
<1>10. k \in Ledger!Cycle
  BY <1>2, <1>5, <1>9 DEF Ledger!Cycle, Ledger!Pcs
<1>11. /\ k.pc = "order" /\ k.agent = Agent /\ k.symbol = cyc[c].symbol /\ k.side = cyc[c].side
       /\ k.row = r /\ k.existing /\ k.seen = n /\ k.seenUsd = m
  BY <1>2, <1>9 DEF Ledger!Cycle
<1>12. cyc' = [cyc EXCEPT ![c] = k]
  <2>1. Ledger!Visible(c, r) = Newest[r] /\ (Ledger!Visible(c, r).status = "open") = TRUE
    BY <1>2, <1>5, <1>6
  <2> QED BY <1>4, <1>8, <1>9, <2>1
<1>13. ClaimsAreHeld(k, Newest)
  BY <1>1, NothingPending DEF ClaimsAreHeld, Ordering
<1>14. cyc[c].symbol \in Coins /\ cyc[c].side = 1
  BY <1>1, <1>2 DEF Consistent, Remembers, Deciding
<1>15. Remembers(k, Newest, S) /\ Level(k) /\ Level(cyc[c])
  BY <1>1, <1>3, <1>5, <1>6, <1>8, <1>11, <1>14 DEF Remembers, Level, Deciding, Ordering
<1> QED BY <1>1, <1>10, <1>11, <1>12, <1>13, <1>15, LevelMoveKeeps

LEMMA ClaimMissingKeeps ==
  ASSUME LedgerConstants, NEW S \in SUBSET Coins, LedgerInvFor(S), NEW c \in Slots,
         Ledger!ClaimMissing(c)
  PROVE  LedgerInvFor(S)'
<1>1. cyc[c].pc = "check" /\ Ledger!Goto(c, "insert") /\ exch' = exch /\ exch' \in [Coins -> Int]
      /\ UNCHANGED <<Ledger!ledger, recon>>
  BY DEF Ledger!ClaimMissing, Ledger!At, LedgerInvFor
<1>2. Consistent(cyc[c], Newest, exch, S) /\ Level(cyc[c])
  BY <1>1, CycleIsAlone DEF Level
<1>3. Margins(S, Newest) + 1 <= Allocation
  BY <1>1, CapitalIs DEF Ledger!ClaimMissing
<1>4. "insert" \in Ledger!Pcs /\ "insert" \notin {"idle", "record", "closerec"}
  BY DEF Ledger!Pcs
<1>5. ASSUME NEW k \in Ledger!Cycle, k.pc = "insert", k.symbol = cyc[c].symbol,
             k.side = cyc[c].side, k.existing = cyc[c].existing
      PROVE  ClaimsAreHeld(k, Newest) /\ Remembers(k, Newest, S)
  BY <1>1, <1>2, <1>3, <1>5
     DEF Consistent, ClaimsAreHeld, Remembers, Deciding, Ordering
<1> QED BY <1>1, <1>2, <1>4, <1>5, GotoKeeps

LEMMA ClaimInsertKeeps ==
  ASSUME LedgerConstants, NEW S \in SUBSET Coins, LedgerInvFor(S), NEW c \in Slots,
         Ledger!ClaimInsert(c)
  PROVE  LedgerInvFor(S)'
<1>1. cyc[c].pc = "insert" /\ exch' = exch /\ recon' = recon
  BY DEF Ledger!ClaimInsert, Ledger!At
<1>2. /\ cyc[c] \in Ledger!Cycle /\ cyc[c].agent = Agent /\ Consistent(cyc[c], Newest, exch, S)
      /\ \A r \in Entries : Ledger!Latest(r) = Newest[r]
  BY <1>1, CycleIsAlone
<1>3. /\ cyc[c].symbol \in Coins /\ cyc[c].side = 1 /\ ~cyc[c].existing
      /\ Margins(S, Newest) + 1 <= Allocation
  BY <1>1, <1>2 DEF Consistent, Remembers, Deciding
<1>4. PICK r \in Entries :
         /\ rows[r] = Ledger!Absent /\ holder[r] = NoValue
         /\ Ledger!Write(c, r, Ledger!Pending(cyc[c].agent, cyc[c].symbol, cyc[c].side))
         /\ cyc' = [cyc EXCEPT ![c].pc = "order", ![c].row = r]
  BY DEF Ledger!ClaimInsert
<1>5. PICK v : v = Ledger!Pending(Agent, cyc[c].symbol, 1)
  OBVIOUS
<1>6. OwnRow(v) /\ v.status = "pending" /\ v.symbol = cyc[c].symbol /\ Margin(S, v) = 0
  BY <1>3, <1>5, ClaimIs
<1>7. Ledger!Write(c, r, v)
  BY <1>2, <1>3, <1>4, <1>5
<1>8. Newest[r] = Ledger!Absent /\ Margin(S, Newest[r]) = 0
  BY <1>4, AbsentIs DEF Newest, Ledger!Latest
<1>9. \A q \in Entries : ~(Ledger!Live(Newest[q]) /\ Newest[q].symbol = v.symbol)
  <2> SUFFICES ASSUME NEW q \in Entries, Ledger!Live(Newest[q]), Newest[q].symbol = v.symbol
               PROVE  FALSE
    OBVIOUS
  <2>1. Newest[q].agent = Agent
    BY DEF LedgerInvFor, OwnRows, OwnRow
  <2> QED BY <1>2, <1>6, <2>1
          DEF Ledger!ClaimInsert, Ledger!SlotTaken, Ledger!InSlot, Ledger!HasKey
<1>10. PICK k : k = [cyc[c] EXCEPT !.pc = "order", !.row = r]
  OBVIOUS
<1>11. k \in Ledger!Cycle
  BY <1>2, <1>10 DEF Ledger!Cycle, Ledger!Pcs
<1>12. /\ k.pc = "order" /\ k.agent = Agent /\ k.symbol = cyc[c].symbol /\ k.side = 1
       /\ k.row = r /\ ~k.existing
  BY <1>2, <1>3, <1>10 DEF Ledger!Cycle
<1>13. cyc' = [cyc EXCEPT ![c] = k]
  BY <1>4, <1>10
<1>14. PICK f : f = [Newest EXCEPT ![r] = v]
  OBVIOUS
<1>15. f[r] = v /\ \A q \in Entries : q # r => f[q] = Newest[q]
  BY <1>14 DEF Newest
<1>16. ClaimsAreHeld(k, f)
  <2>1. \A q \in Entries : Newest[q].status # "pending"
    BY <1>1, NothingPending DEF Ordering
  <2> QED BY <1>12, <1>15, <2>1 DEF ClaimsAreHeld, Ordering
<1>17. Margins(S, Newest) \in Int /\ Margins(S, f) + 1 <= Allocation
  <2>1. IsFiniteSet(Entries) /\ v \in Ledger!Row /\ OwnRows(Newest)
    BY <1>6, LedgerConstantsAre DEF OwnRow, LedgerInvFor
  <2>2. PICK e : e = Newest
    OBVIOUS
  <2>3. OwnRows(e) /\ f = [e EXCEPT ![r] = v]
    BY <1>14, <2>1, <2>2
  <2>4. Margins(S, e) \in Int /\ Margins(S, f) = Margins(S, e) + (Margin(S, v) - Margin(S, e[r]))
    BY <2>1, <2>3, MarginsAfter
  <2> QED BY <1>3, <1>6, <1>8, <2>2, <2>4
<1>18. Remembers(k, f, S)
  BY <1>3, <1>6, <1>12, <1>15, <1>17 DEF Remembers, Deciding, Ordering
<1>19. Balanced(k, f, exch, S)
  <2>1. \A s \in S : Ahead(Newest, exch, s, 0)
    BY <1>1, <1>2, LevelIs DEF Consistent, Level
  <2>2. \A q \in Entries, s \in Coins : OpenIn(f, q, s) <=> OpenIn(Newest, q, s)
    BY <1>6, <1>8, <1>15, AbsentIs DEF OpenIn
  <2>3. \A q \in Entries, s \in Coins : OpenIn(f, q, s) => f[q] = Newest[q]
    BY <1>6, <1>15 DEF OpenIn
  <2>4. \A s \in S : Ahead(f, exch, s, 0)
    BY <2>1, <2>2, <2>3 DEF Ahead
  <2> QED BY <1>12, <2>4 DEF Balanced
<1>20. Margins(S, Newest) + (Margin(S, v) - Margin(S, Newest[r])) <= Allocation
  <2>1. Allocation \in Int
    BY LedgerConstantsAre
  <2> QED BY <1>3, <1>6, <1>8, <1>17, <2>1
<1>21. Consistent(k, f, exch, S) /\ k.pc # "idle"
  BY <1>12, <1>16, <1>18, <1>19 DEF Consistent
<1>22. cyc[c].pc # "idle"
  BY <1>1
<1>23. Ledger!Live(v) => \A q \in Entries : Ledger!Live(Newest[q]) /\ Newest[q].symbol = v.symbol => q = r
  BY <1>9
<1> QED BY <1>1, <1>6, <1>7, <1>11, <1>12, <1>13, <1>14, <1>20, <1>21, <1>22, <1>23, WriteKeeps

-----------------------------------------------------------------------------
(* Ordering.                                                                *)

\* A cycle at its order.
LEMMA AtOrder ==
  ASSUME LedgerConstants, NEW S \in SUBSET Coins, LedgerInvFor(S), NEW c \in Slots,
         cyc[c].pc \in Ordering
  PROVE  /\ cyc[c] \in Ledger!Cycle /\ cyc[c].agent = Agent /\ cyc[c].pc # "idle"
         /\ cyc[c].symbol \in Coins /\ cyc[c].side = 1 /\ cyc[c].row \in Entries
         /\ Newest[cyc[c].row].symbol = cyc[c].symbol
         /\ Newest[cyc[c].row].status = (IF cyc[c].existing THEN "open" ELSE "pending")
         /\ cyc[c].existing => /\ cyc[c].seen = Newest[cyc[c].row].size
                                  /\ cyc[c].seenUsd = Newest[cyc[c].row].usd
         /\ OwnRow(Newest[cyc[c].row]) /\ Ledger!Live(Newest[cyc[c].row])
         /\ ClaimsAreHeld(cyc[c], Newest) /\ Balanced(cyc[c], Newest, exch, S)
         /\ Margins(S, Newest) + 1 <= Allocation
         /\ cyc[c].pc = "record" /\ cyc[c].symbol \in S => cyc[c].fill = 1 /\ cyc[c].cost = 1
         /\ cyc[c].pc \in {"verify", "release"} => ~cyc[c].existing
<1>1. cyc[c].pc # "idle"
  BY DEF Ordering
<1>2. /\ cyc[c] \in Ledger!Cycle /\ cyc[c].agent = Agent
      /\ ClaimsAreHeld(cyc[c], Newest) /\ Remembers(cyc[c], Newest, S) /\ Balanced(cyc[c], Newest, exch, S)
  BY <1>1, CycleIsAlone DEF Consistent
<1>3. /\ cyc[c].symbol \in Coins /\ cyc[c].side = 1 /\ cyc[c].row \in Entries
      /\ Newest[cyc[c].row].symbol = cyc[c].symbol
      /\ Newest[cyc[c].row].status = (IF cyc[c].existing THEN "open" ELSE "pending")
      /\ cyc[c].existing => /\ cyc[c].seen = Newest[cyc[c].row].size
                                  /\ cyc[c].seenUsd = Newest[cyc[c].row].usd
      /\ Margins(S, Newest) + 1 <= Allocation
      /\ cyc[c].pc = "record" /\ cyc[c].symbol \in S => cyc[c].fill = 1 /\ cyc[c].cost = 1
      /\ cyc[c].pc \in {"verify", "release"} => ~cyc[c].existing
  BY <1>2 DEF Remembers, Deciding
<1>4. OwnRow(Newest[cyc[c].row]) /\ Ledger!Live(Newest[cyc[c].row])
  BY <1>3 DEF LedgerInvFor, OwnRows, Ledger!Live
<1> QED BY <1>1, <1>2, <1>3, <1>4

\* An order goes on record: as it was filled, if its symbol is in S.
LEMMA ToRecordKeeps ==
  ASSUME LedgerConstants, NEW S \in SUBSET Coins, LedgerInvFor(S), NEW c \in Slots,
         cyc[c].pc \in {"order", "verify"}, UNCHANGED <<Ledger!ledger, recon>>,
         exch' \in [Coins -> Int], \A s \in S : s # cyc[c].symbol => exch'[s] = exch[s],
         NEW n \in Nat, NEW m \in Nat, Ledger!ToRecord(c, n, m),
         cyc[c].symbol \in S =>
            n = 1 /\ m = 1 /\ exch'[cyc[c].symbol] = exch[cyc[c].symbol] + 1
  PROVE  LedgerInvFor(S)'
<1>1. cyc[c].pc \in Ordering /\ Level(cyc[c])
  BY DEF Ordering, Level
<1>2. PICK k : k = [cyc[c] EXCEPT !.pc = "record", !.fill = n, !.cost = m]
  OBVIOUS
<1>3. k \in Ledger!Cycle
  BY <1>1, <1>2, AtOrder DEF Ledger!Cycle, Ledger!Pcs
<1>4. /\ k.pc = "record" /\ k.fill = n /\ k.cost = m /\ k.agent = Agent
      /\ k.symbol = cyc[c].symbol /\ k.side = 1 /\ k.row = cyc[c].row
      /\ k.existing = cyc[c].existing /\ k.seen = cyc[c].seen /\ k.seenUsd = cyc[c].seenUsd
  BY <1>1, <1>2, AtOrder DEF Ledger!Cycle
<1>5. cyc' = [cyc EXCEPT ![c] = k]
  BY <1>2 DEF Ledger!ToRecord
<1>6. \A s \in S : Ahead(Newest, exch, s, 0)
  BY <1>1, AtOrder, LevelIs
<1>7. Balanced(k, Newest, exch', S)
  <2>1. \A s \in S : exch[s] \in Int
    BY DEF LedgerInvFor
  <2>2. \A r \in Entries : Newest[r].size \in Nat
    BY LedgerRowIs DEF LedgerInvFor, OwnRows
  <2>3. k.symbol \in S => Ahead(Newest, exch', k.symbol, 1)
    BY <1>4, <1>6, <2>1, <2>2 DEF Ahead
  <2>4. \A s \in S : s # k.symbol => Ahead(Newest, exch', s, 0)
    BY <1>4, <1>6 DEF Ahead
  <2> QED BY <1>4, <2>3, <2>4 DEF Balanced
<1>8. ClaimsAreHeld(k, Newest) /\ Remembers(k, Newest, S)
  BY <1>1, <1>4, AtOrder DEF ClaimsAreHeld, Remembers, Deciding, Ordering
<1>9. Consistent(k, Newest, exch', S)
  BY <1>7, <1>8 DEF Consistent
<1>10. cyc[c].pc # "idle" /\ k.pc # "idle"
  BY <1>4
<1> QED BY <1>3, <1>4, <1>5, <1>9, <1>10, MoveKeeps

LEMMA OrderFilledKeeps ==
  ASSUME LedgerConstants, NEW S \in SUBSET Coins, LedgerInvFor(S), NEW c \in Slots,
         Ledger!OrderFilled(c)
  PROVE  LedgerInvFor(S)'
<1>1. cyc[c].pc = "order" /\ UNCHANGED <<Ledger!ledger, recon>> /\ Ledger!ToRecord(c, 1, 1)
  BY DEF Ledger!OrderFilled, Ledger!At
<1>2. cyc[c].pc \in Ordering /\ cyc[c].pc \in {"order", "verify"}
  BY <1>1 DEF Ordering
<1>3. /\ cyc[c].symbol \in Coins /\ exch \in [Coins -> Int]
      /\ exch' = [exch EXCEPT ![cyc[c].symbol] = exch[cyc[c].symbol] + 1]
  BY <1>2, AtOrder DEF Ledger!OrderFilled, LedgerInvFor
<1>4. PICK n \in Int : n = exch[cyc[c].symbol] + 1
  BY <1>3
<1>5. exch' = [exch EXCEPT ![cyc[c].symbol] = n]
  BY <1>3, <1>4
<1>6. /\ exch' \in [Coins -> Int] /\ exch'[cyc[c].symbol] = n
      /\ \A s \in Coins : s # cyc[c].symbol => exch'[s] = exch[s]
  BY <1>3, <1>5
<1>7. PICK one \in Nat : one = 1
  OBVIOUS
<1>8. Ledger!ToRecord(c, one, one)
  BY <1>1, <1>7
<1> QED BY <1>1, <1>2, <1>4, <1>6, <1>7, <1>8, ToRecordKeeps

\* An order that does not report its fill, or a position adopted after an exception.
LEMMA UnsureKeeps ==
  ASSUME LedgerConstants, NEW S \in SUBSET Coins, LedgerInvFor(S), NEW c \in Slots,
         Ledger!OrderUnreported(c) \/ Ledger!VerifyFound(c), cyc[c].symbol \notin S
  PROVE  LedgerInvFor(S)'
<1>1. /\ cyc[c].pc \in {"order", "verify"} /\ cyc[c].pc \in Ordering
      /\ UNCHANGED <<Ledger!ledger, recon>>
  BY DEF Ledger!OrderUnreported, Ledger!VerifyFound, Ledger!At, Ordering
<1>2. cyc[c].symbol \in Coins /\ cyc[c].side = 1 /\ exch \in [Coins -> Int]
  BY <1>1, AtOrder DEF LedgerInvFor
<1>3. /\ exch' \in [Coins -> Int]
      /\ \A s \in Coins : s # cyc[c].symbol => exch'[s] = exch[s]
  <2>1. CASE Ledger!OrderUnreported(c)
    <3>1. PICK d \in {0, cyc[c].side} :
             exch' = [exch EXCEPT ![cyc[c].symbol] = exch[cyc[c].symbol] + d]
      BY <2>1 DEF Ledger!OrderUnreported
    <3>2. PICK n \in Int : n = exch[cyc[c].symbol] + d
      BY <1>2, <3>1
    <3>3. exch' = [exch EXCEPT ![cyc[c].symbol] = n]
      BY <3>1, <3>2
    <3> QED BY <1>2, <3>2, <3>3
  <2>2. CASE Ledger!VerifyFound(c)
    BY <1>2, <2>2 DEF Ledger!VerifyFound
  <2> QED BY <2>1, <2>2
<1>4. PICK n \in Nat, m \in Nat : Ledger!ToRecord(c, n, m)
  <2>1. CASE Ledger!OrderUnreported(c)
    <3>1. PICK n \in Guesses : Ledger!ToRecord(c, n, 1)
      BY <2>1 DEF Ledger!OrderUnreported
    <3>2. n \in Nat
      BY <3>1 DEF LedgerConstants, Ledger!ParametersAssumption
    <3> QED BY <3>1, <3>2
  <2>2. CASE Ledger!VerifyFound(c)
    <3>1. PICK n : n = Ledger!Magnitude(exch[cyc[c].symbol])
      OBVIOUS
    <3>2. n \in Nat
      BY <1>2, <3>1 DEF Ledger!Magnitude
    <3> QED BY <2>2, <3>1, <3>2 DEF Ledger!VerifyFound
  <2> QED BY <2>1, <2>2
<1> QED BY <1>1, <1>3, <1>4, ToRecordKeeps

LEMMA OrderFailsKeeps ==
  ASSUME LedgerConstants, NEW S \in SUBSET Coins, LedgerInvFor(S), NEW c \in Slots,
         Ledger!OrderRejected(c) \/ Ledger!OrderRaised(c) \/ Ledger!VerifyNothing(c)
  PROVE  LedgerInvFor(S)'
<1>1. /\ cyc[c].pc \in {"order", "verify"} /\ exch' = exch
      /\ exch' \in [Coins -> Int] /\ UNCHANGED <<Ledger!ledger, recon>>
      /\ \/ cyc[c].existing /\ Ledger!Done(c)
         \/ ~cyc[c].existing /\ \E p \in {"verify", "release"} : Ledger!Goto(c, p)
  <2>1. cyc[c].pc = "verify" => ~cyc[c].existing
    BY AtOrder DEF Ordering
  <2> QED BY <2>1 DEF LedgerInvFor, Ledger!OrderRejected, Ledger!OrderFailed, Ledger!OrderRaised, Ledger!VerifyNothing, Ledger!At
<1>2. cyc[c].pc \in Ordering /\ Level(cyc[c]) /\ cyc[c].pc # "idle"
  BY <1>1 DEF Ordering, Level
<1>3. CASE cyc[c].existing /\ Ledger!Done(c)
  BY <1>1, <1>2, <1>3, DoneKeeps
<1>4. CASE ~cyc[c].existing /\ \E p \in {"verify", "release"} : Ledger!Goto(c, p)
  <2>1. PICK p \in {"verify", "release"} : Ledger!Goto(c, p)
    BY <1>4
  <2>2. p \in Ledger!Pcs /\ p \notin {"idle", "record", "closerec"}
    BY DEF Ledger!Pcs
  <2>3. ASSUME NEW k \in Ledger!Cycle, k.pc = p, k.symbol = cyc[c].symbol, k.side = cyc[c].side,
               k.row = cyc[c].row, k.existing = cyc[c].existing, k.seen = cyc[c].seen,
               k.seenUsd = cyc[c].seenUsd
        PROVE  ClaimsAreHeld(k, Newest) /\ Remembers(k, Newest, S)
    BY <1>2, <1>4, <2>3, AtOrder DEF ClaimsAreHeld, Remembers, Deciding, Ordering
  <2> QED BY <1>1, <1>2, <2>1, <2>2, <2>3, GotoKeeps
<1> QED BY <1>1, <1>3, <1>4

(* The account has nothing in the symbol of a fresh claim, if it is in S.  *)
LEMMA NothingToVerify ==
  ASSUME LedgerConstants, NEW S \in SUBSET Coins, LedgerInvFor(S), NEW c \in Slots,
         Ledger!VerifyFound(c)
  PROVE  cyc[c].symbol \notin S
<1> SUFFICES ASSUME cyc[c].pc = "verify", exch[cyc[c].symbol] # 0, cyc[c].symbol \in S
             PROVE  FALSE
  BY DEF Ledger!VerifyFound, Ledger!At
<1>1. cyc[c].pc \in Ordering
  BY DEF Ordering
<1>2. /\ cyc[c].row \in Entries /\ Ledger!Live(Newest[cyc[c].row])
      /\ Newest[cyc[c].row].symbol = cyc[c].symbol /\ Newest[cyc[c].row].status = "pending"
      /\ Balanced(cyc[c], Newest, exch, S)
  BY <1>1, AtOrder
<1>3. \A r \in Entries : ~OpenIn(Newest, r, cyc[c].symbol)
  BY <1>2 DEF LedgerInvFor, OwnRows, OpenIn, Ledger!Live
<1>4. Ahead(Newest, exch, cyc[c].symbol, 0)
  BY <1>2, LevelIs DEF Level
<1> QED BY <1>3, <1>4 DEF Ahead

-----------------------------------------------------------------------------
(* Recording.                                                               *)
LEMMA RecordKeeps ==
  ASSUME LedgerConstants, NEW S \in SUBSET Coins, LedgerInvFor(S), NEW c \in Slots,
         cyc[c].pc = "record", NEW w, OwnRow(w), w.status = "open", w.symbol = cyc[c].symbol,
         Margin(S, w) = (IF w.symbol \in S THEN w.usd ELSE 0),
         cyc[c].symbol \in S =>
            IF cyc[c].existing THEN /\ w.size = Newest[cyc[c].row].size + 1
                                    /\ w.usd = Newest[cyc[c].row].usd + 1
            ELSE w.size = 1 /\ w.usd = 1,
         Ledger!Write(c, cyc[c].row, w), Ledger!Done(c), recon' = recon, exch' = exch
  PROVE  LedgerInvFor(S)'
<1>1. cyc[c].pc \in Ordering
  BY DEF Ordering
<1>2. PICK r, s : r = cyc[c].row /\ s = cyc[c].symbol
  OBVIOUS
<1>3. /\ r \in Entries /\ s \in Coins /\ Newest[r].symbol = s /\ Ledger!Live(Newest[r])
      /\ Newest[r].status = (IF cyc[c].existing THEN "open" ELSE "pending")
      /\ ClaimsAreHeld(cyc[c], Newest) /\ Balanced(cyc[c], Newest, exch, S)
      /\ Margins(S, Newest) + 1 <= Allocation
  BY <1>1, <1>2, AtOrder
<1>4. OwnRows(Newest) /\ exch \in [Coins -> Int]
  BY DEF LedgerInvFor
<1>5. PICK k : k = Ledger!ReadyCycle(Agent)
  OBVIOUS
<1>6. k \in Ledger!Cycle /\ k.pc = "ready" /\ k.agent = Agent /\ ~k.existing
  BY <1>5, ReadyIs
<1>7. cyc' = [cyc EXCEPT ![c] = k]
  BY <1>1, <1>5, AtOrder DEF Ledger!Done
<1>8. PICK f : f = [Newest EXCEPT ![r] = w]
  OBVIOUS
<1>9. f[r] = w /\ \A q \in Entries : q # r => f[q] = Newest[q]
  BY <1>3, <1>8 DEF Newest
<1>10. \A q \in Entries : Ledger!Live(Newest[q]) /\ Newest[q].symbol = s => q = r
  BY <1>3, <1>4 DEF OwnRows
<1>11. ClaimsAreHeld(k, f)
  <2>1. \A q \in Entries : Newest[q].status = "pending" => q = r
    BY <1>2, <1>3 DEF ClaimsAreHeld
  <2> QED BY <1>9, <2>1 DEF ClaimsAreHeld
<1>12. Remembers(k, f, S)
  BY <1>6 DEF Remembers, Deciding, Ordering
<1>13. Balanced(k, f, exch, S)
  <2>1. \A q \in Entries : OpenIn(f, q, s) <=> q = r
    BY <1>2, <1>3, <1>9, <1>10 DEF OpenIn, Ledger!Live
  <2>2. s \in S => exch[s] = w.size
    <3> SUFFICES ASSUME s \in S PROVE exch[s] = w.size
      OBVIOUS
    <3>1. Ahead(Newest, exch, s, 1)
      BY <1>2, <1>3 DEF Balanced
    <3>2. CASE cyc[c].existing
      BY <1>2, <1>3, <3>1, <3>2 DEF Ahead, OpenIn
    <3>3. CASE ~cyc[c].existing
      <4>1. \A q \in Entries : ~OpenIn(Newest, q, s)
        BY <1>3, <1>10, <3>3 DEF OpenIn, Ledger!Live
      <4> QED BY <1>2, <1>3, <3>1, <3>3, <4>1 DEF Ahead
    <3> QED BY <3>2, <3>3
  <2>3. s \in S => Ahead(f, exch, s, 0)
    <3>1. w.size \in Nat
      BY LedgerRowIs DEF OwnRow
    <3> QED BY <1>3, <1>9, <2>1, <2>2, <3>1 DEF Ahead
  <2>4. ASSUME NEW t \in S, t # s PROVE Ahead(f, exch, t, 0)
    <3>1. PICK z \in Int : z = 0
      OBVIOUS
    <3>2. Ahead(Newest, exch, t, z)
      BY <1>2, <1>3, <2>4, <3>1 DEF Balanced
    <3>3. ~OpenIn(Newest, r, t) /\ ~(w.status = "open" /\ w.symbol = t)
      BY <1>2, <1>3, <2>4 DEF OpenIn
    <3>4. Ahead(f, exch, t, z)
      BY <1>3, <1>4, <1>8, <3>2, <3>3, AheadAfter
    <3> QED BY <3>1, <3>4
  <2> QED BY <1>6, <2>3, <2>4 DEF Balanced
<1>14. Margins(S, Newest) + (Margin(S, w) - Margin(S, Newest[r])) <= Allocation
  <2>1. Newest[r] \in Ledger!Row /\ Newest[r].usd \in Nat
    BY <1>3, <1>4, LedgerRowIs DEF OwnRows
  <2>2. s \in S => Margin(S, w) - Margin(S, Newest[r]) = 1
    BY <1>2, <1>3, <2>1 DEF Margin
  <2>3. s \notin S => Margin(S, w) - Margin(S, Newest[r]) = 0
    BY <1>2, <1>3 DEF Margin
  <2>4. Margins(S, Newest) \in Int /\ Allocation \in Int
    BY <1>4, LedgerConstantsAre, MarginsShrink
  <2> QED BY <1>3, <2>2, <2>3, <2>4
<1>15. Consistent(k, f, exch, S) /\ k.pc # "idle" /\ cyc[c].pc # "idle"
  BY <1>6, <1>11, <1>12, <1>13 DEF Consistent
<1>16. Ledger!Write(c, r, w)
  BY <1>2
<1>17. Ledger!Live(w) => \A q \in Entries : Ledger!Live(Newest[q]) /\ Newest[q].symbol = w.symbol => q = r
  BY <1>2, <1>10
<1> QED BY <1>3, <1>6, <1>7, <1>8, <1>14, <1>15, <1>16, <1>17, WriteKeeps

LEMMA RecordingKeeps ==
  ASSUME LedgerConstants, NEW S \in SUBSET Coins, LedgerInvFor(S), NEW c \in Slots,
         Ledger!AccumulatePosition(c) \/ Ledger!ConfirmPosition(c) \/ Ledger!ConfirmNothing(c)
  PROVE  LedgerInvFor(S)'
<1>1. cyc[c].pc = "record" /\ Ledger!Done(c) /\ recon' = recon /\ exch' = exch
  BY DEF Ledger!AccumulatePosition, Ledger!ConfirmPosition, Ledger!ConfirmNothing, Ledger!At
<1>2. cyc[c].pc \in Ordering /\ cyc[c].pc # "idle"
  BY <1>1 DEF Ordering
<1>3. PICK v : v = Newest[cyc[c].row]
  OBVIOUS
<1>4. /\ cyc[c].row \in Entries /\ OwnRow(v) /\ Ledger!Live(v)
      /\ v.symbol = cyc[c].symbol /\ cyc[c].agent = Agent
      /\ cyc[c].symbol \in S => cyc[c].fill = 1 /\ cyc[c].cost = 1
      /\ v.status = (IF cyc[c].existing THEN "open" ELSE "pending")
      /\ cyc[c].existing => cyc[c].seen = v.size /\ cyc[c].seenUsd = v.usd
      /\ cyc[c].fill \in Nat /\ cyc[c].cost \in Nat
  BY <1>1, <1>2, <1>3, AtOrder, LocalIs
<1>5. Ledger!Visible(c, cyc[c].row) = v /\ Ledger!Latest(cyc[c].row) = v
  BY <1>2, <1>3, <1>4, CycleIsAlone
<1>6. Ledger!Accumulates(c) <=> cyc[c].existing
  BY <1>4 DEF Ledger!Accumulates
<1>7. ~Ledger!ConfirmNothing(c)
  BY <1>4, <1>5, <1>6 DEF Ledger!ConfirmNothing, Ledger!Confirmable
<1>8. v.size \in Nat /\ v.usd \in Nat /\ v \in Ledger!Row
  BY <1>4, LedgerRowIs DEF OwnRow
<1>9. PICK n \in Nat, m \in Nat :
         IF cyc[c].existing THEN n = v.size + cyc[c].fill /\ m = v.usd + cyc[c].cost
         ELSE n = cyc[c].fill /\ m = cyc[c].cost
  BY <1>4, <1>8
<1>10. PICK w : w = Confirmed(v, n, m)
  OBVIOUS
<1>11. /\ OwnRow(w) /\ w.status = "open" /\ w.size = n /\ w.usd = m /\ w.symbol = cyc[c].symbol
       /\ Margin(S, w) = IF w.symbol \in S THEN w.usd ELSE 0
  BY <1>4, <1>10, FilledIs
<1>12. CASE Ledger!AccumulatePosition(c)
  <2>1. cyc[c].existing
    BY <1>6, <1>12 DEF Ledger!AccumulatePosition
  <2>2. w = [v EXCEPT !.size = n, !.usd = m]
    BY <1>4, <1>8, <1>10, <2>1 DEF Confirmed, Ledger!Row
  <2>3. n = cyc[c].seen + cyc[c].fill /\ m = cyc[c].seenUsd + cyc[c].cost
    BY <1>4, <1>9, <2>1
  <2>4. Ledger!Write(c, cyc[c].row, w)
    BY <1>5, <1>12, <2>2, <2>3 DEF Ledger!AccumulatePosition
  <2>5. cyc[c].symbol \in S => w.size = v.size + 1 /\ w.usd = v.usd + 1
    BY <1>4, <1>9, <1>11, <2>1
  <2> QED BY <1>1, <1>3, <1>11, <2>1, <2>4, <2>5, RecordKeeps
<1>13. CASE Ledger!ConfirmPosition(c)
  <2>1. ~cyc[c].existing
    BY <1>6, <1>13 DEF Ledger!ConfirmPosition
  <2>2. Ledger!Write(c, cyc[c].row, w)
    BY <1>5, <1>9, <1>10, <1>13, <2>1 DEF Ledger!ConfirmPosition, Confirmed
  <2>3. cyc[c].symbol \in S => w.size = 1 /\ w.usd = 1
    BY <1>4, <1>9, <1>11, <2>1
  <2> QED BY <1>1, <1>3, <1>11, <2>1, <2>2, <2>3, RecordKeeps
<1> QED BY <1>7, <1>12, <1>13

(* A row that is not live any more, in a symbol the exchange is level in.   *)
LEMMA DropKeeps ==
  ASSUME LedgerConstants, NEW S \in SUBSET Coins, LedgerInvFor(S), NEW c \in Slots,
         cyc[c].pc # "idle",
         NEW r \in Entries, NEW w, OwnRow(w), ~Ledger!Live(w), Margin(S, w) = 0,
         \A q \in Entries : Newest[q].status = "pending" => q = r,
         \A s \in S : ~OpenIn(Newest, r, s) => Ahead(Newest, exch, s, 0),
         \A s \in S : OpenIn(Newest, r, s) => exch[s] = 0,
         Ledger!Write(c, r, w), Ledger!Done(c), recon' = recon, exch' = exch
  PROVE  LedgerInvFor(S)'
<1>1. OwnRows(Newest) /\ Newest[r] \in Ledger!Row /\ Margins(S, Newest) <= Allocation
  BY DEF LedgerInvFor, OwnRows
<1>2. PICK k : k = Ledger!ReadyCycle(Agent)
  OBVIOUS
<1>3. k \in Ledger!Cycle /\ k.pc = "ready" /\ k.agent = Agent /\ ~k.existing
  BY <1>2, ReadyIs
<1>4. cyc' = [cyc EXCEPT ![c] = k]
  BY <1>2, CycleIsAlone DEF Ledger!Done
<1>5. PICK f : f = [Newest EXCEPT ![r] = w]
  OBVIOUS
<1>6. f[r] = w /\ \A q \in Entries : q # r => f[q] = Newest[q]
  BY <1>5 DEF Newest
<1>7. ClaimsAreHeld(k, f)
  BY <1>6 DEF ClaimsAreHeld, Ledger!Live
<1>8. Remembers(k, f, S)
  BY <1>3 DEF Remembers, Deciding, Ordering
<1>9. Balanced(k, f, exch, S)
  <2>1. ASSUME NEW s \in S, ~OpenIn(Newest, r, s) PROVE Ahead(f, exch, s, 0)
    <3>1. PICK z \in Int : z = 0
      OBVIOUS
    <3>2. Ahead(Newest, exch, s, z)
      BY <2>1, <3>1
    <3>3. ~(w.status = "open" /\ w.symbol = s)
      BY DEF Ledger!Live
    <3>4. Ahead(f, exch, s, z)
      BY <1>1, <1>5, <2>1, <3>2, <3>3, AheadAfter
    <3> QED BY <3>1, <3>4
  <2>2. ASSUME NEW s \in S, OpenIn(Newest, r, s) PROVE Ahead(f, exch, s, 0)
    <3>1. \A q \in Entries : ~OpenIn(f, q, s)
      BY <1>1, <1>6, <2>2 DEF OpenIn, OwnRows, Ledger!Live
    <3> QED BY <2>2, <3>1 DEF Ahead
  <2> QED BY <1>3, <2>1, <2>2 DEF Balanced
<1>10. Margins(S, Newest) + (Margin(S, w) - Margin(S, Newest[r])) <= Allocation
  <2>1. IsFiniteSet(Entries) /\ Allocation \in Nat
    BY LedgerConstantsAre
  <2>2. Margin(S, Newest[r]) \in Nat
    BY <1>1, LedgerRowIs
  <2>3. Margins(S, Newest) \in Int
    BY <1>1, <1>5, <2>1, MarginsAfter DEF OwnRow
  <2> QED BY <1>1, <2>1, <2>2, <2>3
<1>11. Consistent(k, f, exch, S) /\ k.pc # "idle"
  BY <1>3, <1>7, <1>8, <1>9 DEF Consistent
<1> QED BY <1>3, <1>4, <1>5, <1>10, <1>11, WriteKeeps

LEMMA ReleaseKeeps ==
  ASSUME LedgerConstants, NEW S \in SUBSET Coins, LedgerInvFor(S), NEW c \in Slots,
         Ledger!ReleaseClaim(c)
  PROVE  LedgerInvFor(S)'
<1>1. cyc[c].pc = "release" /\ Ledger!Done(c) /\ recon' = recon /\ exch' = exch
  BY DEF Ledger!ReleaseClaim, Ledger!At
<1>2. cyc[c].pc \in Ordering /\ cyc[c].pc # "idle" /\ Level(cyc[c])
  BY <1>1 DEF Ordering, Level
<1>3. PICK r : r = cyc[c].row
  OBVIOUS
<1>4. /\ r \in Entries /\ Newest[r].status = "pending"
      /\ ClaimsAreHeld(cyc[c], Newest) /\ Balanced(cyc[c], Newest, exch, S)
  BY <1>1, <1>2, <1>3, AtOrder
<1>5. Ledger!Visible(c, r) = Newest[r]
  BY <1>2, <1>4, CycleIsAlone
<1>6. Ledger!Write(c, r, Ledger!Absent)
  BY <1>3, <1>4, <1>5 DEF Ledger!ReleaseClaim, Ledger!Confirmable
<1>7. \A q \in Entries : Newest[q].status = "pending" => q = r
  BY <1>3, <1>4 DEF ClaimsAreHeld
<1>8. \A s \in S : Ahead(Newest, exch, s, 0) /\ ~OpenIn(Newest, r, s)
  BY <1>2, <1>4, LevelIs DEF OpenIn
<1> QED BY <1>1, <1>2, <1>4, <1>6, <1>7, <1>8, AbsentIs, DropKeeps

-----------------------------------------------------------------------------
(* Closing.                                                                 *)
LEMMA DecideCloseKeeps ==
  ASSUME LedgerConstants, NEW S \in SUBSET Coins, LedgerInvFor(S), NEW c \in Slots,
         NEW s \in Coins, Ledger!DecideClose(c, s)
  PROVE  LedgerInvFor(S)'
<1>1. cyc[c].pc = "ready" /\ exch' = exch
      /\ exch' \in [Coins -> Int] /\ UNCHANGED <<Ledger!ledger, recon>>
  BY DEF Ledger!DecideClose, Ledger!At, LedgerInvFor
<1>2. /\ cyc[c] \in Ledger!Cycle /\ cyc[c].agent = Agent /\ Consistent(cyc[c], Newest, exch, S)
      /\ \A r \in Entries : Ledger!Visible(c, r) = Newest[r]
  BY <1>1, CycleIsAlone
<1>3. PICK slot, r : /\ slot = Ledger!SlotRows(c, cyc[c].agent, s)
                     /\ r \in (IF slot = {} THEN {NoValue} ELSE slot)
                     /\ cyc' = [cyc EXCEPT ![c].pc = "close", ![c].symbol = s, ![c].row = r]
  BY DEF Ledger!DecideClose
<1>4. \A q \in Entries : Newest[q].status # "pending"
  BY <1>1, NothingPending DEF Ordering
<1>5. \A q : q \in slot <=> q \in Entries /\ OpenIn(Newest, q, s)
  <2>1. \A q \in Entries : OpenIn(Newest, q, s) => Newest[q].agent = Agent
    BY DEF LedgerInvFor, OwnRows, OwnRow, OpenIn, Ledger!Live
  <2> QED BY <1>2, <1>3, <1>4, <2>1 DEF Ledger!SlotRows, Ledger!HasKey, Ledger!Live, OpenIn
<1>6. NoValue \notin Entries
  BY LedgerConstantsAre
<1>7. IF r = NoValue THEN \A q \in Entries : ~OpenIn(Newest, q, s)
      ELSE r \in Entries /\ OpenIn(Newest, r, s)
  BY <1>3, <1>5, <1>6
<1>8. PICK k : k = [cyc[c] EXCEPT !.pc = "close", !.symbol = s, !.row = r]
  OBVIOUS
<1>9. k \in Ledger!Cycle
  BY <1>2, <1>7, <1>8 DEF Ledger!Cycle, Ledger!Pcs
<1>10. k.pc = "close" /\ k.symbol = s /\ k.row = r /\ k.agent = Agent
  BY <1>2, <1>8 DEF Ledger!Cycle
<1>11. cyc' = [cyc EXCEPT ![c] = k]
  BY <1>3, <1>8
<1>12. ClaimsAreHeld(k, Newest)
  BY <1>4 DEF ClaimsAreHeld
<1>13. Remembers(k, Newest, S) /\ Level(k) /\ Level(cyc[c])
  BY <1>1, <1>7, <1>10 DEF Remembers, Level, Deciding, Ordering
<1> QED BY <1>1, <1>9, <1>10, <1>11, <1>12, <1>13, LevelMoveKeeps

LEMMA CloseRejectedKeeps ==
  ASSUME LedgerConstants, NEW S \in SUBSET Coins, LedgerInvFor(S), NEW c \in Slots,
         Ledger!CloseRejected(c)
  PROVE  LedgerInvFor(S)'
<1>1. cyc[c].pc = "close" /\ Ledger!Done(c) /\ exch' = exch
      /\ exch' \in [Coins -> Int] /\ UNCHANGED <<Ledger!ledger, recon>>
  BY DEF Ledger!CloseRejected, Ledger!At, LedgerInvFor
<1> QED BY <1>1, DoneKeeps DEF Level, Ordering

\* The account's position is closed, or said to be in a symbol outside S.
LEMMA ClosedKeeps ==
  ASSUME LedgerConstants, NEW S \in SUBSET Coins, LedgerInvFor(S), NEW c \in Slots,
         cyc[c].pc = "close", UNCHANGED <<Ledger!ledger, recon>>,
         IF cyc[c].row = NoValue THEN Ledger!Done(c) ELSE Ledger!Goto(c, "closerec"),
         exch' \in [Coins -> Int], \A t \in S : t # cyc[c].symbol => exch'[t] = exch[t],
         cyc[c].symbol \in S => exch'[cyc[c].symbol] = 0
  PROVE  LedgerInvFor(S)'
<1>1. /\ cyc[c] \in Ledger!Cycle /\ cyc[c].agent = Agent /\ cyc[c].pc # "idle"
      /\ Balanced(cyc[c], Newest, exch, S) /\ Remembers(cyc[c], Newest, S)
  BY CycleIsAlone DEF Consistent
<1>2. PICK s : s = cyc[c].symbol
  OBVIOUS
<1>3. /\ s \in Coins
      /\ IF cyc[c].row = NoValue THEN \A r \in Entries : ~OpenIn(Newest, r, s)
         ELSE cyc[c].row \in Entries /\ OpenIn(Newest, cyc[c].row, s)
  BY <1>1, <1>2 DEF Remembers
<1>4. \A t \in S : Ahead(Newest, exch, t, 0)
  BY <1>1, LevelIs DEF Level
<1>5. \A q \in Entries : Newest[q].status # "pending"
  BY NothingPending DEF Ordering
<1>6. CASE cyc[c].row = NoValue
  <2>1. \A t \in S : exch'[t] = exch[t]
    BY <1>2, <1>3, <1>4, <1>6 DEF Ahead
  <2> QED BY <1>1, <1>6, <2>1, DoneKeeps DEF Level, Ordering
<1>7. CASE cyc[c].row # NoValue
  <2>1. PICK k : k = [cyc[c] EXCEPT !.pc = "closerec"]
    OBVIOUS
  <2>2. k \in Ledger!Cycle /\ k.pc = "closerec" /\ k.agent = Agent /\ k.symbol = s /\ k.row = cyc[c].row
    BY <1>1, <1>2, <2>1 DEF Ledger!Cycle, Ledger!Pcs
  <2>3. cyc' = [cyc EXCEPT ![c] = k]
    BY <1>7, <2>1 DEF Ledger!Goto
  <2>4. ClaimsAreHeld(k, Newest) /\ Remembers(k, Newest, S)
    BY <1>3, <1>5, <1>7, <2>2 DEF ClaimsAreHeld, Remembers, Deciding, Ordering
  <2>5. Balanced(k, Newest, exch', S)
    <3>1. \A t \in S : t # s => Ahead(Newest, exch', t, 0)
      BY <1>2, <1>4 DEF Ahead
    <3> QED BY <1>2, <2>2, <3>1 DEF Balanced
  <2>6. Consistent(k, Newest, exch', S) /\ k.pc # "idle"
    BY <2>2, <2>4, <2>5 DEF Consistent
  <2> QED BY <1>1, <2>2, <2>3, <2>6, MoveKeeps
<1> QED BY <1>6, <1>7

LEMMA CloseFilledKeeps ==
  ASSUME LedgerConstants, NEW S \in SUBSET Coins, LedgerInvFor(S), NEW c \in Slots,
         \/ Ledger!CloseFilled(c)
         \/ Ledger!CloseUnreported(c) /\ cyc[c].symbol \notin S
  PROVE  LedgerInvFor(S)'
<1>1. /\ cyc[c].pc = "close" /\ UNCHANGED <<Ledger!ledger, recon>>
      /\ IF cyc[c].row = NoValue THEN Ledger!Done(c) ELSE Ledger!Goto(c, "closerec")
  BY DEF Ledger!CloseFilled, Ledger!CloseUnreported, Ledger!At
<1>2. exch \in [Coins -> Int] /\ cyc[c].symbol \in Coins
  BY <1>1, CycleIsAlone DEF LedgerInvFor, Consistent, Remembers
<1>3. CASE Ledger!CloseFilled(c)
  <2>1. exch' = [exch EXCEPT ![cyc[c].symbol] = 0]
    BY <1>3 DEF Ledger!CloseFilled
  <2>2. exch' \in [Coins -> Int]
    BY <1>2, <2>1
  <2>3. \A t \in S : t # cyc[c].symbol => exch'[t] = exch[t]
    BY <1>2, <2>1
  <2>4. cyc[c].symbol \in S => exch'[cyc[c].symbol] = 0
    BY <1>2, <2>1
  <2> QED BY <1>1, <2>2, <2>3, <2>4, ClosedKeeps
<1>4. CASE Ledger!CloseUnreported(c) /\ cyc[c].symbol \notin S
  <2>1. exch' = exch
    BY <1>4 DEF Ledger!CloseUnreported
  <2> QED BY <1>1, <1>2, <1>4, <2>1, ClosedKeeps
<1> QED BY <1>3, <1>4

LEMMA CloseRecordKeeps ==
  ASSUME LedgerConstants, NEW S \in SUBSET Coins, LedgerInvFor(S), NEW c \in Slots,
         Ledger!ClosePositionRecord(c)
  PROVE  LedgerInvFor(S)'
<1>1. cyc[c].pc = "closerec" /\ Ledger!Done(c) /\ recon' = recon /\ exch' = exch
  BY DEF Ledger!ClosePositionRecord, Ledger!At
<1>2. /\ cyc[c].pc # "idle" /\ Balanced(cyc[c], Newest, exch, S) /\ Remembers(cyc[c], Newest, S)
      /\ \A r \in Entries : Ledger!Latest(r) = Newest[r]
  BY <1>1, CycleIsAlone DEF Consistent
<1>3. PICK r, s : r = cyc[c].row /\ s = cyc[c].symbol
  OBVIOUS
<1>4. r \in Entries /\ s \in Coins /\ OpenIn(Newest, r, s)
  BY <1>1, <1>2, <1>3 DEF Remembers
<1>5. PICK w : w = Ledger!Closed(Newest[r])
  OBVIOUS
<1>6. OwnRow(w) /\ Margin(S, w) = 0 /\ ~Ledger!Live(w)
  BY <1>4, <1>5, ClosedRowIs DEF LedgerInvFor, OwnRows
<1>7. Ledger!Write(c, r, w)
  BY <1>2, <1>3, <1>4, <1>5 DEF Ledger!ClosePositionRecord
<1>8. \A q \in Entries : Newest[q].status = "pending" => q = r
  BY <1>1, <1>2, NothingPending DEF Ordering
<1>9. \A t \in S : OpenIn(Newest, r, t) => t = s
  BY <1>4 DEF OpenIn
<1>10. (s \in S => exch[s] = 0) /\ \A t \in S : t # s => Ahead(Newest, exch, t, 0)
  BY <1>1, <1>2, <1>3, <1>4 DEF Balanced
<1>11. \A t \in S : ~OpenIn(Newest, r, t) => Ahead(Newest, exch, t, 0)
  BY <1>4, <1>10
<1>12. \A t \in S : OpenIn(Newest, r, t) => exch[t] = 0
  BY <1>9, <1>10
<1> QED BY <1>1, <1>2, <1>4, <1>6, <1>7, <1>8, <1>11, <1>12, DropKeeps

-----------------------------------------------------------------------------
(* Cycles begin and end.                                                    *)
LEMMA LedgerBeginKeeps ==
  ASSUME LedgerConstants, NEW S \in SUBSET Coins, LedgerInvFor(S), NEW c \in Slots,
         NEW a \in {Agent}, Ledger!Begin(c, a)
  PROVE  LedgerInvFor(S)'
<1>1. /\ cyc' = [cyc EXCEPT ![c] = Ledger!ReadyCycle(Agent)]
      /\ UNCHANGED <<rows, draft, holder, exch, recon>>
      /\ \A d \in Slots : cyc[d].agent # Agent
  BY DEF Ledger!Begin, Ledger!ledger
<1>2. \A d \in Slots : cyc[d].pc = "idle"
  BY <1>1 DEF LedgerInvFor
<1>3. PICK k : k = Ledger!ReadyCycle(Agent)
  OBVIOUS
<1>4. k \in Ledger!Cycle /\ k.pc = "ready" /\ k.agent = Agent /\ ~k.existing
  BY <1>3, ReadyIs
<1>5. cyc' \in [Slots -> Ledger!Cycle] /\ cyc'[c] = k /\ \A d \in Slots : d # c => cyc'[d] = cyc[d]
  BY <1>1, <1>3, <1>4 DEF LedgerInvFor
<1>6. Newest' = Newest
  BY <1>1 DEF Newest, Ledger!Latest
<1>7. Consistent(k, Newest, exch, S)
  <2>1. PICK j : j = Ledger!IdleCycle
    OBVIOUS
  <2>2. j.pc = "idle" /\ Balanced(j, Newest, exch, S) /\ ClaimsAreHeld(j, Newest)
    BY <1>2, <2>1, ReadyIs DEF LedgerInvFor, Consistent
  <2>3. Balanced(k, Newest, exch, S)
    BY <1>4, <2>2, LevelIs DEF Level
  <2>4. ClaimsAreHeld(k, Newest)
    BY <2>2 DEF ClaimsAreHeld, Ordering
  <2>5. Remembers(k, Newest, S)
    BY <1>4 DEF Remembers, Deciding, Ordering
  <2> QED BY <2>3, <2>4, <2>5 DEF Consistent
<1>8. \A d \in Slots : cyc'[d].pc # "idle" => d = c
  BY <1>2, <1>5
<1>9. \A d, e \in Slots : cyc'[d].pc # "idle" /\ cyc'[e].pc # "idle" => d = e
  BY <1>8
<1>10. \A d \in Slots : cyc'[d].agent = IF cyc'[d].pc = "idle" THEN NoValue ELSE Agent
  BY <1>4, <1>5 DEF LedgerInvFor
<1>11. \A r \in Entries : holder'[r] # NoValue => cyc'[holder'[r]].pc # "idle"
  BY <1>1, <1>2 DEF LedgerInvFor
<1>12. \A d \in Slots : cyc'[d].pc # "idle" => Consistent(cyc'[d], Newest', exch', S)
  BY <1>1, <1>5, <1>6, <1>7, <1>8
<1>13. ~(\A d \in Slots : cyc'[d].pc = "idle")
  BY <1>4, <1>5
<1>14. /\ OwnRows(rows') /\ Margins(S, rows') <= Allocation /\ OwnRows(Newest') /\ Margins(S, Newest') <= Allocation
       /\ \A r \in Entries : rows'[r].status # "pending"
  BY <1>1, <1>6 DEF LedgerInvFor
<1>15. /\ \E V : draft' \in [Entries -> V]
       /\ holder' \in [Entries -> Slots \cup {NoValue}] /\ exch' \in [Coins -> Int]
       /\ recon' = Ledger!IdleRecon
  BY <1>1 DEF LedgerInvFor
<1> HIDE DEF Newest, OwnRows, Margins, Consistent
<1> QED BY <1>5, <1>9, <1>10, <1>11, <1>12, <1>13, <1>14, <1>15 DEF LedgerInvFor

LEMMA FinishKeeps ==
  ASSUME LedgerConstants, NEW S \in SUBSET Coins, LedgerInvFor(S), NEW c \in Slots,
         Ledger!Finish(c)
  PROVE  LedgerInvFor(S)'
<1>1. /\ cyc[c].pc = "ready" /\ cyc' = [cyc EXCEPT ![c] = Ledger!IdleCycle]
      /\ UNCHANGED <<exch, recon>>
      /\ rows' = [r \in Entries |-> IF holder[r] = c THEN draft[r] ELSE rows[r]]
      /\ draft' = [r \in Entries |-> IF holder[r] = c THEN Ledger!Absent ELSE draft[r]]
      /\ holder' = [r \in Entries |-> IF holder[r] = c THEN NoValue ELSE holder[r]]
  BY DEF Ledger!Finish, Ledger!At, Ledger!Commit
<1>2. /\ Consistent(cyc[c], Newest, exch, S) /\ \A d \in Slots : d # c => cyc[d].pc = "idle"
      /\ \A r \in Entries : holder[r] \in {NoValue, c}
  BY <1>1, CycleIsAlone
<1>3. NoValue # c
  BY LedgerConstantsAre
<1>4. rows' = Newest
  BY <1>1, <1>2, <1>3 DEF Newest, Ledger!Latest
<1>5. holder' = [r \in Entries |-> NoValue]
  BY <1>1, <1>2
<1>6. Newest' = Newest
  <2>1. \A r \in Entries : Ledger!Latest(r)' = Newest[r]
    BY <1>4, <1>5 DEF Ledger!Latest
  <2>2. Newest' = [r \in Entries |-> Newest[r]]
    BY <2>1 DEF Newest
  <2> QED BY <2>2 DEF Newest
<1>7. PICK k : k = Ledger!IdleCycle
  OBVIOUS
<1>8. k \in Ledger!Cycle /\ k.pc = "idle" /\ k.agent = NoValue
  BY <1>7, ReadyIs
<1>9. cyc' \in [Slots -> Ledger!Cycle] /\ cyc'[c] = k /\ \A d \in Slots : d # c => cyc'[d] = cyc[d]
  BY <1>1, <1>7, <1>8 DEF LedgerInvFor
<1>10. \A d \in Slots : cyc'[d].pc = "idle"
  BY <1>2, <1>8, <1>9
<1>11. \A r \in Entries : Newest[r].status # "pending"
  BY <1>1, NothingPending DEF Ordering
<1>12. Consistent(k, Newest, exch, S)
  <2>1. Balanced(k, Newest, exch, S)
    BY <1>1, <1>2, <1>8, LevelIs DEF Consistent, Level
  <2>2. ClaimsAreHeld(k, Newest)
    BY <1>11 DEF ClaimsAreHeld
  <2>3. Remembers(k, Newest, S)
    BY <1>8 DEF Remembers, Deciding, Ordering
  <2> QED BY <2>1, <2>2, <2>3 DEF Consistent
<1>13. \A d \in Slots : cyc'[d].agent = NoValue
  BY <1>2, <1>8, <1>9 DEF LedgerInvFor
<1>14. /\ OwnRows(rows') /\ Margins(S, rows') <= Allocation /\ OwnRows(Newest') /\ Margins(S, Newest') <= Allocation
       /\ \A r \in Entries : rows'[r].status # "pending"
  BY <1>4, <1>6, <1>11 DEF LedgerInvFor
<1>15. /\ \E V : draft' \in [Entries -> V]
       /\ holder' \in [Entries -> Slots \cup {NoValue}] /\ exch' \in [Coins -> Int]
       /\ recon' = Ledger!IdleRecon /\ \A r \in Entries : holder'[r] = NoValue
  <2>1. PICK V : draft \in [Entries -> V]
    BY DEF LedgerInvFor
  <2>2. draft' \in [Entries -> V \cup {Ledger!Absent}]
    BY <1>1, <2>1
  <2> QED BY <1>1, <1>5, <2>2, ZenonT(60) DEF LedgerInvFor
<1>16. Consistent(Ledger!IdleCycle', Newest', exch', S)
  BY <1>1, <1>6, <1>7, <1>12 DEF Ledger!IdleCycle
<1> HIDE DEF Newest, OwnRows, Margins, Consistent
<1> QED BY <1>9, <1>10, <1>13, <1>14, <1>15, <1>16 DEF LedgerInvFor

LEMMA LedgerRests ==
  ASSUME NEW S \in SUBSET Coins, LedgerInvFor(S), UNCHANGED <<rows, draft, holder, exch, cyc, recon>>
  PROVE  LedgerInvFor(S)'
<1>1. Newest' = Newest
  BY DEF Newest, Ledger!Latest
<1> HIDE DEF Newest
<1> QED BY <1>1 DEF LedgerInvFor

(* With one transaction nobody waits.                                       *)
LEMMA NobodyDeadlocks ==
  ASSUME LedgerConstants, NEW S \in SUBSET Coins, LedgerInvFor(S), NEW c \in Slots
  PROVE  ~Ledger!Abort(c)
<1> SUFFICES ASSUME Ledger!Abort(c) PROVE FALSE
  OBVIOUS
<1>1. cyc[c].pc # "idle" /\ Ledger!DeadlockVictim(c)
  BY DEF Ledger!Abort, Ledger!At
<1>2. \E r \in Entries : ~Ledger!Writable(c, r)
  BY <1>1 DEF Ledger!DeadlockVictim, Ledger!Waits
<1> QED BY <1>1, <1>2, CycleIsAlone

LEMMA NothingToReconcile ==
  ASSUME NEW S \in SUBSET Coins, LedgerInvFor(S), Ledger!Reconciliation
  PROVE  FALSE
<1>1. recon.pc = "idle" /\ recon.zombies = {}
  BY DEF LedgerInvFor, Ledger!IdleRecon
<1> QED BY <1>1 DEF Ledger!Reconciliation, Ledger!ReconFetch, Ledger!ReconScan, Ledger!ReconCleanup,
                    Ledger!ReconCommit, Ledger!ReconAbort, Ledger!ReconClose

LEMMA LedgerCycleKeeps ==
  ASSUME LedgerConstants, NEW S \in SUBSET Coins, LedgerInvFor(S), NEW c \in Slots,
         Ledger!CycleStep(c),
         Ledger!OrderUnreported(c) \/ Ledger!CloseUnreported(c) => cyc[c].symbol \notin S
  PROVE  LedgerInvFor(S)'
<1>1. CASE \E a \in {Agent} : Ledger!Begin(c, a)
  BY <1>1, LedgerBeginKeeps
<1>2. CASE Ledger!Claiming(c)
  BY <1>2, DecideOpenKeeps, LockKeeps, ClaimExistingKeeps, ClaimMissingKeeps, ClaimInsertKeeps
     DEF Ledger!Claiming
<1>3. CASE Ledger!Ordering(c)
  <2>1. ~Ledger!OrderAnswerLost(c)
    BY DEF Ledger!OrderAnswerLost
  <2> QED BY <1>3, <2>1, OrderFilledKeeps, UnsureKeeps, OrderFailsKeeps, NothingToVerify
          DEF Ledger!Ordering
<1>4. CASE Ledger!Recording(c)
  BY <1>4, RecordingKeeps, ReleaseKeeps DEF Ledger!Recording
<1>5. CASE Ledger!Closing(c)
  <2>1. ~Ledger!CloseAnswerLost(c)
    BY DEF Ledger!CloseAnswerLost
  <2> QED BY <1>5, <2>1, DecideCloseKeeps, CloseFilledKeeps, CloseRejectedKeeps, CloseRecordKeeps
          DEF Ledger!Closing
<1>6. CASE Ledger!Finish(c)
  BY <1>6, FinishKeeps
<1>7. ~Ledger!Abort(c)
  BY NobodyDeadlocks
<1> QED BY <1>1, <1>2, <1>3, <1>4, <1>5, <1>6, <1>7 DEF Ledger!CycleStep

(* What holds in some symbols holds in fewer.                               *)
LEMMA FewerKeeps ==
  ASSUME LedgerConstants, NEW S \in SUBSET Coins, LedgerInvFor(S), NEW T \in SUBSET S
  PROVE  LedgerInvFor(T)
<1>1. /\ OwnRows(rows) /\ Margins(S, rows) <= Allocation
      /\ OwnRows(Newest) /\ Margins(S, Newest) <= Allocation
      /\ IsFiniteSet(Entries) /\ Allocation \in Nat
  BY LedgerConstantsAre DEF LedgerInvFor
<1>2. PICK f : f = Newest
  OBVIOUS
<1>3. /\ Margins(T, rows) \in Int /\ Margins(S, rows) \in Int
      /\ Margins(T, rows) <= Margins(S, rows)
      /\ Margins(T, f) \in Int /\ Margins(S, f) \in Int /\ Margins(T, f) <= Margins(S, f)
  BY <1>1, <1>2, MarginsShrink
<1>4. Margins(T, rows) <= Allocation /\ Margins(T, Newest) <= Allocation
  BY <1>1, <1>2, <1>3
<1>5. ASSUME NEW k, Consistent(k, Newest, exch, S) PROVE Consistent(k, Newest, exch, T)
  <2>1. Balanced(k, f, exch, S) /\ ClaimsAreHeld(k, f) /\ Remembers(k, f, S)
    BY <1>2, <1>5 DEF Consistent
  <2>2. Balanced(k, f, exch, T)
    BY <2>1 DEF Balanced
  <2>3. Margins(S, f) + 1 <= Allocation => Margins(T, f) + 1 <= Allocation
    BY <1>1, <1>3
  <2>4. Remembers(k, f, T)
    BY <2>1, <2>3 DEF Remembers
  <2> QED BY <1>2, <2>1, <2>2, <2>4 DEF Consistent
<1> HIDE DEF Newest
<1> QED BY <1>1, <1>4, <1>5 DEF LedgerInvFor

LEMMA LedgerNextFor ==
  ASSUME LedgerConstants, NEW S \in SUBSET Coins, LedgerInvFor(S), [Ledger!Next]_ledgerVars,
         unsure' \cap S = {}
  PROVE  LedgerInvFor(S)'
<1>1. CASE UNCHANGED ledgerVars
  BY <1>1, LedgerRests DEF ledgerVars
<1>2. CASE \E c \in Slots : Ledger!CycleStep(c)
  <2>1. PICK c \in Slots : Ledger!CycleStep(c)
    BY <1>2
  <2>2. Ledger!OrderUnreported(c) \/ Ledger!CloseUnreported(c) => cyc[c].symbol \notin S
    BY DEF Ledger!OrderUnreported, Ledger!CloseUnreported
  <2> QED BY <2>1, <2>2, LedgerCycleKeeps
<1>3. CASE Ledger!Reconciliation
  BY <1>3, NothingToReconcile
<1>4. CASE Ledger!Environment
  BY <1>4, LedgerRests
     DEF Ledger!Environment, Ledger!CapitalLockExpires, Ledger!Age, Ledger!ExchangeCloses, Ledger!ledger
<1> QED BY <1>1, <1>2, <1>3, <1>4 DEF Ledger!Next

\* unsure only grows, by symbols.
LEMMA UnsureGrows ==
  ASSUME LedgerConstants, LedgerInv, [Ledger!Next]_ledgerVars
  PROVE  unsure \subseteq unsure' /\ unsure' \subseteq Coins
<1>1. CASE unsure' = unsure
  BY <1>1 DEF LedgerInv
<1>2. CASE unsure' # unsure
  <2>1. PICK c \in Slots : Ledger!OrderUnreported(c) \/ Ledger!CloseUnreported(c)
    BY <1>2 DEF ledgerVars, Ledger!Next, Ledger!CycleStep, Ledger!Begin, Ledger!Claiming,
          Ledger!DecideOpen, Ledger!TakeCapitalLock, Ledger!CapitalLockTimeout,
          Ledger!CapitalExceeded, Ledger!ClaimExisting, Ledger!ClaimMissing,
          Ledger!ClaimConflict, Ledger!ClaimInsert, Ledger!Ordering, Ledger!OrderFilled,
          Ledger!OrderRejected, Ledger!OrderAnswerLost, Ledger!OrderRaised, Ledger!VerifyFound,
          Ledger!VerifyNothing, Ledger!Recording, Ledger!AccumulatePosition,
          Ledger!ConfirmPosition, Ledger!ConfirmNothing, Ledger!ReleaseClaim, Ledger!Closing,
          Ledger!DecideClose, Ledger!CloseFilled, Ledger!CloseRejected, Ledger!CloseAnswerLost,
          Ledger!ClosePositionRecord, Ledger!Finish, Ledger!Abort, Ledger!Reconciliation,
          Ledger!ReconFetch, Ledger!ReconScan, Ledger!ReconCleanup, Ledger!ReconCommit,
          Ledger!ReconAbort, Ledger!ReconClose, Ledger!Environment, Ledger!CapitalLockExpires,
          Ledger!Age, Ledger!ExchangeCloses
  <2>2. cyc[c].pc # "idle" /\ LedgerInvFor(Coins \ unsure) /\ unsure \subseteq Coins
    BY <2>1 DEF LedgerInv, Ledger!OrderUnreported, Ledger!CloseUnreported, Ledger!At
  <2>3. cyc[c].pc \in {"order", "close"} => cyc[c].symbol \in Coins
    BY <2>2, CycleIsAlone DEF Consistent, Remembers, Deciding, Ordering
  <2>4. cyc[c].symbol \in Coins
    BY <2>1, <2>3 DEF Ledger!OrderUnreported, Ledger!CloseUnreported, Ledger!At
  <2> QED BY <2>1, <2>2, <2>4 DEF Ledger!OrderUnreported, Ledger!CloseUnreported
<1> QED BY <1>1, <1>2

LEMMA LedgerNext == LedgerConstants /\ LedgerInv /\ [Ledger!Next]_ledgerVars => LedgerInv'
<1> SUFFICES ASSUME LedgerConstants, LedgerInv, [Ledger!Next]_ledgerVars
             PROVE  LedgerInv'
  OBVIOUS
<1>1. unsure \subseteq unsure' /\ unsure' \subseteq Coins
  BY UnsureGrows
<1>2. PICK S \in SUBSET Coins, T \in SUBSET Coins : S = Coins \ unsure /\ T = Coins \ unsure'
  OBVIOUS
<1>3. T \in SUBSET S /\ unsure' \cap T = {} /\ LedgerInvFor(S)
  BY <1>1, <1>2 DEF LedgerInv
<1>4. LedgerInvFor(T)
  BY <1>3, FewerKeeps
<1>5. LedgerInvFor(T)'
  BY <1>3, <1>4, LedgerNextFor
<1> QED BY <1>1, <1>2, <1>5 DEF LedgerInv, LedgerInvFor

LEMMA LedgerInit ==
  ASSUME LedgerConstants, Ledger!Init
  PROVE  LedgerInv
<1>0. PICK S \in SUBSET Coins : S = Coins \ unsure
  OBVIOUS
<1>1. /\ unsure = {} /\ rows = [r \in Entries |-> Ledger!Absent] /\ draft = [r \in Entries |-> Ledger!Absent]
      /\ holder = [r \in Entries |-> NoValue] /\ exch = [s \in Coins |-> 0]
      /\ cyc = [c \in Slots |-> Ledger!IdleCycle] /\ recon = Ledger!IdleRecon
  BY DEF Ledger!Init
<1>2. Newest = rows
  BY <1>1 DEF Newest, Ledger!Latest
<1>3. \A r \in Entries : rows[r] = Ledger!Absent
  BY <1>1
<1>4. OwnRows(rows)
  BY <1>1, <1>3, AbsentIs DEF OwnRows
<1>5. Margins(S, rows) <= Allocation
  <2>1. PICK b : b = [r \in Entries |-> Margin(S, rows[r])]
    OBVIOUS
  <2>2. \A r \in Entries : b[r] = 0
    BY <1>3, <2>1, AbsentIs
  <2>3. Total(b, Entries) = Total(b, {})
    BY <2>2, SumOfSupport, LedgerConstantsAre
  <2>4. Margins(S, rows) = 0
    BY <2>1, <2>3, SumOfNone DEF Margins
  <2> QED BY <2>4, LedgerConstantsAre
<1>6. Consistent(Ledger!IdleCycle, rows, exch, S)
  <2>1. PICK k : k = Ledger!IdleCycle
    OBVIOUS
  <2>2. k.pc = "idle"
    BY <2>1, ReadyIs
  <2>3. \A r \in Entries : rows[r].status = "absent"
    BY <1>3, AbsentIs
  <2>4. Balanced(k, rows, exch, S)
    BY <1>1, <2>2, <2>3 DEF Balanced, Ahead, OpenIn
  <2>5. ClaimsAreHeld(k, rows) /\ Remembers(k, rows, S)
    BY <2>2, <2>3 DEF ClaimsAreHeld, Remembers, Deciding, Ordering
  <2> QED BY <2>1, <2>4, <2>5 DEF Consistent
<1>7. \A r \in Entries : rows[r].status # "pending"
  BY <1>3, AbsentIs
<1>8. \A c \in Slots : cyc[c] = Ledger!IdleCycle
  BY <1>1
<1>9. \A c \in Slots : cyc[c].pc = "idle" /\ cyc[c].agent = NoValue
  BY <1>8, ReadyIs
<1>10. cyc \in [Slots -> Ledger!Cycle] /\ exch \in [Coins -> Int]
  BY <1>1, ReadyIs
<1>11. (\E V : draft \in [Entries -> V]) /\ holder \in [Entries -> Slots \cup {NoValue}]
  BY <1>1
<1>12. \A r \in Entries : holder[r] = NoValue
  BY <1>1
<1> HIDE DEF Newest, OwnRows, Margins, Consistent
<1>13. LedgerInvFor(S)
  BY <1>1, <1>2, <1>4, <1>5, <1>6, <1>7, <1>9, <1>10, <1>11, <1>12 DEF LedgerInvFor
<1> QED BY <1>0, <1>1, <1>13 DEF LedgerInv

LEMMA LedgerTells ==
  ASSUME LedgerConstants, LedgerInv
  PROVE  Ledger!LedgerMatchesExchange /\ Ledger!CapitalRespected
<1>0. PICK S \in SUBSET Coins : S = Coins \ unsure
  OBVIOUS
<1>1. LedgerInvFor(S) /\ IsFiniteSet(Entries) /\ OwnRows(rows) /\ Margins(S, rows) <= Allocation
  BY <1>0, LedgerConstantsAre DEF LedgerInv, LedgerInvFor
<1>2. ASSUME Ledger!Quiet, NEW s \in Coins \ unsure PROVE exch[s] = Ledger!NetPosition(s)
  <2>1. \A c \in Slots : cyc[c].pc = "idle"
    BY <1>2 DEF Ledger!Quiet, Ledger!At
  <2>2. \A r \in Entries : holder[r] = NoValue
    BY <1>1, <2>1 DEF LedgerInvFor
  <2>3. Newest = rows
    BY <1>1, <2>2 DEF Newest, Ledger!Latest, OwnRows
  <2>4. PICK k : k = Ledger!IdleCycle
    OBVIOUS
  <2>5. Balanced(k, rows, exch, S) /\ Level(k)
    BY <1>1, <2>1, <2>3, <2>4, ReadyIs DEF LedgerInvFor, Consistent, Level
  <2>6. Ahead(rows, exch, s, 0)
    BY <1>0, <2>5, LevelIs
  <2> QED BY <1>1, <2>6, NetIs
<1>3. ASSUME NEW a \in {Agent}
      PROVE  Ledger!Total([r \in Entries |-> rows[r].usd],
                          {r \in Entries : /\ rows[r].status = "open" /\ rows[r].agent = a
                                           /\ rows[r].symbol \notin unsure}) <= Allocation
  <2>1. PICK T : T = {r \in Entries : /\ rows[r].status = "open" /\ rows[r].agent = Agent
                                      /\ rows[r].symbol \notin unsure}
    OBVIOUS
  <2>2. T = {r \in Entries : /\ rows[r].status = "open" /\ rows[r].agent = Agent
                             /\ rows[r].symbol \in S}
    BY <1>0, <1>1, <2>1 DEF OwnRows, OwnRow, Ledger!Live
  <2>3. Total([r \in Entries |-> rows[r].usd], T) = Margins(S, rows)
    BY <1>1, <2>2, OpenMargins
  <2> QED BY <1>1, <2>1, <2>3, SameLedger
<1> QED BY <1>2, <1>3 DEF Ledger!LedgerMatchesExchange, Ledger!CapitalRespected

-----------------------------------------------------------------------------
(* QuantEngine: what an engine's state says of its position is true.        *)

(* After the accidents h, a quantity q is that of a row of n units, and the *)
(* levels bought and sold are behind the n units of a row.                  *)
QuantityFits(h, q, n) == (q = 0 <=> n = 0) /\ ("unfilled" \notin h => q = n)

LevelsBack(h, bought, sold, n) ==
    /\ sold \subseteq bought
    /\ n > 0 => bought \ sold # {}
    /\ "unfilled" \notin h => n <= Quant!Cardinality(bought \ sold)

(* A runtime state s tells the truth of a position of n units, to an engine *)
(* of kind k with configuration v after the accidents h.                    *)
Tells(k, v, h, s, n) ==
    /\ s \in Quant!RuntimeState /\ n \in Nat
    /\ ~s.initialized => s = Quant!Blank
    /\ k = "grid" /\ "reconfigured" \notin h => v = 1 /\ (s.initialized => s.config = 1)
    /\ k = "dca" /\ h \cap {"raised", "zombie"} = {} => QuantityFits(h, s.quantity, n)
    /\ k = "grid" /\ h \cap {"raised", "reconfigured"} = {} => LevelsBack(h, s.bought, s.sold, n)

\* The state that the cycle under way is about to save.
Pending == IF step.pc = "level"
           THEN [step.state EXCEPT !.bought = step.bought, !.sold = step.sold] ELSE step.state

\* Where a cycle of each kind may be.
Stages(k) == CASE k = "grid" -> {"idle", "level", "record"}
               [] k = "dca"  -> {"idle", "profit", "buy", "record"}
               [] OTHER      -> {"idle", "sync", "signal", "record"}

(* An RSI engine that has seen no position on the exchange buys when there  *)
(* is none.                                                                 *)
SeesPosition ==
    kind = "rsi" /\ happened \cap {"blind", "opened"} = {} =>
        /\ position <= 1
        /\ step.pc = "signal" /\ ~step.state.has => position = 0

EngineInv ==
    /\ Quant!TypeOK
    /\ step.pc \in Stages(kind)
    /\ Tells(kind, version, happened, runtime, size)
    /\ step.pc # "idle" => Tells(kind, version, happened, Pending, step.position)
    /\ step.pc \notin {"idle", "record"} => step.state.initialized
    /\ step.pc \in {"level", "profit", "sync"} /\ step.level = 0 => step.position = size
    /\ SeesPosition

LEMMA KindIs ==
  ASSUME Quant!QuantParameters, EngineInv
  PROVE  kind \in {"grid", "dca", "rsi"} /\ kind \in Engines
BY DEF Quant!QuantParameters, EngineInv, Quant!TypeOK

LEMMA LevelsAreFinite == Quant!QuantParameters => IsFiniteSet(Quant!Levels)
<1> SUFFICES ASSUME Quant!QuantParameters PROVE IsFiniteSet(Quant!Levels)
  OBVIOUS
<1>1. 0 \in Int /\ GridCount \in Int
  BY DEF Quant!QuantParameters
<1> QED BY <1>1, FS_Interval DEF Quant!Levels

LEMMA SameSize ==
  \A S : (Quant!IsFiniteSet(S) <=> IsFiniteSet(S)) /\ Quant!Cardinality(S) = Cardinality(S)
BY DEF Quant!IsFiniteSet, IsFiniteSet, Quant!Cardinality, Cardinality

LEMMA BlankIs ==
  ASSUME Quant!QuantParameters
  PROVE  Quant!Blank \in Quant!RuntimeState
BY DEF Quant!Blank, Quant!RuntimeState, Quant!QuantParameters

LEMMA EngineInit ==
  ASSUME Quant!QuantParameters, Quant!Init
  PROVE  EngineInv
<1> USE DEF Quant!Init
<1>1. Quant!TypeOK
  BY BlankIs DEF Quant!TypeOK, Quant!Cycle, Quant!Idle, Quant!QuantParameters, Quant!Prices, Quant!Rsi
<1>2. Tells(kind, version, happened, runtime, size)
  <2>1. Quant!Blank.sold = {} /\ Quant!Blank.bought = {} /\ Quant!Blank.quantity = 0 /\ Quant!Blank.initialized = FALSE
    BY DEF Quant!Blank
  <2>2. Quant!Cardinality({} \ {}) = 0
    BY SameSize, FS_EmptySet
  <2> QED BY <2>1, <2>2, BlankIs DEF Tells, QuantityFits, LevelsBack
<1>3. step.pc = "idle"
  BY DEF Quant!Idle
<1> QED BY <1>1, <1>2, <1>3 DEF EngineInv, Stages, SeesPosition

(* More accidents leave less to tell.                                       *)
LEMMA TellsStill ==
  ASSUME NEW k, NEW v, NEW h, NEW g, NEW s, NEW n, Tells(k, v, h, s, n), h \subseteq g
  PROVE  Tells(k, v, g, s, n)
BY DEF Tells, QuantityFits, LevelsBack

(* Where an invariant must be looked at after a step within a cycle.        *)
LEMMA StepSuffices ==
  ASSUME EngineInv, kind' = kind, version' = version, cycles' \in Nat, interferences' \in Nat,
         runtime' = runtime, size' = size, position' \in Nat, step' \in Quant!Cycle,
         happened \subseteq happened', happened' \subseteq Quant!Accidents,
         step'.pc \in Stages(kind),
         step'.pc # "idle" => Tells(kind, version, happened', Pending', step'.position),
         step'.pc \notin {"idle", "record"} => step'.state.initialized,
         step'.pc \in {"level", "profit", "sync"} /\ step'.level = 0 => step'.position = size,
         SeesPosition'
  PROVE  EngineInv'
<1>1. Tells(kind, version, happened', runtime, size)
  BY TellsStill DEF EngineInv
<1>2. Quant!TypeOK'
  BY DEF EngineInv, Quant!TypeOK
<1> QED BY <1>1, <1>2 DEF EngineInv

LEMMA StepIs ==
  ASSUME EngineInv
  PROVE  /\ step \in Quant!Cycle /\ position \in Nat /\ size \in Nat /\ step.position \in Nat
         /\ runtime \in Quant!RuntimeState /\ step.state \in Quant!RuntimeState
         /\ happened \subseteq Quant!Accidents /\ cycles \in Nat /\ interferences \in Nat
         /\ version \in Nat /\ step.level \in Nat
BY DEF EngineInv, Quant!TypeOK, Quant!Cycle

LEMMA BeginKeeps ==
  ASSUME Quant!QuantParameters, EngineInv, NEW p \in Quant!Prices, NEW i \in Quant!Rsi,
         Quant!BeginCycle(p, i)
  PROVE  EngineInv'
<1> DEFINE state == Quant!Initial(runtime)
           start == CASE kind = "grid" -> "level" [] kind = "dca" -> "profit"
                      [] OTHER -> IF i = "unknown" THEN "record" ELSE "sync"
<1>0. kind \in {"grid", "dca", "rsi"}
  BY KindIs
<1>1. step' = [pc |-> start, state |-> state, position |-> size, price |-> p, rsi |-> i, level |-> 0,
               bought |-> state.bought, sold |-> state.sold]
  BY DEF Quant!BeginCycle, Quant!Idle
<1>2. /\ kind' = kind /\ version' = version /\ runtime' = runtime /\ size' = size
      /\ position' = position /\ happened' = happened /\ cycles' = cycles + 1
      /\ interferences' = interferences
  BY DEF Quant!BeginCycle, Quant!durable
<1>3. Tells(kind, version, happened, state, size) /\ state.initialized
  <2>0. Tells(kind, version, happened, runtime, size)
    BY DEF EngineInv
  <2>1. CASE runtime.initialized /\ (kind = "grid" => runtime.config = version)
    BY <2>0, <2>1 DEF Quant!Initial
  <2>2. CASE ~(runtime.initialized /\ (kind = "grid" => runtime.config = version))
    <3>1. state = [initialized |-> TRUE, config |-> version, bought |-> {}, sold |-> {},
                   invested |-> 0, placed |-> 0, quantity |-> 0, has |-> FALSE]
      BY <2>2 DEF Quant!Initial, Quant!Blank
    <3>2. state \in Quant!RuntimeState
      BY <3>1, StepIs DEF Quant!RuntimeState
    <3>3. kind = "grid" /\ "reconfigured" \notin happened => version = 1 /\ ~runtime.initialized
      BY <2>0, <2>2 DEF Tells
    <3>4. kind # "grid" => ~runtime.initialized
      BY <2>2
    <3>5. ~runtime.initialized => runtime.quantity = 0 /\ runtime.bought \ runtime.sold = {}
      BY <2>0 DEF Tells, Quant!Blank
    <3>6. Quant!Cardinality({}) = 0 /\ {} \ {} = {}
      BY SameSize, FS_EmptySet
    <3> HIDE DEF state
    <3>7. state.sold = {} /\ state.bought = {} /\ state.quantity = 0 /\ state.config = version
          /\ state.initialized = TRUE
      BY <3>1
    <3> QED BY <2>0, <3>2, <3>3, <3>4, <3>5, <3>6, <3>7 DEF Tells, QuantityFits, LevelsBack
  <2> QED BY <2>1, <2>2
<1> HIDE DEF state
<1>4. state \in Quant!RuntimeState
  BY <1>3 DEF Tells
<1>5. step' \in Quant!Cycle /\ step'.pc = start /\ start \in Stages(kind) \ {"idle"}
  BY <1>0, <1>1, <1>4, StepIs DEF Quant!Cycle, Quant!RuntimeState, Stages
<1>6. Pending' = state
  <2>1. [state EXCEPT !.bought = state.bought, !.sold = state.sold] = state
    BY <1>4 DEF Quant!RuntimeState
  <2> QED BY <1>1, <2>1 DEF Pending
<1>7. SeesPosition'
  BY <1>2, <1>5, <1>0 DEF SeesPosition, EngineInv
<1> QED BY <1>1, <1>2, <1>3, <1>5, <1>6, <1>7, StepIs, StepSuffices

LEMMA NoPriceKeeps ==
  ASSUME Quant!QuantParameters, EngineInv, Quant!NoPrice
  PROVE  EngineInv'
<1>1. step' = [step EXCEPT !.pc = "record", !.state = runtime]
  BY DEF Quant!NoPrice
<1>2. /\ kind' = kind /\ version' = version /\ runtime' = runtime /\ size' = size
      /\ position' = position /\ happened' = happened /\ cycles' = cycles
      /\ interferences' = interferences
  BY DEF Quant!NoPrice, Quant!durable, Quant!others
<1>3. step' \in Quant!Cycle /\ step'.pc = "record" /\ step'.state = runtime
      /\ step'.position = step.position
  BY <1>1, StepIs DEF Quant!Cycle
<1>4. step.position = size
  BY DEF EngineInv, Quant!NoPrice
<1>5. Tells(kind, version, happened, Pending', step'.position)
  BY <1>3, <1>4 DEF EngineInv, Pending
<1>6. SeesPosition' /\ "record" \in Stages(kind)
  BY <1>2, <1>3 DEF SeesPosition, EngineInv, Stages
<1> QED BY <1>2, <1>3, <1>5, <1>6, StepIs, StepSuffices

LEMMA IdleIs ==
  ASSUME Quant!QuantParameters
  PROVE  Quant!Idle \in Quant!Cycle /\ Quant!Idle.pc = "idle"
BY BlankIs DEF Quant!Idle, Quant!Cycle, Quant!QuantParameters, Quant!Prices, Quant!Rsi

LEMMA CyclesEnd ==
  ASSUME Quant!QuantParameters, EngineInv, Quant!Record \/ Quant!Abort
  PROVE  EngineInv'
<1>1. CASE Quant!Abort
  <2>1. /\ kind' = kind /\ version' = version /\ runtime' = runtime /\ size' = size
        /\ position' = position /\ happened' = happened \cup {"aborted"} /\ cycles' = cycles
        /\ interferences' = interferences /\ step' = Quant!Idle
    BY <1>1 DEF Quant!Abort, Quant!durable, Quant!others
  <2>2. SeesPosition' /\ "idle" \in Stages(kind)
    BY <2>1, IdleIs DEF SeesPosition, EngineInv, Stages
  <2> QED BY <2>1, <2>2, IdleIs, StepIs, StepSuffices DEF Quant!Accidents
<1>2. CASE Quant!Record
  <2>1. /\ kind' = kind /\ version' = version /\ runtime' = step.state /\ size' = step.position
        /\ position' = position /\ happened' = happened /\ cycles' = cycles
        /\ interferences' = interferences /\ step' = Quant!Idle /\ step.pc = "record"
    BY <1>2 DEF Quant!Record, Quant!others, Quant!At
  <2>2. SeesPosition' /\ "idle" \in Stages(kind)
    BY <2>1, IdleIs DEF SeesPosition, EngineInv, Stages
  <2>3. Tells(kind, version, happened, runtime, size)'
    BY <2>1 DEF EngineInv, Pending
  <2>4. Quant!TypeOK'
    BY <2>1, IdleIs, StepIs DEF EngineInv, Quant!TypeOK
  <2> QED BY <2>1, <2>2, <2>3, <2>4, IdleIs DEF EngineInv
<1> QED BY <1>1, <1>2

LEMMA OthersInterfere ==
  ASSUME Quant!QuantParameters, EngineInv, Quant!ForeignOpen \/ Quant!ForeignClose
  PROVE  EngineInv'
<1>1. PICK what \in {"opened", "closed"} :
         /\ happened' = happened \cup {what} /\ interferences' = interferences + 1
         /\ position' = IF what = "opened" THEN position + 1 ELSE 0
  BY DEF Quant!ForeignOpen, Quant!ForeignClose, Quant!Interferes
<1>2. /\ kind' = kind /\ version' = version /\ runtime' = runtime /\ size' = size
      /\ cycles' = cycles /\ step' = step
  BY DEF Quant!ForeignOpen, Quant!ForeignClose, Quant!durable
<1>3. step.pc # "idle" => Tells(kind, version, happened', Pending', step.position)
  BY <1>1, <1>2, TellsStill DEF EngineInv, Pending
<1>4. SeesPosition'
  BY <1>1, <1>2, StepIs DEF SeesPosition, EngineInv
<1>5. position' \in Nat /\ interferences' \in Nat /\ happened' \subseteq Quant!Accidents
  BY <1>1, StepIs DEF Quant!Accidents
<1> QED BY <1>1, <1>2, <1>3, <1>4, <1>5, StepIs, StepSuffices DEF EngineInv

LEMMA ReconcileKeeps ==
  ASSUME Quant!QuantParameters, EngineInv, Quant!Reconcile
  PROVE  EngineInv'
<1>1. /\ kind' = kind /\ version' = version /\ runtime' = runtime /\ size' = 0
      /\ position' = position /\ happened' = happened \cup {"zombie"} /\ cycles' = cycles
      /\ interferences' = interferences /\ step' = step /\ step.pc = "idle"
  BY DEF Quant!Reconcile, Quant!others, Quant!At
<1>2. SeesPosition'
  BY <1>1 DEF SeesPosition, EngineInv
<1>3. Tells(kind, version, happened', runtime, 0)
  <2>1. Tells(kind, version, happened, runtime, size)
    BY DEF EngineInv
  <2>2. Quant!Cardinality(runtime.bought \ runtime.sold) \in Nat
    <3>1. runtime.bought \subseteq Quant!Levels
      BY StepIs DEF Quant!RuntimeState
    <3> QED BY <3>1, LevelsAreFinite, SameSize, FS_Subset, FS_CardinalityType
  <2> QED BY <1>1, <2>1, <2>2 DEF Tells, LevelsBack
<1>4. Quant!TypeOK'
  BY <1>1, StepIs DEF EngineInv, Quant!TypeOK, Quant!Accidents
<1> QED BY <1>1, <1>2, <1>3, <1>4 DEF EngineInv

LEMMA ReconfigureKeeps ==
  ASSUME Quant!QuantParameters, EngineInv, Quant!Reconfigure
  PROVE  EngineInv'
<1>1. /\ kind' = kind /\ version' = version + 1 /\ runtime' = runtime /\ size' = size
      /\ position' = position /\ happened' = happened \cup {"reconfigured"} /\ cycles' = cycles
      /\ interferences' = interferences + 1 /\ step' = step
  BY DEF Quant!Reconfigure, Quant!Interferes, Quant!durable
<1>2. SeesPosition'
  BY <1>1 DEF SeesPosition, EngineInv
<1>3. ASSUME NEW s, NEW n, Tells(kind, version, happened, s, n)
      PROVE  Tells(kind, version', happened', s, n)
  BY <1>1, <1>3 DEF Tells, QuantityFits
<1>4. Quant!TypeOK'
  BY <1>1, StepIs DEF EngineInv, Quant!TypeOK, Quant!Accidents
<1>5. Pending' = Pending
  BY <1>1, SMTT(60) DEF Pending
<1> QED BY <1>1, <1>2, <1>3, <1>4, <1>5 DEF EngineInv

-----------------------------------------------------------------------------
\* The orders of an engine: what an opening and a closing order leave behind.

\* The order succeeded, with n units in the row; it did not; it raised.
OrderBought(done) ==
    /\ \E n \in Nat : /\ n > step.position /\ step' = [done EXCEPT !.position = n]
                      /\ "unfilled" \notin happened' => n = step.position + 1
    /\ happened' \in {happened, happened \cup {"unfilled"}}
    /\ position' \in {position, position + 1}

OrderMissed(failed) ==
    /\ step' = failed
    /\ happened' \in {happened, happened \cup {"lost"}} /\ position' \in {position, position + 1}

OrderRaised(failed) ==
    /\ \E after \in {failed, [step EXCEPT !.pc = "record"]} :
          \E n \in Nat : step' = [after EXCEPT !.position = n]
    /\ happened' = happened \cup {"raised"} /\ position' \in {position, position + 1}

LEMMA OpenedIs ==
  ASSUME Quant!QuantParameters, EngineInv, NEW done, NEW failed, Quant!Open(done, failed)
  PROVE  OrderBought(done) \/ OrderMissed(failed) \/ OrderRaised(failed)
<1>1. CASE \E filled \in {0, 1}, after \in {failed, [step EXCEPT !.pc = "record"]} :
          /\ position' = position + filled
          /\ step' = [after EXCEPT !.position =
                        IF step.position = 0 THEN position + filled ELSE step.position]
          /\ happened' = happened \cup {"raised"}
  <2>1. PICK filled \in {0, 1}, after \in {failed, [step EXCEPT !.pc = "record"]} :
          /\ position' = position + filled
          /\ step' = [after EXCEPT !.position =
                        IF step.position = 0 THEN position + filled ELSE step.position]
          /\ happened' = happened \cup {"raised"}
    BY <1>1
  <2> DEFINE n == IF step.position = 0 THEN position + filled ELSE step.position
  <2>2. n \in Nat
    BY StepIs
  <2>3. position' \in {position, position + 1}
    BY <2>1, StepIs
  <2> HIDE DEF n
  <2>4. step' = [after EXCEPT !.position = n]
    BY <2>1 DEF n
  <2> QED BY <2>1, <2>2, <2>3, <2>4 DEF OrderRaised
<1>2. CASE step' = failed /\ UNCHANGED <<position, happened>>
  BY <1>2 DEF OrderMissed
<1>3. CASE position' = position + 1 /\ step' = failed /\ happened' = happened \cup {"lost"}
  BY <1>3 DEF OrderMissed
<1>4. CASE /\ position' = position + 1 /\ step' = [done EXCEPT !.position = step.position + 1]
           /\ UNCHANGED happened
  <2>1. step.position + 1 \in Nat /\ step.position + 1 > step.position
    BY StepIs
  <2> QED BY <1>4, <2>1 DEF OrderBought
<1>5. CASE \E filled \in {0, 1}, guess \in Guesses :
              /\ position' = position + filled
              /\ step' = [done EXCEPT !.position = step.position + guess]
              /\ happened' = happened \cup {"unfilled"}
  <2>1. PICK filled \in {0, 1}, guess \in Guesses :
              /\ position' = position + filled
              /\ step' = [done EXCEPT !.position = step.position + guess]
              /\ happened' = happened \cup {"unfilled"}
    BY <1>5
  <2>2. /\ step.position + guess \in Nat /\ step.position + guess > step.position
        /\ position' \in {position, position + 1} /\ "unfilled" \in happened'
    BY <2>1, StepIs DEF Quant!QuantParameters
  <2> QED BY <2>1, <2>2 DEF OrderBought
<1> QED BY <1>1, <1>2, <1>3, <1>4, <1>5 DEF Quant!Open

LEMMA ClosedIs ==
  ASSUME NEW done, NEW failed, Quant!Close(done, failed)
  PROVE  /\ position' \in {position, 0}
         /\ \/ /\ step' = [done EXCEPT !.position = 0]
               /\ happened' \in {happened, happened \cup {"unfilled"}}
            \/ /\ step' = failed
               /\ happened' \in {happened, happened \cup {"lost"}}
BY DEF Quant!Close

(* A step of an engine within its cycle.                                    *)
Within ==
    /\ kind' = kind /\ version' = version /\ runtime' = runtime /\ size' = size
    /\ cycles' = cycles /\ interferences' = interferences

LEMMA EngineSteps ==
  ASSUME Quant!Engine
  PROVE  Within
BY DEF Quant!Engine, Quant!GridBuy, Quant!GridSell, Quant!GridSkip, Quant!GridEnd,
       Quant!DcaTakeProfit, Quant!DcaHold, Quant!DcaWait, Quant!DcaBuy, Quant!RsiSync,
       Quant!RsiSyncFails, Quant!RsiTrade, Quant!NoPrice, Quant!others, Quant!durable, Within

\* A state that tells the truth after an exception tells little.
LEMMA TellsAfterRaise ==
  ASSUME NEW k, NEW v, NEW h, NEW s, NEW n, NEW m \in Nat, Tells(k, v, h, s, n)
  PROVE  Tells(k, v, h \cup {"raised"}, s, m)
BY DEF Tells

-----------------------------------------------------------------------------
\* Grid.

\* The cycle of a grid at a level, as the levels of the state it will save.
LEMMA AtLevel ==
  ASSUME Quant!QuantParameters, EngineInv, step.pc = "level"
  PROVE  /\ kind = "grid" /\ Pending = [step.state EXCEPT !.bought = step.bought, !.sold = step.sold]
         /\ Pending \in Quant!RuntimeState /\ step.state \in Quant!RuntimeState
         /\ step.bought \subseteq Quant!Levels /\ step.sold \subseteq Quant!Levels
         /\ Pending.bought = step.bought /\ Pending.sold = step.sold
         /\ Tells(kind, version, happened, Pending, step.position) /\ Pending.initialized
         /\ step.state.initialized
<1>1. kind = "grid"
  BY KindIs DEF EngineInv, Stages
<1>2. Pending = [step.state EXCEPT !.bought = step.bought, !.sold = step.sold]
  BY DEF Pending
<1>3. Tells(kind, version, happened, Pending, step.position) /\ step.state.initialized
  BY DEF EngineInv
<1>4. step.state \in Quant!RuntimeState /\ {step.bought, step.sold} \subseteq SUBSET Quant!Levels
  BY DEF EngineInv, Quant!TypeOK, Quant!Cycle
<1>5. Pending.bought = step.bought /\ Pending.sold = step.sold /\ Pending.initialized
  BY <1>2, <1>3, <1>4 DEF Quant!RuntimeState
<1> QED BY <1>1, <1>2, <1>3, <1>4, <1>5 DEF Tells

(* The levels bought and sold become bought and sold, and the cycle goes on *)
(* to the next level with n units.                                          *)
LEMMA LevelDone ==
  ASSUME Quant!QuantParameters, EngineInv, step.pc = "level", Within,
         NEW bought \in SUBSET Quant!Levels, NEW sold \in SUBSET Quant!Levels, NEW n \in Nat,
         step' = [step EXCEPT !.level = step.level + 1, !.bought = bought, !.sold = sold, !.position = n],
         position' \in Nat, happened \subseteq happened', happened' \subseteq Quant!Accidents,
         happened' \cap {"raised", "reconfigured"} = {} => LevelsBack(happened', bought, sold, n)
  PROVE  EngineInv'
<1>1. /\ step' \in Quant!Cycle /\ step'.pc = "level" /\ step'.bought = bought /\ step'.sold = sold
      /\ step'.position = n /\ step'.state = step.state /\ step'.level = step.level + 1
  <2>1. step \in Quant!Cycle /\ step.level + 1 \in Nat
    BY StepIs
  <2>2. PICK l \in Nat : l = step.level + 1
    BY <2>1
  <2>3. step' = [step EXCEPT !.level = l, !.bought = bought, !.sold = sold, !.position = n]
    BY <2>2
  <2> QED BY <2>1, <2>2, <2>3 DEF Quant!Cycle
<1>2. Pending' = [step.state EXCEPT !.bought = bought, !.sold = sold]
  BY <1>1 DEF Pending
<1>3. Tells(kind, version, happened', Pending', n)
  <2>1. Tells(kind, version, happened, Pending, step.position)
    BY AtLevel
  <2>2. /\ Pending' \in Quant!RuntimeState /\ Pending'.bought = bought /\ Pending'.sold = sold
        /\ Pending'.initialized /\ Pending'.config = step.state.config
    BY <1>2, AtLevel DEF Quant!RuntimeState
  <2>3. Pending.config = step.state.config /\ Pending.initialized
    BY AtLevel DEF Quant!RuntimeState
  <2> QED BY <2>1, <2>2, <2>3, AtLevel DEF Tells
<1>4. SeesPosition' /\ "level" \in Stages(kind)
  BY AtLevel DEF SeesPosition, Stages, Within
<1> QED BY <1>1, <1>3, <1>4, AtLevel, StepIs, StepSuffices DEF Within

(* A cycle cut short by an exception saves what it has.                     *)
LEMMA LevelRaised ==
  ASSUME Quant!QuantParameters, EngineInv, step.pc = "level", Within, NEW n \in Nat,
         step' = [step EXCEPT !.pc = "record", !.position = n],
         position' \in Nat, happened' = happened \cup {"raised"}
  PROVE  EngineInv'
<1>1. /\ step' \in Quant!Cycle /\ step'.pc = "record" /\ step'.position = n /\ step'.state = step.state
  BY StepIs DEF Quant!Cycle
<1>2. Pending' = step.state
  BY <1>1 DEF Pending
<1>3. Tells(kind, version, happened', Pending', n)
  <2>1. Pending.config = step.state.config /\ Pending.initialized
    BY AtLevel DEF Quant!RuntimeState
  <2> QED BY <1>2, <2>1, AtLevel DEF Tells
<1>4. SeesPosition' /\ "record" \in Stages(kind) /\ happened' \subseteq Quant!Accidents
  BY AtLevel, StepIs DEF SeesPosition, Stages, Within, Quant!Accidents
<1> QED BY <1>1, <1>3, <1>4, AtLevel, StepIs, StepSuffices DEF Within

LEMMA UnitsAtLevel ==
  ASSUME Quant!QuantParameters, EngineInv, step.pc = "level",
         happened \cap {"raised", "reconfigured"} = {}
  PROVE  LevelsBack(happened, step.bought, step.sold, step.position)
BY AtLevel DEF Tells

\* An order that was not filled, or whose answer was lost.
LEMMA LevelPassed ==
  ASSUME Quant!QuantParameters, EngineInv, step.pc = "level", Within,
         step' = Quant!NextLevel, position' \in Nat,
         happened \subseteq happened', happened' \subseteq Quant!Accidents
  PROVE  EngineInv'
<1>1. step' = [step EXCEPT !.level = step.level + 1, !.bought = step.bought, !.sold = step.sold,
                           !.position = step.position]
  BY StepIs DEF Quant!NextLevel, Quant!Cycle
<1>2. step.bought \in SUBSET Quant!Levels /\ step.sold \in SUBSET Quant!Levels
  BY AtLevel
<1>3. happened' \cap {"raised", "reconfigured"} = {} =>
         LevelsBack(happened', step.bought, step.sold, step.position)
  BY UnitsAtLevel DEF LevelsBack
<1> QED BY <1>1, <1>2, <1>3, StepIs, LevelDone

LEMMA GridBuyKeeps ==
  ASSUME Quant!QuantParameters, EngineInv, Quant!GridBuy
  PROVE  EngineInv'
<1> DEFINE i == step.level
           done == [Quant!NextLevel EXCEPT !.bought = step.bought \cup {i}]
<1>1. /\ step.pc = "level" /\ i \in Quant!Levels /\ i \notin step.bought /\ Within
      /\ Quant!Open(done, Quant!NextLevel)
  <2>1. Quant!NextLevel.bought = step.bought
    BY StepIs DEF Quant!NextLevel, Quant!Cycle
  <2> QED BY <2>1, EngineSteps DEF Quant!GridBuy, Quant!At, Quant!GridBuys, Quant!Engine
<1>2. CASE OrderBought(done)
  <2>0. PICK n \in Nat : /\ n > step.position /\ step' = [done EXCEPT !.position = n]
                         /\ "unfilled" \notin happened' => n = step.position + 1
    BY <1>2 DEF OrderBought
  <2>5. happened' \in {happened, happened \cup {"unfilled"}} /\ position' \in {position, position + 1}
    BY <1>2 DEF OrderBought
  <2> DEFINE more == step.bought \cup {i}
  <2>1. step' = [step EXCEPT !.level = step.level + 1, !.bought = more, !.sold = step.sold,
                             !.position = n]
    BY <2>0, StepIs DEF Quant!NextLevel, Quant!Cycle
  <2>2. more \in SUBSET Quant!Levels /\ step.sold \in SUBSET Quant!Levels
    BY <1>1, AtLevel
  <2>3. ASSUME happened' \cap {"raised", "reconfigured"} = {}
        PROVE  LevelsBack(happened', more, step.sold, n)
    <3>1. LevelsBack(happened, step.bought, step.sold, step.position)
      BY <1>1, <2>0, <2>5, <2>3, UnitsAtLevel
    <3>2. IsFiniteSet(step.bought \ step.sold)
      BY <1>1, AtLevel, LevelsAreFinite, FS_Subset
    <3>3. more \ step.sold = (step.bought \ step.sold) \cup {i} /\ i \notin step.bought \ step.sold
      BY <1>1, <3>1 DEF LevelsBack
    <3>4. Cardinality(more \ step.sold) = Cardinality(step.bought \ step.sold) + 1
          /\ Cardinality(step.bought \ step.sold) \in Nat
      BY <3>2, <3>3, FS_AddElement, FS_CardinalityType
    <3>5. ASSUME "unfilled" \notin happened'
          PROVE  n <= Quant!Cardinality(more \ step.sold)
      <4>1. n = step.position + 1 /\ step.position <= Quant!Cardinality(step.bought \ step.sold)
        BY <2>0, <2>5, <3>1, <3>5 DEF LevelsBack
      <4> QED BY <3>4, <4>1, SameSize, StepIs
    <3> QED BY <3>1, <3>3, <3>5 DEF LevelsBack
  <2>4. /\ n \in Nat /\ position' \in Nat /\ happened \subseteq happened'
        /\ happened' \subseteq Quant!Accidents
    BY <2>0, <2>5, StepIs DEF Quant!Accidents
  <2> HIDE DEF more
  <2> QED BY <1>1, <2>1, <2>2, <2>3, <2>4, LevelDone
<1>3. CASE OrderMissed(Quant!NextLevel)
  BY <1>1, <1>3, StepIs, LevelPassed DEF Quant!Accidents, OrderMissed
<1>4. CASE OrderRaised(Quant!NextLevel)
  <2>1. PICK n \in Nat : \/ step' = [Quant!NextLevel EXCEPT !.position = n]
                         \/ step' = [[step EXCEPT !.pc = "record"] EXCEPT !.position = n]
    BY <1>4 DEF OrderRaised
  <2>2. position' \in Nat
    BY <1>4, StepIs DEF OrderRaised
  <2>3. CASE step' = [Quant!NextLevel EXCEPT !.position = n]
    <3>1. step' = [step EXCEPT !.level = step.level + 1, !.bought = step.bought, !.sold = step.sold,
                               !.position = n]
      BY <2>3, StepIs DEF Quant!NextLevel, Quant!Cycle
    <3>2. step.bought \in SUBSET Quant!Levels /\ step.sold \in SUBSET Quant!Levels
      BY <1>1, AtLevel
    <3>3. "raised" \in happened' /\ happened \subseteq happened' /\ happened' \subseteq Quant!Accidents
      BY <1>4, StepIs DEF Quant!Accidents, OrderRaised
    <3> QED BY <1>1, <2>2, <3>1, <3>2, <3>3, LevelDone
  <2>4. CASE step' = [[step EXCEPT !.pc = "record"] EXCEPT !.position = n]
    <3>1. step' = [step EXCEPT !.pc = "record", !.position = n]
      BY <2>4, StepIs DEF Quant!Cycle
    <3> QED BY <1>1, <1>4, <2>2, <3>1, LevelRaised DEF OrderRaised
  <2> QED BY <2>1, <2>3, <2>4
<1> HIDE DEF done
<1> QED BY <1>1, <1>2, <1>3, <1>4, OpenedIs

LEMMA GridSellKeeps ==
  ASSUME Quant!QuantParameters, EngineInv, Quant!GridSell
  PROVE  EngineInv'
<1> DEFINE i == step.level
           done == [Quant!NextLevel EXCEPT !.sold = step.sold \cup {i}]
<1>1. /\ step.pc = "level" /\ i \in Quant!Levels /\ i \in step.bought /\ Within
      /\ Quant!Close(done, Quant!NextLevel)
  <2>1. Quant!NextLevel.sold = step.sold
    BY StepIs DEF Quant!NextLevel, Quant!Cycle
  <2> QED BY <2>1, EngineSteps DEF Quant!GridSell, Quant!At, Quant!GridSells, Quant!Engine
<1>2. CASE /\ step' = [done EXCEPT !.position = 0]
           /\ happened' \in {happened, happened \cup {"unfilled"}} /\ position' \in {position, 0}
  <2> DEFINE more == step.sold \cup {i}
  <2>1. step' = [step EXCEPT !.level = step.level + 1, !.bought = step.bought, !.sold = more,
                             !.position = 0]
    BY <1>2, StepIs DEF Quant!NextLevel, Quant!Cycle
  <2>2. step.bought \in SUBSET Quant!Levels /\ more \in SUBSET Quant!Levels
    BY <1>1, AtLevel
  <2>3. ASSUME happened' \cap {"raised", "reconfigured"} = {}
        PROVE  LevelsBack(happened', step.bought, more, 0)
    <3>1. step.sold \subseteq step.bought
      BY <1>1, <1>2, <2>3, UnitsAtLevel DEF LevelsBack
    <3>2. Cardinality(step.bought \ more) \in Nat
      BY <1>1, AtLevel, LevelsAreFinite, FS_Subset, FS_CardinalityType
    <3> QED BY <1>1, <3>1, <3>2, SameSize DEF LevelsBack
  <2>4. /\ 0 \in Nat /\ position' \in Nat /\ happened \subseteq happened'
        /\ happened' \subseteq Quant!Accidents
    BY <1>2, StepIs DEF Quant!Accidents
  <2> HIDE DEF more
  <2> QED BY <1>1, <2>1, <2>2, <2>3, <2>4, LevelDone
<1>3. CASE /\ step' = Quant!NextLevel
           /\ happened' \in {happened, happened \cup {"lost"}} /\ position' \in {position, 0}
  BY <1>1, <1>3, StepIs, LevelPassed DEF Quant!Accidents
<1> HIDE DEF done
<1> QED BY <1>1, <1>2, <1>3, ClosedIs

LEMMA GridGoesOn ==
  ASSUME Quant!QuantParameters, EngineInv, Quant!GridSkip \/ Quant!GridEnd
  PROVE  EngineInv'
<1>1. /\ step.pc = "level" /\ Within /\ happened' = happened /\ position' = position
  BY EngineSteps DEF Quant!GridSkip, Quant!GridEnd, Quant!At, Quant!Engine
<1>2. CASE Quant!GridSkip
  BY <1>1, <1>2, StepIs, LevelPassed DEF Quant!GridSkip
<1>3. CASE Quant!GridEnd
  <2>1. step' = [step EXCEPT !.pc = "record", !.state = Pending]
    <3>1. step' = [step EXCEPT !.pc = "record", !.state.bought = step.bought, !.state.sold = step.sold]
      BY <1>3 DEF Quant!GridEnd
    <3> QED BY <1>1, <3>1, AtLevel, StepIs DEF Quant!Cycle, Quant!RuntimeState
  <2>2. /\ step' \in Quant!Cycle /\ step'.pc = "record" /\ step'.state = Pending
        /\ step'.position = step.position
    BY <1>1, <2>1, AtLevel, StepIs DEF Quant!Cycle
  <2>3. Pending' = Pending
    BY <2>2 DEF Pending
  <2>4. SeesPosition' /\ "record" \in Stages(kind)
    BY <1>1, AtLevel DEF SeesPosition, Stages, Within
  <2> QED BY <1>1, <2>2, <2>3, <2>4, AtLevel, StepIs, StepSuffices DEF Within
<1> QED BY <1>2, <1>3

-----------------------------------------------------------------------------
\* Dollar-cost averaging, and RSI.

LEMMA AtStage ==
  ASSUME Quant!QuantParameters, EngineInv, step.pc \in {"profit", "buy", "sync", "signal"}
  PROVE  /\ step.pc \in {"profit", "buy"} => kind = "dca"
         /\ step.pc \in {"sync", "signal"} => kind = "rsi"
         /\ step.state \in Quant!RuntimeState /\ step.state.initialized
         /\ Tells(kind, version, happened, step.state, step.position)
BY KindIs, StepIs DEF EngineInv, Stages, Pending

(* The cycle goes on at stage p with the state s and n units.               *)
LEMMA StageDone ==
  ASSUME Quant!QuantParameters, EngineInv, step.pc \in {"profit", "buy", "sync", "signal"}, Within,
         NEW p \in Stages(kind) \cap {"buy", "signal", "record"}, NEW s \in Quant!RuntimeState, NEW n \in Nat,
         step' = [step EXCEPT !.pc = p, !.state = s, !.position = n],
         s.initialized, Tells(kind, version, happened', s, n), SeesPosition',
         position' \in Nat, happened \subseteq happened', happened' \subseteq Quant!Accidents
  PROVE  EngineInv'
<1>1. step' \in Quant!Cycle /\ step'.pc = p /\ step'.state = s /\ step'.position = n
  BY StepIs DEF Quant!Cycle
<1>2. Pending' = s
  BY <1>1 DEF Pending
<1> QED BY <1>1, <1>2, StepIs, StepSuffices DEF Within

LEMMA DcaSteps ==
  ASSUME Quant!QuantParameters, EngineInv, step.pc \in {"profit", "buy"}, Within,
         NEW p \in {"buy", "record"}, NEW s \in Quant!RuntimeState, NEW n \in Nat,
         step' = [step EXCEPT !.pc = p, !.state = s, !.position = n],
         s.initialized,
         happened' \cap {"raised", "zombie"} = {} => QuantityFits(happened', s.quantity, n),
         position' \in Nat, happened \subseteq happened', happened' \subseteq Quant!Accidents
  PROVE  EngineInv'
<1>1. kind = "dca" /\ p \in Stages(kind) \cap {"buy", "signal", "record"}
  BY AtStage DEF Stages
<1>2. Tells(kind, version, happened', s, n) /\ SeesPosition'
  BY <1>1 DEF Tells, SeesPosition, Within
<1>3. step.pc \in {"profit", "buy", "sync", "signal"}
  OBVIOUS
<1> QED BY <1>1, <1>2, <1>3, StageDone

LEMMA DcaQuantity ==
  ASSUME Quant!QuantParameters, EngineInv, step.pc \in {"profit", "buy"}
  PROVE  /\ step.state \in Quant!RuntimeState /\ step.state.initialized
         /\ happened \cap {"raised", "zombie"} = {} => QuantityFits(happened, step.state.quantity, step.position)
BY AtStage DEF Tells

LEMMA DcaGoesOn ==
  ASSUME Quant!QuantParameters, EngineInv, Quant!DcaHold \/ Quant!DcaWait
  PROVE  EngineInv'
<1>1. /\ step.pc \in {"profit", "buy"} /\ Within /\ happened' = happened /\ position' = position
      /\ \E p \in {"buy", "record"} : step' = [step EXCEPT !.pc = p]
  BY EngineSteps DEF Quant!DcaHold, Quant!DcaWait, Quant!At, Quant!Engine
<1>2. PICK p \in {"buy", "record"} : step' = [step EXCEPT !.pc = p]
  BY <1>1
<1>3. step' = [step EXCEPT !.pc = p, !.state = step.state, !.position = step.position]
  BY <1>2, StepIs DEF Quant!Cycle
<1> QED BY <1>1, <1>3, DcaQuantity, StepIs, DcaSteps

LEMMA DcaTakeProfitKeeps ==
  ASSUME Quant!QuantParameters, EngineInv, Quant!DcaTakeProfit
  PROVE  EngineInv'
<1> DEFINE s == [step.state EXCEPT !.invested = 0, !.quantity = 0]
           done == [step EXCEPT !.pc = "record", !.state = s]
           failed == [step EXCEPT !.pc = "buy"]
<1>1. step.pc \in {"profit", "buy"} /\ Within /\ Quant!Close(done, failed)
  BY EngineSteps DEF Quant!DcaTakeProfit, Quant!At, Quant!Engine, Quant!SoldOut
<1>2. s \in Quant!RuntimeState /\ s.initialized /\ s.quantity = 0
  BY <1>1, DcaQuantity DEF Quant!RuntimeState
<1>3. CASE /\ step' = [done EXCEPT !.position = 0]
           /\ happened' \in {happened, happened \cup {"unfilled"}} /\ position' \in {position, 0}
  <2> HIDE DEF s
  <2>1. step' = [step EXCEPT !.pc = "record", !.state = s, !.position = 0]
    BY <1>3, StepIs DEF Quant!Cycle
  <2>2. /\ position' \in Nat /\ happened \subseteq happened' /\ happened' \subseteq Quant!Accidents
        /\ happened' \cap {"raised", "zombie"} = {} => QuantityFits(happened', s.quantity, 0)
    BY <1>2, <1>3, StepIs DEF QuantityFits, Quant!Accidents
  <2>3. step.pc \in {"profit", "buy"} /\ Within /\ 0 \in Nat /\ "record" \in {"buy", "record"}
    BY <1>1
  <2> QED BY <1>2, <2>1, <2>2, <2>3, DcaSteps
<1>4. CASE /\ step' = failed
           /\ happened' \in {happened, happened \cup {"lost"}} /\ position' \in {position, 0}
  <2>1. step' = [step EXCEPT !.pc = "buy", !.state = step.state, !.position = step.position]
    BY <1>4, StepIs DEF Quant!Cycle
  <2>2. /\ position' \in Nat /\ happened \subseteq happened' /\ happened' \subseteq Quant!Accidents
        /\ happened' \cap {"raised", "zombie"} = happened \cap {"raised", "zombie"}
    BY <1>4, StepIs DEF Quant!Accidents
  <2>3. happened' \cap {"raised", "zombie"} = {} => QuantityFits(happened', step.state.quantity, step.position)
    BY <1>1, <2>2, DcaQuantity DEF QuantityFits
  <2> QED BY <1>1, <2>1, <2>2, <2>3, DcaQuantity, StepIs, DcaSteps
<1> HIDE DEF done, failed
<1> QED BY <1>1, <1>3, <1>4, ClosedIs

LEMMA DcaBuyKeeps ==
  ASSUME Quant!QuantParameters, EngineInv, Quant!DcaBuy
  PROVE  EngineInv'
<1> DEFINE s == [step.state EXCEPT !.placed = @ + 1, !.invested = @ + 1, !.quantity = @ + 1]
           failed == [step EXCEPT !.pc = "record"]
           done == [step EXCEPT !.pc = "record", !.state = s]
<1>1. step.pc \in {"profit", "buy"} /\ Within /\ Quant!Open(done, failed)
  BY EngineSteps DEF Quant!DcaBuy, Quant!At, Quant!Engine, Quant!Averaged
<1>2. s \in Quant!RuntimeState /\ s.initialized /\ s.quantity = step.state.quantity + 1
  <2>1. step.state \in Quant!RuntimeState /\ step.state.initialized
    BY <1>1, DcaQuantity
  <2>2. {step.state.placed + 1, step.state.invested + 1, step.state.quantity + 1} \subseteq Nat
    BY <2>1 DEF Quant!RuntimeState
  <2> QED BY <2>1, <2>2 DEF Quant!RuntimeState
<1>3. CASE OrderBought(done)
  <2>0. PICK n \in Nat : /\ n > step.position /\ step' = [done EXCEPT !.position = n]
                         /\ "unfilled" \notin happened' => n = step.position + 1
    BY <1>3 DEF OrderBought
  <2>4. happened' \in {happened, happened \cup {"unfilled"}} /\ position' \in {position, position + 1}
    BY <1>3 DEF OrderBought
  <2> HIDE DEF s
  <2>1. step' = [step EXCEPT !.pc = "record", !.state = s, !.position = n]
    BY <2>0, <2>4, StepIs DEF Quant!Cycle
  <2>2. ASSUME happened' \cap {"raised", "zombie"} = {}
        PROVE  QuantityFits(happened', s.quantity, n)
    <3>1. QuantityFits(happened, step.state.quantity, step.position) /\ step.state.quantity \in Nat
      BY <1>1, <2>0, <2>4, <2>2, DcaQuantity DEF Quant!RuntimeState
    <3>2. s.quantity # 0 /\ n # 0
      BY <1>2, <2>0, <3>1, StepIs
    <3>3. "unfilled" \notin happened' => s.quantity = n
      BY <1>2, <2>0, <2>4, <3>1 DEF QuantityFits
    <3> QED BY <3>2, <3>3 DEF QuantityFits
  <2>3. n \in Nat /\ position' \in Nat /\ happened \subseteq happened'
        /\ happened' \subseteq Quant!Accidents
    BY <2>0, <2>4, StepIs DEF Quant!Accidents
  <2> QED BY <1>1, <1>2, <2>1, <2>2, <2>3, DcaSteps
<1>4. CASE OrderMissed(failed)
  <2>1. step' = [step EXCEPT !.pc = "record", !.state = step.state, !.position = step.position]
    BY <1>4, StepIs DEF Quant!Cycle, OrderMissed
  <2>2. /\ position' \in Nat /\ happened \subseteq happened' /\ happened' \subseteq Quant!Accidents
        /\ happened' \cap {"raised", "zombie"} = happened \cap {"raised", "zombie"}
    BY <1>4, StepIs DEF Quant!Accidents, OrderMissed
  <2>3. happened' \cap {"raised", "zombie"} = {} => QuantityFits(happened', step.state.quantity, step.position)
    BY <1>1, <2>2, DcaQuantity DEF QuantityFits
  <2> QED BY <1>1, <2>1, <2>2, <2>3, DcaQuantity, StepIs, DcaSteps
<1>5. CASE OrderRaised(failed)
  <2>1. PICK n \in Nat : step' = [[step EXCEPT !.pc = "record"] EXCEPT !.position = n]
    BY <1>5 DEF OrderRaised
  <2>2. step' = [step EXCEPT !.pc = "record", !.state = step.state, !.position = n]
    BY <2>1, StepIs DEF Quant!Cycle
  <2>3. /\ position' \in Nat /\ happened \subseteq happened' /\ happened' \subseteq Quant!Accidents
        /\ happened' \cap {"raised", "zombie"} # {}
    BY <1>5, StepIs DEF Quant!Accidents, OrderRaised
  <2> QED BY <1>1, <2>2, <2>3, DcaQuantity, DcaSteps
<1> HIDE DEF done, failed
<1> QED BY <1>1, <1>3, <1>4, <1>5, OpenedIs

LEMMA RsiSteps ==
  ASSUME Quant!QuantParameters, EngineInv, step.pc \in {"sync", "signal"}, Within,
         NEW p \in {"signal", "record"}, NEW b \in BOOLEAN, NEW n \in Nat,
         step' = [step EXCEPT !.pc = p, !.state.has = b, !.position = n],
         position' \in Nat, happened \subseteq happened', happened' \subseteq Quant!Accidents,
         happened' \cap {"blind", "opened"} = {} => position' <= 1 /\ (p = "signal" /\ ~b => position' = 0)
  PROVE  EngineInv'
<1> DEFINE s == [step.state EXCEPT !.has = b]
<1>1. kind = "rsi" /\ p \in Stages(kind) \cap {"buy", "signal", "record"}
      /\ step.state \in Quant!RuntimeState /\ step.state.initialized
  BY AtStage DEF Stages
<1>2. s \in Quant!RuntimeState /\ s.initialized /\ s.has = b
  BY <1>1 DEF Quant!RuntimeState
<1>3. step' = [step EXCEPT !.pc = p, !.state = s, !.position = n]
  BY StepIs DEF Quant!Cycle
<1>4. step'.pc = p /\ step'.state.has = b
  BY <1>2, <1>3, StepIs DEF Quant!Cycle
<1> HIDE DEF s
<1>5. Tells(kind, version, happened', s, n)
  BY <1>1, <1>2 DEF Tells
<1>6. SeesPosition'
  BY <1>1, <1>4 DEF SeesPosition, Within
<1>7. step.pc \in {"profit", "buy", "sync", "signal"}
  OBVIOUS
<1> QED BY <1>1, <1>2, <1>3, <1>5, <1>6, <1>7, StageDone

LEMMA Sees ==
  ASSUME Quant!QuantParameters, EngineInv, step.pc \in {"sync", "signal"}
  PROVE  /\ step.state \in Quant!RuntimeState /\ step.state.has \in BOOLEAN
         /\ happened \cap {"blind", "opened"} = {} =>
               position <= 1 /\ (step.pc = "signal" /\ ~step.state.has => position = 0)
<1>1. kind = "rsi" /\ step.state \in Quant!RuntimeState
  BY AtStage
<1> QED BY <1>1 DEF EngineInv, SeesPosition, Quant!RuntimeState

LEMMA RsiSyncKeeps ==
  ASSUME Quant!QuantParameters, EngineInv, Quant!RsiSync \/ Quant!RsiSyncFails
  PROVE  EngineInv'
<1>1. step.pc \in {"sync", "signal"} /\ Within
  BY EngineSteps DEF Quant!RsiSync, Quant!RsiSyncFails, Quant!At, Quant!Engine
<1>2. CASE Quant!RsiSync
  <2>1. step' = [step EXCEPT !.pc = "signal", !.state.has = position > 0, !.position = step.position]
        /\ position' = position /\ happened' = happened
    BY <1>2, StepIs DEF Quant!RsiSync, Quant!Cycle
  <2>2. (position > 0) \in BOOLEAN /\ (~(position > 0) => position = 0)
    BY StepIs
  <2> QED BY <1>1, <2>1, <2>2, StepIs, Sees, RsiSteps
<1>3. CASE Quant!RsiSyncFails
  <2>1. step' = [step EXCEPT !.pc = "signal", !.state.has = step.state.has, !.position = step.position]
        /\ position' = position /\ happened' = happened \cup {"blind"}
    <3>1. step.state = [step.state EXCEPT !.has = step.state.has]
      BY StepIs DEF Quant!RuntimeState
    <3>2. step' = [step EXCEPT !.pc = "signal"] /\ position' = position
          /\ happened' = happened \cup {"blind"}
      BY <1>3 DEF Quant!RsiSyncFails
    <3>3. [step EXCEPT !.pc = "signal"]
            = [step EXCEPT !.pc = "signal", !.state = step.state, !.position = step.position]
      BY StepIs DEF Quant!Cycle
    <3> QED BY <3>1, <3>2, <3>3, StepIs DEF Quant!Cycle
  <2> QED BY <1>1, <2>1, StepIs, Sees, RsiSteps DEF Quant!Accidents
<1> QED BY <1>2, <1>3

LEMMA RsiTradeKeeps ==
  ASSUME Quant!QuantParameters, EngineInv, Quant!RsiTrade
  PROVE  EngineInv'
<1> DEFINE failed == [step EXCEPT !.pc = "record"]
           bought == [step EXCEPT !.pc = "record", !.state.has = TRUE]
           sold == [step EXCEPT !.pc = "record", !.state.has = FALSE]
<1>0. step.pc \in {"sync", "signal"} /\ step.pc = "signal" /\ Within
  BY EngineSteps DEF Quant!RsiTrade, Quant!At, Quant!Engine
<1>1. \/ ~step.state.has /\ Quant!Open(bought, failed)
      \/ Quant!Close(sold, failed)
      \/ step' = failed /\ happened' = happened /\ position' = position
  <2>1. [failed EXCEPT !.state.has = TRUE] = bought /\ [failed EXCEPT !.state.has = FALSE] = sold
    BY StepIs DEF Quant!Cycle
  <2>2. Quant!RsiSignal = "buy" => ~step.state.has
    BY DEF Quant!RsiSignal
  <2> QED BY <2>1, <2>2 DEF Quant!RsiTrade
<1>2. ASSUME NEW n \in Nat, step' = [failed EXCEPT !.position = n], position' \in Nat,
             happened \subseteq happened', happened' \subseteq Quant!Accidents,
             happened' \cap {"blind", "opened"} = {} => position' <= 1
      PROVE  EngineInv'
  <2>1. step' = [step EXCEPT !.pc = "record", !.state.has = step.state.has, !.position = n]
    BY <1>0, <1>2, Sees, StepIs DEF Quant!Cycle, Quant!RuntimeState
  <2> QED BY <1>0, <1>2, <2>1, Sees, RsiSteps
<1>3. failed = [failed EXCEPT !.position = step.position]
  BY StepIs DEF Quant!Cycle
<1>4. ASSUME ~step.state.has, NEW n \in Nat, step' = [bought EXCEPT !.position = n],
             happened' \in {happened, happened \cup {"unfilled"}},
             position' \in {position, position + 1}
      PROVE  EngineInv'
  <2>1. step' = [step EXCEPT !.pc = "record", !.state.has = TRUE, !.position = n]
    BY <1>4, StepIs DEF Quant!Cycle
  <2>2. /\ n \in Nat /\ TRUE \in BOOLEAN /\ position' \in Nat
        /\ happened \subseteq happened' /\ happened' \subseteq Quant!Accidents
        /\ happened' \cap {"blind", "opened"} = {} => position' <= 1
    BY <1>0, <1>4, Sees, StepIs DEF Quant!Accidents
  <2> QED BY <1>0, <2>1, <2>2, RsiSteps
<1>5. ASSUME step' = [sold EXCEPT !.position = 0], position' \in {position, 0},
             happened' \in {happened, happened \cup {"unfilled"}}
      PROVE  EngineInv'
  <2>1. step' = [step EXCEPT !.pc = "record", !.state.has = FALSE, !.position = 0]
    BY <1>5, StepIs DEF Quant!Cycle
  <2>2. /\ 0 \in Nat /\ FALSE \in BOOLEAN /\ position' \in Nat
        /\ happened \subseteq happened' /\ happened' \subseteq Quant!Accidents
        /\ happened' \cap {"blind", "opened"} = {} => position' <= 1
    BY <1>0, <1>5, Sees, StepIs DEF Quant!Accidents
  <2> QED BY <1>0, <2>1, <2>2, RsiSteps
<1>6. ASSUME step' = failed, position' \in Nat, position' \in {position, 0} \/ (~step.state.has /\ position' = position + 1),
             happened' \in {happened, happened \cup {"lost"}}
      PROVE  EngineInv'
  <2>1. /\ happened \subseteq happened' /\ happened' \subseteq Quant!Accidents
        /\ happened' \cap {"blind", "opened"} = {} => position' <= 1
    BY <1>0, <1>6, Sees, StepIs DEF Quant!Accidents
  <2>2. step' = [failed EXCEPT !.position = step.position] /\ step.position \in Nat
    BY <1>3, <1>6, StepIs
  <2> HIDE DEF failed
  <2> QED BY <1>2, <1>6, <2>1, <2>2
<1>7. CASE ~step.state.has /\ Quant!Open(bought, failed)
  <2>1. CASE OrderRaised(failed)
    <3>1. PICK n \in Nat : step' = [failed EXCEPT !.position = n]
      BY <2>1 DEF OrderRaised
    <3>2. /\ happened \subseteq happened' /\ happened' \subseteq Quant!Accidents /\ position' \in Nat
          /\ happened' \cap {"blind", "opened"} = {} => position' <= 1
      BY <1>0, <1>7, <2>1, Sees, StepIs DEF Quant!Accidents, OrderRaised
    <3> HIDE DEF failed
    <3> QED BY <1>2, <3>1, <3>2
  <2>2. CASE OrderMissed(failed)
    <3>1. position' \in Nat
      BY <2>2, StepIs DEF OrderMissed
    <3>2. position' \in {position, 0} \/ (~step.state.has /\ position' = position + 1)
      BY <1>7, <2>2 DEF OrderMissed
    <3>3. step' = failed /\ happened' \in {happened, happened \cup {"lost"}}
      BY <2>2 DEF OrderMissed
    <3> HIDE DEF failed
    <3> QED BY <1>6, <3>1, <3>2, <3>3, StepIs
  <2>3. ~step.state.has
    BY <1>7
  <2> HIDE DEF bought, failed
  <2>4. CASE OrderBought(bought)
    BY <1>4, <2>3, <2>4 DEF OrderBought
  <2> QED BY <1>7, <2>1, <2>2, <2>4, OpenedIs
<1>8. CASE Quant!Close(sold, failed)
  <2> HIDE DEF sold, failed
  <2>1. /\ position' \in {position, 0}
        /\ \/ /\ step' = [sold EXCEPT !.position = 0]
              /\ happened' \in {happened, happened \cup {"unfilled"}}
           \/ /\ step' = failed
              /\ happened' \in {happened, happened \cup {"lost"}}
    BY <1>8, ClosedIs
  <2>2. position' \in Nat
    BY <2>1, StepIs
  <2>3. CASE step' = [sold EXCEPT !.position = 0] /\ happened' \in {happened, happened \cup {"unfilled"}}
    BY <1>5, <2>1, <2>3
  <2>4. CASE step' = failed /\ happened' \in {happened, happened \cup {"lost"}}
    BY <1>6, <2>1, <2>2, <2>4, StepIs
  <2> QED BY <2>1, <2>3, <2>4
<1>9. CASE step' = failed /\ happened' = happened /\ position' = position
  <2> HIDE DEF failed
  <2> QED BY <1>6, <1>9, StepIs
<1> QED BY <1>1, <1>7, <1>8, <1>9

LEMMA EngineNext == Quant!QuantParameters /\ EngineInv /\ [Quant!Next]_engineVars => EngineInv'
<1> SUFFICES ASSUME Quant!QuantParameters, EngineInv, [Quant!Next]_engineVars
             PROVE  EngineInv'
  OBVIOUS
<1>1. CASE UNCHANGED engineVars
  BY <1>1 DEF engineVars, EngineInv, Quant!TypeOK, Pending, SeesPosition
<1>2. CASE Quant!Next
  BY <1>2, BeginKeeps, NoPriceKeeps, CyclesEnd, OthersInterfere, ReconcileKeeps, ReconfigureKeeps,
     GridBuyKeeps, GridSellKeeps, GridGoesOn, DcaGoesOn, DcaTakeProfitKeeps, DcaBuyKeeps,
     RsiSyncKeeps, RsiTradeKeeps DEF Quant!Next, Quant!Engine
<1> QED BY <1>1, <1>2

LEMMA StateSuffices ==
  ASSUME EngineInv
  PROVE  Quant!TypeOK /\ Quant!StateTellsPosition
<1>1. Quant!DcaQuantityIsLedgers
  BY DEF EngineInv, Tells, QuantityFits, Quant!DcaQuantityIsLedgers, Quant!Free
<1>2. Quant!GridUnitsHaveLevels
  BY DEF EngineInv, Tells, LevelsBack, Quant!GridUnitsHaveLevels, Quant!Free
<1>3. Quant!RsiHoldsOneOrder
  BY DEF EngineInv, SeesPosition, Quant!RsiHoldsOneOrder, Quant!Free
<1> QED BY <1>1, <1>2, <1>3 DEF EngineInv, Quant!StateTellsPosition

-----------------------------------------------------------------------------
(* PaperTrading: what the orders do to an account and to a book.            *)

LEMMA SamePaper ==
  /\ \A f, S : Paper!Total(f, S) = Total(f, S)
  /\ \A S : Paper!IsFiniteSet(S) <=> IsFiniteSet(S)
<1>1. \A f, S : Paper!Total(f, S) = Total(f, S)
  BY DEF Paper!Total, Total
<1>2. \A S : Paper!IsFiniteSet(S) <=> IsFiniteSet(S)
  BY DEF Paper!IsFiniteSet, IsFiniteSet
<1> QED BY <1>1, <1>2

-----------------------------------------------------------------------------
\* A symbol without a position or a row has the empty one.
GoodAccount(a) ==
    /\ a \in Paper!Accounts
    /\ \A s \in Coins : a.pos[s] = Paper!Flat \/ a.pos[s].side \in Paper!Sides
GoodBook(b) ==
    /\ b \in Paper!Books
    /\ \A s \in Coins : b.rows[s] = Paper!NoRow \/ b.rows[s].side \in Paper!Sides

\* The rows of b stand for the account a.
Stands(a, b) ==
    /\ a.balance = Deposit + b.realized
    /\ \A s \in Coins : Paper!RowOf(a.pos[s]) = b.rows[s]

LEMMA ProductIsNat == \A m, n \in Nat : m * n \in Nat
OBVIOUS

LEMMA FlatIs ==
  /\ Paper!Flat \in Paper!Positions /\ Paper!Flat.size = 0 /\ Paper!Flat.side = "none"
  /\ Paper!Flat.cost = 0 /\ Paper!RowOf(Paper!Flat) = Paper!NoRow
  /\ Paper!FromRow(Paper!NoRow) = Paper!Flat
  /\ Paper!NoRow \in Paper!Rows /\ Paper!NoRow.side = "none"
<1>1. Paper!NoRow \in Paper!Rows /\ Paper!NoRow.side = "none" /\ Paper!NoRow.size = 0 /\ Paper!NoRow.cost = 0
  BY DEF Paper!NoRow, Paper!Rows, Paper!Sides
<1>2. /\ Paper!Flat \in Paper!Positions /\ Paper!Flat.size = 0 /\ Paper!Flat.side = "none"
      /\ Paper!Flat.cost = 0
  BY DEF Paper!Flat, Paper!Positions, Paper!Sides
<1>3. Paper!RowOf(Paper!Flat) = Paper!NoRow
  BY <1>2 DEF Paper!RowOf, Paper!NoRow
<1>4. Paper!FromRow(Paper!NoRow) = Paper!Flat
  <2>1. Paper!FromRow(Paper!NoRow) = [Paper!Flat EXCEPT !.side = "none", !.size = 0, !.cost = 0]
    BY <1>1 DEF Paper!FromRow
  <2> QED BY <1>2, <2>1, ZenonT(60) DEF Paper!Positions
<1> QED BY <1>1, <1>2, <1>3, <1>4

LEMMA PositionIs ==
  ASSUME NEW p \in Paper!Positions
  PROVE  /\ p.size \in Nat /\ p.cost \in Nat /\ p.side \in Paper!Sides \cup {"none"}
         /\ p.sl \in Nat /\ p.tp \in Nat
BY DEF Paper!Positions

LEMMA AccountIs ==
  ASSUME NEW a, GoodAccount(a)
  PROVE  /\ a.balance \in Int /\ a.pos \in [Coins -> Paper!Positions]
         /\ a = [balance |-> a.balance, pos |-> a.pos]
BY DEF GoodAccount, Paper!Accounts

LEMMA GoodWith ==
  ASSUME NEW x \in Int, NEW pos \in [Coins -> Paper!Positions],
         \A s \in Coins : pos[s] = Paper!Flat \/ pos[s].side \in Paper!Sides
  PROVE  GoodAccount([balance |-> x, pos |-> pos])
BY DEF GoodAccount, Paper!Accounts

LEMMA NewAccount ==
  ASSUME Paper!SimulatorParameters
  PROVE  GoodAccount(Paper!Account(Deposit)) /\ \A s \in Coins : Paper!Account(Deposit).pos[s] = Paper!Flat
<1>1. Deposit \in Int
  BY DEF Paper!SimulatorParameters
<1>2. [s \in Coins |-> Paper!Flat] \in [Coins -> Paper!Positions]
  BY FlatIs
<1> QED BY <1>1, <1>2, GoodWith DEF Paper!Account

LEMMA PnlIs ==
  ASSUME NEW p \in Paper!Positions, NEW x \in Nat
  PROVE  /\ Paper!Pnl(p, x) \in Int
         /\ Paper!Pnl(Paper!RowOf(p), x) = Paper!Pnl(p, x)
<1>1. p.size * x \in Nat /\ x * p.size \in Nat /\ p.cost \in Nat
  BY PositionIs, ProductIsNat
<1>2. Paper!Pnl(p, x) \in Int
  BY <1>1 DEF Paper!Pnl
<1> QED BY <1>2 DEF Paper!Pnl, Paper!RowOf

LEMMA FillIs ==
  ASSUME Paper!SimulatorParameters, NEW x \in Quotes, NEW side
  PROVE  Paper!Fill(side, x) \in Nat /\ Paper!Fill(side, x) <= Paper!Fill("long", x)
BY DEF Paper!SimulatorParameters, Paper!Fill

LEMMA ClosedIsGood ==
  ASSUME NEW a, GoodAccount(a), NEW s \in Coins, NEW x \in Nat
  PROVE  /\ GoodAccount(Paper!ClosedAt(a, s, x))
         /\ Paper!ClosedAt(a, s, x).pos = [a.pos EXCEPT ![s] = Paper!Flat]
         /\ Paper!ClosedAt(a, s, x).balance = a.balance + Paper!Pnl(a.pos[s], x)
<1>1. a.balance + Paper!Pnl(a.pos[s], x) \in Int
  BY AccountIs, PnlIs
<1>2. [a.pos EXCEPT ![s] = Paper!Flat] \in [Coins -> Paper!Positions]
  BY AccountIs, FlatIs
<1>3. \A t \in Coins : LET q == [a.pos EXCEPT ![s] = Paper!Flat] IN
         q[t] = Paper!Flat \/ q[t].side \in Paper!Sides
  BY AccountIs DEF GoodAccount
<1> QED BY <1>1, <1>2, <1>3, GoodWith DEF Paper!ClosedAt

LEMMA RefreshedIs ==
  ASSUME Paper!SimulatorParameters, price \in [Coins -> Quotes], NEW a, GoodAccount(a)
  PROVE  /\ GoodAccount(Paper!Refreshed(a))
         /\ \A s \in Coins : Paper!Refreshed(a).pos[s] \in {a.pos[s], Paper!Flat}
<1> DEFINE hit == {s \in Coins : Paper!StopHit(a.pos[s], price[s]) \/ Paper!TargetHit(a.pos[s], price[s])}
           gain == [s \in Coins |-> Paper!Pnl(a.pos[s], price[s])]
           pos == [s \in Coins |-> IF s \in hit THEN Paper!Flat ELSE a.pos[s]]
<1>1. Paper!Refreshed(a) = [balance |-> a.balance + Total(gain, hit), pos |-> pos]
  BY SamePaper DEF Paper!Refreshed, Paper!SetPrices
<1>2. IsFiniteSet(hit)
  BY SamePaper, FS_Subset DEF Paper!SimulatorParameters
<1>3. \A s \in hit : gain[s] \in Int
  <2> TAKE s \in hit
  <2>1. a.pos[s] \in Paper!Positions /\ price[s] \in Nat
    BY AccountIs DEF Paper!SimulatorParameters
  <2> QED BY <2>1, PnlIs
<1>4. pos \in [Coins -> Paper!Positions]
  BY AccountIs, FlatIs
<1>5. \A s \in Coins : pos[s] = Paper!Flat \/ pos[s].side \in Paper!Sides
  BY DEF GoodAccount
<1>6. \A s \in Coins : pos[s] \in {a.pos[s], Paper!Flat}
  OBVIOUS
<1> HIDE DEF hit, gain, pos
<1>7. a.balance + Total(gain, hit) \in Int
  BY <1>2, <1>3, SumIsInt, AccountIs
<1> QED BY <1>1, <1>4, <1>5, <1>6, <1>7, GoodWith

(* A position added to, or a new one.                                       *)
LEMMA PutIs ==
  ASSUME NEW a, GoodAccount(a), NEW s \in Coins, NEW p \in Paper!Positions, p.side \in Paper!Sides
  PROVE  /\ GoodAccount([a EXCEPT !.pos[s] = p])
         /\ [a EXCEPT !.pos[s] = p].pos = [a.pos EXCEPT ![s] = p]
         /\ [a EXCEPT !.pos[s] = p].balance = a.balance
<1>1. [a EXCEPT !.pos[s] = p] = [balance |-> a.balance, pos |-> [a.pos EXCEPT ![s] = p]]
  BY AccountIs
<1>2. [a.pos EXCEPT ![s] = p] \in [Coins -> Paper!Positions]
  BY AccountIs
<1>3. \A t \in Coins : LET q == [a.pos EXCEPT ![s] = p] IN
         q[t] = Paper!Flat \/ q[t].side \in Paper!Sides
  BY AccountIs DEF GoodAccount
<1> QED BY <1>1, <1>2, <1>3, AccountIs, GoodWith

\* The account after an order of n units at x, and the position it gives.
Bought(side, n, x) == [Paper!Flat EXCEPT !.side = side, !.size = n, !.cost = n * Paper!Fill(side, x)]

\* The outcome o of an order on the account a.
Outcome(a, s, side, n, x, o) ==
    \/ /\ a.pos[s].side = side /\ o.success
       /\ o.account = [a EXCEPT !.pos[s] = Paper!Increased(a.pos[s], n, Paper!Fill(side, x))]
    \/ /\ a.pos[s] = Paper!Flat /\ o.success
       /\ o.account = [a EXCEPT !.pos[s] = Bought(side, n, x)]
    \/ a.pos[s] = Paper!Flat /\ ~o.success /\ o.account = a
    \/ /\ a.pos[s].side = Paper!Opposite(side) /\ ~o.success
       /\ o.account = Paper!ClosedAt(a, s, Paper!Fill(side, x))
    \/ /\ a.pos[s].side = Paper!Opposite(side) /\ o.success
       /\ o.account = [Paper!ClosedAt(a, s, Paper!Fill(side, x)) EXCEPT !.pos[s] = Bought(side, n, x)]

LEMMA OrderIs ==
  ASSUME NEW a, GoodAccount(a), NEW s \in Coins, NEW side \in Paper!Sides, NEW n, NEW x
  PROVE  Outcome(a, s, side, n, x, Paper!Order(a, s, side, n, x))
<1> PICK o : o = Paper!Order(a, s, side, n, x)
  OBVIOUS
<1> SUFFICES Outcome(a, s, side, n, x, o)
  OBVIOUS
<1> USE DEF Outcome
<1>1. a.pos[s] = Paper!Flat \/ a.pos[s].side \in Paper!Sides
  BY DEF GoodAccount
<1>2. side # Paper!Opposite(side) /\ side # "none" /\ Paper!Opposite(side) # "none"
      /\ (a.pos[s].side \in Paper!Sides => a.pos[s].side \in {side, Paper!Opposite(side)})
  BY DEF Paper!Sides, Paper!Opposite
<1>3. CASE a.pos[s].side = side
  <2>1. PICK held, fill : held = a.pos[s] /\ fill = Paper!Fill(side, x)
    OBVIOUS
  <2>2. o = [success |-> TRUE, account |-> [a EXCEPT !.pos[s] = Paper!Increased(held, n, fill)]]
    BY <1>2, <1>3, <2>1 DEF Paper!Order
  <2> QED BY <1>3, <2>1, <2>2
<1>4. CASE a.pos[s] = Paper!Flat
  <2>1. a.pos[s].side = "none"
    BY <1>4, FlatIs
  <2> QED BY <1>2, <1>4, <2>1 DEF Paper!Order, Bought
<1>5. CASE a.pos[s].side = Paper!Opposite(side)
  BY <1>2, <1>5 DEF Paper!Order, Bought
<1> QED BY <1>1, <1>2, <1>3, <1>4, <1>5

-----------------------------------------------------------------------------
(* Books.                                                                   *)

LEMMA BookIs ==
  ASSUME NEW b, GoodBook(b)
  PROVE  /\ b.rows \in [Coins -> Paper!Rows] /\ b.realized \in Int
         /\ b = [rows |-> b.rows, realized |-> b.realized]
         /\ \A s \in Coins : b.rows[s].side \in Paper!Sides \cup {"none"} /\ b.rows[s].cost \in Nat
BY DEF GoodBook, Paper!Books, Paper!Rows

LEMMA BookWith ==
  ASSUME NEW x \in Int, NEW rs \in [Coins -> Paper!Rows],
         \A s \in Coins : rs[s] = Paper!NoRow \/ rs[s].side \in Paper!Sides
  PROVE  GoodBook([rows |-> rs, realized |-> x])
BY DEF GoodBook, Paper!Books

LEMMA EmptyBook == GoodBook(Paper!Empty) /\ Paper!Empty.realized = 0
                   /\ \A s \in Coins : Paper!Empty.rows[s] = Paper!NoRow
<1>1. [s \in Coins |-> Paper!NoRow] \in [Coins -> Paper!Rows] /\ 0 \in Int
  BY FlatIs
<1> QED BY <1>1, BookWith DEF Paper!Empty

(* A row changes.                                                           *)
LEMMA RowPut ==
  ASSUME NEW b, GoodBook(b), NEW s \in Coins, NEW r \in Paper!Rows, NEW x \in Int,
         r = Paper!NoRow \/ r.side \in Paper!Sides
  PROVE  GoodBook([rows |-> [b.rows EXCEPT ![s] = r], realized |-> x])
<1>1. [b.rows EXCEPT ![s] = r] \in [Coins -> Paper!Rows]
  BY BookIs
<1>2. \A t \in Coins : LET q == [b.rows EXCEPT ![s] = r] IN
         q[t] = Paper!NoRow \/ q[t].side \in Paper!Sides
  BY BookIs DEF GoodBook
<1> QED BY <1>1, <1>2, BookWith

LEMMA FromRowIs ==
  ASSUME NEW r \in Paper!Rows
  PROVE  /\ Paper!FromRow(r) \in Paper!Positions /\ Paper!RowOf(Paper!FromRow(r)) = r
         /\ Paper!FromRow(r).side = r.side
<1>1. r.side \in Paper!Sides \cup {"none"} /\ r.size \in Nat /\ r.cost \in Nat
      /\ r = [side |-> r.side, size |-> r.size, cost |-> r.cost]
  BY DEF Paper!Rows
<1>2. Paper!FromRow(r) = [side |-> r.side, size |-> r.size, cost |-> r.cost, sl |-> 0, tp |-> 0]
  <2>1. PICK a, n, c : a = r.side /\ n = r.size /\ c = r.cost
    OBVIOUS
  <2>2. Paper!FromRow(r) = [Paper!Flat EXCEPT !.side = a, !.size = n, !.cost = c]
    BY <2>1 DEF Paper!FromRow
  <2>3. Paper!Flat = [side |-> "none", size |-> 0, cost |-> 0, sl |-> 0, tp |-> 0]
    BY DEF Paper!Flat
  <2> QED BY <2>1, <2>2, <2>3
<1> QED BY <1>1, <1>2 DEF Paper!Positions, Paper!RowOf

(* The account that a worker restores stands on its book.                   *)
LEMMA RestoredIs ==
  ASSUME Paper!SimulatorParameters, NEW b, GoodBook(b)
  PROVE  GoodAccount(Paper!Restored(b)) /\ Stands(Paper!Restored(b), b)
<1>1. Deposit \in Int /\ b.realized \in Int
  BY BookIs DEF Paper!SimulatorParameters
<1>2. CASE Paper!Open(b) # {} \/ b.realized # 0
  <2>1. PICK pos : pos = [s \in Coins |-> Paper!FromRow(b.rows[s])]
    OBVIOUS
  <2>2. Paper!Restored(b) = [balance |-> Deposit + b.realized, pos |-> pos]
    BY <1>2, <2>1 DEF Paper!Restored
  <2>3. /\ pos \in [Coins -> Paper!Positions]
        /\ \A s \in Coins : Paper!RowOf(pos[s]) = b.rows[s] /\ pos[s].side = b.rows[s].side
    BY <2>1, BookIs, FromRowIs
  <2>4. \A s \in Coins : pos[s] = Paper!Flat \/ pos[s].side \in Paper!Sides
    BY <2>1, <2>3, FlatIs DEF GoodBook
  <2>5. Deposit + b.realized \in Int
    BY <1>1
  <2>6. GoodAccount(Paper!Restored(b))
    BY <2>2, <2>3, <2>4, <2>5, GoodWith
  <2> QED BY <2>2, <2>3, <2>6 DEF Stands
<1>3. CASE Paper!Open(b) = {} /\ b.realized = 0
  <2>1. Paper!Restored(b) = Paper!Account(Deposit) /\ Paper!Account(Deposit).balance = Deposit
    BY <1>3 DEF Paper!Restored, Paper!Account
  <2>2. \A s \in Coins : b.rows[s] = Paper!NoRow
    BY <1>3 DEF Paper!Open
  <2> QED BY <1>1, <1>3, <2>1, <2>2, NewAccount, FlatIs DEF Stands
<1> QED BY <1>2, <1>3

(* Closing.                                                                 *)
LEMMA RowClosedIs ==
  ASSUME NEW b, GoodBook(b), NEW s \in Coins, NEW x \in Int
  PROVE  /\ GoodBook(Paper!RowClosed(b, s, x))
         /\ b.rows[s] = Paper!NoRow => Paper!RowClosed(b, s, x) = b
         /\ b.rows[s] # Paper!NoRow =>
               /\ Paper!RowClosed(b, s, x).rows = [b.rows EXCEPT ![s] = Paper!NoRow]
               /\ Paper!RowClosed(b, s, x).realized = b.realized + x
<1>1. b.realized + x \in Int
  BY BookIs
<1>2. GoodBook([rows |-> [b.rows EXCEPT ![s] = Paper!NoRow], realized |-> b.realized + x])
  BY <1>1, RowPut, FlatIs
<1> QED BY <1>2 DEF Paper!RowClosed

LEMMA CloseIs ==
  ASSUME Paper!SimulatorParameters, price \in [Coins -> Quotes], NEW a, GoodAccount(a),
         NEW b, GoodBook(b), NEW s \in Coins, NEW c, c = Paper!Close(a, b, s)
  PROVE  /\ GoodAccount(c.account) /\ GoodBook(c.book)
         /\ \A t \in Coins : c.account.pos[t] \in {a.pos[t], Paper!Flat}
         /\ Paper!Refreshed(a) = a /\ Stands(a, b) => Stands(c.account, c.book)
<1>1. PICK r, held, fill : /\ r = Paper!Refreshed(a) /\ held = r.pos[s]
                           /\ fill = Paper!ExitFill(held, price[s])
  OBVIOUS
<1>2. GoodAccount(r) /\ \A t \in Coins : r.pos[t] \in {a.pos[t], Paper!Flat}
  BY <1>1, RefreshedIs
<1>3. fill \in Nat /\ price[s] \in Quotes
  BY <1>1, FillIs DEF Paper!ExitFill
<1>4. held \in Paper!Positions /\ b.rows[s] \in Paper!Rows
  BY <1>1, <1>2, AccountIs, BookIs
<1>5. CASE held = Paper!Flat
  <2>9. PICK z \in Int : z = 0
    OBVIOUS
  <2>0. PICK d : d = Paper!RowClosed(b, s, z)
    OBVIOUS
  <2>1. c = [account |-> r, book |-> d]
    BY <1>1, <1>5, <2>0, <2>9 DEF Paper!Close
  <2>2. GoodBook(c.book) /\ (b.rows[s] = Paper!NoRow => c.book = b)
    <3>1. GoodBook(d) /\ (b.rows[s] = Paper!NoRow => d = b)
      <4>1. z \in Int /\ d = Paper!RowClosed(b, s, z)
        BY <2>0
      <4>2. CASE b.rows[s] = Paper!NoRow
        BY <4>1, <4>2 DEF Paper!RowClosed
      <4>3. CASE b.rows[s] # Paper!NoRow
        <5>1. \A y \in Int : GoodBook(Paper!RowClosed(b, s, y))
          BY RowClosedIs
        <5> QED BY <4>1, <4>3, <5>1
      <4> QED BY <4>2, <4>3
    <3>2. c.book = d
      BY <2>1
    <3> QED BY <3>1, <3>2
  <2>3. r = a /\ Stands(a, b) => b.rows[s] = Paper!NoRow
    BY <1>1, <1>5, FlatIs DEF Stands
  <2> QED BY <1>1, <1>2, <2>1, <2>2, <2>3
<1>6. CASE held # Paper!Flat
  <2>1. PICK gain : gain = Paper!Pnl(b.rows[s], fill)
    OBVIOUS
  <2>2. c = [account |-> Paper!ClosedAt(r, s, fill), book |-> Paper!RowClosed(b, s, gain)]
    BY <1>1, <1>6, <2>1 DEF Paper!Close
  <2>3. gain \in Int
    <3>1. Paper!FromRow(b.rows[s]) \in Paper!Positions
          /\ Paper!RowOf(Paper!FromRow(b.rows[s])) = b.rows[s]
      BY <1>4, FromRowIs
    <3> QED BY <1>3, <2>1, <3>1, PnlIs
  <2>4. /\ GoodAccount(c.account) /\ c.account.pos = [r.pos EXCEPT ![s] = Paper!Flat]
        /\ c.account.balance = r.balance + Paper!Pnl(held, fill)
    BY <1>1, <1>2, <1>3, <2>2, ClosedIsGood
  <2>5. GoodBook(c.book)
    <3>1. c.book = Paper!RowClosed(b, s, gain)
      BY <2>2
    <3>2. GoodBook(Paper!RowClosed(b, s, gain))
      BY <2>3, RowClosedIs
    <3> QED BY <3>1, <3>2
  <2>6. \A t \in Coins : c.account.pos[t] \in {a.pos[t], Paper!Flat}
    BY <1>2, <2>4, AccountIs
  <2>7. ASSUME r = a, Stands(a, b) PROVE Stands(c.account, c.book)
    <3>1. Paper!RowOf(held) = b.rows[s] /\ held.side \in Paper!Sides
      BY <1>1, <1>6, <2>7 DEF Stands, GoodAccount
    <3>2. b.rows[s] # Paper!NoRow
      <4>1. Paper!RowOf(held).side = held.side
        BY DEF Paper!RowOf
      <4> QED BY <3>1, <4>1, FlatIs DEF Paper!Sides
    <3>3. Paper!Pnl(held, fill) = gain
      BY <1>3, <1>4, <2>1, <3>1, PnlIs
    <3>4. c.book.rows = [b.rows EXCEPT ![s] = Paper!NoRow] /\ c.book.realized = b.realized + gain
      BY <2>2, <2>3, <3>2, RowClosedIs
    <3>5. c.account.balance = Deposit + c.book.realized
      <4>1. a.balance = Deposit + b.realized /\ b.realized \in Int /\ Deposit \in Int
        BY <2>7, BookIs DEF Stands, Paper!SimulatorParameters
      <4> QED BY <2>3, <2>4, <2>7, <3>3, <3>4, <4>1
    <3>6. \A t \in Coins : Paper!RowOf(c.account.pos[t]) = c.book.rows[t]
      <4> TAKE t \in Coins
      <4>1. CASE t = s
        BY <1>2, <2>4, <3>4, <4>1, AccountIs, BookIs, FlatIs
      <4>2. CASE t # s
        BY <1>2, <2>4, <2>7, <3>4, <4>2, AccountIs, BookIs DEF Stands
      <4> QED BY <4>1, <4>2
    <3> QED BY <3>5, <3>6 DEF Stands
  <2> QED BY <1>1, <2>4, <2>5, <2>6, <2>7
<1> QED BY <1>5, <1>6

(* Ordering.                                                                *)
LEMMA StopsIs ==
  ASSUME NEW a, GoodAccount(a), NEW s \in Coins, a.pos[s].side \in Paper!Sides, NEW stops,
         stops.sl \in Nat, stops.tp \in Nat
  PROVE  \E p \in Paper!Positions :
            /\ Paper!WithStops(a, s, stops) = [a EXCEPT !.pos[s] = p]
            /\ Paper!RowOf(p) = Paper!RowOf(a.pos[s]) /\ p.side = a.pos[s].side
            /\ p.cost = a.pos[s].cost /\ p.size = a.pos[s].size
<1>1. a.pos[s] \in Paper!Positions /\ a.pos \in [Coins -> Paper!Positions]
  BY AccountIs
<1>2. PICK q \in Paper!Positions : q = a.pos[s]
  BY <1>1
<1>3. PICK l, m \in Nat : /\ l = IF stops.sl > 0 THEN stops.sl ELSE q.sl
                          /\ m = IF stops.tp > 0 THEN stops.tp ELSE q.tp
  BY PositionIs
<1>4. PICK p : p = [q EXCEPT !.sl = l, !.tp = m]
  OBVIOUS
<1>5. p \in Paper!Positions /\ p.side = q.side /\ p.size = q.size /\ p.cost = q.cost
  BY <1>4 DEF Paper!Positions
<1>6. Paper!WithStops(a, s, stops) = [a EXCEPT !.pos[s] = p]
  BY <1>1, <1>2, <1>3, <1>4, AccountIs, ZenonT(60) DEF Paper!WithStops, Paper!Positions
<1>7. Paper!RowOf(p) = Paper!RowOf(q)
  BY <1>5 DEF Paper!RowOf
<1> QED BY <1>2, <1>5, <1>6, <1>7

LEMMA OrderedIs ==
  ASSUME Paper!SimulatorParameters, price \in [Coins -> Quotes], NEW a, GoodAccount(a),
         NEW b, GoodBook(b), NEW s \in Coins, NEW side \in Paper!Sides, NEW n \in Sizes,
         NEW stops, stops.sl \in Nat, stops.tp \in Nat,
         NEW c, c = Paper!Ordered(a, b, s, side, n, stops)
  PROVE  /\ GoodAccount(c.account) /\ GoodBook(c.book) /\ c.book.realized = b.realized
         /\ Paper!Refreshed(a) = a /\ Stands(a, b) /\ s \notin Paper!Open(b) => Stands(c.account, c.book)
         /\ Paper!Affordable(Paper!Refreshed(a), s, n) =>
               \A t \in Coins :
                  c.account.pos[t].size > a.pos[t].size /\ a.pos[t].side \in {"none", c.account.pos[t].side}
                     => Paper!Spare(c.account) >= 0
<1>1. PICK r, x, fill : r = Paper!Refreshed(a) /\ x = price[s] /\ fill = Paper!Fill(side, x)
  OBVIOUS
<1>2. GoodAccount(r) /\ \A t \in Coins : r.pos[t] \in {a.pos[t], Paper!Flat}
  BY <1>1, RefreshedIs
<1>3. x \in Quotes /\ fill \in Nat /\ fill <= Paper!Fill("long", x) /\ Paper!Fill("long", x) \in Nat
  BY <1>1, FillIs
<1>4. n \in Nat /\ n # 0 /\ n * fill \in Nat
  BY <1>3, ProductIsNat DEF Paper!SimulatorParameters
<1>5. PICK o : o = Paper!Order(r, s, side, n, x)
  OBVIOUS
<1>13. Outcome(r, s, side, n, x, o)
  BY <1>2, <1>5, OrderIs
<1>6. PICK row : row = [side |-> side, size |-> n, cost |-> n * fill]
  OBVIOUS
<1>7. c = IF ~o.success THEN [account |-> o.account, book |-> b]
          ELSE [account |-> Paper!WithStops(o.account, s, stops),
                book |-> IF s \in Paper!Open(b) THEN b ELSE [b EXCEPT !.rows[s] = row]]
  BY <1>1, <1>5, <1>6 DEF Paper!Ordered
<1>8. Paper!Opposite(side) \in Paper!Sides /\ side # Paper!Opposite(side) /\ side # "none"
      /\ Paper!Opposite(side) # "none"
  BY DEF Paper!Sides, Paper!Opposite
<1>9. row \in Paper!Rows /\ row.side \in Paper!Sides
  BY <1>4, <1>6 DEF Paper!Rows
\* A symbol whose position does not grow asks for nothing.
<1>10. ASSUME NEW p, NEW q, p.size \in Nat, q.size \in Nat, q.size <= p.size
       PROVE  ~(q.size > p.size)
  BY <1>10
\* Refused: at most a position on the other side was closed.
<1>11. CASE ~o.success
  <2>1. c = [account |-> o.account, book |-> b]
    BY <1>7, <1>11
  <2>2. \/ o.account = r
        \/ o.account = Paper!ClosedAt(r, s, fill) /\ r.pos[s].side = Paper!Opposite(side)
    BY <1>1, <1>11, <1>13 DEF Outcome
  <2>3. GoodAccount(o.account) /\ \A t \in Coins : o.account.pos[t] \in {a.pos[t], Paper!Flat}
    <3>1. GoodAccount(Paper!ClosedAt(r, s, fill))
          /\ Paper!ClosedAt(r, s, fill).pos = [r.pos EXCEPT ![s] = Paper!Flat]
      BY <1>2, <1>3, ClosedIsGood
    <3> QED BY <1>2, <2>2, <3>1, AccountIs
  <2>4. \A t \in Coins : ~(c.account.pos[t].size > a.pos[t].size)
    <3> TAKE t \in Coins
    <3>1. a.pos[t].size \in Nat
      BY AccountIs, PositionIs
    <3> QED BY <2>1, <2>3, <3>1, FlatIs
  <2>5. ASSUME r = a, Stands(a, b), s \notin Paper!Open(b) PROVE o.account = a
    <3>1. b.rows[s] = Paper!NoRow
      BY <2>5 DEF Paper!Open
    <3>2. Paper!RowOf(a.pos[s]).side = "none"
      BY <2>5, <3>1, FlatIs DEF Stands
    <3>3. a.pos[s].side = "none"
      BY <3>2 DEF Paper!RowOf
    <3> QED BY <1>8, <2>2, <2>5, <3>3
  <2> QED BY <1>1, <2>1, <2>3, <2>4, <2>5
<1>12. CASE o.success
  <2>1. PICK base, p : /\ o.account = [base EXCEPT !.pos[s] = p]
                       /\ \/ /\ base = r /\ r.pos[s].side = side
                             /\ p = Paper!Increased(r.pos[s], n, fill)
                          \/ base = r /\ r.pos[s] = Paper!Flat /\ p = Bought(side, n, x)
                          \/ /\ base = Paper!ClosedAt(r, s, fill) /\ p = Bought(side, n, x)
                             /\ r.pos[s].side = Paper!Opposite(side)
    BY <1>1, <1>12, <1>13 DEF Outcome
  <2>2. /\ Bought(side, n, x) \in Paper!Positions /\ Bought(side, n, x).side = side
        /\ Bought(side, n, x).cost = n * fill /\ Paper!RowOf(Bought(side, n, x)) = row
    <3>1. Bought(side, n, x) = [side |-> side, size |-> n, cost |-> n * fill, sl |-> 0, tp |-> 0]
      <4>1. Bought(side, n, x) = [Paper!Flat EXCEPT !.side = side, !.size = n, !.cost = n * fill]
        BY <1>1 DEF Bought
      <4>2. Paper!Flat = [side |-> "none", size |-> 0, cost |-> 0, sl |-> 0, tp |-> 0]
        BY DEF Paper!Flat
      <4>3. PICK k : k = n * fill
        OBVIOUS
      <4>4. Bought(side, n, x) = [Paper!Flat EXCEPT !.side = side, !.size = n, !.cost = k]
        BY <4>1, <4>3
      <4> QED BY <4>2, <4>3, <4>4
    <3> QED BY <1>4, <1>6, <3>1 DEF Paper!Positions, Paper!RowOf
  <2>3. ASSUME NEW h \in Paper!Positions, h.side = side
        PROVE  /\ Paper!Increased(h, n, fill) \in Paper!Positions
               /\ Paper!Increased(h, n, fill).side = side
               /\ Paper!Increased(h, n, fill).cost = h.cost + n * fill
    <3>1. PICK m, k \in Nat : m = h.size + n /\ k = h.cost + n * fill
      BY <1>4, PositionIs
    <3>2. Paper!Increased(h, n, fill) = [h EXCEPT !.size = m, !.cost = k]
      BY <3>1 DEF Paper!Increased
    <3> QED BY <2>3, <3>1, <3>2 DEF Paper!Positions
  <2>4. p \in Paper!Positions /\ p.side = side
    BY <1>2, <2>1, <2>2, <2>3, AccountIs
  <2>5. GoodAccount(base) /\ \A t \in Coins \ {s} : base.pos[t] \in {a.pos[t], Paper!Flat}
    <3>1. GoodAccount(Paper!ClosedAt(r, s, fill))
          /\ Paper!ClosedAt(r, s, fill).pos = [r.pos EXCEPT ![s] = Paper!Flat]
      BY <1>2, <1>3, ClosedIsGood
    <3> QED BY <1>2, <2>1, <3>1, AccountIs
  <2>6. /\ GoodAccount(o.account) /\ o.account.pos = [base.pos EXCEPT ![s] = p]
        /\ o.account.balance = base.balance /\ o.account.pos[s] = p
    BY <2>1, <2>4, <2>5, PutIs, AccountIs
  <2>7. PICK q \in Paper!Positions :
          /\ Paper!WithStops(o.account, s, stops) = [o.account EXCEPT !.pos[s] = q]
          /\ Paper!RowOf(q) = Paper!RowOf(p) /\ q.side = side /\ q.cost = p.cost
    <3>1. PICK y : y = o.account
      OBVIOUS
    <3>2. GoodAccount(y) /\ y.pos[s] = p /\ y.pos[s].side \in Paper!Sides
      BY <2>4, <2>6, <3>1
    <3>3. \E q \in Paper!Positions :
            /\ Paper!WithStops(y, s, stops) = [y EXCEPT !.pos[s] = q]
            /\ Paper!RowOf(q) = Paper!RowOf(y.pos[s]) /\ q.side = y.pos[s].side
            /\ q.cost = y.pos[s].cost /\ q.size = y.pos[s].size
      BY <3>2, StopsIs
    <3> QED BY <2>4, <3>1, <3>2, <3>3
  <2>8. c = [account |-> [o.account EXCEPT !.pos[s] = q],
             book |-> IF s \in Paper!Open(b) THEN b ELSE [b EXCEPT !.rows[s] = row]]
    BY <1>7, <1>12, <2>7
  <2>9. /\ GoodAccount(c.account) /\ c.account.balance = base.balance
        /\ c.account.pos = [base.pos EXCEPT ![s] = q]
    BY <2>5, <2>6, <2>7, <2>8, PutIs, AccountIs, SMTT(60)
  <2>10. GoodBook(c.book) /\ c.book.realized = b.realized
         /\ (s \notin Paper!Open(b) => c.book.rows = [b.rows EXCEPT ![s] = row])
    <3>1. [b EXCEPT !.rows[s] = row] = [rows |-> [b.rows EXCEPT ![s] = row], realized |-> b.realized]
      BY BookIs
    <3>2. GoodBook([b EXCEPT !.rows[s] = row])
      BY <1>9, <3>1, BookIs, RowPut
    <3> QED BY <2>8, <3>1, <3>2
  <2>11. ASSUME r = a, Stands(a, b), s \notin Paper!Open(b) PROVE Stands(c.account, c.book)
    <3>1. b.rows[s] = Paper!NoRow
      BY <2>11 DEF Paper!Open
    <3>2. Paper!RowOf(a.pos[s]).side = "none"
      BY <2>11, <3>1, FlatIs DEF Stands
    <3>3. a.pos[s].side = "none"
      BY <3>2 DEF Paper!RowOf
    <3>4. base = a /\ Paper!RowOf(q) = row
      BY <1>8, <2>1, <2>2, <2>7, <2>11, <3>3
    <3>5. c.account.balance = Deposit + c.book.realized
      BY <2>9, <2>10, <2>11, <3>4 DEF Stands
    <3>6. \A t \in Coins : Paper!RowOf(c.account.pos[t]) = c.book.rows[t]
      BY <2>9, <2>10, <2>11, <3>4, AccountIs, BookIs DEF Stands
    <3> QED BY <3>5, <3>6 DEF Stands
  <2>12. ASSUME Paper!Affordable(r, s, n), NEW t \in Coins, c.account.pos[t].size > a.pos[t].size,
                a.pos[t].side \in {"none", c.account.pos[t].side}
         PROVE  Paper!Spare(c.account) >= 0
    <3>1. t = s
      <4>1. SUFFICES ASSUME t # s PROVE FALSE
        OBVIOUS
      <4>2. c.account.pos[t] \in {a.pos[t], Paper!Flat}
        BY <2>5, <2>9, <4>1, AccountIs
      <4>3. a.pos[t].size \in Nat
        BY AccountIs, PositionIs
      <4> QED BY <2>12, <4>2, <4>3, FlatIs
    <3>2. c.account.pos[s] = q
      BY <2>9, AccountIs, <2>5
    <3>3. a.pos[s].side # Paper!Opposite(side)
      BY <1>8, <2>7, <2>12, <3>1, <3>2
    <3>4. base = r /\ q.cost = r.pos[s].cost + n * fill
      <4>1. r.pos[s].side # Paper!Opposite(side)
        BY <1>2, <1>8, <3>3, FlatIs
      <4>2. r.pos[s].cost \in Nat
        BY <1>2, AccountIs, PositionIs
      <4> QED BY <1>2, <1>4, <2>1, <2>2, <2>3, <2>7, <4>1, <4>2, FlatIs, AccountIs
    <3> DEFINE f == [y \in Coins |-> r.pos[y].cost]  g == [y \in Coins |-> c.account.pos[y].cost]
    <3>5. /\ \A y \in Coins : f[y] \in Int /\ g[y] \in Int
          /\ \A y \in Coins \ {s} : f[y] = g[y]
      BY <1>2, <2>9, <3>4, AccountIs, PositionIs
    <3>6. g[s] - f[s] = n * fill
      <4>1. r.pos[s].cost \in Nat
        BY <1>2, AccountIs, PositionIs
      <4> QED BY <1>4, <3>2, <3>4, <4>1
    <3>7. /\ Paper!Spare(r) = Leverage * r.balance - Total(f, Coins)
          /\ Paper!Spare(c.account) = Leverage * c.account.balance - Total(g, Coins)
      BY SamePaper DEF Paper!Spare
    <3>8. n * Paper!Fill("long", x) <= Paper!Spare(r)
      BY <1>1, <2>12 DEF Paper!Affordable
    <3> HIDE DEF f, g
    <3>9. IsFiniteSet(Coins)
      BY SamePaper DEF Paper!SimulatorParameters
    <3>10. Total(f, Coins) \in Int /\ Total(g, Coins) = Total(f, Coins) + n * fill
      BY <3>5, <3>6, <3>9, SumChanges
    <3>11. n * fill <= n * Paper!Fill("long", x) /\ n * Paper!Fill("long", x) \in Nat
      BY <1>3, <1>4
    <3>12. Leverage * r.balance \in Int /\ c.account.balance = r.balance
      BY <1>2, <2>9, <3>4, AccountIs DEF Paper!SimulatorParameters
    <3> QED BY <1>4, <3>7, <3>8, <3>10, <3>11, <3>12
  <2> QED BY <1>1, <2>9, <2>10, <2>11, <2>12
<1> QED BY <1>11, <1>12

-----------------------------------------------------------------------------
(* PaperTrading: the rows, the account and the page tell one story.         *)

\* What a cycle under way has gained and not yet counted.
Counted == IF session.phase = "saved" THEN total + session.gain ELSE total

PaperTyped ==
    /\ price \in [Coins -> Quotes] /\ running \in BOOLEAN /\ total \in Int
    /\ session \in [phase : {"idle", "closing", "opening", "saved"}, book : Paper!Books, gain : Int]
    /\ drift \subseteq Paper!Drifts /\ {ticks, placed} \subseteq Nat
    /\ GoodAccount(account) /\ GoodBook(book) /\ GoodBook(session.book)

PaperInv ==
    /\ PaperTyped
    /\ ~running => session.phase = "idle"
    /\ session.phase = "saved" => session.book = book
    /\ session.phase \in {"closing", "opening"} => session.gain = session.book.realized - book.realized
    /\ "uncounted" \notin drift => Counted = book.realized
    /\ running /\ drift \subseteq Paper!Lasting => Stands(account, Paper!CurrentBook)

LEMMA PaperIs ==
  ASSUME PaperInv
  PROVE  /\ price \in [Coins -> Quotes] /\ running \in BOOLEAN /\ total \in Int
         /\ drift \subseteq Paper!Drifts /\ ticks \in Nat /\ placed \in Nat
         /\ GoodAccount(account) /\ GoodBook(book) /\ GoodBook(session.book)
         /\ session.phase \in {"idle", "closing", "opening", "saved"} /\ session.gain \in Int
         /\ session.book \in Paper!Books /\ book \in Paper!Books
         /\ book.realized \in Int /\ session.book.realized \in Int
         /\ session = [phase |-> session.phase, book |-> session.book, gain |-> session.gain]
BY BookIs DEF PaperInv, PaperTyped, GoodBook

(* Where the invariant must be looked at again after a step.                *)
LEMMA PaperSuffices ==
  ASSUME price' \in [Coins -> Quotes], running' \in BOOLEAN, total' \in Int,
         drift' \subseteq Paper!Drifts, ticks' \in Nat, placed' \in Nat,
         GoodAccount(account'), GoodBook(book'),
         NEW p \in {"idle", "closing", "opening", "saved"}, NEW b, GoodBook(b), NEW g \in Int,
         session' = [phase |-> p, book |-> b, gain |-> g],
         ~running' => p = "idle",
         p = "saved" => b = book',
         p \in {"closing", "opening"} => g = b.realized - book'.realized,
         "uncounted" \notin drift' => (IF p = "saved" THEN total' + g ELSE total') = book'.realized,
         running' /\ drift' \subseteq {"uncounted"} => Stands(account', IF p = "idle" THEN book' ELSE b)
  PROVE  PaperInv'
<1>1. session'.phase = p /\ session'.book = b /\ session'.gain = g
  OBVIOUS
<1>2. session' \in [phase : {"idle", "closing", "opening", "saved"}, book : Paper!Books, gain : Int]
  BY DEF GoodBook
<1>3. PaperTyped'
  BY <1>1, <1>2 DEF PaperTyped
<1>4. Paper!CurrentBook' = IF p = "idle" THEN book' ELSE b
  BY <1>1 DEF Paper!CurrentBook
<1> QED BY <1>1, <1>3, <1>4 DEF PaperInv, Counted, Paper!Lasting

LEMMA PaperInit ==
  ASSUME Paper!SimulatorParameters, Paper!Init
  PROVE  PaperInv
<1>1. /\ running = FALSE /\ account = Paper!Account(Deposit) /\ book = Paper!Empty /\ total = 0
      /\ session = Paper!Idle /\ drift = {} /\ ticks = 0 /\ placed = 0
      /\ price \in [Coins -> Quotes]
  BY DEF Paper!Init
<1>2. session = [phase |-> "idle", book |-> Paper!Empty, gain |-> 0]
  BY <1>1 DEF Paper!Idle
<1>3. session.phase = "idle" /\ session.book = Paper!Empty /\ session.gain = 0
  BY <1>2
<1>4. Paper!Empty \in Paper!Books
  BY EmptyBook DEF GoodBook
<1>5. session \in [phase : {"idle", "closing", "opening", "saved"}, book : Paper!Books, gain : Int]
  BY <1>2, <1>4
<1>6. GoodAccount(account) /\ GoodBook(book) /\ GoodBook(session.book) /\ book.realized = 0
  BY <1>1, <1>3, NewAccount, EmptyBook
<1>7. PaperTyped
  <2>1. running \in BOOLEAN
    BY <1>1
  <2>2. total \in Int /\ drift \subseteq Paper!Drifts /\ {ticks, placed} \subseteq Nat
    BY <1>1
  <2> QED BY <1>1, <1>5, <1>6, <2>1, <2>2 DEF PaperTyped
<1>8. Counted = 0 /\ running = FALSE
  BY <1>1, <1>3 DEF Counted
<1> QED BY <1>3, <1>6, <1>7, <1>8 DEF PaperInv

\* When no stop has fired the account is as it was.
LEMMA NotFired ==
  ASSUME NEW a, NEW d, Paper!Fired(a) \subseteq d, d \subseteq {"uncounted"}
  PROVE  Paper!Refreshed(a) = a
BY DEF Paper!Fired

LEMMA StartKeeps ==
  ASSUME Paper!SimulatorParameters, PaperInv, Paper!StartWorker
  PROVE  PaperInv'
<1>1. /\ running' = TRUE /\ account' = Paper!Restored(book) /\ drift' = drift \cap {"uncounted"}
      /\ price' = price /\ book' = book /\ total' = total /\ session' = session
      /\ ticks' = ticks /\ placed' = placed /\ ~running
  BY DEF Paper!StartWorker, Paper!Lasting
<1>2. session.phase = "idle" /\ ("uncounted" \notin drift' => total = book.realized)
  BY <1>1 DEF PaperInv, Counted
<1>3. GoodAccount(account') /\ Stands(account', book)
  BY <1>1, PaperIs, RestoredIs
<1> QED BY <1>1, <1>2, <1>3, PaperIs, PaperSuffices

LEMMA StopKeeps ==
  ASSUME Paper!SimulatorParameters, PaperInv, Paper!StopWorker
  PROVE  PaperInv'
<1>1. /\ running' = FALSE /\ account' = Paper!Account(Deposit)
      /\ drift' = (drift \cap {"uncounted"}) \cup Paper!Uncounted
      /\ session' = [phase |-> "idle", book |-> Paper!Empty, gain |-> 0]
      /\ price' = price /\ book' = book /\ total' = total /\ ticks' = ticks /\ placed' = placed
  BY DEF Paper!StopWorker, Paper!Lasting, Paper!Idle
<1>2. drift' \subseteq Paper!Drifts
  BY <1>1, PaperIs DEF Paper!Uncounted, Paper!Lasting, Paper!Drifts
<1>3. "uncounted" \notin drift' => total = book.realized
  <2> SUFFICES ASSUME "uncounted" \notin drift' PROVE total = book.realized
    OBVIOUS
  <2>1. "uncounted" \notin drift /\ Counted = book.realized
    BY <1>1 DEF PaperInv
  <2>2. session.phase = "saved" => session.gain = 0
    BY <1>1 DEF Paper!Uncounted, Paper!Lasting
  <2> QED BY <2>1, <2>2, PaperIs DEF Counted
<1>4. 0 \in Int /\ "idle" \in {"idle", "closing", "opening", "saved"}
  OBVIOUS
<1> QED BY <1>1, <1>2, <1>3, <1>4, PaperIs, NewAccount, EmptyBook, PaperSuffices

LEMMA StopAndCloseKeeps ==
  ASSUME Paper!SimulatorParameters, PaperInv, Paper!StopAndClose
  PROVE  PaperInv'
<1>1. /\ running' = FALSE /\ account' = Paper!Account(Deposit) /\ drift' = drift \cap {"uncounted"}
      /\ book' = [Paper!Empty EXCEPT !.realized = book.realized] /\ session.phase = "idle"
      /\ price' = price /\ total' = total /\ session' = session /\ ticks' = ticks /\ placed' = placed
  BY DEF Paper!StopAndClose, Paper!Lasting
<1>2. GoodBook(book') /\ book'.realized = book.realized
  <2>1. book' = [rows |-> Paper!Empty.rows, realized |-> book.realized]
    BY <1>1, EmptyBook, BookIs
  <2>2. GoodBook([rows |-> Paper!Empty.rows, realized |-> book.realized])
    BY EmptyBook, BookIs, PaperIs, BookWith
  <2> QED BY <2>1, <2>2
<1>3. "uncounted" \notin drift' => total = book.realized
  BY <1>1 DEF PaperInv, Counted
<1> QED BY <1>1, <1>2, <1>3, PaperIs, NewAccount, PaperSuffices

LEMMA PaperBeginKeeps ==
  ASSUME Paper!SimulatorParameters, PaperInv, Paper!BeginCycle
  PROVE  PaperInv'
<1>1. /\ running /\ session.phase = "idle" /\ account' = Paper!Refreshed(account)
      /\ drift' = drift \cup Paper!Fired(account)
      /\ session' = [phase |-> "closing", book |-> book, gain |-> 0]
      /\ price' = price /\ running' = running /\ book' = book /\ total' = total
      /\ ticks' = ticks /\ placed' = placed
  BY DEF Paper!BeginCycle
<1>2. drift' \subseteq Paper!Drifts
  BY <1>1, PaperIs DEF Paper!Fired, Paper!Drifts
<1>3. GoodAccount(account')
  BY <1>1, PaperIs, RefreshedIs
<1>4. "uncounted" \notin drift' => total = book.realized
  BY <1>1 DEF PaperInv, Counted
<1>5. drift' \subseteq {"uncounted"} => Stands(account', book)
  <2> SUFFICES ASSUME drift' \subseteq {"uncounted"} PROVE Stands(account', book)
    OBVIOUS
  <2>1. account' = account /\ drift \subseteq Paper!Lasting
    BY <1>1, NotFired DEF Paper!Lasting
  <2> QED BY <1>1, <2>1 DEF PaperInv, Paper!CurrentBook
<1>6. 0 \in Int /\ 0 = book.realized - book.realized
  BY PaperIs
<1>7. "closing" \in {"idle", "closing", "opening", "saved"} /\ "closing" # "saved" /\ "closing" # "idle"
  OBVIOUS
<1> QED BY <1>1, <1>2, <1>3, <1>4, <1>5, <1>6, <1>7, PaperIs, PaperSuffices

LEMMA SaveDecisionKeeps ==
  ASSUME Paper!SimulatorParameters, PaperInv, Paper!SaveDecision
  PROVE  PaperInv'
<1>1. /\ session.phase \in {"closing", "opening"} /\ book' = session.book
      /\ price' = price /\ running' = running /\ account' = account /\ total' = total
      /\ drift' = drift /\ ticks' = ticks /\ placed' = placed
  BY DEF Paper!SaveDecision
<1>2. session' = [phase |-> "saved", book |-> session.book, gain |-> session.gain]
  BY PaperIs DEF Paper!SaveDecision
<1>3. "uncounted" \notin drift => total + session.gain = session.book.realized
  BY <1>1, PaperIs DEF PaperInv, Counted
<1>4. running /\ drift \subseteq {"uncounted"} => Stands(account, session.book)
  BY <1>1 DEF PaperInv, Paper!CurrentBook, Paper!Lasting
<1>5. ~running => FALSE
  BY <1>1 DEF PaperInv
<1>6. "saved" \in {"idle", "closing", "opening", "saved"}
  OBVIOUS
<1> QED BY <1>1, <1>2, <1>3, <1>4, <1>5, <1>6, PaperIs, PaperSuffices

LEMMA CountKeeps ==
  ASSUME Paper!SimulatorParameters, PaperInv, Paper!CountTrades
  PROVE  PaperInv'
<1>1. /\ session.phase = "saved" /\ total' = total + session.gain
      /\ session' = [phase |-> "idle", book |-> Paper!Empty, gain |-> 0]
      /\ price' = price /\ running' = running /\ account' = account /\ book' = book
      /\ drift' = drift /\ ticks' = ticks /\ placed' = placed
  BY DEF Paper!CountTrades, Paper!Idle
<1>2. total' \in Int /\ ("uncounted" \notin drift => total' = book.realized)
  BY <1>1, PaperIs DEF PaperInv, Counted
<1>3. running /\ drift \subseteq {"uncounted"} => Stands(account, book)
  BY <1>1 DEF PaperInv, Paper!CurrentBook, Paper!Lasting
<1>4. 0 \in Int /\ "idle" \in {"idle", "closing", "opening", "saved"}
  OBVIOUS
<1> QED BY <1>1, <1>2, <1>3, <1>4, PaperIs, EmptyBook, PaperSuffices

LEMMA AbortKeeps ==
  ASSUME Paper!SimulatorParameters, PaperInv, Paper!AbortCycle
  PROVE  PaperInv'
<1>1. /\ session.phase # "idle"
      /\ session' = [phase |-> "idle", book |-> Paper!Empty, gain |-> 0]
      /\ drift' = drift \cup Paper!Uncounted \cup (IF session.phase = "saved" THEN {} ELSE {"aborted"})
      /\ price' = price /\ running' = running /\ account' = account /\ book' = book
      /\ total' = total /\ ticks' = ticks /\ placed' = placed
  BY DEF Paper!AbortCycle, Paper!Idle
<1>2. drift' \subseteq Paper!Drifts
  BY <1>1, PaperIs DEF Paper!Uncounted, Paper!Lasting, Paper!Drifts
<1>3. "uncounted" \notin drift' => total = book.realized
  <2> SUFFICES ASSUME "uncounted" \notin drift' PROVE total = book.realized
    OBVIOUS
  <2>1. "uncounted" \notin drift /\ Counted = book.realized
    BY <1>1 DEF PaperInv
  <2>2. session.phase = "saved" => session.gain = 0
    BY <1>1 DEF Paper!Uncounted, Paper!Lasting
  <2> QED BY <2>1, <2>2, PaperIs DEF Counted
<1>4. running /\ drift' \subseteq {"uncounted"} => Stands(account, book)
  <2> SUFFICES ASSUME running, drift' \subseteq {"uncounted"} PROVE Stands(account, book)
    OBVIOUS
  <2>1. session.phase = "saved" /\ drift \subseteq {"uncounted"}
    BY <1>1
  <2> QED BY <1>1, <2>1 DEF PaperInv, Paper!CurrentBook, Paper!Lasting
<1>5. 0 \in Int /\ "idle" \in {"idle", "closing", "opening", "saved"}
  OBVIOUS
<1> QED BY <1>1, <1>2, <1>3, <1>4, <1>5, PaperIs, EmptyBook, PaperSuffices

LEMMA CloseDecisionKeeps ==
  ASSUME Paper!SimulatorParameters, PaperInv, NEW s \in Coins, Paper!CloseDecision(s)
  PROVE  PaperInv'
<1>1. PICK c : c = Paper!Close(account, session.book, s)
  OBVIOUS
<1>2. PICK g : g = session.gain + c.book.realized - session.book.realized
  OBVIOUS
<1>3. /\ session.phase = "closing" /\ account' = c.account
      /\ session' = [session EXCEPT !.book = c.book, !.gain = g]
      /\ drift' = drift \cup Paper!Fired(account) /\ placed' = placed + 1
      /\ price' = price /\ running' = running /\ book' = book /\ total' = total /\ ticks' = ticks
  BY <1>1, <1>2 DEF Paper!CloseDecision
<1>4. /\ GoodAccount(c.account) /\ GoodBook(c.book)
      /\ Paper!Refreshed(account) = account /\ Stands(account, session.book) => Stands(c.account, c.book)
  BY <1>1, PaperIs, CloseIs
<1>5. g \in Int /\ g = c.book.realized - book.realized
  BY <1>2, <1>3, <1>4, PaperIs, BookIs DEF PaperInv
<1>6. session' = [phase |-> "closing", book |-> c.book, gain |-> g]
  BY <1>3, PaperIs
<1>7. drift' \subseteq Paper!Drifts
  BY <1>3, PaperIs DEF Paper!Fired, Paper!Drifts
<1>8. "uncounted" \notin drift' => total = book.realized
  BY <1>3 DEF PaperInv, Counted
<1>9. running /\ drift' \subseteq {"uncounted"} => Stands(c.account, c.book)
  <2> SUFFICES ASSUME running, drift' \subseteq {"uncounted"} PROVE Stands(c.account, c.book)
    OBVIOUS
  <2>1. Paper!Refreshed(account) = account /\ drift \subseteq Paper!Lasting
    BY <1>3, NotFired DEF Paper!Lasting
  <2>2. Stands(account, session.book)
    BY <1>3, <2>1 DEF PaperInv, Paper!CurrentBook
  <2> QED BY <1>4, <2>1, <2>2
<1>10. "closing" \in {"idle", "closing", "opening", "saved"} /\ (~running => FALSE) /\ placed + 1 \in Nat
  BY <1>3, PaperIs DEF PaperInv
<1> QED BY <1>3, <1>4, <1>5, <1>6, <1>7, <1>8, <1>9, <1>10, PaperIs, PaperSuffices

LEMMA StopsFit ==
  ASSUME Paper!SimulatorParameters, NEW side, NEW x, NEW stops \in Paper!StopsFor(side, x)
  PROVE  stops.sl \in Nat /\ stops.tp \in Nat
BY DEF Paper!StopsFor, Paper!SimulatorParameters

LEMMA OpenDecisionKeeps ==
  ASSUME Paper!SimulatorParameters, PaperInv, NEW s \in Coins, NEW side \in Paper!Sides,
         NEW n \in Sizes, NEW stops, Paper!OpenDecision(s, side, n, stops)
  PROVE  PaperInv'
<1>1. PICK c : c = Paper!Ordered(account, session.book, s, side, n, stops)
  OBVIOUS
<1>2. stops.sl \in Nat /\ stops.tp \in Nat
  BY StopsFit DEF Paper!OpenDecision
<1>3. /\ session.phase \in {"closing", "opening"} /\ account' = c.account
      /\ session' = [session EXCEPT !.phase = "opening", !.book = c.book]
      /\ drift' = drift \cup Paper!Fired(account)
                        \cup (IF s \in Paper!Open(session.book) THEN {"added"} ELSE {})
      /\ placed' = placed + 1
      /\ price' = price /\ running' = running /\ book' = book /\ total' = total /\ ticks' = ticks
  BY <1>1 DEF Paper!OpenDecision
<1>4. /\ GoodAccount(c.account) /\ GoodBook(c.book) /\ c.book.realized = session.book.realized
      /\ Paper!Refreshed(account) = account /\ Stands(account, session.book)
         /\ s \notin Paper!Open(session.book) => Stands(c.account, c.book)
  BY <1>1, <1>2, PaperIs, OrderedIs
<1>5. session.gain = c.book.realized - book.realized
  BY <1>3, <1>4 DEF PaperInv
<1>6. session' = [phase |-> "opening", book |-> c.book, gain |-> session.gain]
  BY <1>3, PaperIs
<1>7. drift' \subseteq Paper!Drifts
  BY <1>3, PaperIs DEF Paper!Fired, Paper!Drifts
<1>8. "uncounted" \notin drift' => total = book.realized
  BY <1>3 DEF PaperInv, Counted
<1>9. running /\ drift' \subseteq {"uncounted"} => Stands(c.account, c.book)
  <2> SUFFICES ASSUME running, drift' \subseteq {"uncounted"} PROVE Stands(c.account, c.book)
    OBVIOUS
  <2>1. Paper!Refreshed(account) = account /\ drift \subseteq Paper!Lasting
        /\ s \notin Paper!Open(session.book)
    BY <1>3, NotFired DEF Paper!Lasting
  <2>2. Stands(account, session.book)
    BY <1>3, <2>1 DEF PaperInv, Paper!CurrentBook
  <2> QED BY <1>4, <2>1, <2>2
<1>10. "opening" \in {"idle", "closing", "opening", "saved"} /\ (~running => FALSE) /\ placed + 1 \in Nat
  BY <1>3, PaperIs DEF PaperInv
<1> QED BY <1>3, <1>4, <1>5, <1>6, <1>7, <1>8, <1>9, <1>10, PaperIs, PaperSuffices

(* A manual run changes the rows alone.                                     *)
LEMMA TriggersKeep ==
  ASSUME Paper!SimulatorParameters, PaperInv, session.phase = "idle", NEW b, GoodBook(b),
         book' = b, total' = total + b.realized - book.realized, drift' = drift \cup {"triggered"},
         placed' = placed + 1, price' = price, running' = running, account' = account,
         session' = session, ticks' = ticks
  PROVE  PaperInv'
<1>1. total' \in Int /\ ("uncounted" \notin drift' => total' = b.realized)
  BY PaperIs, BookIs DEF PaperInv, Counted
<1>2. drift' \subseteq Paper!Drifts /\ ~(drift' \subseteq {"uncounted"}) /\ placed' \in Nat
  BY PaperIs DEF Paper!Drifts
<1> QED BY <1>1, <1>2, PaperIs, PaperSuffices

LEMMA TriggerCloseKeeps ==
  ASSUME Paper!SimulatorParameters, PaperInv, NEW s \in Coins, Paper!TriggerClose(s)
  PROVE  PaperInv'
<1>1. PICK c : c = Paper!Close(Paper!Restored(book), book, s)
  OBVIOUS
<1>2. /\ session.phase = "idle" /\ book' = c.book /\ total' = total + c.book.realized - book.realized
      /\ drift' = drift \cup {"triggered"} /\ placed' = placed + 1
      /\ price' = price /\ running' = running /\ account' = account /\ session' = session /\ ticks' = ticks
  BY <1>1 DEF Paper!TriggerClose
<1>3. GoodBook(c.book)
  BY <1>1, PaperIs, RestoredIs, CloseIs
<1> QED BY <1>2, <1>3, TriggersKeep

LEMMA TriggerOpenKeeps ==
  ASSUME Paper!SimulatorParameters, PaperInv, NEW s \in Coins, NEW side \in Paper!Sides, NEW n \in Sizes,
         Paper!TriggerOpen(s, side, n)
  PROVE  PaperInv'
<1>1. PICK stops : stops = [sl |-> 0, tp |-> 0]
  OBVIOUS
<1>2. PICK c : c = Paper!Ordered(Paper!Restored(book), book, s, side, n, stops)
  OBVIOUS
<1>3. /\ session.phase = "idle" /\ book' = c.book /\ total' = total
      /\ drift' = drift \cup {"triggered"} /\ placed' = placed + 1
      /\ price' = price /\ running' = running /\ account' = account /\ session' = session /\ ticks' = ticks
  BY <1>1, <1>2 DEF Paper!TriggerOpen
<1>4. stops.sl \in Nat /\ stops.tp \in Nat
  BY <1>1
<1>5. GoodAccount(Paper!Restored(book)) /\ GoodBook(book) /\ price \in [Coins -> Quotes]
  BY PaperIs, RestoredIs
<1>6. GoodBook(c.book) /\ c.book.realized = book.realized
  BY <1>2, <1>4, <1>5, OrderedIs
<1>7. total' = total + c.book.realized - book.realized
  BY <1>3, <1>6, PaperIs
<1> QED BY <1>3, <1>6, <1>7, TriggersKeep

LEMMA TickKeeps ==
  ASSUME Paper!SimulatorParameters, PaperInv, NEW s \in Coins, NEW x \in Quotes, Paper!Tick(s, x)
  PROVE  PaperInv'
<1>1. /\ price' = [price EXCEPT ![s] = x] /\ ticks' = ticks + 1
      /\ running' = running /\ account' = account /\ book' = book /\ total' = total
      /\ session' = session /\ drift' = drift /\ placed' = placed
  BY DEF Paper!Tick
<1>2. price' \in [Coins -> Quotes] /\ ticks' \in Nat
  BY <1>1, PaperIs
<1> QED BY <1>1, <1>2 DEF PaperInv, PaperTyped, Counted, Paper!CurrentBook

LEMMA PaperNext == Paper!SimulatorParameters /\ PaperInv /\ [Paper!Next]_paperVars => PaperInv'
<1> SUFFICES ASSUME Paper!SimulatorParameters, PaperInv, [Paper!Next]_paperVars
             PROVE  PaperInv'
  OBVIOUS
<1>1. CASE UNCHANGED paperVars
  BY <1>1 DEF paperVars, PaperInv, PaperTyped, Counted, Paper!CurrentBook
<1>2. CASE Paper!Next
  BY <1>2, StartKeeps, StopKeeps, StopAndCloseKeeps, PaperBeginKeeps, SaveDecisionKeeps, CountKeeps,
     AbortKeeps, CloseDecisionKeeps, OpenDecisionKeeps, TriggerCloseKeeps, TriggerOpenKeeps, TickKeeps
     DEF Paper!Next
<1> QED BY <1>1, <1>2

(* What the page computes from rows that stand for the account.             *)
LEMMA PageAgrees ==
  ASSUME Paper!SimulatorParameters, PaperInv, NEW a, GoodAccount(a), Stands(a, book),
         total = book.realized, NEW answered \in SUBSET Coins
  PROVE  LET page  == Paper!AccountPage(answered)
             gains == Paper!Total([s \in Coins |-> Paper!Pnl(a.pos[s], price[s])], answered)
         IN  /\ page.equity = a.balance + gains
             /\ page.unrealized = gains
             /\ Leverage * a.balance - page.margin = Paper!Spare(a)
<1> DEFINE f == [s \in Coins |-> Paper!Pnl(a.pos[s], price[s])]
           shown == Paper!PositionsPage(Paper!PublicPrices(answered))
           cost == [s \in Coins |-> book.rows[s].cost]
           held == [s \in Coins |-> a.pos[s].cost]
           open == Paper!Open(book)
<1>0. IsFiniteSet(Coins) /\ open \subseteq Coins /\ IsFiniteSet(open) /\ IsFiniteSet(answered)
      /\ IsFiniteSet(open \cap answered)
  <2>1. IsFiniteSet(Coins) /\ open \subseteq Coins
    BY SamePaper DEF Paper!SimulatorParameters, Paper!Open
  <2> QED BY <2>1, FS_Subset
<1>1. DOMAIN shown = open \cap answered
  BY DEF Paper!PositionsPage, Paper!PublicPrices
<1>2. \A s \in Coins : /\ a.pos[s] \in Paper!Positions /\ price[s] \in Nat
                       /\ Paper!RowOf(a.pos[s]) = book.rows[s]
  BY PaperIs, AccountIs DEF Stands, Paper!SimulatorParameters
<1>3. \A s \in open \cap answered : shown[s] = f[s]
  <2> TAKE s \in open \cap answered
  <2>1. shown[s] = Paper!Pnl(book.rows[s], price[s])
    BY DEF Paper!PositionsPage, Paper!PublicPrices
  <2>2. s \in Coins
    BY <1>0
  <2> QED BY <1>2, <2>1, <2>2, PnlIs
<1>4. \A s \in Coins : f[s] \in Int
  BY <1>2, PnlIs
<1>5. \A s \in Coins \ open : f[s] = 0 /\ cost[s] = 0
  <2> TAKE s \in Coins \ open
  <2>1. Paper!RowOf(a.pos[s]) = Paper!NoRow /\ book.rows[s] = Paper!NoRow
    BY <1>2 DEF Paper!Open
  <2>2. a.pos[s].side = "none"
    BY <2>1, FlatIs DEF Paper!RowOf
  <2>3. Paper!NoRow.cost = 0
    BY DEF Paper!NoRow
  <2> QED BY <2>1, <2>2, <2>3 DEF Paper!Pnl
<1>6. \A s \in Coins : cost[s] \in Int /\ held[s] = cost[s]
  <2> TAKE s \in Coins
  <2>1. Paper!RowOf(a.pos[s]).cost = a.pos[s].cost
    BY DEF Paper!RowOf
  <2> QED BY <1>2, <2>1, PositionIs
<1>7. Paper!AccountPage(answered) = [equity |-> Deposit + Total(shown, DOMAIN shown) + total,
                                     unrealized |-> Total(shown, DOMAIN shown),
                                     margin |-> Total(cost, open)]
  BY SamePaper DEF Paper!AccountPage, Paper!VirtualAccount
<1>8. Paper!Spare(a) = Leverage * a.balance - Total(held, Coins)
  BY SamePaper DEF Paper!Spare
<1> HIDE DEF f, shown, cost, held, open
<1>9. Total(shown, DOMAIN shown) = Total(f, answered) /\ Total(f, answered) \in Int
  <2>1. PICK T : T = open \cap answered
    OBVIOUS
  <2>2. Total(shown, T) = Total(f, T)
    BY <1>0, <1>3, <2>1, SumAgrees
  <2>3. /\ T \in SUBSET answered /\ \A s \in answered : f[s] \in Int
        /\ \A s \in answered \ T : f[s] = 0
    BY <1>4, <1>5, <2>1
  <2>4. Total(f, answered) = Total(f, T)
    BY <1>0, <2>3, SumOfSupport
  <2> QED BY <1>0, <1>1, <2>1, <2>2, <2>3, <2>4, SumIsInt
<1>10. Total(cost, open) = Total(held, Coins)
  <2>1. Total(cost, Coins) = Total(cost, open)
    BY <1>0, <1>5, <1>6, SumOfSupport
  <2>2. Total(held, Coins) = Total(cost, Coins)
    BY <1>0, <1>6, SumAgrees
  <2> QED BY <2>1, <2>2
<1>11. Deposit + Total(f, answered) + total = a.balance + Total(f, answered)
  <2>1. a.balance = Deposit + book.realized /\ Deposit \in Int /\ book.realized \in Int
    BY PaperIs DEF Stands, Paper!SimulatorParameters
  <2> QED BY <1>9, <2>1
<1>12. Paper!Total(f, answered) = Total(f, answered)
  BY SamePaper
<1>13. PICK page, gains : page = Paper!AccountPage(answered) /\ gains = Paper!Total(f, answered)
  OBVIOUS
<1>14. /\ page.equity = a.balance + gains
       /\ page.unrealized = gains
       /\ Leverage * a.balance - page.margin = Paper!Spare(a)
  BY <1>7, <1>8, <1>9, <1>10, <1>11, <1>12, <1>13
<1> QED BY <1>13, <1>14 DEF f

LEMMA PaperTells ==
  ASSUME Paper!SimulatorParameters, PaperInv
  PROVE  Paper!TypeOK /\ Paper!AccountsAgree
<1>1. Paper!TypeOK
  BY DEF PaperInv, PaperTyped, GoodAccount, GoodBook, Paper!TypeOK
<1>2. Paper!BooksAgree
  BY DEF PaperInv, Stands, Paper!BooksAgree, Paper!Agree
<1>3. Paper!PageShowsAccount
  <2> SUFFICES ASSUME session.phase = "idle", drift = {}, NEW answered \in SUBSET Coins
               PROVE  LET trading == IF running THEN account ELSE Paper!Restored(book)
                          page  == Paper!AccountPage(answered)
                          gains == Paper!Total([s \in Coins |-> Paper!Pnl(trading.pos[s], price[s])], answered)
                      IN  /\ page.equity = trading.balance + gains
                          /\ page.unrealized = gains
                          /\ Leverage * trading.balance - page.margin = Paper!Spare(trading)
    BY DEF Paper!PageShowsAccount
  <2>1. PICK a : a = IF running THEN account ELSE Paper!Restored(book)
    OBVIOUS
  <2>2. GoodAccount(a) /\ Stands(a, book)
    <3>1. CASE running
      BY <2>1, <3>1 DEF PaperInv, PaperTyped, Paper!CurrentBook
    <3>2. CASE ~running
      BY <2>1, <3>2, PaperIs, RestoredIs
    <3> QED BY <3>1, <3>2
  <2>3. total = book.realized
    BY DEF PaperInv, Counted
  <2> QED BY <2>1, <2>2, <2>3, PageAgrees
<1> QED BY <1>1, <1>2, <1>3 DEF Paper!AccountsAgree

(* Only an order of the cycle makes a position grow while a cycle runs.     *)
LEMMA MarginStaysCovered ==
  ASSUME Paper!SimulatorParameters, PaperInv, [Paper!Next]_paperVars
  PROVE  Paper!OrderLeavesMarginCovered
<1> SUFFICES ASSUME NEW t \in Coins, session.phase # "idle",
                    account'.pos[t].size > account.pos[t].size,
                    account.pos[t].side \in {"none", account'.pos[t].side}
             PROVE  Paper!Spare(account') >= 0
  <2>1. Paper!Spare(account)' = Paper!Spare(account')
    BY DEF Paper!Spare
  <2> QED BY <2>1 DEF Paper!OrderLeavesMarginCovered
<1>1. GoodAccount(account) /\ account.pos[t].size \in Nat
  BY PaperIs, AccountIs, PositionIs
<1>2. account' # account
  BY <1>1
<1>3. account'.pos[t] \notin {account.pos[t], Paper!Flat}
  BY <1>1, FlatIs
<1>4. running
  BY DEF PaperInv
<1>5. ~Paper!StopWorker
  BY <1>3, NewAccount DEF Paper!StopWorker
<1>6. ASSUME NEW s \in Coins, Paper!CloseDecision(s) PROVE FALSE
  <2>1. PICK c : c = Paper!Close(account, session.book, s)
    OBVIOUS
  <2>2. account' = c.account
    BY <1>6, <2>1 DEF Paper!CloseDecision
  <2> QED BY <1>3, <2>1, <2>2, PaperIs, CloseIs
<1>7. PICK s \in Coins, side \in Paper!Sides, n \in Sizes :
         \E stops \in Paper!StopsFor(side, Paper!Fill(side, price[s])) :
            Paper!OpenDecision(s, side, n, stops)
  BY <1>2, <1>4, <1>5, <1>6
     DEF Paper!Next, paperVars, Paper!StartWorker, Paper!StopAndClose, Paper!BeginCycle,
         Paper!SaveDecision, Paper!CountTrades, Paper!AbortCycle, Paper!TriggerClose,
         Paper!TriggerOpen, Paper!Tick
<1>11. PICK stops \in Paper!StopsFor(side, Paper!Fill(side, price[s])) :
          Paper!OpenDecision(s, side, n, stops)
  BY <1>7
<1>8. PICK c : c = Paper!Ordered(account, session.book, s, side, n, stops)
  OBVIOUS
<1>9. account' = c.account /\ Paper!Affordable(Paper!Refreshed(account), s, n)
  BY <1>11, <1>8 DEF Paper!OpenDecision, Paper!MayOpen
<1>10. stops.sl \in Nat /\ stops.tp \in Nat
  BY StopsFit
<1> QED BY <1>8, <1>9, <1>10, PaperIs, OrderedIs

-----------------------------------------------------------------------------
(* DecisionCycle: a saved record explains the rows of its cycle.            *)

\* A result of the list says that an order (for the symbol s) was executed.
SomeExecuted(list) == \E k \in DOMAIN list : list[k].executed
SaysExecuted(list, s) == \E k \in DOMAIN list : list[k].executed /\ list[k].symbol = s

\* The orders that nobody reports are those whose call raised.
Accounted(list, sent, lost) ==
    /\ lost \subseteq sent
    /\ IF SomeExecuted(list) THEN sent # {} ELSE sent = lost

\* Each row that is not as it was committed has an order behind it.
Explained(list, lost) ==
    \A s \in Cycle!Symbols : holdings[s] # committed[s] =>
        SaysExecuted(list, s) \/ \E o \in lost : o.symbol = s

CycleInv ==
    /\ \E R : results \in Seq(R)
    /\ \E V : {holdings, committed} \subseteq [Cycle!Symbols -> V]
    /\ Accounted(results, orders, raised)
    /\ Explained(results, raised)
    /\ phase \notin {"executing", "saving"} => holdings = committed
    /\ Cycle!IsFiniteSet(Cycle!OpenRows) /\ Cycle!Cardinality(Cycle!OpenRows) <= MaxHeld
    /\ Cycle!IsFiniteSet({s \in Cycle!Symbols : committed[s] # Cycle!None})
    /\ Cycle!Cardinality({s \in Cycle!Symbols : committed[s] # Cycle!None}) <= MaxHeld

LEMMA SameSets ==
  \A S : (Cycle!IsFiniteSet(S) <=> IsFiniteSet(S)) /\ Cycle!Cardinality(S) = Cardinality(S)
BY DEF Cycle!IsFiniteSet, IsFiniteSet, Cycle!Cardinality, Cardinality

(* One more result.                                                         *)
LEMMA OneMoreResult ==
  ASSUME NEW R, NEW list \in Seq(R), NEW r
  PROVE  /\ \E Q : Append(list, r) \in Seq(Q)
         /\ SomeExecuted(Append(list, r)) <=> SomeExecuted(list) \/ r.executed
         /\ \A s : SaysExecuted(Append(list, r), s) <=>
                      SaysExecuted(list, s) \/ (r.executed /\ r.symbol = s)
<1>1. list \in Seq(R \cup {r}) /\ r \in R \cup {r}
  OBVIOUS
<1>2. Append(list, r) \in Seq(R \cup {r})
  BY <1>1
<1>3. PICK more : more = Append(list, r)
  OBVIOUS
<1>4. /\ DOMAIN more = DOMAIN list \cup {Len(list) + 1}
      /\ more[Len(list) + 1] = r
      /\ \A k \in DOMAIN list : more[k] = list[k]
  BY <1>1, <1>3
<1>5. SomeExecuted(more) <=> SomeExecuted(list) \/ r.executed
  BY <1>4 DEF SomeExecuted
<1>6. \A s : SaysExecuted(more, s) <=> SaysExecuted(list, s) \/ (r.executed /\ r.symbol = s)
  BY <1>4 DEF SaysExecuted
<1> QED BY <1>2, <1>3, <1>5, <1>6

\* The rows that are open in f.
Held(f) == {s \in Cycle!Symbols : f[s] # Cycle!None}
Limited(f) == Cycle!IsFiniteSet(Held(f)) /\ Cycle!Cardinality(Held(f)) <= MaxHeld

LEMMA FewerHeld ==
  ASSUME Cycle!CycleParameters, NEW f, NEW g, Limited(f), Held(g) \subseteq Held(f)
  PROVE  Limited(g)
<1>1. IsFiniteSet(Held(f)) /\ Cardinality(Held(f)) <= MaxHeld
  BY SameSets DEF Limited
<1>2. IsFiniteSet(Held(g)) /\ Cardinality(Held(g)) <= Cardinality(Held(f))
  BY <1>1, FS_Subset
<1>3. Cardinality(Held(g)) \in Nat /\ Cardinality(Held(f)) \in Nat
  BY <1>1, <1>2, FS_CardinalityType
<1> QED BY <1>1, <1>2, <1>3, SameSets DEF Limited, Cycle!CycleParameters

LEMMA OneMoreHeld ==
  ASSUME Cycle!CycleParameters, NEW f, NEW g, NEW s, Limited(f), Held(g) \subseteq Held(f) \cup {s},
         Cycle!Cardinality(Held(f)) < MaxHeld
  PROVE  Limited(g)
<1>1. IsFiniteSet(Held(f)) /\ Cardinality(Held(f)) < MaxHeld /\ Cardinality(Held(f)) \in Nat
  BY SameSets, FS_CardinalityType DEF Limited
<1>2. PICK S : S = Held(f) \cup {s}
  OBVIOUS
<1>3. IsFiniteSet(S) /\ Cardinality(S) <= Cardinality(Held(f)) + 1 /\ Cardinality(S) \in Nat
  <2>1. IsFiniteSet(S) /\ Cardinality(S) = IF s \in Held(f) THEN Cardinality(Held(f)) ELSE Cardinality(Held(f)) + 1
    BY <1>1, <1>2, FS_AddElement
  <2>2. Cardinality(S) \in Nat
    BY <2>1, FS_CardinalityType
  <2> QED BY <1>1, <2>1, <2>2
<1>4. IsFiniteSet(Held(g)) /\ Cardinality(Held(g)) <= Cardinality(S) /\ Cardinality(Held(g)) \in Nat
  BY <1>2, <1>3, FS_Subset, FS_CardinalityType
<1> QED BY <1>1, <1>3, <1>4, SameSets DEF Limited, Cycle!CycleParameters

LEMMA CycleIs ==
  ASSUME CycleInv
  PROVE  /\ Limited(holdings) /\ Limited(committed)
         /\ \E V : holdings \in [Cycle!Symbols -> V] /\ committed \in [Cycle!Symbols -> V]
BY DEF CycleInv, Limited, Held, Cycle!OpenRows

(* Where the invariant must be looked at again after a step.                *)
LEMMA CycleSuffices ==
  ASSUME NEW R, results' \in Seq(R), Limited(holdings'), Limited(committed'),
         NEW V, holdings' \in [Cycle!Symbols -> V], committed' \in [Cycle!Symbols -> V],
         Accounted(results', orders', raised'), Explained(results, raised)',
         phase' \notin {"executing", "saving"} => holdings' = committed'
  PROVE  CycleInv'
BY DEF CycleInv, Limited, Held, Cycle!OpenRows

LEMMA CycleInit ==
  ASSUME Cycle!CycleParameters, Cycle!Init
  PROVE  CycleInv
<1> USE DEF Cycle!Init
<1>1. results \in Seq({}) /\ results = <<>>
  OBVIOUS
<1>2. Held(holdings) = {} /\ Held(committed) = {}
  BY DEF Held, Cycle!None
<1>3. Limited(holdings) /\ Limited(committed)
  <2>1. Cardinality({}) = 0 /\ IsFiniteSet({}) /\ MaxHeld \in Nat
    BY FS_EmptySet DEF Cycle!CycleParameters
  <2>2. Cycle!Cardinality({}) = 0 /\ Cycle!IsFiniteSet({})
    BY <2>1, SameSets
  <2>3. 0 <= MaxHeld
    BY <2>1
  <2>4. \A f : Held(f) = {} => Limited(f)
    BY <2>2, <2>3 DEF Limited
  <2> QED BY <1>2, <2>4
<1>4. {holdings, committed} \subseteq [Cycle!Symbols -> {Cycle!None}]
  OBVIOUS
<1>5. Accounted(results, orders, raised)
  BY <1>1 DEF Accounted, SomeExecuted
<1> QED BY <1>1, <1>3, <1>4, <1>5 DEF CycleInv, Explained, Limited, Held, Cycle!OpenRows

(* An order k of the plan is dealt with.                                    *)
LEMMA OrderDealtWith ==
  ASSUME Cycle!CycleParameters, CycleInv, NEW k, NEW b \in BOOLEAN, Cycle!Report(k, b), phase = "executing",
         NEW x, x = plan[k].symbol, NEW o, o.symbol = x,
         \/ orders' = orders /\ raised' = raised /\ ~b /\ holdings' = holdings
         \/ orders' = orders \cup {o} /\ raised' = raised \cup {o} /\ ~b
         \/ orders' = orders \cup {o} /\ raised' = raised /\ b,
         \E v : holdings' = [holdings EXCEPT ![x] = v], Limited(holdings')
  PROVE  CycleInv'
<1>1. PICK R : results \in Seq(R)
  BY DEF CycleInv
<1>2. PICK r : r = [symbol |-> x, action |-> plan[k].action, executed |-> b]
  OBVIOUS
<1>3. results' = Append(results, r) /\ r.executed = b /\ r.symbol = x
      /\ committed' = committed /\ phase' = "executing"
  BY <1>2 DEF Cycle!Report, Cycle!Result
<1>4. PICK Q : results' \in Seq(Q)
  BY <1>1, <1>3, OneMoreResult
<1>5. SomeExecuted(results') <=> SomeExecuted(results) \/ b
  BY <1>1, <1>3, OneMoreResult
<1>6. \A s : SaysExecuted(results', s) <=> SaysExecuted(results, s) \/ (b /\ s = x)
  BY <1>1, <1>3, OneMoreResult
<1>7. PICK V : holdings \in [Cycle!Symbols -> V] /\ committed \in [Cycle!Symbols -> V]
  BY CycleIs
<1>8. PICK v : holdings' = [holdings EXCEPT ![x] = v]
  OBVIOUS
<1>9. holdings' \in [Cycle!Symbols -> V \cup {v}] /\ committed' \in [Cycle!Symbols -> V \cup {v}]
  BY <1>3, <1>7, <1>8
<1>10. Accounted(results', orders', raised')
  BY <1>5 DEF CycleInv, Accounted
<1>11. Explained(results, raised)'
  <2> SUFFICES ASSUME NEW s \in Cycle!Symbols, holdings'[s] # committed[s]
               PROVE  SaysExecuted(results', s) \/ \E l \in raised' : l.symbol = s
    BY <1>3 DEF Explained
  <2>1. CASE s = x /\ (b \/ o \in raised')
    BY <1>6, <2>1
  <2>2. CASE s = x /\ holdings' = holdings /\ raised' = raised
    BY <1>6, <2>2 DEF CycleInv, Explained
  <2>3. CASE s # x
    <3>1. holdings'[s] = holdings[s]
      BY <1>7, <1>8, <2>3
    <3>2. raised \subseteq raised'
      OBVIOUS
    <3> QED BY <1>6, <3>1, <3>2 DEF CycleInv, Explained
  <2> QED BY <2>1, <2>2, <2>3
<1>12. Limited(committed')
  BY <1>3, CycleIs
<1> QED BY <1>3, <1>4, <1>9, <1>10, <1>11, <1>12, CycleSuffices

LEMMA ExecuteKeeps ==
  ASSUME Cycle!CycleParameters, CycleInv, Cycle!Execute
  PROVE  CycleInv'
<1>1. PICK k \in DOMAIN plan : \/ Cycle!Skip(k) \/ Cycle!Open(k) \/ Cycle!OpenRaises(k)
                               \/ Cycle!Close(k) \/ Cycle!Refused(k) \/ Cycle!CloseRaises(k)
  BY DEF Cycle!Execute
<1>2. PICK x, o : x = plan[k].symbol /\ o = plan[k]
  OBVIOUS
<1>3. PICK V : holdings \in [Cycle!Symbols -> V] /\ committed \in [Cycle!Symbols -> V]
  BY CycleIs
<1>4. holdings = [holdings EXCEPT ![x] = holdings[x]]
  BY <1>3
<1>5. CASE Cycle!Skip(k) \/ Cycle!Refused(k)
  <2>1. /\ orders' = orders /\ raised' = raised /\ holdings' = holdings
        /\ Cycle!Report(k, FALSE) /\ phase = "executing"
    BY <1>5 DEF Cycle!Skip, Cycle!Refused, Cycle!Ready
  <2> QED BY <1>2, <1>4, <2>1, CycleIs, OrderDealtWith
<1>6. CASE Cycle!CloseRaises(k)
  <2>1. /\ orders' = orders \cup {o} /\ raised' = raised \cup {o} /\ holdings' = holdings
        /\ Cycle!Report(k, FALSE) /\ phase = "executing"
    BY <1>2, <1>6 DEF Cycle!CloseRaises, Cycle!Ready
  <2> QED BY <1>2, <1>4, <2>1, CycleIs, OrderDealtWith
<1>7. CASE Cycle!Close(k)
  <2>1. /\ orders' = orders \cup {o} /\ raised' = raised
        /\ holdings' = [holdings EXCEPT ![x] = Cycle!None]
        /\ Cycle!Report(k, TRUE) /\ phase = "executing"
    BY <1>2, <1>7 DEF Cycle!Close, Cycle!Ready
  <2>2. Held(holdings') \subseteq Held(holdings)
    BY <1>3, <2>1 DEF Held
  <2>3. Limited(holdings')
    BY <2>2, CycleIs, FewerHeld
  <2> QED BY <1>2, <2>1, <2>3, OrderDealtWith
<1>8. CASE Cycle!Open(k) \/ Cycle!OpenRaises(k)
  <2>1. /\ orders' = orders \cup {o} /\ phase = "executing" /\ Cycle!MayOpen
        /\ holdings' = Cycle!Rowed(o)
    BY <1>2, <1>8 DEF Cycle!Open, Cycle!OpenRaises, Cycle!Ready
  <2>2. \E v : holdings' = [holdings EXCEPT ![x] = v]
    BY <1>2, <1>4, <2>1 DEF Cycle!Rowed
  <2>3. Held(holdings') \subseteq Held(holdings) \cup {x}
    BY <1>3, <2>2 DEF Held
  <2>4. Cycle!Cardinality(Held(holdings)) < MaxHeld
    BY <2>1 DEF Cycle!MayOpen, Cycle!OpenRows, Held
  <2>5. Limited(holdings')
    BY <2>3, <2>4, CycleIs, OneMoreHeld
  <2>6. \/ raised' = raised /\ Cycle!Report(k, TRUE)
        \/ raised' = raised \cup {o} /\ Cycle!Report(k, FALSE)
    BY <1>2, <1>8 DEF Cycle!Open, Cycle!OpenRaises
  <2> QED BY <1>2, <2>1, <2>2, <2>5, <2>6, OrderDealtWith
<1> QED BY <1>1, <1>5, <1>6, <1>7, <1>8

LEMMA CycleNext == Cycle!CycleParameters /\ CycleInv /\ [Cycle!Next]_cycleVars => CycleInv'
<1> SUFFICES ASSUME Cycle!CycleParameters, CycleInv, [Cycle!Next]_cycleVars
             PROVE  CycleInv'
  OBVIOUS
<1>1. PICK R, V : results \in Seq(R) /\ holdings \in [Cycle!Symbols -> V]
                  /\ committed \in [Cycle!Symbols -> V]
  BY CycleIs DEF CycleInv
<1>2. /\ Accounted(results, orders, raised) /\ Explained(results, raised)
      /\ phase \notin {"executing", "saving"} => holdings = committed
      /\ Limited(holdings) /\ Limited(committed)
  BY CycleIs DEF CycleInv
<1>3. CASE UNCHANGED <<holdings, committed, results, orders, raised>>
           /\ (phase' \notin {"executing", "saving"} => phase \notin {"executing", "saving"})
  BY <1>1, <1>2, <1>3, CycleSuffices DEF Explained
<1>4. CASE Cycle!Begin
  <2>1. /\ holdings' = holdings /\ committed' = committed /\ results' = <<>> /\ orders' = {}
        /\ raised' = {} /\ holdings = committed
    BY <1>2, <1>4 DEF Cycle!Begin
  <2>2. results' \in Seq(R)
    BY <2>1
  <2>3. Accounted(results', orders', raised') /\ Explained(results, raised)'
    BY <2>1 DEF Accounted, SomeExecuted, Explained
  <2> QED BY <1>1, <1>2, <2>1, <2>2, <2>3, CycleSuffices
<1>5. CASE Cycle!OutOfEquity \/ Cycle!SaveRecord
  <2>1. /\ holdings' = holdings /\ committed' = holdings /\ results' = results /\ orders' = orders
        /\ raised' = raised
    BY <1>5 DEF Cycle!OutOfEquity, Cycle!SaveRecord, Cycle!Save
  <2>2. Explained(results, raised)'
    BY <2>1 DEF Explained
  <2> QED BY <1>1, <1>2, <2>1, <2>2, CycleSuffices
<1>6. CASE Cycle!DatabaseFails
  <2>1. /\ holdings' = committed /\ committed' = committed /\ results' = results
        /\ orders' = orders /\ raised' = raised
    BY <1>6 DEF Cycle!DatabaseFails
  <2>2. Explained(results, raised)'
    BY <2>1 DEF Explained
  <2> QED BY <1>1, <1>2, <2>1, <2>2, CycleSuffices
<1>7. CASE UNCHANGED cycleVars
  BY <1>3, <1>7 DEF cycleVars
<1>8. CASE Cycle!AccountUnknown \/ Cycle!Decide \/ Cycle!Done
           \/ \E i \in Cycle!Models : Cycle!AnswerArrives(i)
  BY <1>3, <1>8 DEF Cycle!AccountUnknown, Cycle!Decide, Cycle!Done, Cycle!AnswerArrives
<1> QED BY <1>4, <1>5, <1>6, <1>7, <1>8, ExecuteKeeps DEF Cycle!Next

-----------------------------------------------------------------------------
(* DecisionCycle: orders carry stops and have the debate behind them.       *)

(* Least and greatest members.                                              *)
LEMMA LeastIs ==
  ASSUME NEW N \in SUBSET Nat, N # {}
  PROVE  \E x \in N : \A y \in N : x <= y
<1>1. PICK x \in N : \A y \in N : <<y, x>> \notin OpToRel(<, Nat)
  BY WFMin, NatLessThanWellFounded
<1>2. \A y \in N : ~(y < x)
  BY <1>1 DEF OpToRel
<1> QED BY <1>2

LEMMA GreatestIs ==
  ASSUME NEW S, IsFiniteSet(S), S # {}, NEW f, \A x \in S : f[x] \in Int
  PROVE  \E x \in S : \A y \in S : f[y] <= f[x]
<1> DEFINE N == {n \in Nat : \A s \in SUBSET S : Cardinality(s) = n /\ s # {} =>
                    \E x \in s : \A y \in s : f[y] <= f[x]}
<1>0. \A s \in SUBSET S : IsFiniteSet(s) /\ Cardinality(s) \in Nat
  BY FS_Subset, FS_CardinalityType
<1>1. 0 \in N
  BY <1>0, FS_EmptySet
<1>2. ASSUME NEW n \in N PROVE n + 1 \in N
  <2> SUFFICES ASSUME NEW s \in SUBSET S, Cardinality(s) = n + 1, s # {}
               PROVE  \E x \in s : \A y \in s : f[y] <= f[x]
    OBVIOUS
  <2>1. PICK z \in s : TRUE
    OBVIOUS
  <2>2. PICK r : r = s \ {z}
    OBVIOUS
  <2>3. r \in SUBSET S /\ Cardinality(r) = n
    <3>1. IsFiniteSet(s) /\ Cardinality(r) = Cardinality(s) - 1
      BY <1>0, <2>1, <2>2, FS_RemoveElement
    <3>2. n \in Nat
      OBVIOUS
    <3> QED BY <2>2, <3>1, <3>2
  <2>4. CASE r = {}
    <3>1. s = {z}
      BY <2>1, <2>2, <2>4
    <3> QED BY <2>1, <3>1
  <2>5. CASE r # {}
    <3>1. PICK x \in r : \A y \in r : f[y] <= f[x]
      BY <2>3, <2>5
    <3>2. f[x] \in Int /\ f[z] \in Int /\ \A y \in s : y = z \/ y \in r
      BY <2>1, <2>2, <3>1
    <3>3. CASE f[z] <= f[x]
      BY <2>2, <3>1, <3>2, <3>3
    <3>4. CASE f[x] <= f[z]
      <4>1. \A y \in s : f[y] \in Int
        OBVIOUS
      <4> QED BY <2>1, <2>2, <3>1, <3>2, <3>4, <4>1
    <3> QED BY <3>2, <3>3, <3>4
  <2> QED BY <2>4, <2>5
<1>3. N = Nat
  <2>1. N \in SUBSET Nat
    OBVIOUS
  <2> HIDE DEF N
  <2> QED BY <1>1, <1>2, <2>1, Induction
<1> QED BY <1>0, <1>3

(* Images of finite sets, and a finite set as a list.                       *)
LEMMA ImagesAreFinite ==
  ASSUME NEW S, IsFiniteSet(S), NEW f
  PROVE  IsFiniteSet({f[x] : x \in S})
<1> DEFINE T == {f[x] : x \in S}
<1>1. [x \in S |-> f[x]] \in Surjection(S, T)
  BY DEF Surjection
<1> QED BY <1>1, FS_Surjection

(* A finite set as a list, in any order.                                    *)
LEMMA ListIs ==
  ASSUME NEW S, IsFiniteSet(S)
  PROVE  Cycle!SetToSeq(S) \in Seq(S)
<1>1. Cardinality(S) \in Nat /\ Cycle!Cardinality(S) = Cardinality(S)
  BY SameSets, FS_CardinalityType
<1>2. PICK f : f \in [1 .. Cardinality(S) -> S] /\ Cycle!IsInjective(f)
  BY FS_CardinalityType DEF ExistsBijection, Bijection, Injection, IsInjective, Cycle!IsInjective
<1>3. Cycle!SetToSeq(S) \in [1 .. Cardinality(S) -> S]
  BY <1>1, <1>2 DEF Cycle!SetToSeq
<1> QED BY <1>1, <1>3

-----------------------------------------------------------------------------
Advice == Cycle!Decisions(Cycle!Symbols)
Voices == [overall : Int, decisions : Seq(Advice)]

(* Where the decisions of a debate were said.                               *)
LEMMA PlacesAre ==
  ASSUME NEW said \in Seq(Voices)
  PROVE  /\ IsFiniteSet(Cycle!Places(said))
         /\ \A p \in Cycle!Places(said) :
               /\ p[1] \in 1 .. Len(said) /\ p[2] \in 1 .. Len(said[p[1]].decisions)
               /\ p = <<p[1], p[2]>> /\ Cycle!At(said, p) \in Advice
         /\ \A i \in DOMAIN said : \A k \in DOMAIN said[i].decisions : <<i, k>> \in Cycle!Places(said)
<1>1. \A i \in DOMAIN said : /\ said[i].decisions \in Seq(Advice)
                             /\ DOMAIN said[i].decisions = 1 .. Len(said[i].decisions)
                             /\ Len(said[i].decisions) \in Nat
  <2> TAKE i \in DOMAIN said
  <2>1. said[i] \in Voices
    OBVIOUS
  <2>2. said[i].decisions \in Seq(Advice)
    BY <2>1 DEF Voices
  <2> QED BY <2>2
<1>2. DOMAIN said = 1 .. Len(said) /\ Len(said) \in Nat
  OBVIOUS
<1>3. IsFiniteSet(Cycle!Places(said))
  <2> DEFINE of == [i \in DOMAIN said |-> {i} \X DOMAIN said[i].decisions]
             all == {of[i] : i \in DOMAIN said}
  <2>1. IsFiniteSet(DOMAIN said)
    BY <1>2, FS_Interval
  <2>2. IsFiniteSet(all)
    <3> HIDE DEF of
    <3> QED BY <2>1, ImagesAreFinite
  <2>3. ASSUME NEW S \in all PROVE IsFiniteSet(S)
    <3>1. PICK i \in DOMAIN said : S = {i} \X DOMAIN said[i].decisions
      BY <2>3
    <3>2. IsFiniteSet({i}) /\ IsFiniteSet(DOMAIN said[i].decisions)
      <4>1. DOMAIN said[i].decisions = 1 .. Len(said[i].decisions) /\ Len(said[i].decisions) \in Int
        BY <1>1
      <4>2. IsFiniteSet(1 .. Len(said[i].decisions))
        BY <4>1, FS_Interval
      <4> QED BY <4>1, <4>2, FS_Singleton
    <3>3. IsFiniteSet({i} \X DOMAIN said[i].decisions)
      BY <3>2, FS_Product
    <3> QED BY <3>1, <3>3
  <2>4. Cycle!Places(said) = UNION all
    BY DEF Cycle!Places
  <2> HIDE DEF all
  <2> QED BY <2>2, <2>3, <2>4, FS_UNION
<1>4. ASSUME NEW p \in Cycle!Places(said)
      PROVE  /\ p[1] \in 1 .. Len(said) /\ p[2] \in 1 .. Len(said[p[1]].decisions)
             /\ p = <<p[1], p[2]>> /\ Cycle!At(said, p) \in Advice
  <2>0. PICK i \in DOMAIN said : \E k \in DOMAIN said[i].decisions : p = <<i, k>>
    BY <1>4 DEF Cycle!Places
  <2>1. PICK k \in DOMAIN said[i].decisions : p = <<i, k>>
    BY <2>0
  <2>2. said[i].decisions[k] \in Advice
    BY <1>1, <2>1
  <2> QED BY <1>1, <1>2, <2>1, <2>2 DEF Cycle!At
<1> QED BY <1>3, <1>4 DEF Cycle!Places

(* The first and the last of finitely many places are among them.           *)
LEMMA EndsAre ==
  ASSUME NEW said \in Seq(Voices), NEW B \in SUBSET Cycle!Places(said), B # {}
  PROVE  /\ Cycle!FirstOf(B) \in B /\ \A q \in B : Cycle!UpTo(Cycle!FirstOf(B), q)
         /\ Cycle!LastOf(B) \in B
<1>1. \A p \in B : /\ p[1] \in 1 .. Len(said) /\ p[2] \in 1 .. Len(said[p[1]].decisions)
                   /\ p = <<p[1], p[2]>>
  BY PlacesAre
<1>2. Len(said) \in Nat /\ \A i \in 1 .. Len(said) : Len(said[i].decisions) \in Nat
  BY DEF Voices
<1>3. \E p \in B : \A q \in B : Cycle!UpTo(p, q)
  <2> DEFINE N == {p[1] : p \in B}
  <2>1. N \in SUBSET Nat /\ N # {}
    BY <1>1, <1>2
  <2>2. PICK i \in N : \A j \in N : i <= j
    <3> HIDE DEF N
    <3> QED BY <2>1, LeastIs
  <2> DEFINE M == {k \in Nat : <<i, k>> \in B}
  <2>3. M \in SUBSET Nat /\ M # {}
    <3>1. PICK p \in B : i = p[1]
      BY <2>2
    <3>2. p[2] \in Nat /\ <<i, p[2]>> \in B
      BY <1>1, <1>2, <3>1
    <3> QED BY <3>2
  <2>4. PICK k \in M : \A l \in M : k <= l
    <3> HIDE DEF M
    <3> QED BY <2>3, LeastIs
  <2>5. ASSUME NEW q \in B PROVE Cycle!UpTo(<<i, k>>, q)
    <3>1. i <= q[1] /\ q[1] \in Nat /\ i \in Nat /\ q[2] \in Nat
      BY <1>1, <1>2, <2>1, <2>2
    <3>2. q[1] = i => k <= q[2]
      BY <1>1, <2>4, <3>1
    <3> QED BY <3>1, <3>2 DEF Cycle!UpTo
  <2> QED BY <2>4, <2>5
<1>4. \E p \in B : \A q \in B : Cycle!UpTo(q, p)
  <2> DEFINE N == {Len(said) - p[1] : p \in B}
  <2>1. N \in SUBSET Nat /\ N # {}
    BY <1>1, <1>2
  <2>2. PICK n \in N : \A j \in N : n <= j
    <3> HIDE DEF N
    <3> QED BY <2>1, LeastIs
  <2>3. PICK b \in B : n = Len(said) - b[1]
    BY <2>2
  <2>4. PICK i : i = b[1] /\ i \in 1 .. Len(said)
    BY <1>1
  <2>5. PICK m : m = Len(said[i].decisions) /\ m \in Nat
    BY <1>2, <2>4
  <2> DEFINE M == {k \in Nat : \E l \in 1 .. m : k = m - l /\ <<i, l>> \in B}
  <2>6. M \in SUBSET Nat /\ M # {}
    <3>1. b[2] \in 1 .. m /\ <<i, b[2]>> \in B
      BY <1>1, <2>4, <2>5
    <3>2. m - b[2] \in M
      BY <2>5, <3>1
    <3> QED BY <3>2
  <2>7. PICK k \in M : \A l \in M : k <= l
    <3> HIDE DEF M
    <3> QED BY <2>6, LeastIs
  <2>8. PICK z \in 1 .. m : k = m - z /\ <<i, z>> \in B
    BY <2>7
  <2>9. ASSUME NEW q \in B PROVE Cycle!UpTo(q, <<i, z>>)
    <3>1. n <= Len(said) - q[1] /\ q[1] \in Nat /\ q[2] \in Nat
      BY <1>1, <1>2, <2>2
    <3>2. q[1] <= i
      BY <1>1, <1>2, <2>3, <2>4, <3>1
    <3>3. q[1] = i => q[2] <= z
      <4>1. SUFFICES ASSUME q[1] = i PROVE q[2] <= z
        OBVIOUS
      <4>2. q[2] \in 1 .. m /\ <<i, q[2]>> \in B
        BY <1>1, <2>5, <4>1
      <4>3. m - q[2] \in M
        <5>1. m - q[2] \in Nat
          BY <2>5, <4>2
        <5> QED BY <4>2, <5>1
      <4>4. k <= m - q[2]
        BY <2>7, <4>3
      <4> QED BY <2>5, <2>8, <4>2, <4>4
    <3> QED BY <1>2, <2>4, <2>5, <3>1, <3>2, <3>3 DEF Cycle!UpTo
  <2> QED BY <2>8, <2>9
<1> QED BY <1>3, <1>4 DEF Cycle!FirstOf, Cycle!LastOf

(* The ballots on an action, and the decision that they elect.              *)
LEMMA BallotsAre ==
  ASSUME NEW said \in Seq(Voices), NEW s, NEW act
  PROVE  /\ Cycle!Ballots(said, s, act) \in SUBSET Cycle!Places(said)
         /\ IsFiniteSet(Cycle!Ballots(said, s, act))
         /\ Cardinality(Cycle!Ballots(said, s, act)) \in Nat
<1>1. Cycle!Ballots(said, s, act) \in SUBSET Cycle!Places(said)
  BY DEF Cycle!Ballots
<1> QED BY <1>1, PlacesAre, FS_Subset, FS_CardinalityType

(* An elected decision names what was voted for.                            *)
LEMMA ElectedIs ==
  ASSUME NEW said \in Seq(Voices), NEW s, NEW act, Cycle!Ballots(said, s, act) # {}
  PROVE  /\ Cycle!Elected(said, Cycle!Ballots(said, s, act)) \in Advice
         /\ Cycle!Elected(said, Cycle!Ballots(said, s, act)).symbol = s
         /\ Cycle!Elected(said, Cycle!Ballots(said, s, act)).action = act
<1>1. PICK B : B = Cycle!Ballots(said, s, act)
  OBVIOUS
<1>2. B \in SUBSET Cycle!Places(said) /\ IsFiniteSet(B) /\ B # {}
  BY <1>1, BallotsAre
<1>3. PICK d : d = Cycle!At(said, Cycle!FirstOf(B))
  OBVIOUS
<1>4. d \in Advice /\ d.symbol = s /\ d.action = act
  BY <1>1, <1>2, <1>3, EndsAre, PlacesAre DEF Cycle!Ballots
<1>5. PICK c : c = Cycle!MeanConfidence(said, B)
  OBVIOUS
<1>6. c \in Int
  <2> DEFINE f == [p \in B |-> Cycle!At(said, p).confidence]
  <2>1. \A p \in B : f[p] \in Int
    BY <1>2, PlacesAre DEF Advice, Cycle!Decisions
  <2>2. Total(f, B) \in Int
    <3> HIDE DEF f
    <3> QED BY <1>2, <2>1, SumIsInt
  <2>3. Cardinality(B) \in Nat /\ Cardinality(B) > 0
    BY <1>2, FS_EmptySet, FS_CardinalityType
  <2>4. Cycle!Total(f, B) = Total(f, B)
    BY DEF Cycle!Total, Total
  <2>5. c = Total(f, B) \div Cardinality(B)
    BY <1>5, <2>4, SameSets DEF Cycle!MeanConfidence
  <2> QED BY <2>2, <2>3, <2>5
<1>7. Cycle!Elected(said, B) = [d EXCEPT !.confidence = c]
  BY <1>3, <1>5 DEF Cycle!Elected
<1> QED BY <1>1, <1>4, <1>6, <1>7 DEF Advice, Cycle!Decisions

LEMMA ActionsAreFinite == IsFiniteSet(Cycle!Actions)
<1>1. \A x, y : IsFiniteSet({x, y})
  <2> TAKE x, y
  <2>1. {x, y} = {x} \cup {y}
    OBVIOUS
  <2>2. IsFiniteSet({x}) /\ IsFiniteSet({y})
    BY FS_Singleton
  <2>3. IsFiniteSet({x} \cup {y})
    BY <2>2, FS_Union
  <2> QED BY <2>1, <2>3
<1>2. /\ IsFiniteSet(Cycle!OpenActions) /\ IsFiniteSet(Cycle!CloseActions)
      /\ IsFiniteSet(Cycle!Idle)
  BY <1>1 DEF Cycle!OpenActions, Cycle!CloseActions, Cycle!Idle
<1>3. IsFiniteSet(Cycle!OpenActions \cup Cycle!CloseActions)
  BY <1>2, FS_Union
<1>4. IsFiniteSet((Cycle!OpenActions \cup Cycle!CloseActions) \cup Cycle!Idle)
  BY <1>2, <1>3, FS_Union
<1> QED BY <1>4 DEF Cycle!Actions

(* A set of elections is a finite set of decisions.                         *)
LEMMA ElectionsAre ==
  ASSUME NEW said \in Seq(Voices), NEW Q \in SUBSET (Cycle!SymbolsOf(said) \X Cycle!Actions),
         \A p \in Q : Cycle!Ballots(said, p[1], p[2]) # {},
         NEW E, E = {Cycle!Elected(said, Cycle!Ballots(said, p[1], p[2])) : p \in Q}
  PROVE  /\ IsFiniteSet(E) /\ E \in SUBSET Advice
         /\ \A d \in E : <<d.symbol, d.action>> \in Q
<1>1. IsFiniteSet(Cycle!SymbolsOf(said))
  <2> DEFINE of == [p \in Cycle!Places(said) |-> Cycle!At(said, p).symbol]
  <2>1. Cycle!SymbolsOf(said) = {of[p] : p \in Cycle!Places(said)}
    BY DEF Cycle!SymbolsOf
  <2>2. IsFiniteSet({of[p] : p \in Cycle!Places(said)})
    <3> HIDE DEF of
    <3> QED BY PlacesAre, ImagesAreFinite
  <2> QED BY <2>1, <2>2
<1>2. IsFiniteSet(Q)
  <2>1. IsFiniteSet(Cycle!SymbolsOf(said) \X Cycle!Actions)
    BY <1>1, ActionsAreFinite, FS_Product
  <2> QED BY <2>1, FS_Subset
<1>3. IsFiniteSet(E)
  <2> DEFINE of == [p \in Q |-> Cycle!Elected(said, Cycle!Ballots(said, p[1], p[2]))]
  <2>1. E = {of[p] : p \in Q}
    OBVIOUS
  <2>2. IsFiniteSet({of[p] : p \in Q})
    <3> HIDE DEF of
    <3> QED BY <1>2, ImagesAreFinite
  <2> QED BY <2>1, <2>2
<1>4. ASSUME NEW d \in E PROVE d \in Advice /\ <<d.symbol, d.action>> \in Q
  <2>1. PICK p \in Q : d = Cycle!Elected(said, Cycle!Ballots(said, p[1], p[2]))
    BY <1>4
  <2>2. p = <<p[1], p[2]>>
    OBVIOUS
  <2>3. d \in Advice /\ d.symbol = p[1] /\ d.action = p[2]
    BY <2>1, ElectedIs
  <2> QED BY <2>2, <2>3
<1> QED BY <1>3, <1>4

(* The rules of the debate.                                                 *)
LEMMA MajorityIs ==
  ASSUME NEW said \in Seq(Voices)
  PROVE  /\ IsFiniteSet(Cycle!MajorityVote(said)) /\ Cycle!MajorityVote(said) \in SUBSET Advice
         /\ \A d \in Cycle!MajorityVote(said) : Cycle!Carries(said, d.symbol, d.action)
<1> DEFINE Q == {p \in Cycle!SymbolsOf(said) \X Cycle!Actions :
                    Cycle!Ballots(said, p[1], p[2]) # {} /\ Cycle!Carries(said, p[1], p[2])}
<1>1. /\ Q \in SUBSET (Cycle!SymbolsOf(said) \X Cycle!Actions)
      /\ \A p \in Q : Cycle!Ballots(said, p[1], p[2]) # {} /\ Cycle!Carries(said, p[1], p[2])
  OBVIOUS
<1>2. Cycle!MajorityVote(said) = {Cycle!Elected(said, Cycle!Ballots(said, p[1], p[2])) : p \in Q}
  BY DEF Cycle!MajorityVote
<1> HIDE DEF Q
<1>3. /\ IsFiniteSet(Cycle!MajorityVote(said)) /\ Cycle!MajorityVote(said) \in SUBSET Advice
      /\ \A d \in Cycle!MajorityVote(said) : <<d.symbol, d.action>> \in Q
  BY <1>1, <1>2, ElectionsAre
<1> QED BY <1>1, <1>3

(* What is unanimous has as many ballots as there are participants.         *)
LEMMA UnanimousIs ==
  ASSUME NEW said \in Seq(Voices), said # <<>>
  PROVE  /\ IsFiniteSet(Cycle!Unanimous(said)) /\ Cycle!Unanimous(said) \in SUBSET Advice
         /\ \A d \in Cycle!Unanimous(said) :
               Cardinality(Cycle!Ballots(said, d.symbol, d.action)) = Len(said)
<1> DEFINE Q == {p \in Cycle!SymbolsOf(said) \X Cycle!Actions :
                    Cycle!Cardinality(Cycle!Ballots(said, p[1], p[2])) = Len(said)}
<1>1. /\ Q \in SUBSET (Cycle!SymbolsOf(said) \X Cycle!Actions)
      /\ \A p \in Q : Cardinality(Cycle!Ballots(said, p[1], p[2])) = Len(said)
  BY SameSets
<1>2. \A p \in Q : Cycle!Ballots(said, p[1], p[2]) # {}
  <2>1. Len(said) # 0
    OBVIOUS
  <2> QED BY <1>1, <2>1, FS_EmptySet
<1>3. Cycle!Unanimous(said) = {Cycle!Elected(said, Cycle!Ballots(said, p[1], p[2])) : p \in Q}
  BY DEF Cycle!Unanimous
<1> HIDE DEF Q
<1>4. /\ IsFiniteSet(Cycle!Unanimous(said)) /\ Cycle!Unanimous(said) \in SUBSET Advice
      /\ \A d \in Cycle!Unanimous(said) : <<d.symbol, d.action>> \in Q
  BY <1>1, <1>2, <1>3, ElectionsAre
<1> QED BY <1>1, <1>4

(* A score is an integer, so that one action weighs most.                   *)
LEMMA ScoreIs ==
  ASSUME NEW said \in Seq(Voices), NEW s, NEW act
  PROVE  Cycle!Score(said, s, act) \in Int
<1> DEFINE B == Cycle!Ballots(said, s, act)
           f == [p \in B |-> said[p[1]].overall * Cycle!At(said, p).confidence]
<1>1. \A p \in B : f[p] \in Int
  <2> TAKE p \in B
  <2>1. p \in Cycle!Places(said)
    BY BallotsAre
  <2>2. p[1] \in DOMAIN said /\ Cycle!At(said, p) \in Advice
    BY <2>1, PlacesAre
  <2>3. said[p[1]].overall \in Int /\ Cycle!At(said, p).confidence \in Int
    <3>1. said[p[1]] \in Voices
      BY <2>2
    <3>2. said[p[1]].overall \in Int
      BY <3>1 DEF Voices
    <3> QED BY <2>2, <3>2 DEF Advice, Cycle!Decisions
  <2>4. \A x, y \in Int : x * y \in Int
    OBVIOUS
  <2>5. f[p] = said[p[1]].overall * Cycle!At(said, p).confidence
    OBVIOUS
  <2> QED BY <2>3, <2>4, <2>5
<1>2. IsFiniteSet(B)
  BY BallotsAre
<1>3. Cycle!Score(said, s, act) = Total(f, B)
  BY DEF Cycle!Score, Cycle!Total, Total
<1> HIDE DEF f, B
<1> QED BY <1>1, <1>2, <1>3, SumIsInt

LEMMA HeaviestIs ==
  ASSUME NEW said \in Seq(Voices), NEW s \in Cycle!SymbolsOf(said)
  PROVE  Cycle!Heaviest(said, s) \in Cycle!ActionsOn(said, s)
<1> DEFINE on == Cycle!ActionsOn(said, s)
           best == {act \in on : \A other \in on : Cycle!Score(said, s, other) <= Cycle!Score(said, s, act)}
           first == [act \in Cycle!Actions |-> Cycle!FirstOf(Cycle!Ballots(said, s, act))]
<1>1. on # {} /\ IsFiniteSet(on)
  <2>1. PICK p \in Cycle!Places(said) : s = Cycle!At(said, p).symbol
    BY DEF Cycle!SymbolsOf
  <2>2. Cycle!At(said, p).action \in Cycle!Actions
    BY <2>1, PlacesAre DEF Advice, Cycle!Decisions
  <2>3. Cycle!At(said, p).action \in on
    BY <2>1, <2>2 DEF Cycle!ActionsOn, Cycle!Ballots
  <2>4. on \in SUBSET Cycle!Actions
    BY DEF Cycle!ActionsOn
  <2> QED BY <2>3, <2>4, ActionsAreFinite, FS_Subset
<1>2. best # {}
  <2> DEFINE g == [act \in on |-> Cycle!Score(said, s, act)]
  <2>1. \A act \in on : g[act] \in Int
    BY ScoreIs
  <2>2. \E x \in on : \A y \in on : g[y] <= g[x]
    <3> HIDE DEF g, on
    <3> QED BY <1>1, <2>1, GreatestIs
  <2> QED BY <2>2
<1>3. \E act \in best : \A other \in best : Cycle!UpTo(first[act], first[other])
  <2> DEFINE F == {first[act] : act \in best}
  <2>1. \A act \in best : act \in Cycle!Actions /\ Cycle!Ballots(said, s, act) # {}
    BY DEF Cycle!ActionsOn
  <2>2. \A act \in best : first[act] \in Cycle!Places(said)
    <3> TAKE act \in best
    <3>1. Cycle!FirstOf(Cycle!Ballots(said, s, act)) \in Cycle!Ballots(said, s, act)
      BY <2>1, BallotsAre, EndsAre
    <3> QED BY <2>1, <3>1, BallotsAre
  <2>3. F \in SUBSET Cycle!Places(said) /\ F # {}
    BY <1>2, <2>2
  <2>4. Cycle!FirstOf(F) \in F /\ \A q \in F : Cycle!UpTo(Cycle!FirstOf(F), q)
    <3> HIDE DEF F
    <3> QED BY <2>3, EndsAre
  <2> QED BY <2>4
<1>4. \A act \in best : first[act] = Cycle!FirstOf(Cycle!Ballots(said, s, act))
  BY DEF Cycle!ActionsOn
<1>5. Cycle!Heaviest(said, s) \in best
  BY <1>3, <1>4 DEF Cycle!Heaviest
<1> QED BY <1>5

LEMMA WeightedIs ==
  ASSUME NEW said \in Seq(Voices)
  PROVE  IsFiniteSet(Cycle!WeightedAverage(said)) /\ Cycle!WeightedAverage(said) \in SUBSET Advice
<1>1. ASSUME NEW d \in Cycle!WeightedAverage(said)
      PROVE  \E p \in Cycle!Places(said) : d = Cycle!At(said, p)
  <2>1. PICK s \in Cycle!SymbolsOf(said) :
           d = Cycle!At(said, Cycle!LastOf(Cycle!Ballots(said, s, Cycle!Heaviest(said, s))))
    BY <1>1 DEF Cycle!WeightedAverage
  <2>2. PICK B : B = Cycle!Ballots(said, s, Cycle!Heaviest(said, s))
    OBVIOUS
  <2>3. B # {}
    BY <2>2, HeaviestIs DEF Cycle!ActionsOn
  <2>4. B \in SUBSET Cycle!Places(said)
    BY <2>2, BallotsAre
  <2> QED BY <2>1, <2>2, <2>3, <2>4, EndsAre
<1> DEFINE of == [p \in Cycle!Places(said) |-> Cycle!At(said, p)]
           All == {of[p] : p \in Cycle!Places(said)}
<1>2. IsFiniteSet(All)
  <2> HIDE DEF of
  <2> QED BY PlacesAre, ImagesAreFinite
<1>3. Cycle!WeightedAverage(said) \in SUBSET All /\ All \in SUBSET Advice
  BY <1>1, PlacesAre
<1> HIDE DEF All
<1> QED BY <1>2, <1>3, FS_Subset

LEMMA HighestIs ==
  ASSUME NEW said \in Seq(Voices), said # <<>>
  PROVE  Cycle!HighestConfidence(said) \in Seq(Advice)
<1> DEFINE best == {i \in DOMAIN said : \A j \in DOMAIN said : said[j].overall <= said[i].overall}
           f == [i \in DOMAIN said |-> said[i].overall]
<1>1. DOMAIN said = 1 .. Len(said) /\ Len(said) \in Nat /\ DOMAIN said # {}
  OBVIOUS
<1>2. \A i \in DOMAIN said : said[i].overall \in Int /\ said[i].decisions \in Seq(Advice)
  <2> TAKE i \in DOMAIN said
  <2>1. said[i] \in Voices
    OBVIOUS
  <2> QED BY <2>1 DEF Voices
<1>3. \A i \in DOMAIN said : f[i] \in Int
  BY <1>2
<1>4. IsFiniteSet(DOMAIN said)
  BY <1>1, FS_Interval
<1>5. \E i \in DOMAIN said : \A j \in DOMAIN said : f[j] <= f[i]
  <2> HIDE DEF f
  <2> QED BY <1>1, <1>3, <1>4, GreatestIs
<1>6. best # {} /\ best \in SUBSET Nat
  <2>1. PICK i \in DOMAIN said : \A j \in DOMAIN said : f[j] <= f[i]
    BY <1>5
  <2>2. \A j \in DOMAIN said : said[j].overall <= said[i].overall
    BY <2>1
  <2>3. i \in best
    BY <2>2
  <2>4. best \in SUBSET (1 .. Len(said))
    BY <1>1
  <2> HIDE DEF best
  <2> QED BY <2>3, <2>4
<1>7. \E i \in best : \A j \in best : i <= j
  <2> HIDE DEF best
  <2> QED BY <1>6, LeastIs
<1>8. PICK n : n = CHOOSE i \in best : \A j \in best : i <= j
  OBVIOUS
<1>9. n \in best
  BY <1>7, <1>8
<1> QED BY <1>2, <1>8, <1>9 DEF Cycle!HighestConfidence

(* Each of the four modes gives a list of decisions.                        *)
LEMMA ConsensusIs ==
  ASSUME NEW said \in Seq(Voices), said # <<>>, NEW m \in Cycle!Modes,
         NEW list, list = Cycle!Consensus(m, said)
  PROVE  /\ list \in Seq(Advice)
         /\ \A k \in DOMAIN list :
               /\ m = "majority_vote" => Cycle!Carries(said, list[k].symbol, list[k].action)
               /\ m = "unanimous" =>
                     Cardinality(Cycle!Ballots(said, list[k].symbol, list[k].action)) = Len(said)
<1>0. \A S : IsFiniteSet(S) /\ S \in SUBSET Advice =>
         /\ Cycle!SetToSeq(S) \in Seq(Advice)
         /\ \A k \in DOMAIN Cycle!SetToSeq(S) : Cycle!SetToSeq(S)[k] \in S
  <2> SUFFICES ASSUME NEW S, IsFiniteSet(S), S \in SUBSET Advice
               PROVE  /\ Cycle!SetToSeq(S) \in Seq(Advice)
                      /\ \A k \in DOMAIN Cycle!SetToSeq(S) : Cycle!SetToSeq(S)[k] \in S
    OBVIOUS
  <2>1. Cycle!SetToSeq(S) \in Seq(S)
    BY ListIs
  <2> QED BY <2>1
<1>1. CASE m = "majority_vote"
  <2>1. list = Cycle!SetToSeq(Cycle!MajorityVote(said))
    BY <1>1 DEF Cycle!Consensus
  <2> QED BY <1>0, <1>1, <2>1, MajorityIs
<1>2. CASE m = "unanimous"
  <2>1. list = Cycle!SetToSeq(Cycle!Unanimous(said))
    BY <1>2 DEF Cycle!Consensus
  <2> QED BY <1>0, <1>2, <2>1, UnanimousIs
<1>3. CASE m = "weighted_average"
  <2>1. list = Cycle!SetToSeq(Cycle!WeightedAverage(said))
    BY <1>3 DEF Cycle!Consensus
  <2> QED BY <1>0, <1>3, <2>1, WeightedIs
<1>4. CASE m = "highest_confidence"
  <2>1. list = Cycle!HighestConfidence(said)
    BY <1>4 DEF Cycle!Consensus
  <2> QED BY <1>4, <2>1, HighestIs
<1> QED BY <1>1, <1>2, <1>3, <1>4 DEF Cycle!Modes

-----------------------------------------------------------------------------
(* Validating a decision keeps what was voted for.                          *)
LEMMA ValidatedIs ==
  ASSUME NEW list \in Seq(Advice), NEW known, NEW new, new = Cycle!Validated(list, known)
  PROVE  /\ new \in Seq(Advice) /\ DOMAIN new = DOMAIN list /\ Len(new) = Len(list)
         /\ \A k \in DOMAIN list : /\ new[k].symbol = list[k].symbol /\ new[k].action = list[k].action
                                   /\ new[k].action \in Cycle!OpenActions /\ new[k].symbol \in known =>
                                         new[k].stops
<1>1. \A d \in Advice :
         /\ Cycle!WithStops(d, known) \in Advice
         /\ Cycle!WithStops(d, known).symbol = d.symbol /\ Cycle!WithStops(d, known).action = d.action
         /\ d.action \in Cycle!OpenActions /\ d.symbol \in known => Cycle!WithStops(d, known).stops
  BY DEF Cycle!WithStops, Advice, Cycle!Decisions
<1>2. new = [k \in DOMAIN list |-> Cycle!WithStops(list[k], known)]
  BY DEF Cycle!Validated
<1>3. DOMAIN list = 1 .. Len(list) /\ Len(list) \in Nat /\ \A k \in DOMAIN list : list[k] \in Advice
  OBVIOUS
<1>4. \A k \in DOMAIN list : new[k] = Cycle!WithStops(list[k], known)
  BY <1>2
<1>5. new \in [1 .. Len(list) -> Advice]
  BY <1>1, <1>2, <1>3
<1>6. new \in Seq(Advice) /\ DOMAIN new = DOMAIN list /\ Len(new) = Len(list)
  BY <1>3, <1>5
<1> QED BY <1>1, <1>3, <1>4, <1>6

(* The parsed answers are voices, and so is a failed one.                   *)
LEMMA VoicesAre ==
  ASSUME Cycle!CycleParameters
  PROVE  Answers \cup {Cycle!Failed, Cycle!Pending} \in SUBSET Voices
<1>1. <<>> \in Seq(Advice)
  OBVIOUS
<1>2. Cycle!Failed \in Voices /\ Cycle!Pending \in Voices
  BY <1>1 DEF Cycle!Failed, Cycle!Pending, Cycle!Answer, Voices
<1>3. Answers \in SUBSET Voices
  BY DEF Cycle!CycleParameters, Voices, Advice
<1> QED BY <1>2, <1>3

LEMMA SameKept == \A list, S : Cycle!Kept(list, S) = Kept(list, S)
BY DEF Cycle!Kept, Kept

Responses == Answers \cup {Cycle!Failed, Cycle!Pending}

(* The participants are those of the answers that say something.            *)
LEMMA ParticipantsAre ==
  ASSUME Cycle!CycleParameters, answers \in Seq(Responses)
  PROVE  Cycle!Participants \in Seq(Voices)
<1>1. answers \in Seq(Voices)
  BY VoicesAre DEF Responses
<1>2. PICK S : Cycle!Participants = Kept(answers, S)
  BY SameKept DEF Cycle!Participants, Cycle!Succeeded
<1>3. Kept(answers, S) \in Seq(Voices \cap S)
  BY <1>1, KeptIs
<1> QED BY <1>2, <1>3

\* The answers of a debate, their decisions validated without prices.
Heard == [i \in DOMAIN Cycle!Participants |->
             [Cycle!Participants[i] EXCEPT !.decisions = Cycle!Validated(@, {})]]

LEMMA HeardIs ==
  ASSUME NEW all \in Seq(Voices), all = Cycle!Participants
  PROVE  /\ Heard \in Seq(Voices) /\ Len(Heard) = Len(all)
         /\ \A s, act : Cycle!Ballots(Heard, s, act) = Cycle!Ballots(all, s, act)
<1>1. DOMAIN all = 1 .. Len(all) /\ Len(all) \in Nat
  OBVIOUS
<1>2. ASSUME NEW i \in DOMAIN all
      PROVE  /\ all[i].decisions \in Seq(Advice) /\ Heard[i] \in Voices
             /\ DOMAIN Heard[i].decisions = DOMAIN all[i].decisions
             /\ \A k \in DOMAIN all[i].decisions :
                   /\ Heard[i].decisions[k].symbol = all[i].decisions[k].symbol
                   /\ Heard[i].decisions[k].action = all[i].decisions[k].action
  <2>1. PICK v \in Voices : v = all[i]
    OBVIOUS
  <2>2. PICK new : new = Cycle!Validated(v.decisions, {})
    OBVIOUS
  <2>3. v.decisions \in Seq(Advice)
    BY <2>1 DEF Voices
  <2>4. /\ new \in Seq(Advice) /\ DOMAIN new = DOMAIN v.decisions
        /\ \A k \in DOMAIN v.decisions : /\ new[k].symbol = v.decisions[k].symbol
                                         /\ new[k].action = v.decisions[k].action
    BY <2>2, <2>3, ValidatedIs
  <2>5. Heard[i] = [v EXCEPT !.decisions = new]
    BY <2>1, <2>2 DEF Heard
  <2>6. Heard[i] \in Voices /\ Heard[i].decisions = new
    BY <2>4, <2>5 DEF Voices
  <2> QED BY <2>1, <2>3, <2>4, <2>6
<1>3. Heard \in Seq(Voices) /\ Len(Heard) = Len(all) /\ DOMAIN Heard = DOMAIN all
  <2>1. DOMAIN Heard = DOMAIN all
    BY DEF Heard
  <2>2. Heard = [i \in 1 .. Len(all) |-> Heard[i]]
    BY <1>1 DEF Heard
  <2>3. Heard \in [1 .. Len(all) -> Voices]
    BY <1>1, <1>2, <2>2
  <2> QED BY <1>1, <2>1, <2>3
<1>4. Cycle!Places(Heard) = Cycle!Places(all)
  BY <1>2, <1>3 DEF Cycle!Places
<1>5. \A p \in Cycle!Places(all) : /\ Cycle!At(Heard, p).symbol = Cycle!At(all, p).symbol
                                   /\ Cycle!At(Heard, p).action = Cycle!At(all, p).action
  <2> TAKE p \in Cycle!Places(all)
  <2>1. p[1] \in 1 .. Len(all) /\ p[2] \in 1 .. Len(all[p[1]].decisions)
    BY PlacesAre
  <2>2. p[1] \in DOMAIN all /\ p[2] \in DOMAIN all[p[1]].decisions
    BY <1>1, <1>2, <2>1
  <2> QED BY <1>2, <2>2 DEF Cycle!At
<1>6. \A s, act : Cycle!Ballots(Heard, s, act) = Cycle!Ballots(all, s, act)
  BY <1>4, <1>5 DEF Cycle!Ballots
<1> QED BY <1>3, <1>6

(* With one ballot for each participant, symbol and action, ballots count    *)
(* participants.                                                            *)
LEMMA BackersAre ==
  ASSUME NEW all \in Seq(Voices), all = Cycle!Participants, Cycle!OneBallotEach, NEW s, NEW act
  PROVE  /\ Cycle!Backers(s, act) \in SUBSET DOMAIN all /\ IsFiniteSet(Cycle!Backers(s, act))
         /\ Cardinality(Cycle!Backers(s, act)) = Cardinality(Cycle!Ballots(all, s, act))
<1> DEFINE B == Cycle!Ballots(all, s, act)
           V == Cycle!Backers(s, act)
           voter == [p \in B |-> p[1]]
<1>1. B \in SUBSET Cycle!Places(all) /\ IsFiniteSet(B)
  BY BallotsAre
<1>2. \A p \in B : /\ p[1] \in DOMAIN all /\ p[2] \in DOMAIN all[p[1]].decisions /\ p = <<p[1], p[2]>>
                   /\ all[p[1]].decisions[p[2]].symbol = s /\ all[p[1]].decisions[p[2]].action = act
  <2> TAKE p \in B
  <2>1. p[1] \in 1 .. Len(all) /\ p[2] \in 1 .. Len(all[p[1]].decisions) /\ p = <<p[1], p[2]>>
    BY <1>1, PlacesAre
  <2>2. all[p[1]] \in Voices
    BY <2>1
  <2>3. p[1] \in DOMAIN all /\ p[2] \in DOMAIN all[p[1]].decisions
    BY <2>1, <2>2 DEF Voices
  <2> QED BY <2>1, <2>3 DEF Cycle!Ballots, Cycle!At
<1>3. \A p \in B : p[1] \in V
  BY <1>2 DEF Cycle!Backers
<1>4. \A i \in V : \E p \in B : p[1] = i
  <2> TAKE i \in V
  <2>1. i \in DOMAIN all /\ \E k \in DOMAIN all[i].decisions :
           all[i].decisions[k].symbol = s /\ all[i].decisions[k].action = act
    BY DEF Cycle!Backers
  <2>2. PICK k \in DOMAIN all[i].decisions :
           all[i].decisions[k].symbol = s /\ all[i].decisions[k].action = act
    BY <2>1
  <2>3. <<i, k>> \in Cycle!Places(all)
    BY <2>1, <2>2, PlacesAre
  <2>4. <<i, k>> \in B
    BY <2>2, <2>3 DEF Cycle!Ballots, Cycle!At
  <2> QED BY <2>4
<1>5. \A p, q \in B : p[1] = q[1] => p = q
  <2> SUFFICES ASSUME NEW p \in B, NEW q \in B, p[1] = q[1]
               PROVE  p = q
    OBVIOUS
  <2>1. PICK i : i = p[1]
    OBVIOUS
  <2>2. PICK f : f = [k \in DOMAIN all[i].decisions |->
                         <<all[i].decisions[k].symbol, all[i].decisions[k].action>>]
    OBVIOUS
  <2>3. \A a, b \in DOMAIN f : f[a] = f[b] => a = b
    <3>1. i \in DOMAIN Cycle!Participants
      BY <1>2, <2>1
    <3>2. Cycle!IsInjective([k \in DOMAIN Cycle!Participants[i].decisions |->
             <<Cycle!Participants[i].decisions[k].symbol, Cycle!Participants[i].decisions[k].action>>])
      BY <3>1 DEF Cycle!OneBallotEach
    <3>3. Cycle!IsInjective(f)
      BY <2>2, <3>2
    <3> QED BY <3>3 DEF Cycle!IsInjective
  <2>4. p[2] \in DOMAIN f /\ q[2] \in DOMAIN f /\ f[p[2]] = f[q[2]]
    BY <1>2, <2>1, <2>2
  <2> QED BY <1>2, <2>3, <2>4
<1>6. voter \in Surjection(B, V) /\ voter \in Injection(B, V)
  BY <1>3, <1>4, <1>5 DEF Surjection, Injection, IsInjective
<1>7. IsFiniteSet(V) /\ Cardinality(V) = Cardinality(B)
  BY <1>1, <1>6, FS_Surjection
<1>8. V \in SUBSET DOMAIN all
  BY DEF Cycle!Backers
<1> QED BY <1>7, <1>8

(* A majority of the ballots on a symbol is more than any other action has.  *)
LEMMA MostBallots ==
  ASSUME NEW said \in Seq(Voices), NEW s, NEW act \in Cycle!Actions, Cycle!Carries(said, s, act),
         NEW other \in Cycle!Actions, other # act
  PROVE  Cardinality(Cycle!Ballots(said, s, other)) < Cardinality(Cycle!Ballots(said, s, act))
<1> DEFINE B == Cycle!Ballots(said, s, act)
           C == Cycle!Ballots(said, s, other)
           all == UNION {Cycle!Ballots(said, s, a) : a \in Cycle!ActionsOn(said, s)}
<1>1. /\ IsFiniteSet(B) /\ IsFiniteSet(C)
      /\ Cardinality(B) \in Nat /\ Cardinality(C) \in Nat
  BY BallotsAre
<1>2. all \in SUBSET Cycle!Places(said)
  BY BallotsAre
<1>3. IsFiniteSet(all) /\ Cardinality(all) \in Nat
  BY <1>2, PlacesAre, FS_Subset, FS_CardinalityType
<1>4. B \in SUBSET all /\ C \in SUBSET all
  BY DEF Cycle!ActionsOn
<1>5. B \cap C = {}
  BY DEF Cycle!Ballots
<1>6. 2 * Cardinality(B) > Cardinality(all)
  BY SameSets DEF Cycle!Carries
<1> HIDE DEF B, C, all
<1>7. Cardinality(B \cup C) = Cardinality(B) + Cardinality(C)
  <2>1. Cardinality(B \cup C) = Cardinality(B) + Cardinality(C) - Cardinality(B \cap C)
    BY <1>1, FS_Union
  <2>2. Cardinality(B \cap C) = 0
    BY <1>5, FS_EmptySet
  <2> QED BY <1>1, <2>1, <2>2
<1>8. Cardinality(B \cup C) <= Cardinality(all)
  <2>1. B \cup C \in SUBSET all
    BY <1>4
  <2> QED BY <1>3, <2>1, FS_Subset
<1>9. Cardinality(C) < Cardinality(B)
  BY <1>1, <1>3, <1>6, <1>7, <1>8
<1> QED BY <1>9 DEF B, C

-----------------------------------------------------------------------------
(* What every decision about to be executed fulfils.                        *)
Equipped(d) == d.action \in Cycle!OpenActions /\ d.symbol \in priced => d.stops

Backed(d) ==
    Cycle!OneBallotEach =>
        /\ mode = "majority_vote" =>
              \A act \in Cycle!Actions \ {d.action} :
                  Cycle!Cardinality(Cycle!Backers(d.symbol, act))
                      < Cycle!Cardinality(Cycle!Backers(d.symbol, d.action))
        /\ mode = "unanimous" => Cycle!Backers(d.symbol, d.action) = DOMAIN Cycle!Participants
        /\ mode # "single" => Cycle!Enough

RulesInv ==
    /\ Cycle!TypeOK
    /\ answers \in Seq(Responses)
    /\ phase # "idle" => DOMAIN answers = Cycle!Models
    /\ results \in Seq(Cycle!Results)
    /\ plan \in Seq(Advice)
    /\ phase \in {"asking", "deciding"} => orders = {}
    /\ \A o \in orders : Equipped(o)
    /\ phase = "executing" =>
          /\ \A k \in DOMAIN plan : Equipped(plan[k]) /\ Backed(plan[k])
          /\ \A o \in orders : Backed(o)

(* The decisions of a debate have it behind them.                           *)
LEMMA VotesAreBehind ==
  ASSUME Cycle!CycleParameters, answers \in Seq(Responses), mode \in Cycle!Modes, Cycle!Enough,
         NEW list, list = Cycle!Consensus(mode, Heard)
  PROVE  /\ list \in Seq(Advice)
         /\ \A k \in DOMAIN list : Backed(list[k])
<1>1. PICK all : all = Cycle!Participants
  OBVIOUS
<1>2. all \in Seq(Voices)
  BY <1>1, ParticipantsAre
<1>3. /\ Heard \in Seq(Voices) /\ Len(Heard) = Len(all)
      /\ \A s, act : Cycle!Ballots(Heard, s, act) = Cycle!Ballots(all, s, act)
  BY <1>1, <1>2, HeardIs
<1>4. Len(all) >= 2 /\ Len(all) \in Nat
  BY <1>1, <1>2 DEF Cycle!Enough, Cycle!CycleParameters
<1>5. Heard # <<>>
  BY <1>3, <1>4
<1>6. /\ list \in Seq(Advice)
      /\ \A k \in DOMAIN list :
            /\ mode = "majority_vote" => Cycle!Carries(Heard, list[k].symbol, list[k].action)
            /\ mode = "unanimous" =>
                  Cardinality(Cycle!Ballots(Heard, list[k].symbol, list[k].action)) = Len(Heard)
  BY <1>3, <1>5, ConsensusIs
<1>7. ASSUME NEW k \in DOMAIN list PROVE Backed(list[k])
  <2>1. PICK d \in Advice : d = list[k]
    BY <1>6
  <2>2. d.action \in Cycle!Actions
    BY DEF Advice, Cycle!Decisions
  <2>3. SUFFICES ASSUME Cycle!OneBallotEach PROVE Backed(d)
    BY <2>1 DEF Backed
  <2>4. \A act : /\ Cycle!Backers(d.symbol, act) \in SUBSET DOMAIN all
                 /\ IsFiniteSet(Cycle!Backers(d.symbol, act))
                 /\ Cardinality(Cycle!Backers(d.symbol, act)) = Cardinality(Cycle!Ballots(Heard, d.symbol, act))
    BY <1>1, <1>2, <1>3, <2>3, BackersAre
  <2>5. ASSUME mode = "majority_vote", NEW act \in Cycle!Actions \ {d.action}
        PROVE  Cycle!Cardinality(Cycle!Backers(d.symbol, act))
                   < Cycle!Cardinality(Cycle!Backers(d.symbol, d.action))
    <3>1. Cycle!Carries(Heard, d.symbol, d.action)
      BY <1>6, <2>1, <2>5
    <3>2. Cardinality(Cycle!Ballots(Heard, d.symbol, act)) < Cardinality(Cycle!Ballots(Heard, d.symbol, d.action))
      BY <1>3, <2>2, <3>1, MostBallots
    <3>3. Cardinality(Cycle!Backers(d.symbol, act)) < Cardinality(Cycle!Backers(d.symbol, d.action))
      BY <2>4, <3>2
    <3> QED BY <3>3, SameSets
  <2>6. ASSUME mode = "unanimous"
        PROVE  Cycle!Backers(d.symbol, d.action) = DOMAIN Cycle!Participants
    <3>1. Cardinality(Cycle!Backers(d.symbol, d.action)) = Len(all)
      BY <1>3, <1>6, <2>1, <2>4, <2>6
    <3>2. DOMAIN all = 1 .. Len(all) /\ Len(all) \in Int
      BY <1>2, <1>4
    <3>3. IsFiniteSet(DOMAIN all) /\ Cardinality(DOMAIN all) = Len(all)
      BY <1>4, <3>2, FS_Interval
    <3>4. Cycle!Backers(d.symbol, d.action) \in SUBSET DOMAIN all
      BY <2>4
    <3>5. Cardinality(DOMAIN all) = Cardinality(Cycle!Backers(d.symbol, d.action))
      BY <3>1, <3>3
    <3>6. DOMAIN all = Cycle!Backers(d.symbol, d.action)
      BY <3>3, <3>4, <3>5, FS_Subset
    <3> QED BY <1>1, <3>6
  <2> QED BY <2>5, <2>6 DEF Backed
<1> QED BY <1>6, <1>7

(* The plan of a cycle, from one model or from a debate.                    *)
LEMMA FinalIs ==
  ASSUME Cycle!CycleParameters, answers \in Seq(Responses), DOMAIN answers = Cycle!Models,
         mode \in Cycle!Modes \cup {"single"}, NEW list, list = Cycle!Final
  PROVE  /\ list \in Seq(Advice)
         /\ \A k \in DOMAIN list : Equipped(list[k]) /\ Backed(list[k])
<1>1. CASE mode = "single"
  <2>1. answers[1] \in Responses
    BY <1>1 DEF Cycle!Models
  <2>2. answers[1].decisions \in Seq(Advice)
    BY <2>1, VoicesAre DEF Responses, Voices
  <2>3. list = Cycle!Validated(answers[1].decisions, priced)
    BY <1>1 DEF Cycle!Final
  <2>4. /\ list \in Seq(Advice) /\ \A k \in DOMAIN list : Equipped(list[k])
    BY <2>2, <2>3, ValidatedIs DEF Equipped
  <2> QED BY <1>1, <2>4 DEF Backed
<1>2. CASE mode # "single" /\ ~Cycle!Enough
  BY <1>2 DEF Cycle!Final
<1>3. CASE mode # "single" /\ Cycle!Enough
  <2>1. PICK elected : elected = Cycle!Consensus(mode, Heard)
    OBVIOUS
  <2>2. elected \in Seq(Advice) /\ \A k \in DOMAIN elected : Backed(elected[k])
    BY <1>3, <2>1, VotesAreBehind
  <2>3. list = Cycle!Validated(elected, priced)
    BY <1>3, <2>1 DEF Cycle!Final, Heard
  <2>4. /\ list \in Seq(Advice) /\ DOMAIN list = DOMAIN elected
        /\ \A k \in DOMAIN elected :
              /\ list[k].symbol = elected[k].symbol /\ list[k].action = elected[k].action
              /\ list[k].action \in Cycle!OpenActions /\ list[k].symbol \in priced => list[k].stops
    BY <2>2, <2>3, ValidatedIs
  <2>5. \A c, d : Backed(c) /\ d.symbol = c.symbol /\ d.action = c.action => Backed(d)
    BY DEF Backed
  <2> QED BY <2>2, <2>4, <2>5 DEF Equipped
<1> QED BY <1>1, <1>2, <1>3

(* A list without one of its members.                                       *)
LEMMA RemovedIs ==
  ASSUME NEW T, NEW list \in Seq(T), NEW k \in DOMAIN list, NEW new, new = Cycle!RemoveAt(list, k)
  PROVE  /\ new \in Seq(T)
         /\ \A j \in DOMAIN new : \E i \in DOMAIN list : new[j] = list[i]
<1>1. k \in 1 .. Len(list) /\ Len(list) \in Nat /\ DOMAIN list = 1 .. Len(list)
  OBVIOUS
<1>2. PICK a, b : a = SubSeq(list, 1, k - 1) /\ b = SubSeq(list, k + 1, Len(list))
  OBVIOUS
<1>3. /\ a \in Seq(T) /\ Len(a) = k - 1 /\ DOMAIN a = 1 .. k - 1
      /\ \A j \in DOMAIN a : a[j] = list[j]
  BY <1>1, <1>2
<1>4. /\ b \in Seq(T) /\ Len(b) = Len(list) - k /\ DOMAIN b = 1 .. Len(list) - k
      /\ \A j \in DOMAIN b : b[j] = list[j + k]
  BY <1>1, <1>2
<1>5. new = a \o b
  BY <1>2 DEF Cycle!RemoveAt
<1>6. new \in Seq(T) /\ DOMAIN new = 1 .. Len(a) + Len(b)
  BY <1>3, <1>4, <1>5
<1>7. ASSUME NEW j \in DOMAIN new PROVE \E i \in DOMAIN list : new[j] = list[i]
  <2>1. CASE j <= Len(a)
    <3>1. j \in DOMAIN a /\ new[j] = a[j]
      BY <1>1, <1>3, <1>4, <1>5, <1>6, <2>1
    <3>2. j \in DOMAIN list
      BY <1>1, <1>3, <3>1
    <3> QED BY <1>3, <3>1, <3>2
  <2>2. CASE j > Len(a)
    <3>1. j - Len(a) \in DOMAIN b /\ new[j] = b[j - Len(a)]
      BY <1>1, <1>3, <1>4, <1>5, <1>6, <2>2
    <3>2. j - Len(a) + k \in DOMAIN list
      BY <1>1, <1>4, <3>1
    <3> QED BY <1>4, <3>1, <3>2
  <2>3. j \in Nat /\ Len(a) \in Nat
    BY <1>1, <1>3, <1>4, <1>6
  <2> QED BY <2>1, <2>2, <2>3
<1> QED BY <1>6, <1>7

LEMMA RulesInit ==
  ASSUME Cycle!CycleParameters, Cycle!Init
  PROVE  RulesInv
<1> USE DEF Cycle!Init
<1>1. answers \in Seq(Responses) /\ results \in Seq(Cycle!Results) /\ plan \in Seq(Advice)
  OBVIOUS
<1>2. {holdings, committed} \subseteq [Cycle!Symbols -> Cycle!Sides \cup {Cycle!None}]
  OBVIOUS
<1>3. Cycle!TypeOK
  BY <1>2 DEF Cycle!TypeOK, Cycle!CycleParameters
<1> QED BY <1>1, <1>3 DEF RulesInv

(* The same answers have the same behind them.                              *)
LEMMA SameDebate ==
  ASSUME answers' = answers, mode' = mode
  PROVE  \A d : Backed(d)' <=> Backed(d)
<1>1. Cycle!Participants' = Cycle!Participants
  BY DEF Cycle!Participants
<1>2. \A s, act : Cycle!Backers(s, act)' = Cycle!Backers(s, act)
  BY <1>1 DEF Cycle!Backers
<1>3. Cycle!OneBallotEach' <=> Cycle!OneBallotEach
  BY <1>1 DEF Cycle!OneBallotEach
<1>4. Cycle!Enough' <=> Cycle!Enough
  BY <1>1 DEF Cycle!Enough
<1> QED BY <1>1, <1>2, <1>3, <1>4 DEF Backed

(* A decision of the plan is carried out or skipped.                        *)
LEMMA ReportKeeps ==
  ASSUME Cycle!CycleParameters, RulesInv, phase = "executing", NEW k \in DOMAIN plan,
         NEW b \in BOOLEAN, Cycle!Report(k, b),
         \/ orders' = orders
         \/ orders' = orders \cup {plan[k]} /\ plan[k].symbol \in Watchlist /\ plan[k].action \notin Cycle!Idle,
         holdings' \in [Cycle!Symbols -> Cycle!Sides \cup {Cycle!None}]
  PROVE  RulesInv'
<1>1. /\ UNCHANGED <<mode, enhanced, phase, priced, answers, committed, rounds>>
      /\ results' = Append(results, Cycle!Result(plan[k], b)) /\ plan' = Cycle!RemoveAt(plan, k)
  BY DEF Cycle!Report, Cycle!fixed
<1>2. plan \in Seq(Advice) /\ results \in Seq(Cycle!Results)
  BY DEF RulesInv
<1>3. plan[k] \in Advice
  BY <1>2
<1>4. Cycle!Result(plan[k], b) \in Cycle!Results
  BY <1>3 DEF Cycle!Result, Cycle!Results, Advice, Cycle!Decisions
<1>5. results' \in Seq(Cycle!Results)
  BY <1>1, <1>2, <1>4
<1>6. plan' \in Seq(Advice) /\ \A j \in DOMAIN plan' : \E i \in DOMAIN plan : plan'[j] = plan[i]
  BY <1>1, <1>2, RemovedIs
<1>7. /\ \A i \in DOMAIN plan : Equipped(plan[i]) /\ Backed(plan[i])
      /\ \A o \in orders : Equipped(o) /\ Backed(o)
  BY DEF RulesInv
<1>8. \A d : (Backed(d)' <=> Backed(d)) /\ (Equipped(d)' <=> Equipped(d))
  BY <1>1, SameDebate DEF Equipped
<1>9. \A o \in orders' : o \in orders \/ o = plan[k]
  OBVIOUS
<1>10. \A o \in orders' : Equipped(o)' /\ Backed(o)'
  BY <1>7, <1>8, <1>9
<1>11. (\A j \in DOMAIN plan : Equipped(plan[j]) /\ Backed(plan[j]))'
  <2>1. PICK list : list = plan'
    OBVIOUS
  <2>2. ASSUME NEW j \in DOMAIN list PROVE Equipped(list[j])' /\ Backed(list[j])'
    <3>1. PICK d, i : i \in DOMAIN plan /\ d = plan[i] /\ list[j] = d
      BY <1>6, <2>1, <2>2
    <3>2. Equipped(d)' /\ Backed(d)'
      BY <1>7, <1>8, <3>1
    <3> QED BY <3>1, <3>2
  <2> QED BY <2>1, <2>2 DEF Equipped, Backed
<1>12. Cycle!TypeOK'
  <2>1. \A o \in orders' : o.symbol \in Watchlist /\ o.action \notin Cycle!Idle
    BY <1>9 DEF RulesInv, Cycle!TypeOK
  <2>2. \A j \in DOMAIN results' : results'[j] \in Cycle!Results
    BY <1>5
  <2> QED BY <1>1, <2>1, <2>2 DEF RulesInv, Cycle!TypeOK
<1>13. phase' = "executing" /\ answers' = answers /\ Cycle!Models' = Cycle!Models
  BY <1>1 DEF Cycle!Models
<1>14. answers' \in Seq(Responses) /\ DOMAIN answers' = Cycle!Models'
  BY <1>13 DEF RulesInv
<1> QED BY <1>5, <1>6, <1>10, <1>11, <1>12, <1>13, <1>14 DEF RulesInv

LEMMA RulesExecute ==
  ASSUME Cycle!CycleParameters, RulesInv, Cycle!Execute
  PROVE  RulesInv'
<1>1. PICK k \in DOMAIN plan : \/ Cycle!Skip(k) \/ Cycle!Open(k) \/ Cycle!OpenRaises(k)
                               \/ Cycle!Close(k) \/ Cycle!Refused(k) \/ Cycle!CloseRaises(k)
  BY DEF Cycle!Execute
<1>2. PICK d \in Advice : d = plan[k]
  BY DEF RulesInv
<1>3. holdings \in [Cycle!Symbols -> Cycle!Sides \cup {Cycle!None}]
  BY DEF RulesInv, Cycle!TypeOK
<1>4. CASE Cycle!Skip(k) \/ Cycle!Refused(k)
  <2>1. orders' = orders /\ holdings' = holdings /\ Cycle!Report(k, FALSE) /\ phase = "executing"
    BY <1>4 DEF Cycle!Skip, Cycle!Refused, Cycle!Ready
  <2> QED BY <1>3, <2>1, ReportKeeps
<1>5. CASE Cycle!CloseRaises(k) \/ Cycle!Close(k)
  <2>1. /\ orders' = orders \cup {plan[k]} /\ phase = "executing" /\ Cycle!Willing(plan[k])
        /\ holdings' = holdings \/ holdings' = [holdings EXCEPT ![plan[k].symbol] = Cycle!None]
        /\ Cycle!Report(k, TRUE) \/ Cycle!Report(k, FALSE)
    BY <1>5 DEF Cycle!CloseRaises, Cycle!Close, Cycle!Ready
  <2>2. plan[k].symbol \in Watchlist /\ plan[k].action \notin Cycle!Idle
    BY <2>1 DEF Cycle!Willing
  <2>3. holdings' \in [Cycle!Symbols -> Cycle!Sides \cup {Cycle!None}]
    BY <1>3, <2>1
  <2> QED BY <2>1, <2>2, <2>3, ReportKeeps
<1>6. CASE Cycle!Open(k) \/ Cycle!OpenRaises(k)
  <2>1. /\ orders' = orders \cup {plan[k]} /\ phase = "executing" /\ Cycle!Willing(plan[k])
        /\ holdings' = Cycle!Rowed(plan[k])
        /\ Cycle!Report(k, TRUE) \/ Cycle!Report(k, FALSE)
    BY <1>6 DEF Cycle!Open, Cycle!OpenRaises, Cycle!Ready
  <2>2. plan[k].symbol \in Watchlist /\ plan[k].action \notin Cycle!Idle
    BY <2>1 DEF Cycle!Willing
  <2>3. Cycle!SideOf(plan[k]) \in Cycle!Sides
    BY DEF Cycle!SideOf, Cycle!Sides
  <2>4. holdings' \in [Cycle!Symbols -> Cycle!Sides \cup {Cycle!None}]
    BY <1>3, <2>1, <2>3 DEF Cycle!Rowed
  <2> QED BY <2>1, <2>2, <2>4, ReportKeeps
<1> QED BY <1>1, <1>4, <1>5, <1>6

LEMMA RulesBegin ==
  ASSUME Cycle!CycleParameters, RulesInv, Cycle!Begin
  PROVE  RulesInv'
<1>1. /\ phase' = "asking" /\ results' = <<>> /\ orders' = {} /\ plan' = plan
      /\ UNCHANGED <<mode, enhanced, holdings, committed>> /\ rounds' = rounds + 1 /\ rounds < MaxRounds
      /\ answers' = [i \in Cycle!Models |-> Cycle!Pending]
  BY DEF Cycle!Begin, Cycle!fixed
<1>2. priced' \in SUBSET Watchlist
  BY DEF Cycle!Begin, Cycle!PricedBy
<1>3. PICK n \in Nat : Cycle!Models = 1 .. n
  BY DEF Cycle!Models, Cycle!CycleParameters
<1>4. answers' \in Seq(Responses) /\ DOMAIN answers' = Cycle!Models
  <2>1. Cycle!Pending \in Responses
    BY DEF Responses
  <2> QED BY <1>1, <1>3, <2>1
<1>5. Cycle!Models' = Cycle!Models
  BY <1>1 DEF Cycle!Models
<1>6. Cycle!TypeOK'
  <2>1. \A i \in DOMAIN answers' : answers'[i] \in Answers \cup {Cycle!Failed, Cycle!Pending}
    BY <1>4 DEF Responses
  <2>2. rounds' \in 0 .. MaxRounds
    BY <1>1 DEF RulesInv, Cycle!TypeOK, Cycle!CycleParameters
  <2> QED BY <1>1, <1>2, <2>1, <2>2 DEF RulesInv, Cycle!TypeOK
<1> QED BY <1>1, <1>4, <1>5, <1>6 DEF RulesInv

LEMMA RulesDecide ==
  ASSUME Cycle!CycleParameters, RulesInv, Cycle!Decide
  PROVE  RulesInv'
<1>1. /\ phase = "deciding" /\ phase' = "executing" /\ plan' = Cycle!Final
      /\ UNCHANGED <<mode, enhanced, priced, answers, holdings, committed, results, orders, rounds>>
  BY DEF Cycle!Decide, Cycle!fixed
<1>2. PICK list : list = Cycle!Final
  OBVIOUS
<1>3. /\ list \in Seq(Advice)
      /\ \A k \in DOMAIN list : Equipped(list[k]) /\ Backed(list[k])
  BY <1>1, <1>2, FinalIs DEF RulesInv, Cycle!TypeOK
<1>4. \A d : (Backed(d)' <=> Backed(d)) /\ (Equipped(d)' <=> Equipped(d))
  BY <1>1, SameDebate DEF Equipped
<1>5. (\A k \in DOMAIN plan : Equipped(plan[k]) /\ Backed(plan[k]))'
  <2>1. \A k \in DOMAIN list : Equipped(list[k])' /\ Backed(list[k])'
    BY <1>3, <1>4
  <2> QED BY <1>1, <1>2, <2>1 DEF Equipped, Backed
<1>6. orders = {}
  BY <1>1 DEF RulesInv
<1>7. Cycle!TypeOK' /\ Cycle!Models' = Cycle!Models
  BY <1>1 DEF RulesInv, Cycle!TypeOK, Cycle!Models
<1> QED BY <1>1, <1>2, <1>3, <1>5, <1>6, <1>7 DEF RulesInv

LEMMA RulesNext == Cycle!CycleParameters /\ RulesInv /\ [Cycle!Next]_cycleVars => RulesInv'
<1> SUFFICES ASSUME Cycle!CycleParameters, RulesInv, [Cycle!Next]_cycleVars
             PROVE  RulesInv'
  OBVIOUS
<1>1. CASE UNCHANGED cycleVars
  <2>1. UNCHANGED <<mode, enhanced, phase, priced, answers, plan, holdings, committed, results, orders, rounds>>
    BY <1>1 DEF cycleVars
  <2>2. \A d : (Backed(d)' <=> Backed(d)) /\ (Equipped(d)' <=> Equipped(d))
    BY <2>1, SameDebate DEF Equipped
  <2>3. phase = "executing" => (\A k \in DOMAIN plan : Equipped(plan[k]) /\ Backed(plan[k]))'
    <3>1. PICK list : list = plan
      OBVIOUS
    <3>2. phase = "executing" => \A k \in DOMAIN list : Equipped(list[k])' /\ Backed(list[k])'
      BY <2>2, <3>1 DEF RulesInv
    <3> QED BY <2>1, <3>1, <3>2 DEF Equipped, Backed
  <2>4. Cycle!TypeOK' /\ Cycle!Models' = Cycle!Models
    BY <2>1 DEF RulesInv, Cycle!TypeOK, Cycle!Models
  <2> QED BY <2>1, <2>2, <2>3, <2>4 DEF RulesInv
<1>2. CASE /\ phase' # "executing" /\ (phase' = "asking" \/ phase' = "deciding" => phase \in {"asking", "deciding"})
           /\ UNCHANGED <<mode, enhanced, priced, results, orders, rounds>>
           /\ phase' \in {"idle", "asking", "deciding", "saving"} /\ plan' \in {plan, <<>>}
           /\ {holdings', committed'} \subseteq {holdings, committed}
           /\ answers' \in Seq(Responses) /\ (phase' # "idle" => DOMAIN answers' = Cycle!Models)
  <2>1. \A d : Equipped(d)' <=> Equipped(d)
    BY <1>2 DEF Equipped
  <2>2. Cycle!Models' = Cycle!Models
    BY <1>2 DEF Cycle!Models
  <2>3. \A i \in DOMAIN answers' : answers'[i] \in Answers \cup {Cycle!Failed, Cycle!Pending}
    BY <1>2 DEF Responses
  <2>4. Cycle!TypeOK'
    BY <1>2, <2>3 DEF RulesInv, Cycle!TypeOK
  <2>5. plan' \in Seq(Advice)
    <3>1. <<>> \in Seq(Advice) /\ plan \in Seq(Advice)
      BY DEF RulesInv
    <3> QED BY <1>2, <3>1
  <2>6. phase' \in {"asking", "deciding"} => orders' = {}
    BY <1>2 DEF RulesInv
  <2>7. \A o \in orders' : Equipped(o)'
    BY <1>2, <2>1 DEF RulesInv
  <2> QED BY <1>2, <2>2, <2>4, <2>5, <2>6, <2>7 DEF RulesInv
<1>3. answers \in Seq(Responses) /\ <<>> \in Seq(Responses) /\ (phase # "idle" => DOMAIN answers = Cycle!Models)
  BY DEF RulesInv
<1>4. CASE Cycle!OutOfEquity \/ Cycle!AccountUnknown \/ Cycle!DatabaseFails
  BY <1>2, <1>3, <1>4
     DEF Cycle!OutOfEquity, Cycle!AccountUnknown, Cycle!DatabaseFails, Cycle!Save, Cycle!fixed
<1>5. CASE Cycle!Done \/ Cycle!SaveRecord
  BY <1>2, <1>3, <1>5 DEF Cycle!Done, Cycle!SaveRecord, Cycle!Save, Cycle!fixed
<1>6. ASSUME NEW i \in Cycle!Models, Cycle!AnswerArrives(i)
      PROVE  RulesInv'
  <2>1. PICK a \in Responses : answers' = [answers EXCEPT ![i] = a]
    BY <1>6 DEF Cycle!AnswerArrives, Responses
  <2>2. answers' \in Seq(Responses) /\ DOMAIN answers' = DOMAIN answers
    <3>1. phase = "asking"
      BY <1>6 DEF Cycle!AnswerArrives
    <3>2. PICK n \in Nat : answers \in [1 .. n -> Responses]
      BY <1>3
    <3>3. answers' \in [1 .. n -> Responses]
      BY <2>1, <3>2
    <3> QED BY <3>2, <3>3
  <2> QED BY <1>2, <1>3, <1>6, <2>2 DEF Cycle!AnswerArrives, Cycle!fixed
<1> QED BY <1>1, <1>4, <1>5, <1>6, RulesBegin, RulesDecide, RulesExecute DEF Cycle!Next

-----------------------------------------------------------------------------
(* ExchangeOrders: a call's market order is executed once at most.          *)

Steps == {"idle", "position", "price", "leverage", "order", "again", "stop", "target"}
Calls == [op : {"none", "open", "close"}, step : Steps, side : Trader!Sides, size : Nat,
          wants : SUBSET Trader!Kinds, tries : 0 .. MaxTries, fills : 0 .. 2]

(* Until its order has been executed a call has no execution behind it.     *)
FillsFit(c) == c.fills = IF c.step \in {"stop", "target"} THEN 1 ELSE 0

TraderInv == Trader!TypeOK /\ FillsFit(call)

LEMMA CallIs ==
  ASSUME TraderInv
  PROVE  call \in Calls /\ FillsFit(call)
BY DEF TraderInv, Trader!TypeOK, Calls, Steps

LEMMA TypedWith ==
  ASSUME TraderInv, call' \in Calls, FillsFit(call'), result' \in Trader!Results,
         net' \in -MaxNet .. MaxNet, resting' \subseteq [kind : Trader!Kinds, side : Trader!Sides],
         calls' \in 0 .. MaxCalls, foreign' \in 0 .. MaxForeign
  PROVE  TraderInv'
BY DEF TraderInv, Trader!TypeOK, Calls, Steps, FillsFit

LEMMA TraderFacts ==
  ASSUME TraderInv
  PROVE  /\ call \in Calls /\ FillsFit(call) /\ result \in Trader!Results
         /\ net \in -MaxNet .. MaxNet /\ resting \subseteq [kind : Trader!Kinds, side : Trader!Sides]
         /\ calls \in 0 .. MaxCalls /\ foreign \in 0 .. MaxForeign
BY CallIs DEF TraderInv, Trader!TypeOK

LEMMA TraderInit ==
  ASSUME Trader!OrderParameters, Trader!Init
  PROVE  TraderInv
BY DEF Trader!OrderParameters, Trader!Init, TraderInv, Trader!TypeOK, Trader!Idle, Trader!Sides,
       Trader!Kinds, Trader!Results, FillsFit

(* A call that ends, and one that goes on.                                  *)
LEMMA IdleCall ==
  ASSUME Trader!OrderParameters
  PROVE  Trader!Idle \in Calls /\ FillsFit(Trader!Idle)
BY DEF Trader!OrderParameters, Trader!Idle, Calls, Steps, FillsFit, Trader!Sides

LEMMA CallGoes ==
  ASSUME Trader!OrderParameters, TraderInv, NEW st \in Steps, NEW n \in 0 .. MaxTries
  PROVE  LET c == [call EXCEPT !.step = st, !.tries = n] IN
         c \in Calls /\ c.step = st /\ c.fills = call.fills
BY CallIs DEF Calls

LEMMA OpensKeep ==
  ASSUME Trader!OrderParameters, TraderInv, NEW side \in Trader!Sides, NEW n \in 1 .. MaxSize,
         NEW wants \in SUBSET Trader!Kinds, Trader!OpenPosition(side, n, wants)
  PROVE  TraderInv'
<1>1. call' = [op |-> "open", step |-> "price", side |-> side, size |-> n, wants |-> wants,
               tries |-> 0, fills |-> 0]
  BY DEF Trader!OpenPosition, Trader!Idle
<1>2. call' \in Calls /\ FillsFit(call')
  BY <1>1 DEF Calls, Steps, FillsFit, Trader!OrderParameters
<1> QED BY <1>2, TraderFacts, TypedWith DEF Trader!OpenPosition, Trader!OrderParameters

LEMMA CloseKeeps ==
  ASSUME Trader!OrderParameters, TraderInv, Trader!ClosePosition
  PROVE  TraderInv'
<1>1. call' = [op |-> "close", step |-> "position", side |-> "buy", size |-> 0, wants |-> {},
               tries |-> 0, fills |-> 0]
  BY DEF Trader!ClosePosition, Trader!Idle
<1>2. call' \in Calls /\ FillsFit(call')
  BY <1>1 DEF Calls, Steps, FillsFit, Trader!OrderParameters, Trader!Sides
<1> QED BY <1>2, TraderFacts, TypedWith DEF Trader!ClosePosition, Trader!OrderParameters

(* The questions of a call leave the exchange alone.                        *)
LEMMA QuestionsKeep ==
  ASSUME Trader!OrderParameters, TraderInv,
         \/ Trader!PositionRead \/ Trader!PositionFails \/ Trader!PriceRead \/ Trader!PriceFails
         \/ Trader!BelowMinimum \/ Trader!LeverageSet \/ Trader!LeverageRefused
         \/ Trader!OrderRejected \/ Trader!OrderUnexecuted \/ Trader!RateLimited
  PROVE  TraderInv'
<1> SUFFICES call' \in Calls /\ FillsFit(call') /\ result' \in Trader!Results
  BY TraderFacts, TypedWith
     DEF Trader!PositionRead, Trader!PositionFails, Trader!PriceRead, Trader!PriceFails,
         Trader!BelowMinimum, Trader!LeverageSet, Trader!LeverageRefused, Trader!OrderRejected,
         Trader!OrderUnexecuted, Trader!RateLimited, Trader!Asking
<1>1. call \in Calls /\ FillsFit(call) /\ result \in Trader!Results
  BY TraderFacts
<1>2. ASSUME NEW r \in Trader!Results, Trader!Return(r)
      PROVE  call' \in Calls /\ FillsFit(call') /\ result' \in Trader!Results
  BY <1>2, IdleCall DEF Trader!Return
<1>3. ASSUME NEW st \in Steps \ {"stop", "target"}, Trader!Goto(st), result' = result,
             call.step \notin {"stop", "target"}
      PROVE  call' \in Calls /\ FillsFit(call') /\ result' \in Trader!Results
  <2>1. 0 \in 0 .. MaxTries
    BY DEF Trader!OrderParameters
  <2> QED BY <1>1, <1>3, <2>1, CallGoes, ZenonT(60) DEF Trader!Goto, FillsFit
<1>4. CASE Trader!PositionRead
  <2>1. CASE net = 0
    BY <1>2, <1>4, <2>1 DEF Trader!PositionRead, Trader!Results
  <2>2. CASE net # 0
    <3>1. call' = [call EXCEPT !.step = "price", !.size = Trader!Abs(net),
                               !.side = IF net > 0 THEN "sell" ELSE "buy"]
          /\ result' = result /\ call.step = "position"
      BY <1>4, <2>2 DEF Trader!PositionRead, Trader!Asking
    <3>2. Trader!Abs(net) \in Nat
      BY TraderFacts DEF Trader!Abs, Trader!OrderParameters
    <3>3. "price" \in Steps /\ {"sell", "buy"} \subseteq Trader!Sides
      BY DEF Steps, Trader!Sides
    <3> QED BY <1>1, <3>1, <3>2, <3>3 DEF Calls, FillsFit
  <2> QED BY <2>1, <2>2
<1>5. CASE Trader!PriceRead
  <2>1. \/ Trader!Goto("leverage") \/ Trader!Goto("order")
    BY <1>5 DEF Trader!PriceRead
  <2> QED BY <1>3, <1>5, <2>1 DEF Trader!PriceRead, Trader!Asking, Steps
<1>6. CASE Trader!PriceFails
  <2>1. CASE call.tries + 1 < MaxTries
    <3>1. call' = [call EXCEPT !.tries = call.tries + 1] /\ result' = result
      BY <1>6, <2>1 DEF Trader!PriceFails
    <3>2. call.tries + 1 \in 0 .. MaxTries
      BY <1>1, <2>1 DEF Calls, Trader!OrderParameters
    <3> QED BY <1>1, <3>1, <3>2 DEF Calls, FillsFit
  <2>2. CASE ~(call.tries + 1 < MaxTries)
    <3>1. Trader!Return("raised") \/ Trader!Return("failed")
      BY <1>6, <2>2 DEF Trader!PriceFails
    <3> QED BY <1>2, <3>1 DEF Trader!Results
  <2> QED BY <2>1, <2>2
<1>7. CASE Trader!PositionFails \/ Trader!BelowMinimum \/ Trader!LeverageRefused \/ Trader!OrderRejected
           \/ Trader!OrderUnexecuted
  <2>1. Trader!Return("failed") \/ Trader!Return("raised") \/ Trader!Return("unfilled")
    BY <1>7 DEF Trader!PositionFails, Trader!BelowMinimum, Trader!LeverageRefused, Trader!OrderRejected,
          Trader!OrderUnexecuted
  <2> QED BY <1>2, <2>1 DEF Trader!Results
<1>8. CASE Trader!LeverageSet \/ Trader!RateLimited
  BY <1>3, <1>8 DEF Trader!LeverageSet, Trader!RateLimited, Trader!Asking, Steps
<1> QED BY <1>4, <1>5, <1>6, <1>7, <1>8

(* An order that is executed is the call's first, and the last step of the  *)
(* call but for its stops.                                                  *)
LEMMA ExecutionsKeep ==
  ASSUME Trader!OrderParameters, TraderInv, Trader!OrderFilled \/ Trader!AnswerLost
  PROVE  TraderInv'
<1>0. /\ call \in Calls /\ FillsFit(call) /\ result \in Trader!Results
      /\ net \in -MaxNet .. MaxNet
  BY TraderFacts
<1>1. net' \in -MaxNet .. MaxNet
  <2>1. Trader!Executes
    BY DEF Trader!OrderFilled, Trader!AnswerLost
  <2>2. Trader!Executable(call.side, call.size) \in Nat
    BY <1>0 DEF Trader!Executable, Trader!Abs, Calls, Trader!OrderParameters
  <2>3. Trader!Sign(call.side) \in {1, -1}
    BY DEF Trader!Sign
  <2>4. PICK moved \in Int : net' = moved /\ Trader!Abs(moved) <= MaxNet
    <3> DEFINE moved == net + Trader!Sign(call.side) * Trader!Executable(call.side, call.size)
    <3>1. moved \in Int
      BY <1>0, <2>2, <2>3 DEF Trader!OrderParameters
    <3> QED BY <2>1, <3>1 DEF Trader!Executes
  <2> QED BY <2>4 DEF Trader!Abs, Trader!OrderParameters
<1> SUFFICES call' \in Calls /\ FillsFit(call') /\ result' \in Trader!Results
  BY <1>1, TraderFacts, TypedWith DEF Trader!OrderFilled, Trader!AnswerLost
<1>2. ASSUME NEW r \in Trader!Results, Trader!Return(r)
      PROVE  call' \in Calls /\ FillsFit(call') /\ result' \in Trader!Results
  BY <1>2, IdleCall DEF Trader!Return
<1>3. CASE call' = [call EXCEPT !.step = "stop", !.fills = call.fills + 1] /\ result' = result
  <2>1. call.fills = 0
    BY <1>0 DEF FillsFit, Trader!OrderFilled, Trader!AnswerLost
  <2>2. 1 \in 0 .. 2 /\ "stop" \in Steps
    BY DEF Steps
  <2>3. call' = [call EXCEPT !.step = "stop", !.fills = 1]
    BY <1>3, <2>1
  <2> QED BY <1>0, <1>3, <2>2, <2>3 DEF Calls, FillsFit
<1>4. \/ Trader!Return("unfilled") \/ Trader!Return("filled") \/ Trader!Return("failed")
      \/ call' = [call EXCEPT !.step = "stop", !.fills = call.fills + 1] /\ result' = result
  BY DEF Trader!OrderFilled, Trader!AnswerLost, Trader!AfterLostAnswer
<1> QED BY <1>2, <1>3, <1>4 DEF Trader!Results

LEMMA StopsKeep ==
  ASSUME Trader!OrderParameters, TraderInv, Trader!PlaceStopLoss \/ Trader!PlaceTakeProfit
  PROVE  TraderInv'
<1>0. /\ call \in Calls /\ FillsFit(call) /\ result \in Trader!Results
      /\ resting \subseteq [kind : Trader!Kinds, side : Trader!Sides]
  BY TraderFacts
<1>1. resting' \subseteq [kind : Trader!Kinds, side : Trader!Sides]
  BY <1>0 DEF Trader!PlaceStopLoss, Trader!PlaceTakeProfit, Trader!Protect, Trader!Placed,
              Trader!Other, Trader!Sides, Trader!Kinds
<1> SUFFICES call' \in Calls /\ FillsFit(call') /\ result' \in Trader!Results
  BY <1>1, TraderFacts, TypedWith DEF Trader!PlaceStopLoss, Trader!PlaceTakeProfit, Trader!Protect
<1>2. CASE Trader!PlaceStopLoss
  <2>1. 0 \in 0 .. MaxTries /\ "target" \in Steps
    BY DEF Trader!OrderParameters, Steps
  <2>2. /\ call.step = "stop" /\ result' = result
        /\ call' = [call EXCEPT !.step = "target", !.tries = 0]
    BY <1>2 DEF Trader!PlaceStopLoss, Trader!Protect, Trader!Goto
  <2> QED BY <1>0, <2>1, <2>2, CallGoes DEF FillsFit
<1>3. CASE Trader!PlaceTakeProfit
  BY <1>3, IdleCall DEF Trader!PlaceTakeProfit, Trader!Protect, Trader!Return, Trader!Results
<1> QED BY <1>2, <1>3

LEMMA ExchangeKeeps ==
  ASSUME Trader!OrderParameters, TraderInv,
         \/ \E side \in Trader!Sides, n \in 1 .. MaxSize : Trader!Foreign(side, n)
         \/ \E r \in resting : Trader!Fires(r) \/ Trader!Cancels(r)
  PROVE  TraderInv'
<1> USE DEF TraderInv, Trader!TypeOK, FillsFit
<1>1. CASE \E r \in resting : Trader!Fires(r) \/ Trader!Cancels(r)
  BY <1>1 DEF Trader!Fires, Trader!Cancels, Trader!OrderParameters
<1>2. ASSUME NEW side \in Trader!Sides, NEW n \in 1 .. MaxSize, Trader!Foreign(side, n)
      PROVE  TraderInv'
  BY <1>2 DEF Trader!Foreign, Trader!Abs, Trader!Sign, Trader!OrderParameters
<1> QED BY <1>1, <1>2

LEMMA TraderNext == Trader!OrderParameters /\ TraderInv /\ [Trader!Next]_traderVars => TraderInv'
<1> SUFFICES ASSUME Trader!OrderParameters, TraderInv, [Trader!Next]_traderVars
             PROVE  TraderInv'
  OBVIOUS
<1>1. CASE UNCHANGED traderVars
  BY <1>1 DEF traderVars, TraderInv, Trader!TypeOK, FillsFit
<1>2. CASE Trader!Next
  BY <1>2, OpensKeep, CloseKeeps, QuestionsKeep, ExecutionsKeep, StopsKeep, ExchangeKeeps DEF Trader!Next
<1> QED BY <1>1, <1>2

-----------------------------------------------------------------------------
(* Backtest: what a finished run reports was computed from its own past.    *)

\* A position without a side is no position.
Owned == {p \in Backtest!Positions : p.side = "none" => p = Backtest!Flat}
Funds == [balance : Int, pos : [Coins -> Owned]]
Exited == [symbol : Coins, side : Backtest!Sides, pnl : Int]
Runs == [acct : Funds, price : [Coins -> Candles \cup {0}], trades : Seq(Exited), curve : Seq(Int),
         peak : Int, worst : [fall : Int, peak : Int], candles : Nat]

Earned(trades) == Backtest!Gains(trades, DOMAIN trades)

\* The trades explain the whole change of the balance.
Explaining(r) == r.acct.balance - Stake = Earned(r.trades)

\* The same but for the account and the trades.
Alters(r, c) == c.price = r.price /\ c.curve = r.curve /\ c.peak = r.peak /\ c.worst = r.worst
                /\ c.candles = r.candles

LEMMA SameBacktest ==
  /\ \A f, S : Backtest!Total(f, S) = Total(f, S)
  /\ \A S : Backtest!IsFiniteSet(S) <=> IsFiniteSet(S)
  /\ \A S : Backtest!Cardinality(S) = Cardinality(S)
<1>1. \A f, S : Backtest!Total(f, S) = Total(f, S)
  BY DEF Backtest!Total, Total
<1>2. \A S : Backtest!IsFiniteSet(S) <=> IsFiniteSet(S)
  BY DEF Backtest!IsFiniteSet, IsFiniteSet
<1>3. \A S : Backtest!Cardinality(S) = Cardinality(S)
  BY DEF Backtest!Cardinality, Cardinality, Backtest!IsFiniteSet, IsFiniteSet
<1> QED BY <1>1, <1>2, <1>3

(* What trades have gained, when more are added.                            *)
LEMMA EarnedIs ==
  ASSUME NEW t \in Seq(Exited)
  PROVE  /\ Earned(t) \in Int /\ Earned(<<>>) = 0
         /\ \A S \in SUBSET DOMAIN t : IsFiniteSet(S) /\ Backtest!Gains(t, S) \in Int
<1>1. DOMAIN t = 1 .. Len(t) /\ Len(t) \in Nat /\ IsFiniteSet(DOMAIN t)
  <2>1. DOMAIN t = 1 .. Len(t) /\ Len(t) \in Nat
    OBVIOUS
  <2> QED BY <2>1, FS_Interval
<1> DEFINE f == [k \in DOMAIN t |-> t[k].pnl]
<1>2. \A k \in DOMAIN t : f[k] \in Int
  <2>1. \A k \in DOMAIN t : t[k] \in Exited
    BY <1>1
  <2> QED BY <2>1 DEF Exited
<1>3. ASSUME NEW S \in SUBSET DOMAIN t PROVE IsFiniteSet(S) /\ Backtest!Gains(t, S) \in Int
  <2>1. IsFiniteSet(S)
    BY <1>1, FS_Subset
  <2>2. \A k \in S : f[k] \in Int
    BY <1>2
  <2> HIDE DEF f
  <2>3. Total(f, S) \in Int
    BY <2>1, <2>2, SumIsInt
  <2> QED BY <2>1, <2>3, SameBacktest DEF Backtest!Gains, f
<1>4. Earned(<<>>) = 0
  <2>1. DOMAIN <<>> = {}
    OBVIOUS
  <2> QED BY <2>1, SumOfNone, SameBacktest DEF Earned, Backtest!Gains
<1> QED BY <1>3, <1>4 DEF Earned

LEMMA MoreEarned ==
  ASSUME NEW t \in Seq(Exited), NEW u \in Seq(Exited)
  PROVE  t \o u \in Seq(Exited) /\ Earned(t \o u) = Earned(t) + Earned(u)
<1>1. PICK m \in Nat : m = Len(t) /\ DOMAIN t = 1 .. m
  OBVIOUS
<1>2. PICK n \in Nat : n = Len(u) /\ DOMAIN u = 1 .. n
  OBVIOUS
<1>3. PICK w \in Seq(Exited) : w = t \o u
  BY ConcatProperties
<1>4. /\ DOMAIN w = 1 .. (m + n)
      /\ \A i \in 1 .. m : w[i] = t[i]
      /\ \A i \in 1 .. n : w[m + i] = u[i]
  BY <1>1, <1>2, <1>3
<1>14. PICK S, T : S = 1 .. m /\ T = (m + 1) .. (m + n)
  OBVIOUS
<1>5. PICK f : f = [k \in DOMAIN w |-> w[k].pnl]
  OBVIOUS
<1>6. PICK g : g = [k \in DOMAIN t |-> t[k].pnl]
  OBVIOUS
<1>7. PICK h : h = [k \in DOMAIN u |-> u[k].pnl]
  OBVIOUS
<1>8. /\ Earned(w) = Total(f, DOMAIN w) /\ Earned(t) = Total(g, S) /\ Earned(u) = Total(h, 1 .. n)
  BY <1>1, <1>2, <1>5, <1>6, <1>7, <1>14, SameBacktest DEF Earned, Backtest!Gains
<1>9. DOMAIN w = S \cup T /\ S \cap T = {} /\ IsFiniteSet(S) /\ IsFiniteSet(T)
  <2>1. DOMAIN w = S \cup T /\ S \cap T = {}
    BY <1>4, <1>14
  <2>2. m + 1 \in Int /\ m + n \in Int
    OBVIOUS
  <2> QED BY <1>14, <2>1, <2>2, FS_Interval
<1>10. \A k \in S \cup T : f[k] \in Int
  <2>1. \A k \in DOMAIN w : w[k] \in Exited
    BY <1>3
  <2> QED BY <1>5, <1>9, <2>1 DEF Exited
<1>11. Total(f, S) = Total(g, S)
  <2>1. \A k \in S : f[k] = g[k]
    BY <1>1, <1>4, <1>5, <1>6, <1>9, <1>14
  <2> QED BY <1>9, <2>1, SumAgrees
<1>12. Total(h, 1 .. n) = Total(f, T)
  <2>1. PICK b : b = [i \in 1 .. n |-> m + i]
    OBVIOUS
  <2>2. b \in [1 .. n -> T] /\ IsFiniteSet(1 .. n)
    BY <1>14, <2>1, FS_Interval
  <2>3. \A i, j \in 1 .. n : b[i] = b[j] => i = j
    BY <2>1
  <2>4. \A z \in T : \E i \in 1 .. n : b[i] = z
    <3> TAKE z \in T
    <3>1. z - m \in 1 .. n /\ b[z - m] = z
      BY <1>14, <2>1
    <3> QED BY <3>1
  <2>5. \A i \in 1 .. n : h[i] = f[b[i]]
    <3> TAKE i \in 1 .. n
    <3>1. m + i \in DOMAIN w /\ b[i] = m + i
      BY <1>4, <2>1
    <3> QED BY <1>2, <1>4, <1>5, <1>7, <3>1
  <2>6. \A z \in T : f[z] \in Int
    BY <1>10
  <2>7. PICK R : R = 1 .. n
    OBVIOUS
  <2>8. /\ b \in [R -> T] /\ IsFiniteSet(R)
        /\ \A i, j \in R : b[i] = b[j] => i = j
        /\ \A z \in T : \E i \in R : b[i] = z
        /\ \A i \in R : h[i] = f[b[i]]
    BY <2>2, <2>3, <2>4, <2>5, <2>7
  <2>9. Total(h, R) = Total(f, T)
    BY <1>9, <2>6, <2>8, SumRenames
  <2> QED BY <2>7, <2>9
<1>13. Total(f, S \cup T) = Total(f, S) + Total(f, T)
  BY <1>9, <1>10, SumJoins
<1> QED BY <1>3, <1>8, <1>9, <1>11, <1>12, <1>13

(* The finitely many symbols of a set, in some order.                       *)
LEMMA SymbolOrderIs ==
  ASSUME NEW S, IsFiniteSet(S), NEW list, list = Backtest!SetToSeq(S)
  PROVE  /\ Cardinality(S) \in Nat /\ list \in [1 .. Cardinality(S) -> S] /\ list \in Seq(S)
         /\ \A i, j \in DOMAIN list : list[i] = list[j] => i = j
         /\ \A s \in S : \E i \in DOMAIN list : list[i] = s
<1>1. PICK n \in Nat : n = Cardinality(S) /\ Backtest!Cardinality(S) = n
  BY SameBacktest, FS_CardinalityType
<1>2. PICK f : f \in [1 .. n -> S] /\ Backtest!IsInjective(f)
  BY <1>1, FS_CardinalityType DEF ExistsBijection, Bijection, Injection, IsInjective, Backtest!IsInjective
<1>3. list \in [1 .. n -> S] /\ Backtest!IsInjective(list)
  BY <1>1, <1>2 DEF Backtest!SetToSeq
<1>4. list \in Injection(1 .. n, S)
  BY <1>3 DEF Injection, IsInjective, Backtest!IsInjective
<1>5. Cardinality(1 .. n) = n
  BY FS_Interval
<1>6. list \in Surjection(1 .. n, S)
  BY <1>1, <1>4, <1>5, FS_Injection
<1> QED BY <1>1, <1>3, <1>6 DEF Backtest!IsInjective, Surjection

LEMMA GainIs ==
  ASSUME NEW p \in Owned, NEW x \in Int
  PROVE  Backtest!Pnl(p, x) \in Int
<1>1. PICK n \in Nat, c \in Nat : p.size = n /\ p.cost = c
  BY DEF Owned, Backtest!Positions
<1>2. x * n - c \in Int /\ c - x * n \in Int
  OBVIOUS
<1> QED BY <1>1, <1>2 DEF Backtest!Pnl

(* Closing positions moves what they have gained into the balance, and      *)
(* books one trade each.                                                    *)
LEMMA ClosedAre ==
  ASSUME Backtest!SimulatorParameters, NEW r \in Runs, NEW S \in SUBSET Coins,
         \A s \in S : r.acct.pos[s].side \in Backtest!Sides,
         NEW fill, \A s \in S : fill[s] \in Int,
         NEW c, c = Backtest!Closed(r, S, fill)
  PROVE  /\ c \in Runs /\ Alters(r, c) /\ (Explaining(r) => Explaining(c))
         /\ c.acct.pos = [s \in Coins |-> IF s \in S THEN Backtest!Flat ELSE r.acct.pos[s]]
         /\ (S = {} => c = r)
<1>1. IsFiniteSet(S)
  BY FS_Subset, SameBacktest DEF Backtest!SimulatorParameters
<1>2. PICK list : list = Backtest!SetToSeq(S)
  OBVIOUS
<1>3. PICK n \in Nat : /\ n = Cardinality(S) /\ list \in [1 .. n -> S]
                       /\ \A i, j \in 1 .. n : list[i] = list[j] => i = j
                       /\ \A s \in S : \E i \in 1 .. n : list[i] = s
  BY <1>1, <1>2, SymbolOrderIs
<1>4. PICK pos, balance, trades : /\ pos \in [Coins -> Owned] /\ balance \in Int /\ trades \in Seq(Exited)
                                  /\ r.acct = [balance |-> balance, pos |-> pos] /\ r.trades = trades
  BY DEF Runs, Funds
<1>5. PICK gains : gains = [s \in S |-> Backtest!Pnl(pos[s], fill[s])]
  OBVIOUS
<1>6. \A s \in S : gains[s] \in Int
  BY <1>4, <1>5, GainIs
<1>7. PICK gain \in Int : gain = Total(gains, S)
  BY <1>1, <1>6, SumIsInt
<1>8. PICK flat : flat = [s \in Coins |-> IF s \in S THEN Backtest!Flat ELSE pos[s]]
  OBVIOUS
<1>9. flat \in [Coins -> Owned]
  BY <1>4, <1>8 DEF Owned, Backtest!Positions, Backtest!Flat, Backtest!Sides
<1>10. PICK ended : ended = [k \in DOMAIN list |-> Backtest!Trade(pos[list[k]], list[k], fill[list[k]])]
  OBVIOUS
<1>11. /\ DOMAIN ended = 1 .. n
       /\ \A k \in 1 .. n : ended[k] \in Exited /\ ended[k].pnl = gains[list[k]]
  <2> SUFFICES ASSUME NEW k \in 1 .. n PROVE ended[k] \in Exited /\ ended[k].pnl = gains[list[k]]
    BY <1>3, <1>10
  <2>1. PICK s \in S : s = list[k]
    BY <1>3
  <2>2. ended[k] = [symbol |-> s, side |-> pos[s].side, pnl |-> gains[s]]
    BY <1>3, <1>5, <1>10, <2>1 DEF Backtest!Trade
  <2>3. s \in Coins /\ pos[s].side \in Backtest!Sides /\ gains[s] \in Int
    BY <1>4, <1>6
  <2> QED BY <2>1, <2>2, <2>3 DEF Exited
<1>12. ended \in Seq(Exited)
  <2>1. ended \in [1 .. n -> Exited]
    BY <1>10, <1>11
  <2> QED BY <2>1
<1>13. Earned(ended) = gain
  <2>1. PICK f : f = [k \in DOMAIN ended |-> ended[k].pnl]
    OBVIOUS
  <2>2. Earned(ended) = Total(f, 1 .. n)
    BY <1>11, <2>1, SameBacktest DEF Earned, Backtest!Gains
  <2>3. \A k \in 1 .. n : f[k] = gains[list[k]]
    BY <1>11, <2>1
  <2>4. IsFiniteSet(1 .. n)
    BY FS_Interval
  <2>5. Total(f, 1 .. n) = Total(gains, S)
    BY <1>1, <1>3, <1>6, <2>3, <2>4, SumRenames
  <2> QED BY <1>7, <2>2, <2>5
<1>14. c = [r EXCEPT !.acct = [balance |-> balance + gain, pos |-> flat], !.trades = trades \o ended]
  <2>1. Backtest!Total([s \in S |-> Backtest!Pnl(r.acct.pos[s], fill[s])], S) = gain
    BY <1>4, <1>5, <1>7, SameBacktest
  <2>2. c = [r EXCEPT !.acct = [balance |-> r.acct.balance
                                   + Backtest!Total([s \in S |-> Backtest!Pnl(r.acct.pos[s], fill[s])], S),
                              pos |-> [s \in Coins |-> IF s \in S THEN Backtest!Flat ELSE r.acct.pos[s]]],
                      !.trades = r.trades \o
                          [k \in DOMAIN list |-> Backtest!Trade(r.acct.pos[list[k]], list[k], fill[list[k]])]]
    BY <1>2, Zenon DEF Backtest!Closed
  <2>3. r.acct.pos = pos /\ r.acct.balance = balance
    BY <1>4
  <2> QED BY <1>4, <1>8, <1>10, <2>1, <2>2, <2>3, Zenon
<1>15. PICK more \in Seq(Exited) : more = trades \o ended /\ Earned(more) = Earned(trades) + gain
  BY <1>4, <1>12, <1>13, MoreEarned
<1>16. PICK after \in Funds : after = [balance |-> balance + gain, pos |-> flat]
  <2>1. balance + gain \in Int
    BY <1>4, <1>7
  <2> QED BY <1>9, <2>1 DEF Funds
<1>17. c = [r EXCEPT !.acct = after, !.trades = more]
  BY <1>14, <1>15, <1>16
<1>18. c \in Runs /\ c.acct = after /\ c.trades = more /\ Alters(r, c)
  BY <1>17 DEF Runs, Alters
<1>19. Explaining(r) => Explaining(c)
  <2>1. Earned(trades) \in Int
    BY <1>4, EarnedIs
  <2>2. r.acct.balance = balance /\ c.acct.balance = balance + gain /\ Stake \in Int
    BY <1>4, <1>16, <1>18 DEF Backtest!SimulatorParameters
  <2>3. Earned(c.trades) = Earned(trades) + gain
    BY <1>15, <1>18
  <2> QED BY <1>4, <1>7, <2>1, <2>2, <2>3 DEF Explaining
<1>20. c.acct.pos = [s \in Coins |-> IF s \in S THEN Backtest!Flat ELSE r.acct.pos[s]]
  BY <1>4, <1>8, <1>16, <1>18
<1>21. ASSUME S = {} PROVE c = r
  <2>1. n = 0 /\ gain = 0 /\ flat = pos
    BY <1>3, <1>4, <1>7, <1>8, <1>21, FS_EmptySet, SumOfNone
  <2>2. ended = <<>>
    BY <1>10, <1>11, <1>12, <2>1
  <2>3. more = trades /\ after = r.acct
    BY <1>4, <1>15, <1>16, <2>1, <2>2
  <2> QED BY <1>4, <1>17, <2>3 DEF Runs
<1> QED BY <1>18, <1>19, <1>20, <1>21

-----------------------------------------------------------------------------
(* Backtest: orders of the simulated account, and their trades.             *)

LEMMA QuotientIs ==
  /\ \A a \in Nat, b \in Nat \ {0} : a \div b \in Nat
  /\ \A a \in Int, b \in Nat \ {0} : a \div b \in Int
OBVIOUS

LEMMA OwnedIs ==
  /\ Backtest!Flat \in Owned /\ Backtest!Flat.side = "none" /\ Backtest!Flat.cost = 0
  /\ \A p \in Owned : /\ p.side \in Backtest!Sides \/ p = Backtest!Flat
                      /\ p.size \in Nat /\ p.cost \in Nat /\ p.sl \in Nat /\ p.tp \in Nat
<1>1. Backtest!Flat \in Owned /\ Backtest!Flat.side = "none" /\ Backtest!Flat.cost = 0
  BY DEF Owned, Backtest!Positions, Backtest!Flat
<1> QED BY <1>1 DEF Owned, Backtest!Positions

\* The account a, with the position p for the symbol s.
Holding(a, s, p) == [balance |-> a.balance, pos |-> [a.pos EXCEPT ![s] = p]]

LEMMA HoldingIs ==
  ASSUME NEW a \in Funds, NEW s \in Coins, NEW p \in Owned
  PROVE  /\ [a EXCEPT !.pos[s] = p] = Holding(a, s, p)
         /\ Holding(a, s, p) \in Funds
         /\ Holding(a, s, p).pos[s] = p /\ Holding(a, s, p).balance = a.balance
         /\ \A q \in Owned : Holding(Holding(a, s, p), s, q) = Holding(a, s, q)
<1>1. PICK x \in Int, pos \in [Coins -> Owned] : a = [balance |-> x, pos |-> pos]
  BY DEF Funds
<1>2. [a EXCEPT !.pos[s] = p] = Holding(a, s, p)
  BY <1>1 DEF Holding
<1>3. Holding(a, s, p) = [balance |-> x, pos |-> [pos EXCEPT ![s] = p]]
  BY <1>1 DEF Holding
<1>4. [pos EXCEPT ![s] = p] \in [Coins -> Owned]
  OBVIOUS
<1>5. \A q \in Owned : Holding(Holding(a, s, p), s, q) = Holding(a, s, q)
  BY <1>1, <1>3 DEF Holding
<1> QED BY <1>1, <1>2, <1>3, <1>4, <1>5 DEF Funds

(* Where a stop and a target are put, the side and the size stay.           *)
LEMMA StopsAre ==
  ASSUME NEW a \in Funds, NEW s \in Coins, a.pos[s].side \in Backtest!Sides, NEW stops,
         stops.sl \in Nat, stops.tp \in Nat
  PROVE  \E p \in Owned : /\ Backtest!WithStops(a, s, stops) = Holding(a, s, p)
                          /\ p.side = a.pos[s].side
<1>1. PICK x \in Int, pos \in [Coins -> Owned] : a = [balance |-> x, pos |-> pos]
  BY DEF Funds
<1>2. PICK q \in Owned : q = pos[s] /\ q = a.pos[s]
  BY <1>1
<1>3. PICK l, m \in Nat : /\ l = IF stops.sl > 0 THEN stops.sl ELSE q.sl
                          /\ m = IF stops.tp > 0 THEN stops.tp ELSE q.tp
  BY OwnedIs
<1>4. PICK p : p = [q EXCEPT !.sl = l, !.tp = m]
  OBVIOUS
<1>5. p \in Owned /\ p.side = q.side
  <2>1. q \in Backtest!Positions /\ q.side # "none"
    BY <1>2, OwnedIs DEF Owned, Backtest!Sides
  <2>2. p \in Backtest!Positions /\ p.side = q.side
    BY <1>4, <2>1 DEF Backtest!Positions
  <2> QED BY <2>1, <2>2 DEF Owned
<1>6. Backtest!WithStops(a, s, stops) = [a EXCEPT !.pos[s] = p]
  BY <1>1, <1>2, <1>3, <1>4, ZenonT(60) DEF Backtest!WithStops, Owned, Backtest!Positions
<1> QED BY <1>2, <1>5, <1>6, HoldingIs

(* An order: what it closes on the other side, and the position it leaves.  *)
LEMMA OrderLeaves ==
  ASSUME NEW a \in Funds, NEW s \in Coins, NEW side \in Backtest!Sides, NEW n \in Nat, NEW x,
         NEW fill \in Nat, fill = Backtest!Fill(side, x),
         NEW o, o = Backtest!Order(a, s, side, n, x)
  PROVE  \E base \in Funds :
            /\ \/ base = a /\ a.pos[s].side # Backtest!Opposite(side)
               \/ /\ a.pos[s].side = Backtest!Opposite(side)
                  /\ base = [balance |-> a.balance + Backtest!Pnl(a.pos[s], fill),
                             pos |-> [a.pos EXCEPT ![s] = Backtest!Flat]]
            /\ \/ ~o.success /\ o.account = base
               \/ /\ o.success
                  /\ \E p \in Owned : p.side = side /\ o.account = Holding(base, s, p)
<1>1. PICK x0 \in Int, pos \in [Coins -> Owned] : a = [balance |-> x0, pos |-> pos]
  BY DEF Funds
<1>2. PICK h \in Owned : h = pos[s] /\ h = a.pos[s]
  BY <1>1
<1>3. side # Backtest!Opposite(side) /\ side # "none" /\ Backtest!Opposite(side) # "none"
      /\ Backtest!Opposite(side) \in Backtest!Sides
  BY DEF Backtest!Sides, Backtest!Opposite
<1>4. n * fill \in Nat
  OBVIOUS
<1>5. PICK cost \in Nat : cost = n * fill
  BY <1>4
<1>6. PICK new : new = [side |-> side, size |-> n, cost |-> cost, sl |-> 0, tp |-> 0]
  OBVIOUS
<1>7. new \in Owned /\ new.side = side
  BY <1>3, <1>6 DEF Owned, Backtest!Positions
<1>8. [Backtest!Flat EXCEPT !.side = side, !.size = n, !.cost = n * fill] = new
  <2>1. PICK p : p = [Backtest!Flat EXCEPT !.side = side, !.size = n, !.cost = cost]
    OBVIOUS
  <2>2. p = [side |-> side, size |-> n, cost |-> cost, sl |-> 0, tp |-> 0]
    BY <2>1 DEF Backtest!Flat
  <2> QED BY <1>5, <1>6, <2>1, <2>2
<1>9. CASE h.side = side
  <2>1. PICK m, k \in Nat : m = h.size + n /\ k = h.cost + n * fill
    BY <1>4, OwnedIs
  <2>2. PICK q : q = [h EXCEPT !.size = m, !.cost = k]
    OBVIOUS
  <2>3. q = Backtest!Increased(h, n, fill)
    BY <2>1, <2>2 DEF Backtest!Increased
  <2>4. q \in Owned /\ q.side = side
    BY <1>3, <1>9, <2>2 DEF Owned, Backtest!Positions
  <2>5. o = [success |-> TRUE, account |-> [a EXCEPT !.pos[s] = q]]
    BY <1>2, <1>3, <1>9, <2>3 DEF Backtest!Order
  <2>6. o.success /\ o.account = Holding(a, s, q)
    BY <2>4, <2>5, HoldingIs
  <2> QED BY <1>2, <1>3, <1>9, <2>4, <2>6
<1>10. CASE h.side # side
  <2>1. PICK base : base = IF h.side = Backtest!Opposite(side) THEN Backtest!ClosedAt(a, s, fill) ELSE a
    OBVIOUS
  <2>2. Backtest!ClosedAt(a, s, fill) = [balance |-> a.balance + Backtest!Pnl(a.pos[s], fill),
                                         pos |-> [a.pos EXCEPT ![s] = Backtest!Flat]]
    BY DEF Backtest!ClosedAt
  <2>3. Backtest!ClosedAt(a, s, fill) \in Funds
    <3>1. x0 + Backtest!Pnl(h, fill) \in Int
      BY GainIs
    <3>2. [pos EXCEPT ![s] = Backtest!Flat] \in [Coins -> Owned]
      BY OwnedIs
    <3> QED BY <1>1, <1>2, <2>2, <3>1, <3>2 DEF Funds
  <2>4. base \in Funds
    BY <2>1, <2>3
  <2>5. o = IF n * fill > Leverage * base.balance THEN [success |-> FALSE, account |-> base]
            ELSE [success |-> TRUE, account |-> [base EXCEPT !.pos[s] = new]]
    BY <1>2, <1>8, <1>10, <2>1 DEF Backtest!Order
  <2>6. [base EXCEPT !.pos[s] = new] = Holding(base, s, new)
    BY <1>7, <2>4, HoldingIs
  <2>7. \/ ~o.success /\ o.account = base
        \/ o.success /\ o.account = Holding(base, s, new)
    BY <2>5, <2>6
  <2> QED BY <1>2, <1>7, <2>1, <2>2, <2>4, <2>7
<1> QED BY <1>9, <1>10

LEMMA FillsAre ==
  ASSUME Backtest!SimulatorParameters, NEW x \in Candles, NEW side
  PROVE  x \in Nat \ {0} /\ Backtest!Fill(side, x) \in Nat
BY DEF Backtest!SimulatorParameters, Backtest!Fill

LEMMA OneEarned ==
  ASSUME NEW t \in Seq(Exited), NEW e \in Exited
  PROVE  Append(t, e) \in Seq(Exited) /\ Earned(Append(t, e)) = Earned(t) + e.pnl
<1>1. PICK u : u = <<e>>
  OBVIOUS
<1>2. u \in Seq(Exited) /\ DOMAIN u = {1} /\ u[1] = e /\ t \o u = Append(t, e)
  BY <1>1
<1>3. Earned(t \o u) = Earned(t) + Earned(u)
  BY <1>2, MoreEarned
<1>4. e.pnl \in Int
  BY DEF Exited
<1>5. Earned(u) = e.pnl
  <2>1. PICK f : f = [k \in DOMAIN u |-> u[k].pnl]
    OBVIOUS
  <2>2. Earned(u) = Total(f, {1})
    BY <1>2, <2>1, SameBacktest DEF Earned, Backtest!Gains
  <2>3. f[1] = e.pnl
    BY <1>2, <2>1
  <2>4. IsFiniteSet({1}) /\ \A k \in {1} : f[k] \in Int
    BY <1>4, <2>3, FS_Singleton
  <2>5. Total(f, {1}) = f[1] + Total(f, {1} \ {1})
    BY <2>4, SumSplits
  <2>6. Total(f, {1} \ {1}) = 0
    <3>1. {1} \ {1} = {}
      OBVIOUS
    <3> QED BY <3>1, SumOfNone
  <2>7. Earned(u) = e.pnl + 0
    BY <2>2, <2>3, <2>5, <2>6
  <2> QED BY <1>4, <2>7
<1> QED BY <1>2, <1>3, <1>5

(* Orders that open, on a symbol that has a price, close what is held on    *)
(* the other side and book it as one trade, and leave the rest.             *)
LEMMA OpensIs ==
  ASSUME Backtest!SimulatorParameters, NEW r \in Runs, NEW s \in Coins, NEW side \in Backtest!Sides,
         NEW notional \in Nat, NEW stops, stops.sl \in Nat, stops.tp \in Nat,
         NEW c, c = Backtest!Open(r, s, side, notional, stops)
  PROVE  c \in Runs /\ Alters(r, c) /\ (Explaining(r) => Explaining(c))
<1>1. CASE r.price[s] = 0
  BY <1>1 DEF Backtest!Open, Alters
<1>2. CASE r.price[s] # 0
  <2>1. PICK x \in Candles : x = r.price[s]
    BY <1>2 DEF Runs
  <2>2. x \in Nat \ {0} /\ Backtest!Fill(side, x) \in Nat
    BY FillsAre
  <2>3. PICK n \in Nat : n = notional \div x
    BY <2>2, QuotientIs
  <2>4. PICK fill \in Nat : fill = Backtest!Fill(side, x)
    BY <2>2
  <2>5. PICK a \in Funds, t \in Seq(Exited) : a = r.acct /\ t = r.trades
    BY DEF Runs
  <2>6. PICK o : o = Backtest!Order(a, s, side, n, x)
    OBVIOUS
  <2>7. PICK base \in Funds :
            /\ \/ base = a /\ a.pos[s].side # Backtest!Opposite(side)
               \/ /\ a.pos[s].side = Backtest!Opposite(side)
                  /\ base = [balance |-> a.balance + Backtest!Pnl(a.pos[s], fill),
                             pos |-> [a.pos EXCEPT ![s] = Backtest!Flat]]
            /\ \/ ~o.success /\ o.account = base
               \/ /\ o.success
                  /\ \E p \in Owned : p.side = side /\ o.account = Holding(base, s, p)
    BY <2>4, <2>6, OrderLeaves
  <2>8. PICK left : left = IF o.success THEN Backtest!WithStops(o.account, s, stops) ELSE o.account
    OBVIOUS
  <2>9. left \in Funds /\ left.balance = base.balance
    <3>1. CASE ~o.success
      BY <2>7, <2>8, <3>1
    <3>2. CASE o.success
      <4>1. PICK p \in Owned : p.side = side /\ o.account = Holding(base, s, p)
        BY <2>7, <3>2
      <4>2. PICK y \in Funds : /\ y = o.account /\ y = Holding(base, s, p)
                               /\ y.pos[s] = p /\ y.balance = base.balance
        BY <4>1, HoldingIs
      <4>3. y.pos[s].side \in Backtest!Sides
        BY <4>1, <4>2
      <4>4. PICK q \in Owned : Backtest!WithStops(y, s, stops) = Holding(y, s, q)
        BY <4>3, StopsAre
      <4>5. left = Holding(y, s, q)
        BY <2>8, <3>2, <4>2, <4>4
      <4> QED BY <4>2, <4>5, HoldingIs
    <3> QED BY <3>1, <3>2
  <2>10. PICK p \in Owned : p = a.pos[s]
    BY DEF Funds
  <2>11. PICK booked : booked = IF p.side = Backtest!Opposite(side)
                                THEN Append(t, Backtest!Trade(p, s, fill)) ELSE t
    OBVIOUS
  <2>12. c = IF n = 0 THEN r ELSE [r EXCEPT !.trades = booked, !.acct = left]
    BY <1>2, <2>1, <2>3, <2>4, <2>5, <2>6, <2>8, <2>10, <2>11, Zenon DEF Backtest!Open
  <2>13. /\ booked \in Seq(Exited)
         /\ base.balance - a.balance = Earned(booked) - Earned(t)
    <3>1. Earned(t) \in Int /\ a.balance \in Int
      BY EarnedIs DEF Funds
    <3>2. CASE p.side # Backtest!Opposite(side)
      <4>1. booked = t /\ base = a
        BY <2>7, <2>10, <2>11, <3>2
      <4> QED BY <3>1, <4>1
    <3>3. CASE p.side = Backtest!Opposite(side)
      <4>1. PICK e : e = Backtest!Trade(p, s, fill)
        OBVIOUS
      <4>2. Backtest!Pnl(p, fill) \in Int /\ p.side \in Backtest!Sides
        BY <3>3, GainIs DEF Backtest!Opposite, Backtest!Sides
      <4>3. e \in Exited /\ e.pnl = Backtest!Pnl(p, fill)
        BY <4>1, <4>2 DEF Backtest!Trade, Exited
      <4>4. booked = Append(t, e)
        BY <2>11, <3>3, <4>1
      <4>5. base.balance = a.balance + e.pnl
        BY <2>7, <2>10, <3>3, <4>3
      <4> QED BY <3>1, <4>2, <4>3, <4>4, <4>5, OneEarned
    <3> QED BY <3>2, <3>3
  <2>14. CASE n = 0
    BY <2>12, <2>14 DEF Alters
  <2>15. CASE n # 0
    <3>1. c \in Runs /\ Alters(r, c) /\ c.acct = left /\ c.trades = booked
      <4>1. c = [r EXCEPT !.trades = booked, !.acct = left]
        BY <2>12, <2>15
      <4>2. left \in Funds /\ booked \in Seq(Exited)
        BY <2>9, <2>13
      <4> QED BY <4>1, <4>2 DEF Runs, Alters
    <3>2. Earned(t) \in Int /\ Earned(booked) \in Int /\ Stake \in Int /\ a.balance \in Int
          /\ base.balance \in Int
      BY <2>13, EarnedIs DEF Funds, Backtest!SimulatorParameters
    <3>3. Explaining(r) => a.balance - Stake = Earned(t)
      BY <2>5 DEF Explaining
    <3>4. base.balance - Stake = Earned(booked) => Explaining(c)
      BY <2>9, <3>1 DEF Explaining
    <3>5. a.balance - Stake = Earned(t) => base.balance - Stake = Earned(booked)
      <4>1. PICK i, j, k, l, m \in Int : /\ i = a.balance /\ j = base.balance /\ k = Earned(t)
                                         /\ l = Earned(booked) /\ m = Stake
        BY <3>2
      <4>2. j - i = l - k
        BY <2>13, <4>1
      <4>3. i - m = k => j - m = l
        BY <4>2
      <4> QED BY <4>1, <4>3
    <3> QED BY <3>1, <3>3, <3>4, <3>5
  <2> QED BY <2>14, <2>15
<1> QED BY <1>1, <1>2

(* close_position, for those of the symbols that have one.                  *)
LEMMA ExitsAre ==
  ASSUME Backtest!SimulatorParameters, NEW r \in Runs, NEW S \in SUBSET Coins,
         NEW c, c = Backtest!Exits(r, S)
  PROVE  /\ c \in Runs /\ Alters(r, c) /\ (Explaining(r) => Explaining(c))
         /\ c.acct.pos = [s \in Coins |-> IF s \in S THEN Backtest!Flat ELSE r.acct.pos[s]]
<1>1. PICK pos, level : /\ pos \in [Coins -> Owned] /\ level \in [Coins -> Candles \cup {0}]
                        /\ pos = r.acct.pos /\ level = r.price
  BY DEF Runs, Funds
<1>2. PICK held, fill : /\ held = {s \in S : pos[s] # Backtest!Flat}
                        /\ fill = [s \in Coins |-> Backtest!ExitFill(pos[s], level[s])]
  OBVIOUS
<1>3. \A s \in held : pos[s].side \in Backtest!Sides
  BY <1>1, <1>2, OwnedIs
<1>4. \A s \in held : fill[s] \in Int
  <2> TAKE s \in held
  <2>1. level[s] \in Nat /\ Slip \in Nat
    BY <1>1, <1>2 DEF Backtest!SimulatorParameters
  <2> QED BY <1>2, <2>1 DEF Backtest!ExitFill, Backtest!Fill
<1>5. c = Backtest!Closed(r, held, fill)
  BY <1>1, <1>2 DEF Backtest!Exits
<1>6. held \in SUBSET Coins /\ \A s \in held : r.acct.pos[s].side \in Backtest!Sides
  BY <1>1, <1>2, <1>3
<1>7. /\ c \in Runs /\ Alters(r, c) /\ (Explaining(r) => Explaining(c))
      /\ c.acct.pos = [s \in Coins |-> IF s \in held THEN Backtest!Flat ELSE r.acct.pos[s]]
  BY <1>4, <1>5, <1>6, ClosedAre
<1>8. \A s \in Coins : (IF s \in held THEN Backtest!Flat ELSE pos[s])
                          = IF s \in S THEN Backtest!Flat ELSE pos[s]
  BY <1>2
<1> QED BY <1>1, <1>7, <1>8

\* A cautious instruction may ask for any amount.
Orderly == {o \in Backtest!Instructions : o.cautious \/ o.notional >= 0}

LEMMA AltersOn ==
  ASSUME NEW r, NEW c, NEW d, Alters(r, c), Alters(c, d)
  PROVE  Alters(r, d)
BY DEF Alters

LEMMA ObeyedIs ==
  ASSUME Backtest!SimulatorParameters, Backtest!BacktestParameters,
         NEW r \in Runs, NEW o \in Orderly, NEW c, c = Backtest!Obeyed(r, o)
  PROVE  c \in Runs /\ Alters(r, c) /\ (Explaining(r) => Explaining(c))
<1>1. PICK s \in Coins, stops \in [sl : Nat, tp : Nat] : s = o.symbol /\ stops = o.stops
  BY DEF Orderly, Backtest!Instructions
<1>6. o.notional \in Int /\ stops.sl \in Nat /\ stops.tp \in Nat
  BY DEF Orderly, Backtest!Instructions
<1>2. \/ c = Backtest!Exits(r, {s})
      \/ /\ o.action \in Backtest!Sides /\ (o.cautious => o.notional > MinNotional)
         /\ c = Backtest!Open(r, s, o.action, o.notional, stops)
      \/ c = r
  BY <1>1 DEF Backtest!Obeyed
<1>3. CASE c = Backtest!Exits(r, {s})
  <2>1. {s} \in SUBSET Coins
    OBVIOUS
  <2> QED BY <1>3, <2>1, ExitsAre
<1>4. CASE /\ o.action \in Backtest!Sides /\ (o.cautious => o.notional > MinNotional)
           /\ c = Backtest!Open(r, s, o.action, o.notional, stops)
  <2>1. o.notional \in Nat
    BY <1>6, <1>4 DEF Orderly, Backtest!BacktestParameters
  <2>2. PICK side \in Backtest!Sides, n \in Nat : side = o.action /\ n = o.notional
    BY <1>4, <2>1
  <2>3. c = Backtest!Open(r, s, side, n, stops)
    BY <1>4, <2>2
  <2> QED BY <1>6, <2>3, OpensIs
<1>5. CASE c = r
  BY <1>5 DEF Alters
<1> QED BY <1>2, <1>3, <1>4, <1>5

\* f is the function of the definition of Executed, up to n.
IsAfter(f, r, list, n) ==
    f = [k \in 0 .. n |-> IF k = 0 THEN r ELSE Backtest!Obeyed(f[k - 1], list[k])]

LEMMA AfterExists ==
  ASSUME NEW r, NEW list, NEW n \in Nat
  PROVE  \E f : IsAfter(f, r, list, n)
<1> DEFINE N == {k \in Nat : \E f : IsAfter(f, r, list, k)}
<1>1. 0 \in N
  <2>1. IsAfter([k \in 0 .. 0 |-> r], r, list, 0)
    BY DEF IsAfter
  <2> QED BY <2>1
<1>2. ASSUME NEW k \in N PROVE k + 1 \in N
  <2>1. PICK f : IsAfter(f, r, list, k)
    OBVIOUS
  <2>2. PICK g : g = [i \in 0 .. (k + 1) |-> IF i = k + 1 THEN Backtest!Obeyed(f[k], list[k + 1]) ELSE f[i]]
    OBVIOUS
  <2>3. ASSUME NEW i \in 0 .. (k + 1)
        PROVE  g[i] = IF i = 0 THEN r ELSE Backtest!Obeyed(g[i - 1], list[i])
    <3>1. CASE i = 0
      BY <2>1, <2>2, <3>1 DEF IsAfter
    <3>2. CASE i \in 1 .. k
      <4>1. i # k + 1 /\ i - 1 # k + 1 /\ i - 1 \in 0 .. (k + 1) /\ i \in 0 .. k
        BY <3>2
      <4>2. g[i] = f[i] /\ g[i - 1] = f[i - 1]
        BY <2>2, <2>3, <4>1
      <4>3. f[i] = Backtest!Obeyed(f[i - 1], list[i])
        BY <2>1, <3>2, <4>1 DEF IsAfter
      <4> QED BY <3>2, <4>2, <4>3
    <3>3. CASE i = k + 1
      <4>1. k # k + 1 /\ k \in 0 .. (k + 1) /\ i - 1 = k /\ i # 0
        BY <3>3
      <4>2. g[i] = Backtest!Obeyed(f[k], list[k + 1]) /\ g[k] = f[k]
        BY <2>2, <2>3, <3>3, <4>1
      <4> QED BY <3>3, <4>1, <4>2
    <3>4. i = 0 \/ i \in 1 .. k \/ i = k + 1
      OBVIOUS
    <3> QED BY <3>1, <3>2, <3>3, <3>4
  <2>4. g = [i \in 0 .. (k + 1) |-> IF i = 0 THEN r ELSE Backtest!Obeyed(g[i - 1], list[i])]
    <3>1. g = [i \in 0 .. (k + 1) |-> g[i]]
      BY <2>2
    <3> QED BY <2>3, <3>1
  <2> QED BY <2>4 DEF IsAfter
<1>3. N = Nat
  BY <1>1, <1>2, Induction
<1> QED BY <1>3

(* Instructions carried out one after the other.                            *)
LEMMA ExecutedIs ==
  ASSUME Backtest!SimulatorParameters, Backtest!BacktestParameters,
         NEW r \in Runs, NEW list \in Seq(Orderly), NEW c, c = Backtest!Executed(r, list)
  PROVE  c \in Runs /\ Alters(r, c) /\ (Explaining(r) => Explaining(c))
<1>1. PICK n \in Nat : n = Len(list) /\ DOMAIN list = 1 .. n
  OBVIOUS
<1>2. PICK f : f = CHOOSE g : IsAfter(g, r, list, n)
  OBVIOUS
<1>3. IsAfter(f, r, list, n)
  BY <1>2, AfterExists
<1>4. c = f[n]
  BY <1>1, <1>2 DEF Backtest!Executed, IsAfter
<1> DEFINE Good(k) == f[k] \in Runs /\ Alters(r, f[k]) /\ (Explaining(r) => Explaining(f[k]))
           N == {k \in Nat : k <= n => Good(k)}
<1>5. 0 \in N
  <2>1. f[0] = r
    BY <1>3 DEF IsAfter
  <2> QED BY <2>1 DEF Alters
<1>6. ASSUME NEW k \in N PROVE k + 1 \in N
  <2> SUFFICES ASSUME k + 1 <= n PROVE Good(k + 1)
    OBVIOUS
  <2>1. k + 1 \in 0 .. n /\ k + 1 # 0 /\ (k + 1) - 1 = k /\ k + 1 \in DOMAIN list
    BY <1>1
  <2>2. Good(k)
    OBVIOUS
  <2>3. f[k + 1] = Backtest!Obeyed(f[k], list[k + 1])
    <3>1. f[k + 1] = IF k + 1 = 0 THEN r ELSE Backtest!Obeyed(f[(k + 1) - 1], list[k + 1])
      BY <1>3, <2>1 DEF IsAfter
    <3> QED BY <2>1, <3>1
  <2>4. PICK o \in Orderly, e \in Runs : o = list[k + 1] /\ e = f[k]
    BY <2>1, <2>2
  <2>5. PICK d : d = Backtest!Obeyed(e, o) /\ d = f[k + 1]
    BY <2>3, <2>4
  <2>6. d \in Runs /\ Alters(e, d) /\ (Explaining(e) => Explaining(d))
    BY <2>5, ObeyedIs
  <2> QED BY <2>2, <2>4, <2>5, <2>6, AltersOn
<1>7. N = Nat
  BY <1>5, <1>6, Induction
<1>8. Good(n)
  BY <1>7
<1> QED BY <1>4, <1>8

(* New prices, and the stops and targets they reach.                        *)
LEMMA NewPricesAre ==
  ASSUME Backtest!SimulatorParameters, NEW r \in Runs, NEW q \in [Coins -> Candles \cup {0}],
         NEW c, c = Backtest!NewPrices(r, q)
  PROVE  /\ c \in Runs /\ (Explaining(r) => Explaining(c))
         /\ c.curve = r.curve /\ c.peak = r.peak /\ c.worst = r.worst /\ c.candles = r.candles
         /\ (\A s \in Coins : r.acct.pos[s] = Backtest!Flat) => c.acct = r.acct
<1>1. PICK level : level = [s \in Coins |-> IF q[s] > 0 THEN q[s] ELSE r.price[s]]
  OBVIOUS
<1>2. level \in [Coins -> Candles \cup {0}]
  BY <1>1 DEF Runs
<1>3. PICK hit : hit = {s \in Coins : \/ Backtest!StopHit(r.acct.pos[s], level[s])
                                      \/ Backtest!TargetHit(r.acct.pos[s], level[s])}
  OBVIOUS
<1>4. PICK d : d = [r EXCEPT !.price = level]
  OBVIOUS
<1>5. /\ d \in Runs /\ d.acct = r.acct /\ d.trades = r.trades
      /\ d.curve = r.curve /\ d.peak = r.peak /\ d.worst = r.worst /\ d.candles = r.candles
  BY <1>2, <1>4 DEF Runs
<1>6. c = Backtest!Closed(d, hit, level)
  BY <1>1, <1>3, <1>4 DEF Backtest!NewPrices
<1>7. hit \in SUBSET Coins /\ \A s \in hit : level[s] \in Int
  BY <1>2, <1>3 DEF Backtest!SimulatorParameters
<1>8. \A s \in hit : r.acct.pos[s].side \in Backtest!Sides
  BY <1>3 DEF Backtest!StopHit, Backtest!TargetHit, Backtest!Sides
<1>9. /\ c \in Runs /\ Alters(d, c) /\ (Explaining(d) => Explaining(c)) /\ (hit = {} => c = d)
  BY <1>5, <1>6, <1>7, <1>8, ClosedAre
<1>10. ASSUME \A s \in Coins : r.acct.pos[s] = Backtest!Flat PROVE c.acct = r.acct
  <2>1. hit = {}
    BY <1>8, <1>7, <1>10, OwnedIs DEF Backtest!Sides
  <2> QED BY <1>5, <1>9, <2>1
<1> QED BY <1>5, <1>9, <1>10 DEF Alters, Explaining

-----------------------------------------------------------------------------
(* Backtest: the equity curve and its falls.                                *)

(* The equity curve: where it stands highest up to a point, and how deep it *)
(* has fallen below that.                                                   *)
Top(curve, j) == Backtest!Max({curve[i] : i \in 1 .. j})

FallAt(curve, j) == [fall |-> Top(curve, j) - curve[j], peak |-> Top(curve, j)]

CurveFits(r) ==
    /\ r.curve = <<>> => r.peak = Stake
    /\ r.curve # <<>> => r.curve[1] = Stake /\ r.peak = Top(r.curve, Len(r.curve))
    /\ r.worst.peak > 0
    /\ \A j \in DOMAIN r.curve : ~Backtest!Deeper(FallAt(r.curve, j), r.worst)
    /\ r.worst.fall > 0 => \E j \in DOMAIN r.curve : r.worst = FallAt(r.curve, j)

LEMMA TopIs ==
  ASSUME NEW S, NEW x \in S, x \in Int, \A y \in S : y \in Int /\ y <= x
  PROVE  Backtest!Max(S) = x
<1>1. \A z \in S : (\A y \in S : z >= y) => z = x
  OBVIOUS
<1>2. \A y \in S : x >= y
  OBVIOUS
<1> QED BY <1>1, <1>2 DEF Backtest!Max

LEMMA TopExists ==
  ASSUME NEW curve \in Seq(Int), NEW j \in DOMAIN curve
  PROVE  /\ Top(curve, j) \in Int
         /\ \A i \in 1 .. j : curve[i] <= Top(curve, j)
         /\ \E i \in 1 .. j : Top(curve, j) = curve[i]
<1> DEFINE Has(n) == \E i \in 1 .. n : \A k \in 1 .. n : curve[k] <= curve[i]
           N == {n \in Nat : n + 1 <= Len(curve) => Has(n + 1)}
<1>0. DOMAIN curve = 1 .. Len(curve) /\ Len(curve) \in Nat /\ \A i \in DOMAIN curve : curve[i] \in Int
  OBVIOUS
<1>1. 0 \in N
  <2> SUFFICES ASSUME 1 <= Len(curve) PROVE Has(1)
    OBVIOUS
  <2>1. 1 \in DOMAIN curve /\ curve[1] \in Int
    BY <1>0
  <2> QED BY <2>1
<1>2. ASSUME NEW n \in N PROVE n + 1 \in N
  <2> SUFFICES ASSUME n + 2 <= Len(curve) PROVE Has(n + 2)
    OBVIOUS
  <2>1. PICK i \in 1 .. (n + 1) : \A k \in 1 .. (n + 1) : curve[k] <= curve[i]
    OBVIOUS
  <2>2. PICK x, y \in Int : x = curve[i] /\ y = curve[n + 2]
    BY <1>0, <2>1
  <2>3. \A k \in 1 .. (n + 2) : k \in 1 .. (n + 1) \/ k = n + 2
    OBVIOUS
  <2>4. \A k \in 1 .. (n + 1) : curve[k] \in Int /\ curve[k] <= x
    BY <1>0, <2>1, <2>2
  <2>5. CASE y <= x
    <3>1. \A k \in 1 .. (n + 2) : curve[k] <= curve[i]
      BY <2>2, <2>3, <2>4, <2>5
    <3>2. i \in 1 .. (n + 2)
      BY <2>1
    <3> QED BY <3>1, <3>2
  <2>6. CASE x <= y
    <3>1. \A k \in 1 .. (n + 2) : curve[k] <= curve[n + 2]
      BY <2>2, <2>3, <2>4, <2>6
    <3>2. n + 2 \in 1 .. (n + 2)
      OBVIOUS
    <3> QED BY <3>1, <3>2
  <2>7. x <= y \/ y <= x
    OBVIOUS
  <2> QED BY <2>5, <2>6, <2>7
<1>3. N = Nat
  BY <1>1, <1>2, Induction
<1>4. Has(j)
  <2>1. j - 1 \in Nat /\ (j - 1) + 1 = j /\ j <= Len(curve)
    BY <1>0
  <2>2. j - 1 \in N
    BY <1>3, <2>1
  <2> QED BY <2>1, <2>2
<1>5. PICK i \in 1 .. j : \A k \in 1 .. j : curve[k] <= curve[i]
  BY <1>4
<1>6. PICK S : S = {curve[k] : k \in 1 .. j}
  OBVIOUS
<1>7. PICK x \in Int : x = curve[i]
  BY <1>0
<1>8. x \in S /\ \A y \in S : y \in Int /\ y <= x
  <2>1. \A k \in 1 .. j : curve[k] \in Int
    BY <1>0
  <2> QED BY <1>5, <1>6, <1>7, <2>1
<1>9. Top(curve, j) = x
  BY <1>6, <1>8, TopIs DEF Top
<1> QED BY <1>5, <1>7, <1>9

(* What is no deeper than a fall is no deeper than a deeper one.            *)
LEMMA DeeperIs ==
  ASSUME NEW a \in Int, NEW p \in Int, NEW b \in Int, NEW q \in Int, NEW c \in Int, NEW s \in Int,
         p > 0, q > 0, s > 0, a * q <= b * p, b * s <= c * q
  PROVE  a * s <= c * p
<1>1. (a * q) * s <= (b * p) * s
  <2>1. \A x, y \in Int : x <= y => x * s <= y * s
    OBVIOUS
  <2> QED BY <2>1
<1>2. (b * s) * p <= (c * q) * p
  <2>1. \A x, y \in Int : x <= y => x * p <= y * p
    OBVIOUS
  <2> QED BY <2>1
<1>3. (a * s) * q <= (c * p) * q
  BY <1>1, <1>2
<1>4. PICK x, y \in Int : x = a * s /\ y = c * p
  OBVIOUS
<1>5. x * q <= y * q
  BY <1>3, <1>4
<1>6. x <= y
  <2>1. SUFFICES ASSUME x > y PROVE FALSE
    OBVIOUS
  <2>2. PICK d \in Nat : d = x - y /\ d > 0
    BY <2>1
  <2>3. x * q = y * q + d * q
    BY <2>2
  <2>4. d * q > 0
    BY <2>2
  <2> QED BY <1>5, <2>3, <2>4
<1> QED BY <1>4, <1>6

LEMMA EquityIs ==
  ASSUME Backtest!SimulatorParameters, NEW r \in Runs
  PROVE  /\ Backtest!Equity(r) \in Int
         /\ (\A s \in Coins : r.acct.pos[s] = Backtest!Flat) => Backtest!Equity(r) = r.acct.balance
<1>1. PICK g : g = [s \in Coins |-> Backtest!Pnl(r.acct.pos[s], r.price[s])]
  OBVIOUS
<1>2. \A s \in Coins : g[s] \in Int
  <2> TAKE s \in Coins
  <2>1. PICK p \in Owned, x \in Int : p = r.acct.pos[s] /\ x = r.price[s]
    BY DEF Runs, Funds, Backtest!SimulatorParameters
  <2> QED BY <1>1, <2>1, GainIs
<1>3. IsFiniteSet(Coins)
  BY SameBacktest DEF Backtest!SimulatorParameters
<1>4. PICK x, y \in Int : x = r.acct.balance /\ y = Total(g, Coins)
  BY <1>2, <1>3, SumIsInt DEF Runs, Funds
<1>5. Backtest!Equity(r) = x + y
  BY <1>1, <1>4, SameBacktest DEF Backtest!Equity
<1>6. ASSUME \A s \in Coins : r.acct.pos[s] = Backtest!Flat PROVE y = 0
  <2>1. \A s \in Coins \ {} : g[s] = 0
    BY <1>1, <1>6 DEF Backtest!Pnl, Backtest!Flat
  <2>2. Total(g, Coins) = Total(g, {})
    BY <1>2, <1>3, <2>1, SumOfSupport
  <2> QED BY <1>4, <2>2, SumOfNone
<1> QED BY <1>4, <1>5, <1>6

(* A point more of the equity curve.                                        *)
LEMMA MeasuredIs ==
  ASSUME Backtest!SimulatorParameters, NEW r \in Runs, CurveFits(r),
         r.curve = <<>> => Backtest!Equity(r) = Stake,
         NEW m, m = Backtest!Measured(r)
  PROVE  /\ m \in Runs /\ CurveFits(m) /\ m.curve # <<>>
         /\ m.acct = r.acct /\ m.trades = r.trades /\ m.candles = r.candles
<1>1. PICK e \in Int : e = Backtest!Equity(r)
  BY EquityIs
<1>2. PICK curve \in Seq(Int), n \in Nat :
          curve = r.curve /\ n = Len(curve) /\ DOMAIN curve = 1 .. n
  BY DEF Runs
<1>3. PICK p, f, q \in Int : p = r.peak /\ r.worst = [fall |-> f, peak |-> q]
  BY DEF Runs
<1>4. PICK high \in Int : high = IF e > p THEN e ELSE p
  BY <1>1, <1>3
<1>5. PICK low : low = [fall |-> high - e, peak |-> high]
  OBVIOUS
<1>6. PICK worst : worst = IF Backtest!Deeper(low, r.worst) THEN low ELSE r.worst
  OBVIOUS
<1>7. PICK longer : longer = Append(curve, e)
  OBVIOUS
<1>8. m = [r EXCEPT !.peak = high, !.worst = worst, !.curve = longer]
  BY <1>1, <1>2, <1>3, <1>4, <1>5, <1>6, <1>7, Zenon DEF Backtest!Measured
<1>9. /\ longer \in Seq(Int) /\ Len(longer) = n + 1 /\ DOMAIN longer = 1 .. (n + 1) /\ longer # <<>>
      /\ longer[n + 1] = e /\ \A i \in 1 .. n : longer[i] = curve[i]
  BY <1>2, <1>7
<1>10. worst \in [fall : Int, peak : Int] /\ low \in [fall : Int, peak : Int]
  BY <1>3, <1>5, <1>6
<1>11. /\ m \in Runs /\ m.acct = r.acct /\ m.trades = r.trades /\ m.candles = r.candles
       /\ m.curve = longer /\ m.peak = high /\ m.worst = worst
  BY <1>8, <1>9, <1>10 DEF Runs
<1>12. Stake \in Int /\ Stake > 0 /\ q > 0
  BY <1>3 DEF Backtest!SimulatorParameters, CurveFits
<1>21. n = 0 => curve = <<>>
  BY <1>2, EmptySeq
<1>13. longer[1] = Stake
  <2>1. CASE n = 0
    <3>1. curve = <<>>
      BY <1>21, <2>1
    <3> QED BY <1>1, <1>2, <1>9, <2>1, <3>1
  <2>2. CASE n # 0
    <3>1. curve # <<>> /\ 1 \in 1 .. n
      BY <1>2, <2>2
    <3> QED BY <1>2, <1>9, <3>1 DEF CurveFits
  <2> QED BY <2>1, <2>2
<1>14. \A j \in 1 .. n : Top(longer, j) = Top(curve, j) /\ FallAt(longer, j) = FallAt(curve, j)
  <2> TAKE j \in 1 .. n
  <2>1. {longer[i] : i \in 1 .. j} = {curve[i] : i \in 1 .. j}
    <3>1. \A i \in 1 .. j : longer[i] = curve[i]
      BY <1>9
    <3> QED BY <3>1
  <2>2. longer[j] = curve[j]
    BY <1>9
  <2> QED BY <2>1, <2>2 DEF Top, FallAt
<1>15. Top(longer, n + 1) = high
  <2>1. PICK S : S = {longer[i] : i \in 1 .. (n + 1)}
    OBVIOUS
  <2>2. \A y \in S : y = e \/ \E i \in 1 .. n : y = curve[i]
    BY <1>9, <2>1
  <2>3. e \in S /\ \A i \in 1 .. n : curve[i] \in S
    <3>1. n + 1 \in 1 .. (n + 1) /\ \A i \in 1 .. n : i \in 1 .. (n + 1)
      OBVIOUS
    <3> QED BY <1>9, <2>1, <3>1
  <2>4. high \in S /\ \A y \in S : y \in Int /\ y <= high
    <3>1. CASE n = 0
      <4>1. curve = <<>>
        BY <1>21, <3>1
      <4>2. p = Stake /\ e = Stake
        BY <1>1, <1>2, <1>3, <4>1 DEF CurveFits
      <4>3. high = e /\ \A y \in S : y = e
        BY <1>4, <2>2, <3>1, <4>2
      <4> QED BY <2>3, <4>3
    <3>2. CASE n # 0
      <4>1. curve # <<>> /\ n \in DOMAIN curve
        BY <1>2, <3>2
      <4>2. p = Top(curve, n)
        BY <1>2, <1>3, <4>1 DEF CurveFits
      <4>3. /\ \A i \in 1 .. n : curve[i] <= p /\ curve[i] \in Int
            /\ \E i \in 1 .. n : p = curve[i]
        <5>1. n \in DOMAIN curve /\ DOMAIN curve = 1 .. n
          BY <1>2, <4>1
        <5>2. \A i \in 1 .. n : curve[i] \in Int
          BY <1>2, <5>1
        <5>3. /\ \A i \in 1 .. n : curve[i] <= Top(curve, n)
              /\ \E i \in 1 .. n : Top(curve, n) = curve[i]
          BY <1>2, <5>1, TopExists, Zenon
        <5> QED BY <4>2, <5>2, <5>3, Zenon
      <4>4. p <= high /\ e <= high
        BY <1>4
      <4>5. \A y \in S : y \in Int /\ y <= high
        <5> TAKE y \in S
        <5>1. CASE y = e
          BY <4>4, <5>1
        <5>2. CASE \E i \in 1 .. n : y = curve[i]
          <6>1. y \in Int /\ y <= p
            BY <4>3, <5>2
          <6> QED BY <4>4, <6>1
        <5> QED BY <2>2, <5>1, <5>2
      <4>6. high \in S
        BY <1>4, <2>3, <4>3
      <4> QED BY <4>5, <4>6
    <3> QED BY <3>1, <3>2
  <2> QED BY <2>1, <2>4, TopIs DEF Top
<1>16. FallAt(longer, n + 1) = low
  BY <1>5, <1>9, <1>15 DEF FallAt
<1>17. high > 0
  <2>1. 1 \in 1 .. (n + 1) /\ n + 1 \in DOMAIN longer
    BY <1>9
  <2>2. longer[1] <= Top(longer, n + 1)
    BY <1>9, <2>1, TopExists
  <2> QED BY <1>12, <1>13, <1>15, <2>2
<1>18. /\ worst.peak > 0
       /\ \A j \in 1 .. (n + 1) : ~Backtest!Deeper(FallAt(longer, j), worst)
  <2>1. worst.peak > 0
    BY <1>3, <1>5, <1>6, <1>12, <1>17
  <2>2. ~Backtest!Deeper(low, worst)
    <3>1. CASE worst = low
      <4>1. PICK z \in Int : z = (high - e) * high
        OBVIOUS
      <4>2. low.fall = high - e /\ low.peak = high
        BY <1>5
      <4>3. Backtest!Deeper(low, low) <=> z > z
        BY <4>1, <4>2 DEF Backtest!Deeper
      <4> QED BY <3>1, <4>3
    <3>2. CASE worst # low
      BY <1>6, <3>2
    <3> QED BY <3>1, <3>2
  <2>3. ASSUME NEW j \in 1 .. n PROVE ~Backtest!Deeper(FallAt(longer, j), worst)
    <3>1. PICK t, d \in Int : t = Top(curve, j) /\ FallAt(longer, j) = [fall |-> d, peak |-> t] /\ t > 0
      <4>1. j \in DOMAIN longer /\ j \in DOMAIN curve /\ 1 \in 1 .. j
        BY <1>2, <1>9
      <4>2. Top(longer, j) \in Int /\ longer[1] <= Top(longer, j)
        BY <1>9, <4>1, TopExists
      <4>3. curve[j] \in Int
        BY <1>2, <4>1
      <4>4. Top(curve, j) \in Int /\ Top(curve, j) > 0
        BY <1>12, <1>13, <1>14, <4>2
      <4>5. Top(curve, j) - curve[j] \in Int
        BY <4>3, <4>4
      <4> QED BY <1>14, <4>4, <4>5 DEF FallAt
    <3>2. ~Backtest!Deeper(FallAt(longer, j), r.worst)
      <4>1. j \in DOMAIN curve
        BY <1>2
      <4> QED BY <1>2, <1>14, <4>1 DEF CurveFits
    <3>3. CASE worst = r.worst
      BY <3>2, <3>3
    <3>4. CASE worst # r.worst
      <4>1. worst = low /\ Backtest!Deeper(low, r.worst)
        BY <1>6, <3>4
      <4>2. PICK g \in Int : g = high - e
        OBVIOUS
      <4>3. /\ low.fall = g /\ low.peak = high /\ r.worst.fall = f /\ r.worst.peak = q
            /\ FallAt(longer, j).fall = d /\ FallAt(longer, j).peak = t
        BY <1>3, <1>5, <3>1, <4>2
      <4>4. g * q > f * high
        BY <4>1, <4>3 DEF Backtest!Deeper
      <4>5. ~(d * q > f * t)
        BY <3>2, <4>3 DEF Backtest!Deeper
      <4>6. d * q <= f * t /\ f * high <= g * q
        <5>1. PICK a1, a2, a3, a4 \in Int : a1 = d * q /\ a2 = f * t /\ a3 = f * high /\ a4 = g * q
          OBVIOUS
        <5>2. a1 <= a2 /\ a3 <= a4
          BY <4>4, <4>5, <5>1
        <5> QED BY <5>1, <5>2
      <4>7. d * high <= g * t
        BY <1>12, <1>17, <3>1, <4>6, DeeperIs
      <4>8. ~(d * high > g * t)
        <5>1. PICK a1, a2 \in Int : a1 = d * high /\ a2 = g * t
          OBVIOUS
        <5> QED BY <4>7, <5>1
      <4> QED BY <4>1, <4>3, <4>8 DEF Backtest!Deeper
    <3> QED BY <3>3, <3>4
  <2>4. \A j \in 1 .. (n + 1) : j \in 1 .. n \/ j = n + 1
    OBVIOUS
  <2> QED BY <1>16, <2>1, <2>2, <2>3, <2>4
<1>19. ASSUME worst.fall > 0 PROVE \E j \in 1 .. (n + 1) : worst = FallAt(longer, j)
  <2>1. CASE worst = low
    <3>1. n + 1 \in 1 .. (n + 1)
      OBVIOUS
    <3> QED BY <1>16, <2>1, <3>1
  <2>2. CASE worst = r.worst
    <3>1. PICK j \in DOMAIN curve : r.worst = FallAt(curve, j)
      BY <1>2, <1>19, <2>2 DEF CurveFits
    <3>2. j \in 1 .. n /\ j \in 1 .. (n + 1)
      BY <1>2
    <3> QED BY <1>14, <2>2, <3>1, <3>2
  <2> QED BY <1>6, <2>1, <2>2
<1>20. CurveFits(m)
  BY <1>9, <1>11, <1>13, <1>15, <1>18, <1>19 DEF CurveFits
<1> QED BY <1>9, <1>11, <1>20

-----------------------------------------------------------------------------
(* Backtest: decisions of the rule.                                         *)

Charts == [Coins -> [1 .. LastHour -> Candles \cup {0}]]

(* The signal of the rule looks at no later candle.                         *)
LEMMA SignalAgrees ==
  ASSUME NEW d, NEW e, NEW s \in Coins, NEW t \in 1 .. LastHour, LastHour \in Nat,
         \A u \in 1 .. t : d[s][u] = e[s][u]
  PROVE  Backtest!Signal(d, s, t) = Backtest!Signal(e, s, t)
<1>1. Backtest!CandlesBefore(d, s, t) = Backtest!CandlesBefore(e, s, t)
  <2>1. \A u \in 1 .. LastHour : u < t => u \in 1 .. t
    OBVIOUS
  <2> QED BY <2>1 DEF Backtest!CandlesBefore, Backtest!Hours
<1>2. Backtest!Averaged(d, s, t) = Backtest!Averaged(e, s, t)
  BY <1>1 DEF Backtest!Averaged
<1>3. PICK S : S = Backtest!Averaged(d, s, t)
  OBVIOUS
<1>4. S \subseteq 1 .. t
  BY <1>3 DEF Backtest!Averaged, Backtest!CandlesBefore, Backtest!Hours
<1>5. IsFiniteSet(S)
  <2>1. IsFiniteSet(1 .. t)
    BY FS_Interval
  <2> QED BY <1>4, <2>1, FS_Subset
<1>6. PICK f, g : f = d[s] /\ g = e[s]
  OBVIOUS
<1>7. Total(f, S) = Total(g, S)
  <2>1. \A u \in S : f[u] = g[u]
    BY <1>4, <1>6
  <2> QED BY <1>5, <2>1, SumAgrees
<1>8. Backtest!Total(d[s], Backtest!Averaged(d, s, t)) = Backtest!Total(e[s], Backtest!Averaged(e, s, t))
  BY <1>2, <1>3, <1>6, <1>7, SameBacktest
<1>9. d[s][t] = e[s][t]
  OBVIOUS
<1> QED BY <1>1, <1>8, <1>9 DEF Backtest!Signal

LEMMA RuleAgrees ==
  ASSUME NEW d, NEW e, NEW t \in 1 .. LastHour, LastHour \in Nat, Watched \in Seq(Coins),
         \A s \in Coins, u \in 1 .. t : d[s][u] = e[s][u], NEW r
  PROVE  Backtest!Rule(r, d, t) = Backtest!Rule(r, e, t)
<1>1. \A k \in DOMAIN Watched : Watched[k] \in Coins
  OBVIOUS
<1>2. ASSUME NEW k \in DOMAIN Watched
      PROVE  /\ Backtest!Signal(d, Watched[k], t) = Backtest!Signal(e, Watched[k], t)
             /\ d[Watched[k]][t] = e[Watched[k]][t]
  <2>1. PICK s \in Coins : s = Watched[k]
    BY <1>1
  <2>2. t \in 1 .. t /\ \A u \in 1 .. t : d[s][u] = e[s][u]
    OBVIOUS
  <2>3. Backtest!Signal(d, s, t) = Backtest!Signal(e, s, t)
    BY <2>2, SignalAgrees
  <2> QED BY <2>1, <2>2, <2>3
<1> QED BY <1>2, Zenon DEF Backtest!Rule

(* A replayed candle depends on no later one.                               *)
LEMMA ReplayAgrees ==
  ASSUME NEW d, NEW e, NEW t \in 1 .. LastHour, LastHour \in Nat, Watched \in Seq(Coins),
         \A s \in Coins, u \in 1 .. t : d[s][u] = e[s][u], NEW r, NEW answer
  PROVE  Backtest!Replayed(r, d, t, answer) = Backtest!Replayed(r, e, t, answer)
<1>1. \A s \in Coins : d[s][t] = e[s][t]
  <2>1. t \in 1 .. t
    OBVIOUS
  <2> QED BY <2>1
<1>2. Backtest!Quote(d, t) = Backtest!Quote(e, t)
  BY <1>1 DEF Backtest!Quote
<1>3. Backtest!HasSnapshot(d, t) <=> Backtest!HasSnapshot(e, t)
  BY <1>1 DEF Backtest!HasSnapshot
<1>4. \A p : Backtest!Rule(p, d, t) = Backtest!Rule(p, e, t)
  <2> TAKE p
  <2> QED BY RuleAgrees
<1> QED BY <1>2, <1>3, <1>4, Zenon DEF Backtest!Replayed

LEMMA RuleIs ==
  ASSUME Backtest!SimulatorParameters, Backtest!BacktestParameters, NEW r \in Runs,
         NEW d \in Charts, NEW t \in 1 .. LastHour
  PROVE  Backtest!Rule(r, d, t) \in Seq(Orderly)
<1>1. PICK list : list = Backtest!Rule(r, d, t)
  OBVIOUS
<1>2. PICK n \in Nat : n = Len(Watched) /\ DOMAIN Watched = 1 .. n
  BY DEF Backtest!BacktestParameters
<1>3. PICK amount : amount = (Backtest!Spare(r.acct) * Ratio) \div 100
  OBVIOUS
<1>4. amount \in Int
  <2>1. PICK g : g = [s \in Coins |-> r.acct.pos[s].cost]
    OBVIOUS
  <2>2. \A s \in Coins : g[s] \in Int
    BY <2>1, OwnedIs DEF Runs, Funds
  <2>3. Total(g, Coins) \in Int
    BY <2>2, SumIsInt, SameBacktest DEF Backtest!SimulatorParameters
  <2>4. PICK x, y \in Int : x = Leverage * r.acct.balance /\ y = Total(g, Coins)
    BY <2>3 DEF Runs, Funds, Backtest!SimulatorParameters
  <2>5. Backtest!Spare(r.acct) = x - y
    BY <2>1, <2>4, SameBacktest DEF Backtest!Spare
  <2>6. Ratio \in Nat
    BY DEF Backtest!BacktestParameters
  <2>7. (x - y) * Ratio \in Int
    BY <2>6
  <2> QED BY <1>3, <2>5, <2>7, QuotientIs
<1>5. ASSUME NEW k \in 1 .. n PROVE list[k] \in Orderly
  <2>1. PICK s \in Coins : s = Watched[k]
    BY <1>2 DEF Backtest!BacktestParameters
  <2>2. PICK side : side = Backtest!Signal(d, s, t)
    OBVIOUS
  <2>3. side \in {"none", "long", "short"}
    BY <2>2 DEF Backtest!Signal
  <2>4. PICK x \in Nat : x = d[s][t]
    <3>1. d[s] \in [1 .. LastHour -> Candles \cup {0}]
      BY DEF Charts
    <3>2. d[s][t] \in Candles \cup {0}
      BY <3>1
    <3> QED BY <3>2 DEF Backtest!SimulatorParameters
  <2>5. PICK stops : stops = Backtest!RuleStops(side, x)
    OBVIOUS
  <2>6. stops \in [sl : Nat, tp : Nat]
    <3>1. 97 * x \in Nat /\ 106 * x \in Nat /\ 103 * x \in Nat /\ 94 * x \in Nat
      OBVIOUS
    <3>2. /\ (97 * x) \div 100 \in Nat /\ (106 * x) \div 100 \in Nat
          /\ (103 * x) \div 100 \in Nat /\ (94 * x) \div 100 \in Nat
      BY <3>1, QuotientIs
    <3> QED BY <2>5, <3>2 DEF Backtest!RuleStops
  <2>7. list[k] = [action |-> side, symbol |-> s, notional |-> amount, stops |-> stops,
                   cautious |-> TRUE]
    BY <1>1, <1>2, <1>3, <2>1, <2>2, <2>4, <2>5 DEF Backtest!Rule
  <2> QED BY <1>4, <2>3, <2>6, <2>7 DEF Orderly, Backtest!Instructions, Backtest!Sides
<1>6. list \in [1 .. n -> Orderly]
  <2>1. list = [k \in 1 .. n |-> list[k]]
    BY <1>1, <1>2 DEF Backtest!Rule
  <2> QED BY <1>5, <2>1
<1> QED BY <1>1, <1>6

\* Before the first point of the curve nothing was done.
Fresh(r) == r.curve = <<>> => r.acct.balance = Stake /\ \A s \in Coins : r.acct.pos[s] = Backtest!Flat

Sound(r) == r \in Runs /\ Explaining(r) /\ CurveFits(r)

LEMMA NewRunIs == ASSUME Backtest!SimulatorParameters PROVE Sound(Backtest!NewRun) /\ Fresh(Backtest!NewRun)
<1>1. PICK pos : pos = [s \in Coins |-> Backtest!Flat]
  OBVIOUS
<1>2. PICK r : r = Backtest!NewRun
  OBVIOUS
<1>3. r = [acct |-> [balance |-> Stake, pos |-> pos], price |-> [s \in Coins |-> 0], trades |-> <<>>,
           curve |-> <<>>, peak |-> Stake, worst |-> [fall |-> 0, peak |-> 1], candles |-> 0]
  BY <1>1, <1>2 DEF Backtest!NewRun, Backtest!Account
<1>4. Stake \in Int /\ pos \in [Coins -> Owned]
  BY <1>1, OwnedIs DEF Backtest!SimulatorParameters
<1>5. <<>> \in Seq(Int) /\ <<>> \in Seq(Exited) /\ DOMAIN <<>> = {}
  OBVIOUS
<1>6. [balance |-> Stake, pos |-> pos] \in Funds
  BY <1>4 DEF Funds
<1>7. r \in Runs
  BY <1>3, <1>4, <1>5, <1>6 DEF Runs
<1>8. Explaining(r)
  <2>1. Earned(r.trades) = 0
    BY <1>3, <1>5, EarnedIs
  <2> QED BY <1>3, <1>4, <2>1 DEF Explaining
<1>9. CurveFits(r)
  BY <1>3, <1>5 DEF CurveFits
<1>10. Fresh(r)
  BY <1>1, <1>3 DEF Fresh
<1> QED BY <1>2, <1>7, <1>8, <1>9, <1>10 DEF Sound

LEMMA SoundOn ==
  ASSUME NEW r, NEW c \in Runs, Sound(r), Alters(r, c), Explaining(r) => Explaining(c)
  PROVE  Sound(c)
BY DEF Sound, Alters, CurveFits

(* A candle replayed.                                                       *)
LEMMA ReplayedIs ==
  ASSUME Backtest!SimulatorParameters, Backtest!BacktestParameters, NEW r, Sound(r), Fresh(r),
         NEW d \in Charts, NEW t \in 1 .. LastHour, NEW answer \in Seq(Orderly),
         NEW c, c = Backtest!Replayed(r, d, t, answer)
  PROVE  Sound(c) /\ Fresh(c)
<1>1. PICK q : q = Backtest!Quote(d, t)
  OBVIOUS
<1>2. q \in [Coins -> Candles \cup {0}]
  <2>1. \A s \in Coins : d[s] \in [1 .. LastHour -> Candles \cup {0}]
    BY DEF Charts
  <2>2. \A s \in Coins : d[s][t] \in Candles \cup {0}
    BY <2>1
  <2> QED BY <1>1, <2>2 DEF Backtest!Quote
<1>3. r \in Runs /\ Explaining(r) /\ CurveFits(r)
  BY DEF Sound
<1>4. PICK p : p = Backtest!NewPrices(r, q)
  OBVIOUS
<1>5. /\ p \in Runs /\ Explaining(p)
      /\ p.curve = r.curve /\ p.peak = r.peak /\ p.worst = r.worst /\ p.candles = r.candles
      /\ (\A s \in Coins : r.acct.pos[s] = Backtest!Flat) => p.acct = r.acct
  BY <1>2, <1>3, <1>4, NewPricesAre
<1>6. CurveFits(p)
  BY <1>3, <1>5 DEF CurveFits
<1>7. p.curve = <<>> => Backtest!Equity(p) = Stake
  BY <1>5, EquityIs DEF Fresh
<1>8. PICK m : m = Backtest!Measured(p)
  OBVIOUS
<1>9. /\ m \in Runs /\ CurveFits(m) /\ m.curve # <<>> /\ m.acct = p.acct /\ m.trades = p.trades
  BY <1>5, <1>6, <1>7, <1>8, MeasuredIs
<1>10. Sound(m)
  BY <1>5, <1>9 DEF Sound, Explaining
<1>11. PICK list \in Seq(Orderly) : list = IF decider = "ai" THEN answer ELSE Backtest!Rule(m, d, t)
  BY <1>9, RuleIs
<1>12. PICK x : x = IF r.candles % Interval # 0 THEN m ELSE Backtest!Executed(m, list)
  OBVIOUS
<1>13. Sound(x) /\ x.curve # <<>>
  <2>1. CASE x = m
    BY <1>9, <1>10, <2>1
  <2>2. CASE x = Backtest!Executed(m, list)
    <3>1. x \in Runs /\ Alters(m, x) /\ (Explaining(m) => Explaining(x))
      BY <1>9, <2>2, ExecutedIs
    <3> QED BY <1>9, <1>10, <3>1, SoundOn DEF Alters
  <2> QED BY <1>12, <2>1, <2>2
<1>14. c = IF Backtest!HasSnapshot(d, t) THEN [x EXCEPT !.candles = @ + 1] ELSE r
  BY <1>1, <1>4, <1>8, <1>11, <1>12, Zenon DEF Backtest!Replayed
<1>15. CASE c = r
  BY <1>15
<1>16. CASE c = [x EXCEPT !.candles = @ + 1]
  <2>1. PICK k \in Nat : k = x.candles + 1
    BY <1>13 DEF Sound, Runs
  <2>2. c = [x EXCEPT !.candles = k]
    BY <1>16, <2>1
  <2>3. /\ c \in Runs /\ c.acct = x.acct /\ c.trades = x.trades /\ c.curve = x.curve /\ c.peak = x.peak
        /\ c.worst = x.worst
    BY <1>13, <2>2 DEF Sound, Runs
  <2> QED BY <1>13, <2>3 DEF Sound, Explaining, CurveFits, Fresh
<1> QED BY <1>14, <1>15, <1>16

(* At the end of a run the remaining positions are closed.                  *)
LEMMA LiquidatedIs ==
  ASSUME Backtest!SimulatorParameters, NEW r, Sound(r), NEW c, c = Backtest!Liquidated(r)
  PROVE  Sound(c) /\ c.acct.pos = [s \in Coins |-> Backtest!Flat]
<1>1. r \in Runs /\ Coins \in SUBSET Coins
  BY DEF Sound
<1>2. c = Backtest!Exits(r, Coins)
  BY DEF Backtest!Liquidated
<1>3. /\ c \in Runs /\ Alters(r, c) /\ (Explaining(r) => Explaining(c))
      /\ c.acct.pos = [s \in Coins |-> IF s \in Coins THEN Backtest!Flat ELSE r.acct.pos[s]]
  BY <1>1, <1>2, ExitsAre
<1> QED BY <1>3, SoundOn

(* The report of a run without positions adds up.                           *)
LEMMA ReportIs ==
  ASSUME Backtest!SimulatorParameters, NEW r, Sound(r)
  PROVE  /\ Backtest!Report(r).balance - Stake = Backtest!Report(r).total
         /\ Backtest!Report(r).total = Backtest!Report(r).bySide["long"] + Backtest!Report(r).bySide["short"]
         /\ Backtest!Report(r).worst = r.worst
<1>1. PICK t \in Seq(Exited) : t = r.trades
  BY DEF Sound, Runs
<1>2. PICK L, S : /\ L = {k \in DOMAIN t : t[k].side = "long"}
                  /\ S = {k \in DOMAIN t : t[k].side = "short"}
  OBVIOUS
<1>3. L \cup S = DOMAIN t /\ L \cap S = {}
  <2>1. \A k \in DOMAIN t : t[k].side \in {"long", "short"}
    <3>1. \A k \in DOMAIN t : t[k] \in Exited
      OBVIOUS
    <3> QED BY <3>1 DEF Exited, Backtest!Sides
  <2> QED BY <1>2, <2>1
<1>4. /\ Backtest!Report(r).total = Earned(t) /\ Backtest!Report(r).balance = r.acct.balance
      /\ Backtest!Report(r).worst = r.worst
      /\ Backtest!Report(r).bySide["long"] = Backtest!Gains(t, L)
      /\ Backtest!Report(r).bySide["short"] = Backtest!Gains(t, S)
  BY <1>1, <1>2 DEF Backtest!Report, Backtest!Sides, Earned
<1>5. Backtest!Gains(t, DOMAIN t) = Backtest!Gains(t, L) + Backtest!Gains(t, S)
  <2>1. PICK f : f = [k \in DOMAIN t |-> t[k].pnl]
    OBVIOUS
  <2>2. L \in SUBSET DOMAIN t /\ S \in SUBSET DOMAIN t
    BY <1>3
  <2>3. IsFiniteSet(L) /\ IsFiniteSet(S)
    BY <2>2, EarnedIs
  <2>4. \A k \in L \cup S : f[k] \in Int
    <3>1. \A k \in DOMAIN t : t[k] \in Exited
      OBVIOUS
    <3> QED BY <1>3, <2>1, <3>1 DEF Exited
  <2>5. Total(f, L \cup S) = Total(f, L) + Total(f, S)
    BY <1>3, <2>3, <2>4, SumJoins
  <2> QED BY <1>3, <2>1, <2>5, SameBacktest DEF Backtest!Gains
<1> QED BY <1>1, <1>4, <1>5 DEF Sound, Explaining, Earned

-----------------------------------------------------------------------------
(* Backtest: the invariant and its steps.                                   *)

\* What the engines of a backtest are given, and how far they are.
Given ==
    /\ stage \in {"request", "running", "done", "failed", "closed"}
    /\ decider \in {"rules", "ai"}
    /\ data \in [Backtest!Worlds -> Charts]
    /\ hour \in 0 .. LastHour
    /\ replies \in 0 .. MaxReplies
    /\ saved = {} \/ \E x : saved = {x}

\* The engines: nothing is done before the first point of a curve.
Engined ==
    /\ \A w \in Backtest!Worlds : Sound(run[w])
    /\ stage \in {"request", "running"} => \A w \in Backtest!Worlds : Fresh(run[w])
    /\ stage = "request" => hour = 0 /\ run[1] = run[2]
    /\ stage = "done" => \A w \in Backtest!Worlds : run[w].acct.pos = [s \in Coins |-> Backtest!Flat]

BacktestInv == Given /\ Engined /\ Backtest!NoHindsight

LEMMA BacktestInit ==
  ASSUME Backtest!SimulatorParameters, Backtest!BacktestParameters, Backtest!Init
  PROVE  BacktestInv
<1>1. run[1] = Backtest!NewRun /\ run[2] = Backtest!NewRun
  BY DEF Backtest!Init, Backtest!Worlds
<1>2. Engined
  BY <1>1, NewRunIs DEF Engined, Backtest!Init, Backtest!Worlds
<1>3. data \in [Backtest!Worlds -> Charts]
  <2>1. Backtest!NoData \in Charts
    BY DEF Backtest!NoData, Charts, Backtest!Hours
  <2> QED BY <2>1 DEF Backtest!Init
<1>4. Given
  BY <1>3 DEF Given, Backtest!Init, Backtest!BacktestParameters
<1> QED BY <1>1, <1>2, <1>4 DEF BacktestInv, Backtest!NoHindsight

(* Histories are loaded up to the page that fails.                          *)
LEMMA LoadKeeps ==
  ASSUME Backtest!SimulatorParameters, Backtest!BacktestParameters, BacktestInv,
         NEW asked, NEW h1 \in Histories, NEW h2 \in Histories, NEW end, Backtest!Load(asked, h1, h2, end)
  PROVE  BacktestInv'
<1>1. PICK reached : reached = [s \in Coins |-> IF s \in asked THEN end[s] ELSE 0]
  OBVIOUS
<1>2. PICK d, e : d = Backtest!Loaded(h1, reached) /\ e = Backtest!Loaded(h2, reached)
  OBVIOUS
<1>3. /\ stage = "request" /\ data' = <<d, e>> /\ stage' \in {"running", "failed"}
      /\ UNCHANGED <<decider, hour, run, replies, saved>>
  BY <1>1, <1>2 DEF Backtest!Load
<1>4. ASSUME NEW h \in Histories PROVE Backtest!Loaded(h, reached) \in Charts
  <2>1. h \in Charts
    BY DEF Backtest!BacktestParameters, Backtest!Hours, Charts
  <2>2. \A s \in Coins, u \in 1 .. LastHour : h[s][u] \in Candles \cup {0}
    BY <2>1 DEF Charts
  <2> QED BY <2>2 DEF Backtest!Loaded, Backtest!Hours, Charts
<1>5. data' \in [Backtest!Worlds -> Charts]
  BY <1>2, <1>3, <1>4 DEF Backtest!Worlds
<1>6. Given'
  BY <1>3, <1>5 DEF Given, BacktestInv
<1>7. Engined' /\ run'[1] = run'[2]
  BY <1>3 DEF BacktestInv, Engined
<1> QED BY <1>6, <1>7 DEF BacktestInv, Backtest!NoHindsight

(* The next candle, and the decision on it.                                 *)
LEMMA CandleKeeps ==
  ASSUME Backtest!SimulatorParameters, Backtest!BacktestParameters, BacktestInv,
         NEW answer \in Replies \cup {<<>>}, Backtest!Candle(answer)
  PROVE  BacktestInv'
<1>1. /\ stage = "running" /\ hour < LastHour /\ hour' = hour + 1
      /\ run' = [w \in Backtest!Worlds |-> Backtest!Replayed(run[w], data[w], hour', answer)]
      /\ (answer # <<>> => replies < MaxReplies)
      /\ replies' = IF answer = <<>> THEN replies ELSE replies + 1
      /\ UNCHANGED <<stage, decider, data, saved>>
  BY DEF Backtest!Candle
<1>2. LastHour \in Nat /\ MaxReplies \in Nat /\ Watched \in Seq(Coins)
  BY DEF Backtest!BacktestParameters
<1>3. PICK t \in 1 .. LastHour : t = hour'
  BY <1>1, <1>2 DEF BacktestInv, Given
<1>4. answer \in Seq(Orderly)
  <2>1. CASE answer = <<>>
    BY <2>1
  <2>2. CASE answer \in Replies
    <3>1. answer \in Seq(Backtest!Instructions) /\ \A k \in DOMAIN answer : answer[k].notional >= 0
      BY <2>2 DEF Backtest!BacktestParameters
    <3>2. PICK n \in Nat : n = Len(answer) /\ answer \in [1 .. n -> Backtest!Instructions]
      BY <3>1
    <3>3. answer \in [1 .. n -> Orderly]
      BY <3>1, <3>2 DEF Orderly
    <3> QED BY <3>3
  <2> QED BY <2>1, <2>2
<1>5. ASSUME NEW w \in Backtest!Worlds PROVE Sound(run'[w]) /\ Fresh(run'[w])
  <2>1. Sound(run[w]) /\ Fresh(run[w]) /\ data[w] \in Charts
    BY <1>1 DEF BacktestInv, Engined, Given
  <2>2. run'[w] = Backtest!Replayed(run[w], data[w], t, answer)
    BY <1>1, <1>3
  <2> QED BY <1>4, <2>1, <2>2, ReplayedIs
<1>6. Given'
  <2>1. hour' \in 0 .. LastHour
    BY <1>2, <1>3
  <2>2. replies' \in 0 .. MaxReplies
    BY <1>1, <1>2 DEF BacktestInv, Given
  <2> QED BY <1>1, <2>1, <2>2 DEF BacktestInv, Given
<1>7. Engined'
  BY <1>1, <1>5 DEF Engined
<1>8. ASSUME \A s \in Coins, u \in 1 .. t : data[1][s][u] = data[2][s][u]
      PROVE  run'[1] = run'[2]
  <2>1. \A u \in 1 .. hour : u \in 1 .. t
    BY <1>1, <1>3 DEF BacktestInv, Given
  <2>2. run[1] = run[2]
    BY <1>8, <2>1 DEF BacktestInv, Backtest!NoHindsight, Backtest!Alike
  <2>3. /\ run'[1] = Backtest!Replayed(run[1], data[1], t, answer)
        /\ run'[2] = Backtest!Replayed(run[2], data[2], t, answer)
    BY <1>1, <1>3 DEF Backtest!Worlds
  <2>4. PICK d, e, r : d = data[1] /\ e = data[2] /\ r = run[1] /\ r = run[2]
    BY <2>2
  <2>5. \A s \in Coins, u \in 1 .. t : d[s][u] = e[s][u]
    BY <1>8, <2>4
  <2>6. Backtest!Replayed(r, d, t, answer) = Backtest!Replayed(r, e, t, answer)
    BY <1>2, <2>5, ReplayAgrees
  <2> QED BY <2>3, <2>4, <2>6
<1>9. Backtest!NoHindsight'
  BY <1>1, <1>3, <1>8 DEF Backtest!NoHindsight, Backtest!Alike
<1> QED BY <1>6, <1>7, <1>9 DEF BacktestInv

LEMMA FinishingKeeps ==
  ASSUME Backtest!SimulatorParameters, BacktestInv, Backtest!Finish
  PROVE  BacktestInv'
<1>1. /\ run' = [w \in Backtest!Worlds |-> Backtest!Liquidated(run[w])]
      /\ stage' = "done" /\ UNCHANGED <<decider, data, hour, replies, saved>>
  BY DEF Backtest!Finish
<1>2. ASSUME NEW w \in Backtest!Worlds
      PROVE  Sound(run'[w]) /\ run'[w].acct.pos = [s \in Coins |-> Backtest!Flat]
  <2>1. Sound(run[w]) /\ run'[w] = Backtest!Liquidated(run[w])
    BY <1>1 DEF BacktestInv, Engined
  <2> QED BY <2>1, LiquidatedIs
<1>3. Engined'
  BY <1>1, <1>2 DEF Engined
<1>4. run[1] = run[2] => run'[1] = run'[2]
  BY <1>1 DEF Backtest!Worlds
<1>5. Given'
  BY <1>1 DEF BacktestInv, Given
<1> QED BY <1>1, <1>3, <1>4, <1>5 DEF BacktestInv, Backtest!NoHindsight, Backtest!Alike

\* A run that fails, and what becomes of the result of one that does not.
LEMMA EndKeeps ==
  ASSUME BacktestInv, Backtest!Fail \/ Backtest!Save \/ Backtest!Delete
  PROVE  BacktestInv'
<1>1. /\ UNCHANGED <<decider, data, hour, run, replies>>
      /\ stage' \in {stage, "failed", "closed"}
      /\ saved' = saved \/ saved' = {} \/ \E x : saved' = {x}
  BY DEF Backtest!Fail, Backtest!Save, Backtest!Delete
<1>2. Given'
  BY <1>1 DEF BacktestInv, Given
<1>3. Engined'
  BY <1>1 DEF BacktestInv, Engined
<1> QED BY <1>1, <1>2, <1>3 DEF BacktestInv, Backtest!NoHindsight, Backtest!Alike

LEMMA BacktestNext ==
  ASSUME Backtest!SimulatorParameters, Backtest!BacktestParameters, BacktestInv,
         [Backtest!Next]_backtestVars
  PROVE  BacktestInv'
<1>1. ASSUME NEW asked, NEW h1 \in Histories, NEW h2 \in Histories, NEW end,
             Backtest!Load(asked, h1, h2, end)
      PROVE  BacktestInv'
  BY <1>1, LoadKeeps
<1>2. ASSUME NEW answer \in Replies \cup {<<>>}, Backtest!Candle(answer) PROVE BacktestInv'
  BY <1>2, CandleKeeps
<1>3. CASE Backtest!Finish
  BY <1>3, FinishingKeeps
<1>4. CASE Backtest!Fail \/ Backtest!Save \/ Backtest!Delete
  BY <1>4, EndKeeps
<1>5. CASE UNCHANGED backtestVars
  BY <1>5 DEF backtestVars, BacktestInv, Given, Engined, Backtest!NoHindsight, Backtest!Alike
<1> QED BY <1>1, <1>2, <1>3, <1>4, <1>5 DEF Backtest!Next

LEMMA BacktestTells ==
  ASSUME Backtest!SimulatorParameters, BacktestInv
  PROVE  Backtest!TypeOK /\ Backtest!ReportIsHonest
<1>1. \A w \in Backtest!Worlds : Sound(run[w])
  BY DEF BacktestInv, Engined
<1>2. Backtest!TypeOK
  <2>1. ASSUME NEW w \in Backtest!Worlds PROVE run[w].acct \in Backtest!Accounts
    <3>1. run[w].acct \in Funds
      BY <1>1 DEF Sound, Runs
    <3>2. Owned \subseteq Backtest!Positions
      BY DEF Owned
    <3> QED BY <3>1, <3>2 DEF Funds, Backtest!Accounts
  <2>2. Backtest!Cardinality(saved) <= 1
    <3>1. Cardinality(saved) = 0 \/ Cardinality(saved) = 1
      BY FS_EmptySet, FS_Singleton DEF BacktestInv, Given
    <3> QED BY <3>1, SameBacktest
  <2> QED BY <2>1, <2>2 DEF BacktestInv, Given, Charts, Backtest!TypeOK, Backtest!Hours
<1>3. Backtest!ReportAddsUp
  <2> SUFFICES ASSUME stage = "done" PROVE Backtest!ReportAddsUp
    BY DEF Backtest!ReportAddsUp
  <2>1. ASSUME NEW w \in Backtest!Worlds
        PROVE  /\ run[w].acct.pos = [s \in Coins |-> Backtest!Flat]
               /\ Backtest!Report(run[w]).balance - Stake = Backtest!Report(run[w]).total
               /\ Backtest!Report(run[w]).total = Backtest!Report(run[w]).bySide["long"]
                                                    + Backtest!Report(run[w]).bySide["short"]
               /\ Backtest!Report(run[w]).worst = run[w].worst
    <3>1. Sound(run[w])
      BY <1>1
    <3> QED BY <3>1, ReportIs DEF BacktestInv, Engined
  <2>2. ASSUME NEW w \in Backtest!Worlds
        PROVE  LET c == run[w].curve
                   falls == {[fall |-> Top(c, j) - c[j], peak |-> Top(c, j)] : j \in DOMAIN c}
               IN  /\ ~\E f \in falls : Backtest!Deeper(f, run[w].worst)
                   /\ run[w].worst.fall > 0 => run[w].worst \in falls
    BY <1>1 DEF Sound, CurveFits, FallAt
  <2> QED BY <2>1, <2>2 DEF Backtest!ReportAddsUp, Top
<1> QED BY <1>2, <1>3 DEF BacktestInv, Backtest!ReportIsHonest

-----------------------------------------------------------------------------
(* The theorems of the composition.                                         *)

(* A step of the composition is a step of each part, or leaves it alone.    *)
LEMMA PartsMove ==
  ASSUME [Next]_vars
  PROVE  /\ [Ledger!Next]_ledgerVars /\ [Quant!Next]_engineVars /\ [Paper!Next]_paperVars
         /\ [Cycle!Next]_cycleVars /\ [Backtest!Next]_backtestVars /\ [Trader!Next]_traderVars
BY DEF Next, OthersRest, vars

(* In every state the newest versions of the rows, the exchange and what    *)
(* the cycle under way remembers of its row fit together as LedgerInv says  *)
(* (agent_position_service.py, trade_execution_service.py).                 *)
THEOREM LedgerInvariance == Spec => []LedgerInv
<1>1. LedgerConstants
  BY TradingParameters DEF LedgerConstants
<1>2. Init => LedgerInv
  BY <1>1, LedgerInit DEF Init
<1>3. LedgerInv /\ [Next]_vars => LedgerInv'
  BY <1>1, LedgerNext, PartsMove
<1> QED BY <1>2, <1>3, PTL DEF Spec

(* Between the cycles of an agent whose cycles do not overlap, and that is  *)
(* alone on its account, the ledger equals the exchange and its margin      *)
(* stays within its capital in every symbol whose orders reported what they *)
(* filled, whatever orders were rejected, raised or silent, for any         *)
(* symbols, rows and number of orders (agent_position_service.py).          *)
THEOREM LedgerIsAlwaysSound == Spec => []LedgerIsSound
<1>1. LedgerInv => LedgerIsSound
  BY TradingParameters, LedgerTells DEF LedgerIsSound, LedgerConstants
<1> QED BY <1>1, LedgerInvariance, PTL

(* Cycles that are cut short anywhere, failing orders, foreign trades and   *)
(* the reconciliation leave an engine's saved state, its row and the        *)
(* account's position as EngineInv says (quant_engine.py).                  *)
THEOREM EngineInvariance == Spec => []EngineInv
<1>1. Quant!QuantParameters
  BY TradingParameters
<1>2. Init => EngineInv
  BY <1>1, EngineInit DEF Init
<1>3. EngineInv /\ [Next]_vars => EngineInv'
  BY <1>1, EngineNext, PartsMove
<1> QED BY <1>2, <1>3, PTL DEF Spec

(* A DCA engine sells what its row holds, a grid's row has levels to sell   *)
(* and an RSI engine holds one order, for any grid, budget and number of    *)
(* cycles, with the exceptions of StateTellsPosition (quant_engine.py).     *)
THEOREM StatesTellPositions == Spec => []StateTellsPosition
<1>1. EngineInv => StateTellsPosition
  BY StateSuffices DEF StateTellsPosition
<1> QED BY <1>1, EngineInvariance, PTL

(* The account in memory, the committed rows, a cycle's own rows and the    *)
(* counters fit together as PaperInv says (mock_trader.py, ai_backend.py).  *)
THEOREM PaperInvariance == Spec => []PaperInv
<1>1. Paper!SimulatorParameters
  BY TradingParameters
<1>2. Init => PaperInv
  BY <1>1, PaperInit DEF Init
<1>3. PaperInv /\ [Next]_vars => PaperInv'
  BY <1>1, PaperNext, PartsMove
<1> QED BY <1>2, <1>3, PTL DEF Spec

(* A restart gives a paper agent the account it had, and its page shows     *)
(* that account, unless something named in drift has come between, for any  *)
(* symbols, prices and sizes (mock_trader.py, workers/tasks.py).            *)
THEOREM AccountsAlwaysAgree == Spec => []AccountsAgree
<1>1. PaperInv => AccountsAgree
  BY TradingParameters, PaperTells DEF AccountsAgree
<1> QED BY <1>1, PaperInvariance, PTL

(* An order of a paper agent leaves the margin of all positions covered by  *)
(* the balance, for any prices, sizes and leverage (mock_trader.py,         *)
(* simulator.py).                                                           *)
THEOREM MarginsAreCovered == Spec => OrdersKeepMarginCovered
<1>1. PaperInv /\ [Next]_vars => [part = "paper" => Paper!OrderLeavesMarginCovered]_vars
  BY TradingParameters, PartsMove, MarginStaysCovered
<1> QED BY <1>1, PaperInvariance, PTL DEF Spec, OrdersKeepMarginCovered

(* Whatever the models answer and wherever a cycle fails, its results, its  *)
(* orders and its rows fit together as CycleInv says (strategy_engine.py).  *)
THEOREM CycleInvariance == Spec => []CycleInv
<1>1. Cycle!CycleParameters
  BY TradingParameters
<1>2. Init => CycleInv
  BY <1>1, CycleInit DEF Init
<1>3. CycleInv /\ [Next]_vars => CycleInv'
  BY <1>1, CycleNext, PartsMove
<1> QED BY <1>2, <1>3, PTL DEF Spec

(* The orders of a cycle never raise the number of open positions above     *)
(* the limit of the strategy (strategy_engine.py).                          *)
THEOREM PositionsKeepTheirLimit == Spec => [](part = "cycle" => Cycle!WithinMaxPositions)
<1>1. CycleInv => Cycle!WithinMaxPositions
  BY DEF CycleInv, Cycle!WithinMaxPositions
<1> QED BY <1>1, CycleInvariance, PTL

(* The decisions of a plan carry their stops and have the votes of the      *)
(* debate behind them, and so have the orders that were sent from it        *)
(* (debate_engine.py, decision_parser.py).                                  *)
THEOREM RulesInvariance == Spec => []RulesInv
<1>1. Cycle!CycleParameters
  BY TradingParameters
<1>2. Init => RulesInv
  BY <1>1, RulesInit DEF Init
<1>3. RulesInv /\ [Next]_vars => RulesInv'
  BY <1>1, RulesNext, PartsMove
<1> QED BY <1>2, <1>3, PTL DEF Spec

(* For any models, answers, symbols and number of participants, the orders  *)
(* of a cycle keep the limit on positions, carry stops where the symbol has *)
(* a price, and have a majority or all of the debate behind them            *)
(* (strategy_engine.py, debate_engine.py, decision_parser.py).              *)
THEOREM OrdersAlwaysFollowRules == Spec => []OrdersFollowRules
<1>1. CycleInv => Cycle!WithinMaxPositions
  BY DEF CycleInv, Cycle!WithinMaxPositions
<1>2. RulesInv => Cycle!TypeOK
  BY DEF RulesInv
<1>3. RulesInv => Cycle!OpensCarryStops
  BY DEF RulesInv, Equipped, Cycle!OpensCarryStops
<1>4. RulesInv => Cycle!OrdersAreBacked
  BY DEF RulesInv, Backed, Cycle!OrdersAreBacked
<1>5. CycleInv /\ RulesInv => OrdersFollowRules
  BY <1>1, <1>2, <1>3, <1>4 DEF OrdersFollowRules, Cycle!OrdersFollowRules
<1> QED BY <1>5, CycleInvariance, RulesInvariance, PTL

(* A saved record has an executed result for every row that its cycle has   *)
(* changed, unless the call raised after its order (strategy_engine.py).    *)
THEOREM RecordsExplainRows == Spec => RecordExplainsRows
<1>1. CycleInv => Cycle!RecordExplains
  <2> SUFFICES ASSUME CycleInv, Cycle!SaveRecord
               PROVE  /\ IF record'.executed THEN orders # {} ELSE orders = raised
                      /\ \A s \in Cycle!Symbols : holdings[s] # committed[s] =>
                            Cycle!Known(s)' \/ \E o \in raised : o.symbol = s
    BY DEF Cycle!RecordExplains
  <2>1. record' = [saved |-> TRUE, executed |-> SomeExecuted(results), results |-> results]
    BY DEF Cycle!SaveRecord, Cycle!Save, SomeExecuted
  <2>2. record'.results = results /\ record'.executed = SomeExecuted(results)
    BY <2>1
  <2>3. \A s : Cycle!Known(s)' <=> SaysExecuted(results, s)
    BY <2>2 DEF Cycle!Known, SaysExecuted
  <2> QED BY <2>2, <2>3 DEF CycleInv, Accounted, Explained
<1>2. CycleInv /\ [Next]_vars => [part = "cycle" => Cycle!RecordExplains]_vars
  BY <1>1
<1> QED BY <1>2, CycleInvariance, PTL DEF Spec, RecordExplainsRows

(* The engines of two backtests over histories that agree so far are the    *)
(* same, the trades explain the change of the balance, the deepest fall is  *)
(* one of the equity curve's, and nothing is done before its first point    *)
(* (backtest/engine.py, simulator.py, data_provider.py).                    *)
THEOREM BacktestInvariance == Spec => []BacktestInv
<1>1. Backtest!SimulatorParameters /\ Backtest!BacktestParameters
  BY TradingParameters
<1>2. Init => BacktestInv
  BY <1>1, BacktestInit DEF Init
<1>3. BacktestInv /\ [Next]_vars => BacktestInv'
  BY <1>1, BacktestNext, PartsMove
<1> QED BY <1>2, <1>3, PTL DEF Spec

(* For any histories, symbols, windows, answers and number of hours, no     *)
(* decision, stop or metric of a replay looks at a later candle, and the    *)
(* report of a finished run adds up: no position is left, the trades        *)
(* explain the balance as a total and by side, and the drawdown it names is *)
(* the deepest of the curve (backtest/engine.py, simulator.py).             *)
THEOREM ReportsAreHonest == Spec => []ReportIsHonest
<1>1. BacktestInv => ReportIsHonest
  BY TradingParameters, BacktestTells DEF ReportIsHonest
<1> QED BY <1>1, BacktestInvariance, PTL

(* Until its market order is executed a call has no execution behind it,    *)
(* and one from then on, however its requests fail (ccxt_trader.py).        *)
THEOREM TraderInvariance == Spec => []TraderInv
<1>1. Init => TraderInv
  BY TraderInit, TradingParameters DEF Init, TradingParameters
<1>2. TraderInv /\ [Next]_vars => TraderInv'
  BY TraderNext, PartsMove, TradingParameters DEF TradingParameters
<1> QED BY <1>1, <1>2, PTL DEF Spec

(* No call of a trader has its market order executed twice, for any sizes   *)
(* and numbers of tries: a rate limit is tried again, a lost answer is not  *)
(* (ccxt_trader.py).                                                        *)
THEOREM OneFillPerEveryCall == Spec => []OneFillPerCall
<1>1. TraderInv => OneFillPerCall
  BY DEF TraderInv, FillsFit, OneFillPerCall, Trader!OneFillPerCall
<1> QED BY <1>1, TraderInvariance, PTL
=============================================================================
