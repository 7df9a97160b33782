------------------------- MODULE PositionLedgerProofs -------------------------
(***************************************************************************)
(* Proofs about the position ledger, for any number of agents, symbols,    *)
(* rows and cycles, any overlap and any faults.                            *)
(*                                                                         *)
(* The invariant has two halves.  LedgerInv speaks of the rows, their      *)
(* uncommitted versions and the transactions that hold them; every ledger  *)
(* step is a Write, a Commit or a Rollback, and a lemma says what each     *)
(* needs to keep it.  CycleInv ties what a cycle remembers to the rows it  *)
(* claimed or read.                                                        *)
(***************************************************************************)
EXTENDS PositionLedger, TLAPS

Transactions == Cycles \cup {Recon}
Recorded     == {"open", "closed"}

LedgerType ==
    /\ rows  \in [Rows -> Row]
    /\ draft \in [Rows -> Row]
    /\ holder \in [Rows -> Transactions \cup {None}]

\* A row nobody holds has no uncommitted version.
DraftsHeld == \A r \in Rows : holder[r] = None => draft[r] = Absent

\* The newest versions already respect the unique index.
LatestUnique ==
    \A r, q \in Rows :
        r # q /\ Live(Latest(r)) /\ Live(Latest(q)) => ~SameKey(Latest(r), Latest(q))

\* A slot emptied and filled again without a commit is one transaction's work.
SameWriter ==
    \A r, q \in Rows :
        r # q /\ Live(rows[r]) /\ Live(draft[q]) /\ SameKey(rows[r], draft[q]) =>
            holder[r] = holder[q]

\* v may replace the recorded version w.
Advances(w, v) ==
    w.status \in Recorded =>
        /\ v.status \in Recorded
        /\ SameKey(w, v)
        /\ w.status = "closed" => v.status = "closed"

DraftsAdvance == \A r \in Rows : holder[r] # None => Advances(rows[r], draft[r])

Blank(v) == v.status = "absent" => v = Absent

AbsentBlank == \A r \in Rows : Blank(rows[r]) /\ Blank(draft[r])

LedgerInv ==
    /\ LedgerType
    /\ DraftsHeld
    /\ LatestUnique
    /\ SameWriter
    /\ DraftsAdvance
    /\ AbsentBlank
    /\ NoCommittedClaim
    /\ OneLiveRowPerSymbol

\* Every claim belongs to the cycle that is ordering with it ...
ClaimsOwned ==
    \A r \in Rows : draft[r].status = "pending" =>
        /\ rows[r] = Absent
        /\ \E c \in Cycles : holder[r] = c /\ FreshOrder(c) /\ cyc[c].row = r

\* ... and every such cycle has its claim.
FreshClaims ==
    \A c \in Cycles : FreshOrder(c) =>
        /\ cyc[c].row \in Rows
        /\ holder[cyc[c].row] = c
        /\ draft[cyc[c].row].status = "pending"
        /\ HasKey(draft[cyc[c].row], cyc[c].agent, cyc[c].symbol)

\* The record a cycle found when it read the ledger.
FoundRecord(c) ==
    cyc[c].existing \/ (cyc[c].pc \in {"close", "closerec"} /\ cyc[c].row # None)

Backed(c) ==
    FoundRecord(c) =>
        /\ cyc[c].row \in Rows
        /\ \/ rows[cyc[c].row].status \in Recorded
           \/ holder[cyc[c].row] = c /\ draft[cyc[c].row].status \in Recorded

FoundRecorded == \A c \in Cycles : Backed(c)

Unread == {"idle", "ready", "claim", "check", "insert", "close", "closerec"}

\* A cycle with a decision under way has a symbol; it knows of no existing
\* record before it has claimed one, and books the close of a record only
\* when it has one.
Coherent(c) ==
    /\ cyc[c].pc \notin {"idle", "ready"} => cyc[c].symbol \in Symbols
    /\ cyc[c].pc \in Unread => ~cyc[c].existing
    /\ cyc[c].pc = "closerec" => cyc[c].row # None

CyclesCoherent == \A c \in Cycles : Coherent(c)

ZombiesRecorded == \A r \in recon.zombies : rows[r].status \in Recorded

CycleInv ==
    /\ ClaimsOwned
    /\ FreshClaims
    /\ FoundRecorded
    /\ CyclesCoherent
    /\ ZombiesRecorded

IInv == TypeOK /\ LedgerInv /\ CycleInv

-----------------------------------------------------------------------------
(* The ledger's three operations keep its invariant.                        *)

LEMMA TransactionsNotNone == None \notin Transactions
BY CyclesAssumption DEF Transactions

\* Writing v to row r: v is alone in its slot, the committed rows of the slot
\* are held by the same transaction, and v may replace what is recorded.
LEMMA WriteKeepsLedger ==
    ASSUME LedgerInv, NEW t \in Transactions, NEW r \in Rows, NEW v \in Row,
           Writable(t, r), Write(t, r, v),
           Live(v) => \A q \in Rows \ {r} : Live(Latest(q)) => ~SameKey(v, Latest(q)),
           Live(v) => \A q \in Rows \ {r} :
                          Live(rows[q]) /\ SameKey(rows[q], v) => holder[q] = t,
           Advances(rows[r], v), Blank(v)
    PROVE  LedgerInv'
<1> USE DEF Write, LedgerType
<1>1. t # None
  BY TransactionsNotNone
<1>2. LedgerType'
  BY DEF LedgerInv
<1>3. /\ rows' = rows
      /\ \A q \in Rows : draft'[q] = IF q = r THEN v ELSE draft[q]
      /\ \A q \in Rows : holder'[q] = IF q = r THEN t ELSE holder[q]
  BY DEF LedgerInv
<1> HIDE DEF Write
<1>4. DraftsHeld'
  BY <1>1, <1>3 DEF LedgerInv, DraftsHeld
<1>5. \A q \in Rows : Latest(q)' = IF q = r THEN v ELSE Latest(q)
  BY <1>1, <1>3 DEF Latest
<1>6. LatestUnique'
  BY <1>5 DEF LedgerInv, LatestUnique, SameKey
<1>7. SameWriter'
  <2> SUFFICES ASSUME NEW p \in Rows, NEW q \in Rows, p # q,
                      Live(rows[p]), Live(draft'[q]), SameKey(rows[p], draft'[q])
               PROVE  holder'[p] = holder'[q]
    BY <1>3 DEF SameWriter
  <2>1. CASE q = r
    BY <1>3, <2>1
  <2>2. CASE p = r
    <3>1. q # r /\ draft'[q] = draft[q] /\ holder'[q] = holder[q]
      BY <1>3, <2>2
    <3>2. holder[r] = holder[q]
      BY <2>2, <3>1 DEF LedgerInv, SameWriter
    <3>3. holder[q] # None
      BY <3>1 DEF LedgerInv, DraftsHeld, Live, Absent
    <3> QED
      BY <1>3, <2>2, <3>1, <3>2, <3>3 DEF Writable
  <2>3. CASE p # r /\ q # r
    BY <1>3, <2>3 DEF LedgerInv, SameWriter
  <2> QED
    BY <2>1, <2>2, <2>3
<1>8. DraftsAdvance'
  BY <1>3 DEF LedgerInv, DraftsAdvance
<1>9. AbsentBlank'
  BY <1>3 DEF LedgerInv, AbsentBlank
<1>10. NoCommittedClaim' /\ OneLiveRowPerSymbol'
  BY <1>3 DEF LedgerInv, NoCommittedClaim, OneLiveRowPerSymbol
<1> QED
  BY <1>2, <1>4, <1>6, <1>7, <1>8, <1>9, <1>10 DEF LedgerInv

\* The usual write: the newest version changes within its slot.
LEMMA UpdateKeepsLedger ==
    ASSUME LedgerInv, NEW t \in Transactions, NEW r \in Rows, NEW v \in Row,
           Writable(t, r), Write(t, r, v),
           SameKey(v, Latest(r)), Live(v) => Live(Latest(r)),
           Advances(rows[r], v), Blank(v)
    PROVE  LedgerInv'
<1>1. Live(v) => \A q \in Rows \ {r} : Live(Latest(q)) => ~SameKey(v, Latest(q))
  BY DEF LedgerInv, LatestUnique, SameKey
<1>2. ASSUME Live(v), NEW q \in Rows \ {r}, Live(rows[q]), SameKey(rows[q], v)
      PROVE  holder[q] = t
  <2>1. CASE holder[r] = None
    BY <1>2, <2>1 DEF LedgerInv, OneLiveRowPerSymbol, Latest, SameKey
  <2>2. CASE holder[r] = t /\ holder[r] # None
    BY <1>2, <2>2 DEF LedgerInv, SameWriter, Latest, SameKey
  <2> QED
    BY <2>1, <2>2 DEF Writable
<1> QED
  BY <1>1, <1>2, WriteKeepsLedger

\* A transaction commits, none of its rows being a claim any more.
LEMMA CommitKeepsLedger ==
    ASSUME LedgerInv, NEW t \in Transactions, Commit(t),
           \A r \in Rows : holder[r] = t => draft[r].status # "pending"
    PROVE  LedgerInv'
<1> USE DEF LedgerType
<1>1. t # None
  BY TransactionsNotNone
<1>2. Absent \in Row
  BY DEF Absent, Row, Statuses, Sides
<1>3. LedgerType'
  BY <1>2 DEF LedgerInv, Commit
<1>4. \A r \in Rows : holder[r] = t =>
          rows'[r] = draft[r] /\ draft'[r] = Absent /\ holder'[r] = None
  BY DEF Commit
<1>5. \A r \in Rows : holder[r] # t =>
          rows'[r] = rows[r] /\ draft'[r] = draft[r] /\ holder'[r] = holder[r]
  BY DEF Commit
<1>6. DraftsHeld'
  BY <1>4, <1>5 DEF LedgerInv, DraftsHeld, Absent
<1>7. \A r \in Rows : Latest(r)' = Latest(r)
  BY <1>1, <1>4, <1>5 DEF Latest
<1>8. LatestUnique'
  BY <1>7 DEF LedgerInv, LatestUnique
<1>9. ~Live(Absent)
  BY DEF Live, Absent
<1>10. SameWriter'
  <2> SUFFICES ASSUME NEW r \in Rows, NEW q \in Rows, r # q,
                      Live(rows'[r]), Live(draft'[q]), SameKey(rows'[r], draft'[q])
               PROVE  holder'[r] = holder'[q]
    BY DEF SameWriter
  <2>1. holder[q] # t /\ draft'[q] = draft[q] /\ holder'[q] = holder[q]
    BY <1>4, <1>5, <1>9
  <2>2. holder[q] # None
    BY <1>9, <2>1 DEF LedgerInv, DraftsHeld
  <2>3. CASE holder[r] = t
    BY <1>1, <1>4, <2>1, <2>2, <2>3 DEF LedgerInv, LatestUnique, Latest
  <2>4. CASE holder[r] # t
    BY <1>5, <2>1, <2>4 DEF LedgerInv, SameWriter
  <2> QED
    BY <2>3, <2>4
<1>11. DraftsAdvance'
  BY <1>4, <1>5 DEF LedgerInv, DraftsAdvance
<1>12. AbsentBlank'
  BY <1>4, <1>5 DEF LedgerInv, AbsentBlank, Blank
<1>13. NoCommittedClaim'
  BY <1>4, <1>5 DEF LedgerInv, NoCommittedClaim
<1>14. OneLiveRowPerSymbol'
  <2> SUFFICES ASSUME NEW r \in Rows, NEW q \in Rows, r # q,
                      Live(rows'[r]), Live(rows'[q]), SameKey(rows'[r], rows'[q])
               PROVE  FALSE
    BY DEF OneLiveRowPerSymbol
  <2>1. CASE holder[r] = t /\ holder[q] = t
    BY <1>1, <1>4, <2>1 DEF LedgerInv, LatestUnique, Latest
  <2>2. CASE holder[r] = t /\ holder[q] # t
    BY <1>4, <1>5, <2>2 DEF LedgerInv, SameWriter, SameKey
  <2>3. CASE holder[r] # t /\ holder[q] = t
    BY <1>4, <1>5, <2>3 DEF LedgerInv, SameWriter, SameKey
  <2>4. CASE holder[r] # t /\ holder[q] # t
    BY <1>5, <2>4 DEF LedgerInv, OneLiveRowPerSymbol
  <2> QED
    BY <2>1, <2>2, <2>3, <2>4
<1> QED
  BY <1>3, <1>6, <1>8, <1>10, <1>11, <1>12, <1>13, <1>14 DEF LedgerInv

\* A transaction rolls back.
LEMMA RollbackKeepsLedger ==
    ASSUME LedgerInv, NEW t \in Transactions, Rollback(t)
    PROVE  LedgerInv'
<1> USE DEF LedgerType
<1>1. t # None
  BY TransactionsNotNone
<1>2. Absent \in Row /\ ~Live(Absent)
  BY DEF Absent, Row, Statuses, Sides, Live
<1>3. LedgerType'
  BY <1>2 DEF LedgerInv, Rollback
<1>4. \A r \in Rows : holder[r] = t => draft'[r] = Absent /\ holder'[r] = None
  BY DEF Rollback
<1>5. \A r \in Rows : holder[r] # t => draft'[r] = draft[r] /\ holder'[r] = holder[r]
  BY DEF Rollback
<1>6. rows' = rows
  BY DEF Rollback
<1>7. DraftsHeld'
  BY <1>4, <1>5 DEF LedgerInv, DraftsHeld, Absent
<1>8. \A r \in Rows : Latest(r)' = IF holder[r] = t THEN rows[r] ELSE Latest(r)
  BY <1>1, <1>4, <1>5, <1>6 DEF Latest
<1>9. ASSUME NEW r \in Rows, NEW q \in Rows, r # q, holder[r] = t, holder[q] # t,
             Live(rows[r]), Live(Latest(q))
      PROVE  ~SameKey(rows[r], Latest(q))
  <2>1. CASE holder[q] = None
    BY <1>9, <2>1 DEF LedgerInv, OneLiveRowPerSymbol, Latest
  <2>2. CASE holder[q] # None
    BY <1>9, <2>2 DEF LedgerInv, SameWriter, Latest
  <2> QED
    BY <2>1, <2>2
<1>10. LatestUnique'
  <2> SUFFICES ASSUME NEW r \in Rows, NEW q \in Rows, r # q,
                      Live(Latest(r))', Live(Latest(q))'
               PROVE  ~SameKey(Latest(r), Latest(q))'
    BY DEF LatestUnique
  <2>1. CASE holder[r] = t /\ holder[q] = t
    BY <1>8, <2>1 DEF LedgerInv, OneLiveRowPerSymbol
  <2>2. CASE holder[r] = t /\ holder[q] # t
    BY <1>8, <1>9, <2>2
  <2>3. CASE holder[r] # t /\ holder[q] = t
    BY <1>8, <1>9, <2>3 DEF SameKey
  <2>4. CASE holder[r] # t /\ holder[q] # t
    BY <1>8, <2>4 DEF LedgerInv, LatestUnique
  <2> QED
    BY <2>1, <2>2, <2>3, <2>4
<1>11. SameWriter'
  <2> SUFFICES ASSUME NEW r \in Rows, NEW q \in Rows, r # q,
                      Live(rows[r]), Live(draft'[q]), SameKey(rows[r], draft'[q])
               PROVE  holder'[r] = holder'[q]
    BY <1>6 DEF SameWriter
  <2>1. holder[q] # t /\ draft'[q] = draft[q] /\ holder'[q] = holder[q]
    BY <1>2, <1>4, <1>5
  <2>2. holder[r] = holder[q]
    BY <2>1 DEF LedgerInv, SameWriter
  <2> QED
    BY <1>5, <2>1, <2>2
<1>12. DraftsAdvance'
  BY <1>4, <1>5, <1>6 DEF LedgerInv, DraftsAdvance
<1>13. AbsentBlank'
  BY <1>4, <1>5, <1>6 DEF LedgerInv, AbsentBlank, Blank
<1>14. NoCommittedClaim' /\ OneLiveRowPerSymbol'
  BY <1>6 DEF LedgerInv, NoCommittedClaim, OneLiveRowPerSymbol
<1> QED
  BY <1>3, <1>7, <1>10, <1>11, <1>12, <1>13, <1>14 DEF LedgerInv

LEMMA IdleKeepsLedger ==
    ASSUME LedgerInv, UNCHANGED ledger
    PROVE  LedgerInv'
BY DEF LedgerInv, ledger, LedgerType, DraftsHeld, LatestUnique, SameWriter, DraftsAdvance,
       AbsentBlank, NoCommittedClaim, OneLiveRowPerSymbol, Latest

-----------------------------------------------------------------------------
(* What a cycle may do without touching the ledger.                         *)

LEMMA LocalStepKeepsCycles ==
    ASSUME CycleInv, NEW c \in Cycles, UNCHANGED ledger, recon'.zombies = recon.zombies,
           \A d \in Cycles \ {c} : cyc'[d] = cyc[d],
           FreshOrder(c)' <=> FreshOrder(c),
           FreshOrder(c)' => /\ cyc'[c].row = cyc[c].row
                             /\ cyc'[c].agent = cyc[c].agent
                             /\ cyc'[c].symbol = cyc[c].symbol,
           Backed(c)', Coherent(c)'
    PROVE  CycleInv'
<1> USE DEF ledger
<1>1. \A d \in Cycles \ {c} : FreshOrder(d)' = FreshOrder(d)
  BY DEF FreshOrder
<1>2. ClaimsOwned'
  BY <1>1 DEF CycleInv, ClaimsOwned
<1>3. FreshClaims'
  BY <1>1 DEF CycleInv, FreshClaims, HasKey
<1>4. FoundRecorded'
  BY DEF CycleInv, FoundRecorded, FoundRecord, Backed
<1>5. CyclesCoherent'
  BY DEF CycleInv, CyclesCoherent, Coherent, Unread
<1>6. ZombiesRecorded'
  BY DEF CycleInv, ZombiesRecorded
<1> QED
  BY <1>2, <1>3, <1>4, <1>5, <1>6 DEF CycleInv

\* Nothing of the ledger or of a cycle changes.
LEMMA IdleKeepsCycles ==
    ASSUME CycleInv, UNCHANGED <<ledger, cyc>>, recon'.zombies = recon.zombies
    PROVE  CycleInv'
BY DEF ledger, CycleInv, ClaimsOwned, FreshClaims, FoundRecorded, CyclesCoherent,
       ZombiesRecorded, FoundRecord, FreshOrder, HasKey, Backed, Coherent, Unread

LEMMA ReadyCycleFields ==
    \A a \in Agents \cup {None} :
        /\ ReadyCycle(a) \in Cycle
        /\ ReadyCycle(a).pc = "ready" /\ ReadyCycle(a).agent = a
        /\ ReadyCycle(a).row = None /\ ~ReadyCycle(a).existing
BY DEF ReadyCycle, IdleCycle, Cycle, Pcs, Sides

LEMMA IdleCycleFields ==
    IdleCycle \in Cycle /\ IdleCycle.pc = "idle" /\ ~IdleCycle.existing
BY DEF IdleCycle, Cycle, Pcs, Sides

\* A decision ends: the cycle is ready for the next one.
LEMMA DoneKeepsCycles ==
    ASSUME TypeOK, CycleInv, NEW c \in Cycles, Done(c), UNCHANGED ledger,
           recon'.zombies = recon.zombies, ~FreshOrder(c)
    PROVE  CycleInv' /\ cyc' \in [Cycles -> Cycle]
<1>1. cyc[c].agent \in Agents \cup {None}
  BY DEF TypeOK, Cycle
<1>2. cyc' \in [Cycles -> Cycle] /\ cyc'[c] = ReadyCycle(cyc[c].agent)
      /\ \A d \in Cycles \ {c} : cyc'[d] = cyc[d]
  BY <1>1, ReadyCycleFields DEF Done, TypeOK
<1>3. cyc'[c].pc = "ready" /\ ~cyc'[c].existing
  BY <1>1, <1>2, ReadyCycleFields
<1>4. ~FreshOrder(c)' /\ Backed(c)' /\ Coherent(c)'
  BY <1>3 DEF FreshOrder, Backed, FoundRecord, Coherent
<1> QED
  BY <1>2, <1>4, LocalStepKeepsCycles

\* The cycle moves on to another step of the same decision.
LEMMA GotoKeepsCycles ==
    ASSUME TypeOK, CycleInv, NEW c \in Cycles, NEW label \in Pcs,
           cyc' \in [Cycles -> Cycle], cyc'[c].pc = label,
           \A d \in Cycles \ {c} : cyc'[d] = cyc[d],
           cyc'[c].row = cyc[c].row, cyc'[c].existing = cyc[c].existing,
           cyc'[c].agent = cyc[c].agent, cyc'[c].symbol = cyc[c].symbol,
           UNCHANGED ledger, recon'.zombies = recon.zombies,
           FreshOrder(c)' <=> FreshOrder(c),
           label \notin {"idle", "ready"}, cyc[c].pc \notin {"idle", "ready"},
           label \in Unread => cyc[c].pc \in Unread,
           label \in {"close", "closerec"} => cyc[c].pc = "close" /\ cyc[c].row # None
    PROVE  CycleInv'
<1>1. Backed(c)'
  BY DEF CycleInv, FoundRecorded, Backed, FoundRecord, ledger
<1>2. Coherent(c)'
  BY DEF CycleInv, CyclesCoherent, Coherent
<1> QED
  BY <1>1, <1>2, LocalStepKeepsCycles

-----------------------------------------------------------------------------
(* The actions of a cycle keep the invariant.                               *)

LEMMA BeginKeeps ==
    ASSUME IInv, NEW c \in Cycles, NEW a \in Agents, Begin(c, a)
    PROVE  IInv'
<1> USE DEF IInv
<1>1. cyc' \in [Cycles -> Cycle] /\ cyc'[c] = ReadyCycle(a)
      /\ \A d \in Cycles \ {c} : cyc'[d] = cyc[d]
  BY ReadyCycleFields DEF Begin, TypeOK
<1>2. TypeOK'
  BY <1>1 DEF Begin, TypeOK, ledger
<1>3. LedgerInv'
  BY IdleKeepsLedger DEF Begin
<1>4. ~FreshOrder(c) /\ ~FreshOrder(c)'
  BY <1>1, ReadyCycleFields DEF FreshOrder, Begin, At
<1>5. Backed(c)' /\ Coherent(c)'
  BY <1>1, ReadyCycleFields DEF Backed, FoundRecord, Coherent
<1>6. CycleInv'
  BY <1>1, <1>4, <1>5, LocalStepKeepsCycles DEF Begin
<1> QED
  BY <1>2, <1>3, <1>6

LEMMA ClaimingKeeps ==
    ASSUME IInv, NEW c \in Cycles, Claiming(c)
    PROVE  IInv'
<1> USE DEF IInv, At
<1>0. cyc[c] \in Cycle /\ cyc[c].agent \in Agents \cup {None} /\ Coherent(c)
  BY DEF TypeOK, Cycle, CycleInv, CyclesCoherent
<1>1. ASSUME NEW s \in Symbols, NEW sd \in Sides, DecideOpen(c, s, sd)
      PROVE  IInv'
  <2>1. /\ cyc' \in [Cycles -> Cycle]
        /\ cyc'[c].pc = "claim" /\ cyc'[c].existing = cyc[c].existing
        /\ cyc'[c].symbol = s
        /\ \A d \in Cycles \ {c} : cyc'[d] = cyc[d]
    BY <1>0, <1>1 DEF DecideOpen, TypeOK, Cycle, Pcs
  <2>2. TypeOK'
    BY <1>1, <2>1 DEF DecideOpen, TypeOK, ledger
  <2>3. LedgerInv'
    BY <1>1, IdleKeepsLedger DEF DecideOpen
  <2>4. ~FreshOrder(c) /\ ~FreshOrder(c)' /\ Backed(c)' /\ Coherent(c)'
    BY <1>0, <1>1, <2>1 DEF DecideOpen, FreshOrder, Backed, FoundRecord, Coherent, Unread
  <2> QED
    BY <1>1, <2>1, <2>2, <2>3, <2>4, LocalStepKeepsCycles DEF DecideOpen
<1>2. CASE TakeCapitalLock(c)
  <2>1. /\ cyc' \in [Cycles -> Cycle]
        /\ cyc'[c] = [cyc[c] EXCEPT !.pc = "check"]
        /\ \A d \in Cycles \ {c} : cyc'[d] = cyc[d]
    BY <1>2 DEF TakeCapitalLock, Goto, TypeOK, Cycle, Pcs
  <2>2. TypeOK'
    BY <1>2, <2>1 DEF TakeCapitalLock, TypeOK, ledger
  <2>3. LedgerInv'
    BY <1>2, IdleKeepsLedger DEF TakeCapitalLock
  <2>4. ~FreshOrder(c) /\ ~FreshOrder(c)'
    BY <1>0, <1>2, <2>1 DEF TakeCapitalLock, FreshOrder, Cycle
  <2>5. CycleInv'
    BY <1>0, <1>2, <2>1, <2>4, GotoKeepsCycles DEF TakeCapitalLock, Cycle, Pcs, Unread
  <2> QED
    BY <2>2, <2>3, <2>5
<1>3. CASE CapitalLockTimeout(c) \/ CapitalExceeded(c) \/ ClaimConflict(c)
  <2>1. Done(c) /\ ~FreshOrder(c) /\ capLock' \in [Agents -> Cycles \cup {None}]
        /\ UNCHANGED <<ledger, aged, exch, recon, opens, unsure>>
    BY <1>3 DEF CapitalLockTimeout, CapitalExceeded, ClaimConflict, Unlock, FreshOrder, TypeOK
  <2>2. CycleInv' /\ cyc' \in [Cycles -> Cycle]
    BY <2>1, DoneKeepsCycles
  <2>3. TypeOK' /\ LedgerInv'
    BY <2>1, <2>2, IdleKeepsLedger DEF TypeOK, ledger
  <2> QED
    BY <2>2, <2>3
<1>4. CASE ClaimExisting(c)
  <2>1. PICK r \in SlotRows(c, cyc[c].agent, cyc[c].symbol) :
           cyc' = [cyc EXCEPT ![c].pc = "order", ![c].row = r,
                              ![c].existing = Visible(c, r).status = "open",
                              ![c].seen = Visible(c, r).size,
                              ![c].seenUsd = Visible(c, r).usd]
    BY <1>4 DEF ClaimExisting
  <2>2. r \in Rows /\ Visible(c, r) \in Row /\ Live(Visible(c, r))
    BY DEF SlotRows, Visible, TypeOK
  <2>3. Visible(c, r).status = "open"
    <3>1. ~FreshOrder(c)
      BY <1>4 DEF ClaimExisting, FreshOrder
    <3>2. CASE holder[r] = c
      BY <2>2, <3>1, <3>2 DEF Visible, Live, CycleInv, ClaimsOwned
    <3>3. CASE holder[r] # c
      BY <2>2, <3>3 DEF Visible, Live, LedgerInv, NoCommittedClaim
    <3> QED
      BY <3>2, <3>3
  <2>4. /\ cyc' \in [Cycles -> Cycle]
        /\ cyc'[c].pc = "order" /\ cyc'[c].row = r /\ cyc'[c].existing
        /\ cyc'[c].symbol = cyc[c].symbol
        /\ \A d \in Cycles \ {c} : cyc'[d] = cyc[d]
    BY <1>0, <2>1, <2>2, <2>3 DEF TypeOK, Cycle, Pcs, Row
  <2>5. TypeOK'
    BY <1>4, <2>4 DEF ClaimExisting, Unlock, TypeOK, ledger
  <2>6. LedgerInv'
    BY <1>4, IdleKeepsLedger DEF ClaimExisting
  <2>7. ~FreshOrder(c) /\ ~FreshOrder(c)'
    BY <1>4, <2>4 DEF ClaimExisting, FreshOrder
  <2>8. Backed(c)' /\ Coherent(c)'
    BY <1>0, <1>4, <2>2, <2>3, <2>4
    DEF ClaimExisting, Backed, FoundRecord, Coherent, Unread, Visible, Recorded, ledger
  <2> QED
    BY <1>4, <2>4, <2>5, <2>6, <2>7, <2>8, LocalStepKeepsCycles DEF ClaimExisting
<1>5. CASE ClaimMissing(c)
  <2>1. /\ cyc' \in [Cycles -> Cycle]
        /\ cyc'[c] = [cyc[c] EXCEPT !.pc = "insert"]
        /\ \A d \in Cycles \ {c} : cyc'[d] = cyc[d]
    BY <1>5 DEF ClaimMissing, Goto, TypeOK, Cycle, Pcs
  <2>2. TypeOK'
    BY <1>5, <2>1 DEF ClaimMissing, TypeOK, ledger
  <2>3. LedgerInv'
    BY <1>5, IdleKeepsLedger DEF ClaimMissing
  <2>4. ~FreshOrder(c) /\ ~FreshOrder(c)'
    BY <1>0, <1>5, <2>1 DEF ClaimMissing, FreshOrder, Cycle
  <2>5. CycleInv'
    BY <1>0, <1>5, <2>1, <2>4, GotoKeepsCycles DEF ClaimMissing, Cycle, Pcs, Unread
  <2> QED
    BY <2>2, <2>3, <2>5
<1>6. CASE ClaimInsert(c)
  <2> DEFINE v == Pending(cyc[c].agent, cyc[c].symbol, cyc[c].side)
  <2>1. PICK r \in Rows :
           /\ rows[r] = Absent /\ holder[r] = None
           /\ Write(c, r, v)
           /\ cyc' = [cyc EXCEPT ![c].pc = "order", ![c].row = r]
    BY <1>6 DEF ClaimInsert
  <2>2. /\ v \in Row /\ v.status = "pending" /\ HasKey(v, cyc[c].agent, cyc[c].symbol)
        /\ v.agent = cyc[c].agent /\ v.symbol = cyc[c].symbol
    BY <1>0 DEF Pending, Absent, Row, Cycle, Statuses, Sides, HasKey
  <2> HIDE DEF v
  <2>3. \A q \in Rows : Live(Latest(q)) => ~SameKey(v, Latest(q))
    BY <1>6, <2>2 DEF ClaimInsert, SlotTaken, InSlot, HasKey, SameKey
  <2>4. ASSUME NEW q \in Rows \ {r}, Live(rows[q]), SameKey(rows[q], v)
        PROVE  holder[q] = c
    <3>1. holder[q] \in {None, c}
      BY <1>6, <2>2, <2>4
      DEF ClaimInsert, SlotFree, IndexEntries, InSlot, HasKey, SameKey, Writable
    <3>2. holder[q] # None
      BY <2>3, <2>4 DEF Latest, SameKey
    <3> QED
      BY <3>1, <3>2
  <2>5. LedgerInv'
    BY <2>1, <2>2, <2>3, <2>4, WriteKeepsLedger
    DEF Writable, Advances, Blank, Recorded, Absent, Transactions
  <2>6. /\ cyc' \in [Cycles -> Cycle]
        /\ cyc'[c].pc = "order" /\ cyc'[c].row = r /\ ~cyc'[c].existing
        /\ cyc'[c].agent = cyc[c].agent /\ cyc'[c].symbol = cyc[c].symbol
        /\ \A d \in Cycles \ {c} : cyc'[d] = cyc[d]
    BY <1>0, <1>6, <2>1 DEF ClaimInsert, TypeOK, Cycle, Pcs, Coherent, Unread
  <2>7. TypeOK'
    BY <1>6, <2>5, <2>6
    DEF ClaimInsert, Unlock, TypeOK, LedgerInv, LedgerType, Transactions
  <2>8. /\ rows' = rows
        /\ \A q \in Rows : draft'[q] = IF q = r THEN v ELSE draft[q]
        /\ \A q \in Rows : holder'[q] = IF q = r THEN c ELSE holder[q]
    BY <2>1 DEF Write, TypeOK
  <2>9. FreshOrder(c)' /\ ~FreshOrder(c) /\ \A d \in Cycles \ {c} : FreshOrder(d)' = FreshOrder(d)
    BY <1>6, <2>6 DEF ClaimInsert, FreshOrder
  <2>10. ClaimsOwned'
    BY <2>1, <2>6, <2>8, <2>9 DEF CycleInv, ClaimsOwned
  <2>11. FreshClaims'
    <3> SUFFICES ASSUME NEW d \in Cycles, FreshOrder(d)'
                 PROVE  /\ cyc'[d].row \in Rows
                        /\ holder'[cyc'[d].row] = d
                        /\ draft'[cyc'[d].row].status = "pending"
                        /\ HasKey(draft'[cyc'[d].row], cyc'[d].agent, cyc'[d].symbol)
      BY DEF FreshClaims
    <3>1. CASE d = c
      BY <2>2, <2>6, <2>8, <3>1
    <3>2. CASE d # c
      BY <2>1, <2>6, <2>8, <2>9, <3>2, CyclesAssumption DEF CycleInv, FreshClaims
    <3> QED
      BY <3>1, <3>2
  <2>12. FoundRecorded'
    <3>1. Backed(c)'
      BY <2>6 DEF Backed, FoundRecord
    <3>2. ASSUME NEW d \in Cycles \ {c} PROVE Backed(d)'
      BY <2>1, <2>6, <2>8, <3>2, CyclesAssumption
      DEF CycleInv, FoundRecorded, Backed, FoundRecord
    <3> QED
      BY <3>1, <3>2 DEF FoundRecorded
  <2>13. CyclesCoherent'
    BY <1>0, <1>6, <2>6 DEF ClaimInsert, CycleInv, CyclesCoherent, Coherent, Unread
  <2>14. ZombiesRecorded'
    BY <1>6, <2>8 DEF CycleInv, ZombiesRecorded, ClaimInsert
  <2> QED
    BY <2>5, <2>7, <2>10, <2>11, <2>12, <2>13, <2>14 DEF CycleInv
<1> QED
  BY <1>1, <1>2, <1>3, <1>4, <1>5, <1>6 DEF Claiming

\* An order fails or raises: the decision ends, or the cycle goes on with its
\* fresh claim.
LEMMA FailKeepsCycles ==
    ASSUME TypeOK, CycleInv, NEW c \in Cycles, NEW label \in {"release", "verify"},
           At(c, "order"), IF cyc[c].existing THEN Done(c) ELSE Goto(c, label),
           UNCHANGED <<ledger, recon>>
    PROVE  CycleInv' /\ cyc' \in [Cycles -> Cycle]
<1>0. cyc[c] \in Cycle
  BY DEF TypeOK
<1>1. CASE cyc[c].existing
  BY <1>1, DoneKeepsCycles DEF FreshOrder
<1>2. CASE ~cyc[c].existing
  <2>1. /\ cyc' \in [Cycles -> Cycle]
        /\ cyc'[c] = [cyc[c] EXCEPT !.pc = label]
        /\ \A d \in Cycles \ {c} : cyc'[d] = cyc[d]
    <3>1. label \in Pcs
      BY DEF Pcs
    <3>2. [cyc[c] EXCEPT !.pc = label] \in Cycle
      BY <1>0, <3>1 DEF Cycle
    <3> QED
      BY <1>2, <3>2 DEF Goto, TypeOK
  <2>2. cyc'[c].pc = label /\ ~cyc'[c].existing
    BY <1>0, <1>2, <2>1 DEF Cycle
  <2>3. FreshOrder(c) /\ FreshOrder(c)'
    BY <1>2, <2>2 DEF FreshOrder, At
  <2> QED
    BY <1>0, <2>1, <2>3, GotoKeepsCycles DEF Cycle, At, Pcs, Unread
<1> QED
  BY <1>1, <1>2

LEMMA OrderingKeeps ==
    ASSUME IInv, NEW c \in Cycles, Ordering(c)
    PROVE  IInv'
<1> USE DEF IInv
<1>0. cyc[c] \in Cycle /\ cyc[c].symbol \in Symbols \cup {None}
      /\ cyc[c].side \in {1, -1} /\ exch \in [Symbols -> Int]
  BY DEF TypeOK, Cycle, Sides
<1>1. LedgerInv' /\ UNCHANGED <<ledger, aged, capLock, recon, opens>>
  BY IdleKeepsLedger
  DEF Ordering, OrderFilled, OrderUnreported, OrderRejected, OrderAnswerLost, OrderRaised, VerifyFound,
      VerifyNothing
<1>2. exch' \in [Symbols -> Int]
  <2>1. CASE OrderFilled(c) \/ OrderUnreported(c) \/ OrderAnswerLost(c)
    BY <1>0, <2>1 DEF OrderFilled, OrderUnreported, OrderAnswerLost
  <2>2. CASE ~(OrderFilled(c) \/ OrderUnreported(c) \/ OrderAnswerLost(c))
    BY <1>0, <2>2 DEF Ordering, OrderRejected, OrderRaised, VerifyFound, VerifyNothing
  <2> QED
    BY <2>1, <2>2
<1>9. unsure' \subseteq Symbols
  <2>1. CASE OrderUnreported(c)
    BY <2>1 DEF OrderUnreported, At, CycleInv, CyclesCoherent, Coherent, TypeOK
  <2>2. CASE ~OrderUnreported(c)
    BY <2>2 DEF Ordering, OrderFilled, OrderRejected, OrderAnswerLost, OrderRaised,
       VerifyFound, VerifyNothing, TypeOK
  <2> QED
    BY <2>1, <2>2
<1>3. CASE OrderRejected(c) \/ OrderAnswerLost(c) \/ OrderRaised(c)
  <2>1. CycleInv' /\ cyc' \in [Cycles -> Cycle]
    BY <1>3, FailKeepsCycles DEF OrderRejected, OrderAnswerLost, OrderRaised, OrderFailed
  <2> QED
    BY <1>1, <1>2, <1>9, <2>1 DEF TypeOK, ledger
<1>4. CASE OrderFilled(c) \/ OrderUnreported(c) \/ VerifyFound(c)
  <2>1. PICK n \in Nat, m \in Nat : ToRecord(c, n, m)
    <3>1. CASE OrderFilled(c)
      BY <3>1 DEF OrderFilled
    <3>2. CASE OrderUnreported(c)
      BY <3>2, ParametersAssumption DEF OrderUnreported
    <3>3. CASE VerifyFound(c)
      <4>1. cyc[c].symbol \in Symbols => Magnitude(exch[cyc[c].symbol]) \in Nat
        BY <1>0 DEF Magnitude
      <4>2. cyc[c].symbol \in Symbols
        BY <3>3 DEF VerifyFound, At, CycleInv, CyclesCoherent, Coherent
      <4> QED
        BY <3>3, <4>1, <4>2 DEF VerifyFound
    <3> QED
      BY <1>4, <3>1, <3>2, <3>3
  <2>2. /\ cyc' \in [Cycles -> Cycle]
        /\ cyc'[c].pc = "record" /\ cyc'[c].row = cyc[c].row
        /\ cyc'[c].existing = cyc[c].existing
        /\ cyc'[c].agent = cyc[c].agent /\ cyc'[c].symbol = cyc[c].symbol
        /\ \A d \in Cycles \ {c} : cyc'[d] = cyc[d]
    BY <1>0, <2>1 DEF ToRecord, TypeOK, Cycle, Pcs
  <2>3. FreshOrder(c)' <=> FreshOrder(c)
    BY <1>4, <2>2 DEF FreshOrder, OrderFilled, OrderUnreported, VerifyFound, At
  <2>4. CycleInv'
    BY <1>1, <1>4, <2>2, <2>3, GotoKeepsCycles
    DEF OrderFilled, OrderUnreported, VerifyFound, At, Pcs, Unread
  <2> QED
    BY <1>1, <1>2, <1>9, <2>2, <2>4 DEF TypeOK, ledger
<1>5. CASE VerifyNothing(c)
  <2>1. /\ cyc' \in [Cycles -> Cycle]
        /\ cyc'[c] = [cyc[c] EXCEPT !.pc = "release"]
        /\ \A d \in Cycles \ {c} : cyc'[d] = cyc[d]
    BY <1>0, <1>5 DEF VerifyNothing, Goto, TypeOK, Cycle, Pcs
  <2>2. FreshOrder(c)' <=> FreshOrder(c)
    BY <1>0, <1>5, <2>1 DEF FreshOrder, VerifyNothing, At, Cycle
  <2>3. CycleInv'
    BY <1>0, <1>1, <1>5, <2>1, <2>2, GotoKeepsCycles DEF VerifyNothing, At, Cycle, Pcs, Unread
  <2> QED
    BY <1>1, <1>2, <1>9, <2>1, <2>3 DEF TypeOK, ledger
<1> QED
  BY <1>3, <1>4, <1>5 DEF Ordering

\* A cycle writes the row it works on, other than with a claim, and is done.
LEMMA RecordKeepsCycles ==
    ASSUME TypeOK, CycleInv, NEW c \in Cycles, cyc[c].row \in Rows, NEW v \in Row,
           Writable(c, cyc[c].row), Write(c, cyc[c].row, v), v.status # "pending",
           Done(c), UNCHANGED recon
    PROVE  CycleInv' /\ cyc' \in [Cycles -> Cycle]
<1> DEFINE r == cyc[c].row
<1>0. c # None
  BY CyclesAssumption
<1>1. cyc[c].agent \in Agents \cup {None}
  BY DEF TypeOK, Cycle
<1>2. /\ cyc' \in [Cycles -> Cycle]
      /\ cyc'[c].pc = "ready" /\ ~cyc'[c].existing
      /\ \A d \in Cycles \ {c} : cyc'[d] = cyc[d]
  BY <1>1, ReadyCycleFields DEF Done, TypeOK
<1>3. /\ rows' = rows
      /\ \A q \in Rows : draft'[q] = IF q = r THEN v ELSE draft[q]
      /\ \A q \in Rows : holder'[q] = IF q = r THEN c ELSE holder[q]
  BY DEF Write, TypeOK
<1>4. \A d \in Cycles \ {c} : FreshOrder(d)' = FreshOrder(d)
  BY <1>2 DEF FreshOrder
<1>5. ClaimsOwned'
  BY <1>2, <1>3, <1>4 DEF CycleInv, ClaimsOwned
<1>6. \A d \in Cycles \ {c} : holder[r] # d
  BY <1>0, CyclesAssumption DEF Writable
<1>7. FreshClaims'
  <2> SUFFICES ASSUME NEW d \in Cycles, FreshOrder(d)'
               PROVE  /\ cyc'[d].row \in Rows
                      /\ holder'[cyc'[d].row] = d
                      /\ draft'[cyc'[d].row].status = "pending"
                      /\ HasKey(draft'[cyc'[d].row], cyc'[d].agent, cyc'[d].symbol)
    BY DEF FreshClaims
  <2>1. d # c
    BY <1>2 DEF FreshOrder
  <2> QED
    BY <1>2, <1>3, <1>4, <1>6, <2>1 DEF CycleInv, FreshClaims
<1>8. FoundRecorded'
  <2>1. Backed(c)'
    BY <1>2 DEF Backed, FoundRecord
  <2>2. ASSUME NEW d \in Cycles \ {c} PROVE Backed(d)'
    BY <1>2, <1>3, <1>6, <2>2 DEF CycleInv, FoundRecorded, Backed, FoundRecord
  <2> QED
    BY <2>1, <2>2 DEF FoundRecorded
<1>9. CyclesCoherent'
  BY <1>2 DEF CycleInv, CyclesCoherent, Coherent, Unread
<1>10. ZombiesRecorded'
  BY <1>3 DEF CycleInv, ZombiesRecorded
<1> QED
  BY <1>2, <1>5, <1>7, <1>8, <1>9, <1>10 DEF CycleInv

\* The newest version of a recorded row is recorded, for a transaction that
\* may write it.
LEMMA LatestRecorded ==
    ASSUME LedgerInv, NEW r \in Rows, NEW t, Writable(t, r),
           \/ rows[r].status \in Recorded
           \/ holder[r] = t /\ draft[r].status \in Recorded
    PROVE  /\ Latest(r) \in Row
           /\ Latest(r).status \in Recorded
           /\ Advances(rows[r], Latest(r))
<1>1. CASE holder[r] = None
  <2>1. draft[r].status \notin Recorded
    BY <1>1 DEF LedgerInv, DraftsHeld, Recorded, Absent
  <2> QED
    BY <1>1, <2>1 DEF LedgerInv, LedgerType, Latest, Advances, SameKey
<1>2. CASE holder[r] # None
  <2>1. Latest(r) = draft[r] /\ holder[r] = t /\ draft[r] \in Row
    BY <1>2 DEF Latest, Writable, LedgerInv, LedgerType
  <2>2. Advances(rows[r], draft[r])
    BY <1>2 DEF LedgerInv, DraftsAdvance
  <2> QED
    BY <2>1, <2>2 DEF Advances
<1> QED
  BY <1>1, <1>2

LEMMA ClosedIsARow ==
    ASSUME NEW w \in Row
    PROVE  /\ Closed(w) \in Row /\ Closed(w).status = "closed"
           /\ Closed(w).agent = w.agent /\ Closed(w).symbol = w.symbol
<1> DEFINE n == w.pnls + 1
<1>1. n \in Nat
  BY DEF Row
<1>2. Closed(w) = [w EXCEPT !.status = "closed", !.pnls = n]
  BY DEF Closed
<1> HIDE DEF n
<1>3. Closed(w) \in Row
  BY <1>1, <1>2 DEF Row, Statuses
<1>4. Closed(w).status = "closed" /\ Closed(w).agent = w.agent /\ Closed(w).symbol = w.symbol
  BY DEF Closed, Row
<1> QED
  BY <1>3, <1>4

\* A closed version may always replace a recorded one.
LEMMA CloseKeepsLedger ==
    ASSUME LedgerInv, NEW t \in Transactions, NEW r \in Rows, Writable(t, r),
           Latest(r) \in Row, Latest(r).status \in Recorded, Advances(rows[r], Latest(r)),
           Write(t, r, Closed(Latest(r)))
    PROVE  LedgerInv' /\ Closed(Latest(r)) \in Row /\ Closed(Latest(r)).status = "closed"
<1> DEFINE v == Closed(Latest(r))
<1>1. /\ v \in Row /\ v.status = "closed"
      /\ v.agent = Latest(r).agent /\ v.symbol = Latest(r).symbol
  BY ClosedIsARow
<1>2. Advances(rows[r], v) /\ Blank(v) /\ ~Live(v) /\ SameKey(v, Latest(r))
  BY <1>1 DEF Advances, Blank, Live, SameKey, Recorded
<1> HIDE DEF v
<1> QED
  BY <1>1, <1>2, UpdateKeepsLedger DEF v

LEMMA RecordingKeeps ==
    ASSUME IInv, NEW c \in Cycles, Recording(c)
    PROVE  IInv'
<1> USE DEF IInv
<1>0. cyc[c] \in Cycle /\ c \in Transactions /\ Backed(c)
  BY DEF TypeOK, CycleInv, FoundRecorded, Transactions
<1>1. UNCHANGED <<aged, exch, capLock, recon, opens, unsure>> /\ Done(c)
  BY DEF Recording, AccumulatePosition, ConfirmPosition, ConfirmNothing, ReleaseClaim
<1>2. ASSUME LedgerInv', CycleInv', cyc' \in [Cycles -> Cycle]
      PROVE  IInv'
  BY <1>1, <1>2 DEF LedgerInv, LedgerType, TypeOK, Transactions
<1>3. CASE AccumulatePosition(c)
  <2> DEFINE r == cyc[c].row
             v == [Latest(r) EXCEPT !.size = cyc[c].seen + cyc[c].fill,
                                    !.usd  = cyc[c].seenUsd + cyc[c].cost]
  <2>1. r \in Rows /\ Writable(c, r) /\ Write(c, r, v)
        /\ (rows[r].status \in Recorded \/ (holder[r] = c /\ draft[r].status \in Recorded))
    BY <1>0, <1>3 DEF AccumulatePosition, Accumulates, Backed, FoundRecord
  <2>2. Latest(r) \in Row /\ Latest(r).status \in Recorded /\ Advances(rows[r], Latest(r))
    BY <2>1, LatestRecorded
  <2>3. /\ v \in Row /\ v.status = Latest(r).status
        /\ v.agent = Latest(r).agent /\ v.symbol = Latest(r).symbol
    <3>1. cyc[c].seen + cyc[c].fill \in Nat /\ cyc[c].seenUsd + cyc[c].cost \in Nat
      BY <1>0 DEF Cycle
    <3> QED
      BY <2>2, <3>1 DEF Row
  <2>4. /\ Advances(rows[r], v) /\ Blank(v) /\ SameKey(v, Latest(r))
        /\ Live(v) => Live(Latest(r))
        /\ v.status # "pending"
    BY <2>2, <2>3 DEF Advances, Blank, Live, SameKey, Recorded
  <2> HIDE DEF r, v
  <2>5. LedgerInv'
    BY <1>0, <2>1, <2>3, <2>4, UpdateKeepsLedger
  <2>6. CycleInv' /\ cyc' \in [Cycles -> Cycle]
    BY <1>1, <2>1, <2>3, <2>4, RecordKeepsCycles DEF r
  <2> QED
    BY <1>2, <2>5, <2>6
<1>4. CASE ConfirmPosition(c)
  <2> DEFINE r == cyc[c].row
             v == [Latest(r) EXCEPT !.status = "open", !.size = cyc[c].fill,
                                    !.usd = cyc[c].cost]
  <2>1. r \in Rows /\ Writable(c, r) /\ Write(c, r, v) /\ Visible(c, r).status = "pending"
    <3>1. FreshOrder(c) \/ FoundRecord(c)
      BY <1>4 DEF ConfirmPosition, At, FreshOrder, FoundRecord
    <3>2. r \in Rows
      BY <1>0, <3>1 DEF CycleInv, FreshClaims, Backed
    <3> QED
      BY <1>4, <3>2 DEF ConfirmPosition, Confirmable
  <2>2. holder[r] = c /\ draft[r].status = "pending"
    BY <2>1 DEF Visible, LedgerInv, NoCommittedClaim
  <2>3. Latest(r) = draft[r] /\ rows[r] = Absent /\ Latest(r) \in Row
    BY <2>1, <2>2, CyclesAssumption DEF Latest, CycleInv, ClaimsOwned, TypeOK
  <2>4. /\ v \in Row /\ v.status = "open"
        /\ v.agent = Latest(r).agent /\ v.symbol = Latest(r).symbol
    BY <1>0, <2>3 DEF Row, Cycle, Statuses
  <2>5. /\ Advances(rows[r], v) /\ Blank(v) /\ SameKey(v, Latest(r))
        /\ Live(Latest(r)) /\ v.status # "pending"
    BY <2>2, <2>3, <2>4 DEF Advances, Blank, Live, SameKey, Recorded, Absent
  <2> HIDE DEF r, v
  <2>6. LedgerInv'
    BY <1>0, <2>1, <2>4, <2>5, UpdateKeepsLedger
  <2>7. CycleInv' /\ cyc' \in [Cycles -> Cycle]
    BY <1>1, <2>1, <2>4, <2>5, RecordKeepsCycles DEF r
  <2> QED
    BY <1>2, <2>6, <2>7
<1>5. CASE ConfirmNothing(c)
  <2>1. ~FreshOrder(c)
    BY <1>5 DEF ConfirmNothing, Confirmable, Visible, CycleInv, FreshClaims
  <2>2. CycleInv' /\ cyc' \in [Cycles -> Cycle]
    BY <1>1, <1>5, <2>1, DoneKeepsCycles DEF ConfirmNothing
  <2> QED
    BY <1>2, <1>5, <2>2, IdleKeepsLedger DEF ConfirmNothing
<1>6. CASE ReleaseClaim(c)
  <2> DEFINE r == cyc[c].row
  <2>1. CASE Confirmable(c)
    <3>1. Writable(c, r) /\ Write(c, r, Absent) /\ Visible(c, r).status = "pending"
      BY <1>6, <2>1 DEF ReleaseClaim, Confirmable
    <3>2. r \in Rows
      BY <1>0, <1>6 DEF CycleInv, FreshClaims, FreshOrder, Backed, FoundRecord, ReleaseClaim, At
    <3>3. holder[r] = c /\ draft[r].status = "pending"
      BY <3>1, <3>2 DEF Visible, LedgerInv, NoCommittedClaim
    <3>4. rows[r] = Absent
      BY <3>2, <3>3 DEF CycleInv, ClaimsOwned
    <3>5. /\ Absent \in Row /\ Advances(rows[r], Absent) /\ Blank(Absent) /\ ~Live(Absent)
          /\ Absent.status # "pending"
      BY <3>4 DEF Absent, Row, Statuses, Sides, Advances, Recorded, Blank, Live
    <3>6. LedgerInv'
      BY <1>0, <3>1, <3>2, <3>5, WriteKeepsLedger
    <3>7. CycleInv' /\ cyc' \in [Cycles -> Cycle]
      BY <1>1, <3>1, <3>2, <3>5, RecordKeepsCycles
    <3> QED
      BY <1>2, <3>6, <3>7
  <2>2. CASE ~Confirmable(c)
    <3>1. UNCHANGED ledger /\ ~FreshOrder(c)
      BY <1>6, <2>2 DEF ReleaseClaim, Confirmable, Visible, CycleInv, FreshClaims
    <3>2. CycleInv' /\ cyc' \in [Cycles -> Cycle]
      BY <1>1, <3>1, DoneKeepsCycles
    <3> QED
      BY <1>2, <3>1, <3>2, IdleKeepsLedger
  <2> QED
    BY <2>1, <2>2
<1> QED
  BY <1>3, <1>4, <1>5, <1>6 DEF Recording

LEMMA ClosingKeeps ==
    ASSUME IInv, NEW c \in Cycles, Closing(c)
    PROVE  IInv'
<1> USE DEF IInv
<1>0. cyc[c] \in Cycle /\ c \in Transactions /\ Backed(c) /\ Coherent(c)
  BY DEF TypeOK, CycleInv, FoundRecorded, CyclesCoherent, Transactions
<1>1. ASSUME NEW s \in Symbols, DecideClose(c, s)
      PROVE  IInv'
  <2> DEFINE slot == SlotRows(c, cyc[c].agent, s)
  <2>1. PICK r \in (IF slot = {} THEN {None} ELSE slot) :
           cyc' = [cyc EXCEPT ![c].pc = "close", ![c].symbol = s, ![c].row = r]
    BY <1>1 DEF DecideClose
  <2>2. r = None \/ (r \in Rows /\ Visible(c, r).status \in Recorded)
    <3>1. ~FreshOrder(c)
      BY <1>1 DEF DecideClose, At, FreshOrder
    <3>2. ASSUME r \in Rows, Live(Visible(c, r)) PROVE Visible(c, r).status \in Recorded
      <4>1. CASE holder[r] = c
        BY <3>1, <3>2, <4>1 DEF Visible, Live, Recorded, CycleInv, ClaimsOwned
      <4>2. CASE holder[r] # c
        BY <3>2, <4>2 DEF Visible, Live, Recorded, LedgerInv, NoCommittedClaim
      <4> QED
        BY <4>1, <4>2
    <3> QED
      BY <2>1, <3>2 DEF SlotRows
  <2>3. /\ cyc' \in [Cycles -> Cycle]
        /\ cyc'[c].pc = "close" /\ cyc'[c].row = r /\ cyc'[c].symbol = s
        /\ cyc'[c].existing = cyc[c].existing
        /\ \A d \in Cycles \ {c} : cyc'[d] = cyc[d]
    BY <1>0, <2>1, <2>2 DEF TypeOK, Cycle, Pcs
  <2>4. UNCHANGED <<ledger, aged, exch, capLock, recon, opens, unsure>>
    BY <1>1 DEF DecideClose
  <2>5. ~FreshOrder(c) /\ ~FreshOrder(c)'
    BY <1>1, <2>3 DEF DecideClose, At, FreshOrder
  <2>6. Coherent(c)'
    BY <1>0, <1>1, <2>3 DEF DecideClose, At, Coherent, Unread
  <2>7. Backed(c)'
    BY <2>2, <2>3, <2>4, <2>6
    DEF Backed, FoundRecord, Visible, ledger, Coherent, Unread
  <2>8. CycleInv'
    BY <2>3, <2>4, <2>5, <2>6, <2>7, LocalStepKeepsCycles
  <2> QED
    BY <2>3, <2>4, <2>8, IdleKeepsLedger DEF TypeOK, ledger
<1>2. CASE CloseFilled(c) \/ CloseUnreported(c) \/ CloseRejected(c) \/ CloseAnswerLost(c)
  <2>1. UNCHANGED <<ledger, aged, capLock, recon, opens>> /\ At(c, "close") /\ ~FreshOrder(c)
        /\ exch' \in [Symbols -> Int] /\ unsure' \subseteq Symbols
    BY <1>0, <1>2 DEF CloseFilled, CloseUnreported, CloseRejected, CloseAnswerLost, At,
       FreshOrder, TypeOK, Coherent
  <2>2. CASE Done(c)
    <3>1. CycleInv' /\ cyc' \in [Cycles -> Cycle]
      BY <2>1, <2>2, DoneKeepsCycles
    <3> QED
      BY <2>1, <3>1, IdleKeepsLedger DEF TypeOK, ledger
  <2>3. CASE Goto(c, "closerec") /\ cyc[c].row # None
    <3>1. /\ cyc' \in [Cycles -> Cycle]
          /\ cyc'[c] = [cyc[c] EXCEPT !.pc = "closerec"]
          /\ \A d \in Cycles \ {c} : cyc'[d] = cyc[d]
      BY <1>0, <2>3 DEF Goto, TypeOK, Cycle, Pcs
    <3>2. ~FreshOrder(c)'
      BY <1>0, <3>1 DEF FreshOrder, Cycle
    <3>3. CycleInv'
      BY <1>0, <2>1, <2>3, <3>1, <3>2, GotoKeepsCycles DEF At, Cycle, Pcs, Unread
    <3> QED
      BY <2>1, <3>1, <3>3, IdleKeepsLedger DEF TypeOK, ledger
  <2> QED
    BY <1>2, <2>2, <2>3 DEF CloseFilled, CloseUnreported, CloseRejected, CloseAnswerLost
<1>3. CASE ClosePositionRecord(c)
  <2> DEFINE r == cyc[c].row
  <2>1. /\ Writable(c, r) /\ Write(c, r, Closed(Latest(r))) /\ Done(c)
        /\ UNCHANGED <<aged, exch, capLock, recon, opens, unsure>>
    BY <1>3 DEF ClosePositionRecord
  <2>2. /\ r \in Rows
        /\ rows[r].status \in Recorded \/ (holder[r] = c /\ draft[r].status \in Recorded)
    BY <1>0, <1>3 DEF ClosePositionRecord, At, Coherent, Backed, FoundRecord
  <2>3. Latest(r) \in Row /\ Latest(r).status \in Recorded /\ Advances(rows[r], Latest(r))
    BY <2>1, <2>2, LatestRecorded
  <2>4. LedgerInv' /\ Closed(Latest(r)) \in Row /\ Closed(Latest(r)).status # "pending"
    BY <1>0, <2>1, <2>2, <2>3, CloseKeepsLedger
  <2>5. CycleInv' /\ cyc' \in [Cycles -> Cycle]
    BY <2>1, <2>2, <2>4, RecordKeepsCycles
  <2> QED
    BY <2>1, <2>4, <2>5 DEF LedgerInv, LedgerType, TypeOK, Transactions
<1> QED
  BY <1>1, <1>2, <1>3 DEF Closing

-----------------------------------------------------------------------------
(* The end of a transaction, the reconciliation job and the environment.    *)

\* A transaction that is placing no order ends: what it wrote is recorded or
\* forgotten, and rows recorded before stay recorded.
LEMMA EndKeepsCycles ==
    ASSUME TypeOK, LedgerInv, CycleInv, NEW t \in Transactions,
           Rollback(t) \/ Commit(t),
           \A d \in Cycles : cyc'[d] = IF d = t THEN IdleCycle ELSE cyc[d],
           recon'.zombies \subseteq recon.zombies
    PROVE  CycleInv'
<1>1. \A r \in Rows : holder[r] # t =>
          rows'[r] = rows[r] /\ draft'[r] = draft[r] /\ holder'[r] = holder[r]
  BY DEF Commit, Rollback
<1>2. \A r \in Rows : holder[r] = t => draft'[r] = Absent /\ holder'[r] = None
  BY DEF Commit, Rollback
<1>3. \A r \in Rows : rows[r].status \in Recorded => rows'[r].status \in Recorded
  <2>1. CASE Rollback(t)
    BY <2>1 DEF Rollback
  <2>2. CASE Commit(t)
    BY <2>2, TransactionsNotNone DEF Commit, LedgerInv, DraftsAdvance, Advances
  <2> QED
    BY <2>1, <2>2
<1>4. t \in Cycles => /\ cyc'[t].pc = "idle" /\ ~cyc'[t].existing
  BY IdleCycleFields
<1>5. \A d \in Cycles \ {t} : cyc'[d] = cyc[d] /\ FreshOrder(d)' = FreshOrder(d)
  BY DEF FreshOrder
<1>6. ClaimsOwned'
  <2> SUFFICES ASSUME NEW r \in Rows, draft'[r].status = "pending"
               PROVE  /\ rows'[r] = Absent
                      /\ \E c \in Cycles : holder'[r] = c /\ FreshOrder(c)' /\ cyc'[c].row = r
    BY DEF ClaimsOwned
  <2>1. holder[r] # t
    BY <1>2 DEF Absent
  <2> QED
    BY <1>1, <1>5, <2>1 DEF CycleInv, ClaimsOwned
<1>7. FreshClaims'
  <2> SUFFICES ASSUME NEW d \in Cycles, FreshOrder(d)'
               PROVE  /\ cyc'[d].row \in Rows
                      /\ holder'[cyc'[d].row] = d
                      /\ draft'[cyc'[d].row].status = "pending"
                      /\ HasKey(draft'[cyc'[d].row], cyc'[d].agent, cyc'[d].symbol)
    BY DEF FreshClaims
  <2>1. d # t
    BY <1>4 DEF FreshOrder
  <2> QED
    BY <1>1, <1>5, <2>1 DEF CycleInv, FreshClaims
<1>8. FoundRecorded'
  <2> SUFFICES ASSUME NEW d \in Cycles PROVE Backed(d)'
    BY DEF FoundRecorded
  <2>1. CASE d = t
    BY <1>4, <2>1 DEF Backed, FoundRecord
  <2>2. CASE d # t
    BY <1>1, <1>3, <1>5, <2>2 DEF CycleInv, FoundRecorded, Backed, FoundRecord
  <2> QED
    BY <2>1, <2>2
<1>9. CyclesCoherent'
  BY <1>4, <1>5 DEF CycleInv, CyclesCoherent, Coherent, Unread
<1>10. ZombiesRecorded'
  BY <1>3 DEF CycleInv, ZombiesRecorded, TypeOK
<1> QED
  BY <1>6, <1>7, <1>8, <1>9, <1>10 DEF CycleInv

LEMMA EndingKeeps ==
    ASSUME IInv, NEW c \in Cycles, Finish(c) \/ Abort(c)
    PROVE  IInv'
<1> USE DEF IInv
<1>1. /\ Commit(c) \/ Rollback(c)
      /\ cyc' = [cyc EXCEPT ![c] = IdleCycle]
      /\ UNCHANGED <<aged, exch, capLock, recon, opens, unsure>>
      /\ c \in Transactions
  BY DEF Finish, Abort, Transactions
<1>2. Finish(c) => ~FreshOrder(c)
  BY DEF Finish, At, FreshOrder
<1>3. LedgerInv'
  <2>1. CASE Abort(c)
    BY <1>1, <2>1, RollbackKeepsLedger DEF Abort
  <2>2. CASE Finish(c)
    <3>1. \A r \in Rows : holder[r] = c => draft[r].status # "pending"
      BY <1>2, <2>2 DEF CycleInv, ClaimsOwned
    <3> QED
      BY <1>1, <2>2, <3>1, CommitKeepsLedger DEF Finish
  <2> QED
    BY <2>1, <2>2
<1>4. cyc' \in [Cycles -> Cycle]
      /\ \A d \in Cycles : cyc'[d] = IF d = c THEN IdleCycle ELSE cyc[d]
  BY <1>1, IdleCycleFields DEF TypeOK
<1>5. CycleInv'
  BY <1>1, <1>4, EndKeepsCycles
<1> QED
  BY <1>1, <1>3, <1>4, <1>5 DEF LedgerInv, LedgerType, TypeOK, Transactions

\* cleanup_stale_pending never finds a row.
LEMMA NoStalePending ==
    ASSUME IInv
    PROVE  StalePending = {}
<1> SUFFICES ASSUME NEW r \in StalePending PROVE FALSE
  OBVIOUS
<1>1. r \in Rows /\ Visible(Recon, r).status = "pending"
  BY DEF StalePending, IInv, TypeOK
<1>2. CASE holder[r] = Recon
  BY <1>1, <1>2, CyclesAssumption DEF Visible, IInv, CycleInv, ClaimsOwned
<1>3. CASE holder[r] # Recon
  BY <1>1, <1>3 DEF Visible, IInv, LedgerInv, NoCommittedClaim
<1> QED
  BY <1>2, <1>3

LEMMA ReconCloseKeeps ==
    ASSUME IInv, NEW r \in Rows, ReconClose(r)
    PROVE  IInv'
<1> USE DEF IInv
<1>1. /\ Writable(Recon, r) /\ Write(Recon, r, Closed(Latest(r)))
      /\ recon' = [recon EXCEPT !.zombies = @ \ {r}]
      /\ UNCHANGED <<aged, exch, cyc, capLock, opens, unsure>>
      /\ rows[r].status \in Recorded /\ Recon \in Transactions
  BY DEF ReconClose, CycleInv, ZombiesRecorded, Transactions
<1>2. Latest(r) \in Row /\ Latest(r).status \in Recorded /\ Advances(rows[r], Latest(r))
  BY <1>1, LatestRecorded
<1>3. LedgerInv' /\ Closed(Latest(r)).status # "pending"
  BY <1>1, <1>2, CloseKeepsLedger
<1>4. /\ rows' = rows /\ cyc' = cyc /\ recon'.zombies \subseteq recon.zombies
      /\ \A q \in Rows : draft'[q] = IF q = r THEN Closed(Latest(r)) ELSE draft[q]
      /\ \A q \in Rows : holder'[q] = IF q = r THEN Recon ELSE holder[q]
  BY <1>1 DEF Write, TypeOK
<1>5. \A d \in Cycles : holder[r] # d /\ FreshOrder(d)' = FreshOrder(d)
  BY <1>1, <1>4, CyclesAssumption DEF Writable, FreshOrder
<1>6. ClaimsOwned' /\ FreshClaims'
  BY <1>3, <1>4, <1>5 DEF CycleInv, ClaimsOwned, FreshClaims
<1>7. FoundRecorded' /\ CyclesCoherent' /\ ZombiesRecorded'
  BY <1>4, <1>5
  DEF CycleInv, FoundRecorded, Backed, FoundRecord, CyclesCoherent, Coherent, ZombiesRecorded
<1>8. TypeOK'
  BY <1>1, <1>3 DEF LedgerInv, LedgerType, TypeOK, Transactions
<1> QED
  BY <1>3, <1>6, <1>7, <1>8 DEF CycleInv

LEMMA ReconciliationKeeps ==
    ASSUME IInv, Reconciliation
    PROVE  IInv'
<1> USE DEF IInv
<1>1. CASE ReconFetch \/ ReconScan
  <2>1. UNCHANGED <<ledger, aged, exch, cyc, capLock, opens, unsure>>
    BY <1>1 DEF ReconFetch, ReconScan
  <2>2. /\ recon' \in [pc : {"idle", "fetched", "closing", "committing"},
                       flat : SUBSET Symbols, zombies : SUBSET Rows]
        /\ \A r \in recon'.zombies : r \in recon.zombies \/ r \in CommittedLive
    <3>1. CASE ReconFetch
      BY <3>1 DEF ReconFetch, TypeOK
    <3>2. CASE ReconScan
      BY <3>2 DEF ReconScan, TypeOK, CommittedLive
    <3> QED
      BY <1>1, <3>1, <3>2
  <2>3. \A r \in CommittedLive : rows[r].status \in Recorded
    BY DEF CommittedLive, Live, Recorded, LedgerInv, NoCommittedClaim
  <2>4. ZombiesRecorded'
    BY <2>1, <2>2, <2>3 DEF CycleInv, ZombiesRecorded, ledger
  <2>5. CycleInv'
    BY <2>1, <2>4 DEF ledger, CycleInv, ClaimsOwned, FreshClaims, FoundRecorded,
       CyclesCoherent, FoundRecord, FreshOrder, HasKey, Backed, Coherent, Unread
  <2> QED
    BY <2>1, <2>2, <2>5, IdleKeepsLedger DEF TypeOK, ledger
<1>2. CASE ReconCleanup
  <2>1. draft' = draft /\ holder' = holder
    BY <1>2, NoStalePending DEF ReconCleanup, TypeOK
  <2>2. UNCHANGED <<ledger, aged, exch, cyc, capLock, opens, unsure>>
    BY <1>2, <2>1 DEF ReconCleanup, ledger
  <2>3. /\ recon' \in [pc : {"idle", "fetched", "closing", "committing"},
                       flat : SUBSET Symbols, zombies : SUBSET Rows]
        /\ recon'.zombies = recon.zombies
    BY <1>2 DEF ReconCleanup, TypeOK
  <2> QED
    BY <2>2, <2>3, IdleKeepsLedger, IdleKeepsCycles DEF TypeOK, ledger
<1>3. CASE ReconCommit \/ ReconAbort
  <2>1. /\ Commit(Recon) \/ Rollback(Recon)
        /\ recon' = IdleRecon /\ UNCHANGED <<aged, exch, cyc, capLock, opens, unsure>>
        /\ Recon \in Transactions /\ Recon \notin Cycles
    BY <1>3, CyclesAssumption DEF ReconCommit, ReconAbort, Transactions
  <2>2. \A r \in Rows : holder[r] = Recon => draft[r].status # "pending"
    BY <2>1 DEF CycleInv, ClaimsOwned
  <2>3. LedgerInv'
    BY <2>1, <2>2, CommitKeepsLedger, RollbackKeepsLedger
  <2>4. recon'.zombies = {} /\ recon' \in [pc : {"idle", "fetched", "closing", "committing"},
                                           flat : SUBSET Symbols, zombies : SUBSET Rows]
    BY <2>1 DEF IdleRecon
  <2>5. CycleInv'
    BY <2>1, <2>4, EndKeepsCycles
  <2> QED
    BY <2>1, <2>3, <2>4, <2>5 DEF LedgerInv, LedgerType, TypeOK, Transactions
<1>4. ASSUME NEW r \in Rows, ReconClose(r)
      PROVE  IInv'
  BY <1>4, ReconCloseKeeps
<1> QED
  BY <1>1, <1>2, <1>3, <1>4 DEF Reconciliation

LEMMA EnvironmentKeeps ==
    ASSUME IInv, Environment
    PROVE  IInv'
<1>1. UNCHANGED <<ledger, cyc, recon, opens, unsure>>
  BY DEF Environment, CapitalLockExpires, Age, ExchangeCloses
<1>2. /\ aged' \subseteq Rows /\ exch' \in [Symbols -> Int]
      /\ capLock' \in [Agents -> Cycles \cup {None}]
  BY DEF IInv, TypeOK, Environment, CapitalLockExpires, Age, ExchangeCloses
<1> QED
  BY <1>1, <1>2, IdleKeepsLedger, IdleKeepsCycles DEF IInv, TypeOK, ledger

-----------------------------------------------------------------------------
(* The invariant.                                                           *)

LEMMA InitEstablishes == Init => IInv
<1> SUFFICES ASSUME Init PROVE IInv
  OBVIOUS
<1>1. /\ Absent \in Row /\ ~Live(Absent) /\ Blank(Absent)
      /\ Absent.status \notin Recorded /\ Absent.status # "pending"
  BY DEF Absent, Row, Statuses, Sides, Live, Blank, Recorded
<1>2. TypeOK
  BY <1>1, IdleCycleFields DEF Init, TypeOK, IdleRecon
<1>3. LedgerInv
  BY <1>1 DEF Init, LedgerInv, LedgerType, DraftsHeld, LatestUnique, Latest, SameWriter,
     DraftsAdvance, AbsentBlank, NoCommittedClaim, OneLiveRowPerSymbol, Transactions
<1>4. CycleInv
  BY <1>1, IdleCycleFields DEF Init, CycleInv, ClaimsOwned, FreshClaims, FreshOrder,
     FoundRecorded, Backed, FoundRecord, CyclesCoherent, Coherent, ZombiesRecorded, IdleRecon
<1> QED
  BY <1>2, <1>3, <1>4 DEF IInv

LEMMA NextKeeps == IInv /\ [Next]_vars => IInv'
<1> SUFFICES ASSUME IInv, [Next]_vars PROVE IInv'
  OBVIOUS
<1>1. CASE UNCHANGED vars
  <2>1. UNCHANGED <<ledger, cyc, recon, aged, exch, capLock, opens, unsure>>
    BY <1>1 DEF vars, ledger
  <2> QED
    BY <2>1, IdleKeepsLedger, IdleKeepsCycles DEF IInv, TypeOK, ledger
<1>2. ASSUME NEW c \in Cycles, CycleStep(c)
      PROVE  IInv'
  BY <1>2, BeginKeeps, ClaimingKeeps, OrderingKeeps, RecordingKeeps, ClosingKeeps, EndingKeeps
  DEF CycleStep
<1> QED
  BY <1>1, <1>2, ReconciliationKeeps, EnvironmentKeeps DEF Next

(* Every reachable state satisfies the inductive invariant: the rows, their *)
(* uncommitted versions and what the cycles remember of them fit together.  *)
THEOREM Invariance == Spec => []IInv
BY InitEstablishes, NextKeeps, PTL DEF Spec

(* Whatever the interleaving of cycles, reconciliation and faults, every    *)
(* variable keeps its type; in particular sizes and P&L counts never go     *)
(* negative and a cycle works only on rows of the table.                    *)
THEOREM TypeCorrect == Spec => []TypeOK
BY Invariance, PTL DEF IInv

(* An agent never has two open or pending rows in a symbol, although the    *)
(* cycles look a slot up before they insert into it.                        *)
THEOREM OneLiveRow == Spec => []OneLiveRowPerSymbol
<1>1. IInv => OneLiveRowPerSymbol
  BY DEF IInv, LedgerInv
<1> QED
  BY <1>1, Invariance, PTL

(* A claim is never committed: no transaction but the claiming one sees a   *)
(* pending row, so the cleanup of stale claims never has anything to do.    *)
THEOREM ClaimsNeverCommitted == Spec => []NoCommittedClaim
<1>1. IInv => NoCommittedClaim
  BY DEF IInv, LedgerInv
<1> QED
  BY <1>1, Invariance, PTL

(* Two cycles are never both ordering with a fresh claim for one slot.      *)
THEOREM OneFreshOrder == Spec => []OneFreshOrderPerSlot
<1>1. IInv => OneFreshOrderPerSlot
  <2> SUFFICES ASSUME IInv, NEW c \in Cycles, NEW d \in Cycles, c # d,
                      FreshOrder(c), FreshOrder(d),
                      cyc[c].agent = cyc[d].agent, cyc[c].symbol = cyc[d].symbol
               PROVE  FALSE
    BY DEF OneFreshOrderPerSlot
  <2> DEFINE r == cyc[c].row
             q == cyc[d].row
  <2>1. /\ r \in Rows /\ q \in Rows /\ holder[r] = c /\ holder[q] = d /\ r # q
        /\ draft[r].status = "pending" /\ draft[q].status = "pending"
        /\ SameKey(draft[r], draft[q])
    BY DEF IInv, CycleInv, FreshClaims, HasKey, SameKey
  <2>2. Latest(r) = draft[r] /\ Latest(q) = draft[q]
    BY <2>1, CyclesAssumption DEF Latest
  <2> QED
    BY <2>1, <2>2 DEF IInv, LedgerInv, LatestUnique, Live
<1> QED
  BY <1>1, Invariance, PTL

\* A step leaves the committed rows alone or commits a transaction.
LEMMA OnlyCommitsChangeRows ==
    ASSUME IInv, [Next]_vars
    PROVE  rows' = rows \/ \E t \in Transactions : Commit(t)
<1>1. ASSUME NEW c \in Cycles, CycleStep(c)
      PROVE  rows' = rows \/ Commit(c)
  <2>1. CASE \E a \in Agents : Begin(c, a)
    BY <2>1 DEF Begin, ledger
  <2>2. CASE Claiming(c)
    BY <2>2 DEF Claiming, DecideOpen, TakeCapitalLock, CapitalLockTimeout, CapitalExceeded,
       ClaimExisting, ClaimMissing, ClaimConflict, ClaimInsert, Write, ledger
  <2>3. CASE Ordering(c)
    BY <2>3 DEF Ordering, OrderFilled, OrderUnreported, OrderRejected, OrderAnswerLost, OrderRaised,
       VerifyFound, VerifyNothing, ledger
  <2>4. CASE Recording(c)
    BY <2>4 DEF Recording, AccumulatePosition, ConfirmPosition, ConfirmNothing, ReleaseClaim,
       Write, ledger
  <2>5. CASE Closing(c)
    BY <2>5 DEF Closing, DecideClose, CloseFilled, CloseUnreported, CloseRejected, CloseAnswerLost,
       ClosePositionRecord, Write, ledger
  <2>6. CASE Finish(c) \/ Abort(c)
    BY <2>6 DEF Finish, Abort, Rollback
  <2> QED
    BY <1>1, <2>1, <2>2, <2>3, <2>4, <2>5, <2>6 DEF CycleStep
<1>2. ASSUME Reconciliation
      PROVE  rows' = rows \/ Commit(Recon)
  BY <1>2 DEF Reconciliation, ReconFetch, ReconScan, ReconClose, ReconCleanup, ReconCommit,
     ReconAbort, Rollback, Write, ledger
<1>3. ASSUME Environment
      PROVE  rows' = rows
  BY <1>3 DEF Environment, CapitalLockExpires, Age, ExchangeCloses, ledger
<1> QED
  BY <1>1, <1>2, <1>3 DEF Next, vars, Transactions

\* What a step may do to one committed row.
LEMMA RowStep ==
    ASSUME IInv, [Next]_vars, NEW r \in Rows
    PROVE  rows'[r] = rows[r] \/ Advances(rows[r], rows'[r])
<1>1. ASSUME NEW t \in Transactions, Commit(t)
      PROVE  rows'[r] = rows[r] \/ Advances(rows[r], rows'[r])
  <2>1. rows'[r] = IF holder[r] = t THEN draft[r] ELSE rows[r]
    BY <1>1 DEF Commit
  <2> QED
    BY <2>1, TransactionsNotNone DEF IInv, LedgerInv, DraftsAdvance
<1> QED
  BY <1>1, OnlyCommitsChangeRows

(* A committed row only advances: open stays open or is closed, closed      *)
(* stays closed, and the row keeps its agent and symbol, whichever of the   *)
(* agent's cycles and the reconciliation job write it.                      *)
THEOREM RowsAdvance == Spec => RowsOnlyAdvance
<1>1. IInv /\ [Next]_vars =>
        [\A r \in Rows :
          /\ rows[r].status = "open" => rows'[r].status \in {"open", "closed"}
          /\ rows[r].status = "closed" => rows'[r].status = "closed"
          /\ rows[r].status \in {"open", "closed"} => SameKey(rows[r], rows'[r])]_vars
  BY RowStep DEF Advances, Recorded, SameKey
<1> QED
  BY <1>1, Invariance, PTL DEF Spec, RowsOnlyAdvance

=============================================================================
