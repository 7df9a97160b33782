------------------------- MODULE AdministrationProofs -------------------------
(***************************************************************************)
(* Proofs about the rows a user administers, for any strategies, agents,   *)
(* accounts, names and configs, and any requests answered one by one while *)
(* the workers of active agents trade and fail between them.               *)
(*                                                                         *)
(* The invariant is the conjunction of what the runs check: the foreign    *)
(* keys in TypeOK say that what a row refers to is a row, which is what    *)
(* the other parts need to speak of it.                                    *)
(***************************************************************************)
EXTENDS Administration, TLAPS

IInv ==
    /\ TypeOK
    /\ ConfigsRecoverable
    /\ ActiveAgentsRunWhatTheyStarted
    /\ OpenRowsOnAgentsAccount

-----------------------------------------------------------------------------
(* Sequences of bounded length, rows and names.                            *)

LEMMA Parameters ==
    /\ Whole \in Nat \ {0} /\ MaxVersions \in Nat /\ MaxRequests \in Nat
    /\ None \notin Strategies \cup Agents \cup Accounts \cup Names \cup Configs
    /\ None \notin Strategy \cup Agent
    /\ Keep # None
BY TableParameters DEF TableParameters

LEMMA BoundedVersions ==
    ASSUME NEW q
    PROVE  q \in BoundedSeq(Version, MaxVersions) <=> q \in Seq(Version) /\ Len(q) <= MaxVersions
<1>1. ASSUME q \in BoundedSeq(Version, MaxVersions)
      PROVE  q \in Seq(Version) /\ Len(q) <= MaxVersions
  <2>1. PICK m \in 0 .. MaxVersions : q \in [1 .. m -> Version]
    BY <1>1 DEF BoundedSeq, SeqOf
  <2> QED
    BY <2>1, Parameters
<1>2. ASSUME q \in Seq(Version), Len(q) <= MaxVersions
      PROVE  q \in BoundedSeq(Version, MaxVersions)
  <2>1. Len(q) \in 0 .. MaxVersions /\ q \in [1 .. Len(q) -> Version]
    BY <1>2, Parameters
  <2> QED
    BY <2>1 DEF BoundedSeq, SeqOf
<1> QED
  BY <1>1, <1>2

LEMMA NoVersions == <<>> \in BoundedSeq(Version, MaxVersions)
<1>1. <<>> \in Seq(Version) /\ Len(<<>>) <= MaxVersions
  BY Parameters
<1> QED
  BY <1>1, BoundedVersions

LEMMA NamesOffered ==
    ASSUME NEW n \in Names, NEW strategy, NEW agent, NEW name \in UniqueNames(n, strategy, agent)
    PROVE  name \in Names
BY DEF UniqueNames

\* The rows of the tables as their types give them.
LEMMA RowTypes ==
    ASSUME TypeOK
    PROVE  /\ \A s \in Strategies : s \in Rows(strategies) <=> strategies[s] \in Strategy
           /\ \A a \in Agents : a \in Rows(agents) <=> agents[a] \in Agent
           /\ Rows(strategies) \subseteq Strategies
           /\ Rows(agents) \subseteq Agents
           /\ \A s \in Strategies : versions[s] \in Seq(Version) /\ Len(versions[s]) <= MaxVersions
BY Parameters, BoundedVersions DEF TypeOK, Rows

-----------------------------------------------------------------------------
(* The initial states.                                                      *)

LEMMA InitInv == Init => IInv
<1> SUFFICES ASSUME Init PROVE IInv
  OBVIOUS
<1>2. Rows(strategies) = {} /\ Rows(agents) = {}
  BY DEF Init, Rows
<1>3. TypeOK
  BY NoVersions, <1>2, Parameters DEF Init, TypeOK
<1>4. ConfigsRecoverable /\ ActiveAgentsRunWhatTheyStarted /\ OpenRowsOnAgentsAccount
  BY <1>2 DEF Init, ConfigsRecoverable, ActiveAgentsRunWhatTheyStarted, OpenRowsOnAgentsAccount
<1> QED
  BY <1>3, <1>4 DEF IInv

-----------------------------------------------------------------------------
(* Strategies.                                                             *)

\* A new row for a strategy that has none.
LEMMA InsertInv ==
    ASSUME IInv, NEW s \in Strategies, NEW row \in Strategy, Insert(s, row), Request
    PROVE  IInv'
<1>0. /\ strategies[s] = None /\ row # None
      /\ strategies' = [strategies EXCEPT ![s] = row]
      /\ used' = [used EXCEPT ![s] = {row.config}] /\ row.config \in Configs \cup {None}
      /\ UNCHANGED <<versions, agents, accounts, positions, started>>
      /\ requests' \in 0 .. MaxRequests
  BY Parameters DEF Insert, Request, Strategy, IInv, TypeOK
<1>1. /\ Rows(strategies)' = Rows(strategies) \cup {s} /\ Rows(agents)' = Rows(agents)
      /\ \A t \in Rows(strategies) : t # s /\ strategies'[t] = strategies[t]
  BY <1>0 DEF IInv, TypeOK, Rows
<1>2. TypeOK'
  BY <1>0, <1>1 DEF IInv, TypeOK
<1>3. ConfigsRecoverable'
  BY <1>0, <1>1 DEF IInv, TypeOK, ConfigsRecoverable
<1>4. ActiveAgentsRunWhatTheyStarted'
  BY <1>0, <1>1 DEF IInv, TypeOK, ActiveAgentsRunWhatTheyStarted
<1>5. OpenRowsOnAgentsAccount'
  BY <1>0 DEF IInv, OpenRowsOnAgentsAccount
<1> QED
  BY <1>2, <1>3, <1>4, <1>5 DEF IInv

LEMMA CreateStrategyInv ==
    ASSUME IInv, NEW s \in Strategies, NEW n \in Names, NEW c \in Configs,
           NEW public \in BOOLEAN, CreateStrategy(s, n, c, public)
    PROVE  IInv'
<1>1. PICK name \in UniqueNames(n, None, None) :
          Insert(s, [name |-> name, config |-> c, public |-> public])
  BY DEF CreateStrategy
<1>2. [name |-> name, config |-> c, public |-> public] \in Strategy
  BY NamesOffered DEF Strategy
<1> QED
  BY <1>1, <1>2, InsertInv DEF CreateStrategy

\* A copy, of one's own strategy or of a public one.
LEMMA CopyInv ==
    ASSUME IInv, NEW source \in Strategies, NEW s \in Strategies, NEW n \in Names,
           ForkStrategy(source, s, n) \/ DuplicateStrategy(source, s, n)
    PROVE  IInv'
<1>1. source \in Rows(strategies) /\ Request
  BY DEF ForkStrategy, DuplicateStrategy
<1>2. PICK name \in UniqueNames(n, None, None) :
          Insert(s, [name |-> name, config |-> strategies[source].config, public |-> FALSE])
  BY DEF ForkStrategy, DuplicateStrategy
<1>3. strategies[source].config \in Configs \cup {None} /\ name \in Names
  BY <1>1, RowTypes, NamesOffered DEF IInv, Strategy
<1>4. [name |-> name, config |-> strategies[source].config, public |-> FALSE] \in Strategy
  BY <1>3 DEF Strategy
<1> QED
  BY <1>1, <1>2, <1>4, InsertInv

\* What taking a snapshot of a row gives: the row's config is in a version, and
\* every version there was is still there.
LEMMA SnapshotKeeps ==
    ASSUME IInv, NEW s \in Rows(strategies), Snapshot(s)
    PROVE  /\ versions' \in [Strategies -> BoundedSeq(Version, MaxVersions)]
           /\ \A t \in Strategies : t # s => versions'[t] = versions[t]
           /\ \E i \in 1 .. Len(versions'[s]) : versions'[s][i].config = strategies[s].config
           /\ \A i \in 1 .. Len(versions[s]) :
                  i \in 1 .. Len(versions'[s]) /\ versions'[s][i] = versions[s][i]
<1> DEFINE v == [name |-> strategies[s].name, config |-> strategies[s].config]
           q == versions[s]
<1>1. v \in Version /\ v.config = strategies[s].config
  BY RowTypes DEF IInv, Strategy, Version
<1>2. q \in Seq(Version) /\ Len(q) < MaxVersions /\ s \in Strategies
  BY RowTypes DEF IInv, Snapshot
<1>3. versions' = [versions EXCEPT ![s] = Append(q, v)]
  BY DEF Snapshot
<1> HIDE DEF v, q
<1>4. /\ Append(q, v) \in Seq(Version) /\ Len(Append(q, v)) = Len(q) + 1
      /\ Append(q, v)[Len(q) + 1] = v
      /\ \A i \in 1 .. Len(q) : Append(q, v)[i] = q[i]
  BY <1>1, <1>2
<1>5. Append(q, v) \in BoundedSeq(Version, MaxVersions)
  <2>1. Len(Append(q, v)) <= MaxVersions
    BY <1>2, <1>4, Parameters
  <2> QED
    BY <1>4, <2>1, BoundedVersions
<1>6. versions'[s] = Append(q, v)
  BY <1>2, <1>3 DEF IInv, TypeOK
<1>7. Len(q) \in Nat
  BY <1>2
<1> QED
  BY <1>1, <1>2, <1>3, <1>4, <1>5, <1>6, <1>7 DEF IInv, TypeOK, q

\* A row that changes after a snapshot of it was taken, or changes no config,
\* or loses its config to a null.
LEMMA ChangedRowInv ==
    ASSUME IInv, NEW s \in Rows(strategies), NEW row \in Strategy, Request,
           NEW kept \in SUBSET (Configs \cup {None}),
           \/ Snapshot(s) /\ ActiveAgents(s) = {} /\ kept = used[s] \cup {row.config}
           \/ /\ UNCHANGED versions /\ row.config = strategies[s].config
              /\ kept = used[s] \cup {row.config}
           \/ /\ UNCHANGED versions /\ row.config = None
              /\ kept = used[s] \ {strategies[s].config},
           strategies' = [strategies EXCEPT ![s] = row],
           used' = [used EXCEPT ![s] = kept],
           UNCHANGED <<agents, accounts, positions, started>>
    PROVE  IInv'
<1>0. /\ row # None /\ row.config \in Configs \cup {None} /\ requests' \in 0 .. MaxRequests
      /\ s \in Strategies
  BY Parameters, RowTypes DEF Request, Strategy, IInv, TypeOK
<1>1. /\ versions' \in [Strategies -> BoundedSeq(Version, MaxVersions)]
      /\ \A t \in Strategies : t # s => versions'[t] = versions[t]
      /\ \A i \in 1 .. Len(versions[s]) :
             i \in 1 .. Len(versions'[s]) /\ versions'[s][i] = versions[s][i]
      /\ \/ row.config = strategies[s].config
         \/ strategies[s].config \notin kept
         \/ \E i \in 1 .. Len(versions'[s]) : versions'[s][i].config = strategies[s].config
      /\ kept \subseteq used[s] \cup {row.config} /\ used'[s] = kept
      /\ \A t \in Strategies : t # s => used'[t] = used[t]
  BY <1>0, SnapshotKeeps DEF IInv, TypeOK
<1>2. /\ Rows(strategies)' = Rows(strategies) /\ Rows(agents)' = Rows(agents)
      /\ \A t \in Rows(strategies) : t # s => strategies'[t] = strategies[t]
      /\ strategies'[s] = row
  BY <1>0 DEF IInv, TypeOK, Rows
<1>3. TypeOK'
  BY <1>0, <1>1, <1>2 DEF IInv, TypeOK
<1>4. ConfigsRecoverable'
  <2> SUFFICES ASSUME NEW t \in Rows(strategies), NEW c \in used'[t]
               PROVE  \/ strategies'[t].config = c
                      \/ \E i \in 1 .. Len(versions'[t]) : versions'[t][i].config = c
    BY <1>2 DEF ConfigsRecoverable
  <2>1. CASE t # s
    <3>1. t \in Strategies /\ c \in used[t]
      BY <2>1, <1>1, RowTypes DEF IInv
    <3> QED
      BY <3>1, <2>1, <1>1, <1>2 DEF IInv, ConfigsRecoverable
  <2>2. CASE t = s /\ c = row.config
    BY <2>2, <1>2
  <2>3. CASE t = s /\ c \in used[s] /\ c \in kept
    <3>1. CASE strategies[s].config = c
      BY <3>1, <2>3, <1>1, <1>2
    <3>2. CASE \E i \in 1 .. Len(versions[s]) : versions[s][i].config = c
      BY <3>2, <2>3, <1>1
    <3> QED
      BY <3>1, <3>2, <2>3 DEF IInv, ConfigsRecoverable
  <2> QED
    BY <2>1, <2>2, <2>3, <1>0, <1>1
<1>5. ActiveAgentsRunWhatTheyStarted'
  <2> SUFFICES ASSUME NEW a \in Rows(agents), agents[a].status = "active"
               PROVE  strategies'[agents[a].strategy].config \in {started[a], None}
    BY <1>2 DEF ActiveAgentsRunWhatTheyStarted
  <2>1. /\ agents[a].strategy \in Rows(strategies)
        /\ strategies[agents[a].strategy].config \in {started[a], None}
    BY DEF IInv, TypeOK, ActiveAgentsRunWhatTheyStarted
  <2>2. agents[a].strategy = s => row.config \in {strategies[s].config, None}
    BY DEF ActiveAgents
  <2> QED
    BY <2>1, <2>2, <1>2
<1>6. OpenRowsOnAgentsAccount'
  BY DEF IInv, OpenRowsOnAgentsAccount
<1> QED
  BY <1>3, <1>4, <1>5, <1>6 DEF IInv

LEMMA UpdateStrategyInv ==
    ASSUME IInv, NEW s \in Strategies, NEW n \in Names \cup {Keep},
           NEW c \in Configs \cup {None, Keep}, NEW public \in BOOLEAN \cup {Keep},
           UpdateStrategy(s, n, c, public)
    PROVE  IInv'
<1>1. PICK name \in IF n = Keep THEN {strategies[s].name} ELSE UniqueNames(n, s, None) :
          LET row == [name |-> name,
                      config |-> Patched(c, strategies[s].config),
                      public |-> Patched(public, strategies[s].public)]
          IN  /\ strategies' = [strategies EXCEPT ![s] = row]
              /\ used' = [used EXCEPT ![s] = IF c = None /\ ~Edits(n, c)
                                             THEN @ \ {strategies[s].config}
                                             ELSE @ \cup {row.config}]
  BY DEF UpdateStrategy
<1> DEFINE row == [name |-> name,
                   config |-> Patched(c, strategies[s].config),
                   public |-> Patched(public, strategies[s].public)]
           kept == IF c = None /\ ~Edits(n, c) THEN used[s] \ {strategies[s].config}
                   ELSE used[s] \cup {row.config}
<1>2. s \in Rows(strategies) /\ strategies[s] \in Strategy
  BY RowTypes DEF UpdateStrategy, IInv
<1>3. name \in Names
  BY <1>2, NamesOffered DEF Strategy
<1>4. row \in Strategy /\ row.config = Patched(c, strategies[s].config)
  BY <1>2, <1>3 DEF Strategy, Patched
<1>5. kept \in SUBSET (Configs \cup {None})
  BY <1>4 DEF IInv, TypeOK, Strategy
<1>6. /\ Request /\ strategies' = [strategies EXCEPT ![s] = row]
      /\ used' = [used EXCEPT ![s] = kept]
      /\ UNCHANGED <<agents, accounts, positions, started>>
  BY <1>1 DEF UpdateStrategy
<1>7. \/ Snapshot(s) /\ ActiveAgents(s) = {} /\ kept = used[s] \cup {row.config}
      \/ /\ UNCHANGED versions /\ row.config = strategies[s].config
         /\ kept = used[s] \cup {row.config}
      \/ /\ UNCHANGED versions /\ row.config = None
         /\ kept = used[s] \ {strategies[s].config}
  <2>1. CASE Edits(n, c)
    BY <2>1 DEF UpdateStrategy
  <2>2. CASE ~Edits(n, c) /\ c = None
    BY <2>2, <1>4, Parameters DEF UpdateStrategy, Patched, Edits
  <2>3. CASE ~Edits(n, c) /\ c # None
    BY <2>3, <1>4 DEF UpdateStrategy, Patched, Edits
  <2> QED
    BY <2>1, <2>2, <2>3
<1> HIDE DEF row, kept
<1> QED
  BY <1>2, <1>4, <1>5, <1>6, <1>7, ChangedRowInv

LEMMA RestoreVersionInv ==
    ASSUME IInv, NEW s \in Strategies, NEW i \in 1 .. Len(versions[s]), RestoreVersion(s, i)
    PROVE  IInv'
<1> DEFINE v == versions[s][i]
           row == [strategies[s] EXCEPT !.name = v.name, !.config = v.config]
<1>1. s \in Rows(strategies) /\ strategies[s] \in Strategy /\ v \in Version
  BY RowTypes DEF RestoreVersion, IInv
<1>2. row \in Strategy /\ row.config = v.config
  BY <1>1 DEF Strategy, Version
<1>3. /\ Request /\ Snapshot(s) /\ ActiveAgents(s) = {}
      /\ used' = [used EXCEPT ![s] = used[s] \cup {row.config}]
      /\ used[s] \cup {row.config} \in SUBSET (Configs \cup {None})
      /\ UNCHANGED <<agents, accounts, positions, started>>
  BY <1>1, <1>2 DEF RestoreVersion, Restored, Version, IInv, TypeOK
<1>4. strategies' = [strategies EXCEPT ![s] = row]
  BY DEF RestoreVersion, Restored, IInv, TypeOK
<1> HIDE DEF row, v
<1> QED
  BY <1>1, <1>2, <1>3, <1>4, ChangedRowInv

LEMMA DeleteStrategyInv ==
    ASSUME IInv, NEW s \in Strategies, DeleteStrategy(s)
    PROVE  IInv'
<1>0. /\ strategies' = [strategies EXCEPT ![s] = None]
      /\ versions' = [versions EXCEPT ![s] = <<>>]
      /\ used' = [used EXCEPT ![s] = {}]
      /\ UNCHANGED <<agents, accounts, positions, started>>
      /\ requests' \in 0 .. MaxRequests
      /\ \A a \in Rows(agents) : agents[a].strategy # s
  BY Parameters DEF DeleteStrategy, Request, IInv, TypeOK
<1>1. /\ Rows(strategies)' = Rows(strategies) \ {s} /\ Rows(agents)' = Rows(agents)
      /\ \A t \in Strategies \ {s} : /\ strategies'[t] = strategies[t]
                                     /\ versions'[t] = versions[t] /\ used'[t] = used[t]
  BY <1>0 DEF IInv, TypeOK, Rows
<1>3. TypeOK'
  BY <1>0, <1>1, NoVersions DEF IInv, TypeOK
<1>4. ConfigsRecoverable'
  BY <1>1, RowTypes DEF IInv, ConfigsRecoverable
<1>5. ActiveAgentsRunWhatTheyStarted'
  BY <1>0, <1>1, RowTypes DEF IInv, TypeOK, ActiveAgentsRunWhatTheyStarted
<1>6. OpenRowsOnAgentsAccount'
  BY <1>0 DEF IInv, OpenRowsOnAgentsAccount
<1> QED
  BY <1>3, <1>4, <1>5, <1>6 DEF IInv

LEMMA CatalogInv ==
    ASSUME IInv, CatalogNext
    PROVE  IInv'
BY CreateStrategyInv, CopyInv, UpdateStrategyInv, RestoreVersionInv, DeleteStrategyInv
   DEF CatalogNext

-----------------------------------------------------------------------------
(* Agents.                                                                 *)

\* A step that changes the row of one agent, and perhaps open rows: what the
\* new row must be for the invariant to hold.
LEMMA AgentStepInv ==
    ASSUME IInv, NEW a \in Agents, NEW row \in Agent \cup {None},
           agents' = [agents EXCEPT ![a] = row],
           row # None => /\ row.strategy \in Rows(strategies)
                         /\ row.account \in accounts \cup {None}
                         /\ row.status = "active" =>
                               strategies[row.strategy].config \in {started'[a], None},
           started' \in [Agents -> Configs \cup {None}],
           \A b \in Agents : b # a => started'[b] = started[b],
           positions' \subseteq positions,
           \A p \in positions' : p.agent = a =>
               row # None /\ row.account \in {p.account, None},
           requests' \in 0 .. MaxRequests,
           UNCHANGED <<strategies, versions, accounts, used>>
    PROVE  IInv'
<1>1. /\ Rows(strategies)' = Rows(strategies)
      /\ \A b \in Agents : b # a => agents'[b] = agents[b] /\ (b \in Rows(agents)' <=> b \in Rows(agents))
      /\ agents'[a] = row /\ (a \in Rows(agents)' <=> row # None)
      /\ Rows(agents)' \subseteq Agents
  BY DEF IInv, TypeOK, Rows
<1>2. \A p \in positions : p.agent \in Agents
  BY DEF IInv, TypeOK, Position
<1>3. TypeOK'
  <2>1. agents' \in [Agents -> Agent \cup {None}]
    BY DEF IInv, TypeOK
  <2>2. \A b \in Rows(agents)' : /\ agents'[b].strategy \in Rows(strategies)
                                 /\ agents'[b].account \in accounts \cup {None}
    BY <1>1 DEF IInv, TypeOK
  <2>3. \A p \in positions' : p.agent \in Rows(agents)' /\ p.account \in accounts \cup {None}
    BY <1>1, <1>2 DEF IInv, TypeOK
  <2> QED
    BY <1>1, <2>1, <2>2, <2>3 DEF IInv, TypeOK
<1>4. ConfigsRecoverable'
  BY <1>1 DEF IInv, ConfigsRecoverable
<1>5. ActiveAgentsRunWhatTheyStarted'
  BY <1>1 DEF IInv, ActiveAgentsRunWhatTheyStarted
<1>6. OpenRowsOnAgentsAccount'
  BY <1>1, <1>2 DEF IInv, OpenRowsOnAgentsAccount
<1> QED
  BY <1>3, <1>4, <1>5, <1>6 DEF IInv

LEMMA CreateAgentInv ==
    ASSUME IInv, NEW a \in Agents, NEW s \in Strategies, NEW n \in Names,
           NEW c \in Accounts \cup {None}, NEW percent \in 0 .. Whole,
           CreateAgent(a, s, n, c, percent)
    PROVE  IInv'
<1>1. PICK name \in UniqueNames(n, None, None) :
          agents' = [agents EXCEPT ![a] = NewAgent(name, s, c, percent)]
  BY DEF CreateAgent
<1> DEFINE row == NewAgent(name, s, c, percent)
<1>2. /\ row \in Agent /\ row.strategy = s /\ row.account = c /\ row.status = "draft"
  BY NamesOffered DEF NewAgent, Agent, Statuses
<1>3. /\ s \in Rows(strategies) /\ c \in accounts \cup {None} /\ agents[a] = None
      /\ started' \in [Agents -> Configs \cup {None}]
      /\ \A b \in Agents : b # a => started'[b] = started[b]
      /\ requests' \in 0 .. MaxRequests
      /\ UNCHANGED <<strategies, versions, accounts, positions, used>>
  BY Parameters DEF CreateAgent, Request, IInv, TypeOK
<1>4. \A p \in positions' : p.agent # a
  BY <1>3 DEF IInv, TypeOK, Rows
<1>5. agents' = [agents EXCEPT ![a] = row] /\ row # None
  BY <1>1, <1>2, Parameters
<1>6. /\ row.strategy \in Rows(strategies) /\ row.account \in accounts \cup {None}
      /\ row.status # "active" /\ row \in Agent \cup {None}
      /\ positions' \subseteq positions
  BY <1>2, <1>3
<1> HIDE DEF row
<1>7. \A p \in positions' : p.agent = a => row # None /\ row.account \in {p.account, None}
  BY <1>4
<1> QED
  BY <1>3, <1>5, <1>6, <1>7, AgentStepInv

LEMMA UpdateAgentInv ==
    ASSUME IInv, NEW a \in Agents, NEW patch \in Patches, UpdateAgent(a, patch)
    PROVE  IInv'
<1> DEFINE old == agents[a]
           row == [old EXCEPT !.account = Patched(patch.account, @),
                              !.live = Patched(patch.live, @),
                              !.percent = Patched(patch.percent, @)]
<1>1. /\ a \in Rows(agents) /\ old \in Agent /\ old # None
      /\ old.account \in accounts \cup {None} /\ old.strategy \in Rows(strategies)
      /\ old.status = "active" => strategies[old.strategy].config \in {started[a], None}
  BY RowTypes, Parameters DEF UpdateAgent, IInv, TypeOK, ActiveAgentsRunWhatTheyStarted
<1>2. /\ Patched(patch.account, old.account) \in Accounts \cup {None}
      /\ Patched(patch.live, old.live) \in BOOLEAN
      /\ Patched(patch.percent, old.percent) \in 0 .. Whole
  BY <1>1 DEF Patched, Patches, Agent
<1>3. /\ row \in Agent /\ row.strategy = old.strategy /\ row.status = old.status
      /\ row.account = Patched(patch.account, old.account)
  BY <1>1, <1>2 DEF Agent
<1>4. /\ agents' = [agents EXCEPT ![a] = row]
      /\ requests' \in 0 .. MaxRequests
      /\ UNCHANGED <<strategies, versions, accounts, positions, used, started>>
  <2>1. agents' = [agents EXCEPT ![a] = row]
    BY DEF UpdateAgent
  <2>2. /\ requests' \in 0 .. MaxRequests
        /\ UNCHANGED <<strategies, versions, accounts, positions, used, started>>
    BY Parameters DEF UpdateAgent, Request, IInv, TypeOK
  <2> QED
    BY <2>1, <2>2
<1>5. /\ row.account \in accounts \cup {None}
      /\ \/ row.account = None \/ row.account = old.account \/ PositionsOf(a) = {}
  BY <1>1, <1>3 DEF UpdateAgent, Patched, HasOpenPositions
<1>6. \A p \in positions : p.agent = a => row.account \in {p.account, None}
  BY <1>5 DEF PositionsOf, IInv, OpenRowsOnAgentsAccount
<1>7. row # None /\ started' \in [Agents -> Configs \cup {None}]
  BY <1>3, <1>4, Parameters DEF IInv, TypeOK
<1>8. /\ row.strategy \in Rows(strategies)
      /\ row.status = "active" => strategies[row.strategy].config \in {started'[a], None}
  BY <1>1, <1>3, <1>4
<1> HIDE DEF row, old
<1> QED
  BY <1>3, <1>4, <1>5, <1>6, <1>7, <1>8, AgentStepInv

LEMMA UpdateAgentStatusInv ==
    ASSUME IInv, NEW a \in Agents, NEW new \in {"active", "paused", "stopped"},
           NEW closing \in BOOLEAN, UpdateAgentStatus(a, new, closing)
    PROVE  IInv'
<1> DEFINE row == [agents[a] EXCEPT !.status = new]
<1>1. /\ a \in Rows(agents) /\ agents[a] \in Agent
      /\ agents[a].account \in accounts \cup {None} /\ agents[a].strategy \in Rows(strategies)
  BY RowTypes DEF UpdateAgentStatus, IInv, TypeOK
<1>2. /\ row \in Agent /\ row # None /\ row.strategy = agents[a].strategy /\ row.status = new
      /\ row.account = agents[a].account
  BY <1>1, Parameters DEF Agent, Statuses
<1>3. strategies[row.strategy].config \in Configs \cup {None}
  BY <1>1, <1>2, RowTypes DEF IInv, Strategy
<1>4. /\ agents' = [agents EXCEPT ![a] = row]
      /\ requests' \in 0 .. MaxRequests
      /\ UNCHANGED <<strategies, versions, accounts, used>>
      /\ positions' \subseteq positions
  BY <1>1, Parameters DEF UpdateAgentStatus, Request, IInv, TypeOK
<1>5. /\ started' \in [Agents -> Configs \cup {None}]
      /\ \A b \in Agents : b # a => started'[b] = started[b]
      /\ new = "active" => started'[a] = strategies[row.strategy].config
  BY <1>2, <1>3 DEF UpdateAgentStatus, IInv, TypeOK
<1>6. \A p \in positions' : p.agent = a => row.account \in {p.account, None}
  BY <1>2, <1>4 DEF IInv, OpenRowsOnAgentsAccount
<1> HIDE DEF row
<1> QED
  BY <1>1, <1>2, <1>4, <1>5, <1>6, AgentStepInv

LEMMA DeleteAgentInv ==
    ASSUME IInv, NEW a \in Agents, NEW force \in BOOLEAN, NEW credentials \in BOOLEAN,
           DeleteAgent(a, force, credentials)
    PROVE  IInv'
<1>1. /\ agents' = [agents EXCEPT ![a] = None]
      /\ positions' \subseteq positions /\ \A p \in positions' : p.agent # a
      /\ started' \in [Agents -> Configs \cup {None}]
      /\ \A b \in Agents : b # a => started'[b] = started[b]
      /\ requests' \in 0 .. MaxRequests
      /\ UNCHANGED <<strategies, versions, accounts, used>>
  BY Parameters DEF DeleteAgent, Request, PositionsOf, IInv, TypeOK
<1> QED
  BY <1>1, AgentStepInv

LEMMA WorkerFailsInv ==
    ASSUME IInv, NEW a \in Agents, WorkerFails(a)
    PROVE  IInv'
<1> DEFINE row == [agents[a] EXCEPT !.status = "error"]
<1>1. /\ a \in Rows(agents) /\ agents[a] \in Agent
      /\ agents[a].account \in accounts \cup {None} /\ agents[a].strategy \in Rows(strategies)
  BY RowTypes DEF WorkerFails, IInv, TypeOK
<1>2. /\ row \in Agent /\ row # None /\ row.strategy = agents[a].strategy /\ row.status = "error"
      /\ row.account = agents[a].account
  BY <1>1, Parameters DEF Agent, Statuses
<1>3. /\ agents' = [agents EXCEPT ![a] = row]
      /\ UNCHANGED <<strategies, versions, accounts, positions, requests, used, started>>
  BY <1>1 DEF WorkerFails, IInv, TypeOK
<1>4. \A p \in positions : p.agent = a => row.account \in {p.account, None}
  BY <1>2 DEF IInv, OpenRowsOnAgentsAccount
<1>5. started' \in [Agents -> Configs \cup {None}] /\ requests' \in 0 .. MaxRequests
  BY <1>3 DEF IInv, TypeOK
<1> HIDE DEF row
<1> QED
  BY <1>1, <1>2, <1>3, <1>4, <1>5, AgentStepInv

LEMMA WorkerTradesInv ==
    ASSUME IInv, NEW a \in Agents, NEW symbol \in Symbols, WorkerTrades(a, symbol)
    PROVE  IInv'
<1> DEFINE new == [agent |-> a, symbol |-> symbol, account |-> agents[a].account]
<1>1. a \in Rows(agents) /\ agents[a] \in Agent /\ agents[a].account \in accounts \cup {None}
  BY RowTypes DEF WorkerTrades, IInv, TypeOK
<1>2. /\ new \in Position /\ new.agent = a /\ new.account = agents[a].account
  BY <1>1 DEF Position, Agent
<1>3. /\ positions' \subseteq positions \cup {new}
      /\ UNCHANGED <<strategies, versions, agents, accounts, requests, used, started>>
  BY DEF WorkerTrades
<1> HIDE DEF new
<1>4. TypeOK'
  BY <1>1, <1>2, <1>3 DEF IInv, TypeOK, Rows
<1>5. ConfigsRecoverable' /\ ActiveAgentsRunWhatTheyStarted'
  BY <1>3 DEF IInv, ConfigsRecoverable, ActiveAgentsRunWhatTheyStarted, Rows
<1>6. OpenRowsOnAgentsAccount'
  BY <1>1, <1>2, <1>3, Parameters DEF IInv, OpenRowsOnAgentsAccount
<1> QED
  BY <1>4, <1>5, <1>6 DEF IInv

-----------------------------------------------------------------------------
(* Accounts.                                                               *)

LEMMA CreateAccountInv ==
    ASSUME IInv, NEW c \in Accounts, CreateAccount(c)
    PROVE  IInv'
<1>1. /\ accounts' = accounts \cup {c} /\ requests' \in 0 .. MaxRequests
      /\ UNCHANGED <<strategies, versions, agents, positions, used, started>>
  BY Parameters DEF CreateAccount, Request, IInv, TypeOK
<1>2. Rows(strategies)' = Rows(strategies) /\ Rows(agents)' = Rows(agents)
  BY <1>1 DEF Rows
<1>3. TypeOK'
  BY <1>1, <1>2 DEF IInv, TypeOK
<1> QED
  BY <1>1, <1>2, <1>3
     DEF IInv, ConfigsRecoverable, ActiveAgentsRunWhatTheyStarted, OpenRowsOnAgentsAccount

LEMMA DeleteAccountInv ==
    ASSUME IInv, NEW c \in Accounts, DeleteAccount(c)
    PROVE  IInv'
<1> DEFINE bound == {a \in Rows(agents) : /\ agents[a].account = c
                                         /\ agents[a].status \in {"active", "paused"}}
           after(a) == [agents[a] EXCEPT !.status = IF a \in bound THEN "stopped" ELSE @,
                                         !.account = Unlink(c, @)]
           moved(p) == [p EXCEPT !.account = Unlink(c, @)]
           left == {q \in positions : q.agent \notin bound}
<1>1. /\ agents' = [a \in Agents |-> IF a \notin Rows(agents) THEN None ELSE after(a)]
      /\ positions' = {moved(p) : p \in left}
      /\ accounts' = accounts \ {c} /\ requests' \in 0 .. MaxRequests
      /\ UNCHANGED <<strategies, versions, used, started>>
  <2>1. /\ agents' = [a \in Agents |-> IF a \notin Rows(agents) THEN None ELSE after(a)]
        /\ positions' = {moved(p) : p \in left}
    BY DEF DeleteAccount
  <2>2. /\ accounts' = accounts \ {c} /\ Request
        /\ UNCHANGED <<strategies, versions, used, started>>
    BY DEF DeleteAccount
  <2>3. requests' \in 0 .. MaxRequests
    BY <2>2, Parameters DEF Request, IInv, TypeOK
  <2> QED
    BY <2>1, <2>2, <2>3
<1>2. \A a \in Rows(agents) :
         /\ after(a) \in Agent
         /\ after(a).strategy = agents[a].strategy
         /\ after(a).account = Unlink(c, agents[a].account)
         /\ after(a).account \in accounts' \cup {None}
         /\ after(a).status = "active" => agents[a].status = "active"
  <2> SUFFICES ASSUME NEW a \in Rows(agents)
               PROVE  /\ after(a) \in Agent
                      /\ after(a).strategy = agents[a].strategy
                      /\ after(a).account = Unlink(c, agents[a].account)
                      /\ after(a).account \in accounts' \cup {None}
                      /\ after(a).status = "active" => agents[a].status = "active"
    OBVIOUS
  <2>1. agents[a] \in Agent /\ agents[a].account \in accounts \cup {None}
    BY RowTypes DEF IInv, TypeOK
  <2>2. /\ Unlink(c, agents[a].account) \in Accounts \cup {None}
        /\ Unlink(c, agents[a].account) \in accounts' \cup {None}
    BY <1>1, <2>1 DEF Unlink, IInv, TypeOK
  <2> DEFINE status == IF a \in bound THEN "stopped" ELSE agents[a].status
  <2>3. status \in Statuses /\ (status = "active" => agents[a].status = "active")
    BY <2>1 DEF Agent, Statuses
  <2> HIDE DEF status
  <2>4. after(a) = [agents[a] EXCEPT !.status = status, !.account = Unlink(c, @)]
    BY DEF status
  <2> QED
    BY <2>1, <2>2, <2>3, <2>4 DEF Agent
<1>3. /\ Rows(strategies)' = Rows(strategies) /\ Rows(agents)' = Rows(agents)
      /\ \A a \in Rows(agents) : agents'[a] = after(a)
  <2> HIDE DEF after
  <2>1. \A a \in Agents : agents'[a] = IF a \in Rows(agents) THEN after(a) ELSE None
    BY <1>1
  <2>2. \A a \in Rows(agents) : after(a) # None /\ a \in Agents
    BY <1>2, RowTypes, Parameters DEF IInv
  <2>3. DOMAIN agents' = Agents
    BY <1>1
  <2>4. Rows(agents)' = Rows(agents)
    BY <2>1, <2>2, <2>3 DEF Rows
  <2> QED
    BY <1>1, <2>1, <2>2, <2>4 DEF Rows
<1> HIDE DEF after
<1>4. \A p \in left : /\ moved(p) \in Position /\ moved(p).agent = p.agent
                      /\ moved(p).account = Unlink(c, p.account)
                      /\ moved(p).account \in accounts' \cup {None}
  BY <1>1 DEF IInv, TypeOK, Position, Unlink
<1> HIDE DEF moved
<1>5. TypeOK'
  <2>1. agents' \in [Agents -> Agent \cup {None}]
    BY <1>1, <1>2
  <2>2. \A a \in Rows(agents)' : /\ agents'[a].strategy \in Rows(strategies)'
                                 /\ agents'[a].account \in accounts' \cup {None}
    BY <1>2, <1>3 DEF IInv, TypeOK
  <2>3. \A p \in positions' : /\ p \in Position /\ p.agent \in Rows(agents)'
                              /\ p.account \in accounts' \cup {None}
    BY <1>1, <1>3, <1>4 DEF IInv, TypeOK
  <2> QED
    BY <1>1, <2>1, <2>2, <2>3 DEF IInv, TypeOK
<1>6. ConfigsRecoverable'
  BY <1>1, <1>3 DEF IInv, ConfigsRecoverable
<1>7. ActiveAgentsRunWhatTheyStarted'
  BY <1>1, <1>2, <1>3 DEF IInv, ActiveAgentsRunWhatTheyStarted
<1>8. OpenRowsOnAgentsAccount'
  <2> SUFFICES ASSUME NEW q \in left
               PROVE  /\ agents'[q.agent] # None
                      /\ agents'[q.agent].account \in {Unlink(c, q.account), None}
    BY <1>1, <1>4 DEF OpenRowsOnAgentsAccount
  <2>1. q.agent \in Rows(agents) /\ agents[q.agent].account \in {q.account, None}
    BY DEF IInv, TypeOK, OpenRowsOnAgentsAccount
  <2>2. agents'[q.agent].account = Unlink(c, agents[q.agent].account)
    BY <1>2, <1>3, <2>1
  <2>3. agents'[q.agent] # None
    BY <1>2, <1>3, <2>1, Parameters
  <2> QED
    BY <2>1, <2>2, <2>3 DEF Unlink
<1> QED
  BY <1>5, <1>6, <1>7, <1>8 DEF IInv

-----------------------------------------------------------------------------
LEMMA NextInv ==
    ASSUME IInv, [Next]_vars
    PROVE  IInv'
<1>1. CASE CatalogNext
  BY <1>1, CatalogInv
<1>2. CASE AgentsNext
  BY <1>2, CreateAgentInv, UpdateAgentInv, UpdateAgentStatusInv, DeleteAgentInv,
     CreateAccountInv, DeleteAccountInv, WorkerTradesInv, WorkerFailsInv DEF AgentsNext
<1>3. CASE UNCHANGED vars
  BY <1>3 DEF vars, tables, IInv, TypeOK, Rows, ConfigsRecoverable,
     ActiveAgentsRunWhatTheyStarted, OpenRowsOnAgentsAccount
<1> QED
  BY <1>1, <1>2, <1>3 DEF Next

(* What the tables say of each other holds in every reachable state.        *)
THEOREM TablesInvariance == Spec => []IInv
BY InitInv, NextInv, PTL DEF Spec

(* No edit or restoration loses a config a strategy has had, unless an      *)
(* explicit null overwrites it (strategies.py, strategy.py).                *)
THEOREM ConfigsAreRecoverable == Spec => []ConfigsRecoverable
<1>1. IInv => ConfigsRecoverable
  BY DEF IInv
<1> QED
  BY <1>1, TablesInvariance, PTL

(* An active agent runs the config its strategy had when it was activated,  *)
(* or none after an explicit null (strategies.py, update_strategy).         *)
THEOREM AgentsRunWhatTheyStarted == Spec => []ActiveAgentsRunWhatTheyStarted
<1>1. IInv => ActiveAgentsRunWhatTheyStarted
  BY DEF IInv
<1> QED
  BY <1>1, TablesInvariance, PTL

(* In whatever order requests are made, one after the other, rows refer to  *)
(* rows that exist, and an open row to its agent's account unless that was  *)
(* set to null (agents.py, accounts.py).                                    *)
THEOREM ReferencesAlwaysHold == Spec => []ReferencesHold
<1>1. IInv => ReferencesHold
  BY DEF IInv, ReferencesHold
<1> QED
  BY <1>1, TablesInvariance, PTL
=============================================================================
