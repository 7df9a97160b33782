--------------------------- MODULE StrategyCatalog ---------------------------
(***************************************************************************)
(* The handlers of strategies.py with the repository behind them           *)
(* (repositories/strategy.py).  A request is one transaction; requests do  *)
(* not overlap.                                                            *)
(***************************************************************************)
EXTENDS Tables

ActiveAgents(s) ==
    {a \in Rows(agents) : agents[a].strategy = s /\ agents[a].status = "active"}

\* _create_version_snapshot
Snapshot(s) ==
    /\ Len(versions[s]) < MaxVersions
    /\ versions' = [versions EXCEPT ![s] =
           Append(@, [name |-> strategies[s].name, config |-> strategies[s].config])]

Insert(s, row) ==
    /\ strategies[s] = None
    /\ strategies' = [strategies EXCEPT ![s] = row]
    /\ used' = [used EXCEPT ![s] = {row.config}]
    /\ UNCHANGED <<versions, agents, accounts, positions, started>>

CreateStrategy(s, n, c, public) ==
    /\ Request
    /\ \E name \in UniqueNames(n, None, None) :
           Insert(s, [name |-> name, config |-> c, public |-> public])

\* A copy of a public strategy under its name or another one.
ForkStrategy(source, s, n) ==
    /\ Request
    /\ source \in Rows(strategies) /\ strategies[source].public
    /\ \E name \in UniqueNames(n, None, None) :
           Insert(s, [name |-> name, config |-> strategies[source].config, public |-> FALSE])

\* A copy of one's own strategy.
DuplicateStrategy(source, s, n) ==
    /\ Request
    /\ source \in Rows(strategies)
    /\ \E name \in UniqueNames(n, None, None) :
           Insert(s, [name |-> name, config |-> strategies[source].config, public |-> FALSE])

\* Publishing looks for another public strategy of the name the row has now,
\* whatever name the same request gives it.
MayPublish(s) ==
    \A t \in Rows(strategies) \ {s} :
        ~(strategies[t].public /\ strategies[t].name = strategies[s].name)

Patched(field, old) == IF field = Keep THEN old ELSE field

\* Fields set to null do not count as a change.
Edits(n, c) == n # Keep \/ c \notin {Keep, None}

\* The config is kept as a version before the row changes; a strategy with an
\* active agent keeps its own.  A config set to null, by itself, is written
\* with neither the check nor the snapshot.  (The columns of the name and the
\* visibility refuse a null.)
UpdateStrategy(s, n, c, public) ==
    /\ Request
    /\ s \in Rows(strategies)
    /\ Edits(n, c) => ActiveAgents(s) = {}
    /\ public = TRUE => MayPublish(s)
    /\ IF Edits(n, c) THEN Snapshot(s) ELSE UNCHANGED versions
    /\ \E name \in IF n = Keep THEN {strategies[s].name} ELSE UniqueNames(n, s, None) :
           LET row == [name |-> name,
                       config |-> Patched(c, strategies[s].config),
                       public |-> Patched(public, strategies[s].public)]
           IN  /\ strategies' = [strategies EXCEPT ![s] = row]
               /\ used' = [used EXCEPT ![s] = IF c = None /\ ~Edits(n, c)
                                              THEN @ \ {strategies[s].config}
                                              ELSE @ \cup {row.config}]
    /\ UNCHANGED <<agents, accounts, positions, started>>

\* Wrong variant of Restored: no snapshot of what it replaces.
Restored_NoSnapshot(s, i) ==
    /\ strategies' = [strategies EXCEPT ![s].name = versions[s][i].name,
                                        ![s].config = versions[s][i].config]
    /\ used' = [used EXCEPT ![s] = @ \cup {versions[s][i].config}]
    /\ UNCHANGED versions

\* restore_version of the repository: the version's name is put back as it was,
\* whoever has it now.
Restored(s, i) ==
    /\ Snapshot(s)
    /\ strategies' = [strategies EXCEPT ![s].name = versions[s][i].name,
                                        ![s].config = versions[s][i].config]
    /\ used' = [used EXCEPT ![s] = @ \cup {versions[s][i].config}]

\* Wrong variant of RestoreVersion: done under an active agent as well.
RestoreVersion_WhileActive(s, i) ==
    /\ Request
    /\ s \in Rows(strategies) /\ i \in 1 .. Len(versions[s])
    /\ Restored(s, i)
    /\ UNCHANGED <<agents, accounts, positions, started>>

RestoreVersion(s, i) ==
    /\ Request
    /\ s \in Rows(strategies) /\ i \in 1 .. Len(versions[s])
    /\ ActiveAgents(s) = {}
    /\ Restored(s, i)
    /\ UNCHANGED <<agents, accounts, positions, started>>

\* Refused while an agent refers to it; the versions go with it.
DeleteStrategy(s) ==
    /\ Request
    /\ s \in Rows(strategies)
    /\ \A a \in Rows(agents) : agents[a].strategy # s
    /\ strategies' = [strategies EXCEPT ![s] = None]
    /\ versions' = [versions EXCEPT ![s] = <<>>]
    /\ used' = [used EXCEPT ![s] = {}]
    /\ UNCHANGED <<agents, accounts, positions, started>>

CatalogNext ==
    \/ \E s \in Strategies, n \in Names, c \in Configs, public \in BOOLEAN :
           CreateStrategy(s, n, c, public)
    \/ \E source, s \in Strategies, n \in Names :
           ForkStrategy(source, s, n) \/ DuplicateStrategy(source, s, n)
    \/ \E s \in Strategies, n \in Names \cup {Keep}, c \in Configs \cup {None, Keep},
          public \in BOOLEAN \cup {Keep} : UpdateStrategy(s, n, c, public)
    \/ \E s \in Strategies : \E i \in 1 .. Len(versions[s]) : RestoreVersion(s, i)
    \/ \E s \in Strategies : DeleteStrategy(s)
=============================================================================
