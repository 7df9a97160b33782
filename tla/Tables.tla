------------------------------- MODULE Tables -------------------------------
(***************************************************************************)
(* The rows one user administers (db/models.py): strategies with the       *)
(* snapshots of their former definitions, the agents that run them, the    *)
(* exchange accounts agents trade on, and the open position rows.          *)
(*                                                                         *)
(* A row's identity is a member of a small set, free again once the row is *)
(* deleted and nothing refers to it.  A strategy's config, symbols and     *)
(* description change together: one member of Configs, or None once a      *)
(* request has set the config to null (or an empty copy of that).  A       *)
(* position row leaves the set when it is closed.                          *)
(***************************************************************************)
EXTENDS Integers, Sequences, FiniteSets, SequencesExt

CONSTANTS
    Strategies, Agents, Accounts, Symbols, Names, Configs,
    None,
    Keep,        \* stands for a field that a PATCH leaves out
    Whole,       \* 100 % of an account, in units of allocated_capital_percent
    MaxVersions, \* bound on the snapshots of a strategy
    MaxRequests  \* bound on the requests answered

VARIABLES
    strategies, \* the row of each strategy, None where there is none
    versions,   \* strategy_versions: version n is the n-th of the sequence
    agents,     \* the row of each agent, None where there is none
    accounts,   \* the accounts there are
    positions,  \* the open position rows
    requests,
    used,       \* history: the configs each strategy has had, but for one that
                \* a request has overwritten with null
    started     \* history: the config its strategy had when an agent was activated

tables == <<strategies, versions, agents, accounts, positions>>
vars == <<tables, requests, used, started>>

-----------------------------------------------------------------------------
Strategy == [name : Names, config : Configs \cup {None}, public : BOOLEAN]

Version == [name : Names, config : Configs \cup {None}]

Statuses == {"draft", "active", "paused", "stopped", "error"}

\* percent is allocated_capital_percent, 0 where it is null.
Agent == [name : Names, strategy : Strategies, status : Statuses,
          live : BOOLEAN, account : Accounts \cup {None}, percent : 0 .. Whole]

Position == [agent : Agents, symbol : Symbols, account : Accounts \cup {None}]

ASSUME TableParameters ==
    /\ Whole \in Nat \ {0} /\ MaxVersions \in Nat /\ MaxRequests \in Nat
    /\ None \notin Strategies \cup Agents \cup Accounts \cup Names \cup Configs
    /\ None \notin Strategy \cup Agent
    /\ Keep # None

Rows(table) == {id \in DOMAIN table : table[id] # None}

PositionsOf(a) == {p \in positions : p.agent = a}

\* Wrong variant of HasOpenPositions: only on the account the agent has now.
HasOpenPositions_OnAccount(a) ==
    \E p \in PositionsOf(a) : p.account = agents[a].account

HasOpenPositions(a) == PositionsOf(a) # {}

\* Wrong variant of Unlink: the id of the deleted account stays.
Unlink_Never(c, old) == old

\* ON DELETE SET NULL of a deleted account's id.
Unlink(c, old) == IF old = c THEN None ELSE old

Init ==
    /\ strategies = [s \in Strategies |-> None]
    /\ versions = [s \in Strategies |-> <<>>]
    /\ agents = [a \in Agents |-> None]
    /\ accounts = Accounts
    /\ positions = {}
    /\ requests = 0
    /\ used = [s \in Strategies |-> {}]
    /\ started = [a \in Agents |-> None]

\* The bound on the number of requests.
Request == requests < MaxRequests /\ requests' = requests + 1

-----------------------------------------------------------------------------
(* Names (name_check_service.py): strategies and agents of a user share one *)
(* name space.                                                             *)

StrategiesNamed(n, but) == {s \in Rows(strategies) \ {but} : strategies[s].name = n}

AgentsNamed(n, but) == {a \in Rows(agents) \ {but} : agents[a].name = n}

NameExists(n, strategy, agent) ==
    StrategiesNamed(n, strategy) # {} \/ AgentsNamed(n, agent) # {}

\* What generate_unique_name may return for n: n itself, or else n with a
\* number that makes it new.  The query expects one strategy of a name at
\* most; with two of them it raises and the request fails.
UniqueNames(n, strategy, agent) ==
    IF Cardinality(StrategiesNamed(n, strategy)) > 1 THEN {}
    ELSE IF ~NameExists(n, strategy, agent) THEN {n}
    ELSE {m \in Names : ~NameExists(m, strategy, agent)}

\* The types of the tables, and the foreign keys between them.
TypeOK ==
    /\ strategies \in [Strategies -> Strategy \cup {None}]
    /\ versions \in [Strategies -> BoundedSeq(Version, MaxVersions)]
    /\ agents \in [Agents -> Agent \cup {None}]
    /\ accounts \subseteq Accounts
    /\ positions \subseteq Position
    /\ requests \in 0 .. MaxRequests
    /\ used \in [Strategies -> SUBSET (Configs \cup {None})]
    /\ started \in [Agents -> Configs \cup {None}]
    /\ \A a \in Rows(agents) : /\ agents[a].strategy \in Rows(strategies)
                              /\ agents[a].account \in accounts \cup {None}
    /\ \A p \in positions : p.agent \in Rows(agents) /\ p.account \in accounts \cup {None}
=============================================================================
