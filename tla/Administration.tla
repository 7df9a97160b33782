--------------------------- MODULE Administration ---------------------------
(***************************************************************************)
(* The handlers of agents.py and accounts.py, with their repositories,     *)
(* beside those of the strategies they refer to, and what the worker of an *)
(* active agent does to the rows they read.                                *)
(*                                                                         *)
(* Not here: the kinds of strategies, models and exchanges a request is    *)
(* checked against, and the worker that a change of status starts or stops *)
(* (WorkerOwnership).  A cycle does not overlap a request.                 *)
(***************************************************************************)
EXTENDS StrategyCatalog

\* The part of account c that the live agents but a have been promised.
Allocated(c, a) ==
    LET counted == {b \in Rows(agents) \ {a} :
                       /\ agents[b].account = c /\ agents[b].live
                       /\ agents[b].status \in {"active", "draft", "paused"}}
    IN  FoldFunctionOnSet(+, 0, [b \in Agents |-> IF b \in counted THEN agents[b].percent ELSE 0], Agents)

\* A new row starts as a draft.
NewAgent(name, s, c, percent) ==
    [name |-> name, strategy |-> s, status |-> "draft",
     live |-> c # None, account |-> c, percent |-> percent]

\* c is None for a mock agent.
CreateAgent(a, s, n, c, percent) ==
    /\ Request
    /\ agents[a] = None
    /\ s \in Rows(strategies)
    /\ c # None => c \in accounts
    /\ c # None /\ percent > 0 => Allocated(c, None) + percent <= Whole
    /\ \E name \in UniqueNames(n, None, None) :
           agents' = [agents EXCEPT ![a] = NewAgent(name, s, c, percent)]
    /\ started' = [started EXCEPT ![a] = None]
    /\ UNCHANGED <<strategies, versions, accounts, positions, used>>

\* What a PATCH may set.  The account may be set to null, which no check looks at.
Patches == [account : Accounts \cup {None, Keep}, live : {TRUE, FALSE, Keep},
            percent : (0 .. Whole) \cup {Keep}]

\* The share is tested against the account the agent has before the request,
\* whatever account the same request gives it.
UpdateAgent(a, patch) ==
    /\ Request
    /\ a \in Rows(agents)
    /\ patch.account \notin {None, Keep} =>
           ~HasOpenPositions(a) /\ patch.account \in accounts
    /\ patch.percent # Keep => ~HasOpenPositions(a)
    /\ patch.percent \notin {0, Keep} /\ agents[a].account # None =>
           Allocated(agents[a].account, a) + patch.percent <= Whole
    /\ agents' = [agents EXCEPT ![a].account = Patched(patch.account, @),
                                ![a].live = Patched(patch.live, @),
                                ![a].percent = Patched(patch.percent, @)]
    /\ UNCHANGED <<strategies, versions, accounts, positions, used, started>>

Transitions ==
    {<<"draft", "active">>, <<"active", "paused">>, <<"active", "stopped">>,
     <<"paused", "active">>, <<"paused", "stopped">>,
     <<"error", "active">>, <<"error", "stopped">>}

\* The rows _close_agent_positions may have closed when it ends: those whose
\* position the exchange did close or, for an agent that is not live or has no
\* account, all of them, with no exchange asked.  Nothing is closed when the
\* account's credentials cannot be decrypted.
Closings(a) ==
    IF agents[a].live /\ agents[a].account # None THEN SUBSET PositionsOf(a)
    ELSE {PositionsOf(a)}

\* The transaction that changes the status ends before positions are closed.
UpdateAgentStatus(a, new, closePositions) ==
    /\ Request
    /\ a \in Rows(agents)
    /\ <<agents[a].status, new>> \in Transitions
    /\ new = "active" /\ agents[a].live => agents[a].account # None
    /\ agents' = [agents EXCEPT ![a].status = new]
    /\ started' = IF new # "active" THEN started
                  ELSE [started EXCEPT ![a] = strategies[agents[a].strategy].config]
    /\ IF new = "stopped" /\ closePositions
       THEN \E closed \in Closings(a) : positions' = positions \ closed
       ELSE UNCHANGED positions
    /\ UNCHANGED <<strategies, versions, accounts, used>>

\* With force, the open positions are closed first; the request is refused
\* only if every one of them failed.  credentials: can they be decrypted?  If
\* not nothing is closed and nothing has failed.  The position rows go with
\* the agent's.
DeleteAgent(a, force, credentials) ==
    /\ Request
    /\ a \in Rows(agents)
    /\ agents[a].status \in {"draft", "stopped"}
    /\ HasOpenPositions(a) => force /\ (credentials => \E closed \in Closings(a) : closed # {})
    /\ agents' = [agents EXCEPT ![a] = None]
    /\ positions' = positions \ PositionsOf(a)
    /\ started' = [started EXCEPT ![a] = None]
    /\ UNCHANGED <<strategies, versions, accounts, used>>

CreateAccount(c) ==
    /\ Request
    /\ c \notin accounts
    /\ accounts' = accounts \cup {c}
    /\ UNCHANGED <<strategies, versions, agents, positions, used, started>>

\* The agents bound to the account are stopped and their rows closed at price
\* 0; other agents, and other rows, lose the account.
DeleteAccount(c) ==
    /\ Request
    /\ c \in accounts
    /\ LET bound == {a \in Rows(agents) : /\ agents[a].account = c
                                         /\ agents[a].status \in {"active", "paused"}}
       IN  /\ agents' = [a \in Agents |->
                   IF a \notin Rows(agents) THEN None
                   ELSE [agents[a] EXCEPT !.status = IF a \in bound THEN "stopped" ELSE @,
                                          !.account = Unlink(c, @)]]
           /\ positions' = {[p EXCEPT !.account = Unlink(c, @)] :
                               p \in {q \in positions : q.agent \notin bound}}
    /\ accounts' = accounts \ {c}
    /\ UNCHANGED <<strategies, versions, used, started>>

-----------------------------------------------------------------------------
(* The worker of an active agent.                                          *)

\* A cycle opens a position, or closes one.  A live agent without an account
\* does not trade.
WorkerTrades(a, symbol) ==
    /\ a \in Rows(agents)
    /\ agents[a].status = "active"
    /\ agents[a].live => agents[a].account # None
    /\ LET held == {p \in PositionsOf(a) : p.symbol = symbol}
       IN  positions' = IF held # {} THEN positions \ held
                        ELSE positions \cup {[agent |-> a, symbol |-> symbol,
                                              account |-> agents[a].account]}
    /\ UNCHANGED <<strategies, versions, agents, accounts, requests, used, started>>

\* Too many cycles in a row have failed.
WorkerFails(a) ==
    /\ a \in Rows(agents)
    /\ agents[a].status = "active"
    /\ agents' = [agents EXCEPT ![a].status = "error"]
    /\ UNCHANGED <<strategies, versions, accounts, positions, requests, used, started>>

AgentsNext ==
    \/ \E a \in Agents, s \in Strategies, n \in Names, c \in Accounts \cup {None},
          percent \in 0 .. Whole : CreateAgent(a, s, n, c, percent)
    \/ \E a \in Agents, patch \in Patches : UpdateAgent(a, patch)
    \/ \E a \in Agents, new \in {"active", "paused", "stopped"}, closing \in BOOLEAN :
           UpdateAgentStatus(a, new, closing)
    \/ \E a \in Agents, force, credentials \in BOOLEAN : DeleteAgent(a, force, credentials)
    \/ \E c \in Accounts : CreateAccount(c) \/ DeleteAccount(c)
    \/ \E a \in Agents, symbol \in Symbols : WorkerTrades(a, symbol)
    \/ \E a \in Agents : WorkerFails(a)

Next == CatalogNext \/ AgentsNext

Spec == Init /\ [][Next]_vars

-----------------------------------------------------------------------------
\* Whatever a strategy has been set to can be found again: every config its
\* row has held is there, or in one of its versions, except one that an explicit
\* null has overwritten (UpdateStrategy).  A change that forgets to take a
\* snapshot, or takes it after the row has changed, loses one.
ConfigsRecoverable ==
    \A s \in Rows(strategies) : \A c \in used[s] :
        \/ strategies[s].config = c
        \/ \E i \in 1 .. Len(versions[s]) : versions[s][i].config = c

\* An active agent runs the config its strategy had when the agent was last
\* activated, whatever has been edited, restored or reactivated since, or it
\* has none: an explicit null is let through under an active agent.
ActiveAgentsRunWhatTheyStarted ==
    \A a \in Rows(agents) : agents[a].status = "active" =>
        strategies[agents[a].strategy].config \in {started[a], None}

\* An open row names the account its agent trades on, or the agent has none: no
\* change of account, deletion or switch between mock and live leaves a
\* position on one account with its agent on another, where it would be closed
\* on the wrong exchange.
OpenRowsOnAgentsAccount ==
    \A p \in positions :
        /\ agents[p.agent] # None
        /\ agents[p.agent].account \in {p.account, None}

\* Rows are of their types and refer to rows that exist, on the right account.
ReferencesHold == TypeOK /\ OpenRowsOnAgentsAccount
=============================================================================
