------------------------------- MODULE PriceFeed -------------------------------
(***************************************************************************)
(* How mock agents learn prices: MockTrader's own cache, the process's     *)
(* SharedPriceCache, and PricePrefetchService, which refreshes the latter  *)
(* for the symbols of running agents when it is the leader.                *)
(*                                                                         *)
(* One process.  Processes were meant to share prices and to elect a       *)
(* leader through Redis, but the calls (set with ex and nx) are not those  *)
(* of RedisService: they raise, the exception is swallowed, nothing is     *)
(* stored and nobody is elected.  (Without a service a process would lead, *)
(* but get_redis_service never fails.)  A price is the number of the       *)
(* change that made it.                                                    *)
(***************************************************************************)
EXTENDS Integers, FiniteSets

CONSTANTS
    Agents,
    Symbols,
    Watch,          \* the symbols of each agent's strategy
    MaxMoves        \* bound on the price changes of a symbol

FeedParameters ==
    /\ Watch \in [Agents -> SUBSET Symbols \ {{}}]
    /\ MaxMoves \in Nat

VARIABLES
    market,       \* the exchange's price of each symbol
    shared,       \* SharedPriceCache: price and whether its TTL has passed
    own,          \* the same of each agent's MockTrader
    told,         \* what each trader last gave its simulator
    running,      \* agents with a worker
    fetching,     \* the agents' requests to the exchange, with the price on its way
    registered,   \* _agent_symbols
    subscribers,  \* _subscriptions: subscriber_count of each symbol
    started, leader

vars == <<market, shared, own, told, running, fetching, registered, subscribers,
          started, leader>>

Moves   == 0 .. MaxMoves
NoPrice == -1
Unknown == [price |-> NoPrice, fresh |-> FALSE]
Fresh(p) == [price |-> p, fresh |-> TRUE]
Cached  == [price : Moves \cup {NoPrice}, fresh : BOOLEAN]

Init ==
    /\ market = [s \in Symbols |-> 0]
    /\ shared = [s \in Symbols |-> Unknown]
    /\ own  = [a \in Agents |-> [s \in Symbols |-> Unknown]]
    /\ told = [a \in Agents |-> [s \in Symbols |-> NoPrice]]
    /\ running = {}
    /\ fetching = [a \in Agents |-> [s \in Symbols |-> NoPrice]]
    /\ registered = [a \in Agents |-> {}]
    /\ subscribers = [s \in Symbols |-> 0]
    /\ started = FALSE /\ leader = FALSE

traders == <<own, told, fetching>>
service == <<registered, subscribers, started, leader>>

-----------------------------------------------------------------------------
(* The caches.                                                              *)

\* get_price without a fetcher, as all its callers call it: an entry whose TTL has
\* passed is still the answer ("graceful degradation").
SharedAnswer(s) == shared[s].price

Expire(s) ==
    /\ shared[s].fresh
    /\ shared' = [shared EXCEPT ![s].fresh = FALSE]
    /\ UNCHANGED <<market, running, traders, service>>

ExpireOwn(a, s) ==
    /\ own[a][s].fresh
    /\ own' = [own EXCEPT ![a][s].fresh = FALSE]
    /\ UNCHANGED <<market, shared, running, told, fetching, service>>

-----------------------------------------------------------------------------
(* MockTrader: a price is its own while the TTL lasts, then the shared      *)
(* cache's, and only then the exchange's.                                   *)

Tell(a, s, p) ==
    /\ own'  = [own EXCEPT ![a][s] = Fresh(p)]
    /\ told' = [told EXCEPT ![a][s] = p]

Asks(a, s) ==
    /\ a \in running /\ s \in Watch[a]
    /\ fetching[a][s] = NoPrice

\* _refresh_prices tells the simulator what the trader's own cache holds.
ReadOwn(a, s) ==
    /\ Asks(a, s) /\ own[a][s].fresh
    /\ Tell(a, s, own[a][s].price)
    /\ UNCHANGED <<market, shared, running, fetching, service>>

\* get_market_price and get_market_data keep a shared price to themselves: the
\* simulator hears of it at the next refresh.
LookUp(a, s) ==
    /\ Asks(a, s) /\ ~own[a][s].fresh
    /\ SharedAnswer(s) # NoPrice
    /\ own' = [own EXCEPT ![a][s] = Fresh(SharedAnswer(s))]
    /\ UNCHANGED <<market, shared, running, told, fetching, service>>

ReadShared(a, s) ==
    /\ Asks(a, s) /\ ~own[a][s].fresh
    /\ SharedAnswer(s) # NoPrice
    /\ Tell(a, s, SharedAnswer(s))
    /\ UNCHANGED <<market, shared, running, fetching, service>>

Request(a, s) ==
    /\ Asks(a, s) /\ ~own[a][s].fresh
    /\ SharedAnswer(s) = NoPrice
    /\ fetching' = [fetching EXCEPT ![a][s] = market[s]]
    /\ UNCHANGED <<market, shared, running, own, told, service>>

Answered(a, s) ==
    /\ fetching[a][s] # NoPrice
    /\ fetching' = [fetching EXCEPT ![a][s] = NoPrice]
    /\ Tell(a, s, fetching[a][s])
    /\ shared' = [shared EXCEPT ![s] = Fresh(fetching[a][s])]
    /\ UNCHANGED <<market, running, service>>

\* The request fails: the trader goes on with what it knew, however old.
Failed(a, s) ==
    /\ fetching[a][s] # NoPrice
    /\ fetching' = [fetching EXCEPT ![a][s] = NoPrice]
    /\ told' = [told EXCEPT ![a][s] = IF own[a][s].price = NoPrice THEN @ ELSE own[a][s].price]
    /\ UNCHANGED <<market, shared, running, own, service>>

-----------------------------------------------------------------------------
(* The agents and the registration of their symbols.                        *)

Registered(a) ==
    /\ started' = TRUE
    /\ registered' = [registered EXCEPT ![a] = @ \cup Watch[a]]
    /\ subscribers' = [s \in Symbols |-> subscribers[s] + (IF s \in Watch[a] THEN 1 ELSE 0)]

\* A subscription ends with its last subscriber.
Unregistered(a) ==
    /\ registered' = [registered EXCEPT ![a] = {}]
    /\ subscribers' = [s \in Symbols |->
          IF s \in registered[a] /\ subscribers[s] > 0 THEN subscribers[s] - 1 ELSE subscribers[s]]

Forgotten(a) ==
    /\ own'  = [own EXCEPT ![a] = [s \in Symbols |-> Unknown]]
    /\ told' = [told EXCEPT ![a] = [s \in Symbols |-> NoPrice]]
    /\ fetching' = [fetching EXCEPT ![a] = [s \in Symbols |-> NoPrice]]

StartAgent(a) ==
    /\ a \notin running
    /\ running' = running \cup {a}
    /\ Registered(a)
    /\ UNCHANGED <<market, shared, traders, leader>>

StopAgent(a) ==
    /\ a \in running
    /\ running' = running \ {a}
    /\ Unregistered(a)
    /\ Forgotten(a)
    /\ UNCHANGED <<market, shared, started, leader>>

-----------------------------------------------------------------------------
(* PricePrefetchService.                                                    *)

\* _try_acquire_leadership: SET raises.
Acquired == FALSE

Elect ==
    /\ started
    /\ leader' = Acquired
    /\ UNCHANGED <<market, shared, running, traders, registered, subscribers, started>>

\* One symbol of a cycle; fetched has been asked for before it is stored.
Prefetch(s) ==
    /\ started /\ leader
    /\ subscribers[s] > 0
    /\ shared' = [shared EXCEPT ![s] = Fresh(market[s])]
    /\ UNCHANGED <<market, running, traders, service>>

Move(s) ==
    /\ market[s] < MaxMoves
    /\ market' = [market EXCEPT ![s] = @ + 1]
    /\ UNCHANGED <<shared, running, traders, service>>

-----------------------------------------------------------------------------
Refresh(a, s) == ReadOwn(a, s) \/ ReadShared(a, s) \/ Request(a, s)
Step(a, s) == Refresh(a, s) \/ LookUp(a, s) \/ Answered(a, s) \/ Failed(a, s) \/ ExpireOwn(a, s)

Next ==
    \/ \E a \in Agents : StartAgent(a) \/ StopAgent(a) \/ \E s \in Symbols : Step(a, s)
    \/ \E s \in Symbols : Expire(s) \/ Prefetch(s) \/ Move(s)
    \/ Elect

Spec == Init /\ [][Next]_vars

\* A running agent refreshes in every cycle and time passes; the election and the prefetch
\* are loops; a request that is repeated is answered some day.
Fairness ==
    /\ \A a \in Agents, s \in Symbols :
          /\ WF_vars(Refresh(a, s))
          /\ WF_vars(ExpireOwn(a, s))
          /\ SF_vars(Answered(a, s))
    /\ \A s \in Symbols : WF_vars(Expire(s)) /\ WF_vars(Prefetch(s))
    /\ WF_vars(Elect)

FairSpec == Spec /\ Fairness

-----------------------------------------------------------------------------
TypeOK ==
    /\ market \in [Symbols -> Moves]
    /\ shared \in [Symbols -> Cached]
    /\ own \in [Agents -> [Symbols -> Cached]]
    /\ told \in [Agents -> [Symbols -> Moves \cup {NoPrice}]]
    /\ running \subseteq Agents
    /\ fetching \in [Agents -> [Symbols -> Moves \cup {NoPrice}]]
    /\ registered \in [Agents -> SUBSET Symbols]
    /\ subscribers \in [Symbols -> Nat]
    /\ {started, leader} \subseteq BOOLEAN

(* A price that no longer changes reaches every agent that keeps running:   *)
(* agents that come and go do not end the prefetch for those that stay, and *)
(* no cache keeps an old answer for good.                                   *)
PricesArrive ==
    \A a \in Agents : \A s \in Watch[a] :
        <>[](a \in running) => <>[](told[a][s] = market[s])
=============================================================================
