------------------------------ MODULE ExchangePool ------------------------------
(***************************************************************************)
(* The pool of initialised exchange clients of one process                 *)
(* (traders/exchange_pool.py).  Coroutines acquire and release clients; a  *)
(* client is created under the lock of its exchange, the least recently    *)
(* used one makes room in a full pool, and a background sweep closes those *)
(* that nobody has touched for MAX_IDLE_SECONDS.  A step of the module is  *)
(* what a coroutine does between two awaits; at an await it may be         *)
(* cancelled, when a worker is stopped or a job has taken too long.        *)
(***************************************************************************)
EXTENDS Naturals, Sequences, FiniteSets, Lists

CONSTANTS
    Users,              \* coroutines that trade
    Keys,               \* exchange, credentials and test mode together
    ExchangeOf,         \* exchange_id of each key
    MaxPool,            \* MAX_POOL_SIZE
    MaxClients          \* bound on the clients created

PoolParameters ==
    /\ DOMAIN ExchangeOf = Keys /\ IsFiniteSet(Keys)
    /\ MaxPool \in Nat \ {0} /\ MaxClients \in Nat

Nil == 0
Clients == 1..MaxClients

VARIABLES
    entries,            \* _entries: the client of each key, or Nil
    recent,             \* the keys of entries, least recently used first
    old,                \* those idle for longer than MAX_IDLE_SECONDS
    user,               \* where each coroutine is
    created, open,      \* clients made, and those of them not closed
    sweep,              \* keys the sweep has still to close
    closing,            \* close_all: "off", "closing" or "done"
    dropped             \* (history) clients in the hands of a coroutine that was cancelled

poolVars == <<entries, recent, old, user, created, open, sweep, closing, dropped>>

-----------------------------------------------------------------------------
Idle == [step |-> "idle", key |-> Nil, client |-> Nil]

Pooled == {k \in Keys : entries[k] # Nil}

Init ==
    /\ entries = [k \in Keys |-> Nil]
    /\ recent = <<>>
    /\ old = {}
    /\ user = [u \in Users |-> Idle]
    /\ created = 0 /\ open = {}
    /\ sweep = {}
    /\ closing = "off"
    /\ dropped = {}

Without(seq, k) == Kept(seq, Keys \ {k})

\* touch.
Touch(k) ==
    /\ recent' = Append(Without(recent, k), k)
    /\ old' = old \ {k}

Drop(k) ==
    /\ entries' = [entries EXCEPT ![k] = Nil]
    /\ recent' = Without(recent, k)
    /\ old' = old \ {k}

Become(u, step, client) ==
    user' = [user EXCEPT ![u].step = step, ![u].client = client]

\* Coroutines between the capacity check and the new entry hold their exchange's lock.
Creating == {u \in Users : user[u].step \in {"check", "evicting", "creating", "created"}}

\* Wrong variant of ExchangeLockFree: the lock is one per key.
ExchangeLockFree_PerKey(k) == \A u \in Creating : user[u].key # k

ExchangeLockFree(k) == \A u \in Creating : ExchangeOf[user[u].key] # ExchangeOf[k]

\* An eviction closes its victim under the global lock.
GlobalLockFree == \A u \in Users : user[u].step # "evicting"

-----------------------------------------------------------------------------
Acquire(u, k) ==
    /\ user[u] = Idle
    /\ IF k \in Pooled
       THEN /\ Touch(k)
            /\ user' = [user EXCEPT ![u] = [step |-> "using", key |-> k, client |-> entries[k]]]
       ELSE /\ user' = [user EXCEPT ![u] = [step |-> "waiting", key |-> k, client |-> Nil]]
            /\ UNCHANGED <<recent, old>>
    /\ UNCHANGED <<entries, created, open, sweep, closing, dropped>>

\* Wrong variant of MadeMeanwhile: no second look under the lock.
MadeMeanwhile_Never(k) == FALSE

MadeMeanwhile(k) == k \in Pooled

Locked(u) ==
    /\ user[u].step = "waiting"
    /\ ExchangeLockFree(user[u].key)
    /\ IF MadeMeanwhile(user[u].key)
       THEN Touch(user[u].key) /\ Become(u, "using", entries[user[u].key])
       ELSE Become(u, "check", Nil) /\ UNCHANGED <<recent, old>>
    /\ UNCHANGED <<entries, created, open, sweep, closing, dropped>>

\* The capacity check.
MakeRoom(u) ==
    /\ user[u].step = "check"
    /\ GlobalLockFree
    /\ IF Cardinality(Pooled) >= MaxPool
       THEN Become(u, "evicting", entries[Head(recent)]) /\ Drop(Head(recent))
       ELSE Become(u, "creating", Nil) /\ UNCHANGED <<entries, recent, old>>
    /\ UNCHANGED <<created, open, sweep, closing, dropped>>

Evicted(u) ==
    /\ user[u].step = "evicting"
    /\ open' = open \ {user[u].client}
    /\ Become(u, "creating", Nil)
    /\ UNCHANGED <<entries, recent, old, created, sweep, closing, dropped>>

\* load_markets, with its retries.
Create(u) ==
    /\ user[u].step = "creating"
    /\ created < MaxClients
    /\ created' = created + 1
    /\ open' = open \cup {created'}
    /\ Become(u, "created", created')
    /\ UNCHANGED <<entries, recent, old, sweep, closing, dropped>>

\* The markets cannot be loaded: the client is closed and the caller gets the exception.
CreateFails(u) ==
    /\ user[u].step = "created"
    /\ open' = open \ {user[u].client}
    /\ user' = [user EXCEPT ![u] = Idle]
    /\ UNCHANGED <<entries, recent, old, created, sweep, closing, dropped>>

Store(u) ==
    /\ user[u].step = "created"
    /\ GlobalLockFree
    /\ entries' = [entries EXCEPT ![user[u].key] = user[u].client]
    /\ Touch(user[u].key)
    /\ Become(u, "using", user[u].client)
    /\ UNCHANGED <<created, open, sweep, closing, dropped>>

\* CancelledError is no Exception: nobody closes the victim that was popped for good, nor a
\* client that loads its markets or waits for the global lock to be stored.
Cancelled(u) ==
    /\ user[u].step \in {"waiting", "check", "evicting", "creating", "created"}
    /\ dropped' = dropped \cup ({user[u].client} \ {Nil})
    /\ user' = [user EXCEPT ![u] = Idle]
    /\ UNCHANGED <<entries, recent, old, created, open, sweep, closing>>

\* release touches the entry of the key, whichever client it holds by now.
Release(u) ==
    /\ user[u].step = "using"
    /\ IF user[u].key \in Pooled THEN Touch(user[u].key) ELSE UNCHANGED <<recent, old>>
    /\ user' = [user EXCEPT ![u] = Idle]
    /\ UNCHANGED <<entries, created, open, sweep, closing, dropped>>

\* Only acquire and release count as use: a client in use grows old.
Ages(k) ==
    /\ k \in Pooled \ old
    /\ old' = old \cup {k}
    /\ UNCHANGED <<entries, recent, user, created, open, sweep, closing, dropped>>

SweepStarts ==
    /\ sweep = {} /\ old # {} /\ closing # "closing"
    /\ sweep' = old
    /\ UNCHANGED <<entries, recent, old, user, created, open, closing, dropped>>

\* The sweep closes what the key holds now, be it touched or new since.  What is popped
\* is closed before anything else of it happens; a close that fails is only logged.
SweepOne(k) ==
    /\ k \in sweep
    /\ sweep' = sweep \ {k}
    /\ Drop(k)
    /\ open' = open \ {entries[k]}
    /\ UNCHANGED <<user, created, closing, dropped>>

\* close_all stops the sweep, closes the clients it saw and forgets all entries.
CloseAll ==
    /\ closing = "off"
    /\ closing' = "closing"
    /\ sweep' = {}
    /\ open' = open \ {entries[k] : k \in Pooled}
    /\ UNCHANGED <<entries, recent, old, user, created, dropped>>

Clear ==
    /\ closing = "closing"
    /\ closing' = "done"
    /\ entries' = [k \in Keys |-> Nil]
    /\ recent' = <<>>
    /\ old' = {}
    /\ UNCHANGED <<user, created, open, sweep, dropped>>

Next ==
    \/ \E u \in Users :
          \/ \E k \in Keys : Acquire(u, k)
          \/ Locked(u) \/ MakeRoom(u) \/ Evicted(u)
          \/ Create(u) \/ CreateFails(u) \/ Store(u) \/ Cancelled(u) \/ Release(u)
    \/ \E k \in Keys : Ages(k) \/ SweepOne(k)
    \/ SweepStarts \/ CloseAll \/ Clear

Spec == Init /\ [][Next]_poolVars

-----------------------------------------------------------------------------
TypeOK ==
    /\ entries \in [Keys -> Clients \cup {Nil}]
    /\ recent \in Seq(Keys)
    /\ old \subseteq Keys /\ sweep \subseteq Keys
    /\ user \in [Users -> [step : {"idle", "using", "waiting", "check", "evicting", "creating",
                                   "created"},
                           key : Keys \cup {Nil}, client : Clients \cup {Nil}]]
    /\ created \in 0..MaxClients /\ open \subseteq Clients
    /\ closing \in {"off", "closing", "done"}
    /\ dropped \subseteq Clients

(* Until the process shuts down, a client that is open is in the pool or in *)
(* the hands of the coroutine that creates or evicts it, so that it will be *)
(* closed: racing acquirers, evictions and sweeps lose none.  Only a        *)
(* coroutine that is cancelled does, with what it had in its hands.         *)
NoClientLeaks ==
    closing = "off" =>
        open \subseteq {entries[k] : k \in Keys} \cup {user[u].client : u \in Creating} \cup dropped

(* MAX_POOL_SIZE is checked before the client is created and the entry made *)
(* after, so coroutines of different exchanges may pass the check together; *)
(* the pool exceeds its limit by the other exchanges at most.               *)
PoolNearlyBounded ==
    Cardinality(Pooled) < MaxPool + Cardinality({ExchangeOf[k] : k \in Keys})
=============================================================================
