------------------------------ MODULE LiveUpdates ------------------------------
(***************************************************************************)
(* The WebSocket connections of one process (api/websocket.py,             *)
(* api/routes/ws.py): three tables under one lock, read by publishers      *)
(* without it.  Each connection is served by a coroutine; so is each event *)
(* that is published.  A step is what a coroutine does between two awaits. *)
(***************************************************************************)
EXTENDS Naturals, FiniteSets

CONSTANTS
    Connections,        \* identifiers of connections
    Users,
    Channels,           \* channels to subscribe to
    Protected,          \* those with an owner: strategy:<id> and account:<id>
    Owner,              \* the owner of each protected channel
    None,               \* no user, no publisher
    MaxPerUser, MaxTotal,    \* the limits
    MaxEvents                \* bound on the published events

UpdateParameters ==
    /\ None \notin Users \cup Connections
    /\ Protected \subseteq Channels /\ Owner \in [Protected -> Users]
    /\ {MaxPerUser, MaxTotal, MaxEvents} \subseteq Nat

VARIABLES
    connected,      \* _connections
    ofUser,         \* _user_connections
    subscribers,    \* _channel_subscribers
    conn,           \* each connection: its user, subscriptions, authorizations, and its coroutine
    alive,          \* connections whose client still listens
    lock,           \* the connection whose coroutine holds _lock, or None
    event,          \* the publication in progress
    events

vars == <<connected, ofUser, subscribers, conn, alive, lock, event, events>>

-----------------------------------------------------------------------------
New   == [user |-> None, subs |-> {}, granted |-> {}, refused |-> {}, step |-> "new", asks |-> None]
Quiet == [to |-> {}, dead |-> {}]

Init ==
    /\ connected = {}
    /\ ofUser = [u \in Users |-> {}]
    /\ subscribers = [ch \in Channels |-> {}]
    /\ conn = [c \in Connections |-> New]
    /\ alive = {}
    /\ lock = None
    /\ event = Quiet
    /\ events = 0

At(c, step) == conn[c].step = step

\* The limits are tested before the socket is accepted, ...
Connect(c, u) ==
    /\ At(c, "new")
    /\ Cardinality(connected) < MaxTotal
    /\ u # None => Cardinality(ofUser[u]) < MaxPerUser
    /\ conn' = [conn EXCEPT ![c].user = u, ![c].step = "accepted"]
    /\ alive' = alive \cup {c}
    /\ UNCHANGED <<connected, ofUser, subscribers, lock, event, events>>

\* ... and the connection is entered after.
Enter(c) ==
    /\ At(c, "accepted") /\ lock = None
    /\ connected' = connected \cup {c}
    /\ ofUser' = [u \in Users |-> IF u = conn[c].user THEN ofUser[u] \cup {c} ELSE ofUser[u]]
    /\ conn' = [conn EXCEPT ![c].step = "serving"]
    /\ UNCHANGED <<subscribers, alive, lock, event, events>>

\* subscribe takes the lock and keeps it while the owner of the channel is looked up.
Subscribe(c, ch) ==
    /\ At(c, "serving") /\ lock = None
    /\ c \in connected
    /\ conn' = [conn EXCEPT ![c].step = "subscribing", ![c].asks = ch]
    /\ lock' = c
    /\ UNCHANGED <<connected, ofUser, subscribers, alive, event, events>>

\* Public channels, and answers remembered for _CHANNEL_AUTH_CACHE_TTL.
Granted(c, ch) ==
    ch \in Protected =>
        /\ conn[c].user # None
        /\ ch \notin conn[c].refused
        /\ ch \notin conn[c].granted => Owner[ch] = conn[c].user

\* A look-up that fails counts as a refusal, and is remembered like one.
Subscribed(c) ==
    /\ At(c, "subscribing")
    /\ LET ch == conn[c].asks
           looked == ch \in Protected /\ ch \notin conn[c].granted \cup conn[c].refused
           enter(known) ==
               /\ conn' = [conn EXCEPT ![c].step = "serving", ![c].asks = None,
                                       ![c].subs = @ \cup {ch}, ![c].granted = @ \cup known]
               /\ subscribers' = [subscribers EXCEPT ![ch] = @ \cup {c}]
           refuse(known) ==
               /\ conn' = [conn EXCEPT ![c].step = "serving", ![c].asks = None,
                                       ![c].refused = @ \cup known]
               /\ UNCHANGED subscribers
       IN  \/ /\ Granted(c, ch)
              /\ enter(IF looked THEN {ch} ELSE {})
           \/ /\ ~Granted(c, ch)
              /\ refuse(IF looked /\ conn[c].user # None THEN {ch} ELSE {})
           \/ /\ looked /\ conn[c].user # None
              /\ refuse({ch})
    /\ lock' = None
    /\ UNCHANGED <<connected, ofUser, alive, event, events>>

\* Authorizations are asked again when they have expired.
Forget(c) ==
    /\ At(c, "serving") /\ conn[c].granted \cup conn[c].refused # {}
    /\ conn' = [conn EXCEPT ![c].granted = {}, ![c].refused = {}]
    /\ UNCHANGED <<connected, ofUser, subscribers, alive, lock, event, events>>

Unsubscribe(c, ch) ==
    /\ At(c, "serving") /\ lock = None
    /\ c \in connected
    /\ conn' = [conn EXCEPT ![c].subs = @ \ {ch}]
    /\ subscribers' = [subscribers EXCEPT ![ch] = @ \ {c}]
    /\ UNCHANGED <<connected, ofUser, alive, lock, event, events>>

ClientGone(c) ==
    /\ c \in alive
    /\ alive' = alive \ {c}
    /\ UNCHANGED <<connected, ofUser, subscribers, conn, lock, event, events>>

\* Wrong variant of LockFree: leaving does not wait for the lock.
LockFree_Always == TRUE

LockFree == lock = None

\* disconnect.
Removed(c) ==
    /\ LockFree
    /\ connected' = connected \ {c}
    /\ ofUser' = [u \in Users |-> ofUser[u] \ {c}]
    /\ subscribers' = [ch \in Channels |-> IF ch \in conn[c].subs THEN subscribers[ch] \ {c}
                                                                 ELSE subscribers[ch]]

\* The coroutine of the connection finds out that its client is gone.
Disconnect(c) ==
    /\ At(c, "serving") /\ c \notin alive
    /\ IF c \in connected THEN Removed(c)
                          ELSE LockFree /\ UNCHANGED <<connected, ofUser, subscribers>>
    /\ conn' = [conn EXCEPT ![c].step = "over"]
    /\ UNCHANGED <<alive, lock, event, events>>

\* The publishers copy the table they send along.
PublishTo(targets) ==
    /\ event = Quiet /\ targets # {}
    /\ events < MaxEvents
    /\ event' = [event EXCEPT !.to = targets]
    /\ events' = events + 1
    /\ UNCHANGED <<connected, ofUser, subscribers, conn, alive, lock>>

SendToUser(u)          == PublishTo(ofUser[u])
BroadcastToChannel(ch) == PublishTo(subscribers[ch])

\* A connection that has left meanwhile, or whose client is gone, is dead to the publisher.
Send(c) ==
    /\ c \in event.to
    /\ event' = [event EXCEPT !.to = @ \ {c},
                              !.dead = IF c \in connected \cap alive THEN @ ELSE @ \cup {c}]
    /\ UNCHANGED <<connected, ofUser, subscribers, conn, alive, lock, events>>

\* Then it removes the dead ones, while their coroutines may be anywhere.
CleanUp(c) ==
    /\ event.to = {} /\ c \in event.dead
    /\ IF c \in connected THEN Removed(c)
                          ELSE LockFree /\ UNCHANGED <<connected, ofUser, subscribers>>
    /\ event' = [event EXCEPT !.dead = @ \ {c}]
    /\ UNCHANGED <<conn, alive, lock, events>>

Next ==
    \/ \E c \in Connections :
          \/ \E u \in Users \cup {None} : Connect(c, u)
          \/ Enter(c) \/ Subscribed(c) \/ Forget(c) \/ ClientGone(c) \/ Disconnect(c)
          \/ Send(c) \/ CleanUp(c)
          \/ \E ch \in Channels : Subscribe(c, ch) \/ Unsubscribe(c, ch)
    \/ \E u \in Users : SendToUser(u)
    \/ \E ch \in Channels : BroadcastToChannel(ch)

Spec == Init /\ [][Next]_vars

-----------------------------------------------------------------------------
TypeOK ==
    /\ connected \subseteq Connections /\ alive \subseteq Connections
    /\ ofUser \in [Users -> SUBSET Connections]
    /\ subscribers \in [Channels -> SUBSET Connections]
    /\ conn \in [Connections ->
                   [user : Users \cup {None}, subs : SUBSET Channels, granted : SUBSET Protected,
                    refused : SUBSET Protected,
                    asks : Channels \cup {None},
                    step : {"new", "accepted", "serving", "subscribing", "over"}]]
    /\ lock \in Connections \cup {None}
    /\ event \in [to : SUBSET Connections, dead : SUBSET Connections]
    /\ events \in 0..MaxEvents

(* The three tables never disagree, whatever publishers, clients that vanish*)
(* and slow ownership checks do to each other: a channel's subscribers are  *)
(* the connections that are there and that list the channel, and a user's   *)
(* connections are those there that are his (connect, disconnect and        *)
(* subscribe keep three dictionaries in step).                              *)
TablesAgree ==
    /\ \A ch \in Channels : subscribers[ch] = {c \in connected : ch \in conn[c].subs}
    /\ \A u \in Users : ofUser[u] = {c \in connected : conn[c].user = u}

(* Only the owner of a strategy or an account subscribes to its channel.    *)
OwnersOnly ==
    \A ch \in Protected : \A c \in subscribers[ch] : conn[c].user = Owner[ch]
=============================================================================
