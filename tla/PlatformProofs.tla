---------------------------- MODULE PlatformProofs ----------------------------
(***************************************************************************)
(* What holds of the components around trading for any values of their     *)
(* constants.  Each part has its inductive invariant and a lemma for each  *)
(* of its actions; the theorems of the composition are at the end.         *)
(***************************************************************************)
EXTENDS Platform, RecursionProofs

-----------------------------------------------------------------------------
(* LiveUpdates: the three tables agree, and channels with an owner are his. *)

\* What conn keeps of a connection.
Connection ==
    [user : Viewers \cup {None}, subs : SUBSET Topics, granted : SUBSET Protected,
     refused : SUBSET Protected, asks : Topics \cup {None},
     step : {"new", "accepted", "serving", "subscribing", "over"}]

(* A connection that is not served yet is in no table and has asked for     *)
(* nothing.                                                                 *)
NewcomersAreClean ==
    \A c \in Connections : conn[c].step \in {"new", "accepted"} =>
        c \notin connected /\ conn[c].subs = {} /\ conn[c].granted = {}

(* Whoever waits for the owner of a channel holds the lock, and so cannot be*)
(* removed meanwhile.                                                       *)
AskersHoldTheLock ==
    \A c \in Connections : conn[c].step = "subscribing" =>
        lock = c /\ c \in connected /\ conn[c].asks \in Topics

(* What is remembered as granted belongs to the connection's user.          *)
GrantsAreRight ==
    \A c \in Connections : \A ch \in conn[c].granted : Owner[ch] = conn[c].user

LiveInv ==
    /\ Live!TypeOK /\ Live!TablesAgree /\ Live!OwnersOnly
    /\ NewcomersAreClean /\ AskersHoldTheLock /\ GrantsAreRight

LEMMA LiveInit ==
  ASSUME Live!UpdateParameters, Live!Init
  PROVE  LiveInv
<1>1. Live!TypeOK
  BY DEF Live!Init, Live!TypeOK, Live!UpdateParameters, Live!New, Live!Quiet
<1>2. Live!TablesAgree /\ Live!OwnersOnly
  BY DEF Live!Init, Live!TablesAgree, Live!OwnersOnly, Live!UpdateParameters, Live!New
<1>3. NewcomersAreClean /\ AskersHoldTheLock /\ GrantsAreRight
  BY DEF Live!Init, NewcomersAreClean, AskersHoldTheLock, GrantsAreRight, Live!New
<1> QED BY <1>1, <1>2, <1>3 DEF LiveInv

-----------------------------------------------------------------------------
(* Coming and leaving.                                                      *)

LEMMA ConnectKeeps ==
  ASSUME Live!UpdateParameters, LiveInv, NEW c \in Connections, NEW u \in Viewers \cup {None},
         Live!Connect(c, u)
  PROVE  LiveInv'
<1>1. conn[c] \in Connection
  BY DEF LiveInv, Live!TypeOK, Connection
<1>2. /\ conn'[c].step = "accepted" /\ conn'[c].user = u
      /\ conn'[c].subs = conn[c].subs /\ conn'[c].granted = conn[c].granted
      /\ \A d \in Connections \ {c} : conn'[d] = conn[d]
      /\ UNCHANGED <<connected, ofUser, subscribers, lock>>
  BY DEF LiveInv, Live!TypeOK, Live!Connect
<1>3. c \notin connected /\ conn[c].subs = {} /\ conn[c].granted = {}
  BY DEF LiveInv, NewcomersAreClean, Live!Connect, Live!At
<1>4. Live!TypeOK'
  BY <1>1 DEF LiveInv, Live!TypeOK, Connection, Live!Connect
<1>5. Live!TablesAgree'
  <2>1. \A d \in connected : conn'[d] = conn[d]
    BY <1>2, <1>3 DEF LiveInv, Live!TypeOK
  <2> QED BY <1>2, <2>1 DEF LiveInv, Live!TablesAgree
<1>6. Live!OwnersOnly'
  <2>1. \A k \in Topics : \A d \in subscribers[k] : conn'[d] = conn[d]
    BY <1>2, <1>3 DEF LiveInv, Live!TypeOK, Live!TablesAgree
  <2> QED BY <1>2, <2>1 DEF LiveInv, Live!OwnersOnly, Live!UpdateParameters
<1>7. NewcomersAreClean' /\ AskersHoldTheLock'
  BY <1>2, <1>3 DEF LiveInv, NewcomersAreClean, AskersHoldTheLock
<1>8. GrantsAreRight'
  BY <1>2, <1>3 DEF LiveInv, GrantsAreRight
<1> QED BY <1>4, <1>5, <1>6, <1>7, <1>8 DEF LiveInv

LEMMA EnterKeeps ==
  ASSUME Live!UpdateParameters, LiveInv, NEW c \in Connections, Live!Enter(c)
  PROVE  LiveInv'
<1>1. conn[c] \in Connection
  BY DEF LiveInv, Live!TypeOK, Connection
<1>2. /\ conn'[c].step = "serving" /\ conn'[c].user = conn[c].user
      /\ conn'[c].subs = conn[c].subs /\ conn'[c].granted = conn[c].granted
      /\ \A d \in Connections \ {c} : conn'[d] = conn[d]
      /\ connected' = connected \cup {c} /\ UNCHANGED <<subscribers, lock>>
  BY DEF LiveInv, Live!TypeOK, Live!Enter
<1>3. conn[c].subs = {} /\ conn[c].granted = {}
  BY DEF LiveInv, NewcomersAreClean, Live!Enter, Live!At
<1>4. Live!TypeOK'
  BY <1>1 DEF LiveInv, Live!TypeOK, Connection, Live!Enter
<1>5. Live!TablesAgree' /\ Live!OwnersOnly'
  BY <1>1, <1>2, <1>3 DEF LiveInv, Live!TypeOK, Live!TablesAgree, Live!OwnersOnly,
                          Live!UpdateParameters, Live!Enter
<1>6. NewcomersAreClean' /\ AskersHoldTheLock'
  BY <1>2 DEF LiveInv, NewcomersAreClean, AskersHoldTheLock
<1>7. GrantsAreRight'
  BY <1>2, <1>3 DEF LiveInv, GrantsAreRight
<1> QED BY <1>4, <1>5, <1>6, <1>7 DEF LiveInv

(* Nobody is removed while the lock is held, so no asker is.                *)
LEMMA RemovalKeeps ==
  ASSUME Live!UpdateParameters, LiveInv, NEW c \in Connections, Live!Removed(c),
         UNCHANGED <<conn, lock>>
  PROVE  /\ connected' \subseteq Connections /\ ofUser' \in [Viewers -> SUBSET Connections]
         /\ subscribers' \in [Topics -> SUBSET Connections]
         /\ Live!TablesAgree' /\ Live!OwnersOnly'
         /\ NewcomersAreClean' /\ AskersHoldTheLock' /\ GrantsAreRight'
<1> USE DEF LiveInv, Live!Removed, Live!LockFree
<1>1. /\ connected' \subseteq Connections /\ ofUser' \in [Viewers -> SUBSET Connections]
      /\ subscribers' \in [Topics -> SUBSET Connections]
  BY DEF Live!TypeOK
<1>2. Live!TablesAgree' /\ Live!OwnersOnly'
  BY DEF Live!TypeOK, Live!TablesAgree, Live!OwnersOnly, Live!UpdateParameters
<1>3. NewcomersAreClean' /\ AskersHoldTheLock' /\ GrantsAreRight'
  BY DEF NewcomersAreClean, AskersHoldTheLock, GrantsAreRight, Live!UpdateParameters
<1> QED BY <1>1, <1>2, <1>3

LEMMA DisconnectKeeps ==
  ASSUME Live!UpdateParameters, LiveInv, NEW c \in Connections, Live!Disconnect(c)
  PROVE  LiveInv'
<1>1. /\ connected' \subseteq Connections /\ ofUser' \in [Viewers -> SUBSET Connections]
      /\ subscribers' \in [Topics -> SUBSET Connections]
      /\ LiveInv /\ lock = None
      /\ \A d \in connected' : d \in connected
  BY DEF LiveInv, Live!Disconnect, Live!Removed, Live!LockFree, Live!TypeOK
<1>2. /\ conn'[c].step = "over" /\ conn[c].step = "serving"
      /\ conn'[c].user = conn[c].user /\ conn'[c].subs = conn[c].subs
      /\ conn'[c].granted = conn[c].granted
      /\ \A d \in Connections \ {c} : conn'[d] = conn[d]
  BY DEF LiveInv, Live!TypeOK, Live!Disconnect, Live!At
<1>3. Live!TypeOK'
  BY <1>1 DEF LiveInv, Live!TypeOK, Live!Disconnect
<1>4. Live!TablesAgree' /\ Live!OwnersOnly'
  BY <1>1, <1>2 DEF LiveInv, Live!TypeOK, Live!TablesAgree, Live!OwnersOnly,
                    Live!UpdateParameters, Live!Disconnect, Live!Removed
<1>5. NewcomersAreClean' /\ AskersHoldTheLock'
  BY <1>1, <1>2 DEF LiveInv, NewcomersAreClean, AskersHoldTheLock, Live!UpdateParameters
<1>6. GrantsAreRight'
  BY <1>2 DEF LiveInv, GrantsAreRight
<1> QED BY <1>3, <1>4, <1>5, <1>6 DEF LiveInv

-----------------------------------------------------------------------------
(* Subscriptions.                                                           *)

LEMMA SubscribeKeeps ==
  ASSUME Live!UpdateParameters, LiveInv, NEW c \in Connections, NEW ch \in Topics,
         Live!Subscribe(c, ch)
  PROVE  LiveInv'
<1>1. /\ conn'[c].step = "subscribing" /\ conn'[c].asks = ch
      /\ conn'[c].user = conn[c].user /\ conn'[c].subs = conn[c].subs
      /\ conn'[c].granted = conn[c].granted
      /\ \A d \in Connections \ {c} : conn'[d] = conn[d]
  BY DEF LiveInv, Live!TypeOK, Live!Subscribe
<1>2. Live!TypeOK'
  <2>1. conn[c] \in Connection
    BY DEF LiveInv, Live!TypeOK, Connection
  <2>2. conn' = [conn EXCEPT ![c] = [conn[c] EXCEPT !.step = "subscribing", !.asks = ch]]
    BY DEF Live!Subscribe
  <2>3. conn' \in [Connections -> Connection]
    BY <2>1, <2>2 DEF LiveInv, Live!TypeOK, Connection
  <2> QED BY <2>3 DEF LiveInv, Live!TypeOK, Live!Subscribe, Connection
<1>3. Live!TablesAgree' /\ Live!OwnersOnly'
  BY <1>1 DEF LiveInv, Live!TypeOK, Live!TablesAgree, Live!OwnersOnly, Live!UpdateParameters,
              Live!Subscribe
<1>4. NewcomersAreClean'
  BY <1>1 DEF LiveInv, NewcomersAreClean, Live!Subscribe
<1>5. AskersHoldTheLock'
  BY <1>1 DEF LiveInv, AskersHoldTheLock, Live!Subscribe, Live!UpdateParameters
<1>6. GrantsAreRight'
  BY <1>1 DEF LiveInv, GrantsAreRight
<1> QED BY <1>2, <1>3, <1>4, <1>5, <1>6 DEF LiveInv

(* What is entered was granted: now, or by the owner's look-up before.      *)
LEMMA SubscribedKeeps ==
  ASSUME Live!UpdateParameters, LiveInv, NEW c \in Connections, Live!Subscribed(c)
  PROVE  LiveInv'
<1> DEFINE ch == conn[c].asks
           Enters == /\ Live!Granted(c, ch)
                     /\ conn'[c].subs = conn[c].subs \cup {ch}
                     /\ conn'[c].granted \subseteq conn[c].granted \cup ({ch} \cap Protected)
                     /\ subscribers' = [subscribers EXCEPT ![ch] = @ \cup {c}]
           Refused == /\ conn'[c].subs = conn[c].subs
                      /\ conn'[c].granted = conn[c].granted
                      /\ subscribers' = subscribers
<1>1. ch \in Topics /\ c \in connected /\ lock = c
  BY DEF LiveInv, AskersHoldTheLock, Live!Subscribed, Live!At
<1>2. /\ conn'[c].step = "serving" /\ conn[c].step = "subscribing"
      /\ conn'[c].user = conn[c].user
      /\ \A d \in Connections \ {c} : conn'[d] = conn[d]
      /\ UNCHANGED <<connected, ofUser, alive, event, events>> /\ lock' = None
  BY DEF LiveInv, Live!TypeOK, Live!Subscribed, Live!At
<1>3. Enters \/ Refused
  BY <1>1 DEF LiveInv, Live!TypeOK, Live!Subscribed, Live!Granted
<1>4. Live!TypeOK'
  BY <1>1, <1>2 DEF LiveInv, Live!TypeOK, Live!Subscribed
<1>5. Enters => (ch \in Protected => conn[c].user = Owner[ch])
  BY DEF LiveInv, Live!Granted, GrantsAreRight
<1>6. Live!TablesAgree'
  BY <1>1, <1>2, <1>3 DEF LiveInv, Live!TypeOK, Live!TablesAgree
<1>7. Live!OwnersOnly'
  <2> SUFFICES ASSUME NEW k \in Protected, NEW d \in subscribers'[k]
               PROVE  conn'[d].user = Owner[k]
    BY DEF Live!OwnersOnly
  <2>1. d \in Connections /\ k \in Topics
    BY <1>4 DEF Live!TypeOK, Live!UpdateParameters
  <2>2. conn'[d].user = conn[d].user
    BY <1>2, <2>1
  <2>3. CASE d \in subscribers[k]
    BY <2>2, <2>3 DEF LiveInv, Live!OwnersOnly
  <2>4. CASE d \notin subscribers[k]
    <3>1. Enters /\ k = ch /\ d = c
      BY <1>1, <1>3, <2>1, <2>4 DEF LiveInv, Live!TypeOK
    <3> QED BY <3>1, <2>2, <1>5
  <2> QED BY <2>3, <2>4
<1>8. NewcomersAreClean'
  BY <1>2 DEF LiveInv, NewcomersAreClean
<1>9. AskersHoldTheLock'
  BY <1>1, <1>2 DEF LiveInv, AskersHoldTheLock
<1>10. GrantsAreRight'
  BY <1>1, <1>2, <1>3, <1>5 DEF LiveInv, GrantsAreRight
<1> QED BY <1>4, <1>6, <1>7, <1>8, <1>9, <1>10 DEF LiveInv

LEMMA UnsubscribeKeeps ==
  ASSUME Live!UpdateParameters, LiveInv, NEW c \in Connections, NEW ch \in Topics,
         Live!Unsubscribe(c, ch)
  PROVE  LiveInv'
<1>1. /\ conn'[c].step = conn[c].step /\ conn[c].step = "serving"
      /\ conn'[c].user = conn[c].user /\ conn'[c].subs = conn[c].subs \ {ch}
      /\ conn'[c].granted = conn[c].granted
      /\ \A d \in Connections \ {c} : conn'[d] = conn[d]
  BY DEF LiveInv, Live!TypeOK, Live!Unsubscribe, Live!At
<1>2. Live!TypeOK'
  <2>1. conn[c] \in Connection /\ conn'[c] \in Connection
    BY SMTT(60) DEF LiveInv, Live!TypeOK, Live!Unsubscribe, Connection
  <2> QED BY <2>1 DEF LiveInv, Live!TypeOK, Live!Unsubscribe, Connection
<1>3. Live!TablesAgree' /\ Live!OwnersOnly'
  BY <1>1 DEF LiveInv, Live!TypeOK, Live!TablesAgree, Live!OwnersOnly, Live!UpdateParameters,
              Live!Unsubscribe
<1>4. NewcomersAreClean' /\ AskersHoldTheLock'
  BY <1>1 DEF LiveInv, NewcomersAreClean, AskersHoldTheLock, Live!Unsubscribe
<1>5. GrantsAreRight'
  BY <1>1 DEF LiveInv, GrantsAreRight
<1> QED BY <1>2, <1>3, <1>4, <1>5 DEF LiveInv

LEMMA ForgetKeeps ==
  ASSUME Live!UpdateParameters, LiveInv, NEW c \in Connections, Live!Forget(c)
  PROVE  LiveInv'
<1>1. /\ conn'[c].step = conn[c].step /\ conn[c].step = "serving"
      /\ conn'[c].user = conn[c].user /\ conn'[c].subs = conn[c].subs
      /\ conn'[c].granted = {}
      /\ \A d \in Connections \ {c} : conn'[d] = conn[d]
  BY DEF LiveInv, Live!TypeOK, Live!Forget, Live!At
<1>2. Live!TypeOK'
  <2>1. conn[c] \in Connection
    BY DEF LiveInv, Live!TypeOK, Connection
  <2>2. conn' = [conn EXCEPT ![c] = [conn[c] EXCEPT !.granted = {}, !.refused = {}]]
    BY DEF Live!Forget
  <2>3. conn' \in [Connections -> Connection]
    BY <2>1, <2>2 DEF LiveInv, Live!TypeOK, Connection
  <2> QED BY <2>3 DEF LiveInv, Live!TypeOK, Live!Forget, Connection
<1>3. Live!TablesAgree' /\ Live!OwnersOnly'
  BY <1>1 DEF LiveInv, Live!TypeOK, Live!TablesAgree, Live!OwnersOnly, Live!UpdateParameters,
              Live!Forget
<1>4. NewcomersAreClean' /\ AskersHoldTheLock'
  BY <1>1 DEF LiveInv, NewcomersAreClean, AskersHoldTheLock, Live!Forget
<1>5. GrantsAreRight'
  BY <1>1 DEF LiveInv, GrantsAreRight
<1> QED BY <1>2, <1>3, <1>4, <1>5 DEF LiveInv

-----------------------------------------------------------------------------
(* Publishers.                                                              *)

LEMMA CleanUpKeeps ==
  ASSUME Live!UpdateParameters, LiveInv, NEW c \in Connections, Live!CleanUp(c)
  PROVE  LiveInv'
<1>1. UNCHANGED <<conn, alive, lock, events>>
  BY DEF Live!CleanUp
<1>2. event' \in [to : SUBSET Connections, dead : SUBSET Connections]
  BY DEF LiveInv, Live!TypeOK, Live!CleanUp
<1>3. CASE c \in connected
  <2>1. Live!Removed(c)
    BY <1>3 DEF Live!CleanUp
  <2> QED BY <1>1, <1>2, <2>1, RemovalKeeps DEF LiveInv, Live!TypeOK
<1>4. CASE c \notin connected
  BY <1>1, <1>2, <1>4 DEF Live!CleanUp, LiveInv, Live!TypeOK, Live!TablesAgree,
                          Live!OwnersOnly, NewcomersAreClean,
                          AskersHoldTheLock, GrantsAreRight
<1> QED BY <1>3, <1>4

(* Publishing, sending and a client that vanishes leave the tables alone.   *)
LEMMA ReadersKeep ==
  ASSUME LiveInv, Live!TypeOK', UNCHANGED <<connected, ofUser, subscribers, conn, lock>>
  PROVE  LiveInv'
BY DEF LiveInv, Live!TablesAgree, Live!OwnersOnly, NewcomersAreClean, AskersHoldTheLock,
       GrantsAreRight

LEMMA PublishKeeps ==
  ASSUME Live!UpdateParameters, LiveInv, NEW targets \in SUBSET Connections,
         Live!PublishTo(targets)
  PROVE  LiveInv'
<1>1. Live!TypeOK'
  BY DEF LiveInv, Live!TypeOK, Live!PublishTo, Live!UpdateParameters
<1> QED BY <1>1, ReadersKeep DEF Live!PublishTo

LEMMA LiveNext == Live!UpdateParameters /\ LiveInv /\ [Live!Next]_liveVars => LiveInv'
<1> SUFFICES ASSUME Live!UpdateParameters, LiveInv, [Live!Next]_liveVars PROVE LiveInv'
  OBVIOUS
<1>1. CASE \E c \in Connections : \/ \E u \in Viewers \cup {None} : Live!Connect(c, u)
                                  \/ Live!Enter(c) \/ Live!Disconnect(c)
  BY <1>1, ConnectKeeps, EnterKeeps, DisconnectKeeps
<1>2. CASE \E c \in Connections : Live!Subscribed(c) \/ Live!Forget(c)
  BY <1>2, SubscribedKeeps, ForgetKeeps
<1>3. CASE \E c \in Connections, ch \in Topics : Live!Subscribe(c, ch) \/ Live!Unsubscribe(c,
       ch)
  BY <1>3, SubscribeKeeps, UnsubscribeKeeps
<1>4. CASE \E c \in Connections : Live!ClientGone(c) \/ Live!Send(c)
  <2> PICK c \in Connections : Live!ClientGone(c) \/ Live!Send(c)
    BY <1>4
  <2>1. /\ alive' \subseteq Connections
        /\ event' \in [to : SUBSET Connections, dead : SUBSET Connections]
    <3>1. CASE Live!ClientGone(c)
      BY <3>1 DEF LiveInv, Live!TypeOK, Live!ClientGone
    <3>2. CASE Live!Send(c)
      BY <3>2 DEF LiveInv, Live!TypeOK, Live!Send
    <3> QED BY <3>1, <3>2
  <2>2. Live!TypeOK'
    BY <2>1 DEF LiveInv, Live!TypeOK, Live!ClientGone, Live!Send
  <2> QED BY <2>2, ReadersKeep DEF Live!ClientGone, Live!Send
<1>5. CASE \E c \in Connections : Live!CleanUp(c)
  BY <1>5, CleanUpKeeps
<1>6. CASE \E u \in Viewers : Live!SendToUser(u)
  <2> PICK u \in Viewers : Live!PublishTo(ofUser[u])
    BY <1>6 DEF Live!SendToUser
  <2> QED BY PublishKeeps DEF LiveInv, Live!TypeOK
<1>7. CASE \E ch \in Topics : Live!BroadcastToChannel(ch)
  <2> PICK ch \in Topics : Live!PublishTo(subscribers[ch])
    BY <1>7 DEF Live!BroadcastToChannel
  <2> QED BY PublishKeeps DEF LiveInv, Live!TypeOK
<1>8. CASE UNCHANGED liveVars
  BY <1>8, ReadersKeep DEF liveVars, LiveInv, Live!TypeOK
<1> QED BY <1>1, <1>2, <1>3, <1>4, <1>5, <1>6, <1>7, <1>8 DEF Live!Next

-----------------------------------------------------------------------------
(* OrderTracking: the end of an order is called back once, and is its end at the exchange. *)

(* What the manager has of an order comes from the exchange's: an object    *)
(* that has ended, and an answer that says so, have its status there, which *)
(* no longer changes; a task runs only for an object that is open; an end   *)
(* that was called back is in the copy too, for the process after a restart.*)
Sound(o) ==
    /\ exchange[o] = None => local[o] = None /\ saved[o] = None
    /\ exchange[o] # None /\ Tracking!IsOpen(exchange[o]) => exchange[o].filled < Size
    /\ local[o] # None /\ ~Tracking!IsOpen(local[o]) => local[o].status = exchange[o].status
    /\ task[o].step # "none" => local[o] # None /\ Tracking!IsOpen(local[o]) /\ ended[o] = 0
    /\ task[o].step = "asked" =>
           /\ task[o].seen # None
           /\ ~Tracking!IsOpen(task[o].seen) => task[o].seen.status = exchange[o].status
    /\ ended[o] # 0 =>
           /\ ended[o] = 1
           /\ exchange[o] # None /\ ~Tracking!IsOpen(exchange[o])
           /\ saved[o] # None /\ ~Tracking!IsOpen(saved[o])
           /\ local[o] # None => ~Tracking!IsOpen(local[o])

\* What task keeps of an order.
Task == [step : {"none", "waiting", "asked"}, last : Tracking!OpenStatuses,
       seen : Tracking!Order \cup {None}]

(* Whoever cancels has ended the tracking before.                           *)
CancelledAreUntracked ==
    \A c \in Callers : call[c] # None =>
        local[call[c]] # None /\ task[call[c]].step = "none"

TrackInv == Tracking!TypeOK /\ (\A o \in Orders : Sound(o)) /\ CancelledAreUntracked

LEMMA TrackInvSuffices ==
  ASSUME TrackInv PROVE Tracking!EndIsFinal
BY DEF TrackInv, Tracking!EndIsFinal, Sound, Tracking!TypeOK

LEMMA TrackInit ==
  ASSUME Tracking!TrackingParameters, Tracking!Init PROVE TrackInv
<1>1. Tracking!TypeOK
  BY DEF Tracking!Init, Tracking!TypeOK, Tracking!NoTask, Tracking!OpenStatuses,
         Tracking!TrackingParameters
<1>2. \A o \in Orders : Sound(o)
  BY DEF Tracking!Init, Sound, Tracking!NoTask
<1>3. CancelledAreUntracked
  BY DEF Tracking!Init, CancelledAreUntracked
<1> QED BY <1>1, <1>2, <1>3 DEF TrackInv

-----------------------------------------------------------------------------
(* Orders as values.                                                        *)

LEMMA Placed ==
  ASSUME Tracking!TrackingParameters, NEW n \in 0 .. Size
  PROVE  /\ [status |-> Tracking!StatusAt(n), filled |-> n] \in Tracking!Order
         /\ Tracking!Submitted(n) \in Tracking!Order
         /\ ~Tracking!IsOpen(Tracking!Submitted(n))
                => Tracking!Submitted(n).status = Tracking!StatusAt(n)
         /\ Tracking!IsOpen([status |-> Tracking!StatusAt(n), filled |-> n]) => n < Size
BY DEF Tracking!TrackingParameters, Tracking!StatusAt, Tracking!Submitted, Tracking!Order,
       Tracking!OpenStatuses, Tracking!FinalStatuses, Tracking!IsOpen

LEMMA Grown ==
  ASSUME Tracking!TrackingParameters, NEW found \in Tracking!Order, Tracking!IsOpen(found),
         found.filled < Size
  PROVE  LET next == [status |-> Tracking!StatusAt(found.filled + 1),
         filled |-> found.filled + 1]
         IN  next \in Tracking!Order /\ (Tracking!IsOpen(next) => next.filled < Size)
BY DEF Tracking!TrackingParameters, Tracking!Order, Tracking!StatusAt, Tracking!OpenStatuses,
       Tracking!FinalStatuses, Tracking!IsOpen

LEMMA Ended ==
  ASSUME NEW found \in Tracking!Order, NEW s \in Tracking!FinalStatuses
  PROVE  /\ [found EXCEPT !.status = s] \in Tracking!Order
         /\ [found EXCEPT !.status = s].status = s
         /\ ~Tracking!IsOpen([found EXCEPT !.status = s])
BY DEF Tracking!Order, Tracking!FinalStatuses, Tracking!OpenStatuses, Tracking!IsOpen

-----------------------------------------------------------------------------
(* The exchange.                                                            *)

LEMMA FillKeeps ==
  ASSUME Tracking!TrackingParameters, TrackInv, NEW o \in Orders, Tracking!Fill(o)
  PROVE  TrackInv'
<1> DEFINE next == [status |-> Tracking!StatusAt(exchange[o].filled + 1),
       filled |-> exchange[o].filled + 1]
<1>1. exchange[o] \in Tracking!Order /\ Tracking!IsOpen(exchange[o])
       /\ exchange[o].filled < Size
  BY DEF TrackInv, Tracking!TypeOK, Sound, Tracking!Fill
<1>2. next \in Tracking!Order /\ (Tracking!IsOpen(next) => next.filled < Size) /\ next # None
  BY <1>1, Grown DEF Tracking!TrackingParameters
<1>3. /\ exchange' = [exchange EXCEPT ![o] = next]
      /\ UNCHANGED <<local, saved, task, call, ended, restarts>>
  BY DEF Tracking!Fill
<1> HIDE DEF next
<1>4. Tracking!TypeOK'
  BY <1>2, <1>3 DEF TrackInv, Tracking!TypeOK
<1>5. \A p \in Orders : Sound(p)'
  BY <1>1, <1>2, <1>3 DEF TrackInv, Tracking!TypeOK, Sound, Tracking!IsOpen, Tracking!Order,
                          Tracking!OpenStatuses, Tracking!FinalStatuses
<1>6. CancelledAreUntracked'
  BY <1>3 DEF TrackInv, CancelledAreUntracked
<1> QED BY <1>4, <1>5, <1>6 DEF TrackInv

LEMMA DropKeeps ==
  ASSUME Tracking!TrackingParameters, TrackInv, NEW o \in Orders, Tracking!Drop(o)
  PROVE  TrackInv'
<1> PICK s \in Tracking!FinalStatuses : exchange' = [exchange EXCEPT ![o].status = s]
  BY DEF Tracking!Drop, Tracking!FinalStatuses
<1> DEFINE next == [exchange[o] EXCEPT !.status = s]
<1>1. exchange[o] \in Tracking!Order /\ Tracking!IsOpen(exchange[o])
  BY DEF TrackInv, Tracking!TypeOK, Tracking!Drop
<1>2. next \in Tracking!Order /\ ~Tracking!IsOpen(next) /\ next # None
  BY <1>1, Ended DEF Tracking!TrackingParameters
<1>3. /\ exchange' = [exchange EXCEPT ![o] = next]
      /\ UNCHANGED <<local, saved, task, call, ended, restarts>>
  BY DEF Tracking!Drop
<1> HIDE DEF next
<1>4. Tracking!TypeOK'
  BY <1>2, <1>3 DEF TrackInv, Tracking!TypeOK
<1>5. \A p \in Orders : Sound(p)'
  BY <1>1, <1>2, <1>3 DEF TrackInv, Tracking!TypeOK, Sound, Tracking!IsOpen, Tracking!Order,
                          Tracking!OpenStatuses, Tracking!FinalStatuses
<1>6. CancelledAreUntracked'
  BY <1>3 DEF TrackInv, CancelledAreUntracked
<1> QED BY <1>4, <1>5, <1>6 DEF TrackInv

-----------------------------------------------------------------------------
(* The manager.                                                             *)

LEMMA PlaceKeeps ==
  ASSUME Tracking!TrackingParameters, TrackInv, NEW o \in Orders, Tracking!Place(o)
  PROVE  TrackInv'
<1> PICK n \in 0 .. Size, redis \in BOOLEAN :
       /\ exchange' = [exchange EXCEPT ![o] = [status |-> Tracking!StatusAt(n), filled |-> n]]
       /\ local' = [local EXCEPT ![o] = IF redis THEN Tracking!Submitted(n) ELSE None]
       /\ saved' = [saved EXCEPT ![o] = IF redis THEN Tracking!Submitted(n) ELSE None]
       /\ task' = [task EXCEPT ![o] =
              IF redis /\ Tracking!IsOpen(Tracking!Submitted(n))
              THEN [step |-> "waiting", last |-> Tracking!Submitted(n).status,
                     seen |-> None] ELSE Tracking!NoTask]
  BY DEF Tracking!Place
<1> DEFINE there == [status |-> Tracking!StatusAt(n), filled |-> n]
           here == Tracking!Submitted(n)
<1>1. /\ there \in Tracking!Order /\ there # None /\ here \in Tracking!Order /\ here # None
      /\ ~Tracking!IsOpen(here) => here.status = there.status
      /\ Tracking!IsOpen(there) => there.filled < Size
  BY Placed DEF Tracking!TrackingParameters
<1>2. /\ exchange[o] = None /\ local[o] = None /\ ended[o] = 0
      /\ UNCHANGED <<call, ended, restarts>>
  BY DEF TrackInv, Sound, Tracking!Place
<1>3. exchange' = [exchange EXCEPT ![o] = there]
  OBVIOUS
<1> HIDE DEF there, here
<1>4. Tracking!TypeOK'
  BY <1>1, <1>2, <1>3 DEF TrackInv, Tracking!TypeOK, Tracking!NoTask, here,
                          Tracking!OpenStatuses, Tracking!IsOpen
<1>5. \A p \in Orders : Sound(p)'
  BY <1>1, <1>2, <1>3 DEF TrackInv, Tracking!TypeOK, Sound, Tracking!NoTask, here
<1>6. CancelledAreUntracked'
  BY <1>2 DEF TrackInv, Tracking!TypeOK, CancelledAreUntracked
<1> QED BY <1>4, <1>5, <1>6 DEF TrackInv

(* A step of the task that learns nothing.                                  *)
LEMMA PollKeeps ==
  ASSUME Tracking!TrackingParameters, TrackInv, NEW o \in Orders,
         Tracking!PollAsks(o) \/ Tracking!PollFails(o) \/ Tracking!PollFindsNothing(o)
  PROVE  TrackInv'
<1>1. /\ local[o] # None /\ Tracking!IsOpen(local[o]) /\ ended[o] = 0 /\ exchange[o] # None
      /\ UNCHANGED <<exchange, local, saved, call, ended, restarts>>
  BY DEF TrackInv, Tracking!TypeOK, Sound, Tracking!PollAsks, Tracking!PollFails,
         Tracking!PollFindsNothing
<1>2. /\ task[o] \in Task /\ Tracking!NoTask \in Task /\ Tracking!NoTask.step = "none"
       /\ exchange[o] \in Tracking!Order
      /\ task \in [Orders -> Task]
  BY <1>1 DEF TrackInv, Tracking!TypeOK, Task, Tracking!NoTask, Tracking!OpenStatuses
<1>3. PICK t \in Task :
         /\ task' = [task EXCEPT ![o] = t]
         /\ t.step = "asked" => t.seen = exchange[o]
  <2>1. CASE Tracking!PollAsks(o)
    <3>1. [task[o] EXCEPT !.step = "asked", !.seen = exchange[o]] \in Task
      BY <1>2 DEF Task
    <3> QED BY <1>1, <1>2, <2>1, <3>1 DEF Tracking!PollAsks, Task
  <2>2. CASE Tracking!PollFails(o)
    <3>1. [task[o] EXCEPT !.step = "waiting", !.seen = None] \in Task
      BY <1>2 DEF Task
    <3>2. task' = [task EXCEPT ![o] = [task[o] EXCEPT !.step = "waiting", !.seen = None]]
      BY <1>2, <2>2 DEF Tracking!PollFails, Task
    <3> QED BY <1>2, <3>1, <3>2 DEF Task
  <2>3. CASE Tracking!PollFindsNothing(o)
    BY <1>2, <2>3 DEF Tracking!PollFindsNothing
  <2> QED BY <2>1, <2>2, <2>3
<1>4. Tracking!TypeOK'
  BY <1>1, <1>2, <1>3 DEF TrackInv, Tracking!TypeOK, Task
<1>5. \A p \in Orders : Sound(p)'
  BY <1>1, <1>2, <1>3 DEF TrackInv, Tracking!TypeOK, Sound, Task
<1>6. CancelledAreUntracked'
  <2>1. task[o].step # "none"
    BY DEF Tracking!PollAsks, Tracking!PollFails, Tracking!PollFindsNothing
  <2> QED BY <1>1, <1>2, <1>3, <2>1 DEF TrackInv, Tracking!TypeOK, CancelledAreUntracked, Task
<1> QED BY <1>4, <1>5, <1>6 DEF TrackInv

LEMMA PollAnswersKeeps ==
  ASSUME Tracking!TrackingParameters, TrackInv, NEW o \in Orders, Tracking!PollAnswers(o)
  PROVE  TrackInv'
<1> DEFINE found == task[o].seen
<1>1. /\ found \in Tracking!Order /\ found # None
      /\ ~Tracking!IsOpen(found) => found.status = exchange[o].status
      /\ local[o] # None /\ ended[o] = 0 /\ exchange[o] # None /\ exchange[o] \in Tracking!Order
      /\ task[o].step = "asked"
  BY DEF TrackInv, Tracking!TypeOK, Sound, Tracking!PollAnswers
<1>2. /\ local' = [local EXCEPT ![o] = found]
      /\ UNCHANGED <<exchange, call, restarts>>
  BY DEF Tracking!PollAnswers
<1>3. PICK t \in Task :
         /\ task' = [task EXCEPT ![o] = t]
         /\ t.step = IF Tracking!IsOpen(found) THEN "waiting" ELSE "none"
  <2>1. Tracking!NoTask \in Task /\ Tracking!NoTask.step = "none" /\ task[o] \in Task
    BY DEF TrackInv, Tracking!TypeOK, Task, Tracking!NoTask, Tracking!OpenStatuses
  <2>2. CASE Tracking!IsOpen(found)
    <3>1. [step |-> "waiting", last |-> found.status, seen |-> None] \in Task
      BY <2>2 DEF Task, Tracking!IsOpen
    <3>2. [task[o] EXCEPT !.step = "waiting", !.seen = None] \in Task
      BY <2>1 DEF Task
    <3> QED BY <2>1, <2>2, <3>1, <3>2 DEF Tracking!PollAnswers, Task
  <2>3. CASE ~Tracking!IsOpen(found)
    BY <2>1, <2>3 DEF Tracking!PollAnswers
  <2> QED BY <2>2, <2>3
<1>4. \/ /\ saved' = [saved EXCEPT ![o] = found]
         /\ \/ ended' = ended
            \/ ended' = [ended EXCEPT ![o] = @ + 1] /\ ~Tracking!IsOpen(found)
      \/ UNCHANGED <<saved, ended>>
  BY DEF Tracking!PollAnswers
<1>5. task \in [Orders -> Task] /\ task' \in [Orders -> Task]
  BY <1>3 DEF TrackInv, Tracking!TypeOK, Task
<1> HIDE DEF found
<1>6. Tracking!TypeOK'
  <2>1. /\ local' \in [Orders -> Tracking!Order \cup {None}]
         /\ saved' \in [Orders -> Tracking!Order \cup {None}]
        /\ ended' \in [Orders -> Nat]
    BY <1>1, <1>2, <1>4 DEF TrackInv, Tracking!TypeOK
  <2> QED BY <1>2, <1>5, <2>1 DEF TrackInv, Tracking!TypeOK, Task
<1>7. ~Tracking!IsOpen(found) => ~Tracking!IsOpen(exchange[o])
  BY <1>1 DEF Tracking!IsOpen
<1>8. ASSUME NEW p \in Orders PROVE Sound(p)'
  <2>1. CASE p = o
    BY <1>1, <1>2, <1>3, <1>4, <1>5, <1>7, <2>1 DEF TrackInv, Tracking!TypeOK, Sound
  <2>2. CASE p # o
    BY <1>2, <1>3, <1>4, <1>5, <2>2 DEF TrackInv, Tracking!TypeOK, Sound
  <2> QED BY <2>1, <2>2
<1>9. CancelledAreUntracked'
  BY <1>1, <1>2, <1>3, <1>5 DEF TrackInv, Tracking!TypeOK, CancelledAreUntracked
<1> QED BY <1>6, <1>8, <1>9 DEF TrackInv

-----------------------------------------------------------------------------
(* Cancelling.                                                              *)

LEMMA CancelOrderKeeps ==
  ASSUME Tracking!TrackingParameters, TrackInv, NEW c \in Callers, NEW o \in Orders,
         Tracking!CancelOrder(c, o)
  PROVE  TrackInv'
<1>1. Tracking!Known(o) \in Tracking!Order /\ Tracking!Known(o) # None
       /\ Tracking!IsOpen(Tracking!Known(o)) /\ exchange[o] # None
  BY DEF TrackInv, Tracking!TypeOK, Sound, Tracking!CancelOrder, Tracking!Known
<1>2. ended[o] = 0
  BY <1>1 DEF TrackInv, Tracking!TypeOK, Sound, Tracking!Known
<1>3. /\ local' = [local EXCEPT ![o] = Tracking!Known(o)]
      /\ task' = [p \in Orders |-> IF p \in {o} THEN Tracking!NoTask ELSE task[p]]
      /\ call' = [call EXCEPT ![c] = o]
      /\ UNCHANGED <<exchange, saved, ended, restarts>>
  BY DEF Tracking!CancelOrder, Tracking!StopTracking
<1>4. Tracking!TypeOK'
  BY <1>1, <1>3 DEF TrackInv, Tracking!TypeOK, Tracking!NoTask, Tracking!OpenStatuses
<1>5. \A p \in Orders : Sound(p)'
  BY <1>1, <1>2, <1>3 DEF TrackInv, Tracking!TypeOK, Sound, Tracking!NoTask
<1>6. CancelledAreUntracked'
  BY <1>1, <1>3 DEF TrackInv, Tracking!TypeOK, CancelledAreUntracked, Tracking!NoTask,
                    Tracking!TrackingParameters
<1> QED BY <1>4, <1>5, <1>6 DEF TrackInv

(* The exchange agrees once only: then the order is not open any more.      *)
LEMMA CancelAnsweredKeeps ==
  ASSUME Tracking!TrackingParameters, TrackInv, NEW c \in Callers, Tracking!CancelAnswered(c)
  PROVE  TrackInv'
<1> DEFINE o == call[c]
<1>1. /\ o \in Orders /\ local[o] # None /\ local[o] \in Tracking!Order /\ task[o].step = "none"
      /\ exchange[o] # None /\ exchange[o] \in Tracking!Order
  BY DEF TrackInv, Tracking!TypeOK, Sound, CancelledAreUntracked, Tracking!CancelAnswered
<1>2. UNCHANGED <<task, restarts>> /\ call' = [call EXCEPT ![c] = None]
  BY DEF Tracking!CancelAnswered
<1>3. CASE ~Tracking!IsOpen(exchange[o])
  <2>1. UNCHANGED <<exchange, local, saved, ended>>
    BY <1>3 DEF Tracking!CancelAnswered
  <2>2. Tracking!TypeOK'
    BY <1>2, <2>1 DEF TrackInv, Tracking!TypeOK
  <2>3. \A p \in Orders : Sound(p)'
    BY <1>2, <2>1 DEF TrackInv, Sound
  <2>4. CancelledAreUntracked'
    BY <1>2, <2>1 DEF TrackInv, Tracking!TypeOK, CancelledAreUntracked
  <2> QED BY <2>2, <2>3, <2>4 DEF TrackInv
<1>4. CASE Tracking!IsOpen(exchange[o])
  <2> DEFINE there == [exchange[o] EXCEPT !.status = "cancelled"]
             here == [local[o] EXCEPT !.status = "cancelled"]
  <2>1. /\ there \in Tracking!Order /\ there # None /\ ~Tracking!IsOpen(there)
         /\ there.status = "cancelled"
        /\ here \in Tracking!Order /\ here # None /\ ~Tracking!IsOpen(here)
               /\ here.status = "cancelled"
    BY <1>1, Ended DEF Tracking!FinalStatuses, Tracking!TrackingParameters
  <2>2. /\ exchange' = [exchange EXCEPT ![o] = there]
        /\ local' = [local EXCEPT ![o] = here]
    BY <1>4 DEF Tracking!CancelAnswered
  <2>3. \/ saved' = [saved EXCEPT ![o] = here] /\ ended' = [ended EXCEPT ![o] = @ + 1]
        \/ UNCHANGED <<saved, ended>>
    BY <1>1, <1>4, <2>2 DEF Tracking!CancelAnswered, TrackInv, Tracking!TypeOK
  <2>4. ended[o] = 0
    BY <1>1, <1>4 DEF TrackInv, Tracking!TypeOK, Sound
  <2> HIDE DEF there, here, o
  <2>5. Tracking!TypeOK'
    BY <1>1, <1>2, <2>1, <2>2, <2>3 DEF TrackInv, Tracking!TypeOK
  <2>6. ASSUME NEW p \in Orders PROVE Sound(p)'
    <3>1. CASE p = o
      BY <1>1, <1>2, <2>1, <2>2, <2>3, <2>4, <3>1 DEF TrackInv, Tracking!TypeOK, Sound
    <3>2. CASE p # o
      BY <1>2, <2>2, <2>3, <3>2 DEF TrackInv, Tracking!TypeOK, Sound
    <3> QED BY <3>1, <3>2
  <2>7. CancelledAreUntracked'
    BY <1>1, <1>2, <2>1, <2>2 DEF TrackInv, Tracking!TypeOK, CancelledAreUntracked
  <2> QED BY <2>5, <2>6, <2>7 DEF TrackInv
<1> QED BY <1>3, <1>4

LEMMA CancelLostKeeps ==
  ASSUME TrackInv, NEW c \in Callers, Tracking!CancelLost(c)
  PROVE  TrackInv'
BY DEF Tracking!CancelLost, TrackInv, Tracking!TypeOK, Sound, CancelledAreUntracked

LEMMA CancelAllKeeps ==
  ASSUME Tracking!TrackingParameters, TrackInv, Tracking!CancelAllOrders
  PROVE  TrackInv'
<1>1. /\ UNCHANGED <<local, saved, call, ended, restarts>>
      /\ \A p \in Orders : task'[p] = Tracking!NoTask
  BY DEF Tracking!CancelAllOrders, Tracking!StopTracking
<1>2. ASSUME NEW p \in Orders
      PROVE  /\ exchange'[p] \in Tracking!Order \cup {None}
             /\ exchange[p] = None <=> exchange'[p] = None
             /\ exchange[p] # None /\ ~Tracking!IsOpen(exchange[p])
                    => exchange'[p] = exchange[p]
             /\ exchange'[p] # None => ~Tracking!IsOpen(exchange'[p])
  <2>1. CASE exchange[p] # None /\ Tracking!IsOpen(exchange[p])
    <3>1. exchange[p] \in Tracking!Order
      BY <2>1 DEF TrackInv, Tracking!TypeOK
    <3>2. exchange'[p] = [exchange[p] EXCEPT !.status = "cancelled"]
      BY <2>1 DEF Tracking!CancelAllOrders
    <3> QED BY <2>1, <3>1, <3>2, Ended DEF Tracking!FinalStatuses, Tracking!TrackingParameters
  <2>2. CASE ~(exchange[p] # None /\ Tracking!IsOpen(exchange[p]))
    <3>1. exchange'[p] = exchange[p]
      BY <2>2 DEF Tracking!CancelAllOrders
    <3> QED BY <2>2, <3>1 DEF TrackInv, Tracking!TypeOK
  <2> QED BY <2>1, <2>2
<1>3. Tracking!TypeOK'
  BY <1>1, <1>2 DEF TrackInv, Tracking!TypeOK, Tracking!CancelAllOrders, Tracking!StopTracking,
                    Tracking!NoTask, Tracking!OpenStatuses
<1>4. \A p \in Orders : Sound(p)'
  BY <1>1, <1>2 DEF TrackInv, Tracking!TypeOK, Sound, Tracking!NoTask, Tracking!IsOpen
<1>5. CancelledAreUntracked'
  BY <1>1 DEF TrackInv, Tracking!TypeOK, CancelledAreUntracked, Tracking!NoTask
<1> QED BY <1>3, <1>4, <1>5 DEF TrackInv

LEMMA RestartKeeps ==
  ASSUME Tracking!TrackingParameters, TrackInv, Tracking!Restart
  PROVE  TrackInv'
<1>1. Tracking!TypeOK'
  BY DEF TrackInv, Tracking!TypeOK, Tracking!Restart, Tracking!NoTask, Tracking!OpenStatuses,
         Tracking!TrackingParameters
<1>2. (\A p \in Orders : Sound(p)') /\ CancelledAreUntracked'
  BY DEF TrackInv, Sound, CancelledAreUntracked, Tracking!Restart, Tracking!NoTask
<1> QED BY <1>1, <1>2 DEF TrackInv

-----------------------------------------------------------------------------
LEMMA TrackNext == Tracking!TrackingParameters /\ TrackInv /\ [Tracking!Next]_trackingVars
       => TrackInv'
<1> SUFFICES ASSUME Tracking!TrackingParameters, TrackInv, [Tracking!Next]_trackingVars
       PROVE TrackInv'
  OBVIOUS
<1>1. CASE \E o \in Orders : Tracking!Fill(o) \/ Tracking!Drop(o) \/ Tracking!Place(o)
  BY <1>1, FillKeeps, DropKeeps, PlaceKeeps
<1>2. CASE \E o \in Orders : \/ Tracking!PollAsks(o) \/ Tracking!PollFails(o)
                            \/ Tracking!PollFindsNothing(o) \/ Tracking!PollAnswers(o)
  BY <1>2, PollKeeps, PollAnswersKeeps
<1>3. CASE \E c \in Callers : \/ Tracking!CancelAnswered(c) \/ Tracking!CancelLost(c)
                             \/ \E o \in Orders : Tracking!CancelOrder(c, o)
  BY <1>3, CancelAnsweredKeeps, CancelLostKeeps, CancelOrderKeeps
<1>4. CASE Tracking!CancelAllOrders \/ Tracking!Restart
  BY <1>4, CancelAllKeeps, RestartKeeps
<1>5. CASE UNCHANGED trackingVars
  BY <1>5 DEF trackingVars, TrackInv, Tracking!TypeOK, Sound, CancelledAreUntracked
<1> QED BY <1>1, <1>2, <1>3, <1>4, <1>5 DEF Tracking!Next

-----------------------------------------------------------------------------
(* Channels: a channel counts no user it has not admitted.                  *)

(* A channel that admitted somebody is not gone, nor is an administrator.   *)
NobodyGoes ==
    /\ \A c \in Codes : admitted[c] > 0 => c \in Distribution!Created
    /\ \A c \in Distribution!Created : channel[c].admin \in Distribution!Known \cup {None}

ChannelRequest ==
    [step : {"idle", "valid", "free", "written", "appoint", "move"},
     who : Customers \cup {None}, code : Codes \cup {None},
     row : Distribution!Channel \cup {None}, person : Distribution!User \cup {None}]

(* What a request has loaded is of rows that are still there; a counter that*)
(* was loaded is no greater than what is admitted now, and an administrator *)
(* that was loaded is one now.                                              *)
LoadedIsThere(q) ==
    /\ q.step \in {"valid", "free", "written"} =>
          /\ q.who \in Customers /\ q.code \in Distribution!Created
          /\ q.row \in Distribution!Channel /\ q.row.total <= admitted[q.code]
    /\ q.step = "written" => q.who \notin Distribution!Known
    /\ q.step \in {"appoint", "move"} =>
          q.who \in Distribution!Known /\ q.person \in Distribution!User
    /\ q.step = "appoint" =>
          /\ q.code \in Distribution!Created /\ q.row \in Distribution!Channel
          /\ q.person.role = "channel_admin" => member[q.who].role = "channel_admin"

(* Of two requests that have inserted a user, each has its own.             *)
NewcomersDiffer ==
    \A r, s \in Newcomers :
        r # s /\ registration[r].step = "written" /\ registration[s].step = "written" =>
            registration[r].who # registration[s].who

ChannelInv ==
    /\ Distribution!TypeOK /\ Distribution!ChannelsConsistent
    /\ NobodyGoes /\ NewcomersDiffer
    /\ \A r \in Newcomers : LoadedIsThere(registration[r])

LEMMA ChannelInit ==
  ASSUME Distribution!ChannelParameters, Distribution!Init
  PROVE  ChannelInv
BY DEF Distribution!ChannelParameters, Distribution!Init, Distribution!Idle, ChannelInv,
       Distribution!TypeOK, Distribution!ChannelsConsistent, NobodyGoes, NewcomersDiffer,
       LoadedIsThere, Distribution!Created

LEMMA ChannelRequestIs ==
  ASSUME Distribution!ChannelParameters, ChannelInv, NEW r \in Newcomers
  PROVE  registration[r] \in ChannelRequest /\ LoadedIsThere(registration[r])
BY DEF ChannelInv, Distribution!TypeOK, ChannelRequest

(* A step of one request that changes no row.                               *)
LEMMA OneRequestMoves ==
  ASSUME Distribution!ChannelParameters, ChannelInv,
         NEW r \in Newcomers, NEW q \in ChannelRequest,
         registration' = [registration EXCEPT ![r] = q],
         UNCHANGED <<channel, member, admitted>>,
         rowLock' \in [Codes -> Newcomers \cup {None}],
         memberships' \in 0 .. MaxMembershipChanges,
         LoadedIsThere(q),
         q.step = "written" =>
            \A s \in Newcomers : registration[s].step = "written" => registration[s].who # q.who
  PROVE  ChannelInv'
<1>1. Distribution!TypeOK'
  BY DEF ChannelInv, Distribution!TypeOK, ChannelRequest
<1>2. /\ registration'[r] = q
      /\ \A s \in Newcomers \ {r} : registration'[s] = registration[s]
  BY DEF ChannelInv, Distribution!TypeOK
<1>3. /\ Distribution!Created' = Distribution!Created /\ Distribution!Known' = Distribution!Known
  BY DEF Distribution!Created, Distribution!Known
<1>4. Distribution!ChannelsConsistent' /\ NobodyGoes'
  BY <1>3 DEF ChannelInv, Distribution!ChannelsConsistent, NobodyGoes
<1>5. \A s \in Newcomers : LoadedIsThere(registration[s])'
  <2> TAKE s \in Newcomers
  <2>1. LoadedIsThere(registration'[s])
    BY <1>2 DEF ChannelInv
  <2> QED BY <2>1, <1>3 DEF LoadedIsThere
<1>6. NewcomersDiffer'
  BY <1>2 DEF ChannelInv, NewcomersDiffer
<1> QED BY <1>1, <1>4, <1>5, <1>6 DEF ChannelInv

(* What another request has loaded stays so.                                *)
LEMMA OtherRequestRests ==
  ASSUME ChannelInv, NEW s \in Newcomers, registration'[s] = registration[s],
         \A c \in Distribution!Created : c \in Distribution!Created',
         \A u \in Distribution!Known :
            /\ u \in Distribution!Known'
            /\ member[u].role = "channel_admin" => member'[u].role = "channel_admin",
         \A c \in Codes : admitted'[c] \in Nat /\ admitted[c] <= admitted'[c],
         registration[s].step = "written" => registration[s].who \notin Distribution!Known'
  PROVE  LoadedIsThere(registration[s])'
<1>1. LoadedIsThere(registration[s])
  BY DEF ChannelInv
<1>2. \A c \in Distribution!Created : c \in Codes /\ admitted[c] \in Nat
  BY DEF ChannelInv, Distribution!TypeOK, Distribution!Created
<1> QED BY <1>1, <1>2 DEF LoadedIsThere, Distribution!Channel

LEMMA Least ==
  ASSUME NEW N \in SUBSET Nat, N # {}
  PROVE  \E x \in N : \A y \in N : x <= y
<1>1. PICK x \in N : \A y \in N : ~(y < x)
  <2>1. PICK x \in N : \A y \in N : <<y, x>> \notin OpToRel(<, Nat)
    BY WFMin, NatLessThanWellFounded
  <2> QED BY <2>1 DEF OpToRel
<1> QED BY <1>1

LEMMA ResolvedIsThere ==
  ASSUME Distribution!ChannelParameters, NEW text \in Invitations,
         Distribution!Resolved(text) # None
  PROVE  Distribution!Resolved(text) \in Distribution!Created
<1> DEFINE codes == Prefixes[text]
           there == {i \in DOMAIN codes : codes[i] \in Distribution!Created}
<1>1. codes \in Seq(Codes)
  BY DEF Distribution!ChannelParameters
<1>2. there \in SUBSET Nat
  BY <1>1
<1>3. there # {} /\ Distribution!Resolved(text) = codes[CHOOSE i \in there : \A j \in there : i <= j]
  BY DEF Distribution!Resolved
<1> HIDE DEF there
<1>4. (CHOOSE i \in there : \A j \in there : i <= j) \in there
  BY <1>2, <1>3, Least
<1> QED BY <1>3, <1>4 DEF there

LEMMA RegisterKeeps ==
  ASSUME Distribution!ChannelParameters, ChannelInv, NEW r \in Newcomers,
         NEW u \in Customers, NEW text \in Invitations, Distribution!Register(r, u, text)
  PROVE  ChannelInv'
<1> DEFINE c == Distribution!Resolved(text)
           q == [step |-> "valid", who |-> u, code |-> c, row |-> channel[c], person |-> None]
<1>1. c \in Distribution!Created
  BY ResolvedIsThere DEF Distribution!Register
<1>2. c \in Codes /\ channel[c] \in Distribution!Channel /\ channel[c].total <= admitted[c]
  BY <1>1 DEF Distribution!Created, ChannelInv, Distribution!TypeOK, Distribution!ChannelsConsistent
<1>3. /\ registration' = [registration EXCEPT ![r] = q]
      /\ UNCHANGED <<channel, member, admitted, rowLock, memberships>>
  BY DEF Distribution!Register
<1> HIDE DEF c
<1>4. q \in ChannelRequest /\ LoadedIsThere(q) /\ q.step # "written"
  BY <1>1, <1>2 DEF ChannelRequest, LoadedIsThere
<1>5. rowLock \in [Codes -> Newcomers \cup {None}] /\ memberships \in 0 .. MaxMembershipChanges
  BY DEF ChannelInv, Distribution!TypeOK
<1> HIDE DEF q
<1> QED BY <1>3, <1>4, <1>5, OneRequestMoves

(* The steps of a registration, or of a request that ends, which change no  *)
(* row but may lock one.                                                    *)
LEMMA RegistrationSteps ==
  ASSUME Distribution!ChannelParameters, ChannelInv, NEW r \in Newcomers,
         Distribution!CheckUnused(r) \/ Distribution!Insert(r) \/ Distribution!Abort(r)
  PROVE  ChannelInv'
<1> DEFINE q == registration[r]
<1>1. q \in ChannelRequest /\ LoadedIsThere(q)
  BY ChannelRequestIs
<1>2. /\ Distribution!Idle \in ChannelRequest /\ LoadedIsThere(Distribution!Idle)
      /\ Distribution!Idle.step = "idle"
  BY DEF Distribution!Idle, ChannelRequest, LoadedIsThere
<1>3. rowLock \in [Codes -> Newcomers \cup {None}] /\ memberships \in 0 .. MaxMembershipChanges
  BY DEF ChannelInv, Distribution!TypeOK
<1>4. /\ UNCHANGED <<channel, member, admitted, memberships>>
      /\ rowLock' \in [Codes -> Newcomers \cup {None}]
  BY <1>3 DEF Distribution!CheckUnused, Distribution!Insert, Distribution!Abort,
              Distribution!Refused, Distribution!Over
<1>5. CASE registration' = [registration EXCEPT ![r] = Distribution!Idle]
  <2> HIDE DEF q
  <2> QED BY <1>2, <1>3, <1>4, <1>5, OneRequestMoves
<1>6. CASE /\ Distribution!At(r, "valid") /\ registration' = [registration EXCEPT ![r].step = "free"]
  <2>1. [q EXCEPT !.step = "free"] \in ChannelRequest /\ LoadedIsThere([q EXCEPT !.step = "free"])
        /\ [q EXCEPT !.step = "free"].step # "written"
    BY <1>1, <1>6 DEF ChannelRequest, LoadedIsThere, Distribution!At
  <2>2. registration' = [registration EXCEPT ![r] = [q EXCEPT !.step = "free"]]
    BY <1>6
  <2> QED BY <2>1, <2>2, <1>3, <1>4, OneRequestMoves
<1>7. CASE /\ Distribution!At(r, "free") /\ q.who \notin Distribution!Known
           /\ \A s \in Newcomers : Distribution!At(s, "written") => registration[s].who # q.who
           /\ registration' = [registration EXCEPT ![r].step = "written"]
  <2> DEFINE written == [q EXCEPT !.step = "written"]
  <2>1. written \in ChannelRequest /\ LoadedIsThere(written) /\ written.who = q.who
    BY <1>1, <1>7 DEF ChannelRequest, LoadedIsThere, Distribution!At
  <2>2. registration' = [registration EXCEPT ![r] = written]
    BY <1>7
  <2>3. \A s \in Newcomers : registration[s].step = "written" => registration[s].who # written.who
    BY <1>7, <2>1 DEF Distribution!At
  <2> HIDE DEF written, q
  <2> QED BY <2>1, <2>2, <2>3, <1>3, <1>4, OneRequestMoves
<1> QED BY <1>5, <1>6, <1>7 DEF Distribution!CheckUnused, Distribution!Insert, Distribution!Abort,
                                Distribution!Refused, Distribution!Over

LEMMA AdministratorLoads ==
  ASSUME Distribution!ChannelParameters, ChannelInv, NEW r \in Newcomers,
         NEW u \in Customers, NEW c \in Codes \cup {None},
         Distribution!LoadForAppointment(r, u, c) \/ Distribution!LoadForMove(r, u, c)
  PROVE  ChannelInv'
<1>1. u \in Distribution!Known /\ member[u] \in Distribution!User
  BY DEF Distribution!LoadForAppointment, Distribution!LoadForMove, Distribution!Known, ChannelInv,
         Distribution!TypeOK
<1>2. /\ rowLock' \in [Codes -> Newcomers \cup {None}]
      /\ memberships' \in 0 .. MaxMembershipChanges
      /\ UNCHANGED <<channel, member, admitted>>
  BY DEF Distribution!LoadForAppointment, Distribution!LoadForMove, ChannelInv,
         Distribution!TypeOK, Distribution!ChannelParameters
<1>3. CASE Distribution!LoadForAppointment(r, u, c)
  <2> DEFINE q == [step |-> "appoint", who |-> u, code |-> c, row |-> channel[c],
                   person |-> member[u]]
  <2>1. c \in Distribution!Created /\ channel[c] \in Distribution!Channel
    BY <1>3 DEF Distribution!LoadForAppointment, Distribution!Created, ChannelInv,
                Distribution!TypeOK
  <2>2. q \in ChannelRequest /\ LoadedIsThere(q) /\ q.step # "written"
    BY <1>1, <2>1 DEF ChannelRequest, LoadedIsThere
  <2>3. registration' = [registration EXCEPT ![r] = q]
    BY <1>3 DEF Distribution!LoadForAppointment
  <2> HIDE DEF q
  <2> QED BY <1>2, <2>2, <2>3, OneRequestMoves
<1>4. CASE Distribution!LoadForMove(r, u, c)
  <2> DEFINE q == [step |-> "move", who |-> u, code |-> c, row |-> None, person |-> member[u]]
  <2>1. q \in ChannelRequest /\ LoadedIsThere(q) /\ q.step # "written"
    BY <1>1 DEF ChannelRequest, LoadedIsThere
  <2>2. registration' = [registration EXCEPT ![r] = q]
    BY <1>4 DEF Distribution!LoadForMove
  <2> HIDE DEF q
  <2> QED BY <1>2, <2>1, <2>2, OneRequestMoves
<1> QED BY <1>3, <1>4

LEMMA RegistrationCommits ==
  ASSUME Distribution!ChannelParameters, ChannelInv, NEW r \in Newcomers,
         Distribution!Commit(r)
  PROVE  ChannelInv'
<1> DEFINE q == registration[r]  c == q.code  u == q.who
<1>1. /\ q.step = "written" /\ q \in ChannelRequest /\ u \in Customers /\ u \notin Distribution!Known
      /\ c \in Distribution!Created /\ c \in Codes /\ channel[c] \in Distribution!Channel
      /\ q.row \in Distribution!Channel /\ q.row.total <= admitted[c]
  BY ChannelRequestIs DEF Distribution!Commit, Distribution!At, LoadedIsThere, Distribution!Created,
                   ChannelInv, Distribution!TypeOK
<1>2. /\ member' = [member EXCEPT ![u] = [channel |-> c, role |-> "user"]]
      /\ channel' = [channel EXCEPT ![c].total = q.row.total + 1]
      /\ admitted' = [admitted EXCEPT ![c] = @ + 1]
      /\ rowLock' = [rowLock EXCEPT ![c] = None]
      /\ registration' = [registration EXCEPT ![r] = Distribution!Idle]
      /\ UNCHANGED memberships
  BY DEF Distribution!Commit, Distribution!Over
<1>3. /\ Distribution!Idle \in ChannelRequest /\ Distribution!Idle.step = "idle"
      /\ [channel |-> c, role |-> "user"] \in Distribution!User
  BY <1>1 DEF Distribution!Idle, ChannelRequest, Distribution!User, Distribution!Roles
<1> HIDE DEF q
<1>4. /\ channel'[c] = [channel[c] EXCEPT !.total = q.row.total + 1]
      /\ channel'[c].admin = channel[c].admin /\ channel'[c].total = q.row.total + 1
      /\ channel'[c] \in Distribution!Channel
      /\ \A d \in Codes \ {c} : channel'[d] = channel[d]
      /\ \A v \in Customers \ {u} : member'[v] = member[v]
      /\ member'[u] = [channel |-> c, role |-> "user"]
      /\ \A s \in Newcomers \ {r} : registration'[s] = registration[s]
      /\ admitted'[c] = admitted[c] + 1 /\ admitted[c] \in Nat
      /\ \A d \in Codes \ {c} : admitted'[d] = admitted[d]
  BY <1>1, <1>2, SMTT(60) DEF ChannelInv, Distribution!TypeOK, Distribution!Channel
<1>5. Distribution!TypeOK'
  BY <1>1, <1>2, <1>3, <1>4 DEF ChannelInv, Distribution!TypeOK, ChannelRequest
<1>6. /\ Distribution!Created' = Distribution!Created
      /\ Distribution!Known' = Distribution!Known \cup {u}
  BY <1>1, <1>3, <1>4 DEF Distribution!Created, Distribution!Known, Distribution!ChannelParameters,
     ChannelInv, Distribution!TypeOK
<1>7. \A d \in Distribution!Created : channel'[d].admin = channel[d].admin
                                      /\ channel[d].admin # u /\ d \in Codes
  BY <1>1, <1>4 DEF ChannelInv, NobodyGoes, Distribution!Created, Distribution!ChannelParameters
<1>8. Distribution!ChannelsConsistent'
  <2>1. \A d \in Distribution!Created : channel'[d].total <= admitted'[d]
                                        /\ (admitted'[d] > 0 => channel'[d].total > 0)
    BY <1>1, <1>4, <1>7 DEF ChannelInv, Distribution!ChannelsConsistent, Distribution!Channel
  <2>2. \A d \in Distribution!Created : channel'[d].admin \in Distribution!Known' =>
                                        member'[channel'[d].admin].role = "channel_admin"
    BY <1>4, <1>6, <1>7 DEF ChannelInv, Distribution!ChannelsConsistent, Distribution!Known
  <2> QED BY <1>6, <2>1, <2>2 DEF Distribution!ChannelsConsistent
<1>9. NobodyGoes'
  BY <1>1, <1>4, <1>6, <1>7 DEF ChannelInv, NobodyGoes
<1>10. \A s \in Newcomers : LoadedIsThere(registration[s])'
  <2>1. LoadedIsThere(registration[r])'
    BY <1>2, <1>3 DEF LoadedIsThere, ChannelInv, Distribution!TypeOK
  <2>2. ASSUME NEW s \in Newcomers \ {r} PROVE LoadedIsThere(registration[s])'
    <3>1. registration[s].step = "written" => registration[s].who \notin Distribution!Known'
      BY <1>1, <1>6 DEF ChannelInv, NewcomersDiffer, LoadedIsThere, q
    <3>2. \A d \in Codes : admitted'[d] \in Nat /\ admitted[d] <= admitted'[d]
      BY <1>4 DEF ChannelInv, Distribution!TypeOK
    <3>3. \A v \in Distribution!Known : v \in Distribution!Known' /\ member'[v] = member[v]
      BY <1>1, <1>4, <1>6 DEF Distribution!Known
    <3> QED BY <1>4, <1>6, <3>1, <3>2, <3>3, OtherRequestRests
  <2> QED BY <2>1, <2>2
<1>11. NewcomersDiffer'
  BY <1>2, <1>3, <1>4 DEF ChannelInv, NewcomersDiffer, Distribution!TypeOK
<1> QED BY <1>5, <1>8, <1>9, <1>10, <1>11 DEF ChannelInv

-----------------------------------------------------------------------------
(* The administrator's routes.                                              *)

LEMMA WrittenIs ==
  ASSUME NEW R, NEW now \in R, NEW loaded, NEW wanted,
         R = Distribution!Channel \/ R = Distribution!User, loaded \in R, wanted \in R
  PROVE  /\ Distribution!Written(now, loaded, wanted) \in R
         /\ \A column \in DOMAIN now :
               Distribution!Written(now, loaded, wanted)[column] =
               IF wanted[column] = loaded[column] THEN now[column] ELSE wanted[column]
<1>1. CASE R = Distribution!Channel
  <2>1. /\ DOMAIN now = {"admin", "total"}
        /\ now.admin \in Customers \cup {None} /\ wanted.admin \in Customers \cup {None}
        /\ now.total \in Nat /\ wanted.total \in Nat
    BY <1>1 DEF Distribution!Channel
  <2>2. Distribution!Written(now, loaded, wanted) =
           [admin |-> IF wanted.admin = loaded.admin THEN now.admin ELSE wanted.admin,
            total |-> IF wanted.total = loaded.total THEN now.total ELSE wanted.total]
    BY <2>1 DEF Distribution!Written
  <2> QED BY <1>1, <2>1, <2>2 DEF Distribution!Channel
<1>2. CASE R = Distribution!User
  <2>1. /\ DOMAIN now = {"channel", "role"}
        /\ now.channel \in Codes \cup {None} /\ wanted.channel \in Codes \cup {None}
        /\ now.role \in Distribution!Roles /\ wanted.role \in Distribution!Roles
    BY <1>2 DEF Distribution!User
  <2>2. Distribution!Written(now, loaded, wanted) =
           [channel |-> IF wanted.channel = loaded.channel THEN now.channel ELSE wanted.channel,
            role |-> IF wanted.role = loaded.role THEN now.role ELSE wanted.role]
    BY <2>1 DEF Distribution!Written
  <2> QED BY <1>2, <2>1, <2>2 DEF Distribution!User
<1> QED BY <1>1, <1>2

(* What a channel's row and a user's are after an appointment or a move.    *)
LEMMA AppointmentWrites ==
  ASSUME Distribution!ChannelParameters, ChannelInv, NEW r \in Newcomers,
         Distribution!SetChannelAdmin(r)
  PROVE  LET c == registration[r].code  u == registration[r].who IN
         /\ c \in Distribution!Created /\ u \in Distribution!Known
         /\ channel'[c] \in Distribution!Channel /\ channel'[c].total = channel[c].total
         /\ channel'[c].admin \in {u, channel[c].admin}
         /\ member'[u] \in Distribution!User /\ member'[u].role = "channel_admin"
         /\ channel' = [channel EXCEPT ![c] = channel'[c]]
         /\ member' = [member EXCEPT ![u] = member'[u]]
<1> DEFINE q == registration[r]  c == q.code  u == q.who
           toChannel == [q.row EXCEPT !.admin = u]
           toUser == Distribution!Appointed(c)
<1>1. /\ q.step = "appoint" /\ q \in ChannelRequest /\ u \in Distribution!Known /\ u \in Customers
      /\ c \in Distribution!Created /\ c \in Codes
      /\ q.row \in Distribution!Channel /\ q.person \in Distribution!User
      /\ channel[c] \in Distribution!Channel /\ member[u] \in Distribution!User
      /\ q.person.role = "channel_admin" => member[u].role = "channel_admin"
  BY ChannelRequestIs DEF Distribution!SetChannelAdmin, Distribution!At, LoadedIsThere,
     Distribution!Created, Distribution!Known, ChannelInv, Distribution!TypeOK
<1>2. /\ channel' = [channel EXCEPT ![c] = Distribution!Written(channel[c], q.row, toChannel)]
      /\ member' = [member EXCEPT ![u] = Distribution!Written(member[u], q.person, toUser)]
  BY DEF Distribution!SetChannelAdmin
<1>3. /\ toChannel \in Distribution!Channel /\ toChannel.total = q.row.total
      /\ toChannel.admin = u
      /\ toUser \in Distribution!User /\ toUser.role = "channel_admin"
  BY <1>1 DEF Distribution!Channel, Distribution!User, Distribution!Appointed, Distribution!Roles
<1> HIDE DEF toChannel, toUser, q
<1>4. /\ Distribution!Written(channel[c], q.row, toChannel) \in Distribution!Channel
      /\ \A column \in DOMAIN channel[c] :
            Distribution!Written(channel[c], q.row, toChannel)[column] =
            IF toChannel[column] = q.row[column] THEN channel[c][column] ELSE toChannel[column]
  BY <1>1, <1>3, WrittenIs
<1>5. /\ Distribution!Written(member[u], q.person, toUser) \in Distribution!User
      /\ \A column \in DOMAIN member[u] :
            Distribution!Written(member[u], q.person, toUser)[column] =
            IF toUser[column] = q.person[column] THEN member[u][column] ELSE toUser[column]
  BY <1>1, <1>3, WrittenIs
<1>6. /\ channel'[c] = Distribution!Written(channel[c], q.row, toChannel)
      /\ member'[u] = Distribution!Written(member[u], q.person, toUser)
      /\ "admin" \in DOMAIN channel[c] /\ "total" \in DOMAIN channel[c]
      /\ "role" \in DOMAIN member[u]
  BY <1>1, <1>2 DEF ChannelInv, Distribution!TypeOK, Distribution!Channel, Distribution!User
<1>7. channel'[c].total = channel[c].total /\ channel'[c].admin \in {u, channel[c].admin}
  BY <1>3, <1>4, <1>6
<1>8. member'[u].role = "channel_admin"
  BY <1>1, <1>3, <1>5, <1>6
<1> QED BY <1>1, <1>2, <1>4, <1>5, <1>6, <1>7, <1>8 DEF q

LEMMA MoveWrites ==
  ASSUME Distribution!ChannelParameters, ChannelInv, NEW r \in Newcomers,
         Distribution!SetUserChannel(r)
  PROVE  LET u == registration[r].who IN
         /\ u \in Distribution!Known
         /\ member'[u] \in Distribution!User /\ member'[u].role = member[u].role
         /\ member' = [member EXCEPT ![u] = member'[u]]
<1> DEFINE q == registration[r]  u == q.who
           wanted == [q.person EXCEPT !.channel = q.code]
<1>1. /\ q \in ChannelRequest /\ u \in Distribution!Known /\ u \in Customers
      /\ q.person \in Distribution!User /\ member[u] \in Distribution!User
  BY ChannelRequestIs DEF Distribution!SetUserChannel, Distribution!At, LoadedIsThere,
     Distribution!Known, ChannelInv, Distribution!TypeOK
<1>2. member' = [member EXCEPT ![u] = Distribution!Written(member[u], q.person, wanted)]
  BY DEF Distribution!SetUserChannel
<1>3. wanted \in Distribution!User /\ wanted.role = q.person.role
  BY <1>1 DEF Distribution!User, ChannelRequest
<1> HIDE DEF wanted, q
<1>4. /\ Distribution!Written(member[u], q.person, wanted) \in Distribution!User
      /\ \A column \in DOMAIN member[u] :
            Distribution!Written(member[u], q.person, wanted)[column] =
            IF wanted[column] = q.person[column] THEN member[u][column] ELSE wanted[column]
  BY <1>1, <1>3, WrittenIs
<1>5. /\ member'[u] = Distribution!Written(member[u], q.person, wanted)
      /\ "role" \in DOMAIN member[u]
  BY <1>1, <1>2 DEF ChannelInv, Distribution!TypeOK, Distribution!User
<1> QED BY <1>1, <1>2, <1>3, <1>4, <1>5 DEF q

(* A change of one user's row which lowers no role, and of one channel's,   *)
(* which keeps its counter.                                                 *)
LEMMA AdministratorKeeps ==
  ASSUME Distribution!ChannelParameters, ChannelInv, NEW c \in Codes \cup {None},
         NEW u \in Customers \cup {None},
         NEW b \in Distribution!Channel \cup {None}, NEW m \in Distribution!User,
         channel' = [channel EXCEPT ![c] = b],
         member' = IF u \in Distribution!Known THEN [member EXCEPT ![u] = m] ELSE member,
         UNCHANGED <<admitted, rowLock, memberships>>,
         c \in Distribution!Created => b # None,
         c = None => b = None,
         b # None => /\ b.total = IF c \in Distribution!Created THEN channel[c].total ELSE 0
                     /\ \/ /\ b.admin = u
                           /\ u = None \/ (u \in Distribution!Known /\ m.role = "channel_admin")
                        \/ c \in Distribution!Created /\ b.admin = channel[c].admin,
         u \in Distribution!Known => m.role \in {"channel_admin", member[u].role},
         \/ UNCHANGED registration
         \/ \E r \in Newcomers : registration' = [registration EXCEPT ![r] = Distribution!Idle]
  PROVE  ChannelInv'
<1>0. Distribution!Idle \in ChannelRequest /\ Distribution!Idle.step = "idle"
  BY DEF Distribution!Idle, ChannelRequest
<1>1. /\ c \in Codes => channel'[c] = b
      /\ \A d \in Codes \ {c} : channel'[d] = channel[d]
      /\ u \in Distribution!Known => member'[u] = m
      /\ \A v \in Customers \ {u} : member'[v] = member[v]
  BY DEF ChannelInv, Distribution!TypeOK, Distribution!Known
<1>2. \A s \in Newcomers : registration'[s] \in {registration[s], Distribution!Idle}
  BY DEF ChannelInv, Distribution!TypeOK
<1>3. Distribution!TypeOK'
  <2>1. channel' \in [Codes -> Distribution!Channel \cup {None}]
    <3>1. channel \in [Codes -> Distribution!Channel \cup {None}]
      BY DEF ChannelInv, Distribution!TypeOK
    <3> QED BY <3>1
  <2>2. member' \in [Customers -> Distribution!User \cup {None}]
    <3>1. member \in [Customers -> Distribution!User \cup {None}]
      BY DEF ChannelInv, Distribution!TypeOK
    <3> QED BY <3>1
  <2> QED BY <1>0, <2>1, <2>2 DEF ChannelInv, Distribution!TypeOK, ChannelRequest
<1>4. /\ Distribution!Known' = Distribution!Known
      /\ Distribution!Created' = Distribution!Created \cup (IF b = None THEN {} ELSE {c})
  BY <1>1 DEF Distribution!Known, Distribution!Created, Distribution!ChannelParameters
<1>5. \A v \in Distribution!Known : member[v].role = "channel_admin" => member'[v].role = "channel_admin"
  BY <1>1 DEF Distribution!Known
<1>6. \A d \in Distribution!Created' \ {c} : d \in Distribution!Created /\ channel'[d] = channel[d]
  BY <1>1, <1>4 DEF Distribution!Created
<1>7. c \in Codes /\ c \notin Distribution!Created => admitted[c] = 0
  BY DEF ChannelInv, NobodyGoes, Distribution!TypeOK
<1>8. ASSUME b # None
      PROVE  /\ b.total <= admitted[c] /\ (admitted[c] > 0 => b.total > 0)
             /\ b.admin \in Distribution!Known \cup {None}
             /\ b.admin \in Distribution!Known => member'[b.admin].role = "channel_admin"
  <2>1. b.total <= admitted[c] /\ (admitted[c] > 0 => b.total > 0)
    BY <1>7, <1>8 DEF ChannelInv, Distribution!ChannelsConsistent
  <2>2. None \notin Distribution!Known
    BY DEF Distribution!Known, Distribution!ChannelParameters
  <2>3. CASE /\ b.admin = u
             /\ u = None \/ (u \in Distribution!Known /\ m.role = "channel_admin")
    BY <1>1, <2>1, <2>2, <2>3
  <2>4. CASE c \in Distribution!Created /\ b.admin = channel[c].admin
    BY <1>5, <2>1, <2>4 DEF ChannelInv, Distribution!ChannelsConsistent, NobodyGoes
  <2> QED BY <1>8, <2>3, <2>4
<1>9. Distribution!ChannelsConsistent'
  <2> SUFFICES ASSUME NEW d \in Distribution!Created'
               PROVE  /\ channel'[d].total <= admitted[d]
                      /\ admitted[d] > 0 => channel'[d].total > 0
                      /\ channel'[d].admin \in Distribution!Known =>
                            member'[channel'[d].admin].role = "channel_admin"
    BY <1>4 DEF Distribution!ChannelsConsistent
  <2>1. CASE d = c
    BY <1>1, <1>8, <2>1 DEF Distribution!Created
  <2>2. CASE d # c
    BY <1>5, <1>6, <2>2 DEF ChannelInv, Distribution!ChannelsConsistent
  <2> QED BY <2>1, <2>2
<1>10. NobodyGoes'
  <2>1. \A d \in Codes : admitted[d] > 0 => d \in Distribution!Created'
    BY <1>4 DEF ChannelInv, NobodyGoes
  <2>2. ASSUME NEW d \in Distribution!Created'
        PROVE  channel'[d].admin \in Distribution!Known \cup {None}
    <3>1. CASE d = c
      BY <1>1, <1>8, <3>1 DEF Distribution!Created
    <3>2. CASE d # c
      BY <1>6, <3>2 DEF ChannelInv, NobodyGoes
    <3> QED BY <3>1, <3>2
  <2> QED BY <1>4, <2>1, <2>2 DEF NobodyGoes
<1>11. ASSUME NEW s \in Newcomers PROVE LoadedIsThere(registration[s])'
  <2>1. CASE registration'[s] = Distribution!Idle
    BY <1>0, <2>1 DEF LoadedIsThere
  <2>2. CASE registration'[s] = registration[s]
    <3>1. registration[s].step = "written" => registration[s].who \notin Distribution!Known'
      BY <1>4 DEF ChannelInv, LoadedIsThere
    <3>2. \A d \in Codes : admitted'[d] \in Nat /\ admitted[d] <= admitted'[d]
      BY DEF ChannelInv, Distribution!TypeOK
    <3> QED BY <1>4, <1>5, <2>2, <3>1, <3>2, OtherRequestRests
  <2> QED BY <1>2, <2>1, <2>2
<1>12. NewcomersDiffer'
  BY <1>0, <1>2 DEF ChannelInv, NewcomersDiffer
<1> QED BY <1>3, <1>9, <1>10, <1>11, <1>12 DEF ChannelInv

LEMMA AppointmentsKeep ==
  ASSUME Distribution!ChannelParameters, ChannelInv, NEW r \in Newcomers,
         Distribution!SetChannelAdmin(r)
  PROVE  ChannelInv'
<1> DEFINE c == registration[r].code  u == registration[r].who
<1>1. /\ c \in Distribution!Created /\ u \in Distribution!Known
      /\ channel'[c] \in Distribution!Channel /\ channel'[c].total = channel[c].total
      /\ channel'[c].admin \in {u, channel[c].admin}
      /\ member'[u] \in Distribution!User /\ member'[u].role = "channel_admin"
      /\ channel' = [channel EXCEPT ![c] = channel'[c]]
      /\ member' = [member EXCEPT ![u] = member'[u]]
  BY AppointmentWrites
<1>2. c \in Codes /\ u \in Customers
  BY <1>1 DEF Distribution!Created, Distribution!Known
<1>3. PICK b \in Distribution!Channel, m \in Distribution!User : b = channel'[c] /\ m = member'[u]
  BY <1>1
<1>4. b # None
  BY <1>3 DEF Distribution!ChannelParameters
<1>5. /\ registration' = [registration EXCEPT ![r] = Distribution!Idle]
      /\ UNCHANGED <<admitted, rowLock, memberships>>
  BY DEF Distribution!SetChannelAdmin, Distribution!Over
<1>6. /\ channel' = [channel EXCEPT ![c] = b]
      /\ member' = IF u \in Distribution!Known THEN [member EXCEPT ![u] = m] ELSE member
      /\ m.role = "channel_admin" /\ b.total = channel[c].total /\ b.admin \in {u, channel[c].admin}
      /\ c # None
  BY <1>1, <1>2, <1>3 DEF Distribution!ChannelParameters
<1>7. /\ \E s \in Newcomers : registration' = [registration EXCEPT ![s] = Distribution!Idle]
      /\ UNCHANGED <<admitted, rowLock, memberships>>
  BY <1>5
<1>8. c \in Distribution!Created /\ u \in Distribution!Known
  BY <1>1
<1> HIDE DEF c, u
<1> QED BY <1>2, <1>4, <1>6, <1>7, <1>8, AdministratorKeeps

LEMMA MovesKeep ==
  ASSUME Distribution!ChannelParameters, ChannelInv, NEW r \in Newcomers,
         Distribution!SetUserChannel(r)
  PROVE  ChannelInv'
<1> DEFINE u == registration[r].who
<1>1. /\ u \in Distribution!Known
      /\ member'[u] \in Distribution!User /\ member'[u].role = member[u].role
      /\ member' = [member EXCEPT ![u] = member'[u]]
  BY MoveWrites
<1>2. u \in Customers /\ None \notin Codes
  BY <1>1 DEF Distribution!Known, Distribution!ChannelParameters
<1>3. PICK m \in Distribution!User : m = member'[u]
  BY <1>1
<1>4. /\ registration' = [registration EXCEPT ![r] = Distribution!Idle]
      /\ UNCHANGED <<admitted, rowLock, memberships>>
      /\ channel' = [channel EXCEPT ![None] = None]
  BY <1>2 DEF Distribution!SetUserChannel, Distribution!Over, ChannelInv, Distribution!TypeOK
<1>5. None \notin Distribution!Created
  BY <1>2 DEF Distribution!Created
<1>6. /\ member' = IF u \in Distribution!Known THEN [member EXCEPT ![u] = m] ELSE member
      /\ m.role \in {"channel_admin", member[u].role}
  BY <1>1, <1>3
<1> HIDE DEF u
<1>7. PICK c \in Codes \cup {None}, b \in Distribution!Channel \cup {None} : c = None /\ b = None
  OBVIOUS
<1>8. /\ channel' = [channel EXCEPT ![c] = b]
      /\ (c \in Distribution!Created => b # None) /\ (c = None => b = None) /\ b = None
  BY <1>4, <1>5, <1>7
<1>9. /\ \E s \in Newcomers : registration' = [registration EXCEPT ![s] = Distribution!Idle]
      /\ u \in Customers \cup {None} /\ UNCHANGED <<admitted, rowLock, memberships>>
  BY <1>2, <1>4
<1> QED BY <1>6, <1>8, <1>9, AdministratorKeeps

LEMMA CreateChannelKeeps ==
  ASSUME Distribution!ChannelParameters, ChannelInv, NEW c \in Codes,
         NEW u \in Distribution!Known \cup {None}, Distribution!CreateChannel(c, u)
  PROVE  ChannelInv'
<1> DEFINE b == [admin |-> u, total |-> 0]  m == Distribution!Appointed(c)
<1>1. u \in Customers \cup {None} /\ c # None
  BY DEF Distribution!Known, Distribution!ChannelParameters
<1>2. /\ b \in Distribution!Channel /\ b # None /\ b.admin = u /\ b.total = 0
      /\ m \in Distribution!User /\ m.role = "channel_admin"
  BY <1>1 DEF Distribution!Channel, Distribution!User, Distribution!Appointed, Distribution!Roles,
              Distribution!ChannelParameters
<1>3. /\ c \notin Distribution!Created
      /\ channel' = [channel EXCEPT ![c] = b]
      /\ member' = IF u \in Distribution!Known THEN [member EXCEPT ![u] = m] ELSE member
      /\ UNCHANGED <<admitted, registration, rowLock, memberships>>
  BY DEF Distribution!CreateChannel
<1> HIDE DEF b, m
<1> QED BY <1>1, <1>2, <1>3, AdministratorKeeps

LEMMA ChannelNext ==
  ASSUME Distribution!ChannelParameters, ChannelInv, [Distribution!Next]_channelVars
  PROVE  ChannelInv'
<1>1. CASE UNCHANGED channelVars
  BY <1>1 DEF channelVars, ChannelInv, Distribution!TypeOK, Distribution!ChannelsConsistent,
     NobodyGoes, NewcomersDiffer, LoadedIsThere, Distribution!Created, Distribution!Known
<1>2. ASSUME NEW r \in Newcomers,
             \/ \E u \in Customers, text \in Invitations : Distribution!Register(r, u, text)
             \/ Distribution!CheckUnused(r) \/ Distribution!Insert(r) \/ Distribution!Commit(r)
             \/ Distribution!Abort(r)
      PROVE  ChannelInv'
  BY <1>2, RegisterKeeps, RegistrationSteps, RegistrationCommits
<1>3. ASSUME NEW r \in Newcomers,
             \/ Distribution!SetChannelAdmin(r) \/ Distribution!SetUserChannel(r)
             \/ \E u \in Customers, c \in Codes \cup {None} :
                   Distribution!LoadForAppointment(r, u, c) \/ Distribution!LoadForMove(r, u, c)
      PROVE  ChannelInv'
  BY <1>3, AppointmentsKeep, MovesKeep, AdministratorLoads
<1>4. ASSUME NEW c \in Codes, NEW u \in Distribution!Known \cup {None},
             Distribution!CreateChannel(c, u)
      PROVE  ChannelInv'
  BY <1>4, CreateChannelKeeps
<1> QED BY <1>1, <1>2, <1>3, <1>4 DEF Distribution!Next

-----------------------------------------------------------------------------
(* ExchangePool: no client is lost but by a cancellation, and the pool      *)
(* exceeds its limit by the number of the other exchanges at most.          *)

Client ==
    [step : {"idle", "using", "waiting", "check", "evicting", "creating", "created"},
     key : Keys \cup {Pool!Nil}, client : Pool!Clients \cup {Pool!Nil}]

Exchanges == {ExchangeOf[k] : k \in Keys}

\* Coroutines past the capacity check.
Past == {u \in Coroutines : user[u].step \in {"evicting", "creating", "created"}}

Listed(seq) == {seq[j] : j \in DOMAIN seq}
Once(seq)   == \A j, k \in DOMAIN seq : seq[j] = seq[k] => j = k

(* The queue of least recent use has every key of the pool once.            *)
RecentListsPool == recent \in Seq(Keys) /\ Listed(recent) = Pool!Pooled /\ Once(recent)

(* What a coroutine at each step knows; whoever is about to create a client *)
(* is the only one to do so for his exchange, and his key is not in the     *)
(* pool.                                                                    *)
CreatorsAreAlone ==
    /\ \A u \in Coroutines : user[u].step \in {"using", "waiting"} => user[u].key \in Keys
    /\ \A u \in Pool!Creating : user[u].key \in Keys \ Pool!Pooled
    /\ \A u \in Coroutines : user[u].step \in {"check", "creating"} => user[u].client = Pool!Nil
    /\ \A u \in Coroutines : user[u].step = "created" => user[u].client \in Pool!Clients
    /\ \A u, v \in Pool!Creating :
          u # v => ExchangeOf[user[u].key] # ExchangeOf[user[v].key]

(* Whoever is past the capacity check has his place counted already.        *)
PlacesAreTaken ==
    Cardinality(Pool!Pooled) + Cardinality(Past) < MaxPool + Cardinality(Exchanges)

PoolInv ==
    /\ Pool!TypeOK /\ Pool!NoClientLeaks
    /\ RecentListsPool /\ CreatorsAreAlone /\ PlacesAreTaken

LEMMA SameCardinality ==
  \A S : (Pool!IsFiniteSet(S) <=> IsFiniteSet(S)) /\ Pool!Cardinality(S) = Cardinality(S)
BY DEF Pool!IsFiniteSet, IsFiniteSet, Pool!Cardinality, Cardinality

LEMMA WithoutIs ==
  ASSUME NEW k \in Keys, NEW seq \in Seq(Keys)
  PROVE  /\ Pool!Without(seq, k) \in Seq(Keys)
         /\ Listed(Pool!Without(seq, k)) = Listed(seq) \ {k}
         /\ Once(seq) => Once(Pool!Without(seq, k))
<1> DEFINE rest == Kept(seq, Keys \ {k})
<1>1. Pool!Without(seq, k) = rest
  BY DEF Pool!Without, Pool!Kept, Kept
<1>2. /\ rest \in Seq(Keys \cap (Keys \ {k}))
      /\ {rest[j] : j \in DOMAIN rest} = {seq[j] : j \in DOMAIN seq} \cap (Keys \ {k})
      /\ Once(seq) => Once(rest)
  BY KeptIs DEF Once
<1> HIDE DEF rest
<1>3. rest \in Seq(Keys) /\ {seq[j] : j \in DOMAIN seq} \subseteq Keys
  BY <1>2
<1> QED BY <1>1, <1>2, <1>3 DEF Listed

LEMMA PoolIsFinite ==
  ASSUME Pool!PoolParameters
  PROVE  /\ IsFiniteSet(Pool!Pooled) /\ Cardinality(Pool!Pooled) \in Nat
         /\ IsFiniteSet(Exchanges) /\ Cardinality(Exchanges) \in Nat
<1>1. IsFiniteSet(Keys)
  BY SameCardinality DEF Pool!PoolParameters
<1>2. Pool!Pooled \in SUBSET Keys
  BY DEF Pool!Pooled
<1>3. [k \in Keys |-> ExchangeOf[k]] \in Surjection(Keys, Exchanges)
  BY DEF Surjection, Exchanges
<1>4. IsFiniteSet(Pool!Pooled) /\ IsFiniteSet(Exchanges)
  BY <1>1, <1>2, <1>3, FS_Subset, FS_Surjection
<1> QED BY <1>4, FS_CardinalityType

(* Coroutines whose keys are of different exchanges are not more than       *)
(* these.                                                                   *)
LEMMA OfDifferentExchanges ==
  ASSUME Pool!PoolParameters, NEW P, NEW key \in [P -> Keys],
         \A u, v \in P : u # v => ExchangeOf[key[u]] # ExchangeOf[key[v]]
  PROVE  IsFiniteSet(P) /\ Cardinality(P) \in Nat /\ Cardinality(P) <= Cardinality(Exchanges)
<1> DEFINE f == [u \in P |-> ExchangeOf[key[u]]]
<1>1. f \in Injection(P, Exchanges)
  BY DEF Injection, IsInjective, Exchanges
<1>2. IsFiniteSet(Exchanges)
  BY PoolIsFinite
<1> HIDE DEF f
<1> QED BY <1>1, <1>2, FS_Injection, FS_CardinalityType

LEMMA PastIsFinite ==
  ASSUME Pool!PoolParameters, CreatorsAreAlone
  PROVE  IsFiniteSet(Past) /\ Cardinality(Past) \in Nat
<1> DEFINE key == [u \in Past |-> user[u].key]
<1>1. \A u \in Past : u \in Pool!Creating /\ user[u].key \in Keys
  BY DEF Past, Pool!Creating, CreatorsAreAlone
<1>2. key \in [Past -> Keys] /\ \A u, v \in Past : u # v => ExchangeOf[key[u]] # ExchangeOf[key[v]]
  BY <1>1 DEF CreatorsAreAlone
<1> HIDE DEF key
<1> QED BY <1>2, OfDifferentExchanges

LEMMA PoolSuffices ==
  ASSUME Pool!PoolParameters, PoolInv
  PROVE  Pool!TypeOK /\ Pool!NoClientLeaks /\ Pool!PoolNearlyBounded
<1>1. MaxPool \in Nat
  BY DEF Pool!PoolParameters
<1>2. Cardinality(Pool!Pooled) < MaxPool + Cardinality(Exchanges)
  BY <1>1, PoolIsFinite, PastIsFinite DEF PoolInv, PlacesAreTaken
<1> QED BY <1>2, SameCardinality DEF PoolInv, Pool!PoolNearlyBounded, Exchanges

LEMMA PoolInit ==
  ASSUME Pool!PoolParameters, Pool!Init
  PROVE  PoolInv
<1> USE DEF Pool!Init, Pool!Idle, Pool!Nil
<1>1. Pool!TypeOK /\ Pool!NoClientLeaks
  BY DEF Pool!PoolParameters, Pool!TypeOK, Pool!NoClientLeaks
<1>2. Pool!Pooled = {} /\ Past = {} /\ Pool!Creating = {}
  BY DEF Pool!Pooled, Past, Pool!Creating
<1>3. RecentListsPool /\ CreatorsAreAlone
  BY <1>2 DEF RecentListsPool, Listed, Once, CreatorsAreAlone
<1>4. Cardinality({}) = 0
  BY FS_EmptySet
<1>5. PlacesAreTaken
  BY <1>2, <1>4, PoolIsFinite DEF PlacesAreTaken, Pool!PoolParameters
<1> QED BY <1>1, <1>3, <1>5 DEF PoolInv

(* The list of recent keys after touch and after a key is dropped.          *)
LEMMA TouchedIs ==
  ASSUME RecentListsPool, NEW k \in Keys, Pool!Touch(k)
  PROVE  recent' \in Seq(Keys) /\ Listed(recent') = Pool!Pooled \cup {k} /\ Once(recent')
<1> DEFINE rest == Pool!Without(recent, k)
<1>1. rest \in Seq(Keys) /\ Listed(rest) = Listed(recent) \ {k} /\ Once(rest)
  BY WithoutIs DEF RecentListsPool
<1>2. recent' = Append(rest, k)
  BY DEF Pool!Touch
<1> HIDE DEF rest
<1>3. rest \in Seq(Keys) /\ Len(rest) \in Nat /\ k \notin Listed(rest)
  BY <1>1
<1>4. /\ recent' \in Seq(Keys) /\ DOMAIN recent' = (DOMAIN rest) \cup {Len(rest) + 1}
      /\ recent'[Len(rest) + 1] = k /\ \A j \in DOMAIN rest : recent'[j] = rest[j]
      /\ Len(rest) + 1 \notin DOMAIN rest
  BY <1>2, <1>3
<1>5. Listed(recent') = Listed(rest) \cup {k}
  BY <1>4 DEF Listed
<1>6. Pool!Pooled \subseteq Keys
  BY DEF Pool!Pooled
<1>7. Once(recent')
  BY <1>1, <1>3, <1>4 DEF Once, Listed
<1> QED BY <1>1, <1>4, <1>5, <1>6, <1>7 DEF RecentListsPool

LEMMA DroppedIs ==
  ASSUME Pool!PoolParameters, PoolInv, NEW k \in Keys, Pool!Drop(k)
  PROVE  /\ RecentListsPool' /\ Pool!Pooled' = Pool!Pooled \ {k}
         /\ entries' \in [Keys -> Pool!Clients \cup {Pool!Nil}]
         /\ old' \subseteq Keys
         /\ \A j \in Keys \ {k} : entries'[j] = entries[j]
<1> DEFINE rest == Pool!Without(recent, k)
<1>1. rest \in Seq(Keys) /\ Listed(rest) = Listed(recent) \ {k} /\ Once(rest)
  BY WithoutIs DEF PoolInv, RecentListsPool
<1>2. recent' = rest /\ entries' = [entries EXCEPT ![k] = Pool!Nil] /\ old' = old \ {k}
  BY DEF Pool!Drop
<1> HIDE DEF rest
<1>3. rest \in Seq(Keys)
  BY <1>1
<1>4. /\ entries' \in [Keys -> Pool!Clients \cup {Pool!Nil}] /\ old' \subseteq Keys
      /\ \A j \in Keys \ {k} : entries'[j] = entries[j]
      /\ entries'[k] = Pool!Nil
  BY <1>2 DEF PoolInv, Pool!TypeOK
<1>5. Pool!Pooled' = Pool!Pooled \ {k}
  BY <1>4 DEF Pool!Pooled
<1>6. Listed(recent)  = Pool!Pooled /\ Pool!Pooled \subseteq Keys
  BY DEF PoolInv, RecentListsPool, Pool!Pooled
<1> QED BY <1>1, <1>2, <1>3, <1>4, <1>5, <1>6 DEF RecentListsPool

CreatingSteps == {"check", "evicting", "creating", "created"}
PastSteps     == {"evicting", "creating", "created"}

(* A coroutine's step that leaves the pool's entries alone.                 *)
LEMMA OneCoroutineMoves ==
  ASSUME Pool!PoolParameters, PoolInv, NEW u \in Coroutines, NEW c \in Client,
         user' = [user EXCEPT ![u] = c], UNCHANGED <<entries, sweep, closing>>,
         RecentListsPool', old' \subseteq Keys,
         created' \in 0 .. MaxClients, open' \subseteq Pool!Clients,
         dropped \subseteq dropped', dropped' \subseteq Pool!Clients,
         c.step \in {"using", "waiting"} => c.key \in Keys,
         c.step \in CreatingSteps =>
            /\ c.key = user[u].key
            /\ \/ user[u].step \in CreatingSteps
               \/ c.key \in Keys \ Pool!Pooled /\ Pool!ExchangeLockFree(c.key),
         c.step \in {"check", "creating"} => c.client = Pool!Nil,
         c.step = "created" => c.client \in Pool!Clients,
         c.step \in PastSteps => user[u].step \in PastSteps \/ Cardinality(Pool!Pooled) < MaxPool,
         closing = "off" => \A x \in open' :
            \/ x = c.client /\ c.step \in CreatingSteps
            \/ x \in dropped'
            \/ x \in open /\ (user[u].step \notin CreatingSteps \/ user[u].client # x)
  PROVE  PoolInv'
<1>1. /\ user'[u] = c /\ \A v \in Coroutines \ {u} : user'[v] = user[v]
      /\ Pool!Pooled' = Pool!Pooled
  BY DEF PoolInv, Pool!TypeOK, Pool!Pooled
<1>2. Pool!TypeOK'
  BY DEF PoolInv, Pool!TypeOK, RecentListsPool, Client
<1>3. Pool!NoClientLeaks'
  <2> SUFFICES ASSUME closing = "off", NEW x \in open'
               PROVE  x \in {entries[k] : k \in Keys} \cup {user'[v].client : v \in Pool!Creating'}
                            \cup dropped'
    BY DEF Pool!NoClientLeaks
  <2>1. CASE x = c.client /\ c.step \in CreatingSteps
    BY <1>1, <2>1 DEF Pool!Creating, CreatingSteps
  <2>2. CASE x \in open /\ (user[u].step \notin CreatingSteps \/ user[u].client # x)
    <3>1. \/ x \in {entries[k] : k \in Keys} \/ x \in dropped
          \/ \E v \in Pool!Creating : x = user[v].client
      BY <2>2 DEF PoolInv, Pool!NoClientLeaks
    <3>2. ASSUME NEW v \in Pool!Creating, x = user[v].client
          PROVE  v \in Pool!Creating' /\ user'[v] = user[v]
      BY <1>1, <2>2, <3>2 DEF Pool!Creating, CreatingSteps
    <3> QED BY <3>1, <3>2
  <2> QED BY <2>1, <2>2
<1>4. CreatorsAreAlone'
  <2>1. \A v \in Coroutines : /\ user'[v].step \in {"using", "waiting"} => user'[v].key \in Keys
                              /\ user'[v].step \in {"check", "creating"} => user'[v].client = Pool!Nil
                              /\ user'[v].step = "created" => user'[v].client \in Pool!Clients
    BY <1>1 DEF PoolInv, CreatorsAreAlone
  <2>2. \A v \in Pool!Creating' \ {u} : v \in Pool!Creating /\ user'[v] = user[v]
    BY <1>1 DEF Pool!Creating
  <2>3. u \in Pool!Creating' =>
           /\ c.key = user[u].key /\ user'[u] = c
           /\ u \in Pool!Creating \/ (c.key \in Keys \ Pool!Pooled /\ Pool!ExchangeLockFree(c.key))
    BY <1>1 DEF Pool!Creating, CreatingSteps
  <2>4. \A v \in Pool!Creating' : user'[v].key \in Keys \ Pool!Pooled
    BY <2>2, <2>3 DEF PoolInv, CreatorsAreAlone
  <2>5. \A v, w \in Pool!Creating' :
           v # w => ExchangeOf[user'[v].key] # ExchangeOf[user'[w].key]
    <3>1. u \in Pool!Creating' => \A v \in Pool!Creating' \ {u} :
             ExchangeOf[user'[v].key] # ExchangeOf[user'[u].key]
      BY <2>2, <2>3 DEF PoolInv, CreatorsAreAlone, Pool!ExchangeLockFree
    <3> QED BY <2>2, <3>1 DEF PoolInv, CreatorsAreAlone
  <2> QED BY <1>1, <2>1, <2>4, <2>5 DEF CreatorsAreAlone
<1>5. PlacesAreTaken'
  <2>1. IsFiniteSet(Past) /\ Cardinality(Past) \in Nat
    BY PastIsFinite DEF PoolInv
  <2>2. Past \subseteq Coroutines /\ Past' \subseteq Coroutines
    BY DEF Past
  <2>3. CASE Past' \subseteq Past
    BY <1>1, <2>1, <2>3, FS_Subset, FS_CardinalityType, PoolIsFinite
       DEF PoolInv, PlacesAreTaken, Pool!PoolParameters
  <2>4. CASE Cardinality(Pool!Pooled) < MaxPool
    <3> DEFINE key == [v \in Past' |-> user'[v].key]
    <3>1. \A v \in Past' : v \in Pool!Creating'
      BY DEF Past, Pool!Creating
    <3>2. /\ key \in [Past' -> Keys]
          /\ \A v, w \in Past' : v # w => ExchangeOf[key[v]] # ExchangeOf[key[w]]
      BY <1>4, <3>1 DEF CreatorsAreAlone
    <3> HIDE DEF key
    <3>3. Cardinality(Past') \in Nat /\ Cardinality(Past') <= Cardinality(Exchanges)
      BY <3>2, OfDifferentExchanges
    <3> QED BY <1>1, <2>4, <3>3, PoolIsFinite DEF PlacesAreTaken, Pool!PoolParameters
  <2>5. Past' \subseteq Past \/ Cardinality(Pool!Pooled) < MaxPool
    BY <1>1 DEF Past, PastSteps
  <2> QED BY <2>3, <2>4, <2>5
<1> QED BY <1>2, <1>3, <1>4, <1>5 DEF PoolInv

LEMMA TouchKeeps ==
  ASSUME PoolInv, NEW k \in Pool!Pooled, Pool!Touch(k), UNCHANGED entries
  PROVE  RecentListsPool' /\ old' \subseteq Keys
<1>1. k \in Keys /\ Pool!Pooled' = Pool!Pooled /\ RecentListsPool
  BY DEF Pool!Pooled, PoolInv
<1>2. recent' \in Seq(Keys) /\ Listed(recent') = Pool!Pooled \cup {k} /\ Once(recent')
  BY <1>1, TouchedIs
<1> QED BY <1>1, <1>2 DEF RecentListsPool, Pool!Touch, PoolInv, Pool!TypeOK

LEMMA CoroutineIs ==
  ASSUME PoolInv, NEW u \in Coroutines
  PROVE  /\ user[u] \in Client
         /\ open \subseteq Pool!Clients /\ dropped \subseteq Pool!Clients
         /\ created \in 0 .. MaxClients /\ RecentListsPool /\ old \subseteq Keys
BY DEF PoolInv, Pool!TypeOK, Client

\* Nothing else happens to the pool.
Untouched == UNCHANGED <<entries, recent, old, sweep, closing>>

LEMMA UntouchedKeeps ==
  ASSUME PoolInv, Untouched
  PROVE  RecentListsPool' /\ old' \subseteq Keys /\ UNCHANGED <<entries, sweep, closing>>
BY DEF Untouched, PoolInv, Pool!TypeOK, RecentListsPool, Pool!Pooled

LEMMA AcquireKeeps ==
  ASSUME Pool!PoolParameters, PoolInv, NEW u \in Coroutines, NEW k \in Keys, Pool!Acquire(u, k)
  PROVE  PoolInv'
<1>1. /\ user[u].step = "idle" /\ UNCHANGED <<entries, created, open, sweep, closing, dropped>>
      /\ open \subseteq Pool!Clients /\ dropped \subseteq Pool!Clients /\ created \in 0 .. MaxClients
  BY CoroutineIs DEF Pool!Acquire, Pool!Idle
<1>2. CASE k \in Pool!Pooled
  <2> DEFINE c == [step |-> "using", key |-> k, client |-> entries[k]]
  <2>1. Pool!Touch(k) /\ user' = [user EXCEPT ![u] = c]
    BY <1>2 DEF Pool!Acquire
  <2>2. c \in Client /\ c.step = "using" /\ c.key = k
    BY DEF Client, PoolInv, Pool!TypeOK
  <2>3. RecentListsPool' /\ old' \subseteq Keys
    BY <1>1, <1>2, <2>1, TouchKeeps
  <2> HIDE DEF c
  <2> QED BY <1>1, <2>1, <2>2, <2>3, OneCoroutineMoves DEF CreatingSteps, PastSteps
<1>3. CASE k \notin Pool!Pooled
  <2> DEFINE c == [step |-> "waiting", key |-> k, client |-> Pool!Nil]
  <2>1. UNCHANGED <<recent, old>> /\ user' = [user EXCEPT ![u] = c]
    BY <1>3 DEF Pool!Acquire
  <2>2. c \in Client /\ c.step = "waiting" /\ c.key = k
    BY DEF Client
  <2>3. RecentListsPool' /\ old' \subseteq Keys
    BY <1>1, <2>1, UntouchedKeeps DEF Untouched
  <2> HIDE DEF c
  <2> QED BY <1>1, <2>1, <2>2, <2>3, OneCoroutineMoves DEF CreatingSteps, PastSteps
<1> QED BY <1>2, <1>3

LEMMA LockedKeeps ==
  ASSUME Pool!PoolParameters, PoolInv, NEW u \in Coroutines, Pool!Locked(u)
  PROVE  PoolInv'
<1>1. /\ user[u].step = "waiting" /\ user[u].key \in Keys /\ user[u] \in Client
      /\ UNCHANGED <<entries, created, open, sweep, closing, dropped>>
      /\ open \subseteq Pool!Clients /\ dropped \subseteq Pool!Clients /\ created \in 0 .. MaxClients
      /\ Pool!ExchangeLockFree(user[u].key)
  BY CoroutineIs DEF Pool!Locked, PoolInv, CreatorsAreAlone
<1>2. CASE user[u].key \in Pool!Pooled
  <2> DEFINE c == [user[u] EXCEPT !.step = "using", !.client = entries[user[u].key]]
  <2>1. Pool!Touch(user[u].key) /\ user' = [user EXCEPT ![u] = c]
    BY <1>2 DEF Pool!Locked, Pool!MadeMeanwhile, Pool!Become
  <2>2. c \in Client /\ c.step = "using" /\ c.key \in Keys
    BY <1>1 DEF Client, PoolInv, Pool!TypeOK
  <2>3. RecentListsPool' /\ old' \subseteq Keys
    BY <1>1, <1>2, <2>1, TouchKeeps
  <2> HIDE DEF c
  <2> QED BY <1>1, <2>1, <2>2, <2>3, OneCoroutineMoves DEF CreatingSteps, PastSteps
<1>3. CASE user[u].key \notin Pool!Pooled
  <2> DEFINE c == [user[u] EXCEPT !.step = "check", !.client = Pool!Nil]
  <2>1. UNCHANGED <<recent, old>> /\ user' = [user EXCEPT ![u] = c]
    BY <1>3 DEF Pool!Locked, Pool!MadeMeanwhile, Pool!Become
  <2>2. c \in Client /\ c.step = "check" /\ c.key = user[u].key /\ c.client = Pool!Nil
    BY <1>1 DEF Client
  <2>3. RecentListsPool' /\ old' \subseteq Keys
    BY <1>1, <2>1, UntouchedKeeps DEF Untouched
  <2> HIDE DEF c
  <2> QED BY <1>1, <1>3, <2>1, <2>2, <2>3, OneCoroutineMoves DEF CreatingSteps, PastSteps
<1> QED BY <1>2, <1>3

(* The steps of a creation other than the eviction and the new entry.       *)
LEMMA CreationKeeps ==
  ASSUME Pool!PoolParameters, PoolInv, NEW u \in Coroutines,
         \/ Pool!Evicted(u) \/ Pool!Create(u)
         \/ Pool!MakeRoom(u) /\ ~(Pool!Cardinality(Pool!Pooled) >= MaxPool)
  PROVE  PoolInv'
<1>1. /\ user[u] \in Client /\ open \subseteq Pool!Clients /\ created \in 0 .. MaxClients
      /\ MaxClients \in Nat /\ dropped' = dropped /\ dropped \subseteq Pool!Clients
  BY CoroutineIs DEF Pool!PoolParameters, Pool!Evicted, Pool!Create, Pool!MakeRoom
<1>2. Untouched
  BY DEF Pool!Evicted, Pool!Create, Pool!MakeRoom, Untouched
<1>3. RecentListsPool' /\ old' \subseteq Keys /\ UNCHANGED <<entries, sweep, closing>>
  BY <1>2, UntouchedKeeps
<1>4. CASE Pool!Evicted(u) \/ Pool!MakeRoom(u)
  <2> DEFINE c == [user[u] EXCEPT !.step = "creating", !.client = Pool!Nil]
  <2>1. /\ user' = [user EXCEPT ![u] = c] /\ UNCHANGED created
        /\ open' \subseteq open \ {user[u].client}
        /\ user[u].step \in {"check", "evicting"}
        /\ user[u].step = "check" => Cardinality(Pool!Pooled) < MaxPool
    <3>1. CASE Pool!Evicted(u)
      BY <1>4, <3>1 DEF Pool!Evicted, Pool!Become
    <3>2. CASE Pool!MakeRoom(u) /\ ~(Pool!Cardinality(Pool!Pooled) >= MaxPool)
      <4>1. Pool!Nil \notin open
        BY <1>1 DEF Pool!Clients, Pool!Nil
      <4>2. user[u].step = "check" /\ user[u].client = Pool!Nil
        BY <3>2 DEF Pool!MakeRoom, PoolInv, CreatorsAreAlone
      <4>3. Cardinality(Pool!Pooled) < MaxPool
        BY <3>2, SameCardinality, PoolIsFinite DEF Pool!PoolParameters
      <4> QED BY <3>2, <4>1, <4>2, <4>3 DEF Pool!MakeRoom, Pool!Become
    <3> QED BY <1>4, <3>1, <3>2 DEF Pool!Evicted, Pool!MakeRoom, Pool!Create
  <2>2. c \in Client /\ c.step = "creating" /\ c.key = user[u].key /\ c.client = Pool!Nil
    BY <1>1 DEF Client
  <2> HIDE DEF c
  <2> QED BY <1>1, <1>3, <2>1, <2>2, OneCoroutineMoves DEF CreatingSteps, PastSteps
<1>5. CASE Pool!Create(u)
  <2> DEFINE n == created + 1
             c == [user[u] EXCEPT !.step = "created", !.client = n]
  <2>1. /\ user[u].step = "creating" /\ created < MaxClients
        /\ created' = n /\ open' = open \cup {n} /\ user' = [user EXCEPT ![u] = c]
    BY <1>5 DEF Pool!Create, Pool!Become
  <2>2. n \in Pool!Clients /\ n \in 0 .. MaxClients
    BY <1>1, <2>1 DEF Pool!Clients
  <2>3. c \in Client /\ c.step = "created" /\ c.key = user[u].key /\ c.client = n
    BY <1>1, <2>2 DEF Client
  <2>4. Pool!Nil \notin open /\ user[u].client = Pool!Nil
    BY <1>1, <2>1 DEF Pool!Clients, Pool!Nil, PoolInv, CreatorsAreAlone
  <2> HIDE DEF c, n
  <2> QED BY <1>1, <1>3, <2>1, <2>2, <2>3, <2>4, OneCoroutineMoves DEF CreatingSteps, PastSteps
<1> QED BY <1>4, <1>5

(* A coroutine that is done.                                                *)
LEMMA DoneKeeps ==
  ASSUME Pool!PoolParameters, PoolInv, NEW u \in Coroutines,
         Pool!CreateFails(u) \/ Pool!Cancelled(u) \/ Pool!Release(u)
  PROVE  PoolInv'
<1>1. /\ user[u] \in Client /\ open \subseteq Pool!Clients /\ created \in 0 .. MaxClients
      /\ dropped \subseteq Pool!Clients /\ Pool!Idle \in Client /\ Pool!Idle.step = "idle"
  BY CoroutineIs DEF Pool!Idle, Client
<1>2. user' = [user EXCEPT ![u] = Pool!Idle] /\ UNCHANGED created
  BY DEF Pool!CreateFails, Pool!Cancelled, Pool!Release
<1>3. /\ open' \subseteq open /\ dropped \subseteq dropped' /\ dropped' \subseteq Pool!Clients
      /\ \A x \in open' :
            x \in dropped' \/ user[u].step \notin CreatingSteps \/ user[u].client # x
  <2>1. CASE Pool!CreateFails(u) \/ Pool!Release(u)
    BY <1>1, <2>1 DEF Pool!CreateFails, Pool!Release, CreatingSteps
  <2>2. CASE Pool!Cancelled(u)
    <3>1. user[u].client \in Pool!Clients \cup {Pool!Nil} /\ Pool!Nil \notin open
      BY <1>1 DEF Client, Pool!Clients, Pool!Nil
    <3>2. open' = open /\ dropped' = dropped \cup ({user[u].client} \ {Pool!Nil})
      BY <2>2 DEF Pool!Cancelled
    <3> QED BY <1>1, <3>1, <3>2
  <2> QED BY <2>1, <2>2
<1>4. UNCHANGED <<entries, sweep, closing>> /\ RecentListsPool' /\ old' \subseteq Keys
  <2>1. CASE Untouched
    BY <2>1, UntouchedKeeps
  <2>2. CASE user[u].key \in Pool!Pooled /\ Pool!Touch(user[u].key) /\ UNCHANGED <<entries, sweep, closing>>
    BY <2>2, TouchKeeps
  <2> QED BY <2>1, <2>2 DEF Pool!CreateFails, Pool!Cancelled, Pool!Release, Untouched
<1> QED BY <1>1, <1>2, <1>3, <1>4, OneCoroutineMoves DEF CreatingSteps, PastSteps

LEMMA EvictionKeeps ==
  ASSUME Pool!PoolParameters, PoolInv, NEW u \in Coroutines, Pool!MakeRoom(u),
         Pool!Cardinality(Pool!Pooled) >= MaxPool
  PROVE  PoolInv'
<1> DEFINE k == Head(recent)
           c == [user[u] EXCEPT !.step = "evicting", !.client = entries[k]]
<1>1. /\ user[u] \in Client /\ user[u].step = "check" /\ user[u].client = Pool!Nil
      /\ open \subseteq Pool!Clients /\ Pool!Nil \notin open
  BY CoroutineIs DEF Pool!MakeRoom, PoolInv, CreatorsAreAlone, Pool!Clients, Pool!Nil
<1>2. k \in Pool!Pooled
  <2>1. Cardinality(Pool!Pooled) >= MaxPool /\ MaxPool \in Nat \ {0}
    BY SameCardinality DEF Pool!PoolParameters
  <2>2. Pool!Pooled # {}
    BY <2>1, FS_EmptySet
  <2>3. recent \in Seq(Keys) /\ Listed(recent) # {} /\ Listed(recent) = Pool!Pooled
    BY <2>2 DEF PoolInv, RecentListsPool
  <2>4. 1 \in DOMAIN recent /\ Head(recent) = recent[1]
    BY <2>3 DEF Listed
  <2> QED BY <2>3, <2>4 DEF Listed
<1>3. k \in Keys /\ entries[k] \in Pool!Clients
  BY <1>2 DEF Pool!Pooled, PoolInv, Pool!TypeOK
<1>4. /\ user' = [user EXCEPT ![u] = c] /\ Pool!Drop(k)
      /\ UNCHANGED <<created, open, sweep, closing, dropped>>
  BY DEF Pool!MakeRoom, Pool!Become
<1>5. /\ RecentListsPool' /\ Pool!Pooled' = Pool!Pooled \ {k}
      /\ entries' \in [Keys -> Pool!Clients \cup {Pool!Nil}] /\ old' \subseteq Keys
      /\ \A j \in Keys \ {k} : entries'[j] = entries[j]
  BY <1>3, <1>4, DroppedIs
<1>6. c \in Client /\ c.step = "evicting" /\ c.key = user[u].key /\ c.client = entries[k]
  BY <1>1, <1>3 DEF Client
<1> HIDE DEF k, c
<1>7. user'[u] = c /\ \A v \in Coroutines \ {u} : user'[v] = user[v]
  BY <1>4 DEF PoolInv, Pool!TypeOK
<1>8. Pool!TypeOK'
  BY <1>4, <1>5, <1>6 DEF PoolInv, Pool!TypeOK, Client, RecentListsPool
<1>9. Pool!Creating' = Pool!Creating /\ u \in Pool!Creating
  BY <1>1, <1>6, <1>7 DEF Pool!Creating
<1>10. Pool!NoClientLeaks'
  <2> SUFFICES ASSUME closing = "off", NEW x \in open
               PROVE  x \in {entries'[j] : j \in Keys} \cup {user'[v].client : v \in Pool!Creating}
                            \cup dropped
    BY <1>4, <1>9 DEF Pool!NoClientLeaks
  <2>1. \/ \E j \in Keys : x = entries[j]
        \/ \E v \in Pool!Creating \ {u} : x = user[v].client
        \/ x \in dropped
    BY <1>1 DEF PoolInv, Pool!NoClientLeaks
  <2>2. CASE x = entries[k]
    BY <1>6, <1>7, <1>9, <2>2
  <2>3. CASE \E j \in Keys \ {k} : x = entries[j]
    BY <1>5, <2>3
  <2>4. CASE \E v \in Pool!Creating \ {u} : x = user[v].client
    BY <1>7, <2>4 DEF Pool!Creating
  <2> QED BY <2>1, <2>2, <2>3, <2>4
<1>11. CreatorsAreAlone'
  <2>1. \A v \in Pool!Creating : user'[v].key = user[v].key
    BY <1>6, <1>7 DEF Pool!Creating
  <2> QED BY <1>5, <1>6, <1>7, <1>9, <2>1 DEF PoolInv, CreatorsAreAlone
<1>12. PlacesAreTaken'
  <2>1. Past' = Past \cup {u} /\ u \notin Past
    BY <1>1, <1>6, <1>7 DEF Past
  <2>2. IsFiniteSet(Past) /\ Cardinality(Past) \in Nat
    BY PastIsFinite DEF PoolInv
  <2>3. Cardinality(Past') = Cardinality(Past) + 1
    BY <2>1, <2>2, FS_AddElement
  <2>4. Cardinality(Pool!Pooled') = Cardinality(Pool!Pooled) - 1
    BY <1>2, <1>5, PoolIsFinite, FS_RemoveElement
  <2> QED BY <2>2, <2>3, <2>4, PoolIsFinite DEF PoolInv, PlacesAreTaken
<1> QED BY <1>5, <1>8, <1>10, <1>11, <1>12 DEF PoolInv

LEMMA StoreKeeps ==
  ASSUME Pool!PoolParameters, PoolInv, NEW u \in Coroutines, Pool!Store(u)
  PROVE  PoolInv'
<1> DEFINE k == user[u].key
           c == [user[u] EXCEPT !.step = "using", !.client = user[u].client]
<1>1. /\ user[u] \in Client /\ user[u].step = "created" /\ user[u].client \in Pool!Clients
      /\ u \in Pool!Creating /\ k \in Keys \ Pool!Pooled
  BY CoroutineIs DEF Pool!Store, PoolInv, CreatorsAreAlone, Pool!Creating
<1>2. /\ entries' = [entries EXCEPT ![k] = user[u].client] /\ Pool!Touch(k)
      /\ user' = [user EXCEPT ![u] = c]
      /\ UNCHANGED <<created, open, sweep, closing, dropped>>
  BY DEF Pool!Store, Pool!Become
<1>3. c \in Client /\ c.step = "using" /\ c.key = k
  BY <1>1 DEF Client
<1>4. k \in Keys /\ k \notin Pool!Pooled /\ entries[k] = Pool!Nil /\ user[u].client # Pool!Nil
  BY <1>1 DEF Pool!Pooled, Pool!Clients, Pool!Nil
<1> HIDE DEF k, c
<1>5. /\ entries' \in [Keys -> Pool!Clients \cup {Pool!Nil}] /\ entries'[k] = user[u].client
      /\ \A j \in Keys \ {k} : entries'[j] = entries[j]
      /\ user'[u] = c /\ \A v \in Coroutines \ {u} : user'[v] = user[v]
  BY <1>1, <1>2, <1>4 DEF PoolInv, Pool!TypeOK
<1>6. Pool!Pooled' = Pool!Pooled \cup {k}
  BY <1>4, <1>5 DEF Pool!Pooled
<1>7. RecentListsPool' /\ old' \subseteq Keys
  BY <1>2, <1>4, <1>6, TouchedIs DEF PoolInv, RecentListsPool, Pool!Touch, Pool!TypeOK
<1>8. Pool!TypeOK'
  BY <1>2, <1>3, <1>5, <1>7 DEF PoolInv, Pool!TypeOK, Client, RecentListsPool
<1>9. Pool!Creating' = Pool!Creating \ {u} /\ Past' = Past \ {u} /\ u \in Past
  BY <1>1, <1>3, <1>5 DEF Pool!Creating, Past
<1>10. Pool!NoClientLeaks'
  <2> SUFFICES ASSUME closing = "off", NEW x \in open
               PROVE  \/ x \in dropped
                      \/ \E j \in Keys : x = entries'[j]
                      \/ \E v \in Pool!Creating \ {u} : x = user'[v].client
    BY <1>2, <1>9 DEF Pool!NoClientLeaks
  <2>1. \/ \E j \in Keys : x = entries[j]
        \/ \E v \in Pool!Creating : x = user[v].client
        \/ x \in dropped
    BY DEF PoolInv, Pool!NoClientLeaks
  <2>2. x # Pool!Nil
    BY DEF PoolInv, Pool!TypeOK, Pool!Clients, Pool!Nil
  <2>3. CASE \E j \in Keys : x = entries[j]
    BY <1>4, <1>5, <2>2, <2>3
  <2>4. CASE \E v \in Pool!Creating \ {u} : x = user[v].client
    BY <1>5, <2>4 DEF Pool!Creating
  <2>5. CASE x = user[u].client
    BY <1>4, <1>5, <2>5
  <2> QED BY <2>1, <2>3, <2>4, <2>5
<1>11. CreatorsAreAlone'
  <2>1. \A v \in Pool!Creating \ {u} : user'[v] = user[v] /\ user[v].key # k
    BY <1>1, <1>5 DEF PoolInv, CreatorsAreAlone, Pool!Creating, k
  <2>2. \A v \in Coroutines : /\ user'[v].step \in {"using", "waiting"} => user'[v].key \in Keys
                              /\ user'[v].step \in {"check", "creating"} => user'[v].client = Pool!Nil
                              /\ user'[v].step = "created" => user'[v].client \in Pool!Clients
    BY <1>3, <1>4, <1>5 DEF PoolInv, CreatorsAreAlone
  <2> QED BY <1>6, <1>9, <2>1, <2>2 DEF PoolInv, CreatorsAreAlone
<1>12. PlacesAreTaken'
  <2>1. IsFiniteSet(Past) /\ Cardinality(Past) \in Nat
    BY PastIsFinite DEF PoolInv
  <2>2. Cardinality(Past') = Cardinality(Past) - 1
    BY <1>9, <2>1, FS_RemoveElement
  <2>3. Cardinality(Pool!Pooled') = Cardinality(Pool!Pooled) + 1
    BY <1>4, <1>6, PoolIsFinite, FS_AddElement
  <2> QED BY <2>1, <2>2, <2>3, PoolIsFinite DEF PoolInv, PlacesAreTaken
<1> QED BY <1>7, <1>8, <1>10, <1>11, <1>12 DEF PoolInv

(* Ages, the sweep and the end of the pool: no coroutine moves, and no      *)
(* entry is new.                                                            *)
LEMMA EntriesGo ==
  ASSUME Pool!PoolParameters, PoolInv, UNCHANGED <<user, created, dropped>>,
         entries' \in [Keys -> Pool!Clients \cup {Pool!Nil}], Pool!Pooled' \subseteq Pool!Pooled,
         RecentListsPool', old' \subseteq Keys, sweep' \subseteq Keys, open' \subseteq open,
         closing' \in {"off", "closing", "done"},
         closing' = "off" =>
            closing = "off" /\ \A x \in open', j \in Keys : x = entries[j] => x = entries'[j]
  PROVE  PoolInv'
<1>1. Pool!TypeOK'
  BY DEF PoolInv, Pool!TypeOK, RecentListsPool
<1>2. Pool!Creating' = Pool!Creating /\ Past' = Past
  BY DEF Pool!Creating, Past
<1>3. Pool!NoClientLeaks'
  BY <1>2 DEF PoolInv, Pool!NoClientLeaks
<1>4. CreatorsAreAlone'
  BY <1>2 DEF PoolInv, CreatorsAreAlone
<1>5. Cardinality(Pool!Pooled') \in Nat /\ Cardinality(Pool!Pooled') <= Cardinality(Pool!Pooled)
  BY PoolIsFinite, FS_Subset, FS_CardinalityType
<1>6. PlacesAreTaken'
  BY <1>2, <1>5, PoolIsFinite, PastIsFinite DEF PoolInv, PlacesAreTaken, Pool!PoolParameters
<1> QED BY <1>1, <1>3, <1>4, <1>6 DEF PoolInv

LEMMA SweepsKeep ==
  ASSUME Pool!PoolParameters, PoolInv,
         \/ \E k \in Keys : Pool!Ages(k) \/ Pool!SweepOne(k)
         \/ Pool!SweepStarts \/ Pool!CloseAll \/ Pool!Clear
  PROVE  PoolInv'
<1>1. /\ entries \in [Keys -> Pool!Clients \cup {Pool!Nil}] /\ RecentListsPool
      /\ old \subseteq Keys /\ sweep \subseteq Keys /\ closing \in {"off", "closing", "done"}
      /\ open \subseteq Pool!Clients
  BY DEF PoolInv, Pool!TypeOK
<1>2. CASE (\E k \in Keys : Pool!Ages(k)) \/ Pool!SweepStarts \/ Pool!CloseAll
  <2>1. UNCHANGED <<entries, recent, user, created, dropped>> /\ open' \subseteq open
    BY <1>2 DEF Pool!Ages, Pool!SweepStarts, Pool!CloseAll
  <2>2. /\ old' \subseteq Keys /\ sweep' \subseteq Keys
        /\ closing' \in {closing, "closing"}
    BY <1>1, <1>2 DEF Pool!Ages, Pool!SweepStarts, Pool!CloseAll
  <2>3. Pool!Pooled' = Pool!Pooled
    BY <2>1 DEF Pool!Pooled
  <2>4. RecentListsPool'
    BY <1>1, <2>1, <2>3 DEF RecentListsPool
  <2> QED BY <1>1, <2>1, <2>2, <2>3, <2>4, EntriesGo
<1>3. ASSUME NEW k \in Keys, Pool!SweepOne(k) PROVE PoolInv'
  <2>1. /\ Pool!Drop(k) /\ UNCHANGED <<user, created, closing, dropped>>
        /\ sweep' \subseteq sweep /\ open' = open \ {entries[k]}
    BY <1>3 DEF Pool!SweepOne
  <2>2. /\ RecentListsPool' /\ Pool!Pooled' = Pool!Pooled \ {k}
        /\ entries' \in [Keys -> Pool!Clients \cup {Pool!Nil}] /\ old' \subseteq Keys
        /\ \A j \in Keys \ {k} : entries'[j] = entries[j]
    BY <2>1, DroppedIs
  <2>3. \A x \in open', j \in Keys : x = entries[j] => x = entries'[j]
    BY <2>1, <2>2
  <2> QED BY <1>1, <2>1, <2>2, <2>3, EntriesGo
<1>4. CASE Pool!Clear
  <2>1. /\ entries' = [k \in Keys |-> Pool!Nil] /\ recent' = <<>> /\ old' = {}
        /\ closing' = "done" /\ UNCHANGED <<user, created, open, sweep, dropped>>
    BY <1>4 DEF Pool!Clear
  <2>2. Pool!Pooled' = {} /\ RecentListsPool'
    BY <2>1 DEF Pool!Pooled, RecentListsPool, Listed, Once
  <2> QED BY <1>1, <2>1, <2>2, EntriesGo
<1> QED BY <1>2, <1>3, <1>4

LEMMA PoolNext ==
  ASSUME Pool!PoolParameters, PoolInv, [Pool!Next]_poolVars
  PROVE  PoolInv'
<1>1. CASE UNCHANGED poolVars
  BY <1>1 DEF poolVars, PoolInv, Pool!TypeOK, Pool!NoClientLeaks, RecentListsPool, CreatorsAreAlone,
     PlacesAreTaken, Past, Pool!Pooled, Pool!Creating
<1>2. ASSUME NEW u \in Coroutines, Pool!MakeRoom(u) PROVE PoolInv'
  BY <1>2, EvictionKeeps, CreationKeeps
<1>3. ASSUME NEW u \in Coroutines,
             \/ \E k \in Keys : Pool!Acquire(u, k)
             \/ Pool!Locked(u) \/ Pool!Evicted(u)
             \/ Pool!Create(u) \/ Pool!CreateFails(u) \/ Pool!Store(u) \/ Pool!Cancelled(u) \/ Pool!Release(u)
      PROVE  PoolInv'
  BY <1>3, AcquireKeeps, LockedKeeps, CreationKeeps, DoneKeeps, StoreKeeps
<1>4. CASE \/ \E k \in Keys : Pool!Ages(k) \/ Pool!SweepOne(k)
           \/ Pool!SweepStarts \/ Pool!CloseAll \/ Pool!Clear
  BY <1>4, SweepsKeep
<1> QED BY <1>1, <1>2, <1>3, <1>4 DEF Pool!Next

-----------------------------------------------------------------------------
(* Credentials: columns hold what was last asked for, and what is shown of  *)
(* an account is an answer of the exchange.                                 *)

\* The columns of an UPDATE are of their types; no list has a model twice.
WriteFits(write) ==
    /\ "key" \in DOMAIN write => write.key \in 0 .. MaxServed
    /\ "connected" \in DOMAIN write => write.connected \in BOOLEAN
    /\ "enabled" \in DOMAIN write => write.enabled \in BOOLEAN
    /\ "models" \in DOMAIN write =>
          write.models \in Seq(Models) /\ Store!IsInjective(write.models)

(* A request that is about to write that an account is connected has had an *)
(* answer, and so has one that may cache a balance, for the key it loaded.  *)
RequestFits(q, answers) ==
    /\ q = [step |-> q.step, kind |-> q.kind, id |-> q.id, loaded |-> q.loaded,
            write |-> q.write]
    /\ q.step \in {"idle", "asking", "changed", "written", "raised"}
    /\ q.kind \in Store!Kinds \cup {None} /\ q.id \in Store!Ids \cup {None}
    /\ q.step # "idle" => q.id \in Store!Ids /\ WriteFits(q.write)
    /\ q.step \in {"asking", "written", "raised"} => q.id \in Accounts
    /\ q.step # "idle" /\ q.id \in Accounts =>
          /\ q.loaded \in Store!AccountRow
          /\ "connected" \in DOMAIN q.write /\ q.write.connected => answers[q.id] # {}
    /\ q.step = "written" /\ q.kind = "balance" => q.loaded.key \in answers[q.id]
    /\ q.step = "changed" => q.kind # "balance"

CredentialInv ==
    /\ Store!TypeOK /\ Store!SettingsKept
    /\ DOMAIN row = Store!Ids /\ row = [id \in Store!Ids |-> row[id]]
    /\ req = [r \in Requests |-> req[r]]
    /\ \A r \in Requests : RequestFits(req[r], accepted)

LEMMA CredentialInit ==
  ASSUME Store!CredentialParameters, Store!Init
  PROVE  CredentialInv
<1> USE DEF Store!Init, Store!Ids
<1>1. /\ \A r \in Requests : req[r] = Store!Idle
      /\ req = [r \in Requests |-> req[r]]
      /\ DOMAIN row = Store!Ids /\ row = [id \in Store!Ids |-> row[id]]
  OBVIOUS
<1>2. RequestFits(Store!Idle, accepted)
  BY DEF RequestFits, Store!Idle
<1>3. Store!TypeOK
  <2>1. MaxServed \in Nat
    BY DEF Store!CredentialParameters
  <2>2. \A a \in Accounts : row[a] = [key |-> 0, connected |-> FALSE]
    OBVIOUS
  <2>3. \A p \in Providers : row[p] = None
    BY DEF Store!CredentialParameters
  <2>4. [key |-> 0, connected |-> FALSE] \in Store!AccountRow
    BY <2>1 DEF Store!AccountRow
  <2>5. \A r \in Requests : req[r].step = "idle" /\ req[r].kind = None /\ req[r].id = None
    BY <1>1 DEF Store!Idle
  <2> QED BY <2>1, <2>2, <2>3, <2>4, <2>5 DEF Store!TypeOK
<1>4. Store!SettingsKept
  BY DEF Store!SettingsKept, Store!ColumnsKept, Store!ShownIsAnswered, Store!ModelsOnce,
         Store!CredentialParameters
<1> QED BY <1>1, <1>2, <1>3, <1>4 DEF CredentialInv

(* Steps that write no row.                                                 *)
LEMMA RowsRest ==
  ASSUME CredentialInv, UNCHANGED <<row, asked>>,
         req' = [r \in Requests |-> req'[r]],
         \A r \in Requests : RequestFits(req'[r], accepted'),
         served' \in 0 .. MaxServed,
         accepted' \in [Accounts -> SUBSET (0 .. MaxServed)],
         cached' \in [Accounts -> (0 .. MaxServed) \cup {None}],
         \A a \in Accounts : accepted[a] \subseteq accepted'[a] /\ cached'[a] \in accepted'[a] \cup {None}
  PROVE  CredentialInv'
<1>1. Store!TypeOK'
  BY DEF CredentialInv, Store!TypeOK, RequestFits
<1>2. Store!SettingsKept'
  BY DEF CredentialInv, Store!SettingsKept, Store!ColumnsKept, Store!ShownIsAnswered,
         Store!ModelsOnce
<1> QED BY <1>1, <1>2 DEF CredentialInv

LEMMA AnswersGrow ==
  ASSUME NEW q, NEW before, NEW after,
         \A a \in Accounts : before[a] \subseteq after[a],
         RequestFits(q, before)
  PROVE  RequestFits(q, after)
BY DEF RequestFits

LEMMA OneRequestWaits ==
  ASSUME CredentialInv, UNCHANGED <<row, asked, cached>>, NEW r \in Requests, NEW q,
         req' = [req EXCEPT ![r] = q], RequestFits(q, accepted'),
         served' \in 0 .. MaxServed,
         accepted' \in [Accounts -> SUBSET (0 .. MaxServed)],
         \A a \in Accounts : accepted[a] \subseteq accepted'[a]
  PROVE  CredentialInv'
<1>1. req' = [x \in Requests |-> req'[x]] /\ \A x \in Requests : req'[x] \in {q, req[x]}
  BY DEF CredentialInv
<1>2. \A x \in Requests : RequestFits(req'[x], accepted')
  <2> TAKE x \in Requests
  <2>1. RequestFits(req[x], accepted')
    BY AnswersGrow DEF CredentialInv
  <2> QED BY <1>1, <2>1
<1>3. /\ cached \in [Accounts -> (0 .. MaxServed) \cup {None}]
      /\ \A a \in Accounts : cached[a] \in accepted'[a] \cup {None}
  BY DEF CredentialInv, Store!TypeOK, Store!SettingsKept, Store!ShownIsAnswered
<1> QED BY <1>1, <1>2, <1>3, RowsRest

LEMMA RequestLoads ==
  ASSUME Store!CredentialParameters, CredentialInv, NEW r \in Requests,
         NEW kind \in Store!Kinds, NEW id \in Store!Ids, NEW step \in {"asking", "changed"},
         NEW write, WriteFits(write), step = "asking" => id \in Accounts,
         step = "changed" => kind # "balance",
         id \in Accounts => "connected" \notin DOMAIN write,
         Store!Load(r, kind, id, step, write)
  PROVE  CredentialInv'
<1> DEFINE q == [step |-> step, kind |-> kind, id |-> id, loaded |-> row[id], write |-> write]
<1>1. /\ req' = [req EXCEPT ![r] = q] /\ UNCHANGED <<row, asked, cached, accepted>>
      /\ served < MaxServed /\ served' = served + 1
  BY DEF Store!Load, Store!Request
<1>2. served \in 0 .. MaxServed /\ MaxServed \in Nat /\ served' \in 0 .. MaxServed
  BY <1>1 DEF CredentialInv, Store!TypeOK, Store!CredentialParameters
<1>3. id \in Accounts => row[id] \in Store!AccountRow
  BY DEF CredentialInv, Store!TypeOK
<1>4. RequestFits(q, accepted)
  BY <1>3 DEF RequestFits
<1>5. accepted \in [Accounts -> SUBSET (0 .. MaxServed)]
  BY DEF CredentialInv, Store!TypeOK
<1> HIDE DEF q
<1> QED BY <1>1, <1>2, <1>4, <1>5, OneRequestWaits

(* The requests that change an account's key, or ask the exchange.          *)
LEMMA AccountsKeep ==
  ASSUME Store!CredentialParameters, CredentialInv, NEW r \in Requests, NEW a \in Accounts,
         \/ Store!UpdateAccount(r, a)
         \/ Store!AskExchange(r, "test", a) \/ Store!AskExchange(r, "balance", a)
  PROVE  CredentialInv'
<1>1. a \in Store!Ids /\ {"update", "test", "balance"} \subseteq Store!Kinds
  BY DEF Store!Ids, Store!Kinds
<1>2. CASE Store!UpdateAccount(r, a)
  <2>1. served \in 0 .. MaxServed /\ served < MaxServed /\ MaxServed \in Nat
    BY <1>2 DEF Store!UpdateAccount, Store!Load, Store!Request, CredentialInv, Store!TypeOK,
                Store!CredentialParameters
  <2>2. WriteFits([key |-> served + 1]) /\ "connected" \notin DOMAIN [key |-> served + 1]
    BY <2>1 DEF WriteFits
  <2> QED BY <1>1, <1>2, <2>2, RequestLoads DEF Store!UpdateAccount
<1>3. CASE Store!AskExchange(r, "test", a) \/ Store!AskExchange(r, "balance", a)
  <2>1. WriteFits(<<>>) /\ "connected" \notin DOMAIN <<>>
    BY DEF WriteFits
  <2> QED BY <1>1, <1>3, <2>1, RequestLoads DEF Store!AskExchange
<1> QED BY <1>2, <1>3

(* What becomes of a request on an account.                                 *)
LEMMA AnswersKeep ==
  ASSUME CredentialInv, NEW r \in Requests,
         Store!WriteAccount(r) \/ Store!Reached(r) \/ Store!NotReached(r)
  PROVE  CredentialInv'
<1> DEFINE q == req[r]
<1>1. /\ RequestFits(q, accepted) /\ q.id \in Accounts
      /\ served \in 0 .. MaxServed /\ accepted \in [Accounts -> SUBSET (0 .. MaxServed)]
  BY DEF CredentialInv, Store!TypeOK, Store!WriteAccount, Store!Reached, Store!NotReached,
         Store!At, RequestFits
<1>2. UNCHANGED <<row, asked, cached, served>>
  BY DEF Store!WriteAccount, Store!Reached, Store!NotReached
<1>3. \A step, write : [q EXCEPT !.step = step, !.write = write] =
                       [step |-> step, kind |-> q.kind, id |-> q.id, loaded |-> q.loaded,
                        write |-> write]
  <2> TAKE step, write
  <2>1. PICK s, k, i, l, w : q = [step |-> s, kind |-> k, id |-> i, loaded |-> l, write |-> w]
    BY <1>1 DEF RequestFits
  <2> HIDE DEF q
  <2>2. q.kind = k /\ q.id = i /\ q.loaded = l
    BY <2>1
  <2>3. DOMAIN q = {"step", "kind", "id", "loaded", "write"}
    BY <2>1
  <2>4. [q EXCEPT !.step = step, !.write = write]
        = [f \in {"step", "kind", "id", "loaded", "write"} |->
              IF f = "write" THEN write ELSE IF f = "step" THEN step ELSE q[f]]
    BY <2>3
  <2> QED BY <2>2, <2>4
<1>4. CASE Store!WriteAccount(r)
  <2> DEFINE n == [step |-> "written", kind |-> q.kind, id |-> q.id, loaded |-> q.loaded,
                   write |-> q.write]
  <2>1. req' = [req EXCEPT ![r] = [q EXCEPT !.step = "written", !.write = q.write]]
    BY <1>4 DEF Store!WriteAccount, Store!Flush
  <2>2. req' = [req EXCEPT ![r] = n]
    BY <1>3, <2>1
  <2>3. UNCHANGED accepted /\ RequestFits(n, accepted)
    BY <1>1, <1>4 DEF Store!WriteAccount, Store!At, RequestFits
  <2> HIDE DEF n, q
  <2> QED BY <1>1, <1>2, <2>2, <2>3, OneRequestWaits
<1>5. CASE Store!Reached(r)
  <2> DEFINE w == IF q.loaded.connected THEN <<>> ELSE [connected |-> TRUE]
             n == [step |-> "written", kind |-> q.kind, id |-> q.id, loaded |-> q.loaded,
                   write |-> w]
  <2>1. /\ req' = [req EXCEPT ![r] = [q EXCEPT !.step = "written", !.write = w]]
        /\ accepted' = [accepted EXCEPT ![q.id] = @ \cup {q.loaded.key}]
    BY <1>5 DEF Store!Reached, Store!Flush
  <2>2. req' = [req EXCEPT ![r] = n]
    BY <1>3, <2>1
  <2>3. q.loaded \in Store!AccountRow /\ q.loaded.key \in 0 .. MaxServed
    BY <1>1, <1>5 DEF Store!Reached, Store!At, RequestFits, Store!AccountRow
  <2>4. /\ accepted' \in [Accounts -> SUBSET (0 .. MaxServed)]
        /\ \A a \in Accounts : accepted[a] \subseteq accepted'[a]
        /\ q.loaded.key \in accepted'[q.id]
    BY <1>1, <2>1, <2>3
  <2>5. WriteFits(w)
    BY DEF WriteFits
  <2> HIDE DEF w
  <2>6. RequestFits(n, accepted')
    BY <1>1, <1>5, <2>3, <2>4, <2>5 DEF RequestFits, Store!Reached, Store!At
  <2> HIDE DEF n, q
  <2> QED BY <1>1, <1>2, <2>2, <2>4, <2>6, OneRequestWaits
<1>6. CASE Store!NotReached(r)
  <2> DEFINE w == [connected |-> FALSE]
             n == [step |-> "raised", kind |-> q.kind, id |-> q.id, loaded |-> q.loaded,
                   write |-> w]
  <2>1. req' = [req EXCEPT ![r] = [q EXCEPT !.step = "raised", !.write = w]] /\ UNCHANGED accepted
    BY <1>6 DEF Store!NotReached, Store!Flush
  <2>2. req' = [req EXCEPT ![r] = n]
    BY <1>3, <2>1
  <2>3. WriteFits(w) /\ "connected" \in DOMAIN w /\ ~w.connected
    BY DEF WriteFits
  <2> HIDE DEF w
  <2>4. RequestFits(n, accepted)
    BY <1>1, <1>6, <2>3 DEF RequestFits, Store!NotReached, Store!At
  <2> HIDE DEF n, q
  <2> QED BY <1>1, <1>2, <2>1, <2>2, <2>4, OneRequestWaits
<1> QED BY <1>4, <1>5, <1>6

LEMMA CacheKeeps ==
  ASSUME CredentialInv,
         \/ \E r \in Requests : Store!CacheBalance(r)
         \/ \E a \in Accounts : Store!CacheExpires(a)
  PROVE  CredentialInv'
<1>1. /\ served \in 0 .. MaxServed /\ accepted \in [Accounts -> SUBSET (0 .. MaxServed)]
      /\ cached \in [Accounts -> (0 .. MaxServed) \cup {None}]
      /\ \A a \in Accounts : cached[a] \in accepted[a] \cup {None}
      /\ req = [r \in Requests |-> req[r]] /\ \A r \in Requests : RequestFits(req[r], accepted)
  BY DEF CredentialInv, Store!TypeOK, Store!SettingsKept, Store!ShownIsAnswered
<1>2. UNCHANGED <<row, req, served, accepted, asked>>
  BY DEF Store!CacheBalance, Store!CacheExpires
<1>3. \E a \in Accounts : \E v \in accepted[a] \cup {None} : cached' = [cached EXCEPT ![a] = v]
  <2>1. ASSUME NEW r \in Requests, Store!CacheBalance(r)
        PROVE  /\ req[r].id \in Accounts /\ req[r].loaded.key \in accepted[req[r].id]
               /\ cached' = [cached EXCEPT ![req[r].id] = req[r].loaded.key]
    BY <1>1, <2>1 DEF Store!CacheBalance, Store!At, RequestFits
  <2> QED BY <2>1 DEF Store!CacheExpires
<1>4. /\ cached' \in [Accounts -> (0 .. MaxServed) \cup {None}]
      /\ \A b \in Accounts : cached'[b] \in accepted[b] \cup {None}
  BY <1>1, <1>3
<1> QED BY <1>1, <1>2, <1>4, RowsRest

(* Requests on AI providers.                                                *)

LEMMA PresetsAreAList ==
  ASSUME Store!CredentialParameters
  PROVE  Store!SetToSeq(Presets) \in Seq(Models) /\ Store!IsInjective(Store!SetToSeq(Presets))
<1> DEFINE n == Cardinality(Presets)
<1>1. /\ IsFiniteSet(Presets) /\ Presets \subseteq Models
      /\ Store!SetToSeq(Presets) = CHOOSE f \in [1 .. n -> Presets] : Store!IsInjective(f)
  BY DEF Store!CredentialParameters, Store!IsFiniteSet, IsFiniteSet, Store!SetToSeq,
         Store!Cardinality, Cardinality
<1>2. n \in Nat /\ ExistsBijection(1 .. n, Presets)
  BY <1>1, FS_CardinalityType
<1> HIDE DEF n
<1>3. \E f \in [1 .. n -> Presets] : Store!IsInjective(f)
  BY <1>2 DEF ExistsBijection, Bijection, Injection, IsInjective, Store!IsInjective
<1>4. Store!SetToSeq(Presets) \in [1 .. n -> Presets] /\ Store!IsInjective(Store!SetToSeq(Presets))
  BY <1>1, <1>3
<1>5. Store!SetToSeq(Presets) \in Seq(Presets)
  BY <1>2, <1>4, SeqDef
<1> QED BY <1>1, <1>4, <1>5

\* The lists that requests write.
LEMMA AppendedOnce ==
  ASSUME NEW list \in Seq(Models), Store!IsInjective(list), NEW m \in Models,
         m \notin Store!ToSet(list)
  PROVE  Append(list, m) \in Seq(Models) /\ Store!IsInjective(Append(list, m))
<1>1. /\ Len(list) \in Nat /\ DOMAIN list = 1 .. Len(list)
      /\ DOMAIN Append(list, m) = 1 .. (Len(list) + 1)
      /\ Append(list, m)[Len(list) + 1] = m
      /\ \A j \in 1 .. Len(list) : Append(list, m)[j] = list[j]
  OBVIOUS
<1> QED BY <1>1 DEF Store!IsInjective, Store!ToSet

LEMMA RemovedOnce ==
  ASSUME NEW list \in Seq(Models), Store!IsInjective(list), NEW S
  PROVE  Store!Kept(list, S) \in Seq(Models) /\ Store!IsInjective(Store!Kept(list, S))
<1> DEFINE rest == Kept(list, S)
<1>1. Store!Kept(list, S) = rest
  BY DEF Store!Kept, Kept
<1>2. /\ rest \in Seq(Models \cap S)
      /\ \A j, k \in DOMAIN rest : rest[j] = rest[k] => j = k
  BY KeptIs DEF Store!IsInjective
<1> HIDE DEF rest
<1>3. rest \in Seq(Models)
  BY <1>2
<1> QED BY <1>1, <1>2, <1>3 DEF Store!IsInjective

LEMMA ProvidersKeep ==
  ASSUME Store!CredentialParameters, CredentialInv, NEW r \in Requests, NEW p \in Providers,
         \/ Store!UpdateProvider(r, p)
         \/ \E list \in Store!Lists : Store!ReplaceModels(r, p, list)
         \/ \E m \in Models : Store!AddModel(r, p, m) \/ Store!RemoveModel(r, p, m)
  PROVE  CredentialInv'
<1>1. /\ p \in Store!Ids /\ p \notin Accounts
      /\ {"update", "replace", "add", "remove"} \subseteq Store!Kinds
  BY DEF Store!Ids, Store!Kinds, Store!CredentialParameters
<1>2. CASE Store!UpdateProvider(r, p)
  <2>1. PICK write \in {[key |-> served + 1], [enabled |-> TRUE], [enabled |-> FALSE]} :
           Store!Load(r, "update", p, "changed", write)
    BY <1>2 DEF Store!UpdateProvider
  <2>2. served + 1 \in 0 .. MaxServed
    BY <2>1 DEF Store!Load, Store!Request, CredentialInv, Store!TypeOK, Store!CredentialParameters
  <2>3. WriteFits(write)
    <3>1. WriteFits([key |-> served + 1])
      BY <2>2 DEF WriteFits
    <3>2. WriteFits([enabled |-> TRUE]) /\ WriteFits([enabled |-> FALSE])
      BY DEF WriteFits
    <3> QED BY <3>1, <3>2
  <2> QED BY <1>1, <2>1, <2>3, RequestLoads
<1>3. ASSUME NEW list \in Seq(Models), Store!IsInjective(list), NEW kind \in Store!Kinds,
             kind # "balance", Store!Load(r, kind, p, "changed", [models |-> list])
      PROVE  CredentialInv'
  <2>1. WriteFits([models |-> list])
    BY <1>3 DEF WriteFits
  <2> QED BY <1>1, <1>3, <2>1, RequestLoads
<1>4. ASSUME NEW list \in Store!Lists, Store!ReplaceModels(r, p, list) PROVE CredentialInv'
  <2>1. list \in Seq(Models) /\ Store!IsInjective(list)
    <3>1. CASE list = <<>>
      BY <3>1 DEF Store!IsInjective
    <3>2. ASSUME NEW m \in Models, list = <<m>>
          PROVE  list \in Seq(Models) /\ Store!IsInjective(list)
      BY <3>2 DEF Store!IsInjective
    <3> QED BY <3>1, <3>2 DEF Store!Lists
  <2> QED BY <1>1, <1>3, <1>4, <2>1 DEF Store!ReplaceModels
<1>5. ASSUME row[p] # None
      PROVE  row[p].models \in Seq(Models) /\ Store!IsInjective(row[p].models)
  BY <1>5 DEF CredentialInv, Store!TypeOK, Store!SettingsKept, Store!ModelsOnce, Store!ProviderRow
<1>6. ASSUME NEW m \in Models, Store!AddModel(r, p, m) PROVE CredentialInv'
  BY <1>1, <1>3, <1>5, <1>6, AppendedOnce DEF Store!AddModel, Store!MayAdd
<1>7. ASSUME NEW m \in Models, Store!RemoveModel(r, p, m) PROVE CredentialInv'
  BY <1>1, <1>3, <1>5, <1>7, RemovedOnce DEF Store!RemoveModel
<1> QED BY <1>2, <1>4, <1>6, <1>7

(* What a commit makes of a row, which is what was asked for.               *)
LEMMA CommitWrites ==
  ASSUME CredentialInv, NEW r \in Requests, Store!Commit(r), row[req[r].id] # None
  PROVE  /\ req[r].id \in Store!Ids /\ req[r].step # "idle"
         /\ row' = [row EXCEPT ![req[r].id] =
                       [c \in DOMAIN row[req[r].id] |->
                           IF c \in DOMAIN req[r].write THEN req[r].write[c] ELSE row[req[r].id][c]]]
         /\ asked' = row'
<1>1. RequestFits(req[r], accepted) /\ row = asked
  BY DEF CredentialInv, Store!SettingsKept, Store!ColumnsKept
<1>2. req[r].step # "idle" /\ req[r].id \in Store!Ids
  BY <1>1 DEF Store!Commit, Store!At, RequestFits
<1> QED BY <1>1, <1>2 DEF Store!Commit, Store!Updated

LEMMA CommitKeepsAccount ==
  ASSUME CredentialInv, NEW q, RequestFits(q, accepted), q.step # "idle", q.id \in Accounts,
         NEW new, new = [c \in DOMAIN row[q.id] |-> IF c \in DOMAIN q.write THEN q.write[c]
                                                  ELSE row[q.id][c]]
  PROVE  new \in Store!AccountRow /\ (new.connected => accepted[q.id] # {})
<1>1. /\ row[q.id] \in Store!AccountRow /\ WriteFits(q.write)
      /\ row[q.id].connected => accepted[q.id] # {}
      /\ "connected" \in DOMAIN q.write /\ q.write.connected => accepted[q.id] # {}
  BY DEF CredentialInv, RequestFits, Store!TypeOK, Store!SettingsKept, Store!ShownIsAnswered
<1>2. DOMAIN row[q.id] = {"key", "connected"}
  BY <1>1 DEF Store!AccountRow
<1>3. /\ new = [key |-> new.key, connected |-> new.connected]
      /\ new.key = IF "key" \in DOMAIN q.write THEN q.write.key ELSE row[q.id].key
      /\ new.connected = IF "connected" \in DOMAIN q.write THEN q.write.connected
                         ELSE row[q.id].connected
  BY <1>2
<1>4. new.key \in 0 .. MaxServed /\ new.connected \in BOOLEAN
  BY <1>1, <1>3 DEF Store!AccountRow, WriteFits
<1>5. new \in Store!AccountRow
  BY <1>3, <1>4 DEF Store!AccountRow
<1> QED BY <1>1, <1>3, <1>5

LEMMA CommitKeepsProvider ==
  ASSUME CredentialInv, NEW q, RequestFits(q, accepted), q.step # "idle", q.id \in Providers,
         row[q.id] # None,
         NEW new, new = [c \in DOMAIN row[q.id] |-> IF c \in DOMAIN q.write THEN q.write[c]
                                                  ELSE row[q.id][c]]
  PROVE  new \in Store!ProviderRow /\ Store!IsInjective(new.models)
<1>1. /\ row[q.id] \in Store!ProviderRow /\ WriteFits(q.write)
      /\ Store!IsInjective(row[q.id].models)
  BY DEF CredentialInv, RequestFits, Store!TypeOK, Store!SettingsKept, Store!ModelsOnce
<1>2. DOMAIN row[q.id] = {"key", "enabled", "models"}
  BY <1>1 DEF Store!ProviderRow
<1>3. /\ new = [key |-> new.key, enabled |-> new.enabled, models |-> new.models]
      /\ new.key = IF "key" \in DOMAIN q.write THEN q.write.key ELSE row[q.id].key
      /\ new.enabled = IF "enabled" \in DOMAIN q.write THEN q.write.enabled
                       ELSE row[q.id].enabled
      /\ new.models = IF "models" \in DOMAIN q.write THEN q.write.models ELSE row[q.id].models
  BY <1>2
<1>4. /\ new.key \in 0 .. MaxServed /\ new.enabled \in BOOLEAN /\ new.models \in Seq(Models)
      /\ Store!IsInjective(new.models)
  BY <1>1, <1>3, SMTT(60) DEF Store!ProviderRow, WriteFits
<1>5. new \in Store!ProviderRow
  BY <1>3, <1>4 DEF Store!ProviderRow
<1> QED BY <1>4, <1>5

(* One row changes, as it was asked to.                                     *)
LEMMA OneRowChanges ==
  ASSUME CredentialInv, NEW id \in Store!Ids, NEW new, row' = [row EXCEPT ![id] = new],
         asked' = row', UNCHANGED <<cached, accepted>>, served' \in 0 .. MaxServed,
         id \in Accounts => new \in Store!AccountRow /\ (new.connected => accepted[id] # {}),
         id \in Providers /\ new # None =>
            new \in Store!ProviderRow /\ Store!IsInjective(new.models),
         req' = [x \in Requests |-> req'[x]],
         \A x \in Requests : RequestFits(req'[x], accepted)
  PROVE  CredentialInv'
<1>1. /\ row'[id] = new /\ \A i \in Store!Ids \ {id} : row'[i] = row[i]
      /\ DOMAIN row' = Store!Ids /\ row' = [i \in Store!Ids |-> row'[i]]
  BY DEF CredentialInv
<1>2. /\ \A a \in Accounts : row'[a] \in Store!AccountRow /\ (row'[a].connected => accepted[a] # {})
      /\ \A p \in Providers : row'[p] # None =>
            row'[p] \in Store!ProviderRow /\ Store!IsInjective(row'[p].models)
  <2>1. ASSUME NEW a \in Accounts
        PROVE  row'[a] \in Store!AccountRow /\ (row'[a].connected => accepted[a] # {})
    BY <1>1 DEF CredentialInv, Store!TypeOK, Store!SettingsKept, Store!ShownIsAnswered, Store!Ids
  <2>2. ASSUME NEW p \in Providers
        PROVE  row'[p] # None => row'[p] \in Store!ProviderRow /\ Store!IsInjective(row'[p].models)
    <3>1. CASE p = id
      BY <1>1, <3>1
    <3>2. CASE p # id
      <4>1. row'[p] = row[p]
        BY <1>1, <3>2 DEF Store!Ids
      <4>2. row[p] # None => row[p] \in Store!ProviderRow /\ Store!IsInjective(row[p].models)
        BY DEF CredentialInv, Store!TypeOK, Store!SettingsKept, Store!ModelsOnce
      <4> QED BY <4>1, <4>2
    <3> QED BY <3>1, <3>2
  <2> QED BY <2>1, <2>2
<1>3. Store!TypeOK'
  BY <1>2 DEF CredentialInv, Store!TypeOK, RequestFits
<1>4. Store!SettingsKept'
  BY <1>2 DEF CredentialInv, Store!SettingsKept, Store!ColumnsKept, Store!ShownIsAnswered,
              Store!ModelsOnce
<1> QED BY <1>1, <1>3, <1>4 DEF CredentialInv

LEMMA TransactionsEnd ==
  ASSUME Store!CredentialParameters, CredentialInv, NEW r \in Requests,
         Store!Commit(r) \/ Store!Rollback(r)
  PROVE  CredentialInv'
<1>1. /\ req' = [x \in Requests |-> req'[x]] /\ \A x \in Requests : req'[x] \in {req[x], Store!Idle}
      /\ UNCHANGED <<cached, served, accepted>>
  BY DEF CredentialInv, Store!Commit, Store!Rollback, Store!Ended
<1>2. \A x \in Requests : RequestFits(req[x], accepted)
  BY DEF CredentialInv
<1>3. RequestFits(Store!Idle, accepted)
  BY DEF RequestFits, Store!Idle
<1>4. /\ served \in 0 .. MaxServed /\ accepted \in [Accounts -> SUBSET (0 .. MaxServed)]
      /\ cached \in [Accounts -> (0 .. MaxServed) \cup {None}]
      /\ \A a \in Accounts : cached[a] \in accepted[a] \cup {None}
  BY DEF CredentialInv, Store!TypeOK, Store!SettingsKept, Store!ShownIsAnswered
<1>5. \A x \in Requests : RequestFits(req'[x], accepted)
  BY <1>1, <1>2, <1>3
<1>6. CASE UNCHANGED <<row, asked>>
  BY <1>1, <1>4, <1>5, <1>6, RowsRest
<1>7. CASE Store!Commit(r) /\ row[req[r].id] # None
  <2> DEFINE q == req[r]
             new == [c \in DOMAIN row[q.id] |-> IF c \in DOMAIN q.write THEN q.write[c]
                                              ELSE row[q.id][c]]
  <2>1. q.id \in Store!Ids /\ q.step # "idle" /\ row' = [row EXCEPT ![q.id] = new] /\ asked' = row'
    BY <1>7, CommitWrites
  <2>2. RequestFits(q, accepted)
    BY <1>2
  <2>3. new = [c \in DOMAIN row[q.id] |-> IF c \in DOMAIN q.write THEN q.write[c]
                                        ELSE row[q.id][c]]
    OBVIOUS
  <2>4. row[q.id] # None
    BY <1>7
  <2> HIDE DEF q, new
  <2>5. q.id \in Accounts => new \in Store!AccountRow /\ (new.connected => accepted[q.id] # {})
    BY <2>1, <2>2, <2>3, CommitKeepsAccount
  <2>6. q.id \in Providers => new \in Store!ProviderRow /\ Store!IsInjective(new.models)
    BY <2>1, <2>2, <2>3, <2>4, CommitKeepsProvider
  <2>7. served' \in 0 .. MaxServed
    BY <1>1, <1>4
  <2> QED BY <1>1, <1>5, <2>1, <2>5, <2>6, <2>7, OneRowChanges
<1> QED BY <1>6, <1>7 DEF Store!Commit, Store!Rollback

LEMMA ProvidersComeAndGo ==
  ASSUME Store!CredentialParameters, CredentialInv, NEW p \in Providers,
         Store!CreateProvider(p) \/ Store!DeleteProvider(p)
  PROVE  CredentialInv'
<1>1. p \in Store!Ids /\ p \notin Accounts /\ row = asked
  BY DEF Store!Ids, Store!CredentialParameters, CredentialInv, Store!SettingsKept,
         Store!ColumnsKept
<1>2. /\ UNCHANGED <<cached, req, accepted>> /\ served' = served + 1
      /\ served + 1 \in 0 .. MaxServed
  BY DEF Store!CreateProvider, Store!DeleteProvider, Store!Request, CredentialInv,
         Store!TypeOK, Store!CredentialParameters
<1>3. /\ req' = [x \in Requests |-> req'[x]]
      /\ \A x \in Requests : RequestFits(req'[x], accepted)
  BY <1>2 DEF CredentialInv
<1>4. CASE Store!CreateProvider(p)
  <2> DEFINE new == [key |-> served + 1, enabled |-> TRUE, models |-> Store!SetToSeq(Presets)]
  <2>1. new \in Store!ProviderRow /\ Store!IsInjective(new.models)
    BY <1>2, PresetsAreAList DEF Store!ProviderRow
  <2>2. /\ row' = [row EXCEPT ![p] = new] /\ asked' = [asked EXCEPT ![p] = row'[p]]
    BY <1>4 DEF Store!CreateProvider
  <2> HIDE DEF new
  <2>3. asked' = row'
    BY <1>1, <2>2 DEF CredentialInv
  <2> QED BY <1>1, <1>2, <1>3, <2>1, <2>2, <2>3, OneRowChanges
<1>5. CASE Store!DeleteProvider(p)
  <2>1. row' = [row EXCEPT ![p] = None] /\ asked' = row'
    BY <1>1, <1>5 DEF Store!DeleteProvider
  <2> QED BY <1>1, <1>2, <1>3, <2>1, OneRowChanges
<1> QED BY <1>4, <1>5

LEMMA CredentialNext ==
  ASSUME Store!CredentialParameters, CredentialInv, [Store!Next]_credentialVars
  PROVE  CredentialInv'
<1>1. CASE Store!Next
  BY <1>1, AccountsKeep, AnswersKeep, CacheKeeps, ProvidersKeep, TransactionsEnd, ProvidersComeAndGo
  DEF Store!Next
<1>2. CASE UNCHANGED credentialVars
  BY <1>2 DEF credentialVars, CredentialInv, Store!TypeOK, Store!SettingsKept, Store!ColumnsKept,
              Store!ShownIsAnswered, Store!ModelsOnce
<1> QED BY <1>1, <1>2

-----------------------------------------------------------------------------
(* QuantWorkers: the row of a quant agent counts every order that is not    *)
(* lost for good, and none twice.                                           *)

IsWorker(w) == w \in Runners!AnyWorker

CountedBy(i) == IF worker[i] = None THEN 0 ELSE worker[i].counted

RunnerShape ==
    /\ known \in [state : Nat, trades : Nat] /\ placed \in Nat /\ lost \in Nat /\ phantom \in Nat
    /\ lockLeft \in Nat
    /\ DOMAIN worker = Instances /\ worker = [i \in Instances |-> worker[i]]
    /\ \A i \in Instances : worker[i] # None => IsWorker(worker[i])
    /\ manual # None => manual \in [loaded : Nat, placed : Nat]
    /\ byHand \in BOOLEAN

(* A cycle under way holds the execution lock, which lives at least as long *)
(* as the cycle may; one that waits for its next cycle has age 0.           *)
LockOutlivesCycle ==
    \A i \in Instances :
        /\ Runners!Busy(i) => lockLeft >= 1 /\ lockLeft + worker[i].age >= CycleTimeout
        /\ Runners!In(i, {"idle"}) => worker[i].age = 0

OneCycle == \A i, j \in Instances : Runners!Busy(i) /\ Runners!Busy(j) => i = j

(* No state claims more than was done: neither the row's, nor that of a     *)
(* cycle, which adds its own to what it loaded.                             *)
ClaimsAreDone ==
    /\ known.state <= placed + phantom
    /\ \A i \in Instances :
          /\ Runners!In(i, {"cycle"}) => worker[i].loaded.state + worker[i].counted <= placed + phantom
          /\ worker[i] # None /\ ~Runners!In(i, {"cycle"}) => worker[i].counted = 0
    /\ manual # None => manual.loaded + manual.placed <= placed + phantom /\ byHand

(* What was done is in the row's trades, in those of the cycle under way,   *)
(* which loaded the row as it is, or lost.                                  *)
TradesAddUp ==
    /\ \A i \in Instances :
          Runners!In(i, {"cycle"}) =>
              /\ worker[i].loaded.trades = known.trades
              /\ placed + phantom = known.trades + lost + worker[i].counted
    /\ (\A i \in Instances : ~Runners!In(i, {"cycle"})) => placed + phantom = known.trades + lost

(* Without a cycle run by hand the state knows what the counters know.      *)
StateKeepsUp ==
    ~byHand =>
        /\ known.state = known.trades
        /\ \A i \in Instances :
              Runners!In(i, {"cycle"}) => worker[i].loaded.state = worker[i].loaded.trades

RunnerInv == RunnerShape /\ LockOutlivesCycle /\ OneCycle /\ ClaimsAreDone /\ TradesAddUp /\ StateKeepsUp

LEMMA RunnerSuffices ==
  ASSUME Runners!QuantWorkerParameters, RunnerInv PROVE Runners!RowKnowsOrders
<1>1. ASSUME NEW i \in Instances, CountedBy(i) > 0
      PROVE  /\ placed + phantom = known.trades + lost + CountedBy(i)
             /\ worker[i].loaded.trades = known.trades
  <2>1. worker[i] # None /\ Runners!In(i, {"cycle"})
    BY <1>1 DEF RunnerInv, ClaimsAreDone, RunnerShape, CountedBy
  <2> QED BY <2>1 DEF RunnerInv, TradesAddUp, CountedBy
<1>2. ASSUME \A i \in Instances : CountedBy(i) = 0
      PROVE  placed + phantom = known.trades + lost
  <2>1. CASE \E i \in Instances : Runners!In(i, {"cycle"})
    <3>1. PICK i \in Instances : Runners!In(i, {"cycle"})
      BY <2>1
    <3>2. worker[i].counted = 0
      BY <1>2, <3>1 DEF CountedBy, Runners!In
    <3> QED BY <3>1, <3>2 DEF RunnerInv, TradesAddUp, RunnerShape
  <2>2. CASE \A i \in Instances : ~Runners!In(i, {"cycle"})
    BY <2>2 DEF RunnerInv, TradesAddUp
  <2> QED BY <2>1, <2>2
<1>3. IF byHand THEN known.state <= placed + phantom ELSE known.state = known.trades
  BY DEF RunnerInv, ClaimsAreDone, StateKeepsUp
<1> QED BY <1>1, <1>2, <1>3 DEF Runners!RowKnowsOrders, CountedBy

LEMMA RunnerInitHolds ==
  ASSUME Runners!QuantWorkerParameters, Runners!Init PROVE RunnerInv
<1>1. RunnerShape
  BY DEF Runners!QuantWorkerParameters, Runners!Init, RunnerShape, Runners!Nothing
<1>2. LockOutlivesCycle /\ OneCycle
  BY DEF Runners!Init, LockOutlivesCycle, OneCycle, Runners!In, Runners!Busy
<1>3. ClaimsAreDone /\ TradesAddUp /\ StateKeepsUp
  BY DEF Runners!Init, ClaimsAreDone, TradesAddUp, StateKeepsUp, Runners!In, Runners!Nothing
<1> QED BY <1>1, <1>2, <1>3 DEF RunnerInv

-----------------------------------------------------------------------------
(* Steps that leave worker, row and orders alone.                           *)
LEMMA OthersKeep ==
  ASSUME RunnerInv, UNCHANGED <<known, placed, lockLeft, worker, manual, lost, phantom, byHand>>
  PROVE  RunnerInv'
<1>1. RunnerShape'
  BY DEF RunnerInv, RunnerShape
<1>2. LockOutlivesCycle' /\ OneCycle'
  BY DEF RunnerInv, LockOutlivesCycle, OneCycle, Runners!In, Runners!Busy
<1>3. ClaimsAreDone' /\ TradesAddUp' /\ StateKeepsUp'
  BY DEF RunnerInv, ClaimsAreDone, TradesAddUp, StateKeepsUp, Runners!In
<1> QED BY <1>1, <1>2, <1>3 DEF RunnerInv

(* What is left of a worker when its cycle is over.                         *)
Rested(w) == IsWorker(w) /\ w.counted = 0 /\ w.age = 0

(* A worker ends its cycle without a record, ends altogether, or begins:    *)
(* what it had counted is lost; if it was in its cycle, the lock it deletes *)
(* is its own.                                                              *)
LEMMA LeaveKeeps ==
  ASSUME Runners!QuantWorkerParameters, RunnerInv, NEW i \in Instances, NEW w,
         w = None \/ (Rested(w) /\ w.loop \in {"idle", "dead"}),
         worker' = [worker EXCEPT ![i] = w],
         lockLeft' = lockLeft \/ (lockLeft' = 0 /\ Runners!Busy(i)),
         lost' = lost + CountedBy(i),
         UNCHANGED <<known, placed, manual, phantom, byHand>>
  PROVE  RunnerInv'
<1>1. /\ worker'[i] = w /\ \A j \in Instances \ {i} : worker'[j] = worker[j]
      /\ DOMAIN worker' = Instances /\ worker' = [j \in Instances |-> worker'[j]]
  BY DEF RunnerInv, RunnerShape
<1>2. RunnerShape'
  <2>1. CountedBy(i) \in Nat
    BY DEF RunnerInv, RunnerShape, IsWorker, Runners!AnyWorker, CountedBy
  <2> QED BY <1>1, <2>1 DEF RunnerInv, RunnerShape, Rested
<1>3. ~Runners!Busy(i)' /\ ~Runners!In(i, {"cycle"})'
  BY <1>1 DEF Runners!Busy, Runners!In
<1>4. \A j \in Instances \ {i} : /\ Runners!Busy(j)' <=> Runners!Busy(j)
                                 /\ Runners!In(j, {"cycle"})' <=> Runners!In(j, {"cycle"})
                                 /\ Runners!In(j, {"idle"})' <=> Runners!In(j, {"idle"})
  BY <1>1 DEF Runners!Busy, Runners!In
<1>5. OneCycle'
  BY <1>3, <1>4 DEF RunnerInv, OneCycle
<1>6. LockOutlivesCycle'
  BY <1>1, <1>3, <1>4 DEF RunnerInv, LockOutlivesCycle, OneCycle, Runners!In, Rested
<1>7. ClaimsAreDone' /\ StateKeepsUp'
  BY <1>1, <1>3, <1>4 DEF RunnerInv, ClaimsAreDone, StateKeepsUp, Rested
<1>8. TradesAddUp'
  <2>1. CASE Runners!In(i, {"cycle"})
    <3>1. /\ worker[i] # None /\ CountedBy(i) = worker[i].counted /\ worker[i].counted \in Nat
          /\ placed + phantom = known.trades + lost + worker[i].counted
      BY <2>1 DEF Runners!In, RunnerInv, RunnerShape, IsWorker, Runners!AnyWorker, CountedBy, TradesAddUp
    <3>2. \A j \in Instances : ~Runners!In(j, {"cycle"})'
      BY <1>3, <1>4, <2>1 DEF RunnerInv, OneCycle, Runners!Busy, Runners!In
    <3>3. known \in [state : Nat, trades : Nat] /\ lost \in Nat
      BY DEF RunnerInv, RunnerShape
    <3>4. placed' + phantom' = known'.trades + lost'
      BY <3>1, <3>3
    <3> QED BY <3>2, <3>4 DEF TradesAddUp
  <2>2. CASE ~Runners!In(i, {"cycle"})
    <3>1. CountedBy(i) = 0 /\ lost \in Nat
      BY <2>2 DEF RunnerInv, ClaimsAreDone, RunnerShape, CountedBy
    <3>2. lost' = lost
      BY <3>1
    <3> QED BY <1>1, <1>3, <1>4, <2>2, <3>2 DEF RunnerInv, TradesAddUp
  <2> QED BY <2>1, <2>2
<1> QED BY <1>2, <1>5, <1>6, <1>7, <1>8 DEF RunnerInv

-----------------------------------------------------------------------------
(* Starts, stops and failures.                                              *)

LEMMA NewWorkerRests ==
  ASSUME Runners!QuantWorkerParameters
  PROVE  Rested(Runners!Worker) /\ Runners!Worker.loop = "idle"
<1>1. CycleTimeout \in Nat
  BY DEF Runners!QuantWorkerParameters
<1> QED BY <1>1 DEF Rested, IsWorker, Runners!AnyWorker, Runners!Worker, Runners!Nothing, Runners!Loops

LEMMA WorkerWith ==
  ASSUME NEW w, IsWorker(w), NEW loop \in Runners!Loops, NEW age \in 0 .. CycleTimeout,
         NEW loaded \in [state : Nat, trades : Nat], NEW p \in Nat, NEW errors \in Seq(Nat)
  PROVE  IsWorker([w EXCEPT !.loop = loop, !.age = age, !.counted = p, !.loaded = loaded, !.errors = errors])
BY DEF IsWorker, Runners!AnyWorker

LEMMA SucceededRests ==
  ASSUME Runners!QuantWorkerParameters, NEW w, IsWorker(w)
  PROVE  Rested(Runners!Succeeded(w)) /\ Runners!Succeeded(w).loop = "idle"
<1>1. CycleTimeout \in Nat
  BY DEF Runners!QuantWorkerParameters
<1>2. /\ DOMAIN Runners!Succeeded(w) = {"loop", "age", "loaded", "counted", "errors"}
      /\ Runners!Succeeded(w).age = 0 /\ Runners!Succeeded(w).counted = 0 /\ Runners!Succeeded(w).loaded = Runners!Nothing
      /\ Runners!Succeeded(w).loop = "idle"
  BY DEF IsWorker, Runners!AnyWorker, Runners!Succeeded
<1>3. 0 \in 0..CycleTimeout /\ Runners!Nothing \in [state : Nat, trades : Nat]
  BY <1>1 DEF Runners!Nothing
<1>4. IsWorker(Runners!Succeeded(w))
  <2>1. "idle" \in Runners!Loops /\ <<>> \in Seq(Nat)
    BY DEF Runners!Loops
  <2> QED BY <1>3, <2>1, WorkerWith DEF Runners!Succeeded
<1> QED BY <1>2, <1>4 DEF Rested

LEMMA RecentIsTyped ==
  ASSUME Runners!QuantWorkerParameters, NEW errors \in Seq(Nat)
  PROVE  Runners!Recent(errors) \in Seq(0 .. Window) /\ Runners!Recent(errors) \in Seq(Nat)
<1>1. Window \in Nat /\ Window >= 1
  BY DEF Runners!QuantWorkerParameters
<1> DEFINE kept == Kept(errors, 0 .. (Window - 1))
<1>2. kept \in Seq(Nat \cap (0 .. (Window - 1)))
  BY KeptIs
<1>3. /\ Nat \cap (0 .. (Window - 1)) \subseteq 0 .. Window
      /\ Nat \cap (0 .. (Window - 1)) \subseteq Nat
  BY <1>1
<1> HIDE DEF kept
<1>4. kept \in Seq(0 .. Window) /\ <<0>> \in Seq(0 .. Window)
  BY <1>1, <1>2, <1>3
<1>5. kept \in Seq(Nat) /\ <<0>> \in Seq(Nat)
  BY <1>2, <1>3
<1>6. kept \o <<0>> \in Seq(0 .. Window) /\ kept \o <<0>> \in Seq(Nat)
  BY <1>4, <1>5
<1> QED BY <1>6 DEF Runners!Recent, Runners!Kept, Kept, kept

LEMMA FailedRests ==
  ASSUME Runners!QuantWorkerParameters, NEW w, IsWorker(w), NEW loop \in Runners!Loops, NEW errors \in Seq(Nat)
  PROVE  LET over == [Runners!Succeeded(w) EXCEPT !.loop = loop, !.errors = errors]
         IN  Rested(over) /\ over.loop = loop
<1> DEFINE rested == Runners!Succeeded(w)
<1>1. IsWorker(rested) /\ rested.counted = 0 /\ rested.age = 0
  BY SucceededRests DEF Rested
<1> HIDE DEF rested
<1>2. LET over == [rested EXCEPT !.loop = loop, !.errors = errors]
      IN  IsWorker(over) /\ over.counted = 0 /\ over.age = 0 /\ over.loop = loop
  BY <1>1 DEF IsWorker, Runners!AnyWorker
<1> QED BY <1>2 DEF Rested, rested

LEMMA EndedRests ==
  ASSUME Runners!QuantWorkerParameters, NEW w, IsWorker(w), NEW loop \in Runners!Loops
  PROVE  LET over == [Runners!Succeeded(w) EXCEPT !.loop = loop]
         IN  Rested(over) /\ over.loop = loop
<1> DEFINE rested == Runners!Succeeded(w)
<1>1. IsWorker(rested) /\ rested.counted = 0 /\ rested.age = 0
  BY SucceededRests DEF Rested
<1> HIDE DEF rested
<1>2. LET over == [rested EXCEPT !.loop = loop]
      IN  IsWorker(over) /\ over.counted = 0 /\ over.age = 0 /\ over.loop = loop
  BY <1>1 DEF IsWorker, Runners!AnyWorker
<1> QED BY <1>2 DEF Rested, rested

LEMMA WorkerIs ==
  ASSUME RunnerInv, NEW i \in Instances, worker[i] # None
  PROVE  IsWorker(worker[i]) /\ CountedBy(i) = worker[i].counted
BY DEF RunnerInv, RunnerShape, CountedBy

LEMMA StartKeeps ==
  ASSUME Runners!QuantWorkerParameters, RunnerInv, NEW i \in Instances, Runners!StartAgent(i)
  PROVE  RunnerInv'
<1>1. /\ worker' = [worker EXCEPT ![i] = Runners!Worker]
      /\ worker[i] = None /\ UNCHANGED <<known, placed, manual, lockLeft, lost, phantom, byHand>>
  BY DEF Runners!StartAgent
<1>2. lost' = lost + CountedBy(i)
  BY <1>1 DEF CountedBy, RunnerInv, RunnerShape
<1> QED BY <1>1, <1>2, NewWorkerRests, LeaveKeeps

LEMMA StopKeeps ==
  ASSUME Runners!QuantWorkerParameters, RunnerInv, NEW i \in Instances, worker[i] # None, Runners!Stopped(i),
         UNCHANGED <<known, placed, manual, phantom, byHand>>
  PROVE  RunnerInv'
<1>1. worker' = [worker EXCEPT ![i] = None]
  BY DEF Runners!Stopped
<1>2. lockLeft' = lockLeft \/ (lockLeft' = 0 /\ Runners!Busy(i))
  BY DEF Runners!Stopped, Runners!Unlock
<1>3. lost' = lost + CountedBy(i)
  BY WorkerIs DEF Runners!Stopped, Runners!CutShort
<1> QED BY <1>1, <1>2, <1>3, LeaveKeeps

LEMMA CrashKeeps ==
  ASSUME Runners!QuantWorkerParameters, RunnerInv, NEW i \in Instances, Runners!Crash(i)
  PROVE  RunnerInv'
<1>1. worker' = [worker EXCEPT ![i] = None] /\ UNCHANGED <<known, placed, manual, lockLeft, phantom, byHand>>
  BY DEF Runners!Crash
<1>2. lost' = lost + CountedBy(i)
  BY WorkerIs DEF Runners!Crash, Runners!CutShort
<1> QED BY <1>1, <1>2, LeaveKeeps

LEMMA FailureKeeps ==
  ASSUME Runners!QuantWorkerParameters, RunnerInv, NEW i \in Instances,
         Runners!TimeOut(i) \/ Runners!CycleFails(i) \/ Runners!CycleFailsForGood(i)
  PROVE  RunnerInv'
<1>1. /\ Runners!Busy(i) /\ UNCHANGED <<known, placed, manual, phantom, byHand>>
      /\ Runners!Unlock(i) /\ Runners!CutShort(i)
  BY DEF Runners!TimeOut, Runners!CycleFails, Runners!CycleFailsForGood, Runners!Failed, Runners!Overdue, Runners!Busy, Runners!In
<1>2. worker[i] # None
  BY <1>1 DEF Runners!Busy, Runners!In
<1>3. IsWorker(worker[i])
  BY <1>2, WorkerIs
<1>4. PICK w : /\ worker' = [worker EXCEPT ![i] = w]
              /\ Rested(w) /\ w.loop \in {"idle", "dead"}
  <2>1. CASE Runners!Failed(i)
    <3> DEFINE window == Runners!Recent(worker[i].errors)
               loop == IF Len(window) >= MaxErrors THEN "dead" ELSE "idle"
               over == [Runners!Succeeded(worker[i]) EXCEPT !.loop = loop, !.errors = window]
    <3>1. worker' = [worker EXCEPT ![i] = over]
      BY <2>1 DEF Runners!Failed
    <3>2. loop \in Runners!Loops /\ loop \in {"idle", "dead"}
      BY DEF Runners!Loops
    <3>3. window \in Seq(Nat)
      BY <1>3, RecentIsTyped DEF IsWorker, Runners!AnyWorker
    <3> HIDE DEF loop, window
    <3>4. Rested(over) /\ over.loop = loop
      BY <1>3, <3>2, <3>3, FailedRests
    <3> HIDE DEF over
    <3> QED BY <3>1, <3>2, <3>4
  <2>2. CASE Runners!CycleFailsForGood(i)
    <3> DEFINE over == [Runners!Succeeded(worker[i]) EXCEPT !.loop = "dead"]
    <3>1. worker' = [worker EXCEPT ![i] = over]
      BY <2>2 DEF Runners!CycleFailsForGood
    <3>2. Rested(over) /\ over.loop = "dead"
      BY <1>3, EndedRests DEF Runners!Loops
    <3> HIDE DEF over
    <3> QED BY <3>1, <3>2
  <2> QED BY <2>1, <2>2 DEF Runners!TimeOut, Runners!CycleFails
<1>5. lockLeft' = lockLeft \/ (lockLeft' = 0 /\ Runners!Busy(i))
  BY <1>1 DEF Runners!Unlock
<1>6. lost' = lost + CountedBy(i)
  BY <1>1, <1>2, WorkerIs DEF Runners!CutShort
<1> QED BY <1>1, <1>4, <1>5, <1>6, LeaveKeeps

LEMMA SkipKeeps ==
  ASSUME Runners!QuantWorkerParameters, RunnerInv, NEW i \in Instances, Runners!Skip(i)
  PROVE  RunnerInv'
<1>1. /\ worker' = [worker EXCEPT ![i] = Runners!Succeeded(worker[i])]
      /\ worker[i] # None /\ worker[i].loop = "idle"
      /\ UNCHANGED <<known, placed, manual, lockLeft, lost, phantom, byHand>>
  BY DEF Runners!Skip, Runners!In
<1>3. CountedBy(i) = 0
  BY <1>1 DEF CountedBy, RunnerInv, ClaimsAreDone, Runners!In
<1>4. lost' = lost + CountedBy(i)
  BY <1>1, <1>3 DEF RunnerInv, RunnerShape
<1>5. Rested(Runners!Succeeded(worker[i])) /\ Runners!Succeeded(worker[i]).loop = "idle"
  BY <1>1, WorkerIs, SucceededRests
<1> QED BY <1>1, <1>4, <1>5, LeaveKeeps

-----------------------------------------------------------------------------
(* The cycle.                                                               *)

(* The lock is free, so nobody is in a cycle; taken, it lives as long as    *)
(* the new cycle may.                                                       *)
LEMMA BeginKeeps ==
  ASSUME Runners!QuantWorkerParameters, RunnerInv, NEW i \in Instances, Runners!Begin(i)
  PROVE  RunnerInv'
<1>1. /\ worker[i] # None /\ worker[i].loop = "idle" /\ lockLeft = 0
      /\ worker' = [worker EXCEPT ![i].loop = "locked"] /\ lockLeft' = LockTTL
      /\ UNCHANGED <<known, placed, manual, lost, phantom, byHand>>
  BY DEF Runners!Begin, Runners!In, Runners!LockFree
<1>2. IsWorker(worker[i])
  BY <1>1, WorkerIs
<1>3. /\ worker'[i].loop = "locked" /\ worker'[i].age = worker[i].age
      /\ worker'[i].counted = worker[i].counted /\ IsWorker(worker'[i])
      /\ \A j \in Instances \ {i} : worker'[j] = worker[j]
      /\ DOMAIN worker' = Instances /\ worker' = [j \in Instances |-> worker'[j]]
  BY <1>1, <1>2 DEF RunnerInv, RunnerShape, IsWorker, Runners!AnyWorker, Runners!Loops
<1>4. LockTTL \in Nat /\ CycleTimeout \in Nat /\ CycleTimeout >= 1 /\ CycleTimeout <= LockTTL
  BY DEF Runners!QuantWorkerParameters
<1>5. worker'[i] # None
  BY <1>3 DEF Runners!QuantWorkerParameters, IsWorker, Runners!AnyWorker
<1>6. RunnerShape'
  BY <1>1, <1>3, <1>4 DEF RunnerInv, RunnerShape
<1>7. \A j \in Instances : ~Runners!Busy(j)
  BY <1>1 DEF RunnerInv, LockOutlivesCycle
<1>8. \A j \in Instances \ {i} : /\ Runners!Busy(j)' <=> Runners!Busy(j)
                                 /\ Runners!In(j, {"cycle"})' <=> Runners!In(j, {"cycle"})
                                 /\ Runners!In(j, {"idle"})' <=> Runners!In(j, {"idle"})
  BY <1>3 DEF Runners!Busy, Runners!In
<1>9. ~Runners!In(i, {"cycle"}) /\ ~Runners!In(i, {"cycle"})' /\ ~Runners!In(i, {"idle"})'
  BY <1>1, <1>3 DEF Runners!In
<1>10. OneCycle'
  BY <1>7, <1>8 DEF OneCycle
<1>11. LockOutlivesCycle'
  <2>1. worker[i].age \in Nat
    BY <1>2, <1>4 DEF IsWorker, Runners!AnyWorker
  <2> QED BY <1>1, <1>3, <1>4, <1>7, <1>8, <1>9, <2>1 DEF RunnerInv, LockOutlivesCycle
<1>12. ClaimsAreDone'
  BY <1>1, <1>3, <1>8, <1>9 DEF RunnerInv, ClaimsAreDone
<1>13. TradesAddUp' /\ StateKeepsUp'
  BY <1>1, <1>3, <1>8, <1>9 DEF RunnerInv, TradesAddUp, StateKeepsUp
<1> QED BY <1>6, <1>10, <1>11, <1>12, <1>13 DEF RunnerInv

(* What a cycle begins with is the row.                                     *)
LEMMA LoadKeeps ==
  ASSUME Runners!QuantWorkerParameters, RunnerInv, NEW i \in Instances, Runners!Load(i)
  PROVE  RunnerInv'
<1>1. /\ worker[i] # None /\ worker[i].loop = "locked" /\ worker[i].counted = 0
      /\ Runners!Busy(i) /\ ~Runners!In(i, {"cycle"}) /\ UNCHANGED <<known, placed, manual, lost, phantom, byHand>>
  BY DEF Runners!Load, Runners!In, Runners!Busy, RunnerInv, ClaimsAreDone
<1>2. IsWorker(worker[i]) /\ known \in [state : Nat, trades : Nat]
  BY <1>1, WorkerIs DEF RunnerInv, RunnerShape
<1>3. CASE status = "active"
  <2>1. worker' = [worker EXCEPT ![i].loop = "cycle", ![i].loaded = known] /\ lockLeft' = lockLeft
    BY <1>3 DEF Runners!Load
  <2>2. /\ \A j \in Instances \ {i} : worker'[j] = worker[j]
        /\ worker'[i] = [worker[i] EXCEPT !.loop = "cycle", !.loaded = known]
        /\ DOMAIN worker' = Instances /\ worker' = [j \in Instances |-> worker'[j]]
    BY <2>1 DEF RunnerInv, RunnerShape
  <2>3. /\ worker'[i].loop = "cycle" /\ worker'[i].age = worker[i].age
        /\ worker'[i].counted = 0 /\ worker'[i].loaded = known
        /\ DOMAIN worker'[i] = {"loop", "age", "loaded", "counted", "errors"}
    BY <1>1, <1>2, <2>2 DEF IsWorker, Runners!AnyWorker
  <2>4. IsWorker(worker'[i])
    BY <1>2, <2>2 DEF IsWorker, Runners!AnyWorker, Runners!Loops
  <2>5. worker'[i] # None
    BY <2>4 DEF Runners!QuantWorkerParameters, IsWorker, Runners!AnyWorker
  <2>6. RunnerShape'
    BY <1>1, <2>1, <2>2, <2>4 DEF RunnerInv, RunnerShape
  <2>7. \A j \in Instances \ {i} : /\ Runners!Busy(j)' <=> Runners!Busy(j)
                                   /\ Runners!In(j, {"cycle"})' <=> Runners!In(j, {"cycle"})
                                   /\ Runners!In(j, {"idle"})' <=> Runners!In(j, {"idle"})
    BY <2>2 DEF Runners!Busy, Runners!In
  <2>8. Runners!Busy(i)' /\ Runners!In(i, {"cycle"})' /\ ~Runners!In(i, {"idle"})'
    BY <2>3, <2>5 DEF Runners!Busy, Runners!In
  <2>9. OneCycle' /\ \A j \in Instances \ {i} : ~Runners!In(j, {"cycle"})
    BY <1>1, <2>7 DEF RunnerInv, OneCycle, Runners!Busy, Runners!In
  <2>10. LockOutlivesCycle'
    BY <1>1, <2>1, <2>2, <2>3, <2>7, <2>8 DEF RunnerInv, LockOutlivesCycle
  <2>11. /\ known.state \in Nat /\ known.trades \in Nat /\ placed \in Nat /\ phantom \in Nat
         /\ lost \in Nat
    BY <1>2 DEF RunnerInv, RunnerShape
  <2>12. ClaimsAreDone'
    <3>1. UNCHANGED <<known, placed, manual, phantom, byHand>>
      BY <1>1
    <3>2. \A j \in Instances \ {i} :
            /\ Runners!In(j, {"cycle"})' =>
                  worker'[j].loaded.state + worker'[j].counted <= placed' + phantom'
            /\ worker'[j] # None /\ ~Runners!In(j, {"cycle"})' => worker'[j].counted = 0
      BY <2>2, <2>7, <3>1 DEF RunnerInv, ClaimsAreDone
    <3>3. known.state <= placed + phantom
      BY DEF RunnerInv, ClaimsAreDone
    <3>4. worker'[i].loaded.state + worker'[i].counted <= placed' + phantom'
      BY <2>3, <2>11, <3>1, <3>3
    <3>5. manual' # None => manual'.loaded + manual'.placed <= placed' + phantom' /\ byHand'
      BY <3>1 DEF RunnerInv, ClaimsAreDone
    <3> QED BY <2>8, <3>1, <3>2, <3>3, <3>4, <3>5 DEF ClaimsAreDone
  <2>13. placed + phantom = known.trades + lost
    BY <1>1, <2>9 DEF RunnerInv, TradesAddUp
  <2>14. TradesAddUp' /\ StateKeepsUp'
    <3>1. UNCHANGED <<known, placed, lost, phantom, byHand>>
      BY <1>1
    <3>2. /\ worker'[i].loaded.trades = known'.trades
          /\ placed' + phantom' = known'.trades + lost' + worker'[i].counted
          /\ ~byHand' => /\ known'.state = known'.trades
                         /\ worker'[i].loaded.state = worker'[i].loaded.trades
      BY <2>3, <2>11, <2>13, <3>1 DEF RunnerInv, StateKeepsUp
    <3>3. \A j \in Instances : Runners!In(j, {"cycle"})' => j = i
      BY <2>7, <2>9
    <3> QED BY <2>8, <3>2, <3>3 DEF TradesAddUp, StateKeepsUp
  <2> QED BY <2>6, <2>9, <2>10, <2>12, <2>14 DEF RunnerInv
<1>4. CASE status # "active"
  <2> DEFINE over == [worker[i] EXCEPT !.loop = "dead", !.age = 0]
  <2>1. worker' = [worker EXCEPT ![i] = over]
    BY <1>4 DEF Runners!Load, RunnerInv, RunnerShape
  <2>2. CycleTimeout \in Nat
    BY DEF Runners!QuantWorkerParameters
  <2>3. /\ DOMAIN over = DOMAIN worker[i] /\ over.loop = "dead" /\ over.age = 0
        /\ over.counted = 0 /\ over.loaded = worker[i].loaded
    BY <1>1, <1>2 DEF IsWorker, Runners!AnyWorker
  <2>4. Rested(over) /\ over.loop = "dead"
    <3>1. "dead" \in Runners!Loops /\ 0 \in 0 .. CycleTimeout
      BY <2>2 DEF Runners!Loops
    <3>2. IsWorker(over)
      BY <1>2, <3>1 DEF IsWorker, Runners!AnyWorker
    <3> HIDE DEF over
    <3> QED BY <2>3, <3>2 DEF Rested
  <2> HIDE DEF over
  <2>5. lockLeft' = lockLeft \/ (lockLeft' = 0 /\ Runners!Busy(i))
    BY <1>4 DEF Runners!Load, Runners!Unlock
  <2>6. lost' = lost + CountedBy(i)
    <3>1. CountedBy(i) = 0 /\ lost \in Nat
      BY <1>1, WorkerIs DEF RunnerInv, RunnerShape
    <3> QED BY <1>1, <3>1
  <2> QED BY <1>1, <2>1, <2>4, <2>5, <2>6, LeaveKeeps
<1> QED BY <1>3, <1>4

(* What happens in a cycle: a orders are executed and b closes counted      *)
(* without one; the engine counts d of them, and the others are lost.       *)
LEMMA ActsKeeps ==
  ASSUME Runners!QuantWorkerParameters, RunnerInv, NEW i \in Instances,
         NEW a \in Nat, NEW b \in Nat, NEW c \in Nat, NEW d \in Nat, a + b = c + d,
         Runners!In(i, {"cycle"}),
         worker' = [worker EXCEPT ![i] = [worker[i] EXCEPT !.counted = worker[i].counted + d]],
         placed' = placed + a, phantom' = phantom + b, lost' = lost + c,
         UNCHANGED <<known, lockLeft, manual, byHand>>
  PROVE  RunnerInv'
<1>1. /\ worker[i] # None /\ worker[i].loop = "cycle" /\ Runners!Busy(i)
      /\ known' = known /\ lockLeft' = lockLeft /\ manual' = manual /\ byHand' = byHand
  BY DEF Runners!In, Runners!Busy
<1>2. IsWorker(worker[i])
  BY <1>1, WorkerIs
<1>3. /\ \A j \in Instances \ {i} : worker'[j] = worker[j]
      /\ worker'[i] = [worker[i] EXCEPT !.counted = worker[i].counted + d]
      /\ DOMAIN worker' = Instances /\ worker' = [j \in Instances |-> worker'[j]]
  BY <1>1 DEF RunnerInv, RunnerShape
<1>4. /\ worker'[i].loop = "cycle" /\ worker'[i].age = worker[i].age
      /\ worker'[i].counted = worker[i].counted + d /\ worker'[i].loaded = worker[i].loaded
      /\ DOMAIN worker'[i] = {"loop", "age", "loaded", "counted", "errors"}
  BY <1>1, <1>2, <1>3 DEF IsWorker, Runners!AnyWorker
<1>5. IsWorker(worker'[i])
  <2>1. worker[i].counted + d \in Nat
    BY <1>2 DEF IsWorker, Runners!AnyWorker
  <2>2. IsWorker([worker[i] EXCEPT !.counted = worker[i].counted + d])
    BY <1>2, <2>1 DEF IsWorker, Runners!AnyWorker
  <2> QED BY <1>3, <2>2
<1>6. worker'[i] # None
  BY <1>5 DEF Runners!QuantWorkerParameters, IsWorker, Runners!AnyWorker
<1>7. RunnerShape'
  <2>1. placed' \in Nat /\ phantom' \in Nat /\ lost' \in Nat
    BY DEF RunnerInv, RunnerShape
  <2> QED BY <1>1, <1>3, <1>5, <2>1 DEF RunnerInv, RunnerShape
<1>8. \A j \in Instances : /\ Runners!Busy(j)' <=> Runners!Busy(j)
                           /\ Runners!In(j, {"cycle"})' <=> Runners!In(j, {"cycle"})
                           /\ Runners!In(j, {"idle"})' <=> Runners!In(j, {"idle"})
  BY <1>1, <1>3, <1>4, <1>6 DEF Runners!Busy, Runners!In
<1>9. OneCycle' /\ \A j \in Instances \ {i} : ~Runners!In(j, {"cycle"})
  BY <1>1, <1>8 DEF RunnerInv, OneCycle, Runners!Busy, Runners!In
<1>10. LockOutlivesCycle'
  BY <1>1, <1>3, <1>4, <1>8 DEF RunnerInv, LockOutlivesCycle
<1>11. PICK s0 \in Nat, t0 \in Nat, n0 \in Nat, ls \in Nat :
            /\ s0 = known.state /\ t0 = known.trades /\ n0 = worker[i].counted
            /\ ls = worker[i].loaded.state
  BY <1>2 DEF RunnerInv, RunnerShape, IsWorker, Runners!AnyWorker
<1>12. PICK p \in Nat, q \in Nat, l \in Nat : p = placed /\ q = phantom /\ l = lost
  BY DEF RunnerInv, RunnerShape
<1>13. a \in Nat /\ b \in Nat /\ c \in Nat /\ d \in Nat /\ a + b = c + d
  OBVIOUS
<1>14. ClaimsAreDone'
  <2>1. known'.state <= placed' + phantom'
    <3>1. s0 <= p + q
      BY <1>11, <1>12 DEF RunnerInv, ClaimsAreDone
    <3>2. s0 <= (p + a) + (q + b)
      BY <1>13, <3>1
    <3> QED BY <1>1, <1>11, <1>12, <3>2
  <2>2. worker'[i].loaded.state + worker'[i].counted <= placed' + phantom'
    <3>1. ls + n0 <= p + q
      BY <1>11, <1>12 DEF RunnerInv, ClaimsAreDone
    <3>2. ls + (n0 + d) <= (p + a) + (q + b)
      BY <1>13, <3>1
    <3> QED BY <1>4, <1>11, <1>12, <3>2
  <2>3. \A j \in Instances \ {i} :
           ~Runners!In(j, {"cycle"})' /\ (worker'[j] # None => worker'[j].counted = 0)
    BY <1>3, <1>8, <1>9 DEF RunnerInv, ClaimsAreDone
  <2>4. manual' # None => manual'.loaded + manual'.placed <= placed' + phantom' /\ byHand'
    <3> SUFFICES ASSUME manual # None
                 PROVE  manual.loaded + manual.placed <= placed' + phantom' /\ byHand
      BY <1>1
    <3>1. PICK m \in Nat, n \in Nat : m = manual.loaded /\ n = manual.placed
      BY DEF RunnerInv, RunnerShape
    <3>2. m + n <= p + q /\ byHand
      BY <1>12, <3>1 DEF RunnerInv, ClaimsAreDone
    <3>3. m + n <= (p + a) + (q + b)
      BY <1>13, <3>2
    <3> QED BY <1>12, <3>1, <3>2, <3>3
  <2> QED BY <1>1, <1>8, <2>1, <2>2, <2>3, <2>4 DEF ClaimsAreDone
<1>15. TradesAddUp'
  <2>1. worker[i].loaded.trades = known.trades
    BY DEF RunnerInv, TradesAddUp
  <2>2. (p + a) + (q + b) = t0 + (l + c) + (n0 + d)
    <3>1. p + q = t0 + l + n0
      BY <1>11, <1>12 DEF RunnerInv, TradesAddUp
    <3>2. (p + a) + (q + b) = (p + q) + (a + b)
      OBVIOUS
    <3>3. t0 + (l + c) + (n0 + d) = (t0 + l + n0) + (c + d)
      OBVIOUS
    <3> QED BY <1>13, <3>1, <3>2, <3>3
  <2>3. /\ worker'[i].loaded.trades = known'.trades
        /\ placed' + phantom' = known'.trades + lost' + worker'[i].counted
    <3>1. worker'[i].loaded.trades = known'.trades
      BY <1>1, <1>4, <2>1
    <3>2. /\ placed' = p + a /\ phantom' = q + b /\ lost' = l + c
          /\ known'.trades = t0 /\ worker'[i].counted = n0 + d
      BY <1>1, <1>4, <1>11, <1>12
    <3>3. placed' + phantom' = known'.trades + lost' + worker'[i].counted
      <4>1. placed' + phantom' = (p + a) + (q + b)
        BY <3>2
      <4>2. known'.trades + lost' + worker'[i].counted = t0 + (l + c) + (n0 + d)
        BY <3>2
      <4> QED BY <2>2, <4>1, <4>2
    <3> QED BY <3>1, <3>3
  <2>4. \A j \in Instances : Runners!In(j, {"cycle"})' => j = i
    BY <1>8, <1>9
  <2>5. Runners!In(i, {"cycle"})'
    BY <1>1, <1>8
  <2> QED BY <2>3, <2>4, <2>5 DEF TradesAddUp
<1>16. StateKeepsUp'
  BY <1>1, <1>3, <1>4, <1>8 DEF RunnerInv, StateKeepsUp
<1> QED BY <1>7, <1>9, <1>10, <1>14, <1>15, <1>16 DEF RunnerInv

LEMMA TradeKeeps ==
  ASSUME Runners!QuantWorkerParameters, RunnerInv, NEW i \in Instances,
         Runners!Trade(i) \/ Runners!Unanswered(i) \/ Runners!CloseFlat(i)
  PROVE  RunnerInv'
<1>1. /\ Runners!In(i, {"cycle"}) /\ worker[i] # None
      /\ UNCHANGED <<known, lockLeft, manual, byHand>>
  BY DEF Runners!Trade, Runners!Unanswered, Runners!CloseFlat, Runners!In
<1>2. placed \in Nat /\ phantom \in Nat /\ lost \in Nat
  BY DEF RunnerInv, RunnerShape
<1>3. CASE Runners!Trade(i)
  <2>1. /\ worker' = [worker EXCEPT ![i] = [worker[i] EXCEPT !.counted = worker[i].counted + 1]]
        /\ placed' = placed + 1 /\ phantom' = phantom + 0 /\ lost' = lost + 0
    BY <1>2, <1>3 DEF Runners!Trade
  <2>2. 1 + 0 = 0 + 1 /\ 0 \in Nat /\ 1 \in Nat
    OBVIOUS
  <2> QED BY <1>1, <2>1, <2>2, ActsKeeps
<1>4. CASE Runners!CloseFlat(i)
  <2>1. /\ worker' = [worker EXCEPT ![i] = [worker[i] EXCEPT !.counted = worker[i].counted + 1]]
        /\ placed' = placed + 0 /\ phantom' = phantom + 1 /\ lost' = lost + 0
    BY <1>2, <1>4 DEF Runners!CloseFlat
  <2> QED BY <1>1, <2>1, ActsKeeps
<1>5. CASE Runners!Unanswered(i)
  <2>1. IsWorker(worker[i]) /\ worker = [j \in Instances |-> worker[j]]
    BY <1>1, WorkerIs DEF RunnerInv, RunnerShape
  <2>2. worker[i].counted + 0 = worker[i].counted
    BY <2>1 DEF IsWorker, Runners!AnyWorker
  <2>3. worker[i] = [worker[i] EXCEPT !.counted = worker[i].counted + 0]
    BY <2>1, <2>2 DEF IsWorker, Runners!AnyWorker
  <2>4. worker' = [worker EXCEPT ![i] = [worker[i] EXCEPT !.counted = worker[i].counted + 0]]
    BY <1>5, <2>1, <2>3 DEF Runners!Unanswered
  <2>5. placed' = placed + 1 /\ phantom' = phantom + 0 /\ lost' = lost + 1
    BY <1>2, <1>5 DEF Runners!Unanswered
  <2> QED BY <1>1, <2>4, <2>5, ActsKeeps
<1> QED BY <1>3, <1>4, <1>5

(* A cycle is recorded: what the row then counts and what is lost are all   *)
(* that was done.                                                           *)
LEMMA RecordedKeeps ==
  ASSUME Runners!QuantWorkerParameters, RunnerInv, NEW i \in Instances, Runners!Recorded(i),
         known' \in [state : Nat, trades : Nat], placed' \in Nat, lost' \in Nat,
         placed <= placed', placed' + phantom = known'.trades + lost',
         known'.state <= placed' + phantom, ~byHand => known'.state = known'.trades,
         UNCHANGED <<phantom, manual, byHand>>
  PROVE  RunnerInv'
<1> DEFINE w == worker[i]
<1>1. /\ w # None /\ w.loop = "cycle" /\ Runners!In(i, {"cycle"}) /\ Runners!Busy(i)
      /\ worker' = [worker EXCEPT ![i] = Runners!Succeeded(w)] /\ lockLeft' = 0
  BY DEF Runners!Recorded, Runners!In, Runners!Busy, Runners!Unlock
<1>2. IsWorker(w)
  BY <1>1, WorkerIs
<1>3. /\ \A j \in Instances \ {i} : worker'[j] = worker[j]
      /\ worker'[i] = Runners!Succeeded(w)
      /\ DOMAIN worker' = Instances /\ worker' = [j \in Instances |-> worker'[j]]
  BY <1>1 DEF RunnerInv, RunnerShape
<1>4. /\ IsWorker(worker'[i]) /\ worker'[i].loop = "idle"
      /\ worker'[i].counted = 0 /\ worker'[i].age = 0
  BY <1>2, <1>3, SucceededRests DEF Rested
<1>5. RunnerShape'
  BY <1>1, <1>3, <1>4 DEF RunnerInv, RunnerShape
<1>6. \A j \in Instances \ {i} : /\ Runners!Busy(j)' <=> Runners!Busy(j)
                                 /\ Runners!In(j, {"cycle"})' <=> Runners!In(j, {"cycle"})
                                 /\ Runners!In(j, {"idle"})' <=> Runners!In(j, {"idle"})
  BY <1>3 DEF Runners!Busy, Runners!In
<1>7. ~Runners!Busy(i)' /\ ~Runners!In(i, {"cycle"})'
  BY <1>4 DEF Runners!Busy, Runners!In
<1>8. \A j \in Instances : ~Runners!Busy(j)' /\ ~Runners!In(j, {"cycle"})'
  BY <1>1, <1>6, <1>7 DEF RunnerInv, OneCycle, Runners!Busy, Runners!In
<1>9. OneCycle'
  BY <1>8 DEF OneCycle
<1>10. LockOutlivesCycle'
  BY <1>3, <1>4, <1>6, <1>8 DEF RunnerInv, LockOutlivesCycle
<1>11. ClaimsAreDone'
  <2>1. \A j \in Instances : worker'[j] # None => worker'[j].counted = 0
    BY <1>3, <1>4, <1>6, <1>8 DEF RunnerInv, ClaimsAreDone
  <2>2. manual' # None => manual'.loaded + manual'.placed <= placed' + phantom' /\ byHand'
    <3> SUFFICES ASSUME manual # None
                 PROVE  manual.loaded + manual.placed <= placed' + phantom /\ byHand
      OBVIOUS
    <3>1. PICK m \in Nat, n \in Nat : m = manual.loaded /\ n = manual.placed
      BY DEF RunnerInv, RunnerShape
    <3>2. m + n <= placed + phantom /\ byHand /\ placed \in Nat /\ phantom \in Nat
      BY <3>1 DEF RunnerInv, ClaimsAreDone, RunnerShape
    <3> QED BY <3>1, <3>2
  <2> QED BY <1>8, <2>1, <2>2 DEF ClaimsAreDone
<1>12. TradesAddUp' /\ StateKeepsUp'
  BY <1>8 DEF TradesAddUp, StateKeepsUp
<1> QED BY <1>5, <1>9, <1>10, <1>11, <1>12 DEF RunnerInv

(* What the cycle adds to what it loaded is written, which was the row.     *)
LEMMA CommitKeeps ==
  ASSUME Runners!QuantWorkerParameters, RunnerInv, NEW i \in Instances,
         Runners!Commit(i) \/ Runners!EngineFails(i)
  PROVE  RunnerInv'
<1>1. /\ Runners!Recorded(i) /\ Runners!In(i, {"cycle"}) /\ UNCHANGED <<phantom, manual, byHand>>
  BY DEF Runners!Commit, Runners!EngineFails, Runners!Recorded
<1>2. IsWorker(worker[i])
  BY <1>1, WorkerIs DEF Runners!In
<1>3. PICK state \in Nat, trades \in Nat, counted \in Nat, loadedState \in Nat, loadedTrades \in Nat :
            /\ state = known.state /\ trades = known.trades /\ counted = worker[i].counted
            /\ loadedState = worker[i].loaded.state /\ loadedTrades = worker[i].loaded.trades
  BY <1>2 DEF RunnerInv, RunnerShape, IsWorker, Runners!AnyWorker
<1>4. placed \in Nat /\ phantom \in Nat /\ lost \in Nat
  BY DEF RunnerInv, RunnerShape
<1>5. loadedTrades = trades /\ placed + phantom = trades + lost + counted
  BY <1>1, <1>3 DEF RunnerInv, TradesAddUp
<1>6. loadedState + counted <= placed + phantom
  BY <1>1, <1>3 DEF RunnerInv, ClaimsAreDone
<1>7. ~byHand => loadedState = trades
  BY <1>1, <1>3, <1>5 DEF RunnerInv, StateKeepsUp
<1>8. CASE Runners!Commit(i)
  <2>1. /\ known' = [state |-> loadedState + counted, trades |-> loadedTrades + counted]
        /\ placed' = placed /\ lost' = lost
    BY <1>3, <1>8 DEF Runners!Commit
  <2>2. /\ known' \in [state : Nat, trades : Nat]
        /\ known'.state = loadedState + counted /\ known'.trades = loadedTrades + counted
    BY <1>3, <2>1
  <2>3. /\ placed' + phantom = known'.trades + lost' /\ known'.state <= placed' + phantom
        /\ ~byHand => known'.state = known'.trades
    BY <1>3, <1>4, <1>5, <1>6, <1>7, <2>1, <2>2
  <2>4. placed <= placed' /\ placed' \in Nat /\ lost' \in Nat
    BY <1>4, <2>1
  <2> QED BY <1>1, <2>2, <2>3, <2>4, RecordedKeeps
<1>9. CASE Runners!EngineFails(i)
  <2>1. PICK n \in {0, 1} : placed' = placed + n /\ lost' = lost + n + counted
    BY <1>3, <1>9 DEF Runners!EngineFails
  <2>2. /\ known' \in [state : Nat, trades : Nat]
        /\ known'.state = loadedState /\ known'.trades = trades
    BY <1>3, <1>9 DEF Runners!EngineFails, RunnerInv, RunnerShape
  <2>3. placed' + phantom = known'.trades + lost' /\ known'.state <= placed' + phantom
    BY <1>3, <1>4, <1>5, <1>6, <2>1, <2>2
  <2>4. ~byHand => known'.state = known'.trades
    BY <1>7, <2>2
  <2>5. placed <= placed' /\ placed' \in Nat /\ lost' \in Nat
    BY <1>3, <1>4, <2>1
  <2> QED BY <1>1, <2>2, <2>3, <2>4, <2>5, RecordedKeeps
<1> QED BY <1>8, <1>9

-----------------------------------------------------------------------------
(* Time, and cycles run by hand.                                            *)

(* A cycle that is not over its limit may be a tick older: the lock loses   *)
(* what the cycle gains.                                                    *)
LEMMA TickKeeps ==
  ASSUME Runners!QuantWorkerParameters, RunnerInv, Runners!Tick
  PROVE  RunnerInv'
<1>1. /\ known' = known /\ placed' = placed /\ manual' = manual
      /\ lost' = lost /\ phantom' = phantom /\ byHand' = byHand
      /\ \A i \in Instances : ~Runners!Overdue(i)
  BY DEF Runners!Tick
<1>2. CycleTimeout \in Nat /\ lockLeft \in Nat
  BY DEF Runners!QuantWorkerParameters, RunnerInv, RunnerShape
<1>3. lockLeft' = IF lockLeft = 1 /\ \E i \in Instances : Runners!Busy(i) /\ worker[i].age + 1 = CycleTimeout
                    THEN 1 ELSE IF lockLeft = 0 THEN 0 ELSE lockLeft - 1
  BY DEF Runners!Tick
<1>4. lockLeft' \in Nat
  BY <1>2, <1>3, SMTT(60)
<1>5. /\ DOMAIN worker' = Instances /\ worker' = [i \in Instances |-> worker'[i]]
      /\ \A i \in Instances : worker[i] = None => worker'[i] = None
  BY DEF Runners!Tick
<1>6. ASSUME NEW i \in Instances, worker[i] # None
      PROVE  /\ IsWorker(worker'[i]) /\ worker'[i].loop = worker[i].loop
             /\ worker'[i].counted = worker[i].counted /\ worker'[i].loaded = worker[i].loaded
             /\ worker'[i].age = IF Runners!Busy(i) THEN worker[i].age + 1 ELSE worker[i].age
  <2> DEFINE errors == [k \in DOMAIN worker[i].errors |->
                          IF worker[i].errors[k] < Window THEN worker[i].errors[k] + 1
                          ELSE worker[i].errors[k]]
             age == IF Runners!Busy(i) THEN worker[i].age + 1 ELSE worker[i].age
  <2>1. IsWorker(worker[i])
    BY <1>6, WorkerIs
  <2>2. worker'[i] = [worker[i] EXCEPT !.age = age, !.errors = errors]
    BY <1>6 DEF Runners!Tick
  <2> HIDE DEF errors, age
  <2>3. /\ DOMAIN worker'[i] = {"loop", "age", "loaded", "counted", "errors"}
        /\ worker'[i].loop = worker[i].loop /\ worker'[i].age = age
        /\ worker'[i].counted = worker[i].counted /\ worker'[i].loaded = worker[i].loaded
    BY <2>1, <2>2 DEF IsWorker, Runners!AnyWorker
  <2>4. age \in 0..CycleTimeout
    BY <1>1, <1>2, <2>1 DEF age, IsWorker, Runners!AnyWorker, Runners!Overdue
  <2>5. errors \in Seq(Nat)
    <3>1. worker[i].errors \in Seq(Nat) /\ Window \in Nat
      BY <2>1 DEF IsWorker, Runners!AnyWorker, Runners!QuantWorkerParameters
    <3>2. PICK list : list = worker[i].errors
      OBVIOUS
    <3>6. PICK n \in Nat : n = Len(list)
      BY <3>1, <3>2
    <3>3. DOMAIN list = 1 .. n /\ \A k \in 1 .. n : list[k] \in Nat
      BY <3>1, <3>2, <3>6
    <3>4. errors = [k \in 1 .. n |-> IF list[k] < Window THEN list[k] + 1 ELSE list[k]]
      BY <3>2, <3>3 DEF errors
    <3>5. \A k \in 1 .. n : (IF list[k] < Window THEN list[k] + 1 ELSE list[k]) \in Nat
      BY <3>1, <3>3
    <3> QED BY <3>4, <3>5
  <2>6. IsWorker(worker'[i])
    BY <2>1, <2>2, <2>4, <2>5 DEF IsWorker, Runners!AnyWorker
  <2> QED BY <2>3, <2>6 DEF age
<1>7. \A i \in Instances : worker'[i] # None <=> worker[i] # None
  BY <1>5, <1>6 DEF Runners!QuantWorkerParameters, IsWorker, Runners!AnyWorker
<1>8. \A i \in Instances : /\ Runners!Busy(i)' <=> Runners!Busy(i)
                           /\ Runners!In(i, {"cycle"})' <=> Runners!In(i, {"cycle"})
                           /\ Runners!In(i, {"idle"})' <=> Runners!In(i, {"idle"})
  BY <1>6, <1>7 DEF Runners!Busy, Runners!In
<1>9. RunnerShape'
  BY <1>1, <1>4, <1>5, <1>6, <1>7 DEF RunnerInv, RunnerShape
<1>10. OneCycle'
  BY <1>8 DEF RunnerInv, OneCycle
<1>11. ASSUME NEW i \in Instances, Runners!Busy(i)
       PROVE  lockLeft' >= 1 /\ lockLeft' + worker'[i].age >= CycleTimeout
  <2>1. worker[i] # None
    BY <1>11 DEF Runners!Busy, Runners!In
  <2>2. /\ worker'[i].age = worker[i].age + 1 /\ worker[i].age \in 0..CycleTimeout
        /\ worker[i].age # CycleTimeout
    BY <1>1, <1>6, <1>11, <2>1, WorkerIs DEF IsWorker, Runners!AnyWorker, Runners!Overdue
  <2>3. lockLeft >= 1 /\ lockLeft + worker[i].age >= CycleTimeout
    BY <1>11 DEF RunnerInv, LockOutlivesCycle
  <2>4. CASE lockLeft = 1
    <3>1. worker[i].age + 1 = CycleTimeout
      BY <1>2, <2>2, <2>3, <2>4
    <3>2. lockLeft' = 1
      BY <1>3, <1>11, <2>4, <3>1
    <3> QED BY <1>2, <2>2, <3>1, <3>2
  <2>5. CASE lockLeft # 1
    <3>1. lockLeft' = lockLeft - 1
      BY <1>2, <1>3, <2>3, <2>5
    <3> QED BY <1>2, <2>2, <2>3, <2>5, <3>1
  <2> QED BY <2>4, <2>5
<1>12. ASSUME NEW i \in Instances, Runners!In(i, {"idle"}) PROVE worker'[i].age = 0
  <2>1. worker[i] # None /\ ~Runners!Busy(i)
    BY <1>12 DEF Runners!In, Runners!Busy
  <2> QED BY <1>6, <1>12, <2>1 DEF RunnerInv, LockOutlivesCycle
<1>13. LockOutlivesCycle'
  BY <1>8, <1>11, <1>12 DEF LockOutlivesCycle
<1>14. ClaimsAreDone'
  <2>1. \A i \in Instances : Runners!In(i, {"cycle"}) => worker[i] # None
    BY DEF Runners!In
  <2> QED BY <1>1, <1>6, <1>7, <1>8, <2>1 DEF RunnerInv, ClaimsAreDone
<1>15. TradesAddUp' /\ StateKeepsUp'
  <2>1. \A i \in Instances : Runners!In(i, {"cycle"}) => worker[i] # None
    BY DEF Runners!In
  <2> QED BY <1>1, <1>6, <1>8, <2>1 DEF RunnerInv, TradesAddUp, StateKeepsUp
<1> QED BY <1>9, <1>10, <1>13, <1>14, <1>15 DEF RunnerInv

LEMMA ByHandKeeps ==
  ASSUME Runners!QuantWorkerParameters, RunnerInv, Runners!Trigger \/ Runners!TriggerTrade \/ Runners!TriggerEnds
  PROVE  RunnerInv'
<1>1. worker' = worker /\ lockLeft' = lockLeft /\ phantom' = phantom /\ byHand'
  BY DEF Runners!Trigger, Runners!TriggerTrade, Runners!TriggerEnds, RunnerInv, ClaimsAreDone
<1>2. \A i \in Instances : /\ Runners!Busy(i)' <=> Runners!Busy(i)
                           /\ Runners!In(i, {"cycle"})' <=> Runners!In(i, {"cycle"})
                           /\ Runners!In(i, {"idle"})' <=> Runners!In(i, {"idle"})
  BY <1>1 DEF Runners!Busy, Runners!In
<1>3. LockOutlivesCycle' /\ OneCycle' /\ StateKeepsUp'
  BY <1>1, <1>2 DEF RunnerInv, LockOutlivesCycle, OneCycle, StateKeepsUp
<1>4. /\ known \in [state : Nat, trades : Nat] /\ known.state \in Nat /\ known.trades \in Nat
      /\ placed \in Nat /\ phantom \in Nat /\ lost \in Nat /\ known.state <= placed + phantom
  BY DEF RunnerInv, RunnerShape, ClaimsAreDone
<1>5. ASSUME manual # None
      PROVE  /\ manual \in [loaded : Nat, placed : Nat]
             /\ manual.loaded \in Nat /\ manual.placed \in Nat
             /\ manual.loaded + manual.placed <= placed + phantom
  BY <1>5 DEF RunnerInv, RunnerShape, ClaimsAreDone
<1>6. /\ known' \in [state : Nat, trades : Nat] /\ known'.trades = known.trades
      /\ \/ placed' = placed /\ lost' = lost
         \/ placed' = placed + 1 /\ lost' = lost + 1
      /\ known'.state <= placed' + phantom
      /\ manual' # None => /\ manual' \in [loaded : Nat, placed : Nat]
                           /\ manual'.loaded + manual'.placed <= placed' + phantom
  <2>1. CASE Runners!Trigger
    <3>1. /\ known' = known /\ placed' = placed /\ lost' = lost
          /\ manual' = [loaded |-> known.state, placed |-> 0]
      BY <2>1 DEF Runners!Trigger
    <3> QED BY <1>4, <3>1
  <2>2. CASE Runners!TriggerTrade
    <3>1. /\ known' = known /\ placed' = placed + 1 /\ lost' = lost + 1 /\ manual # None
          /\ manual' = [manual EXCEPT !.placed = manual.placed + 1]
      BY <2>2 DEF Runners!TriggerTrade
    <3>2. /\ manual' \in [loaded : Nat, placed : Nat]
          /\ manual'.loaded = manual.loaded /\ manual'.placed = manual.placed + 1
      BY <1>5, <3>1
    <3> QED BY <1>4, <1>5, <3>1, <3>2
  <2>3. CASE Runners!TriggerEnds
    <3>1. manual # None /\ manual' = None /\ placed' = placed /\ lost' = lost
      BY <2>3 DEF Runners!TriggerEnds
    <3>2. CASE known' = known
      BY <1>4, <3>1, <3>2
    <3>3. CASE known' # known
      <4>1. PICK n \in 0 .. manual.placed : known' = [known EXCEPT !.state = manual.loaded + n]
        BY <2>3, <3>3 DEF Runners!TriggerEnds
      <4>2. /\ known'.state = manual.loaded + n /\ known'.trades = known.trades
            /\ n \in Nat /\ n <= manual.placed /\ known' \in [state : Nat, trades : Nat]
        BY <1>4, <1>5, <3>1, <4>1
      <4> QED BY <1>4, <1>5, <3>1, <4>2
    <3> QED BY <3>2, <3>3
  <2> QED BY <2>1, <2>2, <2>3
<1>7. placed' \in Nat /\ lost' \in Nat /\ placed <= placed'
  BY <1>4, <1>6
<1>8. RunnerShape'
  BY <1>1, <1>6, <1>7 DEF RunnerInv, RunnerShape
<1>9. ClaimsAreDone'
  <2>1. ASSUME NEW i \in Instances, Runners!In(i, {"cycle"})
        PROVE  worker[i].loaded.state + worker[i].counted <= placed' + phantom
    <3>1. IsWorker(worker[i])
      BY <2>1, WorkerIs DEF Runners!In
    <3>2. worker[i].loaded.state \in Nat /\ worker[i].counted \in Nat
      BY <3>1 DEF IsWorker, Runners!AnyWorker
    <3>3. worker[i].loaded.state + worker[i].counted <= placed + phantom
      BY <2>1 DEF RunnerInv, ClaimsAreDone
    <3> QED BY <1>4, <1>7, <3>2, <3>3
  <2> QED BY <1>1, <1>2, <1>6, <2>1 DEF RunnerInv, ClaimsAreDone
<1>10. TradesAddUp'
  <2>1. ASSUME NEW i \in Instances, Runners!In(i, {"cycle"})
        PROVE  /\ worker[i].loaded.trades = known'.trades
               /\ placed' + phantom = known'.trades + lost' + worker[i].counted
    <3>1. worker[i].counted \in Nat
      BY <2>1, WorkerIs DEF Runners!In, IsWorker, Runners!AnyWorker
    <3>2. /\ worker[i].loaded.trades = known.trades
          /\ placed + phantom = known.trades + lost + worker[i].counted
      BY <2>1 DEF RunnerInv, TradesAddUp
    <3> QED BY <1>4, <1>6, <3>1, <3>2
  <2>2. ASSUME \A i \in Instances : ~Runners!In(i, {"cycle"})
        PROVE  placed' + phantom = known'.trades + lost'
    <3>1. placed + phantom = known.trades + lost
      BY <2>2 DEF RunnerInv, TradesAddUp
    <3> QED BY <1>4, <1>6, <3>1
  <2> QED BY <1>1, <1>2, <2>1, <2>2 DEF TradesAddUp
<1> QED BY <1>3, <1>8, <1>9, <1>10 DEF RunnerInv

-----------------------------------------------------------------------------
LEMMA RunnerNextKeeps ==
  ASSUME Runners!QuantWorkerParameters, RunnerInv, [Runners!Next]_runnerVars
  PROVE  RunnerInv'
<1>1. ASSUME NEW new \in {"active", "paused"}, Runners!SetStatus(new) PROVE RunnerInv'
  BY <1>1, OthersKeep DEF Runners!SetStatus
<1>2. ASSUME NEW i \in Instances, Runners!StartAgent(i) PROVE RunnerInv'
  BY <1>2, StartKeeps
<1>3. ASSUME NEW i \in Instances, Runners!StartFails(i) \/ Runners!Reclaim(i) PROVE RunnerInv'
  BY <1>3, OthersKeep DEF Runners!StartFails, Runners!Reclaim
<1>4. ASSUME NEW i \in Instances, Runners!StopAgent(i, "paused") \/ Runners!StopLost(i) PROVE RunnerInv'
  BY <1>4, StopKeeps DEF Runners!StopAgent, Runners!StopLost
<1>5. ASSUME NEW i \in Instances, Runners!Crash(i) PROVE RunnerInv'
  BY <1>5, CrashKeeps
<1>6. ASSUME NEW i \in Instances, Runners!Skip(i) \/ Runners!Begin(i) \/ Runners!Load(i)
                                   \/ Runners!Trade(i) \/ Runners!Unanswered(i) \/ Runners!CloseFlat(i)
                                   \/ Runners!Commit(i) \/ Runners!EngineFails(i)
      PROVE  RunnerInv'
  BY <1>6, SkipKeeps, BeginKeeps, LoadKeeps, TradeKeeps, CommitKeeps
<1>7. ASSUME NEW i \in Instances, Runners!TimeOut(i) \/ Runners!CycleFails(i) \/ Runners!CycleFailsForGood(i)
      PROVE  RunnerInv'
  BY <1>7, FailureKeeps
<1>8. CASE Runners!OwnerExpires
  BY <1>8, OthersKeep DEF Runners!OwnerExpires
<1>9. CASE Runners!Trigger \/ Runners!TriggerTrade \/ Runners!TriggerEnds
  BY <1>9, ByHandKeeps
<1>10. CASE Runners!Tick
  BY <1>10, TickKeeps
<1>11. CASE UNCHANGED runnerVars
  BY <1>11, OthersKeep DEF runnerVars
<1> QED
  BY <1>1, <1>2, <1>3, <1>4, <1>5, <1>6, <1>7, <1>8, <1>9, <1>10, <1>11 DEF Runners!Next

-----------------------------------------------------------------------------
(* Types.  Most bounds follow from RunnerInv: what anybody claims was       *)
(* placed.  There remain the scalars, and what a worker at rest keeps.      *)

RestKeeps(w) == w.loaded \in Runners!Known /\ w.errors \in Seq(0 .. Window)

RunnerTyped ==
    /\ status \in Runners!Statuses /\ placed \in 0 .. MaxOrders /\ owner \in Instances \cup {None}
    /\ lockLeft \in 0 .. LockTTL
    /\ accidents \in 0 .. MaxAccidents /\ changes \in 0 .. MaxChanges
    /\ phantom <= accidents
    /\ \A i \in Instances : worker[i] # None => RestKeeps(worker[i])

LEMMA RunnerTypesSuffice ==
  ASSUME Runners!QuantWorkerParameters, RunnerInv, RunnerTyped
  PROVE  Runners!TypeOK
<1> USE DEF RunnerTyped
<1> DEFINE Most == MaxOrders + MaxAccidents
<1>1. /\ MaxOrders \in Nat /\ MaxAccidents \in Nat /\ Most \in Nat
      /\ placed \in Nat /\ phantom \in 0 .. MaxAccidents /\ placed + phantom <= Most
      /\ lost \in Nat
  BY DEF Runners!QuantWorkerParameters, RunnerInv, RunnerShape
<1>2. Runners!Known = [state : 0 .. Most, trades : 0 .. Most] /\ Runners!MaxTrades = Most
  BY DEF Runners!Known, Runners!MaxTrades
<1>3. known.trades + lost <= placed + phantom
  <2>1. CASE \E i \in Instances : Runners!In(i, {"cycle"})
    <3>1. PICK i \in Instances : Runners!In(i, {"cycle"})
      BY <2>1
    <3>2. /\ worker[i].counted \in Nat /\ known.trades \in Nat
          /\ placed + phantom = known.trades + lost + worker[i].counted
      BY <3>1, WorkerIs DEF Runners!In, IsWorker, Runners!AnyWorker, RunnerInv, TradesAddUp, RunnerShape
    <3> QED BY <1>1, <3>2
  <2>2. CASE \A i \in Instances : ~Runners!In(i, {"cycle"})
    BY <1>1, <2>2 DEF RunnerInv, TradesAddUp, RunnerShape
  <2> QED BY <2>1, <2>2
<1> HIDE DEF Most
<1>4. known \in Runners!Known /\ lost \in 0 .. Most
  <2>1. /\ known \in [state : Nat, trades : Nat] /\ known.state <= placed + phantom
        /\ known.state \in Nat /\ known.trades \in Nat
    BY DEF RunnerInv, RunnerShape, ClaimsAreDone
  <2>2. known.state \in 0 .. Most /\ known.trades \in 0 .. Most /\ lost \in 0 .. Most
    BY <1>1, <1>3, <2>1
  <2> QED BY <1>2, <2>1, <2>2
<1>5. ASSUME NEW i \in Instances, worker[i] # None
      PROVE  /\ worker[i].loop \in Runners!Loops /\ worker[i].age \in 0 .. CycleTimeout
             /\ worker[i].loaded \in Runners!Known /\ worker[i].counted \in 0 .. Most
             /\ worker[i].errors \in Seq(0 .. Window)
  <2>1. IsWorker(worker[i]) /\ RestKeeps(worker[i])
    BY <1>5 DEF RunnerInv, RunnerShape
  <2>2. worker[i].counted \in Nat /\ worker[i].loaded.state \in Nat
    BY <2>1 DEF IsWorker, Runners!AnyWorker
  <2>3. worker[i].counted = 0 \/ worker[i].loaded.state + worker[i].counted <= placed + phantom
    BY <1>5 DEF RunnerInv, ClaimsAreDone
  <2>4. worker[i].counted \in 0 .. Most
    BY <1>1, <2>2, <2>3
  <2> QED BY <2>1, <2>4 DEF IsWorker, Runners!AnyWorker, RestKeeps
<1>6. manual = None \/ manual \in [loaded : 0 .. Most, placed : 0 .. Most]
  <2> SUFFICES ASSUME manual # None
               PROVE  manual \in [loaded : 0 .. Most, placed : 0 .. Most]
    OBVIOUS
  <2>1. manual \in [loaded : Nat, placed : Nat] /\ manual.loaded + manual.placed <= placed + phantom
    BY DEF RunnerInv, RunnerShape, ClaimsAreDone
  <2>2. manual.loaded \in 0 .. Most /\ manual.placed \in 0 .. Most
    BY <1>1, <2>1
  <2> QED BY <2>1, <2>2
<1> QED BY <1>1, <1>2, <1>4, <1>5, <1>6 DEF Runners!TypeOK, RunnerInv, RunnerShape

LEMMA RestingKeeps ==
  ASSUME Runners!QuantWorkerParameters, NEW w, IsWorker(w), NEW loop, NEW errors \in Seq(0 .. Window)
  PROVE  /\ RestKeeps(Runners!Worker)
         /\ RestKeeps(Runners!Succeeded(w))
         /\ RestKeeps([Runners!Succeeded(w) EXCEPT !.loop = loop])
         /\ RestKeeps([Runners!Succeeded(w) EXCEPT !.loop = loop, !.errors = errors])
<1>1. Runners!Nothing \in Runners!Known /\ <<>> \in Seq(0 .. Window)
  BY DEF Runners!QuantWorkerParameters, Runners!Nothing, Runners!Known, Runners!MaxTrades
<1>2. /\ DOMAIN Runners!Succeeded(w) = {"loop", "age", "loaded", "counted", "errors"}
      /\ Runners!Succeeded(w).loaded = Runners!Nothing /\ Runners!Succeeded(w).errors = <<>>
  BY DEF IsWorker, Runners!AnyWorker, Runners!Succeeded
<1>3. RestKeeps(Runners!Worker) /\ RestKeeps(Runners!Succeeded(w))
  BY <1>1, <1>2 DEF RestKeeps, Runners!Worker
<1>4. RestKeeps([Runners!Succeeded(w) EXCEPT !.loop = loop])
  BY <1>1, <1>2 DEF RestKeeps
<1>5. RestKeeps([Runners!Succeeded(w) EXCEPT !.loop = loop, !.errors = errors])
  BY <1>1, <1>2 DEF RestKeeps
<1> QED BY <1>3, <1>4, <1>5

LEMMA OneWorkerKeeps ==
  ASSUME RunnerInv, Runners!TypeOK, NEW i \in Instances, NEW w, worker' = [worker EXCEPT ![i] = w],
         w = None \/ RestKeeps(w)
  PROVE  \A j \in Instances : worker'[j] # None => RestKeeps(worker'[j])
BY DEF RunnerInv, RunnerShape, Runners!TypeOK, RestKeeps

LEMMA WorkersKeep ==
  ASSUME Runners!QuantWorkerParameters, RunnerInv, Runners!TypeOK, [Runners!Next]_runnerVars
  PROVE  \A j \in Instances : worker'[j] # None => RestKeeps(worker'[j])
<1>1. CASE worker' = worker
  BY <1>1 DEF Runners!TypeOK, RestKeeps
<1>2. ASSUME NEW i \in Instances, Runners!Stopped(i) \/ Runners!Crash(i)
      PROVE  \A j \in Instances : worker'[j] # None => RestKeeps(worker'[j])
  <2>1. worker' = [worker EXCEPT ![i] = None]
    BY <1>2 DEF Runners!Stopped, Runners!Crash
  <2> QED BY <2>1, OneWorkerKeeps
<1>3. ASSUME NEW i \in Instances, Runners!StartAgent(i)
      PROVE  \A j \in Instances : worker'[j] # None => RestKeeps(worker'[j])
  <2>1. worker' = [worker EXCEPT ![i] = Runners!Worker]
    BY <1>3 DEF Runners!StartAgent
  <2>2. RestKeeps(Runners!Worker)
    BY DEF Runners!QuantWorkerParameters, RestKeeps, Runners!Worker, Runners!Nothing, Runners!Known,
       Runners!MaxTrades
  <2> QED BY <2>1, <2>2, OneWorkerKeeps
<1>4. ASSUME NEW i \in Instances, Runners!Skip(i) \/ Runners!Recorded(i)
      PROVE  \A j \in Instances : worker'[j] # None => RestKeeps(worker'[j])
  <2>1. worker' = [worker EXCEPT ![i] = Runners!Succeeded(worker[i])] /\ worker[i] # None
    BY <1>4 DEF Runners!Skip, Runners!Recorded, Runners!In
  <2>2. IsWorker(worker[i]) /\ <<>> \in Seq(0 .. Window)
    BY <2>1, WorkerIs
  <2>3. RestKeeps(Runners!Succeeded(worker[i]))
    BY <2>2, RestingKeeps
  <2> QED BY <2>1, <2>3, OneWorkerKeeps
<1>5. ASSUME NEW i \in Instances, Runners!Begin(i) \/ Runners!Load(i) \/ Runners!Trade(i) \/ Runners!CloseFlat(i)
      PROVE  \A j \in Instances : worker'[j] # None => RestKeeps(worker'[j])
  <2>1. worker[i] # None /\ IsWorker(worker[i]) /\ RestKeeps(worker[i]) /\ known \in Runners!Known
    BY <1>5, WorkerIs DEF Runners!Begin, Runners!Load, Runners!Trade, Runners!CloseFlat, Runners!In, Runners!TypeOK, RestKeeps
  <2>2. \/ worker' = [worker EXCEPT ![i] = [worker[i] EXCEPT !.loop = "locked"]]
        \/ worker' = [worker EXCEPT ![i] = [worker[i] EXCEPT !.loop = "cycle", !.loaded = known]]
        \/ worker' = [worker EXCEPT ![i] = [worker[i] EXCEPT !.loop = "dead", !.age = 0]]
        \/ worker' = [worker EXCEPT ![i] = [worker[i] EXCEPT !.counted = worker[i].counted + 1]]
    BY <1>5 DEF Runners!Begin, Runners!Load, Runners!Trade, Runners!CloseFlat
  <2>3. /\ RestKeeps([worker[i] EXCEPT !.loop = "locked"])
        /\ RestKeeps([worker[i] EXCEPT !.loop = "cycle", !.loaded = known])
        /\ RestKeeps([worker[i] EXCEPT !.loop = "dead", !.age = 0])
        /\ RestKeeps([worker[i] EXCEPT !.counted = worker[i].counted + 1])
    BY <2>1 DEF IsWorker, Runners!AnyWorker, RestKeeps
  <2> QED BY <2>2, <2>3, OneWorkerKeeps
<1>6. ASSUME NEW i \in Instances, Runners!TimeOut(i) \/ Runners!CycleFails(i) \/ Runners!CycleFailsForGood(i)
      PROVE  \A j \in Instances : worker'[j] # None => RestKeeps(worker'[j])
  <2>1. worker[i] # None /\ IsWorker(worker[i])
    BY <1>6, WorkerIs DEF Runners!TimeOut, Runners!CycleFails, Runners!CycleFailsForGood, Runners!Overdue, Runners!Busy, Runners!In
  <2>2. Runners!Recent(worker[i].errors) \in Seq(0 .. Window)
    BY <2>1, RecentIsTyped DEF IsWorker, Runners!AnyWorker
  <2>3. CASE Runners!Failed(i)
    <3> DEFINE window == Runners!Recent(worker[i].errors)
               loop == IF Len(window) >= MaxErrors THEN "dead" ELSE "idle"
    <3>1. worker' = [worker EXCEPT ![i] = [Runners!Succeeded(worker[i]) EXCEPT !.loop = loop, !.errors = window]]
      BY <2>3 DEF Runners!Failed
    <3> HIDE DEF loop, window
    <3>2. window \in Seq(0 .. Window)
      BY <2>2 DEF window
    <3>3. RestKeeps([Runners!Succeeded(worker[i]) EXCEPT !.loop = loop, !.errors = window])
      BY <2>1, <3>2, RestingKeeps
    <3> QED BY <3>1, <3>3, OneWorkerKeeps
  <2>4. CASE Runners!CycleFailsForGood(i)
    <3>1. worker' = [worker EXCEPT ![i] = [Runners!Succeeded(worker[i]) EXCEPT !.loop = "dead"]]
      BY <2>4 DEF Runners!CycleFailsForGood
    <3>2. RestKeeps([Runners!Succeeded(worker[i]) EXCEPT !.loop = "dead"])
      BY <2>1, <2>2, RestingKeeps
    <3> QED BY <3>1, <3>2, OneWorkerKeeps
  <2> QED BY <1>6, <2>3, <2>4 DEF Runners!TimeOut, Runners!CycleFails
<1>7. CASE Runners!Tick
  <2> TAKE j \in Instances
  <2> SUFFICES ASSUME worker'[j] # None PROVE RestKeeps(worker'[j])
    OBVIOUS
  <2> DEFINE older == [k \in DOMAIN worker[j].errors |->
                        IF worker[j].errors[k] < Window THEN worker[j].errors[k] + 1
                        ELSE worker[j].errors[k]]
             age == IF Runners!Busy(j) THEN worker[j].age + 1 ELSE worker[j].age
  <2>1. worker[j] # None /\ worker'[j] = [worker[j] EXCEPT !.age = age, !.errors = older]
    BY <1>7 DEF Runners!Tick
  <2>2. IsWorker(worker[j]) /\ RestKeeps(worker[j])
    BY <2>1, WorkerIs DEF Runners!TypeOK, RestKeeps
  <2>3. older \in Seq(0 .. Window)
    <3>1. worker[j].errors \in Seq(0 .. Window) /\ Window \in Nat
      BY <2>2 DEF RestKeeps, Runners!QuantWorkerParameters
    <3>2. older \in [1 .. Len(worker[j].errors) -> 0 .. Window]
      BY <3>1
    <3>3. Len(worker[j].errors) \in Nat
      BY <3>1
    <3> HIDE DEF older
    <3>4. PICK n \in Nat : older \in [1 .. n -> 0 .. Window]
      BY <3>2, <3>3
    <3> QED BY <3>4, SeqDef
  <2> HIDE DEF older, age
  <2>4. /\ worker'[j].loaded = worker[j].loaded /\ worker'[j].errors = older
    BY <2>1, <2>2 DEF IsWorker, Runners!AnyWorker
  <2> QED BY <2>2, <2>3, <2>4 DEF RestKeeps
<1>8. CASE \/ \E new \in {"active", "paused"} : Runners!SetStatus(new)
           \/ \E i \in Instances : Runners!StartFails(i) \/ Runners!Reclaim(i) \/ Runners!Unanswered(i)
           \/ Runners!OwnerExpires \/ Runners!Trigger \/ Runners!TriggerTrade \/ Runners!TriggerEnds \/ UNCHANGED runnerVars
  BY <1>1, <1>8 DEF Runners!SetStatus, Runners!StartFails, Runners!Reclaim, Runners!Unanswered, Runners!OwnerExpires, Runners!Trigger, Runners!TriggerTrade, Runners!TriggerEnds,
                    runnerVars
<1> QED BY <1>2, <1>3, <1>4, <1>5, <1>6, <1>7, <1>8
  DEF Runners!Next, Runners!StopAgent, Runners!StopLost, Runners!Commit, Runners!EngineFails

LEMMA ScalarsKeep ==
  ASSUME Runners!QuantWorkerParameters, RunnerInv, Runners!TypeOK, [Runners!Next]_runnerVars
  PROVE  /\ status' \in Runners!Statuses /\ placed' \in 0 .. MaxOrders /\ owner' \in Instances \cup {None}
         /\ lockLeft' \in 0 .. LockTTL
         /\ accidents' \in 0 .. MaxAccidents /\ changes' \in 0 .. MaxChanges
<1>1. /\ MaxOrders \in Nat /\ MaxAccidents \in Nat /\ MaxChanges \in Nat
      /\ LockTTL \in Nat /\ LockTTL >= 1
  BY DEF Runners!QuantWorkerParameters
<1>2. /\ status \in Runners!Statuses /\ placed \in 0 .. MaxOrders /\ owner \in Instances \cup {None}
      /\ lockLeft \in 0 .. LockTTL
      /\ accidents \in 0 .. MaxAccidents /\ changes \in 0 .. MaxChanges
  BY DEF Runners!TypeOK
<1>3. \A accident : Runners!Accident(accident) => accidents' \in 0 .. MaxAccidents
  BY <1>1, <1>2 DEF Runners!Accident
<1> USE DEF Runners!Statuses
<1>4. CASE \/ \E new \in {"active", "paused"} : Runners!SetStatus(new)
           \/ \E i \in Instances : Runners!StartAgent(i) \/ Runners!StartFails(i) \/ Runners!Reclaim(i) \/ Runners!Crash(i)
           \/ Runners!OwnerExpires
  BY <1>1, <1>2, <1>3, <1>4 DEF Runners!SetStatus, Runners!StartAgent, Runners!StartFails, Runners!Reclaim, Runners!Crash, Runners!OwnerExpires
<1>5. CASE \E i \in Instances : Runners!StopAgent(i, "paused") \/ Runners!StopLost(i)
  BY <1>1, <1>2, <1>5 DEF Runners!StopAgent, Runners!StopLost, Runners!Stopped, Runners!Unlock
<1>6. CASE \E i \in Instances :
              \/ Runners!Skip(i) \/ Runners!Begin(i) \/ Runners!Load(i) \/ Runners!Trade(i)
              \/ Runners!Unanswered(i) \/ Runners!CloseFlat(i) \/ Runners!Commit(i) \/ Runners!EngineFails(i)
  <2> PICK i \in Instances :
              \/ Runners!Skip(i) \/ Runners!Begin(i) \/ Runners!Load(i) \/ Runners!Trade(i)
              \/ Runners!Unanswered(i) \/ Runners!CloseFlat(i) \/ Runners!Commit(i) \/ Runners!EngineFails(i)
    BY <1>6
  <2>1. UNCHANGED <<status, owner, changes>>
    BY DEF Runners!Skip, Runners!Begin, Runners!Load, Runners!Trade, Runners!Unanswered,
           Runners!CloseFlat, Runners!Commit, Runners!EngineFails
  <2>2. accidents' = accidents \/ accidents' \in 0 .. MaxAccidents
    BY <1>3 DEF Runners!Skip, Runners!Begin, Runners!Load, Runners!Trade, Runners!Unanswered,
           Runners!CloseFlat, Runners!Commit, Runners!EngineFails
  <2>3. lockLeft' \in {0, lockLeft, LockTTL}
    BY DEF Runners!Skip, Runners!Begin, Runners!Load, Runners!Trade, Runners!Unanswered,
           Runners!CloseFlat, Runners!Commit, Runners!EngineFails, Runners!Recorded, Runners!Unlock
  <2>4. placed' \in 0 .. MaxOrders
    BY <1>1, <1>2 DEF Runners!Skip, Runners!Begin, Runners!Load, Runners!Trade, Runners!Unanswered,
           Runners!CloseFlat, Runners!Commit, Runners!EngineFails
  <2> QED BY <1>1, <1>2, <2>1, <2>2, <2>3, <2>4
<1>7. CASE \E i \in Instances : Runners!TimeOut(i) \/ Runners!CycleFails(i) \/ Runners!CycleFailsForGood(i)
  <2> PICK i \in Instances : Runners!TimeOut(i) \/ Runners!CycleFails(i) \/ Runners!CycleFailsForGood(i)
    BY <1>7
  <2>1. status' \in {"error", status} /\ lockLeft' \in {0, lockLeft}
    BY DEF Runners!TimeOut, Runners!CycleFails, Runners!CycleFailsForGood, Runners!Failed, Runners!Unlock
  <2>2. UNCHANGED <<placed, owner, changes>> /\ accidents' \in 0 .. MaxAccidents
    BY <1>3 DEF Runners!TimeOut, Runners!CycleFails, Runners!CycleFailsForGood
  <2> QED BY <1>1, <1>2, <2>1, <2>2
<1>8. CASE Runners!Trigger \/ Runners!TriggerTrade \/ Runners!TriggerEnds
  BY <1>1, <1>2, <1>3, <1>8 DEF Runners!Trigger, Runners!TriggerTrade, Runners!TriggerEnds
<1>9. CASE Runners!Tick
  <2>1. UNCHANGED <<status, placed, owner, accidents, changes>>
    BY <1>9 DEF Runners!Tick
  <2>2. lockLeft' = 1 \/ lockLeft' = 0 \/ (lockLeft' = lockLeft - 1 /\ lockLeft # 0)
    BY <1>9 DEF Runners!Tick
  <2> QED BY <1>1, <1>2, <2>1, <2>2
<1>10. CASE UNCHANGED runnerVars
  BY <1>2, <1>10 DEF runnerVars
<1> QED BY <1>4, <1>5, <1>6, <1>7, <1>8, <1>9, <1>10 DEF Runners!Next

(* Every close without an order is an accident.                             *)
LEMMA PhantomsAreAccidents ==
  ASSUME Runners!TypeOK, [Runners!Next]_runnerVars, phantom <= accidents
  PROVE  phantom' <= accidents'
<1>1. accidents \in Nat /\ phantom \in Nat
  BY DEF Runners!TypeOK
<1>2. \A kind : Runners!Accident(kind) => accidents' = accidents + 1
  BY DEF Runners!Accident
<1>3. CASE UNCHANGED runnerVars
  BY <1>3 DEF runnerVars
<1>4. CASE \E i \in Instances : Runners!CloseFlat(i)
  BY <1>1, <1>2, <1>4 DEF Runners!CloseFlat
<1>5. CASE \/ \E new \in {"active", "paused"} : Runners!SetStatus(new)
           \/ \E i \in Instances :
                 \/ Runners!StartAgent(i) \/ Runners!StartFails(i) \/ Runners!StopAgent(i, "paused")
                 \/ Runners!StopLost(i) \/ Runners!Reclaim(i) \/ Runners!Crash(i)
           \/ Runners!OwnerExpires \/ Runners!Tick
  <2>1. phantom' = phantom /\ (accidents' = accidents \/ accidents' = accidents + 1)
    BY <1>2, <1>5 DEF Runners!SetStatus, Runners!StartAgent, Runners!StartFails, Runners!StopAgent,
       Runners!StopLost, Runners!Reclaim, Runners!Crash, Runners!OwnerExpires, Runners!Tick
  <2> QED BY <1>1, <2>1
<1>6. CASE \E i \in Instances :
              \/ Runners!Skip(i) \/ Runners!Begin(i) \/ Runners!Load(i) \/ Runners!Trade(i)
              \/ Runners!Unanswered(i) \/ Runners!Commit(i) \/ Runners!EngineFails(i)
              \/ Runners!TimeOut(i) \/ Runners!CycleFails(i) \/ Runners!CycleFailsForGood(i)
  <2>1. phantom' = phantom /\ (accidents' = accidents \/ accidents' = accidents + 1)
    BY <1>2, <1>6 DEF Runners!Skip, Runners!Begin, Runners!Load, Runners!Trade, Runners!Unanswered,
       Runners!Commit, Runners!EngineFails, Runners!TimeOut, Runners!CycleFails,
       Runners!CycleFailsForGood
  <2> QED BY <1>1, <2>1
<1>7. CASE Runners!Trigger \/ Runners!TriggerTrade \/ Runners!TriggerEnds
  <2>1. phantom' = phantom /\ (accidents' = accidents \/ accidents' = accidents + 1)
    BY <1>2, <1>7 DEF Runners!Trigger, Runners!TriggerTrade, Runners!TriggerEnds
  <2> QED BY <1>1, <2>1
<1> QED BY <1>3, <1>4, <1>5, <1>6, <1>7 DEF Runners!Next

LEMMA RunnerTypedInit == Runners!QuantWorkerParameters /\ Runners!Init => RunnerTyped
BY DEF Runners!Init, RunnerTyped, Runners!Statuses, Runners!QuantWorkerParameters

LEMMA RunnerTypedNext ==
  ASSUME Runners!QuantWorkerParameters, RunnerInv, RunnerTyped, [Runners!Next]_runnerVars
  PROVE  RunnerTyped'
<1>1. Runners!TypeOK
  BY RunnerTypesSuffice
<1>2. \A j \in Instances : worker'[j] # None => RestKeeps(worker'[j])
  BY <1>1, WorkersKeep
<1>3. /\ status' \in Runners!Statuses /\ placed' \in 0 .. MaxOrders /\ owner' \in Instances \cup {None}
      /\ lockLeft' \in 0 .. LockTTL
      /\ accidents' \in 0 .. MaxAccidents /\ changes' \in 0 .. MaxChanges
  BY <1>1, ScalarsKeep
<1>4. phantom' <= accidents'
  BY <1>1, PhantomsAreAccidents DEF RunnerTyped
<1> QED BY <1>2, <1>3, <1>4 DEF RunnerTyped

-----------------------------------------------------------------------------
(* Reports: a day's change is the distance from the day before, in the      *)
(* tables and in every row that is about to be written.                     *)

\* Every row of the day after the current one is still to come.
FutureIsEmpty ==
    \A d \in Snapshots!Days : d > day =>
        /\ \A a \in Accounts : accountRow[a][d] = None
        /\ \A g \in Agents : agentRow[g][d] = None

\* The change of a row leads from the day before, if that has a row.
Follows(table) ==
    \A d \in 1 .. MaxDay : table[d] # None /\ table[d - 1] # None =>
        table[d].change = table[d].level - table[d - 1].level

\* A row that may become today's of an account.
Fits(a, r) ==
    /\ r \in Snapshots!AccountRow
    /\ day > 0 /\ accountRow[a][day - 1] # None => r.change = r.level - accountRow[a][day - 1].level

PendingFits ==
    /\ sync.step = "fetched" => sync.account \in Accounts /\ sync.level \in 1 .. MaxLevel
    /\ sync.step = "looked" => sync.account \in Accounts /\ Fits(sync.account, sync.row)
    /\ job.at # None => Fits(job.at, job.row)
    /\ \A a \in Accounts : job.rows[a] # None => Fits(a, job.rows[a])

JobType ==
    [step : {"due", "running", "done"}, todo : SUBSET Accounts, at : Accounts \cup {None},
     row : Snapshots!AccountRow \cup {None}, exists : BOOLEAN,
     rows : [Accounts -> Snapshots!AccountRow \cup {None}]]

SyncType ==
    [step : {"idle", "fetched", "looked"}, account : Accounts \cup {None}, level : Nat,
     row : Snapshots!AccountRow \cup {None}, exists : BOOLEAN]

ReportTyped ==
    /\ day \in Snapshots!Days
    /\ equity \in [Accounts -> 1 .. MaxLevel]
    /\ reachable \subseteq Accounts /\ active \subseteq Agents
    /\ result \in [Agents -> -MaxLevel .. MaxLevel]
    /\ accountRow \in [Accounts -> [Snapshots!Days -> Snapshots!AccountRow \cup {None}]]
    /\ agentRow \in [Agents -> [Snapshots!Days -> Snapshots!AgentRow \cup {None}]]
    /\ job \in JobType /\ sync \in SyncType
    /\ startEquity \in Int \cup {None}
    /\ shown \in [Accounts -> (1 .. MaxLevel) \cup {None}]
    /\ moves \in 0 .. MaxMoves

ChangesFollow ==
    /\ \A a \in Accounts : Follows(accountRow[a])
    /\ \A g \in Agents : Follows(agentRow[g])

ReportInv == ReportTyped /\ FutureIsEmpty /\ ChangesFollow /\ PendingFits

LEMMA ReportTypesSuffice == ReportTyped => Snapshots!TypeOK
BY DEF ReportTyped, JobType, SyncType, Snapshots!TypeOK

LEMMA ReportInit ==
  ASSUME Snapshots!ReportParameters, Snapshots!Init
  PROVE  ReportInv
<1> USE DEF Snapshots!ReportParameters, Snapshots!Init, Snapshots!Days
<1>1. ReportTyped
  BY DEF ReportTyped, JobType, SyncType, Snapshots!NoJob, Snapshots!NoSync
<1>2. FutureIsEmpty /\ ChangesFollow
  BY DEF FutureIsEmpty, ChangesFollow, Follows
<1>3. PendingFits
  BY DEF PendingFits, Snapshots!NoJob, Snapshots!NoSync
<1> QED BY <1>1, <1>2, <1>3 DEF ReportInv

LEMMA NewRowsFit ==
  ASSUME Snapshots!ReportParameters, ReportInv
  PROVE  /\ \A a \in Accounts, l \in 1 .. MaxLevel : Fits(a, Snapshots!NewAccountRow(a, l))
         /\ \A g \in Agents :
               /\ Snapshots!NewAgentRow(g) \in Snapshots!AgentRow
               /\ day > 0 /\ agentRow[g][day - 1] # None =>
                     Snapshots!NewAgentRow(g).change =
                        Snapshots!NewAgentRow(g).level - agentRow[g][day - 1].level
<1>1. day \in Nat /\ (day > 0 => day - 1 \in Snapshots!Days)
  BY DEF Snapshots!ReportParameters, Snapshots!Days, ReportInv, ReportTyped
<1>2. ASSUME NEW a \in Accounts, NEW l \in 1 .. MaxLevel
      PROVE  Fits(a, Snapshots!NewAccountRow(a, l))
  <2> DEFINE r == Snapshots!NewAccountRow(a, l)
  <2>1. l \in Int
    BY DEF Snapshots!ReportParameters
  <2>2. r = [level |-> l, change |-> Snapshots!AccountChange(a, l)]
    BY DEF Snapshots!NewAccountRow
  <2>3. CASE Snapshots!Yesterday(accountRow[a]) = None
    <3>1. Snapshots!AccountChange(a, l) = 0
      BY <2>3 DEF Snapshots!AccountChange
    <3>2. ~(day > 0 /\ accountRow[a][day - 1] # None)
      BY <1>1, <2>3 DEF Snapshots!Yesterday
    <3> HIDE DEF r
    <3> QED BY <2>2, <3>1, <3>2 DEF Fits, r, Snapshots!AccountRow
  <2>4. CASE Snapshots!Yesterday(accountRow[a]) # None
    <3>1. Snapshots!AccountChange(a, l) = l - accountRow[a][day - 1].level
      BY <2>4 DEF Snapshots!AccountChange
    <3>2. day > 0 /\ accountRow[a][day - 1] # None
      BY <1>1, <2>4 DEF Snapshots!Yesterday
    <3>3. accountRow[a][day - 1] \in Snapshots!AccountRow
      BY <1>1, <3>2 DEF ReportInv, ReportTyped
    <3>4. l - accountRow[a][day - 1].level \in Int
      BY <2>1, <3>3 DEF Snapshots!AccountRow, Snapshots!ReportParameters
    <3> QED BY <2>2, <3>1, <3>4 DEF Fits, Snapshots!AccountRow
  <2> QED BY <2>3, <2>4
<1>3. ASSUME NEW g \in Agents
      PROVE  /\ Snapshots!NewAgentRow(g) \in Snapshots!AgentRow
             /\ day > 0 /\ agentRow[g][day - 1] # None =>
                   Snapshots!NewAgentRow(g).change =
                      Snapshots!NewAgentRow(g).level - agentRow[g][day - 1].level
  <2>1. result[g] \in Int
    BY DEF Snapshots!ReportParameters, ReportInv, ReportTyped
  <2>2. Snapshots!NewAgentRow(g) = [level |-> result[g], change |-> Snapshots!AgentChange(g)]
    BY DEF Snapshots!NewAgentRow
  <2>3. CASE Snapshots!Yesterday(agentRow[g]) = None
    <3>1. Snapshots!AgentChange(g) = result[g]
      BY <2>3 DEF Snapshots!AgentChange
    <3>2. ~(day > 0 /\ agentRow[g][day - 1] # None)
      BY <1>1, <2>3 DEF Snapshots!Yesterday
    <3> QED BY <2>1, <2>2, <3>1, <3>2 DEF Snapshots!AgentRow
  <2>4. CASE Snapshots!Yesterday(agentRow[g]) # None
    <3>1. Snapshots!AgentChange(g) = result[g] - agentRow[g][day - 1].level
      BY <2>4 DEF Snapshots!AgentChange
    <3>2. day > 0 /\ agentRow[g][day - 1] # None
      BY <1>1, <2>4 DEF Snapshots!Yesterday
    <3>3. agentRow[g][day - 1] \in Snapshots!AgentRow
      BY <1>1, <3>2 DEF ReportInv, ReportTyped
    <3>4. result[g] - agentRow[g][day - 1].level \in Int
      BY <2>1, <3>3 DEF Snapshots!AgentRow
    <3> QED BY <2>1, <2>2, <3>1, <3>4 DEF Snapshots!AgentRow
  <2> QED BY <2>3, <2>4
<1> QED BY <1>2, <1>3

(* Steps of the world and of the dashboard touch no row.                    *)
LEMMA RowsUntouched ==
  ASSUME ReportInv, UNCHANGED <<day, accountRow, agentRow, job, sync>>
  PROVE  FutureIsEmpty' /\ ChangesFollow' /\ PendingFits'
BY DEF ReportInv, FutureIsEmpty, ChangesFollow, Follows, PendingFits, Fits

LEMMA WorldKeeps ==
  ASSUME Snapshots!ReportParameters, ReportInv,
         \/ \E a \in Accounts : \/ Snapshots!EquityMoves(a) \/ Snapshots!ConnectionTested(a)
                                \/ Snapshots!BalanceExpires(a)
         \/ \E g \in Agents : Snapshots!AgentTrades(g) \/ Snapshots!StatusChanges(g)
  PROVE  ReportInv'
<1> USE DEF Snapshots!ReportParameters, Snapshots!Moves, Snapshots!dashboard, Snapshots!world
<1>1. UNCHANGED <<day, accountRow, agentRow, job, sync>>
  BY DEF Snapshots!EquityMoves, Snapshots!ConnectionTested, Snapshots!BalanceExpires,
         Snapshots!AgentTrades, Snapshots!StatusChanges
<1>2. moves' \in 0 .. MaxMoves
  BY DEF ReportInv, ReportTyped, Snapshots!EquityMoves, Snapshots!ConnectionTested,
         Snapshots!BalanceExpires, Snapshots!AgentTrades, Snapshots!StatusChanges
<1>3. equity' \in [Accounts -> 1 .. MaxLevel] /\ result' \in [Agents -> -MaxLevel .. MaxLevel]
  BY DEF ReportInv, ReportTyped, Snapshots!EquityMoves, Snapshots!ConnectionTested,
         Snapshots!BalanceExpires, Snapshots!AgentTrades, Snapshots!StatusChanges
<1>4. reachable' \subseteq Accounts /\ active' \subseteq Agents
  BY DEF ReportInv, ReportTyped, Snapshots!EquityMoves, Snapshots!ConnectionTested,
         Snapshots!BalanceExpires, Snapshots!AgentTrades, Snapshots!StatusChanges
<1>5. shown' \in [Accounts -> (1 .. MaxLevel) \cup {None}] /\ startEquity' = startEquity
  BY DEF ReportInv, ReportTyped, Snapshots!EquityMoves, Snapshots!ConnectionTested,
         Snapshots!BalanceExpires, Snapshots!AgentTrades, Snapshots!StatusChanges
<1>6. ReportTyped'
  BY <1>1, <1>2, <1>3, <1>4, <1>5 DEF ReportInv, ReportTyped
<1> QED BY <1>1, <1>6, RowsUntouched DEF ReportInv

LEMMA SameFiniteness == \A S : Snapshots!IsFiniteSet(S) <=> IsFiniteSet(S)
BY DEF Snapshots!IsFiniteSet, IsFiniteSet

LEMMA SameTotal == \A f, S : Snapshots!Total(f, S) = Total(f, S)
BY DEF Snapshots!Total, Total

LEMMA DashboardKeeps ==
  ASSUME Snapshots!ReportParameters, ReportInv, NEW answering \in SUBSET Accounts,
         Snapshots!GetDashboardStats(answering)
  PROVE  ReportInv'
<1> DEFINE counted == {a \in reachable : shown[a] # None \/ a \in answering}
           levels == [a \in Accounts |-> Snapshots!LevelOf(a)]
<1>1. /\ UNCHANGED <<day, accountRow, agentRow, job, sync>>
      /\ UNCHANGED <<equity, reachable, result, active, moves>>
      /\ shown' = [a \in Accounts |-> IF a \in counted THEN Snapshots!LevelOf(a) ELSE shown[a]]
      /\ startEquity' = Snapshots!Baseline(Total(levels, counted))
  BY SameTotal DEF Snapshots!GetDashboardStats, Snapshots!world
<1>2. \A a \in Accounts : Snapshots!LevelOf(a) \in 1 .. MaxLevel
  BY DEF Snapshots!LevelOf, ReportInv, ReportTyped
<1>3. shown' \in [Accounts -> (1 .. MaxLevel) \cup {None}]
  BY <1>1, <1>2 DEF ReportInv, ReportTyped
<1>4. counted \subseteq Accounts
  BY DEF ReportInv, ReportTyped
<1>5. \A a \in counted : levels[a] \in Int
  BY <1>2, <1>4 DEF Snapshots!ReportParameters
<1> HIDE DEF counted, levels
<1>6. IsFiniteSet(counted)
  <2>1. IsFiniteSet(Accounts)
    BY SameFiniteness DEF Snapshots!ReportParameters
  <2> QED BY <1>4, <2>1, FS_Subset
<1>7. Total(levels, counted) \in Int
  BY <1>5, <1>6, SumIsInt
<1>8. startEquity' \in Int \cup {None}
  BY <1>1, <1>7 DEF Snapshots!Baseline, ReportInv, ReportTyped
<1>9. ReportTyped'
  BY <1>1, <1>3, <1>8 DEF ReportInv, ReportTyped
<1> QED BY <1>1, <1>9, RowsUntouched DEF ReportInv

-----------------------------------------------------------------------------
(* The transactions.  A row that fits today's place fits the tables.        *)

\* What a table becomes when today's rows of some of its keys are written.
LEMMA RowWritten ==
  ASSUME NEW table, NEW r, NEW R, day \in Snapshots!Days, MaxDay \in Nat,
         table \in [Snapshots!Days -> R \cup {None}], Follows(table),
         \A d \in Snapshots!Days : d > day => table[d] = None,
         r \in R,
         day > 0 /\ table[day - 1] # None => r.change = r.level - table[day - 1].level
  PROVE  /\ [table EXCEPT ![day] = r] \in [Snapshots!Days -> R \cup {None}]
         /\ Follows([table EXCEPT ![day] = r])
         /\ \A d \in Snapshots!Days : d > day => [table EXCEPT ![day] = r][d] = None
         /\ day > 0 => [table EXCEPT ![day] = r][day - 1] = table[day - 1]
<1> DEFINE new == [table EXCEPT ![day] = r]
<1>1. /\ new \in [Snapshots!Days -> R \cup {None}]
      /\ new[day] = r
      /\ \A d \in Snapshots!Days : d # day => new[d] = table[d]
  OBVIOUS
<1>2. day \in 0 .. MaxDay /\ Snapshots!Days = 0 .. MaxDay
  BY DEF Snapshots!Days
<1> HIDE DEF new
<1>3. \A d \in Snapshots!Days : d > day => new[d] = None
  BY <1>1, <1>2
<1>4. day > 0 => new[day - 1] = table[day - 1]
  BY <1>1, <1>2
<1>5. Follows(new)
  <2> SUFFICES ASSUME NEW d \in 1 .. MaxDay, new[d] # None, new[d - 1] # None
               PROVE  new[d].change = new[d].level - new[d - 1].level
    BY DEF Follows
  <2>1. d \in Snapshots!Days /\ d - 1 \in Snapshots!Days /\ d \in Nat /\ d - 1 \in Nat
    BY <1>2
  <2>2. CASE d = day
    BY <1>1, <1>2, <1>4, <2>1, <2>2
  <2>3. CASE d # day
    <3>1. d - 1 # day
      BY <1>2, <1>3, <2>1, <2>3
    <3> QED BY <1>1, <2>1, <2>3, <3>1 DEF Follows
  <2> QED BY <2>2, <2>3
<1> QED BY <1>1, <1>3, <1>4, <1>5 DEF new

LEMMA TransactionsKeep ==
  ASSUME Snapshots!ReportParameters, ReportInv,
         \/ Snapshots!JobStarts \/ Snapshots!JobFlushes \/ Snapshots!JobLost \/ Snapshots!SyncLooks
         \/ \E a \in Accounts : \/ Snapshots!JobPasses(a) \/ Snapshots!JobLooks(a)
                                \/ Snapshots!SyncFetches(a)
  PROVE  ReportInv'
<1> USE DEF Snapshots!dashboard, Snapshots!world
<1>1. UNCHANGED <<day, accountRow, agentRow, equity, reachable, result, active, moves,
                  startEquity, shown>>
  BY DEF Snapshots!JobStarts, Snapshots!JobFlushes, Snapshots!JobLost, Snapshots!SyncLooks,
         Snapshots!JobPasses, Snapshots!JobLooks, Snapshots!SyncFetches
<1>2. FutureIsEmpty' /\ ChangesFollow'
  BY <1>1 DEF ReportInv, FutureIsEmpty, ChangesFollow, Follows
<1>3. \A a, r : Fits(a, r)' <=> Fits(a, r)
  BY <1>1 DEF Fits
<1> SUFFICES job' \in JobType /\ sync' \in SyncType /\ PendingFits'
  BY <1>1, <1>2 DEF ReportInv, ReportTyped
<1>4. \A a \in Accounts, l \in 1 .. MaxLevel :
         Snapshots!NewAccountRow(a, l) \in Snapshots!AccountRow /\ Fits(a, Snapshots!NewAccountRow(a, l))
  BY NewRowsFit DEF Fits
<1> USE DEF ReportInv, ReportTyped, PendingFits
<1>5. CASE Snapshots!JobStarts \/ Snapshots!JobLost
  <2>1. sync' = sync /\ job'.step \in {"running", "done"} /\ job'.todo \subseteq Accounts
        /\ job' = [step |-> job'.step, todo |-> job'.todo, at |-> None, row |-> None,
                   exists |-> FALSE, rows |-> [a \in Accounts |-> None]]
    BY <1>5 DEF Snapshots!JobStarts, Snapshots!JobLost, Snapshots!NoJob
  <2> DEFINE none == [a \in Accounts |-> None]
  <2>2. none \in [Accounts -> Snapshots!AccountRow \cup {None}] /\ \A a \in Accounts : none[a] = None
    OBVIOUS
  <2>3. /\ job'.step \in {"running", "done"} /\ job'.todo \in SUBSET Accounts
        /\ job' = [step |-> job'.step, todo |-> job'.todo, at |-> None, row |-> None,
                   exists |-> FALSE, rows |-> none]
    BY <2>1
  <2> HIDE DEF none
  <2>4. job'.at = None /\ job'.rows = none
    BY <2>3
  <2>5. [step |-> job'.step, todo |-> job'.todo, at |-> None, row |-> None,
         exists |-> FALSE, rows |-> none] \in JobType
    BY <2>2, <2>3 DEF JobType
  <2> QED BY <1>3, <2>1, <2>2, <2>3, <2>4, <2>5
<1>6. CASE \E a \in Accounts : Snapshots!JobPasses(a)
  <2>1. PICK a \in Accounts : Snapshots!JobPasses(a)
    BY <1>6
  <2>2. sync' = sync /\ job.at = None /\ job' = [job EXCEPT !.todo = @ \ {a}]
    BY <2>1 DEF Snapshots!JobPasses
  <2>3. job' \in JobType /\ job'.at = None /\ job'.rows = job.rows
    BY <2>2 DEF JobType
  <2> QED BY <1>3, <2>2, <2>3
<1>7. CASE \E a \in Accounts : Snapshots!JobLooks(a)
  <2>1. PICK a \in Accounts : Snapshots!JobLooks(a)
    BY <1>7
  <2>2. /\ sync' = sync
        /\ job' = [job EXCEPT !.at = a, !.todo = @ \ {a}, !.row = Snapshots!NewAccountRow(a, equity[a]),
                             !.exists = accountRow[a][day] # None]
    BY <2>1 DEF Snapshots!JobLooks
  <2>3. Fits(a, Snapshots!NewAccountRow(a, equity[a])) /\ Snapshots!NewAccountRow(a, equity[a]) \in Snapshots!AccountRow
    BY <1>4
  <2> QED BY <1>3, <2>2, <2>3 DEF JobType
<1>8. CASE Snapshots!JobFlushes
  <2>1. CASE ~job.exists /\ accountRow[job.at][day] # None
    BY <1>3, <1>8, <2>1 DEF JobType, Snapshots!JobFlushes, Snapshots!NoJob
  <2>2. CASE ~(~job.exists /\ accountRow[job.at][day] # None)
    <3>1. /\ sync' = sync /\ job.at \in Accounts /\ Fits(job.at, job.row)
          /\ job' = [job EXCEPT !.rows[job.at] = job.row, !.at = None, !.row = None, !.exists = FALSE]
      BY <1>8, <2>2 DEF Snapshots!JobFlushes, JobType
    <3>2. job.row \in Snapshots!AccountRow
      BY <3>1 DEF Fits
    <3> QED BY <1>3, <3>1, <3>2 DEF JobType
  <2> QED BY <2>1, <2>2
<1>9. CASE \E a \in Accounts : Snapshots!SyncFetches(a)
  <2>1. PICK a \in Accounts : Snapshots!SyncFetches(a)
    BY <1>9
  <2>2. equity[a] \in 1 .. MaxLevel /\ equity[a] \in Nat
    BY DEF Snapshots!ReportParameters
  <2>3. /\ job' = job
        /\ sync' = [step |-> "fetched", account |-> a, level |-> equity[a], row |-> None, exists |-> FALSE]
    BY <2>1 DEF Snapshots!SyncFetches, Snapshots!NoSync
  <2>4. sync' \in SyncType
    BY <2>2, <2>3 DEF SyncType
  <2> QED BY <1>3, <2>2, <2>3, <2>4
<1>10. CASE Snapshots!SyncLooks
  <2>1. /\ job' = job /\ sync.account \in Accounts /\ sync.level \in 1 .. MaxLevel
        /\ sync' = [sync EXCEPT !.step = "looked",
                                !.row = Snapshots!NewAccountRow(sync.account, sync.level),
                                !.exists = accountRow[sync.account][day] # None]
    BY <1>10 DEF Snapshots!SyncLooks
  <2> QED BY <1>3, <1>4, <2>1 DEF SyncType
<1> QED BY <1>5, <1>6, <1>7, <1>8, <1>9, <1>10, SMTT(60)

LEMMA MidnightKeeps ==
  ASSUME Snapshots!ReportParameters, ReportInv, Snapshots!Midnight
  PROVE  ReportInv'
<1>1. /\ day' = day + 1 /\ day < MaxDay /\ day \in 0 .. MaxDay /\ MaxDay \in Nat
      /\ sync = Snapshots!NoSync /\ job' = Snapshots!NoJob /\ startEquity' = None
      /\ UNCHANGED <<accountRow, agentRow, sync, shown, equity, reachable, result, active, moves>>
  BY DEF Snapshots!Midnight, Snapshots!world, ReportInv, ReportTyped, Snapshots!Days,
         Snapshots!ReportParameters
<1>2. day' \in Snapshots!Days
  BY <1>1 DEF Snapshots!Days
<1> DEFINE none == [a \in Accounts |-> None]
<1>3. none \in [Accounts -> Snapshots!AccountRow \cup {None}] /\ \A a \in Accounts : none[a] = None
  OBVIOUS
<1>4. job' = [step |-> "due", todo |-> {}, at |-> None, row |-> None, exists |-> FALSE, rows |-> none]
  BY <1>1 DEF Snapshots!NoJob
<1> HIDE DEF none
<1>5. job' \in JobType /\ job'.at = None /\ job'.rows = none
  BY <1>3, <1>4 DEF JobType
<1>6. ReportTyped'
  BY <1>1, <1>2, <1>5 DEF ReportInv, ReportTyped
<1>7. FutureIsEmpty'
  <2>1. \A d \in Snapshots!Days : d > day' => d > day
    BY <1>1 DEF Snapshots!Days
  <2> QED BY <1>1, <2>1 DEF ReportInv, FutureIsEmpty
<1>8. ChangesFollow'
  BY <1>1 DEF ReportInv, ChangesFollow, Follows
<1>9. PendingFits'
  BY <1>1, <1>3, <1>5 DEF PendingFits, Snapshots!NoSync
<1> QED BY <1>6, <1>7, <1>8, <1>9 DEF ReportInv

\* The tables of a day on which one row of each of some accounts is written.
LEMMA AccountsWritten ==
  ASSUME Snapshots!ReportParameters, ReportInv, NEW a \in Accounts, NEW r, Fits(a, r)
  PROVE  LET new == [accountRow[a] EXCEPT ![day] = r]
         IN  /\ new \in [Snapshots!Days -> Snapshots!AccountRow \cup {None}] /\ Follows(new)
             /\ \A d \in Snapshots!Days : d > day => new[d] = None
             /\ day > 0 => new[day - 1] = accountRow[a][day - 1]
<1>1. day \in Snapshots!Days /\ MaxDay \in Nat
  BY DEF Snapshots!ReportParameters, ReportInv, ReportTyped
<1>2. accountRow[a] \in [Snapshots!Days -> Snapshots!AccountRow \cup {None}] /\ Follows(accountRow[a])
  BY DEF ReportInv, ReportTyped, ChangesFollow
<1>3. \A d \in Snapshots!Days : d > day => accountRow[a][d] = None
  BY DEF ReportInv, FutureIsEmpty
<1>4. r \in Snapshots!AccountRow
      /\ (day > 0 /\ accountRow[a][day - 1] # None => r.change = r.level - accountRow[a][day - 1].level)
  BY DEF Fits
<1> QED BY <1>1, <1>2, <1>3, <1>4, RowWritten

LEMMA AgentsWritten ==
  ASSUME Snapshots!ReportParameters, ReportInv, NEW g \in Agents
  PROVE  LET new == [agentRow[g] EXCEPT ![day] = Snapshots!NewAgentRow(g)]
         IN  /\ new \in [Snapshots!Days -> Snapshots!AgentRow \cup {None}] /\ Follows(new)
             /\ \A d \in Snapshots!Days : d > day => new[d] = None
<1>1. day \in Snapshots!Days /\ MaxDay \in Nat
  BY DEF Snapshots!ReportParameters, ReportInv, ReportTyped
<1>2. agentRow[g] \in [Snapshots!Days -> Snapshots!AgentRow \cup {None}] /\ Follows(agentRow[g])
  BY DEF ReportInv, ReportTyped, ChangesFollow
<1>3. \A d \in Snapshots!Days : d > day => agentRow[g][d] = None
  BY DEF ReportInv, FutureIsEmpty
<1> DEFINE r == Snapshots!NewAgentRow(g)
<1>4. r \in Snapshots!AgentRow
      /\ (day > 0 /\ agentRow[g][day - 1] # None => r.change = r.level - agentRow[g][day - 1].level)
  BY NewRowsFit
<1> HIDE DEF r
<1>5. LET new == [agentRow[g] EXCEPT ![day] = r]
      IN  /\ new \in [Snapshots!Days -> Snapshots!AgentRow \cup {None}] /\ Follows(new)
          /\ \A d \in Snapshots!Days : d > day => new[d] = None
  BY <1>1, <1>2, <1>3, <1>4, RowWritten
<1> QED BY <1>5 DEF r

(* Whatever rows are written today, what is still pending fits the day before.*)
LEMMA PendingStillFits ==
  ASSUME ReportInv, day' = day,
         \A a \in Accounts : day > 0 => accountRow'[a][day - 1] = accountRow[a][day - 1]
  PROVE  \A r : \A a \in Accounts : Fits(a, r) => Fits(a, r)'
BY DEF Fits

LEMMA JobCommitsKeeps ==
  ASSUME Snapshots!ReportParameters, ReportInv, Snapshots!JobCommits
  PROVE  ReportInv'
<1>1. /\ UNCHANGED <<day, sync, equity, reachable, result, active, moves, startEquity, shown>>
      /\ accountRow' = [a \in Accounts |->
            IF job.rows[a] = None THEN accountRow[a]
            ELSE [accountRow[a] EXCEPT ![day] = job.rows[a]]]
      /\ agentRow' = [g \in Agents |->
            IF g \in active THEN [agentRow[g] EXCEPT ![day] = Snapshots!NewAgentRow(g)] ELSE agentRow[g]]
      /\ job' = [Snapshots!NoJob EXCEPT !.step = "done"]
  BY DEF Snapshots!JobCommits, Snapshots!world, Snapshots!dashboard
<1>2. ASSUME NEW a \in Accounts
      PROVE  /\ accountRow'[a] \in [Snapshots!Days -> Snapshots!AccountRow \cup {None}]
             /\ Follows(accountRow'[a])
             /\ \A d \in Snapshots!Days : d > day => accountRow'[a][d] = None
             /\ day > 0 => accountRow'[a][day - 1] = accountRow[a][day - 1]
  <2>1. CASE job.rows[a] = None
    BY <1>1, <2>1 DEF ReportInv, ReportTyped, FutureIsEmpty, ChangesFollow
  <2>2. CASE job.rows[a] # None
    <3>1. Fits(a, job.rows[a])
      BY <2>2 DEF ReportInv, PendingFits
    <3>2. accountRow'[a] = [accountRow[a] EXCEPT ![day] = job.rows[a]]
      BY <1>1, <2>2
    <3> QED BY <3>1, <3>2, AccountsWritten
  <2> QED BY <2>1, <2>2
<1>3. ASSUME NEW g \in Agents
      PROVE  /\ agentRow'[g] \in [Snapshots!Days -> Snapshots!AgentRow \cup {None}]
             /\ Follows(agentRow'[g])
             /\ \A d \in Snapshots!Days : d > day => agentRow'[g][d] = None
  <2>1. CASE g \notin active
    BY <1>1, <2>1 DEF ReportInv, ReportTyped, FutureIsEmpty, ChangesFollow
  <2>2. CASE g \in active
    <3>1. agentRow'[g] = [agentRow[g] EXCEPT ![day] = Snapshots!NewAgentRow(g)]
      BY <1>1, <2>2
    <3> QED BY <3>1, AgentsWritten
  <2> QED BY <2>1, <2>2
<1>4. /\ accountRow' \in [Accounts -> [Snapshots!Days -> Snapshots!AccountRow \cup {None}]]
      /\ agentRow' \in [Agents -> [Snapshots!Days -> Snapshots!AgentRow \cup {None}]]
  BY <1>1, <1>2, <1>3
<1> DEFINE none == [a \in Accounts |-> None]
<1>5. none \in [Accounts -> Snapshots!AccountRow \cup {None}] /\ \A a \in Accounts : none[a] = None
  OBVIOUS
<1>6. job' = [step |-> "done", todo |-> {}, at |-> None, row |-> None, exists |-> FALSE, rows |-> none]
  BY <1>1 DEF Snapshots!NoJob
<1> HIDE DEF none
<1>7. job' \in JobType /\ job'.at = None /\ job'.rows = none
  BY <1>5, <1>6 DEF JobType
<1>8. ReportTyped'
  BY <1>1, <1>4, <1>7 DEF ReportInv, ReportTyped
<1>9. FutureIsEmpty' /\ ChangesFollow'
  <2>1. \A t : Follows(t)' <=> Follows(t)
    BY DEF Follows
  <2>2. FutureIsEmpty'
    <3>1. day' = day
      BY <1>1
    <3>2. \A a \in Accounts : \A d \in Snapshots!Days : d > day => accountRow'[a][d] = None
      BY <1>2
    <3>3. \A g \in Agents : \A d \in Snapshots!Days : d > day => agentRow'[g][d] = None
      BY <1>3
    <3> QED BY <3>1, <3>2, <3>3 DEF FutureIsEmpty
  <2> QED BY <1>2, <1>3, <2>1, <2>2 DEF ChangesFollow
<1>10. PendingFits'
  <2>1. \A r : \A a \in Accounts : Fits(a, r) => Fits(a, r)'
    BY <1>1, <1>2, PendingStillFits
  <2> QED BY <1>1, <1>5, <1>7, <2>1 DEF ReportInv, PendingFits
<1> QED BY <1>8, <1>9, <1>10 DEF ReportInv

LEMMA SyncWritesKeeps ==
  ASSUME Snapshots!ReportParameters, ReportInv, Snapshots!SyncWrites
  PROVE  ReportInv'
<1> DEFINE b == sync.account
           before == accountRow[b][day]
<1>1. /\ UNCHANGED <<day, agentRow, job, equity, reachable, result, active, moves, startEquity, shown>>
      /\ sync' = Snapshots!NoSync
      /\ accountRow' = IF ~sync.exists /\ before # None THEN accountRow
                       ELSE [accountRow EXCEPT ![b][day] = sync.row]
  BY DEF Snapshots!SyncWrites, Snapshots!world, Snapshots!dashboard, Snapshots!Saved
<1>2. b \in Accounts /\ Fits(b, sync.row)
  BY DEF Snapshots!SyncWrites, ReportInv, PendingFits
<1>3. ASSUME NEW a \in Accounts
      PROVE  /\ accountRow'[a] \in [Snapshots!Days -> Snapshots!AccountRow \cup {None}]
             /\ Follows(accountRow'[a])
             /\ \A d \in Snapshots!Days : d > day => accountRow'[a][d] = None
             /\ day > 0 => accountRow'[a][day - 1] = accountRow[a][day - 1]
  <2>1. CASE accountRow'[a] = accountRow[a]
    BY <2>1 DEF ReportInv, ReportTyped, FutureIsEmpty, ChangesFollow
  <2>2. CASE accountRow'[a] # accountRow[a]
    <3>1. a = b /\ accountRow'[a] = [accountRow[a] EXCEPT ![day] = sync.row]
      BY <1>1, <2>2 DEF ReportInv, ReportTyped
    <3> QED BY <1>2, <3>1, AccountsWritten
  <2> QED BY <2>1, <2>2
<1>4. accountRow' \in [Accounts -> [Snapshots!Days -> Snapshots!AccountRow \cup {None}]]
  <2>1. accountRow' = [a \in Accounts |-> accountRow'[a]]
    BY <1>1 DEF ReportInv, ReportTyped
  <2> QED BY <1>3, <2>1
<1>5. sync' \in SyncType /\ sync'.step = "idle"
  BY <1>1 DEF SyncType, Snapshots!NoSync
<1>6. ReportTyped'
  BY <1>1, <1>4, <1>5 DEF ReportInv, ReportTyped
<1>7. FutureIsEmpty' /\ ChangesFollow'
  <2>1. \A t : Follows(t)' <=> Follows(t)
    BY DEF Follows
  <2> QED BY <1>1, <1>3, <2>1 DEF ReportInv, FutureIsEmpty, ChangesFollow
<1>8. PendingFits'
  <2>1. \A r : \A a \in Accounts : Fits(a, r) => Fits(a, r)'
    BY <1>1, <1>3, PendingStillFits
  <2>2. job.at # None => job.at \in Accounts
    BY DEF ReportInv, ReportTyped, JobType
  <2> QED BY <1>1, <1>5, <2>1, <2>2 DEF ReportInv, PendingFits
<1> QED BY <1>6, <1>7, <1>8 DEF ReportInv

LEMMA ReportNext == Snapshots!ReportParameters /\ ReportInv /\ [Snapshots!Next]_reportVars => ReportInv'
<1> SUFFICES ASSUME Snapshots!ReportParameters, ReportInv, [Snapshots!Next]_reportVars
             PROVE  ReportInv'
  OBVIOUS
<1>1. CASE UNCHANGED reportVars
  <2>1. ReportTyped'
    BY <1>1 DEF ReportInv, ReportTyped, reportVars
  <2> QED BY <1>1, <2>1, RowsUntouched DEF ReportInv, reportVars
<1>2. CASE Snapshots!Next
  BY <1>2, WorldKeeps, DashboardKeeps, TransactionsKeep, MidnightKeeps, JobCommitsKeeps,
     SyncWritesKeeps DEF Snapshots!Next
<1> QED BY <1>1, <1>2

(* The sum of the changes of a week without a gap, and of an equity curve.  *)
LEMMA WeekAddsUp ==
  ASSUME Snapshots!ReportParameters, ReportInv, NEW table, NEW f,
         Follows(table), Snapshots!Unbroken(table), day >= 1,
         \A d \in 0 .. day : table[d].level \in Int /\ table[d].change \in Int,
         \A d \in 0 .. day : f[d] = table[d].change
  PROVE  Total(f, 1 .. day) = table[day].level - table[0].level
<1>1. day \in Nat /\ MaxDay \in Nat /\ day <= MaxDay
  BY DEF ReportInv, ReportTyped, Snapshots!Days, Snapshots!ReportParameters
<1> DEFINE level == [d \in 0 .. day |-> table[d].level]
<1>2. \A d \in 0 .. day : f[d] \in Int /\ level[d] \in Int
  OBVIOUS
<1>3. \A d \in 1 .. day : f[d] = level[d] - level[d - 1]
  <2> SUFFICES ASSUME NEW d \in 1 .. day PROVE f[d] = level[d] - level[d - 1]
    OBVIOUS
  <2>1. d \in 0 .. day /\ d - 1 \in 0 .. day /\ d \in 1 .. MaxDay
    BY <1>1
  <2>2. table[d] # None /\ table[d - 1] # None
    BY <2>1 DEF Snapshots!Unbroken
  <2> QED BY <2>1, <2>2 DEF Follows
<1>4. level[day] = table[day].level /\ level[0] = table[0].level
  BY <1>1
<1> HIDE DEF level
<1>5. Total(f, 1 .. day) = level[day] - level[0]
  BY <1>1, <1>2, <1>3, SumTelescopes
<1> QED BY <1>4, <1>5

LEMMA CurveLeads ==
  ASSUME Snapshots!ReportParameters, ReportInv, NEW a \in Accounts,
         Snapshots!Unbroken(accountRow[a]), NEW d \in 0 .. day
  PROVE  Snapshots!Curve(a)[d].equity =
            Snapshots!Curve(a)[d].initial + Snapshots!Curve(a)[d].cumulative
<1>1. day \in Nat /\ MaxDay \in Nat /\ day <= MaxDay /\ 0 .. day \subseteq Snapshots!Days
  BY DEF ReportInv, ReportTyped, Snapshots!Days, Snapshots!ReportParameters
<1>2. \A e \in 0 .. day : /\ accountRow[a][e] # None
                          /\ accountRow[a][e].level \in Int /\ accountRow[a][e].change \in Int
  <2> SUFFICES ASSUME NEW e \in 0 .. day
               PROVE  /\ accountRow[a][e] # None
                      /\ accountRow[a][e].level \in Int /\ accountRow[a][e].change \in Int
    OBVIOUS
  <2>1. accountRow[a][e] # None
    BY DEF Snapshots!Unbroken
  <2>2. accountRow[a][e] \in Snapshots!AccountRow
    BY <1>1, <2>1 DEF ReportInv, ReportTyped
  <2> QED BY <2>1, <2>2 DEF Snapshots!AccountRow, Snapshots!ReportParameters
<1> DEFINE points == {e \in 0 .. day : accountRow[a][e] # None}
           g == [e \in points |-> accountRow[a][e].change]
           level == [e \in 0 .. day |-> accountRow[a][e].level]
           first == Snapshots!Min(points)
<1>3. points = 0 .. day
  BY <1>2
<1>4. first = 0
  <2> HIDE DEF points
  <2>1. 0 \in points /\ \A y \in points : y \in Nat
    BY <1>1, <1>3
  <2> QED BY <2>1 DEF Snapshots!Min
<1>5. Snapshots!Curve(a)[d] =
        [equity |-> accountRow[a][d].level,
         initial |-> accountRow[a][first].level - accountRow[a][first].change,
         cumulative |-> Total(g, {e \in points : e <= d})]
  BY <1>3, SameTotal DEF Snapshots!Curve
<1>6. {e \in points : e <= d} = 0 .. d
  BY <1>1, <1>3
<1>7. /\ \A e \in 0 .. day : g[e] \in Int /\ level[e] \in Int
      /\ g[0] = accountRow[a][0].change /\ level[0] = accountRow[a][0].level
      /\ level[d] = accountRow[a][d].level
  <2>1. \A e \in 0 .. day : g[e] = accountRow[a][e].change /\ level[e] = accountRow[a][e].level
    BY <1>3
  <2>2. 0 \in 0 .. day
    BY <1>1
  <2> QED BY <1>2, <2>1, <2>2
<1>8. \A e \in 1 .. d : g[e] = level[e] - level[e - 1]
  <2> SUFFICES ASSUME NEW e \in 1 .. d PROVE g[e] = level[e] - level[e - 1]
    OBVIOUS
  <2>1. e \in 0 .. day /\ e - 1 \in 0 .. day /\ e \in 1 .. MaxDay
    BY <1>1
  <2>2. Follows(accountRow[a])
    BY DEF ReportInv, ChangesFollow
  <2> QED BY <1>2, <1>3, <2>1, <2>2 DEF Follows
<1> HIDE DEF points, g, level, first
<1>9. d \in Nat /\ 0 .. d \subseteq 0 .. day /\ 0 \in 0 .. d /\ (0 .. d) \ {0} = 1 .. d
  BY <1>1
<1>10. Total(g, 1 .. d) = level[d] - level[0]
  BY <1>7, <1>8, <1>9, SumTelescopes
<1>11. Total(g, 0 .. d) = g[0] + Total(g, 1 .. d)
  <2>1. PICK S : S = 0 .. d
    OBVIOUS
  <2>2. IsFiniteSet(S)
    BY <1>9, <2>1, FS_Interval
  <2>3. \A e \in S : g[e] \in Int
    BY <1>7, <1>9, <2>1
  <2>4. \A e \in S : Total(g, S) = g[e] + Total(g, S \ {e})
    BY <2>2, <2>3, SumSplits
  <2> QED BY <1>9, <2>1, <2>4
<1>12. {g[0], level[0], level[d]} \subseteq Int
  BY <1>7, <1>9
<1>13. level[d] = (level[0] - g[0]) + (g[0] + (level[d] - level[0]))
  BY <1>12
<1>14. /\ Snapshots!Curve(a)[d].equity = level[d]
       /\ Snapshots!Curve(a)[d].initial = level[0] - g[0]
       /\ Snapshots!Curve(a)[d].cumulative = g[0] + (level[d] - level[0])
  <2>1. /\ Snapshots!Curve(a)[d].equity = accountRow[a][d].level
        /\ Snapshots!Curve(a)[d].initial = accountRow[a][first].level - accountRow[a][first].change
        /\ Snapshots!Curve(a)[d].cumulative = Total(g, {e \in points : e <= d})
    BY <1>5
  <2>2. Snapshots!Curve(a)[d].initial = level[0] - g[0]
    BY <1>4, <1>7, <2>1
  <2>3. Snapshots!Curve(a)[d].cumulative = g[0] + (level[d] - level[0])
    BY <1>6, <1>10, <1>11, <2>1
  <2> QED BY <1>7, <2>1, <2>2, <2>3
<1> QED BY <1>13, <1>14

LEMMA PeriodsSuffice ==
  ASSUME Snapshots!ReportParameters, ReportInv
  PROVE  Snapshots!PeriodsAddUp
<1>1. day \in Nat /\ 0 .. day \subseteq Snapshots!Days /\ day \in 0 .. day
  BY DEF ReportInv, ReportTyped, Snapshots!Days, Snapshots!ReportParameters
<1>2. ASSUME NEW a \in Accounts, Snapshots!Unbroken(accountRow[a]), day >= Snapshots!WeekStart
      PROVE  Snapshots!Weekly(a) = accountRow[a][day].level - accountRow[a][0].level
  <2> DEFINE f == [d \in Snapshots!Days |->
                     IF accountRow[a][d] = None THEN 0 ELSE accountRow[a][d].change]
  <2>1. Snapshots!Weekly(a) = Total(f, 1 .. day) /\ day >= 1
    BY <1>2, SameTotal DEF Snapshots!Weekly, Snapshots!WeekStart
  <2>2. ASSUME NEW d \in 0 .. day
        PROVE  /\ accountRow[a][d].level \in Int /\ accountRow[a][d].change \in Int
               /\ f[d] = accountRow[a][d].change
    <3>1. d \in Snapshots!Days /\ accountRow[a][d] # None
      BY <1>1, <1>2 DEF Snapshots!Unbroken
    <3>2. accountRow[a][d] \in Snapshots!AccountRow
      BY <3>1 DEF ReportInv, ReportTyped
    <3>3. accountRow[a][d].level \in Int /\ accountRow[a][d].change \in Int
      BY <3>2 DEF Snapshots!AccountRow, Snapshots!ReportParameters
    <3> QED BY <3>1, <3>3
  <2>3. Follows(accountRow[a])
    BY DEF ReportInv, ChangesFollow
  <2> HIDE DEF f
  <2> QED BY <1>2, <2>1, <2>2, <2>3, WeekAddsUp
<1>3. ASSUME NEW g \in Agents, Snapshots!Unbroken(agentRow[g]), day >= Snapshots!WeekStart
      PROVE  Snapshots!MockWeekly(g) = agentRow[g][day].level - agentRow[g][0].level
  <2> DEFINE f == [d \in Snapshots!Days |->
                     IF agentRow[g][d] = None THEN 0 ELSE agentRow[g][d].change]
  <2>1. Snapshots!MockWeekly(g) = Total(f, 1 .. day) /\ day >= 1
    BY <1>3, SameTotal DEF Snapshots!MockWeekly, Snapshots!WeekStart
  <2>2. ASSUME NEW d \in 0 .. day
        PROVE  /\ agentRow[g][d].level \in Int /\ agentRow[g][d].change \in Int
               /\ f[d] = agentRow[g][d].change
    <3>1. d \in Snapshots!Days /\ agentRow[g][d] # None
      BY <1>1, <1>3 DEF Snapshots!Unbroken
    <3>2. agentRow[g][d] \in Snapshots!AgentRow
      BY <3>1 DEF ReportInv, ReportTyped
    <3>3. agentRow[g][d].level \in Int /\ agentRow[g][d].change \in Int
      BY <3>2 DEF Snapshots!AgentRow
    <3> QED BY <3>1, <3>3
  <2>3. Follows(agentRow[g])
    BY DEF ReportInv, ChangesFollow
  <2> HIDE DEF f
  <2> QED BY <1>3, <2>1, <2>2, <2>3, WeekAddsUp
<1>4. ASSUME NEW a \in Accounts, Snapshots!Unbroken(accountRow[a]), NEW d \in 0 .. day
      PROVE  Snapshots!Curve(a)[d].equity =
                Snapshots!Curve(a)[d].initial + Snapshots!Curve(a)[d].cumulative
  BY <1>4, CurveLeads
<1> QED BY <1>2, <1>3, <1>4 DEF Snapshots!PeriodsAddUp

-----------------------------------------------------------------------------
(* TaskQueue: at most one job of an agent is inside its cycle although the  *)
(* lock is deleted without a look at its holder.                            *)

QueueInv == Queue!TypeOK /\ Queue!CyclesExclusive

LEMMA NoneIsNoJob == None \notin Queue!Ids
  BY PlatformParameters DEF PlatformParameters, Queue!QueueParameters, Queue!Ids

LEMMA JobTypes ==
  /\ Queue!NoJob \in Queue!Job
  /\ \A js \in [Queue!Ids -> Queue!Job], id \in Queue!Ids, fn \in {"execute", "start", "stop"} :
        Queue!Enqueued(js, id, fn) \in [Queue!Ids -> Queue!Job]
  BY DEF Queue!NoJob, Queue!Job, Queue!Enqueued

LEMMA QueueInit == Queue!Init => QueueInv
<1> SUFFICES ASSUME Queue!Init PROVE QueueInv
  OBVIOUS
<1>1. Queue!TypeOK
  BY JobTypes DEF Queue!Init, Queue!TypeOK, Queue!Agent, Queue!Steps, Queue!Sync
<1>2. Queue!CyclesExclusive
  BY DEF Queue!Init, Queue!CyclesExclusive, Queue!InCycle
<1> QED BY <1>1, <1>2 DEF QueueInv

-----------------------------------------------------------------------------
(* Requests, the synchronisation and most of time leave the cycles and the *)
(* lock alone.                                                             *)

LEMMA QueueRequestsKeep ==
  ASSUME QueueInv, Queue!StartAgent \/ Queue!StopAgent \/ Queue!TriggerAgent
  PROVE  QueueInv'
<1> USE DEF QueueInv
<1>0. {"agent", "manual", "stop"} \subseteq Queue!Ids
  BY DEF Queue!Ids
<1>1. Queue!TypeOK'
  <2> SUFFICES ASSUME Queue!TypeOK PROVE Queue!TypeOK'
    OBVIOUS
  <2>1. CASE Queue!StartAgent
    <3>1. Queue!Enqueued(jobs, "agent", "start") \in [Queue!Ids -> Queue!Job]
      BY <1>0, JobTypes DEF Queue!TypeOK
    <3>2. agent' \in Queue!Agent
      BY <2>1 DEF Queue!TypeOK, Queue!StartAgent, Queue!Agent
    <3>3. jobs' \in [Queue!Ids -> Queue!Job] /\ requests' \in Nat
      BY <2>1, <3>1 DEF Queue!TypeOK, Queue!StartAgent, Queue!Request
    <3> QED BY <2>1, <3>2, <3>3 DEF Queue!TypeOK, Queue!StartAgent
  <2>2. CASE Queue!StopAgent
    <3>1. Queue!Enqueued(jobs, "stop", "stop") \in [Queue!Ids -> Queue!Job]
      BY <1>0, JobTypes DEF Queue!TypeOK
    <3>2. agent' \in Queue!Agent
      BY <2>2 DEF Queue!TypeOK, Queue!StopAgent, Queue!Agent
    <3>3. jobs' \in [Queue!Ids -> Queue!Job] /\ requests' \in Nat
      BY <2>2, <3>1 DEF Queue!TypeOK, Queue!StopAgent, Queue!Request
    <3> QED BY <2>2, <3>2, <3>3 DEF Queue!TypeOK, Queue!StopAgent
  <2>3. CASE Queue!TriggerAgent
    <3>1. Queue!Enqueued(jobs, "manual", "execute") \in [Queue!Ids -> Queue!Job]
      BY <1>0, JobTypes DEF Queue!TypeOK
    <3> QED BY <2>3, <3>1 DEF Queue!TypeOK, Queue!TriggerAgent, Queue!Request
  <2> QED BY <2>1, <2>2, <2>3
<1>2. Queue!CyclesExclusive'
  BY
     DEF Queue!CyclesExclusive, Queue!InCycle, Queue!StartAgent, Queue!StopAgent,
         Queue!TriggerAgent
<1> QED BY <1>1, <1>2

LEMMA StartUpKeeps ==
  ASSUME QueueInv, Queue!SyncStep
  PROVE  QueueInv'
<1> USE DEF QueueInv
<1>1. Queue!CyclesExclusive'
  BY
     DEF Queue!CyclesExclusive, Queue!InCycle, Queue!SyncStep, Queue!SyncBegin,
         Queue!SyncDetect, Queue!SyncMark, Queue!SyncClear, Queue!SyncSchedule, Queue!queue
<1>2. Queue!TypeOK'
  <2> SUFFICES ASSUME Queue!TypeOK PROVE Queue!TypeOK'
    OBVIOUS
  <2>1. CASE Queue!SyncBegin
    BY <2>1
       DEF Queue!TypeOK, Queue!SyncBegin, Queue!SyncTo, Queue!Sync, Queue!queue, Queue!counters
  <2>2. CASE Queue!SyncDetect
    BY <2>2
       DEF Queue!TypeOK, Queue!SyncDetect, Queue!Sync, Queue!Stale, Queue!queue, Queue!counters
  <2>3. CASE Queue!SyncMark
    BY <2>3
       DEF Queue!TypeOK, Queue!SyncMark, Queue!Sync, Queue!Agent, Queue!queue, Queue!counters
  <2>4. CASE Queue!SyncClear
    BY <2>4
       DEF Queue!TypeOK, Queue!SyncClear, Queue!SyncTo, Queue!Sync, Queue!Agent, Queue!queue,
           Queue!counters
  <2>5. CASE Queue!SyncSchedule
    BY <2>5, JobTypes
       DEF Queue!TypeOK, Queue!SyncSchedule, Queue!SyncTo, Queue!Sync, Queue!Ids, Queue!counters
  <2> QED BY <2>1, <2>2, <2>3, <2>4, <2>5 DEF Queue!SyncStep
<1> QED BY <1>1, <1>2

LEMMA QueueTimeKeeps ==
  ASSUME QueueInv, Queue!Time \/ Queue!BeatAges \/ Queue!RunAges
  PROVE  QueueInv'
<1> USE DEF QueueInv
<1>1. CASE Queue!NextComes \/ Queue!GraceEnds \/ Queue!BeatAges \/ Queue!RunAges
  <2>1. Queue!TypeOK'
    BY <1>1
       DEF Queue!TypeOK, Queue!NextComes, Queue!GraceEnds, Queue!BeatAges, Queue!RunAges,
           Queue!Agent, Queue!queue, Queue!counters
  <2>2. Queue!CyclesExclusive'
    BY <1>1
       DEF Queue!CyclesExclusive, Queue!InCycle, Queue!NextComes, Queue!GraceEnds,
           Queue!BeatAges, Queue!RunAges, Queue!queue
  <2> QED BY <2>1, <2>2
<1>2. ASSUME NEW id \in Queue!Ids, Queue!ResultExpires(id) PROVE QueueInv'
  <2>1. Queue!TypeOK'
    BY <1>2, JobTypes DEF Queue!TypeOK, Queue!ResultExpires, Queue!counters
  <2>2. Queue!CyclesExclusive'
    BY <1>2 DEF Queue!CyclesExclusive, Queue!InCycle, Queue!ResultExpires
  <2> QED BY <2>1, <2>2
<1>3. CASE Queue!LockExpires
  \* The job that is named by the lock is in no cycle, so no job is.
  <2>1. Queue!TypeOK'
    BY <1>3 DEF Queue!TypeOK, Queue!LockExpires, Queue!queue, Queue!counters
  <2>2. \A id \in Queue!Ids : ~(pc[id] = "check" \/ Queue!InCycle(id))
    BY <1>3, NoneIsNoJob
       DEF Queue!TypeOK, Queue!CyclesExclusive, Queue!InCycle, Queue!LockExpires
  <2>3. Queue!CyclesExclusive'
    BY <1>3, <2>2 DEF Queue!CyclesExclusive, Queue!InCycle, Queue!LockExpires, Queue!queue
  <2> QED BY <2>1, <2>3
<1> QED BY <1>1, <1>2, <1>3 DEF Queue!Time

LEMMA WorkerDeathKeeps ==
  ASSUME QueueInv, Queue!WorkerDies
  PROVE  QueueInv'
<1>1. Queue!TypeOK'
  <2>1. jobs' \in [Queue!Ids -> Queue!Job]
    BY DEF QueueInv, Queue!TypeOK, Queue!WorkerDies, Queue!Job
  <2>2. pc' \in [Queue!Ids -> Queue!Steps] /\ starting' \in Queue!Sync /\ crashes' \in Nat
    BY DEF QueueInv, Queue!TypeOK, Queue!WorkerDies, Queue!Steps, Queue!Sync
  <2> QED BY <2>1, <2>2 DEF QueueInv, Queue!TypeOK, Queue!WorkerDies
<1>2. Queue!CyclesExclusive'
  BY DEF Queue!CyclesExclusive, Queue!InCycle, Queue!WorkerDies
<1> QED BY <1>1, <1>2 DEF QueueInv

-----------------------------------------------------------------------------
(* The steps of a job.                                                     *)

LEMMA JobStepsKeep ==
  ASSUME QueueInv, NEW id \in Queue!Ids, Queue!JobStep(id) \/ Queue!CycleFails(id) \/ Queue!JobTimesOut(id)
  PROVE  QueueInv'
<1> USE DEF QueueInv
<1> SUFFICES ASSUME Queue!TypeOK, Queue!CyclesExclusive PROVE QueueInv'
  OBVIOUS
<1>0. /\ \A j \in Queue!Job, st \in {"running", "done"} : [j EXCEPT !.state = st] \in Queue!Job
      /\ \A step \in Queue!Steps : [pc EXCEPT ![id] = step] \in [Queue!Ids -> Queue!Steps]
  BY DEF Queue!Job, Queue!TypeOK
<1>1. CASE Queue!PickUp(id)
  <2>1. jobs' \in [Queue!Ids -> Queue!Job]
    BY <1>1 DEF Queue!TypeOK, Queue!PickUp, Queue!Job
  <2>2. pc' \in [Queue!Ids -> Queue!Steps]
    BY <1>1 DEF Queue!TypeOK, Queue!PickUp, Queue!Goto, Queue!Steps
  <2>3. Queue!TypeOK'
    BY <1>1, <2>1, <2>2 DEF Queue!TypeOK, Queue!PickUp, Queue!counters
  <2>4. Queue!CyclesExclusive'
    BY <1>1 DEF Queue!TypeOK, Queue!PickUp, Queue!Goto, Queue!CyclesExclusive, Queue!InCycle
  <2> QED BY <2>3, <2>4
<1>2. CASE Queue!RunStart(id)
  <2>1. Queue!Enqueued(jobs, "agent", "execute") \in [Queue!Ids -> Queue!Job]
    BY JobTypes DEF Queue!TypeOK, Queue!Ids
  <2>2. jobs' \in [Queue!Ids -> Queue!Job]
    BY <1>2, <2>1 DEF Queue!TypeOK, Queue!RunStart, Queue!Job
  <2>3. pc' \in [Queue!Ids -> Queue!Steps]
    BY <1>2 DEF Queue!TypeOK, Queue!RunStart, Queue!Goto, Queue!Steps
  <2>4. Queue!TypeOK'
    BY <1>2, <2>2, <2>3 DEF Queue!TypeOK, Queue!RunStart, Queue!counters
  <2>5. Queue!CyclesExclusive'
    BY <1>2 DEF Queue!TypeOK, Queue!RunStart, Queue!Goto, Queue!CyclesExclusive, Queue!InCycle
  <2> QED BY <2>4, <2>5
<1>3. CASE Queue!RunStop(id) \/ Queue!SkipCycle(id)
  <2>1. jobs' \in [Queue!Ids -> Queue!Job] /\ pc' \in [Queue!Ids -> Queue!Steps]
    BY <1>3
       DEF Queue!TypeOK, Queue!RunStop, Queue!SkipCycle, Queue!Finished, Queue!Goto, Queue!Job,
           Queue!Steps
  <2>2. agent' \in Queue!Agent
    BY <1>3 DEF Queue!TypeOK, Queue!RunStop, Queue!SkipCycle, Queue!Agent
  <2>3. Queue!TypeOK'
    BY <1>3, <2>1, <2>2 DEF Queue!TypeOK, Queue!RunStop, Queue!SkipCycle, Queue!counters
  <2>4. Queue!CyclesExclusive'
    BY <1>3
       DEF Queue!TypeOK, Queue!RunStop, Queue!SkipCycle, Queue!Finished, Queue!Goto,
           Queue!CyclesExclusive, Queue!InCycle
  <2> QED BY <2>3, <2>4
<1>4. CASE Queue!TakeLock(id)
  \* The lock is free, so no job is in a cycle; now this one may enter.
  <2>1. Queue!TypeOK'
    BY <1>4 DEF Queue!TypeOK, Queue!TakeLock, Queue!Goto, Queue!Steps, Queue!counters
  <2>2. \A i \in Queue!Ids : ~(pc[i] = "check" \/ Queue!InCycle(i))
    BY <1>4, NoneIsNoJob DEF Queue!TakeLock, Queue!CyclesExclusive
  <2>3. Queue!CyclesExclusive'
    BY <1>4, <2>2
       DEF Queue!TypeOK, Queue!TakeLock, Queue!Goto, Queue!CyclesExclusive, Queue!InCycle
  <2> QED BY <2>1, <2>3
<1>5. CASE Queue!ReleaseLock(id)
  \* The lock is this job's, so no other one is in a cycle.
  <2>1. jobs' \in [Queue!Ids -> Queue!Job] /\ pc' \in [Queue!Ids -> Queue!Steps]
    BY <1>5
       DEF Queue!TypeOK, Queue!ReleaseLock, Queue!Finished, Queue!Goto, Queue!Job, Queue!Steps
  <2>2. Queue!TypeOK'
    BY <1>5, <2>1 DEF Queue!TypeOK, Queue!ReleaseLock, Queue!counters
  <2>3. \A i \in Queue!Ids \ {id} : ~(pc[i] = "check" \/ Queue!InCycle(i))
    BY <1>5 DEF Queue!ReleaseLock, Queue!At, Queue!CyclesExclusive, Queue!InCycle
  <2>4. Queue!CyclesExclusive'
    BY <1>5, <2>3
       DEF Queue!TypeOK, Queue!ReleaseLock, Queue!Finished, Queue!Goto, Queue!CyclesExclusive,
           Queue!InCycle
  <2> QED BY <2>2, <2>4
<1>6. CASE Queue!SubmitSuccessor(id)
  <2>1. jobs' \in [Queue!Ids -> Queue!Job]
    BY <1>6, JobTypes DEF Queue!TypeOK, Queue!Ids, Queue!SubmitSuccessor
  <2>2. pc' \in [Queue!Ids -> Queue!Steps]
    BY <1>6 DEF Queue!TypeOK, Queue!SubmitSuccessor, Queue!Goto, Queue!Steps
  <2>3. Queue!TypeOK'
    BY <1>6, <2>1, <2>2 DEF Queue!TypeOK, Queue!SubmitSuccessor, Queue!counters
  <2>4. Queue!CyclesExclusive'
    BY <1>6
       DEF Queue!TypeOK, Queue!SubmitSuccessor, Queue!At, Queue!Goto, Queue!CyclesExclusive,
           Queue!InCycle
  <2> QED BY <2>3, <2>4
<1>7. ASSUME \/ Queue!CheckAgent(id) \/ Queue!TraderFails(id) \/ Queue!TraderReady(id)
             \/ Queue!CommitCycle(id) \/ Queue!CycleFails(id) \/ Queue!JobTimesOut(id)
      PROVE  QueueInv'
  \* Inside the cycle a job goes from one step to the next.
  <2>1. agent' \in Queue!Agent
    BY <1>7
       DEF Queue!TypeOK, Queue!CheckAgent, Queue!TraderFails, Queue!TraderReady,
           Queue!CommitCycle, Queue!CycleFails, Queue!JobTimesOut, Queue!Agent
  <2>2. \E step \in {"trader", "work", "successor", "release"} : Queue!Goto(id, step)
    BY <1>7
       DEF Queue!CheckAgent, Queue!TraderFails, Queue!TraderReady, Queue!CommitCycle,
           Queue!CycleFails, Queue!JobTimesOut
  <2>3. pc[id] = "check" \/ Queue!InCycle(id)
    BY <1>7
       DEF Queue!At, Queue!InCycle, Queue!CheckAgent, Queue!TraderFails, Queue!TraderReady,
           Queue!CommitCycle, Queue!CycleFails, Queue!JobTimesOut
  <2>4. UNCHANGED <<jobs, cycleLock, starting, up, Queue!counters>>
    BY <1>7
       DEF Queue!CheckAgent, Queue!TraderFails, Queue!TraderReady, Queue!CommitCycle,
           Queue!CycleFails, Queue!JobTimesOut
  <2>5. Queue!TypeOK'
    BY <2>1, <2>2, <2>4 DEF Queue!TypeOK, Queue!Goto, Queue!Steps, Queue!counters
  <2>6. Queue!CyclesExclusive'
    BY <2>2, <2>3, <2>4 DEF Queue!TypeOK, Queue!Goto, Queue!CyclesExclusive, Queue!InCycle
  <2> QED BY <2>5, <2>6
<1> QED BY <1>1, <1>2, <1>3, <1>4, <1>5, <1>6, <1>7 DEF Queue!JobStep

LEMMA QueueNext == QueueInv /\ [Queue!Next]_queueVars => QueueInv'
<1> SUFFICES ASSUME QueueInv, [Queue!Next]_queueVars PROVE QueueInv'
  OBVIOUS
<1>1. CASE UNCHANGED queueVars
  BY <1>1 DEF queueVars, QueueInv, Queue!TypeOK, Queue!CyclesExclusive, Queue!InCycle
<1>2. CASE Queue!StartAgent \/ Queue!StopAgent \/ Queue!TriggerAgent
  BY <1>2, QueueRequestsKeep
<1>3. ASSUME NEW id \in Queue!Ids,
             Queue!JobStep(id) \/ Queue!CycleFails(id) \/ Queue!JobTimesOut(id)
      PROVE  QueueInv'
  BY <1>3, JobStepsKeep
<1>4. CASE Queue!SyncStep
  BY <1>4, StartUpKeeps
<1>5. CASE Queue!Time \/ Queue!BeatAges \/ Queue!RunAges
  BY <1>5, QueueTimeKeeps
<1>6. CASE Queue!WorkerDies
  BY <1>6, WorkerDeathKeeps
<1> QED BY <1>1, <1>2, <1>3, <1>4, <1>5, <1>6 DEF Queue!Next

-----------------------------------------------------------------------------
(* CircuitBreaker: while it is closed its counter has seen every failure of *)
(* the row, and blocks besides.                                             *)

RowIsCounted == breaker = "closed" => streak <= fails /\ streak < FailMax

BreakerInv == Breaker!TypeOK /\ RowIsCounted

LEMMA BreakerInit == Breaker!BreakerParameters /\ Breaker!Init => BreakerInv
BY DEF Breaker!BreakerParameters, Breaker!Init, BreakerInv, Breaker!TypeOK, Breaker!Counts,
       RowIsCounted

LEMMA NextCountIs ==
  ASSUME Breaker!BreakerParameters, NEW n \in Breaker!Counts
  PROVE  /\ Breaker!NextCount(n) \in Breaker!Counts
         /\ Breaker!NextCount(n) = FailMax => n >= FailMax - 1
         /\ Breaker!NextCount(n) # FailMax => Breaker!NextCount(n) = n + 1
         /\ Breaker!NextCount(n) >= n
BY DEF Breaker!BreakerParameters, Breaker!Counts, Breaker!NextCount

(* The report of an outcome.                                                *)
LEMMA ReportKeeps ==
  ASSUME Breaker!BreakerParameters, BreakerInv,
         Breaker!RecordSuccess \/ Breaker!RecordFailure
  PROVE  /\ breaker' \in {"closed", "open"} /\ fails' \in Breaker!Counts
         /\ elapsed' \in 0 .. ResetTimeout /\ streak' \in Breaker!Counts
         /\ RowIsCounted'
<1> USE DEF BreakerInv, Breaker!TypeOK, RowIsCounted
<1>1. FailMax \in Nat \ {0} /\ ResetTimeout \in Nat \ {0}
  BY DEF Breaker!BreakerParameters
<1>2. CASE UNCHANGED <<breaker, fails, elapsed, streak>>
  BY <1>2
<1>3. CASE Breaker!Closed
  BY <1>1, <1>3 DEF Breaker!Closed, Breaker!Counts
<1>4. CASE /\ fails' = Breaker!Counted /\ streak' = Breaker!NextCount(streak)
           /\ breaker' = IF breaker = "open" \/ Breaker!Counted = FailMax THEN "open" ELSE "closed"
           /\ elapsed' = 0
  <2>1. /\ fails' \in Breaker!Counts /\ streak' \in Breaker!Counts
        /\ breaker' \in {"closed", "open"} /\ elapsed' \in 0 .. ResetTimeout
    BY <1>1, <1>4, NextCountIs DEF Breaker!Counted
  <2>2. ASSUME breaker' = "closed" PROVE streak' <= fails' /\ streak' < FailMax
    <3>1. breaker = "closed" /\ fails' # FailMax
      BY <1>4, <2>2
    <3>2. streak <= fails /\ fails' = fails + 1
      BY <1>4, <3>1, NextCountIs DEF Breaker!Counted
    <3>3. streak' <= streak + 1
      BY <1>1, <1>4 DEF Breaker!NextCount, Breaker!Counts
    <3> QED BY <1>1, <2>1, <3>1, <3>2, <3>3 DEF Breaker!Counts
  <2> QED BY <2>1, <2>2
<1> QED BY <1>2, <1>3, <1>4 DEF Breaker!RecordSuccess, Breaker!RecordFailure

LEMMA BreakerNext ==
  Breaker!BreakerParameters /\ BreakerInv /\ [Breaker!Next]_breakerVars => BreakerInv'
<1> SUFFICES ASSUME Breaker!BreakerParameters, BreakerInv, [Breaker!Next]_breakerVars
             PROVE  BreakerInv'
  OBVIOUS
<1>0. FailMax \in Nat \ {0} /\ ResetTimeout \in Nat \ {0}
  BY DEF Breaker!BreakerParameters
<1>1. CASE UNCHANGED breakerVars
  BY <1>1 DEF breakerVars, BreakerInv, Breaker!TypeOK, RowIsCounted
<1>2. ASSUME NEW c \in Services, Breaker!Call(c) \/ Breaker!Enter(c) PROVE BreakerInv'
  BY <1>2 DEF Breaker!Call, Breaker!Enter, BreakerInv, Breaker!TypeOK, RowIsCounted
<1>3. ASSUME NEW c \in Services, Breaker!Returns(c) \/ Breaker!Raises(c) PROVE BreakerInv'
  <2>1. Breaker!RecordSuccess \/ Breaker!RecordFailure
    BY <1>3 DEF Breaker!Returns, Breaker!Raises
  <2>2. Breaker!Ends(c)
    BY <1>3 DEF Breaker!Returns, Breaker!Raises
  <2> QED BY <2>1, <2>2, ReportKeeps DEF BreakerInv, Breaker!TypeOK, Breaker!Ends
<1>4. ASSUME NEW c \in Services, Breaker!Leave(c) PROVE BreakerInv'
  <2>1. fails' \in Breaker!Counts /\ fails' >= fails
    BY <1>0, <1>4, NextCountIs
       DEF Breaker!Leave, BreakerInv, Breaker!TypeOK, Breaker!Counted, Breaker!Counts
  <2>2. Breaker!TypeOK'
    BY <1>4, <2>1 DEF Breaker!Leave, Breaker!Ends, BreakerInv, Breaker!TypeOK
  <2>3. RowIsCounted'
    BY <1>4, <2>1 DEF Breaker!Leave, BreakerInv, Breaker!TypeOK, Breaker!Counts, RowIsCounted
  <2> QED BY <2>2, <2>3 DEF BreakerInv
<1>5. CASE Breaker!Reset
  BY <1>0, <1>5 DEF Breaker!Reset, Breaker!Closed, BreakerInv, Breaker!TypeOK, Breaker!Counts,
                    Breaker!BreakerParameters, RowIsCounted
<1>6. CASE Breaker!Turn
  BY <1>6 DEF Breaker!Turn, BreakerInv, Breaker!TypeOK, Breaker!BreakerParameters, RowIsCounted
<1>7. CASE Breaker!Tick
  BY <1>0, <1>7 DEF Breaker!Tick, Breaker!Deaf, BreakerInv, Breaker!TypeOK, RowIsCounted
<1> QED BY <1>1, <1>2, <1>3, <1>4, <1>5, <1>6, <1>7 DEF Breaker!Next

LEMMA BreakerSuffices == Breaker!BreakerParameters /\ BreakerInv => Breaker!OutagesOpen
BY DEF Breaker!BreakerParameters, BreakerInv, RowIsCounted, Breaker!TypeOK, Breaker!OutagesOpen

-----------------------------------------------------------------------------
(* The composition: a step of it is a step of each part, or leaves it alone.*)

LEMMA PartsMove ==
  ASSUME [Next]_vars
  PROVE  /\ [Pool!Next]_poolVars /\ [Live!Next]_liveVars /\ [Distribution!Next]_channelVars
         /\ [Snapshots!Next]_reportVars /\ [Tracking!Next]_trackingVars /\ [Runners!Next]_runnerVars
         /\ [Store!Next]_credentialVars /\ [Queue!Next]_queueVars
         /\ [Breaker!Next]_breakerVars
BY DEF Next, OthersRest, vars

(* The tables of the connection manager agree in every reachable state.     *)
THEOREM LiveInvariance == Spec => []LiveInv
<1>1. Init => LiveInv
  BY LiveInit, PlatformParameters DEF Init, PlatformParameters
<1>2. LiveInv /\ [Next]_vars => LiveInv'
  BY LiveNext, PartsMove, PlatformParameters DEF PlatformParameters
<1> QED BY <1>1, <1>2, PTL DEF Spec

(* connect, disconnect, subscribe and the publishers' clean-up never let    *)
(* the three dictionaries of the connection manager disagree, and nobody    *)
(* but its owner is ever subscribed to a strategy's or an account's channel,*)
(* though answers of the ownership check are remembered (websocket.py).     *)
THEOREM TablesAlwaysAgree == Spec => []TablesAgree
<1>1. LiveInv => TablesAgree
  BY DEF LiveInv, TablesAgree
<1> QED BY <1>1, LiveInvariance, PTL

(* What the order manager has of an order is sound in every reachable state.*)
THEOREM TrackInvariance == Spec => []TrackInv
<1>1. Init => TrackInv
  BY TrackInit, PlatformParameters DEF Init, PlatformParameters
<1>2. TrackInv /\ [Next]_vars => TrackInv'
  BY TrackNext, PartsMove, PlatformParameters DEF PlatformParameters
<1> QED BY <1>1, <1>2, PTL DEF Spec

(* No late answer, second cancellation or stale copy reopens an order or    *)
(* ends it again (order_manager.py).                                        *)
THEOREM EndsAreFinal == Spec => []EndIsFinal
<1>1. TrackInv => EndIsFinal
  BY TrackInvSuffices DEF TrackInv, EndIsFinal
<1> QED BY <1>1, TrackInvariance, PTL

(* What a channel's counter says of its users in every reachable state.     *)
THEOREM ChannelInvariance == Spec => []ChannelInv
<1>1. Init => ChannelInv
  BY ChannelInit, PlatformParameters DEF Init, PlatformParameters
<1>2. ChannelInv /\ [Next]_vars => ChannelInv'
  BY ChannelNext, PartsMove, PlatformParameters DEF PlatformParameters
<1> QED BY <1>1, <1>2, PTL DEF Spec

(* Newcomers that race for a channel, and moves and appointments that   *)
(* write what they loaded before, never make a channel count a user it has  *)
(* not admitted, and its administrator has the role (channel_service.py).   *)
THEOREM ChannelsStayConsistent == Spec => []ChannelsConsistent
<1>1. ChannelInv => ChannelsConsistent
  BY DEF ChannelInv, ChannelsConsistent
<1> QED BY <1>1, ChannelInvariance, PTL

(* Who holds and who creates exchange clients, in every reachable state.    *)
THEOREM PoolInvariance == Spec => []PoolInv
<1>1. Init => PoolInv
  BY PoolInit, PlatformParameters DEF Init, PlatformParameters
<1>2. PoolInv /\ [Next]_vars => PoolInv'
  BY PoolNext, PartsMove, PlatformParameters DEF PlatformParameters
<1> QED BY <1>1, <1>2, PTL DEF Spec

(* Coroutines that ask for clients at the same time, evictions and the      *)
(* sweep lose no open client before the pool closes but by a cancellation   *)
(* of acquire, and exceed the pool's limit by no more than the number of    *)
(* the other exchanges, whose creations check it under locks of their own   *)
(* (exchange_pool.py).                                                      *)
THEOREM ClientsAreAccounted == Spec => []ClientsAccounted
<1>1. PoolInv => ClientsAccounted
  BY PoolSuffices, PlatformParameters DEF PlatformParameters, ClientsAccounted
<1> QED BY <1>1, PoolInvariance, PTL

(* What requests on stored credentials know, in every reachable state.      *)
THEOREM CredentialInvariance == Spec => []CredentialInv
<1>1. Init => CredentialInv
  BY CredentialInit, PlatformParameters DEF Init, PlatformParameters
<1>2. CredentialInv /\ [Next]_vars => CredentialInv'
  BY CredentialNext, PartsMove, PlatformParameters DEF PlatformParameters
<1> QED BY <1>1, <1>2, PTL DEF Spec

(* However requests on one account or provider overlap, a column holds what *)
(* the last committed request that changes it asked for, what is shown of   *)
(* an account is an answer of the exchange, and no model is listed twice    *)
(* (accounts.py, providers.py).                                             *)
THEOREM SettingsAreKept == Spec => []SettingsKept
<1>1. CredentialInv => SettingsKept
  BY DEF CredentialInv, SettingsKept
<1> QED BY <1>1, CredentialInvariance, PTL

(* What the tables of snapshots say in every reachable state.               *)
THEOREM ReportInvariance == Spec => []ReportInv
<1>1. Init => ReportInv
  BY ReportInit, PlatformParameters DEF Init, PlatformParameters
<1>2. ReportInv /\ [Next]_vars => ReportInv'
  BY ReportNext, PartsMove, PlatformParameters DEF PlatformParameters
<1> QED BY <1>1, <1>2, PTL DEF Spec

(* However the job of midnight, requests for a snapshot and failures        *)
(* interleave, days without a gap add up: the week's P&L is the distance    *)
(* between its ends, and the equity curve leads to each day's equity        *)
(* (pnl_service.py, dashboard.py).                                          *)
THEOREM PeriodsAlwaysAddUp == Spec => []PeriodsAddUp
<1>1. ReportInv => PeriodsAddUp
  BY PeriodsSuffice, ReportTypesSuffice, PlatformParameters
     DEF PlatformParameters, ReportInv, PeriodsAddUp
<1> QED BY <1>1, ReportInvariance, PTL

(* What a cycle counts was done, or is a close that found no position; a    *)
(* cycle under way is alone and holds a lock that outlives it, so that what *)
(* it loaded is still the row when it writes (quant_backend.py, _run_loop   *)
(* and _run_cycle).                                                         *)
THEOREM RunnersInvariance == Spec => [](RunnerInv /\ RunnerTyped)
<1>1. Init => RunnerInv /\ RunnerTyped
  BY RunnerInitHolds, RunnerTypedInit, PlatformParameters DEF Init, PlatformParameters
<1>2. RunnerInv /\ RunnerTyped /\ [Next]_vars => RunnerInv' /\ RunnerTyped'
  BY PartsMove, RunnerNextKeeps, RunnerTypedNext, PlatformParameters DEF PlatformParameters
<1> QED BY <1>1, <1>2, PTL DEF Spec

(* Whatever processes crash or stall and however orders are answered, an    *)
(* agent's row counts every trade of its cycles once, but those that are    *)
(* lost for good: of a cycle run by hand or cut short, of an engine that    *)
(* raised, or of an order without an answer (quant_backend.py).  Counters   *)
(* and error windows keep their types.                                      *)
THEOREM RowsKnowTheirOrders == Spec => []RowKnowsOrders
<1>1. RunnerInv /\ RunnerTyped => RowKnowsOrders
  BY RunnerSuffices, RunnerTypesSuffice, PlatformParameters
     DEF PlatformParameters, RowKnowsOrders
<1> QED BY <1>1, RunnersInvariance, PTL

(* One job at a time is in an agent's cycle, in every reachable state.      *)
THEOREM QueueInvariance == Spec => []QueueInv
<1>1. Init => QueueInv
  BY QueueInit DEF Init
<1>2. QueueInv /\ [Next]_vars => QueueInv'
  BY QueueNext, PartsMove
<1> QED BY <1>1, <1>2, PTL DEF Spec

(* At most one job of an agent is inside its cycle and holds the lock, for  *)
(* any numbers of requests, crashes and tries (execute_agent_cycle's lock,  *)
(* tasks.py): its release needs no look at the holder as long as a job is   *)
(* cut off no later than its lock expires.                                  *)
THEOREM JobsExcludeEachOther == Spec => []QueueConsistent
<1>1. QueueInv => QueueConsistent
  BY DEF QueueInv, QueueConsistent
<1> QED BY <1>1, QueueInvariance, PTL

(* What the breaker's counter has seen, in every reachable state.           *)
THEOREM BreakerInvariance == Spec => []BreakerInv
<1>1. Init => BreakerInv
  BY BreakerInit, PlatformParameters DEF Init, PlatformParameters
<1>2. BreakerInv /\ [Next]_vars => BreakerInv'
  BY BreakerNext, PartsMove, PlatformParameters DEF PlatformParameters
<1> QED BY <1>1, <1>2, PTL DEF Spec

(* fail_max failures in a row leave the breaker open, for any threshold and *)
(* time-out and any mix of calls and blocks (circuit_breaker.py).           *)
THEOREM OutagesAlwaysOpen == Spec => []OutagesOpen
<1>1. BreakerInv => OutagesOpen
  BY BreakerSuffices, PlatformParameters DEF PlatformParameters, BreakerInv, OutagesOpen
<1> QED BY <1>1, BreakerInvariance, PTL
=============================================================================
