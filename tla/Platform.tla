------------------------------- MODULE Platform -------------------------------
(***************************************************************************)
(* The components around trading: pooled exchange clients, live updates,   *)
(* distribution channels, reports, order tracking, the workers of a quant  *)
(* agent, stored credentials, the job queue and the circuit breaker.  They *)
(* share no state: in a behaviour one of them, "part", moves and the       *)
(* others rest.                                                            *)
(***************************************************************************)
EXTENDS Naturals, Sequences

CONSTANTS
    None,
    \* ExchangePool
    Coroutines, Keys, ExchangeOf, MaxPool, MaxClients,
    \* LiveUpdates
    Connections, Viewers, Topics, Protected, Owner, MaxPerUser, MaxTotal, MaxEvents,
    \* Channels
    Customers, Codes, Invitations, Prefixes, Newcomers, MaxRegistrations, MaxMembershipChanges,
    \* Reports
    Accounts, Agents, MaxDay, MaxLevel, MaxMoves,
    \* OrderTracking
    Orders, Callers, Size, MaxRestarts,
    \* QuantWorkers
    Instances, LockTTL, CycleTimeout, Window, MaxErrors, Accidents, MaxAccidents,
    MaxOrders, MaxChanges,
    \* Credentials (of the same accounts)
    Providers, Models, Requests, Presets, MaxServed,
    \* TaskQueue
    MaxTries, MaxRequests, MaxCrashes,
    \* CircuitBreaker
    Services, Blocks, FailMax, ResetTimeout, ExcludesTimeouts, MaxTurns, MaxResets

VARIABLES
    part,
    entries, recent, old, user, created, open, sweep, closing, dropped,
    connected, ofUser, subscribers, conn, alive, lock, event, events,
    channel, member, admitted, registration, rowLock, memberships,
    day, equity, reachable, result, active, accountRow, agentRow, job, sync,
    startEquity, shown, moves,
    exchange, local, saved, task, call, ended, restarts,
    status, known, placed, owner, lockLeft, worker, manual, lost, phantom, byHand, accidents,
    changes,
    row, cached, req, served, accepted, asked,
    agent, jobs, pc, cycleLock, starting, up, requests, crashes,
    breaker, fails, elapsed, calls, healthy, streak, turns, resets

poolVars == <<entries, recent, old, user, created, open, sweep, closing, dropped>>
liveVars == <<connected, ofUser, subscribers, conn, alive, lock, event, events>>
channelVars == <<channel, member, admitted, registration, rowLock, memberships>>
reportVars == <<day, equity, reachable, result, active, accountRow, agentRow, job, sync,
                startEquity, shown, moves>>
trackingVars == <<exchange, local, saved, task, call, ended, restarts>>
runnerVars == <<status, known, placed, owner, lockLeft, worker, manual, lost, phantom, byHand,
                accidents, changes>>
credentialVars == <<row, cached, req, served, accepted, asked>>
queueVars == <<agent, jobs, pc, cycleLock, starting, up, requests, crashes>>
breakerVars == <<breaker, fails, elapsed, calls, healthy, streak, turns, resets>>

vars == <<part, poolVars, liveVars, channelVars, reportVars, trackingVars, runnerVars,
          credentialVars, queueVars, breakerVars>>

-----------------------------------------------------------------------------
Pool == INSTANCE ExchangePool WITH Users <- Coroutines

Live == INSTANCE LiveUpdates WITH Users <- Viewers, Channels <- Topics

Distribution == INSTANCE Channels WITH
    user <- member, req <- registration, changes <- memberships,
    Users <- Customers, Requests <- Newcomers, MaxChanges <- MaxMembershipChanges

Snapshots == INSTANCE Reports WITH connected <- reachable, balance <- shown

\* A trader whose exchange can be asked for an order.
Tracking == INSTANCE OrderTracking WITH Answers <- TRUE

Runners == INSTANCE QuantWorkers WITH row <- known, orders <- placed

Store == INSTANCE Credentials

Queue == INSTANCE TaskQueue WITH job <- jobs, lock <- cycleLock, sync <- starting

Breaker == INSTANCE CircuitBreaker WITH Callers <- Services, state <- breaker

ASSUME PlatformParameters ==
    /\ Pool!PoolParameters
    /\ Live!UpdateParameters
    /\ Distribution!ChannelParameters
    /\ Snapshots!ReportParameters
    /\ Tracking!TrackingParameters
    /\ Runners!QuantWorkerParameters
    /\ Store!CredentialParameters
    /\ Queue!QueueParameters
    /\ Breaker!BreakerParameters

-----------------------------------------------------------------------------
Parts == {"pool", "live", "channels", "reports", "tracking", "runners", "credentials", "queue",
          "breaker"}

Init ==
    /\ part \in Parts
    /\ Pool!Init /\ Live!Init /\ Distribution!Init /\ Snapshots!Init
    /\ Tracking!Init /\ Runners!Init /\ Store!Init
    /\ Queue!Init /\ Breaker!Init
    /\ part # "reports" => reachable = {} \* one initial state of a component at rest will do

OthersRest ==
    /\ UNCHANGED part
    /\ part = "pool" \/ UNCHANGED poolVars
    /\ part = "live" \/ UNCHANGED liveVars
    /\ part = "channels" \/ UNCHANGED channelVars
    /\ part = "reports" \/ UNCHANGED reportVars
    /\ part = "tracking" \/ UNCHANGED trackingVars
    /\ part = "runners" \/ UNCHANGED runnerVars
    /\ part = "credentials" \/ UNCHANGED credentialVars
    /\ part = "queue" \/ UNCHANGED queueVars
    /\ part = "breaker" \/ UNCHANGED breakerVars

Next ==
    \/ part = "pool" /\ Pool!Next /\ OthersRest
    \/ part = "live" /\ Live!Next /\ OthersRest
    \/ part = "channels" /\ Distribution!Next /\ OthersRest
    \/ part = "reports" /\ Snapshots!Next /\ OthersRest
    \/ part = "tracking" /\ Tracking!Next /\ OthersRest
    \/ part = "runners" /\ Runners!Next /\ OthersRest
    \/ part = "credentials" /\ Store!Next /\ OthersRest
    \/ part = "queue" /\ Queue!Next /\ OthersRest
    \/ part = "breaker" /\ Breaker!Next /\ OthersRest

Spec == Init /\ [][Next]_vars

-----------------------------------------------------------------------------
(* ExchangePool: before the pool closes no client is lost but by a          *)
(* cancellation, and the pool exceeds its limit by the number of other      *)
(* exchanges at most.                                                       *)
ClientsAccounted == part = "pool" => Pool!TypeOK /\ Pool!NoClientLeaks /\ Pool!PoolNearlyBounded

(* LiveUpdates: the connection tables agree with one another and only the   *)
(* owner of a protected channel is among its subscribers.                   *)
TablesAgree == part = "live" => Live!TypeOK /\ Live!TablesAgree /\ Live!OwnersOnly

(* Channels: a channel's counter never exceeds the users it admitted, and   *)
(* its administrator has the role.                                          *)
ChannelsConsistent == part = "channels" => Distribution!TypeOK /\ Distribution!ChannelsConsistent

(* Reports: days without a gap add up to the week and to the curve.         *)
PeriodsAddUp == part = "reports" => Snapshots!TypeOK /\ Snapshots!PeriodsAddUp

(* OrderTracking: an order's end is told once and is the exchange's.        *)
EndIsFinal == part = "tracking" => Tracking!TypeOK /\ Tracking!EndIsFinal

(* QuantWorkers: every order is counted once or is lost for good, and       *)
(* nothing is counted besides but closes that found no position.            *)
RowKnowsOrders == part = "runners" => Runners!TypeOK /\ Runners!RowKnowsOrders

(* Credentials: overlapping requests keep each other's columns, and what is *)
(* shown of an account is an answer of the exchange.                        *)
SettingsKept == part = "credentials" => Store!TypeOK /\ Store!SettingsKept

(* TaskQueue: one job at a time is inside the agent's cycle.                *)
QueueConsistent == part = "queue" => Queue!TypeOK /\ Queue!CyclesExclusive

(* CircuitBreaker: failures in a row leave the breaker open.                *)
OutagesOpen == part = "breaker" => Breaker!TypeOK /\ Breaker!OutagesOpen
=============================================================================
