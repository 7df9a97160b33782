------------------------------- MODULE Channels -------------------------------
(***************************************************************************)
(* Channels, their members and their administrators: registration with a   *)
(* channel's invitation code (services/invite_service.py,                  *)
(* api/routes/auth.py) and the platform administrator's routes             *)
(* (api/routes/channels.py, services/channel_service.py).                  *)
(*                                                                         *)
(* A request is one transaction at READ COMMITTED.  It works on the objects*)
(* its session loaded first, and an attribute is written only if it differs*)
(* from the loaded one.  A channel's status is stored and never tested, so *)
(* it has no place here; commissions are disabled in the code, so channel  *)
(* wallets stay empty.  Who may call a route is left out.                  *)
(***************************************************************************)
EXTENDS Naturals, Sequences, FiniteSets

CONSTANTS
    Users,
    Codes,              \* a channel is named by its code
    Invitations,        \* the texts people enter when they register, and for each
    Prefixes,           \* of them the codes it starts with, longest first
    Requests,
    None,               \* no code, no user, no request
    MaxRegistrations,   \* bounds: registrations under way or committed,
    MaxChanges          \* and appointments and moves

Roles   == {"user", "channel_admin"}
Channel == [admin : Users \cup {None}, total : Nat]
User    == [channel : Codes \cup {None}, role : Roles]

ChannelParameters ==
    /\ None \notin Users \cup Codes \cup Requests
    /\ None \notin Channel \cup User
    /\ Prefixes \in [Invitations -> Seq(Codes)]
    /\ {MaxRegistrations, MaxChanges} \subseteq Nat

VARIABLES
    channel,        \* the row of each code, None before it is created
    user,           \* the row of each user, None before he registers
    admitted,       \* how many users registered through the channel
    req,            \* what each request has loaded
    rowLock,        \* the transaction that has written the channel's row
    changes

channelVars == <<channel, user, admitted, req, rowLock, changes>>

-----------------------------------------------------------------------------
Created == {c \in Codes : channel[c] # None}
Known   == {u \in Users : user[u] # None}
Members(c) == {u \in Known : user[u].channel = c}

Idle == [step |-> "idle", who |-> None, code |-> None, row |-> None, person |-> None]

Init ==
    /\ channel = [c \in Codes |-> None]
    /\ user = [u \in Users |-> None]
    /\ admitted = [c \in Codes |-> 0]
    /\ req = [r \in Requests |-> Idle]
    /\ rowLock = [c \in Codes |-> None]
    /\ changes = 0

At(r, step) == req[r].step = step
Over(r)     == req' = [req EXCEPT ![r] = Idle]

-----------------------------------------------------------------------------
\* validate_invite_code: the longest prefix that is a channel's code.
Resolved(text) ==
    LET known == {i \in DOMAIN Prefixes[text] : Prefixes[text][i] \in Created}
    IN  IF known = {} THEN None
        ELSE Prefixes[text][CHOOSE i \in known : \A j \in known : i <= j]

Register(r, u, text) ==
    /\ At(r, "idle")
    /\ Resolved(text) # None
    /\ req' = [req EXCEPT ![r] = [step |-> "valid", who |-> u, code |-> Resolved(text),
                                  row |-> channel[Resolved(text)], person |-> None]]
    /\ UNCHANGED <<channel, user, admitted, rowLock, changes>>

\* Wrong variant of Refused: the counter is kept although the registration is refused.
Refused_Counted(r) ==
    /\ Over(r)
    /\ channel' = [channel EXCEPT ![req[r].code].total = @ + 1]

Refused(r) ==
    /\ Over(r)
    /\ UNCHANGED channel

\* The code must not have been used, nor the address.
CheckUnused(r) ==
    /\ At(r, "valid")
    /\ IF Members(req[r].code) = {} /\ req[r].who \notin Known
         THEN req' = [req EXCEPT ![r].step = "free"] /\ UNCHANGED channel
         ELSE Refused(r)
    /\ UNCHANGED <<user, admitted, rowLock, changes>>

\* The user's row waits for another with his address, the counter for the channel's row.
Insert(r) ==
    /\ At(r, "free")
    /\ \A s \in Requests : At(s, "written") => req[s].who # req[r].who
    /\ IF req[r].who \in Known
         THEN Over(r) /\ UNCHANGED rowLock
         ELSE /\ rowLock[req[r].code] = None
              /\ rowLock' = [rowLock EXCEPT ![req[r].code] = r]
              /\ req' = [req EXCEPT ![r].step = "written"]
    /\ UNCHANGED <<channel, user, admitted, changes>>

\* increment_users writes the loaded counter plus one; the wallet is created too.
Commit(r) ==
    /\ At(r, "written")
    /\ LET c == req[r].code IN
       /\ user' = [user EXCEPT ![req[r].who] = [channel |-> c, role |-> "user"]]
       /\ channel' = [channel EXCEPT ![c].total = req[r].row.total + 1]
       /\ admitted' = [admitted EXCEPT ![c] = @ + 1]
       /\ rowLock' = [rowLock EXCEPT ![c] = None]
    /\ Over(r)
    /\ UNCHANGED changes

\* A request that fails, or whose process dies, is rolled back.
Abort(r) ==
    /\ ~At(r, "idle")
    /\ rowLock' = [c \in Codes |-> IF rowLock[c] = r THEN None ELSE rowLock[c]]
    /\ Over(r)
    /\ UNCHANGED <<channel, user, admitted, changes>>

-----------------------------------------------------------------------------
\* The columns in which a loaded row and the wanted one differ are written to the row now there.
Written(now, loaded, wanted) ==
    [column \in DOMAIN now |-> IF wanted[column] = loaded[column] THEN now[column] ELSE wanted[column]]

\* A channel's administrator becomes its member, whatever his role was.
Appointed(c) == [channel |-> c, role |-> "channel_admin"]

CreateChannel(c, u) ==
    /\ c \notin Created
    /\ channel' = [channel EXCEPT ![c] = [admin |-> u, total |-> 0]]
    /\ user' = IF u \in Known THEN [user EXCEPT ![u] = Appointed(c)] ELSE user
    /\ UNCHANGED <<admitted, req, rowLock, changes>>

LoadForAppointment(r, u, c) ==
    /\ At(r, "idle")
    /\ changes < MaxChanges
    /\ changes' = changes + 1
    /\ c \in Created /\ u \in Known
    /\ req' = [req EXCEPT ![r] = [step |-> "appoint", who |-> u, code |-> c,
                                  row |-> channel[c], person |-> user[u]]]
    /\ UNCHANGED <<channel, user, admitted, rowLock>>

SetChannelAdmin(r) ==
    /\ At(r, "appoint")
    /\ LET c == req[r].code
           u == req[r].who
       IN  /\ rowLock[c] = None
           /\ channel' = [channel EXCEPT ![c] =
                             Written(@, req[r].row, [req[r].row EXCEPT !.admin = u])]
           /\ user' = [user EXCEPT ![u] = Written(@, req[r].person, Appointed(c))]
    /\ Over(r)
    /\ UNCHANGED <<admitted, rowLock, changes>>

LoadForMove(r, u, c) ==
    /\ At(r, "idle")
    /\ changes < MaxChanges
    /\ changes' = changes + 1
    /\ u \in Known /\ c \in Created \cup {None}
    /\ req' = [req EXCEPT ![r] = [step |-> "move", who |-> u, code |-> c,
                                  row |-> None, person |-> user[u]]]
    /\ UNCHANGED <<channel, user, admitted, rowLock>>

SetUserChannel(r) ==
    /\ At(r, "move")
    /\ LET wanted == [req[r].person EXCEPT !.channel = req[r].code]
       IN  user' = [user EXCEPT ![req[r].who] = Written(@, req[r].person, wanted)]
    /\ Over(r)
    /\ UNCHANGED <<channel, admitted, rowLock, changes>>

Registrations ==
    Cardinality(Known) + Cardinality({r \in Requests : req[r].step \in {"valid", "free", "written"}})

Next ==
    \/ \E r \in Requests :
          \/ Registrations < MaxRegistrations
             /\ \E u \in Users, text \in Invitations : Register(r, u, text)
          \/ CheckUnused(r) \/ Insert(r) \/ Commit(r) \/ Abort(r)
          \/ SetChannelAdmin(r) \/ SetUserChannel(r)
          \/ \E u \in Users, c \in Codes \cup {None} :
                LoadForAppointment(r, u, c) \/ LoadForMove(r, u, c)
    \/ \E c \in Codes, u \in Known \cup {None} : CreateChannel(c, u)

Spec == Init /\ [][Next]_channelVars

-----------------------------------------------------------------------------
TypeOK ==
    /\ channel \in [Codes -> Channel \cup {None}]
    /\ user \in [Users -> User \cup {None}]
    /\ admitted \in [Codes -> Nat]
    /\ req \in [Requests -> [step : {"idle", "valid", "free", "written", "appoint", "move"},
                             who : Users \cup {None}, code : Codes \cup {None},
                             row : Channel \cup {None}, person : User \cup {None}]]
    /\ rowLock \in [Codes -> Requests \cup {None}]
    /\ changes \in 0..MaxChanges

(* However registrations and administrators overlap, a channel that admitted*)
(* somebody counts at least one user and never more than it admitted (lost  *)
(* increments of total_users are possible, invented ones are not), and the  *)
(* administrator a channel names has the role its routes ask for.           *)
ChannelsConsistent ==
    \A c \in Created :
        /\ channel[c].total <= admitted[c]
        /\ admitted[c] > 0 => channel[c].total > 0
        /\ channel[c].admin \in Known => user[channel[c].admin].role = "channel_admin"
=============================================================================
