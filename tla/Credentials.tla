----------------------------- MODULE Credentials -----------------------------
(***************************************************************************)
(* What a user stores to reach others with: the credentials of exchange    *)
(* accounts (api/routes/accounts.py, db/repositories/account.py) and those *)
(* of AI providers with the lists of their models                          *)
(* (api/routes/providers.py).                                              *)
(*                                                                         *)
(* A request is one session and one transaction at READ COMMITTED.  It     *)
(* loads a row, may ask the exchange, and writes of the row the columns it *)
(* has changed.  A route that raises has its transaction rolled back       *)
(* (db/database.py), whatever it wrote before.  Accounts are created and   *)
(* deleted in Administration.  A key is the number of its entry.           *)
(***************************************************************************)
EXTENDS Naturals, Sequences, FiniteSets, SequencesExt, Functions, Lists

CONSTANTS
    Accounts, Providers, Models, Requests, None,
    Presets,        \* preset_models_json: the models a new provider starts with
    MaxServed       \* bound on the requests of a behaviour

CredentialParameters ==
    /\ Accounts \cap Providers = {} /\ None \notin Accounts \cup Providers
    /\ Presets \subseteq Models /\ IsFiniteSet(Presets)
    /\ MaxServed \in Nat

VARIABLES
    row,        \* the committed row of each account and provider, None where there is none
    cached,     \* Redis: the key with which an account's balance was read, None without one
    req,        \* the requests under way
    served,     \* requests so far, which number the keys
    accepted,   \* history: the keys of each account the exchange has accepted
    asked       \* history: each column as the last committed request that names it wants it

vars == <<row, cached, req, served, accepted, asked>>

-----------------------------------------------------------------------------
Ids == Accounts \cup Providers

\* is_connected and the encrypted credentials; the latter as one column, since a
\* request changes them together.
AccountRow  == [key : 0 .. MaxServed, connected : BOOLEAN]
ProviderRow == [key : 0 .. MaxServed, enabled : BOOLEAN, models : Seq(Models)]

Kinds == {"update", "test", "balance", "replace", "add", "remove"}

\* loaded is the session's object, write the columns it has changed.
Idle == [step |-> "idle", kind |-> None, id |-> None, loaded |-> None, write |-> <<>>]

Init ==
    /\ row = [id \in Ids |-> IF id \in Accounts THEN [key |-> 0, connected |-> FALSE] ELSE None]
    /\ cached = [a \in Accounts |-> None]
    /\ req = [r \in Requests |-> Idle]
    /\ served = 0
    /\ accepted = [a \in Accounts |-> {}]
    /\ asked = row

At(r, step) == req[r].step = step

Request == served < MaxServed /\ served' = served + 1

\* Wrong variant of Updated: the UPDATE writes the whole object.
Updated_Whole(now, loaded, write) ==
    [c \in DOMAIN now |-> IF c \in DOMAIN write THEN write[c] ELSE loaded[c]]

\* The row after an UPDATE of the changed columns.
Updated(now, loaded, write) ==
    [c \in DOMAIN now |-> IF c \in DOMAIN write THEN write[c] ELSE now[c]]

\* The object is loaded; its step says what the request waits for.
Load(r, kind, id, step, write) ==
    /\ At(r, "idle")
    /\ row[id] # None
    /\ Request
    /\ req' = [req EXCEPT ![r] = [step |-> step, kind |-> kind, id |-> id,
                                  loaded |-> row[id], write |-> write]]
    /\ UNCHANGED <<row, cached, accepted, asked>>

\* flush: the UPDATE locks the row until the transaction ends.
Locked(id) == \E r \in Requests : req[r].id = id /\ req[r].step \in {"written", "raised"}

Flush(r, step, write) ==
    /\ ~Locked(req[r].id)
    /\ req' = [req EXCEPT ![r].step = step, ![r].write = write]

-----------------------------------------------------------------------------
(* Exchange accounts.                                                       *)

\* PATCH /accounts/{id}: neither the connection status nor the cached balance of
\* the old credentials is touched.
UpdateAccount(r, a) == Load(r, "update", a, "changed", [key |-> served + 1])

WriteAccount(r) ==
    /\ At(r, "changed") /\ req[r].id \in Accounts
    /\ Flush(r, "written", req[r].write)
    /\ UNCHANGED <<row, cached, served, accepted, asked>>

\* POST /accounts/{id}/test, and GET /accounts/{id}/balance past the cache.
AskExchange(r, kind, a) == Load(r, kind, a, "asking", <<>>)

\* The trader is made of the credentials loaded, not of those stored now.  The
\* object's status is written if it was another one.
Reached(r) ==
    /\ At(r, "asking")
    /\ LET a == req[r].id  key == req[r].loaded.key IN
       /\ Flush(r, "written", IF req[r].loaded.connected THEN <<>> ELSE [connected |-> TRUE])
       /\ accepted' = [accepted EXCEPT ![a] = @ \cup {key}]
    /\ UNCHANGED <<row, cached, served, asked>>

\* The balance is cached before its transaction is committed.
CacheBalance(r) ==
    /\ At(r, "written") /\ req[r].kind = "balance"
    /\ cached' = [cached EXCEPT ![req[r].id] = req[r].loaded.key]
    /\ UNCHANGED <<row, req, served, accepted, asked>>

\* update_connection_status(is_connected=False), and then an HTTPException.
NotReached(r) ==
    /\ At(r, "asking")
    /\ Flush(r, "raised", [connected |-> FALSE])
    /\ UNCHANGED <<row, cached, served, accepted, asked>>

CacheExpires(a) ==
    /\ cached[a] # None
    /\ cached' = [cached EXCEPT ![a] = None]
    /\ UNCHANGED <<row, req, served, accepted, asked>>

-----------------------------------------------------------------------------
(* AI providers.                                                            *)

\* An id is new: no request can have loaded it before.
CreateProvider(p) ==
    /\ Request
    /\ row[p] = None /\ \A r \in Requests : req[r].id # p
    /\ row' = [row EXCEPT ![p] = [key |-> served + 1, enabled |-> TRUE, models |-> SetToSeq(Presets)]]
    /\ asked' = [asked EXCEPT ![p] = row'[p]]
    /\ UNCHANGED <<cached, req, accepted>>

DeleteProvider(p) ==
    /\ Request
    /\ row[p] # None /\ ~Locked(p)
    /\ row' = [row EXCEPT ![p] = None]
    /\ asked' = [asked EXCEPT ![p] = None]
    /\ UNCHANGED <<cached, req, accepted>>

\* PATCH /providers/{id} with a key, or with is_enabled.
UpdateProvider(r, p) ==
    \E write \in {[key |-> served + 1], [enabled |-> TRUE], [enabled |-> FALSE]} :
        Load(r, "update", p, "changed", write)

\* A list that names a model twice would not be refused.
ReplaceModels(r, p, list) == Load(r, "replace", p, "changed", [models |-> list])

\* Wrong variant of MayAdd: no look for a duplicate.
MayAdd_Always(list, m) == TRUE

MayAdd(list, m) == m \notin ToSet(list)

\* Nothing is sent to the database before the commit.
AddModel(r, p, m) ==
    /\ row[p] # None
    /\ MayAdd(row[p].models, m)
    /\ Load(r, "add", p, "changed", [models |-> Append(row[p].models, m)])

RemoveModel(r, p, m) ==
    /\ row[p] # None
    /\ m \in ToSet(row[p].models)
    /\ Load(r, "remove", p, "changed", [models |-> Kept(row[p].models, Models \ {m})])

-----------------------------------------------------------------------------
(* The end of a transaction.                                                *)

Ended(r) == req' = [req EXCEPT ![r] = Idle]

\* The providers' routes flush as they commit; a row that is gone by then ends the
\* request with an error.
Commit(r) ==
    LET q == req[r]  id == q.id IN
    /\ At(r, "written") \/ (At(r, "changed") /\ id \in Providers /\ ~Locked(id))
    /\ IF row[id] = None THEN UNCHANGED <<row, asked>>
       ELSE /\ row' = [row EXCEPT ![id] = Updated(@, q.loaded, q.write)]
            /\ asked' = [asked EXCEPT ![id] =
                            [c \in DOMAIN @ |-> IF c \in DOMAIN q.write THEN q.write[c] ELSE @[c]]]
    /\ Ended(r)
    /\ UNCHANGED <<cached, served, accepted>>

\* get_db: "except Exception: await session.rollback()".
\* A request may be cut short as well.
Rollback(r) ==
    /\ ~At(r, "idle")
    /\ Ended(r)
    /\ UNCHANGED <<row, cached, served, accepted, asked>>

\* The lists that replace_provider_models is sent: none that names a model twice.
Lists == {<<>>} \cup {<<m>> : m \in Models}

Next ==
    \/ \E r \in Requests :
          \/ \E a \in Accounts : UpdateAccount(r, a) \/ AskExchange(r, "test", a)
                                 \/ AskExchange(r, "balance", a)
          \/ WriteAccount(r) \/ Reached(r) \/ NotReached(r) \/ CacheBalance(r)
          \/ \E p \in Providers : UpdateProvider(r, p)
          \/ \E p \in Providers, list \in Lists : ReplaceModels(r, p, list)
          \/ \E p \in Providers, m \in Models : AddModel(r, p, m) \/ RemoveModel(r, p, m)
          \/ Commit(r) \/ Rollback(r)
    \/ \E a \in Accounts : CacheExpires(a)
    \/ \E p \in Providers : CreateProvider(p) \/ DeleteProvider(p)

Spec == Init /\ [][Next]_vars

-----------------------------------------------------------------------------
TypeOK ==
    /\ \A a \in Accounts : row[a] \in AccountRow
    /\ \A p \in Providers : row[p] = None \/ row[p] \in ProviderRow
    /\ cached \in [Accounts -> (0 .. MaxServed) \cup {None}]
    /\ \A r \in Requests :
          /\ req[r].step \in {"idle", "asking", "changed", "written", "raised"}
          /\ req[r].kind \in Kinds \cup {None} /\ req[r].id \in Ids \cup {None}
    /\ served \in 0 .. MaxServed
    /\ accepted \in [Accounts -> SUBSET (0 .. MaxServed)]

(* However requests on one row overlap, each column holds what the last     *)
(* committed request that changes it wants: a connection test that takes    *)
(* its time does not bring back the old credentials, nor a change of the    *)
(* model list the old key.  What is shown of an account (connected, a       *)
(* cached balance) is an answer of the exchange to credentials of this      *)
(* account.  And no request, whatever it has loaded, leaves a model in a    *)
(* list twice ("Check for duplicate", providers.py).                        *)
ColumnsKept == row = asked
ShownIsAnswered ==
    \A a \in Accounts : /\ row[a].connected => accepted[a] # {}
                        /\ cached[a] \in accepted[a] \cup {None}
ModelsOnce == \A p \in Providers : row[p] # None => IsInjective(row[p].models)
SettingsKept == ColumnsKept /\ ShownIsAnswered /\ ModelsOnce

(* "Attempts to authenticate with stored credentials and updates the        *)
(* connection status" (accounts.py): when a test has failed the account is  *)
(* not shown as connected.                                                  *)
FailureShows ==
    [][ \A r \in Requests :
          req[r].kind = "test" /\ req[r].step = "raised" /\ req'[r].step = "idle"
             => ~row'[req[r].id].connected ]_vars
=============================================================================
