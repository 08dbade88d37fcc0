------------------------------- MODULE WagerApi -------------------------------
(***************************************************************************)
(* The HTTP API (internal/adapters/httpapi): who may call what, and what a  *)
(* provider may conclude from the status of a reply when requests are       *)
(* repeated, handled at the same time, and their replies lost.              *)
(*                                                                         *)
(* Process is seen from the outside: its lookups, the unique indexes that   *)
(* decide between two inserts, and some verdict; WagerService has the rest. *)
(* Here there are several providers.                                        *)
(***************************************************************************)
EXTENDS Naturals, FiniteSets

CONSTANTS
  Clients,    \* holders of tokens
  Roles,      \* [Clients -> SUBSET {"provider", "internal"}], the roles claim
  Claim,      \* [Clients -> Providers \cup {""}], the provider_id claim
  Providers, ExternalIds, Keys,
  Requests,   \* the bodies and headers clients may POST
  Handlers,   \* bound: requests handled at once
  MaxRetries, \* MaxWalletRetries
  MaxPosts,   \* bound: requests received
  NoRequest, Nobody

Forms == {"good", "no key", "bad json", "bad field"}

RequestType ==
  [by : Clients, form : Forms, provider : Providers, ext : ExternalIds,
   key : Keys, data : {"a", "b"}]

ASSUME ApiAssumption ==
  /\ Roles \in [Clients -> SUBSET {"provider", "internal"}]
  /\ Claim \in [Clients -> Providers \cup {""}]
  /\ "" \notin Providers
  /\ Requests \subseteq RequestType /\ NoRequest \notin Requests
  /\ MaxRetries \in Nat /\ MaxPosts \in Nat
  /\ Nobody \notin Clients

VARIABLES
  rows,    \* wager_transactions, by provider and external identifier
  request, \* [Handlers -> the request being handled, or NoRequest]
  pc,      \* [Handlers -> the next step]
  tries,   \* [Handlers -> attempts of Process that failed]
  reply,   \* [Handlers -> the reply about to be sent]
  told,    \* history: <<request, reply>> that reached the client; those with
           \* a verdict or a conflict
  posts

vars == <<rows, request, pc, tries, reply, told, posts>>

Operations == Providers \X ExternalIds
Of(r) == <<r.provider, r.ext>>

Absent == [status |-> "ABSENT", data |-> "a", key |-> "none", by |-> Nobody]

Verdicts == {"PROCESSED", "REJECTED"}

\* statusForKind
StatusForKind(kind) ==
  CASE kind = "invalid"      -> 400
    [] kind = "unauthorized" -> 401
    [] kind = "forbidden"    -> 403
    [] kind = "not_found"    -> 404
    [] kind = "conflict"     -> 409
    [] kind = "rejected"     -> 422
    [] kind = "unavailable"  -> 503
    [] OTHER                 -> 500

\* writeError
Error(kind, code) == [http |-> StatusForKind(kind), code |-> code]

Unanswered == [http |-> 0, code |-> "none"]
NoRefusal == Unanswered

Init ==
  /\ rows = [o \in Operations |-> Absent]
  /\ request = [h \in Handlers |-> NoRequest]
  /\ pc = [h \in Handlers |-> "idle"]
  /\ tries = [h \in Handlers |-> 0]
  /\ reply = [h \in Handlers |-> Unanswered]
  /\ told = {}
  /\ posts = 0

-----------------------------------------------------------------------------
(* Authorization.                                                           *)

\* RequireRoles
MayCall(c, roles) == Roles[c] \cap roles # {}

\* Fault: a token without the claim is compared as well.
SameClaim(c, provider) == "internal" \in Roles[c] \/ Claim[c] = provider

\* authorizeProvider
Authorized(c, provider) ==
  \/ "internal" \in Roles[c]
  \/ Claim[c] # "" /\ Claim[c] = provider

WalletRoles   == {"internal"}
WageringRoles == {"provider", "internal"}

-----------------------------------------------------------------------------
(* POST /wagering/transactions.                                             *)

Goto(h, step) == pc' = [pc EXCEPT ![h] = step]

Answer(h, a) ==
  /\ Goto(h, "reply")
  /\ reply' = [reply EXCEPT ![h] = a]

\* RequireRoles, Submit up to its call of Process, and the latter's Validate:
\* the first refusal, or NoRefusal.
Refusal(r) ==
  CASE ~MayCall(r.by, WageringRoles)         -> Error("forbidden", "FORBIDDEN")
    [] MayCall(r.by, WageringRoles)
       /\ r.form \in {"no key", "bad json"}  -> Error("invalid", "INVALID_REQUEST")
    [] MayCall(r.by, WageringRoles)
       /\ r.form \in {"bad field", "good"}
       /\ ~Authorized(r.by, r.provider)      -> Error("forbidden", "FORBIDDEN")
    [] MayCall(r.by, WageringRoles)
       /\ r.form = "bad field"
       /\ Authorized(r.by, r.provider)       -> Error("invalid", "INVALID_REQUEST")
    [] OTHER                                 -> NoRefusal

\* A request passes Auth.Authenticate or not, as its token may expire between
\* two copies of it; until Process is called nothing depends on the tables.
Post(h, r) ==
  /\ pc[h] = "idle" /\ posts < MaxPosts
  /\ posts' = posts + 1
  /\ request' = [request EXCEPT ![h] = r]
  /\ \/ Answer(h, Error("unauthorized", "INVALID_TOKEN"))
     \/ Refusal(r) # NoRefusal /\ Answer(h, Refusal(r))
     \/ Refusal(r) = NoRefusal /\ Goto(h, "external") /\ UNCHANGED reply
  /\ UNCHANGED <<rows, tries, told>>

\* The status Submit gives a result.
Outcome(status, replayed) ==
  CASE status = "REJECTED"          -> Error("rejected", "REJECTED")
    [] status = "PENDING_REFERENCE" -> [http |-> 202, code |-> status]
    [] status = "PROCESSED" /\ replayed  -> [http |-> 200, code |-> status]
    [] status = "PROCESSED" /\ ~replayed -> [http |-> 201, code |-> status]

\* Fault: a replay does not compare the hashes.
AnyPayload(row, r) == TRUE

\* The payload hashes are equal, given one operation.
SamePayload(row, r) == row.data = r.data

\* replay
Replay(h, row, same) ==
  Answer(h, IF same THEN Outcome(row.status, TRUE)
            ELSE Error("conflict", "IDEMPOTENCY_CONFLICT"))

\* GetByProviderExternal
LookUpExternal(h) ==
  LET row == rows[Of(request[h])] IN
  /\ pc[h] = "external"
  /\ \/ row = Absent /\ Goto(h, "key") /\ UNCHANGED reply
     \/ row # Absent /\ Replay(h, row, SamePayload(row, request[h]))
  /\ UNCHANGED <<rows, request, tries, told, posts>>

\* The operations of the provider that hold the key of r.
Holders(r) ==
  {o \in Operations : o[1] = r.provider /\ rows[o] # Absent /\ rows[o].key = r.key}

\* Fault: a row found by its key is never the request's own.
KeyConflicts(h) ==
  LET r == request[h] IN
  /\ pc[h] = "key"
  /\ \/ Holders(r) = {} /\ Goto(h, "insert") /\ UNCHANGED reply
     \/ \E o \in Holders(r) : Replay(h, rows[o], FALSE)
  /\ UNCHANGED <<rows, request, tries, told, posts>>

\* GetByProviderIdempotencyKey
LookUpKey(h) ==
  LET r == request[h] IN
  /\ pc[h] = "key"
  /\ \/ Holders(r) = {} /\ Goto(h, "insert") /\ UNCHANGED reply
     \/ \E o \in Holders(r) :
          Replay(h, rows[o], o = Of(r) /\ SamePayload(rows[o], r))
  /\ UNCHANGED <<rows, request, tries, told, posts>>

\* An attempt ends in a version conflict or at a unique index.
Retry(h) ==
  /\ tries' = [tries EXCEPT ![h] = @ + 1]
  /\ \/ /\ tries[h] < MaxRetries
        /\ Goto(h, "external")
        /\ UNCHANGED reply
     \/ /\ tries[h] = MaxRetries
        /\ Answer(h, Error("conflict", "WALLET_VERSION_CONFLICT"))
  /\ UNCHANGED rows

\* wager_tx_provider_external_unique, wager_tx_provider_idempotency_unique
Taken(r) == rows[Of(r)] # Absent \/ Holders(r) # {}

\* Insert, applyOperation and COMMIT, whose answer may be lost.
Insert(h) ==
  LET r == request[h] IN
  /\ pc[h] = "insert"
  /\ \/ Retry(h)
     \/ /\ ~Taken(r)
        /\ \E status \in Verdicts \cup {"PENDING_REFERENCE"} :
             /\ rows' = [rows EXCEPT ![Of(r)] =
                  [status |-> status, data |-> r.data, key |-> r.key, by |-> r.by]]
             /\ \/ Answer(h, Outcome(status, FALSE))
                \/ Answer(h, Error("internal", "INTERNAL_ERROR"))
        /\ UNCHANGED tries
     \/ /\ \/ Answer(h, Error("internal", "INTERNAL_ERROR"))
           \/ Answer(h, Error("invalid", "MONEY_OVERFLOW"))
        /\ UNCHANGED <<rows, tries>>
  /\ UNCHANGED <<request, told, posts>>

\* The handler is done; its reply arrives, or is lost.
Release(h) ==
  /\ Goto(h, "idle")
  /\ request' = [request EXCEPT ![h] = NoRequest]
  /\ reply' = [reply EXCEPT ![h] = Unanswered]
  /\ tries' = [tries EXCEPT ![h] = 0]
  /\ UNCHANGED <<rows, posts>>

Reply(h) ==
  /\ pc[h] = "reply"
  /\ Release(h)
  /\ told' = IF reply[h].code \in Verdicts \cup {"IDEMPOTENCY_CONFLICT"}
               THEN told \cup {<<request[h], reply[h]>>} ELSE told

\* The reply is lost, or the process dies; what was not committed is undone.
Lose(h) ==
  /\ pc[h] # "idle"
  /\ Release(h)
  /\ UNCHANGED told

-----------------------------------------------------------------------------

\* The resolver finishes a parked operation.
Resume(o) ==
  /\ rows[o].status = "PENDING_REFERENCE"
  /\ \E verdict \in Verdicts : rows' = [rows EXCEPT ![o].status = verdict]
  /\ UNCHANGED <<request, pc, tries, reply, told, posts>>

Next ==
  \/ \E h \in Handlers, r \in Requests : Post(h, r)
  \/ \E h \in Handlers : \/ LookUpExternal(h) \/ LookUpKey(h) \/ Insert(h)
                         \/ Reply(h) \/ Lose(h)
  \/ \E o \in Operations : Resume(o)

-----------------------------------------------------------------------------
(* What the reading routes show, which change nothing: whose data is it.    *)

Stored == {o \in Operations : rows[o] # Absent}

\* GET /wagering/transactions/{transactionId} loads the row before it knows
\* the provider; an OPENING has none.
GetShows(c) ==
  {provider \in {o[1] : o \in Stored} \cup {""} :
     MayCall(c, WageringRoles) /\ Authorized(c, provider)}

\* GET /providers/{providerId}/wagering/transactions/{externalTransactionId}
GetByExternalShows(c) ==
  {o[1] : o \in {p \in Stored : MayCall(c, WageringRoles) /\ Authorized(c, p[1])}}

\* The routes under /wallets.
WalletShows(c) == IF MayCall(c, WalletRoles) THEN {"wallets"} ELSE {}

Spec == Init /\ [][Next]_vars

-----------------------------------------------------------------------------

\* "Providers may only submit operations for their own providerId and read
\* their own transactions"; wallets, and the OPENING of a wallet, are for the
\* internal service (RequireRoles, authorizeProvider, the route groups).
ProviderIsolation ==
  /\ \A c \in Clients : "internal" \notin Roles[c] =>
       GetShows(c) \cup GetByExternalShows(c) \cup WalletShows(c)
         \subseteq {Claim[c]} \ {""}
  /\ \A o \in Stored : \/ "internal" \in Roles[rows[o].by]
                       \/ Claim[rows[o].by] = o[1]
  /\ \A t \in told : \/ "internal" \in Roles[t[1].by]
                     \/ Claim[t[1].by] = t[1].provider

\* The row of r's operation holds r's payload.
Stands(r) == rows[Of(r)] # Absent /\ rows[Of(r)].data = r.data

\* A conflict stands: whoever was told IDEMPOTENCY_CONFLICT never finds the
\* operation stored under that key, whatever other copies of the request were
\* handled meanwhile (the two lookups of processOnce, the unique indexes).
\* Other refusals with the same statuses, MONEY_OVERFLOW and
\* WALLET_VERSION_CONFLICT, promise nothing.
ConflictForGood ==
  \A t \in told : t[2].code = "IDEMPOTENCY_CONFLICT" =>
    ~(Stands(t[1]) /\ rows[Of(t[1])].key = t[1].key)

\* A verdict stands: 200, 201 and 422 say what the table says from then on,
\* and say it of the client's own payload; only the request that created the
\* operation is told 201, each copy of it a replay's 200 (replay, Submit).
VerdictForGood ==
  \A t \in told : t[2].code \in Verdicts =>
    /\ Stands(t[1]) /\ rows[Of(t[1])].status = t[2].code
    /\ t[2].http = 201 =>
         rows[Of(t[1])].key = t[1].key /\ rows[Of(t[1])].by = t[1].by
=============================================================================
