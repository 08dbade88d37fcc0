------------------------------- MODULE ApiProofs -------------------------------
(***************************************************************************)
(* What the HTTP API promises to any number of clients and providers, for   *)
(* any tokens and any requests handled at once.  A row keeps its payload,   *)
(* its key and, once it has a verdict, its status; so whatever justified a  *)
(* reply when it was composed justifies it when it arrives and ever after.  *)
(***************************************************************************)
EXTENDS WagerApi, TLAPS

RowStatuses == Verdicts \cup {"ABSENT", "PENDING_REFERENCE"}

Row ==
  [status : RowStatuses, data : {"a", "b"}, key : Keys \cup {"none"},
   by : Clients \cup {Nobody}]

Steps == {"idle", "external", "key", "insert", "reply"}

(* The replies that promise something, and all of them. *)
Firm == Verdicts \cup {"IDEMPOTENCY_CONFLICT"}

Answers ==
  [http : Nat,
   code : Firm \cup {"none", "INVALID_TOKEN", "FORBIDDEN", "INVALID_REQUEST",
                     "PENDING_REFERENCE", "WALLET_VERSION_CONFLICT",
                     "INTERNAL_ERROR", "MONEY_OVERFLOW"}]

ApiTypes ==
  /\ rows \in [Operations -> Row]
  /\ pc \in [Handlers -> Steps]
  /\ reply \in [Handlers -> Answers]
  /\ request \in [Handlers -> Requests \cup {NoRequest}]
  /\ \A h \in Handlers : pc[h] # "idle" => request[h] \in Requests
  /\ \A o \in Operations : rows[o].status = "ABSENT" <=> rows[o] = Absent

(* The request passed every check before the tables were looked at. *)
Admitted(r) ==
  /\ r \in Requests
  /\ "internal" \in Roles[r.by] \/ Claim[r.by] = r.provider

(* Somebody holds the operation with other data, or the key for another. *)
Contested(r) ==
  \/ rows[Of(r)] # Absent /\ rows[Of(r)].data # r.data
  \/ \E o \in Operations :
       /\ o # Of(r) /\ o[1] = r.provider
       /\ rows[o] # Absent /\ rows[o].key = r.key

(* The table says of r what the verdict a says. *)
Recorded(r, a) ==
  /\ Stands(r) /\ rows[Of(r)].status = a.code
  /\ a.http = 201 => rows[Of(r)].key = r.key /\ rows[Of(r)].by = r.by

Justified(r, a) ==
  /\ a.code \in Firm => Admitted(r)
  /\ a.code = "IDEMPOTENCY_CONFLICT" => Contested(r)
  /\ a.code \in Verdicts => Recorded(r, a)

(* The unique index on (provider, idempotency key). *)
KeysApart ==
  \A o, p \in Operations :
    (o # p /\ o[1] = p[1] /\ rows[o] # Absent /\ rows[p] # Absent) =>
      rows[o].key # rows[p].key

RowsOwned ==
  \A o \in Operations : rows[o] # Absent =>
    /\ rows[o].by \in Clients
    /\ "internal" \in Roles[rows[o].by] \/ Claim[rows[o].by] = o[1]

Sound(h) ==
  /\ pc[h] \in {"external", "key", "insert"} => Admitted(request[h])
  /\ pc[h] = "reply" => Justified(request[h], reply[h])

Replies ==
  /\ \A h \in Handlers : Sound(h)
  /\ \A t \in told :
       t[1] \in Requests /\ t[2].code \in Firm /\ Justified(t[1], t[2])

ApiInv == ApiTypes /\ KeysApart /\ RowsOwned /\ Replies

-----------------------------------------------------------------------------
(* Requests and refusals.                                                   *)

LEMMA RequestFacts ==
  ASSUME NEW r \in Requests
  PROVE  /\ r.by \in Clients /\ r.provider \in Providers /\ r.key \in Keys
         /\ r.data \in {"a", "b"} /\ r.form \in Forms
         /\ Of(r) \in Operations /\ Of(r)[1] = r.provider
BY ApiAssumption DEF RequestType, Of, Operations

(* What passes every check is the client's own business. *)
LEMMA PassedChecks ==
  ASSUME NEW r \in Requests, Refusal(r) = NoRefusal
  PROVE  Admitted(r)
<1>1. \A kind, code : Error(kind, code).code = code
  BY DEF Error
<1>2. NoRefusal.code = "none"
  BY DEF NoRefusal, Unanswered
<1>3. \A kind : /\ Error(kind, "FORBIDDEN") # NoRefusal
                /\ Error(kind, "INVALID_REQUEST") # NoRefusal
  BY <1>1, <1>2
<1>4. r.form \in Forms
  BY RequestFacts
<1>5. MayCall(r.by, WageringRoles) /\ r.form = "good" /\ Authorized(r.by, r.provider)
  BY <1>3, <1>4 DEF Refusal, Forms
<1>6. QED
  BY <1>5 DEF Admitted, Authorized

LEMMA ErrorIs ==
  ASSUME NEW kind, NEW code,
         code \in {"INVALID_TOKEN", "FORBIDDEN", "INVALID_REQUEST", "IDEMPOTENCY_CONFLICT",
                   "WALLET_VERSION_CONFLICT", "INTERNAL_ERROR", "MONEY_OVERFLOW"}
  PROVE  Error(kind, code) \in Answers /\ Error(kind, code).code = code
<1>1. StatusForKind(kind) \in Nat
  BY DEF StatusForKind
<1>2. QED
  BY <1>1 DEF Error, Answers, Firm

(* A refusal is none of the replies that promise something. *)
LEMMA RefusalSoft ==
  ASSUME NEW r
  PROVE  Refusal(r) \in Answers /\ Refusal(r).code \notin Firm
<1>1. \/ Refusal(r) = NoRefusal
      \/ \E kind \in {"forbidden", "invalid"}, code \in {"FORBIDDEN", "INVALID_REQUEST"} :
           Refusal(r) = Error(kind, code)
  BY DEF Refusal
<1>2. NoRefusal \in Answers /\ NoRefusal.code = "none"
  BY DEF NoRefusal, Unanswered, Answers
<1>3. \A kind \in {"forbidden", "invalid"}, code \in {"FORBIDDEN", "INVALID_REQUEST"} :
        Error(kind, code) \in Answers /\ Error(kind, code).code = code
  BY ErrorIs
<1>4. Refusal(r) \in Answers /\ Refusal(r).code \in {"none", "FORBIDDEN", "INVALID_REQUEST"}
  BY <1>1, <1>2, <1>3
<1>5. QED
  BY <1>4 DEF Firm, Verdicts

(* What the status of a result says. *)
LEMMA OutcomeSays ==
  ASSUME NEW s \in Verdicts \cup {"PENDING_REFERENCE"}, NEW replayed \in BOOLEAN
  PROVE  /\ Outcome(s, replayed) \in Answers /\ Outcome(s, replayed).code = s
         /\ replayed => Outcome(s, replayed).http # 201
<1>1. CASE s = "REJECTED"
  <2>1. Outcome(s, replayed) = [http |-> StatusForKind("rejected"), code |-> "REJECTED"]
    BY <1>1 DEF Outcome, Error
  <2>2. StatusForKind("rejected") = 422
    BY DEF StatusForKind
  <2>3. QED
    BY <1>1, <2>1, <2>2 DEF Answers, Firm, Verdicts
<1>2. CASE s = "PENDING_REFERENCE"
  <2>1. Outcome(s, replayed) = [http |-> 202, code |-> s]
    BY <1>2 DEF Outcome
  <2>2. QED
    BY <1>2, <2>1 DEF Answers
<1>3. CASE s = "PROCESSED"
  <2>1. replayed => Outcome(s, replayed) = [http |-> 200, code |-> s]
    BY <1>3 DEF Outcome
  <2>2. ~replayed => Outcome(s, replayed) = [http |-> 201, code |-> s]
    BY <1>3 DEF Outcome
  <2>3. QED
    BY <1>3, <2>1, <2>2 DEF Answers, Firm, Verdicts
<1>4. QED
  BY <1>1, <1>2, <1>3 DEF Verdicts

-----------------------------------------------------------------------------
(* Rows.                                                                    *)

RowsKept ==
  \A o \in Operations : rows[o] # Absent =>
    /\ rows'[o] # Absent
    /\ rows'[o].data = rows[o].data /\ rows'[o].key = rows[o].key
    /\ rows'[o].by = rows[o].by
    /\ rows[o].status \in Verdicts => rows'[o].status = rows[o].status

(* What justified a reply still does. *)
LEMMA StillJustified ==
  ASSUME RowsKept, NEW r \in Requests, NEW a, Justified(r, a)
  PROVE  Justified(r, a)'
<1>1. Of(r) \in Operations
  BY RequestFacts
<1>2. Contested(r) => Contested(r)'
  <2>1. CASE rows[Of(r)] # Absent /\ rows[Of(r)].data # r.data
    BY <1>1, <2>1 DEF Contested, RowsKept
  <2>2. ASSUME NEW o \in Operations, o # Of(r), o[1] = r.provider,
               rows[o] # Absent, rows[o].key = r.key
        PROVE  Contested(r)'
    BY <2>2 DEF Contested, RowsKept
  <2>3. QED
    BY <2>1, <2>2 DEF Contested
<1>3. a.code \in Verdicts /\ Recorded(r, a) => Recorded(r, a)'
  BY <1>1 DEF Recorded, Stands, RowsKept
<1>4. QED
  BY <1>2, <1>3 DEF Justified, Admitted

LEMMA StillSound ==
  ASSUME ApiInv, RowsKept, NEW g \in Handlers,
         pc'[g] = pc[g], request'[g] = request[g], reply'[g] = reply[g]
  PROVE  Sound(g)'
<1>1. Sound(g)
  BY DEF ApiInv, Replies
<1>2. CASE pc[g] = "reply"
  <2>1. PICK r \in Requests : r = request[g]
    BY <1>2 DEF ApiInv, ApiTypes
  <2>2. PICK a \in Answers : a = reply[g]
    BY DEF ApiInv, ApiTypes
  <2>3. Justified(r, a)
    BY <1>1, <1>2, <2>1, <2>2
    DEF Sound, Justified, Admitted, Contested, Recorded, Stands, Of
  <2>4. Justified(r, a)'
    BY <2>3, StillJustified
  <2>5. QED
    BY <1>2, <2>1, <2>2, <2>4
    DEF Sound, Justified, Admitted, Contested, Recorded, Stands, Of
<1>3. CASE pc[g] # "reply"
  BY <1>1, <1>3 DEF Sound, Admitted
<1>4. QED
  BY <1>2, <1>3

LEMMA StillTold ==
  ASSUME ApiInv, RowsKept, NEW t \in told
  PROVE  t[1] \in Requests /\ t[2].code \in Firm /\ Justified(t[1], t[2])'
BY StillJustified DEF ApiInv, Replies

(* A step of one handler, seen by the others. *)
LEMMA OthersSound ==
  ASSUME ApiInv, RowsKept, told' = told, NEW h \in Handlers, Sound(h)',
         \A g \in Handlers \ {h} :
           pc'[g] = pc[g] /\ request'[g] = request[g] /\ reply'[g] = reply[g]
  PROVE  Replies'
BY StillSound, StillTold DEF Replies

(* The step of h is a step of h alone, and leaves it sound. *)
Moved(h) ==
  /\ pc' \in [Handlers -> Steps] /\ reply' \in [Handlers -> Answers]
  /\ \A g \in Handlers \ {h} : pc'[g] = pc[g] /\ reply'[g] = reply[g]
  /\ Sound(h)'

(* An answer ends the work of its handler. *)
LEMMA AnswerGiven ==
  ASSUME ApiInv, NEW h \in Handlers, NEW r \in Requests, request'[h] = r,
         NEW a \in Answers, Answer(h, a), Justified(r, a)'
  PROVE  Moved(h)
<1>1. /\ pc' = [pc EXCEPT ![h] = "reply"] /\ reply' = [reply EXCEPT ![h] = a]
      /\ pc \in [Handlers -> Steps] /\ reply \in [Handlers -> Answers]
  BY DEF Answer, Goto, ApiInv, ApiTypes
<1>2. /\ pc' \in [Handlers -> Steps] /\ reply' \in [Handlers -> Answers]
      /\ \A g \in Handlers \ {h} : pc'[g] = pc[g] /\ reply'[g] = reply[g]
      /\ pc'[h] = "reply" /\ reply'[h] = a
  BY <1>1 DEF Steps
<1>3. Sound(h)'
  BY <1>2 DEF Sound, Justified, Admitted, Contested, Recorded, Stands, Of
<1>4. QED
  BY <1>2, <1>3 DEF Moved

(* So does a refusal or a failure, which promise nothing. *)
LEMMA SoftAnswer ==
  ASSUME NEW r, NEW a, a.code \notin Firm
  PROVE  Justified(r, a)'
BY DEF Justified, Firm

(* A handler goes on. *)
LEMMA GoesOn ==
  ASSUME ApiInv, NEW h \in Handlers, Admitted(request'[h]),
         NEW step \in {"external", "key", "insert"}, Goto(h, step), reply' = reply
  PROVE  Moved(h)
<1>1. /\ pc' = [pc EXCEPT ![h] = step] /\ pc \in [Handlers -> Steps]
      /\ reply \in [Handlers -> Answers]
  BY DEF Goto, ApiInv, ApiTypes
<1>2. pc' \in [Handlers -> Steps] /\ pc'[h] = step
  BY <1>1 DEF Steps
<1>3. Sound(h)'
  BY <1>2 DEF Sound, Admitted
<1>4. QED
  BY <1>1, <1>2, <1>3 DEF Moved

-----------------------------------------------------------------------------
(* Every step.                                                              *)

LEMMA PostKeeps ==
  ASSUME ApiInv, NEW h \in Handlers, NEW r \in Requests, Post(h, r)
  PROVE  ApiInv'
<1>1. /\ request' \in [Handlers -> Requests \cup {NoRequest}]
      /\ request'[h] = r /\ r \in Requests
      /\ \A g \in Handlers \ {h} : request'[g] = request[g]
      /\ rows' = rows /\ told' = told
  BY DEF Post, ApiInv, ApiTypes
<1>2. Moved(h)
  <2>1. CASE Answer(h, Error("unauthorized", "INVALID_TOKEN"))
    <3>1. PICK a \in Answers : a = Error("unauthorized", "INVALID_TOKEN")
      BY ErrorIs
    <3>2. a.code \notin Firm /\ Answer(h, a)
      BY <2>1, <3>1, ErrorIs DEF Firm, Verdicts, Answer
    <3>3. Justified(r, a)'
      BY <3>2, SoftAnswer
    <3>4. QED
      BY <1>1, <3>2, <3>3, AnswerGiven
  <2>2. CASE Answer(h, Refusal(r))
    <3>1. PICK a \in Answers : a = Refusal(r)
      BY RefusalSoft
    <3>2. a.code \notin Firm /\ Answer(h, a)
      BY <2>2, <3>1, RefusalSoft DEF Answer
    <3>3. Justified(r, a)'
      BY <3>2, SoftAnswer
    <3>4. QED
      BY <1>1, <3>2, <3>3, AnswerGiven
  <2>3. CASE Refusal(r) = NoRefusal /\ Goto(h, "external") /\ UNCHANGED reply
    <3>1. Admitted(request'[h])
      BY <1>1, <2>3, PassedChecks
    <3>2. QED
      BY <2>3, <3>1, GoesOn
  <2>4. QED
    BY <2>1, <2>2, <2>3 DEF Post
<1>3. RowsKept
  BY <1>1 DEF RowsKept
<1>4. Replies'
  BY <1>1, <1>2, <1>3, OthersSound DEF Moved
<1>5. ApiTypes'
  BY <1>1, <1>2 DEF ApiInv, ApiTypes, Moved
<1>6. QED
  BY <1>1, <1>4, <1>5 DEF ApiInv, KeysApart, RowsOwned

(* Either lookup answers with a row, or goes on. *)
LEMMA LookUpKeeps ==
  ASSUME ApiInv, NEW h \in Handlers, LookUpExternal(h) \/ LookUpKey(h)
  PROVE  ApiInv'
<1>1. PICK r \in Requests : r = request[h]
  BY DEF LookUpExternal, LookUpKey, ApiInv, ApiTypes
<1>2. /\ Of(r) \in Operations /\ Admitted(r)
      /\ UNCHANGED <<rows, request, told>>
  BY <1>1, RequestFacts DEF LookUpExternal, LookUpKey, ApiInv, Replies, Sound
<1>3. ASSUME NEW o \in Operations, rows[o] # Absent, o[1] = r.provider,
             o = Of(r) \/ rows[o].key = r.key,
             NEW same \in BOOLEAN, same <=> o = Of(r) /\ rows[o].data = r.data,
             Replay(h, rows[o], same)
      PROVE  \E a \in Answers : Answer(h, a) /\ Justified(r, a)
  <2>1. CASE same
    <3>1. PICK s \in Verdicts \cup {"PENDING_REFERENCE"} : s = rows[o].status
      BY <1>3 DEF ApiInv, ApiTypes, Row, RowStatuses
    <3>2. PICK a \in Answers : a = Outcome(s, TRUE)
      BY OutcomeSays
    <3>3. a.code = s /\ a.http # 201
      BY <3>2, OutcomeSays
    <3>4. Answer(h, a)
      BY <1>3, <2>1, <3>1, <3>2 DEF Replay, Answer
    <3>5. a.code \in Verdicts => Recorded(r, a)
      BY <1>3, <2>1, <3>1, <3>3 DEF Recorded, Stands
    <3>6. a.code # "IDEMPOTENCY_CONFLICT"
      BY <3>3 DEF Verdicts
    <3>7. QED
      BY <1>2, <3>4, <3>5, <3>6 DEF Justified
  <2>2. CASE ~same
    <3>1. PICK a \in Answers : a = Error("conflict", "IDEMPOTENCY_CONFLICT")
      BY ErrorIs
    <3>2. a.code = "IDEMPOTENCY_CONFLICT"
      BY <3>1, ErrorIs
    <3>3. Answer(h, a)
      BY <1>3, <2>2, <3>1 DEF Replay, Answer
    <3>4. Contested(r)
      BY <1>3, <2>2 DEF Contested
    <3>5. QED
      BY <1>2, <3>2, <3>3, <3>4 DEF Justified, Verdicts
  <2>3. QED
    BY <2>1, <2>2
<1>4. \/ \E a \in Answers : Answer(h, a) /\ Justified(r, a)
      \/ \E step \in {"key", "insert"} : Goto(h, step) /\ reply' = reply
  <2>1. CASE LookUpExternal(h)
    <3>1. CASE rows[Of(r)] = Absent
      BY <1>1, <2>1, <3>1 DEF LookUpExternal
    <3>2. CASE rows[Of(r)] # Absent
      <4>1. PICK same \in BOOLEAN : same <=> rows[Of(r)].data = r.data
        OBVIOUS
      <4>2. Replay(h, rows[Of(r)], same)
        BY <1>1, <2>1, <3>2, <4>1 DEF LookUpExternal, SamePayload, Replay
      <4>3. QED
        BY <1>2, <1>3, <3>2, <4>1, <4>2, RequestFacts
    <3>3. QED
      BY <3>1, <3>2
  <2>2. CASE LookUpKey(h)
    <3>1. CASE Holders(r) = {}
      BY <1>1, <2>2, <3>1 DEF LookUpKey
    <3>2. ASSUME NEW o \in Holders(r),
                 Replay(h, rows[o], o = Of(r) /\ SamePayload(rows[o], r))
          PROVE  \E a \in Answers : Answer(h, a) /\ Justified(r, a)
      <4>1. PICK same \in BOOLEAN : same <=> o = Of(r) /\ rows[o].data = r.data
        OBVIOUS
      <4>2. Replay(h, rows[o], same)
        BY <3>2, <4>1 DEF SamePayload, Replay
      <4>3. o \in Operations /\ o[1] = r.provider /\ rows[o] # Absent /\ rows[o].key = r.key
        BY <3>2 DEF Holders
      <4>4. QED
        BY <1>3, <4>1, <4>2, <4>3
    <3>3. QED
      BY <1>1, <2>2, <3>1, <3>2 DEF LookUpKey
  <2>3. QED
    BY <2>1, <2>2
<1>5. RowsKept /\ request'[h] = r
  BY <1>1, <1>2 DEF RowsKept
<1>6. Moved(h)
  <2>1. ASSUME NEW a \in Answers, Answer(h, a), Justified(r, a) PROVE Moved(h)
    BY <1>5, <2>1, StillJustified, AnswerGiven
  <2>2. ASSUME NEW step \in {"key", "insert"}, Goto(h, step), reply' = reply
        PROVE  Moved(h)
    BY <1>2, <1>5, <2>2, GoesOn
  <2>3. QED
    BY <1>4, <2>1, <2>2
<1>7. Replies'
  BY <1>2, <1>5, <1>6, OthersSound DEF Moved
<1>8. ApiTypes'
  BY <1>2, <1>5, <1>6 DEF ApiInv, ApiTypes, Moved
<1>9. QED
  BY <1>2, <1>7, <1>8 DEF ApiInv, KeysApart, RowsOwned

(* Insert finds its operation and its key free, or fails. *)
LEMMA InsertKeeps ==
  ASSUME ApiInv, NEW h \in Handlers, Insert(h)
  PROVE  ApiInv'
<1>1. PICK r \in Requests : r = request[h]
  BY DEF Insert, ApiInv, ApiTypes
<1>2. /\ Of(r) \in Operations /\ Of(r)[1] = r.provider /\ Admitted(r)
      /\ r.by \in Clients /\ r.key \in Keys /\ r.data \in {"a", "b"}
      /\ UNCHANGED <<request, told>> /\ request'[h] = r
  BY <1>1, RequestFacts DEF Insert, ApiInv, Replies, Sound
<1>3. CASE rows' = rows
  <2>1. RowsKept
    BY <1>3 DEF RowsKept
  <2>2. ASSUME NEW a \in Answers, a.code \notin Firm, Answer(h, a) PROVE Moved(h)
    BY <1>2, <2>2, SoftAnswer, AnswerGiven
  <2>3. Moved(h)
    <3>1. \/ Goto(h, "external") /\ UNCHANGED reply
          \/ \E kind \in {"conflict", "internal", "invalid"},
                code \in {"WALLET_VERSION_CONFLICT", "INTERNAL_ERROR", "MONEY_OVERFLOW"} :
               Answer(h, Error(kind, code))
          \/ ~Taken(r) /\ \E status \in Verdicts \cup {"PENDING_REFERENCE"} :
               rows' = [rows EXCEPT ![Of(r)] =
                 [status |-> status, data |-> r.data, key |-> r.key, by |-> r.by]]
      BY <1>1 DEF Insert, Retry
    <3>2. ASSUME NEW kind,
                 NEW code \in {"WALLET_VERSION_CONFLICT", "INTERNAL_ERROR", "MONEY_OVERFLOW"},
                 Answer(h, Error(kind, code))
          PROVE  Moved(h)
      <4>1. PICK a \in Answers : a = Error(kind, code)
        BY ErrorIs
      <4>2. a.code \notin Firm /\ Answer(h, a)
        BY <3>2, <4>1, ErrorIs DEF Firm, Verdicts, Answer
      <4>3. QED
        BY <2>2, <4>2
    <3>3. ASSUME ~Taken(r), NEW status \in Verdicts \cup {"PENDING_REFERENCE"},
                 rows' = [rows EXCEPT ![Of(r)] =
                   [status |-> status, data |-> r.data, key |-> r.key, by |-> r.by]]
          PROVE  FALSE
      <4>1. rows[Of(r)] = Absent /\ rows'[Of(r)].status = status
        BY <1>2, <3>3 DEF Taken, ApiInv, ApiTypes
      <4>2. QED
        BY <1>3, <4>1 DEF Absent, Verdicts
    <3>4. CASE Goto(h, "external") /\ UNCHANGED reply
      BY <1>2, <3>4, GoesOn
    <3>5. QED
      BY <3>1, <3>2, <3>3, <3>4
  <2>4. Replies'
    BY <1>2, <2>1, <2>3, OthersSound DEF Moved
  <2>5. QED
    BY <1>2, <1>3, <2>3, <2>4 DEF ApiInv, ApiTypes, Moved, KeysApart, RowsOwned
<1>4. CASE rows' # rows
  <2>1. PICK status \in Verdicts \cup {"PENDING_REFERENCE"} :
          /\ ~Taken(r)
          /\ rows' = [rows EXCEPT ![Of(r)] =
               [status |-> status, data |-> r.data, key |-> r.key, by |-> r.by]]
          /\ \/ Answer(h, Outcome(status, FALSE))
             \/ Answer(h, Error("internal", "INTERNAL_ERROR"))
    BY <1>1, <1>4 DEF Insert, Retry
  <2> DEFINE new == [status |-> status, data |-> r.data, key |-> r.key, by |-> r.by]
  <2>2. /\ new \in Row /\ new # Absent
        /\ new.status = status /\ new.data = r.data /\ new.key = r.key /\ new.by = r.by
    BY <1>2 DEF Row, RowStatuses, Absent, Verdicts
  <2>3. /\ rows'[Of(r)] = new
        /\ \A o \in Operations : o # Of(r) => rows'[o] = rows[o]
        /\ rows' \in [Operations -> Row]
    BY <1>2, <2>1, <2>2 DEF ApiInv, ApiTypes
  <2>4. /\ rows[Of(r)] = Absent
        /\ \A o \in Operations :
             o[1] = r.provider /\ rows[o] # Absent => rows[o].key # r.key
    BY <2>1 DEF Taken, Holders
  <2> HIDE DEF new
  <2>5. RowsKept
    BY <2>3, <2>4 DEF RowsKept
  <2>6. KeysApart'
    <3>1. ASSUME NEW o \in Operations, NEW p \in Operations, o # p, o[1] = p[1],
                 rows'[o] # Absent, rows'[p] # Absent
          PROVE  rows'[o].key # rows'[p].key
      <4>1. CASE o = Of(r)
        BY <1>2, <2>2, <2>3, <2>4, <3>1, <4>1
      <4>2. CASE p = Of(r)
        BY <1>2, <2>2, <2>3, <2>4, <3>1, <4>2
      <4>3. CASE o # Of(r) /\ p # Of(r)
        BY <2>3, <3>1, <4>3 DEF ApiInv, KeysApart
      <4>4. QED
        BY <4>1, <4>2, <4>3
    <3>2. QED
      BY <3>1 DEF KeysApart, Absent
  <2>7. RowsOwned'
    BY <1>2, <2>2, <2>3 DEF ApiInv, RowsOwned, Admitted, Absent
  <2>8. Moved(h)
    <3>1. CASE Answer(h, Outcome(status, FALSE))
      <4>1. PICK a \in Answers : a = Outcome(status, FALSE)
        BY OutcomeSays
      <4>2. a.code = status /\ Answer(h, a)
        BY <3>1, <4>1, OutcomeSays DEF Answer
      <4>3. Recorded(r, a)'
        BY <2>2, <2>3, <4>2 DEF Recorded, Stands, Absent
      <4>4. Justified(r, a)'
        BY <1>2, <4>2, <4>3 DEF Justified, Verdicts, Admitted
      <4>5. QED
        BY <1>2, <4>2, <4>4, AnswerGiven
    <3>2. CASE Answer(h, Error("internal", "INTERNAL_ERROR"))
      <4>1. PICK a \in Answers : a = Error("internal", "INTERNAL_ERROR")
        BY ErrorIs
      <4>2. a.code \notin Firm /\ Answer(h, a)
        BY <3>2, <4>1, ErrorIs DEF Firm, Verdicts, Answer
      <4>3. Justified(r, a)'
        BY <4>2, SoftAnswer
      <4>4. QED
        BY <1>2, <4>2, <4>3, AnswerGiven
    <3>3. QED
      BY <2>1, <3>1, <3>2
  <2>9. Replies'
    BY <1>2, <2>5, <2>8, OthersSound DEF Moved
  <2>10. ApiTypes'
    <3>1. \A o \in Operations : rows'[o].status = "ABSENT" <=> rows'[o] = Absent
      BY <2>2, <2>3 DEF ApiInv, ApiTypes, Verdicts
    <3>2. QED
      BY <1>2, <2>3, <2>8, <3>1 DEF ApiInv, ApiTypes, Moved, Absent
  <2>11. QED
    BY <2>6, <2>7, <2>9, <2>10 DEF ApiInv
<1>5. QED
  BY <1>3, <1>4

(* The handler is done, whether its reply arrives or is lost. *)
LEMMA ReleaseKeeps ==
  ASSUME ApiInv, NEW h \in Handlers, Release(h),
         \/ told' = told
         \/ \E r \in Requests, a \in Answers :
              /\ told' = told \cup {<<r, a>>}
              /\ a.code \in Firm /\ Justified(r, a)
  PROVE  ApiInv'
<1>1. /\ pc' = [pc EXCEPT ![h] = "idle"]
      /\ request' = [request EXCEPT ![h] = NoRequest]
      /\ reply' = [reply EXCEPT ![h] = Unanswered] /\ rows' = rows
  BY DEF Release, Goto
<1>2. Unanswered \in Answers
  BY DEF Unanswered, Answers
<1>3. ApiTypes'
  BY <1>1, <1>2 DEF ApiInv, ApiTypes, Steps, Absent
<1>4. RowsKept
  BY <1>1 DEF RowsKept
<1>5. \A g \in Handlers : Sound(g)'
  <2>1. ASSUME NEW g \in Handlers, g # h PROVE Sound(g)'
    BY <1>1, <1>4, <2>1, StillSound DEF ApiInv, ApiTypes
  <2>2. Sound(h)'
    BY <1>1 DEF Sound, ApiInv, ApiTypes
  <2>3. QED
    BY <2>1, <2>2
<1>6. ASSUME NEW t \in told'
      PROVE  t[1] \in Requests /\ t[2].code \in Firm /\ Justified(t[1], t[2])'
  <2>1. CASE t \in told
    BY <1>4, <2>1, StillTold
  <2>2. ASSUME NEW r \in Requests, NEW a \in Answers, t = <<r, a>>,
               a.code \in Firm, Justified(r, a)
        PROVE  t[1] \in Requests /\ t[2].code \in Firm /\ Justified(t[1], t[2])'
    <3>1. t[1] = r /\ t[2] = a
      BY <2>2
    <3>2. Justified(r, a)'
      BY <1>4, <2>2, StillJustified
    <3>3. QED
      BY <2>2, <3>1, <3>2
  <2>3. QED
    BY <2>1, <2>2
<1>7. QED
  BY <1>1, <1>3, <1>5, <1>6 DEF ApiInv, Replies, KeysApart, RowsOwned, Absent

LEMMA ResumeKeeps ==
  ASSUME ApiInv, NEW o \in Operations, Resume(o)
  PROVE  ApiInv'
<1>1. PICK verdict \in Verdicts : rows' = [rows EXCEPT ![o].status = verdict]
  BY DEF Resume
<1>2. /\ rows[o].status = "PENDING_REFERENCE" /\ rows[o] \in Row
      /\ UNCHANGED <<request, pc, reply, told>>
  BY DEF Resume, ApiInv, ApiTypes
<1>3. /\ rows'[o] \in Row
      /\ rows'[o].status = verdict /\ rows'[o].data = rows[o].data
      /\ rows'[o].key = rows[o].key /\ rows'[o].by = rows[o].by
      /\ rows'[o] # Absent /\ rows[o] # Absent
  <2>1. rows'[o] = [rows[o] EXCEPT !.status = verdict]
    BY <1>1 DEF ApiInv, ApiTypes
  <2>2. rows'[o] = [status |-> verdict, data |-> rows[o].data, key |-> rows[o].key,
                    by |-> rows[o].by]
    BY <1>2, <2>1 DEF Row
  <2>3. QED
    BY <1>2, <2>2 DEF Row, RowStatuses, Absent, Verdicts
<1>4. /\ \A p \in Operations : p # o => rows'[p] = rows[p]
      /\ rows' \in [Operations -> Row]
  BY <1>1, <1>3 DEF ApiInv, ApiTypes
<1>5. RowsKept
  BY <1>2, <1>3, <1>4 DEF RowsKept, Verdicts
<1>6. Replies'
  BY <1>2, <1>5, StillSound, StillTold DEF Replies
<1>7. ApiTypes'
  BY <1>2, <1>3, <1>4 DEF ApiInv, ApiTypes, Verdicts, Absent
<1>8. KeysApart' /\ RowsOwned'
  BY <1>3, <1>4 DEF ApiInv, KeysApart, RowsOwned, Absent
<1>9. QED
  BY <1>6, <1>7, <1>8 DEF ApiInv

LEMMA ApiNext == ApiInv /\ [Next]_vars => ApiInv'
<1> SUFFICES ASSUME ApiInv, [Next]_vars PROVE ApiInv'
  OBVIOUS
<1>1. ASSUME NEW h \in Handlers, Reply(h) PROVE ApiInv'
  <2>1. Release(h) /\ request[h] \in Requests /\ reply[h] \in Answers
    BY <1>1 DEF Reply, ApiInv, ApiTypes
  <2>2. Justified(request[h], reply[h])
    BY <1>1 DEF Reply, ApiInv, Replies, Sound
  <2>3. \/ told' = told
        \/ told' = told \cup {<<request[h], reply[h]>>} /\ reply[h].code \in Firm
    BY <1>1 DEF Reply, Firm
  <2>4. PICK r \in Requests : r = request[h]
    BY <2>1
  <2>5. PICK a \in Answers : a = reply[h]
    BY <2>1
  <2>6. Justified(r, a)
    BY <2>2, <2>4, <2>5 DEF Justified, Admitted, Contested, Recorded, Stands, Of
  <2>7. QED
    BY <2>1, <2>3, <2>4, <2>5, <2>6, ReleaseKeeps
<1>2. ASSUME NEW h \in Handlers, Lose(h) PROVE ApiInv'
  BY <1>2, ReleaseKeeps DEF Lose
<1>3. CASE UNCHANGED vars
  <2>1. RowsKept
    BY <1>3 DEF RowsKept, vars
  <2>2. Replies'
    BY <1>3, <2>1, StillSound, StillTold DEF Replies, vars
  <2>3. QED
    BY <1>3, <2>2 DEF vars, ApiInv, ApiTypes, KeysApart, RowsOwned
<1>4. QED
  BY <1>1, <1>2, <1>3, PostKeeps, LookUpKeeps, InsertKeeps, ResumeKeeps DEF Next

LEMMA ApiInit == Init => ApiInv
<1> SUFFICES ASSUME Init PROVE ApiInv
  OBVIOUS
<1>1. Absent \in Row /\ Unanswered \in Answers
  BY DEF Absent, Row, RowStatuses, Unanswered, Answers
<1>2. ApiTypes
  BY <1>1 DEF Init, ApiTypes, Steps, Absent
<1>3. QED
  BY <1>2 DEF Init, ApiInv, KeysApart, RowsOwned, Replies, Sound

LEMMA ApiInvariant == Spec => []ApiInv
BY ApiInit, ApiNext, PTL DEF Spec

-----------------------------------------------------------------------------
(* What clients may conclude.                                               *)

\* No token lets a client see or submit another provider's operations, and only
\* the internal service sees wallets and openings (authorizeProvider,
\* RequireRoles).
THEOREM ProvidersAreIsolated == Spec => []ProviderIsolation
<1>1. ASSUME NEW c \in Clients, "internal" \notin Roles[c]
      PROVE  GetShows(c) \cup GetByExternalShows(c) \cup WalletShows(c)
               \subseteq {Claim[c]} \ {""}
  <2>1. ~MayCall(c, WalletRoles)
    BY <1>1 DEF MayCall, WalletRoles
  <2>2. \A provider : Authorized(c, provider) => provider \in {Claim[c]} \ {""}
    BY <1>1 DEF Authorized
  <2>3. QED
    BY <2>1, <2>2 DEF GetShows, GetByExternalShows, WalletShows
<1>2. ApiInv => ProviderIsolation
  BY <1>1 DEF ApiInv, RowsOwned, Replies, Justified, Admitted, Stored, ProviderIsolation
<1>3. QED
  BY <1>2, ApiInvariant, PTL

\* A conflict that a client was told stands: either the row of its operation
\* holds other data, or its key belongs to another operation, for good
\* (processOnce, replay, the unique indexes).
THEOREM ConflictsStand == Spec => []ConflictForGood
<1>1. ASSUME ApiInv, NEW r \in Requests, Contested(r), Stands(r), rows[Of(r)].key = r.key
      PROVE  FALSE
  <2>1. Of(r) \in Operations /\ Of(r)[1] = r.provider
    BY RequestFacts
  <2>2. PICK o \in Operations :
          o # Of(r) /\ o[1] = r.provider /\ rows[o] # Absent /\ rows[o].key = r.key
    BY <1>1 DEF Contested, Stands
  <2>3. QED
    BY <1>1, <2>1, <2>2 DEF ApiInv, KeysApart, Stands
<1>2. ApiInv => ConflictForGood
  BY <1>1 DEF ApiInv, Replies, Justified, ConflictForGood
<1>3. QED
  BY <1>2, ApiInvariant, PTL

\* A verdict that a client was told stands, on its own payload, and a 201 only
\* ever answers the request that stored the operation (Submit, replay).
THEOREM VerdictsStand == Spec => []VerdictForGood
<1>1. ApiInv => VerdictForGood
  BY DEF ApiInv, Replies, Justified, Recorded, VerdictForGood
<1>2. QED
  BY <1>1, ApiInvariant, PTL
=============================================================================
