------------------------------ MODULE LedgerPages ------------------------------
(***************************************************************************)
(* GET /wallets/{walletId}/ledger while the wallet moves: entries carry the *)
(* instant at which their operation began and are listed by it, pages are   *)
(* cut by a cursor, and every page is a statement of its own.  (That is not *)
(* the order of the movements, whatever "newest to oldest" in ports.go may  *)
(* suggest: an operation may begin first and move the wallet last.)         *)
(***************************************************************************)
EXTENDS Naturals, Sequences, SequencesExt, FiniteSets

CONSTANTS
  Operations,  \* concurrent movements of one wallet
  MaxInstant,  \* bound: instants of the clock
  MaxLimit,    \* bound: the largest limit asked for; 200 in parseLimit
  None

ASSUME PagesAssumption ==
  /\ IsFiniteSet(Operations)
  /\ MaxInstant \in Nat \ {0} /\ MaxLimit \in Nat \ {0}
  /\ None \notin Nat

VARIABLES
  clock,
  begun,    \* [Operations -> the instant processOnce took, or None]
  version,  \* [Operations -> the wallet version it read, or None]
  ledger,   \* the entries <<created_at, id>>, in the order of their movements
  cursor,   \* where the reader is: Start, the entry of a cursor, or End
  limit,    \* of the reader's pages
  initial,  \* history: the entries there were when it began
  read      \* the entries it was shown

writers == <<clock, begun, version, ledger>>
reader  == <<cursor, limit, initial, read>>
vars == <<clock, begun, version, ledger, cursor, limit, initial, read>>

Instants == 1..MaxInstant
Ids      == 1..Cardinality(Operations)
Entry    == Instants \X Ids
Limits   == 1..MaxLimit

\* No cursor is one before which everything is; the last page has none either.
Start == <<MaxInstant + 1, 0>>
End   == <<0, 0>>

Init ==
  /\ clock = 1
  /\ begun = [o \in Operations |-> None]
  /\ version = [o \in Operations |-> None]
  /\ ledger = <<>>
  /\ cursor = End /\ limit = 1 /\ initial = {} /\ read = <<>>

-----------------------------------------------------------------------------
(* The movements.  The version of the wallet is the length of its ledger.   *)

Tick ==
  /\ clock < MaxInstant
  /\ clock' = clock + 1
  /\ UNCHANGED <<begun, version, ledger, reader>>

\* processOnce takes its instant.
Begin(o) ==
  /\ begun[o] = None /\ version[o] = None
  /\ begun' = [begun EXCEPT ![o] = clock]
  /\ UNCHANGED <<clock, version, ledger, reader>>

ReadWallet(o) ==
  /\ begun[o] # None /\ version[o] = None
  /\ version' = [version EXCEPT ![o] = Len(ledger)]
  /\ UNCHANGED <<clock, begun, ledger, reader>>

\* UpdateBalance finds its version and the entry is inserted, under an
\* identifier whose order among those of the same instant is anyone's guess.
Move(o) ==
  /\ begun[o] # None /\ version[o] = Len(ledger)
  /\ \E id \in Ids \ {e[2] : e \in ToSet(ledger)} :
       ledger' = Append(ledger, <<begun[o], id>>)
  /\ begun' = [begun EXCEPT ![o] = None]
  /\ UNCHANGED <<clock, version, reader>>

\* It does not: Process tries again from its beginning.
Conflict(o) ==
  /\ begun[o] # None /\ version[o] \notin {None, Len(ledger)}
  /\ begun' = [begun EXCEPT ![o] = None]
  /\ version' = [version EXCEPT ![o] = None]
  /\ UNCHANGED <<clock, ledger, reader>>

-----------------------------------------------------------------------------
(* The reader.                                                              *)

\* (created_at, id) < (created_at, id)
Before(d, e) == d[1] < e[1] \/ (d[1] = e[1] /\ d[2] < e[2])

\* Fault: the cursor has no identifier.
EarlierInstant(c) == {e \in ToSet(ledger) : e[1] < c[1]}

\* The entries the statement of a page may return.
After(c) == {e \in ToSet(ledger) : Before(e, c)}

Descending(rows) == \A i, j \in DOMAIN rows : i < j => Before(rows[j], rows[i])

\* The answers to ORDER BY created_at DESC, id DESC LIMIT n; there is one.
Newest(S, n) ==
  {rows \in SeqOf(S, n) :
     /\ Descending(rows)
     /\ \A e \in S \ ToSet(rows) : Len(rows) = n /\ Before(e, rows[n])}

\* HasMore, from a statement with LIMIT limit + 1.
HasMore(rows, n) == Len(rows) > n

Open(n) ==
  /\ cursor = End
  /\ cursor' = Start /\ limit' = n /\ read' = <<>>
  /\ initial' = ToSet(ledger)
  /\ UNCHANGED writers

\* One request: ListByWallet and the cursor Ledger returns with the page.
Page ==
  /\ cursor # End
  /\ \E rows \in Newest(After(cursor), limit + 1) :
       LET page == SubSeq(rows, 1, IF Len(rows) < limit THEN Len(rows) ELSE limit) IN
       /\ read' = read \o page
       /\ cursor' = IF HasMore(rows, limit) THEN Last(page) ELSE End
  /\ UNCHANGED <<limit, initial, writers>>

Next ==
  \/ Tick \/ Page
  \/ \E o \in Operations : Begin(o) \/ ReadWallet(o) \/ Move(o) \/ Conflict(o)
  \/ \E n \in Limits : Open(n)

Spec == Init /\ [][Next]_vars

-----------------------------------------------------------------------------

\* Whatever is inserted meanwhile, an entry that was there when the reader
\* began is on the pages it has, or still after its cursor; no entry is shown
\* twice or out of order ("ordenação estável", README.md; the keyset predicate
\* of ListByWallet).
StablePages ==
  /\ initial \subseteq ToSet(read) \cup After(cursor)
  /\ Descending(read)
=============================================================================
