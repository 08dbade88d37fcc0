------------------------------ MODULE WalletProofs ------------------------------
(***************************************************************************)
(* Wallets for any number of owners, clients, movements and crashes: racing *)
(* openings, pages of a ledger that moves while it is read, and             *)
(* reconciliations of ledgers of any length.                                *)
(***************************************************************************)
EXTENDS MCWallets, SequenceTheorems, FiniteSetTheorems, WellFoundedInduction,
        TLAPS

-----------------------------------------------------------------------------
(* The order of entries.                                                    *)

\* Instants are numbers, and identifiers are.
LEMMA EntryNumbers ==
  /\ Entry \subseteq Nat \X Nat
  /\ Start \in Nat \X Nat /\ End \in Nat \X Nat
  /\ \A e \in Entry : Before(e, Start) /\ ~Before(e, End)
  /\ Start # End
<1>1. Cardinality(Operations) \in Nat
  BY PagesAssumption, FS_CardinalityType
<1> QED BY <1>1, PagesAssumption DEF Entry, Instants, Ids, Start, End, Before

\* Before is a total order.
LEMMA BeforeOrders ==
  ASSUME NEW c \in Nat \X Nat, NEW d \in Nat \X Nat, NEW e \in Nat \X Nat
  PROVE  /\ ~Before(c, c)
         /\ Before(c, d) => ~Before(d, c)
         /\ Before(c, d) /\ Before(d, e) => Before(c, e)
         /\ Before(c, d) \/ Before(d, c) \/ c = d
BY DEF Before

-----------------------------------------------------------------------------
(* Pages.                                                                   *)

PageTypes ==
  /\ clock \in Instants
  /\ begun \in [Operations -> Instants \cup {None}]
  /\ ledger \in Seq(Entry)
  /\ cursor \in Entry \cup {Start, End}
  /\ limit \in Limits
  /\ read \in Seq(Entry)

\* A page takes up where the last one ended: the reader was shown nothing that
\* is still to come.
PageInv ==
  /\ PageTypes
  /\ StablePages
  /\ cursor # End => \A e \in ToSet(read) : ~Before(e, cursor)

\* Nothing has been read.
LEMMA InitPages == Init => PageInv
<1> SUFFICES ASSUME Init PROVE PageInv
  OBVIOUS
<1>1. PageTypes
  BY PagesAssumption DEF Init, PageTypes, Instants, Limits
<1>2. StablePages
  BY DEF Init, StablePages, Descending
<1> QED BY <1>1, <1>2 DEF Init, PageInv

\* What may still come does not become less when the ledger grows.
LEMMA WriterPages ==
  ASSUME PageInv, PageTypes', ToSet(ledger) \subseteq ToSet(ledger'), UNCHANGED reader
  PROVE  PageInv'
<1>1. After(cursor) \subseteq After(cursor)'
  BY DEF After, reader
<1>2. StablePages'
  BY <1>1 DEF PageInv, StablePages, Descending, reader, ToSet
<1> QED BY <1>2 DEF PageInv, reader, ToSet

\* An appended entry is the only new one.
LEMMA Entered ==
  ASSUME NEW e \in Entry, ledger \in Seq(Entry)
  PROVE  /\ Append(ledger, e) \in Seq(Entry)
         /\ ToSet(ledger) \subseteq ToSet(Append(ledger, e))
<1>1. /\ Append(ledger, e) \in Seq(Entry)
      /\ DOMAIN ledger = 1..Len(ledger) /\ Len(ledger) \in Nat
      /\ DOMAIN Append(ledger, e) = 1..(Len(ledger) + 1)
      /\ \A i \in 1..Len(ledger) : Append(ledger, e)[i] = ledger[i]
  OBVIOUS
<1> QED BY <1>1 DEF ToSet

\* The reader begins before everything.
LEMMA OpenPages == ASSUME PageInv, NEW n \in Limits, Open(n) PROVE PageInv'
<1>1. /\ cursor' = Start /\ limit' = n /\ read' = <<>> /\ initial' = ToSet(ledger)
      /\ UNCHANGED <<clock, begun, ledger>>
  BY DEF Open, writers
<1>2. PageTypes'
  BY <1>1 DEF PageInv, PageTypes
<1>3. ToSet(ledger) \subseteq After(cursor)'
  BY <1>1, EntryNumbers DEF After, ToSet, PageInv, PageTypes
<1>4. StablePages'
  BY <1>1, <1>3 DEF StablePages, Descending
<1> QED BY <1>1, <1>2, <1>4 DEF PageInv, ToSet

\* What SubSeq leaves of the rows.
LEMMA FirstRows ==
  ASSUME NEW rows \in Seq(Entry), NEW n \in Nat, n <= Len(rows)
  PROVE  /\ SubSeq(rows, 1, n) \in Seq(Entry)
         /\ Len(SubSeq(rows, 1, n)) = n
         /\ \A i \in 1..n : SubSeq(rows, 1, n)[i] = rows[i]
<1>1. Len(rows) \in Nat
  OBVIOUS
<1>2. \A i \in 1..n : rows[i] \in Entry
  BY <1>1
<1> QED BY <1>1, <1>2

\* One page: its rows come after everything read, in their order, and what of
\* the rest is neither on it nor after its last row is not there.
LEMMA NextPage == PageInv /\ Page => PageInv'
<1> SUFFICES ASSUME PageInv, Page PROVE PageInv'
  OBVIOUS
<1>1. cursor # End /\ UNCHANGED <<clock, begun, ledger, limit, initial>>
  BY DEF Page, writers
<1>2. PICK rows \in Newest(After(cursor), limit + 1) :
        LET page == SubSeq(rows, 1, IF Len(rows) < limit THEN Len(rows) ELSE limit) IN
        /\ read' = read \o page
        /\ cursor' = IF HasMore(rows, limit) THEN Last(page) ELSE End
  BY DEF Page
<1> DEFINE n == IF Len(rows) < limit THEN Len(rows) ELSE limit
           page == SubSeq(rows, 1, n)
           L == Len(read)
<1>3. /\ read' = read \o page
      /\ cursor' = IF Len(rows) > limit THEN page[Len(page)] ELSE End
  BY <1>2 DEF HasMore, Last
<1>4. /\ limit \in Nat \ {0} /\ read \in Seq(Entry) /\ L \in Nat
      /\ cursor \in Nat \X Nat /\ After(cursor) \subseteq Entry
      /\ \A e \in After(cursor) : Before(e, cursor)
      /\ \A i \in 1..L : ~Before(read[i], cursor)
  BY <1>1, EntryNumbers, PagesAssumption
     DEF PageInv, PageTypes, Limits, After, ToSet
<1>5. /\ rows \in Seq(Entry) /\ Len(rows) \in Nat /\ Len(rows) <= limit + 1
      /\ \A i \in 1..Len(rows) : rows[i] \in After(cursor)
      /\ \A i, j \in 1..Len(rows) : i < j => Before(rows[j], rows[i])
      /\ \A e \in After(cursor) :
           \/ \E i \in 1..Len(rows) : rows[i] = e
           \/ Len(rows) = limit + 1 /\ Before(e, rows[limit + 1])
  <2>1. /\ rows \in SeqOf(After(cursor), limit + 1) /\ Descending(rows)
        /\ \A e \in After(cursor) \ ToSet(rows) :
             Len(rows) = limit + 1 /\ Before(e, rows[limit + 1])
    BY <1>2 DEF Newest
  <2>2. PICK m \in 0..(limit + 1) : rows \in [1..m -> After(cursor)]
    BY <2>1 DEF SeqOf
  <2>3. /\ Len(rows) = m /\ m \in Nat /\ DOMAIN rows = 1..m
        /\ rows \in Seq(Entry)
    BY <1>4, <2>2
  <2> QED BY <1>4, <2>1, <2>2, <2>3 DEF Descending, ToSet
<1> HIDE DEF L
<1>6. /\ n \in Nat /\ n <= Len(rows) /\ n <= limit
      /\ Len(rows) > limit => n = limit
      /\ Len(rows) <= limit => n = Len(rows)
  BY <1>4, <1>5
<1> HIDE DEF n
<1>7. /\ page \in Seq(Entry) /\ Len(page) = n
      /\ \A i \in 1..n : page[i] = rows[i]
  BY <1>5, <1>6, FirstRows
<1> HIDE DEF page
<1>8. /\ read' \in Seq(Entry) /\ DOMAIN read' = 1..(L + n)
      /\ \A i \in 1..L : read'[i] = read[i]
      /\ \A i \in 1..n : read'[L + i] = rows[i]
      /\ \A i \in 1..(L + n) : i \in 1..L \/ (i - L \in 1..n /\ read'[i] = rows[i - L])
  <2>1. /\ read' \in Seq(Entry) /\ Len(read') = L + n
        /\ \A i \in 1..L : read'[i] = read[i]
        /\ \A i \in 1..(L + n) : i > L => read'[i] = page[i - L]
    <3>1. /\ read' \in Seq(Entry) /\ Len(read') = Len(read) + Len(page)
          /\ \A i \in 1..(Len(read) + Len(page)) :
               read'[i] = IF i <= Len(read) THEN read[i] ELSE page[i - Len(read)]
      <4>1. /\ read \o page \in Seq(Entry) /\ Len(read \o page) = Len(read) + Len(page)
            /\ \A i \in 1..(Len(read) + Len(page)) :
                 (read \o page)[i] = IF i <= Len(read) THEN read[i] ELSE page[i - Len(read)]
        BY <1>4, <1>7, ConcatProperties
      <4> QED BY <1>3, <4>1
    <3>2. Len(read) = L /\ Len(page) = n /\ L \in Nat /\ n \in Nat
      BY <1>4, <1>6, <1>7 DEF L
    <3>3. \A i \in 1..(L + n) : read'[i] = IF i <= L THEN read[i] ELSE page[i - L]
      BY <3>1, <3>2
    <3>4. \A i \in 1..L : read'[i] = read[i]
      BY <3>2, <3>3
    <3>5. \A i \in 1..(L + n) : i > L => read'[i] = page[i - L]
      BY <3>2, <3>3
    <3> QED BY <3>1, <3>2, <3>4, <3>5
  <2>2. DOMAIN read' = 1..(L + n)
    BY <2>1
  <2>3. \A i \in 1..n : read'[L + i] = rows[i]
    BY <1>4, <1>6, <1>7, <2>1
  <2>4. ASSUME NEW i \in 1..(L + n), i \notin 1..L
        PROVE  i - L \in 1..n /\ read'[i] = rows[i - L]
    <3>1. i - L \in 1..n /\ i > L
      BY <1>4, <1>6, <2>4
    <3> QED BY <1>7, <2>1, <3>1
  <2> QED BY <2>1, <2>2, <2>3, <2>4
<1>9. /\ cursor' = IF Len(rows) > limit THEN rows[limit] ELSE End
      /\ Len(rows) > limit => rows[limit] \in Entry
  BY <1>3, <1>4, <1>5, <1>6, <1>7
<1>10. PageTypes'
  BY <1>1, <1>8, <1>9 DEF PageInv, PageTypes
<1>11. \A i \in 1..n : rows[i] \in Entry /\ Before(rows[i], cursor)
  <2> SUFFICES ASSUME NEW i \in 1..n
               PROVE  rows[i] \in Entry /\ Before(rows[i], cursor)
    OBVIOUS
  <2>1. rows[i] \in After(cursor)
    BY <1>5, <1>6
  <2> QED BY <1>4, <2>1
<1>12. \A i \in 1..L : read[i] \in Entry
  BY <1>4 DEF L
<1>13. Descending(read')
  <2> SUFFICES ASSUME NEW i \in 1..(L + n), NEW j \in 1..(L + n), i < j
               PROVE  Before(read'[j], read'[i])
    BY <1>8 DEF Descending
  <2>1. CASE j \in 1..L
    <3>1. i \in 1..L
      BY <1>4, <2>1
    <3> QED BY <1>8, <2>1, <3>1 DEF PageInv, StablePages, Descending, L
  <2>2. CASE j \notin 1..L /\ i \notin 1..L
    <3>1. /\ i - L \in 1..n /\ read'[i] = rows[i - L]
          /\ j - L \in 1..n /\ read'[j] = rows[j - L]
      BY <1>8, <2>2
    <3>2. i - L \in 1..Len(rows) /\ j - L \in 1..Len(rows)
      BY <1>5, <1>6, <3>1
    <3>3. i - L < j - L
      BY <1>4, <3>1
    <3>4. Before(rows[j - L], rows[i - L])
      BY <1>5, <3>2, <3>3
    <3> QED BY <3>1, <3>4
  <2>3. CASE j \notin 1..L /\ i \in 1..L
    <3>1. read'[i] \in Nat \X Nat /\ ~Before(read'[i], cursor)
      <4>1. read'[i] = read[i] /\ read[i] \in Entry
        BY <1>8, <1>12, <2>3
      <4> QED BY <1>4, <2>3, <4>1, EntryNumbers DEF L
    <3>2. read'[j] \in Nat \X Nat /\ Before(read'[j], cursor)
      <4>1. j - L \in 1..n /\ read'[j] = rows[j - L]
        BY <1>8, <2>3
      <4> QED BY <1>11, <4>1, EntryNumbers
    <3> QED BY <1>4, <3>1, <3>2, BeforeOrders
  <2> QED BY <2>1, <2>2, <2>3
<1>14. ToSet(read') = ToSet(read) \cup {rows[i] : i \in 1..n}
  <2>1. ToSet(read) = {read[i] : i \in 1..L}
    BY <1>4 DEF ToSet, L
  <2>2. ToSet(read') = {read'[i] : i \in 1..(L + n)}
    BY <1>8 DEF ToSet
  <2>3. \A i \in 1..L : i \in 1..(L + n)
    BY <1>4, <1>6
  <2>4. \A i \in 1..n : L + i \in 1..(L + n)
    BY <1>4, <1>6
  <2>5. ToSet(read) \cup {rows[i] : i \in 1..n} \subseteq ToSet(read')
    BY <1>8, <2>1, <2>2, <2>3, <2>4
  <2>6. ToSet(read') \subseteq ToSet(read) \cup {rows[i] : i \in 1..n}
    BY <1>8, <2>1, <2>2
  <2> QED BY <2>5, <2>6
<1>15. ASSUME NEW e \in After(cursor) PROVE e \in ToSet(read') \cup After(cursor)'
  <2>1. After(cursor)' = {d \in ToSet(ledger) : Before(d, cursor')}
    BY <1>1 DEF After
  <2>2. e \in ToSet(ledger) /\ e \in Nat \X Nat
    BY <1>4, EntryNumbers DEF After
  <2>3. CASE \E i \in 1..n : rows[i] = e
    BY <1>14, <2>3
  <2>4. CASE ~\E i \in 1..n : rows[i] = e
    <3>1. Len(rows) = limit + 1
      BY <1>4, <1>5, <1>6, <2>4
    <3>2. /\ cursor' = rows[limit] /\ rows[limit] \in Nat \X Nat
          /\ rows[limit + 1] \in Nat \X Nat /\ Before(rows[limit + 1], rows[limit])
      <4>1. limit \in 1..Len(rows) /\ limit + 1 \in 1..Len(rows) /\ limit < limit + 1
        BY <1>4, <3>1
      <4>2. rows[limit] \in After(cursor) /\ rows[limit + 1] \in After(cursor)
        BY <1>5, <4>1
      <4>3. Before(rows[limit + 1], rows[limit]) /\ cursor' = rows[limit]
        BY <1>4, <1>5, <1>9, <3>1, <4>1
      <4> QED BY <1>4, <4>2, <4>3, EntryNumbers
    <3>3. e = rows[limit + 1] \/ Before(e, rows[limit + 1])
      <4>1. ASSUME NEW i \in 1..Len(rows), rows[i] = e PROVE i = limit + 1
        BY <1>4, <1>5, <1>6, <2>4, <3>1, <4>1
      <4> QED BY <1>5, <3>1, <4>1
    <3>4. Before(e, rows[limit])
      BY <2>2, <3>2, <3>3, BeforeOrders
    <3> QED BY <2>1, <2>2, <3>2, <3>4
  <2> QED BY <2>3, <2>4
<1>16. initial' \subseteq ToSet(read') \cup After(cursor)'
  BY <1>1, <1>14, <1>15 DEF PageInv, StablePages
<1>17. ASSUME cursor' # End, NEW e \in ToSet(read') PROVE ~Before(e, cursor')
  <2>1. /\ Len(rows) > limit /\ cursor' = rows[limit] /\ rows[limit] \in After(cursor)
        /\ n = limit
    BY <1>4, <1>5, <1>6, <1>9, <1>17
  <2>2. /\ cursor' \in Nat \X Nat /\ Before(cursor', cursor)
    BY <1>4, <2>1, EntryNumbers
  <2>3. ASSUME NEW i \in 1..n, e = rows[i] PROVE ~Before(e, cursor')
    <3>1. i = limit \/ Before(cursor', e)
      <4>1. /\ i \in 1..Len(rows) /\ limit \in 1..Len(rows)
            /\ i # limit => i < limit
        BY <1>4, <1>5, <1>6, <2>1
      <4> QED BY <1>5, <2>1, <2>3, <4>1
    <3>2. e \in Nat \X Nat
      BY <1>11, <2>3, EntryNumbers
    <3> QED BY <2>1, <2>2, <2>3, <3>1, <3>2, BeforeOrders
  <2>4. ASSUME e \in ToSet(read) PROVE ~Before(e, cursor')
    <3>1. ~Before(e, cursor) /\ e \in Nat \X Nat
      <4>1. PICK i \in 1..L : e = read[i]
        BY <1>4, <2>4 DEF ToSet, L
      <4>2. ~Before(read[i], cursor)
        BY <1>4
      <4> QED BY <1>12, <4>1, <4>2, EntryNumbers
    <3> QED BY <1>4, <2>2, <3>1, BeforeOrders
  <2> QED BY <1>14, <1>17, <2>3, <2>4
<1> QED BY <1>10, <1>13, <1>16, <1>17 DEF PageInv, StablePages

\* One step per action.
LEMMA StepPages == PageInv /\ [Next]_vars => PageInv'
<1> SUFFICES ASSUME PageInv, [Next]_vars PROVE PageInv'
  OBVIOUS
<1>1. CASE Tick
  <2>1. PageTypes' /\ ledger' = ledger /\ UNCHANGED reader
    BY <1>1, PagesAssumption DEF Tick, PageInv, PageTypes, Instants, reader
  <2> QED BY <2>1, WriterPages
<1>2. ASSUME NEW o \in Operations, Begin(o) \/ ReadWallet(o) \/ Conflict(o)
      PROVE  PageInv'
  <2>1. PageTypes' /\ ledger' = ledger /\ UNCHANGED reader
    BY <1>2 DEF Begin, ReadWallet, Conflict, PageInv, PageTypes, reader
  <2> QED BY <2>1, WriterPages
<1>3. ASSUME NEW o \in Operations, Move(o) PROVE PageInv'
  <2>1. PICK id \in Ids : ledger' = Append(ledger, <<begun[o], id>>)
    BY <1>3 DEF Move
  <2>2. <<begun[o], id>> \in Entry
    BY <1>3 DEF Move, PageInv, PageTypes, Entry
  <2>3. PageTypes' /\ UNCHANGED reader
    BY <1>3, <2>1, <2>2, Entered DEF Move, PageInv, PageTypes, reader
  <2> QED BY <2>1, <2>2, <2>3, Entered, WriterPages DEF PageInv, PageTypes
<1>4. CASE UNCHANGED vars
  BY <1>4, WriterPages DEF vars, PageInv, PageTypes, reader
<1> QED BY <1>1, <1>2, <1>3, <1>4, OpenPages, NextPage DEF Next

\* However a wallet moves while its ledger is read page by page: what was there
\* when the reader began is on its pages or still to come, and no entry is
\* shown twice or out of order (ListByWallet and its cursor).
THEOREM PagesAreStable == WalletsSpec => []StablePages
<1>1. WalletsInit => PageInv
  BY InitPages DEF WalletsInit
<1>2. PageInv /\ [WalletsNext]_<<vars, office>> => PageInv'
  BY StepPages DEF WalletsNext, vars
<1>3. PageInv => StablePages
  BY DEF PageInv
<1> QED BY <1>1, <1>2, <1>3, PTL DEF WalletsSpec

-----------------------------------------------------------------------------
(* Openings.                                                                *)

\* What an owner's balances were announced as.
Announced(o, v) ==
  /\ Accounts!Exists(o)
  /\ v \in 2..wallets[o].version \/ (v = 1 /\ Initial[wallets[o].by] > 0)

\* A wallet has the client that opened it; a client about to commit has none
\* beside it, and no wallet before it.
OfficeTypes ==
  /\ DOMAIN wallets = Owners /\ DOMAIN accounts = Owners
  /\ DOMAIN pc = Requests /\ DOMAIN reply = Requests
  /\ \A o \in Owners :
       /\ wallets[o] \in [by : Requests \cup {NoOne}, balance : Int, version : Nat]
       /\ Accounts!Exists(o) <=> wallets[o].by # NoOne
       /\ Accounts!Exists(o) => wallets[o].version >= 1
       /\ accounts[o] \in Seq(Int)

OneOpens ==
  \A r \in Requests : pc[r] = "commit" =>
    /\ ~Accounts!Exists(Owner[r])
    /\ \A q \in Requests : pc[q] = "commit" /\ Owner[q] = Owner[r] => q = r

Told ==
  \A r \in Requests :
    /\ reply[r] = "opened" =>
         /\ wallets[Owner[r]].by = r
         /\ Initial[r] > 0 =>
              accounts[Owner[r]] # <<>> /\ accounts[Owner[r]][1] = Initial[r]
    /\ reply[r] = "exists" => Accounts!Exists(Owner[r])

Announcements ==
  /\ outbox \subseteq Owners \X Nat
  /\ \A o \in Owners, v \in Nat : <<o, v>> \in outbox <=> Announced(o, v)

OfficeInv == OfficeTypes /\ OneOpens /\ Told /\ Announcements

\* Nobody has come.
LEMMA InitOffice == Accounts!Init => OfficeInv
<1> SUFFICES ASSUME Accounts!Init PROVE OfficeInv
  OBVIOUS
<1>1. \A o \in Owners : /\ wallets[o] = Accounts!NoWallet /\ ~Accounts!Exists(o)
                        /\ wallets[o].by = NoOne /\ wallets[o].version = 0
  BY DEF Accounts!Init, Accounts!Exists, Accounts!NoWallet
<1>2. OfficeTypes
  <2>1. Accounts!NoWallet \in [by : Requests \cup {NoOne}, balance : Int, version : Nat]
    BY DEF Accounts!NoWallet
  <2>2. <<>> \in Seq(Int)
    OBVIOUS
  <2> QED BY <1>1, <2>1, <2>2 DEF Accounts!Init, OfficeTypes
<1>3. OneOpens /\ Told /\ Announcements
  BY <1>1 DEF Accounts!Init, OneOpens, Told, Announcements, Announced
<1> QED BY <1>2, <1>3 DEF OfficeInv

\* A client's own step: it goes to another statement, or is answered what is so.
LEMMA ClientOffice ==
  ASSUME OfficeInv, NEW r \in Requests,
         UNCHANGED <<wallets, accounts, outbox>>,
         NEW label, pc' = [pc EXCEPT ![r] = label],
         \/ reply' = reply
         \/ \E answer \in {"exists", "lost"} : reply' = [reply EXCEPT ![r] = answer],
         reply'[r] = "exists" => reply[r] = "exists" \/ Accounts!Exists(Owner[r]),
         label = "commit" =>
           /\ ~Accounts!Exists(Owner[r])
           /\ \A q \in Requests \ {r} : ~(pc[q] = "commit" /\ Owner[q] = Owner[r])
  PROVE  OfficeInv'
<1>1. \A o \in Owners : Accounts!Exists(o)' <=> Accounts!Exists(o)
  BY DEF Accounts!Exists
<1>2. OfficeTypes' /\ Announcements'
  BY <1>1 DEF OfficeInv, OfficeTypes, Announcements, Announced
<1>3. OneOpens'
  BY <1>1, AccountsAssumption DEF OfficeInv, OfficeTypes, OneOpens
<1>4. Told'
  <2> SUFFICES ASSUME NEW q \in Requests
               PROVE  /\ reply'[q] = "opened" => reply[q] = "opened"
                      /\ reply'[q] = "exists" => Accounts!Exists(Owner[q])
    BY <1>1, AccountsAssumption DEF OfficeInv, Told
  <2>1. reply'[q] # reply[q] => q = r /\ reply'[r] \in {"exists", "lost"}
    BY DEF OfficeInv, OfficeTypes
  <2>2. reply[q] = "exists" => Accounts!Exists(Owner[q])
    BY DEF OfficeInv, Told
  <2> QED BY <2>1, <2>2
<1> QED BY <1>2, <1>3, <1>4 DEF OfficeInv

\* Look-ups, inserts and deaths of a client.
LEMMA StatementOffice ==
  ASSUME OfficeInv, NEW r \in Requests,
         Accounts!Submit(r) \/ Accounts!Lookup(r) \/ Accounts!Create(r)
           \/ Accounts!Abort(r)
  PROVE  OfficeInv'
<1>1. UNCHANGED <<wallets, accounts, outbox>>
  BY DEF Accounts!Submit, Accounts!Lookup, Accounts!Create, Accounts!Abort
<1>2. CASE Accounts!Submit(r)
  <2>1. pc' = [pc EXCEPT ![r] = "lookup"] /\ reply' = reply
    BY <1>2 DEF Accounts!Submit, Accounts!Goto
  <2> QED BY <1>1, <2>1, ClientOffice
<1>3. CASE Accounts!Lookup(r)
  <2>1. \/ /\ Accounts!Exists(Owner[r]) /\ pc' = [pc EXCEPT ![r] = "idle"]
           /\ reply' = [reply EXCEPT ![r] = "exists"]
        \/ pc' = [pc EXCEPT ![r] = "create"] /\ reply' = reply
    BY <1>3 DEF Accounts!Lookup, Accounts!Goto, Accounts!Answer
  <2> QED BY <1>1, <2>1, ClientOffice
<1>4. CASE Accounts!Create(r)
  <2>1. /\ \A q \in Requests \ {r} : ~(pc[q] = "commit" /\ Owner[q] = Owner[r])
        /\ \/ /\ Accounts!Exists(Owner[r]) /\ pc' = [pc EXCEPT ![r] = "idle"]
              /\ reply' = [reply EXCEPT ![r] = "exists"]
           \/ /\ ~Accounts!Exists(Owner[r]) /\ pc' = [pc EXCEPT ![r] = "commit"]
              /\ reply' = reply
    BY <1>4 DEF Accounts!Create, Accounts!Blocked, Accounts!Duplicate, Accounts!Goto,
                Accounts!Answer
  <2> QED BY <1>1, <2>1, ClientOffice
<1>5. CASE Accounts!Abort(r)
  <2>1. pc' = [pc EXCEPT ![r] = "idle"] /\ reply' = [reply EXCEPT ![r] = "lost"]
    BY <1>5 DEF Accounts!Abort, Accounts!Answer
  <2>2. reply'[r] = "lost"
    BY <2>1 DEF OfficeInv, OfficeTypes
  <2> QED BY <1>1, <2>1, <2>2, ClientOffice
<1> QED BY <1>2, <1>3, <1>4, <1>5

\* The one client that may commit opens the wallet, whether or not it hears so.
LEMMA CommitOffice ==
  ASSUME OfficeInv, NEW r \in Requests, Accounts!Commit(r)
  PROVE  OfficeInv'
<1> DEFINE o == Owner[r]
           opened == [by |-> r, balance |-> Initial[r], version |-> 1]
<1>1. /\ pc[r] = "commit" /\ wallets' = [wallets EXCEPT ![o] = opened]
      /\ IF Initial[r] > 0
         THEN /\ accounts' = [accounts EXCEPT ![o] = <<Initial[r]>>]
              /\ outbox' = outbox \cup {<<o, 1>>}
         ELSE UNCHANGED <<accounts, outbox>>
      /\ pc' = [pc EXCEPT ![r] = "idle"]
      /\ \E answer \in {"opened", "lost"} : reply' = [reply EXCEPT ![r] = answer]
  BY DEF Accounts!Commit, Accounts!Write, Accounts!Answer, Accounts!EventVersion
<1>2. /\ o \in Owners /\ ~Accounts!Exists(o) /\ Initial[r] \in Nat /\ r # NoOne
      /\ \A q \in Requests : pc[q] = "commit" /\ Owner[q] = o => q = r
  BY <1>1, AccountsAssumption DEF OfficeInv, OneOpens
<1>3. /\ wallets'[o] = opened /\ wallets'[o].by = r /\ wallets'[o].version = 1
      /\ \A p \in Owners \ {o} : wallets'[p] = wallets[p] /\ accounts'[p] = accounts[p]
      /\ Initial[r] > 0 => accounts'[o] = <<Initial[r]>>
      /\ Initial[r] = 0 => accounts'[o] = accounts[o]
  BY <1>1, <1>2 DEF OfficeInv, OfficeTypes
<1>4. /\ Accounts!Exists(o)'
      /\ \A p \in Owners \ {o} : Accounts!Exists(p)' <=> Accounts!Exists(p)
  <2>1. opened # Accounts!NoWallet
    BY <1>2 DEF Accounts!NoWallet
  <2> QED BY <1>3, <2>1 DEF Accounts!Exists, Accounts!NoWallet
<1> HIDE DEF o, opened
<1>5. OfficeTypes'
  <2>1. /\ DOMAIN wallets' = Owners /\ DOMAIN accounts' = Owners
        /\ DOMAIN pc' = Requests /\ DOMAIN reply' = Requests
    BY <1>1 DEF OfficeInv, OfficeTypes
  <2>2. accounts'[o] \in Seq(Int)
    <3>1. CASE Initial[r] > 0
      <4>1. Initial[r] \in Int
        BY <1>2
      <4>2. <<Initial[r]>> \in Seq(Int)
        BY <4>1
      <4> QED BY <1>3, <3>1, <4>2
    <3>2. CASE Initial[r] = 0
      BY <1>2, <1>3, <3>2 DEF OfficeInv, OfficeTypes
    <3> QED BY <1>2, <3>1, <3>2
  <2>3. wallets'[o] \in [by : Requests \cup {NoOne}, balance : Int, version : Nat]
    BY <1>2, <1>3 DEF opened
  <2>4. wallets'[o].version >= 1 /\ wallets'[o].by # NoOne
    BY <1>2, <1>3
  <2> QED BY <1>2, <1>3, <1>4, <2>1, <2>2, <2>3, <2>4 DEF OfficeInv, OfficeTypes
<1>6. OneOpens'
  <2>1. ASSUME NEW q \in Requests, pc'[q] = "commit"
        PROVE  pc[q] = "commit" /\ Owner[q] \in Owners \ {o}
    BY <1>1, <1>2, <2>1, AccountsAssumption DEF OfficeInv, OfficeTypes
  <2>2. ASSUME NEW q \in Requests, pc'[q] = "commit"
        PROVE  ~Accounts!Exists(Owner[q])'
    <3>1. ~Accounts!Exists(Owner[q]) /\ Owner[q] \in Owners \ {o}
      BY <2>1, <2>2 DEF OfficeInv, OneOpens
    <3>2. wallets'[Owner[q]] = wallets[Owner[q]]
      BY <1>3, <3>1
    <3> QED BY <3>1, <3>2 DEF Accounts!Exists
  <2> QED BY <2>1, <2>2 DEF OfficeInv, OneOpens, Accounts!Exists
<1>7. \A q \in Requests : Owner[q] = o => reply[q] # "opened" /\ reply[q] # "exists"
  <2> SUFFICES ASSUME NEW q \in Requests, Owner[q] = o
               PROVE  reply[q] # "opened" /\ reply[q] # "exists"
    OBVIOUS
  <2>1. wallets[o].by = NoOne /\ q # NoOne
    BY <1>2, AccountsAssumption DEF OfficeInv, OfficeTypes
  <2> QED BY <1>2, <2>1 DEF OfficeInv, Told
<1>8. Told'
  <2> SUFFICES ASSUME NEW q \in Requests
               PROVE  /\ reply'[q] = "opened" =>
                           /\ wallets'[Owner[q]].by = q
                           /\ Initial[q] > 0 => /\ accounts'[Owner[q]] # <<>>
                                                /\ accounts'[Owner[q]][1] = Initial[q]
                      /\ reply'[q] = "exists" => Accounts!Exists(Owner[q])'
    BY DEF Told, Accounts!Exists
  <2>1. CASE q = r
    BY <1>2, <1>3, <1>4, <2>1 DEF o
  <2>2. CASE q # r
    <3>1. reply'[q] = reply[q] /\ Owner[q] \in Owners
      BY <1>1, <2>2, AccountsAssumption DEF OfficeInv, OfficeTypes
    <3>2. CASE Owner[q] = o
      BY <1>7, <3>1, <3>2
    <3>3. CASE Owner[q] # o
      BY <1>3, <1>4, <3>1, <3>3 DEF OfficeInv, Told
    <3> QED BY <3>2, <3>3
  <2> QED BY <2>1, <2>2
<1>9. Announcements'
  <2>1. outbox' \subseteq Owners \X Nat
    BY <1>1, <1>2 DEF OfficeInv, Announcements
  <2>2. ASSUME NEW p \in Owners, NEW v \in Nat
        PROVE  <<p, v>> \in outbox' <=> Announced(p, v)'
    <3>1. CASE p = o
      <4>1. <<p, v>> \notin outbox
        BY <1>2, <3>1 DEF OfficeInv, Announcements, Announced
      <4>2. Announced(p, v)' <=> v = 1 /\ Initial[r] > 0
        BY <1>3, <1>4, <3>1 DEF Announced
      <4> QED BY <1>1, <3>1, <4>1, <4>2
    <3>2. CASE p # o
      BY <1>1, <1>3, <1>4, <3>2 DEF OfficeInv, Announcements, Announced
    <3> QED BY <3>1, <3>2
  <2> QED BY <2>1, <2>2 DEF Announcements
<1> QED BY <1>5, <1>6, <1>8, <1>9 DEF OfficeInv

\* A moved wallet is a wallet.
LEMMA MovedWallet ==
  ASSUME NEW S, NEW old \in [by : S, balance : Int, version : Nat], NEW amount \in Int,
         NEW new,
         new = [[old EXCEPT !.balance = @ + amount] EXCEPT !.version = @ + 1]
  PROVE  new \in [by : S, balance : Int, version : Nat]
<1> DEFINE mid == [old EXCEPT !.balance = @ + amount]
<1>1. mid \in [by : S, balance : Int, version : Nat]
  OBVIOUS
<1> HIDE DEF mid
<1>2. [mid EXCEPT !.version = @ + 1] \in [by : S, balance : Int, version : Nat]
  BY <1>1
<1> QED BY <1>2 DEF mid

\* A movement announces the balance of the next version.
LEMMA MoveOffice ==
  ASSUME OfficeInv, NEW o \in Owners, NEW amount \in Amounts, Accounts!Move(o, amount)
  PROVE  OfficeInv'
<1> DEFINE w == wallets[o].version
<1>1. /\ Accounts!Exists(o)
      /\ wallets' = [wallets EXCEPT ![o] =
                       [[wallets[o] EXCEPT !.balance = @ + amount]
                          EXCEPT !.version = @ + 1]]
      /\ accounts' = [accounts EXCEPT ![o] = Append(@, amount)]
      /\ outbox' = outbox \cup {<<o, w + 1>>}
      /\ UNCHANGED <<pc, reply>>
  BY DEF Accounts!Move
<1>2. /\ \A p \in Owners \ {o} : wallets'[p] = wallets[p] /\ accounts'[p] = accounts[p]
      /\ accounts'[o] = Append(accounts[o], amount)
      /\ wallets'[o].by = wallets[o].by /\ wallets'[o].version = w + 1
  BY <1>1 DEF OfficeInv, OfficeTypes
<1>3. \A p \in Owners : Accounts!Exists(p)' <=> Accounts!Exists(p)
  <2>1. wallets'[o].by # NoOne
    BY <1>1, <1>2 DEF OfficeInv, OfficeTypes
  <2>2. wallets'[o] # Accounts!NoWallet
    BY <2>1 DEF Accounts!NoWallet
  <2> QED BY <1>1, <1>2, <2>2 DEF Accounts!Exists, Accounts!NoWallet
<1>4. /\ accounts'[o] \in Seq(Int)
      /\ accounts[o] # <<>> => accounts'[o] # <<>> /\ accounts'[o][1] = accounts[o][1]
  <2>1. accounts[o] \in Seq(Int) /\ amount \in Int
    BY AccountsAssumption DEF OfficeInv, OfficeTypes
  <2>2. Append(accounts[o], amount) \in Seq(Int)
    BY <2>1
  <2>3. ASSUME accounts[o] # <<>>
        PROVE  accounts'[o] # <<>> /\ accounts'[o][1] = accounts[o][1]
    <3>1. Len(accounts[o]) \in Nat /\ Len(accounts[o]) # 0
      BY <2>1, <2>3, EmptySeq, LenProperties
    <3>2. 1 \in 1..Len(accounts[o])
      BY <3>1
    <3> QED BY <1>2, <2>1, <3>1, <3>2, AppendProperties
  <2> QED BY <1>2, <2>2, <2>3
<1>5. wallets'[o] \in [by : Requests \cup {NoOne}, balance : Int, version : Nat]
  <2> DEFINE old == wallets[o]
             new == wallets'[o]
  <2>1. old \in [by : Requests \cup {NoOne}, balance : Int, version : Nat]
        /\ amount \in Int
    BY AccountsAssumption DEF OfficeInv, OfficeTypes
  <2>2. new = [[old EXCEPT !.balance = @ + amount] EXCEPT !.version = @ + 1]
    BY <1>1 DEF OfficeInv, OfficeTypes
  <2> HIDE DEF old, new
  <2>3. new \in [by : Requests \cup {NoOne}, balance : Int, version : Nat]
    BY <2>1, <2>2, MovedWallet
  <2> QED BY <2>3 DEF new
<1>6. OfficeTypes'
  <2>1. /\ DOMAIN wallets' = Owners /\ DOMAIN accounts' = Owners
        /\ DOMAIN pc' = Requests /\ DOMAIN reply' = Requests
    BY <1>1 DEF OfficeInv, OfficeTypes
  <2>2. w \in Nat /\ w >= 1
    BY <1>1 DEF OfficeInv, OfficeTypes
  <2>3. ASSUME NEW p \in Owners
        PROVE  /\ wallets'[p] \in [by : Requests \cup {NoOne}, balance : Int, version : Nat]
               /\ Accounts!Exists(p)' <=> wallets'[p].by # NoOne
               /\ Accounts!Exists(p)' => wallets'[p].version >= 1
               /\ accounts'[p] \in Seq(Int)
    <3>1. CASE p = o
      <4>1. wallets[o].by # NoOne
        BY <1>1 DEF OfficeInv, OfficeTypes
      <4>2. wallets'[o].by # NoOne /\ wallets'[o].version >= 1 /\ Accounts!Exists(o)'
        BY <1>1, <1>2, <1>3, <2>2, <4>1
      <4> QED BY <1>4, <1>5, <3>1, <4>2
    <3>2. CASE p # o
      BY <1>2, <1>3, <3>2 DEF OfficeInv, OfficeTypes
    <3> QED BY <3>1, <3>2
  <2> QED BY <2>1, <2>3 DEF OfficeTypes, Accounts!Exists
<1>7. OneOpens'
  BY <1>1, <1>3, AccountsAssumption DEF OfficeInv, OneOpens
<1>8. Told'
  <2>1. \A q \in Requests : Owner[q] \in Owners
    BY AccountsAssumption
  <2>2. \A p \in Owners :
          /\ wallets'[p].by = wallets[p].by
          /\ accounts[p] # <<>> => accounts'[p] # <<>> /\ accounts'[p][1] = accounts[p][1]
    BY <1>2, <1>4
  <2> QED BY <1>1, <1>3, <2>1, <2>2 DEF OfficeInv, Told
<1>9. Announcements'
  <2>1. w \in Nat /\ w >= 1
    BY <1>1 DEF OfficeInv, OfficeTypes
  <2>2. outbox' \subseteq Owners \X Nat
    BY <1>1, <2>1 DEF OfficeInv, Announcements
  <2>3. ASSUME NEW p \in Owners, NEW v \in Nat
        PROVE  <<p, v>> \in outbox' <=> Announced(p, v)'
    <3>1. CASE p = o
      <4>1. Announced(p, v)' <=> Announced(p, v) \/ v = w + 1
        BY <1>1, <1>2, <1>3, <2>1, <3>1 DEF Announced
      <4>2. <<p, v>> \in outbox' <=> <<p, v>> \in outbox \/ v = w + 1
        BY <1>1, <3>1
      <4> QED BY <4>1, <4>2 DEF OfficeInv, Announcements
    <3>2. CASE p # o
      <4>1. Announced(p, v)' <=> Announced(p, v)
        BY <1>2, <1>3, <3>2 DEF Announced
      <4> QED BY <1>1, <3>2, <4>1 DEF OfficeInv, Announcements
    <3> QED BY <3>1, <3>2
  <2> QED BY <2>2, <2>3 DEF Announcements
<1> QED BY <1>6, <1>7, <1>8, <1>9 DEF OfficeInv

\* One step per action.
LEMMA NextOffice == OfficeInv /\ [Accounts!Next]_office => OfficeInv'
<1> SUFFICES ASSUME OfficeInv, [Accounts!Next]_office PROVE OfficeInv'
  OBVIOUS
<1>1. ASSUME UNCHANGED <<wallets, accounts, outbox, pc, reply>> PROVE OfficeInv'
  BY <1>1 DEF OfficeInv, OfficeTypes, OneOpens, Told, Announcements, Announced,
              Accounts!Exists
<1>2. ASSUME NEW o \in Owners, Accounts!Reconcile(o) PROVE OfficeInv'
  BY <1>1, <1>2 DEF Accounts!Reconcile
<1> QED
  BY <1>1, <1>2, StatementOffice, CommitOffice, MoveOffice
     DEF Accounts!Next, Accounts!Statement, office

\* The announcements, one by one, are the set of them.
LEMMA OfficeOpens == OfficeInv => OpenedOnce
<1> SUFFICES ASSUME OfficeInv PROVE OpenedOnce
  OBVIOUS
<1> DEFINE Of(o) == {o} \X (IF ~Accounts!Exists(o) THEN {}
                            ELSE (2..wallets[o].version)
                                 \cup (IF Initial[wallets[o].by] > 0 THEN {1} ELSE {}))
<1>1. ASSUME NEW o \in Owners, NEW e
      PROVE  e \in Of(o) <=> \E v \in Nat : e = <<o, v>> /\ Announced(o, v)
  <2>1. wallets[o].version \in Nat
    BY DEF OfficeInv, OfficeTypes
  <2> QED BY <2>1 DEF Announced
<1>2. ASSUME NEW e PROVE e \in outbox <=> \E o \in Owners : e \in Of(o)
  <2>1. e \in outbox <=> \E o \in Owners, v \in Nat : e = <<o, v>> /\ Announced(o, v)
    BY DEF OfficeInv, Announcements
  <2> QED BY <1>1, <2>1
<1> HIDE DEF Of
<1>3. outbox = UNION {Of(o) : o \in Owners}
  BY <1>2
<1> QED BY <1>3 DEF Of, OfficeInv, Told, OpenedOnce, Accounts!OpenedOnce

\* However many openings of a wallet race, retry and die, one client is told it
\* opened it and its balance is the ledger's first; who is told that the wallet
\* exists is told so rightly; and every balance is announced once (Open).
THEOREM OpenedOnceOnly == WalletsSpec => []OpenedOnce
<1>1. WalletsInit => OfficeInv
  BY InitOffice DEF WalletsInit
<1>2. OfficeInv /\ [WalletsNext]_<<vars, office>> => OfficeInv'
  BY NextOffice DEF WalletsNext
<1> QED BY <1>1, <1>2, OfficeOpens, PTL DEF WalletsSpec

-----------------------------------------------------------------------------
(* Sums over a ledger.                                                      *)

\* A set of numbers has a least one: < is well founded.
LEMMA LeastOf ==
  ASSUME NEW T, T \subseteq Nat, T # {}
  PROVE  \E x \in T : \A y \in T : x <= y
<1> DEFINE R == {p \in Nat \X Nat : p[1] < p[2]}
<1>1. IsWellFoundedOn(R, Nat)
  BY NatLessThanWellFounded DEF OpToRel
<1>2. \A y, x \in Nat : <<y, x>> \in R <=> y < x
  OBVIOUS
<1> HIDE DEF R
<1>3. \E x \in T : \A y \in T : ~ (<<y, x>> \in R)
  BY <1>1, WFMin
<1>4. PICK x \in T : \A y \in T : ~ (<<y, x>> \in R)
  BY <1>3
<1>5. ASSUME NEW y \in T PROVE x <= y
  <2>1. x \in Nat /\ y \in Nat /\ ~(y < x)
    BY <1>2, <1>4
  <2> QED BY <2>1
<1> QED BY <1>5

\* Counting reaches every number.
LEMMA Counting ==
  ASSUME NEW S, 0 \in S, \A n \in Nat : n \in S => n + 1 \in S
  PROVE  Nat \subseteq S
<1> SUFFICES ASSUME Nat \ S # {} PROVE FALSE
  OBVIOUS
<1>1. PICK x \in Nat \ S : \A y \in Nat \ S : x <= y
  BY LeastOf
<1>2. x - 1 \in Nat
  BY <1>1
<1>3. x - 1 \in S
  BY <1>1, <1>2
<1> QED BY <1>1, <1>2, <1>3

\* Amounts can be added up as far as one likes.
LEMMA PartialSums ==
  ASSUME NEW s \in Seq(Int), NEW m \in Nat, m <= Len(s)
  PROVE  \E f \in [0..m -> Int] : f[0] = 0 /\ \A n \in 1..m : f[n] = f[n - 1] + s[n]
<1> DEFINE Added(n) == \E f \in [0..n -> Int] :
                         f[0] = 0 /\ \A k \in 1..n : f[k] = f[k - 1] + s[k]
           S == {n \in Nat : n <= Len(s) => Added(n)}
<1>1. 0 \in S
  <2> DEFINE f == [k \in 0..0 |-> 0]
  <2>1. f \in [0..0 -> Int] /\ f[0] = 0
    OBVIOUS
  <2> HIDE DEF f
  <2> QED BY <2>1
<1>2. ASSUME NEW n \in Nat, n \in S PROVE n + 1 \in S
  <2>1. ASSUME n + 1 <= Len(s) PROVE Added(n + 1)
    <3>1. n <= Len(s) /\ s[n + 1] \in Int
      BY <2>1, LenProperties, ElementOfSeq
    <3>2. PICK f \in [0..n -> Int] : f[0] = 0 /\ \A k \in 1..n : f[k] = f[k - 1] + s[k]
      BY <1>2, <3>1
    <3> DEFINE g == [k \in 0..(n + 1) |-> IF k = n + 1 THEN f[n] + s[n + 1] ELSE f[k]]
    <3>3. g \in [0..(n + 1) -> Int] /\ g[0] = 0
      BY <3>1, <3>2
    <3>4. g[n + 1] = f[n] + s[n + 1] /\ \A k \in 0..n : g[k] = f[k]
      OBVIOUS
    <3> HIDE DEF g
    <3>5. ASSUME NEW k \in 1..(n + 1) PROVE g[k] = g[k - 1] + s[k]
      <4>1. CASE k = n + 1
        BY <3>4, <4>1
      <4>2. CASE k # n + 1
        <5>1. k \in 1..n /\ k \in 0..n /\ k - 1 \in 0..n
          BY <4>2
        <5> QED BY <3>2, <3>4, <5>1
      <4> QED BY <4>1, <4>2
    <3> QED BY <3>3, <3>5
  <2> HIDE DEF Added
  <2> QED BY <2>1
<1> HIDE DEF S
<1>3. m \in S
  BY <1>1, <1>2, Counting
<1> QED BY <1>3 DEF S

\* A sum is what adding up from the first entry to the last gives.
LEMMA SumsUp ==
  ASSUME NEW s \in Seq(Int)
  PROVE  \E f \in [0..Len(s) -> Int] :
           /\ Accounts!Sum(s) = f[Len(s)]
           /\ f[0] = 0
           /\ \A n \in 1..Len(s) : f[n] = f[n - 1] + s[n]
<1> DEFINE N == Len(s)
           Step(f) == [n \in 0..N |-> IF n = 0 THEN 0 ELSE f[n - 1] + s[n]]
<1>1. N \in Nat /\ \A n \in 1..N : s[n] \in Int
  BY LenProperties, ElementOfSeq
<1>2. \E f : f = Step(f)
  <2>1. PICK f \in [0..N -> Int] : f[0] = 0 /\ \A n \in 1..N : f[n] = f[n - 1] + s[n]
    BY <1>1, PartialSums
  <2>2. \A n \in 0..N : f[n] = IF n = 0 THEN 0 ELSE f[n - 1] + s[n]
    BY <1>1, <2>1
  <2>3. f = Step(f)
    BY <2>2
  <2> HIDE DEF Step
  <2> QED BY <2>3
<1> DEFINE f == CHOOSE f : f = Step(f)
<1>3. f = Step(f)
  <2> HIDE DEF Step
  <2> QED BY <1>2
<1>4. Accounts!Sum(s) = f[N]
  BY DEF Accounts!Sum
<1> HIDE DEF f
<1>5. f[0] = 0 /\ \A n \in 1..N : f[n] = f[n - 1] + s[n]
  <2>1. \A n \in 0..N : f[n] = IF n = 0 THEN 0 ELSE f[n - 1] + s[n]
    BY <1>3
  <2> QED BY <1>1, <2>1
<1>6. f \in [0..N -> Int]
  <2> DEFINE S == {n \in Nat : n <= N => f[n] \in Int}
  <2>1. 0 \in S
    BY <1>5
  <2>2. ASSUME NEW n \in Nat, n \in S PROVE n + 1 \in S
    <3> SUFFICES ASSUME n + 1 <= N PROVE f[n + 1] \in Int
      OBVIOUS
    <3>1. n + 1 \in 1..N /\ (n + 1) - 1 = n /\ f[n] \in Int
      BY <1>1, <2>2
    <3>2. f[n + 1] = f[n] + s[n + 1] /\ s[n + 1] \in Int
      BY <1>1, <1>5, <3>1
    <3> QED BY <3>1, <3>2
  <2> HIDE DEF S
  <2>3. Nat \subseteq S
    BY <2>1, <2>2, Counting
  <2>4. \A n \in 0..N : f[n] \in Int
    BY <1>1, <2>3 DEF S
  <2> QED BY <1>3, <2>4
<1> QED BY <1>4, <1>5, <1>6
\* One more entry adds its amount.
LEMMA SumOfAppend ==
  ASSUME NEW s \in Seq(Int), NEW a \in Int
  PROVE  /\ Accounts!Sum(s) \in Int
         /\ Accounts!Sum(Append(s, a)) = Accounts!Sum(s) + a
<1> DEFINE N == Len(s)
           t == Append(s, a)
<1>1. /\ t \in Seq(Int) /\ Len(t) = N + 1 /\ N \in Nat /\ t[N + 1] = a
      /\ \A n \in 1..N : t[n] = s[n]
  BY AppendProperties, LenProperties
<1> HIDE DEF t
<1>2. PICK f \in [0..N -> Int] : /\ Accounts!Sum(s) = f[N] /\ f[0] = 0
                                 /\ \A n \in 1..N : f[n] = f[n - 1] + s[n]
  BY SumsUp
<1>3. PICK g \in [0..Len(t) -> Int] :
                                 /\ Accounts!Sum(t) = g[Len(t)] /\ g[0] = 0
                                 /\ \A n \in 1..Len(t) : g[n] = g[n - 1] + t[n]
  BY <1>1, SumsUp
<1> HIDE DEF N
<1>4. f[N] = g[N]
  <2> DEFINE S == {n \in Nat : n <= N => f[n] = g[n]}
  <2>1. 0 \in S
    BY <1>2, <1>3
  <2>2. ASSUME NEW n \in Nat, n \in S PROVE n + 1 \in S
    <3> SUFFICES ASSUME n + 1 <= N PROVE f[n + 1] = g[n + 1]
      OBVIOUS
    <3>1. /\ n + 1 \in 1..N /\ n + 1 \in 1..Len(t) /\ (n + 1) - 1 = n
          /\ f[n] = g[n]
      BY <1>1, <2>2
    <3> QED BY <1>1, <1>2, <1>3, <3>1
  <2> HIDE DEF S
  <2>3. Nat \subseteq S
    BY <2>1, <2>2, Counting
  <2> QED BY <1>1, <2>3 DEF S
<1>5. Accounts!Sum(t) = g[N] + a
  <2>1. N + 1 \in 1..Len(t) /\ (N + 1) - 1 = N
    BY <1>1
  <2> QED BY <1>1, <1>3, <2>1
<1>6. f[N] \in Int
  BY <1>1, <1>2
<1> QED BY <1>2, <1>4, <1>5, <1>6 DEF t

\* Credits and debits of no entry, and of one more.
LEMMA TotalsOfNone == Accounts!Credits(<<>>) = 0 /\ Accounts!Debits(<<>>) = 0
<1>1. Accounts!Sum(<<>>) = 0
  <2>1. <<>> \in Seq(Int) /\ Len(<<>>) = 0
    OBVIOUS
  <2> QED BY <2>1, SumsUp
<1>2. ASSUME NEW s, s = [n \in 1..Len(<<>>) |-> Accounts!Credit(<<>>[n])] PROVE s = <<>>
  BY <1>2
<1>3. ASSUME NEW s, s = [n \in 1..Len(<<>>) |-> Accounts!Debit(<<>>[n])] PROVE s = <<>>
  BY <1>3
<1> QED BY <1>1, <1>2, <1>3 DEF Accounts!Credits, Accounts!Debits

LEMMA TotalsOfAppend ==
  ASSUME NEW s \in Seq(Int), NEW a \in Int
  PROVE  /\ Accounts!Credits(s) \in Int /\ Accounts!Debits(s) \in Int
         /\ Accounts!Credits(Append(s, a)) - Accounts!Debits(Append(s, a))
              = (Accounts!Credits(s) - Accounts!Debits(s)) + a
<1> DEFINE N == Len(s)
           t == Append(s, a)
           c == [n \in 1..N |-> Accounts!Credit(s[n])]
           d == [n \in 1..N |-> Accounts!Debit(s[n])]
<1>1. /\ t \in Seq(Int) /\ Len(t) = N + 1 /\ N \in Nat /\ t[N + 1] = a
      /\ \A n \in 1..N : t[n] = s[n] /\ s[n] \in Int
  BY AppendProperties, LenProperties, ElementOfSeq
<1> HIDE DEF t
<1>2. /\ Accounts!Credit(a) \in Int /\ Accounts!Debit(a) \in Int
      /\ Accounts!Credit(a) - Accounts!Debit(a) = a
      /\ \A n \in 1..N : Accounts!Credit(s[n]) \in Int /\ Accounts!Debit(s[n]) \in Int
  BY <1>1 DEF Accounts!Credit, Accounts!Debit
<1>3. c \in Seq(Int) /\ d \in Seq(Int) /\ Len(c) = N /\ Len(d) = N
  BY <1>1, <1>2
<1>4. [n \in 1..Len(t) |-> Accounts!Credit(t[n])] = Append(c, Accounts!Credit(a))
  BY <1>1, <1>3, AppendProperties
<1>5. [n \in 1..Len(t) |-> Accounts!Debit(t[n])] = Append(d, Accounts!Debit(a))
  BY <1>1, <1>3, AppendProperties
<1>6. /\ Accounts!Credits(t) = Accounts!Sum(Append(c, Accounts!Credit(a)))
      /\ Accounts!Debits(t) = Accounts!Sum(Append(d, Accounts!Debit(a)))
      /\ Accounts!Credits(s) = Accounts!Sum(c) /\ Accounts!Debits(s) = Accounts!Sum(d)
  BY <1>4, <1>5 DEF Accounts!Credits, Accounts!Debits
<1> HIDE DEF c, d
<1>7. /\ Accounts!Sum(c) \in Int /\ Accounts!Sum(d) \in Int
      /\ Accounts!Credits(t) = Accounts!Sum(c) + Accounts!Credit(a)
      /\ Accounts!Debits(t) = Accounts!Sum(d) + Accounts!Debit(a)
  BY <1>2, <1>3, <1>6, SumOfAppend
<1> QED BY <1>2, <1>6, <1>7 DEF t

-----------------------------------------------------------------------------
(* Reconciliation.                                                          *)

\* The stored balance is what the entries add up to, and no reconciliation has
\* said otherwise.
BooksInv ==
  /\ \A o \in Owners :
       /\ ~Accounts!Exists(o) => accounts[o] = <<>>
       /\ wallets[o].balance
            = Accounts!Credits(accounts[o]) - Accounts!Debits(accounts[o])
  /\ audit # "divergent"

\* There is nothing yet.
LEMMA InitBooks == Accounts!Init => BooksInv
BY TotalsOfNone DEF Accounts!Init, Accounts!NoWallet, BooksInv

\* An opening balance is the first entry, or there is neither.
LEMMA CommitBooks ==
  ASSUME OfficeInv, BooksInv, NEW r \in Requests, Accounts!Commit(r)
  PROVE  BooksInv'
<1> DEFINE o == Owner[r]
           opened == [by |-> r, balance |-> Initial[r], version |-> 1]
<1>1. /\ pc[r] = "commit" /\ wallets' = [wallets EXCEPT ![o] = opened]
      /\ IF Initial[r] > 0
         THEN accounts' = [accounts EXCEPT ![o] = <<Initial[r]>>]
         ELSE UNCHANGED accounts
      /\ UNCHANGED audit
  BY DEF Accounts!Commit, Accounts!Write
<1>2. o \in Owners /\ ~Accounts!Exists(o) /\ Initial[r] \in Nat /\ r # NoOne
  BY <1>1, AccountsAssumption DEF OfficeInv, OneOpens
<1>3. opened.balance = Initial[r] /\ opened # Accounts!NoWallet
  BY <1>2 DEF Accounts!NoWallet
<1> HIDE DEF o, opened
<1>4. /\ wallets'[o] = opened
      /\ \A p \in Owners \ {o} : wallets'[p] = wallets[p] /\ accounts'[p] = accounts[p]
      /\ accounts[o] = <<>>
      /\ accounts'[o] = IF Initial[r] > 0 THEN <<Initial[r]>> ELSE <<>>
  BY <1>1, <1>2 DEF OfficeInv, OfficeTypes, BooksInv
<1>5. Accounts!Credits(accounts'[o]) - Accounts!Debits(accounts'[o]) = Initial[r]
  <2>1. CASE Initial[r] > 0
    <3>1. <<>> \in Seq(Int) /\ Initial[r] \in Int /\ <<Initial[r]>> = Append(<<>>, Initial[r])
      BY <1>2
    <3>2. Accounts!Credits(Append(<<>>, Initial[r])) - Accounts!Debits(Append(<<>>, Initial[r]))
            = (0 - 0) + Initial[r]
      BY <3>1, TotalsOfAppend, TotalsOfNone
    <3> QED BY <1>2, <1>4, <2>1, <3>1, <3>2
  <2>2. CASE Initial[r] = 0
    BY <1>4, <2>2, TotalsOfNone
  <2> QED BY <1>2, <2>1, <2>2
<1>6. ASSUME NEW p \in Owners
      PROVE  /\ ~Accounts!Exists(p)' => accounts'[p] = <<>>
             /\ wallets'[p].balance
                  = Accounts!Credits(accounts'[p]) - Accounts!Debits(accounts'[p])
  <2>1. CASE p = o
    BY <1>3, <1>4, <1>5, <2>1 DEF Accounts!Exists, Accounts!NoWallet
  <2>2. CASE p # o
    BY <1>4, <2>2 DEF BooksInv, Accounts!Exists, Accounts!NoWallet
  <2> QED BY <2>1, <2>2
<1> QED BY <1>1, <1>6 DEF BooksInv, Accounts!Exists, Accounts!NoWallet,
           Accounts!Credits, Accounts!Debits, Accounts!Sum, Accounts!Credit, Accounts!Debit

\* A movement adds its amount to both.
LEMMA MoveBooks ==
  ASSUME OfficeInv, BooksInv, NEW o \in Owners, NEW amount \in Amounts,
         Accounts!Move(o, amount)
  PROVE  BooksInv'
<1>1. /\ Accounts!Exists(o)
      /\ wallets' = [wallets EXCEPT ![o] =
                       [[wallets[o] EXCEPT !.balance = @ + amount]
                          EXCEPT !.version = @ + 1]]
      /\ accounts' = [accounts EXCEPT ![o] = Append(@, amount)]
      /\ UNCHANGED audit
  BY DEF Accounts!Move
<1>2. /\ \A p \in Owners \ {o} : wallets'[p] = wallets[p] /\ accounts'[p] = accounts[p]
      /\ accounts'[o] = Append(accounts[o], amount)
      /\ wallets'[o].balance = wallets[o].balance + amount
      /\ wallets'[o].by = wallets[o].by
      /\ accounts[o] \in Seq(Int) /\ amount \in Int /\ wallets[o].by # NoOne
  BY <1>1, AccountsAssumption DEF OfficeInv, OfficeTypes
<1>3. wallets'[o].balance
        = Accounts!Credits(accounts'[o]) - Accounts!Debits(accounts'[o])
  BY <1>2, TotalsOfAppend DEF BooksInv
<1>4. ASSUME NEW p \in Owners
      PROVE  /\ ~Accounts!Exists(p)' => accounts'[p] = <<>>
             /\ wallets'[p].balance
                  = Accounts!Credits(accounts'[p]) - Accounts!Debits(accounts'[p])
  <2>1. CASE p = o
    <3>1. wallets'[o] # Accounts!NoWallet
      BY <1>2 DEF Accounts!NoWallet
    <3>2. Accounts!Exists(o)'
      BY <3>1 DEF Accounts!Exists, Accounts!NoWallet
    <3> QED BY <1>3, <2>1, <3>2
  <2>2. CASE p # o
    BY <1>2, <2>2 DEF BooksInv, Accounts!Exists, Accounts!NoWallet
  <2> QED BY <2>1, <2>2
<1> QED BY <1>1, <1>4 DEF BooksInv, Accounts!Exists, Accounts!NoWallet,
           Accounts!Credits, Accounts!Debits, Accounts!Sum, Accounts!Credit, Accounts!Debit

\* One step per action.
LEMMA NextBooks == OfficeInv /\ BooksInv /\ [Accounts!Next]_office => BooksInv'
<1> SUFFICES ASSUME OfficeInv, BooksInv, [Accounts!Next]_office PROVE BooksInv'
  OBVIOUS
<1>1. ASSUME UNCHANGED <<wallets, accounts>>, audit' = audit \/ audit' # "divergent"
      PROVE  BooksInv'
  <2>1. ASSUME NEW p \in Owners
        PROVE  /\ ~Accounts!Exists(p)' => accounts'[p] = <<>>
               /\ wallets'[p].balance
                    = Accounts!Credits(accounts'[p]) - Accounts!Debits(accounts'[p])
    BY <1>1 DEF BooksInv, Accounts!Exists, Accounts!NoWallet
  <2>2. audit' # "divergent"
    BY <1>1 DEF BooksInv
  <2> QED BY <2>1, <2>2 DEF BooksInv, Accounts!Exists, Accounts!NoWallet,
             Accounts!Credits, Accounts!Debits, Accounts!Sum, Accounts!Credit,
             Accounts!Debit
<1>2. ASSUME NEW o \in Owners, Accounts!Reconcile(o) PROVE BooksInv'
  <2>1. wallets[o].balance = Accounts!Credits(accounts[o]) - Accounts!Debits(accounts[o])
    BY DEF BooksInv
  <2>2. audit' # "divergent"
    BY <1>2, <2>1 DEF Accounts!Reconcile, Accounts!Counted
  <2> QED BY <1>1, <1>2, <2>2 DEF Accounts!Reconcile
<1>3. ASSUME NEW r \in Requests,
             Accounts!Submit(r) \/ Accounts!Lookup(r) \/ Accounts!Create(r)
               \/ Accounts!Abort(r)
      PROVE  BooksInv'
  <2>1. UNCHANGED <<wallets, accounts, audit>>
    BY <1>3 DEF Accounts!Submit, Accounts!Lookup, Accounts!Create, Accounts!Abort
  <2> QED BY <1>1, <2>1
<1>4. CASE UNCHANGED office
  BY <1>1, <1>4 DEF office
<1> QED
  BY <1>2, <1>3, <1>4, CommitBooks, MoveBooks DEF Accounts!Next, Accounts!Statement

\* A reconciliation beside openings and movements finds the stored balance in
\* the entries of every wallet, however many there are (Reconcile,
\* TotalsByWallet).
THEOREM BooksAgree == WalletsSpec => []NoFalseAlarm
<1>1. WalletsInit => OfficeInv /\ BooksInv
  BY InitOffice, InitBooks DEF WalletsInit
<1>2. OfficeInv /\ BooksInv /\ [WalletsNext]_<<vars, office>> => OfficeInv' /\ BooksInv'
  BY NextOffice, NextBooks DEF WalletsNext
<1>3. BooksInv => NoFalseAlarm
  BY DEF BooksInv, NoFalseAlarm, Accounts!NoFalseAlarm
<1> QED BY <1>1, <1>2, <1>3, PTL DEF WalletsSpec
=============================================================================
