-------------------------- MODULE WagerServiceProofs --------------------------
(***************************************************************************)
(* What TLAPS proves about WagerService for every set of wallets, commands, *)
(* servers and resolvers and every value of the bounds: its types, its      *)
(* unique keys and final rows, and the ledger of every wallet; its answers, *)
(* movements and events are what the tables hold; it implements WagerLedger; *)
(* and locks never stop everyone.                                           *)
(***************************************************************************)
EXTENDS WagerService, TLAPS

(* A step leaves its process with a command, a wallet, a reference and an
   outcome of the form the next statement needs, and every row that exists
   holds the valid command it was inserted with. *)
Decided ==
  [status : Statuses, code : FailureCodes \cup {NoCode},
   balance : 0..MaxMinor \cup {NoBalance}, moves : BOOLEAN]

ProcessShape ==
  \A p \in Processes :
    /\ pc[p] # "idle" => cmd[p] \in Commands
    /\ pc[p] \in {"external", "key", "insert"} => p \in Servers
    /\ pc[p] \in {"wallet"} \cup AfterWallet => cmd[p].wallet \in Wallets
    /\ pc[p] \in {"reference", "reversal", "cross"} => cmd[p].ref \in ExternalIds
    /\ pc[p] \in {"reference", "reversal", "cross", "move"}
         => cmd[p].kind # "LOSS"
    /\ pc[p] \in {"finish", "commit"} =>
         /\ out[p] \in Decided
         /\ out[p].moves => cmd[p].kind # "LOSS" /\ out[p].balance \in 0..MaxMinor

RowShape ==
  \A e \in ExternalIds :
    txs[e].status # "ABSENT" =>
      txs[e].cmd \in Commands /\ txs[e].cmd.ext = e /\ txs[e].cmd.wallet \in Wallets

TypeInv == TypeOK /\ ProcessShape /\ RowShape

-----------------------------------------------------------------------------
(* Commands and outcomes.                                                   *)

LEMMA CommandFacts ==
  ASSUME NEW c \in Commands
  PROVE  /\ c.ext \in ExternalIds
         /\ c.amount \in 0..MaxMinor
         /\ c.ref \in ExternalIds \cup {NoRef}
         /\ c.kind # "LOSS" => c.amount \in 1..MaxMinor
         /\ MaxMinor \in Nat
         /\ c # NoCommand
BY CommandsAssumption, WalletsAssumption DEF CommandType, ValidCommand, ExternalKinds

LEMMA OutcomeTypes ==
  /\ Undecided \in Outcome
  /\ \A code \in ErrorCodes : Failed(code) \in Outcome
  /\ Decided \subseteq Outcome
  /\ Parked \in Decided
  /\ \A code \in FailureCodes : \A b \in 0..MaxMinor \cup {NoBalance} :
       Rejected(code, b) \in Decided
  /\ \A b \in 0..MaxMinor, m \in BOOLEAN : Processed(b, m) \in Decided
BY DEF Undecided, Failed, Outcome, Decided, Parked, Rejected, Processed,
       Statuses, NoBalance, NoCode

-----------------------------------------------------------------------------
(* The four ways a statement ends keep the types.                           *)

SnapType == [Processes -> [balance : 0..MaxMinor, version : Nat]]

LEMMA ReturnTyped ==
  ASSUME TypeInv, NEW p \in Processes, NEW o \in Outcome, Return(p, o),
         UNCHANGED tables
  PROVE  TypeInv'
<1>1. TypeOK'
  BY WalletsAssumption, ServiceAssumption
  DEF TypeInv, TypeOK, Return, Goto, Labels, tables, NoSnap
<1>2. ProcessShape'
  BY DEF TypeInv, TypeOK, ProcessShape, Return, Goto, AfterWallet
<1>3. QED
  BY <1>1, <1>2 DEF TypeInv, RowShape, tables

LEMMA RetryTyped ==
  ASSUME TypeInv, NEW p \in Processes, pc[p] # "idle", Retry(p),
         p \in Resolvers => cmd[p].wallet \in Wallets,
         UNCHANGED tables
  PROVE  TypeInv'
<1>1. CASE Return(p, Failed("WALLET_VERSION_CONFLICT"))
  BY <1>1, OutcomeTypes, ReturnTyped DEF ErrorCodes
<1>2. CASE /\ tries[p] < MaxWalletRetries
           /\ tries' = [tries EXCEPT ![p] = @ + 1]
           /\ Goto(p, IF p \in Servers THEN "external" ELSE "wallet")
           /\ out' = [out EXCEPT ![p] = Undecided]
           /\ snap' = [snap EXCEPT ![p] = NoSnap]
           /\ UNCHANGED <<cmd, woken>>
  <2>1. TypeOK'
    BY <1>2, OutcomeTypes, WalletsAssumption, ServiceAssumption
    DEF TypeInv, TypeOK, Goto, Labels, tables, NoSnap
  <2>2. ProcessShape'
    BY <1>2 DEF TypeInv, TypeOK, ProcessShape, Goto, AfterWallet, Processes
  <2>3. QED
    BY <2>1, <2>2 DEF TypeInv, RowShape, tables
<1>3. QED
  BY <1>1, <1>2 DEF Retry

LEMMA DecideTyped ==
  ASSUME TypeInv, NEW p \in Processes, NEW o \in Decided, Decide(p, o),
         pc[p] \in {"wallet"} \cup AfterWallet,
         o.moves => cmd[p].kind # "LOSS" /\ o.balance \in 0..MaxMinor,
         snap' \in SnapType
  PROVE  TypeInv'
<1>1. TypeOK'
  BY OutcomeTypes DEF TypeInv, TypeOK, Decide, Goto, Labels, tables, SnapType
<1>2. ProcessShape'
  BY DEF TypeInv, TypeOK, ProcessShape, Decide, Goto, AfterWallet
<1>3. QED
  BY <1>1, <1>2 DEF TypeInv, RowShape, tables, Decide

LEMMA GotoTyped ==
  ASSUME TypeInv, NEW p \in Processes, NEW label \in Labels, Goto(p, label),
         label \in {"key", "insert", "wallet", "reference", "reversal", "cross",
                    "move"},
         pc[p] # "idle",
         label \in {"key", "insert"} => p \in Servers,
         label \in {"wallet"} \cup AfterWallet => cmd[p].wallet \in Wallets,
         label \in {"reference", "reversal", "cross"}
           => cmd[p].ref \in ExternalIds,
         label \in AfterWallet => cmd[p].kind # "LOSS",
         snap' \in SnapType,
         UNCHANGED <<tables, cmd, tries, out, woken>>
  PROVE  TypeInv'
<1>1. TypeOK'
  BY DEF TypeInv, TypeOK, Goto, Labels, tables, SnapType
<1>2. ProcessShape'
  BY DEF TypeInv, TypeOK, ProcessShape, Goto, AfterWallet
<1>3. QED
  BY <1>1, <1>2 DEF TypeInv, RowShape, tables

-----------------------------------------------------------------------------
(* Commit.                                                                  *)

LEMMA WrittenTypes ==
  ASSUME TypeInv, NEW p \in Processes, pc[p] = "commit"
  PROVE  /\ FinalRow(p) \in Row
         /\ out[p].moves => MovementEntry(p) \in Entry
<1>1. /\ cmd[p] \in Commands
      /\ out[p] \in Decided
      /\ out[p].moves => cmd[p].kind # "LOSS" /\ out[p].balance \in 0..MaxMinor
      /\ snap[p].balance \in 0..MaxMinor
  BY DEF TypeInv, TypeOK, ProcessShape
<1>2. /\ cmd[p].ext \in ExternalIds
      /\ cmd[p].ref \in ExternalIds \cup {NoRef}
      /\ out[p].moves => cmd[p].amount \in 1..MaxMinor
  BY <1>1, CommandFacts
<1>3. txs[cmd[p].ext].attempts \in Nat
  BY <1>2 DEF TypeInv, TypeOK, Row
<1>4. FinalRow(p) \in Row
  <2>1. FinalRow(p).attempts \in Nat /\ FinalRow(p).refTx \in ExternalIds \cup {NoRef}
    BY <1>2, <1>3 DEF FinalRow
  <2>2. QED
    BY <1>1, <2>1 DEF FinalRow, Row, Decided
<1>5. ASSUME out[p].moves PROVE MovementEntry(p) \in Entry
  <2>1. Debit(cmd[p]) \in BOOLEAN
    BY DEF Debit, Debits
  <2>2. QED
    BY <1>1, <1>2, <1>5, <2>1 DEF MovementEntry, Entry
<1>6. QED
  BY <1>4, <1>5

LEMMA WriteTyped ==
  ASSUME TypeInv, NEW p \in Processes, NEW o \in Outcome, pc[p] = "commit",
         Write(p), Return(p, o)
  PROVE  TypeInv'
<1>1. /\ cmd[p] \in Commands /\ cmd[p].ext \in ExternalIds
      /\ cmd[p].wallet \in Wallets
      /\ out[p].moves => out[p].balance \in 0..MaxMinor
  BY CommandFacts DEF TypeInv, ProcessShape, AfterWallet
<1>2. wallets' \in [Wallets -> Wallet]
  <2>1. CASE out[p].moves
    <3>1. wallets[cmd[p].wallet].version + 1 \in Nat
      BY <1>1 DEF TypeInv, TypeOK, Wallet
    <3>2. [balance |-> out[p].balance,
           version |-> wallets[cmd[p].wallet].version + 1] \in Wallet
      BY <1>1, <2>1, <3>1 DEF Wallet
    <3>3. QED
      BY <1>1, <2>1, <3>2 DEF Write, TypeInv, TypeOK
  <2>2. CASE ~out[p].moves
    BY <2>2 DEF Write, TypeInv, TypeOK
  <2>3. QED
    BY <2>1, <2>2
<1>3. ASSUME NEW e \in ExternalIds PROVE txs'[e] \in Row
  <2>1. CASE e = cmd[p].ext
    BY <2>1, WrittenTypes DEF Write
  <2>2. CASE e # cmd[p].ext
    <3>1. txs[e] \in Row
      BY DEF TypeInv, TypeOK
    <3>2. MadeDue(txs[e]) \in Row
      BY <3>1 DEF Row, MadeDue
    <3>3. QED
      BY <2>2, <3>1, <3>2 DEF Write
  <2>3. QED
    BY <2>1, <2>2
<1>4. txs' \in [ExternalIds -> Row]
  BY <1>3 DEF Write
<1>5. ledger' \in [Wallets -> Seq(Entry)]
  <2>1. CASE out[p].moves
    <3>1. Append(ledger[cmd[p].wallet], MovementEntry(p)) \in Seq(Entry)
      BY <1>1, <2>1, WrittenTypes DEF TypeInv, TypeOK
    <3>2. QED
      BY <1>1, <2>1, <3>1 DEF Write, TypeInv, TypeOK
  <2>2. CASE ~out[p].moves
    BY <2>2 DEF Write, TypeInv, TypeOK
  <2>3. QED
    BY <2>1, <2>2
<1>6. TypeOK'
  BY <1>2, <1>4, <1>5, WalletsAssumption, ServiceAssumption
  DEF TypeInv, TypeOK, Return, Goto, Labels, NoSnap
<1>7. ProcessShape'
  BY DEF TypeInv, TypeOK, ProcessShape, Return, Goto, AfterWallet
<1>8. RowShape'
  BY <1>1 DEF TypeInv, RowShape, Write, FinalRow, MadeDue, TypeOK, Row
<1>9. QED
  BY <1>6, <1>7, <1>8 DEF TypeInv

-----------------------------------------------------------------------------
(* Every action keeps the types.                                            *)

LEMMA ReplayTyped ==
  ASSUME TypeInv, NEW c, NEW e \in ExternalIds, txs[e].status # "ABSENT"
  PROVE  Replay(c, txs[e]) \in Outcome
<1>1. txs[e] \in Row
  BY DEF TypeInv, TypeOK
<1>2. [status |-> txs[e].status, code |-> txs[e].code,
       balance |-> txs[e].balance, moves |-> FALSE] \in Outcome
  BY <1>1 DEF Row, Outcome
<1>3. Failed("IDEMPOTENCY_CONFLICT") \in Outcome
  BY OutcomeTypes DEF ErrorCodes
<1>4. QED
  BY <1>2, <1>3 DEF Replay

LEMMA SubmitTyped ==
  ASSUME TypeInv, NEW p \in Servers, NEW c \in Commands, Submit(p, c)
  PROVE  TypeInv'
<1>1. TypeOK'
  BY OutcomeTypes DEF TypeInv, TypeOK, Submit, Goto, Labels, tables, Processes
<1>2. ProcessShape'
  BY DEF TypeInv, TypeOK, ProcessShape, Submit, Goto, AfterWallet, Processes
<1>3. QED
  BY <1>1, <1>2 DEF TypeInv, RowShape, Submit, tables

LEMMA LookupsTyped ==
  ASSUME TypeInv, NEW p \in Processes, LookupExternal(p) \/ LookupKey(p)
  PROVE  TypeInv'
<1>1. p \in Servers /\ cmd[p] \in Commands /\ cmd[p].ext \in ExternalIds
  BY CommandFacts DEF TypeInv, ProcessShape, LookupExternal, LookupKey
<1>2. ASSUME NEW label \in {"key", "insert"}, Goto(p, label), pc[p] # "idle",
             UNCHANGED <<tables, cmd, snap, tries, out, woken>>
      PROVE  TypeInv'
  BY <1>1, <1>2, GotoTyped DEF Labels, AfterWallet, TypeInv, TypeOK, SnapType
<1>3. CASE LookupExternal(p)
  <2>1. CASE txs[cmd[p].ext].status = "ABSENT"
    BY <1>2, <1>3, <2>1 DEF LookupExternal
  <2>2. CASE txs[cmd[p].ext].status # "ABSENT"
    BY <1>1, <1>3, <2>2, ReplayTyped, ReturnTyped DEF LookupExternal
  <2>3. QED
    BY <2>1, <2>2
<1>4. CASE LookupKey(p)
  <2>1. CASE Goto(p, "insert") /\ UNCHANGED <<cmd, snap, tries, out, woken>>
    BY <1>2, <1>4, <2>1 DEF LookupKey
  <2>2. ASSUME NEW e \in KeyHolders(cmd[p].key), Return(p, Replay(cmd[p], txs[e]))
        PROVE  TypeInv'
    BY <1>4, <2>2, ReplayTyped, ReturnTyped DEF LookupKey, KeyHolders
  <2>3. QED
    BY <1>4, <2>1, <2>2 DEF LookupKey
<1>5. QED
  BY <1>3, <1>4

LEMMA InsertTyped ==
  ASSUME TypeInv, NEW p \in Processes, Insert(p)
  PROVE  TypeInv'
<1>1. pc[p] = "insert" /\ p \in Servers /\ UNCHANGED tables
  BY DEF TypeInv, ProcessShape, Insert
<1>2. CASE Retry(p)
  BY <1>1, <1>2, RetryTyped, ServiceAssumption
<1>3. CASE Return(p, Failed("INTERNAL"))
  BY <1>1, <1>3, OutcomeTypes, ReturnTyped DEF ErrorCodes
<1>4. CASE /\ cmd[p].wallet \in Wallets
           /\ Goto(p, "wallet")
           /\ UNCHANGED <<cmd, snap, tries, out, woken>>
  BY <1>1, <1>4, GotoTyped DEF Labels, AfterWallet, TypeInv, TypeOK, SnapType
<1>5. QED
  BY <1>2, <1>3, <1>4 DEF Insert

LEMMA LoadWalletTyped ==
  ASSUME TypeInv, NEW p \in Processes, LoadWallet(p)
  PROVE  TypeInv'
<1>1. /\ pc[p] = "wallet" /\ cmd[p] \in Commands
      /\ cmd[p].wallet \in Wallets
      /\ cmd[p].ref \in ExternalIds \cup {NoRef}
  BY CommandFacts DEF TypeInv, ProcessShape, LoadWallet
<1>2. wallets[cmd[p].wallet] \in Wallet
  BY <1>1 DEF TypeInv, TypeOK
<1>3. snap' \in SnapType /\ wallets[cmd[p].wallet].balance \in 0..MaxMinor
  BY <1>2 DEF LoadWallet, TypeInv, TypeOK, SnapType, Wallet
<1>4. ASSUME NEW code \in {"WALLET_PLAYER_MISMATCH", "CURRENCY_MISMATCH"},
             Decide(p, Rejected(code, wallets[cmd[p].wallet].balance))
      PROVE  TypeInv'
  <2>1. Rejected(code, wallets[cmd[p].wallet].balance) \in Decided
    BY <1>3, OutcomeTypes DEF FailureCodes
  <2>2. QED
    BY <1>1, <1>3, <1>4, <2>1, DecideTyped DEF Rejected
<1>5. CASE Decide(p, Processed(wallets[cmd[p].wallet].balance, FALSE))
  <2>1. Processed(wallets[cmd[p].wallet].balance, FALSE) \in Decided
    BY <1>3, OutcomeTypes
  <2>2. QED
    BY <1>1, <1>3, <1>5, <2>1, DecideTyped DEF Processed
<1>6. CASE /\ cmd[p].kind # "LOSS"
           /\ Goto(p, IF cmd[p].ref = NoRef THEN "move" ELSE "reference")
           /\ UNCHANGED <<tables, cmd, tries, out, woken>>
  <2>1. CASE cmd[p].ref = NoRef
    BY <1>1, <1>3, <1>6, <2>1, GotoTyped DEF Labels
  <2>2. CASE cmd[p].ref # NoRef
    BY <1>1, <1>3, <1>6, <2>2, GotoTyped DEF Labels
  <2>3. QED
    BY <2>1, <2>2
<1>7. QED
  BY <1>4, <1>5, <1>6 DEF LoadWallet

LEMMA FaultTypes ==
  ASSUME NEW c, NEW row
  PROVE  ReferenceFault(c, row) \in FailureCodes \cup {NoCode}
BY DEF ReferenceFault, FailureCodes

(* The three statements about the reference leave the snapshot alone: they
   reject, park, or go on. *)
LEMMA ReferenceTyped ==
  ASSUME TypeInv, NEW p \in Processes,
         ResolveReference(p) \/ FindReversal(p) \/ FindCrossReversal(p)
  PROVE  TypeInv'
<1>1. /\ pc[p] \in {"reference", "reversal", "cross"}
      /\ cmd[p].wallet \in Wallets
      /\ cmd[p].ref \in ExternalIds
      /\ cmd[p].kind # "LOSS"
      /\ snap[p].balance \in 0..MaxMinor
      /\ snap' = snap /\ snap' \in SnapType
  BY DEF TypeInv, TypeOK, ProcessShape, AfterWallet, SnapType,
         ResolveReference, FindReversal, FindCrossReversal
<1>2. ASSUME NEW code \in FailureCodes,
             NEW b \in 0..MaxMinor \cup {NoBalance}, Decide(p, Rejected(code, b))
      PROVE  TypeInv'
  BY <1>1, <1>2, OutcomeTypes, DecideTyped DEF Rejected, AfterWallet
<1>3. CASE Decide(p, Parked)
  BY <1>1, <1>3, OutcomeTypes, DecideTyped DEF Parked, AfterWallet
<1>4. ASSUME NEW label \in {"reversal", "cross", "move"}, Goto(p, label),
             UNCHANGED <<tables, cmd, tries, out, woken>>
      PROVE  TypeInv'
  BY <1>1, <1>4, GotoTyped DEF Labels
<1>5. CASE ResolveReference(p)
  <2>1. CASE Decide(p, Rejected("REFERENCE_NOT_FOUND", NoBalance))
    BY <1>2, <2>1 DEF FailureCodes
  <2>2. CASE /\ ReferenceFault(cmd[p], txs[cmd[p].ref]) # NoCode
             /\ Decide(p, Rejected(ReferenceFault(cmd[p], txs[cmd[p].ref]),
                                   snap[p].balance))
    BY <1>1, <1>2, <2>2, FaultTypes
  <2>3. QED
    BY <1>3, <1>4, <1>5, <2>1, <2>2 DEF ResolveReference
<1>6. CASE FindReversal(p) \/ FindCrossReversal(p)
  <2>1. CASE RefusedReversal(p)
    BY <1>1, <1>2, <2>1 DEF RefusedReversal, FailureCodes
  <2>2. QED
    BY <1>4, <1>6, <2>1 DEF FindReversal, FindCrossReversal
<1>7. QED
  BY <1>5, <1>6

LEMMA MoveTyped ==
  ASSUME TypeInv, NEW p \in Processes, Move(p)
  PROVE  TypeInv'
<1> DEFINE after == BalanceAfter(snap[p].balance, cmd[p].amount, Debit(cmd[p]))
<1>1. /\ pc[p] = "move" /\ cmd[p].wallet \in Wallets
      /\ cmd[p].kind # "LOSS"
      /\ snap[p].balance \in 0..MaxMinor
  BY DEF TypeInv, TypeOK, ProcessShape, AfterWallet, Move
<1>2. CASE /\ UNCHANGED snap
           /\ Decide(p, Rejected(IF cmd[p].kind = "ROLLBACK"
                                 THEN "REVERSAL_INSUFFICIENT_FUNDS"
                                 ELSE "INSUFFICIENT_FUNDS", snap[p].balance))
  <2>1. Rejected(IF cmd[p].kind = "ROLLBACK"
                 THEN "REVERSAL_INSUFFICIENT_FUNDS"
                 ELSE "INSUFFICIENT_FUNDS", snap[p].balance) \in Decided
    BY <1>1, OutcomeTypes DEF FailureCodes
  <2>2. QED
    BY <1>1, <1>2, <2>1, DecideTyped
    DEF Rejected, AfterWallet, TypeInv, TypeOK, SnapType
<1>3. CASE Return(p, Failed("MONEY_OVERFLOW")) /\ UNCHANGED tables
  BY <1>3, OutcomeTypes, ReturnTyped DEF ErrorCodes
<1>4. CASE Retry(p) /\ UNCHANGED tables
  BY <1>1, <1>4, RetryTyped
<1>5. CASE /\ after \in 0..MaxMinor
           /\ UNCHANGED snap
           /\ Decide(p, Processed(after, TRUE))
  <2>1. Processed(after, TRUE) \in Decided
    BY <1>5, OutcomeTypes
  <2>2. QED
    BY <1>1, <1>5, <2>1, DecideTyped
    DEF Processed, AfterWallet, TypeInv, TypeOK, SnapType
<1>6. QED
  BY <1>2, <1>3, <1>4, <1>5 DEF Move

LEMMA FinishTyped ==
  ASSUME TypeInv, NEW p \in Processes, Finish(p)
  PROVE  TypeInv'
<1>1. /\ pc[p] = "finish" /\ UNCHANGED tables
      /\ cmd[p].wallet \in Wallets
  BY DEF TypeInv, ProcessShape, AfterWallet, Finish
<1>2. CASE DuplicateReversal(p)
  BY <1>1, <1>2, RetryTyped DEF Finish
<1>3. CASE ~DuplicateReversal(p)
  <2>1. woken' \in [Processes -> SUBSET ExternalIds]
    <3>1. \/ UNCHANGED woken
          \/ woken' = [woken EXCEPT ![p] = Dependents(p)]
      BY <1>3 DEF Finish
    <3>2. Dependents(p) \subseteq ExternalIds
      BY DEF Dependents
    <3>3. woken \in [Processes -> SUBSET ExternalIds]
      BY DEF TypeInv, TypeOK
    <3> QED BY ONLY <3>1, <3>2, <3>3
  <2>2. TypeOK'
    BY <1>1, <1>3, <2>1 DEF TypeInv, TypeOK, Finish, Goto, Labels, tables
  <2>3. ProcessShape'
    BY <1>1, <1>3 DEF TypeInv, TypeOK, ProcessShape, Finish, Goto, AfterWallet
  <2>4. QED
    BY <1>1, <2>2, <2>3 DEF TypeInv, RowShape, tables
<1>4. QED
  BY <1>2, <1>3

LEMMA CommitTyped ==
  ASSUME TypeInv, NEW p \in Processes, Commit(p) \/ CommitUnacknowledged(p)
  PROVE  TypeInv'
<1>1. pc[p] = "commit" /\ Write(p)
  BY DEF Commit, CommitUnacknowledged
<1>2. out[p] \in Outcome
  BY DEF TypeInv, TypeOK
<1>3. \E o \in Outcome : Return(p, o)
  BY <1>2, OutcomeTypes DEF Commit, CommitUnacknowledged, ErrorCodes
<1>4. QED
  BY <1>1, <1>3, WriteTyped

LEMMA AbortTyped ==
  ASSUME TypeInv, NEW p \in Processes, Abort(p)
  PROVE  TypeInv'
BY OutcomeTypes, ReturnTyped DEF Abort, ErrorCodes

LEMMA BecomeDueTyped ==
  ASSUME TypeInv, NEW e \in ExternalIds, BecomeDue(e)
  PROVE  TypeInv'
<1>1. MadeDue(txs[e]) \in Row
  BY DEF MadeDue, Row, TypeInv, TypeOK
<1>2. TypeOK'
  BY <1>1 DEF TypeInv, TypeOK, BecomeDue, local
<1>3. ProcessShape'
  BY DEF TypeInv, ProcessShape, BecomeDue, local
<1>4. RowShape'
  BY DEF TypeInv, TypeOK, RowShape, BecomeDue, MadeDue
<1>5. QED
  BY <1>2, <1>3, <1>4 DEF TypeInv

LEMMA ClaimTyped ==
  ASSUME TypeInv, NEW r \in Resolvers, NEW e \in ExternalIds, Claim(r, e)
  PROVE  TypeInv'
<1>1. txs[e].cmd \in Commands /\ txs[e].cmd.wallet \in Wallets
  BY DEF TypeInv, RowShape, Claim
<1>2. TypeOK'
  BY <1>1 DEF TypeInv, TypeOK, Claim, Goto, Labels, tables, Processes
<1>3. ProcessShape'
  BY <1>1 DEF TypeInv, TypeOK, ProcessShape, Claim, Goto, AfterWallet, Processes
<1>4. QED
  BY <1>2, <1>3 DEF TypeInv, RowShape, Claim, tables

-----------------------------------------------------------------------------
(* The type invariant.                                                      *)

LEMMA InitTyped == Init => TypeInv
<1> SUFFICES ASSUME Init PROVE TypeInv
  OBVIOUS
<1>1. wallets \in [Wallets -> Wallet]
  BY WalletsAssumption DEF Init, StartUp, Wallet
<1>2. AbsentRow \in Row
  BY DEF AbsentRow, Row, NoCode, NoBalance
<1>3. ledger \in [Wallets -> Seq(Entry)]
  <2>1. ASSUME NEW w \in Wallets PROVE ledger[w] \in Seq(Entry)
    <3>1. CASE Opening[w] > 0
      <4>1. OpeningEntry(w) \in Entry
        BY <3>1, WalletsAssumption DEF OpeningEntry, Entry
      <4>2. QED
        BY <3>1, <4>1 DEF Init, StartUp
    <3>2. CASE ~(Opening[w] > 0)
      BY <3>2 DEF Init, StartUp
    <3>3. QED
      BY <3>1, <3>2
  <2>2. QED
    BY <2>1 DEF Init, StartUp
<1>4. TypeOK
  BY <1>1, <1>2, <1>3, OutcomeTypes, WalletsAssumption, ServiceAssumption
  DEF Init, StartUp, TypeOK, Labels, NoSnap
<1>5. ProcessShape /\ RowShape
  BY DEF Init, StartUp, ProcessShape, RowShape, AfterWallet, AbsentRow
<1>6. QED
  BY <1>4, <1>5 DEF TypeInv

LEMMA NextTyped == TypeInv /\ [Next]_vars => TypeInv'
<1> SUFFICES ASSUME TypeInv, [Next]_vars PROVE TypeInv'
  OBVIOUS
<1>1. ASSUME NEW p \in Servers, NEW c \in Commands, Submit(p, c) PROVE TypeInv'
  BY <1>1, SubmitTyped
<1>2. ASSUME NEW p \in Processes, Statement(p) PROVE TypeInv'
  BY <1>2, LookupsTyped, InsertTyped, LoadWalletTyped, ReferenceTyped,
     MoveTyped, FinishTyped, CommitTyped
  DEF Statement
<1>3. ASSUME NEW p \in Processes, Abort(p) \/ CommitUnacknowledged(p)
      PROVE  TypeInv'
  BY <1>3, AbortTyped, CommitTyped
<1>4. ASSUME NEW e \in ExternalIds, BecomeDue(e) PROVE TypeInv'
  BY <1>4, BecomeDueTyped
<1>5. ASSUME NEW r \in Resolvers, NEW e \in ExternalIds, Claim(r, e)
      PROVE  TypeInv'
  BY <1>5, ClaimTyped
<1>6. CASE UNCHANGED vars
  BY <1>6 DEF vars, TypeInv, TypeOK, ProcessShape, RowShape
<1>7. QED
  BY <1>1, <1>2, <1>3, <1>4, <1>5, <1>6 DEF Next

\* Every variable keeps its type for any constants: in particular no stored,
\* reported or ledgered balance is ever negative or above MaxMinor (Wallet.Debit,
\* Money.Add), and no attempt loop runs past MaxWalletRetries (Process).
THEOREM TypeCorrect == Spec => []TypeOK
<1>1. Spec => []TypeInv
  BY InitTyped, NextTyped, PTL DEF Spec
<1>2. TypeInv => TypeOK
  BY DEF TypeInv
<1>3. QED
  BY <1>1, <1>2, PTL

-----------------------------------------------------------------------------
(***************************************************************************)
(* Keys are unique and terminal rows final, for every value of the         *)
(* constants of WagerService: unique indexes keep uncommitted rows apart    *)
(* from all others, and locks keep a row with the process that writes it.   *)
(***************************************************************************)

(* An uncommitted row has an identifier and a key of its own, among the
   committed rows and among the other uncommitted ones. *)
InsertedAlone ==
  /\ \A p \in Processes : Inserted(p) =>
       /\ txs[cmd[p].ext].status = "ABSENT"
       /\ \A e \in ExternalIds :
            txs[e].status # "ABSENT" => txs[e].cmd.key # cmd[p].key
  /\ \A p, q \in Processes : (p # q /\ Inserted(p) /\ Inserted(q)) =>
       cmd[p].ext # cmd[q].ext /\ cmd[p].key # cmd[q].key

(* A resolver works on the row it claimed and on that row's command. *)
ClaimedRow ==
  \A r \in Resolvers : pc[r] # "idle" =>
    txs[cmd[r].ext].status = "PENDING_REFERENCE" /\ txs[cmd[r].ext].cmd = cmd[r]

(* Only a transaction about to commit has woken rows, and they still wait. *)
WokenRows ==
  \A p \in Processes :
    /\ woken[p] # {} => pc[p] = "commit"
    /\ \A e \in woken[p] : txs[e].status = "PENDING_REFERENCE"

RowsHeldOnce ==
  \A p, q \in Processes, e \in ExternalIds :
    p # q => ~(HoldsRow(p, e) /\ HoldsRow(q, e))

LockInv == InsertedAlone /\ ClaimedRow /\ WokenRows /\ RowsHeldOnce /\ KeysUnique

-----------------------------------------------------------------------------
(* Steps that leave the tables alone.                                       *)

(* A process that goes on keeps what it holds. *)
LEMMA GoOnLocked ==
  ASSUME TypeInv, LockInv, NEW p \in Processes, NEW label \in Labels \ {"idle"},
         Goto(p, label), UNCHANGED <<txs, cmd, woken>>,
         pc[p] \notin {"idle", "commit"},
         p \in Servers /\ label \in {"wallet"} \cup AfterWallet => Inserted(p)
  PROVE  LockInv'
<1>1. \A q \in Processes : Inserted(q)' => Inserted(q)
  BY DEF Inserted, Goto, TypeInv, TypeOK
<1>2. woken[p] = {}
  BY DEF LockInv, WokenRows
<1>3. \A q \in Processes, e \in ExternalIds : HoldsRow(q, e)' => HoldsRow(q, e)
  BY DEF HoldsRow, Goto, TypeInv, TypeOK
<1>4. InsertedAlone'
  BY <1>1 DEF LockInv, InsertedAlone
<1>5. ClaimedRow' /\ WokenRows'
  BY <1>2 DEF LockInv, ClaimedRow, WokenRows, Goto, TypeInv, TypeOK, Processes
<1>6. RowsHeldOnce' /\ KeysUnique'
  BY <1>3 DEF LockInv, RowsHeldOnce, KeysUnique
<1>7. QED
  BY <1>4, <1>5, <1>6 DEF LockInv

(* A transaction that ends releases everything. *)
LEMMA ReturnLocked ==
  ASSUME TypeInv, LockInv, NEW p \in Processes, NEW o, Return(p, o), UNCHANGED txs
  PROVE  LockInv'
<1>1. \A q \in Processes : q # p => pc'[q] = pc[q] /\ cmd'[q] = cmd[q] /\ woken'[q] = woken[q]
  BY DEF Return, Goto, TypeInv, TypeOK
<1>2. pc'[p] = "idle" /\ woken'[p] = {}
  BY DEF Return, Goto, TypeInv, TypeOK
<1>3. ~Inserted(p)' /\ \A e \in ExternalIds : ~HoldsRow(p, e)'
  BY <1>2 DEF Inserted, HoldsRow, AfterWallet
<1>4. \A q \in Processes : q # p =>
        /\ Inserted(q)' = Inserted(q)
        /\ \A e \in ExternalIds : HoldsRow(q, e)' = HoldsRow(q, e)
  BY <1>1 DEF Inserted, HoldsRow
<1>5. InsertedAlone'
  BY <1>1, <1>3, <1>4 DEF LockInv, InsertedAlone
<1>6. ClaimedRow' /\ WokenRows'
  BY <1>1, <1>2 DEF LockInv, ClaimedRow, WokenRows, Processes
<1>7. RowsHeldOnce' /\ KeysUnique'
  BY <1>3, <1>4 DEF LockInv, RowsHeldOnce, KeysUnique
<1>8. QED
  BY <1>5, <1>6, <1>7 DEF LockInv

LEMMA RetryLocked ==
  ASSUME TypeInv, LockInv, NEW p \in Processes, Retry(p), UNCHANGED txs,
         pc[p] \notin {"idle", "commit"}
  PROVE  LockInv'
<1>1. CASE Return(p, Failed("WALLET_VERSION_CONFLICT"))
  BY <1>1, ReturnLocked
<1>2. CASE /\ Goto(p, IF p \in Servers THEN "external" ELSE "wallet")
           /\ UNCHANGED <<cmd, woken>>
  BY <1>2, GoOnLocked, ServiceAssumption DEF Labels, AfterWallet
<1>3. QED
  BY <1>1, <1>2 DEF Retry

-----------------------------------------------------------------------------
(* Steps that take a lock.                                                  *)

LEMMA SubmitLocked ==
  ASSUME TypeInv, LockInv, NEW p \in Servers, NEW c \in Commands, Submit(p, c)
  PROVE  LockInv'
<1>1. p \in Processes /\ pc[p] = "idle" /\ txs' = txs /\ woken' = woken
  BY DEF Submit, tables, Processes
<1>2. /\ pc'[p] = "external"
      /\ \A q \in Processes : q # p => pc'[q] = pc[q] /\ cmd'[q] = cmd[q]
  BY <1>1 DEF Submit, Goto, TypeInv, TypeOK
<1>3. \A q \in Processes : Inserted(q)' => Inserted(q) /\ q # p
  BY <1>2 DEF Inserted, AfterWallet
<1>4. \A q \in Processes, e \in ExternalIds : HoldsRow(q, e)' => HoldsRow(q, e)
  BY <1>1, <1>2, ServiceAssumption DEF HoldsRow
<1>5. InsertedAlone'
  BY <1>1, <1>2, <1>3 DEF LockInv, InsertedAlone
<1>6. ClaimedRow' /\ WokenRows'
  BY <1>1, <1>2, ServiceAssumption DEF LockInv, ClaimedRow, WokenRows, Processes
<1>7. RowsHeldOnce' /\ KeysUnique'
  BY <1>1, <1>4 DEF LockInv, RowsHeldOnce, KeysUnique
<1>8. QED
  BY <1>5, <1>6, <1>7 DEF LockInv

(* The unique indexes: an insert that goes through has no twin. *)
LEMMA InsertLocked ==
  ASSUME TypeInv, LockInv, NEW p \in Processes, Insert(p)
  PROVE  LockInv'
<1>1. /\ pc[p] = "insert" /\ p \in Servers /\ cmd[p].ext \in ExternalIds
      /\ ~InsertBlocked(p) /\ txs' = txs
  BY CommandFacts DEF TypeInv, ProcessShape, Insert, tables
<1>2. CASE Retry(p)
  BY <1>1, <1>2, RetryLocked
<1>3. CASE Return(p, Failed("INTERNAL"))
  BY <1>1, <1>3, ReturnLocked
<1>4. CASE ~KeyTaken(p) /\ Goto(p, "wallet") /\ UNCHANGED <<cmd, woken>>
  <2>1. /\ txs[cmd[p].ext].status = "ABSENT"
        /\ \A e \in ExternalIds :
             txs[e].status # "ABSENT" => txs[e].cmd.key # cmd[p].key
    BY <1>4 DEF KeyTaken, KeyHolders
  <2>2. \A q \in Processes : q # p /\ Inserted(q) =>
          cmd[q].ext # cmd[p].ext /\ cmd[q].key # cmd[p].key
    BY <1>1, <2>1 DEF InsertBlocked, Inserted
  <2>3. \A q \in Processes : q # p => Inserted(q)' = Inserted(q)
    BY <1>4 DEF Inserted, Goto, TypeInv, TypeOK
  <2>4. InsertedAlone'
    BY <1>1, <1>4, <2>1, <2>2, <2>3 DEF LockInv, InsertedAlone
  <2>5. \A q \in Processes, e \in ExternalIds : HoldsRow(q, e)' => HoldsRow(q, e)
    BY <1>1, <1>4, ServiceAssumption DEF HoldsRow, Goto, TypeInv, TypeOK
  <2>6. woken[p] = {}
    BY <1>1 DEF LockInv, WokenRows
  <2>7. ClaimedRow' /\ WokenRows'
    BY <1>1, <1>4, <2>6, ServiceAssumption
    DEF LockInv, ClaimedRow, WokenRows, Goto, TypeInv, TypeOK, Processes
  <2>8. RowsHeldOnce' /\ KeysUnique'
    BY <1>1, <2>5 DEF LockInv, RowsHeldOnce, KeysUnique
  <2>9. QED
    BY <2>4, <2>7, <2>8 DEF LockInv
<1>5. QED
  BY <1>2, <1>3, <1>4 DEF Insert

(* SKIP LOCKED: a claimed row is nobody else's. *)
LEMMA ClaimLocked ==
  ASSUME TypeInv, LockInv, NEW r \in Resolvers, NEW e \in ExternalIds, Claim(r, e)
  PROVE  LockInv'
<1>1. /\ r \in Processes /\ pc[r] = "idle" /\ txs' = txs /\ woken' = woken
      /\ txs[e].status = "PENDING_REFERENCE" /\ RowFree(r, e)
  BY DEF Claim, tables, Processes
<1>2. txs[e].cmd.ext = e
  BY <1>1 DEF TypeInv, RowShape
<1>3. /\ pc'[r] = "wallet" /\ cmd'[r] = txs[e].cmd
      /\ \A q \in Processes : q # r => pc'[q] = pc[q] /\ cmd'[q] = cmd[q]
  BY <1>1 DEF Claim, Goto, TypeInv, TypeOK
<1>4. \A q \in Processes : Inserted(q)' => Inserted(q) /\ q # r
  BY <1>3, ServiceAssumption DEF Inserted
<1>5. InsertedAlone'
  BY <1>1, <1>3, <1>4 DEF LockInv, InsertedAlone
<1>6. ClaimedRow' /\ WokenRows'
  BY <1>1, <1>2, <1>3 DEF LockInv, ClaimedRow, WokenRows, Processes
<1>7. \A q \in Processes, x \in ExternalIds :
        HoldsRow(q, x)' => HoldsRow(q, x) \/ (q = r /\ x = e)
  BY <1>1, <1>2, <1>3 DEF HoldsRow
<1>8. RowsHeldOnce'
  BY <1>1, <1>7 DEF LockInv, RowsHeldOnce, RowFree
<1>9. QED
  BY <1>1, <1>5, <1>6, <1>8 DEF LockInv, KeysUnique

(* WakeDependents takes the rows nobody else holds. *)
LEMMA FinishLocked ==
  ASSUME TypeInv, LockInv, NEW p \in Processes, Finish(p)
  PROVE  LockInv'
<1>1. pc[p] = "finish" /\ txs' = txs
  BY DEF Finish, tables
<1>2. CASE DuplicateReversal(p)
  BY <1>1, <1>2, RetryLocked DEF Finish
<1>3. CASE ~DuplicateReversal(p)
  <2>1. /\ Goto(p, "commit") /\ cmd' = cmd
        /\ \/ woken' = woken
           \/ /\ \A e \in Dependents(p) : RowFree(p, e)
              /\ woken' = [woken EXCEPT ![p] = Dependents(p)]
    BY <1>3 DEF Finish
  <2>2. CASE woken' = woken
    BY <1>1, <2>1, <2>2, GoOnLocked DEF Labels, Inserted, AfterWallet
  <2>3. CASE /\ \A e \in Dependents(p) : RowFree(p, e)
             /\ woken' = [woken EXCEPT ![p] = Dependents(p)]
    <3>1. \A q \in Processes : Inserted(q)' = Inserted(q)
      BY <1>1, <2>1 DEF Inserted, AfterWallet, Goto, TypeInv, TypeOK
    <3>2. InsertedAlone'
      BY <1>1, <2>1, <3>1 DEF LockInv, InsertedAlone
    <3>3. /\ pc'[p] = "commit" /\ woken'[p] = Dependents(p)
          /\ \A q \in Processes : q # p => pc'[q] = pc[q] /\ woken'[q] = woken[q]
      BY <2>1, <2>3 DEF Goto, TypeInv, TypeOK
    <3>4. ClaimedRow' /\ WokenRows'
      BY <1>1, <2>1, <3>3
      DEF LockInv, ClaimedRow, WokenRows, Dependents, Processes
    <3>5. \A q \in Processes, e \in ExternalIds : HoldsRow(q, e)' =>
            HoldsRow(q, e) \/ (q = p /\ e \in Dependents(p))
      BY <1>1, <2>1, <3>3 DEF HoldsRow
    <3>6. RowsHeldOnce'
      BY <2>3, <3>5 DEF LockInv, RowsHeldOnce, RowFree
    <3>7. QED
      BY <1>1, <3>2, <3>4, <3>6 DEF LockInv, KeysUnique
  <2>4. QED
    BY <2>1, <2>2, <2>3
<1>4. QED
  BY <1>2, <1>3

(* The statements of a transaction between its locks. *)
LEMMA ReadsLocked ==
  ASSUME TypeInv, LockInv, NEW p \in Processes,
         \/ LookupExternal(p) \/ LookupKey(p) \/ LoadWallet(p)
         \/ ResolveReference(p) \/ FindReversal(p) \/ FindCrossReversal(p)
         \/ Move(p)
  PROVE  LockInv'
<1>1. CASE LookupExternal(p) \/ LookupKey(p)
  <2>1. pc[p] \in {"external", "key"} /\ txs' = txs
    BY <1>1 DEF LookupExternal, LookupKey, tables
  <2>2. \/ /\ \E label \in {"key", "insert"} : Goto(p, label)
           /\ UNCHANGED <<cmd, woken>>
        \/ \E o \in {Replay(cmd[p], txs[e]) : e \in ExternalIds \cup {cmd[p].ext}} :
             Return(p, o)
    BY <1>1 DEF LookupExternal, LookupKey, KeyHolders
  <2>3. ASSUME NEW label \in {"key", "insert"}, Goto(p, label), UNCHANGED <<cmd, woken>>
        PROVE  LockInv'
    BY <2>1, <2>3, GoOnLocked DEF Labels, AfterWallet
  <2>4. QED
    BY <2>1, <2>2, <2>3, ReturnLocked
<1>2. CASE LoadWallet(p) \/ ResolveReference(p) \/ FindReversal(p)
           \/ FindCrossReversal(p) \/ Move(p)
  <2>1. /\ pc[p] \in {"wallet", "reference", "reversal", "cross", "move"}
        /\ txs' = txs
    BY <1>2 DEF LoadWallet, ResolveReference, FindReversal, FindCrossReversal, Move,
                RefusedReversal, Decide, tables
  <2>2. p \in Servers => Inserted(p)
    BY <2>1 DEF Inserted, AfterWallet
  <2>3. \/ /\ \E label \in {"reference", "reversal", "cross", "move", "finish"} :
                Goto(p, label)
           /\ UNCHANGED <<cmd, woken>>
        \/ Retry(p)
        \/ Return(p, Failed("MONEY_OVERFLOW"))
    BY <1>2 DEF LoadWallet, ResolveReference, FindReversal, FindCrossReversal, Move,
                RefusedReversal, Decide
  <2>4. ASSUME NEW label \in {"reference", "reversal", "cross", "move", "finish"},
               Goto(p, label), UNCHANGED <<cmd, woken>>
        PROVE  LockInv'
    BY <2>1, <2>2, <2>4, GoOnLocked DEF Labels
  <2>5. QED
    BY <2>1, <2>3, <2>4, RetryLocked, ReturnLocked
<1>3. QED
  BY <1>1, <1>2

-----------------------------------------------------------------------------
(* Steps that write rows.                                                   *)

(* A commit writes the row it inserted or claimed, which was not terminal,
   and makes rows due that still wait. *)
LEMMA RowsWritten ==
  ASSUME TypeInv, LockInv, NEW p \in Processes, pc[p] = "commit", Write(p)
  PROVE  /\ cmd[p].ext \in ExternalIds
         /\ txs'[cmd[p].ext].cmd = cmd[p]
         /\ txs'[cmd[p].ext].status = out[p].status
         /\ txs'[cmd[p].ext].status \in Statuses
         /\ txs[cmd[p].ext].status \notin Terminal
         /\ txs[cmd[p].ext].status # "ABSENT" => txs[cmd[p].ext].cmd = cmd[p]
         /\ \A e \in ExternalIds : e # cmd[p].ext =>
              /\ txs'[e].cmd = txs[e].cmd /\ txs'[e].status = txs[e].status
              /\ txs[e].status \in Terminal => txs'[e] = txs[e]
<1>1. cmd[p].ext \in ExternalIds
  BY CommandFacts DEF TypeInv, ProcessShape
<1>2. out[p] \in Decided
  BY DEF TypeInv, ProcessShape
<1>3. txs'[cmd[p].ext] = FinalRow(p)
  BY <1>1 DEF Write
<1>4. /\ FinalRow(p).cmd = cmd[p]
      /\ FinalRow(p).status = out[p].status
  BY DEF FinalRow
<1>5. p \in Servers => txs[cmd[p].ext].status = "ABSENT"
  BY DEF LockInv, InsertedAlone, Inserted, AfterWallet
<1>6. p \in Resolvers =>
        txs[cmd[p].ext].status = "PENDING_REFERENCE" /\ txs[cmd[p].ext].cmd = cmd[p]
  BY DEF LockInv, ClaimedRow
<1>7. ASSUME NEW e \in ExternalIds, e # cmd[p].ext
      PROVE  /\ txs'[e].cmd = txs[e].cmd /\ txs'[e].status = txs[e].status
             /\ txs[e].status \in Terminal => txs'[e] = txs[e]
  <2>1. CASE e \in woken[p]
    <3>1. txs'[e] = MadeDue(txs[e])
      BY <1>7, <2>1 DEF Write
    <3>2. txs[e].status = "PENDING_REFERENCE"
      BY <2>1 DEF LockInv, WokenRows
    <3>3. QED
      BY <3>1, <3>2 DEF MadeDue, Terminal
  <2>2. CASE e \notin woken[p]
    BY <1>7, <2>2 DEF Write
  <2>3. QED
    BY <2>1, <2>2
<1>8. out[p].status \in Statuses
  BY <1>2 DEF Decided
<1>9. QED
  BY <1>1, <1>3, <1>4, <1>5, <1>6, <1>7, <1>8 DEF Processes, Terminal

LEMMA CommitLocked ==
  ASSUME TypeInv, LockInv, NEW p \in Processes, NEW o, pc[p] = "commit", Write(p),
         Return(p, o)
  PROVE  LockInv'
<1>1. /\ pc'[p] = "idle" /\ woken'[p] = {}
      /\ \A q \in Processes : q # p =>
           pc'[q] = pc[q] /\ cmd'[q] = cmd[q] /\ woken'[q] = woken[q]
  BY DEF Return, Goto, TypeInv, TypeOK
<1>2. /\ ~Inserted(p)' /\ \A e \in ExternalIds : ~HoldsRow(p, e)'
      /\ \A q \in Processes : q # p =>
           /\ Inserted(q)' = Inserted(q)
           /\ \A e \in ExternalIds : HoldsRow(q, e)' = HoldsRow(q, e)
  BY <1>1 DEF Inserted, HoldsRow, AfterWallet
<1>3. \A q \in Processes : q # p /\ Inserted(q) =>
        /\ txs[cmd[q].ext].status = "ABSENT" /\ cmd[q].ext \in ExternalIds
        /\ cmd[q].ext # cmd[p].ext /\ cmd[q].key # cmd[p].key
  <2> SUFFICES ASSUME NEW q \in Processes, q # p, Inserted(q)
               PROVE  /\ txs[cmd[q].ext].status = "ABSENT"
                      /\ cmd[q].ext \in ExternalIds
                      /\ cmd[q].ext # cmd[p].ext /\ cmd[q].key # cmd[p].key
    OBVIOUS
  <2>1. txs[cmd[q].ext].status = "ABSENT" /\ cmd[q].ext \in ExternalIds
    BY CommandFacts DEF LockInv, InsertedAlone, TypeInv, ProcessShape, Inserted,
                        AfterWallet
  <2>2. CASE p \in Servers
    BY <2>1, <2>2 DEF LockInv, InsertedAlone, Inserted, AfterWallet
  <2>3. CASE p \in Resolvers
    <3>1. txs[cmd[p].ext].status = "PENDING_REFERENCE" /\ txs[cmd[p].ext].cmd = cmd[p]
      BY <2>3 DEF LockInv, ClaimedRow
    <3>2. QED
      BY <2>1, <3>1, RowsWritten DEF LockInv, InsertedAlone
  <2>4. QED
    BY <2>1, <2>2, <2>3 DEF Processes
<1>4. InsertedAlone'
  BY <1>1, <1>2, <1>3, RowsWritten DEF LockInv, InsertedAlone
<1>5. \A q \in Processes, e \in ExternalIds : q # p /\ HoldsRow(q, e) =>
        e # cmd[p].ext
  <2> SUFFICES ASSUME NEW q \in Processes, NEW e \in ExternalIds, q # p,
                      HoldsRow(q, e), e = cmd[p].ext
               PROVE  FALSE
    OBVIOUS
  <2>1. txs[e].status = "PENDING_REFERENCE"
    BY DEF HoldsRow, LockInv, ClaimedRow, WokenRows
  <2>2. CASE p \in Servers
    BY <2>1, <2>2 DEF LockInv, InsertedAlone, Inserted, AfterWallet
  <2>3. CASE p \in Resolvers
    BY <2>3 DEF LockInv, RowsHeldOnce, HoldsRow
  <2>4. QED
    BY <2>2, <2>3 DEF Processes
<1>6. ClaimedRow'
  <2> SUFFICES ASSUME NEW r \in Resolvers, pc'[r] # "idle"
               PROVE  /\ txs'[cmd'[r].ext].status = "PENDING_REFERENCE"
                      /\ txs'[cmd'[r].ext].cmd = cmd'[r]
    BY DEF ClaimedRow
  <2>1. r \in Processes /\ r # p /\ pc[r] # "idle" /\ cmd'[r] = cmd[r]
    BY <1>1 DEF Processes
  <2>2. cmd[r].ext \in ExternalIds /\ cmd[r].ext # cmd[p].ext
    BY <1>5, <2>1, CommandFacts DEF HoldsRow, TypeInv, ProcessShape
  <2>3. QED
    BY <2>1, <2>2, RowsWritten DEF LockInv, ClaimedRow
<1>7. WokenRows'
  <2>1. \A q \in Processes : \A e \in woken[q] : e \in ExternalIds
    BY DEF TypeInv, TypeOK
  <2>2. \A q \in Processes : q # p => \A e \in woken[q] : e # cmd[p].ext
    BY <1>5, <2>1 DEF HoldsRow
  <2>3. QED
    BY <1>1, <2>1, <2>2, RowsWritten DEF LockInv, WokenRows
<1>8. RowsHeldOnce'
  BY <1>2 DEF LockInv, RowsHeldOnce
<1>9. \A e \in ExternalIds :
        (e # cmd[p].ext /\ txs[e].status # "ABSENT") => txs[e].cmd.key # cmd[p].key
  <2>1. CASE p \in Servers
    BY <2>1 DEF LockInv, InsertedAlone, Inserted, AfterWallet
  <2>2. CASE p \in Resolvers
    <3>1. txs[cmd[p].ext].status = "PENDING_REFERENCE" /\ txs[cmd[p].ext].cmd = cmd[p]
      BY <2>2 DEF LockInv, ClaimedRow
    <3>2. QED
      BY <3>1, RowsWritten DEF LockInv, KeysUnique
  <2>3. QED
    BY <2>1, <2>2 DEF Processes
<1>10. KeysUnique'
  BY <1>9, RowsWritten DEF LockInv, KeysUnique
<1>11. QED
  BY <1>4, <1>6, <1>7, <1>8, <1>10 DEF LockInv

LEMMA BecomeDueLocked ==
  ASSUME TypeInv, LockInv, NEW e \in ExternalIds, BecomeDue(e)
  PROVE  /\ LockInv'
         /\ \A x \in ExternalIds :
              /\ txs'[x].cmd = txs[x].cmd /\ txs'[x].status = txs[x].status
              /\ txs[x].status \in Terminal => txs'[x] = txs[x]
<1>1. UNCHANGED <<pc, cmd, woken>>
  BY DEF BecomeDue, local
<1>2. \A x \in ExternalIds : txs'[x] = IF x = e THEN MadeDue(txs[x]) ELSE txs[x]
  BY DEF BecomeDue, TypeInv, TypeOK
<1>3. \A x \in ExternalIds : txs'[x].cmd = txs[x].cmd /\ txs'[x].status = txs[x].status
  <2> SUFFICES ASSUME NEW x \in ExternalIds
               PROVE  txs'[x].cmd = txs[x].cmd /\ txs'[x].status = txs[x].status
    OBVIOUS
  <2>1. MadeDue(txs[x]).cmd = txs[x].cmd /\ MadeDue(txs[x]).status = txs[x].status
    BY DEF MadeDue
  <2>2. QED
    BY <1>2, <2>1
<1>4. \A x \in ExternalIds : txs[x].status \in Terminal => txs'[x] = txs[x]
  BY <1>2 DEF BecomeDue, Terminal
<1>5. \A q \in Processes : pc[q] # "idle" => cmd[q].ext \in ExternalIds
  BY CommandFacts DEF TypeInv, ProcessShape
<1>6. \A q \in Processes : Inserted(q)' = Inserted(q) /\ (Inserted(q) => pc[q] # "idle")
  BY <1>1 DEF Inserted, AfterWallet
<1>7. \A q \in Processes, x \in ExternalIds : HoldsRow(q, x)' = HoldsRow(q, x)
  BY <1>1 DEF HoldsRow
<1>8. InsertedAlone' /\ ClaimedRow'
  BY <1>1, <1>3, <1>5, <1>6 DEF LockInv, InsertedAlone, ClaimedRow, Processes
<1>9. WokenRows'
  BY <1>1, <1>3 DEF LockInv, WokenRows, TypeInv, TypeOK
<1>10. RowsHeldOnce'
  BY <1>7 DEF LockInv, RowsHeldOnce
<1>11. KeysUnique'
  BY <1>3 DEF LockInv, KeysUnique
<1>12. QED
  BY <1>3, <1>4, <1>8, <1>9, <1>10, <1>11 DEF LockInv

-----------------------------------------------------------------------------
(* Keys are unique and terminal rows final.                                 *)

RowsInv == TypeInv /\ LockInv

LEMMA InitLocked == Init => RowsInv
<1> SUFFICES ASSUME Init PROVE LockInv
  BY InitTyped DEF RowsInv
<1>1. \A p \in Processes : pc[p] = "idle" /\ woken[p] = {}
  BY DEF Init, StartUp
<1>2. \A p \in Processes, e \in ExternalIds : ~HoldsRow(p, e) /\ ~Inserted(p)
  BY <1>1 DEF HoldsRow, Inserted, AfterWallet
<1>3. \A p \in Processes : ~Inserted(p)
  BY <1>1 DEF Inserted, AfterWallet
<1>4. \A e \in ExternalIds : txs[e].status = "ABSENT"
  BY DEF Init, StartUp, AbsentRow
<1>5. QED
  BY <1>1, <1>2, <1>3, <1>4
  DEF LockInv, InsertedAlone, ClaimedRow, WokenRows, RowsHeldOnce, KeysUnique,
      Processes

LEMMA NextLocked == RowsInv /\ [Next]_vars => RowsInv'
<1> SUFFICES ASSUME TypeInv, LockInv, [Next]_vars PROVE LockInv'
  BY NextTyped DEF RowsInv
<1>1. ASSUME NEW p \in Servers, NEW c \in Commands, Submit(p, c) PROVE LockInv'
  BY <1>1, SubmitLocked
<1>2. ASSUME NEW p \in Processes, Commit(p) \/ CommitUnacknowledged(p)
      PROVE  LockInv'
  <2>1. pc[p] = "commit" /\ Write(p)
    BY <1>2 DEF Commit, CommitUnacknowledged
  <2>2. \E o \in {out[p], Undecided, Failed("LOST")} : Return(p, o)
    BY <1>2 DEF Commit, CommitUnacknowledged
  <2>3. QED
    BY <2>1, <2>2, CommitLocked
<1>3. ASSUME NEW p \in Processes, Statement(p) PROVE LockInv'
  BY <1>2, <1>3, ReadsLocked, InsertLocked, FinishLocked DEF Statement
<1>4. ASSUME NEW p \in Processes, Abort(p) PROVE LockInv'
  BY <1>4, ReturnLocked DEF Abort, tables
<1>5. ASSUME NEW e \in ExternalIds, BecomeDue(e) PROVE LockInv'
  BY <1>5, BecomeDueLocked
<1>6. ASSUME NEW r \in Resolvers, NEW e \in ExternalIds, Claim(r, e) PROVE LockInv'
  BY <1>6, ClaimLocked
<1>7. CASE UNCHANGED vars
  BY <1>7
  DEF vars, LockInv, InsertedAlone, ClaimedRow, WokenRows, RowsHeldOnce, KeysUnique,
      Inserted, HoldsRow
<1>8. QED
  BY <1>1, <1>2, <1>3, <1>4, <1>5, <1>6, <1>7 DEF Next

LEMMA RowsInvariant == Spec => []RowsInv
BY InitLocked, NextLocked, PTL DEF Spec

\* No two operations ever share an idempotency key, although both look-ups of
\* processOnce run before either insert: the unique indexes let one of two
\* uncommitted twins through (transactions.Insert).
THEOREM KeysStayUnique == Spec => []KeysUnique
<1>1. RowsInv => KeysUnique
  BY DEF RowsInv, LockInv
<1>2. QED
  BY <1>1, RowsInvariant, PTL

(* Only commits and backoffs write rows. *)
RowsKept ==
  \A e \in ExternalIds :
    /\ txs[e].status # "ABSENT" => txs'[e].cmd = txs[e].cmd
    /\ txs[e].status \in Terminal => txs'[e] = txs[e]

LEMMA NextKeepsRows ==
  ASSUME RowsInv, [Next]_vars
  PROVE  RowsKept
<1>1. CASE txs' = txs
  BY <1>1 DEF RowsKept
<1>2. ASSUME NEW p \in Processes, pc[p] = "commit", Write(p) PROVE RowsKept
  BY <1>2, RowsWritten DEF RowsKept, RowsInv
<1>3. ASSUME NEW e \in ExternalIds, BecomeDue(e) PROVE RowsKept
  BY <1>3, BecomeDueLocked DEF RowsKept, RowsInv
<1>4. ASSUME NEW p \in Processes, Statement(p) \/ Abort(p) \/ CommitUnacknowledged(p)
      PROVE  txs' = txs \/ (pc[p] = "commit" /\ Write(p))
  <2>1. CASE Commit(p) \/ CommitUnacknowledged(p)
    BY <2>1 DEF Commit, CommitUnacknowledged
  <2>2. CASE LookupExternal(p) \/ LookupKey(p) \/ Insert(p) \/ Finish(p) \/ Abort(p)
    BY <2>2 DEF LookupExternal, LookupKey, Insert, Finish, Abort, tables
  <2>3. CASE LoadWallet(p) \/ ResolveReference(p) \/ FindReversal(p)
             \/ FindCrossReversal(p) \/ Move(p)
    BY <2>3 DEF LoadWallet, ResolveReference, FindReversal, FindCrossReversal, Move,
                RefusedReversal, Decide, tables
  <2>4. QED
    BY <1>4, <2>1, <2>2, <2>3 DEF Statement
<1>5. ASSUME NEW p \in Servers, NEW c \in Commands, Submit(p, c) PROVE txs' = txs
  BY <1>5 DEF Submit, tables
<1>6. ASSUME NEW r \in Resolvers, NEW e \in ExternalIds, Claim(r, e) PROVE txs' = txs
  BY <1>6 DEF Claim, tables
<1>7. CASE UNCHANGED vars
  BY <1>1, <1>7 DEF vars
<1>8. QED
  BY <1>1, <1>2, <1>3, <1>4, <1>5, <1>6, <1>7 DEF Next

\* A row that is PROCESSED or REJECTED is never written again, and a row keeps
\* its command: wake-ups and claims meet rows that still wait (Update,
\* WakeDependents, ClaimOne).
THEOREM TerminalStays == Spec => TerminalIsFinal
<1>1. RowsInv /\ [Next]_vars =>
        [\A e \in ExternalIds :
           /\ txs[e].status # "ABSENT" => txs'[e].cmd = txs[e].cmd
           /\ txs[e].status \in Terminal => txs'[e] = txs[e]]_txs
  BY NextKeepsRows DEF RowsKept
<1>2. QED
  BY <1>1, RowsInvariant, PTL DEF Spec, TerminalIsFinal

-----------------------------------------------------------------------------
(***************************************************************************)
(* The ledger of every wallet is a chain that ends at the stored balance,   *)
(* for every value of the constants of WagerService.  A snapshot whose      *)
(* version is still the stored one is the stored wallet, at most one        *)
(* transaction has updated a wallet and not committed, and the reference    *)
(* that decides the direction of a movement is settled for good.            *)
(***************************************************************************)

SnapHonest(p) ==
  pc[p] \in AfterWallet =>
    /\ snap[p].version <= wallets[cmd[p].wallet].version
    /\ snap[p].version = wallets[cmd[p].wallet].version
         => snap[p].balance = wallets[cmd[p].wallet].balance

MovementRight(p) ==
  HoldsWallet(p) =>
    /\ snap[p].version = wallets[cmd[p].wallet].version
    /\ out[p].balance = BalanceAfter(snap[p].balance, cmd[p].amount, Debit(cmd[p]))

ReferenceSettled(p) ==
  (pc[p] \in {"reversal", "cross", "move"} \/ HoldsWallet(p)) /\ cmd[p].ref # NoRef
    => txs[cmd[p].ref].status = "PROCESSED"

Fine(p) == SnapHonest(p) /\ MovementRight(p) /\ ReferenceSettled(p)

WalletsHeldOnce ==
  \A p, q \in Processes :
    (p # q /\ HoldsWallet(p) /\ HoldsWallet(q)) => cmd[p].wallet # cmd[q].wallet

WalletInv == (\A p \in Processes : Fine(p)) /\ WalletsHeldOnce /\ LedgerChain

Others(p) ==
  \A q \in Processes : q # p =>
    pc'[q] = pc[q] /\ cmd'[q] = cmd[q] /\ snap'[q] = snap[q] /\ out'[q] = out[q]

-----------------------------------------------------------------------------
(* Steps that leave the tables alone.                                       *)

LEMMA StepFine ==
  ASSUME WalletInv, NEW p \in Processes, UNCHANGED tables, Others(p), Fine(p)',
         HoldsWallet(p)' =>
           \A q \in Processes : q # p /\ HoldsWallet(q) => cmd[q].wallet # cmd'[p].wallet
  PROVE  WalletInv'
<1>1. UNCHANGED <<wallets, txs, ledger>>
  BY DEF tables
<1>2. \A q \in Processes : q # p => HoldsWallet(q)' = HoldsWallet(q)
  BY DEF Others, HoldsWallet
<1>3. ASSUME NEW q \in Processes, q # p PROVE Fine(q)'
  <2>1. Debit(cmd[q])' = Debit(cmd[q])
    BY <1>1, <1>3 DEF Others, Debit
  <2>2. Fine(q)
    BY DEF WalletInv
  <2>3. pc'[q] = pc[q] /\ cmd'[q] = cmd[q] /\ snap'[q] = snap[q] /\ out'[q] = out[q]
    BY <1>3 DEF Others
  <2>4. SnapHonest(q)' /\ ReferenceSettled(q)'
    BY <1>1, <1>2, <1>3, <2>2, <2>3 DEF Fine, SnapHonest, ReferenceSettled
  <2>5. MovementRight(q)'
    BY <1>1, <1>2, <1>3, <2>1, <2>2, <2>3 DEF Fine, MovementRight
  <2>6. QED
    BY <2>4, <2>5 DEF Fine
<1>4. WalletsHeldOnce'
  BY <1>2 DEF WalletInv, WalletsHeldOnce, Others
<1>5. LedgerChain'
  BY <1>1 DEF WalletInv, LedgerChain
<1>6. QED
  BY <1>3, <1>4, <1>5 DEF WalletInv

(* Before the wallet is read there is nothing to be wrong about. *)
LEMMA EarlyFine ==
  ASSUME WalletInv, NEW p \in Processes, UNCHANGED tables, Others(p),
         pc'[p] \notin AfterWallet
  PROVE  WalletInv'
<1>1. ~HoldsWallet(p)'
  BY DEF HoldsWallet, AfterWallet
<1>2. Fine(p)'
  BY <1>1 DEF Fine, SnapHonest, MovementRight, ReferenceSettled, AfterWallet
<1>3. QED
  BY <1>1, <1>2, StepFine

LEMMA ReturnFine ==
  ASSUME TypeInv, WalletInv, NEW p \in Processes, NEW o, Return(p, o), UNCHANGED tables
  PROVE  WalletInv'
<1>1. Others(p) /\ pc'[p] = "idle"
  BY DEF Return, Goto, Others, TypeInv, TypeOK
<1>2. QED
  BY <1>1, EarlyFine DEF AfterWallet

LEMMA RetryFine ==
  ASSUME TypeInv, WalletInv, NEW p \in Processes, Retry(p), UNCHANGED tables
  PROVE  WalletInv'
<1>1. CASE Return(p, Failed("WALLET_VERSION_CONFLICT"))
  BY <1>1, ReturnFine
<1>2. CASE /\ Goto(p, IF p \in Servers THEN "external" ELSE "wallet")
           /\ out' = [out EXCEPT ![p] = Undecided]
           /\ snap' = [snap EXCEPT ![p] = NoSnap]
           /\ UNCHANGED cmd
  <2>1. Others(p) /\ pc'[p] \in {"external", "wallet"}
    BY <1>2 DEF Goto, Others, TypeInv, TypeOK
  <2>2. QED
    BY <2>1, EarlyFine DEF AfterWallet
<1>3. QED
  BY <1>1, <1>2 DEF Retry

(* A decision without a movement, on an honest snapshot. *)
LEMMA DecideFine ==
  ASSUME TypeInv, WalletInv, NEW p \in Processes, NEW o, Decide(p, o), ~o.moves,
         UNCHANGED snap, pc[p] \in AfterWallet
  PROVE  WalletInv'
<1>1. Others(p) /\ UNCHANGED tables
  BY DEF Decide, Goto, Others, TypeInv, TypeOK
<1>2. pc'[p] = "finish" /\ out'[p] = o /\ cmd'[p] = cmd[p] /\ snap'[p] = snap[p]
  BY DEF Decide, Goto, TypeInv, TypeOK
<1>3. ~HoldsWallet(p)'
  BY <1>2 DEF HoldsWallet
<1>4. SnapHonest(p)
  BY DEF WalletInv, Fine
<1>5. SnapHonest(p)'
  BY <1>1, <1>2, <1>4 DEF SnapHonest, tables
<1>6. Fine(p)'
  BY <1>2, <1>3, <1>5 DEF Fine, MovementRight, ReferenceSettled
<1>7. QED
  BY <1>1, <1>3, <1>6, StepFine

(* A step to the next statement, with the reference settled where it must be. *)
LEMMA GoOnFine ==
  ASSUME TypeInv, WalletInv, NEW p \in Processes,
         NEW label \in {"reversal", "cross", "move"}, Goto(p, label),
         UNCHANGED <<tables, cmd, snap, out>>, pc[p] \in AfterWallet,
         cmd[p].ref # NoRef => txs[cmd[p].ref].status = "PROCESSED"
  PROVE  WalletInv'
<1>1. Others(p) /\ pc'[p] = label
  BY DEF Goto, Others, TypeInv, TypeOK
<1>2. ~HoldsWallet(p)'
  BY <1>1 DEF HoldsWallet
<1>3. SnapHonest(p)
  BY DEF WalletInv, Fine
<1>4. SnapHonest(p)'
  BY <1>1, <1>3 DEF SnapHonest, tables
<1>5. ReferenceSettled(p)'
  BY DEF ReferenceSettled, tables
<1>6. Fine(p)'
  BY <1>2, <1>4, <1>5 DEF Fine, MovementRight
<1>7. QED
  BY <1>1, <1>2, <1>6, StepFine

LEMMA BeginFine ==
  ASSUME TypeInv, WalletInv, NEW p \in Processes,
         \/ \E c \in Commands : Submit(p, c)
         \/ \E e \in ExternalIds : Claim(p, e)
         \/ LookupExternal(p) \/ LookupKey(p) \/ Insert(p)
  PROVE  WalletInv'
<1>1. UNCHANGED tables
  BY DEF Submit, Claim, LookupExternal, LookupKey, Insert, tables
<1>2. ASSUME NEW c, Submit(p, c) PROVE WalletInv'
  <2>1. Others(p) /\ pc'[p] = "external"
    BY <1>2 DEF Submit, Goto, Others, TypeInv, TypeOK
  <2>2. QED
    BY <1>1, <2>1, EarlyFine DEF AfterWallet
<1>3. ASSUME NEW e, Claim(p, e) PROVE WalletInv'
  <2>1. Others(p) /\ pc'[p] = "wallet"
    BY <1>3 DEF Claim, Goto, Others, TypeInv, TypeOK
  <2>2. QED
    BY <1>1, <2>1, EarlyFine DEF AfterWallet
<1>4. CASE LookupExternal(p) \/ LookupKey(p) \/ Insert(p)
  <2>1. \/ \E label \in {"key", "insert", "wallet"} :
             Goto(p, label) /\ UNCHANGED <<cmd, snap, out>>
        \/ \E o \in {Failed("INTERNAL")}
                    \cup {Replay(cmd[p], txs[e]) : e \in ExternalIds \cup {cmd[p].ext}} :
             Return(p, o)
        \/ Retry(p)
    BY <1>4 DEF LookupExternal, LookupKey, KeyHolders, Insert
  <2>2. ASSUME NEW label \in {"key", "insert", "wallet"}, Goto(p, label),
               UNCHANGED <<cmd, snap, out>>
        PROVE  WalletInv'
    <3>1. Others(p) /\ pc'[p] = label
      BY <2>2 DEF Goto, Others, TypeInv, TypeOK
    <3>2. QED
      BY <1>1, <3>1, EarlyFine DEF AfterWallet
  <2>3. QED
    BY <1>1, <2>1, <2>2, ReturnFine, RetryFine
<1>5. QED
  BY <1>2, <1>3, <1>4

(* GetByID: the snapshot is the stored wallet. *)
LEMMA LoadWalletFine ==
  ASSUME TypeInv, WalletInv, NEW p \in Processes, LoadWallet(p)
  PROVE  WalletInv'
<1>1. /\ cmd[p].wallet \in Wallets
      /\ wallets[cmd[p].wallet].version \in Nat
  <2>1. cmd[p].wallet \in Wallets
    BY DEF LoadWallet, TypeInv, ProcessShape
  <2>2. QED
    BY <2>1 DEF TypeInv, TypeOK, Wallet
<1>2. UNCHANGED tables /\ UNCHANGED cmd
  BY DEF LoadWallet, Decide, tables
<1>3. snap'[p] = wallets[cmd[p].wallet]
  BY DEF LoadWallet, TypeInv, TypeOK
<1>4. /\ pc'[p] \in {"finish", "move", "reference"}
      /\ pc'[p] = "finish" => ~out'[p].moves
      /\ pc'[p] = "move" => cmd[p].ref = NoRef
      /\ Others(p)
  <2>1. ASSUME NEW code, NEW b, Decide(p, Rejected(code, b))
        PROVE  pc'[p] = "finish" /\ ~out'[p].moves /\ Others(p)
    BY <2>1 DEF LoadWallet, Decide, Goto, Rejected, Others, TypeInv, TypeOK
  <2>2. ASSUME NEW b, Decide(p, Processed(b, FALSE))
        PROVE  pc'[p] = "finish" /\ ~out'[p].moves /\ Others(p)
    BY <2>2 DEF LoadWallet, Decide, Goto, Processed, Others, TypeInv, TypeOK
  <2>3. ASSUME Goto(p, IF cmd[p].ref = NoRef THEN "move" ELSE "reference"),
               UNCHANGED <<cmd, out>>
        PROVE  /\ pc'[p] \in {"move", "reference"}
               /\ pc'[p] = "move" => cmd[p].ref = NoRef
               /\ Others(p)
    BY <2>3 DEF LoadWallet, Goto, Others, TypeInv, TypeOK
  <2>4. QED
    BY <2>1, <2>2, <2>3 DEF LoadWallet
<1>5. ~HoldsWallet(p)'
  BY <1>4 DEF HoldsWallet
<1>6. Fine(p)'
  BY <1>1, <1>2, <1>3, <1>4, <1>5
  DEF Fine, SnapHonest, MovementRight, ReferenceSettled, tables
<1>7. QED
  BY <1>2, <1>4, <1>5, <1>6, StepFine

(* resolveReference: what goes on has found a processed reference. *)
LEMMA ReferenceFine ==
  ASSUME TypeInv, WalletInv, NEW p \in Processes,
         ResolveReference(p) \/ FindReversal(p) \/ FindCrossReversal(p)
  PROVE  WalletInv'
<1>1. /\ pc[p] \in {"reference", "reversal", "cross"} /\ UNCHANGED snap
      /\ pc[p] \in AfterWallet
  BY DEF ResolveReference, FindReversal, FindCrossReversal, AfterWallet
<1>2. ASSUME NEW code, NEW b, Decide(p, Rejected(code, b)) PROVE WalletInv'
  BY <1>1, <1>2, DecideFine DEF Rejected
<1>3. ASSUME Decide(p, Parked) PROVE WalletInv'
  BY <1>1, <1>3, DecideFine DEF Parked
<1>4. ReferenceSettled(p)
  BY DEF WalletInv, Fine
<1>5. CASE ResolveReference(p)
  <2>1. ASSUME ReferenceFault(cmd[p], txs[cmd[p].ref]) = NoCode
        PROVE  txs[cmd[p].ref].status = "PROCESSED"
    BY <2>1 DEF ReferenceFault, NoCode
  <2>2. CASE /\ ReferenceFault(cmd[p], txs[cmd[p].ref]) = NoCode
             /\ Goto(p, "reversal")
             /\ UNCHANGED <<tables, cmd, tries, out, woken>>
    BY <1>1, <2>1, <2>2, GoOnFine
  <2>3. QED
    BY <1>2, <1>3, <1>5, <2>2 DEF ResolveReference
<1>6. CASE FindReversal(p)
  BY <1>1, <1>2, <1>4, <1>6, GoOnFine DEF FindReversal, RefusedReversal, ReferenceSettled
<1>7. CASE FindCrossReversal(p)
  BY <1>1, <1>2, <1>4, <1>7, GoOnFine
  DEF FindCrossReversal, RefusedReversal, ReferenceSettled
<1>8. QED
  BY <1>5, <1>6, <1>7

(* UpdateBalance: its version predicate and the row lock. *)
LEMMA MoveFine ==
  ASSUME TypeInv, WalletInv, NEW p \in Processes, Move(p)
  PROVE  WalletInv'
<1> DEFINE after == BalanceAfter(snap[p].balance, cmd[p].amount, Debit(cmd[p]))
<1>1. pc[p] = "move" /\ pc[p] \in AfterWallet
  BY DEF Move, AfterWallet
<1>2. ASSUME NEW code, Decide(p, Rejected(code, snap[p].balance)), UNCHANGED snap
      PROVE  WalletInv'
  BY <1>1, <1>2, DecideFine DEF Rejected
<1>3. CASE Return(p, Failed("MONEY_OVERFLOW")) /\ UNCHANGED tables
  BY <1>3, ReturnFine
<1>4. CASE Retry(p) /\ UNCHANGED tables
  BY <1>4, RetryFine
<1>5. CASE SameVersion(p) /\ WalletFree(p) /\ UNCHANGED snap
           /\ Decide(p, Processed(after, TRUE))
  <2>1. Others(p) /\ UNCHANGED tables
    BY <1>5 DEF Decide, Goto, Others, TypeInv, TypeOK
  <2>2. /\ pc'[p] = "finish" /\ out'[p] = Processed(after, TRUE)
        /\ cmd'[p] = cmd[p] /\ snap'[p] = snap[p]
    BY <1>5 DEF Decide, Goto, TypeInv, TypeOK
  <2>3. SnapHonest(p) /\ ReferenceSettled(p)
    BY DEF WalletInv, Fine
  <2>4. SnapHonest(p)'
    BY <1>1, <2>1, <2>2, <2>3 DEF SnapHonest, tables
  <2>5. ReferenceSettled(p)'
    BY <1>1, <2>1, <2>2, <2>3 DEF ReferenceSettled, tables
  <2>6. out'[p].balance = after
    BY <2>2 DEF Processed
  <2>7. Debit(cmd[p])' = Debit(cmd[p])
    BY <2>1, <2>2 DEF Debit, tables
  <2>8. MovementRight(p)'
    BY <1>5, <2>1, <2>2, <2>6, <2>7 DEF MovementRight, SameVersion, tables
  <2>9. \A q \in Processes : q # p /\ HoldsWallet(q) => cmd[q].wallet # cmd'[p].wallet
    BY <1>5, <2>2 DEF WalletFree
  <2>10. QED
    BY <2>1, <2>4, <2>5, <2>8, <2>9, StepFine DEF Fine
<1>6. QED
  BY <1>2, <1>3, <1>4, <1>5 DEF Move

LEMMA FinishFine ==
  ASSUME TypeInv, WalletInv, NEW p \in Processes, Finish(p)
  PROVE  WalletInv'
<1>1. pc[p] = "finish" /\ UNCHANGED tables
  BY DEF Finish
<1>2. CASE Retry(p)
  BY <1>1, <1>2, RetryFine
<1>3. CASE Goto(p, "commit") /\ UNCHANGED <<cmd, snap, out>>
  <2>1. Others(p) /\ pc'[p] = "commit"
    BY <1>3 DEF Goto, Others, TypeInv, TypeOK
  <2>2. HoldsWallet(p)' = HoldsWallet(p)
    BY <1>1, <1>3, <2>1 DEF HoldsWallet
  <2>3. Fine(p)
    BY DEF WalletInv
  <2>4. Debit(cmd[p])' = Debit(cmd[p])
    BY <1>1, <1>3 DEF Debit, tables
  <2>5. SnapHonest(p)' /\ ReferenceSettled(p)'
    BY <1>1, <1>3, <2>1, <2>2, <2>3
    DEF Fine, SnapHonest, ReferenceSettled, tables, AfterWallet
  <2>6. MovementRight(p)'
    BY <1>1, <1>3, <2>2, <2>3, <2>4 DEF Fine, MovementRight, tables
  <2>7. QED
    BY <1>1, <1>3, <2>1, <2>2, <2>5, <2>6, StepFine DEF Fine, WalletInv, WalletsHeldOnce
<1>4. QED
  BY <1>2, <1>3 DEF Finish

-----------------------------------------------------------------------------
(* Steps that write rows.                                                   *)

(* Processes that do not move keep what is fine about them when rows change
   and other transactions' movements commit. *)
LEMMA OthersFine ==
  ASSUME TypeInv, NEW q \in Processes, Fine(q), RowsKept,
         pc'[q] = pc[q], cmd'[q] = cmd[q], snap'[q] = snap[q], out'[q] = out[q],
         pc[q] \in AfterWallet =>
           \/ wallets'[cmd[q].wallet] = wallets[cmd[q].wallet]
           \/ /\ ~HoldsWallet(q)
              /\ wallets'[cmd[q].wallet].version = wallets[cmd[q].wallet].version + 1
  PROVE  Fine(q)'
<1>1. HoldsWallet(q)' = HoldsWallet(q) /\ (HoldsWallet(q) => pc[q] \in AfterWallet)
  BY DEF HoldsWallet, AfterWallet
<1>2. pc[q] \in AfterWallet => cmd[q] \in Commands /\ cmd[q].wallet \in Wallets
  BY DEF TypeInv, ProcessShape, AfterWallet
<1>3. ReferenceSettled(q)'
  <2> SUFFICES ASSUME pc[q] \in {"reversal", "cross", "move"} \/ HoldsWallet(q),
                      cmd[q].ref # NoRef
               PROVE  txs'[cmd[q].ref].status = "PROCESSED"
    BY <1>1 DEF ReferenceSettled
  <2>1. cmd[q].ref \in ExternalIds /\ txs[cmd[q].ref].status = "PROCESSED"
    BY <1>1, <1>2, CommandFacts DEF Fine, ReferenceSettled, AfterWallet
  <2>2. QED
    BY <2>1 DEF RowsKept, Terminal
<1>4. ASSUME HoldsWallet(q) PROVE Debit(cmd[q])' = Debit(cmd[q])
  <2>1. CASE cmd[q].ref = NoRef
    BY <2>1 DEF Debit
  <2>2. CASE cmd[q].ref # NoRef
    <3>1. cmd[q].ref \in ExternalIds /\ txs[cmd[q].ref].status = "PROCESSED"
      BY <1>1, <1>2, <1>4, <2>2, CommandFacts DEF Fine, ReferenceSettled
    <3>2. txs'[cmd[q].ref].cmd = txs[cmd[q].ref].cmd
      BY <3>1 DEF RowsKept
    <3>3. QED
      BY <2>2, <3>2 DEF Debit
  <2>3. QED
    BY <2>1, <2>2
<1>5. MovementRight(q)'
  BY <1>1, <1>4 DEF Fine, MovementRight
<1>6. SnapHonest(q)'
  <2> SUFFICES ASSUME pc[q] \in AfterWallet
               PROVE  /\ snap[q].version <= wallets'[cmd[q].wallet].version
                      /\ snap[q].version = wallets'[cmd[q].wallet].version
                           => snap[q].balance = wallets'[cmd[q].wallet].balance
    BY DEF SnapHonest
  <2>1. snap[q].version \in Nat /\ wallets[cmd[q].wallet].version \in Nat
    BY <1>2 DEF TypeInv, TypeOK, Wallet
  <2>2. QED
    BY <2>1 DEF Fine, SnapHonest
<1>7. QED
  BY <1>3, <1>5, <1>6 DEF Fine

(* One movement extends the chain of its wallet. *)
LEMMA ChainExtended ==
  ASSUME TypeInv, WalletInv, NEW p \in Processes, pc[p] = "commit", out[p].moves,
         Write(p)
  PROVE  LedgerChain'
<1> DEFINE w == cmd[p].wallet
           m == MovementEntry(p)
           old == ledger[w]
           new == ledger'[w]
<1>1. w \in Wallets
  BY DEF TypeInv, ProcessShape, AfterWallet
<1>2. /\ snap[p].version = wallets[w].version
      /\ snap[p].balance = wallets[w].balance
      /\ out[p].balance = BalanceAfter(snap[p].balance, cmd[p].amount, Debit(cmd[p]))
  BY DEF WalletInv, Fine, SnapHonest, MovementRight, HoldsWallet, AfterWallet
<1>3. /\ m.before = wallets[w].balance
      /\ m.after = out[p].balance
      /\ m.after = BalanceAfter(m.before, m.amount, m.debit)
  BY <1>2 DEF MovementEntry
<1>4. old \in Seq(Entry) /\ m \in Entry
  BY <1>1, WrittenTypes DEF TypeInv, TypeOK
<1>5. new = Append(old, m)
  BY <1>1 DEF Write, TypeInv, TypeOK
<1>6. /\ wallets'[w].balance = out[p].balance
      /\ wallets'[w].version = wallets[w].version + 1
  <2>1. wallets'[w] = [balance |-> out[p].balance, version |-> wallets[w].version + 1]
    BY <1>1 DEF Write, TypeInv, TypeOK
  <2>2. QED
    BY <2>1
<1> HIDE DEF m, old, new, w
<1>7. /\ Len(old) \in Nat /\ Len(new) = Len(old) + 1
      /\ \A i \in 1..Len(old) : new[i] = old[i]
      /\ new[Len(old) + 1] = m
      /\ (old = <<>>) <=> (Len(old) = 0)
      /\ new # <<>>
  BY <1>4, <1>5
<1>8. /\ \A i \in 1..Len(old) :
           /\ old[i].before = IF i = 1 THEN 0 ELSE old[i - 1].after
           /\ old[i].after = BalanceAfter(old[i].before, old[i].amount, old[i].debit)
      /\ wallets[w].balance = IF old = <<>> THEN 0 ELSE old[Len(old)].after
      /\ wallets[w].version = 1 + Len(old) - (IF Opening[w] > 0 THEN 1 ELSE 0)
  BY <1>1 DEF WalletInv, LedgerChain, old
<1>9. ASSUME NEW i \in 1..Len(new)
      PROVE  /\ new[i].before = IF i = 1 THEN 0 ELSE new[i - 1].after
             /\ new[i].after = BalanceAfter(new[i].before, new[i].amount, new[i].debit)
  <2>1. CASE i \in 1..Len(old)
    <3>1. new[i] = old[i] /\ (i # 1 => new[i - 1] = old[i - 1])
      BY <1>7, <2>1
    <3>2. QED
      BY <1>8, <2>1, <3>1
  <2>2. CASE i = Len(old) + 1
    <3>1. new[i] = m /\ (i # 1 => new[i - 1] = old[Len(old)])
      BY <1>7, <2>2
    <3>2. m.before = IF i = 1 THEN 0 ELSE old[Len(old)].after
      BY <1>3, <1>7, <1>8, <2>2
    <3>3. QED
      BY <1>3, <3>1, <3>2
  <2>3. QED
    BY <1>7, <2>1, <2>2
<1>10. /\ wallets'[w].balance = IF new = <<>> THEN 0 ELSE new[Len(new)].after
       /\ wallets'[w].version = 1 + Len(new) - (IF Opening[w] > 0 THEN 1 ELSE 0)
  <2>1. wallets'[w].balance = new[Len(new)].after
    BY <1>3, <1>6, <1>7
  <2>2. (IF Opening[w] > 0 THEN 1 ELSE 0) \in {0, 1}
    OBVIOUS
  <2>3. wallets'[w].version = 1 + Len(new) - (IF Opening[w] > 0 THEN 1 ELSE 0)
    BY <1>6, <1>7, <1>8, <2>2
  <2>4. QED
    BY <1>7, <2>1, <2>3
<1>11. ASSUME NEW v \in Wallets, v # w
       PROVE  wallets'[v] = wallets[v] /\ ledger'[v] = ledger[v]
  BY <1>1, <1>11 DEF Write, TypeInv, TypeOK, w
<1>12. SUFFICES ASSUME NEW v \in Wallets
       PROVE  LET entries == ledger'[v]
                  opened  == IF Opening[v] > 0 THEN 1 ELSE 0 IN
              /\ \A i \in 1..Len(entries) :
                   /\ entries[i].before = IF i = 1 THEN 0 ELSE entries[i - 1].after
                   /\ entries[i].after = BalanceAfter(entries[i].before,
                                             entries[i].amount, entries[i].debit)
              /\ wallets'[v].balance = IF entries = <<>> THEN 0
                                       ELSE entries[Len(entries)].after
              /\ wallets'[v].version = 1 + Len(entries) - opened
  BY DEF LedgerChain
<1>13. CASE v = w
  <2>1. ledger'[v] = new
    BY <1>13 DEF new
  <2>2. /\ wallets'[v].balance = IF new = <<>> THEN 0 ELSE new[Len(new)].after
        /\ wallets'[v].version = 1 + Len(new) - (IF Opening[v] > 0 THEN 1 ELSE 0)
    BY <1>10, <1>13
  <2>3. QED
    BY <1>9, <2>1, <2>2
<1>14. CASE v # w
  <2>1. wallets'[v] = wallets[v] /\ ledger'[v] = ledger[v]
    BY <1>11, <1>14
  <2>2. /\ \A i \in 1..Len(ledger[v]) :
             /\ ledger[v][i].before = IF i = 1 THEN 0 ELSE ledger[v][i - 1].after
             /\ ledger[v][i].after = BalanceAfter(ledger[v][i].before,
                                        ledger[v][i].amount, ledger[v][i].debit)
        /\ wallets[v].balance = IF ledger[v] = <<>> THEN 0
                                ELSE ledger[v][Len(ledger[v])].after
        /\ wallets[v].version = 1 + Len(ledger[v])
                                  - (IF Opening[v] > 0 THEN 1 ELSE 0)
    BY DEF LedgerChain, WalletInv
  <2>3. QED
    BY <2>1, <2>2
<1>15. QED
  BY <1>13, <1>14

LEMMA CommitFine ==
  ASSUME RowsInv, WalletInv, NEW p \in Processes, NEW o, pc[p] = "commit", Write(p),
         Return(p, o), RowsKept
  PROVE  WalletInv'
<1>1. TypeInv
  BY DEF RowsInv
<1>2. Others(p) /\ pc'[p] = "idle"
  BY <1>1 DEF Return, Goto, Others, TypeInv, TypeOK
<1>3. ~HoldsWallet(p)' /\ Fine(p)'
  BY <1>2 DEF HoldsWallet, Fine, SnapHonest, MovementRight, ReferenceSettled, AfterWallet
<1>4. \A q \in Processes : q # p => HoldsWallet(q)' = HoldsWallet(q)
  BY <1>2 DEF Others, HoldsWallet
<1>5. WalletsHeldOnce'
  BY <1>2, <1>3, <1>4 DEF WalletInv, WalletsHeldOnce, Others
<1>6. cmd[p].wallet \in Wallets
  BY <1>1 DEF TypeInv, ProcessShape, AfterWallet
<1>7. ASSUME NEW q \in Processes, q # p PROVE Fine(q)'
  <2>1. pc[q] \in AfterWallet => cmd[q].wallet \in Wallets
    BY <1>1 DEF TypeInv, ProcessShape, AfterWallet
  <2>2. CASE ~out[p].moves
    <3>1. wallets' = wallets
      BY <2>2 DEF Write
    <3>2. QED
      BY <1>1, <1>2, <1>7, <3>1, OthersFine DEF Others, WalletInv
  <2>3. CASE out[p].moves /\ cmd[q].wallet # cmd[p].wallet
    <3>1. pc[q] \in AfterWallet => wallets'[cmd[q].wallet] = wallets[cmd[q].wallet]
      BY <1>1, <1>6, <2>1, <2>3 DEF Write, TypeInv, TypeOK
    <3>2. QED
      BY <1>1, <1>2, <1>7, <3>1, OthersFine DEF Others, WalletInv
  <2>4. CASE out[p].moves /\ cmd[q].wallet = cmd[p].wallet
    <3>1. wallets'[cmd[p].wallet] = [balance |-> out[p].balance,
                                     version |-> wallets[cmd[p].wallet].version + 1]
      BY <1>1, <1>6, <2>4 DEF Write, TypeInv, TypeOK
    <3>2. wallets'[cmd[q].wallet].version = wallets[cmd[q].wallet].version + 1
      BY <2>4, <3>1
    <3>3. ~HoldsWallet(q)
      BY <1>7, <2>4 DEF WalletInv, WalletsHeldOnce, HoldsWallet
    <3>4. QED
      BY <1>1, <1>2, <1>7, <3>2, <3>3, OthersFine DEF Others, WalletInv
  <2>5. QED
    BY <2>2, <2>3, <2>4
<1>8. LedgerChain'
  <2>1. CASE out[p].moves
    BY <1>1, <2>1, ChainExtended
  <2>2. CASE ~out[p].moves
    <3>1. wallets' = wallets /\ ledger' = ledger
      BY <2>2 DEF Write
    <3>2. QED
      BY <3>1 DEF WalletInv, LedgerChain
  <2>3. QED
    BY <2>1, <2>2
<1>9. QED
  BY <1>3, <1>5, <1>7, <1>8 DEF WalletInv

LEMMA BecomeDueFine ==
  ASSUME RowsInv, WalletInv, NEW e \in ExternalIds, BecomeDue(e), RowsKept
  PROVE  WalletInv'
<1>1. UNCHANGED <<wallets, ledger, pc, cmd, snap, out>>
  BY DEF BecomeDue, local
<1>2. \A q \in Processes : Fine(q)'
  BY <1>1, OthersFine DEF WalletInv, RowsInv
<1>3. WalletsHeldOnce' /\ LedgerChain'
  BY <1>1 DEF WalletInv, WalletsHeldOnce, HoldsWallet, LedgerChain
<1>4. QED
  BY <1>2, <1>3 DEF WalletInv

-----------------------------------------------------------------------------
(* The ledger is a chain.                                                   *)

LEMMA InitFine == Init => WalletInv
<1> SUFFICES ASSUME Init PROVE WalletInv
  OBVIOUS
<1>1. \A p \in Processes : pc[p] = "idle"
  BY DEF Init, StartUp
<1>2. \A p \in Processes : ~HoldsWallet(p) /\ Fine(p)
  BY <1>1
  DEF HoldsWallet, Fine, SnapHonest, MovementRight, ReferenceSettled, AfterWallet
<1>3. ASSUME NEW w \in Wallets
      PROVE  LET entries == ledger[w]
                 opened  == IF Opening[w] > 0 THEN 1 ELSE 0 IN
             /\ \A i \in 1..Len(entries) :
                  /\ entries[i].before = IF i = 1 THEN 0 ELSE entries[i - 1].after
                  /\ entries[i].after = BalanceAfter(entries[i].before,
                                            entries[i].amount, entries[i].debit)
             /\ wallets[w].balance = IF entries = <<>> THEN 0
                                     ELSE entries[Len(entries)].after
             /\ wallets[w].version = 1 + Len(entries) - opened
  <2>1. Opening[w] \in Nat /\ wallets[w].balance = Opening[w] /\ wallets[w].version = 1
    BY WalletsAssumption DEF Init, StartUp
  <2>2. CASE Opening[w] > 0
    <3>1. ledger[w] = <<OpeningEntry(w)>>
      BY <2>2 DEF Init, StartUp
    <3>2. /\ OpeningEntry(w).before = 0 /\ OpeningEntry(w).after = Opening[w]
          /\ OpeningEntry(w).amount = Opening[w] /\ OpeningEntry(w).debit = FALSE
      BY DEF OpeningEntry
    <3>3. QED
      BY <2>1, <2>2, <3>1, <3>2 DEF BalanceAfter
  <2>3. CASE ~(Opening[w] > 0)
    <3>1. ledger[w] = <<>> /\ Opening[w] = 0
      BY <2>1, <2>3 DEF Init, StartUp
    <3>2. QED
      BY <2>1, <3>1
  <2>4. QED
    BY <2>2, <2>3
<1>4. LedgerChain
  BY <1>3 DEF LedgerChain
<1>5. QED
  BY <1>2, <1>4 DEF WalletInv, WalletsHeldOnce

LEMMA NextFine == RowsInv /\ WalletInv /\ [Next]_vars => WalletInv'
<1> SUFFICES ASSUME RowsInv, WalletInv, [Next]_vars PROVE WalletInv'
  OBVIOUS
<1>1. TypeInv /\ RowsKept
  BY NextKeepsRows DEF RowsInv
<1>2. ASSUME NEW p \in Processes, Commit(p) \/ CommitUnacknowledged(p)
      PROVE  WalletInv'
  <2>1. pc[p] = "commit" /\ Write(p)
    BY <1>2 DEF Commit, CommitUnacknowledged
  <2>2. \E o \in {out[p], Undecided, Failed("LOST")} : Return(p, o)
    BY <1>2 DEF Commit, CommitUnacknowledged
  <2>3. QED
    BY <1>1, <2>1, <2>2, CommitFine
<1>3. ASSUME NEW p \in Processes, Statement(p) PROVE WalletInv'
  BY <1>1, <1>2, <1>3, BeginFine, LoadWalletFine, ReferenceFine, MoveFine, FinishFine
  DEF Statement
<1>4. ASSUME NEW p \in Processes, Abort(p) PROVE WalletInv'
  BY <1>1, <1>4, ReturnFine DEF Abort
<1>5. ASSUME NEW e \in ExternalIds, BecomeDue(e) PROVE WalletInv'
  BY <1>1, <1>5, BecomeDueFine
<1>6. ASSUME NEW p \in Servers, NEW c \in Commands, Submit(p, c) PROVE WalletInv'
  BY <1>1, <1>6, BeginFine DEF Processes
<1>7. ASSUME NEW r \in Resolvers, NEW e \in ExternalIds, Claim(r, e) PROVE WalletInv'
  BY <1>1, <1>7, BeginFine DEF Processes
<1>8. CASE UNCHANGED vars
  <2>1. UNCHANGED <<wallets, ledger, txs, pc, cmd, snap, out>>
    BY <1>8 DEF vars
  <2>2. \A q \in Processes : Fine(q)'
    BY <1>1, <2>1, OthersFine DEF WalletInv
  <2>3. QED
    BY <2>1, <2>2 DEF WalletInv, WalletsHeldOnce, HoldsWallet, LedgerChain
<1>9. QED
  BY <1>2, <1>3, <1>4, <1>5, <1>6, <1>7, <1>8 DEF Next

\* No update of a wallet is lost and no movement is invented, however many
\* servers and resolvers race: the entries of a wallet form a chain from zero
\* to its stored balance and its version counts them (UpdateBalance).
THEOREM LedgerIsChain == Spec => []LedgerChain
<1>1. Spec => []WalletInv
  BY RowsInvariant, InitFine, NextFine, PTL DEF Spec
<1>2. WalletInv => LedgerChain
  BY DEF WalletInv
<1>3. QED
  BY <1>1, <1>2, PTL

-----------------------------------------------------------------------------
(***************************************************************************)
(* What clients are told, what the ledger books and what the outbox         *)
(* announces is what the tables hold, for every value of the constants of   *)
(* WagerService.  A transaction's outcome says whether it moves the wallet, *)
(* and its row was not terminal before, so its entry and its event are the  *)
(* first of their operation.                                                *)
(***************************************************************************)

Replied(p) ==
  p \in Servers /\ pc[p] = "idle" /\ out[p].status \in Terminal =>
    /\ cmd[p].ext \in ExternalIds
    /\ SamePayload(cmd[p], txs[cmd[p].ext].cmd)
    /\ txs[cmd[p].ext].status = out[p].status
    /\ txs[cmd[p].ext].code = out[p].code
    /\ txs[cmd[p].ext].balance = out[p].balance

(* A success moves the wallet unless it is a LOSS, nothing else does, and only
   an operation with a reference is parked. *)
OutcomeRight(p) ==
  pc[p] \in {"finish", "commit"} =>
    /\ out[p].moves <=> out[p].status = "PROCESSED" /\ cmd[p].kind # "LOSS"
    /\ out[p].status = "PENDING_REFERENCE" => cmd[p].ref # NoRef

Answer(p) == Replied(p) /\ OutcomeRight(p)

AnswerInv == \A p \in Processes : Answer(p)

-----------------------------------------------------------------------------
(* Steps that leave the tables alone.                                       *)

LEMMA UnderWayAnswers ==
  ASSUME NEW p, pc'[p] \notin {"idle", "finish", "commit"}
  PROVE  Answer(p)'
BY DEF Answer, Replied, OutcomeRight

LEMMA GotoAnswers ==
  ASSUME TypeInv, NEW p \in Processes, NEW label, Goto(p, label),
         label \notin {"idle", "finish", "commit"}
  PROVE  Answer(p)'
BY UnderWayAnswers DEF Goto, TypeInv, TypeOK

LEMMA ReturnAnswers ==
  ASSUME TypeInv, NEW p \in Processes, NEW o, Return(p, o), o.status \notin Terminal
  PROVE  Answer(p)'
<1>1. pc'[p] = "idle" /\ out'[p] = o
  BY DEF Return, Goto, TypeInv, TypeOK
<1>2. QED
  BY <1>1 DEF Answer, Replied, OutcomeRight

(* replay answers with a row of the same external identifier. *)
LEMMA ReplayAnswers ==
  ASSUME TypeInv, NEW p \in Servers, NEW e \in ExternalIds, txs[e].status # "ABSENT",
         Return(p, Replay(cmd[p], txs[e])), UNCHANGED tables
  PROVE  Answer(p)'
<1>1. p \in Processes /\ p \notin Resolvers
  BY ServiceAssumption DEF Processes
<1>2. pc'[p] = "idle" /\ out'[p] = Replay(cmd[p], txs[e]) /\ cmd'[p] = cmd[p]
  BY <1>1 DEF Return, Goto, TypeInv, TypeOK
<1>3. CASE SamePayload(cmd[p], txs[e].cmd)
  <2>1. cmd[p].ext = e
    BY <1>3 DEF SamePayload, TypeInv, RowShape
  <2>2. /\ out'[p].status = txs[e].status
        /\ out'[p].code = txs[e].code
        /\ out'[p].balance = txs[e].balance
    BY <1>2, <1>3 DEF Replay
  <2>3. QED
    BY <1>2, <1>3, <2>1, <2>2 DEF Answer, Replied, OutcomeRight, tables
<1>4. CASE ~SamePayload(cmd[p], txs[e].cmd)
  <2>1. out'[p].status = "ERROR"
    BY <1>2, <1>4 DEF Replay, Failed
  <2>2. QED
    BY <1>2, <2>1 DEF Answer, Replied, OutcomeRight, Terminal
<1>5. QED
  BY <1>3, <1>4

LEMMA RetryAnswers ==
  ASSUME TypeInv, NEW p \in Processes, Retry(p)
  PROVE  Answer(p)'
<1>1. CASE Return(p, Failed("WALLET_VERSION_CONFLICT"))
  BY <1>1, ReturnAnswers DEF Failed, Terminal
<1>2. CASE Goto(p, IF p \in Servers THEN "external" ELSE "wallet")
  BY <1>2, GotoAnswers
<1>3. QED
  BY <1>1, <1>2 DEF Retry

LEMMA DecideAnswers ==
  ASSUME TypeInv, NEW p \in Processes, NEW o, Decide(p, o),
         o.moves <=> o.status = "PROCESSED" /\ cmd[p].kind # "LOSS",
         o.status = "PENDING_REFERENCE" => cmd[p].ref # NoRef
  PROVE  Answer(p)'
<1>1. pc'[p] = "finish" /\ out'[p] = o /\ cmd'[p] = cmd[p]
  BY DEF Decide, Goto, TypeInv, TypeOK
<1>2. QED
  BY <1>1 DEF Answer, Replied, OutcomeRight

LEMMA BeginAnswers ==
  ASSUME TypeInv, NEW p \in Processes,
         \/ \E c \in Commands : Submit(p, c)
         \/ \E e \in ExternalIds : Claim(p, e)
         \/ LookupExternal(p) \/ LookupKey(p) \/ Insert(p)
  PROVE  Answer(p)'
<1>1. CASE \/ \E c \in Commands : Submit(p, c)
           \/ \E e \in ExternalIds : Claim(p, e)
  BY <1>1, GotoAnswers DEF Submit, Claim
<1>2. CASE LookupExternal(p) \/ LookupKey(p)
  <2>1. p \in Servers /\ cmd[p].ext \in ExternalIds /\ UNCHANGED tables
    BY <1>2, CommandFacts DEF TypeInv, ProcessShape, LookupExternal, LookupKey
  <2>2. \/ Goto(p, "key") \/ Goto(p, "insert")
        \/ \E e \in ExternalIds :
             txs[e].status # "ABSENT" /\ Return(p, Replay(cmd[p], txs[e]))
    BY <1>2, <2>1 DEF LookupExternal, LookupKey, KeyHolders
  <2>3. QED
    BY <2>1, <2>2, GotoAnswers, ReplayAnswers
<1>3. CASE Insert(p)
  <2>1. Failed("INTERNAL").status \notin Terminal
    BY DEF Failed, Terminal
  <2>2. QED
    BY <1>3, <2>1, GotoAnswers, ReturnAnswers, RetryAnswers DEF Insert
<1>4. QED
  BY <1>1, <1>2, <1>3

(* applyOperation decides with the outcome its kind calls for. *)
LEMMA ApplyAnswers ==
  ASSUME TypeInv, NEW p \in Processes,
         \/ LoadWallet(p) \/ ResolveReference(p) \/ FindReversal(p)
         \/ FindCrossReversal(p) \/ Move(p)
  PROVE  Answer(p)'
<1>1. ASSUME NEW code, NEW b, Decide(p, Rejected(code, b)) PROVE Answer(p)'
  BY <1>1, DecideAnswers DEF Rejected
<1>2. CASE LoadWallet(p)
  <2>1. ASSUME NEW b, cmd[p].kind = "LOSS", Decide(p, Processed(b, FALSE))
        PROVE  Answer(p)'
    BY <2>1, DecideAnswers DEF Processed
  <2>2. QED
    BY <1>1, <1>2, <2>1, GotoAnswers DEF LoadWallet
<1>3. CASE ResolveReference(p)
  <2>1. cmd[p].ref # NoRef
    BY <1>3, WalletsAssumption DEF ResolveReference, TypeInv, ProcessShape
  <2>2. ASSUME Decide(p, Parked) PROVE Answer(p)'
    BY <2>1, <2>2, DecideAnswers DEF Parked
  <2>3. QED
    BY <1>1, <1>3, <2>2, GotoAnswers DEF ResolveReference
<1>4. CASE FindReversal(p) \/ FindCrossReversal(p)
  BY <1>1, <1>4, GotoAnswers DEF FindReversal, FindCrossReversal, RefusedReversal
<1>5. CASE Move(p)
  <2>1. cmd[p].kind # "LOSS"
    BY <1>5 DEF Move, TypeInv, ProcessShape
  <2>2. ASSUME NEW b, Decide(p, Processed(b, TRUE)) PROVE Answer(p)'
    BY <2>1, <2>2, DecideAnswers DEF Processed
  <2>3. Failed("MONEY_OVERFLOW").status \notin Terminal
    BY DEF Failed, Terminal
  <2>4. \/ \E code, b : Decide(p, Rejected(code, b))
        \/ \E b : Decide(p, Processed(b, TRUE))
        \/ Return(p, Failed("MONEY_OVERFLOW"))
        \/ Retry(p)
    BY <1>5 DEF Move
  <2>5. QED
    BY <1>1, <2>2, <2>3, <2>4, ReturnAnswers, RetryAnswers
<1>6. QED
  BY <1>2, <1>3, <1>4, <1>5

LEMMA FinishAnswers ==
  ASSUME TypeInv, NEW p \in Processes, Answer(p), Finish(p)
  PROVE  Answer(p)'
<1>1. CASE Retry(p)
  BY <1>1, RetryAnswers
<1>2. CASE Goto(p, "commit") /\ UNCHANGED <<cmd, out>>
  <2>1. pc[p] = "finish" /\ pc'[p] = "commit"
    BY <1>2 DEF Finish, Goto, TypeInv, TypeOK
  <2>2. QED
    BY <1>2, <2>1 DEF Answer, Replied, OutcomeRight
<1>3. QED
  BY <1>1, <1>2 DEF Finish

-----------------------------------------------------------------------------
(* The steps that leave the tables alone are each a process's own.          *)

Committing(p) ==
  /\ pc[p] = "commit" /\ Write(p)
  /\ \E o \in {out[p], Undecided, Failed("LOST")} : Return(p, o)

OwnStep(p) ==
  \/ \E c \in Commands : Submit(p, c)
  \/ \E e \in ExternalIds : Claim(p, e)
  \/ LookupExternal(p) \/ LookupKey(p) \/ Insert(p) \/ LoadWallet(p)
  \/ ResolveReference(p) \/ FindReversal(p) \/ FindCrossReversal(p)
  \/ Move(p) \/ Finish(p) \/ Abort(p)

LEMMA StepCases ==
  ASSUME [Next]_vars
  PROVE  \/ UNCHANGED vars
         \/ \E e \in ExternalIds : BecomeDue(e)
         \/ \E p \in Processes : Committing(p)
         \/ \E p \in Processes : OwnStep(p)
<1>1. ASSUME NEW p \in Processes, Commit(p) \/ CommitUnacknowledged(p)
      PROVE  Committing(p)
  BY <1>1 DEF Commit, CommitUnacknowledged, Committing
<1>2. ASSUME NEW p \in Processes, Statement(p)
      PROVE  Committing(p) \/ OwnStep(p)
  BY <1>1, <1>2 DEF Statement, OwnStep
<1>3. QED
  BY <1>1, <1>2 DEF Next, OwnStep, Processes

LEMMA OwnStepLeaves ==
  ASSUME TypeInv, NEW p \in Processes, OwnStep(p)
  PROVE  UNCHANGED tables /\ Others(p)
<1>1. ASSUME NEW label, Goto(p, label), UNCHANGED <<cmd, out>>,
             snap' = snap \/ \E s : snap' = [snap EXCEPT ![p] = s]
      PROVE  Others(p)
  BY <1>1 DEF Goto, Others, TypeInv, TypeOK
<1>2. ASSUME NEW o, Return(p, o) PROVE Others(p)
  BY <1>2 DEF Return, Goto, Others, TypeInv, TypeOK
<1>3. ASSUME NEW o, Decide(p, o),
             snap' = snap \/ \E s : snap' = [snap EXCEPT ![p] = s]
      PROVE  UNCHANGED tables /\ Others(p)
  BY <1>3 DEF Decide, Goto, Others, TypeInv, TypeOK
<1>4. ASSUME Retry(p) PROVE Others(p)
  BY <1>2, <1>4 DEF Retry, Goto, Others, TypeInv, TypeOK
<1>5. CASE \/ \E c \in Commands : Submit(p, c)
           \/ \E e \in ExternalIds : Claim(p, e)
  BY <1>5 DEF Submit, Claim, Goto, Others, TypeInv, TypeOK
<1>6. CASE LookupExternal(p) \/ LookupKey(p) \/ Insert(p) \/ Finish(p) \/ Abort(p)
  BY <1>1, <1>2, <1>4, <1>6 DEF LookupExternal, LookupKey, Insert, Finish, Abort
<1>7. CASE LoadWallet(p)
  <2>1. snap' = [snap EXCEPT ![p] = wallets[cmd[p].wallet]]
    BY <1>7 DEF LoadWallet
  <2>2. \/ \E o : Decide(p, o)
        \/ /\ \E label : Goto(p, label)
           /\ UNCHANGED <<tables, cmd, out>>
    BY <1>7 DEF LoadWallet
  <2>3. QED
    BY <1>1, <1>3, <2>1, <2>2
<1>8. CASE ResolveReference(p) \/ FindReversal(p) \/ FindCrossReversal(p) \/ Move(p)
  <2>1. \/ (\E o : Decide(p, o)) /\ UNCHANGED snap
        \/ /\ \E label : Goto(p, label)
           /\ UNCHANGED <<tables, cmd, snap, out>>
        \/ UNCHANGED tables /\ Retry(p)
        \/ UNCHANGED tables /\ Return(p, Failed("MONEY_OVERFLOW"))
    BY <1>8 DEF ResolveReference, FindReversal, FindCrossReversal, Move,
                RefusedReversal
  <2>2. QED
    BY <1>1, <1>2, <1>3, <1>4, <2>1
<1>9. QED
  BY <1>5, <1>6, <1>7, <1>8 DEF OwnStep

LEMMA AbortAnswers ==
  ASSUME TypeInv, NEW p \in Processes, Abort(p)
  PROVE  Answer(p)'
BY ReturnAnswers DEF Abort, Failed, Terminal

-----------------------------------------------------------------------------
(* Answers.                                                                 *)

(* A process that does not step keeps what was true of its answer: the row it
   was read from is terminal. *)
LEMMA OthersAnswer ==
  ASSUME NEW q \in Processes, Answer(q), RowsKept,
         pc'[q] = pc[q], cmd'[q] = cmd[q], out'[q] = out[q]
  PROVE  Answer(q)'
<1>1. OutcomeRight(q)'
  BY DEF Answer, OutcomeRight
<1>2. Replied(q)'
  BY DEF Answer, Replied, RowsKept
<1>3. QED
  BY <1>1, <1>2 DEF Answer

(* The reply of the transaction that settles an operation is its new row. *)
LEMMA CommitAnswers ==
  ASSUME RowsInv, NEW p \in Processes, Committing(p)
  PROVE  Answer(p)'
<1>1. /\ pc[p] = "commit" /\ Write(p) /\ TypeInv
      /\ cmd[p].ext \in ExternalIds
      /\ txs'[cmd[p].ext].cmd = cmd[p]
  BY RowsWritten DEF RowsInv, Committing
<1>2. txs'[cmd[p].ext] = FinalRow(p)
  BY <1>1 DEF Write
<1>3. CASE Return(p, out[p]) /\ p \in Servers
  <2>1. pc'[p] = "idle" /\ out'[p] = out[p] /\ cmd'[p] = cmd[p]
    BY <1>1, <1>3, ServiceAssumption DEF Return, Goto, TypeInv, TypeOK
  <2>2. /\ FinalRow(p).status = out[p].status
        /\ FinalRow(p).code = out[p].code
        /\ FinalRow(p).balance = out[p].balance
    BY DEF FinalRow
  <2>3. SamePayload(cmd[p], txs'[cmd[p].ext].cmd)
    BY <1>1 DEF SamePayload
  <2>4. QED
    BY <1>1, <1>2, <2>1, <2>2, <2>3 DEF Answer, Replied, OutcomeRight
<1>4. CASE p \notin Servers
  <2>1. pc'[p] = "idle"
    BY <1>1 DEF Committing, Return, Goto, TypeInv, TypeOK
  <2>2. QED
    BY <1>4, <2>1 DEF Answer, Replied, OutcomeRight
<1>5. CASE Return(p, Undecided) \/ Return(p, Failed("LOST"))
  BY <1>1, <1>5, ReturnAnswers DEF Undecided, Failed, Terminal
<1>6. QED
  BY <1>3, <1>4, <1>5 DEF Committing

LEMMA InitAnswers == Init => AnswerInv
<1>1. Undecided.status \notin Terminal
  BY DEF Undecided, Terminal
<1>2. QED
  BY <1>1 DEF Init, StartUp, AnswerInv, Answer, Replied, OutcomeRight

LEMMA NextAnswers == RowsInv /\ AnswerInv /\ [Next]_vars => AnswerInv'
<1> SUFFICES ASSUME RowsInv, AnswerInv, [Next]_vars PROVE AnswerInv'
  OBVIOUS
<1>1. TypeInv /\ RowsKept
  BY NextKeepsRows DEF RowsInv
<1>2. ASSUME NEW p \in Processes, Others(p), Answer(p)' PROVE AnswerInv'
  BY <1>1, <1>2, OthersAnswer DEF AnswerInv, Others
<1>3. ASSUME NEW p \in Processes, OwnStep(p) PROVE AnswerInv'
  <2>1. Others(p)
    BY <1>1, <1>3, OwnStepLeaves
  <2>2. Answer(p)'
    BY <1>1, <1>3, BeginAnswers, ApplyAnswers, FinishAnswers, AbortAnswers
    DEF OwnStep, AnswerInv
  <2>3. QED
    BY <1>2, <2>1, <2>2
<1>4. ASSUME NEW p \in Processes, Committing(p) PROVE AnswerInv'
  <2>1. Others(p)
    BY <1>1, <1>4 DEF Committing, Return, Goto, Others, TypeInv, TypeOK
  <2>2. QED
    BY <1>2, <1>4, <2>1, CommitAnswers
<1>5. CASE UNCHANGED <<pc, cmd, out>>
  BY <1>1, <1>5, OthersAnswer DEF AnswerInv
<1>6. QED
  BY <1>3, <1>4, <1>5, StepCases DEF BecomeDue, local, vars

LEMMA AnswersInvariant == Spec => []AnswerInv
BY RowsInvariant, InitAnswers, NextAnswers, PTL DEF Spec

\* A final answer, given by replay or by the transaction that settled the
\* operation, is the persisted result and answers the persisted payload, and
\* stays so for as long as the client may remember it (processOnce, replay).
THEOREM AnswersArePersisted == Spec => []RepliesPersisted
<1>1. AnswerInv => RepliesPersisted
  BY DEF AnswerInv, Answer, Replied, RepliesPersisted, Processes
<1>2. QED
  BY <1>1, AnswersInvariant, PTL

-----------------------------------------------------------------------------
(* Events.                                                                  *)

WalletEvents ==
  {[type |-> "BALANCE_CHANGED", of |-> x[1], number |-> x[2]] :
     x \in UNION {{w} \X (2..wallets[w].version) : w \in Wallets}}

OutcomeEvents ==
  {[type |-> txs[e].status, of |-> e, number |-> txs[e].attempts] :
     e \in Rows(Terminal)}

ParkedEvents ==
  {[type |-> "PENDING_REFERENCE", of |-> x[1], number |-> x[2]] :
     x \in UNION {{e} \X (1..txs[e].attempts) : e \in ExternalIds}}

VersionsCount == \A w \in Wallets : wallets[w].version \in Nat \ {0}

EventsInv == VersionsCount /\ outbox = WalletEvents \cup OutcomeEvents \cup ParkedEvents

(* Membership, element by element. *)
WalletEventsRead ==
  \A x : x \in WalletEvents <=>
    \E w \in Wallets : \E n \in 2..wallets[w].version :
      x = [type |-> "BALANCE_CHANGED", of |-> w, number |-> n]

ParkedEventsRead ==
  \A x : x \in ParkedEvents <=>
    \E e \in ExternalIds : \E n \in 1..txs[e].attempts :
      x = [type |-> "PENDING_REFERENCE", of |-> e, number |-> n]

LEMMA WalletEventsAre == WalletEventsRead
<1>1. ASSUME NEW y \in UNION {{w} \X (2..wallets[w].version) : w \in Wallets}
      PROVE  \E w \in Wallets : \E n \in 2..wallets[w].version : y[1] = w /\ y[2] = n
  BY <1>1
<1>2. ASSUME NEW w \in Wallets, NEW n \in 2..wallets[w].version
      PROVE  \E y \in UNION {{u} \X (2..wallets[u].version) : u \in Wallets} :
               y[1] = w /\ y[2] = n
  <2>1. <<w, n>> \in UNION {{u} \X (2..wallets[u].version) : u \in Wallets}
    OBVIOUS
  <2>2. QED
    BY <2>1
<1>3. QED
  BY <1>1, <1>2 DEF WalletEventsRead, WalletEvents

LEMMA ParkedEventsAre == ParkedEventsRead
<1>1. ASSUME NEW y \in UNION {{e} \X (1..txs[e].attempts) : e \in ExternalIds}
      PROVE  \E e \in ExternalIds : \E n \in 1..txs[e].attempts : y[1] = e /\ y[2] = n
  BY <1>1
<1>2. ASSUME NEW e \in ExternalIds, NEW n \in 1..txs[e].attempts
      PROVE  \E y \in UNION {{u} \X (1..txs[u].attempts) : u \in ExternalIds} :
               y[1] = e /\ y[2] = n
  <2>1. <<e, n>> \in UNION {{u} \X (1..txs[u].attempts) : u \in ExternalIds}
    OBVIOUS
  <2>2. QED
    BY <2>1
<1>3. QED
  BY <1>1, <1>2 DEF ParkedEventsRead, ParkedEvents

(* A movement adds the event of the new version of its wallet. *)
LEMMA WalletEventsWritten ==
  ASSUME TypeInv, WalletInv, VersionsCount, NEW p \in Processes, pc[p] = "commit",
         Write(p)
  PROVE  /\ VersionsCount'
         /\ WalletEvents' = WalletEvents \cup
              (IF out[p].moves
               THEN {[type |-> "BALANCE_CHANGED", of |-> cmd[p].wallet,
                      number |-> snap[p].version + 1]}
               ELSE {})
<1>1. CASE ~out[p].moves
  <2>1. wallets' = wallets
    BY <1>1 DEF Write
  <2>2. QED
    BY <1>1, <2>1 DEF VersionsCount, WalletEvents
<1>2. CASE out[p].moves
  <2> DEFINE w == cmd[p].wallet
             v == wallets[w].version
             new == [type |-> "BALANCE_CHANGED", of |-> w, number |-> v + 1]
  <2>1. w \in Wallets /\ snap[p].version = v
    BY <1>2 DEF TypeInv, ProcessShape, AfterWallet, WalletInv, Fine, MovementRight,
                HoldsWallet
  <2>2. /\ wallets'[w].version = v + 1
        /\ \A u \in Wallets \ {w} : wallets'[u] = wallets[u]
    <3>1. wallets'[w] = [balance |-> out[p].balance, version |-> v + 1]
      BY <1>2, <2>1 DEF Write, TypeInv, TypeOK
    <3>2. QED
      BY <1>2, <2>1, <3>1 DEF Write, TypeInv, TypeOK
  <2>3. v \in Nat \ {0}
    BY <2>1 DEF VersionsCount
  <2>4. VersionsCount'
    BY <2>1, <2>2, <2>3 DEF VersionsCount
  <2> HIDE DEF w, v
  <2>5. WalletEventsRead /\ WalletEventsRead'
    BY WalletEventsAre, PTL
  <2>6. ASSUME NEW x \in WalletEvents' PROVE x \in WalletEvents \cup {new}
    <3>1. PICK u \in Wallets : \E i \in 2..wallets'[u].version :
            x = [type |-> "BALANCE_CHANGED", of |-> u, number |-> i]
      BY <2>5, <2>6 DEF WalletEventsRead
    <3>2. PICK n \in 2..wallets'[u].version :
            x = [type |-> "BALANCE_CHANGED", of |-> u, number |-> n]
      BY <3>1
    <3>3. CASE u = w /\ n = v + 1
      BY <3>2, <3>3
    <3>4. CASE ~(u = w /\ n = v + 1)
      <4>1. n \in 2..wallets[u].version
        BY <2>2, <2>3, <3>4 DEF v
      <4>2. QED
        BY <2>5, <3>2, <4>1 DEF WalletEventsRead
    <3>5. QED
      BY <3>3, <3>4
  <2>7. ASSUME NEW x \in WalletEvents \cup {new} PROVE x \in WalletEvents'
    <3>1. ASSUME NEW u \in Wallets, NEW n \in 2..wallets[u].version
          PROVE  n \in 2..wallets'[u].version
      BY <2>2, <2>3 DEF v
    <3>2. v + 1 \in 2..wallets'[w].version
      BY <2>2, <2>3
    <3>3. \E u \in Wallets : \E n \in 2..wallets'[u].version :
            x = [type |-> "BALANCE_CHANGED", of |-> u, number |-> n]
      BY <2>5, <2>1, <2>7, <3>1, <3>2 DEF WalletEventsRead
    <3>4. QED
      BY <2>5, <3>3 DEF WalletEventsRead
  <2>8. WalletEvents' = WalletEvents \cup {new}
    BY <2>6, <2>7
  <2>9. QED
    BY <1>2, <2>1, <2>4, <2>8 DEF w, v
<1>3. QED
  BY <1>1, <1>2

(* A settled operation adds the event of its outcome, a parked one the event
   of the attempt it has used up. *)
LEMMA RowEventsWritten ==
  ASSUME RowsInv, NEW p \in Processes, pc[p] = "commit", Write(p)
  PROVE  OutcomeEvents' \cup ParkedEvents' =
           OutcomeEvents \cup ParkedEvents \cup
             {[type |-> out[p].status, of |-> cmd[p].ext, number |-> FinalRow(p).attempts]}
<1> DEFINE c == cmd[p].ext
           n == txs[c].attempts
           new == [type |-> out[p].status, of |-> c, number |-> FinalRow(p).attempts]
<1>1. /\ TypeInv /\ c \in ExternalIds
      /\ out[p].status \in Statuses
      /\ txs[c].status \notin Terminal
      /\ txs'[c].status = out[p].status
      /\ \A e \in ExternalIds \ {c} : txs'[e].status = txs[e].status
  BY RowsWritten DEF RowsInv
<1>2. n \in Nat
  BY <1>1 DEF TypeInv, TypeOK, Row
<1>3. ASSUME NEW e \in ExternalIds \ {c} PROVE txs'[e].attempts = txs[e].attempts
  BY <1>3 DEF Write, MadeDue
<1>4. /\ txs'[c].attempts = FinalRow(p).attempts
      /\ out[p].status = "PENDING_REFERENCE" => txs'[c].attempts = n + 1
      /\ out[p].status \in Terminal => txs'[c].attempts = n
  BY <1>1 DEF Write, FinalRow, Terminal
<1>5. ParkedEventsRead /\ ParkedEventsRead'
  BY ParkedEventsAre, PTL
<1> HIDE DEF c, n
<1>6. ASSUME NEW x
      PROVE  x \in OutcomeEvents' <=>
               x \in OutcomeEvents \/ (out[p].status \in Terminal /\ x = new)
  <2>1. x \in OutcomeEvents' <=>
          \E e \in ExternalIds : /\ txs'[e].status \in Terminal
                                 /\ x = [type |-> txs'[e].status, of |-> e,
                                         number |-> txs'[e].attempts]
    BY DEF OutcomeEvents, Rows
  <2>2. x \in OutcomeEvents <=>
          \E e \in ExternalIds : /\ txs[e].status \in Terminal
                                 /\ x = [type |-> txs[e].status, of |-> e,
                                         number |-> txs[e].attempts]
    BY DEF OutcomeEvents, Rows
  <2>3. new = [type |-> txs'[c].status, of |-> c, number |-> txs'[c].attempts]
    BY <1>1, <1>4 DEF c
  <2>4. QED
    BY <1>1, <1>3, <2>1, <2>2, <2>3
<1>7. ASSUME NEW x
      PROVE  x \in ParkedEvents' <=>
               x \in ParkedEvents \/ (out[p].status = "PENDING_REFERENCE" /\ x = new)
  <2>1. x \in ParkedEvents' <=>
          \E e \in ExternalIds : \E i \in 1..txs'[e].attempts :
            x = [type |-> "PENDING_REFERENCE", of |-> e, number |-> i]
    BY <1>5 DEF ParkedEventsRead
  <2>2. x \in ParkedEvents <=>
          \E e \in ExternalIds : \E i \in 1..txs[e].attempts :
            x = [type |-> "PENDING_REFERENCE", of |-> e, number |-> i]
    BY <1>5 DEF ParkedEventsRead
  <2>3. CASE out[p].status \in Terminal
    <3>1. \A e \in ExternalIds : txs'[e].attempts = txs[e].attempts
      BY <1>3, <1>4, <2>3 DEF n
    <3>2. QED
      BY <2>1, <2>2, <2>3, <3>1 DEF Terminal
  <2>4. CASE out[p].status = "PENDING_REFERENCE"
    <3>1. new = [type |-> "PENDING_REFERENCE", of |-> c, number |-> n + 1]
      BY <1>4, <2>4 DEF c
    <3>2. 1..txs'[c].attempts = 1..txs[c].attempts \cup {n + 1}
      BY <1>2, <1>4, <2>4 DEF n
    <3>3. \A e \in ExternalIds \ {c} : 1..txs'[e].attempts = 1..txs[e].attempts
      BY <1>3
    <3>4. QED
      BY <1>1, <2>1, <2>2, <2>4, <3>1, <3>2, <3>3
  <2>5. QED
    BY <1>1, <2>3, <2>4 DEF Statuses, Terminal
<1>8. out[p].status \in Terminal \/ out[p].status = "PENDING_REFERENCE"
  BY <1>1 DEF Statuses, Terminal
<1>9. QED
  BY <1>6, <1>7, <1>8 DEF c

LEMMA BecomeDueEvents ==
  ASSUME TypeInv, NEW e \in ExternalIds, BecomeDue(e)
  PROVE  OutcomeEvents' = OutcomeEvents /\ ParkedEvents' = ParkedEvents
<1>1. ASSUME NEW x \in ExternalIds
      PROVE  txs'[x].status = txs[x].status /\ txs'[x].attempts = txs[x].attempts
  <2>1. /\ MadeDue(txs[x]).status = txs[x].status
        /\ MadeDue(txs[x]).attempts = txs[x].attempts
    BY DEF MadeDue
  <2>2. QED
    BY <2>1 DEF BecomeDue, TypeInv, TypeOK
<1>2. QED
  BY <1>1 DEF OutcomeEvents, ParkedEvents, Rows

LEMMA InitEvents == Init => EventsInv
<1> SUFFICES ASSUME Init PROVE EventsInv
  OBVIOUS
<1>1. /\ \A w \in Wallets : wallets[w].version = 1
      /\ \A e \in ExternalIds : txs[e].status = "ABSENT" /\ txs[e].attempts = 0
      /\ outbox = {}
  BY DEF Init, StartUp, AbsentRow
<1>2. OutcomeEvents = {}
  BY <1>1 DEF OutcomeEvents, Rows, Terminal
<1>3. WalletEvents = {} /\ ParkedEvents = {}
  BY <1>1, WalletEventsAre, ParkedEventsAre DEF WalletEventsRead, ParkedEventsRead
<1>4. QED
  BY <1>1, <1>2, <1>3 DEF EventsInv, VersionsCount

LEMMA NextEvents == RowsInv /\ WalletInv /\ EventsInv /\ [Next]_vars => EventsInv'
<1> SUFFICES ASSUME RowsInv, WalletInv, EventsInv, [Next]_vars PROVE EventsInv'
  OBVIOUS
<1>1. TypeInv
  BY DEF RowsInv
<1>2. CASE UNCHANGED tables
  <2>1. UNCHANGED <<WalletEvents, OutcomeEvents, ParkedEvents, VersionsCount, outbox>>
    BY <1>2 DEF tables, WalletEvents, OutcomeEvents, ParkedEvents, Rows, VersionsCount
  <2>2. QED
    BY <2>1 DEF EventsInv
<1>3. ASSUME NEW e \in ExternalIds, BecomeDue(e) PROVE EventsInv'
  <2>1. UNCHANGED <<wallets, outbox>>
    BY <1>3 DEF BecomeDue
  <2>2. UNCHANGED <<WalletEvents, VersionsCount>>
    BY <2>1 DEF WalletEvents, VersionsCount
  <2>3. QED
    BY <1>1, <1>3, <2>1, <2>2, BecomeDueEvents DEF EventsInv
<1>4. ASSUME NEW p \in Processes, Committing(p) PROVE EventsInv'
  <2>1. pc[p] = "commit" /\ Write(p) /\ outbox' = outbox \cup Events(p)
    BY <1>4 DEF Committing, Write
  <2>2. VersionsCount'
    BY <1>1, <2>1, WalletEventsWritten DEF EventsInv
  <2>3. outbox' = WalletEvents' \cup OutcomeEvents' \cup ParkedEvents'
    BY <1>1, <2>1, WalletEventsWritten, RowEventsWritten DEF EventsInv, Events
  <2>4. QED
    BY <2>2, <2>3 DEF EventsInv
<1>5. ASSUME NEW p \in Processes, OwnStep(p) PROVE EventsInv'
  BY <1>1, <1>2, <1>5, OwnStepLeaves
<1>6. QED
  BY <1>2, <1>3, <1>4, <1>5, StepCases DEF vars, tables

LEMMA WalletsInvariant == Spec => [](RowsInv /\ WalletInv)
BY RowsInvariant, InitFine, NextFine, PTL DEF Spec

\* The outbox holds an event for every version of every wallet after the first,
\* for every outcome and for every wait that used up an attempt, and none for
\* what was rolled back, retried or replayed (enqueue, Insert).
THEOREM OutboxTellsTables == Spec => []OutboxMatchesTables
<1>1. EventsInv => OutboxMatchesTables
  BY DEF EventsInv, WalletEvents, OutcomeEvents, ParkedEvents, OutboxMatchesTables
<1>2. QED
  BY <1>1, WalletsInvariant, InitEvents, NextEvents, PTL DEF Spec

-----------------------------------------------------------------------------
(* Movements.                                                               *)

(* In the entries l of all wallets, the i-th of w belongs to e. *)
Booked(l, e, w, i) ==
  /\ w \in Wallets
  /\ i \in 1..Len(l[w])
  /\ l[w][i].tx = e

MovementsRead ==
  \A e, m : m \in Movements(e) <=> \E w, i : m = <<w, i>> /\ Booked(ledger, e, w, i)

LEMMA MovementsAre == MovementsRead
<1> SUFFICES ASSUME NEW e, NEW m
             PROVE  m \in Movements(e) <=> \E w, i : m = <<w, i>> /\ Booked(ledger, e, w, i)
  BY DEF MovementsRead
<1> DEFINE places == UNION {{w} \X (1..Len(ledger[w])) : w \in Wallets}
<1>1. ASSUME NEW w \in Wallets, NEW i \in 1..Len(ledger[w])
      PROVE  <<w, i>> \in places
  OBVIOUS
<1>2. ASSUME m \in places
      PROVE  \E w \in Wallets : \E i \in 1..Len(ledger[w]) : m = <<w, i>>
  BY <1>2
<1>3. m \in Movements(e) <=> m \in places /\ ledger[m[1]][m[2]].tx = e
  BY DEF Movements
<1> HIDE DEF places
<1>4. ASSUME NEW w, NEW i, m = <<w, i>> PROVE m[1] = w /\ m[2] = i
  BY <1>4
<1>5. QED
  BY <1>1, <1>2, <1>3, <1>4 DEF Booked

(* A movement adds one entry, of the operation that commits. *)
LEMMA BookedWritten ==
  ASSUME TypeInv, NEW p \in Processes, pc[p] = "commit", Write(p), out[p].moves
  PROVE  LET last == Len(ledger[cmd[p].wallet]) + 1 IN
         /\ Booked(ledger', cmd[p].ext, cmd[p].wallet, last)
         /\ ledger'[cmd[p].wallet][last] = MovementEntry(p)
         /\ \A w, i : (w # cmd[p].wallet \/ i # last) =>
              /\ \A e : Booked(ledger', e, w, i) <=> Booked(ledger, e, w, i)
              /\ (\E e : Booked(ledger, e, w, i)) => ledger'[w][i] = ledger[w][i]
         /\ \A e : ~Booked(ledger, e, cmd[p].wallet, last)
<1> DEFINE u == cmd[p].wallet
           m == MovementEntry(p)
           old == ledger[u]
           new == ledger'[u]
<1>1. u \in Wallets
  BY DEF TypeInv, ProcessShape, AfterWallet
<1>2. old \in Seq(Entry) /\ m \in Entry /\ m.tx = cmd[p].ext
  BY <1>1, WrittenTypes DEF TypeInv, TypeOK, MovementEntry
<1>3. new = Append(old, m) /\ \A w \in Wallets \ {u} : ledger'[w] = ledger[w]
  BY <1>1 DEF Write, TypeInv, TypeOK
<1> HIDE DEF u, m, old, new
<1>4. /\ Len(old) \in Nat /\ Len(new) = Len(old) + 1
      /\ \A i \in 1..Len(old) : new[i] = old[i]
      /\ new[Len(old) + 1] = m
  BY <1>2, <1>3
<1>5. /\ Booked(ledger', cmd[p].ext, u, Len(old) + 1)
      /\ \A e : ~Booked(ledger, e, u, Len(old) + 1)
  BY <1>1, <1>2, <1>4 DEF Booked, old, new
<1>6. ASSUME NEW w, NEW i, w # u \/ i # Len(old) + 1
      PROVE  /\ \A e : Booked(ledger', e, w, i) <=> Booked(ledger, e, w, i)
             /\ (\E e : Booked(ledger, e, w, i)) => ledger'[w][i] = ledger[w][i]
  <2>1. CASE w = u
    BY <1>1, <1>4, <1>6, <2>1 DEF Booked, old, new
  <2>2. CASE w # u
    BY <1>3, <2>2 DEF Booked
  <2>3. QED
    BY <2>1, <2>2
<1>7. QED
  BY <1>4, <1>5, <1>6 DEF u, old, new, m

BookedRight(e) ==
  IF txs[e].status = "PROCESSED" /\ txs[e].cmd.kind # "LOSS"
  THEN \E w, i :
         /\ \A v, j : Booked(ledger, e, v, j) <=> v = w /\ j = i
         /\ w = txs[e].cmd.wallet
         /\ ledger[w][i].amount = txs[e].cmd.amount
         /\ ledger[w][i].after = txs[e].balance
  ELSE \A w, i : ~Booked(ledger, e, w, i)

BookedOnce == \A e \in ExternalIds : BookedRight(e)

LEMMA BookedOnceIsExactlyOnce == BookedOnce => ExactlyOnce
<1> SUFFICES ASSUME BookedOnce, NEW e \in ExternalIds
             PROVE  IF txs[e].status = "PROCESSED" /\ txs[e].cmd.kind # "LOSS"
                    THEN \E m \in Movements(e) :
                           /\ Movements(e) = {m}
                           /\ m[1] = txs[e].cmd.wallet
                           /\ ledger[m[1]][m[2]].amount = txs[e].cmd.amount
                           /\ ledger[m[1]][m[2]].after = txs[e].balance
                    ELSE Movements(e) = {}
  BY DEF ExactlyOnce
<1>1. BookedRight(e)
  BY DEF BookedOnce
<1>2. \A m : m \in Movements(e) <=> \E w, i : m = <<w, i>> /\ Booked(ledger, e, w, i)
  BY MovementsAre DEF MovementsRead
<1>3. CASE txs[e].status = "PROCESSED" /\ txs[e].cmd.kind # "LOSS"
  <2>1. PICK w, i : /\ \A v, j : Booked(ledger, e, v, j) <=> v = w /\ j = i
                    /\ w = txs[e].cmd.wallet
                    /\ ledger[w][i].amount = txs[e].cmd.amount
                    /\ ledger[w][i].after = txs[e].balance
    BY <1>1, <1>3 DEF BookedRight
  <2>2. Movements(e) = {<<w, i>>}
    BY <1>2, <2>1
  <2>3. <<w, i>>[1] = w /\ <<w, i>>[2] = i
    OBVIOUS
  <2>4. QED
    BY <1>3, <2>1, <2>2, <2>3
<1>4. CASE ~(txs[e].status = "PROCESSED" /\ txs[e].cmd.kind # "LOSS")
  BY <1>1, <1>2, <1>4 DEF BookedRight
<1>5. QED
  BY <1>3, <1>4

(* The row that is written was not terminal, so nothing was booked for it. *)
LEMMA CommitBooks ==
  ASSUME RowsInv, AnswerInv, BookedOnce, NEW p \in Processes, pc[p] = "commit", Write(p),
         NEW e \in ExternalIds
  PROVE  BookedRight(e)'
<1> DEFINE c == cmd[p]
           last == Len(ledger[c.wallet]) + 1
<1>1. /\ TypeInv /\ c.ext \in ExternalIds
      /\ txs'[c.ext].cmd = c /\ txs'[c.ext].status = out[p].status
      /\ txs[c.ext].status \notin Terminal
      /\ \A x \in ExternalIds : x # c.ext =>
           /\ txs'[x].cmd = txs[x].cmd /\ txs'[x].status = txs[x].status
           /\ txs[x].status \in Terminal => txs'[x] = txs[x]
  BY RowsWritten DEF RowsInv
<1>2. out[p].moves <=> out[p].status = "PROCESSED" /\ c.kind # "LOSS"
  BY DEF AnswerInv, Answer, OutcomeRight
<1>3. BookedRight(e) /\ BookedRight(c.ext)
  BY <1>1 DEF BookedOnce
<1>4. CASE ~out[p].moves
  <2>1. ledger' = ledger
    BY <1>4 DEF Write
  <2>2. CASE e = c.ext
    BY <1>1, <1>2, <1>3, <1>4, <2>1, <2>2 DEF BookedRight, Terminal
  <2>3. CASE e # c.ext
    BY <1>1, <1>3, <2>1, <2>3 DEF BookedRight, Terminal
  <2>4. QED
    BY <2>2, <2>3
<1>5. CASE out[p].moves
  <2>1. /\ Booked(ledger', c.ext, c.wallet, last)
        /\ ledger'[c.wallet][last] = MovementEntry(p)
        /\ \A w, i : (w # c.wallet \/ i # last) =>
             /\ \A x : Booked(ledger', x, w, i) <=> Booked(ledger, x, w, i)
             /\ (\E x : Booked(ledger, x, w, i)) => ledger'[w][i] = ledger[w][i]
        /\ \A x : ~Booked(ledger, x, c.wallet, last)
    BY <1>1, <1>5, BookedWritten
  <2>2. CASE e = c.ext
    <3>1. \A w, i : ~Booked(ledger, e, w, i)
      BY <1>1, <1>3, <2>2 DEF BookedRight, Terminal
    <3>2. \A w, i : Booked(ledger', e, w, i) <=> w = c.wallet /\ i = last
      <4> SUFFICES ASSUME NEW w, NEW i
                   PROVE  Booked(ledger', e, w, i) <=> w = c.wallet /\ i = last
        OBVIOUS
      <4>1. CASE w = c.wallet /\ i = last
        BY <2>1, <2>2, <4>1
      <4>2. CASE w # c.wallet \/ i # last
        BY <2>1, <3>1, <4>2
      <4>3. QED
        BY <4>1, <4>2
    <3>3. /\ MovementEntry(p).amount = c.amount
          /\ MovementEntry(p).after = out[p].balance
          /\ txs'[e].balance = out[p].balance
      BY <1>1, <2>2 DEF MovementEntry, Write, FinalRow
    <3>4. /\ txs'[e].status = "PROCESSED" /\ txs'[e].cmd = c /\ c.kind # "LOSS"
          /\ ledger'[c.wallet][last].amount = c.amount
          /\ ledger'[c.wallet][last].after = txs'[e].balance
      BY <1>1, <1>2, <1>5, <2>1, <2>2, <3>3
    <3> HIDE DEF last
    <3>5. QED
      BY <3>2, <3>4 DEF BookedRight
  <2>3. CASE e # c.ext
    <3>1. ~Booked(ledger', e, c.wallet, last)
      BY <2>1, <2>3 DEF Booked
    <3>2. ASSUME NEW w, NEW i
          PROVE  Booked(ledger', e, w, i) <=> Booked(ledger, e, w, i)
      <4>1. CASE w = c.wallet /\ i = last
        BY <2>1, <3>1, <4>1
      <4>2. CASE w # c.wallet \/ i # last
        BY <2>1, <4>2
      <4>3. QED
        BY <4>1, <4>2
    <3>3. \A w, i : Booked(ledger, e, w, i) => ledger'[w][i] = ledger[w][i]
      BY <2>1
    <3>4. QED
      BY <1>1, <1>3, <2>3, <3>2, <3>3 DEF BookedRight, Terminal
  <2>4. QED
    BY <2>2, <2>3
<1>6. QED
  BY <1>4, <1>5

LEMMA InitBooks == Init => BookedOnce
<1> SUFFICES ASSUME Init, NEW e \in ExternalIds PROVE BookedRight(e)
  BY DEF BookedOnce
<1>1. txs[e].status = "ABSENT"
  BY DEF Init, StartUp, AbsentRow
<1>2. ASSUME NEW w, NEW i, Booked(ledger, e, w, i) PROVE FALSE
  <2>1. CASE Opening[w] > 0
    <3>1. ledger[w] = <<OpeningEntry(w)>>
      BY <1>2, <2>1 DEF Booked, Init, StartUp
    <3>2. ledger[w][i].tx = OpeningTx
      BY <1>2, <3>1 DEF Booked, OpeningEntry
    <3>3. QED
      BY <1>2, <3>2, WalletsAssumption DEF Booked
  <2>2. CASE ~(Opening[w] > 0)
    BY <1>2, <2>2 DEF Booked, Init, StartUp
  <2>3. QED
    BY <2>1, <2>2
<1>3. QED
  BY <1>1, <1>2 DEF BookedRight

LEMMA NextBooks == RowsInv /\ AnswerInv /\ BookedOnce /\ [Next]_vars => BookedOnce'
<1> SUFFICES ASSUME RowsInv, AnswerInv, BookedOnce, [Next]_vars PROVE BookedOnce'
  OBVIOUS
<1>1. TypeInv /\ RowsKept
  BY NextKeepsRows DEF RowsInv
<1>2. CASE UNCHANGED <<txs, ledger>>
  BY <1>2 DEF BookedOnce, BookedRight
<1>3. ASSUME NEW d \in ExternalIds, BecomeDue(d) PROVE BookedOnce'
  <2>1. /\ ledger' = ledger
        /\ \A e \in ExternalIds : /\ txs'[e].cmd = txs[e].cmd
                                  /\ txs'[e].status = txs[e].status
                                  /\ txs[e].status \in Terminal => txs'[e] = txs[e]
    BY <1>3, BecomeDueLocked DEF RowsInv, BecomeDue
  <2>2. QED
    BY <2>1 DEF BookedOnce, BookedRight, Terminal
<1>4. ASSUME NEW p \in Processes, Committing(p) PROVE BookedOnce'
  BY <1>4, CommitBooks DEF Committing, BookedOnce
<1>5. ASSUME NEW p \in Processes, OwnStep(p) PROVE BookedOnce'
  BY <1>1, <1>2, <1>5, OwnStepLeaves DEF tables
<1>6. QED
  BY <1>2, <1>3, <1>4, <1>5, StepCases DEF vars

\* A processed operation other than a LOSS moves its wallet by exactly one
\* ledger entry of its amount, which leaves the balance its row reports, and
\* nothing else is ever booked: not for a retry, a replay, a rejection or a
\* transaction cut short (move).
THEOREM MovesExactlyOnce == Spec => []ExactlyOnce
<1>1. Spec => []BookedOnce
  BY RowsInvariant, AnswersInvariant, InitBooks, NextBooks, PTL DEF Spec
<1>2. QED
  BY <1>1, BookedOnceIsExactlyOnce, PTL

-----------------------------------------------------------------------------
(***************************************************************************)
(* A stake comes back at most once, every commit keeps a promise of         *)
(* WagerLedger, and locks never stop everyone, for every value of the       *)
(* constants of WagerService.  No index covers a REFUND and a ROLLBACK of   *)
(* one BET together: what keeps them apart is that both move the wallet of  *)
(* the BET, so the version a transaction read before it looked for          *)
(* reversals is no longer the stored one when the other has committed.      *)
(***************************************************************************)

Owned(c) == Player[c.wallet] = c.player /\ Currency[c.wallet] = c.currency

WalletOwned(p) ==
  (\/ pc[p] \in {"reference", "reversal", "cross", "move"}
   \/ pc[p] \in {"finish", "commit"} /\ out[p].status = "PROCESSED")
    => Owned(cmd[p])

ReferenceFits(p) ==
  (pc[p] \in {"reversal", "cross", "move"} \/ HoldsWallet(p)) /\ cmd[p].ref # NoRef
    => ReferenceFault(cmd[p], txs[cmd[p].ref]) = NoCode

(* No reversal p has looked for has been committed since it read its wallet. *)
Cleared(p) ==
  (/\ pc[p] \in {"cross", "move"} \/ HoldsWallet(p)
   /\ cmd[p].ref # NoRef
   /\ snap[p].version = wallets[cmd[p].wallet].version)
    => /\ Reversals(cmd[p].ref, cmd[p].kind) = {}
       /\ (pc[p] # "cross" /\ txs[cmd[p].ref].cmd.kind = "BET")
            => Reversals(cmd[p].ref, CrossKind(cmd[p].kind)) = {}

Judged(p) == WalletOwned(p) /\ ReferenceFits(p) /\ Cleared(p)

RowJustified(e) ==
  /\ txs[e].status = "ABSENT" => txs[e].cmd = NoCommand
  /\ txs[e].status = "PROCESSED" =>
       /\ txs[e].refTx = txs[e].cmd.ref
       /\ txs[e].cmd.ref # NoRef
            => ReferenceFault(txs[e].cmd, txs[txs[e].cmd.ref]) = NoCode

RowsJustified == \A e \in ExternalIds : RowJustified(e)

JudgeInv == (\A p \in Processes : Judged(p)) /\ RowsJustified /\ SingleReversal

LEMMA FitFacts ==
  ASSUME NEW c, NEW row, ReferenceFault(c, row) = NoCode
  PROVE  /\ row.status = "PROCESSED"
         /\ row.cmd.kind \in Referenceable(c.kind)
         /\ Agrees(c, row.cmd)
         /\ IsReversal(c.kind) => c.amount = row.cmd.amount
BY DEF ReferenceFault, NoCode

-----------------------------------------------------------------------------
(* Steps that leave the tables alone.                                       *)

LEMMA EarlyJudged ==
  ASSUME NEW p, pc'[p] \notin AfterWallet
  PROVE  Judged(p)'
BY DEF Judged, WalletOwned, ReferenceFits, Cleared, HoldsWallet, AfterWallet

LEMMA ReturnJudged ==
  ASSUME TypeInv, NEW p \in Processes, NEW o, Return(p, o)
  PROVE  Judged(p)'
BY EarlyJudged DEF Return, Goto, TypeInv, TypeOK, AfterWallet

LEMMA RetryJudged ==
  ASSUME TypeInv, NEW p \in Processes, Retry(p)
  PROVE  Judged(p)'
<1>1. CASE Return(p, Failed("WALLET_VERSION_CONFLICT"))
  BY <1>1, ReturnJudged
<1>2. CASE Goto(p, IF p \in Servers THEN "external" ELSE "wallet")
  BY <1>2, EarlyJudged DEF Goto, TypeInv, TypeOK, AfterWallet
<1>3. QED
  BY <1>1, <1>2 DEF Retry

(* A rejection and a wait promise nothing about wallet or reference. *)
LEMMA RefuseJudged ==
  ASSUME TypeInv, NEW p \in Processes, NEW o, Decide(p, o), ~o.moves,
         o.status = "PROCESSED" => Owned(cmd[p])
  PROVE  Judged(p)'
<1>1. pc'[p] = "finish" /\ out'[p] = o /\ cmd'[p] = cmd[p]
  BY DEF Decide, Goto, TypeInv, TypeOK
<1>2. ~HoldsWallet(p)'
  BY <1>1 DEF HoldsWallet
<1>3. QED
  BY <1>1, <1>2 DEF Judged, WalletOwned, Owned, ReferenceFits, Cleared

LEMMA RejectJudged ==
  ASSUME TypeInv, NEW p \in Processes, NEW code, NEW b, Decide(p, Rejected(code, b))
  PROVE  Judged(p)'
BY RefuseJudged DEF Rejected

LEMMA BeginJudged ==
  ASSUME TypeInv, NEW p \in Processes,
         \/ \E c \in Commands : Submit(p, c)
         \/ \E e \in ExternalIds : Claim(p, e)
         \/ LookupExternal(p) \/ LookupKey(p) \/ Insert(p) \/ Abort(p)
  PROVE  Judged(p)'
<1>1. ASSUME NEW label \in {"external", "key", "insert", "wallet"}, Goto(p, label)
      PROVE  Judged(p)'
  BY <1>1, EarlyJudged DEF Goto, TypeInv, TypeOK, AfterWallet
<1>2. \/ \E label \in {"external", "key", "insert", "wallet"} : Goto(p, label)
      \/ \E o : Return(p, o)
      \/ Retry(p)
  BY DEF Submit, Claim, LookupExternal, LookupKey, Insert, Abort
<1>3. QED
  BY <1>1, <1>2, ReturnJudged, RetryJudged

LEMMA LoadWalletJudged ==
  ASSUME TypeInv, NEW p \in Processes, LoadWallet(p)
  PROVE  Judged(p)'
<1>1. CASE \E code, b : Decide(p, Rejected(code, b))
  BY <1>1, RejectJudged
<1>2. CASE Owned(cmd[p]) /\ \E b : Decide(p, Processed(b, FALSE))
  BY <1>2, RefuseJudged DEF Processed
<1>3. CASE /\ Owned(cmd[p])
           /\ Goto(p, IF cmd[p].ref = NoRef THEN "move" ELSE "reference")
           /\ UNCHANGED <<tables, cmd, tries, out, woken, submissions, crashes>>
  <2>1. /\ pc'[p] = IF cmd[p].ref = NoRef THEN "move" ELSE "reference"
        /\ cmd'[p] = cmd[p]
    BY <1>3 DEF Goto, TypeInv, TypeOK
  <2>2. ~HoldsWallet(p)'
    BY <2>1 DEF HoldsWallet
  <2>3. QED
    BY <1>3, <2>1, <2>2 DEF Judged, WalletOwned, Owned, ReferenceFits, Cleared
<1>4. QED
  BY <1>1, <1>2, <1>3 DEF LoadWallet, Owned

(* A process that looks at its reference goes on with what it has found. *)
LEMMA LookJudged ==
  ASSUME TypeInv, NEW p \in Processes, Judged(p),
         NEW label \in {"reversal", "cross", "move"}, Goto(p, label),
         UNCHANGED <<tables, cmd, snap, out>>,
         pc[p] \in {"reference", "reversal", "cross"},
         ReferenceFault(cmd[p], txs[cmd[p].ref]) = NoCode,
         label # "reversal" => Reversals(cmd[p].ref, cmd[p].kind) = {} \/ pc[p] = "cross",
         label = "move" =>
           \/ txs[cmd[p].ref].cmd.kind # "BET"
           \/ Reversals(cmd[p].ref, CrossKind(cmd[p].kind)) = {}
  PROVE  Judged(p)'
<1>1. pc'[p] = label
  BY DEF Goto, TypeInv, TypeOK
<1>2. ~HoldsWallet(p)'
  BY <1>1 DEF HoldsWallet
<1>3. WalletOwned(p)' /\ ReferenceFits(p)'
  BY <1>1, <1>2 DEF Judged, WalletOwned, Owned, ReferenceFits, tables
<1>4. \A e, kind : Reversals(e, kind)' = Reversals(e, kind)
  BY DEF Reversals, tables
<1>5. Cleared(p)'
  BY <1>1, <1>2, <1>4 DEF Judged, Cleared, tables, CrossKind
<1>6. QED
  BY <1>3, <1>5 DEF Judged

LEMMA ReferenceJudged ==
  ASSUME TypeInv, NEW p \in Processes, Judged(p),
         ResolveReference(p) \/ FindReversal(p) \/ FindCrossReversal(p)
  PROVE  Judged(p)'
<1>1. /\ pc[p] \in {"reference", "reversal", "cross"} /\ UNCHANGED snap
      /\ cmd[p].ref # NoRef
  BY WalletsAssumption
  DEF ResolveReference, FindReversal, FindCrossReversal, TypeInv, ProcessShape
<1>2. CASE ResolveReference(p)
  <2>1. ASSUME Decide(p, Parked) PROVE Judged(p)'
    BY <2>1, RefuseJudged DEF Parked
  <2>2. CASE /\ ReferenceFault(cmd[p], txs[cmd[p].ref]) = NoCode
             /\ Goto(p, "reversal")
             /\ UNCHANGED <<tables, cmd, tries, out, woken>>
    BY <1>1, <2>2, LookJudged
  <2>3. QED
    BY <1>2, <2>1, <2>2, RejectJudged DEF ResolveReference
<1>3. ASSUME RefusedReversal(p) PROVE Judged(p)'
  BY <1>3, RejectJudged DEF RefusedReversal
<1>4. pc[p] # "reference" => ReferenceFault(cmd[p], txs[cmd[p].ref]) = NoCode
  BY <1>1 DEF Judged, ReferenceFits
<1>5. CASE FindReversal(p)
  BY <1>1, <1>3, <1>4, <1>5, LookJudged DEF FindReversal
<1>6. CASE FindCrossReversal(p)
  BY <1>1, <1>3, <1>4, <1>6, LookJudged DEF FindCrossReversal
<1>7. QED
  BY <1>2, <1>5, <1>6

(* A process that holds its wallet has the judgement it moved with. *)
LEMMA MoveJudged ==
  ASSUME TypeInv, NEW p \in Processes, Judged(p), Move(p)
  PROVE  Judged(p)'
<1>1. CASE \E b : /\ SameVersion(p) /\ UNCHANGED snap
                  /\ Decide(p, Processed(b, TRUE))
  <2>1. UNCHANGED <<tables, cmd, snap>> /\ pc'[p] = "finish" /\ pc[p] = "move"
    BY <1>1 DEF Move, Decide, Goto, TypeInv, TypeOK
  <2>2. \A e, kind : Reversals(e, kind)' = Reversals(e, kind)
    BY <2>1 DEF Reversals, tables
  <2>3. WalletOwned(p)' /\ ReferenceFits(p)'
    BY <2>1 DEF Judged, WalletOwned, Owned, ReferenceFits, tables
  <2>4. Cleared(p)'
    BY <2>1, <2>2 DEF Judged, Cleared, tables, CrossKind
  <2>5. QED
    BY <2>3, <2>4 DEF Judged
<1>2. \/ \E code, b : Decide(p, Rejected(code, b))
      \/ Return(p, Failed("MONEY_OVERFLOW"))
      \/ Retry(p)
      \/ \E b : /\ SameVersion(p) /\ UNCHANGED snap
                /\ Decide(p, Processed(b, TRUE))
  BY DEF Move
<1>3. QED
  BY <1>1, <1>2, RejectJudged, ReturnJudged, RetryJudged

LEMMA FinishJudged ==
  ASSUME TypeInv, NEW p \in Processes, Judged(p), Finish(p)
  PROVE  Judged(p)'
<1>1. CASE Retry(p)
  BY <1>1, RetryJudged
<1>2. CASE Goto(p, "commit") /\ UNCHANGED <<cmd, snap, out>>
  <2>1. UNCHANGED tables /\ pc'[p] = "commit" /\ pc[p] = "finish"
    BY <1>2 DEF Finish, Goto, TypeInv, TypeOK
  <2>2. \A e, kind : Reversals(e, kind)' = Reversals(e, kind)
    BY <2>1 DEF Reversals, tables
  <2>3. HoldsWallet(p)' = HoldsWallet(p)
    BY <1>2, <2>1 DEF HoldsWallet
  <2>4. WalletOwned(p)' /\ ReferenceFits(p)'
    BY <1>2, <2>1, <2>3 DEF Judged, WalletOwned, Owned, ReferenceFits, tables
  <2>5. Cleared(p)'
    BY <1>2, <2>1, <2>2, <2>3 DEF Judged, Cleared, tables, CrossKind
  <2>6. QED
    BY <2>4, <2>5 DEF Judged
<1>3. QED
  BY <1>1, <1>2 DEF Finish

LEMMA OwnStepJudged ==
  ASSUME TypeInv, NEW p \in Processes, Judged(p), OwnStep(p)
  PROVE  Judged(p)'
BY BeginJudged, LoadWalletJudged, ReferenceJudged, MoveJudged, FinishJudged
DEF OwnStep

-----------------------------------------------------------------------------
(* Steps that write rows.                                                   *)

(* What a commit adds to the reversals of a reference. *)
LEMMA ReversalsWritten ==
  ASSUME RowsInv, NEW p \in Processes, pc[p] = "commit", Write(p),
         NEW e \in ExternalIds, NEW kind, ~out[p].moves \/ cmd[p].ref # e
  PROVE  Reversals(e, kind)' = Reversals(e, kind)
<1>1. /\ cmd[p].ext \in ExternalIds
      /\ txs[cmd[p].ext].status \notin Terminal
      /\ \A x \in ExternalIds : x # cmd[p].ext =>
           /\ txs'[x].status = txs[x].status
           /\ txs[x].status \in Terminal => txs'[x] = txs[x]
  BY RowsWritten DEF RowsInv
<1>2. txs'[cmd[p].ext].refTx # e
  BY <1>1, WalletsAssumption DEF Write, FinalRow
<1>3. QED
  BY <1>1, <1>2 DEF Reversals, Terminal

(* A process that does not step keeps its judgement: whoever has committed a
   reversal it looks for has moved its wallet. *)
LEMMA CommitKeepsJudgement ==
  ASSUME RowsInv, WalletInv, RowsKept, NEW p \in Processes, NEW q \in Processes,
         Judged(p), Judged(q), pc[p] = "commit", Write(p),
         pc'[q] = pc[q], cmd'[q] = cmd[q], snap'[q] = snap[q], out'[q] = out[q]
  PROVE  Judged(q)'
<1>1. TypeInv /\ (HoldsWallet(q)' <=> HoldsWallet(q))
  BY DEF RowsInv, HoldsWallet
<1>2. WalletOwned(q)'
  BY DEF Judged, WalletOwned, Owned
<1>3. ASSUME pc[q] \in {"reversal", "cross", "move"} \/ HoldsWallet(q),
             cmd[q].ref # NoRef
      PROVE  /\ cmd[q].ref \in ExternalIds
             /\ cmd[q].wallet \in Wallets
             /\ ReferenceFault(cmd[q], txs[cmd[q].ref]) = NoCode
             /\ txs'[cmd[q].ref] = txs[cmd[q].ref]
             /\ snap[q].version <= wallets[cmd[q].wallet].version
  <2>1. /\ pc[q] # "idle" /\ pc[q] \in AfterWallet /\ cmd[q] \in Commands
        /\ cmd[q].wallet \in Wallets
    BY <1>1, <1>3 DEF HoldsWallet, AfterWallet, TypeInv, ProcessShape
  <2>2. /\ cmd[q].ref \in ExternalIds
        /\ ReferenceFault(cmd[q], txs[cmd[q].ref]) = NoCode
    BY <1>3, <2>1, CommandFacts DEF Judged, ReferenceFits
  <2>3. txs[cmd[q].ref].status \in Terminal
    BY <2>2, FitFacts DEF Terminal
  <2>4. snap[q].version <= wallets[cmd[q].wallet].version
    BY <2>1 DEF WalletInv, Fine, SnapHonest
  <2>5. QED
    BY <2>1, <2>2, <2>3, <2>4 DEF RowsKept
<1>4. ReferenceFits(q)'
  BY <1>1, <1>3 DEF ReferenceFits
<1>5. Cleared(q)'
  <2> SUFFICES ASSUME pc[q] \in {"cross", "move"} \/ HoldsWallet(q),
                      cmd[q].ref # NoRef,
                      snap[q].version = wallets'[cmd[q].wallet].version
               PROVE  /\ Reversals(cmd[q].ref, cmd[q].kind)' = {}
                      /\ (pc[q] # "cross" /\ txs'[cmd[q].ref].cmd.kind = "BET")
                           => Reversals(cmd[q].ref, CrossKind(cmd[q].kind))' = {}
    BY <1>1 DEF Cleared, CrossKind
  <2>1. /\ cmd[q].ref \in ExternalIds
        /\ cmd[q].wallet \in Wallets
        /\ ReferenceFault(cmd[q], txs[cmd[q].ref]) = NoCode
        /\ txs'[cmd[q].ref] = txs[cmd[q].ref]
        /\ snap[q].version <= wallets[cmd[q].wallet].version
    BY <1>3
  <2>2. wallets[cmd[q].wallet].version \in Nat /\ snap[q].version \in Nat
    BY <1>1, <2>1 DEF TypeInv, TypeOK, Wallet
  <2>3. cmd[p].wallet \in Wallets
    BY <1>1 DEF TypeInv, ProcessShape, AfterWallet
  <2>4. out[p].moves =>
          wallets'[cmd[p].wallet].version = wallets[cmd[p].wallet].version + 1
    <3> SUFFICES ASSUME out[p].moves
                 PROVE  wallets'[cmd[p].wallet].version
                          = wallets[cmd[p].wallet].version + 1
      OBVIOUS
    <3>1. wallets'[cmd[p].wallet] = [balance |-> out[p].balance,
                                     version |-> wallets[cmd[p].wallet].version + 1]
      BY <1>1, <2>3 DEF Write, TypeInv, TypeOK
    <3>2. QED
      BY <3>1
  <2>5. ~(out[p].moves /\ cmd[p].wallet = cmd[q].wallet)
    BY <2>1, <2>2, <2>4
  <2>6. wallets'[cmd[q].wallet] = wallets[cmd[q].wallet]
    BY <1>1, <2>1, <2>5 DEF Write, TypeInv, TypeOK
  <2>7. ~out[p].moves \/ cmd[p].ref # cmd[q].ref
    <3> SUFFICES ASSUME out[p].moves, cmd[p].ref = cmd[q].ref PROVE FALSE
      OBVIOUS
    <3>1. HoldsWallet(p)
      BY DEF HoldsWallet
    <3>2. ReferenceFault(cmd[p], txs[cmd[q].ref]) = NoCode
      BY <3>1 DEF Judged, ReferenceFits
    <3>3. cmd[p].wallet = cmd[q].wallet
      BY <2>1, <3>2, FitFacts DEF Agrees
    <3>4. QED
      BY <2>5, <3>3
  <2>8. \A kind : Reversals(cmd[q].ref, kind)' = Reversals(cmd[q].ref, kind)
    <3>1. ASSUME NEW e \in ExternalIds, NEW kind, ~out[p].moves \/ cmd[p].ref # e
          PROVE  Reversals(e, kind)' = Reversals(e, kind)
      BY <3>1, ReversalsWritten
    <3>2. QED
      BY <2>1, <2>7, <3>1
  <2>9. QED
    BY <2>1, <2>6, <2>8 DEF Judged, Cleared
<1>6. QED
  BY <1>2, <1>4, <1>5 DEF Judged

(* A reversal that commits finds no other success in its way. *)
LEMMA NothingBars ==
  ASSUME TypeInv, WalletInv, RowsJustified, NEW p \in Processes, Judged(p),
         HoldsWallet(p), cmd[p].ref # NoRef
  PROVE  /\ cmd[p].ref \in ExternalIds
         /\ ReferenceFault(cmd[p], txs[cmd[p].ref]) = NoCode
         /\ cmd[p].kind \in {"WIN", "REFUND", "ROLLBACK"}
         /\ \A e \in ExternalIds :
              (txs[e].status = "PROCESSED" /\ txs[e].cmd.ref = cmd[p].ref) =>
                txs[e].cmd.kind \notin IF cmd[p].kind = "WIN" THEN {"WIN", "ROLLBACK"}
                                       ELSE {"REFUND", "ROLLBACK"}
<1> DEFINE c == cmd[p]
<1>1. /\ c \in Commands /\ c.ref \in ExternalIds
      /\ snap[p].version = wallets[c.wallet].version
  <2>1. pc[p] # "idle"
    BY DEF HoldsWallet
  <2>2. QED
    BY <2>1, CommandFacts DEF TypeInv, ProcessShape, WalletInv, Fine, MovementRight
<1>2. c.kind \in {"WIN", "REFUND", "ROLLBACK"}
  BY <1>1, CommandsAssumption DEF CommandType, ValidCommand, ExternalKinds
<1>3. ReferenceFault(c, txs[c.ref]) = NoCode
  BY DEF Judged, ReferenceFits
<1>4. txs[c.ref].cmd.kind \in Referenceable(c.kind)
  BY <1>3, FitFacts
<1>5. /\ Reversals(c.ref, c.kind) = {}
      /\ txs[c.ref].cmd.kind = "BET" => Reversals(c.ref, CrossKind(c.kind)) = {}
  BY <1>1 DEF Judged, Cleared, HoldsWallet
<1>6. ASSUME NEW e \in ExternalIds, txs[e].status = "PROCESSED", txs[e].cmd.ref = c.ref
      PROVE  txs[e].cmd.kind \notin IF c.kind = "WIN" THEN {"WIN", "ROLLBACK"}
                                    ELSE {"REFUND", "ROLLBACK"}
  <2>1. RowJustified(e)
    BY DEF RowsJustified
  <2>2. txs[e].refTx = c.ref /\ c.ref # NoRef
    BY <1>6, <2>1 DEF RowJustified
  <2>3. e \in Reversals(c.ref, txs[e].cmd.kind)
    BY <1>6, <2>2 DEF Reversals
  <2>4. txs[e].cmd.kind # c.kind
    BY <1>5, <2>3
  <2>5. CASE txs[c.ref].cmd.kind = "BET"
    <3>1. txs[e].cmd.kind # CrossKind(c.kind)
      BY <1>5, <2>3, <2>5
    <3>2. QED
      BY <1>2, <2>4, <3>1 DEF CrossKind
  <2>6. CASE txs[c.ref].cmd.kind # "BET"
    <3>1. c.kind = "ROLLBACK"
      BY <1>2, <1>4, <2>6 DEF Referenceable
    <3>2. ReferenceFault(txs[e].cmd, txs[c.ref]) = NoCode
      BY <1>6, <2>1, <2>2 DEF RowJustified
    <3>3. txs[c.ref].cmd.kind \in Referenceable(txs[e].cmd.kind)
      BY <3>2, FitFacts
    <3>4. txs[e].cmd.kind # "REFUND"
      BY <2>6, <3>3 DEF Referenceable
    <3>5. QED
      BY <2>4, <3>1, <3>4
  <2>7. QED
    BY <2>5, <2>6
<1>7. QED
  BY <1>1, <1>2, <1>3, <1>6

(* What the row that a commit writes says, by its outcome. *)
LEMMA SettledRow ==
  ASSUME RowsInv, AnswerInv, NEW p \in Processes, Judged(p), pc[p] = "commit",
         Write(p), out[p].status = "PROCESSED"
  PROVE  /\ txs'[cmd[p].ext].cmd = cmd[p]
         /\ txs'[cmd[p].ext].status = "PROCESSED"
         /\ txs'[cmd[p].ext].refTx = cmd[p].ref
         /\ cmd[p].ref # NoRef =>
              /\ HoldsWallet(p)
              /\ cmd[p].ref \in ExternalIds
              /\ ReferenceFault(cmd[p], txs[cmd[p].ref]) = NoCode
              /\ txs'[cmd[p].ref] = txs[cmd[p].ref]
<1>1. /\ TypeInv /\ cmd[p] \in Commands /\ cmd[p].ext \in ExternalIds
      /\ txs'[cmd[p].ext].cmd = cmd[p]
      /\ txs'[cmd[p].ext].status = "PROCESSED"
      /\ txs[cmd[p].ext].status \notin Terminal
      /\ \A x \in ExternalIds :
           x # cmd[p].ext /\ txs[x].status \in Terminal => txs'[x] = txs[x]
  BY RowsWritten DEF RowsInv, TypeInv, ProcessShape
<1>2. out[p].moves <=> cmd[p].kind # "LOSS"
  BY DEF AnswerInv, Answer, OutcomeRight
<1>3. cmd[p].kind = "LOSS" => cmd[p].ref = NoRef
  BY <1>1, CommandsAssumption DEF ValidCommand
<1>4. txs'[cmd[p].ext].refTx = cmd[p].ref
  BY <1>1, <1>2, <1>3 DEF Write, FinalRow
<1>5. ASSUME cmd[p].ref # NoRef
      PROVE  /\ HoldsWallet(p)
             /\ cmd[p].ref \in ExternalIds
             /\ ReferenceFault(cmd[p], txs[cmd[p].ref]) = NoCode
             /\ txs'[cmd[p].ref] = txs[cmd[p].ref]
  <2>1. HoldsWallet(p) /\ cmd[p].ref \in ExternalIds
    BY <1>1, <1>2, <1>3, <1>5, CommandFacts DEF HoldsWallet
  <2>2. ReferenceFault(cmd[p], txs[cmd[p].ref]) = NoCode
    BY <1>5, <2>1 DEF Judged, ReferenceFits
  <2>3. txs[cmd[p].ref].status \in Terminal
    BY <2>2, FitFacts DEF Terminal
  <2>4. QED
    BY <1>1, <2>1, <2>2, <2>3
<1>6. QED
  BY <1>1, <1>4, <1>5

LEMMA CommitJustified ==
  ASSUME RowsInv, AnswerInv, RowsKept, RowsJustified, NEW p \in Processes, Judged(p),
         pc[p] = "commit", Write(p)
  PROVE  RowsJustified'
<1> SUFFICES ASSUME NEW e \in ExternalIds PROVE RowJustified(e)'
  BY DEF RowsJustified
<1>1. /\ TypeInv /\ RowShape
      /\ txs'[cmd[p].ext].status = out[p].status
      /\ out[p].status # "ABSENT"
      /\ \A x \in ExternalIds : x # cmd[p].ext =>
           /\ txs'[x].cmd = txs[x].cmd /\ txs'[x].status = txs[x].status
           /\ txs[x].status \in Terminal => txs'[x] = txs[x]
  BY RowsWritten DEF RowsInv, TypeInv, Statuses
<1>2. RowJustified(e)
  BY DEF RowsJustified
<1>3. CASE e = cmd[p].ext
  BY <1>1, <1>3, SettledRow DEF RowJustified
<1>4. CASE e # cmd[p].ext
  <2>1. CASE txs[e].status = "PROCESSED"
    <3>1. txs'[e] = txs[e] /\ txs[e].cmd \in Commands
      BY <1>1, <1>4, <2>1 DEF Terminal, RowShape
    <3>2. ASSUME txs[e].cmd.ref # NoRef
          PROVE  txs'[txs[e].cmd.ref] = txs[txs[e].cmd.ref]
      <4>1. txs[e].cmd.ref \in ExternalIds
        BY <3>1, <3>2, CommandFacts
      <4>2. txs[txs[e].cmd.ref].status \in Terminal
        BY <1>2, <2>1, <3>2, FitFacts DEF RowJustified, Terminal
      <4>3. QED
        BY <4>1, <4>2 DEF RowsKept
    <3>3. QED
      BY <1>2, <2>1, <3>1, <3>2 DEF RowJustified
  <2>2. CASE txs[e].status # "PROCESSED"
    BY <1>1, <1>2, <1>4, <2>2 DEF RowJustified
  <2>3. QED
    BY <2>1, <2>2
<1>5. QED
  BY <1>3, <1>4

LEMMA CommitReversesOnce ==
  ASSUME RowsInv, WalletInv, AnswerInv, RowsJustified, SingleReversal,
         NEW p \in Processes, Judged(p), pc[p] = "commit", Write(p)
  PROVE  SingleReversal'
<1> DEFINE c == cmd[p]
<1>1. /\ TypeInv /\ c \in Commands /\ c.ext \in ExternalIds
      /\ txs'[c.ext].cmd = c /\ txs'[c.ext].status = out[p].status
      /\ txs[c.ext].status \notin Terminal
      /\ \A x \in ExternalIds : x # c.ext =>
           /\ txs'[x].cmd = txs[x].cmd /\ txs'[x].status = txs[x].status
           /\ txs[x].status \in Terminal => txs'[x] = txs[x]
  BY RowsWritten DEF RowsInv, TypeInv, ProcessShape
<1>2. \A e, x : x \in UndoneBy(e) <=>
        /\ x \in ExternalIds /\ txs[x].status = "PROCESSED"
        /\ IsReversal(txs[x].cmd.kind) /\ txs[x].cmd.ref = e
  BY DEF UndoneBy, Rows
<1>3. \A e, x : x \in UndoneBy(e)' <=>
        /\ x \in ExternalIds /\ txs'[x].status = "PROCESSED"
        /\ IsReversal(txs'[x].cmd.kind) /\ txs'[x].cmd.ref = e
  BY DEF UndoneBy, Rows
<1> SUFFICES ASSUME NEW e \in ExternalIds, NEW x \in UndoneBy(e)'
             PROVE  /\ UndoneBy(e)' = {x}
                    /\ txs'[e].status = "PROCESSED"
                    /\ txs'[e].cmd.wallet = txs'[x].cmd.wallet
                    /\ txs'[e].cmd.amount = txs'[x].cmd.amount
  BY DEF SingleReversal
<1>4. CASE out[p].status = "PROCESSED" /\ IsReversal(c.kind) /\ c.ref = e
  <2>1. c.ref # NoRef
    BY <1>4, WalletsAssumption
  <2>2. /\ HoldsWallet(p)
        /\ ReferenceFault(c, txs[e]) = NoCode
        /\ txs'[e] = txs[e]
    BY <1>4, <2>1, SettledRow
  <2>3. \A y \in ExternalIds :
          (txs[y].status = "PROCESSED" /\ txs[y].cmd.ref = e) =>
            txs[y].cmd.kind \notin {"REFUND", "ROLLBACK"}
    BY <1>1, <1>4, <2>1, <2>2, NothingBars DEF IsReversal
  <2>4. UndoneBy(e) = {}
    BY <1>2, <2>3 DEF IsReversal
  <2>5. UndoneBy(e)' = {c.ext}
    <3>1. c.ext \in UndoneBy(e)'
      BY <1>1, <1>3, <1>4
    <3>2. \A y : y \in UndoneBy(e)' /\ y # c.ext => y \in UndoneBy(e)
      BY <1>1, <1>2, <1>3
    <3>3. QED
      BY <2>4, <3>1, <3>2
  <2>6. /\ txs[e].status = "PROCESSED"
        /\ txs[e].cmd.wallet = c.wallet
        /\ txs[e].cmd.amount = c.amount
    BY <1>4, <2>2, FitFacts DEF Agrees
  <2>7. QED
    BY <1>1, <2>2, <2>5, <2>6
<1>5. CASE ~(out[p].status = "PROCESSED" /\ IsReversal(c.kind) /\ c.ref = e)
  <2>1. UndoneBy(e)' = UndoneBy(e)
    <3>1. c.ext \notin UndoneBy(e)' /\ c.ext \notin UndoneBy(e)
      BY <1>1, <1>2, <1>3, <1>5 DEF Terminal
    <3>2. \A y : y # c.ext => (y \in UndoneBy(e)' <=> y \in UndoneBy(e))
      BY <1>1, <1>2, <1>3
    <3>3. QED
      BY <3>1, <3>2
  <2>2. /\ UndoneBy(e) = {x}
        /\ txs[e].status = "PROCESSED"
        /\ txs[e].cmd.wallet = txs[x].cmd.wallet
        /\ txs[e].cmd.amount = txs[x].cmd.amount
    BY <2>1 DEF SingleReversal
  <2>3. x \in ExternalIds /\ txs[x].status = "PROCESSED"
    BY <1>2, <2>1
  <2>4. txs'[x] = txs[x] /\ txs'[e] = txs[e]
    BY <1>1, <2>2, <2>3 DEF Terminal
  <2>5. QED
    BY <2>1, <2>2, <2>4
<1>6. QED
  BY <1>4, <1>5

-----------------------------------------------------------------------------
(* One reversal for every stake.                                            *)

LEMMA InitJudged == Init => JudgeInv
<1> SUFFICES ASSUME Init PROVE JudgeInv
  OBVIOUS
<1>1. /\ \A p \in Processes : pc[p] = "idle"
      /\ \A e \in ExternalIds : txs[e].status = "ABSENT" /\ txs[e].cmd = NoCommand
  BY DEF Init, StartUp, AbsentRow
<1>2. \A p \in Processes : Judged(p)
  BY <1>1 DEF Judged, WalletOwned, ReferenceFits, Cleared, HoldsWallet
<1>3. RowsJustified /\ SingleReversal
  BY <1>1 DEF RowsJustified, RowJustified, SingleReversal, UndoneBy, Rows
<1>4. QED
  BY <1>2, <1>3 DEF JudgeInv

(* Rows that keep status, command and reference keep what is said of them. *)
LEMMA StillJudged ==
  ASSUME TypeInv, JudgeInv,
         \A e \in ExternalIds : /\ txs'[e].cmd = txs[e].cmd
                                /\ txs'[e].status = txs[e].status
                                /\ txs[e].status \in Terminal => txs'[e] = txs[e]
  PROVE  /\ RowsJustified' /\ SingleReversal'
         /\ \A e, kind : Reversals(e, kind)' = Reversals(e, kind)
<1>1. \A e, kind : Reversals(e, kind)' = Reversals(e, kind)
  BY DEF Reversals, Terminal
<1>2. \A e : UndoneBy(e)' = UndoneBy(e)
  BY DEF UndoneBy, Rows
<1>3. \A e, x : x \in UndoneBy(e) => x \in ExternalIds
  BY DEF UndoneBy, Rows
<1>4. SingleReversal'
  BY <1>2, <1>3 DEF JudgeInv, SingleReversal
<1>5. ASSUME NEW e \in ExternalIds PROVE RowJustified(e)'
  <2>1. RowJustified(e)
    BY DEF JudgeInv, RowsJustified
  <2>2. ASSUME txs[e].status = "PROCESSED", txs[e].cmd.ref # NoRef
        PROVE  txs'[txs[e].cmd.ref] = txs[txs[e].cmd.ref]
    <3>1. txs[e].cmd.ref \in ExternalIds
      BY <2>2, CommandFacts DEF TypeInv, RowShape
    <3>2. txs[txs[e].cmd.ref].status = "PROCESSED"
      BY <2>1, <2>2, FitFacts DEF RowJustified
    <3>3. QED
      BY <3>1, <3>2 DEF Terminal
  <2>3. QED
    BY <2>1, <2>2 DEF RowJustified, Terminal
<1>6. QED
  BY <1>1, <1>4, <1>5 DEF RowsJustified

LEMMA QuietJudged ==
  ASSUME TypeInv, NEW q \in Processes, Judged(q), UNCHANGED wallets,
         \A e \in ExternalIds : /\ txs'[e].cmd = txs[e].cmd
                                /\ txs'[e].status = txs[e].status
                                /\ txs[e].status \in Terminal => txs'[e] = txs[e],
         pc'[q] = pc[q], cmd'[q] = cmd[q], snap'[q] = snap[q], out'[q] = out[q]
  PROVE  Judged(q)'
<1>1. \A e, kind : Reversals(e, kind)' = Reversals(e, kind)
  BY DEF Reversals, Terminal
<1>2. HoldsWallet(q)' <=> HoldsWallet(q)
  BY DEF HoldsWallet
<1>3. WalletOwned(q)'
  BY DEF Judged, WalletOwned, Owned
<1>4. ASSUME pc[q] \in {"reversal", "cross", "move"} \/ HoldsWallet(q),
             cmd[q].ref # NoRef
      PROVE  /\ ReferenceFault(cmd[q], txs[cmd[q].ref]) = NoCode
             /\ txs'[cmd[q].ref] = txs[cmd[q].ref]
  <2>1. cmd[q].ref \in ExternalIds
    BY <1>4, CommandFacts DEF HoldsWallet, TypeInv, ProcessShape
  <2>2. ReferenceFault(cmd[q], txs[cmd[q].ref]) = NoCode
    BY <1>4 DEF Judged, ReferenceFits
  <2>3. txs[cmd[q].ref].status \in Terminal
    BY <2>2, FitFacts DEF Terminal
  <2>4. QED
    BY <2>1, <2>2, <2>3
<1>5. ReferenceFits(q)'
  BY <1>2, <1>4 DEF ReferenceFits
<1>6. Cleared(q)'
  BY <1>1, <1>2, <1>4 DEF Judged, Cleared, CrossKind
<1>7. QED
  BY <1>3, <1>5, <1>6 DEF Judged

LEMMA NextJudged ==
  RowsInv /\ WalletInv /\ AnswerInv /\ JudgeInv /\ [Next]_vars => JudgeInv'
<1> SUFFICES ASSUME RowsInv, WalletInv, AnswerInv, JudgeInv, [Next]_vars
             PROVE  JudgeInv'
  OBVIOUS
<1>1. TypeInv /\ RowsKept /\ RowsJustified /\ SingleReversal
      /\ \A p \in Processes : Judged(p)
  BY NextKeepsRows DEF RowsInv, JudgeInv
<1>2. ASSUME NEW p \in Processes, OwnStep(p) PROVE JudgeInv'
  <2>1. UNCHANGED <<wallets, txs>> /\ Others(p)
    BY <1>1, <1>2, OwnStepLeaves DEF tables
  <2>2. Judged(p)'
    BY <1>1, <1>2, OwnStepJudged
  <2>3. \A q \in Processes : q # p => Judged(q)'
    BY <1>1, <2>1, QuietJudged DEF Others
  <2>4. QED
    BY <1>1, <2>1, <2>2, <2>3, StillJudged DEF JudgeInv
<1>3. ASSUME NEW p \in Processes, Committing(p) PROVE JudgeInv'
  <2>1. pc[p] = "commit" /\ Write(p) /\ Others(p)
    BY <1>1, <1>3 DEF Committing, Return, Goto, Others, TypeInv, TypeOK
  <2>2. Judged(p)'
    BY <1>1, <1>3, ReturnJudged DEF Committing
  <2>3. \A q \in Processes : q # p => Judged(q)'
    BY <1>1, <2>1, CommitKeepsJudgement DEF Others
  <2>4. RowsJustified' /\ SingleReversal'
    BY <1>1, <2>1, CommitJustified, CommitReversesOnce
  <2>5. QED
    BY <2>2, <2>3, <2>4 DEF JudgeInv
<1>4. ASSUME NEW e \in ExternalIds, BecomeDue(e) PROVE JudgeInv'
  <2>1. UNCHANGED <<wallets, pc, cmd, snap, out>>
    BY <1>4 DEF BecomeDue, local
  <2>2. \A x \in ExternalIds :
          /\ txs'[x].cmd = txs[x].cmd
          /\ txs'[x].status = txs[x].status
          /\ txs[x].status \in Terminal => txs'[x] = txs[x]
    BY <1>4, BecomeDueLocked DEF RowsInv
  <2>3. \A q \in Processes : Judged(q)'
    BY <1>1, <2>1, <2>2, QuietJudged
  <2>4. QED
    BY <1>1, <2>2, <2>3, StillJudged DEF JudgeInv
<1>5. CASE UNCHANGED vars
  <2>1. UNCHANGED <<wallets, txs, pc, cmd, snap, out>>
    BY <1>5 DEF vars
  <2>2. \A q \in Processes : Judged(q)'
    BY <1>1, <2>1, QuietJudged
  <2>3. QED
    BY <1>1, <2>1, <2>2, StillJudged DEF JudgeInv
<1>6. QED
  BY <1>2, <1>3, <1>4, <1>5, StepCases

ServiceInv == RowsInv /\ WalletInv /\ AnswerInv /\ JudgeInv

LEMMA ServiceInvariant == Spec => []ServiceInv
BY WalletsInvariant, AnswersInvariant, InitJudged, NextJudged, PTL
DEF Spec, ServiceInv

\* The effect of an operation is undone at most once, by a REFUND or by a
\* ROLLBACK, whatever transactions race: both kinds are looked for and no index
\* covers the two together; and what is undone is a processed operation of the
\* same wallet and amount (resolveReference, UpdateBalance).
THEOREM ReversedAtMostOnce == Spec => []SingleReversal
<1>1. ServiceInv => SingleReversal
  BY DEF ServiceInv, JudgeInv
<1>2. QED
  BY <1>1, ServiceInvariant, PTL

-----------------------------------------------------------------------------
(* Every commit keeps a promise of WagerLedger.                             *)

PromisedBalance == [w \in Wallets |-> wallets[w].balance]
PromisedCommand == [e \in ExternalIds |-> txs[e].cmd]
PromisedState   == [e \in ExternalIds |-> txs[e].status]

(* The operation that commits is new under an unused key, or still waits. *)
LEMMA CommitAdmissible ==
  ASSUME ServiceInv, NEW p \in Processes, pc[p] = "commit"
  PROVE  Promise!Admissible(cmd[p])
<1> DEFINE c == cmd[p]
<1>1. /\ TypeInv /\ RowShape /\ c.ext \in ExternalIds /\ c.wallet \in Wallets
      /\ RowsJustified
  BY CommandFacts DEF ServiceInv, RowsInv, TypeInv, ProcessShape, AfterWallet, JudgeInv
<1>2. CASE p \in Servers
  <2>1. /\ txs[c.ext].status = "ABSENT"
        /\ \A e \in ExternalIds : txs[e].status # "ABSENT" => txs[e].cmd.key # c.key
    BY <1>2 DEF ServiceInv, RowsInv, LockInv, InsertedAlone, Inserted, AfterWallet
  <2>2. \A e \in ExternalIds : txs[e].cmd # NoCommand => txs[e].cmd.key # c.key
    BY <1>1, <2>1 DEF RowsJustified, RowJustified
  <2>3. QED
    BY <1>1, <2>1, <2>2 DEF Promise!Admissible
<1>3. CASE p \in Resolvers
  <2>1. txs[c.ext].status = "PENDING_REFERENCE" /\ txs[c.ext].cmd = c
    BY <1>3 DEF ServiceInv, RowsInv, LockInv, ClaimedRow
  <2>2. QED
    BY <1>1, <2>1 DEF Promise!Admissible
<1>4. QED
  BY <1>2, <1>3 DEF Processes

(* A commit records the operation with its outcome. *)
LEMMA CommitRecords ==
  ASSUME ServiceInv, NEW p \in Processes, pc[p] = "commit", Write(p)
  PROVE  Promise!Record(cmd[p], out[p].status)
<1>1. /\ cmd[p].ext \in ExternalIds
      /\ txs'[cmd[p].ext].cmd = cmd[p] /\ txs'[cmd[p].ext].status = out[p].status
      /\ \A e \in ExternalIds : e # cmd[p].ext =>
           txs'[e].cmd = txs[e].cmd /\ txs'[e].status = txs[e].status
  BY RowsWritten DEF ServiceInv, RowsInv
<1>2. PromisedCommand' = [PromisedCommand EXCEPT ![cmd[p].ext] = cmd[p]]
  BY <1>1 DEF PromisedCommand
<1>3. PromisedState' = [PromisedState EXCEPT ![cmd[p].ext] = out[p].status]
  BY <1>1 DEF PromisedState
<1>4. QED
  BY <1>2, <1>3 DEF Promise!Record, PromisedCommand, PromisedState

LEMMA CommitHonours ==
  ASSUME ServiceInv, NEW p \in Processes, pc[p] = "commit", out[p].moves,
         cmd[p].ref # NoRef
  PROVE  Promise!ReferenceHonoured(cmd[p])
<1> DEFINE c == cmd[p]
<1>1. /\ TypeInv /\ WalletInv /\ RowsJustified /\ Judged(p) /\ HoldsWallet(p)
  BY DEF ServiceInv, RowsInv, JudgeInv, HoldsWallet
<1>2. /\ c.ref \in ExternalIds
      /\ ReferenceFault(c, txs[c.ref]) = NoCode
      /\ c.kind \in {"WIN", "REFUND", "ROLLBACK"}
      /\ \A e \in ExternalIds :
           (txs[e].status = "PROCESSED" /\ txs[e].cmd.ref = c.ref) =>
             txs[e].cmd.kind \notin IF c.kind = "WIN" THEN {"WIN", "ROLLBACK"}
                                    ELSE {"REFUND", "ROLLBACK"}
  BY <1>1, NothingBars
<1>3. /\ txs[c.ref].status = "PROCESSED"
      /\ txs[c.ref].cmd.kind \in Referenceable(c.kind)
      /\ Agrees(c, txs[c.ref].cmd)
      /\ IsReversal(c.kind) => c.amount = txs[c.ref].cmd.amount
  BY <1>2, FitFacts
<1>4. \A e \in ExternalIds :
        (Promise!Succeeded(e) /\ PromisedCommand[e].ref = c.ref)
          => PromisedCommand[e].kind \notin Promise!Barring(c.kind)
  BY <1>2 DEF Promise!Succeeded, Promise!Barring, PromisedCommand
<1>5. Promise!Succeeded(c.ref) /\ PromisedCommand[c.ref] = txs[c.ref].cmd
  BY <1>2, <1>3 DEF Promise!Succeeded, PromisedCommand
<1>6. QED
  BY <1>2, <1>3, <1>4, <1>5
  DEF Promise!ReferenceHonoured, PromisedCommand, Agrees, Referenceable, IsReversal

(* The effect of the operation is the movement that was booked. *)
LEMMA CommitEffect ==
  ASSUME ServiceInv, NEW p \in Processes, pc[p] = "commit", Write(p)
  PROVE  LET c == cmd[p] IN
         /\ out[p].status = "PROCESSED" =>
              /\ PromisedBalance[c.wallet] + Promise!Effect(c) \in 0..MaxMinor
              /\ PromisedBalance' = [PromisedBalance EXCEPT
                                       ![c.wallet] = @ + Promise!Effect(c)]
         /\ out[p].status # "PROCESSED" => PromisedBalance' = PromisedBalance
<1> DEFINE c == cmd[p]
<1>1. /\ TypeInv /\ c \in Commands /\ c.wallet \in Wallets
      /\ c.amount \in 0..MaxMinor /\ MaxMinor \in Nat
      /\ c.kind \in ExternalKinds
      /\ c.ref # NoRef => c.ref \in ExternalIds
  BY CommandFacts, CommandsAssumption
  DEF ServiceInv, RowsInv, TypeInv, ProcessShape, AfterWallet, CommandType
<1>2. /\ wallets[c.wallet].balance \in 0..MaxMinor
      /\ PromisedBalance[c.wallet] = wallets[c.wallet].balance
  BY <1>1 DEF TypeInv, TypeOK, Wallet, PromisedBalance
<1>3. out[p].moves <=> out[p].status = "PROCESSED" /\ c.kind # "LOSS"
  BY DEF ServiceInv, AnswerInv, Answer, OutcomeRight
<1>4. CASE out[p].moves
  <2>1. /\ snap[p].balance = wallets[c.wallet].balance
        /\ out[p].balance = BalanceAfter(snap[p].balance, c.amount, Debit(c))
        /\ out[p].balance \in 0..MaxMinor
        /\ c.kind # "LOSS"
    <3>1. HoldsWallet(p) /\ Fine(p) /\ pc[p] \in AfterWallet
      BY <1>4 DEF HoldsWallet, ServiceInv, WalletInv, AfterWallet
    <3>2. QED
      BY <1>1, <1>3, <1>4, <3>1
      DEF Fine, SnapHonest, MovementRight, TypeInv, ProcessShape
  <2>2. c.kind # "BET" => c.ref # NoRef \/ c.kind = "WIN"
    BY <1>1, <2>1, CommandsAssumption DEF ValidCommand, IsReversal, ExternalKinds
  <2>3. c.kind = "ROLLBACK" =>
          /\ c.ref \in ExternalIds
          /\ txs[c.ref].cmd.kind \in {"BET", "WIN", "REFUND"}
    <3>1. SUFFICES ASSUME c.kind = "ROLLBACK"
                   PROVE  /\ c.ref \in ExternalIds
                          /\ txs[c.ref].cmd.kind \in {"BET", "WIN", "REFUND"}
      OBVIOUS
    <3>2. c.ref \in ExternalIds
      BY <1>1, <2>2, <3>1
    <3>3. ReferenceFault(c, txs[c.ref]) = NoCode
      BY <1>4, <3>2, WalletsAssumption
      DEF ServiceInv, JudgeInv, Judged, ReferenceFits, HoldsWallet
    <3>4. QED
      BY <3>1, <3>2, <3>3, FitFacts DEF Referenceable
  <2>4. out[p].balance = wallets[c.wallet].balance + Promise!Effect(c)
    <3>1. CASE c.kind = "BET"
      BY <1>1, <1>2, <2>1, <3>1 DEF Debit, Debits, BalanceAfter, Promise!Effect
    <3>2. CASE c.kind \in {"WIN", "REFUND"}
      BY <1>1, <1>2, <2>1, <3>2 DEF Debit, Debits, BalanceAfter, Promise!Effect
    <3>3. CASE c.kind = "ROLLBACK"
      <4>1. /\ Debit(c) <=> txs[c.ref].cmd.kind # "BET"
            /\ Promise!Effect(c) = IF txs[c.ref].cmd.kind = "BET" THEN c.amount
                                   ELSE -c.amount
        BY <2>3, <3>3, WalletsAssumption DEF Debit, Debits, Promise!Effect
      <4>2. QED
        BY <1>1, <1>2, <2>1, <4>1 DEF BalanceAfter
    <3>4. QED
      BY <1>1, <2>1, <3>1, <3>2, <3>3 DEF ExternalKinds
  <2>5. \A w \in Wallets : wallets'[w].balance =
          IF w = c.wallet THEN out[p].balance ELSE wallets[w].balance
    <3>1. wallets'[c.wallet] = [balance |-> out[p].balance,
                                version |-> wallets[c.wallet].version + 1]
      BY <1>1, <1>4 DEF Write, TypeInv, TypeOK
    <3>2. \A w \in Wallets : w # c.wallet => wallets'[w] = wallets[w]
      BY <1>1, <1>4 DEF Write, TypeInv, TypeOK
    <3>3. QED
      BY <3>1, <3>2
  <2> HIDE DEF c
  <2>6. PromisedBalance' = [PromisedBalance EXCEPT
                              ![c.wallet] = @ + Promise!Effect(c)]
    BY <1>1, <1>2, <2>4, <2>5 DEF PromisedBalance
  <2>7. QED
    BY <1>2, <1>3, <1>4, <2>1, <2>4, <2>6 DEF c
<1>5. CASE ~out[p].moves
  <2>1. wallets' = wallets /\ PromisedBalance' = PromisedBalance
    BY <1>5 DEF Write, PromisedBalance
  <2>2. ASSUME out[p].status = "PROCESSED" PROVE Promise!Effect(c) = 0
    BY <1>3, <1>5, <2>2 DEF Promise!Effect
  <2>3. PromisedBalance[c.wallet] \in Int
    BY <1>1, <1>2
  <2>4. ASSUME out[p].status = "PROCESSED"
        PROVE  PromisedBalance = [PromisedBalance EXCEPT
                                    ![c.wallet] = @ + Promise!Effect(c)]
    BY <1>1, <2>2, <2>3, <2>4 DEF PromisedBalance
  <2>5. QED
    BY <1>1, <1>2, <2>1, <2>2, <2>4
<1>6. QED
  BY <1>4, <1>5

LEMMA CommitKeepsPromise ==
  ASSUME ServiceInv, NEW p \in Processes, pc[p] = "commit", Write(p)
  PROVE  Promise!Next
<1>1. /\ cmd[p] \in Commands /\ out[p].status \in Statuses
      /\ cmd[p].wallet \in Wallets
  BY RowsWritten DEF ServiceInv, RowsInv, TypeInv, ProcessShape, AfterWallet
<1>2. PICK c \in Commands : c = cmd[p]
  BY <1>1
<1>3. PICK s \in Statuses : s = out[p].status
  BY <1>1
<1>4. Promise!Admissible(c)
  BY <1>2, CommitAdmissible DEF Promise!Admissible
<1>5. Promise!Record(c, s)
  BY <1>2, <1>3, CommitRecords DEF Promise!Record
<1>6. /\ out[p].moves <=> s = "PROCESSED" /\ c.kind # "LOSS"
      /\ s = "PENDING_REFERENCE" => c.ref # NoRef
  BY <1>2, <1>3 DEF ServiceInv, AnswerInv, Answer, OutcomeRight
<1>7. /\ s = "PROCESSED" =>
           /\ PromisedBalance[c.wallet] + Promise!Effect(c) \in 0..MaxMinor
           /\ PromisedBalance' = [PromisedBalance EXCEPT
                                    ![c.wallet] = @ + Promise!Effect(c)]
      /\ s # "PROCESSED" => PromisedBalance' = PromisedBalance
  <2>1. Promise!Effect(c) = Promise!Effect(cmd[p])
    BY <1>2 DEF Promise!Effect
  <2>2. QED
    BY <1>2, <1>3, <2>1, CommitEffect
<1>8. CASE s = "PROCESSED"
  <2>1. Owned(c)
    BY <1>2, <1>3, <1>8 DEF ServiceInv, JudgeInv, Judged, WalletOwned, Owned
  <2>2. c.ref # NoRef => out[p].moves
    BY <1>1, <1>6, <1>8, CommandsAssumption DEF ValidCommand
  <2>3. ASSUME c.ref # NoRef PROVE Promise!ReferenceHonoured(c)
    <3>1. out[p].moves /\ cmd[p].ref # NoRef
      BY <1>2, <2>2, <2>3
    <3>2. Promise!ReferenceHonoured(cmd[p])
      BY <3>1, CommitHonours
    <3>3. QED
      BY ONLY <1>2, <3>2 DEF Promise!ReferenceHonoured
  <2>4. Promise!Record(c, "PROCESSED")
    BY <1>5, <1>8
  <2>5. Promise!Process(c)
    BY <1>4, <1>7, <1>8, <2>1, <2>3, <2>4
    DEF Promise!Process, Owned, PromisedBalance
  <2>6. QED
    BY <2>5 DEF Promise!Next
<1>9. CASE s = "PENDING_REFERENCE"
  <2>1. Promise!Record(c, "PENDING_REFERENCE")
    BY <1>5, <1>9
  <2>2. Promise!Wait(c)
    BY <1>4, <1>6, <1>7, <1>9, <2>1 DEF Promise!Wait, PromisedBalance
  <2>3. QED
    BY <2>2 DEF Promise!Next
<1>10. CASE s = "REJECTED"
  <2>1. Promise!Record(c, "REJECTED")
    BY <1>5, <1>10
  <2>2. Promise!Reject(c)
    BY <1>4, <1>7, <1>10, <2>1 DEF Promise!Reject, PromisedBalance
  <2>3. QED
    BY <2>2 DEF Promise!Next
<1>11. QED
  BY <1>8, <1>9, <1>10 DEF Statuses

LEMMA PromiseStarts == Init => Promise!Init
<1> SUFFICES ASSUME Init PROVE Promise!Init
  OBVIOUS
<1>1. \A w \in Wallets : wallets[w].balance = Opening[w]
  BY DEF Init, StartUp
<1>2. \A e \in ExternalIds : txs[e].cmd = NoCommand /\ txs[e].status = "ABSENT"
  BY DEF Init, StartUp, AbsentRow
<1>3. QED
  BY <1>1, <1>2 DEF Promise!Init

LEMMA PromiseSteps ==
  ASSUME ServiceInv, [Next]_vars
  PROVE  [Promise!Next]_Promise!ledgerVars
<1>1. CASE UNCHANGED <<wallets, txs>>
  BY <1>1 DEF Promise!ledgerVars
<1>2. ASSUME NEW p \in Processes, Committing(p) PROVE Promise!Next
  BY <1>2, CommitKeepsPromise DEF Committing
<1>3. ASSUME NEW e \in ExternalIds, BecomeDue(e) PROVE UNCHANGED Promise!ledgerVars
  <2>1. /\ wallets' = wallets
        /\ \A x \in ExternalIds :
             txs'[x].cmd = txs[x].cmd /\ txs'[x].status = txs[x].status
    BY <1>3, BecomeDueLocked DEF ServiceInv, RowsInv, BecomeDue
  <2>2. UNCHANGED <<PromisedBalance, PromisedCommand, PromisedState>>
    BY <2>1 DEF PromisedBalance, PromisedCommand, PromisedState
  <2>3. QED
    BY <2>2 DEF Promise!ledgerVars, PromisedBalance, PromisedCommand, PromisedState
<1>4. ASSUME NEW p \in Processes, OwnStep(p) PROVE UNCHANGED <<wallets, txs>>
  BY <1>4, OwnStepLeaves DEF ServiceInv, RowsInv, tables
<1>5. QED
  BY <1>1, <1>2, <1>3, <1>4, StepCases DEF vars

\* The service implements WagerLedger: each commit accepts, parks, rejects or
\* settles one operation in one step that the balances, references and earlier
\* successes of that moment justify, although it was decided on what earlier
\* statements had read; everything else is invisible (processOnce, ResumeDue).
THEOREM PromiseIsKept == Spec => KeepsPromise
<1>1. ServiceInv /\ [Next]_vars => [Promise!Next]_Promise!ledgerVars
  BY PromiseSteps
<1>2. QED
  BY <1>1, PromiseStarts, ServiceInvariant, PTL DEF Spec, KeepsPromise, Promise!Spec

-----------------------------------------------------------------------------
(* Somebody can always go on.                                               *)

(* Whoever waits for rows waits for a resolver that claimed one, and that
   resolver waits for nothing: its reference has not settled. *)
LEMMA RowHolderRuns ==
  ASSUME ServiceInv, NEW p \in Processes, pc[p] = "finish", Waiting(p)
  PROVE  \E q \in Processes : pc[q] # "idle" /\ ~Waiting(q)
<1>1. PICK e \in Dependents(p) : ~RowFree(p, e)
  BY DEF Waiting
<1>2. PICK q \in Processes \ {p} : HoldsRow(q, e)
  BY <1>1 DEF RowFree
<1>3. TypeInv /\ LockInv
  BY DEF ServiceInv, RowsInv
<1>4. txs[e].cmd.ref = cmd[p].ext /\ cmd[p].ext \in ExternalIds
  BY <1>1, <1>3, CommandFacts DEF Dependents, TypeInv, ProcessShape
<1>5. CASE e \in woken[q]
  <2>1. pc[q] = "commit"
    BY <1>3, <1>5 DEF LockInv, WokenRows
  <2>2. QED
    BY <1>2, <2>1 DEF Waiting
<1>6. CASE q \in Resolvers /\ pc[q] # "idle" /\ cmd[q].ext = e
  <2>1. cmd[q] = txs[e].cmd
    BY <1>3, <1>6 DEF LockInv, ClaimedRow
  <2>2. cmd[q].ref = cmd[p].ext /\ cmd[q].ref # NoRef
    BY <1>4, <2>1, WalletsAssumption
  <2>3. txs[cmd[q].ref].status # "PROCESSED"
    <3>1. p \in Servers => txs[cmd[p].ext].status = "ABSENT"
      BY <1>3 DEF LockInv, InsertedAlone, Inserted, AfterWallet
    <3>2. p \in Resolvers => txs[cmd[p].ext].status = "PENDING_REFERENCE"
      BY <1>3 DEF LockInv, ClaimedRow
    <3>3. QED
      BY <2>2, <3>1, <3>2 DEF Processes
  <2>4. ~(pc[q] \in {"reversal", "cross", "move"} \/ HoldsWallet(q))
    BY <1>2, <2>2, <2>3 DEF ServiceInv, WalletInv, Fine, ReferenceSettled
  <2>5. pc[q] # "insert"
    BY <1>2, <1>3, <1>6, ServiceAssumption DEF TypeInv, ProcessShape
  <2>6. ~(pc[q] = "finish" /\ out[q].status = "PROCESSED")
    <3>1. SUFFICES ASSUME pc[q] = "finish", out[q].status = "PROCESSED" PROVE FALSE
      OBVIOUS
    <3>2. cmd[q].kind # "LOSS"
      BY <1>3, <1>6, <2>2, CommandsAssumption DEF TypeInv, ProcessShape, ValidCommand
    <3>3. out[q].moves
      BY <1>2, <3>1, <3>2 DEF ServiceInv, AnswerInv, Answer, OutcomeRight
    <3>4. QED
      BY <2>4, <3>1, <3>3 DEF HoldsWallet
  <2>7. ~Waiting(q)
    BY <2>4, <2>5, <2>6 DEF Waiting
  <2>8. QED
    BY <1>2, <1>6, <2>7
<1>7. QED
  BY <1>2, <1>5, <1>6 DEF HoldsRow

LEMMA WalletHolderRuns ==
  ASSUME ServiceInv, NEW p \in Processes, pc[p] = "move", Waiting(p)
  PROVE  \E q \in Processes : pc[q] # "idle" /\ ~Waiting(q)
<1>1. PICK q \in Processes : HoldsWallet(q)
  BY DEF Waiting, WalletFree
<1>2. CASE pc[q] = "commit"
  BY <1>2 DEF Waiting
<1>3. CASE pc[q] = "finish"
  BY <1>3, RowHolderRuns
<1>4. QED
  BY <1>1, <1>2, <1>3 DEF HoldsWallet

LEMMA InserterRuns ==
  ASSUME ServiceInv, NEW p \in Processes, pc[p] = "insert", Waiting(p)
  PROVE  \E q \in Processes : pc[q] # "idle" /\ ~Waiting(q)
<1>1. PICK q \in Servers : Inserted(q)
  BY DEF Waiting, InsertBlocked
<1>2. q \in Processes /\ pc[q] \in {"wallet"} \cup AfterWallet
  BY <1>1 DEF Inserted, Processes
<1>3. CASE pc[q] \in {"move", "finish"}
  BY <1>2, <1>3, WalletHolderRuns, RowHolderRuns
<1>4. CASE pc[q] \notin {"move", "finish"}
  BY <1>2, <1>4 DEF Waiting, AfterWallet
<1>5. QED
  BY <1>3, <1>4

\* Inserts wait on unique indexes, wallet updates on row locks and wake-ups on
\* claimed rows, taken in different orders, and the waits never form a circle:
\* while a transaction is in progress, one is that waits for nobody
\* (UpdateBalance, WakeDependents, ClaimOne).
THEOREM SomeoneAlwaysRuns == Spec => []SomeoneRuns
<1>1. ServiceInv => SomeoneRuns
  <2> SUFFICES ASSUME ServiceInv, NEW p \in Processes, pc[p] # "idle"
               PROVE  \E q \in Processes : pc[q] # "idle" /\ ~Waiting(q)
    BY DEF SomeoneRuns
  <2>1. CASE ~Waiting(p)
    BY <2>1
  <2>2. CASE Waiting(p)
    BY <2>2, RowHolderRuns, WalletHolderRuns, InserterRuns DEF Waiting
  <2>3. QED
    BY <2>1, <2>2
<1>2. QED
  BY <1>1, ServiceInvariant, PTL
=============================================================================
