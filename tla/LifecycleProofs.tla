---------------------------- MODULE LifecycleProofs ----------------------------
(***************************************************************************)
(* How processes stop and start: the order in which one stops is safe for   *)
(* any batch size and any number of requests; and any number of processes   *)
(* may start together on one database and one broker, with any number of    *)
(* migrations.                                                              *)
(***************************************************************************)
EXTENDS Bootstrap, FiniteSetTheorems, TLAPS

\* The hook of c may have returned.
Finished(c) ==
  /\ c \in told
  /\ c \in Loops => c \notin running
  /\ c = "http" => work["http"] = 0 \/ cutShort

\* Hooks are called in order, and one that returned stays finished.
HooksInOrder ==
  /\ \A i \in 1..5 : StopOrder[i] \in told => i <= hook
  /\ \A i \in 1..5 : i < hook => Finished(StopOrder[i])
  /\ phase = "gone" => hook = 6 \/ late

\* Only a loop that runs has work.
WorkHasLoop ==
  /\ \A l \in Loops : work[l] > 0 => l \in running
  /\ handling => work["consumer"] > 0

StopInv == TypeOK /\ HooksInOrder /\ WorkHasLoop

-----------------------------------------------------------------------------

\* StopOrder names each component once.
LEMMA Order ==
  /\ Len(StopOrder) = 5
  /\ StopOrder[1] = "consumer" /\ StopOrder[2] = "outbox"
  /\ StopOrder[3] = "resolver" /\ StopOrder[4] = "http"
  /\ StopOrder[5] = "pool"
  /\ \A i, j \in 1..5 : StopOrder[i] = StopOrder[j] => i = j
  /\ \A i \in 1..5 : StopOrder[i] \in Loops \cup {"http", "pool"}
BY DEF StopOrder, Loops, Workers

\* The initial state.
LEMMA InitStop ==
  ASSUME Init
  PROVE  StopInv
<1>1. TypeOK
  <2>1. /\ phase \in {"up", "stopping", "gone"}
        /\ hook \in 1..(Len(StopOrder) + 1)
        /\ told \subseteq Loops \cup {"http", "pool"}
        /\ running \subseteq Loops
        /\ work \in [Loops \cup {"http"} -> Nat]
    BY Order DEF Init
  <2>2. handling \in BOOLEAN /\ late \in BOOLEAN /\ cutShort \in BOOLEAN
    BY Zenon DEF Init
  <2> QED
    BY <2>1, <2>2 DEF TypeOK
<1>2. HooksInOrder
  BY DEF Init, HooksInOrder
<1>3. WorkHasLoop
  BY DEF Init, WorkHasLoop
<1> QED
  BY <1>1, <1>2, <1>3 DEF StopInv

\* A step of a component at work: no hook is called or returns.
LEMMA WorkKeepsOrder ==
  ASSUME StopInv, UNCHANGED <<phase, hook, told, late, cutShort>>,
         running' \subseteq running,
         "http" \in told => work'["http"] <= work["http"],
         work' \in [Loops \cup {"http"} -> Nat]
  PROVE  HooksInOrder'
<1>1. \A c : Finished(c) => Finished(c)'
  BY DEF Finished, StopInv, TypeOK
<1> QED
  BY <1>1, Order DEF StopInv, HooksInOrder

\* The consumer takes a batch and works it off.
LEMMA ConsumerKeeps ==
  ASSUME StopInv, Receive \/ BeginMessage \/ EndMessage
  PROVE  StopInv'
<1>1. "consumer" \in Loops /\ "http" \notin Loops
  BY DEF Loops, Workers
<1>2. CASE Receive
  <2>1. PICK n \in 1..MaxMessages : work' = [work EXCEPT !["consumer"] = n]
    BY <1>2 DEF Receive
  <2>2. n \in Nat
    BY LifecycleAssumption
  <2> QED
    BY <1>1, <1>2, <2>1, <2>2, WorkKeepsOrder
    DEF Receive, Polls, StopInv, TypeOK, WorkHasLoop
<1>3. CASE BeginMessage
  BY <1>1, <1>3, WorkKeepsOrder DEF BeginMessage, StopInv, TypeOK, WorkHasLoop
<1>4. CASE EndMessage
  <2>1. /\ work["consumer"] \in Nat /\ work["consumer"] > 0
        /\ work' = [work EXCEPT !["consumer"] = work["consumer"] - 1]
    BY <1>1, <1>4 DEF EndMessage, StopInv, TypeOK, WorkHasLoop
  <2>2. work' \in [Loops \cup {"http"} -> Nat] /\ work'["http"] = work["http"]
    BY <1>1, <2>1 DEF StopInv, TypeOK
  <2>3. HooksInOrder'
    BY <1>4, <2>2, WorkKeepsOrder DEF EndMessage, StopInv, TypeOK
  <2>4. WorkHasLoop'
    BY <1>1, <1>4, <2>1 DEF EndMessage, StopInv, TypeOK, WorkHasLoop
  <2> QED
    BY <1>4, <2>2, <2>3, <2>4 DEF EndMessage, StopInv, TypeOK
<1> QED
  BY <1>2, <1>3, <1>4

\* A worker serves a tick.
LEMMA WorkerKeeps ==
  ASSUME StopInv, NEW w \in Workers, Step(w)
  PROVE  StopInv'
<1>1. w \in Loops /\ w # "consumer" /\ w # "http" /\ "http" \notin Loops
      /\ "consumer" \in Loops
  BY DEF Loops, Workers
<1>2. CASE BeginIteration(w)
  BY <1>1, <1>2, WorkKeepsOrder DEF BeginIteration, StopInv, TypeOK, WorkHasLoop
<1>3. CASE EndIteration(w)
  BY <1>1, <1>3, WorkKeepsOrder DEF EndIteration, StopInv, TypeOK, WorkHasLoop
<1> QED
  BY <1>2, <1>3 DEF Step

\* A loop without work returns.
LEMMA ReturnKeeps ==
  ASSUME StopInv, NEW l \in Loops, Return(l)
  PROVE  StopInv'
<1>1. HooksInOrder'
  BY WorkKeepsOrder DEF Return, StopInv, TypeOK
<1> QED
  BY <1>1 DEF Return, StopInv, TypeOK, WorkHasLoop

\* HTTP takes requests until its hook is called and answers them.
LEMMA HttpKeeps ==
  ASSUME StopInv, Accept \/ Respond
  PROVE  StopInv'
<1>1. "http" \notin Loops /\ "consumer" \in Loops
  BY DEF Loops, Workers
<1>2. CASE Accept
  BY <1>1, <1>2, WorkKeepsOrder DEF Accept, StopInv, TypeOK, WorkHasLoop
<1>3. CASE Respond
  BY <1>1, <1>3, WorkKeepsOrder DEF Respond, StopInv, TypeOK, WorkHasLoop
<1> QED
  BY <1>2, <1>3

-----------------------------------------------------------------------------

\* The hook whose turn it is is called.
LEMMA CallKeeps ==
  ASSUME StopInv, CallHook
  PROVE  StopInv'
<1>1. /\ hook \in 1..5
      /\ told' = told \cup {StopOrder[hook]}
      /\ UNCHANGED <<phase, hook, running, work, handling, late, cutShort>>
  BY Order DEF CallHook, AllReturned, StopInv, TypeOK
<1>2. \A c : Finished(c) => Finished(c)'
  BY <1>1 DEF Finished
<1>3. HooksInOrder'
  BY <1>1, <1>2, Order DEF StopInv, HooksInOrder
<1>4. TypeOK'
  BY <1>1, Order DEF StopInv, TypeOK
<1> QED
  BY <1>1, <1>3, <1>4 DEF StopInv, WorkHasLoop

\* A hook returns once what it waits for is done.
LEMMA HookReturnsKeeps ==
  ASSUME StopInv, HookReturns
  PROVE  StopInv'
<1>1. /\ hook \in 1..5 /\ hook' = hook + 1
      /\ StopOrder[hook] \in told /\ Done(StopOrder[hook])
      /\ UNCHANGED <<phase, told, running, work, handling, late, cutShort>>
      /\ phase = "stopping"
  BY Order DEF HookReturns, AllReturned, StopInv, TypeOK
<1>2. "http" \notin Loops /\ "pool" \notin Loops
  BY DEF Loops, Workers
<1>3. Finished(StopOrder[hook])
  <2>1. CASE StopOrder[hook] \in Loops
    BY <1>1, <1>2, <2>1 DEF Done, Finished
  <2>2. CASE StopOrder[hook] = "http"
    BY <1>1, <1>2, <2>2 DEF Done, Finished
  <2>3. CASE StopOrder[hook] = "pool"
    BY <1>1, <1>2, <2>3 DEF Finished
  <2> QED
    BY <1>1, <2>1, <2>2, <2>3, Order
<1>4. \A c : Finished(c) => Finished(c)'
  BY <1>1 DEF Finished
<1>5. HooksInOrder'
  BY <1>1, <1>3, <1>4, Order DEF StopInv, HooksInOrder, TypeOK
<1>6. TypeOK'
  BY <1>1, Order DEF StopInv, TypeOK
<1> QED
  BY <1>1, <1>5, <1>6 DEF StopInv, WorkHasLoop

\* A signal arrives, a deadline passes, the process ends.
LEMMA PhaseKeeps ==
  ASSUME StopInv, Signal \/ HttpDeadline \/ StopDeadline \/ Exit
  PROVE  StopInv'
<1>1. \A c : Finished(c) => Finished(c)'
  BY DEF Finished, Signal, HttpDeadline, StopDeadline, Exit
<1>2. UNCHANGED <<hook, told>>
  BY DEF Signal, HttpDeadline, StopDeadline, Exit
<1>3. phase' = "gone" => hook = 6 \/ late'
  <2>1. CASE Exit
    BY <2>1, Order DEF Exit, AllReturned, StopInv, TypeOK
  <2>2. CASE Signal
    BY <2>2 DEF Signal
  <2>3. CASE HttpDeadline \/ StopDeadline
    BY <2>3 DEF HttpDeadline, StopDeadline
  <2> QED
    BY <2>1, <2>2, <2>3
<1>4. HooksInOrder'
  BY <1>1, <1>2, <1>3 DEF StopInv, HooksInOrder
<1>5. UNCHANGED <<hook, told, running, work, handling>>
  BY DEF Signal, HttpDeadline, StopDeadline, Exit
<1>6. phase' \in {"up", "stopping", "gone"}
  BY DEF StopInv, TypeOK, Signal, HttpDeadline, StopDeadline, Exit
<1>7. late' \in BOOLEAN /\ cutShort' \in BOOLEAN
  BY Zenon DEF StopInv, TypeOK, Signal, HttpDeadline, StopDeadline, Exit
<1>8. TypeOK'
  BY <1>5, <1>6, <1>7 DEF StopInv, TypeOK
<1>9. WorkHasLoop'
  BY <1>5 DEF StopInv, WorkHasLoop
<1> QED
  BY <1>4, <1>8, <1>9 DEF StopInv

\* Every step keeps the invariant.
LEMMA NextKeeps ==
  ASSUME StopInv, [Next]_vars
  PROVE  StopInv'
<1>1. CASE UNCHANGED vars
  BY <1>1, Order DEF vars, StopInv, TypeOK, HooksInOrder, Finished, WorkHasLoop
<1>2. CASE Next
  BY <1>1, <1>2, ConsumerKeeps, WorkerKeeps, ReturnKeeps, HttpKeeps, CallKeeps,
     HookReturnsKeeps, PhaseKeeps DEF Next, Gone
<1> QED
  BY <1>1, <1>2

\* The invariant of the stop holds throughout.
LEMMA StopInvariant == Spec => []StopInv
BY InitStop, NextKeeps, PTL DEF Spec

-----------------------------------------------------------------------------

\* Every variable keeps its type; a batch never has less than no messages.
THEOREM LifecycleTypes == Spec => []TypeOK
<1>1. StopInv => TypeOK
  BY DEF StopInv
<1> QED
  BY <1>1, StopInvariant, PTL

\* The pool is closed after everything that uses it has stopped (OnStop of the
\* pool is the last hook), whatever the sizes of batches.
THEOREM PoolOutlives == Spec => []PoolOutlivesWork
<1>1. StopInv => PoolOutlivesWork
  <2> SUFFICES ASSUME StopInv, "pool" \in told
               PROVE  running = {} /\ ~handling /\ (work["http"] > 0 => cutShort)
    BY DEF PoolOutlivesWork
  <2>1. hook \in 5..6
    BY Order DEF StopInv, TypeOK, HooksInOrder
  <2>2. /\ Finished("consumer") /\ Finished("outbox")
        /\ Finished("resolver") /\ Finished("http")
    BY <2>1, Order DEF StopInv, HooksInOrder
  <2>3. running = {}
    BY <2>2 DEF Finished, Loops, Workers, StopInv, TypeOK
  <2> QED
    BY <2>2, <2>3 DEF Finished, StopInv, WorkHasLoop, Loops
<1> QED
  BY <1>1, StopInvariant, PTL

\* A process that stops within its deadlines leaves no message, no iteration
\* and no request half done.
THEOREM StopIsClean == Spec => []CleanStop
<1>1. StopInv => CleanStop
  <2> SUFFICES ASSUME StopInv, phase = "gone", ~late, ~cutShort
               PROVE  running = {} /\ \A c \in DOMAIN work : work[c] = 0
    BY DEF CleanStop
  <2>1. hook = 6
    BY DEF StopInv, HooksInOrder
  <2>2. /\ Finished("consumer") /\ Finished("outbox")
        /\ Finished("resolver") /\ Finished("http")
    BY <2>1, Order DEF StopInv, HooksInOrder
  <2>3. running = {}
    BY <2>2 DEF Finished, Loops, Workers, StopInv, TypeOK
  <2>4. work["http"] = 0
    BY <2>2 DEF Finished
  <2> QED
    BY <2>3, <2>4 DEF StopInv, TypeOK, WorkHasLoop
<1> QED
  BY <1>1, StopInvariant, PTL

-----------------------------------------------------------------------------
(* Starting together: the migrations.                                       *)

Ascending(seq) == \A i, j \in DOMAIN seq : i < j => seq[i] < seq[j]
In(seq)        == {seq[i] : i \in DOMAIN seq}
Working(s)     == pc[s] \in {"lock", "script", "record"}

\* The instances keep their types; an operator's list is nobody's business.
SchemaTypes ==
  /\ mishaps \in Nat
  /\ pc \in [Instances \cup Operators ->
               {"start", "lock", "script", "record", "done", "failed"}]
  /\ DOMAIN todo = Instances \cup Operators
  /\ todo = [r \in Instances \cup Operators |-> todo[r]]
  /\ \A s \in Instances :
       /\ todo[s] \in Seq(Versions) /\ Ascending(todo[s])
       /\ Working(s) => todo[s] # <<>>

\* An instance has still to apply, in order, all that it has not seen recorded,
\* and what is recorded has no gap.
Upwards ==
  /\ recorded \subseteq Versions
  /\ \A v \in recorded : \A u \in Versions : u < v => u \in recorded
  /\ \A s \in Instances :
       /\ pc[s] # "start" => Versions \subseteq recorded \cup In(todo[s])
       /\ pc[s] = "done" => todo[s] = <<>>

\* Nobody is ahead of s: it will find none of its versions applied.
Leads(s) ==
  pc[s] \in {"start", "done"} \/ (Working(s) /\ In(todo[s]) \cap recorded = {})

SchemaInv ==
  /\ SchemaTypes
  /\ recorded = present
  /\ Schema!NobodyReverts => Upwards
  /\ (Schema!NobodyReverts /\ mishaps = 0) => \E s \in Instances : Leads(s)

\* Load puts the versions in order and leaves none out.
LEMMA Sorted ==
  ASSUME NEW S, S \subseteq Versions, NEW seq \in Schema!LoadOrders(S)
  PROVE  seq \in Seq(Versions) /\ Ascending(seq) /\ In(seq) = S
<1>1. IsFiniteSet(S) /\ Cardinality(S) \in Nat
  BY BootstrapAssumption, FS_Subset, FS_CardinalityType
<1>2. Schema!Cardinality(S) = Cardinality(S)
  BY DEF Schema!Cardinality, Cardinality
<1>3. /\ seq \in [1..Cardinality(S) -> S]
      /\ \A i, j \in 1..Cardinality(S) : i # j => seq[i] # seq[j]
      /\ Ascending(seq)
  BY <1>2 DEF Schema!LoadOrders, Schema!AnyOrder, Schema!SetToSeqs, Ascending
<1>4. seq \in Injection(1..Cardinality(S), S)
  BY <1>3 DEF Injection, IsInjective
<1>5. seq \in Surjection(1..Cardinality(S), S)
  <2>1. IsFiniteSet(1..Cardinality(S)) /\ Cardinality(1..Cardinality(S)) = Cardinality(S)
    BY <1>1, FS_Interval
  <2> QED BY <1>1, <1>4, <2>1, FS_Injection
<1>6. In(seq) = S
  BY <1>3, <1>5 DEF Surjection, In
<1>7. seq \in Seq(Versions)
  BY <1>1, <1>3
<1> QED BY <1>3, <1>6, <1>7

\* The rest of an ordered list is ordered, and all of it is later.
LEMMA RestOf ==
  ASSUME NEW seq \in Seq(Versions), Ascending(seq), seq # <<>>
  PROVE  /\ Head(seq) \in Versions /\ Tail(seq) \in Seq(Versions)
         /\ Ascending(Tail(seq))
         /\ In(seq) = {Head(seq)} \cup In(Tail(seq))
         /\ \A v \in In(Tail(seq)) : Head(seq) < v
<1>1. /\ Len(seq) \in Nat \ {0} /\ Len(Tail(seq)) = Len(seq) - 1
      /\ Head(seq) = seq[1] /\ DOMAIN seq = 1..Len(seq)
      /\ Tail(seq) \in Seq(Versions) /\ DOMAIN Tail(seq) = 1..Len(Tail(seq))
      /\ \A i \in 1..Len(Tail(seq)) : Tail(seq)[i] = seq[i + 1]
  OBVIOUS
<1>2. Head(seq) \in Versions
  BY <1>1
<1>3. Ascending(Tail(seq))
  BY <1>1 DEF Ascending
<1>4. \A v \in In(Tail(seq)) : Head(seq) < v /\ v \in In(seq)
  BY <1>1 DEF Ascending, In
<1>5. ASSUME NEW v \in In(seq), v # Head(seq) PROVE v \in In(Tail(seq))
  <2>1. PICK i \in 1..Len(seq) : seq[i] = v
    BY <1>1 DEF In
  <2>2. i - 1 \in 1..Len(Tail(seq)) /\ Tail(seq)[i - 1] = v
    BY <1>1, <1>5, <2>1
  <2> QED BY <1>1, <2>2 DEF In
<1>6. Head(seq) \in In(seq)
  BY <1>1 DEF In
<1> QED BY <1>1, <1>2, <1>3, <1>4, <1>5, <1>6

\* A sequence with nothing in it is empty.
LEMMA NothingIn == In(<<>>) = {}
BY DEF In

\* Every state in which the processes start.
LEMMA InitSchema == Schema!Init => SchemaInv
<1> SUFFICES ASSUME Schema!Init PROVE SchemaInv
  OBVIOUS
<1>1. /\ pc = [r \in Instances \cup Operators |-> "start"]
      /\ todo = [r \in Instances \cup Operators |-> <<>>]
      /\ recorded = present /\ recorded \in {{}, Versions} /\ mishaps = 0
  BY DEF Schema!Init, Schema!Runners
<1>2. SchemaTypes
  BY <1>1 DEF SchemaTypes, Ascending, Working
<1>3. Upwards
  BY <1>1 DEF Upwards
<1>4. Leads(Me)
  BY <1>1, BootstrapAssumption DEF Leads
<1> QED BY <1>1, <1>2, <1>3, <1>4, BootstrapAssumption DEF SchemaInv

\* An instance reads what is recorded: what it then has to do is the rest.
LEMMA ReadSchema ==
  ASSUME SchemaInv, NEW s \in Instances, Schema!ReadApplied(s)
  PROVE  SchemaInv'
<1> USE DEF SchemaInv
<1>1. /\ pc[s] = "start" /\ UNCHANGED <<present, recorded, mishaps>>
      /\ \E seq \in Schema!LoadOrders(Versions \ recorded) : Schema!NextOrDone(s, seq)
  BY BootstrapAssumption DEF Schema!ReadApplied
<1>2. PICK seq \in Schema!LoadOrders(Versions \ recorded) : Schema!NextOrDone(s, seq)
  BY <1>1
<1>3. /\ seq \in Seq(Versions) /\ Ascending(seq) /\ In(seq) = Versions \ recorded
      /\ todo' = [todo EXCEPT ![s] = seq]
      /\ pc' = [pc EXCEPT ![s] = IF seq = <<>> THEN "done" ELSE "lock"]
  BY <1>2, Sorted DEF Schema!NextOrDone, Schema!Goto
<1>4. SchemaTypes'
  BY <1>1, <1>3 DEF SchemaTypes, Working
<1>5. Schema!NobodyReverts' <=> Schema!NobodyReverts
  BY <1>3, BootstrapAssumption DEF Schema!NobodyReverts, SchemaTypes
<1>6. ASSUME Schema!NobodyReverts PROVE Upwards'
  <2>1. ASSUME NEW r \in Instances
        PROVE  /\ pc'[r] # "start" => Versions \subseteq recorded \cup In(todo'[r])
               /\ pc'[r] = "done" => todo'[r] = <<>>
    <3>1. CASE r = s
      BY <1>3, <3>1 DEF SchemaTypes
    <3>2. CASE r # s
      BY <1>3, <1>6, <3>2 DEF SchemaTypes, Upwards
    <3> QED BY <3>1, <3>2
  <2> QED BY <1>1, <1>6, <2>1 DEF Upwards
<1>7. Leads(s)'
  BY <1>1, <1>3 DEF Leads, Working, SchemaTypes
<1> QED BY <1>1, <1>4, <1>5, <1>6, <1>7

\* An operator that has begun is why Upwards is not claimed any more.
LEMMA OperatorSchema ==
  ASSUME SchemaInv, NEW o \in Operators, Schema!Statement(o) \/ Schema!Fail(o)
  PROVE  SchemaInv'
<1>1. o \notin Instances
  BY BootstrapAssumption
<1>2. /\ recorded' = present'
      /\ \E label \in {"lock", "script", "record", "done", "failed"} :
           pc' = [pc EXCEPT ![o] = label]
      /\ mishaps' = mishaps \/ mishaps' = mishaps + 1
      /\ todo' = todo \/ \E seq : todo' = [todo EXCEPT ![o] = seq]
  <2>1. CASE Schema!ReadApplied(o)
    BY <1>1, <2>1 DEF Schema!ReadApplied, Schema!NextOrDone, Schema!Goto, SchemaInv
  <2>2. CASE Schema!AcquireLock(o)
    BY <2>2 DEF Schema!AcquireLock, Schema!Goto, SchemaInv
  <2>3. CASE Schema!RunScript(o)
    BY <2>3 DEF Schema!RunScript, Schema!Goto, SchemaInv, Schema!SeenBeforeCommit
  <2>4. CASE Schema!Record(o)
    BY <1>1, <2>4 DEF Schema!Record, Schema!NextOrDone, Schema!Goto, SchemaInv,
                      Schema!Applied
  <2>5. CASE Schema!Fail(o)
    BY <2>5 DEF Schema!Fail, Schema!AfterFailure, Schema!Goto, SchemaInv
  <2> QED BY <2>1, <2>2, <2>3, <2>4, <2>5 DEF Schema!Statement
<1>3. SchemaTypes'
  <2>1. \A s \in Instances : pc'[s] = pc[s] /\ todo'[s] = todo[s]
    BY <1>1, <1>2 DEF SchemaInv, SchemaTypes
  <2>2. /\ mishaps' \in Nat /\ DOMAIN todo' = Instances \cup Operators
        /\ todo' = [r \in Instances \cup Operators |-> todo'[r]]
        /\ pc' \in [Instances \cup Operators ->
                       {"start", "lock", "script", "record", "done", "failed"}]
    BY <1>2 DEF SchemaInv, SchemaTypes
  <2> QED BY <2>1, <2>2 DEF SchemaInv, SchemaTypes, Working
<1>4. ~Schema!NobodyReverts'
  BY <1>2 DEF Schema!NobodyReverts, SchemaInv, SchemaTypes
<1> QED BY <1>2, <1>3, <1>4 DEF SchemaInv

\* A step of an instance that changes its label alone, and does not fail while
\* nothing has gone wrong and it leads.
LEMMA LabelSchema ==
  ASSUME SchemaInv, NEW s \in Instances, Working(s),
         NEW label \in {"script", "record", "failed"},
         pc' = [pc EXCEPT ![s] = label],
         UNCHANGED <<todo, recorded, present>>,
         mishaps' = mishaps => (label = "failed" => ~Leads(s)),
         mishaps' = mishaps \/ mishaps' = mishaps + 1
  PROVE  SchemaInv'
<1>1. SchemaTypes'
  BY DEF SchemaInv, SchemaTypes, Working
<1>2. Schema!NobodyReverts' <=> Schema!NobodyReverts
  BY BootstrapAssumption DEF Schema!NobodyReverts, SchemaInv, SchemaTypes
<1>3. ASSUME NEW r \in Instances
      PROVE  /\ pc'[r] # "start" <=> pc[r] # "start"
             /\ pc'[r] = "done" <=> pc[r] = "done"
             /\ Working(r)' => Working(r)
             /\ (r # s \/ label # "failed") => (Working(r) => Working(r)')
  BY DEF SchemaInv, SchemaTypes, Working
<1>4. Upwards => Upwards'
  BY <1>3 DEF Upwards
<1>5. ASSUME Schema!NobodyReverts, mishaps' = 0
      PROVE  \E r \in Instances : Leads(r)'
  <2>1. mishaps' = mishaps
    BY <1>5 DEF SchemaInv, SchemaTypes
  <2>2. PICK r \in Instances : Leads(r)
    BY <1>5, <2>1 DEF SchemaInv
  <2> QED BY <1>3, <2>1, <2>2 DEF Leads
<1> QED BY <1>1, <1>2, <1>4, <1>5 DEF SchemaInv

\* A script that is recorded is the next after all that is; if it was the
\* leader's too, it is now the one that recorded it who leads.
LEMMA RecordSchema ==
  ASSUME SchemaInv, NEW s \in Instances, Schema!Record(s)
  PROVE  SchemaInv'
<1> USE DEF SchemaInv
<1> DEFINE v    == Head(todo[s])
           rest == Tail(todo[s])
<1>1. /\ pc[s] = "record" /\ mishaps' = mishaps
      /\ present' = present \cup {v} /\ recorded' = recorded \cup {v}
      /\ todo' = [todo EXCEPT ![s] = rest]
      /\ pc' = [pc EXCEPT ![s] = IF rest = <<>> THEN "done" ELSE "lock"]
  BY DEF Schema!Record, Schema!Applied, Schema!Version, Schema!NextOrDone, Schema!Goto
<1>2. Schema!NobodyReverts' <=> Schema!NobodyReverts
  BY <1>1, BootstrapAssumption DEF Schema!NobodyReverts, SchemaTypes
<1>3. /\ v \in Versions /\ rest \in Seq(Versions) /\ Ascending(rest)
      /\ In(todo[s]) = {v} \cup In(rest)
      /\ \A u \in In(rest) : v < u
  BY <1>1, RestOf DEF SchemaTypes, Working
<1> HIDE DEF v, rest
<1>4. SchemaTypes'
  BY <1>1, <1>3 DEF SchemaTypes, Working
<1>5. CASE Schema!NobodyReverts
  <2>1. recorded' \subseteq Versions
    BY <1>1, <1>3, <1>5 DEF Upwards
  <2>2. ASSUME NEW u \in Versions, u < v PROVE u \in recorded
    <3>1. u \in recorded \cup In(todo[s])
      BY <1>1, <1>5 DEF Upwards
    <3>2. Versions \subseteq Nat
      BY BootstrapAssumption
    <3> QED BY <1>3, <2>2, <3>1, <3>2
  <2>3. \A w \in recorded' : \A u \in Versions : u < w => u \in recorded'
    BY <1>1, <1>5, <2>2 DEF Upwards
  <2>4. ASSUME NEW r \in Instances
        PROVE  /\ pc'[r] # "start" => Versions \subseteq recorded' \cup In(todo'[r])
               /\ pc'[r] = "done" => todo'[r] = <<>>
    <3>1. CASE r = s
      <4>1. todo'[s] = rest /\ pc'[s] = IF rest = <<>> THEN "done" ELSE "lock"
        BY <1>1 DEF SchemaTypes
      <4>2. Versions \subseteq recorded' \cup In(rest)
        BY <1>1, <1>3, <1>5 DEF Upwards
      <4> QED BY <3>1, <4>1, <4>2 DEF Working
    <3>2. CASE r # s
      BY <1>1, <1>5, <3>2 DEF Upwards, Working, SchemaTypes
    <3> QED BY <3>1, <3>2
  <2>5. Upwards'
    BY <2>1, <2>3, <2>4 DEF Upwards
  <2>6. ASSUME v \notin recorded PROVE Leads(s)'
    <3>1. ASSUME NEW u \in In(rest), u \in recorded PROVE FALSE
      <4>1. v \in Versions /\ v < u
        BY <1>3, <3>1
      <4> QED BY <1>5, <2>6, <3>1, <4>1 DEF Upwards
    <3>2. In(rest) \cap recorded' = {}
      <4>1. v \notin In(rest)
        <5>1. v \in Nat
          BY <1>3, BootstrapAssumption
        <5> QED BY <1>3, <5>1
      <4> QED BY <1>1, <3>1, <4>1
    <3> QED BY <1>1, <3>2 DEF Leads, Working, SchemaTypes
  <2>7. ASSUME NEW r \in Instances, r # s, Leads(r), v \in recorded
        PROVE  Leads(r)'
    BY <1>1, <2>7 DEF Leads, Working, SchemaTypes
  <2>8. Leads(s) => v \notin recorded
    BY <1>1, <1>3 DEF Leads
  <2> QED BY <1>1, <1>2, <1>4, <2>5, <2>6, <2>7, <2>8
<1>6. CASE ~Schema!NobodyReverts
  BY <1>1, <1>2, <1>4, <1>6
<1> QED BY <1>5, <1>6

\* One step per statement of an instance.
LEMMA StatementSchema ==
  ASSUME SchemaInv, NEW s \in Instances, Schema!Statement(s) \/ Schema!Fail(s)
  PROVE  SchemaInv'
<1>1. CASE Schema!AcquireLock(s)
  BY <1>1, LabelSchema DEF Schema!AcquireLock, Schema!Goto, Working
<1>2. CASE Schema!RunScript(s)
  <2>1. /\ pc[s] = "script" /\ UNCHANGED <<present, recorded, todo, mishaps>>
        /\ \/ /\ pc' = [pc EXCEPT ![s] = "failed"]
              /\ Head(todo[s]) \in present
           \/ pc' = [pc EXCEPT ![s] = "record"]
    BY <1>2 DEF Schema!RunScript, Schema!Goto, Schema!Version, Schema!SeenBeforeCommit
  <2>2. Head(todo[s]) \in In(todo[s])
    BY <2>1, RestOf DEF SchemaInv, SchemaTypes, Working
  <2>3. Head(todo[s]) \in present => ~Leads(s)
    BY <2>1, <2>2 DEF Leads, SchemaInv
  <2> QED BY <2>1, <2>3, LabelSchema DEF Working
<1>3. CASE Schema!Fail(s)
  <2>1. /\ Working(s) /\ pc' = [pc EXCEPT ![s] = "failed"] /\ mishaps' = mishaps + 1
        /\ UNCHANGED <<todo, recorded, present>>
    BY <1>3 DEF Schema!Fail, Schema!AfterFailure, Schema!Goto, Working
  <2>2. mishaps' # mishaps
    BY <2>1 DEF SchemaInv, SchemaTypes
  <2> QED BY <2>1, <2>2, LabelSchema
<1> QED BY <1>1, <1>2, <1>3, ReadSchema, RecordSchema DEF Schema!Statement

-----------------------------------------------------------------------------
(* Starting together: the processes.                                        *)

Stages == {"connect", "migrate", "discover", "provision", "up", "exited"}

\* Who migrates was told to.
StageTypes ==
  /\ stage \in [Instances -> Stages]
  /\ \A s \in Instances : stage[s] = "migrate" => s \in enabled

BootInv == SchemaInv /\ StageTypes /\ ExitsExplained

\* Nobody has done anything.
LEMMA InitBoot == BootInit => BootInv
BY InitSchema DEF BootInit, BootInv, StageTypes, Stages, ExitsExplained

\* What the migrations keep, every other step keeps.
LEMMA SchemaKept ==
  ASSUME SchemaInv, UNCHANGED schema, mishaps' = mishaps \/ mishaps' = mishaps + 1
  PROVE  SchemaInv'
<1>1. SchemaTypes' /\ recorded' = present'
  BY DEF SchemaInv, SchemaTypes, schema, Working
<1>2. /\ Schema!NobodyReverts' <=> Schema!NobodyReverts
      /\ Upwards => Upwards'
      /\ \A s \in Instances : Leads(s) => Leads(s)'
  BY DEF Schema!NobodyReverts, Upwards, Leads, Working, schema
<1>3. mishaps' = 0 => mishaps = 0
  BY DEF SchemaInv, SchemaTypes
<1> QED BY <1>1, <1>2, <1>3 DEF SchemaInv

\* A process that moves on, without giving up for no reason.
LEMMA StageKept ==
  ASSUME StageTypes, ExitsExplained, NEW s \in Instances, NEW label \in Stages,
         stage' = [stage EXCEPT ![s] = label],
         met \subseteq met', enabled' = enabled, pc' = pc,
         label = "migrate" => s \in enabled,
         label = "exited" => s \in met' \/ (s \in enabled /\ pc[s] = "failed")
  PROVE  StageTypes' /\ ExitsExplained'
BY DEF StageTypes, ExitsExplained

\* A process that stays where it is.
LEMMA StagesKept ==
  ASSUME StageTypes, ExitsExplained, stage' = stage, met \subseteq met',
         enabled' = enabled,
         \A s \in Instances : pc[s] = "failed" => pc'[s] = "failed"
  PROVE  StageTypes' /\ ExitsExplained'
BY DEF StageTypes, ExitsExplained

\* An attempt fails only where something did not answer.
LEMMA AttemptKept ==
  ASSUME StageTypes, ExitsExplained, NEW s \in Instances, NEW d, d \notin up,
         AttemptFails(s, d), enabled' = enabled, pc' = pc
  PROVE  StageTypes' /\ ExitsExplained'
<1>1. met' = met \cup {s}
  BY DEF AttemptFails
<1>2. CASE stage' = [stage EXCEPT ![s] = "exited"]
  BY <1>1, <1>2, StageKept DEF Stages
<1>3. CASE stage' = stage
  BY <1>1, <1>3, StagesKept
<1> QED BY <1>2, <1>3 DEF AttemptFails, Goto

\* Statements and failures of the migrations leave a failed process alone.
LEMMA FailedForGood ==
  ASSUME SchemaInv, NEW r \in Instances \cup Operators,
         Schema!Statement(r) \/ Schema!Fail(r)
  PROVE  \A s \in Instances : pc[s] = "failed" => pc'[s] = "failed"
<1>1. pc[r] # "failed" /\ \E label : pc' = [pc EXCEPT ![r] = label]
  BY DEF Schema!Statement, Schema!ReadApplied, Schema!AcquireLock, Schema!RunScript,
         Schema!Record, Schema!Fail, Schema!AfterFailure, Schema!NextOrDone,
         Schema!Goto
<1> QED BY <1>1 DEF SchemaInv, SchemaTypes

\* One step per action.
LEMMA NextBoot == BootInv /\ [BootNext]_<<vars, boot>> => BootInv'
<1> SUFFICES ASSUME BootInv, [BootNext]_<<vars, boot>> PROVE BootInv'
  OBVIOUS
<1> USE DEF BootInv
<1>1. ASSUME NEW s \in Instances, Connect(s) PROVE BootInv'
  <2>1. /\ stage' = [stage EXCEPT ![s] = IF s \in enabled THEN "migrate" ELSE "discover"]
        /\ UNCHANGED <<schema, mishaps, enabled, met>>
    BY <1>1 DEF Connect, Goto
  <2>2. pc' = pc
    BY <2>1 DEF schema
  <2>3. StageTypes' /\ ExitsExplained'
    <3>1. CASE s \in enabled
      BY <2>1, <2>2, <3>1, StageKept DEF Stages
    <3>2. CASE s \notin enabled
      BY <2>1, <2>2, <3>2, StageKept DEF Stages
    <3> QED BY <3>1, <3>2
  <2> QED BY <2>1, <2>3, SchemaKept
<1>2. ASSUME NEW s \in Instances, Die(s) PROVE BootInv'
  <2>1. /\ stage' = [stage EXCEPT ![s] = "exited"] /\ met' = met \cup {s}
        /\ mishaps' = mishaps + 1 /\ UNCHANGED <<schema, enabled>>
    BY <1>2 DEF Die, Goto
  <2>2. pc' = pc
    BY <2>1 DEF schema
  <2> QED BY <2>1, <2>2, SchemaKept, StageKept DEF Stages
<1>3. ASSUME NEW r \in Instances \cup Operators, RunMigrations(r) \/ MigrationFails(r)
      PROVE  BootInv'
  <2>1. /\ Schema!Statement(r) \/ Schema!Fail(r)
        /\ UNCHANGED <<stage, met, enabled>>
    BY <1>3 DEF RunMigrations, MigrationFails, process
  <2> QED BY <2>1, FailedForGood, StatementSchema, OperatorSchema, StagesKept
<1>4. ASSUME NEW s \in Instances, AfterMigrations(s) PROVE BootInv'
  <2>1. /\ stage[s] = "migrate" /\ UNCHANGED <<schema, mishaps, enabled, met>>
        /\ \/ pc[s] = "done" /\ stage' = [stage EXCEPT ![s] = "discover"]
           \/ pc[s] = "failed" /\ stage' = [stage EXCEPT ![s] = "exited"]
    <3>1. /\ DOMAIN Outcome = {"done", "failed"}
          /\ Outcome["done"] = "discover" /\ Outcome["failed"] = "exited"
      BY DEF Outcome
    <3> QED BY <1>4, <3>1 DEF AfterMigrations, Goto
  <2>2. pc' = pc
    BY <2>1 DEF schema
  <2>3. s \in enabled
    BY <2>1 DEF StageTypes
  <2>4. StageTypes' /\ ExitsExplained'
    <3>1. CASE stage' = [stage EXCEPT ![s] = "discover"]
      BY <2>1, <2>2, <3>1, StageKept DEF Stages
    <3>2. CASE pc[s] = "failed" /\ stage' = [stage EXCEPT ![s] = "exited"]
      BY <2>1, <2>2, <2>3, <3>2, StageKept DEF Stages
    <3> QED BY <2>1, <3>1, <3>2
  <2> QED BY <2>1, <2>4, SchemaKept
<1>5. ASSUME NEW s \in Instances, Discover(s) PROVE BootInv'
  <2>1. /\ UNCHANGED <<schema, mishaps, enabled>>
        /\ \/ /\ stage' = [stage EXCEPT ![s] = "provision"] /\ met' = met
           \/ "idp" \notin up /\ AttemptFails(s, "idp")
    BY <1>5 DEF Discover, Goto
  <2>2. pc' = pc
    BY <2>1 DEF schema
  <2>3. StageTypes' /\ ExitsExplained'
    <3>1. CASE stage' = [stage EXCEPT ![s] = "provision"] /\ met' = met
      BY <2>1, <2>2, <3>1, StageKept DEF Stages
    <3>2. CASE "idp" \notin up /\ AttemptFails(s, "idp")
      BY <2>1, <2>2, <3>2, AttemptKept
    <3> QED BY <2>1, <3>1, <3>2
  <2> QED BY <2>1, <2>3, SchemaKept
<1>6. ASSUME NEW s \in Instances, Ensure(s) PROVE BootInv'
  <2>1. /\ UNCHANGED <<schema, mishaps, enabled>>
        /\ \/ /\ \E label \in {"up", "provision"} : stage' = [stage EXCEPT ![s] = label]
              /\ met' = met
           \/ "broker" \notin up /\ AttemptFails(s, "broker")
    BY <1>6 DEF Ensure, Goto, Obtained, Created
  <2>2. pc' = pc
    BY <2>1 DEF schema
  <2>3. StageTypes' /\ ExitsExplained'
    <3>1. ASSUME NEW label \in {"up", "provision"},
                 stage' = [stage EXCEPT ![s] = label], met' = met
          PROVE  StageTypes' /\ ExitsExplained'
      BY <2>1, <2>2, <3>1, StageKept DEF Stages
    <3>2. CASE "broker" \notin up /\ AttemptFails(s, "broker")
      BY <2>1, <2>2, <3>2, AttemptKept
    <3> QED BY <2>1, <3>1, <3>2
  <2> QED BY <2>1, <2>3, SchemaKept
<1>7. ASSUME UNCHANGED <<schema, process>>, mishaps' = mishaps \/ mishaps' = mishaps + 1
      PROVE  BootInv'
  BY <1>7, SchemaKept, StagesKept DEF schema, process
<1>8. CASE Starting
  BY <1>1, <1>2, <1>3, <1>4, <1>5, <1>6, <1>7, <1>8
     DEF Starting, Start, ComeUp, GoDown
<1> QED BY <1>7, <1>8 DEF BootNext, boot

\* The invariant of the start.
LEMMA BootInvariant == BootSpec => []BootInv
BY InitBoot, NextBoot, PTL DEF BootSpec

\* schema_migrations tells exactly which scripts are in effect, for any number
\* of migrations, of processes that apply them together and of failures; and
\* it has no gap before anybody reverts (applyOne, Up).
THEOREM RecordIsSchema == BootSpec => []RecordTellsSchema
<1>1. BootInv => RecordTellsSchema
  BY DEF BootInv, SchemaInv, Upwards, RecordTellsSchema, Schema!RecordTellsSchema
<1> QED BY <1>1, BootInvariant, PTL

\* However many processes start together, one comes up with the whole schema
\* unless something else fails: whoever fails over a script that another has
\* applied leaves one that is ahead of it (Up).
THEOREM SomeoneWins == BootSpec => []SomeoneComesUp
<1>1. BootInv => SomeoneComesUp
  <2> SUFFICES ASSUME BootInv, mishaps = 0, Schema!NobodyReverts,
                      \A s \in Instances : Schema!Stopped(s)
               PROVE  \E s \in Instances : pc[s] = "done" /\ recorded = Versions
    BY DEF SomeoneComesUp, Schema!SomeoneComesUp
  <2>1. PICK s \in Instances : Leads(s)
    BY DEF BootInv, SchemaInv
  <2>2. pc[s] = "done"
    BY <2>1 DEF Leads, Working, Schema!Stopped
  <2>3. todo[s] = <<>> /\ Versions \subseteq recorded \cup In(todo[s])
    BY <2>2 DEF BootInv, SchemaInv, Upwards
  <2> QED BY <2>2, <2>3, NothingIn DEF BootInv, SchemaInv, Upwards
<1> QED BY <1>1, BootInvariant, PTL

\* A process gives up its start only over a failed migration or over a
\* dependency that did not answer it, whatever queues others have created with
\* whatever attributes (EnsureQueues, fx.New).
THEOREM ExitsAreExplained == BootSpec => []ExitsExplained
<1>1. BootInv => ExitsExplained
  BY DEF BootInv
<1> QED BY <1>1, BootInvariant, PTL

\* A process that was started by Bootstrap stops as Lifecycle has it: nobody
\* meets a closed pool, and in time nothing is left half done (fx.App).
THEOREM StartedStopsWell == BootSpec => [](PoolOutlivesWork /\ CleanStop)
<1>1. BootInit => Init
  BY DEF BootInit
<1>2. [BootNext]_<<vars, boot>> => [Next]_vars
  BY DEF BootNext
<1> QED BY <1>1, <1>2, PoolOutlives, StopIsClean, PTL DEF BootSpec, Spec
=============================================================================
