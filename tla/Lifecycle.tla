------------------------------- MODULE Lifecycle -------------------------------
(***************************************************************************)
(* internal/bootstrap/app.go: how the process stops.  fx runs the OnStop    *)
(* hooks one after the other, the last appended first, until its deadline   *)
(* passes; each hook tells a component to stop and waits for it.            *)
(*                                                                         *)
(* Deadlines may pass at any moment.  Database statements are left out:     *)
(* work stands for a message, an iteration of a worker or an HTTP request.  *)
(***************************************************************************)
EXTENDS Integers, Sequences

CONSTANTS
  MaxMessages,  \* SQS_MAX_MESSAGES, what one receive returns
  MaxRequests   \* bound: HTTP requests at a time

ASSUME LifecycleAssumption ==
  MaxMessages \in Nat \ {0} /\ MaxRequests \in Nat

Workers == {"outbox", "resolver"}
Loops == Workers \cup {"consumer"}

\* Fault: the pool's hook is the last to be appended.
PoolFirst == <<"pool", "consumer", "outbox", "resolver", "http">>

\* The hooks in the order in which Stop calls them.
StopOrder == <<"consumer", "outbox", "resolver", "http", "pool">>

VARIABLES
  phase,     \* "up", "stopping", "gone"
  hook,      \* the OnStop hook whose turn it is; those before have returned
  told,      \* whose hook has been called
  running,   \* loops that have not returned
  work,      \* [Loops \cup {"http"} -> units taken and not finished]
  handling,  \* the consumer is inside processOne
  late,      \* the stop timeout passed
  cutShort   \* HTTP's own shutdown timeout passed

vars == <<phase, hook, told, running, work, handling, late, cutShort>>

Init ==
  /\ phase = "up"
  /\ hook = 1
  /\ told = {}
  /\ running = Loops
  /\ work = [c \in Loops \cup {"http"} |-> 0]
  /\ handling = FALSE
  /\ late = FALSE /\ cutShort = FALSE

-----------------------------------------------------------------------------
(* The components at work.                                                  *)

\* Fault: the loop does not look at its context.
PollsForEver == "consumer" \in running

\* The condition of Run's outer loop.
Polls == "consumer" \in running /\ "consumer" \notin told

Receive ==
  /\ phase # "gone"
  /\ Polls
  /\ work["consumer"] = 0
  /\ \E n \in 1..MaxMessages : work' = [work EXCEPT !["consumer"] = n]
  /\ UNCHANGED <<phase, hook, told, running, handling, late, cutShort>>

BeginMessage ==
  /\ phase # "gone"
  /\ work["consumer"] > 0 /\ ~handling
  /\ handling' = TRUE
  /\ UNCHANGED <<phase, hook, told, running, work, late, cutShort>>

\* Handled, deleted, dead-lettered, or left alone after its grace period.
EndMessage ==
  /\ phase # "gone"
  /\ handling
  /\ handling' = FALSE
  /\ work' = [work EXCEPT !["consumer"] = @ - 1]
  /\ UNCHANGED <<phase, hook, told, running, late, cutShort>>

\* A worker's select takes any ready case, so one more tick may be served
\* after the cancellation.
BeginIteration(w) ==
  /\ phase # "gone"
  /\ w \in running /\ work[w] = 0
  /\ work' = [work EXCEPT ![w] = 1]
  /\ UNCHANGED <<phase, hook, told, running, handling, late, cutShort>>

EndIteration(w) ==
  /\ phase # "gone"
  /\ work[w] = 1
  /\ work' = [work EXCEPT ![w] = 0]
  /\ UNCHANGED <<phase, hook, told, running, handling, late, cutShort>>

Return(l) ==
  /\ phase # "gone"
  /\ l \in running \cap told /\ work[l] = 0
  /\ running' = running \ {l}
  /\ UNCHANGED <<phase, hook, told, work, handling, late, cutShort>>

Accept ==
  /\ phase # "gone"
  /\ "http" \notin told /\ work["http"] < MaxRequests
  /\ work' = [work EXCEPT !["http"] = @ + 1]
  /\ UNCHANGED <<phase, hook, told, running, handling, late, cutShort>>

Respond ==
  /\ phase # "gone"
  /\ work["http"] > 0
  /\ work' = [work EXCEPT !["http"] = @ - 1]
  /\ UNCHANGED <<phase, hook, told, running, handling, late, cutShort>>

-----------------------------------------------------------------------------
(* Stopping.                                                                *)

AllReturned == hook > Len(StopOrder)

Signal ==
  /\ phase = "up"
  /\ phase' = "stopping"
  /\ UNCHANGED <<hook, told, running, work, handling, late, cutShort>>

\* fx calls no further hook once its deadline has passed.
CallHook ==
  /\ phase = "stopping" /\ ~late
  /\ ~AllReturned /\ StopOrder[hook] \notin told
  /\ told' = told \cup {StopOrder[hook]}
  /\ UNCHANGED <<phase, hook, running, work, handling, late, cutShort>>

\* Fault: the hook returns without waiting.
AtOnce(c) == TRUE

\* What the hook of a component waits for.  Close waits for the connections on
\* loan, and work may be between two of them.
Done(c) ==
  CASE c \in Loops -> c \notin running
    [] c = "http"  -> work["http"] = 0 \/ cutShort
    [] c = "pool"  -> TRUE

HookReturns ==
  /\ phase = "stopping"
  /\ ~AllReturned /\ StopOrder[hook] \in told
  /\ Done(StopOrder[hook])
  /\ hook' = hook + 1
  /\ UNCHANGED <<phase, told, running, work, handling, late, cutShort>>

HttpDeadline ==
  /\ phase = "stopping"
  /\ ~AllReturned /\ StopOrder[hook] = "http" /\ "http" \in told /\ ~cutShort
  /\ cutShort' = TRUE
  /\ UNCHANGED <<phase, hook, told, running, work, handling, late>>

StopDeadline ==
  /\ phase = "stopping" /\ ~late
  /\ late' = TRUE
  /\ UNCHANGED <<phase, hook, told, running, work, handling, cutShort>>

\* Run returns and main ends: whatever still runs is cut.
Exit ==
  /\ phase = "stopping"
  /\ AllReturned \/ late
  /\ phase' = "gone"
  /\ UNCHANGED <<hook, told, running, work, handling, late, cutShort>>

Gone == phase = "gone" /\ UNCHANGED vars

-----------------------------------------------------------------------------

Step(w) == BeginIteration(w) \/ EndIteration(w)

Next ==
  \/ Receive \/ BeginMessage \/ EndMessage
  \/ \E w \in Workers : Step(w)
  \/ \E l \in Loops : Return(l)
  \/ Accept \/ Respond
  \/ Signal \/ CallHook \/ HookReturns \/ HttpDeadline \/ StopDeadline
  \/ Exit \/ Gone

Spec == Init /\ [][Next]_vars

\* Every piece of work ends: a message within its grace period, an iteration
\* because its context is cancelled, a request by its own time limits.  select
\* picks among ready cases at random, so a cancelled loop does not serve ticks
\* for ever.  No deadline need pass.
Fairness ==
  /\ WF_vars(BeginMessage) /\ WF_vars(EndMessage) /\ WF_vars(Respond)
  /\ \A w \in Workers : WF_vars(EndIteration(w)) /\ SF_vars(Return(w))
  /\ WF_vars(Return("consumer"))
  /\ WF_vars(CallHook) /\ WF_vars(HookReturns) /\ WF_vars(Exit)

FairSpec == Spec /\ Fairness

-----------------------------------------------------------------------------
(* Properties.                                                              *)

\* Type invariant; a batch never has less than no messages left.
TypeOK ==
  /\ phase \in {"up", "stopping", "gone"}
  /\ hook \in 1..(Len(StopOrder) + 1)
  /\ told \subseteq Loops \cup {"http", "pool"}
  /\ running \subseteq Loops
  /\ work \in [Loops \cup {"http"} -> Nat]
  /\ handling \in BOOLEAN /\ late \in BOOLEAN /\ cutShort \in BOOLEAN

\* Nobody is left to meet a closed pool: when its hook is called every loop
\* has returned and every request is answered, unless HTTP gave up on some.
PoolOutlivesWork ==
  "pool" \in told =>
    /\ running = {} /\ ~handling
    /\ work["http"] > 0 => cutShort

\* A process that stops before its deadlines leaves nothing half done: no
\* message of the batch, no iteration and no request.
CleanStop ==
  phase = "gone" /\ ~late /\ ~cutShort =>
    running = {} /\ \A c \in DOMAIN work : work[c] = 0

\* Once a signal came, every hook returns or the deadline passes: no hook
\* waits for something that does not end (OnStop of each component).
StopCompletes == phase = "stopping" ~> (AllReturned \/ late)
=============================================================================
