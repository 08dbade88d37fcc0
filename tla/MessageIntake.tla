----------------------------- MODULE MessageIntake -----------------------------
(***************************************************************************)
(* What the inbox promises a producer: a message takes effect once and      *)
(* whole, or is refused for good, or is given up, and it leaves only then.  *)
(* No deliveries, receipts, consumers, transactions or failures.            *)
(***************************************************************************)
CONSTANTS Entries, Body, MessageIds, ExternalIds, Payloads, None

VARIABLES
  posted,     \* the entries producers have sent
  completed,  \* [MessageIds -> the entry that took effect under it, or None]
  applied,    \* [ExternalIds -> the payload in force, or None]
  refused,    \* entries that are never going to take effect
  givenUp,    \* entries of which nothing is said any more
  left        \* entries that are not coming again

vars == <<posted, completed, applied, refused, givenUp, left>>

Init ==
  /\ posted = {} /\ refused = {} /\ givenUp = {} /\ left = {}
  /\ completed = [i \in MessageIds |-> None]
  /\ applied = [x \in ExternalIds |-> None]

\* The effect of m, of this entry or of a copy, is in force.
InForce(m) ==
  /\ \E n \in Entries : completed[Body[m].id] = n /\ Body[n] = Body[m]
  /\ applied[Body[m].ext] = Body[m].payload

\* No attempt at m can take effect, now or later.
Hopeless(m) ==
  \/ Body[m].fault = "invalid"
  \/ completed[Body[m].id] # None /\ Body[completed[Body[m].id]] # Body[m]
  \/ Body[m].fault = "none" /\ applied[Body[m].ext] \notin {None, Body[m].payload}

Post(m) ==
  /\ m \notin posted
  /\ posted' = posted \cup {m}
  /\ UNCHANGED <<completed, applied, refused, givenUp, left>>

\* The one moment in which m takes effect: its identifier is used up and its
\* operation is in force, that of an equal one from elsewhere if there was one.
Complete(m) ==
  /\ m \in posted /\ Body[m].fault = "none"
  /\ completed[Body[m].id] = None
  /\ applied[Body[m].ext] \in {None, Body[m].payload}
  /\ completed' = [completed EXCEPT ![Body[m].id] = m]
  /\ applied' = [applied EXCEPT ![Body[m].ext] = Body[m].payload]
  /\ UNCHANGED <<posted, refused, givenUp, left>>

Refuse(m) ==
  /\ m \in posted /\ Hopeless(m)
  /\ refused' = refused \cup {m}
  /\ UNCHANGED <<posted, completed, applied, givenUp, left>>

GiveUp(m) ==
  /\ m \in posted \ left
  /\ givenUp' = givenUp \cup {m}
  /\ left' = left \cup {m}
  /\ UNCHANGED <<posted, completed, applied, refused>>

Leave(m) ==
  /\ m \in posted \ left
  /\ InForce(m) \/ m \in refused
  /\ left' = left \cup {m}
  /\ UNCHANGED <<posted, completed, applied, refused, givenUp>>

\* The operation comes another way.
Elsewhere(x, payload) ==
  /\ applied[x] = None
  /\ applied' = [applied EXCEPT ![x] = payload]
  /\ UNCHANGED <<posted, completed, refused, givenUp, left>>

Next ==
  \/ \E m \in Entries : Post(m) \/ Complete(m) \/ Refuse(m) \/ GiveUp(m) \/ Leave(m)
  \/ \E x \in ExternalIds, payload \in Payloads : Elsewhere(x, payload)

Spec == Init /\ [][Next]_vars
=============================================================================
