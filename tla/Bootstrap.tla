------------------------------- MODULE Bootstrap -------------------------------
(***************************************************************************)
(* internal/bootstrap: how several processes start together on one database *)
(* and one broker, and how one of them, Me, stops (Lifecycle).  fx.New runs *)
(* the constructors and Invokes in the order of their dependencies: the     *)
(* pool, the migrations (Migrations), OIDC discovery, the queues.  The      *)
(* OnStart hooks only start goroutines.                                     *)
(*                                                                         *)
(* A queue keeps the attributes of its creator.                             *)
(***************************************************************************)
EXTENDS Lifecycle, FiniteSets

CONSTANTS
  Versions, Instances, Operators, Steps, MaxMishaps,  \* see Migrations
  Me,        \* the process that is stopped
  Settings,  \* [Instances -> queue attributes]
  MaxTries   \* bound: attempts within the deadline of a retry loop

ASSUME BootstrapAssumption ==
  /\ Versions \subseteq Nat \ {0} /\ IsFiniteSet(Versions)
  /\ Steps \in Nat /\ MaxMishaps \in Nat /\ MaxTries \in Nat
  /\ Instances \cap Operators = {}
  /\ Me \in Instances
  /\ DOMAIN Settings = Instances
  /\ \A s \in Instances : Settings[s] # "none"

VARIABLES
  present, recorded, pc, todo, mishaps,  \* see Migrations
  enabled,  \* processes with MIGRATIONS_ENABLED
  stage,    \* per process: what it does next
  tries,    \* per process: failed attempts of the loop it is in
  ensured,  \* per process: queues obtained in this call of EnsureQueues
  queues,   \* [Queues -> the attributes it was created with, or "none"]
  up,       \* which of the broker and the identity provider answer
  met       \* history: processes that met an outage or a mishap

Schema == INSTANCE Migrations

schema  == <<present, recorded, pc, todo>>
process == <<enabled, stage, tries, ensured, met>>
boot    == <<schema, mishaps, process, queues, up>>

\* EnsureQueues
EnsureOrder == <<"transactions-dlq", "events-dlq", "transactions", "events">>

Queues == {EnsureOrder[k] : k \in DOMAIN EnsureOrder}

Dependencies == {"broker", "idp"}

BootInit ==
  /\ Init /\ Schema!Init
  /\ enabled \in SUBSET Instances
  /\ stage = [s \in Instances |-> "connect"]
  /\ tries = [s \in Instances |-> 0]
  /\ ensured = [s \in Instances |-> 0]
  /\ queues = [q \in Queues |-> "none"]
  /\ up \in SUBSET Dependencies
  /\ met = {}

-----------------------------------------------------------------------------

Goto(s, label) == stage' = [stage EXCEPT ![s] = label]

\* NewPool, which does not retry.
Connect(s) ==
  /\ stage[s] = "connect"
  /\ Goto(s, IF s \in enabled THEN "migrate" ELSE "discover")
  /\ UNCHANGED <<schema, mishaps, enabled, tries, ensured, met, queues, up>>

\* A process dies, or its pool cannot be opened.
Die(s) ==
  /\ stage[s] \in {"connect", "discover", "provision"}
  /\ mishaps < MaxMishaps /\ mishaps' = mishaps + 1
  /\ Goto(s, "exited")
  /\ met' = met \cup {s}
  /\ UNCHANGED <<schema, enabled, tries, ensured, queues, up>>

Migrating(r) == IF r \in Operators THEN TRUE ELSE stage[r] = "migrate"

RunMigrations(r) ==
  /\ Migrating(r)
  /\ Schema!Statement(r)
  /\ UNCHANGED <<process, queues, up>>

MigrationFails(r) ==
  /\ Migrating(r)
  /\ Schema!Fail(r)
  /\ UNCHANGED <<process, queues, up>>

\* What follows Up; an error of an Invoke ends fx.New.
Outcome == [done |-> "discover", failed |-> "exited"]

AfterMigrations(s) ==
  /\ stage[s] = "migrate" /\ pc[s] \in DOMAIN Outcome
  /\ Goto(s, Outcome[pc[s]])
  /\ UNCHANGED <<schema, mishaps, enabled, tries, ensured, met, queues, up>>

Expired(s) == tries[s] >= MaxTries

\* The attempt returned an error: wait and try again, or give up.
AttemptFails(s, dependency) ==
  /\ IF Expired(s) THEN Goto(s, "exited") /\ UNCHANGED tries
     ELSE tries' = [tries EXCEPT ![s] = @ + 1] /\ UNCHANGED stage
  /\ met' = IF dependency \in up THEN met ELSE met \cup {s}
  /\ ensured' = [ensured EXCEPT ![s] = 0]

\* oidc.NewVerifier
Discover(s) ==
  /\ stage[s] = "discover"
  /\ IF "idp" \in up
     THEN /\ Goto(s, "provision") /\ tries' = [tries EXCEPT ![s] = 0]
          /\ UNCHANGED <<ensured, met>>
     ELSE AttemptFails(s, "idp")
  /\ UNCHANGED <<schema, mishaps, enabled, queues, up>>

\* CreateQueue accepts a queue that exists with the same attributes.
Created(s, q) == queues[q] \in {"none", Settings[s]}

\* Fault: no lookup.
ObtainedByCreation(s, q) == Created(s, q)

\* ensureQueue: a queue with other attributes is looked up.
Obtained(s, q) == Created(s, q) \/ queues[q] # "none"

\* One queue of EnsureQueues; after the last, the hooks start the loops.
Ensure(s) ==
  LET q == EnsureOrder[ensured[s] + 1] IN
  /\ stage[s] = "provision"
  /\ IF "broker" \in up /\ Obtained(s, q)
     THEN /\ queues' = IF queues[q] = "none"
                       THEN [queues EXCEPT ![q] = Settings[s]] ELSE queues
          /\ ensured' = [ensured EXCEPT ![s] = (@ + 1) % Len(EnsureOrder)]
          /\ Goto(s, IF ensured[s] + 1 = Len(EnsureOrder) THEN "up" ELSE "provision")
          /\ UNCHANGED <<tries, met>>
     ELSE AttemptFails(s, "broker") /\ UNCHANGED queues
  /\ UNCHANGED <<schema, mishaps, enabled, up>>

ComeUp(d) ==
  /\ d \notin up /\ up' = up \cup {d}
  /\ UNCHANGED <<schema, mishaps, process, queues>>

GoDown(d) ==
  /\ d \in up /\ up' = up \ {d}
  /\ mishaps < MaxMishaps /\ mishaps' = mishaps + 1
  /\ UNCHANGED <<schema, process, queues>>

Start(s) == Connect(s) \/ AfterMigrations(s) \/ Discover(s) \/ Ensure(s)

Starting ==
  \/ \E s \in Instances : Start(s) \/ Die(s)
  \/ \E r \in Instances \cup Operators : RunMigrations(r) \/ MigrationFails(r)
  \/ \E d \in Dependencies : ComeUp(d) \/ GoDown(d)

-----------------------------------------------------------------------------

\* Bound: Me works and stops after a start in which nothing went wrong, and
\* nobody starts or reverts while it does.
Settled ==
  /\ \A s \in Instances : stage[s] = "up"
  /\ mishaps = 0 /\ met = {} /\ tries = [s \in Instances |-> 0]
  /\ \A r \in Operators : pc[r] = "start"
Idle == phase = "up" /\ ~handling /\ \A c \in DOMAIN work : work[c] = 0

BootNext ==
  \/ Idle /\ Starting /\ UNCHANGED vars
  \/ Settled /\ Next /\ UNCHANGED boot

BootSpec == BootInit /\ [][BootNext]_<<vars, boot>>

\* Statements are executed, a lock that is released is granted, and a loop
\* goes on to its next attempt.
BootFairSpec ==
  /\ BootSpec /\ Fairness
  /\ \A s \in Instances : WF_boot(Idle /\ Start(s))
  /\ \A r \in Instances \cup Operators : WF_boot(Idle /\ RunMigrations(r))

-----------------------------------------------------------------------------
(* Properties.                                                              *)

\* Instances that read the same pending migrations cannot turn each other away
\* altogether (Up).
SomeoneComesUp == Schema!SomeoneComesUp

\* schema_migrations tells exactly which scripts are in effect (applyOne).
RecordTellsSchema == Schema!RecordTellsSchema

\* "It is safe to call concurrently" (EnsureQueues), with other settings too:
\* a process gives up only over a failed migration or a dependency that did
\* not answer it, never over what another process created.
ExitsExplained ==
  \A s \in Instances : stage[s] = "exited" =>
    s \in met \/ (s \in enabled /\ pc[s] = "failed")

\* No start hangs: in the lock of the migrations, or in a retry loop while its
\* dependency stays away; nor does a Down (fx.New, main).
StartsEnd ==
  /\ <>(\A s \in Instances : stage[s] \in {"up", "exited"})
  /\ \A r \in Operators : pc[r] = "lock" ~> Schema!Stopped(r)
=============================================================================
