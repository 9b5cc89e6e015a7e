---------------------------- MODULE Integrations ----------------------------
(***************************************************************************)
(* An integration of a team workspace, the secret that signs its           *)
(* deliveries, and the circuit of its endpoint, kept in the platform       *)
(* store.  Deliveries are coroutines: each reads the circuit once, posts   *)
(* at most MaxAttempts times and then records how it ended, in one         *)
(* transaction; other deliveries, changes of the integration and the clock *)
(* come between these steps.                                               *)
(***************************************************************************)
EXTENDS Integers

CONSTANTS
    Deliveries,     \* what can be under way at a time
    Values,         \* values of the secret
    Nothing,        \* no integration, no secret, no reference to one
    DefaultKey,     \* SIMULOOM_INTEGRATION_SIGNING_KEY
    MaxAttempts,    \* max_attempts (3)
    Threshold,      \* circuit_threshold (3)
    Cooldown,       \* circuit_cooldown_seconds, in ticks
    MaxDispatches,  \* bound: the deliveries
    MaxTime         \* bound: the ticks of the clock

ASSUME IntegrationAssumption ==
    /\ {MaxAttempts, Threshold, Cooldown} \subseteq Nat \ {0}
    /\ {MaxDispatches, MaxTime} \subseteq Nat

VARIABLES
    integration,    \* Nothing, or its reference: "default" or "secret"
    secret,         \* its value, or Nothing
    circuit,        \* [failures, openUntil]; zeros are no row
    delivery,       \* each delivery that is under way
    dispatches,     \* how many deliveries began
    time,
    failing,        \* ghost: deliveries that failed since the last that did not
    lastFailure     \* ghost: when the last of them did

integrationVars == <<integration, secret, circuit, delivery, dispatches, time,
                     failing, lastFailure>>

-----------------------------------------------------------------------------
NoDelivery == [at |-> "none"]
Closed == [failures |-> 0, openUntil |-> 0]

Paused == circuit.openUntil > time

\* The secret is looked up before the row is inserted; deleting it later is not checked.
CreateIntegration(reference) ==
    /\ integration = Nothing
    /\ reference = "secret" => secret # Nothing
    /\ integration' = reference
    /\ UNCHANGED <<secret, circuit, delivery, dispatches, time, failing, lastFailure>>

\* The circuit is that of the endpoint and stays.
DeleteIntegration ==
    /\ integration # Nothing
    /\ integration' = Nothing
    /\ UNCHANGED <<secret, circuit, delivery, dispatches, time, failing, lastFailure>>

PutSecret(value) ==
    /\ secret' = value
    /\ UNCHANGED <<integration, circuit, delivery, dispatches, time, failing, lastFailure>>

DeleteSecret ==
    /\ secret # Nothing
    /\ secret' = Nothing
    /\ UNCHANGED <<integration, circuit, delivery, dispatches, time, failing, lastFailure>>

\* Mutant: the circuit is not looked at.
BeginDispatchAnyway(d) ==
    /\ delivery[d] = NoDelivery
    /\ dispatches < MaxDispatches
    /\ integration # Nothing
    /\ integration = "secret" => secret # Nothing
    /\ dispatches' = dispatches + 1
    /\ delivery' = [delivery EXCEPT ![d] =
                        [at |-> "attempt", attempts |-> 0, failed |-> FALSE,
                         key |-> IF integration = "secret" THEN secret ELSE DefaultKey,
                         seen |-> circuit.failures, early |-> ~ Paused]]
    /\ UNCHANGED <<integration, secret, circuit, time, failing, lastFailure>>

\* dispatch_integration() and dispatch() up to the first request: 404 without the
\* integration or its secret, 503 while the circuit is open.  early is a ghost: the
\* circuit was closed when the delivery began.
BeginDispatch(d) ==
    /\ delivery[d] = NoDelivery
    /\ dispatches < MaxDispatches
    /\ integration # Nothing
    /\ integration = "secret" => secret # Nothing
    /\ ~ Paused
    /\ dispatches' = dispatches + 1
    /\ delivery' = [delivery EXCEPT ![d] =
                        [at |-> "attempt", attempts |-> 0, failed |-> FALSE,
                         key |-> IF integration = "secret" THEN secret ELSE DefaultKey,
                         seen |-> circuit.failures, early |-> ~ Paused]]
    /\ UNCHANGED <<integration, secret, circuit, time, failing, lastFailure>>

\* A request and its answer: transient (no answer, 429 or 5xx) or not.
Attempt(d, transient) ==
    LET tried == delivery[d].attempts + 1
        again == transient /\ tried < MaxAttempts
    IN
    /\ delivery[d].at = "attempt"
    /\ delivery' = [delivery EXCEPT ![d] =
                        [delivery[d] EXCEPT !.attempts = tried, !.failed = transient,
                                            !.at = IF again THEN "attempt" ELSE "settle"]]
    /\ UNCHANGED <<integration, secret, circuit, dispatches, time, failing, lastFailure>>

Opened(failures) ==
    [failures |-> failures, openUntil |-> IF failures >= Threshold THEN time + Cooldown ELSE 0]

\* Mutant: the failures are counted on from those read with the circuit.
RecordFailureSeen(d) ==
    /\ delivery[d].at = "settle" /\ delivery[d].failed
    /\ circuit' = Opened(delivery[d].seen + 1)
    /\ failing' = failing + 1
    /\ lastFailure' = time
    /\ delivery' = [delivery EXCEPT ![d] = NoDelivery]
    /\ UNCHANGED <<integration, secret, dispatches, time>>

\* record_integration_failure(), one transaction.
RecordFailure(d) ==
    /\ delivery[d].at = "settle" /\ delivery[d].failed
    /\ circuit' = Opened(circuit.failures + 1)
    /\ failing' = failing + 1
    /\ lastFailure' = time
    /\ delivery' = [delivery EXCEPT ![d] = NoDelivery]
    /\ UNCHANGED <<integration, secret, dispatches, time>>

\* clear_integration_circuit(): also after a 4xx, and also while the circuit is open.
ClearCircuit(d) ==
    /\ delivery[d].at = "settle" /\ ~ delivery[d].failed
    /\ circuit' = Closed
    /\ failing' = 0
    /\ delivery' = [delivery EXCEPT ![d] = NoDelivery]
    /\ UNCHANGED <<integration, secret, dispatches, time, lastFailure>>

Tick ==
    /\ time < MaxTime
    /\ time' = time + 1
    /\ UNCHANGED <<integration, secret, circuit, delivery, dispatches, failing, lastFailure>>

\* The process ends; the platform store keeps its rows.
LoseDeliveries ==
    /\ delivery' = [d \in Deliveries |-> NoDelivery]
    /\ UNCHANGED <<integration, secret, circuit, dispatches, time, failing, lastFailure>>

IntegrationInit ==
    /\ integration = Nothing
    /\ secret = Nothing
    /\ circuit = Closed
    /\ delivery = [d \in Deliveries |-> NoDelivery]
    /\ dispatches = 0
    /\ time = 1
    /\ failing = 0
    /\ lastFailure = 0

IntegrationNext ==
    \/ \E reference \in {"default", "secret"} : CreateIntegration(reference)
    \/ DeleteIntegration
    \/ \E value \in Values : PutSecret(value)
    \/ DeleteSecret
    \/ \E d \in Deliveries :
        \/ BeginDispatch(d)
        \/ \E transient \in BOOLEAN : Attempt(d, transient)
        \/ RecordFailure(d)
        \/ ClearCircuit(d)
    \/ Tick
    \/ LoseDeliveries

IntegrationSpec == IntegrationInit /\ [][IntegrationNext]_integrationVars

-----------------------------------------------------------------------------
(* Properties.                                                             *)

IntegrationTypeOK ==
    /\ integration \in {Nothing, "default", "secret"}
    /\ secret \in Values \cup {Nothing}
    /\ circuit \in [failures : Nat, openUntil : Nat]
    /\ delivery \in [Deliveries ->
            {NoDelivery} \cup [at : {"attempt", "settle"}, attempts : 0..MaxAttempts,
                               failed : BOOLEAN, key : Values \cup {DefaultKey},
                               seen : Nat, early : BOOLEAN]]
    /\ dispatches \in Nat
    /\ time \in Nat \ {0}
    /\ failing \in Nat
    /\ lastFailure \in Nat

\* Deliveries are paused exactly while Threshold of them, or more, have failed in a row and
\* the last failure is not Cooldown ago, however the deliveries overlap and whatever
\* process they ended in.
PausedIffFailing ==
    Paused <=> failing >= Threshold /\ time < lastFailure + Cooldown

\* An open circuit is closed before its time only by a delivery that began when it was
\* not open and ended well.
ClosedEarlyOnlyByEarlier ==
    [][Paused /\ circuit'.openUntil <= time =>
        \E d \in Deliveries : delivery[d].at = "settle" /\ ~ delivery[d].failed
                              /\ delivery[d].early]_integrationVars
=============================================================================
