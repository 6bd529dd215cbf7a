---------------------------- MODULE StateMachine ----------------------------
(***************************************************************************)
(* The generated table of the protocol, how a successor identity is        *)
(* derived from it, and the tickets that are validated and resolved with   *)
(* it.  Of a row this keeps the columns the code consults, the token       *)
(* column and the qualification; reasons, clocks and syncs are left out.   *)
(***************************************************************************)
EXTENDS Integers

Row(source, destination, generation, attempt, token, qualification) ==
    [source |-> source, destination |-> destination, generation_change |-> generation,
     attempt_change |-> attempt, token_change |-> token, qualification |-> qualification]

Publications ==
    [EnqueueImmediate |-> Row("hidden", "ready", "Zero", "Zero", "None", "None"),
     EnqueueDelayed |-> Row("hidden", "delayed", "Zero", "Zero", "None", "None")]

Movements ==
    [Promote |-> Row("delayed", "ready", "Increment", "Unchanged", "None", "None"),
     Claim |-> Row("ready", "leased", "Increment", "Increment", "New", "None"),
     ExhaustedReadyCleanup |-> Row("ready", "dead", "Increment", "Unchanged", "None", "None"),
     Renew |-> Row("leased", "leased", "Increment", "Unchanged", "Same", "None"),
     Acknowledge |-> Row("leased", "receipt", "Increment", "Unchanged", "Same", "None")]

LeaseEndings ==
    [RetryNow |-> Row("leased", "ready", "Increment", "Unchanged", "None", "None"),
     RetryLater |-> Row("leased", "delayed", "Increment", "Unchanged", "None", "None"),
     Bury |-> Row("leased", "dead", "Increment", "Unchanged", "None", "None"),
     ReapExpiredToReady |->
         Row("leased", "ready", "Increment", "Unchanged", "None", "AttemptsRemaining"),
     ReapExpiredToDead |->
         Row("leased", "dead", "Increment", "Unchanged", "None", "AttemptsExhausted"),
     Quarantine |-> Row("active", "quarantine", "Increment", "Unchanged", "None", "RawBytesPreserved")]

transition(operation) ==
    CASE operation \in DOMAIN Publications -> Publications[operation]
      [] operation \in DOMAIN Movements -> Movements[operation]
      [] operation \in DOMAIN LeaseEndings -> LeaseEndings[operation]

----------------------------------------------------------------------------
Err == [gen |-> -1, att |-> -1]

\* Variant: the attempt is not counted.
next_common_fields_uncounted(operation, gen, att, max) ==
    [gen |-> IF transition(operation).generation_change = "Zero" THEN 0 ELSE gen + 1, att |-> att]

\* The successor's generation and attempt; Err when a counter is at its maximum.
next_common_fields(operation, gen, att, max) ==
    LET row == transition(operation)
        grown == IF row.generation_change = "Zero" THEN 0 ELSE gen + 1
        counted == CASE row.attempt_change = "Zero" -> 0
                     [] row.attempt_change = "Increment" -> att + 1
                     [] row.attempt_change = "Unchanged" -> att
    IN IF grown > max \/ counted > max THEN Err ELSE [gen |-> grown, att |-> counted]

----------------------------------------------------------------------------
(* Tickets: the operation and the identity of its source.  The destination  *)
(* is derived again from these when the ticket is resolved.                 *)

TransitionOperations == {"Claim", "Renew", "Acknowledge", "RetryNow", "RetryLater", "Bury"}

Ticket(operation, source, gen, att, maximum, destination) ==
    [operation |-> operation, source |-> source, generation |-> gen, attempt |-> att,
     maximum_attempts |-> maximum, destination |-> destination]

destination_common(t, max) == next_common_fields(t.operation, t.generation, t.attempt, max)

\* TransitionTicket::validate; the shape of boot identifiers is left out.
validate(t, max) ==
    LET next == destination_common(t, max) IN
    /\ t.operation \in TransitionOperations
    /\ t.maximum_attempts # 0
    /\ t.attempt <= t.maximum_attempts
    /\ next # Err
    /\ t.source = transition(t.operation).source
    /\ t.destination = transition(t.operation).destination
    /\ next.att <= t.maximum_attempts
=============================================================================
