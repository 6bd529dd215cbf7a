------------------------------ MODULE Protocol ------------------------------
(***************************************************************************)
(* The calls of Lifecycle measured against the generated protocol table.   *)
(***************************************************************************)
EXTENDS Lifecycle

IR == INSTANCE StateMachine

\* The operations each call passes to next_identity, by where it moves the job.
OperationsOf(kind) ==
    CASE kind \in {"enqueue", "enqueueNamed"} -> {"EnqueueImmediate", "EnqueueDelayed"}
      [] kind = "promote" -> {"Promote"}
      [] kind = "claim" -> {"Claim"}
      [] kind = "renew" -> {"Renew"}
      [] kind = "ack" -> {"Acknowledge"}
      [] kind = "retry" -> {"RetryNow", "RetryLater", "Bury"}
      [] kind = "bury" -> {"Bury"}
      [] kind = "reap" -> {"ReapExpiredToReady", "ReapExpiredToDead"}
      [] kind = "quarantine" -> {"Quarantine"}

\* A source the row names; a leased name is among the active ones.
SourceMatches(row, st) == row.source = st \/ (row.source = "active" /\ st \in {"ready", "leased", "delayed"})

TokenMatches(row, src, dst) ==
    CASE row.token_change = "None" -> dst.tok = 0
      [] row.token_change = "Same" -> dst.tok = src.tok
      [] row.token_change = "New" -> dst.tok \notin {0, src.tok} /\ dst.tok <= tokens

Qualified(row, j, src) ==
    /\ row.qualification = "AttemptsRemaining" => src.att < MaximumAttempts[j]
    /\ row.qualification = "AttemptsExhausted" => src.att >= MaximumAttempts[j]

\* The ticket a consumer call prepares before its rename.
TicketOf(o, operation) ==
    IR!Ticket(operation, o.src.st, o.src.gen, o.src.att, MaximumAttempts[o.job], o.dst.st)

\* Call o is an application of the given operation's row.
Applies(o, operation) ==
    LET row == IR!transition(operation) IN
    /\ SourceMatches(row, o.src.st)
    /\ row.destination = o.dst.st
    /\ IR!next_common_fields(operation, o.src.gen, o.src.att, MaxGeneration)
         = [gen |-> o.dst.gen, att |-> o.dst.att]
    /\ TokenMatches(row, o.src, o.dst)
    /\ Qualified(row, o.job, o.src)
    /\ operation \in IR!TransitionOperations => IR!validate(TicketOf(o, operation), MaxGeneration)

\* Every rename a call is about to make is one row of the protocol table: the
\* states, the generation, the attempt, the token and the attempts left are as
\* the row says, and the ticket of a consumer call validates and derives the very
\* destination the rename makes, so that resolve will look where the job went.
\* (The table has no row for the removal of a dead job.)
CallsFollowTable ==
    \A h \in Handles :
      op[h].pc = "rename" /\ op[h].kind # "remove" =>
        \E operation \in OperationsOf(op[h].kind) : Applies(op[h], operation)
=============================================================================
