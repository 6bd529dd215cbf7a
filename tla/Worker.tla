------------------------------- MODULE Worker -------------------------------
(* `steadq work` (steadq-cli/src/work.rs): one process whose threads each     *)
(* lease a job, run a command on it, renew the lease while the command runs   *)
(* and close it with an ack or a requeue.  The queue is reduced to what the   *)
(* worker can tell: whether the lease it holds is still the job's name        *)
(* (module Lifecycle has the files).  A reaper of another process takes back  *)
(* expired leases.  Power loss is left to Lifecycle.                          *)
EXTENDS Integers, FiniteSets, FiniteSetsExt

CONSTANTS
    Workers,        \* --concurrency
    Jobs,
    None,
    MaxAttempts,    \* maximum_attempts of every job
    Duration,       \* lease duration, in ticks
    Second,         \* one second, in ticks
    ChildCodes,     \* what a failed child makes child_exit_code return
    Starts,         \* runs looked at: threads, attempts made, clock and failed calls at the start
    MaxClock,       \* bound on the clock
    MaxFaults       \* bound on failed calls

ASSUME ConstantsAssumption ==
    /\ MaxAttempts \in Nat \ {0}
    /\ Duration \in Nat \ {0}
    /\ Second \in Nat \ {0}
    /\ ChildCodes \subseteq 1..255
    /\ MaxClock \in Nat
    /\ Starts \subseteq [threads : SUBSET Workers, att : [Jobs -> 0..MaxAttempts],
                         now : 0..MaxClock, faults : 0..MaxFaults]
    /\ MaxFaults \in Nat

VARIABLES
    once,       \* --once, given at the start
    job,        \* the queue: state, attempt, generation and deadline of a job
    thr,        \* the worker threads
    stop,       \* STOP
    signalled,  \* SIGNALLED
    fatal,      \* FATAL
    now,        \* CLOCK_BOOTTIME
    faults      \* calls that have failed

vars == <<once, job, thr, stop, signalled, fatal, now, faults>>

Lost == 1
Unknown == 2
Poisoned == 3
Refused == 5
IoFailure == 6
NotFound == 127
Killed == 143
WaitFailed == -1

\* A LeaseInfo: the exact leased name is job and generation.
Leases == [job : Jobs, gen : Nat, att : 1..MaxAttempts, dl : Nat]

Threads ==
    [pc : {"open", "loop", "leasing", "leased", "spawn", "unrun", "run", "join", "done"},
     lease : Leases \cup {None},
     child : {"none", "running", "exited"},
     status : ChildCodes \cup {0, WaitFailed, NotFound, IoFailure},
     fed : {"no", "feeding", "true", "false"},
     renewing : BOOLEAN, forwarded : BOOLEAN, next : Nat,
     tried : BOOLEAN,       \* history: a spawn was tried under this lease
     late : Nat,            \* history: lease time lost outside the schedule
     misses : Nat,          \* history: renewals failed in a row
     extra : Nat,           \* history: jobs claimed since STOP was set
     poisoned : BOOLEAN, code : 0..255]

\* A thread at the top of its loop.
Fresh(pc, extra, poisoned) ==
    [pc |-> pc, lease |-> None, child |-> "none", status |-> 0, fed |-> "no",
     renewing |-> FALSE, forwarded |-> FALSE, next |-> 0, tried |-> FALSE,
     late |-> 0, misses |-> 0, extra |-> extra, poisoned |-> poisoned,
     code |-> 0]

\* retry_now and the reaper: an exhausted job goes to dead instead.
RetryState(att) == IF att < MaxAttempts THEN "ready" ELSE "dead"

Init ==
    /\ once \in BOOLEAN
    /\ stop = FALSE /\ signalled = FALSE /\ fatal = 0
    /\ \E s \in Starts :
         /\ job = [j \in Jobs |-> [st |-> RetryState(s.att[j]), att |-> s.att[j],
                                  gen |-> 2 * s.att[j], dl |-> 0]]
         /\ thr = [t \in Workers |-> Fresh(IF t \in s.threads THEN "open" ELSE "done", 0, FALSE)]
         /\ now = s.now /\ faults = s.faults

-----------------------------------------------------------------------------
(* The queue as its callers see it.                                          *)

Current(l) == job[l.job].st = "leased" /\ job[l.job].gen = l.gen

Claimed(j) == [st |-> "leased", att |-> job[j].att + 1,
               gen |-> job[j].gen + 1, dl |-> now + Duration]
Moved(j, st) == [st |-> st, att |-> job[j].att, gen |-> job[j].gen + 1, dl |-> 0]

\* Variant: the retry after a failed renewal waits half the lease again.
RenewIntervalSlow(failed) == Duration \div 2

\* renew_interval
RenewInterval(failed) ==
    IF failed THEN Min({Duration \div 8, Second}) ELSE Duration \div 2

Fault == faults < MaxFaults /\ faults' = faults + 1

-----------------------------------------------------------------------------
(* worker: the loop of one thread.                                           *)

At(t, pc) == thr[t].pc = pc
Set(t, r) == thr' = [thr EXCEPT ![t] = r]

\* The thread returns code c, or goes round its loop.
Return(t, c, p) == Set(t, [thr[t] EXCEPT !.pc = "done", !.code = c, !.poisoned = p])
Again(t, p) == Set(t, Fresh("loop", thr[t].extra, p))
AfterRun(t, c, p) == IF once THEN Return(t, c, p) ELSE Again(t, p)

Open(t) ==
    /\ At(t, "open")
    /\ \/ Again(t, FALSE) /\ UNCHANGED faults
       \/ Fault /\ Return(t, IoFailure, FALSE)
    /\ UNCHANGED <<job, stop, signalled, fatal, now>>

\* Variant: STOP is looked at only once a job is leased.
CheckStopLater(t) ==
    /\ At(t, "loop")
    /\ Set(t, [thr[t] EXCEPT !.pc = "leasing"])
    /\ UNCHANGED <<job, stop, signalled, fatal, now, faults>>

\* The STOP test at the top of the loop.
CheckStop(t) ==
    /\ At(t, "loop")
    /\ IF stop THEN Return(t, 0, thr[t].poisoned)
               ELSE Set(t, [thr[t] EXCEPT !.pc = "leasing"])
    /\ UNCHANGED <<job, stop, signalled, fatal, now, faults>>

\* lease_with_payload claims a ready job.
Lease(t) ==
    /\ At(t, "leasing") /\ ~thr[t].poisoned
    /\ \E j \in {i \in Jobs : job[i].st = "ready"} :
         LET n == Claimed(j) IN
         /\ job' = [job EXCEPT ![j] = n]
         /\ \/ /\ Set(t, [thr[t] EXCEPT !.pc = "leased",
                            !.lease = [job |-> j, gen |-> n.gen, att |-> n.att, dl |-> n.dl],
                            !.extra = IF stop THEN @ + 1 ELSE @])
               /\ UNCHANGED faults
            \/ Fault /\ Return(t, Unknown, TRUE)
    /\ UNCHANGED <<stop, signalled, fatal, now>>

\* lease_with_payload refuses a poisoned handle, or finds nothing.
LeaseNothing(t) ==
    /\ At(t, "leasing")
    /\ \/ thr[t].poisoned /\ Return(t, Poisoned, TRUE)
       \/ /\ ~thr[t].poisoned
          /\ \A j \in Jobs : job[j].st # "ready"
          /\ IF once THEN Return(t, 0, FALSE) ELSE Again(t, FALSE)
    /\ UNCHANGED <<job, stop, signalled, fatal, now, faults>>

\* lease_with_payload fails: for good, or (lease_error_is_fatal) until the next round.
LeaseFails(t) ==
    /\ At(t, "leasing") /\ ~thr[t].poisoned
    /\ Fault
    /\ Return(t, Refused, FALSE) \/ AfterRun(t, IoFailure, FALSE)
    /\ UNCHANGED <<job, stop, signalled, fatal, now>>

\* finish and requeue: the closing call moves the lease to st; c is the code the
\* caller raises to.  A thread that handed its job back returns in any case.
Closing(t, st, c, handedBack) ==
    LET l == thr[t].lease
        After(d, p) == IF handedBack THEN Return(t, d, p) ELSE AfterRun(t, d, p)
        Move == job' = [job EXCEPT ![l.job] = Moved(l.job, st)]
    IN \/ /\ thr[t].poisoned
          /\ After(Max({c, Poisoned}), TRUE) /\ UNCHANGED <<job, faults>>
       \/ /\ ~thr[t].poisoned
          /\ \/ Current(l) /\ Move /\ After(c, FALSE) /\ UNCHANGED faults
             \/ Current(l) /\ Fault /\ Move /\ After(Max({c, Unknown}), TRUE)
             \/ ~Current(l) /\ After(Max({c, Lost}), FALSE) /\ UNCHANGED <<job, faults>>
             \/ Fault /\ After(Max({c, IoFailure}), FALSE) /\ UNCHANGED job

\* Variant: a stopped worker hands back every job, last attempts included.
HandBackAlways(t) == stop

\* The STOP test after a claim: the job goes back unrun.
HandBack(t) == stop /\ thr[t].lease.att < MaxAttempts

Decide(t) ==
    /\ At(t, "leased")
    /\ IF HandBack(t)
       THEN Closing(t, RetryState(thr[t].lease.att), 0, TRUE)
       ELSE Set(t, [thr[t] EXCEPT !.pc = "spawn"]) /\ UNCHANGED <<job, faults>>
    /\ UNCHANGED <<stop, signalled, fatal, now>>

-----------------------------------------------------------------------------
(* run_one, feed and babysit.                                                *)

\* The command is started; babysit plans the first renewal from here.
Spawn(t) ==
    /\ At(t, "spawn")
    /\ Set(t, [thr[t] EXCEPT !.pc = "run", !.child = "running", !.fed = "feeding",
                 !.renewing = TRUE, !.next = now + RenewInterval(FALSE),
                 !.late = now - (thr[t].lease.dl - Duration), !.tried = TRUE])
    /\ UNCHANGED <<job, stop, signalled, fatal, now, faults>>

\* exec fails: every thread is to stop, and the run to exit with NotFound.
SpawnFails(t) ==
    /\ At(t, "spawn") /\ Fault
    /\ fatal' = NotFound /\ stop' = TRUE
    /\ Set(t, [thr[t] EXCEPT !.pc = "unrun", !.status = NotFound, !.tried = TRUE])
    /\ UNCHANGED <<job, signalled, now>>

\* The child's stdin cannot be configured: it is killed and waited for.
StdinFails(t) ==
    /\ At(t, "spawn") /\ Fault
    /\ Set(t, [thr[t] EXCEPT !.pc = "unrun", !.status = IoFailure, !.tried = TRUE])
    /\ UNCHANGED <<job, stop, signalled, fatal, now>>

\* The requeue after either failure.
RequeueUnrun(t) ==
    /\ At(t, "unrun")
    /\ Closing(t, RetryState(thr[t].lease.att), thr[t].status, FALSE)
    /\ UNCHANGED <<stop, signalled, fatal, now>>

\* The command ends: by itself, or on the SIGTERM it was sent.
ChildExits(t) ==
    /\ thr[t].child = "running"
    /\ \E c \in ChildCodes \cup {0} :
         Set(t, [thr[t] EXCEPT !.child = "exited", !.status = c])
    /\ UNCHANGED <<job, stop, signalled, fatal, now, faults>>

\* feed: the payload is all written, the child has closed its stdin, or the
\* feeder sees `stopped`; or a read or a write fails.
FeedEnds(t) ==
    /\ thr[t].fed = "feeding"
    /\ \/ Set(t, [thr[t] EXCEPT !.fed = "true"]) /\ UNCHANGED faults
       \/ Fault /\ Set(t, [thr[t] EXCEPT !.fed = "false"])
    /\ UNCHANGED <<job, stop, signalled, fatal, now>>

\* Variant: the stop request is looked at after the test of `renewing`.
ForwardWhileRenewing(t) ==
    /\ At(t, "run") /\ thr[t].renewing
    /\ signalled /\ ~thr[t].forwarded
    /\ Set(t, [thr[t] EXCEPT !.forwarded = TRUE])
    /\ UNCHANGED <<job, stop, signalled, fatal, now, faults>>

\* babysit forwards a stop request to the child, once.
Forward(t) ==
    /\ At(t, "run")
    /\ signalled /\ ~thr[t].forwarded
    /\ Set(t, [thr[t] EXCEPT !.forwarded = TRUE])
    /\ UNCHANGED <<job, stop, signalled, fatal, now, faults>>

\* A renewal is due.
Due(t) == At(t, "run") /\ thr[t].renewing /\ thr[t].next <= now

\* The renewal puts a fresh deadline in the job's name; the outcome may be unknown.
Renew(t) ==
    LET l == thr[t].lease
        n == [job[l.job] EXCEPT !.gen = @ + 1, !.dl = now + Duration]
    IN /\ Due(t) /\ Current(l)
       /\ job' = [job EXCEPT ![l.job] = n]
       /\ \/ /\ Set(t, [thr[t] EXCEPT !.lease.gen = n.gen, !.lease.dl = n.dl,
                          !.next = now + RenewInterval(FALSE),
                          !.late = 0, !.misses = 0])
             /\ UNCHANGED faults
          \/ Fault /\ Set(t, [thr[t] EXCEPT !.renewing = FALSE, !.poisoned = TRUE])
       /\ UNCHANGED <<stop, signalled, fatal, now>>

\* The lease is gone: the child goes on without renewals.
RenewLost(t) ==
    /\ Due(t) /\ ~Current(thr[t].lease)
    /\ Set(t, [thr[t] EXCEPT !.renewing = FALSE])
    /\ UNCHANGED <<job, stop, signalled, fatal, now, faults>>

\* The renewal fails before the rename: the next try comes sooner.
RenewFails(t) ==
    /\ Due(t) /\ Fault
    /\ Set(t, [thr[t] EXCEPT !.next = now + RenewInterval(TRUE), !.misses = @ + 1])
    /\ UNCHANGED <<job, stop, signalled, fatal, now>>

\* babysit returns the child's status, and `stopped` is set for the feeder.
Collect(t) ==
    /\ At(t, "run") /\ thr[t].child = "exited"
    /\ Set(t, [thr[t] EXCEPT !.pc = "join"])
    /\ UNCHANGED <<job, stop, signalled, fatal, now, faults>>

\* Waiting for the child fails: it is killed.
WaitFails(t) ==
    /\ At(t, "run") /\ Fault
    /\ Set(t, [thr[t] EXCEPT !.pc = "join", !.child = "exited", !.status = WaitFailed])
    /\ UNCHANGED <<job, stop, signalled, fatal, now>>

\* Variant: the feeder's verdict is ignored.
DeliveredByStatus(t) == thr[t].status = 0

\* The child succeeded and was given its payload.
Delivered(t) == thr[t].status = 0 /\ thr[t].fed = "true"

\* What a requeue raises the exit code to: child_exit_code, or 1 for a payload
\* that was not delivered.
FailureCode(t) == Max({thr[t].status, 1})

\* The end of run_one, once the feeder has been joined.
Close(t) ==
    /\ At(t, "join") /\ thr[t].fed # "feeding"
    /\ \/ /\ thr[t].status = WaitFailed
          /\ AfterRun(t, IoFailure, thr[t].poisoned) /\ UNCHANGED <<job, faults>>
       \/ Delivered(t) /\ Closing(t, "acked", 0, FALSE)
       \/ /\ thr[t].status # WaitFailed /\ ~Delivered(t)
          /\ Closing(t, RetryState(thr[t].lease.att), FailureCode(t), FALSE)
    /\ UNCHANGED <<stop, signalled, fatal, now>>

-----------------------------------------------------------------------------
(* Signals, other processes and time.                                        *)

Alive == \E t \in Workers : ~At(t, "done")

\* on_stop_signal, the first time: SIGNALLED, and after it STOP.
Signal ==
    /\ Alive /\ ~signalled /\ signalled' = TRUE
    /\ UNCHANGED <<job, thr, stop, fatal, now, faults>>

SignalStops ==
    /\ signalled /\ ~stop /\ stop' = TRUE
    /\ UNCHANGED <<job, thr, signalled, fatal, now, faults>>

\* on_stop_signal again: the process exits, and its children are killed.
SecondSignal ==
    /\ Alive /\ signalled
    /\ thr' = [t \in Workers |->
                 [thr[t] EXCEPT !.pc = "done", !.code = Killed,
                    !.child = IF @ = "running" THEN "exited" ELSE @,
                    !.status = IF thr[t].child = "running" THEN WaitFailed ELSE @,
                    !.fed = IF @ = "feeding" THEN "false" ELSE @]]
    /\ UNCHANGED <<job, stop, signalled, fatal, now, faults>>

\* Recovery of another process takes back an expired lease.
Reap(j) ==
    /\ job[j].st = "leased" /\ job[j].dl <= now
    /\ job' = [job EXCEPT ![j] = Moved(j, RetryState(job[j].att))]
    /\ UNCHANGED <<thr, stop, signalled, fatal, now, faults>>

\* Time passes; a thread whose renewal is due is woken in time.
Tick ==
    /\ now < MaxClock /\ \A t \in Workers : ~Due(t)
    /\ now' = now + 1
    /\ UNCHANGED <<job, thr, stop, signalled, fatal, faults>>

\* The machine is suspended: leases age by CLOCK_BOOTTIME, while Instant, which
\* plans the renewals, stands still.
Suspend ==
    /\ now < MaxClock
    /\ now' = now + 1
    /\ thr' = [t \in Workers |->
                 IF At(t, "run") /\ thr[t].renewing
                 THEN [thr[t] EXCEPT !.next = @ + 1, !.late = @ + 1] ELSE thr[t]]
    /\ UNCHANGED <<job, stop, signalled, fatal, faults>>

\* What the worker's own threads do.
Step(t) ==
    \/ Open(t) \/ CheckStop(t) \/ Lease(t) \/ LeaseNothing(t) \/ LeaseFails(t)
    \/ Decide(t) \/ Spawn(t) \/ SpawnFails(t) \/ StdinFails(t) \/ RequeueUnrun(t)
    \/ Forward(t) \/ Renew(t) \/ RenewLost(t) \/ RenewFails(t)
    \/ Collect(t) \/ WaitFails(t) \/ Close(t)

Next ==
    /\ \/ \E t \in Workers : Step(t) \/ ChildExits(t) \/ FeedEnds(t)
       \/ \E j \in Jobs : Reap(j)
       \/ Signal \/ SignalStops \/ SecondSignal \/ Tick \/ Suspend
    /\ UNCHANGED once

Spec == Init /\ [][Next]_vars

\* Threads and signal handlers run on; a feeder ends once it is told to stop;
\* a child that was sent SIGTERM ends.
Fairness ==
    /\ WF_vars(SignalStops /\ UNCHANGED once)
    /\ \A t \in Workers :
         /\ WF_vars(Step(t) /\ UNCHANGED once)
         /\ WF_vars(At(t, "join") /\ FeedEnds(t) /\ UNCHANGED once)
         /\ WF_vars(thr[t].forwarded /\ ChildExits(t) /\ UNCHANGED once)

LiveSpec == Spec /\ Fairness

-----------------------------------------------------------------------------
(* Properties.                                                               *)

\* Every variable has its type; no job is claimed more often than its limit.
TypeOK ==
    /\ job \in [Jobs -> [st : {"ready", "leased", "acked", "dead"},
                         att : 0..MaxAttempts, gen : Nat, dl : Nat]]
    /\ thr \in [Workers -> Threads]
    /\ once \in BOOLEAN /\ stop \in BOOLEAN /\ signalled \in BOOLEAN /\ fatal \in {0, NotFound}
    /\ now \in 0..MaxClock /\ faults \in 0..MaxFaults

\* The lease time lost to a late start or a suspend, and to failed renewals at
\* T/8 or a second each, leaves something of the half lease that babysit keeps in reserve.
InReserve(t) ==
    thr[t].late + thr[t].misses * Min({Duration \div 8, Second}) < Duration - Duration \div 2

\* A failed renewal cannot run the lease out (renew_interval): while a child
\* runs and is renewed, and the reserve is not used up, the lease has not
\* expired and nobody else has been given the job.
LeaseOutlivesMisses ==
    \A t \in Workers :
        At(t, "run") /\ thr[t].renewing /\ InReserve(t)
            => now < thr[t].lease.dl /\ Current(thr[t].lease)

\* After STOP a thread claims at most the job it was already waiting for
\* (worker): the tests before and after the lease leave no other way in.
OneClaimAfterStop == \A t \in Workers : thr[t].extra <= 1

\* The exit code of run is the largest of the threads' and FATAL.
ExitCode == Max({thr[t].code : t \in Workers} \cup {fatal})

\* A run that stopped because a command could not be started says so, whichever
\* thread met the failure and whatever the others return (FATAL in run).
SpawnFailureReported == ~Alive /\ stop /\ ~signalled => ExitCode >= NotFound

\* With --once, exit 0 of a thread that took up a job means that this very
\* lease was acked: no failure of the child, the feeder, a renewal or the
\* closing call is reported as success.
OnceReportsOutcome ==
    \A t \in Workers :
        once /\ At(t, "done") /\ thr[t].tried /\ thr[t].code = 0
            => LET l == thr[t].lease IN
               job[l.job].st = "acked" /\ job[l.job].gen = l.gen + 1

\* A job is acked only under the lease its child ran with, after the child
\* succeeded and its payload was delivered (run_one).
AckedMeansDelivered ==
    [][\A j \in Jobs : job[j].st # "acked" /\ job'[j].st = "acked" =>
         \E t \in Workers :
            /\ At(t, "join") /\ thr[t].lease.job = j /\ Current(thr[t].lease)
            /\ thr[t].child = "exited" /\ thr[t].status = 0
            /\ thr[t].fed = "true"]_vars

\* A stop request sends no job to dead unrun (worker): a job that goes to dead
\* before its lease expires was tried by the thread that sends it there.
DeadWasTried ==
    [][\A j \in Jobs :
         job[j].st # "dead" /\ job'[j].st = "dead" /\ now < job[j].dl =>
         \E t \in Workers :
            thr[t].tried /\ thr[t].lease.job = j /\ Current(thr[t].lease)]_vars

\* STOP is honoured and explained: in well-typed states, OneClaimAfterStop and
\* SpawnFailureReported.
StopHonoured == TypeOK /\ OneClaimAfterStop /\ SpawnFailureReported

\* What the queue and the caller are told is what happened: AckedMeansDelivered,
\* and with --once OnceReportsOutcome.
OutcomesTrue == AckedMeansDelivered /\ []OnceReportsOutcome

\* A signal ends the run: every thread returns, whatever it was doing and
\* whatever became of its lease (babysit forwards the signal to the child).
SignalStopsAll == signalled ~> ~Alive

\* A thread whose handle is poisoned, and whose child has ended, returns: it
\* does not poll a queue that refuses it (lease_error_is_fatal).
PoisonedThreadReturns ==
    \A t \in Workers :
        thr[t].poisoned /\ thr[t].child # "running" ~> At(t, "done")

\* No thread stays behind after a signal or a poisoned handle: SignalStopsAll and
\* PoisonedThreadReturns.
ThreadsEnd == SignalStopsAll /\ PoisonedThreadReturns
=============================================================================
