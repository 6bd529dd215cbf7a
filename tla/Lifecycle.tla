----------------------------- MODULE Lifecycle -----------------------------
(***************************************************************************)
(* The life of a job in SteadQ: an immutable file whose pathname is its    *)
(* state.  Every transition is one no-overwrite link or rename (the        *)
(* linearization point) followed by directory fsyncs (the durability       *)
(* barrier), and each of these is a step of its own here, so that the      *)
(* steps of several handles, process crashes and power losses interleave.  *)
(*                                                                         *)
(* The volatile namespace is `file'.  `back' is what a power loss may      *)
(* leave behind: on a certified filesystem a rename is one journalled      *)
(* change, so a crash restores some earlier name of the job, never two     *)
(* names and never none, and not a name older than the last fsync of a     *)
(* directory that a later rename touched.                                  *)
(***************************************************************************)
EXTENDS Integers, FiniteSets

CONSTANTS
    Jobs,             \* job identifiers
    Handles,          \* open Queue handles, in any number of processes
    MaximumAttempts,  \* [Jobs -> 1..]: maximum_attempts in each job's header
    CorruptJobs,      \* jobs whose payload no longer matches its digest
    EnqueueKinds,     \* publication modes: tmpfile link or named fallback
    LeaseDurations,   \* durations a consumer may ask for
    Faults,           \* errno classes the storage may return
    MaxGeneration,    \* u64::MAX of the generation counter
    MaxToken,         \* bound: lease tokens ever drawn
    MaxTime,          \* bound: CLOCK_BOOTTIME of one boot, and deadlines
    MaxWall,          \* bound: wall floor, in buckets
    MaxBoot,          \* bound: number of power losses
    RenewBound,       \* bound: renew only below this generation
    JobBound          \* bound: jobs in the queue at a time

ASSUME LifecycleConstants ==
    /\ MaximumAttempts \in [Jobs -> Nat \ {0}]
    /\ CorruptJobs \subseteq Jobs
    /\ EnqueueKinds \subseteq {"enqueue", "enqueueNamed"}
    /\ LeaseDurations \subseteq Nat \ {0}
    /\ Faults \subseteq {"io", "nospc"}
    /\ {MaxGeneration, MaxToken, MaxTime, MaxWall, MaxBoot, RenewBound, JobBound} \subseteq Nat

VARIABLES
    file,       \* [Jobs -> Names]: the one name each job has now
    back,       \* [Jobs -> SUBSET Names]: the names a power loss may restore
    compact,    \* jobs whose receipt is another inode than the one moved there
    boot,       \* boot id of the running kernel
    now,        \* CLOCK_BOOTTIME
    wall,       \* the authenticated wall floor, in buckets
    tokens,     \* lease tokens drawn so far; each is fresh
    op,         \* [Handles -> Ops]: the call each handle is executing
    poisoned,   \* [Handles -> Causes]: why the handle is poisoned, or "none"
    leases,     \* every LeaseInfo returned to a caller, kept for ever
    tickets,    \* every TransitionTicket returned with OutcomeUnknown
    committed,  \* [Jobs -> Int]: newest generation reported committed
    acked,      \* receipts of ack calls that answered Acked
    dupAcked,   \* receipts of ack calls that answered AlreadyAcked
    lost        \* leases for which a call answered LeaseLost

vars == <<file, back, compact, boot, now, wall, tokens, op, poisoned, leases,
          tickets, committed, acked, dupAcked, lost>>
namespace == <<file, back, compact>>
clocks == <<boot, now, wall>>
answers == <<leases, tickets, committed, acked, dupAcked, lost>>

----------------------------------------------------------------------------
(* Names.  A pathname carries generation, attempt and what the state needs: *)
(* token, deadline and boot for a lease, a bucket for the timed states.     *)

States == {"hidden", "ready", "leased", "delayed", "dead", "receipt", "quarantine", "removed"}
Names == [st : States, gen : Int, att : Nat, tok : Nat, dl : Nat, boot : Nat, bkt : Nat]

Name(st, gen, att) ==
    [st |-> st, gen |-> gen, att |-> att, tok |-> 0, dl |-> 0, boot |-> 0, bkt |-> 0]

\* A job not yet published: an unnamed or temporary file, before generation 0.
Hidden == Name("hidden", -1, 0)

\* Variants: a claim that does not count; an attempt given back on return to ready.
NextIdentityUncounted(n, st) == Name(st, n.gen + 1, n.att)
NextIdentityRefunded(n, st) == Name(st, n.gen + 1, IF st = "ready" THEN n.att - 1 ELSE n.att + 1)

\* next_common_fields: every transition increments the generation, and only a
\* claim the attempt.
NextIdentity(n, st) ==
    Name(st, n.gen + 1, IF n.st = "ready" /\ st = "leased" THEN n.att + 1 ELSE n.att)

Ready(n) == NextIdentity(n, "ready")
Leased(n, tok, dl) == [NextIdentity(n, "leased") EXCEPT !.tok = tok, !.dl = dl, !.boot = boot]
Delayed(n, notBefore) == [NextIdentity(n, "delayed") EXCEPT !.bkt = notBefore]
Dead(n) == [NextIdentity(n, "dead") EXCEPT !.bkt = wall]
Receipt(n) == [NextIdentity(n, "receipt") EXCEPT !.tok = n.tok, !.bkt = wall]
Quarantined(n) == NextIdentity(n, "quarantine")

\* No name at all: what an unlink leaves of a dead job, in the same directory.
Removed(n) == [NextIdentity(n, "removed") EXCEPT !.bkt = n.bkt]

\* The directory a name lives in.  A leased name stays in its ready shard.
Dir(n) ==
    CASE n.st \in {"ready", "leased"} -> <<"ready">>
      [] n.st \in {"delayed", "dead", "receipt"} -> <<n.st, n.bkt>>
      [] n.st = "removed" -> <<"dead", n.bkt>>
      [] OTHER -> <<n.st>>

----------------------------------------------------------------------------
(* The filesystem.                                                          *)

\* Linking or renaming job j to the name n.
Linearize(j, n) ==
    /\ file' = [file EXCEPT ![j] = n]
    /\ back' = [back EXCEPT ![j] = @ \cup {n}]
    /\ UNCHANGED compact

\* The rename that produced n has an entry in directory d.
Touches(j, n, d) ==
    Dir(n) = d \/ \E p \in back[j] : p.gen = n.gen - 1 /\ Dir(p) = d

\* fsync of directory d: no later crash undoes a rename that touched it.
Fsync(d) ==
    back' = [j \in Jobs |->
               {n \in back[j] : \A m \in back[j] : Touches(j, m, d) => m.gen <= n.gen}]

----------------------------------------------------------------------------
(* Calls in progress.                                                       *)

ConsumerKinds == {"renew", "ack", "retry", "bury"}
RecoveryKinds == {"reap", "promote"}
Kinds == {"none", "enqueue", "enqueueNamed", "claim", "quarantine", "resolve", "remove"}
           \cup ConsumerKinds \cup RecoveryKinds
Phases == {"idle", "rename", "witness", "syncDst", "syncSrc", "verify",
           "srcSeen", "srcAbsent", "stabilize", "recheck"}
Causes == {"none", "io", "nospc", "raced", "authority"}

Tickets == [job : Jobs, src : Names, dst : Names]
LeaseInfos == [job : Jobs, name : Names]

\* A call: the move src -> dst it is making and the ticket it would return.
Call(pc, kind, j, src, dst, tkt) ==
    [pc |-> pc, kind |-> kind, job |-> j, src |-> src, dst |-> dst, tkt |-> tkt]
Idle == [pc |-> "idle", kind |-> "none"]

\* Moves whose destination is looked up again after the rename.
Witnessed(kind) == kind \in ConsumerKinds \cup {"claim", "enqueueNamed", "quarantine"}

Usable(h) == op[h] = Idle /\ poisoned[h] = "none"

Begin(h, kind, j, src, dst) ==
    op' = [op EXCEPT ![h] =
             Call("rename", kind, j, src, dst, [job |-> j, src |-> src, dst |-> dst])]
Goto(h, pc) == op' = [op EXCEPT ![h].pc = pc]
Return(h) == op' = [op EXCEPT ![h] = Idle]

----------------------------------------------------------------------------
(* Starting a call.  Reads and checks that fail return early and change     *)
(* nothing; what is left is the move the call is about to make.             *)

\* Known to the queue or to a caller.
InUse(j) ==
    \/ file[j] # Hidden
    \/ \E g \in Handles : op[g].pc # "idle" /\ op[g].job = j
    \/ \E t \in tickets : t.job = j

\* enqueue: a fresh job id, published ready or, when its not-before time is
\* past the wall floor, delayed.
EnqueueBegin(h) ==
    \E j \in Jobs, kind \in EnqueueKinds :
      /\ Usable(h)
      /\ file[j] = Hidden
      /\ \A g \in Handles : op[g].pc # "idle" => op[g].job # j
      /\ \A t \in tickets : t.job # j
      /\ Cardinality({i \in Jobs : InUse(i)}) < JobBound
      /\ \E dst \in {Ready(Hidden)} \cup {Delayed(Hidden, b) : b \in (wall + 1)..MaxWall} :
           Begin(h, kind, j, Hidden, dst)
      /\ UNCHANGED <<namespace, clocks, tokens, poisoned, answers>>

\* lease: the scan found a ready name with attempts left and opened the file.
\* Deadline and token are fixed here, before the rename.
ClaimBegin(h) ==
    \E j \in Jobs, d \in LeaseDurations :
      LET n == file[j] IN
      /\ Usable(h)
      /\ n.st = "ready"
      /\ n.att < MaximumAttempts[j]
      /\ n.gen < MaxGeneration
      /\ now + d <= MaxTime
      /\ tokens < MaxToken
      /\ tokens' = tokens + 1
      /\ Begin(h, "claim", j, n, Leased(n, tokens + 1, now + d))
      /\ UNCHANGED <<namespace, clocks, poisoned, answers>>

\* Variant: leases of an earlier boot are accepted.
LeaseAcceptedAnyBoot(l) == TRUE

\* open_and_validate_current_lease: a handle accepts only leases of its own
\* boot, and the exact leased name must still be there.
LeaseAccepted(l) == l.name.boot = boot
LeaseCurrent(l) == file[l.job] = l.name

\* duplicate_ack_outcome: a receipt of this very lease is present.
AckedBefore(l) ==
    LET r == file[l.job] IN
    r.st = "receipt" /\ r.tok = l.name.tok /\ r.gen = l.name.gen + 1

\* Variant: the attempt limit is not checked.
RetryUnlimited(j, n) == {Ready(n)} \cup {Delayed(n, b) : b \in (wall + 1)..MaxWall}

\* retry: now, or after a time past the wall floor; with no attempt left the
\* job is buried.
RetryTargets(j, n) ==
    IF n.att >= MaximumAttempts[j] THEN {Dead(n)}
    ELSE {Ready(n)} \cup {Delayed(n, b) : b \in (wall + 1)..MaxWall}

\* renew: a new deadline for the same token.
RenewTargets(n) ==
    {Leased(n, n.tok, now + d) : d \in {e \in LeaseDurations : now + e <= MaxTime}}

\* Where each consumer call moves the lease.
ConsumerTargets(kind, l) ==
    CASE kind = "ack" -> {Receipt(l.name)}
      [] kind = "bury" -> {Dead(l.name)}
      [] kind = "renew" -> RenewTargets(l.name)
      [] kind = "retry" -> RetryTargets(l.job, l.name)

\* ack, retry_now, retry_at, bury and renew with a lease that is still there.
ConsumerBegin(h) ==
    \E l \in leases, kind \in ConsumerKinds :
      /\ Usable(h)
      /\ LeaseAccepted(l)
      /\ l.name.gen < MaxGeneration
      /\ kind = "renew" => l.name.gen < RenewBound
      /\ LeaseCurrent(l)
      /\ \E dst \in ConsumerTargets(kind, l) : Begin(h, kind, l.job, l.name, dst)
      /\ UNCHANGED <<namespace, clocks, tokens, poisoned, answers>>

\* The answer of a consumer call whose lease is gone.
AnswerGone(kind, l) ==
    IF kind = "ack" /\ AckedBefore(l)
    THEN dupAcked' = dupAcked \cup {[job |-> l.job, name |-> file[l.job]]} /\ UNCHANGED lost
    ELSE lost' = lost \cup {l} /\ UNCHANGED dupAcked

\* The same calls with a lease that is not there: AlreadyAcked or LeaseLost.
ConsumerGone(h) ==
    \E l \in leases, kind \in ConsumerKinds :
      /\ Usable(h)
      /\ LeaseAccepted(l)
      /\ l.name.gen < MaxGeneration
      /\ ~LeaseCurrent(l)
      /\ AnswerGone(kind, l)
      /\ UNCHANGED <<namespace, clocks, tokens, op, poisoned, leases, tickets,
                     committed, acked>>

\* Recovery runs under an exclusive lock, also on a poisoned handle.
RecoveryFree(h) ==
    op[h] = Idle /\ \A g \in Handles : op[g].kind \notin RecoveryKinds

\* Variants: a deadline compared one unit early; leases of other boots left alone.
ExpiredEarly(n) == n.boot # boot \/ n.dl <= now + 1
ExpiredThisBoot(n) == n.boot = boot /\ n.dl <= now

\* reap_colocated_lease: leases of other boots, and expired ones of this boot.
Expired(n) == n.boot # boot \/ n.dl <= now

ReapBegin(h) ==
    \E j \in Jobs :
      LET n == file[j] IN
      /\ RecoveryFree(h)
      /\ n.st = "leased"
      /\ Expired(n)
      /\ n.gen < MaxGeneration
      /\ Begin(h, "reap", j, n, IF n.att >= MaximumAttempts[j] THEN Dead(n) ELSE Ready(n))
      /\ UNCHANGED <<namespace, clocks, tokens, poisoned, answers>>

\* Variant: the bucket the wall floor is in waits for the next one.
PromoteBeginLate(h) ==
    \E j \in Jobs :
      LET n == file[j] IN
      /\ RecoveryFree(h)
      /\ n.st = "delayed" /\ n.bkt < wall /\ n.gen < MaxGeneration
      /\ Begin(h, "promote", j, n, Ready(n))
      /\ UNCHANGED <<namespace, clocks, tokens, poisoned, answers>>

\* promote_delayed: buckets the wall floor has reached.
PromoteBegin(h) ==
    \E j \in Jobs :
      LET n == file[j] IN
      /\ RecoveryFree(h)
      /\ n.st = "delayed"
      /\ n.bkt <= wall
      /\ n.gen < MaxGeneration
      /\ Begin(h, "promote", j, n, Ready(n))
      /\ UNCHANGED <<namespace, clocks, tokens, poisoned, answers>>

\* compact_receipts: a pass replaces a receipt of any age by its compact form,
\* which has the same name and another inode, and syncs the directory, unless it
\* dies or fails before that.
Compact(h) ==
    \E j \in Jobs :
      /\ RecoveryFree(h)
      /\ file[j].st = "receipt"
      /\ j \notin compact
      /\ compact' = compact \cup {j}
      /\ Fsync(Dir(file[j])) \/ UNCHANGED back
      /\ UNCHANGED <<file, clocks, tokens, op, poisoned, answers>>

\* remove_dead: unlinks a dead job of any age, also with a poisoned handle.
RemoveBegin(h) ==
    \E j \in Jobs :
      /\ op[h] = Idle
      /\ file[j].st = "dead"
      /\ Begin(h, "remove", j, file[j], Removed(file[j]))
      /\ UNCHANGED <<namespace, clocks, tokens, poisoned, answers>>

\* wall_floor_for_mutation failed other than by contention or exhaustion.
AuthorityLost(h) ==
    /\ Usable(h)
    /\ "io" \in Faults
    /\ poisoned' = [poisoned EXCEPT ![h] = "authority"]
    /\ UNCHANGED <<namespace, clocks, tokens, op, answers>>

----------------------------------------------------------------------------
(* move_noreplace and publish_tmpfile_noreplace, one step per system call.  *)

Moving(h, pc) == op[h].pc = pc

\* A call that fails after its linearization point: recovery only counts the
\* failure, remove_dead returns it, every other caller is poisoned and given a
\* ticket.
Unknown(h, cause) ==
    LET o == op[h] IN
    /\ Return(h)
    /\ IF o.kind \in RecoveryKinds \cup {"remove"}
       THEN UNCHANGED <<poisoned, tickets>>
       ELSE /\ poisoned' = [poisoned EXCEPT ![h] = cause]
            /\ tickets' = IF o.kind \in {"enqueue", "enqueueNamed"} THEN tickets
                          ELSE tickets \cup {o.tkt}
    /\ UNCHANGED <<leases, committed, acked, dupAcked, lost>>

AfterRename(kind) == IF Witnessed(kind) THEN "witness" ELSE "syncDst"

Rename(h) ==
    LET o == op[h] IN
    /\ Moving(h, "rename")
    /\ file[o.job] = o.src
    /\ Linearize(o.job, o.dst)
    /\ Goto(h, AfterRename(o.kind))
    /\ UNCHANGED <<clocks, tokens, poisoned, answers>>

\* Variant: a source that is gone leaves every caller in doubt.
RenameGoneUnknown(h) ==
    /\ Moving(h, "rename")
    /\ file[op[h].job] # op[h].src
    /\ Unknown(h, "raced")
    /\ UNCHANGED <<namespace, clocks, tokens>>

\* ENOENT: another actor moved the source first.  A claim or a recovery scan
\* goes on to the next entry; a quarantine leaves the claim indeterminate.
RenameGone(h) ==
    LET o == op[h] IN
    /\ Moving(h, "rename")
    /\ file[o.job] # o.src
    /\ \/ /\ o.kind \in ConsumerKinds
          /\ Return(h)
          /\ AnswerGone(o.kind, [job |-> o.job, name |-> o.src])
          /\ UNCHANGED <<poisoned, leases, tickets, committed, acked>>
       \/ /\ o.kind = "quarantine"
          /\ Unknown(h, "raced")
       \/ /\ o.kind \notin ConsumerKinds \cup {"quarantine"}
          /\ Return(h)
          /\ UNCHANGED <<poisoned, answers>>
    /\ UNCHANGED <<namespace, clocks, tokens>>

\* Any other error of link or rename, or of the steps before it.
RenameFails(h) ==
    \E e \in Faults :
      /\ Moving(h, "rename")
      /\ IF op[h].kind = "quarantine" THEN Unknown(h, e)
         ELSE Return(h) /\ UNCHANGED <<poisoned, answers>>
      /\ UNCHANGED <<namespace, clocks, tokens>>

\* What a successful call returns.
Done(h) ==
    LET o == op[h]
        info == [job |-> o.job, name |-> o.dst]
    IN
    /\ Return(h)
    /\ committed' = [committed EXCEPT ![o.job] = IF @ < o.dst.gen THEN o.dst.gen ELSE @]
    /\ leases' = IF o.kind \in {"claim", "renew"} THEN leases \cup {info} ELSE leases
    /\ acked' = IF o.kind = "ack" THEN acked \cup {info} ELSE acked
    /\ UNCHANGED <<poisoned, tickets, dupAcked, lost>>

\* The barrier is over: a claim still has to verify the payload it delivers.
BarrierDone(h) ==
    IF op[h].kind = "claim" THEN Goto(h, "verify") /\ UNCHANGED <<poisoned, answers>>
    ELSE Done(h)

\* Variant: the call returns as soon as the destination has been seen.
WitnessIsEnough(h) ==
    /\ Moving(h, "witness")
    /\ IF file[op[h].job] = op[h].dst THEN BarrierDone(h) ELSE Unknown(h, "raced")
    /\ UNCHANGED <<namespace, clocks, tokens>>

\* fstatat of the destination must find the inode that was moved: the name may
\* have been moved on, unlinked or given to a compact receipt since the rename.
Witness(h) ==
    LET o == op[h] IN
    /\ Moving(h, "witness")
    /\ IF file[o.job] = o.dst /\ o.job \notin compact
       THEN Goto(h, "syncDst") /\ UNCHANGED <<poisoned, answers>>
       ELSE Unknown(h, "raced")
    /\ UNCHANGED <<namespace, clocks, tokens>>

\* A witnessed move within one directory needs a single fsync, a linked tmpfile
\* has no source directory and an unlink no destination.
OneDirectory(o) == o.kind \in {"enqueue", "remove"} \/ (Witnessed(o.kind) /\ Dir(o.src) = Dir(o.dst))

\* Variant: the directory that the new name is in is not synced.
SyncDstSkipped(h) ==
    /\ Moving(h, "syncDst")
    /\ IF OneDirectory(op[h]) THEN BarrierDone(h)
       ELSE Goto(h, "syncSrc") /\ UNCHANGED <<poisoned, answers>>
    /\ UNCHANGED <<namespace, clocks, tokens>>

SyncDst(h) ==
    /\ Moving(h, "syncDst")
    /\ Fsync(Dir(op[h].dst))
    /\ IF OneDirectory(op[h]) THEN BarrierDone(h)
       ELSE Goto(h, "syncSrc") /\ UNCHANGED <<poisoned, answers>>
    /\ UNCHANGED <<file, compact, clocks, tokens>>

SyncSrc(h) ==
    /\ Moving(h, "syncSrc")
    /\ Fsync(Dir(op[h].src))
    /\ BarrierDone(h)
    /\ UNCHANGED <<file, compact, clocks, tokens>>

\* A failing fstatat or fsync after the linearization point.
BarrierFails(h) ==
    \E e \in Faults :
      /\ op[h].pc \in {"syncDst", "syncSrc"} \/ (op[h].pc = "witness" /\ e = "io")
      /\ Unknown(h, e)
      /\ UNCHANGED <<namespace, clocks, tokens>>

\* Variant: the payload is delivered unread.
VerifyNothing(h) ==
    /\ Moving(h, "verify")
    /\ Done(h)
    /\ UNCHANGED <<namespace, clocks, tokens>>

\* The claim is committed.  It is delivered once the payload hashes to its
\* digest; a corrupt one is moved to quarantine by the same call.
Verify(h) ==
    LET o == op[h] IN
    /\ Moving(h, "verify")
    /\ IF o.job \in CorruptJobs
       THEN /\ op' = [op EXCEPT ![h] =
                        Call("rename", "quarantine", o.job, o.dst, Quarantined(o.dst), o.tkt)]
            /\ UNCHANGED <<poisoned, answers>>
       ELSE Done(h)
    /\ UNCHANGED <<namespace, clocks, tokens>>

VerifyFails(h) ==
    /\ Moving(h, "verify")
    /\ "io" \in Faults
    /\ Unknown(h, "io")
    /\ UNCHANGED <<namespace, clocks, tokens>>

----------------------------------------------------------------------------
(* resolve: looks for the source, then for the destination of a ticket, and *)
(* on request makes the one it found durable and looks again.               *)

ResolveBegin(h) ==
    \E t \in tickets :
      /\ op[h] = Idle
      /\ op' = [op EXCEPT ![h] =
                  Call(IF file[t.job] = t.src THEN "srcSeen" ELSE "srcAbsent",
                       "resolve", t.job, t.src, t.dst, t)]
      /\ UNCHANGED <<namespace, clocks, tokens, poisoned, answers>>

\* Exactly one of the two was seen: stabilize it, if the caller asked to.
\* Neither, both, or a mere observation end the call.
ResolveProbe(h) ==
    LET o == op[h]
        seen == (IF o.pc = "srcSeen" THEN {o.src} ELSE {})
                  \cup (IF file[o.job] = o.dst THEN {o.dst} ELSE {})
    IN
    /\ o.pc \in {"srcSeen", "srcAbsent"}
    /\ \/ \E n \in seen :
            /\ seen = {n}
            /\ op' = [op EXCEPT ![h].pc = "stabilize", ![h].dst = n]
       \/ Return(h)
    /\ UNCHANGED <<namespace, clocks, tokens, poisoned, answers>>

\* Variant: what was observed is not synced.
StabilizeUnsynced(h) ==
    /\ Moving(h, "stabilize")
    /\ Goto(h, "recheck")
    /\ UNCHANGED <<namespace, clocks, tokens, poisoned, answers>>

Stabilize(h) ==
    /\ Moving(h, "stabilize")
    /\ Fsync(Dir(op[h].dst))
    /\ Goto(h, "recheck")
    /\ UNCHANGED <<file, compact, clocks, tokens, poisoned, answers>>

StabilizeFails(h) ==
    /\ Moving(h, "stabilize")
    /\ Faults # {}
    /\ Return(h)
    /\ UNCHANGED <<namespace, clocks, tokens, poisoned, answers>>

\* SourceStabilized or DestinationStabilized, or ConflictingObject.
Recheck(h) ==
    LET o == op[h] IN
    /\ Moving(h, "recheck")
    /\ Return(h)
    /\ committed' = IF file[o.job] = o.dst /\ committed[o.job] < o.dst.gen
                    THEN [committed EXCEPT ![o.job] = o.dst.gen] ELSE committed
    /\ UNCHANGED <<namespace, clocks, tokens, poisoned, leases, tickets, acked, dupAcked, lost>>

----------------------------------------------------------------------------
(* The environment.                                                         *)

\* The process dies at any point, or drops a poisoned handle; it opens the
\* queue again.  The kernel keeps what was renamed.
Reopen(h) ==
    /\ op[h] # Idle \/ poisoned[h] # "none"
    /\ Return(h)
    /\ poisoned' = [poisoned EXCEPT ![h] = "none"]
    /\ UNCHANGED <<namespace, clocks, tokens, answers>>

\* Power is lost: each job comes back under one of its restorable names.
PowerLoss ==
    /\ boot < MaxBoot
    /\ boot' = boot + 1
    /\ now' = 0
    /\ file' \in [Jobs -> UNION {back[j] : j \in Jobs}]
    /\ \A j \in Jobs : file'[j] \in back[j]
    /\ back' = [j \in Jobs |-> {file'[j]}]
    /\ compact' = {j \in compact : file'[j] = file[j]}
    /\ op' = [h \in Handles |-> Idle]
    /\ poisoned' = [h \in Handles |-> "none"]
    /\ UNCHANGED <<wall, tokens, answers>>

Tick ==
    /\ now < MaxTime
    /\ now' = now + 1
    /\ UNCHANGED <<namespace, boot, wall, tokens, op, poisoned, answers>>

WallTick ==
    /\ wall < MaxWall
    /\ wall' = wall + 1
    /\ UNCHANGED <<namespace, boot, now, tokens, op, poisoned, answers>>

----------------------------------------------------------------------------
Init ==
    /\ file = [j \in Jobs |-> Hidden]
    /\ back = [j \in Jobs |-> {Hidden}]
    /\ compact = {}
    /\ boot = 0 /\ now = 0 /\ wall = 0 /\ tokens = 0
    /\ op = [h \in Handles |-> Idle]
    /\ poisoned = [h \in Handles |-> "none"]
    /\ leases = {} /\ tickets = {} /\ acked = {} /\ dupAcked = {} /\ lost = {}
    /\ committed = [j \in Jobs |-> -1]

Move(h) ==
    \/ Rename(h) \/ RenameGone(h) \/ RenameFails(h) \/ Witness(h)
    \/ SyncDst(h) \/ SyncSrc(h) \/ BarrierFails(h) \/ Verify(h) \/ VerifyFails(h)

Resolve(h) ==
    \/ ResolveBegin(h) \/ ResolveProbe(h)
    \/ Stabilize(h) \/ StabilizeFails(h) \/ Recheck(h)

Next ==
    \/ \E h \in Handles :
         \/ EnqueueBegin(h) \/ ClaimBegin(h) \/ ConsumerBegin(h) \/ ConsumerGone(h)
         \/ ReapBegin(h) \/ PromoteBegin(h) \/ Compact(h) \/ RemoveBegin(h)
         \/ AuthorityLost(h) \/ Move(h) \/ Resolve(h) \/ Reopen(h)
    \/ PowerLoss \/ Tick \/ WallTick

Spec == Init /\ [][Next]_vars

----------------------------------------------------------------------------
Calls == [pc : Phases \ {"idle"}, kind : Kinds \ {"none"}, job : Jobs,
          src : Names, dst : Names, tkt : Tickets]

\* Every variable has its type.
TypeOK ==
    /\ file \in [Jobs -> Names]
    /\ back \in [Jobs -> SUBSET Names]
    /\ compact \subseteq Jobs
    /\ boot \in Nat /\ now \in Nat /\ wall \in Nat /\ tokens \in Nat
    /\ op \in [Handles -> Calls \cup {Idle}]
    /\ poisoned \in [Handles -> Causes]
    /\ leases \subseteq LeaseInfos /\ lost \subseteq LeaseInfos
    /\ acked \subseteq LeaseInfos /\ dupAcked \subseteq LeaseInfos
    /\ tickets \subseteq Tickets
    /\ committed \in [Jobs -> Int]

\* What a call reported committed, or resolve reported stabilized, is never
\* undone: whatever crashes follow, the job keeps a name of that generation or
\* a later one.  In particular a committed enqueue is never lost.  (The barrier
\* of move_noreplace before every Committed, Leased, Renewed and Acked.)
CommittedSurvives == \A j \in Jobs : committed[j] <= file[j].gen

\* Once ack has answered Acked, the job stays under that very receipt: no crash
\* and no reaper brings an acknowledged job back to ready or leased.
AckedIsFinal == \A r \in acked : file[r.job] = r.name

\* No two committed claims of a job share an attempt number, and the numbers stay
\* within maximum_attempts: `maximum_attempts bounds the number of committed
\* claim returns', power losses and late commits of expired claims included.
OneTokenPerAttempt ==
    \A l, m \in leases :
      /\ l.name.att \in 1..MaximumAttempts[l.job]
      /\ l.job = m.job /\ l.name.att = m.name.att => l.name.tok = m.name.tok

\* A lease reported LeaseLost authorizes nothing afterwards: no later call that
\* presents it finds its name, even when a power loss restores that name.
LostLeaseMovesNothing ==
    \A h \in Handles :
      op[h].pc = "rename" /\ op[h].kind \in ConsumerKinds
        => ~([job |-> op[h].job, name |-> op[h].src] \in lost /\ file[op[h].job] = op[h].src)

\* An unexpired lease of this boot is moved only by a call that presents its
\* exact name and token, or by the claim that quarantines what it just leased:
\* neither a reaper nor the holder of an older token touches it.
UnexpiredMovedByHolder ==
    [][\A j \in Jobs :
         /\ file[j].st = "leased" /\ file[j].boot = boot /\ now < file[j].dl
         /\ boot' = boot /\ file'[j] # file[j]
         => \E h \in Handles :
              /\ op[h].kind \in ConsumerKinds \cup {"quarantine"}
              /\ op[h].job = j /\ op[h].src = file[j] /\ op'[h] # op[h]]_vars

\* As long as no system call fails, OutcomeUnknown is answered, and the handle
\* poisoned, only for a move that did take place and that another actor built on
\* before move_noreplace looked: a job moved on, a dead one removed, a receipt
\* made compact.  The caller's source is gone for good, and an unknown ack has
\* acknowledged.
UnknownHasHappened ==
    [][\A h \in Handles :
         Faults = {} /\ poisoned[h] = "none" /\ poisoned'[h] # "none"
           => LET o == op[h] IN
              \/ file[o.job].gen > o.tkt.dst.gen /\ o.kind # "ack"
              \/ file[o.job] = o.tkt.dst /\ o.job \in compact]_vars

\* A job whose payload does not match its digest is never handed to a consumer,
\* whichever of claim, reaper and quarantine gets to it first.
CorruptNeverDelivered == \A l \in leases : l.job \notin CorruptJobs

----------------------------------------------------------------------------
(* The inductive invariant behind CommittedSurvives and AckedIsFinal.       *)

\* n is on disk for good, or one of the names a crash may restore.
Renamed(j, n) == n \in back[j] \/ \A m \in back[j] : n.gen <= m.gen
Synced(j, n) == \A m \in back[j] : n.gen <= m.gen

\* Where a call in progress stands with respect to what a crash may restore.
CallInv(o) ==
    /\ o.pc = "rename" =>
         o.dst.gen = o.src.gen + 1 /\ o.src.st \in {"hidden", "ready", "leased", "delayed", "dead"}
    /\ o.pc \in {"witness", "syncDst", "stabilize"} => Renamed(o.job, o.dst)
    /\ o.pc = "srcSeen" => Renamed(o.job, o.src)
    /\ o.pc \in {"syncSrc", "verify", "recheck"} => Synced(o.job, o.dst)
    /\ o.kind \in {"claim", "renew"} => o.dst.st = "leased"
    /\ o.pc = "verify" => o.kind = "claim"
    /\ o.pc \in {"srcSeen", "srcAbsent", "stabilize", "recheck"} => o.kind = "resolve"
    /\ o.kind = "ack" =>
         o.dst.st = "receipt" /\ (o.pc # "rename" => file[o.job] = o.dst)

\* The present name is the newest of those a crash may restore, and none of
\* them is older than what was reported.
RestoreInv(j) ==
    /\ file[j] \in back[j]
    /\ \A n \in back[j] :
         /\ committed[j] <= n.gen
         /\ n.gen <= file[j].gen
         /\ n.gen = file[j].gen => n = file[j]

\* At every step of every call, all the names a crash may restore are at least
\* as new as what was reported, a call that has passed its first fsync has
\* nothing older than its destination left to fall back to, and a reported
\* receipt is all that is left.
DurableInv ==
    /\ \A j \in Jobs : RestoreInv(j)
    /\ \A h \in Handles : op[h].pc # "idle" => CallInv(op[h])
    /\ \A l \in leases : l.name.st = "leased"
    /\ \A r \in acked : r.name.st = "receipt" /\ back[r.job] = {r.name}

----------------------------------------------------------------------------
(* Queue, the specification without files and calls, and what implements it. *)

\* Of a name Queue sees the state, the generation and the attempt.
View(n) == [st |-> n.st, gen |-> n.gen, att |-> n.att]

Abstract == INSTANCE Queue WITH
    state <- [j \in Jobs |-> View(file[j])],
    restorable <- [j \in Jobs |-> {View(n) : n \in back[j]}],
    promised <- committed

\* Every rename, fsync, answer and power loss is a step of Queue or changes
\* nothing Queue can see: whatever the handles interleave, a job only takes the
\* protocol's transitions, counts one attempt per claim, comes back from a crash
\* in a state it has been in, and never falls below what a caller was told.
ImplementsQueue == Abstract!Spec

\* A call about to rename has a transition of Queue in hand.
LegalInv ==
    \A h \in Handles :
      op[h].pc = "rename" => Abstract!Follows(op[h].job, View(op[h].src), View(op[h].dst))

----------------------------------------------------------------------------
(* Liveness.  Time passes; a system call in progress returns; recovery is   *)
(* run again and again, so that a rename of recovery that keeps being       *)
(* possible is made at last.  Nothing is assumed of producers and consumers. *)
InProgress(h) == Move(h) \/ ResolveProbe(h) \/ Stabilize(h) \/ StabilizeFails(h) \/ Recheck(h)
RecoveryRename(h) == op[h].kind \in RecoveryKinds /\ Rename(h)
Fairness ==
    /\ WF_vars(Tick) /\ WF_vars(WallTick)
    /\ \A h \in Handles :
         /\ WF_vars(InProgress(h))
         /\ SF_vars(ReapBegin(h)) /\ SF_vars(PromoteBegin(h))
         /\ SF_vars(RecoveryRename(h))

FairSpec == Spec /\ Fairness

\* A lease does not stay for ever: an unacknowledged one becomes ready or dead.
LeaseEnds == \A j \in Jobs : file[j].st = "leased" ~> file[j].st # "leased"

\* Nor does a delayed job: once its bucket has come it is promoted to ready, a
\* crash that undoes the promotion notwithstanding.
DelayEnds == \A j \in Jobs : file[j].st = "delayed" ~> file[j].st # "delayed"
=============================================================================
