---------------------------- MODULE RecoveryPass ----------------------------
(* One recovery pass after another (recovery.rs, recovery/walk.rs,            *)
(* recovery/phases/): five phases in a cycle, each a depth-first walk over a  *)
(* hierarchy of directories, cut short by an operation budget and by a        *)
(* directory-read budget and resumed by the next pass from the cursor the     *)
(* last one saved.                                                            *)
(*                                                                            *)
(* A path below a phase's root is a sequence of numbers ordered as names are. *)
(* Leases lie at <<boot, bucket, shard, n>>, delayed jobs and receipts at     *)
(* <<bucket, shard, n>>, temporary files at <<boot, shard, n>>.  A bucket's   *)
(* number is the time it starts at, in bucket widths; the boot- and the       *)
(* wall-time buckets advance together.  Entries and name bytes of the scan    *)
(* budget follow directory reads (recovery.rs:79 refuses a read it could not  *)
(* charge in full), so only reads are counted, and streamed entries of ready  *)
(* shards.                                                                    *)
EXTENDS Integers, Sequences, FiniteSets, SequencesExt, FiniteSetsExt

CONSTANTS
    Boot,           \* this boot; every other number is an earlier one
    Files0,         \* the files at the start, a set of paths for each root
    Dirs0,          \* directories that exist without a file
    Kind,           \* what a file is: see Treatment
    Fragile,        \* directories, as <<root, path>>, that may fail
    Broken0,        \* how they fail at the start
    Mendable,       \* the ones that may recover
    Contested,      \* files, as <<root, path>>, other processes may take
    Ready0,         \* ready shards, each a sequence of slots: see LeaseSlots
    MaxOps,         \* WorkBudget.max_operations
    MaxReads,       \* RecoveryScanBudget.max_directories_read
    MaxStreamed,    \* RecoveryScanBudget.max_entries_read, for ready shards
    LedgerSize,     \* MAX_RECOVERY_HIERARCHY_RETRIES
    Ttl, Retention, \* temporary_file_ttl_ns, receipt_retention_ns
    MaxClock,       \* bound on time
    MaxFaults       \* bound on failures, expired deadlines and crashes

VARIABLES
    files, dirs,    \* the hierarchies
    ready,          \* the ready shards
    compacted,      \* receipts that have been compacted
    broken,         \* how a fragile directory fails now: "no", "open", "read"
    clock, faults,
    saved,          \* control/recovery-cursor.json
    cursor,         \* Queue::recovery_cursor
    pass            \* the pass in progress

env == <<clock, broken>>
disk == <<files, dirs, ready, compacted>>
vars == <<files, dirs, ready, compacted, broken, clock, faults, saved, cursor, pass>>

RecoveryPhase == {"ReapLeases", "PromoteDelayed", "CleanupTemp", "CompactReceipts",
                  "DeleteReceipts"}
NextPhase == [ReapLeases |-> "PromoteDelayed", PromoteDelayed |-> "CleanupTemp",
              CleanupTemp |-> "CompactReceipts", CompactReceipts |-> "DeleteReceipts",
              DeleteReceipts |-> "ReapLeases"]
Root == [ReapLeases |-> "leased", PromoteDelayed |-> "delayed", CleanupTemp |-> "tmp",
         CompactReceipts |-> "receipts", DeleteReceipts |-> "receipts"]
Roots == {"leased", "delayed", "tmp", "receipts"}
Levels(p) == IF p = "ReapLeases" THEN 3 ELSE 2

None == -1
Shards == 1..Len(Ready0)

(***************************************************************************)
(* Paths.                                                                  *)
(***************************************************************************)
Less(a, b) ==
    \E i \in 1..Len(b) :
       /\ Len(a) >= i - 1 /\ SubSeq(a, 1, i - 1) = SubSeq(b, 1, i - 1)
       /\ Len(a) < i \/ a[i] < b[i]

Ancestors(e) == {SubSeq(e, 1, i) : i \in 1..(Len(e) - 1)}

Children(h, d) ==
    {e[Len(d) + 1] : e \in {x \in files[h] \cup dirs[h] : IsPrefix(d, x) /\ x # d}}

(* The cursor of a phase is the path of the last entry it classified, or   *)
(* <<>>.                                                                   *)
directory_before_cursor(c, d, n) ==
    c # <<>> /\ IsPrefix(d, c) /\ n < c[Len(d) + 1]

should_skip(c, e) == e = c \/ Less(e, c)

(***************************************************************************)
(* What each phase does with a directory and with a file.                  *)
(***************************************************************************)
\* Buckets a phase does not descend into yet: leases of this boot that are not
\* due, jobs for a later time, receipts still to be kept.
EarlyLeases(d) == Len(d) = 2 /\ d[1] = Boot /\ d[2] > pass.now
EarlyDelayed(d) == Len(d) = 1 /\ d[1] > pass.now
EarlyReceipts(d) == Len(d) = 1 /\ d[1] + 1 + Retention > pass.now

Early(p, d) ==
    \/ p = "ReapLeases" /\ EarlyLeases(d)
    \/ p = "PromoteDelayed" /\ EarlyDelayed(d)
    \/ p = "DeleteReceipts" /\ EarlyReceipts(d)

\* Directories a phase may remove: nobody adds to them any more.
ClosedLeases(d) == d[1] # Boot
ClosedDelayed(d) == d[1] < pass.now
ClosedTemp(d) == d[1] # Boot

Closed(p, d) ==
    \/ p = "ReapLeases" /\ ClosedLeases(d)
    \/ p = "PromoteDelayed" /\ ClosedDelayed(d)
    \/ p = "CleanupTemp" /\ ClosedTemp(d)
    \/ p = "DeleteReceipts"

\* An unexpired lease is left alone, an expired one goes to ready, or to dead if
\* it was the last attempt and the wall floor is known.  A "late" lease expires
\* after the start of its bucket.
ReapTreatment(e, kind) ==
    CASE kind = "foreign" -> "leave"
      [] kind = "malformed" -> "quarantine"
      [] e[1] = Boot /\ (e[2] > pass.now \/ (kind = "late" /\ e[2] = pass.now)) -> "leave"
      [] kind = "corrupt" -> "quarantine"
      [] kind = "last" /\ ~pass.wall -> "leave"
      [] OTHER -> "remove"

PromoteTreatment(e, kind) ==
    CASE kind = "foreign" -> "leave"
      [] kind \in {"malformed", "corrupt"} -> "quarantine"
      [] OTHER -> "remove"

\* Temporary files of this boot are made at time 0.
CleanupTreatment(e, kind) ==
    CASE kind = "foreign" -> "leave"
      [] e[1] = Boot /\ (kind = "malformed" \/ pass.now <= Ttl) -> "leave"
      [] OTHER -> "remove"

CompactTreatment(e, kind) ==
    CASE kind = "stale" -> "remove"
      [] kind = "foreign" \/ e \in compacted -> "leave"
      [] kind \in {"malformed", "corrupt"} -> "quarantine"
      [] OTHER -> "rewrite"

DeleteTreatment(e, kind) ==
    CASE kind \in {"foreign", "stale"} -> "leave"
      [] kind \in {"malformed", "corrupt"} -> "quarantine"
      [] OTHER -> "remove"

Treatment(p, e) ==
    LET kind == Kind[Root[p]][e]
    IN  CASE p = "ReapLeases" -> ReapTreatment(e, kind)
          [] p = "PromoteDelayed" -> PromoteTreatment(e, kind)
          [] p = "CleanupTemp" -> CleanupTreatment(e, kind)
          [] p = "CompactReceipts" -> CompactTreatment(e, kind)
          [] p = "DeleteReceipts" -> DeleteTreatment(e, kind)

(***************************************************************************)
(* The cursor and its ledger of directories that failed.  A retry is the   *)
(* directory's path behind the failed step, 0 for open and 1 for enumerate, *)
(* which is how RecoveryHierarchyRetry is ordered.  `seen` is a history     *)
(* field: the files judged since the phase last started over.              *)
(***************************************************************************)
NewCursor ==
    [phase |-> "ReapLeases", after |-> [p \in RecoveryPhase |-> <<>>],
     seen |-> [p \in RecoveryPhase |-> {}],
     retries |-> [p \in RecoveryPhase |-> {}],
     frontier |-> [p \in RecoveryPhase |-> <<>>],
     overflow |-> {}, shard |-> None, position |-> 0]

\* As if a phase that is done kept its cursor.
keep_phase_cursor(c, p) == c

clear_phase_cursor(c, p) == [c EXCEPT !.after[p] = <<>>, !.seen[p] = {}]

RetryCount(c) == Cardinality(UNION {{p} \X c.retries[p] : p \in RecoveryPhase})

\* As if a full ledger dropped the directory.
remember_if_room(c, p, kind, d) ==
    IF RetryCount(c) < LedgerSize
    THEN [c EXCEPT !.retries[p] = @ \cup {<<kind>> \o d}]
    ELSE c

remember_hierarchy_retry(c, p, kind, d) ==
    IF <<kind>> \o d \in c.retries[p] THEN c
    ELSE IF RetryCount(c) < LedgerSize
         THEN [c EXCEPT !.retries[p] = @ \cup {<<kind>> \o d}]
         ELSE [c EXCEPT !.overflow = @ \cup {p}]

prepare_hierarchy_retry_phase(c, p) ==
    IF p \in c.overflow
    THEN [clear_phase_cursor(c, p) EXCEPT !.overflow = @ \ {p}]
    ELSE c

First(rs) == CHOOSE r \in rs : \A x \in rs : x = r \/ Less(r, x)

\* As if there were no frontier.
first_hierarchy_retry(c, p) == First(c.retries[p])

next_hierarchy_retry(c, p) ==
    LET later == {r \in c.retries[p] : Less(c.frontier[p], r)}
    IN  IF later # {} THEN First(later) ELSE First(c.retries[p])

\* The directory of retry r answered, or is gone.
Resolved(c, p, r) ==
    [clear_phase_cursor(c, p) EXCEPT
        !.retries[p] = @ \ {r},
        !.frontier[p] = IF c.retries[p] = {r} THEN <<>> ELSE r]

(***************************************************************************)
(* The pass.                                                               *)
(***************************************************************************)
Idle == [pc |-> "idle", now |-> 0, wall |-> TRUE, ops |-> 0, reads |-> 0,
         streamed |-> 0, late |-> FALSE, stop |-> FALSE, frames |-> <<>>]

Fails(h, d) == IF <<h, d>> \in Fragile THEN broken[<<h, d>>] ELSE "no"

work_budget_exhausted == pass.ops >= MaxOps \/ pass.late

\* read_recovery_directory of directory d under root h.
ReadOutcome(h, d) ==
    CASE pass.reads >= MaxReads -> "refused"
      [] pass.late -> "cut"
      [] Fails(h, d) = "read" -> "failed"
      [] OTHER -> "listed"

Reads(outcome) == IF outcome = "refused" THEN pass.reads ELSE pass.reads + 1

Goto(pc) == pass' = [pass EXCEPT !.pc = pc]
Stop == pass' = [pass EXCEPT !.pc = "end", !.stop = TRUE]
Fault == faults < MaxFaults /\ faults' = faults + 1
SameDisk == UNCHANGED <<disk, env, saved>>

\* recover_with_scan_budget, up to the loop: the lock is free, the cursor is
\* read back from disk, and the wall floor may be unavailable.
BeginPass ==
    /\ pass.pc = "idle"
    /\ \E wall \in BOOLEAN :
         /\ pass' = [Idle EXCEPT !.pc = "phase", !.now = clock, !.wall = wall]
         /\ IF wall THEN UNCHANGED faults ELSE Fault
    /\ cursor' = saved
    /\ SameDisk

\* One turn of the loop: a phase opens its root, and drops its cursor if its
\* part of the ledger overflowed.
StartPhase(p) ==
    /\ pass.pc = "phase" /\ cursor.phase = p
    /\ IF \/ p \in {"PromoteDelayed", "DeleteReceipts"} /\ ~pass.wall
          \/ Fails(Root[p], <<>>) = "open"
       THEN Goto("end") /\ UNCHANGED cursor
       ELSE Goto("retry") /\ cursor' = prepare_hierarchy_retry_phase(cursor, p)
    /\ UNCHANGED faults /\ SameDisk

retry_one_hierarchy_directory(p) ==
    /\ pass.pc = "retry" /\ cursor.phase = p
    /\ LET h == Root[p]
           r == next_hierarchy_retry(cursor, p)
           d == Tail(r)
           unopened == \E a \in Ancestors(d) \cup {d} : Fails(h, a) = "open"
           read == IF r[1] = 1 /\ d \in dirs[h] THEN ReadOutcome(h, d) ELSE "unneeded"
           reads == IF read = "unneeded" THEN pass.reads ELSE Reads(read)
       IN \/ /\ cursor.retries[p] = {}
             /\ cursor' = [cursor EXCEPT !.frontier[p] = <<>>] /\ Goto("root")
          \/ /\ cursor.retries[p] # {}
             /\ pass.late \/ (~unopened /\ read = "refused")
             /\ Stop /\ UNCHANGED cursor
          \/ /\ cursor.retries[p] # {} /\ ~pass.late /\ unopened
             /\ cursor' = [cursor EXCEPT !.frontier[p] = r] /\ Goto("root")
          \/ /\ cursor.retries[p] # {} /\ ~pass.late /\ ~unopened /\ read # "refused"
             /\ cursor' = IF read = "failed" THEN [cursor EXCEPT !.frontier[p] = r]
                          ELSE Resolved(cursor, p, r)
             /\ pass' = [pass EXCEPT !.pc = "root", !.reads = reads]
    /\ UNCHANGED faults /\ SameDisk

Frame(h, d) == [dir |-> d, left |-> Children(h, d), absent |-> TRUE]

ReadRoot(p) ==
    /\ pass.pc = "root" /\ cursor.phase = p
    /\ LET read == ReadOutcome(Root[p], <<>>)
       IN IF p = "ReapLeases" /\ cursor.shard # None
          THEN Goto("shard")
          ELSE pass' = [pass EXCEPT
                  !.reads = Reads(read),
                  !.stop = read \in {"refused", "cut"},
                  !.pc = IF read = "listed" THEN "walk" ELSE "end",
                  !.frames = IF read = "listed" THEN <<Frame(Root[p], <<>>)>> ELSE <<>>]
    /\ UNCHANGED <<cursor, faults>> /\ SameDisk

Top == Last(pass.frames)
Name == Min(Top.left)
Child == Append(Top.dir, Name)

\* The child just looked at is dealt with; unless it is gone, its parent stays.
Done(frames, gone) ==
    Front(frames) \o
    <<[Last(frames) EXCEPT !.left = @ \ {Min(@)}, !.absent = @ /\ gone]>>

Kept == [pass EXCEPT !.frames = Done(@, FALSE)]

descend_level(p) ==
    LET h == Root[p]
        read == ReadOutcome(h, Child)
    IN \/ /\ Fails(h, Child) = "open"
          /\ cursor' = remember_hierarchy_retry(cursor, p, 0, Child)
          /\ pass' = Kept
       \/ /\ Fails(h, Child) # "open" /\ read = "failed"
          /\ cursor' = remember_hierarchy_retry(cursor, p, 1, Child)
          /\ pass' = [Kept EXCEPT !.reads = @ + 1]
       \/ /\ Fails(h, Child) # "open" /\ read \in {"refused", "cut"}
          /\ pass' = [pass EXCEPT !.reads = Reads(read), !.stop = TRUE, !.pc = "end"]
          /\ UNCHANGED cursor
       \/ /\ Fails(h, Child) # "open" /\ read = "listed"
          /\ pass' = [pass EXCEPT !.reads = @ + 1, !.frames = Append(@, Frame(h, Child))]
          /\ UNCHANGED cursor

\* One directory of a listing: behind the cursor, not due yet, or descended into.
\* The work budget is looked at above the lowest directories only.
VisitDirectory(p) ==
    /\ pass.pc = "walk" /\ cursor.phase = p
    /\ Top.left # {} /\ Len(Top.dir) < Levels(p)
    /\ LET behind == directory_before_cursor(cursor.after[p], Top.dir, Name)
           spent == Len(Child) < Levels(p) /\ work_budget_exhausted
       IN \/ behind /\ pass' = Kept /\ UNCHANGED cursor
          \/ ~behind /\ spent /\ Stop /\ UNCHANGED cursor
          \/ /\ ~behind /\ ~spent /\ Early(p, Child)
             /\ pass' = Kept
             /\ cursor' = [cursor EXCEPT !.seen[p] = @ \cup
                              {e \in files[Root[p]] : IsPrefix(Child, e)}]
          \/ ~behind /\ ~spent /\ ~Early(p, Child) /\ descend_level(p)
    /\ UNCHANGED faults /\ SameDisk

\* The file is moved, unlinked or found gone; or the operation fails.
Removal(p, e) ==
    /\ \/ /\ UNCHANGED faults
          /\ files' = [files EXCEPT ![Root[p]] = @ \ {e}]
          /\ pass' = [pass EXCEPT !.ops = @ + 1, !.frames = Done(@, TRUE)]
       \/ /\ Fault /\ UNCHANGED files
          /\ pass' = [Kept EXCEPT !.ops = @ + 1]
       \/ /\ e \notin files[Root[p]] /\ p # "CleanupTemp"
          /\ UNCHANGED <<files, faults>>
          /\ pass' = Kept
    /\ UNCHANGED compacted

Compaction(e) ==
    /\ \/ UNCHANGED faults /\ compacted' = compacted \cup {e}
       \/ Fault /\ UNCHANGED compacted
    /\ pass' = [Kept EXCEPT !.ops = @ + 1]
    /\ UNCHANGED files

\* A quarantined file does not count as gone for the pruning of its directory.
quarantine_recovery_object(p, e) ==
    /\ \/ UNCHANGED faults /\ files' = [files EXCEPT ![Root[p]] = @ \ {e}]
       \/ Fault /\ UNCHANGED files
    /\ pass' = [Kept EXCEPT !.ops = @ + 1]
    /\ UNCHANGED compacted

\* Every file is under the cursor before it is dealt with, and back ahead of it
\* if name collisions in quarantine use up the operation budget.
VisitEntry(p) ==
    /\ pass.pc = "walk" /\ cursor.phase = p
    /\ Top.left # {} /\ Len(Top.dir) = Levels(p)
    /\ LET e == Child
           t == Treatment(p, e)
           skip == should_skip(cursor.after[p], e)
       IN \/ skip /\ pass' = Kept /\ UNCHANGED <<cursor, files, compacted, faults>>
          \/ /\ ~skip /\ work_budget_exhausted
             /\ Stop /\ UNCHANGED <<cursor, files, compacted, faults>>
          \/ /\ ~skip /\ ~work_budget_exhausted /\ t = "quarantine" /\ Fault
             /\ pass' = [pass EXCEPT !.ops = MaxOps, !.stop = TRUE, !.pc = "end"]
             /\ UNCHANGED <<cursor, files, compacted>>
          \/ /\ ~skip /\ ~work_budget_exhausted
             /\ cursor' = [cursor EXCEPT !.after[p] = e, !.seen[p] = @ \cup {e}]
             /\ \/ t = "leave" /\ pass' = Kept /\ UNCHANGED <<files, compacted, faults>>
                \/ t = "remove" /\ Removal(p, e)
                \/ t = "rewrite" /\ Compaction(e)
                \/ t = "quarantine" /\ quarantine_recovery_object(p, e)
    /\ UNCHANGED <<dirs, ready, env, saved>>

\* A listing is finished.  A closed directory whose children all went is removed,
\* if the budget allows; the finished root ends the walk.
Leave(p) ==
    /\ pass.pc = "walk" /\ cursor.phase = p /\ Top.left = {}
    /\ LET d == Top.dir
           above == Front(pass.frames)
           prune == Closed(p, d) /\ Top.absent
           kept == [pass EXCEPT !.frames = Done(above, FALSE)]
       IN \/ /\ d = <<>>
             /\ cursor' = clear_phase_cursor(cursor, p)
             /\ pass' = [pass EXCEPT !.frames = <<>>,
                            !.pc = IF p = "ReapLeases" THEN "shard" ELSE "end"]
             /\ UNCHANGED <<dirs, faults>>
          \/ /\ d # <<>> /\ ~prune
             /\ pass' = kept /\ UNCHANGED <<cursor, dirs, faults>>
          \/ /\ d # <<>> /\ prune /\ work_budget_exhausted
             /\ Stop /\ UNCHANGED <<cursor, dirs, faults>>
          \/ /\ d # <<>> /\ prune /\ ~work_budget_exhausted
             /\ \/ /\ dirs' = [dirs EXCEPT ![Root[p]] = @ \ {d}]
                   /\ pass' = [pass EXCEPT !.ops = @ + 1, !.frames = Done(above, TRUE)]
                   /\ UNCHANGED faults
                \/ /\ Fault /\ UNCHANGED dirs
                   /\ pass' = [kept EXCEPT !.ops = @ + 1]
             /\ UNCHANGED cursor
    /\ UNCHANGED <<files, ready, compacted, env, saved>>

\* The scan goes on with the shard behind the one of cursor c, or is done.
NextShard(c) ==
    /\ cursor' = [c EXCEPT !.position = 0, !.shard = IF @ = Len(Ready0) THEN None ELSE @ + 1]
    /\ Goto(IF c.shard = Len(Ready0) THEN "end" ELSE "shard")

\* The leases in the ready shards: the scan of a shard resumes at the saved
\* position, and of the shards at the saved shard.  A shard that cannot be
\* opened or read is left for the next cycle; the ledger has no room for it.
OpenReadyShard ==
    /\ pass.pc = "shard"
    /\ LET here == [cursor EXCEPT !.shard = IF @ = None THEN 1 ELSE @]
       IN \/ /\ work_budget_exhausted \/ pass.reads >= MaxReads
             /\ Stop /\ cursor' = here /\ UNCHANGED faults
          \/ /\ ~work_budget_exhausted /\ pass.reads < MaxReads
             /\ pass' = [pass EXCEPT !.pc = "stream", !.reads = @ + 1]
             /\ cursor' = here /\ UNCHANGED faults
          \/ ~work_budget_exhausted /\ Fault /\ NextShard(here)
    /\ SameDisk

\* The lease in slot i, whose deadline lies in bucket 0 of this boot.
reap_colocated_lease(s, i) ==
    LET kind == ready[s][i]
        t == ReapTreatment(<<Boot, 0>>, kind)
        past == [cursor EXCEPT !.position = i]
        charged == [pass EXCEPT !.streamed = @ + 1]
        stopped == [charged EXCEPT !.pc = "end", !.stop = TRUE]
        gone == IF t = "quarantine" \/ kind = "last" THEN "none" ELSE "foreign"
        spent == \/ t = "quarantine" /\ pass.ops >= MaxOps
                 \/ (t = "remove" \/ kind = "last") /\ work_budget_exhausted
    IN \/ /\ t = "leave" /\ ~spent
          /\ pass' = charged /\ cursor' = past /\ UNCHANGED <<ready, faults>>
       \/ /\ spent
          /\ pass' = stopped /\ UNCHANGED <<cursor, ready, faults>>
       \/ /\ t = "quarantine" /\ ~spent /\ Fault
          /\ pass' = [stopped EXCEPT !.ops = MaxOps] /\ UNCHANGED <<cursor, ready>>
       \/ /\ t # "leave" /\ ~spent
          /\ pass' = [charged EXCEPT !.ops = @ + 1] /\ cursor' = past
          /\ \/ UNCHANGED faults /\ ready' = [ready EXCEPT ![s][i] = gone]
             \/ Fault /\ UNCHANGED ready

StreamReadyShard ==
    /\ pass.pc = "stream"
    /\ LET s == cursor.shard
           rest == {i \in DOMAIN ready[s] : i > cursor.position /\ ready[s][i] # "none"}
           spent == pass.streamed >= MaxStreamed \/ pass.late
       IN \/ spent /\ Stop /\ UNCHANGED <<cursor, ready, faults>>
          \/ ~spent /\ rest = {} /\ NextShard(cursor) /\ UNCHANGED <<ready, faults>>
          \/ ~spent /\ Fault /\ NextShard(cursor) /\ UNCHANGED ready
          \/ ~spent /\ rest # {} /\ reap_colocated_lease(s, Min(rest))
    /\ UNCHANGED <<files, dirs, compacted, env, saved>>

\* The phase moves on unless it ran out of budget; the pass ends with the last
\* phase or with the budget.
EndPhase(p) ==
    /\ pass.pc = "end" /\ cursor.phase = p
    /\ LET stop == pass.stop \/ work_budget_exhausted
       IN pass' = [pass EXCEPT !.stop = stop, !.frames = <<>>,
                      !.pc = IF stop \/ p = "DeleteReceipts" THEN "persist" ELSE "phase"]
    /\ cursor' = [cursor EXCEPT !.phase = IF pass.stop THEN p ELSE NextPhase[p]]
    /\ UNCHANGED faults /\ SameDisk

\* The cursor file is replaced by a complete new one, or stays as it was.
persist_recovery_cursor ==
    /\ pass.pc = "persist"
    /\ \/ saved' = cursor /\ cursor' = cursor /\ UNCHANGED faults
       \/ Fault /\ cursor' = saved /\ UNCHANGED saved
    /\ pass' = Idle /\ UNCHANGED <<disk, env>>

Crash ==
    /\ pass.pc # "idle" /\ Fault
    /\ cursor' = saved /\ pass' = Idle
    /\ SameDisk

DeadlinePasses ==
    /\ pass.pc # "idle" /\ ~pass.late /\ Fault
    /\ pass' = [pass EXCEPT !.late = TRUE]
    /\ UNCHANGED cursor /\ SameDisk

(***************************************************************************)
(* Time, the file system and the other processes.                          *)
(***************************************************************************)
Tick ==
    /\ clock < MaxClock /\ clock' = clock + 1
    /\ UNCHANGED <<disk, broken, faults, saved, cursor, pass>>

Break(f) ==
    /\ broken[f] = "no" /\ f[2] \in dirs[f[1]] \cup {<<>>} /\ Fault
    /\ \E how \in {"open", "read"} : broken' = [broken EXCEPT ![f] = how]
    /\ UNCHANGED <<disk, clock, saved, cursor, pass>>

Repair(f) ==
    /\ broken[f] # "no" /\ broken' = [broken EXCEPT ![f] = "no"]
    /\ UNCHANGED <<disk, clock, faults, saved, cursor, pass>>

Take(f) ==
    /\ f[2] \in files[f[1]]
    /\ files' = [files EXCEPT ![f[1]] = @ \ {f[2]}]
    /\ UNCHANGED <<dirs, ready, compacted, env, faults, saved, cursor, pass>>

Init ==
    /\ files = Files0
    /\ dirs = [h \in Roots |-> Dirs0[h] \cup UNION {Ancestors(e) : e \in Files0[h] \cup Dirs0[h]}]
    /\ ready = Ready0 /\ compacted = {}
    /\ broken = Broken0 /\ clock = 0 /\ faults = 0
    /\ saved = NewCursor /\ cursor = NewCursor /\ pass = Idle

Walk(p) ==
    \/ StartPhase(p) \/ retry_one_hierarchy_directory(p) \/ ReadRoot(p)
    \/ VisitDirectory(p) \/ VisitEntry(p) \/ Leave(p)

reap_expired_leases == Walk("ReapLeases")
reap_colocated_ready_leases == OpenReadyShard \/ StreamReadyShard
promote_delayed == Walk("PromoteDelayed")
cleanup_temp_files == Walk("CleanupTemp")
compact_receipts == Walk("CompactReceipts")
delete_expired_receipts == Walk("DeleteReceipts")

PassStep ==
    \/ BeginPass \/ persist_recovery_cursor \/ \E p \in RecoveryPhase : EndPhase(p)
    \/ reap_expired_leases \/ reap_colocated_ready_leases \/ promote_delayed
    \/ cleanup_temp_files \/ compact_receipts \/ delete_expired_receipts

Next ==
    \/ PassStep \/ Crash \/ DeadlinePasses \/ Tick
    \/ \E f \in Fragile : Break(f)
    \/ \E f \in Mendable : Repair(f)
    \/ \E f \in Contested : Take(f)

\* Passes are run again and again, and a pass always goes on.
Spec == Init /\ [][Next]_vars /\ WF_vars(PassStep)

(***************************************************************************)
(* Properties.                                                             *)
(***************************************************************************)
\* Every variable has its type, and the ledger holds at most its size and only
\* directories of the depth its phase walks.
TypeOK ==
    /\ \A h \in Roots : dirs[h] \subseteq Seq(Nat) /\ files[h] \subseteq DOMAIN Kind[h]
    /\ \A s \in Shards : Len(ready[s]) = Len(Ready0[s])
    /\ broken \in [Fragile -> {"no", "open", "read"}]
    /\ clock \in 0..MaxClock /\ faults \in 0..MaxFaults
    /\ \A c \in {saved, cursor} :
         /\ c.phase \in RecoveryPhase /\ c.overflow \subseteq RecoveryPhase
         /\ c.shard \in Shards \cup {None} /\ (c.shard = None => c.position = 0)
         /\ RetryCount(c) <= LedgerSize
         /\ \A p \in RecoveryPhase :
              /\ Len(c.after[p]) \in {0, Levels(p) + 1}
              /\ \A r \in c.retries[p] : Len(r) - 1 \in 1..Levels(p)
    /\ pass.pc \in {"idle", "phase", "retry", "root", "walk", "shard", "stream", "end",
                    "persist"}

\* A pass attempts no more operations, reads no more directories and streams no
\* more entries than its budgets allow (WorkBudget, RecoveryScanBudget).
WithinBudget ==
    pass.ops <= MaxOps /\ pass.reads <= MaxReads /\ pass.streamed <= MaxStreamed

\* Whatever passes were cut short, crashed or lost their cursor, a file that was
\* there from the start and lies behind a phase's cursor has been looked at since
\* the phase last started over, or lies in a directory the ledger will retry, or
\* its phase is marked for a full rescan (recovery.rs:1158, walk.rs:39).
NothingSkipped ==
    \A p \in RecoveryPhase : \A e \in files[Root[p]] \cap Files0[Root[p]] :
       e = cursor.after[p] \/ Less(e, cursor.after[p]) =>
          \/ e \in cursor.seen[p] \/ p \in cursor.overflow
          \/ \E r \in cursor.retries[p] : IsPrefix(Tail(r), e)

\* A pass stays within its budgets and its ledger within its size, and neither
\* limit makes it lose sight of a file: TypeOK, WithinBudget and NothingSkipped.
PassSound == TypeOK /\ WithinBudget /\ NothingSkipped

Healthy(h, e) == \A a \in Ancestors(e) \cup {<<>>} : Fails(h, a) = "no"

\* As the pass in progress judges it.
CaughtUp ==
    /\ \A p \in RecoveryPhase : \A e \in files[Root[p]] :
         Healthy(Root[p], e) /\ (\A a \in Ancestors(e) : ~Early(p, a)) =>
            Treatment(p, e) = "leave"
    /\ \A s \in Shards : \A i \in DOMAIN ready[s] :
         ready[s][i] # "none" => ReapTreatment(<<Boot, 0>>, ready[s][i]) = "leave"

\* What a pass that starts with phase p reads below the root before it comes to
\* an entry it has not classified yet: the directories that do not lie behind the
\* cursor, up to the one that holds the first such entry, or all of them.  Only
\* entries move the cursor, so the next pass reads the same row again.
Row(p) ==
    LET h == Root[p]
        c == saved.after[p]
        ahead == {e \in files[h] : Healthy(h, e) /\ ~should_skip(c, e)}
    IN {d \in dirs[h] :
          /\ \A i \in DOMAIN d : ~directory_before_cursor(c, SubSeq(d, 1, i - 1), d[i])
          /\ \A e \in ahead : IsPrefix(d, e) \/ Less(d, e)}

\* The budget covers the root, one directory of the ledger, and the row.
RowsFit == \A p \in RecoveryPhase : Cardinality(Row(p)) + 2 <= MaxReads

\* Passes that keep being run, however small their operation budget, come to act on
\* every expired lease, due delayed job, stale temporary file and receipt in a
\* directory that can be read, provided that no row of directories without a new
\* entry, empty, failing or already dealt with, outgrows the read budget
\* (recover_with_scan_budget, RecoveryScanBudget).
RecoveryCatchesUp == <>[]RowsFit => <>[]CaughtUp

\* What RecoveryScanBudget::validate promises of every budget it lets through, that
\* it "can make bounded recovery progress": the same without the proviso.
ValidBudgetProgresses == <>[]CaughtUp

\* A directory that answers again leaves the ledger even if others never do: the
\* retry frontier passes over those (next_hierarchy_retry, recovery.rs:1255).
RetriesClear ==
    \A f \in Fragile : \A p \in {q \in RecoveryPhase : Root[q] = f[1]} :
       <>[]Healthy(f[1], Append(f[2], 0)) =>
          <>[](\A r \in saved.retries[p] : Tail(r) # f[2])
====
