----------------------------- MODULE Watermark -----------------------------
(***************************************************************************)
(* The wall watermark: a shared record control/wall-watermark that holds   *)
(* the highest wall bucket any handle has acted on, so that wall time      *)
(* never runs backwards for the queue although CLOCK_REALTIME may.         *)
(*                                                                         *)
(* A handle takes a wall floor before every wall-sensitive operation.  The *)
(* fast path authenticates the record without a lock and compares it with  *)
(* the handle's cache; the slow path takes an OFD lock that is never       *)
(* waited for, reads again, and replaces the record when the clock is in a *)
(* later bucket: temporary file, rename, fsync of the directory.           *)
(***************************************************************************)
EXTENDS Integers

CONSTANTS
    Handles,       \* open Queue handles
    None,          \* no handle, no floor
    Width,         \* delayed_bucket_width_ns
    ReadAttempts,  \* WATERMARK_READ_ATTEMPTS
    MaxSequence,   \* u64::MAX of the record's sequence number
    MaxClock,      \* bound: CLOCK_REALTIME, which may be set back at any time
    MaxBoot,       \* bound: number of power losses
    Faults         \* errno classes the storage may return

ASSUME WatermarkConstants ==
    /\ None \notin Handles
    /\ Width \in Nat \ {0} /\ ReadAttempts \in Nat \ {0}
    /\ {MaxSequence, MaxClock, MaxBoot} \subseteq Nat
    /\ Faults \subseteq {"io", "nospc"}

VARIABLES
    mark,        \* the record that the pathname leads to
    restorable,  \* the records a power loss may leave behind
    boots,       \* number of power losses so far
    lock,        \* holder of wall-watermark.lock
    op,          \* [Handles -> Calls]: the call in progress
    cached,      \* [Handles -> Floors \cup {None}]: cached_wall_floor
    poisoned,    \* [Handles -> BOOLEAN]: WatermarkAuthorityLost
    answer,      \* the floor each handle works with, and `high' when it asked for it
    high,        \* highest bucket of a floor given in this boot, or synced before
    synced       \* highest bucket whose record was synced by the call that wrote it

vars == <<mark, restorable, boots, lock, op, cached, poisoned, answer, high, synced>>
disk == <<mark, restorable, boots>>
history == <<high, synced>>

Sequences == 0..MaxSequence
Marks == [bucket : Nat, seq : Sequences]
Floors == [ns : Nat, bucket : Nat, seq : Sequences]
Phases == {"idle", "open", "confirm", "clock", "lock", "prepare", "replace", "sync"}
Modes == {"mutation", "recovery"}

\* mode: wall_floor_for_mutation, or recovery's direct use of the slow path.
Calls == [pc : Phases, mode : Modes, locked : BOOLEAN, left : Nat, since : Nat,
          sample : Marks, floor : Floors, next : Marks]

Bucket(ns) == ns \div Width
AtLeast(a, b) == IF a >= b THEN a ELSE b

Zero == [bucket |-> 0, seq |-> 0]
Idle == [pc |-> "idle", mode |-> "mutation", locked |-> FALSE, left |-> 0, since |-> 0,
         sample |-> Zero, floor |-> [ns |-> 0, bucket |-> 0, seq |-> 0], next |-> Zero]

\* effective_wall_floor: the clock, but not before the stored bucket.
EffectiveFloor(m, clock) ==
    [ns |-> AtLeast(clock, m.bucket * Width), bucket |-> m.bucket, seq |-> m.seq]

Release(h) == lock' = IF lock = h THEN None ELSE lock
Goto(h, pc) == op' = [op EXCEPT ![h].pc = pc]

\* The floor is given to the caller and, in a mutation, cached.
Give(h, f) ==
    /\ op' = [op EXCEPT ![h] = Idle]
    /\ Release(h)
    /\ cached' = IF op[h].mode = "mutation" THEN [cached EXCEPT ![h] = f] ELSE cached
    /\ answer' = [answer EXCEPT ![h] = [floor |-> f, since |-> op[h].since]]
    /\ high' = AtLeast(high, f.bucket)
    /\ UNCHANGED poisoned

\* MaintenanceBusy and ResourceExhausted are returned as they are; every other
\* error poisons the handle, but not in recovery.
Fail(h, transient) ==
    /\ op' = [op EXCEPT ![h] = Idle]
    /\ Release(h)
    /\ poisoned' = [poisoned EXCEPT ![h] = @ \/ (~transient /\ op[h].mode = "mutation")]
    /\ UNCHANGED <<cached, answer, history>>

----------------------------------------------------------------------------
\* A call begins: the fast path needs a cached floor.
Begin(h) ==
    \E mode \in Modes :
      /\ op[h].pc = "idle"
      /\ mode = "mutation" => ~poisoned[h]
      /\ op' = [op EXCEPT ![h] =
                  [Idle EXCEPT !.pc = IF mode = "mutation" /\ cached[h] # None THEN "open" ELSE "lock",
                               !.mode = mode, !.left = ReadAttempts, !.since = high]]
      /\ answer' = [answer EXCEPT ![h] = None]
      /\ UNCHANGED <<disk, lock, cached, poisoned, history>>

\* Variant: the lock is not respected.
LockIgnored(h) ==
    /\ op[h].pc = "lock"
    /\ lock' = h
    /\ op' = [op EXCEPT ![h].pc = "open", ![h].locked = TRUE, ![h].left = ReadAttempts]
    /\ UNCHANGED <<disk, cached, poisoned, answer, history>>

\* try_ofd_write_lock: taken, or busy.
Lock(h) ==
    /\ op[h].pc = "lock"
    /\ IF lock = None
       THEN /\ lock' = h
            /\ op' = [op EXCEPT ![h].pc = "open", ![h].locked = TRUE, ![h].left = ReadAttempts]
            /\ UNCHANGED <<cached, poisoned, answer, history>>
       ELSE Fail(h, TRUE)
    /\ UNCHANGED disk

\* try_read_wall_watermark: open the record and read it.  (A cached descriptor
\* of a replaced record is dropped within the same attempt.)
Open(h) ==
    /\ op[h].pc = "open"
    /\ op' = [op EXCEPT ![h].pc = "confirm", ![h].sample = mark]
    /\ UNCHANGED <<disk, lock, cached, poisoned, answer, history>>

\* The pathname must still lead to the inode that was read; a few attempts.
Confirm(h) ==
    /\ op[h].pc = "confirm"
    /\ \/ /\ op[h].sample = mark
          /\ Goto(h, "clock")
          /\ UNCHANGED <<lock, cached, poisoned, answer, history>>
       \/ /\ op[h].sample # mark /\ op[h].left > 1
          /\ op' = [op EXCEPT ![h].pc = "open", ![h].left = @ - 1]
          /\ UNCHANGED <<lock, cached, poisoned, answer, history>>
       \/ /\ op[h].sample # mark /\ op[h].left = 1
          /\ Fail(h, TRUE)
    /\ UNCHANGED disk

\* An I/O error while the lock file or the record is opened, read or looked up.
ReadFails(h) ==
    /\ op[h].pc \in {"lock", "open", "confirm", "prepare"}
    /\ "io" \in Faults
    /\ Fail(h, FALSE)
    /\ UNCHANGED disk

\* The cache is good while the record and the clock are still in its bucket.
CacheCurrent(h, f) ==
    /\ Bucket(f.ns) = f.bucket
    /\ cached[h].bucket = f.bucket
    /\ cached[h].seq = f.seq

\* CLOCK_REALTIME is read after the record.  It may have been set to any time,
\* also back.
ReadClock(h) ==
    \E clock \in 0..MaxClock :
      LET f == EffectiveFloor(op[h].sample, clock) IN
      /\ op[h].pc = "clock"
      /\ \/ /\ ~op[h].locked /\ CacheCurrent(h, f)
            /\ Give(h, [f EXCEPT !.ns = AtLeast(cached[h].ns, f.ns)])
            /\ UNCHANGED synced
         \/ /\ ~op[h].locked /\ ~CacheCurrent(h, f)
            /\ op' = [op EXCEPT ![h].pc = "lock", ![h].sample = Zero, ![h].left = 0]
            /\ UNCHANGED <<lock, cached, poisoned, answer, history>>
         \/ /\ op[h].locked /\ Bucket(f.ns) <= f.bucket
            /\ Give(h, f)
            /\ UNCHANGED synced
         \/ /\ op[h].locked /\ Bucket(f.ns) > f.bucket
            /\ op' = [op EXCEPT ![h].pc = "prepare", ![h].floor = f]
            /\ UNCHANGED <<lock, cached, poisoned, answer, history>>
      /\ UNCHANGED disk

----------------------------------------------------------------------------
(* advance_wall_watermark_locked                                            *)

\* Variant: the sequence number is not incremented.
PrepareSameSequence(h) ==
    /\ op[h].pc = "prepare"
    /\ op' = [op EXCEPT ![h].pc = "replace",
                        ![h].next = [bucket |-> Bucket(op[h].floor.ns), seq |-> mark.seq]]
    /\ UNCHANGED <<disk, lock, cached, poisoned, answer, history>>

\* The record is read once more under the lock: if it is not behind any more
\* the floor is taken from it, else its successor is written to a temporary
\* file and synced.
Prepare(h) ==
    LET b == Bucket(op[h].floor.ns) IN
    /\ op[h].pc = "prepare"
    /\ IF b <= mark.bucket
       THEN Give(h, EffectiveFloor(mark, op[h].floor.ns)) /\ UNCHANGED synced
       ELSE IF mark.seq >= MaxSequence THEN Fail(h, FALSE)
       ELSE /\ op' = [op EXCEPT ![h].pc = "replace",
                                ![h].next = [bucket |-> b, seq |-> mark.seq + 1]]
            /\ UNCHANGED <<lock, cached, poisoned, answer, history>>
    /\ UNCHANGED disk

\* The temporary file cannot be written or renamed; it is removed.
PrepareFails(h) ==
    \E e \in Faults :
      /\ op[h].pc = "replace"
      /\ Fail(h, e = "nospc")
      /\ UNCHANGED disk

Replace(h) ==
    /\ op[h].pc = "replace"
    /\ mark' = op[h].next
    /\ restorable' = restorable \cup {op[h].next}
    /\ Goto(h, "sync")
    /\ UNCHANGED <<boots, lock, cached, poisoned, answer, history>>

\* Variant: the directory is not synced.
SyncSkipped(h) ==
    /\ op[h].pc = "sync"
    /\ synced' = AtLeast(synced, op[h].next.bucket)
    /\ Give(h, [ns |-> op[h].floor.ns, bucket |-> op[h].next.bucket, seq |-> op[h].next.seq])
    /\ UNCHANGED disk

Sync(h) ==
    /\ op[h].pc = "sync"
    /\ restorable' = {mark}
    /\ synced' = AtLeast(synced, op[h].next.bucket)
    /\ Give(h, [ns |-> op[h].floor.ns, bucket |-> op[h].next.bucket, seq |-> op[h].next.seq])
    /\ UNCHANGED <<mark, boots>>

\* Past the rename no errno is taken for a transient one.
SyncFails(h) ==
    /\ op[h].pc = "sync"
    /\ Faults # {}
    /\ Fail(h, FALSE)
    /\ UNCHANGED disk

----------------------------------------------------------------------------
\* The process dies, which drops its lock, or reopens a poisoned handle.
Reopen(h) ==
    /\ op[h].pc # "idle" \/ poisoned[h]
    /\ op' = [op EXCEPT ![h] = Idle]
    /\ Release(h)
    /\ cached' = [cached EXCEPT ![h] = None]
    /\ poisoned' = [poisoned EXCEPT ![h] = FALSE]
    /\ answer' = [answer EXCEPT ![h] = None]
    /\ UNCHANGED <<disk, history>>

PowerLoss ==
    /\ boots < MaxBoot
    /\ boots' = boots + 1
    /\ mark' \in restorable
    /\ restorable' = {mark'}
    /\ lock' = None
    /\ op' = [h \in Handles |-> Idle]
    /\ cached' = [h \in Handles |-> None]
    /\ answer' = [h \in Handles |-> None]
    /\ poisoned' = [h \in Handles |-> FALSE]
    /\ high' = synced
    /\ UNCHANGED synced

Init ==
    /\ mark \in {[bucket |-> b, seq |-> 0] : b \in 0..Bucket(MaxClock)}
    /\ restorable = {mark}
    /\ boots = 0
    /\ lock = None
    /\ op = [h \in Handles |-> Idle]
    /\ cached = [h \in Handles |-> None]
    /\ poisoned = [h \in Handles |-> FALSE]
    /\ answer = [h \in Handles |-> None]
    /\ high = mark.bucket /\ synced = mark.bucket

Next ==
    \/ \E h \in Handles :
         \/ Begin(h) \/ Lock(h) \/ Open(h) \/ Confirm(h) \/ ReadFails(h) \/ ReadClock(h)
         \/ Prepare(h) \/ PrepareFails(h) \/ Replace(h) \/ Sync(h) \/ SyncFails(h)
         \/ Reopen(h)
    \/ PowerLoss

Spec == Init /\ [][Next]_vars

----------------------------------------------------------------------------
Answers == [floor : Floors, since : Nat]

\* Every variable has its type.
TypeOK ==
    /\ mark \in Marks /\ restorable \subseteq Marks
    /\ boots \in Nat
    /\ lock \in Handles \cup {None}
    /\ op \in [Handles -> Calls]
    /\ cached \in [Handles -> Floors \cup {None}]
    /\ poisoned \in [Handles -> BOOLEAN]
    /\ answer \in [Handles -> Answers \cup {None}]
    /\ high \in Nat /\ synced \in Nat

\* Wall time does not run backwards between handles: a floor is not in an
\* earlier bucket than any floor that was given before it was asked for, in
\* whichever process and however CLOCK_REALTIME was set.  (Lock-free reading of
\* the shared record in wall_floor_for_mutation.)
FloorsDoNotRegress ==
    \A h \in Handles : answer[h] # None => answer[h].floor.bucket >= answer[h].since

\* A floor is always in the very bucket of the record it was taken from: no
\* wall-sensitive work runs ahead of the shared record.
FloorInItsBucket ==
    \A h \in Handles : answer[h] # None => Bucket(answer[h].floor.ns) = answer[h].floor.bucket

\* Every floor that is given out is sound: of its type, the sequence numbers within
\* their limit, not behind earlier floors and in its record's bucket.
FloorsSound == TypeOK /\ FloorsDoNotRegress /\ FloorInItsBucket

\* No power loss takes the record back before a bucket that a call wrote and
\* synced.
SyncedSurvives == \A m \in restorable : m.bucket >= synced

\* Between power losses the record only moves forward, one sequence number at
\* a time: two advancing handles never overwrite each other's record.
MarkAdvances ==
    [][boots' = boots /\ mark' # mark
         => mark'.bucket > mark.bucket /\ mark'.seq = mark.seq + 1]_vars

=============================================================================
