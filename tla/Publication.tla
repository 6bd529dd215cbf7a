---------------------------- MODULE Publication ----------------------------
(* How an enqueue reaches the disk (queue/publish.rs, queue/engine.rs,        *)
(* queue/batch.rs) while recovery prunes the directory it is writing to       *)
(* (recovery/walk.rs, recovery/phases/promote.rs).                            *)
(*                                                                            *)
(* One delayed bucket with one shard: Root is `delayed`, entry "b" of Root is *)
(* the bucket, entry "s" of a bucket the shard, and an entry j of a shard the *)
(* job file j.  Directories have identities (inodes), so a removed and        *)
(* recreated bucket is another directory under the same path.  `old` holds    *)
(* what a power loss may find in an entry instead of its present value; an    *)
(* fsync of the directory empties it.  Renaming or linking into a removed     *)
(* directory fails, as it does in the kernel.                                 *)
EXTENDS Integers, FiniteSets

CONSTANTS
    Handles, Jobs,
    None,           \* no entry
    Here,           \* a job file
    Modes,          \* durability: "strict", "deferred" (deferred_dir_sync), "batch"
    Kinds,          \* "enqueue" or "stream"
    FileSystems,    \* what the file system offers, see Links
    MaxInode,       \* bound on the directories ever made
    MaxFaults,      \* bound on failed system calls and process deaths
    MaxUnlinkFaults, \* bound on the failed unlinks TempGuard ignores
    MaxBatches,     \* bound on the batches open at once
    MaxStalled      \* calls that may be in flight while a whole bucket width passes

ASSUME BoundsAssumption ==
    /\ MaxInode \in Nat /\ MaxFaults \in Nat /\ MaxUnlinkFaults \in Nat /\ MaxBatches \in Nat /\ MaxStalled \in Nat
    /\ Modes \subseteq {"strict", "deferred", "batch"}
    /\ Kinds \subseteq {"enqueue", "stream"}
    /\ FileSystems \subseteq {"direct", "proc", "linkless", "zfs", "named"}

VARIABLES
    at, old,    \* directory entries now, and what a power loss may restore
    made, gone, \* directories made so far, and those removed since
    temps,      \* named temporary files under tmp/<boot>
    hs,         \* the handles and the call each has in flight
    out,        \* what the caller of each enqueue was told
    promoted,   \* jobs the promoter has moved on to ready
    pass,       \* the recovery pass
    wall,       \* 0: bucket ahead, 1: eligible, 2: past by a full width
    fsys,       \* the file system the queue lives on
    faults

vars == <<at, old, made, gone, temps, hs, out, promoted, pass, wall, fsys, faults>>

Root == 0
Dirs == 0..MaxInode
Names == {"b", "s"} \cup Jobs
Children == (1..MaxInode) \cup {None, Here}
Outcomes == {"unused", "running", "NotCommitted", "OutcomeUnknown", "Committed",
             "Pending", "Abandoned"}

\* A dirty set with nothing in it.  A batch has a set of its own: the handle's
\* is kept aside while the batch is open.
NoSet == [dirty |-> {}, pendingDirs |-> {}, pending |-> {}]

Closed == [open |-> FALSE, mode |-> "strict", batch |-> FALSE,
           known |-> {}, cache |-> None, link |-> "unset", dirty |-> {},
           pendingDirs |-> {}, pending |-> {}, kept |-> NoSet, poisoned |-> FALSE,
           pc |-> "idle", kind |-> "enqueue", job |-> None, fd |-> None]

\* Every variable has its type, and a handle holds a job and a descriptor only
\* while a call is in flight.
TypeOK ==
    /\ at \in [Dirs -> [Names -> Children]]
    /\ old \in [Dirs -> [Names -> SUBSET Children]]
    /\ made \in 0..MaxInode /\ gone \subseteq 1..made
    /\ temps \subseteq Jobs /\ promoted \subseteq Jobs
    /\ out \in [Jobs -> Outcomes]
    /\ \A h \in Handles :
         /\ hs[h].known \cup hs[h].pendingDirs \subseteq {"b", "b/s"}
         /\ hs[h].dirty \cup hs[h].kept.dirty \subseteq 0..made
         /\ hs[h].pending \cup hs[h].kept.pending \subseteq Jobs
         /\ hs[h].cache \in (1..made) \cup {None}
         /\ hs[h].fd \in (1..made) \cup {None}
         /\ hs[h].pc = "idle" => hs[h].fd = None /\ hs[h].job = None
    /\ pass \in [pc : {"idle", "syncBucket", "syncRoot"}, bucket : 0..MaxInode]
    /\ wall \in 0..2 /\ fsys \in FileSystems /\ faults \in [calls : 0..MaxFaults, unlinks : 0..MaxUnlinkFaults]

Init ==
    /\ at = [d \in Dirs |-> [n \in Names |-> None]]
    /\ old = [d \in Dirs |-> [n \in Names |-> {}]]
    /\ made = 0 /\ gone = {} /\ temps = {} /\ promoted = {}
    /\ hs = [h \in Handles |-> Closed]
    /\ out = [j \in Jobs |-> "unused"]
    /\ pass = [pc |-> "idle", bucket |-> 0]
    /\ wall = 0 /\ faults = [calls |-> 0, unlinks |-> 0] /\ fsys \in FileSystems

storage == <<at, old, made, gone>>
world == <<promoted, pass, wall, fsys>>

-----------------------------------------------------------------------------
(* Directory entries.                                                        *)

Put(d, n, c) ==
    /\ at' = [at EXCEPT ![d][n] = c]
    /\ old' = [old EXCEPT ![d][n] = @ \cup {at[d][n]}]

\* fsync_dir_fd: the entries a directory has now are the ones that survive.
Synced(ds) == [d \in Dirs |-> IF d \in ds THEN [n \in Names |-> {}] ELSE old[d]]

\* mkdirat_eexist_ok in a directory that still exists.
MkDir(d, n) ==
    IF at[d][n] # None THEN UNCHANGED storage
    ELSE /\ made < MaxInode
         /\ made' = made + 1 /\ Put(d, n, made + 1) /\ UNCHANGED gone

\* open_relative("delayed/b") and open_relative("delayed/b/s")
BucketPath == at[Root]["b"]
ShardPath == IF BucketPath = None THEN None ELSE at[BucketPath]["s"]

Fault == faults.calls < MaxFaults /\ faults' = [faults EXCEPT !.calls = @ + 1]
NoFault == UNCHANGED faults

-----------------------------------------------------------------------------
(* The call a handle has in flight.                                          *)

At(h, pc) == hs[h].pc = pc
Set(h, r) == hs' = [hs EXCEPT ![h] = r]
Goto(h, pc) == Set(h, [hs[h] EXCEPT !.pc = pc])
Deferring(h) == hs[h].batch \/ hs[h].mode = "deferred"

Ended(h) == [hs[h] EXCEPT !.pc = "idle", !.kind = "enqueue", !.job = None, !.fd = None]

\* The call ends with o; an unknown outcome poisons the handle.
Return(h, o) ==
    /\ out' = [out EXCEPT ![hs[h].job] = o]
    /\ Set(h, [Ended(h) EXCEPT !.poisoned = @ \/ o = "OutcomeUnknown"])

Fail(h) == Return(h, "NotCommitted") /\ UNCHANGED <<storage, temps, world>>

\* The call fails for n failed system calls, and TempGuard drops: the temporary
\* file is unlinked, or that fails too, which is ignored.
FailNamed(h, n) ==
    /\ faults.calls + n <= MaxFaults
    /\ \/ temps' = temps \ {hs[h].job} /\ faults' = [faults EXCEPT !.calls = @ + n]
       \/ /\ hs[h].job \in temps /\ faults.unlinks < MaxUnlinkFaults
          /\ faults' = [calls |-> faults.calls + n, unlinks |-> faults.unlinks + 1] /\ UNCHANGED temps
    /\ Return(h, "NotCommitted") /\ UNCHANGED <<storage, world>>

preferred_publication_mode == IF fsys = "zfs" THEN "named" ELSE "unset"

Open(h) ==
    /\ ~hs[h].open
    /\ \E m \in Modes \cap {"strict", "deferred"} :
         Set(h, [Closed EXCEPT !.open = TRUE, !.mode = m, !.link = preferred_publication_mode])
    /\ UNCHANGED <<storage, temps, out, world, faults>>

\* dir_is_known: a pending directory counts only for the set that holds it.
Known(h) == hs[h].known \cup (IF Deferring(h) THEN hs[h].pendingDirs ELSE {})

\* Where ensure_dir_with_dirty starts for a shard of a bucket.
EnsureFrom(h) ==
    CASE "b/s" \in Known(h) -> "open"
      [] "b/s" \notin Known(h) /\ "b" \in Known(h) -> "bucket"
      [] OTHER -> "mkdir"

Start(h, k) ==
    /\ hs[h].open /\ At(h, "idle") /\ ~hs[h].poisoned /\ wall = 0
    /\ \E j \in Jobs :
         /\ out[j] = "unused"
         /\ out' = [out EXCEPT ![j] = "running"]
         /\ Set(h, [hs[h] EXCEPT !.pc = EnsureFrom(h), !.kind = k, !.job = j])
    /\ UNCHANGED <<storage, temps, world, faults>>

\* prepare_enqueue and enqueue_streaming: the job is encoded and its bucket
\* chosen from the handle's wall floor, here.
Enqueue(h) == Start(h, "enqueue")
EnqueueStreaming(h) == "stream" \in Kinds /\ ~hs[h].batch /\ Start(h, "stream")

-----------------------------------------------------------------------------
(* ensure_dir_with_dirty                                                     *)

\* mkdirat and open_directory of the bucket; it may be pruned in between.
EnsureBucket(h) ==
    /\ At(h, "mkdir")
    /\ \/ /\ MkDir(Root, "b") /\ NoFault
          /\ Goto(h, "syncRoot") /\ UNCHANGED <<temps, out, world>>
       \/ Fault /\ Fail(h)

\* Variant: a pending directory is known before its barrier.
SyncParentOfEager(h, d, path, next) ==
    IF Deferring(h)
    THEN /\ Set(h, [hs[h] EXCEPT !.dirty = @ \cup {d}, !.known = @ \cup {path}, !.pc = next])
         /\ UNCHANGED old
    ELSE /\ Set(h, [hs[h] EXCEPT !.known = @ \cup {path}, !.pc = next])
         /\ old' = Synced({d})

\* sync_parent_of: sync now and mark known, or record and leave pending.
SyncParentOf(h, d, path, next) ==
    IF Deferring(h)
    THEN /\ Set(h, [hs[h] EXCEPT !.dirty = @ \cup {d}, !.pendingDirs = @ \cup {path}, !.pc = next])
         /\ UNCHANGED old
    ELSE /\ Set(h, [hs[h] EXCEPT !.known = @ \cup {path}, !.pc = next])
         /\ old' = Synced({d})

SyncRoot(h) ==
    /\ At(h, "syncRoot")
    /\ \/ /\ BucketPath # None /\ SyncParentOf(h, Root, "b", "bucket")
          /\ NoFault /\ UNCHANGED <<at, made, gone, temps, out, world>>
       \/ BucketPath = None /\ NoFault /\ Fail(h)
       \/ Fault /\ Fail(h)

\* ensure_sharded_bucket_with_dirty opens the bucket by its path ...
OpenBucket(h) ==
    /\ At(h, "bucket")
    /\ \/ /\ BucketPath # None /\ NoFault
          /\ Set(h, [hs[h] EXCEPT !.fd = BucketPath, !.pc = "shards"])
          /\ UNCHANGED <<storage, temps, out, world>>
       \/ BucketPath = None /\ NoFault /\ Fail(h)
       \/ Fault /\ Fail(h)

\* ... makes every shard directory in it ...
MakeShards(h) ==
    /\ At(h, "shards")
    /\ \/ /\ hs[h].fd \notin gone /\ MkDir(hs[h].fd, "s") /\ NoFault
          /\ Goto(h, "syncBucket") /\ UNCHANGED <<temps, out, world>>
       \/ hs[h].fd \in gone /\ NoFault /\ Fail(h)
       \/ Fault /\ Fail(h)

\* ... and syncs the bucket once for all of them.
SyncBucket(h) ==
    /\ At(h, "syncBucket")
    /\ \/ /\ SyncParentOf(h, hs[h].fd, "b/s", "open")
          /\ NoFault /\ UNCHANGED <<at, made, gone, temps, out, world>>
       \/ Fault /\ Fail(h)

-----------------------------------------------------------------------------
(* write_and_publish_with_dirty and stream_and_publish                       *)

Opened(h, fd) == [hs[h] EXCEPT !.fd = fd, !.pc = IF hs[h].link = "named" THEN "named" ELSE "tmpfile"]

\* open_or_cache_dir: the descriptor of the last destination is used again.
OpenShard(h) ==
    LET fd == IF hs[h].cache # None THEN hs[h].cache ELSE ShardPath IN
    /\ At(h, "open") /\ hs[h].kind = "enqueue"
    /\ \/ /\ fd # None /\ NoFault
          /\ Set(h, [Opened(h, fd) EXCEPT !.cache = fd])
          /\ UNCHANGED <<storage, temps, out, world>>
       \/ fd = None /\ NoFault /\ Fail(h)
       \/ Fault /\ Fail(h)

\* The streaming path opens the directory afresh.
OpenShardStreaming(h) ==
    /\ At(h, "open") /\ hs[h].kind = "stream"
    /\ \/ /\ ShardPath # None /\ NoFault
          /\ Set(h, Opened(h, ShardPath))
          /\ UNCHANGED <<storage, temps, out, world>>
       \/ ShardPath = None /\ NoFault /\ Fail(h)
       \/ Fault /\ Fail(h)

\* open_tmpfile; ENOENT of a removed directory counts as unsupported.
OpenTmpfile(h) ==
    /\ At(h, "tmpfile")
    /\ \/ /\ fsys # "named" /\ hs[h].fd \notin gone /\ NoFault
          /\ Goto(h, "link")
          /\ UNCHANGED <<storage, temps, out, world>>
       \/ /\ fsys = "named" \/ hs[h].fd \in gone
          /\ Set(h, [hs[h] EXCEPT !.link = "named", !.pc = "named"])
          /\ NoFault /\ UNCHANGED <<storage, temps, out, world>>
       \/ Fault /\ Fail(h)

\* stream_payload_to_fd: the source fails or runs past the limit, which drops
\* the unnamed file.  A source that ends within the limit changes nothing that
\* is modelled and leads on to the link.
StreamPayload(h) ==
    /\ At(h, "link") /\ hs[h].kind = "stream"
    /\ Fault /\ Fail(h)

\* link_tmpfile_noreplace: the strategies in the order the handle prefers,
\* and the first that works; "none" when both are unsupported.
Strategies(h) == IF hs[h].link = "proc" THEN <<"proc", "direct">> ELSE <<"direct", "proc">>
Links == [direct |-> {"direct", "proc"}, proc |-> {"proc"}, linkless |-> {}, zfs |-> {"proc"}, named |-> {}]
LinkMode(h) ==
    LET works == {i \in 1..2 : Strategies(h)[i] \in Links[fsys]} IN
    IF works = {} THEN "none"
    ELSE Strategies(h)[CHOOSE i \in works : \A k \in works : i <= k]

\* The file is written and synced, then linked: the linearization point.
\* With /proc the ENOENT of a removed directory is told apart by st_nlink.
Link(h) ==
    /\ At(h, "link")
    /\ \/ /\ hs[h].fd \notin gone /\ LinkMode(h) # "none" /\ NoFault
          /\ Put(hs[h].fd, hs[h].job, Here)
          /\ Set(h, [hs[h] EXCEPT !.link = LinkMode(h), !.pc = "publish"])
          /\ UNCHANGED <<made, gone, temps, out, world>>
       \/ /\ hs[h].fd \notin gone /\ LinkMode(h) = "none" /\ NoFault
          /\ Set(h, [hs[h] EXCEPT !.link = "named", !.pc = "named"])
          /\ UNCHANGED <<storage, temps, out, world>>
       \/ hs[h].fd \in gone /\ NoFault /\ Fail(h)
       \/ Fault /\ Fail(h)

\* The end of a publication whose linearization succeeded.
Published(h) ==
    IF Deferring(h)
    THEN /\ Set(h, [Ended(h) EXCEPT !.dirty = @ \cup {hs[h].fd}, !.pending = @ \cup {hs[h].job}])
         /\ out' = [out EXCEPT ![hs[h].job] = "Pending"] /\ UNCHANGED old
    ELSE Return(h, "Committed") /\ old' = Synced({hs[h].fd})

\* Variant: a failed barrier after the link is reported as not committed.
SyncShardRetryable(h) ==
    /\ At(h, "publish")
    /\ \/ Published(h) /\ NoFault
       \/ Fault /\ Return(h, "NotCommitted") /\ UNCHANGED old
    /\ UNCHANGED <<at, made, gone, temps, world>>

\* The destination directory is synced, or recorded in the dirty set.
SyncShard(h) ==
    /\ At(h, "publish")
    /\ \/ Published(h) /\ NoFault
       \/ Fault /\ Return(h, "OutcomeUnknown") /\ UNCHANGED old
    /\ UNCHANGED <<at, made, gone, temps, world>>

-----------------------------------------------------------------------------
(* named_fallback_with_dirty, named_fallback_streaming and their rename.     *)

\* create_exclusive under tmp/<boot>/<shard>.
CreateNamed(h) ==
    /\ At(h, "named")
    /\ \/ /\ temps' = temps \cup {hs[h].job} /\ NoFault
          /\ Goto(h, "rename") /\ UNCHANGED <<storage, out, world>>
       \/ Fault /\ Fail(h)

\* The envelope cannot be written or synced; when it can, the rename is next.
WriteNamed(h) == At(h, "rename") /\ hs[h].kind = "enqueue" /\ FailNamed(h, 1)

\* The same from the source, or from the unnamed file that could not be linked.
WriteNamedStreaming(h) == At(h, "rename") /\ hs[h].kind = "stream" /\ FailNamed(h, 1)

\* Variant: the guard is disarmed before the rename is known to have happened.
RenameNamedUnguarded(h) ==
    /\ At(h, "rename")
    /\ \/ /\ hs[h].job \in temps /\ hs[h].fd \notin gone /\ NoFault
          /\ temps' = temps \ {hs[h].job}
          /\ Put(hs[h].fd, hs[h].job, Here) /\ Goto(h, "witness")
          /\ UNCHANGED <<made, gone, out, world>>
       \/ /\ hs[h].job \notin temps \/ hs[h].fd \in gone
          /\ NoFault /\ Fail(h)

\* renameat2(RENAME_NOREPLACE): ENOENT when the temporary file was cleaned up
\* or the destination directory removed.
RenameNamed(h) ==
    /\ At(h, "rename")
    /\ \/ /\ hs[h].job \in temps /\ hs[h].fd \notin gone /\ NoFault
          /\ temps' = temps \ {hs[h].job}
          /\ Put(hs[h].fd, hs[h].job, Here) /\ Goto(h, "witness")
          /\ UNCHANGED <<made, gone, out, world>>
       \/ /\ hs[h].job \notin temps \/ hs[h].fd \in gone
          /\ FailNamed(h, 0)
       \/ FailNamed(h, 1)

\* The identity witness: another process may have moved the file already.
WitnessNamed(h) ==
    /\ At(h, "witness")
    /\ \/ /\ at[hs[h].fd][hs[h].job] = Here /\ NoFault
          /\ Goto(h, "namedPublish") /\ UNCHANGED <<out>>
       \/ at[hs[h].fd][hs[h].job] # Here /\ NoFault /\ Return(h, "OutcomeUnknown")
       \/ Fault /\ Return(h, "OutcomeUnknown")
    /\ UNCHANGED <<storage, temps, world>>

\* Destination fsync, then source fsync; or both recorded.
SyncNamed(h) ==
    /\ At(h, "namedPublish")
    /\ \/ Published(h) /\ NoFault
       \/ Fault /\ Return(h, "OutcomeUnknown") /\ UNCHANGED old
       \/ ~Deferring(h) /\ Fault /\ Return(h, "OutcomeUnknown") /\ old' = Synced({hs[h].fd})
    /\ UNCHANGED <<at, made, gone, temps, world>>

-----------------------------------------------------------------------------
(* Batch and sync: one barrier for many publications.                        *)

SetOf(h) == [dirty |-> hs[h].dirty, pendingDirs |-> hs[h].pendingDirs, pending |-> hs[h].pending]

\* Queue::batch, on any handle: Batch::new starts with an empty set.
BatchBegin(h) ==
    /\ "batch" \in Modes
    /\ hs[h].open /\ At(h, "idle") /\ ~hs[h].batch
    /\ Cardinality({g \in Handles : hs[g].batch}) < MaxBatches
    /\ Set(h, [hs[h] EXCEPT !.batch = TRUE, !.kept = SetOf(h), !.dirty = {}, !.pendingDirs = {}, !.pending = {}])
    /\ UNCHANGED <<storage, temps, out, world, faults>>

Resolved(h, o) == [j \in Jobs |-> IF j \in hs[h].pending THEN o ELSE out[j]]
Cleared(h) == LET own == hs[h].kept IN
    [hs[h] EXCEPT !.dirty = own.dirty, !.pendingDirs = own.pendingDirs, !.pending = own.pending,
                  !.kept = NoSet, !.batch = FALSE]

\* sync_dirty under Batch::commit and Queue::sync: every recorded directory
\* is synced, also after a failure.  A failed commit poisons the handle and
\* leaves its jobs unknown; a failed sync keeps the set for a later attempt.
Barrier(h) ==
    /\ hs[h].open /\ At(h, "idle") /\ Deferring(h) /\ (hs[h].batch \/ hs[h].dirty # {})
    /\ \/ /\ old' = Synced(hs[h].dirty) /\ NoFault
          /\ Set(h, [Cleared(h) EXCEPT !.known = @ \cup hs[h].pendingDirs])
          /\ out' = Resolved(h, "Committed")
       \/ \E d \in hs[h].dirty :
            /\ old' = Synced(hs[h].dirty \ {d}) /\ Fault
            /\ IF hs[h].batch
               THEN /\ Set(h, [Cleared(h) EXCEPT !.poisoned = TRUE])
                    /\ out' = Resolved(h, "OutcomeUnknown")
               ELSE UNCHANGED <<hs, out>>
    /\ UNCHANGED <<at, made, gone, temps, world>>

\* A batch dropped without a commit promises nothing.
BatchDrop(h) ==
    /\ hs[h].batch /\ At(h, "idle")
    /\ Set(h, Cleared(h)) /\ out' = Resolved(h, "Abandoned")
    /\ UNCHANGED <<storage, temps, world, faults>>

\* The process dies; what it had in flight is never reported.
Die(h) ==
    /\ hs[h].open /\ Set(h, Closed) /\ Fault
    /\ out' = [j \in Jobs |-> IF j \in hs[h].pending \cup hs[h].kept.pending \cup {hs[h].job} THEN "Abandoned" ELSE out[j]]
    /\ UNCHANGED <<storage, temps, world>>

Publish(h) ==
    \/ Enqueue(h) \/ EnqueueStreaming(h)
    \/ EnsureBucket(h) \/ SyncRoot(h) \/ OpenBucket(h) \/ MakeShards(h) \/ SyncBucket(h)
    \/ OpenShard(h) \/ OpenShardStreaming(h) \/ OpenTmpfile(h) \/ StreamPayload(h)
    \/ Link(h) \/ SyncShard(h)
    \/ CreateNamed(h) \/ WriteNamed(h) \/ WriteNamedStreaming(h)
    \/ RenameNamed(h) \/ WitnessNamed(h) \/ SyncNamed(h)

-----------------------------------------------------------------------------
(* Recovery, and time.                                                       *)

\* promote_to_ready, as the durable move Lifecycle describes.
Promote(j) ==
    /\ wall >= 1 /\ ShardPath # None /\ at[ShardPath][j] = Here
    /\ at' = [at EXCEPT ![ShardPath][j] = None]
    /\ old' = [old EXCEPT ![ShardPath][j] = {}]
    /\ promoted' = promoted \cup {j}
    /\ UNCHANGED <<made, gone, temps, hs, out, pass, wall, fsys, faults>>

Empty(d) == \A n \in Names : at[d][n] = None

\* bucket_num < current_wall_bucket
Drained == wall >= 2

\* prune_empty_directory of the shard, then of the bucket; each removal is
\* followed by an fsync of the parent.
PruneShard ==
    /\ pass.pc = "idle" /\ Drained /\ ShardPath # None /\ Empty(ShardPath)
    /\ Put(BucketPath, "s", None) /\ gone' = gone \cup {ShardPath}
    /\ pass' = [pc |-> "syncBucket", bucket |-> BucketPath]
    /\ UNCHANGED <<made, temps, hs, out, promoted, wall, fsys, faults>>

PruneBucket ==
    /\ pass.pc = "syncBucket"
    /\ IF pass.bucket = BucketPath /\ Empty(BucketPath)
       THEN /\ at' = [at EXCEPT ![Root]["b"] = None]
            /\ old' = [Synced({pass.bucket}) EXCEPT ![Root]["b"] = @ \cup {at[Root]["b"]}]
            /\ gone' = gone \cup {pass.bucket}
            /\ pass' = [pass EXCEPT !.pc = "syncRoot"]
       ELSE /\ old' = Synced({pass.bucket}) /\ UNCHANGED <<at, gone>>
            /\ pass' = [pc |-> "idle", bucket |-> 0]
    /\ UNCHANGED <<made, temps, hs, out, promoted, wall, fsys, faults>>

PruneDone ==
    /\ pass.pc = "syncRoot"
    /\ old' = Synced({Root}) /\ pass' = [pc |-> "idle", bucket |-> 0]
    /\ UNCHANGED <<at, made, gone, temps, hs, out, promoted, wall, fsys, faults>>

\* cleanup_temp_files, once the temporary file is older than its TTL.
CleanTemp(j) ==
    /\ wall >= 2 /\ j \in temps /\ temps' = temps \ {j}
    /\ UNCHANGED <<storage, hs, out, world, faults>>

InFlight == {h \in Handles : ~At(h, "idle")}

\* Time passes; MaxStalled bounds the calls that sleep through a bucket width.
Tick ==
    /\ wall < 2 /\ wall' = wall + 1
    /\ wall = 1 => Cardinality(InFlight) <= MaxStalled
    /\ UNCHANGED <<storage, temps, hs, out, promoted, pass, fsys, faults>>

Next ==
    \/ \E h \in Handles :
         Open(h) \/ Publish(h) \/ BatchBegin(h) \/ Barrier(h) \/ BatchDrop(h) \/ Die(h)
    \/ \E j \in Jobs : Promote(j) \/ CleanTemp(j)
    \/ PruneShard \/ PruneBucket \/ PruneDone \/ Tick

Spec == Init /\ [][Next]_vars

-----------------------------------------------------------------------------
(* Properties.                                                               *)

Possible(d, n) == {at[d][n]} \cup old[d][n]

\* The job is found at its path, whatever a power loss restores.
Reachable(j) ==
    \/ j \in promoted
    \/ \A b \in Possible(Root, "b") :
         b # None /\ \A s \in Possible(b, "s") : s # None /\ Possible(s, j) = {Here}

\* A job reported Committed survives a power loss at any later moment: its own
\* entry and every directory entry on the path to it are durable, also when
\* another process made the directories and died, and when they were made
\* under a dirty set (ensure_dir_with_dirty, sync_dirty).
CommittedReachable == \A j \in Jobs : out[j] = "Committed" => Reachable(j)

Visible(j) == j \in promoted \/ \E d \in Dirs : at[d][j] = Here \/ Here \in old[d][j]

\* A job reported NotCommitted was never published and never will be, so the
\* producer may enqueue it again (PublishError::NotCommitted).
NotCommittedInvisible == \A j \in Jobs : out[j] = "NotCommitted" => ~Visible(j)

\* Temporary files whose call has ended while its process lives.
Strays == {j \in temps : out[j] \notin {"running", "Abandoned"}}

\* A call that has ended holds no descriptor and no job in its handle (TypeOK),
\* and each temporary file that outlives its call, other than by the death of
\* the process, cost a failed unlink of its own (the one TempGuard's drop
\* ignores) and belongs to a job reported NotCommitted: a rename that is refused
\* because the directory was pruned leaves none behind by itself.
NothingLeaks ==
    /\ TypeOK
    /\ Cardinality(Strays) <= faults.unlinks
    /\ \A j \in Strays : out[j] = "NotCommitted"
=============================================================================
