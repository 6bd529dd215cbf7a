# SteadQ in TLA+

A verification development for SteadQ, the brokerless queue kept in a
filesystem. The modules model the protocol that the Rust code runs against the
kernel: names, renames, directory fsyncs, locks and clocks, with several handles
in several processes, failing system calls, dying processes and power losses.
Every definition is translated from the code under `src/`; `PROJECT.json` gives
the lines. Paths below are relative to `src/crates/steadq-core/src/` unless they
start with `src/`.

| file | what it is |
|---|---|
| `Lifecycle.tla` | the life of a job: enqueue, claim, ack, retry, bury, renew, reap, promote, quarantine, resolve, receipt compaction, removal of a dead job |
| `Queue.tla` | what is promised of a job, without files and calls; `Lifecycle` implements it |
| `StateMachine.tla`, `Protocol.tla` | the generated protocol table with identities and tickets; the calls of `Lifecycle` measured against it |
| `LifecycleTypes.tla`, `LifecycleDurability.tla`, `LifecycleSurvival.tla`, `LifecycleRefinement.tla` | theorems about `Lifecycle`, for every value of its constants |
| `Publication.tla` | how an enqueue reaches the disk, strict, deferred or in a batch, against pruning |
| `RecoveryPass.tla` | the recovery driver: phases, walks, budgets, cursor, retry ledger |
| `Custody.tla` | fsck, receipt compaction and retention, claim scan, duplicate-ack probe, administration |
| `Watermark.tla` | the wall watermark: a shared monotone clock floor |
| `InitOpen.tla`, `InitOpenProofs.tla` | init and open, and theorems about them |
| `Worker.tla` | the worker of the command line |
| `Names.tla`, `Records.tla`, `Cbor.tla`, `Buckets.tla` | file names, fixed records, extension header, time and retry arithmetic, as operators |
| `Formats.tla` | writes, damages and reads back what those four define |
| `MC*.tla`, `*.cfg` | small instances for TLC |

## 1. Inventory

### Parts of the system

| part | modules | what is hard |
|---|---|---|
| publication, directories, batches (`queue/publish.rs`, `queue/batch.rs`) | Publication, Lifecycle | the publisher dies or loses power between link and fsync; a directory is pruned behind a cache; one barrier for many operations |
| claim (`queue/lease.rs`) | Lifecycle, Custody | two claimers, a deadline fixed before the rename, a payload found corrupt after the claim is committed |
| consumer calls (`queue/consumer.rs`, `queue/inspect.rs`) | Lifecycle, Custody | stale leases, reapers, duplicate acks, leases of an earlier boot |
| engine and resolution (`queue/engine.rs`, `queue/resolve.rs`) | Lifecycle, Publication, StateMachine | failure after the linearization point, order of fsyncs, two looks that are not atomic |
| recovery (`recovery.rs`, `recovery/`) | RecoveryPass, Lifecycle, Custody | budget ends mid-phase, crash before the cursor is saved, directories that fail |
| quarantine, fsck, dead letters (`quarantine.rs`) | Custody | listings and descriptors that are out of date when acted on |
| watermark (`queue/watermark.rs`) | Watermark | lock-free read of a replaced file, clock set back, crash before the directory sync |
| init and open (`queue/mod.rs`) | InitOpen, Records | interrupted or competing init |
| names, records, arithmetic (`src/crates/steadq-names`, `-format`, `-math`) | Names, Records, Cbor, Buckets, Formats | second spellings, damage, saturation, bucket edges |
| worker (`src/crates/steadq-cli/src/work.rs`) | Worker | child exit, renewal failure, signals and deadline in any order |

### How they interact

A job is one file. `enqueue` links it into `ready/` or `delayed/`; `promote`
moves a due delayed job to ready; `lease` renames a ready name to a leased name
in the same shard directory; the consumer moves the leased name to a receipt, to
dead, back to ready or delayed, or to another leased name; `reap` does what a
dead consumer did not do. A rename that does not replace is the only arbiter
between them. Whoever loses finds `ENOENT` and must answer accordingly.
Wall-sensitive operations first take a floor from the watermark. Recovery
passes exclude each other with a lock and nothing else; fsck excludes nobody.

### What has to be right

* a transition that was reported survives every crash (CommittedSurvives), an
  acknowledged job is never run again (AckedIsFinal), and a job takes only the
  protocol's transitions (ImplementsQueue, CallsFollowTable);
* an attempt is never delivered under two leases (OneTokenPerAttempt); a lost
  lease gives no power over the job and an unexpired one protects it
  (LostLeaseMovesNothing, UnexpiredMovedByHolder); unless a system call fails,
  an unknown outcome is answered only for a move that did happen and that
  another actor has already built on (UnknownHasHappened);
* a corrupt payload is never delivered (CorruptNeverDelivered);
* no lease and no delay lasts for ever (LeaseEnds, DelayEnds);
* a job reported Committed can be reached through durable entries only, one
  reported NotCommitted is nowhere, and a temporary file outlives its call only
  where its own unlink failed (CommittedReachable, NotCommittedInvisible,
  NothingLeaks);
* recovery skips nothing, stays in its budgets and catches up, as long as the
  read budget covers each row of directories without a new entry (PassSound,
  RecoveryCatchesUp, RetriesClear);
* no stored object is lost or doubled, nothing sound is set aside, reports and
  answers are true (OneCustody, SparesSound, ReportsTrue, DeniedOnlyIfChanged);
* wall time does not run backwards across handles, clock changes and crashes
  (FloorsSound, SyncedSurvives, MarkAdvances);
* FORMAT is visible only when all it stands for is durable, a queue in use is
  not undercut by another init, and init can always be retried
  (FormatImpliesComplete, HandleMatchesRoot, EstablishedKept, InitSucceeds);
* the worker keeps its lease through failed renewals, reports outcomes as they
  are and stops when told to (LeaseOutlivesMisses, OutcomesTrue, DeadWasTried,
  ThreadsEnd, StopHonoured);
* names and records have one spelling, damage is noticed, and arithmetic is
  exact up to the word boundary; neither the least nor the greatest retry delay
  falls from one attempt to the next (NamesSound, FilesIntact, NumbersExact,
  DelaysGrow).

The hazards, each at its line and with the properties that watch it, are in
`PROJECT.json`.

## 2. The modules

### Lifecycle, Queue, StateMachine, Protocol

State. `file[j]` is the one name that job `j` has now; a name is a record of
state, generation, attempt and, for leases, token, deadline and boot. `back[j]`
is the set of names that a power loss may leave. `compact` is the set of jobs
whose receipt was replaced by its compact form: same name, another inode.
`op[h]` is the call that handle
`h` is executing: what it moves from where to where and which system call comes
next. `poisoned[h]` is why the handle refuses work. `leases`, `tickets`,
`acked`, `dupAcked`, `lost` and `committed` record what callers were told and
never shrink; nothing in the queue reads them except that a caller can present a
lease or a ticket it was given.

Storage. A rename adds the new name to `back`; an fsync of a directory removes
from `back` all names older than the newest rename that touched the directory.
So a rename is one unit of the journal, as on the journalling and copy-on-write
filesystems of `src/docs/filesystem-profiles.md`: a crash restores some earlier
name, never two and never none. Publication has the finer picture, in which
directory entries become durable one by one.

Actions. A `...Begin` action is everything a call does before its first change
of the namespace: its checks and early returns are guards. `Rename`,
`Witness`, `SyncDst` and `SyncSrc` are the system calls of `move_noreplace` and
`publish_tmpfile_noreplace_impl`, with `RenameGone`, `RenameFails`,
`BarrierFails` for their failures. `Witness` looks at the destination after the
rename; it fails when a consumer has claimed the job, a pass has made the
receipt compact (`Compact`), or an administrator has removed the dead job
(`RemoveBegin`, `remove_dead`), and each of these leaves the caller with an
unknown outcome although no system call failed. `Verify` is the payload check of
a claim.
`ResolveBegin` to `Recheck` are the four looks and syncs of `resolve`. `Reopen`
is the death of a process or the replacement of a poisoned handle.

Queue sees of a name only state, generation and attempt, and of the calls only
the generation promised to a caller. A step is one legal transition, a power
loss, or a settling: older states stop being restorable and callers are told of
what is left. StateMachine is the generated
table, `next_identity`, and the validation and destination of a ticket; Protocol
asks whether each call about to rename is an application of a row, and whether
its ticket leads to the name it makes.

Left out or abstracted: the exhausted-ready branch of the lease scan, because
ImplementsQueue shows that no ready name without an attempt left is ever
produced; the retention window of the duplicate-ack probe (a receipt is found as
long as it is the job's name) and the deletion of receipts past it (Custody and
RecoveryPass have that); directories (Publication); which of several
candidates a scan picks (any); retry delays (a later bucket, chosen freely); an
enqueue uses a fresh job id unless the unpublished file was lost.

### Publication

One delayed bucket with one shard, as a tree of directory inodes: a removed and
recreated bucket is another directory under the same path. `at` has the
directory entries now, `old` what a power loss may find in an entry instead; an
fsync of the directory empties `old`. `hs` is each handle with its `known_dirs`,
cached descriptor, dirty set and call; `out` is what each caller was told; `pass`
is a recovery pass that promotes jobs and prunes the bucket and its shard.

`Publish` walks through `ensure_dir` (cached or not), the temporary file, the
ways to link it that the file system offers (`FileSystems`), the named fallback,
and the barrier, each with its failures. `Barrier` is `sync_dirty` for a batch
or a deferred handle. A batch is opened on any handle (`BatchBegin`), starts
with an empty set, and puts the handle's own set aside until it ends. The guard
of a named temporary file ignores a failed unlink, so `FailNamed` may leave the
file; `MaxUnlinkFaults` counts those apart from the other failures. Linking into a removed directory fails, as in the kernel;
this is what makes a stale descriptor harmless. Batches are modelled for
enqueues only.

### RecoveryPass

A path below a phase's root is a sequence of numbers, ordered as names are. The
five phases, their depth-first walks, the operation and directory-read budgets,
the cursor in memory and on disk, the ledger of directories that failed
and its overflow, and pruning are modelled as in `recovery.rs` and
`recovery/walk.rs`. `Treatment` says what each phase does with a file. Entries
and name bytes of the scan budget follow directory reads (`recovery.rs:79`
refuses a read it could not charge in full), so only reads are counted, and
streamed entries of ready shards. A ready shard that cannot be opened or read is
passed over until the next cycle: the ledger is not for them. A phase prunes
only what the code prunes, so empty temporary shards of this boot and empty
receipt shards stay. A directory may fail to open or to list,
recover or not; other processes may take files; a pass may crash, lose its
cursor or run into its deadline. Arrivals into directories being pruned are in
Publication.

### Custody

An object is an inode with at most one name. Its `defect` tells the checks apart
by where they look: file name, stat result, header bytes, payload. fsck (with
and without repair, deep or not), the keeper (compaction and retention), the
claim scan, the duplicate-ack probe and administrators' calls (list, remove,
export of quarantined and dead objects) each take their system calls one by one
and work with listings, stat results and descriptors that may be out of date.
The only lock is the advisory one on a receipt's inode. NoFalseAlarm excludes
receipts, for the reason given under the differences below.

### Watermark

State. `mark` is the record that the pathname leads to, `restorable` the records
a power loss may leave, `lock` the holder of the OFD lock. Each handle has its
call `op[h]`, its `cached` floor and a poisoned flag. `answer[h]` is the floor
the handle was given, together with the highest bucket given to anyone before it
asked; `high` and `synced` are history variables.

Actions follow `wall_floor_for_mutation` (fast path, then slow path) and
recovery's direct call of the slow path, step by step. `CLOCK_REALTIME` has any
value in its range at each reading, so it may be set back between any two steps.
The identity check of the inode is a comparison of records, which is the same
because sequence numbers grow between two power losses and no descriptor
survives one. The branch in which the record is found advanced although the lock
is held is modelled and never taken.

After a power loss `high` starts again from the newest synced record, because the
code may have handed out a floor from a record that was not yet durable (see the
differences below). What was done with such a floor is not followed.

Per-handle monotonicity in nanoseconds was considered and is not claimed: when
the clock is set back between the fast and the slow path of one call, the floor
may move back within its bucket. Bucket order is what the queue relies on.

### InitOpen

`live` is what the names under the root name now, `disk` what they name after a
power failure; syncing a directory copies its entries. Each initializer follows
`Queue::init` statement by statement: lock, marker, identity, directories and
their syncs, lock files, watermark, FORMAT, removal of the marker. Initializers
with different options compete, fail, are killed and try again; openers read
FORMAT, check the directories and take the read lock, and advance the watermark
while they are open. Temporary names are private to a call and left out.

### Names, Records, Cbor, Buckets, Formats

A name is the sequence of its parts, a record the sequence of its fields, and a
digest or tag stands for a hash without collisions: it is the tuple of what it
covers. The extension header is modelled byte by byte, because canonical CBOR is
about bytes. Numbers are machine words of `WordBits` bits with the saturation of
the code. Formats writes a subject, damages it by up to two edits (change,
insert, remove, another directory or queue) and reads it back.

### Worker

State. `thr[t]` is one thread of `steadq work`: where it is in `worker`,
`run_one` and `babysit`, the lease it holds, its child, its feeder and the
planned renewal. `stop`, `signalled` and `fatal` are the three statics. `job` is
the queue as a caller sees it: a lease is current as long as its job and
generation are the job's name; the files behind it are the business of
Lifecycle. `tried`, `late`, `misses` and `extra` are history.

Actions. The two STOP tests, the lease call, the spawn, each wake-up of
`babysit`, the feeder's end, the child's end and the closing call are separate
steps, so a signal or another thread's spawn failure can come between any two.
The signal handler is two steps, as in the code. `Closing` is `finish` and
`requeue` with all their outcomes. A reaper of another process takes expired
leases. A thread is woken in time for its renewal (`Tick`); what that leaves
out, a late start or a suspended machine, is counted in `late`.

Left out: AlreadyAcked in `finish` (a handle whose ack was unknown is poisoned
and does not ack again), the PATH lookup before the first lease, power loss.

## 3. The runs

| run | instance | shows |
|---|---|---|
| `lifecycle_races` | 1 job with 2 attempts, 2 handles, 4 generations, 1 power loss, no storage errors | OneTokenPerAttempt, LostLeaseMovesNothing, UnexpiredMovedByHolder, UnknownHasHappened, ImplementsQueue |
| `lifecycle_faults` | a sound and a corrupt job, one of them in the queue at a time; I/O errors and exhaustion at every system call; tickets resolved and stabilized; 1 power loss | TypeOK, CommittedSurvives, AckedIsFinal, DurableInv, CorruptNeverDelivered, CallsFollowTable |
| `lifecycle_liveness` | a job with 2 attempts, ready or delayed by the named fallback, recovery run again and again, 1 power loss | CallsFollowTable, LeaseEnds, DelayEnds |
| `watermark` | 2 handles, buckets of width 2, 7 clock values (4 buckets), 3 sequence numbers, so that the limit is met, 1 power loss | FloorsSound, SyncedSurvives, MarkAdvances |
| `worker` | 1 thread with a job on its last attempt, clock to 8, 2 failed calls; and 2 threads with a fresh job and one on its last attempt, clock standing still, 1 failed call; each with and without `--once`, lease of 8 ticks | StopHonoured, LeaseOutlivesMisses, OutcomesTrue, DeadWasTried, ThreadsEnd |
| `publication` | 2 handles in each of the three modes, 2 jobs, buffered and streamed, 2 kinds of file system, 1 batch at a time, 1 failure or death, 1 failed unlink, one call that stalls for a whole bucket width | CommittedReachable, NotCommittedInvisible, NothingLeaks |
| `recovery` | 7 files under four roots and a ready shard, two empty directories that are not pruned, three directories that fail, 2 operations and 7 directory reads per pass, ledger of 2, 1 failure or crash | PassSound, RecoveryCatchesUp, RetriesClear |
| `recovery_minimum_budget` | 2 receipts with 2 empty shards between them, 5 directory reads per pass, nothing fails | ValidBudgetProgresses is violated, see below |
| `custody` | casts of two or three actors on 2 objects with every defect, 2 quarantine identifiers, 1 failure or crash, 2 passes | OneCustody, SparesSound, ReportsTrue, DeniedOnlyIfChanged |
| `contract_duplicate_ack` | compaction against the probe, one sound receipt | OnlyAbsenceDenies is violated, see below |
| `init` | initializers with 1 and 2 shards, 1 opener, 1 failing call, 2 kills or power failures | FormatImpliesComplete, HandleMatchesRoot, EstablishedKept, InitSucceeds |
| `formats` | all seven kinds of names, the four records, 160 extension headers, options at their limits; words of 5 bits; up to 2 edits | NamesSound, FilesIntact, NumbersExact, DelaysGrow |

Each run finishes in under five minutes; the largest, `watermark`, has 1.5 million states.

Bounds. Jobs do not share state except directories, and an fsync for one job can
only help another, so one job at a time is enough for all but directory effects,
which Publication has with two. Two handles make every pairwise race; more would
only repeat the loser's part. Two attempts and two tokens give a claim, its loss
and a second claim with the first holder still active. In `lifecycle_races` that
takes generations up to 4, which is also where the generation limit is met; the
other two runs go further. One power loss between
any two steps is what the durability properties ask about. `MaxTime` lets
deadlines pass before, during and after every call. `RenewBound` limits
renewals, because a holder that renews for ever rightly keeps its lease.
`MaxInode` of 4 lets the bucket and its shard be pruned and made once more.
In `publication` the file systems "direct", "named" and "zfs" are left out: the
first is a shorter way through "proc", the other two are shorter ways to where
"linkless" ends up, the named temporary file.
RecoveryCatchesUp has the condition RowsFit: the directories a pass must read
before it comes to a new entry, the root and one directory of the ledger fit into
the read budget. With seven reads it holds in every state of `recovery`, empty
and failing directories included, and a pass gets through more than one phase;
with five, `minimum_for_progress`, it does not, which is what
`recovery_minimum_budget` is about. Two operations are fewer than the files, so
every phase is cut and resumed, and a ledger of two overflows with three failing
directories. Two quarantine identifiers with one taken give a collision and the
end of the attempts. Two crashes in `init` interrupt a retry of an interrupted
init. Five bits are enough for buckets, doubling and jitter to saturate and wrap.

For the worker, a lease of 8 ticks makes `T/8` one tick and the reserve four, so
two failures in a row together with a late start or a suspend use it up, and an
expiry with its reap fits below the clock's bound. At this length the cap of one
second on the retry of a failed renewal never decides; with a lease of 16 ticks
and a second of one tick LeaseOutlivesMisses holds too, but that takes TLC nine
minutes. Two threads start at the clock's bound, where it stands still (`Starts`):
what they can do to each other, through STOP and FATAL, does not depend on
expiry.

`watermark`, `recovery` and `init` check deadlock. The others do not: with all
bounds used up, every job terminal, every cast done or every thread returned,
the model stops, as the system does.

Fairness is assumed in four runs.

* `lifecycle_liveness`: time passes (weak); a system call in progress returns
  (weak); recovery is run again and again and its candidates are eventually
  taken (strong, for the beginning of a reap or promotion and for its rename,
  because a holder may interrupt each attempt by renewing and a process may die).
  Nothing is assumed of producers and consumers.
* `worker`: threads and the signal handler run on, a feeder ends once it
  is told to stop (it polls every 50 ms), and a child that was sent SIGTERM
  ends. The last is an assumption on the command: one that ignores SIGTERM
  keeps the worker waiting until a second signal.
* `recovery`: a pass goes on, and passes keep being run (weak, for `PassStep`),
  as `spec/contract.md:7` presumes. Time is what the pass
  read at its start, as in the code. Failures are bounded in number; directories
  that never open or list again are in the instance.
* `init`: an initializer goes on and a failed call is retried (weak). Which of
  two initializers wins is left open.

### Where documentation and code differ

With a run:

| run | the documents say | the code does |
|---|---|---|
| `recovery_minimum_budget` | `recovery.rs:462`: a valid budget "can make bounded recovery progress"; `recovery.rs:452`: five reads can "resume the deepest hierarchy and retry one deferred directory in the same pass" | every directory entered costs a read and only entries move the cursor (`recovery/walk.rs:126`), so a row of empty directories that are not pruned and is longer than the budget is read again by every pass. All shards of a receipt bucket are made at once (`queue/publish.rs:552`) and compaction prunes none; with five reads two empty shards are enough, with the default of 1024 it takes about a thousand |
| `contract_duplicate_ack` | `queue/inspect.rs:563`: only a missing receipt directory or receipt is absence, "any other failure is an error, never a definite "not acknowledged"" | a compaction that replaces the receipt between the probe's open and its fstat leaves the opened inode without a link; the verdict "corrupt" is taken for "not a duplicate" (`queue/inspect.rs:636`) and the answer is LeaseLost although the receipt is in place |

Met while modelling, without a run of their own. The models follow the code.

| where | the documents say | the code does |
|---|---|---|
| `queue/engine.rs:507` | `spec/contract.md:29`: exhaustion never poisons the handle | ENOSPC or EDQUOT from a directory fsync after the rename is an unknown outcome and poisons it |
| `queue/engine.rs:473` | `queue/engine.rs:685`: looking the name up again "would race a consumer that immediately claims the new job" | the named fallback and `retry_now` do look it up, and report an unknown outcome when they lose that race. An ack that meets compaction and a bury that meets `remove_dead` do the same; UnknownHasHappened says what the caller may conclude |
| `queue/inspect.rs:401` | `spec/contract.md:53`: the barrier comes before a transition may be reported | AlreadyAcked is answered from a receipt whose directory need not be synced |
| `queue/watermark.rs:202` | `model/scheduling/README.md:5`: a snapshot is durable before work proceeds | after a failed or interrupted directory sync the next handle uses the record without syncing it |
| `queue/mod.rs:535` | its comment: after an indeterminate publication of FORMAT "the init marker stays" | the marker is removed |

Also met, contradicting no document:

* a late initializer that looked for FORMAT before the winner published it
  (`queue/mod.rs:335`) replaces the wall watermark before it answers
  AlreadyExists; the lock keeps handles away meanwhile (HandleMatchesRoot);
* the root's own entry in its parent, left unsynced by an interrupted init, is
  not synced by the retry that finds the root in place; EstablishedKept is
  stated under the condition that this entry is durable. After a kill, FORMAT
  can be visible and not yet durable;
* the watermark part of EstablishedKept is about a queue that someone has open. A
  late initializer that replaces the watermark while nobody does, as above, is
  allowed by it;
* fsck with repair quarantines a sound object whose header could not be read
  once, where recovery only records it (`src/CHANGELOG.md:75`); SparesSound
  allows for a failed read. A payload that deep fsck cannot read is only
  reported;
* compaction or deletion under fsck makes it report
  `receipt_verification_failed` for a sound receipt; NoFalseAlarm excludes
  receipts;
* a job over the queue's limits is claimed before it is refused, with an unknown
  outcome and a poisoned handle;
* an empty metadata map is accepted though it is never written, and a
  non-negative I64 reads back as U64.

## 4. What is proved

Checked by TLAPS for every value of the constants.

### The life of a job

For any sets of jobs and handles, any limits and any fault set, from
`LifecycleConstants` only:

* `TypeCorrect`: `Spec => []TypeOK` (LifecycleTypes);
* `DurableAlways`: `Spec => []DurableInv` (LifecycleSurvival, with the lemmas on
  storage and calls in LifecycleDurability);
* `CommittedAlwaysSurvives`: `Spec => []CommittedSurvives`;
* `AckedAlwaysFinal`: `Spec => []AckedIsFinal`;
* `LifecycleImplementsQueue`: `Spec => ImplementsQueue` (LifecycleRefinement).

The argument. CommittedSurvives is not inductive: it says nothing of what a
crash may restore, nor of how far a call has got when it reports. `DurableInv`
adds both. RestoreInv: the present name is the newest restorable one and no
restorable name is older than what was reported; so a power loss, which picks
any of them, keeps the property. CallInv: a call that has renamed has its
destination among the restorable names (or only newer ones are left), and one
that is past its first fsync has nothing older than its destination to fall back
to; so a report at the end of the barrier is safe whatever others did
meanwhile. For receipts, no call starts from a receipt, so a reported one is the
only name left; making it compact keeps its name. Removing a dead job is one more
move, from dead to no name, with the unlink in the place of the rename. The proof has one lemma per group of actions and one step per
action (`TypeBegin`, `TypeMove`, ... and `DurableBegin`, `DurableMove`, ...);
facts about fsync (`FsyncShrinks`, `FsyncSyncs`) and about steps that only
shrink `back` (`CallKept`, `DurableFrame`) are shared.

The refinement maps a name to its state, generation and attempt, `back` to the
restorable states and `committed` to what is promised. `LegalInv` says that a
call about to rename has a legal transition in hand, fixed when the call began;
since the rename finds exactly its source, the job then takes that transition
(`RenameSteps`). fsyncs and answers only settle (`Settles`, with `DurableInv` for
the promise), a power loss is a power loss, and every other step changes nothing
Queue can see (`Stutters`). `StepSimulation` puts these together.

### Init and open

For any number of initializers, openers, failures and crashes, from
`InitOpenConstants` only. Shard counts are 1 to 4, because
`ready_shards` lists four names; the code's limit is 4096.

* `FormatSound`: `Spec => []FormatImpliesComplete`;
* `HandlesSound`: `Spec => []HandleMatchesRoot`;
* `QueueKept`: `Spec => EstablishedKept`.

FormatImpliesComplete is not inductive: what makes the appearance of FORMAT safe
is how far the call under the lock has come. `IInv` adds that (`Progress`: what
is there and durable at each statement), that nothing is durable that is not
there (`DiskInv`), that the lock has one holder and excludes
handles (`LockInv`), that identities drawn are not drawn again (`IdInv`), and
what a call that answered Ok has left (`OkInv`). The proof follows the
statements of init (`LockStep`, `DrawStep`, `DirectorySteps`, `FileSteps`,
`AppearStep`, `PublishStep`, `CommitStep`, `FailureSteps`), then openers, clock
and power failure (`OpenerSteps`, `WatermarkStep`, `ClockStep`, `PowerStep`).
`FormatStays` and `WatermarkStays` derive the two action properties of
EstablishedKept from `IInv`.

### Only model-checked

OneTokenPerAttempt, LostLeaseMovesNothing, UnexpiredMovedByHolder,
UnknownHasHappened, CorruptNeverDelivered, CallsFollowTable and all properties
of Watermark, Worker, Publication, RecoveryPass, Custody and Formats are checked
on the instances above and not proved. LeaseEnds, DelayEnds, ThreadsEnd,
RecoveryCatchesUp, RetriesClear and InitSucceeds are liveness under fairness,
which the prover does not support. What the recursive definitions of Cbor
compute needs induction over data, which it does not support either.

## 5. Not modelled

* The command-line front end (`src/crates/steadq-cli` but for the worker) and
  the C ABI: each command or export is one library call with argument parsing,
  printing or copying around it, and no state of its own.
* The inotify wait of `lease` and the thin system-call wrappers: a wait that
  returns early or late changes only when the scan runs, which is left open.
* Leases and acks inside a batch, and deferred acks: they go through the same
  dirty set and barrier as the batched enqueues of Publication, but the
  combination with Lifecycle's storage is beyond TLC's reach as it stands.
* The time window of the duplicate-ack search (`queue/inspect.rs:581`): which
  buckets are searched is arithmetic on a clock the models do not share.
* Statistics, listings that only count, and the text and JSON forms of errors
  and tickets: no decision depends on them.
* Test kit, crash lab, fuzz targets and code generation: not part of the running
  system.

Candidates for further proofs: UnexpiredMovedByHolder and LostLeaseMovesNothing
(a call at its rename knows the state of its source), MarkAdvances and FloorsSound
for the watermark (the lock holder is the only writer, so its sample is the
record), LeaseOutlivesMisses for every lease duration.
