------------------------------ MODULE InitOpen ------------------------------
(***************************************************************************)
(* Queue::init and Queue::open: how a directory becomes a queue, what is   *)
(* durable when FORMAT appears, and what excludes what.  Initializers with *)
(* different options run at the same time, fail, are killed and retried;   *)
(* openers come and go and advance the wall watermark; the power fails.    *)
(*                                                                         *)
(* A directory entry is durable once its directory was synced.  The names  *)
(* of temporary files are private to a call and nobody reads them, so they *)
(* are left out, as is the content of the files but for FORMAT (the queue  *)
(* identity with its shard count) and the wall watermark.                  *)
(***************************************************************************)
EXTENDS Naturals, FiniteSets

CONSTANTS Inits,       \* initializing processes
          Openers,     \* processes that open the queue
          Shards,      \* [Inits -> shard_count]
          None,
          MaxIds,      \* queue identities drawn
          MaxClock,    \* realtime, in watermark buckets
          MaxFaults,   \* failing system calls
          MaxCrashes   \* process deaths and power failures

\* An identity is drawn under the lock, and only a failure loses it again.
ASSUME EnoughIds == MaxIds >= MaxFaults + MaxCrashes + Cardinality(Inits)

\* What FORMAT says of a queue: its identity, its shard count and its birth.
Identities == [queue : Nat, shards : {Shards[p] : p \in Inits}, created : 0..MaxClock]

ASSUME InitOpenConstants ==
    /\ MaxClock \in Nat
    /\ \A p \in Inits : Shards[p] \in 1..4
    /\ None \notin BOOLEAN /\ None \notin Nat /\ None \notin Identities /\ None \notin Inits

VARIABLES live,    \* what the names under the root name now
          disk,    \* what they name after a power failure
          init,    \* [Inits -> [pc, id, armed, ok]]
          open,    \* [Openers -> [pc, format]]
          writer,  \* holder of the exclusive maintenance lock
          ids, clock, faults, crashes

vars == <<live, disk, init, open, writer, ids, clock, faults, crashes>>

\* ready/0000, ready/0001, ...
ready_shards(n) == {<<"0000", "0001", "0002", "0003">>[i] : i \in 1..n}
AllShards == UNION {ready_shards(Shards[p]) : p \in Inits}
Entries == {"root", "FORMAT", ".initializing", "control", "state", "maintenance.lock", "locks", "wall-watermark"}
           \cup AllShards

\* "state" stands for the seven state directories, "locks" for the other two
\* lock files.
Parent(e) == IF e = "root" THEN "parent"
             ELSE IF e \in {"maintenance.lock", "locks", "wall-watermark"} THEN "control"
             ELSE IF e \in AllShards THEN "state" ELSE "root"

Absent == [e \in Entries |-> None]
Present(e) == live[e] # None

Make(es) == live' = [e \in Entries |-> IF e \in es /\ ~Present(e) THEN TRUE ELSE live[e]]
Sync(ds) == disk' = [e \in Entries |-> IF Parent(e) \in ds THEN live[e] ELSE disk[e]]

\* A lost directory takes its entries with it.
Reachable(f) == [e \in Entries |->
    IF e # "root" /\ (f["root"] = None \/ (Parent(e) # "root" /\ f[Parent(e)] = None)) THEN None ELSE f[e]]

Fault == faults < MaxFaults /\ faults' = faults + 1

\* Handles hold the maintenance lock shared.
Readers == {o \in Openers : open[o].pc = "opened"}

-----------------------------------------------------------------------------
(***************************************************************************)
(* init                                                                    *)
(***************************************************************************)

NoCall == [pc |-> "idle", id |-> None, armed |-> FALSE, ok |-> FALSE]

At(p, pc) == init[p].pc = pc
Goto(p, pc) == init' = [init EXCEPT ![p].pc = pc]
Same == UNCHANGED <<open, ids, clock, faults, crashes>>

\* The end of a call drops its lock and, if it failed, its marker.  A caller
\* told that the queue exists is done; one told anything else tries again.
Return(p, answer) ==
    /\ init' = [init EXCEPT ![p] = IF answer = "exists" THEN [NoCall EXCEPT !.pc = "done"] ELSE NoCall]
    /\ live' = IF init[p].armed THEN [live EXCEPT ![".initializing"] = None] ELSE live
    /\ writer' = IF writer = p THEN None ELSE writer
    /\ UNCHANGED disk

CreateRoot(p) ==
    /\ At(p, "idle") /\ Make({"root"})
    /\ Goto(p, IF Present("root") THEN "check" ELSE "sync_parent")
    /\ Same /\ UNCHANGED <<disk, writer>>

SyncParent(p) ==
    /\ At(p, "sync_parent") /\ Sync({"parent"}) /\ Goto(p, "check")
    /\ Same /\ UNCHANGED <<live, writer>>

\* Any failure to stat FORMAT counts as its absence.
CheckFormat(p) ==
    /\ At(p, "check")
    /\ \/ Present("FORMAT") /\ Return(p, "exists") /\ UNCHANGED faults
       \/ ~Present("FORMAT") /\ Goto(p, "mark") /\ UNCHANGED <<live, disk, writer, faults>>
       \/ Present("FORMAT") /\ Fault /\ Goto(p, "mark") /\ UNCHANGED <<live, disk, writer>>
    /\ UNCHANGED <<open, ids, clock, crashes>>

Marked(p) == init' = [init EXCEPT ![p].pc = "control", ![p].armed = TRUE]

\* Variant: a marker left by a dead initializer ends the call.
GiveWay(p) ==
    /\ At(p, "mark")
    /\ \/ ~Present(".initializing") /\ Make({".initializing"}) /\ Marked(p) /\ UNCHANGED <<disk, writer>>
       \/ Present(".initializing") /\ Return(p, "contended")
    /\ Same

\* A marker that exists is taken for stale, removed and made again, once.
ClaimMarker(p) ==
    /\ \/ /\ At(p, "mark") /\ ~Present(".initializing") /\ Make({".initializing"}) /\ Marked(p)
          /\ UNCHANGED <<disk, writer>>
       \/ At(p, "mark") /\ Present(".initializing") /\ Goto(p, "unmark") /\ UNCHANGED <<live, disk, writer>>
       \/ /\ At(p, "unmark") /\ Present(".initializing") /\ Goto(p, "remark")
          /\ live' = [live EXCEPT ![".initializing"] = None] /\ UNCHANGED <<disk, writer>>
       \/ At(p, "unmark") /\ ~Present(".initializing") /\ Return(p, "failed")
       \/ /\ At(p, "remark") /\ ~Present(".initializing") /\ Make({".initializing"}) /\ Marked(p)
          /\ UNCHANGED <<disk, writer>>
       \/ At(p, "remark") /\ Present(".initializing") /\ Return(p, "contended")
    /\ Same

CreateControl(p) ==
    /\ At(p, "control") /\ Make({"control", "maintenance.lock"}) /\ Goto(p, "lock")
    /\ Same /\ UNCHANGED <<disk, writer>>

try_ofd_write_lock(p) ==
    /\ At(p, "lock")
    /\ IF writer = None /\ Readers = {}
       THEN writer' = p /\ Goto(p, "identity") /\ UNCHANGED <<live, disk>>
       ELSE Return(p, "busy")
    /\ Same

DrawIdentity(p) ==
    /\ At(p, "identity") /\ ids < MaxIds /\ ids' = ids + 1
    /\ init' = [init EXCEPT ![p].pc = "dirs", ![p].id = [queue |-> ids + 1, shards |-> Shards[p], created |-> clock]]
    /\ UNCHANGED <<live, disk, writer, open, clock, faults, crashes>>

CreateStateDirs(p) ==
    /\ \/ At(p, "dirs") /\ Make({"control", "state"}) /\ Goto(p, "sync_dirs") /\ UNCHANGED disk
       \/ At(p, "sync_dirs") /\ Sync({"root"}) /\ Goto(p, "shards") /\ UNCHANGED live
    /\ Same /\ UNCHANGED writer

\* Variant: the shards are made and not synced.
CreateShardsUnsynced(p) ==
    /\ At(p, "shards") /\ Make(ready_shards(Shards[p])) /\ Goto(p, "locks")
    /\ Same /\ UNCHANGED <<disk, writer>>

CreateShards(p) ==
    /\ \/ At(p, "shards") /\ Make(ready_shards(Shards[p])) /\ Goto(p, "sync_shards") /\ UNCHANGED disk
       \/ At(p, "sync_shards") /\ Sync({"state", "root"}) /\ Goto(p, "locks") /\ UNCHANGED live
    /\ Same /\ UNCHANGED writer

CreateLocks(p) ==
    /\ \/ At(p, "locks") /\ Make({"maintenance.lock", "locks"}) /\ Goto(p, "sync_locks") /\ UNCHANGED disk
       \/ At(p, "sync_locks") /\ Sync({"control", "root"}) /\ Goto(p, "watermark") /\ UNCHANGED live
    /\ Same /\ UNCHANGED writer

\* The first watermark replaces whatever is there.
WriteWatermark(p) ==
    /\ \/ /\ At(p, "watermark") /\ live' = [live EXCEPT !["wall-watermark"] = init[p].id.created]
          /\ Goto(p, "sync_watermark") /\ UNCHANGED disk
       \/ At(p, "sync_watermark") /\ Sync({"control"}) /\ Goto(p, "publish") /\ UNCHANGED live
    /\ Same /\ UNCHANGED writer

\* Variant: the last initializer wins.
PublishReplacing(p) ==
    /\ \/ /\ At(p, "publish") /\ live' = [live EXCEPT !["FORMAT"] = init[p].id]
          /\ Goto(p, "sync_format") /\ UNCHANGED <<disk, writer>>
       \/ At(p, "sync_format") /\ Sync({"root"}) /\ Goto(p, "commit") /\ UNCHANGED <<live, writer>>
    /\ Same

\* Variant: success is reported before the root directory is synced.
PublishUnsynced(p) ==
    /\ \/ /\ At(p, "publish") /\ ~Present("FORMAT") /\ live' = [live EXCEPT !["FORMAT"] = init[p].id]
          /\ Goto(p, "commit") /\ UNCHANGED <<disk, writer>>
       \/ At(p, "publish") /\ Present("FORMAT") /\ Return(p, "exists")
    /\ Same

PublishFormat(p) ==
    /\ \/ /\ At(p, "publish") /\ ~Present("FORMAT") /\ live' = [live EXCEPT !["FORMAT"] = init[p].id]
          /\ Goto(p, "sync_format") /\ UNCHANGED <<disk, writer>>
       \/ At(p, "publish") /\ Present("FORMAT") /\ Return(p, "exists")
       \/ At(p, "sync_format") /\ Sync({"root"}) /\ Goto(p, "commit") /\ UNCHANGED <<live, writer>>
    /\ Same

\* The marker goes; neither that nor the last sync has to succeed.
Commit(p) ==
    /\ At(p, "commit")
    /\ init' = [init EXCEPT ![p] = [NoCall EXCEPT !.pc = "done", !.id = init[p].id, !.ok = TRUE]]
    /\ \/ live' = [live EXCEPT ![".initializing"] = None] /\ UNCHANGED faults
       \/ Fault /\ UNCHANGED live
    /\ \/ disk' = [e \in Entries |-> IF Parent(e) = "root" THEN live'[e] ELSE disk[e]]
       \/ UNCHANGED disk
    /\ writer' = None /\ UNCHANGED <<open, ids, clock, crashes>>

\* A system call fails.  After the rename of FORMAT the outcome is unknown,
\* and the marker is removed all the same.
InitFails(p) ==
    /\ init[p].pc \notin {"idle", "done", "commit"} /\ Fault
    /\ Return(p, IF At(p, "sync_format") THEN "unknown" ELSE "failed")
    /\ UNCHANGED <<open, ids, clock, crashes>>

Init_(p) == \/ CreateRoot(p) \/ SyncParent(p) \/ CheckFormat(p) \/ ClaimMarker(p) \/ CreateControl(p)
            \/ try_ofd_write_lock(p) \/ DrawIdentity(p) \/ CreateStateDirs(p) \/ CreateShards(p)
            \/ CreateLocks(p) \/ WriteWatermark(p) \/ PublishFormat(p) \/ Commit(p)

-----------------------------------------------------------------------------
(***************************************************************************)
(* open, and what an open queue does that init must respect                *)
(***************************************************************************)

NotOpen == [pc |-> "closed", format |-> None]
SameO == UNCHANGED <<live, disk, init, writer, ids, clock, crashes>>

ReadFormat(o) ==
    /\ open[o].pc = "closed"
    /\ \/ /\ Present("FORMAT") /\ UNCHANGED faults
          /\ open' = [open EXCEPT ![o] = [pc |-> "format", format |-> live["FORMAT"]]]
       \/ ~Present("FORMAT") /\ open' = [open EXCEPT ![o] = NotOpen] /\ UNCHANGED faults
    /\ SameO

CheckStateDirs(o) ==
    /\ open[o].pc = "format"
    /\ open' = [open EXCEPT ![o] = IF Present("control") /\ Present("state") THEN [@ EXCEPT !.pc = "lock"]
                                   ELSE NotOpen]
    /\ UNCHANGED faults /\ SameO

try_ofd_read_lock(o) ==
    /\ open[o].pc = "lock"
    /\ \/ /\ UNCHANGED faults
          /\ open' = [open EXCEPT ![o] = IF ~Present("maintenance.lock") \/ writer # None THEN NotOpen
                                         ELSE [@ EXCEPT !.pc = "opened"]]
       \/ Fault /\ open' = [open EXCEPT ![o] = NotOpen]
    /\ SameO

\* The watermark only rises under its own lock, and durably.
AdvanceWatermark(o) ==
    /\ open[o].pc = "opened" /\ clock > live["wall-watermark"]
    /\ live' = [live EXCEPT !["wall-watermark"] = clock]
    /\ disk' = [disk EXCEPT !["wall-watermark"] = clock]
    /\ UNCHANGED <<init, open, writer, ids, clock, faults, crashes>>

Close(o) ==
    /\ open[o].pc = "opened" /\ open' = [open EXCEPT ![o] = NotOpen]
    /\ UNCHANGED faults /\ SameO

-----------------------------------------------------------------------------
\* Realtime may be set back as well as move on.
ClockChanges ==
    /\ \E t \in 0..MaxClock : t # clock /\ clock' = t
    /\ \E o \in Openers : open[o].pc = "opened"
    /\ UNCHANGED <<live, disk, init, open, writer, ids, faults, crashes>>

\* An initializer is killed: its marker stays, its lock does not.
Killed(p) ==
    /\ init[p].pc \notin {"idle", "done"} /\ crashes < MaxCrashes /\ crashes' = crashes + 1
    /\ init' = [init EXCEPT ![p] = NoCall]
    /\ writer' = IF writer = p THEN None ELSE writer
    /\ UNCHANGED <<live, disk, open, ids, clock, faults>>

\* Entries that were not synced may or may not be there afterwards.
PowerFails ==
    /\ crashes < MaxCrashes /\ crashes' = crashes + 1
    /\ \E kept \in SUBSET {e \in Entries : live[e] # disk[e]} :
        live' = Reachable([e \in Entries |-> IF e \in kept THEN live[e] ELSE disk[e]])
    /\ disk' = live'
    /\ init' = [p \in Inits |-> IF init[p].pc = "done" THEN init[p] ELSE NoCall]
    /\ open' = [o \in Openers |-> NotOpen] /\ writer' = None
    /\ UNCHANGED <<ids, clock, faults>>

Init ==
    /\ live = Absent /\ disk = Absent
    /\ init = [p \in Inits |-> NoCall] /\ open = [o \in Openers |-> NotOpen]
    /\ writer = None /\ ids = 0 /\ clock = 0 /\ faults = 0 /\ crashes = 0

Next ==
    \/ \E p \in Inits : Init_(p) \/ InitFails(p) \/ Killed(p)
    \/ \E o \in Openers : ReadFormat(o) \/ CheckStateDirs(o) \/ try_ofd_read_lock(o) \/ AdvanceWatermark(o) \/ Close(o)
    \/ ClockChanges \/ PowerFails

\* A call that was made goes on until it returns, and a failed one is retried.
Spec == Init /\ [][Next]_vars /\ \A p \in Inits : WF_vars(Init_(p))

-----------------------------------------------------------------------------
(***************************************************************************)
(* Properties                                                              *)
(***************************************************************************)

InitPcs == {"idle", "sync_parent", "check", "mark", "unmark", "remark", "control", "lock", "done"}
LockedPcs == {"identity", "dirs", "sync_dirs", "shards", "sync_shards", "locks", "sync_locks",
              "watermark", "sync_watermark", "publish", "sync_format", "commit"}

\* Types, and the lock discipline of src/crates/steadq-core/src/queue/mod.rs:
\* the call that holds the maintenance lock exclusively is exactly the one
\* between taking it and returning, and no handle is open meanwhile.
TypeOK ==
    /\ DOMAIN live = Entries /\ DOMAIN disk = Entries
    /\ \A p \in Inits : init[p].pc \in InitPcs \cup LockedPcs
    /\ \A p \in Inits : (writer = p) <=> (init[p].pc \in LockedPcs)
    /\ writer # None => Readers = {}

\* What init_synced_directories assumes: as soon as FORMAT can be seen, all
\* it stands for (directories, every shard of its count, lock files and
\* watermark) is there and durable, whatever other initializers do and
\* whenever the power fails.
FormatImpliesComplete ==
    Present("FORMAT") =>
        \A e \in {"control", "state", "maintenance.lock", "locks", "wall-watermark"}
                  \cup ready_shards(live["FORMAT"].shards) : Present(e) /\ disk[e] # None

\* A queue that init returned successfully is never replaced by another
\* initializer nor lost in a power failure, if the entry of the root
\* directory in its parent is durable.
OkSurvives ==
    [][\A p \in Inits : /\ init[p].ok /\ live["FORMAT"] = init[p].id /\ disk["root"] # None
                       => live'["FORMAT"] = init[p].id]_vars

\* A handle works with the FORMAT that the root names, although open reads
\* FORMAT before it takes the maintenance lock, and no initializer holds the lock
\* meanwhile.
HandleMatchesRoot == TypeOK /\ \A o \in Readers : open[o].format = live["FORMAT"]

\* An open handle never sees the wall watermark go back, although init
\* replaces that file without asking what is in it.
WatermarkKept == [][Readers # {} /\ Readers' # {} => live'["wall-watermark"] >= live["wall-watermark"]]_vars

\* An established queue is kept: OkSurvives and WatermarkKept.
EstablishedKept == OkSurvives /\ WatermarkKept

\* Whatever interrupted initializers left behind, and however the others get
\* in each other's way, retrying init makes a queue.
InitSucceeds == <>(Present("FORMAT"))

=============================================================================
