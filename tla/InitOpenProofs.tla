--------------------------- MODULE InitOpenProofs ---------------------------
(***************************************************************************)
(* The safety of init and open for any number of initializers and openers, *)
(* any number of failures, deaths and power losses.                        *)
(***************************************************************************)
EXTENDS InitOpen, TLAPS

Pcs == InitPcs \cup LockedPcs
Calls == [pc : Pcs, id : Identities \cup {None}, armed : BOOLEAN, ok : BOOLEAN]
Handles == [pc : {"closed", "format", "lock", "opened"}, format : Identities \cup {None}]

\* Types of everything the argument looks at.
TypeInv ==
    /\ live = [e \in Entries |-> live[e]] /\ disk = [e \in Entries |-> disk[e]]
    /\ \A t \in {live["wall-watermark"], disk["wall-watermark"]} : t \in Nat \cup {None}
    /\ \A f \in {live["FORMAT"], disk["FORMAT"]} : f \in Identities \cup {None}
    /\ init \in [Inits -> Calls] /\ open \in [Openers -> Handles]
    /\ writer \in Inits \cup {None} /\ ids \in Nat /\ clock \in 0..MaxClock

\* The maintenance lock: held exclusively by the one call under it, and never
\* together with a handle.
LockInv ==
    /\ \A p \in Inits : (writer = p) <=> (init[p].pc \in LockedPcs)
    /\ writer # None => Readers = {}

\* Everything but the marker, which alone is ever removed.
Lasting == Entries \ {".initializing"}
Live(es) == \A e \in es : live[e] # None
Durable(es) == \A e \in es : disk[e] # None

\* Nothing is durable that is not there, and no other FORMAT is durable.
DiskInv ==
    /\ \A e \in Lasting : disk[e] # None => live[e] # None
    /\ disk["FORMAT"] \in {None, live["FORMAT"]}

\* How far a call under the lock has got.
AfterShards == {"locks", "sync_locks", "watermark", "sync_watermark", "publish"}
AfterLocks == {"watermark", "sync_watermark", "publish"}

Progress(p) ==
    /\ init[p].pc = "sync_dirs" => Live({"control", "state"})
    /\ init[p].pc \in {"shards", "sync_shards"} \cup AfterShards => Durable({"control", "state"})
    /\ init[p].pc = "sync_shards" => Live(ready_shards(Shards[p]))
    /\ init[p].pc \in AfterShards => Durable(ready_shards(Shards[p]))
    /\ init[p].pc = "sync_locks" => Live({"maintenance.lock", "locks"})
    /\ init[p].pc \in AfterLocks => Durable({"maintenance.lock", "locks"})
    /\ init[p].pc = "sync_watermark" => Live({"wall-watermark"})
    /\ init[p].pc = "publish" => Durable({"wall-watermark"})

\* Identities are drawn once, and a call under the lock has its own.
Identified(p) ==
    init[p].pc \in LockedPcs \ {"identity"} =>
        init[p].id # None /\ init[p].id.shards = Shards[p]

IdInv ==
    /\ \A p \in Inits : Identified(p)
    /\ \A p \in Inits : init[p].id # None => init[p].id.queue <= ids
    /\ \A p, q \in Inits : p # q /\ init[p].id # None /\ init[q].id # None =>
          init[p].id # init[q].id

\* A FORMAT that was reported is durable.
Reported(p) ==
    /\ init[p].pc \in {"sync_format", "commit"} => live["FORMAT"] = init[p].id
    /\ init[p].pc = "commit" => disk["FORMAT"] = init[p].id
    /\ init[p].ok => init[p].pc = "done" /\ init[p].id # None
    /\ init[p].ok /\ live["FORMAT"] = init[p].id => disk["FORMAT"] = init[p].id

OkInv == \A p \in Inits : Reported(p)

\* A handle under way has read the FORMAT that is there.
HandleInv ==
    \A o \in Openers : open[o].pc # "closed" =>
        open[o].format # None /\ open[o].format = live["FORMAT"]

IInv ==
    /\ TypeInv /\ LockInv /\ DiskInv /\ (\A p \in Inits : Progress(p))
    /\ IdInv /\ OkInv /\ HandleInv /\ FormatImpliesComplete

-----------------------------------------------------------------------------
\* Shards have names of their own.
LEMMA ShardNames == AllShards \subseteq {"0000", "0001", "0002", "0003"}
<1>1. \A i \in 1..4 : <<"0000", "0001", "0002", "0003">>[i] \in {"0000", "0001", "0002", "0003"}
  OBVIOUS
<1>2. \A n \in 1..4 : 1..n \subseteq 1..4
  OBVIOUS
<1>3. \A n \in 1..4 : ready_shards(n) \subseteq {"0000", "0001", "0002", "0003"}
  BY <1>1, <1>2 DEF ready_shards
<1> QED
  BY <1>3, InitOpenConstants DEF AllShards

\* Where each name is recorded.
LEMMA Parents ==
    /\ Parent("FORMAT") = "root" /\ Parent("control") = "root" /\ Parent("state") = "root"
    /\ Parent("maintenance.lock") = "control" /\ Parent("locks") = "control"
    /\ Parent("wall-watermark") = "control" /\ Parent("root") = "parent"
    /\ \A e \in AllShards : Parent(e) = "state"
    /\ Parent(".initializing") = "root"
BY ShardNames DEF Parent

\* The names the argument is about.
LEMMA Named ==
    /\ {"root", "FORMAT", "control", "state", "maintenance.lock", "locks", "wall-watermark"} \subseteq Lasting
    /\ AllShards \subseteq Lasting
    /\ \A p \in Inits : ready_shards(Shards[p]) \subseteq AllShards
    /\ \A i \in Identities : ready_shards(i.shards) \subseteq AllShards
    /\ Lasting \subseteq Entries
BY ShardNames DEF Lasting, Entries, AllShards, Identities

-----------------------------------------------------------------------------
(* Steps that only add names or make them durable.                          *)

Extends ==
    /\ live' = [e \in Entries |-> live'[e]] /\ disk' = [e \in Entries |-> disk'[e]]
    /\ \A e \in Lasting : /\ live[e] # None => live'[e] # None
                          /\ disk'[e] = disk[e] \/ disk'[e] = live'[e]
    /\ live'["FORMAT"] = live["FORMAT"]
    /\ live'["wall-watermark"] \in Nat \cup {None}

\* What is durable stays durable.
LEMMA DiskGrows ==
    ASSUME IInv, Extends
    PROVE  \A e \in Lasting : disk[e] # None => disk'[e] # None
BY DEF IInv, DiskInv, Extends

LEMMA DiskKept ==
    ASSUME IInv, Extends
    PROVE  /\ DiskInv' /\ disk'["FORMAT"] \in {disk["FORMAT"], live["FORMAT"]}
           /\ disk'["wall-watermark"] \in Nat \cup {None}
<1>1. \A e \in Lasting : disk'[e] # None => live'[e] # None
  BY DEF IInv, DiskInv, Extends
<1>2. disk'["FORMAT"] \in {disk["FORMAT"], live["FORMAT"]}
  BY Named DEF Extends
<1>3. disk'["wall-watermark"] \in Nat \cup {None}
  BY Named DEF IInv, TypeInv, Extends
<1> QED
  BY <1>1, <1>2, <1>3, Named DEF IInv, DiskInv, Extends

LEMMA CompleteKept ==
    ASSUME IInv, Extends
    PROVE  FormatImpliesComplete'
<1> SUFFICES ASSUME live["FORMAT"] # None,
                    NEW e \in {"control", "state", "maintenance.lock", "locks", "wall-watermark"}
                              \cup ready_shards(live["FORMAT"].shards)
             PROVE  live'[e] # None /\ disk'[e] # None
  BY DEF FormatImpliesComplete, Present, Extends
<1>1. live[e] # None /\ disk[e] # None
  BY DEF IInv, FormatImpliesComplete, Present
<1>2. e \in Lasting
  BY Named DEF IInv, TypeInv
<1> QED
  BY <1>1, <1>2, DiskGrows DEF Extends

-----------------------------------------------------------------------------
(* What one call does to itself, when the names are only extended.          *)

\* The other calls have got as far as before.
LEMMA ProgressKept ==
    ASSUME IInv, Extends, NEW q \in Inits, init'[q] = init[q]
    PROVE  Progress(q)'
<1>1. \A e \in Lasting : /\ live[e] # None => live'[e] # None
                         /\ disk[e] # None => disk'[e] # None
  BY DiskGrows DEF Extends
<1>2. Progress(q)
  BY DEF IInv
<1>3. ready_shards(Shards[q]) \subseteq Lasting
  BY Named
<1> QED
  BY <1>1, <1>2, <1>3, Named DEF Progress, Live, Durable

LEMMA ReportedKept ==
    ASSUME IInv, Extends, NEW q \in Inits, init'[q] = init[q]
    PROVE  Reported(q)'
<1>1. Reported(q) /\ disk'["FORMAT"] \in {disk["FORMAT"], live["FORMAT"]}
  BY DiskKept DEF IInv, OkInv
<1> QED
  BY <1>1 DEF Reported, Extends

WriterMoves(p) ==
    \/ writer' = p /\ writer \in {None, p}
    \/ writer' = None /\ writer = p
    \/ writer' = writer /\ writer # p

LEMMA CallFrame ==
    ASSUME IInv, Extends, NEW p \in Inits, NEW c \in Calls, init' = [init EXCEPT ![p] = c],
           open' = open, ids' = ids, clock' = clock,
           WriterMoves(p), writer' # None => Readers = {}, (writer' = p) <=> (c.pc \in LockedPcs),
           Progress(p)', Reported(p)', Identified(p)', c.id \in {None, init[p].id}
    PROVE  IInv'
<1>1. init'[p] = c /\ \A q \in Inits \ {p} : init'[q] = init[q]
  BY DEF IInv, TypeInv
<1>2. TypeInv'
  BY DiskKept DEF IInv, TypeInv, Extends, WriterMoves
<1>3. LockInv'
  <2>1. \A q \in Inits : (writer' = q) <=> (init'[q].pc \in LockedPcs)
    BY <1>1, InitOpenConstants DEF IInv, LockInv, WriterMoves
  <2> QED
    BY <2>1 DEF LockInv, Readers
<1>4. \A q \in Inits : Progress(q)'
  BY <1>1, ProgressKept
<1>5. IdInv'
  <2>1. \A q \in Inits : Identified(q)'
    BY <1>1 DEF IInv, IdInv, Identified
  <2>2. \A q \in Inits : init'[q].id \in {None, init[q].id}
    BY <1>1
  <2> QED
    BY <2>1, <2>2 DEF IInv, IdInv
<1>6. OkInv'
  BY <1>1, ReportedKept DEF OkInv
<1>7. HandleInv'
  BY DEF IInv, HandleInv, Extends
<1> QED
  BY <1>2, <1>3, <1>4, <1>5, <1>6, <1>7, DiskKept, CompleteKept DEF IInv

-----------------------------------------------------------------------------
(* The steps that make names, sync directories and end calls.               *)

LEMMA MakeExtends ==
    ASSUME IInv, NEW es, Make(es), disk' = disk, "FORMAT" \notin es, "wall-watermark" \notin es
    PROVE  /\ Extends
           /\ \A e \in es \cap Entries : live'[e] # None
<1>1. live' = [e \in Entries |-> live'[e]] /\ disk' = [e \in Entries |-> disk'[e]]
  BY DEF IInv, TypeInv, Make
<1>2. \A e \in Entries : live'[e] = IF e \in es /\ ~Present(e) THEN TRUE ELSE live[e]
  BY DEF Make
<1>3. TRUE # None
  BY InitOpenConstants
<1>4. live'["FORMAT"] = live["FORMAT"] /\ live'["wall-watermark"] = live["wall-watermark"]
  BY <1>2, Named
<1> QED
  BY <1>1, <1>2, <1>3, <1>4, Named DEF Extends, Present, IInv, TypeInv

LEMMA SyncExtends ==
    ASSUME IInv, NEW ds, Sync(ds), live' = live
    PROVE  /\ Extends
           /\ \A e \in Entries : Parent(e) \in ds => disk'[e] = live[e]
<1>1. live' = [e \in Entries |-> live'[e]] /\ disk' = [e \in Entries |-> disk'[e]]
  BY DEF IInv, TypeInv, Sync
<1>2. \A e \in Entries : disk'[e] = IF Parent(e) \in ds THEN live[e] ELSE disk[e]
  BY DEF Sync
<1> QED
  BY <1>1, <1>2, Named DEF Extends, IInv, TypeInv

\* Removing the marker, or doing nothing, also only extends the rest.
LEMMA UnmarkExtends ==
    ASSUME IInv, disk' = disk,
           live' = live \/ live' = [live EXCEPT ![".initializing"] = None]
    PROVE  Extends
<1>1. live' = [e \in Entries |-> live'[e]] /\ disk' = [e \in Entries |-> disk'[e]]
  BY DEF IInv, TypeInv
<1>2. \A e \in Lasting : live'[e] = live[e]
  BY Named DEF IInv, TypeInv, Lasting
<1> QED
  BY <1>1, <1>2, Named DEF Extends, IInv, TypeInv

LEMMA GotoFrame ==
    ASSUME IInv, Extends, NEW p \in Inits, NEW pc \in Pcs, Goto(p, pc),
           open' = open, ids' = ids, clock' = clock, writer' = writer,
           pc \in LockedPcs <=> init[p].pc \in LockedPcs,
           init[p].pc \notin {"identity", "done"}, pc # "identity",
           Progress(p)', pc \in {"sync_format", "commit"} => Reported(p)'
    PROVE  IInv'
<1> DEFINE c == [init[p] EXCEPT !.pc = pc]
<1>1. init[p] \in Calls /\ init' = [init EXCEPT ![p] = c] /\ c \in Calls
  BY DEF IInv, TypeInv, Goto, Calls
<1>2. c.pc = pc /\ c.id = init[p].id /\ c.ok = init[p].ok
  BY <1>1 DEF Calls
<1>3. init'[p] = c
  BY <1>1 DEF IInv, TypeInv
<1>4. WriterMoves(p) /\ ((writer' = p) <=> (c.pc \in LockedPcs)) /\ (writer' # None => Readers = {})
  BY <1>2 DEF WriterMoves, IInv, LockInv
<1>5. Identified(p)'
  BY <1>2, <1>3 DEF Identified, IInv, IdInv
<1>6. ~init[p].ok
  BY DEF IInv, OkInv, Reported
<1>7. Reported(p)'
  BY <1>2, <1>3, <1>6 DEF Reported
<1> HIDE DEF c
<1> QED
  BY <1>1, <1>2, <1>4, <1>5, <1>7, CallFrame

\* A call that ends without a queue of its own.
LEMMA EndFrame ==
    ASSUME IInv, Extends, NEW p \in Inits, NEW c \in {NoCall, [NoCall EXCEPT !.pc = "done"]},
           init' = [init EXCEPT ![p] = c], open' = open, ids' = ids, clock' = clock,
           writer' = IF writer = p THEN None ELSE writer
    PROVE  IInv'
<1>1. c \in Calls /\ c.pc \in {"idle", "done"} /\ c.id = None /\ c.ok = FALSE
  <2>1. CASE c = NoCall
    BY <2>1 DEF NoCall, Calls, Pcs, InitPcs
  <2>2. CASE c = [NoCall EXCEPT !.pc = "done"]
    BY <2>2 DEF NoCall, Calls, Pcs, InitPcs
  <2> QED
    BY <2>1, <2>2
<1>2. init'[p] = c
  BY DEF IInv, TypeInv
<1>3. WriterMoves(p) /\ ((writer' = p) <=> (c.pc \in LockedPcs)) /\ (writer' # None => Readers = {})
  BY <1>1, InitOpenConstants DEF WriterMoves, IInv, LockInv, LockedPcs
<1>4. Progress(p)' /\ Reported(p)' /\ Identified(p)'
  BY <1>1, <1>2 DEF Progress, Reported, Identified, LockedPcs, AfterShards, AfterLocks
<1> QED
  BY <1>1, <1>3, <1>4, CallFrame

LEMMA ReturnFrame ==
    ASSUME IInv, NEW p \in Inits, NEW a, Return(p, a), open' = open, ids' = ids, clock' = clock
    PROVE  IInv'
<1>1. Extends
  BY UnmarkExtends DEF Return
<1>2. \E c \in {NoCall, [NoCall EXCEPT !.pc = "done"]} : init' = [init EXCEPT ![p] = c]
  BY DEF Return
<1>3. writer' = IF writer = p THEN None ELSE writer
  BY DEF Return
<1> QED
  BY <1>1, <1>2, <1>3, EndFrame

-----------------------------------------------------------------------------
(* The steps of a call.                                                     *)

Others == open' = open /\ ids' = ids /\ clock' = clock

\* Up to the lock, a call has nothing to lose.
LEMMA OutsideFrame ==
    ASSUME IInv, Extends, NEW p \in Inits, Others, writer' = writer,
           NEW pc \in InitPcs, Goto(p, pc), init[p].pc \notin LockedPcs \cup {"done"}
    PROVE  IInv'
<1>1. pc \notin LockedPcs /\ pc \in Pcs /\ pc \notin {"identity", "sync_format", "commit"}
  BY DEF InitPcs, LockedPcs, Pcs
<1>2. init'[p].pc = pc
  BY DEF Goto, IInv, TypeInv, Calls
<1>3. Progress(p)'
  BY <1>1, <1>2 DEF Progress, AfterShards, AfterLocks, LockedPcs
<1>4. init[p].pc \notin {"identity", "done"}
  BY DEF LockedPcs
<1> QED
  BY <1>1, <1>3, <1>4, GotoFrame DEF Others

LEMMA MarkedFrame ==
    ASSUME IInv, NEW p \in Inits, Others, writer' = writer, disk' = disk,
           Make({".initializing"}), Marked(p), init[p].pc \in {"mark", "remark"}
    PROVE  IInv'
<1> DEFINE c == [init[p] EXCEPT !.pc = "control", !.armed = TRUE]
<1>1. init[p] \in Calls /\ init' = [init EXCEPT ![p] = c] /\ c \in Calls
  BY DEF IInv, TypeInv, Marked, Calls, Pcs, InitPcs
<1>2. c.pc = "control" /\ c.id = init[p].id /\ c.ok = init[p].ok
  BY <1>1 DEF Calls
<1>3. init'[p] = c
  BY <1>1 DEF IInv, TypeInv
<1>4. Extends
  BY MakeExtends
<1>5. WriterMoves(p) /\ ((writer' = p) <=> (c.pc \in LockedPcs)) /\ (writer' # None => Readers = {})
  BY <1>2 DEF WriterMoves, IInv, LockInv, LockedPcs
<1>6. ~init[p].ok
  BY DEF IInv, OkInv, Reported
<1>7. Progress(p)' /\ Reported(p)' /\ Identified(p)'
  BY <1>2, <1>3, <1>6 DEF Progress, Reported, Identified, LockedPcs, AfterShards, AfterLocks
<1> HIDE DEF c
<1> QED
  BY <1>1, <1>2, <1>4, <1>5, <1>7, CallFrame DEF Others

\* Before the lock.
LEMMA OutsideSteps ==
    ASSUME IInv, NEW p \in Inits,
           CreateRoot(p) \/ SyncParent(p) \/ CheckFormat(p) \/ ClaimMarker(p) \/ CreateControl(p)
    PROVE  IInv'
<1> USE DEF Others, Same, At
<1>1. CASE CreateRoot(p)
  <2>1. Extends
    BY <1>1, MakeExtends DEF CreateRoot
  <2> QED
    BY <1>1, <2>1, OutsideFrame DEF CreateRoot, InitPcs, LockedPcs
<1>2. CASE SyncParent(p)
  <2>1. Extends
    BY <1>2, SyncExtends DEF SyncParent
  <2> QED
    BY <1>2, <2>1, OutsideFrame DEF SyncParent, InitPcs, LockedPcs
<1>3. CASE CheckFormat(p)
  <2>1. CASE Return(p, "exists")
    BY <1>3, <2>1, ReturnFrame DEF CheckFormat
  <2>2. CASE Goto(p, "mark") /\ UNCHANGED <<live, disk, writer>>
    <3>1. Extends
      BY <2>2, UnmarkExtends
    <3> QED
      BY <1>3, <2>2, <3>1, OutsideFrame DEF CheckFormat, InitPcs, LockedPcs
  <2> QED
    BY <1>3, <2>1, <2>2 DEF CheckFormat
<1>4. CASE ClaimMarker(p)
  <2>1. CASE Make({".initializing"}) /\ Marked(p) /\ UNCHANGED <<disk, writer>> /\ init[p].pc \in {"mark", "remark"}
    BY <1>4, <2>1, MarkedFrame DEF ClaimMarker
  <2>2. CASE Return(p, "failed") \/ Return(p, "contended")
    BY <1>4, <2>2, ReturnFrame DEF ClaimMarker
  <2>3. CASE init[p].pc = "mark" /\ Goto(p, "unmark") /\ UNCHANGED <<live, disk, writer>>
    <3>1. Extends
      BY <2>3, UnmarkExtends
    <3> QED
      BY <1>4, <2>3, <3>1, OutsideFrame DEF ClaimMarker, InitPcs, LockedPcs
  <2>4. CASE /\ init[p].pc = "unmark" /\ Goto(p, "remark")
             /\ live' = [live EXCEPT ![".initializing"] = None] /\ UNCHANGED <<disk, writer>>
    <3>1. Extends
      BY <2>4, UnmarkExtends
    <3> QED
      BY <1>4, <2>4, <3>1, OutsideFrame DEF ClaimMarker, InitPcs, LockedPcs
  <2> QED
    BY <1>4, <2>1, <2>2, <2>3, <2>4 DEF ClaimMarker
<1>5. CASE CreateControl(p)
  <2>1. Extends
    BY <1>5, MakeExtends DEF CreateControl
  <2> QED
    BY <1>5, <2>1, OutsideFrame DEF CreateControl, InitPcs, LockedPcs
<1> QED
  BY <1>1, <1>2, <1>3, <1>4, <1>5

\* Taking the lock, which no handle and no other call has.
LEMMA LockStep ==
    ASSUME IInv, NEW p \in Inits, try_ofd_write_lock(p)
    PROVE  IInv'
<1> USE DEF Others, Same, At
<1>1. CASE writer = None /\ Readers = {}
  <2>1. writer' = p /\ Goto(p, "identity") /\ live' = live /\ disk' = disk /\ Others /\ init[p].pc = "lock"
    BY <1>1 DEF try_ofd_write_lock
  <2> DEFINE c == [init[p] EXCEPT !.pc = "identity"]
  <2>2. init[p] \in Calls /\ init' = [init EXCEPT ![p] = c] /\ c \in Calls
    BY <2>1 DEF IInv, TypeInv, Goto, Calls, Pcs, LockedPcs
  <2>3. c.pc = "identity" /\ c.id = init[p].id /\ c.ok = init[p].ok
    BY <2>2 DEF Calls
  <2>4. init'[p] = c
    BY <2>2 DEF IInv, TypeInv
  <2>5. WriterMoves(p) /\ ((writer' = p) <=> (c.pc \in LockedPcs)) /\ (writer' # None => Readers = {})
    BY <1>1, <2>1, <2>3 DEF WriterMoves, LockedPcs
  <2>6. ~init[p].ok
    BY <2>1 DEF IInv, OkInv, Reported
  <2>7. Progress(p)' /\ Reported(p)' /\ Identified(p)'
    BY <2>3, <2>4, <2>6 DEF Progress, Reported, Identified, LockedPcs, AfterShards, AfterLocks
  <2>8. Extends
    BY <2>1, UnmarkExtends
  <2> HIDE DEF c
  <2> QED
    BY <2>1, <2>2, <2>3, <2>5, <2>7, <2>8, CallFrame
<1>2. CASE ~(writer = None /\ Readers = {})
  BY <1>2, ReturnFrame DEF try_ofd_write_lock
<1> QED
  BY <1>1, <1>2

\* A new identity is one that no call has.
LEMMA DrawStep ==
    ASSUME IInv, NEW p \in Inits, DrawIdentity(p)
    PROVE  IInv'
<1> DEFINE i == [queue |-> ids + 1, shards |-> Shards[p], created |-> clock]
           c == [init[p] EXCEPT !.pc = "dirs", !.id = i]
<1>1. i \in Identities /\ i.queue = ids + 1 /\ i.shards = Shards[p] /\ i # None
  BY InitOpenConstants DEF IInv, TypeInv, Identities
<1> HIDE DEF i
<1>2. init' = [init EXCEPT ![p] = c] /\ init[p] \in Calls /\ c \in Calls
  BY <1>1 DEF IInv, TypeInv, DrawIdentity, Calls, Pcs, LockedPcs, i
<1>3. c.pc = "dirs" /\ c.id = i /\ c.ok = init[p].ok
  BY <1>2 DEF Calls
<1> HIDE DEF c
<1>4. init'[p] = c /\ \A q \in Inits \ {p} : init'[q] = init[q]
  BY <1>2 DEF IInv, TypeInv
<1>5. /\ live' = live /\ disk' = disk /\ writer' = writer /\ open' = open /\ clock' = clock
      /\ ids' = ids + 1 /\ init[p].pc = "identity" /\ ids \in Nat
  BY DEF DrawIdentity, At, IInv, TypeInv
<1>6. Extends
  BY <1>5, UnmarkExtends
<1>7. TypeInv' /\ DiskInv' /\ HandleInv' /\ FormatImpliesComplete'
  <2>1. DiskInv' /\ FormatImpliesComplete'
    BY <1>6, DiskKept, CompleteKept
  <2>2. HandleInv'
    BY <1>5 DEF IInv, HandleInv
  <2>3. TypeInv'
    BY <1>2, <1>5 DEF IInv, TypeInv
  <2> QED
    BY <2>1, <2>2, <2>3
<1>8. LockInv'
  <2>1. \A q \in Inits : (writer' = q) <=> (init'[q].pc \in LockedPcs)
    BY <1>3, <1>4, <1>5 DEF IInv, LockInv, LockedPcs
  <2> QED
    BY <1>5, <2>1 DEF IInv, LockInv, Readers
<1>9. \A q \in Inits : Progress(q)'
  <2>1. Progress(p)'
    BY <1>3, <1>4 DEF Progress, AfterShards, AfterLocks
  <2> QED
    BY <2>1, <1>4, <1>6, ProgressKept
<1>10. OkInv'
  <2>1. Reported(p)'
    BY <1>3, <1>4, <1>5 DEF IInv, OkInv, Reported
  <2> QED
    BY <2>1, <1>4, <1>6, ReportedKept DEF OkInv
<1>11. IdInv'
  <2>1. \A q \in Inits : Identified(q)'
    BY <1>1, <1>3, <1>4 DEF IInv, IdInv, Identified
  <2>2. \A q \in Inits \ {p} : init[q].id # None => init[q].id \in Identities /\ init[q].id.queue \in Nat /\ init[q].id.queue <= ids
    BY DEF IInv, TypeInv, Calls, IdInv, Identities
  <2>3. \A q \in Inits : init'[q].id # None => init'[q].id.queue <= ids'
    BY <1>1, <1>3, <1>4, <1>5, <2>2
  <2>4. \A q \in Inits \ {p} : init[q].id # None => init[q].id # i
    BY <1>1, <1>5, <2>2
  <2>5. \A q, r \in Inits : q # r /\ init'[q].id # None /\ init'[r].id # None => init'[q].id # init'[r].id
    BY <1>3, <1>4, <2>4 DEF IInv, IdInv
  <2> QED
    BY <2>1, <2>3, <2>5 DEF IdInv
<1> QED
  BY <1>7, <1>8, <1>9, <1>10, <1>11 DEF IInv

\* Under the lock, each step makes what the next one makes durable.
LEMMA LockedFrame ==
    ASSUME IInv, Extends, NEW p \in Inits, Others, writer' = writer,
           NEW pc \in LockedPcs \ {"identity", "sync_format", "commit"}, Goto(p, pc),
           init[p].pc \in LockedPcs \ {"identity"}, init'[p].pc = pc => Progress(p)'
    PROVE  IInv'
<1>1. pc \in Pcs /\ init[p].pc \notin {"identity", "done"} /\ (pc \in LockedPcs <=> init[p].pc \in LockedPcs)
  BY DEF Pcs, LockedPcs
<1>2. init'[p].pc = pc
  BY DEF Goto, IInv, TypeInv, Calls
<1> QED
  BY <1>1, <1>2, GotoFrame DEF Others

LEMMA DirectorySteps ==
    ASSUME IInv, NEW p \in Inits, CreateStateDirs(p) \/ CreateShards(p)
    PROVE  IInv'
<1> USE DEF Others, Same, At
<1>0. Progress(p) /\ ready_shards(Shards[p]) \subseteq AllShards /\ AllShards \subseteq Entries
  BY Named DEF IInv
<1>1. CASE CreateStateDirs(p) /\ init[p].pc = "dirs"
  <2>1. Extends /\ Live({"control", "state"})'
    BY <1>1, MakeExtends, Named DEF CreateStateDirs, Live
  <2>2. init'[p].pc = "sync_dirs" => Progress(p)'
    BY <2>1 DEF Progress, AfterShards, AfterLocks
  <2> QED
    BY <1>1, <2>1, <2>2, LockedFrame DEF CreateStateDirs, LockedPcs
<1>2. CASE CreateStateDirs(p) /\ init[p].pc = "sync_dirs"
  <2>1. Extends /\ Durable({"control", "state"})'
    BY <1>0, <1>2, SyncExtends, Named, Parents DEF CreateStateDirs, Progress, Live, Durable
  <2>2. init'[p].pc = "shards" => Progress(p)'
    BY <2>1 DEF Progress, AfterShards, AfterLocks
  <2> QED
    BY <1>2, <2>1, <2>2, LockedFrame DEF CreateStateDirs, LockedPcs
<1>3. CASE CreateShards(p) /\ init[p].pc = "shards"
  <2>1. Extends /\ Live(ready_shards(Shards[p]))'
    <3>1. "FORMAT" \notin ready_shards(Shards[p]) /\ "wall-watermark" \notin ready_shards(Shards[p])
      BY <1>0, ShardNames
    <3> QED
      BY <1>0, <1>3, <3>1, MakeExtends DEF CreateShards, Live
  <2>2. Durable({"control", "state"})'
    BY <1>0, <1>3 DEF CreateShards, Progress, Durable
  <2>3. init'[p].pc = "sync_shards" => Progress(p)'
    BY <2>1, <2>2 DEF Progress, AfterShards, AfterLocks
  <2> QED
    BY <1>3, <2>1, <2>3, LockedFrame DEF CreateShards, LockedPcs
<1>4. CASE CreateShards(p) /\ init[p].pc = "sync_shards"
  <2>1. Extends /\ Durable(ready_shards(Shards[p]))'
    BY <1>0, <1>4, SyncExtends, Named, Parents DEF CreateShards, Progress, Live, Durable
  <2>2. Durable({"control", "state"})'
    BY <1>0, <1>4, <2>1, DiskGrows, Named DEF Progress, Durable
  <2>3. init'[p].pc = "locks" => Progress(p)'
    BY <2>1, <2>2 DEF Progress, AfterShards, AfterLocks
  <2> QED
    BY <1>4, <2>1, <2>3, LockedFrame DEF CreateShards, LockedPcs
<1> QED
  BY <1>1, <1>2, <1>3, <1>4 DEF CreateStateDirs, CreateShards

LEMMA FileSteps ==
    ASSUME IInv, NEW p \in Inits, CreateLocks(p) \/ WriteWatermark(p)
    PROVE  IInv'
<1> USE DEF Others, Same, At
<1>0. Progress(p) /\ ready_shards(Shards[p]) \subseteq Lasting
  BY Named DEF IInv
<1> DEFINE Before == {"control", "state"} \cup ready_shards(Shards[p])
<1>1. init[p].pc \in AfterShards /\ Extends => Durable(Before)'
  BY <1>0, DiskGrows, Named DEF Progress, Durable, AfterShards, AfterLocks
<1>2. CASE CreateLocks(p) /\ init[p].pc = "locks"
  <2>1. Extends /\ Live({"maintenance.lock", "locks"})'
    BY <1>2, MakeExtends, Named DEF CreateLocks, Live
  <2>2. init'[p].pc = "sync_locks" => Progress(p)'
    BY <1>1, <1>2, <2>1 DEF Progress, Durable, AfterShards, AfterLocks
  <2> QED
    BY <1>2, <2>1, <2>2, LockedFrame DEF CreateLocks, LockedPcs
<1>3. CASE CreateLocks(p) /\ init[p].pc = "sync_locks"
  <2>1. Extends /\ Durable({"maintenance.lock", "locks"})'
    BY <1>0, <1>3, SyncExtends, Named, Parents DEF CreateLocks, Progress, Live, Durable
  <2>2. init'[p].pc = "watermark" => Progress(p)'
    BY <1>1, <1>3, <2>1 DEF Progress, Durable, AfterShards, AfterLocks
  <2> QED
    BY <1>3, <2>1, <2>2, LockedFrame DEF CreateLocks, LockedPcs
<1>4. init[p].pc \in AfterLocks /\ Extends => Durable({"maintenance.lock", "locks"})'
  BY <1>0, DiskGrows, Named DEF Progress, Durable, AfterLocks
<1>5. CASE WriteWatermark(p) /\ init[p].pc = "watermark"
  <2>1. init[p].id.created \in Nat /\ init[p].id.created # None
    BY <1>5, InitOpenConstants DEF IInv, TypeInv, IdInv, Identified, LockedPcs, Calls, Identities
  <2>2. live' = [live EXCEPT !["wall-watermark"] = init[p].id.created] /\ disk' = disk
    BY <1>5 DEF WriteWatermark
  <2>3. live' = [e \in Entries |-> live'[e]] /\ disk' = [e \in Entries |-> disk'[e]]
    BY <2>2 DEF IInv, TypeInv
  <2>4. /\ live'["wall-watermark"] = init[p].id.created
        /\ \A e \in Entries \ {"wall-watermark"} : live'[e] = live[e]
    BY <2>2, Named DEF IInv, TypeInv
  <2>5. Extends /\ Live({"wall-watermark"})'
    BY <2>1, <2>2, <2>3, <2>4, Named DEF Extends, Live
  <2>6. init'[p].pc = "sync_watermark" => Progress(p)'
    BY <1>1, <1>4, <1>5, <2>5 DEF Progress, Durable, AfterShards, AfterLocks
  <2> QED
    BY <1>5, <2>5, <2>6, LockedFrame DEF WriteWatermark, LockedPcs
<1>6. CASE WriteWatermark(p) /\ init[p].pc = "sync_watermark"
  <2>1. Extends /\ Durable({"wall-watermark"})'
    BY <1>0, <1>6, SyncExtends, Named, Parents DEF WriteWatermark, Progress, Live, Durable
  <2>2. init'[p].pc = "publish" => Progress(p)'
    BY <1>1, <1>4, <1>6, <2>1 DEF Progress, Durable, AfterShards, AfterLocks
  <2> QED
    BY <1>6, <2>1, <2>2, LockedFrame DEF WriteWatermark, LockedPcs
<1> QED
  BY <1>2, <1>3, <1>5, <1>6 DEF CreateLocks, WriteWatermark

\* FORMAT appears once everything it stands for is durable.
LEMMA AppearStep ==
    ASSUME IInv, NEW p \in Inits, init[p].pc = "publish", live["FORMAT"] = None,
           live' = [live EXCEPT !["FORMAT"] = init[p].id], Goto(p, "sync_format"),
           disk' = disk, writer' = writer, Others
    PROVE  IInv'
<1> USE DEF Others
<1>1. /\ live'["FORMAT"] = init[p].id /\ live' = [e \in Entries |-> live'[e]]
      /\ \A e \in Entries \ {"FORMAT"} : live'[e] = live[e]
  BY Named DEF IInv, TypeInv
<1>2. init[p] \in Calls /\ init[p].id \in Identities /\ init[p].id.shards = Shards[p] /\ ~init[p].ok
  BY DEF IInv, TypeInv, Calls, IdInv, Identified, LockedPcs, OkInv, Reported
<1>3. init'[p] = [init[p] EXCEPT !.pc = "sync_format"] /\ \A q \in Inits \ {p} : init'[q] = init[q]
  BY DEF Goto, IInv, TypeInv
<1>4. init'[p].pc = "sync_format" /\ init'[p].id = init[p].id /\ init'[p].ok = init[p].ok /\ init'[p] \in Calls
  BY <1>2, <1>3 DEF Calls, Pcs, LockedPcs
<1>5. disk["FORMAT"] = None
  BY DEF IInv, DiskInv
<1>6. TypeInv'
  <2>1. init' \in [Inits -> Calls]
    BY <1>3, <1>4 DEF Goto, IInv, TypeInv
  <2> QED
    BY <1>1, <1>2, <2>1, Named DEF IInv, TypeInv
<1>7. LockInv'
  <2>1. \A q \in Inits : (writer' = q) <=> (init'[q].pc \in LockedPcs)
    BY <1>3, <1>4 DEF IInv, LockInv, LockedPcs
  <2> QED
    BY <2>1 DEF IInv, LockInv, Readers
<1>8. DiskInv'
  BY <1>1, <1>5, Named DEF IInv, DiskInv
<1>9. \A q \in Inits : Progress(q)'
  <2>1. Progress(p)'
    BY <1>4 DEF Progress, AfterShards, AfterLocks
  <2>2. \A q \in Inits \ {p} : init'[q].pc \notin LockedPcs
    BY <1>3 DEF IInv, LockInv, LockedPcs
  <2>3. \A q \in Inits \ {p} : Progress(q)'
    BY <2>2 DEF Progress, AfterShards, AfterLocks, LockedPcs
  <2> QED
    BY <2>1, <2>3
<1>10. IdInv'
  <2>1. \A q \in Inits : init'[q].id = init[q].id
    BY <1>3, <1>4
  <2>2. Identified(p)'
    BY <1>2, <1>4, InitOpenConstants DEF Identified
  <2>3. ASSUME NEW q \in Inits \ {p} PROVE Identified(q)'
    BY <1>3 DEF IInv, IdInv, Identified
  <2> QED
    BY <2>1, <2>2, <2>3 DEF IInv, IdInv
<1>11. OkInv'
  <2>1. Reported(p)'
    BY <1>1, <1>2, <1>4 DEF Reported
  <2>2. ASSUME NEW q \in Inits \ {p} PROVE Reported(q)'
    <3>1. init'[q].pc \notin LockedPcs /\ init'[q] = init[q]
      BY <1>3 DEF IInv, LockInv, LockedPcs
    <3>2. init[q].ok => init[q].pc = "done" /\ init[q].id # None
      BY DEF IInv, OkInv, Reported
    <3>3. init[q].ok => init[q].id # init[p].id
      BY <3>2, <1>2, InitOpenConstants DEF IInv, IdInv
    <3> QED
      BY <1>1, <3>1, <3>2, <3>3 DEF Reported, LockedPcs
  <2> QED
    BY <2>1, <2>2 DEF OkInv
<1>12. HandleInv'
  BY DEF IInv, HandleInv
<1>13. FormatImpliesComplete'
  <2> DEFINE Needed == {"control", "state", "maintenance.lock", "locks", "wall-watermark"}
                       \cup ready_shards(Shards[p])
  <2>1. \A e \in Needed : disk[e] # None
    BY DEF IInv, Progress, AfterShards, AfterLocks, Durable
  <2>2. \A e \in Needed : e \in Lasting /\ e # "FORMAT" /\ live[e] # None
    BY <2>1, Named, ShardNames DEF IInv, DiskInv
  <2>3. \A e \in Needed : live'[e] # None /\ disk'[e] # None
    BY <1>1, <2>1, <2>2, Named
  <2> QED
    BY <1>1, <1>2, <2>3 DEF FormatImpliesComplete, Present
<1> QED
  BY <1>6, <1>7, <1>8, <1>9, <1>10, <1>11, <1>12, <1>13 DEF IInv

LEMMA PublishStep ==
    ASSUME IInv, NEW p \in Inits, PublishFormat(p)
    PROVE  IInv'
<1> USE DEF Others, Same, At
<1>1. CASE init[p].pc = "publish" /\ ~Present("FORMAT")
  BY <1>1, AppearStep DEF PublishFormat, Present
<1>2. CASE init[p].pc = "publish" /\ Present("FORMAT")
  BY <1>2, ReturnFrame DEF PublishFormat
<1>3. CASE init[p].pc = "sync_format"
  <2>1. Sync({"root"}) /\ Goto(p, "commit") /\ live' = live /\ writer' = writer /\ Others
    BY <1>3 DEF PublishFormat
  <2>2. Extends /\ disk'["FORMAT"] = live["FORMAT"]
    BY <2>1, SyncExtends, Named, Parents
  <2>3. init[p] \in Calls /\ init'[p].pc = "commit" /\ init'[p].id = init[p].id /\ init'[p].ok = init[p].ok
    BY <2>1 DEF Goto, IInv, TypeInv, Calls
  <2>4. Progress(p)'
    BY <2>3 DEF Progress, AfterShards, AfterLocks
  <2>5. Reported(p)'
    BY <1>3, <2>1, <2>2, <2>3 DEF IInv, OkInv, Reported
  <2>6. "commit" \in Pcs /\ "commit" \in LockedPcs /\ init[p].pc \in LockedPcs
    BY <1>3 DEF Pcs, LockedPcs
  <2> QED
    BY <1>3, <2>1, <2>2, <2>4, <2>5, <2>6, GotoFrame
<1> QED
  BY <1>1, <1>2, <1>3 DEF PublishFormat

LEMMA CommitStep ==
    ASSUME IInv, NEW p \in Inits, Commit(p)
    PROVE  IInv'
<1> DEFINE c == [NoCall EXCEPT !.pc = "done", !.id = init[p].id, !.ok = TRUE]
<1>1. init[p].pc = "commit" /\ init[p].id \in Identities /\ live["FORMAT"] = init[p].id /\ disk["FORMAT"] = init[p].id
  BY DEF Commit, At, IInv, TypeInv, Calls, IdInv, Identified, LockedPcs, OkInv, Reported
<1>2. init' = [init EXCEPT ![p] = c] /\ c \in Calls /\ c.pc = "done" /\ c.id = init[p].id /\ c.ok = TRUE
  BY <1>1 DEF Commit, NoCall, Calls, Pcs, InitPcs
<1> HIDE DEF c
<1>3. init'[p] = c
  BY <1>2 DEF IInv, TypeInv
<1>4. Extends
  <2>1. live' = [e \in Entries |-> live'[e]] /\ disk' = [e \in Entries |-> disk'[e]]
    BY DEF Commit, IInv, TypeInv
  <2>2. \A e \in Lasting : live'[e] = live[e]
    BY Named DEF Commit, IInv, TypeInv, Lasting
  <2>3. \A e \in Lasting : disk'[e] = disk[e] \/ disk'[e] = live'[e]
    BY Named DEF Commit
  <2> QED
    BY <2>1, <2>2, <2>3, Named DEF Extends, IInv, TypeInv
<1>5. writer = p /\ writer' = None /\ p # None
  BY <1>1, InitOpenConstants DEF Commit, IInv, LockInv, LockedPcs
<1>6. WriterMoves(p) /\ ((writer' = p) <=> (c.pc \in LockedPcs)) /\ (writer' # None => Readers = {})
  BY <1>2, <1>5 DEF WriterMoves, LockedPcs
<1>7. Progress(p)' /\ Identified(p)'
  BY <1>2, <1>3 DEF Progress, Identified, LockedPcs, AfterShards, AfterLocks
<1>8. disk'["FORMAT"] = init[p].id /\ init[p].id # None
  BY <1>1, <1>4, DiskKept, InitOpenConstants
<1>9. Reported(p)'
  BY <1>2, <1>3, <1>8 DEF Reported
<1> QED
  BY <1>2, <1>4, <1>6, <1>7, <1>9, CallFrame DEF Commit

LEMMA FailureSteps ==
    ASSUME IInv, NEW p \in Inits, InitFails(p) \/ Killed(p)
    PROVE  IInv'
<1>1. CASE InitFails(p)
  BY <1>1, ReturnFrame DEF InitFails
<1>2. CASE Killed(p)
  <2>1. Extends
    BY <1>2, UnmarkExtends DEF Killed
  <2> QED
    BY <1>2, <2>1, EndFrame DEF Killed
<1> QED
  BY <1>1, <1>2

-----------------------------------------------------------------------------
(* The handles, the clock and the power.                                    *)

LEMMA HandleFrame ==
    ASSUME IInv, Extends, init' = init, writer' = writer, ids' = ids, clock' \in 0..MaxClock,
           open' \in [Openers -> Handles], writer # None => Readers' = {}, HandleInv'
    PROVE  IInv'
<1>1. TypeInv'
  BY DiskKept DEF IInv, TypeInv, Extends
<1>2. LockInv'
  BY DEF IInv, LockInv
<1>3. \A q \in Inits : Progress(q)' /\ Reported(q)'
  BY ProgressKept, ReportedKept
<1>4. IdInv'
  BY DEF IInv, IdInv, Identified
<1> QED
  BY <1>1, <1>2, <1>3, <1>4, DiskKept, CompleteKept DEF IInv, OkInv

\* A step of one handle, which leaves the names alone.
LEMMA OpenerFrame ==
    ASSUME IInv, SameO, NEW o \in Openers, NEW h \in Handles, open' = [open EXCEPT ![o] = h],
           h.pc = "opened" => writer = None,
           h.pc # "closed" => h.format # None /\ h.format = live["FORMAT"]
    PROVE  IInv'
<1>1. Extends
  BY UnmarkExtends DEF SameO
<1>2. open'[o] = h /\ (\A r \in Openers \ {o} : open'[r] = open[r]) /\ open' \in [Openers -> Handles]
  BY DEF IInv, TypeInv
<1>3. HandleInv'
  BY <1>2 DEF SameO, IInv, HandleInv
<1>4. writer # None => Readers' = {}
  BY <1>2 DEF IInv, LockInv, Readers
<1> QED
  BY <1>1, <1>2, <1>3, <1>4, HandleFrame DEF SameO, IInv, TypeInv

LEMMA OpenerSteps ==
    ASSUME IInv, NEW o \in Openers,
           ReadFormat(o) \/ CheckStateDirs(o) \/ try_ofd_read_lock(o) \/ Close(o)
    PROVE  IInv'
<1> USE DEF Present
<1>1. NotOpen \in Handles /\ NotOpen.pc = "closed"
  BY DEF NotOpen, Handles
<1>2. CASE SameO /\ open' = [open EXCEPT ![o] = NotOpen]
  BY <1>1, <1>2, OpenerFrame
<1>3. CASE ReadFormat(o)
  <2> DEFINE h == [pc |-> "format", format |-> live["FORMAT"]]
  <2>1. CASE live["FORMAT"] # None /\ open' = [open EXCEPT ![o] = h]
    <3>1. h \in Handles /\ h.pc = "format" /\ h.format = live["FORMAT"]
      BY DEF Handles, IInv, TypeInv
    <3> HIDE DEF h
    <3> QED
      BY <1>3, <2>1, <3>1, OpenerFrame DEF ReadFormat
  <2> QED
    BY <1>2, <1>3, <2>1 DEF ReadFormat
<1>4. CASE CheckStateDirs(o)
  <2> DEFINE h == [open[o] EXCEPT !.pc = "lock"]
  <2>1. CASE open' = [open EXCEPT ![o] = h]
    <3>1. open[o] \in Handles /\ open[o].pc = "format"
      BY <1>4 DEF IInv, TypeInv, CheckStateDirs
    <3>2. h \in Handles /\ h.pc = "lock" /\ h.format = open[o].format
      BY <3>1 DEF Handles
    <3>3. h.format # None /\ h.format = live["FORMAT"]
      BY <3>1, <3>2 DEF IInv, HandleInv
    <3> HIDE DEF h
    <3> QED
      BY <1>4, <2>1, <3>2, <3>3, OpenerFrame DEF CheckStateDirs
  <2>2. open' = [open EXCEPT ![o] = h] \/ open' = [open EXCEPT ![o] = NotOpen]
    BY <1>4 DEF CheckStateDirs
  <2> QED
    BY <1>2, <1>4, <2>1, <2>2 DEF CheckStateDirs
<1>5. CASE try_ofd_read_lock(o)
  <2> DEFINE h == [open[o] EXCEPT !.pc = "opened"]
  <2>1. CASE writer = None /\ open' = [open EXCEPT ![o] = h]
    <3>1. open[o] \in Handles /\ open[o].pc = "lock"
      BY <1>5 DEF IInv, TypeInv, try_ofd_read_lock
    <3>2. h \in Handles /\ h.pc = "opened" /\ h.format = open[o].format
      BY <3>1 DEF Handles
    <3>3. h.format # None /\ h.format = live["FORMAT"]
      BY <3>1, <3>2 DEF IInv, HandleInv
    <3> HIDE DEF h
    <3> QED
      BY <1>5, <2>1, <3>2, <3>3, OpenerFrame DEF try_ofd_read_lock
  <2>2. (writer = None /\ open' = [open EXCEPT ![o] = h]) \/ open' = [open EXCEPT ![o] = NotOpen]
    BY <1>5 DEF try_ofd_read_lock
  <2> QED
    BY <1>2, <1>5, <2>1, <2>2 DEF try_ofd_read_lock
<1>6. CASE Close(o)
  BY <1>2, <1>6 DEF Close
<1> QED
  BY <1>3, <1>4, <1>5, <1>6

LEMMA WatermarkStep ==
    ASSUME IInv, NEW o \in Openers, AdvanceWatermark(o)
    PROVE  IInv'
<1>1. clock \in Nat /\ clock # None
  BY InitOpenConstants DEF IInv, TypeInv
<1>2. live' = [live EXCEPT !["wall-watermark"] = clock] /\ disk' = [disk EXCEPT !["wall-watermark"] = clock]
  BY DEF AdvanceWatermark
<1>3. live' = [e \in Entries |-> live'[e]] /\ disk' = [e \in Entries |-> disk'[e]]
  BY <1>2 DEF IInv, TypeInv
<1>4. /\ live'["wall-watermark"] = clock /\ disk'["wall-watermark"] = clock
      /\ \A e \in Entries \ {"wall-watermark"} : live'[e] = live[e] /\ disk'[e] = disk[e]
  BY <1>2, Named DEF IInv, TypeInv
<1>5. Extends
  BY <1>1, <1>3, <1>4, Named DEF Extends
<1>6. HandleInv' /\ (writer # None => Readers' = {})
  BY <1>4, Named DEF AdvanceWatermark, IInv, HandleInv, LockInv, Readers
<1> QED
  BY <1>5, <1>6, HandleFrame DEF AdvanceWatermark, IInv, TypeInv

LEMMA ClockStep ==
    ASSUME IInv, ClockChanges
    PROVE  IInv'
<1>1. Extends
  BY UnmarkExtends DEF ClockChanges
<1>2. HandleInv' /\ (writer # None => Readers' = {})
  BY DEF ClockChanges, IInv, HandleInv, LockInv, Readers
<1> QED
  BY <1>1, <1>2, HandleFrame DEF ClockChanges, IInv, TypeInv

\* What is left after a power failure: no name is new, and a durable name
\* whose directories are left is left.
LEMMA PowerKeeps ==
    ASSUME IInv, PowerFails
    PROVE  /\ live' = [e \in Entries |-> live'[e]] /\ disk' = live'
           /\ \A e \in Entries : live'[e] \in {None, live[e], disk[e]}
           /\ disk["root"] # None => live'["root"] # None
           /\ \A e \in {"FORMAT", "control", "state"} :
                 live'["root"] # None /\ disk[e] # None => live'[e] # None
           /\ \A e \in {"maintenance.lock", "locks", "wall-watermark"} :
                 live'["control"] # None /\ disk[e] # None => live'[e] # None
           /\ \A e \in AllShards : live'["state"] # None /\ disk[e] # None => live'[e] # None
           /\ \A e \in Lasting : live'[e] # None => live'["root"] # None
<1>1. PICK kept \in SUBSET {e \in Entries : live[e] # disk[e]} :
           live' = Reachable([e \in Entries |-> IF e \in kept THEN live[e] ELSE disk[e]])
  BY DEF PowerFails
<1> DEFINE f == [e \in Entries |-> IF e \in kept THEN live[e] ELSE disk[e]]
<1>2. \A e \in Entries : f[e] \in {live[e], disk[e]}
  OBVIOUS
<1>3. \A e \in Lasting : disk[e] # None => f[e] # None
  BY Named DEF IInv, DiskInv
<1>4. live' = Reachable(f)
  BY <1>1
<1> HIDE DEF f
<1>5. live' = [e \in Entries |->
          IF e # "root" /\ (f["root"] = None \/ (Parent(e) # "root" /\ f[Parent(e)] = None)) THEN None ELSE f[e]]
  BY <1>4 DEF Reachable
<1>6. live' = [e \in Entries |-> live'[e]]
  BY <1>5
<1>7. \A e \in Entries : live'[e] =
          IF e # "root" /\ (f["root"] = None \/ (Parent(e) # "root" /\ f[Parent(e)] = None)) THEN None ELSE f[e]
  BY <1>5
<1>8. live'["root"] = f["root"]
  BY <1>7, Named
<1>9. \A e \in {"FORMAT", "control", "state"} : live'[e] = IF f["root"] = None THEN None ELSE f[e]
  BY <1>7, Named, Parents
<1>10. \A e \in {"maintenance.lock", "locks", "wall-watermark"} :
          live'[e] = IF f["root"] = None \/ f["control"] = None THEN None ELSE f[e]
  BY <1>7, Named, Parents
<1>11. \A e \in AllShards : live'[e] = IF f["root"] = None \/ f["state"] = None THEN None ELSE f[e]
  BY <1>7, Named, Parents, ShardNames
<1>12. disk' = live'
  BY DEF PowerFails
<1>13. \A e \in Entries : live'[e] \in {None, live[e], disk[e]}
  BY <1>2, <1>7
<1>14. \A e \in Lasting : live'[e] # None => live'["root"] # None
  BY <1>7, <1>8, Named
<1> QED
  BY <1>3, <1>6, <1>8, <1>9, <1>10, <1>11, <1>12, <1>13, <1>14, Named

LEMMA PowerStep ==
    ASSUME IInv, PowerFails
    PROVE  IInv'
<1>1. live'["FORMAT"] \in {None, live["FORMAT"]}
  BY PowerKeeps, Named DEF IInv, DiskInv
<1>2. NoCall \in Calls /\ NoCall.pc = "idle" /\ NoCall.id = None /\ NoCall.ok = FALSE
  BY DEF NoCall, Calls, Pcs, InitPcs
<1>3. \A p \in Inits : init'[p] = IF init[p].pc = "done" THEN init[p] ELSE NoCall
  BY DEF PowerFails
<1>4. \A p \in Inits : init'[p].pc \in {"idle", "done"} /\ init'[p].id \in {None, init[p].id}
  BY <1>2, <1>3
<1>5. NotOpen \in Handles /\ NotOpen.pc = "closed"
  BY DEF NotOpen, Handles
<1>6. \A o \in Openers : open'[o].pc = "closed"
  BY <1>5 DEF PowerFails
<1>7. TypeInv'
  <2>1. init' \in [Inits -> Calls] /\ open' \in [Openers -> Handles]
    BY <1>2, <1>5 DEF PowerFails, IInv, TypeInv
  <2>2. live'["wall-watermark"] \in Nat \cup {None}
    BY PowerKeeps, Named DEF IInv, TypeInv
  <2>3. writer' = None /\ ids' = ids /\ clock' = clock
    BY DEF PowerFails
  <2>4. live' = [e \in Entries |-> live'[e]] /\ disk' = live'
    BY PowerKeeps
  <2>5. live'["FORMAT"] \in Identities \cup {None}
    BY <1>1 DEF IInv, TypeInv
  <2> QED
    BY <2>1, <2>2, <2>3, <2>4, <2>5 DEF IInv, TypeInv
<1>8. LockInv' /\ HandleInv'
  BY <1>4, <1>6, InitOpenConstants DEF PowerFails, LockInv, LockedPcs, HandleInv, Readers
<1>9. DiskInv'
  BY PowerKeeps DEF DiskInv
<1>10. \A p \in Inits : Progress(p)' /\ Identified(p)'
  BY <1>4 DEF Progress, Identified, AfterShards, AfterLocks, LockedPcs
<1>11. IdInv'
  <2>1. ids' = ids
    BY DEF PowerFails
  <2> QED
    BY <1>4, <1>10, <2>1 DEF IInv, IdInv
<1>12. OkInv'
  <2>1. ASSUME NEW p \in Inits PROVE Reported(p)'
    <3>1. init'[p].ok => init'[p] = init[p] /\ init[p].pc = "done"
      BY <1>2, <1>3
    <3>2. init'[p].ok => init'[p].pc = "done" /\ init'[p].id # None
      BY <3>1 DEF IInv, OkInv, Reported
    <3>3. disk' = live'
      BY PowerKeeps
    <3> QED
      BY <1>4, <3>2, <3>3 DEF Reported
  <2> QED
    BY <2>1 DEF OkInv
<1>13. FormatImpliesComplete'
  <2>1. SUFFICES ASSUME live'["FORMAT"] # None
                 PROVE  \A e \in {"control", "state", "maintenance.lock", "locks", "wall-watermark"}
                                  \cup ready_shards(live'["FORMAT"].shards) : live'[e] # None /\ disk'[e] # None
    BY DEF FormatImpliesComplete, Present
  <2>2. live'["FORMAT"] = live["FORMAT"] /\ live["FORMAT"] \in Identities /\ live'["root"] # None
    BY <1>1, <2>1, PowerKeeps, Named DEF IInv, TypeInv
  <2>3. \A e \in {"control", "state", "maintenance.lock", "locks", "wall-watermark"}
                  \cup ready_shards(live["FORMAT"].shards) : disk[e] # None
    BY <2>1, <2>2 DEF IInv, FormatImpliesComplete, Present
  <2>4. live'["control"] # None /\ live'["state"] # None
    BY <2>2, <2>3, PowerKeeps
  <2>5. ready_shards(live["FORMAT"].shards) \subseteq AllShards
    BY <2>2, Named
  <2> QED
    BY <2>2, <2>3, <2>4, <2>5, PowerKeeps
<1> QED
  BY <1>7, <1>8, <1>9, <1>10, <1>11, <1>12, <1>13 DEF IInv

-----------------------------------------------------------------------------
(* The invariant, and what follows from it.                                 *)

LEMMA InitIInv == Init => IInv
<1> SUFFICES ASSUME Init PROVE IInv
  OBVIOUS
<1>1. NoCall \in Calls /\ NoCall.pc = "idle" /\ NoCall.id = None /\ NoCall.ok = FALSE
  BY DEF NoCall, Calls, Pcs, InitPcs
<1>2. NotOpen \in Handles /\ NotOpen.pc = "closed"
  BY DEF NotOpen, Handles
<1>3. live = [e \in Entries |-> None] /\ disk = [e \in Entries |-> None]
  BY DEF Init, Absent
<1>4. \A e \in Entries : live[e] = None /\ disk[e] = None
  BY <1>3
<1>5. \A p \in Inits : init[p] = NoCall
  BY DEF Init
<1>6. \A o \in Openers : open[o] = NotOpen
  BY DEF Init
<1>7. TypeInv
  <2>1. init \in [Inits -> Calls] /\ open \in [Openers -> Handles] /\ writer = None /\ ids \in Nat /\ clock \in 0..MaxClock
    BY <1>1, <1>2, InitOpenConstants DEF Init
  <2>2. live = [e \in Entries |-> live[e]] /\ disk = [e \in Entries |-> disk[e]]
    BY <1>3, <1>4
  <2> QED
    BY <1>4, <2>1, <2>2, Named DEF TypeInv
<1>8. LockInv /\ HandleInv
  BY <1>1, <1>2, <1>5, <1>6, InitOpenConstants DEF Init, LockInv, LockedPcs, HandleInv, Readers
<1>9. DiskInv /\ FormatImpliesComplete
  BY <1>4, Named DEF DiskInv, FormatImpliesComplete, Present
<1>10. \A p \in Inits : Progress(p) /\ Identified(p) /\ Reported(p)
  BY <1>1, <1>5 DEF Progress, Identified, Reported, AfterShards, AfterLocks, LockedPcs
<1>11. IdInv
  BY <1>1, <1>5, <1>10 DEF IdInv
<1> QED
  BY <1>7, <1>8, <1>9, <1>10, <1>11 DEF IInv, OkInv

LEMMA NextIInv == IInv /\ [Next]_vars => IInv'
<1> SUFFICES ASSUME IInv, [Next]_vars PROVE IInv'
  OBVIOUS
<1>1. ASSUME NEW p \in Inits, Init_(p) \/ InitFails(p) \/ Killed(p) PROVE IInv'
  BY <1>1, OutsideSteps, LockStep, DrawStep, DirectorySteps, FileSteps, PublishStep, CommitStep, FailureSteps
     DEF Init_
<1>2. ASSUME NEW o \in Openers,
             ReadFormat(o) \/ CheckStateDirs(o) \/ try_ofd_read_lock(o) \/ AdvanceWatermark(o) \/ Close(o)
      PROVE  IInv'
  BY <1>2, OpenerSteps, WatermarkStep
<1>3. CASE ClockChanges
  BY <1>3, ClockStep
<1>4. CASE PowerFails
  BY <1>4, PowerStep
<1>5. CASE UNCHANGED vars
  <2>1. Extends
    BY <1>5, UnmarkExtends DEF vars
  <2>2. HandleInv' /\ (writer # None => Readers' = {})
    BY <1>5 DEF vars, IInv, HandleInv, LockInv, Readers
  <2> QED
    BY <1>5, <2>1, <2>2, HandleFrame DEF vars, IInv, TypeInv
<1> QED
  BY <1>1, <1>2, <1>3, <1>4, <1>5 DEF Next

\* However initializers, handles and failures interleave, the invariant holds.
THEOREM SpecIInv == Spec => []IInv
<1> QED
  BY InitIInv, NextIInv, PTL DEF Spec

\* As soon as FORMAT can be seen, all that init makes before it is there and
\* durable.
THEOREM FormatSound == Spec => []FormatImpliesComplete
<1>1. IInv => FormatImpliesComplete
  BY DEF IInv
<1> QED
  BY <1>1, SpecIInv, PTL

\* A handle works with the FORMAT that the root names, and never beside an
\* initializer that holds the maintenance lock.
THEOREM HandlesSound == Spec => []HandleMatchesRoot
<1>1. IInv => HandleMatchesRoot
  <2> SUFFICES ASSUME IInv PROVE HandleMatchesRoot
    OBVIOUS
  <2>1. DOMAIN live = Entries /\ DOMAIN disk = Entries
    BY DEF IInv, TypeInv
  <2>2. \A p \in Inits : init[p].pc \in InitPcs \cup LockedPcs
    BY DEF IInv, TypeInv, Calls, Pcs
  <2> QED
    BY <2>1, <2>2 DEF IInv, LockInv, HandleInv, HandleMatchesRoot, TypeOK, Readers
<1> QED
  BY <1>1, SpecIInv, PTL

\* Only a power failure takes FORMAT away, and nothing replaces it.
LEMMA FormatStays ==
    ASSUME IInv, Next, ~PowerFails, live["FORMAT"] # None
    PROVE  live'["FORMAT"] = live["FORMAT"]
<1> USE DEF Present, Return
<1>1. \A es : Make(es) => live'["FORMAT"] = live["FORMAT"]
  BY Named DEF Make
<1>2. \A v, e : e # "FORMAT" /\ live' = [live EXCEPT ![e] = v] => live'["FORMAT"] = live["FORMAT"]
  BY Named DEF IInv, TypeInv
<1>3. ASSUME NEW p \in Inits, Init_(p) \/ InitFails(p) \/ Killed(p)
      PROVE  live'["FORMAT"] = live["FORMAT"]
  <2>1. CASE CreateRoot(p) \/ SyncParent(p) \/ CheckFormat(p) \/ ClaimMarker(p) \/ CreateControl(p)
    BY <1>1, <1>2, <2>1 DEF CreateRoot, SyncParent, CheckFormat, ClaimMarker, CreateControl
  <2>2. CASE try_ofd_write_lock(p) \/ DrawIdentity(p) \/ CreateStateDirs(p) \/ CreateShards(p) \/ CreateLocks(p)
    BY <1>1, <1>2, <2>2 DEF try_ofd_write_lock, DrawIdentity, CreateStateDirs, CreateShards, CreateLocks
  <2>3. CASE WriteWatermark(p) \/ PublishFormat(p) \/ Commit(p) \/ InitFails(p) \/ Killed(p)
    BY <1>2, <2>3 DEF WriteWatermark, PublishFormat, Commit, InitFails, Killed
  <2> QED
    BY <1>3, <2>1, <2>2, <2>3 DEF Init_
<1>4. ASSUME NEW o \in Openers,
             ReadFormat(o) \/ CheckStateDirs(o) \/ try_ofd_read_lock(o) \/ AdvanceWatermark(o) \/ Close(o)
      PROVE  live'["FORMAT"] = live["FORMAT"]
  BY <1>2, <1>4 DEF ReadFormat, CheckStateDirs, try_ofd_read_lock, AdvanceWatermark, Close, SameO
<1>5. CASE ClockChanges
  BY <1>5 DEF ClockChanges
<1> QED
  BY <1>3, <1>4, <1>5 DEF Next

\* While a handle is open no call is under the lock, so only the handles
\* write the watermark.
LEMMA WatermarkStays ==
    ASSUME IInv, Next, Readers # {}, Readers' # {}
    PROVE  live'["wall-watermark"] >= live["wall-watermark"]
<1> USE DEF Present, Return
<1>1. PICK o \in Openers : open[o].pc = "opened"
  BY DEF Readers
<1>2. live["wall-watermark"] \in Nat
  BY <1>1 DEF IInv, TypeInv, HandleInv, FormatImpliesComplete
<1>3. \A p \in Inits : init[p].pc \notin LockedPcs
  BY InitOpenConstants DEF IInv, LockInv
<1>4. SUFFICES ASSUME ~ \E r \in Openers : AdvanceWatermark(r)
               PROVE  live'["wall-watermark"] = live["wall-watermark"]
  <2>1. CASE \E r \in Openers : AdvanceWatermark(r)
    <3>1. live'["wall-watermark"] = clock /\ clock > live["wall-watermark"] /\ clock \in Nat
      BY <2>1, Named, InitOpenConstants DEF AdvanceWatermark, IInv, TypeInv
    <3> QED
      BY <1>2, <3>1
  <2> QED
    BY <1>2, <2>1
<1>5. \A es : Make(es) => live'["wall-watermark"] = live["wall-watermark"]
  BY <1>2, Named, InitOpenConstants DEF Make
<1>6. \A v, e : e # "wall-watermark" /\ live' = [live EXCEPT ![e] = v] =>
           live'["wall-watermark"] = live["wall-watermark"]
  BY Named DEF IInv, TypeInv
<1>7. ASSUME NEW p \in Inits, Init_(p) \/ InitFails(p) \/ Killed(p)
      PROVE  live'["wall-watermark"] = live["wall-watermark"]
  <2>1. CASE CreateRoot(p) \/ SyncParent(p) \/ CheckFormat(p) \/ ClaimMarker(p) \/ CreateControl(p)
    BY <1>5, <1>6, <2>1 DEF CreateRoot, SyncParent, CheckFormat, ClaimMarker, CreateControl
  <2>2. CASE try_ofd_write_lock(p) \/ DrawIdentity(p) \/ CreateStateDirs(p) \/ CreateShards(p) \/ CreateLocks(p)
    BY <1>5, <1>6, <2>2 DEF try_ofd_write_lock, DrawIdentity, CreateStateDirs, CreateShards, CreateLocks
  <2>3. CASE PublishFormat(p) \/ Commit(p) \/ InitFails(p) \/ Killed(p)
    BY <1>6, <2>3 DEF PublishFormat, Commit, InitFails, Killed
  <2>4. ~WriteWatermark(p)
    BY <1>3 DEF WriteWatermark, At, LockedPcs
  <2> QED
    BY <1>7, <2>1, <2>2, <2>3, <2>4 DEF Init_
<1>8. ASSUME NEW r \in Openers, ReadFormat(r) \/ CheckStateDirs(r) \/ try_ofd_read_lock(r) \/ Close(r)
      PROVE  live'["wall-watermark"] = live["wall-watermark"]
  BY <1>8 DEF ReadFormat, CheckStateDirs, try_ofd_read_lock, Close, SameO
<1>9. ~PowerFails
  BY DEF PowerFails, NotOpen, Readers
<1> QED
  BY <1>4, <1>7, <1>8, <1>9 DEF Next, ClockChanges

\* A queue that init reported is neither replaced nor lost, and no open
\* handle sees the watermark go back.
THEOREM QueueKept == Spec => EstablishedKept
<1> DEFINE Ok == \A p \in Inits : /\ init[p].ok /\ live["FORMAT"] = init[p].id /\ disk["root"] # None
                                  => live'["FORMAT"] = init[p].id
           Mark == Readers # {} /\ Readers' # {} => live'["wall-watermark"] >= live["wall-watermark"]
<1>1. IInv /\ [Next]_vars => [Ok]_vars
  <2> SUFFICES ASSUME IInv, Next, NEW p \in Inits,
                      init[p].ok, live["FORMAT"] = init[p].id, disk["root"] # None
               PROVE  live'["FORMAT"] = init[p].id
    OBVIOUS
  <2>1. init[p].id # None /\ disk["FORMAT"] = init[p].id
    BY DEF IInv, OkInv, Reported
  <2>2. CASE PowerFails
    BY <2>1, <2>2, PowerKeeps, Named
  <2> QED
    BY <2>1, <2>2, FormatStays
<1>2. IInv /\ [Next]_vars => [Mark]_vars
  BY WatermarkStays
<1>3. Spec => [][Ok]_vars /\ [][Mark]_vars
  BY <1>1, <1>2, SpecIInv, PTL DEF Spec
<1> QED
  BY <1>3 DEF EstablishedKept, OkSurvives, WatermarkKept
=============================================================================
