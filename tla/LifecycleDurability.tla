------------------------ MODULE LifecycleDurability ------------------------
(***************************************************************************)
(* How the durability invariant of Lifecycle is kept: what fsync does, and *)
(* what the beginning of a call, its rename and its report do.             *)
(***************************************************************************)
EXTENDS LifecycleTypes

\* What an fsync does: it takes away names that a crash could restore, but
\* never the present one nor the last trace of a name that was renamed to.
Shrinks ==
    /\ UNCHANGED file
    /\ \A j \in Jobs :
         /\ file[j] \in back'[j]
         /\ back'[j] \subseteq back[j]
         /\ \A n \in Names : Renamed(j, n) => Renamed(j, n)'

\* An fsync removes restorable names and never the present one.
LEMMA FsyncShrinks ==
    ASSUME TypeOK, DurableInv, NEW d, Fsync(d), UNCHANGED file
    PROVE  Shrinks
<1> SUFFICES ASSUME NEW j \in Jobs
             PROVE  /\ file[j] \in back'[j]
                    /\ back'[j] \subseteq back[j]
                    /\ \A n \in Names : Renamed(j, n) => Renamed(j, n)'
  BY DEF Shrinks
<1>1. back'[j] = {n \in back[j] : \A m \in back[j] : Touches(j, m, d) => m.gen <= n.gen}
  BY DEF Fsync
<1>2. \A n \in back[j] : n \in Names /\ n.gen \in Int
  BY DEF TypeOK, Names
<1>3. file[j] \in back[j] /\ \A n \in back[j] : n.gen <= file[j].gen
  BY DEF DurableInv, RestoreInv
<1>4. file[j] \in back'[j] /\ back'[j] \subseteq back[j]
  BY <1>1, <1>3
<1>5. ASSUME NEW n \in Names, Renamed(j, n) PROVE Renamed(j, n)'
  <2>1. n.gen \in Int
    BY DEF Names
  <2>2. CASE \A m \in back[j] : n.gen <= m.gen
    BY <1>4, <2>2 DEF Renamed
  <2>3. CASE n \in back[j] /\ n \notin back'[j]
    <3>1. PICK m \in back[j] : Touches(j, m, d) /\ ~(m.gen <= n.gen)
      BY <1>1, <2>3
    <3>2. \A k \in back'[j] : m.gen <= k.gen
      BY <1>1, <3>1
    <3>3. \A k \in back'[j] : n.gen <= k.gen
      BY <1>2, <1>4, <2>1, <3>1, <3>2
    <3> QED
      BY <3>3 DEF Renamed
  <2>4. CASE n \in back'[j]
    BY <2>4 DEF Renamed
  <2> QED
    BY <1>5, <2>2, <2>3, <2>4 DEF Renamed
<1> QED
  BY <1>4, <1>5

\* After the fsync of the directory of n, a crash restores nothing older.
LEMMA FsyncSyncs ==
    ASSUME TypeOK, NEW j \in Jobs, NEW n \in Names, Renamed(j, n), Fsync(Dir(n))
    PROVE  \A m \in back'[j] : n.gen <= m.gen
<1>1. back'[j] = {k \in back[j] : \A m \in back[j] : Touches(j, m, Dir(n)) => m.gen <= k.gen}
  BY DEF Fsync
<1>2. CASE n \in back[j]
  BY <1>1, <1>2 DEF Touches
<1>3. CASE \A m \in back[j] : n.gen <= m.gen
  BY <1>1, <1>3
<1> QED
  BY <1>2, <1>3 DEF Renamed

\* A step that shrinks disturbs no call in progress.
LEMMA CallKept ==
    ASSUME TypeOK, Shrinks, NEW o \in Calls, CallInv(o)
    PROVE  CallInv(o)'
<1>1. o.job \in Jobs /\ o.src \in Names /\ o.dst \in Names
  BY DEF Calls
<1>2. Renamed(o.job, o.dst) => Renamed(o.job, o.dst)'
  BY <1>1 DEF Shrinks
<1>3. Renamed(o.job, o.src) => Renamed(o.job, o.src)'
  BY <1>1 DEF Shrinks
<1>4. Synced(o.job, o.dst) => Synced(o.job, o.dst)'
  BY <1>1 DEF Shrinks, Synced
<1>5. file'[o.job] = file[o.job]
  BY DEF Shrinks
<1> QED
  BY <1>2, <1>3, <1>4, <1>5 DEF CallInv

\* A step of one handle that shrinks, reports nothing and leaves its own call
\* in order keeps the invariant.
LEMMA DurableFrame ==
    ASSUME TypeOK, DurableInv, Shrinks, NEW h \in Handles, NEW o,
           op' = [op EXCEPT ![h] = o],
           o.pc # "idle" => CallInv(o)',
           UNCHANGED <<committed, leases, acked>>
    PROVE  DurableInv'
<1>1. ASSUME NEW j \in Jobs PROVE RestoreInv(j)'
  BY DEF DurableInv, RestoreInv, Shrinks
<1>2. ASSUME NEW g \in Handles, (op[g].pc # "idle")' PROVE CallInv(op[g])'
  <2>1. CASE g = h
    <3>1. op'[g] = o
      BY <2>1 DEF TypeOK
    <3> QED
      BY <1>2, <3>1 DEF CallInv, Renamed, Synced
  <2>2. CASE g # h
    <3>1. op'[g] = op[g] /\ op[g] \in Calls
      BY <1>2, <2>2, CallTyped DEF TypeOK
    <3>2. PICK c \in Calls : c = op[g]
      BY <3>1
    <3>3. CallInv(c)
      BY <1>2, <3>1, <3>2 DEF DurableInv
    <3>4. CallInv(c)'
      BY <3>3, CallKept
    <3> QED
      BY <3>1, <3>2, <3>4 DEF CallInv, Renamed, Synced
  <2> QED
    BY <2>1, <2>2
<1>3. ASSUME NEW r \in acked PROVE r.name.st = "receipt" /\ back'[r.job] = {r.name}
  <2>1. r.job \in Jobs
    BY DEF TypeOK, LeaseInfos
  <2> QED
    BY <2>1 DEF DurableInv, Shrinks
<1> QED
  BY <1>1, <1>2, <1>3 DEF DurableInv

\* A step that touches no name on disk trivially removes none.
LEMMA BackKept ==
    ASSUME DurableInv, UNCHANGED <<file, back>>
    PROVE  Shrinks
BY DEF DurableInv, RestoreInv, Shrinks, Renamed

\* In particular a step that leaves the whole namespace alone.
LEMMA StillShrinks ==
    ASSUME DurableInv, UNCHANGED namespace
    PROVE  Shrinks
BY BackKept DEF namespace

\* A call begun with a source that may be moved and its successor as destination.
LEMMA BeginDurable ==
    ASSUME TypeOK, DurableInv, NEW h \in Handles, NEW kind, NEW j \in Jobs,
           NEW src \in Names, NEW dst \in Names, Begin(h, kind, j, src, dst),
           dst.gen = src.gen + 1, src.st \in {"hidden", "ready", "leased", "delayed", "dead"},
           kind \in {"claim", "renew"} => dst.st = "leased",
           kind = "ack" => dst.st = "receipt",
           UNCHANGED namespace, UNCHANGED <<committed, leases, acked>>
    PROVE  DurableInv'
<1> DEFINE o == Call("rename", kind, j, src, dst, [job |-> j, src |-> src, dst |-> dst])
<1>1. o.pc = "rename" /\ o.kind = kind /\ o.src = src /\ o.dst = dst
  BY DEF Call
<1>2. op' = [op EXCEPT ![h] = o]
  BY DEF Begin
<1> HIDE DEF o
<1>3. CallInv(o)'
  BY <1>1 DEF CallInv
<1> QED
  BY <1>2, <1>3, StillShrinks, DurableFrame

\* A call that ends without a report.
LEMMA ReturnDurable ==
    ASSUME TypeOK, DurableInv, NEW h \in Handles, Return(h),
           UNCHANGED namespace, UNCHANGED <<committed, leases, acked>>
    PROVE  DurableInv'
BY StillShrinks, DurableFrame DEF Return, Idle

\* An OutcomeUnknown answer commits to nothing, so the invariant is kept.
LEMMA UnknownDurable ==
    ASSUME TypeOK, DurableInv, NEW h \in Handles, NEW cause, Unknown(h, cause),
           UNCHANGED namespace
    PROVE  DurableInv'
BY ReturnDurable DEF Unknown

\* The first step of every call.
LEMMA DurableBegin ==
    ASSUME TypeOK, DurableInv, NEW h \in Handles,
           EnqueueBegin(h) \/ ClaimBegin(h) \/ ConsumerBegin(h) \/ ConsumerGone(h)
             \/ ReapBegin(h) \/ PromoteBegin(h) \/ Compact(h) \/ RemoveBegin(h)
             \/ AuthorityLost(h)
    PROVE  DurableInv'
<1> USE DEF answers
<1>1. CASE EnqueueBegin(h)
  <2>1. PICK j \in Jobs, kind \in EnqueueKinds,
              dst \in {Ready(Hidden)} \cup {Delayed(Hidden, b) : b \in (wall + 1)..MaxWall} :
           Begin(h, kind, j, Hidden, dst)
    BY <1>1 DEF EnqueueBegin
  <2>2. \A b \in (wall + 1)..MaxWall : b \in Nat
    BY LifecycleConstants DEF TypeOK
  <2>3. dst \in Names /\ dst.gen = Hidden.gen + 1
    BY <2>2, HiddenName, NextNames, NextDelayed
  <2>4. kind \notin {"claim", "renew", "ack"}
    BY LifecycleConstants
  <2> QED
    BY <1>1, <2>1, <2>3, <2>4, HiddenName, BeginDurable DEF EnqueueBegin
<1>2. CASE ClaimBegin(h)
  <2>1. PICK j \in Jobs, d \in LeaseDurations :
           /\ Begin(h, "claim", j, file[j], Leased(file[j], tokens + 1, now + d))
           /\ file[j].st = "ready"
    BY <1>2 DEF ClaimBegin
  <2>2. now + d \in Nat /\ tokens + 1 \in Nat /\ file[j] \in Names
    BY LifecycleConstants DEF TypeOK
  <2> QED
    BY <1>2, <2>1, <2>2, NextLease, BeginDurable DEF ClaimBegin
<1>3. CASE ConsumerBegin(h)
  <2>0. PICK l \in leases, kind \in ConsumerKinds :
           \E dst \in ConsumerTargets(kind, l) : Begin(h, kind, l.job, l.name, dst)
    BY <1>3 DEF ConsumerBegin
  <2>1. PICK dst \in ConsumerTargets(kind, l) : Begin(h, kind, l.job, l.name, dst)
    BY <2>0
  <2>2. /\ l.job \in Jobs /\ l.name \in Names /\ dst \in Names
        /\ dst.gen = l.name.gen + 1
        /\ kind \in {"claim", "renew"} => dst.st = "leased"
        /\ kind = "ack" => dst.st = "receipt"
    BY ConsumerTargetsTyped DEF ConsumerKinds
  <2>3. l.name.st = "leased"
    BY DEF DurableInv
  <2> QED
    BY <1>3, <2>1, <2>2, <2>3, BeginDurable DEF ConsumerBegin
<1>4. CASE ConsumerGone(h)
  BY <1>4 DEF ConsumerGone, DurableInv, RestoreInv, CallInv, Renamed, Synced, namespace
<1>5. CASE ReapBegin(h)
  <2>1. PICK j \in Jobs :
           /\ Begin(h, "reap", j, file[j],
                    IF file[j].att >= MaximumAttempts[j] THEN Dead(file[j]) ELSE Ready(file[j]))
           /\ file[j].st = "leased"
    BY <1>5 DEF ReapBegin
  <2>2. file[j] \in Names
    BY DEF TypeOK
  <2> QED
    BY <1>5, <2>1, <2>2, NextNames, BeginDurable DEF ReapBegin
<1>6. CASE PromoteBegin(h)
  <2>1. PICK j \in Jobs :
           Begin(h, "promote", j, file[j], Ready(file[j])) /\ file[j].st = "delayed"
    BY <1>6 DEF PromoteBegin
  <2>2. file[j] \in Names
    BY DEF TypeOK
  <2> QED
    BY <1>6, <2>1, <2>2, NextNames, BeginDurable DEF PromoteBegin
<1>7. CASE AuthorityLost(h)
  BY <1>7 DEF AuthorityLost, DurableInv, RestoreInv, CallInv, Renamed, Synced, namespace
<1>8. CASE Compact(h)
  <2>1. PICK j \in Jobs : Fsync(Dir(file[j])) \/ UNCHANGED back
    BY <1>8 DEF Compact
  <2>2. UNCHANGED file /\ UNCHANGED op /\ UNCHANGED <<committed, leases, acked>>
    BY <1>8 DEF Compact
  <2>3. Shrinks
    BY <2>1, <2>2, FsyncShrinks, BackKept
  <2>4. PICK c : c = op[h]
    OBVIOUS
  <2>5. op' = [op EXCEPT ![h] = c]
    BY <2>2, <2>4 DEF TypeOK
  <2>6. c.pc # "idle" => CallInv(c)'
    BY <2>3, <2>4, CallTyped, CallKept DEF DurableInv
  <2> QED
    BY <2>2, <2>3, <2>5, <2>6, DurableFrame
<1>9. CASE RemoveBegin(h)
  <2>1. PICK j \in Jobs :
           Begin(h, "remove", j, file[j], Removed(file[j])) /\ file[j].st = "dead"
    BY <1>9 DEF RemoveBegin
  <2>2. file[j] \in Names
    BY DEF TypeOK
  <2> QED
    BY <1>9, <2>1, <2>2, NextRemoved, BeginDurable DEF RemoveBegin
<1> QED
  BY <1>1, <1>2, <1>3, <1>4, <1>5, <1>6, <1>7, <1>8, <1>9

\* The linearization point: the new name is the newest one there is.
LEMMA DurableRename ==
    ASSUME TypeOK, DurableInv, NEW h \in Handles, Rename(h)
    PROVE  DurableInv'
<1> DEFINE j == op[h].job
           src == op[h].src
           dst == op[h].dst
<1>1. op[h] \in Calls /\ op[h].pc = "rename"
  BY CallTyped DEF Rename, Moving
<1>2. j \in Jobs /\ src \in Names /\ dst \in Names
  BY <1>1 DEF Calls
<1>3. src.gen \in Int /\ dst.gen \in Int
  BY <1>2 DEF Names
<1>4. /\ dst.gen = src.gen + 1
      /\ src.st \in {"hidden", "ready", "leased", "delayed", "dead"}
      /\ op[h].kind \in {"claim", "renew"} => dst.st = "leased"
      /\ op[h].kind = "ack" => dst.st = "receipt"
  BY <1>1 DEF DurableInv, CallInv
<1>5. /\ file[j] = src
      /\ file' = [file EXCEPT ![j] = dst]
      /\ back' = [back EXCEPT ![j] = back[j] \cup {dst}]
      /\ UNCHANGED <<committed, leases, acked>>
  BY DEF Rename, Linearize, answers
<1>6. op' = [op EXCEPT ![h] = [op[h] EXCEPT !.pc = AfterRename(op[h].kind)]]
  BY DEF Rename, Goto
<1> HIDE DEF j, src, dst
<1>7. \A k \in Jobs : RestoreInv(k) /\ \A n \in back[k] : n.gen \in Int
  BY DEF DurableInv, TypeOK, Names
<1>8. committed[j] \in Int /\ \A n \in back[j] : n.gen \in Int /\ n.gen <= src.gen
  BY <1>2, <1>5, <1>7 DEF RestoreInv, TypeOK
<1>9. ASSUME NEW k \in Jobs PROVE RestoreInv(k)'
  <2>1. CASE k # j
    BY <1>2, <1>5, <1>7, <2>1 DEF RestoreInv, TypeOK
  <2>2. CASE k = j
    <3>1. file'[j] = dst /\ back'[j] = back[j] \cup {dst} /\ committed'[j] = committed[j]
      BY <1>2, <1>5 DEF TypeOK
    <3>2. committed[j] <= src.gen
      BY <1>2, <1>5, <1>7 DEF RestoreInv
    <3>3. \A n \in back'[j] : committed'[j] <= n.gen
      BY <1>2, <1>3, <1>4, <1>7, <1>8, <3>1, <3>2 DEF RestoreInv
    <3>4. \A n \in back'[j] : n.gen <= dst.gen /\ (n.gen = dst.gen => n = dst)
      BY <1>3, <1>4, <1>8, <3>1
    <3> QED
      BY <2>2, <3>1, <3>3, <3>4 DEF RestoreInv
  <2> QED
    BY <2>1, <2>2
<1>10. ASSUME NEW k \in Jobs, NEW n \in Names
       PROVE  /\ Renamed(k, n) => Renamed(k, n)'
              /\ Synced(k, n) => Synced(k, n)'
  <2>1. n.gen \in Int
    BY DEF Names
  <2>2. CASE k # j
    BY <1>2, <1>5, <2>2 DEF Renamed, Synced, TypeOK
  <2>3. CASE k = j
    <3>1. back'[j] = back[j] \cup {dst} /\ src \in back[j]
      BY <1>2, <1>5, <1>7 DEF TypeOK, RestoreInv
    <3>2. Synced(j, n) => n.gen <= dst.gen
      BY <1>3, <1>4, <2>1, <3>1 DEF Synced
    <3> QED
      BY <2>3, <3>1, <3>2 DEF Renamed, Synced
  <2> QED
    BY <2>2, <2>3
<1>11. ASSUME NEW g \in Handles, (op[g].pc # "idle")' PROVE CallInv(op[g])'
  <2>1. CASE g = h
    <3>1. /\ op'[g].pc \in {"witness", "syncDst"} /\ op'[g].job = j /\ op'[g].dst = dst
          /\ op'[g].kind = op[h].kind
      BY <1>1, <1>6, <2>1 DEF TypeOK, AfterRename, Calls, j, dst
    <3>2. dst \in back'[j] /\ file'[j] = dst
      BY <1>2, <1>5 DEF TypeOK
    <3> QED
      BY <1>4, <3>1, <3>2 DEF CallInv, Renamed
  <2>2. CASE g # h
    <3>1. op'[g] = op[g] /\ op[g] \in Calls
      BY <1>6, <1>11, <2>2, CallTyped DEF TypeOK
    <3>2. PICK c \in Calls : c = op[g]
      BY <3>1
    <3>3. CallInv(c) /\ c.pc # "idle"
      BY <1>11, <3>1, <3>2 DEF DurableInv
    <3>4. c.job \in Jobs /\ c.src \in Names /\ c.dst \in Names
      BY DEF Calls
    <3>5. c.kind = "ack" /\ c.pc # "rename" => file'[c.job] = c.dst
      <4>1. c.kind = "ack" /\ c.pc # "rename" => file[c.job].st = "receipt" /\ file[c.job] = c.dst
        BY <3>3 DEF CallInv
      <4> QED
        BY <1>2, <1>4, <1>5, <3>4, <4>1 DEF TypeOK
    <3>6. CallInv(c)'
      BY <1>10, <3>3, <3>4, <3>5 DEF CallInv
    <3> QED
      BY <3>1, <3>2, <3>6 DEF CallInv, Renamed, Synced
  <2> QED
    BY <2>1, <2>2
<1>12. ASSUME NEW r \in acked PROVE r.name.st = "receipt" /\ back'[r.job] = {r.name}
  <2>1. r.job \in Jobs /\ r.name.st = "receipt" /\ back[r.job] = {r.name}
    BY DEF TypeOK, LeaseInfos, DurableInv
  <2>2. r.job # j
    BY <1>2, <1>4, <1>5, <1>7, <2>1 DEF RestoreInv
  <2> QED
    BY <1>2, <1>5, <2>1, <2>2 DEF TypeOK
<1> QED
  BY <1>5, <1>9, <1>11, <1>12 DEF DurableInv

\* A report made when nothing older than the destination can come back.
LEMMA DurableDone ==
    ASSUME TypeOK, DurableInv, Shrinks, NEW h \in Handles, Done(h),
           op[h].pc \in {"syncDst", "syncSrc", "verify"},
           \A m \in back'[op[h].job] : op[h].dst.gen <= m.gen
    PROVE  DurableInv'
<1> DEFINE j == op[h].job
           dst == op[h].dst
           info == [job |-> j, name |-> dst]
<1>1. op[h] \in Calls /\ CallInv(op[h])
  BY CallTyped DEF DurableInv
<1>2. j \in Jobs /\ dst \in Names /\ dst.gen \in Int
  BY <1>1 DEF Calls, Names
<1>3. /\ op' = [op EXCEPT ![h] = Idle]
      /\ committed' = [committed EXCEPT ![j] = IF committed[j] < dst.gen THEN dst.gen ELSE committed[j]]
      /\ leases' = IF op[h].kind \in {"claim", "renew"} THEN leases \cup {info} ELSE leases
      /\ acked' = IF op[h].kind = "ack" THEN acked \cup {info} ELSE acked
  BY DEF Done, Return
<1>4. /\ op[h].kind \in {"claim", "renew"} => dst.st = "leased"
      /\ op[h].kind = "ack" => dst.st = "receipt" /\ file[j] = dst
  BY <1>1 DEF CallInv
<1>5. \A m \in back'[j] : dst.gen <= m.gen
  OBVIOUS
<1> HIDE DEF j, dst
<1>6. \A k \in Jobs : file'[k] \in back'[k] /\ back'[k] \subseteq back[k] /\ file'[k] = file[k]
  BY DEF Shrinks
<1>7. ASSUME NEW k \in Jobs PROVE RestoreInv(k)'
  <2>1. CASE k # j
    BY <1>2, <1>3, <1>6, <2>1 DEF DurableInv, RestoreInv, TypeOK
  <2>2. CASE k = j
    <3>1. committed'[j] \in {committed[j], dst.gen}
      BY <1>2, <1>3 DEF TypeOK
    <3>2. \A n \in back'[j] : committed[j] <= n.gen
      BY <1>2, <1>6 DEF DurableInv, RestoreInv
    <3> QED
      BY <1>2, <1>5, <1>6, <2>2, <3>1, <3>2 DEF DurableInv, RestoreInv
  <2> QED
    BY <2>1, <2>2
<1>8. ASSUME NEW g \in Handles, (op[g].pc # "idle")' PROVE CallInv(op[g])'
  <2>1. g # h
    BY <1>3, <1>8 DEF TypeOK, Idle
  <2>2. op'[g] = op[g] /\ op[g] \in Calls
    BY <1>3, <1>8, <2>1, CallTyped DEF TypeOK
  <2>3. PICK c \in Calls : c = op[g]
    BY <2>2
  <2>4. CallInv(c)
    BY <1>8, <2>2, <2>3 DEF DurableInv
  <2>5. CallInv(c)'
    BY <2>4, CallKept
  <2> QED
    BY <2>2, <2>3, <2>5 DEF CallInv, Renamed, Synced
<1>9. ASSUME NEW l \in leases' PROVE l.name.st = "leased"
  BY <1>3, <1>4 DEF DurableInv
<1>10. ASSUME NEW r \in acked' PROVE r.name.st = "receipt" /\ back'[r.job] = {r.name}
  <2>1. CASE r \in acked
    <3>1. r.job \in Jobs
      BY <2>1 DEF TypeOK, LeaseInfos
    <3> QED
      BY <1>6, <2>1, <3>1 DEF DurableInv
  <2>2. CASE r \notin acked
    <3>1. r = info /\ op[h].kind = "ack"
      BY <1>3, <2>2
    <3>2. \A m \in back[j] : m.gen \in Int /\ m.gen <= dst.gen /\ (m.gen = dst.gen => m = dst)
      BY <1>2, <1>4, <3>1 DEF DurableInv, RestoreInv, TypeOK, Names
    <3>3. \A m \in back'[j] : m = dst
      BY <1>2, <1>5, <1>6, <3>2
    <3>4. back'[j] = {dst}
      BY <1>2, <1>6, <3>3
    <3> QED
      BY <1>4, <3>1, <3>4
  <2> QED
    BY <2>1, <2>2
<1> QED
  BY <1>7, <1>8, <1>9, <1>10 DEF DurableInv

\* The end of the barrier: a claim goes on to the payload, the others report.
LEMMA DurableBarrierDone ==
    ASSUME TypeOK, DurableInv, Shrinks, NEW h \in Handles, BarrierDone(h),
           op[h].pc \in {"syncDst", "syncSrc"},
           \A m \in back'[op[h].job] : op[h].dst.gen <= m.gen
    PROVE  DurableInv'
<1>1. CASE op[h].kind # "claim"
  BY <1>1, DurableDone DEF BarrierDone
<1>2. CASE op[h].kind = "claim"
  <2> DEFINE o == [op[h] EXCEPT !.pc = "verify"]
  <2>1. op[h] \in Calls /\ CallInv(op[h])
    BY CallTyped DEF DurableInv
  <2>2. /\ o.pc = "verify" /\ o.kind = "claim"
        /\ o.job = op[h].job /\ o.dst = op[h].dst /\ o.dst.st = "leased"
    BY <1>2, <2>1 DEF Calls, CallInv
  <2>3. op' = [op EXCEPT ![h] = o] /\ UNCHANGED <<committed, leases, acked>>
    BY <1>2 DEF BarrierDone, Goto, answers
  <2>4. \A m \in back'[o.job] : o.dst.gen <= m.gen
    BY <2>2
  <2> HIDE DEF o
  <2>5. PICK c : c = o
    OBVIOUS
  <2>6. CallInv(c)'
    BY <2>2, <2>4, <2>5 DEF CallInv, Synced
  <2> QED
    BY <2>3, <2>5, <2>6, DurableFrame
<1> QED
  BY <1>1, <1>2

\* A call that only goes on to its next phase.
LEMMA DurableGoto ==
    ASSUME TypeOK, DurableInv, Shrinks, NEW h \in Handles, NEW o \in Calls,
           op' = [op EXCEPT ![h] = o], CallInv(o)', UNCHANGED <<poisoned, answers>>
    PROVE  DurableInv'
BY DurableFrame DEF answers
=============================================================================
