------------------------ MODULE LifecycleRefinement ------------------------
(***************************************************************************)
(* Lifecycle implements Queue, for any number of jobs and handles, any     *)
(* limits and any faults.                                                  *)
(***************************************************************************)
EXTENDS LifecycleSurvival

\* Between calls nothing is about to be renamed.
LEMMA IdleLegal == Idle.pc # "rename"
BY DEF Idle

\* A call put to work at any other step than the rename keeps LegalInv.
LEMMA LegalFrame ==
    ASSUME LegalInv, NEW h \in Handles, NEW o, o.pc # "rename",
           op \in [Handles -> Calls \cup {Idle}], op' = [op EXCEPT ![h] = o]
    PROVE  LegalInv'
BY DEF LegalInv

\* A call put to work with a transition of Queue keeps it.
LEMMA LegalBegin ==
    ASSUME TypeOK, LegalInv, NEW h \in Handles, NEW kind, NEW j, NEW src, NEW dst, NEW tkt,
           Abstract!Follows(j, View(src), View(dst)),
           op' = [op EXCEPT ![h] = Call("rename", kind, j, src, dst, tkt)]
    PROVE  LegalInv'
<1>1. op \in [Handles -> Calls \cup {Idle}]
  BY DEF TypeOK
<1>2. op'[h].job = j /\ op'[h].src = src /\ op'[h].dst = dst
  BY <1>1 DEF Call
<1>3. \A g \in Handles \ {h} : op'[g] = op[g]
  BY <1>1
<1> QED
  BY <1>2, <1>3 DEF LegalInv

\* What next_common_fields makes of a leased name.
LEMMA LeasedFollows ==
    ASSUME NEW j \in Jobs, NEW n \in Names, n.st = "leased", NEW dst,
           dst.gen = n.gen + 1, dst.att = n.att,
           \/ dst.st \in {"leased", "dead", "receipt", "quarantine"}
           \/ dst.st \in {"ready", "delayed"} /\ n.att < MaximumAttempts[j]
    PROVE  Abstract!Follows(j, View(n), View(dst))
BY DEF Abstract!Follows, View

\* Only a claim counts an attempt, and each target is in the state it is named for.
LEMMA TargetFields ==
    ASSUME NEW n \in Names, NEW t, NEW e, NEW b
    PROVE  /\ Ready(n).st = "ready" /\ Ready(n).gen = n.gen + 1 /\ Ready(n).att = n.att
           /\ Dead(n).st = "dead" /\ Dead(n).gen = n.gen + 1 /\ Dead(n).att = n.att
           /\ Receipt(n).st = "receipt" /\ Receipt(n).gen = n.gen + 1 /\ Receipt(n).att = n.att
           /\ Quarantined(n).st = "quarantine" /\ Quarantined(n).gen = n.gen + 1
           /\ Quarantined(n).att = n.att
           /\ Removed(n).st = "removed" /\ Removed(n).gen = n.gen + 1 /\ Removed(n).att = n.att
           /\ Delayed(n, b).st = "delayed" /\ Delayed(n, b).gen = n.gen + 1
           /\ Delayed(n, b).att = n.att
           /\ Leased(n, t, e).st = "leased" /\ Leased(n, t, e).gen = n.gen + 1
           /\ Leased(n, t, e).att = IF n.st = "ready" THEN n.att + 1 ELSE n.att
BY DEF Names, NextIdentity, Name, Ready, Dead, Receipt, Quarantined, Removed,
       Delayed, Leased

\* A fresh queue has no call under way.
LEMMA LegalInit == Init => LegalInv
BY DEF Init, LegalInv, Idle

\* Each kind of call begins with a transition of Queue.
LEMMA LegalBegins ==
    ASSUME TypeOK, DurableInv, LegalInv, NEW h \in Handles,
           EnqueueBegin(h) \/ ClaimBegin(h) \/ ConsumerBegin(h) \/ ReapBegin(h)
             \/ PromoteBegin(h) \/ RemoveBegin(h)
    PROVE  LegalInv'
<1>0. \A j \in Jobs : file[j] \in Names /\ file[j].att \in Nat /\ MaximumAttempts[j] \in Nat
  BY LifecycleConstants DEF TypeOK, Names
<1>1. CASE EnqueueBegin(h)
  <2>1. PICK j \in Jobs, kind \in EnqueueKinds,
              dst \in {Ready(Hidden)} \cup {Delayed(Hidden, b) : b \in (wall + 1)..MaxWall} :
           Begin(h, kind, j, Hidden, dst)
    BY <1>1 DEF EnqueueBegin
  <2>2. Abstract!Follows(j, View(Hidden), View(dst))
    BY HiddenName, TargetFields DEF Abstract!Follows, View
  <2> QED
    BY <2>1, <2>2, LegalBegin DEF Begin
<1>2. CASE ClaimBegin(h)
  <2>1. PICK j \in Jobs, d \in LeaseDurations :
           /\ Begin(h, "claim", j, file[j], Leased(file[j], tokens + 1, now + d))
           /\ file[j].st = "ready" /\ file[j].att < MaximumAttempts[j]
    BY <1>2 DEF ClaimBegin
  <2>2. Abstract!Follows(j, View(file[j]), View(Leased(file[j], tokens + 1, now + d)))
    <3>1. PICK n : n = Leased(file[j], tokens + 1, now + d)
      OBVIOUS
    <3>2. n.st = "leased" /\ n.gen = file[j].gen + 1 /\ n.att = file[j].att + 1
      <4>1. file[j] \in Names /\ file[j].st = "ready"
        BY <1>0, <2>1
      <4> QED
        BY <3>1, <4>1 DEF Names, NextIdentity, Name, Leased
    <3>3. n.att <= MaximumAttempts[j]
      BY <1>0, <2>1, <3>2
    <3> QED
      BY <2>1, <3>1, <3>2, <3>3 DEF Abstract!Follows, View
  <2> QED
    BY <2>1, <2>2, LegalBegin DEF Begin
<1>3. CASE ConsumerBegin(h)
  <2>0. PICK l \in leases, kind \in ConsumerKinds :
           \E dst \in ConsumerTargets(kind, l) : Begin(h, kind, l.job, l.name, dst)
    BY <1>3 DEF ConsumerBegin
  <2>1. PICK dst \in ConsumerTargets(kind, l) : Begin(h, kind, l.job, l.name, dst)
    BY <2>0
  <2>2. /\ l.job \in Jobs /\ l.name \in Names /\ l.name.st = "leased"
        /\ l.name.att \in Nat /\ MaximumAttempts[l.job] \in Nat
    BY LifecycleConstants DEF TypeOK, LeaseInfos, DurableInv, Names
  <2>3. \/ dst \in {Receipt(l.name), Dead(l.name)}
        \/ \E d : dst = Leased(l.name, l.name.tok, now + d)
        \/ /\ l.name.att < MaximumAttempts[l.job]
           /\ dst = Ready(l.name) \/ \E b : dst = Delayed(l.name, b)
    BY <2>2 DEF ConsumerTargets, RenewTargets, RetryTargets, ConsumerKinds
  <2>4. Abstract!Follows(l.job, View(l.name), View(dst))
    <3>1. CASE dst \in {Receipt(l.name), Dead(l.name)}
      <4>1. dst.st \in {"receipt", "dead"} /\ dst.gen = l.name.gen + 1 /\ dst.att = l.name.att
        BY <2>2, <3>1 DEF Names, NextIdentity, Name, Dead, Receipt
      <4> QED
        BY <2>2, <4>1, LeasedFollows
    <3>2. CASE \E d : dst = Leased(l.name, l.name.tok, now + d)
      <4>1. dst.st = "leased" /\ dst.gen = l.name.gen + 1 /\ dst.att = l.name.att
        BY <2>2, <3>2 DEF Names, NextIdentity, Name, Leased
      <4> QED
        BY <2>2, <4>1, LeasedFollows
    <3>3. CASE l.name.att < MaximumAttempts[l.job] /\ (dst = Ready(l.name) \/ \E b : dst = Delayed(l.name, b))
      <4>1. dst.st \in {"ready", "delayed"} /\ dst.gen = l.name.gen + 1 /\ dst.att = l.name.att
        BY <2>2, <3>3 DEF Names, NextIdentity, Name, Ready, Delayed
      <4> QED
        BY <2>2, <3>3, <4>1, LeasedFollows
    <3> QED
      BY <2>3, <3>1, <3>2, <3>3
  <2> QED
    BY <2>1, <2>4, LegalBegin DEF Begin
<1>4. CASE ReapBegin(h)
  <2>1. PICK j \in Jobs :
           /\ Begin(h, "reap", j, file[j],
                    IF file[j].att >= MaximumAttempts[j] THEN Dead(file[j]) ELSE Ready(file[j]))
           /\ file[j].st = "leased"
    BY <1>4 DEF ReapBegin
  <2>2. Abstract!Follows(j, View(file[j]),
          View(IF file[j].att >= MaximumAttempts[j] THEN Dead(file[j]) ELSE Ready(file[j])))
    <3>1. CASE file[j].att >= MaximumAttempts[j]
      <4>1. Dead(file[j]).st = "dead" /\ Dead(file[j]).gen = file[j].gen + 1 /\ Dead(file[j]).att = file[j].att
        BY <1>0, TargetFields
      <4> QED
        BY <1>0, <2>1, <3>1, <4>1, LeasedFollows
    <3>2. CASE file[j].att < MaximumAttempts[j]
      <4>1. Ready(file[j]).st = "ready" /\ Ready(file[j]).gen = file[j].gen + 1 /\ Ready(file[j]).att = file[j].att
        BY <1>0, TargetFields
      <4> QED
        BY <1>0, <2>1, <3>2, <4>1, LeasedFollows
    <3> QED
      BY <1>0, <3>1, <3>2
  <2> QED
    BY <2>1, <2>2, LegalBegin DEF Begin
<1>5. CASE PromoteBegin(h)
  <2>1. PICK j \in Jobs :
           Begin(h, "promote", j, file[j], Ready(file[j])) /\ file[j].st = "delayed"
    BY <1>5 DEF PromoteBegin
  <2>2. Abstract!Follows(j, View(file[j]), View(Ready(file[j])))
    BY <1>0, <2>1, TargetFields DEF Abstract!Follows, View
  <2> QED
    BY <2>1, <2>2, LegalBegin DEF Begin
<1>6. CASE RemoveBegin(h)
  <2>1. PICK j \in Jobs :
           Begin(h, "remove", j, file[j], Removed(file[j])) /\ file[j].st = "dead"
    BY <1>6 DEF RemoveBegin
  <2>2. Abstract!Follows(j, View(file[j]), View(Removed(file[j])))
    BY <1>0, <2>1, TargetFields DEF Abstract!Follows, View
  <2> QED
    BY <2>1, <2>2, LegalBegin DEF Begin
<1> QED
  BY <1>1, <1>2, <1>3, <1>4, <1>5, <1>6

\* A call that moves on to a step other than the rename.
LEMMA LegalGoto ==
    ASSUME TypeOK, LegalInv, NEW h \in Handles, op[h].pc # "idle", NEW pc, pc # "rename",
           Goto(h, pc)
    PROVE  LegalInv'
<1>1. op[h] \in Calls
  BY CallTyped
<1>2. [op[h] EXCEPT !.pc = pc].pc = pc
  BY <1>1 DEF Calls
<1> QED
  BY <1>2, LegalFrame DEF Goto, TypeOK

\* A call that ends.
LEMMA LegalReturn ==
    ASSUME TypeOK, LegalInv, NEW h \in Handles, Return(h)
    PROVE  LegalInv'
BY IdleLegal, LegalFrame DEF Return, TypeOK

\* The end of the barrier.
LEMMA LegalBarrierDone ==
    ASSUME TypeOK, LegalInv, NEW h \in Handles, op[h].pc # "idle", BarrierDone(h)
    PROVE  LegalInv'
BY LegalGoto, LegalReturn DEF BarrierDone, Done

\* The steps of a move: the only one that prepares another rename is the payload
\* check, which quarantines what the call has just leased.
LEMMA LegalMove ==
    ASSUME TypeOK, DurableInv, LegalInv, NEW h \in Handles, Move(h)
    PROVE  LegalInv'
<1>1. CASE Rename(h)
  BY <1>1, LegalGoto DEF Rename, Moving, AfterRename
<1>2. CASE RenameGone(h) \/ RenameFails(h)
  BY <1>2, LegalReturn DEF RenameGone, RenameFails, Unknown
<1>3. CASE Witness(h)
  BY <1>3, LegalGoto, LegalReturn DEF Witness, Moving, Unknown
<1>4. CASE SyncDst(h)
  BY <1>4, LegalGoto, LegalBarrierDone DEF SyncDst, Moving
<1>5. CASE SyncSrc(h)
  BY <1>5, LegalBarrierDone DEF SyncSrc, Moving
<1>6. CASE BarrierFails(h) \/ VerifyFails(h)
  BY <1>6, LegalReturn DEF BarrierFails, VerifyFails, Unknown
<1>7. CASE Verify(h)
  <2>1. op[h].pc = "verify"
    BY <1>7 DEF Verify, Moving
  <2>2. op[h] \in Calls /\ CallInv(op[h])
    BY <2>1, CallTyped DEF DurableInv
  <2>3. op[h].job \in Jobs /\ op[h].dst \in Names /\ op[h].dst.st = "leased"
    BY <2>1, <2>2 DEF Calls, CallInv
  <2>4. Abstract!Follows(op[h].job, View(op[h].dst), View(Quarantined(op[h].dst)))
    BY <2>3, TargetFields, LeasedFollows
  <2> QED
    BY <1>7, <2>4, LegalBegin, LegalReturn DEF Verify, Done
<1> QED
  BY <1>1, <1>2, <1>3, <1>4, <1>5, <1>6, <1>7 DEF Move

\* resolve renames nothing.
LEMMA LegalResolve ==
    ASSUME TypeOK, LegalInv, NEW h \in Handles, Resolve(h)
    PROVE  LegalInv'
<1>1. CASE ResolveBegin(h)
  <2>1. PICK t \in tickets :
           op' = [op EXCEPT ![h] = Call(IF file[t.job] = t.src THEN "srcSeen" ELSE "srcAbsent",
                                        "resolve", t.job, t.src, t.dst, t)]
    BY <1>1 DEF ResolveBegin
  <2>2. PICK c : c = Call(IF file[t.job] = t.src THEN "srcSeen" ELSE "srcAbsent",
                          "resolve", t.job, t.src, t.dst, t)
    OBVIOUS
  <2>3. c.pc # "rename"
    BY <2>2 DEF Call
  <2>4. op' = [op EXCEPT ![h] = c]
    BY <2>1, <2>2
  <2> QED
    BY <2>3, <2>4, LegalFrame DEF TypeOK
<1>2. CASE ResolveProbe(h)
  <2>1. op[h].pc # "idle"
    BY <1>2 DEF ResolveProbe
  <2>2. CASE Return(h)
    BY <2>2, LegalReturn
  <2>3. CASE \E n : op' = [op EXCEPT ![h].pc = "stabilize", ![h].dst = n]
    <3>1. PICK n : op' = [op EXCEPT ![h].pc = "stabilize", ![h].dst = n]
      BY <2>3
    <3>2. PICK c : c = [op[h] EXCEPT !.pc = "stabilize", !.dst = n]
      OBVIOUS
    <3>3. c.pc = "stabilize"
      BY <2>1, <3>2, CallTyped DEF Calls
    <3>4. op \in [Handles -> Calls \cup {Idle}]
      BY DEF TypeOK
    <3>5. op' = [op EXCEPT ![h] = c]
      BY <3>1, <3>2, <3>4, Zenon
    <3> QED
      BY <3>3, <3>4, <3>5, LegalFrame
  <2> QED
    BY <1>2, <2>2, <2>3 DEF ResolveProbe
<1>3. CASE Stabilize(h)
  BY <1>3, LegalGoto DEF Stabilize, Moving
<1>4. CASE StabilizeFails(h) \/ Recheck(h)
  BY <1>4, LegalReturn DEF StabilizeFails, Recheck
<1> QED
  BY <1>1, <1>2, <1>3, <1>4 DEF Resolve

\* Every step keeps LegalInv.
LEMMA LegalNext == TypeOK /\ DurableInv /\ LegalInv /\ [Next]_vars => LegalInv'
<1> SUFFICES ASSUME TypeOK, DurableInv, LegalInv, [Next]_vars PROVE LegalInv'
  OBVIOUS
<1>1. ASSUME UNCHANGED op PROVE LegalInv'
  BY <1>1 DEF LegalInv
<1>2. ASSUME NEW h \in Handles, ConsumerGone(h) \/ Compact(h) \/ AuthorityLost(h) PROVE LegalInv'
  BY <1>1, <1>2 DEF ConsumerGone, Compact, AuthorityLost
<1>3. ASSUME NEW h \in Handles, Reopen(h) PROVE LegalInv'
  BY <1>3, LegalReturn DEF Reopen
<1>4. CASE PowerLoss
  BY <1>4, IdleLegal DEF PowerLoss, LegalInv
<1>5. CASE Tick \/ WallTick \/ UNCHANGED vars
  BY <1>1, <1>5 DEF Tick, WallTick, vars
<1> QED
  BY <1>2, <1>3, <1>4, <1>5, LegalBegins, LegalMove, LegalResolve DEF Next
----------------------------------------------------------------------------
(* Every step is a step of Queue or changes nothing that Queue can see.     *)

\* No answer takes back what was reported before.
LEMMA DoneReports ==
    ASSUME TypeOK, NEW h \in Handles, op[h].pc # "idle", Done(h)
    PROVE  \A j \in Jobs : committed[j] <= committed'[j]
<1>1. op[h].job \in Jobs /\ op[h].dst.gen \in Int
  BY CallTyped DEF Calls, Names
<1> QED
  BY <1>1 DEF Done, TypeOK

\* The same for the end of a barrier.
LEMMA BarrierReports ==
    ASSUME TypeOK, NEW h \in Handles, op[h].pc # "idle", BarrierDone(h)
    PROVE  \A j \in Jobs : committed[j] <= committed'[j]
BY DoneReports DEF BarrierDone, answers, TypeOK

\* A step that moves no file, restores nothing new and takes no report back.
LEMMA Settles ==
    ASSUME DurableInv, DurableInv', UNCHANGED file,
           \A j \in Jobs : back'[j] \subseteq back[j],
           \A j \in Jobs : committed[j] <= committed'[j]
    PROVE  Abstract!Settle
<1>1. \A j \in Jobs : RestoreInv(j)'
  BY DEF DurableInv
<1>2. \A j \in Jobs : file[j] \in back'[j] /\ \A n \in back'[j] : committed'[j] <= n.gen
  BY <1>1 DEF RestoreInv
<1> QED
  BY <1>2 DEF Abstract!Settle, View

\* A step that leaves files and reports alone.
LEMMA Stutters ==
    ASSUME TypeOK, DurableInv, DurableInv', UNCHANGED <<namespace, committed>>
    PROVE  Abstract!Settle
BY Settles DEF namespace, TypeOK

\* The linearization point is the step of Queue.
LEMMA RenameSteps ==
    ASSUME TypeOK, LegalInv, NEW h \in Handles, Rename(h)
    PROVE  \E j \in Jobs : Abstract!Step(j)
<1>0. PICK j : j = op[h].job
  OBVIOUS
<1> DEFINE s == [i \in Jobs |-> View(file[i])]
           r == [i \in Jobs |-> {View(n) : n \in back[i]}]
<1>1. op[h].pc = "rename" /\ file[j] = op[h].src /\ Linearize(j, op[h].dst) /\ UNCHANGED committed
  BY <1>0 DEF Rename, Moving, answers
<1>2. j \in Jobs
  BY <1>0, <1>1, CallTyped DEF Calls
<1>3. file' = [file EXCEPT ![j] = op[h].dst] /\ back' = [back EXCEPT ![j] = @ \cup {op[h].dst}]
  BY <1>1 DEF Linearize
<1>4. file'[j] = op[h].dst /\ back'[j] = back[j] \cup {op[h].dst}
  BY <1>2, <1>3 DEF TypeOK
<1>5. Abstract!Follows(j, View(file[j]), View(file'[j]))
  BY <1>0, <1>1, <1>4 DEF LegalInv
<1>6. \A i \in Jobs \ {j} : file'[i] = file[i] /\ back'[i] = back[i]
  BY <1>2, <1>3 DEF TypeOK
<1>7. [i \in Jobs |-> View(file'[i])] = [s EXCEPT ![j] = View(file'[j])]
  BY <1>2, <1>6
<1>8. {View(n) : n \in back'[j]} = {View(n) : n \in back[j]} \cup {View(file'[j])}
  BY <1>4
<1>9. [i \in Jobs |-> {View(n) : n \in back'[i]}]
        = [r EXCEPT ![j] = @ \cup {View(file'[j])}]
  BY <1>2, <1>6, <1>8
<1>10. Abstract!Step(j)
  BY <1>1, <1>2, <1>5, <1>7, <1>9 DEF Abstract!Step
<1> QED
  BY <1>2, <1>10

\* A power loss is one.
LEMMA PowerLossSteps ==
    ASSUME TypeOK, PowerLoss
    PROVE  Abstract!PowerLoss
<1>1. \A j \in Jobs : file'[j] \in back[j] /\ back'[j] = {file'[j]}
  BY DEF PowerLoss
<1>2. \A j \in Jobs : {View(n) : n \in back'[j]} = {View(file'[j])}
  BY <1>1
<1>3. UNCHANGED committed
  BY DEF PowerLoss, answers
<1> QED
  BY <1>1, <1>2, <1>3 DEF Abstract!PowerLoss
\* Every step.
LEMMA StepSimulation ==
    ASSUME TypeOK, DurableInv, DurableInv', LegalInv, [Next]_vars
    PROVE  Abstract!Next
<1> USE DEF answers
<1>1. ASSUME NEW h \in Handles,
             EnqueueBegin(h) \/ ClaimBegin(h) \/ ConsumerBegin(h) \/ ConsumerGone(h)
               \/ ReapBegin(h) \/ PromoteBegin(h) \/ RemoveBegin(h) \/ AuthorityLost(h)
               \/ Reopen(h)
      PROVE  Abstract!Settle
  BY <1>1, Stutters DEF EnqueueBegin, ClaimBegin, ConsumerBegin, ConsumerGone,
       ReapBegin, PromoteBegin, RemoveBegin, AuthorityLost, Reopen
<1>2. ASSUME NEW h \in Handles, Move(h)
      PROVE  Abstract!Next
  <2>1. CASE Rename(h)
    BY <2>1, RenameSteps DEF Abstract!Next
  <2>2. CASE RenameGone(h) \/ RenameFails(h) \/ Witness(h) \/ BarrierFails(h) \/ VerifyFails(h)
    BY <2>2, Stutters DEF RenameGone, RenameFails, Witness, BarrierFails, VerifyFails,
         Unknown, Abstract!Next
  <2>3. CASE SyncDst(h) \/ SyncSrc(h)
    <3>1. \A j \in Jobs : committed[j] <= committed'[j]
      <4>1. op[h].pc # "idle" /\ (BarrierDone(h) \/ UNCHANGED committed)
        BY <2>3 DEF SyncDst, SyncSrc, Moving
      <4>2. CASE BarrierDone(h)
        BY <4>1, <4>2, BarrierReports
      <4>3. CASE UNCHANGED committed
        BY <4>3 DEF TypeOK
      <4> QED
        BY <4>1, <4>2, <4>3
    <3>2. Shrinks
      BY <2>3, FsyncShrinks DEF SyncDst, SyncSrc
    <3> QED
      BY <3>1, <3>2, Settles DEF Shrinks, Abstract!Next
  <2>4. CASE Verify(h)
    <3>1. \A j \in Jobs : committed[j] <= committed'[j]
      BY <2>4, DoneReports DEF Verify, Moving, TypeOK
    <3> QED
      BY <2>4, <3>1, Settles DEF Verify, namespace, Abstract!Next
  <2> QED
    BY <1>2, <2>1, <2>2, <2>3, <2>4 DEF Move
<1>3. ASSUME NEW h \in Handles, Resolve(h)
      PROVE  Abstract!Settle
  <2>1. CASE ResolveBegin(h) \/ ResolveProbe(h) \/ StabilizeFails(h)
    BY <2>1, Stutters DEF ResolveBegin, ResolveProbe, StabilizeFails
  <2>2. CASE Stabilize(h)
    <3>1. Shrinks /\ UNCHANGED committed
      BY <2>2, FsyncShrinks DEF Stabilize
    <3> QED
      BY <3>1, Settles DEF Shrinks, TypeOK
  <2>3. CASE Recheck(h)
    <3>1. op[h].pc # "idle"
      BY <2>3 DEF Recheck, Moving
    <3>2. op[h].job \in Jobs /\ op[h].dst.gen \in Int
      BY <3>1, CallTyped DEF Calls, Names
    <3>3. \A j \in Jobs : committed[j] <= committed'[j]
      BY <2>3, <3>2 DEF Recheck, TypeOK
    <3> QED
      BY <2>3, <3>3, Settles DEF Recheck, namespace
  <2> QED
    BY <1>3, <2>1, <2>2, <2>3 DEF Resolve
<1>4. CASE PowerLoss
  BY <1>4, PowerLossSteps DEF Abstract!Next
<1>5. CASE Tick \/ WallTick \/ UNCHANGED vars
  BY <1>5, Stutters DEF Tick, WallTick, vars, namespace, Abstract!Next
<1>6. ASSUME NEW h \in Handles, Compact(h)
      PROVE  Abstract!Settle
  <2>1. PICK j \in Jobs : Fsync(Dir(file[j])) \/ UNCHANGED back
    BY <1>6 DEF Compact
  <2>2. UNCHANGED <<file, committed>>
    BY <1>6 DEF Compact
  <2>3. Shrinks
    BY <2>1, <2>2, FsyncShrinks, BackKept
  <2> QED
    BY <2>2, <2>3, Settles DEF Shrinks, TypeOK
<1> QED
  BY <1>1, <1>2, <1>3, <1>4, <1>5, <1>6 DEF Next, Abstract!Next

\* A fresh queue has published nothing.
LEMMA InitSimulation == Init => Abstract!Init
BY DEF Init, Abstract!Init, Abstract!Unpublished, View, Hidden, Name

\* The calls of any number of handles, with their interleavings, failures, process
\* deaths and power losses, implement Queue: only the protocol's transitions, one
\* attempt per claim, and never a fall below what a caller was told.
THEOREM LifecycleImplementsQueue == Spec => ImplementsQueue
<1>1. Init => Abstract!Init /\ LegalInv
  BY InitSimulation, LegalInit
<1>2. TypeOK /\ DurableInv /\ LegalInv /\ [Next]_vars => LegalInv'
  BY LegalNext
<1>3. TypeOK /\ DurableInv /\ DurableInv' /\ LegalInv /\ [Next]_vars
        => [Abstract!Next]_(Abstract!queue)
  BY StepSimulation
<1> QED
  BY <1>1, <1>2, <1>3, TypeCorrect, DurableAlways, PTL DEF Spec, ImplementsQueue, Abstract!Spec
=============================================================================
