------------------------- MODULE LifecycleSurvival -------------------------
(***************************************************************************)
(* What Lifecycle reports survives: the durability invariant is inductive, *)
(* for any number of jobs and handles, any limits and any faults.          *)
(***************************************************************************)
EXTENDS LifecycleDurability

\* The steps of a move.
LEMMA DurableMove ==
    ASSUME TypeOK, DurableInv, NEW h \in Handles, Move(h)
    PROVE  DurableInv'
<1>0. op[h].pc # "idle" => /\ op[h] \in Calls /\ CallInv(op[h])
                           /\ op[h].job \in Jobs /\ op[h].src \in Names /\ op[h].dst \in Names
  BY CallTyped DEF DurableInv, Calls
<1>1. CASE Rename(h)
  BY <1>1, DurableRename
<1>2. CASE RenameGone(h)
  <2>1. CASE op[h].kind = "quarantine"
    BY <1>2, <2>1, UnknownDurable DEF RenameGone, ConsumerKinds
  <2>2. CASE op[h].kind # "quarantine"
    BY <1>2, <2>2, ReturnDurable DEF RenameGone, answers
  <2> QED
    BY <2>1, <2>2
<1>3. CASE RenameFails(h)
  BY <1>3, ReturnDurable, UnknownDurable DEF RenameFails, answers
<1>4. CASE Witness(h)
  <2>1. CASE ~(file[op[h].job] = op[h].dst /\ op[h].job \notin compact)
    BY <1>4, <2>1, UnknownDurable DEF Witness
  <2>2. CASE file[op[h].job] = op[h].dst /\ op[h].job \notin compact
    <3>1. op[h].pc = "witness"
      BY <1>4 DEF Witness, Moving
    <3>2. PICK c \in Calls : c = [op[h] EXCEPT !.pc = "syncDst"]
      BY <1>0, <3>1 DEF Calls, Phases
    <3>3. op' = [op EXCEPT ![h] = c] /\ UNCHANGED namespace /\ UNCHANGED <<poisoned, answers>>
      BY <1>4, <2>2, <3>2 DEF Witness, Goto
    <3>4. CallInv(c)
      BY <1>0, <3>1, <3>2 DEF CallInv, Calls
    <3>5. Shrinks
      BY <3>3, StillShrinks
    <3>6. CallInv(c)'
      BY <3>4, <3>5, CallKept
    <3> QED
      BY <3>3, <3>5, <3>6, DurableGoto
  <2> QED
    BY <2>1, <2>2
<1>5. CASE SyncDst(h)
  <2>1. op[h].pc = "syncDst" /\ Fsync(Dir(op[h].dst))
    BY <1>5 DEF SyncDst, Moving
  <2>2. Shrinks
    BY <1>5, <2>1, FsyncShrinks DEF SyncDst
  <2>3. \A m \in back'[op[h].job] : op[h].dst.gen <= m.gen
    BY <1>0, <2>1, FsyncSyncs DEF CallInv
  <2>4. CASE OneDirectory(op[h])
    BY <1>5, <2>1, <2>2, <2>3, <2>4, DurableBarrierDone DEF SyncDst
  <2>5. CASE ~OneDirectory(op[h])
    <3>1. PICK c \in Calls : c = [op[h] EXCEPT !.pc = "syncSrc"]
      BY <1>0, <2>1 DEF Calls, Phases
    <3>2. op' = [op EXCEPT ![h] = c] /\ UNCHANGED <<poisoned, answers>>
      BY <1>5, <2>5, <3>1 DEF SyncDst, Goto
    <3>3. /\ c.pc = "syncSrc" /\ c.job = op[h].job /\ c.dst = op[h].dst /\ c.kind = op[h].kind
          /\ c.src = op[h].src
      BY <1>0, <2>1, <3>1 DEF Calls
    <3>4. PICK b \in Calls : b = op[h]
      BY <1>0, <2>1
    <3>5. CallInv(b)'
      BY <1>0, <2>1, <2>2, <3>4, CallKept
    <3>6. CallInv(c)'
      BY <2>1, <2>3, <3>3, <3>4, <3>5 DEF CallInv, Synced
    <3> QED
      BY <2>2, <3>2, <3>6, DurableGoto
  <2> QED
    BY <2>4, <2>5
<1>6. CASE SyncSrc(h)
  <2>1. op[h].pc = "syncSrc" /\ BarrierDone(h)
    BY <1>6 DEF SyncSrc, Moving
  <2>2. Shrinks
    BY <1>6, FsyncShrinks DEF SyncSrc
  <2>3. \A m \in back'[op[h].job] : op[h].dst.gen <= m.gen
    BY <1>0, <2>1, <2>2 DEF CallInv, Synced, Shrinks
  <2> QED
    BY <2>1, <2>2, <2>3, DurableBarrierDone
<1>7. CASE BarrierFails(h)
  BY <1>7, UnknownDurable DEF BarrierFails
<1>8. CASE Verify(h)
  <2>1. op[h].pc = "verify" /\ UNCHANGED namespace
    BY <1>8 DEF Verify, Moving
  <2>2. Shrinks
    BY <2>1, StillShrinks
  <2>3. CASE op[h].job \notin CorruptJobs
    <3>1. \A m \in back'[op[h].job] : op[h].dst.gen <= m.gen
      BY <1>0, <2>1 DEF CallInv, Synced, namespace
    <3> QED
      BY <1>8, <2>1, <2>2, <2>3, <3>1, DurableDone DEF Verify
  <2>4. CASE op[h].job \in CorruptJobs
    <3>1. op[h].dst.st = "leased"
      BY <1>0, <2>1 DEF CallInv
    <3>2. Quarantined(op[h].dst) \in Names /\ Quarantined(op[h].dst).gen = op[h].dst.gen + 1
      BY <1>0, <2>1, NextNames
    <3>3. PICK c \in Calls : c = Call("rename", "quarantine", op[h].job, op[h].dst,
                                      Quarantined(op[h].dst), op[h].tkt)
      BY <1>0, <2>1, <3>2 DEF Call, Calls, Phases, Kinds
    <3>4. op' = [op EXCEPT ![h] = c] /\ UNCHANGED <<poisoned, answers>>
      BY <1>8, <2>4, <3>3 DEF Verify
    <3>5. /\ c.pc = "rename" /\ c.kind = "quarantine" /\ c.src.st = "leased"
          /\ c.dst.gen = c.src.gen + 1
      BY <3>1, <3>2, <3>3 DEF Call
    <3>6. CallInv(c)'
      BY <3>5 DEF CallInv
    <3> QED
      BY <2>2, <3>4, <3>6, DurableGoto
  <2> QED
    BY <2>3, <2>4
<1>9. CASE VerifyFails(h)
  BY <1>9, UnknownDurable DEF VerifyFails
<1> QED
  BY <1>1, <1>2, <1>3, <1>4, <1>5, <1>6, <1>7, <1>8, <1>9 DEF Move

\* The steps of resolve: what it saw was renamed, and what it synced is synced.
LEMMA DurableResolve ==
    ASSUME TypeOK, DurableInv, NEW h \in Handles, Resolve(h)
    PROVE  DurableInv'
<1>0. op[h].pc # "idle" => /\ op[h] \in Calls /\ CallInv(op[h])
                           /\ op[h].job \in Jobs /\ op[h].src \in Names /\ op[h].dst \in Names
  BY CallTyped DEF DurableInv, Calls
<1>1. CASE ResolveBegin(h)
  <2>1. PICK t \in tickets :
           op' = [op EXCEPT ![h] = Call(IF file[t.job] = t.src THEN "srcSeen" ELSE "srcAbsent",
                                        "resolve", t.job, t.src, t.dst, t)]
    BY <1>1 DEF ResolveBegin
  <2>2. t \in Tickets /\ t.job \in Jobs /\ t.src \in Names /\ t.dst \in Names
    BY DEF TypeOK, Tickets
  <2>a. Call(IF file[t.job] = t.src THEN "srcSeen" ELSE "srcAbsent",
             "resolve", t.job, t.src, t.dst, t) \in Calls
    BY <2>2 DEF Call, Calls, Phases, Kinds
  <2>3. PICK c \in Calls : c = Call(IF file[t.job] = t.src THEN "srcSeen" ELSE "srcAbsent",
                                    "resolve", t.job, t.src, t.dst, t)
    BY <2>a
  <2>4. UNCHANGED namespace /\ UNCHANGED <<poisoned, answers>>
    BY <1>1 DEF ResolveBegin
  <2>5. /\ c.pc \in {"srcSeen", "srcAbsent"} /\ c.kind = "resolve"
        /\ c.pc = "srcSeen" => file[c.job] = c.src
        /\ c.job \in Jobs
    BY <2>2, <2>3 DEF Call
  <2>6. file'[c.job] \in back'[c.job] /\ file'[c.job] = file[c.job]
    BY <2>4, <2>5 DEF namespace, DurableInv, RestoreInv
  <2>7. CallInv(c)'
    BY <2>5, <2>6 DEF CallInv, Renamed
  <2>8. op' = [op EXCEPT ![h] = c]
    BY <2>1, <2>3
  <2> QED
    BY <2>4, <2>7, <2>8, StillShrinks, DurableGoto
<1>2. CASE ResolveProbe(h)
  <2> DEFINE seen == (IF op[h].pc = "srcSeen" THEN {op[h].src} ELSE {})
                       \cup (IF file[op[h].job] = op[h].dst THEN {op[h].dst} ELSE {})
  <2>1. op[h].pc \in {"srcSeen", "srcAbsent"} /\ UNCHANGED namespace
          /\ UNCHANGED <<poisoned, answers>>
    BY <1>2 DEF ResolveProbe
  <2>2. CASE Return(h)
    BY <2>1, <2>2, ReturnDurable DEF answers
  <2>3. CASE \E n \in seen : op' = [op EXCEPT ![h].pc = "stabilize", ![h].dst = n]
    <3>1. PICK n \in seen : op' = [op EXCEPT ![h].pc = "stabilize", ![h].dst = n]
      BY <2>3
    <3>2. n \in Names /\ Renamed(op[h].job, n)
      BY <1>0, <2>1 DEF CallInv, DurableInv, RestoreInv, Renamed
    <3>3. PICK c \in Calls : c = [[op[h] EXCEPT !.pc = "stabilize"] EXCEPT !.dst = n]
      BY <1>0, <2>1, <3>2 DEF Calls, Phases
    <3>4. op' = [op EXCEPT ![h] = c]
      BY <3>1, <3>3 DEF TypeOK
    <3>5. c.pc = "stabilize" /\ c.kind = "resolve" /\ c.job = op[h].job /\ c.dst = n
      BY <1>0, <2>1, <3>3 DEF Calls, CallInv
    <3>6. CallInv(c)
      BY <3>2, <3>5 DEF CallInv
    <3>7. CallInv(c)'
      BY <2>1, <3>6, StillShrinks, CallKept
    <3> QED
      BY <2>1, <3>4, <3>7, StillShrinks, DurableGoto
  <2> QED
    BY <1>2, <2>2, <2>3 DEF ResolveProbe
<1>3. CASE Stabilize(h)
  <2>1. op[h].pc = "stabilize" /\ Fsync(Dir(op[h].dst)) /\ UNCHANGED <<poisoned, answers>>
    BY <1>3 DEF Stabilize, Moving
  <2>2. Shrinks
    BY <1>3, <2>1, FsyncShrinks DEF Stabilize
  <2>3. \A m \in back'[op[h].job] : op[h].dst.gen <= m.gen
    BY <1>0, <2>1, FsyncSyncs DEF CallInv
  <2>4. PICK c \in Calls : c = [op[h] EXCEPT !.pc = "recheck"]
    BY <1>0, <2>1 DEF Calls, Phases
  <2>5. op' = [op EXCEPT ![h] = c]
    BY <1>3, <2>4 DEF Stabilize, Goto
  <2>6. c.pc = "recheck" /\ c.kind = "resolve" /\ c.job = op[h].job /\ c.dst = op[h].dst
    BY <1>0, <2>1, <2>4 DEF Calls, CallInv
  <2>7. CallInv(c)'
    BY <2>3, <2>6 DEF CallInv, Synced
  <2> QED
    BY <2>1, <2>2, <2>5, <2>7, DurableGoto
<1>4. CASE StabilizeFails(h)
  BY <1>4, ReturnDurable DEF StabilizeFails, answers
<1>5. CASE Recheck(h)
  <2>1. /\ op[h].pc = "recheck"
        /\ op' = [op EXCEPT ![h] = Idle]
        /\ UNCHANGED <<file, back, leases, acked>>
        /\ \A j \in Jobs : committed'[j] # committed[j] => j = op[h].job /\ committed'[j] = op[h].dst.gen
    BY <1>0, <1>5 DEF Recheck, Moving, Return, namespace, TypeOK
  <2>2. \A m \in back[op[h].job] : op[h].dst.gen <= m.gen
    BY <1>0, <2>1 DEF CallInv, Synced
  <2>3. ASSUME NEW j \in Jobs PROVE RestoreInv(j)'
    BY <2>1, <2>2 DEF DurableInv, RestoreInv
  <2>4. ASSUME NEW g \in Handles, (op[g].pc # "idle")' PROVE CallInv(op[g])'
    <3>1. op'[g] = op[g]
      BY <2>1, <2>4 DEF TypeOK, Idle
    <3> QED
      BY <2>1, <2>4, <3>1 DEF DurableInv, CallInv, Renamed, Synced
  <2> QED
    BY <2>1, <2>3, <2>4 DEF DurableInv
<1> QED
  BY <1>1, <1>2, <1>3, <1>4, <1>5 DEF Resolve

\* Process deaths, power losses and the clocks.  A power loss is where the
\* restorable names matter: one of them becomes the present one.
LEMMA DurableEnvironment ==
    ASSUME TypeOK, DurableInv, (\E h \in Handles : Reopen(h)) \/ PowerLoss \/ Tick \/ WallTick
    PROVE  DurableInv'
<1>1. ASSUME NEW h \in Handles, Reopen(h) PROVE DurableInv'
  BY <1>1, ReturnDurable DEF Reopen, answers
<1>2. CASE PowerLoss
  <2>1. /\ \A j \in Jobs : file'[j] \in back[j] /\ back'[j] = {file'[j]}
        /\ \A h \in Handles : op'[h].pc = "idle"
        /\ UNCHANGED <<committed, leases, acked>>
    BY <1>2 DEF PowerLoss, Idle, answers
  <2>2. \A j \in Jobs : file'[j].gen \in Int
    BY <2>1 DEF TypeOK, Names
  <2>3. ASSUME NEW j \in Jobs PROVE RestoreInv(j)'
    BY <2>1, <2>2 DEF DurableInv, RestoreInv
  <2>4. ASSUME NEW r \in acked PROVE r.name.st = "receipt" /\ back'[r.job] = {r.name}
    <3>1. r.job \in Jobs
      BY DEF TypeOK, LeaseInfos
    <3> QED
      BY <2>1, <3>1 DEF DurableInv
  <2> QED
    BY <2>1, <2>3, <2>4 DEF DurableInv
<1>3. CASE Tick \/ WallTick
  BY <1>3 DEF Tick, WallTick, DurableInv, RestoreInv, CallInv, Renamed, Synced, namespace, answers
<1> QED
  BY <1>1, <1>2, <1>3

\* A fresh queue satisfies the inductive invariant.
LEMMA DurableInit == Init => DurableInv
BY HiddenName DEF Init, DurableInv, RestoreInv, Idle

\* Every step keeps the inductive invariant.
LEMMA DurableNext == TypeOK /\ DurableInv /\ [Next]_vars => DurableInv'
<1> SUFFICES ASSUME TypeOK, DurableInv, [Next]_vars PROVE DurableInv'
  OBVIOUS
<1>1. CASE Next
  BY <1>1, DurableBegin, DurableMove, DurableResolve, DurableEnvironment DEF Next
<1>2. CASE UNCHANGED vars
  BY <1>2 DEF vars, DurableInv, RestoreInv, CallInv, Renamed, Synced
<1> QED
  BY <1>1, <1>2

\* At every step of every call, what a crash may restore is at least as new as
\* what has been reported (the barrier order of move_noreplace).
THEOREM DurableAlways == Spec => []DurableInv
<1>1. Init => DurableInv
  BY DurableInit
<1>2. TypeOK /\ DurableInv /\ [Next]_vars => DurableInv'
  BY DurableNext
<1> QED
  BY <1>1, <1>2, TypeCorrect, PTL DEF Spec

\* A reported transition is never undone, whatever processes die and however
\* often power is lost: no committed enqueue, claim, retry or ack is lost.
THEOREM CommittedAlwaysSurvives == Spec => []CommittedSurvives
<1>1. DurableInv => CommittedSurvives
  BY DEF DurableInv, RestoreInv, CommittedSurvives
<1> QED
  BY <1>1, DurableAlways, PTL

\* An acknowledged job keeps its receipt for ever: no reaper, no late consumer
\* call and no power loss brings it back.
THEOREM AckedAlwaysFinal == Spec => []AckedIsFinal
<1>1. TypeOK /\ DurableInv => AckedIsFinal
  BY DEF TypeOK, LeaseInfos, DurableInv, RestoreInv, AckedIsFinal
<1> QED
  BY <1>1, TypeCorrect, DurableAlways, PTL
=============================================================================
