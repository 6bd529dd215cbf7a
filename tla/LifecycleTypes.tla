--------------------------- MODULE LifecycleTypes ---------------------------
(***************************************************************************)
(* Type correctness of Lifecycle, for any number of jobs and handles, any  *)
(* limits and any bounds, and the facts about names it rests on.           *)
(***************************************************************************)
EXTENDS Lifecycle, TLAPS

\* next_common_fields keeps names well-typed and moves them one generation on.
LEMMA NextIdentityTyped ==
    ASSUME NEW n \in Names, NEW st \in States
    PROVE  /\ NextIdentity(n, st) \in Names
           /\ NextIdentity(n, st).gen = n.gen + 1
           /\ NextIdentity(n, st).st = st
BY DEF Names, States, Name, NextIdentity

\* So do the targets that each operation builds from it.
LEMMA NextNames ==
    ASSUME NEW n \in Names, TypeOK
    PROVE  /\ Ready(n) \in Names /\ Ready(n).gen = n.gen + 1
           /\ Dead(n) \in Names /\ Dead(n).gen = n.gen + 1
           /\ Quarantined(n) \in Names /\ Quarantined(n).gen = n.gen + 1
           /\ Receipt(n) \in Names /\ Receipt(n).gen = n.gen + 1 /\ Receipt(n).st = "receipt"
<1>1. Ready(n) \in Names /\ Ready(n).gen = n.gen + 1
  BY NextIdentityTyped DEF Ready, States
<1>2. Quarantined(n) \in Names /\ Quarantined(n).gen = n.gen + 1
  BY NextIdentityTyped DEF Quarantined, States
<1>3. Dead(n) \in Names /\ Dead(n).gen = n.gen + 1
  <2> DEFINE d == NextIdentity(n, "dead")
  <2>1. d \in Names /\ d.gen = n.gen + 1
    BY NextIdentityTyped DEF States
  <2> HIDE DEF d
  <2>2. [d EXCEPT !.bkt = wall] \in Names /\ [d EXCEPT !.bkt = wall].gen = n.gen + 1
    BY <2>1 DEF Names, TypeOK
  <2> QED
    BY <2>2 DEF Dead, d
<1>4. Receipt(n) \in Names /\ Receipt(n).gen = n.gen + 1 /\ Receipt(n).st = "receipt"
  <2> DEFINE d == NextIdentity(n, "receipt")
             r == [d EXCEPT !.tok = n.tok, !.bkt = wall]
  <2>1. d \in Names /\ d.gen = n.gen + 1 /\ d.st = "receipt"
    BY NextIdentityTyped DEF States
  <2> HIDE DEF d
  <2>2. r \in Names /\ r.gen = n.gen + 1 /\ r.st = "receipt"
    BY <2>1 DEF Names, TypeOK
  <2> QED
    BY <2>2 DEF Receipt, d
<1> QED
  BY <1>1, <1>2, <1>3, <1>4

\* A delayed successor, as a delayed retry builds it, is a name one generation on.
LEMMA NextDelayed ==
    ASSUME NEW n \in Names, NEW b \in Nat
    PROVE  Delayed(n, b) \in Names /\ Delayed(n, b).gen = n.gen + 1
<1> DEFINE d == NextIdentity(n, "delayed")
<1>1. d \in Names /\ d.gen = n.gen + 1
  BY NextIdentityTyped DEF States
<1> HIDE DEF d
<1>2. [d EXCEPT !.bkt = b] \in Names /\ [d EXCEPT !.bkt = b].gen = n.gen + 1
  BY <1>1 DEF Names
<1> QED
  BY <1>2 DEF Delayed, d

\* What an unlink leaves of a dead job counts as a name one generation on.
LEMMA NextRemoved ==
    ASSUME NEW n \in Names
    PROVE  Removed(n) \in Names /\ Removed(n).gen = n.gen + 1
<1> DEFINE d == NextIdentity(n, "removed")
<1>1. d \in Names /\ d.gen = n.gen + 1
  BY NextIdentityTyped DEF States
<1> HIDE DEF d
<1>2. [d EXCEPT !.bkt = n.bkt] \in Names /\ [d EXCEPT !.bkt = n.bkt].gen = n.gen + 1
  BY <1>1 DEF Names
<1> QED
  BY <1>2 DEF Removed, d

\* A leased successor, as claim and renew build it, is a name one generation on.
LEMMA NextLease ==
    ASSUME NEW n \in Names, NEW t \in Nat, NEW e \in Nat, TypeOK
    PROVE  /\ Leased(n, t, e) \in Names
           /\ Leased(n, t, e).gen = n.gen + 1
           /\ Leased(n, t, e).st = "leased"
<1> DEFINE d == NextIdentity(n, "leased")
           r == [d EXCEPT !.tok = t, !.dl = e, !.boot = boot]
<1>1. d \in Names /\ d.gen = n.gen + 1 /\ d.st = "leased"
  BY NextIdentityTyped DEF States
<1> HIDE DEF d
<1>2. r \in Names /\ r.gen = n.gen + 1 /\ r.st = "leased"
  BY <1>1 DEF Names, TypeOK
<1> QED
  BY <1>2 DEF Leased, d

\* The name of an unpublished job precedes every generation.
LEMMA HiddenName == Hidden \in Names /\ Hidden.gen = -1 /\ Hidden.st = "hidden"
BY DEF Hidden, Name, Names, States

\* A handle that is not idle holds a well-typed call.
LEMMA CallTyped ==
    ASSUME TypeOK, NEW h \in Handles, op[h].pc # "idle"
    PROVE  op[h] \in Calls
BY DEF TypeOK, Idle

\* A move begun between two names of a job leaves a well-typed call.
LEMMA BeginTyped ==
    ASSUME TypeOK, NEW h \in Handles, NEW kind \in Kinds \ {"none"}, NEW j \in Jobs,
           NEW src \in Names, NEW dst \in Names, Begin(h, kind, j, src, dst)
    PROVE  op' \in [Handles -> Calls \cup {Idle}]
BY DEF TypeOK, Begin, Call, Calls, Tickets, Phases

\* A call that goes on to its next phase stays well-typed.
LEMMA GotoTyped ==
    ASSUME TypeOK, NEW h \in Handles, NEW pc \in Phases \ {"idle"}, op[h].pc # "idle",
           Goto(h, pc)
    PROVE  op' \in [Handles -> Calls \cup {Idle}]
<1>1. op[h] \in Calls
  BY CallTyped
<1>2. [op[h] EXCEPT !.pc = pc] \in Calls
  BY <1>1 DEF Calls
<1> QED
  BY <1>2 DEF TypeOK, Goto

\* A call that ends leaves its handle idle.
LEMMA ReturnTyped ==
    ASSUME TypeOK, NEW h \in Handles, Return(h)
    PROVE  op' \in [Handles -> Calls \cup {Idle}]
BY DEF TypeOK, Return

\* An OutcomeUnknown answer adds a well-typed ticket and poisons the handle.
LEMMA UnknownTyped ==
    ASSUME TypeOK, NEW h \in Handles, NEW cause \in Causes, op[h].pc # "idle", Unknown(h, cause)
    PROVE  /\ op' \in [Handles -> Calls \cup {Idle}]
           /\ poisoned' \in [Handles -> Causes]
           /\ tickets' \subseteq Tickets
           /\ UNCHANGED <<leases, committed, acked, dupAcked, lost>>
<1>1. op[h] \in Calls
  BY CallTyped
<1>2. op[h].tkt \in Tickets
  BY <1>1 DEF Calls
<1>3. op' \in [Handles -> Calls \cup {Idle}]
  BY ReturnTyped DEF Unknown
<1> QED
  BY <1>2, <1>3 DEF TypeOK, Unknown

\* A committed answer adds well-typed leases, acks and commitments.
LEMMA DoneTyped ==
    ASSUME TypeOK, NEW h \in Handles, op[h].pc # "idle", Done(h)
    PROVE  /\ op' \in [Handles -> Calls \cup {Idle}]
           /\ committed' \in [Jobs -> Int]
           /\ leases' \subseteq LeaseInfos
           /\ acked' \subseteq LeaseInfos
           /\ UNCHANGED <<poisoned, tickets, dupAcked, lost>>
<1>1. op[h] \in Calls
  BY CallTyped
<1>2. op[h].dst \in Names /\ op[h].job \in Jobs
  BY <1>1 DEF Calls
<1>3. op[h].dst.gen \in Int
  BY <1>2 DEF Names
<1>4. [job |-> op[h].job, name |-> op[h].dst] \in LeaseInfos
  BY <1>2 DEF LeaseInfos
<1>5. op' \in [Handles -> Calls \cup {Idle}]
  BY ReturnTyped DEF Done
<1>6. committed' \in [Jobs -> Int]
  BY <1>2, <1>3 DEF TypeOK, Done
<1>7. leases' \subseteq LeaseInfos /\ acked' \subseteq LeaseInfos
  BY <1>4 DEF TypeOK, Done
<1> QED
  BY <1>5, <1>6, <1>7 DEF Done

\* An fsync of a directory only removes restorable names.
LEMMA FsyncTyped ==
    ASSUME TypeOK, NEW d, Fsync(d)
    PROVE  back' \in [Jobs -> SUBSET Names]
BY DEF TypeOK, Fsync

\* A consumer whose lease is gone is answered from the receipt or as lost.
LEMMA AnswerGoneTyped ==
    ASSUME TypeOK, NEW kind, NEW l \in LeaseInfos, AnswerGone(kind, l)
    PROVE  dupAcked' \subseteq LeaseInfos /\ lost' \subseteq LeaseInfos
BY DEF TypeOK, AnswerGone, LeaseInfos

\* The end of the durability barrier keeps every variable's type.
LEMMA BarrierDoneTyped ==
    ASSUME TypeOK, NEW h \in Handles, op[h].pc # "idle", BarrierDone(h)
    PROVE  /\ op' \in [Handles -> Calls \cup {Idle}]
           /\ committed' \in [Jobs -> Int]
           /\ leases' \subseteq LeaseInfos
           /\ acked' \subseteq LeaseInfos
           /\ UNCHANGED <<poisoned, tickets, dupAcked, lost>>
<1>1. CASE op[h].kind = "claim"
  <2>1. op' \in [Handles -> Calls \cup {Idle}]
    BY <1>1, GotoTyped DEF BarrierDone, Phases
  <2> QED
    BY <1>1, <2>1 DEF BarrierDone, answers, TypeOK
<1>2. CASE op[h].kind # "claim"
  BY <1>2, DoneTyped DEF BarrierDone
<1> QED
  BY <1>1, <1>2

\* Every destination of ack, retry, bury and renew is a name one generation on.
LEMMA ConsumerTargetsTyped ==
    ASSUME TypeOK, NEW l \in leases, NEW kind \in ConsumerKinds,
           NEW dst \in ConsumerTargets(kind, l)
    PROVE  /\ l.job \in Jobs /\ l.name \in Names
           /\ dst \in Names
           /\ dst.gen = l.name.gen + 1
           /\ kind = "renew" => dst.st = "leased"
           /\ kind = "ack" => dst.st = "receipt"
<1>1. l.job \in Jobs /\ l.name \in Names
  BY DEF TypeOK, LeaseInfos
<1>2. l.name.tok \in Nat
  BY <1>1 DEF Names
<1>3. CASE kind = "ack"
  BY <1>1, <1>3, NextNames DEF ConsumerTargets
<1>4. CASE kind = "bury"
  BY <1>1, <1>4, NextNames DEF ConsumerTargets
<1>5. CASE kind = "renew"
  <2>1. PICK d \in LeaseDurations : dst = Leased(l.name, l.name.tok, now + d)
    BY <1>5 DEF ConsumerTargets, RenewTargets
  <2>2. now + d \in Nat
    BY LifecycleConstants DEF TypeOK
  <2> QED
    BY <1>1, <1>2, <1>5, <2>1, <2>2, NextLease
<1>6. CASE kind = "retry"
  <2>1. dst \in RetryTargets(l.job, l.name)
    BY <1>6 DEF ConsumerTargets
  <2>2. CASE \E b \in (wall + 1)..MaxWall : dst = Delayed(l.name, b)
    <3>1. PICK b \in (wall + 1)..MaxWall : dst = Delayed(l.name, b)
      BY <2>2
    <3>2. b \in Nat
      BY LifecycleConstants DEF TypeOK
    <3> QED
      BY <1>1, <1>6, <3>1, <3>2, NextDelayed
  <2>3. CASE dst \in {Ready(l.name), Dead(l.name)}
    BY <1>1, <1>6, <2>3, NextNames
  <2> QED
    BY <2>1, <2>2, <2>3 DEF RetryTargets
<1> QED
  BY <1>3, <1>4, <1>5, <1>6 DEF ConsumerKinds

----------------------------------------------------------------------------
(* Every step keeps the types.                                              *)

\* A fresh queue is well-typed.
LEMMA TypeInit == Init => TypeOK
BY HiddenName DEF Init, TypeOK, Causes

\* The first step of every call: only `op' changes, or an answer is recorded.
LEMMA TypeBegin ==
    ASSUME TypeOK, NEW h \in Handles,
           EnqueueBegin(h) \/ ClaimBegin(h) \/ ConsumerBegin(h) \/ ConsumerGone(h)
             \/ ReapBegin(h) \/ PromoteBegin(h) \/ Compact(h) \/ RemoveBegin(h)
             \/ AuthorityLost(h)
    PROVE  TypeOK'
<1> USE DEF namespace, clocks, answers
<1>1. CASE EnqueueBegin(h)
  <2>1. PICK j \in Jobs, kind \in EnqueueKinds,
              dst \in {Ready(Hidden)} \cup {Delayed(Hidden, b) : b \in (wall + 1)..MaxWall} :
           Begin(h, kind, j, Hidden, dst)
    BY <1>1 DEF EnqueueBegin
  <2>2. \A b \in (wall + 1)..MaxWall : b \in Nat
    BY LifecycleConstants DEF TypeOK
  <2>3. dst \in Names
    BY <2>2, HiddenName, NextNames, NextDelayed
  <2>4. kind \in Kinds \ {"none"}
    BY LifecycleConstants DEF Kinds
  <2>5. op' \in [Handles -> Calls \cup {Idle}]
    BY <2>1, <2>3, <2>4, HiddenName, BeginTyped
  <2> QED
    BY <1>1, <2>5 DEF EnqueueBegin, TypeOK
<1>2. CASE ClaimBegin(h)
  <2>1. PICK j \in Jobs, d \in LeaseDurations :
           /\ Begin(h, "claim", j, file[j], Leased(file[j], tokens + 1, now + d))
           /\ tokens' = tokens + 1
    BY <1>2 DEF ClaimBegin
  <2>2. now + d \in Nat /\ tokens + 1 \in Nat /\ file[j] \in Names
    BY LifecycleConstants DEF TypeOK
  <2>3. Leased(file[j], tokens + 1, now + d) \in Names
    BY <2>2, NextLease
  <2>4. op' \in [Handles -> Calls \cup {Idle}]
    BY <2>1, <2>2, <2>3, BeginTyped DEF Kinds
  <2> QED
    BY <1>2, <2>1, <2>2, <2>4 DEF ClaimBegin, TypeOK
<1>3. CASE ConsumerBegin(h)
  <2>0. PICK l \in leases, kind \in ConsumerKinds :
           \E dst \in ConsumerTargets(kind, l) : Begin(h, kind, l.job, l.name, dst)
    BY <1>3 DEF ConsumerBegin
  <2>1. PICK dst \in ConsumerTargets(kind, l) : Begin(h, kind, l.job, l.name, dst)
    BY <2>0
  <2>2. l.job \in Jobs /\ l.name \in Names /\ dst \in Names
    BY ConsumerTargetsTyped
  <2>3. op' \in [Handles -> Calls \cup {Idle}]
    BY <2>1, <2>2, BeginTyped DEF Kinds, ConsumerKinds
  <2> QED
    BY <1>3, <2>3 DEF ConsumerBegin, TypeOK
<1>4. CASE ConsumerGone(h)
  <2>1. PICK l \in leases, kind \in ConsumerKinds : AnswerGone(kind, l)
    BY <1>4 DEF ConsumerGone
  <2>2. dupAcked' \subseteq LeaseInfos /\ lost' \subseteq LeaseInfos
    BY <2>1, AnswerGoneTyped DEF TypeOK
  <2> QED
    BY <1>4, <2>2 DEF ConsumerGone, TypeOK
<1>5. CASE ReapBegin(h)
  <2>1. PICK j \in Jobs :
           Begin(h, "reap", j, file[j],
                 IF file[j].att >= MaximumAttempts[j] THEN Dead(file[j]) ELSE Ready(file[j]))
    BY <1>5 DEF ReapBegin
  <2>2. file[j] \in Names /\ Dead(file[j]) \in Names /\ Ready(file[j]) \in Names
    BY NextNames DEF TypeOK
  <2>3. op' \in [Handles -> Calls \cup {Idle}]
    BY <2>1, <2>2, BeginTyped DEF Kinds, RecoveryKinds
  <2> QED
    BY <1>5, <2>3 DEF ReapBegin, TypeOK
<1>6. CASE PromoteBegin(h)
  <2>1. PICK j \in Jobs : Begin(h, "promote", j, file[j], Ready(file[j]))
    BY <1>6 DEF PromoteBegin
  <2>2. file[j] \in Names /\ Ready(file[j]) \in Names
    BY NextNames DEF TypeOK
  <2>3. op' \in [Handles -> Calls \cup {Idle}]
    BY <2>1, <2>2, BeginTyped DEF Kinds, RecoveryKinds
  <2> QED
    BY <1>6, <2>3 DEF PromoteBegin, TypeOK
<1>7. CASE AuthorityLost(h)
  BY <1>7 DEF AuthorityLost, TypeOK, Causes
<1>8. CASE Compact(h)
  <2>1. PICK j \in Jobs : compact' = compact \cup {j} /\ (Fsync(Dir(file[j])) \/ UNCHANGED back)
    BY <1>8 DEF Compact
  <2>2. back' \in [Jobs -> SUBSET Names]
    BY <2>1, FsyncTyped DEF TypeOK
  <2> QED
    BY <1>8, <2>1, <2>2 DEF Compact, TypeOK
<1>9. CASE RemoveBegin(h)
  <2>1. PICK j \in Jobs : Begin(h, "remove", j, file[j], Removed(file[j]))
    BY <1>9 DEF RemoveBegin
  <2>2. file[j] \in Names /\ Removed(file[j]) \in Names
    BY NextRemoved DEF TypeOK
  <2>3. op' \in [Handles -> Calls \cup {Idle}]
    BY <2>1, <2>2, BeginTyped DEF Kinds
  <2> QED
    BY <1>9, <2>3 DEF RemoveBegin, TypeOK
<1> QED
  BY <1>1, <1>2, <1>3, <1>4, <1>5, <1>6, <1>7, <1>8, <1>9

\* The steps of a move: rename, destination check, fsyncs, payload check.
LEMMA TypeMove ==
    ASSUME TypeOK, NEW h \in Handles, Move(h)
    PROVE  TypeOK'
<1> USE DEF namespace, clocks, answers
<1>0. /\ op[h].pc # "idle" => op[h].job \in Jobs /\ op[h].src \in Names /\ op[h].dst \in Names
                                /\ op[h].tkt \in Tickets /\ op[h].kind \in Kinds
  BY CallTyped DEF Calls
<1>f. Faults \subseteq Causes /\ "raced" \in Causes /\ "io" \in Causes
  BY LifecycleConstants DEF Causes
<1>1. CASE Rename(h)
  <2>1. op[h].pc # "idle"
    BY <1>1 DEF Rename, Moving
  <2>2. AfterRename(op[h].kind) \in Phases \ {"idle"}
    BY DEF AfterRename, Phases
  <2>3. op' \in [Handles -> Calls \cup {Idle}]
    BY <1>1, <2>1, <2>2, GotoTyped DEF Rename
  <2>4. file' \in [Jobs -> Names] /\ back' \in [Jobs -> SUBSET Names] /\ UNCHANGED compact
    BY <1>0, <1>1, <2>1 DEF Rename, Linearize, TypeOK
  <2> QED
    BY <1>1, <2>3, <2>4 DEF Rename, TypeOK
<1>2. CASE RenameGone(h)
  <2>1. op[h].pc # "idle"
    BY <1>2 DEF RenameGone, Moving
  <2>2. CASE op[h].kind \in ConsumerKinds
    <3>1. [job |-> op[h].job, name |-> op[h].src] \in LeaseInfos
      BY <1>0, <2>1 DEF LeaseInfos
    <3>2. /\ Return(h)
          /\ AnswerGone(op[h].kind, [job |-> op[h].job, name |-> op[h].src])
          /\ UNCHANGED <<poisoned, leases, tickets, committed, acked>>
      BY <1>2, <2>2 DEF RenameGone, ConsumerKinds
    <3>3. dupAcked' \subseteq LeaseInfos /\ lost' \subseteq LeaseInfos
      BY <3>1, <3>2, AnswerGoneTyped
    <3> QED
      BY <1>2, <3>2, <3>3, ReturnTyped DEF RenameGone, TypeOK
  <2>3. CASE op[h].kind = "quarantine"
    <3>1. Unknown(h, "raced")
      BY <1>2, <2>3 DEF RenameGone, ConsumerKinds
    <3> QED
      BY <1>2, <1>f, <2>1, <3>1, UnknownTyped DEF RenameGone, TypeOK
  <2>4. CASE op[h].kind \notin ConsumerKinds \cup {"quarantine"}
    BY <1>2, <2>4, ReturnTyped DEF RenameGone, TypeOK
  <2> QED
    BY <2>2, <2>3, <2>4
<1>3. CASE RenameFails(h)
  <2>1. PICK e \in Faults :
           IF op[h].kind = "quarantine" THEN Unknown(h, e)
           ELSE Return(h) /\ UNCHANGED <<poisoned, answers>>
    BY <1>3 DEF RenameFails
  <2>2. op[h].pc # "idle" /\ e \in Causes
    BY <1>3, <1>f DEF RenameFails, Moving
  <2>3. CASE op[h].kind = "quarantine"
    BY <1>3, <2>1, <2>2, <2>3, UnknownTyped DEF RenameFails, TypeOK
  <2>4. CASE op[h].kind # "quarantine"
    BY <1>3, <2>1, <2>4, ReturnTyped DEF RenameFails, TypeOK
  <2> QED
    BY <2>3, <2>4
<1>4. CASE Witness(h)
  <2>1. op[h].pc # "idle"
    BY <1>4 DEF Witness, Moving
  <2>2. CASE file[op[h].job] = op[h].dst /\ op[h].job \notin compact
    <3>1. op' \in [Handles -> Calls \cup {Idle}]
      BY <1>4, <2>1, <2>2, GotoTyped DEF Witness, Phases
    <3> QED
      BY <1>4, <2>2, <3>1 DEF Witness, TypeOK
  <2>3. CASE ~(file[op[h].job] = op[h].dst /\ op[h].job \notin compact)
    <3>1. Unknown(h, "raced")
      BY <1>4, <2>3 DEF Witness
    <3> QED
      BY <1>4, <1>f, <2>1, <3>1, UnknownTyped DEF Witness, TypeOK
  <2> QED
    BY <2>2, <2>3
<1>5. CASE SyncDst(h)
  <2>1. op[h].pc # "idle"
    BY <1>5 DEF SyncDst, Moving
  <2>2. back' \in [Jobs -> SUBSET Names]
    BY <1>5, FsyncTyped DEF SyncDst
  <2>3. CASE OneDirectory(op[h])
    BY <1>5, <2>1, <2>2, <2>3, BarrierDoneTyped DEF SyncDst, TypeOK
  <2>4. CASE ~OneDirectory(op[h])
    <3>1. op' \in [Handles -> Calls \cup {Idle}]
      BY <1>5, <2>1, <2>4, GotoTyped DEF SyncDst, Phases
    <3> QED
      BY <1>5, <2>2, <2>4, <3>1 DEF SyncDst, TypeOK
  <2> QED
    BY <2>3, <2>4
<1>6. CASE SyncSrc(h)
  <2>1. op[h].pc # "idle"
    BY <1>6 DEF SyncSrc, Moving
  <2>2. back' \in [Jobs -> SUBSET Names]
    BY <1>6, FsyncTyped DEF SyncSrc
  <2> QED
    BY <1>6, <2>1, <2>2, BarrierDoneTyped DEF SyncSrc, TypeOK
<1>7. CASE BarrierFails(h)
  <2>1. PICK e \in Faults : Unknown(h, e)
    BY <1>7 DEF BarrierFails
  <2>2. op[h].pc # "idle" /\ e \in Causes
    BY <1>7, <1>f DEF BarrierFails
  <2> QED
    BY <1>7, <2>1, <2>2, UnknownTyped DEF BarrierFails, TypeOK
<1>8. CASE Verify(h)
  <2>1. op[h].pc # "idle"
    BY <1>8 DEF Verify, Moving
  <2>2. CASE op[h].job \in CorruptJobs
    <3>1. Quarantined(op[h].dst) \in Names
      BY <1>0, <2>1, NextNames
    <3>2. Call("rename", "quarantine", op[h].job, op[h].dst, Quarantined(op[h].dst), op[h].tkt)
            \in Calls
      BY <1>0, <2>1, <3>1 DEF Call, Calls, Phases, Kinds
    <3>3. op' \in [Handles -> Calls \cup {Idle}]
      BY <1>8, <2>2, <3>2 DEF Verify, TypeOK
    <3> QED
      BY <1>8, <2>2, <3>3 DEF Verify, TypeOK
  <2>3. CASE op[h].job \notin CorruptJobs
    BY <1>8, <2>1, <2>3, DoneTyped DEF Verify, TypeOK
  <2> QED
    BY <2>2, <2>3
<1>9. CASE VerifyFails(h)
  <2>1. op[h].pc # "idle"
    BY <1>9 DEF VerifyFails, Moving
  <2> QED
    BY <1>9, <1>f, <2>1, UnknownTyped DEF VerifyFails, TypeOK
<1> QED
  BY <1>1, <1>2, <1>3, <1>4, <1>5, <1>6, <1>7, <1>8, <1>9 DEF Move

\* The steps of resolve.
LEMMA TypeResolve ==
    ASSUME TypeOK, NEW h \in Handles, Resolve(h)
    PROVE  TypeOK'
<1> USE DEF namespace, clocks, answers
<1>1. CASE ResolveBegin(h)
  <2>1. PICK t \in tickets :
           op' = [op EXCEPT ![h] = Call(IF file[t.job] = t.src THEN "srcSeen" ELSE "srcAbsent",
                                        "resolve", t.job, t.src, t.dst, t)]
    BY <1>1 DEF ResolveBegin
  <2>2. t \in Tickets /\ t.job \in Jobs /\ t.src \in Names /\ t.dst \in Names
    BY DEF TypeOK, Tickets
  <2>3. Call(IF file[t.job] = t.src THEN "srcSeen" ELSE "srcAbsent",
             "resolve", t.job, t.src, t.dst, t) \in Calls
    BY <2>2 DEF Call, Calls, Phases, Kinds
  <2>4. op' \in [Handles -> Calls \cup {Idle}]
    BY <2>1, <2>3 DEF TypeOK
  <2> QED
    BY <1>1, <2>4 DEF ResolveBegin, TypeOK
<1>2. CASE ResolveProbe(h)
  <2>1. op[h] \in Calls
    BY <1>2, CallTyped DEF ResolveProbe
  <2>2. op[h].src \in Names /\ op[h].dst \in Names
    BY <2>1 DEF Calls
  <2>3. CASE Return(h)
    BY <1>2, <2>3, ReturnTyped DEF ResolveProbe, TypeOK
  <2>4. CASE \E n \in {op[h].src, op[h].dst} :
               op' = [op EXCEPT ![h].pc = "stabilize", ![h].dst = n]
    <3>1. PICK n \in {op[h].src, op[h].dst} :
             op' = [op EXCEPT ![h].pc = "stabilize", ![h].dst = n]
      BY <2>4
    <3>2. [[op[h] EXCEPT !.pc = "stabilize"] EXCEPT !.dst = n] \in Calls
      BY <2>1, <2>2 DEF Calls, Phases
    <3>3. op' \in [Handles -> Calls \cup {Idle}]
      BY <3>1, <3>2 DEF TypeOK
    <3> QED
      BY <1>2, <3>3 DEF ResolveProbe, TypeOK
  <2> QED
    BY <1>2, <2>3, <2>4 DEF ResolveProbe
<1>3. CASE Stabilize(h)
  <2>1. op[h].pc # "idle"
    BY <1>3 DEF Stabilize, Moving
  <2>2. back' \in [Jobs -> SUBSET Names]
    BY <1>3, FsyncTyped DEF Stabilize
  <2>3. op' \in [Handles -> Calls \cup {Idle}]
    BY <1>3, <2>1, GotoTyped DEF Stabilize, Phases
  <2> QED
    BY <1>3, <2>2, <2>3 DEF Stabilize, TypeOK
<1>4. CASE StabilizeFails(h)
  BY <1>4, ReturnTyped DEF StabilizeFails, TypeOK
<1>5. CASE Recheck(h)
  <2>1. op[h] \in Calls
    BY <1>5, CallTyped DEF Recheck, Moving
  <2>2. op[h].job \in Jobs /\ op[h].dst.gen \in Int
    BY <2>1 DEF Calls, Names
  <2>3. committed' \in [Jobs -> Int]
    BY <1>5, <2>2 DEF Recheck, TypeOK
  <2> QED
    BY <1>5, <2>3, ReturnTyped DEF Recheck, TypeOK
<1> QED
  BY <1>1, <1>2, <1>3, <1>4, <1>5 DEF Resolve

\* Process deaths, power losses and the clocks.
LEMMA TypeEnvironment ==
    ASSUME TypeOK, (\E h \in Handles : Reopen(h)) \/ PowerLoss \/ Tick \/ WallTick
    PROVE  TypeOK'
<1> USE DEF namespace, clocks, answers
<1>1. ASSUME NEW h \in Handles, Reopen(h) PROVE TypeOK'
  BY <1>1, ReturnTyped DEF Reopen, TypeOK, Causes
<1>2. CASE PowerLoss
  <2>1. file' \in [Jobs -> Names]
    BY <1>2 DEF PowerLoss, TypeOK
  <2>2. back' \in [Jobs -> SUBSET Names]
    BY <1>2, <2>1 DEF PowerLoss
  <2>3. boot' \in Nat /\ now' \in Nat
    BY <1>2 DEF PowerLoss, TypeOK
  <2>4. op' \in [Handles -> Calls \cup {Idle}] /\ poisoned' \in [Handles -> Causes]
    BY <1>2 DEF PowerLoss, Causes
  <2> QED
    BY <1>2, <2>1, <2>2, <2>3, <2>4 DEF PowerLoss, TypeOK
<1>3. CASE Tick
  BY <1>3 DEF Tick, TypeOK
<1>4. CASE WallTick
  BY <1>4 DEF WallTick, TypeOK
<1> QED
  BY <1>1, <1>2, <1>3, <1>4

\* Every step of every handle, of the clocks and of the power supply keeps the types.
LEMMA TypeNext == TypeOK /\ [Next]_vars => TypeOK'
<1> SUFFICES ASSUME TypeOK, [Next]_vars PROVE TypeOK'
  OBVIOUS
<1>1. CASE Next
  BY <1>1, TypeBegin, TypeMove, TypeResolve, TypeEnvironment DEF Next
<1>2. CASE UNCHANGED vars
  BY <1>2 DEF vars, TypeOK
<1> QED
  BY <1>1, <1>2

\* Type correctness of the whole life of jobs, for every number of jobs and
\* handles, every fault and every interleaving.
THEOREM TypeCorrect == Spec => []TypeOK
<1>1. Init => TypeOK
  BY TypeInit
<1>2. TypeOK /\ [Next]_vars => TypeOK'
  BY TypeNext
<1> QED
  BY <1>1, <1>2, PTL DEF Spec
=============================================================================
