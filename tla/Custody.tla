------------------------------ MODULE Custody ------------------------------
(***************************************************************************)
(* The actors that examine stored objects and set them aside: fsck with    *)
(* and without repair, receipt compaction and retention, the claim scan,   *)
(* the duplicate-ack probe, and the administration of the quarantine and   *)
(* the dead letters.  They share no lock except an advisory write lock on  *)
(* a receipt's inode, and each works on directory listings, stat results   *)
(* and descriptors that may be out of date when it acts.                   *)
(*                                                                         *)
(* An object is an inode, named by at most one path.  What is wrong with   *)
(* it is its defect, which tells the checks apart by where they look: the  *)
(* file name, the stat result, the bytes behind a descriptor, the payload. *)
(***************************************************************************)
EXTENDS Naturals, Sequences, FiniteSets, SequencesExt

CONSTANTS Jobs,          \* one stored object each
          Ids,           \* the quarantine identifiers the random source yields
          Admins,        \* administrators' calls
          None,
          NameAttempts,  \* QUARANTINE_NAME_ATTEMPTS
          MaxFaults,     \* system calls that fail
          MaxPasses,     \* recovery passes
          Scenarios      \* [cast, place, defect, expired]: who runs on what

VARIABLES names,    \* what each path names
          scene,    \* the scenario, fixed by Init
          locks,    \* who holds the write lock of an inode
          faults,
          blamed,   \* inodes of which a read failed (history)
          removed,  \* jobs an administrator or retention removed (history)
          moved,    \* paths whose object went away since fsck began (history)
          spent,    \* identifiers given out
          fsck, keeper, consumer, prober, admin

vars == <<names, scene, locks, faults, blamed, removed, moved, spent, fsck, keeper, consumer, prober, admin>>

\* "header" stands for every defect of the envelope, "limit" for a sound object
\* that this queue may not hold, "tag" for a name that does not belong where it is.
Defects == {"none", "name", "type", "links", "empty", "header", "size", "limit", "tag", "payload"}

Inodes == Jobs \X {"full", "compact"}
JobOf(i) == i[1]
Paths == ({"ready", "lease", "dead", "receipt", "temp"} \X Jobs) \cup ({"quarantine"} \X Ids)

\* A lease is named in the shard directory of its ready job.
Dir(p) == IF p[1] = "lease" THEN "ready"
          ELSE IF p[1] \in {"receipt", "temp"} THEN "receipts" ELSE p[1]
StateDirs == <<"ready", "leased", "delayed", "dead", "receipts">>

Named == {p \in Paths : names[p] # None}
Entries(d) == {p \in Named : Dir(p) = d}
Links(i) == Cardinality({p \in Paths : names[p] = i}) + IF scene.defect[JobOf(i)] = "links" THEN 1 ELSE 0
Defect(i) == IF i[2] = "compact" THEN "none" ELSE scene.defect[JobOf(i)]

Fault == faults < MaxFaults /\ faults' = faults + 1
NoFault == faults' = faults

\* An open-file-description lock goes with its descriptor.
Unlock(a) == locks' = [i \in Inodes |-> IF locks[i] = a THEN None ELSE locks[i]]

-----------------------------------------------------------------------------
(***************************************************************************)
(* File system operations                                                  *)
(***************************************************************************)

\* A directory stream returns every entry that stays from its opening to its
\* end, and may or may not return one that comes or goes in between.
Stream(d) == [seen |-> {}, must |-> Entries(d)]
NextEntry(s, d) == Entries(d) \ s.seen
StreamEnds(s) == s.must \cap Named \subseteq s.seen

Rename(p, q) == names' = [names EXCEPT ![p] = None, ![q] = names[p]] /\ moved' = moved \cup {p, q}
Unlink(p) == names' = [names EXCEPT ![p] = None] /\ moved' = moved \cup {p}
SameNames == UNCHANGED <<names, moved>>

\* A rename to a free name, and what it reports.
Transfer(p, q, outcome) ==
    \/ outcome = "missing" /\ names[p] = None /\ SameNames /\ NoFault
    \/ outcome = "ok" /\ names[p] # None /\ Rename(p, q) /\ NoFault
    \/ outcome = "unknown" /\ names[p] # None /\ Rename(p, q) /\ Fault
    \/ outcome = "not_committed" /\ SameNames /\ Fault

Outcomes == {"missing", "collision", "ok", "unknown", "not_committed"}

\* Variant: a rename that replaces.
move_replacing(p, q, outcome) == Transfer(p, q, outcome)

\* A rename to a name that may be taken never replaces.
move_noreplace(p, q, outcome) ==
    \/ outcome = "collision" /\ names[p] # None /\ names[q] # None /\ SameNames /\ NoFault
    \/ (names[q] = None \/ outcome \in {"missing", "not_committed"}) /\ Transfer(p, q, outcome)

unlink_verified(p, outcome) ==
    \/ outcome = "ok" /\ names[p] # None /\ Unlink(p) /\ NoFault
    \/ outcome = "unknown" /\ names[p] # None /\ Unlink(p) /\ Fault
    \/ outcome = "not_committed" /\ SameNames /\ Fault

\* A fresh identifier, or one that another object has already.
RandomId(id) == (id \in spent => <<"quarantine", id>> \in Named) /\ spent' = spent \cup {id}

\* The strict verification of a receipt behind a descriptor: it must still
\* have exactly one name, and its payload is always read.
verify_receipt_on_fd(i) == Links(i) = 1 /\ Defect(i) = "none"

\* Variant: the path is taken at its word.
any_identity(p, i) == names[p] # None

\* The path still names the inode that was opened.
receipt_path_identity_matches(p, i) == names[p] = i

-----------------------------------------------------------------------------
(***************************************************************************)
(* fsck                                                                    *)
(***************************************************************************)

Idle == [pc |-> "idle", repair |-> FALSE, deep |-> FALSE, dir |-> 1, stream |-> [seen |-> {}, must |-> {}],
         path |-> None, fd |-> None, tries |-> 0, findings |-> {}]

\* Everything but the file system and fsck itself.
OthersF == UNCHANGED <<scene, keeper, consumer, prober, admin>>
QuietF == OthersF /\ UNCHANGED <<names, moved, locks, removed, spent>>

Severe(what) == what \notin {"unexpected", "empty", "quarantined"}
Finding(f, what) == [f EXCEPT !.findings = @ \cup {<<f.path, what>>}]
Continue(f) == [f EXCEPT !.pc = "stream", !.path = None, !.fd = None, !.tries = 0]
NextDir(f) == [f EXCEPT !.pc = IF f.dir = Len(StateDirs) THEN "done" ELSE "dir", !.dir = @ + 1]

\* A check failed: it is reported, and in repair mode the object is set aside.
\* Only a receipt is locked first.
Reject(f, what, repair) == IF f.repair THEN [Finding(f, what) EXCEPT !.pc = repair] ELSE Continue(Finding(f, what))
Aside(f) == IF f.path[1] = "receipt" THEN "reopen" ELSE "publish"

FsckBegin ==
    /\ fsck.pc = "idle" /\ "fsck" \in scene.cast
    /\ \E repair, deep \in BOOLEAN : fsck' = [Idle EXCEPT !.pc = "dir", !.repair = repair, !.deep = deep]
    /\ moved' = {} /\ NoFault
    /\ OthersF /\ UNCHANGED <<names, locks, removed, spent, blamed>>

\* A directory that cannot be opened or listed is never taken for an empty one.
fsck_scan_incomplete(f) == [f EXCEPT !.findings = @ \cup {<<<<"dir", StateDirs[f.dir]>>, "incomplete">>}]

fsck_state_dir ==
    /\ fsck.pc = "dir"
    /\ \/ fsck' = [fsck EXCEPT !.pc = "stream", !.stream = Stream(StateDirs[fsck.dir])] /\ NoFault
       \/ fsck' = NextDir(fsck_scan_incomplete(fsck)) /\ Fault
    /\ QuietF /\ UNCHANGED blamed

\* The name is parsed before the file is looked at.
fsck_walk ==
    /\ fsck.pc = "stream"
    /\ \/ \E p \in NextEntry(fsck.stream, StateDirs[fsck.dir]) :
            LET f == [fsck EXCEPT !.stream.seen = @ \cup {p}, !.path = p] IN
            /\ fsck' = IF p[1] # "temp" /\ scene.defect[p[2]] = "name"
                       THEN Reject(f, "parse", Aside(f)) ELSE [f EXCEPT !.pc = "stat"]
            /\ NoFault
       \/ StreamEnds(fsck.stream) /\ fsck' = NextDir(fsck) /\ NoFault
       \/ fsck' = NextDir(fsck_scan_incomplete(fsck)) /\ Fault
    /\ QuietF /\ UNCHANGED blamed

\* An object that vanished was moved by its queue, not lost.
Vanished(f, what) == Continue(f)

FsckStat ==
    /\ fsck.pc = "stat"
    /\ LET i == names[fsck.path] IN
       \/ /\ fsck' = IF i = None THEN Vanished(fsck, "stat")
                     ELSE IF fsck.path[1] = "temp" THEN Continue(Finding(fsck, "unexpected"))
                     ELSE IF Defect(i) \in {"type", "links"} THEN Reject(fsck, Defect(i), Aside(fsck))
                     ELSE [fsck EXCEPT !.pc = "open"]
          /\ NoFault
       \/ fsck' = Continue(Finding(fsck, IF fsck.path[1] = "temp" THEN "incomplete" ELSE "stat")) /\ Fault
    /\ QuietF /\ UNCHANGED blamed

FsckOpen ==
    /\ fsck.pc = "open"
    /\ \/ /\ fsck' = IF names[fsck.path] = None THEN Vanished(fsck, "open")
                     ELSE [fsck EXCEPT !.pc = "verify", !.fd = names[fsck.path]]
          /\ NoFault
       \/ fsck' = Continue(Finding(fsck, "open")) /\ Fault
    /\ QuietF /\ UNCHANGED blamed

\* The bytes of a job are checked in the order of the file, then its place,
\* then, by a deep check only, its payload.
HeaderBad(d) == d \in {"empty", "header"}
SizeBad(d) == d \in {"size", "limit"}
PlacementBad(d) == d = "tag"
PayloadBad(f, d) == f.deep /\ d = "payload"

\* A header that cannot be read counts as corrupt, a payload only as unread.
fsck_file ==
    /\ fsck.pc = "verify" /\ fsck.path[1] # "receipt"
    /\ LET d == Defect(fsck.fd) IN
       \/ /\ fsck' = IF HeaderBad(d) \/ SizeBad(d) \/ PlacementBad(d) \/ PayloadBad(fsck, d)
                     THEN Reject(fsck, d, "publish") ELSE Continue(fsck)
          /\ NoFault /\ UNCHANGED blamed
       \/ fsck' = Reject(fsck, "unread", "publish") /\ blamed' = blamed \cup {fsck.fd} /\ Fault
       \/ /\ fsck.deep /\ d \in {"none", "payload"} /\ Fault /\ UNCHANGED blamed
          /\ fsck' = Continue(Finding(fsck, "payload_unread"))
    /\ QuietF

FsckReceipt ==
    /\ fsck.pc = "verify" /\ fsck.path[1] = "receipt"
    /\ \/ /\ fsck' = IF verify_receipt_on_fd(fsck.fd) THEN Continue(fsck)
                     ELSE Reject(fsck, "receipt", "lock")
          /\ NoFault /\ UNCHANGED blamed
       \/ fsck' = Reject(fsck, "receipt", "lock") /\ blamed' = blamed \cup {fsck.fd} /\ Fault
    /\ QuietF

\* A directory or a symbolic link does not open for writing.
CannotOpen(i) == Defect(i) = "type"

repair_quarantine_candidate ==
    /\ fsck.pc = "reopen"
    /\ \/ /\ fsck' = IF names[fsck.path] = None \/ CannotOpen(names[fsck.path]) THEN Continue(Finding(fsck, "failed"))
                     ELSE [fsck EXCEPT !.pc = "lock", !.fd = names[fsck.path]]
          /\ NoFault
       \/ fsck' = Continue(Finding(fsck, "failed")) /\ Fault
    /\ QuietF /\ UNCHANGED blamed

\* The inode that failed is locked, and must still be the one the path names.
quarantine_opened_object ==
    /\ \/ /\ fsck.pc = "lock" /\ locks[fsck.fd] = None
          /\ locks' = [locks EXCEPT ![fsck.fd] = "fsck"] /\ fsck' = [fsck EXCEPT !.pc = "identity"]
       \/ /\ fsck.pc = "lock" /\ locks[fsck.fd] # None
          /\ fsck' = Continue(Finding(fsck, "failed")) /\ UNCHANGED locks
       \/ /\ fsck.pc = "identity" /\ receipt_path_identity_matches(fsck.path, fsck.fd)
          /\ fsck' = [fsck EXCEPT !.pc = "publish"] /\ UNCHANGED locks
       \/ /\ fsck.pc = "identity" /\ ~receipt_path_identity_matches(fsck.path, fsck.fd)
          /\ fsck' = Continue(Finding(fsck, "failed")) /\ Unlock("fsck")
    /\ NoFault /\ OthersF /\ UNCHANGED <<names, moved, removed, spent, blamed>>

\* One attempt of publish_quarantine_object, and whether another follows.
Again(outcome, tries) == outcome = "collision" /\ tries + 1 < NameAttempts

quarantine_object ==
    /\ fsck.pc = "publish"
    /\ \E id \in Ids, o \in Outcomes :
        /\ RandomId(id) /\ move_noreplace(fsck.path, <<"quarantine", id>>, o)
        /\ IF Again(o, fsck.tries)
           THEN fsck' = [fsck EXCEPT !.tries = @ + 1] /\ UNCHANGED locks
           ELSE /\ fsck' = Continue(Finding(fsck, IF o = "ok" THEN "quarantined" ELSE "failed"))
                /\ Unlock("fsck")
    /\ OthersF /\ UNCHANGED <<removed, blamed>>

Fsck == \/ FsckBegin \/ fsck_state_dir \/ fsck_walk \/ FsckStat \/ FsckOpen \/ fsck_file \/ FsckReceipt
        \/ repair_quarantine_candidate \/ quarantine_opened_object \/ quarantine_object

-----------------------------------------------------------------------------
(***************************************************************************)
(* Receipt compaction and retention, by a pass that holds recovery.lock.   *)
(***************************************************************************)

Off == [pc |-> "idle", phase |-> "compact", todo |-> {},
        path |-> None, fd |-> None, tries |-> 0, passes |-> 0]

OthersK == UNCHANGED <<scene, fsck, consumer, prober, admin, blamed>>
QuietK == OthersK /\ UNCHANGED <<names, moved, locks, removed, spent>>

TempOf(p) == <<"temp", p[2]>>
Resume(k) == [k EXCEPT !.pc = "stream", !.path = None, !.fd = None, !.tries = 0]

KeeperBegin ==
    /\ keeper.pc = "idle" /\ "keeper" \in scene.cast /\ keeper.passes < MaxPasses
    /\ keeper' = [Off EXCEPT !.pc = "stream", !.todo = Entries("receipts"), !.passes = keeper.passes + 1]
    /\ NoFault /\ QuietK

\* A listing is read whole, and its entries may be gone when their turn comes.
\* Retention reads only the buckets whose time is over.
InPhase(k, p) == k.phase = "compact" \/ p[2] \in scene.expired

KeeperNext ==
    /\ keeper.pc = "stream"
    /\ \E p \in keeper.todo :
        LET k == [keeper EXCEPT !.todo = @ \ {p}] IN
        IF p[1] = "temp" /\ k.phase = "compact"
        THEN (\E o \in {"ok", "not_committed", "unknown"} : unlink_verified(p, o)) /\ keeper' = k
        ELSE /\ keeper' = IF p[1] = "temp" \/ ~InPhase(k, p) THEN k
                          ELSE [k EXCEPT !.path = p, !.pc = IF scene.defect[p[2]] = "name" THEN "publish" ELSE "open"]
             /\ NoFault /\ SameNames
    /\ OthersK /\ UNCHANGED <<locks, removed, spent>>

\* A missing receipt and a busy one are left for the next pass.
open_locked_receipt ==
    /\ LET i == names[keeper.path] IN
       \/ /\ keeper.pc = "open" /\ UNCHANGED locks
          /\ keeper' = IF i = None \/ CannotOpen(i) THEN Resume(keeper)
                       ELSE [keeper EXCEPT !.pc = "lock", !.fd = i]
       \/ /\ keeper.pc = "lock" /\ locks[keeper.fd] # None
          /\ keeper' = Resume(keeper) /\ UNCHANGED locks
       \/ /\ keeper.pc = "lock" /\ locks[keeper.fd] = None
          /\ keeper' = [keeper EXCEPT !.pc = "verify"]
          /\ locks' = [locks EXCEPT ![keeper.fd] = "keeper"]
    /\ NoFault /\ OthersK /\ UNCHANGED <<names, moved, removed, spent>>

\* A corrupt receipt is set aside; a failed read only recorded.
KeeperVerify ==
    /\ keeper.pc = "verify"
    /\ \/ /\ ~verify_receipt_on_fd(keeper.fd) /\ NoFault
          /\ keeper' = [keeper EXCEPT !.pc = "publish"] /\ UNCHANGED locks
       \/ /\ verify_receipt_on_fd(keeper.fd) /\ NoFault /\ ~(keeper.phase = "compact" /\ keeper.fd[2] = "compact")
          /\ keeper' = [keeper EXCEPT !.pc = IF keeper.phase = "compact" THEN "temp" ELSE "current"]
          /\ UNCHANGED locks
       \/ /\ verify_receipt_on_fd(keeper.fd) /\ NoFault /\ keeper.phase = "compact" /\ keeper.fd[2] = "compact"
          /\ keeper' = Resume(keeper) /\ Unlock("keeper")
       \/ keeper' = Resume(keeper) /\ Unlock("keeper") /\ Fault
    /\ OthersK /\ UNCHANGED <<names, moved, removed, spent>>

quarantine_recovery_object ==
    /\ keeper.pc = "publish"
    /\ \E id \in Ids, o \in Outcomes :
        /\ RandomId(id) /\ move_noreplace(keeper.path, <<"quarantine", id>>, o)
        /\ IF Again(o, keeper.tries)
           THEN keeper' = [keeper EXCEPT !.tries = @ + 1] /\ UNCHANGED locks
           ELSE keeper' = Resume(keeper) /\ Unlock("keeper")
    /\ OthersK /\ UNCHANGED removed

\* A failed write or sync of the temporary file removes it again.
WriteCompact ==
    /\ keeper.pc = "temp"
    /\ LET t == TempOf(keeper.path) IN
       \/ /\ names' = [names EXCEPT ![t] = <<JobOf(keeper.fd), "compact">>] /\ moved' = moved \cup {t}
          /\ keeper' = [keeper EXCEPT !.pc = "replace"] /\ NoFault /\ UNCHANGED locks
       \/ /\ SameNames /\ keeper' = Resume(keeper) /\ Unlock("keeper") /\ Fault
    /\ OthersK /\ UNCHANGED <<removed, spent>>

\* The receipt is looked up once more, and the new file renamed over it.  Only
\* the pass itself removes its temporary file.
replace_verified ==
    LET t == TempOf(keeper.path) IN
    /\ \/ /\ keeper.pc = "replace" /\ receipt_path_identity_matches(keeper.path, keeper.fd)
          /\ keeper' = [keeper EXCEPT !.pc = "rename"] /\ SameNames /\ NoFault /\ UNCHANGED locks
       \/ /\ keeper.pc = "replace" /\ ~receipt_path_identity_matches(keeper.path, keeper.fd)
          /\ keeper' = Resume(keeper) /\ Unlink(t) /\ Unlock("keeper") /\ NoFault
       \/ /\ keeper.pc = "rename" /\ Rename(t, keeper.path) /\ (NoFault \/ Fault)
          /\ keeper' = Resume(keeper) /\ Unlock("keeper")
       \/ /\ keeper.pc = "rename" /\ Unlink(t) /\ Fault
          /\ keeper' = Resume(keeper) /\ Unlock("keeper")
    /\ OthersK /\ UNCHANGED <<removed, spent>>

delete_receipt ==
    /\ \/ /\ keeper.pc = "current" /\ receipt_path_identity_matches(keeper.path, keeper.fd)
          /\ keeper' = [keeper EXCEPT !.pc = "unlink"] /\ SameNames /\ NoFault /\ UNCHANGED <<locks, removed>>
       \/ /\ keeper.pc = "current" /\ ~receipt_path_identity_matches(keeper.path, keeper.fd)
          /\ keeper' = Resume(keeper) /\ Unlock("keeper") /\ SameNames /\ NoFault /\ UNCHANGED removed
       \/ /\ keeper.pc = "unlink"
          /\ \E o \in {"ok", "unknown", "not_committed"} :
                /\ unlink_verified(keeper.path, o)
                /\ removed' = IF o \in {"ok", "unknown"} THEN removed \cup {keeper.path[2]} ELSE removed
          /\ keeper' = Resume(keeper) /\ Unlock("keeper")
    /\ OthersK /\ UNCHANGED spent

KeeperEnd ==
    /\ keeper.pc = "stream" /\ keeper.todo = {}
    /\ keeper' = IF keeper.phase = "compact" THEN [keeper EXCEPT !.phase = "delete", !.todo = Entries("receipts")]
                 ELSE [Off EXCEPT !.passes = keeper.passes]
    /\ NoFault /\ QuietK

KeeperCrash ==
    /\ keeper.pc # "idle" /\ Fault
    /\ keeper' = [Off EXCEPT !.passes = keeper.passes] /\ Unlock("keeper")
    /\ OthersK /\ UNCHANGED <<names, moved, removed, spent>>

Keeper == \/ KeeperBegin \/ KeeperNext \/ open_locked_receipt \/ KeeperVerify \/ quarantine_recovery_object
          \/ WriteCompact \/ replace_verified \/ delete_receipt \/ KeeperEnd \/ KeeperCrash

-----------------------------------------------------------------------------
(***************************************************************************)
(* A consumer's scan of the ready shard: lease_once.                       *)
(***************************************************************************)

Asleep == [pc |-> "idle", stream |-> [seen |-> {}, must |-> {}], path |-> None, fd |-> None,
           tries |-> 0, err |-> FALSE, answer |-> None]

OthersC == UNCHANGED <<scene, fsck, keeper, prober, admin, removed, locks>>
QuietC == OthersC /\ UNCHANGED <<names, moved, spent, blamed>>

LeaseOf(p) == <<"lease", p[2]>>
Scan(c) == [c EXCEPT !.pc = "stream", !.path = None, !.fd = None, !.tries = 0]

\* Variant: a candidate that could not be opened is passed over.
ScanErrorForgotten(c) == Scan(c)

\* A candidate that could not be examined is passed over, and remembered.
ScanError(c) == [Scan(c) EXCEPT !.err = TRUE]
Answer(c, a) == [c EXCEPT !.pc = "done", !.answer = a]

LeaseBegin ==
    /\ consumer.pc = "idle" /\ "consumer" \in scene.cast
    /\ \/ consumer' = [Asleep EXCEPT !.pc = "stream", !.stream = Stream("ready")] /\ NoFault
       \/ consumer' = Answer(Asleep, "Error") /\ Fault
    /\ QuietC

\* Leases, names that do not parse and names of another place are passed over.
Candidate(p) == p[1] = "ready" /\ scene.defect[p[2]] \notin {"name", "tag"}

LeaseNext ==
    /\ consumer.pc = "stream"
    /\ \E p \in NextEntry(consumer.stream, "ready") :
        LET c == [consumer EXCEPT !.stream.seen = @ \cup {p}] IN
        consumer' = IF Candidate(p) THEN [c EXCEPT !.pc = "open", !.path = p] ELSE c
    /\ NoFault /\ QuietC

open_claim_source ==
    /\ consumer.pc = "open"
    /\ LET i == names[consumer.path] IN
       \/ /\ consumer' = IF i = None THEN Scan(consumer)
                         ELSE [consumer EXCEPT !.fd = i,
                                 !.pc = IF Defect(i) \in {"none", "payload", "limit"} THEN "claim" ELSE "publish"]
          /\ NoFault
       \/ i # None /\ CannotOpen(i) /\ consumer' = ScanError(consumer) /\ NoFault
       \/ consumer' = ScanError(consumer) /\ Fault
    /\ QuietC

QuarantineCorruptReady ==
    /\ consumer.pc = "publish"
    /\ \E id \in Ids, o \in Outcomes :
        /\ RandomId(id) /\ move_noreplace(consumer.path, <<"quarantine", id>>, o)
        /\ consumer' = IF Again(o, consumer.tries) THEN [consumer EXCEPT !.tries = @ + 1]
                       ELSE IF o \in {"ok", "missing"} THEN Scan(consumer)
                       ELSE IF o = "unknown" THEN Answer(consumer, "Error")
                       ELSE ScanError(consumer)
    /\ OthersC /\ UNCHANGED blamed

Claim ==
    /\ consumer.pc = "claim"
    /\ \E o \in Outcomes \ {"collision"} :
        /\ Transfer(consumer.path, LeaseOf(consumer.path), o)
        /\ consumer' = IF o = "ok" THEN [consumer EXCEPT !.pc = "verify"]
                       ELSE IF o = "missing" THEN Scan(consumer)
                       ELSE IF o = "unknown" THEN Answer(consumer, "OutcomeUnknown")
                       ELSE ScanError(consumer)
    /\ OthersC /\ UNCHANGED <<spent, blamed>>

\* An object of a committed claim that this queue may not hold is kept as it is.
validate_claimed_object(i) == Defect(i) # "limit"

VerifyPayload ==
    /\ consumer.pc = "verify"
    /\ \/ /\ consumer' = IF ~validate_claimed_object(consumer.fd) THEN Answer(consumer, "OutcomeUnknown")
                         ELSE IF Defect(consumer.fd) = "payload" THEN [consumer EXCEPT !.pc = "corrupt"]
                         ELSE Answer(consumer, "Leased")
          /\ NoFault
       \/ consumer' = Answer(consumer, "OutcomeUnknown") /\ Fault
    /\ QuietC

\* The lease must still name the inode that was hashed; there is one attempt.
quarantine_corrupt_lease ==
    /\ LET lease == LeaseOf(consumer.path) IN
       \/ /\ consumer.pc = "corrupt" /\ SameNames /\ NoFault /\ UNCHANGED spent
          /\ consumer' = IF names[lease] # consumer.fd THEN Answer(consumer, "OutcomeUnknown")
                         ELSE [consumer EXCEPT !.pc = "aside"]
       \/ /\ consumer.pc = "aside"
          /\ \E id \in Ids, o \in Outcomes :
               /\ RandomId(id) /\ move_noreplace(lease, <<"quarantine", id>>, o)
               /\ consumer' = Answer(consumer, IF o = "ok" THEN "PayloadCorrupt" ELSE "OutcomeUnknown")
    /\ OthersC /\ UNCHANGED blamed

\* A scan that met an error does not call the queue empty.
LeaseEnd ==
    /\ consumer.pc = "stream"
    /\ \/ StreamEnds(consumer.stream) /\ NoFault
          /\ consumer' = Answer(consumer, IF consumer.err THEN "Error" ELSE "Empty")
       \/ consumer' = Answer(consumer, "Error") /\ Fault
    /\ QuietC

Consumer == \/ LeaseBegin \/ LeaseNext \/ open_claim_source \/ QuarantineCorruptReady \/ Claim
            \/ VerifyPayload \/ quarantine_corrupt_lease \/ LeaseEnd

-----------------------------------------------------------------------------
(***************************************************************************)
(* The duplicate-ack probe of a lease whose source is gone.                *)
(***************************************************************************)

OthersP == UNCHANGED <<scene, fsck, keeper, consumer, admin, names, moved, locks, removed, spent, blamed>>

ProbeBegin ==
    /\ prober.pc = "idle" /\ "prober" \in scene.cast
    /\ \E j \in Jobs : /\ scene.place[j] = <<"receipt", j>>
                       /\ prober' = [pc |-> "open", path |-> <<"receipt", j>>, fd |-> None,
                                      answer |-> None, stood |-> names[<<"receipt", j>>]]
    /\ NoFault /\ OthersP

ProbeAnswers(a) == prober' = [prober EXCEPT !.pc = "done", !.answer = a]

ProbeOpen ==
    /\ prober.pc = "open"
    /\ \/ names[prober.path] = None /\ ProbeAnswers("LeaseLost") /\ NoFault
       \/ names[prober.path] # None /\ prober' = [prober EXCEPT !.pc = "verify", !.fd = names[prober.path]] /\ NoFault
       \/ ProbeAnswers("NotCommitted") /\ Fault
    /\ OthersP

\* Variant: a receipt that cannot be read is no receipt.
UnreadableIsAbsent == "LeaseLost"

\* Only a read that failed leaves the answer open.
Unreadable == "NotCommitted"

check_duplicate_ack_bounded ==
    /\ prober.pc = "verify"
    /\ \/ ProbeAnswers(IF verify_receipt_on_fd(prober.fd) THEN "AlreadyAcked" ELSE "LeaseLost") /\ NoFault
       \/ ProbeAnswers(Unreadable) /\ Fault
    /\ OthersP

Prober == ProbeBegin \/ ProbeOpen \/ check_duplicate_ack_bounded

-----------------------------------------------------------------------------
(***************************************************************************)
(* Administration of the quarantine and of the dead letters.               *)
(***************************************************************************)

OthersA == UNCHANGED <<scene, fsck, keeper, consumer, prober, locks, spent, blamed>>

Act(a, r) == admin' = [admin EXCEPT ![a] = r]
Reply(a, answer) == Act(a, [admin[a] EXCEPT !.pc = "done", !.answer = answer])

AdminBegin(a) ==
    /\ admin[a].pc = "idle" /\ a \in scene.cast
    /\ \E p \in Paths, op \in {"remove", "export"} :
        /\ Dir(p) = "quarantine" \/ (Dir(p) = "dead" /\ scene.place[p[2]] = p)
        /\ Act(a, [admin[a] EXCEPT !.pc = "find", !.path = p, !.op = op])
    /\ SameNames /\ NoFault /\ OthersA /\ UNCHANGED removed

\* A directory that cannot be read is an error, not an empty list.  A dead
\* name must authenticate; a quarantined one only parse.
Listed(p) == p \in Named /\ (Dir(p) = "dead" => scene.defect[p[2]] \notin {"name", "tag"})

find_quarantine(a) ==
    /\ admin[a].pc = "find"
    /\ \/ Listed(admin[a].path) /\ Act(a, [admin[a] EXCEPT !.pc = "act"]) /\ NoFault
       \/ ~Listed(admin[a].path) /\ Reply(a, "absent") /\ NoFault
       \/ Reply(a, "error") /\ Fault
    /\ SameNames /\ OthersA /\ UNCHANGED removed

Removal(o) == CASE o = "ok" -> "removed" [] o = "missing" -> "absent" [] OTHER -> "error"

remove_quarantine(a) ==
    /\ admin[a].pc = "act" /\ admin[a].op = "remove"
    /\ \/ /\ names[admin[a].path] = None /\ Reply(a, Removal("missing"))
          /\ SameNames /\ NoFault /\ UNCHANGED removed
       \/ \E o \in {"ok", "unknown", "not_committed"} :
            /\ unlink_verified(admin[a].path, o) /\ Reply(a, Removal(o))
            /\ removed' = IF o = "not_committed" THEN removed ELSE removed \cup {JobOf(names[admin[a].path])}
    /\ OthersA

\* The copy is made from one open descriptor of a regular file.
export_quarantine(a) ==
    /\ admin[a].pc = "act" /\ admin[a].op = "export"
    /\ \/ /\ Reply(a, IF names[admin[a].path] = None THEN "absent"
                      ELSE IF Defect(names[admin[a].path]) = "type" THEN "error" ELSE "exported")
          /\ NoFault
       \/ Reply(a, "error") /\ Fault
    /\ SameNames /\ OthersA /\ UNCHANGED removed

Admin == \E a \in Admins : AdminBegin(a) \/ find_quarantine(a) \/ remove_quarantine(a) \/ export_quarantine(a)

-----------------------------------------------------------------------------
Init ==
    /\ scene \in Scenarios
    /\ names = [p \in Paths |-> IF \E j \in Jobs : scene.place[j] = p
                               THEN <<CHOOSE j \in Jobs : scene.place[j] = p, "full">> ELSE None]
    /\ locks = [i \in Inodes |-> None]
    /\ faults = 0 /\ blamed = {} /\ removed = {} /\ moved = {}
    /\ spent = {id \in Ids : <<"quarantine", id>> \in Named}
    /\ fsck = Idle /\ keeper = Off /\ consumer = Asleep
    /\ prober = [pc |-> "idle", path |-> None, fd |-> None, answer |-> None, stood |-> None]
    /\ admin = [a \in Admins |-> [pc |-> "idle", path |-> None, op |-> "remove", answer |-> None]]

Next == Fsck \/ Keeper \/ Consumer \/ Prober \/ Admin

Spec == Init /\ [][Next]_vars

-----------------------------------------------------------------------------
\* Every variable has its type; fsck and the keeper hold at most one lock each.
TypeOK ==
    /\ names \in [Paths -> Inodes \cup {None}] /\ scene \in Scenarios
    /\ locks \in [Inodes -> {None, "fsck", "keeper"}]
    /\ faults \in 0..MaxFaults /\ blamed \subseteq Inodes /\ removed \subseteq Jobs
    /\ moved \subseteq Paths /\ spent \subseteq Ids
    /\ fsck.pc \in {"idle", "dir", "stream", "stat", "open", "verify", "reopen", "lock", "identity", "publish", "done"}
    /\ keeper.pc \in {"idle", "stream", "open", "lock", "verify", "publish", "temp", "replace", "rename", "current", "unlink"}
    /\ consumer.pc \in {"idle", "stream", "open", "publish", "claim", "verify", "corrupt", "aside", "done"}
    /\ prober.pc \in {"idle", "open", "verify", "done"}
    /\ \A a \in Admins : admin[a].pc \in {"idle", "find", "act", "done"}
    /\ \A o \in {"fsck", "keeper"} : Cardinality({i \in Inodes : locks[i] = o}) <= 1

\* The paths at which an object of the job can be found again.
Kept(j) == {p \in Named : p[1] # "temp" /\ JobOf(names[p]) = j}

\* Every stored object has exactly one name at every moment, whoever moves it
\* and whatever fails, until retention or an administrator removes it.  The
\* quarantine never overwrites (RENAME_NOREPLACE, retried under a new
\* identifier), and the inode lock keeps a receipt from being compacted and
\* set aside at once.
OneCustody == TypeOK /\ \A j \in Jobs : scene.place[j] \in {None, <<"temp", j>>} \/
    Cardinality(Kept(j)) = IF j \in removed THEN 0 ELSE 1

\* What is in the quarantine has a defect, or could not be read when it was
\* examined: a sound object that took the place of the examined one, or that
\* was only moved meanwhile, is never set aside.
SparesSound == \A p \in Named : p[1] = "quarantine" =>
    Defect(names[p]) # "none" \/ names[p] \in blamed

\* A finished fsck has a finding on every defective object that stayed where
\* it was, or reports its directory as not completely read.  A structural
\* check exempts the payload of jobs.
ReportComplete == fsck.pc = "done" =>
    \A p \in Named \ moved :
        (Dir(p) \in ToSet(StateDirs) /\ Defect(names[p]) # "none"
          /\ (Defect(names[p]) = "payload" => fsck.deep \/ p[1] = "receipt"))
        => \E f \in fsck.findings : f[1] = p \/ f = <<<<"dir", Dir(p)>>, "incomplete">>

\* Work that goes on during an fsck raises no alarm: without a failing system
\* call nothing is held against a sound job in ready, leased or dead.
NoFalseAlarm == faults = 0 =>
    \A f \in fsck.findings : Severe(f[2]) =>
        f[1][1] = "receipt" \/ (f[1][1] # "dir" /\ scene.defect[f[1][2]] # "none")

\* "Empty" is said only when no sound job stood in the shard through the whole
\* scan; a candidate that could not be examined makes it an error.
EmptyIsTrue == consumer.answer = "Empty" =>
    \A p \in consumer.stream.must \cap Named : Candidate(p) => Defect(names[p]) # "none"

\* An acknowledged lease is called lost only when the receipt that stood at its
\* path as the probe began does not verify, or is no longer there: there was
\* none, or it was removed or replaced while the probe looked.  A failed read
\* never decides, and neither does what happened before.
DeniedOnlyIfChanged == prober.answer = "LeaseLost" =>
    LET stood == prober.stood IN
    stood = None \/ Defect(stood) # "none" \/ names[prober.path] # stood

\* Of several removals of one object exactly one reports that it removed it.
RemovedOnce == \A a, b \in Admins :
    (a # b /\ admin[a].path = admin[b].path) => ~(admin[a].answer = "removed" /\ admin[b].answer = "removed")

\* What fsck, the lease scan and the remove command tell their callers is true:
\* ReportComplete, NoFalseAlarm, EmptyIsTrue and RemovedOnce.
ReportsTrue == ReportComplete /\ NoFalseAlarm /\ EmptyIsTrue /\ RemovedOnce

\* What the comment on check_duplicate_ack_bounded says: only absence denies a
\* duplicate acknowledgment, so a sound receipt in its place never does.
OnlyAbsenceDenies == prober.answer = "LeaseLost" =>
    names[prober.path] = None \/ Defect(names[prober.path]) # "none"

============================================================================
