------------------------------ MODULE Formats ------------------------------
(***************************************************************************)
(* What is written to disk and read back: file names, records, extension   *)
(* headers, and the numbers in them.  Storage may damage what was written: *)
(* a subject starts as the code writes it and suffers up to `left` edits.  *)
(* The operators are in Names, Records, Cbor and Buckets; each is checked  *)
(* against a definition of what it should compute.                         *)
(***************************************************************************)
EXTENDS Naturals, Sequences, FiniteSets, Buckets

CONSTANTS MAX_EXTENSION_SIZE, MAX_METADATA_ENTRIES, MAX_TEXT_VALUE, MAX_BYTES_VALUE, MAX_CONTENT_TYPE_LEN,
          MAX_PRODUCER_ID_LEN, MAX_TRACE_CONTEXT_LEN, MAX_KEY_LEN,
          MAX_PAYLOAD_LENGTH, MAX_EXTENSION_HEADER_LENGTH,
          Subjects,    \* what is written, and how often it may be damaged
          Queues, Dirs, \* where names are read back
          Bytes,       \* what a damaged byte may become
          MaxAttempt

VARIABLE subject

LOCAL INSTANCE TLC

Nm == INSTANCE Names
Rc == INSTANCE Records
Cb == INSTANCE Cbor

TaggedKinds == {"Ready", "Leased", "Delayed", "Dead", "Receipt"}

make(s) == CASE s.kind = "Ready" -> Nm!make_ready_name(s.queue, s.dir, s.f)
             [] s.kind = "Leased" -> Nm!make_leased_name(s.queue, s.dir, s.f)
             [] s.kind = "Delayed" -> Nm!make_delayed_name(s.queue, s.dir, s.f)
             [] s.kind = "Dead" -> Nm!make_dead_name(s.queue, s.dir, s.f)
             [] s.kind = "Receipt" -> Nm!make_receipt_name(s.queue, s.dir, s.f)
             [] s.kind = "Temp" -> Nm!temp_filename(s.f)
             [] s.kind = "Quarantine" -> Nm!quarantine_filename(s.f)

parse(kind, n) == CASE kind = "Ready" -> Nm!parse_ready(n) [] kind = "Leased" -> Nm!parse_leased(n)
                    [] kind = "Delayed" -> Nm!parse_delayed(n) [] kind = "Dead" -> Nm!parse_dead(n)
                    [] kind = "Receipt" -> Nm!parse_receipt(n) [] kind = "Temp" -> Nm!parse_temp(n)
                    [] kind = "Quarantine" -> Nm!parse_quarantine(n)

format(kind, r) == CASE kind = "Ready" -> Nm!ready_filename(r.f, r.tag) [] kind = "Leased" -> Nm!leased_filename(r.f, r.tag)
                     [] kind = "Delayed" -> Nm!delayed_filename(r.f, r.tag) [] kind = "Dead" -> Nm!dead_filename(r.f, r.tag)
                     [] kind = "Receipt" -> Nm!receipt_filename(r.f, r.tag) [] kind = "Temp" -> Nm!temp_filename(r.f)
                     [] kind = "Quarantine" -> Nm!quarantine_filename(r.f)

authenticate(kind, r, q, d) ==
    CASE kind = "Ready" -> Nm!authenticate_ready(r, q, d) [] kind = "Leased" -> Nm!authenticate_leased(r, q, d)
      [] kind = "Delayed" -> Nm!authenticate_delayed(r, q, d) [] kind = "Dead" -> Nm!authenticate_dead(r, q, d)
      [] kind = "Receipt" -> Nm!authenticate_receipt(r, q, d)

\* A job file: the header with its digests, the extension and the payload.
JobFile(j) ==
    LET h == [format_minor |-> 1, extension_length |-> Len(j.extension), payload_length |-> Len(j.payload), flags |-> 0,
              digest_algorithm |-> 1, job_id |-> j.job_id, maximum_attempts |-> j.maximum_attempts, created_at |-> 0,
              payload_digest |-> Rc!payload_digest(j.payload), envelope_digest |-> <<>>]
    IN Rc!HeaderFields([h EXCEPT !.envelope_digest = Rc!envelope_digest(h, j.extension)]) \o j.extension \o j.payload

write(s) == CASE s.of = "name" -> make(s)
              [] s.of = "FORMAT" -> Rc!FormatRecord_encode(s.r)
              [] s.of = "job" -> JobFile(s.r)
              [] s.of = "receipt" -> Rc!CompactReceipt_encode(s.r)
              [] s.of = "watermark" -> Rc!WatermarkRecord_encode(s.r)
              [] s.of = "extension" -> Cb!encode(s.r).bytes

Records_ == {"FORMAT", "job", "receipt", "watermark"}
Intact == subject.wire = write(subject)

-----------------------------------------------------------------------------
(***************************************************************************)
(* Damage                                                                  *)
(***************************************************************************)

Put(wire) == subject.left > 0 /\ subject' = [subject EXCEPT !.wire = wire, !.left = @ - 1]
Dropped(w, i) == SubSeq(w, 1, i - 1) \o SubSeq(w, i + 1, Len(w))
Inserted(w, i, x) == SubSeq(w, 1, i) \o <<x>> \o SubSeq(w, i + 1, Len(w))
Swapped(w, i) == [w EXCEPT ![i] = w[i + 1], ![i + 1] = w[i]]

DamageName ==
    /\ subject.of = "name"
    /\ \E i \in DOMAIN subject.wire :
        \/ \E l \in {"", "a", "d", "g", "k", "q", "t", "x", "sqj", "rct", "tmp", "raw"} : Put([subject.wire EXCEPT ![i].letter = l])
        \/ \E n \in {4, 8, 16, 32} : Put([subject.wire EXCEPT ![i].digits = n])
        \/ \E v \in {<<>>, <<1>>, <<2>>} : Put([subject.wire EXCEPT ![i].val = v])
        \/ Put([subject.wire EXCEPT ![i].lower = FALSE])
        \/ Put(Dropped(subject.wire, i))
        \/ Put(Inserted(subject.wire, i, subject.wire[i]))
        \/ i > 1 /\ Put(Swapped(subject.wire, i - 1))

DigestsAt(record) == CASE record = "FORMAT" -> {19} [] record = "job" -> {13, 14}
                       [] record = "receipt" -> {10} [] record = "watermark" -> {7}

\* A field becomes zero or one more, a digest or a payload byte another one.
DamageRecord ==
    /\ subject.of \in Records_
    /\ \/ \E i \in DOMAIN subject.wire \ {1} :
            IF i \notin DigestsAt(subject.of) THEN \E n \in {0, subject.wire[i] + 1} : Put([subject.wire EXCEPT ![i] = n])
            ELSE Put([subject.wire EXCEPT ![i] = <<>>])
       \/ \E magic \in {"SDQFMT1", "SDQJOB1", "SDQRCPT", "SDQWMR1"} : Put([subject.wire EXCEPT ![1] = magic])
       \/ Put(Dropped(subject.wire, Len(subject.wire)))
       \/ Put(Append(subject.wire, IF Len(subject.wire) + 1 \in DigestsAt(subject.of) THEN <<>> ELSE 0))

DamageExtension ==
    /\ subject.of = "extension"
    /\ \E i \in DOMAIN subject.wire :
        \/ \E b \in Bytes : Put([subject.wire EXCEPT ![i] = b]) \/ Put(Inserted(subject.wire, i, b))
        \/ Put(Dropped(subject.wire, i))

\* The next delivery of a job asks for its delay.
NextAttempt ==
    /\ subject.of = "retry" /\ subject.attempt < MaxAttempt
    /\ subject' = [subject EXCEPT !.attempt = @ + 1]

Init == \E s \in Subjects : subject = IF s.of \in Records_ \cup {"name", "extension"} THEN s @@ [wire |-> write(s)] ELSE s
Next == DamageName \/ DamageRecord \/ DamageExtension \/ NextAttempt
Spec == Init /\ [][Next]_subject

-----------------------------------------------------------------------------
(***************************************************************************)
(* Properties                                                              *)
(***************************************************************************)

Kinds == TaggedKinds \cup {"Temp", "Quarantine"}

\* Every name the code makes parses back to its fields, and a name that
\* parses is the one way to write what it parses to, whatever edits led to
\* it: the parsers of steadq-names accept no second spelling.
NamesCanonical ==
    subject.of = "name" =>
        /\ Intact => parse(subject.kind, subject.wire).ok /\ parse(subject.kind, subject.wire).f = subject.f
        /\ \A k \in Kinds : LET r == parse(k, subject.wire) IN r.ok => format(k, r) = subject.wire

\* The parts of a path that a state has.
PathOf(kind, d) == CASE kind = "Ready" -> [d EXCEPT !.boot_id = 0, !.bucket = 0]
                     [] kind = "Leased" -> d
                     [] OTHER -> [d EXCEPT !.boot_id = 0]

\* A name authenticates where it was made and nowhere else: not in another
\* queue, state, boot, bucket or shard directory, and not after an edit.
NamesBound ==
    (subject.of = "name" /\ subject.kind \in TaggedKinds) =>
        \A k \in TaggedKinds : LET r == parse(k, subject.wire) IN
            r.ok => \A q \in Queues, d \in Dirs :
                authenticate(k, r, q, d) <=> /\ Intact /\ k = subject.kind /\ q = subject.queue
                                             /\ PathOf(k, d) = PathOf(k, subject.dir)

\* FORMAT, receipts and the watermark are accepted exactly as written, and a
\* job file exactly as written too; without its payload digest a job file is
\* accepted exactly when all but the bytes of the payload are as written.
RecordsIntact ==
    LET w == subject.wire
        original == write(subject)
    IN CASE subject.of = "FORMAT" -> Rc!FormatRecord_decode(w).ok <=> w = original
         [] subject.of = "receipt" -> Rc!CompactReceipt_decode(w).ok <=> w = original
         [] subject.of = "watermark" -> Rc!WatermarkRecord_decode(w).ok <=> w = original
         [] subject.of = "job" ->
                /\ Rc!from_bytes(w, TRUE).ok <=> w = original
                /\ Rc!from_bytes(w, FALSE).ok <=>
                     LET n == 14 + Len(subject.r.extension)
                     IN Len(w) = Len(original) /\ SubSeq(w, 1, n) = SubSeq(original, 1, n)
         [] OTHER -> TRUE

\* The three checks of creation options agree: init lets through exactly the
\* options new makes a record of, and decode reads back exactly those, from
\* whatever options were written.
OptionsAgree ==
    subject.of = "options" =>
        LET made == Rc!FormatRecord_new(1, 0, subject.o)
            written == Rc!FormatRecord_encode([queue_id |-> 1, created_at |-> 0, options |-> subject.o])
        IN /\ Rc!validate_create_options(subject.o) <=> made.ok
           /\ Rc!FormatRecord_decode(written) = made

\* A signed number that is not negative is read back as an unsigned one.
Unsigned(h) == [h EXCEPT !.metadata = {[e EXCEPT !.t = IF e.t = "i" THEN "u" ELSE @] : e \in h.metadata}]

\* The parser reads back every header the code writes, and accepts no other
\* bytes than the writer would write for what it read, but for one case: an
\* empty metadata map, which is never written.
ExtensionCanonical ==
    subject.of = "extension" =>
        LET d == Cb!decode(subject.wire)
        IN /\ Intact => d.ok /\ d.header = Unsigned(subject.r)
           /\ d.ok => LET e == Cb!encode(d.header).bytes
                      IN \/ subject.wire = e
                         \/ \E i \in DOMAIN e :
                              subject.wire = <<e[1] + 1>> \o SubSeq(e, 2, i) \o <<3, 160>> \o SubSeq(e, i + 1, Len(e))

\* An eligibility time is the first bucket boundary that is not before the
\* requested time, or nothing when no word holds it; a lease deadline lies in
\* its own bucket; a retried job is not eligible before its delay is over; the
\* wall floor is not behind the clock nor behind the watermark.
BucketsExact ==
    subject.of = "time" =>
        LET t == subject.t
            w == subject.width
            boundaries == {n \in Word : w # 0 /\ n >= t /\ n % w = 0}
        IN /\ eligibility_bucket_and_ns(t, w) =
                 {<<n \div w, n>> : n \in {n \in boundaries : \A m \in boundaries : n <= m}}
           /\ \A b \in lease_bucket(t, w) :
                 /\ \A s \in bucket_start_ns(b, w) : s <= t
                 /\ \A e \in bucket_end_ns(b, w) : t < e
           /\ \A delay \in 0..w : \A d \in retry_wall_deadline(t, delay) :
                 \A e \in eligibility_bucket_and_ns(d, w) : e[2] >= t + delay
           /\ \A b \in 0..3 : \A f \in effective_wall_floor(t, b, w) : f >= t /\ f >= b * w

\* Every delay between half the ceiling and the ceiling comes from equally
\* many hashes, no other delay occurs, and none exceeds the caps.
RetryUnbiased ==
    (subject.of = "retry" /\ subject.attempt > 0 /\ RetryPolicy_validate(subject.policy)) =>
        LET p == subject.policy
            c == Ceiling(p, subject.attempt)
            hits(o) == Cardinality({x \in Accepts(Span(c)) : x % Span(c) = o})
        IN /\ c <= p.cap /\ \A m \in p.max : c <= m
           /\ p.jitter => /\ retry_delay_ms(p, subject.attempt) = LowerBound(c)..c
                          /\ \A o \in 0..(Span(c) - 1) : hits(o) = hits(0)

\* Neither the least nor the greatest delay falls from one attempt to the
\* next: every later delay is at least some earlier one, and every earlier
\* delay at most some later one.
DelaysGrow ==
    [][subject.of = "retry" =>
        LET earlier == retry_delay_ms(subject.policy, subject.attempt)
            later == retry_delay_ms(subject.policy, subject'.attempt)
        IN /\ \A e \in later : \E d \in earlier : d <= e
           /\ \A d \in earlier : \E e \in later : d <= e]_subject

\* Whatever the hashes, a scan of as many steps as there are shards visits
\* every shard once, and jobs fall into existing shards.
ScanVisitsAll ==
    subject.of = "scan" =>
        LET params == shard_scan_params(subject.h1, subject.h2, subject.count)
        IN /\ {shard_at(params[1], params[2], i, subject.count) : i \in 0..(subject.count - 1)} = 0..(subject.count - 1)
           /\ compute_shard(subject.h1, subject.count) < subject.count

\* Names say one thing in one place: NamesCanonical and NamesBound.
NamesSound == NamesCanonical /\ NamesBound

\* No damaged, ambiguous or unreadable file is written or accepted: records by
\* RecordsIntact and OptionsAgree, extension headers by ExtensionCanonical.
FilesIntact == RecordsIntact /\ OptionsAgree /\ ExtensionCanonical

\* The arithmetic agrees with its definition up to the last word: BucketsExact,
\* RetryUnbiased and ScanVisitsAll.
NumbersExact == BucketsExact /\ RetryUnbiased /\ ScanVisitsAll

=============================================================================
