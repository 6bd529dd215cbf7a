------------------------------ MODULE Records ------------------------------
(***************************************************************************)
(* The fixed-size records (src/crates/steadq-format/src/lib.rs): FORMAT,   *)
(* the job header with its envelope, the compact receipt and the wall      *)
(* watermark.  Encoded, a record is the sequence of its fields; a digest   *)
(* stands for a hash without collisions and is what it is computed from.   *)
(* Widths are in seconds and MAX_PAYLOAD_LENGTH is scaled down.            *)
(***************************************************************************)
EXTENDS Naturals, Sequences

CONSTANTS MAX_PAYLOAD_LENGTH, MAX_EXTENSION_HEADER_LENGTH

Rejected == [ok |-> FALSE]
Accepted(r) == [ok |-> TRUE, r |-> r]

FORMAT_MAJOR == 1
FORMAT_MINOR == 1
STRICT_COMPACT_RECEIPT_MINOR == 1
DIGEST_ALGORITHM_SHA256 == 1
NAME_TAG_BITS == 64
PowersOfTwo == {2^k : k \in 0..12}

Digest(what, fields) == <<what, fields>>

-----------------------------------------------------------------------------
(***************************************************************************)
(* FORMAT: one rule about options, written three times in the code, here   *)
(* too, so that whether the three agree is a question.                     *)
(***************************************************************************)

validate_create_options(o) ==
    /\ o.shard_count \in PowersOfTwo
    /\ o.lease_width # 0 /\ o.delayed_width # 0 /\ o.terminal_width # 0
    /\ o.terminal_width \in 60..86400
    /\ o.terminal_width % o.delayed_width = 0
    /\ o.max_payload_length <= MAX_PAYLOAD_LENGTH

FormatRecord_new(queue, created, o) ==
    IF \/ o.shard_count = 0 \/ o.shard_count \notin PowersOfTwo \/ o.shard_count > 4096
       \/ o.lease_width = 0 \/ o.delayed_width = 0
       \/ o.terminal_width \notin 60..86400
    THEN Rejected
    ELSE IF o.terminal_width % o.delayed_width # 0 \/ o.max_payload_length > MAX_PAYLOAD_LENGTH THEN Rejected
    ELSE Accepted([queue_id |-> queue, created_at |-> created, options |-> o])

format_digest(fields) == Digest("SteadQ-1-format", fields)

\* 1 magic, 2-3 version, 4 flags, 5 queue, 6 created, 7 shards, 8 reserved,
\* 9-11 widths, 12 payload limit, 13 algorithm, 14 tag bits, 15 and 18
\* reserved, 16-17 features, 19 digest.
FormatFields(r) ==
    <<"SDQFMT1", FORMAT_MAJOR, FORMAT_MINOR, 0, r.queue_id, r.created_at, r.options.shard_count, 0, r.options.lease_width,
      r.options.delayed_width, r.options.terminal_width, r.options.max_payload_length, DIGEST_ALGORITHM_SHA256, NAME_TAG_BITS, 0, 0, 0, 0>>

FormatRecord_encode(r) == FormatFields(r) \o <<format_digest(FormatFields(r))>>

FormatRecord_decode(b) ==
    IF Len(b) # 19 THEN Rejected
    ELSE IF b[1] # "SDQFMT1" \/ b[2] # FORMAT_MAJOR \/ b[4] # 0 \/ b[8] # 0 \/ b[13] # DIGEST_ALGORITHM_SHA256
            \/ b[14] # NAME_TAG_BITS \/ b[15] # 0 \/ b[18] # 0 \/ b[16] # 0 \/ b[17] # 0
            \/ b[19] # format_digest(SubSeq(b, 1, 18)) THEN Rejected
    ELSE IF b[7] = 0 \/ b[7] \notin PowersOfTwo \/ b[7] > 4096 \/ b[9] = 0 \/ b[10] = 0 \/ b[11] \notin 60..86400 THEN Rejected
    ELSE IF b[11] % b[10] # 0 \/ b[12] > MAX_PAYLOAD_LENGTH THEN Rejected
    ELSE Accepted([queue_id |-> b[5], created_at |-> b[6],
                   options |-> [shard_count |-> b[7], lease_width |-> b[9], delayed_width |-> b[10],
                                terminal_width |-> b[11], max_payload_length |-> b[12]]])

-----------------------------------------------------------------------------
(***************************************************************************)
(* The job header and the envelope                                         *)
(***************************************************************************)

HeaderFields(h) == <<"SDQJOB1", FORMAT_MAJOR, h.format_minor, h.extension_length, h.payload_length, h.flags, h.digest_algorithm, 0,
                     h.job_id, h.maximum_attempts, 0, h.created_at, h.payload_digest, h.envelope_digest>>

FixedHeader_encode(h, extension) ==
    IF Len(extension) # h.extension_length THEN Rejected ELSE Accepted(HeaderFields(h))

FixedHeader_decode(b) ==
    IF Len(b) # 14 THEN Rejected
    ELSE IF b[1] # "SDQJOB1" \/ b[2] # FORMAT_MAJOR \/ b[6] # 0 \/ b[7] # DIGEST_ALGORITHM_SHA256 \/ b[8] # 0 \/ b[11] # 0
            \/ b[10] = 0 \/ b[5] > MAX_PAYLOAD_LENGTH \/ b[4] > MAX_EXTENSION_HEADER_LENGTH THEN Rejected
    ELSE Accepted([format_minor |-> b[3], extension_length |-> b[4], payload_length |-> b[5], flags |-> b[6],
                   digest_algorithm |-> b[7], job_id |-> b[9], maximum_attempts |-> b[10], created_at |-> b[12],
                   payload_digest |-> b[13], envelope_digest |-> b[14]])

payload_digest(payload) == Digest("payload", payload)

\* Variant: the digest leaves the extension out.
envelope_digest_header_only(h, extension) ==
    Digest("SteadQ-1-envelope", SubSeq(HeaderFields(h), 1, 13))

\* The digest field itself counts as zero; lengths that do not match give
\* no digest.
envelope_digest(h, extension) ==
    IF FixedHeader_encode(h, extension).ok
    THEN Digest("SteadQ-1-envelope", SubSeq(HeaderFields(h), 1, 13) \o extension) ELSE <<>>

verify_envelope_digest(h, extension) == envelope_digest(h, extension) = h.envelope_digest

\* A file is a header of 14 fields, then extension and payload.
from_bytes(data, verify_payload) ==
    IF Len(data) < 14 THEN Rejected
    ELSE LET d == FixedHeader_decode(SubSeq(data, 1, 14))
         IN IF ~d.ok THEN Rejected
            ELSE LET h == d.r
                     extension == SubSeq(data, 15, 14 + h.extension_length)
                     payload == SubSeq(data, 15 + h.extension_length, Len(data))
                 IN IF Len(data) # 14 + h.extension_length + h.payload_length THEN Rejected
                    ELSE IF ~verify_envelope_digest(h, extension) THEN Rejected
                    ELSE IF verify_payload /\ payload_digest(payload) # h.payload_digest THEN Rejected
                    ELSE Accepted([header |-> h, extension |-> extension, payload |-> payload])

-----------------------------------------------------------------------------
(***************************************************************************)
(* Compact receipt and wall watermark                                      *)
(***************************************************************************)

receipt_digest(fields) == Digest("SteadQ-1-receipt", fields)
ReceiptFields(r) == <<"SDQRCPT", FORMAT_MAJOR, FORMAT_MINOR, r.job_id, r.envelope_digest, r.final_attempt, r.token,
                      r.bucket_start, r.original_length>>
CompactReceipt_encode(r) == ReceiptFields(r) \o <<receipt_digest(ReceiptFields(r))>>

CompactReceipt_decode(b) ==
    IF Len(b) # 10 THEN Rejected
    ELSE IF b[1] # "SDQRCPT" \/ b[2] # FORMAT_MAJOR \/ b[3] < STRICT_COMPACT_RECEIPT_MINOR
            \/ b[10] # receipt_digest(SubSeq(b, 1, 9)) THEN Rejected
    ELSE Accepted([job_id |-> b[4], envelope_digest |-> b[5], final_attempt |-> b[6], token |-> b[7],
                   bucket_start |-> b[8], original_length |-> b[9]])

watermark_digest(fields) == Digest("SteadQ-1-wall-watermark", fields)
WatermarkFields(w) == <<"SDQWMR1", FORMAT_MAJOR, FORMAT_MINOR, 0, w.bucket, w.sequence>>
WatermarkRecord_encode(w) == WatermarkFields(w) \o <<watermark_digest(WatermarkFields(w))>>

WatermarkRecord_decode(b) ==
    IF Len(b) # 7 THEN Rejected
    ELSE IF b[1] # "SDQWMR1" \/ b[2] # FORMAT_MAJOR \/ b[4] # 0 \/ b[7] # watermark_digest(SubSeq(b, 1, 6)) THEN Rejected
    ELSE Accepted([bucket |-> b[5], sequence |-> b[6]])

=============================================================================
