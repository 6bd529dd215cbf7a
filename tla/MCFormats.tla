----------------------------- MODULE MCFormats -----------------------------
(***************************************************************************)
(* The subjects that are written, damaged and read back.                   *)
(***************************************************************************)
EXTENDS Formats

Common == [job_id |-> <<1>>, generation |-> <<2>>, attempt |-> <<1>>, maximum_attempts |-> <<2>>]
Fields(kind) == CASE kind = "Ready" -> [common |-> Common]
                  [] kind = "Leased" -> [common |-> Common, boot_id |-> <<1>>, boottime_deadline |-> <<1>>, wall_deadline |-> <<2>>, token |-> <<2>>]
                  [] kind = "Delayed" -> [common |-> Common, not_before |-> <<2>>]
                  [] kind = "Dead" -> [common |-> Common, reason |-> <<1>>]
                  [] kind = "Receipt" -> [common |-> Common, token |-> <<2>>]
                  [] kind = "Temp" -> [created_boottime |-> <<1>>, random |-> <<2>>]
                  [] kind = "Quarantine" -> [quarantine_id |-> <<1>>, reason |-> <<2>>]

SomeDirs == [boot_id : 1..2, bucket : 1..2, shard : 1..2]
NameSubjects == {[of |-> "name", left |-> 2, kind |-> k, queue |-> 1, dir |-> [boot_id |-> 1, bucket |-> 2, shard |-> 1], f |-> Fields(k)] : k \in Kinds}

GoodOptions == [shard_count |-> 64, lease_width |-> 10, delayed_width |-> 10, terminal_width |-> 3600, max_payload_length |-> 3]
RecordSubjects ==
    {[of |-> "FORMAT", left |-> 2, r |-> [queue_id |-> 7, created_at |-> 5, options |-> GoodOptions]],
     [of |-> "receipt", left |-> 2, r |-> [job_id |-> 1, envelope_digest |-> 4, final_attempt |-> 1, token |-> 3, bucket_start |-> 2, original_length |-> 0]],
     [of |-> "watermark", left |-> 2, r |-> [bucket |-> 3, sequence |-> 0]]}
    \cup {[of |-> "job", left |-> 2, r |-> [job_id |-> 1, maximum_attempts |-> 2, extension |-> x, payload |-> y]] :
             x \in {<<7>>, <<7, 8>>}, y \in {<<>>, <<7>>, <<8, 7>>}}

OptionSubjects ==
    [of : {"options"}, o : [shard_count : {0, 1, 2, 3, 64, 4096, 8192}, lease_width : {0, 10}, delayed_width : {0, 7, 10, 60},
                            terminal_width : {0, 10, 59, 60, 3600, 86400, 86460}, max_payload_length : {0, 3, 4}]]

Opt(vs) == {[some |-> FALSE]} \cup {[some |-> TRUE, v |-> v] : v \in vs}
Entry(k, t, v) == [key |-> k, t |-> t, v |-> v]
Metadata == {{}, {Entry(<<97>>, "bool", <<1>>)}, {Entry(<<97>>, "n", <<23>>), Entry(<<98>>, "i", <<24>>)},
             {Entry(<<98>>, "text", <<97>>), Entry(<<97, 97>>, "bytes", <<0, 255>>)},
             {Entry(<<97>>, "n", <<127, 255, 255, 255, 255, 255, 255, 255>>)}}
Headers == [initial_not_before : Opt({<<>>, <<23>>, <<24>>, <<1, 0>>, <<1, 0, 0>>, <<1, 0, 0, 0, 0>>, <<255, 255, 255, 255, 255, 255, 255, 255>>}),
            content_type : {<<97>>}, metadata : Metadata, producer_id : Opt({<<97>>}), trace_context : Opt({<<0>>})]
Damages(h) == IF h.metadata = {} /\ ~h.producer_id.some /\ ~h.trace_context.some /\ ~h.initial_not_before.some THEN 2
              ELSE IF h.producer_id.some = h.trace_context.some /\ ~h.initial_not_before.some THEN 1
              ELSE IF h.initial_not_before.some /\ h.metadata = {} /\ ~h.trace_context.some THEN 1 ELSE 0
ExtensionSubjects == {[of |-> "extension", left |-> Damages(h), r |-> h] : h \in Headers}

SomeBytes == {0, 1, 2, 3, 4, 5, 6, 23, 24, 25, 26, 27, 31, 32, 56, 64, 65, 66, 96, 97, 98, 99, 128, 160, 161, 162, 163, 192, 244, 245, 246, 255}

NumberSubjects ==
    [of : {"time"}, t : Word, width : Word]
    \cup [of : {"retry"}, attempt : {0}, policy : [base : Word, cap : {1, 2, 5, 12, 16, WordMax}, jitter : BOOLEAN, max : {{}, {3}, {WordMax}}]]
    \cup [of : {"scan"}, h1 : Word, h2 : Word, count : {1, 2, 4, 8}]

AllSubjects == NameSubjects \cup RecordSubjects \cup OptionSubjects \cup ExtensionSubjects \cup NumberSubjects

=============================================================================
