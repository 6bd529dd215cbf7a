-------------------------------- MODULE Cbor --------------------------------
(***************************************************************************)
(* The extension header of a job: its deterministic CBOR encoding and the  *)
(* parser that accepts it (src/crates/steadq-format/src/cbor.rs), byte by  *)
(* byte.  An unsigned integer is the sequence of its significant bytes, so *)
(* that 64 bits need no 64-bit arithmetic; the limits are scaled down.     *)
(* Text is well-formed UTF-8 exactly when it is ASCII, which is true of    *)
(* every byte sequence the instances of this module build.                 *)
(***************************************************************************)
EXTENDS Naturals, Sequences, SequencesExt, FiniteSets

CONSTANTS MAX_EXTENSION_SIZE, MAX_METADATA_ENTRIES, MAX_TEXT_VALUE, MAX_BYTES_VALUE,
          MAX_CONTENT_TYPE_LEN, MAX_PRODUCER_ID_LEN, MAX_TRACE_CONTEXT_LEN, MAX_KEY_LEN

Err == [ok |-> FALSE]
Absent == [some |-> FALSE]
Some(v) == [some |-> TRUE, v |-> v]

\* Bytes in the order of slices.
BytesLess(a, b) ==
    \E i \in 0..Len(a) :
        /\ i <= Len(b) /\ SubSeq(a, 1, i) = SubSeq(b, 1, i)
        /\ i < Len(b) /\ (i = Len(a) \/ a[i + 1] < b[i + 1])

uint(n) == IF n = 0 THEN <<>> ELSE <<n>>
Significant(bs) == LET zeros == {i \in 1..Len(bs) : \A j \in 1..i : bs[j] = 0}
                   IN SubSeq(bs, Cardinality(zeros) + 1, Len(bs))
Padded(v, n) == [i \in 1..(n - Len(v)) |-> 0] \o v

encode_header(major, v) ==
    LET first(additional) == <<major * 32 + additional>>
    IN CASE Len(v) = 0 -> first(0)
         [] Len(v) = 1 /\ v[1] < 24 -> first(v[1])
         [] Len(v) = 1 /\ v[1] >= 24 -> first(24) \o v
         [] Len(v) = 2 -> first(25) \o v
         [] Len(v) \in 3..4 -> first(26) \o Padded(v, 4)
         [] OTHER -> first(27) \o Padded(v, 8)

encode_text_string(s) == encode_header(3, uint(Len(s))) \o s
encode_byte_string(s) == encode_header(2, uint(Len(s))) \o s

Lower == 97..122
Digit == 48..57
validate_metadata_key(key) ==
    /\ Len(key) \in 1..MAX_KEY_LEN /\ key[1] \in Lower \cup Digit
    /\ \A i \in 2..Len(key) : key[i] \in Lower \cup Digit \cup {45, 46, 95}

validate_content_type(s) == Len(s) \in 1..MAX_CONTENT_TYPE_LEN /\ \A i \in 1..Len(s) : s[i] \in 32..126

\* Metadata is a set of [key, t, v]; t is "bool", "u" (unsigned), "i" (signed
\* and not negative), "n" (signed, -1 - v), "text" or "bytes".
validate(h) ==
    /\ validate_content_type(h.content_type)
    /\ Cardinality(h.metadata) <= MAX_METADATA_ENTRIES
    /\ \A e \in h.metadata : /\ validate_metadata_key(e.key)
                             /\ e.t = "text" => Len(e.v) <= MAX_TEXT_VALUE
                             /\ e.t = "bytes" => Len(e.v) <= MAX_BYTES_VALUE
    /\ h.producer_id.some => Len(h.producer_id.v) <= MAX_PRODUCER_ID_LEN /\ \A i \in 1..Len(h.producer_id.v) : h.producer_id.v[i] # 0
    /\ h.trace_context.some => Len(h.trace_context.v) <= MAX_TRACE_CONTEXT_LEN

encode_value(e) == CASE e.t = "bool" -> <<IF e.v = <<>> THEN 244 ELSE 245>>
                     [] e.t \in {"u", "i"} -> encode_header(0, e.v)
                     [] e.t = "n" -> encode_header(1, e.v)
                     [] e.t = "text" -> encode_text_string(e.v)
                     [] e.t = "bytes" -> encode_byte_string(e.v)

KeyLess(a, b) == BytesLess(encode_text_string(a.key), encode_text_string(b.key))

encode(h) ==
    LET entries == SetToSortSeq(h.metadata, KeyLess)
        key(k, present, value) == IF present THEN encode_header(0, <<k>>) \o value ELSE <<>>
        count == 1 + Cardinality({f \in {"initial_not_before", "producer_id", "trace_context"} : h[f].some})
                   + (IF entries = <<>> THEN 0 ELSE 1)
        bytes == encode_header(5, uint(count))
              \o key(1, h.initial_not_before.some, encode_header(0, IF h.initial_not_before.some THEN h.initial_not_before.v ELSE <<>>))
              \o key(2, TRUE, encode_text_string(h.content_type))
              \o key(3, entries # <<>>, encode_header(5, uint(Len(entries)))
                    \o FlattenSeq([i \in DOMAIN entries |-> encode_text_string(entries[i].key) \o encode_value(entries[i])]))
              \o key(4, h.producer_id.some, encode_text_string(IF h.producer_id.some THEN h.producer_id.v ELSE <<>>))
              \o key(5, h.trace_context.some, encode_byte_string(IF h.trace_context.some THEN h.trace_context.v ELSE <<>>))
    IN IF validate(h) /\ Len(bytes) <= MAX_EXTENSION_SIZE THEN [ok |-> TRUE, bytes |-> bytes] ELSE Err

-----------------------------------------------------------------------------
\* A read yields [ok, pos, item] with pos the first byte that was not read.
Width(additional) == CASE additional = 24 -> 1 [] additional = 25 -> 2 [] additional = 26 -> 4 [] additional = 27 -> 8

read_uint(data, pos, additional) ==
    IF additional < 24 THEN [ok |-> TRUE, pos |-> pos, v |-> uint(additional)]
    ELSE IF additional > 27 THEN Err
    ELSE LET n == Width(additional)
             v == Significant(SubSeq(data, pos, pos + n - 1))
         IN IF pos + n > Len(data) + 1 THEN Err
            ELSE IF (IF n = 1 THEN v = <<>> \/ v[1] < 24 ELSE 2 * Len(v) <= n) THEN Err
            ELSE [ok |-> TRUE, pos |-> pos + n, v |-> v]

Num(v) == IF v = <<>> THEN 0 ELSE v[1]
read_bytes(data, r) ==
    IF ~r.ok \/ Len(r.v) > 1 THEN Err
    ELSE IF r.pos + Num(r.v) > Len(data) + 1 THEN Err
    ELSE [ok |-> TRUE, pos |-> r.pos + Num(r.v), v |-> SubSeq(data, r.pos, r.pos + Num(r.v) - 1)]

Item(r, t) == IF r.ok THEN [ok |-> TRUE, pos |-> r.pos, t |-> t, v |-> r.v] ELSE Err

RECURSIVE read_item(_, _, _), read_entries(_, _, _, _)

\* n entries of a map, one key and one value at a time.
read_entries(data, pos, depth, n) ==
    IF n = 0 THEN [ok |-> TRUE, pos |-> pos, v |-> <<>>]
    ELSE LET k == read_item(data, pos, depth)
         IN IF ~k.ok THEN Err
            ELSE LET e == read_item(data, k.pos, depth)
                 IN IF ~e.ok THEN Err
                    ELSE LET rest == read_entries(data, e.pos, depth, n - 1)
                         IN IF ~rest.ok THEN Err
                            ELSE [ok |-> TRUE, pos |-> rest.pos, v |-> <<[key |-> k, value |-> e]>> \o rest.v]

read_item(data, pos, depth) ==
    IF depth > 2 \/ pos > Len(data) THEN Err
    ELSE LET major == data[pos] \div 32
             additional == data[pos] % 32
             r == read_uint(data, pos + 1, additional)
             s == read_bytes(data, r)
         IN CASE major = 0 -> Item(r, "u")
              [] major = 1 -> IF r.ok /\ Len(r.v) = 8 /\ r.v[1] >= 128 THEN Err ELSE Item(r, "n")
              [] major = 2 -> Item(s, "bytes")
              [] major = 3 -> IF s.ok /\ \E i \in DOMAIN s.v : s.v[i] >= 128 THEN Err ELSE Item(s, "text")
              [] major = 5 -> IF ~r.ok \/ Len(r.v) > 1 THEN Err
                              ELSE IF 2 * Num(r.v) > Len(data) + 1 - r.pos \/ Num(r.v) > 8 * MAX_METADATA_ENTRIES THEN Err
                              ELSE Item(read_entries(data, r.pos, depth + 1, Num(r.v)), "map")
              [] major = 7 /\ additional \in {20, 21} ->
                     [ok |-> TRUE, pos |-> pos + 1, t |-> "bool", v |-> uint(additional - 20)]
              [] OTHER -> Err

metadata_ok(m) ==
    /\ Len(m) <= MAX_METADATA_ENTRIES
    /\ \A i \in DOMAIN m :
        /\ m[i].key.t = "text" /\ validate_metadata_key(m[i].key.v)
        /\ \A j \in 1..(i - 1) : BytesLess(encode_text_string(m[j].key.v), encode_text_string(m[i].key.v))
        /\ m[i].value.t # "map"
        /\ m[i].value.t = "text" => Len(m[i].value.v) <= MAX_TEXT_VALUE
        /\ m[i].value.t = "bytes" => Len(m[i].value.v) <= MAX_BYTES_VALUE

\* What the value of a protocol key has to be.
field_ok(k, e) ==
    CASE k = 1 -> e.t = "u"
      [] k = 2 -> e.t = "text" /\ validate_content_type(e.v)
      [] k = 3 -> e.t = "map" /\ metadata_ok(e.v)
      [] k = 4 -> e.t = "text" /\ (\A i \in DOMAIN e.v : e.v[i] # 0) /\ Len(e.v) <= MAX_PRODUCER_ID_LEN
      [] k = 5 -> e.t = "bytes" /\ Len(e.v) <= MAX_TRACE_CONTEXT_LEN

decode_extension(m) ==
    LET keys == [i \in DOMAIN m |-> IF m[i].key.t = "u" /\ Len(m[i].key.v) = 1 THEN m[i].key.v[1] ELSE 0]
        at(k) == CHOOSE i \in DOMAIN m : keys[i] = k
        field(k) == IF k \in Range(keys) THEN Some(m[at(k)].value.v) ELSE Absent
    IN IF /\ \A i \in DOMAIN m : keys[i] \in 1..5 /\ field_ok(keys[i], m[i].value)
          /\ \A i, j \in DOMAIN m : i < j => keys[i] < keys[j]
          /\ 2 \in Range(keys)
       THEN [ok |-> TRUE, header |->
               [initial_not_before |-> field(1), content_type |-> m[at(2)].value.v,
                metadata |-> IF 3 \notin Range(keys) THEN {}
                             ELSE {[key |-> e.key.v, t |-> e.value.t, v |-> e.value.v] : e \in Range(m[at(3)].value.v)},
                producer_id |-> field(4), trace_context |-> field(5)]]
       ELSE Err

decode(data) ==
    LET top == IF Len(data) > MAX_EXTENSION_SIZE THEN Err ELSE read_item(data, 1, 0)
    IN IF ~top.ok THEN Err
       ELSE IF top.t # "map" \/ top.pos # Len(data) + 1 THEN Err ELSE decode_extension(top.v)

=============================================================================
