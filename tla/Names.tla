------------------------------- MODULE Names -------------------------------
(***************************************************************************)
(* File names as protocol data (src/crates/steadq-names/src/lib.rs): how a *)
(* name is put together, parsed, and bound to its directory by a tag.      *)
(*                                                                         *)
(* A name is the sequence of its dot-separated parts, the extension last.  *)
(* A part is a letter and a number written with a count of hex digits that *)
(* are all lower-case or not.  The tag stands for a hash without           *)
(* collisions: it is the queue and the context it is computed from.        *)
(***************************************************************************)
EXTENDS Naturals, Sequences

Malformed == [ok |-> FALSE]
Part(letter, digits, val) == [letter |-> letter, digits |-> digits, val |-> val, lower |-> TRUE]
Ext(e) == <<Part(e, 0, <<>>)>>

\* State::dir_name
dir_name(state) == CASE state = "Ready" -> "ready" [] state = "Leased" -> "leased" [] state = "Delayed" -> "delayed"
                     [] state = "Receipt" -> "receipts" [] state = "Dead" -> "dead" [] state = "Quarantine" -> "quarantine"

compute_name_tag(queue, context) == <<queue, context>>

base_name(c) == <<Part("", 32, c.job_id), Part("g", 16, c.generation), Part("a", 8, c.attempt), Part("m", 8, c.maximum_attempts)>>
leased_base(f) == base_name(f.common) \o <<Part("o", 32, f.boot_id), Part("b", 16, f.boottime_deadline),
                                          Part("w", 16, f.wall_deadline), Part("t", 32, f.token)>>
delayed_base(f) == base_name(f.common) \o <<Part("d", 16, f.not_before)>>
dead_base(f) == base_name(f.common) \o <<Part("x", 4, f.reason)>>
receipt_base(f) == base_name(f.common) \o <<Part("t", 32, f.token)>>

\* The directory d has a boot id, a bucket and a shard where its state does.
ready_context(d, base) == <<"ready", 0, 0, d.shard, base>>
leased_context(d, base) == <<"leased", d.boot_id, d.bucket, d.shard, base>>
delayed_context(d, base) == <<"delayed", 0, d.bucket, d.shard, base>>
terminal_context(state, d, base) == <<dir_name(state), 0, d.bucket, d.shard, base>>

tagged_filename(base, tag, ext) == base \o <<Part("k", 16, tag)>> \o Ext(ext)

ready_filename(f, tag) == tagged_filename(base_name(f.common), tag, "sqj")
delayed_filename(f, tag) == tagged_filename(delayed_base(f), tag, "sqj")
dead_filename(f, tag) == tagged_filename(dead_base(f), tag, "sqj")
receipt_filename(f, tag) == tagged_filename(receipt_base(f), tag, "rct")
leased_filename(f, tag) == tagged_filename(leased_base(f), tag, "sqj")
temp_filename(f) == <<Part("", 16, f.created_boottime), Part("", 32, f.random)>> \o Ext("tmp")
quarantine_filename(f) == <<Part("q", 32, f.quarantine_id), Part("x", 4, f.reason)>> \o Ext("raw")

make_ready_name(q, d, f) == ready_filename(f, compute_name_tag(q, ready_context(d, base_name(f.common))))
make_delayed_name(q, d, f) == delayed_filename(f, compute_name_tag(q, delayed_context(d, delayed_base(f))))
make_leased_name(q, d, f) == leased_filename(f, compute_name_tag(q, leased_context(d, leased_base(f))))
make_receipt_name(q, d, f) == receipt_filename(f, compute_name_tag(q, terminal_context("Receipt", d, receipt_base(f))))
make_dead_name(q, d, f) == dead_filename(f, compute_name_tag(q, terminal_context("Dead", d, dead_base(f))))

-----------------------------------------------------------------------------
hex_decode_array(p, letter, digits) == p.letter = letter /\ p.digits = digits /\ p.lower

\* The common fields come first; the count of parts, the letters and the
\* widths have to be right, and nothing may follow.
CommonParts == <<<<"", 32>>, <<"g", 16>>, <<"a", 8>>, <<"m", 8>>>>

\* Variant: parts in excess are ignored.
Fits_prefix(name, parts, ext) ==
    /\ Len(name) > Len(parts) /\ Ext(ext) = <<name[Len(name)]>>
    /\ \A i \in DOMAIN parts : hex_decode_array(name[i], parts[i][1], parts[i][2])

Fits(name, parts, ext) ==
    /\ Len(name) = Len(parts) + 1 /\ Ext(ext) = <<name[Len(name)]>>
    /\ \A i \in DOMAIN parts : hex_decode_array(name[i], parts[i][1], parts[i][2])

parse_common_strict(n) == [job_id |-> n[1].val, generation |-> n[2].val, attempt |-> n[3].val, maximum_attempts |-> n[4].val]

parse_ready(n) ==
    IF Fits(n, CommonParts \o <<<<"k", 16>>>>, "sqj")
    THEN [ok |-> TRUE, f |-> [common |-> parse_common_strict(n)], tag |-> n[5].val] ELSE Malformed
parse_delayed(n) ==
    IF Fits(n, CommonParts \o <<<<"d", 16>>, <<"k", 16>>>>, "sqj")
    THEN [ok |-> TRUE, f |-> [common |-> parse_common_strict(n), not_before |-> n[5].val], tag |-> n[6].val] ELSE Malformed
parse_dead(n) ==
    IF Fits(n, CommonParts \o <<<<"x", 4>>, <<"k", 16>>>>, "sqj")
    THEN [ok |-> TRUE, f |-> [common |-> parse_common_strict(n), reason |-> n[5].val], tag |-> n[6].val] ELSE Malformed
parse_receipt(n) ==
    IF Fits(n, CommonParts \o <<<<"t", 32>>, <<"k", 16>>>>, "rct")
    THEN [ok |-> TRUE, f |-> [common |-> parse_common_strict(n), token |-> n[5].val], tag |-> n[6].val] ELSE Malformed
parse_leased(n) ==
    IF Fits(n, CommonParts \o <<<<"o", 32>>, <<"b", 16>>, <<"w", 16>>, <<"t", 32>>, <<"k", 16>>>>, "sqj")
    THEN [ok |-> TRUE, tag |-> n[9].val,
          f |-> [common |-> parse_common_strict(n), boot_id |-> n[5].val, boottime_deadline |-> n[6].val,
                 wall_deadline |-> n[7].val, token |-> n[8].val]] ELSE Malformed
parse_temp(n) ==
    IF Fits(n, <<<<"", 16>>, <<"", 32>>>>, "tmp")
    THEN [ok |-> TRUE, f |-> [created_boottime |-> n[1].val, random |-> n[2].val]] ELSE Malformed
parse_quarantine(n) ==
    IF Fits(n, <<<<"q", 32>>, <<"x", 4>>>>, "raw")
    THEN [ok |-> TRUE, f |-> [quarantine_id |-> n[1].val, reason |-> n[2].val]] ELSE Malformed

authenticate_ready(r, q, d) == compute_name_tag(q, ready_context(d, base_name(r.f.common))) = r.tag
authenticate_leased(r, q, d) == compute_name_tag(q, leased_context(d, leased_base(r.f))) = r.tag
authenticate_delayed(r, q, d) == compute_name_tag(q, delayed_context(d, delayed_base(r.f))) = r.tag
authenticate_dead(r, q, d) == compute_name_tag(q, terminal_context("Dead", d, dead_base(r.f))) = r.tag
authenticate_receipt(r, q, d) == compute_name_tag(q, terminal_context("Receipt", d, receipt_base(r.f))) = r.tag

=============================================================================
