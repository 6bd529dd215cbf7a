------------------------------ MODULE Buckets ------------------------------
(***************************************************************************)
(* Bucket arithmetic and retry delays (src/crates/steadq-math/src/lib.rs)  *)
(* and the order in which shards are scanned (steadq-names), with machine  *)
(* words of WordBits bits.  A hash is any word.                            *)
(***************************************************************************)
EXTENDS Naturals, FiniteSets

CONSTANT WordBits
ASSUME WordAssumption == WordBits \in Nat \ {0}

WordMax == 2^WordBits - 1
Word == 0..WordMax

\* Option: a set that is empty or holds the value.
Checked(n) == IF n <= WordMax THEN {n} ELSE {}
checked_add_u64(a, b) == Checked(a + b)
checked_mul_u64(a, b) == Checked(a * b)

bucket_number(t, width) == IF width = 0 THEN {} ELSE {t \div width}

\* Variant: a boundary counts as inside the next bucket.
ceiling_bucket_next(t, width) == IF width = 0 THEN {} ELSE checked_add_u64(t \div width, 1)

ceiling_bucket(t, width) ==
    IF width = 0 THEN {} ELSE IF t % width # 0 THEN checked_add_u64(t \div width, 1) ELSE {t \div width}

bucket_start_ns(b, width) == checked_mul_u64(b, width)
bucket_end_ns(b, width) == UNION {checked_add_u64(s, width) : s \in bucket_start_ns(b, width)}
lease_bucket(deadline, width) == bucket_number(deadline, width)

eligibility_bucket_and_ns(t, width) ==
    UNION {{<<b, ns>> : ns \in checked_mul_u64(b, width)} : b \in ceiling_bucket(t, width)}

effective_wall_floor(clock, stored, width) ==
    IF width = 0 THEN {} ELSE {IF clock > w THEN clock ELSE w : w \in checked_mul_u64(stored, width)}

\* The deadline has to fit a signed word.
retry_wall_deadline(floor, delay) == {d \in checked_add_u64(floor, delay) : d <= WordMax \div 2}

-----------------------------------------------------------------------------
\* A policy is [base, cap, jitter, max]; max is a set, as for Option.
effective_cap_ms(p) == IF p.max = {} THEN p.cap ELSE CHOOSE c \in p.max \cup {p.cap} : \A d \in p.max \cup {p.cap} : c <= d
RetryPolicy_validate(p) == p.base # 0 /\ effective_cap_ms(p) >= p.base

\* Variant: the shift wraps.
wrapping_double(base, exp) == IF exp = 0 THEN base ELSE (base * 2^(exp - 1)) % 2^WordBits

\* base * 2^(exp - 1), saturating; the shift may not reach the word size.
saturating_double(base, exp) ==
    IF exp = 0 \/ base = 0 THEN base
    ELSE IF exp > WordBits THEN WordMax
    ELSE IF base > WordMax \div 2^(exp - 1) THEN WordMax ELSE base * 2^(exp - 1)

span_midpoint(lower, span) == lower + span \div 2

Ceiling(p, attempt) == LET d == saturating_double(p.base, attempt)
                           cap == effective_cap_ms(p)
                       IN IF cap < d THEN cap ELSE d
LowerBound(c) == (c + 1) \div 2
Span(c) == c - LowerBound(c) + 1

Threshold(span) == (2^WordBits - span) % span
Accepts(span) == {x \in Word : x >= Threshold(span)}

\* What the delay can be, over all hashes: a sample that is accepted, or the
\* midpoint when 64 of them were rejected.
retry_delay_ms(p, attempt) ==
    IF ~RetryPolicy_validate(p) THEN {}
    ELSE IF attempt = 0 THEN {0}
    ELSE LET c == Ceiling(p, attempt)
             span == Span(c)
         IN IF ~p.jitter THEN {c}
            ELSE {LowerBound(c) + (x % span) : x \in Accepts(span)}
                 \cup (IF Threshold(span) = 0 THEN {} ELSE {span_midpoint(LowerBound(c), span)})

-----------------------------------------------------------------------------
\* Shard counts are powers of two, so a mask is a remainder.
compute_shard(hash, count) == hash % count

shard_scan_params(h1, h2, count) ==
    LET odd == IF h2 % 2 = 0 THEN h2 + 1 ELSE h2
    IN <<h1 % count, IF odd % count = 0 THEN 1 ELSE odd % count>>

shard_at(start, stride, i, count) == ((start + ((stride * i) % 2^WordBits)) % 2^WordBits) % count

=============================================================================
