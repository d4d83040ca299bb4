----------------------------- MODULE Arithmetic -----------------------------
(***************************************************************************)
(* The integer arithmetic behind proof of work: uint256.rs, pow.rs,         *)
(* difficulty.rs, block_work of chain.rs and mine of bitrst-miner.           *)
(*                                                                          *)
(* A [u8; 32] is an array of Digits bytes of ByteBits bits, least           *)
(* significant first.  The loops are folds over the indices in the order     *)
(* the code visits them.  An Option or Result is a record: kind is "some",   *)
(* the error, or "panic".                                                    *)
(***************************************************************************)
EXTENDS Integers, SequencesExt

CONSTANTS ByteBits,         \* bits of a byte (8)
          Digits,           \* bytes of a 256-bit integer (32)
          ProductExtra,     \* extra bytes of the product of mul_div_threshold (4)
          TARGET_TIMESPAN,
          MAX_COMPACT_BITS

Radix == 2 ^ ByteBits
Index == 0 .. Digits - 1
Number == [Index -> 0 .. Radix - 1]
Builds == {"debug", "release"}      \* u8 additions panic or wrap on overflow

Some(v) == [kind |-> "some", v |-> v]
None == [kind |-> "none"]
Upward(n) == [i \in 1 .. n |-> i - 1]
Downward(n) == [i \in 1 .. n |-> n - i]
Zero == [i \in Index |-> 0]

Digit(value, i) == (value \div Radix ^ i) % Radix

\* The number an array of bytes stands for.
Value(x) == MapThenSumSet(LAMBDA i : x[i] * Radix ^ i, DOMAIN x)
ASSUME WidthAssumption == {ByteBits, Digits, ProductExtra, TARGET_TIMESPAN} \subseteq Nat \ {0}
-----------------------------------------------------------------------------
(* uint256.rs *)

cmp_greater(left, right) ==
    \E i \in Index : left[i] > right[i] /\ \A j \in Index : j > i => left[j] = right[j]

\* The early return once the carry is zero leaves the other bytes as they are.
add_u256_le(value, addend) ==
    LET step(s, i) == LET sum == value[i] + s.carry
                      IN [out |-> [s.out EXCEPT ![i] = sum % Radix], carry |-> sum \div Radix]
        end == FoldLeft(step, [out |-> value, carry |-> addend], Upward(Digits))
    IN IF end.carry = 0 THEN Some(end.out) ELSE None

not_u256_le(value) == [i \in Index |-> Radix - 1 - value[i]]

\* Mutant of shl_one_u256_le: the carry between bytes is lost.
MutShl(value) == [i \in Index |-> (value[i] * 2) % Radix]

shl_one_u256_le(value) ==
    LET carry(i) == IF i = 0 THEN 0 ELSE value[i - 1] \div (Radix \div 2)
    IN [i \in Index |-> ((value[i] * 2) % Radix) + carry(i)]

\* right[index] + borrow is a u8 addition: with right[index] = 0xff and a
\* borrow it panics in a debug build and is 0 in a release build.
sub_u256_le(build, left, right) ==
    LET step(s, i) ==
            LET taken == (right[i] + s.borrow) % Radix
            IN [out |-> [s.out EXCEPT ![i] = (left[i] - taken) % Radix],
                borrow |-> IF left[i] < taken THEN 1 ELSE 0,
                panic |-> s.panic \/ (build = "debug" /\ right[i] + s.borrow = Radix)]
        end == FoldLeft(step, [out |-> Zero, borrow |-> 0, panic |-> FALSE], Upward(Digits))
    IN CASE end.panic -> [kind |-> "panic"]
         [] ~end.panic /\ end.borrow # 0 -> None
         [] OTHER -> Some(end.out)

bit_is_set(value, bit) == (value[bit \div ByteBits] \div 2 ^ (bit % ByteBits)) % 2 = 1
set_bit(value, bit) == [value EXCEPT ![bit \div ByteBits] = @ + 2 ^ (bit % ByteBits)]

div_u256_le(build, dividend, divisor) ==
    LET step(s, bit) ==
            LET shifted == shl_one_u256_le(s.remainder)
                next == IF bit_is_set(dividend, bit) THEN set_bit(shifted, 0) ELSE shifted
                diff == sub_u256_le(build, next, divisor)
            IN CASE s.kind # "some" -> s
                 [] s.kind = "some" /\ cmp_greater(divisor, next) -> [s EXCEPT !.remainder = next]
                 [] OTHER -> IF diff.kind = "some"
                             THEN [s EXCEPT !.remainder = diff.v, !.v = set_bit(@, bit)]
                             ELSE [s EXCEPT !.kind = diff.kind]
        end == FoldLeft(step, [kind |-> "some", v |-> Zero, remainder |-> Zero],
                        Downward(ByteBits * Digits))
    IN CASE divisor = Zero -> None
         [] divisor # Zero /\ cmp_greater(divisor, dividend) -> Some(Zero)
         [] OTHER -> IF end.kind = "some" THEN Some(end.v) ELSE [kind |-> end.kind]

work_from_target(build, threshold) ==
    LET plus_one == add_u256_le(threshold, 1)
        quotient == div_u256_le(build, not_u256_le(threshold), plus_one.v)
    IN IF threshold = Zero \/ plus_one.kind = "none" THEN None
       ELSE IF quotient.kind = "some" THEN add_u256_le(quotient.v, 1) ELSE quotient
-----------------------------------------------------------------------------
(* pow.rs: a compact target has an exponent byte and a mantissa of three      *)
(* bytes, whose top bit is a sign.                                            *)

Mantissas == Radix ^ 3
SignBit == Mantissas \div 2

from_bits(bits) ==
    LET exponent == bits \div Mantissas
        mantissa == bits % SignBit
        value == IF exponent <= 3 THEN mantissa \div Radix ^ (3 - exponent) ELSE mantissa
        offset == IF exponent <= 3 THEN 0 ELSE exponent - 3
    IN IF mantissa = 0 \/ bits % Mantissas >= SignBit \/ offset + 3 > Digits THEN None
       ELSE Some([i \in Index |-> IF i \in offset .. offset + 2 THEN Digit(value, i - offset) ELSE 0])

\* Mutant of meets: a hash equal to the target is refused.
MutMeets(threshold, hash) == cmp_greater(threshold, hash)

meets(threshold, hash) == ~cmp_greater(hash, threshold)

significant_size(threshold) == Max({0} \cup {i + 1 : i \in {j \in Index : threshold[j] # 0}})

\* to_bits of a Target; the mantissa moves down a byte when its sign bit is set.
to_bits(threshold) ==
    LET size == significant_size(threshold)
        mantissa == IF size <= 3
                    THEN Value([i \in 0 .. size - 1 |-> threshold[i]]) * Radix ^ (3 - size)
                    ELSE Value([i \in 0 .. 2 |-> threshold[size - 3 + i]])
    IN CASE size = 0 -> None
         [] size > 0 /\ mantissa >= SignBit -> Some((size + 1) * Mantissas + mantissa \div Radix)
         [] OTHER -> Some(size * Mantissas + mantissa)

block_work(build, bits) ==
    LET target == from_bits(bits)
    IN IF target.kind = "none" THEN None ELSE work_from_target(build, target.v)
-----------------------------------------------------------------------------
(* difficulty.rs *)

\* Mutant of clamp_timespan: no lower bound.
MutClamp(actual, target) == IF actual > target * 4 THEN target * 4 ELSE actual

clamp_timespan(actual, target) ==
    LET minimum == target \div 4
        maximum == target * 4
    IN IF actual < minimum THEN minimum ELSE IF actual > maximum THEN maximum ELSE actual

div_le_by_u64(input, divisor) ==
    LET step(s, i) ==
            LET accumulator == s.remainder * Radix + input[i]
                quotient == accumulator \div divisor
            IN [out |-> IF i \in Index THEN [s.out EXCEPT ![i] = quotient % Radix] ELSE s.out,
                fits |-> s.fits /\ (i \in Index \/ quotient = 0),
                remainder |-> accumulator % divisor]
        end == FoldLeft(step, [out |-> Zero, fits |-> TRUE, remainder |-> 0],
                        Downward(Digits + ProductExtra))
    IN IF end.fits THEN Some(end.out) ELSE None

mul_div_threshold(threshold, numerator, denominator) ==
    LET step(s, i) ==
            LET scaled == (IF i \in Index THEN threshold[i] * numerator ELSE 0) + s.carry
            IN [product |-> [s.product EXCEPT ![i] = scaled % Radix], carry |-> scaled \div Radix]
        end == FoldLeft(step, [product |-> [i \in 0 .. Digits + ProductExtra - 1 |-> 0], carry |-> 0],
                        Upward(Digits + ProductExtra))
    IN IF denominator = 0 \/ end.carry # 0 THEN None ELSE div_le_by_u64(end.product, denominator)

cap_to_max_target(threshold) ==
    LET max_target == from_bits(MAX_COMPACT_BITS).v
    IN IF cmp_greater(threshold, max_target) THEN max_target ELSE threshold

adjust_bits(prev_bits, actual_timespan) ==
    LET prev == from_bits(prev_bits)
        scaled == mul_div_threshold(prev.v, clamp_timespan(actual_timespan, TARGET_TIMESPAN),
                                    TARGET_TIMESPAN)
        bits == to_bits(cap_to_max_target(scaled.v))
    IN CASE prev.kind = "none" -> [kind |-> "InvalidPreviousBits"]
         [] prev.kind = "some" /\ scaled.kind = "none" -> [kind |-> "Overflow"]
         [] OTHER -> IF bits.kind = "none" THEN [kind |-> "EncodingFailed"] ELSE bits
-----------------------------------------------------------------------------
(* bitrst-miner: hash is the header's hash as a function of its nonce.        *)
mine(hash, nonce, threshold, attempts) ==
    LET nonces == Cardinality(DOMAIN hash)
        step(s, i) == IF s.kind = "some" THEN s
                      ELSE IF meets(threshold, hash[s.nonce])
                      THEN [s EXCEPT !.kind = "some"]
                      ELSE [s EXCEPT !.nonce = (@ + 1) % nonces]
    IN FoldLeft(step, [kind |-> "AttemptsExceeded", nonce |-> nonce], Upward(attempts))
=============================================================================
