------------------------------- MODULE Wavelet -------------------------------
(***************************************************************************)
(* The periodic db4 transform of src/src/wavelet_db4.c.  The arithmetic is *)
(* exact, in the integers modulo a prime: Low is a filter of eight taps    *)
(* that satisfies there the equations that make the real db4 filter        *)
(* orthonormal, and whether the transform is invertible depends on these   *)
(* equations and on the indices, never on the values of the taps.          *)
(***************************************************************************)
EXTENDS Integers, FiniteSetsExt

CONSTANTS
  Prime,         \* the arithmetic is modulo this number
  Low            \* db4_low, a function on 0 .. 7

Taps == 0 .. 7
ADAPTIVE_MAX_WINDOW == 256

ASSUME FilterAssumption ==
  /\ Prime \in Nat /\ Low \in [Taps -> 0 .. Prime - 1]
  /\ \A shift \in {0, 2, 4, 6} :
        MapThenSumSet(LAMBDA k : Low[k] * Low[k + shift], 0 .. 7 - shift) % Prime
          = IF shift = 0 THEN 1 ELSE 0

\* Mutant of db4_high: no sign.
HighUnsigned(k) == Low[7 - k]
db4_high(k) == IF k % 2 = 0 THEN -Low[7 - k] ELSE Low[7 - k]

validate_transform(count, levels) ==
  /\ count \in 8 .. ADAPTIVE_MAX_WINDOW
  /\ levels \in 1 .. 63
  /\ count \div 2 ^ (levels - 1) >= 8
  /\ count % 2 ^ levels = 0

\* One level forward: the averages of the part worked on go to its first
\* half, the details to its second, the rest of the array stays.
Analyzed(v, part) ==
  LET half == part \div 2
      Filtered(Tap(_), i) ==
        MapThenSumSet(LAMBDA k : Tap(k) * v[(2 * i + k) % part], Taps) % Prime
  IN [i \in DOMAIN v |-> IF i < half THEN Filtered(LAMBDA k : Low[k], i)
                         ELSE IF i < 2 * half THEN Filtered(db4_high, i - half)
                         ELSE v[i]]

\* One level back: average i and detail i are scattered over the eight places
\* they were gathered from.
Synthesized(v, part) ==
  LET whole == 2 * part
      Scattered(ik) == Low[ik[2]] * v[ik[1]] + db4_high(ik[2]) * v[part + ik[1]]
      Reaching(index) == {ik \in (0 .. part - 1) \X Taps : (2 * ik[1] + ik[2]) % whole = index}
  IN [i \in DOMAIN v |-> IF i < whole
                         THEN MapThenSumSet(Scattered, Reaching(i)) % Prime
                         ELSE v[i]]

\* The array after each level; each works on half of what the one before did.
adaptive_db4_forward(values, levels) ==
  LET count == Cardinality(DOMAIN values)
      after[level \in 0 .. levels] ==
        IF level = 0 THEN values ELSE Analyzed(after[level - 1], count \div 2 ^ (level - 1))
  IN after[levels]

\* Back, from the part that the count and the levels give alone.
adaptive_db4_inverse(values, levels) ==
  LET current == Cardinality(DOMAIN values) \div 2 ^ levels
      after[level \in 0 .. levels] ==
        IF level = 0 THEN values ELSE Synthesized(after[level - 1], current * 2 ^ (level - 1))
  IN after[levels]

=============================================================================
