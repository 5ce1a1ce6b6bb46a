---------------------------- MODULE RetryStrategy ----------------------------
(***************************************************************************)
(* RetryStrategy::delay_for_attempt with the widths of its integers.  They *)
(* are parameters, so that TLC reaches their edges at small numbers: in    *)
(* the code AttemptBits = 32, WideBits = 64, NarrowBits = 32 and           *)
(* NanosBits = 64.  A duration is a number of nanoseconds and saturates    *)
(* at DurationMax; a strategy is a record [kind, base, max].               *)
(***************************************************************************)
EXTENDS Integers

CONSTANTS
  AttemptBits,   \* attempt as u32
  WideBits,      \* 1u64.checked_shl
  NarrowBits,    \* u32::try_from(factor)
  NanosBits,     \* as_nanos() as u64
  DurationMax    \* Duration::MAX

\* 2^n, as a recursive function: proofs can say what it is, but not what ^ is.
Pow2[n \in Nat] == IF n = 0 THEN 1 ELSE 2 * Pow2[n - 1]

ASSUME WidthsAssumption ==
  /\ {AttemptBits, WideBits, NarrowBits, NanosBits} \subseteq Nat \ {0}
  /\ NarrowBits <= WideBits
  /\ WideBits < Pow2[AttemptBits]
  /\ DurationMax \in Nat

Minimum(a, b) == IF a <= b THEN a ELSE b

FactorWrappingShift(attempt) ==
  LET shift == attempt % Pow2[AttemptBits]
      wide  == Pow2[shift % WideBits]
  IN Minimum(wide, Pow2[NarrowBits] - 1)

\* 2^attempt, as wide as the u32 that multiplies the base.
Factor(attempt) ==
  LET shift == attempt % Pow2[AttemptBits]
      wide  == IF shift < WideBits THEN Pow2[shift] ELSE Pow2[WideBits] - 1
  IN Minimum(wide, Pow2[NarrowBits] - 1)

Capped(s, attempt) ==
  LET delay == Minimum(s.base * Factor(attempt), DurationMax)   \* saturating_mul
  IN IF delay > s.max THEN s.max ELSE delay

Nanos(s, attempt) == Capped(s, attempt) % Pow2[NanosBits]

\* entropy % (nanos + 1) for any entropy; nanos + 1 overflows at the top, and
\* the remainder by what it wraps to panics too, so that nothing is returned.
Jittered(s, attempt) ==
  IF Nanos(s, attempt) = Pow2[NanosBits] - 1 THEN {} ELSE 0 .. Nanos(s, attempt)

\* The delays that delay_for_attempt may return; none if it panics.
Delays(s, attempt) ==
  CASE s.kind = "fixed"       -> {s.base}
    [] s.kind = "exponential" -> {Capped(s, attempt)}
    [] s.kind = "jitter"      -> Jittered(s, attempt)

\* What the documentation of Exponential says: min(base * 2^n, max).
Documented(s, n) == Minimum(s.base * Pow2[n], s.max)
=============================================================================
