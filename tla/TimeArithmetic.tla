--------------------------- MODULE TimeArithmetic ---------------------------
(***************************************************************************)
(* Timestamps (time.cpp, contracts.py): signed 64-bit nanoseconds, and how  *)
(* sums, differences and conversions refuse what they cannot represent.     *)
(* Machine arithmetic wraps around, in the guards too; the times of one     *)
(* sequence have one epoch and one clock.                                   *)
(***************************************************************************)
EXTENDS Integers

CONSTANTS
    MaxTime,      \* the greatest 64-bit integer
    Second,       \* nanoseconds in a second
    Microsecond,  \* nanoseconds in a microsecond
    Refused       \* no value: the call throws

ASSUME TimeAssumption ==
    /\ MaxTime \in Nat /\ Second \in Nat \ {0} /\ Microsecond \in Nat \ {0}
    /\ Refused \notin Int

MinTime == -MaxTime - 1
Int64 == MinTime..MaxTime
UInt64Max == 2 * MaxTime + 1

\* One signed operation, and one unsigned one, on 64 bits.
Wrapped(x) == IF x > MaxTime THEN x - (UInt64Max + 1)
              ELSE IF x < MinTime THEN x + (UInt64Max + 1) ELSE x

WrappedUnsigned(x) == x % (UInt64Max + 1)

\* Mutant: the guard of a positive duration serves both.
CheckedSum_OneGuard(time, duration) ==
    IF time > Wrapped(MaxTime - duration) THEN Refused ELSE Wrapped(time + duration)

\* checked_add
CheckedSum(time, duration) ==
    IF \/ duration > 0 /\ time > Wrapped(MaxTime - duration)
       \/ duration < 0 /\ time < Wrapped(MinTime - duration)
    THEN Refused
    ELSE Wrapped(time + duration)

\* Unsigned microseconds, as in the names of scans.
FromMicroseconds(count) ==
    IF count > MaxTime \div Microsecond THEN Refused ELSE count * Microsecond

(***************************************************************************)
(* Decimal seconds: a sign, whole seconds, and the digits behind the point  *)
(* down to tenths of a nanosecond; the rest of them rounds nothing.         *)
(***************************************************************************)
\* checked_nanosecond_magnitude
Signed(seconds, fraction, negative) ==
    LET limit == IF negative THEN MaxTime + 1 ELSE MaxTime
        magnitude == WrappedUnsigned(WrappedUnsigned(seconds * Second) + fraction)
    IN  IF \/ seconds > limit \div Second
           \/ seconds = limit \div Second /\ fraction > limit % Second
        THEN Refused
        ELSE IF negative THEN -magnitude ELSE magnitude

\* decimal_seconds_to_nanoseconds; parse_unsigned refuses longer numbers.
FromDecimalSeconds(lexeme) ==
    LET up == lexeme.tenths % 10 >= 5
        fraction == lexeme.tenths \div 10 + (IF up THEN 1 ELSE 0)
    IN  IF lexeme.seconds > UInt64Max THEN Refused
        ELSE IF fraction < Second THEN Signed(lexeme.seconds, fraction, lexeme.negative)
        ELSE IF lexeme.seconds = UInt64Max THEN Refused
        ELSE Signed(lexeme.seconds + 1, 0, lexeme.negative)

(***************************************************************************)
(* What they should be.                                                    *)
(***************************************************************************)
Representable(x) == IF x \in Int64 THEN x ELSE Refused

\* The nearest nanosecond, halves away from zero.
NearestNanosecond(lexeme) ==
    LET magnitude == (10 * Second * lexeme.seconds + lexeme.tenths + 5) \div 10
    IN  IF lexeme.negative THEN -magnitude ELSE magnitude
=============================================================================
