---------------------------- MODULE BackoffDelay ----------------------------
(***************************************************************************)
(* time.Duration(math.Pow(2, steps)) * base, capped: the delay that both   *)
(* the login backoff and the webhook dispatcher compute.  The conversion   *)
(* and the product are those of integers of a fixed width, so a large      *)
(* number of steps leaves the range.                                       *)
(***************************************************************************)
EXTENDS Integers

CONSTANT IntWidth   \* bits of a time.Duration; 64 in the program

ASSUME WidthIsUseful == IntWidth \in Nat \ {0, 1}

MinInt == -(2 ^ (IntWidth - 1))
MaxInt == 2 ^ (IntWidth - 1) - 1

\* The product of two's complement integers.
Wrapped(x) == ((x - MinInt) % 2 ^ IntWidth) + MinInt

\* A float64 converted to an integer: what becomes of a value out of range
\* depends on the processor.
PowerOfTwo(steps) == IF steps < IntWidth - 1 THEN {2 ^ steps} ELSE {MinInt, MaxInt}

\* fault: a product that wrapped around to zero or below is kept
CappedAbove(d, max) == IF d > max THEN max ELSE d
Capped(d, max) == IF d > max \/ d <= 0 THEN max ELSE d

\* The delays a build may impose after that many doublings.
Delays(steps, base, max) == {Capped(Wrapped(p * base), max) : p \in PowerOfTwo(steps)}

\* What is meant: doubling from base up to max, over the integers.
IntendedDelay(steps, base, max) ==
    IF base * 2 ^ steps > max THEN max ELSE base * 2 ^ steps
=============================================================================
