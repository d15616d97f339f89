------------------------------ MODULE KdsTime ------------------------------
(***************************************************************************)
(* The current-time seed-tree index of _get_protection_gke_from_cache     *)
(* (src/dpapi_ng/_client.py), which ncrypt_protect_secret uses to probe   *)
(* the cache.  The code divides with Python's true division, an int/int   *)
(* division correctly rounded to a binary float of Prec significant bits  *)
(* (53 for CPython), then truncates with int().  The MS-GKDI rule is the  *)
(* integer floor.  Base and Prec are scaled down together so that TLC's   *)
(* integers hold the values while the rounding window near an L0 boundary *)
(* keeps its real size of about ten FILETIME ticks.                       *)
(***************************************************************************)
EXTENDS Integers

CONSTANTS
    Base,      \* FILETIME ticks per L2 interval (360000000000 in the code)
    Prec,      \* significand bits of a float (53 in CPython)
    Times      \* the FILETIME values current_time takes in the run

ASSUME Base \in Nat \ {0} /\ Prec \in Nat \ {0} /\ Times \subseteq Nat

VARIABLE current_time

\* x / y rounded to an integer, ties to even.
RoundHalfEven(x, y) ==
    LET q == x \div y
        r == x % y
    IN  IF 2 * r > y \/ (2 * r = y /\ q % 2 = 1) THEN q + 1 ELSE q

RECURSIVE Log2Floor(_)
Log2Floor(n) == IF n < 2 THEN 0 ELSE 1 + Log2Floor(n \div 2)

\* int(a / b) in Python for naturals a and b > 0: the quotient rounded to
\* Prec significant bits, then truncated.
TrueDivTrunc(a, b) ==
    IF a < b
      THEN IF a > 0 /\ (b - a) * 2 ^ (Prec + 1) <= b THEN 1 ELSE 0
    ELSE LET d == Log2Floor(a \div b) - Prec + 1
         IN  IF d >= 0 THEN RoundHalfEven(a, b * 2 ^ d) * 2 ^ d
             ELSE RoundHalfEven(a * 2 ^ (-d), b) \div 2 ^ (-d)

\* _get_protection_gke_from_cache: l0, l1 and l2 of current_time.
CurrentIndex(t) ==
    [l0 |-> TrueDivTrunc(t, 32 * 32 * Base),
     l1 |-> TrueDivTrunc(t % (32 * 32 * Base), 32 * Base),
     l2 |-> TrueDivTrunc(t % (32 * Base), Base)]

\* MS-GKDI 3.1.4.1: the index of a time is its floor quotient.
GkdiIndex(t) ==
    [l0 |-> t \div (32 * 32 * Base),
     l1 |-> (t % (32 * 32 * Base)) \div (32 * Base),
     l2 |-> (t % (32 * Base)) \div Base]

Init == current_time \in Times

\* The clock advances by one FILETIME tick.
Tick ==
    /\ current_time + 1 \in Times
    /\ current_time' = current_time + 1

Next == Tick

Spec == Init /\ [][Next]_current_time

TypeOK == current_time \in Times

\* ncrypt_protect_secret asks the cache for the key of the current time:
\* the index _get_protection_gke_from_cache computes is the MS-GKDI index,
\* also in the last ticks before an L0 boundary.
CurrentIndexIsGkdiIndex == CurrentIndex(current_time) = GkdiIndex(current_time)

=============================================================================
