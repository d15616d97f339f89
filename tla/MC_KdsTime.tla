---------------------------- MODULE MC_KdsTime ----------------------------
(* Ticks around the L0 boundaries 33..40 of a scaled clock: Base = 3 and a *)
(* 13-bit significand give the same rounding window (about 2^3.5 ticks)    *)
(* that Base = 3.6e11 and 53 bits give at today's L0 (about 363).          *)
EXTENDS KdsTime

MCBase == 3
MCTimes == UNION {(k * 32 * 32 * MCBase - 20) .. (k * 32 * 32 * MCBase + 4) : k \in 33 .. 40}
=============================================================================
