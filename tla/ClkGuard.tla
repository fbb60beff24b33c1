------------------------------ MODULE ClkGuard ------------------------------
(***************************************************************************)
(* The clock guard (src/src/clkguard.c).  A CLOCK is 32 bits wide and an   *)
(* emulated machine runs for longer than that, so once per frame the guard *)
(* checks whether the clock has reached clk_max_value and, if so, takes    *)
(* the same amount away from the clock and from every clock value that a   *)
(* registered callback looks after.                                        *)
(***************************************************************************)
EXTENDS Integers

CONSTANTS
  CLKGUARD_SUB_MIN,   \* cycles left below the clock after a subtraction
  ClkMaxValue,        \* guard->clk_max_value
  ClkBase             \* guard->clk_base: the amount is a multiple of it

\* clk_guard_init refuses a smaller maximum; the multiple of the base that is
\* subtracted is not zero (the base is one frame, less than CLKGUARD_SUB_MIN).
ASSUME GuardAssumption ==
  /\ CLKGUARD_SUB_MIN \in Nat \ {0}
  /\ ClkMaxValue \in Nat /\ ClkMaxValue >= 3 * CLKGUARD_SUB_MIN
  /\ ClkBase \in 0 .. CLKGUARD_SUB_MIN

clk_guard_clock_sub ==
  LET sub == ClkMaxValue - CLKGUARD_SUB_MIN
  IN  IF ClkBase # 0 THEN (sub \div ClkBase) * ClkBase ELSE sub

\* clk_guard_prevent_overflow does nothing below the maximum.
NeedsSubtraction(clk) == clk >= ClkMaxValue
=============================================================================
