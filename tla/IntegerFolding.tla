---------------------------- MODULE IntegerFolding ----------------------------
(***************************************************************************)
(* How IntegerCompressor folds the distance between a value and its        *)
(* prediction into the range of the values, and back.  An I32 wraps around *)
(* at Half, 2^31; a range of 0 stands for all of it.                       *)
(***************************************************************************)
EXTENDS Integers

CONSTANT Half

ASSUME HalfAssumption == Half \in Nat \ {0}

I32 == -Half .. Half - 1

AtMost(n, bound) == IF n > bound THEN bound ELSE n

\* What an I32 holds of a number.
Wrap(n) == ((n + Half) % (2 * Half)) - Half

CorrMin(range) == IF range = 0 THEN -Half ELSE -(range \div 2)
CorrMax(range) == IF range = 0 THEN Half - 1 ELSE CorrMin(range) + range - 1

\* compress(): the corrector.
Fold(range, pred, real) ==
  LET corr == Wrap(real - pred)
  IN IF corr < CorrMin(range) THEN Wrap(corr + range)
     ELSE IF corr > CorrMax(range) THEN Wrap(corr - range)
     ELSE corr

\* Fault: the sum does not wrap around.
UnfoldWide(range, pred, corr) ==
  LET real == pred + corr
  IN IF real < 0 THEN real + range
     ELSE IF real >= range THEN real - range
     ELSE real

\* Fault: the range itself is taken for a value.
UnfoldToRange(range, pred, corr) ==
  LET real == Wrap(pred + corr)
  IN IF real < 0 THEN Wrap(real + range)
     ELSE IF real > range THEN Wrap(real - range)
     ELSE real

\* decompress(): the value again.  (A range of 0 is never above the value as a
\* U32, but to subtract it changes nothing.)
Unfold(range, pred, corr) ==
  LET real == Wrap(pred + corr)
  IN IF real < 0 THEN Wrap(real + range)
     ELSE IF real >= range THEN Wrap(real - range)
     ELSE real
==============================================================================
