----------------------------- MODULE SymbolStream -----------------------------
(***************************************************************************)
(* What the coders of points see of the arithmetic coder: symbols go in    *)
(* one after the other, each under a model, and come out again as long as  *)
(* the decoder asks for them in the same order under the same models       *)
(* (ArithmeticCoder checks this); one that asks for anything else is out   *)
(* of step and gets nonsense, here 0.  Integers are coded by their         *)
(* distance from a prediction (IntegerCompressor checks this).             *)
(***************************************************************************)
EXTENDS Integers, Sequences, TLC

CONSTANT Fit              \* 2^31: a difference below it is coded as an integer

Half == 2 * Fit           \* 2^32

Fits(d) == -Fit <= d /\ d < Fit

\* The cast of a U32 to an I32.
AsI32(n) == IF n >= Fit THEN n - Half ELSE n

\* encodeSymbol(), encodeBit(), writeInt() and compress() with the prediction.
Put(model, symbol) == <<[model |-> model, symbol |-> symbol]>>

Compress(model, pred, real) == Put(model, real - pred)

Opt(condition, symbols) == IF condition THEN symbols ELSE <<>>

\* The reading end: what is left, the last value, whether all was as asked for.
Reading(symbols) == [left |-> symbols, value |-> 0, inStep |-> TRUE]

Ask(d, model) ==
  IF d.left # <<>> /\ d.left[1].model = model
  THEN [d EXCEPT !.left = Tail(@), !.value = d.left[1].symbol]
  ELSE [d EXCEPT !.inStep = FALSE, !.value = 0]

Decompress(d, model, pred) == LET a == Ask(d, model) IN [a EXCEPT !.value = @ + pred]

AskIf(condition, d, model, otherwise) ==
  IF condition THEN Ask(d, model) ELSE [d EXCEPT !.value = otherwise]

DecompressIf(condition, d, model, pred) ==
  IF condition THEN Decompress(d, model, pred) ELSE [d EXCEPT !.value = pred]

\* What a reader has of an item: the stream, the mask of what changed, the
\* item so far, beginning with the last one.
Item(d, mask, last) == [thread |-> d, mask |-> mask, item |-> last]

Got(a, field, d) == [a EXCEPT !.thread = d, !.item[field] = d.value]

Took(a, field, by) == [a EXCEPT !.thread = by, !.item[field] = @ + by.value]

\* Bits of a mask.
Flag(condition, bit) == IF condition THEN 2^bit ELSE 0

Bit(mask, bit) == (mask \div 2^bit) % 2 = 1

\* Macros of mydefs.hpp.
U8_FOLD(n) == IF n < 0 THEN n + 256 ELSE IF n > 255 THEN n - 256 ELSE n

U8_CLAMP(n) == IF n < 0 THEN 0 ELSE IF n > 255 THEN 255 ELSE n

U32_ZERO_BIT_0(n) == n - (n % 2)

Least(a, b) == IF a < b THEN a ELSE b

Magnitude(n) == IF n < 0 THEN -n ELSE n

\* Division of C, towards zero.
Quotient(a, b) ==
  LET q == Magnitude(a) \div Magnitude(b) IN IF (a < 0) # (b < 0) THEN -q ELSE q

\* I32_QUANTIZE(a / b): to the nearest, halves away from zero.
I32_QUANTIZE(a, b) ==
  LET q == (2 * Magnitude(a) + Magnitude(b)) \div (2 * Magnitude(b))
  IN IF (a < 0) # (b < 0) THEN -q ELSE q

\* getK(): the size of the corrector that was coded last.
K(corr) ==
  LET c1 == IF corr <= 0 THEN -corr ELSE corr - 1
  IN CHOOSE k \in 0 .. 30 : c1 < 2^k /\ (k = 0 \/ c1 >= 2^(k-1))
==============================================================================
