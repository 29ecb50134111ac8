--------------------------- MODULE ArithmeticModel ---------------------------
(***************************************************************************)
(* The adaptive models of the arithmetic coder: ArithmeticBitModel and     *)
(* ArithmeticModel.  Shifts are divisions by powers of two, which are      *)
(* constants, so that small widths can be checked.  ("Fault:" as in        *)
(* LasWritePoint.)                                                         *)
(***************************************************************************)
EXTENDS Integers, Sequences

CONSTANTS
  Scale,      \* 2^31, the numerator of probabilities
  BMUnit,     \* 2^BM__LengthShift = BM__MaxCount, probability 1 of a bit
  DMUnit,     \* 2^DM__LengthShift = DM__MaxCount, probability 1 of a symbol
  MinTable    \* 2^3, least number of cells in a decoder table

ASSUME ModelAssumption ==
  /\ BMUnit \in Nat /\ BMUnit >= 4
  /\ DMUnit \in Nat /\ DMUnit >= 4
  /\ Scale \in Nat /\ Scale % BMUnit = 0 /\ Scale % DMUnit = 0
  /\ Scale >= 4 * BMUnit /\ Scale >= 2 * DMUnit
  /\ MinTable \in Nat \ {0} /\ DMUnit % MinTable = 0

AtMost(n, bound) == IF n > bound THEN bound ELSE n

\* Fault: a symbol that was counted once is forgotten.
HalvedDown(n) == n \div 2

\* What counts are halved to.
Halved(n) == (n + 1) \div 2

------------------------------------------------------------------------------
(* ArithmeticBitModel *)

NewBitModel ==
  [bit_0_count |-> 1, bit_count |-> 2, bit_0_prob |-> BMUnit \div 2,
   update_cycle |-> 4, bits_until_update |-> 4]

\* The scaled probability of a 0 that was seen "zeros" times among "all".
BitProbability(zeros, all) == (zeros * (Scale \div all)) \div (Scale \div BMUnit)

BitModelUpdate(m) ==
  LET all   == m.bit_count + m.update_cycle
      halve == all > BMUnit
      zeros == IF halve THEN Halved(m.bit_0_count) ELSE m.bit_0_count
      half  == IF zeros = Halved(all) THEN Halved(all) + 1 ELSE Halved(all)
      total == IF halve THEN half ELSE all
      cycle == AtMost((5 * m.update_cycle) \div 4, 64)
  IN [bit_0_count |-> zeros, bit_count |-> total, bit_0_prob |-> BitProbability(zeros, total),
      update_cycle |-> cycle, bits_until_update |-> cycle]

\* A bit has been coded.
BitCoded(m, bit) ==
  LET counted == [m EXCEPT !.bit_0_count = IF bit = 0 THEN @ + 1 ELSE @,
                           !.bits_until_update = @ - 1]
  IN IF counted.bits_until_update = 0 THEN BitModelUpdate(counted) ELSE counted

------------------------------------------------------------------------------
(* ArithmeticModel over the symbols 0 .. n-1 *)

SumTo(f, k) == LET sum[i \in 0 .. k] == IF i = 0 THEN 0 ELSE sum[i-1] + f[i-1]
               IN sum[k]

\* The cumulative distribution of n symbols counted, scaled to DMUnit.
Distribution(n, symbol_count, total) ==
  [k \in 0 .. n-1 |->
     ((Scale \div total) * SumTo(symbol_count, k)) \div (Scale \div DMUnit)]

ModelUpdate(m) ==
  LET n     == m.symbols
      all   == m.total_count + m.update_cycle
      halve == all > DMUnit
      count == [k \in 0 .. n-1 |-> IF halve THEN Halved(m.symbol_count[k]) ELSE m.symbol_count[k]]
      total == IF halve THEN SumTo(count, n) ELSE all
      cycle == AtMost((5 * m.update_cycle) \div 4, 8 * (n + 6))
  IN [symbols |-> n, symbol_count |-> count, total_count |-> total,
      distribution |-> Distribution(n, count, total),
      update_cycle |-> cycle, symbols_until_update |-> cycle]

\* init(): every symbol counted once.
NewModel(n) ==
  LET even == [symbols |-> n, symbol_count |-> [k \in 0 .. n-1 |-> 1], total_count |-> 0,
               distribution |-> <<>>, update_cycle |-> n, symbols_until_update |-> 0]
      soon == (n + 6) \div 2
  IN [ModelUpdate(even) EXCEPT !.update_cycle = soon, !.symbols_until_update = soon]

\* A symbol has been coded.
SymbolCoded(m, sym) ==
  LET counted == [m EXCEPT !.symbol_count[sym] = @ + 1, !.symbols_until_update = @ - 1]
  IN IF counted.symbols_until_update = 0 THEN ModelUpdate(counted) ELSE counted

------------------------------------------------------------------------------
(* The decoder's table: cell t of table_size equal parts of DMUnit tells   *)
(* between which symbols the bisection has to search.                      *)

TableSize(n) ==
  LET sizes == { MinTable * f : f \in { g \in 1 .. DMUnit \div MinTable : DMUnit % (MinTable * g) = 0 } }
      fits  == { s \in sizes : n <= 4 * s }
  IN CHOOSE s \in fits : \A r \in fits : s <= r

\* Fault: cells point behind the symbol that they begin with.
DecoderTablePast(m, t) ==
  LET n     == m.symbols
      width == DMUnit \div TableSize(n)
      past  == { k \in 0 .. n-1 : m.distribution[k] \div width >= t }
  IN IF t = 0 THEN 0
     ELSE IF past = {} THEN n - 1
     ELSE CHOOSE k \in past : \A j \in past : k <= j

DecoderTable(m, t) ==
  LET n     == m.symbols
      width == DMUnit \div TableSize(n)
      past  == { k \in 0 .. n-1 : m.distribution[k] \div width >= t }
  IN IF t = 0 THEN 0
     ELSE IF past = {} THEN n - 1
     ELSE (CHOOSE k \in past : \A j \in past : k <= j) - 1

\* The last symbol from sym on and before n whose part begins at or before dv.
Bisect(m, sym, n, dv) ==
  CHOOSE k \in sym .. n-1 :
    /\ k = sym \/ m.distribution[k] <= dv
    /\ k = n-1 \/ m.distribution[k+1] > dv

\* The symbol at dv, with a table for alphabets of more than 16; -1 throws.
SymbolAt(m, dv, tabled) ==
  LET t == dv \div (DMUnit \div TableSize(m.symbols))
  IN IF ~tabled THEN Bisect(m, 0, m.symbols, dv)
     ELSE IF t > TableSize(m.symbols) THEN -1
     ELSE Bisect(m, DecoderTable(m, t), DecoderTable(m, t + 1) + 1, dv)
==============================================================================
