------------------------ MODULE ArithmeticCoderProofs ------------------------
(***************************************************************************)
(* What is encoded comes back, for all widths, rings, alphabets and calls. *)
(* The digits put out and the base are one number, to which an offset is   *)
(* added and a digit appended; its intervals are a history, and the number *)
(* done() puts out is in the last of them, so in all before it.  The       *)
(* decoder goes through the history with the same models, and finds in     *)
(* each interval the part that its number is in.  First the models: both   *)
(* bits keep a part of the interval in every model that has room for the   *)
(* 64 bits between two updates (theirs is 2^13), and the distribution of a *)
(* symbols' model rises from 0 to the whole.                               *)
(***************************************************************************)
EXTENDS ArithmeticCoder, Induction, SequenceTheorems

WideModel == BMUnit >= 68

\* What coding preserves of a bit model: the 0s counted are never all of the
\* bits that will have been counted at the next update.
BitModelInv(m) ==
  /\ m \in [bit_0_count : Nat, bit_count : Nat, bit_0_prob : Nat,
            update_cycle : Nat, bits_until_update : Nat]
  /\ m.bit_count \in 2 .. BMUnit
  /\ m.update_cycle \in 4 .. 64
  /\ m.bits_until_update \in 1 .. m.update_cycle
  /\ m.bit_0_count >= 1
  /\ m.bit_0_count < m.bit_count + (m.update_cycle - m.bits_until_update)
  /\ m.bit_0_prob \in 1 .. BMUnit - 1

\* What division rounds away is less than the divisor.
LEMMA DivBounds ==
  ASSUME NEW n \in Nat, NEW d \in Nat \ {0}
  PROVE  /\ n \div d \in Nat
         /\ d * (n \div d) <= n
         /\ n < d * (n \div d) + d
OBVIOUS

\* A number below a product is divided to less than the other factor, ...
LEMMA DivLess ==
  ASSUME NEW n \in Nat, NEW d \in Nat \ {0}, NEW q \in Nat, n < d * q
  PROVE  n \div d < q
<1>1. n \div d \in Nat /\ d * (n \div d) <= n
  BY DivBounds
<1>2. SUFFICES ASSUME q <= n \div d PROVE FALSE
  BY <1>1
<1>3. d * q <= d * (n \div d)
  BY <1>1, <1>2
<1> QED BY <1>1, <1>3

\* ... and one not below it to no less.
LEMMA DivAtLeast ==
  ASSUME NEW n \in Nat, NEW d \in Nat \ {0}, NEW q \in Nat, d * q <= n
  PROVE  q <= n \div d
<1>1. n \div d \in Nat /\ n < d * (n \div d) + d
  BY DivBounds
<1>2. SUFFICES ASSUME n \div d + 1 <= q PROVE FALSE
  BY <1>1
<1>3. d * (n \div d + 1) <= d * q
  BY <1>1, <1>2
<1>4. d * (n \div d + 1) = d * (n \div d) + d
  BY <1>1
<1> QED BY <1>1, <1>3, <1>4

\* The scaled probability of a bit that was seen, but not always.
LEMMA ProbabilityHasRoom ==
  ASSUME NEW all \in 2 .. BMUnit, NEW zeros \in 1 .. all - 1
  PROVE  BitProbability(zeros, all) \in 1 .. BMUnit - 1
<1> DEFINE scale == Scale \div all
           unit  == Scale \div BMUnit
<1>1. /\ BMUnit \in Nat \ {0} /\ Scale \in Nat \ {0} /\ Scale % BMUnit = 0
      /\ all \in Nat \ {0} /\ zeros \in Nat \ {0}
  BY ModelAssumption
<1>2. unit \in Nat \ {0} /\ BMUnit * unit = Scale
  <2>1. BMUnit * unit = Scale
    BY <1>1
  <2> QED BY <2>1, <1>1
<1>3. scale \in Nat /\ all * scale <= Scale
  BY <1>1, DivBounds
<1>4. unit <= scale
  <2>1. all * unit <= BMUnit * unit
    BY <1>1, <1>2
  <2> HIDE DEF unit
  <2> QED BY <2>1, <1>1, <1>2, DivAtLeast
<1> HIDE DEF scale, unit
<1>5. zeros * scale \in Nat /\ unit * 1 <= zeros * scale
  <2>1. scale <= zeros * scale
    BY <1>1, <1>3
  <2> QED BY <2>1, <1>1, <1>2, <1>3, <1>4
<1>6. zeros * scale < unit * BMUnit
  <2>1. zeros * scale + scale <= all * scale
    <3>1. (zeros + 1) * scale <= all * scale
      BY <1>1, <1>3
    <3> QED BY <3>1, <1>1, <1>3
  <2> QED BY <2>1, <1>1, <1>2, <1>3, <1>4
<1>7. BitProbability(zeros, all) = (zeros * scale) \div unit
  BY DEF BitProbability, scale, unit
<1>8. (zeros * scale) \div unit < BMUnit
  BY <1>1, <1>2, <1>5, <1>6, DivLess
<1>9. 1 <= (zeros * scale) \div unit
  BY <1>2, <1>5, DivAtLeast
<1> QED BY <1>1, <1>2, <1>5, <1>7, <1>8, <1>9, DivBounds

------------------------------------------------------------------------------
\* When the bits of a cycle have been counted, the update starts another one.
LEMMA UpdateKeepsInv ==
  ASSUME WideModel,
         NEW m \in [bit_0_count : Nat, bit_count : Nat, bit_0_prob : Nat,
                    update_cycle : Nat, bits_until_update : Nat],
         m.bit_count \in 2 .. BMUnit, m.update_cycle \in 4 .. 64,
         m.bit_0_count >= 1, m.bit_0_count < m.bit_count + m.update_cycle
  PROVE  BitModelInv(BitModelUpdate(m))
<1> DEFINE all   == m.bit_count + m.update_cycle
           halve == all > BMUnit
           zeros == IF halve THEN Halved(m.bit_0_count) ELSE m.bit_0_count
           half  == IF zeros = Halved(all) THEN Halved(all) + 1 ELSE Halved(all)
           total == IF halve THEN half ELSE all
           cycle == AtMost((5 * m.update_cycle) \div 4, 64)
<1>1. BMUnit \in Nat /\ BMUnit >= 68 /\ all \in 6 .. BMUnit + 64 /\ m.bit_0_count \in 1 .. all - 1
  BY ModelAssumption DEF WideModel
<1>2. cycle \in 4 .. 64
  BY DEF AtMost
<1>3. total \in 2 .. BMUnit /\ zeros \in 1 .. total - 1
  <2>1. CASE halve
    <3> DEFINE h == Halved(all)
               z == Halved(m.bit_0_count)
    <3>1. /\ h \in Nat /\ z \in Nat /\ z >= 1 /\ z <= h
          /\ 2 * h <= all + 1
      BY <1>1 DEF Halved
    <3>2. h >= 2 /\ h + 1 <= BMUnit
      <4>1. 2 * h >= all
        BY <1>1 DEF Halved
      <4> HIDE DEF h
      <4> QED BY <4>1, <3>1, <1>1
    <3>3. zeros = z /\ total = IF z = h THEN h + 1 ELSE h
      BY <2>1
    <3> HIDE DEF h, z, zeros, total
    <3> QED BY <3>1, <3>2, <3>3, <1>1
  <2>2. CASE ~halve
    BY <2>2, <1>1
  <2> QED BY <2>1, <2>2
<1>4. BitModelUpdate(m) =
        [bit_0_count |-> zeros, bit_count |-> total, bit_0_prob |-> BitProbability(zeros, total),
         update_cycle |-> cycle, bits_until_update |-> cycle]
  BY DEF BitModelUpdate
<1> HIDE DEF zeros, total, cycle, all, halve, half
<1>5. BitProbability(zeros, total) \in 1 .. BMUnit - 1
  BY <1>3, ProbabilityHasRoom
<1> QED BY <1>1, <1>2, <1>3, <1>4, <1>5 DEF BitModelInv

\* Coding a bit, whichever it is, keeps the invariant of its model.
LEMMA CodingKeepsInv ==
  ASSUME WideModel, NEW m, BitModelInv(m), NEW bit
  PROVE  BitModelInv(BitCoded(m, bit))
<1> DEFINE zeros   == IF bit = 0 THEN m.bit_0_count + 1 ELSE m.bit_0_count
           begun   == [m EXCEPT !.bit_0_count = zeros]
           counted == [begun EXCEPT !.bits_until_update = m.bits_until_update - 1]
<1>1. /\ counted \in [bit_0_count : Nat, bit_count : Nat, bit_0_prob : Nat,
                      update_cycle : Nat, bits_until_update : Nat]
      /\ counted.bit_count = m.bit_count /\ counted.update_cycle = m.update_cycle
      /\ counted.bit_0_prob = m.bit_0_prob
      /\ counted.bits_until_update = m.bits_until_update - 1
      /\ counted.bit_0_count \in {m.bit_0_count, m.bit_0_count + 1}
  <2>1. zeros \in {m.bit_0_count, m.bit_0_count + 1} /\ zeros \in Nat
    BY DEF BitModelInv
  <2> HIDE DEF zeros
  <2>2. /\ begun \in [bit_0_count : Nat, bit_count : Nat, bit_0_prob : Nat,
                      update_cycle : Nat, bits_until_update : Nat]
        /\ begun = [m EXCEPT !.bit_0_count = zeros]
    BY <2>1 DEF BitModelInv
  <2>3. m.bits_until_update - 1 \in Nat
    BY ModelAssumption DEF BitModelInv
  <2>4. /\ begun.bit_count = m.bit_count /\ begun.update_cycle = m.update_cycle
        /\ begun.bit_0_prob = m.bit_0_prob /\ begun.bit_0_count = zeros
    BY <2>1 DEF BitModelInv
  <2> HIDE DEF begun
  <2> QED BY <2>1, <2>2, <2>3, <2>4
<1>2. BitCoded(m, bit) = IF counted.bits_until_update = 0 THEN BitModelUpdate(counted) ELSE counted
  BY DEF BitCoded
<1> HIDE DEF counted
<1>3. CASE counted.bits_until_update = 0
  <2>1. /\ counted.bit_count \in 2 .. BMUnit /\ counted.update_cycle \in 4 .. 64
        /\ counted.bit_0_count >= 1
        /\ counted.bit_0_count < counted.bit_count + counted.update_cycle
    BY <1>1, <1>3, ModelAssumption DEF BitModelInv
  <2> QED BY <1>1, <1>2, <1>3, <2>1, UpdateKeepsInv
<1>4. CASE counted.bits_until_update # 0
  BY <1>1, <1>2, <1>4, ModelAssumption DEF BitModelInv
<1> QED BY <1>3, <1>4

\* A new bit model has one 0 among two bits.
LEMMA NewBitModelInv ==
  ASSUME WideModel
  PROVE  BitModelInv(NewBitModel)
BY ModelAssumption DEF WideModel, NewBitModel, BitModelInv

\* The bit model has room for both bits in every state of encoder and decoder:
\* no interval is empty, and no bit cannot be decoded.
THEOREM BitsAlwaysHaveRoom ==
  ASSUME WideModel
  PROVE  Spec => []BitsHaveRoom
<1> DEFINE Inv == BitModelInv(models.bit)
<1>1. Init => Inv
  BY NewBitModelInv DEF Init, Models
<1>2. Inv /\ [Next]_vars => Inv'
  <2> SUFFICES ASSUME Inv, [Next]_vars
               PROVE  BitModelInv(models'.bit)
    OBVIOUS
  <2>1. ASSUME NEW call, ModelsAfter(call) = models'
        PROVE  BitModelInv(models'.bit)
    BY <2>1, CodingKeepsInv DEF ModelsAfter
  <2>2. ASSUME NEW call \in Calls, Encode(call)
        PROVE  BitModelInv(models'.bit)
    BY <2>1, <2>2 DEF Encode
  <2>3. CASE EncoderRenorm
    BY <2>3 DEF EncoderRenorm
  <2>4. CASE Done
    BY <2>4 DEF Done
  <2>5. CASE Open
    BY <2>5, NewBitModelInv DEF Open, Models
  <2>6. CASE Decode
    BY <2>1, <2>6 DEF Decode
  <2>7. CASE DecoderRenorm
    BY <2>7 DEF DecoderRenorm
  <2>8. CASE UNCHANGED vars
    BY <2>8 DEF vars
  <2> QED BY <2>2, <2>3, <2>4, <2>5, <2>6, <2>7, <2>8 DEF Next
<1>3. Inv => BitsHaveRoom
  BY DEF BitModelInv, BitsHaveRoom
<1> QED BY <1>1, <1>2, <1>3, PTL DEF Spec

------------------------------------------------------------------------------
(* Sums of the counts *)

AreSums(f, g, k) == g = [i \in 0 .. k |-> IF i = 0 THEN 0 ELSE g[i-1] + f[i-1]]

SumsTo(f, k) == CHOOSE g : AreSums(f, g, k)

\* The sums that SumTo() takes the last of exist.
LEMMA SumsExist ==
  ASSUME NEW f, NEW k \in Nat
  PROVE  AreSums(f, SumsTo(f, k), k)
<1> DEFINE S == {n \in Nat : \E g : AreSums(f, g, n)}
<1>1. 0 \in S
  <2> DEFINE g == [i \in 0 .. 0 |-> 0]
  <2>1. AreSums(f, g, 0)
    BY DEF AreSums
  <2> QED BY <2>1
<1>2. ASSUME NEW n \in Nat, n \in S PROVE n + 1 \in S
  <2>1. PICK g : AreSums(f, g, n)
    BY <1>2
  <2> DEFINE h == [i \in 0 .. n + 1 |-> IF i = n + 1 THEN g[n] + f[n] ELSE g[i]]
  <2>2. AreSums(f, h, n + 1)
    BY <2>1 DEF AreSums
  <2> QED BY <2>2
<1>3. \A n \in Nat : n \in S
  <2> HIDE DEF S
  <2> QED BY <1>1, <1>2, NaturalInduction
<1>4. \E g : AreSums(f, g, k)
  BY <1>3
<1> QED BY <1>4 DEF SumsTo

\* One count more is one summand more.
LEMMA SumToSteps ==
  ASSUME NEW f
  PROVE  /\ SumTo(f, 0) = 0
         /\ \A k \in Nat : SumTo(f, k + 1) = SumTo(f, k) + f[k]
<1>1. \A k \in Nat : SumTo(f, k) = SumsTo(f, k)[k]
  BY DEF SumTo, SumsTo, AreSums
<1>2. SumTo(f, 0) = 0
  BY <1>1, SumsExist DEF AreSums
<1>3. ASSUME NEW k \in Nat PROVE SumTo(f, k + 1) = SumTo(f, k) + f[k]
  <2> DEFINE g == SumsTo(f, k)
             h == SumsTo(f, k + 1)
  <2>1. AreSums(f, g, k) /\ AreSums(f, h, k + 1)
    BY SumsExist
  <2> HIDE DEF g, h
  <2> DEFINE S == {n \in Nat : n <= k => h[n] = g[n]}
  <2>2. 0 \in S
    BY <2>1 DEF AreSums
  <2>3. ASSUME NEW n \in Nat, n \in S PROVE n + 1 \in S
    <3>1. SUFFICES ASSUME n + 1 <= k PROVE h[n + 1] = g[n + 1]
      OBVIOUS
    <3>2. n + 1 \in 0 .. k /\ n + 1 \in 0 .. k + 1 /\ n + 1 # 0 /\ (n + 1) - 1 = n
      BY <3>1
    <3>3. h[n] = g[n]
      BY <2>3, <3>1
    <3>4. h[n + 1] = h[n] + f[n]
      BY <2>1, <3>2 DEF AreSums
    <3>5. g[n + 1] = g[n] + f[n]
      BY <2>1, <3>2 DEF AreSums
    <3> QED BY <3>3, <3>4, <3>5
  <2>4. \A n \in Nat : n \in S
    <3> HIDE DEF S
    <3> QED BY <2>2, <2>3, NaturalInduction
  <2>5. h[k] = g[k]
    BY <2>4
  <2>6. h[k + 1] = h[k] + f[k]
    <3>1. k + 1 \in 0 .. k + 1 /\ k + 1 # 0 /\ (k + 1) - 1 = k
      OBVIOUS
    <3> QED BY <2>1, <3>1 DEF AreSums
  <2> QED BY <1>1, <2>5, <2>6 DEF g, h
<1> QED BY <1>2, <1>3

\* Sums of counts are natural numbers and do not fall.
LEMMA SumToRises ==
  ASSUME NEW n \in Nat, NEW f \in [0 .. n-1 -> Nat]
  PROVE  \A k \in 0 .. n : /\ SumTo(f, k) \in Nat
                           /\ \A j \in 0 .. k : SumTo(f, j) <= SumTo(f, k)
<1> DEFINE S == {k \in Nat : k <= n => /\ SumTo(f, k) \in Nat
                                       /\ \A j \in 0 .. k : SumTo(f, j) \in Nat /\ SumTo(f, j) <= SumTo(f, k)}
<1>1. 0 \in S
  <2>1. SumTo(f, 0) = 0
    BY SumToSteps
  <2> QED BY <2>1
<1>2. ASSUME NEW k \in Nat, k \in S PROVE k + 1 \in S
  <2>1. SUFFICES ASSUME k + 1 <= n
                 PROVE  /\ SumTo(f, k + 1) \in Nat
                        /\ \A j \in 0 .. k + 1 : SumTo(f, j) \in Nat /\ SumTo(f, j) <= SumTo(f, k + 1)
    OBVIOUS
  <2>2. f[k] \in Nat
    BY <2>1
  <2>3. SumTo(f, k + 1) = SumTo(f, k) + f[k]
    BY SumToSteps
  <2>4. SumTo(f, k) \in Nat /\ \A j \in 0 .. k : SumTo(f, j) \in Nat /\ SumTo(f, j) <= SumTo(f, k)
    BY <1>2, <2>1
  <2>5. SumTo(f, k + 1) \in Nat /\ SumTo(f, k) <= SumTo(f, k + 1)
    BY <2>2, <2>3, <2>4
  <2>6. ASSUME NEW j \in 0 .. k + 1 PROVE SumTo(f, j) \in Nat /\ SumTo(f, j) <= SumTo(f, k + 1)
    <3>1. CASE j = k + 1
      BY <3>1, <2>5
    <3>2. CASE j # k + 1
      <4>1. j \in 0 .. k
        BY <3>2
      <4>2. SumTo(f, j) \in Nat /\ SumTo(f, j) <= SumTo(f, k)
        BY <4>1, <2>4
      <4> QED BY <4>2, <2>4, <2>5
    <3> QED BY <3>1, <3>2
  <2> QED BY <2>5, <2>6
<1>3. \A k \in Nat : k \in S
  <2> HIDE DEF S
  <2> QED BY <1>1, <1>2, NaturalInduction
<1> QED BY <1>3

\* What is counted at least once sums up to a number for every summand.
LEMMA SumToCounts ==
  ASSUME NEW n \in Nat, NEW f \in [0 .. n-1 -> Nat \ {0}]
  PROVE  \A k \in 0 .. n : SumTo(f, k) \in Nat /\ k <= SumTo(f, k)
<1> DEFINE S == {k \in Nat : k <= n => SumTo(f, k) \in Nat /\ k <= SumTo(f, k)}
<1>1. 0 \in S
  BY SumToSteps
<1>2. ASSUME NEW k \in Nat, k \in S PROVE k + 1 \in S
  <2>1. SUFFICES ASSUME k + 1 <= n
                 PROVE  SumTo(f, k + 1) \in Nat /\ k + 1 <= SumTo(f, k + 1)
    OBVIOUS
  <2>2. f[k] \in Nat \ {0}
    BY <2>1
  <2>3. SumTo(f, k + 1) = SumTo(f, k) + f[k]
    BY SumToSteps
  <2>4. SumTo(f, k) \in Nat /\ k <= SumTo(f, k)
    BY <1>2, <2>1
  <2> QED BY <2>2, <2>3, <2>4
<1>3. \A k \in Nat : k \in S
  <2> HIDE DEF S
  <2> QED BY <1>1, <1>2, NaturalInduction
<1> QED BY <1>3

\* What is counted exactly once sums up to the number of summands.
LEMMA SumToOnes ==
  ASSUME NEW n \in Nat
  PROVE  SumTo([k \in 0 .. n-1 |-> 1], n) = n
<1> DEFINE f == [k \in 0 .. n-1 |-> 1]
           S == {k \in Nat : k <= n => SumTo(f, k) = k}
<1>1. 0 \in S
  BY SumToSteps
<1>2. ASSUME NEW k \in Nat, k \in S PROVE k + 1 \in S
  <2>1. SUFFICES ASSUME k + 1 <= n PROVE SumTo(f, k + 1) = k + 1
    OBVIOUS
  <2>2. f[k] = 1
    BY <2>1
  <2> HIDE DEF f
  <2>3. SumTo(f, k + 1) = SumTo(f, k) + f[k]
    BY SumToSteps
  <2>4. SumTo(f, k) = k
    BY <1>2, <2>1
  <2> QED BY <2>2, <2>3, <2>4
<1>3. \A k \in Nat : k \in S
  <2> HIDE DEF S
  <2> QED BY <1>1, <1>2, NaturalInduction
<1> QED BY <1>3

\* One count more adds one to the sum.
LEMMA SumToCounted ==
  ASSUME NEW n \in Nat, NEW f \in [0 .. n-1 -> Nat], NEW sym \in 0 .. n-1
  PROVE  SumTo([f EXCEPT ![sym] = @ + 1], n) = SumTo(f, n) + 1
<1> DEFINE g == [f EXCEPT ![sym] = @ + 1]
<1>1. \A k \in 0 .. n-1 : g[k] = IF k = sym THEN f[k] + 1 ELSE f[k]
  OBVIOUS
<1> HIDE DEF g
<1> DEFINE S == {k \in Nat : k <= n => SumTo(g, k) = IF k > sym THEN SumTo(f, k) + 1 ELSE SumTo(f, k)}
<1>2. 0 \in S
  BY SumToSteps
<1>3. ASSUME NEW k \in Nat, k \in S PROVE k + 1 \in S
  <2>1. SUFFICES ASSUME k + 1 <= n
                 PROVE  SumTo(g, k + 1) = IF k + 1 > sym THEN SumTo(f, k + 1) + 1 ELSE SumTo(f, k + 1)
    OBVIOUS
  <2>2. k \in 0 .. n-1 /\ f[k] \in Nat
    BY <2>1
  <2>3. /\ SumTo(f, k + 1) = SumTo(f, k) + f[k]
        /\ SumTo(g, k + 1) = SumTo(g, k) + g[k]
    BY SumToSteps
  <2>4. SumTo(f, k) \in Nat
    BY <2>1, SumToRises
  <2>5. SumTo(g, k) = IF k > sym THEN SumTo(f, k) + 1 ELSE SumTo(f, k)
    BY <1>3, <2>1
  <2>6. g[k] = IF k = sym THEN f[k] + 1 ELSE f[k]
    BY <1>1, <2>2
  <2> HIDE DEF S
  <2> QED BY <2>2, <2>3, <2>4, <2>5, <2>6
<1>4. \A k \in Nat : k \in S
  <2> HIDE DEF S
  <2> QED BY <1>2, <1>3, NaturalInduction
<1>5. n \in S
  BY <1>4
<1> QED BY <1>5 DEF g

------------------------------------------------------------------------------
(* The model of symbols *)

\* What the parts of an interval need: they follow each other from its
\* beginning and stay in it.
IsDistribution(d, n) ==
  /\ d \in [0 .. n-1 -> 0 .. DMUnit]
  /\ d[0] = 0
  /\ \A j, k \in 0 .. n-1 : j <= k => d[j] <= d[k]

SymbolFields(n) ==
  [symbols : {n}, symbol_count : [0 .. n-1 -> Nat \ {0}], total_count : Nat,
   distribution : [0 .. n-1 -> 0 .. DMUnit], update_cycle : Nat \ {0},
   symbols_until_update : Nat \ {0}]

\* What coding preserves of a model of n symbols: what is counted is the total of
\* the last update and what has been coded since.
SymbolModelInv(m, n) ==
  /\ m \in SymbolFields(n)
  /\ m.symbols_until_update <= m.update_cycle
  /\ SumTo(m.symbol_count, n) = m.total_count + (m.update_cycle - m.symbols_until_update)
  /\ IsDistribution(m.distribution, n)

\* Counts scaled by their total are a distribution.
LEMMA DistributionOfCounts ==
  ASSUME NEW n \in Nat \ {0}, NEW f \in [0 .. n-1 -> Nat], NEW total \in Nat \ {0},
         SumTo(f, n) <= total
  PROVE  IsDistribution(Distribution(n, f, total), n)
<1> DEFINE scale == Scale \div total
           unit  == Scale \div DMUnit
           d     == Distribution(n, f, total)
<1>1. DMUnit \in Nat \ {0} /\ Scale \in Nat \ {0} /\ Scale % DMUnit = 0
  BY ModelAssumption
<1>2. unit \in Nat \ {0} /\ DMUnit * unit = Scale
  <2>1. DMUnit * unit = Scale
    BY <1>1
  <2> QED BY <2>1, <1>1
<1>3. scale \in Nat /\ total * scale <= Scale
  BY <1>1, DivBounds
<1>4. d = [k \in 0 .. n-1 |-> (scale * SumTo(f, k)) \div unit]
  BY DEF Distribution
<1>5. \A k \in 0 .. n : /\ SumTo(f, k) \in Nat
                        /\ \A j \in 0 .. k : SumTo(f, j) \in Nat /\ SumTo(f, j) <= SumTo(f, k)
  BY SumToRises
<1> HIDE DEF scale, unit, d
<1>6. ASSUME NEW a \in Nat, NEW b \in Nat, a <= b
      PROVE  /\ (scale * a) \div unit \in Nat
             /\ (scale * a) \div unit <= (scale * b) \div unit
  <2>1. scale * a \in Nat /\ scale * b \in Nat /\ scale * a <= scale * b
    BY <1>3, <1>6
  <2>2. /\ (scale * a) \div unit \in Nat
        /\ unit * ((scale * a) \div unit) <= scale * a
    BY <1>2, <2>1, DivBounds
  <2>3. unit * ((scale * a) \div unit) <= scale * b
    <3> DEFINE q == unit * ((scale * a) \div unit)
    <3>1. q \in Nat /\ q <= scale * a
      BY <1>2, <2>2
    <3> HIDE DEF q
    <3>2. q <= scale * b
      BY <2>1, <3>1
    <3> QED BY <3>2 DEF q
  <2> QED BY <1>2, <2>1, <2>2, <2>3, DivAtLeast
<1>7. ASSUME NEW a \in Nat, a <= total PROVE (scale * a) \div unit \in 0 .. DMUnit
  <2>1. (scale * a) \div unit <= (scale * total) \div unit /\ (scale * a) \div unit \in Nat
    BY <1>6, <1>7
  <2>2. (scale * total) \div unit <= Scale \div unit
    <3>1. scale * total \in Nat /\ scale * total <= Scale
      BY <1>3
    <3>2. unit * ((scale * total) \div unit) <= scale * total /\ (scale * total) \div unit \in Nat
      BY <3>1, <1>2, DivBounds
    <3>3. unit * ((scale * total) \div unit) <= Scale
      <4> DEFINE q == unit * ((scale * total) \div unit)
      <4>1. q \in Nat /\ q <= scale * total
        BY <3>2, <1>2
      <4> HIDE DEF q
      <4>2. q <= Scale
        BY <3>1, <4>1, <1>1
      <4> QED BY <4>2 DEF q
    <3> QED BY <3>2, <3>3, <1>1, <1>2, DivAtLeast
  <2>3. Scale \div unit <= DMUnit
    <3>1. Scale < unit * (DMUnit + 1) /\ DMUnit + 1 \in Nat
      BY <1>1, <1>2
    <3>2. Scale \div unit < DMUnit + 1
      BY <3>1, <1>1, <1>2, DivLess
    <3>3. Scale \div unit \in Nat
      BY <1>1, <1>2, DivBounds
    <3> QED BY <3>2, <3>3, <1>1
  <2>4. (scale * total) \div unit \in Nat /\ Scale \div unit \in Nat
    BY <1>1, <1>2, <1>3, <1>6, DivBounds
  <2> QED BY <2>1, <2>2, <2>3, <2>4, <1>1
<1>8. ASSUME NEW k \in 0 .. n-1
      PROVE  SumTo(f, k) \in Nat /\ SumTo(f, k) <= total
  <2>1. SumTo(f, k) \in Nat /\ SumTo(f, k) <= SumTo(f, n) /\ SumTo(f, n) \in Nat
    BY <1>5
  <2> QED BY <2>1
<1>9. d \in [0 .. n-1 -> 0 .. DMUnit]
  BY <1>4, <1>7, <1>8
<1>10. d[0] = 0
  <2>1. SumTo(f, 0) = 0
    BY SumToSteps
  <2>2. d[0] = (scale * 0) \div unit
    BY <1>4, <2>1
  <2>3. 0 \div unit < 1
    BY <1>2, DivLess
  <2>4. 0 \div unit \in Nat
    BY <1>2, DivBounds
  <2> QED BY <2>2, <2>3, <2>4, <1>3
<1>11. ASSUME NEW j \in 0 .. n-1, NEW k \in 0 .. n-1, j <= k
       PROVE  d[j] <= d[k]
  <2>1. SumTo(f, j) \in Nat /\ SumTo(f, k) \in Nat /\ SumTo(f, j) <= SumTo(f, k)
    BY <1>5, <1>11
  <2> QED BY <2>1, <1>4, <1>6
<1> QED BY <1>9, <1>10, <1>11 DEF IsDistribution, d

\* Half of a count, rounded up, is a count.
LEMMA HalvedCounts ==
  ASSUME NEW c \in Nat \ {0}
  PROVE  Halved(c) \in Nat \ {0} /\ Halved(c) <= c
BY DEF Halved

\* The update of a model begins the next cycle.
LEMMA SymbolUpdateKeepsInv ==
  ASSUME NEW n \in Nat \ {0}, NEW m,
         m.symbols = n, m.symbol_count \in [0 .. n-1 -> Nat \ {0}], m.total_count \in Nat,
         m.update_cycle \in Nat \ {0},
         SumTo(m.symbol_count, n) = m.total_count + m.update_cycle
  PROVE  SymbolModelInv(ModelUpdate(m), n)
<1> DEFINE all   == m.total_count + m.update_cycle
           halve == all > DMUnit
           count == [k \in 0 .. n-1 |-> IF halve THEN Halved(m.symbol_count[k]) ELSE m.symbol_count[k]]
           total == IF halve THEN SumTo(count, n) ELSE all
           cycle == AtMost((5 * m.update_cycle) \div 4, 8 * (n + 6))
           d     == Distribution(n, count, total)
<1>1. ModelUpdate(m) =
        [symbols |-> n, symbol_count |-> count, total_count |-> total,
         distribution |-> d, update_cycle |-> cycle, symbols_until_update |-> cycle]
  BY DEF ModelUpdate
<1>2. all \in Nat \ {0}
  OBVIOUS
<1>3. count \in [0 .. n-1 -> Nat \ {0}]
  BY HalvedCounts
<1>4. cycle \in Nat \ {0}
  <2>1. (5 * m.update_cycle) \div 4 \in Nat \ {0}
    <3>1. ASSUME NEW c \in Nat \ {0} PROVE (5 * c) \div 4 \in Nat \ {0}
      BY <3>1
    <3> QED BY <3>1
  <2>2. 8 * (n + 6) \in Nat \ {0}
    OBVIOUS
  <2> QED BY <2>1, <2>2 DEF AtMost
<1>5. SumTo(count, n) = total /\ total \in Nat \ {0}
  <2>1. CASE halve
    <3>1. SumTo(count, n) \in Nat /\ n <= SumTo(count, n)
      <4> HIDE DEF count
      <4>1. n \in Nat /\ n \in 0 .. n
        OBVIOUS
      <4> QED BY <1>3, <4>1, SumToCounts
    <3> QED BY <2>1, <3>1
  <2>2. CASE ~halve
    <3>1. count = m.symbol_count
      BY <2>2
    <3> QED BY <2>2, <3>1, <1>2
  <2> QED BY <2>1, <2>2
<1> HIDE DEF all, halve, count, total, cycle
<1>6. IsDistribution(d, n)
  <2>1. count \in [0 .. n-1 -> Nat] /\ SumTo(count, n) <= total
    BY <1>3, <1>5
  <2> QED BY <1>5, <2>1, DistributionOfCounts
<1>7. d \in [0 .. n-1 -> 0 .. DMUnit]
  BY <1>6 DEF IsDistribution
<1> HIDE DEF d
<1>8. SumTo(count, n) = total + (cycle - cycle)
  BY <1>4, <1>5
<1> QED BY <1>1, <1>3, <1>4, <1>5, <1>6, <1>7, <1>8 DEF SymbolModelInv, SymbolFields

\* Coding any of its symbols keeps the invariant of a model.
LEMMA SymbolCodingKeepsInv ==
  ASSUME NEW n \in Nat \ {0}, NEW m, SymbolModelInv(m, n), NEW sym \in 0 .. n-1
  PROVE  SymbolModelInv(SymbolCoded(m, sym), n)
<1> DEFINE count   == [m.symbol_count EXCEPT ![sym] = @ + 1]
           left    == m.symbols_until_update - 1
           begun   == [m EXCEPT !.symbol_count = count]
           counted == [begun EXCEPT !.symbols_until_update = left]
<1>1. m \in SymbolFields(n)
  BY DEF SymbolModelInv
<1>3. SymbolCoded(m, sym) = IF counted.symbols_until_update = 0 THEN ModelUpdate(counted) ELSE counted
  BY DEF SymbolCoded
<1> HIDE DEF count, left
<1>2. counted = [symbols |-> n, symbol_count |-> count, total_count |-> m.total_count,
                 distribution |-> m.distribution, update_cycle |-> m.update_cycle,
                 symbols_until_update |-> left]
  <2>1. m = [symbols |-> n, symbol_count |-> m.symbol_count, total_count |-> m.total_count,
             distribution |-> m.distribution, update_cycle |-> m.update_cycle,
             symbols_until_update |-> m.symbols_until_update]
    BY <1>1 DEF SymbolFields
  <2>2. begun = [symbols |-> n, symbol_count |-> count, total_count |-> m.total_count,
                 distribution |-> m.distribution, update_cycle |-> m.update_cycle,
                 symbols_until_update |-> m.symbols_until_update]
    BY <2>1
  <2> HIDE DEF begun
  <2> QED BY <2>2
<1>4. /\ m.symbol_count \in [0 .. n-1 -> Nat \ {0}] /\ m.total_count \in Nat
      /\ m.update_cycle \in Nat \ {0} /\ m.symbols_until_update \in Nat \ {0}
      /\ m.symbols_until_update <= m.update_cycle
      /\ m.distribution \in [0 .. n-1 -> 0 .. DMUnit]
  BY <1>1 DEF SymbolFields, SymbolModelInv
<1>5. count \in [0 .. n-1 -> Nat \ {0}] /\ left \in Nat
  <2>1. ASSUME NEW f \in [0 .. n-1 -> Nat \ {0}]
        PROVE  [f EXCEPT ![sym] = @ + 1] \in [0 .. n-1 -> Nat \ {0}]
    OBVIOUS
  <2>2. count \in [0 .. n-1 -> Nat \ {0}]
    BY <1>4, <2>1 DEF count
  <2>3. left \in Nat
    BY <1>4 DEF left
  <2> QED BY <2>2, <2>3
<1>6. SumTo(count, n) = SumTo(m.symbol_count, n) + 1
  <2>1. m.symbol_count \in [0 .. n-1 -> Nat]
    BY <1>4
  <2> QED BY <2>1, SumToCounted DEF count
<1>7. SumTo(count, n) = m.total_count + (m.update_cycle - left)
  <2>1. SumTo(m.symbol_count, n) = m.total_count + (m.update_cycle - m.symbols_until_update)
    BY DEF SymbolModelInv
  <2>2. m.total_count \in Nat /\ m.update_cycle \in Nat /\ m.symbols_until_update \in Nat
    BY <1>4
  <2>3. ASSUME NEW t \in Nat, NEW c \in Nat, NEW u \in Nat
        PROVE  (t + (c - u)) + 1 = t + (c - (u - 1))
    OBVIOUS
  <2>4. (m.total_count + (m.update_cycle - m.symbols_until_update)) + 1
          = m.total_count + (m.update_cycle - (m.symbols_until_update - 1))
    BY <2>2, <2>3
  <2> QED BY <1>6, <2>1, <2>4 DEF left
<1> HIDE DEF counted
<1>8. CASE left = 0
  <2>1. /\ counted.symbols = n /\ counted.symbol_count = count
        /\ counted.total_count = m.total_count /\ counted.update_cycle = m.update_cycle
        /\ counted.symbols_until_update = 0
    BY <1>2, <1>8
  <2>2. SumTo(counted.symbol_count, n) = counted.total_count + counted.update_cycle
    BY <2>1, <1>4, <1>7, <1>8
  <2>3. SymbolModelInv(ModelUpdate(counted), n)
    BY <1>4, <1>5, <2>1, <2>2, SymbolUpdateKeepsInv
  <2> QED BY <1>3, <2>1, <2>3
<1>9. CASE left # 0
  <2>1. SymbolCoded(m, sym) = counted
    BY <1>2, <1>3, <1>9
  <2>2. counted \in SymbolFields(n)
    BY <1>2, <1>4, <1>5, <1>9 DEF SymbolFields
  <2>3. /\ counted.symbol_count = count /\ counted.total_count = m.total_count
        /\ counted.update_cycle = m.update_cycle /\ counted.symbols_until_update = left
        /\ counted.distribution = m.distribution
    BY <1>2
  <2>4. left <= m.update_cycle
    BY <1>4 DEF left
  <2>5. IsDistribution(m.distribution, n)
    BY DEF SymbolModelInv
  <2> QED BY <1>7, <2>1, <2>2, <2>3, <2>4, <2>5 DEF SymbolModelInv
<1> QED BY <1>8, <1>9

\* A new model has counted every symbol once.
LEMMA NewModelInv ==
  ASSUME NEW n \in 2 .. DMUnit
  PROVE  SymbolModelInv(NewModel(n), n)
<1> DEFINE ones == [k \in 0 .. n-1 |-> 1]
           even == [symbols |-> n, symbol_count |-> ones, total_count |-> 0,
                    distribution |-> <<>>, update_cycle |-> n, symbols_until_update |-> 0]
           soon == (n + 6) \div 2
           made == ModelUpdate(even)
<1>1. n \in Nat \ {0} /\ n <= DMUnit /\ DMUnit \in Nat
  BY ModelAssumption
<1>2. NewModel(n) = [made EXCEPT !.update_cycle = soon, !.symbols_until_update = soon]
  BY DEF NewModel
<1>3. /\ even.symbols = n /\ even.symbol_count = ones /\ even.total_count = 0
      /\ even.update_cycle = n
  OBVIOUS
<1>4. ones \in [0 .. n-1 -> Nat \ {0}]
  OBVIOUS
<1>5. SumTo(ones, n) = n
  BY <1>1, SumToOnes
<1> HIDE DEF ones, even
<1>6. SymbolModelInv(made, n)
  <2>1. SumTo(even.symbol_count, n) = even.total_count + even.update_cycle
    BY <1>1, <1>3, <1>5
  <2> QED BY <1>1, <1>3, <1>4, <2>1, SymbolUpdateKeepsInv
<1>7. /\ made.total_count = n
      /\ made.symbol_count = ones
  <2>1. ~(even.total_count + even.update_cycle > DMUnit)
    BY <1>1, <1>3
  <2>2. ones = [k \in 0 .. n-1 |-> ones[k]]
    BY <1>4
  <2>3. 0 + n = n
    BY <1>1
  <2> QED BY <1>3, <2>1, <2>2, <2>3 DEF ModelUpdate
<1> HIDE DEF made
<1>8. soon \in Nat \ {0}
  BY <1>1
<1> HIDE DEF soon
<1>9. made \in SymbolFields(n) /\ IsDistribution(made.distribution, n)
  BY <1>6 DEF SymbolModelInv
<1>10. NewModel(n) = [symbols |-> n, symbol_count |-> ones, total_count |-> n,
                      distribution |-> made.distribution, update_cycle |-> soon,
                      symbols_until_update |-> soon]
  BY <1>2, <1>7, <1>9 DEF SymbolFields
<1>11. NewModel(n) \in SymbolFields(n)
  BY <1>1, <1>4, <1>8, <1>9, <1>10 DEF SymbolFields
<1>12. n = n + (soon - soon)
  BY <1>1, <1>8
<1> QED BY <1>5, <1>8, <1>9, <1>10, <1>11, <1>12 DEF SymbolModelInv

------------------------------------------------------------------------------
(* The model of bits, for any width *)

\* The part of a 0 stays in the interval, if nothing else is known of the width.
BitModelSafe(m) ==
  /\ m \in [bit_0_count : Nat, bit_count : Nat \ {0}, bit_0_prob : 0 .. BMUnit,
            update_cycle : Nat \ {0}, bits_until_update : Nat \ {0}]
  /\ m.bits_until_update <= m.update_cycle
  /\ m.bit_0_count <= m.bit_count + (m.update_cycle - m.bits_until_update)

\* The scaled probability of a bit is at most one.
LEMMA ProbabilityAtMostOne ==
  ASSUME NEW all \in Nat \ {0}, NEW zeros \in 0 .. all
  PROVE  BitProbability(zeros, all) \in 0 .. BMUnit
<1> DEFINE scale == Scale \div all
           unit  == Scale \div BMUnit
<1>1. BMUnit \in Nat \ {0} /\ Scale \in Nat \ {0} /\ Scale % BMUnit = 0
  BY ModelAssumption
<1>2. unit \in Nat \ {0} /\ BMUnit * unit = Scale
  <2>1. BMUnit * unit = Scale
    BY <1>1
  <2> QED BY <2>1, <1>1
<1>3. scale \in Nat /\ all * scale <= Scale
  BY <1>1, DivBounds
<1>4. BitProbability(zeros, all) = (zeros * scale) \div unit
  BY DEF BitProbability
<1> HIDE DEF scale, unit
<1>5. zeros * scale \in Nat /\ zeros * scale <= all * scale
  BY <1>3
<1>6. zeros * scale < unit * (BMUnit + 1) /\ BMUnit + 1 \in Nat
  <2>1. all * scale \in Nat
    BY <1>3
  <2>2. unit * (BMUnit + 1) = Scale + unit
    BY <1>1, <1>2
  <2> QED BY <1>1, <1>2, <1>3, <1>5, <2>1, <2>2
<1>7. (zeros * scale) \div unit < BMUnit + 1
  BY <1>2, <1>5, <1>6, DivLess
<1>8. (zeros * scale) \div unit \in Nat
  BY <1>2, <1>5, DivBounds
<1> QED BY <1>1, <1>4, <1>7, <1>8

\* Coding any bit keeps that.
LEMMA BitCodingIsSafe ==
  ASSUME NEW m, BitModelSafe(m), NEW bit
  PROVE  BitModelSafe(BitCoded(m, bit))
<1> DEFINE zeros   == IF bit = 0 THEN m.bit_0_count + 1 ELSE m.bit_0_count
           left    == m.bits_until_update - 1
           begun   == [m EXCEPT !.bit_0_count = zeros]
           counted == [begun EXCEPT !.bits_until_update = left]
<1>1. /\ m.bit_0_count \in Nat /\ m.bit_count \in Nat \ {0} /\ m.bit_0_prob \in 0 .. BMUnit
      /\ m.update_cycle \in Nat \ {0} /\ m.bits_until_update \in Nat \ {0}
      /\ m.bits_until_update <= m.update_cycle
      /\ m.bit_0_count <= m.bit_count + (m.update_cycle - m.bits_until_update)
  BY DEF BitModelSafe
<1>3. BitCoded(m, bit) = IF counted.bits_until_update = 0 THEN BitModelUpdate(counted) ELSE counted
  BY DEF BitCoded
<1>4. zeros \in Nat /\ left \in Nat /\ zeros <= m.bit_count + (m.update_cycle - left)
  BY <1>1
<1> HIDE DEF zeros, left
<1>2. counted = [bit_0_count |-> zeros, bit_count |-> m.bit_count, bit_0_prob |-> m.bit_0_prob,
                 update_cycle |-> m.update_cycle, bits_until_update |-> left]
  <2>1. m = [bit_0_count |-> m.bit_0_count, bit_count |-> m.bit_count, bit_0_prob |-> m.bit_0_prob,
             update_cycle |-> m.update_cycle, bits_until_update |-> m.bits_until_update]
    BY DEF BitModelSafe
  <2>2. begun = [bit_0_count |-> zeros, bit_count |-> m.bit_count, bit_0_prob |-> m.bit_0_prob,
                 update_cycle |-> m.update_cycle, bits_until_update |-> m.bits_until_update]
    BY <2>1
  <2> HIDE DEF begun
  <2> QED BY <2>2
<1> HIDE DEF counted
<1>5. CASE left = 0
  <2> DEFINE all   == m.bit_count + m.update_cycle
             halve == all > BMUnit
             kept  == IF halve THEN Halved(zeros) ELSE zeros
             half  == IF kept = Halved(all) THEN Halved(all) + 1 ELSE Halved(all)
             total == IF halve THEN half ELSE all
             cycle == AtMost((5 * m.update_cycle) \div 4, 64)
  <2>1. BitModelUpdate(counted) =
          [bit_0_count |-> kept, bit_count |-> total, bit_0_prob |-> BitProbability(kept, total),
           update_cycle |-> cycle, bits_until_update |-> cycle]
    BY <1>2 DEF BitModelUpdate
  <2>2. all \in Nat \ {0} /\ zeros <= all
    BY <1>1, <1>4, <1>5
  <2> HIDE DEF all
  <2>3. cycle \in Nat \ {0}
    <3>1. ASSUME NEW c \in Nat \ {0} PROVE (5 * c) \div 4 \in Nat \ {0}
      BY <3>1
    <3>2. (5 * m.update_cycle) \div 4 \in Nat \ {0}
      BY <1>1, <3>1
    <3> QED BY <3>2 DEF AtMost
  <2>4. total \in Nat \ {0} /\ kept \in 0 .. total
    <3>1. /\ Halved(all) \in Nat \ {0} /\ Halved(zeros) \in Nat
          /\ Halved(zeros) <= Halved(all)
      BY <1>4, <2>2 DEF Halved
    <3> QED BY <3>1, <1>4, <2>2
  <2> HIDE DEF kept, total, cycle
  <2>5. BitProbability(kept, total) \in 0 .. BMUnit
    BY <2>4, ProbabilityAtMostOne
  <2>6. BitCoded(m, bit) = BitModelUpdate(counted)
    BY <1>2, <1>3, <1>5
  <2>7. kept \in Nat /\ kept <= total + (cycle - cycle)
    BY <2>3, <2>4
  <2> QED BY <2>1, <2>3, <2>4, <2>5, <2>6, <2>7 DEF BitModelSafe
<1>6. CASE left # 0
  <2>1. BitCoded(m, bit) = counted
    BY <1>2, <1>3, <1>6
  <2>2. left \in Nat \ {0} /\ left <= m.update_cycle
    BY <1>1, <1>4, <1>6 DEF left
  <2> QED BY <1>1, <1>2, <1>4, <2>1, <2>2 DEF BitModelSafe
<1> QED BY <1>5, <1>6

\* A new bit model has one 0 among two bits.
LEMMA NewBitModelIsSafe == BitModelSafe(NewBitModel)
<1>1. BMUnit \in Nat /\ BMUnit \div 2 \in 0 .. BMUnit
  BY ModelAssumption
<1> QED BY <1>1 DEF BitModelSafe, NewBitModel

------------------------------------------------------------------------------
(* The decoder's search for a symbol *)

\* Where the part begins that a number of the scale of DMUnit is in.
SymbolHas(d, n, sym, dv) ==
  /\ sym \in 0 .. n-1
  /\ d[sym] <= dv
  /\ sym = n-1 \/ d[sym + 1] > dv

\* There is such a symbol for every number ...
LEMMA SymbolExists ==
  ASSUME NEW n \in Nat \ {0}, NEW d, IsDistribution(d, n), NEW dv \in Nat
  PROVE  \E sym : SymbolHas(d, n, sym, dv)
<1> DEFINE S == {k \in 0 .. n-1 : k = n-1 \/ d[k + 1] > dv}
<1>1. S \subseteq Nat /\ n-1 \in S
  OBVIOUS
<1>2. PICK k \in S : \A j \in S : k <= j
  BY <1>1, LeastNatural
<1>3. DMUnit \in Nat
  BY ModelAssumption
<1>4. k \in 0 .. n-1 /\ (k = n-1 \/ d[k + 1] > dv)
  BY <1>2
<1>5. d[k] <= dv
  <2>1. CASE k = 0
    BY <2>1 DEF IsDistribution
  <2>2. CASE k # 0
    <3>1. k-1 \in 0 .. n-1 /\ k-1 < k /\ (k-1) + 1 = k /\ k-1 # n-1
      BY <1>4, <2>2
    <3>2. k-1 \notin S
      BY <1>2, <3>1
    <3>3. ~(d[k] > dv)
      BY <3>1, <3>2
    <3>4. d[k] \in Nat
      BY <1>3, <1>4 DEF IsDistribution
    <3> QED BY <3>3, <3>4
  <2> QED BY <2>1, <2>2
<1> QED BY <1>4, <1>5 DEF SymbolHas

\* ... and bisection finds it if it is between the bounds of the search.
LEMMA BisectFinds ==
  ASSUME NEW n \in Nat \ {0}, NEW m, IsDistribution(m.distribution, n), NEW dv \in Nat,
         NEW sym, SymbolHas(m.distribution, n, sym, dv),
         NEW low \in Nat, NEW high \in Nat, high <= n, low <= sym, sym < high
  PROVE  Bisect(m, low, high, dv) = sym
<1> DEFINE d    == m.distribution
           P(k) == /\ k = low \/ d[k] <= dv
                   /\ k = high-1 \/ d[k+1] > dv
<1>1. DMUnit \in Nat
  BY ModelAssumption
<1>2. /\ sym \in 0 .. n-1 /\ d[sym] <= dv
      /\ sym = n-1 \/ d[sym + 1] > dv
  BY DEF SymbolHas
<1> HIDE DEF d
<1>3. /\ \A k \in 0 .. n-1 : d[k] \in Nat
      /\ \A j, k \in 0 .. n-1 : j <= k => d[j] <= d[k]
  <2>1. IsDistribution(d, n)
    BY DEF d
  <2>2. \A k \in 0 .. n-1 : d[k] \in 0 .. DMUnit
    BY <2>1 DEF IsDistribution
  <2>3. \A j, k \in 0 .. n-1 : j <= k => d[j] <= d[k]
    BY <2>1 DEF IsDistribution
  <2> QED BY <1>1, <2>2, <2>3
<1>4. sym \in low .. high-1
  BY <1>2
<1>5. P(sym)
  BY <1>2
<1>6. ASSUME NEW k \in low .. high-1, P(k) PROVE k = sym
  <2>1. CASE k < sym
    <3>1. k + 1 \in 0 .. n-1 /\ k + 1 <= sym /\ k # high-1
      BY <1>2, <2>1
    <3>2. d[k + 1] > dv /\ d[k + 1] <= d[sym] /\ d[k + 1] \in Nat /\ d[sym] \in Nat
      BY <1>2, <1>3, <1>6, <3>1
    <3> QED BY <1>2, <3>2
  <2>2. CASE k > sym
    <3>1. sym + 1 \in 0 .. n-1 /\ k \in 0 .. n-1 /\ sym + 1 <= k /\ k # low /\ sym # n-1
      BY <1>2, <2>2
    <3>2. d[k] <= dv /\ d[sym + 1] > dv /\ d[sym + 1] <= d[k] /\ d[k] \in Nat /\ d[sym + 1] \in Nat
      BY <1>2, <1>3, <1>6, <3>1
    <3> QED BY <3>2
  <2> QED BY <1>2, <2>1, <2>2
<1>7. Bisect(m, low, high, dv) = CHOOSE k \in low .. high-1 : P(k)
  BY DEF Bisect, d
<1> HIDE DEF P
<1> QED BY <1>4, <1>5, <1>6, <1>7

\* The table has at least one cell, and its cells share the scale equally.
LEMMA TableSizeDivides ==
  ASSUME NEW n \in 2 .. DMUnit
  PROVE  /\ TableSize(n) \in Nat \ {0}
         /\ DMUnit \div TableSize(n) \in Nat \ {0}
         /\ DMUnit = TableSize(n) * (DMUnit \div TableSize(n))
<1> DEFINE sizes == { MinTable * f : f \in { g \in 1 .. DMUnit \div MinTable : DMUnit % (MinTable * g) = 0 } }
           fits  == { s \in sizes : n <= 4 * s }
           last  == DMUnit \div MinTable
<1>1. DMUnit \in Nat \ {0} /\ MinTable \in Nat \ {0} /\ DMUnit % MinTable = 0
  BY ModelAssumption
<1>2. last \in Nat \ {0} /\ MinTable * last = DMUnit
  <2>1. MinTable * last = DMUnit
    BY <1>1
  <2> QED BY <1>1, <2>1
<1> HIDE DEF last
<1>3. ASSUME NEW s \in sizes PROVE s \in Nat \ {0} /\ DMUnit % s = 0
  <2>1. PICK g \in 1 .. last : DMUnit % (MinTable * g) = 0 /\ s = MinTable * g
    BY DEF last
  <2>2. MinTable * g \in Nat \ {0}
    BY <1>1, <1>2, <2>1
  <2> QED BY <2>1, <2>2
<1>4. DMUnit \in fits
  <2>1. last \in 1 .. last /\ DMUnit % (MinTable * last) = 0
    BY <1>1, <1>2
  <2>2. DMUnit \in sizes
    BY <1>2, <2>1 DEF last
  <2> QED BY <1>1, <2>2
<1>5. TableSize(n) = CHOOSE s \in fits : \A r \in fits : s <= r
  BY DEF TableSize
<1>6. fits \subseteq Nat
  BY <1>3
<1>7. \E s \in fits : \A r \in fits : s <= r
  <2> HIDE DEF fits
  <2> QED BY <1>4, <1>6, LeastNatural
<1>8. TableSize(n) \in fits
  <2> HIDE DEF fits
  <2> QED BY <1>5, <1>7
<1>9. TableSize(n) \in Nat \ {0} /\ DMUnit % TableSize(n) = 0
  BY <1>3, <1>8
<1> QED BY <1>1, <1>9

\* What lies in an earlier cell is less.
LEMMA EarlierCellIsLess ==
  ASSUME NEW a \in Nat, NEW b \in Nat, NEW w \in Nat \ {0}, a \div w < b \div w
  PROVE  a < b
<1>1. /\ a \div w \in Nat /\ a < w * (a \div w) + w
      /\ b \div w \in Nat /\ w * (b \div w) <= b
  BY DivBounds
<1>2. w * (a \div w) + w <= w * (b \div w)
  <2>1. a \div w + 1 <= b \div w
    BY <1>1
  <2>2. w * (a \div w + 1) <= w * (b \div w)
    BY <1>1, <2>1
  <2>3. w * (a \div w + 1) = w * (a \div w) + w
    BY <1>1
  <2> QED BY <2>2, <2>3
<1>3. w * (a \div w) \in Nat /\ w * (b \div w) \in Nat
  BY <1>1
<1> QED BY <1>1, <1>2, <1>3

\* The table bounds the search from below, by the cell of the number, and from
\* above, by the next one.
LEMMA TableBoundsSearch ==
  ASSUME NEW n \in 2 .. DMUnit, NEW m, m.symbols = n, IsDistribution(m.distribution, n),
         NEW dv \in Nat, NEW sym, SymbolHas(m.distribution, n, sym, dv),
         NEW t \in Nat, t = dv \div (DMUnit \div TableSize(n))
  PROVE  /\ DecoderTable(m, t) \in Nat /\ DecoderTable(m, t) <= sym
         /\ DecoderTable(m, t + 1) \in 0 .. n-1 /\ sym <= DecoderTable(m, t + 1)
<1> DEFINE d       == m.distribution
           width   == DMUnit \div TableSize(n)
           past(c) == { k \in 0 .. n-1 : d[k] \div width >= c }
<1>1. width \in Nat \ {0} /\ DMUnit \in Nat /\ n \in Nat \ {0}
  BY TableSizeDivides, ModelAssumption
<1>2. /\ \A k \in 0 .. n-1 : d[k] \in Nat
      /\ \A j, k \in 0 .. n-1 : j <= k => d[j] <= d[k]
      /\ d[0] = 0
  BY <1>1 DEF IsDistribution
<1>3. /\ sym \in 0 .. n-1 /\ d[sym] <= dv
      /\ sym = n-1 \/ d[sym + 1] > dv
  BY DEF SymbolHas
<1>4. ASSUME NEW c \in Nat
      PROVE  DecoderTable(m, c) = IF c = 0 THEN 0
                                  ELSE IF past(c) = {} THEN n - 1
                                  ELSE (CHOOSE k \in past(c) : \A j \in past(c) : k <= j) - 1
  BY DEF DecoderTable
<1>5. t = dv \div width
  OBVIOUS
<1> HIDE DEF d, width
<1>6. ASSUME NEW k \in 0 .. n-1, d[k] \div width < t PROVE d[k] < dv
  BY <1>1, <1>2, <1>5, <1>6, EarlierCellIsLess
<1>7. ASSUME NEW k \in 0 .. n-1, d[k] \div width >= t + 1 PROVE dv < d[k]
  <2>1. d[k] \div width \in Nat
    BY <1>1, <1>2, DivBounds
  <2>2. dv \div width < d[k] \div width
    BY <1>5, <1>7, <2>1
  <2> QED BY <1>1, <1>2, <2>2, EarlierCellIsLess
<1>8. ASSUME NEW c \in Nat, past(c) # {}
      PROVE  \E p \in past(c) : /\ \A j \in past(c) : p <= j
                                /\ p = CHOOSE k \in past(c) : \A j \in past(c) : k <= j
  <2>1. past(c) \subseteq Nat
    OBVIOUS
  <2> HIDE DEF past
  <2> QED BY <1>8, <2>1, LeastNatural
<1>9. \A k \in 0 .. n-1 : d[k] \div width \in Nat
  BY <1>1, <1>2, DivBounds
<1>10. DecoderTable(m, t) \in Nat /\ DecoderTable(m, t) <= sym
  <2>1. CASE t = 0
    BY <1>3, <1>4, <2>1
  <2>2. CASE t # 0 /\ past(t) = {}
    <3>1. DecoderTable(m, t) = n-1
      BY <1>4, <2>2
    <3>2. sym = n-1
      <4>1. SUFFICES ASSUME sym # n-1 PROVE FALSE
        OBVIOUS
      <4>2. sym + 1 \in 0 .. n-1 /\ d[sym + 1] > dv
        BY <1>3, <4>1
      <4>3. sym + 1 \notin past(t)
        BY <2>2
      <4>4. d[sym + 1] \div width < t
        BY <1>9, <4>2, <4>3
      <4>5. d[sym + 1] < dv
        BY <1>6, <4>2, <4>4
      <4> QED BY <1>2, <4>2, <4>5
    <3> QED BY <3>1, <3>2, <1>1
  <2>3. CASE t # 0 /\ past(t) # {}
    <3>1. PICK p \in past(t) : /\ \A j \in past(t) : p <= j
                               /\ p = CHOOSE k \in past(t) : \A j \in past(t) : k <= j
      BY <1>8, <2>3
    <3>2. DecoderTable(m, t) = p - 1
      BY <1>4, <2>3, <3>1
    <3>3. p \in 0 .. n-1 /\ d[p] \div width >= t
      BY <3>1
    <3>4. p # 0
      <4>1. SUFFICES ASSUME p = 0 PROVE FALSE
        OBVIOUS
      <4>2. 0 \div width < 1 /\ 0 \div width \in Nat
        BY <1>1, DivLess, DivBounds
      <4> QED BY <1>2, <2>3, <3>3, <4>1, <4>2
    <3>5. p-1 \in 0 .. n-1 /\ p-1 \in Nat
      BY <3>3, <3>4
    <3>6. p-1 \notin past(t)
      <4>1. ASSUME p-1 \in past(t) PROVE FALSE
        <5>1. p <= p-1
          BY <3>1, <4>1
        <5> QED BY <3>3, <5>1
      <4> HIDE DEF past
      <4> QED BY <4>1
    <3>7. d[p-1] \div width < t
      BY <1>9, <3>5, <3>6
    <3>8. d[p-1] < dv
      BY <1>6, <3>5, <3>7
    <3>9. p-1 <= sym
      <4>1. SUFFICES ASSUME sym < p-1 PROVE FALSE
        BY <1>3, <3>5
      <4>2. sym + 1 \in 0 .. n-1 /\ sym + 1 <= p-1 /\ sym # n-1
        BY <1>3, <3>5, <4>1
      <4>3. d[sym + 1] <= d[p-1] /\ d[sym + 1] > dv
        BY <1>2, <1>3, <3>5, <4>2
      <4>4. d[sym + 1] \in Nat /\ d[p-1] \in Nat
        BY <1>2, <3>5, <4>2
      <4> QED BY <3>8, <4>3, <4>4
    <3> QED BY <3>2, <3>5, <3>9
  <2> QED BY <2>1, <2>2, <2>3
<1>11. DecoderTable(m, t + 1) \in 0 .. n-1 /\ sym <= DecoderTable(m, t + 1)
  <2>1. t + 1 \in Nat /\ t + 1 # 0
    OBVIOUS
  <2>2. CASE past(t + 1) = {}
    <3>1. DecoderTable(m, t + 1) = n-1
      BY <1>4, <2>1, <2>2
    <3> QED BY <1>1, <1>3, <3>1
  <2>3. CASE past(t + 1) # {}
    <3>1. PICK p \in past(t + 1) : /\ \A j \in past(t + 1) : p <= j
                                   /\ p = CHOOSE k \in past(t + 1) : \A j \in past(t + 1) : k <= j
      BY <1>8, <2>1, <2>3
    <3>2. DecoderTable(m, t + 1) = p - 1
      BY <1>4, <2>1, <2>3, <3>1
    <3>3. p \in 0 .. n-1 /\ dv < d[p]
      BY <1>7, <3>1
    <3>4. sym < p
      <4>1. SUFFICES ASSUME p <= sym PROVE FALSE
        BY <1>3, <3>3
      <4>2. d[p] <= d[sym] /\ d[p] \in Nat /\ d[sym] \in Nat
        BY <1>2, <1>3, <3>3, <4>1
      <4> QED BY <1>3, <3>3, <4>2
    <3> QED BY <1>3, <3>2, <3>3, <3>4
  <2> QED BY <2>2, <2>3
<1> QED BY <1>10, <1>11

\* The search has the symbol at a number, or throws when the table ends before.
LEMMA SymbolAtFinds ==
  ASSUME NEW n \in 2 .. DMUnit, NEW m, m.symbols = n, IsDistribution(m.distribution, n),
         NEW dv \in Nat, NEW sym, SymbolHas(m.distribution, n, sym, dv), NEW tabled \in BOOLEAN
  PROVE  /\ SymbolAt(m, dv, tabled) \in {-1, sym}
         /\ ~tabled \/ dv \div (DMUnit \div TableSize(n)) <= TableSize(n)
              => SymbolAt(m, dv, tabled) = sym
<1> DEFINE t == dv \div (DMUnit \div TableSize(n))
<1>1. /\ n \in Nat \ {0} /\ TableSize(n) \in Nat \ {0} /\ DMUnit \div TableSize(n) \in Nat \ {0}
  BY TableSizeDivides, ModelAssumption
<1>2. t \in Nat
  BY <1>1, DivBounds
<1>3. sym \in 0 .. n-1
  BY DEF SymbolHas
<1>4. SymbolAt(m, dv, tabled) = IF ~tabled THEN Bisect(m, 0, n, dv)
                                ELSE IF t > TableSize(n) THEN -1
                                ELSE Bisect(m, DecoderTable(m, t), DecoderTable(m, t + 1) + 1, dv)
  BY DEF SymbolAt
<1>5. Bisect(m, 0, n, dv) = sym
  <2>1. 0 \in Nat /\ n \in Nat /\ n <= n /\ 0 <= sym /\ sym < n
    BY <1>1, <1>3
  <2> QED BY <1>1, <2>1, BisectFinds
<1>6. Bisect(m, DecoderTable(m, t), DecoderTable(m, t + 1) + 1, dv) = sym
  <2>1. /\ DecoderTable(m, t) \in Nat /\ DecoderTable(m, t) <= sym
        /\ DecoderTable(m, t + 1) \in 0 .. n-1 /\ sym <= DecoderTable(m, t + 1)
    BY <1>2, TableBoundsSearch
  <2>2. /\ DecoderTable(m, t + 1) + 1 \in Nat /\ DecoderTable(m, t + 1) + 1 <= n
        /\ sym < DecoderTable(m, t + 1) + 1
    BY <1>1, <1>3, <2>1
  <2> QED BY <1>1, <2>1, <2>2, BisectFinds
<1> HIDE DEF t
<1>7. ~tabled \/ t <= TableSize(n) => SymbolAt(m, dv, tabled) = sym
  BY <1>1, <1>2, <1>4, <1>5, <1>6
<1>8. SymbolAt(m, dv, tabled) \in {-1, sym}
  BY <1>4, <1>5, <1>6
<1> QED BY <1>7, <1>8 DEF t

------------------------------------------------------------------------------
(* The parts of an interval *)

\* The lengths that the coder counts with.
LEMMA CoderConstants ==
  /\ Radix \in Nat /\ Radix >= 4
  /\ MinLength \in Nat /\ MinLength >= 64 /\ MinLength = Radix * Radix * Radix
  /\ Word \in Nat /\ Word = Radix * MinLength /\ MinLength < Word
  /\ DMUnit \in Nat \ {0} /\ DMUnit <= MinLength
  /\ BMUnit \in Nat \ {0} /\ BMUnit <= MinLength
<1>1. Radix \in Nat /\ Radix >= 4 /\ MinLength % BMUnit = 0 /\ MinLength % DMUnit = 0
  BY CoderAssumption
<1>2. MinLength = Radix * Radix * Radix /\ Word = Radix * MinLength
  BY DEF MinLength, Word
<1>3. MinLength \in Nat /\ MinLength >= 64
  <2>1. Radix * Radix \in Nat /\ Radix * Radix >= 4 * Radix
    BY <1>1
  <2>2. Radix * Radix >= 16
    BY <1>1, <2>1
  <2>3. ASSUME NEW s \in Nat, s >= 16 PROVE s * Radix \in Nat /\ s * Radix >= 64
    <3>1. s * Radix >= 16 * Radix /\ s * Radix \in Nat
      BY <1>1, <2>3
    <3> QED BY <1>1, <3>1
  <2> QED BY <1>2, <2>1, <2>2, <2>3
<1>4. Word \in Nat /\ MinLength < Word
  <2>1. ASSUME NEW l \in Nat, l >= 64 PROVE Radix * l \in Nat /\ l < Radix * l
    <3>1. Radix * l \in Nat /\ 4 * l <= Radix * l
      BY <1>1, <2>1
    <3> QED BY <2>1, <3>1
  <2> QED BY <1>2, <1>3, <2>1
<1>5. ASSUME NEW u \in Nat \ {0}, MinLength % u = 0 PROVE u <= MinLength
  BY <1>3, <1>5
<1>6. BMUnit \in Nat \ {0} /\ DMUnit \in Nat \ {0}
  BY ModelAssumption
<1> QED BY <1>1, <1>2, <1>3, <1>4, <1>5, <1>6

\* A call of the coder, of a model of n symbols.
CallOK(call, n) ==
  /\ call \in [kind : {"bit", "symbol", "raw"}, sym : Nat, unit : Nat]
  /\ \/ call.kind = "bit" /\ call.sym \in {0, 1}
     \/ call.kind = "symbol" /\ call.sym \in 0 .. n-1
     \/ /\ call.kind = "raw" /\ call.unit \in 2 .. MinLength
        /\ call.sym \in 0 .. call.unit - 1

\* The models of a coder with n symbols, as coding leaves them.
ModelsOK(ms, n) ==
  /\ ms = [bit |-> ms.bit, symbol |-> ms.symbol]
  /\ BitModelSafe(ms.bit)
  /\ SymbolModelInv(ms.symbol, n)

\* Offset(), Part(), ModelsAfter() and Decoded() for given models, length and value.
OffsetIn(ms, len, call) ==
  CASE call.kind = "bit"    -> call.sym * ms.bit.bit_0_prob * (len \div BMUnit)
    [] call.kind = "symbol" -> ms.symbol.distribution[call.sym] * (len \div DMUnit)
    [] call.kind = "raw"    -> call.sym * (len \div call.unit)

PartIn(ms, len, call, n) ==
  CASE call.kind = "bit" ->
         IF call.sym = 0 THEN ms.bit.bit_0_prob * (len \div BMUnit)
         ELSE len - OffsetIn(ms, len, call)
    [] call.kind = "symbol" ->
         IF call.sym = n - 1 THEN len - OffsetIn(ms, len, call)
         ELSE ms.symbol.distribution[call.sym + 1] * (len \div DMUnit) - OffsetIn(ms, len, call)
    [] call.kind = "raw" -> len \div call.unit

CodedIn(ms, call) ==
  [bit |-> IF call.kind = "bit" THEN BitCoded(ms.bit, call.sym) ELSE ms.bit,
   symbol |-> IF call.kind = "symbol" THEN SymbolCoded(ms.symbol, call.sym)
              ELSE ms.symbol]

DecodedIn(ms, len, val, call, n) ==
  CASE call.kind = "bit" ->
         IF val >= ms.bit.bit_0_prob * (len \div BMUnit) THEN 1 ELSE 0
    [] call.kind = "symbol" ->
         SymbolAt(ms.symbol, val \div (len \div DMUnit), n > TableFrom)
    [] call.kind = "raw" -> val \div (len \div call.unit)

\* Both coders count with the variables.
LEMMA CallsInState ==
  /\ \A call : Offset(call) = OffsetIn(models, length, call)
  /\ \A call : Part(call) = PartIn(models, length, call, program.symbols)
  /\ \A call : ModelsAfter(call) = CodedIn(models, call)
  /\ \A call : Decoded(call) = DecodedIn(models, length, value, call, program.symbols)
<1>1. ASSUME NEW call PROVE Offset(call) = OffsetIn(models, length, call)
  BY DEF Offset, OffsetIn
<1>2. ASSUME NEW call PROVE Part(call) = PartIn(models, length, call, program.symbols)
  BY <1>1 DEF Part, PartIn
<1>3. ASSUME NEW call PROVE ModelsAfter(call) = CodedIn(models, call)
  BY DEF ModelsAfter, CodedIn
<1>4. ASSUME NEW call PROVE Decoded(call) = DecodedIn(models, length, value, call, program.symbols)
  BY DEF Decoded, DecodedIn
<1> QED BY <1>1, <1>2, <1>3, <1>4

\* New models are as coding leaves them.
LEMMA NewModelsOK ==
  ASSUME NEW n \in 2 .. DMUnit
  PROVE  ModelsOK([bit |-> NewBitModel, symbol |-> NewModel(n)], n)
BY NewBitModelIsSafe, NewModelInv DEF ModelsOK

\* Coding a call keeps the models so.
LEMMA CodingKeepsModels ==
  ASSUME NEW n \in 2 .. DMUnit, NEW ms, ModelsOK(ms, n), NEW call, CallOK(call, n)
  PROVE  ModelsOK(CodedIn(ms, call), n)
<1> DEFINE b == IF call.kind = "bit" THEN BitCoded(ms.bit, call.sym) ELSE ms.bit
           s == IF call.kind = "symbol" THEN SymbolCoded(ms.symbol, call.sym) ELSE ms.symbol
<1>1. BitModelSafe(b)
  BY BitCodingIsSafe DEF ModelsOK
<1>2. SymbolModelInv(s, n)
  <2>1. n \in Nat \ {0}
    BY ModelAssumption
  <2>2. CASE call.kind = "symbol"
    <3>1. call.sym \in 0 .. n-1
      BY <2>2 DEF CallOK
    <3> QED BY <2>1, <2>2, <3>1, SymbolCodingKeepsInv DEF ModelsOK
  <2>3. CASE call.kind # "symbol"
    BY <2>3 DEF ModelsOK
  <2> QED BY <2>2, <2>3
<1>3. CodedIn(ms, call) = [bit |-> b, symbol |-> s]
  BY DEF CodedIn
<1> HIDE DEF b, s
<1> QED BY <1>1, <1>2, <1>3 DEF ModelsOK

\* A factor at most as large gives a product at most as large.
LEMMA ProductRises ==
  ASSUME NEW a \in Nat, NEW b \in Nat, NEW q \in Nat, a <= b
  PROVE  a * q \in Nat /\ b * q \in Nat /\ a * q <= b * q
OBVIOUS

\* Of a number divided, no multiple up to the divisor is more than the number.
LEMMA ScaledFits ==
  ASSUME NEW len \in Nat, NEW u \in Nat \ {0}, NEW a \in 0 .. u
  PROVE  a * (len \div u) \in Nat /\ a * (len \div u) <= len
<1>1. len \div u \in Nat /\ u * (len \div u) <= len
  BY DivBounds
<1>2. a * (len \div u) <= u * (len \div u) /\ a * (len \div u) \in Nat
  BY <1>1, ProductRises
<1>3. u * (len \div u) \in Nat
  BY <1>1
<1> DEFINE p == a * (len \div u)
           q == u * (len \div u)
<1>4. p \in Nat /\ q \in Nat /\ p <= q /\ q <= len
  BY <1>1, <1>2, <1>3
<1> HIDE DEF p, q
<1>5. p <= len
  BY <1>4
<1> QED BY <1>4, <1>5 DEF p

\* Where the parts for a bit are, ...
LEMMA BitParts ==
  ASSUME NEW n \in 2 .. DMUnit, NEW ms, ModelsOK(ms, n), NEW len \in Nat,
         NEW call, CallOK(call, n), call.kind = "bit"
  PROVE  \E p \in 0 .. len :
           /\ p = ms.bit.bit_0_prob * (len \div BMUnit)
           /\ call.sym \in {0, 1}
           /\ OffsetIn(ms, len, call) = IF call.sym = 0 THEN 0 ELSE p
           /\ PartIn(ms, len, call, n) = IF call.sym = 0 THEN p ELSE len - p
<1> DEFINE prob == ms.bit.bit_0_prob
           q    == len \div BMUnit
           p    == prob * q
<1>1. prob \in 0 .. BMUnit
  BY DEF ModelsOK, BitModelSafe
<1>2. p \in Nat /\ p <= len
  BY <1>1, CoderConstants, ScaledFits
<1>3. q \in Nat
  BY CoderConstants, DivBounds
<1>4. call.sym \in {0, 1}
  BY DEF CallOK
<1>5. OffsetIn(ms, len, call) = call.sym * prob * q
  BY DEF OffsetIn
<1>6. PartIn(ms, len, call, n) = IF call.sym = 0 THEN p ELSE len - OffsetIn(ms, len, call)
  BY DEF PartIn
<1> HIDE DEF prob, q
<1>7. OffsetIn(ms, len, call) = IF call.sym = 0 THEN 0 ELSE p
  <2>1. prob \in Nat
    BY <1>1, CoderConstants
  <2>2. 0 * prob * q = 0 /\ 1 * prob * q = prob * q
    BY <2>1, <1>3
  <2> QED BY <1>4, <1>5, <2>2
<1> HIDE DEF p
<1>8. PartIn(ms, len, call, n) = IF call.sym = 0 THEN p ELSE len - p
  BY <1>4, <1>6, <1>7
<1>9. p \in 0 .. len /\ p = ms.bit.bit_0_prob * (len \div BMUnit)
  BY <1>2 DEF p, prob, q
<1> QED BY <1>4, <1>7, <1>8, <1>9

\* ... for a symbol, ...
LEMMA SymbolParts ==
  ASSUME NEW n \in 2 .. DMUnit, NEW ms, ModelsOK(ms, n), NEW len \in Nat,
         NEW call, CallOK(call, n), call.kind = "symbol"
  PROVE  LET sym == call.sym
             d   == ms.symbol.distribution
             q   == len \div DMUnit
         IN /\ IsDistribution(d, n) /\ q \in Nat /\ sym \in 0 .. n-1
            /\ ms.symbol.symbols = n
            /\ d[sym] \in 0 .. DMUnit
            /\ d[sym] * q \in 0 .. len
            /\ OffsetIn(ms, len, call) = d[sym] * q
            /\ sym = n-1 => PartIn(ms, len, call, n) = len - d[sym] * q
            /\ sym # n-1 => /\ d[sym + 1] \in 0 .. DMUnit /\ d[sym + 1] * q \in 0 .. len
                            /\ d[sym] * q <= d[sym + 1] * q
                            /\ PartIn(ms, len, call, n) = d[sym + 1] * q - d[sym] * q
<1> DEFINE sym == call.sym
           d   == ms.symbol.distribution
           q   == len \div DMUnit
<1>1. IsDistribution(d, n) /\ ms.symbol.symbols = n
  BY DEF ModelsOK, SymbolModelInv, SymbolFields
<1>2. q \in Nat
  BY CoderConstants, DivBounds
<1>3. sym \in 0 .. n-1
  BY DEF CallOK
<1>4. OffsetIn(ms, len, call) = d[sym] * q
  BY DEF OffsetIn
<1>5. PartIn(ms, len, call, n) =
         IF sym = n - 1 THEN len - OffsetIn(ms, len, call)
         ELSE d[sym + 1] * q - OffsetIn(ms, len, call)
  BY DEF PartIn
<1>6. d[sym] \in 0 .. DMUnit
  BY <1>1, <1>3 DEF IsDistribution
<1>7. ASSUME NEW a \in 0 .. DMUnit PROVE a * q \in 0 .. len
  <2>1. a * q \in Nat /\ a * q <= len
    BY CoderConstants, ScaledFits
  <2> HIDE DEF q
  <2> QED BY <2>1
<1>8. ASSUME sym # n-1
      PROVE  /\ d[sym + 1] \in 0 .. DMUnit /\ d[sym + 1] * q \in 0 .. len
             /\ d[sym] * q <= d[sym + 1] * q
  <2>1. sym + 1 \in 0 .. n-1 /\ sym <= sym + 1
    BY <1>3, <1>8
  <2>2. d[sym + 1] \in 0 .. DMUnit /\ d[sym] <= d[sym + 1]
    BY <1>1, <1>3, <2>1 DEF IsDistribution
  <2>3. d[sym] \in Nat /\ d[sym + 1] \in Nat
    BY <1>6, <2>2, CoderConstants
  <2>4. d[sym] * q <= d[sym + 1] * q
    <3> HIDE DEF d, q, sym
    <3> QED BY <1>2, <2>2, <2>3, ProductRises
  <2> QED BY <1>7, <2>2, <2>4
<1>9. d[sym] * q \in 0 .. len
  BY <1>6, <1>7
<1> HIDE DEF d, q, sym
<1>10. /\ sym = n-1 => PartIn(ms, len, call, n) = len - d[sym] * q
       /\ sym # n-1 => PartIn(ms, len, call, n) = d[sym + 1] * q - d[sym] * q
  BY <1>4, <1>5
<1>11. sym # n-1 => /\ d[sym + 1] \in 0 .. DMUnit /\ d[sym + 1] * q \in 0 .. len
                    /\ d[sym] * q <= d[sym + 1] * q
  BY <1>8
<1> QED BY <1>1, <1>2, <1>3, <1>4, <1>6, <1>9, <1>10, <1>11 DEF d, q, sym

\* ... and for a raw number.
LEMMA RawParts ==
  ASSUME NEW n \in 2 .. DMUnit, NEW len \in Nat, NEW ms,
         NEW call, CallOK(call, n), call.kind = "raw"
  PROVE  LET q == len \div call.unit
         IN /\ q \in Nat /\ call.unit \in 2 .. MinLength
            /\ call.sym \in 0 .. call.unit - 1
            /\ call.sym * q \in Nat /\ call.sym * q + q <= len
            /\ OffsetIn(ms, len, call) = call.sym * q
            /\ PartIn(ms, len, call, n) = q
<1> DEFINE q == len \div call.unit
<1>1. call.unit \in 2 .. MinLength /\ call.sym \in 0 .. call.unit - 1
  BY DEF CallOK
<1>2. call.unit \in Nat \ {0} /\ call.sym \in Nat /\ call.sym + 1 \in 0 .. call.unit
  BY <1>1, CoderConstants
<1>3. q \in Nat
  BY <1>2, DivBounds
<1>4. OffsetIn(ms, len, call) = call.sym * q /\ PartIn(ms, len, call, n) = q
  BY DEF OffsetIn, PartIn
<1>5. (call.sym + 1) * q <= len
  BY <1>2, ScaledFits
<1> HIDE DEF q
<1>6. (call.sym + 1) * q = call.sym * q + q /\ call.sym * q \in Nat
  BY <1>2, <1>3
<1> QED BY <1>1, <1>3, <1>4, <1>5, <1>6 DEF q

\* The part of the interval that a call stands for is in the interval.
LEMMA PartsFit ==
  ASSUME NEW n \in 2 .. DMUnit, NEW ms, ModelsOK(ms, n), NEW len \in Nat,
         NEW call, CallOK(call, n)
  PROVE  /\ OffsetIn(ms, len, call) \in Nat
         /\ PartIn(ms, len, call, n) \in Nat
         /\ OffsetIn(ms, len, call) + PartIn(ms, len, call, n) <= len
<1> DEFINE o == OffsetIn(ms, len, call)
           r == PartIn(ms, len, call, n)
<1> HIDE DEF o, r
<1>1. CASE call.kind = "bit"
  <2>1. PICK p \in 0 .. len : /\ o = IF call.sym = 0 THEN 0 ELSE p
                              /\ r = IF call.sym = 0 THEN p ELSE len - p
    BY <1>1, BitParts DEF o, r
  <2>2. o \in Nat /\ r \in Nat /\ o + r <= len
    BY <2>1
  <2> QED BY <2>2 DEF o, r
<1>2. CASE call.kind = "symbol"
  <2> DEFINE q == len \div DMUnit
             a == ms.symbol.distribution[call.sym] * q
             b == ms.symbol.distribution[call.sym + 1] * q
  <2>1. /\ a \in 0 .. len /\ o = a
        /\ call.sym = n-1 => r = len - a
        /\ call.sym # n-1 => b \in 0 .. len /\ a <= b /\ r = b - a
    BY <1>2, SymbolParts DEF o, r
  <2> HIDE DEF a, b
  <2>2. o \in Nat /\ r \in Nat /\ o + r <= len
    BY <2>1
  <2> QED BY <2>2 DEF o, r
<1>3. CASE call.kind = "raw"
  <2> DEFINE q == len \div call.unit
             a == call.sym * q
  <2>1. q \in Nat /\ a \in Nat /\ a + q <= len /\ o = a /\ r = q
    BY <1>3, RawParts DEF o, r
  <2> HIDE DEF a, q
  <2>2. o \in Nat /\ r \in Nat /\ o + r <= len
    BY <2>1
  <2> QED BY <2>2 DEF o, r
<1> QED BY <1>1, <1>2, <1>3 DEF CallOK

\* A number below the end of the scale of the longest alphabet is in its table.
LEMMA TableReaches ==
  ASSUME NEW n \in 2 .. DMUnit,
         DMUnit <= (MinLength \div DMUnit) * (DMUnit \div TableSize(n)),
         NEW len \in Nat, len >= MinLength, NEW val \in Nat, val < len
  PROVE  (val \div (len \div DMUnit)) \div (DMUnit \div TableSize(n)) <= TableSize(n)
<1> DEFINE q     == len \div DMUnit
           least == MinLength \div DMUnit
           size  == TableSize(n)
           width == DMUnit \div TableSize(n)
           dv    == val \div q
<1>1. /\ size \in Nat \ {0} /\ width \in Nat \ {0} /\ DMUnit = size * width
      /\ DMUnit \in Nat \ {0} /\ DMUnit <= MinLength /\ MinLength \in Nat
  BY TableSizeDivides, CoderConstants
<1>2. least \in Nat \ {0} /\ DMUnit * least <= MinLength
  <2>1. least \in Nat /\ DMUnit * least <= MinLength
    BY <1>1, DivBounds
  <2>2. DMUnit * 1 <= MinLength
    BY <1>1
  <2>3. 1 <= least
    BY <1>1, <2>2, DivAtLeast
  <2> QED BY <2>1, <2>3
<1>3. q \in Nat /\ len < DMUnit * q + DMUnit
  BY <1>1, DivBounds
<1>4. least <= q
  <2>1. DMUnit * least <= len
    <3> DEFINE p == DMUnit * least
    <3>1. p \in Nat /\ p <= MinLength
      BY <1>1, <1>2
    <3> HIDE DEF p
    <3>2. p <= len
      BY <1>1, <3>1
    <3> QED BY <3>2 DEF p
  <2> HIDE DEF least
  <2> QED BY <1>1, <1>2, <2>1, DivAtLeast
<1>5. q \in Nat \ {0}
  BY <1>2, <1>3, <1>4
<1>6. dv \in Nat /\ q * dv <= val
  BY <1>5, DivBounds
<1>7. DMUnit <= q * width
  <2>1. DMUnit <= least * width
    OBVIOUS
  <2> HIDE DEF least, q, width
  <2>2. least * width \in Nat /\ q * width \in Nat /\ least * width <= q * width
    BY <1>1, <1>2, <1>3, <1>4, ProductRises
  <2> QED BY <1>1, <2>1, <2>2
<1> HIDE DEF least, q, size, width, dv
<1>8. dv < width * (size + 1)
  <2>1. SUFFICES ASSUME width * (size + 1) <= dv PROVE FALSE
    BY <1>1, <1>6
  <2>2. width * (size + 1) = DMUnit + width
    BY <1>1
  <2>3. q * (DMUnit + width) <= q * dv
    <3>1. DMUnit + width \in Nat /\ DMUnit + width <= dv
      BY <1>1, <2>1, <2>2
    <3>2. (DMUnit + width) * q <= dv * q
      BY <1>5, <1>6, <3>1, ProductRises
    <3>3. (DMUnit + width) * q = q * (DMUnit + width) /\ dv * q = q * dv
      BY <1>5, <1>6, <3>1
    <3> QED BY <3>2, <3>3
  <2>4. q * (DMUnit + width) = DMUnit * q + q * width
    BY <1>1, <1>5
  <2>5. DMUnit * q \in Nat /\ q * width \in Nat /\ q * dv \in Nat
    BY <1>1, <1>5, <1>6
  <2> DEFINE a == DMUnit * q
             b == q * width
             c == q * dv
  <2>6. /\ a \in Nat /\ b \in Nat /\ c \in Nat
        /\ a + b <= c /\ c <= val /\ len < a + DMUnit /\ DMUnit <= b
    BY <1>3, <1>6, <1>7, <2>3, <2>4, <2>5
  <2> HIDE DEF a, b, c
  <2> QED BY <2>6, <1>1
<1>9. dv \div width < size + 1
  <2>1. size + 1 \in Nat
    BY <1>1
  <2> QED BY <2>1, <1>1, <1>6, <1>8, DivLess
<1>10. dv \div width \in Nat
  BY <1>1, <1>6, DivBounds
<1>11. dv \div width <= size
  BY <1>1, <1>9, <1>10
<1> QED BY <1>11 DEF dv, q, width, size

\* A value in a call's part of the interval says which call was written there.
LEMMA DecodedIsEncoded ==
  ASSUME NEW n \in 2 .. DMUnit, NEW ms, ModelsOK(ms, n), NEW call, CallOK(call, n),
         n > TableFrom => DMUnit <= (MinLength \div DMUnit) * (DMUnit \div TableSize(n)),
         NEW len \in Nat, len >= MinLength, NEW val \in Nat,
         OffsetIn(ms, len, call) <= val,
         val < OffsetIn(ms, len, call) + PartIn(ms, len, call, n)
  PROVE  DecodedIn(ms, len, val, call, n) = call.sym
<1> DEFINE o == OffsetIn(ms, len, call)
           r == PartIn(ms, len, call, n)
<1> HIDE DEF o, r
<1>0. o <= val /\ val < o + r /\ o \in Nat /\ r \in Nat /\ o + r <= len
  BY PartsFit DEF o, r
<1>1. CASE call.kind = "bit"
  <2>1. PICK p \in 0 .. len : /\ p = ms.bit.bit_0_prob * (len \div BMUnit)
                              /\ call.sym \in {0, 1}
                              /\ o = IF call.sym = 0 THEN 0 ELSE p
                              /\ r = IF call.sym = 0 THEN p ELSE len - p
    BY <1>1, BitParts DEF o, r
  <2>2. DecodedIn(ms, len, val, call, n) = IF val >= p THEN 1 ELSE 0
    BY <1>1, <2>1 DEF DecodedIn
  <2> QED BY <1>0, <2>1, <2>2
<1>2. CASE call.kind = "symbol"
  <2> DEFINE sym == call.sym
             d   == ms.symbol.distribution
             q   == len \div DMUnit
             dv  == val \div q
  <2>1. /\ IsDistribution(d, n) /\ q \in Nat /\ sym \in 0 .. n-1
        /\ ms.symbol.symbols = n
        /\ d[sym] \in 0 .. DMUnit
        /\ o = d[sym] * q
        /\ sym # n-1 => /\ d[sym + 1] \in 0 .. DMUnit /\ d[sym + 1] * q \in Nat
                        /\ r = d[sym + 1] * q - d[sym] * q
    <3>1. /\ IsDistribution(d, n) /\ q \in Nat /\ sym \in 0 .. n-1
          /\ ms.symbol.symbols = n
          /\ d[sym] \in 0 .. DMUnit
          /\ OffsetIn(ms, len, call) = d[sym] * q
          /\ sym # n-1 => /\ d[sym + 1] \in 0 .. DMUnit /\ d[sym + 1] * q \in 0 .. len
                          /\ PartIn(ms, len, call, n) = d[sym + 1] * q - d[sym] * q
      BY <1>2, SymbolParts
    <3> HIDE DEF d, q, sym
    <3> QED BY <3>1 DEF o, r
  <2>2. q \in Nat \ {0}
    <3>1. DMUnit * 1 <= len
      BY CoderConstants
    <3>2. 1 <= q
      BY <3>1, CoderConstants, DivAtLeast
    <3> QED BY <2>1, <3>2
  <2>3. dv \in Nat
    BY <2>2, DivBounds
  <2>4. d[sym] <= dv
    <3>1. d[sym] \in Nat /\ q * d[sym] = d[sym] * q
      BY <2>1, <2>2, CoderConstants
    <3>2. q * d[sym] <= val
      BY <1>0, <2>1, <3>1
    <3> HIDE DEF d, sym, q
    <3> QED BY <2>2, <3>1, <3>2, DivAtLeast
  <2>5. ASSUME sym # n-1 PROVE d[sym + 1] > dv
    <3>1. d[sym + 1] \in Nat /\ q * d[sym + 1] = d[sym + 1] * q
      BY <2>1, <2>2, <2>5, CoderConstants
    <3>2. val < d[sym + 1] * q
      <4> DEFINE a == d[sym] * q
                 b == d[sym + 1] * q
      <4>1. b \in Nat /\ o = a /\ r = b - a
        BY <2>1, <2>5
      <4> HIDE DEF a, b
      <4>2. val < b
        BY <1>0, <4>1
      <4> QED BY <4>2 DEF b
    <3>3. val < q * d[sym + 1]
      BY <3>1, <3>2
    <3>4. dv < d[sym + 1]
      <4> HIDE DEF d, sym, q
      <4> QED BY <2>2, <3>1, <3>3, DivLess
    <3> QED BY <2>3, <3>1, <3>4
  <2>6. SymbolHas(d, n, sym, dv)
    BY <2>1, <2>4, <2>5 DEF SymbolHas
  <2>7. val < len
    BY <1>0
  <2>8. n > TableFrom => dv \div (DMUnit \div TableSize(n)) <= TableSize(n)
    BY <2>7, TableReaches
  <2>9. (n > TableFrom) \in BOOLEAN
    OBVIOUS
  <2>10. SymbolAt(ms.symbol, dv, n > TableFrom) = sym
    <3> DEFINE tabled == n > TableFrom
               m      == ms.symbol
    <3>1. tabled \in BOOLEAN
      BY <2>9
    <3>2. ~tabled \/ dv \div (DMUnit \div TableSize(n)) <= TableSize(n)
      BY <2>8
    <3>3. m.symbols = n /\ IsDistribution(m.distribution, n) /\ SymbolHas(m.distribution, n, sym, dv)
      BY <2>1, <2>6
    <3> HIDE DEF dv, sym, tabled, m
    <3>4. SymbolAt(m, dv, tabled) = sym
      BY <2>3, <3>1, <3>2, <3>3, SymbolAtFinds
    <3> QED BY <3>4 DEF tabled, m
  <2>11. DecodedIn(ms, len, val, call, n) = SymbolAt(ms.symbol, dv, n > TableFrom)
    BY <1>2 DEF DecodedIn
  <2> QED BY <2>10, <2>11
<1>3. CASE call.kind = "raw"
  <2> DEFINE q == len \div call.unit
  <2>1. /\ q \in Nat /\ call.unit \in 2 .. MinLength
        /\ call.sym \in 0 .. call.unit - 1
        /\ o = call.sym * q /\ r = q
    BY <1>3, RawParts DEF o, r
  <2>2. call.unit \in Nat \ {0} /\ call.sym \in Nat /\ call.unit * 1 <= len
    BY <2>1, CoderConstants
  <2>3. q \in Nat \ {0}
    <3>1. 1 <= q
      BY <2>2, DivAtLeast
    <3> QED BY <2>1, <3>1
  <2>4. DecodedIn(ms, len, val, call, n) = val \div q
    BY <1>3 DEF DecodedIn
  <2> HIDE DEF q
  <2>5. q * call.sym = call.sym * q /\ q * (call.sym + 1) = call.sym * q + q
    BY <2>2, <2>3
  <2>6. q * call.sym <= val /\ val < q * (call.sym + 1)
    BY <1>0, <2>1, <2>5
  <2>7. call.sym <= val \div q
    BY <2>2, <2>3, <2>6, DivAtLeast
  <2>8. val \div q < call.sym + 1
    <3>1. call.sym + 1 \in Nat
      BY <2>2
    <3> QED BY <2>3, <2>6, <3>1, DivLess
  <2>9. val \div q \in Nat
    BY <2>3, DivBounds
  <2> QED BY <2>2, <2>4, <2>7, <2>8, <2>9
<1> QED BY <1>1, <1>2, <1>3 DEF CallOK

\* Whatever the value is, what is decoded and not taken for corrupt is a call whose
\* part begins at the value or before.
LEMMA DecodedIsACall ==
  ASSUME NEW n \in 2 .. DMUnit, NEW ms, ModelsOK(ms, n), NEW call, CallOK(call, n),
         NEW len \in Nat, len >= MinLength, NEW val \in Nat,
         NEW sym, sym = DecodedIn(ms, len, val, call, n), ~Corrupted(call, sym)
  PROVE  /\ CallOK([call EXCEPT !.sym = sym], n)
         /\ OffsetIn(ms, len, [call EXCEPT !.sym = sym]) <= val
<1> DEFINE seen == [call EXCEPT !.sym = sym]
<1>1. seen = [kind |-> call.kind, sym |-> sym, unit |-> call.unit]
  BY DEF CallOK
<1>2. seen.kind = call.kind /\ seen.sym = sym /\ seen.unit = call.unit
  BY <1>1
<1> HIDE DEF seen
<1>3. CASE call.kind = "bit"
  <2>1. sym = IF val >= ms.bit.bit_0_prob * (len \div BMUnit) THEN 1 ELSE 0
    BY <1>3 DEF DecodedIn
  <2>2. CallOK(seen, n)
    BY <1>1, <1>2, <1>3, <2>1 DEF CallOK
  <2>3. PICK p \in 0 .. len : /\ p = ms.bit.bit_0_prob * (len \div BMUnit)
                              /\ OffsetIn(ms, len, seen) = IF seen.sym = 0 THEN 0 ELSE p
    BY <1>2, <1>3, <2>2, BitParts
  <2>4. OffsetIn(ms, len, seen) <= val
    <3>1. sym = IF val >= p THEN 1 ELSE 0
      BY <2>1, <2>3
    <3>2. OffsetIn(ms, len, seen) = IF sym = 0 THEN 0 ELSE p
      BY <1>2, <2>3
    <3> QED BY <3>1, <3>2
  <2> QED BY <2>2, <2>4 DEF seen
<1>4. CASE call.kind = "symbol"
  <2> DEFINE d  == ms.symbol.distribution
             q  == len \div DMUnit
             dv == val \div q
  <2>1. IsDistribution(d, n) /\ ms.symbol.symbols = n
    BY DEF ModelsOK, SymbolModelInv, SymbolFields
  <2>2. q \in Nat \ {0}
    <3>1. DMUnit * 1 <= len
      BY CoderConstants
    <3>2. 1 <= q
      BY <3>1, CoderConstants, DivAtLeast
    <3>3. q \in Nat
      BY CoderConstants, DivBounds
    <3> QED BY <3>2, <3>3
  <2>3. dv \in Nat /\ q * dv <= val
    BY <2>2, DivBounds
  <2>4. n \in Nat \ {0}
    BY CoderConstants
  <2> DEFINE tabled == n > TableFrom
             m      == ms.symbol
  <2>5. sym = SymbolAt(m, dv, tabled)
    BY <1>4 DEF DecodedIn
  <2>6. tabled \in BOOLEAN
    OBVIOUS
  <2> HIDE DEF dv
  <2>7. PICK s : SymbolHas(d, n, s, dv)
    BY <2>1, <2>3, <2>4, SymbolExists
  <2>8. sym \in {-1, s}
    <3>1. m.symbols = n /\ IsDistribution(m.distribution, n) /\ SymbolHas(m.distribution, n, s, dv)
      BY <2>1, <2>7
    <3> HIDE DEF m, tabled
    <3>2. dv \in Nat
      BY <2>3
    <3>3. SymbolAt(m, dv, tabled) \in {-1, s}
      BY <2>6, <3>1, <3>2, SymbolAtFinds
    <3> QED BY <2>5, <3>3
  <2>9. sym = s /\ sym \in 0 .. n-1
    BY <2>7, <2>8 DEF Corrupted, SymbolHas
  <2>10. CallOK(seen, n)
    BY <1>1, <1>2, <1>4, <2>9 DEF CallOK
  <2>11. OffsetIn(ms, len, seen) = d[sym] * q /\ d[sym] \in 0 .. DMUnit
    BY <1>2, <1>4, <2>10, SymbolParts
  <2>12. d[sym] <= dv
    BY <2>7, <2>9 DEF SymbolHas
  <2> HIDE DEF d, q
  <2>13. d[sym] * q <= dv * q /\ d[sym] * q \in Nat /\ dv * q \in Nat
    BY <2>2, <2>3, <2>11, <2>12, CoderConstants, ProductRises
  <2>14. dv * q = q * dv
    BY <2>2, <2>3
  <2> DEFINE a == d[sym] * q
             b == q * dv
  <2>15. a \in Nat /\ b \in Nat /\ a <= b /\ b <= val
    BY <2>3, <2>13, <2>14
  <2> HIDE DEF a, b
  <2>16. a <= val
    BY <2>15
  <2> QED BY <2>10, <2>11, <2>16 DEF a, seen
<1>5. CASE call.kind = "raw"
  <2> DEFINE q == len \div call.unit
  <2>1. call.unit \in 2 .. MinLength
    BY <1>5 DEF CallOK
  <2>2. call.unit \in Nat \ {0} /\ call.unit * 1 <= len
    BY <2>1, CoderConstants
  <2>3. q \in Nat \ {0}
    <3>1. 1 <= q
      BY <2>2, DivAtLeast
    <3>2. q \in Nat
      BY <2>2, DivBounds
    <3> QED BY <3>1, <3>2
  <2>4. sym = val \div q
    BY <1>5 DEF DecodedIn
  <2>5. sym \in Nat /\ q * sym <= val
    BY <2>3, <2>4, DivBounds
  <2>6. ~(sym >= call.unit)
    BY <1>5 DEF Corrupted
  <2>7. CallOK(seen, n)
    BY <1>1, <1>2, <1>5, <2>1, <2>2, <2>5, <2>6 DEF CallOK
  <2>8. OffsetIn(ms, len, seen) = sym * q
    BY <1>2, <1>5 DEF OffsetIn
  <2> HIDE DEF q
  <2>9. sym * q = q * sym
    BY <2>3, <2>5
  <2> QED BY <2>5, <2>7, <2>8, <2>9 DEF seen
<1> QED BY <1>3, <1>4, <1>5 DEF CallOK

------------------------------------------------------------------------------
(* The ring of output bytes *)

\* Going back from an index of the ring.
LEMMA RingBack ==
  ASSUME NEW K \in Nat \ {0}, NEW a \in 0 .. K-1, NEW j \in 0 .. K
  PROVE  (a - j) % K = IF j <= a THEN a - j ELSE a - j + K
<1>1. CASE j <= a
  <2>1. a - j \in 0 .. K-1
    BY <1>1
  <2>2. ASSUME NEW x \in 0 .. K-1 PROVE x % K = x
    BY <2>2
  <2> QED BY <1>1, <2>1, <2>2
<1>2. CASE ~(j <= a)
  <2>1. (a - j) + K \in 0 .. K-1 /\ a - j \in Int
    BY <1>2
  <2>2. ASSUME NEW x \in Int, x + K \in 0 .. K-1 PROVE x % K = x + K
    BY <2>2
  <2> QED BY <1>2, <2>1, <2>2
<1> QED BY <1>1, <1>2

\* The ring is a byte in each of its places, of which those from the half that was
\* last put out to the next one are pending.
RingIn(st, buf, at, end) ==
  /\ st \in Seq(0 .. Top)
  /\ buf \in [0 .. RingSize - 1 -> 0 .. Top]
  /\ at \in Nat /\ end \in {BufferSize, RingSize} /\ at < end

PendingIn(at, end) == IF end = RingSize THEN at ELSE at + BufferSize

\* The i-th of n digits that were put out or are pending.
DigitIn(st, buf, at, n, i) ==
  IF i <= Len(st) THEN st[i] ELSE buf[(at - (n - i + 1)) % RingSize]

\* The constants of the ring.
LEMMA RingConstants ==
  /\ BufferSize \in Nat \ {0} /\ RingSize = 2 * BufferSize /\ RingSize \in Nat \ {0}
  /\ BufferSize < RingSize
  /\ Top \in Nat /\ Top = Radix - 1 /\ Top >= 3 /\ Radix \in Nat
BY CoderAssumption DEF RingSize, Top

\* Less than the whole ring is pending.
LEMMA PendingFits ==
  ASSUME NEW st, NEW buf, NEW at, NEW end, RingIn(st, buf, at, end)
  PROVE  /\ PendingIn(at, end) \in 0 .. RingSize - 1
         /\ at \in 0 .. RingSize - 1
BY RingConstants DEF RingIn, PendingIn

\* A carry ends at the first byte that is not all ones.
LEMMA CarryEnds ==
  ASSUME RingIn(stream, outbuffer, outbyte, endbyte)
  PROVE  /\ CarryTo \in 1 .. RingSize + 1
         /\ CarryTo > RingSize \/ outbuffer[(outbyte - CarryTo) % RingSize] # Top
         /\ \A i \in 1 .. CarryTo - 1 : outbuffer[(outbyte - i) % RingSize] = Top
<1> DEFINE stops(j) == j > RingSize \/ outbuffer[(outbyte - j) % RingSize] # Top
           S == {j \in 1 .. RingSize + 1 : stops(j)}
           P(j) == /\ j > RingSize \/ outbuffer[(outbyte - j) % RingSize] # Top
                   /\ \A i \in 1 .. j - 1 : outbuffer[(outbyte - i) % RingSize] = Top
<1>1. RingSize + 1 \in S /\ S \subseteq Nat
  BY RingConstants
<1>2. PICK j \in S : \A k \in S : j <= k
  <2> HIDE DEF S
  <2> QED BY <1>1, LeastNatural
<1>3. ASSUME NEW i \in 1 .. j - 1 PROVE outbuffer[(outbyte - i) % RingSize] = Top
  <2>1. i \in 1 .. RingSize + 1 /\ ~(j <= i)
    BY <1>2, <1>3, RingConstants
  <2>2. i \notin S
    BY <1>2, <2>1
  <2>3. ~stops(i)
    BY <2>1, <2>2
  <2> QED BY <2>3
<1>4. j \in 1 .. RingSize + 1 /\ P(j)
  BY <1>2, <1>3
<1>5. CarryTo = CHOOSE k \in 1 .. RingSize + 1 : P(k)
  BY DEF CarryTo
<1>6. CarryTo \in 1 .. RingSize + 1 /\ P(CarryTo)
  <2> HIDE DEF P
  <2> QED BY <1>4, <1>5
<1> QED BY <1>6

\* The way back from a place of the ring leads to it.
LEMMA RingPlaces ==
  ASSUME NEW at \in 0 .. RingSize - 1, NEW j \in 1 .. RingSize
  PROVE  /\ (at - j) % RingSize \in 0 .. RingSize - 1
         /\ ((at - 1 - ((at - j) % RingSize)) % RingSize) + 1 = j
<1> DEFINE x == (at - j) % RingSize
<1>1. x = IF j <= at THEN at - j ELSE at - j + RingSize
  BY RingConstants, RingBack
<1>2. x \in 0 .. RingSize - 1
  BY <1>1, RingConstants
<1>3. at - 1 - x = at - (x + 1) /\ x + 1 \in 0 .. RingSize
  BY <1>1, <1>2, RingConstants
<1>4. (at - (x + 1)) % RingSize = IF x + 1 <= at THEN at - (x + 1) ELSE at - (x + 1) + RingSize
  BY <1>3, RingConstants, RingBack
<1> HIDE DEF x
<1>5. (at - 1 - x) % RingSize = j - 1
  BY <1>1, <1>2, <1>3, <1>4, RingConstants
<1> QED BY <1>2, <1>5 DEF x

\* The other way round, every place of the ring is some way back.
LEMMA RingWayBack ==
  ASSUME NEW at \in 0 .. RingSize - 1, NEW i \in 0 .. RingSize - 1
  PROVE  \E j \in 1 .. RingSize : j = ((at - 1 - i) % RingSize) + 1 /\ i = (at - j) % RingSize
<1>1. at - 1 - i = at - (i + 1) /\ i + 1 \in 0 .. RingSize
  BY RingConstants
<1>2. (at - (i + 1)) % RingSize = IF i + 1 <= at THEN at - (i + 1) ELSE at - (i + 1) + RingSize
  BY <1>1, RingConstants, RingBack
<1> DEFINE j == ((at - 1 - i) % RingSize) + 1
<1>3. j = IF i + 1 <= at THEN at - i ELSE at - i + RingSize
  BY <1>1, <1>2, RingConstants
<1>4. j \in 1 .. RingSize
  BY <1>3, RingConstants
<1>5. (at - j) % RingSize = IF j <= at THEN at - j ELSE at - j + RingSize
  <2>1. j \in 0 .. RingSize
    BY <1>4
  <2> HIDE DEF j
  <2> QED BY <2>1, RingConstants, RingBack
<1>6. (at - j) % RingSize = i
  <2> HIDE DEF j
  <2> QED BY <1>3, <1>4, <1>5, RingConstants
<1> QED BY <1>4, <1>6

\* What a carry makes of a byte so many places back.
LEMMA CarriedBytes ==
  ASSUME RingIn(stream, outbuffer, outbyte, endbyte), NEW j \in 1 .. RingSize
  PROVE  LET x == (outbyte - j) % RingSize
         IN /\ x \in 0 .. RingSize - 1
            /\ Carried[x] = IF j = CarryTo THEN outbuffer[x] + 1
                            ELSE IF j = CarryTo - RingSize THEN 1
                            ELSE IF j < CarryTo THEN 0 ELSE outbuffer[x]
<1> DEFINE x == (outbyte - j) % RingSize
<1>1. outbyte \in 0 .. RingSize - 1
  BY PendingFits
<1>2. x \in 0 .. RingSize - 1 /\ ((outbyte - 1 - x) % RingSize) + 1 = j
  BY <1>1, RingPlaces
<1> HIDE DEF x
<1>3. Carried[x] = IF j = CarryTo THEN outbuffer[x] + 1
                   ELSE IF j = CarryTo - RingSize THEN 1
                   ELSE IF j < CarryTo THEN 0 ELSE outbuffer[x]
  BY <1>2 DEF Carried
<1> QED BY <1>2, <1>3 DEF x

\* A carry leaves bytes, wherever it ends.
LEMMA CarriedIsARing ==
  ASSUME RingIn(stream, outbuffer, outbyte, endbyte)
  PROVE  RingIn(stream, Carried, outbyte, endbyte)
<1>1. outbyte \in 0 .. RingSize - 1
  BY PendingFits
<1>2. ASSUME NEW i \in 0 .. RingSize - 1 PROVE Carried[i] \in 0 .. Top
  <2>1. PICK j \in 1 .. RingSize : i = (outbyte - j) % RingSize
    BY <1>1, RingWayBack
  <2>2. Carried[i] = IF j = CarryTo THEN outbuffer[i] + 1
                     ELSE IF j = CarryTo - RingSize THEN 1
                     ELSE IF j < CarryTo THEN 0 ELSE outbuffer[i]
    BY <2>1, CarriedBytes
  <2>3. outbuffer[i] \in 0 .. Top
    BY DEF RingIn
  <2>4. j = CarryTo => outbuffer[i] # Top
    BY <2>1, CarryEnds, RingConstants
  <2> QED BY <2>2, <2>3, <2>4, RingConstants
<1>3. Carried = [i \in 0 .. RingSize - 1 |-> Carried[i]]
  BY DEF Carried
<1>4. Carried \in [0 .. RingSize - 1 -> 0 .. Top]
  <2> DEFINE c == Carried
  <2>1. c = [i \in 0 .. RingSize - 1 |-> c[i]] /\ \A i \in 0 .. RingSize - 1 : c[i] \in 0 .. Top
    BY <1>2, <1>3
  <2> HIDE DEF c
  <2>2. c \in [0 .. RingSize - 1 -> 0 .. Top]
    BY <2>1
  <2> QED BY <2>2 DEF c
<1> QED BY <1>4 DEF RingIn

\* The numbers that the first digits stand for, of none to all n.
Numbers(T, st, buf, at, n) ==
  /\ T \in [0 .. n -> Nat]
  /\ T[0] = 0
  /\ \A i \in 1 .. n : T[i] = T[i-1] * Radix + DigitIn(st, buf, at, n, i)

\* A pending digit is that many places back; all are bytes.
LEMMA DigitsAreBytes ==
  ASSUME NEW st, NEW buf, NEW at, NEW end, RingIn(st, buf, at, end),
         NEW n, n = Len(st) + PendingIn(at, end), NEW i \in 1 .. n
  PROVE  /\ n \in Nat /\ Len(st) \in Nat
         /\ DigitIn(st, buf, at, n, i) \in 0 .. Top
         /\ i > Len(st) =>
              /\ n - i + 1 \in 1 .. PendingIn(at, end)
              /\ n - i + 1 \in 1 .. RingSize - 1
              /\ DigitIn(st, buf, at, n, i) = buf[(at - (n - i + 1)) % RingSize]
              /\ (at - (n - i + 1)) % RingSize \in 0 .. RingSize - 1
<1>1. Len(st) \in Nat /\ PendingIn(at, end) \in 0 .. RingSize - 1 /\ at \in 0 .. RingSize - 1
  BY PendingFits DEF RingIn
<1>2. n \in Nat /\ i \in Nat
  BY <1>1, RingConstants
<1>3. CASE i <= Len(st)
  <2>1. st[i] \in 0 .. Top
    <3>1. st \in Seq(0 .. Top) /\ i \in 1 .. Len(st)
      BY <1>1, <1>2, <1>3 DEF RingIn
    <3>2. ASSUME NEW S, NEW s \in Seq(S), NEW k \in 1 .. Len(s) PROVE s[k] \in S
      OBVIOUS
    <3> QED BY <3>1, <3>2
  <2> QED BY <1>1, <1>2, <1>3, <2>1 DEF DigitIn
<1>4. CASE i > Len(st)
  <2>1. n - i + 1 \in 1 .. PendingIn(at, end)
    BY <1>1, <1>2, <1>4
  <2>2. n - i + 1 \in 1 .. RingSize - 1 /\ n - i + 1 \in 1 .. RingSize
    BY <1>1, <2>1, RingConstants
  <2>3. (at - (n - i + 1)) % RingSize \in 0 .. RingSize - 1
    BY <1>1, <2>2, RingPlaces
  <2>4. DigitIn(st, buf, at, n, i) = buf[(at - (n - i + 1)) % RingSize]
    BY <1>1, <1>2, <1>4 DEF DigitIn
  <2>5. buf[(at - (n - i + 1)) % RingSize] \in 0 .. Top
    BY <2>3 DEF RingIn
  <2> QED BY <1>1, <1>2, <2>1, <2>2, <2>3, <2>4, <2>5
<1> QED BY <1>1, <1>2, <1>3, <1>4

\* A carry that finds its end among the pending bytes adds one to the number of
\* all digits.
LEMMA CarryAddsOne ==
  ASSUME RingIn(stream, outbuffer, outbyte, endbyte),
         CarryTo <= PendingIn(outbyte, endbyte),
         NEW n, n = Len(stream) + PendingIn(outbyte, endbyte),
         NEW T, Numbers(T, stream, outbuffer, outbyte, n)
  PROVE  \E U : Numbers(U, stream, Carried, outbyte, n) /\ U[n] = T[n] + 1
<1> DEFINE c == CarryTo
           p == n - c + 1
           U == [i \in 0 .. n |-> IF i < p THEN T[i] ELSE T[i] + 1]
           D(i) == DigitIn(stream, outbuffer, outbyte, n, i)
           C(i) == DigitIn(stream, Carried, outbyte, n, i)
<1>1. Len(stream) \in Nat /\ PendingIn(outbyte, endbyte) \in 0 .. RingSize - 1
  BY PendingFits DEF RingIn
<1>2. c \in 1 .. RingSize - 1 /\ c <= PendingIn(outbyte, endbyte)
  BY <1>1, CarryEnds, RingConstants
<1>3. n \in Nat /\ p \in 1 .. n /\ p > Len(stream)
  BY <1>1, <1>2, RingConstants
<1>4. ASSUME NEW i \in 1 .. n
      PROVE  /\ D(i) \in 0 .. Top
             /\ i > p => D(i) = Top
             /\ C(i) = IF i < p THEN D(i) ELSE IF i = p THEN D(i) + 1 ELSE 0
  <2>1. D(i) \in 0 .. Top
    BY DigitsAreBytes
  <2>2. CASE i <= Len(stream)
    <3>1. D(i) = stream[i] /\ C(i) = stream[i] /\ i < p
      BY <1>1, <1>3, <2>2 DEF DigitIn
    <3> HIDE DEF D, C, p
    <3>2. i \in Nat /\ p \in Nat
      BY <1>3
    <3> QED BY <2>1, <3>1, <3>2
  <2>3. CASE i > Len(stream)
    <3> DEFINE j == n - i + 1
               x == (outbyte - j) % RingSize
    <3>1. j \in 1 .. RingSize - 1 /\ j \in 1 .. RingSize /\ D(i) = outbuffer[x]
      BY <2>3, DigitsAreBytes, RingConstants
    <3>2. C(i) = Carried[x]
      <4>1. RingIn(stream, Carried, outbyte, endbyte)
        BY CarriedIsARing
      <4> QED BY <2>3, <4>1, DigitsAreBytes
    <3> HIDE DEF j
    <3>3. Carried[x] = IF j = c THEN outbuffer[x] + 1
                       ELSE IF j = c - RingSize THEN 1
                       ELSE IF j < c THEN 0 ELSE outbuffer[x]
      BY <3>1, CarriedBytes
    <3>4. j < c => outbuffer[x] = Top
      <4>1. \A b \in 1 .. c - 1 : outbuffer[(outbyte - b) % RingSize] = Top
        BY CarryEnds
      <4>2. j < c => j \in 1 .. c - 1
        BY <1>2, <3>1, RingConstants
      <4> QED BY <4>1, <4>2
    <3>5. j # c - RingSize
      BY <1>2, <3>1, RingConstants
    <3>6. (j = c <=> i = p) /\ (j < c <=> i > p)
      BY <1>2, <1>3, RingConstants DEF j
    <3> HIDE DEF x, p, c, D, C
    <3>7. i \in Nat /\ p \in Nat
      BY <1>3
    <3> QED BY <2>1, <3>1, <3>2, <3>3, <3>4, <3>5, <3>6, <3>7
  <2> QED BY <1>1, <1>3, <2>2, <2>3
<1> HIDE DEF D, C, p, c
<1>5. T \in [0 .. n -> Nat] /\ T[0] = 0 /\ \A i \in 1 .. n : T[i] = T[i-1] * Radix + D(i)
  BY DEF Numbers, D
<1>6. U \in [0 .. n -> Nat] /\ U[0] = 0
  BY <1>3, <1>5
<1>7. ASSUME NEW i \in 1 .. n PROVE U[i] = U[i-1] * Radix + C(i)
  <2>1. i \in 0 .. n /\ i-1 \in 0 .. n /\ i \in Nat /\ p \in Nat
    BY <1>3
  <2>2. T[i] \in Nat /\ T[i-1] \in Nat /\ T[i] = T[i-1] * Radix + D(i)
    BY <1>5, <2>1
  <2>3. U[i] = (IF i < p THEN T[i] ELSE T[i] + 1) /\ U[i-1] = IF i-1 < p THEN T[i-1] ELSE T[i-1] + 1
    BY <2>1
  <2> HIDE DEF U
  <2>4. D(i) \in Nat /\ T[i-1] * Radix \in Nat
    BY <1>4, <2>2, RingConstants
  <2>5. CASE i < p
    <3>1. U[i] = T[i] /\ U[i-1] = T[i-1] /\ C(i) = D(i)
      BY <1>4, <2>1, <2>3, <2>5
    <3> QED BY <2>2, <3>1
  <2>6. CASE i = p
    <3>1. U[i] = T[i] + 1 /\ U[i-1] = T[i-1] /\ C(i) = D(i) + 1
      BY <1>4, <2>1, <2>3, <2>6
    <3> QED BY <2>2, <2>4, <3>1
  <2>7. CASE i > p
    <3>1. U[i] = T[i] + 1 /\ U[i-1] = T[i-1] + 1 /\ C(i) = 0 /\ D(i) = Radix - 1
      BY <1>4, <2>1, <2>3, <2>7, RingConstants
    <3>2. (T[i-1] + 1) * Radix = T[i-1] * Radix + Radix
      BY <2>2, RingConstants
    <3> DEFINE a == T[i-1] * Radix
    <3>3. U[i-1] * Radix = a + Radix
      BY <3>1, <3>2
    <3>4. a \in Nat /\ T[i] = a + D(i)
      BY <2>2, <2>4
    <3> HIDE DEF a
    <3>5. U[i] = a + Radix
      BY <3>1, <3>4, RingConstants
    <3>6. U[i-1] * Radix + C(i) = a + Radix
      BY <3>1, <3>3, <3>4, RingConstants
    <3> QED BY <3>5, <3>6
  <2> QED BY <2>1, <2>5, <2>6, <2>7
<1>8. Numbers(U, stream, Carried, outbyte, n)
  <2> HIDE DEF U
  <2> QED BY <1>6, <1>7 DEF Numbers, C
<1>9. U[n] = T[n] + 1
  BY <1>3
<1> QED BY <1>8, <1>9

\* Digits behind the others: the numbers go on with them.
LEMMA NumbersGoOn ==
  ASSUME NEW n \in Nat, NEW T, NEW st, NEW buf, NEW at, Numbers(T, st, buf, at, n),
         NEW st2, NEW buf2, NEW at2, NEW digit \in Nat,
         \A i \in 1 .. n : DigitIn(st2, buf2, at2, n + 1, i) = DigitIn(st, buf, at, n, i),
         DigitIn(st2, buf2, at2, n + 1, n + 1) = digit
  PROVE  \E U : /\ Numbers(U, st2, buf2, at2, n + 1)
                /\ U[n + 1] = T[n] * Radix + digit
                /\ \A i \in 0 .. n : U[i] = T[i]
<1> DEFINE U == [i \in 0 .. n + 1 |-> IF i = n + 1 THEN T[n] * Radix + digit ELSE T[i]]
<1>1. T \in [0 .. n -> Nat] /\ T[0] = 0
      /\ \A i \in 1 .. n : T[i] = T[i-1] * Radix + DigitIn(st, buf, at, n, i)
  BY DEF Numbers
<1>2. T[n] \in Nat /\ T[n] * Radix + digit \in Nat
  <2>1. T[n] \in Nat
    BY <1>1
  <2> QED BY <2>1, RingConstants
<1>3. U \in [0 .. n + 1 -> Nat]
  BY <1>1, <1>2
<1>4. /\ U[0] = 0 /\ U[n + 1] = T[n] * Radix + digit
      /\ \A i \in 0 .. n : U[i] = T[i]
  BY <1>1
<1> HIDE DEF U
<1>5. ASSUME NEW i \in 1 .. n + 1
      PROVE  U[i] = U[i-1] * Radix + DigitIn(st2, buf2, at2, n + 1, i)
  <2>1. CASE i = n + 1
    <3>1. i-1 = n /\ n \in 0 .. n
      BY <2>1
    <3> QED BY <1>4, <2>1, <3>1
  <2>2. CASE i # n + 1
    <3>1. i \in 1 .. n /\ i \in 0 .. n /\ i-1 \in 0 .. n
      BY <2>2
    <3> QED BY <1>1, <1>4, <3>1
  <2> QED BY <2>1, <2>2
<1>6. Numbers(U, st2, buf2, at2, n + 1)
  BY <1>3, <1>4, <1>5 DEF Numbers
<1> QED BY <1>4, <1>6

\* The place after the last one is the first.
LEMMA RingNext ==
  ASSUME NEW at \in 0 .. RingSize - 1
  PROVE  (at + 1) % RingSize = IF at + 1 = RingSize THEN 0 ELSE at + 1
<1>1. CASE at + 1 = RingSize
  <2>1. ASSUME NEW K \in Nat \ {0} PROVE K % K = 0
    BY <2>1
  <2> QED BY <1>1, <2>1, RingConstants
<1>2. CASE at + 1 # RingSize
  <2>1. at + 1 \in 0 .. RingSize - 1
    BY <1>2, RingConstants
  <2>2. ASSUME NEW K \in Nat \ {0}, NEW x \in 0 .. K-1 PROVE x % K = x
    BY <2>2
  <2> QED BY <1>2, <2>1, <2>2, RingConstants
<1> QED BY <1>1, <1>2

\* One place on, the ways back are one longer.
LEMMA RingBackFromNext ==
  ASSUME NEW at \in 0 .. RingSize - 1, NEW j \in 0 .. RingSize - 1
  PROVE  (((at + 1) % RingSize) - (j + 1)) % RingSize = (at - j) % RingSize
<1> DEFINE next == (at + 1) % RingSize
<1>1. next = IF at + 1 = RingSize THEN 0 ELSE at + 1
  BY RingNext
<1>2. next \in 0 .. RingSize - 1
  BY <1>1, RingConstants
<1> HIDE DEF next
<1>3. j + 1 \in 0 .. RingSize /\ j \in 0 .. RingSize
  BY RingConstants
<1>4. (next - (j + 1)) % RingSize = IF j + 1 <= next THEN next - (j + 1) ELSE next - (j + 1) + RingSize
  BY <1>2, <1>3, RingConstants, RingBack
<1>5. (at - j) % RingSize = IF j <= at THEN at - j ELSE at - j + RingSize
  BY <1>3, RingConstants, RingBack
<1>6. (next - (j + 1)) % RingSize = (at - j) % RingSize
  BY <1>1, <1>2, <1>4, <1>5, RingConstants
<1> QED BY <1>6 DEF next

\* A turn of the loop, as it leaves the ring (filled), the stream and the indices.
Turn(digit, filled, next, st2, at2, end2) ==
  /\ filled = [outbuffer EXCEPT ![outbyte] = digit]
  /\ next = (outbyte + 1) % RingSize
  /\ IF outbyte + 1 = endbyte
     THEN /\ st2 = stream \o [i \in 1 .. BufferSize |-> filled[next + i - 1]]
          /\ end2 = next + BufferSize
          /\ at2 = next
     ELSE st2 = stream /\ end2 = endbyte /\ at2 = outbyte + 1

\* The digit that renormalization puts into the ring follows all that are there,
\* whether or not half of the ring is put out.
LEMMA RenormRing ==
  ASSUME RingIn(stream, outbuffer, outbyte, endbyte), NEW digit \in 0 .. Top,
         NEW n, n = Len(stream) + PendingIn(outbyte, endbyte),
         NEW filled, NEW next, NEW st2, NEW at2, NEW end2,
         Turn(digit, filled, next, st2, at2, end2)
  PROVE  /\ n \in Nat
         /\ RingIn(st2, filled, at2, end2)
         /\ Len(st2) + PendingIn(at2, end2) = n + 1
         /\ \A i \in 1 .. n : DigitIn(st2, filled, at2, n + 1, i) = DigitIn(stream, outbuffer, outbyte, n, i)
         /\ DigitIn(st2, filled, at2, n + 1, n + 1) = digit
<1>0. /\ filled = [outbuffer EXCEPT ![outbyte] = digit]
      /\ next = (outbyte + 1) % RingSize
      /\ IF outbyte + 1 = endbyte
         THEN /\ st2 = stream \o [i \in 1 .. BufferSize |-> filled[next + i - 1]]
              /\ end2 = next + BufferSize
              /\ at2 = next
         ELSE st2 = stream /\ end2 = endbyte /\ at2 = outbyte + 1
  BY DEF Turn
<1> DEFINE m == Len(stream)
<1>1. /\ m \in Nat /\ PendingIn(outbyte, endbyte) \in 0 .. RingSize - 1
      /\ outbyte \in 0 .. RingSize - 1 /\ endbyte \in {BufferSize, RingSize}
      /\ outbyte < endbyte
      /\ n = m + PendingIn(outbyte, endbyte) /\ n \in Nat
  <2>1. /\ PendingIn(outbyte, endbyte) \in 0 .. RingSize - 1
        /\ outbyte \in 0 .. RingSize - 1
    BY PendingFits
  <2>2. m \in Nat /\ endbyte \in {BufferSize, RingSize} /\ outbyte < endbyte
    BY DEF RingIn
  <2>3. n \in Nat
    BY <2>1, <2>2, RingConstants
  <2> QED BY <2>1, <2>2, <2>3
<1> HIDE DEF m
<1>2. /\ filled \in [0 .. RingSize - 1 -> 0 .. Top]
      /\ filled[outbyte] = digit
      /\ \A x \in 0 .. RingSize - 1 : x # outbyte => filled[x] = outbuffer[x]
  BY <1>0, <1>1 DEF RingIn
<1>3. next = (IF outbyte + 1 = RingSize THEN 0 ELSE outbyte + 1) /\ next \in 0 .. RingSize - 1
  BY <1>0, <1>1, RingNext, RingConstants
<1>4. ASSUME NEW j \in 0 .. RingSize - 1
      PROVE  (next - (j + 1)) % RingSize = (outbyte - j) % RingSize
  BY <1>0, <1>1, <1>4, RingBackFromNext
<1>5. ASSUME NEW j \in 1 .. RingSize - 1
      PROVE  /\ (outbyte - j) % RingSize \in 0 .. RingSize - 1
             /\ (outbyte - j) % RingSize # outbyte
             /\ filled[(outbyte - j) % RingSize] = outbuffer[(outbyte - j) % RingSize]
  <2> DEFINE x == (outbyte - j) % RingSize
  <2>1. j \in 0 .. RingSize
    BY RingConstants
  <2>2. x = IF j <= outbyte THEN outbyte - j ELSE outbyte - j + RingSize
    BY <1>1, <2>1, RingConstants, RingBack
  <2> HIDE DEF x
  <2>3. x \in 0 .. RingSize - 1 /\ x # outbyte
    BY <1>1, <2>2, RingConstants
  <2>4. filled[x] = outbuffer[x]
    BY <1>2, <2>3
  <2> QED BY <2>3, <2>4 DEF x
<1>6. (outbyte - 0) % RingSize = outbyte
  <2>1. 0 \in 0 .. RingSize /\ 0 <= outbyte /\ outbyte - 0 = outbyte
    BY <1>1, RingConstants
  <2> QED BY <1>1, <2>1, RingConstants, RingBack
\* Digits that stay pending.
<1>7. ASSUME NEW i \in 1 .. n, i > m, i > Len(st2), Len(st2) \in Nat,
             (at2 - ((n - i + 1) + 1)) % RingSize = (next - ((n - i + 1) + 1)) % RingSize
      PROVE  DigitIn(st2, filled, at2, n + 1, i) = DigitIn(stream, outbuffer, outbyte, n, i)
  <2> DEFINE j == n - i + 1
             x == (outbyte - j) % RingSize
  <2>0. i > Len(stream)
    BY <1>7 DEF m
  <2>1. j \in 1 .. RingSize - 1 /\ j \in 0 .. RingSize - 1
    BY <2>0, DigitsAreBytes, RingConstants
  <2>2. DigitIn(stream, outbuffer, outbyte, n, i) = outbuffer[x]
    BY <2>0, <1>1 DEF DigitIn, m
  <2>3. n + 1 - i + 1 = j + 1
    BY <1>1
  <2>4. DigitIn(st2, filled, at2, n + 1, i) = filled[(at2 - (j + 1)) % RingSize]
    <3>1. ~(i <= Len(st2))
      BY <1>7, <1>1
    <3> HIDE DEF j
    <3> QED BY <1>0, <2>3, <3>1 DEF DigitIn
  <2>5. (at2 - (j + 1)) % RingSize = x
    <3>1. (at2 - (j + 1)) % RingSize = (next - (j + 1)) % RingSize
      BY <1>7
    <3> HIDE DEF j
    <3> QED BY <2>1, <3>1, <1>4
  <2> HIDE DEF j
  <2>6. filled[x] = outbuffer[x]
    BY <2>1, <1>5
  <2> QED BY <2>2, <2>4, <2>5, <2>6
<1>8. CASE outbyte + 1 # endbyte
  <2>1. st2 = stream /\ end2 = endbyte /\ at2 = outbyte + 1
    BY <1>0, <1>8
  <2>2. at2 < end2 /\ at2 \in Nat /\ at2 = next /\ at2 \in 0 .. RingSize - 1
    BY <1>1, <1>3, <1>8, <2>1, RingConstants
  <2>3. RingIn(st2, filled, at2, end2)
    BY <1>1, <1>2, <2>1, <2>2 DEF RingIn
  <2>4. Len(st2) + PendingIn(at2, end2) = n + 1
    BY <1>1, <2>1, RingConstants DEF PendingIn, m
  <2>5. ASSUME NEW i \in 1 .. n
        PROVE  DigitIn(st2, filled, at2, n + 1, i) = DigitIn(stream, outbuffer, outbyte, n, i)
    <3>1. CASE i <= m
      BY <3>1, <2>1 DEF DigitIn, m
    <3>2. CASE ~(i <= m)
      <4>1. i > m /\ i > Len(st2) /\ Len(st2) \in Nat
        BY <1>1, <2>1, <3>2 DEF m
      <4> QED BY <1>7, <2>2, <4>1
    <3> QED BY <3>1, <3>2
  <2>6. DigitIn(st2, filled, at2, n + 1, n + 1) = digit
    <3>1. ~(n + 1 <= Len(st2)) /\ n + 1 - (n + 1) + 1 = 0 + 1 /\ 0 \in 0 .. RingSize - 1
      BY <1>1, <2>1, RingConstants DEF m
    <3>2. (at2 - (0 + 1)) % RingSize = (outbyte - 0) % RingSize
      BY <1>4, <2>2, <3>1
    <3>3. DigitIn(st2, filled, at2, n + 1, n + 1) = filled[(at2 - (0 + 1)) % RingSize]
      BY <1>0, <3>1 DEF DigitIn
    <3> QED BY <1>2, <1>6, <3>2, <3>3
  <2> QED BY <1>1, <2>3, <2>4, <2>5, <2>6
<1>9. CASE outbyte + 1 = endbyte
  <2> DEFINE older == [i \in 1 .. BufferSize |-> filled[next + i - 1]]
  <2>1. st2 = stream \o older /\ end2 = next + BufferSize /\ at2 = next
    BY <1>0, <1>9
  <2>2. /\ next \in {0, BufferSize} /\ (next = 0 <=> endbyte = RingSize)
        /\ end2 \in {BufferSize, RingSize} /\ next < end2
    <3>1. CASE endbyte = RingSize
      BY <1>1, <1>3, <1>9, <2>1, <3>1, RingConstants
    <3>2. CASE endbyte = BufferSize
      <4>1. next = BufferSize
        BY <1>3, <1>9, <3>2, RingConstants
      <4>2. end2 = RingSize
        BY <2>1, <4>1, RingConstants
      <4>3. next # 0 /\ endbyte # RingSize /\ next < end2
        <5>1. BufferSize # 0 /\ BufferSize # RingSize /\ BufferSize < RingSize
          BY RingConstants
        <5>2. next # 0
          BY <4>1, <5>1
        <5>3. endbyte # RingSize
          BY <3>2, <5>1
        <5>4. next < end2
          BY <4>1, <4>2, <5>1
        <5> QED BY <5>2, <5>3, <5>4
      <4> QED BY <4>1, <4>2, <4>3
    <3> QED BY <1>1, <3>1, <3>2
  <2>3. ASSUME NEW r \in 1 .. BufferSize
        PROVE  /\ next + r - 1 \in 0 .. RingSize - 1
               /\ (outbyte - (RingSize - r)) % RingSize = next + r - 1
    <3>1. RingSize - r \in 0 .. RingSize /\ next + r - 1 \in 0 .. RingSize - 1
      BY <2>2, RingConstants
    <3>2. (outbyte - (RingSize - r)) % RingSize =
             IF RingSize - r <= outbyte THEN outbyte - (RingSize - r)
             ELSE outbyte - (RingSize - r) + RingSize
      <4> DEFINE j == RingSize - r
      <4>1. j \in 0 .. RingSize
        BY <3>1
      <4> HIDE DEF j
      <4>2. (outbyte - j) % RingSize = IF j <= outbyte THEN outbyte - j ELSE outbyte - j + RingSize
        BY <1>1, <4>1, RingConstants, RingBack
      <4> QED BY <4>2 DEF j
    <3>3. next + r - 1 = IF RingSize - r <= outbyte THEN outbyte - (RingSize - r)
                         ELSE outbyte - (RingSize - r) + RingSize
      <4>1. CASE endbyte = RingSize
        <5>1. next = 0 /\ outbyte = RingSize - 1
          BY <1>1, <1>9, <2>2, <4>1, RingConstants
        <5> QED BY <5>1, RingConstants
      <4>2. CASE endbyte = BufferSize
        <5>1. next = BufferSize /\ outbyte = BufferSize - 1
          BY <1>1, <1>9, <2>2, <4>2, RingConstants
        <5> QED BY <5>1, RingConstants
      <4> QED BY <1>1, <4>1, <4>2
    <3> QED BY <3>1, <3>2, <3>3
  <2>4. older \in Seq(0 .. Top) /\ Len(older) = BufferSize
    <3>1. ASSUME NEW r \in 1 .. BufferSize PROVE filled[next + r - 1] \in 0 .. Top
      BY <1>2, <2>3
    <3>2. older \in [1 .. BufferSize -> 0 .. Top]
      BY <3>1
    <3>3. BufferSize \in Nat
      BY RingConstants
    <3>4. ASSUME NEW S, NEW k \in Nat, NEW f \in [1 .. k -> S]
          PROVE  f \in Seq(S) /\ Len(f) = k
      OBVIOUS
    <3> HIDE DEF older
    <3> QED BY <3>2, <3>3, <3>4
  <2>5. /\ st2 \in Seq(0 .. Top) /\ Len(st2) = m + BufferSize
        /\ \A i \in 1 .. m : st2[i] = stream[i]
        /\ \A r \in 1 .. BufferSize : st2[m + r] = filled[next + r - 1]
    <3>1. stream \in Seq(0 .. Top)
      BY DEF RingIn
    <3>2. \A r \in 1 .. BufferSize : older[r] = filled[next + r - 1]
      OBVIOUS
    <3> HIDE DEF older
    <3>3. /\ st2 \in Seq(0 .. Top) /\ Len(st2) = m + BufferSize
          /\ \A i \in 1 .. m : st2[i] = stream[i]
      <4>1. ASSUME NEW S, NEW a \in Seq(S), NEW b \in Seq(S)
            PROVE  /\ a \o b \in Seq(S) /\ Len(a \o b) = Len(a) + Len(b)
                   /\ \A i \in 1 .. Len(a) : (a \o b)[i] = a[i]
        OBVIOUS
      <4> QED BY <2>1, <2>4, <3>1, <4>1 DEF m
    <3>4. ASSUME NEW r \in 1 .. BufferSize PROVE st2[m + r] = filled[next + r - 1]
      <4>1. m + r \in 1 .. m + BufferSize /\ m + r > m /\ (m + r) - m = r
        BY <1>1, RingConstants
      <4>2. st2[m + r] = older[(m + r) - m]
        <5>1. ASSUME NEW S, NEW a \in Seq(S), NEW b \in Seq(S), NEW i \in 1 .. Len(a) + Len(b),
                     i > Len(a)
              PROVE  (a \o b)[i] = b[i - Len(a)]
          BY <5>1
        <5> QED BY <2>1, <2>4, <3>1, <4>1, <5>1 DEF m
      <4> QED BY <3>2, <4>1, <4>2
    <3> QED BY <3>3, <3>4
  <2>6. RingIn(st2, filled, at2, end2)
    BY <1>0, <1>2, <1>3, <2>1, <2>2, <2>5, RingConstants DEF RingIn
  <2>7. Len(st2) + PendingIn(at2, end2) = n + 1
    <3>1. CASE endbyte = RingSize
      <4>1. next = 0 /\ outbyte = RingSize - 1 /\ PendingIn(outbyte, endbyte) = RingSize - 1
        BY <1>1, <1>9, <2>2, <3>1, RingConstants DEF PendingIn
      <4>2. PendingIn(at2, end2) = BufferSize
        BY <2>1, <4>1, RingConstants DEF PendingIn
      <4> QED BY <1>1, <2>5, <4>1, <4>2, RingConstants
    <3>2. CASE endbyte = BufferSize
      <4>1. /\ next = BufferSize /\ outbyte = BufferSize - 1
            /\ PendingIn(outbyte, endbyte) = RingSize - 1
        BY <1>1, <1>9, <2>2, <3>2, RingConstants DEF PendingIn
      <4>2. PendingIn(at2, end2) = BufferSize
        BY <2>1, <4>1, RingConstants DEF PendingIn
      <4> QED BY <1>1, <2>5, <4>1, <4>2, RingConstants
    <3> QED BY <1>1, <3>1, <3>2
  <2>8. n = m + RingSize - 1
    <3>1. PendingIn(outbyte, endbyte) = RingSize - 1
      BY <1>1, <1>9, RingConstants DEF PendingIn
    <3> QED BY <1>1, <3>1, RingConstants
  <2>9. ASSUME NEW i \in 1 .. n
        PROVE  DigitIn(st2, filled, at2, n + 1, i) = DigitIn(stream, outbuffer, outbyte, n, i)
    <3>1. CASE i <= m
      <4>1. i <= Len(st2) /\ i \in 1 .. m
        BY <1>1, <2>5, <3>1, RingConstants
      <4> QED BY <2>5, <3>1, <4>1 DEF DigitIn, m
    <3>2. CASE i > m /\ i <= m + BufferSize
      <4> DEFINE r == i - m
                 j == n - i + 1
      <4>1. r \in 1 .. BufferSize /\ i = m + r
        BY <1>1, <3>2, RingConstants
      <4>2. j = RingSize - r
        <5>1. ASSUME NEW a \in Int, NEW b \in Int, NEW c \in Int
              PROVE  ((a + (b - 1)) - c) + 1 = b - (c - a)
          OBVIOUS
        <5>2. m \in Int /\ RingSize \in Int /\ i \in Int /\ n = m + (RingSize - 1)
          <6>1. m \in Int /\ RingSize \in Int /\ i \in Int
            BY <1>1, RingConstants
          <6> QED BY <2>8, <6>1
        <5> QED BY <5>1, <5>2
      <4>3. DigitIn(stream, outbuffer, outbyte, n, i) = outbuffer[(outbyte - j) % RingSize]
        BY <1>1, <3>2 DEF DigitIn, m
      <4>4. DigitIn(st2, filled, at2, n + 1, i) = st2[i]
        BY <2>5, <3>2 DEF DigitIn
      <4>5. j \in 1 .. RingSize - 1
        BY <4>1, <4>2, RingConstants
      <4> HIDE DEF r, j
      <4>6. st2[i] = filled[next + r - 1]
        BY <2>5, <4>1
      <4>7. (outbyte - j) % RingSize = next + r - 1
        BY <2>3, <4>1, <4>2
      <4>8. filled[(outbyte - j) % RingSize] = outbuffer[(outbyte - j) % RingSize]
        BY <1>5, <4>5
      <4> QED BY <4>3, <4>4, <4>6, <4>7, <4>8
    <3>3. CASE i > m + BufferSize
      <4>1. i > m /\ i > Len(st2) /\ Len(st2) \in Nat
        BY <1>1, <2>5, <3>3, RingConstants
      <4> QED BY <1>7, <2>1, <4>1
    <3> QED BY <1>1, <3>1, <3>2, <3>3, RingConstants
  <2>10. DigitIn(st2, filled, at2, n + 1, n + 1) = digit
    <3>1. ~(n + 1 <= Len(st2)) /\ n + 1 - (n + 1) + 1 = 0 + 1 /\ 0 \in 0 .. RingSize - 1
      <4>1. n + 1 > Len(st2) /\ Len(st2) \in Nat
        <5>1. Len(st2) = m + BufferSize
          BY <2>5
        <5> HIDE DEF older
        <5> QED BY <1>1, <2>8, <5>1, RingConstants
      <4>2. n + 1 - (n + 1) + 1 = 0 + 1
        BY <1>1
      <4>3. 0 \in 0 .. RingSize - 1
        BY RingConstants
      <4> QED BY <1>1, <4>1, <4>2, <4>3
    <3>2. (at2 - (0 + 1)) % RingSize = (outbyte - 0) % RingSize
      BY <1>4, <2>1, <3>1
    <3>3. DigitIn(st2, filled, at2, n + 1, n + 1) = filled[(at2 - (0 + 1)) % RingSize]
      BY <1>0, <3>1 DEF DigitIn
    <3> QED BY <1>2, <1>6, <3>2, <3>3
  <2> QED BY <1>1, <2>6, <2>7, <2>9, <2>10
<1> QED BY <1>8, <1>9

\* Sequences one behind the other.
LEMMA Concat ==
  ASSUME NEW S, NEW a \in Seq(S), NEW b \in Seq(S)
  PROVE  /\ a \o b \in Seq(S) /\ Len(a) \in Nat /\ Len(b) \in Nat
         /\ Len(a \o b) = Len(a) + Len(b)
         /\ \A i \in 1 .. Len(a) : (a \o b)[i] = a[i]
         /\ \A i \in 1 .. Len(b) : (a \o b)[Len(a) + i] = b[i]
<1>1. /\ a \o b \in Seq(S) /\ Len(a) \in Nat /\ Len(b) \in Nat
      /\ Len(a \o b) = Len(a) + Len(b)
      /\ \A i \in 1 .. Len(a) : (a \o b)[i] = a[i]
  OBVIOUS
<1>2. ASSUME NEW i \in 1 .. Len(b) PROVE (a \o b)[Len(a) + i] = b[i]
  <2>1. Len(a) + i \in 1 .. Len(a) + Len(b) /\ Len(a) + i > Len(a) /\ (Len(a) + i) - Len(a) = i
    BY <1>1
  <2> QED BY <2>1
<1> QED BY <1>1, <1>2

\* A function on the first numbers is a sequence.
LEMMA FunctionIsSeq ==
  ASSUME NEW S, NEW k \in Nat, NEW f \in [1 .. k -> S]
  PROVE  f \in Seq(S) /\ Len(f) = k
OBVIOUS

\* What done() puts out are the digits, and zeros behind them.
LEMMA FlushedDigits ==
  ASSUME RingIn(stream, outbuffer, outbyte, endbyte),
         NEW n, n = Len(stream) + PendingIn(outbyte, endbyte),
         NEW zeros, zeros = IF another THEN 3 ELSE 2
  PROVE  /\ n \in Nat
         /\ Flushed \in Seq(0 .. Top)
         /\ Len(Flushed) = n + zeros
         /\ \A i \in 1 .. n : Flushed[i] = DigitIn(stream, outbuffer, outbyte, n, i)
         /\ \A i \in 1 .. zeros : Flushed[n + i] = 0
<1> DEFINE m     == Len(stream)
           older == IF endbyte = RingSize THEN <<>>
                    ELSE [i \in 1 .. BufferSize |-> outbuffer[BufferSize + i - 1]]
           newer == [i \in 1 .. outbyte |-> outbuffer[i - 1]]
           none  == IF another THEN <<0, 0, 0>> ELSE <<0, 0>>
           half  == IF endbyte = RingSize THEN 0 ELSE BufferSize
           a     == stream \o older
           b     == a \o newer
<1>1. /\ stream \in Seq(0 .. Top) /\ m \in Nat
      /\ outbyte \in 0 .. RingSize - 1 /\ endbyte \in {BufferSize, RingSize}
      /\ outbyte < endbyte /\ outbyte \in Nat
  <2>1. outbyte \in 0 .. RingSize - 1
    BY PendingFits
  <2>2. stream \in Seq(0 .. Top) /\ endbyte \in {BufferSize, RingSize} /\ outbyte < endbyte
    BY DEF RingIn
  <2>3. m \in Nat
    BY <2>2
  <2>4. outbyte \in Nat
    BY DEF RingIn
  <2> QED BY <2>1, <2>2, <2>3, <2>4
<1>2. half \in {0, BufferSize} /\ n = m + (half + outbyte) /\ n \in Nat /\ half \in Nat
  BY <1>1, RingConstants DEF PendingIn
<1>3. \A x \in 0 .. RingSize - 1 : outbuffer[x] \in 0 .. Top
  BY DEF RingIn
<1>4. older \in Seq(0 .. Top) /\ Len(older) = half
  <2>1. CASE endbyte = RingSize
    BY <2>1
  <2>2. CASE endbyte # RingSize
    <3> DEFINE f == [i \in 1 .. BufferSize |-> outbuffer[BufferSize + i - 1]]
    <3>1. ASSUME NEW i \in 1 .. BufferSize PROVE outbuffer[BufferSize + i - 1] \in 0 .. Top
      <4>1. BufferSize + i - 1 \in 0 .. RingSize - 1
        BY RingConstants
      <4> QED BY <1>3, <4>1
    <3>2. f \in [1 .. BufferSize -> 0 .. Top] /\ BufferSize \in Nat
      BY <3>1, RingConstants
    <3>3. older = f
      BY <2>2
    <3> HIDE DEF f, older
    <3> QED BY <2>2, <3>2, <3>3, FunctionIsSeq
  <2> QED BY <2>1, <2>2
<1>5. newer \in Seq(0 .. Top) /\ Len(newer) = outbyte
  <2>1. ASSUME NEW i \in 1 .. outbyte PROVE outbuffer[i - 1] \in 0 .. Top
    <3>1. i - 1 \in 0 .. RingSize - 1
      BY <1>1, RingConstants
    <3> QED BY <1>3, <3>1
  <2>2. newer \in [1 .. outbyte -> 0 .. Top]
    BY <2>1
  <2> HIDE DEF newer
  <2> QED BY <1>1, <2>2, FunctionIsSeq
<1>6. none \in Seq(0 .. Top) /\ Len(none) = zeros /\ \A i \in 1 .. zeros : none[i] = 0
  <2>1. 0 \in 0 .. Top
    BY RingConstants
  <2>2. CASE another
    <3>1. none = <<0, 0, 0>> /\ zeros = 3
      BY <2>2
    <3> HIDE DEF none
    <3>2. none \in Seq(0 .. Top) /\ Len(none) = 3 /\ none[1] = 0 /\ none[2] = 0 /\ none[3] = 0
      <4>1. ASSUME NEW S, 0 \in S
            PROVE  <<0, 0, 0>> \in Seq(S) /\ Len(<<0, 0, 0>>) = 3
        BY <4>1
      <4> QED BY <2>1, <3>1, <4>1
    <3> QED BY <3>1, <3>2
  <2>3. CASE ~another
    <3>1. none = <<0, 0>> /\ zeros = 2
      BY <2>3
    <3> HIDE DEF none
    <3>2. none \in Seq(0 .. Top) /\ Len(none) = 2 /\ none[1] = 0 /\ none[2] = 0
      <4>1. ASSUME NEW S, 0 \in S
            PROVE  <<0, 0>> \in Seq(S) /\ Len(<<0, 0>>) = 2
        BY <4>1
      <4> QED BY <2>1, <3>1, <4>1
    <3> QED BY <3>1, <3>2
  <2> QED BY <2>2, <2>3
<1>7. ASSUME NEW r \in 1 .. half PROVE older[r] = outbuffer[BufferSize + r - 1]
  <2>1. endbyte # RingSize /\ half = BufferSize
    BY <1>7
  <2> QED BY <1>7, <2>1
<1>8. \A r \in 1 .. outbyte : newer[r] = outbuffer[r - 1]
  OBVIOUS
<1>9. Flushed = b \o none
  BY DEF Flushed
<1> HIDE DEF older, newer, none, m
<1>10. /\ a \in Seq(0 .. Top) /\ Len(a) = m + half
       /\ \A i \in 1 .. m : a[i] = stream[i]
       /\ \A i \in 1 .. half : a[m + i] = older[i]
  BY <1>1, <1>4, Concat DEF m
<1> HIDE DEF a
<1>11. /\ b \in Seq(0 .. Top) /\ Len(b) = (m + half) + outbyte
       /\ \A i \in 1 .. m + half : b[i] = a[i]
       /\ \A i \in 1 .. outbyte : b[(m + half) + i] = newer[i]
  <2> DEFINE k == m + half
  <2> HIDE DEF half, k
  <2>1. a \in Seq(0 .. Top) /\ newer \in Seq(0 .. Top) /\ Len(a) = k /\ Len(newer) = outbyte
    BY <1>5, <1>10 DEF k
  <2>2. /\ b \in Seq(0 .. Top) /\ Len(b) = k + outbyte
        /\ \A i \in 1 .. k : b[i] = a[i]
        /\ \A i \in 1 .. outbyte : b[k + i] = newer[i]
    <3>1. k \in Nat /\ outbyte \in Nat
      BY <1>1, <1>2 DEF k
    <3>2. /\ a \o newer \in Seq(0 .. Top) /\ Len(a \o newer) = k + outbyte
          /\ \A i \in 1 .. k : (a \o newer)[i] = a[i]
          /\ \A i \in 1 .. outbyte : (a \o newer)[k + i] = newer[i]
      <4> DEFINE S == 0 .. Top
      <4>1. a \in Seq(S) /\ newer \in Seq(S) /\ Len(a) = k /\ Len(newer) = outbyte
        BY <2>1
      <4> HIDE DEF S
      <4>2. a \o newer \in Seq(S) /\ Len(a \o newer) = k + outbyte
        BY ONLY <4>1, <3>1
      <4>3. ASSUME NEW i \in 1 .. k PROVE (a \o newer)[i] = a[i]
        BY ONLY <4>1, <3>1
      <4>4. ASSUME NEW i \in 1 .. outbyte PROVE (a \o newer)[k + i] = newer[i]
        <5>1. k + i \in 1 .. k + outbyte /\ k + i > k /\ (k + i) - k = i
          BY ONLY <4>1, <3>1
        <5> QED BY ONLY <4>1, <3>1, <5>1
      <4> QED BY <4>2, <4>3, <4>4 DEF S
    <3> QED BY <3>2
  <2> QED BY <2>2 DEF k
<1> HIDE DEF b, half
<1>12. (m + half) + outbyte = n
  BY <1>1, <1>2
<1>13. /\ Flushed \in Seq(0 .. Top) /\ Len(Flushed) = n + zeros
       /\ \A i \in 1 .. n : Flushed[i] = b[i]
       /\ \A i \in 1 .. zeros : Flushed[n + i] = 0
  <2>1. b \in Seq(0 .. Top) /\ Len(b) = n
    BY <1>11, <1>12
  <2>2. none \in Seq(0 .. Top) /\ Len(none) = zeros
    BY <1>6
  <2>3. /\ Flushed \in Seq(0 .. Top) /\ Len(Flushed) = n + zeros
        /\ \A i \in 1 .. n : Flushed[i] = b[i]
        /\ \A i \in 1 .. zeros : Flushed[n + i] = none[i]
    <3>1. n \in Nat /\ zeros \in Nat
      BY <1>2
    <3>2. /\ b \o none \in Seq(0 .. Top) /\ Len(b \o none) = n + zeros
          /\ \A i \in 1 .. n : (b \o none)[i] = b[i]
          /\ \A i \in 1 .. zeros : (b \o none)[n + i] = none[i]
      <4> DEFINE S == 0 .. Top
      <4>1. b \in Seq(S) /\ none \in Seq(S) /\ Len(b) = n /\ Len(none) = zeros
        BY <2>1, <2>2
      <4> HIDE DEF S
      <4>2. b \o none \in Seq(S) /\ Len(b \o none) = n + zeros
        BY ONLY <4>1, <3>1
      <4>3. ASSUME NEW i \in 1 .. n PROVE (b \o none)[i] = b[i]
        BY ONLY <4>1, <3>1
      <4>4. ASSUME NEW i \in 1 .. zeros PROVE (b \o none)[n + i] = none[i]
        <5>1. n + i \in 1 .. n + zeros /\ n + i > n /\ (n + i) - n = i
          BY ONLY <4>1, <3>1
        <5> QED BY ONLY <4>1, <3>1, <5>1
      <4> QED BY <4>2, <4>3, <4>4 DEF S
    <3> QED BY <1>9, <3>2
  <2> QED BY <1>6, <2>3
<1>14. ASSUME NEW i \in 1 .. n PROVE b[i] = DigitIn(stream, outbuffer, outbyte, n, i)
  <2> DEFINE j == n - i + 1
  <2>1. CASE i <= m
    <3>1. i \in 1 .. m /\ i \in 1 .. m + half
      BY <1>1, <1>2, <2>1
    <3>2. DigitIn(stream, outbuffer, outbyte, n, i) = stream[i]
      BY <2>1 DEF DigitIn, m
    <3> QED BY <1>10, <1>11, <3>1, <3>2
  <2>2. CASE i > m
    <3>1. DigitIn(stream, outbuffer, outbyte, n, i) = outbuffer[(outbyte - j) % RingSize]
      BY <1>1, <2>2 DEF DigitIn, m
    <3>2. j \in 1 .. half + outbyte
      BY <1>1, <1>2, <2>2
    <3>3. j \in 0 .. RingSize
      BY <1>1, <1>2, <3>2, RingConstants DEF half
    <3> HIDE DEF j
    <3>4. (outbyte - j) % RingSize = IF j <= outbyte THEN outbyte - j ELSE outbyte - j + RingSize
      BY <1>1, <3>3, RingConstants, RingBack
    <3>5. CASE i <= m + half
      <4> DEFINE r == i - m
      <4>1. r \in 1 .. half /\ i = m + r /\ i \in 1 .. m + half
        BY <1>1, <1>2, <2>2, <3>5
      <4>2. half = BufferSize
        BY <1>2, <4>1
      <4>3. j = (BufferSize + outbyte - r) + 1 /\ j > outbyte
        BY <1>1, <1>2, <4>1, <4>2 DEF j
      <4> HIDE DEF r
      <4>4. outbyte - j + RingSize = BufferSize + r - 1
        <5>1. outbyte \in Int /\ r \in Int /\ RingSize = 2 * BufferSize /\ BufferSize \in Int
          BY <1>1, <1>2, <4>1, RingConstants
        <5> QED BY <4>3, <5>1
      <4>5. ~(j <= outbyte)
        BY <1>1, <3>3, <4>3, RingConstants
      <4>6. (outbyte - j) % RingSize = BufferSize + r - 1
        BY <3>4, <4>4, <4>5
      <4>7. b[i] = outbuffer[BufferSize + r - 1]
        BY <1>7, <1>10, <1>11, <4>1
      <4> QED BY <3>1, <4>6, <4>7
    <3>6. CASE i > m + half
      <4> DEFINE r == i - (m + half)
      <4>1. r \in 1 .. outbyte /\ i = (m + half) + r
        BY <1>1, <1>2, <3>6
      <4>2. j = outbyte - r + 1
        BY <1>1, <1>2, <4>1 DEF j
      <4> HIDE DEF r
      <4>3. j <= outbyte /\ outbyte - j = r - 1
        BY <1>1, <4>1, <4>2
      <4>4. (outbyte - j) % RingSize = r - 1
        BY <3>4, <4>3
      <4>5. b[i] = outbuffer[r - 1]
        BY <1>8, <1>11, <4>1
      <4> QED BY <3>1, <4>4, <4>5
    <3> QED BY <1>1, <1>2, <3>5, <3>6
  <2> QED BY <1>1, <2>1, <2>2
<1> QED BY <1>2, <1>13, <1>14

------------------------------------------------------------------------------
(* Digits shifted out of a word and into one *)

\* A quotient and a remainder determine what the operators give.
LEMMA Remainder ==
  ASSUME NEW x \in Nat, NEW d \in Nat \ {0}, NEW q \in Nat, NEW r \in Nat,
         x = d * q + r, r < d
  PROVE  x % d = r /\ x \div d = q
<1>1. x \div d \in Nat /\ x % d \in Nat /\ x = d * (x \div d) + (x % d)
  OBVIOUS
<1>2. x \div d = q
  <2>1. d * q <= x /\ x < d * (q + 1)
    <3>1. d * (q + 1) = d * q + d /\ d * q \in Nat
      OBVIOUS
    <3> DEFINE p == d * q
    <3>2. x = p + r /\ p \in Nat /\ d * (q + 1) = p + d
      BY <3>1
    <3> HIDE DEF p
    <3>3. p <= x /\ x < p + d
      BY <3>2
    <3> QED BY <3>2, <3>3 DEF p
  <2>2. q <= x \div d
    BY <2>1, DivAtLeast
  <2>3. x \div d < q + 1
    <3>1. q + 1 \in Nat
      OBVIOUS
    <3> QED BY <2>1, <3>1, DivLess
  <2> QED BY <1>1, <2>2, <2>3
<1>3. x % d = r
  <2> DEFINE p == d * q
             y == x % d
  <2>1. x = p + y /\ x = p + r /\ p \in Nat /\ y \in Nat
    <3>1. y \in Nat
      BY <1>1
    <3>2. p \in Nat
      OBVIOUS
    <3> HIDE DEF y
    <3>3. x = p + y
      BY <1>1, <1>2 DEF y
    <3> QED BY <3>1, <3>2, <3>3
  <2> HIDE DEF p, y
  <2>2. y = r
    BY <2>1
  <2> QED BY <2>2 DEF y
<1> QED BY <1>2, <1>3

\* The encoder's turn: the uppermost digit leaves the word.
LEMMA ShiftOut ==
  ASSUME NEW b \in 0 .. Word - 1
  PROVE  /\ b \div MinLength \in 0 .. Top
         /\ (b * Radix) % Word \in 0 .. Word - 1
         /\ b * Radix = (b \div MinLength) * Word + ((b * Radix) % Word)
<1> DEFINE d == b \div MinLength
           r == b - MinLength * d
<1>0. /\ MinLength \in Nat \ {0} /\ Word \in Nat \ {0} /\ Word = Radix * MinLength
      /\ Radix \in Nat \ {0} /\ b \in Nat /\ b < Word
  BY CoderConstants
<1>1. d \in Nat /\ MinLength * d <= b /\ b < MinLength * d + MinLength
  BY <1>0, DivBounds
<1>2. d < Radix
  <2>1. b < MinLength * Radix
    BY <1>0
  <2> QED BY <1>0, <2>1, DivLess
<1>3. r \in Nat /\ r < MinLength /\ b = MinLength * d + r
  <2> DEFINE p == MinLength * d
  <2>1. p \in Nat /\ p <= b /\ b < p + MinLength
    BY <1>0, <1>1
  <2> HIDE DEF p
  <2>2. b - p \in Nat /\ b - p < MinLength /\ b = p + (b - p)
    BY <1>0, <2>1
  <2> QED BY <2>2 DEF p
<1> HIDE DEF d, r
<1>4. b * Radix = Word * d + r * Radix
  <2>1. (MinLength * d + r) * Radix = (MinLength * d) * Radix + r * Radix
    <3>1. MinLength * d \in Nat
      BY <1>0, <1>1
    <3> QED BY <1>0, <1>3, <3>1
  <2>2. (MinLength * d) * Radix = (Radix * MinLength) * d
    BY <1>0, <1>1
  <2> QED BY <1>0, <1>3, <2>1, <2>2
<1>5. r * Radix \in Nat /\ r * Radix < Word
  <2>1. r * Radix \in Nat
    BY <1>0, <1>3
  <2>2. (r + 1) * Radix <= MinLength * Radix
    <3>1. r + 1 \in Nat /\ r + 1 <= MinLength
      BY <1>0, <1>3
    <3> QED BY <1>0, <3>1, ProductRises
  <2>3. (r + 1) * Radix = r * Radix + Radix /\ MinLength * Radix = Word
    BY <1>0, <1>3
  <2> DEFINE p == r * Radix
  <2>4. p \in Nat /\ p + Radix <= Word
    BY <2>1, <2>2, <2>3
  <2> HIDE DEF p
  <2>5. p < Word
    BY <1>0, <2>4
  <2> QED BY <2>1, <2>5 DEF p
<1>6. (b * Radix) % Word = r * Radix
  <2>1. b * Radix \in Nat
    BY <1>0
  <2> QED BY <1>0, <1>1, <1>4, <1>5, <2>1, Remainder
<1>7. d * Word = Word * d
  BY <1>0, <1>1
<1>8. (b * Radix) % Word \in 0 .. Word - 1
  <2> DEFINE p == r * Radix
  <2>1. p \in Nat /\ p < Word /\ (b * Radix) % Word = p
    BY <1>5, <1>6
  <2> HIDE DEF p
  <2> QED BY <1>0, <2>1
<1>9. d \in 0 .. Top
  BY <1>0, <1>1, <1>2, RingConstants
<1> QED BY <1>4, <1>6, <1>7, <1>8, <1>9 DEF d

\* The decoder's turn: there is room for a digit below the others.
LEMMA ShiftIn ==
  ASSUME NEW v \in 0 .. Word - 1, NEW digit \in 0 .. Top
  PROVE  /\ ((v * Radix) % Word) + digit \in 0 .. Word - 1
         /\ v < MinLength => (v * Radix) % Word = v * Radix
<1>0. /\ MinLength \in Nat \ {0} /\ Word \in Nat \ {0} /\ Word = Radix * MinLength
      /\ Radix \in Nat \ {0} /\ v \in Nat /\ v < Word /\ digit \in Nat /\ digit < Radix
  BY CoderConstants, RingConstants
<1> DEFINE d == v \div MinLength
           r == v - MinLength * d
<1>1. d \in Nat /\ MinLength * d <= v /\ v < MinLength * d + MinLength
  BY <1>0, DivBounds
<1>3. r \in Nat /\ r < MinLength /\ v = MinLength * d + r
  <2> DEFINE p == MinLength * d
  <2>1. p \in Nat /\ p <= v /\ v < p + MinLength
    BY <1>0, <1>1
  <2> HIDE DEF p
  <2>2. v - p \in Nat /\ v - p < MinLength /\ v = p + (v - p)
    BY <1>0, <2>1
  <2> QED BY <2>2 DEF p
<1>4. v < MinLength => r = v
  <2>1. ASSUME v < MinLength PROVE d = 0
    <3>1. v < MinLength * 1
      BY <1>0, <2>1
    <3>2. d < 1
      BY <1>0, <3>1, DivLess
    <3> QED BY <1>1, <3>2
  <2>2. d = 0 => r = v
    <3>1. MinLength * 0 = 0
      BY <1>0
    <3> HIDE DEF d
    <3>2. ASSUME d = 0 PROVE r = v
      <4>1. MinLength * d = 0
        BY <3>1, <3>2
      <4> QED BY <1>0, <4>1
    <3> QED BY <3>2
  <2> QED BY <2>1, <2>2
<1> HIDE DEF d, r
<1>5. v * Radix = Word * d + r * Radix
  <2>1. (MinLength * d + r) * Radix = (MinLength * d) * Radix + r * Radix
    <3>1. MinLength * d \in Nat
      BY <1>0, <1>1
    <3> QED BY <1>0, <1>3, <3>1
  <2>2. (MinLength * d) * Radix = (Radix * MinLength) * d
    BY <1>0, <1>1
  <2> QED BY <1>0, <1>3, <2>1, <2>2
<1>6. r * Radix \in Nat /\ r * Radix + Radix <= Word
  <2>1. r * Radix \in Nat
    BY <1>0, <1>3
  <2>2. (r + 1) * Radix <= MinLength * Radix
    <3>1. r + 1 \in Nat /\ r + 1 <= MinLength
      BY <1>0, <1>3
    <3> QED BY <1>0, <3>1, ProductRises
  <2>3. (r + 1) * Radix = r * Radix + Radix /\ MinLength * Radix = Word
    BY <1>0, <1>3
  <2> QED BY <2>1, <2>2, <2>3
<1> DEFINE p == r * Radix
<1>7. (v * Radix) % Word = p
  <2>1. v * Radix \in Nat
    BY <1>0
  <2>2. p \in Nat /\ p < Word
    <3>1. p \in Nat /\ p + Radix <= Word
      BY <1>6
    <3> HIDE DEF p
    <3> QED BY <1>0, <3>1
  <2> QED BY <1>0, <1>1, <1>5, <2>1, <2>2, Remainder
<1>8. p \in Nat /\ p + Radix <= Word
  BY <1>6
<1>9. v < MinLength => p = v * Radix
  BY <1>4
<1> HIDE DEF p
<1>10. p + digit \in 0 .. Word - 1
  BY <1>0, <1>8
<1> QED BY <1>7, <1>9, <1>10

\* The carry leaves the word: the interval's beginning is its sum with the number
\* of the digits put out.
LEMMA SumCarries ==
  ASSUME NEW b \in 0 .. Word - 1, NEW o \in 0 .. Word - 1
  PROVE  /\ (b + o) % Word \in 0 .. Word - 1
         /\ (b + o) % Word < b => (b + o) % Word = (b + o) - Word
         /\ ~((b + o) % Word < b) => (b + o) % Word = b + o
<1>0. Word \in Nat \ {0} /\ b \in Nat /\ b < Word /\ o \in Nat /\ o < Word
  BY CoderConstants
<1>1. CASE b + o < Word
  <2>1. b + o \in Nat /\ b + o = Word * 0 + (b + o)
    BY <1>0
  <2>2. (b + o) % Word = b + o
    BY <1>0, <1>1, <2>1, Remainder
  <2> QED BY <1>0, <1>1, <2>2
<1>2. CASE ~(b + o < Word)
  <2>1. b + o \in Nat /\ (b + o) - Word \in Nat /\ (b + o) - Word < Word
    BY <1>0, <1>2
  <2>2. b + o = Word * 1 + ((b + o) - Word)
    BY <1>0
  <2>3. (b + o) % Word = (b + o) - Word
    BY <1>0, <2>1, <2>2, Remainder
  <2> QED BY <1>0, <1>2, <2>1, <2>3
<1> QED BY <1>1, <1>2

------------------------------------------------------------------------------
(* The intervals of the encoder, one after the other *)

\* A stage is an interval that the encoder has had: how many digits were before it
\* (at), its beginning as a number of those and a word (low), its length (len),
\* the models and how many calls were coded then.
StageOK(e, w, n) ==
  /\ e.at \in Nat /\ e.low \in Nat /\ e.len \in 0 .. Word - 1
  /\ ModelsOK(e.ms, n) /\ e.calls \in 0 .. Len(w)

\* The next stage is the part for the next call ...
Narrowed(e, f, w, n) ==
  /\ e.len >= MinLength /\ e.calls < Len(w)
  /\ f.at = e.at
  /\ f.low = e.low + OffsetIn(e.ms, e.len, w[e.calls + 1])
  /\ f.len = PartIn(e.ms, e.len, w[e.calls + 1], n)
  /\ f.ms = CodedIn(e.ms, w[e.calls + 1])
  /\ f.calls = e.calls + 1

\* ... or the same one, a digit further.
Renormed(e, f) ==
  /\ e.len < MinLength
  /\ f.at = e.at + 1
  /\ f.low = e.low * Radix /\ f.len = e.len * Radix
  /\ f.ms = e.ms /\ f.calls = e.calls

\* The stages 0 to m of a coder that has written w with n symbols.
History(h, m, w, n) ==
  /\ m \in Nat
  /\ \A i \in 0 .. m : StageOK(h[i], w, n) /\ h[i].at <= h[m].at
  /\ h[0].at = 0 /\ h[0].low = 0 /\ h[0].len = Word - 1 /\ h[0].calls = 0
  /\ h[0].ms = [bit |-> NewBitModel, symbol |-> NewModel(n)]
  /\ \A i \in 0 .. m - 1 : Narrowed(h[i], h[i + 1], w, n) \/ Renormed(h[i], h[i + 1])

\* What has been written: calls of the coder.
CallSet(n) == {call \in [kind : {"bit", "symbol", "raw"}, sym : Nat, unit : Nat] : CallOK(call, n)}

\* More that is written leaves the history as it is.
LEMMA HistoryOfMore ==
  ASSUME NEW n, NEW w \in Seq(CallSet(n)), NEW h, NEW m, History(h, m, w, n),
         NEW call \in CallSet(n)
  PROVE  History(h, m, Append(w, call), n)
<1> DEFINE v == Append(w, call)
<1>1. /\ Len(w) \in Nat /\ Len(v) = Len(w) + 1
      /\ \A k \in 1 .. Len(w) : v[k] = w[k]
  OBVIOUS
<1> HIDE DEF v
<1>2. ASSUME NEW e, StageOK(e, w, n) PROVE StageOK(e, v, n)
  BY <1>1, <1>2 DEF StageOK
<1>3. ASSUME NEW e, NEW f, StageOK(e, w, n), Narrowed(e, f, w, n)
      PROVE  Narrowed(e, f, v, n)
  <2>1. e.calls \in Nat /\ e.calls < Len(w) /\ e.calls + 1 \in 1 .. Len(w)
    BY <1>1, <1>3 DEF StageOK, Narrowed
  <2>2. v[e.calls + 1] = w[e.calls + 1] /\ e.calls < Len(v)
    BY <1>1, <2>1
  <2> QED BY <1>3, <2>2 DEF Narrowed
<1>4. ASSUME NEW i \in 0 .. m - 1
      PROVE  Narrowed(h[i], h[i + 1], v, n) \/ Renormed(h[i], h[i + 1])
  <2>1. i \in 0 .. m
    BY DEF History
  <2> QED BY <1>3, <2>1 DEF History
<1>5. ASSUME NEW i \in 0 .. m PROVE StageOK(h[i], v, n) /\ h[i].at <= h[m].at
  BY <1>2 DEF History
<1> QED BY <1>4, <1>5 DEF History, v

\* A history goes on with any stage that follows its last.
LEMMA HistoryGoesOn ==
  ASSUME NEW n, NEW w, NEW h, NEW m, History(h, m, w, n),
         NEW f, StageOK(f, w, n), Narrowed(h[m], f, w, n) \/ Renormed(h[m], f)
  PROVE  \E g : History(g, m + 1, w, n) /\ g[m + 1] = f
<1> DEFINE g == [i \in 0 .. m + 1 |-> IF i = m + 1 THEN f ELSE h[i]]
<1>1. m \in Nat /\ m \in 0 .. m
  BY DEF History
<1>2. g[m + 1] = f /\ \A i \in 0 .. m : g[i] = h[i]
  BY <1>1
<1> HIDE DEF g
<1>3. h[m].at <= f.at /\ h[m].at \in Nat /\ f.at \in Nat
  <2>1. h[m].at \in Nat /\ f.at \in Nat
    BY <1>1 DEF History, StageOK
  <2> QED BY <2>1 DEF Narrowed, Renormed
<1>4. ASSUME NEW i \in 0 .. m + 1 PROVE StageOK(g[i], w, n) /\ g[i].at <= g[m + 1].at
  <2>1. CASE i = m + 1
    BY <1>2, <1>3, <2>1
  <2>2. CASE i # m + 1
    <3>1. i \in 0 .. m
      BY <1>1, <2>2
    <3>2. StageOK(h[i], w, n) /\ h[i].at <= h[m].at /\ h[i].at \in Nat
      BY <3>1 DEF History, StageOK
    <3> QED BY <1>2, <1>3, <3>1, <3>2
  <2> QED BY <2>1, <2>2
<1>5. ASSUME NEW i \in 0 .. (m + 1) - 1
      PROVE  Narrowed(g[i], g[i + 1], w, n) \/ Renormed(g[i], g[i + 1])
  <2>1. CASE i = m
    BY <1>1, <1>2, <2>1
  <2>2. CASE i # m
    <3>1. i \in 0 .. m /\ i + 1 \in 0 .. m /\ i \in 0 .. m - 1
      BY <1>1, <2>2
    <3> QED BY <1>2, <3>1 DEF History
  <2> QED BY <2>1, <2>2
<1>6. 0 \in 0 .. m /\ g[0] = h[0] /\ m + 1 \in Nat
  BY <1>1, <1>2
<1>7. History(g, m + 1, w, n)
  BY <1>4, <1>5, <1>6 DEF History
<1> QED BY <1>2, <1>7

------------------------------------------------------------------------------
(* Everything written is in the stream *)

\* The numbers that the first digits of the stream stand for.
StreamNumbers(T, st) ==
  /\ T \in [0 .. Len(st) -> Nat]
  /\ T[0] = 0
  /\ \A i \in 1 .. Len(st) : T[i] = T[i-1] * Radix + st[i]

\* The word that the decoder has in a stage is in its interval.
Within(T, e) == e.low <= T[e.at + 4] /\ T[e.at + 4] < e.low + e.len

\* If the stream is in the last interval, it was in all of them.
LEMMA WithinAll ==
  ASSUME NEW n \in 2 .. DMUnit, NEW w \in Seq(CallSet(n)), NEW h, NEW m, History(h, m, w, n),
         NEW st \in Seq(0 .. Top), NEW T, StreamNumbers(T, st),
         Len(st) = h[m].at + 4, Within(T, h[m])
  PROVE  \A i \in 0 .. m : Within(T, h[i])
<1> DEFINE S == {k \in Nat : k <= m => Within(T, h[m - k])}
<1>1. m \in Nat
  BY DEF History
<1>2. 0 \in S
  <2>1. m - 0 = m
    BY <1>1
  <2> QED BY <2>1
<1>3. ASSUME NEW k \in Nat, k \in S PROVE k + 1 \in S
  <2>1. SUFFICES ASSUME k + 1 <= m PROVE Within(T, h[m - (k + 1)])
    OBVIOUS
  <2> DEFINE i == m - (k + 1)
             e == h[i]
             f == h[i + 1]
  <2>2. i \in 0 .. m - 1 /\ i \in 0 .. m /\ i + 1 = m - k /\ i + 1 \in 0 .. m
    BY <1>1, <2>1
  <2>3. Within(T, f)
    <3>1. k <= m
      BY <1>1, <2>1
    <3>2. Within(T, h[m - k])
      BY <1>3, <3>1
    <3>3. f = h[m - k]
      BY <2>2
    <3> HIDE DEF f
    <3> QED BY <3>2, <3>3
  <2>4. StageOK(e, w, n) /\ StageOK(f, w, n) /\ f.at <= h[m].at
    BY <2>2 DEF History
  <2>5. Narrowed(e, f, w, n) \/ Renormed(e, f)
    BY <2>2 DEF History
  <2> HIDE DEF e, f, i
  <2>6. /\ e.at \in Nat /\ e.low \in Nat /\ e.len \in Nat /\ f.at \in Nat /\ f.low \in Nat /\ f.len \in Nat
        /\ ModelsOK(e.ms, n) /\ e.calls \in Nat
    <3>1. /\ e.at \in Nat /\ e.low \in Nat /\ e.len \in 0 .. Word - 1
          /\ f.at \in Nat /\ f.low \in Nat /\ f.len \in 0 .. Word - 1
          /\ ModelsOK(e.ms, n) /\ e.calls \in 0 .. Len(w)
      BY <2>4 DEF StageOK
    <3>2. Len(w) \in Nat /\ Word \in Nat
      BY CoderConstants
    <3>3. e.calls \in Nat
      BY <3>1, <3>2
    <3>4. e.len \in Nat /\ f.len \in Nat
      BY <3>1, <3>2
    <3> QED BY <3>1, <3>3, <3>4
  <2>7. h[m].at \in Nat /\ Len(st) \in Nat
    BY <1>1 DEF History, StageOK
  <2>8. f.at + 4 \in 0 .. Len(st)
    <3> DEFINE z == h[m].at
               l == Len(st)
               x == f.at
    <3>1. z \in Nat /\ l \in Nat /\ x \in Nat /\ x <= z /\ l = z + 4
      BY <2>4, <2>6, <2>7
    <3> HIDE DEF z, l, x
    <3>2. x + 4 \in 0 .. l
      BY <3>1
    <3> QED BY <3>2 DEF x, l
  <2>9. CASE Narrowed(e, f, w, n)
    <3> DEFINE call == w[e.calls + 1]
               o    == OffsetIn(e.ms, e.len, call)
               r    == PartIn(e.ms, e.len, call, n)
    <3>1. CallOK(call, n)
      <4>1. e.calls + 1 \in 1 .. Len(w)
        BY <2>6, <2>9 DEF Narrowed
      <4>2. call \in CallSet(n)
        BY <4>1
      <4> QED BY <4>2 DEF CallSet
    <3>2. o \in Nat /\ r \in Nat /\ o + r <= e.len
      <4> HIDE DEF call
      <4> QED BY <2>6, <3>1, PartsFit
    <3>3. f.at = e.at /\ f.low = e.low + o /\ f.len = r
      BY <2>9 DEF Narrowed
    <3>4. T[e.at + 4] \in Nat
      BY <2>8, <3>3 DEF StreamNumbers
    <3> HIDE DEF o, r
    <3> DEFINE t == T[e.at + 4]
    <3>6. t \in Nat /\ e.low + o <= t /\ t < (e.low + o) + r
      BY <2>3, <3>3, <3>4 DEF Within
    <3> HIDE DEF t
    <3>7. e.low <= t /\ t < e.low + e.len
      <4>1. ASSUME NEW x \in Nat, NEW y \in Nat, NEW u \in Nat, NEW v \in Nat, NEW z \in Nat,
                   u + v <= y, x + u <= z, z < (x + u) + v
            PROVE  x <= z /\ z < x + y
        BY <4>1
      <4>2. e.low \in Nat /\ e.len \in Nat
        BY <2>6
      <4> QED BY <3>2, <3>6, <4>1, <4>2
    <3>5. Within(T, e)
      BY <3>7 DEF Within, t
    <3> QED BY <3>5 DEF e, i
  <2>10. CASE Renormed(e, f)
    <3> DEFINE a == e.at + 4
    <3>1. f.at = e.at + 1 /\ f.low = e.low * Radix /\ f.len = e.len * Radix
      BY <2>10 DEF Renormed
    <3>2. a + 1 = f.at + 4 /\ a \in 0 .. Len(st) /\ a + 1 \in 1 .. Len(st) /\ (a + 1) - 1 = a
      <4> DEFINE l == Len(st)
                 x == f.at
                 y == e.at
      <4>1. l \in Nat /\ x \in Nat /\ y \in Nat /\ x = y + 1 /\ x + 4 \in 0 .. l /\ a = y + 4
        BY <2>6, <2>7, <2>8, <3>1
      <4> HIDE DEF l, x, y, a
      <4>2. a + 1 = x + 4 /\ a \in 0 .. l /\ a + 1 \in 1 .. l /\ (a + 1) - 1 = a
        BY <4>1
      <4> QED BY <4>2 DEF l, x
    <3> HIDE DEF a
    <3>3. T[a] \in Nat /\ T[a + 1] \in Nat /\ T[a + 1] = T[a] * Radix + st[a + 1]
      BY <3>2 DEF StreamNumbers
    <3>4. st[a + 1] \in Nat /\ st[a + 1] < Radix
      <4>1. ASSUME NEW U, NEW s \in Seq(U), NEW j \in 1 .. Len(s) PROVE s[j] \in U
        OBVIOUS
      <4>2. st[a + 1] \in 0 .. Top
        BY <3>2, <4>1
      <4> QED BY <4>2, RingConstants
    <3>5. f.low <= T[a + 1] /\ T[a + 1] < f.low + f.len
      BY <2>3, <3>2 DEF Within
    <3> DEFINE t == T[a]
               d == st[a + 1]
               l == e.low
    <3>6. t \in Nat /\ d \in Nat /\ d < Radix /\ l \in Nat /\ e.len \in Nat /\ Radix \in Nat \ {0}
      BY <2>6, <3>3, <3>4, CoderConstants
    <3>7. l * Radix <= t * Radix + d /\ t * Radix + d < l * Radix + e.len * Radix
      BY <3>1, <3>3, <3>5
    <3> HIDE DEF t, d, l
    <3>8. l <= t
      <4>1. SUFFICES ASSUME t + 1 <= l PROVE FALSE
        BY <3>6
      <4>2. (t + 1) * Radix <= l * Radix
        BY <3>6, <4>1, ProductRises
      <4>3. (t + 1) * Radix = t * Radix + Radix /\ t * Radix \in Nat /\ l * Radix \in Nat
        BY <3>6
      <4> DEFINE x == t * Radix
                 y == l * Radix
      <4>4. x \in Nat /\ y \in Nat /\ x + Radix <= y /\ y <= x + d
        BY <3>7, <4>2, <4>3
      <4> HIDE DEF x, y
      <4> QED BY <3>6, <4>4
    <3>9. t < l + e.len
      <4>1. SUFFICES ASSUME l + e.len <= t PROVE FALSE
        BY <3>6
      <4>2. (l + e.len) * Radix <= t * Radix
        BY <3>6, <4>1, ProductRises
      <4>3. /\ (l + e.len) * Radix = l * Radix + e.len * Radix
            /\ t * Radix \in Nat /\ l * Radix \in Nat /\ e.len * Radix \in Nat
        BY <3>6
      <4> DEFINE x == t * Radix
                 y == l * Radix + e.len * Radix
      <4>4. x \in Nat /\ y \in Nat /\ y <= x /\ x + d < y
        BY <3>7, <4>2, <4>3
      <4> HIDE DEF x, y
      <4> QED BY <3>6, <4>4
    <3>10. Within(T, e)
      BY <3>8, <3>9 DEF Within, t, l, a
    <3> QED BY <3>10 DEF e, i
  <2> QED BY <2>5, <2>9, <2>10
<1>4. \A k \in Nat : k \in S
  <2> HIDE DEF S
  <2> QED BY <1>2, <1>3, NaturalInduction
<1>5. ASSUME NEW i \in 0 .. m PROVE Within(T, h[i])
  <2>1. m - i \in Nat /\ m - i <= m /\ m - (m - i) = i
    BY <1>1
  <2> QED BY <1>4, <2>1
<1> QED BY <1>5

------------------------------------------------------------------------------
(* Ending: the last digits *)

Shift(s) == IF s = 0 THEN 1 ELSE IF s = 1 THEN Radix ELSE Radix * Radix

\* After done() and s turns of the loop, len is the length of the interval.
Flushing(more, len, s) ==
  /\ s \in 0 .. 2
  /\ IF more THEN s <= 1 /\ len = (MinLength \div 2) * Shift(s)
     ELSE len = (MinLength \div (2 * Radix)) * Shift(s)

\* The lengths that done() chooses, and how they grow.
LEMMA EndLengths ==
  LET half == MinLength \div 2
      last == MinLength \div (2 * Radix)
  IN /\ half \in Nat /\ half < MinLength /\ MinLength = 2 * half
     /\ half * Radix \in Nat /\ MinLength <= half * Radix /\ half * Radix < Word
     /\ last \in Nat /\ last < MinLength /\ last * Radix = half
     /\ last * (Radix * Radix) = half * Radix
     /\ Radix * Radix \in Nat /\ Radix * Radix <= half
     /\ MinLength = Radix * (Radix * Radix)
<1> DEFINE h == Radix \div 2
           q == h * Radix
           p == q * Radix
<1>1. h \in Nat /\ Radix = 2 * h /\ h >= 2 /\ Radix \in Nat /\ Radix >= 4
  BY CoderAssumption
<1> HIDE DEF h
<1>2. q \in Nat /\ Radix * Radix = 2 * q /\ q >= 2 * Radix /\ Radix * Radix \in Nat
  <2>1. q \in Nat
    BY <1>1
  <2>2. Radix * Radix = (2 * h) * Radix
    BY <1>1
  <2>3. (2 * h) * Radix = 2 * q
    BY <1>1
  <2>4. 2 * Radix <= h * Radix
    BY <1>1, ProductRises
  <2> QED BY <1>1, <2>1, <2>2, <2>3, <2>4
<1> HIDE DEF q
<1>3. /\ p \in Nat /\ MinLength = 2 * p /\ p >= 4 * q /\ p >= q /\ p > 0
      /\ MinLength = Radix * (Radix * Radix)
  <2>1. MinLength = (Radix * Radix) * Radix
    BY CoderConstants
  <2>2. MinLength = (2 * q) * Radix
    BY <1>2, <2>1
  <2>3. (2 * q) * Radix = 2 * p /\ p \in Nat
    BY <1>1, <1>2
  <2>4. q * Radix >= q * 4
    <3>1. 4 * q <= Radix * q
      BY <1>1, <1>2, ProductRises
    <3>2. 4 * q = q * 4 /\ Radix * q = q * Radix
      BY <1>1, <1>2
    <3> QED BY <3>1, <3>2
  <2>5. q * 4 = 4 * q /\ 4 * q >= q /\ q > 0
    BY <1>1, <1>2
  <2>6. (Radix * Radix) * Radix = Radix * (Radix * Radix)
    BY <1>1
  <2>7. p >= 4 * q
    BY <2>4, <2>5
  <2> HIDE DEF p
  <2> QED BY <1>2, <2>1, <2>2, <2>3, <2>5, <2>6, <2>7
<1>4. Word = 2 * (p * Radix) /\ p * Radix \in Nat /\ p * Radix >= 4 * p
  <2>1. Word = Radix * MinLength
    BY CoderConstants
  <2> HIDE DEF p
  <2>2. Radix * (2 * p) = 2 * (p * Radix) /\ p * Radix \in Nat
    BY <1>1, <1>3
  <2>3. 4 * p <= Radix * p
    BY <1>1, <1>3, ProductRises
  <2>4. Radix * p = p * Radix
    BY <1>1, <1>3
  <2> QED BY <1>3, <2>1, <2>2, <2>3, <2>4
<1>5. MinLength \div 2 = p
  <2> HIDE DEF p
  <2> QED BY <1>3
<1>6. MinLength \div (2 * Radix) = q
  <2>1. MinLength = (2 * Radix) * q + 0
    <3>1. 2 * p = (2 * Radix) * q + 0
      BY <1>1, <1>2
    <3> QED BY <1>3, <3>1
  <2>2. 2 * Radix \in Nat \ {0} /\ 0 \in Nat /\ 0 < 2 * Radix
    BY <1>1
  <2> QED BY <1>2, <2>1, <2>2, CoderConstants, Remainder
<1>7. q * (Radix * Radix) = p * Radix
  BY <1>1, <1>2
<1>8. q * Radix = p
  OBVIOUS
<1> HIDE DEF p
<1> DEFINE x == p * Radix
<1>9. x \in Nat /\ Word = 2 * x /\ x >= 4 * p
  BY <1>4
<1> HIDE DEF x
<1>10. MinLength <= x /\ x < Word
  BY <1>3, <1>9
<1>11. /\ p < MinLength /\ MinLength = 2 * p /\ q < MinLength
       /\ Radix * Radix <= p
  BY <1>1, <1>2, <1>3
<1> QED BY <1>2, <1>3, <1>5, <1>6, <1>7, <1>8, <1>9, <1>10, <1>11 DEF x

\* A turn of the loop is one of so many ...
LEMMA FlushingTurn ==
  ASSUME NEW more \in BOOLEAN, NEW len, NEW s, Flushing(more, len, s), len < MinLength
  PROVE  /\ len \in 0 .. Word - 1
         /\ Flushing(more, len * Radix, s + 1)
         /\ Shift(s + 1) = Shift(s) * Radix
<1> DEFINE half == MinLength \div 2
           last == MinLength \div (2 * Radix)
<1>1. /\ half \in Nat /\ half < MinLength
      /\ half * Radix \in Nat /\ MinLength <= half * Radix
      /\ last \in Nat /\ last < MinLength /\ last * Radix = half
      /\ last * (Radix * Radix) = half * Radix
  BY EndLengths
<1>2. Radix \in Nat /\ MinLength \in Nat /\ Word \in Nat /\ MinLength < Word
  BY CoderConstants
<1> HIDE DEF half, last
<1>3. half * 1 = half /\ last * 1 = last
  BY <1>1
<1>4. CASE more
  <2>1. s = 0 /\ len = half
    <3>1. s \in {0, 1} /\ len = half * Shift(s)
      BY <1>4 DEF Flushing, half
    <3>2. s # 1
      <4>1. SUFFICES ASSUME s = 1 PROVE FALSE
        OBVIOUS
      <4>2. len = half * Radix
        BY <3>1, <4>1 DEF Shift
      <4> DEFINE x == half * Radix
      <4>3. x \in Nat /\ MinLength <= x /\ x < MinLength
        BY <1>1, <4>2
      <4> HIDE DEF x
      <4> QED BY <1>2, <4>3
    <3>3. s = 0
      BY <3>1, <3>2
    <3> QED BY <1>3, <3>1, <3>3 DEF Shift
  <2>2. Shift(s + 1) = Radix /\ Shift(s) = 1 /\ s + 1 = 1
    BY <2>1 DEF Shift
  <2>3. Flushing(more, len * Radix, s + 1)
    BY <1>4, <2>1, <2>2 DEF Flushing, half
  <2> QED BY <1>1, <1>2, <2>1, <2>2, <2>3
<1>5. CASE ~more
  <2>1. s \in 0 .. 2 /\ len = last * Shift(s)
    BY <1>5 DEF Flushing, last
  <2>2. s # 2
    <3>1. SUFFICES ASSUME s = 2 PROVE FALSE
      OBVIOUS
    <3>2. len = half * Radix
      BY <1>1, <2>1, <3>1 DEF Shift
    <3> DEFINE x == half * Radix
    <3>3. x \in Nat /\ MinLength <= x /\ x < MinLength
      BY <1>1, <3>2
    <3> HIDE DEF x
    <3> QED BY <1>2, <3>3
  <2>3. CASE s = 0
    <3>1. len = last /\ Shift(s + 1) = Radix /\ Shift(s) = 1 /\ s + 1 = 1
      BY <1>3, <2>1, <2>3 DEF Shift
    <3>2. Flushing(more, len * Radix, s + 1)
      BY <1>5, <3>1 DEF Flushing, last
    <3> QED BY <1>1, <1>2, <3>1, <3>2
  <2>4. CASE s = 1
    <3>1. len = half /\ Shift(s + 1) = Radix * Radix /\ Shift(s) = Radix /\ s + 1 = 2
      BY <1>1, <2>1, <2>4 DEF Shift
    <3>2. Flushing(more, len * Radix, s + 1)
      BY <1>1, <1>5, <3>1 DEF Flushing, last
    <3> QED BY <1>1, <1>2, <3>1, <3>2
  <2> QED BY <2>1, <2>2, <2>3, <2>4
<1> QED BY <1>4, <1>5

\* ... and the loop ends after all of them.
LEMMA FlushingEnds ==
  ASSUME NEW more \in BOOLEAN, NEW len, NEW s, Flushing(more, len, s), len >= MinLength
  PROVE  s = IF more THEN 1 ELSE 2
<1> DEFINE half == MinLength \div 2
           last == MinLength \div (2 * Radix)
<1>1. /\ half \in Nat /\ half < MinLength
      /\ last \in Nat /\ last < MinLength /\ last * Radix = half
  BY EndLengths
<1>2. MinLength \in Nat
  BY CoderConstants
<1> HIDE DEF half, last
<1>3. half * 1 = half /\ last * 1 = last
  BY <1>1
<1>4. CASE more
  <2>1. s \in {0, 1} /\ len = half * Shift(s)
    BY <1>4 DEF Flushing, half
  <2>2. s = 0 => len = half
    BY <1>3, <2>1 DEF Shift
  <2>3. s # 0
    BY <1>1, <1>2, <2>2
  <2> QED BY <1>4, <2>1, <2>3
<1>5. CASE ~more
  <2>1. s \in 0 .. 2 /\ len = last * Shift(s)
    BY <1>5 DEF Flushing, last
  <2>2. (s = 0 => len = last) /\ (s = 1 => len = half)
    BY <1>1, <1>3, <2>1 DEF Shift
  <2>3. s # 0 /\ s # 1
    BY <1>1, <1>2, <2>2
  <2> QED BY <1>5, <2>1, <2>3
<1> QED BY <1>4, <1>5

------------------------------------------------------------------------------
(* The encoder's number: its digits and its word *)

Digits == Len(stream) + PendingIn(outbyte, endbyte)

\* The interval moves up by the offset; a carry is added to the digits.
LEMMA NarrowAdds ==
  ASSUME RingIn(stream, outbuffer, outbyte, endbyte), base \in 0 .. Word - 1,
         overrun \in BOOLEAN, NEW o \in 0 .. Word - 1, NEW r, Narrow(o, r)
  PROVE  /\ base' \in 0 .. Word - 1 /\ length' = r
         /\ RingIn(stream, outbuffer', outbyte, endbyte)
         /\ overrun' \in BOOLEAN /\ (overrun => overrun')
         /\ ~overrun' =>
              \A T : Numbers(T, stream, outbuffer, outbyte, Digits) =>
                \E U : /\ Numbers(U, stream, outbuffer', outbyte, Digits)
                       /\ U[Digits] * Word + base' = (T[Digits] * Word + base) + o
<1>1. /\ base' = (base + o) % Word
      /\ length' = r
      /\ IF base' < base
         THEN /\ outbuffer' = Carried
              /\ overrun' = (overrun \/ CarryTo > Pending)
         ELSE outbuffer' = outbuffer /\ overrun' = overrun
  BY DEF Narrow
<1>2. /\ base' \in 0 .. Word - 1
      /\ base' < base => base' = (base + o) - Word
      /\ ~(base' < base) => base' = base + o
  BY <1>1, SumCarries
<1>3. Word \in Nat /\ Digits \in Nat /\ base \in Nat /\ o \in Nat /\ base' \in Nat
  <2>1. Len(stream) \in Nat /\ PendingIn(outbyte, endbyte) \in 0 .. RingSize - 1
    BY PendingFits DEF RingIn
  <2>2. Digits \in Nat
    BY <2>1, RingConstants DEF Digits
  <2>3. Word \in Nat
    BY CoderConstants
  <2> QED BY <1>2, <2>2, <2>3
<1>4. CASE base' < base
  <2>1. outbuffer' = Carried /\ overrun' = (overrun \/ CarryTo > Pending)
    BY <1>1, <1>4
  <2>2. RingIn(stream, outbuffer', outbyte, endbyte)
    BY <2>1, CarriedIsARing
  <2>3. overrun' \in BOOLEAN /\ (overrun => overrun')
    BY <2>1
  <2>4. ASSUME ~overrun', NEW T, Numbers(T, stream, outbuffer, outbyte, Digits)
        PROVE  \E U : /\ Numbers(U, stream, outbuffer', outbyte, Digits)
                      /\ U[Digits] * Word + base' = (T[Digits] * Word + base) + o
    <3>1. CarryTo <= PendingIn(outbyte, endbyte)
      <4>1. ~(CarryTo > Pending)
        BY <2>1, <2>4
      <4>2. Pending = PendingIn(outbyte, endbyte)
        BY DEF Pending, PendingIn
      <4>3. PendingIn(outbyte, endbyte) \in 0 .. RingSize - 1 /\ CarryTo \in 1 .. RingSize + 1
        BY PendingFits, CarryEnds
      <4> QED BY <4>1, <4>2, <4>3, RingConstants
    <3>2. PICK U : Numbers(U, stream, Carried, outbyte, Digits) /\ U[Digits] = T[Digits] + 1
      BY <2>4, <3>1, CarryAddsOne DEF Digits
    <3> DEFINE t == T[Digits]
    <3>3. t \in Nat
      BY <1>3, <2>4 DEF Numbers
    <3> HIDE DEF t
    <3>4. (t + 1) * Word = t * Word + Word /\ t * Word \in Nat
      BY <1>3, <3>3
    <3> DEFINE p == t * Word
    <3>5. p \in Nat /\ (t + 1) * Word = p + Word
      BY <3>4
    <3> HIDE DEF p
    <3>6. base' = (base + o) - Word
      BY <1>2, <1>4
    <3>7. (p + Word) + base' = (p + base) + o
      BY <1>3, <3>5, <3>6
    <3>8. U[Digits] * Word + base' = (T[Digits] * Word + base) + o
      BY <3>2, <3>5, <3>7 DEF t, p
    <3> QED BY <2>1, <3>2, <3>8
  <2> QED BY <1>1, <1>2, <2>2, <2>3, <2>4
<1>5. CASE ~(base' < base)
  <2>1. outbuffer' = outbuffer /\ overrun' = overrun /\ base' = base + o
    BY <1>1, <1>2, <1>5
  <2>2. RingIn(stream, outbuffer', outbyte, endbyte)
    BY <2>1
  <2>3. overrun' \in BOOLEAN /\ (overrun => overrun')
    BY <2>1
  <2>4. ASSUME NEW T, Numbers(T, stream, outbuffer, outbyte, Digits)
        PROVE  /\ Numbers(T, stream, outbuffer', outbyte, Digits)
               /\ T[Digits] * Word + base' = (T[Digits] * Word + base) + o
    <3>1. T[Digits] \in Nat
      BY <1>3, <2>4 DEF Numbers
    <3>2. T[Digits] * Word \in Nat
      BY <1>3, <3>1
    <3> DEFINE p == T[Digits] * Word
    <3>3. p \in Nat
      BY <3>2
    <3> HIDE DEF p
    <3>4. p + (base + o) = (p + base) + o
      BY <1>3, <3>3
    <3>5. p + base' = (p + base) + o
      BY <2>1, <3>4
    <3> QED BY <2>1, <2>4, <3>5 DEF p
  <2> QED BY <1>1, <1>2, <2>2, <2>3, <2>4
<1> QED BY <1>4, <1>5

\* A carry that met a full ring is not forgotten.
LEMMA NarrowKeepsOverrun ==
  ASSUME overrun \in BOOLEAN, NEW o, NEW r, Narrow(o, r), ~overrun'
  PROVE  ~overrun
BY DEF Narrow

\* A turn of the loop appends a digit to the number, which is a digit longer.
LEMMA RenormShifts ==
  ASSUME RingIn(stream, outbuffer, outbyte, endbyte), base \in 0 .. Word - 1,
         EncoderRenorm
  PROVE  /\ base' \in 0 .. Word - 1 /\ length' = length * Radix
         /\ RingIn(stream', outbuffer', outbyte', endbyte')
         /\ Digits' = Digits + 1
         /\ \A T : Numbers(T, stream, outbuffer, outbyte, Digits) =>
              \E U : /\ Numbers(U, stream', outbuffer', outbyte', Digits + 1)
                     /\ U[Digits + 1] * Word + base' = (T[Digits] * Word + base) * Radix
<1> DEFINE digit  == base \div MinLength
           filled == [outbuffer EXCEPT ![outbyte] = digit]
           next   == (outbyte + 1) % RingSize
           n      == Digits
<1>1. /\ outbuffer' = filled
      /\ IF outbyte + 1 = endbyte
         THEN /\ stream' = stream \o [i \in 1 .. BufferSize |-> filled[next + i - 1]]
              /\ endbyte' = next + BufferSize
              /\ outbyte' = next
         ELSE stream' = stream /\ endbyte' = endbyte /\ outbyte' = outbyte + 1
      /\ base' = (base * Radix) % Word
      /\ length' = length * Radix
  BY DEF EncoderRenorm
<1>2. /\ digit \in 0 .. Top
      /\ base' \in 0 .. Word - 1
      /\ base * Radix = digit * Word + base'
  BY <1>1, ShiftOut
<1> HIDE DEF digit
<1>3. n = Len(stream) + PendingIn(outbyte, endbyte)
  BY DEF Digits
<1> HIDE DEF n
<1>4. PICK buf, k, st2, at2, end2 : /\ buf = filled /\ k = next
                                    /\ st2 = stream' /\ at2 = outbyte' /\ end2 = endbyte'
  OBVIOUS
<1>5. /\ n \in Nat
      /\ RingIn(stream', buf, outbyte', endbyte')
      /\ Len(stream') + PendingIn(outbyte', endbyte') = n + 1
      /\ \A i \in 1 .. n : DigitIn(stream', buf, outbyte', n + 1, i) = DigitIn(stream, outbuffer, outbyte, n, i)
      /\ DigitIn(stream', buf, outbyte', n + 1, n + 1) = digit
  <2>1. buf = [outbuffer EXCEPT ![outbyte] = digit] /\ k = (outbyte + 1) % RingSize
    BY <1>4
  <2>2. IF outbyte + 1 = endbyte
        THEN /\ st2 = stream \o [i \in 1 .. BufferSize |-> buf[k + i - 1]]
             /\ end2 = k + BufferSize
             /\ at2 = k
        ELSE st2 = stream /\ end2 = endbyte /\ at2 = outbyte + 1
    <3> HIDE DEF filled, next
    <3>1. CASE outbyte + 1 = endbyte
      <4>1. stream' = stream \o [i \in 1 .. BufferSize |-> filled[next + i - 1]]
        BY <1>1, <3>1
      <4>2. endbyte' = next + BufferSize /\ outbyte' = next
        BY <1>1, <3>1
      <4>3. st2 = stream \o [i \in 1 .. BufferSize |-> buf[k + i - 1]]
        BY <1>4, <4>1, Zenon
      <4> QED BY <1>4, <3>1, <4>2, <4>3
    <3>2. CASE outbyte + 1 # endbyte
      BY <1>1, <1>4, <3>2
    <3> QED BY <3>1, <3>2
  <2>3. /\ n \in Nat
        /\ RingIn(st2, buf, at2, end2)
        /\ Len(st2) + PendingIn(at2, end2) = n + 1
        /\ \A i \in 1 .. n : DigitIn(st2, buf, at2, n + 1, i) = DigitIn(stream, outbuffer, outbyte, n, i)
        /\ DigitIn(st2, buf, at2, n + 1, n + 1) = digit
    <3> HIDE DEF filled, next
    <3>1. digit \in 0 .. Top
      BY <1>2
    <3>2. Turn(digit, buf, k, st2, at2, end2)
      BY <2>1, <2>2 DEF Turn
    <3> QED BY <1>3, <3>1, <3>2, RenormRing
  <2> QED BY <1>4, <2>3
<1>6. outbuffer' = buf
  BY <1>1, <1>4
<1>7. Digits' = n + 1
  BY <1>5 DEF Digits
<1>8. ASSUME NEW T, Numbers(T, stream, outbuffer, outbyte, n)
      PROVE  \E U : /\ Numbers(U, stream', outbuffer', outbyte', n + 1)
                    /\ U[n + 1] * Word + base' = (T[n] * Word + base) * Radix
  <2>1. digit \in Nat /\ Word \in Nat /\ base \in Nat /\ base' \in Nat /\ Radix \in Nat
    BY <1>2, CoderConstants, RingConstants
  <2>2. PICK U : /\ Numbers(U, stream', buf, outbyte', n + 1)
                 /\ U[n + 1] = T[n] * Radix + digit
    BY <1>5, <1>8, <2>1, NumbersGoOn
  <2>3. T[n] \in Nat
    BY <1>5, <1>8 DEF Numbers
  <2> DEFINE t == T[n]
  <2>4. t \in Nat /\ U[n + 1] = t * Radix + digit
    BY <2>2, <2>3
  <2> HIDE DEF t
  <2>5. (t * Radix + digit) * Word = (t * Word) * Radix + digit * Word
    BY <2>1, <2>4
  <2>6. (t * Word + base) * Radix = (t * Word) * Radix + base * Radix
    <3>1. t * Word \in Nat
      BY <2>1, <2>4
    <3> QED BY <2>1, <3>1
  <2> DEFINE x == (t * Word) * Radix
             y == digit * Word
  <2>7. x \in Nat /\ y \in Nat
    BY <2>1, <2>4
  <2>8. U[n + 1] * Word = x + y /\ (t * Word + base) * Radix = x + (y + base')
    BY <1>2, <2>4, <2>5, <2>6
  <2> HIDE DEF x, y
  <2>9. U[n + 1] * Word + base' = (t * Word + base) * Radix
    BY <2>1, <2>7, <2>8
  <2> QED BY <1>6, <2>2, <2>9 DEF t
<1> QED BY <1>1, <1>2, <1>5, <1>6, <1>7, <1>8 DEF n

------------------------------------------------------------------------------
(* Types, and the ring as the stream's end *)

CoderTypeInv ==
  /\ mode \in {"encoding", "ending", "decoding", "failed"}
  /\ program \in Programs
  /\ another \in BOOLEAN /\ overrun \in BOOLEAN
  /\ base \in 0 .. Word - 1 /\ length \in 0 .. Word - 1 /\ value \in 0 .. Word - 1
  /\ RingIn(stream, outbuffer, outbyte, endbyte)
  /\ taken \in 0 .. Len(stream)
  /\ ModelsOK(models, program.symbols)
  /\ written \in Seq(CallSet(program.symbols)) /\ result \in Seq(CallSet(program.symbols))
  /\ mode \in {"encoding", "ending"} => result = <<>> /\ taken = 0

\* The loop of done() puts out a digit a turn: the decoder's four are there.
EndingTypeInv ==
  mode = "ending" => \E s : Flushing(another, length, s) /\ s <= Digits

\* Programs write calls of the coder.
LEMMA CallsAreOK ==
  ASSUME program \in Programs
  PROVE  /\ program.symbols \in 2 .. DMUnit
         /\ \A call \in Calls : CallOK(call, program.symbols) /\ call \in CallSet(program.symbols)
<1>1. program.symbols \in 2 .. DMUnit
  BY CoderAssumption
<1>2. ASSUME NEW call \in Calls PROVE CallOK(call, program.symbols)
  <2>1. program.kinds \subseteq {"bit", "symbol", "raw"}
    BY CoderAssumption
  <2>2. PICK kind \in program.kinds :
          call \in CASE kind = "bit"    -> { Call(kind, b, 2) : b \in {0, 1} }
                     [] kind = "symbol" -> { Call(kind, s, 0) : s \in 0 .. program.symbols - 1 }
                     [] kind = "raw"    -> UNION { { Call(kind, n, u) : n \in 0 .. u - 1 } : u \in RawUnits }
    BY DEF Calls
  <2>3. CASE kind = "bit"
    <3>1. PICK b \in {0, 1} : call = Call("bit", b, 2)
      BY <2>2, <2>3
    <3>2. call = [kind |-> "bit", sym |-> b, unit |-> 2]
      BY <3>1 DEF Call
    <3> QED BY <3>2 DEF CallOK
  <2>4. CASE kind = "symbol"
    <3>1. PICK s \in 0 .. program.symbols - 1 : call = Call("symbol", s, 0)
      BY <2>2, <2>4
    <3>2. call = [kind |-> "symbol", sym |-> s, unit |-> 0] /\ s \in Nat
      BY <1>1, <3>1 DEF Call
    <3> QED BY <3>1, <3>2 DEF CallOK
  <2>5. CASE kind = "raw"
    <3>1. PICK u \in RawUnits : call \in { Call("raw", n, u) : n \in 0 .. u - 1 }
      BY <2>2, <2>5
    <3>2. PICK n \in 0 .. u - 1 : call = Call("raw", n, u)
      BY <3>1
    <3>3. u \in 2 .. MinLength
      BY CoderAssumption
    <3>4. u \in Nat /\ n \in Nat
      BY <3>2, <3>3, CoderConstants
    <3>5. call = [kind |-> "raw", sym |-> n, unit |-> u]
      BY <3>2 DEF Call
    <3> QED BY <3>2, <3>3, <3>4, <3>5 DEF CallOK
  <2> QED BY <2>1, <2>3, <2>4, <2>5
<1>3. ASSUME NEW call, CallOK(call, program.symbols) PROVE call \in CallSet(program.symbols)
  BY <1>3 DEF CallOK, CallSet
<1> QED BY <1>1, <1>2, <1>3

\* A length that renormalization multiplies stays a word.
LEMMA LengthGrows ==
  ASSUME NEW len \in Nat, len < MinLength
  PROVE  len * Radix \in 0 .. Word - 1
<1>1. /\ MinLength \in Nat /\ Radix \in Nat /\ Radix >= 4 /\ Word = Radix * MinLength /\ Word \in Nat
      /\ len + 1 \in Nat /\ len + 1 <= MinLength
  BY CoderConstants
<1>2. (len + 1) * Radix <= MinLength * Radix /\ len * Radix \in Nat
  BY <1>1, ProductRises
<1>3. (len + 1) * Radix = len * Radix + Radix /\ MinLength * Radix = Word
  BY <1>1
<1> DEFINE p == len * Radix
<1>4. p \in Nat /\ p + Radix <= Word
  BY <1>2, <1>3
<1> HIDE DEF p
<1> QED BY <1>1, <1>4 DEF p

\* Four digits are a word.
LEMMA FourDigits ==
  ASSUME NEW a \in 0 .. Top, NEW b \in 0 .. Top, NEW c \in 0 .. Top, NEW d \in 0 .. Top
  PROVE  Radix * (Radix * (Radix * a + b) + c) + d \in 0 .. Word - 1
<1>1. Radix \in Nat /\ Radix >= 4 /\ Top = Radix - 1
  BY RingConstants, CoderConstants
<1>2. ASSUME NEW x \in Nat, NEW y \in 0 .. Top, NEW k \in Nat, x < k
      PROVE  Radix * x + y \in Nat /\ Radix * x + y < Radix * k /\ Radix * k \in Nat
  <2>1. x + 1 <= k /\ x + 1 \in Nat
    BY <1>2
  <2>2. (x + 1) * Radix <= k * Radix
    BY <1>1, <2>1, ProductRises
  <2>3. (x + 1) * Radix = Radix * x + Radix /\ k * Radix = Radix * k /\ Radix * x \in Nat /\ Radix * k \in Nat
    BY <1>1
  <2> DEFINE p == Radix * x
             q == Radix * k
  <2>4. p \in Nat /\ q \in Nat /\ p + Radix <= q
    BY <2>2, <2>3
  <2> HIDE DEF p, q
  <2>5. p + y \in Nat /\ p + y < q /\ q \in Nat
    BY <1>1, <2>4
  <2> QED BY <2>5 DEF p, q
<1> DEFINE x1 == Radix * a + b
           x2 == Radix * x1 + c
           x3 == Radix * x2 + d
           k2 == Radix * Radix
           k3 == Radix * k2
           k4 == Radix * k3
<1>3. x1 \in Nat /\ x1 < k2 /\ k2 \in Nat
  <2>1. a \in Nat /\ a < Radix
    BY <1>1
  <2> QED BY <1>1, <1>2, <2>1
<1>4. k4 = Word
  <2>1. k3 = Radix * Radix * Radix
    <3>1. Radix * (Radix * Radix) = (Radix * Radix) * Radix
      BY <1>1
    <3> QED BY <3>1
  <2> HIDE DEF k3
  <2> QED BY <2>1, CoderConstants
<1> HIDE DEF x1, k2
<1>5. x2 \in Nat /\ x2 < k3 /\ k3 \in Nat
  BY <1>2, <1>3
<1> HIDE DEF x2, k3
<1>6. x3 \in Nat /\ x3 < k4
  BY <1>2, <1>5
<1> HIDE DEF x3, k4
<1>7. x3 \in 0 .. Word - 1
  BY <1>4, <1>6, CoderConstants
<1> QED BY <1>7 DEF x1, x2, x3

\* The coder begins so.
LEMMA CoderTypeInit == Init => CoderTypeInv /\ EndingTypeInv
<1> SUFFICES ASSUME Init PROVE CoderTypeInv /\ EndingTypeInv
  OBVIOUS
<1>1. program.symbols \in 2 .. DMUnit
  BY CallsAreOK DEF Init
<1>2. ModelsOK(models, program.symbols)
  BY <1>1, NewModelsOK DEF Init, Models
<1>3. RingIn(stream, outbuffer, outbyte, endbyte)
  <2>1. outbuffer \in [0 .. RingSize - 1 -> 0 .. Top]
    BY RingConstants DEF Init
  <2>2. stream \in Seq(0 .. Top)
    BY DEF Init
  <2> QED BY <2>1, <2>2, RingConstants DEF Init, RingIn
<1>4. Word \in Nat /\ 0 < Word
  BY CoderConstants
<1>5. written \in Seq(CallSet(program.symbols)) /\ result \in Seq(CallSet(program.symbols))
  BY DEF Init
<1>6. base \in 0 .. Word - 1 /\ length \in 0 .. Word - 1 /\ value \in 0 .. Word - 1
  BY <1>4 DEF Init
<1>7. taken \in 0 .. Len(stream) /\ taken = 0 /\ result = <<>>
  BY DEF Init
<1>8. mode = "encoding" /\ program \in Programs /\ another = TRUE /\ overrun = FALSE
  BY DEF Init
<1> QED BY <1>2, <1>3, <1>5, <1>6, <1>7, <1>8 DEF CoderTypeInv, EndingTypeInv

\* What the types say of the constants.
LEMMA CoderTypes ==
  ASSUME CoderTypeInv
  PROVE  /\ program.symbols \in 2 .. DMUnit
         /\ length \in Nat /\ length < Word /\ value \in Nat /\ base \in Nat
         /\ Digits \in Nat /\ Len(stream) \in Nat
         /\ Len(written) \in Nat /\ Len(result) \in Nat
<1>1. program.symbols \in 2 .. DMUnit
  BY CallsAreOK DEF CoderTypeInv
<1>2. length \in Nat /\ length < Word /\ value \in Nat /\ base \in Nat
  BY CoderConstants DEF CoderTypeInv
<1>3. Len(stream) \in Nat /\ Digits \in Nat
  <2>1. Len(stream) \in Nat
    BY DEF CoderTypeInv, RingIn
  <2>2. PendingIn(outbyte, endbyte) \in 0 .. RingSize - 1
    BY PendingFits DEF CoderTypeInv
  <2> QED BY <2>1, <2>2, RingConstants DEF Digits
<1>4. Len(written) \in Nat /\ Len(result) \in Nat
  BY DEF CoderTypeInv
<1> QED BY <1>1, <1>2, <1>3, <1>4

\* The part for a call is a part of the interval.
LEMMA CallsFit ==
  ASSUME CoderTypeInv, NEW call, CallOK(call, program.symbols)
  PROVE  /\ Offset(call) \in Nat /\ Part(call) \in Nat /\ Offset(call) + Part(call) <= length
         /\ Offset(call) \in 0 .. Word - 1 /\ Part(call) \in 0 .. Word - 1
         /\ ModelsOK(ModelsAfter(call), program.symbols)
<1> DEFINE o == Offset(call)
           r == Part(call)
<1>1. o = OffsetIn(models, length, call) /\ r = PartIn(models, length, call, program.symbols)
  BY CallsInState
<1>2. ModelsAfter(call) = CodedIn(models, call)
  BY CallsInState
<1> HIDE DEF o, r
<1>3. o \in Nat /\ r \in Nat /\ o + r <= length
  BY <1>1, CoderTypes, PartsFit DEF CoderTypeInv
<1>4. o \in 0 .. Word - 1 /\ r \in 0 .. Word - 1
  BY <1>3, CoderTypes, CoderConstants
<1>5. ModelsOK(ModelsAfter(call), program.symbols)
  BY <1>2, CoderTypes, CodingKeepsModels DEF CoderTypeInv
<1> QED BY <1>3, <1>4, <1>5 DEF o, r

\* Encode().
LEMMA EncodeKeepsTypes ==
  ASSUME CoderTypeInv, NEW call \in Calls, Encode(call)
  PROVE  CoderTypeInv' /\ EndingTypeInv'
<1>1. CallOK(call, program.symbols) /\ call \in CallSet(program.symbols)
  BY CallsAreOK DEF CoderTypeInv
<1> DEFINE o == Offset(call)
           r == Part(call)
<1>2. o \in 0 .. Word - 1 /\ r \in 0 .. Word - 1 /\ ModelsOK(ModelsAfter(call), program.symbols)
  BY <1>1, CallsFit
<1>3. Narrow(o, r) /\ mode = "encoding"
  BY DEF Encode
<1> HIDE DEF o, r
<1>4. base' \in 0 .. Word - 1 /\ length' = r /\ overrun' \in BOOLEAN
      /\ RingIn(stream, outbuffer', outbyte, endbyte)
  BY <1>2, <1>3, NarrowAdds DEF CoderTypeInv
<1>5. /\ stream' = stream /\ outbyte' = outbyte /\ endbyte' = endbyte /\ program' = program
      /\ mode' = mode /\ another' = another /\ value' = value /\ taken' = taken /\ result' = result
      /\ models' = ModelsAfter(call) /\ written' = Append(written, call)
  BY DEF Encode, dec
<1>6. written' \in Seq(CallSet(program.symbols))
  <2>1. ASSUME NEW S, NEW w \in Seq(S), NEW x \in S PROVE Append(w, x) \in Seq(S)
    OBVIOUS
  <2>2. written \in Seq(CallSet(program.symbols))
    BY DEF CoderTypeInv
  <2> QED BY <1>1, <1>5, <2>1, <2>2
<1>7. RingIn(stream', outbuffer', outbyte', endbyte')
  BY <1>4, <1>5
<1>8. ModelsOK(models', program.symbols')
  BY <1>2, <1>5
<1>9. mode' # "ending"
  BY <1>3, <1>5
<1>10. length' \in 0 .. Word - 1
  BY <1>2, <1>4
<1> QED BY <1>4, <1>5, <1>6, <1>7, <1>8, <1>9, <1>10 DEF CoderTypeInv, EndingTypeInv

\* A turn of the encoder's loop.
LEMMA EncoderRenormKeepsTypes ==
  ASSUME CoderTypeInv, EndingTypeInv, EncoderRenorm
  PROVE  CoderTypeInv' /\ EndingTypeInv'
<1>1. length \in Nat /\ length < MinLength /\ mode \in {"encoding", "ending"}
  BY CoderTypes DEF EncoderRenorm
<1>2. /\ base' \in 0 .. Word - 1 /\ length' = length * Radix
      /\ RingIn(stream', outbuffer', outbyte', endbyte')
      /\ Digits' = Digits + 1
  BY RenormShifts DEF CoderTypeInv
<1>3. length' \in 0 .. Word - 1
  BY <1>1, <1>2, LengthGrows
<1>4. /\ program' = program /\ mode' = mode /\ another' = another /\ overrun' = overrun
      /\ value' = value /\ taken' = taken /\ result' = result
      /\ models' = models /\ written' = written
  BY DEF EncoderRenorm, dec
<1>5. taken = 0 /\ taken' = 0 /\ result' = <<>>
  BY <1>1, <1>4 DEF CoderTypeInv
<1>6. taken' \in 0 .. Len(stream')
  <2>1. Len(stream') \in Nat
    BY <1>2 DEF RingIn
  <2> QED BY <1>5, <2>1
<1>7. CoderTypeInv'
  BY <1>2, <1>3, <1>4, <1>5, <1>6 DEF CoderTypeInv
<1>8. EndingTypeInv'
  <2>1. SUFFICES ASSUME mode = "ending"
                 PROVE  \E s : Flushing(another', length', s) /\ s <= Digits'
    BY <1>4 DEF EndingTypeInv
  <2>2. PICK s : Flushing(another, length, s) /\ s <= Digits
    BY <2>1 DEF EndingTypeInv
  <2>3. Flushing(another, length * Radix, s + 1)
    BY <1>1, <2>2, FlushingTurn DEF CoderTypeInv
  <2>4. s \in Nat /\ Digits \in Nat
    BY <2>2, CoderTypes DEF Flushing
  <2>5. s + 1 <= Digits'
    BY <1>2, <2>2, <2>4
  <2> QED BY <1>2, <1>4, <2>3, <2>5
<1> QED BY <1>7, <1>8

\* done() begins.
LEMMA DoneKeepsTypes ==
  ASSUME CoderTypeInv, Done
  PROVE  CoderTypeInv' /\ EndingTypeInv'
<1> DEFINE half == MinLength \div 2
           last == MinLength \div (2 * Radix)
           more == length > 2 * MinLength
<1>1. /\ half \in 0 .. Word - 1 /\ last \in 0 .. Word - 1 /\ MinLength \in 0 .. Word - 1
      /\ half * 1 = half /\ last * 1 = last
  <2>1. half \in Nat /\ half < MinLength /\ last \in Nat /\ last < MinLength
    BY EndLengths
  <2> HIDE DEF half, last
  <2> QED BY <2>1, CoderConstants
<1> HIDE DEF half, last
<1>2. PICK o \in 0 .. Word - 1, r \in 0 .. Word - 1 :
        /\ Narrow(o, r)
        /\ r = IF more THEN half ELSE last
  <2>1. CASE more
    <3>1. Narrow(MinLength, half)
      BY <2>1 DEF Done, half
    <3> QED BY <1>1, <2>1, <3>1
  <2>2. CASE ~more
    <3>1. Narrow(half, last)
      BY <2>2 DEF Done, half, last
    <3> QED BY <1>1, <2>2, <3>1
  <2> QED BY <2>1, <2>2
<1>3. base' \in 0 .. Word - 1 /\ length' = r /\ overrun' \in BOOLEAN
      /\ RingIn(stream, outbuffer', outbyte, endbyte)
  BY <1>2, NarrowAdds DEF CoderTypeInv
<1>4. /\ stream' = stream /\ outbyte' = outbyte /\ endbyte' = endbyte /\ program' = program
      /\ mode' = "ending" /\ another' = more /\ value' = value /\ taken' = taken /\ result' = result
      /\ models' = models /\ written' = written /\ mode = "encoding"
  BY DEF Done, dec
<1>5. RingIn(stream', outbuffer', outbyte', endbyte')
  BY <1>3, <1>4
<1>6. length' \in 0 .. Word - 1
  BY <1>2, <1>3
<1>7. more \in BOOLEAN
  OBVIOUS
<1> HIDE DEF more
<1>8. CoderTypeInv'
  BY <1>3, <1>4, <1>5, <1>6, <1>7 DEF CoderTypeInv
<1>9. Flushing(another', length', 0)
  BY <1>1, <1>2, <1>3, <1>4 DEF Flushing, Shift, half, last
<1>10. 0 <= Digits'
  <2>1. Digits' = Digits
    BY <1>4 DEF Digits, PendingIn
  <2> QED BY <2>1, CoderTypes
<1> QED BY <1>8, <1>9, <1>10 DEF EndingTypeInv

\* done() ends, and the decoder begins.
LEMMA OpenKeepsTypes ==
  ASSUME CoderTypeInv, EndingTypeInv, Open
  PROVE  CoderTypeInv' /\ EndingTypeInv'
<1> DEFINE zeros == IF another THEN 3 ELSE 2
           st    == Flushed
<1>1. mode = "ending" /\ length >= MinLength /\ another \in BOOLEAN
  BY DEF Open, CoderTypeInv
<1>2. /\ st \in Seq(0 .. Top) /\ Len(st) = Digits + zeros
  BY FlushedDigits DEF CoderTypeInv, Digits
<1>3. PICK s : Flushing(another, length, s) /\ s <= Digits
  BY <1>1 DEF EndingTypeInv
<1>4. s = IF another THEN 1 ELSE 2
  BY <1>1, <1>3, FlushingEnds
<1>5. Len(st) \in Nat /\ 4 <= Len(st)
  <2>1. Digits \in Nat
    BY CoderTypes
  <2> HIDE DEF st
  <2> QED BY <1>1, <1>2, <1>3, <1>4, <2>1
<1>6. /\ stream' = st /\ taken' = 4 /\ length' = Word - 1 /\ models' = Models
      /\ mode' = "decoding"
      /\ value' = Radix * (Radix * (Radix * stream'[1] + stream'[2]) + stream'[3]) + stream'[4]
      /\ program' = program /\ base' = base /\ outbuffer' = outbuffer /\ outbyte' = outbyte
      /\ endbyte' = endbyte /\ another' = another /\ result' = result
      /\ written' = written /\ overrun' = overrun
  BY DEF Open
<1> HIDE DEF st
<1>7. value' \in 0 .. Word - 1
  <2>1. ASSUME NEW S, NEW q \in Seq(S), NEW k \in 1 .. Len(q) PROVE q[k] \in S
    OBVIOUS
  <2>2. 1 \in 1 .. Len(st) /\ 2 \in 1 .. Len(st) /\ 3 \in 1 .. Len(st) /\ 4 \in 1 .. Len(st)
    BY <1>5
  <2>3. st[1] \in 0 .. Top /\ st[2] \in 0 .. Top /\ st[3] \in 0 .. Top /\ st[4] \in 0 .. Top
    BY <1>2, <2>1, <2>2
  <2>4. Radix * (Radix * (Radix * st[1] + st[2]) + st[3]) + st[4] \in 0 .. Word - 1
    BY <2>3, FourDigits
  <2> QED BY <1>6, <2>4
<1>8. ModelsOK(models', program.symbols)
  <2>1. program.symbols \in 2 .. DMUnit
    BY CoderTypes
  <2> QED BY <1>6, <2>1, NewModelsOK DEF Models
<1>9. RingIn(stream', outbuffer', outbyte', endbyte')
  BY <1>2, <1>6 DEF CoderTypeInv, RingIn
<1>10. taken' \in 0 .. Len(stream')
  BY <1>5, <1>6
<1>11. length' \in 0 .. Word - 1
  BY <1>6, CoderConstants
<1>12. /\ program' \in Programs /\ another' \in BOOLEAN /\ overrun' \in BOOLEAN
       /\ base' \in 0 .. Word - 1
       /\ written' \in Seq(CallSet(program'.symbols)) /\ result' \in Seq(CallSet(program'.symbols))
  BY <1>6 DEF CoderTypeInv
<1>13. ModelsOK(models', program'.symbols)
  BY <1>6, <1>8
<1>14. mode' \in {"encoding", "ending", "decoding", "failed"} /\ ~(mode' \in {"encoding", "ending"})
       /\ mode' # "ending"
  BY <1>6
<1> QED BY <1>7, <1>9, <1>10, <1>11, <1>12, <1>13, <1>14 DEF CoderTypeInv, EndingTypeInv

\* What a call is decoded to, if it is not taken for corrupt, is a call.
LEMMA SeenIsACall ==
  ASSUME CoderTypeInv, length >= MinLength, Len(result) < Len(written),
         NEW call, call = written[Len(result) + 1],
         NEW sym, sym = Decoded(call), ~Corrupted(call, sym),
         NEW seen, seen = [call EXCEPT !.sym = sym]
  PROVE  /\ CallOK(call, program.symbols) /\ CallOK(seen, program.symbols)
         /\ seen \in CallSet(program.symbols) /\ Offset(seen) <= value
<1>1. program.symbols \in 2 .. DMUnit /\ length \in Nat /\ value \in Nat
      /\ Len(written) \in Nat /\ Len(result) \in Nat
  BY CoderTypes
<1>2. call \in CallSet(program.symbols)
  <2>1. ASSUME NEW S, NEW q \in Seq(S), NEW k \in 1 .. Len(q) PROVE q[k] \in S
    OBVIOUS
  <2>2. Len(result) + 1 \in 1 .. Len(written)
    BY <1>1
  <2> QED BY <2>1, <2>2 DEF CoderTypeInv
<1>3. CallOK(call, program.symbols)
  BY <1>2 DEF CallSet
<1>4. sym = DecodedIn(models, length, value, call, program.symbols)
  BY CallsInState
<1>5. ModelsOK(models, program.symbols)
  BY DEF CoderTypeInv
<1>6. CallOK(seen, program.symbols) /\ OffsetIn(models, length, seen) <= value
  BY <1>1, <1>3, <1>4, <1>5, DecodedIsACall
<1>7. seen \in CallSet(program.symbols)
  BY <1>6 DEF CallOK, CallSet
<1>8. Offset(seen) <= value
  BY <1>6, CallsInState
<1> QED BY <1>3, <1>6, <1>7, <1>8

\* Decode().
LEMMA DecodeKeepsTypes ==
  ASSUME CoderTypeInv, Decode
  PROVE  CoderTypeInv' /\ EndingTypeInv'
<1> DEFINE call == written[Len(result) + 1]
           sym  == Decoded(call)
           seen == [call EXCEPT !.sym = sym]
<1>1. /\ mode = "decoding" /\ length >= MinLength /\ Len(result) < Len(written)
      /\ IF Corrupted(call, sym)
         THEN mode' = "failed" /\ value' = value /\ length' = length /\ models' = models /\ result' = result
         ELSE /\ value' = value - Offset(seen)
              /\ length' = Part(seen)
              /\ models' = ModelsAfter(seen)
              /\ result' = Append(result, seen)
              /\ mode' = mode
  BY DEF Decode
<1>2. /\ program' = program /\ base' = base /\ outbuffer' = outbuffer /\ outbyte' = outbyte
      /\ endbyte' = endbyte /\ stream' = stream /\ another' = another /\ taken' = taken
      /\ written' = written /\ overrun' = overrun
  BY DEF Decode, ring
<1>3. /\ program' \in Programs /\ another' \in BOOLEAN /\ overrun' \in BOOLEAN
      /\ base' \in 0 .. Word - 1 /\ taken' \in 0 .. Len(stream')
      /\ RingIn(stream', outbuffer', outbyte', endbyte')
      /\ written' \in Seq(CallSet(program'.symbols))
  BY <1>2 DEF CoderTypeInv
<1>4. mode' \in {"encoding", "ending", "decoding", "failed"} /\ ~(mode' \in {"encoding", "ending"})
      /\ mode' # "ending"
  <2> HIDE DEF sym, seen
  <2> QED BY <1>1
<1>5. /\ value' \in 0 .. Word - 1 /\ length' \in 0 .. Word - 1
      /\ ModelsOK(models', program.symbols) /\ result' \in Seq(CallSet(program.symbols))
  <2>1. CASE Corrupted(call, sym)
    <3>1. value' = value /\ length' = length /\ models' = models /\ result' = result
      <4> HIDE DEF sym, seen, call
      <4> QED BY <1>1, <2>1
    <3> QED BY <3>1 DEF CoderTypeInv
  <2>2. CASE ~Corrupted(call, sym)
    <3>1. /\ value' = value - Offset(seen) /\ length' = Part(seen)
          /\ models' = ModelsAfter(seen) /\ result' = Append(result, seen)
      <4> HIDE DEF sym, seen, call
      <4> QED BY <1>1, <2>2
    <3>2. /\ CallOK(seen, program.symbols) /\ seen \in CallSet(program.symbols)
          /\ Offset(seen) <= value
      BY <1>1, <2>2, SeenIsACall
    <3> HIDE DEF seen
    <3>3. /\ Offset(seen) \in Nat /\ Part(seen) \in 0 .. Word - 1
          /\ ModelsOK(ModelsAfter(seen), program.symbols)
      BY <3>2, CallsFit
    <3>4. result' \in Seq(CallSet(program.symbols))
      <4>1. ASSUME NEW S, NEW w \in Seq(S), NEW x \in S PROVE Append(w, x) \in Seq(S)
        OBVIOUS
      <4>2. result \in Seq(CallSet(program.symbols))
        BY DEF CoderTypeInv
      <4> QED BY <3>1, <3>2, <4>1, <4>2
    <3>5. value' \in 0 .. Word - 1
      <4> DEFINE o == Offset(seen)
      <4>1. o \in Nat /\ o <= value /\ value' = value - o
        BY <3>1, <3>2, <3>3
      <4>2. value \in 0 .. Word - 1
        BY DEF CoderTypeInv
      <4> HIDE DEF o
      <4> QED BY <4>1, <4>2, CoderConstants
    <3> QED BY <3>1, <3>3, <3>4, <3>5
  <2> QED BY <2>1, <2>2
<1>6. ModelsOK(models', program'.symbols) /\ result' \in Seq(CallSet(program'.symbols))
  BY <1>2, <1>5
<1> QED BY <1>3, <1>4, <1>5, <1>6 DEF CoderTypeInv, EndingTypeInv

\* A turn of the decoder's loop.
LEMMA DecoderRenormKeepsTypes ==
  ASSUME CoderTypeInv, DecoderRenorm
  PROVE  CoderTypeInv' /\ EndingTypeInv'
<1>1. /\ mode = "decoding" /\ length < MinLength
      /\ IF taken = Len(stream)
         THEN mode' = "failed" /\ value' = value /\ length' = length /\ taken' = taken
         ELSE /\ value' = ((value * Radix) % Word) + stream[taken + 1]
              /\ taken' = taken + 1
              /\ length' = length * Radix
              /\ mode' = mode
  BY DEF DecoderRenorm
<1>2. /\ program' = program /\ base' = base /\ outbuffer' = outbuffer /\ outbyte' = outbyte
      /\ endbyte' = endbyte /\ stream' = stream /\ another' = another /\ models' = models
      /\ written' = written /\ result' = result /\ overrun' = overrun
  BY DEF DecoderRenorm, ring
<1>3. /\ program' \in Programs /\ another' \in BOOLEAN /\ overrun' \in BOOLEAN
      /\ base' \in 0 .. Word - 1
      /\ RingIn(stream', outbuffer', outbyte', endbyte')
      /\ ModelsOK(models', program'.symbols)
      /\ written' \in Seq(CallSet(program'.symbols)) /\ result' \in Seq(CallSet(program'.symbols))
  BY <1>2 DEF CoderTypeInv
<1>4. mode' \in {"encoding", "ending", "decoding", "failed"} /\ ~(mode' \in {"encoding", "ending"})
      /\ mode' # "ending"
  BY <1>1
<1>5. value' \in 0 .. Word - 1 /\ length' \in 0 .. Word - 1 /\ taken' \in 0 .. Len(stream)
  <2>0. /\ taken \in 0 .. Len(stream) /\ Len(stream) \in Nat /\ length \in Nat
        /\ value \in 0 .. Word - 1 /\ length \in 0 .. Word - 1
    BY CoderTypes DEF CoderTypeInv
  <2>1. CASE taken = Len(stream)
    BY <1>1, <2>0, <2>1
  <2>2. CASE taken # Len(stream)
    <3>1. taken + 1 \in 1 .. Len(stream) /\ taken + 1 \in 0 .. Len(stream)
      BY <2>0, <2>2
    <3>2. stream[taken + 1] \in 0 .. Top
      <4>1. ASSUME NEW S, NEW q \in Seq(S), NEW k \in 1 .. Len(q) PROVE q[k] \in S
        OBVIOUS
      <4> QED BY <3>1, <4>1 DEF CoderTypeInv, RingIn
    <3>3. ((value * Radix) % Word) + stream[taken + 1] \in 0 .. Word - 1
      BY <2>0, <3>2, ShiftIn
    <3>4. length * Radix \in 0 .. Word - 1
      BY <1>1, <2>0, LengthGrows
    <3>5. /\ value' = ((value * Radix) % Word) + stream[taken + 1]
          /\ taken' = taken + 1 /\ length' = length * Radix
      BY <1>1, <2>2
    <3> QED BY <3>1, <3>3, <3>4, <3>5
  <2> QED BY <2>1, <2>2
<1>6. taken' \in 0 .. Len(stream')
  BY <1>2, <1>5
<1> QED BY <1>3, <1>4, <1>5, <1>6 DEF CoderTypeInv, EndingTypeInv

\* The types, and that a carry and the ring keep them, hold of every behaviour.
THEOREM CoderTypesHold == Spec => [](CoderTypeInv /\ EndingTypeInv)
<1>1. Init => CoderTypeInv /\ EndingTypeInv
  BY CoderTypeInit
<1>2. (CoderTypeInv /\ EndingTypeInv) /\ [Next]_vars => (CoderTypeInv /\ EndingTypeInv)'
  <2> SUFFICES ASSUME CoderTypeInv, EndingTypeInv, [Next]_vars
               PROVE  (CoderTypeInv /\ EndingTypeInv)'
    OBVIOUS
  <2>1. ASSUME NEW call \in Calls, Encode(call) PROVE (CoderTypeInv /\ EndingTypeInv)'
    BY <2>1, EncodeKeepsTypes
  <2>2. CASE EncoderRenorm
    BY <2>2, EncoderRenormKeepsTypes
  <2>3. CASE Done
    BY <2>3, DoneKeepsTypes
  <2>4. CASE Open
    BY <2>4, OpenKeepsTypes
  <2>5. CASE Decode
    BY <2>5, DecodeKeepsTypes
  <2>6. CASE DecoderRenorm
    BY <2>6, DecoderRenormKeepsTypes
  <2>7. CASE UNCHANGED vars
    <3>1. /\ program' = program /\ mode' = mode /\ base' = base /\ length' = length
          /\ outbuffer' = outbuffer /\ outbyte' = outbyte /\ endbyte' = endbyte
          /\ another' = another /\ stream' = stream /\ value' = value /\ taken' = taken
          /\ models' = models /\ written' = written /\ result' = result /\ overrun' = overrun
      BY <2>7 DEF vars, ring, dec
    <3>2. Digits' = Digits
      BY <3>1 DEF Digits, PendingIn
    <3>3. CoderTypeInv'
      BY <3>1 DEF CoderTypeInv
    <3> QED BY <3>1, <3>2, <3>3 DEF EndingTypeInv
  <2> QED BY <2>1, <2>2, <2>3, <2>4, <2>5, <2>6, <2>7 DEF Next
<1> QED BY <1>1, <1>2, PTL DEF Spec

\* Base, length and value are words, the ring holds bytes at every turn and carry,
\* and its indices stay in it.
THEOREM CoderStateIsWellTyped == Spec => []TypeOK
<1>1. CoderTypeInv => TypeOK
  <2> SUFFICES ASSUME CoderTypeInv PROVE TypeOK
    OBVIOUS
  <2>1. outbyte \in 0 .. RingSize - 1
    BY PendingFits DEF CoderTypeInv
  <2> QED BY <2>1 DEF CoderTypeInv, RingIn, TypeOK
<1> QED BY <1>1, CoderTypesHold, PTL

------------------------------------------------------------------------------
(* The encoder's last interval, and the decoder's among them *)

\* The encoder is in the last stage of a history.
EncoderAt(h, m, T) ==
  /\ History(h, m, written, program.symbols)
  /\ Numbers(T, stream, outbuffer, outbyte, Digits)
  /\ h[m].at = Digits /\ h[m].low = T[Digits] * Word + base
  /\ h[m].len = length /\ h[m].ms = models /\ h[m].calls = Len(written)

\* The number that done() chose in it, of s more digits.
EndingAt(h, m, T, s) ==
  /\ History(h, m, written, program.symbols)
  /\ Numbers(T, stream, outbuffer, outbyte, Digits)
  /\ Flushing(another, length, s)
  /\ h[m].len >= MinLength /\ h[m].calls = Len(written)
  /\ another => h[m].len > 2 * MinLength
  /\ Digits = h[m].at + s
  /\ T[Digits] * Word + base
       = (h[m].low + (IF another THEN MinLength ELSE MinLength \div 2)) * Shift(s)

\* The decoder is in stage i, and the stream's number is in the interval of each.
DecoderAt(h, m, T, i) ==
  /\ History(h, m, written, program.symbols)
  /\ StreamNumbers(T, stream)
  /\ h[m].len >= MinLength /\ h[m].calls = Len(written)
  /\ Len(stream) = h[m].at + 4
  /\ \A j \in 0 .. m : Within(T, h[j])
  /\ i \in 0 .. m
  /\ taken = h[i].at + 4 /\ value = T[taken] - h[i].low
  /\ length = h[i].len /\ models = h[i].ms
  /\ Len(result) = h[i].calls /\ result = SubSeq(written, 1, Len(result))

CoderInv ==
  ~overrun =>
    /\ mode # "failed"
    /\ mode = "encoding" => \E h, m, T : EncoderAt(h, m, T)
    /\ mode = "ending"   => \E h, m, T, s : EndingAt(h, m, T, s)
    /\ mode = "decoding" => \E h, m, T, i : DecoderAt(h, m, T, i)

\* The encoder begins with the whole interval, before any digit.
LEMMA EncoderStarts == Init => \E h, m, T : EncoderAt(h, m, T)
<1> SUFFICES ASSUME Init PROVE \E h, m, T : EncoderAt(h, m, T)
  OBVIOUS
<1> DEFINE n == program.symbols
           ms == [bit |-> NewBitModel, symbol |-> NewModel(n)]
           e == [at |-> 0, low |-> 0, len |-> Word - 1, ms |-> ms, calls |-> 0]
           h == [i \in 0 .. 0 |-> e]
           T == [i \in 0 .. 0 |-> 0]
<1>1. n \in 2 .. DMUnit
  BY CallsAreOK DEF Init
<1>2. ModelsOK(ms, n)
  BY <1>1, NewModelsOK
<1>3. Word - 1 \in 0 .. Word - 1 /\ Word \in Nat
  BY CoderConstants
<1>4. models = ms /\ Len(written) = 0 /\ stream = <<>> /\ Len(stream) = 0
  BY DEF Init, Models
<1>5. Digits = 0
  BY <1>4, RingConstants DEF Digits, PendingIn, Init
<1> HIDE DEF ms
<1>6. h[0] = e /\ e.at = 0 /\ e.low = 0 /\ e.len = Word - 1 /\ e.ms = ms /\ e.calls = 0
  OBVIOUS
<1> HIDE DEF h, e
<1>7. StageOK(h[0], written, n)
  BY <1>2, <1>3, <1>4, <1>6 DEF StageOK
<1>8. History(h, 0, written, n)
  <2>1. \A i \in 0 .. 0 : StageOK(h[i], written, n) /\ h[i].at <= h[0].at
    <3>1. ASSUME NEW i \in 0 .. 0 PROVE StageOK(h[i], written, n) /\ h[i].at <= h[0].at
      <4>1. i = 0
        OBVIOUS
      <4> QED BY <1>6, <1>7, <4>1
    <3> QED BY <3>1
  <2>2. \A i \in 0 .. 0 - 1 : Narrowed(h[i], h[i + 1], written, n) \/ Renormed(h[i], h[i + 1])
    <3>1. ~\E i : i \in 0 .. 0 - 1
      OBVIOUS
    <3> QED BY <3>1
  <2> QED BY <1>6, <2>1, <2>2 DEF History, ms
<1>9. Numbers(T, stream, outbuffer, outbyte, 0)
  <2>1. T \in [0 .. 0 -> Nat] /\ T[0] = 0
    OBVIOUS
  <2>2. ~\E i : i \in 1 .. 0
    OBVIOUS
  <2> HIDE DEF T
  <2> QED BY <2>1, <2>2 DEF Numbers
<1>10. h[0].low = T[Digits] * Word + base
  <2>1. T[Digits] = 0 /\ base = 0
    BY <1>5 DEF Init
  <2> HIDE DEF T
  <2> QED BY <1>3, <1>6, <2>1
<1>11. length = Word - 1
  BY DEF Init
<1> HIDE DEF T
<1>12. EncoderAt(h, 0, T)
  BY <1>4, <1>5, <1>6, <1>8, <1>9, <1>10, <1>11 DEF EncoderAt
<1> QED BY <1>12

\* The last stage is a stage, and its interval begins at a number.
LEMMA LastStage ==
  ASSUME NEW h, NEW m, NEW w, NEW n, History(h, m, w, n)
  PROVE  /\ m \in Nat /\ m \in 0 .. m /\ StageOK(h[m], w, n)
         /\ h[m].at \in Nat /\ h[m].low \in Nat /\ h[m].len \in Nat
<1>1. m \in Nat /\ m \in 0 .. m
  BY DEF History
<1>2. StageOK(h[m], w, n)
  BY <1>1 DEF History
<1> QED BY <1>1, <1>2, CoderConstants DEF StageOK

\* Encode() makes a stage of the part for the call.
LEMMA EncodeGoesOn ==
  ASSUME CoderTypeInv, NEW call \in Calls, Encode(call), ~overrun',
         NEW h, NEW m, NEW T, EncoderAt(h, m, T)
  PROVE  \E g, k, U : EncoderAt(g, k, U)'
<1> DEFINE n == program.symbols
           o == Offset(call)
           r == Part(call)
           w == written'
<1>1. CallOK(call, n) /\ call \in CallSet(n) /\ n \in 2 .. DMUnit
  BY CallsAreOK DEF CoderTypeInv
<1>2. /\ o \in Nat /\ o \in 0 .. Word - 1 /\ r \in Nat /\ r \in 0 .. Word - 1
      /\ ModelsOK(ModelsAfter(call), n)
  BY <1>1, CallsFit
<1>3. /\ o = OffsetIn(models, length, call) /\ r = PartIn(models, length, call, n)
      /\ ModelsAfter(call) = CodedIn(models, call)
  BY CallsInState
<1>4. Narrow(o, r) /\ length >= MinLength
  BY DEF Encode
<1> HIDE DEF o, r
<1>5. /\ stream' = stream /\ outbyte' = outbyte /\ endbyte' = endbyte /\ program' = program
      /\ models' = ModelsAfter(call) /\ w = Append(written, call)
  BY DEF Encode
<1>6. Digits' = Digits
  BY <1>5 DEF Digits
<1>7. length' = r
  BY <1>2, <1>4, NarrowAdds DEF CoderTypeInv
<1>8. PICK U : /\ Numbers(U, stream, outbuffer', outbyte, Digits)
               /\ U[Digits] * Word + base' = (T[Digits] * Word + base) + o
  BY <1>2, <1>4, NarrowAdds DEF CoderTypeInv, EncoderAt
<1>9. /\ History(h, m, written, n) /\ h[m].at = Digits /\ h[m].low = T[Digits] * Word + base
      /\ h[m].len = length /\ h[m].ms = models /\ h[m].calls = Len(written)
  BY DEF EncoderAt
<1>10. Len(w) = Len(written) + 1 /\ w[Len(written) + 1] = call /\ Len(written) \in Nat
  BY <1>1, <1>5 DEF CoderTypeInv
<1>11. History(h, m, w, n)
  BY <1>1, <1>5, <1>9, HistoryOfMore DEF CoderTypeInv
<1> DEFINE f == [at |-> Digits, low |-> h[m].low + o, len |-> r, ms |-> ModelsAfter(call),
                 calls |-> Len(written) + 1]
<1>12. /\ f.at = Digits /\ f.low = h[m].low + o /\ f.len = r /\ f.ms = ModelsAfter(call)
       /\ f.calls = Len(written) + 1
  OBVIOUS
<1> HIDE DEF f, w
<1>13. StageOK(f, w, n)
  <2>1. h[m].at \in Nat /\ h[m].low \in Nat
    BY <1>9, LastStage
  <2>2. f.low \in Nat
    BY <1>2, <1>12, <2>1
  <2>3. f.calls \in 0 .. Len(w)
    BY <1>10, <1>12
  <2> QED BY <1>2, <1>9, <1>12, <2>1, <2>2, <2>3 DEF StageOK
<1>14. Narrowed(h[m], f, w, n)
  <2>1. h[m].calls + 1 = Len(written) + 1 /\ h[m].calls < Len(w)
    BY <1>9, <1>10
  <2>2. w[h[m].calls + 1] = call
    BY <1>10, <2>1
  <2> QED BY <1>3, <1>4, <1>9, <1>12, <2>1, <2>2 DEF Narrowed
<1>15. PICK g : History(g, m + 1, w, n) /\ g[m + 1] = f
  BY <1>11, <1>13, <1>14, HistoryGoesOn
<1>16. f.low = U[Digits] * Word + base'
  BY <1>8, <1>9, <1>12
<1>17. EncoderAt(g, m + 1, U)'
  <2>1. History(g, m + 1, written', program'.symbols)
    BY <1>5, <1>15 DEF w
  <2>2. Numbers(U, stream', outbuffer', outbyte', Digits')
    BY <1>5, <1>6, <1>8
  <2>3. /\ g[m + 1].at = Digits' /\ g[m + 1].low = U[Digits'] * Word + base'
        /\ g[m + 1].len = length' /\ g[m + 1].ms = models'
    BY <1>5, <1>6, <1>7, <1>12, <1>15, <1>16
  <2>4. g[m + 1].calls = Len(written')
    BY <1>10, <1>12, <1>15 DEF w
  <2> QED BY <2>1, <2>2, <2>3, <2>4 DEF EncoderAt
<1> QED BY <1>17

\* A turn of the loop makes a stage of the same interval.
LEMMA EncoderRenormGoesOn ==
  ASSUME CoderTypeInv, EncoderRenorm,
         NEW h, NEW m, NEW T, EncoderAt(h, m, T)
  PROVE  \E g, k, U : EncoderAt(g, k, U)'
<1> DEFINE n == program.symbols
<1>1. length \in Nat /\ length < MinLength /\ Digits \in Nat
  BY CoderTypes DEF EncoderRenorm
<1>2. /\ program' = program /\ models' = models /\ written' = written
  BY DEF EncoderRenorm
<1>3. /\ base' \in 0 .. Word - 1 /\ length' = length * Radix
      /\ Digits' = Digits + 1
      /\ \A V : Numbers(V, stream, outbuffer, outbyte, Digits) =>
           \E U : /\ Numbers(U, stream', outbuffer', outbyte', Digits + 1)
                  /\ U[Digits + 1] * Word + base' = (V[Digits] * Word + base) * Radix
  BY RenormShifts DEF CoderTypeInv
<1>4. PICK U : /\ Numbers(U, stream', outbuffer', outbyte', Digits + 1)
               /\ U[Digits + 1] * Word + base' = (T[Digits] * Word + base) * Radix
  BY <1>3 DEF EncoderAt
<1>5. /\ History(h, m, written, n) /\ h[m].at = Digits /\ h[m].low = T[Digits] * Word + base
      /\ h[m].len = length /\ h[m].ms = models /\ h[m].calls = Len(written)
  BY DEF EncoderAt
<1> DEFINE f == [at |-> Digits + 1, low |-> h[m].low * Radix, len |-> length * Radix,
                 ms |-> models, calls |-> Len(written)]
<1>6. /\ f.at = Digits + 1 /\ f.low = h[m].low * Radix /\ f.len = length * Radix /\ f.ms = models
      /\ f.calls = Len(written)
  OBVIOUS
<1> HIDE DEF f
<1>7. StageOK(f, written, n)
  <2>1. h[m].low \in Nat
    BY <1>5, LastStage
  <2>2. f.low \in Nat /\ f.at \in Nat
    BY <1>1, <1>6, <2>1, CoderConstants
  <2>3. f.calls \in 0 .. Len(written)
    BY <1>6, CoderTypes
  <2>4. f.len \in 0 .. Word - 1
    BY <1>1, <1>6, LengthGrows
  <2> QED BY <1>6, <2>2, <2>3, <2>4 DEF StageOK, CoderTypeInv
<1>8. Renormed(h[m], f)
  BY <1>1, <1>5, <1>6 DEF Renormed
<1>9. PICK g : History(g, m + 1, written, n) /\ g[m + 1] = f
  BY <1>5, <1>7, <1>8, HistoryGoesOn
<1>10. f.low = U[Digits + 1] * Word + base'
  BY <1>4, <1>5, <1>6
<1>11. EncoderAt(g, m + 1, U)'
  <2>1. History(g, m + 1, written', program'.symbols)
    BY <1>2, <1>9
  <2>2. Numbers(U, stream', outbuffer', outbyte', Digits')
    BY <1>3, <1>4
  <2>3. /\ g[m + 1].at = Digits' /\ g[m + 1].low = U[Digits'] * Word + base'
        /\ g[m + 1].len = length' /\ g[m + 1].ms = models'
    BY <1>2, <1>3, <1>6, <1>9, <1>10
  <2>4. g[m + 1].calls = Len(written')
    BY <1>2, <1>6, <1>9
  <2> QED BY <2>1, <2>2, <2>3, <2>4 DEF EncoderAt
<1> QED BY <1>11

\* done() chooses a number in the last interval.
LEMMA DoneChooses ==
  ASSUME CoderTypeInv, Done, ~overrun', NEW h, NEW m, NEW T, EncoderAt(h, m, T)
  PROVE  \E U : EndingAt(h, m, U, 0)'
<1> DEFINE half == MinLength \div 2
           last == MinLength \div (2 * Radix)
           more == length > 2 * MinLength
<1>1. /\ half \in Nat /\ half \in 0 .. Word - 1 /\ MinLength \in Nat
      /\ last \in 0 .. Word - 1 /\ MinLength \in 0 .. Word - 1
      /\ half * 1 = half /\ last * 1 = last
  <2>1. half \in Nat /\ half < MinLength /\ last \in Nat /\ last < MinLength
    BY EndLengths
  <2> HIDE DEF half, last
  <2> QED BY <2>1, CoderConstants
<1> HIDE DEF half, last
<1>2. PICK o \in 0 .. Word - 1, r \in 0 .. Word - 1 :
        /\ Narrow(o, r)
        /\ r = (IF more THEN half ELSE last) /\ o = IF more THEN MinLength ELSE half
  <2>1. CASE more
    <3>1. Narrow(MinLength, half)
      BY <2>1 DEF Done, half
    <3> QED BY <1>1, <2>1, <3>1
  <2>2. CASE ~more
    <3>1. Narrow(half, last)
      BY <2>2 DEF Done, half, last
    <3> QED BY <1>1, <2>2, <3>1
  <2> QED BY <2>1, <2>2
<1>3. length' = r
  BY <1>2, NarrowAdds DEF CoderTypeInv
<1>4. PICK U : /\ Numbers(U, stream, outbuffer', outbyte, Digits)
               /\ U[Digits] * Word + base' = (T[Digits] * Word + base) + o
  BY <1>2, NarrowAdds DEF CoderTypeInv, EncoderAt
<1>5. /\ stream' = stream /\ outbyte' = outbyte /\ endbyte' = endbyte /\ program' = program
      /\ another' = more /\ written' = written /\ length >= MinLength
  BY DEF Done
<1>6. Digits' = Digits /\ Digits \in Nat
  BY <1>5, CoderTypes DEF Digits
<1>7. /\ History(h, m, written, program.symbols) /\ h[m].at = Digits /\ h[m].low = T[Digits] * Word + base
      /\ h[m].len = length /\ h[m].calls = Len(written) /\ h[m].low \in Nat
  BY LastStage DEF EncoderAt
<1>8. another' => h[m].len > 2 * MinLength
  BY <1>5, <1>7
<1> HIDE DEF more
<1>9. Flushing(another', length', 0)
  BY <1>1, <1>2, <1>3, <1>5 DEF Flushing, Shift, half, last
<1>10. U[Digits'] * Word + base' = (h[m].low + (IF another' THEN MinLength ELSE half)) * Shift(0)
  <2>1. U[Digits'] * Word + base' = h[m].low + o
    BY <1>4, <1>6, <1>7
  <2>2. o = IF another' THEN MinLength ELSE half
    BY <1>2, <1>5
  <2>3. (h[m].low + o) * 1 = h[m].low + o
    BY <1>2, <1>7, CoderConstants
  <2>4. Shift(0) = 1
    BY DEF Shift
  <2> QED BY <2>1, <2>2, <2>3, <2>4
<1>11. Digits' = h[m].at + 0
  BY <1>6, <1>7
<1>12. EndingAt(h, m, U, 0)'
  <2>1. History(h, m, written', program'.symbols) /\ h[m].calls = Len(written') /\ h[m].len >= MinLength
    BY <1>5, <1>7
  <2>2. Numbers(U, stream', outbuffer', outbyte', Digits')
    BY <1>4, <1>5, <1>6
  <2> QED BY <1>8, <1>9, <1>10, <1>11, <2>1, <2>2 DEF EndingAt, half
<1> QED BY <1>12

\* Its digits leave the word.
LEMMA EndingGoesOn ==
  ASSUME CoderTypeInv, EncoderRenorm,
         NEW h, NEW m, NEW T, NEW s, EndingAt(h, m, T, s)
  PROVE  \E U : EndingAt(h, m, U, s + 1)'
<1> DEFINE x == h[m].low + (IF another THEN MinLength ELSE MinLength \div 2)
<1>1. length \in Nat /\ length < MinLength /\ Digits \in Nat /\ another \in BOOLEAN
  BY CoderTypes DEF EncoderRenorm, CoderTypeInv
<1>2. /\ program' = program /\ written' = written /\ another' = another
  BY DEF EncoderRenorm
<1>3. /\ base' \in 0 .. Word - 1 /\ length' = length * Radix
      /\ Digits' = Digits + 1
      /\ \A V : Numbers(V, stream, outbuffer, outbyte, Digits) =>
           \E U : /\ Numbers(U, stream', outbuffer', outbyte', Digits + 1)
                  /\ U[Digits + 1] * Word + base' = (V[Digits] * Word + base) * Radix
  BY RenormShifts DEF CoderTypeInv
<1>4. PICK U : /\ Numbers(U, stream', outbuffer', outbyte', Digits + 1)
               /\ U[Digits + 1] * Word + base' = (T[Digits] * Word + base) * Radix
  BY <1>3 DEF EndingAt
<1>5. /\ History(h, m, written, program.symbols) /\ Flushing(another, length, s)
      /\ h[m].len >= MinLength /\ h[m].calls = Len(written)
      /\ another => h[m].len > 2 * MinLength
      /\ Digits = h[m].at + s /\ T[Digits] * Word + base = x * Shift(s)
  BY DEF EndingAt
<1>6. /\ Flushing(another, length * Radix, s + 1) /\ Shift(s + 1) = Shift(s) * Radix
      /\ s \in Nat /\ Shift(s) \in Nat /\ Radix \in Nat
  <2>1. Flushing(another, length * Radix, s + 1) /\ Shift(s + 1) = Shift(s) * Radix
    BY <1>1, <1>5, FlushingTurn
  <2>2. s \in Nat
    BY <1>5 DEF Flushing
  <2>3. Radix \in Nat /\ Radix * Radix \in Nat
    BY EndLengths, CoderConstants
  <2> QED BY <2>1, <2>2, <2>3 DEF Shift
<1>7. x \in Nat
  <2>1. MinLength \in Nat /\ MinLength \div 2 \in Nat
    BY EndLengths, CoderConstants
  <2>2. h[m].low \in Nat
    BY <1>5, LastStage
  <2> QED BY <1>1, <2>1, <2>2
<1>8. h[m].at \in Nat
  BY <1>5, LastStage
<1>9. Digits' = h[m].at + (s + 1)
  BY <1>3, <1>5, <1>6, <1>8
<1>10. U[Digits'] * Word + base' = x * Shift(s + 1)
  <2> DEFINE z == Shift(s)
  <2>1. z \in Nat
    BY <1>6
  <2> HIDE DEF x, z
  <2>2. (x * z) * Radix = x * (z * Radix)
    BY <1>6, <1>7, <2>1
  <2> QED BY <1>3, <1>4, <1>5, <1>6, <2>2 DEF z
<1>11. EndingAt(h, m, U, s + 1)'
  <2>1. History(h, m, written', program'.symbols) /\ h[m].calls = Len(written') /\ h[m].len >= MinLength
    BY <1>2, <1>5
  <2>2. Numbers(U, stream', outbuffer', outbyte', Digits')
    BY <1>3, <1>4
  <2>3. Flushing(another', length', s + 1) /\ (another' => h[m].len > 2 * MinLength)
    BY <1>2, <1>3, <1>5, <1>6
  <2>4. U[Digits'] * Word + base'
          = (h[m].low + (IF another' THEN MinLength ELSE MinLength \div 2)) * Shift(s + 1)
    BY <1>2, <1>10
  <2> QED BY <1>9, <2>1, <2>2, <2>3, <2>4 DEF EndingAt
<1> QED BY <1>11

\* A number of which a multiple, and a remainder below so many, make up that multiple.
LEMMA DividedWithin ==
  ASSUME NEW k \in Nat \ {0}, NEW f \in Nat, NEW x \in Nat, NEW d \in Nat, NEW b \in Nat,
         f * k + b = k * x, b < d * k
  PROVE  f <= x /\ x < f + d
<1>1. f * k \in Nat /\ k * x = x * k /\ x * k \in Nat /\ d * k \in Nat
  OBVIOUS
<1>2. f <= x
  <2>1. SUFFICES ASSUME x + 1 <= f PROVE FALSE
    OBVIOUS
  <2>2. (x + 1) * k <= f * k
    BY <2>1, ProductRises
  <2>3. (x + 1) * k = x * k + k
    OBVIOUS
  <2> DEFINE p == x * k
             q == f * k
  <2>4. p \in Nat /\ q \in Nat /\ p + k <= q /\ q + b = p
    BY <1>1, <2>2, <2>3
  <2> HIDE DEF p, q
  <2> QED BY <2>4
<1>3. x < f + d
  <2>1. SUFFICES ASSUME f + d <= x PROVE FALSE
    OBVIOUS
  <2>2. (f + d) * k <= x * k
    <3>1. f + d \in Nat
      OBVIOUS
    <3> QED BY <2>1, <3>1, ProductRises
  <2>3. (f + d) * k = f * k + d * k
    OBVIOUS
  <2> DEFINE p == x * k
             q == f * k
             r == d * k
  <2>4. p \in Nat /\ q \in Nat /\ r \in Nat /\ q + r <= p /\ q + b = p /\ b < r
    BY <1>1, <2>2, <2>3
  <2> HIDE DEF p, q, r
  <2> QED BY <2>4
<1> QED BY <1>2, <1>3

\* The digits that done() put out are in the last interval, whatever follows them is 0.
LEMMA ChosenIsWithin ==
  ASSUME CoderTypeInv, NEW h, NEW m, NEW T, NEW s, EndingAt(h, m, T, s),
         length >= MinLength,
         NEW f, f = T[Digits] * (IF another THEN MinLength ELSE Radix * Radix)
  PROVE  /\ f \in Nat /\ h[m].low <= f /\ f < h[m].low + h[m].len
         /\ Digits = h[m].at + (IF another THEN 1 ELSE 2)
<1> DEFINE half == MinLength \div 2
           t    == T[Digits]
           low  == h[m].low
           len  == h[m].len
<1>0. /\ MinLength \in Nat /\ half \in Nat /\ MinLength = 2 * half /\ MinLength > 0
      /\ Radix * Radix \in Nat /\ Radix * Radix <= half /\ Radix * Radix > 0
      /\ Radix \in Nat /\ Radix > 0 /\ MinLength = Radix * (Radix * Radix)
      /\ Word \in Nat /\ Word = Radix * MinLength
  <2>1. Radix * Radix > 0
    <3>1. 1 * Radix <= Radix * Radix
      BY CoderConstants, ProductRises
    <3> DEFINE p == Radix * Radix
    <3>2. p \in Nat /\ Radix <= p
      BY <3>1, EndLengths, CoderConstants
    <3> HIDE DEF p
    <3>3. p > 0
      BY <3>2, CoderConstants
    <3> QED BY <3>3 DEF p
  <2> QED BY <2>1, EndLengths, CoderConstants
<1>1. t \in Nat /\ base \in Nat /\ base < Word
  <2>1. Digits \in Nat /\ base \in 0 .. Word - 1
    BY CoderTypes DEF CoderTypeInv
  <2> QED BY <1>0, <2>1 DEF EndingAt, Numbers
<1>2. low \in Nat /\ len \in Nat
  BY LastStage DEF EndingAt
<1>3. another \in BOOLEAN
  BY DEF CoderTypeInv
<1>4. s = IF another THEN 1 ELSE 2
  BY <1>3, FlushingEnds DEF EndingAt
<1>5. /\ t * Word + base = (low + (IF another THEN MinLength ELSE half)) * Shift(s)
      /\ len >= MinLength /\ (another => len > 2 * MinLength)
      /\ Digits = h[m].at + s
  BY DEF EndingAt
<1> HIDE DEF half, t, low, len
<1>6. CASE another
  <2>1. t * Word + base = (low + MinLength) * Radix
    BY <1>4, <1>5, <1>6 DEF Shift
  <2> DEFINE x == low + MinLength
             g == t * MinLength
  <2>2. x \in Nat /\ g \in Nat
    BY <1>0, <1>1, <1>2
  <2>3. g * Radix + base = Radix * x
    <3>1. (t * MinLength) * Radix = t * (Radix * MinLength)
      BY <1>0, <1>1
    <3>2. x * Radix = Radix * x
      BY <1>0, <2>2
    <3> QED BY <1>0, <2>1, <3>1, <3>2
  <2>4. base < MinLength * Radix
    BY <1>0, <1>1
  <2> HIDE DEF g
  <2>5. g <= x /\ x < g + MinLength
    <3> HIDE DEF x
    <3>1. Radix \in Nat \ {0}
      BY <1>0
    <3> QED BY ONLY <1>0, <1>1, <2>2, <2>3, <2>4, <3>1, DividedWithin
  <2>6. f = g
    BY <1>6 DEF g, t
  <2>7. low <= g /\ g < low + len
    BY <1>0, <1>2, <1>5, <1>6, <2>2, <2>5
  <2> QED BY <1>4, <1>5, <1>6, <2>2, <2>6, <2>7 DEF low, len
<1>7. CASE ~another
  <2> DEFINE r == Radix * Radix
             x == low + half
             g == t * r
  <2>1. t * Word + base = x * r
    BY <1>4, <1>5, <1>7 DEF Shift
  <2>2. x \in Nat /\ r \in Nat /\ r > 0 /\ r <= half
    BY <1>0, <1>2
  <2>3. Word = r * r
    <3>1. Radix * (Radix * (Radix * Radix)) = (Radix * Radix) * (Radix * Radix)
      BY <1>0
    <3> QED BY <1>0, <3>1
  <2> HIDE DEF r, x
  <2>4. g * r + base = r * x /\ g \in Nat
    <3>1. (t * r) * r = t * (r * r) /\ x * r = r * x /\ t * r \in Nat
      BY <1>1, <2>2
    <3> QED BY <2>1, <2>3, <3>1
  <2>5. base < r * r
    BY <1>1, <2>3
  <2> HIDE DEF g
  <2>6. g <= x /\ x < g + r
    <3>1. r \in Nat \ {0}
      BY <2>2
    <3> QED BY ONLY <1>1, <2>2, <2>4, <2>5, <3>1, DividedWithin
  <2>7. f = g
    BY <1>7 DEF g, t, r
  <2>8. low <= g /\ g < low + len
    <3>1. x = low + half
      BY DEF x
    <3> QED BY <1>0, <1>2, <1>5, <2>2, <2>4, <2>6, <3>1
  <2> QED BY <1>4, <1>5, <1>7, <2>4, <2>7, <2>8 DEF low, len
<1> QED BY <1>3, <1>6, <1>7

\* The numbers of the digits go on through the zeros.
LEMMA ZerosFollow ==
  ASSUME NEW n \in Nat, NEW T, NEW buf, NEW at, Numbers(T, stream, buf, at, n),
         NEW zeros \in {2, 3}, NEW st \in Seq(0 .. Top), Len(st) = n + zeros,
         \A i \in 1 .. n : st[i] = DigitIn(stream, buf, at, n, i),
         \A i \in 1 .. zeros : st[n + i] = 0
  PROVE  \E F : /\ StreamNumbers(F, st)
                /\ F[n + zeros] = T[n] * (IF zeros = 3 THEN MinLength ELSE Radix * Radix)
<1> DEFINE t == T[n]
           a == t * Radix
           b == a * Radix
           c == b * Radix
           F == [i \in 0 .. n + zeros |-> IF i <= n THEN T[i] ELSE IF i = n + 1 THEN a
                                          ELSE IF i = n + 2 THEN b ELSE c]
<1>1. T \in [0 .. n -> Nat] /\ T[0] = 0
      /\ \A i \in 1 .. n : T[i] = T[i-1] * Radix + DigitIn(stream, buf, at, n, i)
  BY DEF Numbers
<1>2. t \in Nat /\ Radix \in Nat
  BY <1>1, CoderConstants
<1> HIDE DEF t
<1>3. a \in Nat
  BY <1>2
<1> HIDE DEF a
<1>4. b \in Nat
  BY <1>2, <1>3
<1> HIDE DEF b
<1>5. c \in Nat
  BY <1>2, <1>4
<1> HIDE DEF c
<1>6. F \in [0 .. n + zeros -> Nat]
  <2>1. ASSUME NEW i \in 0 .. n + zeros
        PROVE  (IF i <= n THEN T[i] ELSE IF i = n + 1 THEN a ELSE IF i = n + 2 THEN b ELSE c) \in Nat
    <3>1. i <= n => i \in 0 .. n
      OBVIOUS
    <3> QED BY <1>1, <1>3, <1>4, <1>5, <3>1
  <2> QED BY <2>1
<1>7. /\ \A i \in 0 .. n : F[i] = T[i]
      /\ F[n + 1] = a /\ F[n + 2] = b /\ (zeros = 3 => F[n + 3] = c)
  <2>1. ASSUME NEW i \in 0 .. n PROVE F[i] = T[i]
    <3>1. i \in 0 .. n + zeros /\ i <= n
      OBVIOUS
    <3> QED BY <3>1
  <2>2. /\ n + 1 \in 0 .. n + zeros /\ n + 2 \in 0 .. n + zeros
        /\ (zeros = 3 => n + 3 \in 0 .. n + zeros)
        /\ ~(n + 1 <= n) /\ ~(n + 2 <= n) /\ ~(n + 3 <= n) /\ n + 2 # n + 1 /\ n + 3 # n + 1 /\ n + 3 # n + 2
    OBVIOUS
  <2> QED BY <2>1, <2>2
<1> HIDE DEF F
<1>8. F[0] = 0 /\ n \in 0 .. n /\ F[n] = t
  BY <1>1, <1>7 DEF t
<1>9. ASSUME NEW i \in 1 .. n + zeros PROVE F[i] = F[i-1] * Radix + st[i]
  <2>1. CASE i <= n
    <3>1. i \in 1 .. n /\ i \in 0 .. n /\ i-1 \in 0 .. n
      BY <2>1
    <3> QED BY <1>1, <1>7, <3>1
  <2>2. CASE i = n + 1
    <3>1. st[i] = 0 /\ i-1 = n
      BY <2>2
    <3>2. F[i] = a /\ F[i-1] = t
      BY <1>7, <1>8, <2>2, <3>1
    <3>3. a + 0 = a
      BY <1>3
    <3> QED BY <3>1, <3>2, <3>3 DEF a
  <2>3. CASE i = n + 2
    <3>1. st[i] = 0 /\ i-1 = n + 1
      BY <2>3
    <3>2. F[i] = b /\ F[i-1] = a
      BY <1>7, <2>3, <3>1
    <3>3. b + 0 = b
      BY <1>4
    <3> QED BY <3>1, <3>2, <3>3 DEF b
  <2>4. CASE i = n + 3
    <3>1. zeros = 3
      BY <2>4
    <3>2. st[i] = 0 /\ i-1 = n + 2
      BY <2>4, <3>1
    <3>3. F[i] = c /\ F[i-1] = b
      BY <1>7, <2>4, <3>1, <3>2
    <3>4. c + 0 = c
      BY <1>5
    <3> QED BY <3>2, <3>3, <3>4 DEF c
  <2>5. i <= n \/ i = n + 1 \/ i = n + 2 \/ i = n + 3
    OBVIOUS
  <2> QED BY <2>1, <2>2, <2>3, <2>4, <2>5
<1>10. StreamNumbers(F, st)
  BY <1>6, <1>8, <1>9 DEF StreamNumbers
<1>11. F[n + zeros] = t * (IF zeros = 3 THEN MinLength ELSE Radix * Radix)
  <2>1. b = t * (Radix * Radix)
    <3>1. (t * Radix) * Radix = t * (Radix * Radix)
      BY <1>2
    <3> QED BY <3>1 DEF a, b
  <2>2. c = t * MinLength
    <3>1. (t * (Radix * Radix)) * Radix = t * (Radix * Radix * Radix)
      BY <1>2
    <3> QED BY <2>1, <3>1, CoderConstants DEF c
  <2>3. CASE zeros = 3
    BY <1>7, <2>2, <2>3
  <2>4. CASE zeros = 2
    BY <1>7, <2>1, <2>4
  <2> QED BY <2>3, <2>4
<1> QED BY <1>10, <1>11 DEF t

\* The first elements of a sequence and the next one.
LEMMA PrefixGrows ==
  ASSUME NEW S, NEW w \in Seq(S), NEW k \in Nat, k < Len(w)
  PROVE  /\ Append(SubSeq(w, 1, k), w[k + 1]) = SubSeq(w, 1, k + 1)
         /\ Len(SubSeq(w, 1, k + 1)) = k + 1
<1> DEFINE p == SubSeq(w, 1, k)
           q == SubSeq(w, 1, k + 1)
           x == w[k + 1]
<1>0. Len(w) \in Nat /\ \A i \in 1 .. Len(w) : w[i] \in S
  BY LenProperties, ElementOfSeq
<1>1. p \in Seq(S) /\ Len(p) = k /\ \A i \in 1 .. k : p[i] = w[i]
  <2>1. \A i \in 1 .. k : w[i] \in S
    BY <1>0
  <2>2. p \in Seq(S) /\ Len(p) = (IF 1 <= k THEN k - 1 + 1 ELSE 0)
        /\ \A i \in 1 .. k - 1 + 1 : p[i] = w[1 + i - 1]
    BY <2>1, SubSeqProperties
  <2> HIDE DEF p
  <2>3. \A i \in 1 .. k : p[i] = w[i]
    <3>1. ASSUME NEW i \in 1 .. k PROVE i \in 1 .. k - 1 + 1 /\ 1 + i - 1 = i
      OBVIOUS
    <3> QED BY <2>2, <3>1
  <2> QED BY <2>2, <2>3
<1>2. q \in Seq(S) /\ Len(q) = k + 1 /\ \A i \in 1 .. k + 1 : q[i] = w[i]
  <2>1. \A i \in 1 .. k + 1 : w[i] \in S
    BY <1>0
  <2>2. q \in Seq(S) /\ Len(q) = (IF 1 <= k + 1 THEN (k + 1) - 1 + 1 ELSE 0)
        /\ \A i \in 1 .. (k + 1) - 1 + 1 : q[i] = w[1 + i - 1]
    BY <2>1, SubSeqProperties
  <2> HIDE DEF q
  <2>3. \A i \in 1 .. k + 1 : q[i] = w[i]
    <3>1. ASSUME NEW i \in 1 .. k + 1 PROVE i \in 1 .. (k + 1) - 1 + 1 /\ 1 + i - 1 = i
      OBVIOUS
    <3> QED BY <2>2, <3>1
  <2> QED BY <2>2, <2>3
<1>3. x \in S
  BY <1>0
<1> HIDE DEF p, q, x
<1>4. /\ Append(p, x) \in Seq(S) /\ Len(Append(p, x)) = k + 1
      /\ \A i \in 1 .. k : Append(p, x)[i] = p[i]
      /\ Append(p, x)[k + 1] = x
  BY <1>1, <1>3
<1>5. \A i \in 1 .. k + 1 : Append(p, x)[i] = q[i]
  <2>1. ASSUME NEW i \in 1 .. k + 1 PROVE Append(p, x)[i] = q[i]
    <3>1. i \in 1 .. k \/ i = k + 1
      OBVIOUS
    <3>2. q[i] = w[i] /\ (i \in 1 .. k => Append(p, x)[i] = w[i])
      BY <1>1, <1>2, <1>4
    <3>3. i = k + 1 => Append(p, x)[i] = w[i]
      BY <1>4 DEF x
    <3> QED BY <3>1, <3>2, <3>3
  <2> QED BY <2>1
<1>6. Append(p, x) = q
  BY <1>2, <1>4, <1>5, SeqEqual
<1> QED BY <1>2, <1>6 DEF p, q, x

\* The decoder begins with the first four digits, in the whole interval.
LEMMA DecoderStarts ==
  ASSUME CoderTypeInv, EndingTypeInv, Open,
         NEW h, NEW m, NEW T, NEW s, EndingAt(h, m, T, s)
  PROVE  \E F : DecoderAt(h, m, F, 0)'
<1> DEFINE n     == program.symbols
           zeros == IF another THEN 3 ELSE 2
           st    == Flushed
<1>1. /\ mode = "ending" /\ length >= MinLength /\ another \in BOOLEAN /\ Digits \in Nat
      /\ result = <<>>
  BY CoderTypes DEF Open, CoderTypeInv
<1>2. /\ st \in Seq(0 .. Top) /\ Len(st) = Digits + zeros
      /\ \A i \in 1 .. Digits : st[i] = DigitIn(stream, outbuffer, outbyte, Digits, i)
      /\ \A i \in 1 .. zeros : st[Digits + i] = 0
  BY FlushedDigits DEF CoderTypeInv, Digits
<1>3. /\ stream' = st /\ taken' = 4 /\ length' = Word - 1 /\ models' = Models
      /\ value' = Radix * (Radix * (Radix * stream'[1] + stream'[2]) + stream'[3]) + stream'[4]
      /\ program' = program /\ result' = result /\ written' = written
  BY DEF Open
<1> HIDE DEF st
<1>4. zeros \in {2, 3} /\ (zeros = 3 <=> another)
  BY <1>1
<1> HIDE DEF zeros
<1>5. /\ History(h, m, written, n) /\ h[m].len >= MinLength /\ h[m].calls = Len(written)
      /\ Numbers(T, stream, outbuffer, outbyte, Digits)
  BY DEF EndingAt
<1>6. PICK F : /\ StreamNumbers(F, st)
               /\ F[Digits + zeros] = T[Digits] * (IF zeros = 3 THEN MinLength ELSE Radix * Radix)
  BY <1>1, <1>2, <1>4, <1>5, ZerosFollow
<1> DEFINE f == F[Digits + zeros]
<1>7. /\ h[m].low <= f /\ f < h[m].low + h[m].len
      /\ Digits = h[m].at + (IF another THEN 1 ELSE 2) /\ f \in Nat
  <2>1. f = T[Digits] * (IF another THEN MinLength ELSE Radix * Radix)
    BY <1>4, <1>6
  <2> HIDE DEF f
  <2> QED BY <1>1, <2>1, ChosenIsWithin
<1>8. h[m].at \in Nat
  BY <1>5, LastStage
<1>9. Digits + zeros = h[m].at + 4
  <2>1. CASE another
    BY <1>4, <1>7, <1>8, <2>1
  <2>2. CASE ~another
    BY <1>4, <1>7, <1>8, <2>2
  <2> QED BY <2>1, <2>2
<1>10. Len(st) = h[m].at + 4 /\ Within(F, h[m])
  BY <1>2, <1>7, <1>9 DEF Within
<1>11. n \in 2 .. DMUnit /\ written \in Seq(CallSet(n))
  BY CoderTypes DEF CoderTypeInv
<1>12. \A j \in 0 .. m : Within(F, h[j])
  BY <1>2, <1>5, <1>6, <1>10, <1>11, WithinAll
<1>13. /\ m \in Nat /\ 0 \in 0 .. m
       /\ h[0].at = 0 /\ h[0].low = 0 /\ h[0].len = Word - 1 /\ h[0].calls = 0
       /\ h[0].ms = Models
  BY <1>5 DEF History, Models
<1>14. value' = F[4] /\ F[4] \in Nat
  <2>0. 4 <= Len(st) /\ Len(st) \in Nat
    BY <1>8, <1>10
  <2>1. ASSUME NEW S, NEW q \in Seq(S), NEW k \in 1 .. Len(q) PROVE q[k] \in S
    OBVIOUS
  <2>2. 1 \in 1 .. Len(st) /\ 2 \in 1 .. Len(st) /\ 3 \in 1 .. Len(st) /\ 4 \in 1 .. Len(st)
    BY <2>0
  <2>3. st[1] \in 0 .. Top /\ st[2] \in 0 .. Top /\ st[3] \in 0 .. Top /\ st[4] \in 0 .. Top
    BY <1>2, <2>1, <2>2
  <2>4. st[1] \in Nat /\ st[2] \in Nat /\ st[3] \in Nat /\ st[4] \in Nat /\ Radix \in Nat
    BY <2>3, RingConstants
  <2>5. /\ F[0] = 0 /\ \A i \in 1 .. Len(st) : F[i] = F[i-1] * Radix + st[i]
    BY <1>6 DEF StreamNumbers
  <2> DEFINE a == st[1]
             b == st[2]
             c == st[3]
             d == st[4]
             x == Radix * a + b
             y == Radix * x + c
             z == Radix * y + d
  <2>6. a \in Nat /\ b \in Nat /\ c \in Nat /\ d \in Nat
    BY <2>4
  <2>7. F[1] = a
    <3>1. F[1] = F[0] * Radix + a
      BY <2>2, <2>5
    <3> HIDE DEF a
    <3> QED BY <2>4, <2>5, <2>6, <3>1
  <2>8. F[2] = a * Radix + b
    <3>1. F[2] = F[1] * Radix + b
      BY <2>2, <2>5
    <3> QED BY <2>7, <3>1
  <2>9. F[3] = F[2] * Radix + c /\ F[4] = F[3] * Radix + d
    BY <2>2, <2>5
  <2>10. value' = z
    BY <1>3
  <2> HIDE DEF a, b, c, d
  <2>11. x \in Nat /\ F[2] = x
    BY <2>4, <2>6, <2>8
  <2> HIDE DEF x
  <2>12. y \in Nat /\ F[3] = y
    BY <2>4, <2>6, <2>9, <2>11
  <2> HIDE DEF y
  <2>13. z \in Nat /\ F[4] = z
    BY <2>4, <2>6, <2>9, <2>12
  <2> QED BY <2>10, <2>13
<1>15. DecoderAt(h, m, F, 0)'
  <2>1. /\ History(h, m, written', program'.symbols) /\ StreamNumbers(F, stream')
        /\ h[m].len >= MinLength /\ h[m].calls = Len(written') /\ Len(stream') = h[m].at + 4
    BY <1>3, <1>5, <1>6, <1>10
  <2>2. taken' = h[0].at + 4 /\ length' = h[0].len /\ models' = h[0].ms
    BY <1>3, <1>13
  <2>3. value' = F[taken'] - h[0].low
    BY <1>3, <1>13, <1>14
  <2>4. Len(result') = h[0].calls /\ result' = SubSeq(written', 1, Len(result'))
    <3>1. result' = <<>> /\ Len(result') = 0
      BY <1>1, <1>3
    <3>2. ASSUME NEW S, NEW w \in Seq(S) PROVE SubSeq(w, 1, 0) = <<>>
      OBVIOUS
    <3>3. SubSeq(written', 1, 0) = <<>>
      BY <1>3, <1>11, <3>2
    <3> QED BY <1>13, <3>1, <3>3
  <2> QED BY <1>12, <1>13, <2>1, <2>2, <2>3, <2>4 DEF DecoderAt
<1> QED BY <1>15

\* Behind the decoder's stage is the one that its length calls for: it has not come
\* to the last if there is something to decode, or a digit to take.
LEMMA DecoderLink ==
  ASSUME CoderTypeInv, NEW h, NEW m, NEW F, NEW i, DecoderAt(h, m, F, i)
  PROVE  /\ h[i].at \in Nat /\ h[i].low \in Nat /\ h[i].len \in Nat
         /\ F[taken] \in Nat /\ h[i].low <= F[taken] /\ F[taken] < h[i].low + h[i].len
         /\ h[m].at \in Nat
         /\ length >= MinLength /\ i # m
              => i + 1 \in 0 .. m /\ Narrowed(h[i], h[i + 1], written, program.symbols)
         /\ length < MinLength
              => i + 1 \in 0 .. m /\ Renormed(h[i], h[i + 1]) /\ h[i + 1].at <= h[m].at
<1>1. /\ History(h, m, written, program.symbols) /\ StreamNumbers(F, stream)
      /\ h[m].len >= MinLength /\ Len(stream) = h[m].at + 4 /\ Within(F, h[i])
      /\ i \in 0 .. m /\ taken = h[i].at + 4 /\ length = h[i].len
  BY DEF DecoderAt
<1>2. m \in Nat /\ StageOK(h[i], written, program.symbols) /\ h[i].at <= h[m].at
  BY <1>1 DEF History
<1>3. h[i].at \in Nat /\ h[i].low \in Nat /\ h[i].len \in Nat
  BY <1>2, CoderConstants DEF StageOK
<1>4. h[m].at \in Nat /\ h[m].len \in Nat
  BY <1>1, LastStage
<1>5. F[taken] \in Nat
  <2>1. taken \in 0 .. Len(stream)
    BY DEF CoderTypeInv
  <2> QED BY <1>1, <2>1 DEF StreamNumbers
<1>6. h[i].low <= F[taken] /\ F[taken] < h[i].low + h[i].len
  BY <1>1 DEF Within
<1>7. i # m => /\ i \in 0 .. m - 1 /\ i + 1 \in 0 .. m
               /\ Narrowed(h[i], h[i + 1], written, program.symbols) \/ Renormed(h[i], h[i + 1])
               /\ h[i + 1].at <= h[m].at
  <2>1. i # m => i \in 0 .. m - 1 /\ i + 1 \in 0 .. m
    BY <1>1, <1>2
  <2> QED BY <1>1, <2>1 DEF History
<1>8. MinLength \in Nat
  BY CoderConstants
<1>9. ASSUME length >= MinLength, i # m
      PROVE  i + 1 \in 0 .. m /\ Narrowed(h[i], h[i + 1], written, program.symbols)
  <2>1. ~Renormed(h[i], h[i + 1])
    BY <1>1, <1>3, <1>8, <1>9 DEF Renormed
  <2> QED BY <1>7, <1>9, <2>1
<1>10. ASSUME length < MinLength
       PROVE  i + 1 \in 0 .. m /\ Renormed(h[i], h[i + 1]) /\ h[i + 1].at <= h[m].at
  <2>1. i # m
    BY <1>1, <1>3, <1>8, <1>10
  <2>2. ~Narrowed(h[i], h[i + 1], written, program.symbols)
    BY <1>1, <1>3, <1>8, <1>10 DEF Narrowed
  <2> QED BY <1>7, <2>1, <2>2
<1> QED BY <1>3, <1>4, <1>5, <1>6, <1>9, <1>10

\* What is decoded is the call that was written there, and the decoder follows the
\* encoder into its part.
LEMMA DecodeGoesOn ==
  ASSUME CoderTypeInv, Decode, NEW h, NEW m, NEW F, NEW i, DecoderAt(h, m, F, i)
  PROVE  mode' = "decoding" /\ DecoderAt(h, m, F, i + 1)'
<1> DEFINE n    == program.symbols
           call == written[Len(result) + 1]
           sym  == Decoded(call)
           seen == [call EXCEPT !.sym = sym]
           e    == h[i]
           f    == h[i + 1]
<1>1. /\ mode = "decoding" /\ length >= MinLength /\ Len(result) < Len(written)
      /\ IF Corrupted(call, sym)
         THEN mode' = "failed" /\ value' = value /\ length' = length /\ models' = models /\ result' = result
         ELSE /\ value' = value - Offset(seen)
              /\ length' = Part(seen)
              /\ models' = ModelsAfter(seen)
              /\ result' = Append(result, seen)
              /\ mode' = mode
  BY DEF Decode
<1>2. /\ program' = program /\ stream' = stream /\ taken' = taken /\ written' = written
  BY DEF Decode, ring
<1>3. /\ History(h, m, written, n) /\ StreamNumbers(F, stream)
      /\ h[m].len >= MinLength /\ h[m].calls = Len(written) /\ Len(stream) = h[m].at + 4
      /\ \A j \in 0 .. m : Within(F, h[j])
      /\ i \in 0 .. m /\ taken = e.at + 4 /\ value = F[taken] - e.low
      /\ length = e.len /\ models = e.ms
      /\ Len(result) = e.calls /\ result = SubSeq(written, 1, Len(result))
  BY DEF DecoderAt
<1>4. /\ n \in 2 .. DMUnit /\ Len(written) \in Nat /\ Len(result) \in Nat /\ value \in Nat
      /\ length \in Nat
  BY CoderTypes
<1>5. i # m
  BY <1>1, <1>3, <1>4
<1>6. i + 1 \in 0 .. m /\ Narrowed(e, f, written, n) /\ e.low \in Nat /\ F[taken] \in Nat
  BY <1>1, <1>5, DecoderLink
<1>7. CallOK(call, n)
  <2>1. ASSUME NEW S, NEW q \in Seq(S), NEW k \in 1 .. Len(q) PROVE q[k] \in S
    OBVIOUS
  <2>2. Len(result) + 1 \in 1 .. Len(written)
    BY <1>1, <1>4
  <2>3. call \in CallSet(n)
    BY <2>1, <2>2 DEF CoderTypeInv
  <2> QED BY <2>3 DEF CallSet
<1> HIDE DEF sym, seen
<1>8. /\ f.at = e.at
      /\ f.low = e.low + Offset(call) /\ f.len = Part(call) /\ f.ms = ModelsAfter(call)
      /\ f.calls = Len(result) + 1
  <2>1. /\ Offset(call) = OffsetIn(e.ms, e.len, call) /\ Part(call) = PartIn(e.ms, e.len, call, n)
        /\ ModelsAfter(call) = CodedIn(e.ms, call)
    BY <1>3, CallsInState
  <2>2. call = written[e.calls + 1]
    BY <1>3
  <2> HIDE DEF e, f, call
  <2> QED BY <1>3, <1>6, <2>1, <2>2 DEF Narrowed, e
<1> DEFINE o == Offset(call)
           r == Part(call)
<1>9. o \in Nat /\ r \in Nat
  BY <1>7, CallsFit
<1>10. o <= value /\ value < o + r
  <2>1. f.low <= F[taken] /\ F[taken] < f.low + f.len
    BY <1>3, <1>6, <1>8 DEF Within
  <2> DEFINE v == F[taken]
             l == e.low
  <2>2. l + o <= v /\ v < (l + o) + r /\ value = v - l /\ v \in Nat /\ l \in Nat
    BY <1>3, <1>6, <1>8, <2>1
  <2> HIDE DEF v, l, o, r
  <2> QED BY <1>9, <2>2
<1>11. sym = call.sym
  <2>1. sym = DecodedIn(models, length, value, call, n)
    BY CallsInState DEF sym
  <2>2. /\ OffsetIn(models, length, call) <= value
        /\ value < OffsetIn(models, length, call) + PartIn(models, length, call, n)
    BY <1>10, CallsInState
  <2>3. n > TableFrom => DMUnit <= (MinLength \div DMUnit) * (DMUnit \div TableSize(n))
    BY TableAssumption DEF CoderTypeInv
  <2>4. ModelsOK(models, n)
    BY DEF CoderTypeInv
  <2> HIDE DEF call
  <2> QED BY <1>1, <1>4, <1>7, <2>1, <2>2, <2>3, <2>4, DecodedIsEncoded
<1>12. seen = call
  BY <1>7, <1>11 DEF seen, CallOK
<1>13. ~Corrupted(call, sym)
  <2> HIDE DEF call
  <2>1. sym \in Nat /\ (call.kind = "raw" => call.sym \in 0 .. call.unit - 1 /\ call.unit \in Nat)
    BY <1>7, <1>11, CoderConstants DEF CallOK
  <2> QED BY <1>11, <2>1 DEF Corrupted
<1>14. /\ value' = value - o /\ length' = r /\ models' = ModelsAfter(call)
       /\ result' = Append(result, call) /\ mode' = "decoding"
  BY <1>1, <1>12, <1>13
<1> HIDE DEF o, r
<1>15. /\ taken' = f.at + 4 /\ length' = f.len /\ models' = f.ms
  BY <1>2, <1>3, <1>8, <1>14 DEF r
<1>16. value' = F[taken'] - f.low
  <2> DEFINE v == F[taken]
             l == e.low
  <2>1. v \in Nat /\ l \in Nat /\ value = v - l /\ value' = value - o /\ f.low = l + o /\ taken' = taken
    BY <1>2, <1>3, <1>6, <1>8, <1>14 DEF o
  <2> HIDE DEF l, v, f
  <2>2. value' = v - f.low
    BY <1>9, <2>1
  <2> QED BY <2>1, <2>2 DEF v
<1>17. Len(result') = f.calls /\ result' = SubSeq(written', 1, Len(result'))
  <2> DEFINE k == Len(result)
  <2>2. k \in Nat /\ k < Len(written) /\ result = SubSeq(written, 1, k)
    BY <1>1, <1>3, <1>4
  <2>3. written \in Seq(CallSet(n))
    BY DEF CoderTypeInv
  <2>4. result' = Append(result, written[k + 1])
    BY <1>14
  <2> HIDE DEF k
  <2>5. result' = SubSeq(written, 1, k + 1) /\ Len(result') = k + 1
    BY <2>2, <2>3, <2>4, PrefixGrows
  <2> QED BY <1>2, <1>8, <2>5 DEF k
<1>18. DecoderAt(h, m, F, i + 1)'
  BY <1>2, <1>3, <1>6, <1>15, <1>16, <1>17 DEF DecoderAt
<1> QED BY <1>14, <1>18

\* With a digit the decoder goes on in the same interval, and there is one.
LEMMA DecoderRenormGoesOn ==
  ASSUME CoderTypeInv, DecoderRenorm, NEW h, NEW m, NEW F, NEW i, DecoderAt(h, m, F, i)
  PROVE  mode' = "decoding" /\ DecoderAt(h, m, F, i + 1)'
<1> DEFINE n == program.symbols
           e == h[i]
           f == h[i + 1]
<1>1. /\ mode = "decoding" /\ length < MinLength
      /\ taken # Len(stream) =>
           /\ value' = ((value * Radix) % Word) + stream[taken + 1]
           /\ taken' = taken + 1
           /\ length' = length * Radix
           /\ mode' = mode
  BY DEF DecoderRenorm
<1>2. /\ program' = program /\ stream' = stream /\ models' = models /\ written' = written
      /\ result' = result
  BY DEF DecoderRenorm, ring
<1>3. /\ History(h, m, written, n) /\ StreamNumbers(F, stream)
      /\ h[m].len >= MinLength /\ h[m].calls = Len(written) /\ Len(stream) = h[m].at + 4
      /\ \A j \in 0 .. m : Within(F, h[j])
      /\ i \in 0 .. m /\ taken = e.at + 4 /\ value = F[taken] - e.low
      /\ length = e.len /\ models = e.ms
      /\ Len(result) = e.calls /\ result = SubSeq(written, 1, Len(result))
  BY DEF DecoderAt
<1>4. /\ i + 1 \in 0 .. m /\ Renormed(e, f) /\ f.at <= h[m].at /\ h[m].at \in Nat
      /\ e.at \in Nat /\ e.low \in Nat /\ e.len \in Nat
      /\ F[taken] \in Nat /\ e.low <= F[taken] /\ F[taken] < e.low + e.len
  BY <1>1, DecoderLink
<1> HIDE DEF e, f
<1>5. /\ f.at = e.at + 1 /\ f.low = e.low * Radix /\ f.len = e.len * Radix
      /\ f.ms = e.ms /\ f.calls = e.calls
  BY <1>4 DEF Renormed
<1>6. taken \in Nat /\ taken + 1 \in 1 .. Len(stream) /\ (taken + 1) - 1 = taken
      /\ taken # Len(stream)
  <2> DEFINE l == Len(stream)
             y == h[m].at
  <2>1. l = y + 4 /\ y \in Nat /\ e.at + 1 <= y /\ taken = e.at + 4 /\ e.at \in Nat
    BY <1>3, <1>4, <1>5
  <2> HIDE DEF l, y
  <2>2. taken \in Nat /\ taken + 1 \in 1 .. l /\ (taken + 1) - 1 = taken /\ taken # l
    BY <2>1
  <2> QED BY <2>2 DEF l
<1>7. /\ value' = ((value * Radix) % Word) + stream[taken + 1]
      /\ taken' = taken + 1 /\ length' = length * Radix /\ mode' = "decoding"
  BY <1>1, <1>6
<1>8. stream[taken + 1] \in 0 .. Top
  <2>1. ASSUME NEW S, NEW q \in Seq(S), NEW k \in 1 .. Len(q) PROVE q[k] \in S
    OBVIOUS
  <2> QED BY <1>6, <2>1 DEF CoderTypeInv, RingIn
<1>9. value \in Nat /\ value < MinLength /\ value \in 0 .. Word - 1
  <2>1. value \in 0 .. Word - 1
    BY DEF CoderTypeInv
  <2> DEFINE v == F[taken]
             l == e.low
  <2>2. v \in Nat /\ l \in Nat /\ l <= v /\ v < l + e.len /\ value = v - l /\ e.len \in Nat
        /\ e.len < MinLength /\ MinLength \in Nat
    BY <1>1, <1>3, <1>4, CoderConstants
  <2> HIDE DEF v, l
  <2>3. value \in Nat /\ value < MinLength
    BY <2>2
  <2> QED BY <2>1, <2>3
<1>10. (value * Radix) % Word = value * Radix
  BY <1>8, <1>9, ShiftIn
<1>11. F[taken + 1] = F[taken] * Radix + stream[taken + 1]
  BY <1>3, <1>6 DEF StreamNumbers
<1>12. value' = F[taken'] - f.low
  <2> DEFINE v == F[taken]
             l == e.low
             d == stream[taken + 1]
  <2>1. v \in Nat /\ l \in Nat /\ d \in Nat /\ l <= v /\ Radix \in Nat
    BY <1>4, <1>8, RingConstants
  <2>2. value = v - l
    BY <1>3
  <2> HIDE DEF v, l, d
  <2>3. (v - l) * Radix = v * Radix - l * Radix /\ v * Radix \in Nat /\ l * Radix \in Nat
    BY <2>1
  <2>4. value' = value * Radix + d
    BY <1>7, <1>10 DEF d
  <2>5. F[taken'] = v * Radix + d
    BY <1>7, <1>11 DEF v, d
  <2> DEFINE p == v * Radix
             q == l * Radix
  <2>6. p \in Nat /\ q \in Nat /\ value' = (p - q) + d /\ F[taken'] = p + d /\ f.low = q
    BY <1>5, <2>2, <2>3, <2>4, <2>5 DEF l
  <2> HIDE DEF p, q
  <2> QED BY <2>1, <2>6
<1>13. taken' = f.at + 4
  BY <1>3, <1>4, <1>5, <1>7
<1>14. length' = f.len /\ models' = f.ms /\ Len(result') = f.calls
       /\ result' = SubSeq(written', 1, Len(result'))
  BY <1>2, <1>3, <1>5, <1>7
<1>15. DecoderAt(h, m, F, i + 1)'
  BY <1>2, <1>3, <1>4, <1>12, <1>13, <1>14 DEF DecoderAt, f
<1> QED BY <1>7, <1>15

\* Until a carry meets a full ring, a history of the encoder's intervals says what
\* either coder has to do.
THEOREM CoderInvHolds == Spec => []CoderInv
<1>1. Init => CoderInv
  <2> SUFFICES ASSUME Init PROVE CoderInv
    OBVIOUS
  <2>1. \E h, m, T : EncoderAt(h, m, T)
    BY EncoderStarts
  <2>2. mode = "encoding"
    BY DEF Init
  <2> QED BY <2>1, <2>2 DEF CoderInv
<1>2. (CoderTypeInv /\ EndingTypeInv) /\ CoderInv /\ [Next]_vars => CoderInv'
  <2> SUFFICES ASSUME CoderTypeInv, EndingTypeInv, CoderInv, [Next]_vars, ~overrun'
               PROVE  /\ mode' # "failed"
                      /\ mode' = "encoding" => \E h, m, T : EncoderAt(h, m, T)'
                      /\ mode' = "ending"   => \E h, m, T, s : EndingAt(h, m, T, s)'
                      /\ mode' = "decoding" => \E h, m, T, i : DecoderAt(h, m, T, i)'
    BY DEF CoderInv
  <2>1. ASSUME NEW call \in Calls, Encode(call)
        PROVE  mode' = "encoding" /\ \E h, m, T : EncoderAt(h, m, T)'
    <3>1. mode = "encoding" /\ mode' = mode
      BY <2>1 DEF Encode
    <3>2. ~overrun
      BY <2>1, NarrowKeepsOverrun DEF Encode, CoderTypeInv
    <3>3. PICK h, m, T : EncoderAt(h, m, T)
      BY <3>1, <3>2 DEF CoderInv
    <3> QED BY <2>1, <3>1, <3>3, EncodeGoesOn
  <2>2. CASE EncoderRenorm
    <3>1. ~overrun /\ mode' = mode /\ mode \in {"encoding", "ending"}
      BY <2>2 DEF EncoderRenorm
    <3>2. CASE mode = "encoding"
      <4>1. PICK h, m, T : EncoderAt(h, m, T)
        BY <3>1, <3>2 DEF CoderInv
      <4>2. \E g, k, U : EncoderAt(g, k, U)'
        BY <2>2, <4>1, EncoderRenormGoesOn
      <4> QED BY <3>1, <3>2, <4>2
    <3>3. CASE mode = "ending"
      <4>1. PICK h, m, T, s : EndingAt(h, m, T, s)
        BY <3>1, <3>3 DEF CoderInv
      <4>2. \E U : EndingAt(h, m, U, s + 1)'
        BY <2>2, <4>1, EndingGoesOn
      <4> QED BY <3>1, <3>3, <4>2
    <3> QED BY <3>1, <3>2, <3>3
  <2>3. CASE Done
    <3>1. mode = "encoding" /\ mode' = "ending"
      BY <2>3 DEF Done
    <3>2. ~overrun
      BY <2>3, NarrowKeepsOverrun DEF Done, CoderTypeInv
    <3>3. PICK h, m, T : EncoderAt(h, m, T)
      BY <3>1, <3>2 DEF CoderInv
    <3>4. \E U : EndingAt(h, m, U, 0)'
      BY <2>3, <3>3, DoneChooses
    <3> QED BY <3>1, <3>4
  <2>4. CASE Open
    <3>1. ~overrun /\ mode = "ending" /\ mode' = "decoding"
      BY <2>4 DEF Open
    <3>2. PICK h, m, T, s : EndingAt(h, m, T, s)
      BY <3>1 DEF CoderInv
    <3>3. \E F : DecoderAt(h, m, F, 0)'
      BY <2>4, <3>2, DecoderStarts
    <3> QED BY <3>1, <3>3
  <2>5. CASE Decode
    <3>1. ~overrun /\ mode = "decoding"
      BY <2>5 DEF Decode
    <3>2. PICK h, m, F, i : DecoderAt(h, m, F, i)
      BY <3>1 DEF CoderInv
    <3>3. mode' = "decoding" /\ DecoderAt(h, m, F, i + 1)'
      BY <2>5, <3>2, DecodeGoesOn
    <3> QED BY <3>3
  <2>6. CASE DecoderRenorm
    <3>1. ~overrun /\ mode = "decoding"
      BY <2>6 DEF DecoderRenorm
    <3>2. PICK h, m, F, i : DecoderAt(h, m, F, i)
      BY <3>1 DEF CoderInv
    <3>3. mode' = "decoding" /\ DecoderAt(h, m, F, i + 1)'
      BY <2>6, <3>2, DecoderRenormGoesOn
    <3> QED BY <3>3
  <2>7. CASE UNCHANGED vars
    <3>1. /\ program' = program /\ mode' = mode /\ base' = base /\ length' = length
          /\ outbuffer' = outbuffer /\ outbyte' = outbyte /\ endbyte' = endbyte
          /\ another' = another /\ stream' = stream /\ value' = value /\ taken' = taken
          /\ models' = models /\ written' = written /\ result' = result /\ overrun' = overrun
      BY <2>7 DEF vars, ring, dec
    <3>2. Digits' = Digits
      BY <3>1 DEF Digits
    <3>3. \A h, m, T : EncoderAt(h, m, T) => EncoderAt(h, m, T)'
      BY <3>1, <3>2 DEF EncoderAt
    <3>4. \A h, m, T, s : EndingAt(h, m, T, s) => EndingAt(h, m, T, s)'
      BY <3>1, <3>2 DEF EndingAt
    <3>5. \A h, m, T, i : DecoderAt(h, m, T, i) => DecoderAt(h, m, T, i)'
      BY <3>1 DEF DecoderAt
    <3> QED BY <3>1, <3>3, <3>4, <3>5 DEF CoderInv
  <2> QED BY <2>1, <2>2, <2>3, <2>4, <2>5, <2>6, <2>7 DEF Next
<1> QED BY <1>1, <1>2, CoderTypesHold, PTL DEF Spec

\* What is decoded is what was encoded, for any radix and ring, any alphabet and
\* update cycles, and any calls in any order.
THEOREM WrittenComesBack == Spec => []DecodesWhatWasEncoded
<1>1. CoderTypeInv /\ CoderInv => DecodesWhatWasEncoded
  <2> SUFFICES ASSUME CoderTypeInv, CoderInv, ~overrun
               PROVE  mode # "failed" /\ result = SubSeq(written, 1, Len(result))
    BY DEF DecodesWhatWasEncoded
  <2>1. mode # "failed"
    BY DEF CoderInv
  <2>2. CASE mode \in {"encoding", "ending"}
    <3>1. result = <<>>
      BY <2>2 DEF CoderTypeInv
    <3>2. Len(result) = 0
      BY <3>1
    <3>3. SubSeq(written, 1, 0) = <<>>
      BY SubSeqEmpty
    <3> QED BY <2>1, <3>1, <3>2, <3>3
  <2>3. CASE mode = "decoding"
    <3>1. PICK h, m, F, i : DecoderAt(h, m, F, i)
      BY <2>3 DEF CoderInv
    <3> QED BY <2>1, <3>1 DEF DecoderAt
  <2> QED BY <2>1, <2>2, <2>3 DEF CoderTypeInv
<1> QED BY <1>1, CoderTypesHold, CoderInvHolds, PTL

\* The decoder has then read all that done() put out, and no more.
THEOREM StreamIsReadToItsEnd == Spec => []EndsWithTheStream
<1>1. CoderTypeInv /\ CoderInv => EndsWithTheStream
  <2> SUFFICES ASSUME CoderTypeInv, CoderInv, mode = "decoding", length >= MinLength,
                      result = written, ~overrun
               PROVE  taken = Len(stream)
    BY DEF EndsWithTheStream
  <2>1. PICK h, m, F, i : DecoderAt(h, m, F, i)
    BY DEF CoderInv
  <2>2. /\ h[m].calls = Len(written) /\ Len(result) = h[i].calls
        /\ Len(stream) = h[m].at + 4 /\ taken = h[i].at + 4
    BY <2>1 DEF DecoderAt
  <2>3. Len(written) \in Nat
    BY CoderTypes
  <2>4. ~Narrowed(h[i], h[i + 1], written, program.symbols)
    BY <2>2, <2>3 DEF Narrowed
  <2>5. i = m
    BY <2>1, <2>4, DecoderLink
  <2> QED BY <2>2, <2>5
<1> QED BY <1>1, CoderTypesHold, CoderInvHolds, PTL
==============================================================================
