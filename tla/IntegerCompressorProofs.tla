----------------------- MODULE IntegerCompressorProofs -----------------------
(***************************************************************************)
(* Proofs about IntegerCompressor: for every width of an I32, every kind   *)
(* of bits and range, and any values in a row, what is decompressed is     *)
(* what was compressed.                                                    *)
(***************************************************************************)
EXTENDS IntegerCompressor, IntegerFoldingProofs, Induction, SequenceTheorems

------------------------------------------------------------------------------
(* Powers of two *)

\* f has the first n powers of two.
ArePowers(f, n) == f = [k \in 0 .. n |-> IF k = 0 THEN 1 ELSE 2 * f[k-1]]

\* There is a table of the powers of two, of any length.
LEMMA PowersExist ==
  ASSUME NEW m \in Nat
  PROVE  \E f : ArePowers(f, m)
<1> DEFINE S == {n \in Nat : \E f : ArePowers(f, n)}
<1>1. 0 \in S
  <2> DEFINE f == [k \in 0 .. 0 |-> 1]
  <2>1. ArePowers(f, 0)
    BY DEF ArePowers
  <2>. QED BY <2>1
<1>2. ASSUME NEW n \in Nat, n \in S PROVE n + 1 \in S
  <2>1. PICK f : ArePowers(f, n)
    BY <1>2
  <2> DEFINE g == [k \in 0 .. n + 1 |-> IF k = n + 1 THEN 2 * f[n] ELSE f[k]]
  <2>2. ArePowers(g, n + 1)
    BY <2>1 DEF ArePowers
  <2>. QED BY <2>2
<1>3. \A n \in Nat : n \in S
  <2> HIDE DEF S
  <2>. QED BY <1>1, <1>2, NaturalInduction
<1>. QED BY <1>3

\* TwoTo is such a table.
LEMMA TwoToDef ==
  /\ Width \in Nat /\ Width >= 2
  /\ TwoTo[0] = 1
  /\ \A n \in 0 .. Width : n # 0 => TwoTo[n] = 2 * TwoTo[n-1]
<1>1. Width \in Nat /\ Width >= 2
  BY CompressorAssumption
<1>2. PICK f : ArePowers(f, Width)
  BY <1>1, PowersExist
<1>3. ArePowers(TwoTo, Width)
  BY <1>2 DEF TwoTo, ArePowers
<1>. QED BY <1>1, <1>3 DEF ArePowers

\* Powers of two are positive.
LEMMA TwoToType == \A n \in 0 .. Width : TwoTo[n] \in Nat \ {0}
<1> DEFINE S == {n \in Nat : n <= Width => TwoTo[n] \in Nat \ {0}}
<1>1. 0 \in S
  BY TwoToDef
<1>2. ASSUME NEW n \in Nat, n \in S PROVE n + 1 \in S
  <2>1. SUFFICES ASSUME n + 1 <= Width PROVE TwoTo[n + 1] \in Nat \ {0}
    OBVIOUS
  <2>2. TwoTo[n] \in Nat \ {0} /\ TwoTo[n + 1] = 2 * TwoTo[(n + 1) - 1]
    BY <1>2, <2>1, TwoToDef
  <2>3. TwoTo[n + 1] = 2 * TwoTo[n]
    BY <2>2
  <2>. QED BY <2>2, <2>3
<1>3. \A n \in Nat : n \in S
  <2> HIDE DEF S
  <2>. QED BY <1>1, <1>2, NaturalInduction
<1>. QED BY <1>3, TwoToDef

\* A sum of exponents makes a product of powers.
LEMMA TwoToSum ==
  ASSUME NEW a \in Nat, NEW b \in Nat, a + b <= Width
  PROVE  TwoTo[a + b] = TwoTo[a] * TwoTo[b]
<1> DEFINE S == {n \in Nat : a + n <= Width => TwoTo[a + n] = TwoTo[a] * TwoTo[n]}
<1>1. 0 \in S
  <2>1. a + 0 = a
    OBVIOUS
  <2>2. SUFFICES ASSUME a <= Width PROVE TwoTo[a] = TwoTo[a] * TwoTo[0]
    BY <2>1
  <2>3. TwoTo[a] \in Nat /\ TwoTo[0] = 1
    BY <2>2, TwoToType, TwoToDef
  <2>. QED BY <2>3
<1>2. ASSUME NEW n \in Nat, n \in S PROVE n + 1 \in S
  <2>1. SUFFICES ASSUME a + (n + 1) <= Width
                 PROVE  TwoTo[a + (n + 1)] = TwoTo[a] * TwoTo[n + 1]
    OBVIOUS
  <2>2. /\ a + (n + 1) \in 0 .. Width /\ a + (n + 1) # 0 /\ (a + (n + 1)) - 1 = a + n
        /\ n + 1 \in 0 .. Width /\ n + 1 # 0 /\ (n + 1) - 1 = n
        /\ a + n <= Width /\ a \in 0 .. Width /\ n \in 0 .. Width
    BY <2>1, TwoToDef
  <2>3. TwoTo[a + (n + 1)] = 2 * TwoTo[a + n] /\ TwoTo[n + 1] = 2 * TwoTo[n]
    BY <2>2, TwoToDef
  <2>4. TwoTo[a + n] = TwoTo[a] * TwoTo[n] /\ TwoTo[a] \in Nat /\ TwoTo[n] \in Nat
    BY <1>2, <2>2, TwoToType
  <2> DEFINE x == TwoTo[a]
             y == TwoTo[n]
  <2>5. 2 * (x * y) = x * (2 * y)
    <3>1. x \in Nat /\ y \in Nat
      BY <2>4
    <3> HIDE DEF x, y
    <3>. QED BY <3>1
  <2>. QED BY <2>3, <2>4, <2>5
<1>3. \A n \in Nat : n \in S
  <2> HIDE DEF S
  <2>. QED BY <1>1, <1>2, NaturalInduction
<1>. QED BY <1>3

\* A larger exponent makes a larger power.
LEMMA TwoToGrows ==
  ASSUME NEW a \in 0 .. Width, NEW b \in 0 .. Width, a <= b
  PROVE  /\ TwoTo[a] <= TwoTo[b]
         /\ a < b => 2 * TwoTo[a] <= TwoTo[b]
<1>1. /\ b - a \in Nat /\ a + (b - a) = b /\ a \in Nat /\ a + (b - a) <= Width
      /\ b - a \in 0 .. Width
  BY TwoToDef
<1>2. TwoTo[b] = TwoTo[a] * TwoTo[b - a]
  BY <1>1, TwoToSum
<1>3. TwoTo[a] \in Nat /\ TwoTo[b - a] \in Nat \ {0}
  BY <1>1, TwoToType
<1>4. a < b => TwoTo[b - a] >= 2
  <2>1. SUFFICES ASSUME a < b PROVE TwoTo[b - a] >= 2
    OBVIOUS
  <2>2. b - a # 0 /\ (b - a) - 1 \in 0 .. Width
    BY <1>1, <2>1, TwoToDef
  <2>3. TwoTo[b - a] = 2 * TwoTo[(b - a) - 1] /\ TwoTo[(b - a) - 1] \in Nat \ {0}
    BY <1>1, <2>2, TwoToDef, TwoToType
  <2> DEFINE y == TwoTo[(b - a) - 1]
  <2> HIDE DEF y
  <2>4. TwoTo[b - a] = 2 * y /\ y \in Nat \ {0}
    BY <2>3 DEF y
  <2>. QED BY <2>4
<1> DEFINE x == TwoTo[a]
           y == TwoTo[b - a]
<1>5. x <= x * y /\ (y >= 2 => 2 * x <= x * y)
  <2>1. x \in Nat /\ y \in Nat \ {0}
    BY <1>3
  <2> HIDE DEF x, y
  <2>2. PICK z \in Nat : y = z + 1
    BY <2>1
  <2>3. x * y = x * z + x /\ x * z \in Nat
    BY <2>1, <2>2
  <2>4. y >= 2 => x * z >= x
    <3>1. SUFFICES ASSUME y >= 2 PROVE x * z >= x
      OBVIOUS
    <3>2. PICK w \in Nat : z = w + 1
      BY <3>1, <2>1, <2>2
    <3>3. x * z = x * w + x /\ x * w \in Nat
      BY <2>1, <3>2
    <3>. QED BY <3>3, <2>1
  <2>. QED BY <2>1, <2>3, <2>4
<1>. QED BY <1>2, <1>4, <1>5


------------------------------------------------------------------------------
(* Sizes *)

\* The bits of a number: enough for it, and no more than enough.
LEMMA BitLengthIs ==
  ASSUME NEW n \in Nat, NEW j \in 0 .. Width, n < TwoTo[j]
  PROVE  /\ BitLength(n) \in 0 .. j
         /\ n < TwoTo[BitLength(n)]
         /\ BitLength(n) = 0 \/ TwoTo[BitLength(n) - 1] <= n
<1> DEFINE T == {k \in 0 .. Width : n < TwoTo[k]}
<1>1. T \subseteq Nat /\ j \in T
  OBVIOUS
<1>2. PICK k \in T : \A m \in T : k <= m
  <2> HIDE DEF T
  <2>. QED BY <1>1, LeastNatural
<1>3. k = 0 \/ TwoTo[k-1] <= n
  <2>1. SUFFICES ASSUME k # 0 PROVE TwoTo[k-1] <= n
    OBVIOUS
  <2>2. k - 1 \in 0 .. Width /\ ~(k <= k - 1)
    BY <2>1, TwoToDef
  <2>3. k - 1 \notin T
    BY <1>2, <2>2
  <2>4. TwoTo[k-1] \in Nat
    BY <2>2, TwoToType
  <2>. QED BY <2>2, <2>3, <2>4
<1>4. /\ BitLength(n) \in 0 .. Width /\ n < TwoTo[BitLength(n)]
      /\ BitLength(n) = 0 \/ TwoTo[BitLength(n) - 1] <= n
  BY <1>2, <1>3 DEF BitLength
<1>5. BitLength(n) <= j
  <2>1. SUFFICES ASSUME BitLength(n) > j PROVE FALSE
    BY <1>4
  <2>2. BitLength(n) - 1 \in 0 .. Width /\ j <= BitLength(n) - 1 /\ BitLength(n) # 0
    BY <1>4, <2>1, TwoToDef
  <2>3. TwoTo[j] <= TwoTo[BitLength(n) - 1]
    BY <2>2, TwoToGrows
  <2>4. TwoTo[j] \in Nat /\ TwoTo[BitLength(n) - 1] \in Nat
    BY <2>2, TwoToType
  <2>. QED BY <1>4, <2>2, <2>3, <2>4
<1>. QED BY <1>4, <1>5

\* Half is 2 to the power of one bit less than an I32 has.
LEMMA WidthOfHalf ==
  /\ Width \in Nat /\ Width >= 2 /\ Width - 1 \in 0 .. Width
  /\ Half = TwoTo[Width - 1] /\ TwoTo[Width] = 2 * Half
  /\ Half \in Nat /\ Half >= 2
<1>1. Width \in Nat /\ Width >= 2 /\ Half = TwoTo[Width - 1]
  BY CompressorAssumption
<1>2. 0 \in 0 .. Width /\ Width - 1 \in 0 .. Width /\ Width \in 0 .. Width /\ Width # 0
  BY <1>1
<1>3. TwoTo[Width] = 2 * TwoTo[Width - 1] /\ TwoTo[Width - 1] \in Nat
  BY <1>2, TwoToDef, TwoToType
<1>4. 2 * TwoTo[0] <= TwoTo[Width - 1] /\ TwoTo[0] = 1
  BY <1>1, <1>2, TwoToGrows, TwoToDef
<1>. QED BY <1>1, <1>2, <1>3, <1>4

\* The range is none, or all of an I32 but for its sign, or half of that at most.
LEMMA Ranges ==
  ASSUME setup \in Setups
  PROVE  /\ CorrBits \in 1 .. Width
         /\ setup.bits_high \in 1 .. Width
         /\ \/ CorrRange = 0 /\ CorrBits = Width
            \/ /\ CorrRange \in 2 .. Half /\ CorrRange <= TwoTo[CorrBits]
               /\ 2 * CorrRange <= Half \/ CorrRange = Half
<1> DEFINE r == setup.range
           b == setup.bits
           n == BitLength(r)
<1>1. /\ b \in 0 .. Width /\ r \in {0} \cup 2 .. Half \div 2 /\ setup.bits_high \in 1 .. Width
      /\ Half \in Nat /\ Half >= 2 /\ Width \in Nat /\ Width >= 2
  BY CompressorAssumption, WidthOfHalf
<1> HIDE DEF r, b, n
<1>2. CASE r # 0
  <2>1. r \in Nat /\ 2 <= r /\ 2 * r <= Half /\ r < TwoTo[Width] /\ Width \in 0 .. Width
    BY <1>1, <1>2, WidthOfHalf
  <2>2. n \in 0 .. Width /\ r < TwoTo[n] /\ (n = 0 \/ TwoTo[n-1] <= r)
    BY <2>1, BitLengthIs DEF n
  <2>3. TwoTo[0] = 1 /\ 0 \in 0 .. Width /\ 1 \in 0 .. Width
    BY <1>1, TwoToDef
  <2>4. TwoTo[1] = 2
    <3>1. 1 # 0 /\ 1 - 1 = 0
      OBVIOUS
    <3>2. TwoTo[1] = 2 * TwoTo[1 - 1]
      BY <2>3, TwoToDef
    <3>. QED BY <3>1, <3>2, <2>3
  <2>5. n # 0 /\ n # 1
    BY <2>1, <2>2, <2>3, <2>4
  <2>6. CorrRange = r /\ CorrBits = IF r = TwoTo[n - 1] THEN n - 1 ELSE n
    BY <1>2 DEF CorrRange, CorrBits, r, n
  <2>7. CorrBits \in 1 .. Width
    BY <1>1, <2>2, <2>5, <2>6
  <2>8. r <= TwoTo[CorrBits]
    <3>1. TwoTo[n] \in Nat
      BY <2>2, TwoToType
    <3>. QED BY <2>1, <2>2, <2>6, <3>1
  <2>. QED BY <1>1, <2>1, <2>6, <2>7, <2>8
<1>3. CASE r = 0 /\ b \in 1 .. Width - 1
  <2>1. CorrRange = TwoTo[b] /\ CorrBits = b
    BY <1>3 DEF CorrRange, CorrBits, r, b
  <2>2. 0 \in 0 .. Width /\ Width - 1 \in 0 .. Width /\ 0 < b /\ b <= Width - 1
    BY <1>1, <1>3
  <2>3. 2 * TwoTo[0] <= TwoTo[b] /\ TwoTo[0] = 1
    BY <1>1, <2>2, TwoToGrows, TwoToDef
  <2>4. TwoTo[b] <= Half /\ (b < Width - 1 => 2 * TwoTo[b] <= Half)
    BY <1>1, <2>2, TwoToGrows, WidthOfHalf
  <2>5. b = Width - 1 => TwoTo[b] = Half
    BY WidthOfHalf
  <2>6. TwoTo[b] \in Nat
    BY <1>1, TwoToType
  <2>7. b < Width - 1 \/ b = Width - 1
    BY <1>1, <2>2
  <2>. QED BY <1>1, <1>3, <2>1, <2>3, <2>4, <2>5, <2>6, <2>7
<1>4. CASE r = 0 /\ b \notin 1 .. Width - 1
  <2>1. CorrRange = 0 /\ CorrBits = Width
    BY <1>4 DEF CorrRange, CorrBits, r, b
  <2>. QED BY <1>1, <2>1
<1>. QED BY <1>2, <1>3, <1>4


------------------------------------------------------------------------------
(* Correctors *)

\* Codes that are not too large for their models or number of bits.
FitCodes == {code \in [alphabet : Nat, sym : Nat] : code.sym < code.alphabet}

\* The larger part and the rest of a number with more bits than the larger part has.
LEMMA Parts ==
  ASSUME NEW low \in Nat \ {0}, NEW high \in Nat, NEW n \in 0 .. low * high - 1
  PROVE  /\ n \div low \in 0 .. high - 1 /\ n % low \in 0 .. low - 1
         /\ (n \div low) * low + (n % low) = n
<1>1. n \in Nat /\ n < low * high /\ low * high \in Nat
  OBVIOUS
<1> DEFINE d == n \div low
<1>2. d \in Nat /\ n % low \in 0 .. low - 1 /\ n = d * low + (n % low)
  BY <1>1
<1>3. d < high
  <2> HIDE DEF d
  <2>1. SUFFICES ASSUME high <= d PROVE FALSE
    BY <1>2
  <2>2. PICK e \in Nat : d = high + e
    BY <1>2, <2>1
  <2>3. d * low = low * high + e * low /\ e * low \in Nat
    BY <2>2
  <2> DEFINE all  == low * high
             more == e * low
  <2>4. d * low = all + more /\ more \in Nat /\ all \in Nat /\ n < all
    BY <1>1, <2>3
  <2> HIDE DEF all, more
  <2>. QED BY <1>1, <1>2, <2>4
<1>. QED BY <1>2, <1>3

\* What a corrector within the range of its models is coded as can be read back,
\* whatever follows it, and fits the models.
LEMMA ReadUndoesWrite ==
  ASSUME setup \in Setups, NEW c \in CorrMin(CorrRange) .. CorrMax(CorrRange),
         NEW rest \in Seq(FitCodes)
  PROVE  /\ WriteCorrector(c) \in Seq(FitCodes)
         /\ ReadCorrector(WriteCorrector(c) \o rest)
              = [c |-> c, codes |-> Len(WriteCorrector(c))]
<1> DEFINE high == setup.bits_high
           n    == IF c <= 0 THEN -c ELSE c - 1
           k    == BitLength(n)
           size == [alphabet |-> CorrBits + 1, sym |-> k]
<1>1. /\ CorrBits \in 1 .. Width /\ high \in 1 .. Width
      /\ Half \in Nat /\ Half >= 2 /\ Width \in Nat /\ Width >= 2
      /\ Width - 1 \in 0 .. Width /\ Width \in 0 .. Width /\ CorrBits \in 0 .. Width
      /\ Half = TwoTo[Width - 1] /\ TwoTo[Width] = 2 * Half
  BY Ranges, WidthOfHalf
<1>2. /\ c \in Int /\ n \in Nat /\ n < TwoTo[CorrBits]
      /\ -Half <= c /\ c < Half /\ (c = -Half => CorrRange = 0)
  <2>1. CASE CorrRange = 0 /\ CorrBits = Width
    BY <2>1, <1>1 DEF CorrMin, CorrMax
  <2>2. CASE CorrRange \in 2 .. Half /\ CorrRange <= TwoTo[CorrBits]
    <3> DEFINE r == CorrRange
               half == r \div 2
    <3>1. half \in Nat /\ 2 * half <= r /\ r <= 2 * half + 1 /\ r \in 2 .. Half
      BY <2>2, <1>1
    <3>2. CorrMin(r) = -half /\ CorrMax(r) = -half + r - 1 /\ r <= TwoTo[CorrBits]
      BY <2>2, <3>1, <1>1 DEF CorrMin, CorrMax
    <3>3. TwoTo[CorrBits] \in Nat
      BY <1>1, TwoToType
    <3>4. c \in CorrMin(r) .. CorrMax(r)
      OBVIOUS
    <3>5. TwoTo[CorrBits] \in Nat /\ c \in -half .. -half + r - 1 /\ CorrRange = r
      BY <3>2, <3>3, <3>4
    <3> HIDE DEF r, half
    <3>6. c \in Int /\ n \in Nat /\ n < r /\ -Half < c /\ c < Half
      BY <3>1, <3>5, <1>1
    <3>7. n < TwoTo[CorrBits]
      BY <3>1, <3>2, <3>5, <3>6
    <3>. QED BY <3>6, <3>7, <1>1
  <2>. QED BY <2>1, <2>2, Ranges
<1>3. /\ k \in 0 .. CorrBits /\ k \in 0 .. Width
      /\ n < TwoTo[k] /\ (k = 0 \/ TwoTo[k-1] <= n)
  BY <1>1, <1>2, BitLengthIs
<1>4. k = Size(c) /\ size \in FitCodes
  BY <1>1, <1>3 DEF Size, FitCodes
<1> DEFINE place == Place(c, k)
           low   == TwoTo[k - high]
<1>5. WriteCorrector(c) =
        IF k = 0 THEN <<size>> \o <<Coded(2, c)>>
        ELSE IF k = Width THEN <<size>>
        ELSE IF k <= high THEN <<size>> \o <<Coded(Alphabet(k), place)>>
        ELSE <<size>> \o <<Coded(Alphabet(k), place \div low), Coded(low, place % low)>>
  BY <1>4 DEF WriteCorrector, Coded
<1> DEFINE codes == WriteCorrector(c) \o rest
<1> HIDE DEF k
<1>6. ReadCorrector(codes) =
        IF codes[1].sym = 0 THEN [c |-> codes[2].sym, codes |-> 2]
        ELSE IF codes[1].sym = Width THEN [c |-> CorrMin(0), codes |-> 1]
        ELSE IF codes[1].sym <= high THEN [c |-> CorrectorAt(codes[2].sym, codes[1].sym), codes |-> 2]
        ELSE [c |-> CorrectorAt(codes[2].sym * TwoTo[codes[1].sym - high] + codes[3].sym,
                                codes[1].sym),
              codes |-> 3]
  BY DEF ReadCorrector
<1>7. CASE k = 0
  <2>1. c \in {0, 1}
    BY <1>2, <1>3, <1>7, TwoToDef
  <2>2. Coded(2, c) \in FitCodes /\ Coded(2, c).sym = c
    BY <2>1 DEF FitCodes, Coded
  <2>3. WriteCorrector(c) = <<size>> \o <<Coded(2, c)>>
    BY <1>5, <1>7
  <2> HIDE DEF size, k, n
  <2>4. /\ WriteCorrector(c) \in Seq(FitCodes) /\ Len(WriteCorrector(c)) = 2
        /\ codes[1] = size /\ codes[2] = Coded(2, c)
    BY <1>4, <2>2, <2>3
  <2>. QED BY <1>6, <1>7, <2>2, <2>4 DEF size
<1>8. CASE k = Width
  <2>1. c = -Half
    BY <1>1, <1>2, <1>3, <1>8
  <2>2. CorrMin(0) = c
    BY <2>1 DEF CorrMin
  <2>3. WriteCorrector(c) = <<size>>
    BY <1>1, <1>5, <1>8
  <2> HIDE DEF size, k, n
  <2>4. /\ WriteCorrector(c) \in Seq(FitCodes) /\ Len(WriteCorrector(c)) = 1
        /\ codes[1] = size
    BY <1>4, <2>3
  <2>. QED BY <1>1, <1>6, <1>8, <2>2, <2>4 DEF size
<1>9. CASE k # 0 /\ k # Width
  <2>1. /\ k - 1 \in 0 .. Width /\ TwoTo[k] = 2 * TwoTo[k-1]
        /\ TwoTo[k-1] \in Nat \ {0} /\ TwoTo[k] \in Nat
    <3>1. k - 1 \in 0 .. Width /\ k # 0
      BY <1>1, <1>3, <1>9
    <3>. QED BY <1>3, <3>1, TwoToDef, TwoToType
  <2>2. place \in 0 .. TwoTo[k] - 1 /\ CorrectorAt(place, k) = c
    <3>1. CASE c <= 0
      <4>1. n = -c /\ TwoTo[k-1] <= -c /\ -c < TwoTo[k] /\ c < 0
        BY <3>1, <1>2, <1>3, <1>9, <2>1
      <4>2. place = c + TwoTo[k] - 1
        BY <4>1 DEF Place
      <4>3. place \in 0 .. TwoTo[k] - 1 /\ ~(place >= TwoTo[k-1])
            /\ place - (TwoTo[k] - 1) = c
        <5> DEFINE all   == TwoTo[k]
                   below == TwoTo[k-1]
        <5>1. all = 2 * below /\ below \in Nat \ {0} /\ c \in Int
          BY <2>1, <1>2
        <5> HIDE DEF all, below, place
        <5>. QED BY <4>1, <4>2, <5>1 DEF all, below
      <4>. QED BY <4>3 DEF CorrectorAt
    <3>2. CASE c > 0
      <4>1. n = c - 1 /\ TwoTo[k-1] <= c - 1 /\ c - 1 < TwoTo[k] /\ ~(c < 0)
        BY <3>2, <1>2, <1>3, <1>9, <2>1
      <4>2. place = c - 1
        BY <4>1 DEF Place
      <4>3. place \in 0 .. TwoTo[k] - 1 /\ place >= TwoTo[k-1] /\ place + 1 = c
        <5> DEFINE all   == TwoTo[k]
                   below == TwoTo[k-1]
        <5>1. all = 2 * below /\ below \in Nat \ {0} /\ c \in Int
          BY <2>1, <1>2
        <5> HIDE DEF all, below, place
        <5>. QED BY <4>1, <4>2, <5>1 DEF all, below
      <4>. QED BY <4>3 DEF CorrectorAt
    <3>. QED BY <3>1, <3>2, <1>2
  <2>3. CASE k <= high
    <3> DEFINE code == Coded(Alphabet(k), place)
    <3>1. Alphabet(k) = TwoTo[k]
      BY <1>1, <1>3, <2>3 DEF Alphabet, AtMost
    <3>2. code \in FitCodes /\ code.sym = place
      BY <2>1, <2>2, <3>1 DEF FitCodes, Coded
    <3>3. WriteCorrector(c) = <<size>> \o <<code>>
      BY <1>5, <1>9, <2>3
    <3> HIDE DEF size, k, n, code, place
    <3>4. /\ WriteCorrector(c) \in Seq(FitCodes) /\ Len(WriteCorrector(c)) = 2
          /\ codes[1] = size /\ codes[2] = code
      BY <1>4, <3>2, <3>3
    <3>5. size.sym = k
      BY DEF size
    <3>. QED BY <1>6, <1>9, <2>2, <2>3, <3>2, <3>4, <3>5
  <2>4. CASE ~(k <= high)
    <3> DEFINE code1 == Coded(Alphabet(k), place \div low)
               code2 == Coded(low, place % low)
    <3>1. /\ k - high \in Nat /\ high \in Nat /\ (k - high) + high = k
          /\ (k - high) + high <= Width /\ k - high \in 0 .. Width /\ high \in 0 .. Width
      <4> HIDE DEF high
      <4>. QED BY <1>1, <1>3, <2>4
    <3>2. TwoTo[k] = low * TwoTo[high] /\ low \in Nat \ {0} /\ TwoTo[high] \in Nat
      BY <3>1, TwoToSum, TwoToType
    <3>3. Alphabet(k) = TwoTo[high]
      BY <1>1, <1>3, <2>4 DEF Alphabet, AtMost
    <3>4. /\ place \div low \in 0 .. TwoTo[high] - 1 /\ place % low \in 0 .. low - 1
          /\ (place \div low) * low + (place % low) = place
      <4> HIDE DEF place, low, k
      <4>. QED BY <2>2, <3>2, Parts
    <3>5. /\ code1 \in FitCodes /\ code1.sym = place \div low
          /\ code2 \in FitCodes /\ code2.sym = place % low
      <4> DEFINE a   == place \div low
                 b   == place % low
                 all == TwoTo[high]
      <4>1. a \in 0 .. all - 1 /\ b \in 0 .. low - 1 /\ all \in Nat /\ low \in Nat
        BY <3>2, <3>4
      <4>2. code1 = [alphabet |-> all, sym |-> a] /\ code2 = [alphabet |-> low, sym |-> b]
        BY <3>3 DEF Coded
      <4> HIDE DEF place, low, k, a, b, all, code1, code2
      <4>3. a \in Nat /\ a < all /\ b \in Nat /\ b < low
        BY <4>1
      <4>4. code1 \in FitCodes /\ code1.sym = a /\ code2 \in FitCodes /\ code2.sym = b
        BY <4>1, <4>2, <4>3 DEF FitCodes
      <4>. QED BY <4>4 DEF a, b
    <3>6. WriteCorrector(c) = <<size>> \o <<code1, code2>>
      BY <1>5, <1>9, <2>4
    <3> HIDE DEF size, k, n, code1, code2, place
    <3>7. /\ WriteCorrector(c) \in Seq(FitCodes) /\ Len(WriteCorrector(c)) = 3
          /\ codes[1] = size /\ codes[2] = code1 /\ codes[3] = code2
      BY <1>4, <3>5, <3>6
    <3>8. size.sym = k
      BY DEF size
    <3>9. ReadCorrector(codes) = [c |-> CorrectorAt(code1.sym * low + code2.sym, k), codes |-> 3]
      BY <1>6, <1>9, <2>4, <3>7, <3>8
    <3>10. CorrectorAt(code1.sym * low + code2.sym, k) = c
      <4> HIDE DEF low
      <4>1. code1.sym * low + code2.sym = place
        BY <3>4, <3>5
      <4>. QED BY <2>2, <4>1
    <3>. QED BY <3>7, <3>9, <3>10
  <2>. QED BY <2>3, <2>4
<1>. QED BY <1>7, <1>8, <1>9


------------------------------------------------------------------------------
(* The inductive invariant *)

\* The corrector of a prediction and a value.
Corrector(s) == Fold(CorrRange, s.pred, s.real)

\* What the decompressor makes of it.
Restored(s) == Unfold(CorrRange, s.pred, Corrector(s))

\* Predictions and values are of the same kind.
IsSent(s) ==
  /\ s = [pred |-> s.pred, real |-> s.real]
  /\ \E values \in Values : s.pred \in values /\ s.real \in values

\* tail[n] has the codes of the values from the n+1st on.
AreTails(tail) ==
  /\ tail \in [Len(got) .. Len(sent) -> Seq(FitCodes)]
  /\ tail[Len(got)] = coded /\ tail[Len(sent)] = <<>>
  /\ \A n \in Len(got) .. Len(sent) - 1 :
       tail[n] = WriteCorrector(Corrector(sent[n+1])) \o tail[n+1]

\* What was compressed and not yet decompressed is in the coder, value by value.
IInv ==
  /\ setup \in Setups
  /\ sent \in Seq({s \in [pred : I32, real : I32] : IsSent(s)})
  /\ got \in Seq(I32) /\ Len(got) <= Len(sent)
  /\ \A i \in 1 .. Len(got) : got[i] = Restored(sent[i])
  /\ \E tail : AreTails(tail)

\* Predictions and values of the run are of an I32, folding them gives a corrector
\* that fits, and unfolding it gives the value, modulo the range.
LEMMA SentComesBack ==
  ASSUME setup \in Setups, NEW values \in Values, NEW pred \in values, NEW real \in values
  PROVE  LET s == [pred |-> pred, real |-> real] IN
         /\ s \in [pred : I32, real : I32] /\ IsSent(s)
         /\ Corrector(s) \in CorrMin(CorrRange) .. CorrMax(CorrRange)
         /\ Restored(s) \in I32
         /\ IF CorrRange = 0 THEN Restored(s) = real
            ELSE Restored(s) \in 0 .. CorrRange - 1 /\ (Restored(s) - real) % CorrRange = 0
<1> DEFINE s == [pred |-> pred, real |-> real]
<1>1. Half \in Nat /\ Half >= 2
  BY WidthOfHalf
<1>2. CASE CorrRange = 0
  <2>1. pred \in I32 /\ real \in I32
    BY <1>2 DEF Values
  <2>2. /\ Fold(0, pred, real) \in I32
        /\ Unfold(0, pred, Fold(0, pred, real)) = real
    BY <2>1, UnfoldUndoesFoldOfI32
  <2>3. Corrector(s) \in I32 /\ Restored(s) = real
    BY <1>2, <2>2 DEF Corrector, Restored
  <2>4. CorrMin(0) .. CorrMax(0) = I32
    BY DEF CorrMin, CorrMax, I32
  <2>. QED BY <1>2, <2>1, <2>3, <2>4 DEF IsSent
<1>3. CASE CorrRange # 0
  <2>1. CorrRange \in 2 .. Half /\ (2 * CorrRange <= Half \/ CorrRange = Half)
    BY <1>3, Ranges
  <2>2. CorrRange \in Nat \ {0} /\ CorrRange <= Half
    BY <1>1, <2>1
  <2>3. CorrMin(CorrRange) = -(CorrRange \div 2)
        /\ CorrMax(CorrRange) = CorrMin(CorrRange) + CorrRange - 1
    BY <1>3 DEF CorrMin, CorrMax
  <2>4. values \in {0 .. CorrRange - 1, CorrMin(CorrRange) .. CorrMax(CorrRange)}
    BY <1>3 DEF Values
  <2>5. PICK least \in {0, CorrMin(CorrRange)} : values = least .. least + CorrRange - 1
    <3>1. 0 .. CorrRange - 1 = 0 .. 0 + CorrRange - 1
      BY <2>2
    <3>. QED BY <2>3, <2>4, <3>1
  <2>6. pred \in least .. least + CorrRange - 1 /\ real \in least .. least + CorrRange - 1
    BY <2>5
  <2>7. /\ Fold(CorrRange, pred, real) \in CorrMin(CorrRange) .. CorrMax(CorrRange)
        /\ Unfold(CorrRange, pred, Fold(CorrRange, pred, real)) \in 0 .. CorrRange - 1
        /\ (Unfold(CorrRange, pred, Fold(CorrRange, pred, real)) - real) % CorrRange = 0
    BY <2>1, <2>2, <2>6, UnfoldUndoesFoldModuloRange
  <2>8. /\ Corrector(s) = Fold(CorrRange, pred, real)
        /\ Restored(s) = Unfold(CorrRange, pred, Fold(CorrRange, pred, real))
    BY DEF Corrector, Restored
  <2>9. 0 .. CorrRange - 1 \subseteq I32 /\ least .. least + CorrRange - 1 \subseteq I32
    <3> DEFINE r == CorrRange
               half == r \div 2
    <3>1. half \in Nat /\ 2 * half <= r /\ r \in Nat /\ r <= Half /\ least \in {0, -half}
      BY <2>2, <2>3
    <3> HIDE DEF r, half
    <3>2. 0 .. r - 1 \subseteq I32 /\ least .. least + r - 1 \subseteq I32
      BY <1>1, <3>1 DEF I32
    <3>. QED BY <3>2 DEF r
  <2>10. pred \in I32 /\ real \in I32 /\ IsSent(s)
    BY <2>6, <2>9 DEF IsSent
  <2>. QED BY <1>3, <2>7, <2>8, <2>9, <2>10
<1>. QED BY <1>2, <1>3

\* The same of what was sent.
LEMMA SentIsRestored ==
  ASSUME setup \in Setups, NEW s, IsSent(s)
  PROVE  /\ Corrector(s) \in CorrMin(CorrRange) .. CorrMax(CorrRange)
         /\ Restored(s) \in I32
         /\ IF CorrRange = 0 THEN Restored(s) = s.real
            ELSE Restored(s) \in 0 .. CorrRange - 1 /\ (Restored(s) - s.real) % CorrRange = 0
<1>1. PICK values \in Values : s.pred \in values /\ s.real \in values
  BY DEF IsSent
<1>2. s = [pred |-> s.pred, real |-> s.real]
  BY DEF IsSent
<1>. QED BY <1>1, <1>2, SentComesBack

\* In the beginning there is nothing.
LEMMA InitIInv == Init => IInv
<1> SUFFICES ASSUME Init PROVE IInv
  OBVIOUS
<1> DEFINE tail == [n \in 0 .. 0 |-> <<>>]
<1>1. setup \in Setups /\ coded = <<>> /\ sent = <<>> /\ got = <<>> /\ Len(<<>>) = 0
  BY DEF Init
<1>2. AreTails(tail)
  <2>1. <<>> \in Seq(FitCodes)
    OBVIOUS
  <2>. QED BY <1>1, <2>1 DEF AreTails
<1>. QED BY <1>1, <1>2 DEF IInv

\* Codes of one more value come in behind all the tails.
LEMMA CompressStep ==
  ASSUME IInv, NEW values \in Values, NEW pred \in values, NEW real \in values,
         Compress(pred, real)
  PROVE  IInv'
<1> DEFINE s == [pred |-> pred, real |-> real]
           codes == WriteCorrector(Corrector(s))
           Sendable == {x \in [pred : I32, real : I32] : IsSent(x)}
<1>1. /\ setup' = setup /\ got' = got /\ sent' = Append(sent, s)
      /\ coded' = coded \o codes /\ setup \in Setups
  BY DEF Compress, IInv, Corrector
<1>2. s \in Sendable /\ Corrector(s) \in CorrMin(CorrRange) .. CorrMax(CorrRange)
  BY <1>1, SentComesBack
<1>3. codes \in Seq(FitCodes)
  <2>1. <<>> \in Seq(FitCodes)
    OBVIOUS
  <2>. QED BY <1>1, <1>2, <2>1, ReadUndoesWrite
<1>4. /\ CorrRange' = CorrRange /\ Values' = Values
      /\ \A x : IsSent(x)' = IsSent(x) /\ Corrector(x)' = Corrector(x) /\ Restored(x)' = Restored(x)
      /\ \A x : WriteCorrector(x)' = WriteCorrector(x)
  BY <1>1 DEF CorrRange, Values, IsSent, Corrector, Restored, WriteCorrector, CorrBits, Alphabet
<1> HIDE DEF codes, s
<1>5. /\ sent \in Seq(Sendable) /\ Len(sent) \in Nat /\ sent' \in Seq(Sendable)
      /\ Len(sent') = Len(sent) + 1 /\ sent'[Len(sent) + 1] = s
      /\ \A i \in 1 .. Len(sent) : sent'[i] = sent[i]
      /\ got \in Seq(I32) /\ Len(got) \in Nat /\ Len(got) <= Len(sent)
  BY <1>1, <1>2 DEF IInv
<1>6. PICK tail : AreTails(tail)
  BY DEF IInv
<1> DEFINE g == Len(got)
           m == Len(sent)
<1>7. /\ g \in Nat /\ m \in Nat /\ g <= m
      /\ \A n \in g .. m : tail[n] \in Seq(FitCodes)
      /\ tail[g] = coded /\ tail[m] = <<>>
      /\ \A n \in g .. m - 1 : tail[n] = WriteCorrector(Corrector(sent[n+1])) \o tail[n+1]
      /\ Len(sent') = m + 1 /\ sent'[m+1] = s /\ \A i \in 1 .. m : sent'[i] = sent[i]
  BY <1>5, <1>6 DEF AreTails
<1> HIDE DEF g, m
<1> DEFINE longer == [n \in g .. m + 1 |-> IF n = m + 1 THEN <<>> ELSE tail[n] \o codes]
<1>8. /\ longer \in [g .. m + 1 -> Seq(FitCodes)]
      /\ longer[m + 1] = <<>>
      /\ \A n \in g .. m : longer[n] = tail[n] \o codes
  <2>1. <<>> \in Seq(FitCodes) /\ m + 1 \in g .. m + 1
    BY <1>7
  <2>2. \A n \in g .. m + 1 : n # m + 1 => n \in g .. m
    BY <1>7
  <2>3. \A n \in g .. m + 1 : n # m + 1 => tail[n] \o codes \in Seq(FitCodes)
    BY <1>3, <1>7, <2>2
  <2>4. \A n \in g .. m : n \in g .. m + 1 /\ n # m + 1
    BY <1>7
  <2>. QED BY <2>1, <2>3, <2>4
<1> HIDE DEF longer
<1>9. ASSUME NEW n \in g .. m
      PROVE  longer[n] = WriteCorrector(Corrector(sent'[n+1])) \o longer[n+1]
  <2>1. CASE n = m
    <3>1. longer[n] = <<>> \o codes /\ longer[n+1] = <<>> /\ sent'[n+1] = s
      BY <1>7, <1>8, <2>1
    <3>2. <<>> \o codes = codes /\ codes \o <<>> = codes
      BY <1>3, ConcatEmptySeq
    <3>. QED BY <3>1, <3>2 DEF codes
  <2>2. CASE n # m
    <3>1. n \in g .. m - 1 /\ n + 1 \in g .. m /\ n + 1 \in 1 .. m
      BY <1>7, <2>2
    <3> DEFINE own  == WriteCorrector(Corrector(sent[n+1]))
               next == tail[n+1]
    <3>2. /\ sent'[n+1] = sent[n+1] /\ longer[n+1] = next \o codes
          /\ longer[n] = tail[n] \o codes /\ tail[n] = own \o next /\ next \in Seq(FitCodes)
      BY <1>7, <1>8, <3>1
    <3>3. own \in Seq(FitCodes)
      <4>1. sent[n+1] \in Sendable
        BY <1>5, <3>1 DEF m
      <4>2. Corrector(sent[n+1]) \in CorrMin(CorrRange) .. CorrMax(CorrRange)
        BY <1>1, <4>1, SentIsRestored
      <4>. QED BY <1>1, <3>2, <4>2, ReadUndoesWrite
    <3> HIDE DEF next
    <3>4. longer[n] = own \o longer[n+1]
      <4> HIDE DEF own
      <4>1. (own \o next) \o codes = own \o (next \o codes)
        BY <1>3, <3>2, <3>3, ConcatAssociative
      <4>. QED BY <3>2, <4>1
    <3>. QED BY <3>2, <3>4
  <2>. QED BY <2>1, <2>2
<1>10. (\E t : AreTails(t))'
  <2>1. longer[g] = coded'
    <3>1. g \in g .. m
      BY <1>7
    <3>. QED BY <1>1, <1>7, <1>8, <3>1
  <2>2. /\ longer \in [g .. m + 1 -> Seq(FitCodes)] /\ longer[m + 1] = <<>>
        /\ \A n \in g .. m : longer[n] = WriteCorrector(Corrector(sent'[n+1])) \o longer[n+1]
    BY <1>8, <1>9
  <2>3. Len(got') = g /\ Len(sent') = m + 1 /\ (m + 1) - 1 = m
    BY <1>1, <1>7 DEF g
  <2>4. PICK t : t = longer
    OBVIOUS
  <2>5. ASSUME NEW n \in g .. m
        PROVE  t[n] = WriteCorrector(Corrector(sent[n+1]))' \o t[n+1]
    <3>1. WriteCorrector(Corrector(sent[n+1]))' = WriteCorrector(Corrector(sent'[n+1]))
      BY <1>1 DEF CorrRange, Corrector, WriteCorrector, CorrBits, Alphabet
    <3>. QED BY <2>2, <2>4, <3>1
  <2>6. AreTails(t)'
    BY <2>1, <2>2, <2>3, <2>4, <2>5 DEF AreTails
  <2>. QED BY <2>6
<1>11. ASSUME NEW i \in 1 .. Len(got') PROVE (got[i] = Restored(sent[i]))'
  <2>1. i \in 1 .. g /\ i \in 1 .. m
    BY <1>1, <1>7 DEF g
  <2>2. got[i] = Restored(sent[i]) /\ sent'[i] = sent[i] /\ got'[i] = got[i]
    BY <1>1, <1>7, <2>1 DEF IInv, g
  <2>. QED BY <1>4, <2>2 DEF Restored, Corrector
<1>12. Sendable' = Sendable
  BY <1>4
<1>13. got' \in Seq(I32) /\ Len(got') <= Len(sent') /\ sent' \in Seq(Sendable) /\ setup' \in Setups
  BY <1>1, <1>5, <1>7
<1>. QED BY <1>10, <1>11, <1>12, <1>13 DEF IInv


\* The first tail begins with the codes of the next value, and goes with them.
LEMMA DecompressStep ==
  ASSUME IInv, Decompress
  PROVE  IInv'
<1> DEFINE g == Len(got)
           m == Len(sent)
           s == sent[g + 1]
           c == Corrector(s)
           read == ReadCorrector(coded)
<1>1. /\ g < m /\ setup' = setup /\ sent' = sent /\ setup \in Setups
      /\ coded' = SubSeq(coded, read.codes + 1, Len(coded))
      /\ got' = Append(got, Unfold(CorrRange, s.pred, read.c))
  BY DEF Decompress, IInv
<1>2. PICK tail : AreTails(tail)
  BY DEF IInv
<1>3. /\ g \in Nat /\ m \in Nat /\ g + 1 \in 1 .. m
      /\ got \in Seq(I32) /\ IsSent(s)
      /\ g \in g .. m - 1 /\ g + 1 \in g .. m
      /\ \A i \in 1 .. g : got[i] = Restored(sent[i])
  BY <1>1 DEF IInv
<1>4. /\ tail[g+1] \in Seq(FitCodes) /\ tail[g] = coded /\ tail[m] = <<>>
      /\ \A n \in g .. m - 1 : tail[n] = WriteCorrector(Corrector(sent[n+1])) \o tail[n+1]
      /\ \A n \in g .. m : tail[n] \in Seq(FitCodes)
  BY <1>2, <1>3 DEF AreTails
<1> HIDE DEF g, m, read
<1>5. coded = WriteCorrector(c) \o tail[g+1]
  BY <1>3, <1>4
<1>6. /\ c \in CorrMin(CorrRange) .. CorrMax(CorrRange)
      /\ Restored(s) \in I32 /\ Restored(s) = Unfold(CorrRange, s.pred, c)
  BY <1>1, <1>3, SentIsRestored DEF Restored
<1> HIDE DEF s, c
<1>7. WriteCorrector(c) \in Seq(FitCodes) /\ read = [c |-> c, codes |-> Len(WriteCorrector(c))]
  BY <1>1, <1>4, <1>5, <1>6, ReadUndoesWrite DEF read
<1>8. coded' = tail[g+1]
  <2> DEFINE own  == WriteCorrector(c)
             rest == tail[g+1]
  <2>1. own \in Seq(FitCodes) /\ rest \in Seq(FitCodes) /\ coded = own \o rest
        /\ coded' = SubSeq(coded, Len(own) + 1, Len(coded))
    BY <1>1, <1>4, <1>5, <1>7
  <2> HIDE DEF own, rest
  <2>2. SubSeq(own \o rest, Len(own) + 1, Len(own \o rest)) = rest
    BY <2>1
  <2>. QED BY <2>1, <2>2 DEF rest
<1>9. /\ got' = Append(got, Restored(s)) /\ got' \in Seq(I32) /\ Len(got') = g + 1
      /\ got'[g+1] = Restored(s) /\ \A i \in 1 .. g : got'[i] = got[i]
  BY <1>1, <1>3, <1>6, <1>7 DEF g
<1>10. ASSUME NEW i \in 1 .. Len(got') PROVE (got[i] = Restored(sent[i]))'
  <2>1. got'[i] = Restored(sent[i])
    BY <1>3, <1>9 DEF s
  <2>. QED BY <1>1, <2>1 DEF Restored, Corrector, CorrRange
<1>11. (\E t : AreTails(t))'
  <2> DEFINE shorter == [n \in g + 1 .. m |-> tail[n]]
  <2>1. /\ shorter \in [g + 1 .. m -> Seq(FitCodes)]
        /\ shorter[g+1] = coded' /\ shorter[m] = <<>>
        /\ \A n \in g + 1 .. m - 1 :
             shorter[n] = WriteCorrector(Corrector(sent[n+1])) \o shorter[n+1]
    <3>1. \A n \in g + 1 .. m : n \in g .. m
      BY <1>3
    <3>2. \A n \in g + 1 .. m - 1 : n \in g .. m - 1 /\ n \in g + 1 .. m /\ n + 1 \in g + 1 .. m
      BY <1>3
    <3>3. g + 1 \in g + 1 .. m /\ m \in g + 1 .. m
      BY <1>3
    <3>. QED BY <1>4, <1>8, <3>1, <3>2, <3>3
  <2> HIDE DEF shorter
  <2>2. PICK t : t = shorter
    OBVIOUS
  <2>3. ASSUME NEW n \in g + 1 .. m - 1
        PROVE  t[n] = WriteCorrector(Corrector(sent[n+1]))' \o t[n+1]
    <3>1. WriteCorrector(Corrector(sent[n+1]))' = WriteCorrector(Corrector(sent[n+1]))
      BY <1>1 DEF CorrRange, Corrector, WriteCorrector, CorrBits, Alphabet
    <3>. QED BY <2>1, <2>2, <3>1
  <2>4. Len(got') = g + 1 /\ Len(sent') = m
    BY <1>1, <1>9 DEF m
  <2>5. AreTails(t)'
    BY <2>1, <2>2, <2>3, <2>4 DEF AreTails
  <2>. QED BY <2>5
<1>12. ASSUME NEW x PROVE IsSent(x)' = IsSent(x)
  BY <1>1 DEF IsSent, Values, CorrRange
<1>13. (sent \in Seq({x \in [pred : I32, real : I32] : IsSent(x)}))'
  BY <1>1, <1>12 DEF IInv
<1>14. setup' \in Setups /\ Len(got') <= Len(sent')
  BY <1>1, <1>3, <1>9 DEF m
<1>. QED BY <1>9, <1>10, <1>11, <1>13, <1>14 DEF IInv

\* Every step keeps the invariant.
LEMMA NextIInv == IInv /\ [Next]_vars => IInv'
<1> SUFFICES ASSUME IInv, [Next]_vars PROVE IInv'
  OBVIOUS
<1>1. CASE \E values \in Values : \E pred, real \in values : Compress(pred, real)
  BY <1>1, CompressStep
<1>2. CASE Decompress
  BY <1>2, DecompressStep
<1>3. CASE UNCHANGED vars
  <2>1. setup' = setup /\ coded' = coded /\ sent' = sent /\ got' = got
    BY <1>3 DEF vars
  <2>2. PICK tail : AreTails(tail)
    BY DEF IInv
  <2>3. AreTails(tail)'
    <3>1. ASSUME NEW n \in Len(got) .. Len(sent) - 1
          PROVE  tail[n] = WriteCorrector(Corrector(sent[n+1]))' \o tail[n+1]
      <4>1. WriteCorrector(Corrector(sent[n+1]))' = WriteCorrector(Corrector(sent[n+1]))
        BY <2>1 DEF CorrRange, Corrector, WriteCorrector, CorrBits, Alphabet
      <4>. QED BY <2>2, <4>1 DEF AreTails
    <3>. QED BY <2>1, <2>2, <3>1 DEF AreTails
  <2>4. ASSUME NEW x PROVE IsSent(x)' = IsSent(x)
    BY <2>1 DEF IsSent, Values, CorrRange
  <2>5. (sent \in Seq({x \in [pred : I32, real : I32] : IsSent(x)}))'
    BY <2>1, <2>4 DEF IInv
  <2>6. ASSUME NEW i \in 1 .. Len(got') PROVE (got[i] = Restored(sent[i]))'
    BY <2>1 DEF IInv, Restored, Corrector, CorrRange
  <2>. QED BY <2>1, <2>3, <2>5, <2>6 DEF IInv
<1>. QED BY <1>1, <1>2, <1>3 DEF Next

------------------------------------------------------------------------------
\* For every width, every kind of bits and ranges, and any number of values: the
\* coder holds the codes of what was compressed and not yet decompressed.
THEOREM CompressorInvariant == Spec => []IInv
BY InitIInv, NextIInv, PTL DEF Spec

\* The variables of compressor and decompressor keep their types.
THEOREM CompressorTypes == Spec => []TypeOK
<1>1. IInv => TypeOK
  <2> SUFFICES ASSUME IInv PROVE TypeOK
    OBVIOUS
  <2>1. PICK tail : AreTails(tail)
    BY DEF IInv
  <2>2. coded \in Seq(FitCodes)
    <3>1. Len(got) \in Len(got) .. Len(sent)
      BY DEF IInv
    <3>. QED BY <2>1, <3>1 DEF AreTails
  <2>3. coded \in Seq([alphabet : Nat, sym : Int])
    <3>1. FitCodes \subseteq [alphabet : Nat, sym : Int]
      BY DEF FitCodes
    <3>. QED BY <2>2, <3>1, SeqMonotonic
  <2>4. sent \in Seq([pred : I32, real : I32])
    <3>1. {s \in [pred : I32, real : I32] : IsSent(s)} \subseteq [pred : I32, real : I32]
      OBVIOUS
    <3> DEFINE Sendable == {s \in [pred : I32, real : I32] : IsSent(s)}
    <3>2. sent \in Seq(Sendable) /\ Sendable \subseteq [pred : I32, real : I32]
      BY <3>1 DEF IInv
    <3> HIDE DEF Sendable
    <3>. QED BY <3>2, SeqMonotonic
  <2>. QED BY <2>3, <2>4 DEF IInv, TypeOK
<1>. QED BY <1>1, CompressorInvariant, PTL

\* compress() never hands the coder a code that is too large for its model or its
\* number of bits, at the ends of the intervals and for the smallest I32, too.
THEOREM CompressorFitsItsModels == Spec => []CodesFitTheirAlphabets
<1>1. IInv => CodesFitTheirAlphabets
  <2> SUFFICES ASSUME IInv PROVE CodesFitTheirAlphabets
    OBVIOUS
  <2>1. PICK tail : AreTails(tail)
    BY DEF IInv
  <2>2. coded \in Seq(FitCodes)
    <3>1. Len(got) \in Len(got) .. Len(sent)
      BY DEF IInv
    <3>. QED BY <2>1, <3>1 DEF AreTails
  <2>3. ASSUME NEW i \in 1 .. Len(coded) PROVE coded[i].sym \in 0 .. coded[i].alphabet - 1
    <3>1. coded[i] \in FitCodes
      BY <2>2
    <3>. QED BY <3>1 DEF FitCodes
  <2>. QED BY <2>3 DEF CodesFitTheirAlphabets
<1>. QED BY <1>1, CompressorInvariant, PTL

\* decompress() returns the values that compress() was given, in their order, or
\* the lower bits of them that the range has, and takes all that was written.
THEOREM CompressorLosesNothing == Spec => []DecompressesWhatWasCompressed
<1>1. IInv => DecompressesWhatWasCompressed
  <2> SUFFICES ASSUME IInv PROVE DecompressesWhatWasCompressed
    OBVIOUS
  <2>1. ASSUME NEW i \in 1 .. Len(got)
        PROVE  IF CorrRange = 0 THEN got[i] = sent[i].real
               ELSE got[i] \in 0 .. CorrRange - 1 /\ (got[i] - sent[i].real) % CorrRange = 0
    <3>1. IsSent(sent[i]) /\ got[i] = Restored(sent[i]) /\ setup \in Setups
      <4>1. i \in 1 .. Len(sent)
        BY DEF IInv
      <4>. QED BY <4>1 DEF IInv
    <3>. QED BY <3>1, SentIsRestored
  <2>2. Len(got) = Len(sent) => coded = <<>>
    BY DEF IInv, AreTails
  <2>. QED BY <2>1, <2>2 DEF DecompressesWhatWasCompressed
<1>. QED BY <1>1, CompressorInvariant, PTL
=============================================================================
