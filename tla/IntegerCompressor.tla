-------------------------- MODULE IntegerCompressor --------------------------
(***************************************************************************)
(* IntegerCompressor codes integers by their distance from a prediction,   *)
(* folded into the range of the values; the distance goes to the coder as  *)
(* the size k of the smallest interval [1 - 2^k, 2^k] that contains it and *)
(* its place in there.  The coder is a queue (see ArithmeticCoder); the    *)
(* width of an I32 is a constant.  ("Fault:" as in LasWritePoint.)         *)
(***************************************************************************)
EXTENDS IntegerFolding, Sequences

CONSTANTS
  Width,       \* bits of an I32
  Setups,      \* constructor arguments: bits, bits_high, range (of half an I32
               \* at most, or the sum of prediction and corrector overflows)
  MaxValues    \* bound: values in a row

\* The powers of two that an I32 has bits for.
TwoTo[n \in 0 .. Width] == IF n = 0 THEN 1 ELSE 2 * TwoTo[n-1]

ASSUME CompressorAssumption ==
  /\ Width \in Nat /\ Width >= 2
  /\ Half = TwoTo[Width - 1]
  /\ Setups \subseteq [bits : 0 .. Width, bits_high : 1 .. Width, range : {0} \cup 2 .. Half \div 2]
  /\ MaxValues \in Nat

VARIABLES
  setup,       \* of compressor and decompressor alike
  coded,       \* what the coder holds: [alphabet, sym]
  sent,        \* predictions and values compressed
  got          \* values decompressed

vars == <<setup, coded, sent, got>>

\* The number of bits of a natural number.
BitLength(n) == CHOOSE k \in 0 .. Width : n < TwoTo[k] /\ (k = 0 \/ TwoTo[k-1] <= n)

\* The corrector's significant bits and range (0 for all of an I32).
CorrBits ==
  IF setup.range # 0
  THEN IF setup.range = TwoTo[BitLength(setup.range) - 1]
       THEN BitLength(setup.range) - 1 ELSE BitLength(setup.range)
  ELSE IF setup.bits \in 1 .. Width - 1 THEN setup.bits ELSE Width

CorrRange ==
  IF setup.range # 0 THEN setup.range
  ELSE IF setup.bits \in 1 .. Width - 1 THEN TwoTo[setup.bits] ELSE 0

\* Sizes of the alphabets of the models and of raw numbers.
Coded(alphabet, sym) == [alphabet |-> alphabet, sym |-> sym]

Alphabet(k) == TwoTo[AtMost(k, setup.bits_high)]

\* writeCorrector(): of the 2^k places in the interval but not in the next
\* smaller one, the lower half stands for the negative ones.
Size(c) == BitLength(IF c <= 0 THEN -c ELSE c - 1)

Place(c, k) == IF c < 0 THEN c + TwoTo[k] - 1 ELSE c - 1

\* Fault: the lower bits are cut one too short.
WriteCorrectorLoosesBit(c) ==
  LET k     == Size(c)
      place == Place(c, k)
      low   == TwoTo[k - setup.bits_high]
      size  == <<Coded(CorrBits + 1, k)>>
  IN IF k = 0 THEN size \o <<Coded(2, c)>>
     ELSE IF k = Width THEN size
     ELSE IF k <= setup.bits_high THEN size \o <<Coded(Alphabet(k), place)>>
     ELSE size \o <<Coded(Alphabet(k), place \div low), Coded(low, place % (2 * low))>>

WriteCorrector(c) ==
  LET k     == Size(c)
      place == Place(c, k)
      low   == TwoTo[k - setup.bits_high]
      size  == <<Coded(CorrBits + 1, k)>>
  IN IF k = 0 THEN size \o <<Coded(2, c)>>
     ELSE IF k = Width THEN size
     ELSE IF k <= setup.bits_high THEN size \o <<Coded(Alphabet(k), place)>>
     ELSE size \o <<Coded(Alphabet(k), place \div low), Coded(low, place % low)>>

\* readCorrector(): the corrector and how many codes it took.
CorrectorAt(place, k) == IF place >= TwoTo[k-1] THEN place + 1 ELSE place - (TwoTo[k] - 1)

ReadCorrector(codes) ==
  LET k    == codes[1].sym
      high == codes[2].sym
      low  == TwoTo[k - setup.bits_high]
  IN IF k = 0 THEN [c |-> high, codes |-> 2]
     ELSE IF k = Width THEN [c |-> CorrMin(0), codes |-> 1]
     ELSE IF k <= setup.bits_high THEN [c |-> CorrectorAt(high, k), codes |-> 2]
     ELSE [c |-> CorrectorAt(high * low + codes[3].sym, k), codes |-> 3]

------------------------------------------------------------------------------
\* Values that are unsigned or signed numbers of as many bits as the range has.
Values ==
  IF CorrRange = 0 THEN {I32} ELSE {0 .. CorrRange - 1, CorrMin(CorrRange) .. CorrMax(CorrRange)}

Init ==
  /\ setup \in Setups
  /\ coded = <<>> /\ sent = <<>> /\ got = <<>>

Compress(pred, real) ==
  /\ Len(sent) < MaxValues
  /\ coded' = coded \o WriteCorrector(Fold(CorrRange, pred, real))
  /\ sent' = Append(sent, [pred |-> pred, real |-> real])
  /\ UNCHANGED <<setup, got>>

\* The reader makes the same predictions as the writer.
Decompress ==
  /\ Len(got) < Len(sent)
  /\ LET read == ReadCorrector(coded)
         pred == sent[Len(got) + 1].pred
     IN /\ coded' = SubSeq(coded, read.codes + 1, Len(coded))
        /\ got' = Append(got, Unfold(CorrRange, pred, read.c))
  /\ UNCHANGED <<setup, sent>>

Next ==
  \/ \E values \in Values : \E pred, real \in values : Compress(pred, real)
  \/ Decompress

Spec == Init /\ [][Next]_vars

------------------------------------------------------------------------------
TypeOK ==
  /\ setup \in Setups
  /\ coded \in Seq([alphabet : Nat, sym : Int])
  /\ sent \in Seq([pred : I32, real : I32])
  /\ got \in Seq(I32)

\* What is decompressed is what was compressed, modulo the range: the lower
\* bits that the callers keep.  Nothing is left in the coder behind the last.
DecompressesWhatWasCompressed ==
  /\ \A i \in 1 .. Len(got) :
       IF CorrRange = 0 THEN got[i] = sent[i].real
       ELSE got[i] \in 0 .. CorrRange - 1 /\ (got[i] - sent[i].real) % CorrRange = 0
  /\ Len(got) = Len(sent) => coded = <<>>

\* No code is larger than its model or number of bits allows (the assertions of
\* encodeSymbol() and writeBits()).
CodesFitTheirAlphabets ==
  \A i \in 1 .. Len(coded) : coded[i].sym \in 0 .. coded[i].alphabet - 1
==============================================================================
