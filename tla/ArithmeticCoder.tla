--------------------------- MODULE ArithmeticCoder ---------------------------
(***************************************************************************)
(* ArithmeticEncoder codes bits, symbols and raw numbers into a stream;    *)
(* ArithmeticDecoder then takes them from it.  Widths are constants: a     *)
(* U32 has four digits to the base Radix, a byte is one of them.  One      *)
(* action per call of the coder, and one per turn of its renormalization   *)
(* loops, which a call begins and no other call can interrupt.             *)
(***************************************************************************)
EXTENDS ArithmeticModel

CONSTANTS
  Radix,         \* 256
  BufferSize,    \* AC_BUFFER_SIZE, half of the ring of output bytes
  TableFrom,     \* alphabets larger than this (16) are decoded by table
  RawUnits,      \* 2^bits for the raw numbers of so many bits that are written
  Programs,      \* what callers write: [symbols, kinds, calls]
  MaxBytes       \* bound: more than any program puts out (else EncoderReturns fails)

MinLength == Radix * Radix * Radix      \* AC__MinLength
Word      == Radix * MinLength          \* a U32 is less

ASSUME CoderAssumption ==
  /\ Radix \in Nat /\ Radix >= 4 /\ Radix % 2 = 0
  /\ BufferSize \in Nat \ {0}
  /\ TableFrom \in Nat
  /\ RawUnits \subseteq 2 .. MinLength
  /\ MaxBytes \in Nat
  /\ MinLength % BMUnit = 0 /\ MinLength % DMUnit = 0
  /\ Programs \subseteq [symbols : 2 .. DMUnit, kinds : SUBSET {"bit", "symbol", "raw"},
                         calls : Nat]

\* The decoder's table reaches to the end of the shortest interval a symbol is
\* taken from: ArithmeticModel has at most 2^11 symbols, its table then cells of
\* 2^6, and 2^6 * 2^9 is 2^DM__LengthShift.
ASSUME TableAssumption ==
  \A p \in Programs :
    p.symbols > TableFrom
      => DMUnit <= (MinLength \div DMUnit) * (DMUnit \div TableSize(p.symbols))

VARIABLES
  program,     \* what the caller is going to write
  mode,        \* encoding; ending, in done(); decoding; failed
  base,        \* of the encoder
  length,      \* of the encoder, then of the decoder
  outbuffer,   \* the ring of output bytes
  outbyte,     \* index of the next
  endbyte,     \* index at which half of the ring is put out
  another,     \* done(): a third zero byte follows
  stream,      \* the bytes put out
  value,       \* of the decoder
  taken,       \* bytes the decoder has read
  models,      \* of the encoder, then of the decoder
  written,     \* what has been encoded
  result,      \* what has been decoded
  overrun      \* whether a carry met a full ring of bytes it runs through

ring == <<outbuffer, outbyte, endbyte, stream>>
dec  == <<value, taken, result>>
vars == <<program, mode, base, length, ring, another, dec, models, written, overrun>>

RingSize == 2 * BufferSize
Top      == Radix - 1

Models == [bit |-> NewBitModel, symbol |-> NewModel(program.symbols)]

Call(kind, sym, unit) == [kind |-> kind, sym |-> sym, unit |-> unit]

Calls ==
  UNION { CASE kind = "bit"    -> { Call(kind, b, 2) : b \in {0, 1} }
            [] kind = "symbol" -> { Call(kind, s, 0) : s \in 0 .. program.symbols - 1 }
            [] kind = "raw"    -> UNION { { Call(kind, n, u) : n \in 0 .. u - 1 } : u \in RawUnits }
          : kind \in program.kinds }

Init ==
  /\ program \in Programs
  /\ mode = "encoding"
  /\ base = 0 /\ length = Word - 1
  /\ outbuffer = [i \in 0 .. RingSize - 1 |-> 0]    \* not initialised, never read before written
  /\ outbyte = 0 /\ endbyte = RingSize
  /\ another = TRUE
  /\ stream = <<>>
  /\ value = 0 /\ taken = 0 /\ result = <<>>
  /\ models = Models
  /\ written = <<>>
  /\ overrun = FALSE

\* The models after a call has been coded.
ModelsAfter(call) ==
  [bit |-> IF call.kind = "bit" THEN BitCoded(models.bit, call.sym) ELSE models.bit,
   symbol |-> IF call.kind = "symbol" THEN SymbolCoded(models.symbol, call.sym)
              ELSE models.symbol]

\* Where the part of the interval begins that a call stands for, and its length.
Offset(call) ==
  CASE call.kind = "bit"    -> call.sym * models.bit.bit_0_prob * (length \div BMUnit)
    [] call.kind = "symbol" -> models.symbol.distribution[call.sym] * (length \div DMUnit)
    [] call.kind = "raw"    -> call.sym * (length \div call.unit)

Part(call) ==
  CASE call.kind = "bit" ->
         IF call.sym = 0 THEN models.bit.bit_0_prob * (length \div BMUnit)
         ELSE length - Offset(call)
    [] call.kind = "symbol" ->
         IF call.sym = program.symbols - 1 THEN length - Offset(call)
         ELSE models.symbol.distribution[call.sym + 1] * (length \div DMUnit) - Offset(call)
    [] call.kind = "raw" -> length \div call.unit

------------------------------------------------------------------------------
(* ArithmeticEncoder *)

\* propagate_carry(): how far back the first byte is that is not all ones; if
\* there is none, it is the first one that was set to 0.
CarryTo ==
  CHOOSE j \in 1 .. RingSize + 1 :
    /\ j > RingSize \/ outbuffer[(outbyte - j) % RingSize] # Top
    /\ \A i \in 1 .. j - 1 : outbuffer[(outbyte - i) % RingSize] = Top

Carried ==
  [i \in 0 .. RingSize - 1 |->
     LET back == ((outbyte - 1 - i) % RingSize) + 1 IN
     IF back = CarryTo THEN outbuffer[i] + 1
     ELSE IF back = CarryTo - RingSize THEN 1
     ELSE IF back < CarryTo THEN 0 ELSE outbuffer[i]]

\* Bytes in the ring that have not been put out.
Pending == IF endbyte = RingSize THEN outbyte ELSE outbyte + BufferSize

\* Fault: the carry ends at the byte before.
NarrowShortCarry(offset, part) ==
  /\ base' = (base + offset) % Word
  /\ length' = part
  /\ IF base' < base
     THEN /\ outbuffer' = [outbuffer EXCEPT ![(outbyte - 1) % RingSize] = (@ + 1) % Radix]
          /\ overrun' = (overrun \/ CarryTo > Pending)
     ELSE UNCHANGED <<outbuffer, overrun>>

\* The interval becomes part of itself; the sum overflows as a carry.
Narrow(offset, part) ==
  /\ base' = (base + offset) % Word
  /\ length' = part
  /\ IF base' < base
     THEN /\ outbuffer' = Carried
          /\ overrun' = (overrun \/ CarryTo > Pending)
     ELSE UNCHANGED <<outbuffer, overrun>>

Encode(call) ==
  /\ mode = "encoding" /\ length >= MinLength
  /\ Len(written) < program.calls
  /\ Narrow(Offset(call), Part(call))
  /\ models' = ModelsAfter(call)
  /\ written' = Append(written, call)
  /\ UNCHANGED <<program, mode, outbyte, endbyte, another, stream, dec>>

\* A turn of renorm_enc_interval(): a digit goes to the ring, and when it is
\* full the older half of it to the stream (manage_outbuffer()).
EncoderRenorm ==
  /\ mode \in {"encoding", "ending"} /\ length < MinLength
  /\ Len(stream) < MaxBytes
  /\ LET filled == [outbuffer EXCEPT ![outbyte] = base \div MinLength]
         next   == (outbyte + 1) % RingSize
     IN /\ outbuffer' = filled
        /\ IF outbyte + 1 = endbyte
           THEN /\ stream' = stream \o [i \in 1 .. BufferSize |-> filled[next + i - 1]]
                /\ endbyte' = next + BufferSize
                /\ outbyte' = next
           ELSE /\ outbyte' = outbyte + 1
                /\ UNCHANGED <<stream, endbyte>>
  /\ base' = (base * Radix) % Word
  /\ length' = length * Radix
  /\ UNCHANGED <<program, mode, another, dec, models, written, overrun>>

\* Fault: always three zero bytes follow.
DoneThreeZeros ==
  /\ mode = "encoding" /\ length >= MinLength
  /\ mode' = "ending"
  /\ IF length > 2 * MinLength
     THEN Narrow(MinLength, MinLength \div 2)
     ELSE Narrow(MinLength \div 2, MinLength \div (2 * Radix))
  /\ UNCHANGED <<program, outbyte, endbyte, another, stream, dec, models, written>>

\* done() picks a number in the interval with as few digits as possible, ...
Done ==
  /\ mode = "encoding" /\ length >= MinLength
  /\ mode' = "ending"
  /\ another' = (length > 2 * MinLength)
  /\ IF length > 2 * MinLength
     THEN Narrow(MinLength, MinLength \div 2)
     ELSE Narrow(MinLength \div 2, MinLength \div (2 * Radix))
  /\ UNCHANGED <<program, outbyte, endbyte, stream, dec, models, written>>

\* ... puts out the ring and as many zeros as the decoder reads ahead.
Flushed ==
  LET older == IF endbyte = RingSize THEN <<>>
               ELSE [i \in 1 .. BufferSize |-> outbuffer[BufferSize + i - 1]]
  IN stream \o older \o [i \in 1 .. outbyte |-> outbuffer[i - 1]]
            \o IF another THEN <<0, 0, 0>> ELSE <<0, 0>>

\* The decoder is initialised with the first four bytes.
Open ==
  /\ mode = "ending" /\ length >= MinLength
  /\ stream' = Flushed
  /\ taken' = 4
  /\ value' = Radix * (Radix * (Radix * stream'[1] + stream'[2]) + stream'[3]) + stream'[4]
  /\ length' = Word - 1
  /\ models' = Models
  /\ mode' = "decoding"
  /\ UNCHANGED <<program, base, outbuffer, outbyte, endbyte, another, result, written, overrun>>

------------------------------------------------------------------------------
(* ArithmeticDecoder *)

\* What the value says, in the place of the call that was written there.
Decoded(call) ==
  CASE call.kind = "bit" ->
         IF value >= models.bit.bit_0_prob * (length \div BMUnit) THEN 1 ELSE 0
    [] call.kind = "symbol" ->
         SymbolAt(models.symbol, value \div (length \div DMUnit), program.symbols > TableFrom)
    [] call.kind = "raw" -> value \div (length \div call.unit)

Corrupted(call, sym) == sym = -1 \/ (call.kind = "raw" /\ sym >= call.unit)

Decode ==
  /\ mode = "decoding" /\ length >= MinLength
  /\ Len(result) < Len(written)
  /\ LET call == written[Len(result) + 1]
         sym  == Decoded(call)
         seen == [call EXCEPT !.sym = sym]
     IN IF Corrupted(call, sym)
        THEN mode' = "failed" /\ UNCHANGED <<value, length, models, result>>
        ELSE /\ value' = value - Offset(seen)
             /\ length' = Part(seen)
             /\ models' = ModelsAfter(seen)
             /\ result' = Append(result, seen)
             /\ UNCHANGED mode
  /\ UNCHANGED <<program, base, ring, another, taken, written, overrun>>

\* A turn of renorm_dec_interval(); the stream throws at its end.
DecoderRenorm ==
  /\ mode = "decoding" /\ length < MinLength
  /\ IF taken = Len(stream)
     THEN mode' = "failed" /\ UNCHANGED <<value, length, taken>>
     ELSE /\ value' = ((value * Radix) % Word) + stream[taken + 1]
          /\ taken' = taken + 1
          /\ length' = length * Radix
          /\ UNCHANGED mode
  /\ UNCHANGED <<program, base, ring, another, models, written, result, overrun>>

------------------------------------------------------------------------------
Next ==
  \/ \E call \in Calls : Encode(call)
  \/ EncoderRenorm
  \/ Done
  \/ Open
  \/ Decode
  \/ DecoderRenorm

\* The loops run on by themselves, and so does the rest of done().
Spec == Init /\ [][Next]_vars /\ WF_vars(EncoderRenorm) /\ WF_vars(Open)

------------------------------------------------------------------------------
TypeOK ==
  /\ mode \in {"encoding", "ending", "decoding", "failed"}
  /\ base \in 0 .. Word - 1
  /\ length \in 0 .. Word - 1
  /\ outbuffer \in [0 .. RingSize - 1 -> 0 .. Top]
  /\ outbyte \in 0 .. RingSize - 1
  /\ endbyte \in {BufferSize, RingSize} /\ outbyte < endbyte
  /\ stream \in Seq(0 .. Top)
  /\ value \in 0 .. Word - 1
  /\ taken \in 0 .. Len(stream)
  /\ overrun \in BOOLEAN

\* Of the interval there is a part for a 0 and one for a 1, however many of the
\* other were coded and however often the counts were halved and rounded.
BitsHaveRoom == models.bit.bit_0_prob \in 1 .. BMUnit - 1

\* What is decoded is what was encoded, bit for bit and symbol for symbol,
\* through every update of the models, carry and turn of the ring, unless a
\* carry came to bytes that were already put out (it needs AC_BUFFER_SIZE bytes
\* of all ones in a row).
DecodesWhatWasEncoded ==
  ~overrun => mode # "failed" /\ result = SubSeq(written, 1, Len(result))

\* When everything is decoded, the decoder has read the stream to its last byte:
\* LASreadPoint takes a chunk for corrupt that does not end where the next begins.
EndsWithTheStream ==
  mode = "decoding" /\ length >= MinLength /\ result = written /\ ~overrun
    => taken = Len(stream)

\* Every call of the encoder returns: its loop would not end on an empty interval,
\* which a model would cause that leaves a symbol no part of it.
EncoderReturns ==
  mode = "ending" \/ (mode = "encoding" /\ length < MinLength)
    ~> mode \in {"encoding", "decoding"} /\ length >= MinLength
==============================================================================
