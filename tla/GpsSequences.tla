----------------------------- MODULE GpsSequences -----------------------------
(***************************************************************************)
(* GPS times come in up to four interleaved sequences, each regular: a     *)
(* time is coded as a multiple of the last difference in its sequence and  *)
(* a residual, as a change of sequence, or as the first time of a new one. *)
(* Version 2 codes a time that did not change as well (u = 1), versions 3  *)
(* and 4 have said so in another layer (u = 0).  c is the scanner channel, *)
(* whose models are used.                                                  *)
(***************************************************************************)
EXTENDS SymbolStream

CONSTANTS
  MULTI,            \* LASZIP_GPSTIME_MULTI, 500
  MULTI_MINUS,      \* LASZIP_GPSTIME_MULTI_MINUS, -10
  MultiLow,         \* smaller multiples than this (10) have a context of their own
  MaxExtreme        \* extreme multiples in a row (3) before the difference is replaced

FirstTime(t) ==
  [last |-> 0, next |-> 0, time |-> [i \in 0 .. 3 |-> IF i = 0 THEN t ELSE 0],
   diff |-> [i \in 0 .. 3 |-> 0], extreme |-> [i \in 0 .. 3 |-> 0]]

\* Symbols of the model of multiples.
FULL(u) == MULTI - MULTI_MINUS + 1 + u

SymbolOf(multi) == IF multi < 0 THEN MULTI - multi ELSE multi

\* Fault: the largest multiple is taken for a negative one.
MultipleOfLargest(symbol) == IF symbol >= MULTI THEN MULTI - symbol ELSE symbol

MultipleOf(symbol) == IF symbol > MULTI THEN MULTI - symbol ELSE symbol

Extreme(multi) == multi \in {MULTI, 0, MULTI_MINUS}

ResidualContext(multi) ==
  CASE multi = 1           -> 1
    [] multi = 0           -> 7
    [] multi = MULTI       -> 4
    [] multi = MULTI_MINUS -> 6
    [] multi < 0           -> 5
    [] multi < MultiLow    -> 2
    [] OTHER               -> 3

Clamped(multi) == IF multi > MULTI THEN MULTI ELSE IF multi < MULTI_MINUS THEN MULTI_MINUS ELSE multi

\* What a difference coded as a multiple leaves behind.
AfterMultiple(g, multi, diff) ==
  LET s == g.last
      full == Extreme(multi) /\ g.extreme[s] = MaxExtreme
  IN [g EXCEPT !.diff[s] = IF full THEN diff ELSE @,
               !.extreme[s] = IF multi = 1 \/ full THEN 0 ELSE IF Extreme(multi) THEN @ + 1 ELSE @,
               !.time[s] = @ + diff]

AfterDifference(g, diff) ==
  [g EXCEPT !.diff[g.last] = diff, !.extreme[g.last] = 0, !.time[g.last] = @ + diff]

NewSequence(g, t) ==
  LET s == (g.next + 1) % 4
  IN [g EXCEPT !.last = s, !.next = s, !.diff[s] = 0, !.extreme[s] = 0, !.time[s] = t]

ZeroDiff(c) == <<"gpstime_0diff", c>>
Multi(c)    == <<"gpstime_multi", c>>
Residual(c, context) == <<"ic_gpstime", c, context>>

\* A time of the sequence that is current: it is the same, or its difference fits.
WriteInSequence(u, c, g, t) ==
  LET diff == t - g.time[g.last]
      base == g.diff[g.last]
      multiple(multi) ==
        [gps |-> AfterMultiple(g, multi, diff),
         symbols |-> Put(Multi(c), SymbolOf(multi))
                     \o Compress(Residual(c, ResidualContext(multi)), multi * base, diff)]
  IN CASE u = 1 /\ diff = 0 ->
            [gps |-> g, symbols |-> IF base = 0 THEN Put(ZeroDiff(c), 0) ELSE Put(Multi(c), FULL(u) - 1)]
       [] base = 0 /\ (u = 0 \/ diff # 0) ->
            [gps |-> AfterDifference(g, diff),
             symbols |-> Put(ZeroDiff(c), u) \o Compress(Residual(c, 0), 0, diff)]
       [] OTHER -> multiple(Clamped(I32_QUANTIZE(diff, base)))

\* The nearest other sequence whose difference fits, 0 if there is none.
OtherSequence(g, t) ==
  LET fitting == {i \in 1 .. 3 : Fits(t - g.time[(g.last + i) % 4])}
  IN IF fitting = {} THEN 0 ELSE CHOOSE i \in fitting : \A j \in fitting : i <= j

WriteElsewhere(u, c, g, t, other) ==
  LET escape == IF g.diff[g.last] = 0 THEN Put(ZeroDiff(c), u + 1 + other) ELSE Put(Multi(c), FULL(u) + other)
      announced(there) == [there EXCEPT !.symbols = escape \o @]
  IN announced(
       IF other # 0 THEN WriteInSequence(u, c, [g EXCEPT !.last = (@ + other) % 4], t)
       ELSE [gps |-> NewSequence(g, t),
             symbols |-> Compress(Residual(c, 8), g.time[g.last] \div Half, t \div Half)
                         \o Put(<<"raw", c>>, t % Half)])

WriteTime(u, c, g, t) ==
  IF Fits(t - g.time[g.last]) THEN WriteInSequence(u, c, g, t)
  ELSE WriteElsewhere(u, c, g, t, OtherSequence(g, t))

\* The reader: two halves of a new time, or one symbol and what it announces.
ReadNewTime(c, g, high) ==
  LET low == Ask(high, <<"raw", c>>)
  IN [gps |-> NewSequence(g, high.value * Half + low.value), thread |-> low, other |-> 0]

ReadMultiple(c, g, sym, multi) ==
  LET res == Decompress(sym, Residual(c, ResidualContext(multi)), multi * g.diff[g.last])
  IN [gps |-> AfterMultiple(g, multi, res.value), thread |-> res, other |-> 0]

ReadAnnounced(u, c, g, sym) ==
  LET base == g.diff[g.last]
      new  == IF base = 0 THEN u + 1 ELSE FULL(u)
      first == Decompress(sym, Residual(c, 0), 0)
  IN CASE u = 1 /\ sym.value = (IF base = 0 THEN 0 ELSE FULL(u) - 1) ->
            [gps |-> g, thread |-> sym, other |-> 0]
       [] base = 0 /\ sym.value = u ->
            [gps |-> AfterDifference(g, first.value), thread |-> first, other |-> 0]
       [] base # 0 /\ sym.value < new /\ (u = 0 \/ sym.value # FULL(u) - 1) ->
            ReadMultiple(c, g, sym, MultipleOf(sym.value))
       [] sym.value = new ->
            ReadNewTime(c, g, Decompress(sym, Residual(c, 8), g.time[g.last] \div Half))
       [] OTHER -> [gps |-> g, thread |-> sym, other |-> sym.value - new]

ReadInSequence(u, c, g, d) ==
  ReadAnnounced(u, c, g, Ask(d, IF g.diff[g.last] = 0 THEN ZeroDiff(c) ELSE Multi(c)))

ReadElsewhere(u, c, here) ==
  IF here.other \in 1 .. 3
  THEN ReadInSequence(u, c, [here.gps EXCEPT !.last = (@ + here.other) % 4], here.thread)
  ELSE here

ReadTime(u, c, g, d) == ReadElsewhere(u, c, ReadInSequence(u, c, g, d))
==============================================================================
