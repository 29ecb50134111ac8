---------------------------- MODULE ReturnContexts ----------------------------
(***************************************************************************)
(* How coordinates are predicted: by a median of the last differences in   *)
(* the same situation, which the return number r and the number of returns *)
(* n of the pulse tell.                                                    *)
(***************************************************************************)
EXTENDS SymbolStream

\* Version 2: n, r -> context of differences and intensities.
number_return_map ==
  << <<15, 14, 13, 12, 11, 10,  9,  8>>,
     <<14,  0,  1,  3,  6, 10, 10,  9>>,
     <<13,  1,  2,  4,  7, 11, 11, 10>>,
     <<12,  3,  4,  5,  8, 12, 12, 11>>,
     <<11,  6,  7,  8,  9, 13, 13, 12>>,
     <<10, 10, 11, 12, 13, 14, 14, 13>>,
     << 9, 10, 11, 12, 13, 14, 15, 14>>,
     << 8,  9, 10, 11, 12, 13, 14, 15>> >>

ReturnMap(n, r) == number_return_map[n + 1][r + 1]

\* Version 2: n, r -> context of heights.
ReturnLevel(n, r) == Magnitude(n - r)

\* Versions 3 and 4.  The table's diagonal and first column differ from the
\* rest, which grows with r: rows for n = 0 .. 15.
number_return_map_6ctx ==
  << <<0, 1, 2, 3, 4, 5, 3, 4, 4, 5, 5, 5, 5, 5, 5, 5>>,
     <<1, 0, 1, 3, 3, 3, 3, 3, 3, 3, 3, 3, 3, 3, 3, 3>>,
     <<2, 1, 2, 4, 4, 4, 4, 4, 4, 4, 4, 3, 3, 3, 3, 3>>,
     <<3, 3, 4, 5, 4, 4, 4, 4, 4, 4, 4, 4, 4, 4, 4, 4>>,
     <<4, 3, 4, 4, 5, 4, 4, 4, 4, 4, 4, 4, 4, 4, 4, 4>>,
     <<5, 3, 4, 4, 4, 5, 4, 4, 4, 4, 4, 4, 4, 4, 4, 4>>,
     <<3, 3, 4, 4, 4, 4, 5, 4, 4, 4, 4, 4, 4, 4, 4, 4>>,
     <<4, 3, 4, 4, 4, 4, 4, 5, 4, 4, 4, 4, 4, 4, 4, 4>>,
     <<4, 3, 4, 4, 4, 4, 4, 4, 5, 4, 4, 4, 4, 4, 4, 4>>,
     <<5, 3, 4, 4, 4, 4, 4, 4, 4, 5, 4, 4, 4, 4, 4, 4>>,
     <<5, 3, 4, 4, 4, 4, 4, 4, 4, 4, 5, 4, 4, 4, 4, 4>>,
     <<5, 3, 3, 4, 4, 4, 4, 4, 4, 4, 4, 5, 5, 4, 4, 4>>,
     <<5, 3, 3, 4, 4, 4, 4, 4, 4, 4, 4, 5, 5, 5, 4, 4>>,
     <<5, 3, 3, 4, 4, 4, 4, 4, 4, 4, 4, 4, 5, 5, 5, 4>>,
     <<5, 3, 3, 4, 4, 4, 4, 4, 4, 4, 4, 4, 4, 5, 5, 5>>,
     <<5, 3, 3, 4, 4, 4, 4, 4, 4, 4, 4, 4, 4, 4, 5, 5>> >>

ReturnMap6(n, r) == number_return_map_6ctx[n + 1][r + 1]

ReturnLevel8(n, r) == Least(Magnitude(n - r), 7)

\* StreamingMedian5: five values in order; one more drives out the largest or,
\* every other time, the smallest.
StreamingMedian5 == [values |-> <<0, 0, 0, 0, 0>>, high |-> TRUE]

Insert(sorted, v) ==
  SelectSeq(sorted, LAMBDA x : x <= v) \o <<v>> \o SelectSeq(sorted, LAMBDA x : x > v)

AddToMedian(m, v) ==
  LET s == m.values IN
  CASE m.high /\ v < s[3]  -> [m EXCEPT !.values = Insert(<<s[1], s[2]>>, v) \o <<s[3], s[4]>>]
    [] m.high /\ v >= s[3] -> [values |-> <<s[1], s[2], s[3]>> \o Insert(<<s[4]>>, v), high |-> FALSE]
    [] ~m.high /\ s[3] < v -> [m EXCEPT !.values = <<s[2], s[3]>> \o Insert(<<s[4], s[5]>>, v)]
    [] OTHER               -> [values |-> Insert(<<s[2]>>, v) \o <<s[3], s[4], s[5]>>, high |-> TRUE]

Median(m) == m.values[3]

\* Version 1: the median of the last three.
Median3(d) ==
  LET largest(a, b) == IF a < b THEN b ELSE a
  IN largest(Least(d[1], d[2]), Least(largest(d[1], d[2]), d[3]))
==============================================================================
