-------------------------- MODULE LaszipHeaderProofs --------------------------
(***************************************************************************)
(* Lemmas about headers, VLRs, attributes and items: what the functions of *)
(* the DLL that change a header do to the distance between its records and *)
(* its offset to the points (Slack), and that the items which setup() of   *)
(* LASzip makes of a point type are those that check_items() takes.        *)
(***************************************************************************)
EXTENDS LaszipHeader, Induction, SequenceTheorems

------------------------------------------------------------------------------
(* Sums *)

\* f has the sums of the first 0, 1, ..., n elements of s.
ArePartialSums(f, s, n) == f = [k \in 0..n |-> IF k = 0 THEN 0 ELSE f[k-1] + s[k]]

PartialSums(s) == CHOOSE f : ArePartialSums(f, s, Len(s))

\* Every finite sequence of numbers has its partial sums.
LEMMA PartialSumsExist ==
  ASSUME NEW s \in Seq(Int)
  PROVE  ArePartialSums(PartialSums(s), s, Len(s))
<1> DEFINE S == {n \in Nat : n <= Len(s) => \E f : ArePartialSums(f, s, n)}
<1>1. 0 \in S
  <2> DEFINE f == [k \in 0..0 |-> 0]
  <2>1. ArePartialSums(f, s, 0)
    BY DEF ArePartialSums
  <2>. QED BY <2>1
<1>2. ASSUME NEW n \in Nat, n \in S PROVE n + 1 \in S
  <2>1. SUFFICES ASSUME n + 1 <= Len(s) PROVE \E g : ArePartialSums(g, s, n + 1)
    OBVIOUS
  <2>2. PICK f : ArePartialSums(f, s, n)
    BY <1>2, <2>1
  <2> DEFINE g == [k \in 0..n+1 |-> IF k = n + 1 THEN f[n] + s[k] ELSE f[k]]
  <2>3. ArePartialSums(g, s, n + 1)
    BY <2>2 DEF ArePartialSums
  <2>. QED BY <2>3
<1>3. \A n \in Nat : n \in S
  <2> HIDE DEF S
  <2>. QED BY <1>1, <1>2, NaturalInduction
<1>4. \E f : ArePartialSums(f, s, Len(s))
  BY <1>3
<1>. QED BY <1>4 DEF PartialSums

\* The partial sums add one element after the other, and the last is Sum().
LEMMA PartialSumsProperties ==
  ASSUME NEW s \in Seq(Int)
  PROVE  /\ PartialSums(s) \in [0..Len(s) -> Int]
         /\ PartialSums(s)[0] = 0
         /\ \A n \in 1..Len(s) : PartialSums(s)[n] = PartialSums(s)[n-1] + s[n]
         /\ Sum(s) = PartialSums(s)[Len(s)]
         /\ Sum(s) \in Int
<1>1. /\ PartialSums(s)[0] = 0
      /\ \A n \in 1..Len(s) : PartialSums(s)[n] = PartialSums(s)[n-1] + s[n]
      /\ PartialSums(s) = [n \in 0..Len(s) |-> PartialSums(s)[n]]
  BY PartialSumsExist DEF ArePartialSums
<1> DEFINE S == {n \in Nat : n <= Len(s) => PartialSums(s)[n] \in Int}
<1>2. 0 \in S
  BY <1>1
<1>3. ASSUME NEW n \in Nat, n \in S PROVE n + 1 \in S
  <2>1. CASE n + 1 <= Len(s)
    <3>1. n + 1 \in 1..Len(s) /\ s[n + 1] \in Int /\ PartialSums(s)[n] \in Int
      BY <1>3, <2>1
    <3>2. PartialSums(s)[n + 1] = PartialSums(s)[n] + s[n + 1]
      BY <1>1, <3>1
    <3>. QED BY <3>1, <3>2
  <2>. QED BY <2>1
<1>4. \A n \in Nat : n \in S
  <2> HIDE DEF S
  <2>. QED BY <1>2, <1>3, NaturalInduction
<1>5. \A n \in 0..Len(s) : PartialSums(s)[n] \in Int
  BY <1>4
<1>6. Sum(s) = PartialSums(s)[Len(s)]
  BY DEF Sum, PartialSums, ArePartialSums
<1>7. PartialSums(s) \in [0..Len(s) -> Int]
  BY <1>1, <1>5
<1>8. Sum(s) \in Int
  BY <1>5, <1>6
<1>. QED BY <1>1, <1>6, <1>7, <1>8

\* A sum of integers is an integer.
LEMMA SumType == \A s \in Seq(Int) : Sum(s) \in Int
BY PartialSumsProperties

\* The sum of nothing is 0.
LEMMA SumOfNone == Sum(<<>>) = 0
<1>1. <<>> \in Seq(Int) /\ Len(<<>>) = 0
  OBVIOUS
<1>. QED BY <1>1, PartialSumsProperties

\* Sums of the second sequence behind those of the first.
LEMMA SumOfConcat ==
  ASSUME NEW s \in Seq(Int), NEW t \in Seq(Int)
  PROVE  Sum(s \o t) = Sum(s) + Sum(t)
<1> DEFINE u == s \o t
<1>1. /\ u \in Seq(Int) /\ Len(u) = Len(s) + Len(t)
      /\ \A i \in 1..Len(s) : u[i] = s[i]
      /\ \A i \in 1..Len(t) : u[Len(s) + i] = t[i]
  OBVIOUS
<1> HIDE DEF u
<1> DEFINE S == {n \in Nat : n <= Len(s) => PartialSums(u)[n] = PartialSums(s)[n]}
           T == {n \in Nat : n <= Len(t) => PartialSums(u)[Len(s) + n] = Sum(s) + PartialSums(t)[n]}
<1>2. 0 \in S
  BY <1>1, PartialSumsProperties
<1>3. ASSUME NEW n \in Nat, n \in S PROVE n + 1 \in S
  <2>1. SUFFICES ASSUME n + 1 <= Len(s) PROVE PartialSums(u)[n + 1] = PartialSums(s)[n + 1]
    OBVIOUS
  <2>2. n + 1 \in 1..Len(s) /\ n + 1 \in 1..Len(u) /\ (n + 1) - 1 = n
    BY <1>1, <2>1
  <2>3. /\ PartialSums(s)[n + 1] = PartialSums(s)[n] + s[n + 1]
        /\ PartialSums(u)[n + 1] = PartialSums(u)[n] + u[n + 1]
    BY <1>1, <2>2, PartialSumsProperties
  <2>. QED BY <1>1, <1>3, <2>1, <2>2, <2>3
<1>4. \A n \in Nat : n \in S
  <2> HIDE DEF S
  <2>. QED BY <1>2, <1>3, NaturalInduction
<1>5. 0 \in T
  <2>1. PartialSums(u)[Len(s)] = PartialSums(s)[Len(s)]
    BY <1>4
  <2>2. Sum(s) = PartialSums(s)[Len(s)] /\ Sum(s) \in Int
    BY PartialSumsProperties
  <2>3. PartialSums(t)[0] = 0
    BY PartialSumsProperties
  <2>. QED BY <2>1, <2>2, <2>3
<1>6. ASSUME NEW n \in Nat, n \in T PROVE n + 1 \in T
  <2>1. SUFFICES ASSUME n + 1 <= Len(t)
                 PROVE  PartialSums(u)[Len(s) + n + 1] = Sum(s) + PartialSums(t)[n + 1]
    OBVIOUS
  <2>2. /\ n + 1 \in 1..Len(t) /\ (n + 1) - 1 = n
        /\ Len(s) + n + 1 \in 1..Len(u) /\ (Len(s) + n + 1) - 1 = Len(s) + n
    BY <1>1, <2>1
  <2>3. /\ PartialSums(t)[n + 1] = PartialSums(t)[n] + t[n + 1]
        /\ PartialSums(u)[Len(s) + n + 1] = PartialSums(u)[Len(s) + n] + u[Len(s) + n + 1]
    BY <1>1, <2>2, PartialSumsProperties
  <2>4. u[Len(s) + n + 1] = t[n + 1] /\ t[n + 1] \in Int
    BY <1>1, <2>2
  <2>5. PartialSums(t)[n] \in Int /\ Sum(s) \in Int
    <3>1. PartialSums(t) \in [0..Len(t) -> Int] /\ n \in 0..Len(t)
      BY <2>1, PartialSumsProperties
    <3>. QED BY <3>1, SumType
  <2>. QED BY <1>6, <2>1, <2>3, <2>4, <2>5
<1>7. \A n \in Nat : n \in T
  <2> HIDE DEF T
  <2>. QED BY <1>5, <1>6, NaturalInduction
<1>8. PartialSums(u)[Len(s) + Len(t)] = Sum(s) + PartialSums(t)[Len(t)]
  BY <1>7
<1>. QED BY <1>1, <1>8, PartialSumsProperties DEF u

\* The sum of one number is that number.
LEMMA SumOfOne ==
  ASSUME NEW n \in Int
  PROVE  Sum(<<n>>) = n
<1>1. <<n>> \in Seq(Int) /\ Len(<<n>>) = 1 /\ <<n>>[1] = n /\ 1 \in 1..Len(<<n>>)
  OBVIOUS
<1> DEFINE s == <<n>>
<1> HIDE DEF s
<1>2. PartialSums(s)[1] = PartialSums(s)[1 - 1] + s[1] /\ PartialSums(s)[0] = 0 /\ Sum(s) = PartialSums(s)[Len(s)]
  BY <1>1, PartialSumsProperties DEF s
<1>. QED BY <1>1, <1>2 DEF s

\* A sequence is what is before one of its elements, the element, and the rest.
LEMMA SumAround ==
  ASSUME NEW s \in Seq(Int), NEW i \in 1..Len(s)
  PROVE  Sum(s) = Sum(SubSeq(s, 1, i - 1)) + s[i] + Sum(SubSeq(s, i + 1, Len(s)))
<1> DEFINE head == SubSeq(s, 1, i - 1)
           tail == SubSeq(s, i + 1, Len(s))
<1>1. head \in Seq(Int) /\ tail \in Seq(Int) /\ s[i] \in Int /\ <<s[i]>> \in Seq(Int)
  OBVIOUS
<1>2. s = (head \o <<s[i]>>) \o tail
  <2>1. head \o <<s[i]>> = SubSeq(s, 1, i)
    OBVIOUS
  <2>2. SubSeq(s, 1, i) \o tail = SubSeq(s, 1, Len(s))
    BY ConcatAdjacentSubSeq
  <2>. QED BY <2>1, <2>2, SubSeqFull
<1>3. Sum((head \o <<s[i]>>) \o tail) = Sum(head \o <<s[i]>>) + Sum(tail)
  <2>1. head \o <<s[i]>> \in Seq(Int)
    BY <1>1, ConcatProperties
  <2> HIDE DEF head, tail
  <2>. QED BY <1>1, <2>1, SumOfConcat
<1>4. Sum(head \o <<s[i]>>) = Sum(head) + s[i]
  BY <1>1, SumOfConcat, SumOfOne
<1> HIDE DEF head, tail
<1>5. Sum(s) = Sum(head) + s[i] + Sum(tail)
  BY <1>2, <1>3, <1>4
<1>. QED BY <1>5 DEF head, tail

\* Removing an element takes it from the sum.
LEMMA SumOfRest ==
  ASSUME NEW s \in Seq(Int), NEW i \in 1..Len(s)
  PROVE  Sum(RemoveAt(s, i)) = Sum(s) - s[i]
<1> DEFINE head == SubSeq(s, 1, i - 1)
           tail == SubSeq(s, i + 1, Len(s))
<1>1. head \in Seq(Int) /\ tail \in Seq(Int) /\ s[i] \in Int
  OBVIOUS
<1>2. Sum(head \o tail) = Sum(head) + Sum(tail) /\ Sum(head) \in Int /\ Sum(tail) \in Int
  BY <1>1, SumOfConcat, PartialSumsProperties
<1>3. RemoveAt(s, i) = head \o tail
  BY DEF RemoveAt
<1>. QED BY <1>1, <1>2, <1>3, SumAround

\* Replacing an element exchanges it in the sum.
LEMMA SumOfReplaced ==
  ASSUME NEW s \in Seq(Int), NEW i \in 1..Len(s), NEW n \in Int
  PROVE  Sum([s EXCEPT ![i] = n]) = Sum(s) - s[i] + n
<1> DEFINE t == [s EXCEPT ![i] = n]
<1>1. t \in Seq(Int) /\ i \in 1..Len(t) /\ Len(t) = Len(s) /\ t[i] = n
  OBVIOUS
<1>2. SubSeq(t, 1, i - 1) = SubSeq(s, 1, i - 1) /\ SubSeq(t, i + 1, Len(t)) = SubSeq(s, i + 1, Len(s))
  OBVIOUS
<1> DEFINE before == Sum(SubSeq(s, 1, i - 1))
           behind == Sum(SubSeq(s, i + 1, Len(s)))
<1>3. before \in Int /\ behind \in Int /\ s[i] \in Int
  <2>1. SubSeq(s, 1, i - 1) \in Seq(Int) /\ SubSeq(s, i + 1, Len(s)) \in Seq(Int)
    OBVIOUS
  <2>2. before \in Int /\ behind \in Int
    BY <2>1, SumType
  <2>3. s[i] \in Int
    OBVIOUS
  <2>. QED BY <2>2, <2>3
<1>4. Sum(s) = before + s[i] + behind
  BY SumAround
<1>5. Sum(t) = before + n + behind
  <2> HIDE DEF t
  <2>1. Sum(t) = Sum(SubSeq(t, 1, i - 1)) + t[i] + Sum(SubSeq(t, i + 1, Len(t)))
    BY <1>1, SumAround
  <2>. QED BY <1>1, <1>2, <2>1
<1> HIDE DEF before, behind
<1>. QED BY <1>3, <1>4, <1>5

------------------------------------------------------------------------------
(* VLRs *)

\* A sequence over some set is one over the set of its own elements.
LEMMA SequenceOfItsElements ==
  ASSUME NEW s
  PROVE  s \in Seq(Range(s)) <=> \E S : s \in Seq(S)
<1>1. ASSUME NEW S, s \in Seq(S) PROVE s \in Seq(Range(s))
  <2>1. s = [i \in 1..Len(s) |-> s[i]] /\ Len(s) \in Nat /\ DOMAIN s = 1..Len(s)
    BY <1>1
  <2>2. \A i \in 1..Len(s) : s[i] \in Range(s)
    BY <2>1 DEF Range
  <2> HIDE DEF Range
  <2>. QED BY <2>1, <2>2
<1>. QED BY <1>1

\* A list of attributes is a sequence over some set of attributes.
LEMMA AttributesDef ==
  ASSUME NEW s
  PROVE  AreAttributes(s) <=> \E A : s \in Seq(A) /\ \A a \in A : a.size \in Nat
<1>1. ASSUME AreAttributes(s) PROVE \E A : s \in Seq(A) /\ \A a \in A : a.size \in Nat
  <2>1. s \in Seq(Range(s)) /\ \A a \in Range(s) : a.size \in Nat
    BY <1>1 DEF AreAttributes, Range
  <2>. QED BY <2>1
<1>2. ASSUME NEW A, s \in Seq(A), \A a \in A : a.size \in Nat PROVE AreAttributes(s)
  <2>1. s \in Seq(Range(s))
    BY <1>2, SequenceOfItsElements
  <2>. QED BY <1>2, <2>1 DEF AreAttributes
<1>. QED BY <1>1, <1>2

\* A list of VLRs is a sequence over some set of VLRs.
LEMMA VlrsDef ==
  ASSUME NEW s
  PROVE  AreVlrs(s) <=> \E V : s \in Seq(V) /\ \A v \in V : IsVlr(v)
<1>1. ASSUME AreVlrs(s) PROVE \E V : s \in Seq(V) /\ \A v \in V : IsVlr(v)
  <2>1. s \in Seq(Range(s)) /\ \A v \in Range(s) : IsVlr(v)
    BY <1>1 DEF AreVlrs, Range
  <2>. QED BY <2>1
<1>2. ASSUME NEW V, s \in Seq(V), \A v \in V : IsVlr(v) PROVE AreVlrs(s)
  <2>1. s \in Seq(Range(s))
    BY <1>2, SequenceOfItsElements
  <2>. QED BY <1>2, <2>1 DEF AreVlrs
<1>. QED BY <1>1, <1>2

\* A set of natural numbers that is not empty has a least one, and Min() is it.
LEMMA MinOfNaturals ==
  ASSUME NEW S, S \subseteq Nat, S # {}
  PROVE  Min(S) \in S /\ \A n \in S : Min(S) <= n
<1>1. \E m \in S : \A n \in S : m <= n
  BY LeastNatural
<1>. QED BY <1>1 DEF Min

\* The least element of a set of natural numbers is its Min().
LEMMA MinIs ==
  ASSUME NEW S, S \subseteq Nat, NEW m \in S, \A n \in S : m <= n
  PROVE  Min(S) = m
<1>1. Min(S) \in S /\ \A n \in S : Min(S) <= n
  BY MinOfNaturals
<1>2. Min(S) \in Nat /\ m \in Nat /\ Min(S) <= m /\ m <= Min(S)
  BY <1>1
<1>. QED BY <1>2

\* What AreVlrs() says of the positions, the elements and the bytes of a list of VLRs.
LEMMA VlrsAreSequences ==
  ASSUME NEW vlrs, AreVlrs(vlrs)
  PROVE  /\ Len(vlrs) \in Nat /\ DOMAIN vlrs = 1..Len(vlrs)
         /\ \A i \in DOMAIN vlrs : IsVlr(vlrs[i])
         /\ [i \in DOMAIN vlrs |-> 54 + vlrs[i].length] \in Seq(Int)
         /\ VlrBytes(vlrs) \in Int
<1>1. PICK V : vlrs \in Seq(V) /\ \A v \in V : IsVlr(v)
  BY VlrsDef
<1>2. /\ Len(vlrs) \in Nat /\ DOMAIN vlrs = 1..Len(vlrs)
      /\ \A i \in DOMAIN vlrs : IsVlr(vlrs[i])
  BY <1>1
<1>3. \A i \in 1..Len(vlrs) : 54 + vlrs[i].length \in Int
  BY <1>2 DEF IsVlr
<1>4. [i \in DOMAIN vlrs |-> 54 + vlrs[i].length] \in Seq(Int)
  BY <1>2, <1>3
<1>. QED BY <1>2, <1>4, SumType DEF VlrBytes

\* laszip_add_vlr() of a new id adds the VLR and its header of 54 bytes.
LEMMA VlrAppended ==
  ASSUME NEW vlrs, AreVlrs(vlrs), NEW v, IsVlr(v)
  PROVE  /\ AreVlrs(Append(vlrs, v))
         /\ VlrBytes(Append(vlrs, v)) = VlrBytes(vlrs) + 54 + v.length
<1>1. PICK V : vlrs \in Seq(V) /\ \A w \in V : IsVlr(w)
  BY VlrsDef
<1>2. Append(vlrs, v) \in Seq(V \cup {v}) /\ \A w \in V \cup {v} : IsVlr(w)
  BY <1>1
<1>3. AreVlrs(Append(vlrs, v))
  BY <1>2, VlrsDef
<1> DEFINE s == [i \in DOMAIN vlrs |-> 54 + vlrs[i].length]
           t == [i \in DOMAIN Append(vlrs, v) |-> 54 + Append(vlrs, v)[i].length]
<1>4. s \in Seq(Int) /\ v.length \in Nat
  BY VlrsAreSequences DEF IsVlr
<1>5. 54 + v.length \in Int /\ <<54 + v.length>> \in Seq(Int)
  BY <1>4
<1>6. t = s \o <<54 + v.length>>
  BY <1>1, <1>4
<1>7. Sum(s \o <<54 + v.length>>) = Sum(s) + (54 + v.length) /\ Sum(s) \in Int
  BY <1>4, <1>5, SumOfConcat, SumOfOne, SumType
<1>8. VlrBytes(vlrs) = Sum(s) /\ VlrBytes(Append(vlrs, v)) = Sum(t)
  BY DEF VlrBytes
<1>9. VlrBytes(Append(vlrs, v)) = VlrBytes(vlrs) + 54 + v.length
  <2> DEFINE bytes == VlrBytes(vlrs)
             longer == VlrBytes(Append(vlrs, v))
  <2>1. longer = Sum(t) /\ bytes = Sum(s)
    BY <1>8
  <2> HIDE DEF s, t, bytes, longer
  <2>2. Sum(t) = Sum(s) + (54 + v.length)
    BY <1>6, <1>7
  <2>3. longer = bytes + 54 + v.length
    BY <1>4, <1>7, <2>1, <2>2
  <2>. QED BY <2>3 DEF bytes, longer
<1>. QED BY <1>3, <1>9

\* laszip_add_vlr() of an id that is there exchanges the data only.
LEMMA VlrReplaced ==
  ASSUME NEW vlrs, AreVlrs(vlrs), NEW v, IsVlr(v), NEW i \in DOMAIN vlrs
  PROVE  /\ AreVlrs([vlrs EXCEPT ![i] = v])
         /\ VlrBytes([vlrs EXCEPT ![i] = v]) = VlrBytes(vlrs) - vlrs[i].length + v.length
<1>1. PICK V : vlrs \in Seq(V) /\ \A w \in V : IsVlr(w)
  BY VlrsDef
<1>2. [vlrs EXCEPT ![i] = v] \in Seq(V \cup {v}) /\ \A w \in V \cup {v} : IsVlr(w)
  BY <1>1
<1>3. AreVlrs([vlrs EXCEPT ![i] = v])
  BY <1>2, VlrsDef
<1> DEFINE s == [k \in DOMAIN vlrs |-> 54 + vlrs[k].length]
           t == [k \in DOMAIN [vlrs EXCEPT ![i] = v] |-> 54 + [vlrs EXCEPT ![i] = v][k].length]
<1>4. s \in Seq(Int) /\ vlrs[i].length \in Nat /\ v.length \in Nat
  BY VlrsAreSequences DEF IsVlr
<1>5. i \in 1..Len(s) /\ s[i] = 54 + vlrs[i].length /\ 54 + v.length \in Int
  BY <1>1, <1>4
<1>6. t = [s EXCEPT ![i] = 54 + v.length]
  BY <1>1
<1>7. VlrBytes(vlrs) = Sum(s) /\ VlrBytes([vlrs EXCEPT ![i] = v]) = Sum(t)
  BY DEF VlrBytes
<1>8. Sum(t) = Sum(s) - s[i] + (54 + v.length) /\ Sum(s) \in Int
  <2> HIDE DEF s, t
  <2>. QED BY <1>4, <1>5, <1>6, SumOfReplaced, SumType
<1>9. VlrBytes([vlrs EXCEPT ![i] = v]) = VlrBytes(vlrs) - vlrs[i].length + v.length
  <2> DEFINE bytes == VlrBytes(vlrs)
             other == VlrBytes([vlrs EXCEPT ![i] = v])
  <2>1. other = Sum(t) /\ bytes = Sum(s)
    BY <1>7
  <2> HIDE DEF s, t, bytes, other
  <2>2. Sum(t) = Sum(s) - (54 + vlrs[i].length) + (54 + v.length) /\ Sum(s) \in Int
    BY <1>5, <1>8
  <2>3. \A a, b, x, y \in Int : a = x - (54 + b) + (54 + y) => a = x - b + y
    OBVIOUS
  <2>4. other \in Int
    BY <1>4, <2>1, <2>2
  <2>5. other = bytes - vlrs[i].length + v.length
    BY <1>4, <2>1, <2>2, <2>3, <2>4
  <2>. QED BY <2>5 DEF bytes, other
<1>. QED BY <1>3, <1>9

\* RemoveAt() of the community modules, element by element.
LEMMA ElementsOfRest ==
  ASSUME NEW S, NEW s \in Seq(S), NEW i \in 1..Len(s)
  PROVE  /\ RemoveAt(s, i) \in Seq(S)
         /\ Len(RemoveAt(s, i)) = Len(s) - 1
         /\ \A k \in 1..Len(s)-1 : RemoveAt(s, i)[k] = IF k < i THEN s[k] ELSE s[k + 1]
<1> DEFINE head == SubSeq(s, 1, i - 1)
           tail == SubSeq(s, i + 1, Len(s))
<1>1. RemoveAt(s, i) = head \o tail
  BY DEF RemoveAt
<1>2. /\ head \in Seq(S) /\ Len(head) = i - 1 /\ \A k \in 1..i-1 : head[k] = s[k]
      /\ tail \in Seq(S) /\ Len(tail) = Len(s) - i
      /\ \A k \in 1..Len(s)-i : tail[k] = s[k + i]
  OBVIOUS
<1> HIDE DEF head, tail
<1>3. head \o tail \in Seq(S) /\ Len(head \o tail) = Len(s) - 1
  <2>1. Len(head \o tail) = Len(head) + Len(tail) /\ head \o tail \in Seq(S)
    BY <1>2, ConcatProperties
  <2>. QED BY <1>2, <2>1
<1>4. \A k \in 1..Len(s)-1 : (head \o tail)[k] = IF k < i THEN s[k] ELSE s[k + 1]
  <2>1. TAKE k \in 1..Len(s)-1
  <2>2. (head \o tail)[k] = IF k <= Len(head) THEN head[k] ELSE tail[k - Len(head)]
    BY <1>2
  <2>3. CASE k < i
    BY <1>2, <2>2, <2>3
  <2>4. CASE ~(k < i)
    <3>1. k - Len(head) \in 1..Len(s)-i /\ ~(k <= Len(head)) /\ k - Len(head) + i = k + 1
      BY <1>2, <2>4
    <3>. QED BY <1>2, <2>2, <2>4, <3>1
  <2>. QED BY <2>3, <2>4
<1>. QED BY <1>1, <1>3, <1>4

\* Without a VLR the list is shorter by its data and its header of 54 bytes.
LEMMA VlrRemoved ==
  ASSUME NEW vlrs, AreVlrs(vlrs), NEW i \in DOMAIN vlrs
  PROVE  /\ AreVlrs(RemoveAt(vlrs, i))
         /\ VlrBytes(RemoveAt(vlrs, i)) = VlrBytes(vlrs) - 54 - vlrs[i].length
<1>1. PICK V : vlrs \in Seq(V) /\ \A w \in V : IsVlr(w)
  BY VlrsDef
<1> DEFINE r == RemoveAt(vlrs, i)
           s == [k \in DOMAIN vlrs |-> 54 + vlrs[k].length]
           t == [k \in DOMAIN r |-> 54 + r[k].length]
<1>2. /\ r \in Seq(V) /\ Len(r) = Len(vlrs) - 1 /\ Len(vlrs) \in Nat /\ i \in 1..Len(vlrs)
      /\ \A k \in 1..Len(vlrs)-1 : r[k] = IF k < i THEN vlrs[k] ELSE vlrs[k + 1]
  <2> HIDE DEF r
  <2>1. i \in 1..Len(vlrs) /\ Len(vlrs) \in Nat
    BY <1>1
  <2>. QED BY <1>1, <2>1, ElementsOfRest DEF r
<1>3. AreVlrs(r)
  BY <1>1, <1>2, VlrsDef
<1>4. s \in Seq(Int) /\ vlrs[i].length \in Nat
  BY VlrsAreSequences DEF IsVlr
<1>5. i \in 1..Len(s) /\ Len(s) = Len(vlrs) /\ s[i] = 54 + vlrs[i].length
  BY <1>1, <1>4
<1>6. t = RemoveAt(s, i)
  <2> DEFINE u == RemoveAt(s, i)
  <2>1. /\ u \in Seq(Int) /\ Len(u) = Len(vlrs) - 1
        /\ \A k \in 1..Len(vlrs)-1 : u[k] = IF k < i THEN s[k] ELSE s[k + 1]
    <3> HIDE DEF s
    <3>. QED BY <1>4, <1>5, ElementsOfRest
  <2> HIDE DEF u, r
  <2>2. DOMAIN t = 1..Len(vlrs)-1 /\ DOMAIN u = 1..Len(vlrs)-1 /\ t = [k \in 1..Len(vlrs)-1 |-> t[k]]
        /\ u = [k \in 1..Len(vlrs)-1 |-> u[k]]
    BY <1>2, <2>1
  <2>3. ASSUME NEW k \in 1..Len(vlrs)-1 PROVE t[k] = u[k]
    <3>1. t[k] = 54 + r[k].length /\ k \in 1..Len(vlrs) /\ k + 1 \in 1..Len(vlrs)
      BY <1>2, <2>2
    <3>2. s[k] = 54 + vlrs[k].length /\ s[k + 1] = 54 + vlrs[k + 1].length
      BY <1>1, <3>1
    <3>. QED BY <1>2, <2>1, <3>1, <3>2
  <2>. QED BY <2>2, <2>3 DEF u
<1>7. VlrBytes(vlrs) = Sum(s) /\ VlrBytes(r) = Sum(t)
  BY DEF VlrBytes
<1>8. Sum(t) = Sum(s) - s[i] /\ Sum(s) \in Int
  <2> HIDE DEF s, t, r
  <2>. QED BY <1>4, <1>5, <1>6, SumOfRest, SumType
<1>9. VlrBytes(r) = VlrBytes(vlrs) - 54 - vlrs[i].length
  <2> DEFINE bytes == VlrBytes(vlrs)
             fewer == VlrBytes(r)
  <2>1. fewer = Sum(t) /\ bytes = Sum(s)
    BY <1>7
  <2> HIDE DEF s, t, r, bytes, fewer
  <2>2. fewer = bytes - 54 - vlrs[i].length
    BY <1>4, <1>5, <1>8, <2>1
  <2>. QED BY <2>2 DEF bytes, fewer
<1>. QED BY <1>3, <1>9

------------------------------------------------------------------------------
(* Headers *)

\* The bytes between what the records take up and the points.
Slack(h) == h.offset - h.size - VlrBytes(h.vlrs) - h.after

\* The offset of a header is right exactly when no bytes are missing or left over.
LEMMA FieldsOfHeader ==
  ASSUME NEW h, IsHeader(h)
  PROVE  /\ Slack(h) \in Int /\ VlrBytes(h.vlrs) \in Int
         /\ OffsetIsRight(h) <=> Slack(h) = 0
<1>1. VlrBytes(h.vlrs) \in Int
  BY VlrsAreSequences DEF IsHeader
<1>2. h.size \in Int /\ h.offset \in Int /\ h.after \in Int
  BY DEF IsHeader
<1>. QED BY <1>1, <1>2 DEF Slack, OffsetIsRight

\* The VLR that is found by its id is the first one with that id.
LEMMA VlrThatIsThere ==
  ASSUME NEW h, AreVlrs(h.vlrs), NEW id, HasVlr(h, id)
  PROVE  /\ Min(Where(h, id)) \in DOMAIN h.vlrs
         /\ Vlr(h, id) = h.vlrs[Min(Where(h, id))]
         /\ Vlr(h, id).id = id /\ IsVlr(Vlr(h, id))
<1>1. Where(h, id) \subseteq Nat /\ Where(h, id) # {}
  <2>1. DOMAIN h.vlrs = 1..Len(h.vlrs) /\ Len(h.vlrs) \in Nat
    BY VlrsAreSequences
  <2>. QED BY <2>1 DEF Where, HasVlr
<1>2. Min(Where(h, id)) \in Where(h, id)
  BY <1>1, MinOfNaturals
<1>. QED BY <1>2, VlrsAreSequences DEF Where, Vlr

\* Header g differs from h in its VLRs and its offset only.
DiffersInVlrs(g, h) ==
  DOMAIN g = HeaderFields /\ \A f \in HeaderFields \ {"vlrs", "offset"} : g[f] = h[f]

\* The slack of a header whose VLRs, and offset, alone have changed.
LEMMA HeaderWithOtherVlrs ==
  ASSUME NEW h, IsHeader(h), NEW g, DiffersInVlrs(g, h), AreVlrs(g.vlrs),
         NEW n \in Int, g.offset = h.offset + n
  PROVE  /\ IsHeader(g)
         /\ Slack(g) = Slack(h) + VlrBytes(h.vlrs) - VlrBytes(g.vlrs) + n
<1>1. /\ g.minor = h.minor /\ g.format = h.format /\ g.length = h.length
      /\ g.size = h.size /\ g.after = h.after
  BY DEF DiffersInVlrs, HeaderFields
<1>2. h.size \in Int /\ h.offset \in Int /\ h.after \in Int /\ g.offset \in Int
  BY DEF IsHeader
<1>3. IsHeader(g)
  BY <1>1, <1>2 DEF IsHeader, DiffersInVlrs
<1>4. VlrBytes(h.vlrs) \in Int /\ VlrBytes(g.vlrs) \in Int
  BY <1>3, FieldsOfHeader
<1>5. Slack(g) = Slack(h) + VlrBytes(h.vlrs) - VlrBytes(g.vlrs) + n
  BY <1>1, <1>2, <1>4 DEF Slack
<1>. QED BY <1>3, <1>5

\* laszip_add_vlr() moves the offset by what it adds to the VLRs, and by no more.
LEMMA WithVlrKeepsSlack ==
  ASSUME NEW h, IsHeader(h), NEW id, NEW length, NEW data,
         IsVlr([id |-> id, length |-> length, data |-> data])
  PROVE  /\ IsHeader(WithVlr(h, id, length, data))
         /\ Slack(WithVlr(h, id, length, data)) = Slack(h)
         /\ \A other : HasVlr(WithVlr(h, id, length, data), other)
                         <=> other = id \/ HasVlr(h, other)
         /\ DiffersInVlrs(WithVlr(h, id, length, data), h)
<1> DEFINE vlr == [id |-> id, length |-> length, data |-> data]
           new == WithVlr(h, id, length, data)
           same(other) == HasVlr(new, other) <=> other = id \/ HasVlr(h, other)
<1>1. /\ vlr.id = id /\ vlr.length = length /\ length \in Nat /\ IsVlr(vlr)
      /\ AreVlrs(h.vlrs) /\ DOMAIN h = HeaderFields
      /\ h.offset \in Int /\ VlrBytes(h.vlrs) \in Int /\ Slack(h) \in Int
  BY FieldsOfHeader DEF IsVlr, IsHeader
<1> HIDE DEF vlr
<1>2. DOMAIN h.vlrs = 1..Len(h.vlrs) /\ Len(h.vlrs) \in Nat
  BY <1>1, VlrsAreSequences
<1>3. CASE HasVlr(h, id)
  <2> DEFINE i == Min(Where(h, id))
  <2>1. i \in DOMAIN h.vlrs /\ Vlr(h, id) = h.vlrs[i] /\ Vlr(h, id).length \in Nat
        /\ h.vlrs[i].id = id
    BY <1>1, <1>3, VlrThatIsThere DEF IsVlr
  <2> DEFINE vlrs == [h.vlrs EXCEPT ![i] = vlr]
             offset == h.offset - Vlr(h, id).length + length
  <2>2. new = [h EXCEPT !.vlrs = vlrs, !.offset = offset]
    BY <1>1, <1>3 DEF WithVlr, HeaderFields, vlr
  <2> HIDE DEF i, new, vlrs, offset
  <2>3. new.vlrs = vlrs /\ new.offset = offset /\ DiffersInVlrs(new, h)
    BY <1>1, <2>2 DEF HeaderFields, DiffersInVlrs
  <2>4. AreVlrs(vlrs) /\ VlrBytes(vlrs) = VlrBytes(h.vlrs) - Vlr(h, id).length + length
    BY <1>1, <2>1, VlrReplaced DEF vlrs
  <2>5. length - Vlr(h, id).length \in Int /\ offset = h.offset + (length - Vlr(h, id).length)
    BY <1>1, <2>1 DEF offset
  <2>6. /\ IsHeader(new)
        /\ Slack(new) = Slack(h) + VlrBytes(h.vlrs) - VlrBytes(vlrs) + (length - Vlr(h, id).length)
    BY <2>3, <2>4, <2>5, HeaderWithOtherVlrs
  <2>7. Slack(new) = Slack(h)
    BY <1>1, <2>1, <2>4, <2>6
  <2>8. ASSUME NEW other PROVE same(other)
    <3>1. DOMAIN vlrs = DOMAIN h.vlrs /\ \A k \in DOMAIN h.vlrs : vlrs[k].id = h.vlrs[k].id
      BY <1>1, <2>1 DEF vlrs
    <3>. QED BY <1>3, <2>3, <3>1 DEF HasVlr, Where
  <2>. QED BY <2>3, <2>6, <2>7, <2>8 DEF new
<1>4. CASE ~HasVlr(h, id)
  <2> DEFINE vlrs == Append(h.vlrs, vlr)
             offset == h.offset + 54 + length
  <2>1. new = [h EXCEPT !.vlrs = vlrs, !.offset = offset]
    BY <1>1, <1>4 DEF WithVlr, HeaderFields, vlr
  <2>2. \A k \in 1..Len(h.vlrs) : vlrs[k] = h.vlrs[k]
    <3>1. PICK V : h.vlrs \in Seq(V)
      BY <1>1, VlrsDef
    <3>. QED BY <3>1
  <2>3. vlrs[Len(h.vlrs) + 1] = vlr /\ DOMAIN vlrs = 1..Len(h.vlrs)+1
    <3>1. PICK V : h.vlrs \in Seq(V)
      BY <1>1, VlrsDef
    <3>. QED BY <3>1
  <2>4. AreVlrs(vlrs) /\ VlrBytes(vlrs) = VlrBytes(h.vlrs) + 54 + length
    BY <1>1, VlrAppended
  <2> HIDE DEF new, vlrs, offset
  <2>5. new.vlrs = vlrs /\ new.offset = offset /\ DiffersInVlrs(new, h)
    BY <1>1, <2>1 DEF HeaderFields, DiffersInVlrs
  <2>6. 54 + length \in Int /\ offset = h.offset + (54 + length)
    BY <1>1 DEF offset
  <2>7. /\ IsHeader(new)
        /\ Slack(new) = Slack(h) + VlrBytes(h.vlrs) - VlrBytes(vlrs) + (54 + length)
    BY <2>4, <2>5, <2>6, HeaderWithOtherVlrs
  <2>8. Slack(new) = Slack(h)
    BY <1>1, <2>4, <2>7
  <2>9. ASSUME NEW other PROVE same(other)
    <3>1. CASE other = id
      BY <1>1, <1>2, <2>3, <2>5, <3>1 DEF HasVlr, Where
    <3>2. CASE other # id
      BY <1>1, <1>2, <2>2, <2>3, <2>5, <3>2 DEF HasVlr, Where
    <3>. QED BY <3>1, <3>2
  <2>. QED BY <2>5, <2>7, <2>8, <2>9 DEF new
<1>. QED BY <1>3, <1>4

\* laszip_remove_vlr() takes a VLR out of the offset, but of one without data it leaves
\* the 54 bytes of the header there.
LEMMA WithoutVlrOpensSlack ==
  ASSUME NEW h, IsHeader(h), NEW id, HasVlr(h, id)
  PROVE  /\ IsHeader(WithoutVlr(h, id))
         /\ Slack(WithoutVlr(h, id)) = Slack(h) + (IF Vlr(h, id).length = 0 THEN 54 ELSE 0)
         /\ DiffersInVlrs(WithoutVlr(h, id), h)
         /\ WithoutVlr(h, id).vlrs = RemoveAt(h.vlrs, Min(Where(h, id)))
<1> DEFINE i == Min(Where(h, id))
           new == WithoutVlr(h, id)
           vlrs == RemoveAt(h.vlrs, i)
           less == IF Vlr(h, id).length = 0 THEN 0 ELSE 54 + Vlr(h, id).length
           offset == h.offset - less
<1>1. /\ AreVlrs(h.vlrs) /\ DOMAIN h = HeaderFields
      /\ h.offset \in Int /\ VlrBytes(h.vlrs) \in Int /\ Slack(h) \in Int
  BY FieldsOfHeader DEF IsHeader
<1>2. i \in DOMAIN h.vlrs /\ Vlr(h, id) = h.vlrs[i] /\ Vlr(h, id).length \in Nat
  BY <1>1, VlrThatIsThere DEF IsVlr
<1>3. new = [h EXCEPT !.vlrs = vlrs, !.offset = offset]
  BY <1>1 DEF WithoutVlr, HeaderFields
<1>4. AreVlrs(vlrs) /\ VlrBytes(vlrs) = VlrBytes(h.vlrs) - 54 - Vlr(h, id).length
  <2> HIDE DEF i
  <2>. QED BY <1>1, <1>2, VlrRemoved
<1>5. less \in Int /\ -less \in Int /\ offset = h.offset + (-less)
  BY <1>1, <1>2
<1>6. new.vlrs = vlrs /\ new.offset = offset /\ DiffersInVlrs(new, h)
  <2> HIDE DEF new, vlrs, offset
  <2>. QED BY <1>1, <1>3 DEF HeaderFields, DiffersInVlrs
<1>7. IsHeader(new) /\ Slack(new) = Slack(h) + VlrBytes(h.vlrs) - VlrBytes(vlrs) + (-less)
  <2> HIDE DEF new, vlrs, offset, less
  <2>. QED BY <1>4, <1>5, <1>6, HeaderWithOtherVlrs
<1>8. Slack(new) = Slack(h) + (IF Vlr(h, id).length = 0 THEN 54 ELSE 0)
  <2> HIDE DEF new, vlrs, i
  <2>1. CASE Vlr(h, id).length = 0
    BY <1>1, <1>2, <1>4, <1>5, <1>7, <2>1
  <2>2. CASE Vlr(h, id).length # 0
    BY <1>1, <1>2, <1>4, <1>5, <1>7, <2>2
  <2>. QED BY <2>1, <2>2
<1>. QED BY <1>6, <1>7, <1>8

\* Which VLR is found by another id does not change.
LEMMA OtherVlrStays ==
  ASSUME NEW h, IsHeader(h), NEW id, HasVlr(h, id), NEW other, other # id,
         HasVlr(h, other)
  PROVE  /\ HasVlr(WithoutVlr(h, id), other)
         /\ Vlr(WithoutVlr(h, id), other) = Vlr(h, other)
<1> DEFINE i == Min(Where(h, id))
           m == Min(Where(h, other))
           k == IF m < i THEN m ELSE m - 1
           new == WithoutVlr(h, id)
           n == Len(h.vlrs)
<1>1. AreVlrs(h.vlrs) /\ n \in Nat /\ DOMAIN h.vlrs = 1..n
  BY VlrsAreSequences DEF IsHeader
<1>2. /\ i \in 1..n /\ h.vlrs[i].id = id
      /\ m \in 1..n /\ h.vlrs[m].id = other /\ Vlr(h, other) = h.vlrs[m]
  BY <1>1, VlrThatIsThere
<1>3. \A j \in 1..n : h.vlrs[j].id = other => m <= j
  <2>1. Where(h, other) \subseteq Nat /\ Where(h, other) # {}
    BY <1>1 DEF Where, HasVlr
  <2>2. \A j \in Where(h, other) : m <= j
    BY <2>1, MinOfNaturals
  <2>. QED BY <1>1, <2>2 DEF Where
<1>4. /\ DOMAIN new.vlrs = 1..n-1
      /\ \A j \in 1..n-1 : new.vlrs[j] = IF j < i THEN h.vlrs[j] ELSE h.vlrs[j + 1]
  <2>1. PICK V : h.vlrs \in Seq(V)
    BY <1>1, VlrsDef
  <2>2. new.vlrs = RemoveAt(h.vlrs, i)
    BY WithoutVlrOpensSlack
  <2> HIDE DEF i, new, m, k
  <2>3. /\ new.vlrs \in Seq(V) /\ Len(new.vlrs) = n - 1
        /\ \A j \in 1..n-1 : new.vlrs[j] = IF j < i THEN h.vlrs[j] ELSE h.vlrs[j + 1]
    BY <1>2, <2>1, <2>2, ElementsOfRest
  <2> HIDE DEF n
  <2>. QED BY <2>3
<1> HIDE DEF i, m, n, new
<1>5. m # i
  BY <1>2
<1>6. k \in 1..n-1 /\ new.vlrs[k] = h.vlrs[m]
  <2>1. CASE m < i
    BY <1>1, <1>2, <1>4, <2>1
  <2>2. CASE ~(m < i)
    BY <1>1, <1>2, <1>4, <1>5, <2>2
  <2>. QED BY <2>1, <2>2
<1>7. ASSUME NEW j \in 1..n-1, new.vlrs[j].id = other PROVE k <= j
  <2>1. CASE j < i
    <3>1. j \in 1..n /\ h.vlrs[j].id = other
      BY <1>1, <1>2, <1>4, <1>7, <2>1
    <3>. QED BY <1>1, <1>2, <1>3, <3>1
  <2>2. CASE ~(j < i)
    <3>1. j + 1 \in 1..n /\ h.vlrs[j + 1].id = other
      BY <1>1, <1>2, <1>4, <1>7, <2>2
    <3>2. m <= j + 1
      BY <1>3, <3>1
    <3>. QED BY <1>1, <1>2, <1>5, <2>2, <3>2
  <2>. QED BY <2>1, <2>2
<1> HIDE DEF k
<1>8. Where(new, other) \subseteq Nat /\ k \in Where(new, other)
      /\ \A j \in Where(new, other) : k <= j
  BY <1>1, <1>2, <1>4, <1>6, <1>7 DEF Where
<1>9. Min(Where(new, other)) = k
  BY <1>8, MinIs
<1>. QED BY <1>2, <1>6, <1>8, <1>9 DEF HasVlr, Vlr, new

------------------------------------------------------------------------------
(* Attributes *)

\* What AreAttributes() says of the positions, elements and bytes of attributes.
LEMMA AttributesAreSequences ==
  ASSUME NEW attributes, AreAttributes(attributes)
  PROVE  /\ Len(attributes) \in Nat /\ DOMAIN attributes = 1..Len(attributes)
         /\ \A i \in DOMAIN attributes : attributes[i].size \in Nat
         /\ [i \in DOMAIN attributes |-> attributes[i].size] \in Seq(Int)
         /\ SizeOf(attributes) \in Int
<1>1. PICK A : attributes \in Seq(A) /\ \A a \in A : a.size \in Nat
  BY AttributesDef
<1>2. /\ Len(attributes) \in Nat /\ DOMAIN attributes = 1..Len(attributes)
      /\ \A i \in DOMAIN attributes : attributes[i].size \in Nat
  BY <1>1
<1>3. [i \in DOMAIN attributes |-> attributes[i].size] \in Seq(Int)
  BY <1>2
<1>. QED BY <1>2, <1>3, SumType DEF SizeOf

\* Attributes behind attributes are attributes.
LEMMA AttributesConcat ==
  ASSUME NEW s, AreAttributes(s), NEW t, AreAttributes(t)
  PROVE  AreAttributes(s \o t)
<1>1. PICK A : s \in Seq(A) /\ \A a \in A : a.size \in Nat
  BY AttributesDef
<1>2. PICK B : t \in Seq(B) /\ \A b \in B : b.size \in Nat
  BY AttributesDef
<1>3. s \in Seq(A \cup B) /\ t \in Seq(A \cup B)
  BY <1>1, <1>2
<1>4. s \o t \in Seq(A \cup B)
  BY <1>3, ConcatProperties
<1>5. \A c \in A \cup B : c.size \in Nat
  BY <1>1, <1>2
<1>6. \E C : s \o t \in Seq(C) /\ \A c \in C : c.size \in Nat
  BY <1>4, <1>5
<1>. QED BY <1>6, AttributesDef

\* Writing the attributes into their VLR, as laszip_add_attribute() does, keeps the
\* offset right and no other VLR is touched.
LEMMA WithAttributesKeepsSlack ==
  ASSUME NEW h, IsHeader(h), NEW attributes, AreAttributes(attributes)
  PROVE  /\ IsHeader(WithAttributes(h, attributes))
         /\ Slack(WithAttributes(h, attributes)) = Slack(h)
         /\ \A other : HasVlr(WithAttributes(h, attributes), other)
                         <=> other = ExtraBytesVLR \/ HasVlr(h, other)
         /\ DiffersInVlrs(WithAttributes(h, attributes), h)
<1>1. Len(attributes) \in Nat /\ 192 * Len(attributes) \in Nat
  BY AttributesAreSequences
<1>2. IsVlr([id |-> ExtraBytesVLR, length |-> 192 * Len(attributes), data |-> attributes])
  BY <1>1 DEF IsVlr
<1>. QED BY <1>2, WithVlrKeepsSlack DEF WithAttributes

\* remove_attribute() leaves attributes.
LEMMA AttributesRemain ==
  ASSUME NEW attributes, AreAttributes(attributes), NEW name
  PROVE  AreAttributes(WithoutAttribute(attributes, name))
<1> DEFINE i == Min(IndicesOf(attributes, name))
<1>1. CASE IndicesOf(attributes, name) = {}
  BY <1>1 DEF WithoutAttribute
<1>2. CASE IndicesOf(attributes, name) # {}
  <2>1. IndicesOf(attributes, name) \subseteq 1..Len(attributes)
        /\ IndicesOf(attributes, name) \subseteq Nat
    BY AttributesAreSequences DEF IndicesOf
  <2>2. i \in 1..Len(attributes)
    BY <1>2, <2>1, MinOfNaturals
  <2>3. PICK A : attributes \in Seq(A) /\ \A a \in A : a.size \in Nat
    BY AttributesDef
  <2> HIDE DEF i
  <2>4. RemoveAt(attributes, i) \in Seq(A)
    BY <2>2, <2>3, ElementsOfRest
  <2>. QED BY <1>2, <2>3, <2>4, AttributesDef DEF WithoutAttribute, i
<1>. QED BY <1>1, <1>2

\* The same when laszip_read_header() takes the five attributes of old points away.
LEMMA AttributesRemainWithoutOldPoints ==
  ASSUME NEW attributes, AreAttributes(attributes)
  PROVE  AreAttributes(WithoutOldPoints(attributes))
BY AttributesRemain DEF WithoutOldPoints

\* Attributes for the extra bytes that none describes are attributes.
LEMMA DescribedAreAttributes ==
  ASSUME NEW h, IsHeader(h), NEW attributes, AreAttributes(attributes), NEW existing \in Int
  PROVE  AreAttributes(Described(attributes, h, existing))
<1> DEFINE known == IF HasVlr(h, ExtraBytesVLR) THEN Vlr(h, ExtraBytesVLR).data ELSE attributes
           n == Max({0, existing - SizeOf(known)})
           byte == [name |-> "unknown", size |-> 1]
           more == [i \in 1..n |-> byte]
<1>1. AreAttributes(known)
  BY VlrThatIsThere DEF IsHeader, IsVlr
<1>2. n \in Nat
  <2>1. existing - SizeOf(known) \in Int
    <3>1. SizeOf(known) \in Int
      BY <1>1, AttributesAreSequences
    <3> HIDE DEF known
    <3>. QED BY <3>1
  <2>2. \A k \in Int : Max({0, k}) = IF k >= 0 THEN k ELSE 0
    BY DEF Max
  <2> HIDE DEF known
  <2>. QED BY <2>1, <2>2
<1>3. more \in Seq({byte}) /\ \A a \in {byte} : a.size \in Nat
  <2> HIDE DEF n
  <2>. QED BY <1>2
<1>4. AreAttributes(more)
  BY <1>3, AttributesDef
<1>5. AreAttributes(known \o more)
  <2> HIDE DEF known, more
  <2>. QED BY <1>1, <1>4, AttributesConcat
<1>. QED BY <1>5 DEF Described

\* The attributes that an old point type needs for a new one are attributes.
LEMMA ForOldPointsAreAttributes ==
  ASSUME NEW attributes, AreAttributes(attributes), NEW format
  PROVE  AreAttributes(ForOldPoints(attributes, format))
<1> DEFINE A == {ScanAngle, ExtendedReturns, Classification, FlagsAndChannel, NIRBand}
           s == <<ScanAngle, ExtendedReturns, Classification, FlagsAndChannel>>
           t == IF format \in {8, 10} THEN <<NIRBand>> ELSE <<>>
<1>1. \A a \in A : a.size \in Nat
  <2>1. ScanAngle.size = 2 /\ ExtendedReturns.size = 1 /\ Classification.size = 1
        /\ FlagsAndChannel.size = 1 /\ NIRBand.size = 2
    BY DEF ScanAngle, ExtendedReturns, Classification, FlagsAndChannel, NIRBand
  <2>. QED BY <2>1
<1>2. s \in Seq(A) /\ t \in Seq(A)
  <2>1. ScanAngle \in A /\ ExtendedReturns \in A /\ Classification \in A
        /\ FlagsAndChannel \in A /\ NIRBand \in A
    OBVIOUS
  <2> HIDE DEF A
  <2>. QED BY <2>1
<1> HIDE DEF A
<1>3. AreAttributes(s) /\ AreAttributes(t)
  BY <1>1, <1>2, AttributesDef
<1> HIDE DEF s, t
<1>4. AreAttributes((attributes \o s) \o t)
  BY <1>3, AttributesConcat
<1>5. attributes \o s \o t = (attributes \o s) \o t
  OBVIOUS
<1>. QED BY <1>4 DEF ForOldPoints, s, t

------------------------------------------------------------------------------
(* Conversions of a header *)

\* Header g has the VLRs of h, in front of as many more or fewer bytes.
LEMMA HeaderWithSameVlrs ==
  ASSUME NEW h, IsHeader(h), NEW g, DOMAIN g = HeaderFields, g.vlrs = h.vlrs,
         g.minor \in 0..5, g.format \in 0..10, g.length \in Int,
         NEW n \in Int, g.size = h.size + n, g.offset = h.offset + n, g.after = h.after
  PROVE  /\ IsHeader(g) /\ Slack(g) = Slack(h)
         /\ \A id : (HasVlr(g, id) <=> HasVlr(h, id)) /\ Vlr(g, id) = Vlr(h, id)
<1>1. h.size \in Int /\ h.offset \in Int /\ h.after \in Int /\ VlrBytes(h.vlrs) \in Int
  BY FieldsOfHeader DEF IsHeader
<1>2. IsHeader(g)
  BY <1>1 DEF IsHeader
<1>3. Slack(g) = Slack(h)
  BY <1>1 DEF Slack
<1>. QED BY <1>2, <1>3 DEF HasVlr, Vlr, Where

\* laszip_prepare_header_for_write() changes the counters of the header only.
LEMMA WithOldCountersKeepsSlack ==
  ASSUME NEW h, IsHeader(h)
  PROVE  /\ IsHeader(WithOldCounters(h)) /\ Slack(WithOldCounters(h)) = Slack(h)
         /\ \A f \in HeaderFields \ {"count", "by"} : WithOldCounters(h)[f] = h[f]
<1> DEFINE g == WithOldCounters(h)
<1>1. PICK count, by : g = h \/ g = [h EXCEPT !.count = count, !.by = by]
  <2>1. CASE h.format > 5
    <3>1. ~(h.format <= 5 /\ h.minor > 3)
      BY <2>1 DEF IsHeader
    <3>2. g = [h EXCEPT !.count = 0, !.by = [r \in 1..5 |-> 0]]
      BY <2>1, <3>1 DEF WithOldCounters
    <3>. QED BY <3>2
  <2>2. CASE h.format <= 5 /\ h.minor > 3
    <3>1. ~(h.format > 5)
      BY <2>2 DEF IsHeader
    <3> DEFINE count == IF AgreeUpTo(h, 0) THEN h.extended.count ELSE h.count
               by == [r \in 1..5 |-> IF AgreeUpTo(h, r) THEN h.extended.by[r] ELSE h.by[r]]
    <3>2. g = [h EXCEPT !.count = count, !.by = by]
      BY <2>2, <3>1 DEF WithOldCounters
    <3>. QED BY <3>2
  <2>3. CASE ~(h.format > 5) /\ ~(h.format <= 5 /\ h.minor > 3)
    <3>1. g = h
      BY <2>3 DEF WithOldCounters
    <3>. QED BY <3>1
  <2>. QED BY <2>1, <2>2, <2>3
<1>2. DOMAIN g = HeaderFields /\ \A f \in HeaderFields \ {"count", "by"} : g[f] = h[f]
  <2> HIDE DEF g
  <2>. QED BY <1>1 DEF IsHeader, HeaderFields
<1>3. /\ g.vlrs = h.vlrs /\ g.minor = h.minor /\ g.format = h.format /\ g.length = h.length
      /\ g.size = h.size /\ g.offset = h.offset /\ g.after = h.after
  BY <1>2 DEF HeaderFields
<1>4. g.size = h.size + 0 /\ g.offset = h.offset + 0
  BY <1>3 DEF IsHeader
<1>5. h.minor \in 0..5 /\ h.format \in 0..10 /\ h.length \in Int
  BY DEF IsHeader
<1> HIDE DEF g
<1>6. IsHeader(g) /\ Slack(g) = Slack(h)
  BY <1>2, <1>3, <1>4, <1>5, HeaderWithSameVlrs
<1>. QED BY <1>2, <1>6 DEF g

\* The header of an older version is shorter, and the points are as much nearer.
LEMMA ShortenedKeepsSlack ==
  ASSUME NEW h, IsHeader(h), NEW minor \in 0..5, NEW less \in Int
  PROVE  /\ IsHeader(Shortened(h, minor, less)) /\ Slack(Shortened(h, minor, less)) = Slack(h)
         /\ \A f \in HeaderFields \ {"size", "offset", "minor"} :
              Shortened(h, minor, less)[f] = h[f]
<1> DEFINE g == Shortened(h, minor, less)
           fewer == (IF h.minor >= 4 THEN less ELSE 0) + (IF h.minor >= 5 THEN 18 ELSE 0)
<1>1. fewer \in Int /\ -fewer \in Int
  OBVIOUS
<1>2. /\ DOMAIN g = HeaderFields
      /\ g.size = h.size - fewer /\ g.offset = h.offset - fewer /\ g.minor = minor
      /\ \A f \in HeaderFields \ {"size", "offset", "minor"} : g[f] = h[f]
  <2> HIDE DEF fewer
  <2>. QED BY DEF Shortened, IsHeader, HeaderFields, fewer
<1>3. /\ g.vlrs = h.vlrs /\ g.format = h.format /\ g.length = h.length /\ g.after = h.after
  BY <1>2 DEF HeaderFields
<1>4. g.size = h.size + (-fewer) /\ g.offset = h.offset + (-fewer)
  BY <1>1, <1>2 DEF IsHeader
<1> HIDE DEF g, fewer
<1>5. IsHeader(g) /\ Slack(g) = Slack(h)
  BY <1>1, <1>2, <1>3, <1>4, HeaderWithSameVlrs DEF IsHeader
<1>. QED BY <1>2, <1>5 DEF g

\* Every new point type has an old one it is written as.
LEMMA OldFormats == \A format \in 6..10 : OldFormat(format) \in 1..5
BY DEF OldFormat

\* laszip_prepare_point_for_write() in compatibility mode
LEMMA DowngradedKeepsSlack ==
  ASSUME NEW h, IsHeader(h)
  PROVE  /\ IsHeader(Downgraded(h)) /\ Slack(Downgraded(h)) = Slack(h)
         /\ Downgraded(h).format = h.format /\ Downgraded(h).length = h.length + 3
         /\ \A other : HasVlr(Downgraded(h), other)
                         <=> other = CompatibilityVLR \/ HasVlr(h, other)
<1> DEFINE old == IF h.format <= 8 THEN Shortened(h, 2, 148) ELSE Shortened(h, 3, 140)
           count == h.extended.count
           by == [r \in 1..5 |-> h.extended.by[r]]
           recoded == [old EXCEPT !.count = count, !.by = by, !.wkt = FALSE, !.length = @ - 2 + 5]
           length == IF h.minor >= 5 THEN 174 ELSE 156
           data == [version |-> IF h.minor = 5 THEN 4 ELSE 3, extended |-> recoded.extended,
                    gps |-> IF h.minor >= 5 THEN recoded.gps ELSE <<>>]
<1>1. Downgraded(h) = WithVlr(recoded, CompatibilityVLR, length, data)
  BY DEF Downgraded, WithCompatibility
<1>2. /\ IsHeader(old) /\ Slack(old) = Slack(h)
      /\ \A f \in HeaderFields \ {"size", "offset", "minor"} : old[f] = h[f]
  BY ShortenedKeepsSlack
<1>3. old.format = h.format /\ old.length = h.length /\ old.vlrs = h.vlrs /\ DOMAIN old = HeaderFields
      /\ old.length \in Int
  BY <1>2 DEF HeaderFields, IsHeader
<1>4. /\ DOMAIN recoded = HeaderFields
      /\ recoded.length = old.length - 2 + 5
      /\ \A f \in HeaderFields \ {"count", "by", "wkt", "length"} : recoded[f] = old[f]
  <2> HIDE DEF old, count, by
  <2>. QED BY <1>3 DEF HeaderFields
<1>5. /\ recoded.vlrs = old.vlrs /\ recoded.minor = old.minor /\ recoded.format = old.format
      /\ recoded.size = old.size /\ recoded.offset = old.offset /\ recoded.after = old.after
  <2> HIDE DEF recoded
  <2>. QED BY <1>4 DEF HeaderFields
<1> HIDE DEF old, recoded, data
<1>6. /\ old.minor \in 0..5 /\ old.format \in 0..10
      /\ old.size \in Int /\ old.offset \in Int /\ h.length \in Int
  BY <1>2, <1>3 DEF IsHeader
<1>7. /\ recoded.size = old.size + 0 /\ recoded.offset = old.offset + 0
      /\ recoded.length = h.length + 3 /\ recoded.length \in Int
      /\ recoded.minor \in 0..5 /\ recoded.format \in 0..10
  BY <1>3, <1>4, <1>5, <1>6
<1>8. /\ IsHeader(recoded) /\ Slack(recoded) = Slack(old)
      /\ \A id : HasVlr(recoded, id) <=> HasVlr(old, id)
  BY <1>2, <1>4, <1>5, <1>7, HeaderWithSameVlrs
<1>9. \A id : HasVlr(old, id) <=> HasVlr(h, id)
  BY <1>3 DEF HasVlr, Where
<1>10. IsVlr([id |-> CompatibilityVLR, length |-> length, data |-> data])
  BY DEF IsVlr, CompatibilityVLR, ExtraBytesVLR
<1> HIDE DEF length
<1> DEFINE new == WithVlr(recoded, CompatibilityVLR, length, data)
<1>11. /\ IsHeader(new) /\ Slack(new) = Slack(recoded)
       /\ \A other : HasVlr(new, other) <=> other = CompatibilityVLR \/ HasVlr(recoded, other)
       /\ DiffersInVlrs(new, recoded)
  BY <1>8, <1>10, WithVlrKeepsSlack
<1> HIDE DEF new
<1>12. new.format = recoded.format /\ new.length = recoded.length
  BY <1>11 DEF DiffersInVlrs, HeaderFields
<1>. QED BY <1>1, <1>2, <1>3, <1>5, <1>7, <1>8, <1>9, <1>11, <1>12 DEF new

\* Every old point type that was written for a new one leads back to a new one.
LEMMA NewFormats == \A format \in {1, 3, 4, 5} : \A nir : NewFormat(format, nir) \in 6..10
BY DEF NewFormat

\* The header of a newer version is longer, and the points are as much further.
LEMMA LengthenedKeepsSlack ==
  ASSUME NEW h, IsHeader(h), NEW version, NEW more \in Int
  PROVE  /\ IsHeader(Lengthened(h, version, more))
         /\ Slack(Lengthened(h, version, more)) = Slack(h)
         /\ Lengthened(h, version, more).format = h.format
<1> DEFINE g == Lengthened(h, version, more)
           added == more + (IF version = 4 THEN 18 ELSE 0)
<1>1. added \in Int
  OBVIOUS
<1>2. /\ DOMAIN g = HeaderFields
      /\ g.size = h.size + added /\ g.offset = h.offset + added /\ g.minor \in 0..5
      /\ g.vlrs = h.vlrs /\ g.format = h.format /\ g.length = h.length /\ g.after = h.after
  <2> HIDE DEF added
  <2>. QED BY DEF Lengthened, IsHeader, HeaderFields, added
<1> HIDE DEF g, added
<1>3. h.format \in 0..10 /\ h.length \in Int
  BY DEF IsHeader
<1>4. IsHeader(g) /\ Slack(g) = Slack(h)
  BY <1>1, <1>2, <1>3, HeaderWithSameVlrs
<1>. QED BY <1>2, <1>4 DEF g

\* The attributes that remain are written back, or their VLR goes: its data is not
\* empty, so its header goes too, and the offset stays right.
LEMMA WithTheRestKeepsSlack ==
  ASSUME NEW h, IsHeader(h), NEW attributes, AreAttributes(attributes),
         HasVlr(h, ExtraBytesVLR), Vlr(h, ExtraBytesVLR).data # <<>>
  PROVE  /\ IsHeader(WithTheRest(h, attributes))
         /\ Slack(WithTheRest(h, attributes)) = Slack(h)
         /\ WithTheRest(h, attributes).format = h.format
<1>1. CASE attributes = <<>>
  <2> DEFINE vlr == Vlr(h, ExtraBytesVLR)
             g == WithoutVlr(h, ExtraBytesVLR)
  <2>1. IsVlr(vlr) /\ vlr.id = ExtraBytesVLR
    BY VlrThatIsThere DEF IsHeader
  <2>2. AreAttributes(vlr.data) /\ vlr.length = 192 * Len(vlr.data) /\ vlr.data # <<>>
    BY <2>1 DEF IsVlr
  <2>3. vlr.length # 0
    <3>1. PICK A : vlr.data \in Seq(A)
      BY <2>2, AttributesDef
    <3>2. Len(vlr.data) \in Nat /\ Len(vlr.data) # 0
      BY <2>2, <3>1, EmptySeq
    <3>. QED BY <2>2, <3>2
  <2>4. /\ IsHeader(g) /\ DiffersInVlrs(g, h)
        /\ Slack(g) = Slack(h) + (IF vlr.length = 0 THEN 54 ELSE 0)
    BY WithoutVlrOpensSlack
  <2>5. Slack(g) = Slack(h) + 0 /\ Slack(h) \in Int
    BY <2>3, <2>4, FieldsOfHeader
  <2>6. Slack(g) = Slack(h) /\ g.format = h.format
    BY <2>4, <2>5 DEF DiffersInVlrs, HeaderFields
  <2>. QED BY <1>1, <2>4, <2>6 DEF WithTheRest
<1>2. CASE attributes # <<>>
  <2>1. WithTheRest(h, attributes) = WithAttributes(h, attributes)
    BY <1>2 DEF WithTheRest
  <2>. QED BY <2>1, WithAttributesKeepsSlack DEF DiffersInVlrs, HeaderFields
<1>. QED BY <1>1, <1>2

\* laszip_read_header() of a header of compatibility mode
LEMMA UpgradedKeepsSlack ==
  ASSUME NEW h, IsHeader(h), IsCompatible(h), NEW start,
         HasVlr(h, ExtraBytesVLR), Vlr(h, ExtraBytesVLR).data # <<>>
  PROVE  IsHeader(Upgraded(h, start)) /\ Slack(Upgraded(h, start)) = Slack(h)
<1> DEFINE kept == Vlr(h, CompatibilityVLR).data
           more == IF h.minor < 3 THEN 148 ELSE 140
           attributes == WithoutOldPoints(Vlr(h, ExtraBytesVLR).data)
           short == WithoutVlr(h, CompatibilityVLR)
           bare == WithTheRest(short, attributes)
           new == Lengthened(bare, kept.version, more)
           gps == IF kept.version = 4 THEN kept.gps ELSE new.gps
           wkt == new.wkt \/ HasVlr(bare, WktVLR)
           format == NewFormat(new.format, start.nir)
           g == [new EXCEPT !.extended = kept.extended, !.gps = gps, !.wkt = wkt,
                            !.format = format, !.length = @ + 2 - 5]
<1>1. /\ HasVlr(h, CompatibilityVLR) /\ Vlr(h, CompatibilityVLR).length # 0
      /\ h.format \in {1, 3, 4, 5} /\ ExtraBytesVLR # CompatibilityVLR
  <2>1. HasVlr(h, CompatibilityVLR) /\ Vlr(h, CompatibilityVLR).length \in {156, 174}
        /\ h.format \in {1, 3, 4, 5}
    BY DEF IsCompatible
  <2>2. ExtraBytesVLR # CompatibilityVLR
    BY DEF ExtraBytesVLR, CompatibilityVLR
  <2>. QED BY <2>1, <2>2
<1>2. /\ IsHeader(short) /\ Slack(short) = Slack(h) /\ short.format = h.format
      /\ HasVlr(short, ExtraBytesVLR) /\ Vlr(short, ExtraBytesVLR) = Vlr(h, ExtraBytesVLR)
  <2> HIDE DEF short
  <2>1. /\ IsHeader(short) /\ DiffersInVlrs(short, h)
        /\ Slack(short) = Slack(h) + (IF Vlr(h, CompatibilityVLR).length = 0 THEN 54 ELSE 0)
    BY <1>1, WithoutVlrOpensSlack DEF short
  <2>2. Slack(short) = Slack(h) + 0 /\ Slack(h) \in Int
    BY <1>1, <2>1, FieldsOfHeader
  <2>3. short.format = h.format
    BY <2>1 DEF DiffersInVlrs, HeaderFields
  <2>. QED BY <1>1, <2>1, <2>2, <2>3, OtherVlrStays DEF short
<1>3. AreAttributes(attributes)
  <2>1. IsVlr(Vlr(h, ExtraBytesVLR)) /\ Vlr(h, ExtraBytesVLR).id = ExtraBytesVLR
    BY VlrThatIsThere DEF IsHeader
  <2>. QED BY <2>1, AttributesRemainWithoutOldPoints DEF IsVlr
<1> HIDE DEF short, attributes
<1>4. IsHeader(bare) /\ Slack(bare) = Slack(h) /\ bare.format = h.format
  BY <1>2, <1>3, WithTheRestKeepsSlack
<1> HIDE DEF bare
<1>5. IsHeader(new) /\ Slack(new) = Slack(h) /\ new.format = h.format
  BY <1>4, LengthenedKeepsSlack
<1> HIDE DEF new
<1>6. format \in 6..10
  BY <1>1, <1>5, NewFormats
<1> HIDE DEF format, gps, wkt, kept
<1>7. /\ DOMAIN g = HeaderFields /\ g.format = format /\ g.length = new.length + 2 - 5
      /\ g.vlrs = new.vlrs /\ g.minor = new.minor
      /\ g.size = new.size /\ g.offset = new.offset /\ g.after = new.after
  BY <1>5 DEF IsHeader, HeaderFields
<1> HIDE DEF g
<1>8. /\ g.minor \in 0..5 /\ g.format \in 0..10 /\ g.length \in Int
      /\ g.size = new.size + 0 /\ g.offset = new.offset + 0
  BY <1>5, <1>6, <1>7 DEF IsHeader
<1>9. IsHeader(g) /\ Slack(g) = Slack(new)
  BY <1>5, <1>7, <1>8, HeaderWithSameVlrs
<1>10. Upgraded(h, start) = g
  BY DEF Upgraded, g, gps, wkt, format, kept, new, bare, short, attributes
<1>. QED BY <1>5, <1>9, <1>10

\* Whatever a file's header says, once it is read nothing is unaccounted for:
\* what is not in the records is user data behind them.
LEMMA ReadBackHasNoSlack ==
  ASSUME NEW h, IsHeader(h)
  PROVE  /\ IsHeader(ReadBack(h)) /\ Slack(ReadBack(h)) = 0
         /\ ReadBack(h).format = h.format /\ ReadBack(h).length = h.length
         /\ \A id : id # LASzipVLR /\ HasVlr(h, id) =>
              HasVlr(ReadBack(h), id) /\ Vlr(ReadBack(h), id) = Vlr(h, id)
<1> DEFINE bare == IF HasVlr(h, LASzipVLR) THEN WithoutVlr(h, LASzipVLR) ELSE h
           in_header == bare.size - FixedSize(bare.minor)
           after == bare.offset - VlrBytes(bare.vlrs) - bare.size
           g == [bare EXCEPT !.in_header = in_header, !.after = after]
<1>1. IsHeader(bare) /\ bare.format = h.format /\ bare.length = h.length
  BY WithoutVlrOpensSlack DEF DiffersInVlrs, HeaderFields
<1>2. \A id : id # LASzipVLR /\ HasVlr(h, id) => HasVlr(bare, id) /\ Vlr(bare, id) = Vlr(h, id)
  BY OtherVlrStays
<1> HIDE DEF bare
<1>3. VlrBytes(bare.vlrs) \in Int /\ bare.offset \in Int /\ bare.size \in Int /\ after \in Int
  BY <1>1, FieldsOfHeader DEF IsHeader
<1> HIDE DEF in_header
<1>4. /\ DOMAIN g = HeaderFields /\ g.vlrs = bare.vlrs /\ g.minor = bare.minor
      /\ g.format = bare.format /\ g.length = bare.length /\ g.size = bare.size
      /\ g.offset = bare.offset /\ g.after = bare.offset - VlrBytes(bare.vlrs) - bare.size
  <2> HIDE DEF after
  <2>. QED BY <1>1 DEF IsHeader, HeaderFields, after
<1> HIDE DEF g
<1>5. IsHeader(g)
  BY <1>1, <1>3, <1>4 DEF IsHeader
<1>6. Slack(g) = 0
  BY <1>3, <1>4 DEF Slack
<1>7. \A id : (HasVlr(g, id) <=> HasVlr(bare, id)) /\ Vlr(g, id) = Vlr(bare, id)
  BY <1>4 DEF HasVlr, Vlr, Where
<1>8. ReadBack(h) = g
  BY DEF ReadBack, g, in_header, bare
<1>. QED BY <1>1, <1>2, <1>4, <1>5, <1>6, <1>7, <1>8

\* laszip_write_header() of a header whose offset is right
LEMMA WrittenHeaderIsRight ==
  ASSUME NEW h, IsHeader(h), OffsetIsRight(h), NEW items, Len(items) \in Nat,
         NEW compress \in BOOLEAN
  PROVE  /\ IsHeader(WrittenHeader(h, items, compress).header)
         /\ WrittenHeader(h, items, compress).header.offset
              = WrittenHeader(h, items, compress).starts_at
         /\ WrittenHeader(h, items, compress).header.format = h.format
         /\ WrittenHeader(h, items, compress).header.length = h.length
         /\ \A id : HasVlr(h, id) =>
              /\ HasVlr(WrittenHeader(h, items, compress).header, id)
              /\ Vlr(WrittenHeader(h, items, compress).header, id) = Vlr(h, id)
         /\ \A id : id # LASzipVLR /\ HasVlr(WrittenHeader(h, items, compress).header, id) =>
              HasVlr(h, id)
<1> DEFINE written == WrittenHeader(h, items, compress)
           vlr == [id |-> LASzipVLR, length |-> 34 + 6 * Len(items), data |-> items]
           vlrs == IF compress THEN Append(h.vlrs, vlr) ELSE h.vlrs
           in_header == h.size - FixedSize(h.minor)
           offset == IF compress THEN h.offset + 54 + vlr.length ELSE h.offset
           g == [h EXCEPT !.in_header = in_header, !.vlrs = vlrs, !.offset = offset]
           starts_at == FixedSize(h.minor) + in_header + VlrBytes(vlrs) + h.after
<1>1. written = [header |-> g, starts_at |-> starts_at]
  BY DEF WrittenHeader, IsHeader, HeaderFields
<1>2. IsVlr(vlr) /\ vlr.length \in Nat
  <2>1. 34 + 6 * Len(items) \in Nat
    OBVIOUS
  <2>. QED BY <2>1 DEF IsVlr, LASzipVLR, ExtraBytesVLR
<1>3. AreVlrs(h.vlrs) /\ VlrBytes(h.vlrs) \in Int /\ h.offset \in Int /\ h.size \in Int
      /\ h.after \in Int /\ FixedSize(h.minor) \in Int
      /\ h.offset = h.size + VlrBytes(h.vlrs) + h.after
  <2>1. AreVlrs(h.vlrs) /\ VlrBytes(h.vlrs) \in Int /\ h.offset \in Int /\ h.size \in Int
        /\ h.after \in Int
    BY FieldsOfHeader DEF IsHeader
  <2>2. FixedSize(h.minor) \in Int
    BY DEF FixedSize
  <2>3. VlrBytes(h.vlrs) + h.size + h.after = h.offset
    BY DEF OffsetIsRight
  <2>. QED BY <2>1, <2>2, <2>3
<1>4. /\ AreVlrs(vlrs)
      /\ VlrBytes(vlrs) = VlrBytes(h.vlrs) + (IF compress THEN 54 + vlr.length ELSE 0)
  <2>1. CASE compress
    <3> HIDE DEF vlr
    <3> DEFINE longer == Append(h.vlrs, vlr)
    <3>1. AreVlrs(longer) /\ VlrBytes(longer) = VlrBytes(h.vlrs) + 54 + vlr.length
      BY <1>2, <1>3, VlrAppended
    <3> HIDE DEF longer
    <3>2. VlrBytes(longer) = VlrBytes(h.vlrs) + (54 + vlr.length)
      <4>1. VlrBytes(h.vlrs) \in Int /\ vlr.length \in Int
        BY <1>2, <1>3
      <4>2. VlrBytes(longer) = VlrBytes(h.vlrs) + 54 + vlr.length
        BY <3>1
      <4>. QED BY <4>1, <4>2
    <3>. QED BY <2>1, <3>1, <3>2 DEF longer
  <2>2. CASE ~compress
    BY <1>3, <2>2
  <2>. QED BY <2>1, <2>2
<1>5. offset = h.offset + (IF compress THEN 54 + vlr.length ELSE 0) /\ offset \in Int
  <2> HIDE DEF vlr
  <2>1. offset \in Int /\ offset = h.offset + (IF compress THEN 54 + vlr.length ELSE 0)
    BY <1>2, <1>3
  <2>. QED BY <2>1
<1>6. offset = starts_at
  <2> DEFINE added == IF compress THEN 54 + vlr.length ELSE 0
             bytes == VlrBytes(h.vlrs)
             all == VlrBytes(vlrs)
             fixed == FixedSize(h.minor)
  <2>1. added \in Int
    <3> HIDE DEF vlr
    <3>. QED BY <1>2
  <2>2. /\ offset = h.offset + added /\ all = bytes + added
        /\ starts_at = fixed + (h.size - fixed) + all + h.after
        /\ h.offset = h.size + bytes + h.after
        /\ bytes \in Int /\ h.size \in Int /\ h.after \in Int /\ fixed \in Int
    BY <1>3, <1>4, <1>5
  <2> HIDE DEF added, bytes, all, fixed, vlr, vlrs, offset, starts_at
  <2>. QED BY <2>1, <2>2
<1>7. /\ DOMAIN g = HeaderFields /\ g.vlrs = vlrs /\ g.offset = offset
      /\ g.minor = h.minor /\ g.format = h.format /\ g.length = h.length
      /\ g.size = h.size /\ g.after = h.after
  <2> HIDE DEF vlrs, offset, in_header
  <2>. QED BY DEF IsHeader, HeaderFields
<1>8. IsHeader(g)
  <2> HIDE DEF vlrs, offset, g
  <2>. QED BY <1>4, <1>5, <1>7 DEF IsHeader
<1>9. /\ \A id : HasVlr(h, id) => HasVlr(g, id) /\ Vlr(g, id) = Vlr(h, id)
      /\ \A id : id # LASzipVLR /\ HasVlr(g, id) => HasVlr(h, id)
  <2> DEFINE n == Len(h.vlrs)
  <2>1. n \in Nat /\ DOMAIN h.vlrs = 1..n
    BY <1>3, VlrsAreSequences
  <2>2. CASE ~compress
    <3>1. g.vlrs = h.vlrs
      BY <1>7, <2>2
    <3>. QED BY <3>1 DEF HasVlr, Where, Vlr
  <2>3. CASE compress
    <3>1. /\ DOMAIN vlrs = 1..n+1 /\ \A k \in 1..n : vlrs[k] = h.vlrs[k]
          /\ vlrs[n + 1] = vlr
      <4>1. PICK V : h.vlrs \in Seq(V)
        BY <1>3, VlrsDef
      <4> HIDE DEF vlr
      <4>. QED BY <2>3, <4>1
    <3>2. vlr.id = LASzipVLR
      OBVIOUS
    <3> HIDE DEF vlr, vlrs, n, g
    <3>3. ASSUME NEW id, id # LASzipVLR, HasVlr(g, id) PROVE HasVlr(h, id)
      BY <1>7, <2>1, <3>1, <3>2, <3>3 DEF HasVlr, Where
    <3>4. ASSUME NEW id, HasVlr(h, id) PROVE HasVlr(g, id) /\ Vlr(g, id) = Vlr(h, id)
      <4> DEFINE m == Min(Where(h, id))
      <4>1. m \in 1..n /\ h.vlrs[m].id = id /\ Vlr(h, id) = h.vlrs[m]
        BY <1>3, <2>1, <3>4, VlrThatIsThere
      <4>2. \A k \in Where(h, id) : m <= k
        <5>1. Where(h, id) \subseteq Nat /\ Where(h, id) # {}
          BY <2>1, <3>4 DEF Where, HasVlr
        <5>. QED BY <5>1, MinOfNaturals
      <4>3. \A k \in 1..n : h.vlrs[k].id = id => m <= k
        BY <2>1, <4>2 DEF Where
      <4> HIDE DEF m
      <4>4. Where(g, id) \subseteq Nat /\ m \in Where(g, id)
        BY <1>7, <2>1, <3>1, <4>1 DEF Where
      <4>5. ASSUME NEW k \in Where(g, id) PROVE m <= k
        <5>1. k \in 1..n+1 /\ g.vlrs[k].id = id
          BY <1>7, <3>1 DEF Where
        <5>2. CASE k = n + 1
          BY <2>1, <4>1, <5>2
        <5>3. CASE k # n + 1
          BY <1>7, <2>1, <3>1, <4>3, <5>1, <5>3
        <5>. QED BY <5>2, <5>3
      <4>6. Min(Where(g, id)) = m
        BY <4>4, <4>5, MinIs
      <4>. QED BY <1>7, <3>1, <4>1, <4>4, <4>6 DEF HasVlr, Vlr
    <3>. QED BY <3>3, <3>4
  <2>. QED BY <2>2, <2>3
<1>10. written.header = g /\ written.starts_at = starts_at
  <2> HIDE DEF g, starts_at, written
  <2>. QED BY <1>1
<1> HIDE DEF g, starts_at, written, offset
<1>. QED BY <1>6, <1>7, <1>8, <1>9, <1>10 DEF written

------------------------------------------------------------------------------
(* Items *)

Bytes(items) == Sum([i \in DOMAIN items |-> items[i].size])

TypesDiffer(items) ==
  \A i, k \in DOMAIN items : i # k => items[i].type # items[k].type

\* The bytes of items that have sizes.
LEMMA BytesType ==
  ASSUME NEW S, \A x \in S : x.size \in Int, NEW s \in Seq(S)
  PROVE  [i \in DOMAIN s |-> s[i].size] \in Seq(Int) /\ Bytes(s) \in Int
<1>1. [i \in DOMAIN s |-> s[i].size] \in Seq(Int)
  <2>1. DOMAIN s = 1..Len(s) /\ Len(s) \in Nat /\ \A i \in 1..Len(s) : s[i] \in S
    OBVIOUS
  <2>. QED BY <2>1
<1>. QED BY <1>1, SumType DEF Bytes

\* Which element of a concatenation is which element of its parts.
LEMMA ElementsOfConcat ==
  ASSUME NEW S, NEW s \in Seq(S), NEW t \in Seq(S)
  PROVE  /\ s \o t \in Seq(S) /\ DOMAIN (s \o t) = 1..Len(s)+Len(t)
         /\ \A i \in 1..Len(s) : i \in 1..Len(s)+Len(t) /\ (s \o t)[i] = s[i]
         /\ \A i \in 1..Len(t) : Len(s) + i \in 1..Len(s)+Len(t) /\ (s \o t)[Len(s) + i] = t[i]
         /\ \A i \in 1..Len(s)+Len(t) : i \notin 1..Len(s) =>
              i - Len(s) \in 1..Len(t) /\ (s \o t)[i] = t[i - Len(s)]
<1> DEFINE u == s \o t
           m == Len(s)
           n == Len(t)
<1>1. /\ u \in Seq(S) /\ DOMAIN u = 1..m+n /\ m \in Nat /\ n \in Nat
      /\ \A i \in 1..m : u[i] = s[i]
      /\ \A i \in 1..n : u[m + i] = t[i]
  OBVIOUS
<1> HIDE DEF u, m, n
<1>2. m \in Nat /\ n \in Nat
  BY <1>1
<1>3. ASSUME NEW i \in 1..m PROVE i \in 1..m+n
  BY <1>2
<1>4. ASSUME NEW i \in 1..n PROVE m + i \in 1..m+n
  BY <1>2
<1>5. ASSUME NEW i \in 1..m+n, i \notin 1..m PROVE i - m \in 1..n /\ u[i] = t[i - m]
  <2>1. i - m \in 1..n /\ m + (i - m) = i
    BY <1>2, <1>5
  <2>. QED BY <1>1, <2>1
<1>. QED BY <1>1, <1>3, <1>4, <1>5 DEF u, m, n

\* Items behind items of other types: types, bytes, and that no type comes twice.
LEMMA ItemsConcat ==
  ASSUME NEW S, \A x \in S : x.size \in Int, NEW s \in Seq(S), NEW t \in Seq(S)
  PROVE  /\ s \o t \in Seq(S)
         /\ Types(s \o t) = Types(s) \cup Types(t)
         /\ Bytes(s \o t) = Bytes(s) + Bytes(t)
         /\ TypesDiffer(s) /\ TypesDiffer(t) /\ Types(s) \cap Types(t) = {} =>
              TypesDiffer(s \o t)
<1> DEFINE u == s \o t
           m == Len(s)
           n == Len(t)
           a == [i \in DOMAIN s |-> s[i].size]
           b == [i \in DOMAIN t |-> t[i].size]
           c == [i \in DOMAIN u |-> u[i].size]
<1>1. /\ u \in Seq(S) /\ DOMAIN u = 1..m+n /\ DOMAIN s = 1..m /\ DOMAIN t = 1..n
      /\ \A i \in 1..m : i \in 1..m+n /\ u[i] = s[i]
      /\ \A i \in 1..n : m + i \in 1..m+n /\ u[m + i] = t[i]
      /\ \A i \in 1..m+n : i \notin 1..m => i - m \in 1..n /\ u[i] = t[i - m]
  <2>1. DOMAIN s = 1..m /\ DOMAIN t = 1..n
    OBVIOUS
  <2>. QED BY <2>1, ElementsOfConcat
<1>2. m \in Nat /\ n \in Nat
  OBVIOUS
<1>3. Types(u) = Types(s) \cup Types(t)
  <2> HIDE DEF u, m, n
  <2>1. /\ Types(u) = {u[i].type : i \in 1..m+n}
        /\ Types(s) = {s[i].type : i \in 1..m} /\ Types(t) = {t[i].type : i \in 1..n}
    BY <1>1 DEF Types
  <2>2. ASSUME NEW i \in 1..m+n PROVE u[i].type \in Types(s) \cup Types(t)
    BY <1>1, <2>1
  <2>3. ASSUME NEW i \in 1..m PROVE s[i].type \in Types(u)
    BY <1>1, <2>1
  <2>4. ASSUME NEW i \in 1..n PROVE t[i].type \in Types(u)
    BY <1>1, <2>1
  <2>5. Types(u) \subseteq Types(s) \cup Types(t)
    BY <2>1, <2>2
  <2>6. Types(s) \subseteq Types(u) /\ Types(t) \subseteq Types(u)
    BY <2>1, <2>3, <2>4
  <2>. QED BY <2>5, <2>6
<1>4. Bytes(u) = Bytes(s) + Bytes(t)
  <2>1. a \in Seq(Int) /\ b \in Seq(Int) /\ c \in Seq(Int)
    <3> HIDE DEF u
    <3>. QED BY <1>1, BytesType
  <2>2. c = a \o b
    <3> DEFINE d == a \o b
    <3>1. Len(a) = m /\ Len(b) = n
      BY <1>1, <1>2, <2>1
    <3>2. /\ d \in Seq(Int) /\ DOMAIN d = 1..m+n
          /\ \A i \in 1..m : d[i] = a[i]
          /\ \A i \in 1..m+n : i \notin 1..m => d[i] = b[i - m]
      <4> HIDE DEF a, b, m, n
      <4>1. /\ d \in Seq(Int) /\ DOMAIN d = 1..Len(a)+Len(b)
            /\ \A i \in 1..Len(a) : d[i] = a[i]
            /\ \A i \in 1..Len(a)+Len(b) : i \notin 1..Len(a) => d[i] = b[i - Len(a)]
        BY <2>1, ElementsOfConcat
      <4> HIDE DEF d
      <4>. QED BY <3>1, <4>1
    <3>3. ASSUME NEW i \in 1..m+n PROVE c[i] = d[i]
      <4>1. c[i] = u[i].size
        BY <1>1
      <4>2. CASE i \in 1..m
        <5>1. a[i] = s[i].size
          BY <1>1, <4>2
        <5> HIDE DEF a, b, c, d, u, m, n
        <5>. QED BY <1>1, <3>2, <4>1, <4>2, <5>1
      <4>3. CASE i \notin 1..m
        <5>1. i - m \in 1..n /\ u[i] = t[i - m]
          BY <1>1, <4>3
        <5>2. b[i - m] = t[i - m].size
          BY <1>1, <5>1
        <5> HIDE DEF a, b, c, d, u, m, n
        <5>. QED BY <3>2, <4>1, <4>3, <5>1, <5>2
      <4>. QED BY <4>2, <4>3
    <3>4. c = [i \in 1..m+n |-> c[i]] /\ d = [i \in 1..m+n |-> d[i]]
      <4> HIDE DEF d, u, m, n
      <4>. QED BY <1>1, <3>2
    <3> HIDE DEF c, d, m, n
    <3>. QED BY <3>3, <3>4 DEF d
  <2>3. Bytes(u) = Sum(c) /\ Bytes(s) = Sum(a) /\ Bytes(t) = Sum(b)
    BY DEF Bytes
  <2> HIDE DEF a, b, c, u
  <2>. QED BY <2>1, <2>2, <2>3, SumOfConcat
<1>5. ASSUME TypesDiffer(s), TypesDiffer(t), Types(s) \cap Types(t) = {} PROVE TypesDiffer(u)
  <2> HIDE DEF u, m, n
  <2>1. SUFFICES ASSUME NEW i \in 1..m+n, NEW k \in 1..m+n, i # k
                 PROVE  u[i].type # u[k].type
    BY <1>1 DEF TypesDiffer
  <2>2. \A l \in 1..m : s[l].type \in Types(s)
    BY <1>1 DEF Types
  <2>3. \A l \in 1..n : t[l].type \in Types(t)
    BY <1>1 DEF Types
  <2>4. CASE i \in 1..m /\ k \in 1..m
    BY <1>1, <1>5, <2>1, <2>4 DEF TypesDiffer
  <2>5. CASE i \notin 1..m /\ k \notin 1..m
    <3>1. i - m # k - m
      BY <1>2, <2>1
    <3>2. i - m \in 1..n /\ k - m \in 1..n /\ u[i] = t[i - m] /\ u[k] = t[k - m]
      BY <1>1, <2>5
    <3>3. t[i - m].type # t[k - m].type
      BY <1>1, <1>5, <3>1, <3>2 DEF TypesDiffer
    <3>. QED BY <3>2, <3>3
  <2>6. CASE i \in 1..m /\ k \notin 1..m
    <3>1. u[i].type \in Types(s)
      BY <1>1, <2>2, <2>6
    <3>2. u[k].type \in Types(t)
      BY <1>1, <2>3, <2>6
    <3>. QED BY <1>5, <3>1, <3>2
  <2>7. CASE i \notin 1..m /\ k \in 1..m
    <3>1. u[i].type \in Types(t)
      BY <1>1, <2>3, <2>7
    <3>2. u[k].type \in Types(s)
      BY <1>1, <2>2, <2>7
    <3>. QED BY <1>5, <3>1, <3>2
  <2>. QED BY <2>4, <2>5, <2>6, <2>7
<1>. QED BY <1>1, <1>3, <1>4, <1>5

\* No item has no type and no bytes.
LEMMA NoItem == Types(<<>>) = {} /\ Bytes(<<>>) = 0 /\ TypesDiffer(<<>>)
<1>1. DOMAIN <<>> = {}
  OBVIOUS
<1>2. [i \in DOMAIN <<>> |-> <<>>[i].size] = <<>>
  OBVIOUS
<1>. QED BY <1>1, <1>2, SumOfNone DEF Types, TypesDiffer, Bytes

\* One item has its type and its bytes.
LEMMA OneItem ==
  ASSUME NEW type, NEW size \in Int
  PROVE  LET s == <<[type |-> type, size |-> size]>> IN
         Types(s) = {type} /\ Bytes(s) = size /\ TypesDiffer(s)
<1> DEFINE item == [type |-> type, size |-> size]
           s == <<item>>
<1>1. item.type = type /\ item.size = size
  OBVIOUS
<1> HIDE DEF item
<1>2. DOMAIN s = 1..1 /\ s[1] = item
  OBVIOUS
<1>3. Types(s) = {type} /\ TypesDiffer(s)
  <2> HIDE DEF s
  <2>. QED BY <1>1, <1>2 DEF Types, TypesDiffer
<1>4. [i \in DOMAIN s |-> s[i].size] = <<size>>
  BY <1>1
<1>5. Bytes(s) = size
  BY <1>4, SumOfOne DEF Bytes
<1>. QED BY <1>3, <1>5 DEF item

\* An item before it has a version.
IsItem(item) ==
  \/ item.type \in {"POINT10"} /\ item.size = 20
  \/ item.type \in {"GPSTIME11", "RGBNIR14"} /\ item.size = 8
  \/ item.type \in {"RGB12", "RGB14"} /\ item.size = 6
  \/ item.type = "POINT14" /\ item.size = 30
  \/ item.type \in {"WAVEPACKET13", "WAVEPACKET14"} /\ item.size = 29
  \/ item.type \in {"BYTE", "BYTE14"} /\ item.size \in Nat \ {0}

HasRgb(format) == format \in {2, 3, 5, 7, 8, 10}
HasNir(format) == format \in {8, 10}
HasWave(format) == format \in {4, 5, 9, 10}
Is14(format, compatible) == format > 5 /\ ~compatible
ExtraOf(format, length, compatible) ==
  Max({ExtraBytes(format, length), 0})
    + (IF format > 5 /\ compatible THEN IF HasNir(format) THEN 7 ELSE 5 ELSE 0)

TypesOf(format, extra, compatible) ==
  {IF Is14(format, compatible) THEN "POINT14" ELSE "POINT10"}
  \cup (IF ~Is14(format, compatible) /\ format \notin {0, 2} THEN {"GPSTIME11"} ELSE {})
  \cup (IF HasRgb(format)
        THEN {IF Is14(format, compatible) THEN IF HasNir(format) THEN "RGBNIR14" ELSE "RGB14"
              ELSE "RGB12"}
        ELSE {})
  \cup (IF HasWave(format)
        THEN {IF Is14(format, compatible) THEN "WAVEPACKET14" ELSE "WAVEPACKET13"} ELSE {})
  \cup (IF extra > 0 THEN {IF Is14(format, compatible) THEN "BYTE14" ELSE "BYTE"} ELSE {})

BytesOf(format, extra, compatible) ==
  (IF Is14(format, compatible) THEN 30 ELSE 20)
  + (IF ~Is14(format, compatible) /\ format \notin {0, 2} THEN 8 ELSE 0)
  + (IF HasRgb(format) THEN IF Is14(format, compatible) /\ HasNir(format) THEN 8 ELSE 6 ELSE 0)
  + (IF HasWave(format) THEN 29 ELSE 0)
  + (IF extra > 0 THEN extra ELSE 0)

\* LASzip::setup() makes the items of the point type, each type once, and their sizes
\* add up to those of the point.
LEMMA ItemsOfSetup ==
  ASSUME NEW format \in 0..10, NEW length \in Int, NEW compatible \in BOOLEAN
  PROVE  LET items == Items(format, length, compatible)
             extra == ExtraOf(format, length, compatible) IN
         /\ \E S : items \in Seq(S) /\ \A x \in S : IsItem(x)
         /\ Types(items) = TypesOf(format, extra, compatible)
         /\ Bytes(items) = BytesOf(format, extra, compatible)
         /\ TypesDiffer(items)
         /\ extra \in Nat
<1> DEFINE p14 == Is14(format, compatible)
           nir == HasNir(format)
           extra == ExtraOf(format, length, compatible)
           If(there, type, size) == IF there THEN <<[type |-> type, size |-> size]>> ELSE <<>>
           ptype == IF p14 THEN "POINT14" ELSE "POINT10"
           psize == IF p14 THEN 30 ELSE 20
           has_gps == ~p14 /\ format \notin {0, 2}
           ctype == IF p14 THEN IF nir THEN "RGBNIR14" ELSE "RGB14" ELSE "RGB12"
           csize == IF p14 /\ nir THEN 8 ELSE 6
           wtype == IF p14 THEN "WAVEPACKET14" ELSE "WAVEPACKET13"
           btype == IF p14 THEN "BYTE14" ELSE "BYTE"
           p == If(TRUE, ptype, psize)
           g == If(has_gps, "GPSTIME11", 8)
           c == If(HasRgb(format), ctype, csize)
           w == If(HasWave(format), wtype, 29)
           b == If(extra > 0, btype, extra)
           S == {[type |-> ptype, size |-> psize], [type |-> "GPSTIME11", size |-> 8],
                 [type |-> ctype, size |-> csize], [type |-> wtype, size |-> 29]}
                \cup (IF extra > 0 THEN {[type |-> btype, size |-> extra]} ELSE {})
<1>1. Items(format, length, compatible) = p \o g \o c \o w \o b
  BY DEF Items, Is14, HasNir, HasRgb, HasWave, ExtraOf
<1>2. extra \in Nat
  <2>1. \A k \in Int : Max({k, 0}) = IF k >= 0 THEN k ELSE 0
    BY DEF Max
  <2>2. ExtraBytes(format, length) \in Int
    BY DEF ExtraBytes, PointSize
  <2>. QED BY <2>1, <2>2 DEF ExtraOf
<1>3. \A x \in S : IsItem(x)
  <2>1. IsItem([type |-> ptype, size |-> psize])
    BY DEF IsItem
  <2>2. IsItem([type |-> "GPSTIME11", size |-> 8])
    BY DEF IsItem
  <2>3. IsItem([type |-> ctype, size |-> csize])
    BY DEF IsItem
  <2>4. IsItem([type |-> wtype, size |-> 29])
    BY DEF IsItem
  <2>5. extra > 0 => IsItem([type |-> btype, size |-> extra])
    <3> HIDE DEF extra
    <3>. QED BY <1>2 DEF IsItem
  <2> HIDE DEF ptype, psize, ctype, csize, wtype, btype, extra
  <2>. QED BY <2>1, <2>2, <2>3, <2>4, <2>5
<1>4. \A x \in S : x.size \in Int
  <2>1. ASSUME NEW x, IsItem(x) PROVE x.size \in Int
    BY <2>1 DEF IsItem
  <2> HIDE DEF S
  <2>. QED BY <1>3, <2>1
<1> DEFINE Made(s, T, n) == s \in Seq(S) /\ Types(s) = T /\ Bytes(s) = n /\ TypesDiffer(s)
           tp == {ptype}
           tg == IF has_gps THEN {"GPSTIME11"} ELSE {}
           tc == IF HasRgb(format) THEN {ctype} ELSE {}
           tw == IF HasWave(format) THEN {wtype} ELSE {}
           tb == IF extra > 0 THEN {btype} ELSE {}
           ng == IF has_gps THEN 8 ELSE 0
           nc == IF HasRgb(format) THEN csize ELSE 0
           nw == IF HasWave(format) THEN 29 ELSE 0
           nb == IF extra > 0 THEN extra ELSE 0
<1>5. /\ \A type : \A size \in Int : [type |-> type, size |-> size] \in S =>
           Made(<<[type |-> type, size |-> size]>>, {type}, size)
      /\ Made(<<>>, {}, 0)
  <2>1. ASSUME NEW type, NEW size \in Int, [type |-> type, size |-> size] \in S
        PROVE  Made(<<[type |-> type, size |-> size]>>, {type}, size)
    <3> HIDE DEF S
    <3>1. <<[type |-> type, size |-> size]>> \in Seq(S)
      BY <2>1
    <3>. QED BY <3>1, OneItem
  <2>2. Made(<<>>, {}, 0)
    <3> HIDE DEF S
    <3>. QED BY NoItem
  <2>. QED BY <2>1, <2>2
<1>6. Made(p, tp, psize)
  <2>1. p = <<[type |-> ptype, size |-> psize]>> /\ psize \in Int
        /\ [type |-> ptype, size |-> psize] \in S
    OBVIOUS
  <2> HIDE DEF Made, p, ptype, psize, S
  <2>. QED BY <1>5, <2>1
<1>7. Made(g, tg, ng)
  <2>1. CASE has_gps
    <3>1. g = <<[type |-> "GPSTIME11", size |-> 8]>> /\ tg = {"GPSTIME11"} /\ ng = 8
      BY <2>1
    <3>2. 8 \in Int /\ [type |-> "GPSTIME11", size |-> 8] \in S
      BY <1>2, <2>1
    <3> HIDE DEF Made, g, tg, ng, S
    <3>. QED BY <1>5, <3>1, <3>2
  <2>2. CASE ~(has_gps)
    <3>1. g = <<>> /\ tg = {} /\ ng = 0
      BY <2>2
    <3> HIDE DEF Made, g, tg, ng
    <3>. QED BY <1>5, <3>1
  <2>. QED BY <2>1, <2>2
<1>8. Made(c, tc, nc)
  <2>1. CASE HasRgb(format)
    <3>1. c = <<[type |-> ctype, size |-> csize]>> /\ tc = {ctype} /\ nc = csize
      BY <2>1
    <3>2. csize \in Int /\ [type |-> ctype, size |-> csize] \in S
      BY <1>2, <2>1
    <3> HIDE DEF Made, c, tc, nc, S, ctype, csize
    <3>. QED BY <1>5, <3>1, <3>2
  <2>2. CASE ~(HasRgb(format))
    <3>1. c = <<>> /\ tc = {} /\ nc = 0
      BY <2>2
    <3> HIDE DEF Made, c, tc, nc
    <3>. QED BY <1>5, <3>1
  <2>. QED BY <2>1, <2>2
<1>9. Made(w, tw, nw)
  <2>1. CASE HasWave(format)
    <3>1. w = <<[type |-> wtype, size |-> 29]>> /\ tw = {wtype} /\ nw = 29
      BY <2>1
    <3>2. 29 \in Int /\ [type |-> wtype, size |-> 29] \in S
      BY <1>2, <2>1
    <3> HIDE DEF Made, w, tw, nw, S, wtype
    <3>. QED BY <1>5, <3>1, <3>2
  <2>2. CASE ~(HasWave(format))
    <3>1. w = <<>> /\ tw = {} /\ nw = 0
      BY <2>2
    <3> HIDE DEF Made, w, tw, nw
    <3>. QED BY <1>5, <3>1
  <2>. QED BY <2>1, <2>2
<1>10. Made(b, tb, nb)
  <2>1. CASE extra > 0
    <3>1. b = <<[type |-> btype, size |-> extra]>> /\ tb = {btype} /\ nb = extra
      BY <2>1
    <3> HIDE DEF extra, btype
    <3>2. extra \in Int /\ [type |-> btype, size |-> extra] \in S
      BY <1>2, <2>1
    <3> HIDE DEF Made, b, tb, nb, S, btype, extra
    <3>. QED BY <1>5, <3>1, <3>2
  <2>2. CASE ~(extra > 0)
    <3>1. b = <<>> /\ tb = {} /\ nb = 0
      BY <2>2
    <3> HIDE DEF Made, b, tb, nb
    <3>. QED BY <1>5, <3>1
  <2>. QED BY <2>1, <2>2
<1>11. /\ psize \in Int /\ ng \in Int /\ nc \in Int /\ nw \in Int /\ nb \in Int
       /\ tp \cap tg = {} /\ (tp \cup tg) \cap tc = {} /\ (tp \cup tg \cup tc) \cap tw = {}
       /\ (tp \cup tg \cup tc \cup tw) \cap tb = {}
  <2>1. psize \in Int /\ ng \in Int /\ nc \in Int /\ nw \in Int
    OBVIOUS
  <2>2. nb \in Int
    <3> HIDE DEF extra
    <3>. QED BY <1>2
  <2>3. tp \cap tg = {} /\ (tp \cup tg) \cap tc = {} /\ (tp \cup tg \cup tc) \cap tw = {}
        /\ (tp \cup tg \cup tc \cup tw) \cap tb = {}
    <3> HIDE DEF extra, has_gps, p14, nir
    <3>. QED OBVIOUS
  <2>. QED BY <2>1, <2>2, <2>3
<1>12. \A s, t, T, U, m, n : Made(s, T, m) /\ Made(t, U, n) /\ T \cap U = {} =>
         Made(s \o t, T \cup U, m + n)
  <2> HIDE DEF S
  <2>. QED BY <1>4, ItemsConcat
<1>13. Made(p \o g \o c \o w \o b, tp \cup tg \cup tc \cup tw \cup tb, psize + ng + nc + nw + nb)
  <2> HIDE DEF p, g, c, w, b, tp, tg, tc, tw, tb, psize, ng, nc, nw, nb, Made
  <2>1. Made(p \o g, tp \cup tg, psize + ng)
    BY <1>6, <1>7, <1>11, <1>12
  <2>2. Made((p \o g) \o c, (tp \cup tg) \cup tc, (psize + ng) + nc)
    BY <2>1, <1>8, <1>11, <1>12
  <2>3. Made(((p \o g) \o c) \o w, ((tp \cup tg) \cup tc) \cup tw, ((psize + ng) + nc) + nw)
    BY <2>2, <1>9, <1>11, <1>12
  <2>. QED BY <2>3, <1>10, <1>11, <1>12
<1>14. /\ tp \cup tg \cup tc \cup tw \cup tb = TypesOf(format, extra, compatible)
       /\ psize + ng + nc + nw + nb = BytesOf(format, extra, compatible)
  <2> HIDE DEF extra, p14
  <2>. QED BY DEF TypesOf, BytesOf, p14
<1> HIDE DEF p, g, c, w, b, tp, tg, tc, tw, tb, psize, ng, nc, nw, nb, S, extra
<1>. QED BY <1>1, <1>2, <1>3, <1>13, <1>14 DEF extra

\* check_item() takes an item of setup() in the versions that the compressors have.
LEMMA ItemOfVersionFits ==
  ASSUME NEW item, IsItem(item),
         item.version \in (IF item.type = "WAVEPACKET13" THEN {1}
                           ELSE IF item.type \in Items14 THEN {3, 4} ELSE {2})
  PROVE  FitsItem(item)
<1>1. \A n \in Nat \ {0} : Max({1, n}) = n
  BY DEF Max
<1>2. CASE item.type = "POINT10" /\ item.size = 20
  BY <1>2 DEF FitsItem, Items14
<1>3. CASE item.type = "GPSTIME11" /\ item.size = 8
  BY <1>3 DEF FitsItem, Items14
<1>4. CASE item.type = "RGBNIR14" /\ item.size = 8
  BY <1>4 DEF FitsItem, Items14
<1>5. CASE item.type = "RGB12" /\ item.size = 6
  BY <1>5 DEF FitsItem, Items14
<1>6. CASE item.type = "RGB14" /\ item.size = 6
  BY <1>6 DEF FitsItem, Items14
<1>7. CASE item.type = "POINT14" /\ item.size = 30
  BY <1>7 DEF FitsItem, Items14
<1>8. CASE item.type = "WAVEPACKET13" /\ item.size = 29
  BY <1>8 DEF FitsItem, Items14
<1>9. CASE item.type = "WAVEPACKET14" /\ item.size = 29
  BY <1>9 DEF FitsItem, Items14
<1>10. CASE item.type = "BYTE" /\ item.size \in Nat \ {0}
  BY <1>1, <1>10 DEF FitsItem, Items14
<1>11. CASE item.type = "BYTE14" /\ item.size \in Nat \ {0}
  BY <1>1, <1>11 DEF FitsItem, Items14
<1>. QED BY <1>2, <1>3, <1>4, <1>5, <1>6, <1>7, <1>8, <1>9, <1>10, <1>11 DEF IsItem

\* request_version() asks for versions that check_item() takes.
LEMMA VersionsFit ==
  ASSUME NEW item, IsItem(item), NEW requested \in 2..4
  PROVE  FitsItem([type |-> item.type, size |-> item.size,
                   version |-> IF item.type = "WAVEPACKET13" THEN 1
                               ELSE IF item.type \in Items14 THEN Max({3, requested})
                               ELSE Min({2, requested})])
<1>1. Max({3, requested}) \in {3, 4}
  <2>1. requested = 2 \/ requested = 3 \/ requested = 4
    OBVIOUS
  <2>2. Max({3, 2}) = 3 /\ Max({3, 3}) = 3 /\ Max({3, 4}) = 4
    BY DEF Max
  <2>. QED BY <2>1, <2>2
<1>2. Min({2, requested}) = 2
  <2>1. requested = 2 \/ requested = 3 \/ requested = 4
    OBVIOUS
  <2>2. Min({2, 2}) = 2 /\ Min({2, 3}) = 2 /\ Min({2, 4}) = 2
    BY DEF Min
  <2>. QED BY <2>1, <2>2
<1> DEFINE version == IF item.type = "WAVEPACKET13" THEN 1
                      ELSE IF item.type \in Items14 THEN Max({3, requested})
                      ELSE Min({2, requested})
           new == [type |-> item.type, size |-> item.size, version |-> version]
<1>3. version \in (IF item.type = "WAVEPACKET13" THEN {1}
                   ELSE IF item.type \in Items14 THEN {3, 4} ELSE {2})
  BY <1>1, <1>2
<1> HIDE DEF version
<1>4. new.type = item.type /\ new.size = item.size /\ new.version = version
  OBVIOUS
<1> HIDE DEF new
<1>5. IsItem(new)
  BY <1>4 DEF IsItem
<1>6. FitsItem(new)
  BY <1>3, <1>4, <1>5, ItemOfVersionFits
<1>. QED BY <1>6 DEF new, version

\* setup() never puts items of old and of new points together.
LEMMA TypesDoNotMix ==
  ASSUME NEW format \in 0..10, NEW extra, NEW compatible \in BOOLEAN
  PROVE  \/ \A type \in TypesOf(format, extra, compatible) : type \in Items14
         \/ \A type \in TypesOf(format, extra, compatible) : type \notin Items14
BY DEF TypesOf, Is14, Items14

\* The items are as long as the point record of the header.
LEMMA BytesOfPoint ==
  ASSUME NEW format \in 0..10, NEW length \in Int, NEW compatible \in BOOLEAN,
         ExtraBytes(format, length) >= 0
  PROVE  BytesOf(format, ExtraOf(format, length, compatible), compatible)
           = length + (IF format > 5 /\ compatible THEN 3 ELSE 0)
<1> DEFINE size == PointSize(format)
<1>1. size \in Int /\ ExtraBytes(format, length) = length - size
  BY DEF ExtraBytes, PointSize
<1>2. Max({length - size, 0}) = length - size
  <2>1. \A k \in Int : k >= 0 => Max({k, 0}) = k
    BY DEF Max
  <2> HIDE DEF size
  <2>. QED BY <1>1, <2>1
<1>3. ExtraOf(format, length, compatible)
        = length - size + (IF format > 5 /\ compatible THEN IF HasNir(format) THEN 7 ELSE 5 ELSE 0)
  BY <1>1, <1>2 DEF ExtraOf
<1>4. length >= size
  <2> HIDE DEF size
  <2>. QED BY <1>1
<1> DEFINE extra == ExtraOf(format, length, compatible)
<1>5. extra \in Int /\ extra >= 0 /\ extra = length - size + (IF format > 5 /\ compatible THEN IF HasNir(format) THEN 7 ELSE 5 ELSE 0)
  <2> HIDE DEF size
  <2>. QED BY <1>1, <1>3, <1>4
<1> HIDE DEF extra
<1>6. BytesOf(format, extra, compatible) = length + (IF format > 5 /\ compatible THEN 3 ELSE 0)
  <2>1. CASE compatible /\ format > 5
    <3>1. format \in {6, 7, 8, 9, 10} /\ ~Is14(format, compatible)
      BY <2>1 DEF Is14
    <3>. QED BY <1>5, <2>1, <3>1 DEF BytesOf, HasNir, HasRgb, HasWave, PointSize
  <2>2. CASE ~compatible /\ format > 5
    <3>1. Is14(format, compatible) /\ extra = length - size
      BY <1>1, <1>5, <2>2 DEF Is14
    <3>2. size = 30 + (IF HasRgb(format) THEN IF HasNir(format) THEN 8 ELSE 6 ELSE 0)
                    + (IF HasWave(format) THEN 29 ELSE 0)
      BY <2>2 DEF HasRgb, HasNir, HasWave, PointSize
    <3> HIDE DEF size
    <3>. QED BY <1>1, <1>5, <2>2, <3>1, <3>2 DEF BytesOf
  <2>3. CASE format <= 5
    <3>1. ~Is14(format, compatible) /\ extra = length - size
      BY <1>1, <1>5, <2>3 DEF Is14
    <3>2. size = 20 + (IF format \notin {0, 2} THEN 8 ELSE 0)
                    + (IF HasRgb(format) THEN 6 ELSE 0) + (IF HasWave(format) THEN 29 ELSE 0)
      BY <2>3 DEF HasRgb, HasWave, PointSize
    <3> HIDE DEF size
    <3>. QED BY <1>1, <1>5, <2>3, <3>1, <3>2 DEF BytesOf
  <2>. QED BY <2>1, <2>2, <2>3
<1>. QED BY <1>6 DEF extra

\* What setup() and request_version() make passes check_items().
LEMMA SetupPassesCheck ==
  ASSUME NEW format \in 0..10, NEW length \in Int, NEW compatible \in BOOLEAN,
         NEW requested \in 2..4, ExtraBytes(format, length) >= 0
  PROVE  FitItems(WithVersions(Items(format, length, compatible), requested),
                  length + (IF format > 5 /\ compatible THEN 3 ELSE 0))
<1> DEFINE items == Items(format, length, compatible)
           new == WithVersions(items, requested)
           extra == ExtraOf(format, length, compatible)
<1>1. PICK S : items \in Seq(S) /\ \A x \in S : IsItem(x)
  BY ItemsOfSetup
<1>2. /\ Types(items) = TypesOf(format, extra, compatible)
      /\ Bytes(items) = BytesOf(format, extra, compatible)
      /\ TypesDiffer(items)
  BY ItemsOfSetup
<1> HIDE DEF items
<1>3. /\ DOMAIN new = DOMAIN items
      /\ \A i \in DOMAIN items : new[i].type = items[i].type /\ new[i].size = items[i].size
  BY DEF WithVersions
<1>4. ASSUME NEW i \in DOMAIN new PROVE FitsItem(new[i])
  <2>1. i \in DOMAIN items
    BY <1>3
  <2>2. IsItem(items[i])
    BY <1>1, <2>1
  <2>. QED BY <2>1, <2>2, VersionsFit DEF WithVersions
<1>5. length + (IF format > 5 /\ compatible THEN 3 ELSE 0) = Sum([i \in DOMAIN new |-> new[i].size])
  <2>1. [i \in DOMAIN new |-> new[i].size] = [i \in DOMAIN items |-> items[i].size]
    BY <1>3
  <2>. QED BY <1>2, <2>1, BytesOfPoint DEF Bytes
<1>6. \/ \A i \in DOMAIN new : new[i].type \in Items14
      \/ \A i \in DOMAIN new : new[i].type \notin Items14
  <2>1. \A i \in DOMAIN new : new[i].type \in TypesOf(format, extra, compatible)
    BY <1>2, <1>3 DEF Types
  <2> HIDE DEF new, extra
  <2>. QED BY <2>1, TypesDoNotMix
<1>7. IsInjective([i \in DOMAIN new |-> new[i].type])
  BY <1>2, <1>3 DEF IsInjective, TypesDiffer
<1>. QED BY <1>4, <1>5, <1>6, <1>7 DEF FitItems, items

\* request_version() changes no type.
LEMMA TypesKeepVersions ==
  ASSUME NEW items, NEW requested
  PROVE  Types(WithVersions(items, requested)) = Types(items)
<1>1. /\ DOMAIN WithVersions(items, requested) = DOMAIN items
      /\ \A i \in DOMAIN items : WithVersions(items, requested)[i].type = items[i].type
  BY DEF WithVersions
<1>. QED BY <1>1 DEF Types

\* The items that are set up for points of LAS 1.4 in compatibility mode are of
\* the types that the header of the old point type then asks for.
LEMMA RecodedTypes ==
  ASSUME NEW format \in 6..10, NEW length \in Int, ExtraBytes(format, length) >= 0
  PROVE  Types(Items(format, length, TRUE)) = Types(Items(OldFormat(format), length + 3, FALSE))
<1> DEFINE old == OldFormat(format)
           new_extra == ExtraOf(format, length, TRUE)
           old_extra == ExtraOf(old, length + 3, FALSE)
<1>0. \A f, l \in Int : ExtraBytes(f, l) = l - PointSize(f)
  BY DEF ExtraBytes
<1>1. old \in 1..5 /\ old \in 0..10 /\ format \in 0..10 /\ length + 3 \in Int
  BY DEF OldFormat
<1>2. /\ Types(Items(format, length, TRUE)) = TypesOf(format, new_extra, TRUE)
      /\ Types(Items(old, length + 3, FALSE)) = TypesOf(old, old_extra, FALSE)
      /\ new_extra \in Nat /\ old_extra \in Nat
  <2> HIDE DEF old
  <2>. QED BY <1>1, ItemsOfSetup
<1>3. \A k \in Int : Max({k, 0}) = IF k >= 0 THEN k ELSE 0
  BY DEF Max
<1>4. new_extra > 0
  <2>1. ExtraBytes(format, length) \in Int
    BY DEF ExtraBytes, PointSize
  <2>2. Max({ExtraBytes(format, length), 0}) = ExtraBytes(format, length)
    BY <1>3, <2>1
  <2>3. new_extra = ExtraBytes(format, length) + (IF HasNir(format) THEN 7 ELSE 5)
    BY <2>2 DEF ExtraOf
  <2> HIDE DEF new_extra
  <2>. QED BY <2>1, <2>3
<1>5. old_extra > 0
  <2>1. PointSize(format) \in Int /\ PointSize(old) \in Int /\ PointSize(format) + 3 > PointSize(old)
    BY DEF PointSize, OldFormat
  <2>2. length >= PointSize(format)
    <3>1. length - PointSize(format) >= 0
      BY DEF ExtraBytes
    <3>. QED BY <2>1, <3>1
  <2> HIDE DEF old
  <2>3. length + 3 - PointSize(old) > 0
    BY <2>1, <2>2
  <2>4. Max({length + 3 - PointSize(old), 0}) = length + 3 - PointSize(old)
    BY <1>3, <2>1, <2>3
  <2>5. old_extra = length + 3 - PointSize(old)
    <3>1. ExtraBytes(old, length + 3) = length + 3 - PointSize(old)
      BY <1>0, <1>1, <2>1
    <3>2. old_extra = Max({ExtraBytes(old, length + 3), 0})
                        + (IF old > 5 /\ FALSE THEN IF HasNir(old) THEN 7 ELSE 5 ELSE 0)
      BY DEF ExtraOf
    <3>3. (IF old > 5 /\ FALSE THEN IF HasNir(old) THEN 7 ELSE 5 ELSE 0) = 0
      OBVIOUS
    <3> HIDE DEF old_extra
    <3>. QED BY <2>1, <2>4, <3>1, <3>2, <3>3
  <2> HIDE DEF old_extra
  <2>. QED BY <2>1, <2>3, <2>5
<1>6. TypesOf(format, new_extra, TRUE) = TypesOf(old, old_extra, FALSE)
  <2>1. ~Is14(format, TRUE) /\ ~Is14(old, FALSE)
    BY DEF Is14, OldFormat
  <2>2. (HasRgb(format) <=> HasRgb(old)) /\ (HasWave(format) <=> HasWave(old))
    BY DEF HasRgb, HasWave, OldFormat
  <2>3. format \notin {0, 2} /\ old \notin {0, 2}
    BY DEF OldFormat
  <2> HIDE DEF old, new_extra, old_extra
  <2>. QED BY <1>4, <1>5, <2>1, <2>2, <2>3 DEF TypesOf
<1>. QED BY <1>2, <1>6
=============================================================================
