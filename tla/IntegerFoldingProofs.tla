------------------------ MODULE IntegerFoldingProofs ------------------------
(***************************************************************************)
(* That unfolding undoes folding, for every width of an I32 and every      *)
(* range.  Differences of two I32 need one more bit, so the lemmas say     *)
(* what Wrap does to a number less than a whole turn away from I32.        *)
(***************************************************************************)
EXTENDS IntegerFolding, TLAPS

\* A natural number below the divisor is its own remainder.
LEMMA SmallRemainder ==
  ASSUME NEW d \in Nat \ {0}, NEW n \in 0 .. d - 1
  PROVE  n % d = n /\ (n + d) % d = n /\ (n - d) % d = n
OBVIOUS

\* Wrap leaves an I32 as it is and takes others one turn back into I32.
LEMMA WrapTurns ==
  ASSUME NEW n \in I32
  PROVE  Wrap(n) = n /\ Wrap(n + 2 * Half) = n /\ Wrap(n - 2 * Half) = n
<1> DEFINE d == 2 * Half
           m == n + Half
<1>1. Half \in Nat \ {0} /\ d \in Nat \ {0} /\ m \in 0 .. d - 1 /\ n \in Int
  BY HalfAssumption DEF I32
<1>2. m % d = m /\ (m + d) % d = m /\ (m - d) % d = m
  BY <1>1, SmallRemainder
<1>3. /\ Wrap(n) = (m % d) - Half
      /\ Wrap(n + d) = ((m + d) % d) - Half
      /\ Wrap(n - d) = ((m - d) % d) - Half
  <2>1. (n + d) + Half = m + d /\ (n - d) + Half = m - d
    BY <1>1
  <2> QED BY <2>1 DEF Wrap
<1> QED BY <1>1, <1>2, <1>3

------------------------------------------------------------------------------
\* A corrector lies within corr_min and corr_max, the correctors that the models
\* of writeCorrector() have room for, and unfolds to the value it was made of.
THEOREM UnfoldUndoesFold ==
  ASSUME NEW range \in 1 .. Half, 2 * range <= Half,
         NEW pred \in 0 .. range - 1, NEW real \in 0 .. range - 1
  PROVE  /\ Fold(range, pred, real) \in CorrMin(range) .. CorrMax(range)
         /\ Unfold(range, pred, Fold(range, pred, real)) = real
<1> DEFINE half == range \div 2
           corr == real - pred
           c    == IF corr < -half THEN corr + range
                   ELSE IF corr > -half + range - 1 THEN corr - range ELSE corr
<1>1. /\ Half \in Nat \ {0} /\ range \in Nat \ {0}
      /\ half \in Nat /\ 2 * half <= range /\ range <= 2 * half + 1
      /\ pred \in Nat /\ real \in Nat
  BY HalfAssumption
<1> HIDE DEF half
<1>2. corr \in I32 /\ corr + range \in Int /\ corr - range \in Int
  BY <1>1 DEF I32
<1>3. /\ corr < -half => corr + range \in I32
      /\ corr > -half + range - 1 => corr - range \in I32
  BY <1>1 DEF I32
<1>4. Fold(range, pred, real) = c
  <2>1. CorrMin(range) = -half /\ CorrMax(range) = -half + range - 1
    BY <1>1 DEF CorrMin, CorrMax, half
  <2>2. Wrap(corr) = corr
    BY <1>2, WrapTurns
  <2>3. corr < -half => Wrap(corr + range) = corr + range
    BY <1>3, WrapTurns
  <2>4. corr > -half + range - 1 => Wrap(corr - range) = corr - range
    BY <1>3, WrapTurns
  <2> QED BY <2>1, <2>2, <2>3, <2>4 DEF Fold
<1>5. c \in -half .. -half + range - 1
  BY <1>1
<1>6. c \in {corr, corr + range, corr - range}
  OBVIOUS
<1> HIDE DEF c
<1>7. Unfold(range, pred, c) = real
  <2>1. pred + c \in {real, real + range, real - range}
    BY <1>1, <1>6
  <2>2. pred + c \in I32
    BY <1>1, <1>5 DEF I32
  <2>3. Wrap(pred + c) = pred + c /\ Wrap(real) = real
    <3>1. real \in I32
      BY <1>1 DEF I32
    <3> QED BY <2>2, <3>1, WrapTurns
  <2>4. CASE pred + c = real
    BY <2>3, <2>4, <1>1 DEF Unfold
  <2>5. CASE pred + c = real + range
    <3>1. ~(pred + c < 0) /\ pred + c >= range /\ (pred + c) - range = real
      BY <2>5, <1>1
    <3> QED BY <3>1, <2>3 DEF Unfold
  <2>6. CASE pred + c = real - range
    <3>1. pred + c < 0 /\ (pred + c) + range = real
      BY <2>6, <1>1
    <3> QED BY <3>1, <2>3 DEF Unfold
  <2> QED BY <2>1, <2>4, <2>5, <2>6
<1> QED BY <1>4, <1>5, <1>7, <1>1 DEF CorrMin, CorrMax, half

\* The same where all of an I32 is used (a range of 0): coordinates, whose
\* distance may overflow.
THEOREM UnfoldUndoesFoldOfI32 ==
  ASSUME NEW pred \in I32, NEW real \in I32
  PROVE  /\ Fold(0, pred, real) \in I32
         /\ Unfold(0, pred, Fold(0, pred, real)) = real
<1> DEFINE corr == Wrap(real - pred)
<1>1. Half \in Nat \ {0} /\ pred \in Int /\ real \in Int
  BY HalfAssumption DEF I32
<1>2. PICK turn \in {-(2 * Half), 0, 2 * Half} : (real - pred) + turn \in I32
  <2>1. CASE real - pred >= Half
    BY <2>1, <1>1 DEF I32
  <2>2. CASE real - pred < -Half
    BY <2>2, <1>1 DEF I32
  <2>3. CASE real - pred \in I32
    BY <2>3, <1>1
  <2> QED BY <2>1, <2>2, <2>3, <1>1 DEF I32
<1> DEFINE c == (real - pred) + turn
<1>3. corr = c
  <2>1. real - pred \in {c, c + 2 * Half, c - 2 * Half}
    BY <1>1, <1>2
  <2>2. Wrap(c) = c /\ Wrap(c + 2 * Half) = c /\ Wrap(c - 2 * Half) = c
    BY <1>2, WrapTurns
  <2> HIDE DEF c
  <2> QED BY <2>1, <2>2
<1>4. Fold(0, pred, real) = c
  <2>1. CorrMin(0) = -Half /\ CorrMax(0) = Half - 1
    BY DEF CorrMin, CorrMax
  <2>2. ~(c < -Half) /\ ~(c > Half - 1)
    BY <1>1, <1>2 DEF I32
  <2> QED BY <1>3, <2>1, <2>2 DEF Fold
<1>5. Wrap(pred + c) = real
  <2>1. pred + c \in {real, real + 2 * Half, real - 2 * Half}
    BY <1>1, <1>2
  <2>2. Wrap(real) = real /\ Wrap(real + 2 * Half) = real /\ Wrap(real - 2 * Half) = real
    BY WrapTurns
  <2> QED BY <2>1, <2>2
<1>6. real + 0 = real /\ real - 0 = real /\ Wrap(real) = real
  BY <1>1, WrapTurns
<1>7. Unfold(0, pred, c) = real
  <2>1. Unfold(0, pred, c) \in {Wrap(real + 0), Wrap(real - 0), real}
    BY <1>5 DEF Unfold
  <2> QED BY <2>1, <1>6
<1> QED BY <1>2, <1>4, <1>7

\* Values with a sign, too, of which the lower bits come back, and a range of one
\* bit less than an I32 has, where to unfold may overflow.
THEOREM UnfoldUndoesFoldModuloRange ==
  ASSUME NEW range \in Nat \ {0}, 2 * range <= Half \/ range = Half,
         NEW least \in {0, CorrMin(range)},
         NEW pred \in least .. least + range - 1, NEW real \in least .. least + range - 1
  PROVE  /\ Fold(range, pred, real) \in CorrMin(range) .. CorrMax(range)
         /\ Unfold(range, pred, Fold(range, pred, real)) \in 0 .. range - 1
         /\ (Unfold(range, pred, Fold(range, pred, real)) - real) % range = 0
<1> DEFINE half == range \div 2
           corr == real - pred
           c    == IF corr < -half THEN corr + range
                   ELSE IF corr > -half + range - 1 THEN corr - range ELSE corr
           sum  == pred + c
<1>1. /\ Half \in Nat \ {0} /\ range \in Nat \ {0}
      /\ half \in Nat /\ 2 * half <= range /\ range <= 2 * half + 1
      /\ CorrMin(range) = -half /\ CorrMax(range) = -half + range - 1
  BY HalfAssumption DEF CorrMin, CorrMax
<1>2. pred \in Int /\ real \in Int /\ -half <= pred /\ pred < range
      /\ -half <= real /\ real < range
  <2>1. least \in {0, -half}
    BY <1>1
  <2>. QED BY <1>1, <2>1
<1> HIDE DEF half
<1>3. corr \in Int /\ -range < corr /\ corr < range /\ corr \in I32
  <2>1. least \in Int
    BY <1>1
  <2>2. corr \in Int /\ -range < corr /\ corr < range
    BY <2>1, <1>1
  <2>. QED BY <1>1, <2>2 DEF I32
<1>4. Fold(range, pred, real) = c
  <2>1. Wrap(corr) = corr
    BY <1>3, WrapTurns
  <2>2. corr < -half => corr + range \in I32 /\ Wrap(corr + range) = corr + range
    <3>1. corr < -half => corr + range \in I32
      BY <1>1, <1>3 DEF I32
    <3>. QED BY <3>1, WrapTurns
  <2>3. corr > -half + range - 1 =>
          corr - range \in I32 /\ Wrap(corr - range) = corr - range
    <3>1. corr > -half + range - 1 => corr - range \in I32
      BY <1>1, <1>3 DEF I32
    <3>. QED BY <3>1, WrapTurns
  <2>. QED BY <1>1, <2>1, <2>2, <2>3 DEF Fold
<1>5. c \in -half .. -half + range - 1 /\ c \in {corr, corr + range, corr - range}
  BY <1>1, <1>3
<1>6. sum \in {real, real + range, real - range}
      /\ sum \in Int /\ -(2 * half) <= sum /\ sum < 2 * range
  <2>1. sum \in {real, real + range, real - range}
    <3> HIDE DEF c
    <3>. QED BY <1>5, <1>2, <1>1
  <2>2. c \in Int /\ -half <= c /\ c <= -half + range - 1
    BY <1>5, <1>1
  <2> HIDE DEF c
  <2>. QED BY <1>1, <1>2, <2>1, <2>2
<1> HIDE DEF c, corr
<1> DEFINE there == IF sum < 0 THEN sum + range ELSE IF sum >= range THEN sum - range ELSE sum
<1>7. Unfold(range, pred, c) = there
  <2> USE DEF I32
  <2>1. CASE sum < Half
    <3>1. sum \in I32 /\ sum + range \in Int
      BY <1>1, <1>6, <2>1
    <3>2. Wrap(sum) = sum
      BY <3>1, WrapTurns
    <3>3. sum < 0 => Wrap(sum + range) = sum + range
      <4>1. sum < 0 => sum + range \in I32
        BY <1>1, <1>6
      <4>. QED BY <4>1, WrapTurns
    <3>4. sum >= range => Wrap(sum - range) = sum - range
      <4>1. sum >= range => sum - range \in I32
        BY <1>1, <1>6, <2>1
      <4>. QED BY <4>1, WrapTurns
    <3> HIDE DEF sum
    <3>5. Unfold(range, pred, c) = IF Wrap(sum) < 0 THEN Wrap(Wrap(sum) + range)
                                   ELSE IF Wrap(sum) >= range THEN Wrap(Wrap(sum) - range)
                                   ELSE Wrap(sum)
      BY DEF Unfold, sum
    <3>. QED BY <3>2, <3>3, <3>4, <3>5
  <2>2. CASE sum >= Half
    <3>1. range = Half /\ sum - 2 * Half \in I32 /\ sum - Half \in I32
      BY <1>1, <1>6, <2>2
    <3> DEFINE low == sum - 2 * Half
    <3>2. low + 2 * Half = sum /\ low < 0 /\ low + range = sum - range /\ low \in I32
          /\ ~(sum < 0) /\ sum >= range /\ sum - range \in I32
      BY <1>1, <1>6, <2>2, <3>1
    <3> HIDE DEF low, sum
    <3>3. Wrap(sum) = low /\ Wrap(sum - range) = sum - range
      BY <3>2, WrapTurns
    <3>4. Unfold(range, pred, c) = IF Wrap(sum) < 0 THEN Wrap(Wrap(sum) + range)
                                   ELSE IF Wrap(sum) >= range THEN Wrap(Wrap(sum) - range)
                                   ELSE Wrap(sum)
      BY DEF Unfold, sum
    <3>. QED BY <3>2, <3>3, <3>4
  <2>. QED BY <1>1, <1>6, <2>1, <2>2
<1>8. there \in 0 .. range - 1
  BY <1>1, <1>6
<1>9. there - real \in {0, range}
  <2>1. there \in {real - 2 * range, real - range, real, real + range, real + 2 * range}
    BY <1>1, <1>2, <1>6
  <2>2. there \in Int /\ 0 <= there /\ there < range
    BY <1>8, <1>1
  <2> HIDE DEF there
  <2>. QED BY <2>1, <2>2, <1>1, <1>2
<1>10. 0 % range = 0 /\ range % range = 0
  <2>1. 0 \in 0 .. range - 1 /\ 0 + range = range
    BY <1>1
  <2>. QED BY <2>1, <1>1, SmallRemainder
<1>. QED BY <1>1, <1>4, <1>5, <1>7, <1>8, <1>9, <1>10
=============================================================================
