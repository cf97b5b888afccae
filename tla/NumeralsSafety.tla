---------------------------- MODULE NumeralsSafety ----------------------------
(***************************************************************************)
(* Proofs about Numerals: what the numerals of a number say when they are    *)
(* read the way people read them is the number.  The digits are followed one *)
(* by one: what a reader of a kanji numeral has heard after each of them     *)
(* (PieceRead), and what the letters of each Roman value add to those that   *)
(* are written (BlockRead).                                                *)
(***************************************************************************)
EXTENDS LookupSafety

(* The digits of a number one by one: the recursion of ToInt.                *)
LEMMA ToIntIs ==
    ASSUME NEW n \in Seq(0 .. 9)
    PROVE  \E f : /\ f[0] = 0 /\ \A i \in 0 .. Len(n) - 1 : f[i + 1] = 10 * f[i] + n[i + 1]
                  /\ ToInt(n) = f[Len(n)]
<1> DEFINE L == Len(n)
           Is(f) == f = [i \in 0 .. L |-> IF i = 0 THEN 0 ELSE 10 * f[i - 1] + n[i]]
           step == [i \in 1 .. L |-> [t \in Nat |-> 10 * t + n[i]]]
           upto == CHOOSE f : Is(f)
<1>1. ToInt(n) = upto[L]
  BY DEF ToInt
<1>2. L \in Nat /\ \A i \in 1 .. L : n[i] \in 0 .. 9
  OBVIOUS
<1> HIDE DEF L
<1>3. \A i \in 1 .. L : \A t \in Nat : 10 * t + n[i] \in Nat
  BY <1>2
<1>4. PICK z : z = 0
  OBVIOUS
<1>5. PICK f \in [0 .. L -> Nat] : f = [i \in 0 .. L |-> IF i = 0 THEN 0 ELSE step[i][f[i - 1]]]
  <2>1. step \in [1 .. L -> [Nat -> Nat]] /\ z \in Nat
    BY <1>3, <1>4
  <2> HIDE DEF step
  <2>2. \E f \in [0 .. L -> Nat] : Stepwise(f, L, z, step)
    BY <1>2, <2>1, RecursionExists
  <2> QED
    BY <1>4, <2>2 DEF Stepwise
<1>6. \A i \in 0 .. L : i # 0 => step[i][f[i - 1]] = 10 * f[i - 1] + n[i]
  <2> SUFFICES ASSUME NEW i \in 0 .. L, i # 0 PROVE step[i][f[i - 1]] = 10 * f[i - 1] + n[i]
    OBVIOUS
  <2>1. i \in 1 .. L /\ i - 1 \in 0 .. L
    BY <1>2
  <2>2. f[i - 1] \in Nat
    BY <2>1
  <2> QED
    BY <2>1, <2>2
<1>7. Is(f)
  <2> HIDE DEF step
  <2> QED
    BY <1>5, <1>6
<1>8. Is(upto)
  BY <1>7
<1> HIDE DEF step, upto
<1>9. upto[0] = 0 /\ \A i \in 0 .. L - 1 : upto[i + 1] = 10 * upto[i] + n[i + 1]
  BY <1>2, <1>8
<1> QED
  BY <1>1, <1>9 DEF L

(* The digit at a place, zero before the number begins.                      *)
At0(n, j) == IF j \in 1 .. Len(n) THEN n[j] ELSE 0

(* A digit is below ten.                                                     *)
LEMMA At0Typed == \A n \in Seq(0 .. 9) : \A j : At0(n, j) \in 0 .. 9
  BY DEF At0

(* The number the last digits are, up to a place: as many as the place has     *)
(* in its group of four.                                                    *)
Partial(n, i) ==
    LET r == (Len(n) - i) % 4
    IN  IF r = 3 THEN 1000 * At0(n, i)
        ELSE IF r = 2 THEN 1000 * At0(n, i - 1) + 100 * At0(n, i)
        ELSE IF r = 1 THEN 1000 * At0(n, i - 2) + 100 * At0(n, i - 1) + 10 * At0(n, i)
        ELSE 1000 * At0(n, i - 3) + 100 * At0(n, i - 2) + 10 * At0(n, i - 1) + At0(n, i)

(* Up to four digits.                                                       *)
LEMMA ToIntShort ==
    ASSUME NEW n \in Seq(0 .. 9), NEW L, L = Len(n), L <= 4
    PROVE  ToInt(n) = 1000 * At0(n, L - 3) + 100 * At0(n, L - 2) + 10 * At0(n, L - 1) + At0(n, L)
<1>1. PICK f : /\ f[0] = 0 /\ \A i \in 0 .. L - 1 : f[i + 1] = 10 * f[i] + n[i + 1]
               /\ ToInt(n) = f[L]
  BY ToIntIs
<1>2. L \in 0 .. 4 /\ \A i \in 1 .. L : n[i] \in 0 .. 9
  OBVIOUS
<1>3. /\ L > 0 => f[1] = 10 * f[0] + n[1]
      /\ L > 1 => f[2] = 10 * f[1] + n[2]
      /\ L > 2 => f[3] = 10 * f[2] + n[3]
      /\ L > 3 => f[4] = 10 * f[3] + n[4]
  <2>1. \A i \in 0 .. 3 : L > i => f[i + 1] = 10 * f[i] + n[i + 1]
    BY <1>1, <1>2
  <2> QED
    BY <2>1
<1>4. CASE L = 0
  BY <1>1, <1>4 DEF At0
<1>5. CASE L = 1
  <2>1. n[1] \in 0 .. 9
    BY <1>2, <1>5
  <2> QED
    BY <1>1, <1>3, <1>5, <2>1 DEF At0
<1>6. CASE L = 2
  <2>1. n[1] \in 0 .. 9 /\ n[2] \in 0 .. 9
    BY <1>2, <1>6
  <2> QED
    BY <1>1, <1>3, <1>6, <2>1 DEF At0
<1>7. CASE L = 3
  <2>1. PICK a, b, c : a = n[1] /\ b = n[2] /\ c = n[3]
    OBVIOUS
  <2>2. a \in 0 .. 9 /\ b \in 0 .. 9 /\ c \in 0 .. 9
    BY <1>2, <1>7, <2>1
  <2>3. At0(n, 0) = 0 /\ At0(n, 1) = a /\ At0(n, 2) = b /\ At0(n, 3) = c
    BY <1>7, <2>1 DEF At0
  <2>4. f[1] = a /\ f[2] = 10 * f[1] + b /\ f[3] = 10 * f[2] + c
    BY <1>1, <1>3, <1>7, <2>1, <2>2
  <2>5. f[3] = 100 * a + 10 * b + c
    BY <2>2, <2>4
  <2> QED
    BY <1>1, <1>7, <2>2, <2>3, <2>5
<1>8. CASE L = 4
  <2>1. PICK a, b, c, d : a = n[1] /\ b = n[2] /\ c = n[3] /\ d = n[4]
    OBVIOUS
  <2>2. a \in 0 .. 9 /\ b \in 0 .. 9 /\ c \in 0 .. 9 /\ d \in 0 .. 9
    BY <1>2, <1>8, <2>1
  <2>3. At0(n, 1) = a /\ At0(n, 2) = b /\ At0(n, 3) = c /\ At0(n, 4) = d
    BY <1>8, <2>1 DEF At0
  <2>4. f[1] = a /\ f[2] = 10 * f[1] + b /\ f[3] = 10 * f[2] + c /\ f[4] = 10 * f[3] + d
    BY <1>1, <1>3, <1>8, <2>1, <2>2
  <2>5. f[4] = 1000 * a + 100 * b + 10 * c + d
    BY <2>2, <2>4
  <2> QED
    BY <1>1, <1>8, <2>2, <2>3, <2>5
<1> QED
  BY <1>2, <1>4, <1>5, <1>6, <1>7, <1>8

(* A group of four is its last digit's partial number.                       *)
LEMMA GroupsAre ==
    ASSUME NEW n \in Seq(0 .. 9), NEW g \in 0 .. 4
    PROVE  GroupsOf(n)[g] = IF 4 * g < Len(n) THEN Partial(n, Len(n) - 4 * g) ELSE 0
<1>1. PICK N, last : N = Len(n) /\ last = N - 4 * g
  OBVIOUS
<1>2. N \in Nat /\ last \in Int
  BY <1>1
<1>3. PICK first : first = IF last > 3 THEN last - 3 ELSE 1
  OBVIOUS
<1>4. GroupsOf(n)[g] = IF last < 1 THEN 0 ELSE ToInt(SubSeq(n, first, last))
  BY <1>1, <1>3 DEF GroupsOf
<1>5. ASSUME last >= 1 PROVE ToInt(SubSeq(n, first, last)) = Partial(n, last)
  <2>1. PICK s, L : s = SubSeq(n, first, last) /\ L = last - first + 1
    OBVIOUS
  <2>2. /\ first \in 1 .. N /\ last \in 1 .. N /\ L \in 1 .. 4 /\ first <= last
        /\ (L = 4 /\ first = last - 3) \/ (last < 4 /\ first = 1 /\ L = last)
    <3>1. last <= N
      BY <1>1, <1>2
    <3>2. CASE last > 3
      <4>1. first = last - 3
        BY <1>3, <3>2
      <4>2. L = 4
        BY <1>2, <2>1, <4>1
      <4> QED
        BY <1>2, <3>1, <3>2, <4>1, <4>2
    <3>3. CASE ~(last > 3)
      BY <1>2, <1>3, <1>5, <2>1, <3>1, <3>3
    <3> QED
      BY <3>2, <3>3
  <2>3. s \in Seq(0 .. 9) /\ Len(s) = L /\ \A j \in 1 .. L : s[j] = n[first + j - 1]
    <3>1. s = [j \in 1 .. last - first + 1 |-> n[first + j - 1]]
      BY <1>1, <2>1, <2>2
    <3>2. s = [j \in 1 .. L |-> s[j]] /\ \A j \in 1 .. L : s[j] = n[first + j - 1]
      BY <2>1, <3>1
    <3>3. \A j \in 1 .. L : first + j - 1 \in 1 .. N
      BY <1>1, <1>2, <2>1, <2>2
    <3>4. \A j \in 1 .. L : s[j] \in 0 .. 9
      BY <1>1, <3>2, <3>3
    <3>5. s \in Seq(0 .. 9)
      <4>1. L \in Nat
        BY <2>2
      <4>2. PICK D : D = 0 .. 9
        OBVIOUS
      <4>3. \A j \in 1 .. L : s[j] \in D
        BY <3>4, <4>2
      <4>4. s \in Seq(D)
        BY ONLY <3>2, <4>1, <4>3, IsSeq
      <4> QED
        BY <4>2, <4>4
    <3> QED
      BY <2>2, <3>2, <3>5
  <2>4. ToInt(s) = 1000 * At0(s, L - 3) + 100 * At0(s, L - 2) + 10 * At0(s, L - 1) + At0(s, L)
    <3>1. L <= 4
      BY <2>2
    <3> QED
      BY <2>3, <3>1, ToIntShort
  <2>5. \A k \in 0 .. 3 : At0(s, L - k) = At0(n, last - k)
    <3> SUFFICES ASSUME NEW k \in 0 .. 3 PROVE At0(s, L - k) = At0(n, last - k)
      OBVIOUS
    <3>1. CASE L - k >= 1
      <4>1. L - k \in 1 .. L /\ last - k \in 1 .. N /\ first + (L - k) - 1 = last - k
        BY <1>2, <2>2, <3>1
      <4> QED
        BY <1>1, <2>3, <4>1 DEF At0
    <3>2. CASE L - k < 1
      <4>1. L - k \notin 1 .. L /\ last - k \notin 1 .. N
        BY <1>2, <2>2, <3>2
      <4> QED
        BY <1>1, <2>3, <4>1 DEF At0
    <3> QED
      BY <2>2, <3>1, <3>2
  <2>6. /\ At0(s, L) = At0(n, last) /\ At0(s, L - 1) = At0(n, last - 1)
        /\ At0(s, L - 2) = At0(n, last - 2) /\ At0(s, L - 3) = At0(n, last - 3)
    <3>1. \A k \in {0, 1, 2, 3} : At0(s, L - k) = At0(n, last - k)
      BY <2>5
    <3>2. L - 0 = L /\ last - 0 = last
      BY <2>2
    <3> QED
      BY <3>1, <3>2
  <2>7. (Len(n) - last) % 4 = 0
    BY <1>1, <1>2
  <2> QED
    BY <2>1, <2>4, <2>6, <2>7 DEF Partial
<1> QED
  BY <1>1, <1>2, <1>4, <1>5

(* What a digit is worth in its group.                                       *)
Weight(r) == IF r = 0 THEN 1 ELSE IF r = 1 THEN 10 ELSE IF r = 2 THEN 100 ELSE 1000

(* The partial number when a digit has been read: the group goes on, or begins.*)
LEMMA PartialStep ==
    ASSUME NEW n \in Seq(0 .. 9), NEW i \in 1 .. Len(n), NEW r, r = (Len(n) - i) % 4
    PROVE  /\ Partial(n, i) \in Nat
           /\ Partial(n, i) = (IF r = 3 THEN 0 ELSE Partial(n, i - 1)) + n[i] * Weight(r)
<1>1. PICK N, a, b, c, d : /\ N = Len(n) /\ a = At0(n, i - 3) /\ b = At0(n, i - 2)
                           /\ c = At0(n, i - 1) /\ d = At0(n, i)
  OBVIOUS
<1>2. /\ N \in Nat /\ i \in 1 .. N /\ a \in 0 .. 9 /\ b \in 0 .. 9 /\ c \in 0 .. 9
      /\ d \in 0 .. 9 /\ d = n[i]
  <2>1. i \in 1 .. N /\ d = n[i]
    BY <1>1 DEF At0
  <2> QED
    BY <1>1, <2>1, At0Typed
<1>3. r = (N - i) % 4 /\ r \in 0 .. 3
  BY <1>1, <1>2
<1>4. Partial(n, i) = IF r = 3 THEN 1000 * d
                      ELSE IF r = 2 THEN 1000 * c + 100 * d
                      ELSE IF r = 1 THEN 1000 * b + 100 * c + 10 * d
                      ELSE 1000 * a + 100 * b + 10 * c + d
  BY <1>1 DEF Partial
<1>5. r # 3 => (Len(n) - (i - 1)) % 4 = r + 1
  <2>1. PICK x, q : x = N - i /\ q = x \div 4
    OBVIOUS
  <2>2. x \in Nat /\ q \in Nat /\ x = 4 * q + r
    BY <1>2, <1>3, <2>1
  <2>3. Len(n) - (i - 1) = x + 1
    BY <1>1, <1>2, <2>1
  <2>4. r # 3 => (x + 1) % 4 = r + 1
    BY <1>3, <2>2
  <2> QED
    BY <2>3, <2>4
<1>6. (i - 1) - 1 = i - 2 /\ (i - 1) - 2 = i - 3
  BY <1>2
<1>7. r # 3 => Partial(n, i - 1) = IF r = 2 THEN 1000 * c
                                   ELSE IF r = 1 THEN 1000 * b + 100 * c
                                   ELSE 1000 * a + 100 * b + 10 * c
  <2> SUFFICES ASSUME r # 3 PROVE Partial(n, i - 1) = IF r = 2 THEN 1000 * c
                                   ELSE IF r = 1 THEN 1000 * b + 100 * c
                                   ELSE 1000 * a + 100 * b + 10 * c
    OBVIOUS
  <2>1. PICK q, k : q = r + 1 /\ k = i - 1
    OBVIOUS
  <2>2. /\ (Len(n) - k) % 4 = q /\ q \in 1 .. 3
        /\ At0(n, k) = c /\ At0(n, k - 1) = b /\ At0(n, k - 2) = a
    BY <1>1, <1>3, <1>5, <1>6, <2>1
  <2>3. Partial(n, k) = IF q = 3 THEN 1000 * c
                        ELSE IF q = 2 THEN 1000 * b + 100 * c
                        ELSE 1000 * a + 100 * b + 10 * c
    BY <2>2 DEF Partial
  <2> QED
    BY <1>3, <2>1, <2>3
<1>8. CASE r = 3
  <2>1. Weight(r) = 1000
    BY <1>8 DEF Weight
  <2>2. n[i] * Weight(r) = d * 1000
    BY <1>2, <2>1, Zenon
  <2>3. Partial(n, i) = 1000 * d
    BY <1>4, <1>8
  <2> QED
    BY <1>2, <1>8, <2>2, <2>3
<1>9. CASE r = 2
  <2>1. Weight(r) = 100
    BY <1>9 DEF Weight
  <2>2. n[i] * Weight(r) = d * 100
    BY <1>2, <2>1, Zenon
  <2>3. Partial(n, i) = 1000 * c + 100 * d
    BY <1>4, <1>9
  <2>4. r # 3 /\ Partial(n, i - 1) = 1000 * c
    BY <1>7, <1>9
  <2>5. PICK p, w, x : p = Partial(n, i - 1) /\ w = n[i] * Weight(r) /\ x = Partial(n, i)
    OBVIOUS
  <2>6. p = 1000 * c /\ w = d * 100 /\ x = 1000 * c + 100 * d
    BY <2>2, <2>3, <2>4, <2>5
  <2>7. x \in Nat /\ x = p + w
    <3>1. a \in 0 .. 9 /\ b \in 0 .. 9 /\ c \in 0 .. 9 /\ d \in 0 .. 9
      BY <1>2
    <3> QED
      BY ONLY <2>6, <3>1
  <2> QED
    BY <2>4, <2>5, <2>7
<1>10. CASE r = 1
  <2>1. Weight(r) = 10
    BY <1>10 DEF Weight
  <2>2. n[i] * Weight(r) = d * 10
    BY <1>2, <2>1, Zenon
  <2>3. Partial(n, i) = 1000 * b + 100 * c + 10 * d
    BY <1>4, <1>10
  <2>4. r # 3 /\ Partial(n, i - 1) = 1000 * b + 100 * c
    BY <1>7, <1>10
  <2>5. PICK p, w, x : p = Partial(n, i - 1) /\ w = n[i] * Weight(r) /\ x = Partial(n, i)
    OBVIOUS
  <2>6. p = 1000 * b + 100 * c /\ w = d * 10 /\ x = 1000 * b + 100 * c + 10 * d
    BY <2>2, <2>3, <2>4, <2>5
  <2>7. x \in Nat /\ x = p + w
    <3>1. a \in 0 .. 9 /\ b \in 0 .. 9 /\ c \in 0 .. 9 /\ d \in 0 .. 9
      BY <1>2
    <3> QED
      BY ONLY <2>6, <3>1
  <2> QED
    BY <2>4, <2>5, <2>7
<1>11. CASE r = 0
  <2>1. Weight(r) = 1
    BY <1>11 DEF Weight
  <2>2. n[i] * Weight(r) = d * 1
    BY <1>2, <2>1, Zenon
  <2>3. Partial(n, i) = 1000 * a + 100 * b + 10 * c + d
    BY <1>4, <1>11
  <2>4. r # 3 /\ Partial(n, i - 1) = 1000 * a + 100 * b + 10 * c
    BY <1>7, <1>11
  <2>5. PICK p, w, x : p = Partial(n, i - 1) /\ w = n[i] * Weight(r) /\ x = Partial(n, i)
    OBVIOUS
  <2>6. p = 1000 * a + 100 * b + 10 * c /\ w = d * 1 /\ x = 1000 * a + 100 * b + 10 * c + d
    BY <2>2, <2>3, <2>4, <2>5
  <2>7. x \in Nat /\ x = p + w
    <3>1. a \in 0 .. 9 /\ b \in 0 .. 9 /\ c \in 0 .. 9 /\ d \in 0 .. 9
      BY <1>2
    <3> QED
      BY ONLY <2>6, <3>1
  <2> QED
    BY <2>4, <2>5, <2>7
<1> QED
  BY <1>3, <1>8, <1>9, <1>10, <1>11

(* Before the first digit it is zero.                                        *)
LEMMA PartialNone == ASSUME NEW n \in Seq(0 .. 9) PROVE Partial(n, 0) = 0
<1>1. PICK N, r : N = Len(n) /\ r = (N - 0) % 4
  OBVIOUS
<1>2. N \in Nat /\ r \in 0 .. 3
  BY <1>1
<1>3. \A j \in {0, 0 - 1, 0 - 2, 0 - 3} : At0(n, j) = 0
  BY <1>1, <1>2 DEF At0
<1>4. At0(n, 0) = 0 /\ At0(n, 0 - 1) = 0 /\ At0(n, 0 - 2) = 0 /\ At0(n, 0 - 3) = 0
  BY <1>3
<1> QED
  BY <1>1, <1>2, <1>4 DEF Partial

(* A large unit is written after a group that is not zero.                    *)
LEMMA UnitWritten ==
    ASSUME NEW n \in Seq(0 .. 9), NEW i \in 1 .. Len(n), NEW e, e = Len(n) - i, e > 0, e % 4 = 0
    PROVE  WritesUnit(n, e) <=> Partial(n, i) > 0
<1>1. PICK N : N = Len(n)
  OBVIOUS
<1>2. N \in Nat /\ DOMAIN n = 1 .. N /\ i \in 1 .. N /\ e \in Nat /\ e = N - i
  BY <1>1
<1>3. PICK a, b, c, d : /\ a = At0(n, i - 3) /\ b = At0(n, i - 2)
                        /\ c = At0(n, i - 1) /\ d = At0(n, i)
  OBVIOUS
<1>4. a \in 0 .. 9 /\ b \in 0 .. 9 /\ c \in 0 .. 9 /\ d \in 0 .. 9
  BY <1>3, At0Typed
<1>5. Partial(n, i) = 1000 * a + 100 * b + 10 * c + d
  BY <1>1, <1>2, <1>3 DEF Partial
<1>6. Partial(n, i) > 0 <=> (a # 0 \/ b # 0 \/ c # 0 \/ d # 0)
  BY <1>4, <1>5
<1>7. WritesUnit(n, e) <=> \E j \in 1 .. N : (N - j) \div 4 = e \div 4 /\ n[j] # 0
  BY <1>1, <1>2 DEF WritesUnit
<1>8. \A j \in 1 .. N : (N - j) \div 4 = e \div 4 <=> j \in {i - 3, i - 2, i - 1, i}
  <2> SUFFICES ASSUME NEW j \in 1 .. N
               PROVE  (N - j) \div 4 = e \div 4 <=> j \in {i - 3, i - 2, i - 1, i}
    OBVIOUS
  <2>1. PICK k, x : k = e \div 4 /\ x = N - j
    OBVIOUS
  <2>2. k \in Nat /\ e = 4 * k /\ x \in Nat
    BY <1>2, <2>1
  <2>3. x \div 4 = k <=> 4 * k <= x /\ x <= 4 * k + 3
    BY <2>2
  <2>4. (4 * k <= x /\ x <= 4 * k + 3) <=> j \in {i - 3, i - 2, i - 1, i}
    BY <1>2, <2>1, <2>2
  <2> QED
    BY <2>1, <2>3, <2>4
<1>9. ASSUME NEW j \in 1 .. N, j \in {i - 3, i - 2, i - 1, i}, n[j] # 0
      PROVE  a # 0 \/ b # 0 \/ c # 0 \/ d # 0
  <2>1. At0(n, j) = n[j]
    BY <1>1 DEF At0
  <2> QED
    BY <1>3, <1>9, <2>1
<1>10. ASSUME NEW j \in {i - 3, i - 2, i - 1, i}, At0(n, j) # 0
       PROVE  j \in 1 .. N /\ n[j] # 0
  BY <1>1, <1>10 DEF At0
<1>11. ASSUME a # 0 \/ b # 0 \/ c # 0 \/ d # 0
       PROVE  \E j \in {i - 3, i - 2, i - 1, i} : At0(n, j) # 0
  BY <1>3, <1>11
<1> QED
  BY <1>6, <1>7, <1>8, <1>9, <1>10, <1>11

(* The digits differ, and each has its value.                                *)
LEMMA ValueIs == \A v \in 0 .. 9 : Digits[v + 1] \in Digit /\ Value[Digits[v + 1]] = v
<1>1. \A i, j \in 1 .. 10 : Digits[i] = Digits[j] => i = j
  <2> SUFFICES ASSUME NEW i \in 1 .. 10, NEW j \in 1 .. 10, i # j PROVE Digits[i] # Digits[j]
    OBVIOUS
  <2>1. /\ Digits[1] = "0" /\ Digits[2] = "1" /\ Digits[3] = "2" /\ Digits[4] = "3"
        /\ Digits[5] = "4" /\ Digits[6] = "5" /\ Digits[7] = "6" /\ Digits[8] = "7"
        /\ Digits[9] = "8" /\ Digits[10] = "9"
    BY DEF Digits
  <2>2. \A k \in 1 .. 10 : \/ k = 1 \/ k = 2 \/ k = 3 \/ k = 4 \/ k = 5
                           \/ k = 6 \/ k = 7 \/ k = 8 \/ k = 9 \/ k = 10
    OBVIOUS
  <2> QED
    BY <2>1, <2>2
<1> SUFFICES ASSUME NEW v \in 0 .. 9 PROVE Digits[v + 1] \in Digit /\ Value[Digits[v + 1]] = v
  OBVIOUS
<1>2. PICK d : d = Digits[v + 1]
  OBVIOUS
<1>3. d \in Digit
  BY <1>2, DigitsAre
<1>4. Value[d] = CHOOSE x \in 0 .. 9 : Digits[x + 1] = d
  BY <1>3 DEF Value
<1>5. \A x \in 0 .. 9 : Digits[x + 1] = d => x = v
  <2> SUFFICES ASSUME NEW x \in 0 .. 9, Digits[x + 1] = d PROVE x = v
    OBVIOUS
  <2>1. x + 1 \in 1 .. 10 /\ v + 1 \in 1 .. 10
    OBVIOUS
  <2>2. x + 1 = v + 1
    BY <1>1, <1>2, <2>1
  <2> QED
    BY <2>2
<1> QED
  BY <1>2, <1>3, <1>4, <1>5

(* What a reader of kanji has heard, as long as it found nothing wrong.       *)
Heard(groups, now, digit, below) ==
    [groups |-> groups, now |-> now, digit |-> digit, below |-> below, ok |-> TRUE]

(* After a digit.                                                            *)
LEMMA HeardDigit ==
    ASSUME NEW g, NEW now, NEW below, NEW d
    PROVE  AtDigit(Heard(g, now, 0, below), d) = Heard(g, now, d, below)
<1> PICK t \in BOOLEAN : t = TRUE
  OBVIOUS
<1>1. PICK z : z = 0
  OBVIOUS
<1>2. PICK r : r = [groups |-> g, now |-> now, digit |-> z, below |-> below, ok |-> t]
  OBVIOUS
<1>3. Heard(g, now, 0, below) = r
  BY <1>1, <1>2, Zenon DEF Heard
<1>4. r.digit = 0 /\ r.ok = t
  BY <1>1, <1>2
<1>5. (r.ok /\ r.digit = 0) = t
  BY <1>4, Zenon
<1>6. AtDigit(r, d) = [r EXCEPT !.digit = d, !.ok = t]
  BY <1>5, Zenon DEF AtDigit
<1>7. [r EXCEPT !.digit = d, !.ok = t] =
        [groups |-> g, now |-> now, digit |-> d, below |-> below, ok |-> t]
  <2>1. PICK u : u = [r EXCEPT !.digit = d]
    OBVIOUS
  <2>2. u = [groups |-> g, now |-> now, digit |-> d, below |-> below, ok |-> t]
    BY <1>2, <2>1
  <2>3. PICK v : v = [u EXCEPT !.ok = t]
    OBVIOUS
  <2>4. v = [groups |-> g, now |-> now, digit |-> d, below |-> below, ok |-> t]
    BY <2>2, <2>3
  <2>5. [r EXCEPT !.digit = d, !.ok = t] = v
    BY <2>1, <2>3
  <2> QED
    BY <2>4, <2>5
<1>8. Heard(g, now, d, below) = [groups |-> g, now |-> now, digit |-> d, below |-> below, ok |-> t]
  BY Zenon DEF Heard
<1> QED
  BY <1>3, <1>6, <1>7, <1>8

(* After a unit: the digit before it, or one, counts that many.              *)
LEMMA HeardUnit ==
    ASSUME NEW g, NEW now, NEW below, NEW d, NEW w
    PROVE  AtUnit(Heard(g, now, d, below), w) =
             Heard(g, now + (IF d = 0 THEN 1 ELSE d) * w, 0, below)
<1> PICK t \in BOOLEAN : t = TRUE
  OBVIOUS
<1>1. PICK r, z, x : /\ r = [groups |-> g, now |-> now, digit |-> d, below |-> below, ok |-> t]
                     /\ z = 0 /\ x = now + (IF d = 0 THEN 1 ELSE d) * w
  OBVIOUS
<1>2. Heard(g, now, d, below) = r
  BY <1>1, Zenon DEF Heard
<1>3. r.now = now /\ r.digit = d
  BY <1>1
<1>4. AtUnit(r, w) = [r EXCEPT !.now = x, !.digit = z]
  BY <1>1, <1>3, Zenon DEF AtUnit
<1>5. [r EXCEPT !.now = x, !.digit = z] =
        [groups |-> g, now |-> x, digit |-> z, below |-> below, ok |-> t]
  <2>1. PICK u : u = [r EXCEPT !.now = x]
    OBVIOUS
  <2>2. u = [groups |-> g, now |-> x, digit |-> d, below |-> below, ok |-> t]
    BY <1>1, <2>1
  <2>3. PICK v : v = [u EXCEPT !.digit = z]
    OBVIOUS
  <2>4. v = [groups |-> g, now |-> x, digit |-> z, below |-> below, ok |-> t]
    BY <2>2, <2>3
  <2>5. [r EXCEPT !.now = x, !.digit = z] = v
    BY <2>1, <2>3
  <2> QED
    BY <2>4, <2>5
<1>6. Heard(g, x, 0, below) = [groups |-> g, now |-> x, digit |-> z, below |-> below, ok |-> t]
  BY <1>1, Zenon DEF Heard
<1> QED
  BY <1>1, <1>2, <1>4, <1>5, <1>6

(* After a large unit: the group is complete.                                *)
LEMMA HeardLarge ==
    ASSUME NEW g, NEW now, NEW below, NEW d, NEW k, k < below,
           NEW worth, worth = now + d, worth > 0
    PROVE  AtLarge(Heard(g, now, d, below), k) = Heard([g EXCEPT ![k] = worth], 0, 0, k)
<1> PICK t \in BOOLEAN : t = TRUE
  OBVIOUS
<1>1. PICK r, z, h : /\ r = [groups |-> g, now |-> now, digit |-> d, below |-> below, ok |-> t]
                     /\ z = 0 /\ h = [g EXCEPT ![k] = worth]
  OBVIOUS
<1>2. Heard(g, now, d, below) = r
  BY <1>1, Zenon DEF Heard
<1>3. r.groups = g /\ r.now = now /\ r.digit = d /\ r.below = below /\ r.ok = t
  BY <1>1
<1>4. (r.ok /\ k < r.below /\ r.now + r.digit > 0) = t
  BY <1>3, Zenon
<1>5. AtLarge(r, k) =
        [r EXCEPT !.groups = h, !.now = z, !.digit = z, !.below = k, !.ok = t]
  <2>1. AtLarge(r, k) = [r EXCEPT !.groups[k] = r.now + r.digit, !.now = 0, !.digit = 0,
                                  !.below = k, !.ok = t]
    BY <1>4, Zenon DEF AtLarge
  <2>2. [r EXCEPT !.groups[k] = r.now + r.digit, !.now = 0, !.digit = 0, !.below = k, !.ok = t] =
        [r EXCEPT !.groups = h, !.now = z, !.digit = z, !.below = k, !.ok = t]
    BY <1>1, <1>3
  <2> QED
    BY <2>1, <2>2
<1>6. [r EXCEPT !.groups = h, !.now = z, !.digit = z, !.below = k, !.ok = t] =
        [groups |-> h, now |-> z, digit |-> z, below |-> k, ok |-> t]
  <2>1. PICK u : u = [r EXCEPT !.groups = h]
    OBVIOUS
  <2>2. u = [groups |-> h, now |-> now, digit |-> d, below |-> below, ok |-> t]
    BY <1>1, <2>1
  <2>3. PICK v : v = [u EXCEPT !.now = z]
    OBVIOUS
  <2>4. v = [groups |-> h, now |-> z, digit |-> d, below |-> below, ok |-> t]
    BY <2>2, <2>3
  <2>5. PICK w : w = [v EXCEPT !.digit = z]
    OBVIOUS
  <2>6. w = [groups |-> h, now |-> z, digit |-> z, below |-> below, ok |-> t]
    BY <2>4, <2>5
  <2>7. PICK x : x = [w EXCEPT !.below = k]
    OBVIOUS
  <2>8. x = [groups |-> h, now |-> z, digit |-> z, below |-> k, ok |-> t]
    BY <2>6, <2>7
  <2>9. PICK y : y = [x EXCEPT !.ok = t]
    OBVIOUS
  <2>10. y = [groups |-> h, now |-> z, digit |-> z, below |-> k, ok |-> t]
    BY <2>8, <2>9
  <2>11. [r EXCEPT !.groups = h, !.now = z, !.digit = z, !.below = k, !.ok = t] = y
    BY <2>1, <2>3, <2>5, <2>7, <2>9
  <2> QED
    BY <2>10, <2>11
<1>7. Heard(h, 0, 0, k) = [groups |-> h, now |-> z, digit |-> z, below |-> k, ok |-> t]
  BY <1>1, Zenon DEF Heard
<1> QED
  BY <1>1, <1>2, <1>5, <1>6, <1>7

(* A table without the same glyph twice.                                     *)
LEMMA NthIs ==
    ASSUME NEW table, NEW S, S = DOMAIN table, \A i, j \in S : table[i] = table[j] => i = j,
           NEW e \in S
    PROVE  Nth(table, table[e]) = e
<1>1. PICK x : x = CHOOSE i \in S : table[i] = table[e]
  OBVIOUS
<1>2. x \in S /\ table[x] = table[e]
  BY <1>1
<1>3. x = e
  BY <1>2
<1> QED
  BY <1>1, <1>3 DEF Nth

(* Glyphs that can be told apart.                                            *)
Legible(digits, units) ==
    /\ DOMAIN digits = Digit /\ DOMAIN units = 1 .. 3
    /\ \A c, d \in Digit : digits[c] = digits[d] => c = d
    /\ \A i, j \in 1 .. 3 : units[i] = units[j] => i = j
    /\ \A c \in Digit : digits[c] \notin ToSet(units) /\ digits[c] \notin ToSet(LargeUnits)
    /\ \A i \in 1 .. 3 : units[i] \notin ToSet(LargeUnits)
    /\ \A c \in Digit : digits[c] \in Glyph
    /\ \A i \in 1 .. 3 : units[i] \in Glyph

(* The large units.                                                         *)
LEMMA LargeUnitsAre ==
    /\ DOMAIN LargeUnits = 1 .. 4
    /\ \A i, j \in 1 .. 4 : LargeUnits[i] = LargeUnits[j] => i = j
<1>1. /\ LargeUnits[1] = "man" /\ LargeUnits[2] = "oku"
      /\ LargeUnits[3] = "cho" /\ LargeUnits[4] = "kei" /\ DOMAIN LargeUnits = 1 .. 4
  BY DEF LargeUnits
<1>2. \A k \in 1 .. 4 : k = 1 \/ k = 2 \/ k = 3 \/ k = 4
  OBVIOUS
<1> QED
  BY <1>1, <1>2

(* How the reader takes each kind of glyph.                                  *)
LEMMA KanjiSteps ==
    ASSUME NEW digits, NEW units, Legible(digits, units), NEW r
    PROVE  /\ \A v \in 0 .. 9 :
                KanjiStep(r, digits[Digits[v + 1]], digits, units) = AtDigit(r, v)
           /\ \A e \in 1 .. 3 : KanjiStep(r, units[e], digits, units) = AtUnit(r, UnitWorth[e])
           /\ \A k \in 1 .. 4 : KanjiStep(r, LargeUnits[k], digits, units) = AtLarge(r, k)
<1>1. ASSUME NEW v \in 0 .. 9
      PROVE  KanjiStep(r, digits[Digits[v + 1]], digits, units) = AtDigit(r, v)
  <2>1. PICK d, c : d = Digits[v + 1] /\ c = digits[d]
    OBVIOUS
  <2>2. d \in Digit /\ Value[d] = v
    BY <2>1, ValueIs
  <2>3. c \notin ToSet(units) /\ c \notin ToSet(LargeUnits)
    BY <2>1, <2>2 DEF Legible
  <2>4. Nth(digits, c) = d
    <3>1. DOMAIN digits = Digit /\ \A x, y \in Digit : digits[x] = digits[y] => x = y
      BY DEF Legible
    <3>2. PICK S : S = Digit
      OBVIOUS
    <3>3. S = DOMAIN digits /\ d \in S /\ \A x, y \in S : digits[x] = digits[y] => x = y
      BY <2>2, <3>1, <3>2
    <3>4. Nth(digits, digits[d]) = d
      BY ONLY <3>3, NthIs
    <3> QED
      BY <2>1, <3>4
  <2> QED
    BY <2>1, <2>2, <2>3, <2>4 DEF KanjiStep
<1>2. ASSUME NEW e \in 1 .. 3
      PROVE  KanjiStep(r, units[e], digits, units) = AtUnit(r, UnitWorth[e])
  <2>1. DOMAIN units = 1 .. 3 /\ \A i, j \in 1 .. 3 : units[i] = units[j] => i = j
    BY DEF Legible
  <2>2. units[e] \in ToSet(units)
    BY <2>1 DEF ToSet
  <2>3. Nth(units, units[e]) = e
    <3>1. PICK S : S = 1 .. 3
      OBVIOUS
    <3>2. S = DOMAIN units /\ e \in S /\ \A x, y \in S : units[x] = units[y] => x = y
      BY <2>1, <3>1
    <3> QED
      BY ONLY <3>2, NthIs
  <2> QED
    BY <2>2, <2>3 DEF KanjiStep
<1>3. ASSUME NEW k \in 1 .. 4
      PROVE  KanjiStep(r, LargeUnits[k], digits, units) = AtLarge(r, k)
  <2>1. PICK large : large = LargeUnits
    OBVIOUS
  <2>2. DOMAIN large = 1 .. 4 /\ \A i, j \in 1 .. 4 : large[i] = large[j] => i = j
    BY <2>1, LargeUnitsAre
  <2>3. large[k] \in ToSet(large)
    BY <2>2 DEF ToSet
  <2>4. large[k] \notin ToSet(units)
    <3>1. ASSUME large[k] \in ToSet(units) PROVE FALSE
      <4>1. PICK i \in 1 .. 3 : units[i] = large[k]
        BY <3>1 DEF ToSet, Legible
      <4> QED
        BY <2>1, <2>3, <4>1 DEF Legible
    <3> QED
      BY <3>1
  <2>5. Nth(large, large[k]) = k
    <3>1. PICK S : S = 1 .. 4
      OBVIOUS
    <3>2. S = DOMAIN large /\ k \in S /\ \A x, y \in S : large[x] = large[y] => x = y
      BY <2>2, <3>1
    <3> QED
      BY ONLY <3>2, NthIs
  <2> QED
    BY <2>1, <2>3, <2>4, <2>5 DEF KanjiStep
<1> QED
  BY <1>1, <1>2, <1>3

(* The lists joined so far.                                                  *)
JoinedTo(parts) == [i \in 0 .. Len(parts) |-> FlattenSeq(SubSeq(parts, 1, i))]

(* A longer list of parts ends with its last part.                           *)
LEMMA FlattenUpto ==
    ASSUME NEW T, NEW parts \in Seq(Seq(T))
    PROVE  /\ JoinedTo(parts) \in [0 .. Len(parts) -> Seq(T)] /\ JoinedTo(parts)[0] = <<>>
           /\ JoinedTo(parts)[Len(parts)] = FlattenSeq(parts)
           /\ \A i \in 1 .. Len(parts) : JoinedTo(parts)[i] = JoinedTo(parts)[i - 1] \o parts[i]
<1>0. PICK N : N = Len(parts)
  OBVIOUS
<1> DEFINE t == [i \in 0 .. N |-> FlattenSeq(SubSeq(parts, 1, i))]
<1>1. N \in Nat /\ \A i \in 1 .. N : parts[i] \in Seq(T)
  BY <1>0
<1>2. SubSeq(parts, 1, 0) = <<>> /\ SubSeq(parts, 1, N) = parts
  BY <1>0, <1>1
<1>3. ASSUME NEW i \in 0 .. N PROVE SubSeq(parts, 1, i) \in Seq(Seq(T))
  BY <1>0, <1>1, <1>3
<1>4. ASSUME NEW i \in 0 .. N PROVE FlattenSeq(SubSeq(parts, 1, i)) \in Seq(T)
  BY <1>3, FlattenTyped
<1>5. t \in [0 .. N -> Seq(T)]
  BY <1>4
<1>6. ASSUME NEW i \in 1 .. N PROVE t[i] = t[i - 1] \o parts[i]
  <2>1. PICK p, q, x, h : /\ h = i - 1 /\ p = SubSeq(parts, 1, h)
                          /\ q = SubSeq(parts, 1, i) /\ x = parts[i]
    OBVIOUS
  <2>2. h \in 0 .. N /\ i \in 0 .. N
    BY <1>1, <2>1
  <2>3. p \in Seq(Seq(T)) /\ x \in Seq(T)
    BY <1>1, <1>3, <2>1, <2>2
  <2>4. q = Append(p, x)
    BY <1>1, <2>1
  <2>5. FlattenSeq(Append(p, x)) = FlattenSeq(p) \o x
    BY <2>3, FlattenStep
  <2>6. t[i] = FlattenSeq(q) /\ t[h] = FlattenSeq(p)
    BY <2>1, <2>2
  <2> QED
    BY <2>1, <2>4, <2>5, <2>6
<1>7. t[0] = <<>> /\ t[N] = FlattenSeq(parts)
  <2>1. t[0] = FlattenSeq(SubSeq(parts, 1, 0)) /\ t[N] = FlattenSeq(SubSeq(parts, 1, N))
    BY <1>1
  <2> QED
    BY <1>2, <2>1, FlattenStep
<1>8. t = JoinedTo(parts)
  BY <1>0 DEF JoinedTo
<1> HIDE DEF t
<1> QED
  BY <1>0, <1>5, <1>6, <1>7, <1>8

(* The states of the reader of kanji: the recursion of KanjiRead.             *)
Listened(f, s, digits, units, N) ==
    f = [i \in 0 .. N |-> IF i = 0 THEN KanjiReader ELSE KanjiStep(f[i - 1], s[i], digits, units)]

(* They exist, whatever the text.                                           *)
LEMMA ListenedExists ==
    ASSUME NEW s, NEW digits, NEW units, NEW N \in Nat PROVE \E f : Listened(f, s, digits, units, N)
<1> DEFINE S == {n \in 0 .. N : \E f : Listened(f, s, digits, units, n)}
<1>1. 0 \in S
  <2> DEFINE f == [i \in 0 .. 0 |-> KanjiReader]
  <2>1. Listened(f, s, digits, units, 0)
    BY DEF Listened
  <2> QED
    BY <2>1
<1>2. ASSUME NEW n \in 0 .. N - 1, n \in S PROVE n + 1 \in S
  <2>1. PICK f : Listened(f, s, digits, units, n)
    BY <1>2
  <2> DEFINE g == [i \in 0 .. n + 1 |-> IF i = 0 THEN KanjiReader
                                        ELSE KanjiStep(f[i - 1], s[i], digits, units)]
  <2>2. \A i \in 0 .. n : g[i] = f[i]
    BY <2>1 DEF Listened
  <2>3. \A i \in 0 .. n + 1 : i # 0 => g[i - 1] = f[i - 1]
    <3> HIDE DEF g
    <3>1. \A i \in 0 .. n + 1 : i # 0 => i - 1 \in 0 .. n
      OBVIOUS
    <3> QED
      BY <2>2, <3>1
  <2>4. Listened(g, s, digits, units, n + 1)
    BY <2>3 DEF Listened
  <2> QED
    BY <2>4
<1>3. \A n \in 0 .. N : n \in S
  <2> HIDE DEF S
  <2> QED
    BY <1>1, <1>2, UpTo
<1> QED
  BY <1>3

(* The reader goes on where it was.                                         *)
LEMMA KanjiReadStep ==
    ASSUME NEW digits, NEW units
    PROVE  /\ KanjiRead(<<>>, digits, units) = KanjiReader
           /\ \A s \in Text : \A x \in Glyph :
                 KanjiRead(Append(s, x), digits, units) =
                    KanjiStep(KanjiRead(s, digits, units), x, digits, units)
<1>0. \A s : KanjiRead(s, digits, units) =
                (CHOOSE f : Listened(f, s, digits, units, Len(s)))[Len(s)]
  BY DEF KanjiRead, Listened
<1>1. KanjiRead(<<>>, digits, units) = KanjiReader
  <2> DEFINE f == CHOOSE h : Listened(h, <<>>, digits, units, 0)
  <2>1. Listened(f, <<>>, digits, units, 0)
    BY ListenedExists
  <2>2. Len(<<>>) = 0 /\ KanjiRead(<<>>, digits, units) = f[0]
    BY <1>0
  <2> HIDE DEF f
  <2> QED
    BY <2>1, <2>2 DEF Listened
<1>2. ASSUME NEW s \in Text, NEW x \in Glyph
      PROVE  KanjiRead(Append(s, x), digits, units) =
                KanjiStep(KanjiRead(s, digits, units), x, digits, units)
  <2>1. PICK N : N = Len(s)
    OBVIOUS
  <2>2. PICK t : t = Append(s, x)
    OBVIOUS
  <2>3. N \in Nat /\ Len(t) = N + 1 /\ t[N + 1] = x /\ \A i \in 1 .. N : t[i] = s[i]
    BY <2>1, <2>2 DEF Text
  <2>4. PICK f : f = CHOOSE h : Listened(h, s, digits, units, N)
    OBVIOUS
  <2>5. PICK g : g = CHOOSE h : Listened(h, t, digits, units, N + 1)
    OBVIOUS
  <2>6. Listened(f, s, digits, units, N)
    BY <2>3, <2>4, ListenedExists
  <2>7. Listened(g, t, digits, units, N + 1)
    <3>1. N + 1 \in Nat
      BY <2>3
    <3>2. \E h : Listened(h, t, digits, units, N + 1)
      BY <3>1, ListenedExists
    <3> QED
      BY <2>5, <3>2
  <2>8. KanjiRead(s, digits, units) = f[N] /\ KanjiRead(t, digits, units) = g[N + 1]
    BY <1>0, <2>1, <2>3, <2>4, <2>5
  <2>9. /\ \A i \in 0 .. N : f[i] = IF i = 0 THEN KanjiReader
                                    ELSE KanjiStep(f[i - 1], s[i], digits, units)
        /\ \A i \in 0 .. N + 1 : g[i] = IF i = 0 THEN KanjiReader
                                        ELSE KanjiStep(g[i - 1], t[i], digits, units)
    BY <2>6, <2>7 DEF Listened
  <2> DEFINE S == {n \in 0 .. N : f[n] = g[n]}
  <2>10. 0 \in S
    BY <2>3, <2>9
  <2>11. ASSUME NEW n \in 0 .. N - 1, n \in S PROVE n + 1 \in S
    <3>1. /\ n + 1 \in 0 .. N /\ n + 1 \in 1 .. N /\ n + 1 \in 0 .. N + 1 /\ n + 1 # 0
          /\ (n + 1) - 1 = n /\ f[n] = g[n]
      BY <2>3, <2>11
    <3>2. /\ f[n + 1] = KanjiStep(f[n], s[n + 1], digits, units)
          /\ g[n + 1] = KanjiStep(g[n], t[n + 1], digits, units)
      BY <2>9, <3>1
    <3>3. t[n + 1] = s[n + 1]
      BY <2>3, <3>1
    <3> QED
      BY <3>1, <3>2, <3>3
  <2>12. f[N] = g[N]
    <3> HIDE DEF S
    <3>1. \A n \in 0 .. N : n \in S
      BY <2>3, <2>10, <2>11, UpTo
    <3> QED
      BY <2>3, <3>1 DEF S
  <2>13. g[N + 1] = KanjiStep(g[N], t[N + 1], digits, units)
    BY <2>3, <2>9
  <2> QED
    BY <2>2, <2>3, <2>8, <2>12, <2>13
<1> QED
  BY <1>1, <1>2

(* The text of a digit at a place of its group, and what follows a group.     *)
PlaceText(d, r, digits, units, omitOne) ==
    IF d = 0 THEN <<>>
    ELSE (IF d = 1 /\ omitOne /\ r > 0 THEN <<>> ELSE <<digits[Digits[d + 1]]>>)
         \o (IF r > 0 THEN <<units[r]>> ELSE <<>>)

UnitText(n, e) == IF WritesUnit(n, e) THEN <<LargeUnits[e \div 4]>> ELSE <<>>

(* One glyph more or two.                                                   *)
LEMMA GlyphsMore ==
    ASSUME NEW s \in Text, NEW x \in Glyph
    PROVE  /\ s \o <<>> = s /\ s \o (<<x>> \o <<>>) = Append(s, x)
           /\ s \o (<<>> \o <<x>>) = Append(s, x) /\ s \o <<x>> = Append(s, x)
           /\ Append(s, x) \in Text
           /\ \A y \in Glyph : s \o (<<x>> \o <<y>>) = Append(Append(s, x), y)
  BY DEF Text

(* The reader takes a digit with its unit.                                   *)
LEMMA PlaceRead ==
    ASSUME NEW digits, NEW units, Legible(digits, units), NEW omitOne, NEW s \in Text, NEW g,
           NEW now \in Nat, NEW b, NEW d \in 0 .. 9, NEW r \in 0 .. 3,
           KanjiRead(s, digits, units) = Heard(g, now, 0, b)
    PROVE  KanjiRead(s \o PlaceText(d, r, digits, units, omitOne), digits, units) =
             IF r = 0 THEN Heard(g, now, d, b) ELSE Heard(g, now + d * Weight(r), 0, b)
<1>1. PICK x, u, w : x = digits[Digits[d + 1]] /\ u = units[r] /\ w = Weight(r)
  OBVIOUS
<1>2. x \in Glyph /\ (r > 0 => u \in Glyph)
  BY <1>1, ValueIs DEF Legible
<1>3. r > 0 => UnitWorth[r] = w
  BY <1>1 DEF UnitWorth, Weight
<1>4. w \in Nat
  BY <1>1 DEF Weight
<1>5. /\ s \o <<>> = s /\ s \o (<<x>> \o <<>>) = Append(s, x) /\ Append(s, x) \in Text
      /\ r > 0 => s \o (<<>> \o <<u>>) = Append(s, u)
      /\ r > 0 => s \o (<<x>> \o <<u>>) = Append(Append(s, x), u)
  BY <1>2, GlyphsMore
<1>6. KanjiRead(Append(s, x), digits, units) = Heard(g, now, d, b)
  <2>1. KanjiRead(Append(s, x), digits, units) =
          KanjiStep(KanjiRead(s, digits, units), x, digits, units)
    BY <1>2, KanjiReadStep
  <2>2. KanjiStep(Heard(g, now, 0, b), x, digits, units) = AtDigit(Heard(g, now, 0, b), d)
    BY <1>1, KanjiSteps
  <2> QED
    BY <2>1, <2>2, HeardDigit
<1>7. ASSUME r > 0, NEW t \in Text, NEW v, KanjiRead(t, digits, units) = Heard(g, now, v, b)
      PROVE  KanjiRead(Append(t, u), digits, units) =
                Heard(g, now + (IF v = 0 THEN 1 ELSE v) * w, 0, b)
  <2>1. KanjiRead(Append(t, u), digits, units) =
          KanjiStep(KanjiRead(t, digits, units), u, digits, units)
    BY <1>2, <1>7, KanjiReadStep
  <2>2. r \in 1 .. 3
    BY <1>7
  <2>3. KanjiStep(Heard(g, now, v, b), u, digits, units) = AtUnit(Heard(g, now, v, b), w)
    BY <1>1, <1>3, <1>7, <2>2, KanjiSteps
  <2>4. AtUnit(Heard(g, now, v, b), w) = Heard(g, now + (IF v = 0 THEN 1 ELSE v) * w, 0, b)
    BY HeardUnit
  <2> QED
    BY <1>7, <2>1, <2>3, <2>4
<1>8. PICK p : p = PlaceText(d, r, digits, units, omitOne)
  OBVIOUS
<1>9. CASE d = 0
  <2>1. s \o p = s
    BY <1>5, <1>8, <1>9 DEF PlaceText
  <2>2. now + d * w = now
    BY <1>4, <1>9
  <2> QED
    BY <1>1, <1>8, <1>9, <2>1, <2>2
<1>10. CASE d # 0 /\ r = 0
  <2>1. p = <<x>> \o <<>>
    BY <1>1, <1>8, <1>10 DEF PlaceText
  <2> QED
    BY <1>5, <1>6, <1>8, <1>10, <2>1
<1>11. CASE d = 1 /\ r > 0 /\ omitOne
  <2>1. p = <<>> \o <<u>>
    BY <1>1, <1>8, <1>11 DEF PlaceText
  <2>2. KanjiRead(Append(s, u), digits, units) = Heard(g, now + 1 * w, 0, b)
    BY <1>7, <1>11
  <2>3. s \o p = Append(s, u)
    BY <1>5, <1>11, <2>1, Zenon
  <2>4. d * w = 1 * w
    BY <1>11
  <2>5. r # 0
    BY <1>11
  <2> QED
    BY <1>1, <1>8, <2>2, <2>3, <2>4, <2>5, Zenon
<1>12. CASE d # 0 /\ r > 0 /\ ~(d = 1 /\ omitOne)
  <2>1. p = <<x>> \o <<u>>
    BY <1>1, <1>8, <1>12 DEF PlaceText
  <2>2. KanjiRead(Append(Append(s, x), u), digits, units) =
          Heard(g, now + (IF d = 0 THEN 1 ELSE d) * w, 0, b)
    BY <1>5, <1>6, <1>7, <1>12
  <2>3. s \o p = Append(Append(s, x), u)
    BY <1>5, <1>12, <2>1, Zenon
  <2>4. r # 0 /\ (IF d = 0 THEN 1 ELSE d) = d
    BY <1>12
  <2> QED
    BY <1>1, <1>8, <2>2, <2>3, <2>4, Zenon
<1> QED
  BY <1>9, <1>10, <1>11, <1>12

(* The groups that were left behind when the digit worth 10^e has been read.  *)
Left(n, e) == [g \in 0 .. 4 |-> IF g > 0 /\ 4 * g >= e THEN GroupsOf(n)[g] ELSE 0]

(* The reader after the digit worth 10^e: a group that is complete is left    *)
(* behind, and what is heard of the others is their partial number.          *)
Follows4(n, e, r) ==
    \E now \in Nat, digit \in Nat, b \in Nat :
        /\ r = Heard(Left(n, e), now, digit, b)
        /\ 4 * b >= e /\ (e > 0 => digit = 0)
        /\ now + digit = IF e % 4 = 0 /\ e > 0 THEN 0 ELSE Partial(n, Len(n) - e)

(* Only a large unit leaves a group behind.                                  *)
LEMMA LeftStep ==
    ASSUME NEW n \in Seq(0 .. 9), NEW i \in 1 .. Len(n), NEW e, e = Len(n) - i,
           NEW p, p = Left(n, e), NEW q, q = Left(n, e + 1), NEW v, v = Partial(n, i)
    PROVE  /\ e % 4 # 0 \/ e = 0 => p = q
           /\ \A k \in 1 .. 4 : e = 4 * k => p = [q EXCEPT ![k] = v] /\ (v = 0 => p = q)
<1>1. PICK N, G : N = Len(n) /\ G = GroupsOf(n)
  OBVIOUS
<1>2. N \in Nat /\ i \in 1 .. N /\ e \in 0 .. N - 1 /\ i = N - e
  BY <1>1
<1>4. /\ p = [g \in 0 .. 4 |-> IF g > 0 /\ 4 * g >= e THEN G[g] ELSE 0]
      /\ q = [g \in 0 .. 4 |-> IF g > 0 /\ 4 * g >= e + 1 THEN G[g] ELSE 0]
  BY <1>1 DEF Left
<1>5. ASSUME e % 4 # 0 \/ e = 0 PROVE p = q
  <2>1. \A g \in 0 .. 4 : g > 0 => (4 * g >= e <=> 4 * g >= e + 1)
    BY <1>2, <1>5
  <2> QED
    BY <1>4, <2>1
<1>6. ASSUME NEW k \in 1 .. 4, e = 4 * k
      PROVE  p = [q EXCEPT ![k] = v] /\ (v = 0 => p = q)
  <2>2. G[k] = v
    <3>1. k \in 0 .. 4 /\ 4 * k < N /\ N - 4 * k = i
      BY <1>2, <1>6
    <3> QED
      BY <1>1, <3>1, GroupsAre
  <2>3. \A g \in 0 .. 4 : g # k /\ g > 0 => (4 * g >= e <=> 4 * g >= e + 1)
    BY <1>6
  <2>4. 4 * k >= e /\ ~(4 * k >= e + 1)
    BY <1>6
  <2>5. \A g \in 0 .. 4 : g # k => p[g] = q[g]
    BY <1>4, <2>3
  <2>6. p[k] = v /\ q[k] = 0
    BY <1>4, <2>2, <2>4
  <2>7. p = [g \in 0 .. 4 |-> p[g]] /\ q = [g \in 0 .. 4 |-> q[g]]
    BY <1>4
  <2>8. p = [q EXCEPT ![k] = v]
    BY <2>5, <2>6, <2>7
  <2>9. v = 0 => p = q
    BY <2>5, <2>6, <2>7
  <2> QED
    BY <2>8, <2>9
<1> QED
  BY <1>5, <1>6

(* The large unit's own group.                                              *)
LEMMA LeftUnit ==
    ASSUME NEW n \in Seq(0 .. 9), NEW i \in 1 .. Len(n), NEW e, e = Len(n) - i,
           NEW p, p = Left(n, e), NEW q, q = Left(n, e + 1), NEW v, v = Partial(n, i),
           NEW k \in 1 .. 4, e = 4 * k
    PROVE  p = [q EXCEPT ![k] = v] /\ (v = 0 => p = q)
  BY LeftStep

(* A digit and what follows it.                                             *)
LEMMA PieceRead ==
    ASSUME NEW digits, NEW units, Legible(digits, units), NEW omitOne, NEW n \in Seq(0 .. 9),
           Len(n) <= 20, NEW i \in 1 .. Len(n), NEW e, e = Len(n) - i, NEW s \in Text,
           NEW p \in Text, p = PlaceText(n[i], e % 4, digits, units, omitOne),
           Follows4(n, e + 1, KanjiRead(s, digits, units))
    PROVE  Follows4(n, e, KanjiRead((s \o p) \o UnitText(n, e), digits, units))
<1>0. /\ Legible(digits, units) /\ s \in Text /\ n \in Seq(0 .. 9) /\ i \in 1 .. Len(n)
      /\ e = Len(n) - i
  OBVIOUS
<1>1. PICK N, r, d, w, v : /\ N = Len(n) /\ r = e % 4 /\ d = n[i] /\ w = Weight(r)
                           /\ v = Partial(n, i)
  OBVIOUS
<1>2. /\ N \in Nat /\ N <= 20 /\ i \in 1 .. N /\ e \in 0 .. 19 /\ r \in 0 .. 3 /\ d \in 0 .. 9
      /\ e = N - i /\ i = N - e
  BY <1>1
<1>3. w \in Nat
  BY <1>1 DEF Weight
<1>4. PICK now \in Nat, digit \in Nat, b \in Nat :
        /\ KanjiRead(s, digits, units) = Heard(Left(n, e + 1), now, digit, b)
        /\ 4 * b >= e + 1 /\ (e + 1 > 0 => digit = 0)
        /\ now + digit = IF (e + 1) % 4 = 0 /\ e + 1 > 0 THEN 0 ELSE Partial(n, Len(n) - (e + 1))
  BY DEF Follows4
<1>5. digit = 0
  BY <1>2, <1>4
<1>6. now = IF r = 3 THEN 0 ELSE Partial(n, i - 1)
  <2>1. Len(n) - (e + 1) = i - 1
    BY <1>1, <1>2
  <2>2. (e + 1) % 4 = 0 <=> r = 3
    BY <1>1, <1>2
  <2>3. now + digit = now
    BY <1>5
  <2> QED
    BY <1>2, <1>4, <2>1, <2>2, <2>3
<1>7. v \in Nat /\ v = now + d * w
  BY <1>1, <1>6, PartialStep
<1>8. PICK g, g0 : g = Left(n, e) /\ g0 = Left(n, e + 1)
  OBVIOUS
<1>9. PICK t, u : t = s \o p /\ u = UnitText(n, e)
  OBVIOUS
<1>10. t \in Text
  BY <1>9, JoinTyped
<1>11. KanjiRead(t, digits, units) =
          IF r = 0 THEN Heard(g0, now, d, b) ELSE Heard(g0, now + d * w, 0, b)
  <2>1. KanjiRead(s, digits, units) = Heard(g0, now, 0, b)
    BY <1>4, <1>5, <1>8
  <2>2. p = PlaceText(d, r, digits, units, omitOne)
    BY <1>1
  <2>3. d \in 0 .. 9 /\ r \in 0 .. 3
    BY <1>2
  <2>4. KanjiRead(s \o PlaceText(d, r, digits, units, omitOne), digits, units) =
          IF r = 0 THEN Heard(g0, now, d, b) ELSE Heard(g0, now + d * Weight(r), 0, b)
    BY ONLY <1>0, <2>1, <2>3, now \in Nat, PlaceRead
  <2> QED
    BY <1>1, <1>9, <2>2, <2>4, Zenon
<1>12. r = 0 => w = 1
  BY <1>1 DEF Weight
<1>13. PICK x \in Nat, y \in Nat :
         /\ KanjiRead(t, digits, units) = Heard(g0, x, y, b) /\ x + y = v /\ (r # 0 => y = 0)
  <2>1. CASE r = 0
    <3>1. d * w = d
      BY <1>2, <1>12, <2>1
    <3> QED
      BY <1>2, <1>7, <1>11, <2>1, <3>1
  <2>2. CASE r # 0
    <3>1. now + d * w = v
      BY <1>7
    <3>2. KanjiRead(t, digits, units) = Heard(g0, v, 0, b) /\ v + 0 = v
      BY <1>7, <1>11, <2>2, <3>1
    <3> QED
      BY <1>7, <2>2, <3>2
  <2> QED
    BY <2>1, <2>2
<1>14. 4 * b >= e
  BY <1>2, <1>4
<1>15. /\ r # 0 \/ e = 0 => g = g0
       /\ \A k \in 1 .. 4 : e = 4 * k => g = [g0 EXCEPT ![k] = v] /\ (v = 0 => g = g0)
  <2>1. n \in Seq(0 .. 9) /\ i \in 1 .. Len(n) /\ e = Len(n) - i
    OBVIOUS
  <2>2. g = Left(n, e) /\ g0 = Left(n, e + 1) /\ v = Partial(n, i)
    BY <1>1, <1>8
  <2>3. e % 4 # 0 \/ e = 0 => g = g0
    BY ONLY <2>1, <2>2, LeftStep
  <2>4. ASSUME NEW k \in 1 .. 4, e = 4 * k PROVE g = [g0 EXCEPT ![k] = v] /\ (v = 0 => g = g0)
    BY ONLY <2>1, <2>2, <2>4, LeftUnit
  <2> QED
    BY <1>1, <2>3, <2>4, Zenon
<1>16. t \o <<>> = t
  BY <1>10 DEF Text
<1>17. N - e = i
  BY <1>2
<1>18. CASE r # 0 \/ e = 0
  <2>1. u = <<>>
    BY <1>1, <1>2, <1>9, <1>18 DEF UnitText, WritesUnit
  <2>2. KanjiRead(t \o u, digits, units) = Heard(g, x, y, b)
    BY <1>13, <1>15, <1>16, <1>18, <2>1
  <2>3. (e > 0 => y = 0) /\ ~(e % 4 = 0 /\ e > 0)
    BY <1>1, <1>2, <1>13, <1>18
  <2> QED
    BY <1>1, <1>8, <1>9, <1>13, <1>14, <1>17, <2>2, <2>3 DEF Follows4
<1>19. CASE r = 0 /\ e > 0 /\ v = 0
  <2>1. PICK k : k = e \div 4
    OBVIOUS
  <2>2. k \in 1 .. 4 /\ e = 4 * k
    BY <1>1, <1>2, <1>19, <2>1
  <2>3. g = g0
    BY <1>15, <1>19, <2>2
  <2>4. u = <<>>
    <3>1. e > 0 /\ e % 4 = 0 /\ ~(v > 0)
      BY <1>1, <1>19
    <3>2. WritesUnit(n, e) <=> Partial(n, i) > 0
      BY ONLY <1>0, <3>1, UnitWritten
    <3> QED
      BY <1>1, <1>9, <3>1, <3>2, Zenon DEF UnitText
  <2>5. x = 0 /\ y = 0
    BY <1>13, <1>19
  <2>6. KanjiRead(t \o u, digits, units) = Heard(g, x, y, b)
    BY <1>13, <1>16, <2>3, <2>4
  <2>7. e % 4 = 0 /\ e > 0 /\ x + y = 0
    BY <1>1, <1>19, <2>5
  <2> QED
    BY <1>8, <1>9, <1>14, <2>5, <2>6, <2>7 DEF Follows4
<1>20. CASE r = 0 /\ e > 0 /\ v > 0
  <2>1. PICK k : k = e \div 4
    OBVIOUS
  <2>2. k \in 1 .. 4 /\ e = 4 * k
    BY <1>1, <1>2, <1>20, <2>1
  <2>3. g = [g0 EXCEPT ![k] = v]
    BY <1>15, <2>2
  <2>4. u = <<LargeUnits[k]>>
    BY <1>1, <1>2, <1>9, <1>20, <2>1, UnitWritten DEF UnitText
  <2>5. k < b
    BY <1>4, <2>2
  <2>6. KanjiRead(t \o u, digits, units) = Heard(g, 0, 0, k)
    <3>1. PICK c : c = LargeUnits[k]
      OBVIOUS
    <3>2. c \in Glyph
      BY <2>2, <3>1, UnitGlyphs
    <3>3. t \o u = Append(t, c)
      BY <1>10, <2>4, <3>1, <3>2, GlyphsMore
    <3>4. KanjiRead(Append(t, c), digits, units) =
            KanjiStep(KanjiRead(t, digits, units), c, digits, units)
      BY <1>10, <3>2, KanjiReadStep
    <3>5. KanjiStep(Heard(g0, x, y, b), c, digits, units) = AtLarge(Heard(g0, x, y, b), k)
      BY <2>2, <3>1, KanjiSteps
    <3>6. v = x + y /\ v > 0
      BY <1>13, <1>20
    <3>7. AtLarge(Heard(g0, x, y, b), k) = Heard([g0 EXCEPT ![k] = v], 0, 0, k)
      BY ONLY <2>5, <3>6, HeardLarge
    <3> QED
      BY <1>13, <2>3, <3>3, <3>4, <3>5, <3>7
  <2>7. PICK z : z = 0
    OBVIOUS
  <2>8. /\ KanjiRead(t \o u, digits, units) = Heard(g, z, z, k) /\ z \in Nat /\ k \in Nat
        /\ 4 * k >= e /\ e % 4 = 0 /\ e > 0 /\ z + z = 0
    BY <1>1, <1>20, <2>2, <2>6, <2>7
  <2> QED
    BY <1>8, <1>9, <2>7, <2>8 DEF Follows4
<1> QED
  BY <1>2, <1>7, <1>18, <1>19, <1>20

(* The pieces of a kanji numeral.                                            *)
DigitPieces(n, digits, units, omitOne) ==
    [i \in DOMAIN n |-> PlaceText(n[i], (Len(n) - i) % 4, digits, units, omitOne)
                        \o UnitText(n, Len(n) - i)]

(* A kanji numeral is its pieces, digit by digit.                            *)
LEMMA KanjiIs ==
    ASSUME NEW n, NEW digits, NEW units, NEW omitOne
    PROVE  KanjiNumber(n, digits, units, omitOne) =
             IF n = <<>> THEN <<digits["0"]>>
             ELSE FlattenSeq(DigitPieces(n, digits, units, omitOne))
  BY DEF KanjiNumber, DigitPieces, PlaceText, UnitText

(* A piece is a text.                                                       *)
LEMMA PieceTyped ==
    ASSUME NEW digits, NEW units, Legible(digits, units), NEW omitOne, NEW n \in Seq(0 .. 9),
           NEW d \in 0 .. 9, NEW e \in 0 .. 19
    PROVE  PlaceText(d, e % 4, digits, units, omitOne) \in Text /\ UnitText(n, e) \in Text
<1>1. PICK r : r = e % 4
  OBVIOUS
<1>2. r \in 0 .. 3 /\ \A i \in 1 .. 3 : units[i] \in Glyph
  BY <1>1 DEF Legible
<1>3. PICK a, b : /\ a = IF d = 1 /\ omitOne /\ r > 0 THEN <<>> ELSE <<digits[Digits[d + 1]]>>
                  /\ b = IF r > 0 THEN <<units[r]>> ELSE <<>>
  OBVIOUS
<1>4. digits[Digits[d + 1]] \in Glyph /\ (r > 0 => units[r] \in Glyph)
  BY <1>2, DigitsAre DEF Legible
<1>5. <<>> \in Text
  BY ShortText
<1>6. a \in Text /\ b \in Text
  BY <1>3, <1>4, <1>5, OneTyped
<1>7. a \o b \in Text
  BY <1>6, JoinTyped
<1>8. PlaceText(d, r, digits, units, omitOne) = IF d = 0 THEN <<>> ELSE a \o b
  BY <1>3 DEF PlaceText
<1>9. UnitText(n, e) \in Text
  <2>1. WritesUnit(n, e) => e > 0 /\ e % 4 = 0
    BY DEF WritesUnit
  <2>2. e > 0 /\ e % 4 = 0 => e \div 4 \in 1 .. 4
    OBVIOUS
  <2>3. WritesUnit(n, e) => LargeUnits[e \div 4] \in Glyph
    BY <2>1, <2>2, UnitGlyphs
  <2> QED
    BY <1>5, <2>3, OneTyped DEF UnitText
<1> QED
  BY <1>1, <1>5, <1>7, <1>8, <1>9

(* A kanji numeral is read as the groups of its number.                       *)
LEMMA KanjiReads ==
    ASSUME NEW digits, NEW units, Legible(digits, units), NEW omitOne, NEW n \in Seq(0 .. 9),
           Len(n) <= 20
    PROVE  ReadKanji(KanjiNumber(n, digits, units, omitOne), digits, units) = GroupsOf(n)
<1>0. Legible(digits, units) /\ n \in Seq(0 .. 9) /\ Len(n) <= 20
  OBVIOUS
<1>1. PICK N, text : N = Len(n) /\ text = KanjiNumber(n, digits, units, omitOne)
  OBVIOUS
<1>2. N \in Nat /\ N <= 20 /\ DOMAIN n = 1 .. N /\ \A i \in 1 .. N : n[i] \in 0 .. 9
  BY <1>1
<1>3. \A g, now, digit, below :
        /\ Heard(g, now, digit, below).ok /\ Heard(g, now, digit, below).groups = g
        /\ Heard(g, now, digit, below).now = now /\ Heard(g, now, digit, below).digit = digit
  BY DEF Heard
<1>4. KanjiReader = Heard([g \in 0 .. 4 |-> 0], 0, 0, 5)
  BY Zenon DEF KanjiReader, Heard
<1>5. GroupsOf(n) = [g \in 0 .. 4 |-> GroupsOf(n)[g]]
  BY DEF GroupsOf
<1>6. CASE n = <<>>
  <2>1. PICK c, z : c = digits["0"] /\ z = 0
    OBVIOUS
  <2>2. text = <<c>>
    BY <1>1, <1>6, <2>1, KanjiIs
  <2>3. c = digits[Digits[z + 1]] /\ c \in Glyph /\ z \in 0 .. 9
    <3>1. Digits[1] = "0"
      BY DEF Digits
    <3>2. z \in 0 .. 9 /\ z + 1 = 1
      BY <2>1
    <3>3. Digits[z + 1] \in Digit
      BY <3>2, ValueIs
    <3> QED
      BY <2>1, <3>1, <3>2, <3>3 DEF Legible
  <2>4. PICK empty : empty = <<>>
    OBVIOUS
  <2>5. empty \in Text /\ Append(empty, c) = text
    BY <2>2, <2>3, <2>4, ShortText
  <2>6. KanjiRead(text, digits, units) = KanjiStep(KanjiReader, c, digits, units)
    <3>1. KanjiRead(empty, digits, units) = KanjiReader
      BY <2>4, KanjiReadStep
    <3>2. KanjiRead(Append(empty, c), digits, units) =
            KanjiStep(KanjiRead(empty, digits, units), c, digits, units)
      BY <2>3, <2>5, KanjiReadStep
    <3> QED
      BY <2>5, <3>1, <3>2
  <2>7. PICK g0 : g0 = [g \in 0 .. 4 |-> 0]
    OBVIOUS
  <2>8. KanjiStep(Heard(g0, 0, 0, 5), c, digits, units) = AtDigit(Heard(g0, 0, 0, 5), z)
    BY <2>3, KanjiSteps
  <2>9. KanjiRead(text, digits, units) = Heard(g0, 0, 0, 5)
    BY <1>4, <2>1, <2>6, <2>7, <2>8, HeardDigit
  <2>10. ReadKanji(text, digits, units) = [g0 EXCEPT ![0] = 0 + 0]
    BY <1>3, <2>9 DEF ReadKanji
  <2>11. GroupsOf(n) = g0
    <3>1. N = 0
      BY <1>1, <1>6
    <3>2. \A g \in 0 .. 4 : GroupsOf(n)[g] = 0
      <4> SUFFICES ASSUME NEW g \in 0 .. 4 PROVE GroupsOf(n)[g] = 0
        OBVIOUS
      <4>1. ~(4 * g < Len(n))
        BY <1>1, <3>1
      <4> QED
        BY ONLY <1>0, <4>1, g \in 0 .. 4, GroupsAre
    <3> QED
      BY <1>5, <2>7, <3>2
  <2>12. [g0 EXCEPT ![0] = 0 + 0] = g0
    BY <2>7
  <2> QED
    BY <1>1, <2>10, <2>11, <2>12, Zenon
<1>7. CASE n # <<>>
  <2>1. PICK pieces : pieces = DigitPieces(n, digits, units, omitOne)
    OBVIOUS
  <2>2. text = FlattenSeq(pieces) /\ N > 0
    BY <1>1, <1>7, <2>1, KanjiIs
  <2>3. /\ pieces = [i \in 1 .. N |-> pieces[i]]
        /\ \A i \in 1 .. N : pieces[i] = PlaceText(n[i], (N - i) % 4, digits, units, omitOne)
                                         \o UnitText(n, N - i)
    BY <1>1, <1>2, <2>1 DEF DigitPieces
  <2>4. ASSUME NEW i \in 1 .. N
        PROVE  /\ PlaceText(n[i], (N - i) % 4, digits, units, omitOne) \in Text
               /\ UnitText(n, N - i) \in Text
    <3>1. N - i \in 0 .. 19 /\ n[i] \in 0 .. 9
      BY <1>2
    <3> QED
      BY <1>0, <3>1, PieceTyped
  <2>5. \A i \in 1 .. N : pieces[i] \in Text
    BY <2>3, <2>4, JoinTyped
  <2>6. pieces \in Seq(Seq(Glyph)) /\ Len(pieces) = N
    <3>1. pieces \in Seq(Text)
      BY <1>2, <2>3, <2>5, IsSeq
    <3> QED
      BY <1>2, <2>3, <3>1 DEF Text
  <2>7. PICK t : /\ t \in [0 .. N -> Seq(Glyph)] /\ t[0] = <<>> /\ t[N] = FlattenSeq(pieces)
                 /\ \A i \in 1 .. N : t[i] = t[i - 1] \o pieces[i]
    <3>1. PICK t : t = JoinedTo(pieces)
      OBVIOUS
    <3> QED
      BY <2>6, <3>1, FlattenUpto
  <2> DEFINE S == {i \in 0 .. N : Follows4(n, N - i, KanjiRead(t[i], digits, units))}
  <2>8. 0 \in S
    <3>1. KanjiRead(t[0], digits, units) = KanjiReader
      BY <2>7, KanjiReadStep
    <3>2. Left(n, N) = [g \in 0 .. 4 |-> 0]
      <4>1. \A g \in 0 .. 4 : g > 0 /\ 4 * g >= N => GroupsOf(n)[g] = 0
        BY <1>1, <1>2, GroupsAre
      <4> QED
        BY <4>1 DEF Left
    <3>3. PICK z, b : z = 0 /\ b = 5
      OBVIOUS
    <3>4. KanjiReader = Heard(Left(n, N), z, z, b)
      BY <1>4, <3>2, <3>3
    <3>5. Partial(n, N - N) = 0
      BY <1>2, PartialNone
    <3>6. z + z = IF N % 4 = 0 /\ N > 0 THEN 0 ELSE Partial(n, N - N)
      BY <3>3, <3>5
    <3>7. z \in Nat /\ b \in Nat /\ 4 * b >= N
      BY <1>2, <3>3
    <3>8. Follows4(n, N, KanjiReader)
      BY <1>1, <3>3, <3>4, <3>6, <3>7 DEF Follows4
    <3> QED
      BY <1>2, <3>1, <3>8
  <2>9. ASSUME NEW i \in 0 .. N - 1, i \in S PROVE i + 1 \in S
    <3>1. PICK j, e, p : /\ j = i + 1 /\ e = N - j
                         /\ p = PlaceText(n[j], e % 4, digits, units, omitOne)
      OBVIOUS
    <3>2. j \in 1 .. Len(n) /\ e = Len(n) - j /\ N - i = e + 1 /\ j - 1 = i /\ j \in 1 .. N
      BY <1>1, <1>2, <3>1
    <3>3. p \in Text /\ UnitText(n, e) \in Text /\ t[i] \in Text
      <4>1. p \in Text /\ UnitText(n, e) \in Text
        BY <2>4, <3>1, <3>2
      <4>2. t[i] \in Text
        BY <1>2, <2>7 DEF Text
      <4> QED
        BY <4>1, <4>2
    <3>4. Follows4(n, e + 1, KanjiRead(t[i], digits, units))
      BY <2>9, <3>2
    <3>5. PICK s : s = t[i]
      OBVIOUS
    <3>6. Follows4(n, e, KanjiRead((s \o p) \o UnitText(n, e), digits, units))
      <4>1. s \in Text /\ p \in Text /\ Follows4(n, e + 1, KanjiRead(s, digits, units))
        BY <3>3, <3>4, <3>5
      <4>2. j \in 1 .. Len(n) /\ e = Len(n) - j
        BY <3>2
      <4>3. p = PlaceText(n[j], e % 4, digits, units, omitOne)
        BY <3>1
      <4> QED
        BY ONLY <1>0, <4>1, <4>2, <4>3, PieceRead
    <3>7. t[j] = (s \o p) \o UnitText(n, e)
      <4>1. t[j] = s \o (p \o UnitText(n, e))
        BY <2>3, <2>7, <3>1, <3>2, <3>5
      <4> QED
        BY <3>3, <3>5, <4>1, JoinAssoc
    <3> QED
      <4>1. j \in 0 .. N /\ N - j = e /\ Follows4(n, e, KanjiRead(t[j], digits, units))
        <5>1. t[j] = (t[i] \o p) \o UnitText(n, e)
          BY <3>5, <3>7
        <5>2. Follows4(n, e, KanjiRead(t[j], digits, units))
          BY <3>5, <3>6, <3>7, Zenon
        <5> QED
          BY <1>2, <3>1, <3>2, <5>2
      <4> QED
        BY <3>1, <4>1
  <2>10. Follows4(n, 0, KanjiRead(text, digits, units))
    <3> HIDE DEF S
    <3>1. \A i \in 0 .. N : i \in S
      BY <1>2, <2>8, <2>9, UpTo
    <3>2. N \in 0 .. N /\ N - N = 0
      BY <1>2
    <3> QED
      BY <2>2, <2>7, <3>1, <3>2 DEF S
  <2>11. PICK now \in Nat, digit \in Nat, b \in Nat :
            /\ KanjiRead(text, digits, units) = Heard(Left(n, 0), now, digit, b)
            /\ now + digit = Partial(n, N)
    BY <1>1, <1>2, <2>10 DEF Follows4
  <2>12. ReadKanji(text, digits, units) = [Left(n, 0) EXCEPT ![0] = now + digit]
    BY <1>3, <2>11 DEF ReadKanji
  <2>13. GroupsOf(n)[0] = now + digit
    <3>1. 4 * 0 < N /\ N - 4 * 0 = N
      BY <1>2, <2>2
    <3> QED
      BY <1>1, <2>11, <3>1, GroupsAre
  <2>14. Left(n, 0) = [g \in 0 .. 4 |-> IF g > 0 THEN GroupsOf(n)[g] ELSE 0]
    BY DEF Left
  <2> QED
    <3>1. PICK G, h, v : G = GroupsOf(n) /\ h = Left(n, 0) /\ v = now + digit
      OBVIOUS
    <3>2. /\ G = [g \in 0 .. 4 |-> G[g]]
          /\ h = [g \in 0 .. 4 |-> IF g > 0 THEN G[g] ELSE 0]
          /\ G[0] = v
      BY <1>5, <2>13, <2>14, <3>1
    <3>3. [h EXCEPT ![0] = v] = G
      BY <3>2
    <3> QED
      BY <1>1, <2>12, <3>1, <3>3
<1> QED
  BY <1>6, <1>7

(* Kanji and daiji can be told apart.                                        *)
LEMMA TablesLegible == Legible(KanjiDigit, KanjiUnits) /\ Legible(DaijiDigit, DaijiUnits)
<1>1. /\ DOMAIN KanjiDigit = Digit /\ DOMAIN DaijiDigit = Digit
      /\ DOMAIN KanjiUnits = 1 .. 3 /\ DOMAIN DaijiUnits = 1 .. 3
  BY DEF KanjiDigit, DaijiDigit, KanjiUnits, DaijiUnits
<1>2. /\ KanjiUnits[1] = "ten" /\ KanjiUnits[2] = "hundred" /\ KanjiUnits[3] = "thousand"
      /\ DaijiUnits[1] = "daiji ten" /\ DaijiUnits[2] = "hundred"
      /\ DaijiUnits[3] = "daiji thousand"
  BY DEF KanjiUnits, DaijiUnits
<1>3. \A i \in 1 .. 3 : i = 1 \/ i = 2 \/ i = 3
  OBVIOUS
<1>4. \A i, j \in 1 .. 3 : /\ KanjiUnits[i] = KanjiUnits[j] => i = j
                           /\ DaijiUnits[i] = DaijiUnits[j] => i = j
  BY <1>2, <1>3
<1>5. \A i \in 1 .. 3 : /\ KanjiUnits[i] \notin ToSet(LargeUnits)
                        /\ DaijiUnits[i] \notin ToSet(LargeUnits)
  <2>1. /\ LargeUnits[1] = "man" /\ LargeUnits[2] = "oku"
        /\ LargeUnits[3] = "cho" /\ LargeUnits[4] = "kei" /\ DOMAIN LargeUnits = 1 .. 4
    BY DEF LargeUnits
  <2>2. \A k \in 1 .. 4 : k = 1 \/ k = 2 \/ k = 3 \/ k = 4
    OBVIOUS
  <2>3. \A c \in ToSet(LargeUnits) : c = "man" \/ c = "oku" \/ c = "cho" \/ c = "kei"
    BY <2>1, <2>2 DEF ToSet
  <2> QED
    BY <1>2, <1>3, <2>3
<1>6. ASSUME NEW table \in {KanjiDigit, DaijiDigit}
      PROVE  /\ \A c, d \in Digit : table[c] = table[d] => c = d
             /\ \A c \in Digit : /\ table[c] \notin ToSet(KanjiUnits)
                                 /\ table[c] \notin ToSet(DaijiUnits)
                                 /\ table[c] \notin ToSet(LargeUnits)
  BY NamesAssumption DEF NamesAssumption
<1>7. \A d \in Digit : KanjiDigit[d] \in Glyph /\ DaijiDigit[d] \in Glyph
  BY DigitGlyphs
<1>8. \A i \in 1 .. 3 : KanjiUnits[i] \in Glyph /\ DaijiUnits[i] \in Glyph
  BY UnitGlyphs
<1>9. PICK k, d, u, v : k = KanjiDigit /\ d = DaijiDigit /\ u = KanjiUnits /\ v = DaijiUnits
  OBVIOUS
<1>10. Legible(k, u) /\ Legible(d, v)
  <2>1. /\ \A x, y \in Digit : k[x] = k[y] => x = y
        /\ \A c \in Digit : k[c] \notin ToSet(u) /\ k[c] \notin ToSet(LargeUnits)
    BY <1>6, <1>9
  <2>2. /\ \A x, y \in Digit : d[x] = d[y] => x = y
        /\ \A c \in Digit : d[c] \notin ToSet(v) /\ d[c] \notin ToSet(LargeUnits)
    BY <1>6, <1>9
  <2> QED
    BY <1>1, <1>4, <1>5, <1>7, <1>8, <1>9, <2>1, <2>2 DEF Legible
<1> QED
  BY <1>9, <1>10

(* ---- Roman numerals ---- *)

(* The letters by what they are worth.                                       *)
LEMMA LetterValues ==
    /\ LetterValue["I"] = 1 /\ LetterValue["IV"] = 4 /\ LetterValue["V"] = 5
    /\ LetterValue["IX"] = 9 /\ LetterValue["X"] = 10 /\ LetterValue["L"] = 50
    /\ LetterValue["C"] = 100 /\ LetterValue["D"] = 500 /\ LetterValue["M"] = 1000
    /\ \A c \in Letter : LetterValue[c] \in Nat
<1>1. /\ LetterValue["I"] = 1 /\ LetterValue["IV"] = 4 /\ LetterValue["V"] = 5
      /\ LetterValue["IX"] = 9 /\ LetterValue["X"] = 10 /\ LetterValue["L"] = 50
      /\ LetterValue["C"] = 100 /\ LetterValue["D"] = 500 /\ LetterValue["M"] = 1000
  BY DEF LetterValue
<1> QED
  BY <1>1 DEF Letter

(* What a letter at a place adds: subtracted before a greater one.            *)
Signed(l, i) ==
    IF i < Len(l) /\ LetterValue[l[i]] < LetterValue[l[i + 1]]
    THEN -LetterValue[l[i]] ELSE LetterValue[l[i]]

(* The sums of the letters read.                                            *)
Summed(f, l, N) == f = [i \in 0 .. N |-> IF i = 0 THEN 0 ELSE f[i - 1] + Signed(l, i)]

Worth(l) == (CHOOSE h : Summed(h, l, Len(l)))[Len(l)]

(* A signed letter is an integer.                                            *)
LEMMA SignedTyped ==
    ASSUME NEW l \in Seq(Letter), NEW i \in 1 .. Len(l) PROVE Signed(l, i) \in Int
<1>1. LetterValue[l[i]] \in Nat
  BY LetterValues
<1> QED
  BY <1>1 DEF Signed

(* They exist.                                                              *)
LEMMA SummedExists ==
    ASSUME NEW l \in Seq(Letter), NEW N \in 0 .. Len(l)
    PROVE  \E f \in [0 .. N -> Int] : Summed(f, l, N)
<1>1. PICK z : z = 0
  OBVIOUS
<1> DEFINE step == [i \in 1 .. N |-> [t \in Int |-> t + Signed(l, i)]]
<1>2. N \in Nat /\ z \in Int /\ \A i \in 1 .. N : i \in 1 .. Len(l)
  BY <1>1
<1>3. \A i \in 1 .. N : Signed(l, i) \in Int
  BY <1>2, SignedTyped
<1>4. step \in [1 .. N -> [Int -> Int]]
  BY <1>3
<1>5. PICK f \in [0 .. N -> Int] : Stepwise(f, N, z, step)
  <2> HIDE DEF step
  <2>1. PICK T : T = Int
    OBVIOUS
  <2>2. z \in T /\ step \in [1 .. N -> [T -> T]]
    BY <1>2, <1>4, <2>1
  <2>3. \E f \in [0 .. N -> T] : Stepwise(f, N, z, step)
    BY ONLY <1>2, <2>2, RecursionExists
  <2> QED
    BY <2>1, <2>3
<1>6. \A i \in 0 .. N : i # 0 => step[i][f[i - 1]] = f[i - 1] + Signed(l, i)
  <2> SUFFICES ASSUME NEW i \in 0 .. N, i # 0 PROVE step[i][f[i - 1]] = f[i - 1] + Signed(l, i)
    OBVIOUS
  <2>1. i \in 1 .. N /\ i - 1 \in 0 .. N
    BY <1>2
  <2>2. f[i - 1] \in Int
    BY <2>1
  <2> QED
    BY <2>1, <2>2
<1> HIDE DEF step
<1>7. Summed(f, l, N)
  BY <1>1, <1>5, <1>6 DEF Summed, Stepwise
<1> QED
  BY <1>7

(* What the letters are worth is the last of the sums.                       *)
LEMMA WorthIs ==
    ASSUME NEW l \in Seq(Letter)
    PROVE  \E f : /\ Worth(l) = f[Len(l)] /\ f[0] = 0
                  /\ \A i \in 0 .. Len(l) - 1 : f[i + 1] = f[i] + Signed(l, i + 1)
                  /\ \A i \in 0 .. Len(l) : f[i] \in Int
<1>1. PICK N, f : N = Len(l) /\ f = CHOOSE h : Summed(h, l, N)
  OBVIOUS
<1>2. N \in Nat /\ N \in 0 .. Len(l)
  BY <1>1
<1>3. Summed(f, l, N)
  BY <1>1, <1>2, SummedExists
<1>4. f[0] = 0 /\ \A i \in 0 .. N - 1 : f[i + 1] = f[i] + Signed(l, i + 1)
  BY <1>2, <1>3 DEF Summed
<1> DEFINE S == {i \in 0 .. N : f[i] \in Int}
<1>5. 0 \in S
  BY <1>2, <1>4
<1>6. ASSUME NEW i \in 0 .. N - 1, i \in S PROVE i + 1 \in S
  <2>1. i + 1 \in 1 .. Len(l) /\ i + 1 \in 0 .. N
    BY <1>1, <1>2
  <2>2. Signed(l, i + 1) \in Int
    BY <2>1, SignedTyped
  <2> QED
    BY <1>4, <1>6, <2>1, <2>2
<1>7. \A i \in 0 .. N : f[i] \in Int
  <2>1. \A i \in 0 .. N : i \in S
    <3> HIDE DEF S
    <3> QED
      BY <1>2, <1>5, <1>6, UpTo
  <2> QED
    BY <2>1
<1>8. Worth(l) = f[N]
  BY <1>1 DEF Worth
<1> QED
  BY <1>1, <1>4, <1>7, <1>8

(* No letters are worth nothing.                                             *)
LEMMA WorthEmpty == Worth(<<>>) = 0
<1>1. PICK l : l = <<>>
  OBVIOUS
<1>2. l \in Seq(Letter) /\ Len(l) = 0
  BY <1>1
<1> QED
  BY <1>1, <1>2, WorthIs

(* One letter more: the one before it may turn out to be subtracted.          *)
LEMMA WorthStep ==
    ASSUME NEW l \in Seq(Letter), NEW c \in Letter, NEW last, last = LetterValue[l[Len(l)]],
           NEW v, v = LetterValue[c]
    PROVE  /\ Worth(l) \in Int
           /\ Worth(Append(l, c)) = Worth(l) + v - (IF l # <<>> /\ last < v THEN 2 * last ELSE 0)
<1>1. PICK N, m : N = Len(l) /\ m = Append(l, c)
  OBVIOUS
<1>2. /\ N \in Nat /\ m \in Seq(Letter) /\ Len(m) = N + 1 /\ m[N + 1] = c
      /\ \A i \in 1 .. N : m[i] = l[i] /\ l[i] \in Letter
      /\ (l = <<>> <=> N = 0)
  BY <1>1
<1>3. PICK f : /\ Worth(l) = f[N] /\ f[0] = 0
               /\ \A i \in 0 .. N - 1 : f[i + 1] = f[i] + Signed(l, i + 1)
               /\ \A i \in 0 .. N : f[i] \in Int
  BY <1>1, WorthIs
<1>4. PICK g : /\ Worth(m) = g[N + 1] /\ g[0] = 0
               /\ \A i \in 0 .. N : g[i + 1] = g[i] + Signed(m, i + 1)
               /\ \A i \in 0 .. N + 1 : g[i] \in Int
  <2>1. (N + 1) - 1 = N
    BY <1>2
  <2> QED
    BY <1>2, <2>1, WorthIs
<1>5. v \in Nat
  BY LetterValues
<1>6. ASSUME NEW i \in 1 .. N - 1 PROVE Signed(m, i) = Signed(l, i)
  <2>1. i \in 1 .. N /\ i + 1 \in 1 .. N /\ i < Len(m) /\ i < Len(l)
    BY <1>1, <1>2
  <2>2. m[i] = l[i] /\ m[i + 1] = l[i + 1]
    BY <1>2, <2>1
  <2> QED
    BY <2>1, <2>2 DEF Signed
<1>7. Signed(m, N + 1) = v
  BY <1>2 DEF Signed
<1>8. CASE N = 0
  <2>1. g[1] = 0 + v
    BY <1>4, <1>7, <1>8
  <2> QED
    BY <1>1, <1>2, <1>3, <1>4, <1>5, <1>8, <2>1
<1>9. CASE N > 0
  <2> DEFINE S == {i \in 0 .. N - 1 : f[i] = g[i]}
  <2>1. N - 1 \in Nat
    BY <1>2, <1>9
  <2>2. 0 \in S
    BY <1>3, <1>4, <2>1
  <2>3. ASSUME NEW i \in 0 .. (N - 1) - 1, i \in S PROVE i + 1 \in S
    <3>1. i + 1 \in 1 .. N - 1 /\ i \in 0 .. N - 1 /\ i \in 0 .. N /\ i + 1 \in 0 .. N - 1
      BY <1>2, <2>1
    <3>2. Signed(m, i + 1) = Signed(l, i + 1)
      BY <1>6, <3>1
    <3>3. f[i + 1] = f[i] + Signed(l, i + 1) /\ g[i + 1] = g[i] + Signed(m, i + 1)
      BY <1>3, <1>4, <3>1
    <3> QED
      BY <2>3, <3>1, <3>2, <3>3
  <2>4. f[N - 1] = g[N - 1]
    <3>1. \A i \in 0 .. N - 1 : i \in S
      <4> HIDE DEF S
      <4> QED
        BY <2>1, <2>2, <2>3, UpTo
    <3> QED
      BY <2>1, <3>1
  <2>5. last \in Nat
    <3>1. l[N] \in Letter
      BY <1>2, <1>9
    <3> QED
      BY <1>1, <3>1, LetterValues
  <2>6. Signed(l, N) = last
    BY <1>1 DEF Signed
  <2>7. Signed(m, N) = IF last < v THEN -last ELSE last
    <3>1. N < Len(m) /\ m[N] = l[N] /\ m[N + 1] = c
      BY <1>2, <1>9
    <3> QED
      BY <1>1, <3>1 DEF Signed
  <2>8. f[N] = f[N - 1] + last
    <3>1. N - 1 \in 0 .. N - 1 /\ (N - 1) + 1 = N
      BY <1>2, <2>1
    <3> QED
      BY <1>3, <2>6, <3>1
  <2>9. g[N] = g[N - 1] + Signed(m, N)
    <3>1. N - 1 \in 0 .. N /\ (N - 1) + 1 = N
      BY <1>2, <2>1
    <3> QED
      BY <1>4, <3>1
  <2>10. g[N + 1] = g[N] + v
    BY <1>2, <1>4, <1>7
  <2>11. PICK x, y, z : x = g[N - 1] /\ y = g[N] /\ z = g[N + 1]
    OBVIOUS
  <2>12. x \in Int /\ y \in Int /\ z \in Int
    <3>1. N - 1 \in 0 .. N + 1 /\ N \in 0 .. N + 1 /\ N + 1 \in 0 .. N + 1
      BY <1>2, <1>9
    <3> QED
      BY <1>4, <2>11, <3>1
  <2>13. f[N] = x + last /\ y = x + (IF last < v THEN -last ELSE last) /\ z = y + v
    BY <2>4, <2>7, <2>8, <2>9, <2>10, <2>11
  <2>14. z = (x + last) + v - (IF last < v THEN 2 * last ELSE 0) /\ x + last \in Int
    BY ONLY <1>5, <2>5, <2>12, <2>13
  <2>15. l # <<>>
    BY <1>2, <1>9
  <2> QED
    BY <1>1, <1>3, <1>4, <2>11, <2>13, <2>14, <2>15
<1> QED
  BY <1>2, <1>8, <1>9

(* The letters so far end with nothing less than a bound.                     *)
EndsWith(l, bound) == l = <<>> \/ LetterValue[l[Len(l)]] >= bound

(* One letter, no greater than the bound.                                    *)
LEMMA OneLetter ==
    ASSUME NEW l \in Seq(Letter), NEW bound \in Nat, EndsWith(l, bound), NEW c \in Letter,
           NEW v, v = LetterValue[c], v <= bound
    PROVE  /\ Append(l, c) \in Seq(Letter) /\ Worth(Append(l, c)) = Worth(l) + v
           /\ EndsWith(Append(l, c), v) /\ Worth(l) \in Int
<1>1. PICK last, m : last = LetterValue[l[Len(l)]] /\ m = Append(l, c)
  OBVIOUS
<1>2. v \in Nat
  BY LetterValues
<1>3. l # <<>> => last \in Nat
  <2>1. l # <<>> => l[Len(l)] \in Letter
    OBVIOUS
  <2> QED
    BY <1>1, <2>1, LetterValues
<1>4. ~(l # <<>> /\ last < v)
  BY <1>1, <1>2, <1>3 DEF EndsWith
<1>5. Worth(l) \in Int /\ Worth(m) = Worth(l) + v - 0
  BY <1>1, <1>4, WorthStep
<1>6. m \in Seq(Letter) /\ m[Len(m)] = c
  BY <1>1
<1>7. EndsWith(m, v)
  BY <1>2, <1>6 DEF EndsWith
<1> QED
  BY <1>1, <1>2, <1>5, <1>6, <1>7

(* Two letters, the first one subtracted.                                    *)
LEMMA TwoLetters ==
    ASSUME NEW l \in Seq(Letter), NEW bound \in Nat, EndsWith(l, bound),
           NEW a \in Letter, NEW b \in Letter, NEW v, v = LetterValue[a], v <= bound,
           NEW w, w = LetterValue[b], v < w
    PROVE  /\ Append(Append(l, a), b) \in Seq(Letter) /\ Worth(l) \in Int
           /\ Worth(Append(Append(l, a), b)) = Worth(l) + (w - v)
           /\ EndsWith(Append(Append(l, a), b), w)
<1>1. PICK m : m = Append(l, a)
  OBVIOUS
<1>2. m \in Seq(Letter) /\ Worth(m) = Worth(l) + v /\ Worth(l) \in Int
  BY <1>1, OneLetter
<1>3. m # <<>> /\ m[Len(m)] = a
  BY <1>1
<1>4. v \in Nat /\ w \in Nat
  BY LetterValues
<1>5. Worth(Append(m, b)) = Worth(m) + w - (IF m # <<>> /\ v < w THEN 2 * v ELSE 0)
  <2>1. v = LetterValue[m[Len(m)]]
    BY <1>3
  <2> QED
    BY <1>2, <2>1, WorthStep
<1>6. Worth(Append(m, b)) = (Worth(l) + v) + w - 2 * v
  BY <1>2, <1>3, <1>5
<1>7. PICK k : k = Append(m, b)
  OBVIOUS
<1>8. k \in Seq(Letter) /\ k[Len(k)] = b
  BY <1>2, <1>7
<1>9. EndsWith(k, w)
  BY <1>4, <1>8 DEF EndsWith
<1> QED
  <2>1. (Worth(l) + v) + w - 2 * v = Worth(l) + (w - v)
    BY <1>2, <1>4
  <2> QED
    BY <1>1, <1>2, <1>6, <1>7, <1>8, <1>9, <2>1

(* What is written for a value, and the least that can stand before it.       *)
RomanLetters(i, unicode) ==
    IF unicode /\ RomanValues[i][1] \in DOMAIN OneGlyph
    THEN OneGlyph[RomanValues[i][1]] ELSE RomanValues[i][2]

Bound == <<1000, 1000, 500, 500, 100, 100, 50, 50, 10, 9, 5, 4, 1>>

(* A value is one letter, or a letter subtracted from another.                *)
OneFor(s, v, b) == \E c \in Letter : s = <<c>> /\ LetterValue[c] = v /\ v = b
TwoFor(s, v, b) ==
    \E a \in Letter, c \in Letter :
        /\ s = <<a, c>> /\ LetterValue[a] < LetterValue[c] /\ LetterValue[c] - LetterValue[a] = v
        /\ LetterValue[a] <= b /\ b <= LetterValue[c]

(* The letters of one value of the table.                                    *)
LEMMA BlockLetters ==
    ASSUME NEW i \in 1 .. 13, NEW unicode
    PROVE  \/ OneFor(RomanLetters(i, unicode), RomanValues[i][1], Bound[i])
           \/ TwoFor(RomanLetters(i, unicode), RomanValues[i][1], Bound[i])
<1>1. /\ "M" \in Letter /\ "D" \in Letter /\ "C" \in Letter /\ "L" \in Letter /\ "X" \in Letter
      /\ "V" \in Letter /\ "I" \in Letter /\ "IX" \in Letter /\ "IV" \in Letter
  BY DEF Letter
<1>2. /\ RomanValues[1] = <<1000, <<"M">>>> /\ RomanValues[2] = <<900, <<"C", "M">>>>
      /\ RomanValues[3] = <<500, <<"D">>>> /\ RomanValues[4] = <<400, <<"C", "D">>>>
      /\ RomanValues[5] = <<100, <<"C">>>> /\ RomanValues[6] = <<90, <<"X", "C">>>>
      /\ RomanValues[7] = <<50, <<"L">>>> /\ RomanValues[8] = <<40, <<"X", "L">>>>
      /\ RomanValues[9] = <<10, <<"X">>>> /\ RomanValues[10] = <<9, <<"I", "X">>>>
      /\ RomanValues[11] = <<5, <<"V">>>> /\ RomanValues[12] = <<4, <<"I", "V">>>>
      /\ RomanValues[13] = <<1, <<"I">>>>
  BY DEF RomanValues
<1>3. /\ Bound[1] = 1000 /\ Bound[2] = 1000 /\ Bound[3] = 500 /\ Bound[4] = 500
      /\ Bound[5] = 100 /\ Bound[6] = 100 /\ Bound[7] = 50 /\ Bound[8] = 50 /\ Bound[9] = 10
      /\ Bound[10] = 9 /\ Bound[11] = 5 /\ Bound[12] = 4 /\ Bound[13] = 1
  BY DEF Bound
<1>4. OneGlyph[4] = <<"IV">> /\ OneGlyph[9] = <<"IX">> /\ DOMAIN OneGlyph = {4, 9}
  BY DEF OneGlyph
<1>5. /\ OneFor(<<"M">>, 1000, 1000) /\ OneFor(<<"D">>, 500, 500) /\ OneFor(<<"C">>, 100, 100)
      /\ OneFor(<<"L">>, 50, 50) /\ OneFor(<<"X">>, 10, 10) /\ OneFor(<<"IX">>, 9, 9)
      /\ OneFor(<<"V">>, 5, 5) /\ OneFor(<<"IV">>, 4, 4) /\ OneFor(<<"I">>, 1, 1)
  BY <1>1, LetterValues DEF OneFor
<1>6. /\ TwoFor(<<"C", "M">>, 900, 1000) /\ TwoFor(<<"C", "D">>, 400, 500)
      /\ TwoFor(<<"X", "C">>, 90, 100) /\ TwoFor(<<"X", "L">>, 40, 50)
      /\ TwoFor(<<"I", "X">>, 9, 9) /\ TwoFor(<<"I", "V">>, 4, 4)
  BY <1>1, LetterValues DEF TwoFor
<1>7. \/ i = 1 \/ i = 2 \/ i = 3 \/ i = 4 \/ i = 5 \/ i = 6 \/ i = 7 \/ i = 8 \/ i = 9
      \/ i = 10 \/ i = 11 \/ i = 12 \/ i = 13
  OBVIOUS
<1>8. ASSUME i \notin {10, 12}
      PROVE  RomanLetters(i, unicode) = RomanValues[i][2]
  <2>1. RomanValues[i][1] \notin {4, 9}
    BY <1>2, <1>7, <1>8
  <2> QED
    BY <1>4, <2>1 DEF RomanLetters
<1>9. CASE i \in {1, 3, 5, 7, 9, 11, 13}
  <2>1. OneFor(RomanValues[i][2], RomanValues[i][1], Bound[i])
    BY <1>2, <1>3, <1>5, <1>9
  <2> QED
    BY <1>8, <1>9, <2>1
<1>10. CASE i \in {2, 4, 6, 8}
  <2>1. TwoFor(RomanValues[i][2], RomanValues[i][1], Bound[i])
    <3>1. TwoFor(RomanValues[2][2], RomanValues[2][1], Bound[2])
      <4>1. RomanValues[2][2] = <<"C", "M">> /\ RomanValues[2][1] = 900 /\ Bound[2] = 1000
        BY <1>2, <1>3
      <4>2. TwoFor(<<"C", "M">>, 900, 1000)
        BY <1>6
      <4> QED
        BY ONLY <4>1, <4>2, Zenon
    <3>2. TwoFor(RomanValues[4][2], RomanValues[4][1], Bound[4])
      <4>1. RomanValues[4][2] = <<"C", "D">> /\ RomanValues[4][1] = 400 /\ Bound[4] = 500
        BY <1>2, <1>3
      <4>2. TwoFor(<<"C", "D">>, 400, 500)
        BY <1>6
      <4> QED
        BY ONLY <4>1, <4>2, Zenon
    <3>3. TwoFor(RomanValues[6][2], RomanValues[6][1], Bound[6])
      <4>1. RomanValues[6][2] = <<"X", "C">> /\ RomanValues[6][1] = 90 /\ Bound[6] = 100
        BY <1>2, <1>3
      <4>2. TwoFor(<<"X", "C">>, 90, 100)
        BY <1>6
      <4> QED
        BY ONLY <4>1, <4>2, Zenon
    <3>4. TwoFor(RomanValues[8][2], RomanValues[8][1], Bound[8])
      <4>1. RomanValues[8][2] = <<"X", "L">> /\ RomanValues[8][1] = 40 /\ Bound[8] = 50
        BY <1>2, <1>3
      <4>2. TwoFor(<<"X", "L">>, 40, 50)
        BY <1>6
      <4> QED
        BY ONLY <4>1, <4>2, Zenon
    <3> QED
      BY <1>10, <3>1, <3>2, <3>3, <3>4
  <2> QED
    BY <1>8, <1>10, <2>1
<1>11. CASE i \in {10, 12}
  <2>1. CASE unicode
    <3>1. RomanLetters(i, unicode) = OneGlyph[RomanValues[i][1]]
      BY <1>2, <1>4, <1>11, <2>1 DEF RomanLetters
    <3> QED
      BY <1>2, <1>3, <1>4, <1>5, <1>11, <3>1
  <2>2. CASE ~unicode
    <3>1. RomanLetters(i, unicode) = RomanValues[i][2]
      BY <2>2 DEF RomanLetters
    <3>2. TwoFor(RomanValues[i][2], RomanValues[i][1], Bound[i])
      <4>1. TwoFor(RomanValues[10][2], RomanValues[10][1], Bound[10])
        <5>1. RomanValues[10][2] = <<"I", "X">> /\ RomanValues[10][1] = 9 /\ Bound[10] = 9
          BY <1>2, <1>3
        <5>2. TwoFor(<<"I", "X">>, 9, 9)
          BY <1>6
        <5> QED
          BY ONLY <5>1, <5>2, Zenon
      <4>2. TwoFor(RomanValues[12][2], RomanValues[12][1], Bound[12])
        <5>1. RomanValues[12][2] = <<"I", "V">> /\ RomanValues[12][1] = 4 /\ Bound[12] = 4
          BY <1>2, <1>3
        <5>2. TwoFor(<<"I", "V">>, 4, 4)
          BY <1>6
        <5> QED
          BY ONLY <5>1, <5>2, Zenon
      <4> QED
        BY <1>11, <4>1, <4>2
    <3> QED
      BY <3>1, <3>2
  <2> QED
    BY <2>1, <2>2
<1> QED
  BY <1>7, <1>9, <1>10, <1>11

(* The bounds fall, and the value fits under its own.                        *)
LEMMA BoundsFall ==
    /\ \A i \in 1 .. 13 : Bound[i] \in Nat
    /\ \A i \in 1 .. 12 : Bound[i + 1] <= Bound[i]
  BY DEF Bound

(* A value is read as what it is worth.                                      *)
LEMMA BlockRead ==
    ASSUME NEW i \in 1 .. 13, NEW unicode, NEW l \in Seq(Letter), EndsWith(l, Bound[i]),
           NEW s, s = RomanLetters(i, unicode)
    PROVE  /\ l \o s \in Seq(Letter) /\ Worth(l \o s) = Worth(l) + RomanValues[i][1]
           /\ EndsWith(l \o s, Bound[i]) /\ Worth(l) \in Int
<1>1. PICK v, b : v = RomanValues[i][1] /\ b = Bound[i]
  OBVIOUS
<1>2. b \in Nat /\ EndsWith(l, b)
  BY <1>1, BoundsFall
<1>3. OneFor(s, v, b) \/ TwoFor(s, v, b)
  BY <1>1, BlockLetters
<1>4. CASE OneFor(s, v, b)
  <2>1. PICK c \in Letter : s = <<c>> /\ LetterValue[c] = v /\ v = b
    BY <1>4 DEF OneFor
  <2>2. l \o s = Append(l, c)
    BY <2>1
  <2>3. v <= b /\ v = LetterValue[c]
    BY <1>2, <2>1
  <2>4. /\ Append(l, c) \in Seq(Letter) /\ Worth(Append(l, c)) = Worth(l) + v
        /\ EndsWith(Append(l, c), v) /\ Worth(l) \in Int
    BY ONLY l \in Seq(Letter), <1>2, c \in Letter, <2>3, OneLetter
  <2> QED
    BY <1>1, <2>1, <2>2, <2>4
<1>5. CASE TwoFor(s, v, b)
  <2>1. PICK a \in Letter, c \in Letter :
          /\ s = <<a, c>> /\ LetterValue[a] < LetterValue[c] /\ LetterValue[c] - LetterValue[a] = v
          /\ LetterValue[a] <= b /\ b <= LetterValue[c]
    BY <1>5 DEF TwoFor
  <2>2. l \o s = Append(Append(l, a), c)
    BY <2>1
  <2>3. PICK x, w, m : x = LetterValue[a] /\ w = LetterValue[c] /\ m = Append(Append(l, a), c)
    OBVIOUS
  <2>4. x <= b /\ x < w
    BY <2>1, <2>3
  <2>5. m \in Seq(Letter) /\ Worth(l) \in Int /\ Worth(m) = Worth(l) + (w - x) /\ EndsWith(m, w)
    BY ONLY l \in Seq(Letter), <1>2, a \in Letter, c \in Letter, <2>3, <2>4, TwoLetters
  <2>6. EndsWith(m, b)
    <3>1. m # <<>> /\ m[Len(m)] = c
      BY <2>3
    <3> QED
      BY <2>1, <3>1, LetterValues, <1>2 DEF EndsWith
  <2> QED
    BY <1>1, <2>1, <2>2, <2>3, <2>5, <2>6
<1> QED
  BY <1>3, <1>4, <1>5

(* A value written several times.                                            *)
Repeated(i, times, unicode) == FlattenSeq([k \in 1 .. times |-> RomanLetters(i, unicode)])

(* How often each value is written: the recursion of RomanNumeral.            *)
LEMMA RomanIs ==
    ASSUME NEW value \in Nat, NEW unicode
    PROVE  \E rest :
              /\ rest[0] = value /\ \A i \in 0 .. 13 : rest[i] \in Nat
              /\ \A i \in 1 .. 13 : rest[i] = rest[i - 1] % RomanValues[i][1]
              /\ RomanNumeral(value, unicode) =
                   FlattenSeq([i \in 1 .. 13 |->
                       Repeated(i, rest[i - 1] \div RomanValues[i][1], unicode)])
<1> DEFINE R == RomanValues
           Is(f) == f = [i \in 0 .. Len(R) |-> IF i = 0 THEN value ELSE f[i - 1] % R[i][1]]
           step == [i \in 1 .. 13 |-> [t \in Nat |-> t % R[i][1]]]
           rest == CHOOSE f : Is(f)
           Part(i) == Repeated(i, rest[i - 1] \div R[i][1], unicode)
           parts == [i \in DOMAIN R |-> Part(i)]
<1>1. RomanNumeral(value, unicode) = FlattenSeq(parts)
  BY DEF RomanNumeral, RomanLetters, Repeated
<1>2. /\ DOMAIN R = 1 .. 13 /\ Len(R) = 13
      /\ \A i \in 1 .. 13 : R[i][1] \in Nat \ {0}
  BY RomanValuesAre
<1> HIDE DEF R
<1>3. PICK N : N = 13
  OBVIOUS
<1>4. N \in Nat
  BY <1>3
<1>5. \A m \in Nat : \A d \in Nat \ {0} : m % d \in Nat
  OBVIOUS
<1>6. step \in [1 .. N -> [Nat -> Nat]]
  BY <1>2, <1>3, <1>5
<1>7. PICK f \in [0 .. N -> Nat] : Stepwise(f, N, value, step)
  <2> HIDE DEF step
  <2> QED
    BY <1>4, <1>6, RecursionExists
<1>8. \A i \in 0 .. N : i # 0 => step[i][f[i - 1]] = f[i - 1] % R[i][1]
  <2> SUFFICES ASSUME NEW i \in 0 .. N, i # 0 PROVE step[i][f[i - 1]] = f[i - 1] % R[i][1]
    OBVIOUS
  <2>1. i \in 1 .. N /\ i - 1 \in 0 .. N
    BY <1>4
  <2>2. f[i - 1] \in Nat
    BY <2>1
  <2> QED
    BY <1>3, <2>1, <2>2
<1>9. Is(f)
  <2> HIDE DEF step
  <2> QED
    BY <1>2, <1>3, <1>7, <1>8 DEF Stepwise
<1>10. Is(rest)
  BY <1>9
<1> HIDE DEF step, rest
<1> DEFINE S == {i \in 0 .. N : rest[i] \in Nat}
<1>11. /\ rest[0] = value /\ \A i \in 1 .. 13 : rest[i] = rest[i - 1] % R[i][1]
       /\ \A i \in 0 .. N - 1 : rest[i + 1] = rest[i] % R[i + 1][1]
  BY <1>2, <1>3, <1>10
<1>12. 0 \in S
  BY <1>4, <1>11
<1>13. ASSUME NEW i \in 0 .. N - 1, i \in S PROVE i + 1 \in S
  <2>1. i + 1 \in 1 .. 13 /\ i + 1 \in 0 .. N
    BY <1>3
  <2>2. R[i + 1][1] \in Nat \ {0}
    BY <1>2, <2>1
  <2> QED
    BY <1>5, <1>11, <1>13, <2>1, <2>2
<1>14. \A i \in 0 .. 13 : rest[i] \in Nat
  <2>1. \A i \in 0 .. N : i \in S
    <3> HIDE DEF S
    <3> QED
      BY <1>4, <1>12, <1>13, UpTo
  <2> QED
    BY <1>3, <2>1
<1>15. RomanNumeral(value, unicode) = FlattenSeq([i \in 1 .. 13 |-> Part(i)])
  BY <1>1, <1>2
<1> QED
  <2>1. R = RomanValues
    BY DEF R
  <2> HIDE DEF Part
  <2>2. RomanNumeral(value, unicode) =
          FlattenSeq([i \in 1 .. 13 |-> Repeated(i, rest[i - 1] \div R[i][1], unicode)])
    BY <1>15 DEF Part
  <2>3. \E r : /\ r[0] = value /\ \A i \in 0 .. 13 : r[i] \in Nat
               /\ \A i \in 1 .. 13 : r[i] = r[i - 1] % R[i][1]
               /\ RomanNumeral(value, unicode) =
                    FlattenSeq([i \in 1 .. 13 |-> Repeated(i, r[i - 1] \div R[i][1], unicode)])
    BY ONLY <1>11, <1>14, <2>2, Zenon
  <2> QED
    BY <2>1, <2>3, Zenon

(* Joining three lists of letters.                                           *)
LEMMA LettersAssoc ==
    ASSUME NEW a \in Seq(Letter), NEW b \in Seq(Letter), NEW c \in Seq(Letter)
    PROVE  a \o (b \o c) = (a \o b) \o c /\ a \o b \in Seq(Letter)
  OBVIOUS

(* A value written as often as it fits.                                      *)
LEMMA RepeatRead ==
    ASSUME NEW i \in 1 .. 13, NEW unicode, NEW l \in Seq(Letter), EndsWith(l, Bound[i]),
           NEW times \in Nat, NEW p, p = Repeated(i, times, unicode),
           NEW v, v = RomanValues[i][1]
    PROVE  /\ p \in Seq(Letter) /\ Worth(l \o p) = Worth(l) + times * v
           /\ EndsWith(l \o p, Bound[i]) /\ Worth(l) \in Int
<1>1. PICK s, b : s = RomanLetters(i, unicode) /\ b = Bound[i]
  OBVIOUS
<1>2. s \in Seq(Letter) /\ v \in Nat
  BY <1>1, RomanValuesAre DEF RomanLetters
<1>3. PICK parts : parts = [k \in 1 .. times |-> s]
  OBVIOUS
<1>4. /\ parts \in Seq(Seq(Letter)) /\ Len(parts) = times
      /\ \A k \in 1 .. times : parts[k] = s
  BY <1>2, <1>3
<1>5. PICK t : /\ t \in [0 .. times -> Seq(Letter)] /\ t[0] = <<>> /\ t[times] = p
               /\ \A k \in 1 .. times : t[k] = t[k - 1] \o s
  <2>1. PICK t : t = JoinedTo(parts)
    OBVIOUS
  <2>2. p = FlattenSeq(parts)
    BY <1>1, <1>3 DEF Repeated
  <2>3. /\ t \in [0 .. times -> Seq(Letter)] /\ t[0] = <<>> /\ t[times] = p
        /\ \A k \in 1 .. times : t[k] = t[k - 1] \o parts[k]
    <3>1. PICK T : T = Letter
      OBVIOUS
    <3>2. parts \in Seq(Seq(T)) /\ Len(parts) = times
      BY <1>4, <3>1
    <3>3. /\ t \in [0 .. times -> Seq(T)] /\ t[0] = <<>> /\ t[times] = FlattenSeq(parts)
          /\ \A k \in 1 .. times : t[k] = t[k - 1] \o parts[k]
      BY <2>1, <3>2, FlattenUpto
    <3> QED
      BY <2>2, <3>1, <3>3
  <2>4. \A k \in 1 .. times : t[k] = t[k - 1] \o s
    BY <1>4, <2>3
  <2> QED
    BY <2>3, <2>4
<1>6. Worth(l) \in Int
  BY <1>1, BlockRead
<1> DEFINE S == {k \in 0 .. times : /\ Worth(l \o t[k]) = Worth(l) + k * v
                                    /\ EndsWith(l \o t[k], b)}
<1>7. 0 \in S
  <2>1. l \o t[0] = l
    BY <1>5
  <2>2. Worth(l) = Worth(l) + 0 * v
    BY <1>2, <1>6
  <2>3. 0 \in 0 .. times /\ EndsWith(l, b)
    BY <1>1
  <2>4. Worth(l \o t[0]) = Worth(l) + 0 * v /\ EndsWith(l \o t[0], b)
    BY <2>1, <2>2, <2>3, Zenon
  <2> QED
    BY <2>3, <2>4
<1>8. ASSUME NEW k \in 0 .. times - 1, k \in S PROVE k + 1 \in S
  <2>1. PICK j, x, m : j = k + 1 /\ x = t[k] /\ m = l \o t[k]
    OBVIOUS
  <2>2. k \in 0 .. times /\ j \in 1 .. times /\ j \in 0 .. times /\ j - 1 = k /\ k \in Nat
    BY <2>1
  <2>3. x \in Seq(Letter) /\ t[j] = x \o s
    BY <1>5, <2>1, <2>2
  <2>4. l \o t[j] = m \o s /\ m \in Seq(Letter)
    <3>1. l \o (x \o s) = (l \o x) \o s /\ l \o x \in Seq(Letter)
      BY <1>2, <2>3, LettersAssoc
    <3> QED
      BY <2>1, <2>3, <3>1, Zenon
  <2>5. Worth(m) = Worth(l) + k * v /\ EndsWith(m, b)
    BY <1>8, <2>1
  <2>6. Worth(m \o s) = Worth(m) + v /\ EndsWith(m \o s, b)
    BY <1>1, <2>4, <2>5, BlockRead
  <2>7. (Worth(l) + k * v) + v = Worth(l) + j * v
    <3>1. PICK w : w = Worth(l)
      OBVIOUS
    <3>2. w \in Int /\ k \in Nat /\ v \in Nat /\ j = k + 1
      BY <1>2, <1>6, <2>1, <2>2, <3>1
    <3>3. (k + 1) * v = k * v + v /\ k * v \in Int
      BY ONLY <3>2
    <3> QED
      BY <3>1, <3>2, <3>3
  <2> QED
    BY <2>1, <2>2, <2>4, <2>5, <2>6, <2>7
<1>9. times \in S
  <2> HIDE DEF S
  <2>1. \A k \in 0 .. times : k \in S
    BY <1>7, <1>8, UpTo
  <2> QED
    BY <2>1
<1> QED
  BY <1>1, <1>5, <1>6, <1>9

(* A Roman numeral is worth its number.                                       *)
LEMMA RomanWorth ==
    ASSUME NEW value \in Nat, NEW unicode
    PROVE  /\ RomanNumeral(value, unicode) \in Seq(Letter)
           /\ Worth(RomanNumeral(value, unicode)) = value
<1>1. PICK rest :
        /\ rest[0] = value /\ \A i \in 0 .. 13 : rest[i] \in Nat
        /\ \A i \in 1 .. 13 : rest[i] = rest[i - 1] % RomanValues[i][1]
        /\ RomanNumeral(value, unicode) =
             FlattenSeq([i \in 1 .. 13 |->
                 Repeated(i, rest[i - 1] \div RomanValues[i][1], unicode)])
  BY RomanIs
<1> DEFINE Part(i) == Repeated(i, rest[i - 1] \div RomanValues[i][1], unicode)
<1>2. PICK parts, N : parts = [i \in 1 .. 13 |-> Part(i)] /\ N = 13
  OBVIOUS
<1>3. RomanNumeral(value, unicode) = FlattenSeq(parts)
  BY <1>1, <1>2
<1>4. \A i \in 1 .. N : parts[i] = Part(i)
  BY <1>2
<1>5. parts = [i \in 1 .. N |-> parts[i]] /\ N \in Nat
  BY <1>2
<1>6. ASSUME NEW i \in 1 .. N, NEW v, v = RomanValues[i][1], NEW times, times = rest[i - 1] \div v
      PROVE  /\ v \in Nat \ {0} /\ times \in Nat /\ rest[i - 1] = times * v + rest[i]
             /\ rest[i - 1] \in Nat /\ rest[i] \in Nat
  <2>1. i \in 1 .. 13 /\ i - 1 \in 0 .. 13 /\ i \in 0 .. 13
    BY <1>2
  <2>2. v \in Nat \ {0} /\ rest[i - 1] \in Nat /\ rest[i] \in Nat
    BY <1>1, <1>6, <2>1, RomanValuesAre
  <2>3. rest[i] = rest[i - 1] % v
    BY <1>1, <1>6, <2>1
  <2>4. PICK m : m = rest[i - 1]
    OBVIOUS
  <2>5. m \in Nat /\ times = m \div v /\ rest[i] = m % v
    BY <1>6, <2>2, <2>3, <2>4
  <2>6. PICK r : r = rest[i]
    OBVIOUS
  <2>7. times \in Nat /\ m = times * v + r
    <3>1. times = m \div v /\ r = m % v /\ v \in Nat \ {0} /\ m \in Nat
      BY <2>2, <2>5, <2>6
    <3> QED
      BY ONLY <3>1
  <2> QED
    BY <2>2, <2>4, <2>6, <2>7, Zenon
<1>7. \A i \in 1 .. N : parts[i] \in Seq(Letter)
  <2> SUFFICES ASSUME NEW i \in 1 .. N PROVE parts[i] \in Seq(Letter)
    OBVIOUS
  <2>1. PICK v, times, empty : /\ v = RomanValues[i][1] /\ times = rest[i - 1] \div v
                               /\ empty = <<>>
    OBVIOUS
  <2>2. times \in Nat /\ i \in 1 .. 13
    BY <1>2, <1>6, <2>1
  <2>3. empty \in Seq(Letter) /\ EndsWith(empty, Bound[i])
    BY <2>1 DEF EndsWith
  <2>4. parts[i] = Repeated(i, times, unicode)
    BY <1>4, <2>1
  <2> QED
    <3>1. PICK p : p = parts[i]
      OBVIOUS
    <3>2. p = Repeated(i, times, unicode) /\ v = RomanValues[i][1]
      BY <2>1, <2>4, <3>1
    <3>3. p \in Seq(Letter)
      BY ONLY <2>2, <2>3, <3>2, RepeatRead
    <3> QED
      BY <3>1, <3>3
<1> HIDE DEF Part
<1>8. PICK t : /\ t \in [0 .. N -> Seq(Letter)] /\ t[0] = <<>> /\ t[N] = FlattenSeq(parts)
               /\ \A i \in 1 .. N : t[i] = t[i - 1] \o parts[i]
  <2>1. PICK t, T : t = JoinedTo(parts) /\ T = Letter
    OBVIOUS
  <2>2. parts \in Seq(Seq(T)) /\ Len(parts) = N
    <3>1. PICK U : U = Seq(T)
      OBVIOUS
    <3>2. \A i \in 1 .. N : parts[i] \in U
      BY <1>7, <2>1, <3>1
    <3>3. parts \in Seq(U)
      BY ONLY <1>5, <3>2, IsSeq
    <3> QED
      BY <1>5, <3>1, <3>3
  <2>3. /\ t \in [0 .. N -> Seq(T)] /\ t[0] = <<>> /\ t[N] = FlattenSeq(parts)
        /\ \A i \in 1 .. N : t[i] = t[i - 1] \o parts[i]
    BY <2>1, <2>2, FlattenUpto
  <2> QED
    BY <2>1, <2>3
<1> DEFINE S == {i \in 0 .. N : /\ Worth(t[i]) \in Int /\ Worth(t[i]) + rest[i] = value
                                /\ i < N => EndsWith(t[i], Bound[i + 1])}
<1>9. 0 \in S
  <2>1. Worth(t[0]) = 0 /\ EndsWith(t[0], Bound[0 + 1])
    BY <1>8, WorthEmpty DEF EndsWith
  <2>2. rest[0] = value /\ 0 \in 0 .. N
    BY <1>1, <1>5
  <2> QED
    BY <2>1, <2>2
<1>10. ASSUME NEW i \in 0 .. N - 1, i \in S PROVE i + 1 \in S
  <2>1. PICK j, l, v, times, p : /\ j = i + 1 /\ l = t[i] /\ v = RomanValues[j][1]
                                 /\ times = rest[i] \div v /\ p = parts[j]
    OBVIOUS
  <2>2. /\ j \in 1 .. N /\ j - 1 = i /\ i \in 0 .. N /\ j \in 0 .. N /\ i < N /\ j \in 1 .. 13
        /\ i \in Nat /\ (j < N => j \in 1 .. 12)
    BY <1>2, <1>5, <2>1
  <2>3. v \in Nat \ {0} /\ times \in Nat /\ rest[i] = times * v + rest[j] /\ rest[j] \in Nat
    BY <1>6, <2>1, <2>2
  <2>4. l \in Seq(Letter)
    BY <1>8, <2>1, <2>2
  <2>5. EndsWith(l, Bound[j]) /\ Worth(l) \in Int /\ Worth(l) + rest[i] = value
    BY <1>10, <2>1, <2>2
  <2>6. p = Repeated(j, times, unicode)
    BY <1>4, <2>1, <2>2 DEF Part
  <2>7. Worth(l \o p) = Worth(l) + times * v /\ EndsWith(l \o p, Bound[j])
    <3>1. j \in 1 .. 13 /\ times \in Nat /\ v = RomanValues[j][1] /\ EndsWith(l, Bound[j])
      BY <2>1, <2>2, <2>3, <2>5
    <3> QED
      BY ONLY <2>4, <2>6, <3>1, RepeatRead
  <2>8. t[j] = l \o p /\ t[j] \in Seq(Letter)
    BY <1>8, <2>1, <2>2
  <2>9. PICK x, y, z, r, s : /\ x = Worth(l) /\ y = times * v /\ z = Worth(t[j])
                             /\ r = rest[i] /\ s = rest[j]
    OBVIOUS
  <2>10. x \in Int /\ y \in Int /\ z = x + y /\ r = y + s /\ s \in Nat /\ x + r = value
    BY <2>3, <2>5, <2>7, <2>8, <2>9
  <2>11. z \in Int /\ z + s = value
    BY ONLY <2>10
  <2>12. j < N => EndsWith(t[j], Bound[j + 1])
    <3> SUFFICES ASSUME j < N PROVE EndsWith(t[j], Bound[j + 1])
      OBVIOUS
    <3>1. Bound[j + 1] <= Bound[j] /\ Bound[j] \in Nat /\ Bound[j + 1] \in Nat
      BY <2>2, BoundsFall
    <3>2. EndsWith(t[j], Bound[j])
      BY <2>7, <2>8
    <3>3. t[j] # <<>> => t[j][Len(t[j])] \in Letter
      BY <2>8
    <3>4. t[j] # <<>> => LetterValue[t[j][Len(t[j])]] \in Nat
      BY <3>3, LetterValues
    <3> QED
      BY <3>1, <3>2, <3>4 DEF EndsWith
  <2> QED
    BY <2>1, <2>2, <2>9, <2>11, <2>12
<1>11. N \in S
  <2> HIDE DEF S
  <2>1. \A i \in 0 .. N : i \in S
    BY <1>5, <1>9, <1>10, UpTo
  <2> QED
    BY <1>5, <2>1
<1>12. rest[N] = 0
  <2>1. RomanValues[13][1] = 1
    BY DEF RomanValues
  <2>2. rest[13] = rest[12] % 1 /\ rest[12] \in Nat
    <3>1. 13 \in 1 .. 13 /\ 13 - 1 = 12 /\ 12 \in 0 .. 13
      OBVIOUS
    <3> QED
      BY <1>1, <2>1, <3>1
  <2> QED
    BY <1>2, <2>2
<1>13. Worth(t[N]) = value /\ t[N] \in Seq(Letter)
  BY <1>5, <1>8, <1>11, <1>12
<1> QED
  BY <1>3, <1>8, <1>13

(* A letter in a script is read as the letter.                                *)
LEMMA LetterRead ==
    ASSUME NEW script \in RomanScript, NEW l \in Letter
    PROVE  ReadLetter(script \o l, script) = LetterValue[l]
<1>1. PICK x : x = script \o l
  OBVIOUS
<1>2. \A m \in Letter : script \o m = x => m = l
  <2>1. \A m, k \in Letter : script \o m = script \o k => m = k
    BY NamesAssumption DEF NamesAssumption
  <2> QED
    BY <1>1, <2>1
<1>3. ReadLetter(x, script) = LetterValue[CHOOSE m \in Letter : script \o m = x]
  BY DEF ReadLetter
<1>4. (CHOOSE m \in Letter : script \o m = x) = l
  BY <1>1, <1>2
<1> QED
  BY <1>1, <1>3, <1>4

(* A Roman numeral in a script is read as what its letters are worth.         *)
LEMMA ReadRomanIs ==
    ASSUME NEW script \in RomanScript, NEW l \in Seq(Letter),
           NEW t, t = [i \in DOMAIN l |-> script \o l[i]]
    PROVE  ReadRoman(t, script) = Worth(l)
<1>1. PICK N : N = Len(l)
  OBVIOUS
<1>2. N \in Nat /\ DOMAIN l = 1 .. N /\ \A i \in 1 .. N : l[i] \in Letter
  BY <1>1
<1>3. Len(t) = N /\ \A i \in 1 .. N : t[i] = script \o l[i]
  BY <1>2
<1>4. ASSUME NEW i \in 1 .. N PROVE ReadLetter(t[i], script) = LetterValue[l[i]]
  <2>1. l[i] \in Letter /\ t[i] = script \o l[i]
    BY <1>2, <1>3
  <2> QED
    BY <2>1, LetterRead
<1>5. ASSUME NEW i \in 1 .. N PROVE SignedLetter(t, script, i) = Signed(l, i)
  <2>1. CASE i < N
    <3>1. i + 1 \in 1 .. N
      BY <1>2, <2>1
    <3>2. /\ ReadLetter(t[i], script) = LetterValue[l[i]]
          /\ ReadLetter(t[i + 1], script) = LetterValue[l[i + 1]]
      BY <1>4, <3>1
    <3> QED
      BY <1>1, <1>3, <3>2 DEF SignedLetter, Signed
  <2>2. CASE ~(i < N)
    <3>1. ReadLetter(t[i], script) = LetterValue[l[i]]
      BY <1>4
    <3> QED
      BY <1>1, <1>3, <2>2, <3>1 DEF SignedLetter, Signed
  <2> QED
    BY <2>1, <2>2
<1> DEFINE Is(f) ==
               f = [i \in 0 .. N |-> IF i = 0 THEN 0 ELSE f[i - 1] + SignedLetter(t, script, i)]
           g == CHOOSE f : Is(f)
<1>6. ReadRoman(t, script) = g[N]
  BY <1>3 DEF ReadRoman
<1>7. PICK f : f = CHOOSE h : Summed(h, l, N)
  OBVIOUS
<1>8. Summed(f, l, N) /\ Worth(l) = f[N]
  <2>1. N \in 0 .. Len(l)
    BY <1>1, <1>2
  <2> QED
    BY <1>1, <1>7, <2>1, SummedExists DEF Worth
<1>9. \A i \in 0 .. N : i # 0 => i \in 1 .. N /\ i - 1 \in 0 .. N
  BY <1>2
<1>10. Is(f)
  BY <1>5, <1>8, <1>9 DEF Summed
<1>11. Is(g)
  BY <1>10
<1> HIDE DEF g
<1> DEFINE S == {i \in 0 .. N : f[i] = g[i]}
<1>12. 0 \in S
  BY <1>2, <1>10, <1>11
<1>13. ASSUME NEW i \in 0 .. N - 1, i \in S PROVE i + 1 \in S
  <2>1. i + 1 \in 0 .. N /\ i + 1 # 0 /\ (i + 1) - 1 = i /\ f[i] = g[i]
    BY <1>2, <1>13
  <2>2. /\ f[i + 1] = f[i] + SignedLetter(t, script, i + 1)
        /\ g[i + 1] = g[i] + SignedLetter(t, script, i + 1)
    BY <1>10, <1>11, <2>1
  <2> QED
    BY <2>1, <2>2
<1>14. f[N] = g[N]
  <2> HIDE DEF S
  <2>1. \A i \in 0 .. N : i \in S
    BY <1>2, <1>12, <1>13, UpTo
  <2> QED
    BY <1>2, <2>1 DEF S
<1> QED
  BY <1>6, <1>8, <1>14

(* The first digit of a number is not zero.                                  *)
LEMMA SignificantFirst ==
    ASSUME NEW run \in Seq(Digit), NEW n, n = Significant(run), n # <<>>
    PROVE  n[1] \in 1 .. 9
<1> DEFINE I == {i \in 1 .. Len(run) : run[i] # "0"}
           k == SelectInSeq(run, LAMBDA d : d # "0")
<1>1. k = IF I # {} THEN Min(I) ELSE 0
  BY DEF SelectInSeq
<1>2. Len(run) \in Nat /\ I \subseteq Nat /\ I \subseteq 1 .. Len(run)
  OBVIOUS
<1>3. I # {} => Min(I) \in I
  <2> HIDE DEF I
  <2> QED
    BY <1>2, MinIsMember
<1>4. \A d \in Digit : Value[d] \in 0 .. 9
  BY DigitsAre
<1>5. k # 0 => k \in 1 .. Len(run) /\ run[k] # "0"
  BY <1>1, <1>3
<1>6. PICK kept : kept = IF k = 0 THEN <<>> ELSE SubSeq(run, k, Len(run))
  OBVIOUS
<1> HIDE DEF k
<1>7. n = [i \in DOMAIN kept |-> Value[kept[i]]]
  BY <1>6 DEF Significant, k
<1>8. k # 0
  <2>1. ASSUME k = 0 PROVE FALSE
    <3>1. kept = <<>> /\ DOMAIN kept = {}
      BY <1>6, <2>1
    <3>2. n = <<>>
      BY <1>7, <3>1
    <3> QED
      BY <3>2
  <2> QED
    BY <2>1
<1>9. 1 \in DOMAIN kept /\ kept[1] = run[k]
  <2>1. kept = SubSeq(run, k, Len(run)) /\ k \in 1 .. Len(run)
    BY <1>5, <1>6, <1>8
  <2> QED
    BY <1>2, <2>1
<1>10. PICK d : d = run[k]
  OBVIOUS
<1>11. d \in Digit /\ d # "0"
  BY <1>5, <1>8, <1>10
<1>12. n[1] = Value[d]
  BY <1>7, <1>9, <1>10
<1>13. Value[d] # 0
  <2>1. PICK i \in 1 .. 10 : d = Digits[i]
    BY <1>11, DigitsAre DEF Digit, ToSet
  <2>2. PICK v : v = i - 1
    OBVIOUS
  <2>3. v \in 0 .. 9 /\ d = Digits[v + 1]
    BY <2>1, <2>2
  <2>4. Value[d] = v
    BY <2>3, ValueIs
  <2>5. Digits[0 + 1] = "0"
    BY DEF Digits
  <2> QED
    BY <1>11, <2>3, <2>4, <2>5
<1> QED
  BY <1>4, <1>11, <1>12, <1>13

(* A part of no length, and the first glyph alone.                           *)
LEMMA FirstPart ==
    ASSUME NEW D, NEW n \in Seq(D)
    PROVE  SubSeq(n, 1, 0) = <<>> /\ (Len(n) >= 1 => SubSeq(n, 1, 1) = <<n[1]>>)
<1>1. SubSeq(n, 1, 0) = <<>>
  OBVIOUS
<1>2. ASSUME Len(n) >= 1 PROVE SubSeq(n, 1, 1) = <<n[1]>>
  <2>1. PICK s : s = SubSeq(n, 1, 1)
    OBVIOUS
  <2>2. Len(n) \in Nat /\ 1 \in 1 .. Len(n)
    BY <1>2
  <2>3. s \in Seq(D) /\ Len(s) = 1 /\ s[1] = n[1]
    BY <2>1, <2>2
  <2>4. s = <<s[1]>>
    BY ONLY <2>3
  <2> QED
    BY <2>1, <2>3, <2>4
<1> QED
  BY <1>1, <1>2

(* What exceeding means.                                                    *)
LEMMA ExceedsIs ==
    ASSUME NEW m, NEW n, NEW L, NEW N, L = Len(m), N = Len(n)
    PROVE  Exceeds(m, n) <=>
               \/ L > N
               \/ L = N /\ \E i \in DOMAIN m :
                             m[i] > n[i] /\ SubSeq(m, 1, i - 1) = SubSeq(n, 1, i - 1)
  BY Zenon DEF Exceeds

(* The digits of a number.                                                  *)
LEMMA DigitsOf ==
    ASSUME NEW n \in Seq(0 .. 9), NEW L, L = Len(n)
    PROVE  L \in Nat /\ DOMAIN n = 1 .. L /\ \A i \in 1 .. L : n[i] \in 0 .. 9
  OBVIOUS

(* Numbers of up to four digits and the limit of the Roman numerals.          *)
LEMMA RomanRange ==
    ASSUME NEW n \in Seq(0 .. 9), n # None
    PROVE  InRange(n, <<3, 9, 9, 9>>) <=> Small(n, 3999)
<1>1. PICK L : L = Len(n)
  OBVIOUS
<1>0. PICK top : top = <<3, 9, 9, 9>>
  OBVIOUS
<1>2. /\ top \in Seq(0 .. 9) /\ Len(top) = 4 /\ L \in Nat
      /\ top[1] = 3 /\ top[2] = 9 /\ top[3] = 9 /\ top[4] = 9
  BY <1>0, <1>1
<1>3. PICK N : N = Len(top) /\ N = 4
  BY <1>2
<1>14. Exceeds(n, top) <=>
          \/ L > N
          \/ L = N /\ \E i \in DOMAIN n :
                        n[i] > top[i] /\ SubSeq(n, 1, i - 1) = SubSeq(top, 1, i - 1)
  BY <1>1, <1>3, ExceedsIs
<1>15. (L > 4 => Exceeds(n, top)) /\ (L < 4 => ~Exceeds(n, top))
  BY <1>2, <1>3, <1>14
<1>5. L = 4 => (Exceeds(n, top) <=> n[1] > 3)
  <2> SUFFICES ASSUME L = 4 PROVE Exceeds(n, top) <=> n[1] > 3
    OBVIOUS
  <2>1. DOMAIN n = 1 .. 4 /\ \A i \in 1 .. 4 : n[i] \in 0 .. 9
    BY <1>1, DigitsOf
  <2>2. \A i \in 1 .. 4 : n[i] > top[i] => i = 1
    <3>1. \A i \in 1 .. 4 : i # 1 => top[i] = 9
      BY <1>2
    <3> QED
      BY <2>1, <3>1
  <2>3. SubSeq(n, 1, 0) = <<>> /\ SubSeq(top, 1, 0) = <<>>
    <3>1. PICK D : D = 0 .. 9
      OBVIOUS
    <3>2. n \in Seq(D) /\ top \in Seq(D)
      BY <1>2, <3>1
    <3> QED
      BY ONLY <3>2, FirstPart
  <2>4. Exceeds(n, top) <=>
          \E i \in 1 .. 4 : n[i] > top[i] /\ SubSeq(n, 1, i - 1) = SubSeq(top, 1, i - 1)
    BY <1>2, <1>3, <1>14, <2>1
  <2>5. 1 - 1 = 0 /\ 1 \in 1 .. 4
    OBVIOUS
  <2> QED
    BY <1>2, <2>2, <2>3, <2>4, <2>5
<1>6. L = 4 => (ToInt(n) <= 3999 <=> ~(n[1] > 3))
  <2> SUFFICES ASSUME L = 4 PROVE ToInt(n) <= 3999 <=> ~(n[1] > 3)
    OBVIOUS
  <2>1. ToInt(n) = 1000 * At0(n, L - 3) + 100 * At0(n, L - 2) + 10 * At0(n, L - 1) + At0(n, L)
    <3>1. L <= 4
      OBVIOUS
    <3> QED
      BY ONLY n \in Seq(0 .. 9), <1>1, <3>1, ToIntShort
  <2>2. PICK a, b, c, d : a = n[1] /\ b = n[2] /\ c = n[3] /\ d = n[4]
    OBVIOUS
  <2>3. a \in 0 .. 9 /\ b \in 0 .. 9 /\ c \in 0 .. 9 /\ d \in 0 .. 9
    <3>1. 1 \in 1 .. L /\ 2 \in 1 .. L /\ 3 \in 1 .. L /\ 4 \in 1 .. L
      OBVIOUS
    <3> QED
      BY <1>1, <2>2, <3>1, DigitsOf
  <2>4. At0(n, L - 3) = a /\ At0(n, L - 2) = b /\ At0(n, L - 1) = c /\ At0(n, L) = d
    <3>1. L - 3 = 1 /\ L - 2 = 2 /\ L - 1 = 3 /\ L = 4
      OBVIOUS
    <3>2. 1 \in 1 .. L /\ 2 \in 1 .. L /\ 3 \in 1 .. L /\ 4 \in 1 .. L
      OBVIOUS
    <3> QED
      BY <1>1, <2>2, <3>1, <3>2 DEF At0
  <2>5. ToInt(n) = 1000 * a + 100 * b + 10 * c + d
    BY <2>1, <2>4
  <2>6. 1000 * a + 100 * b + 10 * c + d <= 3999 <=> ~(a > 3)
    BY ONLY <2>3
  <2> QED
    BY <2>2, <2>5, <2>6
<1>7. L < 4 => ToInt(n) <= 3999
  <2> SUFFICES ASSUME L < 4 PROVE ToInt(n) <= 3999
    OBVIOUS
  <2>1. ToInt(n) = 1000 * At0(n, L - 3) + 100 * At0(n, L - 2) + 10 * At0(n, L - 1) + At0(n, L)
    BY <1>1, <1>2, ToIntShort
  <2>2. PICK a, b, c, d : /\ a = At0(n, L - 3) /\ b = At0(n, L - 2)
                          /\ c = At0(n, L - 1) /\ d = At0(n, L)
    OBVIOUS
  <2>3. a \in 0 .. 9 /\ b \in 0 .. 9 /\ c \in 0 .. 9 /\ d \in 0 .. 9
    BY <2>2, At0Typed
  <2>4. a = 0
    <3>1. L - 3 \notin 1 .. L
      BY <1>2
    <3> QED
      BY <1>1, <2>2, <3>1 DEF At0
  <2>5. 1000 * a + 100 * b + 10 * c + d <= 3999
    BY ONLY <2>3, <2>4
  <2> QED
    BY <2>1, <2>2, <2>5
<1>8. InRange(n, top) <=> n # <<>> /\ ~Exceeds(n, top)
  BY DEF InRange
<1>9. Small(n, 3999) <=> n # <<>> /\ L <= 4 /\ ToInt(n) <= 3999
  BY <1>1 DEF Small
<1>10. L < 4 \/ L = 4 \/ L > 4
  BY <1>2
<1>11. InRange(n, top) <=> Small(n, 3999)
  BY <1>2, <1>15, <1>5, <1>6, <1>7, <1>8, <1>9, <1>10
<1> QED
  BY <1>0, <1>11

(* The limit of the circled ones.                                           *)
LEMMA CircledRange ==
    ASSUME NEW n \in Seq(0 .. 9), n # None, n # <<>> => n[1] \in 1 .. 9
    PROVE  InRange(n, <<5, 0>>) <=> Small(n, 50)
<1>1. PICK L : L = Len(n)
  OBVIOUS
<1>0. PICK top : top = <<5, 0>>
  OBVIOUS
<1>2. top \in Seq(0 .. 9) /\ Len(top) = 2 /\ L \in Nat /\ top[1] = 5 /\ top[2] = 0
  BY <1>0, <1>1
<1>3. PICK N : N = Len(top) /\ N = 2
  BY <1>2
<1>14. Exceeds(n, top) <=>
          \/ L > N
          \/ L = N /\ \E i \in DOMAIN n :
                        n[i] > top[i] /\ SubSeq(n, 1, i - 1) = SubSeq(top, 1, i - 1)
  BY <1>1, <1>3, ExceedsIs
<1>15. (L > 2 => Exceeds(n, top)) /\ (L < 2 => ~Exceeds(n, top))
  BY <1>2, <1>3, <1>14
<1>5. L = 2 => (Exceeds(n, top) <=> n[1] > 5 \/ (n[1] = 5 /\ n[2] > 0))
  <2> SUFFICES ASSUME L = 2 PROVE Exceeds(n, top) <=> n[1] > 5 \/ (n[1] = 5 /\ n[2] > 0)
    OBVIOUS
  <2>1. DOMAIN n = 1 .. 2 /\ \A i \in 1 .. 2 : n[i] \in 0 .. 9
    BY <1>1, DigitsOf
  <2>2. /\ SubSeq(n, 1, 0) = <<>> /\ SubSeq(top, 1, 0) = <<>>
        /\ SubSeq(n, 1, 1) = <<n[1]>> /\ SubSeq(top, 1, 1) = <<5>>
    <3>1. PICK D : D = 0 .. 9
      OBVIOUS
    <3>2. n \in Seq(D) /\ top \in Seq(D)
      BY <1>2, <3>1
    <3>4. Len(n) >= 1 /\ Len(top) >= 1
      BY ONLY <1>1, <1>2, L = 2
    <3>3. /\ SubSeq(n, 1, 0) = <<>> /\ SubSeq(top, 1, 0) = <<>>
          /\ SubSeq(n, 1, 1) = <<n[1]>> /\ SubSeq(top, 1, 1) = <<top[1]>>
      BY ONLY <3>2, <3>4, FirstPart
    <3> QED
      BY <1>2, <3>3
  <2>3. Exceeds(n, top) <=>
          \E i \in 1 .. 2 : n[i] > top[i] /\ SubSeq(n, 1, i - 1) = SubSeq(top, 1, i - 1)
    BY <1>2, <1>3, <1>14, <2>1
  <2>4. (\E i \in 1 .. 2 : n[i] > top[i] /\ SubSeq(n, 1, i - 1) = SubSeq(top, 1, i - 1))
          <=> \/ n[1] > top[1] /\ SubSeq(n, 1, 0) = SubSeq(top, 1, 0)
              \/ n[2] > top[2] /\ SubSeq(n, 1, 1) = SubSeq(top, 1, 1)
    <3>1. \A i \in 1 .. 2 : (i = 1 /\ i - 1 = 0) \/ (i = 2 /\ i - 1 = 1)
      OBVIOUS
    <3>2. 1 \in 1 .. 2 /\ 2 \in 1 .. 2 /\ 1 - 1 = 0 /\ 2 - 1 = 1
      OBVIOUS
    <3> QED
      BY <3>1, <3>2
  <2>5. <<n[1]>> = <<5>> <=> n[1] = 5
    OBVIOUS
  <2> QED
    BY <1>2, <2>2, <2>3, <2>4, <2>5
<1>6. ASSUME L \in 1 .. 4
      PROVE  (L = 1 => ToInt(n) <= 50)
             /\ (L = 2 => (ToInt(n) <= 50 <=> ~(n[1] > 5 \/ (n[1] = 5 /\ n[2] > 0))))
             /\ (L > 2 => ToInt(n) > 50)
  <2>1. ToInt(n) = 1000 * At0(n, L - 3) + 100 * At0(n, L - 2) + 10 * At0(n, L - 1) + At0(n, L)
    <3>1. L <= 4
      BY <1>6
    <3> QED
      BY ONLY n \in Seq(0 .. 9), <1>1, <3>1, ToIntShort
  <2>2. PICK a, b, c, d : /\ a = At0(n, L - 3) /\ b = At0(n, L - 2)
                          /\ c = At0(n, L - 1) /\ d = At0(n, L)
    OBVIOUS
  <2>3. a \in 0 .. 9 /\ b \in 0 .. 9 /\ c \in 0 .. 9 /\ d \in 0 .. 9
    BY <2>2, At0Typed
  <2>4. PICK t : t = ToInt(n)
    OBVIOUS
  <2>5. t = 1000 * a + 100 * b + 10 * c + d
    BY <2>1, <2>2, <2>4
  <2>6. n[1] \in 1 .. 9
    BY <1>1, <1>6
  <2>7. CASE L = 1
    <3>1. a = 0 /\ b = 0 /\ c = 0
      BY <1>1, <2>2, <2>7 DEF At0
    <3>2. t <= 50
      BY ONLY <2>3, <2>5, <3>1
    <3> QED
      BY <2>4, <2>7, <3>2
  <2>8. CASE L = 2
    <3>1. a = 0 /\ b = 0 /\ c = n[1] /\ d = n[2]
      BY <1>1, <2>2, <2>8 DEF At0
    <3>2. t = 10 * c + d
      BY ONLY <2>3, <2>5, <3>1
    <3>3. t <= 50 <=> ~(c > 5 \/ (c = 5 /\ d > 0))
      BY ONLY <2>3, <3>2
    <3> QED
      BY <2>4, <2>8, <3>1, <3>3
  <2>9. CASE L = 3
    <3>1. a = 0 /\ b = n[1]
      BY <1>1, <2>2, <2>9 DEF At0
    <3>2. t > 50
      BY ONLY <2>3, <2>5, <2>6, <3>1
    <3> QED
      BY <2>4, <2>9, <3>2
  <2>10. CASE L = 4
    <3>1. a = n[1]
      BY <1>1, <2>2, <2>10 DEF At0
    <3>3. a >= 1
      BY <2>6, <3>1
    <3>2. t > 50
      BY ONLY <2>3, <2>5, <3>3
    <3> QED
      BY <2>4, <2>10, <3>2
  <2> QED
    BY <1>6, <2>7, <2>8, <2>9, <2>10
<1>7. InRange(n, top) <=> n # <<>> /\ ~Exceeds(n, top)
  BY DEF InRange
<1>8. Small(n, 50) <=> n # <<>> /\ L <= 4 /\ ToInt(n) <= 50
  BY <1>1 DEF Small
<1>9. n # <<>> <=> L # 0
  BY <1>1
<1>10. ToInt(n) \in Nat
  BY ToIntTyped
<1>11. ASSUME L \in {1, 2} PROVE InRange(n, top) <=> Small(n, 50)
  <2>1. L \in 1 .. 4 /\ L <= 4 /\ L # 0 /\ (L = 1 \/ L = 2)
    BY <1>11
  <2> QED
    BY <2>1, <1>15, <1>5, <1>6, <1>7, <1>8, <1>9
<1>12. ASSUME L \in {3, 4} PROVE InRange(n, top) <=> Small(n, 50)
  <2>1. L \in 1 .. 4 /\ L > 2
    BY <1>12
  <2>2. ToInt(n) > 50
    BY <1>6, <2>1
  <2>3. ~(ToInt(n) <= 50)
    BY <1>10, <2>2
  <2> QED
    BY <1>15, <1>7, <1>8, <2>1, <2>3
<1>13. ASSUME L = 0 \/ L > 4 PROVE InRange(n, top) <=> Small(n, 50)
  BY <1>2, <1>15, <1>7, <1>8, <1>9, <1>13
<1>16. InRange(n, top) <=> Small(n, 50)
  BY <1>2, <1>11, <1>12, <1>13
<1> QED
  BY <1>0, <1>16

(* A number that exceeds 64 bits is not small.                               *)
LEMMA LargeNotSmall ==
    ASSUME NEW n \in Seq(0 .. 9), Exceeds(n, LargestNumber), NEW largest
    PROVE  ~Small(n, largest)
<1>1. PICK L, N : L = Len(n) /\ N = Len(LargestNumber)
  OBVIOUS
<1>2. N = 20
  BY <1>1 DEF LargestNumber
<1>3. L > N \/ L = N
  BY <1>1, ExceedsIs
<1>4. L \in Nat
  BY <1>1
<1>5. ~(L <= 4)
  BY ONLY <1>2, <1>3, <1>4
<1> QED
  BY <1>1, <1>5 DEF Small

(* No numeral and no number is the mark of none.                              *)
LEMMA NoneApart == (\A n \in Seq(0 .. 9) : n # None) /\ (\A t \in Text : t # None)
  BY LookupAssumption, NamesAssumption DEF LookupAssumption, NamesAssumption

(* The number of a run.                                                     *)
LEMMA NumberIs ==
    ASSUME NEW run \in Seq(Digit), run # <<>>, NEW n, n = Significant(run)
    PROVE  /\ n \in Seq(0 .. 9) /\ n # None
           /\ ~Exceeds(n, LargestNumber) => Number(run) = n /\ Len(n) <= 20
           /\ Exceeds(n, LargestNumber) => Number(run) = None
<1>1. n \in Seq(0 .. 9)
  BY SignificantTyped
<1>2. n # None
  BY <1>1, NoneApart
<1>3. Number(run) = IF Exceeds(n, LargestNumber) THEN None ELSE n
  BY Zenon DEF Number
<1>4. ~Exceeds(n, LargestNumber) => Len(n) <= 20
  BY <1>2, <1>3, NumberTyped
<1> QED
  BY <1>1, <1>2, <1>3, <1>4

(* What each type of numeral calls.                                          *)
LEMMA ConvertIs ==
    ASSUME NEW run, NEW m, m = Number(run)
    PROVE  /\ Convert(run, "3") = IF m = None THEN None
                                  ELSE KanjiNumber(m, KanjiDigit, KanjiUnits, TRUE)
           /\ Convert(run, "5") = IF m = None THEN None
                                  ELSE KanjiNumber(m, DaijiDigit, DaijiUnits, FALSE)
           /\ Convert(run, "6") = Roman(m, TRUE, "unicode ")
           /\ Convert(run, "7") = Roman(m, TRUE, "unicode small ")
           /\ Convert(run, "a") = Roman(m, FALSE, "")
           /\ Convert(run, "b") = Roman(m, FALSE, "small ")
           /\ Convert(run, "c") = Circled(m)
<1>1. ASSUME NEW t PROVE Convert(run, t) = Numeral(run, m, t)
  BY DEF Convert
<1>2. Numeral(run, m, "3") = IF m = None THEN None ELSE KanjiNumber(m, KanjiDigit, KanjiUnits, TRUE)
  BY Zenon DEF Numeral
<1>3. Numeral(run, m, "5") =
          IF m = None THEN None ELSE KanjiNumber(m, DaijiDigit, DaijiUnits, FALSE)
  BY Zenon DEF Numeral
<1>4. Numeral(run, m, "6") = Roman(m, TRUE, "unicode ")
  BY Zenon DEF Numeral
<1>5. Numeral(run, m, "7") = Roman(m, TRUE, "unicode small ")
  BY Zenon DEF Numeral
<1>6. Numeral(run, m, "a") = Roman(m, FALSE, "")
  BY Zenon DEF Numeral
<1>7. Numeral(run, m, "b") = Roman(m, FALSE, "small ")
  BY Zenon DEF Numeral
<1>8. Numeral(run, m, "c") = Circled(m)
  BY Zenon DEF Numeral
<1> QED
  BY <1>1, <1>2, <1>3, <1>4, <1>5, <1>6, <1>7, <1>8

(* A Roman numeral is there for the numbers up to 3999 and says the number.    *)
LEMMA RomanBack ==
    ASSUME NEW n \in Seq(0 .. 9), NEW m, m \in {None, n}, Small(n, 3999) => m = n,
           NEW unicode, NEW script \in RomanScript, NEW t, t = Roman(m, unicode, script)
    PROVE  (t # None <=> Small(n, 3999)) /\ (t # None => ReadRoman(t, script) = ToInt(n))
<1>1. n # None
  BY NoneApart
<1>2. m = n => (InRange(m, <<3, 9, 9, 9>>) <=> Small(n, 3999))
  BY <1>1, RomanRange
<1>3. InRange(m, <<3, 9, 9, 9>>) <=> Small(n, 3999)
  BY <1>2 DEF InRange
<1>4. ~Small(n, 3999) => t = None
  BY <1>3 DEF Roman
<1>5. ASSUME Small(n, 3999) PROVE t # None /\ ReadRoman(t, script) = ToInt(n)
  <2>1. PICK value, l : value = ToInt(n) /\ l = RomanNumeral(value, unicode)
    OBVIOUS
  <2>2. m = n
    BY <1>5
  <2>3. t = [i \in DOMAIN l |-> script \o l[i]]
    BY <1>3, <1>5, <2>1, <2>2 DEF Roman
  <2>4. value \in Nat
    BY <2>1, ToIntTyped
  <2>5. l \in Seq(Letter) /\ Worth(l) = value
    BY <2>1, <2>4, RomanWorth
  <2>6. ReadRoman(t, script) = value
    BY <2>3, <2>5, ReadRomanIs
  <2>7. t \in Text
    <3>1. \A i \in DOMAIN l : script \o l[i] \in Glyph
      <4>1. \A i \in DOMAIN l : l[i] \in Letter
        BY <2>5
      <4>2. \A c \in Letter : script \o c \in RomanGlyph
        BY DEF RomanGlyph
      <4>3. RomanGlyph \subseteq Glyph
        BY NumeralGlyphs DEF NumeralGlyph
      <4> QED
        BY <4>1, <4>2, <4>3
    <3>2. PICK N : N = Len(l)
      OBVIOUS
    <3>3. N \in Nat /\ DOMAIN l = 1 .. N
      BY <2>5, <3>2
    <3>4. t = [i \in 1 .. N |-> t[i]] /\ \A i \in 1 .. N : t[i] \in Glyph
      BY <2>3, <3>1, <3>3
    <3>5. t \in Seq(Glyph)
      BY ONLY <3>3, <3>4, IsSeq
    <3> QED
      BY <3>5 DEF Text
  <2> QED
    BY <2>1, <2>6, <2>7, NoneApart
<1> QED
  BY <1>4, <1>5

(* The part every name of a circled number has.                              *)
CircledBase == "circled "

(* What a circled number is called by its digits is what its number is called. *)
LEMMA CircledNames ==
    /\ \A a \in 1 .. 9 : CircledBase \o Digits[a + 1] = CircledBase \o ToString(a)
    /\ \A a \in 1 .. 9, b \in 0 .. 9 :
          (CircledBase \o Digits[a + 1]) \o Digits[b + 1] = CircledBase \o ToString(10 * a + b)
  BY Zenon, NamesAssumption DEF NamesAssumption, CircledBase

(* The name of a circled number of one digit or of two.                       *)
LEMMA CircledName ==
    ASSUME NEW n \in Seq(0 .. 9), NEW L, L = Len(n), L \in {1, 2}, InRange(n, <<5, 0>>),
           NEW base, base = CircledBase
    PROVE  Circled(n) = <<IF L = 1 THEN base \o Digits[n[1] + 1]
                          ELSE (base \o Digits[n[1] + 1]) \o Digits[n[2] + 1]>>
<1> DEFINE Is(f) == f = [i \in 0 .. L |-> IF i = 0 THEN base ELSE f[i - 1] \o Digits[n[i] + 1]]
           names == CHOOSE f : Is(f)
<1>1. Circled(n) = <<names[L]>>
  BY Zenon DEF Circled, CircledBase
<1>2. PICK c, d : c = Digits[n[1] + 1] /\ d = Digits[n[2] + 1]
  OBVIOUS
<1>3. PICK x : x = base \o c
  OBVIOUS
<1>4. PICK y : y = x \o d
  OBVIOUS
<1>5. PICK f : f = [i \in 0 .. L |-> IF i = 0 THEN base ELSE IF i = 1 THEN x ELSE y]
  OBVIOUS
<1>6. Is(f)
  <2>1. f[0] = base /\ f[1] = x
    BY <1>5
  <2>2. \A i \in 0 .. L : i = 0 \/ i = 1 \/ (i = 2 /\ L = 2)
    OBVIOUS
  <2>7. 1 - 1 = 0 /\ 2 - 1 = 1
    OBVIOUS
  <2>3. f[1 - 1] \o Digits[n[1] + 1] = x
    BY Zenon, <1>2, <1>3, <2>1, <2>7
  <2>4. f[2 - 1] \o Digits[n[2] + 1] = y
    BY Zenon, <1>2, <1>4, <2>1, <2>7
  <2>5. \A i \in 0 .. L : f[i] = IF i = 0 THEN base ELSE f[i - 1] \o Digits[n[i] + 1]
    BY <1>5, <2>1, <2>2, <2>3, <2>4
  <2>6. f = [i \in 0 .. L |-> f[i]]
    BY <1>5
  <2> QED
    BY <2>5, <2>6
<1>7. Is(names)
  BY <1>6
<1> HIDE DEF names
<1>8. names[0] = base /\ \A i \in 1 .. L : names[i] = names[i - 1] \o Digits[n[i] + 1]
  BY <1>7
<1>9. names[1] = x
  <2>1. 1 \in 1 .. L /\ 1 - 1 = 0
    OBVIOUS
  <2> QED
    BY <1>2, <1>3, <1>8, <2>1
<1>10. L = 2 => names[2] = y
  <2>1. L = 2 => 2 \in 1 .. L /\ 2 - 1 = 1
    OBVIOUS
  <2> QED
    BY <1>2, <1>4, <1>8, <1>9, <2>1
<1>11. names[L] = IF L = 1 THEN x ELSE y
  BY <1>9, <1>10
<1> QED
  BY <1>1, <1>2, <1>3, <1>4, <1>11

(* A circled number is there for the numbers up to 50 and is named by them.   *)
LEMMA CircledBack ==
    ASSUME NEW n \in Seq(0 .. 9), n # <<>> => n[1] \in 1 .. 9,
           NEW m, m \in {None, n}, Small(n, 50) => m = n, NEW t, t = Circled(m),
           NEW base, base = CircledBase
    PROVE  /\ t # None <=> Small(n, 50)
           /\ t # None => t = <<base \o ToString(ToInt(n))>>
<1>1. n # None
  BY NoneApart
<1>2. m = n => (InRange(m, <<5, 0>>) <=> Small(n, 50))
  BY <1>1, CircledRange
<1>3. InRange(m, <<5, 0>>) <=> Small(n, 50)
  BY <1>2 DEF InRange
<1>4. ~Small(n, 50) => t = None
  BY <1>3 DEF Circled
<1>5. ASSUME Small(n, 50) PROVE t # None /\ t = <<base \o ToString(ToInt(n))>>
  <2>1. PICK top, L : top = <<5, 0>> /\ L = Len(n)
    OBVIOUS
  <2>2. m = n /\ n # <<>> /\ InRange(n, top)
    BY <1>3, <1>5, <2>1 DEF Small
  <2>3. L \in {1, 2}
    <3>1. PICK N : N = Len(top)
      OBVIOUS
    <3>2. N = 2
      BY <2>1, <3>1
    <3>3. ~Exceeds(n, top)
      BY <2>2 DEF InRange
    <3>4. ~(L > N)
      BY <2>1, <3>1, <3>3, ExceedsIs
    <3>5. L \in Nat /\ L # 0
      BY <2>1, <2>2
    <3> QED
      BY ONLY <3>2, <3>4, <3>5
  <2>4. t # None
    <3>1. n \in [1 .. L -> 0 .. 9]
      BY <2>1
    <3>2. \A k \in 1 .. 2 : \A x \in [1 .. k -> 0 .. 9] : InRange(x, top) => Circled(x) \in Text
      BY <2>1, LookupAssumption DEF LookupAssumption
    <3>3. L \in 1 .. 2
      BY ONLY <2>3
    <3>4. Circled(n) \in Text
      BY ONLY <2>2, <3>1, <3>2, <3>3
    <3> QED
      BY <2>2, <3>4, NoneApart
  <2>5. t = <<IF L = 1 THEN base \o Digits[n[1] + 1]
              ELSE (base \o Digits[n[1] + 1]) \o Digits[n[2] + 1]>>
    <3>1. InRange(n, <<5, 0>>)
      BY <2>1, <2>2
    <3> QED
      BY <2>1, <2>2, <2>3, <3>1, CircledName
  <2>6. n[1] \in 1 .. 9
    BY <2>2
  <2>7. ToInt(n) = 1000 * At0(n, L - 3) + 100 * At0(n, L - 2) + 10 * At0(n, L - 1) + At0(n, L)
    <3>1. L <= 4
      BY <2>3
    <3> QED
      BY ONLY n \in Seq(0 .. 9), <2>1, <3>1, ToIntShort
  <2>8. CASE L = 1
    <3>1. /\ At0(n, L - 3) = 0 /\ At0(n, L - 2) = 0 /\ At0(n, L - 1) = 0 /\ At0(n, L) = n[1]
      BY <2>1, <2>8 DEF At0
    <3>2. ToInt(n) = n[1]
      BY <2>6, <2>7, <3>1
    <3>3. base \o Digits[n[1] + 1] = base \o ToString(n[1])
      BY <2>6, CircledNames
    <3> QED
      BY <2>4, <2>5, <2>8, <3>2, <3>3
  <2>9. CASE L = 2
    <3>1. /\ At0(n, L - 3) = 0 /\ At0(n, L - 2) = 0 /\ At0(n, L - 1) = n[1] /\ At0(n, L) = n[2]
      BY <2>1, <2>9 DEF At0
    <3>2. n[2] \in 0 .. 9
      <4>1. 2 \in 1 .. L
        BY <2>9
      <4> QED
        BY ONLY <2>1, <4>1, n \in Seq(0 .. 9), DigitsOf
    <3>3. ToInt(n) = 10 * n[1] + n[2]
      BY <2>6, <2>7, <3>1, <3>2
    <3>4. (base \o Digits[n[1] + 1]) \o Digits[n[2] + 1] = base \o ToString(10 * n[1] + n[2])
      BY <2>6, <3>2, CircledNames
    <3> QED
      BY <2>4, <2>5, <2>9, <3>3, <3>4
  <2> QED
    BY <2>3, <2>8, <2>9
<1> QED
  BY <1>4, <1>5

(* The kanji and daiji numerals of a number of 64 bits.                        *)
LEMMA KanjiBack ==
    ASSUME NEW n \in Seq(0 .. 9), Len(n) <= 20
    PROVE  /\ KanjiNumber(n, KanjiDigit, KanjiUnits, TRUE) # None
           /\ KanjiNumber(n, DaijiDigit, DaijiUnits, FALSE) # None
           /\ ReadKanji(KanjiNumber(n, KanjiDigit, KanjiUnits, TRUE), KanjiDigit, KanjiUnits)
                = GroupsOf(n)
           /\ ReadKanji(KanjiNumber(n, DaijiDigit, DaijiUnits, FALSE), DaijiDigit, DaijiUnits)
                = GroupsOf(n)
<1>1. /\ KanjiNumber(n, KanjiDigit, KanjiUnits, TRUE) \in Text
      /\ KanjiNumber(n, DaijiDigit, DaijiUnits, FALSE) \in Text
  BY DigitGlyphs, UnitGlyphs, KanjiTyped
<1>2. \A t \in Text : t # None
  BY NoneApart
<1>3. ReadKanji(KanjiNumber(n, KanjiDigit, KanjiUnits, TRUE), KanjiDigit, KanjiUnits) = GroupsOf(n)
  BY TablesLegible, KanjiReads
<1>4. ReadKanji(KanjiNumber(n, DaijiDigit, DaijiUnits, FALSE), DaijiDigit, DaijiUnits) = GroupsOf(n)
  BY TablesLegible, KanjiReads
<1> QED
  BY <1>1, <1>2, <1>3, <1>4

(* The scripts of the types of Roman numerals.                               *)
LEMMA ScriptIs ==
    ASSUME NEW run, NEW m, m = Number(run), NEW t \in DOMAIN Script
    PROVE  Script[t] \in RomanScript /\ \E unicode : Convert(run, t) = Roman(m, unicode, Script[t])
<1>1. DOMAIN Script = {"6", "7", "a", "b"}
  BY DEF Script
<1>2. CASE t = "6"
  <2>1. Script[t] = "unicode "
    BY Zenon, <1>1, <1>2 DEF Script
  <2> QED
    BY Zenon, <1>2, <2>1, ConvertIs DEF RomanScript
<1>3. CASE t = "7"
  <2>1. Script[t] = "unicode small "
    BY Zenon, <1>1, <1>3 DEF Script
  <2> QED
    BY Zenon, <1>3, <2>1, ConvertIs DEF RomanScript
<1>4. CASE t = "a"
  <2>1. Script[t] = ""
    BY Zenon, <1>1, <1>4 DEF Script
  <2> QED
    BY Zenon, <1>4, <2>1, ConvertIs DEF RomanScript
<1>5. CASE t = "b"
  <2>1. Script[t] = "small "
    BY Zenon, <1>1, <1>5 DEF Script
  <2>2. Convert(run, t) = Roman(m, FALSE, Script[t])
    BY Zenon, <1>5, <2>1, ConvertIs
  <2>3. Script[t] \in RomanScript
    BY Zenon, <2>1 DEF RomanScript
  <2> QED
    BY Zenon, <2>2, <2>3
<1> QED
  BY Zenon, <1>1, <1>2, <1>3, <1>4, <1>5

(* What the readers make of the numerals of a run, type by type.              *)
LEMMA RunBack ==
    ASSUME NEW run \in Seq(Digit), run # <<>>, NEW n, n = Significant(run)
    PROVE  /\ (Convert(run, "3") # None) = (~Exceeds(n, LargestNumber))
           /\ (Convert(run, "5") # None) = (~Exceeds(n, LargestNumber))
           /\ ~Exceeds(n, LargestNumber) =>
                 /\ ReadKanji(Convert(run, "3"), KanjiDigit, KanjiUnits) = GroupsOf(n)
                 /\ ReadKanji(Convert(run, "5"), DaijiDigit, DaijiUnits) = GroupsOf(n)
           /\ \A t \in DOMAIN Script :
                 /\ (Convert(run, t) # None) = Small(n, 3999)
                 /\ Convert(run, t) # None => ReadRoman(Convert(run, t), Script[t]) = ToInt(n)
           /\ (Convert(run, "c") # None) = Small(n, 50)
           /\ Convert(run, "c") # None => Convert(run, "c") = <<CircledBase \o ToString(ToInt(n))>>
<1> DEFINE fits == ~Exceeds(n, LargestNumber)
<1>1. PICK m : m = Number(run)
  OBVIOUS
<1>2. n \in Seq(0 .. 9) /\ n # None
  BY NumberIs
<1>3. (fits => m = n /\ Len(n) <= 20) /\ (~fits => m = None)
  BY <1>1, NumberIs
<1>4. PICK k, d, c : k = Convert(run, "3") /\ d = Convert(run, "5") /\ c = Convert(run, "c")
  OBVIOUS
<1>5. k = IF m = None THEN None ELSE KanjiNumber(m, KanjiDigit, KanjiUnits, TRUE)
  BY Zenon, <1>1, <1>4, ConvertIs
<1>6. d = IF m = None THEN None ELSE KanjiNumber(m, DaijiDigit, DaijiUnits, FALSE)
  BY Zenon, <1>1, <1>4, ConvertIs
<1>7. c = Circled(m)
  BY Zenon, <1>1, <1>4, ConvertIs
<1>8. fits => /\ k # None /\ ReadKanji(k, KanjiDigit, KanjiUnits) = GroupsOf(n)
              /\ d # None /\ ReadKanji(d, DaijiDigit, DaijiUnits) = GroupsOf(n)
  <2> SUFFICES ASSUME fits
               PROVE  /\ k # None /\ ReadKanji(k, KanjiDigit, KanjiUnits) = GroupsOf(n)
                      /\ d # None /\ ReadKanji(d, DaijiDigit, DaijiUnits) = GroupsOf(n)
    OBVIOUS
  <2>1. m = n /\ m # None /\ Len(n) <= 20
    BY <1>2, <1>3
  <2>2. /\ k = KanjiNumber(n, KanjiDigit, KanjiUnits, TRUE)
        /\ d = KanjiNumber(n, DaijiDigit, DaijiUnits, FALSE)
    BY <1>5, <1>6, <2>1
  <2> QED
    BY <1>2, <2>1, <2>2, KanjiBack
<1>9. ~fits => k = None /\ d = None
  BY <1>3, <1>5, <1>6
<1>10. m \in {None, n} /\ (m = n \/ \A largest : ~Small(n, largest))
  <2>1. ~fits => \A largest : ~Small(n, largest)
    BY <1>2, LargeNotSmall
  <2>2. fits \in BOOLEAN
    OBVIOUS
  <2> QED
    BY <1>3, <2>1, <2>2
<1>11. ASSUME NEW t \in DOMAIN Script
       PROVE  /\ (Convert(run, t) # None) = Small(n, 3999)
              /\ Convert(run, t) # None => ReadRoman(Convert(run, t), Script[t]) = ToInt(n)
  <2>1. PICK script, unicode : script = Script[t] /\ Convert(run, t) = Roman(m, unicode, script)
    BY <1>1, ScriptIs
  <2>2. script \in RomanScript
    BY <1>1, <2>1, ScriptIs
  <2>3. PICK x : x = Roman(m, unicode, script)
    OBVIOUS
  <2>4. (x # None <=> Small(n, 3999)) /\ (x # None => ReadRoman(x, script) = ToInt(n))
    BY <1>2, <1>10, <2>2, <2>3, RomanBack
  <2>5. Small(n, 3999) \in BOOLEAN
    BY DEF Small
  <2>6. (x # None) = Small(n, 3999)
    BY <2>4, <2>5
  <2> QED
    BY <2>1, <2>3, <2>4, <2>6
<1>12. (c # None <=> Small(n, 50)) /\ (c # None => c = <<CircledBase \o ToString(ToInt(n))>>)
  <2>1. n # <<>> => n[1] \in 1 .. 9
    BY SignificantFirst
  <2> QED
    BY <1>2, <1>7, <1>10, <2>1, CircledBack
<1>13. (c # None) = Small(n, 50)
  <2>1. Small(n, 50) \in BOOLEAN
    BY DEF Small
  <2> QED
    BY <1>12, <2>1
<1>14. (k # None) = fits /\ (d # None) = fits
  <2>1. fits \in BOOLEAN
    OBVIOUS
  <2> QED
    BY <1>8, <1>9, <2>1
<1> QED
  BY <1>4, <1>8, <1>11, <1>12, <1>13, <1>14

(* What the property says of one run.                                        *)
SaysAgain(run) ==
    LET n          == Significant(run)
        fits       == ~Exceeds(n, LargestNumber)
        Spelled(t) == Convert(run, t)
    IN  /\ (Spelled("3") # None) = fits /\ (Spelled("5") # None) = fits
        /\ fits => /\ ReadKanji(Spelled("3"), KanjiDigit, KanjiUnits) = GroupsOf(n)
                   /\ ReadKanji(Spelled("5"), DaijiDigit, DaijiUnits) = GroupsOf(n)
        /\ \A t \in DOMAIN Script :
              /\ (Spelled(t) # None) = Small(n, 3999)
              /\ Spelled(t) # None => ReadRoman(Spelled(t), Script[t]) = ToInt(n)
        /\ (Spelled("c") # None) = Small(n, 50)
        /\ Spelled("c") # None => Spelled("c") = <<CircledBase \o ToString(ToInt(n))>>

(* Every numeral of every number a reading can have says the number again.    *)
THEOREM NumeralsRead == Spec => []NumeralsReadBack
<1>1. ASSUME DictionaryInv PROVE NumeralsReadBack
  <2>1. reading \in Text
    BY <1>1 DEF DictionaryInv
  <2>2. ASSUME NEW k \in DOMAIN Runs(reading) PROVE SaysAgain(Runs(reading)[k])
    <3>1. PICK run : run = Runs(reading)[k]
      OBVIOUS
    <3>2. run \in Seq(Digit) /\ run # <<>>
      <4>1. Runs(reading) \in Seq(Seq(Digit)) /\ Runs(reading)[k] # <<>>
        BY <2>1, RunsAre
      <4> QED
        BY <3>1, <4>1
    <3>3. SaysAgain(run)
      <4>1. /\ (Convert(run, "3") # None) = (~Exceeds(Significant(run), LargestNumber))
            /\ (Convert(run, "5") # None) = (~Exceeds(Significant(run), LargestNumber))
            /\ ~Exceeds(Significant(run), LargestNumber) =>
                  /\ ReadKanji(Convert(run, "3"), KanjiDigit, KanjiUnits)
                       = GroupsOf(Significant(run))
                  /\ ReadKanji(Convert(run, "5"), DaijiDigit, DaijiUnits)
                       = GroupsOf(Significant(run))
            /\ \A t \in DOMAIN Script :
                  /\ (Convert(run, t) # None) = Small(Significant(run), 3999)
                  /\ Convert(run, t) # None =>
                        ReadRoman(Convert(run, t), Script[t]) = ToInt(Significant(run))
            /\ (Convert(run, "c") # None) = Small(Significant(run), 50)
            /\ Convert(run, "c") # None =>
                  Convert(run, "c") = <<CircledBase \o ToString(ToInt(Significant(run)))>>
        <5>1. PICK n : n = Significant(run)
          OBVIOUS
        <5>2. /\ (Convert(run, "3") # None) = (~Exceeds(n, LargestNumber))
              /\ (Convert(run, "5") # None) = (~Exceeds(n, LargestNumber))
              /\ ~Exceeds(n, LargestNumber) =>
                    /\ ReadKanji(Convert(run, "3"), KanjiDigit, KanjiUnits) = GroupsOf(n)
                    /\ ReadKanji(Convert(run, "5"), DaijiDigit, DaijiUnits) = GroupsOf(n)
              /\ \A t \in DOMAIN Script :
                    /\ (Convert(run, t) # None) = Small(n, 3999)
                    /\ Convert(run, t) # None => ReadRoman(Convert(run, t), Script[t]) = ToInt(n)
              /\ (Convert(run, "c") # None) = Small(n, 50)
              /\ Convert(run, "c") # None =>
                    Convert(run, "c") = <<CircledBase \o ToString(ToInt(n))>>
          BY <3>2, <5>1, RunBack
        <5> QED
          BY <5>1, <5>2
      <4> QED
        BY Zenon, <4>1 DEF SaysAgain
    <3> QED
      BY <3>1, <3>3
  <2>3. \A k \in DOMAIN Runs(reading) : SaysAgain(Runs(reading)[k])
    BY <2>2
  <2> QED
    BY Zenon, <2>3 DEF NumeralsReadBack, SaysAgain, CircledBase
<1> QED
  BY <1>1, DictionaryInvariant, PTL
===============================================================================
