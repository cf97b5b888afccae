------------------------------ MODULE ListLemmas ------------------------------
(***************************************************************************)
(* Lemmas about sequences: induction, what Among keeps, what FlattenSeq      *)
(* joins.                                                                  *)
(***************************************************************************)
EXTENDS Lists, FiniteSetTheorems, WellFoundedInduction, TLAPS

(* ---- induction, appending ---- *)

(* A set of numbers up to N that holds 0 and every successor holds them all.  *)
LEMMA UpTo ==
    ASSUME NEW N \in Nat, NEW S, 0 \in S, \A n \in 0 .. N - 1 : n \in S => n + 1 \in S
    PROVE  \A n \in 0 .. N : n \in S
<1> DEFINE missing == (0 .. N) \ S
           less == OpToRel(<, Nat)
<1> SUFFICES ASSUME missing # {} PROVE FALSE
  OBVIOUS
<1>1. missing \subseteq Nat /\ missing # {}
  OBVIOUS
<1>2. PICK n \in missing : \A m \in missing : ~(<<m, n>> \in less)
  <2> HIDE DEF missing, less
  <2>1. IsWellFoundedOn(less, Nat)
    BY NatLessThanWellFounded DEF less
  <2> QED
    BY <1>1, <2>1, WFMin
<1>3. n \in 0 .. N /\ n \notin S /\ n # 0
  BY <1>2
<1>4. n - 1 \notin missing
  <2>1. n - 1 \in Nat /\ n \in Nat /\ n - 1 < n
    BY <1>3
  <2>2. <<n - 1, n>> \in less
    BY <2>1 DEF OpToRel
  <2> QED
    BY <1>2, <2>2
<1> QED
  BY <1>3, <1>4

(* Places that rise are not before their number.                             *)
LEMMA Rising ==
    ASSUME NEW L \in Nat, NEW n \in Nat, NEW p \in [1 .. L -> 1 .. n],
           \A i, j \in 1 .. L : i < j => p[i] < p[j]
    PROVE  \A i \in 1 .. L : i <= p[i]
<1> DEFINE S == {i \in 0 .. L : i # 0 => i <= p[i]}
<1>1. 0 \in S
  OBVIOUS
<1>2. ASSUME NEW i \in 0 .. L - 1, i \in S PROVE i + 1 \in S
  <2>1. i + 1 \in 1 .. L /\ p[i + 1] \in 1 .. n /\ i + 1 \in 0 .. L
    OBVIOUS
  <2>2. CASE i = 0
    BY <2>1, <2>2
  <2>3. CASE i # 0
    <3>1. i \in 1 .. L /\ i < i + 1 /\ p[i] \in 1 .. n
      BY <2>3
    <3>2. p[i] < p[i + 1] /\ i <= p[i]
      BY <1>2, <2>1, <2>3, <3>1
    <3> QED
      BY <2>1, <3>1, <3>2
  <2> QED
    BY <2>2, <2>3
<1>3. \A i \in 0 .. L : i \in S
  <2> HIDE DEF S
  <2> QED
    BY <1>1, <1>2, UpTo
<1>4. \A i \in 1 .. L : i \in 0 .. L /\ i # 0
  OBVIOUS
<1> QED
  BY <1>3, <1>4

(* A set that holds the empty sequence, and with a sequence every longer by  *)
(* one, holds all sequences.                                               *)
LEMMA Longer ==
    ASSUME NEW T, NEW S, <<>> \in S, \A s \in Seq(T) : \A x \in T : s \in S => Append(s, x) \in S
    PROVE  \A s \in Seq(T) : s \in S
<1> SUFFICES ASSUME NEW s \in Seq(T) PROVE s \in S
  OBVIOUS
<1> DEFINE L == Len(s)
           P == {n \in 0 .. L : SubSeq(s, 1, n) \in S}
<1>1. L \in Nat /\ SubSeq(s, 1, 0) = <<>> /\ SubSeq(s, 1, L) = s
  OBVIOUS
<1>2. 0 \in P
  <2> HIDE DEF L
  <2>1. 0 \in 0 .. L
    BY <1>1
  <2>2. SubSeq(s, 1, 0) \in S
    BY <1>1
  <2> QED
    BY <2>1, <2>2
<1>3. ASSUME NEW n \in 0 .. L - 1, n \in P PROVE n + 1 \in P
  <2>1. n \in Nat /\ n + 1 \in 0 .. L /\ s[n + 1] \in T /\ SubSeq(s, 1, n) \in Seq(T)
    OBVIOUS
  <2>2. SubSeq(s, 1, n + 1) = Append(SubSeq(s, 1, n), s[n + 1])
    BY <2>1
  <2> QED
    BY <1>3, <2>1, <2>2
<1>4. L \in P
  <2> HIDE DEF P, L
  <2>1. \A n \in 0 .. L : n \in P
    BY <1>1, <1>2, <1>3, UpTo
  <2> QED
    BY <1>1, <2>1
<1> QED
  BY <1>1, <1>4

(* A function on 1 .. N is a sequence of its values.                        *)
LEMMA IsSeq ==
    ASSUME NEW T, NEW N \in Nat, NEW f, f = [i \in 1 .. N |-> f[i]], \A i \in 1 .. N : f[i] \in T
    PROVE  f \in Seq(T)
  OBVIOUS

(* Joining and appending.                                                   *)
LEMMA AppendJoin ==
    ASSUME NEW T, NEW a \in Seq(T), NEW b \in Seq(T), NEW x \in T
    PROVE  a \o Append(b, x) = Append(a \o b, x)
<1>1. /\ Append(b, x) \in Seq(T) /\ a \o b \in Seq(T)
      /\ Len(Append(b, x)) = Len(b) + 1 /\ Len(a) \in Nat /\ Len(b) \in Nat
  OBVIOUS
<1> QED
  BY <1>1

(* A sequence and one member more, as a function.                           *)
LEMMA AppendIs ==
    ASSUME NEW T, NEW s \in Seq(T), NEW x \in T
    PROVE  Append(s, x) = [i \in 1 .. Len(s) + 1 |-> IF i = Len(s) + 1 THEN x ELSE s[i]]
<1> DEFINE L == Len(s)
           t == Append(s, x)
<1>1. L \in Nat /\ t \in Seq(T) /\ Len(t) = L + 1 /\ t[L + 1] = x /\ \A i \in 1 .. L : t[i] = s[i]
  OBVIOUS
<1> HIDE DEF t, L
<1>2. t = [i \in 1 .. L + 1 |-> t[i]]
  BY <1>1
<1>3. \A i \in 1 .. L + 1 : t[i] = IF i = L + 1 THEN x ELSE s[i]
  BY <1>1
<1>4. t = [i \in 1 .. L + 1 |-> IF i = L + 1 THEN x ELSE s[i]]
  BY <1>2, <1>3, Zenon
<1> QED
  BY <1>4 DEF t, L

(* The members of a finite set in some order.                               *)
LEMMA SetToSeqTyped ==
    ASSUME NEW S, IsFiniteSet(S)
    PROVE  SetToSeq(S) \in Seq(S)
<1>1. Cardinality(S) \in Nat /\ ExistsBijection(1 .. Cardinality(S), S)
  BY FS_CardinalityType
<1>2. PICK f \in [1 .. Cardinality(S) -> S] : IsInjective(f)
  BY <1>1 DEF ExistsBijection, Bijection, Injection
<1>3. SetToSeq(S) \in [1 .. Cardinality(S) -> S]
  BY <1>2 DEF SetToSeq
<1> QED
  BY <1>1, <1>3

(* The members of a finite set, each once.                                  *)
LEMMA SetToSeqOnce ==
    ASSUME NEW S, IsFiniteSet(S)
    PROVE  /\ SetToSeq(S) \in Seq(S)
           /\ \A o \in S : \E i \in DOMAIN SetToSeq(S) : SetToSeq(S)[i] = o
           /\ \A i, j \in DOMAIN SetToSeq(S) : SetToSeq(S)[i] = SetToSeq(S)[j] => i = j
<1> DEFINE N == Cardinality(S)
           D == 1 .. N
<1>1. N \in Nat /\ ExistsBijection(D, S)
  BY FS_CardinalityType
<1>2. PICK g \in [D -> S] : IsInjective(g)
  BY <1>1 DEF ExistsBijection, Bijection, Injection
<1>3. PICK f : f = SetToSeq(S)
  OBVIOUS
<1>4. f \in [D -> S] /\ IsInjective(f)
  BY <1>2, <1>3 DEF SetToSeq
<1>5. \A i, j \in D : f[i] = f[j] => i = j
  BY <1>4 DEF IsInjective
<1>6. f \in Injection(D, S)
  BY <1>4, <1>5 DEF Injection
<1>7. IsFiniteSet(D) /\ Cardinality(D) = N
  BY <1>1, FS_Interval
<1>8. f \in Surjection(D, S)
  BY <1>6, <1>7, FS_Injection
<1>9. f \in Seq(S) /\ DOMAIN f = D
  BY <1>1, <1>4
<1>10. \A o \in S : \E i \in D : f[i] = o
  BY <1>8 DEF Surjection
<1> QED
  BY <1>3, <1>5, <1>9, <1>10

(* Some natural numbers have a least one among them, and Min is it.           *)
LEMMA LeastMember ==
    ASSUME NEW S, S \subseteq Nat, S # {}
    PROVE  \E x \in S : \A y \in S : x <= y
<1> DEFINE less == OpToRel(<, Nat)
<1>1. PICK x \in S : \A y \in S : ~(<<y, x>> \in less)
  <2> HIDE DEF less
  <2>1. IsWellFoundedOn(less, Nat)
    BY NatLessThanWellFounded DEF less
  <2> QED
    BY <2>1, WFMin
<1>2. ASSUME NEW y \in S PROVE x <= y
  <2>1. x \in Nat /\ y \in Nat /\ ~(<<y, x>> \in less)
    BY <1>1
  <2>2. y < x => <<y, x>> \in less
    BY <2>1 DEF OpToRel
  <2> HIDE DEF less
  <2> QED
    BY <2>1, <2>2
<1> QED
  BY <1>2

(* It is one of them.                                                       *)
LEMMA MinIsMember == ASSUME NEW S, S \subseteq Nat, S # {} PROVE Min(S) \in S
  BY LeastMember DEF Min

(* ---- members kept ---- *)

(* What has been kept after each place of s: the recursion of Among.        *)
Keep(a, x, set) == IF x \in set THEN Append(a, x) ELSE a
Kept(f, s, set, N) ==
    f = [n \in 0 .. N |-> IF n = 0 THEN <<>> ELSE Keep(f[n - 1], s[n], set)]

(* It exists, whatever the sequence.                                        *)
LEMMA KeptExists == ASSUME NEW s, NEW set, NEW N \in Nat PROVE \E f : Kept(f, s, set, N)
<1> DEFINE S == {n \in 0 .. N : \E f : Kept(f, s, set, n)}
<1>1. 0 \in S
  <2> DEFINE f == [i \in 0 .. 0 |-> <<>>]
  <2>1. Kept(f, s, set, 0)
    BY DEF Kept
  <2> QED
    BY <2>1
<1>2. ASSUME NEW n \in 0 .. N - 1, n \in S PROVE n + 1 \in S
  <2>1. PICK f : Kept(f, s, set, n)
    BY <1>2
  <2> DEFINE g == [i \in 0 .. n + 1 |-> IF i = 0 THEN <<>> ELSE Keep(f[i - 1], s[i], set)]
  <2>2. \A i \in 0 .. n : g[i] = f[i]
    BY <2>1 DEF Kept
  <2>3. \A i \in 0 .. n + 1 : i # 0 => g[i - 1] = f[i - 1]
    <3> HIDE DEF g
    <3>1. \A i \in 0 .. n + 1 : i # 0 => i - 1 \in 0 .. n
      OBVIOUS
    <3> QED
      BY <2>2, <3>1
  <2>4. Kept(g, s, set, n + 1)
    BY <2>3 DEF Kept
  <2> QED
    BY <2>4
<1>3. \A n \in 0 .. N : n \in S
  <2> HIDE DEF S
  <2> QED
    BY <1>1, <1>2, UpTo
<1> QED
  BY <1>3

(* Among is the last value of that recursion.                               *)
LEMMA AmongIsKept ==
    ASSUME NEW s, Len(s) \in Nat, NEW set
    PROVE  \E f : Kept(f, s, set, Len(s)) /\ Among(s, set) = f[Len(s)]
<1> DEFINE kept == CHOOSE f : Kept(f, s, set, Len(s))
<1>1. Among(s, set) = kept[Len(s)]
  BY DEF Among, Kept, Keep
<1>2. Kept(kept, s, set, Len(s))
  BY KeptExists
<1> QED
  BY <1>1, <1>2

(* The places of s[1 .. n] whose members are in a set, in order: f names     *)
(* them one after the other, and a are the members there.                   *)
Places(f, a, s, set, n) ==
    /\ f \in [1 .. Len(a) -> 1 .. n]
    /\ \A i, j \in 1 .. Len(a) : i < j => f[i] < f[j]
    /\ \A i \in 1 .. Len(a) : a[i] = s[f[i]] /\ a[i] \in set
    /\ \A m \in 1 .. n : s[m] \in set => \E i \in 1 .. Len(a) : f[i] = m

(* Among keeps the members in the set, each once and in their order.        *)
LEMMA AmongPlaces ==
    ASSUME NEW T, NEW s \in Seq(T), NEW set
    PROVE  Among(s, set) \in Seq(T) /\ \E f : Places(f, Among(s, set), s, set, Len(s))
<1> DEFINE N == Len(s)
<1>1. N \in Nat
  OBVIOUS
<1>2. PICK kept : Kept(kept, s, set, N) /\ Among(s, set) = kept[N]
  BY <1>1, AmongIsKept
<1> DEFINE S == {n \in 0 .. N : kept[n] \in Seq(T) /\ \E f : Places(f, kept[n], s, set, n)}
<1>3. /\ kept[0] = <<>>
      /\ \A n \in 0 .. N - 1 : kept[n + 1] = Keep(kept[n], s[n + 1], set)
  <2> HIDE DEF N
  <2> QED
    BY <1>1, <1>2 DEF Kept
<1>4. 0 \in S
  <2> DEFINE f == [i \in 1 .. 0 |-> 1]
  <2>1. Places(f, <<>>, s, set, 0)
    BY DEF Places
  <2>2. <<>> \in Seq(T) /\ \E h : Places(h, <<>>, s, set, 0)
    BY <2>1
  <2> HIDE DEF N
  <2>3. kept[0] \in Seq(T) /\ \E h : Places(h, kept[0], s, set, 0)
    BY <1>3, <2>2
  <2>4. 0 \in 0 .. N
    BY <1>1
  <2> QED
    BY <2>3, <2>4
<1>5. ASSUME NEW n \in 0 .. N - 1, n \in S PROVE n + 1 \in S
  <2>1. PICK f : kept[n] \in Seq(T) /\ Places(f, kept[n], s, set, n)
    BY <1>5
  <2>2. s[n + 1] \in T /\ n + 1 \in 0 .. N
    OBVIOUS
  <2>3. CASE s[n + 1] \in set
    <3> DEFINE a == kept[n]
               L == Len(a)
               b == Append(a, s[n + 1])
               g == [i \in 1 .. L + 1 |-> IF i = L + 1 THEN n + 1 ELSE f[i]]
    <3>1. /\ b \in Seq(T) /\ L \in Nat /\ Len(b) = L + 1 /\ b[L + 1] = s[n + 1]
          /\ \A i \in 1 .. L : b[i] = a[i]
      BY <2>1, <2>2
    <3>2. \A i \in 1 .. L : f[i] \in 1 .. n
      BY <2>1 DEF Places
    <3>3. g \in [1 .. L + 1 -> 1 .. n + 1] /\ g[L + 1] = n + 1 /\ \A i \in 1 .. L : g[i] = f[i]
      <4> HIDE DEF L
      <4> QED
        BY <3>1, <3>2
    <3> HIDE DEF a, b, g, L
    <3>4. Places(f, a, s, set, n)
      BY <2>1 DEF a
    <3>5. \A i, j \in 1 .. L + 1 : i < j => g[i] < g[j]
      <4> SUFFICES ASSUME NEW i \in 1 .. L + 1, NEW j \in 1 .. L + 1, i < j PROVE g[i] < g[j]
        OBVIOUS
      <4>1. CASE j = L + 1
        BY <3>1, <3>2, <3>3, <4>1
      <4>2. CASE j # L + 1
        <5>1. i \in 1 .. L /\ j \in 1 .. L
          BY <3>1, <4>2
        <5> QED
          BY <3>3, <3>4, <5>1 DEF Places, L
      <4> QED
        BY <4>1, <4>2
    <3>6. \A i \in 1 .. L + 1 : b[i] = s[g[i]] /\ b[i] \in set
      <4> SUFFICES ASSUME NEW i \in 1 .. L + 1 PROVE b[i] = s[g[i]] /\ b[i] \in set
        OBVIOUS
      <4>1. CASE i = L + 1
        BY <2>3, <3>1, <3>3, <4>1
      <4>2. CASE i # L + 1
        <5>1. i \in 1 .. L
          BY <3>1, <4>2
        <5>2. a[i] = s[f[i]] /\ a[i] \in set
          BY <3>4, <5>1 DEF Places, L
        <5> QED
          BY <3>1, <3>3, <5>1, <5>2
      <4> QED
        BY <4>1, <4>2
    <3>7. \A m \in 1 .. n + 1 : s[m] \in set => \E i \in 1 .. L + 1 : g[i] = m
      <4> SUFFICES ASSUME NEW m \in 1 .. n + 1, s[m] \in set PROVE \E i \in 1 .. L + 1 : g[i] = m
        OBVIOUS
      <4>1. CASE m = n + 1
        BY <3>1, <3>3, <4>1
      <4>2. CASE m # n + 1
        <5>1. PICK i \in 1 .. L : f[i] = m
          BY <3>4, <4>2 DEF Places, L
        <5> QED
          BY <3>1, <3>3, <5>1
      <4> QED
        BY <4>1, <4>2
    <3>8. Places(g, b, s, set, n + 1)
      BY <3>1, <3>3, <3>5, <3>6, <3>7 DEF Places
    <3> QED
      BY <1>3, <2>2, <2>3, <3>1, <3>8 DEF a, b, Keep
  <2>4. CASE s[n + 1] \notin set
    <3>1. kept[n + 1] = kept[n]
      BY <1>3, <2>4 DEF Keep
    <3>2. Places(f, kept[n], s, set, n + 1)
      BY <2>1, <2>4 DEF Places
    <3> QED
      BY <2>1, <2>2, <3>1, <3>2
  <2> QED
    BY <2>3, <2>4
<1>6. N \in S
  <2> HIDE DEF S, N
  <2>1. \A n \in 0 .. N : n \in S
    BY <1>1, <1>4, <1>5, UpTo
  <2> QED
    BY <1>1, <2>1
<1> QED
  BY <1>2, <1>6

(* So a member of the result is one of s in the set, and the other way round. *)
LEMMA AmongMembers ==
    ASSUME NEW T, NEW s \in Seq(T), NEW set
    PROVE  ToSet(Among(s, set)) = ToSet(s) \cap set
<1> DEFINE a == Among(s, set)
<1>1. PICK f : a \in Seq(T) /\ Places(f, a, s, set, Len(s))
  BY AmongPlaces
<1> HIDE DEF a
<1>2. ASSUME NEW i \in DOMAIN a PROVE a[i] \in ToSet(s) \cap set
  BY <1>1 DEF Places, ToSet
<1>3. ASSUME NEW m \in DOMAIN s, s[m] \in set PROVE s[m] \in ToSet(a)
  <2>1. PICK i \in 1 .. Len(a) : f[i] = m
    BY <1>1, <1>3 DEF Places
  <2>2. a[i] = s[m] /\ i \in DOMAIN a
    BY <1>1, <2>1 DEF Places
  <2> QED
    BY <2>2 DEF ToSet
<1>4. ToSet(a) = ToSet(s) \cap set
  BY <1>2, <1>3 DEF ToSet
<1> QED
  BY <1>4 DEF a

(* The first member of s that is in the set comes first.                    *)
LEMMA AmongFirst ==
    ASSUME NEW T, NEW s \in Seq(T), s # <<>>, NEW set, s[1] \in set
    PROVE  Among(s, set) # <<>> /\ Among(s, set)[1] = s[1]
<1> DEFINE a == Among(s, set)
<1>1. PICK f : a \in Seq(T) /\ Places(f, a, s, set, Len(s))
  BY AmongPlaces
<1> HIDE DEF a
<1>2. PICK i \in 1 .. Len(a) : f[i] = 1
  BY <1>1 DEF Places
<1>3. Len(a) \in Nat /\ 1 \in 1 .. Len(a) /\ a # <<>>
  BY <1>1, <1>2
<1>4. i = 1
  BY <1>1, <1>2, <1>3 DEF Places
<1>5. a[1] = s[1]
  BY <1>1, <1>2, <1>3, <1>4 DEF Places
<1> QED
  BY <1>3, <1>5 DEF a

(* Among, one member at a time.                                             *)
LEMMA AmongFront ==
    ASSUME NEW T, NEW s \in Seq(T), NEW set
    PROVE  /\ s = <<>> => Among(s, set) = <<>>
           /\ s # <<>> => Among(s, set) = Keep(Among(Front(s), set), Last(s), set)
<1>1. Len(s) \in Nat
  OBVIOUS
<1>2. PICK kept : Kept(kept, s, set, Len(s)) /\ Among(s, set) = kept[Len(s)]
  BY <1>1, AmongIsKept
<1>3. CASE s = <<>>
  BY <1>2, <1>3 DEF Kept
<1>4. CASE s # <<>>
  <2> DEFINE N == Len(s) - 1
  <2>1. N \in Nat /\ Len(s) = N + 1
    BY <1>4
  <2>2. Front(s) \in Seq(T) /\ Len(Front(s)) = N /\ \A n \in 1 .. N : Front(s)[n] = s[n]
    BY <2>1 DEF Front
  <2> HIDE DEF N
  <2>3. PICK before : Kept(before, Front(s), set, N) /\ Among(Front(s), set) = before[N]
    BY <2>1, <2>2, AmongIsKept
  <2> DEFINE S == {n \in 0 .. N : before[n] = kept[n]}
  <2>4. \A n \in 0 .. N : before[n] = IF n = 0 THEN <<>>
                                        ELSE Keep(before[n - 1], Front(s)[n], set)
    BY <2>3 DEF Kept
  <2>5. 0 \in S
    BY <1>2, <2>1, <2>3 DEF Kept
  <2>6. ASSUME NEW n \in 0 .. N - 1, n \in S PROVE n + 1 \in S
    <3>1. n + 1 \in 1 .. N /\ n + 1 \in 0 .. N /\ n + 1 \in 0 .. N + 1 /\ (n + 1) - 1 = n
      BY <2>1
    <3>2. before[n + 1] = Keep(before[n], Front(s)[n + 1], set)
      BY <2>1, <2>4, <3>1
    <3>3. kept[n + 1] = Keep(kept[n], s[n + 1], set)
      BY <1>2, <2>1, <3>1 DEF Kept
    <3> QED
      BY <2>2, <2>6, <3>1, <3>2, <3>3
  <2>7. before[N] = kept[N]
    <3> HIDE DEF S
    <3>1. \A n \in 0 .. N : n \in S
      BY <2>1, <2>5, <2>6, UpTo
    <3> QED
      BY <2>1, <3>1 DEF S
  <2>8. kept[N + 1] = Keep(kept[N], s[N + 1], set)
    BY <1>2, <2>1 DEF Kept
  <2> QED
    BY <1>2, <2>1, <2>3, <2>7, <2>8 DEF Last
<1> QED
  BY <1>3, <1>4

(* Among, one member after the other.                                       *)
LEMMA AmongStep ==
    ASSUME NEW T, NEW s \in Seq(T), NEW x \in T, NEW set
    PROVE  /\ Among(<<>>, set) = <<>>
           /\ Among(Append(s, x), set) = Keep(Among(s, set), x, set)
<1>1. /\ Append(s, x) \in Seq(T) /\ Append(s, x) # <<>> /\ <<>> \in Seq(T)
      /\ Front(Append(s, x)) = s /\ Last(Append(s, x)) = x
  BY DEF Front, Last
<1> QED
  BY <1>1, AmongFront

(* Only the members of the sequence matter.                                 *)
LEMMA AmongAgree ==
    ASSUME NEW T, NEW s \in Seq(T), NEW a, NEW b, \A x \in T : x \in a <=> x \in b
    PROVE  Among(s, a) = Among(s, b)
<1> DEFINE S == {t \in Seq(T) : Among(t, a) = Among(t, b)}
<1>1. <<>> \in S
  <2>1. Len(<<>>) \in Nat /\ <<>> \in Seq(T)
    OBVIOUS
  <2>2. Among(<<>>, a) = <<>> /\ Among(<<>>, b) = <<>>
    BY <2>1, AmongFront
  <2> QED
    BY <2>1, <2>2
<1>2. ASSUME NEW t \in Seq(T), NEW x \in T, t \in S PROVE Append(t, x) \in S
  <2>1. Among(Append(t, x), a) = Keep(Among(t, a), x, a)
    BY AmongStep
  <2>2. Among(Append(t, x), b) = Keep(Among(t, b), x, b)
    BY AmongStep
  <2>3. Append(t, x) \in Seq(T)
    OBVIOUS
  <2>4. Among(Append(t, x), a) = Among(Append(t, x), b)
    BY <1>2, <2>1, <2>2 DEF Keep
  <2> QED
    BY <2>3, <2>4
<1> HIDE DEF S
<1>3. s \in S
  BY <1>1, <1>2, Longer
<1> QED
  BY <1>3 DEF S

(* What is left when one value is taken out.                                *)
LEMMA WithoutTyped ==
    ASSUME NEW T, NEW s \in Seq(T), NEW x
    PROVE  /\ Without(s, x) \in Seq(T)
           /\ ToSet(Without(s, x)) = ToSet(s) \ {x}
           /\ s # <<>> /\ s[1] # x => Without(s, x) # <<>> /\ Without(s, x)[1] = s[1]
           /\ s = <<>> => Without(s, x) = <<>>
<1>1. Without(s, x) \in Seq(T)
  BY AmongPlaces DEF Without
<1>2. ToSet(Without(s, x)) = ToSet(s) \cap (ToSet(s) \ {x})
  BY AmongMembers DEF Without
<1>3. s # <<>> /\ s[1] # x => s[1] \in ToSet(s) \ {x}
  BY DEF ToSet
<1>4. s # <<>> /\ s[1] # x => Without(s, x) # <<>> /\ Without(s, x)[1] = s[1]
  BY <1>3, AmongFirst DEF Without
<1>5. s = <<>> => Without(s, x) = <<>>
  <2> DEFINE left == Without(s, x)
  <2>1. s = <<>> => ToSet(left) = {}
    BY <1>2 DEF ToSet
  <2>2. left \in Seq(T) /\ (left # <<>> => left[1] \in ToSet(left))
    BY <1>1 DEF ToSet
  <2> QED
    BY <2>1, <2>2
<1> QED
  BY <1>1, <1>2, <1>4, <1>5

(* Without, one member after the other.                                     *)
LEMMA WithoutStep ==
    ASSUME NEW T, NEW s \in Seq(T), NEW x \in T, NEW y
    PROVE  /\ Without(<<>>, y) = <<>>
           /\ Without(Append(s, x), y) = IF x = y THEN Without(s, y) ELSE Append(Without(s, y), x)
<1>1. ASSUME NEW t \in Seq(T) PROVE Without(t, y) = Among(t, T \ {y})
  <2>1. /\ DOMAIN t = 1 .. Len(t) /\ Len(t) \in Nat /\ t = [i \in 1 .. Len(t) |-> t[i]]
        /\ \A i \in DOMAIN t : t[i] \in ToSet(t) /\ t[i] \in T
    BY DEF ToSet
  <2>2. t \in Seq(ToSet(t))
    BY <2>1, IsSeq
  <2>3. \A z \in ToSet(t) : z \in ToSet(t) \ {y} <=> z \in T \ {y}
    BY <2>1 DEF ToSet
  <2> QED
    BY <2>2, <2>3, AmongAgree DEF Without
<1>2. <<>> \in Seq(T) /\ Append(s, x) \in Seq(T)
  OBVIOUS
<1>3. Without(Append(s, x), y) = Keep(Among(s, T \ {y}), x, T \ {y})
  BY <1>1, <1>2, AmongStep
<1>4. Without(<<>>, y) = <<>>
  BY <1>1, <1>2, AmongFront
<1> QED
  BY <1>1, <1>3, <1>4 DEF Keep

(* All of a list are among themselves.                                       *)
LEMMA AmongAll ==
    ASSUME NEW T, NEW s \in Seq(T), NEW set, \A i \in 1 .. Len(s) : s[i] \in set
    PROVE  Among(s, set) = s
<1> DEFINE S == {t \in Seq(T \cap set) : Among(t, set) = t}
           U == T \cap set
<1>1. s \in Seq(U)
  <2>1. s = [i \in 1 .. Len(s) |-> s[i]] /\ Len(s) \in Nat /\ \A i \in 1 .. Len(s) : s[i] \in T
    OBVIOUS
  <2>2. \A i \in 1 .. Len(s) : s[i] \in U
    BY <2>1
  <2> HIDE DEF U
  <2> QED
    BY <2>1, <2>2, IsSeq
<1>2. <<>> \in S
  <2>1. <<>> \in Seq(U) /\ <<>> \in Seq(T)
    OBVIOUS
  <2>2. Among(<<>>, set) = <<>>
    BY <2>1, AmongFront
  <2> QED
    BY <2>1, <2>2
<1>3. ASSUME NEW t \in Seq(U), NEW x \in U, t \in S PROVE Append(t, x) \in S
  <2>1. Append(t, x) \in Seq(U) /\ x \in set /\ Among(t, set) = t
    BY <1>3
  <2> HIDE DEF U
  <2>2. Among(Append(t, x), set) = Keep(Among(t, set), x, set)
    BY <1>3, AmongStep
  <2> QED
    BY <2>1, <2>2 DEF Keep, U
<1>4. s \in S
  <2> HIDE DEF S, U
  <2>1. \A t \in Seq(U) : \A x \in U : t \in S => Append(t, x) \in S
    BY <1>3
  <2>2. \A t \in Seq(U) : t \in S
    BY <1>2, <2>1, Longer
  <2> QED
    BY <1>1, <2>2
<1> QED
  BY <1>4

(* A list without the member stays as it is.                                *)
LEMMA WithoutNone ==
    ASSUME NEW T, NEW s \in Seq(T), NEW x, x \notin ToSet(s)
    PROVE  Without(s, x) = s
<1>1. \A i \in 1 .. Len(s) : s[i] \in ToSet(s)
  BY DEF ToSet
<1>2. PICK set : set = ToSet(s) \ {x}
  OBVIOUS
<1>3. \A i \in 1 .. Len(s) : s[i] \in set
  BY <1>1, <1>2
<1>4. Among(s, set) = s
  BY <1>3, AmongAll
<1> QED
  BY <1>2, <1>4 DEF Without

(* ---- sequences joined ---- *)

(* The recursion of FlattenSeq.                                             *)
Followed(a, b) == a \o b
Flat(f, seqs, N) == f = [i \in 1 .. N |-> IF i = 1 THEN seqs[i] ELSE Followed(f[i - 1], seqs[i])]

(* It exists, whatever the sequences.                                       *)
LEMMA FlatExists == ASSUME NEW seqs, NEW N \in Nat PROVE \E f : Flat(f, seqs, N)
<1> DEFINE S == {n \in 0 .. N : \E f : Flat(f, seqs, n)}
<1>1. 0 \in S
  <2> DEFINE f == [i \in 1 .. 0 |-> <<>>]
  <2>1. Flat(f, seqs, 0)
    BY DEF Flat
  <2> QED
    BY <2>1
<1>2. ASSUME NEW n \in 0 .. N - 1, n \in S PROVE n + 1 \in S
  <2>1. PICK f : Flat(f, seqs, n)
    BY <1>2
  <2> DEFINE g == [i \in 1 .. n + 1 |-> IF i = 1 THEN seqs[i] ELSE Followed(f[i - 1], seqs[i])]
  <2>2. \A i \in 1 .. n : g[i] = f[i]
    BY <2>1 DEF Flat
  <2>3. \A i \in 1 .. n + 1 : i # 1 => g[i - 1] = f[i - 1]
    <3> HIDE DEF g
    <3>1. \A i \in 1 .. n + 1 : i # 1 => i - 1 \in 1 .. n
      OBVIOUS
    <3> QED
      BY <2>2, <3>1
  <2>4. Flat(g, seqs, n + 1)
    BY <2>3 DEF Flat
  <2> QED
    BY <2>4
<1>3. \A n \in 0 .. N : n \in S
  <2> HIDE DEF S
  <2> QED
    BY <1>1, <1>2, UpTo
<1> QED
  BY <1>3

(* Joining sequences over a set gives a sequence over it.                   *)
LEMMA FlattenTyped ==
    ASSUME NEW T, NEW seqs \in Seq(Seq(T))
    PROVE  FlattenSeq(seqs) \in Seq(T)
<1> DEFINE N == Len(seqs)
           flatten == CHOOSE f : Flat(f, seqs, N)
<1>1. N \in Nat /\ \A i \in 1 .. N : seqs[i] \in Seq(T)
  OBVIOUS
<1>2. FlattenSeq(seqs) = IF N = 0 THEN seqs ELSE flatten[N]
  BY DEF FlattenSeq, Flat, Followed
<1>3. Flat(flatten, seqs, N)
  BY <1>1, FlatExists
<1> HIDE DEF flatten
<1>4. CASE N = 0
  BY <1>2, <1>4
<1>5. CASE N # 0
  <2> DEFINE S == {n \in 0 .. N : n = 0 \/ flatten[n] \in Seq(T)}
  <2>1. \A n \in 1 .. N : flatten[n] = IF n = 1 THEN seqs[n] ELSE flatten[n - 1] \o seqs[n]
    <3> HIDE DEF N
    <3> QED
      BY <1>1, <1>3 DEF Flat, Followed
  <2> HIDE DEF N
  <2>2. 0 \in S
    BY <1>1
  <2>3. ASSUME NEW n \in 0 .. N - 1, n \in S PROVE n + 1 \in S
    <3>1. n + 1 \in 1 .. N /\ (n + 1) - 1 = n /\ (n # 0 => flatten[n] \in Seq(T))
      BY <1>1, <2>3
    <3>2. flatten[n + 1] = IF n + 1 = 1 THEN seqs[n + 1] ELSE flatten[n] \o seqs[n + 1]
      BY <2>1, <3>1
    <3>3. flatten[n + 1] \in Seq(T)
      BY <1>1, <3>1, <3>2
    <3> QED
      BY <1>1, <3>1, <3>3
  <2>4. \A n \in 0 .. N : n \in S
    <3> HIDE DEF S
    <3> QED
      BY <1>1, <2>2, <2>3, UpTo
  <2> QED
    BY <1>1, <1>2, <1>5, <2>4
<1> QED
  BY <1>4, <1>5

(* FlattenSeq, one sequence after the other.                                *)
LEMMA FlattenStep ==
    /\ FlattenSeq(<<>>) = <<>>
    /\ \A T : \A seqs \in Seq(Seq(T)) : \A s \in Seq(T) :
          FlattenSeq(Append(seqs, s)) = FlattenSeq(seqs) \o s
<1>1. FlattenSeq(<<>>) = <<>>
  BY DEF FlattenSeq
<1>2. ASSUME NEW T, NEW seqs \in Seq(Seq(T)), NEW s \in Seq(T)
      PROVE  FlattenSeq(Append(seqs, s)) = FlattenSeq(seqs) \o s
  <2> DEFINE N == Len(seqs)
             more == Append(seqs, s)
             f == CHOOSE h : Flat(h, seqs, N)
             g == CHOOSE h : Flat(h, more, N + 1)
  <2>1. /\ N \in Nat /\ Len(more) = N + 1 /\ more[N + 1] = s /\ more \in Seq(Seq(T))
        /\ \A i \in 1 .. N : more[i] = seqs[i] /\ seqs[i] \in Seq(T)
    OBVIOUS
  <2>2. FlattenSeq(seqs) = IF N = 0 THEN seqs ELSE f[N]
    BY DEF FlattenSeq, Flat, Followed
  <2>3. FlattenSeq(more) = g[N + 1]
    <3> HIDE DEF N, more
    <3>1. FlattenSeq(more) = IF Len(more) = 0 THEN more
                             ELSE (CHOOSE h : Flat(h, more, Len(more)))[Len(more)]
      BY DEF FlattenSeq, Flat, Followed
    <3> QED
      BY <2>1, <3>1
  <2> HIDE DEF more
  <2>4. Flat(f, seqs, N) /\ Flat(g, more, N + 1)
    <3>1. \E h : Flat(h, seqs, N)
      BY <2>1, FlatExists
    <3>2. \E h : Flat(h, more, N + 1)
      <4> DEFINE M == N + 1
      <4>1. M \in Nat
        BY <2>1
      <4> HIDE DEF M
      <4>2. \E h : Flat(h, more, M)
        BY <4>1, FlatExists
      <4> QED
        BY <4>2 DEF M
    <3> QED
      BY <3>1, <3>2
  <2> HIDE DEF f, g, N
  <2>5. \A n \in 1 .. N : f[n] = IF n = 1 THEN seqs[n] ELSE Followed(f[n - 1], seqs[n])
    BY <2>4 DEF Flat
  <2>6. \A n \in 1 .. N + 1 : g[n] = IF n = 1 THEN more[n] ELSE Followed(g[n - 1], more[n])
    BY <2>4 DEF Flat
  <2> DEFINE S == {n \in 0 .. N : n = 0 \/ f[n] = g[n]}
  <2>7. 0 \in S
    BY <2>1
  <2>8. ASSUME NEW n \in 0 .. N - 1, n \in S PROVE n + 1 \in S
    <3>1. /\ n + 1 \in 1 .. N /\ n + 1 \in 1 .. N + 1 /\ (n + 1) - 1 = n
          /\ n \in Nat /\ n + 1 \in 0 .. N
      BY <2>1
    <3>2. f[n + 1] = IF n = 0 THEN seqs[n + 1] ELSE Followed(f[n], seqs[n + 1])
      BY <2>5, <3>1
    <3>3. g[n + 1] = IF n = 0 THEN more[n + 1] ELSE Followed(g[n], more[n + 1])
      BY <2>6, <3>1
    <3>4. f[n + 1] = g[n + 1]
      BY <2>1, <2>8, <3>1, <3>2, <3>3
    <3> QED
      BY <3>1, <3>4
  <2>9. N # 0 => f[N] = g[N]
    <3> HIDE DEF S
    <3>1. \A n \in 0 .. N : n \in S
      BY <2>1, <2>7, <2>8, UpTo
    <3> QED
      BY <2>1, <3>1 DEF S
  <2>10. g[N + 1] = IF N = 0 THEN s ELSE Followed(g[N], s)
    BY <2>1, <2>6
  <2>11. CASE N = 0
    <3>1. seqs = <<>> /\ seqs \o s = s
      BY <2>11 DEF N
    <3> QED
      BY <2>2, <2>3, <2>10, <2>11, <3>1 DEF more
  <2>12. CASE N # 0
    BY <2>2, <2>3, <2>9, <2>10, <2>12 DEF Followed, more
  <2> QED
    BY <2>11, <2>12
<1> QED
  BY <1>1, <1>2
=============================================================================
