---------------------------- MODULE UserDictSafety ----------------------------
(***************************************************************************)
(* Proofs about the user dictionary: the types, that it is the one the      *)
(* configuration names, and that the word last chosen is offered first; that *)
(* with its file it implements WordStore: a file reads back as it was        *)
(* written, learning and purging change one entry, and nothing is lost from  *)
(* a file but what was purged.                                             *)
(***************************************************************************)
EXTENDS UserDictProperties, ListLemmas

(* ---- the entries ---- *)

(* The candidates of a headword, one list for each okurigana it has.        *)
BucketSet == UNION {[O -> Cands] : O \in SUBSET Seq(Glyph)}

(* Entries of the keys K: headwords that differ, each with finitely many     *)
(* okurigana.                                                              *)
Finite(buckets, midashi, K) ==
    /\ buckets \in BucketSet /\ IsFiniteSet(DOMAIN buckets)
    /\ \A o \in DOMAIN buckets : <<midashi, o>> \in K
Heads(K) ==
    {h \in [midashi : Text, buckets : BucketSet] : Finite(h.buckets, h.midashi, K)}
Distinct(entries) ==
    \A i, j \in DOMAIN entries : entries[i].midashi = entries[j].midashi => i = j
EntriesOK(entries, K) == entries \in Seq(Heads(K)) /\ Distinct(entries)

(* What it is to be such a map.                                             *)
LEMMA BucketMaps ==
    /\ \A b \in BucketSet : /\ b = [o \in DOMAIN b |-> b[o]] /\ DOMAIN b \subseteq Seq(Glyph)
                            /\ \A o \in DOMAIN b : b[o] \in Cands
    /\ <<>> \in BucketSet /\ DOMAIN <<>> = {}
    /\ \A b \in BucketSet : \A o : [p \in DOMAIN b \ {o} |-> b[p]] \in BucketSet
<1>1. ASSUME NEW b \in BucketSet
      PROVE  /\ b = [o \in DOMAIN b |-> b[o]] /\ DOMAIN b \subseteq Seq(Glyph)
             /\ \A o \in DOMAIN b : b[o] \in Cands
  BY DEF BucketSet
<1>2. ASSUME NEW O, O \subseteq Seq(Glyph), NEW b \in [O -> Cands] PROVE b \in BucketSet
  <2>1. [O -> Cands] \in {[P -> Cands] : P \in SUBSET Seq(Glyph)}
    BY <1>2
  <2> QED
    BY <1>2, <2>1 DEF BucketSet
<1>3. <<>> \in BucketSet /\ DOMAIN <<>> = {}
  <2>1. <<>> \in [{} -> Cands]
    OBVIOUS
  <2> QED
    BY <1>2, <2>1
<1>4. ASSUME NEW b \in BucketSet, NEW o PROVE [p \in DOMAIN b \ {o} |-> b[p]] \in BucketSet
  <2>1. /\ DOMAIN b \ {o} \subseteq Seq(Glyph)
        /\ [p \in DOMAIN b \ {o} |-> b[p]] \in [DOMAIN b \ {o} -> Cands]
    BY <1>1
  <2> QED
    BY <1>2, <2>1
<1> QED
  BY <1>1, <1>3, <1>4

(* Put adds one okurigana, or replaces its candidates.                      *)
LEMMA PutTyped ==
    ASSUME NEW b \in BucketSet, NEW o \in Seq(Glyph), NEW cands \in Cands
    PROVE  /\ Put(b, o, cands) \in BucketSet
           /\ DOMAIN Put(b, o, cands) = DOMAIN b \cup {o}
           /\ \A p \in DOMAIN b \cup {o} : Put(b, o, cands)[p] = IF p = o THEN cands ELSE b[p]
<1> DEFINE O == DOMAIN b \cup {o}
<1>1. /\ DOMAIN b \subseteq Seq(Glyph) /\ \A p \in DOMAIN b : b[p] \in Cands
  BY BucketMaps
<1>2. Put(b, o, cands) = [p \in O |-> IF p = o THEN cands ELSE b[p]]
  BY DEF Put
<1>3. O \in SUBSET Seq(Glyph) /\ \A p \in O : (IF p = o THEN cands ELSE b[p]) \in Cands
  BY <1>1
<1> HIDE DEF O
<1>4. Put(b, o, cands) \in [O -> Cands]
  BY <1>2, <1>3
<1>5. Put(b, o, cands) \in BucketSet
  BY <1>3, <1>4 DEF BucketSet
<1> QED
  BY <1>2, <1>5 DEF O

(* Index finds the place of a headword, and only that.                      *)
LEMMA IndexFinds ==
    ASSUME NEW K, NEW entries, EntriesOK(entries, K), NEW midashi
    PROVE  /\ Index(entries, midashi) \in 0 .. Len(entries)
           /\ Index(entries, midashi) # 0
                 => entries[Index(entries, midashi)].midashi = midashi
           /\ Index(entries, midashi) = 0 => \A h \in ToSet(entries) : h.midashi # midashi
<1> DEFINE I == {i \in 1 .. Len(entries) : entries[i].midashi = midashi}
<1>1. Index(entries, midashi) = IF I # {} THEN Min(I) ELSE 0
  BY DEF Index, SelectInSeq
<1>2. I \subseteq 1 .. Len(entries) /\ \A i \in I : entries[i].midashi = midashi
  OBVIOUS
<1>3. I = {} => \A h \in ToSet(entries) : h.midashi # midashi
  BY DEF ToSet, EntriesOK
<1>4. Len(entries) \in Nat
  BY DEF EntriesOK
<1> HIDE DEF I
<1>5. I # {} => Min(I) \in I
  <2>1. I \subseteq Nat
    BY <1>2, <1>4
  <2> QED
    BY <2>1, MinIsMember
<1>6. \A i \in I : i \in 0 .. Len(entries) /\ i # 0 /\ entries[i].midashi = midashi
  BY <1>2, <1>4
<1>7. 0 \in 0 .. Len(entries)
  BY <1>4
<1> HIDE DEF Index
<1>8. CASE I = {}
  BY <1>1, <1>3, <1>7, <1>8
<1>9. CASE I # {}
  BY <1>1, <1>5, <1>6, <1>9
<1> QED
  BY <1>8, <1>9

(* So the buckets of a headword are those of the one entry with its name.   *)
LEMMA BucketsFound ==
    ASSUME NEW K, NEW entries, EntriesOK(entries, K), NEW midashi
    PROVE  /\ \A h \in ToSet(entries) :
                  h.midashi = midashi => Buckets(entries, midashi) = h.buckets
           /\ (\A h \in ToSet(entries) : h.midashi # midashi)
                  => Buckets(entries, midashi) = <<>>
           /\ Finite(Buckets(entries, midashi), midashi, K)
<1> DEFINE i == Index(entries, midashi)
<1>1. /\ i \in 0 .. Len(entries) /\ (i # 0 => entries[i].midashi = midashi)
      /\ i = 0 => \A h \in ToSet(entries) : h.midashi # midashi
  BY IndexFinds
<1>2. Buckets(entries, midashi) = IF i = 0 THEN <<>> ELSE entries[i].buckets
  BY DEF Buckets
<1> HIDE DEF i
<1>3. CASE i = 0
  <2>1. Finite(<<>>, midashi, K)
    BY BucketMaps, FS_EmptySet DEF Finite
  <2> QED
    BY <1>1, <1>2, <1>3, <2>1
<1>4. CASE i # 0
  <2>1. i \in DOMAIN entries /\ entries[i] \in Heads(K) /\ entries[i] \in ToSet(entries)
    BY <1>1, <1>4 DEF EntriesOK, ToSet
  <2>2. \A h \in ToSet(entries) : h.midashi = midashi => h = entries[i]
    BY <1>1, <1>4, <2>1 DEF EntriesOK, Distinct, ToSet
  <2>3. Finite(entries[i].buckets, midashi, K)
    BY <1>1, <1>4, <2>1 DEF Heads
  <2> QED
    BY <1>1, <1>2, <1>4, <2>1, <2>2, <2>3
<1> QED
  BY <1>3, <1>4

(* Lists with the same entries for a headword have the same buckets for it.  *)
LEMMA SameBuckets ==
    ASSUME NEW K, NEW old, EntriesOK(old, K), NEW new, EntriesOK(new, K), NEW midashi,
           \A h : h.midashi = midashi => (h \in ToSet(old) <=> h \in ToSet(new))
    PROVE  Buckets(new, midashi) = Buckets(old, midashi)
<1>1. CASE \E h \in ToSet(old) : h.midashi = midashi
  BY <1>1, BucketsFound
<1>2. CASE \A h \in ToSet(old) : h.midashi # midashi
  <2>1. \A h \in ToSet(new) : h.midashi # midashi
    BY <1>2
  <2> QED
    BY <1>2, <2>1, BucketsFound
<1> QED
  BY <1>1, <1>2

(* What lookup answers is a list of candidates.                             *)
LEMMA LookupTyped ==
    ASSUME NEW K, NEW entries, EntriesOK(entries, K), NEW midashi, NEW okuri
    PROVE  Lookup(entries, midashi, okuri) \in Cands
<1>1. Finite(Buckets(entries, midashi), midashi, K)
  BY BucketsFound
<1>2. <<>> \in Cands
  BY DEF Cands
<1> QED
  BY <1>1, <1>2, BucketMaps DEF Lookup, Finite

(* Removing a headword keeps the others, each once.                         *)
LEMMA DroppedOK ==
    ASSUME NEW K, NEW entries, EntriesOK(entries, K), NEW midashi
    PROVE  /\ EntriesOK(Dropped(entries, midashi), K)
           /\ ToSet(Dropped(entries, midashi)) = {h \in ToSet(entries) : h.midashi # midashi}
<1> DEFINE others == {h \in ToSet(entries) : h.midashi # midashi}
           left == Among(entries, others)
<1>1. Dropped(entries, midashi) = left
  BY DEF Dropped
<1>2. entries \in Seq(Heads(K)) /\ Distinct(entries)
  BY DEF EntriesOK
<1>3. ToSet(left) = others
  <2>1. ToSet(left) = ToSet(entries) \cap others
    BY <1>2, AmongMembers
  <2> QED
    BY <2>1
<1> HIDE DEF others
<1>4. PICK f : left \in Seq(Heads(K)) /\ Places(f, left, entries, others, Len(entries))
  BY <1>2, AmongPlaces
<1> HIDE DEF left
<1>5. Distinct(left)
  <2> SUFFICES ASSUME NEW i \in DOMAIN left, NEW j \in DOMAIN left,
                      left[i].midashi = left[j].midashi
               PROVE  i = j
    BY DEF Distinct
  <2>1. /\ i \in 1 .. Len(left) /\ j \in 1 .. Len(left) /\ Len(left) \in Nat
        /\ Len(entries) \in Nat
    BY <1>2, <1>4
  <2>2. /\ f[i] \in 1 .. Len(entries) /\ f[j] \in 1 .. Len(entries)
        /\ left[i] = entries[f[i]] /\ left[j] = entries[f[j]]
    BY <1>4, <2>1 DEF Places
  <2>3. f[i] = f[j]
    BY <1>2, <2>1, <2>2 DEF Distinct
  <2>4. ~(i < j) /\ ~(j < i)
    BY <1>4, <2>1, <2>2, <2>3 DEF Places
  <2> QED
    BY <2>1, <2>4
<1> QED
  BY <1>1, <1>3, <1>4, <1>5 DEF EntriesOK, others

(* ---- one headword changes ---- *)

(* The candidates a bucket holds, none if there is no such bucket.          *)
In(buckets, okuri) == IF okuri \in DOMAIN buckets THEN buckets[okuri] ELSE <<>>

(* Setting the candidates of one okurigana changes no other.                *)
LEMMA PutOK ==
    ASSUME NEW K, NEW midashi, NEW buckets, Finite(buckets, midashi, K),
           NEW okuri \in Seq(Glyph), <<midashi, okuri>> \in K, NEW cands \in Cands
    PROVE  /\ Finite(Put(buckets, okuri, cands), midashi, K)
           /\ \A o : In(Put(buckets, okuri, cands), o)
                       = IF o = okuri THEN cands ELSE In(buckets, o)
<1> DEFINE after == Put(buckets, okuri, cands)
<1>1. /\ buckets \in BucketSet /\ IsFiniteSet(DOMAIN buckets)
      /\ \A o \in DOMAIN buckets : <<midashi, o>> \in K
  BY DEF Finite
<1>2. /\ after \in BucketSet /\ DOMAIN after = DOMAIN buckets \cup {okuri}
      /\ \A p \in DOMAIN buckets \cup {okuri} :
             after[p] = IF p = okuri THEN cands ELSE buckets[p]
  <2>1. Put(buckets, okuri, cands) \in BucketSet
    BY <1>1, PutTyped
  <2>2. DOMAIN Put(buckets, okuri, cands) = DOMAIN buckets \cup {okuri}
    BY DEF Put
  <2>3. \A p \in DOMAIN buckets \cup {okuri} :
           Put(buckets, okuri, cands)[p] = IF p = okuri THEN cands ELSE buckets[p]
    BY DEF Put
  <2> QED
    BY <2>1, <2>2, <2>3
<1> HIDE DEF after
<1>3. IsFiniteSet(DOMAIN after)
  BY <1>1, <1>2, FS_AddElement
<1>4. Finite(after, midashi, K) /\ \A o : In(after, o) = IF o = okuri THEN cands ELSE In(buckets, o)
  BY <1>1, <1>2, <1>3 DEF Finite, In
<1> QED
  BY <1>4 DEF after

(* The entries with a new headword at the end, or with other candidates for  *)
(* one of them.                                                            *)
Added(entries, midashi, buckets) ==
    Append(entries, [midashi |-> midashi, buckets |-> buckets])
Replaced(entries, i, buckets) == [entries EXCEPT ![i].buckets = buckets]

(* A new headword is added at the end and changes no other.                 *)
LEMMA AppendedOK ==
    ASSUME NEW K, NEW entries, EntriesOK(entries, K), NEW midashi \in Text,
           \A h \in ToSet(entries) : h.midashi # midashi,
           NEW buckets, Finite(buckets, midashi, K),
           NEW new, new = Added(entries, midashi, buckets)
    PROVE  /\ EntriesOK(new, K)
           /\ \A m : Buckets(new, m) = IF m = midashi THEN buckets ELSE Buckets(entries, m)
<1> DEFINE head == [midashi |-> midashi, buckets |-> buckets]
           L == Len(entries)
<1>1. entries \in Seq(Heads(K)) /\ Distinct(entries) /\ L \in Nat /\ DOMAIN entries = 1 .. L
  BY DEF EntriesOK
<1>2. head \in Heads(K) /\ head.midashi = midashi /\ head.buckets = buckets
  BY DEF Heads, Finite
<1> HIDE DEF head
<1>3. new = Append(entries, head)
  BY DEF head, Added
<1>4. /\ new \in Seq(Heads(K)) /\ DOMAIN new = 1 .. L + 1 /\ new[L + 1] = head
      /\ \A i \in 1 .. L : new[i] = entries[i]
  BY <1>1, <1>2, <1>3
<1> HIDE DEF L
<1>5. ToSet(new) = ToSet(entries) \cup {head}
  <2>1. ASSUME NEW i \in DOMAIN new PROVE new[i] \in ToSet(entries) \cup {head}
    BY <1>1, <1>4 DEF ToSet
  <2>2. ASSUME NEW i \in DOMAIN entries PROVE entries[i] \in ToSet(new)
    BY <1>1, <1>4 DEF ToSet
  <2>3. head \in ToSet(new)
    BY <1>1, <1>4 DEF ToSet
  <2> QED
    BY <2>1, <2>2, <2>3 DEF ToSet
<1>6. Distinct(new)
  <2>1. \A i \in 1 .. L : entries[i].midashi # midashi
    BY <1>1 DEF ToSet
  <2> QED
    BY <1>1, <1>2, <1>4, <2>1 DEF Distinct
<1>7. EntriesOK(new, K)
  BY <1>4, <1>6 DEF EntriesOK
<1>8. Buckets(new, midashi) = buckets
  BY <1>2, <1>5, <1>7, BucketsFound
<1>9. ASSUME NEW m, m # midashi PROVE Buckets(new, m) = Buckets(entries, m)
  <2>1. \A h : h.midashi = m => (h \in ToSet(entries) <=> h \in ToSet(new))
    BY <1>2, <1>5, <1>9
  <2> QED
    BY <1>7, <2>1, SameBuckets
<1> QED
  BY <1>7, <1>8, <1>9

(* Replacing the buckets of one headword changes no other.                  *)
LEMMA ReplacedOK ==
    ASSUME NEW K, NEW entries, EntriesOK(entries, K), NEW i \in DOMAIN entries,
           NEW midashi, entries[i].midashi = midashi,
           NEW buckets, Finite(buckets, midashi, K),
           NEW new, new = Replaced(entries, i, buckets)
    PROVE  /\ EntriesOK(new, K)
           /\ \A m : Buckets(new, m) = IF m = midashi THEN buckets ELSE Buckets(entries, m)
<1> DEFINE head == [entries[i] EXCEPT !.buckets = buckets]
<1>1. entries \in Seq(Heads(K)) /\ Distinct(entries) /\ entries[i] \in Heads(K)
  BY DEF EntriesOK
<1>2. head \in Heads(K) /\ head.midashi = entries[i].midashi /\ head.buckets = buckets
  BY <1>1 DEF Heads, Finite
<1>3. /\ DOMAIN new = DOMAIN entries /\ new[i] = head
      /\ \A j \in DOMAIN entries : j # i => new[j] = entries[j]
  BY <1>1 DEF Replaced
<1> HIDE DEF head
<1>4. new \in Seq(Heads(K))
  <2>1. new = [entries EXCEPT ![i] = head]
    BY <1>1 DEF head, Replaced
  <2> QED
    BY <1>1, <1>2, <2>1
<1>5. \A j \in DOMAIN entries : new[j].midashi = entries[j].midashi
  BY <1>2, <1>3
<1>6. EntriesOK(new, K)
  BY <1>1, <1>3, <1>4, <1>5 DEF EntriesOK, Distinct
<1>7. head \in ToSet(new)
  BY <1>3 DEF ToSet
<1>8. ASSUME NEW m, m # midashi PROVE Buckets(new, m) = Buckets(entries, m)
  <2>1. ASSUME NEW h, h.midashi = m, h \in ToSet(entries) PROVE h \in ToSet(new)
    <3>1. PICK j \in DOMAIN entries : h = entries[j]
      BY <2>1 DEF ToSet
    <3>2. j # i
      BY <1>8, <2>1, <3>1
    <3> QED
      BY <1>3, <3>1, <3>2 DEF ToSet
  <2>2. ASSUME NEW h, h.midashi = m, h \in ToSet(new) PROVE h \in ToSet(entries)
    <3>1. PICK j \in DOMAIN entries : h = new[j]
      BY <1>3, <2>2 DEF ToSet
    <3>2. j # i
      BY <1>2, <1>3, <1>8, <2>2, <3>1
    <3> QED
      BY <1>3, <3>1, <3>2 DEF ToSet
  <2>3. \A h : h.midashi = m => (h \in ToSet(entries) <=> h \in ToSet(new))
    BY <2>1, <2>2
  <2> QED
    BY <1>6, <2>3, SameBuckets
<1>9. Buckets(new, midashi) = buckets
  BY <1>2, <1>6, <1>7, BucketsFound
<1> QED
  BY <1>6, <1>8, <1>9

(* ---- learning and purging ---- *)

(* A list of candidates offers a word before all others and hides it nowhere. *)
Leads(cands, w) ==
    /\ cands # <<>> /\ cands[1] = Plain(w)
    /\ \A c \in ToSet(cands) : c.directive => w \notin ToSet(c.words)

(* The words of entries, and the keys they are for.                         *)
LEMMA EntryTyped ==
    ASSUME NEW e \in Entry
    PROVE  /\ e.midashi \in Text /\ e.okuri \in Seq(Glyph) /\ e.word \in Words /\ e.word \in Word
           /\ Plain(e.word) \in Candidate
  BY DictAssumption DEF DictAssumption, Words, Plain, Candidate

(* What learning makes of the candidates of an entry: the word leads.       *)
LEMMA UnhiddenOK ==
    ASSUME NEW cands \in Cands, NEW w \in Words
    PROVE  /\ Unhidden(Promoted(cands, w), w) \in Cands
           /\ Leads(Unhidden(Promoted(cands, w), w), w)
<1> DEFINE first == Promoted(cands, w)
           left == [i \in DOMAIN first |->
                      IF first[i].directive
                      THEN Directive(Without(first[i].words, w)) ELSE first[i]]
           shown == {c \in ToSet(left) : c.words # <<>>}
<1>1. Plain(w) \in Candidate
  BY DEF Plain, Candidate
<1>2. first \in Seq(Candidate) /\ first # <<>> /\ first[1] = Plain(w)
  <2> DEFINE rest == Without(cands, Plain(w))
  <2>1. rest \in Seq(Candidate)
    BY WithoutTyped DEF Cands, Candidate
  <2> HIDE DEF rest
  <2>2. first = <<Plain(w)>> \o rest
    BY DEF Promoted, rest
  <2> HIDE DEF first
  <2> QED
    BY <1>1, <2>1, <2>2
<1> HIDE DEF first
<1>3. ASSUME NEW i \in DOMAIN first
      PROVE  left[i] \in Candidate /\ (left[i].directive => w \notin ToSet(left[i].words))
  <2>1. first[i] \in Candidate
    BY <1>2
  <2>2. CASE first[i].directive
    <3> DEFINE ws == Without(first[i].words, w)
    <3>1. ws \in Seq(Words) /\ ToSet(ws) = ToSet(first[i].words) \ {w}
      BY <2>1, WithoutTyped DEF Candidate
    <3>2. left[i] = Directive(ws)
      BY <2>2
    <3> HIDE DEF ws, left
    <3> QED
      BY <3>1, <3>2 DEF Directive, Candidate
  <2>3. CASE ~first[i].directive
    BY <2>1, <2>3
  <2> QED
    BY <2>2, <2>3
<1>4. left \in Seq(Candidate) /\ left # <<>> /\ DOMAIN left = DOMAIN first
  BY <1>2, <1>3
<1>5. left[1] = Plain(w)
  BY <1>2 DEF Plain
<1>6. Unhidden(first, w) = Among(left, shown)
  BY DEF Unhidden
<1>7. \A c \in ToSet(left) : c.directive => w \notin ToSet(c.words)
  <2> HIDE DEF left
  <2> QED
    BY <1>3, <1>4 DEF ToSet
<1> HIDE DEF left
<1>8. left[1] \in shown
  <2>1. left[1] \in ToSet(left)
    BY <1>4 DEF ToSet
  <2>2. left[1].words # <<>>
    BY <1>5 DEF Plain
  <2> QED
    BY <2>1, <2>2
<1> HIDE DEF shown
<1>9. /\ Among(left, shown) \in Seq(Candidate) /\ Among(left, shown) # <<>>
      /\ Among(left, shown)[1] = Plain(w)
      /\ ToSet(Among(left, shown)) \subseteq ToSet(left)
  BY <1>4, <1>5, <1>8, AmongPlaces, AmongFirst, AmongMembers
<1> QED
  BY <1>6, <1>7, <1>9 DEF Leads, Cands, Candidate, first

(* The candidates of an entry after a word of it was learned.               *)
Relearned(entries, e) ==
    Unhidden(Promoted(Lookup(entries, e.midashi, e.okuri), e.word), e.word)

(* Learning gives the entry its new candidates, and every other entry keeps  *)
(* its own.                                                                *)
LEMMA LearnedOK ==
    ASSUME NEW K, NEW entries, EntriesOK(entries, K), NEW e \in Entry,
           <<e.midashi, e.okuri>> \in K
    PROVE  /\ EntriesOK(Learned(entries, e), K)
           /\ \A m, o : Lookup(Learned(entries, e), m, o)
                          = IF m = e.midashi /\ o = e.okuri THEN Relearned(entries, e)
                            ELSE Lookup(entries, m, o)
<1>0. PICK okuri, midashi : okuri = e.okuri /\ midashi = e.midashi
  OBVIOUS
<1> DEFINE cands == Relearned(entries, e)
           before == Buckets(entries, midashi)
           after == Put(before, okuri, cands)
           rest == Dropped(entries, midashi)
           new == Added(rest, midashi, after)
<1>1. Learned(entries, e) = new
  BY <1>0 DEF Learned, Relearned, Added
<1>2. \A m, o : Lookup(new, m, o) = In(Buckets(new, m), o)
  BY DEF Lookup, In
<1>3. \A m, o : Lookup(entries, m, o) = In(Buckets(entries, m), o)
  BY DEF Lookup, In
<1>4. EntriesOK(rest, K) /\ ToSet(rest) = {h \in ToSet(entries) : h.midashi # midashi}
  BY DroppedOK
<1>5. cands \in Cands /\ midashi \in Text /\ okuri \in Seq(Glyph)
  BY <1>0, LookupTyped, UnhiddenOK, EntryTyped DEF Relearned
<1>6. Finite(before, midashi, K)
  BY BucketsFound
<1> HIDE DEF cands, before, rest
<1>7. /\ Finite(after, midashi, K)
      /\ \A o : In(after, o) = IF o = okuri THEN cands ELSE In(before, o)
  BY <1>0, <1>5, <1>6, PutOK
<1> HIDE DEF after, new
<1>8. /\ EntriesOK(new, K)
      /\ \A m : Buckets(new, m) = IF m = midashi THEN after ELSE Buckets(rest, m)
  <2>1. \A h \in ToSet(rest) : h.midashi # midashi
    BY <1>4
  <2>2. new = Added(rest, midashi, after)
    BY DEF new
  <2> QED
    BY <1>4, <1>5, <1>7, <2>1, <2>2, AppendedOK
<1>9. ASSUME NEW m, m # midashi PROVE Buckets(rest, m) = Buckets(entries, m)
  <2>1. \A h : h.midashi = m => (h \in ToSet(entries) <=> h \in ToSet(rest))
    BY <1>4, <1>9
  <2> QED
    BY <1>4, <2>1, SameBuckets
<1>10. ASSUME NEW m, NEW o
       PROVE  Lookup(new, m, o) = IF m = midashi /\ o = okuri THEN cands
                                  ELSE Lookup(entries, m, o)
  <2>1. CASE m = midashi
    <3>1. In(Buckets(entries, m), o) = In(before, o)
      BY <2>1 DEF before
    <3> QED
      BY <1>2, <1>3, <1>7, <1>8, <2>1, <3>1
  <2>2. CASE m # midashi
    BY <1>2, <1>3, <1>8, <1>9, <2>2
  <2> QED
    BY <2>1, <2>2
<1> QED
  BY <1>0, <1>1, <1>8, <1>10 DEF cands

(* The buckets of a headword after a purge, whether or not one disappears.  *)
Remaining(buckets, okuri, cands) ==
    IF cands # <<>> THEN Put(buckets, okuri, cands)
    ELSE [o \in DOMAIN buckets \ {okuri} |-> buckets[o]]

(* Either way only the candidates of that okurigana are others.             *)
LEMMA RemainingOK ==
    ASSUME NEW K, NEW midashi, NEW buckets, Finite(buckets, midashi, K),
           NEW okuri \in Seq(Glyph), <<midashi, okuri>> \in K, NEW cands \in Cands
    PROVE  /\ Finite(Remaining(buckets, okuri, cands), midashi, K)
           /\ \A o : In(Remaining(buckets, okuri, cands), o)
                       = IF o = okuri THEN cands ELSE In(buckets, o)
<1>1. CASE cands # <<>>
  <2>1. Remaining(buckets, okuri, cands) = Put(buckets, okuri, cands)
    BY <1>1 DEF Remaining
  <2> QED
    BY <2>1, PutOK
<1>2. CASE cands = <<>>
  <2> DEFINE after == [o \in DOMAIN buckets \ {okuri} |-> buckets[o]]
  <2>1. /\ buckets \in BucketSet /\ IsFiniteSet(DOMAIN buckets)
        /\ \A o \in DOMAIN buckets : <<midashi, o>> \in K
    BY DEF Finite
  <2>2. after \in BucketSet
    BY <2>1, BucketMaps
  <2>3. /\ DOMAIN after = DOMAIN buckets \ {okuri}
        /\ \A p \in DOMAIN buckets \ {okuri} : after[p] = buckets[p]
    OBVIOUS
  <2>4. Remaining(buckets, okuri, cands) = after
    BY <1>2 DEF Remaining
  <2> HIDE DEF after
  <2>5. IsFiniteSet(DOMAIN after)
    BY <2>1, <2>3, FS_RemoveElement
  <2> QED
    BY <1>2, <2>1, <2>2, <2>3, <2>4, <2>5 DEF Finite, In
<1> QED
  BY <1>1, <1>2

(* Purging takes one word from one entry, even when the entry or its        *)
(* headword disappears with it.                                             *)
LEMMA PurgedOK ==
    ASSUME NEW K, NEW entries, EntriesOK(entries, K), NEW e \in Entry,
           <<e.midashi, e.okuri>> \in K
    PROVE  /\ EntriesOK(Purged(entries, e), K)
           /\ \A m, o : Lookup(Purged(entries, e), m, o)
                          = IF m = e.midashi /\ o = e.okuri
                            THEN Without(Lookup(entries, m, o), Plain(e.word))
                            ELSE Lookup(entries, m, o)
<1>0. PICK okuri, midashi : okuri = e.okuri /\ midashi = e.midashi
  OBVIOUS
<1> DEFINE i == Index(entries, midashi)
           buckets == Buckets(entries, midashi)
           found == Lookup(entries, midashi, okuri)
           cands == Without(found, Plain(e.word))
           left == Remaining(buckets, okuri, cands)
           new == Purged(entries, e)
<1>1. new = IF okuri \notin DOMAIN buckets THEN entries
            ELSE IF DOMAIN left = {} THEN Dropped(entries, midashi)
            ELSE [entries EXCEPT ![i].buckets = left]
  BY <1>0 DEF Purged, Remaining
<1>2. \A m, o : Lookup(new, m, o) = In(Buckets(new, m), o)
  BY DEF Lookup, In
<1>3. \A m, o : Lookup(entries, m, o) = In(Buckets(entries, m), o)
  BY DEF Lookup, In
<1>4. Finite(buckets, midashi, K)
  BY BucketsFound
<1>5. cands \in Cands /\ (found = <<>> => cands = <<>>)
  <2>1. found \in Cands
    BY LookupTyped
  <2> HIDE DEF found
  <2> QED
    BY <2>1, WithoutTyped DEF Cands
<1> HIDE DEF cands, new, left
<1>6. /\ Finite(left, midashi, K)
      /\ \A o : In(left, o) = IF o = okuri THEN cands ELSE In(buckets, o)
  BY <1>0, <1>4, <1>5, RemainingOK, EntryTyped DEF left
<1>7. /\ EntriesOK(new, K)
      /\ \A m : m # midashi => Buckets(new, m) = Buckets(entries, m)
      /\ \A o : In(Buckets(new, midashi), o) = IF o = okuri THEN cands ELSE In(buckets, o)
  <2>1. CASE okuri \notin DOMAIN buckets
    <3>1. new = entries
      BY <1>1, <2>1
    <3>2. In(buckets, okuri) = <<>> /\ found = In(buckets, okuri)
      BY <1>3, <2>1 DEF In
    <3> QED
      BY <1>5, <3>1, <3>2
  <2>2. CASE okuri \in DOMAIN buckets /\ DOMAIN left = {}
    <3>1. new = Dropped(entries, midashi)
      BY <1>1, <2>2
    <3>2. EntriesOK(new, K) /\ ToSet(new) = {h \in ToSet(entries) : h.midashi # midashi}
      BY <3>1, DroppedOK
    <3>3. Buckets(new, midashi) = <<>>
      BY <3>2, BucketsFound
    <3>4. \A o : In(Buckets(new, midashi), o) = In(left, o)
      BY <2>2, <3>3 DEF In
    <3>5. ASSUME NEW m, m # midashi PROVE Buckets(new, m) = Buckets(entries, m)
      <4>1. \A h : h.midashi = m => (h \in ToSet(entries) <=> h \in ToSet(new))
        BY <3>2, <3>5
      <4> QED
        BY <3>2, <4>1, SameBuckets
    <3> QED
      BY <1>6, <3>2, <3>4, <3>5
  <2>3. CASE okuri \in DOMAIN buckets /\ DOMAIN left # {}
    <3>1. i \in DOMAIN entries /\ entries[i].midashi = midashi
      <4>1. /\ i \in 0 .. Len(entries) /\ (i # 0 => entries[i].midashi = midashi)
            /\ i = 0 => buckets = <<>>
        BY IndexFinds DEF Buckets
      <4>2. DOMAIN entries = 1 .. Len(entries) /\ Len(entries) \in Nat
        BY DEF EntriesOK
      <4> HIDE DEF i, buckets
      <4> QED
        BY <2>3, <4>1, <4>2
    <3>2. new = Replaced(entries, i, left)
      BY <1>1, <2>3 DEF Replaced
    <3> HIDE DEF i, buckets, found
    <3>3. /\ EntriesOK(new, K)
          /\ \A m : Buckets(new, m) = IF m = midashi THEN left ELSE Buckets(entries, m)
      BY <1>6, <3>1, <3>2, ReplacedOK
    <3> QED
      BY <1>6, <3>3
  <2> QED
    BY <2>1, <2>2, <2>3
<1>8. ASSUME NEW m, NEW o
      PROVE  Lookup(new, m, o) = IF m = midashi /\ o = okuri
                                 THEN Without(Lookup(entries, m, o), Plain(e.word))
                                 ELSE Lookup(entries, m, o)
  BY <1>2, <1>3, <1>7 DEF cands
<1> QED
  BY <1>0, <1>7, <1>8 DEF new

(* ---- the file ---- *)

(* Entry lines for the keys K, and comments.                                *)
Lines(K) == {l \in [raw : Text, cands : Cands] : l.raw[1] = ";" \/ Split(l.raw) \in K}
FileOK(file, K) == file \in [lines : Seq(Lines(K)), broken : BOOLEAN]

(* Keys that are read back as keys, with those of the dictionary among them. *)
Closed(K) ==
    /\ Key \subseteq K /\ K \subseteq Text \X Seq(Glyph)
    /\ \A k \in K : Split(k[1] \o k[2]) \in K
    /\ FirstLines \in Seq(Lines(K))

(* Lines of some okurigana of a headword.                                   *)
LEMMA LinesTyped ==
    ASSUME NEW K, Closed(K), NEW h \in Heads(K), NEW okuris \in SUBSET DOMAIN h.buckets
    PROVE  LinesOf(h, okuris) \in Seq(Lines(K))
<1> DEFINE order == SetToSeq(okuris)
<1>1. /\ h.midashi \in Text /\ h.buckets \in BucketSet /\ IsFiniteSet(DOMAIN h.buckets)
      /\ \A o \in DOMAIN h.buckets : <<h.midashi, o>> \in K
  BY DEF Heads, Finite
<1>2. order \in Seq(okuris)
  BY <1>1, FS_Subset, SetToSeqTyped
<1> HIDE DEF order
<1>3. ASSUME NEW o \in okuris PROVE Line(h.midashi, o, h.buckets[o]) \in Lines(K)
  <2>1. o \in Seq(Glyph) /\ h.buckets[o] \in Cands
    BY <1>1, BucketMaps
  <2>2. h.midashi \o o \in Text
    BY <1>1, <2>1 DEF Text
  <2>3. Split(h.midashi \o o) \in K
    <3>1. <<h.midashi, o>> \in K
      BY <1>1
    <3> QED
      BY <3>1 DEF Closed
  <2> QED
    BY <2>1, <2>2, <2>3 DEF Line, Lines
<1>4. LinesOf(h, okuris)
        = [i \in DOMAIN order |-> Line(h.midashi, order[i], h.buckets[order[i]])]
  BY DEF LinesOf, order
<1>5. \A i \in DOMAIN order : Line(h.midashi, order[i], h.buckets[order[i]]) \in Lines(K)
  BY <1>2, <1>3
<1> QED
  BY <1>2, <1>4, <1>5

(* What a save writes are lines of the dictionary's keys.                   *)
LEMMA SerializeTyped ==
    ASSUME NEW K, Closed(K), NEW entries, EntriesOK(entries, K)
    PROVE  Serialize(entries) \in Seq(Lines(K))
<1> DEFINE some == [i \in DOMAIN entries |->
                      LinesOf(entries[i], DOMAIN entries[i].buckets \ {<<>>})]
           none == [i \in DOMAIN entries |->
                      LinesOf(entries[i], DOMAIN entries[i].buckets \cap {<<>>})]
<1>1. Serialize(entries) = FlattenSeq(some) \o FlattenSeq(none)
  BY DEF Serialize
<1>2. entries \in Seq(Heads(K)) /\ \A i \in DOMAIN entries : entries[i] \in Heads(K)
  BY DEF EntriesOK
<1>3. \A i \in DOMAIN entries : some[i] \in Seq(Lines(K)) /\ none[i] \in Seq(Lines(K))
  BY <1>2, LinesTyped
<1>4. some \in Seq(Seq(Lines(K))) /\ none \in Seq(Seq(Lines(K)))
  <2> DEFINE N == Len(entries)
  <2>1. N \in Nat /\ DOMAIN entries = 1 .. N
    BY <1>2
  <2>2. /\ DOMAIN some = 1 .. N /\ some = [i \in 1 .. N |-> some[i]]
        /\ DOMAIN none = 1 .. N /\ none = [i \in 1 .. N |-> none[i]]
    BY <2>1
  <2> HIDE DEF N, some, none
  <2> QED
    BY <1>3, <2>1, <2>2, IsSeq
<1> HIDE DEF some, none
<1>5. FlattenSeq(some) \in Seq(Lines(K)) /\ FlattenSeq(none) \in Seq(Lines(K))
  BY <1>4, FlattenTyped
<1> QED
  BY <1>1, <1>5

(* What a write that is cut short leaves is a file of such lines.           *)
LEMMA CutLinesTyped ==
    ASSUME NEW K, NEW lines \in Seq(Lines(K)), NEW file \in CutLines(lines)
    PROVE  FileOK(file, K)
<1> DEFINE Whole(n)  == SubSeq(lines, 1, n)
           Part(n, k) == [lines[n] EXCEPT !.cands = SubSeq(@, 1, k)]
           Bad(n, k)  == [lines[n] EXCEPT !.cands =
                            Append(SubSeq(@, 1, k), [@[k + 1] EXCEPT !.words = <<Damaged>>])]
           File(ls, broken) == [lines |-> ls, broken |-> broken]
<1>1. ASSUME NEW n \in 0 .. Len(lines) PROVE Whole(n) \in Seq(Lines(K))
  OBVIOUS
<1>2. ASSUME NEW n \in DOMAIN lines, NEW k \in 0 .. Len(lines[n].cands)
      PROVE  Part(n, k) \in Lines(K)
  <2>1. lines[n] \in Lines(K)
    OBVIOUS
  <2>2. lines[n].cands \in Seq(Candidate)
    BY <2>1 DEF Lines, Cands, Candidate
  <2>3. SubSeq(lines[n].cands, 1, k) \in Cands
    <3>1. SubSeq(lines[n].cands, 1, k) \in Seq(Candidate)
      BY <2>2
    <3> QED
      BY <3>1 DEF Cands, Candidate
  <2> QED
    BY <2>1, <2>3 DEF Lines
<1>3. ASSUME NEW n \in DOMAIN lines, NEW k \in 0 .. Len(lines[n].cands) - 1
      PROVE  Bad(n, k) \in Lines(K)
  <2>1. lines[n] \in Lines(K) /\ lines[n].cands \in Seq(Candidate)
    <3>1. lines[n] \in Lines(K)
      OBVIOUS
    <3> QED
      BY <3>1 DEF Lines, Cands, Candidate
  <2> DEFINE cands == lines[n].cands
             cut == [cands[k + 1] EXCEPT !.words = <<Damaged>>]
  <2>2. cands[k + 1] \in Candidate
    BY <2>1
  <2>3. cut \in Candidate
    <3>1. <<Damaged>> \in Seq(Words)
      BY DEF Words
    <3> QED
      BY <2>2, <3>1 DEF Candidate
  <2>4. SubSeq(cands, 1, k) \in Seq(Candidate)
    BY <2>1
  <2> HIDE DEF cut
  <2>5. Append(SubSeq(cands, 1, k), cut) \in Cands
    BY <2>3, <2>4 DEF Cands, Candidate
  <2>6. Bad(n, k) = [lines[n] EXCEPT !.cands = Append(SubSeq(cands, 1, k), cut)]
    BY DEF cut
  <2> QED
    BY <2>1, <2>5, <2>6 DEF Lines
<1>4. \/ \E n \in 0 .. Len(lines) : file = File(Whole(n), FALSE)
      \/ \E n \in DOMAIN lines : file = File(Whole(n - 1), TRUE)
      \/ \E n \in DOMAIN lines : \E k \in 0 .. Len(lines[n].cands) :
            file = File(Append(Whole(n - 1), Part(n, k)), FALSE)
      \/ \E n \in DOMAIN lines : \E k \in 0 .. Len(lines[n].cands) - 1 :
            file = File(Append(Whole(n - 1), Bad(n, k)), FALSE)
  BY DEF CutLines
<1>5. \A n \in DOMAIN lines : n - 1 \in 0 .. Len(lines)
  OBVIOUS
<1> HIDE DEF Whole, Part, Bad
<1>6. \E ls \in Seq(Lines(K)), broken \in BOOLEAN : file = File(ls, broken)
  <2>1. CASE \E n \in 0 .. Len(lines) : file = File(Whole(n), FALSE)
    BY <1>1, <2>1
  <2>2. CASE \E n \in DOMAIN lines : file = File(Whole(n - 1), TRUE)
    BY <1>1, <1>5, <2>2
  <2>3. CASE \E n \in DOMAIN lines : \E k \in 0 .. Len(lines[n].cands) :
                file = File(Append(Whole(n - 1), Part(n, k)), FALSE)
    <3>1. PICK n \in DOMAIN lines : \E k \in 0 .. Len(lines[n].cands) :
                file = File(Append(Whole(n - 1), Part(n, k)), FALSE)
      BY <2>3
    <3>2. PICK k \in 0 .. Len(lines[n].cands) :
                file = File(Append(Whole(n - 1), Part(n, k)), FALSE)
      BY <3>1
    <3>3. Append(Whole(n - 1), Part(n, k)) \in Seq(Lines(K))
      BY <1>1, <1>2, <1>5
    <3> QED
      BY <3>2, <3>3
  <2>4. CASE \E n \in DOMAIN lines : \E k \in 0 .. Len(lines[n].cands) - 1 :
                file = File(Append(Whole(n - 1), Bad(n, k)), FALSE)
    <3>1. PICK n \in DOMAIN lines : \E k \in 0 .. Len(lines[n].cands) - 1 :
                file = File(Append(Whole(n - 1), Bad(n, k)), FALSE)
      BY <2>4
    <3>2. PICK k \in 0 .. Len(lines[n].cands) - 1 :
                file = File(Append(Whole(n - 1), Bad(n, k)), FALSE)
      BY <3>1
    <3>3. Append(Whole(n - 1), Bad(n, k)) \in Seq(Lines(K))
      BY <1>1, <1>3, <1>5
    <3> QED
      BY <3>2, <3>3
  <2> QED
    BY <1>4, <2>1, <2>2, <2>3, <2>4
<1> QED
  BY <1>6 DEF FileOK

(* A line adds its candidates to those its entry has, wherever the headword  *)
(* stands.                                                                 *)
LEMMA AddLineOK ==
    ASSUME NEW K, K \subseteq Text \X Seq(Glyph), NEW entries, EntriesOK(entries, K),
           NEW line \in Lines(K), Split(line.raw) \in K
    PROVE  /\ EntriesOK(AddLine(entries, line), K)
           /\ \A m, o : Lookup(AddLine(entries, line), m, o)
                          = IF <<m, o>> = Split(line.raw) THEN Lookup(entries, m, o) \o line.cands
                            ELSE Lookup(entries, m, o)
<1>0. PICK midashi, okuri : /\ Split(line.raw) = <<midashi, okuri>>
                            /\ midashi \in Text /\ okuri \in Seq(Glyph)
  OBVIOUS
<1> DEFINE i == Index(entries, midashi)
           before == Buckets(entries, midashi)
           found == Lookup(entries, midashi, okuri)
           cands == found \o line.cands
           after == Put(before, okuri, cands)
           new == AddLine(entries, line)
<1>1. new = IF i = 0 THEN Added(entries, midashi, after) ELSE Replaced(entries, i, after)
  BY <1>0 DEF AddLine, Added, Replaced
<1>2. \A m, o : Lookup(new, m, o) = In(Buckets(new, m), o)
  BY DEF Lookup, In
<1>3. \A m, o : Lookup(entries, m, o) = In(Buckets(entries, m), o)
  BY DEF Lookup, In
<1>4. Finite(before, midashi, K)
  BY BucketsFound
<1>5. cands \in Cands
  <2>1. found \in Cands /\ line.cands \in Cands
    BY LookupTyped DEF Lines
  <2> HIDE DEF found
  <2> QED
    BY <2>1 DEF Cands
<1>6. /\ i \in 0 .. Len(entries) /\ (i # 0 => entries[i].midashi = midashi)
      /\ i = 0 => /\ before = <<>> /\ \A h \in ToSet(entries) : h.midashi # midashi
  BY IndexFinds DEF Buckets
<1> HIDE DEF i, before, cands, new
<1>7. /\ Finite(after, midashi, K)
      /\ \A o : In(after, o) = IF o = okuri THEN cands ELSE In(before, o)
  BY <1>0, <1>4, <1>5, PutOK
<1> HIDE DEF after
<1>8. /\ EntriesOK(new, K)
      /\ \A m : Buckets(new, m) = IF m = midashi THEN after ELSE Buckets(entries, m)
  <2>1. CASE i = 0
    <3>1. new = Added(entries, midashi, after) /\ \A h \in ToSet(entries) : h.midashi # midashi
      BY <1>1, <1>6, <2>1
    <3> QED
      BY <1>0, <1>7, <3>1, AppendedOK
  <2>2. CASE i # 0
    <3>1. new = Replaced(entries, i, after) /\ entries[i].midashi = midashi
      BY <1>1, <1>6, <2>2
    <3>2. i \in DOMAIN entries
      BY <1>6, <2>2 DEF EntriesOK
    <3> QED
      BY <1>7, <3>1, <3>2, ReplacedOK
  <2> QED
    BY <2>1, <2>2
<1>9. ASSUME NEW m, NEW o
      PROVE  Lookup(new, m, o) = IF m = midashi /\ o = okuri THEN cands
                                 ELSE Lookup(entries, m, o)
  <2>1. CASE m = midashi
    <3>1. In(Buckets(entries, m), o) = In(before, o)
      BY <2>1 DEF before
    <3> QED
      BY <1>2, <1>3, <1>7, <1>8, <2>1, <3>1
  <2>2. CASE m # midashi
    BY <1>2, <1>3, <1>8, <2>2
  <2> QED
    BY <2>1, <2>2
<1>10. ASSUME NEW m, NEW o
       PROVE  Lookup(new, m, o) = IF <<m, o>> = Split(line.raw)
                                  THEN Lookup(entries, m, o) \o line.cands
                                  ELSE Lookup(entries, m, o)
  <2>1. <<m, o>> = Split(line.raw) <=> m = midashi /\ o = okuri
    BY <1>0
  <2>2. cands = Lookup(entries, midashi, okuri) \o line.cands
    BY DEF cands
  <2> QED
    BY <1>9, <2>1, <2>2
<1> QED
  BY <1>8, <1>10 DEF new

(* The entries after each line: the recursion of Parse.                     *)
Read(f, lines, N) ==
    f = [n \in 0 .. N |-> IF n = 0 THEN <<>> ELSE AddLine(f[n - 1], lines[n])]

(* It exists, whatever the lines.                                           *)
LEMMA ReadExists == ASSUME NEW lines, NEW N \in Nat PROVE \E f : Read(f, lines, N)
<1> DEFINE S == {n \in 0 .. N : \E f : Read(f, lines, n)}
<1>1. 0 \in S
  <2> DEFINE f == [i \in 0 .. 0 |-> <<>>]
  <2>1. Read(f, lines, 0)
    BY DEF Read
  <2> QED
    BY <2>1
<1>2. ASSUME NEW n \in 0 .. N - 1, n \in S PROVE n + 1 \in S
  <2>1. PICK f : Read(f, lines, n)
    BY <1>2
  <2> DEFINE g == [i \in 0 .. n + 1 |-> IF i = 0 THEN <<>> ELSE AddLine(f[i - 1], lines[i])]
  <2>2. \A i \in 0 .. n : g[i] = f[i]
    BY <2>1 DEF Read
  <2>3. \A i \in 0 .. n + 1 : i # 0 => g[i - 1] = f[i - 1]
    <3> HIDE DEF g
    <3>1. \A i \in 0 .. n + 1 : i # 0 => i - 1 \in 0 .. n
      OBVIOUS
    <3> QED
      BY <2>2, <3>1
  <2>4. Read(g, lines, n + 1)
    BY <2>3 DEF Read
  <2> QED
    BY <2>4
<1>3. \A n \in 0 .. N : n \in S
  <2> HIDE DEF S
  <2> QED
    BY <1>1, <1>2, UpTo
<1> QED
  BY <1>3

(* What is read are entries of the keys.                                    *)
LEMMA ParseOK ==
    ASSUME NEW K, Closed(K), NEW lines \in Seq(Lines(K))
    PROVE  EntriesOK(Parse(lines), K)
<1> DEFINE noted == {line \in ToSet(lines) : line.raw[1] # ";"}
           shown == Among(lines, noted)
           N == Len(shown)
           read == CHOOSE f : Read(f, shown, N)
<1>1. shown \in Seq(Lines(K)) /\ ToSet(shown) = ToSet(lines) \cap noted
  BY AmongPlaces, AmongMembers
<1>2. Parse(lines) = read[N]
  BY DEF Parse, Read
<1> HIDE DEF shown, read
<1>3. N \in Nat /\ DOMAIN shown = 1 .. N /\ \A n \in 1 .. N : shown[n] \in Lines(K)
  <2> HIDE DEF noted
  <2> QED
    BY <1>1
<1>4. ASSUME NEW n \in 1 .. N PROVE shown[n] \in Lines(K) /\ Split(shown[n].raw) \in K
  <2>1. shown[n] \in Lines(K) /\ shown[n] \in ToSet(shown)
    BY <1>3 DEF ToSet
  <2>2. shown[n].raw[1] # ";"
    BY <1>1, <2>1
  <2> QED
    BY <2>1, <2>2 DEF Lines
<1> HIDE DEF N
<1>5. Read(read, shown, N)
  BY <1>3, ReadExists DEF read
<1>6. read[0] = <<>> /\ \A n \in 0 .. N - 1 : read[n + 1] = AddLine(read[n], shown[n + 1])
  BY <1>3, <1>5 DEF Read
<1> DEFINE S == {n \in 0 .. N : EntriesOK(read[n], K)}
<1>7. 0 \in S
  <2>1. EntriesOK(<<>>, K)
    BY DEF EntriesOK, Distinct
  <2> QED
    BY <1>3, <1>6, <2>1
<1>8. ASSUME NEW n \in 0 .. N - 1, n \in S PROVE n + 1 \in S
  <2>1. n + 1 \in 1 .. N /\ n + 1 \in 0 .. N /\ EntriesOK(read[n], K)
    BY <1>3, <1>8
  <2>2. EntriesOK(AddLine(read[n], shown[n + 1]), K)
    BY <1>4, <2>1, AddLineOK DEF Closed
  <2> QED
    BY <1>6, <2>1, <2>2
<1>9. N \in S
  <2> HIDE DEF S
  <2>1. \A n \in 0 .. N : n \in S
    BY <1>3, <1>7, <1>8, UpTo
  <2> QED
    BY <1>3, <2>1
<1> QED
  BY <1>2, <1>9

(* A headword of a single letter is ASCII and is not split.                 *)
LEMMA SplitTyped == ASSUME NEW raw \in Text PROVE Split(raw) \in Text \X Seq(Glyph)
<1> DEFINE L == Len(raw)
<1>1. raw \in Seq(Glyph) /\ L \in Nat /\ L # 0 /\ DOMAIN raw = 1 .. L
  BY DEF Text
<1>2. CASE Last(raw) \in Alpha /\ ~(ToSet(raw) \subseteq Ascii)
  <2>1. L # 1
    <3> SUFFICES ASSUME L = 1 PROVE FALSE
      OBVIOUS
    <3>1. \A i \in DOMAIN raw : raw[i] = Last(raw)
      BY <1>1 DEF Last
    <3> QED
      BY <1>2, <3>1, DictAssumption DEF DictAssumption, ToSet
  <2>2. L - 1 \in 1 .. L
    <3> HIDE DEF L
    <3> QED
      BY <1>1, <2>1
  <2>3. Front(raw) \in Seq(Glyph) /\ Len(Front(raw)) = L - 1
    BY <1>1, <2>2 DEF Front
  <2>4. raw[L] \in Glyph
    BY <1>1
  <2>5. Front(raw) # <<>> /\ <<Last(raw)>> \in Seq(Glyph)
    BY <2>2, <2>3, <2>4 DEF Last
  <2> QED
    BY <1>2, <2>3, <2>5 DEF Split, Text
<1>3. CASE ~(Last(raw) \in Alpha /\ ~(ToSet(raw) \subseteq Ascii))
  <2>1. Split(raw) = <<raw, <<>>>>
    BY <1>3 DEF Split
  <2>2. <<>> \in Seq(Glyph)
    OBVIOUS
  <2>3. <<raw, <<>>>> \in Text \X Seq(Glyph)
    BY <2>2
  <2> QED
    BY <2>1, <2>3, Zenon
<1> QED
  BY <1>2, <1>3

(* The text of an unambiguous key is split where it was joined.             *)
LEMMA SplitsBack ==
    ASSUME NEW midashi \in Text, NEW okuri \in Seq(Glyph), Unambiguous(midashi, okuri)
    PROVE  Split(midashi \o okuri) = <<midashi, okuri>>
<1>1. midashi \in Seq(Glyph) /\ Len(midashi) \in Nat /\ DOMAIN midashi = 1 .. Len(midashi)
  BY DEF Text
<1>2. CASE okuri = <<>> /\ (ToSet(midashi) \subseteq Ascii \/ Last(midashi) \notin Alpha)
  <2>1. midashi \o okuri = midashi
    BY <1>1, <1>2
  <2> QED
    BY <1>2, <2>1 DEF Split
<1>3. ASSUME ~(ToSet(midashi) \subseteq Ascii), NEW letter \in Alpha, okuri = <<letter>>
      PROVE  Split(midashi \o okuri) = <<midashi, okuri>>
  <2> DEFINE raw == midashi \o okuri
             L == Len(midashi)
  <2>1. letter \in Glyph
    <3>1. okuri[1] \in Glyph
      BY <1>3
    <3> QED
      BY <1>3, <3>1
  <2>2. /\ raw \in Seq(Glyph) /\ Len(raw) = L + 1 /\ raw[L + 1] = letter
        /\ \A i \in 1 .. L : raw[i] = midashi[i]
    BY <1>1, <1>3, <2>1
  <2> HIDE DEF raw
  <2>3. Last(raw) = letter
    BY <2>2 DEF Last
  <2>4. Front(raw) = midashi
    <3>1. Front(raw) = SubSeq(raw, 1, L)
      BY <1>1, <2>2 DEF Front
    <3>2. Front(raw) \in Seq(Glyph) /\ Len(Front(raw)) = L
      BY <1>1, <2>2, <3>1
    <3>3. \A i \in 1 .. L : Front(raw)[i] = midashi[i]
      BY <1>1, <2>2, <3>1
    <3> QED
      BY <1>1, <3>2, <3>3
  <2>5. ~(ToSet(raw) \subseteq Ascii)
    <3>1. PICK i \in 1 .. L : midashi[i] \notin Ascii
      BY <1>1, <1>3 DEF ToSet
    <3>2. i \in DOMAIN raw /\ raw[i] \notin Ascii
      BY <1>1, <2>2, <3>1
    <3> QED
      BY <3>2 DEF ToSet
  <2>6. Split(raw) = <<midashi, okuri>>
    BY <1>3, <2>3, <2>4, <2>5 DEF Split
  <2> QED
    BY <2>6 DEF raw
<1> QED
  BY <1>2, <1>3 DEF Unambiguous

(* Every key is read back as one when any reading and any okurigana may be a *)
(* key.                                                                    *)
LEMMA AllKeysClosed == Closed(Text \X Seq(Glyph))
<1> DEFINE K == Text \X Seq(Glyph)
<1>1. \A raw \in Text : Split(raw) \in K
  BY SplitTyped
<1>2. \A k \in K : k[1] \o k[2] \in Text
  BY DEF Text
<1>3. Key \subseteq K
  BY EntryTyped DEF Key
<1>4. FirstLines \in Seq(Lines(K))
  <2>1. [raw : Text, cands : Cands] = Lines(K)
    BY <1>1 DEF Lines
  <2> QED
    BY <2>1, DictAssumption DEF DictAssumption
<1> QED
  BY <1>1, <1>2, <1>3, <1>4 DEF Closed

(* ---- what is offered ---- *)

(* The words of candidates that are words.                                  *)
Shown == {c \in Candidate : Displayable(c)}
FirstWords(cands) == [i \in DOMAIN cands |-> cands[i].words[1]]

(* Every value of that kind is right for an empty list, and right for a     *)
(* list if it is for all of it but the last candidate.                      *)
LEMMA FirstWordsStep ==
    ASSUME NEW cands \in Seq(Candidate), NEW c
    PROVE  FirstWords(Append(cands, c)) = Append(FirstWords(cands), c.words[1])
<1> DEFINE L == Len(cands)
<1>1. L \in Nat /\ DOMAIN cands = 1 .. L
  OBVIOUS
<1>2. /\ DOMAIN Append(cands, c) = 1 .. L + 1 /\ Append(cands, c)[L + 1] = c
      /\ \A i \in 1 .. L : Append(cands, c)[i] = cands[i]
  OBVIOUS
<1>3. FirstWords(cands) = [i \in 1 .. L |-> cands[i].words[1]]
  BY <1>1 DEF FirstWords
<1>4. FirstWords(Append(cands, c)) = [i \in 1 .. L + 1 |-> Append(cands, c)[i].words[1]]
  BY <1>2 DEF FirstWords
<1> DEFINE a == FirstWords(cands)
           b == Append(a, c.words[1])
<1>5. DOMAIN a = 1 .. L /\ Len(a) = L /\ \A i \in 1 .. L : a[i] = cands[i].words[1]
  BY <1>1, <1>3
<1> HIDE DEF a, L
<1>6. b = [i \in 1 .. L + 1 |-> IF i = L + 1 THEN c.words[1] ELSE a[i]]
  BY <1>1, <1>5
<1>7. \A i \in 1 .. L + 1 : Append(cands, c)[i].words[1]
                              = IF i = L + 1 THEN c.words[1] ELSE a[i]
  BY <1>1, <1>2, <1>5
<1> QED
  BY <1>4, <1>6, <1>7 DEF a

(* The body of WordsOf.                                                     *)
WordsBody(W, cands) ==
    IF cands = <<>> THEN <<>>
    ELSE LET before == W[Front(cands)]
         IN  IF Displayable(Last(cands)) THEN Append(before, Last(cands).words[1]) ELSE before

(* The function that WordsOf's equation asks for exists.                    *)
LEMMA WordsOfUnfolds ==
    \A cands \in Cands : WordsOf[cands] = WordsBody(WordsOf, cands)
<1> DEFINE Word1(cands) == FirstWords(Among(cands, Shown))
           W == [cands \in Cands |-> Word1(cands)]
<1>1. ASSUME NEW cands \in Cands PROVE W[cands] = WordsBody(W, cands)
  <2>1. cands \in Seq(Candidate)
    BY DEF Cands, Candidate
  <2>2. CASE cands = <<>>
    <3>1. Among(cands, Shown) = <<>>
      BY <2>1, <2>2, AmongFront
    <3>2. Word1(cands) = <<>>
      BY <3>1 DEF FirstWords
    <3> QED
      BY <2>2, <3>2 DEF WordsBody
  <2>3. CASE cands # <<>>
    <3>1. Front(cands) \in Seq(Candidate) /\ Last(cands) \in Candidate
      BY <2>1, <2>3 DEF Front, Last
    <3>2. Front(cands) \in Cands
      BY <3>1 DEF Cands, Candidate
    <3>3. Among(cands, Shown) = Keep(Among(Front(cands), Shown), Last(cands), Shown)
      BY <2>1, <2>3, AmongFront
    <3>4. Among(Front(cands), Shown) \in Seq(Candidate)
      BY <3>1, AmongPlaces
    <3>5. Word1(cands) = IF Displayable(Last(cands))
                         THEN Append(Word1(Front(cands)), Last(cands).words[1])
                         ELSE Word1(Front(cands))
      BY <3>1, <3>3, <3>4, FirstWordsStep DEF Keep, Shown
    <3>6. W[cands] = Word1(cands) /\ W[Front(cands)] = Word1(Front(cands))
      BY <3>2
    <3> HIDE DEF W, Word1
    <3> QED
      BY <2>3, <3>5, <3>6 DEF WordsBody
  <2> QED
    BY <2>2, <2>3
<1>2. W = [cands \in Cands |-> WordsBody(W, cands)]
  BY <1>1
<1> HIDE DEF W
<1>3. WordsOf = CHOOSE f : f = [cands \in Cands |-> WordsBody(f, cands)]
  BY DEF WordsOf, WordsBody
<1>4. WordsOf = [cands \in Cands |-> WordsBody(WordsOf, cands)]
  BY <1>2, <1>3
<1> QED
  BY <1>4

(* The words of an entry are those of its candidates that are words.        *)
LEMMA WordsOfIs ==
    ASSUME NEW cands \in Cands
    PROVE  WordsOf[cands] = FirstWords(Among(cands, Shown))
<1> DEFINE N == Len(cands)
           S == {n \in 0 .. N : \A c \in Cands : Len(c) = n =>
                                   WordsOf[c] = FirstWords(Among(c, Shown))}
<1>1. N \in Nat
  BY DEF Cands
<1> HIDE DEF N
<1>2. 0 \in S
  <2> SUFFICES ASSUME NEW c \in Cands, Len(c) = 0 PROVE WordsOf[c] = FirstWords(Among(c, Shown))
    BY <1>1
  <2>1. c \in Seq(Candidate) /\ c = <<>>
    <3>1. c \in Seq(Candidate)
      BY DEF Cands, Candidate
    <3> QED
      BY <3>1
  <2>2. Among(c, Shown) = <<>>
    BY <2>1, AmongFront
  <2>3. WordsOf[c] = <<>>
    BY <2>1, WordsOfUnfolds DEF WordsBody
  <2> QED
    BY <2>2, <2>3 DEF FirstWords
<1>3. ASSUME NEW n \in 0 .. N - 1, n \in S PROVE n + 1 \in S
  <2> SUFFICES ASSUME NEW c \in Cands, Len(c) = n + 1
               PROVE  WordsOf[c] = FirstWords(Among(c, Shown))
    BY <1>1
  <2>1. c \in Seq(Candidate)
    BY DEF Cands, Candidate
  <2>2. c # <<>> /\ Front(c) \in Seq(Candidate) /\ Last(c) \in Candidate /\ Len(Front(c)) = n
    BY <1>1, <2>1 DEF Front, Last
  <2>3. Front(c) \in Cands
    BY <2>2 DEF Cands, Candidate
  <2>4. WordsOf[Front(c)] = FirstWords(Among(Front(c), Shown))
    BY <1>3, <2>2, <2>3
  <2>5. WordsOf[c] = IF Displayable(Last(c)) THEN Append(WordsOf[Front(c)], Last(c).words[1])
                     ELSE WordsOf[Front(c)]
    BY <2>2, WordsOfUnfolds DEF WordsBody
  <2>6. Among(c, Shown) = Keep(Among(Front(c), Shown), Last(c), Shown)
    BY <2>1, <2>2, AmongFront
  <2>7. Among(Front(c), Shown) \in Seq(Candidate)
    BY <2>2, AmongPlaces
  <2> QED
    BY <2>2, <2>4, <2>5, <2>6, <2>7, FirstWordsStep DEF Keep, Shown
<1>4. N \in S
  <2> HIDE DEF S
  <2>1. \A n \in 0 .. N : n \in S
    BY <1>1, <1>2, <1>3, UpTo
  <2> QED
    BY <1>1, <2>1
<1> QED
  BY <1>4 DEF N

(* A word that leads the candidates of an entry is offered first.           *)
LEMMA LeaderIsOffered ==
    ASSUME NEW entries, NEW k, Lookup(entries, k[1], k[2]) \in Cands,
           NEW w, Leads(Lookup(entries, k[1], k[2]), w)
    PROVE  Offered(entries, k) # <<>> /\ Offered(entries, k)[1] = w
<1> DEFINE cands == Lookup(entries, k[1], k[2])
           shown == Among(cands, Shown)
           words == WordsOf[cands]
<1>1. /\ cands \in Cands /\ cands \in Seq(Candidate) /\ cands # <<>> /\ cands[1] = Plain(w)
      /\ \A c \in ToSet(cands) : c.directive => w \notin ToSet(c.words)
  BY DEF Leads, Cands, Candidate
<1>2. Offered(entries, k) = Among(words, ToSet(words) \ Hidden(cands))
  BY DEF Offered
<1> HIDE DEF cands
<1>3. cands[1] \in Candidate
  BY <1>1
<1>4. cands[1] \in Shown /\ Plain(w).words[1] = w
  BY <1>1, <1>3 DEF Shown, Displayable, Plain
<1>5. shown \in Seq(Candidate) /\ shown # <<>> /\ shown[1] = Plain(w)
  BY <1>1, <1>4, AmongPlaces, AmongFirst
<1>6. words = FirstWords(shown)
  BY <1>1, WordsOfIs
<1> HIDE DEF shown, words
<1>7. words \in Seq({shown[i].words[1] : i \in DOMAIN shown}) /\ words # <<>> /\ words[1] = w
  <2>1. words = [i \in 1 .. Len(shown) |-> shown[i].words[1]] /\ Len(shown) \in Nat
        /\ DOMAIN shown = 1 .. Len(shown) /\ Len(shown) # 0
    BY <1>5, <1>6 DEF FirstWords
  <2> QED
    BY <1>4, <1>5, <2>1
<1>8. words[1] \in ToSet(words)
  BY <1>7 DEF ToSet
<1>9. w \notin Hidden(cands)
  <2> SUFFICES ASSUME w \in Hidden(cands) PROVE FALSE
    OBVIOUS
  <2>1. PICK i \in DOMAIN cands : cands[i].directive /\ w \in ToSet(cands[i].words)
    BY DEF Hidden
  <2>2. cands[i] \in ToSet(cands)
    BY DEF ToSet
  <2> QED
    BY <1>1, <2>1, <2>2
<1>10. /\ Among(words, ToSet(words) \ Hidden(cands)) # <<>>
       /\ Among(words, ToSet(words) \ Hidden(cands))[1] = w
  BY <1>7, <1>8, <1>9, AmongFirst
<1> QED
  BY <1>2, <1>10

(* ---- the invariant ---- *)

DictOK(d, K) ==
    /\ d \in [path : Path \cup {Nowhere}, entries : Seq(Heads(K)), dirty : BOOLEAN]
    /\ Distinct(d.entries)
Tasks == [at : {"idle", "flush", "reload", "load"}, next : Config]

(* What was learned last leads its entry in the dictionary in use.          *)
Remembers(l, entries) ==
    /\ DOMAIN l \subseteq Key
    /\ \A k \in DOMAIN l : Leads(Lookup(entries, k[1], k[2]), l[k])

(* The state is typed over the keys K; what was learned last leads its       *)
(* entry; the dictionary is the one of the applied configuration or none.   *)
DInv(K) ==
    /\ up \in BOOLEAN /\ DictOK(dict, K)
    /\ files \in [Path -> [lines : Seq(Lines(K)), broken : BOOLEAN]]
    /\ task \in Tasks /\ configFile \in Config /\ config \in Config
    /\ reading \in [Call -> [read : BOOLEAN, config : Config]]
    /\ purged \subseteq Entry
    /\ Remembers(latest, dict.entries) /\ (~up => DOMAIN latest = {})
    /\ dict.path \in {config.path, Nowhere}

(* The constants the initial state and a restart are made of.               *)
LEMMA Constants ==
    /\ FirstConfig \in Config /\ FirstConfig.path \in Path
    /\ \A c \in Config : c.path \in Path
    /\ Idle \in Tasks /\ \A c \in Config : Task("flush", c) \in Tasks
    /\ \A c \in Config : Task("reload", c) \in Tasks /\ Task("load", c) \in Tasks
    /\ NotRead \in [read : BOOLEAN, config : Config]
    /\ DOMAIN <<>> = {}
  BY DictAssumption DEF DictAssumption, Path, Idle, Tasks, Task, NotRead

(* No dictionary is a dictionary.                                           *)
LEMMA NoDictOK == ASSUME NEW K PROVE DictOK(NoDict, K)
  BY DEF DictOK, NoDict, Distinct

(* What a start or a reload loads.                                          *)
LEMMA LoadedOK ==
    ASSUME NEW K, Closed(K), DInv(K), NEW p \in Path
    PROVE  DictOK(Loaded(p), K) /\ Loaded(p).path \in {p, Nowhere}
<1>1. files[p].lines \in Seq(Lines(K))
  BY DEF DInv
<1>2. EntriesOK(Parse(files[p].lines), K)
  BY <1>1, ParseOK
<1>3. CASE files[p].broken
  BY <1>3, NoDictOK DEF Loaded, NoDict
<1>4. CASE ~files[p].broken
  BY <1>2, <1>4 DEF Loaded, DictOK, EntriesOK
<1> QED
  BY <1>3, <1>4

(* The first state satisfies it.                                            *)
LEMMA InitOK == ASSUME NEW K, Closed(K), Init PROVE DInv(K)
<1>1. EntriesOK(Parse(FirstLines), K) /\ FirstLines \in Seq(Lines(K))
  BY ParseOK DEF Closed
<1>2. DictOK(dict, K) /\ dict.path = config.path
  BY <1>1, Constants DEF Init, DictOK, EntriesOK
<1>3. files \in [Path -> [lines : Seq(Lines(K)), broken : BOOLEAN]]
  BY <1>1 DEF Init
<1>4. Remembers(latest, dict.entries) /\ DOMAIN latest = {}
  BY Constants DEF Init, Remembers
<1>5. /\ up \in BOOLEAN /\ task \in Tasks /\ configFile \in Config /\ config \in Config
      /\ purged \subseteq Entry
  BY Constants DEF Init
<1>6. reading \in [Call -> [read : BOOLEAN, config : Config]]
  BY Constants DEF Init
<1> QED
  BY <1>2, <1>3, <1>4, <1>5, <1>6 DEF DInv

(* A word is learned.                                                       *)
LEMMA LearnOK == ASSUME NEW K, Closed(K), DInv(K), NEW e \in Entry, Learn(e) PROVE DInv(K)'
<1> DEFINE key == <<e.midashi, e.okuri>>
           entries == dict.entries
<1>1. /\ key \in Key /\ key \in K /\ e.word \in Words
      /\ key[1] = e.midashi /\ key[2] = e.okuri
  BY EntryTyped DEF Key, Closed
<1>2. EntriesOK(entries, K) /\ DictOK(dict, K)
  BY DEF DInv, DictOK, EntriesOK
<1>3. /\ EntriesOK(Learned(entries, e), K)
      /\ \A m, o : Lookup(Learned(entries, e), m, o)
                     = IF m = e.midashi /\ o = e.okuri THEN Relearned(entries, e)
                       ELSE Lookup(entries, m, o)
  BY <1>1, <1>2, LearnedOK
<1>4. Leads(Relearned(entries, e), e.word)
  BY <1>1, <1>2, LookupTyped, UnhiddenOK DEF Relearned
<1>5. /\ dict' = [dict EXCEPT !.entries = Learned(entries, e), !.dirty = TRUE]
      /\ up /\ up' = up /\ UNCHANGED <<files, configFile, config, reading>>
      /\ task' = Task("flush", FirstConfig) /\ purged' = purged \ {e}
      /\ latest' = [k \in DOMAIN latest \cup {key} |-> IF k = key THEN e.word ELSE latest[k]]
  BY DEF Learn, Free
<1>6. dict'.entries = Learned(entries, e) /\ dict'.path = dict.path /\ DictOK(dict', K)
  BY <1>2, <1>3, <1>5 DEF DictOK, EntriesOK
<1>7. Remembers(latest', Learned(entries, e))
  <2>1. Remembers(latest, entries)
    BY DEF DInv
  <2>2. DOMAIN latest' = DOMAIN latest \cup {key}
    BY <1>5
  <2>3. ASSUME NEW k \in DOMAIN latest \cup {key}
        PROVE  Leads(Lookup(Learned(entries, e), k[1], k[2]), latest'[k])
    <3>1. CASE k = key
      <4>1. latest'[k] = e.word
        BY <1>5, <3>1
      <4>2. Lookup(Learned(entries, e), k[1], k[2]) = Relearned(entries, e)
        BY <1>1, <1>3, <3>1
      <4> QED
        BY <1>4, <4>1, <4>2
    <3>2. CASE k # key
      <4>1. k \in DOMAIN latest /\ latest'[k] = latest[k]
        BY <1>5, <3>2
      <4>2. ~(k[1] = e.midashi /\ k[2] = e.okuri)
        BY <2>1, <3>2, <4>1 DEF Remembers, Key
      <4>3. Lookup(Learned(entries, e), k[1], k[2]) = Lookup(entries, k[1], k[2])
        BY <1>3, <4>2
      <4> QED
        BY <2>1, <4>1, <4>3 DEF Remembers
    <3> QED
      BY <3>1, <3>2
  <2> HIDE DEF key
  <2> QED
    BY <1>1, <2>1, <2>2, <2>3 DEF Remembers
<1> QED
  BY <1>5, <1>6, <1>7, Constants DEF DInv

(* A word is purged: what leads an entry goes only if it was the word.      *)
LEMMA PurgeOK == ASSUME NEW K, Closed(K), DInv(K), NEW e \in Entry, Purge(e) PROVE DInv(K)'
<1> DEFINE key == <<e.midashi, e.okuri>>
           entries == dict.entries
           new == Purged(entries, e)
<1>1. key \in Key /\ key \in K /\ key[1] = e.midashi /\ key[2] = e.okuri
  BY EntryTyped DEF Key, Closed
<1>2. EntriesOK(entries, K) /\ DictOK(dict, K)
  BY DEF DInv, DictOK, EntriesOK
<1>3. /\ EntriesOK(new, K)
      /\ \A m, o : Lookup(new, m, o) = IF m = e.midashi /\ o = e.okuri
                                       THEN Without(Lookup(entries, m, o), Plain(e.word))
                                       ELSE Lookup(entries, m, o)
  BY <1>1, <1>2, PurgedOK
<1>4. /\ \E d \in BOOLEAN : dict' = [dict EXCEPT !.entries = new, !.dirty = d]
      /\ up /\ up' = up /\ UNCHANGED <<files, configFile, config, reading>>
      /\ task' = Task("flush", FirstConfig) /\ purged' = purged \cup {e}
      /\ latest' = [k \in {k \in DOMAIN latest : k # key \/ latest[k] # e.word} |-> latest[k]]
  BY <1>2 DEF Purge, Free, DictOK
<1>5. dict'.entries = new /\ dict'.path = dict.path /\ DictOK(dict', K)
  BY <1>2, <1>3, <1>4 DEF DictOK, EntriesOK
<1> HIDE DEF new
<1>6. Remembers(latest', new)
  <2>1. Remembers(latest, entries)
    BY DEF DInv
  <2>2. /\ DOMAIN latest' \subseteq DOMAIN latest
        /\ \A k \in DOMAIN latest' : latest'[k] = latest[k] /\ (k # key \/ latest[k] # e.word)
    BY <1>4
  <2>3. ASSUME NEW k \in DOMAIN latest' PROVE Leads(Lookup(new, k[1], k[2]), latest'[k])
    <3>1. Leads(Lookup(entries, k[1], k[2]), latest[k])
      BY <2>1, <2>2 DEF Remembers
    <3>2. CASE k[1] = e.midashi /\ k[2] = e.okuri
      <4> DEFINE cands == Lookup(entries, k[1], k[2])
      <4>1. k = key
        BY <2>1, <2>2, <3>2 DEF Remembers, Key
      <4>2. cands \in Seq(Candidate)
        BY <1>2, LookupTyped DEF Cands, Candidate
      <4>3. Plain(latest[k]) # Plain(e.word)
        BY <2>2, <4>1 DEF Plain
      <4>4. Lookup(new, k[1], k[2]) = Without(cands, Plain(e.word))
        BY <1>3, <3>2
      <4> HIDE DEF cands
      <4>5. cands # <<>> /\ cands[1] = Plain(latest[k])
        BY <3>1 DEF Leads, cands
      <4>6. /\ Without(cands, Plain(e.word)) # <<>>
            /\ Without(cands, Plain(e.word))[1] = Plain(latest[k])
            /\ ToSet(Without(cands, Plain(e.word))) \subseteq ToSet(cands)
        BY <4>2, <4>3, <4>5, WithoutTyped
      <4> QED
        BY <2>2, <3>1, <4>4, <4>6 DEF Leads, cands
    <3>3. CASE ~(k[1] = e.midashi /\ k[2] = e.okuri)
      BY <1>3, <2>2, <3>1, <3>3
    <3> QED
      BY <3>2, <3>3
  <2> QED
    BY <2>1, <2>2, <2>3 DEF Remembers
<1> QED
  BY <1>4, <1>5, <1>6, Constants DEF DInv

(* A file is written, whole or in part, in the place the dictionary names.   *)
LEMMA WrittenOK ==
    ASSUME NEW K, DInv(K), NEW file, FileOK(file, K), Written(file)
    PROVE  files' \in [Path -> [lines : Seq(Lines(K)), broken : BOOLEAN]]
  BY DEF DInv, DictOK, Written, FileOK

(* A write that fails leaves files of such lines, or the old one.           *)
LEMMA CutOK ==
    ASSUME NEW K, Closed(K), DInv(K),
           \/ UNCHANGED files
           \/ \E file \in CutLines(Serialize(dict.entries)) : Written(file)
    PROVE  files' \in [Path -> [lines : Seq(Lines(K)), broken : BOOLEAN]]
<1>1. CASE UNCHANGED files
  BY <1>1 DEF DInv
<1>2. CASE \E file \in CutLines(Serialize(dict.entries)) : Written(file)
  <2>1. PICK file \in CutLines(Serialize(dict.entries)) : Written(file)
    BY <1>2
  <2>2. Serialize(dict.entries) \in Seq(Lines(K))
    BY SerializeTyped DEF DInv, DictOK, EntriesOK
  <2>3. FileOK(file, K)
    BY <2>2, CutLinesTyped
  <2> QED
    BY <2>1, <2>3, WrittenOK
<1> QED
  BY <1>1, <1>2

(* After a flush the work goes on.                                          *)
LEMMA AfterFlushOK == ASSUME NEW K, DInv(K), AfterFlush PROVE task' \in Tasks
<1>1. task.next \in Config
  BY DEF DInv, Tasks
<1> QED
  BY <1>1, Constants DEF AfterFlush

(* Every step keeps the invariant.                                          *)
LEMMA StepOK == ASSUME NEW K, Closed(K), DInv(K), [Next]_vars PROVE DInv(K)'
<1>1. ASSUME NEW e \in Entry, Learn(e) PROVE DInv(K)'
  BY <1>1, LearnOK
<1>2. ASSUME NEW e \in Entry, Purge(e) PROVE DInv(K)'
  BY <1>2, PurgeOK
<1>3. CASE OtherKey
  BY <1>3, Constants DEF OtherKey, Free, DInv
<1>4. CASE Saved
  <2> DEFINE file == [lines |-> Serialize(dict.entries), broken |-> FALSE]
  <2>1. FileOK(file, K)
    BY SerializeTyped DEF DInv, DictOK, EntriesOK, FileOK
  <2>2. Written(file) \/ UNCHANGED files
    BY <1>4 DEF Saved
  <2> HIDE DEF file
  <2>3. files' \in [Path -> [lines : Seq(Lines(K)), broken : BOOLEAN]]
    <3>1. CASE Written(file)
      BY <2>1, <3>1, WrittenOK
    <3>2. CASE UNCHANGED files
      BY <3>2 DEF DInv
    <3> QED
      BY <2>2, <3>1, <3>2
  <2>4. DictOK(dict, K)'
    BY <1>4 DEF Saved, DInv, DictOK
  <2>5. dict'.entries = dict.entries /\ dict'.path = dict.path
    BY <1>4 DEF Saved, DInv, DictOK
  <2>6. task' \in Tasks
    BY <1>4, AfterFlushOK DEF Saved
  <2> QED
    BY <1>4, <2>3, <2>4, <2>5, <2>6 DEF Saved, DInv
<1>5. CASE SaveFails
  <2>1. files' \in [Path -> [lines : Seq(Lines(K)), broken : BOOLEAN]] /\ task' \in Tasks
    BY <1>5, CutOK, AfterFlushOK DEF SaveFails
  <2> QED
    BY <1>5, <2>1 DEF SaveFails, DInv
<1>6. ASSUME NEW r \in Call, ReadConfig(r) PROVE DInv(K)'
  BY <1>6 DEF ReadConfig, DInv
<1>7. ASSUME NEW r \in Call, BeginReload(r) PROVE DInv(K)'
  <2>1. reading[r].config \in Config
    BY <1>7 DEF DInv
  <2>2. /\ reading' = [reading EXCEPT ![r] = NotRead]
        /\ UNCHANGED <<up, dict, files, configFile, latest, purged>>
    BY <1>7 DEF BeginReload
  <2>3. reading' \in [Call -> [read : BOOLEAN, config : Config]]
    BY <2>2, Constants DEF DInv
  <2>4. CASE DictsChanged(config, reading[r].config)
    <3>1. task' = Task("reload", reading[r].config) /\ UNCHANGED config
      BY <1>7, <2>4 DEF BeginReload
    <3>2. task' \in Tasks
      BY <2>1, <3>1, Constants
    <3> QED
      BY <2>2, <2>3, <3>1, <3>2 DEF DInv
  <2>5. CASE ~DictsChanged(config, reading[r].config)
    <3>1. config' = reading[r].config /\ UNCHANGED task
      BY <1>7, <2>5 DEF BeginReload
    <3>2. config'.path = config.path
      BY <2>5, <3>1 DEF DictsChanged
    <3> QED
      BY <2>1, <2>2, <2>3, <3>1, <3>2 DEF DInv
  <2> QED
    BY <2>4, <2>5
<1>8. CASE LoadDicts
  <2>1. /\ dict' = Loaded(task.next.path) /\ config' = task.next /\ task' = Idle
        /\ latest' = <<>> /\ UNCHANGED <<up, files, configFile, reading, purged>>
    BY <1>8 DEF LoadDicts
  <2>2. task.next \in Config /\ task.next.path \in Path
    <3>1. task.next \in Config
      BY DEF DInv, Tasks
    <3> QED
      BY <3>1, Constants
  <2>3. DictOK(dict', K) /\ dict'.path \in {config'.path, Nowhere}
    BY <2>1, <2>2, LoadedOK
  <2>4. Remembers(latest', dict'.entries) /\ DOMAIN latest' = {}
    BY <2>1, Constants DEF Remembers
  <2> QED
    BY <2>1, <2>2, <2>3, <2>4, Constants DEF DInv
<1>9. ASSUME NEW c \in Config, EditConfig(c) PROVE DInv(K)'
  BY <1>9 DEF EditConfig, DInv
<1>10. CASE Crash
  <2>1. /\ up' = FALSE /\ dict' = NoDict /\ task' = Idle /\ latest' = <<>>
        /\ reading' = [r \in Call |-> NotRead] /\ UNCHANGED <<configFile, config, purged>>
    BY <1>10 DEF Crash
  <2>2. \/ UNCHANGED files
        \/ \E file \in CutLines(Serialize(dict.entries)) : Written(file)
    BY <1>10 DEF Crash
  <2>3. files' \in [Path -> [lines : Seq(Lines(K)), broken : BOOLEAN]]
    BY <2>2, CutOK
  <2>4. DictOK(dict', K) /\ dict'.path = Nowhere
    BY <2>1, NoDictOK DEF NoDict
  <2>5. Remembers(latest', dict'.entries) /\ DOMAIN latest' = {}
    BY <2>1, Constants DEF Remembers
  <2>6. reading' \in [Call -> [read : BOOLEAN, config : Config]]
    BY <2>1, Constants
  <2> QED
    BY <2>1, <2>3, <2>4, <2>5, <2>6, Constants DEF DInv
<1>11. CASE Start
  <2>1. /\ ~up /\ up' = TRUE /\ config' = configFile /\ dict' = Loaded(configFile.path)
        /\ UNCHANGED <<files, task, configFile, reading, latest, purged>>
    BY <1>11 DEF Start
  <2>2. configFile \in Config /\ configFile.path \in Path
    BY Constants DEF DInv
  <2>3. DictOK(dict', K) /\ dict'.path \in {config'.path, Nowhere}
    BY <2>1, <2>2, LoadedOK
  <2>4. Remembers(latest', dict'.entries)
    BY <2>1 DEF DInv, Remembers
  <2> QED
    BY <2>1, <2>2, <2>3, <2>4 DEF DInv
<1>12. CASE UNCHANGED vars
  BY <1>12 DEF vars, DInv
<1> QED
  BY <1>1, <1>2, <1>3, <1>4, <1>5, <1>6, <1>7, <1>8, <1>9, <1>10, <1>11, <1>12 DEF Next

(* What the invariant says of any keys.                                     *)
LEMMA Implied ==
    ASSUME NEW K, DInv(K)
    PROVE  LatestFirst /\ DictFollowsConfig
<1>1. ASSUME NEW k \in DOMAIN latest
      PROVE  LET words == Offered(dict.entries, k) IN words # <<>> /\ words[1] = latest[k]
  <2>1. EntriesOK(dict.entries, K) /\ Leads(Lookup(dict.entries, k[1], k[2]), latest[k])
    BY DEF DInv, DictOK, EntriesOK, Remembers
  <2>2. Lookup(dict.entries, k[1], k[2]) \in Cands
    BY <2>1, LookupTyped
  <2> QED
    BY <2>1, <2>2, LeaderIsOffered
<1>2. DictFollowsConfig
  BY DEF DInv, DictFollowsConfig
<1> QED
  BY <1>1, <1>2 DEF LatestFirst

(* With the keys of the dictionary, it gives the types.                     *)
LEMMA TypesImplied == ASSUME DInv(Key) PROVE TypeOK
<1>1. \A i \in DOMAIN dict.entries : \A o \in DOMAIN dict.entries[i].buckets :
         <<dict.entries[i].midashi, o>> \in Key /\ dict.entries[i].buckets[o] \in Cands
  <2> SUFFICES ASSUME NEW i \in DOMAIN dict.entries, NEW o \in DOMAIN dict.entries[i].buckets
               PROVE  /\ <<dict.entries[i].midashi, o>> \in Key
                      /\ dict.entries[i].buckets[o] \in Cands
    OBVIOUS
  <2>1. dict.entries[i] \in Heads(Key)
    <3>1. dict.entries \in Seq(Heads(Key))
      BY DEF DInv, DictOK
    <3> QED
      BY <3>1
  <2>2. Finite(dict.entries[i].buckets, dict.entries[i].midashi, Key)
    BY <2>1 DEF Heads
  <2> QED
    BY <2>2, BucketMaps DEF Finite
<1>2. \A p \in Path : /\ files[p].broken \in BOOLEAN
                      /\ \A i \in DOMAIN files[p].lines : files[p].lines[i].cands \in Cands
  <2> SUFFICES ASSUME NEW p \in Path
               PROVE  /\ files[p].broken \in BOOLEAN
                      /\ \A i \in DOMAIN files[p].lines : files[p].lines[i].cands \in Cands
    OBVIOUS
  <2>1. files[p].broken \in BOOLEAN /\ files[p].lines \in Seq(Lines(Key))
    BY DEF DInv
  <2>2. \A i \in DOMAIN files[p].lines : files[p].lines[i] \in Lines(Key)
    BY <2>1
  <2> QED
    BY <2>1, <2>2 DEF Lines
<1>3. /\ up \in BOOLEAN /\ dict.dirty \in BOOLEAN /\ dict.path \in Path \cup {Nowhere}
      /\ task.at \in {"idle", "flush", "reload", "load"} /\ task.next \in Config
      /\ configFile \in Config /\ config \in Config
  BY DEF DInv, DictOK, Tasks
<1>4. DOMAIN latest \subseteq Key /\ purged \subseteq Entry
  BY DEF DInv, Remembers
<1>5. \A r \in Call : reading[r] \in [read : BOOLEAN, config : Config]
  BY DEF DInv
<1> QED
  BY <1>1, <1>2, <1>3, <1>4, <1>5 DEF TypeOK

(* The word last chosen for an entry is offered first the next time, until  *)
(* it is purged (UserDict::learn, purge and the lookup of the engine): for   *)
(* any entries, files, configurations, faults and reloads.                  *)
THEOREM LatestIsFirst == Spec => []LatestFirst
<1> DEFINE K == Text \X Seq(Glyph)
<1>1. Closed(K)
  BY AllKeysClosed
<1> HIDE DEF K
<1>2. Init => DInv(K)
  BY <1>1, InitOK
<1>3. DInv(K) /\ [Next]_vars => DInv(K)'
  BY <1>1, StepOK
<1>4. DInv(K) => LatestFirst
  BY Implied
<1> QED
  BY <1>2, <1>3, <1>4, PTL DEF Spec

(* Between requests the dictionary in use is the one the applied            *)
(* configuration names, or none (reload_config, load_dicts).                *)
THEOREM DictIsConfigured == Spec => []DictFollowsConfig
<1> DEFINE K == Text \X Seq(Glyph)
<1>1. Closed(K)
  BY AllKeysClosed
<1> HIDE DEF K
<1>2. Init => DInv(K)
  BY <1>1, InitOK
<1>3. DInv(K) /\ [Next]_vars => DInv(K)'
  BY <1>1, StepOK
<1>4. DInv(K) => DictFollowsConfig
  BY Implied
<1> QED
  BY <1>2, <1>3, <1>4, PTL DEF Spec

(* Keys that are split where they were joined are read back as keys.         *)
LEMMA KeysClosed ==
    ASSUME KeysAreSplit
    PROVE  /\ Closed(Key)
           /\ \A k \in Key : k \in Text \X Seq(Glyph) /\ Split(k[1] \o k[2]) = k
<1>1. ASSUME NEW k \in Key PROVE k \in Text \X Seq(Glyph) /\ Split(k[1] \o k[2]) = k
  <2>1. PICK e \in Entry : k = <<e.midashi, e.okuri>>
    BY DEF Key
  <2>2. e.midashi \in Text /\ e.okuri \in Seq(Glyph) /\ Unambiguous(e.midashi, e.okuri)
    BY <2>1, EntryTyped DEF KeysAreSplit
  <2> QED
    BY <2>1, <2>2, SplitsBack
<1>2. Closed(Key)
  <2>1. FirstLines \in Seq(Lines(Key))
    <3> DEFINE T == [raw : Text, cands : Cands]
    <3>1. FirstLines \in Seq(T)
      BY DictAssumption DEF DictAssumption
    <3>2. ASSUME NEW i \in DOMAIN FirstLines PROVE FirstLines[i] \in Lines(Key)
      <4>1. FirstLines[i] \in T
        <5> HIDE DEF T
        <5> QED
          BY <3>1, <3>2
      <4>2. FirstLines[i].raw[1] = ";" \/ \E k \in Key : FirstLines[i].raw = k[1] \o k[2]
        BY <3>2 DEF KeysAreSplit
      <4>3. FirstLines[i].raw[1] = ";" \/ Split(FirstLines[i].raw) \in Key
        BY <1>1, <4>2
      <4> QED
        BY <4>1, <4>3 DEF Lines
    <3> QED
      BY <3>1, <3>2
  <2> QED
    BY <1>1, <2>1 DEF Closed
<1> QED
  BY <1>1, <1>2

(* Every part of the state keeps its type: what is read back from a file    *)
(* never makes a key that was not learned or there at first, when each of    *)
(* those is read back as one of them.                                      *)
THEOREM Typed == ASSUME KeysAreSplit PROVE Spec => []TypeOK
<1>2. Closed(Key)
  BY KeysClosed
<1>3. Init => DInv(Key)
  BY <1>2, InitOK
<1>4. DInv(Key) /\ [Next]_vars => DInv(Key)'
  BY <1>2, StepOK
<1>5. DInv(Key) => TypeOK
  BY TypesImplied
<1> QED
  BY <1>3, <1>4, <1>5, PTL DEF Spec

(* ---- the store ---- *)

(* ---- the words of candidates ---- *)

(* The words of candidates, one candidate after the other.                  *)
LEMMA WordsStep ==
    /\ WordsOf[<<>>] = <<>>
    /\ \A cands \in Cands : \A c \in Candidate :
          WordsOf[Append(cands, c)]
            = IF Displayable(c) THEN Append(WordsOf[cands], c.words[1]) ELSE WordsOf[cands]
<1>1. <<>> \in Cands /\ WordsOf[<<>>] = <<>>
  <2>1. <<>> \in Cands
    BY DEF Cands
  <2> QED
    BY <2>1, WordsOfUnfolds DEF WordsBody
<1>2. ASSUME NEW cands \in Cands, NEW c \in Candidate
      PROVE  WordsOf[Append(cands, c)]
               = IF Displayable(c) THEN Append(WordsOf[cands], c.words[1]) ELSE WordsOf[cands]
  <2>1. /\ Append(cands, c) \in Cands /\ Append(cands, c) # <<>>
        /\ Front(Append(cands, c)) = cands /\ Last(Append(cands, c)) = c
    BY DEF Cands, Front, Last
  <2> QED
    BY <2>1, WordsOfUnfolds DEF WordsBody
<1> QED
  BY <1>1, <1>2

(* They are words.                                                          *)
LEMMA WordsTyped == \A cands \in Cands : WordsOf[cands] \in Seq(Words)
<1> DEFINE S == {cands \in Cands : WordsOf[cands] \in Seq(Words)}
<1>1. <<>> \in S
  <2>1. <<>> \in Seq(Words) /\ <<>> \in Cands
    BY DEF Cands
  <2> QED
    BY <2>1, WordsStep
<1>2. ASSUME NEW cands \in Seq(Candidate), NEW c \in Candidate, cands \in S
      PROVE  Append(cands, c) \in S
  <2>1. Displayable(c) => c.words[1] \in Words
    BY DEF Displayable, Candidate
  <2>2. cands \in Cands /\ Append(cands, c) \in Cands
    BY DEF Cands
  <2>3. WordsOf[Append(cands, c)]
           = IF Displayable(c) THEN Append(WordsOf[cands], c.words[1]) ELSE WordsOf[cands]
    BY <2>2, WordsStep
  <2>4. WordsOf[cands] \in Seq(Words)
    BY <1>2
  <2>5. WordsOf[Append(cands, c)] \in Seq(Words)
    BY <2>1, <2>3, <2>4
  <2> QED
    BY <2>2, <2>5
<1> HIDE DEF S
<1>3. \A cands \in Cands : cands \in S
  BY <1>1, <1>2, Longer DEF Cands
<1> QED
  BY <1>3 DEF S

(* The words of joined candidates are joined.                               *)
LEMMA WordsJoin ==
    ASSUME NEW a \in Cands, NEW b \in Cands
    PROVE  WordsOf[a \o b] = WordsOf[a] \o WordsOf[b]
<1> DEFINE S == {c \in Cands : WordsOf[a \o c] = WordsOf[a] \o WordsOf[c]}
<1>1. WordsOf[a] \in Seq(Words) /\ a \in Seq(Candidate)
  BY WordsTyped DEF Cands
<1>2. <<>> \in S
  <2>1. a \o <<>> = a /\ WordsOf[a] \o <<>> = WordsOf[a] /\ <<>> \in Cands
    BY <1>1 DEF Cands
  <2> QED
    BY <2>1, WordsStep
<1>3. ASSUME NEW cands \in Seq(Candidate), NEW c \in Candidate, cands \in S
      PROVE  Append(cands, c) \in S
  <2>1. /\ cands \in Cands /\ Append(cands, c) \in Cands /\ a \o cands \in Cands
        /\ a \o Append(cands, c) = Append(a \o cands, c)
    BY <1>1 DEF Cands
  <2>2. WordsOf[Append(cands, c)]
           = IF Displayable(c) THEN Append(WordsOf[cands], c.words[1]) ELSE WordsOf[cands]
    BY <2>1, WordsStep
  <2>3. WordsOf[Append(a \o cands, c)]
           = IF Displayable(c) THEN Append(WordsOf[a \o cands], c.words[1]) ELSE WordsOf[a \o cands]
    BY <2>1, WordsStep
  <2>4. WordsOf[a \o cands] = WordsOf[a] \o WordsOf[cands] /\ WordsOf[cands] \in Seq(Words)
    BY <1>3, <2>1, WordsTyped
  <2>5. Displayable(c) => c.words[1] \in Words
    BY DEF Displayable, Candidate
  <2>6. \A w \in Words : WordsOf[a] \o Append(WordsOf[cands], w)
                            = Append(WordsOf[a] \o WordsOf[cands], w)
    <3>1. PICK p, q : p = WordsOf[a] /\ q = WordsOf[cands]
      OBVIOUS
    <3>2. p \in Seq(Words) /\ q \in Seq(Words)
      BY <1>1, <2>4, <3>1
    <3>3. \A w \in Words : p \o Append(q, w) = Append(p \o q, w)
      BY <3>2, AppendJoin
    <3> QED
      BY <3>1, <3>3
  <2>7. WordsOf[a \o Append(cands, c)] = WordsOf[a] \o WordsOf[Append(cands, c)]
    BY <2>1, <2>2, <2>3, <2>4, <2>5, <2>6
  <2> QED
    BY <2>1, <2>7
<1> HIDE DEF S
<1>4. \A c \in Cands : c \in S
  BY <1>2, <1>3, Longer DEF Cands
<1> QED
  BY <1>4 DEF S

(* A plain word.                                                            *)
LEMMA PlainIs ==
    /\ \A w \in Words : /\ Plain(w) \in Candidate /\ Displayable(Plain(w))
                        /\ Plain(w).words[1] = w
    /\ \A c \in Candidate : Displayable(c) => c.words[1] \in Words /\ c = Plain(c.words[1])
<1>1. ASSUME NEW w \in Words
      PROVE  Plain(w) \in Candidate /\ Displayable(Plain(w)) /\ Plain(w).words[1] = w
  BY DEF Plain, Candidate, Displayable
<1>2. ASSUME NEW c \in Candidate, Displayable(c)
      PROVE  c.words[1] \in Words /\ c = Plain(c.words[1])
  <2>1. c.words \in Seq(Words) /\ Len(c.words) = 1 /\ c.directive = FALSE
    BY <1>2 DEF Candidate, Displayable
  <2>2. c.words = <<c.words[1]>> /\ c.words[1] \in Words
    BY <2>1
  <2>3. c = [directive |-> c.directive, words |-> c.words]
    BY DEF Candidate
  <2> QED
    BY <2>1, <2>2, <2>3 DEF Plain
<1> QED
  BY <1>1, <1>2

(* Taking a word out of the candidates takes it out of their words.         *)
LEMMA WordsWithout ==
    ASSUME NEW cands \in Cands, NEW w \in Words
    PROVE  WordsOf[Without(cands, Plain(w))] = Without(WordsOf[cands], w)
<1> DEFINE S == {c \in Cands : WordsOf[Without(c, Plain(w))] = Without(WordsOf[c], w)}
<1>1. <<>> \in S
  <2>1. \A x : Without(<<>>, x) = <<>>
    <3>1. <<>> \in Seq({})
      OBVIOUS
    <3> QED
      BY <3>1, WithoutTyped
  <2>2. <<>> \in Cands
    BY DEF Cands
  <2> QED
    BY <2>1, <2>2, WordsStep
<1>2. ASSUME NEW f \in Seq(Candidate), NEW c \in Candidate, f \in S PROVE Append(f, c) \in S
  <2>1. f \in Cands /\ Append(f, c) \in Cands /\ Without(f, Plain(w)) \in Cands
    BY WithoutTyped DEF Cands
  <2>2. Without(Append(f, c), Plain(w)) = IF c = Plain(w) THEN Without(f, Plain(w))
                                          ELSE Append(Without(f, Plain(w)), c)
    BY WithoutStep
  <2>3. WordsOf[Append(f, c)]
           = IF Displayable(c) THEN Append(WordsOf[f], c.words[1]) ELSE WordsOf[f]
    BY <2>1, WordsStep
  <2>4. WordsOf[Append(Without(f, Plain(w)), c)]
           = IF Displayable(c) THEN Append(WordsOf[Without(f, Plain(w))], c.words[1])
             ELSE WordsOf[Without(f, Plain(w))]
    BY <2>1, WordsStep
  <2>5. WordsOf[Without(f, Plain(w))] = Without(WordsOf[f], w) /\ WordsOf[f] \in Seq(Words)
    BY <1>2, <2>1, WordsTyped
  <2>6. \A x \in Words : Without(Append(WordsOf[f], x), w)
                            = IF x = w THEN Without(WordsOf[f], w)
                              ELSE Append(Without(WordsOf[f], w), x)
    <3>1. PICK q : q = WordsOf[f]
      OBVIOUS
    <3>2. q \in Seq(Words)
      BY <2>5, <3>1
    <3>3. \A x \in Words : Without(Append(q, x), w) = IF x = w THEN Without(q, w)
                                                     ELSE Append(Without(q, w), x)
      BY <3>2, WithoutStep
    <3> QED
      BY <3>1, <3>3
  <2>7. WordsOf[Without(Append(f, c), Plain(w))] = Without(WordsOf[Append(f, c)], w)
    <3>1. CASE c = Plain(w)
      BY <2>2, <2>3, <2>5, <2>6, <3>1, PlainIs
    <3>2. CASE c # Plain(w) /\ Displayable(c)
      <4>1. c.words[1] \in Words /\ c.words[1] # w
        BY <3>2, PlainIs
      <4> QED
        BY <2>2, <2>3, <2>4, <2>5, <2>6, <3>2, <4>1
    <3>3. CASE c # Plain(w) /\ ~Displayable(c)
      BY <2>2, <2>3, <2>4, <2>5, <3>3
    <3> QED
      BY <3>1, <3>2, <3>3
  <2> QED
    BY <2>1, <2>7
<1> HIDE DEF S
<1>3. \A c \in Cands : c \in S
  BY <1>1, <1>2, Longer DEF Cands
<1> QED
  BY <1>3 DEF S

(* A candidate that hides a word no more; all of them.                      *)
Unnamed(c, w) == IF c.directive THEN Directive(Without(c.words, w)) ELSE c
AllUnnamed(cands, w) == [i \in DOMAIN cands |-> Unnamed(cands[i], w)]
Speaking == {c \in Candidate : c.words # <<>>}

(* They are candidates still.                                               *)
LEMMA UnnamedTyped ==
    ASSUME NEW w
    PROVE  /\ \A c \in Candidate : /\ Unnamed(c, w) \in Candidate
                                   /\ Displayable(Unnamed(c, w)) = Displayable(c)
                                   /\ Displayable(c) => Unnamed(c, w) = c /\ c.words # <<>>
           /\ \A cands \in Cands : AllUnnamed(cands, w) \in Cands
<1>1. ASSUME NEW c \in Candidate
      PROVE  /\ Unnamed(c, w) \in Candidate /\ Displayable(Unnamed(c, w)) = Displayable(c)
             /\ Displayable(c) => Unnamed(c, w) = c /\ c.words # <<>>
  <2>1. CASE c.directive
    <3> DEFINE ws == Without(c.words, w)
    <3>1. ws \in Seq(Words)
      BY WithoutTyped DEF Candidate
    <3>2. Unnamed(c, w) = Directive(ws)
      BY <2>1 DEF Unnamed
    <3> HIDE DEF ws
    <3> QED
      BY <2>1, <3>1, <3>2 DEF Directive, Candidate, Displayable
  <2>2. CASE ~c.directive
    <3>1. Unnamed(c, w) = c /\ c.words \in Seq(Words) /\ Len(c.words) = 1
      BY <2>2 DEF Unnamed, Candidate
    <3>2. c.words # <<>>
      <4> SUFFICES ASSUME c.words = <<>> PROVE FALSE
        OBVIOUS
      <4>1. Len(c.words) = 0
        OBVIOUS
      <4> QED
        BY <3>1, <4>1
    <3> QED
      BY <3>1, <3>2
  <2> QED
    BY <2>1, <2>2
<1>2. ASSUME NEW cands \in Cands PROVE AllUnnamed(cands, w) \in Cands
  <2>1. /\ Len(cands) \in Nat /\ DOMAIN cands = 1 .. Len(cands)
        /\ \A i \in 1 .. Len(cands) : Unnamed(cands[i], w) \in Candidate
    BY <1>1 DEF Cands
  <2>2. AllUnnamed(cands, w) = [i \in 1 .. Len(cands) |-> Unnamed(cands[i], w)]
    BY <2>1 DEF AllUnnamed
  <2> QED
    BY <2>1, <2>2 DEF Cands
<1> QED
  BY <1>1, <1>2

(* Unhidden, one candidate after the other.                                 *)
LEMMA UnhiddenStep ==
    ASSUME NEW w
    PROVE  /\ Unhidden(<<>>, w) = <<>>
           /\ \A cands \in Cands : Unhidden(cands, w) \in Cands
           /\ \A cands \in Cands : \A c \in Candidate :
                 Unhidden(Append(cands, c), w)
                   = Keep(Unhidden(cands, w), Unnamed(c, w), Speaking)
<1>1. ASSUME NEW cands \in Cands
      PROVE  Unhidden(cands, w) = Among(AllUnnamed(cands, w), Speaking)
  <2> DEFINE left == AllUnnamed(cands, w)
             shown == {c \in ToSet(left) : c.words # <<>>}
  <2>1. Unhidden(cands, w) = Among(left, shown)
    BY DEF Unhidden, AllUnnamed, Unnamed
  <2>2. left \in Seq(Candidate)
    BY UnnamedTyped DEF Cands
  <2> HIDE DEF left
  <2>3. /\ DOMAIN left = 1 .. Len(left) /\ Len(left) \in Nat
        /\ left = [i \in 1 .. Len(left) |-> left[i]]
        /\ \A i \in DOMAIN left : left[i] \in ToSet(left) /\ left[i] \in Candidate
    BY <2>2 DEF ToSet
  <2>4. left \in Seq(ToSet(left))
    BY <2>3, IsSeq
  <2>5. \A c \in ToSet(left) : c \in shown <=> c \in Speaking
    BY <2>3 DEF ToSet, Speaking
  <2> HIDE DEF shown
  <2>6. Among(left, shown) = Among(left, Speaking)
    BY <2>4, <2>5, AmongAgree
  <2> QED
    BY <2>1, <2>6 DEF left
<1>2. ASSUME NEW cands \in Cands, NEW c \in Candidate
      PROVE  Unhidden(Append(cands, c), w) = Keep(Unhidden(cands, w), Unnamed(c, w), Speaking)
  <2>1. /\ Append(cands, c) \in Cands /\ AllUnnamed(cands, w) \in Seq(Candidate)
        /\ Unnamed(c, w) \in Candidate
    BY UnnamedTyped DEF Cands
  <2>2. AllUnnamed(Append(cands, c), w) = Append(AllUnnamed(cands, w), Unnamed(c, w))
    <3> DEFINE L == Len(cands)
    <3>1. L \in Nat /\ DOMAIN cands = 1 .. L /\ DOMAIN Append(cands, c) = 1 .. L + 1
      BY DEF Cands
    <3>2. Append(cands, c)[L + 1] = c /\ \A i \in 1 .. L : Append(cands, c)[i] = cands[i]
      BY DEF Cands
    <3> DEFINE a == AllUnnamed(cands, w)
    <3>3. a = [i \in 1 .. L |-> Unnamed(cands[i], w)]
      BY <3>1 DEF AllUnnamed
    <3>4. AllUnnamed(Append(cands, c), w)
            = [i \in 1 .. L + 1 |-> Unnamed(Append(cands, c)[i], w)]
      BY <3>1 DEF AllUnnamed
    <3> HIDE DEF L, a
    <3>5. /\ a \in Seq(Candidate) /\ DOMAIN a = 1 .. L /\ Len(a) = L
          /\ \A i \in 1 .. L : a[i] = Unnamed(cands[i], w)
      BY <2>1, <3>1, <3>3 DEF a
    <3>6. Append(a, Unnamed(c, w))
             = [i \in 1 .. L + 1 |-> IF i = L + 1 THEN Unnamed(c, w) ELSE a[i]]
      <4>1. Unnamed(c, w) \in Candidate
        BY <2>1
      <4> QED
        BY <3>5, <4>1, AppendIs
    <3>7. \A i \in 1 .. L + 1 : Unnamed(Append(cands, c)[i], w)
                                  = IF i = L + 1 THEN Unnamed(c, w) ELSE a[i]
      BY <3>1, <3>2, <3>5
    <3> QED
      BY <3>4, <3>6, <3>7 DEF a
  <2>3. Among(Append(AllUnnamed(cands, w), Unnamed(c, w)), Speaking)
           = Keep(Among(AllUnnamed(cands, w), Speaking), Unnamed(c, w), Speaking)
    BY <2>1, AmongStep
  <2> QED
    BY <1>1, <2>1, <2>2, <2>3
<1>3. <<>> \in Cands /\ Unhidden(<<>>, w) = <<>>
  <2>1. <<>> \in Cands /\ AllUnnamed(<<>>, w) = <<>> /\ <<>> \in Seq(Candidate)
    BY DEF Cands, AllUnnamed
  <2> QED
    BY <1>1, <2>1, AmongFront
<1>4. ASSUME NEW cands \in Cands PROVE Unhidden(cands, w) \in Cands
  <2>1. AllUnnamed(cands, w) \in Seq(Candidate)
    BY UnnamedTyped DEF Cands
  <2>2. Among(AllUnnamed(cands, w), Speaking) \in Seq(Candidate)
    BY <2>1, AmongPlaces
  <2> QED
    BY <1>1, <2>2 DEF Cands
<1> QED
  BY <1>2, <1>3, <1>4

(* What directives hide has no part in the words of the entry.               *)
LEMMA WordsUnhidden ==
    ASSUME NEW cands \in Cands, NEW w
    PROVE  WordsOf[Unhidden(cands, w)] = WordsOf[cands]
<1> DEFINE S == {c \in Cands : WordsOf[Unhidden(c, w)] = WordsOf[c]}
<1>1. <<>> \in S
  <2>1. <<>> \in Cands
    BY DEF Cands
  <2> QED
    BY <2>1, UnhiddenStep
<1>2. ASSUME NEW f \in Seq(Candidate), NEW c \in Candidate, f \in S PROVE Append(f, c) \in S
  <2>1. f \in Cands /\ Append(f, c) \in Cands /\ Unhidden(f, w) \in Cands
    <3>1. f \in Cands /\ Append(f, c) \in Cands
      BY DEF Cands
    <3> QED
      BY <3>1, UnhiddenStep
  <2>2. Unhidden(Append(f, c), w) = Keep(Unhidden(f, w), Unnamed(c, w), Speaking)
    BY <2>1, UnhiddenStep
  <2>3. WordsOf[Append(f, c)]
           = IF Displayable(c) THEN Append(WordsOf[f], c.words[1]) ELSE WordsOf[f]
    BY <2>1, WordsStep
  <2>4. /\ Unnamed(c, w) \in Candidate /\ Displayable(Unnamed(c, w)) = Displayable(c)
        /\ Displayable(c) => Unnamed(c, w) = c /\ Unnamed(c, w) \in Speaking
    BY UnnamedTyped DEF Speaking
  <2>5. WordsOf[Append(Unhidden(f, w), Unnamed(c, w))]
           = IF Displayable(c) THEN Append(WordsOf[Unhidden(f, w)], Unnamed(c, w).words[1])
             ELSE WordsOf[Unhidden(f, w)]
    BY <2>1, <2>4, WordsStep
  <2>6. WordsOf[Unhidden(f, w)] = WordsOf[f]
    BY <1>2
  <2>7. WordsOf[Unhidden(Append(f, c), w)] = WordsOf[Append(f, c)]
    BY <2>2, <2>3, <2>4, <2>5, <2>6 DEF Keep
  <2> QED
    BY <2>1, <2>7
<1> HIDE DEF S
<1>3. \A c \in Cands : c \in S
  BY <1>1, <1>2, Longer DEF Cands
<1> QED
  BY <1>3 DEF S

(* A learned word comes first, the others keep their order.                 *)
LEMMA WordsRelearned ==
    ASSUME NEW cands \in Cands, NEW w \in Words
    PROVE  WordsOf[Unhidden(Promoted(cands, w), w)] = <<w>> \o Without(WordsOf[cands], w)
<1> DEFINE rest == Without(cands, Plain(w))
           one == <<Plain(w)>>
<1>1. rest \in Cands /\ WordsOf[rest] = Without(WordsOf[cands], w)
  BY WithoutTyped, WordsWithout DEF Cands
<1>2. one \in Cands /\ WordsOf[one] = <<w>>
  <2>1. <<>> \in Cands /\ Plain(w) \in Candidate /\ one = Append(<<>>, Plain(w))
    BY PlainIs DEF Cands
  <2>2. WordsOf[one] = Append(<<>>, w)
    BY <2>1, WordsStep, PlainIs
  <2> QED
    BY <2>1, <2>2 DEF Cands
<1>3. Promoted(cands, w) = one \o rest
  BY DEF Promoted
<1> HIDE DEF one, rest
<1>4. one \o rest \in Cands /\ WordsOf[one \o rest] = WordsOf[one] \o WordsOf[rest]
  <2>1. one \o rest \in Cands
    BY <1>1, <1>2 DEF Cands
  <2> QED
    BY <1>1, <1>2, <2>1, WordsJoin
<1> QED
  BY <1>1, <1>2, <1>3, <1>4, WordsUnhidden

(* ---- learning and purging, as steps of the store ---- *)

(* Learning puts a word first in its entry and changes no other.            *)
LEMMA LearnedWords ==
    ASSUME NEW K, NEW entries, EntriesOK(entries, K), Key \subseteq K, NEW e \in Entry
    PROVE  /\ Content(Learned(entries, e))[<<e.midashi, e.okuri>>]
                = <<e.word>> \o Without(Content(entries)[<<e.midashi, e.okuri>>], e.word)
           /\ \A j \in Key \ {<<e.midashi, e.okuri>>} :
                  Content(Learned(entries, e))[j] = Content(entries)[j]
<1> DEFINE k == <<e.midashi, e.okuri>>
           ws == <<e.word>> \o Without(Content(entries)[k], e.word)
<1>1. k \in Key /\ k \in K /\ e.word \in Words
  BY EntryTyped DEF Key
<1>2. \A m, o : Lookup(Learned(entries, e), m, o)
                   = IF m = e.midashi /\ o = e.okuri THEN Relearned(entries, e)
                     ELSE Lookup(entries, m, o)
  BY <1>1, LearnedOK
<1>3. Lookup(entries, e.midashi, e.okuri) \in Cands
  BY LookupTyped
<1>4. Content(entries)[k] = WordsOf[Lookup(entries, e.midashi, e.okuri)]
  BY <1>1 DEF Content
<1>5. WordsOf[Relearned(entries, e)] = ws
  BY <1>1, <1>3, <1>4, WordsRelearned DEF Relearned
<1>6. ASSUME NEW j \in Key
      PROVE  WordsOf[Lookup(Learned(entries, e), j[1], j[2])]
               = IF j = k THEN ws ELSE WordsOf[Lookup(entries, j[1], j[2])]
  <2>1. j = <<j[1], j[2]>>
    BY DEF Key
  <2>2. (j[1] = e.midashi /\ j[2] = e.okuri) <=> j = k
    BY <2>1
  <2> HIDE DEF ws, k
  <2> QED
    BY <1>2, <1>5, <2>2
<1> HIDE DEF ws
<1>7. /\ Content(Learned(entries, e))[k] = ws
      /\ \A j \in Key \ {k} : Content(Learned(entries, e))[j] = Content(entries)[j]
  <2> HIDE DEF k
  <2> QED
    BY <1>1, <1>6 DEF Content
<1> QED
  BY <1>7 DEF ws

(* Purging takes a word out of its entry and changes no other.              *)
LEMMA PurgedWords ==
    ASSUME NEW K, NEW entries, EntriesOK(entries, K), Key \subseteq K, NEW e \in Entry
    PROVE  /\ Content(Purged(entries, e))[<<e.midashi, e.okuri>>]
                = Without(Content(entries)[<<e.midashi, e.okuri>>], e.word)
           /\ \A j \in Key \ {<<e.midashi, e.okuri>>} :
                  Content(Purged(entries, e))[j] = Content(entries)[j]
<1> DEFINE k == <<e.midashi, e.okuri>>
           ws == Without(Content(entries)[k], e.word)
<1>1. k \in Key /\ k \in K /\ e.word \in Words
  BY EntryTyped DEF Key
<1>2. \A m, o : Lookup(Purged(entries, e), m, o)
                   = IF m = e.midashi /\ o = e.okuri
                     THEN Without(Lookup(entries, m, o), Plain(e.word))
                     ELSE Lookup(entries, m, o)
  BY <1>1, PurgedOK
<1>3. Lookup(entries, e.midashi, e.okuri) \in Cands
  BY LookupTyped
<1>4. Content(entries)[k] = WordsOf[Lookup(entries, e.midashi, e.okuri)]
  BY <1>1 DEF Content
<1>5. WordsOf[Without(Lookup(entries, e.midashi, e.okuri), Plain(e.word))] = ws
  BY <1>1, <1>3, <1>4, WordsWithout
<1>6. ASSUME NEW j \in Key
      PROVE  WordsOf[Lookup(Purged(entries, e), j[1], j[2])]
               = IF j = k THEN ws ELSE WordsOf[Lookup(entries, j[1], j[2])]
  <2>1. j = <<j[1], j[2]>>
    BY DEF Key
  <2>2. (j[1] = e.midashi /\ j[2] = e.okuri) <=> j = k
    BY <2>1
  <2> HIDE DEF ws, k
  <2> QED
    BY <1>2, <1>5, <2>2
<1> HIDE DEF ws
<1>7. /\ Content(Purged(entries, e))[k] = ws
      /\ \A j \in Key \ {k} : Content(Purged(entries, e))[j] = Content(entries)[j]
  <2> HIDE DEF k
  <2> QED
    BY <1>1, <1>6 DEF Content
<1> QED
  BY <1>7 DEF ws

(* What the store sees stays as it is when dictionary and files do.          *)
LEMMA Unseen ==
    ASSUME UNCHANGED <<dict, files>>
    PROVE  UNCHANGED Store!vars
  BY DEF Store!vars

(* The store takes a word out of a list in the same way.                    *)
LEMMA SameWithout == \A s, x : Store!Without(s, x) = Without(s, x)
<1> SUFFICES ASSUME NEW s, NEW x PROVE Store!Without(s, x) = Without(s, x)
  OBVIOUS
<1>1. \A set : Store!Among(s, set) = Among(s, set)
  BY DEF Store!Among, Among
<1> QED
  BY <1>1 DEF Store!Without, Without, Store!ToSet, ToSet

(* Learning a word changes one entry of the store.                          *)
LEMMA LearnRefines ==
    ASSUME NEW K, Key \subseteq K, DInv(K), NEW e \in Entry, Learn(e)
    PROVE  Store!Next \/ UNCHANGED Store!vars
<1> DEFINE k == <<e.midashi, e.okuri>>
           old == Content(dict.entries)
           new == Content(dict.entries)'
<1>1. /\ dict'.entries = Learned(dict.entries, e) /\ dict'.path = dict.path
      /\ files' = files /\ EntriesOK(dict.entries, K)
  BY DEF Learn, DInv, DictOK, EntriesOK
<1>2. k \in Key /\ old = [j \in Key |-> old[j]] /\ new = [j \in Key |-> new[j]]
  BY DEF Key, Content
<1>3. new[k] = <<e.word>> \o Without(old[k], e.word) /\ \A j \in Key \ {k} : new[j] = old[j]
  BY <1>1, LearnedWords
<1>4. CASE new[k] = old[k]
  BY <1>1, <1>2, <1>3, <1>4 DEF Store!vars
<1>5. CASE new[k] # old[k]
  <2>1. e.word \in Store!Known(new[k])
    BY <1>3 DEF Store!Known
  <2>2. Store!Change(k)
    BY <1>1, <1>3, <1>5, <2>1, SameWithout DEF Store!Change
  <2> QED
    BY <1>2, <2>2 DEF Store!Next
<1> QED
  BY <1>4, <1>5

(* Purging a word changes one entry of the store, or none.                  *)
LEMMA PurgeRefines ==
    ASSUME NEW K, Key \subseteq K, DInv(K), NEW e \in Entry, Purge(e)
    PROVE  Store!Next \/ UNCHANGED Store!vars
<1> DEFINE k == <<e.midashi, e.okuri>>
           old == Content(dict.entries)
           new == Content(dict.entries)'
<1>1. /\ dict'.entries = Purged(dict.entries, e) /\ dict'.path = dict.path
      /\ files' = files /\ EntriesOK(dict.entries, K)
  BY DEF Purge, DInv, DictOK, EntriesOK
<1>2. k \in Key /\ old = [j \in Key |-> old[j]] /\ new = [j \in Key |-> new[j]]
  BY DEF Key, Content
<1>3. new[k] = Without(old[k], e.word) /\ \A j \in Key \ {k} : new[j] = old[j]
  BY <1>1, PurgedWords
<1>4. CASE new[k] = old[k]
  BY <1>1, <1>2, <1>3, <1>4 DEF Store!vars
<1>5. CASE new[k] # old[k]
  <2>1. e.word \in Store!Known(old[k])
    <3>1. old[k] \in Seq(Words)
      BY <1>1, <1>2, LookupTyped, WordsTyped DEF Content
    <3>2. e.word \in ToSet(old[k])
      BY <1>3, <1>5, <3>1, WithoutNone
    <3> QED
      BY <3>1, <3>2 DEF ToSet, Store!Known
  <2>2. Store!Change(k)
    BY <1>1, <1>3, <1>5, <2>1, SameWithout DEF Store!Change
  <2> QED
    BY <1>2, <2>2 DEF Store!Next
<1> QED
  BY <1>4, <1>5

(* ---- the lines of an entry ---- *)

(* The candidates of the lines with some text.                              *)
LineSet == [raw : Text, cands : Cands]
OfText(raw) == {line \in LineSet : line.raw = raw}
CandsOf(lines) == [i \in DOMAIN lines |-> lines[i].cands]
Held(lines, raw) == FlattenSeq(CandsOf(Among(lines, OfText(raw))))

(* They are what the store sees of a file.                                  *)
LEMMA StoredIsHeld ==
    ASSUME NEW lines \in Seq(LineSet), NEW k \in Key
    PROVE  Stored(lines)[k] = WordsOf[Held(lines, k[1] \o k[2])]
<1> DEFINE raw == k[1] \o k[2]
           own == {line \in ToSet(lines) : line.raw = raw}
<1>1. Stored(lines)[k] = WordsOf[FlattenSeq(CandsOf(Among(lines, own)))]
  BY DEF Stored, CandsOf
<1>2. /\ lines = [i \in 1 .. Len(lines) |-> lines[i]] /\ Len(lines) \in Nat
      /\ \A i \in 1 .. Len(lines) : lines[i] \in ToSet(lines)
      /\ \A line \in ToSet(lines) : line \in LineSet
  BY DEF ToSet
<1>3. lines \in Seq(ToSet(lines))
  BY <1>2, IsSeq
<1>4. \A line \in ToSet(lines) : line \in own <=> line \in OfText(raw)
  BY <1>2 DEF OfText
<1> HIDE DEF own, raw
<1>5. Among(lines, own) = Among(lines, OfText(raw))
  BY <1>3, <1>4, AmongAgree
<1> QED
  BY <1>1, <1>5 DEF Held, raw

(* They are found one line after the other.                                 *)
LEMMA HeldStep ==
    ASSUME NEW raw
    PROVE  /\ Held(<<>>, raw) = <<>>
           /\ \A lines \in Seq(LineSet) : Held(lines, raw) \in Cands
           /\ \A lines \in Seq(LineSet) : \A line \in LineSet :
                 Held(Append(lines, line), raw)
                   = IF line.raw = raw THEN Held(lines, raw) \o line.cands ELSE Held(lines, raw)
<1>1. Held(<<>>, raw) = <<>>
  <2>1. <<>> \in Seq(LineSet)
    OBVIOUS
  <2>2. Among(<<>>, OfText(raw)) = <<>>
    BY <2>1, AmongFront
  <2>3. CandsOf(<<>>) = <<>>
    BY DEF CandsOf
  <2> QED
    BY <2>2, <2>3, FlattenStep DEF Held
<1>2. ASSUME NEW own \in Seq(LineSet) PROVE CandsOf(own) \in Seq(Cands)
  <2>1. /\ Len(own) \in Nat /\ CandsOf(own) = [i \in 1 .. Len(own) |-> own[i].cands]
    BY DEF CandsOf
  <2>2. ASSUME NEW i \in 1 .. Len(own) PROVE own[i].cands \in Cands
    <3>1. own[i] \in LineSet
      OBVIOUS
    <3> QED
      BY <3>1 DEF LineSet
  <2> QED
    BY <2>1, <2>2
<1>3. ASSUME NEW own \in Seq(LineSet), NEW line \in LineSet
      PROVE  CandsOf(Append(own, line)) = Append(CandsOf(own), line.cands)
  <2> DEFINE L == Len(own)
             a == CandsOf(own)
  <2>1. /\ L \in Nat /\ DOMAIN own = 1 .. L /\ DOMAIN Append(own, line) = 1 .. L + 1
        /\ Append(own, line)[L + 1] = line /\ \A i \in 1 .. L : Append(own, line)[i] = own[i]
    OBVIOUS
  <2>2. CandsOf(Append(own, line)) = [i \in 1 .. L + 1 |-> Append(own, line)[i].cands]
    BY <2>1 DEF CandsOf
  <2>3. a = [i \in 1 .. L |-> own[i].cands] /\ a \in Seq(Cands) /\ line.cands \in Cands
    BY <1>2, <2>1 DEF CandsOf, LineSet
  <2> HIDE DEF a, L
  <2>4. Len(a) = L /\ \A i \in 1 .. L : a[i] = own[i].cands
    BY <2>1, <2>3
  <2>5. Append(a, line.cands) = [i \in 1 .. L + 1 |-> IF i = L + 1 THEN line.cands ELSE a[i]]
    <3> DEFINE b == Append(a, line.cands)
    <3>1. DOMAIN a = 1 .. L /\ Len(a) = L
      BY <2>1, <2>3
    <3>2. b = [i \in 1 .. L + 1 |-> IF i = L + 1 THEN line.cands ELSE a[i]]
      BY <2>1, <3>1
    <3> QED
      BY <3>2
  <2>6. \A i \in 1 .. L + 1 : Append(own, line)[i].cands = IF i = L + 1 THEN line.cands ELSE a[i]
    BY <2>1, <2>4
  <2> QED
    BY <2>2, <2>5, <2>6 DEF a
<1>4. ASSUME NEW lines \in Seq(LineSet) PROVE Among(lines, OfText(raw)) \in Seq(LineSet)
  BY AmongPlaces
<1>5. ASSUME NEW lines \in Seq(LineSet) PROVE Held(lines, raw) \in Cands
  <2>1. CandsOf(Among(lines, OfText(raw))) \in Seq(Seq(Candidate))
    BY <1>2, <1>4 DEF Cands
  <2> QED
    BY <2>1, FlattenTyped DEF Held, Cands
<1>6. ASSUME NEW lines \in Seq(LineSet), NEW line \in LineSet
      PROVE  Held(Append(lines, line), raw)
               = IF line.raw = raw THEN Held(lines, raw) \o line.cands ELSE Held(lines, raw)
  <2> DEFINE own == Among(lines, OfText(raw))
  <2>1. Among(Append(lines, line), OfText(raw)) = Keep(own, line, OfText(raw))
    BY AmongStep
  <2>2. own \in Seq(LineSet) /\ CandsOf(own) \in Seq(Cands) /\ line.cands \in Cands
    BY <1>2, <1>4 DEF LineSet
  <2> HIDE DEF own
  <2>3. CASE line.raw # raw
    BY <2>1, <2>3 DEF Keep, OfText, Held, own
  <2>4. CASE line.raw = raw
    <3>1. Among(Append(lines, line), OfText(raw)) = Append(own, line)
      BY <2>1, <2>4 DEF Keep, OfText
    <3>2. CandsOf(Append(own, line)) = Append(CandsOf(own), line.cands)
      BY <1>3, <2>2
    <3>3. PICK seqs : seqs = CandsOf(own)
      OBVIOUS
    <3>4. seqs \in Seq(Seq(Candidate)) /\ line.cands \in Seq(Candidate)
      BY <2>2, <3>3 DEF Cands
    <3>5. FlattenSeq(Append(seqs, line.cands)) = FlattenSeq(seqs) \o line.cands
      BY <3>4, FlattenStep
    <3> QED
      BY <2>4, <3>1, <3>2, <3>3, <3>5 DEF Held, own
  <2> QED
    BY <2>3, <2>4
<1> QED
  BY <1>1, <1>5, <1>6

(* ---- what a file reads back as ---- *)

(* Reading lines that are no comments.                                      *)
ReadAll(lines) == (CHOOSE f : Read(f, lines, Len(lines)))[Len(lines)]
Noted == {line \in LineSet : line.raw[1] # ";"}

(* No lines.                                                                *)
LEMMA ReadNone == ReadAll(<<>>) = <<>>
<1>1. \E h : Read(h, <<>>, 0)
  BY ReadExists
<1>2. Read(CHOOSE h : Read(h, <<>>, 0), <<>>, 0)
  BY <1>1
<1>3. (CHOOSE h : Read(h, <<>>, 0))[0] = <<>>
  BY <1>2 DEF Read
<1> QED
  BY <1>3 DEF ReadAll

(* One line after the other.                                                *)
LEMMA ReadStep ==
    ASSUME NEW lines \in Seq(LineSet), NEW line \in LineSet
    PROVE  ReadAll(Append(lines, line)) = AddLine(ReadAll(lines), line)
<1> DEFINE N == Len(lines)
           M == N + 1
           more == Append(lines, line)
           f == CHOOSE h : Read(h, lines, N)
           g == CHOOSE h : Read(h, more, M)
<1>1. /\ N \in Nat /\ M \in Nat /\ M = N + 1 /\ Len(more) = M /\ more[M] = line
      /\ \A i \in 1 .. N : more[i] = lines[i]
  OBVIOUS
<1>2. ReadAll(lines) = f[N]
  BY DEF ReadAll
<1>3. ReadAll(more) = g[M]
  <2> HIDE DEF M, more
  <2> QED
    BY <1>1 DEF ReadAll
<1> HIDE DEF more, M, N
<1>4. Read(f, lines, N) /\ Read(g, more, M)
  <2>1. \E h : Read(h, lines, N)
    BY <1>1, ReadExists
  <2>2. \E h : Read(h, more, M)
    BY <1>1, ReadExists
  <2> QED
    BY <2>1, <2>2
<1> HIDE DEF f, g
<1>5. f[0] = <<>> /\ \A n \in 1 .. N : f[n] = AddLine(f[n - 1], lines[n])
  BY <1>1, <1>4 DEF Read
<1>6. g[0] = <<>> /\ \A n \in 1 .. M : g[n] = AddLine(g[n - 1], more[n])
  BY <1>1, <1>4 DEF Read
<1> DEFINE S == {n \in 0 .. N : f[n] = g[n]}
<1>7. 0 \in S
  BY <1>1, <1>5, <1>6
<1>8. ASSUME NEW n \in 0 .. N - 1, n \in S PROVE n + 1 \in S
  <2>1. n + 1 \in 1 .. N /\ n + 1 \in 1 .. M /\ (n + 1) - 1 = n /\ n + 1 \in 0 .. N
    BY <1>1
  <2>2. f[n + 1] = AddLine(f[n], lines[n + 1]) /\ g[n + 1] = AddLine(g[n], more[n + 1])
    BY <1>5, <1>6, <2>1
  <2>3. f[n + 1] = g[n + 1]
    BY <1>1, <1>8, <2>1, <2>2
  <2> QED
    BY <2>1, <2>3
<1>9. f[N] = g[N]
  <2> HIDE DEF S
  <2>1. \A n \in 0 .. N : n \in S
    BY <1>1, <1>7, <1>8, UpTo
  <2> QED
    BY <1>1, <2>1 DEF S
<1>10. g[M] = AddLine(g[N], line)
  BY <1>1, <1>6
<1> QED
  BY <1>2, <1>3, <1>9, <1>10 DEF more

(* Parse, one line after the other.                                         *)
LEMMA ParseStep ==
    /\ Parse(<<>>) = <<>>
    /\ \A lines \in Seq(LineSet) : \A line \in LineSet :
          Parse(Append(lines, line)) = IF line.raw[1] = ";" THEN Parse(lines)
                                       ELSE AddLine(Parse(lines), line)
<1>1. ASSUME NEW lines \in Seq(LineSet) PROVE Parse(lines) = ReadAll(Among(lines, Noted))
  <2> DEFINE noted == {line \in ToSet(lines) : line.raw[1] # ";"}
  <2>1. Parse(lines) = ReadAll(Among(lines, noted))
    BY DEF Parse, ReadAll, Read
  <2>2. /\ lines = [i \in 1 .. Len(lines) |-> lines[i]] /\ Len(lines) \in Nat
        /\ \A i \in 1 .. Len(lines) : lines[i] \in ToSet(lines)
        /\ \A line \in ToSet(lines) : line \in LineSet
    BY DEF ToSet
  <2>3. lines \in Seq(ToSet(lines))
    BY <2>2, IsSeq
  <2>4. \A line \in ToSet(lines) : line \in noted <=> line \in Noted
    BY <2>2 DEF Noted
  <2> HIDE DEF noted
  <2>5. Among(lines, noted) = Among(lines, Noted)
    BY <2>3, <2>4, AmongAgree
  <2> QED
    BY <2>1, <2>5
<1>2. ASSUME NEW lines \in Seq(LineSet), NEW line \in LineSet
      PROVE  Parse(Append(lines, line)) = IF line.raw[1] = ";" THEN Parse(lines)
                                          ELSE AddLine(Parse(lines), line)
  <2> DEFINE own == Among(lines, Noted)
  <2>1. Append(lines, line) \in Seq(LineSet) /\ own \in Seq(LineSet)
    BY AmongPlaces
  <2>2. Among(Append(lines, line), Noted) = Keep(own, line, Noted)
    BY AmongStep
  <2> HIDE DEF own
  <2>3. ReadAll(Append(own, line)) = AddLine(ReadAll(own), line)
    BY <2>1, ReadStep
  <2> QED
    BY <1>1, <2>1, <2>2, <2>3 DEF Keep, Noted, own
<1>3. Parse(<<>>) = <<>>
  <2>1. <<>> \in Seq(LineSet)
    OBVIOUS
  <2>2. Among(<<>>, Noted) = <<>>
    BY <2>1, AmongFront
  <2> QED
    BY <1>1, <2>1, <2>2, ReadNone
<1> QED
  BY <1>2, <1>3

(* Nothing is found where there are no entries.                             *)
LEMMA LookupNone == \A m, o : Lookup(<<>>, m, o) = <<>>
<1>1. EntriesOK(<<>>, {}) /\ ToSet(<<>>) = {}
  BY DEF EntriesOK, Distinct, ToSet
<1>2. \A m : Buckets(<<>>, m) = <<>>
  BY <1>1, BucketsFound
<1>3. DOMAIN <<>> = {}
  OBVIOUS
<1> QED
  BY <1>2, <1>3 DEF Lookup

(* A sequence joined with none, or taken apart at its last member.          *)
LEMMA Parts ==
    ASSUME NEW T, NEW s \in Seq(T)
    PROVE  /\ s \o <<>> = s
           /\ \A t \in Seq(T) : s # <<>> => (s \o t)[1] = s[1]
           /\ s # <<>> => Front(s) \o <<Last(s)>> = s
<1>1. s \o <<>> = s
  OBVIOUS
<1>2. ASSUME NEW t \in Seq(T), s # <<>> PROVE (s \o t)[1] = s[1]
  <2>1. Len(s) \in Nat /\ Len(s) # 0 /\ Len(t) \in Nat
    BY <1>2
  <2> QED
    BY <2>1
<1>3. ASSUME s # <<>> PROVE Front(s) \o <<Last(s)>> = s
  <2> DEFINE L == Len(s)
             f == Front(s)
  <2>1. L \in Nat /\ L >= 1 /\ L - 1 \in Nat /\ L - 1 <= L
    BY <1>3
  <2>2. f = SubSeq(s, 1, L - 1)
    BY DEF Front
  <2>3. s[L] \in T /\ Last(s) = s[L]
    BY <2>1 DEF Last
  <2>4. Len(s) = L /\ DOMAIN s = 1 .. L /\ s \in Seq(T) /\ <<>> \in Seq(T)
    OBVIOUS
  <2> HIDE DEF f, L
  <2>5. f \in Seq(T) /\ Len(f) = L - 1 /\ \A i \in 1 .. L - 1 : f[i] = s[i]
    BY <2>1, <2>2, <2>4
  <2>6. Append(f, s[L]) = s
    BY <2>1, <2>3, <2>4, <2>5
  <2>7. f \o Append(<<>>, s[L]) = Append(f \o <<>>, s[L])
    BY <2>3, <2>4, <2>5, AppendJoin
  <2>8. f \o <<>> = f /\ Append(<<>>, s[L]) = <<s[L]>>
    BY <2>5
  <2>9. f \o <<s[L]>> = s
    BY <2>6, <2>7, <2>8
  <2> QED
    BY <2>3, <2>9 DEF f
<1> QED
  BY <1>1, <1>2, <1>3

(* The text of a line of an entry is that of its key.                       *)
LEMMA RawOfKey ==
    ASSUME KeysReadBack, NEW line \in Lines(Key), NEW k \in Key
    PROVE  /\ line.raw[1] = ";" => line.raw # k[1] \o k[2]
           /\ line.raw[1] # ";" => Split(line.raw) \in Key
           /\ line.raw[1] # ";" => (Split(line.raw) = k <=> line.raw = k[1] \o k[2])
<1>1. /\ \A j \in Key : j \in Text \X Seq(Glyph) /\ Split(j[1] \o j[2]) = j /\ j[1][1] # ";"
      /\ line.raw \in Text /\ line.raw \in Seq(Glyph) /\ line.raw # <<>>
  BY KeysClosed DEF KeysReadBack, Lines, Text
<1>2. (k[1] \o k[2])[1] = k[1][1]
  <2>1. PICK m, o : m = k[1] /\ o = k[2]
    OBVIOUS
  <2>2. m \in Seq(Glyph) /\ o \in Seq(Glyph) /\ m # <<>>
    BY <1>1, <2>1 DEF Text
  <2> QED
    BY <2>1, <2>2, Parts
<1>3. line.raw[1] = ";" => line.raw # k[1] \o k[2]
  BY <1>1, <1>2
<1>4. line.raw[1] # ";" => Split(line.raw) \in Key
  BY DEF Lines
<1>5. ASSUME Split(line.raw) = k PROVE line.raw = k[1] \o k[2]
  <2>1. CASE Last(line.raw) \in Alpha /\ ~(ToSet(line.raw) \subseteq Ascii)
    <3>1. k = <<Front(line.raw), <<Last(line.raw)>>>>
      BY <1>5, <2>1 DEF Split
    <3>2. Front(line.raw) \o <<Last(line.raw)>> = line.raw
      <4>1. PICK raw : raw = line.raw
        OBVIOUS
      <4>2. raw \in Seq(Glyph) /\ raw # <<>>
        BY <1>1, <4>1
      <4> QED
        BY <4>1, <4>2, Parts
    <3> QED
      BY <3>1, <3>2
  <2>2. CASE ~(Last(line.raw) \in Alpha /\ ~(ToSet(line.raw) \subseteq Ascii))
    <3>1. k = <<line.raw, <<>>>>
      BY <1>5, <2>2 DEF Split
    <3>2. line.raw \o <<>> = line.raw
      <4>1. PICK raw : raw = line.raw
        OBVIOUS
      <4>2. raw \in Seq(Glyph)
        BY <1>1, <4>1
      <4> QED
        BY <4>1, <4>2, Parts
    <3> QED
      BY <3>1, <3>2
  <2> QED
    BY <2>1, <2>2
<1> QED
  BY <1>1, <1>3, <1>4, <1>5

(* What is read from a file is what its lines say, for every entry.         *)
LEMMA ReadBack ==
    ASSUME KeysReadBack, NEW lines \in Seq(Lines(Key)), NEW k \in Key
    PROVE  Lookup(Parse(lines), k[1], k[2]) = Held(lines, k[1] \o k[2])
<1> DEFINE raw == k[1] \o k[2]
           S == {ls \in Seq(Lines(Key)) : Lookup(Parse(ls), k[1], k[2]) = Held(ls, raw)}
<1>1. Closed(Key) /\ k = <<k[1], k[2]>> /\ Key \subseteq Text \X Seq(Glyph)
  <2>1. Closed(Key)
    BY KeysClosed DEF KeysReadBack
  <2>2. k = <<k[1], k[2]>>
    BY DEF Key
  <2> QED
    BY <2>1, <2>2 DEF Closed
<1>2. Lines(Key) \subseteq LineSet /\ Seq(Lines(Key)) \subseteq Seq(LineSet)
  <2>1. Lines(Key) \subseteq LineSet
    BY DEF Lines, LineSet
  <2> QED
    BY <2>1
<1> HIDE DEF raw
<1>3. <<>> \in S
  <2>1. <<>> \in Seq(Lines(Key))
    OBVIOUS
  <2>3. Parse(<<>>) = <<>> /\ Held(<<>>, raw) = <<>>
    BY ParseStep, HeldStep
  <2>2. Lookup(<<>>, k[1], k[2]) = <<>>
    BY LookupNone
  <2> QED
    BY <2>1, <2>2, <2>3
<1>4. ASSUME NEW ls \in Seq(Lines(Key)), NEW line \in Lines(Key), ls \in S
      PROVE  Append(ls, line) \in S
  <2>1. Append(ls, line) \in Seq(Lines(Key)) /\ ls \in Seq(LineSet) /\ line \in LineSet
    BY <1>2
  <2>2. EntriesOK(Parse(ls), Key)
    BY <1>1, ParseOK
  <2>3. Parse(Append(ls, line)) = IF line.raw[1] = ";" THEN Parse(ls) ELSE AddLine(Parse(ls), line)
    BY <2>1, ParseStep
  <2>4. Held(Append(ls, line), raw) = IF line.raw = raw THEN Held(ls, raw) \o line.cands
                                      ELSE Held(ls, raw)
    BY <2>1, HeldStep
  <2>5. Lookup(Parse(ls), k[1], k[2]) = Held(ls, raw)
    BY <1>4
  <2>6. CASE line.raw[1] = ";"
    <3>1. line.raw # raw
      BY <2>6, RawOfKey DEF raw
    <3>2. Lookup(Parse(Append(ls, line)), k[1], k[2]) = Held(Append(ls, line), raw)
      BY <2>3, <2>4, <2>5, <2>6, <3>1
    <3> QED
      BY <2>1, <3>2
  <2>7. CASE line.raw[1] # ";"
    <3>1. Split(line.raw) \in Key /\ (Split(line.raw) = k <=> line.raw = raw)
      BY <2>7, RawOfKey DEF raw
    <3>2. \A m, o : Lookup(AddLine(Parse(ls), line), m, o)
                       = IF <<m, o>> = Split(line.raw) THEN Lookup(Parse(ls), m, o) \o line.cands
                         ELSE Lookup(Parse(ls), m, o)
      <4>1. PICK entries : entries = Parse(ls)
        OBVIOUS
      <4>2. \A m, o : Lookup(AddLine(entries, line), m, o)
                         = IF <<m, o>> = Split(line.raw) THEN Lookup(entries, m, o) \o line.cands
                           ELSE Lookup(entries, m, o)
        <5>1. EntriesOK(entries, Key) /\ Split(line.raw) \in Key /\ Key \subseteq Text \X Seq(Glyph)
          BY <1>1, <2>2, <3>1, <4>1
        <5> QED
          BY <5>1, AddLineOK, Zenon
      <4> QED
        BY <4>1, <4>2
    <3>3. Lookup(Parse(Append(ls, line)), k[1], k[2]) = Held(Append(ls, line), raw)
      BY <1>1, <2>3, <2>4, <2>5, <2>7, <3>1, <3>2
    <3> QED
      BY <2>1, <3>3
  <2> QED
    BY <2>6, <2>7
<1>5. lines \in S
  <2> HIDE DEF S
  <2> QED
    BY <1>3, <1>4, Longer
<1> QED
  BY <1>5 DEF raw

(* What is read from a file are the words its lines say.                    *)
LEMMA Restored ==
    ASSUME KeysReadBack, NEW lines \in Seq(Lines(Key))
    PROVE  Content(Parse(lines)) = Stored(lines)
<1>1. lines \in Seq(LineSet)
  <2>1. Lines(Key) \subseteq LineSet
    BY DEF Lines, LineSet
  <2> QED
    BY <2>1
<1>2. ASSUME NEW k \in Key PROVE WordsOf[Lookup(Parse(lines), k[1], k[2])] = Stored(lines)[k]
  <2>1. Stored(lines)[k] = WordsOf[Held(lines, k[1] \o k[2])]
    BY <1>1, StoredIsHeld
  <2>2. Lookup(Parse(lines), k[1], k[2]) = Held(lines, k[1] \o k[2])
    BY ReadBack
  <2> QED
    BY <2>1, <2>2
<1>3. Stored(lines) = [k \in Key |-> Stored(lines)[k]]
  BY DEF Stored
<1> HIDE DEF Stored
<1>4. [k \in Key |-> WordsOf[Lookup(Parse(lines), k[1], k[2])]] = [k \in Key |-> Stored(lines)[k]]
  BY <1>2
<1> QED
  BY <1>3, <1>4 DEF Content

(* The candidates of joined lines are joined.                               *)
LEMMA HeldJoin ==
    ASSUME NEW raw, NEW a \in Seq(LineSet), NEW b \in Seq(LineSet)
    PROVE  Held(a \o b, raw) = Held(a, raw) \o Held(b, raw)
<1> DEFINE S == {ls \in Seq(LineSet) : Held(a \o ls, raw) = Held(a, raw) \o Held(ls, raw)}
<1>1. <<>> \in S
  <2>1. PICK held : held = Held(a, raw)
    OBVIOUS
  <2>2. held \in Seq(Candidate)
    BY <2>1, HeldStep DEF Cands
  <2>3. held \o <<>> = held /\ a \o <<>> = a
    BY <2>2, Parts
  <2>4. Held(<<>>, raw) = <<>> /\ <<>> \in Seq(LineSet)
    BY HeldStep
  <2> QED
    BY <2>1, <2>3, <2>4
<1>2. ASSUME NEW ls \in Seq(LineSet), NEW line \in LineSet, ls \in S
      PROVE  Append(ls, line) \in S
  <2>1. /\ a \o Append(ls, line) = Append(a \o ls, line)
        /\ a \o ls \in Seq(LineSet) /\ Append(ls, line) \in Seq(LineSet)
    BY AppendJoin
  <2>2. PICK x, y, c : x = Held(a, raw) /\ y = Held(ls, raw) /\ c = line.cands
    OBVIOUS
  <2>3. x \in Seq(Candidate) /\ y \in Seq(Candidate) /\ c \in Seq(Candidate)
    BY <2>2, HeldStep DEF Cands, LineSet
  <2>4. Held(a \o ls, raw) = x \o y
    BY <1>2, <2>2
  <2>5. Held(Append(ls, line), raw) = IF line.raw = raw THEN y \o c ELSE y
    BY <2>2, HeldStep
  <2>6. Held(Append(a \o ls, line), raw) = IF line.raw = raw THEN (x \o y) \o c ELSE x \o y
    <3>1. PICK j : j = a \o ls
      OBVIOUS
    <3>2. j \in Seq(LineSet) /\ Held(j, raw) = x \o y
      BY <2>1, <2>4, <3>1
    <3>3. Held(Append(j, line), raw) = IF line.raw = raw THEN Held(j, raw) \o c ELSE Held(j, raw)
      BY <2>2, <3>2, HeldStep
    <3> QED
      BY <3>1, <3>2, <3>3
  <2>7. (x \o y) \o c = x \o (y \o c)
    BY <2>3
  <2> QED
    BY <2>1, <2>2, <2>5, <2>6, <2>7
<1>3. b \in S
  <2> HIDE DEF S
  <2> QED
    BY <1>1, <1>2, Longer
<1> QED
  BY <1>3

(* The line at p is the only one of its text.                               *)
Only(lines, p, raw) ==
    \A i \in DOMAIN lines : lines[i].raw = raw <=> i = p

(* Lines of other texts say nothing; the only line of a text, all.          *)
LEMMA HeldOfOne ==
    ASSUME NEW raw, NEW lines \in Seq(LineSet)
    PROVE  /\ (\A i \in DOMAIN lines : lines[i].raw # raw) => Held(lines, raw) = <<>>
           /\ \A p \in DOMAIN lines : Only(lines, p, raw) => Held(lines, raw) = lines[p].cands
<1> DEFINE None(ls) == \A i \in DOMAIN ls : ls[i].raw # raw
           S == {ls \in Seq(LineSet) :
                   /\ None(ls) => Held(ls, raw) = <<>>
                   /\ \A p \in DOMAIN ls : Only(ls, p, raw) => Held(ls, raw) = ls[p].cands}
<1>1. <<>> \in S
  <2>1. Held(<<>>, raw) = <<>> /\ <<>> \in Seq(LineSet) /\ DOMAIN <<>> = {}
    BY HeldStep
  <2> QED
    BY <2>1
<1>2. ASSUME NEW ls \in Seq(LineSet), NEW line \in LineSet, ls \in S
      PROVE  Append(ls, line) \in S
  <2> DEFINE N == Len(ls)
             more == Append(ls, line)
  <2>1. /\ more \in Seq(LineSet) /\ N \in Nat /\ DOMAIN more = 1 .. N + 1 /\ DOMAIN ls = 1 .. N
        /\ more[N + 1] = line /\ \A i \in 1 .. N : more[i] = ls[i]
    OBVIOUS
  <2>2. Held(more, raw) = IF line.raw = raw THEN Held(ls, raw) \o line.cands ELSE Held(ls, raw)
    BY HeldStep
  <2>3. None(ls) => Held(ls, raw) = <<>>
    BY <1>2
  <2>4. \A p \in 1 .. N : Only(ls, p, raw) => Held(ls, raw) = ls[p].cands
    BY <1>2, <2>1
  <2> HIDE DEF more, N
  <2>5. None(more) => Held(more, raw) = <<>>
    BY <2>1, <2>2, <2>3
  <2>6. ASSUME NEW p \in 1 .. N + 1, Only(more, p, raw) PROVE Held(more, raw) = more[p].cands
    <3>1. CASE p = N + 1
      <4>1. None(ls) /\ line.raw = raw
        BY <2>1, <2>6, <3>1 DEF Only
      <4>2. PICK c : c = line.cands
        OBVIOUS
      <4>3. c \in Seq(Candidate)
        BY <4>2 DEF LineSet, Cands
      <4>4. <<>> \o c = c
        BY <4>3
      <4> QED
        BY <2>1, <2>2, <2>3, <3>1, <4>1, <4>2, <4>4
    <3>2. CASE p # N + 1
      <4>1. p \in 1 .. N /\ line.raw # raw
        BY <2>1, <2>6, <3>2 DEF Only
      <4>2. Only(ls, p, raw)
        BY <2>1, <2>6, <4>1 DEF Only
      <4> QED
        BY <2>1, <2>2, <2>4, <4>1, <4>2
    <3> QED
      BY <3>1, <3>2
  <2>7. more \in S
    BY <2>1, <2>5, <2>6
  <2> QED
    BY <2>7 DEF more
<1>3. lines \in S
  <2> HIDE DEF S
  <2> QED
    BY <1>1, <1>2, Longer
<1> QED
  BY <1>3

(* The text of a line tells the keys apart.                                 *)
LEMMA TextsDiffer ==
    ASSUME KeysAreSplit, NEW j \in Key, NEW k \in Key, j[1] \o j[2] = k[1] \o k[2]
    PROVE  j = k
<1>1. Split(j[1] \o j[2]) = j /\ Split(k[1] \o k[2]) = k
  BY KeysClosed
<1> QED
  BY <1>1

(* The lines of a headword that are written hold what it has for each key.   *)
LEMMA HeldOfHead ==
    ASSUME KeysAreSplit, NEW h \in Heads(Key), NEW okuris \in SUBSET DOMAIN h.buckets, NEW k \in Key
    PROVE  Held(LinesOf(h, okuris), k[1] \o k[2])
             = IF h.midashi = k[1] /\ k[2] \in okuris THEN h.buckets[k[2]] ELSE <<>>
<1> DEFINE order == SetToSeq(okuris)
           lines == LinesOf(h, okuris)
           raw == k[1] \o k[2]
<1>1. IsFiniteSet(okuris) /\ \A o \in okuris : <<h.midashi, o>> \in Key
  BY FS_Subset DEF Heads, Finite
<1>2. /\ order \in Seq(okuris) /\ \A o \in okuris : \E i \in DOMAIN order : order[i] = o
      /\ \A i, j \in DOMAIN order : order[i] = order[j] => i = j
  BY <1>1, SetToSeqOnce
<1>3. lines \in Seq(LineSet)
  <2>1. lines \in Seq(Lines(Key)) /\ Lines(Key) \subseteq LineSet
    BY KeysClosed, LinesTyped DEF Lines, LineSet
  <2> HIDE DEF lines
  <2> QED
    BY <2>1
<1>4. lines = [i \in DOMAIN order |-> Line(h.midashi, order[i], h.buckets[order[i]])]
  BY DEF LinesOf
<1>5. k = <<k[1], k[2]>>
  BY DEF Key
<1> HIDE DEF order, lines, raw
<1>6. DOMAIN lines = DOMAIN order
  BY <1>4
<1>7. ASSUME NEW i \in DOMAIN lines
      PROVE  /\ order[i] \in okuris /\ lines[i].cands = h.buckets[order[i]]
             /\ lines[i].raw = raw <=> h.midashi = k[1] /\ order[i] = k[2]
  <2>1. order[i] \in okuris
    BY <1>2, <1>6
  <2>2. lines[i].raw = h.midashi \o order[i] /\ lines[i].cands = h.buckets[order[i]]
    BY <1>4, <1>6 DEF Line
  <2>3. PICK j : j = <<h.midashi, order[i]>>
    OBVIOUS
  <2>4. j \in Key /\ j[1] = h.midashi /\ j[2] = order[i]
    BY <1>1, <2>1, <2>3
  <2>5. j[1] \o j[2] = k[1] \o k[2] => j = k
    BY <2>4, TextsDiffer
  <2>6. lines[i].raw = j[1] \o j[2]
    BY <2>2, <2>4
  <2>7. lines[i].raw = raw <=> j = k
    BY <2>5, <2>6 DEF raw
  <2>8. j = k <=> h.midashi = k[1] /\ order[i] = k[2]
    BY <1>5, <2>3
  <2> QED
    BY <2>1, <2>2, <2>7, <2>8
<1>8. CASE h.midashi = k[1] /\ k[2] \in okuris
  <2>1. PICK p \in DOMAIN lines : order[p] = k[2]
    BY <1>2, <1>6, <1>8
  <2>2. Only(lines, p, raw)
    BY <1>2, <1>6, <1>7, <1>8, <2>1 DEF Only
  <2>3. Held(lines, raw) = lines[p].cands
    BY <1>3, <2>1, <2>2, HeldOfOne
  <2> QED
    BY <1>7, <1>8, <2>1, <2>3 DEF lines, raw
<1>9. CASE ~(h.midashi = k[1] /\ k[2] \in okuris)
  <2>1. \A i \in DOMAIN lines : lines[i].raw # raw
    BY <1>7, <1>9
  <2>2. Held(lines, raw) = <<>>
    BY <1>3, <2>1, HeldOfOne
  <2> QED
    BY <1>9, <2>2 DEF lines, raw
<1> QED
  BY <1>8, <1>9

(* What serialize_user_dict writes first and second.                        *)
Part(h, withOkuri) ==
    IF withOkuri THEN DOMAIN h.buckets \ {<<>>} ELSE DOMAIN h.buckets \cap {<<>>}
Sections(entries, withOkuri) ==
    [i \in DOMAIN entries |-> LinesOf(entries[i], Part(entries[i], withOkuri))]

(* Entries with one more at the end.                                        *)
LEMMA OneMore ==
    ASSUME NEW K, NEW entries \in Seq(Heads(K)), NEW h \in Heads(K), Distinct(Append(entries, h))
    PROVE  /\ EntriesOK(entries, K) /\ \A e \in ToSet(entries) : e.midashi # h.midashi
           /\ \A m, o : Lookup(Append(entries, h), m, o)
                          = IF m = h.midashi THEN In(h.buckets, o) ELSE Lookup(entries, m, o)
           /\ \A o : Lookup(entries, h.midashi, o) = <<>>
<1> DEFINE N == Len(entries)
           new == Append(entries, h)
<1>1. /\ N \in Nat /\ DOMAIN entries = 1 .. N /\ DOMAIN new = 1 .. N + 1
      /\ new[N + 1] = h /\ \A i \in 1 .. N : new[i] = entries[i]
  OBVIOUS
<1>2. Distinct(new)
  OBVIOUS
<1> HIDE DEF new, N
<1>3. Distinct(entries)
  BY <1>1, <1>2 DEF Distinct
<1>4. EntriesOK(entries, K)
  BY <1>3 DEF EntriesOK
<1>5. \A e \in ToSet(entries) : e.midashi # h.midashi
  BY <1>1, <1>2 DEF ToSet, Distinct
<1>6. h = [midashi |-> h.midashi, buckets |-> h.buckets] /\ h.midashi \in Text
  BY DEF Heads
<1>7. Finite(h.buckets, h.midashi, K)
  BY DEF Heads
<1>8. new = Added(entries, h.midashi, h.buckets)
  BY <1>6 DEF new, Added
<1>9. \A m : Buckets(new, m) = IF m = h.midashi THEN h.buckets ELSE Buckets(entries, m)
  <2>1. PICK m, b : m = h.midashi /\ b = h.buckets
    OBVIOUS
  <2>2. m \in Text /\ Finite(b, m, K) /\ new = Added(entries, m, b)
        /\ \A e \in ToSet(entries) : e.midashi # m
    BY <1>5, <1>6, <1>7, <1>8, <2>1
  <2> QED
    BY <1>4, <2>1, <2>2, AppendedOK
<1>10. \A m, o : Lookup(new, m, o) = IF m = h.midashi THEN In(h.buckets, o)
                                     ELSE Lookup(entries, m, o)
  BY <1>9 DEF Lookup, In
<1>11. \A o : Lookup(entries, h.midashi, o) = <<>>
  <2>1. Buckets(entries, h.midashi) = <<>> /\ DOMAIN <<>> = {}
    BY <1>4, <1>5, BucketsFound
  <2> QED
    BY <2>1 DEF Lookup
<1> QED
  BY <1>4, <1>5, <1>10, <1>11 DEF new

(* A section, one headword after the other.                                 *)
LEMMA SectionsStep ==
    ASSUME KeysAreSplit, NEW withOkuri \in BOOLEAN
    PROVE  /\ Sections(<<>>, withOkuri) = <<>>
           /\ \A h \in Heads(Key) : LinesOf(h, Part(h, withOkuri)) \in Seq(LineSet)
           /\ \A entries \in Seq(Heads(Key)) : Sections(entries, withOkuri) \in Seq(Seq(LineSet))
           /\ \A entries \in Seq(Heads(Key)) : \A h \in Heads(Key) :
                 Sections(Append(entries, h), withOkuri)
                   = Append(Sections(entries, withOkuri), LinesOf(h, Part(h, withOkuri)))
<1> DEFINE Of(h) == LinesOf(h, Part(h, withOkuri))
<1>1. Sections(<<>>, withOkuri) = <<>>
  BY DEF Sections
<1>2. ASSUME NEW h \in Heads(Key) PROVE Of(h) \in Seq(LineSet)
  <2>1. PICK okuris : okuris = Part(h, withOkuri)
    OBVIOUS
  <2>2. okuris \in SUBSET DOMAIN h.buckets
    BY <2>1 DEF Part
  <2>3. LinesOf(h, okuris) \in Seq(Lines(Key)) /\ Lines(Key) \subseteq LineSet
    BY <2>2, KeysClosed, LinesTyped DEF Lines, LineSet
  <2> QED
    BY <2>1, <2>3
<1> HIDE DEF Of
<1>3. ASSUME NEW entries \in Seq(Heads(Key))
      PROVE  /\ Sections(entries, withOkuri) = [i \in 1 .. Len(entries) |-> Of(entries[i])]
             /\ Sections(entries, withOkuri) \in Seq(Seq(LineSet))
  <2>1. Sections(entries, withOkuri) = [i \in 1 .. Len(entries) |-> Of(entries[i])]
    BY DEF Sections, Of
  <2>2. \A i \in 1 .. Len(entries) : Of(entries[i]) \in Seq(LineSet)
    BY <1>2
  <2>3. Len(entries) \in Nat
    OBVIOUS
  <2> QED
    BY <2>1, <2>2, <2>3
<1>4. ASSUME NEW entries \in Seq(Heads(Key)), NEW h \in Heads(Key)
      PROVE  Sections(Append(entries, h), withOkuri)
               = Append(Sections(entries, withOkuri), Of(h))
  <2> DEFINE L == Len(entries)
             s == Sections(entries, withOkuri)
             more == Append(entries, h)
  <2>1. /\ L \in Nat /\ more \in Seq(Heads(Key)) /\ Len(more) = L + 1 /\ more[L + 1] = h
        /\ \A i \in 1 .. L : more[i] = entries[i]
    OBVIOUS
  <2>2. s = [i \in 1 .. L |-> Of(entries[i])] /\ s \in Seq(Seq(LineSet)) /\ Of(h) \in Seq(LineSet)
    BY <1>2, <1>3
  <2>3. Sections(more, withOkuri) = [i \in 1 .. L + 1 |-> Of(more[i])]
    BY <1>3, <2>1
  <2> HIDE DEF L, s, more
  <2>4. Len(s) = L /\ \A i \in 1 .. L : s[i] = Of(entries[i])
    BY <2>1, <2>2
  <2>5. Append(s, Of(h)) = [i \in 1 .. L + 1 |-> IF i = L + 1 THEN Of(h) ELSE s[i]]
    <3>1. PICK x, U : x = Of(h) /\ U = Seq(LineSet)
      OBVIOUS
    <3>2. s \in Seq(U) /\ x \in U
      BY <2>2, <3>1
    <3>3. Append(s, x) = [i \in 1 .. Len(s) + 1 |-> IF i = Len(s) + 1 THEN x ELSE s[i]]
      BY <3>2, AppendIs
    <3> QED
      BY <2>4, <3>1, <3>3
  <2>6. \A i \in 1 .. L + 1 : Of(more[i]) = IF i = L + 1 THEN Of(h) ELSE s[i]
    BY <2>1, <2>4
  <2>7. Sections(more, withOkuri) = Append(s, Of(h))
    BY <2>3, <2>5, <2>6
  <2> QED
    BY <2>7 DEF s, more
<1> QED
  BY <1>1, <1>2, <1>3, <1>4 DEF Of

(* A section holds what the entries have for its keys.                      *)
LEMMA HeldOfSection ==
    ASSUME KeysAreSplit, NEW k \in Key, NEW withOkuri \in BOOLEAN,
           NEW entries, EntriesOK(entries, Key)
    PROVE  /\ FlattenSeq(Sections(entries, withOkuri)) \in Seq(LineSet)
           /\ Held(FlattenSeq(Sections(entries, withOkuri)), k[1] \o k[2])
                = IF (k[2] # <<>>) <=> withOkuri THEN Lookup(entries, k[1], k[2]) ELSE <<>>
<1> DEFINE raw == k[1] \o k[2]
           Ours == (k[2] # <<>>) <=> withOkuri
           Is(es) == Held(FlattenSeq(Sections(es, withOkuri)), raw)
                       = IF Ours THEN Lookup(es, k[1], k[2]) ELSE <<>>
           S == {es \in Seq(Heads(Key)) : Distinct(es) => Is(es)}
<1>1. \A es \in Seq(Heads(Key)) : FlattenSeq(Sections(es, withOkuri)) \in Seq(LineSet)
  BY SectionsStep, FlattenTyped
<1>2. <<>> \in S
  <2>1. FlattenSeq(Sections(<<>>, withOkuri)) = <<>>
    BY SectionsStep, FlattenStep
  <2>2. Held(<<>>, raw) = <<>> /\ Lookup(<<>>, k[1], k[2]) = <<>>
    BY HeldStep, LookupNone
  <2>3. Is(<<>>) /\ <<>> \in Seq(Heads(Key))
    BY <2>1, <2>2
  <2> HIDE DEF Is
  <2> QED
    BY <2>3
<1>3. ASSUME NEW es \in Seq(Heads(Key)), NEW h \in Heads(Key), es \in S
      PROVE  Append(es, h) \in S
  <2> SUFFICES ASSUME Distinct(Append(es, h)) PROVE Is(Append(es, h))
    <3>1. Append(es, h) \in Seq(Heads(Key))
      OBVIOUS
    <3> HIDE DEF Is
    <3> QED
      BY <3>1
  <2>1. PICK a, b : /\ a = FlattenSeq(Sections(es, withOkuri))
                    /\ b = LinesOf(h, Part(h, withOkuri))
    OBVIOUS
  <2>2. a \in Seq(LineSet) /\ b \in Seq(LineSet)
    BY <1>1, <2>1, SectionsStep
  <2>3. FlattenSeq(Sections(Append(es, h), withOkuri)) = a \o b
    <3>1. PICK s : s = Sections(es, withOkuri)
      OBVIOUS
    <3>2. s \in Seq(Seq(LineSet)) /\ Sections(Append(es, h), withOkuri) = Append(s, b)
      BY <2>1, <3>1, SectionsStep
    <3>3. FlattenSeq(Append(s, b)) = FlattenSeq(s) \o b
      BY <2>2, <3>2, FlattenStep
    <3> QED
      BY <2>1, <3>1, <3>2, <3>3
  <2>4. Held(a \o b, raw) = Held(a, raw) \o Held(b, raw)
    BY <2>2, HeldJoin
  <2>5. /\ EntriesOK(es, Key) /\ Lookup(es, h.midashi, k[2]) = <<>>
        /\ Lookup(Append(es, h), k[1], k[2])
             = IF k[1] = h.midashi THEN In(h.buckets, k[2]) ELSE Lookup(es, k[1], k[2])
    BY OneMore
  <2>6. Held(a, raw) = IF Ours THEN Lookup(es, k[1], k[2]) ELSE <<>>
    BY <1>3, <2>1, <2>5 DEF EntriesOK
  <2>7. Held(b, raw) = IF h.midashi = k[1] /\ k[2] \in Part(h, withOkuri)
                       THEN h.buckets[k[2]] ELSE <<>>
    <3>1. PICK okuris : okuris = Part(h, withOkuri)
      OBVIOUS
    <3>2. okuris \in SUBSET DOMAIN h.buckets
      BY <3>1 DEF Part
    <3>3. Held(LinesOf(h, okuris), k[1] \o k[2])
            = IF h.midashi = k[1] /\ k[2] \in okuris THEN h.buckets[k[2]] ELSE <<>>
      BY <3>2, HeldOfHead
    <3> QED
      BY <2>1, <3>1, <3>3
  <2>8. k[2] \in Part(h, withOkuri) <=> Ours /\ k[2] \in DOMAIN h.buckets
    BY DEF Part
  <2>9. Held(b, raw) = IF h.midashi = k[1] /\ Ours THEN In(h.buckets, k[2]) ELSE <<>>
    BY <2>7, <2>8 DEF In
  <2>10. PICK x, y : x = Held(a, raw) /\ y = Held(b, raw)
    OBVIOUS
  <2>11. x \in Seq(Candidate) /\ y \in Seq(Candidate)
    BY <2>2, <2>10, HeldStep DEF Cands
  <2>12. x \o <<>> = x /\ <<>> \o y = y
    BY <2>11
  <2>13. Held(a \o b, raw) = x \o y
    BY <2>4, <2>10
  <2> HIDE DEF Ours, raw
  <2>14. x \o y = IF Ours THEN Lookup(Append(es, h), k[1], k[2]) ELSE <<>>
    <3>1. CASE h.midashi = k[1] /\ Ours
      <4>1. x = <<>>
        BY <2>5, <2>6, <2>10, <3>1
      <4>2. y = In(h.buckets, k[2])
        BY <2>9, <2>10, <3>1
      <4> QED
        BY <2>5, <2>12, <3>1, <4>1, <4>2
    <3>2. CASE ~(h.midashi = k[1] /\ Ours)
      <4>1. y = <<>>
        BY <2>9, <2>10, <3>2
      <4> QED
        BY <2>5, <2>6, <2>10, <2>12, <3>2, <4>1
    <3> QED
      BY <3>1, <3>2
  <2> QED
    BY <2>3, <2>13, <2>14
<1>4. entries \in S
  <2> HIDE DEF S
  <2> QED
    BY <1>2, <1>3, Longer DEF EntriesOK
<1> QED
  BY <1>1, <1>4 DEF EntriesOK

(* What a save writes is what the dictionary has, for every key.            *)
LEMMA WrittenAsHeld ==
    ASSUME KeysAreSplit, NEW entries, EntriesOK(entries, Key)
    PROVE  Stored(Serialize(entries)) = Content(entries)
<1>1. Serialize(entries)
        = FlattenSeq(Sections(entries, TRUE)) \o FlattenSeq(Sections(entries, FALSE))
  BY DEF Serialize, Sections, Part
<1>2. PICK a, b : /\ a = FlattenSeq(Sections(entries, TRUE))
                  /\ b = FlattenSeq(Sections(entries, FALSE))
  OBVIOUS
<1>3. a \in Seq(LineSet) /\ b \in Seq(LineSet) /\ Serialize(entries) = a \o b
  <2>1. \A es \in Seq(Heads(Key)) : \A w \in BOOLEAN :
           FlattenSeq(Sections(es, w)) \in Seq(LineSet)
    BY SectionsStep, FlattenTyped
  <2> QED
    BY <1>1, <1>2, <2>1 DEF EntriesOK
<1>4. ASSUME NEW k \in Key
      PROVE  Held(Serialize(entries), k[1] \o k[2]) = Lookup(entries, k[1], k[2])
  <2>1. PICK x, y, z : /\ x = Held(a, k[1] \o k[2]) /\ y = Held(b, k[1] \o k[2])
                       /\ z = Lookup(entries, k[1], k[2])
    OBVIOUS
  <2>2. /\ x = IF k[2] # <<>> THEN z ELSE <<>>
        /\ y = IF k[2] # <<>> THEN <<>> ELSE z
    BY <1>2, <2>1, HeldOfSection
  <2>3. z \in Seq(Candidate)
    BY <2>1, LookupTyped DEF Cands
  <2>4. Held(a \o b, k[1] \o k[2]) = x \o y
    BY <1>3, <2>1, HeldJoin
  <2>5. z \o <<>> = z /\ <<>> \o z = z
    BY <2>3
  <2>6. x \o y = z
    BY <2>2, <2>5
  <2> QED
    BY <1>3, <2>1, <2>4, <2>6
<1>5. ASSUME NEW k \in Key
      PROVE  Stored(Serialize(entries))[k] = WordsOf[Lookup(entries, k[1], k[2])]
  <2>1. Serialize(entries) \in Seq(LineSet)
    BY <1>3
  <2> QED
    BY <1>4, <2>1, StoredIsHeld
<1>6. Stored(Serialize(entries)) = [k \in Key |-> Stored(Serialize(entries))[k]]
  BY DEF Stored
<1> HIDE DEF Stored, Serialize
<1>7. [k \in Key |-> Stored(Serialize(entries))[k]]
         = [k \in Key |-> WordsOf[Lookup(entries, k[1], k[2])]]
  BY <1>5
<1> QED
  BY <1>6, <1>7 DEF Content

(* The words of candidates are those of its displayable ones.               *)
LEMMA WordsMembers ==
    ASSUME NEW cands \in Cands
    PROVE  \A w : w \in ToSet(WordsOf[cands])
                     <=> \E c \in ToSet(cands) : Displayable(c) /\ c.words[1] = w
<1> DEFINE own == Among(cands, Shown)
<1>1. own \in Seq(Candidate) /\ ToSet(own) = ToSet(cands) \cap Shown
  BY AmongPlaces, AmongMembers DEF Cands
<1>2. WordsOf[cands] = FirstWords(own)
  BY WordsOfIs
<1>3. \A c \in ToSet(cands) : c \in Candidate
  BY DEF Cands, ToSet
<1> HIDE DEF own
<1>4. \A w : w \in ToSet(FirstWords(own)) <=> \E c \in ToSet(own) : c.words[1] = w
  BY DEF ToSet, FirstWords
<1>5. \A c : c \in ToSet(own) <=> c \in ToSet(cands) /\ Displayable(c)
  BY <1>1, <1>3 DEF Shown
<1> QED
  BY <1>2, <1>4, <1>5

(* The members of joined sequences, and of one with one more.               *)
LEMMA JoinMembers ==
    ASSUME NEW T, NEW a \in Seq(T), NEW b \in Seq(T)
    PROVE  \A c : c \in ToSet(a \o b) <=> c \in ToSet(a) \/ c \in ToSet(b)
<1> DEFINE M == Len(a)
           N == Len(b)
           s == a \o b
<1>1. /\ M \in Nat /\ N \in Nat /\ DOMAIN a = 1 .. M /\ DOMAIN b = 1 .. N /\ DOMAIN s = 1 .. M + N
      /\ \A i \in 1 .. M : s[i] = a[i]
      /\ \A i \in 1 .. N : s[M + i] = b[i]
  OBVIOUS
<1> HIDE DEF M, N, s
<1>2. ASSUME NEW c, c \in ToSet(s) PROVE c \in ToSet(a) \/ c \in ToSet(b)
  <2>1. PICK i \in 1 .. M + N : s[i] = c
    BY <1>1, <1>2 DEF ToSet
  <2>2. CASE i \in 1 .. M
    BY <1>1, <2>1, <2>2 DEF ToSet
  <2>3. CASE i \notin 1 .. M
    <3>1. i - M \in 1 .. N /\ M + (i - M) = i
      BY <1>1, <2>1, <2>3
    <3>2. b[i - M] = c
      BY <1>1, <2>1, <3>1
    <3> QED
      BY <1>1, <3>1, <3>2 DEF ToSet
  <2> QED
    BY <2>2, <2>3
<1>3. ASSUME NEW c, c \in ToSet(a) PROVE c \in ToSet(s)
  <2>1. PICK i \in 1 .. M : a[i] = c
    BY <1>1, <1>3 DEF ToSet
  <2>2. i \in 1 .. M + N /\ s[i] = c
    BY <1>1, <2>1
  <2> QED
    BY <1>1, <2>2 DEF ToSet
<1>4. ASSUME NEW c, c \in ToSet(b) PROVE c \in ToSet(s)
  <2>1. PICK i \in 1 .. N : b[i] = c
    BY <1>1, <1>4 DEF ToSet
  <2>2. M + i \in 1 .. M + N /\ s[M + i] = c
    BY <1>1, <2>1
  <2> QED
    BY <1>1, <2>2 DEF ToSet
<1> QED
  BY <1>2, <1>3, <1>4 DEF s

(* A line of that text has the candidate.                                   *)
SaysOf(lines, raw, c) ==
    \E i \in DOMAIN lines : lines[i].raw = raw /\ c \in ToSet(lines[i].cands)

(* The candidates of a text are those of its lines.                         *)
LEMMA HeldMembers ==
    ASSUME NEW raw, NEW lines \in Seq(LineSet)
    PROVE  \A c : c \in ToSet(Held(lines, raw)) <=> SaysOf(lines, raw, c)
<1> DEFINE S == {ls \in Seq(LineSet) : \A c : c \in ToSet(Held(ls, raw)) <=> SaysOf(ls, raw, c)}
<1>1. <<>> \in S
  <2>1. Held(<<>>, raw) = <<>> /\ <<>> \in Seq(LineSet) /\ DOMAIN <<>> = {}
    BY HeldStep
  <2>2. ToSet(<<>>) = {}
    BY DEF ToSet
  <2>3. \A c : c \in ToSet(Held(<<>>, raw)) <=> SaysOf(<<>>, raw, c)
    BY <2>1, <2>2 DEF SaysOf
  <2> QED
    BY <2>1, <2>3
<1>2. ASSUME NEW ls \in Seq(LineSet), NEW line \in LineSet, ls \in S
      PROVE  Append(ls, line) \in S
  <2> DEFINE N == Len(ls)
             more == Append(ls, line)
  <2>1. /\ more \in Seq(LineSet) /\ N \in Nat /\ DOMAIN more = 1 .. N + 1 /\ DOMAIN ls = 1 .. N
        /\ more[N + 1] = line /\ \A i \in 1 .. N : more[i] = ls[i]
    OBVIOUS
  <2>2. Held(more, raw) = IF line.raw = raw THEN Held(ls, raw) \o line.cands ELSE Held(ls, raw)
    BY HeldStep
  <2>3. PICK x, y : x = Held(ls, raw) /\ y = line.cands
    OBVIOUS
  <2>4. x \in Seq(Candidate) /\ y \in Seq(Candidate)
    BY <2>3, HeldStep DEF Cands, LineSet
  <2>5. \A c : c \in ToSet(x) <=> SaysOf(ls, raw, c)
    BY <1>2, <2>3
  <2>6. \A c : c \in ToSet(x \o y) <=> c \in ToSet(x) \/ c \in ToSet(y)
    BY <2>4, JoinMembers
  <2> HIDE DEF more, N
  <2>7. \A c : SaysOf(more, raw, c) <=> SaysOf(ls, raw, c) \/ (line.raw = raw /\ c \in ToSet(y))
    <3>1. ASSUME NEW c, SaysOf(more, raw, c)
          PROVE  SaysOf(ls, raw, c) \/ (line.raw = raw /\ c \in ToSet(y))
      <4>1. PICK i \in 1 .. N + 1 : more[i].raw = raw /\ c \in ToSet(more[i].cands)
        BY <2>1, <3>1 DEF SaysOf
      <4>2. CASE i = N + 1
        BY <2>1, <2>3, <4>1, <4>2
      <4>3. CASE i # N + 1
        BY <2>1, <4>1, <4>3 DEF SaysOf
      <4> QED
        BY <4>2, <4>3
    <3>2. ASSUME NEW c, SaysOf(ls, raw, c) PROVE SaysOf(more, raw, c)
      <4>1. PICK i \in 1 .. N : ls[i].raw = raw /\ c \in ToSet(ls[i].cands)
        BY <2>1, <3>2 DEF SaysOf
      <4>2. i \in 1 .. N + 1 /\ more[i] = ls[i]
        BY <2>1, <4>1
      <4> QED
        BY <2>1, <4>1, <4>2 DEF SaysOf
    <3>3. ASSUME NEW c, line.raw = raw, c \in ToSet(y) PROVE SaysOf(more, raw, c)
      <4>1. N + 1 \in DOMAIN more /\ more[N + 1] = line
        BY <2>1
      <4> QED
        BY <2>3, <3>3, <4>1 DEF SaysOf
    <3> QED
      BY <3>1, <3>2, <3>3
  <2>8. \A c : c \in ToSet(Held(more, raw)) <=> SaysOf(more, raw, c)
    BY <2>2, <2>3, <2>5, <2>6, <2>7
  <2> QED
    BY <2>1, <2>8 DEF more
<1>3. lines \in S
  <2> HIDE DEF S
  <2> QED
    BY <1>1, <1>2, Longer
<1> QED
  BY <1>3

(* What can be left of a line.                                              *)
Remnant(left, line) ==
    /\ left.raw = line.raw
    /\ \A c \in ToSet(left.cands) : c \in ToSet(line.cands) \/ c.words = <<Damaged>>

(* A write that is cut short leaves lines, the last one perhaps in part.     *)
LEMMA CutOfLines ==
    ASSUME NEW lines \in Seq(LineSet), NEW file \in CutLines(lines)
    PROVE  \A i \in DOMAIN file.lines : i \in DOMAIN lines /\ Remnant(file.lines[i], lines[i])
<1> DEFINE Whole(n)  == SubSeq(lines, 1, n)
           Part1(n, k) == [lines[n] EXCEPT !.cands = SubSeq(@, 1, k)]
           Bad(n, k)  == [lines[n] EXCEPT !.cands =
                            Append(SubSeq(@, 1, k), [@[k + 1] EXCEPT !.words = <<Damaged>>])]
           File(ls, broken) == [lines |-> ls, broken |-> broken]
           Rest(ls) == \A i \in DOMAIN ls : i \in DOMAIN lines /\ Remnant(ls[i], lines[i])
<1>1. ASSUME NEW n \in DOMAIN lines
      PROVE  /\ lines[n] \in LineSet /\ Remnant(lines[n], lines[n])
             /\ lines[n].cands \in Seq(Candidate)
  <2>1. lines[n] \in LineSet
    OBVIOUS
  <2> QED
    BY <2>1 DEF Remnant, LineSet, Cands
<1>2. ASSUME NEW n \in DOMAIN lines, NEW k \in 0 .. Len(lines[n].cands)
      PROVE  Remnant(Part1(n, k), lines[n])
  <2>1. PICK cands : cands = lines[n].cands
    OBVIOUS
  <2>2. cands \in Seq(Candidate) /\ k \in 0 .. Len(cands)
    BY <1>1, <2>1
  <2>3. \A c \in ToSet(SubSeq(cands, 1, k)) : c \in ToSet(cands)
    BY <2>2 DEF ToSet
  <2>4. Part1(n, k).raw = lines[n].raw /\ Part1(n, k).cands = SubSeq(cands, 1, k)
    BY <1>1, <2>1 DEF LineSet
  <2> QED
    BY <2>1, <2>3, <2>4 DEF Remnant
<1>3. ASSUME NEW n \in DOMAIN lines, NEW k \in 0 .. Len(lines[n].cands) - 1
      PROVE  Remnant(Bad(n, k), lines[n])
  <2>1. PICK cands : cands = lines[n].cands
    OBVIOUS
  <2>2. cands \in Seq(Candidate) /\ k \in 0 .. Len(cands) - 1
    BY <1>1, <2>1
  <2> DEFINE cut == [cands[k + 1] EXCEPT !.words = <<Damaged>>]
  <2>3. cands[k + 1] \in Candidate /\ SubSeq(cands, 1, k) \in Seq(Candidate)
    BY <2>2
  <2>4. cut.words = <<Damaged>> /\ cut \in Candidate
    <3>1. <<Damaged>> \in Seq(Words) /\ Len(<<Damaged>>) = 1
      BY DEF Words
    <3> QED
      BY <2>3, <3>1 DEF Candidate
  <2> HIDE DEF cut
  <2>5. \A c \in ToSet(SubSeq(cands, 1, k)) : c \in ToSet(cands)
    BY <2>2 DEF ToSet
  <2>6. PICK s : s = SubSeq(cands, 1, k)
    OBVIOUS
  <2>7. \A c \in ToSet(Append(s, cut)) : c \in ToSet(s) \/ c = cut
    BY <2>3, <2>4, <2>6 DEF ToSet
  <2>8. Bad(n, k).raw = lines[n].raw /\ Bad(n, k).cands = Append(s, cut)
    BY <1>1, <2>1, <2>6 DEF LineSet, cut
  <2> QED
    BY <2>1, <2>4, <2>5, <2>6, <2>7, <2>8 DEF Remnant
<1>4. \/ \E n \in 0 .. Len(lines) : file = File(Whole(n), FALSE)
      \/ \E n \in DOMAIN lines : file = File(Whole(n - 1), TRUE)
      \/ \E n \in DOMAIN lines : \E k \in 0 .. Len(lines[n].cands) :
            file = File(Append(Whole(n - 1), Part1(n, k)), FALSE)
      \/ \E n \in DOMAIN lines : \E k \in 0 .. Len(lines[n].cands) - 1 :
            file = File(Append(Whole(n - 1), Bad(n, k)), FALSE)
  BY DEF CutLines
<1>5. ASSUME NEW n \in 0 .. Len(lines)
      PROVE  /\ Whole(n) \in Seq(LineSet) /\ Len(Whole(n)) = n /\ n <= Len(lines)
             /\ \A i \in 1 .. n : Whole(n)[i] = lines[i]
  OBVIOUS
<1>6. Len(lines) \in Nat /\ DOMAIN lines = 1 .. Len(lines)
  OBVIOUS
<1> HIDE DEF Whole, Part1, Bad
<1>7. ASSUME NEW n \in 0 .. Len(lines) PROVE Rest(Whole(n))
  <2>1. DOMAIN Whole(n) = 1 .. n
    BY <1>5
  <2>2. ASSUME NEW i \in DOMAIN Whole(n)
        PROVE  i \in DOMAIN lines /\ Remnant(Whole(n)[i], lines[i])
    <3>1. i \in DOMAIN lines /\ Whole(n)[i] = lines[i]
      BY <1>5, <1>6, <2>1
    <3> QED
      BY <1>1, <3>1
  <2> QED
    BY <2>2
<1>8. ASSUME NEW n \in DOMAIN lines, NEW x, Remnant(x, lines[n]) PROVE Rest(Append(Whole(n - 1), x))
  <2> DEFINE w == Whole(n - 1)
  <2>1. n - 1 \in 0 .. Len(lines) /\ n \in Nat
    BY <1>6
  <2>2. w \in Seq(LineSet) /\ Len(w) = n - 1 /\ \A i \in 1 .. n - 1 : w[i] = lines[i]
    BY <1>5, <2>1
  <2> HIDE DEF w
  <2>3. /\ DOMAIN Append(w, x) = 1 .. n /\ Append(w, x)[n] = x
        /\ \A i \in 1 .. n - 1 : Append(w, x)[i] = w[i]
    BY <2>1, <2>2
  <2>4. \A i \in 1 .. n : i \in DOMAIN lines /\ (i = n \/ i \in 1 .. n - 1)
    BY <1>6, <2>1
  <2>5. Rest(Append(w, x))
    BY <1>1, <1>8, <2>2, <2>3, <2>4
  <2> QED
    BY <2>5 DEF w
<1> HIDE DEF Rest
<1>9. Rest(file.lines)
  <2>1. CASE \E n \in 0 .. Len(lines) : file = File(Whole(n), FALSE)
    BY <1>7, <2>1
  <2>2. CASE \E n \in DOMAIN lines : file = File(Whole(n - 1), TRUE)
    <3>1. PICK n \in DOMAIN lines : file = File(Whole(n - 1), TRUE)
      BY <2>2
    <3>2. n - 1 \in 0 .. Len(lines)
      BY <1>6
    <3> QED
      BY <1>7, <3>1, <3>2
  <2>3. CASE \E n \in DOMAIN lines : \E k \in 0 .. Len(lines[n].cands) :
                file = File(Append(Whole(n - 1), Part1(n, k)), FALSE)
    BY <1>2, <1>8, <2>3
  <2>4. CASE \E n \in DOMAIN lines : \E k \in 0 .. Len(lines[n].cands) - 1 :
                file = File(Append(Whole(n - 1), Bad(n, k)), FALSE)
    BY <1>3, <1>8, <2>4
  <2> QED
    BY <1>4, <2>1, <2>2, <2>3, <2>4
<1> QED
  BY <1>9 DEF Rest

(* So it leaves words that were to be written, and perhaps a damaged one.    *)
LEMMA CutWords ==
    ASSUME NEW lines \in Seq(LineSet), NEW file \in CutLines(lines),
           file.lines \in Seq(LineSet), NEW k \in Key
    PROVE  ToSet(Stored(file.lines)[k]) \subseteq ToSet(Stored(lines)[k]) \cup {Damaged}
<1>1. PICK left, raw : left = file.lines /\ raw = k[1] \o k[2]
  OBVIOUS
<1>2. left \in Seq(LineSet)
  BY <1>1
<1>3. Stored(lines)[k] = WordsOf[Held(lines, raw)] /\ Stored(left)[k] = WordsOf[Held(left, raw)]
  BY <1>1, <1>2, StoredIsHeld
<1>4. PICK a, b : a = Held(left, raw) /\ b = Held(lines, raw)
  OBVIOUS
<1>5. a \in Cands /\ b \in Cands
  BY <1>2, <1>4, HeldStep
<1>6. ASSUME NEW c \in ToSet(a) PROVE c \in ToSet(b) \/ c.words = <<Damaged>>
  <2>1. SaysOf(left, raw, c)
    BY <1>2, <1>4, HeldMembers
  <2>2. PICK i \in DOMAIN left : left[i].raw = raw /\ c \in ToSet(left[i].cands)
    BY <2>1 DEF SaysOf
  <2>3. i \in DOMAIN lines /\ Remnant(left[i], lines[i])
    BY <1>1, CutOfLines
  <2>4. c \in ToSet(lines[i].cands) => SaysOf(lines, raw, c)
    BY <2>2, <2>3 DEF SaysOf, Remnant
  <2> QED
    BY <1>4, <2>2, <2>3, <2>4, HeldMembers DEF Remnant
<1>7. ASSUME NEW w \in ToSet(WordsOf[a]) PROVE w \in ToSet(WordsOf[b]) \cup {Damaged}
  <2>1. PICK c \in ToSet(a) : Displayable(c) /\ c.words[1] = w
    BY <1>5, WordsMembers
  <2>2. c.words = <<Damaged>> => w = Damaged
    BY <2>1
  <2>3. c \in ToSet(b) => w \in ToSet(WordsOf[b])
    BY <1>5, <2>1, WordsMembers
  <2> QED
    BY <1>6, <2>2, <2>3
<1> QED
  BY <1>1, <1>3, <1>4, <1>7

(* ---- the steps of the store ---- *)

(* Without entries there are no words.                                      *)
LEMMA NoWords == Content(<<>>) = Store!None
<1>1. \A k \in Key : WordsOf[Lookup(<<>>, k[1], k[2])] = <<>>
  BY LookupNone, WordsStep
<1> QED
  BY <1>1 DEF Content, Store!None

(* A start or a reload loads a file, or leaves an unreadable one alone.     *)
LEMMA LoadRefines ==
    ASSUME KeysReadBack, DInv(Key), NEW p \in Path, dict' = Loaded(p), UNCHANGED files
    PROVE  Store!Load(p)
<1>1. files[p].lines \in Seq(Lines(Key))
  BY DEF DInv
<1>2. Content(Parse(files[p].lines)) = Stored(files[p].lines)
  <2>1. PICK lines : lines = files[p].lines
    OBVIOUS
  <2> QED
    BY <1>1, <2>1, Restored
<1>3. CASE files[p].broken
  <2>1. dict'.entries = <<>> /\ dict'.path = Nowhere
    BY <1>3 DEF Loaded, NoDict
  <2>2. Content(dict.entries)' = Store!None
    BY <2>1, NoWords
  <2> QED
    BY <1>3, <2>1, <2>2 DEF Store!Load
<1>4. CASE ~files[p].broken
  <2>1. dict'.entries = Parse(files[p].lines) /\ dict'.path = p
    BY <1>4 DEF Loaded
  <2>2. Content(dict.entries)' = Stored(files[p].lines)
    BY <1>2, <2>1
  <2> QED
    BY <1>4, <2>1, <2>2 DEF Store!Load
<1> QED
  BY <1>3, <1>4

(* A save that completes: the file in use then holds the words in use.      *)
LEMMA SavedRefines ==
    ASSUME KeysReadBack, DInv(Key), Saved
    PROVE  Store!Next \/ UNCHANGED Store!vars
<1> DEFINE file == [lines |-> Serialize(dict.entries), broken |-> FALSE]
           at == dict.path
<1>1. /\ EntriesOK(dict.entries, Key) /\ KeysAreSplit
      /\ files = [p \in Path |-> files[p]] /\ at \in Path \cup {Nowhere}
  BY DEF DInv, DictOK, EntriesOK, KeysReadBack
<1>2. dict'.entries = dict.entries /\ dict'.path = dict.path
  BY DEF Saved, DInv, DictOK
<1>3. Stored(file.lines) = Content(dict.entries)
  BY <1>1, WrittenAsHeld
<1>4. CASE dict.dirty /\ at # Nowhere
  <2>1. files' = [files EXCEPT ![at] = file]
    BY <1>4 DEF Saved, Written
  <2>2. at \in Path
    BY <1>1, <1>4
  <2> HIDE DEF file
  <2>3. /\ \A p \in Path : files'[p] = IF p = at THEN file ELSE files[p]
        /\ file.broken = FALSE
    BY <1>1, <2>1 DEF file
  <2>4. [p \in Path |-> Stored(files[p].lines)]'
          = [[p \in Path |-> Stored(files[p].lines)] EXCEPT ![at] = Content(dict.entries)]
    BY <1>3, <2>2, <2>3
  <2>5. [p \in Path |-> ~files[p].broken]' = [[p \in Path |-> ~files[p].broken] EXCEPT ![at] = TRUE]
    BY <2>2, <2>3
  <2>6. Store!Save
    BY <1>2, <1>4, <2>4, <2>5 DEF Store!Save
  <2> QED
    BY <2>6 DEF Store!Next
<1>5. CASE ~(dict.dirty /\ at # Nowhere)
  <2>1. UNCHANGED files
    BY <1>5 DEF Saved, Written
  <2> QED
    BY <1>2, <2>1 DEF Store!vars
<1> QED
  BY <1>4, <1>5

(* A write that is cut short leaves some of the words in the file in use.    *)
LEMMA CutRefines ==
    ASSUME KeysReadBack, DInv(Key), dict.path # Nowhere,
           \E file \in CutLines(Serialize(dict.entries)) : Written(file),
           \/ UNCHANGED dict
           \/ dict' = NoDict
    PROVE  Store!CutShort
<1> DEFINE at == dict.path
           lines == Serialize(dict.entries)
<1>1. PICK file \in CutLines(lines) : Written(file)
  OBVIOUS
<1>2. /\ EntriesOK(dict.entries, Key) /\ KeysAreSplit /\ at \in Path
      /\ files = [p \in Path |-> files[p]]
  BY DEF DInv, DictOK, EntriesOK, KeysReadBack
<1>3. \A p \in Path : files'[p] = IF p = at THEN file ELSE files[p]
  BY <1>1, <1>2 DEF Written
<1>4. lines \in Seq(Lines(Key)) /\ Closed(Key)
  BY <1>2, KeysClosed, SerializeTyped
<1>5. Lines(Key) \subseteq LineSet
  BY DEF Lines, LineSet
<1>6. Stored(lines) = Content(dict.entries)
  BY <1>2, WrittenAsHeld
<1> HIDE DEF lines
<1>7. file.lines \in Seq(Lines(Key))
  BY <1>4, CutLinesTyped DEF FileOK
<1>8. ASSUME NEW k \in Key
      PROVE  ToSet(Stored(file.lines)[k]) \subseteq ToSet(Content(dict.entries)[k]) \cup {Damaged}
  <2>1. lines \in Seq(LineSet) /\ file.lines \in Seq(LineSet)
    BY <1>4, <1>5, <1>7
  <2> QED
    BY <1>1, <1>6, <2>1, CutWords
<1>9. \A s : Store!Known(s) = ToSet(s)
  BY DEF Store!Known, ToSet
<1>10. \A p \in Path \ {at} : files'[p] = files[p]
  BY <1>3
<1>11. files'[at] = file
  BY <1>2, <1>3
<1>12. [p \in Path |-> Stored(files[p].lines)]'[at] = Stored(file.lines)
  BY <1>2, <1>11
<1>13. \A k \in Key : Store!Known([p \in Path |-> Stored(files[p].lines)]'[at][k])
                        \subseteq Store!Known(Content(dict.entries)[k]) \cup {Damaged}
  BY <1>8, <1>9, <1>12
<1>14. \/ UNCHANGED <<Content(dict.entries), dict.path>>
       \/ Content(dict.entries)' = Store!None /\ dict.path' = Nowhere
  BY NoWords DEF NoDict
<1> QED
  BY <1>10, <1>13, <1>14 DEF Store!CutShort

(* Without a dictionary the daemon has no words.                            *)
LEMMA StopRefines ==
    ASSUME dict' = NoDict, UNCHANGED files
    PROVE  Store!Stop
<1>1. Content(dict.entries)' = Store!None /\ dict.path' = Nowhere
  BY NoWords DEF NoDict
<1> QED
  BY <1>1 DEF Store!Stop

(* Every step of the dictionary is one of the store, or is not seen there.   *)
LEMMA StepRefines ==
    ASSUME KeysReadBack, DInv(Key), [Next]_vars
    PROVE  Store!Next \/ UNCHANGED Store!vars
<1>1. ASSUME NEW e \in Entry, Learn(e) PROVE Store!Next \/ UNCHANGED Store!vars
  BY <1>1, LearnRefines
<1>2. ASSUME NEW e \in Entry, Purge(e) PROVE Store!Next \/ UNCHANGED Store!vars
  BY <1>2, PurgeRefines
<1>3. CASE OtherKey
  BY <1>3, Unseen DEF OtherKey
<1>4. CASE Saved
  BY <1>4, SavedRefines
<1>5. CASE SaveFails
  <2>1. CASE UNCHANGED files
    BY <1>5, <2>1, Unseen DEF SaveFails
  <2>2. CASE \E file \in CutLines(Serialize(dict.entries)) : Written(file)
    <3>1. Store!CutShort
      BY <1>5, <2>2, CutRefines DEF SaveFails
    <3> QED
      BY <3>1 DEF Store!Next
  <2> QED
    BY <1>5, <2>1, <2>2 DEF SaveFails
<1>6. ASSUME NEW r \in Call, ReadConfig(r) PROVE Store!Next \/ UNCHANGED Store!vars
  BY <1>6, Unseen DEF ReadConfig
<1>7. ASSUME NEW r \in Call, BeginReload(r) PROVE Store!Next \/ UNCHANGED Store!vars
  BY <1>7, Unseen DEF BeginReload
<1>8. CASE LoadDicts
  <2>1. task.next.path \in Path
    <3>1. task.next \in Config
      BY DEF DInv, Tasks
    <3> QED
      BY <3>1, Constants
  <2>2. PICK p \in Path : p = task.next.path
    BY <2>1
  <2>3. Store!Load(p)
    BY <1>8, <2>2, LoadRefines DEF LoadDicts
  <2> QED
    BY <2>3 DEF Store!Next
<1>9. ASSUME NEW c \in Config, EditConfig(c) PROVE Store!Next \/ UNCHANGED Store!vars
  BY <1>9, Unseen DEF EditConfig
<1>10. CASE Crash
  <2>1. CASE UNCHANGED files
    <3>1. Store!Stop
      BY <1>10, <2>1, StopRefines DEF Crash
    <3> QED
      BY <3>1 DEF Store!Next
  <2>2. CASE dict.path # Nowhere /\ \E file \in CutLines(Serialize(dict.entries)) : Written(file)
    <3>1. Store!CutShort
      BY <1>10, <2>2, CutRefines DEF Crash
    <3> QED
      BY <3>1 DEF Store!Next
  <2> QED
    BY <1>10, <2>1, <2>2 DEF Crash
<1>11. CASE Start
  <2>1. PICK p \in Path : p = configFile.path
    BY Constants DEF DInv
  <2>2. Store!Load(p)
    BY <1>11, <2>1, LoadRefines DEF Start
  <2> QED
    BY <2>2 DEF Store!Next
<1>12. CASE UNCHANGED vars
  BY <1>12, Unseen DEF vars
<1> QED
  BY <1>1, <1>2, <1>3, <1>4, <1>5, <1>6, <1>7, <1>8, <1>9, <1>10, <1>11, <1>12 DEF Next

(* The dictionary and its file are a store of words, whatever the format of  *)
(* the file, the keys, the faults, the restarts and the reloads              *)
(* (UserDict::learn, purge, save and load).                                 *)
THEOREM IsStore == ASSUME KeysReadBack PROVE Spec => ActsAsStore
<1>1. Closed(Key)
  BY KeysClosed DEF KeysReadBack
<1>2. Init => DInv(Key)
  BY <1>1, InitOK
<1>3. DInv(Key) /\ [Next]_vars => DInv(Key)'
  BY <1>1, StepOK
<1>4. Init => dict.path \in Path \cup {Nowhere}
  BY Constants DEF Init
<1>5. DInv(Key) /\ [Next]_vars => [Store!Next]_Store!vars
  BY StepRefines
<1> QED
  BY <1>2, <1>3, <1>4, <1>5, PTL DEF Spec, ActsAsStore, Store!Spec

(* ---- the file and the words in use ---- *)

(* A dictionary that is not marked dirty has the words of its file.         *)
Clean == up /\ ~dict.dirty /\ dict.path # Nowhere =>
    /\ ~files[dict.path].broken
    /\ Stored(files[dict.path].lines) = Content(dict.entries)

(* A dictionary has every word of its file, but those purged from it.       *)
Has(words, gone, k, w) ==
    w \in ToSet(words[k]) \/ [midashi |-> k[1], okuri |-> k[2], word |-> w] \in gone
Covers(words, gone, f) ==
    \A k \in Key : \A w \in ToSet(Stored(f.lines)[k]) \ {Damaged} : Has(words, gone, k, w)
Covered == up /\ dict.path # Nowhere => Covers(Content(dict.entries), purged, files[dict.path])

(* Both are so when the dictionary has just been read.                      *)
LEMMA JustRead ==
    ASSUME KeysReadBack, DInv(Key), NEW p \in Path, dict' = Loaded(p), UNCHANGED <<files, purged>>
    PROVE  Clean' /\ Covered'
<1>1. files[p].lines \in Seq(Lines(Key))
  BY DEF DInv
<1>2. Content(Parse(files[p].lines)) = Stored(files[p].lines)
  <2>1. PICK lines : lines = files[p].lines
    OBVIOUS
  <2> QED
    BY <1>1, <2>1, Restored
<1>3. dict'.path # Nowhere => /\ ~files[p].broken /\ dict'.path = p
                              /\ dict'.entries = Parse(files[p].lines)
  BY DEF Loaded, NoDict
<1>4. dict'.path # Nowhere => Content(dict.entries)' = Stored(files[p].lines) /\ dict'.path = p
                              /\ ~files[p].broken
  BY <1>2, <1>3
<1>5. Clean'
  BY <1>4 DEF Clean
<1>6. Covered'
  BY <1>4 DEF Covered, Covers, Has
<1> QED
  BY <1>5, <1>6

(* At the start every file is the first one.                                *)
LEMMA FirstRead == ASSUME KeysReadBack, Init PROVE Clean /\ Covered
<1>1. FirstLines \in Seq(Lines(Key)) /\ FirstConfig.path \in Path
  BY KeysClosed, Constants DEF KeysReadBack, Closed
<1>2. Content(dict.entries) = Stored(FirstLines)
  BY <1>1, Restored DEF Init
<1>3. dict.path \in Path /\ files[dict.path] = [lines |-> FirstLines, broken |-> FALSE]
  BY <1>1 DEF Init
<1>4. Clean
  BY <1>2, <1>3 DEF Clean
<1>5. Covered
  BY <1>2, <1>3 DEF Covered, Covers, Has
<1> QED
  BY <1>4, <1>5

(* Learning takes away no word, and what it adds counts as purged no more.  *)
LEMMA LearnKeeps ==
    ASSUME DInv(Key), Clean, Covered, NEW e \in Entry, Learn(e)
    PROVE  Clean' /\ Covered'
<1> DEFINE key == <<e.midashi, e.okuri>>
           old == Content(dict.entries)
           new == Content(dict.entries)'
<1>1. /\ dict'.entries = Learned(dict.entries, e) /\ dict'.path = dict.path /\ dict'.dirty = TRUE
      /\ files' = files /\ EntriesOK(dict.entries, Key) /\ purged' = purged \ {e} /\ up' = up
  BY DEF Learn, DInv, DictOK, EntriesOK
<1>2. key \in Key /\ key[1] = e.midashi /\ key[2] = e.okuri
  BY DEF Key
<1>3. new[key] = <<e.word>> \o Without(old[key], e.word) /\ \A j \in Key \ {key} : new[j] = old[j]
  <2>1. PICK K : K = Key
    OBVIOUS
  <2>2. EntriesOK(dict.entries, K) /\ Key \subseteq K
    BY <1>1, <2>1
  <2> QED
    BY <1>1, <2>2, LearnedWords
<1>4. \A k \in Key : old[k] \in Seq(Words)
  BY <1>1, LookupTyped, WordsTyped DEF Content
<1>5. e.word \in Words /\ e \in [midashi : Text, okuri : Seq(Glyph), word : Word]
  BY EntryTyped, DictAssumption DEF DictAssumption
<1>6. \A w : w \in ToSet(new[key]) <=> w = e.word \/ w \in ToSet(old[key])
  <2>1. PICK s : s = old[key]
    OBVIOUS
  <2>2. s \in Seq(Words)
    BY <1>2, <1>4, <2>1
  <2>3. Without(s, e.word) \in Seq(Words) /\ ToSet(Without(s, e.word)) = ToSet(s) \ {e.word}
    BY <2>2, WithoutTyped
  <2>4. PICK t, h : t = Without(s, e.word) /\ h = <<e.word>>
    OBVIOUS
  <2>5. h \in Seq(Words) /\ ToSet(h) = {e.word} /\ t \in Seq(Words)
    BY <1>5, <2>3, <2>4 DEF ToSet
  <2>6. \A w : w \in ToSet(h \o t) <=> w \in ToSet(h) \/ w \in ToSet(t)
    BY <2>5, JoinMembers
  <2> QED
    BY <1>3, <2>1, <2>3, <2>4, <2>5, <2>6
<1> HIDE DEF old, new
<1>7. ASSUME NEW k \in Key, NEW w, Has(old, purged, k, w) PROVE Has(new, purged', k, w)
  <2>1. CASE k = key /\ w = e.word
    BY <1>6, <2>1 DEF Has
  <2>2. CASE ~(k = key /\ w = e.word)
    <3>1. w \in ToSet(old[k]) => w \in ToSet(new[k])
      BY <1>3, <1>6
    <3>2. k = <<k[1], k[2]>>
      BY DEF Key
    <3>3. [midashi |-> k[1], okuri |-> k[2], word |-> w] # e
      BY <2>2, <3>2
    <3> QED
      BY <1>1, <1>7, <3>1, <3>3 DEF Has
  <2> QED
    BY <2>1, <2>2
<1>8. Clean'
  BY <1>1 DEF Clean
<1>9. Covered'
  BY <1>1, <1>7 DEF Covered, Covers, old, new
<1> QED
  BY <1>8, <1>9

(* Purging takes away one word, and marks the dictionary when it does.      *)
LEMMA PurgeKeeps ==
    ASSUME DInv(Key), Clean, Covered, NEW e \in Entry, Purge(e)
    PROVE  Clean' /\ Covered'
<1> DEFINE key == <<e.midashi, e.okuri>>
           old == Content(dict.entries)
           new == Content(dict.entries)'
           cands == Lookup(dict.entries, e.midashi, e.okuri)
           removed == \E i \in DOMAIN cands : cands[i] = Plain(e.word)
<1>1. /\ dict'.entries = Purged(dict.entries, e) /\ dict'.path = dict.path
      /\ dict'.dirty = (dict.dirty \/ removed)
      /\ files' = files /\ EntriesOK(dict.entries, Key) /\ purged' = purged \cup {e} /\ up' = up
  BY DEF Purge, DInv, DictOK, EntriesOK
<1>2. key \in Key /\ key[1] = e.midashi /\ key[2] = e.okuri
  BY DEF Key
<1>3. new[key] = Without(old[key], e.word) /\ \A j \in Key \ {key} : new[j] = old[j]
  <2>1. PICK K : K = Key
    OBVIOUS
  <2>2. EntriesOK(dict.entries, K) /\ Key \subseteq K
    BY <1>1, <2>1
  <2> QED
    BY <1>1, <2>2, PurgedWords
<1>4. \A k \in Key : old[k] \in Seq(Words)
  BY <1>1, LookupTyped, WordsTyped DEF Content
<1>5. e.word \in Words /\ e = [midashi |-> e.midashi, okuri |-> e.okuri, word |-> e.word]
  BY EntryTyped, DictAssumption DEF DictAssumption
<1>6. cands \in Cands /\ old[key] = WordsOf[cands]
  BY <1>1, <1>2, LookupTyped DEF Content
<1>7. ASSUME ~removed PROVE new = old
  <2> HIDE DEF cands
  <2>1. e.word \notin ToSet(WordsOf[cands])
    <3> SUFFICES ASSUME e.word \in ToSet(WordsOf[cands]) PROVE FALSE
      OBVIOUS
    <3>1. PICK c \in ToSet(cands) : Displayable(c) /\ c.words[1] = e.word
      BY <1>6, WordsMembers
    <3>2. c \in Candidate
      BY <1>6 DEF Cands, ToSet
    <3>3. c = Plain(e.word)
      BY <3>1, <3>2, PlainIs
    <3> QED
      BY <1>7, <3>1, <3>3 DEF ToSet
  <2>2. PICK s : s = old[key]
    OBVIOUS
  <2>3. s \in Seq(Words) /\ e.word \notin ToSet(s)
    BY <1>2, <1>4, <1>6, <2>1, <2>2
  <2>4. Without(s, e.word) = s
    BY <2>3, WithoutNone
  <2>5. new[key] = old[key]
    BY <1>3, <2>2, <2>4
  <2>6. \A k \in Key : new[k] = old[k]
    BY <1>3, <2>5
  <2>7. new = [k \in Key |-> new[k]] /\ old = [k \in Key |-> old[k]]
    BY DEF Content
  <2> HIDE DEF new, old
  <2> QED
    BY <2>6, <2>7
<1>8. \A w : w \in ToSet(new[key]) <=> w \in ToSet(old[key]) /\ w # e.word
  <2>1. PICK s : s = old[key]
    OBVIOUS
  <2>2. s \in Seq(Words)
    BY <1>2, <1>4, <2>1
  <2>3. ToSet(Without(s, e.word)) = ToSet(s) \ {e.word}
    BY <2>2, WithoutTyped
  <2> QED
    BY <1>3, <2>1, <2>3
<1> HIDE DEF old, new, removed, cands
<1>9. ASSUME NEW k \in Key, NEW w, Has(old, purged, k, w) PROVE Has(new, purged', k, w)
  <2>1. CASE k = key /\ w = e.word
    <3>1. [midashi |-> k[1], okuri |-> k[2], word |-> w] = e
      BY <1>2, <1>5, <2>1
    <3> QED
      BY <1>1, <3>1 DEF Has
  <2>2. CASE ~(k = key /\ w = e.word)
    <3>1. w \in ToSet(old[k]) => w \in ToSet(new[k])
      BY <1>3, <1>8, <2>2
    <3> QED
      BY <1>1, <1>9, <3>1 DEF Has
  <2> QED
    BY <2>1, <2>2
<1>10. Clean'
  BY <1>1, <1>7 DEF Clean, old, new
<1>11. Covered'
  BY <1>1, <1>9 DEF Covered, Covers, old, new
<1> QED
  BY <1>10, <1>11

(* A save leaves in the file the words in use.                              *)
LEMMA SavedKeeps ==
    ASSUME KeysReadBack, DInv(Key), Clean, Covered, Saved
    PROVE  /\ Clean' /\ Covered'
           /\ \A p \in Path : InFile(files[p]) \ InFile(files'[p]) \subseteq purged
<1> DEFINE file == [lines |-> Serialize(dict.entries), broken |-> FALSE]
           at == dict.path
<1>1. /\ EntriesOK(dict.entries, Key) /\ KeysAreSplit
      /\ files = [p \in Path |-> files[p]] /\ at \in Path \cup {Nowhere} /\ up
  BY DEF DInv, DictOK, EntriesOK, KeysReadBack, Saved, Flushing
<1>2. /\ dict'.entries = dict.entries /\ dict'.path = dict.path
      /\ purged' = purged /\ up' = up
  BY DEF Saved, DInv, DictOK
<1>3. Stored(file.lines) = Content(dict.entries) /\ file.broken = FALSE
  BY <1>1, WrittenAsHeld
<1> HIDE DEF file
<1>4. CASE dict.dirty /\ at # Nowhere
  <2>1. files' = [files EXCEPT ![at] = file]
    BY <1>4 DEF Saved, Written, file
  <2>2. at \in Path
    BY <1>1, <1>4
  <2>3. \A p \in Path : files'[p] = IF p = at THEN file ELSE files[p]
    BY <1>1, <2>1
  <2>4. files'[at] = file
    BY <2>2, <2>3
  <2>5. Clean'
    BY <1>2, <1>3, <2>4 DEF Clean
  <2>6. Covered'
    BY <1>2, <1>3, <2>4 DEF Covered, Covers, Has
  <2>7. Covers(Content(dict.entries), purged, files[at])
    BY <1>1, <1>4 DEF Covered
  <2>8. InFile(files[at]) \ InFile(file) \subseteq purged
    <3>1. ASSUME NEW x \in InFile(files[at]), x \notin InFile(file) PROVE x \in purged
      <4>1. PICK k \in Key : \E w \in ToSet(Stored(files[at].lines)[k]) \ {Damaged} :
                                x = [midashi |-> k[1], okuri |-> k[2], word |-> w]
        BY <3>1 DEF InFile
      <4>2. PICK w \in ToSet(Stored(files[at].lines)[k]) \ {Damaged} :
                                x = [midashi |-> k[1], okuri |-> k[2], word |-> w]
        BY <4>1
      <4>3. w \notin ToSet(Stored(file.lines)[k])
        BY <3>1, <4>2 DEF InFile
      <4>4. Has(Content(dict.entries), purged, k, w)
        BY <2>7, <4>2 DEF Covers
      <4> QED
        BY <1>3, <4>2, <4>3, <4>4 DEF Has
    <3> QED
      BY <3>1
  <2>9. ASSUME NEW p \in Path PROVE InFile(files[p]) \ InFile(files'[p]) \subseteq purged
    <3>1. CASE p = at
      BY <2>4, <2>8, <3>1
    <3>2. CASE p # at
      <4>1. files'[p] = files[p]
        BY <2>3, <3>2
      <4> QED
        BY <4>1
    <3> QED
      BY <3>1, <3>2
  <2> QED
    BY <2>5, <2>6, <2>9
<1>5. CASE ~(dict.dirty /\ at # Nowhere)
  <2>1. UNCHANGED files
    BY <1>5 DEF Saved, Written
  <2>2. \A p \in Path : InFile(files[p]) \ InFile(files'[p]) \subseteq purged
    BY <2>1
  <2>3. Clean'
    BY <1>1, <1>2, <1>5, <2>1 DEF Clean
  <2>4. Covered'
    BY <1>2, <2>1 DEF Covered
  <2> QED
    BY <2>2, <2>3, <2>4
<1> QED
  BY <1>4, <1>5

(* A save that fails leaves the mark, and in the file words in use.         *)
LEMMA SaveFailsKeeps ==
    ASSUME KeysReadBack, DInv(Key), Covered, SaveFails
    PROVE  Clean' /\ Covered' /\ dict'.dirty
<1>1. /\ dict.dirty /\ dict.path # Nowhere /\ up' = up /\ up /\ UNCHANGED <<dict, purged>>
  BY DEF SaveFails, Flushing
<1>2. Clean' /\ dict'.dirty
  BY <1>1 DEF Clean
<1>3. CASE UNCHANGED files
  BY <1>1, <1>2, <1>3 DEF Covered
<1>4. CASE \E file \in CutLines(Serialize(dict.entries)) : Written(file)
  <2> DEFINE lines == Serialize(dict.entries)
             at == dict.path
  <2>1. PICK file \in CutLines(lines) : Written(file)
    BY <1>4
  <2>2. /\ EntriesOK(dict.entries, Key) /\ KeysAreSplit /\ at \in Path
        /\ files = [p \in Path |-> files[p]]
    BY <1>1 DEF DInv, DictOK, EntriesOK, KeysReadBack
  <2>3. files'[at] = file
    BY <1>1, <2>1, <2>2 DEF Written
  <2>4. lines \in Seq(Lines(Key)) /\ Lines(Key) \subseteq LineSet
    BY <2>2, KeysClosed, SerializeTyped DEF Lines, LineSet
  <2>5. Stored(lines) = Content(dict.entries)
    BY <2>2, WrittenAsHeld
  <2> HIDE DEF lines
  <2>6. file.lines \in Seq(Lines(Key))
    BY <2>1, <2>4, CutLinesTyped DEF FileOK
  <2>7. lines \in Seq(LineSet) /\ file.lines \in Seq(LineSet)
    BY <2>4, <2>6
  <2>8. \A k \in Key :
           ToSet(Stored(file.lines)[k]) \subseteq ToSet(Content(dict.entries)[k]) \cup {Damaged}
    BY <2>1, <2>5, <2>7, CutWords
  <2>9. Covers(Content(dict.entries), purged, file)
    BY <2>8 DEF Covers, Has
  <2>10. Covered'
    BY <1>1, <2>3, <2>9 DEF Covered
  <2> QED
    BY <1>2, <2>10
<1> QED
  BY <1>3, <1>4 DEF SaveFails

(* Steps that touch neither the dictionary nor the files.                   *)
LEMMA OthersKeep ==
    ASSUME Clean, Covered, UNCHANGED <<up, dict, files, purged>>
    PROVE  Clean' /\ Covered'
  BY DEF Clean, Covered

(* A save takes from the files only what was purged.                        *)
OnlyPurgedGoes ==
    dict.dirty /\ ~dict'.dirty /\ up' /\ dict'.path = dict.path =>
        \A p \in Path : InFile(files[p]) \ InFile(files'[p]) \subseteq purged

(* Every step keeps both, and loses no other word.                          *)
LEMMA StepKeeps ==
    ASSUME KeysReadBack, DInv(Key), Clean, Covered, [Next]_vars
    PROVE  Clean' /\ Covered' /\ OnlyPurgedGoes
<1>1. ASSUME UNCHANGED files PROVE OnlyPurgedGoes
  BY <1>1 DEF OnlyPurgedGoes
<1>2. ASSUME NEW e \in Entry, Learn(e) PROVE Clean' /\ Covered' /\ OnlyPurgedGoes
  BY <1>1, <1>2, LearnKeeps DEF Learn
<1>3. ASSUME NEW e \in Entry, Purge(e) PROVE Clean' /\ Covered' /\ OnlyPurgedGoes
  BY <1>1, <1>3, PurgeKeeps DEF Purge
<1>4. CASE OtherKey
  BY <1>1, <1>4, OthersKeep DEF OtherKey
<1>5. CASE Saved
  BY <1>5, SavedKeeps DEF OnlyPurgedGoes
<1>6. CASE SaveFails
  BY <1>6, SaveFailsKeeps DEF OnlyPurgedGoes
<1>7. ASSUME NEW r \in Call, ReadConfig(r) PROVE Clean' /\ Covered' /\ OnlyPurgedGoes
  BY <1>1, <1>7, OthersKeep DEF ReadConfig
<1>8. ASSUME NEW r \in Call, BeginReload(r) PROVE Clean' /\ Covered' /\ OnlyPurgedGoes
  BY <1>1, <1>8, OthersKeep DEF BeginReload
<1>9. CASE LoadDicts
  <2>1. PICK p \in Path : p = task.next.path
    <3>1. task.next \in Config
      BY DEF DInv, Tasks
    <3> QED
      BY <3>1, Constants
  <2> QED
    BY <1>1, <1>9, <2>1, JustRead DEF LoadDicts
<1>10. ASSUME NEW c \in Config, EditConfig(c) PROVE Clean' /\ Covered' /\ OnlyPurgedGoes
  BY <1>1, <1>10, OthersKeep DEF EditConfig
<1>11. CASE Crash
  BY <1>11 DEF Crash, Clean, Covered, OnlyPurgedGoes
<1>12. CASE Start
  <2>1. PICK p \in Path : p = configFile.path
    BY Constants DEF DInv
  <2> QED
    BY <1>1, <1>12, <2>1, JustRead DEF Start
<1>13. CASE UNCHANGED vars
  BY <1>1, <1>13, OthersKeep DEF vars
<1> QED
  BY <1>2, <1>3, <1>4, <1>5, <1>6, <1>7, <1>8, <1>9, <1>10, <1>11, <1>12, <1>13 DEF Next

(* A dictionary that is not marked dirty is what its file reads back as.     *)
LEMMA CleanIsSaved == ASSUME KeysReadBack, DInv(Key), Clean PROVE CleanMeansSaved
<1>1. SUFFICES ASSUME up, ~dict.dirty, dict.path # Nowhere
               PROVE  /\ ~files[dict.path].broken
                      /\ Content(Parse(files[dict.path].lines)) = Content(dict.entries)
  BY DEF CleanMeansSaved
<1>2. PICK lines : lines = files[dict.path].lines
  OBVIOUS
<1>3. lines \in Seq(Lines(Key))
  BY <1>1, <1>2 DEF DInv, DictOK
<1>4. Content(Parse(lines)) = Stored(lines)
  BY <1>3, Restored
<1> QED
  BY <1>1, <1>2, <1>4 DEF Clean

(* A dictionary that is not marked dirty can be read back from its file,     *)
(* with the same words in the same order, whatever failed before             *)
(* (flush_user_dict, UserDict::save).                                       *)
THEOREM CleanIsOnDisk == ASSUME KeysReadBack PROVE Spec => []CleanMeansSaved
<1>1. Closed(Key)
  BY KeysClosed DEF KeysReadBack
<1>2. Init => DInv(Key) /\ Clean /\ Covered
  BY <1>1, InitOK, FirstRead
<1>3. DInv(Key) /\ Clean /\ Covered /\ [Next]_vars => (DInv(Key) /\ Clean /\ Covered)'
  BY <1>1, StepOK, StepKeeps
<1>4. DInv(Key) /\ Clean => CleanMeansSaved
  BY CleanIsSaved
<1> QED
  BY <1>2, <1>3, <1>4, PTL DEF Spec

(* A completed save takes from a file only what was purged, also after      *)
(* faults, restarts and reloads that put another dictionary in its place     *)
(* (UserDict::save).                                                        *)
THEOREM OnlyPurgedIsLost == ASSUME KeysReadBack PROVE Spec => NothingOverwritten
<1>1. Closed(Key)
  BY KeysClosed DEF KeysReadBack
<1>2. Init => DInv(Key) /\ Clean /\ Covered
  BY <1>1, InitOK, FirstRead
<1>3. DInv(Key) /\ Clean /\ Covered /\ [Next]_vars => (DInv(Key) /\ Clean /\ Covered)'
  BY <1>1, StepOK, StepKeeps
<1>4. DInv(Key) /\ Clean /\ Covered /\ [Next]_vars => [OnlyPurgedGoes]_vars
  BY StepKeeps
<1> QED
  BY <1>2, <1>3, <1>4, PTL DEF Spec, NothingOverwritten, OnlyPurgedGoes
=============================================================================
