--------------------------- MODULE LookupProperties ---------------------------
(***************************************************************************)
(* What numbers, candidates and the texts of the dictionary promise.  The    *)
(* readers below are written from the meaning of the notations, not from    *)
(* the code that writes them.                                              *)
(***************************************************************************)
EXTENDS Lookup

(* ---- numerals, read back ---- *)

(* A number as the values of its groups of four digits, the lowest first.    *)
GroupsOf(n) ==
    [g \in 0 .. 4 |-> LET last  == Len(n) - 4 * g
                          first == IF last > 3 THEN last - 3 ELSE 1
                      IN  IF last < 1 THEN 0 ELSE ToInt(SubSeq(n, first, last))]

(* What a kanji numeral says, read from left to right: now is the group so   *)
(* far, digit the digit whose unit is still to come.  FALSE if a unit has    *)
(* nothing before it or is not below the one before.                        *)
KanjiReader == [groups |-> [g \in 0 .. 4 |-> 0], now |-> 0, digit |-> 0, below |-> 5, ok |-> TRUE]
UnitWorth   == <<10, 100, 1000>>

AtDigit(r, d)    == [r EXCEPT !.digit = d, !.ok = @ /\ r.digit = 0]
AtUnit(r, worth) == [r EXCEPT !.now = @ + (IF r.digit = 0 THEN 1 ELSE r.digit) * worth, !.digit = 0]
AtLarge(r, g)    == [r EXCEPT !.groups[g] = r.now + r.digit, !.now = 0, !.digit = 0, !.below = g,
                              !.ok = @ /\ g < r.below /\ r.now + r.digit > 0]

Nth(table, c) == CHOOSE e \in DOMAIN table : table[e] = c

KanjiStep(r, c, digits, units) ==
    IF c \in ToSet(units) THEN AtUnit(r, UnitWorth[Nth(units, c)])
    ELSE IF c \in ToSet(LargeUnits) THEN AtLarge(r, Nth(LargeUnits, c))
    ELSE AtDigit(r, Value[Nth(digits, c)])

KanjiRead(text, digits, units) ==
    LET after[i \in 0 .. Len(text)] ==
            IF i = 0 THEN KanjiReader ELSE KanjiStep(after[i - 1], text[i], digits, units)
    IN  after[Len(text)]

ReadKanji(text, digits, units) ==
    LET r == KanjiRead(text, digits, units)
    IN  IF r.ok THEN [r.groups EXCEPT ![0] = r.now + r.digit] ELSE <<>>

(* A Roman numeral: a letter before a greater one is subtracted.             *)
LetterValue == [I |-> 1, IV |-> 4, V |-> 5, IX |-> 9, X |-> 10, L |-> 50, C |-> 100,
                D |-> 500, M |-> 1000]

ReadLetter(c, script) == LetterValue[CHOOSE l \in Letter : script \o l = c]

SignedLetter(text, script, i) ==
    LET v == ReadLetter(text[i], script)
    IN  IF i < Len(text) /\ v < ReadLetter(text[i + 1], script) THEN -v ELSE v

ReadRoman(text, script) ==
    LET sum[i \in 0 .. Len(text)] == IF i = 0 THEN 0 ELSE sum[i - 1] + SignedLetter(text, script, i)
    IN  sum[Len(text)]

Script == [t \in {"6", "7", "a", "b"} |->
             CASE t = "6" -> "unicode " [] t = "7" -> "unicode small "
               [] t = "a" -> ""         [] t = "b" -> "small "]

Small(n, largest) == n # <<>> /\ Len(n) <= 4 /\ ToInt(n) <= largest

(* Each numeral of each number in the reading says the number again: the     *)
(* groups of a kanji or daiji numeral are those of the number, up to 64      *)
(* bits; a Roman numeral read by subtraction gives the number, from 1 to    *)
(* 3999; a circled one has its name, from 1 to 50; and there is a numeral    *)
(* exactly in that range (convert.rs:24, 108, 218, 243, 265).               *)
NumeralsReadBack ==
    \A k \in DOMAIN Runs(reading) :
        LET run    == Runs(reading)[k]
            n      == Significant(run)
            fits   == ~Exceeds(n, LargestNumber)
            Spelled(t) == Convert(run, t)
        IN  /\ (Spelled("3") # None) = fits /\ (Spelled("5") # None) = fits
            /\ fits => /\ ReadKanji(Spelled("3"), KanjiDigit, KanjiUnits) = GroupsOf(n)
                       /\ ReadKanji(Spelled("5"), DaijiDigit, DaijiUnits) = GroupsOf(n)
            /\ \A t \in DOMAIN Script :
                  /\ (Spelled(t) # None) = Small(n, 3999)
                  /\ Spelled(t) # None => ReadRoman(Spelled(t), Script[t]) = ToInt(n)
            /\ (Spelled("c") # None) = Small(n, 50)
            /\ Spelled("c") # None => Spelled("c") = <<"circled " \o ToString(ToInt(n))>>

(* ---- candidates ---- *)

Shown(text) == Displayable(AllFound(Template(text)))
Hidden(key) == IF directives THEN UNION {ToSet(c.ignored) : c \in ToSet(AllFound(key))} ELSE {}
Known(key)  == {c.word : c \in ToSet(Displayable(AllFound(key)))} \ Hidden(key)

(* The m-th marker of a word is for the m-th run: the ways to write that,    *)
(* its numeral, or for "#4" any word known for it; and a way for each marker. *)
Markers(word) == {i \in DOMAIN word : IsMarker(word, i, NumType \cup {"4"})}

Ways(word, i, runs) ==
    LET run == runs[Cardinality({j \in Markers(word) : j <= i})]
    IN  IF word[i + 1] = "4" THEN Known(run) ELSE {Convert(run, word[i + 1])} \ {None}

Combinations(word, runs) ==
    {f \in [Markers(word) -> UNION {Ways(word, i, runs) : i \in Markers(word)}] :
        \A i \in Markers(word) : f[i] \in Ways(word, i, runs)}

Spelt(word, f) ==
    FlattenSeq([i \in DOMAIN word |-> IF i \in Markers(word) THEN f[i]
                                      ELSE IF i - 1 \in Markers(word) THEN <<>> ELSE <<word[i]>>])

(* What a word stands for, given the runs.                                   *)
Meanings(word, runs) ==
    IF runs = <<>> THEN {word}
    ELSE IF Cardinality(Markers(word)) > Len(runs) THEN {}
    ELSE IF \A i \in Markers(word) : word[i + 1] # "4" THEN {Expand(word, runs)} \ {None}
    ELSE {Spelt(word, f) : f \in Combinations(word, runs)}

(* The cap counts the combinations, two of which may read the same.          *)
FewEnough(word, runs) ==
    /\ \A k \in DOMAIN runs : Cardinality(Known(runs[k])) <= MaxExpansions
    /\ Cardinality(Markers(word)) <= Len(runs)
          => Cardinality(Combinations(word, runs)) <= MaxExpansions

(* A conversion offers every word once; a dictionary's words are what its     *)
(* entry means for the numbers typed, none of them ignored and, up to the    *)
(* cap on "#4", none of them missing; they come in the order of the          *)
(* dictionaries, and the synthesized numerals come last, if nothing else     *)
(* was found or the reading is a number (engine.rs:1439, template.rs:125).   *)
OfferedAsPromised ==
    phase = "selecting" =>
        LET runs     == Runs(reading)
            shown    == Shown(reading)
            ignored  == Hidden(Template(reading))
            fromDict == Among(offered, {o \in ToSet(offered) : ~o.synthetic})
            words    == {o.word : o \in ToSet(fromDict)}
            Rank(o)  == SelectInSeq(shown, LAMBDA c : c.word = o.template)
            promised == (UNION {Meanings(c.word, runs) : c \in ToSet(shown)}) \ ignored
        IN  /\ Cardinality({o.word : o \in ToSet(offered)}) = Len(offered)
            /\ \A o \in ToSet(fromDict) : Rank(o) # 0 /\ o.word \in Meanings(o.template, runs)
            /\ words \subseteq promised
            /\ (\A c \in ToSet(shown) : FewEnough(c.word, runs)) => words = promised
            /\ \A i, j \in DOMAIN fromDict : i < j => Rank(fromDict[i]) <= Rank(fromDict[j])
            /\ \A i \in DOMAIN offered : offered[i].synthetic => i > Len(fromDict)
            /\ fromDict # offered => runs # <<>> /\ (fromDict = <<>> \/ Template(reading) = <<"#">>)

(* The word chosen or registered last for a key is the first one offered the *)
(* next time, for other numbers too and after a restart, unless every word   *)
(* it stands for is ignored or cannot be written (engine.rs:1951, 2201,      *)
(* file.rs:219).                                                           *)
LearnedComesFirst ==
    LET key == Template(reading)
    IN  phase = "selecting" /\ key \in DOMAIN learned /\ FewEnough(learned[key], Runs(reading)) =>
            \/ offered[1].word \in Meanings(learned[key], Runs(reading))
            \/ Meanings(learned[key], Runs(reading)) \subseteq Hidden(key)

(* ---- the file ---- *)

(* An annotation with no reserved glyph that is nonetheless read as a form:  *)
(* blanks around "(concat)", which needs_quoting does not look for.          *)
ReadAsForm(c) ==
    c.annotation # None /\ ~NeedsQuoting(c.annotation) /\ ParseConcat(c.annotation) # None

(* Any word that can be registered, with any annotation, and whatever a line *)
(* of the file was read as, is read back the same after it was written: the  *)
(* quoting of the glyphs the syntax reserves loses nothing (lisp.rs:42, 161,*)
(* 170, file.rs:380, 475).                                                 *)
FilesReadBack ==
    LET lists == {user[key] : key \in DOMAIN user}
                 \cup (IF phase = "registering" /\ buffer # <<>>
                       THEN {<<Registered(buffer)>>} ELSE {})
    IN  \A cands \in lists :
            (\A i \in DOMAIN cands : ~ReadAsForm(cands[i]))
                => ParseCandidates(SerializeCandidates(cands)) = cands
=============================================================================
