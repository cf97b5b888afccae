------------------------------ MODULE Numerals ------------------------------
(***************************************************************************)
(* Numeric conversion (skk-core/src/num): a reading with digits is looked   *)
(* up with "#" for each run of digits, and the words found there name the   *)
(* numeral each run becomes by a marker after "#".                          *)
(*                                                                         *)
(* A text is a sequence of glyphs.  A number is its decimal digits, the     *)
(* first of them not zero, so that 64 bits are no matter of the integers.   *)
(* A numeral's glyph is named after its script and the digit it stands for. *)
(***************************************************************************)
EXTENDS Integers, FiniteSets, Lists

CONSTANTS MaxExpansions,  \* MAX_RECURSIVE_EXPANSIONS
          None

ASSUME NumeralsAssumption == MaxExpansions \in Nat \ {0}

Digits == <<"0", "1", "2", "3", "4", "5", "6", "7", "8", "9">>
Digit  == ToSet(Digits)
Value  == [d \in Digit |-> CHOOSE v \in 0 .. 9 : Digits[v + 1] = d]

(* ---- numbers ---- *)

Significant(run) ==
    LET first == SelectInSeq(run, LAMBDA d : d # "0")
        kept  == IF first = 0 THEN <<>> ELSE SubSeq(run, first, Len(run))
    IN  [i \in DOMAIN kept |-> Value[kept[i]]]

LargestNumber == <<1, 8, 4, 4, 6, 7, 4, 4, 0, 7, 3, 7, 0, 9, 5, 5, 1, 6, 1, 5>>

Exceeds(m, n) ==
    \/ Len(m) > Len(n)
    \/ Len(m) = Len(n) /\ \E i \in DOMAIN m : m[i] > n[i] /\ SubSeq(m, 1, i - 1) = SubSeq(n, 1, i - 1)

(* parse_u64 *)
Number(run) ==
    IF run = <<>> \/ Exceeds(Significant(run), LargestNumber) THEN None ELSE Significant(run)

InRange(n, largest) == n # None /\ n # <<>> /\ ~Exceeds(n, largest)

ToInt(n) ==
    LET upto[i \in 0 .. Len(n)] == IF i = 0 THEN 0 ELSE 10 * upto[i - 1] + n[i]
    IN  upto[Len(n)]

(* ---- digit by digit ---- *)

Wide       == [d \in Digit |-> "wide " \o d]
KanjiDigit == [d \in Digit |-> "kanji " \o d]
DaijiDigit == [d \in Digit |-> IF d \in {"0", "1", "2", "3", "5"} THEN "daiji " \o d ELSE KanjiDigit[d]]

Mapped(run, glyph) == [i \in DOMAIN run |-> glyph[run[i]]]

(* The first digit is wide, the others are kanji; to_shogi leaves zeros.     *)
Shogi(run) ==
    [i \in DOMAIN run |-> IF i = 1 THEN Wide[run[i]]
                          ELSE IF run[i] = "0" THEN "0" ELSE KanjiDigit[run[i]]]

(* ---- kanji with places ---- *)

LargeUnits == <<"man", "oku", "cho", "kei">>   \* 10^4, 10^8, 10^12, 10^16
KanjiUnits == <<"ten", "hundred", "thousand">>
DaijiUnits == <<"daiji ten", "hundred", "daiji thousand">>

(* Mutant: a large unit is written after a group of zeros, too.              *)
WritesUnitAlways(n, e) == e > 0 /\ e % 4 = 0

(* After the digit worth 10^e comes a large unit.                            *)
WritesUnit(n, e) ==
    e > 0 /\ e % 4 = 0 /\ \E i \in DOMAIN n : (Len(n) - i) \div 4 = e \div 4 /\ n[i] # 0

(* kanji_number: digits that are zero leave no trace, and neither does a     *)
(* group of four of them; a one is not written before the units up to 1000. *)
KanjiNumber(n, digits, units, omitOne) ==
    LET Place(d, e) ==
            IF d = 0 THEN <<>>
            ELSE (IF d = 1 /\ omitOne /\ e > 0 THEN <<>> ELSE <<digits[Digits[d + 1]]>>)
                 \o (IF e > 0 THEN <<units[e]>> ELSE <<>>)
        Unit(e) == IF WritesUnit(n, e) THEN <<LargeUnits[e \div 4]>> ELSE <<>>
    IN  IF n = <<>> THEN <<digits["0"]>>
        ELSE FlattenSeq([i \in DOMAIN n |->
                 LET e == Len(n) - i IN Place(n[i], e % 4) \o Unit(e)])

(* ---- Roman and circled numerals ---- *)

(* ROMAN_VALUES; the Unicode numerals have one glyph for four and for nine.  *)
RomanValues ==
    <<<<1000, <<"M">>>>, <<900, <<"C", "M">>>>, <<500, <<"D">>>>, <<400, <<"C", "D">>>>,
      <<100, <<"C">>>>, <<90, <<"X", "C">>>>, <<50, <<"L">>>>, <<40, <<"X", "L">>>>,
      <<10, <<"X">>>>, <<9, <<"I", "X">>>>, <<5, <<"V">>>>, <<4, <<"I", "V">>>>, <<1, <<"I">>>>>>
OneGlyph == [v \in {4, 9} |-> IF v = 4 THEN <<"IV">> ELSE <<"IX">>]

RomanNumeral(value, unicode) ==
    LET Letters(i) == IF unicode /\ RomanValues[i][1] \in DOMAIN OneGlyph
                      THEN OneGlyph[RomanValues[i][1]] ELSE RomanValues[i][2]
        rest[i \in 0 .. Len(RomanValues)] ==
            IF i = 0 THEN value ELSE rest[i - 1] % RomanValues[i][1]
        Times(i) == rest[i - 1] \div RomanValues[i][1]
    IN  FlattenSeq([i \in DOMAIN RomanValues |-> FlattenSeq([k \in 1 .. Times(i) |-> Letters(i)])])

Roman(n, unicode, script) ==
    IF ~InRange(n, <<3, 9, 9, 9>>) THEN None
    ELSE LET letters == RomanNumeral(ToInt(n), unicode)
         IN  [i \in DOMAIN letters |-> script \o letters[i]]

Circled(n) ==
    IF ~InRange(n, <<5, 0>>) THEN None
    ELSE LET names[i \in 0 .. Len(n)] ==
                 IF i = 0 THEN "circled " ELSE names[i - 1] \o Digits[n[i] + 1]
         IN  <<names[Len(n)]>>

(* ---- conversion ---- *)

(* The types are named by their markers, in the order of SYNTH_TYPES.        *)
SynthTypes == <<"0", "1", "2", "3", "5", "9", "6", "7", "a", "b", "c">>
NumType    == ToSet(SynthTypes)

Numeral(run, n, type) ==
    CASE type = "0" -> run
      [] type = "1" -> Mapped(run, Wide)
      [] type = "2" -> Mapped(run, KanjiDigit)
      [] type = "3" -> IF n = None THEN None ELSE KanjiNumber(n, KanjiDigit, KanjiUnits, TRUE)
      [] type = "5" -> IF n = None THEN None ELSE KanjiNumber(n, DaijiDigit, DaijiUnits, FALSE)
      [] type = "9" -> IF run = <<>> THEN None ELSE Shogi(run)
      [] type = "6" -> Roman(n, TRUE, "unicode ")
      [] type = "7" -> Roman(n, TRUE, "unicode small ")
      [] type = "a" -> Roman(n, FALSE, "")
      [] type = "b" -> Roman(n, FALSE, "small ")
      [] type = "c" -> Circled(n)

Convert(run, type) == Numeral(run, Number(run), type)

Synthesize(runs) ==
    LET representable == Among(SynthTypes, {type \in NumType :
                             \A k \in DOMAIN runs : Convert(runs[k], type) # None})
    IN  IF runs = <<>> THEN <<>>
        ELSE [t \in DOMAIN representable |->
                FlattenSeq([k \in DOMAIN runs |-> Convert(runs[k], representable[t])])]

(* ---- templates ---- *)

(* scan: where the glyphs of the template begin, and its runs of digits.     *)
GlyphStarts(text) ==
    InOrder({i \in DOMAIN text : text[i] \in Digit => i = 1 \/ text[i - 1] \notin Digit}, Len(text))

Template(text) ==
    LET starts == GlyphStarts(text)
    IN  [k \in DOMAIN starts |-> IF text[starts[k]] \in Digit THEN "#" ELSE text[starts[k]]]

Runs(text) ==
    LET first  == Among(GlyphStarts(text), {i \in DOMAIN text : text[i] \in Digit})
        End(i) == CHOOSE j \in i .. Len(text) :
                      /\ \A k \in i .. j : text[k] \in Digit
                      /\ j = Len(text) \/ text[j + 1] \notin Digit
    IN  [k \in DOMAIN first |-> SubSeq(text, first[k], End(first[k]))]

(* A marker at i is "#" with the glyph after it, and takes the next run.      *)
IsMarker(word, i, types) == word[i] = "#" /\ i < Len(word) /\ word[i + 1] \in types
RunIndex(word, i, types) == Cardinality({j \in 1 .. i : IsMarker(word, j, types)})
Follows(word, i, types)  == i > 1 /\ IsMarker(word, i - 1, types)

(* expand, which does not know "#4".                                        *)
Expand(word, runs) ==
    LET Part(i) ==
            IF Follows(word, i, NumType) THEN <<>>
            ELSE IF ~IsMarker(word, i, NumType) THEN <<word[i]>>
            ELSE IF RunIndex(word, i, NumType) > Len(runs) THEN None
            ELSE Convert(runs[RunIndex(word, i, NumType)], word[i + 1])
        parts == [i \in DOMAIN word |-> Part(i)]
    IN  IF \E i \in DOMAIN parts : parts[i] = None THEN None ELSE FlattenSeq(parts)

OptionOf(numeral) == IF numeral = None THEN <<>> ELSE <<numeral>>

(* Mutant: a marker starts again at the first run.                          *)
OptionsFirstRun(word, i, runs, lookup) ==
    IF runs = <<>> THEN <<>>
    ELSE IF word[i + 1] = "4" THEN lookup[Head(runs)]
    ELSE OptionOf(Convert(Head(runs), word[i + 1]))

(* What a marker may stand for: "#4" every word found for its run.           *)
Options(word, i, runs, lookup) ==
    LET k == RunIndex(word, i, NumType \cup {"4"})
    IN  IF k > Len(runs) THEN <<>>
        ELSE IF word[i + 1] = "4" THEN lookup[runs[k]]
        ELSE OptionOf(Convert(runs[k], word[i + 1]))

Capped(list) == SubSeq(list, 1, IF Len(list) > MaxExpansions THEN MaxExpansions ELSE Len(list))

(* The words found extend every result so far, up to the cap.                *)
Combined(results, options) ==
    LET n     == Len(options)
        every == [m \in 1 .. Len(results) * n |->
                     results[((m - 1) \div n) + 1] \o options[((m - 1) % n) + 1]]
    IN  Capped(every)

ExpandWithRecursiveLookup(word, runs, lookup) ==
    LET types == NumType \cup {"4"}
        after[i \in 0 .. Len(word)] ==
            IF i = 0 THEN <<<<>>>>
            ELSE IF Follows(word, i, types) THEN after[i - 1]
            ELSE IF IsMarker(word, i, types)
              THEN Combined(after[i - 1], Options(word, i, runs, lookup))
            ELSE Combined(after[i - 1], <<<<word[i]>>>>)
    IN  after[Len(word)]
=============================================================================
