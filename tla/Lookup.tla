------------------------------- MODULE Lookup -------------------------------
(***************************************************************************)
(* From a reading to the candidates offered and back: start_conversion's    *)
(* lookup in all dictionaries with directives, numbers and synthesized       *)
(* words, what choosing or registering a word teaches the user dictionary,  *)
(* and the texts of its file (skk-core/src/engine.rs, dict/file.rs).        *)
(*                                                                         *)
(* Engine takes any answer of the dictionaries; this module is the answer.   *)
(* The user dictionary is saved after every key (UserDict); a dictionary     *)
(* here maps the key of an entry without okurigana to its candidates.       *)
(***************************************************************************)
EXTENDS Numerals

CONSTANTS Glyph,         \* what texts are made of
          ReadingGlyph,  \* what the user types in a reading
          WordGlyph,     \* what the user types in a registration
          FieldGlyph,    \* what an editor puts into the user dictionary
          Starts         \* situations to start in: see Init

INSTANCE DictText

Text      == Seq(Glyph)
Candidate == [form : {"none", "ignore", "unknown"}, word : Text,
              annotation : Text \cup {None}, ignored : Seq(Text)]

(* A dictionary that could be read has no word that is empty.               *)
Readable(entries) ==
    \A key \in DOMAIN entries :
        /\ entries[key] \in Seq(Candidate)
        /\ \A i \in DOMAIN entries[key] : entries[key][i].form = "none" => entries[key][i].word # <<>>

(* The glyphs the dictionary's syntax and the templates use.                *)
Syntax == Octal \cup {"#", "/", ";", "\"", "\\", "(", ")", Blank, Concat, Ignore,
                     "LF", "CR", "TAB", "n", "r", "char"}

(* The glyphs of the numerals, but the circled ones.                         *)
RomanScript == {"unicode ", "unicode small ", "", "small "}
Letter      == {"I", "IV", "V", "IX", "X", "L", "C", "D", "M"}
RomanGlyph  == {script \o l : script \in RomanScript, l \in Letter}
NumeralGlyph ==
    Digit \cup {Wide[d] : d \in Digit} \cup {KanjiDigit[d] : d \in Digit}
          \cup {DaijiDigit[d] : d \in Digit}
          \cup ToSet(LargeUnits) \cup ToSet(KanjiUnits) \cup ToSet(DaijiUnits) \cup RomanGlyph

ASSUME LookupAssumption ==
    /\ ReadingGlyph \cup WordGlyph \cup FieldGlyph \cup Syntax \cup NumeralGlyph \subseteq Glyph
    /\ \A k \in 1 .. 2 : \A n \in [1 .. k -> 0 .. 9] : InRange(n, <<5, 0>>) => Circled(n) \in Text
    /\ None \notin Text /\ None \notin Seq(Text) /\ None \notin Seq(Candidate)
    /\ \A s \in Starts :
          /\ s.system = [d \in 1 .. Len(s.system) |-> s.system[d]] /\ Len(s.system) \in Nat
          /\ \A d \in 1 .. Len(s.system) : Readable(s.system[d])
          /\ s.directives \in BOOLEAN /\ s.reading \in Text
          /\ \A key \in DOMAIN s.file : s.file[key] \in Text

(* Facts about strings: the names of numerals differ, and a circled number    *)
(* is named by its digits.                                                  *)
ASSUME NamesAssumption ==
    /\ None \notin Seq(0 .. 9)
    /\ \A table \in {KanjiDigit, DaijiDigit} :
          /\ \A c, d \in Digit : table[c] = table[d] => c = d
          /\ \A c \in Digit :
                table[c] \notin ToSet(KanjiUnits) \cup ToSet(DaijiUnits) \cup ToSet(LargeUnits)
    /\ \A script \in RomanScript : \A l, m \in Letter : script \o l = script \o m => l = m
    /\ \A a \in 1 .. 9 : "circled " \o Digits[a + 1] = "circled " \o ToString(a)
    /\ \A a \in 1 .. 9, b \in 0 .. 9 :
          ("circled " \o Digits[a + 1]) \o Digits[b + 1] = "circled " \o ToString(10 * a + b)

VARIABLES
    phase,       \* "stopped", "reading", "selecting" or "registering"
    system,      \* the dictionaries but the user's, the highest priority first
    directives,  \* lisp_directives
    user, file,  \* the user dictionary, and the texts of its lines
    reading,     \* the reading typed so far
    offered,     \* the candidates of the phase selecting
    buffer,      \* the registration's text
    learned,     \* history: the word last chosen for each key since the file was edited
    room         \* bound: glyphs still to be typed, by kind

vars == <<phase, system, directives, user, file, reading, offered, buffer, learned, room>>

NoEntry == [key \in {} |-> <<>>]
Put(entries, key, value) ==
    [k \in DOMAIN entries \cup {key} |-> IF k = key THEN value ELSE entries[k]]

(* ---- lookup ---- *)

AllFound(key) ==
    LET dicts == <<user>> \o system
    IN  FlattenSeq([d \in DOMAIN dicts |->
            IF key \in DOMAIN dicts[d] THEN dicts[d][key] ELSE <<>>])

Displayable(cands) == Among(cands, {c \in ToSet(cands) : c.form = "none"})

IgnoreSet(cands) ==
    IF ~directives THEN {} ELSE UNION {ToSet(cands[i].ignored) : i \in DOMAIN cands}

(* The first with each word.                                                *)
Distinct(list) ==
    LET first == InOrder({i \in DOMAIN list : \A j \in 1 .. i - 1 : list[j].word # list[i].word},
                         Len(list))
    IN  [k \in DOMAIN first |-> list[first[k]]]

Visible(list, hidden) == Distinct(Among(list, {o \in ToSet(list) : o.word \notin hidden}))
Wording(cands)       == [k \in DOMAIN cands |-> cands[k].word]

(* The closure that "#4" calls with its run.                                *)
RecursiveLookup(run) ==
    LET all == AllFound(run)
    IN  Wording(Capped(Visible(Displayable(all), IgnoreSet(all))))

Offer(word, c) ==
    [word |-> word, template |-> c.word, annotation |-> c.annotation, synthetic |-> FALSE]
Synthetic(word) ==
    [word |-> word, template |-> <<>>, annotation |-> None, synthetic |-> TRUE]

Offers(c, words) == [k \in DOMAIN words |-> Offer(words[k], c)]
Synthetics(words) == [k \in DOMAIN words |-> Synthetic(words[k])]

(* The words a candidate offers for the runs of the reading.                 *)
WordsFor(word, runs, lookup) ==
    IF runs = <<>> THEN <<word>> ELSE ExpandWithRecursiveLookup(word, runs, lookup)

FromDictionaries(cands, hidden, runs, lookup) ==
    Visible(FlattenSeq([i \in DOMAIN cands |-> Offers(cands[i], WordsFor(cands[i].word, runs, lookup))]),
            hidden)

WithSynthetics(found, template, synths) ==
    IF found = <<>> \/ template = <<"#">> THEN Distinct(found \o synths) ELSE found

(* start_conversion: what the dictionaries have, then the synthesized numbers *)
(* if the reading is a number or nothing was found.                         *)
CandidatesOf(template, runs, all) ==
    WithSynthetics(FromDictionaries(Displayable(all), IgnoreSet(all), runs,
                                    [run \in ToSet(runs) |-> RecursiveLookup(run)]),
                   template, Synthetics(Synthesize(runs)))

Candidates(text) == CandidatesOf(Template(text), Runs(text), AllFound(Template(text)))

(* ---- the user dictionary ---- *)

(* learn: the word comes first, and no directive of the entry hides it.      *)
Learned(cands, new) ==
    LET others   == Among(cands, {c \in ToSet(cands) : c.word # new.word})
        unhidden == [i \in DOMAIN others |-> [others[i] EXCEPT !.ignored = Without(@, new.word)]]
    IN  <<new>> \o Among(unhidden, {c \in ToSet(unhidden) : c.form = "ignore" => c.ignored # <<>>})

Learn(key, new) ==
    LET cands == Learned(IF key \in DOMAIN user THEN user[key] ELSE <<>>, new)
    IN  /\ user' = Put(user, key, cands)
        /\ file' = Put(file, key, SerializeCandidates(cands))

(* split_register_annotation: the annotation comes after the last semicolon.  *)
Registered(text) ==
    LET semi == SelectLastInSeq(text, LAMBDA c : c = ";")
    IN  IF semi <= 1 THEN Plain(text, None)
        ELSE Plain(Before(text, semi), IF semi = Len(text) THEN None ELSE After(text, semi))

(* Mutant: a number is learned as it was offered.                           *)
TaughtAsOffered(o) == Plain(o.word, o.annotation)

(* What choosing a candidate teaches: its template.                         *)
Taught(o) == Plain(o.template, o.annotation)

(* ---- steps ---- *)

TypeReading(g) ==
    /\ phase = "reading" /\ room.reading > 0
    /\ reading' = Append(reading, g) /\ room' = [room EXCEPT !.reading = @ - 1]
    /\ UNCHANGED <<phase, system, directives, user, file, offered, buffer, learned>>

StartConversion ==
    /\ phase = "reading" /\ reading # <<>> /\ offered' = Candidates(reading)
    /\ phase' = IF offered' = <<>> THEN "registering" ELSE "selecting"
    /\ UNCHANGED <<system, directives, user, file, reading, buffer, learned, room>>

(* A synthesized word is not learned.                                       *)
CommitCandidate(i) ==
    /\ phase = "selecting"
    /\ IF offered[i].synthetic THEN UNCHANGED <<user, file, learned>>
       ELSE /\ Learn(Template(reading), Taught(offered[i]))
            /\ learned' = Put(learned, Template(reading), offered[i].template)
    /\ phase' = "reading" /\ reading' = <<>> /\ offered' = <<>>
    /\ UNCHANGED <<system, directives, buffer, room>>

(* After the last candidate a word is registered instead.                    *)
EnterRegister ==
    /\ phase = "selecting" /\ phase' = "registering" /\ offered' = <<>>
    /\ UNCHANGED <<system, directives, user, file, reading, buffer, learned, room>>

TypeWord(g) ==
    /\ phase = "registering" /\ room.word > 0
    /\ buffer' = Append(buffer, g) /\ room' = [room EXCEPT !.word = @ - 1]
    /\ UNCHANGED <<phase, system, directives, user, file, reading, offered, learned>>

FinalizeRegister ==
    /\ phase = "registering" /\ buffer # <<>>
    /\ Learn(Template(reading), Registered(buffer))
    /\ learned' = Put(learned, Template(reading), Registered(buffer).word)
    /\ phase' = "reading" /\ reading' = <<>> /\ buffer' = <<>>
    /\ UNCHANGED <<system, directives, offered, room>>

Cancel ==
    /\ phase \in {"selecting", "registering"}
    /\ phase' = "reading" /\ offered' = <<>> /\ buffer' = <<>>
    /\ UNCHANGED <<system, directives, user, file, reading, learned, room>>

(* The daemon leaves; what was learned is in the file.                       *)
Stop ==
    /\ phase # "stopped" /\ phase' = "stopped"
    /\ user' = NoEntry /\ reading' = <<>> /\ offered' = <<>> /\ buffer' = <<>>
    /\ UNCHANGED <<system, directives, file, learned, room>>

EditFile(key, g) ==
    /\ phase = "stopped" /\ room.file > 0
    /\ file' = Put(file, key, Append(file[key], g)) /\ learned' = NoEntry
    /\ room' = [room EXCEPT !.file = @ - 1]
    /\ UNCHANGED <<phase, system, directives, user, reading, offered, buffer>>

(* UserDict::load; a file that does not parse is UserDict's matter.          *)
Start ==
    /\ phase = "stopped" /\ phase' = "reading"
    /\ user' = [key \in DOMAIN file |-> ParseCandidates(file[key])]
    /\ \A key \in DOMAIN file : user'[key] # None
    /\ UNCHANGED <<system, directives, file, reading, offered, buffer, learned, room>>

Init ==
    \E s \in Starts :
        /\ phase = "stopped" /\ system = s.system /\ directives = s.directives
        /\ user = NoEntry /\ file = s.file /\ reading = s.reading
        /\ offered = <<>> /\ buffer = <<>> /\ learned = NoEntry /\ room = s.room

Next ==
    \/ \E g \in ReadingGlyph : TypeReading(g)
    \/ StartConversion
    \/ \E i \in DOMAIN offered : CommitCandidate(i)
    \/ \E g \in WordGlyph : TypeWord(g)
    \/ EnterRegister \/ FinalizeRegister \/ Cancel \/ Stop \/ Start
    \/ \E key \in DOMAIN file, g \in FieldGlyph : EditFile(key, g)

Spec == Init /\ [][Next]_vars
=============================================================================
