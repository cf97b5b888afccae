---------------------------- MODULE EngineSafety -----------------------------
(***************************************************************************)
(* Lemmas on the operators Engine is built from, the invariant as a         *)
(* property of one engine state, and registration, conversion and the       *)
(* handlers; and the theorems that every key press keeps the invariant.      *)
(* Base is what every handler may assume of the registrations, Good adds the *)
(* focus and the pending romaji, and a ResultOK is a good state with a       *)
(* well-formed output: from a good state each handler gives one.            *)
(*                                                                         *)
(* The second part is about conduct, for every key, table, dictionary and   *)
(* configuration.  Each handler is described once by what its result draws, *)
(* keeps and uses (Drew, Left, Used, Handled); the redirection into a       *)
(* registration preserves that (DeliveredConduct); and the engine's other   *)
(* properties follow from what every step then delivers (Conduct).          *)
(***************************************************************************)
EXTENDS EngineProperties, SequenceTheorems, WellFoundedInduction, TLAPS

(* Romaji is text.                                                         *)
LEMMA RomanIsText == Roman \subseteq Text
<1>1. Letter \subseteq Glyph
  BY TableAssumption DEF TableAssumption
<1>2. QED
  BY <1>1, SeqMonotonic DEF Roman, Text

(* to_ascii_lowercase gives a letter.                                      *)
LEMMA LowerIsLetter ==
  ASSUME NEW ch \in Letter
  PROVE  Lower[ch] \in Letter
  BY EngineAssumption DEF EngineAssumption

(* convert_output gives text.                                              *)
LEMMA InScriptIsText ==
  ASSUME NEW text \in Text, NEW mode \in KanaMode
  PROVE  InScript(text, mode) \in Text
<1>1. Script \in [KanaMode -> [Glyph -> Glyph]]
  BY TableAssumption DEF TableAssumption
<1>2. \A i \in 1 .. Len(text) : text[i] \in Glyph
  BY DEF Text
<1>3. InScript(text, mode) = [i \in 1 .. Len(text) |-> Script[mode][text[i]]]
  BY DEF InScript, Text
<1>4. \A i \in 1 .. Len(text) : Script[mode][text[i]] \in Glyph
  BY <1>1, <1>2
<1>5. Len(text) \in Nat
  BY DEF Text
<1>6. QED
  BY <1>3, <1>4, <1>5, IsASeq DEF Text

TransitionResult == [kind : {"Ok", "OkRetry", "NoMatch", "NoMatchRetry"}, output : Text, next : Roman]

(* KanaTable::transition gives text and pending romaji, whatever the rules. *)
LEMMA TransitionTyped ==
  ASSUME NEW state \in Roman, NEW ch \in Letter, NEW mode \in KanaMode
  PROVE  Transition(state, ch, mode) \in TransitionResult
<1> DEFINE table == EffectiveTransitions[mode]
<1>1. \A rule \in DOMAIN table : table[rule] \in [output : Text, to : Roman]
  <2>1. \A rule \in DOMAIN Transitions : Transitions[rule] \in [output : Text, to : Roman]
    BY TableAssumption DEF TableAssumption
  <2>2. \A rule \in DOMAIN KataOverrides : KataOverrides[rule] \in [output : Text, to : Roman]
    BY TableAssumption DEF TableAssumption
  <2>3. CASE mode = "Hiragana"
    BY <2>1, <2>3 DEF EffectiveTransitions
  <2>4. CASE mode # "Hiragana"
    <3>1. table = [rule \in DOMAIN Transitions \cup DOMAIN KataOverrides |->
            IF rule \in DOMAIN KataOverrides THEN KataOverrides[rule] ELSE Transitions[rule]]
      BY <2>4 DEF EffectiveTransitions
    <3>2. QED
      BY <2>1, <2>2, <3>1
  <2>5. QED
    BY <2>3, <2>4
<1>2. \A rule \in DOMAIN table : InScript(table[rule].output, mode) \in Text /\ table[rule].to \in Roman
  BY <1>1, InScriptIsText
<1>3. <<>> \in Text /\ <<>> \in Roman
  BY DEF Text, Roman
<1>4. QED
  BY <1>2, <1>3 DEF Transition, TransitionResult

----------------------------------------------------------------------------
(* A slice of a sequence, as an empty one too.                             *)
LEMMA SubSeqTyped ==
  ASSUME NEW S, NEW q \in Seq(S), NEW m \in Int, NEW n \in Int, 1 <= m, n <= Len(q)
  PROVE  /\ SubSeq(q, m, n) \in Seq(S)
         /\ Len(SubSeq(q, m, n)) = IF m <= n THEN n - m + 1 ELSE 0
         /\ \A i \in 1 .. n - m + 1 : SubSeq(q, m, n)[i] = q[m + i - 1]
<1>1. \A i \in m .. n : q[i] \in S
  <2>1. Len(q) \in Nat /\ \A i \in 1 .. Len(q) : q[i] \in S
    BY LenProperties
  <2>2. QED
    BY <2>1
<1>2. QED
  BY <1>1, SubSeqProperties

(* A sequence without its last element.                                    *)
LEMMA FrontTyped ==
  ASSUME NEW S, NEW q \in Seq(S), q # <<>>
  PROVE  /\ Front(q) \in Seq(S)
         /\ Len(Front(q)) = Len(q) - 1
         /\ \A i \in 1 .. Len(q) - 1 : Front(q)[i] = q[i]
<1> DEFINE n == Len(q) - 1
<1>1. n \in Nat /\ n <= Len(q)
  BY EmptySeq
<1>2. Front(q) = SubSeq(q, 1, n)
  BY DEF Front
<1> HIDE DEF n
<1>3. /\ SubSeq(q, 1, n) \in Seq(S)
      /\ Len(SubSeq(q, 1, n)) = IF 1 <= n THEN n - 1 + 1 ELSE 0
      /\ \A i \in 1 .. n - 1 + 1 : SubSeq(q, 1, n)[i] = q[1 + i - 1]
  BY <1>1, SubSeqTyped
<1>4. Len(SubSeq(q, 1, n)) = n /\ \A i \in 1 .. n : SubSeq(q, 1, n)[i] = q[i]
  BY <1>1, <1>3
<1>5. QED
  BY <1>2, <1>3, <1>4 DEF n

(* Vec::pop on a sequence that may be empty.                               *)
LEMMA ChopTyped ==
  ASSUME NEW S, NEW q \in Seq(S)
  PROVE  Chop(q) \in Seq(S)
  BY FrontTyped DEF Chop

(* The last element of a sequence.                                         *)
LEMMA LastTyped ==
  ASSUME NEW S, NEW q \in Seq(S), q # <<>>
  PROVE  Last(q) \in S
  BY EmptySeq DEF Last

(* A printable key types a letter.                                         *)
LEMMA CharTyped ==
  ASSUME NEW e \in Events, Printable(e)
  PROVE  CharOf(e) \in Letter /\ CharOf(e) \in Glyph /\ (e.key # "Space" => e.key \in Letter)
  BY EngineAssumption, TableAssumption DEF EngineAssumption, TableAssumption, CharOf, Printable

FrameOK(f) == f \in Frame /\ f.cursor <= Len(f.committed)

(* Text inserted at the cursor leaves the cursor inside the buffer.        *)
LEMMA InsertIntoOK ==
  ASSUME NEW f, FrameOK(f), NEW text \in Text
  PROVE  FrameOK(InsertInto(f, text))
<1> DEFINE left == SubSeq(f.committed, 1, f.cursor)
           right == SubSeq(f.committed, f.cursor + 1, Len(f.committed))
           new == left \o text \o right
<1>1. f.committed \in Text /\ f.cursor \in Nat /\ f.cursor <= Len(f.committed)
  BY DEF FrameOK, Frame
<1>2. left \in Text /\ Len(left) = f.cursor
  BY <1>1, SubSeqTyped DEF Text
<1>3. right \in Text
  BY <1>1, SubSeqTyped DEF Text
<1>4. new \in Text /\ Len(new) = Len(left) + Len(text) + Len(right)
  BY <1>2, <1>3, ConcatProperties DEF Text
<1>5. Len(right) \in Nat /\ Len(text) \in Nat
  BY <1>3 DEF Text
<1>6. InsertInto(f, text) = [f EXCEPT !.committed = new, !.cursor = f.cursor + Len(text)]
  BY DEF InsertInto
<1> HIDE DEF new, left, right
<1>7. /\ InsertInto(f, text) \in Frame
      /\ InsertInto(f, text).committed = new
      /\ InsertInto(f, text).cursor = f.cursor + Len(text)
  <2>1. f.cursor + Len(text) \in Nat
    BY <1>1, <1>5
  <2>2. f \in Frame
    BY DEF FrameOK
  <2>3. QED
    BY <1>4, <1>6, <2>1, <2>2 DEF Frame
<1>8. f.cursor + Len(text) <= Len(new)
  BY <1>1, <1>2, <1>4, <1>5
<1>9. QED
  BY <1>7, <1>8 DEF FrameOK

(* A character removed shortens the buffer by one.                         *)
LEMMA RemoveAtOK ==
  ASSUME NEW f, FrameOK(f), NEW i \in 1 .. Len(f.committed)
  PROVE  /\ RemoveAt(f, i) \in Frame
         /\ RemoveAt(f, i).cursor = f.cursor
         /\ Len(RemoveAt(f, i).committed) = Len(f.committed) - 1
<1> DEFINE left == SubSeq(f.committed, 1, i - 1)
           right == SubSeq(f.committed, i + 1, Len(f.committed))
           new == left \o right
<1>1. f.committed \in Text /\ Len(f.committed) \in Nat
  BY DEF FrameOK, Frame, Text
<1>2. left \in Text /\ Len(left) = i - 1
  BY <1>1, SubSeqTyped DEF Text
<1>3. right \in Text /\ Len(right) = Len(f.committed) - i
  BY <1>1, SubSeqTyped DEF Text
<1>4. new \in Text /\ Len(new) = Len(left) + Len(right)
  BY <1>2, <1>3, ConcatProperties DEF Text
<1>5. RemoveAt(f, i) = [f EXCEPT !.committed = new]
  BY DEF RemoveAt
<1> HIDE DEF new, left, right
<1>6. QED
  BY <1>1, <1>2, <1>3, <1>4, <1>5 DEF FrameOK, Frame

(* The editing keys leave the cursor inside the buffer.                    *)
LEMMA EditedOK ==
  ASSUME NEW f, FrameOK(f), NEW key \in EditKeys
  PROVE  FrameOK(Edited(f, key))
<1>1. f.cursor \in Nat /\ Len(f.committed) \in Nat /\ f \in Frame
  BY DEF FrameOK, Frame, Text
<1>2. FrameOK(RegBackspace(f))
  BY <1>1, RemoveAtOK DEF RegBackspace, FrameOK, Frame
<1>3. FrameOK(RegDelete(f))
  BY <1>1, RemoveAtOK DEF RegDelete, FrameOK, Frame
<1>4. FrameOK(RegMoveLeft(f)) /\ FrameOK(RegMoveRight(f))
  BY <1>1 DEF RegMoveLeft, RegMoveRight, FrameOK, Frame
<1>5. QED
  BY <1>2, <1>3, <1>4 DEF Edited, EditKeys

(* So does the backspace a handler asks for.                               *)
LEMMA BackspaceOK ==
  ASSUME NEW f, FrameOK(f)
  PROVE  FrameOK(RegBackspace(f))
<1>1. f.cursor \in Nat /\ Len(f.committed) \in Nat /\ f \in Frame
  BY DEF FrameOK, Frame, Text
<1>2. QED
  BY <1>1, RemoveAtOK DEF RegBackspace, FrameOK, Frame

(* A non-empty set of bounded numbers has a greatest element.              *)
LEMMA Greatest ==
  ASSUME NEW n \in Nat, NEW marks, marks \subseteq 1 .. n, marks # {}
  PROVE  \E i \in marks : \A j \in marks : j <= i
<1> DEFINE bounds == {k \in Nat : \A j \in marks : j <= k}
           less == OpToRel(<, Nat)
<1>1. bounds \subseteq Nat /\ n \in bounds
  OBVIOUS
<1>2. IsWellFoundedOn(less, Nat)
  BY NatLessThanWellFounded
<1>3. PICK k \in bounds : \A m \in bounds : ~(<<m, k>> \in less)
  <2> HIDE DEF less, bounds
  <2>1. QED
    BY <1>1, <1>2, WFMin
<1>4. \A m \in bounds : ~(m < k)
  BY <1>3 DEF OpToRel
<1>5. k \in marks
  <2>1. SUFFICES ASSUME k \notin marks PROVE FALSE
    OBVIOUS
  <2>2. PICK j \in marks : TRUE
    OBVIOUS
  <2>3. k \in Nat /\ \A i \in marks : i < k
    BY <2>1
  <2>4. k - 1 \in bounds
    BY <2>2, <2>3
  <2>5. QED
    BY <1>4, <2>3, <2>4
<1>6. QED
  BY <1>5

(* The word before the last separator of a buffer is text.                 *)
LEMMA RegisteredWordTyped ==
  ASSUME NEW buf \in Text
  PROVE  RegisteredWord(buf) \in Text
<1> DEFINE marks == {i \in 2..Len(buf) : buf[i] = ";"}
           at == CHOOSE i \in marks : \A j \in marks : j <= i
           n == at - 1
<1>1. Len(buf) \in Nat
  BY DEF Text
<1>2. CASE marks = {}
  BY <1>2 DEF RegisteredWord
<1>3. CASE marks # {}
  <2>1. \E i \in marks : \A j \in marks : j <= i
    <3>1. \A i \in marks : i \in 2 .. Len(buf)
      OBVIOUS
    <3> HIDE DEF marks
    <3>2. marks \subseteq 1 .. Len(buf)
      BY <1>1, <3>1
    <3>3. QED
      BY <1>1, <1>3, <3>2, Greatest
  <2>2. at \in 2 .. Len(buf)
    BY <2>1
  <2>3. RegisteredWord(buf) = SubSeq(buf, 1, n)
    BY <1>3 DEF RegisteredWord
  <2>4. n \in Int /\ n <= Len(buf)
    <3> HIDE DEF at
    <3>1. QED
      BY <1>1, <2>2
  <2> HIDE DEF n
  <2>5. QED
    BY <2>3, <2>4, SubSeqTyped DEF Text
<1>4. QED
  BY <1>2, <1>3

----------------------------------------------------------------------------
(* States and results.                                                     *)
Base(s) == s \in EngineState /\ CursorInBuffer(s)
Good(s) == Base(s) /\ FocusInRange(s) /\ PendingOnce(s)

Drawn == {"keep", "shown", "hidden"}
OutputOK(o) ==
    /\ o \in [text : Text, del : BOOLEAN, pass : BOOLEAN, preedit : Drawn,
               window : Drawn, call : {o.call}]
    /\ o.call.op \in {"none", "learn", "purge"}
ResultOK(r) == Good(r.eng) /\ OutputOK(r.out)

(* What a good state gives a handler to start from.                        *)
LEMMA GoodIsBase ==
  ASSUME NEW s, Good(s)
  PROVE  Base(s) /\ s \in EngineState
  BY DEF Good, Base

(* The empty sequence has every sequence type.                             *)
LEMMA EmptyTyped == <<>> \in Text /\ <<>> \in Roman /\ <<>> \in Seq(Frame)
  BY EmptySeq DEF Text, Roman

(* The type of an empty completion.                                        *)
LEMMA NoCompletionTyped == NoCompletion \in [prefix : Text, preview : Text]
  BY EmptyTyped DEF NoCompletion

(* The type of update_completion's result.                                 *)
LEMMA CompletionTyped ==
  ASSUME NEW reading \in Text, NEW d \in Answers
  PROVE  Completion(reading, d) \in [prefix : Text, preview : Text]
<1>1. d.tail \in Text
  BY EngineAssumption DEF EngineAssumption, Answers
<1>2. reading \o d.tail \in Text
  BY <1>1, ConcatProperties DEF Text
<1>3. QED
  BY <1>1, <1>2, NoCompletionTyped DEF Completion

(* The phases the handlers build have their types: a kana mode,            *)
LEMMA KanaPhase ==
  ASSUME NEW mode \in KanaMode
  PROVE  Kana(mode) \in Phases /\ Kana(mode).tag = mode
  BY DEF Kana, Phases, ModePhase

(* direct input,                                                           *)
LEMMA AsciiPhase == Ascii \in Phases /\ Ascii.tag = "Ascii"
  BY DEF Ascii, Phases, ModePhase

(* wide input,                                                             *)
LEMMA WideAsciiPhase == WideAscii \in Phases /\ WideAscii.tag = "WideAscii"
  BY DEF WideAscii, Phases, ModePhase

(* a code point,                                                           *)
LEMMA CodeInputPhase ==
  ASSUME NEW prefix \in {"Jis", "Unicode"}, NEW buf \in Roman
  PROVE  CodeInput(prefix, buf) \in Phases /\ CodeInput(prefix, buf).tag = "CodeInput"
  BY DEF CodeInput, Phases, CodePhase

(* an abbreviation,                                                        *)
LEMMA AbbrevingPhase ==
  ASSUME NEW buf \in Text
  PROVE  Abbrev(buf) \in Phases /\ Abbrev(buf).tag = "Abbrev"
  BY DEF Abbrev, Phases, AbbrevPhase

(* a reading,                                                              *)
LEMMA ReadingPhase ==
  ASSUME NEW kana \in Text, NEW roman \in Roman
  PROVE  /\ Midashi(kana, roman) \in Phases
         /\ Midashi(kana, roman).tag = "Midashi"
         /\ Midashi(kana, roman).roman = roman
  BY DEF Midashi, Phases, MidashiPhase

(* and a reading with its okurigana.                                       *)
LEMMA OkuriganaPhase ==
  ASSUME NEW midashi \in Text, NEW kana \in Text
  PROVE  Okuri(midashi, kana) \in Phases /\ Okuri(midashi, kana).tag = "Okuri"
  BY DEF Okuri, Phases, OkuriPhase

(* The fields of each phase have their types.                              *)
LEMMA PhaseFields ==
  ASSUME NEW s \in EngineState
  PROVE  /\ s.phase.tag = "CodeInput" => s.phase.prefix \in {"Jis", "Unicode"} /\ s.phase.buf \in Roman
         /\ s.phase.tag = "Abbrev" => s.phase.buf \in Text
         /\ s.phase.tag = "Midashi" => s.phase.kana \in Text /\ s.phase.roman \in Roman
         /\ s.phase.tag = "Okuri" => s.phase.midashi \in Text /\ s.phase.kana \in Text
         /\ s.phase.tag = "Selecting" => s.phase \in SelectingPhase
         /\ s.phase.tag = "PurgeConfirm" => s.phase \in PurgePhase
  BY DEF EngineState, Phases, ModePhase, CodePhase, AbbrevPhase, MidashiPhase, OkuriPhase,
         SelectingPhase, PurgePhase, KanaMode

(* A step that keeps the registrations and enters a phase without focus.   *)
LEMMA PlainStep ==
  ASSUME NEW s, Base(s), NEW t \in EngineState, t.stack = s.stack,
         t.phase.tag \notin {"Selecting", "PurgeConfirm"}, PendingOnce(t)
  PROVE  Good(t)
  BY DEF Good, Base, CursorInBuffer, FocusInRange

(* Return to the kana mode the conversion started from.                    *)
LEMMA BackToKanaOK ==
  ASSUME NEW s, Base(s)
  PROVE  /\ Good(BackToKana(s)) /\ BackToKana(s).stack = s.stack
         /\ BackToKana(s).kana = <<>> /\ BackToKana(s).phase = Kana(s.display)
         /\ BackToKana(s).display = s.display
<1> DEFINE t == BackToKana(s)
<1>1. s \in EngineState /\ s.display \in KanaMode
  BY DEF Good, Base, EngineState
<1>2. /\ t \in EngineState /\ t.stack = s.stack /\ t.phase = Kana(s.display)
      /\ t.kana = <<>> /\ t.display = s.display
  BY <1>1, KanaPhase, EmptyTyped DEF BackToKana, EngineState
<1>3. t.phase.tag \in KanaMode
  BY <1>1, <1>2, KanaPhase
<1>4. PendingOnce(t) /\ t.phase.tag \notin {"Selecting", "PurgeConfirm"}
  BY <1>3 DEF PendingOnce, KanaMode
<1>5. QED
  BY <1>2, <1>4, PlainStep

(* Return to hiragana.                                                     *)
LEMMA ToHiraganaOK ==
  ASSUME NEW s, Base(s)
  PROVE  /\ Good(ToHiragana(s)) /\ ToHiragana(s).stack = s.stack
         /\ ToHiragana(s).kana = <<>> /\ ToHiragana(s).phase = Kana("Hiragana")
         /\ ToHiragana(s).phase.tag = "Hiragana"
<1> DEFINE t == ToHiragana(s)
<1>1. s \in EngineState
  BY DEF Good, Base
<1>2. Kana("Hiragana") \in Phases /\ Kana("Hiragana").tag = "Hiragana"
  BY KanaPhase DEF KanaMode
<1>3. /\ t \in EngineState /\ t.stack = s.stack /\ t.phase = Kana("Hiragana")
      /\ t.kana = <<>>
  BY <1>1, <1>2, EmptyTyped DEF ToHiragana, EngineState
<1>4. PendingOnce(t) /\ t.phase.tag \notin {"Selecting", "PurgeConfirm"}
  BY <1>2, <1>3 DEF PendingOnce, KanaMode
<1>5. QED
  BY <1>2, <1>3, <1>4, PlainStep

(* Dropping the completion.                                                *)
LEMMA NoGhostOK ==
  ASSUME NEW s, Good(s)
  PROVE  Good(NoGhost(s))
<1> DEFINE t == NoGhost(s)
<1>1. s \in EngineState
  BY DEF Good, Base
<1>2. t \in EngineState /\ t.stack = s.stack /\ t.phase = s.phase /\ t.kana = s.kana
  BY <1>1, NoCompletionTyped DEF NoGhost, EngineState
<1>3. QED
  BY <1>2 DEF Good, Base, CursorInBuffer, FocusInRange, PendingOnce

(* The outputs that draw and commit nothing new.                           *)
LEMMA QuietOutputs == OutputOK(Nothing) /\ OutputOK(Passthrough) /\ OutputOK(ClearPreedit)
<1>1. NoCall.op = "none"
  BY DEF NoCall
<1>2. QED
  BY <1>1, EmptyTyped DEF OutputOK, Drawn, Nothing, Passthrough, ClearPreedit

(* Redrawing the preedit.                                                  *)
LEMMA PreeditOK ==
  ASSUME NEW s
  PROVE  OutputOK(Preedit(s))
<1>1. NoCall.op = "none"
  BY DEF NoCall
<1>2. QED
  BY <1>1, EmptyTyped DEF OutputOK, Drawn, Nothing, Preedit

(* Committing text.                                                        *)
LEMMA CommitOK ==
  ASSUME NEW text \in Text
  PROVE  OutputOK(Commit(text))
<1>1. NoCall.op = "none"
  BY DEF NoCall
<1>2. QED
  BY <1>1, EmptyTyped DEF OutputOK, Drawn, Nothing, ClearPreedit, Commit

(* An output that also passes the key on or deletes back.                  *)
LEMMA PassedOK ==
  ASSUME NEW o, OutputOK(o)
  PROVE  OutputOK([o EXCEPT !.pass = TRUE]) /\ OutputOK([o EXCEPT !.del = TRUE])
  BY DEF OutputOK

(* An output that also changes the candidate window.                       *)
LEMMA WindowOK ==
  ASSUME NEW o, OutputOK(o), NEW w \in Drawn
  PROVE  OutputOK([o EXCEPT !.window = w])
  BY DEF OutputOK

(* An output that also calls the dictionaries.                             *)
LEMMA CallOK ==
  ASSUME NEW o, OutputOK(o), NEW c, c.op \in {"none", "learn", "purge"}
  PROVE  OutputOK([o EXCEPT !.call = c])
  BY DEF OutputOK

(* Two outputs, one after the other.                                       *)
LEMMA ThenOK ==
  ASSUME NEW a, OutputOK(a), NEW b, OutputOK(b)
  PROVE  OutputOK(Then(a, b))
<1>1. a.text \in Text /\ b.text \in Text
  BY DEF OutputOK
<1>2. a.text \o b.text \in Text
  BY <1>1, ConcatProperties DEF Text
<1>3. QED
  BY <1>2 DEF OutputOK, Then, Later, Drawn

(* A good state with a well-formed output is a good result.                *)
LEMMA ResultIsOK ==
  ASSUME NEW t, Good(t), NEW o, OutputOK(o)
  PROVE  ResultOK(R(t, o))
  BY DEF ResultOK, R

(* A good state that redraws its preedit is a good result.                 *)
LEMMA RedrawOK ==
  ASSUME NEW t, Good(t)
  PROVE  ResultOK(R(t, Preedit(t)))
  BY PreeditOK, ResultIsOK

(* Entering a reading with its romaji in both places.                      *)
LEMMA ReadingStep ==
  ASSUME NEW s, Base(s), NEW kana \in Text, NEW roman \in Roman,
         NEW t \in EngineState, t.stack = s.stack,
         t.phase = Midashi(kana, roman), t.kana = roman
  PROVE  Good(t)
<1>1. t.phase.tag = "Midashi" /\ t.phase.roman = roman
  BY ReadingPhase
<1>2. QED
  BY <1>1, PlainStep DEF PendingOnce, KanaMode

(* Entering an okurigana.                                                  *)
LEMMA OkuriganaStep ==
  ASSUME NEW s, Base(s), NEW midashi \in Text, NEW kana \in Text,
         NEW t \in EngineState, t.stack = s.stack, t.phase = Okuri(midashi, kana)
  PROVE  Good(t)
<1>1. t.phase.tag = "Okuri"
  BY OkuriganaPhase
<1>2. QED
  BY <1>1, PlainStep DEF PendingOnce, KanaMode

(* Entering a kana mode, whatever romaji is pending.                       *)
LEMMA KanaStep ==
  ASSUME NEW s, Base(s), NEW mode \in KanaMode,
         NEW t \in EngineState, t.stack = s.stack, t.phase = Kana(mode)
  PROVE  Good(t)
<1>1. t.phase.tag = mode
  BY KanaPhase
<1>2. QED
  BY <1>1, PlainStep DEF PendingOnce, KanaMode

(* Entering a phase that does not feed the kana table.                     *)
LEMMA IdleStep ==
  ASSUME NEW s, Base(s), NEW t \in EngineState, t.stack = s.stack, t.kana = <<>>,
         t.phase.tag \in {"Ascii", "WideAscii", "CodeInput", "Abbrev"}
  PROVE  Good(t)
  BY PlainStep DEF PendingOnce, KanaMode

(* The innermost registration is a well-formed frame.                      *)
LEMMA TopOK ==
  ASSUME NEW s, Base(s), s.stack # <<>>
  PROVE  FrameOK(Top(s))
<1>1. s.stack \in Seq(Frame) /\ \A i \in DOMAIN s.stack : s.stack[i].cursor <= Len(s.stack[i].committed)
  BY DEF Good, Base, EngineState, CursorInBuffer
<1>2. Len(s.stack) \in DOMAIN s.stack
  BY <1>1, EmptySeq, LenProperties
<1>3. s.stack[Len(s.stack)] \in Frame
  BY <1>1, <1>2, LenProperties
<1>4. QED
  BY <1>1, <1>2, <1>3 DEF Top, Last, FrameOK

(* Replacing the innermost registration by a well-formed one.              *)
LEMMA WithTopOK ==
  ASSUME NEW s, Good(s), s.stack # <<>>, NEW frame, FrameOK(frame)
  PROVE  /\ Good(WithTop(s, frame)) /\ WithTop(s, frame).stack # <<>>
         /\ WithTop(s, frame).phase = s.phase /\ WithTop(s, frame).kana = s.kana
<1> DEFINE n == Len(s.stack)
           st == [s.stack EXCEPT ![n] = frame]
           t == [s EXCEPT !.stack = st]
<1>1. /\ s \in EngineState /\ s.stack \in Seq(Frame)
      /\ \A i \in DOMAIN s.stack : s.stack[i].cursor <= Len(s.stack[i].committed)
  BY DEF Good, Base, EngineState, CursorInBuffer
<1>2. frame \in Frame /\ frame.cursor <= Len(frame.committed)
  BY DEF FrameOK
<1>3. n \in 1 .. n /\ n \in Nat
  BY <1>1, EmptySeq
<1>4. /\ st \in Seq(Frame) /\ Len(st) = n
      /\ \A j \in 1 .. n : st[j] = IF j = n THEN frame ELSE s.stack[j]
  BY <1>1, <1>2, <1>3, ExceptSeq
<1>5. DOMAIN st = 1 .. n /\ DOMAIN s.stack = 1 .. n
  BY <1>1, <1>4, LenProperties
<1>6. \A j \in DOMAIN st : st[j].cursor <= Len(st[j].committed)
  BY <1>1, <1>2, <1>4, <1>5
<1>7. st # <<>>
  BY <1>3, <1>4, EmptySeq
<1>8. WithTop(s, frame) = t
  BY DEF WithTop
<1> HIDE DEF st, n
<1>9. t \in EngineState /\ t.stack = st /\ t.phase = s.phase /\ t.kana = s.kana
  BY <1>1, <1>4 DEF EngineState
<1>10. Good(t)
  BY <1>6, <1>9 DEF Good, Base, CursorInBuffer, FocusInRange, PendingOnce
<1>11. QED
  BY <1>7, <1>8, <1>9, <1>10

(* Closing the innermost registration.                                     *)
LEMMA DropTopOK ==
  ASSUME NEW s, Good(s), s.stack # <<>>
  PROVE  LET t == [s EXCEPT !.stack = Front(s.stack)]
         IN  Good(t) /\ t.phase = s.phase /\ t.kana = s.kana
<1> DEFINE n == Len(s.stack) - 1
           st == Front(s.stack)
           t == [s EXCEPT !.stack = st]
<1>1. /\ s \in EngineState /\ s.stack \in Seq(Frame)
      /\ \A i \in DOMAIN s.stack : s.stack[i].cursor <= Len(s.stack[i].committed)
  BY DEF Good, Base, EngineState, CursorInBuffer
<1>2. st \in Seq(Frame) /\ Len(st) = n /\ \A i \in 1 .. n : st[i] = s.stack[i]
  BY <1>1, FrontTyped
<1>3. n \in Nat /\ DOMAIN s.stack = 1 .. Len(s.stack) /\ Len(s.stack) = n + 1
  BY <1>1, EmptySeq, LenProperties
<1>4. DOMAIN st = 1 .. n
  BY <1>2, LenProperties
<1> HIDE DEF n
<1>5. \A i \in DOMAIN st : i \in DOMAIN s.stack
  BY <1>3, <1>4
<1>6. \A i \in DOMAIN st : st[i].cursor <= Len(st[i].committed)
  BY <1>1, <1>2, <1>4, <1>5
<1> HIDE DEF st
<1>7. t \in EngineState /\ t.stack = st /\ t.phase = s.phase /\ t.kana = s.kana
  BY <1>1, <1>2 DEF EngineState
<1>8. Good(t)
  BY <1>6, <1>7 DEF Good, Base, CursorInBuffer, FocusInRange, PendingOnce
<1>9. QED
  BY <1>7, <1>8 DEF st

(* A new registration is well-formed: empty, its cursor at 0.              *)
LEMMA NewFrameOK ==
  ASSUME NEW s \in EngineState, NEW reading \in Text, NEW okuriKey \in Text, NEW okuri \in Text
  PROVE  FrameOK(NewFrame(s, reading, okuriKey, okuri))
<1>1. s.abbrev \in BOOLEAN
  BY DEF EngineState
<1>2. <<>> \in Text /\ Len(<<>>) = 0
  BY EmptyTyped, EmptySeq
<1>3. NewFrame(s, reading, okuriKey, okuri) \in Frame
  BY <1>1, <1>2 DEF NewFrame, Frame
<1>4. QED
  BY <1>2, <1>3 DEF NewFrame, FrameOK

(* Opening a registration.                                                 *)
LEMMA EnterRegisterOK ==
  ASSUME NEW s, Base(s), NEW reading \in Text, NEW okuriKey \in Text, NEW okuri \in Text
  PROVE  Good(EnterRegister(s, reading, okuriKey, okuri))
<1> DEFINE h == ToHiragana(s)
           f == NewFrame(s, reading, okuriKey, okuri)
           st == Append(s.stack, f)
           t == [h EXCEPT !.stack = st]
<1>1. Good(h) /\ h.stack = s.stack
  BY ToHiraganaOK
<1>2. /\ h \in EngineState /\ s \in EngineState /\ s.stack \in Seq(Frame)
      /\ \A i \in DOMAIN s.stack : s.stack[i].cursor <= Len(s.stack[i].committed)
  BY <1>1 DEF Good, Base, EngineState, CursorInBuffer
<1>3. f \in Frame /\ f.cursor <= Len(f.committed)
  BY <1>2, NewFrameOK DEF FrameOK
<1>4. EnterRegister(s, reading, okuriKey, okuri) = t
  BY DEF EnterRegister
<1> HIDE DEF h, f
<1>5. /\ st \in Seq(Frame) /\ Len(st) = Len(s.stack) + 1
      /\ \A i \in 1 .. Len(s.stack) : st[i] = s.stack[i]
      /\ st[Len(s.stack) + 1] = f
  BY <1>2, <1>3, AppendProperties
<1>6. /\ Len(s.stack) \in Nat /\ DOMAIN s.stack = 1 .. Len(s.stack)
      /\ DOMAIN st = 1 .. Len(s.stack) + 1
  BY <1>2, <1>5, LenProperties
<1> HIDE DEF st
<1>7. \A i \in DOMAIN st : i \in DOMAIN s.stack \/ i = Len(s.stack) + 1
  BY <1>6
<1>8. \A i \in DOMAIN st : st[i].cursor <= Len(st[i].committed)
  BY <1>2, <1>3, <1>5, <1>6, <1>7
<1>9. t \in EngineState /\ t.stack = st /\ t.phase = h.phase /\ t.kana = h.kana
  BY <1>2, <1>5 DEF EngineState
<1>10. Good(t)
  BY <1>1, <1>8, <1>9 DEF Good, Base, CursorInBuffer, FocusInRange, PendingOnce
<1>11. QED
  BY <1>4, <1>10

(* Recording the registered word, in the application or in the outer buffer. *)
LEMMA FinalizeRegisterOK ==
  ASSUME NEW s, Good(s), s.stack # <<>>
  PROVE  ResultOK(FinalizeRegister(s))
<1> DEFINE frame == Top(s)
           word  == RegisteredWord(frame.committed)
           outer == [ToHiragana(s) EXCEPT !.stack = Front(s.stack)]
           learn == [op |-> "learn", midashi |-> Template(frame.original),
                     okuri |-> frame.okuriKey, word |-> word]
           inserted == WithTop(outer, InsertInto(Top(outer), word))
<1>1. frame.committed \in Text /\ frame.okuri \in Text
  BY GoodIsBase, TopOK DEF FrameOK, Frame
<1>2. word \in Text
  BY <1>1, RegisteredWordTyped
<1>3. Good(outer)
  BY GoodIsBase, ToHiraganaOK, DropTopOK
<1>4. learn.op = "learn"
  OBVIOUS
<1> HIDE DEF frame, word, outer, learn
<1>5. CASE outer.stack = <<>>
  <2>1. word \o frame.okuri \in Text
    BY <1>1, <1>2, ConcatProperties DEF Text
  <2>2. OutputOK([Commit(word \o frame.okuri) EXCEPT !.call = learn])
    BY <1>4, <2>1, CommitOK, CallOK
  <2>3. FinalizeRegister(s) = R(outer, [Commit(word \o frame.okuri) EXCEPT !.call = learn])
    BY <1>5 DEF FinalizeRegister, frame, word, outer, learn
  <2>4. QED
    BY <1>3, <2>2, <2>3 DEF ResultOK, R
<1>6. CASE outer.stack # <<>>
  <2>1. Good(inserted)
    <3>1. FrameOK(Top(outer))
      BY GoodIsBase, <1>3, <1>6, TopOK
    <3>2. FrameOK(InsertInto(Top(outer), word))
      BY <1>2, <3>1, InsertIntoOK
    <3>3. QED
      BY <1>3, <1>6, <3>2, WithTopOK
  <2>2. OutputOK([Preedit(inserted) EXCEPT !.call = learn])
    BY <1>4, PreeditOK, CallOK
  <2>3. FinalizeRegister(s) = R(inserted, [Preedit(inserted) EXCEPT !.call = learn])
    BY <1>6 DEF FinalizeRegister, frame, word, outer, learn
  <2>4. QED
    BY <2>1, <2>2, <2>3 DEF ResultOK, R
<1>7. QED
  BY <1>5, <1>6

(* Giving up a registration returns to its reading.                        *)
LEMMA CancelRegisterOK ==
  ASSUME NEW s, Good(s), s.stack # <<>>, NEW d \in Answers
  PROVE  ResultOK(CancelRegister(s, d))
<1> DEFINE frame == Top(s)
           outer == [ToHiragana(s) EXCEPT !.stack = Front(s.stack)]
           abbreving == [outer EXCEPT !.phase = Abbrev(frame.original)]
           reading == [outer EXCEPT !.phase = Midashi(frame.original, <<>>),
                                    !.completion = Completion(frame.original, d)]
<1>1. frame.original \in Text
  BY GoodIsBase, TopOK DEF FrameOK, Frame
<1>2. Good(outer) /\ outer.kana = <<>>
  BY GoodIsBase, ToHiraganaOK, DropTopOK
<1>3. outer \in EngineState
  BY <1>2 DEF Good, Base
<1> HIDE DEF frame, outer
<1>4. Good(abbreving)
  <2>1. /\ abbreving \in EngineState /\ abbreving.stack = outer.stack
        /\ abbreving.phase = Abbrev(frame.original) /\ abbreving.kana = <<>>
    BY <1>1, <1>2, <1>3, AbbrevingPhase DEF EngineState
  <2>2. abbreving.phase.tag = "Abbrev"
    BY <1>1, <2>1, AbbrevingPhase
  <2>3. QED
    BY GoodIsBase, <1>2, <2>1, <2>2, PlainStep DEF PendingOnce
<1>5. Good(reading)
  <2>1. /\ reading \in EngineState /\ reading.stack = outer.stack
        /\ reading.phase = Midashi(frame.original, <<>>) /\ reading.kana = <<>>
    BY <1>1, <1>2, <1>3, ReadingPhase, CompletionTyped, EmptyTyped DEF EngineState
  <2>2. reading.phase.tag = "Midashi" /\ reading.phase.roman = <<>>
    BY <1>1, <2>1, ReadingPhase, EmptyTyped
  <2>3. QED
    BY GoodIsBase, <1>2, <2>1, <2>2, PlainStep DEF PendingOnce, KanaMode
<1>6. \A t : OutputOK(Preedit(t)) /\ OutputOK([Preedit(t) EXCEPT !.window = "hidden"])
  BY PreeditOK, WindowOK DEF Drawn
<1> DEFINE back == IF frame.abbrev THEN abbreving ELSE reading
<1>7. Good(back)
  BY <1>4, <1>5
<1>8. CancelRegister(s, d) = IF outer.stack = <<>>
                             THEN R(back, [Preedit(back) EXCEPT !.window = "hidden"])
                             ELSE R(outer, Preedit(outer))
  BY DEF CancelRegister, frame, outer
<1> HIDE DEF back
<1>9. CASE outer.stack = <<>>
  <2>1. CancelRegister(s, d) = R(back, [Preedit(back) EXCEPT !.window = "hidden"])
    BY <1>8, <1>9
  <2>2. QED
    BY <1>6, <1>7, <2>1, ResultIsOK
<1>10. CASE outer.stack # <<>>
  <2>1. CancelRegister(s, d) = R(outer, Preedit(outer))
    BY <1>8, <1>10
  <2>2. QED
    BY <1>2, <2>1, RedrawOK
<1>11. QED
  BY <1>9, <1>10

----------------------------------------------------------------------------
(* Conversion.                                                             *)
LEMMA CandidatesTyped ==
  ASSUME NEW reading \in Text, NEW d \in Answers
  PROVE  Candidates(reading, d) \in Seq(Candidate)
<1> DEFINE numeric == HasDigit(reading)
           dict  == [i \in DOMAIN d.found |->
                       [word      |-> d.found[i].word,
                        template  |-> IF numeric THEN d.found[i].template
                                                 ELSE d.found[i].word,
                        synthetic |-> FALSE]]
           synth == [i \in DOMAIN d.synth |->
                       [word |-> d.synth[i], template |-> <<>>, synthetic |-> TRUE]]
<1>1. d.found \in Seq(Found) /\ d.synth \in Seq(Text)
  BY EngineAssumption DEF EngineAssumption, Answers
<1>2. dict \in Seq(Candidate)
  <2>1. Len(d.found) \in Nat /\ DOMAIN d.found = 1 .. Len(d.found)
    BY <1>1, LenProperties
  <2>2. \A i \in 1 .. Len(d.found) : d.found[i] \in Found
    BY <1>1, LenProperties
  <2>3. \A i \in 1 .. Len(d.found) : dict[i] \in Candidate
    BY <2>1, <2>2 DEF Candidate, Found
  <2>4. dict = [i \in 1 .. Len(d.found) |-> dict[i]]
    BY <2>1
  <2> HIDE DEF dict
  <2>5. QED
    BY <2>1, <2>3, <2>4, IsASeq
<1>3. synth \in Seq(Candidate)
  <2>1. Len(d.synth) \in Nat /\ DOMAIN d.synth = 1 .. Len(d.synth)
    BY <1>1, LenProperties
  <2>2. \A i \in 1 .. Len(d.synth) : d.synth[i] \in Text
    BY <1>1, LenProperties
  <2>3. \A i \in 1 .. Len(d.synth) : synth[i] \in Candidate
    BY <2>1, <2>2, EmptyTyped DEF Candidate
  <2>4. synth = [i \in 1 .. Len(d.synth) |-> synth[i]]
    BY <2>1
  <2> HIDE DEF synth
  <2>5. QED
    BY <2>1, <2>3, <2>4, IsASeq
<1>4. Candidates(reading, d) = IF numeric /\ (dict = <<>> \/ Template(reading) = <<Hash>>)
                               THEN dict \o synth ELSE dict
  BY DEF Candidates
<1> HIDE DEF dict, synth, numeric
<1>5. dict \o synth \in Seq(Candidate)
  BY <1>2, <1>3, ConcatProperties
<1>6. QED
  BY <1>2, <1>4, <1>5

(* The candidate window's update.                                          *)
LEMMA ListingWindowTyped ==
  ASSUME NEW index
  PROVE  ListingWindow(index) \in Drawn
  BY DEF ListingWindow, Drawn

(* Converting a reading: candidates with the first in focus, or a registration. *)
LEMMA StartConversionOK ==
  ASSUME NEW s, Base(s), s.kana = <<>>, NEW reading \in Text, NEW okuriKey \in Text,
         NEW okuri \in Text, NEW d \in Answers
  PROVE  ResultOK(StartConversion(s, reading, okuriKey, okuri, d))
<1> DEFINE cands == Candidates(reading, d)
           bare  == [s EXCEPT !.completion = NoCompletion]
           reg   == EnterRegister(bare, reading, okuriKey, okuri)
           phase == Selecting(reading, okuri, okuriKey, cands, 0)
           sel   == [s EXCEPT !.completion = NoCompletion, !.phase = phase]
<1>1. cands \in Seq(Candidate)
  BY CandidatesTyped
<1>2. CASE cands = <<>>
  <2>1. Base(bare)
    BY NoCompletionTyped DEF Base, EngineState, CursorInBuffer
  <2>2. Good(reg)
    BY <2>1, EnterRegisterOK
  <2>3. StartConversion(s, reading, okuriKey, okuri, d) = R(reg, Preedit(reg))
    BY <1>2 DEF StartConversion
  <2>4. QED
    BY <2>2, <2>3, RedrawOK
<1>3. CASE cands # <<>>
  <2>1. phase \in SelectingPhase /\ phase.cands = cands /\ phase.index = 0
    BY <1>1 DEF Selecting, SelectingPhase
  <2>2. phase \in Phases /\ phase.tag = "Selecting"
    BY <2>1 DEF Phases, SelectingPhase
  <2>3. 0 < Len(cands)
    BY <1>1, <1>3, EmptySeq
  <2>4. s \in EngineState
    BY DEF Good, Base
  <2>5. StartConversion(s, reading, okuriKey, okuri, d)
          = R(sel, [Preedit(sel) EXCEPT !.window = ListingWindow(0)])
    BY <1>3 DEF StartConversion
  <2> HIDE DEF phase, cands
  <2>6. sel \in EngineState /\ sel.stack = s.stack /\ sel.kana = <<>> /\ sel.phase = phase
    BY <2>2, <2>4, NoCompletionTyped DEF EngineState
  <2>7. Good(sel)
    BY <2>1, <2>2, <2>3, <2>6 DEF Good, Base, CursorInBuffer, FocusInRange, PendingOnce
  <2> HIDE DEF sel
  <2>8. QED
    BY <2>5, <2>7, PreeditOK, ListingWindowTyped, WindowOK, ResultIsOK
<1>4. QED
  BY <1>2, <1>3

(* Choosing a candidate of the list leaves an idle kana mode.              *)
LEMMA CommitCandidateOK ==
  ASSUME NEW s, Base(s), NEW sel \in SelectingPhase, NEW index \in Nat, index < Len(sel.cands)
  PROVE  LET r == CommitCandidate(s, sel, index)
         IN  /\ ResultOK(r) /\ r.eng.phase = Kana(s.display) /\ r.eng.kana = <<>>
             /\ r.eng.stack = s.stack /\ r.eng.display = s.display
<1> DEFINE chosen == sel.cands[index + 1]
           b == BackToKana(s)
           t == [b EXCEPT !.trigger = <<>>]
           text == chosen.word \o sel.okuri \o s.trigger
           c == IF chosen.synthetic THEN NoCall ELSE LearnedEntry(sel, index)
           o == [Commit(text) EXCEPT !.window = "hidden", !.call = c]
<1>1. chosen \in Candidate
  <2>1. sel.cands \in Seq(Candidate)
    BY DEF SelectingPhase
  <2>2. Len(sel.cands) \in Nat /\ index + 1 \in 1 .. Len(sel.cands)
    BY <2>1, LenProperties
  <2>3. QED
    BY <2>1, <2>2, LenProperties
<1>2. text \in Text
  <2>1. chosen.word \in Text /\ sel.okuri \in Text /\ s.trigger \in Text
    BY <1>1 DEF Candidate, SelectingPhase, Base, EngineState
  <2> HIDE DEF chosen
  <2>2. chosen.word \o sel.okuri \in Text
    BY <2>1, ConcatProperties DEF Text
  <2>3. QED
    BY <2>1, <2>2, ConcatProperties DEF Text
<1>3. c.op \in {"none", "learn", "purge"}
  BY DEF NoCall, LearnedEntry
<1>4. Good(b) /\ b.phase = Kana(s.display) /\ b.kana = <<>> /\ b.stack = s.stack /\ b.display = s.display
  BY BackToKanaOK
<1>5. CommitCandidate(s, sel, index) = R(t, o)
  BY DEF CommitCandidate
<1> HIDE DEF b, text, c, chosen
<1>6. /\ t \in EngineState /\ t.phase = b.phase /\ t.kana = b.kana /\ t.stack = b.stack
      /\ t.display = b.display
  BY GoodIsBase, <1>4, EmptyTyped DEF EngineState, Base
<1>7. Good(t)
  BY <1>4, <1>6 DEF Good, Base, CursorInBuffer, FocusInRange, PendingOnce
<1>8. OutputOK(o)
  <2> DEFINE q == [Commit(text) EXCEPT !.window = "hidden"]
  <2>1. OutputOK(q)
    BY <1>2, CommitOK, WindowOK DEF Drawn
  <2>2. o = [q EXCEPT !.call = c]
    OBVIOUS
  <2> HIDE DEF q, o
  <2>3. QED
    BY <1>3, <2>1, <2>2, CallOK
<1> HIDE DEF t, o
<1>9. ResultOK(R(t, o)) /\ R(t, o).eng = t
  BY <1>7, <1>8, ResultIsOK DEF R
<1>10. QED
  BY <1>4, <1>5, <1>6, <1>9

----------------------------------------------------------------------------
(* Midashi mode.                                                           *)
Reading(s) == Good(s) /\ s.phase.tag = "Midashi"

(* What a state that composes a reading holds.                             *)
LEMMA ReadingFields ==
  ASSUME NEW s, Reading(s)
  PROVE  /\ s \in EngineState /\ s.phase.kana \in Text /\ s.phase.roman \in Roman
         /\ s.kana = s.phase.roman /\ s.kana \in Roman /\ s.display \in KanaMode
  BY PhaseFields, GoodIsBase DEF Reading, Good, PendingOnce, EngineState, KanaMode

(* A final n becomes kana.                                                 *)
LEMMA FlushNTyped ==
  ASSUME NEW kana \in Text, NEW roman
  PROVE  FlushN(kana, roman) \in Text
<1>1. KanaN \in Glyph
  BY EngineAssumption DEF EngineAssumption
<1>2. Append(kana, KanaN) \in Text
  BY <1>1, AppendProperties DEF Text
<1>3. QED
  BY <1>2 DEF FlushN

(* Each key of a reading: cancel,                                          *)
LEMMA MidashiCancelOK ==
  ASSUME NEW s, Base(s)
  PROVE  ResultOK(MidashiCancel(s))
<1>1. Good(NoGhost(ToHiragana(s)))
  BY ToHiraganaOK, NoGhostOK
<1>2. QED
  BY <1>1, QuietOutputs, ResultIsOK DEF MidashiCancel

(* delete back, from the romaji in both places and then from the kana,     *)
LEMMA MidashiBackSpaceOK ==
  ASSUME NEW s, Reading(s), NEW d \in Answers
  PROVE  ResultOK(MidashiBackSpace(s, d))
<1> DEFINE p == s.phase
           shorter == [s EXCEPT !.phase = Midashi(p.kana, Front(p.roman)),
                                !.kana = Front(p.roman)]
           popped  == [s EXCEPT !.phase = Midashi(Front(p.kana), p.roman),
                                !.kana = <<>>,
                                !.completion = Completion(Front(p.kana), d)]
<1>1. s \in EngineState /\ p.kana \in Text /\ p.roman \in Roman /\ Good(s)
  BY ReadingFields DEF Reading
<1>2. CASE p.roman # <<>>
  <2>1. Front(p.roman) \in Roman
    BY <1>1, <1>2, FrontTyped DEF Roman
  <2>2. /\ shorter \in EngineState /\ shorter.stack = s.stack
        /\ shorter.phase = Midashi(p.kana, Front(p.roman)) /\ shorter.kana = Front(p.roman)
    BY <1>1, <2>1, ReadingPhase DEF EngineState
  <2>3. Good(shorter)
    BY GoodIsBase, <1>1, <2>1, <2>2, ReadingStep
  <2>4. MidashiBackSpace(s, d) = R(shorter, Preedit(shorter))
    BY <1>2 DEF MidashiBackSpace
  <2>5. QED
    BY <2>3, <2>4, RedrawOK
<1>3. CASE p.roman = <<>> /\ p.kana # <<>>
  <2>1. Front(p.kana) \in Text
    BY <1>1, <1>3, FrontTyped DEF Text
  <2>2. Completion(Front(p.kana), d) \in [prefix : Text, preview : Text]
    BY <2>1, CompletionTyped
  <2>3. /\ popped \in EngineState /\ popped.stack = s.stack
        /\ popped.phase = Midashi(Front(p.kana), <<>>) /\ popped.kana = <<>>
    BY <1>1, <1>3, <2>1, <2>2, EmptyTyped, ReadingPhase DEF EngineState
  <2>4. Good(popped)
    BY GoodIsBase, <1>1, <2>1, <2>3, EmptyTyped, ReadingStep
  <2>5. MidashiBackSpace(s, d) = R(popped, Preedit(popped))
    BY <1>3 DEF MidashiBackSpace
  <2>6. QED
    BY <2>4, <2>5, RedrawOK
<1>4. CASE p.roman = <<>> /\ p.kana = <<>>
  <2>1. MidashiBackSpace(s, d) = MidashiCancel(s)
    BY <1>4 DEF MidashiBackSpace
  <2>2. QED
    BY GoodIsBase, <1>1, <2>1, MidashiCancelOK
<1>5. QED
  BY <1>2, <1>3, <1>4

(* commit as it is,                                                        *)
LEMMA MidashiReturnOK ==
  ASSUME NEW s, Reading(s)
  PROVE  ResultOK(MidashiReturn(s))
<1> DEFINE kana == FlushN(s.phase.kana, s.phase.roman)
<1>1. kana \in Text
  BY ReadingFields, FlushNTyped
<1>2. Good(NoGhost(BackToKana(s)))
  BY GoodIsBase, BackToKanaOK, NoGhostOK DEF Reading
<1>3. OutputOK([Commit(kana) EXCEPT !.pass = TRUE])
  BY <1>1, CommitOK, PassedOK
<1>4. QED
  BY <1>2, <1>3, ResultIsOK DEF MidashiReturn

(* StartConversion forgets the phase, so it does not matter that the       *)
(* pending romaji has just been dropped from one of its two places.        *)
LEMMA ConversionOK ==
  ASSUME NEW s, Base(s), NEW reading \in Text, NEW trigger \in Text, NEW d \in Answers
  PROVE  /\ ResultOK(StartConversion([s EXCEPT !.kana = <<>>], reading, <<>>, <<>>, d))
         /\ ResultOK(StartConversion([s EXCEPT !.trigger = trigger, !.kana = <<>>],
                                     reading, <<>>, <<>>, d))
<1> DEFINE t == [s EXCEPT !.kana = <<>>]
           u == [s EXCEPT !.trigger = trigger, !.kana = <<>>]
<1>1. Base(t) /\ t.kana = <<>>
  BY EmptyTyped DEF Base, EngineState, CursorInBuffer
<1>2. Base(u) /\ u.kana = <<>>
  BY EmptyTyped DEF Base, EngineState, CursorInBuffer
<1> HIDE DEF t, u
<1>3. ResultOK(StartConversion(t, reading, <<>>, <<>>, d))
  BY <1>1, EmptyTyped, StartConversionOK
<1>4. ResultOK(StartConversion(u, reading, <<>>, <<>>, d))
  BY <1>2, EmptyTyped, StartConversionOK
<1>5. QED
  BY <1>3, <1>4 DEF t, u

(* convert with the space bar,                                             *)
LEMMA MidashiSpaceOK ==
  ASSUME NEW s, Reading(s), NEW d \in Answers
  PROVE  ResultOK(MidashiSpace(s, d))
<1> DEFINE kana == FlushN(s.phase.kana, s.phase.roman)
<1>1. kana \in Text /\ Base(s)
  BY ReadingFields, FlushNTyped, GoodIsBase DEF Reading
<1>2. ResultOK(MidashiCancel(s))
  BY <1>1, MidashiCancelOK
<1>3. ResultOK(StartConversion([s EXCEPT !.kana = <<>>], kana, <<>>, <<>>, d))
  BY <1>1, EmptyTyped, ConversionOK
<1>4. QED
  BY <1>2, <1>3 DEF MidashiSpace

(* accept a completion,                                                    *)
LEMMA MidashiTabOK ==
  ASSUME NEW s, Reading(s), NEW d \in Answers
  PROVE  ResultOK(MidashiTab(s, d))
<1> DEFINE c == s.completion
           accepted == [s EXCEPT !.phase = Midashi(c.preview, <<>>), !.kana = <<>>,
                                 !.completion = Completion(c.prefix, d)]
<1>1. s \in EngineState /\ c.prefix \in Text /\ c.preview \in Text /\ Base(s) /\ Good(s)
  BY GoodIsBase DEF Reading, EngineState
<1>2. Completion(c.prefix, d) \in [prefix : Text, preview : Text]
  BY <1>1, CompletionTyped
<1>3. /\ accepted \in EngineState /\ accepted.stack = s.stack
      /\ accepted.phase = Midashi(c.preview, <<>>) /\ accepted.kana = <<>>
  BY <1>1, <1>2, EmptyTyped, ReadingPhase DEF EngineState
<1> HIDE DEF accepted
<1>4. Good(accepted)
  BY <1>1, <1>3, EmptyTyped, ReadingStep
<1>5. ResultOK(R(accepted, Preedit(accepted))) /\ ResultOK(R(s, Preedit(s)))
  BY <1>1, <1>4, RedrawOK
<1>6. QED
  BY <1>5 DEF MidashiTab, accepted

(* commit in half-width katakana,                                          *)
LEMMA MidashiHalfWidthOK ==
  ASSUME NEW s, Reading(s)
  PROVE  ResultOK(MidashiHalfWidth(s))
<1>1. InScript(s.phase.kana, "HalfWidth") \in Text
  BY ReadingFields, InScriptIsText DEF KanaMode
<1>2. Good(NoGhost(BackToKana(s)))
  BY GoodIsBase, BackToKanaOK, NoGhostOK DEF Reading
<1>3. QED
  BY <1>1, <1>2, CommitOK, ResultIsOK DEF MidashiHalfWidth

(* convert with a trigger to append,                                       *)
LEMMA ConvertWithTriggerOK ==
  ASSUME NEW s, Base(s), NEW kana \in Text, NEW trigger \in Text, NEW d \in Answers
  PROVE  ResultOK(ConvertWithTrigger(s, kana, trigger, d))
<1>1. Good(NoGhost(BackToKana(s)))
  BY BackToKanaOK, NoGhostOK
<1>2. ResultOK(R(NoGhost(BackToKana(s)), Commit(trigger)))
  BY <1>1, CommitOK, ResultIsOK
<1>3. QED
  BY <1>2, ConversionOK DEF ConvertWithTrigger

(* (a letter by itself is text)                                            *)
LEMMA OneLetter ==
  ASSUME NEW ch \in Letter
  PROVE  <<ch>> \in Text /\ ch \in Glyph
<1>1. ch \in Glyph
  BY TableAssumption DEF TableAssumption
<1>2. QED
  BY <1>1 DEF Text

(* convert with a punctuation key,                                         *)
LEMMA MidashiTriggerOK ==
  ASSUME NEW s, Base(s), NEW kana \in Text, NEW ch \in Letter, NEW d \in Answers
  PROVE  ResultOK(MidashiTrigger(s, kana, ch, d))
<1> DEFINE t == Transition(<<>>, ch, "Hiragana")
           text == IF t.kind = "Ok" /\ t.output # <<>> /\ t.next = <<>> THEN t.output ELSE <<ch>>
<1>1. t \in TransitionResult
  BY EmptyTyped, TransitionTyped DEF KanaMode
<1>2. text \in Text
  BY <1>1, OneLetter DEF TransitionResult
<1>3. MidashiTrigger(s, kana, ch, d) = ConvertWithTrigger(s, kana, text, d)
  BY DEF MidashiTrigger
<1> HIDE DEF text
<1>4. QED
  BY <1>2, <1>3, ConvertWithTriggerOK

(* convert with an affix mark,                                             *)
LEMMA MidashiAffixOK ==
  ASSUME NEW s, Reading(s), NEW d \in Answers
  PROVE  ResultOK(MidashiAffix(s, d))
<1> DEFINE kana  == s.phase.kana \o s.phase.roman
           t == [s EXCEPT !.phase = Midashi(<<>>, <<>>), !.kana = <<>>]
           still == NoGhost(t)
<1>1. s \in EngineState /\ Base(s)
  BY GoodIsBase DEF Reading
<1>2. kana \in Text
  <2>1. s.phase.kana \in Text /\ s.phase.roman \in Text
    BY ReadingFields, RomanIsText
  <2>2. QED
    BY <2>1, ConcatProperties DEF Text
<1>3. Append(kana, ">") \in Text
  <2>1. ">" \in Glyph
    BY EngineAssumption DEF EngineAssumption
  <2> HIDE DEF kana
  <2>2. QED
    BY <1>2, <2>1, AppendProperties DEF Text
<1>4. /\ t \in EngineState /\ t.stack = s.stack /\ t.phase = Midashi(<<>>, <<>>) /\ t.kana = <<>>
  BY <1>1, EmptyTyped, ReadingPhase DEF EngineState
<1> HIDE DEF t
<1>5. Good(still)
  BY <1>1, <1>4, EmptyTyped, ReadingStep, NoGhostOK
<1>6. ResultOK(R(still, Preedit(still)))
  BY <1>5, RedrawOK
<1>7. ResultOK(StartConversion([s EXCEPT !.kana = <<>>], Append(kana, ">"), <<>>, <<>>, d))
  BY <1>1, <1>3, EmptyTyped, ConversionOK
<1>8. QED
  BY <1>6, <1>7 DEF MidashiAffix, t

(* type a digit,                                                           *)
LEMMA MidashiDigitOK ==
  ASSUME NEW s, Base(s), NEW kana \in Text, NEW ch \in Letter
  PROVE  ResultOK(MidashiDigit(s, kana, ch))
<1> DEFINE t == [s EXCEPT !.phase = Midashi(Append(kana, ch), <<>>), !.kana = <<>>]
           typed == NoGhost(t)
<1>1. Append(kana, ch) \in Text
  BY OneLetter, AppendProperties DEF Text
<1>2. /\ t \in EngineState /\ t.stack = s.stack /\ t.phase = Midashi(Append(kana, ch), <<>>)
      /\ t.kana = <<>>
  BY <1>1, EmptyTyped, ReadingPhase DEF Base, EngineState
<1> HIDE DEF t
<1>3. Good(typed)
  BY <1>1, <1>2, EmptyTyped, ReadingStep, NoGhostOK
<1>4. QED
  BY <1>3, RedrawOK DEF MidashiDigit, t

(* type a letter the table accepts,                                        *)
LEMMA MidashiFedOK ==
  ASSUME NEW s, Base(s), NEW kana \in Text, NEW t \in TransitionResult, NEW d \in Answers
  PROVE  ResultOK(MidashiFed(s, kana, t, d))
<1> DEFINE read    == kana \o t.output
           u       == [s EXCEPT !.phase = Midashi(read, t.next), !.kana = t.next]
           partial == NoGhost(u)
           done    == [s EXCEPT !.phase = Midashi(read, <<>>), !.kana = <<>>,
                                !.completion = Completion(read, d)]
<1>1. s \in EngineState /\ t.output \in Text /\ t.next \in Roman
  BY DEF Base, TransitionResult
<1>2. read \in Text
  BY <1>1, ConcatProperties DEF Text
<1>3. t.output # <<>> => read # <<>>
  BY <1>1, ConcatEqualIffEmpty DEF Text
<1> HIDE DEF read
<1>4. /\ u \in EngineState /\ u.stack = s.stack /\ u.phase = Midashi(read, t.next)
      /\ u.kana = t.next
  BY <1>1, <1>2, ReadingPhase DEF EngineState
<1>5. Completion(read, d) \in [prefix : Text, preview : Text]
  BY <1>2, CompletionTyped
<1>6. /\ done \in EngineState /\ done.stack = s.stack /\ done.phase = Midashi(read, <<>>)
      /\ done.kana = <<>>
  BY <1>1, <1>2, <1>5, EmptyTyped, ReadingPhase DEF EngineState
<1> HIDE DEF u, done
<1>7. ResultOK(R(partial, Preedit(partial)))
  BY <1>1, <1>2, <1>4, ReadingStep, NoGhostOK, RedrawOK
<1>8. ResultOK(R(done, Preedit(done)))
  BY <1>2, <1>6, EmptyTyped, ReadingStep, RedrawOK
<1>9. CASE t.output = <<>> \/ t.next # <<>>
  <2>1. MidashiFed(s, kana, t, d) = R(partial, Preedit(partial))
    BY <1>9 DEF MidashiFed, u, read
  <2>2. QED
    BY <1>7, <2>1
<1>10. CASE t.output # <<>> /\ t.next = <<>>
  <2>1. Front(read) \in Text /\ Last(read) \in Glyph
    BY <1>2, <1>3, <1>10, FrontTyped, LastTyped DEF Text
  <2>2. <<Last(read)>> \in Text
    BY <2>1 DEF Text
  <2>3. ResultOK(ConvertWithTrigger(s, Front(read), <<Last(read)>>, d))
    BY <2>1, <2>2, ConvertWithTriggerOK
  <2>4. \/ MidashiFed(s, kana, t, d) = R(done, Preedit(done))
        \/ MidashiFed(s, kana, t, d) = ConvertWithTrigger(s, Front(read), <<Last(read)>>, d)
    BY <1>10 DEF MidashiFed, read, done
  <2>5. QED
    BY <1>8, <2>3, <2>4
<1>11. QED
  BY <1>9, <1>10

(* type a letter with no romaji pending,                                   *)
LEMMA MidashiFromStartOK ==
  ASSUME NEW s, Base(s), NEW kana \in Text, NEW ch \in Letter, NEW ctrl, NEW d \in Answers
  PROVE  ResultOK(MidashiFromStart(s, kana, ch, ctrl, d))
<1> DEFINE t == Transition(<<>>, ch, "Hiragana")
           still == [s EXCEPT !.phase = Midashi(kana, <<>>), !.kana = <<>>]
           other == IF s.display = "Hiragana" THEN InScript(kana, "Katakana") ELSE kana
<1>1. t \in TransitionResult
  BY EmptyTyped, TransitionTyped DEF KanaMode
<1>2. other \in Text
  BY InScriptIsText DEF KanaMode
<1>3. /\ still \in EngineState /\ still.stack = s.stack /\ still.phase = Midashi(kana, <<>>)
      /\ still.kana = <<>>
  BY EmptyTyped, ReadingPhase DEF Base, EngineState
<1>4. MidashiFromStart(s, kana, ch, ctrl, d)
        = IF t.kind = "Ok" THEN MidashiFed(s, kana, t, d)
          ELSE IF ch = "q" /\ ~ctrl /\ kana # <<>>
               THEN R(NoGhost(BackToKana(s)), Commit(other))
          ELSE R(still, Preedit(still))
  BY DEF MidashiFromStart
<1> HIDE DEF t, still, other
<1>5. ResultOK(MidashiFed(s, kana, t, d))
  BY <1>1, MidashiFedOK
<1>6. ResultOK(R(NoGhost(BackToKana(s)), Commit(other)))
  BY <1>2, BackToKanaOK, NoGhostOK, CommitOK, ResultIsOK
<1>7. ResultOK(R(still, Preedit(still)))
  BY <1>3, EmptyTyped, ReadingStep, RedrawOK
<1>8. QED
  BY <1>4, <1>5, <1>6, <1>7

(* type a letter the pending romaji does not combine with,                 *)
LEMMA MidashiRetryOK ==
  ASSUME NEW s, Base(s), NEW kana \in Text, NEW ch \in Letter, NEW d \in Answers
  PROVE  ResultOK(MidashiRetry(s, kana, ch, d))
  BY MidashiTriggerOK, MidashiDigitOK, MidashiFromStartOK DEF MidashiRetry

(* and so type any letter.                                                 *)
LEMMA MidashiLetterOK ==
  ASSUME NEW s, Reading(s), NEW ch \in Letter, NEW ctrl, NEW d \in Answers
  PROVE  ResultOK(MidashiLetter(s, ch, ctrl, d))
<1> DEFINE t == Transition(s.kana, ch, "Hiragana")
           kana == s.phase.kana
<1>1. Base(s) /\ kana \in Text /\ s.kana \in Roman
  BY ReadingFields, GoodIsBase DEF Reading
<1>2. t \in TransitionResult
  BY <1>1, TransitionTyped DEF KanaMode
<1>3. kana \o t.output \in Text
  BY <1>1, <1>2, ConcatProperties DEF Text, TransitionResult
<1>4. MidashiLetter(s, ch, ctrl, d)
        = IF s.kana = <<>> THEN MidashiFromStart(s, kana, ch, ctrl, d)
          ELSE IF t.kind = "Ok" THEN MidashiFed(s, kana, t, d)
          ELSE MidashiRetry(s, kana \o t.output, ch, d)
  BY DEF MidashiLetter
<1> HIDE DEF t, kana
<1>5. QED
  BY <1>1, <1>2, <1>3, <1>4, MidashiFromStartOK, MidashiFedOK, MidashiRetryOK
----------------------------------------------------------------------------
(* Okurigana.                                                              *)
LEMMA OkuriFields ==
  ASSUME NEW s, Good(s), s.phase.tag = "Okuri"
  PROVE  /\ s \in EngineState /\ s.phase.midashi \in Text /\ s.phase.kana \in Text
         /\ s.kana \in Roman /\ Base(s)
  BY PhaseFields, GoodIsBase DEF EngineState

(* KanaTable::okuri_key gives text.                                        *)
LEMMA OkuriKeyTyped ==
  ASSUME NEW pre \in Roman, NEW ch \in Letter
  PROVE  OkuriKey(pre, ch) \in Text
<1> DEFINE asked == IF pre = <<>> THEN <<ch>> ELSE pre
<1>1. \A a \in DOMAIN OkuriAliases : OkuriAliases[a] \in Text
  BY TableAssumption DEF TableAssumption
<1>2. asked[1] \in Letter
  <2>1. CASE pre = <<>>
    BY <2>1
  <2>2. CASE pre # <<>>
    <3>1. Len(pre) \in Nat \ {0} /\ \A i \in 1 .. Len(pre) : pre[i] \in Letter
      BY <2>2, EmptySeq, LenProperties DEF Roman
    <3>2. QED
      BY <2>2, <3>1
  <2>3. QED
    BY <2>1, <2>2
<1>3. <<asked[1]>> \in Text
  BY <1>2, OneLetter
<1>4. QED
  BY <1>1, <1>3 DEF OkuriKey

(* Each key of an okurigana: delete back,                                  *)
LEMMA OkuriBackSpaceOK ==
  ASSUME NEW s, Good(s), s.phase.tag = "Okuri", NEW d \in Answers
  PROVE  ResultOK(OkuriBackSpace(s, d))
<1> DEFINE p    == s.phase
           kana == IF s.kana = <<>> THEN Chop(p.kana) ELSE p.kana
           left == [s EXCEPT !.phase = Okuri(p.midashi, kana), !.kana = Chop(s.kana)]
           back == [s EXCEPT !.phase = Midashi(p.midashi, <<>>), !.kana = <<>>,
                             !.completion = Completion(p.midashi, d)]
<1>1. /\ s \in EngineState /\ p.midashi \in Text /\ p.kana \in Text /\ s.kana \in Roman
      /\ Base(s)
  BY OkuriFields
<1>2. kana \in Text /\ Chop(s.kana) \in Roman
  BY <1>1, ChopTyped DEF Text, Roman
<1>3. OkuriBackSpace(s, d) = IF left.kana = <<>> /\ kana = <<>> THEN R(back, Preedit(back))
                                                                ELSE R(left, Preedit(left))
  BY DEF OkuriBackSpace
<1>4. Completion(p.midashi, d) \in [prefix : Text, preview : Text]
  BY <1>1, CompletionTyped
<1> HIDE DEF kana, p
<1>5. left \in EngineState /\ left.stack = s.stack /\ left.phase = Okuri(p.midashi, kana)
  BY <1>1, <1>2, OkuriganaPhase DEF EngineState
<1>6. /\ back \in EngineState /\ back.stack = s.stack /\ back.phase = Midashi(p.midashi, <<>>)
      /\ back.kana = <<>>
  BY <1>1, <1>4, EmptyTyped, ReadingPhase DEF EngineState
<1> HIDE DEF left, back
<1>7. Good(left) /\ Good(back)
  BY <1>1, <1>2, <1>5, <1>6, EmptyTyped, OkuriganaStep, ReadingStep
<1>8. QED
  BY <1>3, <1>7, RedrawOK

(* type a letter, which converts when a kana is complete,                  *)
LEMMA OkuriLetterOK ==
  ASSUME NEW s, Good(s), s.phase.tag = "Okuri", NEW ch \in Letter, NEW d \in Answers
  PROVE  ResultOK(OkuriLetter(s, ch, d))
<1> DEFINE p    == s.phase
           t    == Transition(s.kana, ch, "Hiragana")
           kana == p.kana \o t.output
           more == [s EXCEPT !.phase = Okuri(p.midashi, kana), !.kana = t.next]
<1>1. /\ s \in EngineState /\ p.midashi \in Text /\ p.kana \in Text /\ s.kana \in Roman
      /\ Base(s)
  BY OkuriFields
<1>2. t \in TransitionResult
  BY <1>1, TransitionTyped DEF KanaMode
<1>3. kana \in Text /\ t.next \in Roman
  BY <1>1, <1>2, ConcatProperties DEF Text, TransitionResult
<1>4. OkuriLetter(s, ch, d)
        = IF t.kind \in {"Ok", "OkRetry"} /\ t.output # <<>> /\ t.next = <<>>
          THEN StartConversion(ToHiragana(s), p.midashi, OkuriKey(s.kana, ch), kana, d)
          ELSE R(more, Preedit(more))
  BY DEF OkuriLetter
<1> HIDE DEF t, kana, p
<1>5. ResultOK(StartConversion(ToHiragana(s), p.midashi, OkuriKey(s.kana, ch), kana, d))
  BY <1>1, <1>3, ToHiraganaOK, GoodIsBase, OkuriKeyTyped, StartConversionOK
<1>6. more \in EngineState /\ more.stack = s.stack /\ more.phase = Okuri(p.midashi, kana)
  BY <1>1, <1>3, OkuriganaPhase DEF EngineState
<1> HIDE DEF more
<1>7. ResultOK(R(more, Preedit(more)))
  BY <1>1, <1>3, <1>6, OkuriganaStep, RedrawOK
<1>8. QED
  BY <1>4, <1>5, <1>7

(* and so any key.                                                         *)
LEMMA HandleOkuriOK ==
  ASSUME NEW s, Good(s), s.phase.tag = "Okuri", NEW e \in Events, NEW d \in Answers
  PROVE  ResultOK(HandleOkuri(s, e, d))
<1>1. ResultOK(R(ToHiragana(s), ClearPreedit))
  BY GoodIsBase, ToHiraganaOK, QuietOutputs, ResultIsOK
<1>2. ResultOK(R(s, Passthrough))
  BY QuietOutputs, ResultIsOK
<1>3. ResultOK(OkuriBackSpace(s, d))
  BY OkuriBackSpaceOK
<1>4. Printable(e) => ResultOK(OkuriLetter(s, Lower[CharOf(e)], d))
  BY CharTyped, LowerIsLetter, OkuriLetterOK
<1>5. QED
  BY <1>1, <1>2, <1>3, <1>4 DEF HandleOkuri

(* The upper-case letter that starts an okurigana.                         *)
LEMMA MidashiOkuriOK ==
  ASSUME NEW s, Reading(s), NEW e \in Events, e.key \in Letter, NEW d \in Answers
  PROVE  ResultOK(MidashiOkuri(s, e, d))
<1> DEFINE t == Transition(s.kana, Lower[e.key], "Hiragana")
           u == [s EXCEPT !.phase = Okuri(s.phase.kana, <<>>)]
           v == [s EXCEPT !.phase = Okuri(s.phase.kana \o t.output, <<>>), !.kana = t.next]
<1>1. s \in EngineState /\ s.phase.kana \in Text /\ s.kana \in Roman /\ Base(s)
  BY ReadingFields, GoodIsBase DEF Reading
<1>2. t \in TransitionResult
  BY <1>1, LowerIsLetter, TransitionTyped DEF KanaMode
<1>3. s.phase.kana \o t.output \in Text /\ t.next \in Roman
  BY <1>1, <1>2, ConcatProperties DEF Text, TransitionResult
<1>4. MidashiOkuri(s, e, d)
        = IF s.kana # <<>> /\ t.kind = "Ok" /\ t.output # <<>> /\ t.next # <<>>
          THEN R(NoGhost(v), Preedit(NoGhost(v)))
          ELSE HandleOkuri(NoGhost(u), e, d)
  BY DEF MidashiOkuri
<1> HIDE DEF t
<1>5. u \in EngineState /\ u.stack = s.stack /\ u.phase = Okuri(s.phase.kana, <<>>)
  BY <1>1, EmptyTyped, OkuriganaPhase DEF EngineState
<1>6. v \in EngineState /\ v.stack = s.stack /\ v.phase = Okuri(s.phase.kana \o t.output, <<>>)
  BY <1>1, <1>3, EmptyTyped, OkuriganaPhase DEF EngineState
<1> HIDE DEF u, v
<1>7. Good(NoGhost(u)) /\ NoGhost(u).phase.tag = "Okuri"
  <2>1. Good(u)
    BY <1>1, <1>5, EmptyTyped, OkuriganaStep
  <2>2. NoGhost(u).phase = u.phase
    BY <1>5 DEF NoGhost, EngineState
  <2>3. QED
    BY <1>1, <1>5, <2>1, <2>2, EmptyTyped, NoGhostOK, OkuriganaPhase
<1>8. Good(NoGhost(v))
  BY <1>1, <1>3, <1>6, EmptyTyped, OkuriganaStep, NoGhostOK
<1>9. QED
  BY <1>4, <1>7, <1>8, HandleOkuriOK, RedrawOK

(* So every key of a reading keeps the invariant.                          *)
LEMMA HandleMidashiOK ==
  ASSUME NEW s, Reading(s), NEW e \in Events, NEW d \in Answers
  PROVE  ResultOK(HandleMidashi(s, e, d))
<1> DEFINE ch == CharOf(e)
<1>1. Good(s) /\ Base(s) /\ s.phase.kana \in Text
  BY ReadingFields, GoodIsBase DEF Reading
<1>2. /\ ResultOK(MidashiCancel(s)) /\ ResultOK(MidashiBackSpace(s, d))
      /\ ResultOK(MidashiReturn(s)) /\ ResultOK(MidashiSpace(s, d))
      /\ ResultOK(MidashiTab(s, d)) /\ ResultOK(MidashiHalfWidth(s))
  BY <1>1, MidashiCancelOK, MidashiBackSpaceOK, MidashiReturnOK, MidashiSpaceOK, MidashiTabOK,
     MidashiHalfWidthOK
<1>3. ResultOK(R(s, Passthrough))
  BY <1>1, QuietOutputs, ResultIsOK
<1>4. ASSUME Printable(e)
      PROVE  /\ ResultOK(MidashiTrigger(s, FlushN(s.phase.kana, s.phase.roman), ch, d))
             /\ ResultOK(MidashiAffix(s, d))
             /\ ResultOK(MidashiDigit(s, s.phase.kana, ch))
             /\ ResultOK(MidashiLetter(s, Lower[ch], e.ctrl, d))
             /\ e.key # "Space" => ResultOK(MidashiOkuri(s, e, d))
  <2>1. ch \in Letter /\ (e.key # "Space" => e.key \in Letter)
    BY <1>4, CharTyped
  <2> HIDE DEF ch
  <2>2. ResultOK(MidashiTrigger(s, FlushN(s.phase.kana, s.phase.roman), ch, d))
    BY <1>1, <2>1, FlushNTyped, MidashiTriggerOK
  <2>3. ResultOK(MidashiAffix(s, d)) /\ ResultOK(MidashiDigit(s, s.phase.kana, ch))
    BY <1>1, <2>1, MidashiAffixOK, MidashiDigitOK
  <2>4. ResultOK(MidashiLetter(s, Lower[ch], e.ctrl, d))
    BY <2>1, LowerIsLetter, MidashiLetterOK
  <2>5. e.key # "Space" => ResultOK(MidashiOkuri(s, e, d))
    BY <2>1, MidashiOkuriOK
  <2>6. QED
    BY <2>2, <2>3, <2>4, <2>5
<1>5. QED
  BY <1>2, <1>3, <1>4 DEF HandleMidashi
----------------------------------------------------------------------------
(* Abbreviations, code input and direct input.                             *)
LEMMA HandleAbbrevOK ==
  ASSUME NEW s, Good(s), s.phase.tag = "Abbrev", NEW e \in Events, NEW d \in Answers
  PROVE  ResultOK(HandleAbbrev(s, e, d))
<1> DEFINE buf == s.phase.buf
           Typing(b) == LET t == [s EXCEPT !.phase = Abbrev(b)] IN R(t, Preedit(t))
           leave == [s EXCEPT !.phase = Kana(s.display)]
<1>1. /\ s \in EngineState /\ Base(s) /\ buf \in Text /\ s.kana = <<>> /\ s.display \in KanaMode
  BY PhaseFields, GoodIsBase DEF Good, PendingOnce, EngineState, KanaMode
<1>2. \A b \in Text : ResultOK(Typing(b))
  <2> TAKE b \in Text
  <2> DEFINE t == [s EXCEPT !.phase = Abbrev(b)]
  <2>1. /\ t \in EngineState /\ t.stack = s.stack /\ t.kana = <<>> /\ t.phase.tag = "Abbrev"
    BY <1>1, AbbrevingPhase DEF EngineState
  <2> HIDE DEF t
  <2>2. ResultOK(R(t, Preedit(t)))
    BY <1>1, <2>1, IdleStep, RedrawOK
  <2>3. QED
    BY <2>2 DEF t
<1>3. Good(leave)
  <2>1. leave \in EngineState /\ leave.stack = s.stack /\ leave.phase = Kana(s.display)
    BY <1>1, KanaPhase DEF EngineState
  <2>2. QED
    BY <1>1, <2>1, KanaStep
<1>4. ResultOK(StartConversion(s, buf, <<>>, <<>>, d))
  BY <1>1, EmptyTyped, StartConversionOK
<1>5. ResultOK(R(leave, ClearPreedit)) /\ ResultOK(R(s, Preedit(s)))
  BY <1>3, QuietOutputs, RedrawOK, ResultIsOK
<1>6. ResultOK(R(leave, Commit(buf))) /\ ResultOK(R(leave, [Commit(buf) EXCEPT !.pass = TRUE]))
  BY <1>1, <1>3, CommitOK, PassedOK, ResultIsOK
<1>7. buf # <<>> => ResultOK(Typing(Front(buf)))
  BY <1>1, <1>2, FrontTyped DEF Text
<1>8. e.key \in Letter => ResultOK(Typing(Append(buf, e.key)))
  BY <1>1, <1>2, OneLetter, AppendProperties DEF Text
<1>9. HandleAbbrev(s, e, d)
        = IF e.key = "Escape" \/ (e.key = "BackSpace" /\ buf = <<>>) THEN R(leave, ClearPreedit)
          ELSE IF e.key = "BackSpace" THEN Typing(Front(buf))
          ELSE IF e.key = "Space" /\ buf # <<>> THEN StartConversion(s, buf, <<>>, <<>>, d)
          ELSE IF IsCtrl(e, "j") THEN R(leave, Commit(buf))
          ELSE IF e.key = "Return" THEN R(leave, [Commit(buf) EXCEPT !.pass = TRUE])
          ELSE IF e.key \in Letter /\ ~e.ctrl THEN Typing(Append(buf, e.key))
          ELSE R(s, Preedit(s))
  BY DEF HandleAbbrev
<1> HIDE DEF buf, Typing, leave
<1>10. QED
  BY <1>4, <1>5, <1>6, <1>7, <1>8, <1>9

(* every key of a code point,                                              *)
LEMMA HandleCodeInputOK ==
  ASSUME NEW s, Good(s), s.phase.tag = "CodeInput", NEW e \in Events
  PROVE  ResultOK(HandleCodeInput(s, e))
<1> DEFINE buf    == s.phase.buf
           prefix == s.phase.prefix
           Typing(p, b) == LET t == [s EXCEPT !.phase = CodeInput(p, b)] IN R(t, Preedit(t))
           decoded == IF buf \in DOMAIN Decode[prefix] THEN Decode[prefix][buf] ELSE <<>>
<1>1. /\ s \in EngineState /\ Base(s) /\ buf \in Roman /\ prefix \in {"Jis", "Unicode"}
      /\ s.kana = <<>>
  BY PhaseFields, GoodIsBase DEF Good, PendingOnce, KanaMode
<1>2. \A p \in {"Jis", "Unicode"}, b \in Roman : ResultOK(Typing(p, b))
  <2> TAKE p \in {"Jis", "Unicode"}, b \in Roman
  <2> DEFINE t == [s EXCEPT !.phase = CodeInput(p, b)]
  <2>1. t \in EngineState /\ t.stack = s.stack /\ t.kana = <<>> /\ t.phase.tag = "CodeInput"
    BY <1>1, CodeInputPhase DEF EngineState
  <2> HIDE DEF t
  <2>2. ResultOK(R(t, Preedit(t)))
    BY <1>1, <2>1, IdleStep, RedrawOK
  <2>3. QED
    BY <2>2 DEF t
<1>3. decoded \in Text
  BY <1>1, EngineAssumption, EmptyTyped DEF EngineAssumption
<1>4. ResultOK(R(BackToKana(s), ClearPreedit)) /\ ResultOK(R(BackToKana(s), Commit(decoded)))
  BY <1>1, <1>3, BackToKanaOK, QuietOutputs, CommitOK, ResultIsOK
<1>5. ResultOK(R(s, Preedit(s)))
  BY RedrawOK
<1>6. buf # <<>> => ResultOK(Typing(prefix, Front(buf)))
  BY <1>1, <1>2, FrontTyped DEF Roman
<1>7. e.key \in Hex => ResultOK(Typing(prefix, Append(buf, Lower[e.key])))
  <2>1. e.key \in Hex => Lower[e.key] \in Letter
    BY LowerIsLetter, EngineAssumption DEF EngineAssumption
  <2>2. e.key \in Hex => Append(buf, Lower[e.key]) \in Roman
    BY <1>1, <2>1, AppendProperties DEF Roman
  <2>3. QED
    BY <1>1, <1>2, <2>2
<1>8. ResultOK(Typing("Jis", <<>>)) /\ ResultOK(Typing("Unicode", <<>>))
  BY <1>2, EmptyTyped
<1>9. HandleCodeInput(s, e)
        = IF e.key = "Escape" THEN R(BackToKana(s), ClearPreedit)
          ELSE IF e.key = "BackSpace"
               THEN IF buf # <<>> THEN Typing(prefix, Front(buf))
                    ELSE IF prefix = "Unicode" THEN Typing("Jis", <<>>)
                    ELSE R(BackToKana(s), ClearPreedit)
          ELSE IF prefix = "Jis" /\ buf = <<>> /\ e.key = "u" THEN Typing("Unicode", <<>>)
          ELSE IF e.key = "Return" \/ IsCtrl(e, "j") THEN R(BackToKana(s), Commit(decoded))
          ELSE IF e.key \in Hex /\ ~e.ctrl THEN Typing(prefix, Append(buf, Lower[e.key]))
          ELSE R(s, Preedit(s))
  BY DEF HandleCodeInput
<1> HIDE DEF buf, prefix, Typing, decoded
<1>10. QED
  BY <1>4, <1>5, <1>6, <1>7, <1>8, <1>9

(* every key of direct input,                                              *)
LEMMA HandleAsciiOK ==
  ASSUME NEW s, Good(s), NEW e \in Events
  PROVE  ResultOK(HandleAscii(s, e))
<1> DEFINE t == [s EXCEPT !.phase = Kana("Hiragana")]
<1>1. t \in EngineState /\ t.stack = s.stack /\ t.phase = Kana("Hiragana") /\ "Hiragana" \in KanaMode
  BY GoodIsBase, KanaPhase DEF EngineState, KanaMode
<1> HIDE DEF t
<1>2. ResultOK(R(t, ClearPreedit)) /\ ResultOK(R(s, Passthrough))
  BY <1>1, GoodIsBase, KanaStep, QuietOutputs, ResultIsOK
<1>3. QED
  BY <1>2 DEF HandleAscii, t

(* and every key of wide input.                                            *)
LEMMA HandleWideAsciiOK ==
  ASSUME NEW s, Good(s), s.phase.tag = "WideAscii", NEW e \in Events
  PROVE  ResultOK(HandleWideAscii(s, e))
<1> DEFINE t == [s EXCEPT !.phase = Kana("Hiragana")]
           u == [s EXCEPT !.phase = Ascii]
<1>1. s \in EngineState /\ Base(s) /\ s.kana = <<>>
  BY GoodIsBase DEF Good, PendingOnce, KanaMode
<1>2. t \in EngineState /\ t.stack = s.stack /\ t.phase = Kana("Hiragana") /\ "Hiragana" \in KanaMode
  BY <1>1, KanaPhase DEF EngineState, KanaMode
<1>3. u \in EngineState /\ u.stack = s.stack /\ u.kana = <<>> /\ u.phase.tag = "Ascii"
  BY <1>1, AsciiPhase DEF EngineState
<1> HIDE DEF t, u
<1>4. Good(t) /\ Good(u)
  BY <1>1, <1>2, <1>3, KanaStep, IdleStep
<1>5. OutputOK([ClearPreedit EXCEPT !.pass = TRUE])
  BY QuietOutputs, PassedOK
<1>6. Printable(e) => OutputOK([Nothing EXCEPT !.text = Wide[CharOf(e)]])
  <2>1. Printable(e) => Wide[CharOf(e)] \in Text
    BY CharTyped, EngineAssumption DEF EngineAssumption
  <2>2. QED
    BY <2>1, QuietOutputs DEF OutputOK
<1>7. ResultOK(R(t, ClearPreedit)) /\ ResultOK(R(s, Passthrough))
  BY <1>4, QuietOutputs, ResultIsOK
<1>8. ResultOK(R(IF ViEscape THEN u ELSE s, [ClearPreedit EXCEPT !.pass = TRUE]))
  BY <1>4, <1>5, ResultIsOK
<1>9. Printable(e) => ResultOK(R(s, [Nothing EXCEPT !.text = Wide[CharOf(e)]]))
  BY <1>6, ResultIsOK
<1>10. QED
  BY <1>7, <1>8, <1>9 DEF HandleWideAscii, t, u
----------------------------------------------------------------------------
(* Kana modes.                                                             *)
KanaFields(s) == Good(s) /\ s.phase.tag \in KanaMode

(* A step inside a kana mode is good whatever romaji it leaves.            *)
LEMMA KanaStepFrom ==
  ASSUME NEW s, KanaFields(s), NEW t \in EngineState, t.stack = s.stack, t.phase = s.phase
  PROVE  Good(t)
<1>1. s.phase.tag \notin {"Selecting", "PurgeConfirm"}
  BY DEF KanaFields, KanaMode
<1>2. QED
  BY <1>1, GoodIsBase, PlainStep DEF KanaFields, PendingOnce, KanaMode

(* An output with text.                                                    *)
LEMMA TextOutput ==
  ASSUME NEW text \in Text
  PROVE  OutputOK([Nothing EXCEPT !.text = text])
  BY QuietOutputs DEF OutputOK

(* A letter with no romaji pending,                                        *)
LEMMA FeedFromStartOK ==
  ASSUME NEW s, KanaFields(s), NEW ch \in Letter
  PROVE  ResultOK(FeedFromStart(s, ch))
<1> DEFINE t   == Transition(<<>>, ch, s.phase.tag)
           fed == [s EXCEPT !.kana = t.next]
<1>1. t \in TransitionResult
  BY EmptyTyped, TransitionTyped DEF KanaFields
<1>2. FeedFromStart(s, ch)
        = IF t.kind = "Ok" THEN R(fed, Then([Nothing EXCEPT !.text = t.output], Preedit(fed)))
                           ELSE R(fed, Commit(<<ch>>))
  BY DEF FeedFromStart
<1> HIDE DEF t
<1>3. fed \in EngineState /\ fed.stack = s.stack /\ fed.phase = s.phase
  BY <1>1, GoodIsBase DEF KanaFields, TransitionResult, EngineState
<1> HIDE DEF fed
<1>4. Good(fed)
  BY <1>3, KanaStepFrom
<1>5. OutputOK(Then([Nothing EXCEPT !.text = t.output], Preedit(fed)))
  BY <1>1, TextOutput, PreeditOK, ThenOK DEF TransitionResult
<1>6. OutputOK(Commit(<<ch>>))
  BY OneLetter, CommitOK
<1>7. QED
  BY <1>2, <1>4, <1>5, <1>6, ResultIsOK

(* and a letter with some, which is retried from the start.                *)
LEMMA FeedKanaOK ==
  ASSUME NEW s, KanaFields(s), NEW ch \in Letter
  PROVE  ResultOK(FeedKana(s, ch))
<1> DEFINE t     == Transition(s.kana, ch, s.phase.tag)
           fed   == [s EXCEPT !.kana = t.next]
           idle  == [s EXCEPT !.kana = <<>>]
           again == FeedFromStart(idle, ch)
<1>1. s \in EngineState /\ s.kana \in Roman
  BY GoodIsBase DEF KanaFields, EngineState
<1>2. t \in TransitionResult
  BY <1>1, TransitionTyped DEF KanaFields
<1>3. FeedKana(s, ch)
        = IF s.kana = <<>> THEN FeedFromStart(s, ch)
          ELSE IF t.kind = "Ok"
               THEN R(fed, Then([Nothing EXCEPT !.text = t.output], Preedit(fed)))
          ELSE R(again.eng, Then([Nothing EXCEPT !.text = t.output], again.out))
  BY DEF FeedKana
<1> HIDE DEF t
<1>4. fed \in EngineState /\ fed.stack = s.stack /\ fed.phase = s.phase
  BY <1>1, <1>2 DEF TransitionResult, EngineState
<1>5. idle \in EngineState /\ idle.stack = s.stack /\ idle.phase = s.phase
  BY <1>1, EmptyTyped DEF EngineState
<1> HIDE DEF fed, idle
<1>6. Good(fed) /\ KanaFields(idle)
  BY <1>4, <1>5, KanaStepFrom DEF KanaFields
<1>7. ResultOK(again)
  BY <1>6, FeedFromStartOK
<1> HIDE DEF again
<1>8. OutputOK([Nothing EXCEPT !.text = t.output])
  BY <1>2, TextOutput DEF TransitionResult
<1>9. ResultOK(R(fed, Then([Nothing EXCEPT !.text = t.output], Preedit(fed))))
  BY <1>6, <1>8, PreeditOK, ThenOK, ResultIsOK
<1>10. ResultOK(R(again.eng, Then([Nothing EXCEPT !.text = t.output], again.out)))
  BY <1>7, <1>8, ThenOK, ResultIsOK DEF ResultOK
<1>11. QED
  BY <1>3, <1>9, <1>10, FeedFromStartOK

(* The keys that change mode.                                              *)
LEMMA KanaModeKeyOK ==
  ASSUME NEW s, KanaFields(s), s.kana = <<>>, NEW ch \in Letter
  PROVE  ResultOK(KanaModeKey(s, ch))
<1> DEFINE ascii  == [s EXCEPT !.phase = Ascii]
           wide   == [s EXCEPT !.phase = WideAscii]
           mode   == IF s.phase.tag = "Hiragana" THEN "Katakana" ELSE "Hiragana"
           kana   == [s EXCEPT !.phase = Kana(mode)]
           abbrev == [s EXCEPT !.phase = Abbrev(<<>>), !.display = s.phase.tag, !.abbrev = TRUE]
<1>1. s \in EngineState /\ Base(s) /\ s.phase.tag \in KanaMode /\ mode \in KanaMode
  BY GoodIsBase DEF KanaFields, KanaMode
<1>2. ascii \in EngineState /\ ascii.stack = s.stack /\ ascii.kana = <<>> /\ ascii.phase.tag = "Ascii"
  BY <1>1, AsciiPhase DEF EngineState
<1>3. wide \in EngineState /\ wide.stack = s.stack /\ wide.kana = <<>> /\ wide.phase.tag = "WideAscii"
  BY <1>1, WideAsciiPhase DEF EngineState
<1>4. /\ abbrev \in EngineState /\ abbrev.stack = s.stack /\ abbrev.kana = <<>>
      /\ abbrev.phase.tag = "Abbrev"
  BY <1>1, EmptyTyped, AbbrevingPhase DEF EngineState
<1>5. KanaModeKey(s, ch)
        = IF ch \in AsciiKeys THEN R(ascii, ClearPreedit)
          ELSE IF ch \in WideKeys THEN R(wide, ClearPreedit)
          ELSE IF ch \in AbbrevKeys THEN R(abbrev, Preedit(abbrev))
          ELSE R(kana, ClearPreedit)
  BY DEF KanaModeKey
<1> HIDE DEF mode
<1>6. kana \in EngineState /\ kana.stack = s.stack /\ kana.phase = Kana(mode)
  BY <1>1, KanaPhase DEF EngineState
<1> HIDE DEF ascii, wide, kana, abbrev
<1>7. Good(ascii) /\ Good(wide) /\ Good(abbrev) /\ Good(kana)
  BY <1>1, <1>2, <1>3, <1>4, <1>6, IdleStep, KanaStep
<1>8. QED
  BY <1>5, <1>7, QuietOutputs, RedrawOK, ResultIsOK

(* So every key of a kana mode keeps the invariant.                        *)
LEMMA HandleKanaOK ==
  ASSUME NEW s, KanaFields(s), NEW e \in Events, NEW d \in Answers
  PROVE  ResultOK(HandleKana(s, e, d))
<1> DEFINE ch   == CharOf(e)
           mode == s.phase.tag
           idle == [s EXCEPT !.kana = <<>>]
           other == IF mode = "HalfWidth" THEN "Hiragana" ELSE "HalfWidth"
           half == [idle EXCEPT !.phase = Kana(other)]
           esc  == [idle EXCEPT !.phase = Ascii]
           popped == [s EXCEPT !.kana = Front(s.kana)]
           midashi == [s EXCEPT !.phase = Midashi(<<>>, <<>>), !.display = mode, !.abbrev = FALSE]
           code == [s EXCEPT !.phase = CodeInput("Jis", <<>>), !.display = mode]
<1>1. /\ s \in EngineState /\ Base(s) /\ Good(s) /\ mode \in KanaMode /\ s.kana \in Roman
      /\ other \in KanaMode
  BY GoodIsBase DEF KanaFields, KanaMode, EngineState
<1>2. ResultOK(R(ToHiragana(s), ClearPreedit)) /\ ResultOK(R(s, Passthrough))
  BY <1>1, ToHiraganaOK, QuietOutputs, ResultIsOK
<1>3. idle \in EngineState /\ idle.stack = s.stack /\ idle.phase = s.phase /\ idle.kana = <<>>
  BY <1>1, EmptyTyped DEF EngineState
<1> HIDE DEF idle
<1>4. Good(idle)
  BY <1>3, KanaStepFrom
<1>5. /\ half \in EngineState /\ half.stack = s.stack /\ half.phase = Kana(other)
  BY <1>1, <1>3, KanaPhase DEF EngineState
<1>6. esc \in EngineState /\ esc.stack = s.stack /\ esc.kana = <<>> /\ esc.phase.tag = "Ascii"
  BY <1>3, AsciiPhase DEF EngineState
<1>7. s.kana # <<>> => Front(s.kana) \in Roman
  BY <1>1, FrontTyped DEF Roman
<1>8. s.kana # <<>> => popped \in EngineState /\ popped.stack = s.stack /\ popped.phase = s.phase
  BY <1>1, <1>7 DEF EngineState
<1>9. s.kana = <<>> =>
        /\ midashi \in EngineState /\ midashi.stack = s.stack /\ midashi.kana = <<>>
        /\ midashi.phase = Midashi(<<>>, <<>>)
  BY <1>1, EmptyTyped, ReadingPhase DEF EngineState
<1>10. s.kana = <<>> =>
        /\ code \in EngineState /\ code.stack = s.stack /\ code.kana = <<>>
        /\ code.phase.tag = "CodeInput"
  BY <1>1, EmptyTyped, CodeInputPhase DEF EngineState
<1>11. HandleKana(s, e, d)
        = IF IsCtrl(e, "j") THEN R(ToHiragana(s), ClearPreedit)
          ELSE IF IsCtrl(e, "q") THEN R(half, ClearPreedit)
          ELSE IF e.key = "Escape"
               THEN R(IF ViEscape THEN esc ELSE idle, [ClearPreedit EXCEPT !.pass = TRUE])
          ELSE IF e.key = "BackSpace" /\ s.kana # <<>> THEN R(popped, Preedit(popped))
          ELSE IF ~Printable(e) THEN R(s, Passthrough)
          ELSE IF e.ctrl THEN R(idle, Passthrough)
          ELSE IF s.kana = <<>> /\ ch \in ModeKeys THEN KanaModeKey(s, ch)
          ELSE IF s.kana = <<>> /\ Upper(ch) THEN HandleMidashi(midashi, e, d)
          ELSE IF s.kana = <<>> /\ ch = "\\" THEN R(code, Preedit(code))
          ELSE FeedKana(s, ch)
  BY DEF HandleKana, idle
<1> HIDE DEF half, esc, popped, midashi, code, other
<1>12. Good(half) /\ Good(esc)
  BY <1>1, <1>5, <1>6, KanaStep, IdleStep
<1>13. s.kana # <<>> => Good(popped)
  BY <1>8, KanaStepFrom
<1>14. s.kana = <<>> => Reading(midashi)
  BY <1>1, <1>9, EmptyTyped, ReadingStep, ReadingPhase DEF Reading
<1>15. s.kana = <<>> => Good(code)
  BY <1>1, <1>10, IdleStep
<1>16. OutputOK([ClearPreedit EXCEPT !.pass = TRUE])
  BY QuietOutputs, PassedOK
<1>17. /\ ResultOK(R(half, ClearPreedit)) /\ ResultOK(R(idle, Passthrough))
       /\ ResultOK(R(IF ViEscape THEN esc ELSE idle, [ClearPreedit EXCEPT !.pass = TRUE]))
  BY <1>4, <1>12, <1>16, QuietOutputs, ResultIsOK
<1>18. s.kana # <<>> => ResultOK(R(popped, Preedit(popped)))
  BY <1>13, RedrawOK
<1>19. s.kana = <<>> => ResultOK(R(code, Preedit(code))) /\ ResultOK(HandleMidashi(midashi, e, d))
  BY <1>14, <1>15, RedrawOK, HandleMidashiOK
<1>20. Printable(e) => /\ ResultOK(FeedKana(s, ch))
                       /\ s.kana = <<>> => ResultOK(KanaModeKey(s, ch))
  BY CharTyped, FeedKanaOK, KanaModeKeyOK
<1> HIDE DEF ch, mode
<1>21. QED
  BY <1>2, <1>11, <1>17, <1>18, <1>19, <1>20

(* ---- the other phases, and every key press ---- *)

Choosing(s) == Good(s) /\ s.phase.tag = "Selecting"

(* What a state that offers candidates holds.                              *)
LEMMA ChoosingFields ==
  ASSUME NEW s, Choosing(s)
  PROVE  /\ s \in EngineState /\ Base(s) /\ s.kana = <<>> /\ s.display \in KanaMode
         /\ s.phase \in SelectingPhase /\ s.phase.cands \in Seq(Candidate)
         /\ s.phase.index \in Nat /\ s.phase.index < Len(s.phase.cands)
         /\ s.phase.midashi \in Text /\ s.phase.okuri \in Text /\ s.phase.okuriKey \in Text
<1>1. s \in EngineState /\ Base(s) /\ s.phase \in SelectingPhase /\ s.display \in KanaMode
  BY GoodIsBase, PhaseFields DEF Choosing, EngineState
<1>2. s.kana = <<>> /\ s.phase.index < Len(s.phase.cands)
  BY DEF Choosing, Good, PendingOnce, FocusInRange, KanaMode
<1>3. QED
  BY <1>1, <1>2 DEF SelectingPhase

(* Moving the focus inside the list.                                       *)
LEMMA AtIndexOK ==
  ASSUME NEW s, Choosing(s), NEW index \in Nat, index < Len(s.phase.cands)
  PROVE  ResultOK(AtIndex(s, index))
<1> DEFINE p == [s.phase EXCEPT !.index = index]
           t == [s EXCEPT !.phase = p]
<1>1. /\ s \in EngineState /\ Base(s) /\ s.kana = <<>> /\ s.phase \in SelectingPhase
  BY ChoosingFields
<1>2. p \in SelectingPhase /\ p.cands = s.phase.cands /\ p.index = index /\ p.tag = "Selecting"
  BY <1>1 DEF SelectingPhase
<1>3. p \in Phases
  BY <1>2 DEF Phases
<1>4. AtIndex(s, index) = R(t, [Preedit(t) EXCEPT !.window = ListingWindow(index)])
  BY DEF AtIndex
<1> HIDE DEF p
<1>5. t \in EngineState /\ t.stack = s.stack /\ t.kana = <<>> /\ t.phase = p
  BY <1>1, <1>3 DEF EngineState
<1>6. Good(t)
  BY <1>1, <1>2, <1>5 DEF Good, Base, CursorInBuffer, FocusInRange, PendingOnce
<1> HIDE DEF t
<1>7. QED
  BY <1>4, <1>6, PreeditOK, ListingWindowTyped, WindowOK, ResultIsOK

(* Back to the reading.                                                    *)
LEMMA CancelSelectionOK ==
  ASSUME NEW s, Choosing(s), NEW d \in Answers
  PROVE  ResultOK(CancelSelection(s, d))
<1> DEFINE back == [s EXCEPT !.phase = Midashi(s.phase.midashi, <<>>), !.kana = <<>>,
                             !.trigger = <<>>,
                             !.completion = Completion(s.phase.midashi, d)]
<1>1. s \in EngineState /\ Base(s) /\ s.phase.midashi \in Text
  BY ChoosingFields
<1>2. /\ back \in EngineState /\ back.stack = s.stack /\ back.kana = <<>>
      /\ back.phase = Midashi(s.phase.midashi, <<>>)
  BY <1>1, EmptyTyped, ReadingPhase, CompletionTyped DEF EngineState
<1>3. CancelSelection(s, d) = R(back, [Preedit(back) EXCEPT !.window = "hidden"])
  BY DEF CancelSelection
<1> HIDE DEF back
<1>4. Good(back)
  BY <1>1, <1>2, EmptyTyped, ReadingStep
<1>5. "hidden" \in Drawn
  BY DEF Drawn
<1>6. QED
  BY <1>3, <1>4, <1>5, PreeditOK, WindowOK, ResultIsOK

(* The index before the focus never leaves the list.                       *)
LEMMA PreviousIndexInRange ==
  ASSUME NEW index \in Nat, index # 0
  PROVE  PreviousIndex(index) \in Nat /\ PreviousIndex(index) <= index
<1>1. InlineCount \in Nat /\ Len(SelectionKeys) \in Nat
  BY EngineAssumption DEF EngineAssumption
<1>2. QED
  BY <1>1 DEF PreviousIndex, Listing

(* Back one candidate or one page.                                         *)
LEMMA SelectPreviousOK ==
  ASSUME NEW s, Choosing(s), s.phase.index # 0
  PROVE  ResultOK(SelectPrevious(s))
<1> DEFINE i == s.phase.index
           j == PreviousIndex(i)
           r == AtIndex(s, j)
           o == [r.out EXCEPT !.window = "hidden"]
<1>1. i \in Nat /\ i < Len(s.phase.cands) /\ s.phase.cands \in Seq(Candidate)
  BY ChoosingFields
<1>2. j \in Nat /\ j <= i
  BY <1>1, PreviousIndexInRange
<1>3. Len(s.phase.cands) \in Nat
  BY <1>1
<1>4. SelectPrevious(s) = IF Listing(i) /\ ~Listing(j)
                          THEN [r EXCEPT !.out.window = "hidden"] ELSE r
  BY DEF SelectPrevious
<1> HIDE DEF i, j
<1>5. j < Len(s.phase.cands)
  BY <1>1, <1>2, <1>3
<1>6. ResultOK(r)
  BY <1>2, <1>5, AtIndexOK
<1>7. r = R(r.eng, r.out) /\ [r EXCEPT !.out.window = "hidden"] = R(r.eng, o)
  BY DEF AtIndex, R
<1>8. OutputOK(o) /\ Good(r.eng)
  BY <1>6, WindowOK DEF ResultOK, Drawn
<1> HIDE DEF r, o
<1>9. QED
  BY <1>4, <1>6, <1>7, <1>8, ResultIsOK

(* A registration opened after the last candidate.                         *)
LEMMA EnterRegisterFromSelectingOK ==
  ASSUME NEW s, Choosing(s)
  PROVE  ResultOK(EnterRegisterFromSelecting(s))
<1> DEFINE p == s.phase
           t == [s EXCEPT !.trigger = <<>>]
           reg == EnterRegister(t, p.midashi, p.okuriKey, p.okuri)
<1>1. /\ s \in EngineState /\ Base(s)
      /\ p.midashi \in Text /\ p.okuriKey \in Text /\ p.okuri \in Text
  BY ChoosingFields
<1>2. t \in EngineState /\ t.stack = s.stack
  BY <1>1, EmptyTyped DEF EngineState
<1>3. Base(t)
  BY <1>1, <1>2 DEF Base, CursorInBuffer
<1>4. EnterRegisterFromSelecting(s) = R(reg, [Preedit(reg) EXCEPT !.window = "hidden"])
  BY DEF EnterRegisterFromSelecting
<1> HIDE DEF t, p
<1>5. Good(reg)
  BY <1>1, <1>3, EnterRegisterOK
<1> HIDE DEF reg
<1>6. "hidden" \in Drawn
  BY DEF Drawn
<1>7. QED
  BY <1>4, <1>5, <1>6, PreeditOK, WindowOK, ResultIsOK

(* On to the next candidate or page, or into a registration.               *)
LEMMA SelectNextOK ==
  ASSUME NEW s, Choosing(s)
  PROVE  ResultOK(SelectNext(s))
<1> DEFINE next == s.phase.index + (IF Listing(s.phase.index) THEN Len(SelectionKeys) ELSE 1)
<1>1. s.phase.index \in Nat /\ Len(s.phase.cands) \in Nat /\ Len(SelectionKeys) \in Nat
  BY ChoosingFields, EngineAssumption DEF EngineAssumption
<1>2. next \in Nat
  BY <1>1
<1>3. SelectNext(s) = IF next >= Len(s.phase.cands) THEN EnterRegisterFromSelecting(s)
                                                   ELSE AtIndex(s, next)
  BY DEF SelectNext
<1> HIDE DEF next
<1>4. CASE next >= Len(s.phase.cands)
  BY <1>3, <1>4, EnterRegisterFromSelectingOK
<1>5. CASE ~(next >= Len(s.phase.cands))
  BY <1>1, <1>2, <1>3, <1>5, AtIndexOK
<1>6. QED
  BY <1>4, <1>5

(* A selection key picks a candidate of the list.                          *)
LEMMA PickedInRange ==
  ASSUME NEW s, Choosing(s), NEW ch, NEW i \in PickedBy(s.phase, ch)
  PROVE  i \in Nat /\ i < Len(s.phase.cands)
<1>1. s.phase.index \in Nat /\ Len(s.phase.cands) \in Nat
  BY ChoosingFields
<1>2. i \in s.phase.index .. (Len(s.phase.cands) - 1)
  BY DEF PickedBy
<1>3. QED
  BY <1>1, <1>2

(* An output changed inside its result.                                    *)
LEMMA OutputChanged ==
  ASSUME NEW r, NEW s, NEW o, r = R(s, o)
  PROVE  /\ [r EXCEPT !.out.del = TRUE] = R(s, [o EXCEPT !.del = TRUE])
         /\ [r EXCEPT !.out.pass = TRUE] = R(s, [o EXCEPT !.pass = TRUE])
<1>1. r.out = o /\ \A x : [r EXCEPT !.out = x] = R(s, x)
  BY DEF R
<1>2. /\ [r EXCEPT !.out.del = TRUE] = [r EXCEPT !.out = [r.out EXCEPT !.del = TRUE]]
      /\ [r EXCEPT !.out.pass = TRUE] = [r EXCEPT !.out = [r.out EXCEPT !.pass = TRUE]]
  OBVIOUS
<1>3. QED
  BY <1>1, <1>2

(* So every key of a selection keeps the invariant.                        *)
LEMMA HandleSelectingOK ==
  ASSUME NEW s, Choosing(s), NEW e \in Events, NEW d \in Answers
  PROVE  ResultOK(HandleSelecting(s, e, d))
<1> DEFINE p  == s.phase
           ch == CharOf(e)
           picked    == IF Listing(p.index) /\ Printable(e) THEN PickedBy(p, ch) ELSE {}
           choice    == CHOOSE i \in picked : TRUE
           committed == CommitCandidate(s, p, p.index)
           suffix    == [committed.eng EXCEPT !.phase = Midashi(<<">">>, <<>>)]
           redone    == HandleKana(committed.eng, e, d)
           prompt    == PurgeConfirm(p, <<>>, s.display)
           purge     == [s EXCEPT !.phase = prompt]
<1>1. /\ s \in EngineState /\ Base(s) /\ s.kana = <<>> /\ s.display \in KanaMode
      /\ p \in SelectingPhase /\ p.index \in Nat /\ p.index < Len(p.cands)
  BY ChoosingFields
<1>2. /\ ResultOK(committed) /\ committed.eng.phase = Kana(s.display)
      /\ committed.eng.kana = <<>> /\ committed.eng.stack = s.stack
  BY <1>1, CommitCandidateOK
<1>3. committed = R(committed.eng, committed.out)
  BY DEF CommitCandidate, R
<1>4. /\ [committed EXCEPT !.out.del = TRUE]
           = R(committed.eng, [committed.out EXCEPT !.del = TRUE])
      /\ [committed EXCEPT !.out.pass = TRUE]
           = R(committed.eng, [committed.out EXCEPT !.pass = TRUE])
  <2> HIDE DEF committed
  <2>1. QED
    BY <1>3, OutputChanged
<1>5. picked # {} => ResultOK(CommitCandidate(s, p, choice))
  <2>1. SUFFICES ASSUME picked # {} PROVE ResultOK(CommitCandidate(s, p, choice))
    OBVIOUS
  <2>2. choice \in picked
    BY <2>1
  <2>3. choice \in PickedBy(p, ch)
    BY <2>2
  <2> HIDE DEF choice, picked
  <2>4. choice \in Nat /\ choice < Len(p.cands)
    BY <2>3, PickedInRange
  <2>5. QED
    BY <1>1, <2>4, CommitCandidateOK
<1>6. HandleSelecting(s, e, d)
        = IF e.key = "Escape" THEN CancelSelection(s, d)
          ELSE IF Printable(e) /\ ch \in CancelKeys
               THEN IF p.index = 0 THEN CancelSelection(s, d) ELSE SelectPrevious(s)
          ELSE IF e.key = "BackSpace" THEN R(committed.eng, [committed.out EXCEPT !.del = TRUE])
          ELSE IF e.key = "Return" THEN R(committed.eng, [committed.out EXCEPT !.pass = TRUE])
          ELSE IF IsCtrl(e, "j") THEN committed
          ELSE IF e.key = "Space" THEN SelectNext(s)
          ELSE IF picked # {} THEN CommitCandidate(s, p, choice)
          ELSE IF e.key = "X" /\ ~e.ctrl /\ ~Listing(p.index)
               THEN R(purge, [Preedit(purge) EXCEPT !.window = "hidden"])
          ELSE IF Printable(e) /\ ch \in Affix
               THEN R(suffix, Then(committed.out, Preedit(suffix)))
          ELSE IF Printable(e) /\ ~e.ctrl
               THEN R(redone.eng, Then(committed.out, redone.out))
          ELSE R(s, Passthrough)
  BY <1>4 DEF HandleSelecting
<1>7. prompt \in PurgePhase /\ prompt.tag = "PurgeConfirm" /\ prompt.sel = p
  BY <1>1, EmptyTyped DEF PurgeConfirm, PurgePhase
<1>8. prompt \in Phases
  BY <1>7 DEF Phases
<1> HIDE DEF committed, picked, choice, ch, prompt
<1>9. Good(committed.eng) /\ committed.eng \in EngineState /\ OutputOK(committed.out)
  BY <1>2, GoodIsBase DEF ResultOK
<1>10. /\ ResultOK(R(committed.eng, [committed.out EXCEPT !.del = TRUE]))
       /\ ResultOK(R(committed.eng, [committed.out EXCEPT !.pass = TRUE]))
  BY <1>9, PassedOK, ResultIsOK
<1>11. ResultOK(R(purge, [Preedit(purge) EXCEPT !.window = "hidden"]))
  <2>1. purge \in EngineState /\ purge.stack = s.stack /\ purge.kana = <<>> /\ purge.phase = prompt
    BY <1>1, <1>8 DEF EngineState
  <2>2. Good(purge)
    BY <1>1, <1>7, <2>1 DEF Good, Base, CursorInBuffer, FocusInRange, PendingOnce
  <2> HIDE DEF purge
  <2>3. "hidden" \in Drawn
    BY DEF Drawn
  <2>4. QED
    BY <2>2, <2>3, PreeditOK, WindowOK, ResultIsOK
<1>12. ResultOK(R(suffix, Then(committed.out, Preedit(suffix))))
  <2>1. <<">">> \in Text
    BY EngineAssumption DEF EngineAssumption, Text
  <2>2. /\ suffix \in EngineState /\ suffix.stack = committed.eng.stack /\ suffix.kana = <<>>
        /\ suffix.phase = Midashi(<<">">>, <<>>)
    BY <1>2, <1>9, <2>1, EmptyTyped, ReadingPhase DEF EngineState
  <2> HIDE DEF suffix
  <2>3. Good(suffix)
    BY <1>9, <2>1, <2>2, EmptyTyped, GoodIsBase, ReadingStep
  <2>4. QED
    BY <1>9, <2>3, PreeditOK, ThenOK, ResultIsOK
<1>13. ResultOK(R(redone.eng, Then(committed.out, redone.out)))
  <2>1. KanaFields(committed.eng)
    BY <1>1, <1>2, <1>9, KanaPhase DEF KanaFields
  <2>2. ResultOK(redone)
    BY <2>1, HandleKanaOK
  <2> HIDE DEF redone
  <2>3. QED
    BY <1>9, <2>2, ThenOK, ResultIsOK DEF ResultOK
<1>14. ResultOK(R(s, Passthrough))
  BY QuietOutputs, ResultIsOK DEF Choosing
<1>15. ResultOK(CancelSelection(s, d)) /\ ResultOK(SelectNext(s))
  BY CancelSelectionOK, SelectNextOK
<1>16. p.index # 0 => ResultOK(SelectPrevious(s))
  BY SelectPreviousOK
<1> HIDE DEF p, suffix, redone, purge
<1>17. QED
  BY <1>2, <1>5, <1>6, <1>10, <1>11, <1>12, <1>13, <1>14, <1>15, <1>16
----------------------------------------------------------------------------
(* The purge prompt.                                                       *)
Asking(s) == Good(s) /\ s.phase.tag = "PurgeConfirm"

(* What a state that asks for a purge holds.                               *)
LEMMA AskingFields ==
  ASSUME NEW s, Asking(s)
  PROVE  /\ s \in EngineState /\ Base(s) /\ s.kana = <<>>
         /\ s.phase \in PurgePhase /\ s.phase.buf \in Roman /\ s.phase.mode \in KanaMode
         /\ s.phase.sel \in SelectingPhase /\ s.phase.sel.index < Len(s.phase.sel.cands)
<1>1. s \in EngineState /\ Base(s) /\ s.phase \in PurgePhase
  BY GoodIsBase, PhaseFields DEF Asking
<1>2. s.kana = <<>> /\ s.phase.sel.index < Len(s.phase.sel.cands)
  BY DEF Asking, Good, PendingOnce, FocusInRange, KanaMode
<1>3. QED
  BY <1>1, <1>2 DEF PurgePhase

(* The purge confirmed,                                                    *)
LEMMA ExecutePurgeOK ==
  ASSUME NEW s, Asking(s)
  PROVE  ResultOK(ExecutePurge(s))
<1> DEFINE sel == s.phase.sel
           t == [s EXCEPT !.phase = Kana(s.phase.mode), !.kana = <<>>, !.trigger = <<>>]
           c == [op |-> "purge", midashi |-> sel.midashi, okuri |-> sel.okuri,
                 word |-> sel.cands[sel.index + 1].word]
           o == [ClearPreedit EXCEPT !.window = "hidden"]
<1>1. s \in EngineState /\ Base(s) /\ s.phase.mode \in KanaMode
  BY AskingFields
<1>2. t \in EngineState /\ t.stack = s.stack /\ t.phase = Kana(s.phase.mode)
  BY <1>1, KanaPhase, EmptyTyped DEF EngineState
<1>3. OutputOK(o)
  BY QuietOutputs, WindowOK DEF Drawn
<1>4. c.op = "purge"
  OBVIOUS
<1>5. ExecutePurge(s) = R(t, [ClearPreedit EXCEPT !.window = "hidden", !.call = c])
  BY DEF ExecutePurge
<1> HIDE DEF c, t
<1>6. [ClearPreedit EXCEPT !.window = "hidden", !.call = c] = [o EXCEPT !.call = c]
  OBVIOUS
<1> HIDE DEF o
<1>7. OutputOK([o EXCEPT !.call = c])
  BY <1>3, <1>4, CallOK
<1>8. Good(t)
  BY <1>1, <1>2, KanaStep
<1>9. QED
  BY <1>5, <1>6, <1>7, <1>8, ResultIsOK

(* the purge refused: the focus is back where it was,                      *)
LEMMA CancelPurgeOK ==
  ASSUME NEW s, Asking(s)
  PROVE  ResultOK(CancelPurge(s))
<1> DEFINE sel == s.phase.sel
           t == [s EXCEPT !.phase = sel]
<1>1. /\ s \in EngineState /\ Base(s) /\ s.kana = <<>>
      /\ sel \in SelectingPhase /\ sel.index < Len(sel.cands)
  BY AskingFields
<1>2. sel \in Phases /\ sel.tag = "Selecting" /\ sel.index \in Nat
  BY <1>1 DEF Phases, SelectingPhase
<1>3. CancelPurge(s) = AtIndex(t, sel.index)
  BY DEF CancelPurge
<1> HIDE DEF sel
<1>4. t \in EngineState /\ t.stack = s.stack /\ t.kana = <<>> /\ t.phase = sel
  BY <1>1, <1>2 DEF EngineState
<1> HIDE DEF t
<1>5. Choosing(t)
  BY <1>1, <1>2, <1>4 DEF Choosing, Good, Base, CursorInBuffer, FocusInRange, PendingOnce
<1>6. QED
  BY <1>1, <1>2, <1>3, <1>4, <1>5, AtIndexOK

(* and the answer typed.                                                   *)
LEMMA TypingOK ==
  ASSUME NEW s, Asking(s), NEW b \in Roman
  PROVE  LET t == [s EXCEPT !.phase.buf = b] IN ResultOK(R(t, Preedit(t)))
<1> DEFINE p == [s.phase EXCEPT !.buf = b]
           t == [s EXCEPT !.phase = p]
<1>1. /\ s \in EngineState /\ Base(s) /\ s.kana = <<>> /\ s.phase \in PurgePhase
      /\ s.phase.sel.index < Len(s.phase.sel.cands)
  BY AskingFields
<1>2. p \in PurgePhase /\ p.tag = "PurgeConfirm" /\ p.sel = s.phase.sel
  BY <1>1 DEF PurgePhase
<1>3. p \in Phases
  BY <1>2 DEF Phases
<1>4. t = [s EXCEPT !.phase.buf = b]
  OBVIOUS
<1> HIDE DEF p
<1>5. t \in EngineState /\ t.stack = s.stack /\ t.kana = <<>> /\ t.phase = p
  BY <1>1, <1>3 DEF EngineState
<1>6. Good(t)
  BY <1>1, <1>2, <1>5 DEF Good, Base, CursorInBuffer, FocusInRange, PendingOnce
<1> HIDE DEF t
<1>7. QED
  BY <1>4, <1>6, RedrawOK

(* So every key of the prompt keeps the invariant.                         *)
LEMMA HandlePurgeConfirmOK ==
  ASSUME NEW s, Asking(s), NEW e \in Events
  PROVE  ResultOK(HandlePurgeConfirm(s, e))
<1> DEFINE buf == s.phase.buf
           short == Chop(buf)
           long == Append(buf, e.key)
           Typing(b) == LET t == [s EXCEPT !.phase.buf = b] IN R(t, Preedit(t))
<1>1. buf \in Roman
  BY AskingFields
<1>2. short \in Roman /\ (e.key \in Alpha => long \in Roman)
  BY <1>1, ChopTyped, EngineAssumption, AppendProperties DEF EngineAssumption, Roman
<1>3. HandlePurgeConfirm(s, e)
        = IF e.key = "Return"
          THEN IF buf = PurgeYes THEN ExecutePurge(s)
               ELSE IF buf = PurgeNo THEN CancelPurge(s) ELSE R(s, Nothing)
          ELSE IF e.key = "BackSpace" THEN Typing(short)
          ELSE IF e.key \in Alpha /\ ~e.ctrl THEN Typing(long)
          ELSE R(s, Nothing)
  BY DEF HandlePurgeConfirm
<1>4. ResultOK(R(s, Nothing))
  BY QuietOutputs, ResultIsOK DEF Asking
<1>5. ResultOK(ExecutePurge(s)) /\ ResultOK(CancelPurge(s))
  BY ExecutePurgeOK, CancelPurgeOK
<1> HIDE DEF short, long, buf
<1>6. \A b \in Roman : ResultOK(Typing(b))
  BY TypingOK
<1>7. e.key \in Alpha => ResultOK(Typing(long))
  BY <1>2, <1>6
<1>8. ResultOK(Typing(short))
  BY <1>2, <1>6
<1> HIDE DEF Typing
<1>9. QED
  BY <1>3, <1>4, <1>5, <1>7, <1>8
----------------------------------------------------------------------------
(* Registration.                                                           *)
LEMMA PutOK ==
  ASSUME NEW t, Good(t), t.stack # <<>>, NEW frame, FrameOK(frame)
  PROVE  ResultOK(R(WithTop(t, frame), Preedit(WithTop(t, frame))))
  BY WithTopOK, RedrawOK

(* What Return moves from a composition to the buffer is text.             *)
LEMMA FlushedTyped ==
  ASSUME NEW s, Good(s), s.phase.tag \in Flushable
  PROVE  Flushed(s.phase) \in Text
<1>1. /\ s.phase.tag = "Abbrev" => s.phase.buf \in Text
      /\ s.phase.tag = "Midashi" => s.phase.kana \in Text
      /\ s.phase.tag = "Okuri" => s.phase.midashi \in Text
  BY GoodIsBase, PhaseFields
<1>2. QED
  BY <1>1 DEF Flushed, Flushable

(* Every key the registration takes keeps the invariant.                   *)
LEMMA RegisterPressOK ==
  ASSUME NEW s, Good(s), s.stack # <<>>, NEW e \in Events, RegisterTakes(s, e),
         NEW d \in Answers
  PROVE  ResultOK(RegisterPress(s, e, d))
<1> DEFINE Put(t, frame) == R(WithTop(t, frame), Preedit(WithTop(t, frame)))
<1>1. FrameOK(Top(s)) /\ Base(s)
  BY GoodIsBase, TopOK
<1>2. Good(ToHiragana(s)) /\ ToHiragana(s).stack # <<>>
  BY <1>1, ToHiraganaOK
<1>3. RegisterPress(s, e, d)
        = IF CtrlG(e) THEN CancelRegister(s, d)
          ELSE IF s.phase.tag \in Flushable
               THEN Put(ToHiragana(s), InsertInto(Top(s), Flushed(s.phase)))
          ELSE IF e.key = "Escape" \/ (e.key = "Return" /\ Top(s).committed = <<>>)
               THEN CancelRegister(s, d)
          ELSE IF e.key = "Return" THEN FinalizeRegister(s)
          ELSE IF e.key \in EditKeys THEN Put(s, Edited(Top(s), e.key))
          ELSE Put(s, InsertInto(Top(s), <<CharOf(e)>>))
  BY DEF RegisterPress
<1>4. ResultOK(CancelRegister(s, d)) /\ ResultOK(FinalizeRegister(s))
  BY CancelRegisterOK, FinalizeRegisterOK
<1>5. s.phase.tag \in Flushable
        => ResultOK(Put(ToHiragana(s), InsertInto(Top(s), Flushed(s.phase))))
  <2>1. SUFFICES ASSUME s.phase.tag \in Flushable
                 PROVE  ResultOK(Put(ToHiragana(s), InsertInto(Top(s), Flushed(s.phase))))
    OBVIOUS
  <2>2. FrameOK(InsertInto(Top(s), Flushed(s.phase)))
    BY <1>1, <2>1, FlushedTyped, InsertIntoOK
  <2>3. QED
    BY <1>2, <2>2, PutOK
<1>6. e.key \in EditKeys => ResultOK(Put(s, Edited(Top(s), e.key)))
  <2>1. SUFFICES ASSUME e.key \in EditKeys PROVE ResultOK(Put(s, Edited(Top(s), e.key)))
    OBVIOUS
  <2>2. FrameOK(Edited(Top(s), e.key))
    BY <1>1, <2>1, EditedOK
  <2>3. QED
    BY <2>2, PutOK
<1>7. Printable(e) => ResultOK(Put(s, InsertInto(Top(s), <<CharOf(e)>>)))
  <2>1. SUFFICES ASSUME Printable(e)
                 PROVE  ResultOK(Put(s, InsertInto(Top(s), <<CharOf(e)>>)))
    OBVIOUS
  <2>2. <<CharOf(e)>> \in Text
    BY <2>1, CharTyped DEF Text
  <2>3. FrameOK(InsertInto(Top(s), <<CharOf(e)>>))
    BY <1>1, <2>2, InsertIntoOK
  <2>4. QED
    BY <2>3, PutOK
<1>8. \/ CtrlG(e) \/ s.phase.tag \in Flushable \/ e.key \in EditKeys \cup {"Return", "Escape"}
      \/ Printable(e)
  BY DEF RegisterTakes
<1> HIDE DEF Put
<1>9. QED
  BY <1>3, <1>4, <1>5, <1>6, <1>7, <1>8

(* The redirection of a handler's result into the buffer.                  *)
LEMMA InterceptOK ==
  ASSUME NEW r, ResultOK(r), r.eng.stack # <<>>
  PROVE  ResultOK(Intercept(r))
<1> DEFINE typed == InsertInto(Top(r.eng), r.out.text)
           frame == IF r.out.del THEN RegBackspace(typed) ELSE typed
           redraw == \/ r.out.text # <<>> \/ r.out.del \/ r.out.preedit # "keep"
                     \/ r.out.window = "keep"
           o == [Nothing EXCEPT !.preedit = IF redraw THEN "shown" ELSE "keep",
                                !.window = r.out.window, !.call = r.out.call]
<1>1. Good(r.eng) /\ OutputOK(r.out) /\ Base(r.eng)
  BY GoodIsBase DEF ResultOK
<1>2. r.out.text \in Text /\ r.out.window \in Drawn /\ r.out.call.op \in {"none", "learn", "purge"}
  BY <1>1 DEF OutputOK
<1>3. FrameOK(typed)
  BY <1>1, <1>2, TopOK, InsertIntoOK
<1>4. Intercept(r) = R(WithTop(r.eng, frame), o)
  BY DEF Intercept
<1> HIDE DEF typed
<1>5. FrameOK(frame)
  BY <1>3, BackspaceOK
<1> HIDE DEF frame
<1>6. Good(WithTop(r.eng, frame))
  BY <1>1, <1>5, WithTopOK
<1> HIDE DEF redraw
<1>7. OutputOK(o)
  BY <1>2, EmptyTyped DEF OutputOK, Nothing, Drawn
<1> HIDE DEF o
<1>8. QED
  BY <1>4, <1>6, <1>7, ResultIsOK

(* So does whatever the phase's handler answers, redirected or not.        *)
LEMMA DeliveredOK ==
  ASSUME NEW r, ResultOK(r)
  PROVE  ResultOK(Delivered(r))
  BY InterceptOK DEF Delivered

----------------------------------------------------------------------------
(* Raw mode and the toggle key.                                            *)
LEMMA RawToggleOK ==
  ASSUME NEW s, Good(s)
  PROVE  ResultOK(RawToggle(s))
<1> DEFINE t == [s EXCEPT !.raw = ~s.raw]
           hide == [ClearPreedit EXCEPT !.window = "hidden"]
<1>1. s \in EngineState /\ s.raw \in BOOLEAN
  BY GoodIsBase DEF EngineState
<1>2. /\ t \in EngineState /\ t.stack = s.stack /\ t.phase = s.phase /\ t.kana = s.kana
  BY <1>1 DEF EngineState
<1>3. Good(t)
  BY <1>2 DEF Good, Base, CursorInBuffer, FocusInRange, PendingOnce
<1>4. OutputOK(hide)
  BY QuietOutputs, WindowOK DEF Drawn
<1>5. OutputOK(RenderCurrentPhase(s))
  <2>1. OutputOK(Preedit(s)) /\ OutputOK(ClearPreedit)
    BY PreeditOK, QuietOutputs
  <2>2. OutputOK([Preedit(s) EXCEPT !.window = ListingWindow(s.phase.index)])
    BY <2>1, WindowOK, ListingWindowTyped
  <2>3. QED
    BY <2>1, <2>2 DEF RenderCurrentPhase
<1>6. RawToggle(s) = R(t, IF s.raw THEN RenderCurrentPhase(s) ELSE hide)
  BY DEF RawToggle
<1> HIDE DEF t, hide
<1>7. QED
  BY <1>3, <1>4, <1>5, <1>6, ResultIsOK

Toggled(s) == IF s.phase.tag = "Ascii" THEN [s EXCEPT !.phase = Kana("Hiragana")]
                                       ELSE [s EXCEPT !.phase = Ascii, !.kana = <<>>]

(* The key that switches between direct input and kana.                    *)
LEMMA ToggledOK ==
  ASSUME NEW s, Good(s)
  PROVE  Good(Toggled(s))
<1> DEFINE kana == [s EXCEPT !.phase = Kana("Hiragana")]
           ascii == [s EXCEPT !.phase = Ascii, !.kana = <<>>]
<1>1. s \in EngineState /\ Base(s)
  BY GoodIsBase
<1>2. kana \in EngineState /\ kana.stack = s.stack /\ kana.phase = Kana("Hiragana")
  BY <1>1, KanaPhase DEF EngineState, KanaMode
<1>3. /\ ascii \in EngineState /\ ascii.stack = s.stack /\ ascii.kana = <<>>
      /\ ascii.phase.tag = "Ascii"
  BY <1>1, AsciiPhase, EmptyTyped DEF EngineState
<1>4. Good(kana)
  BY <1>1, <1>2, KanaStep DEF KanaMode
<1>5. Good(ascii)
  BY <1>1, <1>3, IdleStep
<1>6. QED
  BY <1>4, <1>5 DEF Toggled

----------------------------------------------------------------------------
(* The invariant.  None of the three is inductive by itself: the cursors   *)
(* and the focus stay in range because the buffers and the candidates have *)
(* their types, the focus because the phases that set it hold a list that  *)
(* is not empty, and the romaji in sync because each handler reads the     *)
(* copy it later writes.                                                   *)
IInv == TypeOK /\ NoPanic /\ RomanInSync

(* The invariant is what the handlers start from.                          *)
LEMMA IInvIsGood == IInv => Good(eng)
  BY DEF IInv, TypeOK, NoPanic, RomanInSync, Good, Base

(* A good result delivered establishes the invariant.                      *)
LEMMA DeliverOK ==
  ASSUME IInv, NEW r, ResultOK(r), Deliver(r)
  PROVE  IInv'
<1>1. eng' = r.eng /\ Good(r.eng) /\ OutputOK(r.out)
  BY DEF Deliver, ResultOK
<1>2. eng' \in EngineState /\ CursorInBuffer(eng') /\ FocusInRange(eng') /\ PendingOnce(eng')
  BY <1>1 DEF Good, Base
<1>3. ui' \in [preedit : {"shown", "hidden"}, window : {"shown", "hidden"}]
  <2>1. r.out.preedit \in Drawn /\ r.out.window \in Drawn
    BY <1>1 DEF OutputOK
  <2>2. ui.preedit \in {"shown", "hidden"} /\ ui.window \in {"shown", "hidden"}
    BY DEF IInv, TypeOK
  <2>3. QED
    BY <2>1, <2>2 DEF Deliver, Later, Drawn
<1>4. sent' \in [text : BOOLEAN, key : BOOLEAN]
  <2>1. r.out.pass \in BOOLEAN /\ r.out.del \in BOOLEAN
    BY <1>1 DEF OutputOK
  <2>2. sent' = Dispatch(r.out, Indicator(eng) # Indicator(r.eng))
    BY DEF Deliver
  <2>3. QED
    BY <2>1, <2>2 DEF Dispatch
<1>5. call'.op \in {"none", "learn", "purge"}
  BY <1>1 DEF Deliver, OutputOK
<1>6. TypeOK' /\ NoPanic' /\ RomanInSync'
  BY <1>2, <1>3, <1>4, <1>5 DEF TypeOK, NoPanic, RomanInSync, CursorInBuffer, FocusInRange,
                                PendingOnce
<1>7. QED
  BY <1>6 DEF IInv

(* A new session satisfies it.                                             *)
LEMMA InitOK == Init => IInv
<1> SUFFICES ASSUME Init PROVE IInv
  OBVIOUS
<1> DEFINE phase == [tag |-> InitialPhase]
<1>1. InitialPhase \in KanaMode \cup {"Ascii", "WideAscii"}
  BY EngineAssumption DEF EngineAssumption
<1>2. phase \in Phases /\ phase.tag \notin {"Selecting", "PurgeConfirm", "Midashi"}
  BY <1>1 DEF Phases, ModePhase, KanaMode
<1>3. eng = NewEngine(phase)
  BY DEF Init
<1> HIDE DEF phase
<1>4. eng \in EngineState /\ eng.stack = <<>> /\ eng.kana = <<>> /\ eng.phase = phase
  BY <1>2, <1>3, EmptyTyped, NoCompletionTyped DEF NewEngine, EngineState, KanaMode
<1>5. DOMAIN eng.stack = {}
  BY <1>4
<1>6. NoPanic /\ RomanInSync
  BY <1>2, <1>4, <1>5 DEF NoPanic, RomanInSync, CursorInBuffer, FocusInRange, PendingOnce
<1>7. TypeOK
  BY <1>4 DEF Init, TypeOK, NoCall
<1>8. QED
  BY <1>6, <1>7 DEF IInv

(* One case per action of handle_press.                                    *)
LEMMA StepOK == IInv /\ [Next]_vars => IInv'
<1> SUFFICES ASSUME IInv, [Next]_vars PROVE IInv'
  OBVIOUS
<1>1. Good(eng)
  BY IInvIsGood
<1>2. CASE UNCHANGED vars
  BY <1>2 DEF vars, IInv, TypeOK, NoPanic, RomanInSync, CursorInBuffer, FocusInRange, PendingOnce
<1>3. ASSUME NEW e \in Events, RawKey(e)
      PROVE  IInv'
  BY <1>1, <1>3, RawToggleOK, DeliverOK DEF RawKey
<1>4. ASSUME NEW e \in Events, ForwardRaw(e)
      PROVE  IInv'
  BY <1>1, <1>4, QuietOutputs, ResultIsOK, DeliverOK DEF ForwardRaw
<1>5. ASSUME NEW e \in Events, RegisterKey(e)
      PROVE  IInv'
  BY <1>1, <1>5, RegisterPressOK, DeliverOK DEF RegisterKey
<1>6. ASSUME NEW e \in Events, ToggleKey(e)
      PROVE  IInv'
  <2>1. Deliver(R(Toggled(eng), ClearPreedit))
    BY <1>6 DEF ToggleKey, Toggled
  <2>2. QED
    BY <1>1, <2>1, ToggledOK, QuietOutputs, ResultIsOK, DeliverOK
<1>7. ASSUME NEW e \in Events, AsciiKey(e)
      PROVE  IInv'
  BY <1>1, <1>7, HandleAsciiOK, DeliveredOK, DeliverOK DEF AsciiKey, Phase
<1>8. ASSUME NEW e \in Events, WideAsciiKey(e)
      PROVE  IInv'
  BY <1>1, <1>8, HandleWideAsciiOK, DeliveredOK, DeliverOK DEF WideAsciiKey, Phase
<1>9. ASSUME NEW e \in Events, CodeInputKey(e)
      PROVE  IInv'
  BY <1>1, <1>9, HandleCodeInputOK, DeliveredOK, DeliverOK DEF CodeInputKey, Phase
<1>10. ASSUME NEW e \in Events, PurgeKey(e)
       PROVE  IInv'
  BY <1>1, <1>10, HandlePurgeConfirmOK, DeliveredOK, DeliverOK DEF PurgeKey, Phase, Asking
<1>11. ASSUME NEW e \in Events, KanaKey(e)
       PROVE  IInv'
  BY <1>1, <1>11, HandleKanaOK, DeliveredOK, DeliverOK DEF KanaKey, Phase, KanaFields
<1>12. ASSUME NEW e \in Events, AbbrevKey(e)
       PROVE  IInv'
  BY <1>1, <1>12, HandleAbbrevOK, DeliveredOK, DeliverOK DEF AbbrevKey, Phase
<1>13. ASSUME NEW e \in Events, MidashiKey(e)
       PROVE  IInv'
  BY <1>1, <1>13, HandleMidashiOK, DeliveredOK, DeliverOK DEF MidashiKey, Phase, Reading
<1>14. ASSUME NEW e \in Events, OkuriKeyPress(e)
       PROVE  IInv'
  BY <1>1, <1>14, HandleOkuriOK, DeliveredOK, DeliverOK DEF OkuriKeyPress, Phase
<1>15. ASSUME NEW e \in Events, SelectingKey(e)
       PROVE  IInv'
  BY <1>1, <1>15, HandleSelectingOK, DeliveredOK, DeliverOK DEF SelectingKey, Phase, Choosing
<1>16. QED
  BY <1>2, <1>3, <1>4, <1>5, <1>6, <1>7, <1>8, <1>9, <1>10, <1>11, <1>12, <1>13, <1>14, <1>15
     DEF Next

(* The inductive invariant holds in every reachable state.                 *)
THEOREM Invariance == Spec => []IInv
  BY InitOK, StepOK, PTL DEF Spec

(* Every field of the engine and of the adapter's view keeps its type,     *)
(* whatever is typed and whatever the dictionaries answer.                 *)
THEOREM TypeCorrect == Spec => []TypeOK
<1>1. IInv => TypeOK
  BY DEF IInv
<1>2. QED
  BY <1>1, Invariance, PTL

(* process_key never slices a registration buffer beyond its end and never *)
(* reads a candidate outside the list.                                     *)
THEOREM NeverPanics == Spec => []NoPanic
<1>1. IInv => NoPanic
  BY DEF IInv
<1>2. QED
  BY <1>1, Invariance, PTL

(* The two copies of the pending romaji agree, and none is left behind in  *)
(* a phase that does not read it.                                          *)
THEOREM PendingInSync == Spec => []RomanInSync
<1>1. IInv => RomanInSync
  BY DEF IInv
<1>2. QED
  BY <1>1, Invariance, PTL

(* ---- conduct ---- *)

(* A focus in listing mode is where a page starts, and stays so in the     *)
(* selection a purge prompt returns to.                                    *)
Aligned(index) ==
    Listing(index) => (index - InlineCount) % Len(SelectionKeys) = 0
PagesAligned(s) ==
    /\ s.phase.tag = "Selecting" => Aligned(s.phase.index)
    /\ s.phase.tag = "PurgeConfirm" => Aligned(s.phase.sel.index)

(* The first page is aligned.                                              *)
LEMMA FirstPageAligned == Aligned(0)
<1>1. InlineCount \in Nat /\ Len(SelectionKeys) \in Nat
  BY EngineAssumption DEF EngineAssumption
<1>2. QED
  BY <1>1 DEF Aligned, Listing

(* Multiples of the page size.                                             *)
LEMMA MultipleOf ==
  ASSUME NEW q \in Nat, NEW n \in Nat, n > 0
  PROVE  (n * q) % n = 0
  OBVIOUS

(* A multiple has a quotient.                                              *)
LEMMA Quotient ==
  ASSUME NEW a \in Nat, NEW n \in Nat, n > 0, a % n = 0
  PROVE  a = n * (a \div n) /\ (a \div n) \in Nat
  OBVIOUS

(* So the next and the previous multiple are one page away.                *)
LEMMA NextMultiple ==
  ASSUME NEW a \in Nat, NEW n \in Nat, n > 0, a % n = 0
  PROVE  /\ (a + n) % n = 0
         /\ a >= n => (a - n) % n = 0
         /\ a < n => a = 0
<1> DEFINE q == a \div n
<1>1. a = n * q /\ q \in Nat
  BY Quotient
<1> HIDE DEF q
<1>2. (n * (q + 1)) % n = 0
  BY <1>1, MultipleOf
<1>3. n * (q + 1) = a + n
  BY <1>1
<1>4. a >= n => q - 1 \in Nat
  BY <1>1
<1>5. a >= n => (n * (q - 1)) % n = 0
  BY <1>4, MultipleOf
<1>6. n * (q - 1) = a - n
  BY <1>1
<1>7. a < n => a = 0
  BY <1>1
<1>8. QED
  BY <1>2, <1>3, <1>5, <1>6, <1>7

(* Where the next page starts.                                             *)
LEMMA NextAligned ==
  ASSUME NEW index \in Nat, Aligned(index)
  PROVE  Aligned(index + PageSize(index))
<1> DEFINE n == Len(SelectionKeys)
           a == index - InlineCount
           next == index + PageSize(index)
<1>1. InlineCount \in Nat /\ n \in Nat
  BY EngineAssumption DEF EngineAssumption
<1>2. CASE Listing(index)
  <2>1. n > 0 /\ a \in Nat /\ a % n = 0
    BY <1>1, <1>2 DEF Listing, Aligned
  <2>2. PageSize(index) = n
    BY <1>2 DEF PageSize
  <2> HIDE DEF a, n
  <2>3. (a + n) % n = 0
    BY <1>1, <2>1, NextMultiple
  <2>4. next - InlineCount = a + n
    BY <1>1, <2>2 DEF a
  <2> HIDE DEF next
  <2>5. Aligned(next)
    BY <2>3, <2>4 DEF Aligned, n
  <2>6. QED
    BY <2>5 DEF next
<1>3. CASE ~Listing(index)
  <2>1. PageSize(index) = 1
    BY <1>3 DEF PageSize
  <2>2. Listing(next) => next - InlineCount = 0 /\ n > 0
    BY <1>1, <1>3, <2>1 DEF Listing
  <2>3. n > 0 => 0 % n = 0
    BY <1>1
  <2> HIDE DEF next
  <2>4. Aligned(next)
    BY <2>2, <2>3 DEF Aligned
  <2>5. QED
    BY <2>4 DEF next
<1>4. QED
  BY <1>2, <1>3

(* Where the previous page starts, and that it reaches up to this one.     *)
LEMMA PreviousAligned ==
  ASSUME NEW index \in Nat, index # 0, Aligned(index)
  PROVE  /\ Aligned(PreviousIndex(index))
         /\ index <= PreviousIndex(index) + PageSize(PreviousIndex(index))
<1> DEFINE n == Len(SelectionKeys)
           a == index - InlineCount
           j == PreviousIndex(index)
<1>1. InlineCount \in Nat /\ n \in Nat
  BY EngineAssumption DEF EngineAssumption
<1>2. CASE ~Listing(index)
  BY <1>1, <1>2 DEF Aligned, Listing, PageSize, PreviousIndex
<1>3. CASE Listing(index)
  <2>1. n > 0 /\ a \in Nat /\ a % n = 0
    BY <1>1, <1>3 DEF Listing, Aligned
  <2>2. /\ a >= n => (a - n) % n = 0
        /\ a < n => a = 0
    <3> HIDE DEF a, n
    <3>1. QED
      BY <1>1, <2>1, NextMultiple
  <2>3. CASE a >= n
    <3>1. j = index - n /\ j - InlineCount = a - n
      BY <1>1, <1>3, <2>3 DEF PreviousIndex
    <3>2. Listing(j)
      BY <1>1, <2>1, <2>3, <3>1 DEF Listing
    <3>3. Aligned(j)
      BY <2>2, <2>3, <3>1 DEF Aligned
    <3>4. PageSize(j) = n
      BY <3>2 DEF PageSize
    <3> HIDE DEF j
    <3>5. index <= j + PageSize(j)
      BY <1>1, <3>1, <3>4
    <3>6. QED
      BY <3>3, <3>5 DEF j
  <2>4. CASE a < n /\ InlineCount > 0
    <3>1. index = InlineCount
      BY <1>1, <2>2, <2>4
    <3>2. j = InlineCount - 1
      BY <1>1, <1>3, <2>1, <3>1, <2>4 DEF PreviousIndex
    <3>3. QED
      BY <1>1, <3>1, <3>2 DEF Aligned, Listing, PageSize
  <2>5. CASE a < n /\ InlineCount = 0
    <3>1. index = InlineCount
      BY <1>1, <2>2, <2>5
    <3>2. QED
      BY <2>5, <3>1
  <2>6. QED
    BY <1>1, <2>3, <2>4, <2>5
<1>4. QED
  BY <1>2, <1>3
----------------------------------------------------------------------------
(* What a handler may do to the registrations: nothing, or open one more.  *)
Keeps(s, t) ==
    /\ t.raw = s.raw
    /\ \/ t.stack = s.stack
       \/ /\ Len(t.stack) = Len(s.stack) + 1
          /\ \A i \in 1 .. Len(s.stack) : t.stack[i] = s.stack[i]

(* The result of a key that redraws: the preedit says what is composed, a  *)
(* page of candidates comes with its window, no word is recorded.          *)
Drew(s, r) ==
    /\ Keeps(s, r.eng)
    /\ r.out.preedit # "keep"
    /\ r.out.preedit = "hidden" /\ r.eng.stack = <<>> => ~PreeditShown(r.eng)
    /\ r.eng.phase.tag = "Selecting" =>
          /\ Aligned(r.eng.phase.index)
          /\ Listing(r.eng.phase.index) => r.out.window = "shown"
    /\ r.eng.phase.tag # "PurgeConfirm"
    /\ r.out.call = NoCall

(* The key stays with the input method.                                    *)
Used(r) == ~r.out.pass /\ ~r.out.del

(* Drawing depends on the state before only through the registrations.     *)
LEMMA DrewFrom ==
  ASSUME NEW s, NEW t, t.stack = s.stack, t.raw = s.raw, NEW r, Drew(t, r)
  PROVE  Drew(s, r)
  BY DEF Drew, Keeps

(* A state that draws its own preedit.                                     *)
LEMMA RedrawDrew ==
  ASSUME NEW s, NEW t, t.stack = s.stack, t.raw = s.raw,
         t.phase.tag \notin {"Selecting", "PurgeConfirm"}
  PROVE  Drew(s, R(t, Preedit(t))) /\ Used(R(t, Preedit(t)))
  BY DEF Drew, Used, Keeps, R, Preedit, Nothing

Idle(t) == t.kana = <<>> /\ t.phase.tag \in KanaMode \cup {"Ascii", "WideAscii"}

(* A state with nothing composed that clears the preedit.                  *)
LEMMA ClearDrew ==
  ASSUME NEW s, NEW t, t.stack = s.stack, t.raw = s.raw, Idle(t),
         NEW o, o.preedit = "hidden", o.call = NoCall
  PROVE  Drew(s, R(t, o))
  BY DEF Drew, Keeps, R, Idle, PreeditShown, KanaMode

(* What the clearing outputs hold.                                         *)
LEMMA Clearing ==
  ASSUME NEW text
  PROVE  /\ ClearPreedit.preedit = "hidden" /\ ClearPreedit.call = NoCall
         /\ ~ClearPreedit.pass /\ ~ClearPreedit.del
         /\ Commit(text).preedit = "hidden" /\ Commit(text).call = NoCall
         /\ ~Commit(text).pass /\ ~Commit(text).del
         /\ [ClearPreedit EXCEPT !.pass = TRUE].preedit = "hidden"
         /\ [ClearPreedit EXCEPT !.pass = TRUE].call = NoCall
         /\ [Commit(text) EXCEPT !.pass = TRUE].preedit = "hidden"
         /\ [Commit(text) EXCEPT !.pass = TRUE].call = NoCall
  BY DEF ClearPreedit, Commit, Nothing

(* The two ways back to a kana mode, and what they leave alone.            *)
LEMMA ResetIdle ==
  ASSUME NEW s \in EngineState
  PROVE  /\ Idle(ToHiragana(s)) /\ ToHiragana(s).stack = s.stack /\ ToHiragana(s).raw = s.raw
         /\ Idle(NoGhost(ToHiragana(s))) /\ NoGhost(ToHiragana(s)).stack = s.stack
         /\ NoGhost(ToHiragana(s)).raw = s.raw
         /\ Idle(BackToKana(s)) /\ BackToKana(s).stack = s.stack /\ BackToKana(s).raw = s.raw
         /\ Idle(NoGhost(BackToKana(s))) /\ NoGhost(BackToKana(s)).stack = s.stack
         /\ NoGhost(BackToKana(s)).raw = s.raw
<1>1. s.display \in KanaMode /\ "Hiragana" \in KanaMode
  BY DEF EngineState, KanaMode
<1>2. QED
  BY <1>1 DEF EngineState, Idle, ToHiragana, BackToKana, NoGhost, Kana

(* So does the conversion of a reading, from any state.                    *)
LEMMA StartConversionDrew ==
  ASSUME NEW s \in EngineState, NEW reading \in Text, NEW okuriKey \in Text,
         NEW okuri \in Text, NEW d
  PROVE  /\ Drew(s, StartConversion(s, reading, okuriKey, okuri, d))
         /\ Used(StartConversion(s, reading, okuriKey, okuri, d))
<1> DEFINE cands == Candidates(reading, d)
           bare  == [s EXCEPT !.completion = NoCompletion]
           f     == NewFrame(bare, reading, okuriKey, okuri)
           reg   == EnterRegister(bare, reading, okuriKey, okuri)
           sel   == [s EXCEPT !.completion = NoCompletion,
                              !.phase = Selecting(reading, okuri, okuriKey, cands, 0)]
           o == [Preedit(sel) EXCEPT !.window = ListingWindow(0)]
<1>1. CASE cands = <<>>
  <2>1. bare \in EngineState /\ bare.stack = s.stack /\ bare.raw = s.raw
    BY NoCompletionTyped DEF EngineState
  <2>2. s.stack \in Seq(Frame) /\ f \in Frame
    BY <2>1, NewFrameOK DEF FrameOK, EngineState
  <2>3. StartConversion(s, reading, okuriKey, okuri, d) = R(reg, Preedit(reg))
    BY <1>1 DEF StartConversion
  <2>4. reg.stack = Append(bare.stack, f) /\ reg.raw = bare.raw /\ reg.phase.tag = "Hiragana"
    <3> HIDE DEF bare, f
    <3>1. EnterRegister(bare, reading, okuriKey, okuri)
            = [ToHiragana(bare) EXCEPT !.stack = Append(bare.stack, f)]
      BY DEF EnterRegister, f
    <3>2. QED
      BY <2>1, <3>1 DEF EngineState, ToHiragana, Kana
  <2> HIDE DEF bare, f, reg
  <2>5. /\ Len(reg.stack) = Len(s.stack) + 1
        /\ \A i \in 1 .. Len(s.stack) : reg.stack[i] = s.stack[i]
    BY <2>1, <2>2, <2>4, AppendProperties
  <2>6. QED
    BY <2>1, <2>3, <2>4, <2>5 DEF Drew, Used, Keeps, R, Preedit, Nothing
<1>2. CASE cands # <<>>
  <2>1. StartConversion(s, reading, okuriKey, okuri, d) = R(sel, o)
    BY <1>2 DEF StartConversion
  <2> HIDE DEF cands
  <2>2. /\ sel.stack = s.stack /\ sel.raw = s.raw /\ sel.phase.tag = "Selecting"
        /\ sel.phase.index = 0
    BY DEF EngineState, Selecting
  <2> HIDE DEF sel
  <2>3. /\ o.preedit = (IF PreeditShown(sel) THEN "shown" ELSE "hidden")
        /\ o.window = ListingWindow(0) /\ o.call = NoCall /\ ~o.pass /\ ~o.del
    BY DEF Preedit, Nothing
  <2> HIDE DEF o
  <2>4. QED
    BY <2>1, <2>2, <2>3, FirstPageAligned DEF Drew, Used, Keeps, R, ListingWindow
<1>3. QED
  BY <1>1, <1>2
----------------------------------------------------------------------------
(* The keys of a reading draw: cancel,                                     *)
LEMMA MidashiCancelDrew ==
  ASSUME NEW s \in EngineState
  PROVE  Drew(s, MidashiCancel(s)) /\ Used(MidashiCancel(s))
<1>1. Drew(s, MidashiCancel(s))
  BY ResetIdle, Clearing, ClearDrew DEF MidashiCancel
<1>2. QED
  BY <1>1, Clearing DEF MidashiCancel, R, Used

(* delete back,                                                            *)
LEMMA MidashiBackSpaceDrew ==
  ASSUME NEW s \in EngineState, NEW d
  PROVE  Drew(s, MidashiBackSpace(s, d))
<1> DEFINE p == s.phase
           shorter == [s EXCEPT !.phase = Midashi(p.kana, Front(p.roman)),
                                !.kana = Front(p.roman)]
           popped  == [s EXCEPT !.phase = Midashi(Front(p.kana), p.roman),
                                !.kana = <<>>,
                                !.completion = Completion(Front(p.kana), d)]
<1>1. /\ shorter.stack = s.stack /\ shorter.raw = s.raw /\ shorter.phase.tag = "Midashi"
      /\ popped.stack = s.stack /\ popped.raw = s.raw /\ popped.phase.tag = "Midashi"
  BY DEF EngineState, Midashi
<1>2. MidashiBackSpace(s, d) = IF p.roman # <<>> THEN R(shorter, Preedit(shorter))
                               ELSE IF p.kana # <<>> THEN R(popped, Preedit(popped))
                               ELSE MidashiCancel(s)
  BY DEF MidashiBackSpace
<1> HIDE DEF p, shorter, popped
<1>3. QED
  BY <1>1, <1>2, RedrawDrew, MidashiCancelDrew

(* commit,                                                                 *)
LEMMA MidashiReturnDrew ==
  ASSUME NEW s \in EngineState
  PROVE  Drew(s, MidashiReturn(s))
  BY ResetIdle, Clearing, ClearDrew DEF MidashiReturn

(* commit in half-width katakana,                                          *)
LEMMA MidashiHalfWidthDrew ==
  ASSUME NEW s \in EngineState
  PROVE  Drew(s, MidashiHalfWidth(s)) /\ Used(MidashiHalfWidth(s))
<1>1. Drew(s, MidashiHalfWidth(s))
  BY ResetIdle, Clearing, ClearDrew DEF MidashiHalfWidth
<1>2. QED
  BY <1>1, Clearing DEF MidashiHalfWidth, R, Used

(* convert, whether or not a trigger is to be appended,                    *)
LEMMA ConversionDrew ==
  ASSUME NEW s \in EngineState, NEW reading \in Text, NEW trigger \in Text, NEW d
  PROVE  LET plain == StartConversion([s EXCEPT !.kana = <<>>], reading, <<>>, <<>>, d)
             more  == StartConversion([s EXCEPT !.trigger = trigger, !.kana = <<>>],
                                      reading, <<>>, <<>>, d)
         IN  Drew(s, plain) /\ Used(plain) /\ Drew(s, more) /\ Used(more)
<1> DEFINE t == [s EXCEPT !.kana = <<>>]
           u == [s EXCEPT !.trigger = trigger, !.kana = <<>>]
<1>1. /\ t \in EngineState /\ t.stack = s.stack /\ t.raw = s.raw
      /\ u \in EngineState /\ u.stack = s.stack /\ u.raw = s.raw
  BY EmptyTyped DEF EngineState
<1> HIDE DEF t, u
<1>2. /\ Drew(t, StartConversion(t, reading, <<>>, <<>>, d))
      /\ Used(StartConversion(t, reading, <<>>, <<>>, d))
      /\ Drew(u, StartConversion(u, reading, <<>>, <<>>, d))
      /\ Used(StartConversion(u, reading, <<>>, <<>>, d))
  BY <1>1, EmptyTyped, StartConversionDrew
<1>3. /\ Drew(s, StartConversion(t, reading, <<>>, <<>>, d))
      /\ Drew(s, StartConversion(u, reading, <<>>, <<>>, d))
  BY <1>1, <1>2, DrewFrom
<1>4. QED
  BY <1>2, <1>3 DEF t, u

(* convert with the space bar,                                             *)
LEMMA MidashiSpaceDrew ==
  ASSUME NEW s \in EngineState, s.phase.kana \in Text, NEW d
  PROVE  Drew(s, MidashiSpace(s, d)) /\ Used(MidashiSpace(s, d))
<1> DEFINE kana == FlushN(s.phase.kana, s.phase.roman)
<1>1. kana \in Text
  BY FlushNTyped
<1>2. MidashiSpace(s, d) = IF kana = <<>> THEN MidashiCancel(s)
                           ELSE StartConversion([s EXCEPT !.kana = <<>>], kana, <<>>, <<>>, d)
  BY DEF MidashiSpace
<1> HIDE DEF kana
<1>3. QED
  BY <1>1, <1>2, EmptyTyped, MidashiCancelDrew, ConversionDrew

(* accept a completion,                                                    *)
LEMMA MidashiTabDrew ==
  ASSUME NEW s \in EngineState, s.phase.tag = "Midashi", NEW d
  PROVE  Drew(s, MidashiTab(s, d))
<1> DEFINE c == s.completion
           accepted == [s EXCEPT !.phase = Midashi(c.preview, <<>>), !.kana = <<>>,
                                 !.completion = Completion(c.prefix, d)]
<1>1. accepted.stack = s.stack /\ accepted.raw = s.raw /\ accepted.phase.tag = "Midashi"
  BY DEF EngineState, Midashi
<1>2. MidashiTab(s, d) = IF s.phase.roman = <<>> /\ c # NoCompletion
                         THEN R(accepted, Preedit(accepted)) ELSE R(s, Preedit(s))
  BY DEF MidashiTab
<1> HIDE DEF c, accepted
<1>3. QED
  BY <1>1, <1>2, RedrawDrew

(* convert with a trigger to append,                                       *)
LEMMA ConvertWithTriggerDrew ==
  ASSUME NEW s \in EngineState, NEW kana \in Text, NEW trigger \in Text, NEW d
  PROVE  /\ Drew(s, ConvertWithTrigger(s, kana, trigger, d))
         /\ Used(ConvertWithTrigger(s, kana, trigger, d))
<1> DEFINE r == R(NoGhost(BackToKana(s)), Commit(trigger))
<1>1. Drew(s, r)
  BY ResetIdle, Clearing, ClearDrew
<1>2. Used(r)
  BY Clearing DEF R, Used
<1>3. QED
  BY <1>1, <1>2, ConversionDrew DEF ConvertWithTrigger

(* convert with a punctuation key,                                         *)
LEMMA MidashiTriggerDrew ==
  ASSUME NEW s \in EngineState, NEW kana \in Text, NEW ch \in Letter, NEW d
  PROVE  Drew(s, MidashiTrigger(s, kana, ch, d)) /\ Used(MidashiTrigger(s, kana, ch, d))
<1> DEFINE t == Transition(<<>>, ch, "Hiragana")
           text == IF t.kind = "Ok" /\ t.output # <<>> /\ t.next = <<>> THEN t.output ELSE <<ch>>
<1>1. t \in TransitionResult
  BY EmptyTyped, TransitionTyped DEF KanaMode
<1>2. text \in Text
  BY <1>1, OneLetter DEF TransitionResult
<1>3. MidashiTrigger(s, kana, ch, d) = ConvertWithTrigger(s, kana, text, d)
  BY DEF MidashiTrigger
<1> HIDE DEF text
<1>4. QED
  BY <1>2, <1>3, ConvertWithTriggerDrew

(* convert with an affix mark,                                             *)
LEMMA MidashiAffixDrew ==
  ASSUME NEW s, Reading(s), NEW d
  PROVE  Drew(s, MidashiAffix(s, d)) /\ Used(MidashiAffix(s, d))
<1> DEFINE kana  == s.phase.kana \o s.phase.roman
           still == NoGhost([s EXCEPT !.phase = Midashi(<<>>, <<>>), !.kana = <<>>])
<1>1. s \in EngineState
  BY ReadingFields
<1>2. kana \in Text
  <2>1. s.phase.kana \in Text /\ s.phase.roman \in Text
    BY ReadingFields, RomanIsText
  <2>2. QED
    BY <2>1, ConcatProperties DEF Text
<1>3. Append(kana, ">") \in Text
  <2>1. ">" \in Glyph
    BY EngineAssumption DEF EngineAssumption
  <2> HIDE DEF kana
  <2>2. QED
    BY <1>2, <2>1, AppendProperties DEF Text
<1>4. still.stack = s.stack /\ still.raw = s.raw /\ still.phase.tag = "Midashi"
  BY <1>1 DEF EngineState, Midashi, NoGhost
<1>5. MidashiAffix(s, d)
        = IF kana = <<>> THEN R(still, Preedit(still))
          ELSE StartConversion([s EXCEPT !.kana = <<>>], Append(kana, ">"), <<>>, <<>>, d)
  BY DEF MidashiAffix
<1> HIDE DEF kana, still
<1>6. QED
  BY <1>1, <1>3, <1>4, <1>5, EmptyTyped, RedrawDrew, ConversionDrew

(* type a digit,                                                           *)
LEMMA MidashiDigitDrew ==
  ASSUME NEW s \in EngineState, NEW kana, NEW ch
  PROVE  Drew(s, MidashiDigit(s, kana, ch)) /\ Used(MidashiDigit(s, kana, ch))
<1> DEFINE typed == NoGhost([s EXCEPT !.phase = Midashi(Append(kana, ch), <<>>), !.kana = <<>>])
<1>1. typed.stack = s.stack /\ typed.raw = s.raw /\ typed.phase.tag = "Midashi"
  BY DEF EngineState, Midashi, NoGhost
<1>2. MidashiDigit(s, kana, ch) = R(typed, Preedit(typed))
  BY DEF MidashiDigit
<1> HIDE DEF typed
<1>3. QED
  BY <1>1, <1>2, RedrawDrew

(* type a letter the table accepts,                                        *)
LEMMA MidashiFedDrew ==
  ASSUME NEW s \in EngineState, NEW kana \in Text, NEW t \in TransitionResult, NEW d
  PROVE  Drew(s, MidashiFed(s, kana, t, d)) /\ Used(MidashiFed(s, kana, t, d))
<1> DEFINE read    == kana \o t.output
           partial == NoGhost([s EXCEPT !.phase = Midashi(read, t.next), !.kana = t.next])
           done    == [s EXCEPT !.phase = Midashi(read, <<>>), !.kana = <<>>,
                                !.completion = Completion(read, d)]
           convert == ConvertWithTrigger(s, Front(read), <<Last(read)>>, d)
<1>1. t.output \in Text
  BY DEF TransitionResult
<1>2. read \in Text /\ (t.output # <<>> => read # <<>>)
  BY <1>1, ConcatProperties, ConcatEqualIffEmpty DEF Text
<1>3. /\ partial.stack = s.stack /\ partial.raw = s.raw /\ partial.phase.tag = "Midashi"
      /\ done.stack = s.stack /\ done.raw = s.raw /\ done.phase.tag = "Midashi"
  BY DEF EngineState, Midashi, NoGhost
<1>4. t.output # <<>> => Drew(s, convert) /\ Used(convert)
  <2>1. SUFFICES ASSUME t.output # <<>> PROVE Drew(s, convert) /\ Used(convert)
    OBVIOUS
  <2>2. read # <<>>
    BY <1>2, <2>1
  <2> HIDE DEF read
  <2>3. Front(read) \in Text /\ Last(read) \in Glyph
    BY <1>2, <2>2, FrontTyped, LastTyped DEF Text
  <2>4. <<Last(read)>> \in Text
    BY <2>3 DEF Text
  <2>5. QED
    BY <2>3, <2>4, ConvertWithTriggerDrew
<1>5. \/ MidashiFed(s, kana, t, d) = R(partial, Preedit(partial))
      \/ MidashiFed(s, kana, t, d) = R(done, Preedit(done))
      \/ t.output # <<>> /\ MidashiFed(s, kana, t, d) = convert
  BY DEF MidashiFed
<1> HIDE DEF read, partial, done, convert
<1>6. QED
  BY <1>3, <1>4, <1>5, RedrawDrew

(* type a letter with no romaji pending,                                   *)
LEMMA MidashiFromStartDrew ==
  ASSUME NEW s \in EngineState, NEW kana \in Text, NEW ch \in Letter, NEW ctrl, NEW d
  PROVE  /\ Drew(s, MidashiFromStart(s, kana, ch, ctrl, d))
         /\ Used(MidashiFromStart(s, kana, ch, ctrl, d))
<1> DEFINE t == Transition(<<>>, ch, "Hiragana")
           still == [s EXCEPT !.phase = Midashi(kana, <<>>), !.kana = <<>>]
           other == IF s.display = "Hiragana" THEN InScript(kana, "Katakana") ELSE kana
           swapped == R(NoGhost(BackToKana(s)), Commit(other))
<1>1. t \in TransitionResult
  BY EmptyTyped, TransitionTyped DEF KanaMode
<1>2. still.stack = s.stack /\ still.raw = s.raw /\ still.phase.tag = "Midashi"
  BY DEF EngineState, Midashi
<1>3. \/ MidashiFromStart(s, kana, ch, ctrl, d) = MidashiFed(s, kana, t, d)
      \/ MidashiFromStart(s, kana, ch, ctrl, d) = swapped
      \/ MidashiFromStart(s, kana, ch, ctrl, d) = R(still, Preedit(still))
  BY DEF MidashiFromStart
<1> HIDE DEF t, still, other
<1>4. Drew(s, swapped)
  BY ResetIdle, Clearing, ClearDrew
<1>5. Used(swapped)
  BY Clearing DEF R, Used
<1> HIDE DEF swapped
<1>6. QED
  BY <1>1, <1>2, <1>3, <1>4, <1>5, MidashiFedDrew, RedrawDrew

(* type a letter the pending romaji does not combine with,                 *)
LEMMA MidashiRetryDrew ==
  ASSUME NEW s \in EngineState, NEW kana \in Text, NEW ch \in Letter, NEW d
  PROVE  Drew(s, MidashiRetry(s, kana, ch, d)) /\ Used(MidashiRetry(s, kana, ch, d))
  BY MidashiTriggerDrew, MidashiDigitDrew, MidashiFromStartDrew DEF MidashiRetry

(* and so type any letter.                                                 *)
LEMMA MidashiLetterDrew ==
  ASSUME NEW s, Reading(s), NEW ch \in Letter, NEW ctrl, NEW d
  PROVE  Drew(s, MidashiLetter(s, ch, ctrl, d)) /\ Used(MidashiLetter(s, ch, ctrl, d))
<1> DEFINE t == Transition(s.kana, ch, "Hiragana")
           kana == s.phase.kana
<1>1. s \in EngineState /\ kana \in Text /\ s.kana \in Roman
  BY ReadingFields
<1>2. t \in TransitionResult
  BY <1>1, TransitionTyped DEF KanaMode
<1>3. kana \o t.output \in Text
  BY <1>1, <1>2, ConcatProperties DEF Text, TransitionResult
<1>4. \/ MidashiLetter(s, ch, ctrl, d) = MidashiFromStart(s, kana, ch, ctrl, d)
      \/ MidashiLetter(s, ch, ctrl, d) = MidashiFed(s, kana, t, d)
      \/ MidashiLetter(s, ch, ctrl, d) = MidashiRetry(s, kana \o t.output, ch, d)
  BY DEF MidashiLetter
<1> HIDE DEF t, kana
<1>5. QED
  BY <1>1, <1>2, <1>3, <1>4, MidashiFromStartDrew, MidashiFedDrew, MidashiRetryDrew
----------------------------------------------------------------------------
(* The keys of an okurigana draw: delete back,                             *)
LEMMA OkuriBackSpaceDrew ==
  ASSUME NEW s \in EngineState, NEW d
  PROVE  Drew(s, OkuriBackSpace(s, d))
<1> DEFINE p    == s.phase
           kana == IF s.kana = <<>> THEN Chop(p.kana) ELSE p.kana
           left == [s EXCEPT !.phase = Okuri(p.midashi, kana), !.kana = Chop(s.kana)]
           back == [s EXCEPT !.phase = Midashi(p.midashi, <<>>), !.kana = <<>>,
                             !.completion = Completion(p.midashi, d)]
<1>1. /\ left.stack = s.stack /\ left.raw = s.raw /\ left.phase.tag = "Okuri"
      /\ back.stack = s.stack /\ back.raw = s.raw /\ back.phase.tag = "Midashi"
  BY DEF EngineState, Okuri, Midashi
<1>2. \/ OkuriBackSpace(s, d) = R(back, Preedit(back))
      \/ OkuriBackSpace(s, d) = R(left, Preedit(left))
  BY DEF OkuriBackSpace
<1> HIDE DEF kana, p, left, back
<1>3. QED
  BY <1>1, <1>2, RedrawDrew

(* type a letter,                                                          *)
LEMMA OkuriLetterDrew ==
  ASSUME NEW s, Good(s), s.phase.tag = "Okuri", NEW ch \in Letter, NEW d
  PROVE  Drew(s, OkuriLetter(s, ch, d)) /\ Used(OkuriLetter(s, ch, d))
<1> DEFINE p    == s.phase
           t    == Transition(s.kana, ch, "Hiragana")
           kana == p.kana \o t.output
           more == [s EXCEPT !.phase = Okuri(p.midashi, kana), !.kana = t.next]
           h    == ToHiragana(s)
           convert == StartConversion(h, p.midashi, OkuriKey(s.kana, ch), kana, d)
<1>1. /\ s \in EngineState /\ p.midashi \in Text /\ p.kana \in Text /\ s.kana \in Roman
      /\ Base(s)
  BY OkuriFields
<1>2. t \in TransitionResult
  BY <1>1, TransitionTyped DEF KanaMode
<1>3. kana \in Text /\ OkuriKey(s.kana, ch) \in Text
  BY <1>1, <1>2, ConcatProperties, OkuriKeyTyped DEF Text, TransitionResult
<1>4. h \in EngineState /\ h.stack = s.stack /\ h.raw = s.raw
  BY <1>1, ToHiraganaOK, GoodIsBase, ResetIdle
<1>5. more.stack = s.stack /\ more.raw = s.raw /\ more.phase.tag = "Okuri"
  BY <1>1 DEF EngineState, Okuri
<1>6. OkuriLetter(s, ch, d) = convert \/ OkuriLetter(s, ch, d) = R(more, Preedit(more))
  BY DEF OkuriLetter
<1> HIDE DEF t, kana, p, h, more
<1>7. Drew(h, convert) /\ Used(convert)
  BY <1>1, <1>3, <1>4, StartConversionDrew
<1> HIDE DEF convert
<1>8. Drew(s, convert)
  BY <1>4, <1>7, DrewFrom
<1>9. QED
  BY <1>5, <1>6, <1>7, <1>8, RedrawDrew

(* A key that leaves the screen alone changes nothing but the romaji that  *)
(* may be pending.                                                         *)
Left(s, r) ==
    /\ r.out.preedit = "keep" /\ r.out.window = "keep" /\ r.out.call = NoCall
    /\ r.eng.stack = s.stack /\ r.eng.raw = s.raw /\ r.eng.phase = s.phase
    /\ r.eng.kana = s.kana \/ r.eng.kana = <<>>

(* and so any key; a printable one is used.                                *)
LEMMA HandleOkuriDrew ==
  ASSUME NEW s, Good(s), s.phase.tag = "Okuri", NEW e \in Events, NEW d
  PROVE  LET r == HandleOkuri(s, e, d)
         IN  /\ Drew(s, r) \/ Left(s, r)
             /\ Printable(e) => Drew(s, r) /\ Used(r)
<1> DEFINE r == HandleOkuri(s, e, d)
           escaped == R(ToHiragana(s), ClearPreedit)
<1>1. s \in EngineState
  BY GoodIsBase
<1>2. Drew(s, escaped)
  BY <1>1, ResetIdle, Clearing, ClearDrew
<1>3. Printable(e) => Drew(s, OkuriLetter(s, Lower[CharOf(e)], d))
                      /\ Used(OkuriLetter(s, Lower[CharOf(e)], d))
  BY CharTyped, LowerIsLetter, OkuriLetterDrew
<1>4. Left(s, R(s, Passthrough))
  BY DEF Left, R, Passthrough, Nothing
<1>5. Printable(e) => e.key \notin {"Escape", "BackSpace"}
  BY EngineAssumption DEF EngineAssumption, Printable, Named
<1>6. QED
  BY <1>1, <1>2, <1>3, <1>4, <1>5, OkuriBackSpaceDrew DEF HandleOkuri

(* The upper-case letter that starts an okurigana.                         *)
LEMMA MidashiOkuriDrew ==
  ASSUME NEW s, Reading(s), NEW e \in Events, e.key \in Letter, NEW d
  PROVE  Drew(s, MidashiOkuri(s, e, d)) /\ Used(MidashiOkuri(s, e, d))
<1> DEFINE t == Transition(s.kana, Lower[e.key], "Hiragana")
           u == [s EXCEPT !.phase = Okuri(s.phase.kana, <<>>)]
           n == NoGhost(u)
           v == NoGhost([s EXCEPT !.phase = Okuri(s.phase.kana \o t.output, <<>>), !.kana = t.next])
<1>1. s \in EngineState /\ s.phase.kana \in Text /\ Base(s)
  BY ReadingFields, GoodIsBase DEF Reading
<1>2. v.stack = s.stack /\ v.raw = s.raw /\ v.phase.tag = "Okuri"
  BY <1>1 DEF EngineState, Okuri, NoGhost
<1>3. u \in EngineState /\ u.stack = s.stack /\ u.phase = Okuri(s.phase.kana, <<>>)
  BY <1>1, EmptyTyped, OkuriganaPhase DEF EngineState
<1>4. n.stack = s.stack /\ n.raw = s.raw /\ n.phase.tag = "Okuri"
  BY <1>1 DEF EngineState, Okuri, NoGhost
<1>5. \/ MidashiOkuri(s, e, d) = R(v, Preedit(v))
      \/ MidashiOkuri(s, e, d) = HandleOkuri(n, e, d)
  BY DEF MidashiOkuri
<1> HIDE DEF t, u, v
<1>6. Good(n)
  BY <1>1, <1>3, EmptyTyped, OkuriganaStep, NoGhostOK
<1> HIDE DEF n
<1>7. Printable(e)
  BY DEF Printable
<1>8. Drew(n, HandleOkuri(n, e, d)) /\ Used(HandleOkuri(n, e, d))
  BY <1>4, <1>6, <1>7, HandleOkuriDrew
<1>9. Drew(s, HandleOkuri(n, e, d))
  BY <1>4, <1>8, DrewFrom
<1>10. QED
  BY <1>2, <1>5, <1>8, <1>9, RedrawDrew

(* So every key of a reading draws or is given back; a printable one is    *)
(* used.                                                                   *)
LEMMA HandleMidashiDrew ==
  ASSUME NEW s, Reading(s), NEW e \in Events, NEW d
  PROVE  LET r == HandleMidashi(s, e, d)
         IN  /\ Drew(s, r) \/ Left(s, r)
             /\ Printable(e) => Drew(s, r) /\ Used(r)
<1> DEFINE ch == CharOf(e)
<1>1. s \in EngineState /\ s.phase.kana \in Text /\ s.phase.tag = "Midashi"
  BY ReadingFields DEF Reading
<1>2. /\ Drew(s, MidashiCancel(s)) /\ Drew(s, MidashiBackSpace(s, d))
      /\ Drew(s, MidashiReturn(s)) /\ Drew(s, MidashiTab(s, d))
      /\ Drew(s, MidashiSpace(s, d)) /\ Used(MidashiSpace(s, d))
      /\ Drew(s, MidashiHalfWidth(s)) /\ Used(MidashiHalfWidth(s))
  BY <1>1, MidashiCancelDrew, MidashiBackSpaceDrew, MidashiReturnDrew, MidashiTabDrew,
     MidashiSpaceDrew, MidashiHalfWidthDrew
<1>3. Left(s, R(s, Passthrough))
  BY DEF Left, R, Passthrough, Nothing
<1>4. Printable(e) => e.key \notin {"Escape", "BackSpace", "Return", "Tab"}
  BY EngineAssumption DEF EngineAssumption, Printable, Named
<1> DEFINE OK(r) == Drew(s, r) /\ Used(r)
<1>5. ASSUME Printable(e)
      PROVE  /\ OK(MidashiTrigger(s, FlushN(s.phase.kana, s.phase.roman), ch, d))
             /\ OK(MidashiAffix(s, d))
             /\ OK(MidashiDigit(s, s.phase.kana, ch))
             /\ OK(MidashiLetter(s, Lower[ch], e.ctrl, d))
             /\ e.key # "Space" => OK(MidashiOkuri(s, e, d))
  <2>1. ch \in Letter /\ (e.key # "Space" => e.key \in Letter)
    BY <1>5, CharTyped
  <2> HIDE DEF ch
  <2>2. OK(MidashiTrigger(s, FlushN(s.phase.kana, s.phase.roman), ch, d))
    BY <1>1, <2>1, FlushNTyped, MidashiTriggerDrew
  <2>3. OK(MidashiAffix(s, d)) /\ OK(MidashiDigit(s, s.phase.kana, ch))
    BY <1>1, <2>1, MidashiAffixDrew, MidashiDigitDrew
  <2>4. OK(MidashiLetter(s, Lower[ch], e.ctrl, d))
    BY <2>1, LowerIsLetter, MidashiLetterDrew
  <2>5. e.key # "Space" => OK(MidashiOkuri(s, e, d))
    BY <2>1, MidashiOkuriDrew
  <2>6. QED
    BY <2>2, <2>3, <2>4, <2>5
<1>6. Printable(e) => OK(HandleMidashi(s, e, d))
  BY <1>2, <1>4, <1>5 DEF HandleMidashi
<1>7. ~Printable(e) => Drew(s, HandleMidashi(s, e, d)) \/ Left(s, HandleMidashi(s, e, d))
  BY <1>2, <1>3 DEF HandleMidashi
<1>8. QED
  BY <1>6, <1>7
----------------------------------------------------------------------------
(* The keys of an abbreviation,                                            *)
LEMMA HandleAbbrevDrew ==
  ASSUME NEW s, Good(s), s.phase.tag = "Abbrev", NEW e \in Events, NEW d
  PROVE  LET r == HandleAbbrev(s, e, d)
         IN  Drew(s, r) /\ (Printable(e) => Used(r))
<1> DEFINE buf == s.phase.buf
           Typing(b) == LET t == [s EXCEPT !.phase = Abbrev(b)] IN R(t, Preedit(t))
           leave == [s EXCEPT !.phase = Kana(s.display)]
           passed == R(leave, [Commit(buf) EXCEPT !.pass = TRUE])
           convert == StartConversion(s, buf, <<>>, <<>>, d)
           OK(r) == Drew(s, r) /\ Used(r)
<1>1. s \in EngineState /\ buf \in Text /\ s.kana = <<>> /\ s.display \in KanaMode
  BY PhaseFields, GoodIsBase DEF Good, PendingOnce, EngineState, KanaMode
<1>2. \A b : OK(Typing(b))
  <2> TAKE b
  <2> DEFINE t == [s EXCEPT !.phase = Abbrev(b)]
  <2>1. t.stack = s.stack /\ t.raw = s.raw /\ t.phase.tag = "Abbrev"
    BY <1>1 DEF EngineState, Abbrev
  <2> HIDE DEF t
  <2>2. OK(R(t, Preedit(t)))
    BY <2>1, RedrawDrew
  <2>3. QED
    BY <2>2 DEF t
<1>3. leave.stack = s.stack /\ leave.raw = s.raw /\ Idle(leave)
  BY <1>1 DEF EngineState, Kana, Idle
<1>4. OK(convert)
  BY <1>1, EmptyTyped, StartConversionDrew
<1>5. OK(R(s, Preedit(s)))
  BY RedrawDrew
<1> HIDE DEF leave
<1>6. OK(R(leave, ClearPreedit)) /\ OK(R(leave, Commit(buf))) /\ Drew(s, passed)
  BY <1>3, Clearing, ClearDrew DEF R, Used
<1>7. Printable(e) => e.key # "Return"
  BY EngineAssumption DEF EngineAssumption, Printable, Named
<1>8. HandleAbbrev(s, e, d)
        = IF e.key = "Escape" \/ (e.key = "BackSpace" /\ buf = <<>>) THEN R(leave, ClearPreedit)
          ELSE IF e.key = "BackSpace" THEN Typing(Front(buf))
          ELSE IF e.key = "Space" /\ buf # <<>> THEN convert
          ELSE IF IsCtrl(e, "j") THEN R(leave, Commit(buf))
          ELSE IF e.key = "Return" THEN passed
          ELSE IF e.key \in Letter /\ ~e.ctrl THEN Typing(Append(buf, e.key))
          ELSE R(s, Preedit(s))
  BY DEF HandleAbbrev, leave
<1>9. OK(Typing(Front(buf))) /\ OK(Typing(Append(buf, e.key)))
  BY <1>2
<1> HIDE DEF buf, Typing, passed, convert
<1>10. HandleAbbrev(s, e, d) = passed \/ OK(HandleAbbrev(s, e, d))
  BY <1>4, <1>5, <1>6, <1>8, <1>9
<1>11. Printable(e) => OK(HandleAbbrev(s, e, d))
  BY <1>4, <1>5, <1>6, <1>7, <1>8, <1>9
<1>12. QED
  BY <1>6, <1>10, <1>11

(* the keys of a code point,                                               *)
LEMMA HandleCodeInputDrew ==
  ASSUME NEW s, Good(s), s.phase.tag = "CodeInput", NEW e \in Events
  PROVE  Drew(s, HandleCodeInput(s, e)) /\ Used(HandleCodeInput(s, e))
<1> DEFINE buf    == s.phase.buf
           prefix == s.phase.prefix
           Typing(p, b) == LET t == [s EXCEPT !.phase = CodeInput(p, b)] IN R(t, Preedit(t))
           decoded == IF buf \in DOMAIN Decode[prefix] THEN Decode[prefix][buf] ELSE <<>>
           OK(r) == Drew(s, r) /\ Used(r)
<1>1. s \in EngineState
  BY GoodIsBase
<1>2. \A p, b : OK(Typing(p, b))
  <2> TAKE p, b
  <2> DEFINE t == [s EXCEPT !.phase = CodeInput(p, b)]
  <2>1. t.stack = s.stack /\ t.raw = s.raw /\ t.phase.tag = "CodeInput"
    BY <1>1 DEF EngineState, CodeInput
  <2> HIDE DEF t
  <2>2. OK(R(t, Preedit(t)))
    BY <2>1, RedrawDrew
  <2>3. QED
    BY <2>2 DEF t
<1>3. OK(R(s, Preedit(s)))
  BY RedrawDrew
<1>4. OK(R(BackToKana(s), ClearPreedit)) /\ OK(R(BackToKana(s), Commit(decoded)))
  BY <1>1, ResetIdle, Clearing, ClearDrew DEF R, Used
<1>5. HandleCodeInput(s, e)
        = IF e.key = "Escape" THEN R(BackToKana(s), ClearPreedit)
          ELSE IF e.key = "BackSpace"
               THEN IF buf # <<>> THEN Typing(prefix, Front(buf))
                    ELSE IF prefix = "Unicode" THEN Typing("Jis", <<>>)
                    ELSE R(BackToKana(s), ClearPreedit)
          ELSE IF prefix = "Jis" /\ buf = <<>> /\ e.key = "u" THEN Typing("Unicode", <<>>)
          ELSE IF e.key = "Return" \/ IsCtrl(e, "j") THEN R(BackToKana(s), Commit(decoded))
          ELSE IF e.key \in Hex /\ ~e.ctrl THEN Typing(prefix, Append(buf, Lower[e.key]))
          ELSE R(s, Preedit(s))
  BY DEF HandleCodeInput
<1>6. /\ OK(Typing(prefix, Front(buf))) /\ OK(Typing("Jis", <<>>)) /\ OK(Typing("Unicode", <<>>))
      /\ OK(Typing(prefix, Append(buf, Lower[e.key])))
  BY <1>2
<1> HIDE DEF buf, prefix, Typing, decoded, OK
<1>7. OK(HandleCodeInput(s, e))
  BY <1>3, <1>4, <1>5, <1>6
<1>8. QED
  BY <1>7 DEF OK

(* the keys of direct input,                                               *)
LEMMA HandleAsciiDrew ==
  ASSUME NEW s, Good(s), s.phase.tag = "Ascii", NEW e \in Events
  PROVE  Drew(s, HandleAscii(s, e)) \/ Left(s, HandleAscii(s, e))
<1> DEFINE t == [s EXCEPT !.phase = Kana("Hiragana")]
<1>1. s \in EngineState /\ s.kana = <<>>
  BY GoodIsBase DEF Good, PendingOnce, KanaMode
<1>2. t.stack = s.stack /\ t.raw = s.raw /\ Idle(t)
  BY <1>1 DEF EngineState, Kana, Idle, KanaMode
<1> HIDE DEF t
<1>3. Drew(s, R(t, ClearPreedit))
  BY <1>2, Clearing, ClearDrew
<1>4. Left(s, R(s, Passthrough))
  BY DEF Left, R, Passthrough, Nothing
<1>5. QED
  BY <1>3, <1>4 DEF HandleAscii, t

(* the keys of wide input,                                                 *)
LEMMA HandleWideAsciiDrew ==
  ASSUME NEW s, Good(s), s.phase.tag = "WideAscii", NEW e \in Events
  PROVE  Drew(s, HandleWideAscii(s, e)) \/ Left(s, HandleWideAscii(s, e))
<1> DEFINE t == [s EXCEPT !.phase = Kana("Hiragana")]
           u == IF ViEscape THEN [s EXCEPT !.phase = Ascii] ELSE s
           wide == R(s, [Nothing EXCEPT !.text = Wide[CharOf(e)]])
<1>1. s \in EngineState /\ s.kana = <<>>
  BY GoodIsBase DEF Good, PendingOnce, KanaMode
<1>2. t.stack = s.stack /\ t.raw = s.raw /\ Idle(t)
  BY <1>1 DEF EngineState, Kana, Idle, KanaMode
<1>3. u.stack = s.stack /\ u.raw = s.raw /\ Idle(u)
  BY <1>1 DEF EngineState, Ascii, Idle
<1>4. \/ HandleWideAscii(s, e) = R(t, ClearPreedit)
      \/ HandleWideAscii(s, e) = R(u, [ClearPreedit EXCEPT !.pass = TRUE])
      \/ HandleWideAscii(s, e) = wide
      \/ HandleWideAscii(s, e) = R(s, Passthrough)
  BY DEF HandleWideAscii
<1> HIDE DEF t, u
<1>5. Drew(s, R(t, ClearPreedit)) /\ Drew(s, R(u, [ClearPreedit EXCEPT !.pass = TRUE]))
  BY <1>2, <1>3, Clearing, ClearDrew
<1>6. Left(s, R(s, Passthrough)) /\ Left(s, wide)
  BY DEF Left, R, Passthrough, Nothing
<1>7. QED
  BY <1>4, <1>5, <1>6
----------------------------------------------------------------------------
(* Text committed before something else is drawn.                          *)
LEMMA TextThenDrew ==
  ASSUME NEW s, NEW t, NEW text, NEW o, Drew(s, R(t, o))
  PROVE  Drew(s, R(t, Then([Nothing EXCEPT !.text = text], o)))
  BY DEF Drew, R, Then, Later, Nothing

(* No rule gives back the letter typed at the start state.                 *)
LEMMA NoRuleFromStart ==
  ASSUME NEW ch, NEW mode
  PROVE  LET t == Transition(<<>>, ch, mode) IN t.kind # "Ok" => t.next = <<>>
  BY DEF Transition

(* A letter in a kana mode, with no romaji pending,                        *)
LEMMA FeedFromStartDrew ==
  ASSUME NEW s \in EngineState, s.phase.tag \in KanaMode, NEW ch \in Letter
  PROVE  Drew(s, FeedFromStart(s, ch))
<1> DEFINE t   == Transition(<<>>, ch, s.phase.tag)
           fed == [s EXCEPT !.kana = t.next]
<1>1. fed.stack = s.stack /\ fed.raw = s.raw /\ fed.phase = s.phase /\ fed.kana = t.next
  BY DEF EngineState
<1>2. t.kind # "Ok" => Idle(fed)
  BY <1>1, NoRuleFromStart DEF Idle
<1>3. FeedFromStart(s, ch)
        = IF t.kind = "Ok" THEN R(fed, Then([Nothing EXCEPT !.text = t.output], Preedit(fed)))
                           ELSE R(fed, Commit(<<ch>>))
  BY DEF FeedFromStart
<1> HIDE DEF t, fed
<1>4. Drew(s, R(fed, Preedit(fed)))
  BY <1>1, RedrawDrew DEF KanaMode
<1>5. t.kind # "Ok" => Drew(s, R(fed, Commit(<<ch>>)))
  BY <1>1, <1>2, Clearing, ClearDrew
<1>6. QED
  BY <1>3, <1>4, <1>5, TextThenDrew

(* and with some,                                                          *)
LEMMA FeedKanaDrew ==
  ASSUME NEW s \in EngineState, s.phase.tag \in KanaMode, NEW ch \in Letter
  PROVE  Drew(s, FeedKana(s, ch))
<1> DEFINE t     == Transition(s.kana, ch, s.phase.tag)
           fed   == [s EXCEPT !.kana = t.next]
           idle  == [s EXCEPT !.kana = <<>>]
           again == FeedFromStart(idle, ch)
           twice == R(again.eng, Then([Nothing EXCEPT !.text = t.output], again.out))
<1>1. fed.stack = s.stack /\ fed.raw = s.raw /\ fed.phase = s.phase
  BY DEF EngineState
<1>2. idle \in EngineState /\ idle.stack = s.stack /\ idle.raw = s.raw /\ idle.phase = s.phase
  BY EmptyTyped DEF EngineState
<1>3. \/ FeedKana(s, ch) = FeedFromStart(s, ch)
      \/ FeedKana(s, ch) = R(fed, Then([Nothing EXCEPT !.text = t.output], Preedit(fed)))
      \/ FeedKana(s, ch) = twice
  BY DEF FeedKana
<1> HIDE DEF t, fed, idle
<1>4. Drew(s, R(fed, Preedit(fed)))
  BY <1>1, RedrawDrew DEF KanaMode
<1>5. Drew(s, again)
  BY <1>2, FeedFromStartDrew, DrewFrom
<1>6. again = R(again.eng, again.out)
  BY DEF FeedFromStart, R
<1> HIDE DEF again
<1>7. Drew(s, twice)
  BY <1>5, <1>6, TextThenDrew
<1>8. QED
  BY <1>3, <1>4, <1>7, TextThenDrew, FeedFromStartDrew

(* the keys that change mode,                                              *)
LEMMA KanaModeKeyDrew ==
  ASSUME NEW s \in EngineState, s.phase.tag \in KanaMode, s.kana = <<>>, NEW ch
  PROVE  Drew(s, KanaModeKey(s, ch))
<1> DEFINE ascii  == [s EXCEPT !.phase = Ascii]
           wide   == [s EXCEPT !.phase = WideAscii]
           mode   == IF s.phase.tag = "Hiragana" THEN "Katakana" ELSE "Hiragana"
           kana   == [s EXCEPT !.phase = Kana(mode)]
           abbrev == [s EXCEPT !.phase = Abbrev(<<>>), !.display = s.phase.tag, !.abbrev = TRUE]
<1>1. /\ ascii.stack = s.stack /\ ascii.raw = s.raw /\ Idle(ascii)
      /\ wide.stack = s.stack /\ wide.raw = s.raw /\ Idle(wide)
      /\ kana.stack = s.stack /\ kana.raw = s.raw /\ Idle(kana)
      /\ abbrev.stack = s.stack /\ abbrev.raw = s.raw /\ abbrev.phase.tag = "Abbrev"
  BY DEF EngineState, Idle, Ascii, WideAscii, Kana, Abbrev, KanaMode
<1>2. \/ KanaModeKey(s, ch) = R(ascii, ClearPreedit)
      \/ KanaModeKey(s, ch) = R(wide, ClearPreedit)
      \/ KanaModeKey(s, ch) = R(kana, ClearPreedit)
      \/ KanaModeKey(s, ch) = R(abbrev, Preedit(abbrev))
  BY DEF KanaModeKey
<1> HIDE DEF ascii, wide, mode, kana, abbrev
<1>3. QED
  BY <1>1, <1>2, Clearing, ClearDrew, RedrawDrew

(* and so every key of a kana mode.                                        *)
LEMMA HandleKanaDrew ==
  ASSUME NEW s, KanaFields(s), NEW e \in Events, NEW d
  PROVE  Drew(s, HandleKana(s, e, d)) \/ Left(s, HandleKana(s, e, d))
<1> DEFINE ch   == CharOf(e)
           mode == s.phase.tag
           idle == [s EXCEPT !.kana = <<>>]
           other == IF mode = "HalfWidth" THEN "Hiragana" ELSE "HalfWidth"
           half == [idle EXCEPT !.phase = Kana(other)]
           esc  == IF ViEscape THEN [idle EXCEPT !.phase = Ascii] ELSE idle
           popped == [s EXCEPT !.kana = Front(s.kana)]
           midashi == [s EXCEPT !.phase = Midashi(<<>>, <<>>), !.display = mode, !.abbrev = FALSE]
           code == [s EXCEPT !.phase = CodeInput("Jis", <<>>), !.display = mode]
<1>1. s \in EngineState /\ mode \in KanaMode
  BY GoodIsBase DEF KanaFields
<1>2. /\ idle.stack = s.stack /\ idle.raw = s.raw /\ idle.phase = s.phase /\ idle.kana = <<>>
      /\ half.stack = s.stack /\ half.raw = s.raw /\ Idle(half)
      /\ esc.stack = s.stack /\ esc.raw = s.raw /\ Idle(esc)
      /\ popped.stack = s.stack /\ popped.raw = s.raw /\ popped.phase = s.phase
      /\ code.stack = s.stack /\ code.raw = s.raw /\ code.phase.tag = "CodeInput"
  BY <1>1 DEF EngineState, Idle, Kana, Ascii, CodeInput, KanaMode
<1>3. s.kana = <<>> =>
        /\ midashi \in EngineState /\ midashi.stack = s.stack /\ midashi.raw = s.raw
        /\ midashi.kana = <<>> /\ midashi.phase = Midashi(<<>>, <<>>)
  BY <1>1, EmptyTyped, ReadingPhase DEF EngineState
<1>4. HandleKana(s, e, d)
        = IF IsCtrl(e, "j") THEN R(ToHiragana(s), ClearPreedit)
          ELSE IF IsCtrl(e, "q") THEN R(half, ClearPreedit)
          ELSE IF e.key = "Escape" THEN R(esc, [ClearPreedit EXCEPT !.pass = TRUE])
          ELSE IF e.key = "BackSpace" /\ s.kana # <<>> THEN R(popped, Preedit(popped))
          ELSE IF ~Printable(e) THEN R(s, Passthrough)
          ELSE IF e.ctrl THEN R(idle, Passthrough)
          ELSE IF s.kana = <<>> /\ ch \in ModeKeys THEN KanaModeKey(s, ch)
          ELSE IF s.kana = <<>> /\ Upper(ch) THEN HandleMidashi(midashi, e, d)
          ELSE IF s.kana = <<>> /\ ch = "\\" THEN R(code, Preedit(code))
          ELSE FeedKana(s, ch)
  BY DEF HandleKana
<1> HIDE DEF idle, half, esc, popped, midashi, code, other
<1>5. Drew(s, R(ToHiragana(s), ClearPreedit))
  BY <1>1, ResetIdle, Clearing, ClearDrew
<1>6. Drew(s, R(half, ClearPreedit)) /\ Drew(s, R(esc, [ClearPreedit EXCEPT !.pass = TRUE]))
  BY <1>2, Clearing, ClearDrew
<1>7. Drew(s, R(popped, Preedit(popped))) /\ Drew(s, R(code, Preedit(code)))
  BY <1>1, <1>2, RedrawDrew DEF KanaMode
<1>8. Left(s, R(s, Passthrough)) /\ Left(s, R(idle, Passthrough))
  BY <1>2 DEF Left, R, Passthrough, Nothing
<1>9. Printable(e) => ch \in Letter
  BY CharTyped
<1> HIDE DEF ch
<1>10. s.kana = <<>> /\ Printable(e) => Drew(s, HandleMidashi(midashi, e, d))
  <2>1. SUFFICES ASSUME s.kana = <<>>, Printable(e) PROVE Drew(s, HandleMidashi(midashi, e, d))
    OBVIOUS
  <2>2. Reading(midashi)
    BY <1>3, <2>1, GoodIsBase, EmptyTyped, ReadingStep, ReadingPhase DEF Reading, KanaFields
  <2>3. Drew(midashi, HandleMidashi(midashi, e, d))
    BY <2>1, <2>2, HandleMidashiDrew
  <2>4. QED
    BY <1>3, <2>1, <2>3, DrewFrom
<1>11. s.kana = <<>> => Drew(s, KanaModeKey(s, ch))
  BY <1>1, KanaModeKeyDrew
<1>12. Printable(e) => Drew(s, FeedKana(s, ch))
  BY <1>1, <1>9, FeedKanaDrew
<1>13. QED
  BY <1>4, <1>5, <1>6, <1>7, <1>8, <1>10, <1>11, <1>12
----------------------------------------------------------------------------
(* A key that converts nothing.                                            *)
Still(s, r) == r.eng.stack = s.stack /\ r.eng.phase.tag # "Selecting"

(* A letter typed into an empty reading converts nothing, unless a rule of *)
(* one letter gives a word that ends with a trigger.                       *)
LEMMA FirstLetterStill ==
  ASSUME TriggersStandAlone, NEW s \in EngineState, NEW ch \in Letter, NEW ctrl,
         NEW d
  PROVE  Still(s, MidashiFromStart(s, <<>>, ch, ctrl, d))
<1> DEFINE t == Transition(<<>>, ch, "Hiragana")
           still == [s EXCEPT !.phase = Midashi(<<>>, <<>>), !.kana = <<>>]
           read    == <<>> \o t.output
           partial == NoGhost([s EXCEPT !.phase = Midashi(read, t.next), !.kana = t.next])
           done    == [s EXCEPT !.phase = Midashi(read, <<>>), !.kana = <<>>,
                                !.completion = Completion(read, d)]
           alone == R(NoGhost(BackToKana(s)), Commit(<<Last(read)>>))
<1>1. t \in TransitionResult
  BY EmptyTyped, TransitionTyped DEF KanaMode
<1>2. t.output \in Text /\ read = t.output
  BY <1>1, ConcatEmptySeq DEF TransitionResult, Text
<1>3. /\ still.stack = s.stack /\ still.phase.tag = "Midashi"
      /\ partial.stack = s.stack /\ partial.phase.tag = "Midashi"
      /\ done.stack = s.stack /\ done.phase.tag = "Midashi"
  BY DEF EngineState, Midashi, NoGhost
<1>4. MidashiFromStart(s, <<>>, ch, ctrl, d)
        = IF t.kind = "Ok" THEN MidashiFed(s, <<>>, t, d) ELSE R(still, Preedit(still))
  BY DEF MidashiFromStart
<1>5. MidashiFed(s, <<>>, t, d)
        = IF t.output = <<>> \/ t.next # <<>> THEN R(partial, Preedit(partial))
          ELSE IF Last(read) \notin Letter /\ Last(read) \in TriggerChars
               THEN ConvertWithTrigger(s, Front(read), <<Last(read)>>, d)
          ELSE R(done, Preedit(done))
  BY DEF MidashiFed
<1>6. Len(t.output) > 1 /\ t.next = <<>> => Last(t.output) \notin TriggerChars
  BY DEF TriggersStandAlone
<1>7. t.output # <<>> /\ Len(t.output) <= 1 => Front(read) = <<>>
  <2>1. SUFFICES ASSUME t.output # <<>>, Len(t.output) <= 1 PROVE Front(read) = <<>>
    OBVIOUS
  <2>2. read \in Seq(Glyph) /\ read # <<>> /\ Len(read) <= 1
    BY <1>2, <2>1 DEF Text
  <2> HIDE DEF read
  <2>3. Front(read) \in Seq(Glyph) /\ Len(Front(read)) = 0
    BY <2>2, FrontTyped, EmptySeq
  <2>4. QED
    BY <2>3, EmptySeq
<1>8. ConvertWithTrigger(s, <<>>, <<Last(read)>>, d) = alone
  BY DEF ConvertWithTrigger
<1>9. alone.eng.stack = s.stack /\ alone.eng.phase.tag # "Selecting"
  BY ResetIdle DEF R, Idle, KanaMode
<1>10. Len(t.output) \in Nat
  BY <1>2 DEF Text
<1>11. t.output # <<>> /\ t.next = <<>> /\ Last(read) \in TriggerChars => Front(read) = <<>>
  BY <1>2, <1>6, <1>7, <1>10
<1> HIDE DEF t, still, read, partial, done, alone
<1>12. \/ MidashiFromStart(s, <<>>, ch, ctrl, d) = R(partial, Preedit(partial))
       \/ MidashiFromStart(s, <<>>, ch, ctrl, d) = R(still, Preedit(still))
       \/ MidashiFromStart(s, <<>>, ch, ctrl, d) = R(done, Preedit(done))
       \/ MidashiFromStart(s, <<>>, ch, ctrl, d) = alone
  BY <1>4, <1>5, <1>8, <1>11
<1>13. /\ Still(s, R(partial, Preedit(partial))) /\ Still(s, R(still, Preedit(still)))
       /\ Still(s, R(done, Preedit(done))) /\ Still(s, alone)
  BY <1>3, <1>9 DEF Still, R
<1>14. QED
  BY <1>12, <1>13

(* So no key but the space bar and the affix marks does, typed after a     *)
(* candidate was committed.                                                *)
LEMMA AfterCommitStill ==
  ASSUME TriggersStandAlone, NEW s, KanaFields(s), s.kana = <<>>,
         NEW e \in Events, Printable(e), e.key # "Space", ~e.ctrl, CharOf(e) \notin Affix,
         NEW d
  PROVE  Still(s, HandleKana(s, e, d))
<1> DEFINE ch   == CharOf(e)
           mode == s.phase.tag
           m == [s EXCEPT !.phase = Midashi(<<>>, <<>>), !.display = mode, !.abbrev = FALSE]
           code == [s EXCEPT !.phase = CodeInput("Jis", <<>>), !.display = mode]
<1>1. s \in EngineState /\ mode \in KanaMode
  BY GoodIsBase DEF KanaFields
<1>2. /\ m \in EngineState /\ m.stack = s.stack /\ m.kana = <<>>
      /\ m.phase = Midashi(<<>>, <<>>)
  BY <1>1, EmptyTyped, ReadingPhase DEF EngineState
<1>3. ch \in Letter /\ Lower[ch] \in Letter /\ e.key \in Letter
  BY CharTyped, LowerIsLetter
<1>4. e.key \notin Named
  BY <1>3, EngineAssumption DEF EngineAssumption
<1>5. code.stack = s.stack /\ code.phase.tag = "CodeInput"
  BY <1>1 DEF EngineState, CodeInput
<1>6. HandleKana(s, e, d)
        = IF ch \in ModeKeys THEN KanaModeKey(s, ch)
          ELSE IF Upper(ch) THEN HandleMidashi(m, e, d)
          ELSE IF ch = "\\" THEN R(code, Preedit(code))
          ELSE FeedFromStart(s, ch)
  BY <1>4 DEF HandleKana, IsCtrl, Named, FeedKana
<1>7. Still(s, KanaModeKey(s, ch))
  BY <1>1 DEF KanaModeKey, Still, R, EngineState, Ascii, WideAscii, Kana, Abbrev
<1>8. Still(s, FeedFromStart(s, ch))
  BY <1>1 DEF FeedFromStart, Still, R, EngineState, KanaMode
<1>9. Still(s, R(code, Preedit(code)))
  BY <1>5 DEF Still, R
<1> HIDE DEF m, code
<1>10. m.phase.kana = <<>> /\ m.phase.roman = <<>>
  BY <1>2 DEF Midashi
<1>11. FlushN(m.phase.kana, m.phase.roman) = <<>>
  BY <1>10 DEF FlushN
<1>12. HandleMidashi(m, e, d)
         = IF ch \in TriggerChars THEN MidashiTrigger(m, <<>>, ch, d)
           ELSE IF ch \in Digit THEN MidashiDigit(m, <<>>, ch)
           ELSE MidashiFromStart(m, <<>>, Lower[ch], e.ctrl, d)
  BY <1>2, <1>4, <1>10, <1>11 DEF HandleMidashi, IsCtrl, Named, MidashiLetter
<1>13. Still(m, MidashiFromStart(m, <<>>, Lower[ch], e.ctrl, d))
  BY <1>2, <1>3, FirstLetterStill
<1>14. Still(m, MidashiDigit(m, <<>>, ch))
  BY <1>2 DEF MidashiDigit, Still, R, NoGhost, EngineState, Midashi
<1>15. Still(m, MidashiTrigger(m, <<>>, ch, d))
  <2>1. MidashiTrigger(m, <<>>, ch, d).eng = NoGhost(BackToKana(m))
    BY DEF MidashiTrigger, ConvertWithTrigger, R
  <2>2. QED
    BY <1>2, <2>1, ResetIdle DEF Still, Idle, KanaMode
<1>16. Still(s, HandleMidashi(m, e, d))
  BY <1>2, <1>12, <1>13, <1>14, <1>15 DEF Still
<1>17. QED
  BY <1>6, <1>7, <1>8, <1>9, <1>16
----------------------------------------------------------------------------
(* What every handler answers.  The last part is about the keys of a       *)
(* selection: a recorded word was visible, and no candidate is passed over. *)
Visible(sel, c) == \E i \in DOMAIN sel.cands :
    /\ sel.index < i /\ i <= sel.index + PageSize(sel.index)
    /\ ~sel.cands[i].synthetic
    /\ c.word = sel.cands[i].template
Offers(s, t) ==
    /\ t.phase.tag = "Selecting" => NoneSkipped(s.phase, t.phase)
    /\ Len(t.stack) > Len(s.stack)
          => s.phase.index + PageSize(s.phase.index) >= Len(s.phase.cands)
Handled(s, r) ==
    /\ Keeps(s, r.eng)
    /\ PagesAligned(s) => PagesAligned(r.eng)
    /\ r.eng.phase.tag = "Selecting" /\ Listing(r.eng.phase.index)
          => \/ r.out.window = "shown"
             \/ r.out.window = "keep" /\ r.eng.phase = s.phase
    /\ r.out.preedit = "keep" /\ PreeditShown(r.eng) => PreeditShown(s)
    /\ r.out.preedit = "hidden" /\ r.eng.stack = <<>> => ~PreeditShown(r.eng)
    /\ s.phase.tag = "Selecting" =>
          /\ r.out.call.op = "learn" => Visible(s.phase, r.out.call)
          /\ TriggersStandAlone /\ PagesAligned(s) => Offers(s, r.eng)

(* So do the handlers of the typing phases.                                *)
LEMMA TypingHandled ==
  ASSUME NEW s, s.phase.tag # "Selecting", NEW r, Drew(s, r) \/ Left(s, r)
  PROVE  Handled(s, r)
<1>1. CASE Drew(s, r)
  BY <1>1 DEF Drew, Handled, PagesAligned
<1>2. CASE Left(s, r)
  BY <1>2 DEF Left, Handled, PagesAligned, Keeps, PreeditShown
<1>3. QED
  BY <1>1, <1>2

(* A key that a selection does not know.                                   *)
LEMMA LeftHandled ==
  ASSUME NEW s, Choosing(s), NEW r, r.eng = s, r.out.preedit = "keep", r.out.window = "keep",
         r.out.call = NoCall
  PROVE  Handled(s, r)
<1>1. s.phase.index \in Nat /\ Len(SelectionKeys) \in Nat
  BY ChoosingFields, EngineAssumption DEF EngineAssumption
<1>2. NoneSkipped(s.phase, s.phase)
  BY <1>1 DEF NoneSkipped, PageSize
<1>3. s.stack \in Seq(Frame)
  BY ChoosingFields DEF EngineState
<1>4. Offers(s, r.eng)
  <2>1. Len(s.stack) \in Nat
    BY <1>3
  <2>2. QED
    BY <1>2, <2>1 DEF Offers
<1>5. QED
  BY <1>4 DEF Handled, Keeps, NoCall

(* A key that ends the selection without converting anew.                  *)
LEMMA EndedHandled ==
  ASSUME NEW s, Choosing(s), NEW t, t.stack = s.stack, t.raw = s.raw,
         t.phase.tag # "Selecting", PagesAligned(s) => PagesAligned(t),
         NEW o, o.preedit # "keep",
         o.preedit = "hidden" /\ t.stack = <<>> => ~PreeditShown(t),
         o.call.op = "learn" => Visible(s.phase, o.call)
  PROVE  Handled(s, R(t, o))
<1>1. Len(s.stack) \in Nat
  BY ChoosingFields DEF EngineState
<1>2. QED
  BY <1>1 DEF Handled, Keeps, R, Offers

(* Moving the focus.                                                       *)
LEMMA AtIndexHandled ==
  ASSUME NEW s, Choosing(s), NEW index \in Nat, PagesAligned(s) => Aligned(index),
         PagesAligned(s) => NoneSkipped(s.phase, [s.phase EXCEPT !.index = index]),
         NEW w, Listing(index) => w = "shown"
  PROVE  Handled(s, R(AtIndex(s, index).eng, [AtIndex(s, index).out EXCEPT !.window = w]))
<1> DEFINE p == [s.phase EXCEPT !.index = index]
           t == [s EXCEPT !.phase = p]
           o == [[Preedit(t) EXCEPT !.window = ListingWindow(index)] EXCEPT !.window = w]
<1>1. s \in EngineState /\ s.phase \in SelectingPhase
  BY ChoosingFields
<1>2. p.tag = "Selecting" /\ p.index = index
  BY <1>1 DEF SelectingPhase
<1>3. AtIndex(s, index).eng = t /\ [AtIndex(s, index).out EXCEPT !.window = w] = o
  BY DEF AtIndex, R
<1>4. t.stack = s.stack /\ t.raw = s.raw /\ t.phase = p
  BY <1>1 DEF EngineState
<1>5. Len(s.stack) \in Nat
  BY <1>1 DEF EngineState
<1> HIDE DEF p, t
<1>6. o.preedit = (IF PreeditShown(t) THEN "shown" ELSE "hidden") /\ o.window = w /\ o.call = NoCall
  BY DEF Preedit, Nothing
<1> HIDE DEF o
<1>7. PagesAligned(s) => Offers(s, t)
  BY <1>2, <1>4, <1>5 DEF Offers, p
<1>8. PagesAligned(s) => PagesAligned(t)
  BY <1>2, <1>4 DEF PagesAligned
<1>9. Handled(s, R(t, o))
  BY <1>2, <1>4, <1>6, <1>7, <1>8 DEF Handled, Keeps, R, NoCall
<1>10. QED
  BY <1>3, <1>9

(* Back to the reading.                                                    *)
LEMMA CancelSelectionHandled ==
  ASSUME NEW s, Choosing(s), NEW d
  PROVE  Handled(s, CancelSelection(s, d))
<1> DEFINE back == [s EXCEPT !.phase = Midashi(s.phase.midashi, <<>>), !.kana = <<>>,
                             !.trigger = <<>>,
                             !.completion = Completion(s.phase.midashi, d)]
           o == [Preedit(back) EXCEPT !.window = "hidden"]
<1>1. back.stack = s.stack /\ back.raw = s.raw /\ back.phase.tag = "Midashi"
  BY ChoosingFields DEF EngineState, Midashi
<1>2. CancelSelection(s, d) = R(back, o)
  BY DEF CancelSelection
<1> HIDE DEF back
<1>3. o.preedit = (IF PreeditShown(back) THEN "shown" ELSE "hidden") /\ o.call.op = "none"
  BY DEF Preedit, Nothing, NoCall
<1> HIDE DEF o
<1>4. QED
  BY <1>1, <1>2, <1>3, EndedHandled DEF PagesAligned

(* What the focus leaves behind when it moves.                             *)
LEMMA FocusMoved ==
  ASSUME NEW s, Choosing(s)
  PROVE  /\ s.phase.index \in Nat /\ PageSize(s.phase.index) \in Nat
         /\ PageSize(s.phase.index) > 0
         /\ \A i : [s.phase EXCEPT !.index = i].index = i
<1>1. s.phase.index \in Nat /\ Len(SelectionKeys) \in Nat /\ s.phase \in SelectingPhase
  BY ChoosingFields, EngineAssumption DEF EngineAssumption
<1>2. QED
  BY <1>1 DEF PageSize, Listing, SelectingPhase

(* A size of a page.                                                       *)
LEMMA PageSizeTyped ==
  ASSUME NEW index \in Nat
  PROVE  PageSize(index) \in Nat
  BY EngineAssumption DEF EngineAssumption, PageSize

(* Back one candidate or one page.                                         *)
LEMMA SelectPreviousHandled ==
  ASSUME NEW s, Choosing(s), s.phase.index # 0
  PROVE  Handled(s, SelectPrevious(s))
<1> DEFINE i == s.phase.index
           j == PreviousIndex(i)
           p == [s.phase EXCEPT !.index = j]
           r == AtIndex(s, j)
           Shows(w) == R(r.eng, [r.out EXCEPT !.window = w])
<1>1. i \in Nat /\ PageSize(i) \in Nat /\ p.index = j
  BY FocusMoved
<1>2. j \in Nat /\ j <= i
  BY <1>1, PreviousIndexInRange
<1>3. PageSize(j) \in Nat
  BY <1>2, PageSizeTyped
<1>4. PagesAligned(s) => Aligned(j) /\ i <= j + PageSize(j)
  BY <1>1, PreviousAligned DEF PagesAligned, Choosing
<1>5. PagesAligned(s) => NoneSkipped(s.phase, p)
  <2> HIDE DEF j
  <2>1. j <= i + PageSize(i)
    BY <1>1, <1>2
  <2>2. QED
    BY <1>1, <1>4, <2>1 DEF NoneSkipped
<1>6. r.out.window = ListingWindow(j) /\ r = R(r.eng, [r.out EXCEPT !.window = ListingWindow(j)])
  BY DEF AtIndex, R, Preedit, Nothing
<1>7. SelectPrevious(s) = IF Listing(i) /\ ~Listing(j)
                          THEN [r EXCEPT !.out.window = "hidden"] ELSE r
  BY DEF SelectPrevious
<1>8. [r EXCEPT !.out.window = "hidden"] = Shows("hidden")
  BY DEF AtIndex, R
<1>9. \A w : (Listing(j) => w = "shown") => Handled(s, Shows(w))
  <2> TAKE w
  <2> HAVE Listing(j) => w = "shown"
  <2> HIDE DEF j
  <2>1. QED
    BY <1>2, <1>4, <1>5, AtIndexHandled
<1> HIDE DEF i, j, r, Shows
<1>10. Listing(j) => ListingWindow(j) = "shown"
  BY DEF ListingWindow
<1>11. Handled(s, Shows(ListingWindow(j)))
  BY <1>9, <1>10
<1>12. ~Listing(j) => Handled(s, Shows("hidden"))
  BY <1>9
<1>13. Handled(s, r)
  BY <1>6, <1>11 DEF Shows
<1>14. QED
  BY <1>7, <1>8, <1>12, <1>13

(* On to the next candidate or page, or into a registration.               *)
LEMMA SelectNextHandled ==
  ASSUME NEW s, Choosing(s)
  PROVE  Handled(s, SelectNext(s))
<1> DEFINE i == s.phase.index
           next == i + PageSize(i)
           p == [s.phase EXCEPT !.index = next]
           r == AtIndex(s, next)
<1>1. i \in Nat /\ PageSize(i) \in Nat /\ PageSize(i) > 0 /\ p.index = next
  BY FocusMoved
<1>2. SelectNext(s) = IF next >= Len(s.phase.cands) THEN EnterRegisterFromSelecting(s) ELSE r
  BY DEF SelectNext, PageSize
<1>3. Handled(s, r)
  <2>1. next \in Nat /\ PageSize(next) \in Nat
    BY <1>1, PageSizeTyped
  <2>2. PagesAligned(s) => Aligned(next)
    BY <1>1, NextAligned DEF PagesAligned, Choosing
  <2>3. NoneSkipped(s.phase, p)
    <3>1. i <= next + PageSize(next) /\ next <= i + PageSize(i)
      <4> HIDE DEF i
      <4>1. QED
        BY <1>1, <2>1
    <3>2. QED
      BY <1>1, <3>1 DEF NoneSkipped
  <2>4. r = R(r.eng, [r.out EXCEPT !.window = ListingWindow(next)])
    BY DEF AtIndex, R, Preedit, Nothing
  <2>5. Listing(next) => ListingWindow(next) = "shown"
    BY DEF ListingWindow
  <2> HIDE DEF next
  <2>6. Handled(s, R(AtIndex(s, next).eng, [AtIndex(s, next).out EXCEPT !.window = ListingWindow(next)]))
    BY <2>1, <2>2, <2>3, <2>5, AtIndexHandled
  <2>7. QED
    BY <2>4, <2>6
<1>4. next >= Len(s.phase.cands) => Handled(s, EnterRegisterFromSelecting(s))
  <2> DEFINE t == [s EXCEPT !.trigger = <<>>]
             f == NewFrame(t, s.phase.midashi, s.phase.okuriKey, s.phase.okuri)
             reg == EnterRegister(t, s.phase.midashi, s.phase.okuriKey, s.phase.okuri)
             o == [Preedit(reg) EXCEPT !.window = "hidden"]
  <2>1. /\ s \in EngineState /\ s.phase.midashi \in Text /\ s.phase.okuri \in Text
        /\ s.phase.okuriKey \in Text
    BY ChoosingFields
  <2>2. t \in EngineState /\ t.stack = s.stack /\ t.raw = s.raw
    BY <2>1, EmptyTyped DEF EngineState
  <2>3. s.stack \in Seq(Frame) /\ f \in Frame
    BY <2>1, <2>2, NewFrameOK DEF FrameOK, EngineState
  <2>4. EnterRegisterFromSelecting(s) = R(reg, o)
    BY DEF EnterRegisterFromSelecting
  <2>5. reg = [ToHiragana(t) EXCEPT !.stack = Append(t.stack, f)]
    BY DEF EnterRegister
  <2> HIDE DEF t, f
  <2>6. reg.stack = Append(t.stack, f) /\ reg.raw = t.raw /\ reg.phase.tag = "Hiragana"
    BY <2>2, <2>5 DEF EngineState, ToHiragana, Kana
  <2> HIDE DEF reg
  <2>7. /\ Len(reg.stack) = Len(s.stack) + 1
        /\ \A k \in 1 .. Len(s.stack) : reg.stack[k] = s.stack[k]
    BY <2>2, <2>3, <2>6, AppendProperties
  <2>8. o.preedit = (IF PreeditShown(reg) THEN "shown" ELSE "hidden") /\ o.call.op = "none"
    BY DEF Preedit, Nothing, NoCall
  <2> HIDE DEF o
  <2>9. next >= Len(s.phase.cands) => Offers(s, reg)
    BY <2>6 DEF Offers
  <2>10. QED
    BY <2>2, <2>4, <2>6, <2>7, <2>8, <2>9 DEF Handled, Keeps, R, PagesAligned
<1> HIDE DEF next, r
<1>5. QED
  BY <1>2, <1>3, <1>4
(* Choosing a visible candidate.                                           *)
LEMMA CommitCandidateHandled ==
  ASSUME NEW s, Choosing(s), NEW index \in Nat, index < Len(s.phase.cands),
         s.phase.index <= index, index < s.phase.index + PageSize(s.phase.index)
  PROVE  LET r == CommitCandidate(s, s.phase, index)
         IN  /\ r = R(r.eng, r.out)
             /\ Idle(r.eng) /\ r.eng.stack = s.stack /\ r.eng.raw = s.raw
             /\ r.eng.phase = Kana(s.display)
             /\ r.out.preedit = "hidden" /\ r.out.window = "hidden"
             /\ r.out.call.op = "learn" => Visible(s.phase, r.out.call)
<1> DEFINE p == s.phase
           chosen == p.cands[index + 1]
           b == BackToKana(s)
           t == [b EXCEPT !.trigger = <<>>]
           text == chosen.word \o p.okuri \o s.trigger
           c == IF chosen.synthetic THEN NoCall ELSE LearnedEntry(p, index)
           o == [Commit(text) EXCEPT !.window = "hidden", !.call = c]
<1>1. s \in EngineState /\ s.display \in KanaMode /\ p.index \in Nat /\ p.cands \in Seq(Candidate)
  BY ChoosingFields
<1>2. CommitCandidate(s, p, index) = R(t, o)
  BY DEF CommitCandidate
<1>3. /\ t.stack = s.stack /\ t.raw = s.raw /\ t.kana = <<>> /\ t.phase = Kana(s.display)
  BY <1>1 DEF EngineState, BackToKana
<1>4. Idle(t)
  BY <1>1, <1>3 DEF Idle, Kana
<1>5. c.op = "learn" => Visible(p, c)
  <2>1. index + 1 \in DOMAIN p.cands
    BY <1>1, LenProperties
  <2>2. PageSize(p.index) \in Nat
    BY <1>1, PageSizeTyped
  <2>3. p.index < index + 1 /\ index + 1 <= p.index + PageSize(p.index)
    BY <1>1, <2>2
  <2>4. c.op = "learn" => ~chosen.synthetic /\ c.word = chosen.template
    BY DEF NoCall, LearnedEntry
  <2>5. QED
    BY <2>1, <2>3, <2>4 DEF Visible
<1> HIDE DEF t, c, text, b
<1>6. o.preedit = "hidden" /\ o.window = "hidden" /\ o.call = c
  BY DEF Commit, ClearPreedit, Nothing
<1> HIDE DEF o
<1>7. R(t, o).eng = t /\ R(t, o).out = o
  BY DEF R
<1>8. QED
  BY <1>2, <1>3, <1>4, <1>5, <1>6, <1>7

(* So every key of a selection.                                            *)
LEMMA HandleSelectingHandled ==
  ASSUME NEW s, Choosing(s), NEW e \in Events, NEW d
  PROVE  Handled(s, HandleSelecting(s, e, d))
<1> DEFINE p  == s.phase
           ch == CharOf(e)
           picked    == IF Listing(p.index) /\ Printable(e) THEN PickedBy(p, ch) ELSE {}
           choice    == CHOOSE i \in picked : TRUE
           c         == CommitCandidate(s, p, p.index)
           suffix    == [c.eng EXCEPT !.phase = Midashi(<<">">>, <<>>)]
           redone    == HandleKana(c.eng, e, d)
           prompt    == PurgeConfirm(p, <<>>, s.display)
           purge     == [s EXCEPT !.phase = prompt]
<1>1. /\ s \in EngineState /\ Base(s) /\ s.display \in KanaMode /\ p.tag = "Selecting"
      /\ p \in SelectingPhase /\ p.index \in Nat /\ p.index < Len(p.cands)
  BY ChoosingFields DEF Choosing
<1>2. PageSize(p.index) \in Nat /\ PageSize(p.index) > 0
  BY FocusMoved
<1>3. /\ c = R(c.eng, c.out) /\ Idle(c.eng) /\ c.eng.stack = s.stack /\ c.eng.raw = s.raw
      /\ c.eng.phase = Kana(s.display) /\ c.out.preedit = "hidden" /\ c.out.window = "hidden"
      /\ c.out.call.op = "learn" => Visible(p, c.out.call)
  <2>1. p.index <= p.index /\ p.index < p.index + PageSize(p.index)
    BY <1>1, <1>2
  <2>2. QED
    BY <1>1, <2>1, CommitCandidateHandled
<1>4. /\ Good(c.eng) /\ c.eng \in EngineState /\ c.eng.kana = <<>>
  BY <1>1, CommitCandidateOK, GoodIsBase DEF ResultOK
<1>5. /\ [c EXCEPT !.out.del = TRUE] = R(c.eng, [c.out EXCEPT !.del = TRUE])
      /\ [c EXCEPT !.out.pass = TRUE] = R(c.eng, [c.out EXCEPT !.pass = TRUE])
  <2> HIDE DEF c
  <2>1. QED
    BY <1>3, OutputChanged
<1>6. picked # {} => Handled(s, CommitCandidate(s, p, choice))
  <2>1. SUFFICES ASSUME picked # {} PROVE Handled(s, CommitCandidate(s, p, choice))
    OBVIOUS
  <2>2. choice \in picked
    BY <2>1
  <2>3. choice \in PickedBy(p, ch) /\ Listing(p.index)
    BY <2>1, <2>2
  <2> DEFINE r == CommitCandidate(s, p, choice)
  <2> HIDE DEF choice, picked
  <2>4. choice \in Nat /\ choice < Len(p.cands)
    BY <2>3, PickedInRange
  <2>5. /\ choice \in p.index .. (Len(p.cands) - 1)
        /\ choice - p.index + 1 \in DOMAIN SelectionKeys
    BY <2>3 DEF PickedBy
  <2>6. p.index <= choice /\ choice < p.index + PageSize(p.index)
    <3>1. SelectionKeys \in Seq(Letter) /\ PageSize(p.index) = Len(SelectionKeys)
      BY <2>3, EngineAssumption DEF EngineAssumption, PageSize
    <3>2. choice - p.index + 1 <= Len(SelectionKeys)
      BY <2>5, <3>1, LenProperties
    <3>3. QED
      BY <1>1, <1>2, <2>4, <2>5, <3>1, <3>2
  <2>7. /\ r = R(r.eng, r.out) /\ Idle(r.eng) /\ r.eng.stack = s.stack /\ r.eng.raw = s.raw
        /\ r.out.preedit = "hidden"
        /\ r.out.call.op = "learn" => Visible(p, r.out.call)
    BY <2>4, <2>6, CommitCandidateHandled
  <2> HIDE DEF r
  <2>8. Handled(s, R(r.eng, r.out))
    <3>1. r.eng.phase.tag \notin {"Selecting", "PurgeConfirm"}
      BY <2>7 DEF Idle, KanaMode
    <3>2. r.eng.stack = <<>> => ~PreeditShown(r.eng)
      BY <2>7 DEF Idle, PreeditShown, KanaMode
    <3>3. PagesAligned(r.eng)
      BY <3>1 DEF PagesAligned
    <3>4. r.out.call.op = "learn" => Visible(s.phase, r.out.call)
      BY <2>7
    <3>5. r.out.preedit # "keep"
      BY <2>7
    <3>6. r.eng.stack = s.stack /\ r.eng.raw = s.raw /\ r.eng.phase.tag # "Selecting"
      BY <2>7, <3>1
    <3> HIDE DEF p
    <3>7. QED
      BY <3>2, <3>3, <3>4, <3>5, <3>6, EndedHandled
  <2>9. QED
    BY <2>7, <2>8 DEF r
<1>7. HandleSelecting(s, e, d)
        = IF e.key = "Escape" THEN CancelSelection(s, d)
          ELSE IF Printable(e) /\ ch \in CancelKeys
               THEN IF p.index = 0 THEN CancelSelection(s, d) ELSE SelectPrevious(s)
          ELSE IF e.key = "BackSpace" THEN R(c.eng, [c.out EXCEPT !.del = TRUE])
          ELSE IF e.key = "Return" THEN R(c.eng, [c.out EXCEPT !.pass = TRUE])
          ELSE IF IsCtrl(e, "j") THEN c
          ELSE IF e.key = "Space" THEN SelectNext(s)
          ELSE IF picked # {} THEN CommitCandidate(s, p, choice)
          ELSE IF e.key = "X" /\ ~e.ctrl /\ ~Listing(p.index)
               THEN R(purge, [Preedit(purge) EXCEPT !.window = "hidden"])
          ELSE IF Printable(e) /\ ch \in Affix
               THEN R(suffix, Then(c.out, Preedit(suffix)))
          ELSE IF Printable(e) /\ ~e.ctrl
               THEN R(redone.eng, Then(c.out, redone.out))
          ELSE R(s, Passthrough)
  BY <1>5 DEF HandleSelecting
<1>8. prompt.tag = "PurgeConfirm" /\ prompt.sel = p
  BY DEF PurgeConfirm
<1> HIDE DEF c, picked, choice, ch, prompt
<1>9. /\ c.eng.phase.tag \notin {"Selecting", "PurgeConfirm"}
      /\ c.eng.stack = <<>> => ~PreeditShown(c.eng)
  BY <1>3 DEF Idle, PreeditShown, KanaMode
<1>10. /\ Handled(s, R(c.eng, [c.out EXCEPT !.del = TRUE]))
       /\ Handled(s, R(c.eng, [c.out EXCEPT !.pass = TRUE]))
       /\ Handled(s, c)
  <2>1. ASSUME NEW o, o.preedit = c.out.preedit, o.call = c.out.call
        PROVE  Handled(s, R(c.eng, o))
    BY <1>3, <1>9, <2>1, EndedHandled DEF PagesAligned
  <2>2. /\ [c.out EXCEPT !.del = TRUE].preedit = c.out.preedit
        /\ [c.out EXCEPT !.del = TRUE].call = c.out.call
        /\ [c.out EXCEPT !.pass = TRUE].preedit = c.out.preedit
        /\ [c.out EXCEPT !.pass = TRUE].call = c.out.call
    OBVIOUS
  <2>3. QED
    BY <1>3, <2>1, <2>2
<1>11. Handled(s, R(purge, [Preedit(purge) EXCEPT !.window = "hidden"]))
  <2> DEFINE o == [Preedit(purge) EXCEPT !.window = "hidden"]
  <2>1. purge.stack = s.stack /\ purge.raw = s.raw /\ purge.phase = prompt
    BY <1>1 DEF EngineState
  <2> HIDE DEF purge
  <2>2. o.preedit = (IF PreeditShown(purge) THEN "shown" ELSE "hidden") /\ o.call.op = "none"
    BY DEF Preedit, Nothing, NoCall
  <2> HIDE DEF o
  <2>3. PagesAligned(s) => PagesAligned(purge)
    BY <1>1, <1>8, <2>1 DEF PagesAligned
  <2>4. Handled(s, R(purge, o))
    BY <1>8, <2>1, <2>2, <2>3, EndedHandled
  <2>5. QED
    BY <2>4 DEF o
<1>12. Handled(s, R(suffix, Then(c.out, Preedit(suffix))))
  <2> DEFINE o == Then(c.out, Preedit(suffix))
  <2>1. suffix.stack = s.stack /\ suffix.raw = s.raw /\ suffix.phase.tag = "Midashi"
    BY <1>3, <1>4 DEF EngineState, Midashi
  <2> HIDE DEF suffix
  <2>2. o.preedit = (IF PreeditShown(suffix) THEN "shown" ELSE "hidden") /\ o.call = c.out.call
    BY DEF Preedit, Nothing, Then, Later
  <2> HIDE DEF o
  <2>3. Handled(s, R(suffix, o))
    BY <1>3, <2>1, <2>2, EndedHandled DEF PagesAligned
  <2>4. QED
    BY <2>3 DEF o
<1>13. Printable(e) /\ e.key # "Space" /\ ~e.ctrl /\ ch \notin Affix
         => Handled(s, R(redone.eng, Then(c.out, redone.out)))
  <2>1. SUFFICES ASSUME Printable(e), e.key # "Space", ~e.ctrl, ch \notin Affix
                 PROVE  Handled(s, R(redone.eng, Then(c.out, redone.out)))
    OBVIOUS
  <2> DEFINE o == Then(c.out, redone.out)
  <2>2. KanaFields(c.eng)
    BY <1>1, <1>3, <1>4, KanaPhase DEF KanaFields
  <2>3. Drew(c.eng, redone) \/ Left(c.eng, redone)
    BY <2>2, HandleKanaDrew
  <2>4. TriggersStandAlone => Still(c.eng, redone)
    BY <1>4, <2>1, <2>2, AfterCommitStill DEF ch
  <2> HIDE DEF redone
  <2>5. /\ o.preedit = Later("hidden", redone.out.preedit)
        /\ o.window = Later("hidden", redone.out.window)
        /\ redone.out.call = NoCall => o.call = c.out.call
    BY <1>3 DEF Then
  <2>6. redone.out.call = NoCall
    BY <2>3 DEF Drew, Left
  <2> HIDE DEF o
  <2>7. Len(s.stack) \in Nat
    BY <1>1 DEF EngineState
  <2>8. TriggersStandAlone => Offers(s, redone.eng)
    BY <1>3, <2>4, <2>7 DEF Offers, Still
  <2>9. redone.eng.raw = s.raw /\ Keeps(s, redone.eng)
    BY <1>3, <2>3 DEF Drew, Left, Keeps
  <2>10. redone.eng.phase.tag = "Selecting" =>
           Aligned(redone.eng.phase.index)
             /\ (Listing(redone.eng.phase.index) => redone.out.window = "shown")
    BY <1>9, <2>3 DEF Drew, Left
  <2>11. redone.eng.phase.tag # "PurgeConfirm"
    BY <1>9, <2>3 DEF Drew, Left
  <2>12. o.preedit # "keep"
    BY <2>5 DEF Later
  <2>13. o.preedit = "hidden" /\ redone.eng.stack = <<>> => ~PreeditShown(redone.eng)
    <3>1. CASE Drew(c.eng, redone)
      BY <2>5, <3>1 DEF Drew, Later
    <3>2. CASE Left(c.eng, redone)
      BY <1>3, <1>9, <3>2 DEF Left, PreeditShown, Idle
    <3>3. QED
      BY <2>3, <3>1, <3>2
  <2>14. o.call.op = "learn" => Visible(s.phase, o.call)
    BY <1>3, <2>5, <2>6
  <2>15. PagesAligned(redone.eng)
    BY <2>10, <2>11 DEF PagesAligned
  <2>16. Listing(redone.eng.phase.index) /\ redone.eng.phase.tag = "Selecting"
           => o.window = "shown"
    BY <2>5, <2>10 DEF Later
  <2>17. R(redone.eng, o).eng = redone.eng /\ R(redone.eng, o).out = o
    BY DEF R
  <2>18. Handled(s, R(redone.eng, o))
    BY <2>8, <2>9, <2>12, <2>13, <2>14, <2>15, <2>16, <2>17 DEF Handled
  <2>19. QED
    BY <2>18 DEF o
<1>14. Handled(s, R(s, Passthrough))
  BY LeftHandled DEF R, Passthrough, Nothing
<1>15. Handled(s, CancelSelection(s, d)) /\ Handled(s, SelectNext(s))
  BY CancelSelectionHandled, SelectNextHandled
<1>16. p.index # 0 => Handled(s, SelectPrevious(s))
  BY SelectPreviousHandled
<1> HIDE DEF p, suffix, redone, purge
<1>17. QED
  BY <1>6, <1>7, <1>10, <1>11, <1>12, <1>13, <1>14, <1>15, <1>16
----------------------------------------------------------------------------
(* Every key of the purge prompt.                                          *)
LEMMA HandlePurgeConfirmHandled ==
  ASSUME NEW s, Asking(s), NEW e \in Events
  PROVE  Handled(s, HandlePurgeConfirm(s, e))
<1> DEFINE sel == s.phase.sel
           Typing(b) == LET t == [s EXCEPT !.phase.buf = b] IN R(t, Preedit(t))
<1>1. /\ s \in EngineState /\ s.phase \in PurgePhase /\ s.phase.mode \in KanaMode
      /\ s.phase.tag = "PurgeConfirm" /\ sel \in SelectingPhase
  BY AskingFields DEF Asking
<1>2. \A b : Handled(s, Typing(b))
  <2> TAKE b
  <2> DEFINE t == [s EXCEPT !.phase.buf = b]
             o == Preedit(t)
  <2>1. /\ t.stack = s.stack /\ t.raw = s.raw
        /\ t.phase.tag = "PurgeConfirm" /\ t.phase.sel = sel
    BY <1>1 DEF EngineState, PurgePhase
  <2> HIDE DEF t
  <2>2. o.preedit = IF PreeditShown(t) THEN "shown" ELSE "hidden"
    BY DEF Preedit, Nothing
  <2> HIDE DEF o
  <2>3. Handled(s, R(t, o))
    BY <1>1, <2>1, <2>2 DEF Handled, Keeps, R, PagesAligned
  <2>4. QED
    BY <2>3 DEF t, o
<1>3. Handled(s, ExecutePurge(s))
  <2> DEFINE t == [s EXCEPT !.phase = Kana(s.phase.mode), !.kana = <<>>, !.trigger = <<>>]
             o == ExecutePurge(s).out
  <2>1. t.stack = s.stack /\ t.raw = s.raw /\ Idle(t)
    BY <1>1 DEF EngineState, Idle, Kana
  <2>2. ExecutePurge(s) = R(t, o) /\ o.preedit = "hidden"
    BY DEF ExecutePurge, R, ClearPreedit, Nothing
  <2> HIDE DEF t, o
  <2>3. t.phase.tag \notin {"Selecting", "PurgeConfirm"} /\ (t.stack = <<>> => ~PreeditShown(t))
    BY <2>1 DEF Idle, KanaMode, PreeditShown
  <2>4. QED
    BY <1>1, <2>1, <2>2, <2>3 DEF Handled, Keeps, R, PagesAligned
<1>4. Handled(s, CancelPurge(s))
  <2> DEFINE u == [s EXCEPT !.phase = sel]
             t == [u EXCEPT !.phase.index = sel.index]
             o == [Preedit(t) EXCEPT !.window = ListingWindow(sel.index)]
  <2>1. sel.tag = "Selecting" /\ [sel EXCEPT !.index = sel.index] = sel
    BY <1>1 DEF SelectingPhase
  <2>2. t.stack = s.stack /\ t.raw = s.raw /\ t.phase = sel
    BY <1>1, <2>1 DEF EngineState
  <2>3. CancelPurge(s) = R(t, o)
    BY DEF CancelPurge, AtIndex
  <2> HIDE DEF t, sel
  <2>4. /\ o.preedit = (IF PreeditShown(t) THEN "shown" ELSE "hidden")
        /\ o.window = ListingWindow(sel.index)
    BY DEF Preedit, Nothing
  <2> HIDE DEF o
  <2>5. PagesAligned(s) => PagesAligned(t)
    BY <1>1, <2>1, <2>2 DEF PagesAligned, sel
  <2>6. QED
    BY <1>1, <2>1, <2>2, <2>3, <2>4, <2>5 DEF Handled, Keeps, R, ListingWindow
<1>5. Handled(s, R(s, Nothing))
  BY <1>1 DEF Handled, Keeps, R, Nothing
<1>6. /\ HandlePurgeConfirm(s, e) = ExecutePurge(s) \/ HandlePurgeConfirm(s, e) = CancelPurge(s)
         \/ HandlePurgeConfirm(s, e) = R(s, Nothing)
         \/ HandlePurgeConfirm(s, e) = Typing(Chop(s.phase.buf))
         \/ HandlePurgeConfirm(s, e) = Typing(Append(s.phase.buf, e.key))
  BY DEF HandlePurgeConfirm
<1>7. Handled(s, Typing(Chop(s.phase.buf))) /\ Handled(s, Typing(Append(s.phase.buf, e.key)))
  BY <1>2
<1> HIDE DEF Typing
<1>8. QED
  BY <1>3, <1>4, <1>5, <1>6, <1>7
----------------------------------------------------------------------------
(* What reaches the registration buffer.  A step changes one frame.        *)
OneFrame(st, new) ==
    LET kept == IF Len(new) > Len(st) THEN Len(st) ELSE Len(new) - 1
    IN  /\ Len(new) <= Len(st) + 1
        /\ Len(st) <= Len(new) + 1
        /\ \A i \in 1 .. kept : new[i] = st[i]

(* Writing the innermost frame leaves the others and the phase.            *)
LEMMA ReplacedTop ==
  ASSUME NEW s, Good(s), s.stack # <<>>, NEW frame, FrameOK(frame)
  PROVE  LET u == WithTop(s, frame)
         IN  /\ u.raw = s.raw /\ u.phase = s.phase /\ u.kana = s.kana
             /\ u.stack # <<>> /\ Len(u.stack) = Len(s.stack)
             /\ \A i \in 1 .. (Len(s.stack) - 1) : u.stack[i] = s.stack[i]
<1> DEFINE n == Len(s.stack)
           st == [s.stack EXCEPT ![n] = frame]
           u == WithTop(s, frame)
<1>1. s \in EngineState /\ s.stack \in Seq(Frame) /\ frame \in Frame
  BY DEF Good, Base, EngineState, FrameOK
<1>2. n \in 1 .. n /\ n \in Nat
  BY <1>1, EmptySeq
<1>3. /\ Len(st) = n
      /\ \A j \in 1 .. n : st[j] = IF j = n THEN frame ELSE s.stack[j]
  BY <1>1, <1>2, ExceptSeq
<1>4. u.raw = s.raw /\ u.phase = s.phase /\ u.kana = s.kana /\ u.stack = st
  BY <1>1 DEF WithTop, EngineState
<1>5. u.stack # <<>>
  BY WithTopOK
<1> HIDE DEF st, u, n
<1>6. \A i \in 1 .. (n - 1) : st[i] = s.stack[i]
  BY <1>2, <1>3
<1>7. QED
  BY <1>3, <1>4, <1>5, <1>6 DEF n, u

(* Closing the innermost registration leaves the others.                   *)
LEMMA DroppedTop ==
  ASSUME NEW s, Good(s), s.stack # <<>>
  PROVE  LET t == [ToHiragana(s) EXCEPT !.stack = Front(s.stack)]
         IN  /\ Good(t) /\ t.raw = s.raw /\ t.phase = Kana("Hiragana") /\ t.kana = <<>>
             /\ Len(s.stack) = Len(t.stack) + 1 /\ Len(t.stack) \in Nat
             /\ \A i \in 1 .. Len(t.stack) : t.stack[i] = s.stack[i]
<1> DEFINE h == ToHiragana(s)
           t == [h EXCEPT !.stack = Front(s.stack)]
<1>1. s \in EngineState /\ s.stack \in Seq(Frame)
  BY DEF Good, Base, EngineState
<1>2. Good(h) /\ h.stack = s.stack /\ h.raw = s.raw /\ h.phase = Kana("Hiragana") /\ h.kana = <<>>
  BY <1>1, GoodIsBase, ToHiraganaOK DEF ToHiragana, EngineState
<1> HIDE DEF h
<1>3. Good(t)
  BY <1>2, DropTopOK
<1>4. h \in EngineState
  BY <1>2, GoodIsBase
<1>5. /\ t.raw = s.raw /\ t.phase = Kana("Hiragana") /\ t.kana = <<>>
      /\ t.stack = Front(s.stack)
  BY <1>2, <1>4 DEF EngineState
<1> HIDE DEF t
<1>6. /\ Len(Front(s.stack)) = Len(s.stack) - 1
      /\ \A i \in 1 .. (Len(s.stack) - 1) : Front(s.stack)[i] = s.stack[i]
  BY <1>1, FrontTyped
<1>7. Len(s.stack) \in Nat /\ Len(s.stack) # 0
  BY <1>1, EmptySeq
<1>8. QED
  BY <1>3, <1>5, <1>6, <1>7 DEF h, t

(* A redirected result keeps what it says of the phase and the window, and *)
(* sends nothing to the application.                                       *)
LEMMA Intercepted ==
  ASSUME NEW r, ResultOK(r), r.eng.stack # <<>>
  PROVE  LET q == Intercept(r)
         IN  /\ q.eng.raw = r.eng.raw /\ q.eng.phase = r.eng.phase /\ q.eng.kana = r.eng.kana
             /\ q.eng.stack # <<>> /\ Len(q.eng.stack) = Len(r.eng.stack)
             /\ \A i \in 1 .. (Len(r.eng.stack) - 1) : q.eng.stack[i] = r.eng.stack[i]
             /\ q.out.window = r.out.window /\ q.out.call = r.out.call
             /\ q.out.text = <<>> /\ ~q.out.pass /\ ~q.out.del
             /\ q.out.preedit # "hidden"
             /\ q.out.preedit = "keep" => r.out.preedit = "keep" /\ r.out.window # "keep"
<1> DEFINE typed == InsertInto(Top(r.eng), r.out.text)
           frame == IF r.out.del THEN RegBackspace(typed) ELSE typed
           redraw == \/ r.out.text # <<>> \/ r.out.del \/ r.out.preedit # "keep"
                     \/ r.out.window = "keep"
           o == [Nothing EXCEPT !.preedit = IF redraw THEN "shown" ELSE "keep",
                                !.window = r.out.window, !.call = r.out.call]
<1>1. Good(r.eng) /\ OutputOK(r.out) /\ Base(r.eng)
  BY GoodIsBase DEF ResultOK
<1>2. r.out.text \in Text
  BY <1>1 DEF OutputOK
<1>3. FrameOK(typed)
  BY <1>1, <1>2, TopOK, InsertIntoOK
<1>4. Intercept(r) = R(WithTop(r.eng, frame), o)
  BY DEF Intercept
<1> HIDE DEF typed
<1>5. FrameOK(frame)
  BY <1>3, BackspaceOK
<1> HIDE DEF frame
<1>6. /\ o.window = r.out.window /\ o.call = r.out.call /\ o.text = <<>> /\ ~o.pass /\ ~o.del
      /\ o.preedit = IF redraw THEN "shown" ELSE "keep"
  BY DEF Nothing
<1>7. ~redraw => r.out.preedit = "keep" /\ r.out.window # "keep"
  OBVIOUS
<1> HIDE DEF o, redraw
<1>8. Intercept(r).eng = WithTop(r.eng, frame) /\ Intercept(r).out = o
  BY <1>4 DEF R
<1>9. QED
  BY <1>1, <1>5, <1>6, <1>7, <1>8, ReplacedTop
----------------------------------------------------------------------------
(* What every delivered result answers, the registration included.         *)
Sealed(s, r) ==
    s.stack # <<>> /\ r.eng.stack # <<>> /\ ~s.raw /\ ~r.eng.raw
        => /\ r.out.text = <<>> /\ ~r.out.pass /\ ~r.out.del
           /\ r.out.preedit # "keep" \/ r.out.window # "keep"
ShowsPage(s, r) ==
    ~r.eng.raw /\ r.eng.phase.tag = "Selecting" /\ Listing(r.eng.phase.index)
        => \/ r.out.window = "shown"
           \/ r.out.window = "keep" /\ ~s.raw /\ r.eng.phase = s.phase
InView(s) == ~s.raw /\ PreeditShown(s) /\ (RawKeys = {} \/ s.stack = <<>>)
ShowsPreedit(s, r) ==
    InView(r.eng) => \/ r.out.preedit = "shown"
                     \/ r.out.preedit = "keep" /\ InView(s)
Conduct(s, r) ==
    /\ OneFrame(s.stack, r.eng.stack)
    /\ Sealed(s, r)
    /\ PagesAligned(s) => PagesAligned(r.eng)
    /\ ShowsPage(s, r)
    /\ ShowsPreedit(s, r)
    /\ s.phase.tag = "Selecting" =>
          /\ r.out.call.op = "learn" => Visible(s.phase, r.out.call)
          /\ TriggersStandAlone /\ PagesAligned(s) => Offers(s, r.eng)

(* The outer registrations behind a handler's result, redirected or not.   *)
LEMMA KeptFrames ==
  ASSUME NEW s \in EngineState, NEW t, Keeps(s, t), NEW st \in Seq(Frame),
         \/ st = t.stack
         \/ /\ Len(st) = Len(t.stack) /\ st # <<>>
            /\ \A i \in 1 .. (Len(st) - 1) : st[i] = t.stack[i]
  PROVE  OneFrame(s.stack, st)
<1>1. s.stack \in Seq(Frame) /\ Len(s.stack) \in Nat /\ Len(st) \in Nat
  BY DEF EngineState
<1>2. /\ Len(st) = Len(t.stack)
      /\ \A i \in 1 .. (Len(st) - 1) : st[i] = t.stack[i]
  OBVIOUS
<1>3. CASE t.stack = s.stack
  BY <1>1, <1>2, <1>3 DEF OneFrame
<1>4. CASE /\ Len(t.stack) = Len(s.stack) + 1
           /\ \A i \in 1 .. Len(s.stack) : t.stack[i] = s.stack[i]
  BY <1>1, <1>2, <1>4 DEF OneFrame
<1>5. QED
  BY <1>3, <1>4 DEF Keeps

(* A registration never closes behind a handler.                           *)
LEMMA KeepsOpen ==
  ASSUME NEW s \in EngineState, NEW t, Keeps(s, t), t.stack = <<>>
  PROVE  s.stack = <<>>
<1>1. Len(s.stack) \in Nat /\ Len(<<>>) = 0
  BY EmptySeq DEF EngineState
<1>2. Len(t.stack) # Len(s.stack) + 1
  BY <1>1
<1>3. QED
  BY <1>2 DEF Keeps

(* What a handler answers is delivered as promised.                        *)
LEMMA DeliveredConduct ==
  ASSUME NEW s, Good(s), ~s.raw, NEW r, ResultOK(r), Handled(s, r)
  PROVE  Conduct(s, Delivered(r))
<1> DEFINE q == Delivered(r)
<1>1. s \in EngineState /\ ResultOK(q) /\ Keeps(s, r.eng)
  BY GoodIsBase, DeliveredOK DEF Handled
<1>2. q.eng.stack \in Seq(Frame) /\ r.eng.stack \in Seq(Frame)
  BY <1>1, GoodIsBase DEF ResultOK, EngineState
<1>3. /\ q.eng.raw = r.eng.raw /\ q.eng.phase = r.eng.phase /\ q.eng.kana = r.eng.kana
      /\ q.out.window = r.out.window /\ q.out.call = r.out.call
      /\ Len(q.eng.stack) = Len(r.eng.stack)
  BY Intercepted DEF Delivered
<1>4. r.eng.stack = <<>> => q = r
  BY DEF Delivered
<1>5. r.eng.stack # <<>> =>
        /\ q.eng.stack # <<>>
        /\ \A i \in 1 .. (Len(r.eng.stack) - 1) : q.eng.stack[i] = r.eng.stack[i]
        /\ q.out.text = <<>> /\ ~q.out.pass /\ ~q.out.del
        /\ q.out.preedit # "hidden"
        /\ q.out.preedit = "keep" => r.out.preedit = "keep" /\ r.out.window # "keep"
  BY Intercepted DEF Delivered
<1>6. q.out.preedit \in Drawn
  BY <1>1 DEF ResultOK, OutputOK
<1> HIDE DEF q
<1>7. OneFrame(s.stack, q.eng.stack)
  BY <1>1, <1>2, <1>3, <1>4, <1>5, KeptFrames
<1>8. Sealed(s, q)
  BY <1>3, <1>4, <1>5 DEF Sealed
<1>9. PagesAligned(s) => PagesAligned(q.eng)
  BY <1>3 DEF Handled, PagesAligned
<1>10. ShowsPage(s, q)
  BY <1>3 DEF Handled, ShowsPage
<1>11. ShowsPreedit(s, q)
  <2>1. SUFFICES ASSUME InView(q.eng), q.out.preedit # "shown"
                 PROVE  q.out.preedit = "keep" /\ InView(s)
    BY DEF ShowsPreedit
  <2>2. PreeditShown(q.eng) => PreeditShown(r.eng)
    BY <1>3, <1>4, <1>5 DEF PreeditShown
  <2>3. q.out.preedit = "keep" /\ r.out.preedit = "keep"
    <3>1. CASE r.eng.stack = <<>>
      BY <1>4, <1>6, <2>1, <3>1 DEF Handled, InView, Drawn
    <3>2. CASE r.eng.stack # <<>>
      BY <1>5, <1>6, <2>1, <3>2 DEF Drawn
    <3>3. QED
      BY <3>1, <3>2
  <2>4. PreeditShown(s)
    BY <2>1, <2>2, <2>3 DEF Handled, InView
  <2>5. RawKeys = {} \/ s.stack = <<>>
    BY <1>1, <1>4, <1>5, <2>1, KeepsOpen DEF InView
  <2>6. QED
    BY <2>3, <2>4, <2>5 DEF InView
<1>12. s.phase.tag = "Selecting" =>
          /\ q.out.call.op = "learn" => Visible(s.phase, q.out.call)
          /\ TriggersStandAlone /\ PagesAligned(s) => Offers(s, q.eng)
  BY <1>3 DEF Handled, Offers
<1>13. Conduct(s, q)
  BY <1>7, <1>8, <1>9, <1>10, <1>11, <1>12 DEF Conduct
<1>14. QED
  BY <1>13 DEF q

(* So is a key that redraws and leaves no candidates behind.               *)
LEMMA DrawnConduct ==
  ASSUME NEW s, Good(s), NEW t, t.stack \in Seq(Frame), OneFrame(s.stack, t.stack),
         Len(t.stack) <= Len(s.stack), t.phase.tag \notin {"Selecting", "PurgeConfirm"},
         NEW o, o.preedit = "shown" \/ (o.preedit = "hidden" /\ ~PreeditShown(t)),
         t.stack # <<>> => o.text = <<>> /\ ~o.pass /\ ~o.del,
         s.phase.tag = "Selecting" => o.call.op # "learn"
  PROVE  Conduct(s, R(t, o))
<1>1. R(t, o).eng = t /\ R(t, o).out = o
  BY DEF R
<1>2. Len(t.stack) \in Nat /\ Len(s.stack) \in Nat
  BY GoodIsBase DEF EngineState
<1>3. ~(Len(t.stack) > Len(s.stack))
  BY <1>2
<1>4. Sealed(s, R(t, o))
  BY <1>1 DEF Sealed
<1>5. PagesAligned(t) /\ ShowsPage(s, R(t, o)) /\ ShowsPreedit(s, R(t, o))
  BY <1>1 DEF PagesAligned, ShowsPage, ShowsPreedit, InView
<1>6. Offers(s, t)
  BY <1>3 DEF Offers
<1>7. QED
  BY <1>1, <1>4, <1>5, <1>6 DEF Conduct
----------------------------------------------------------------------------
(* The keys a registration takes.                                          *)
LEMMA ShorterConduct ==
  ASSUME NEW s, Good(s), s.stack # <<>>, NEW t, t.stack = Front(s.stack),
         t.phase.tag \notin {"Selecting", "PurgeConfirm"},
         NEW o, o.preedit = "shown" \/ (o.preedit = "hidden" /\ ~PreeditShown(t)),
         t.stack # <<>> => o.text = <<>> /\ ~o.pass /\ ~o.del,
         s.phase.tag = "Selecting" => o.call.op # "learn"
  PROVE  Conduct(s, R(t, o))
<1>1. s.stack \in Seq(Frame) /\ Len(s.stack) \in Nat /\ Len(s.stack) # 0
  BY GoodIsBase, EmptySeq DEF EngineState
<1>2. /\ t.stack \in Seq(Frame) /\ Len(t.stack) = Len(s.stack) - 1
      /\ \A i \in 1 .. (Len(s.stack) - 1) : t.stack[i] = s.stack[i]
  BY <1>1, FrontTyped
<1>3. OneFrame(s.stack, t.stack) /\ Len(t.stack) <= Len(s.stack)
  BY <1>1, <1>2 DEF OneFrame
<1>4. QED
  BY <1>2, <1>3, DrawnConduct

(* Closing it without a word,                                              *)
LEMMA CancelRegisterConduct ==
  ASSUME NEW s, Good(s), s.stack # <<>>, NEW d \in Answers
  PROVE  Conduct(s, CancelRegister(s, d))
<1> DEFINE frame == Top(s)
           outer == [ToHiragana(s) EXCEPT !.stack = Front(s.stack)]
           abbreving == [outer EXCEPT !.phase = Abbrev(frame.original)]
           reading == [outer EXCEPT !.phase = Midashi(frame.original, <<>>),
                                    !.completion = Completion(frame.original, d)]
           back == IF frame.abbrev THEN abbreving ELSE reading
<1>1. /\ Good(outer) /\ outer.phase = Kana("Hiragana") /\ outer.kana = <<>>
  BY DroppedTop
<1>2. outer \in EngineState
  BY <1>1, GoodIsBase
<1>3. outer.stack = Front(s.stack)
  BY GoodIsBase, ToHiraganaOK DEF Good, Base, EngineState
<1>4. CancelRegister(s, d) = IF outer.stack = <<>>
                             THEN R(back, [Preedit(back) EXCEPT !.window = "hidden"])
                             ELSE R(outer, Preedit(outer))
  BY DEF CancelRegister
<1> HIDE DEF outer, frame
<1>5. back.stack = Front(s.stack) /\ back.phase.tag \in {"Abbrev", "Midashi"}
  BY <1>2, <1>3 DEF EngineState, Abbrev, Midashi
<1> HIDE DEF back
<1>6. Conduct(s, R(back, [Preedit(back) EXCEPT !.window = "hidden"]))
  <2> DEFINE o == [Preedit(back) EXCEPT !.window = "hidden"]
  <2>1. /\ o.preedit = (IF PreeditShown(back) THEN "shown" ELSE "hidden")
        /\ o.text = <<>> /\ ~o.pass /\ ~o.del /\ o.call.op = "none"
    BY DEF Preedit, Nothing, NoCall
  <2> HIDE DEF o
  <2>2. Conduct(s, R(back, o))
    BY <1>5, <2>1, ShorterConduct
  <2>3. QED
    BY <2>2 DEF o
<1>7. Conduct(s, R(outer, Preedit(outer)))
  <2> DEFINE o == Preedit(outer)
  <2>1. /\ o.preedit = (IF PreeditShown(outer) THEN "shown" ELSE "hidden")
        /\ o.text = <<>> /\ ~o.pass /\ ~o.del /\ o.call.op = "none"
    BY DEF Preedit, Nothing, NoCall
  <2> HIDE DEF o
  <2>2. outer.phase.tag = "Hiragana"
    BY <1>1 DEF Kana
  <2>3. Conduct(s, R(outer, o))
    BY <1>3, <2>1, <2>2, ShorterConduct
  <2>4. QED
    BY <2>3 DEF o
<1>8. QED
  BY <1>4, <1>6, <1>7

(* closing it with one,                                                    *)
LEMMA FinalizeRegisterConduct ==
  ASSUME NEW s, Good(s), s.stack # <<>>, s.phase.tag # "Selecting"
  PROVE  Conduct(s, FinalizeRegister(s))
<1> DEFINE frame == Top(s)
           word  == RegisteredWord(frame.committed)
           outer == [ToHiragana(s) EXCEPT !.stack = Front(s.stack)]
           learn == [op |-> "learn", midashi |-> Template(frame.original),
                     okuri |-> frame.okuriKey, word |-> word]
           text  == word \o frame.okuri
           inner == InsertInto(Top(outer), word)
           inserted == WithTop(outer, inner)
<1>1. Good(outer) /\ outer.phase = Kana("Hiragana") /\ outer.kana = <<>>
  BY DroppedTop
<1>2. outer.stack = Front(s.stack)
  BY GoodIsBase, ToHiraganaOK DEF Good, Base, EngineState
<1>3. word \in Text
  BY GoodIsBase, TopOK, RegisteredWordTyped DEF FrameOK, Frame
<1>4. FinalizeRegister(s) = IF outer.stack = <<>>
                            THEN R(outer, [Commit(text) EXCEPT !.call = learn])
                            ELSE R(inserted, [Preedit(inserted) EXCEPT !.call = learn])
  BY DEF FinalizeRegister
<1> HIDE DEF outer, word, text, learn
<1>5. outer.phase.tag = "Hiragana"
  BY <1>1 DEF Kana
<1>6. CASE outer.stack = <<>>
  <2> DEFINE o == [Commit(text) EXCEPT !.call = learn]
  <2>1. o.preedit = "hidden"
    BY DEF Commit, ClearPreedit, Nothing
  <2> HIDE DEF o
  <2>2. ~PreeditShown(outer)
    BY <1>1, <1>5, <1>6 DEF PreeditShown, KanaMode
  <2>3. Conduct(s, R(outer, o))
    BY <1>2, <1>5, <1>6, <2>1, <2>2, ShorterConduct
  <2>4. QED
    BY <1>4, <1>6, <2>3 DEF o
<1>7. CASE outer.stack # <<>>
  <2> DEFINE o == [Preedit(inserted) EXCEPT !.call = learn]
  <2>1. FrameOK(inner)
    BY <1>1, <1>3, <1>7, GoodIsBase, TopOK, InsertIntoOK
  <2> HIDE DEF inner
  <2>2. /\ inserted.phase = outer.phase /\ inserted.stack # <<>>
        /\ Len(inserted.stack) = Len(outer.stack)
        /\ \A i \in 1 .. (Len(outer.stack) - 1) : inserted.stack[i] = outer.stack[i]
    BY <1>1, <1>7, <2>1, ReplacedTop
  <2>3. Good(inserted)
    BY <1>1, <1>7, <2>1, WithTopOK
  <2> HIDE DEF inserted
  <2>4. inserted.stack \in Seq(Frame)
    BY <2>3, GoodIsBase DEF EngineState
  <2>5. /\ o.preedit = "shown" /\ o.text = <<>> /\ ~o.pass /\ ~o.del
    BY <2>2 DEF Preedit, Nothing, PreeditShown
  <2> HIDE DEF o
  <2>6. s.stack \in Seq(Frame) /\ Len(s.stack) \in Nat /\ Len(s.stack) # 0
    BY GoodIsBase, EmptySeq DEF EngineState
  <2>7. /\ Len(outer.stack) = Len(s.stack) - 1
        /\ \A i \in 1 .. (Len(s.stack) - 1) : outer.stack[i] = s.stack[i]
    BY <1>2, <2>6, FrontTyped
  <2>8. OneFrame(s.stack, inserted.stack) /\ Len(inserted.stack) <= Len(s.stack)
    BY <2>2, <2>6, <2>7 DEF OneFrame
  <2>9. Conduct(s, R(inserted, o))
    BY <1>5, <2>2, <2>4, <2>5, <2>8, DrawnConduct
  <2>10. QED
    BY <1>4, <1>7, <2>9 DEF o
<1>8. QED
  BY <1>6, <1>7

(* or writing into its buffer.                                             *)
LEMMA PutConduct ==
  ASSUME NEW s, Good(s), s.stack # <<>>, NEW t, Good(t), t.stack = s.stack,
         t.phase.tag \notin {"Selecting", "PurgeConfirm"}, NEW frame, FrameOK(frame)
  PROVE  Conduct(s, R(WithTop(t, frame), Preedit(WithTop(t, frame))))
<1> DEFINE u == WithTop(t, frame)
           o == Preedit(u)
<1>1. /\ u.phase = t.phase /\ u.stack # <<>> /\ Len(u.stack) = Len(s.stack)
      /\ \A i \in 1 .. (Len(s.stack) - 1) : u.stack[i] = s.stack[i]
  BY ReplacedTop
<1>2. Good(u)
  BY WithTopOK
<1> HIDE DEF u
<1>3. u.stack \in Seq(Frame) /\ Len(s.stack) \in Nat
  BY <1>2, GoodIsBase DEF EngineState
<1>4. o.preedit = "shown" /\ o.text = <<>> /\ ~o.pass /\ ~o.del /\ o.call.op = "none"
  BY <1>1 DEF Preedit, Nothing, NoCall, PreeditShown
<1> HIDE DEF o
<1>5. OneFrame(s.stack, u.stack) /\ Len(u.stack) <= Len(s.stack)
  BY <1>1, <1>3 DEF OneFrame
<1>6. Conduct(s, R(u, o))
  BY <1>1, <1>3, <1>4, <1>5, DrawnConduct
<1>7. QED
  BY <1>6 DEF u, o

(* So every key it takes.                                                  *)
LEMMA RegisterPressConduct ==
  ASSUME NEW s, Good(s), s.stack # <<>>, NEW e \in Events, RegisterTakes(s, e),
         NEW d \in Answers
  PROVE  Conduct(s, RegisterPress(s, e, d))
<1> DEFINE Put(t, frame) == R(WithTop(t, frame), Preedit(WithTop(t, frame)))
<1>1. FrameOK(Top(s)) /\ Base(s)
  BY GoodIsBase, TopOK
<1>2. Good(ToHiragana(s)) /\ ToHiragana(s).stack = s.stack
      /\ ToHiragana(s).phase.tag = "Hiragana"
  BY <1>1, GoodIsBase, ToHiraganaOK DEF ToHiragana, Kana, EngineState
<1>3. RegisterPress(s, e, d)
        = IF CtrlG(e) THEN CancelRegister(s, d)
          ELSE IF s.phase.tag \in Flushable
               THEN Put(ToHiragana(s), InsertInto(Top(s), Flushed(s.phase)))
          ELSE IF e.key = "Escape" \/ (e.key = "Return" /\ Top(s).committed = <<>>)
               THEN CancelRegister(s, d)
          ELSE IF e.key = "Return" THEN FinalizeRegister(s)
          ELSE IF e.key \in EditKeys THEN Put(s, Edited(Top(s), e.key))
          ELSE Put(s, InsertInto(Top(s), <<CharOf(e)>>))
  BY DEF RegisterPress
<1>4. /\ CtrlG(e) \/ s.phase.tag \in Flushable
           \/ s.phase.tag \notin {"Selecting", "PurgeConfirm"}
      /\ \/ CtrlG(e) \/ s.phase.tag \in Flushable
         \/ e.key \in EditKeys \cup {"Return", "Escape"} \/ Printable(e)
  BY DEF RegisterTakes, Ready, KanaMode
<1>5. Conduct(s, CancelRegister(s, d))
  BY CancelRegisterConduct
<1>6. s.phase.tag # "Selecting" => Conduct(s, FinalizeRegister(s))
  BY FinalizeRegisterConduct
<1>7. s.phase.tag \in Flushable
        => Conduct(s, Put(ToHiragana(s), InsertInto(Top(s), Flushed(s.phase))))
  <2>1. SUFFICES ASSUME s.phase.tag \in Flushable
                 PROVE  Conduct(s, Put(ToHiragana(s), InsertInto(Top(s), Flushed(s.phase))))
    OBVIOUS
  <2>2. FrameOK(InsertInto(Top(s), Flushed(s.phase)))
    BY <1>1, <2>1, FlushedTyped, InsertIntoOK
  <2>3. QED
    BY <1>2, <2>2, PutConduct
<1>8. e.key \in EditKeys /\ s.phase.tag \notin {"Selecting", "PurgeConfirm"}
        => Conduct(s, Put(s, Edited(Top(s), e.key)))
  BY <1>1, EditedOK, PutConduct
<1>9. Printable(e) /\ s.phase.tag \notin {"Selecting", "PurgeConfirm"}
        => Conduct(s, Put(s, InsertInto(Top(s), <<CharOf(e)>>)))
  <2>1. SUFFICES ASSUME Printable(e), s.phase.tag \notin {"Selecting", "PurgeConfirm"}
                 PROVE  Conduct(s, Put(s, InsertInto(Top(s), <<CharOf(e)>>)))
    OBVIOUS
  <2>2. <<CharOf(e)>> \in Text
    BY <2>1, CharTyped DEF Text
  <2>3. FrameOK(InsertInto(Top(s), <<CharOf(e)>>))
    BY <1>1, <2>2, InsertIntoOK
  <2>4. QED
    BY <2>1, <2>3, PutConduct
<1> HIDE DEF Put
<1>10. QED
  BY <1>3, <1>4, <1>5, <1>6, <1>7, <1>8, <1>9
----------------------------------------------------------------------------
(* Raw mode and the toggle key.                                            *)

(* A step that leaves the phase and the registrations alone offers what    *)
(* was offered.                                                            *)
LEMMA SamePlace ==
  ASSUME NEW s, Good(s), NEW t, t.stack = s.stack, t.phase = s.phase
  PROVE  OneFrame(s.stack, t.stack) /\ (s.phase.tag = "Selecting" => Offers(s, t))
<1>1. s.stack \in Seq(Frame) /\ Len(s.stack) \in Nat
  BY GoodIsBase DEF EngineState
<1>2. OneFrame(s.stack, t.stack)
  BY <1>1 DEF OneFrame
<1>3. ASSUME s.phase.tag = "Selecting" PROVE Offers(s, t)
  <2>1. s.phase.index \in Nat /\ Len(SelectionKeys) \in Nat
    BY <1>3, ChoosingFields, EngineAssumption DEF EngineAssumption, Choosing
  <2>2. NoneSkipped(s.phase, s.phase)
    BY <2>1 DEF NoneSkipped, PageSize
  <2>3. QED
    BY <1>1, <2>2 DEF Offers
<1>4. QED
  BY <1>2, <1>3

(* Leaving raw mode redraws the page and, when nothing is registered, the  *)
(* preedit.                                                                *)
LEMMA RawToggleConduct ==
  ASSUME NEW s, Good(s), RawKeys # {}
  PROVE  Conduct(s, RawToggle(s))
<1> DEFINE t == [s EXCEPT !.raw = ~s.raw]
           o == IF s.raw THEN RenderCurrentPhase(s)
                ELSE [ClearPreedit EXCEPT !.window = "hidden"]
<1>1. t.stack = s.stack /\ t.phase = s.phase /\ t.kana = s.kana /\ t.raw = ~s.raw
  BY GoodIsBase DEF EngineState
<1>2. R(t, o).eng = t /\ R(t, o).out = o
  BY DEF R
<1>3. o.call = NoCall
  BY DEF RenderCurrentPhase, Preedit, ClearPreedit, Nothing
<1>4. ASSUME s.raw, s.phase.tag = "Selecting", Listing(s.phase.index)
      PROVE  o.window = "shown"
  BY <1>4 DEF RenderCurrentPhase, Ready, KanaMode, Preedit, Nothing, ListingWindow
<1>5. ASSUME s.raw, s.stack = <<>>, PreeditShown(s)
      PROVE  o.preedit = "shown"
  BY <1>5 DEF RenderCurrentPhase, Ready, Preedit, Nothing, PreeditShown
<1>6. RawToggle(s) = R(t, o)
  BY DEF RawToggle
<1> HIDE DEF t, o
<1>7. Sealed(s, R(t, o))
  BY <1>1, <1>2 DEF Sealed
<1>8. ShowsPage(s, R(t, o))
  BY <1>1, <1>2, <1>4 DEF ShowsPage
<1>9. ShowsPreedit(s, R(t, o))
  BY <1>1, <1>2, <1>5 DEF ShowsPreedit, InView, PreeditShown
<1>10. PagesAligned(s) => PagesAligned(t)
  BY <1>1 DEF PagesAligned
<1>11. OneFrame(s.stack, t.stack) /\ (s.phase.tag = "Selecting" => Offers(s, t))
  BY <1>1, SamePlace
<1>12. o.call.op # "learn"
  BY <1>3 DEF NoCall
<1>13. QED
  BY <1>2, <1>6, <1>7, <1>8, <1>9, <1>10, <1>11, <1>12 DEF Conduct

(* A key that raw mode forwards.                                           *)
LEMMA ForwardConduct ==
  ASSUME NEW s, Good(s), s.raw
  PROVE  Conduct(s, R(s, Passthrough))
<1>1. R(s, Passthrough).eng = s /\ R(s, Passthrough).out.call.op = "none"
  BY DEF R, Passthrough, Nothing, NoCall
<1>2. OneFrame(s.stack, s.stack) /\ (s.phase.tag = "Selecting" => Offers(s, s))
  BY SamePlace
<1>3. QED
  BY <1>1, <1>2 DEF Conduct, Sealed, ShowsPage, ShowsPreedit, InView

(* The toggle key drops what was composed.                                 *)
LEMMA ToggledConduct ==
  ASSUME NEW s, Good(s), s.stack = <<>>
  PROVE  Conduct(s, R(Toggled(s), ClearPreedit))
<1> DEFINE t == Toggled(s)
<1>1. s \in EngineState /\ (s.phase.tag = "Ascii" => s.kana = <<>>)
  BY GoodIsBase DEF Good, PendingOnce, KanaMode
<1>2. t.stack = s.stack /\ t.kana = <<>> /\ t.phase.tag \in {"Hiragana", "Ascii"}
  BY <1>1 DEF Toggled, EngineState, Kana, Ascii
<1> HIDE DEF t
<1>3. ~PreeditShown(t)
  BY <1>2 DEF PreeditShown, KanaMode
<1>4. ClearPreedit.preedit = "hidden" /\ ClearPreedit.call.op = "none"
  BY DEF ClearPreedit, Nothing, NoCall
<1>5. t.stack \in Seq(Frame) /\ Len(s.stack) \in Nat
  BY <1>1, <1>2 DEF EngineState
<1>6. OneFrame(s.stack, t.stack) /\ Len(t.stack) <= Len(s.stack)
  BY <1>2, <1>5 DEF OneFrame
<1>7. Conduct(s, R(t, ClearPreedit))
  BY <1>2, <1>3, <1>4, <1>5, <1>6, DrawnConduct
<1>8. QED
  BY <1>7 DEF t
----------------------------------------------------------------------------
(* So every key press delivers a result that keeps the promises: one case  *)
(* per action of handle_press.                                             *)
LEMMA StepConduct ==
  ASSUME IInv, Next
  PROVE  \E r : Deliver(r) /\ Conduct(eng, r)
<1>1. Good(eng)
  BY IInvIsGood
<1>2. ASSUME NEW e \in Events, RawKey(e)
      PROVE  Deliver(RawToggle(eng)) /\ Conduct(eng, RawToggle(eng))
  BY <1>1, <1>2, RawToggleConduct DEF RawKey
<1>3. ASSUME NEW e \in Events, ForwardRaw(e)
      PROVE  Deliver(R(eng, Passthrough)) /\ Conduct(eng, R(eng, Passthrough))
  BY <1>1, <1>3, ForwardConduct DEF ForwardRaw
<1>4. ASSUME NEW e \in Events, RegisterKey(e)
      PROVE  \E r : Deliver(r) /\ Conduct(eng, r)
  BY <1>1, <1>4, RegisterPressConduct DEF RegisterKey
<1>5. ASSUME NEW e \in Events, ToggleKey(e)
      PROVE  Deliver(R(Toggled(eng), ClearPreedit)) /\ Conduct(eng, R(Toggled(eng), ClearPreedit))
  BY <1>1, <1>5, ToggledConduct DEF ToggleKey, Toggled
<1>6. ASSUME NEW e \in Events, AsciiKey(e)
      PROVE  \E r : Deliver(r) /\ Conduct(eng, r)
  <2>1. eng.phase.tag = "Ascii" /\ ~eng.raw /\ Deliver(Delivered(HandleAscii(eng, e)))
    BY <1>6 DEF AsciiKey, Phase
  <2>2. Handled(eng, HandleAscii(eng, e))
    BY <1>1, <2>1, HandleAsciiDrew, TypingHandled
  <2>3. QED
    BY <1>1, <2>1, <2>2, HandleAsciiOK, DeliveredConduct
<1>7. ASSUME NEW e \in Events, WideAsciiKey(e)
      PROVE  \E r : Deliver(r) /\ Conduct(eng, r)
  <2>1. eng.phase.tag = "WideAscii" /\ ~eng.raw /\ Deliver(Delivered(HandleWideAscii(eng, e)))
    BY <1>7 DEF WideAsciiKey, Phase
  <2>2. Handled(eng, HandleWideAscii(eng, e))
    BY <1>1, <2>1, HandleWideAsciiDrew, TypingHandled
  <2>3. QED
    BY <1>1, <2>1, <2>2, HandleWideAsciiOK, DeliveredConduct
<1>8. ASSUME NEW e \in Events, CodeInputKey(e)
      PROVE  \E r : Deliver(r) /\ Conduct(eng, r)
  <2>1. eng.phase.tag = "CodeInput" /\ ~eng.raw /\ Deliver(Delivered(HandleCodeInput(eng, e)))
    BY <1>8 DEF CodeInputKey, Phase
  <2>2. Handled(eng, HandleCodeInput(eng, e))
    BY <1>1, <2>1, HandleCodeInputDrew, TypingHandled
  <2>3. QED
    BY <1>1, <2>1, <2>2, HandleCodeInputOK, DeliveredConduct
<1>9. ASSUME NEW e \in Events, PurgeKey(e)
      PROVE  \E r : Deliver(r) /\ Conduct(eng, r)
  <2>1. Asking(eng) /\ ~eng.raw /\ Deliver(Delivered(HandlePurgeConfirm(eng, e)))
    BY <1>1, <1>9 DEF PurgeKey, Phase, Asking
  <2>2. QED
    BY <1>1, <2>1, HandlePurgeConfirmHandled, HandlePurgeConfirmOK, DeliveredConduct
<1>10. ASSUME NEW e \in Events, KanaKey(e)
       PROVE  \E r : Deliver(r) /\ Conduct(eng, r)
  <2>1. PICK d \in Answers : Deliver(Delivered(HandleKana(eng, e, d)))
    BY <1>10 DEF KanaKey
  <2>2. KanaFields(eng) /\ ~eng.raw /\ eng.phase.tag # "Selecting"
    BY <1>1, <1>10 DEF KanaKey, Phase, KanaFields, KanaMode
  <2>3. Handled(eng, HandleKana(eng, e, d))
    BY <2>2, HandleKanaDrew, TypingHandled
  <2>4. QED
    BY <1>1, <2>1, <2>2, <2>3, HandleKanaOK, DeliveredConduct
<1>11. ASSUME NEW e \in Events, AbbrevKey(e)
       PROVE  \E r : Deliver(r) /\ Conduct(eng, r)
  <2>1. PICK d \in Answers : Deliver(Delivered(HandleAbbrev(eng, e, d)))
    BY <1>11 DEF AbbrevKey
  <2>2. eng.phase.tag = "Abbrev" /\ ~eng.raw
    BY <1>11 DEF AbbrevKey, Phase
  <2>3. Handled(eng, HandleAbbrev(eng, e, d))
    BY <1>1, <2>2, HandleAbbrevDrew, TypingHandled
  <2>4. QED
    BY <1>1, <2>1, <2>2, <2>3, HandleAbbrevOK, DeliveredConduct
<1>12. ASSUME NEW e \in Events, MidashiKey(e)
       PROVE  \E r : Deliver(r) /\ Conduct(eng, r)
  <2>1. PICK d \in Answers : Deliver(Delivered(HandleMidashi(eng, e, d)))
    BY <1>12 DEF MidashiKey
  <2>2. Reading(eng) /\ eng.phase.tag = "Midashi" /\ ~eng.raw
    BY <1>1, <1>12 DEF MidashiKey, Phase, Reading
  <2>3. Handled(eng, HandleMidashi(eng, e, d))
    BY <2>2, HandleMidashiDrew, TypingHandled
  <2>4. QED
    BY <1>1, <2>1, <2>2, <2>3, HandleMidashiOK, DeliveredConduct
<1>13. ASSUME NEW e \in Events, OkuriKeyPress(e)
       PROVE  \E r : Deliver(r) /\ Conduct(eng, r)
  <2>1. PICK d \in Answers : Deliver(Delivered(HandleOkuri(eng, e, d)))
    BY <1>13 DEF OkuriKeyPress
  <2>2. eng.phase.tag = "Okuri" /\ ~eng.raw
    BY <1>13 DEF OkuriKeyPress, Phase
  <2>3. Handled(eng, HandleOkuri(eng, e, d))
    BY <1>1, <2>2, HandleOkuriDrew, TypingHandled
  <2>4. QED
    BY <1>1, <2>1, <2>2, <2>3, HandleOkuriOK, DeliveredConduct
<1>14. ASSUME NEW e \in Events, SelectingKey(e)
       PROVE  \E r : Deliver(r) /\ Conduct(eng, r)
  <2>1. PICK d \in Answers : Deliver(Delivered(HandleSelecting(eng, e, d)))
    BY <1>14 DEF SelectingKey
  <2>2. Choosing(eng) /\ ~eng.raw
    BY <1>1, <1>14 DEF SelectingKey, Phase, Choosing
  <2>3. QED
    BY <1>1, <2>1, <2>2, HandleSelectingHandled, HandleSelectingOK, DeliveredConduct
<1>15. QED
  BY <1>2, <1>3, <1>4, <1>5, <1>6, <1>7, <1>8, <1>9, <1>10, <1>11, <1>12, <1>13, <1>14
     DEF Next
----------------------------------------------------------------------------
(* The invariant.  That a listing page is on the screen needs the window   *)
(* to follow every change of the focus, that the pages are aligned needs   *)
(* the selection a purge prompt will return to, and that a composition is  *)
(* visible is inductive only where leaving raw mode redraws it: everywhere *)
(* but inside a registration.                                              *)
CInv ==
    /\ IInv
    /\ PagesAligned(eng)
    /\ ListingIsShown
    /\ InView(eng) => ui.preedit = "shown"

(* A new session satisfies it.                                             *)
LEMMA InitConducts == Init => CInv
<1> SUFFICES ASSUME Init PROVE CInv
  OBVIOUS
<1>1. IInv
  BY InitOK
<1>2. /\ eng.phase.tag = InitialPhase /\ eng.kana = <<>> /\ eng.stack = <<>>
  BY DEF Init, NewEngine
<1>3. InitialPhase \in KanaMode \cup {"Ascii", "WideAscii"}
  BY EngineAssumption DEF EngineAssumption
<1>4. eng.phase.tag \notin {"Selecting", "PurgeConfirm"}
  BY <1>2, <1>3 DEF KanaMode
<1>5. ~PreeditShown(eng)
  BY <1>2, <1>3 DEF PreeditShown
<1>6. QED
  BY <1>1, <1>4, <1>5 DEF CInv, PagesAligned, ListingIsShown, InView

(* Every step keeps it.                                                    *)
LEMMA StepConducts == CInv /\ [Next]_vars => CInv'
<1> SUFFICES ASSUME CInv, [Next]_vars PROVE CInv'
  OBVIOUS
<1>1. IInv /\ IInv'
  BY StepOK DEF CInv
<1>2. CASE UNCHANGED vars
  <2>1. eng' = eng /\ ui' = ui
    BY <1>2 DEF vars
  <2>2. PagesAligned(eng') /\ (InView(eng') => ui'.preedit = "shown")
    BY <2>1 DEF CInv
  <2>3. ListingIsShown'
    BY <2>1 DEF CInv, ListingIsShown
  <2>4. QED
    BY <1>1, <2>2, <2>3 DEF CInv, PagesAligned, InView, PreeditShown
<1>3. CASE Next
  <2>1. PICK r : Deliver(r) /\ Conduct(eng, r)
    BY <1>1, <1>3, StepConduct
  <2>2. /\ eng' = r.eng
        /\ ui'.preedit = Later(ui.preedit, r.out.preedit)
        /\ ui'.window = Later(ui.window, r.out.window)
    BY <2>1 DEF Deliver
  <2>3. PagesAligned(eng')
    BY <2>1, <2>2 DEF CInv, Conduct
  <2>4. InView(eng') => ui'.preedit = "shown"
    BY <2>1, <2>2 DEF CInv, Conduct, ShowsPreedit, Later
  <2>5. ListingIsShown'
    BY <2>1, <2>2 DEF CInv, Conduct, ShowsPage, ListingIsShown, Later, Listing
  <2>6. QED
    BY <1>1, <2>3, <2>4, <2>5 DEF CInv, PagesAligned, InView, PreeditShown
<1>4. QED
  BY <1>2, <1>3

(* The inductive invariant holds in every reachable state.                 *)
THEOREM Conducted == Spec => []CInv
  BY InitConducts, StepConducts, PTL DEF Spec

(* A page of candidates starts where a page starts, however the user moved *)
(* back and forth and whatever a refused purge came back to.               *)
THEOREM PagesStartAligned == Spec => []PageAligned
<1>1. CInv => PageAligned
  BY DEF CInv, PagesAligned, Aligned, PageAligned
<1>2. QED
  BY <1>1, Conducted, PTL

(* The candidate window is open whenever a selection key would pick from   *)
(* it: after a page key, a refused purge, and on leaving raw mode.         *)
THEOREM PagesAreShown == Spec => []ListingIsShown
<1>1. CInv => ListingIsShown
  BY DEF CInv
<1>2. QED
  BY <1>1, Conducted, PTL

(* Outside a registration whatever is composed is on the screen,           *)
THEOREM VisibleOutsideRegistration == Spec => [](eng.stack = <<>> => CompositionVisible)
<1>1. CInv => (eng.stack = <<>> => CompositionVisible)
  BY DEF CInv, CompositionVisible, InView
<1>2. QED
  BY <1>1, Conducted, PTL

(* and without a raw-mode key inside one as well: only render_current_phase *)
(* hides the registration prompt.                                          *)
THEOREM VisibleWithoutRawMode ==
  ASSUME RawKeys = {}
  PROVE  Spec => []CompositionVisible
<1>1. CInv => CompositionVisible
  BY DEF CInv, CompositionVisible, InView
<1>2. QED
  BY <1>1, Conducted, PTL

(* While a word is being registered neither text nor a key reaches the     *)
(* application.                                                            *)
THEOREM Sealing == Spec => RegistrationSealed
<1> DEFINE A == eng.stack # <<>> /\ eng'.stack # <<>> /\ ~eng.raw /\ ~eng'.raw
                  => ~sent'.text /\ ~sent'.key
<1>1. CInv /\ [Next]_vars => [A]_vars
  <2> SUFFICES ASSUME CInv, Next PROVE A
    OBVIOUS
  <2>1. PICK r : Deliver(r) /\ Conduct(eng, r)
    BY StepConduct DEF CInv
  <2>2. eng' = r.eng /\ sent' = Dispatch(r.out, Indicator(eng) # Indicator(r.eng))
    BY <2>1 DEF Deliver
  <2>3. Sealed(eng, r)
    BY <2>1 DEF Conduct
  <2>4. QED
    BY <2>2, <2>3 DEF Sealed, Dispatch
<1>2. QED
  BY <1>1, Conducted, PTL DEF Spec, RegistrationSealed

(* The buffers of the enclosing registrations wait unchanged.              *)
THEOREM OuterBuffersWait == Spec => OuterFramesFrozen
<1> DEFINE A ==
      LET kept == IF Len(eng'.stack) > Len(eng.stack) THEN Len(eng.stack)
                  ELSE Len(eng'.stack) - 1
      IN  /\ Len(eng'.stack) <= Len(eng.stack) + 1
          /\ Len(eng.stack) <= Len(eng'.stack) + 1
          /\ \A i \in 1 .. kept : eng'.stack[i] = eng.stack[i]
<1>1. CInv /\ [Next]_vars => [A]_vars
  <2> SUFFICES ASSUME CInv, Next PROVE A
    OBVIOUS
  <2>1. PICK r : Deliver(r) /\ Conduct(eng, r)
    BY StepConduct DEF CInv
  <2>2. OneFrame(eng.stack, eng'.stack)
    BY <2>1 DEF Deliver, Conduct
  <2>3. QED
    BY <2>2 DEF OneFrame
<1>2. QED
  BY <1>1, Conducted, PTL DEF Spec, OuterFramesFrozen

(* A word learned while candidates are offered was one of the visible, and *)
(* a dictionary's.                                                         *)
THEOREM LearnsVisible == Spec => LearnsWhatWasVisible
<1> DEFINE A ==
      eng.phase.tag = "Selecting" /\ call'.op = "learn" =>
        \E i \in DOMAIN eng.phase.cands :
            /\ eng.phase.index < i /\ i <= eng.phase.index + PageSize(eng.phase.index)
            /\ ~eng.phase.cands[i].synthetic
            /\ call'.word = eng.phase.cands[i].template
<1>1. CInv /\ [Next]_vars => [A]_vars
  <2> SUFFICES ASSUME CInv, Next PROVE A
    OBVIOUS
  <2>1. PICK r : Deliver(r) /\ Conduct(eng, r)
    BY StepConduct DEF CInv
  <2>2. call' = r.out.call
    BY <2>1 DEF Deliver
  <2>3. QED
    BY <2>1, <2>2 DEF Conduct, Visible
<1>2. QED
  BY <1>1, Conducted, PTL DEF Spec, LearnsWhatWasVisible

(* With tables in which no single letter converts by itself, no candidate  *)
(* is passed over: neither by moving on, nor by moving back, nor by        *)
(* offering to register a word.                                            *)
THEOREM AllCandidatesOffered ==
  ASSUME TriggersStandAlone
  PROVE  Spec => EveryCandidateOffered
<1> DEFINE A ==
      eng.phase.tag = "Selecting" =>
        /\ eng'.phase.tag = "Selecting" => NoneSkipped(eng.phase, eng'.phase)
        /\ Len(eng'.stack) > Len(eng.stack)
              => eng.phase.index + PageSize(eng.phase.index) >= Len(eng.phase.cands)
<1>1. CInv /\ [Next]_vars => [A]_vars
  <2> SUFFICES ASSUME CInv, Next PROVE A
    OBVIOUS
  <2>1. PICK r : Deliver(r) /\ Conduct(eng, r)
    BY StepConduct DEF CInv
  <2>2. eng' = r.eng
    BY <2>1 DEF Deliver
  <2>3. eng.phase.tag = "Selecting" => Offers(eng, r.eng)
    BY <2>1 DEF Conduct, CInv
  <2>4. QED
    BY <2>2, <2>3 DEF Offers
<1>2. QED
  BY <1>1, Conducted, PTL DEF Spec, EveryCandidateOffered
----------------------------------------------------------------------------
(* A key a handler uses does not reach the application.                    *)
LEMMA UsedIsKept ==
  ASSUME NEW r, ResultOK(r), Used(r), r.out.preedit # "keep", Deliver(Delivered(r))
  PROVE  ~sent'.key
<1> DEFINE q == Delivered(r)
<1>1. ~q.out.pass /\ ~q.out.del /\ (q.out.preedit # "keep" \/ q.out.window # "keep")
  BY Intercepted DEF Delivered, Used
<1>2. sent' = Dispatch(q.out, Indicator(eng) # Indicator(q.eng))
  BY DEF Deliver
<1> HIDE DEF q
<1>3. QED
  BY <1>1, <1>2 DEF Dispatch

(* A printable key typed into a reading, an okurigana, an abbreviation or  *)
(* a code point never reaches the application.                             *)
THEOREM ComposingKeepsKeys == Spec => ComposingConsumes
<1> DEFINE A ==
      eng.phase.tag \in Composing /\ sent'.key => \A e \in Events :
        ~(/\ Printable(e)
          /\ MidashiKey(e) \/ OkuriKeyPress(e) \/ AbbrevKey(e) \/ CodeInputKey(e))
<1>1. CInv => A
  <2> SUFFICES ASSUME CInv, NEW e \in Events, Printable(e),
                      MidashiKey(e) \/ OkuriKeyPress(e) \/ AbbrevKey(e) \/ CodeInputKey(e)
               PROVE  ~sent'.key
    OBVIOUS
  <2>1. Good(eng)
    BY IInvIsGood DEF CInv
  <2>2. CASE MidashiKey(e)
    <3>1. PICK d \in Answers : Deliver(Delivered(HandleMidashi(eng, e, d)))
      BY <2>2 DEF MidashiKey
    <3>2. Reading(eng)
      BY <2>1, <2>2 DEF MidashiKey, Phase, Reading
    <3>3. Drew(eng, HandleMidashi(eng, e, d)) /\ Used(HandleMidashi(eng, e, d))
      BY <3>2, HandleMidashiDrew
    <3>4. QED
      BY <3>1, <3>2, <3>3, HandleMidashiOK, UsedIsKept DEF Drew
  <2>3. CASE OkuriKeyPress(e)
    <3>1. PICK d \in Answers : Deliver(Delivered(HandleOkuri(eng, e, d)))
      BY <2>3 DEF OkuriKeyPress
    <3>2. eng.phase.tag = "Okuri"
      BY <2>3 DEF OkuriKeyPress, Phase
    <3>3. Drew(eng, HandleOkuri(eng, e, d)) /\ Used(HandleOkuri(eng, e, d))
      BY <2>1, <3>2, HandleOkuriDrew
    <3>4. QED
      BY <2>1, <3>1, <3>2, <3>3, HandleOkuriOK, UsedIsKept DEF Drew
  <2>4. CASE AbbrevKey(e)
    <3>1. PICK d \in Answers : Deliver(Delivered(HandleAbbrev(eng, e, d)))
      BY <2>4 DEF AbbrevKey
    <3>2. eng.phase.tag = "Abbrev"
      BY <2>4 DEF AbbrevKey, Phase
    <3>3. Drew(eng, HandleAbbrev(eng, e, d)) /\ Used(HandleAbbrev(eng, e, d))
      BY <2>1, <3>2, HandleAbbrevDrew
    <3>4. QED
      BY <2>1, <3>1, <3>2, <3>3, HandleAbbrevOK, UsedIsKept DEF Drew
  <2>5. CASE CodeInputKey(e)
    <3>1. Deliver(Delivered(HandleCodeInput(eng, e))) /\ eng.phase.tag = "CodeInput"
      BY <2>5 DEF CodeInputKey, Phase
    <3>2. Drew(eng, HandleCodeInput(eng, e)) /\ Used(HandleCodeInput(eng, e))
      BY <2>1, <3>1, HandleCodeInputDrew
    <3>3. QED
      BY <2>1, <3>1, <3>2, HandleCodeInputOK, UsedIsKept DEF Drew
  <2>6. QED
    BY <2>2, <2>3, <2>4, <2>5
<1>2. CInv /\ [Next]_vars => [A]_vars
  BY <1>1
<1>3. QED
  BY <1>2, Conducted, PTL DEF Spec, ComposingConsumes
=============================================================================
