------------------------------- MODULE Engine -------------------------------
(***************************************************************************)
(* SkkEngine (skk-core/engine.rs): the state machine that turns the keys   *)
(* of one input context into committed text, preedit updates, candidate    *)
(* window updates and dictionary calls.                                    *)
(*                                                                         *)
(* The user dictionary is shared with every other session of the daemon    *)
(* and can change between any two keys, so a lookup answers any list the   *)
(* constants allow.  One step is one key press: process_key, the handler   *)
(* of the current phase with every helper it calls, the redirection into   *)
(* the registration buffer, and what the adapter does with the result.     *)
(***************************************************************************)
EXTENDS KanaTable, FiniteSets

CONSTANTS
    InitialPhase,    \* the configured phase a session starts in
    Events,          \* the key presses of a run: [key, ctrl, shift]
    Lower,           \* Letter -> Letter, to_ascii_lowercase
    Digit, Hex, Alpha, \* classes of letters
    SpaceChar,       \* the letter the space bar types
    KanaN,           \* the kana a pending "n" becomes at the end of a reading
    Hash,            \* the character "#" that stands for a number in a headword
    AsciiKeys, WideKeys, KatakanaKeys, AbbrevKeys, CancelKeys,  \* SkkKeybindings
    InlineCount, SelectionKeys, TriggerChars, ToggleKeys, RawKeys, ViEscape,
    PurgeYes, PurgeNo, \* the two answers the purge prompt understands
    Decode,          \* Decode[prefix]: code point typed |-> text, decode_*_code
    Wide,            \* Letter -> Text, to_wide_ascii (<<>> when there is none)
    Lookups,         \* what the dictionaries may answer: sequences of [word, template]
    Synths,          \* the words synthesized from a number: non-empty sequences
    Tails,           \* how a completion may extend a reading, <<>> when none does
    MaxReading,      \* bound: the length of a reading or an okurigana
    MaxTyped,        \* bound: the length of an abbreviation, a code, a purge answer
    MaxBuffer,       \* bound: the depth plus the text in two registrations
    MaxDepth         \* bound: how deep registrations nest

Named == {"Return", "Escape", "BackSpace", "Delete", "Left", "Right", "Tab",
          "Space", "Up"}
Found == [word : Text, template : Text]

ASSUME EngineAssumption ==
    /\ InitialPhase \in KanaMode \cup {"Ascii", "WideAscii"}
    /\ Events \subseteq [key : Named \cup Letter, ctrl : BOOLEAN, shift : BOOLEAN]
    /\ Letter \cap Named = {}
    /\ Lower \in [Letter -> Letter]
    /\ Digit \subseteq Letter /\ Hex \subseteq Letter /\ Alpha \subseteq Letter
    /\ SpaceChar \in Letter /\ KanaN \in Glyph /\ Hash \in Glyph /\ ">" \in Glyph
    /\ InlineCount \in Nat /\ SelectionKeys \in Seq(Letter) /\ ViEscape \in BOOLEAN
    /\ PurgeYes \in Seq(Letter) /\ PurgeNo \in Seq(Letter) /\ PurgeYes # PurgeNo
    /\ \A prefix \in {"Jis", "Unicode"} :
          \A code \in DOMAIN Decode[prefix] : Decode[prefix][code] \in Text
    /\ Wide \in [Letter -> Text]
    /\ Lookups \subseteq Seq(Found)
    /\ Synths \subseteq Seq(Text) \ {<<>>}
    /\ Tails \subseteq Text
    /\ MaxReading \in Nat /\ MaxTyped \in Nat /\ MaxBuffer \in Nat /\ MaxDepth \in Nat

VARIABLES
    eng,   \* struct SkkEngine
    ui,    \* what the adapter shows: the preedit and the candidate window
    sent,  \* what the last key sent to the application
    call   \* the dictionary call the last key made
vars == <<eng, ui, sent, call>>

Answers == [found : Lookups, synth : Synths, tail : Tails]
----------------------------------------------------------------------------
(* Key events.                                                             *)
Printable(e)  == e.key \in Letter \cup {"Space"}
CharOf(e)     == IF e.key = "Space" THEN SpaceChar ELSE e.key
IsCtrl(e, ch) == e.ctrl /\ e.key = ch
Upper(ch)     == Lower[ch] # ch
Affix         == {">", "<", "?"}

(* Sequences.                                                              *)
Front(s)   == SubSeq(s, 1, Len(s) - 1)
Chop(s)    == IF s = <<>> THEN s ELSE Front(s)
Last(s)    == s[Len(s)]

(* enum SkkPhase: one record per variant.                                  *)
Kana(mode)             == [tag |-> mode]
Ascii                  == [tag |-> "Ascii"]
WideAscii              == [tag |-> "WideAscii"]
CodeInput(prefix, buf) == [tag |-> "CodeInput", prefix |-> prefix, buf |-> buf]
Abbrev(buf)            == [tag |-> "Abbrev", buf |-> buf]
Midashi(kana, roman)   == [tag |-> "Midashi", kana |-> kana, roman |-> roman]
Okuri(midashi, kana)   == [tag |-> "Okuri", midashi |-> midashi, kana |-> kana]
Selecting(midashi, okuri, okuriKey, cands, index) ==
    [tag |-> "Selecting", midashi |-> midashi, okuri |-> okuri,
     okuriKey |-> okuriKey, cands |-> cands, index |-> index]
PurgeConfirm(sel, buf, mode) ==
    [tag |-> "PurgeConfirm", sel |-> sel, buf |-> buf, mode |-> mode]

NoCompletion == [prefix |-> <<>>, preview |-> <<>>]

(* The actions one key produces, in the order the adapters apply them:     *)
(* committed text concatenated, then the last preedit and window update.   *)
NoCall   == [op |-> "none", midashi |-> <<>>, okuri |-> <<>>, word |-> <<>>]
Nothing  == [text |-> <<>>, del |-> FALSE, pass |-> FALSE,
             preedit |-> "keep", window |-> "keep", call |-> NoCall]
Passthrough == [Nothing EXCEPT !.pass = TRUE]
ClearPreedit == [Nothing EXCEPT !.preedit = "hidden"]
Commit(text) == [ClearPreedit EXCEPT !.text = text]
Later(a, b)  == IF b = "keep" THEN a ELSE b
Then(a, b)   == [text    |-> a.text \o b.text,
                 del     |-> a.del \/ b.del,
                 pass    |-> a.pass \/ b.pass,
                 preedit |-> Later(a.preedit, b.preedit),
                 window  |-> Later(a.window, b.window),
                 call    |-> IF b.call = NoCall THEN a.call ELSE b.call]
R(s, out)    == [eng |-> s, out |-> out]

(* Whether build_preedit gives a non-empty string.                         *)
PreeditShown(s) ==
    \/ s.stack # <<>>
    \/ /\ s.phase.tag \notin {"Ascii", "WideAscii"}
       /\ s.phase.tag \in KanaMode => s.kana # <<>>

(* preedit_action                                                          *)
Preedit(s) == [Nothing EXCEPT !.preedit = IF PreeditShown(s) THEN "shown" ELSE "hidden"]

BackToKana(s) == [s EXCEPT !.phase = Kana(s.display), !.kana = <<>>]
ToHiragana(s) == [s EXCEPT !.phase = Kana("Hiragana"), !.kana = <<>>]

(* update_completion: the first completion of the reading, if any.          *)
Completion(reading, d) ==
    IF reading = <<>> \/ d.tail = <<>>
    THEN NoCompletion
    ELSE [prefix |-> reading, preview |-> reading \o d.tail]
----------------------------------------------------------------------------
(* Registration frames.                                                    *)

(* num::scan: each run of digits becomes one "#".                          *)
Template(reading) ==
    LET starts == SelectSeq([i \in DOMAIN reading |-> i],
                            LAMBDA i : \/ reading[i] \notin Digit
                                       \/ i = 1
                                       \/ reading[i - 1] \notin Digit)
    IN  [k \in DOMAIN starts |-> IF reading[starts[k]] \in Digit
                                 THEN Hash ELSE reading[starts[k]]]
HasDigit(reading) == \E i \in DOMAIN reading : reading[i] \in Digit

(* struct RegisterFrame; its template reading is Template(original).       *)
NewFrame(s, reading, okuriKey, okuri) ==
    [original |-> reading, okuriKey |-> okuriKey, okuri |-> okuri,
     committed |-> <<>>, cursor |-> 0, abbrev |-> s.abbrev]

Top(s) == Last(s.stack)

(* Mutant: writes the outermost frame instead of the innermost.             *)
WithFirst(s, frame) == [s EXCEPT !.stack[1] = frame]
WithTop(s, frame) == [s EXCEPT !.stack[Len(s.stack)] = frame]

InsertInto(f, text) ==
    [f EXCEPT !.committed = SubSeq(f.committed, 1, f.cursor) \o text
                            \o SubSeq(f.committed, f.cursor + 1, Len(f.committed)),
              !.cursor = f.cursor + Len(text)]
RemoveAt(f, i) ==
    [f EXCEPT !.committed = SubSeq(f.committed, 1, i - 1)
                            \o SubSeq(f.committed, i + 1, Len(f.committed))]

RegBackspace(f) ==
    IF f.cursor > 0 THEN [RemoveAt(f, f.cursor) EXCEPT !.cursor = f.cursor - 1] ELSE f
RegDelete(f) ==
    IF f.cursor < Len(f.committed) THEN RemoveAt(f, f.cursor + 1) ELSE f
RegMoveLeft(f) ==
    IF f.cursor > 0 THEN [f EXCEPT !.cursor = f.cursor - 1] ELSE f
RegMoveRight(f) ==
    IF f.cursor < Len(f.committed) THEN [f EXCEPT !.cursor = f.cursor + 1] ELSE f

(* split_register_annotation: the word before the last ";".                *)
RegisteredWord(buf) ==
    LET marks == {i \in 2..Len(buf) : buf[i] = ";"}
    IN  IF marks = {} THEN buf
        ELSE SubSeq(buf, 1, (CHOOSE i \in marks : \A j \in marks : j <= i) - 1)

EnterRegister(s, reading, okuriKey, okuri) ==
    [ToHiragana(s) EXCEPT !.stack = Append(s.stack, NewFrame(s, reading, okuriKey, okuri))]

(* Mutant: an inner registration hides the prompt of the outer one.         *)
FinalizeRegisterHiding(s) ==
    LET frame == Top(s)
        word  == RegisteredWord(frame.committed)
        outer == [ToHiragana(s) EXCEPT !.stack = Front(s.stack)]
    IN  IF outer.stack = <<>>
        THEN R(outer, Commit(word \o frame.okuri))
        ELSE R(WithTop(outer, InsertInto(Top(outer), word)), ClearPreedit)

FinalizeRegister(s) ==
    LET frame == Top(s)
        word  == RegisteredWord(frame.committed)
        outer == [ToHiragana(s) EXCEPT !.stack = Front(s.stack)]
        learn == [op |-> "learn", midashi |-> Template(frame.original),
                  okuri |-> frame.okuriKey, word |-> word]
    IN  IF outer.stack = <<>>
        THEN R(outer, [Commit(word \o frame.okuri) EXCEPT !.call = learn])
        ELSE LET inserted == WithTop(outer, InsertInto(Top(outer), word))
             IN  R(inserted, [Preedit(inserted) EXCEPT !.call = learn])

CancelRegister(s, d) ==
    LET frame == Top(s)
        outer == [ToHiragana(s) EXCEPT !.stack = Front(s.stack)]
        back  == IF frame.abbrev
                 THEN [outer EXCEPT !.phase = Abbrev(frame.original)]
                 ELSE [outer EXCEPT !.phase = Midashi(frame.original, <<>>),
                                    !.completion = Completion(frame.original, d)]
    IN  IF outer.stack = <<>>
        THEN R(back, [Preedit(back) EXCEPT !.window = "hidden"])
        ELSE R(outer, Preedit(outer))
----------------------------------------------------------------------------
(* Conversion.                                                             *)
Listing(index) == Len(SelectionKeys) > 0 /\ index >= InlineCount

(* listing_show_action                                                     *)
ListingWindow(index) == IF Listing(index) THEN "shown" ELSE "keep"

(* The candidate list of start_conversion with each candidate's origin:    *)
(* what the dictionaries answered, then the synthesized numbers when the   *)
(* reading is a number or nothing else was found.                          *)
Candidates(reading, d) ==
    LET numeric == HasDigit(reading)
        dict  == [i \in DOMAIN d.found |->
                    [word      |-> d.found[i].word,
                     template  |-> IF numeric THEN d.found[i].template
                                              ELSE d.found[i].word,
                     synthetic |-> FALSE]]
        synth == [i \in DOMAIN d.synth |->
                    [word |-> d.synth[i], template |-> <<>>, synthetic |-> TRUE]]
    IN  IF numeric /\ (dict = <<>> \/ Template(reading) = <<Hash>>)
        THEN dict \o synth ELSE dict

StartConversion(s, reading, okuriKey, okuri, d) ==
    LET cands == Candidates(reading, d)
        reg   == EnterRegister([s EXCEPT !.completion = NoCompletion],
                               reading, okuriKey, okuri)
        sel   == [s EXCEPT !.completion = NoCompletion,
                           !.phase = Selecting(reading, okuri, okuriKey, cands, 0)]
    IN  IF cands = <<>>
        THEN R(reg, Preedit(reg))
        ELSE R(sel, [Preedit(sel) EXCEPT !.window = ListingWindow(0)])

(* The entry commit_candidate records for a candidate.                     *)
LearnedEntry(sel, index) ==
    [op |-> "learn", midashi |-> Template(sel.midashi), okuri |-> sel.okuriKey,
     word |-> sel.cands[index + 1].template]

CommitCandidate(s, sel, index) ==
    LET chosen == sel.cands[index + 1]
    IN  R([BackToKana(s) EXCEPT !.trigger = <<>>],
          [Commit(chosen.word \o sel.okuri \o s.trigger) EXCEPT
              !.window = "hidden",
              !.call = IF chosen.synthetic THEN NoCall ELSE LearnedEntry(sel, index)])
----------------------------------------------------------------------------
(* Midashi mode: the reading is typed in kana (handle_midashi).            *)
FlushN(kana, roman) == IF roman = <<"n">> THEN Append(kana, KanaN) ELSE kana

NoGhost(s) == [s EXCEPT !.completion = NoCompletion]

MidashiCancel(s) == R(NoGhost(ToHiragana(s)), ClearPreedit)

(* Mutant: deletes pending romaji from the display but not from the state.  *)
MidashiBackSpaceHalf(s, d) ==
    LET p == s.phase
        shorter == [s EXCEPT !.phase = Midashi(p.kana, Front(p.roman))]
        popped  == [s EXCEPT !.phase = Midashi(Front(p.kana), p.roman),
                             !.completion = Completion(Front(p.kana), d)]
    IN  IF p.roman # <<>> THEN R(shorter, Preedit(shorter))
        ELSE IF p.kana # <<>> THEN R(popped, Preedit(popped))
        ELSE MidashiCancel(s)

MidashiBackSpace(s, d) ==
    LET p == s.phase
        shorter == [s EXCEPT !.phase = Midashi(p.kana, Front(p.roman)),
                             !.kana = Front(p.roman)]
        popped  == [s EXCEPT !.phase = Midashi(Front(p.kana), p.roman),
                             !.kana = <<>>,
                             !.completion = Completion(Front(p.kana), d)]
    IN  IF p.roman # <<>> THEN R(shorter, Preedit(shorter))
        ELSE IF p.kana # <<>> THEN R(popped, Preedit(popped))
        ELSE MidashiCancel(s)

MidashiReturn(s) ==
    LET kana == FlushN(s.phase.kana, s.phase.roman)
    IN  R(NoGhost(BackToKana(s)), [Commit(kana) EXCEPT !.pass = TRUE])

MidashiSpace(s, d) ==
    LET kana == FlushN(s.phase.kana, s.phase.roman)
    IN  IF kana = <<>> THEN MidashiCancel(s)
        ELSE StartConversion([s EXCEPT !.kana = <<>>], kana, <<>>, <<>>, d)

(* Accepts the ghost and offers the next completion of the same prefix.    *)
MidashiTab(s, d) ==
    LET c == s.completion
        accepted == [s EXCEPT !.phase = Midashi(c.preview, <<>>), !.kana = <<>>,
                              !.completion = Completion(c.prefix, d)]
    IN  IF s.phase.roman = <<>> /\ c # NoCompletion
        THEN R(accepted, Preedit(accepted)) ELSE R(s, Preedit(s))

MidashiHalfWidth(s) ==
    R(NoGhost(BackToKana(s)), Commit(InScript(s.phase.kana, "HalfWidth")))

(* A trigger after a reading converts it and is appended to the candidate. *)
ConvertWithTrigger(s, kana, trigger, d) ==
    IF kana = <<>>
    THEN R(NoGhost(BackToKana(s)), Commit(trigger))
    ELSE StartConversion([s EXCEPT !.trigger = trigger, !.kana = <<>>],
                         kana, <<>>, <<>>, d)

MidashiTrigger(s, kana, ch, d) ==
    LET t == Transition(<<>>, ch, "Hiragana")
    IN  ConvertWithTrigger(s, kana,
            IF t.kind = "Ok" /\ t.output # <<>> /\ t.next = <<>> THEN t.output ELSE <<ch>>,
            d)

(* ">", "<" and "?" look up a prefix, written reading + ">".               *)
MidashiAffix(s, d) ==
    LET kana  == s.phase.kana \o s.phase.roman
        still == NoGhost([s EXCEPT !.phase = Midashi(<<>>, <<>>), !.kana = <<>>])
    IN  IF kana = <<>> THEN R(still, Preedit(still))
        ELSE StartConversion([s EXCEPT !.kana = <<>>], Append(kana, ">"), <<>>, <<>>, d)

(* Mutant: a digit is recorded and also given to the application.           *)
MidashiDigitLeaks(s, kana, ch) ==
    R(NoGhost([s EXCEPT !.phase = Midashi(Append(kana, ch), <<>>), !.kana = <<>>]),
      Passthrough)

MidashiDigit(s, kana, ch) ==
    LET typed == NoGhost([s EXCEPT !.phase = Midashi(Append(kana, ch), <<>>), !.kana = <<>>])
    IN  R(typed, Preedit(typed))

(* A letter the kana table accepts: t is the rule it fired.                *)
MidashiFed(s, kana, t, d) ==
    LET read    == kana \o t.output
        partial == NoGhost([s EXCEPT !.phase = Midashi(read, t.next), !.kana = t.next])
        done    == [s EXCEPT !.phase = Midashi(read, <<>>), !.kana = <<>>,
                             !.completion = Completion(read, d)]
    IN  IF t.output = <<>> \/ t.next # <<>> THEN R(partial, Preedit(partial))
        ELSE IF Last(read) \notin Letter /\ Last(read) \in TriggerChars
             THEN ConvertWithTrigger(s, Front(read), <<Last(read)>>, d)
        ELSE R(done, Preedit(done))

(* A letter typed at the start state: "q" commits the reading in the other *)
(* script when the table does not use it.                                  *)
MidashiFromStart(s, kana, ch, ctrl, d) ==
    LET t     == Transition(<<>>, ch, "Hiragana")
        still == [s EXCEPT !.phase = Midashi(kana, <<>>), !.kana = <<>>]
        other == IF s.display = "Hiragana" THEN InScript(kana, "Katakana") ELSE kana
    IN  IF t.kind = "Ok" THEN MidashiFed(s, kana, t, d)
        ELSE IF ch = "q" /\ ~ctrl /\ kana # <<>>
             THEN R(NoGhost(BackToKana(s)), Commit(other))
        ELSE R(still, Preedit(still))

(* The letter a wildcard rule or a failed rule gives back, typed again.    *)
MidashiRetry(s, kana, ch, d) ==
    IF ch \in TriggerChars THEN MidashiTrigger(s, kana, ch, d)
    ELSE IF ch \in Digit THEN MidashiDigit(s, kana, ch)
    ELSE MidashiFromStart(s, kana, ch, FALSE, d)

MidashiLetter(s, ch, ctrl, d) ==
    LET t == Transition(s.kana, ch, "Hiragana")
        p == s.phase
    IN  IF s.kana = <<>> THEN MidashiFromStart(s, p.kana, ch, ctrl, d)
        ELSE IF t.kind = "Ok" THEN MidashiFed(s, p.kana, t, d)
        ELSE MidashiRetry(s, p.kana \o t.output, ch, d)
----------------------------------------------------------------------------
(* Okurigana (handle_okuri).                                               *)
OkuriBackSpace(s, d) ==
    LET p    == s.phase
        kana == IF s.kana = <<>> THEN Chop(p.kana) ELSE p.kana
        left == [s EXCEPT !.phase = Okuri(p.midashi, kana), !.kana = Chop(s.kana)]
        back == [s EXCEPT !.phase = Midashi(p.midashi, <<>>), !.kana = <<>>,
                          !.completion = Completion(p.midashi, d)]
    IN  IF left.kana = <<>> /\ kana = <<>> THEN R(back, Preedit(back))
                                           ELSE R(left, Preedit(left))

OkuriLetter(s, ch, d) ==
    LET p    == s.phase
        t    == Transition(s.kana, ch, "Hiragana")
        kana == p.kana \o t.output
        more == [s EXCEPT !.phase = Okuri(p.midashi, kana), !.kana = t.next]
    IN  IF t.kind \in {"Ok", "OkRetry"} /\ t.output # <<>> /\ t.next = <<>>
        THEN StartConversion(ToHiragana(s), p.midashi, OkuriKey(s.kana, ch), kana, d)
        ELSE R(more, Preedit(more))

HandleOkuri(s, e, d) ==
    IF e.key = "Escape" THEN R(ToHiragana(s), ClearPreedit)
    ELSE IF e.key = "BackSpace" THEN OkuriBackSpace(s, d)
    ELSE IF Printable(e) THEN OkuriLetter(s, Lower[CharOf(e)], d)
    ELSE R(s, Passthrough)

(* An upper-case letter starts the okurigana.  A doubled consonant gives   *)
(* its small kana to the reading first ("SasSu").                          *)
MidashiOkuri(s, e, d) ==
    LET t       == Transition(s.kana, Lower[e.key], "Hiragana")
        started == NoGhost([s EXCEPT !.phase = Okuri(s.phase.kana, <<>>)])
        doubled == NoGhost([s EXCEPT !.phase = Okuri(s.phase.kana \o t.output, <<>>),
                                     !.kana = t.next])
    IN  IF s.kana # <<>> /\ t.kind = "Ok" /\ t.output # <<>> /\ t.next # <<>>
        THEN R(doubled, Preedit(doubled))
        ELSE HandleOkuri(started, e, d)

HandleMidashi(s, e, d) ==
    LET ch == CharOf(e)
    IN  IF e.key = "Escape" THEN MidashiCancel(s)
        ELSE IF e.key = "BackSpace" THEN MidashiBackSpace(s, d)
        ELSE IF e.key = "Return" THEN MidashiReturn(s)
        ELSE IF e.key = "Space" THEN MidashiSpace(s, d)
        ELSE IF e.key = "Tab" THEN MidashiTab(s, d)
        ELSE IF IsCtrl(e, "q") THEN MidashiHalfWidth(s)
        ELSE IF ~Printable(e) THEN R(s, Passthrough)
        ELSE IF s.kana = <<>> /\ ch \in TriggerChars
             THEN MidashiTrigger(s, FlushN(s.phase.kana, s.phase.roman), ch, d)
        ELSE IF ch \in Affix THEN MidashiAffix(s, d)
        ELSE IF ch \in Digit /\ ~e.ctrl THEN MidashiDigit(s, s.phase.kana, ch)
        ELSE IF Upper(ch) /\ s.phase.kana # <<>> THEN MidashiOkuri(s, e, d)
        ELSE MidashiLetter(s, Lower[ch], e.ctrl, d)
----------------------------------------------------------------------------
(* Abbrev mode and code input.                                             *)
HandleAbbrev(s, e, d) ==
    LET buf == s.phase.buf
        Typing(b) == LET t == [s EXCEPT !.phase = Abbrev(b)] IN R(t, Preedit(t))
        Leave == [s EXCEPT !.phase = Kana(s.display)]
    IN  IF e.key = "Escape" \/ (e.key = "BackSpace" /\ buf = <<>>) THEN R(Leave, ClearPreedit)
        ELSE IF e.key = "BackSpace" THEN Typing(Front(buf))
        ELSE IF e.key = "Space" /\ buf # <<>> THEN StartConversion(s, buf, <<>>, <<>>, d)
        ELSE IF IsCtrl(e, "j") THEN R(Leave, Commit(buf))
        ELSE IF e.key = "Return" THEN R(Leave, [Commit(buf) EXCEPT !.pass = TRUE])
        ELSE IF e.key \in Letter /\ ~e.ctrl THEN Typing(Append(buf, e.key))
        ELSE R(s, Preedit(s))

HandleCodeInput(s, e) ==
    LET buf    == s.phase.buf
        prefix == s.phase.prefix
        Typing(p, b) == LET t == [s EXCEPT !.phase = CodeInput(p, b)] IN R(t, Preedit(t))
        decoded == IF buf \in DOMAIN Decode[prefix] THEN Decode[prefix][buf] ELSE <<>>
    IN  IF e.key = "Escape" THEN R(BackToKana(s), ClearPreedit)
        ELSE IF e.key = "BackSpace"
             THEN IF buf # <<>> THEN Typing(prefix, Front(buf))
                  ELSE IF prefix = "Unicode" THEN Typing("Jis", <<>>)
                  ELSE R(BackToKana(s), ClearPreedit)
        ELSE IF prefix = "Jis" /\ buf = <<>> /\ e.key = "u" THEN Typing("Unicode", <<>>)
        ELSE IF e.key = "Return" \/ IsCtrl(e, "j") THEN R(BackToKana(s), Commit(decoded))
        ELSE IF e.key \in Hex /\ ~e.ctrl THEN Typing(prefix, Append(buf, Lower[e.key]))
        ELSE R(s, Preedit(s))
----------------------------------------------------------------------------
(* Direct input.                                                           *)
HandleAscii(s, e) ==
    IF IsCtrl(e, "j") \/ IsCtrl(e, "q")
    THEN R([s EXCEPT !.phase = Kana("Hiragana")], ClearPreedit)
    ELSE R(s, Passthrough)

HandleWideAscii(s, e) ==
    IF IsCtrl(e, "j") \/ IsCtrl(e, "q")
    THEN R([s EXCEPT !.phase = Kana("Hiragana")], ClearPreedit)
    ELSE IF e.key = "Escape"
         THEN R(IF ViEscape THEN [s EXCEPT !.phase = Ascii] ELSE s,
                [ClearPreedit EXCEPT !.pass = TRUE])
    ELSE IF Printable(e) /\ Wide[CharOf(e)] # <<>>
         THEN R(s, [Nothing EXCEPT !.text = Wide[CharOf(e)]])
    ELSE R(s, Passthrough)

(* feed_kana from the start state, where no rule gives the letter back.    *)
FeedFromStart(s, ch) ==
    LET t   == Transition(<<>>, ch, s.phase.tag)
        fed == [s EXCEPT !.kana = t.next]
    IN  IF t.kind = "Ok" THEN R(fed, Then([Nothing EXCEPT !.text = t.output], Preedit(fed)))
                         ELSE R(fed, Commit(<<ch>>))

FeedKana(s, ch) ==
    LET t     == Transition(s.kana, ch, s.phase.tag)
        fed   == [s EXCEPT !.kana = t.next]
        again == FeedFromStart([s EXCEPT !.kana = <<>>], ch)
    IN  IF s.kana = <<>> THEN FeedFromStart(s, ch)
        ELSE IF t.kind = "Ok"
             THEN R(fed, Then([Nothing EXCEPT !.text = t.output], Preedit(fed)))
        ELSE R(again.eng, Then([Nothing EXCEPT !.text = t.output], again.out))

(* The keys that change mode when no romaji is pending.                    *)
ModeKeys == AsciiKeys \cup WideKeys \cup AbbrevKeys \cup KatakanaKeys

KanaModeKey(s, ch) ==
    LET Enter(phase) == [s EXCEPT !.phase = phase]
        abbrev == [s EXCEPT !.phase = Abbrev(<<>>), !.display = s.phase.tag, !.abbrev = TRUE]
    IN  IF ch \in AsciiKeys THEN R(Enter(Ascii), ClearPreedit)
        ELSE IF ch \in WideKeys THEN R(Enter(WideAscii), ClearPreedit)
        ELSE IF ch \in AbbrevKeys THEN R(abbrev, Preedit(abbrev))
        ELSE R(Enter(Kana(IF s.phase.tag = "Hiragana" THEN "Katakana" ELSE "Hiragana")),
               ClearPreedit)

HandleKana(s, e, d) ==
    LET ch   == CharOf(e)
        mode == s.phase.tag
        idle == [s EXCEPT !.kana = <<>>]
        popped == [s EXCEPT !.kana = Front(s.kana)]
        midashi == [s EXCEPT !.phase = Midashi(<<>>, <<>>), !.display = mode, !.abbrev = FALSE]
        code == [s EXCEPT !.phase = CodeInput("Jis", <<>>), !.display = mode]
    IN  IF IsCtrl(e, "j") THEN R(ToHiragana(s), ClearPreedit)
        ELSE IF IsCtrl(e, "q")
             THEN R([idle EXCEPT !.phase = Kana(IF mode = "HalfWidth" THEN "Hiragana"
                                                                     ELSE "HalfWidth")],
                    ClearPreedit)
        ELSE IF e.key = "Escape"
             THEN R(IF ViEscape THEN [idle EXCEPT !.phase = Ascii] ELSE idle,
                    [ClearPreedit EXCEPT !.pass = TRUE])
        ELSE IF e.key = "BackSpace" /\ s.kana # <<>> THEN R(popped, Preedit(popped))
        ELSE IF ~Printable(e) THEN R(s, Passthrough)
        ELSE IF e.ctrl THEN R(idle, Passthrough)
        ELSE IF s.kana = <<>> /\ ch \in ModeKeys THEN KanaModeKey(s, ch)
        ELSE IF s.kana = <<>> /\ Upper(ch) THEN HandleMidashi(midashi, e, d)
        ELSE IF s.kana = <<>> /\ ch = "\\" THEN R(code, Preedit(code))
        ELSE FeedKana(s, ch)
----------------------------------------------------------------------------
(* Candidate selection (handle_selecting).                                 *)
AtIndex(s, index) ==
    LET t == [s EXCEPT !.phase.index = index]
    IN  R(t, [Preedit(t) EXCEPT !.window = ListingWindow(index)])

CancelSelection(s, d) ==
    LET back == [s EXCEPT !.phase = Midashi(s.phase.midashi, <<>>), !.kana = <<>>,
                          !.trigger = <<>>,
                          !.completion = Completion(s.phase.midashi, d)]
    IN  R(back, [Preedit(back) EXCEPT !.window = "hidden"])

(* Mutants: the subtraction does not saturate; a page back moves by one.    *)
PreviousIndexWraps(index) ==
    IF Listing(index) THEN index - Len(SelectionKeys) ELSE index - 1
PreviousIndexByOne(index) == index - 1

PreviousIndex(index) ==
    IF ~Listing(index) THEN index - 1
    ELSE IF index >= InlineCount + Len(SelectionKeys) THEN index - Len(SelectionKeys)
    ELSE IF InlineCount > 0 THEN InlineCount - 1 ELSE 0

SelectPrevious(s) ==
    LET index == s.phase.index
        r     == AtIndex(s, PreviousIndex(index))
    IN  IF Listing(index) /\ ~Listing(PreviousIndex(index))
        THEN [r EXCEPT !.out.window = "hidden"] ELSE r

EnterRegisterFromSelecting(s) ==
    LET p   == s.phase
        reg == EnterRegister([s EXCEPT !.trigger = <<>>], p.midashi, p.okuriKey, p.okuri)
    IN  R(reg, [Preedit(reg) EXCEPT !.window = "hidden"])

(* Mutants: one candidate too many; a whole page also in inline mode.       *)
SelectNextOverruns(s) ==
    LET index == s.phase.index
        next  == index + (IF Listing(index) THEN Len(SelectionKeys) ELSE 1)
    IN  IF next > Len(s.phase.cands) THEN EnterRegisterFromSelecting(s) ELSE AtIndex(s, next)
SelectNextByPage(s) ==
    LET next == s.phase.index + Len(SelectionKeys)
    IN  IF next >= Len(s.phase.cands) THEN EnterRegisterFromSelecting(s) ELSE AtIndex(s, next)

SelectNext(s) ==
    LET index == s.phase.index
        next  == index + (IF Listing(index) THEN Len(SelectionKeys) ELSE 1)
    IN  IF next >= Len(s.phase.cands) THEN EnterRegisterFromSelecting(s)
                                      ELSE AtIndex(s, next)

(* Mutant: counts from the first candidate instead of the page's first.     *)
PickedFromFirst(sel, ch) ==
    {i \in 0 .. (Len(sel.cands) - 1) :
        i + 1 \in DOMAIN SelectionKeys /\ SelectionKeys[i + 1] = ch}

(* The candidate a selection key names on the current page.                *)
PickedBy(sel, ch) ==
    {i \in sel.index .. (Len(sel.cands) - 1) :
        /\ i - sel.index + 1 \in DOMAIN SelectionKeys
        /\ SelectionKeys[i - sel.index + 1] = ch
        /\ \A j \in 1 .. (i - sel.index) : SelectionKeys[j] # ch}

HandleSelecting(s, e, d) ==
    LET p  == s.phase
        ch == CharOf(e)
        picked    == IF Listing(p.index) /\ Printable(e) THEN PickedBy(p, ch) ELSE {}
        committed == CommitCandidate(s, p, p.index)
        suffix    == [committed.eng EXCEPT !.phase = Midashi(<<">">>, <<>>)]
        redone    == HandleKana(committed.eng, e, d)
        purge     == [s EXCEPT !.phase = PurgeConfirm(p, <<>>, s.display)]
    IN  IF e.key = "Escape" THEN CancelSelection(s, d)
        ELSE IF Printable(e) /\ ch \in CancelKeys
             THEN IF p.index = 0 THEN CancelSelection(s, d) ELSE SelectPrevious(s)
        ELSE IF e.key = "BackSpace" THEN [committed EXCEPT !.out.del = TRUE]
        ELSE IF e.key = "Return" THEN [committed EXCEPT !.out.pass = TRUE]
        ELSE IF IsCtrl(e, "j") THEN committed
        ELSE IF e.key = "Space" THEN SelectNext(s)
        ELSE IF picked # {} THEN CommitCandidate(s, p, CHOOSE i \in picked : TRUE)
        ELSE IF e.key = "X" /\ ~e.ctrl /\ ~Listing(p.index)
             THEN R(purge, [Preedit(purge) EXCEPT !.window = "hidden"])
        ELSE IF Printable(e) /\ ch \in Affix
             THEN R(suffix, Then(committed.out, Preedit(suffix)))
        ELSE IF Printable(e) /\ ~e.ctrl
             THEN R(redone.eng, Then(committed.out, redone.out))
        ELSE R(s, Passthrough)
----------------------------------------------------------------------------
(* Purge confirmation.  The engine hands execute_purge's arguments to the  *)
(* dictionaries: the reading, the okurigana and the word shown.            *)
ExecutePurge(s) ==
    LET sel == s.phase.sel
    IN  R([s EXCEPT !.phase = Kana(s.phase.mode), !.kana = <<>>, !.trigger = <<>>],
          [ClearPreedit EXCEPT
              !.window = "hidden",
              !.call = [op |-> "purge", midashi |-> sel.midashi, okuri |-> sel.okuri,
                        word |-> sel.cands[sel.index + 1].word]])

CancelPurge(s) == AtIndex([s EXCEPT !.phase = s.phase.sel], s.phase.sel.index)

HandlePurgeConfirm(s, e) ==
    LET buf == s.phase.buf
        Typing(b) == LET t == [s EXCEPT !.phase.buf = b] IN R(t, Preedit(t))
    IN  IF e.key = "Return"
        THEN IF buf = PurgeYes THEN ExecutePurge(s)
             ELSE IF buf = PurgeNo THEN CancelPurge(s)
             ELSE R(s, Nothing)
        ELSE IF e.key = "BackSpace" THEN Typing(Chop(buf))
        ELSE IF e.key \in Alpha /\ ~e.ctrl THEN Typing(Append(buf, e.key))
        ELSE R(s, Nothing)
----------------------------------------------------------------------------
(* Registration mode: the keys handle_press takes before the phase sees    *)
(* them, and the redirection of everything else into the buffer.           *)
CtrlG(e)  == IsCtrl(e, "g")
EditKeys  == {"BackSpace", "Delete", "Left", "Right"}
Ready(s)  == s.phase.tag \in KanaMode /\ s.kana = <<>>
Flushable == {"Abbrev", "Midashi", "Okuri"}

RegisterTakes(s, e) ==
    \/ CtrlG(e)
    \/ Ready(s) /\ e.key \in EditKeys \cup {"Return", "Escape"}
    \/ s.phase.tag \in Flushable /\ e.key = "Return"
    \/ /\ s.phase.tag = "Ascii"
       /\ \/ e.key \in EditKeys \cup {"Return", "Escape"}
          \/ Printable(e) /\ ~e.ctrl

Edited(f, key) ==
    CASE key = "BackSpace" -> RegBackspace(f)
      [] key = "Delete"    -> RegDelete(f)
      [] key = "Left"      -> RegMoveLeft(f)
      [] key = "Right"     -> RegMoveRight(f)

Flushed(phase) ==
    CASE phase.tag = "Abbrev"  -> phase.buf
      [] phase.tag = "Midashi" -> phase.kana
      [] phase.tag = "Okuri"   -> phase.midashi

RegisterPress(s, e, d) ==
    LET Put(t, frame) == LET u == WithTop(t, frame) IN R(u, Preedit(u))
    IN  IF CtrlG(e) THEN CancelRegister(s, d)
        ELSE IF s.phase.tag \in Flushable
             THEN Put(ToHiragana(s), InsertInto(Top(s), Flushed(s.phase)))
        ELSE IF e.key = "Escape" \/ (e.key = "Return" /\ Top(s).committed = <<>>)
             THEN CancelRegister(s, d)
        ELSE IF e.key = "Return" THEN FinalizeRegister(s)
        ELSE IF e.key \in EditKeys THEN Put(s, Edited(Top(s), e.key))
        ELSE Put(s, InsertInto(Top(s), <<CharOf(e)>>))

(* Mutant: keeps a handler's request to pass the key on.                    *)
InterceptPasses(r) ==
    LET frame == InsertInto(Top(r.eng), r.out.text)
    IN  R(WithTop(r.eng, frame),
          [Preedit(r.eng) EXCEPT !.pass = r.out.pass, !.window = r.out.window])

(* intercept_for_register                                                  *)
Intercept(r) ==
    LET o == r.out
        typed == InsertInto(Top(r.eng), o.text)
        frame == IF o.del THEN RegBackspace(typed) ELSE typed
        redraw == \/ o.text # <<>> \/ o.del \/ o.preedit # "keep" \/ o.window = "keep"
    IN  R(WithTop(r.eng, frame),
          [Nothing EXCEPT !.preedit = IF redraw THEN "shown" ELSE "keep",
                          !.window = o.window, !.call = o.call])

Delivered(r) == IF r.eng.stack = <<>> THEN r ELSE Intercept(r)
----------------------------------------------------------------------------
(* Raw mode and the adapter.                                               *)

(* current_mode_indicator                                                  *)
Indicator(s) ==
    IF s.raw THEN "raw"
    ELSE IF s.phase.tag \in KanaMode \cup {"Ascii", "WideAscii"} THEN s.phase.tag
    ELSE IF s.phase.tag \in {"Abbrev", "Midashi", "Okuri", "Selecting"} THEN s.display
    ELSE "Hiragana"

(* Mutant: redraws the preedit but not the page of candidates.              *)
RenderPreeditOnly(s) ==
    IF s.phase.tag \in {"Ascii", "WideAscii"} \/ Ready(s) THEN ClearPreedit ELSE Preedit(s)

(* render_current_phase                                                    *)
RenderCurrentPhase(s) ==
    IF s.phase.tag \in {"Ascii", "WideAscii"} \/ Ready(s) THEN ClearPreedit
    ELSE IF s.phase.tag = "Selecting"
         THEN [Preedit(s) EXCEPT !.window = ListingWindow(s.phase.index)]
    ELSE Preedit(s)

RawToggle(s) ==
    LET flipped == [s EXCEPT !.raw = ~s.raw]
    IN  R(flipped, IF s.raw THEN RenderCurrentPhase(s)
                            ELSE [ClearPreedit EXCEPT !.window = "hidden"])

(* dispatch: the key goes on to the application when no action consumed it *)
(* or one asked for it (a DeleteBack travels as a pass-through).           *)
Dispatch(o, statusChanged) ==
    LET consumed == \/ o.text # <<>> \/ o.preedit # "keep" \/ o.window # "keep"
                    \/ statusChanged
    IN  [text |-> o.text # <<>>, key |-> ~consumed \/ o.pass \/ o.del]

Fits(s) ==
    /\ Len(s.stack) <= MaxDepth
    /\ \A i, j \in DOMAIN s.stack :
          Len(s.stack[i].committed) + (IF i = j THEN 0 ELSE Len(s.stack[j].committed))
              <= MaxBuffer - Len(s.stack)
    /\ s.phase.tag \in {"Abbrev", "CodeInput", "PurgeConfirm"} => Len(s.phase.buf) <= MaxTyped
    /\ s.phase.tag \in {"Midashi", "Okuri"} => Len(s.phase.kana) <= MaxReading
    /\ s.phase.tag \in {"Okuri", "Selecting"} => Len(s.phase.midashi) <= MaxReading

(* process_key, and what the adapter does with the actions.                *)
Deliver(r) ==
    /\ Fits(r.eng)
    /\ eng' = r.eng
    /\ ui' = [preedit |-> Later(ui.preedit, r.out.preedit),
              window  |-> Later(ui.window, r.out.window)]
    /\ sent' = Dispatch(r.out, Indicator(eng) # Indicator(r.eng))
    /\ call' = r.out.call
----------------------------------------------------------------------------
(* handle_press.  A key belongs to the first of these that takes it.       *)
Phase(tags, e) ==
    /\ ~eng.raw
    /\ e \notin RawKeys
    /\ eng.stack # <<>> => ~RegisterTakes(eng, e)
    /\ eng.stack = <<>> => e \notin ToggleKeys
    /\ eng.phase.tag \in tags

RawKey(e) ==
    /\ e \in RawKeys
    /\ Deliver(RawToggle(eng))

ForwardRaw(e) ==
    /\ eng.raw
    /\ e \notin RawKeys
    /\ Deliver(R(eng, Passthrough))

RegisterKey(e) ==
    /\ ~eng.raw
    /\ e \notin RawKeys
    /\ eng.stack # <<>>
    /\ RegisterTakes(eng, e)
    /\ \E d \in Answers : Deliver(RegisterPress(eng, e, d))

ToggleKey(e) ==
    /\ ~eng.raw
    /\ e \notin RawKeys
    /\ eng.stack = <<>>
    /\ e \in ToggleKeys
    /\ Deliver(R(IF eng.phase.tag = "Ascii"
                 THEN [eng EXCEPT !.phase = Kana("Hiragana")]
                 ELSE [eng EXCEPT !.phase = Ascii, !.kana = <<>>], ClearPreedit))

AsciiKey(e)     == Phase({"Ascii"}, e)     /\ Deliver(Delivered(HandleAscii(eng, e)))
WideAsciiKey(e) == Phase({"WideAscii"}, e) /\ Deliver(Delivered(HandleWideAscii(eng, e)))
CodeInputKey(e) == Phase({"CodeInput"}, e) /\ Deliver(Delivered(HandleCodeInput(eng, e)))
PurgeKey(e)     == Phase({"PurgeConfirm"}, e) /\ Deliver(Delivered(HandlePurgeConfirm(eng, e)))
KanaKey(e)      == /\ Phase(KanaMode, e)
                   /\ \E d \in Answers : Deliver(Delivered(HandleKana(eng, e, d)))
AbbrevKey(e)    == /\ Phase({"Abbrev"}, e)
                   /\ \E d \in Answers : Deliver(Delivered(HandleAbbrev(eng, e, d)))
MidashiKey(e)   == /\ Phase({"Midashi"}, e)
                   /\ \E d \in Answers : Deliver(Delivered(HandleMidashi(eng, e, d)))
OkuriKeyPress(e) == /\ Phase({"Okuri"}, e)
                    /\ \E d \in Answers : Deliver(Delivered(HandleOkuri(eng, e, d)))
SelectingKey(e) == /\ Phase({"Selecting"}, e)
                   /\ \E d \in Answers : Deliver(Delivered(HandleSelecting(eng, e, d)))

(* SkkEngine::new, with_initial_phase                                      *)
NewEngine(phase) ==
    [phase |-> phase, kana |-> <<>>, stack |-> <<>>, display |-> "Hiragana",
     abbrev |-> FALSE, completion |-> NoCompletion, trigger |-> <<>>, raw |-> FALSE]

Init ==
    /\ eng = NewEngine([tag |-> InitialPhase])
    /\ ui = [preedit |-> "hidden", window |-> "hidden"]
    /\ sent = [text |-> FALSE, key |-> FALSE]
    /\ call = NoCall

Next == \E e \in Events :
    \/ RawKey(e) \/ ForwardRaw(e) \/ RegisterKey(e) \/ ToggleKey(e)
    \/ AsciiKey(e) \/ WideAsciiKey(e) \/ CodeInputKey(e) \/ PurgeKey(e)
    \/ KanaKey(e) \/ AbbrevKey(e) \/ MidashiKey(e) \/ OkuriKeyPress(e) \/ SelectingKey(e)

Spec == Init /\ [][Next]_vars
=============================================================================
