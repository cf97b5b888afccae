--------------------------- MODULE EngineProperties ---------------------------
(***************************************************************************)
(* What SkkEngine must guarantee, whatever is typed and whatever the       *)
(* dictionaries answer.                                                    *)
(***************************************************************************)
EXTENDS Engine

Candidate == [word : Text, template : Text, synthetic : BOOLEAN]
Frame     == [original : Text, okuriKey : Text, okuri : Text,
              committed : Text, cursor : Nat, abbrev : BOOLEAN]
ModePhase      == [tag : KanaMode \cup {"Ascii", "WideAscii"}]
CodePhase      == [tag : {"CodeInput"}, prefix : {"Jis", "Unicode"}, buf : Roman]
AbbrevPhase    == [tag : {"Abbrev"}, buf : Text]
MidashiPhase   == [tag : {"Midashi"}, kana : Text, roman : Roman]
OkuriPhase     == [tag : {"Okuri"}, midashi : Text, kana : Text]
SelectingPhase == [tag : {"Selecting"}, midashi : Text, okuri : Text, okuriKey : Text,
                   cands : Seq(Candidate), index : Nat]
PurgePhase     == [tag : {"PurgeConfirm"}, sel : SelectingPhase, buf : Roman, mode : KanaMode]
Phases         == ModePhase \cup CodePhase \cup AbbrevPhase \cup MidashiPhase
                  \cup OkuriPhase \cup SelectingPhase \cup PurgePhase
EngineState ==
    [phase : Phases, kana : Roman, stack : Seq(Frame), display : KanaMode,
     abbrev : BOOLEAN, completion : [prefix : Text, preview : Text],
     trigger : Text, raw : BOOLEAN]

(* Every field of the engine and of the adapter's view keeps its type.      *)
TypeOK ==
    /\ eng \in EngineState
    /\ ui \in [preedit : {"shown", "hidden"}, window : {"shown", "hidden"}]
    /\ sent \in [text : BOOLEAN, key : BOOLEAN]
    /\ call.op \in {"none", "learn", "purge"}

(* The states in which process_key would panic: the code slices a frame's   *)
(* buffer at its cursor and indexes the candidate list with the focus, both *)
(* without a bounds check (reg_*, build_preedit, commit_candidate,          *)
(* listing_show_action).                                                    *)
CursorInBuffer(s) == \A i \in DOMAIN s.stack : s.stack[i].cursor <= Len(s.stack[i].committed)
FocusInRange(s) ==
    /\ s.phase.tag = "Selecting" => s.phase.index < Len(s.phase.cands)
    /\ s.phase.tag = "PurgeConfirm" => s.phase.sel.index < Len(s.phase.sel.cands)
NoPanic == CursorInBuffer(eng) /\ FocusInRange(eng)

(* The pending romaji is kept twice in midashi mode, in kana_state and in   *)
(* roman_buf, and the next letter is read from one and displayed from the   *)
(* other; in every phase that does not feed the kana table it is empty, so  *)
(* nothing typed before a mode change combines with a letter typed after.   *)
PendingOnce(s) ==
    /\ s.phase.tag = "Midashi" => s.phase.roman = s.kana
    /\ s.phase.tag \notin KanaMode \cup {"Midashi", "Okuri"} => s.kana = <<>>
RomanInSync == PendingOnce(eng)

(* The candidates the user can see: one inline, a page in listing mode.     *)
PageSize(index) == IF Listing(index) THEN Len(SelectionKeys) ELSE 1

(* A listing page starts where a page starts, so that going back and forth  *)
(* always shows the same pages.                                             *)
PageAligned ==
    eng.phase.tag = "Selecting" /\ Listing(eng.phase.index)
        => (eng.phase.index - InlineCount) % Len(SelectionKeys) = 0

(* No candidate is passed over: moving on goes no further than the first    *)
(* candidate that was not visible, moving back shows a page that reaches up *)
(* to the one left, and registration is offered only after the last page.   *)
NoneSkipped(p, q) ==
    /\ q.index <= p.index + PageSize(p.index)
    /\ p.index <= q.index + PageSize(q.index)
EveryCandidateOffered == [][
    eng.phase.tag = "Selecting" =>
        /\ eng'.phase.tag = "Selecting" => NoneSkipped(eng.phase, eng'.phase)
        /\ Len(eng'.stack) > Len(eng.stack)
              => eng.phase.index + PageSize(eng.phase.index) >= Len(eng.phase.cands)]_vars

(* True of the shipped tables: a letter typed at the start state gives a    *)
(* trigger alone or not at all, so it cannot convert by itself.             *)
TriggersStandAlone == \A ch \in Letter :
    LET t == Transition(<<>>, ch, "Hiragana")
    IN  Len(t.output) > 1 /\ t.next = <<>> => Last(t.output) \notin TriggerChars

(* A word learned while candidates are offered is one the user could see,   *)
(* and never one synthesized from the digits of the reading.                *)
LearnsWhatWasVisible == [][
    eng.phase.tag = "Selecting" /\ call'.op = "learn" =>
        \E i \in DOMAIN eng.phase.cands :
            /\ eng.phase.index < i /\ i <= eng.phase.index + PageSize(eng.phase.index)
            /\ ~eng.phase.cands[i].synthetic
            /\ call'.word = eng.phase.cands[i].template]_vars

(* In listing mode the candidate window is open: a selection key never      *)
(* picks from a page that is not on the screen.                             *)
ListingIsShown ==
    ~eng.raw /\ eng.phase.tag = "Selecting" /\ Listing(eng.phase.index)
        => ui.window = "shown"

(* Whatever is being composed is on the screen, except in raw mode.         *)
CompositionVisible == ~eng.raw /\ PreeditShown(eng) => ui.preedit = "shown"

(* While a word is being registered nothing reaches the application: no     *)
(* text and no key, except what raw mode forwards.                          *)
RegistrationSealed == [][
    eng.stack # <<>> /\ eng'.stack # <<>> /\ ~eng.raw /\ ~eng'.raw
        => ~sent'.text /\ ~sent'.key]_vars

(* The buffers of the enclosing registrations wait unchanged: a step        *)
(* changes at most the innermost one, or the next when that one closes.     *)
OuterFramesFrozen == [][
    LET kept == IF Len(eng'.stack) > Len(eng.stack) THEN Len(eng.stack)
                ELSE Len(eng'.stack) - 1
    IN  /\ Len(eng'.stack) <= Len(eng.stack) + 1
        /\ Len(eng.stack) <= Len(eng'.stack) + 1
        /\ \A i \in 1 .. kept : eng'.stack[i] = eng.stack[i]]_vars

(* A printable key typed into a reading, an okurigana, an abbreviation or a *)
(* code point is used by the input method: the application never gets it.   *)
Composing == {"Midashi", "Okuri", "Abbrev", "CodeInput"}
ComposingConsumes == [][
    eng.phase.tag \in Composing /\ sent'.key => \A e \in Events :
        ~(/\ Printable(e)
          /\ MidashiKey(e) \/ OkuriKeyPress(e) \/ AbbrevKey(e) \/ CodeInputKey(e))]_vars
----------------------------------------------------------------------------
(* A statement of the code's comments that does not hold.                   *)

(* The prompt purges "the focused candidate from the user dict": for a      *)
(* candidate a dictionary offered, the purge names the entry that choosing  *)
(* the candidate would have recorded.                                       *)
PurgeNamesLearnedEntry == [][
    call'.op = "purge" /\ ~eng.phase.sel.cands[eng.phase.sel.index + 1].synthetic =>
        [call' EXCEPT !.op = "learn"]
            = LearnedEntry(eng.phase.sel, eng.phase.sel.index)]_vars
=============================================================================
