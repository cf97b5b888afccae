----------------------------- MODULE KanaTable -----------------------------
(***************************************************************************)
(* The kana conversion table of skk-core (kana/table.rs): a deterministic  *)
(* transducer from typed letters to kana.  A state is the romaji typed so  *)
(* far that has not produced its kana yet ("" is the start state, written  *)
(* <<>>).  The rules are data read from a table file, so they are          *)
(* constants here; what is modelled is how a rule is chosen.               *)
(***************************************************************************)
EXTENDS Naturals, Sequences

CONSTANTS
    Glyph,          \* every character a buffer can hold
    Letter,         \* the characters a key can type
    Wildcard,       \* the input "*" of a wildcard rule
    Transitions,    \* [trans]: <<from, input>> |-> [output, to]
    KataOverrides,  \* [trans.katakana], the same shape
    OkuriAliases,   \* [okuri_alias]: pre-state |-> dictionary key
    Script          \* Script[mode][g]: hiragana g written in the mode's script

KanaMode == {"Hiragana", "Katakana", "HalfWidth"}
Text     == Seq(Glyph)
Roman    == Seq(Letter)

ASSUME TableAssumption ==
    /\ Letter \subseteq Glyph
    /\ Wildcard \notin Letter
    /\ \A table \in {Transitions, KataOverrides} : \A rule \in DOMAIN table :
          /\ rule \in Roman \X (Letter \cup {Wildcard})
          /\ table[rule] \in [output : Text, to : Roman]
    /\ \A pre \in DOMAIN OkuriAliases : OkuriAliases[pre] \in Text
    /\ Script \in [KanaMode -> [Glyph -> Glyph]]
    /\ \A g \in Glyph : Script["Hiragana"][g] = g

(* hiragana_to_katakana, hiragana_to_halfwidth, convert_output: one glyph   *)
(* for one (a voiced half-width pair counts as one glyph).                  *)
InScript(text, mode) == [i \in DOMAIN text |-> Script[mode][text[i]]]

EffectiveTransitions == [mode \in KanaMode |->
    IF mode = "Hiragana"
    THEN Transitions
    ELSE [rule \in DOMAIN Transitions \cup DOMAIN KataOverrides |->
            IF rule \in DOMAIN KataOverrides THEN KataOverrides[rule]
                                             ELSE Transitions[rule]]]

(* An exact rule wins over a wildcard rule.  A wildcard rule that returns   *)
(* to the start state asks for the letter to be typed again, except from    *)
(* the start state itself, where that would loop.                           *)
Transition(state, ch, mode) ==
    LET table  == EffectiveTransitions[mode]
        exact  == <<state, ch>>
        wild   == <<state, Wildcard>>
        Fire(kind, rule) == [kind   |-> kind,
                             output |-> InScript(table[rule].output, mode),
                             next   |-> table[rule].to]
        Drop(kind) == [kind |-> kind, output |-> <<>>, next |-> <<>>]
    IN  IF exact \in DOMAIN table THEN Fire("Ok", exact)
        ELSE IF wild \in DOMAIN table
             THEN IF table[wild].to = <<>> /\ state # <<>>
                  THEN Fire("OkRetry", wild)
                  ELSE Fire("Ok", wild)
             ELSE Drop(IF state = <<>> THEN "NoMatch" ELSE "NoMatchRetry")

(* The consonant under which okurigana are filed in the dictionary.         *)
OkuriKey(pre, ch) ==
    LET asked == IF pre = <<>> THEN <<ch>> ELSE pre
    IN  IF asked \in DOMAIN OkuriAliases THEN OkuriAliases[asked]
                                         ELSE <<asked[1]>>
=============================================================================
