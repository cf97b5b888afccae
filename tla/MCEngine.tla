------------------------------ MODULE MCEngine ------------------------------
(***************************************************************************)
(* Instances of the engine for TLC.  The kana table is a small one with    *)
(* every kind of rule of the shipped tables: a plain syllable, a doubled   *)
(* consonant that leaves a state behind, the wildcard "n", and a syllable  *)
(* that is a conversion trigger.                                           *)
(***************************************************************************)
EXTENDS EngineProperties

Press(keys)  == [key : keys, ctrl : {FALSE}, shift : {FALSE}]
WithCtrl(keys) == [key : keys, ctrl : {TRUE}, shift : {FALSE}]

Letters == {"a", "k", "n", "A", "K", "j", "q", "g", "l", "L", "/", "x", "X", "s", "d",
            ",", ">", "1", "u", "f", ";", "\\", "y", "c", " "}
KanaGlyphs == {"ka", "nn", "tt", "wo", "KA", "NN", "aa", "AA", "#", "w1", "w2", "w3"}
Glyphs  == Letters \cup KanaGlyphs

Rule(out, to) == [output |-> out, to |-> to]
Table ==
    [rule \in {<<<<>>, "a">>, <<<<>>, "k">>, <<<<"k">>, "a">>, <<<<"k">>, "k">>,
               <<<<>>, "n">>, <<<<"n">>, "*">>, <<<<"n">>, "a">>, <<<<>>, ",">>} |->
        CASE rule = <<<<>>, "a">>      -> Rule(<<"aa">>, <<>>)
          [] rule = <<<<>>, "k">>      -> Rule(<<>>, <<"k">>)
          [] rule = <<<<"k">>, "a">>   -> Rule(<<"ka">>, <<>>)
          [] rule = <<<<"k">>, "k">>   -> Rule(<<"tt">>, <<"k">>)
          [] rule = <<<<>>, "n">>      -> Rule(<<>>, <<"n">>)
          [] rule = <<<<"n">>, "a">>   -> Rule(<<"wo">>, <<>>)
          [] rule = <<<<"n">>, "*">>   -> Rule(<<"nn">>, <<>>)
          [] rule = <<<<>>, ",">>      -> Rule(<<"wo">>, <<>>)]
Syllables == [rule \in DOMAIN Table \ {<<<<>>, "a">>} |-> Table[rule]]
OneKey   == [rule \in {<<<<>>, "k">>, <<<<"k">>, "k">>} |->
                IF rule = <<<<>>, "k">> THEN Rule(<<>>, <<"k">>) ELSE Rule(<<"ka">>, <<>>)]
NoRules  == <<>>
Aliases  == [pre \in {<<"n">>} |-> <<"k">>]
Scripts  == [mode \in KanaMode |-> [g \in Glyphs |->
                IF mode = "Hiragana" THEN g
                ELSE CASE g = "ka" -> "KA" [] g = "nn" -> "NN" [] g = "aa" -> "AA"
                       [] OTHER -> g]]
LowerOf  == [ch \in Letters |-> CASE ch = "A" -> "a" [] ch = "K" -> "k"
                                  [] ch = "L" -> "l" [] ch = "X" -> "x" [] OTHER -> ch]
Decoded  == [prefix \in {"Jis", "Unicode"} |-> [code \in {<<"a">>} |-> <<"aa">>]]
WideOf   == [ch \in Letters |-> IF ch = "a" THEN <<"AA">> ELSE <<>>]

Entry(word) == [word |-> word, template |-> <<"#">>]
AnswersOf4 == {<<>>,
             <<Entry(<<"w1">>), Entry(<<"w2">>), Entry(<<"w3">>), Entry(<<"ka">>)>>}

Keys2    == <<"a", "k">>
Yes      == <<"a">>
No       == <<"n">>
Synth1   == {<<<<"w2">>>>}
Tail1    == {<<"ka">>}

(* The instances satisfy what the theorem on EveryCandidateOffered assumes. *)
ASSUME InstanceTriggers == TriggersStandAlone

(* engine_convert: every phase outside registration.                       *)
ConvertEvents ==
    Press({"a", "k", "n", "K", ",", "1", "x", "X", "/", "L", "\\", "Return",
            "Escape", "BackSpace", "Tab", "Space", "Up"})
    \cup WithCtrl({"j", "q", "Up"})
    \cup [key : {"Space"}, ctrl : {FALSE}, shift : {TRUE}]

(* engine_register: nested registrations and the editing keys.             *)
RegisterEvents ==
    Press({"k", "K", "/", "Return", "Escape", "BackSpace",
           "Delete", "Left", "Right", "Space"})
    \cup WithCtrl({"j", "g"})

(* raw_registration: the same with a key that toggles raw mode.            *)
RawEvents == RegisterEvents \cup WithCtrl({"Up"})

Toggles == [key : {"Space"}, ctrl : {FALSE}, shift : {TRUE}]
OneOrNone == {<<>>, <<Entry(<<"ka">>)>>}
NoTail    == {<<>>}
RawToggles == WithCtrl({"Up"})
NoKeys  == {}

(* What the last key sent and recorded has no effect on the next one, so   *)
(* states that differ in nothing else are one state of a run.              *)
EngineAndScreen == <<eng, ui>>

(* engine_convert looks at the step into a registration but goes no        *)
(* further (engine_register does), and at raw mode around the candidates.  *)
ConvertExplored ==
    /\ eng.stack = <<>>
    /\ eng.raw => eng.phase.tag = "Selecting"
=============================================================================
