----------------------------- MODULE MCUserDict -----------------------------
(***************************************************************************)
(* Instances of the user dictionary for TLC: a reading with and without    *)
(* okurigana, and an abbreviation.                                         *)
(***************************************************************************)
EXTENDS UserDictProperties

CONSTANTS r1, r2

E(midashi, okuri, word) == [midashi |-> midashi, okuri |-> okuri, word |-> word]
Reading == <<"ka", "nn">>
Other   == <<"ka", "tt">>

ShortEntries == {E(Reading, <<>>, "w1"), E(Reading, <<>>, "w2"), E(Reading, <<"k">>, "w1"),
                 E(<<"i", "s">>, <<>>, "w1")}
TwoReadings  == {E(Reading, <<>>, "w1"), E(Reading, <<"k">>, "w1"), E(Other, <<>>, "w1")}

AllWords     == {"w1", "w2"}

Cfg(sources, path, rest) == [sources |-> sources, path |-> path, rest |-> rest]
Configs == {Cfg("s1", "p1", 1), Cfg("s2", "p1", 1), Cfg("s1", "p2", 1), Cfg("s1", "p1", 2)}
FirstOne == Cfg("s1", "p1", 1)
OneConfig == {FirstOne}
Hiding  == <<Line(Reading, <<>>, <<Directive(<<"w1", "w2">>)>>)>>
NoLines == <<>>
Letters == {"k", "i", "s"}
Glyphs  == Letters \cup {"ka", "nn", "tt"}
Calls   == {r1, r2}
NoCalls == {}
Symmetric == Permutations(Calls)

(* The keys of the instances are those the type theorem is about.          *)
ASSUME KeysReadBack
=============================================================================
