------------------------------- MODULE MCLookup -------------------------------
(***************************************************************************)
(* Situations for Lookup: texts to register, lines to edit, numbers to read, *)
(* and entries with markers, directives and words to learn.                 *)
(***************************************************************************)
EXTENDS LookupProperties

MCGlyph        == STRING
MCReadingGlyph == {"0", "1", "4", "9", "da"}
MCWordGlyph    == {"#", "/", ";", "\"", "\\", "(", ")", " ", "concat", "7"}
MCFieldGlyph   == {"/", ";", "\"", "\\", "(", ")", "7", "x"}

Word(word)      == Plain(word, None)
Noted(word, n)  == Plain(word, n)
Hide(words)     == Directive(words, None)
Entries(pairs)  == [key \in {p[1] : p \in pairs} |-> (CHOOSE p \in pairs : p[1] = key)[2]]

Situation(dicts, on, lines, text, r, w, f) ==
    [system |-> dicts, directives |-> on, file |-> lines, reading |-> text,
     room |-> [reading |-> r, word |-> w, file |-> f]]

Zeros(n) == [i \in 1 .. n |-> "0"]

(* Every text of four glyphs is registered for a reading without entries.    *)
Texts == {Situation(<<>>, TRUE, NoEntry, <<"da">>, 0, 4, 0)}

(* Lines that begin as a form are edited at the end.                         *)
Seeds == {<<>>, <<"x", ";">>, <<"(", Concat, " ", "\"">>, <<"(", Concat, " ", "\"", "\\", "0">>,
          <<"(", Ignore, " ", "\"">>, <<"(", "x">>, <<"x", ";", "(", Concat, " ", "\"", "x">>,
          <<"x", ";", "(", Concat, " ", "\"", " ", "(", Concat>>}
Lines == {Situation(<<>>, TRUE, (<<"da">> :> seed), <<>>, 0, 0, 3) : seed \in Seeds}

(* Numbers of four digits, and long ones around the groups and limits.       *)
Long == {<<"1">> \o Zeros(n) : n \in {4, 5, 7, 8, 9, 12, 15, 16, 19, 20}}
        \cup {<<"9">> \o Zeros(k) \o <<"1">> \o Zeros(n) : k \in {2, 3, 4, 7}, n \in {0, 3, 4, 8}}
        \cup {<<"3", "9", "9", "9">>, <<"3", "9", "9", "8">>, <<"4", "0", "0", "0">>,
              <<"5", "0">>, <<"5", "1">>, <<"3", "8", "8", "8">>,
              <<"0", "0">> \o Zeros(20), <<"0">> \o <<"2">> \o Zeros(19)}
        \cup {[i \in 1 .. 19 |-> Digits[LargestNumber[i] + 1]] \o <<d>> : d \in {"5", "6"}}
Numbers == {Situation(<<>>, TRUE, NoEntry, <<>>, 4, 0, 0)}
           \cup {Situation(<<>>, TRUE, NoEntry, number, 0, 0, 0) : number \in Long}

(* Two dictionaries; the entry of a number is what "#4" brings.              *)
First ==
    Entries({<<<<"#">>, <<Noted(<<"#", "3">>, <<"n">>), Word(<<"#", "4">>), Word(<<"#", "1">>)>>>>,
             <<<<"#", "da">>, <<Word(<<"#", "c", "x">>), Word(<<"#", "4", "#", "4">>),
                                Word(<<"#", "2", "#">>)>>>>,
             <<<<"#", "da", "#">>, <<Word(<<"#", "4", "-", "#", "4">>), Word(<<"#", "0", "#", "3">>),
                                     Word(<<"#", "1", "#", "4">>)>>>>,
             <<<<"1">>, <<Word(<<"one">>), Hide(<<<<"uno">>>>), Word(<<"ichi">>)>>>>,
             <<<<"da">>, <<Word(<<"x">>), Word(<<"#", "1">>)>>>>})
Second ==
    Entries({<<<<"#">>, <<Word(<<"#", "1">>), Hide(<<<<"kanji 4">>>>), Word(<<"#", "2">>)>>>>,
             <<<<"1">>, <<Word(<<"uno">>), Word(<<"one">>)>>>>,
             <<<<"4">>, <<Word(<<"four">>), Word(<<"#", "4">>)>>>>,
             <<<<"da">>, <<Word(<<"y">>), Hide(<<<<"z">>, <<"x">>>>), Word(<<"z">>)>>>>})
Mine == (<<"da">> :> SerializeCandidates(<<Hide(<<<<"y">>, <<"x">>>>), Noted(<<"z">>, <<"n">>)>>))
Learning == {Situation(<<First, Second>>, on, lines, <<>>, 4, 0, 0) :
                on \in BOOLEAN, lines \in {NoEntry, Mine}}
            \cup {Situation(<<First, Second>>, TRUE, Mine, <<>>, 2, 2, 0)}

MCSituations == Texts \cup Lines \cup Numbers \cup Learning
=============================================================================
