----------------------------- MODULE MCSettings -----------------------------
(***************************************************************************)
(* Instances of the settings program: files with a path in the home          *)
(* directory, a layout of the user's own and a dictionary, some of which     *)
(* come and go.                                                            *)
(***************************************************************************)
EXTENDS SettingsProperties, TLC

CONSTANTS w1, c1

HomeDir == <<"home">>
Data    == <<"home", "share">>
Tables  == <<<<"home", "tables">>, <<"usr", "tables">>>>
NoTable == {<<"home", "broken">>}
Chars   == {",", ".", "wo", "a", "p"}

Files     == {<<"usr", "tables", "romaji">>, <<"home", "tables", "own">>, <<"home", "broken">>,
              <<"home", "jisyo">>, <<"home", "share", "y2skk">>, <<"home">>}
ComeAndGo == {<<"home", "tables", "own">>, <<"home", "jisyo">>}

(* What the user enters: a layout, a number, a path and a table.             *)
Changes == [kana_layout |-> {"own", "none"}, timeout_ms |-> {500},
            path |-> {None, <<"~", "dict">>}, kana_table |-> {None, <<"~", "broken">>},
            raw_mode_toggle_keys |-> {<<<<"ctrl", "p">>>>}]

Nothing == [f \in Field |-> None]
Absent  == [s \in Section |-> "absent"]
Jisyo   == [path |-> <<"~", "jisyo">>, encoding |-> "euc-jp", priority |-> 0]

Text(repr, keys) == [kind |-> "toml", repr |-> repr @@ Absent, keys |-> keys @@ Nothing]

Documented == Text([input |-> "table", dict |-> "table"] @@ ("user-dict" :> "table"),
    [default_mode |-> "hiragana", kana_layout |-> "own", path |-> <<"~", "words">>,
     sources |-> <<Jisyo>>])
Unusable   == Text([input |-> "table", indicator |-> "inline"],
    [kana_table |-> <<"~", "broken">>, timeout_ms |-> 60000])
InlineInput == Text([input |-> "inline"], [default_mode |-> "hiragana", kana_layout |-> "own"])

TableTexts  == {Documented, Unusable, Missing, Broken}
InlineTexts == {InlineInput}

(* The condition under which an Apply is proved to keep what is untouched     *)
(* holds of every text without an inline section.                           *)
ASSUME PlainEntries /\ \A file \in TableTexts \ {Unusable} : Plain(file)
ASSUME ~Plain(Unusable) /\ ~Plain(InlineInput)
=============================================================================
