------------------------------- MODULE Config -------------------------------
(***************************************************************************)
(* The configuration of skk-config/src/lib.rs: its fields and defaults,     *)
(* `~' in paths, the search for the kana table, and validate, which says    *)
(* whether a daemon can run with it.                                        *)
(*                                                                         *)
(* A path is a sequence of components, a key combination the sequence of    *)
(* its parts in lower case, and disk the set of paths that exist.           *)
(***************************************************************************)
EXTENDS Sequences, Integers

CONSTANTS Home,       \* the home directory, or None if there is none
          SearchDirs, \* kana_table_search_dirs: the first has precedence
          DataDir,    \* XDG_DATA_HOME
          Garbled,    \* files that are not kana tables
          Character,  \* the texts of one character
          None        \* an optional field that is not set

(* Every field and the section it is written in.                            *)
SectionOf ==
    [kana_layout |-> "input", kana_table |-> "input", default_mode |-> "input",
     toggle_keys |-> "input", raw_mode_toggle_keys |-> "input",
     conversion_trigger_chars |-> "input", vi_escape |-> "input", path |-> "user-dict",
     sources |-> "dict", lisp_directives |-> "dict", enabled |-> "indicator",
     timeout_ms |-> "indicator", inline_count |-> "candidates",
     selection_keys |-> "candidates", log_level |-> "daemon"]

Field   == DOMAIN SectionOf
Section == {SectionOf[f] : f \in Field}

Default ==
    [kana_layout |-> "romaji", kana_table |-> None, default_mode |-> "ascii",
     toggle_keys |-> <<<<"shift", "space">>>>, raw_mode_toggle_keys |-> <<>>,
     conversion_trigger_chars |-> <<",", ".", "wo">>, vi_escape |-> FALSE, path |-> None,
     sources |-> <<>>, lisp_directives |-> TRUE, enabled |-> TRUE, timeout_ms |-> 2000,
     inline_count |-> 3, selection_keys |-> "asdfjkl;", log_level |-> "info"]

(* ---- paths ---- *)

ExpandTilde(path) ==
    IF path # <<>> /\ Head(path) = "~" /\ Home # None THEN Home \o Tail(path) ELSE path

Normalize(cfg) ==
    LET Optional(path) == IF path = None THEN None ELSE ExpandTilde(path)
    IN  [cfg EXCEPT
           !.kana_table = Optional(@), !.path = Optional(@),
           !.sources = [i \in DOMAIN @ |-> [@[i] EXCEPT !.path = ExpandTilde(@)]]]

EffectivePath(cfg) == IF cfg.path = None THEN DataDir \o <<"y2skk", "user.dict">> ELSE cfg.path

Parent(path) == SubSeq(path, 1, Len(path) - 1)

(* load_kana_table: an explicit table is not searched for, and the first     *)
(* file found is the one that must parse.                                   *)
TableCandidates(cfg) ==
    IF cfg.kana_table # None THEN <<cfg.kana_table>>
    ELSE [i \in DOMAIN SearchDirs |-> SearchDirs[i] \o <<cfg.kana_layout>>]

HasTable(cfg, disk) ==
    LET found == SelectSeq(TableCandidates(cfg), LAMBDA path : path \in disk)
    IN  found # <<>> /\ Head(found) \notin Garbled

(* ---- validate ---- *)

ModeNames ==
    [Hiragana |-> {"hiragana"}, Katakana |-> {"katakana"},
     HalfWidthKatakana |-> {"half-width-katakana", "halfwidth-katakana"},
     WideAscii |-> {"wide-ascii", "wideascii", "zenkaku"}, Ascii |-> {"ascii", "latin"}]

IsMode(name) == \E phase \in DOMAIN ModeNames : name \in ModeNames[phase]

(* A combination ends with its key; a "+" separates, so it cannot be one.     *)
IsKey(parts) ==
    /\ parts[Len(parts)] \in Character \cup {"space", "return", "enter", "tab", "escape", "esc"}
    /\ \A i \in 1 .. Len(parts) - 1 :
          parts[i] \in {"shift", "ctrl", "control", "alt", "meta", "super"}

Valid(cfg, disk) ==
    /\ IsMode(cfg.default_mode)
    /\ \A i \in DOMAIN cfg.toggle_keys : IsKey(cfg.toggle_keys[i])
    /\ \A i \in DOMAIN cfg.raw_mode_toggle_keys : IsKey(cfg.raw_mode_toggle_keys[i])
    /\ \A i \in DOMAIN cfg.conversion_trigger_chars :
          cfg.conversion_trigger_chars[i] \in Character
    /\ HasTable(cfg, disk)
    /\ \A i \in DOMAIN cfg.sources : cfg.sources[i].path \in disk
    /\ Parent(EffectivePath(cfg)) \in disk \cup {<<>>}

(* ---- the form of the settings window ---- *)

MaxInt == 2147483647

Clamp(n, low, high) == IF n < low THEN low ELSE IF n > high THEN high ELSE n

(* toInt gives its default for a number that is no int, and a spin box keeps  *)
(* to its range.                                                            *)
SpinBox(n, default, low, high) == Clamp(IF n > MaxInt THEN default ELSE n, low, high)

(* Fields left empty are not set, blank lines and rows without a path are     *)
(* dropped.  Texts have no blanks around them, which the form would trim.     *)
PathField(path)     == IF path = <<>> THEN None ELSE path
KeyLines(lines)     == SelectSeq(lines, LAMBDA parts : parts # <<" ">>)
EntryLines(lines)   == SelectSeq(lines, LAMBDA text : text # " ")
SourceRows(rows) ==
    SelectSeq([i \in DOMAIN rows |-> [rows[i] EXCEPT !.priority = Clamp(@, -100000, 100000)]],
              LAMBDA row : row.path # <<>>)

(* What loadFromCore and toJson make of a configuration between them.        *)
ThroughForm(cfg) ==
    [cfg EXCEPT
       !.kana_table = PathField(@), !.path = PathField(@),
       !.toggle_keys = KeyLines(@), !.raw_mode_toggle_keys = KeyLines(@),
       !.conversion_trigger_chars = EntryLines(@), !.sources = SourceRows(@),
       !.timeout_ms = SpinBox(@, 2000, 0, 60000),
       !.inline_count = SpinBox(@, 3, 0, 1000000)]
=============================================================================
