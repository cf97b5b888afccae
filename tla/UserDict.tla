------------------------------ MODULE UserDict ------------------------------
(***************************************************************************)
(* The user dictionary (skk-core/dict/file.rs) in the daemon: what keys    *)
(* learn and purge in memory, the file it is written to after every key,   *)
(* what a start reads back, and ReloadConfig, which may replace it.        *)
(*                                                                         *)
(* A text is a sequence of glyphs and a word is one value.  The file is    *)
(* its entry lines (the text of a line is DictText's matter); a write that  *)
(* is cut short can leave a last line that does not parse.  Everything      *)
(* that touches the dictionary holds the mutex of the session manager; task *)
(* says what its holder has left to do.                                    *)
(***************************************************************************)
EXTENDS Lists

CONSTANTS
    Glyph, Ascii, Alpha,  \* the glyphs, those of ASCII, and the letters among them
    Word,          \* the words
    Entry,         \* what keys learn and purge: [midashi, okuri, word]
    Damaged,       \* what is left of a word that was cut in the middle
    Config,        \* configurations: [sources, path, rest]
    FirstConfig,   \* the one in the configuration file at first
    FirstLines,    \* the lines of every dictionary file at first
    Call,          \* concurrent calls of ReloadConfig
    MaxChanges,    \* bound: words learned and purged
    MaxEdits,      \* bound: edits of the configuration file
    MaxFaults      \* bound: writes that fail and crashes

Text  == Seq(Glyph) \ {<<>>}
Words == Word \cup {Damaged}
Candidate == {c \in [directive : BOOLEAN, words : Seq(Words)] :
                 c.directive \/ Len(c.words) = 1}
Cands == Seq(Candidate)

ASSUME DictAssumption ==
    /\ Alpha \subseteq Ascii /\ Damaged \notin Word
    /\ Entry \subseteq [midashi : Text, okuri : Seq(Glyph), word : Word]
    /\ FirstLines \in Seq([raw : Text, cands : Cands])
    /\ FirstConfig \in Config /\ \A c \in Config : DOMAIN c = {"sources", "path", "rest"}
    /\ MaxChanges \in Nat /\ MaxEdits \in Nat /\ MaxFaults \in Nat

Nowhere == "/dev/null"
Path    == {c.path : c \in Config}

VARIABLES
    up,          \* whether the daemon runs
    dict,        \* struct UserDict: [path, entries, dirty]
    files,       \* files[p]: [lines, broken]
    task,        \* what the holder of the sessions' mutex does next
    configFile,  \* the configuration on disk
    config,      \* the applied configuration
    reading,     \* reading[r]: the configuration call r has read and validated
    changes, edits, faults,  \* counters for the bounds
    latest,      \* latest[<<midashi, okuri>>]: the word last learned in this run of the daemon
    purged       \* entries purged and not learned again
vars == <<up, dict, files, task, configFile, config, reading, changes, edits, faults,
          latest, purged>>
----------------------------------------------------------------------------
(* Candidates: a word, or the directive that hides words of dictionaries.  *)
Plain(w)      == [directive |-> FALSE, words |-> <<w>>]
Directive(ws) == [directive |-> TRUE, words |-> ws]
Displayable(c) == ~c.directive

(* IndexMap: headwords in the order of their last use, the last one last.  *)
Index(entries, midashi)  == SelectInSeq(entries, LAMBDA e : e.midashi = midashi)
Buckets(entries, midashi) ==
    LET i == Index(entries, midashi) IN IF i = 0 THEN <<>> ELSE entries[i].buckets
Dropped(entries, midashi) == Among(entries, {e \in ToSet(entries) : e.midashi # midashi})
Lookup(entries, midashi, okuri) ==
    LET buckets == Buckets(entries, midashi)
    IN  IF okuri \in DOMAIN buckets THEN buckets[okuri] ELSE <<>>
Put(buckets, okuri, cands) ==
    [o \in DOMAIN buckets \cup {okuri} |-> IF o = okuri THEN cands ELSE buckets[o]]

(* learn: the word comes first, no directive of the entry hides it any     *)
(* more, and the headword becomes the last used.                           *)
Promoted(cands, w) == <<Plain(w)>> \o Without(cands, Plain(w))

(* Mutant: a directive goes on hiding the learned word.                    *)
UnhiddenKeeps(cands, w) == cands

Unhidden(cands, w) ==
    LET left == [i \in DOMAIN cands |->
                    IF cands[i].directive
                    THEN Directive(Without(cands[i].words, w)) ELSE cands[i]]
    IN  Among(left, {c \in ToSet(left) : c.words # <<>>})

Learned(entries, e) ==
    LET cands == Unhidden(Promoted(Lookup(entries, e.midashi, e.okuri), e.word), e.word)
    IN  Append(Dropped(entries, e.midashi),
               [midashi |-> e.midashi,
                buckets |-> Put(Buckets(entries, e.midashi), e.okuri, cands)])

(* purge: empty buckets and headwords without buckets disappear.           *)
Purged(entries, e) ==
    LET i       == Index(entries, e.midashi)
        buckets == Buckets(entries, e.midashi)
        cands   == Without(Lookup(entries, e.midashi, e.okuri), Plain(e.word))
        left    == IF cands # <<>> THEN Put(buckets, e.okuri, cands)
                   ELSE [o \in DOMAIN buckets \ {e.okuri} |-> buckets[o]]
    IN  IF e.okuri \notin DOMAIN buckets THEN entries
        ELSE IF DOMAIN left = {} THEN Dropped(entries, e.midashi)
        ELSE [entries EXCEPT ![i].buckets = left]

(* complete                                                                *)
Completions(entries, prefix) ==
    LET found == SelectSeq(entries, LAMBDA e : /\ IsStrictPrefix(prefix, e.midashi)
                                               /\ <<>> \in DOMAIN e.buckets)
    IN  Reverse([i \in DOMAIN found |-> found[i].midashi])
----------------------------------------------------------------------------
(* The file.                                                               *)
Line(midashi, okuri, cands) == [raw |-> midashi \o okuri, cands |-> cands]

(* serialize_user_dict: entries with okurigana, then those without.  The   *)
(* order of one headword's lines is that of a HashMap; Parse does not      *)
(* depend on it.                                                           *)
LinesOf(e, okuris) ==
    LET order == SetToSeq(okuris)
    IN  [i \in DOMAIN order |-> Line(e.midashi, order[i], e.buckets[order[i]])]
Serialize(entries) ==
    LET Section(Of(_)) == FlattenSeq([i \in DOMAIN entries |-> LinesOf(entries[i], Of(entries[i]))])
    IN  Section(LAMBDA e : DOMAIN e.buckets \ {<<>>})
        \o Section(LAMBDA e : DOMAIN e.buckets \cap {<<>>})

(* Mutant: a trailing letter is okurigana even in an ASCII headword.       *)
SplitAnyLetter(raw) ==
    IF Last(raw) \in Alpha THEN <<Front(raw), <<Last(raw)>>>> ELSE <<raw, <<>>>>

(* split_midashi_okuri                                                     *)
Split(raw) ==
    IF Last(raw) \in Alpha /\ ~(ToSet(raw) \subseteq Ascii)
    THEN <<Front(raw), <<Last(raw)>>>> ELSE <<raw, <<>>>>

(* parse_skk_dict_ordered: a headword stands where its first line stands.  *)
AddLine(entries, line) ==
    LET head    == Split(line.raw)
        i       == Index(entries, head[1])
        cands   == Lookup(entries, head[1], head[2]) \o line.cands
        buckets == Put(Buckets(entries, head[1]), head[2], cands)
    IN  IF i = 0 THEN Append(entries, [midashi |-> head[1], buckets |-> buckets])
        ELSE [entries EXCEPT ![i].buckets = buckets]
Parse(lines) ==
    LET shown == Among(lines, {line \in ToSet(lines) : line.raw[1] # ";"})
        read[n \in 0 .. Len(shown)] == IF n = 0 THEN <<>> ELSE AddLine(read[n - 1], shown[n])
    IN  read[Len(shown)]

(* What a write that is cut short can leave: whole lines and a part of the *)
(* next one, cut in the headword or a character (then it does not parse),  *)
(* between two words, or inside a word.  A directive that was cut hides     *)
(* nothing.                                                                *)
CutLines(lines) ==
    LET Whole(n)  == SubSeq(lines, 1, n)
        File(ls, broken) == [lines |-> ls, broken |-> broken]
        Part(n, k) == [lines[n] EXCEPT !.cands = SubSeq(@, 1, k)]
        Bad(n, k)  == [lines[n] EXCEPT !.cands =
                          Append(SubSeq(@, 1, k), [@[k + 1] EXCEPT !.words = <<Damaged>>])]
    IN  {File(Whole(n), FALSE) : n \in 0 .. Len(lines)}
        \cup UNION {{File(Whole(n - 1), TRUE)}
                    \cup {File(Append(Whole(n - 1), Part(n, k)), FALSE) :
                             k \in 0 .. Len(lines[n].cands)}
                    \cup {File(Append(Whole(n - 1), Bad(n, k)), FALSE) :
                             k \in 0 .. Len(lines[n].cands) - 1} : n \in DOMAIN lines}
----------------------------------------------------------------------------
Idle == [at |-> "idle", next |-> FirstConfig]
Task(at, cfg) == [at |-> at, next |-> cfg]
NotRead == [read |-> FALSE, config |-> FirstConfig]
NoDict  == [path |-> Nowhere, entries |-> <<>>, dirty |-> FALSE]

(* Mutant: a dictionary that cannot be read is replaced by an empty one.   *)
LoadedEmpty(p) ==
    [path |-> p, entries |-> IF files[p].broken THEN <<>> ELSE Parse(files[p].lines),
     dirty |-> FALSE]

(* UserDict::load and the fallback of load_dicts.                          *)
Loaded(p) ==
    IF files[p].broken THEN NoDict
    ELSE [path |-> p, entries |-> Parse(files[p].lines), dirty |-> FALSE]

Init ==
    /\ up = TRUE
    /\ files = [p \in Path |-> [lines |-> FirstLines, broken |-> FALSE]]
    /\ configFile = FirstConfig /\ config = FirstConfig
    /\ dict = [path |-> FirstConfig.path, entries |-> Parse(FirstLines), dirty |-> FALSE]
    /\ task = Idle
    /\ reading = [r \in Call |-> NotRead]
    /\ changes = 0 /\ edits = 0 /\ faults = 0
    /\ latest = <<>> /\ purged = {}

Free == up /\ task = Idle

(* A key that records a chosen word; the dictionary is saved in the same   *)
(* process_key.                                                            *)
Learn(e) ==
    /\ Free /\ changes < MaxChanges
    /\ dict' = [dict EXCEPT !.entries = Learned(@, e), !.dirty = TRUE]
    /\ task' = Task("flush", FirstConfig)
    /\ changes' = changes + 1
    /\ latest' = [k \in DOMAIN latest \cup {<<e.midashi, e.okuri>>} |->
                     IF k = <<e.midashi, e.okuri>> THEN e.word ELSE latest[k]]
    /\ purged' = purged \ {e}
    /\ UNCHANGED <<up, files, configFile, config, reading, edits, faults>>

Purge(e) ==
    /\ Free /\ changes < MaxChanges
    /\ LET removed == \E i \in DOMAIN Lookup(dict.entries, e.midashi, e.okuri) :
                         Lookup(dict.entries, e.midashi, e.okuri)[i] = Plain(e.word)
       IN  dict' = [dict EXCEPT !.entries = Purged(@, e), !.dirty = @ \/ removed]
    /\ task' = Task("flush", FirstConfig)
    /\ changes' = changes + 1
    /\ latest' = [k \in {k \in DOMAIN latest :
                            k # <<e.midashi, e.okuri>> \/ latest[k] # e.word} |-> latest[k]]
    /\ purged' = purged \cup {e}
    /\ UNCHANGED <<up, files, configFile, config, reading, edits, faults>>

(* A key that records nothing, or a session that ends, saves what an       *)
(* earlier save could not.                                                 *)
OtherKey ==
    /\ Free /\ dict.dirty
    /\ task' = Task("flush", FirstConfig)
    /\ UNCHANGED <<up, dict, files, configFile, config, reading, changes, edits, faults,
                   latest, purged>>

(* flush_user_dict: a failure is logged and the work goes on.              *)
AfterFlush == task' = IF task.at = "flush" THEN Idle ELSE Task("load", task.next)
Flushing   == up /\ task.at \in {"flush", "reload"}
Written(file) == files' = IF dict.path = Nowhere THEN files ELSE [files EXCEPT ![dict.path] = file]

Saved ==
    /\ Flushing
    /\ IF dict.dirty THEN Written([lines |-> Serialize(dict.entries), broken |-> FALSE])
                     ELSE UNCHANGED files
    /\ dict' = [dict EXCEPT !.dirty = FALSE]
    /\ AfterFlush
    /\ UNCHANGED <<up, configFile, config, reading, changes, edits, faults, latest, purged>>

(* Mutant: dirty is cleared before the write.                              *)
SaveFailsClean ==
    /\ Flushing /\ dict.dirty /\ dict.path # Nowhere /\ faults < MaxFaults
    /\ faults' = faults + 1
    /\ \/ UNCHANGED files
       \/ \E file \in CutLines(Serialize(dict.entries)) : Written(file)
    /\ dict' = [dict EXCEPT !.dirty = FALSE]
    /\ AfterFlush
    /\ UNCHANGED <<up, configFile, config, reading, changes, edits, latest, purged>>

SaveFails ==
    /\ Flushing /\ dict.dirty /\ dict.path # Nowhere /\ faults < MaxFaults
    /\ faults' = faults + 1
    /\ \/ UNCHANGED files
       \/ \E file \in CutLines(Serialize(dict.entries)) : Written(file)
    /\ AfterFlush
    /\ UNCHANGED <<up, dict, configFile, config, reading, changes, edits, latest, purged>>
----------------------------------------------------------------------------
(* reload_config: the file is read and validated before any lock is taken. *)
ReadConfig(r) ==
    /\ up /\ ~reading[r].read
    /\ reading' = [reading EXCEPT ![r] = [read |-> TRUE, config |-> configFile]]
    /\ UNCHANGED <<up, dict, files, task, configFile, config, changes, edits, faults, latest, purged>>

(* Mutant: a new path of the user dictionary goes unnoticed.               *)
DictsChangedSources(old, new) == old.sources # new.sources

DictsChanged(old, new) == old.sources # new.sources \/ old.path # new.path

(* Under both locks: the engines are rebuilt, the dictionaries only when    *)
(* their part of the configuration changed.                                *)
BeginReload(r) ==
    /\ Free /\ reading[r].read
    /\ reading' = [reading EXCEPT ![r] = NotRead]
    /\ LET new == reading[r].config
       IN  IF DictsChanged(config, new)
           THEN task' = Task("reload", new) /\ UNCHANGED config
           ELSE config' = new /\ UNCHANGED task
    /\ UNCHANGED <<up, dict, files, configFile, changes, edits, faults, latest, purged>>

LoadDicts ==
    /\ up /\ task.at = "load"
    /\ dict' = Loaded(task.next.path)
    /\ config' = task.next
    /\ task' = Idle
    /\ latest' = <<>>
    /\ UNCHANGED <<up, files, configFile, reading, changes, edits, faults, purged>>

(* The settings program writes the configuration file.                     *)
EditConfig(c) ==
    /\ edits < MaxEdits /\ c # configFile
    /\ configFile' = c
    /\ edits' = edits + 1
    /\ UNCHANGED <<up, dict, files, task, config, reading, changes, faults, latest, purged>>

(* The daemon or the machine stops, perhaps in the middle of a write.      *)
Crash ==
    /\ up /\ faults < MaxFaults
    /\ faults' = faults + 1
    /\ up' = FALSE
    /\ \/ UNCHANGED files
       \/ /\ Flushing /\ dict.dirty /\ dict.path # Nowhere
          /\ \E file \in CutLines(Serialize(dict.entries)) : Written(file)
    /\ dict' = NoDict /\ task' = Idle /\ latest' = <<>>
    /\ reading' = [r \in Call |-> NotRead]
    /\ UNCHANGED <<configFile, config, changes, edits, purged>>

Start ==
    /\ ~up
    /\ up' = TRUE
    /\ config' = configFile
    /\ dict' = Loaded(configFile.path)
    /\ UNCHANGED <<files, task, configFile, reading, changes, edits, faults, latest, purged>>

Next ==
    \/ \E e \in Entry : Learn(e) \/ Purge(e)
    \/ OtherKey \/ Saved \/ SaveFails
    \/ \E r \in Call : ReadConfig(r) \/ BeginReload(r)
    \/ LoadDicts
    \/ \E c \in Config : EditConfig(c)
    \/ Crash \/ Start

Spec == Init /\ [][Next]_vars
=============================================================================
