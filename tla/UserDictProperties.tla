------------------------- MODULE UserDictProperties -------------------------
(***************************************************************************)
(* What the user dictionary guarantees across saves, faults, restarts and   *)
(* reloads.                                                                *)
(***************************************************************************)
EXTENDS UserDict

Key == {<<e.midashi, e.okuri>> : e \in Entry}

(* A key that the text of its line says unambiguously: okurigana is one      *)
(* letter, after a headword that is not ASCII; without it the headword is    *)
(* ASCII or does not end in a letter.                                      *)
Unambiguous(midashi, okuri) ==
    LET ascii == ToSet(midashi) \subseteq Ascii
    IN  \/ okuri = <<>> /\ (ascii \/ Last(midashi) \notin Alpha)
        \/ ~ascii /\ \E letter \in Alpha : okuri = <<letter>>

(* All keys are such keys, and the first lines are comments or of keys.      *)
KeysAreSplit ==
    /\ \A k \in Key : Unambiguous(k[1], k[2])
    /\ \A i \in DOMAIN FirstLines :
          FirstLines[i].raw[1] = ";" \/ \E k \in Key : FirstLines[i].raw = k[1] \o k[2]

(* No line of a key reads as a comment either.                              *)
KeysReadBack == KeysAreSplit /\ \A k \in Key : k[1][1] # ";"

(* Every part of the state keeps its type.                                 *)
TypeOK ==
    /\ up \in BOOLEAN /\ dict.dirty \in BOOLEAN /\ dict.path \in Path \cup {Nowhere}
    /\ \A i \in DOMAIN dict.entries : \A o \in DOMAIN dict.entries[i].buckets :
          <<dict.entries[i].midashi, o>> \in Key /\ dict.entries[i].buckets[o] \in Cands
    /\ \A p \in Path : /\ files[p].broken \in BOOLEAN
                       /\ \A i \in DOMAIN files[p].lines : files[p].lines[i].cands \in Cands
    /\ task.at \in {"idle", "flush", "reload", "load"} /\ task.next \in Config
    /\ configFile \in Config /\ config \in Config
    /\ \A r \in Call : reading[r] \in [read : BOOLEAN, config : Config]
    /\ DOMAIN latest \subseteq Key /\ purged \subseteq Entry

(* The words of each entry.                                                *)
WordsOf[cands \in Cands] ==
    IF cands = <<>> THEN <<>>
    ELSE LET before == WordsOf[Front(cands)]
         IN  IF Displayable(Last(cands)) THEN Append(before, Last(cands).words[1]) ELSE before
Content(entries) == [k \in Key |-> WordsOf[Lookup(entries, k[1], k[2])]]

(* What the engine offers from the user dictionary: start_conversion leaves *)
(* out the words that a directive of the entry names.                      *)
Hidden(cands)  == UNION {ToSet(cands[i].words) : i \in {j \in DOMAIN cands : cands[j].directive}}
Offered(entries, k) ==
    LET cands == Lookup(entries, k[1], k[2])
    IN  Among(WordsOf[cands], ToSet(WordsOf[cands]) \ Hidden(cands))

(* The word last chosen for an entry is offered first the next time, until  *)
(* it is purged, whatever else is learned and purged meanwhile.            *)
LatestFirst == \A k \in DOMAIN latest :
    LET words == Offered(dict.entries, k) IN words # <<>> /\ words[1] = latest[k]

(* A dictionary that is not marked dirty can be read back from its file,    *)
(* with the same words in the same order.                                  *)
CleanMeansSaved == up /\ ~dict.dirty /\ dict.path # Nowhere =>
    /\ ~files[dict.path].broken
    /\ Content(Parse(files[dict.path].lines)) = Content(dict.entries)

(* Between requests the dictionary in use is the one the applied            *)
(* configuration names, unless that one could not be read.                 *)
DictFollowsConfig == up /\ task = Idle => dict.path \in {config.path, Nowhere}

(* What a file holds, whoever reads it: the words of the lines of an entry. *)
Stored(lines) == [k \in Key |->
    LET own == Among(lines, {line \in ToSet(lines) : line.raw = k[1] \o k[2]})
    IN  WordsOf[FlattenSeq([i \in DOMAIN own |-> own[i].cands])]]

(* A completed save takes from the file only what was purged: it never      *)
(* replaces a file by a dictionary that did not come from it.              *)
InFile(f) == UNION {{[midashi |-> k[1], okuri |-> k[2], word |-> w] :
                        w \in ToSet(Stored(f.lines)[k]) \ {Damaged}} : k \in Key}
NothingOverwritten == [][
    dict.dirty /\ ~dict'.dirty /\ up' /\ dict'.path = dict.path =>
        \A p \in Path : InFile(files[p]) \ InFile(files'[p]) \subseteq purged]_vars

(* The dictionary with its file is a store of words (WordStore): what a     *)
(* save writes the next load returns, a word learned comes first and all    *)
(* the others keep their order, and nothing else changes the words in use.  *)
Store == INSTANCE WordStore WITH
    words    <- Content(dict.entries),
    at       <- dict.path,
    saved    <- [p \in Path |-> Stored(files[p].lines)],
    readable <- [p \in Path |-> ~files[p].broken]
ActsAsStore == Store!Spec
----------------------------------------------------------------------------
(* A statement of the code's comments that does not hold.                   *)

(* The file preserves the order of use "so that recency is correctly        *)
(* restored on next load" (serialize_user_dict).                           *)
RecencyRestored == \A e \in Entry :
    LET prefix == Front(e.midashi)
    IN  Completions(Parse(Serialize(dict.entries)), prefix) = Completions(dict.entries, prefix)
=============================================================================
