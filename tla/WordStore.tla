------------------------------ MODULE WordStore ------------------------------
(***************************************************************************)
(* What the user dictionary promises to its users, whatever the format of  *)
(* its file: for each entry (a reading with or without okurigana) its      *)
(* words, last used first, kept in a file that outlives the daemon.        *)
(***************************************************************************)
EXTENDS Lists

CONSTANTS
    Key,       \* the entries
    Path,      \* the files a configuration can name
    Nowhere,   \* in place of a file: the words are in memory only
    Damaged    \* what is left of a word that was cut in the middle

VARIABLES
    words,     \* words[k]: the words of entry k in use
    at,        \* the file in use
    saved,     \* saved[p]: the words in file p
    readable   \* readable[p]: file p can be loaded
vars == <<words, at, saved, readable>>

None == [k \in Key |-> <<>>]
Known(s) == {s[i] : i \in DOMAIN s}

(* One entry changes: a word comes first, or goes.                         *)
Change(k) ==
    /\ words'[k] # words[k]
    /\ at' = at
    /\ \A j \in Key \ {k} : words'[j] = words[j]
    /\ \/ \E w \in Known(words'[k]) : words'[k] = <<w>> \o Without(words[k], w)
       \/ \E w \in Known(words[k])  : words'[k] = Without(words[k], w)
    /\ UNCHANGED <<saved, readable>>

Save ==
    /\ at # Nowhere
    /\ saved' = [saved EXCEPT ![at] = words]
    /\ readable' = [readable EXCEPT ![at] = TRUE]
    /\ UNCHANGED <<words, at>>

(* A write that is cut short leaves some of the words; a crash of the       *)
(* machine may cut it and end the daemon at once.                          *)
CutShort ==
    /\ at # Nowhere
    /\ \A p \in Path \ {at} : saved'[p] = saved[p] /\ readable'[p] = readable[p]
    /\ \A k \in Key : Known(saved'[at][k]) \subseteq Known(words[k]) \cup {Damaged}
    /\ \/ UNCHANGED <<words, at>>
       \/ words' = None /\ at' = Nowhere

Stop == words' = None /\ at' = Nowhere /\ UNCHANGED <<saved, readable>>

(* A file that cannot be read is left alone.                               *)
Load(p) ==
    /\ IF readable[p] THEN words' = saved[p] /\ at' = p
                      ELSE words' = None /\ at' = Nowhere
    /\ UNCHANGED <<saved, readable>>

Next ==
    \/ \E k \in Key : Change(k)
    \/ Save \/ CutShort \/ Stop
    \/ \E p \in Path : Load(p)

Spec == at \in Path \cup {Nowhere} /\ [][Next]_vars
=============================================================================
