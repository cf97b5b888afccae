------------------------- MODULE SettingsProperties -------------------------
(***************************************************************************)
(* What the settings program promises about config.toml.                   *)
(***************************************************************************)
EXTENDS Settings

(* What the form gives back as it is.                                       *)
Shown(cfg) == ThroughForm(cfg) = cfg

(* A text whose sections are tables and whose values the form can show.      *)
Plain(file) ==
    IsText(file) => Shown(Parsed(file)) /\ \A s \in Section : file.repr[s] # "inline"

(* What the user may enter in the form is what the form gives back; only a    *)
(* field that is empty by default can be left empty.                        *)
PlainEntries ==
    /\ Shown(Default)
    /\ \A f \in DOMAIN Entered : \A v \in Entered[f] :
          Shown([Default EXCEPT ![f] = v]) /\ (v = None => Default[f] = None)

(* Every part of the state keeps its type; a document is never left with a    *)
(* key whose section is not in it.                                          *)
TypeOK ==
    /\ \A file \in {config, tmp} \cup {window[w].result : w \in Window} :
          file.kind = "toml" =>
             /\ DOMAIN file.keys = Field
             /\ \A f \in Field : file.keys[f] # None => file.repr[SectionOf[f]] # "absent"
    /\ \A w \in Window :
          /\ window[w].at \in {"closed", "open", "reading", "opening", "filling", "renaming",
                               "reloading"}
          /\ DOMAIN window[w].form = Field /\ DOMAIN window[w].asked = Field
          /\ window[w].fd \in {"none", "tmp", "config"}
    /\ \A c \in Window \cup Late : calls[c].at \in {"idle", "sent", "loaded"}
    /\ disk \subseteq Disk /\ edits \in 0 .. MaxEdits

(* A crash or a failed write never leaves the beginning of a document in      *)
(* config.toml, and neither does a temporary file an earlier one left behind. *)
NeverPartial == config # Partial

KeepsBroken ==
    config = Broken /\ config' # config /\ edits' = edits
        => \E w \in Window : /\ window[w].at = "renaming" /\ window'[w].at = "reloading"
                             /\ window[w].read # Broken

(* A file that does not parse is never replaced by an Apply that has seen it: *)
(* if it is not the user who replaces it, it is the rename of an Apply that,  *)
(* when it read the file, found a valid one or none.                        *)
BrokenKept == [][KeepsBroken]_vars

(* An Apply changes only what the user changed in the form: every other key   *)
(* keeps its value, or stays out of the file, and a path keeps its `~'.  A     *)
(* file changed in an editor after the form was loaded voids this.            *)
UntouchedKept == [][\A w \in Window :
    window[w].at = "renaming" /\ window'[w].at = "reloading" /\ ~window[w].stale
        => LET before == IF Readable(config) THEN config ELSE Empty
           IN  \A f \in Field \ window[w].touched : config'.keys[f] = before.keys[f]]_vars

(* "Applied" means it: the file then reads as this Apply asked and the daemon *)
(* runs with it, whatever happened before the rename.  Only an edit of the    *)
(* file between the rename and the daemon's answer voids this: the daemon    *)
(* may then have taken the editor's text over, and it is "applied" all the    *)
(* same.                                                                    *)
AppliedInForce == [][\A w \in Window :
    window[w].status = "applying" /\ window'[w].status = "applied" /\ ~window[w].overtaken
        => /\ Parsed(config) = window[w].asked
           /\ daemon' = Normalize(window[w].asked)]_vars

(* The Apply button comes back: an Apply ends, whatever fails.                *)
ApplyEnds == \A w \in Window :
    (window[w].status = "applying") ~> (window[w].status # "applying")
=============================================================================
