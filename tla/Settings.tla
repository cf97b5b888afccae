------------------------------ MODULE Settings ------------------------------
(***************************************************************************)
(* The settings program over config.toml: the form a window shows          *)
(* (qt6-settings/src/settings_window.cpp), Apply with its write that keeps *)
(* what was not changed (y2skk-settings/src/lib.rs), and the daemon that    *)
(* validates before it takes a configuration over (skk-config/src/lib.rs).  *)
(*                                                                         *)
(* A configuration maps fields to values.  A document is one text of the   *)
(* file: how each section is written and which keys are in it.  Comments    *)
(* and the order of keys go with the section they are in.  Windows are      *)
(* separate processes and may be killed at any point.  The daemon is one     *)
(* started without --config, as the service files of the repository do: it   *)
(* reads the file the window writes.                                        *)
(***************************************************************************)
EXTENDS Config

CONSTANTS Window,     \* settings windows, a process each
          Late,       \* bound: calls given up that the daemon may still carry out
          Entered,    \* what the user may enter: values for some of the fields
          Documents,  \* what the user's editor may put into the file
          Disk,       \* the tables, dictionaries and directories there at first
          Volatile,   \* those of them that come and go
          MaxEdits    \* bound: changes the user makes, to a form or to files

(* A text of the file: it has keys only in the sections it has.              *)
IsText(file) ==
    /\ DOMAIN file = {"kind", "repr", "keys"} /\ file.kind = "toml"
    /\ DOMAIN file.keys = Field /\ file.repr \in [Section -> {"absent", "table", "inline"}]
    /\ \A f \in Field : file.keys[f] # None => file.repr[SectionOf[f]] # "absent"

ASSUME SettingsAssumption ==
    /\ DOMAIN Entered \subseteq Field /\ Volatile \subseteq Disk /\ MaxEdits \in Nat
    /\ \A file \in Documents :
          /\ "kind" \in DOMAIN file
          /\ (file.kind \in {"missing", "broken"} \/ IsText(file))
    /\ None \notin Window /\ Late \cap Window = {}

VARIABLES
    config, tmp,   \* config.toml and config.toml.tmp
    window,        \* window[w]: the form and the Apply under way
    calls,         \* calls[c]: the ReloadConfig of window c, or one given up
    daemon,        \* the daemon's configuration, or None
    disk,          \* the other files
    edits          \* changes the user has made so far

vars == <<config, tmp, window, calls, daemon, disk, edits>>

(* ---- documents ---- *)

Missing == [kind |-> "missing"]
Broken  == [kind |-> "broken"]    \* not TOML, or values of the wrong type
Partial == [kind |-> "partial"]   \* the beginning of a document
Empty   == [kind |-> "toml", repr |-> [s \in Section |-> "absent"], keys |-> [f \in Field |-> None]]

Readable(file) == file.kind = "toml"

Parsed(file) == [f \in Field |-> IF file.keys[f] = None THEN Default[f] ELSE file.keys[f]]

(* Mutant: the form is filled from the configuration as the daemon loads it. *)
LoadConfigNormalized(file) == Normalize(IF Readable(file) THEN Parsed(file) ELSE Default)

LoadConfigRaw(file) == IF Readable(file) THEN Parsed(file) ELSE Default

(* Mutant: a missing section is not made before its first key is written.    *)
WriteConfigNoSection(doc, new) ==
    [doc EXCEPT !.keys = [f \in Field |-> IF new[f] # Parsed(doc)[f] THEN new[f] ELSE @[f]]]

(* write_config_preserving: the keys whose value differs from the parsed     *)
(* file.  section_mut makes a section that is not a table into an empty one, *)
(* and clearing an optional key is left out if its section is not a table.   *)
WriteConfigPreserving(doc, new) ==
    LET old     == Parsed(doc)
        Put(f)  == new[f] # old[f] /\ new[f] # None
        Drop(f) == new[f] # old[f] /\ new[f] = None /\ doc.repr[SectionOf[f]] = "table"
        made    == {s \in Section : doc.repr[s] # "table" /\ \E f \in Field : SectionOf[f] = s /\ Put(f)}
    IN  [doc EXCEPT
           !.repr = [s \in Section |-> IF s \in made THEN "table" ELSE @[s]],
           !.keys = [f \in Field |-> IF Put(f) THEN new[f]
                                     ELSE IF Drop(f) \/ SectionOf[f] \in made THEN None
                                     ELSE @[f]]]

(* ---- windows ---- *)

(* asked: the JSON of the Apply under way.  result: the document to write.   *)
(* fd: the name under which the file being written is known.  status: what  *)
(* the last Apply reported.  touched and edited are the fields the user has  *)
(* changed: those of the Apply under way, those changed since.  The rest is   *)
(* history: stale, the file has changed under the form; read, what the Apply *)
(* has read of it; overtaken, it has changed since the Apply renamed.        *)
Closed == [at |-> "closed", form |-> Default, asked |-> Default, result |-> Missing, fd |-> "none",
           status |-> "none", touched |-> {}, edited |-> {},
           stale |-> FALSE, read |-> Missing, overtaken |-> FALSE]

Moved(w, state) == window' = [window EXCEPT ![w] = state]

Failed(state, message) ==
    [state EXCEPT !.at = "open", !.status = message, !.fd = "none", !.result = Missing,
                  !.asked = Default, !.edited = @ \cup state.touched, !.touched = {},
                  !.read = Missing, !.overtaken = FALSE]

Outdated(file, except) ==
    [v \in Window |-> IF v = except \/ window[v].at = "closed" \/ file = config THEN window[v]
                      ELSE [window[v] EXCEPT !.stale = TRUE,
                                             !.overtaken = window[v].at = "reloading"]]

(* ---- calls of ReloadConfig ---- *)

Idle == [at |-> "idle", cfg |-> Default]
Sent == [at |-> "sent", cfg |-> Default]

(* A caller ends its call: it was never carried out, or refused, or else the   *)
(* daemon goes on with it.                                                  *)
GivenUp(w) ==
    \/ calls[w].at # "loaded" /\ calls' = [calls EXCEPT ![w] = Idle]
    \/ /\ calls[w].at # "idle"
       /\ \E c \in Late : /\ calls[c].at = "idle"
                          /\ calls' = [calls EXCEPT ![c] = calls[w], ![w] = Idle]

(* ---- Apply ---- *)

(* loadFromCore: every value goes through its widget.                       *)
LoadFromCore(w) ==
    /\ window[w].at = "closed"
    /\ Moved(w, [Closed EXCEPT
                   !.at = "open",
                   !.form = ThroughForm(LoadConfigRaw(config)),
                   !.status = IF config.kind \in {"missing", "toml"} THEN "none" ELSE "warned"])
    /\ UNCHANGED <<config, tmp, calls, daemon, disk, edits>>

(* The form can be changed while an Apply is under way.                     *)
EditField(w, f, v) ==
    /\ window[w].at # "closed" /\ v # window[w].form[f]
    /\ edits < MaxEdits /\ edits' = edits + 1
    /\ Moved(w, [window[w] EXCEPT !.form[f] = v, !.edited = @ \cup {f}])
    /\ UNCHANGED <<config, tmp, calls, daemon, disk>>

(* onApply hands the JSON to a worker, which validates it first.            *)
OnApply(w) ==
    LET cfg == window[w].form
    IN  /\ window[w].at = "open"
        /\ Moved(w, IF ~Valid(Normalize(cfg), disk) THEN [window[w] EXCEPT !.status = "invalid"]
                    ELSE [window[w] EXCEPT !.at = "reading", !.asked = cfg, !.status = "applying",
                                           !.touched = window[w].edited, !.edited = {}])
        /\ UNCHANGED <<config, tmp, calls, daemon, disk, edits>>

(* Mutant: a file that does not parse is taken for an empty one.             *)
ReadConfigOrEmpty(w) ==
    /\ window[w].at = "reading"
    /\ Moved(w, [window[w] EXCEPT
                   !.at = "opening", !.read = config,
                   !.result = WriteConfigPreserving(
                       IF Readable(config) THEN config ELSE Empty, window[w].asked)])
    /\ UNCHANGED <<config, tmp, calls, daemon, disk, edits>>

(* Mutant: the worker waits for the file to become valid.                   *)
ReadConfigWaits(w) ==
    /\ window[w].at = "reading" /\ (Readable(config) \/ config = Missing)
    /\ Moved(w, [window[w] EXCEPT
                   !.at = "opening", !.read = config,
                   !.result = WriteConfigPreserving(
                       IF config = Missing THEN Empty ELSE config, window[w].asked)])
    /\ UNCHANGED <<config, tmp, calls, daemon, disk, edits>>

(* The file is read again; one that exists and is not valid is refused.      *)
ReadConfig(w) ==
    /\ window[w].at = "reading"
    /\ Moved(w, IF ~Readable(config) /\ config # Missing THEN Failed(window[w], "unwritten")
                ELSE [window[w] EXCEPT
                        !.at = "opening", !.read = config,
                        !.result = WriteConfigPreserving(
                            IF config = Missing THEN Empty ELSE config, window[w].asked)])
    /\ UNCHANGED <<config, tmp, calls, daemon, disk, edits>>

(* Mutant: the document is written to config.toml itself.                   *)
OpenConfigItself(w) ==
    /\ window[w].at = "opening" /\ config' = Partial
    /\ Moved(w, [window[w] EXCEPT !.at = "filling", !.fd = "config"])
    /\ UNCHANGED <<tmp, calls, daemon, disk, edits>>

(* fs::write creates or truncates the temporary file, then fills it.        *)
OpenTmp(w) ==
    /\ window[w].at = "opening" /\ tmp' = Partial
    /\ Moved(w, [window[w] EXCEPT !.at = "filling", !.fd = "tmp"])
    /\ UNCHANGED <<config, calls, daemon, disk, edits>>

FillTmp(w) ==
    /\ window[w].at = "filling"
    /\ config' = IF window[w].fd = "config" THEN window[w].result ELSE config
    /\ tmp' = IF window[w].fd = "tmp" THEN window[w].result ELSE tmp
    /\ Moved(w, [window[w] EXCEPT !.at = "renaming"])
    /\ UNCHANGED <<calls, daemon, disk, edits>>

FillFails(w) ==
    /\ window[w].at = "filling" /\ Moved(w, Failed(window[w], "unwritten"))
    /\ UNCHANGED <<config, tmp, calls, daemon, disk, edits>>

(* Another window that has the renamed file open now writes to config.toml.  *)
Rename(w) ==
    /\ window[w].at = "renaming" /\ UNCHANGED <<daemon, disk, edits>>
    /\ IF tmp = Missing
         THEN Moved(w, Failed(window[w], "unwritten")) /\ UNCHANGED <<config, tmp, calls>>
         ELSE /\ config' = tmp /\ tmp' = Missing /\ calls' = [calls EXCEPT ![w] = Sent]
              /\ window' = [v \in Window |->
                     IF v = w THEN [window[w] EXCEPT !.at = "reloading", !.result = Missing,
                                                     !.fd = "none", !.read = Missing]
                     ELSE [Outdated(tmp, w)[v] EXCEPT !.fd = IF @ = "tmp" THEN "config" ELSE @]]

(* The daemon loads and validates the file before it takes the lock.         *)
Loadable(file) == Readable(file) /\ Valid(Normalize(Parsed(file)), disk)

LoadCall(c) ==
    /\ calls[c].at = "sent" /\ daemon # None /\ Loadable(config)
    /\ calls' = [calls EXCEPT ![c] = [at |-> "loaded", cfg |-> Normalize(Parsed(config))]]
    /\ UNCHANGED <<config, tmp, window, daemon, disk, edits>>

Ended(w, message) == Moved(w, [Failed(window[w], message) EXCEPT !.edited = window[w].edited])

(* Mutant: an error of the daemon is reported as success.                   *)
ReloadIgnoresError(w) ==
    /\ window[w].at = "reloading" /\ GivenUp(w) /\ Ended(w, "applied")
    /\ UNCHANGED <<config, tmp, daemon, disk, edits>>

(* The daemon takes what it has loaded over, under its locks, and answers in   *)
(* time.                                                                    *)
Reload(w) ==
    /\ window[w].at = "reloading" /\ calls[w].at = "loaded"
    /\ daemon' = calls[w].cfg /\ calls' = [calls EXCEPT ![w] = Idle] /\ Ended(w, "applied")
    /\ UNCHANGED <<config, tmp, disk, edits>>

(* The daemon refuses the file, cannot be reached or stops, or the call times *)
(* out: then it may still be carried out.                                   *)
ReloadFails(w) ==
    /\ window[w].at = "reloading" /\ GivenUp(w) /\ Ended(w, "saved")
    /\ UNCHANGED <<config, tmp, daemon, disk, edits>>

(* A call given up is carried out,                                           *)
LateReload(c) ==
    /\ calls[c].at = "loaded" /\ daemon' = calls[c].cfg /\ calls' = [calls EXCEPT ![c] = Idle]
    /\ UNCHANGED <<config, tmp, window, disk, edits>>

(* or refused, or never reaches a daemon.                                    *)
LateFails(c) ==
    /\ calls[c].at = "sent" /\ calls' = [calls EXCEPT ![c] = Idle]
    /\ UNCHANGED <<config, tmp, window, daemon, disk, edits>>

(* The window is closed, or its process killed in the middle of an Apply.    *)
Close(w) ==
    /\ window[w].at # "closed" /\ GivenUp(w) /\ Moved(w, Closed)
    /\ UNCHANGED <<config, tmp, daemon, disk, edits>>

(* ---- the rest of the system ---- *)

EditFile(file) ==
    /\ edits < MaxEdits /\ edits' = edits + 1 /\ file # config
    /\ config' = file /\ window' = Outdated(file, None)
    /\ UNCHANGED <<tmp, calls, daemon, disk>>

(* A table or a dictionary is installed or removed.                         *)
ChangeDisk(path) ==
    /\ edits < MaxEdits /\ edits' = edits + 1
    /\ disk' = IF path \in disk THEN disk \ {path} ELSE disk \cup {path}
    /\ UNCHANGED <<config, tmp, window, calls, daemon>>

(* The daemon starts only with a file it can load.                          *)
StartDaemon ==
    /\ daemon = None /\ Loadable(config) /\ daemon' = Normalize(Parsed(config))
    /\ UNCHANGED <<config, tmp, window, calls, disk, edits>>

(* The calls it has received end with it; one a window is about to make may   *)
(* reach the next.                                                          *)
StopDaemon ==
    /\ daemon # None /\ daemon' = None
    /\ calls' = [c \in DOMAIN calls |-> IF c \in Late \/ calls[c].at = "loaded" THEN Idle
                                        ELSE calls[c]]
    /\ UNCHANGED <<config, tmp, window, disk, edits>>

Init ==
    /\ config \in Documents /\ tmp = Missing /\ disk = Disk /\ edits = 0
    /\ window = [w \in Window |-> Closed] /\ daemon = None
    /\ calls = [c \in Window \cup Late |-> Idle]

Worker(w) ==
    \/ ReadConfig(w) \/ OpenTmp(w) \/ FillTmp(w) \/ FillFails(w) \/ Rename(w)
    \/ Reload(w) \/ ReloadFails(w)

Next ==
    \/ \E w \in Window : LoadFromCore(w) \/ OnApply(w) \/ Worker(w) \/ Close(w)
    \/ \E w \in Window, f \in DOMAIN Entered : \E v \in Entered[f] : EditField(w, f, v)
    \/ \E file \in Documents : EditFile(file)
    \/ \E path \in Volatile : ChangeDisk(path)
    \/ \E c \in Window \cup Late : LoadCall(c)
    \/ \E c \in Late : LateReload(c) \/ LateFails(c)
    \/ StartDaemon \/ StopDaemon

Spec == Init /\ [][Next]_vars

(* Apply runs on a worker thread; the call of the daemon has a timeout.      *)
FairSpec == Spec /\ \A w \in Window : WF_vars(Worker(w))
=============================================================================
