--------------------------- MODULE SettingsSafety ---------------------------
(***************************************************************************)
(* Proofs about the settings program: its types for any number of windows;   *)
(* for one window, that config.toml is never left half-written, that a file   *)
(* that does not parse is not written over, that an Apply changes only what   *)
(* the user changed, and that "applied" means it.                           *)
(***************************************************************************)
EXTENDS SettingsProperties, TLAPS

(* Windows share the name of the temporary file: of two that apply at once    *)
(* one can rename what the other has only begun.                            *)
OneWindow == \A v, w \in Window : v = w

(* ---- the invariant ---- *)

Fields == {"at", "form", "asked", "result", "fd", "status", "touched", "edited", "stale", "read",
           "overtaken"}

Complete(file) == "kind" \in DOMAIN file /\ file.kind = "toml"

(* What is about to be written is a whole document, what is about to be      *)
(* renamed has been written, and it is config.toml.tmp that is being filled.  *)
WritesComplete(w) ==
    /\ window[w].fd # "config"
    /\ window[w].at = "opening" => Complete(window[w].result)
    /\ window[w].at = "filling" => Complete(window[w].result) /\ window[w].fd = "tmp"
    /\ window[w].at = "renaming" => Complete(tmp)

(* An Apply past its check of the file has seen a valid file or none.         *)
SawValid(w) ==
    window[w].at \in {"opening", "filling", "renaming"} => window[w].read # Broken

IInv ==
    /\ edits \in Nat
    /\ "kind" \in DOMAIN config /\ config.kind \in {"missing", "broken", "toml"}
    /\ DOMAIN window = Window
    /\ \A w \in Window : DOMAIN window[w] = Fields /\ WritesComplete(w) /\ SawValid(w)

(* ---- lemmas ---- *)

(* What is written over a whole document is a whole document.                *)
LEMMA WrittenComplete ==
    ASSUME NEW doc, NEW new, Complete(doc)
    PROVE  Complete(WriteConfigPreserving(doc, new))
  BY DEF WriteConfigPreserving, Complete

(* A new file is a whole document.                                           *)
LEMMA EmptyComplete == Complete(Empty)
  BY DEF Empty, Complete

(* A failed Apply leaves an open window with nothing to write.               *)
LEMMA FailedOpen ==
    ASSUME NEW state, NEW message, DOMAIN state = Fields
    PROVE  /\ DOMAIN Failed(state, message) = Fields
           /\ Failed(state, message).at = "open" /\ Failed(state, message).fd = "none"
           /\ Failed(state, message).stale = state.stale
  BY DEF Failed, Fields

(* A change of the file leaves every window in place.                        *)
LEMMA OutdatedWindows ==
    ASSUME NEW file, NEW except
    PROVE  DOMAIN Outdated(file, except) = Window
  BY Zenon DEF Outdated

(* An edit of the file marks the open windows, and changes nothing else in     *)
(* them.                                                                    *)
LEMMA EditMarks ==
    ASSUME NEW file, EditFile(file), NEW w \in Window, DOMAIN window[w] = Fields
    PROVE  \/ window'[w] = window[w] /\ window[w].at = "closed"
           \/ /\ DOMAIN window'[w] = Fields /\ window'[w].at = window[w].at
              /\ window'[w].form = window[w].form /\ window'[w].asked = window[w].asked
              /\ window'[w].result = window[w].result /\ window'[w].fd = window[w].fd
              /\ window'[w].status = window[w].status /\ window'[w].read = window[w].read
              /\ window'[w].touched = window[w].touched /\ window'[w].edited = window[w].edited
              /\ window'[w].stale = TRUE
              /\ window[w].at = "reloading" => window'[w].overtaken = TRUE
<1> DEFINE old == window[w]
           reloading == old.at = "reloading"
           marked == [old EXCEPT !.stale = TRUE]
           new == [marked EXCEPT !.overtaken = reloading]
<1>1. window' = Outdated(file, None) /\ file # config
  BY DEF EditFile
<1>2. w # None
  BY SettingsAssumption
<1>3. window'[w] = IF w = None \/ old.at = "closed" \/ file = config THEN old
                   ELSE [old EXCEPT !.stale = TRUE, !.overtaken = old.at = "reloading"]
  <2>1. \A v \in Window : Outdated(file, None)[v] =
           IF v = None \/ window[v].at = "closed" \/ file = config THEN window[v]
           ELSE [window[v] EXCEPT !.stale = TRUE, !.overtaken = window[v].at = "reloading"]
    BY Zenon DEF Outdated
  <2> QED
    BY ONLY <1>1, <2>1, w \in Window, Zenon
<1>4. (window'[w] = old /\ old.at = "closed") \/ window'[w] = new
  BY <1>1, <1>2, <1>3, Zenon
<1>5. old.at = "reloading" => reloading = TRUE
  BY Zenon
<1>6. /\ DOMAIN marked = Fields /\ marked.at = old.at /\ marked.form = old.form
      /\ marked.asked = old.asked /\ marked.result = old.result /\ marked.fd = old.fd
      /\ marked.status = old.status /\ marked.read = old.read
      /\ marked.touched = old.touched /\ marked.edited = old.edited /\ marked.stale = TRUE
  BY DEF Fields
<1> HIDE DEF marked, reloading
<1>7. /\ DOMAIN new = Fields /\ new.at = old.at /\ new.form = old.form
      /\ new.asked = old.asked /\ new.result = old.result /\ new.fd = old.fd
      /\ new.status = old.status /\ new.read = old.read
      /\ new.touched = old.touched /\ new.edited = old.edited /\ new.stale = TRUE
      /\ new.overtaken = reloading
  BY <1>6 DEF Fields
<1> HIDE DEF new
<1> QED
  BY <1>4, <1>5, <1>7

(* A window that is not open writes nothing.                                 *)
LEMMA ClosedWindow ==
    DOMAIN Closed = Fields /\ Closed.at = "closed" /\ Closed.fd = "none"
  BY DEF Closed, Fields

(* A step of the one window there is keeps the invariant if its new state     *)
(* does; file and temporary are what the step makes of the two files.        *)
LEMMA MovedKeeps ==
    ASSUME IInv, OneWindow, NEW w \in Window, NEW state, Moved(w, state),
           DOMAIN state = Fields, state.fd # "config",
           state.at = "opening" => Complete(state.result),
           state.at = "filling" => Complete(state.result) /\ state.fd = "tmp",
           state.at = "renaming" => Complete(tmp'),
           state.at \in {"opening", "filling", "renaming"} => state.read # Broken,
           edits' \in Nat,
           "kind" \in DOMAIN config', config'.kind \in {"missing", "broken", "toml"}
    PROVE  IInv'
<1>1. DOMAIN window' = Window /\ window'[w] = state
  BY DEF IInv, Moved
<1>2. \A v \in Window : window'[v] = state
  BY <1>1 DEF OneWindow
<1> QED
  BY <1>1, <1>2 DEF IInv, WritesComplete, SawValid

(* ---- the invariant is inductive ---- *)

(* Nothing is being written at first.                                        *)
LEMMA InitKeeps == Init => IInv
<1> SUFFICES ASSUME Init PROVE IInv
  OBVIOUS
<1>1. "kind" \in DOMAIN config /\ config.kind \in {"missing", "broken", "toml"}
  BY SettingsAssumption DEF Init, IsText
<1>2. \A w \in Window : window[w] = Closed
  BY DEF Init
<1> QED
  BY <1>1, <1>2, ClosedWindow DEF Init, IInv, WritesComplete, SawValid

(* Opening and closing a window and the start of an Apply keep the            *)
(* invariant.                                                                *)
LEMMA WindowKeeps ==
    ASSUME IInv, OneWindow, NEW w \in Window,
           LoadFromCore(w) \/ OnApply(w) \/ Close(w)
    PROVE  IInv'
<1>1. DOMAIN window[w] = Fields /\ window[w].fd # "config"
  BY DEF IInv, WritesComplete
<1>2. CASE LoadFromCore(w)
  <2> DEFINE new == [Closed EXCEPT
                       !.at = "open",
                       !.form = ThroughForm(LoadConfigRaw(config)),
                       !.status = IF config.kind \in {"missing", "toml"} THEN "none" ELSE "warned"]
  <2>1. DOMAIN new = Fields /\ new.at = "open" /\ new.fd = "none"
    BY ClosedWindow DEF Fields
  <2>2. Moved(w, new) /\ UNCHANGED <<config, tmp, edits>>
    BY <1>2 DEF LoadFromCore
  <2> HIDE DEF new
  <2> QED
    BY <2>1, <2>2, MovedKeeps DEF IInv
<1>3. CASE OnApply(w)
  <2> DEFINE new == IF ~Valid(Normalize(window[w].form), disk)
                    THEN [window[w] EXCEPT !.status = "invalid"]
                    ELSE [window[w] EXCEPT !.at = "reading", !.asked = window[w].form,
                                           !.status = "applying",
                                           !.touched = window[w].edited, !.edited = {}]
  <2>1. DOMAIN new = Fields /\ new.at \in {"open", "reading"} /\ new.fd = window[w].fd
    BY <1>1, <1>3 DEF OnApply, Fields
  <2>2. Moved(w, new) /\ UNCHANGED <<config, tmp, edits>>
    BY <1>3 DEF OnApply
  <2> HIDE DEF new
  <2> QED
    BY <1>1, <2>1, <2>2, MovedKeeps DEF IInv
<1>4. CASE Close(w)
  BY <1>4, ClosedWindow, MovedKeeps DEF Close, IInv
<1> QED
  BY <1>2, <1>3, <1>4

(* A change in the form keeps it,                                             *)
LEMMA EditFieldKeeps ==
    ASSUME IInv, OneWindow, NEW w \in Window, NEW f, NEW v, EditField(w, f, v)
    PROVE  IInv'
<1> DEFINE new == [window[w] EXCEPT !.form[f] = v, !.edited = @ \cup {f}]
<1>1. DOMAIN window[w] = Fields /\ WritesComplete(w) /\ SawValid(w)
  BY DEF IInv
<1>2. /\ DOMAIN new = Fields /\ new.at = window[w].at /\ new.fd = window[w].fd
      /\ new.result = window[w].result /\ new.read = window[w].read
  BY <1>1 DEF Fields
<1>3. Moved(w, new) /\ UNCHANGED <<config, tmp>> /\ edits' \in Nat
  BY DEF EditField, IInv
<1> HIDE DEF new
<1> QED
  BY <1>1, <1>2, <1>3, MovedKeeps DEF IInv, WritesComplete, SawValid

(* and so does every step of the worker of an Apply.                         *)
LEMMA WorkerKeeps ==
    ASSUME IInv, OneWindow, NEW w \in Window, Worker(w)
    PROVE  IInv'
<1>1. DOMAIN window[w] = Fields /\ WritesComplete(w) /\ SawValid(w)
  BY DEF IInv
<1>2. CASE ReadConfig(w)
  <2> DEFINE doc == IF config = Missing THEN Empty ELSE config
             new == [window[w] EXCEPT !.at = "opening", !.read = config,
                                      !.result = WriteConfigPreserving(doc, window[w].asked)]
  <2>1. CASE ~Readable(config) /\ config # Missing
    <3>1. Moved(w, Failed(window[w], "unwritten")) /\ UNCHANGED <<config, tmp, edits>>
      BY <1>2, <2>1 DEF ReadConfig
    <3> QED
      BY <1>1, <3>1, FailedOpen, MovedKeeps DEF IInv
  <2>2. CASE Readable(config) \/ config = Missing
    <3>1. Complete(doc) /\ config # Broken
      BY <2>2, EmptyComplete DEF Readable, Missing, Broken, Complete, IInv
    <3>2. Complete(WriteConfigPreserving(doc, window[w].asked))
      BY <3>1, WrittenComplete
    <3>3. /\ DOMAIN new = Fields /\ new.at = "opening" /\ new.fd = window[w].fd
          /\ Complete(new.result) /\ new.read = config
      BY <1>1, <3>2 DEF Fields
    <3>4. Moved(w, new) /\ UNCHANGED <<config, tmp, edits>>
      BY <1>2, <2>2 DEF ReadConfig
    <3> HIDE DEF new
    <3> QED
      BY <1>1, <3>1, <3>3, <3>4, MovedKeeps DEF IInv, WritesComplete
  <2> QED
    BY <2>1, <2>2
<1>3. CASE OpenTmp(w)
  <2> DEFINE new == [window[w] EXCEPT !.at = "filling", !.fd = "tmp"]
  <2>1. /\ DOMAIN new = Fields /\ new.at = "filling" /\ new.fd = "tmp"
        /\ new.result = window[w].result /\ new.read = window[w].read
    BY <1>1 DEF Fields
  <2>2. window[w].at = "opening" /\ Moved(w, new) /\ UNCHANGED <<config, edits>>
    BY <1>3 DEF OpenTmp
  <2> HIDE DEF new
  <2> QED
    BY <1>1, <2>1, <2>2, MovedKeeps DEF IInv, WritesComplete, SawValid
<1>4. CASE FillTmp(w)
  <2> DEFINE new == [window[w] EXCEPT !.at = "renaming"]
  <2>1. /\ DOMAIN new = Fields /\ new.at = "renaming" /\ new.fd = window[w].fd
        /\ new.read = window[w].read
    BY <1>1 DEF Fields
  <2>2. /\ window[w].at = "filling" /\ Moved(w, new) /\ UNCHANGED <<config, edits>>
        /\ tmp' = window[w].result
    BY <1>1, <1>4 DEF FillTmp, WritesComplete
  <2> HIDE DEF new
  <2> QED
    BY <1>1, <2>1, <2>2, MovedKeeps DEF IInv, WritesComplete, SawValid
<1>5. CASE FillFails(w)
  <2>1. Moved(w, Failed(window[w], "unwritten")) /\ UNCHANGED <<config, tmp, edits>>
    BY <1>5 DEF FillFails
  <2> QED
    BY <1>1, <2>1, FailedOpen, MovedKeeps DEF IInv
<1>6. CASE Rename(w)
  <2> DEFINE new == [window[w] EXCEPT !.at = "reloading", !.result = Missing, !.fd = "none",
                                      !.read = Missing]
  <2>1. /\ DOMAIN new = Fields /\ new.at = "reloading" /\ new.fd = "none"
    BY <1>1 DEF Fields
  <2>2. Complete(tmp) /\ tmp # Missing
    BY <1>1, <1>6 DEF Rename, WritesComplete, Complete, Missing
  <2>3. config' = tmp /\ edits' = edits
    BY <1>6, <2>2 DEF Rename
  <2>4. DOMAIN window' = Window /\ window'[w] = new
    BY <1>6, <2>2 DEF Rename
  <2>5. \A v \in Window : window'[v] = new
    BY <2>4 DEF OneWindow
  <2> HIDE DEF new
  <2> QED
    BY <2>1, <2>2, <2>3, <2>4, <2>5 DEF IInv, WritesComplete, SawValid, Complete
<1>7. ASSUME Reload(w) \/ ReloadFails(w) PROVE IInv'
  <2>1. PICK message : /\ Moved(w, [Failed(window[w], message) EXCEPT !.edited = window[w].edited])
                       /\ UNCHANGED <<config, tmp, edits>>
    BY <1>7 DEF Reload, ReloadFails, Ended
  <2> DEFINE new == [Failed(window[w], message) EXCEPT !.edited = window[w].edited]
  <2>2. DOMAIN new = Fields /\ new.at = "open" /\ new.fd = "none"
    BY <1>1, FailedOpen DEF Fields
  <2>3. Moved(w, new)
    BY <2>1
  <2> HIDE DEF new
  <2> QED
    BY <2>1, <2>2, <2>3, MovedKeeps DEF IInv
<1> QED
  BY <1>2, <1>3, <1>4, <1>5, <1>6, <1>7 DEF Worker

(* The user's editor puts whole files in place, and marks open forms stale.   *)
LEMMA EditFileKeeps ==
    ASSUME IInv, NEW file \in Documents, EditFile(file)
    PROVE  IInv'
<1>1. /\ config' = file /\ tmp' = tmp /\ edits' \in Nat /\ file # config
      /\ DOMAIN window' = Window
      /\ "kind" \in DOMAIN file /\ file.kind \in {"missing", "broken", "toml"}
  <2>1. window' = Outdated(file, None)
    BY DEF EditFile
  <2>2. DOMAIN window' = Window
    BY <2>1, OutdatedWindows, Zenon
  <2>3. config' = file /\ tmp' = tmp /\ edits' \in Nat /\ file # config
    BY DEF EditFile, IInv
  <2> QED
    BY <2>2, <2>3, SettingsAssumption DEF IsText
<1>2. ASSUME NEW w \in Window
      PROVE  /\ DOMAIN window'[w] = Fields /\ window'[w].at = window[w].at
             /\ window'[w].fd = window[w].fd /\ window'[w].result = window[w].result
             /\ window'[w].read = window[w].read
  BY EditMarks DEF IInv
<1>3. ASSUME NEW w \in Window
      PROVE  DOMAIN window'[w] = Fields /\ WritesComplete(w)' /\ SawValid(w)'
  BY <1>1, <1>2 DEF IInv, WritesComplete, SawValid
<1> QED
  BY <1>1, <1>3 DEF IInv

(* Every step keeps the invariant.                                           *)
LEMMA StepKeeps ==
    ASSUME IInv, OneWindow, [Next]_vars
    PROVE  IInv'
<1>1. ASSUME NEW w \in Window, LoadFromCore(w) \/ OnApply(w) \/ Worker(w) \/ Close(w)
      PROVE  IInv'
  BY <1>1, WindowKeeps, WorkerKeeps
<1>2. ASSUME NEW w \in Window, NEW f \in DOMAIN Entered, NEW v \in Entered[f], EditField(w, f, v)
      PROVE  IInv'
  BY <1>2, EditFieldKeeps
<1>3. ASSUME NEW file \in Documents, EditFile(file) PROVE IInv'
  BY <1>3, EditFileKeeps
<1>4. ASSUME \/ \E path \in Volatile : ChangeDisk(path)
             \/ \E c \in Window \cup Late : LoadCall(c)
             \/ \E c \in Late : LateReload(c) \/ LateFails(c)
             \/ StartDaemon \/ StopDaemon \/ UNCHANGED vars
      PROVE  IInv'
  <2>1. UNCHANGED <<config, tmp, window>> /\ edits' \in Nat
    BY <1>4 DEF ChangeDisk, LoadCall, LateReload, LateFails, StartDaemon, StopDaemon, vars, IInv
  <2> QED
    BY <2>1 DEF IInv, WritesComplete, SawValid
<1> QED
  BY <1>1, <1>2, <1>3, <1>4 DEF Next

(* ---- types, for any number of windows ---- *)

(* What config.toml, the temporary file or a document to write may be.        *)
FileOK(file) == "kind" \in DOMAIN file /\ (file.kind = "toml" => IsText(file))

Stages == {"closed", "open", "reading", "opening", "filling", "renaming", "reloading"}

StateOK(state) ==
    /\ DOMAIN state = Fields
    /\ state.at \in Stages /\ state.fd \in {"none", "tmp", "config"}
    /\ DOMAIN state.form = Field /\ DOMAIN state.asked = Field
    /\ FileOK(state.result)

TInv ==
    /\ FileOK(config) /\ FileOK(tmp)
    /\ DOMAIN window = Window /\ \A w \in Window : StateOK(window[w])
    /\ disk \subseteq Disk /\ edits \in 0 .. MaxEdits

(* Every field has a default and a section.                                  *)
LEMMA FieldsTyped == DOMAIN Default = Field /\ \A f \in Field : SectionOf[f] \in Section
<1>1. DOMAIN Default = Field
  BY DEF Default, Field, SectionOf
<1>2. \A f \in Field : SectionOf[f] \in Section
  BY DEF Field, Section
<1> QED
  BY <1>1, <1>2

(* A new file has no section and no key.                                     *)
LEMMA EmptyIsText == IsText(Empty) /\ (\A s \in Section : Empty.repr[s] = "absent")
<1>1. Empty.keys = [f \in Field |-> None] /\ Empty.repr = [s \in Section |-> "absent"]
  BY DEF Empty
<1>2. DOMAIN Empty = {"kind", "repr", "keys"} /\ Empty.kind = "toml"
  BY DEF Empty
<1> QED
  BY <1>1, <1>2 DEF IsText

(* What a file reads as has every field.                                     *)
LEMMA ParsedTyped ==
    ASSUME NEW file
    PROVE  DOMAIN Parsed(file) = Field /\ Parsed(file) = [f \in Field |-> Parsed(file)[f]]
  BY DEF Parsed

(* The parts of a write: which keys it puts and drops, and which sections it  *)
(* makes.                                                                   *)
Puts(doc, new, f)  == new[f] # Parsed(doc)[f] /\ new[f] # None
Drops(doc, new, f) ==
    new[f] # Parsed(doc)[f] /\ new[f] = None /\ doc.repr[SectionOf[f]] = "table"
Makes(doc, new, s) ==
    doc.repr[s] # "table" /\ \E f \in Field : SectionOf[f] = s /\ Puts(doc, new, f)

ReprAfter(doc, new) == [s \in Section |-> IF Makes(doc, new, s) THEN "table" ELSE doc.repr[s]]
KeysAfter(doc, new) ==
    [f \in Field |-> IF Puts(doc, new, f) THEN new[f]
                     ELSE IF Drops(doc, new, f) \/ Makes(doc, new, SectionOf[f]) THEN None
                     ELSE doc.keys[f]]

(* A write changes the sections and the keys of a text, and nothing else.     *)
LEMMA WrittenParts ==
    ASSUME NEW doc, IsText(doc), NEW new
    PROVE  LET out == WriteConfigPreserving(doc, new)
           IN  /\ DOMAIN out = {"kind", "repr", "keys"} /\ out.kind = "toml"
               /\ out.repr = ReprAfter(doc, new) /\ out.keys = KeysAfter(doc, new)
<1> DEFINE made == {s \in Section : doc.repr[s] # "table" /\ \E f \in Field :
                        SectionOf[f] = s /\ new[f] # Parsed(doc)[f] /\ new[f] # None}
           repr == [s \in Section |-> IF s \in made THEN "table" ELSE doc.repr[s]]
           keys == [f \in Field |->
                       IF new[f] # Parsed(doc)[f] /\ new[f] # None THEN new[f]
                       ELSE IF \/ /\ new[f] # Parsed(doc)[f] /\ new[f] = None
                                  /\ doc.repr[SectionOf[f]] = "table"
                               \/ SectionOf[f] \in made THEN None
                       ELSE doc.keys[f]]
           out == [doc EXCEPT !.repr = repr, !.keys = keys]
<1>1. WriteConfigPreserving(doc, new) = out
  BY DEF WriteConfigPreserving, IsText
<1>2. repr = ReprAfter(doc, new)
  BY DEF ReprAfter, Makes, Puts
<1>3. keys = KeysAfter(doc, new)
  BY FieldsTyped DEF KeysAfter, Makes, Puts, Drops
<1> HIDE DEF made, repr, keys
<1>4. /\ DOMAIN out = {"kind", "repr", "keys"} /\ out.kind = "toml"
      /\ out.repr = repr /\ out.keys = keys
  BY DEF IsText
<1> HIDE DEF out
<1> QED
  BY <1>1, <1>2, <1>3, <1>4

(* A write leaves no key in a section that is not in the text.               *)
LEMMA WrittenIsText ==
    ASSUME NEW doc, IsText(doc), NEW new
    PROVE  IsText(WriteConfigPreserving(doc, new))
<1> DEFINE out == WriteConfigPreserving(doc, new)
<1>1. /\ DOMAIN out = {"kind", "repr", "keys"} /\ out.kind = "toml"
      /\ out.repr = ReprAfter(doc, new) /\ out.keys = KeysAfter(doc, new)
  BY WrittenParts
<1> HIDE DEF out
<1>2. ASSUME NEW f \in Field, out.keys[f] # None PROVE out.repr[SectionOf[f]] # "absent"
  <2>1. SectionOf[f] \in Section
    BY FieldsTyped
  <2>2. CASE Puts(doc, new, f)
    <3>1. doc.repr[SectionOf[f]] # "table" => Makes(doc, new, SectionOf[f])
      BY <2>2 DEF Makes
    <3> QED
      BY <1>1, <2>1, <3>1 DEF ReprAfter
  <2>3. CASE ~Puts(doc, new, f)
    <3>1. ~Makes(doc, new, SectionOf[f]) /\ out.keys[f] = doc.keys[f]
      BY <1>1, <1>2, <2>3 DEF KeysAfter
    <3> QED
      BY <1>1, <1>2, <2>1, <3>1 DEF IsText, ReprAfter
  <2> QED
    BY <2>2, <2>3
<1>3. out.repr \in [Section -> {"absent", "table", "inline"}] /\ DOMAIN out.keys = Field
  BY <1>1 DEF IsText, ReprAfter, KeysAfter
<1> QED
  BY <1>1, <1>2, <1>3 DEF IsText, out

(* The form keeps the fields of a configuration.                             *)
LEMMA FormTyped ==
    ASSUME NEW cfg, DOMAIN cfg = Field
    PROVE  DOMAIN ThroughForm(cfg) = Field
  BY DEF ThroughForm

(* A failed Apply leaves a window that is typed.                             *)
LEMMA FailedTyped ==
    ASSUME NEW state, NEW message, StateOK(state)
    PROVE  StateOK(Failed(state, message))
<1> DEFINE d == Failed(state, message)
<1>1. /\ DOMAIN d = Fields /\ d.at = "open" /\ d.fd = "none"
      /\ d.form = state.form /\ d.asked = Default /\ d.result = Missing
  BY DEF StateOK, Fields, Failed
<1> HIDE DEF d
<1>2. FileOK(Missing)
  BY DEF FileOK, Missing
<1> QED
  BY <1>1, <1>2, FieldsTyped DEF StateOK, Stages, d

(* A step of one window keeps the types if it leaves that window typed.      *)
LEMMA MovedTyped ==
    ASSUME TInv, NEW w \in Window, NEW state, Moved(w, state), StateOK(state),
           FileOK(config'), FileOK(tmp'), disk' \subseteq Disk, edits' \in 0 .. MaxEdits
    PROVE  TInv'
<1>1. DOMAIN window' = Window /\ \A v \in Window : window'[v] = IF v = w THEN state ELSE window[v]
  BY DEF TInv, Moved
<1> QED
  BY <1>1 DEF TInv

(* A window that is not open is typed.                                       *)
LEMMA ClosedTyped == StateOK(Closed)
<1>1. /\ DOMAIN Closed = Fields /\ Closed.at = "closed" /\ Closed.fd = "none"
      /\ Closed.form = Default /\ Closed.asked = Default /\ Closed.result = Missing
  BY DEF Closed, Fields
<1>2. FileOK(Missing)
  BY DEF FileOK, Missing
<1> QED
  BY <1>1, <1>2, FieldsTyped DEF StateOK, Stages

(* The types hold at first.                                                  *)
LEMMA InitTyped == Init => TInv
<1> SUFFICES ASSUME Init PROVE TInv
  OBVIOUS
<1>1. FileOK(config) /\ FileOK(tmp)
  BY SettingsAssumption DEF Init, FileOK, Missing
<1>2. DOMAIN window = Window /\ \A w \in Window : window[w] = Closed
  BY DEF Init
<1>3. disk \subseteq Disk /\ edits \in 0 .. MaxEdits
  BY SettingsAssumption DEF Init
<1> QED
  BY <1>1, <1>2, <1>3, ClosedTyped DEF TInv

(* A form filled from the file has every field.                              *)
LEMMA LoadTyped ==
    ASSUME TInv, NEW w \in Window, LoadFromCore(w)
    PROVE  TInv'
<1> DEFINE form == ThroughForm(LoadConfigRaw(config))
           status == IF config.kind \in {"missing", "toml"} THEN "none" ELSE "warned"
           new == [Closed EXCEPT !.at = "open", !.form = form, !.status = status]
<1>1. DOMAIN form = Field
  BY FormTyped, ParsedTyped, FieldsTyped DEF LoadConfigRaw
<1> HIDE DEF form, status
<1>2. /\ DOMAIN new = Fields /\ new.at = "open" /\ new.fd = "none"
      /\ new.form = form /\ new.asked = Default /\ new.result = Missing
  BY DEF Closed, Fields
<1>3. Moved(w, new) /\ UNCHANGED <<config, tmp, disk, edits>>
  BY DEF LoadFromCore, form, status
<1> HIDE DEF new
<1>4. FileOK(Missing)
  BY DEF FileOK, Missing
<1>5. StateOK(new)
  BY <1>1, <1>2, <1>4, FieldsTyped DEF StateOK, Stages
<1> QED
  BY <1>3, <1>5, MovedTyped DEF TInv

(* An Apply takes the form over as it is.                                    *)
LEMMA ApplyTyped ==
    ASSUME TInv, NEW w \in Window, OnApply(w)
    PROVE  TInv'
<1> DEFINE new == IF ~Valid(Normalize(window[w].form), disk)
                  THEN [window[w] EXCEPT !.status = "invalid"]
                  ELSE [window[w] EXCEPT !.at = "reading", !.asked = window[w].form,
                                         !.status = "applying",
                                         !.touched = window[w].edited, !.edited = {}]
<1>1. StateOK(window[w])
  BY DEF TInv
<1>2. /\ DOMAIN new = Fields /\ new.at \in {window[w].at, "reading"} /\ new.fd = window[w].fd
      /\ new.form = window[w].form /\ new.asked \in {window[w].asked, window[w].form}
      /\ new.result = window[w].result
  BY <1>1 DEF StateOK, Fields
<1>3. Moved(w, new) /\ UNCHANGED <<config, tmp, disk, edits>>
  BY DEF OnApply
<1> HIDE DEF new
<1>4. StateOK(new)
  BY <1>1, <1>2 DEF StateOK, Stages
<1> QED
  BY <1>3, <1>4, MovedTyped DEF TInv

(* A change in the form replaces the value of a field.                       *)
LEMMA EditTyped ==
    ASSUME TInv, NEW w \in Window, NEW f \in DOMAIN Entered, NEW v, EditField(w, f, v)
    PROVE  TInv'
<1> DEFINE form == [window[w].form EXCEPT ![f] = v]
           new == [window[w] EXCEPT !.form = form, !.edited = @ \cup {f}]
<1>1. StateOK(window[w])
  BY DEF TInv
<1>2. DOMAIN form = Field
  BY <1>1 DEF StateOK
<1>3. Moved(w, new) /\ UNCHANGED <<config, tmp, disk>> /\ edits' \in 0 .. MaxEdits
  BY <1>1, SettingsAssumption DEF EditField, TInv, StateOK, Fields
<1> HIDE DEF form
<1>4. /\ DOMAIN new = Fields /\ new.at = window[w].at /\ new.fd = window[w].fd
      /\ new.form = form /\ new.asked = window[w].asked /\ new.result = window[w].result
  BY <1>1 DEF StateOK, Fields
<1> HIDE DEF new
<1>5. StateOK(new)
  BY <1>1, <1>2, <1>4 DEF StateOK
<1> QED
  BY <1>3, <1>5, MovedTyped DEF TInv

(* The worker moves texts between its result and the two files.              *)
LEMMA WorkerTyped ==
    ASSUME TInv, NEW w \in Window, Worker(w)
    PROVE  TInv'
<1>1. StateOK(window[w]) /\ FileOK(config) /\ FileOK(tmp) /\ FileOK(Missing) /\ FileOK(Partial)
  BY DEF TInv, FileOK, Missing, Partial
<1>2. CASE ReadConfig(w)
  <2> DEFINE doc == IF config = Missing THEN Empty ELSE config
             result == WriteConfigPreserving(doc, window[w].asked)
             new == [window[w] EXCEPT !.at = "opening", !.read = config, !.result = result]
  <2>1. CASE ~Readable(config) /\ config # Missing
    <3>1. Moved(w, Failed(window[w], "unwritten")) /\ UNCHANGED <<config, tmp, disk, edits>>
      BY <1>2, <2>1 DEF ReadConfig
    <3> QED
      BY <1>1, <3>1, FailedTyped, MovedTyped DEF TInv
  <2>2. CASE Readable(config) \/ config = Missing
    <3>1. IsText(doc)
      BY <1>1, <2>2, EmptyIsText DEF Readable, FileOK
    <3>2. FileOK(result)
      <4>1. IsText(result)
        BY <3>1, WrittenIsText
      <4> HIDE DEF result
      <4> QED
        BY <4>1 DEF IsText, FileOK
    <3>3. Moved(w, new) /\ UNCHANGED <<config, tmp, disk, edits>>
      BY <1>2, <2>2 DEF ReadConfig
    <3> HIDE DEF result
    <3>4. /\ DOMAIN new = Fields /\ new.at = "opening" /\ new.fd = window[w].fd
          /\ new.form = window[w].form /\ new.asked = window[w].asked /\ new.result = result
      BY <1>1 DEF StateOK, Fields
    <3> HIDE DEF new
    <3>5. StateOK(new)
      BY <1>1, <3>2, <3>4 DEF StateOK, Stages
    <3> QED
      BY <1>1, <3>3, <3>5, MovedTyped DEF TInv
  <2> QED
    BY <2>1, <2>2
<1>3. CASE OpenTmp(w)
  <2> DEFINE new == [window[w] EXCEPT !.at = "filling", !.fd = "tmp"]
  <2>1. Moved(w, new) /\ tmp' = Partial /\ UNCHANGED <<config, disk, edits>>
    BY <1>3 DEF OpenTmp
  <2>2. /\ DOMAIN new = Fields /\ new.at = "filling" /\ new.fd = "tmp"
        /\ new.form = window[w].form /\ new.asked = window[w].asked
        /\ new.result = window[w].result
    BY <1>1 DEF StateOK, Fields
  <2> HIDE DEF new
  <2>3. StateOK(new)
    BY <1>1, <2>2 DEF StateOK, Stages
  <2> QED
    BY <1>1, <2>1, <2>3, MovedTyped DEF TInv
<1>4. CASE FillTmp(w)
  <2> DEFINE new == [window[w] EXCEPT !.at = "renaming"]
  <2>1. /\ Moved(w, new) /\ UNCHANGED <<disk, edits>>
        /\ config' \in {config, window[w].result} /\ tmp' \in {tmp, window[w].result}
    BY <1>4 DEF FillTmp
  <2>2. /\ DOMAIN new = Fields /\ new.at = "renaming" /\ new.fd = window[w].fd
        /\ new.form = window[w].form /\ new.asked = window[w].asked
        /\ new.result = window[w].result
    BY <1>1 DEF StateOK, Fields
  <2> HIDE DEF new
  <2>3. StateOK(new)
    BY <1>1, <2>2 DEF StateOK, Stages
  <2>4. FileOK(config') /\ FileOK(tmp')
    BY <1>1, <2>1 DEF StateOK
  <2> QED
    BY <2>1, <2>3, <2>4, MovedTyped DEF TInv
<1>5. CASE FillFails(w)
  <2>1. Moved(w, Failed(window[w], "unwritten")) /\ UNCHANGED <<config, tmp, disk, edits>>
    BY <1>5 DEF FillFails
  <2> QED
    BY <1>1, <2>1, FailedTyped, MovedTyped DEF TInv
<1>6. CASE Rename(w) /\ tmp = Missing
  <2>1. Moved(w, Failed(window[w], "unwritten")) /\ UNCHANGED <<config, tmp, disk, edits>>
    BY <1>6 DEF Rename
  <2> QED
    BY <1>1, <2>1, FailedTyped, MovedTyped DEF TInv
<1>7. CASE Rename(w) /\ tmp # Missing
  <2>1. /\ config' = tmp /\ tmp' = Missing /\ UNCHANGED <<disk, edits>>
        /\ window' = [v \in Window |->
               IF v = w THEN [window[w] EXCEPT !.at = "reloading", !.result = Missing,
                                               !.fd = "none", !.read = Missing]
               ELSE [Outdated(tmp, w)[v] EXCEPT !.fd = IF @ = "tmp" THEN "config" ELSE @]]
    BY <1>7 DEF Rename
  <2>2. ASSUME NEW v \in Window PROVE StateOK(window'[v])
    <3>1. StateOK(window[v])
      BY DEF TInv
    <3>2. CASE v = w
      <4> DEFINE new == [window[w] EXCEPT !.at = "reloading", !.result = Missing, !.fd = "none",
                                          !.read = Missing]
      <4>1. /\ DOMAIN new = Fields /\ new.at = "reloading" /\ new.fd = "none"
            /\ new.form = window[w].form /\ new.asked = window[w].asked /\ new.result = Missing
        BY <1>1 DEF StateOK, Fields
      <4>2. window'[v] = new
        BY <2>1, <3>2
      <4> HIDE DEF new
      <4> QED
        BY <1>1, <4>1, <4>2 DEF StateOK, Stages
    <3>3. CASE v # w
      <4> DEFINE old == Outdated(tmp, w)[v]
                 fd == IF old.fd = "tmp" THEN "config" ELSE old.fd
                 new == [old EXCEPT !.fd = fd]
      <4>1. StateOK(old)
        <5>1. \/ old = window[v]
              \/ old = [window[v] EXCEPT !.stale = TRUE, !.overtaken = window[v].at = "reloading"]
          BY DEF Outdated
        <5> QED
          BY <3>1, <5>1 DEF StateOK, Fields
      <4>2. window'[v] = new
        BY <2>1, <3>3, <4>1 DEF StateOK, Fields
      <4> HIDE DEF old
      <4>3. fd \in {"none", "tmp", "config"}
        BY <4>1 DEF StateOK
      <4> HIDE DEF fd
      <4>4. /\ DOMAIN new = Fields /\ new.at = old.at /\ new.fd = fd
            /\ new.form = old.form /\ new.asked = old.asked /\ new.result = old.result
        BY <4>1 DEF StateOK, Fields
      <4> HIDE DEF new
      <4> QED
        BY <4>1, <4>2, <4>3, <4>4 DEF StateOK
    <3> QED
      BY <3>2, <3>3
  <2>3. DOMAIN window' = Window
    BY <2>1
  <2> QED
    BY <1>1, <2>1, <2>2, <2>3 DEF TInv
<1>8. ASSUME Reload(w) \/ ReloadFails(w) PROVE TInv'
  <2>1. PICK message : /\ Moved(w, [Failed(window[w], message) EXCEPT !.edited = window[w].edited])
                       /\ UNCHANGED <<config, tmp, disk, edits>>
    BY <1>8 DEF Reload, ReloadFails, Ended
  <2> DEFINE failed == Failed(window[w], message)
             new == [failed EXCEPT !.edited = window[w].edited]
  <2>2. StateOK(failed)
    BY <1>1, FailedTyped
  <2>3. Moved(w, new)
    BY <2>1
  <2> HIDE DEF failed
  <2>4. StateOK(new)
    BY <2>2 DEF StateOK, Fields
  <2> HIDE DEF new
  <2> QED
    BY <1>1, <2>1, <2>3, <2>4, MovedTyped DEF TInv
<1> QED
  BY <1>2, <1>3, <1>4, <1>5, <1>6, <1>7, <1>8 DEF Worker

(* Every step of any number of windows keeps the types.                      *)
LEMMA StepTyped == TInv /\ [Next]_vars => TInv'
<1> SUFFICES ASSUME TInv, [Next]_vars PROVE TInv'
  OBVIOUS
<1>1. ASSUME NEW w \in Window, LoadFromCore(w) \/ OnApply(w) \/ Worker(w)
      PROVE  TInv'
  BY <1>1, LoadTyped, ApplyTyped, WorkerTyped
<1>2. ASSUME NEW w \in Window, Close(w) PROVE TInv'
  <2>1. Moved(w, Closed) /\ UNCHANGED <<config, tmp, disk, edits>>
    BY <1>2 DEF Close
  <2> QED
    BY <2>1, ClosedTyped, MovedTyped DEF TInv
<1>3. ASSUME NEW w \in Window, NEW f \in DOMAIN Entered, NEW v \in Entered[f], EditField(w, f, v)
      PROVE  TInv'
  BY <1>3, EditTyped
<1>4. ASSUME NEW file \in Documents, EditFile(file) PROVE TInv'
  <2>1. FileOK(file)
    BY SettingsAssumption DEF FileOK
  <2>2. /\ config' = file /\ tmp' = tmp /\ disk' = disk /\ edits' \in 0 .. MaxEdits
        /\ DOMAIN window' = Window
    <3>1. window' = Outdated(file, None)
      BY <1>4 DEF EditFile
    <3>2. DOMAIN window' = Window
      BY <3>1, OutdatedWindows, Zenon
    <3>3. config' = file /\ tmp' = tmp /\ disk' = disk /\ edits' \in 0 .. MaxEdits
      BY <1>4, SettingsAssumption DEF EditFile, TInv
    <3> QED
      BY <3>2, <3>3 DEF TInv
  <2>3. ASSUME NEW w \in Window PROVE StateOK(window'[w])
    <3>1. \/ window'[w] = window[w]
          \/ window'[w] = [window[w] EXCEPT !.stale = TRUE,
                                            !.overtaken = window[w].at = "reloading"]
      BY <1>4 DEF EditFile, Outdated
    <3> QED
      BY <3>1 DEF TInv, StateOK, Fields
  <2> QED
    BY <2>1, <2>2, <2>3 DEF TInv
<1>5. ASSUME \/ \E path \in Volatile : ChangeDisk(path)
             \/ \E c \in Window \cup Late : LoadCall(c)
             \/ \E c \in Late : LateReload(c) \/ LateFails(c)
             \/ StartDaemon \/ StopDaemon \/ UNCHANGED vars
      PROVE  TInv'
  <2>1. UNCHANGED <<config, tmp, window>>
    BY <1>5 DEF ChangeDisk, LoadCall, LateReload, LateFails, StartDaemon, StopDaemon, vars
  <2>2. disk' \subseteq Disk /\ edits' \in 0 .. MaxEdits
    BY <1>5, SettingsAssumption
       DEF ChangeDisk, LoadCall, LateReload, LateFails, StartDaemon, StopDaemon, vars, TInv
  <2> QED
    BY <2>1, <2>2 DEF TInv
<1> QED
  BY <1>1, <1>2, <1>3, <1>4, <1>5 DEF Next

(* A call is in one of its three states.                                     *)
CallTyped(call) == call.at \in {"idle", "sent", "loaded"}

CallsTyped == DOMAIN calls = Window \cup Late /\ \A c \in Window \cup Late : CallTyped(calls[c])

(* A call that is given up is kept, or forgotten.                            *)
LEMMA GivenUpTyped ==
    ASSUME CallsTyped, NEW w \in Window, GivenUp(w)
    PROVE  CallsTyped'
<1>1. CallTyped(Idle) /\ CallTyped(calls[w])
  BY DEF CallTyped, CallsTyped, Idle
<1>2. CASE calls' = [calls EXCEPT ![w] = Idle]
  BY <1>1, <1>2 DEF CallsTyped
<1>3. ASSUME NEW c \in Late, calls' = [calls EXCEPT ![c] = calls[w], ![w] = Idle]
      PROVE  CallsTyped'
  BY <1>1, <1>3 DEF CallsTyped
<1> QED
  BY <1>2, <1>3 DEF GivenUp

(* Calls keep their types.                                                   *)
LEMMA StepCallsTyped == CallsTyped /\ [Next]_vars => CallsTyped'
<1> SUFFICES ASSUME CallsTyped, [Next]_vars PROVE CallsTyped'
  OBVIOUS
<1>1. CallTyped(Idle) /\ CallTyped(Sent)
  BY DEF CallTyped, Idle, Sent
<1>2. ASSUME NEW w \in Window, GivenUp(w) PROVE CallsTyped'
  BY <1>2, GivenUpTyped
<1>3. ASSUME NEW w \in Window, Rename(w) \/ Reload(w) PROVE CallsTyped'
  <2>1. \/ calls' = calls \/ calls' = [calls EXCEPT ![w] = Idle]
        \/ calls' = [calls EXCEPT ![w] = Sent]
    BY <1>3 DEF Rename, Reload
  <2> QED
    BY <1>1, <2>1 DEF CallsTyped
<1>4. ASSUME NEW c \in Window \cup Late, LoadCall(c) PROVE CallsTyped'
  <2> DEFINE call == [at |-> "loaded", cfg |-> Normalize(Parsed(config))]
  <2>1. CallTyped(call)
    BY DEF CallTyped
  <2>2. calls' = [calls EXCEPT ![c] = call]
    BY <1>4 DEF LoadCall
  <2> HIDE DEF call
  <2> QED
    BY <2>1, <2>2 DEF CallsTyped
<1>5. ASSUME NEW c \in Late, LateReload(c) \/ LateFails(c) PROVE CallsTyped'
  <2>1. calls' = [calls EXCEPT ![c] = Idle]
    BY <1>5 DEF LateReload, LateFails
  <2> QED
    BY <1>1, <2>1 DEF CallsTyped
<1>6. ASSUME StopDaemon PROVE CallsTyped'
  <2>1. DOMAIN calls' = DOMAIN calls /\ \A c \in DOMAIN calls : calls'[c] \in {Idle, calls[c]}
    BY <1>6 DEF StopDaemon
  <2> QED
    BY <1>1, <2>1 DEF CallsTyped
<1>7. ASSUME calls' = calls PROVE CallsTyped'
  BY <1>7 DEF CallsTyped
<1> QED
  BY <1>2, <1>3, <1>4, <1>5, <1>6, <1>7
     DEF Next, vars, Worker, LoadFromCore, OnApply, ReadConfig, OpenTmp, FillTmp, FillFails,
         ReloadFails, Close, EditField, EditFile, ChangeDisk, StartDaemon

(* The types are those of the type invariant.                                *)
LEMMA TypesImplied == TInv /\ CallsTyped => TypeOK
<1> SUFFICES ASSUME TInv, CallsTyped PROVE TypeOK
  OBVIOUS
<1>1. \A file \in {config, tmp} \cup {window[w].result : w \in Window} : FileOK(file)
  BY DEF TInv, StateOK
<1>2. \A file \in {config, tmp} \cup {window[w].result : w \in Window} :
          file.kind = "toml" =>
             /\ DOMAIN file.keys = Field
             /\ \A f \in Field : file.keys[f] # None => file.repr[SectionOf[f]] # "absent"
  BY <1>1 DEF FileOK, IsText
<1> QED
  BY <1>2 DEF TInv, StateOK, Stages, CallsTyped, CallTyped, TypeOK

(* ---- values, for one window and texts the form can show ---- *)

PlainDocuments == PlainEntries /\ \A file \in Documents : Plain(file)

(* A configuration that the form gives back as it is, and that leaves only    *)
(* those fields empty that are empty by default.                            *)
ConfigOK(cfg) ==
    /\ DOMAIN cfg = Field /\ cfg = [f \in Field |-> cfg[f]]
    /\ Shown(cfg) /\ \A f \in Field : cfg[f] = None => Default[f] = None

TextOK(file) ==
    IsText(file) /\ ConfigOK(Parsed(file)) /\ \A s \in Section : file.repr[s] # "inline"

(* What an Apply reads: a missing file is an empty one.                      *)
Source(file) == IF file = Missing THEN Empty ELSE file

Writing  == {"opening", "filling", "renaming"}
Working  == Writing \cup {"reading"}
Applying == Working \cup {"reloading"}

(* Unless the file has changed under the form, form and Apply differ from the *)
(* file only where the user has changed something, and what is to be written  *)
(* is made of that file.  Once it is renamed the file reads as the Apply, and *)
(* does so until the next change of the file, whatever the form was made of.  *)
FollowsFile(state, file) ==
    /\ state.at # "closed" => \A f \in Field \ (state.touched \cup state.edited) :
                                 state.form[f] = LoadConfigRaw(file)[f]
    /\ state.at \in Working => \A f \in Field \ state.touched :
                                 state.asked[f] = LoadConfigRaw(file)[f]
    /\ state.at \in Writing => /\ Readable(file) \/ file = Missing
                               /\ state.result = WriteConfigPreserving(Source(file), state.asked)
    /\ state.at = "reloading" => Readable(file) /\ Parsed(file) = state.asked

ValuesOK(state, file, temporary) ==
    /\ DOMAIN state = Fields
    /\ ConfigOK(state.form) /\ ConfigOK(state.asked)
    /\ state.at \in {"closed", "open"} => state.touched = {}
    /\ state.at \in Writing => TextOK(state.result) /\ Parsed(state.result) = state.asked
    /\ state.at = "renaming" => temporary = state.result
    /\ state.at = "filling" => state.fd = "tmp"
    /\ state.at \in Applying => \A f \in Field \ state.edited : state.form[f] = state.asked[f]
    /\ state.stale = TRUE \/ (state.stale = FALSE /\ FollowsFile(state, file))
    /\ state.overtaken = TRUE
          \/ (state.at = "reloading" => Readable(file) /\ Parsed(file) = state.asked)

SourceOK(file) == FileOK(file) /\ (Readable(file) => TextOK(file))

VInv ==
    /\ SourceOK(config)
    /\ DOMAIN window = Window /\ \A w \in Window : ValuesOK(window[w], config, tmp)

(* One field of a configuration is replaced.                                 *)
LEMMA OneReplaced ==
    ASSUME NEW c, DOMAIN c = Field, NEW x \in Field, NEW v
    PROVE  /\ DOMAIN [c EXCEPT ![x] = v] = Field
           /\ [c EXCEPT ![x] = v] = [f \in Field |-> [c EXCEPT ![x] = v][f]]
           /\ \A f \in Field : [c EXCEPT ![x] = v][f] = IF f = x THEN v ELSE c[f]
  OBVIOUS

(* What its widget makes of one value.                                       *)
Widget(f, v) ==
    CASE f \in {"kana_table", "path"}                  -> PathField(v)
      [] f \in {"toggle_keys", "raw_mode_toggle_keys"} -> KeyLines(v)
      [] f = "conversion_trigger_chars"                -> EntryLines(v)
      [] f = "sources"                                 -> SourceRows(v)
      [] f = "timeout_ms"                              -> SpinBox(v, 2000, 0, 60000)
      [] f = "inline_count"                            -> SpinBox(v, 3, 0, 1000000)
      [] OTHER                                         -> v

(* The form is its widgets, a field each.                                    *)
LEMMA FormWidgets ==
    ASSUME NEW c, DOMAIN c = Field
    PROVE  /\ ThroughForm(c) = [f \in Field |-> ThroughForm(c)[f]]
           /\ \A f \in Field : ThroughForm(c)[f] = Widget(f, c[f])
<1> DEFINE v1 == PathField(c.kana_table)
           c1 == [c EXCEPT !.kana_table = v1]
           v2 == PathField(c1.path)
           c2 == [c1 EXCEPT !.path = v2]
           v3 == KeyLines(c2.toggle_keys)
           c3 == [c2 EXCEPT !.toggle_keys = v3]
           v4 == KeyLines(c3.raw_mode_toggle_keys)
           c4 == [c3 EXCEPT !.raw_mode_toggle_keys = v4]
           v5 == EntryLines(c4.conversion_trigger_chars)
           c5 == [c4 EXCEPT !.conversion_trigger_chars = v5]
           v6 == SourceRows(c5.sources)
           c6 == [c5 EXCEPT !.sources = v6]
           v7 == SpinBox(c6.timeout_ms, 2000, 0, 60000)
           c7 == [c6 EXCEPT !.timeout_ms = v7]
           v8 == SpinBox(c7.inline_count, 3, 0, 1000000)
           c8 == [c7 EXCEPT !.inline_count = v8]
<1>1. {"kana_table", "path", "toggle_keys", "raw_mode_toggle_keys", "conversion_trigger_chars",
       "sources", "timeout_ms", "inline_count"} \subseteq Field
  BY DEF Field, SectionOf
<1>2. ThroughForm(c) = c8
  BY DEF ThroughForm
<1>3. v1 = PathField(c["kana_table"])
  OBVIOUS
<1> HIDE DEF v1
<1>4. /\ DOMAIN c1 = Field
       /\ \A f \in Field : c1[f] = IF f = "kana_table" THEN v1 ELSE c[f]
  BY <1>1, OneReplaced
<1> HIDE DEF c1
<1>5. v2 = PathField(c["path"])
  BY <1>1, <1>4
<1> HIDE DEF v2
<1>6. /\ DOMAIN c2 = Field
       /\ \A f \in Field : c2[f] = IF f = "path" THEN v2 ELSE c1[f]
  BY <1>1, OneReplaced, <1>4
<1> HIDE DEF c2
<1>7. v3 = KeyLines(c["toggle_keys"])
  BY <1>1, <1>4, <1>6
<1> HIDE DEF v3
<1>8. /\ DOMAIN c3 = Field
       /\ \A f \in Field : c3[f] = IF f = "toggle_keys" THEN v3 ELSE c2[f]
  BY <1>1, OneReplaced, <1>6
<1> HIDE DEF c3
<1>9. v4 = KeyLines(c["raw_mode_toggle_keys"])
  BY <1>1, <1>4, <1>6, <1>8
<1> HIDE DEF v4
<1>10. /\ DOMAIN c4 = Field
       /\ \A f \in Field : c4[f] = IF f = "raw_mode_toggle_keys" THEN v4 ELSE c3[f]
  BY <1>1, OneReplaced, <1>8
<1> HIDE DEF c4
<1>11. v5 = EntryLines(c["conversion_trigger_chars"])
  BY <1>1, <1>4, <1>6, <1>8, <1>10
<1> HIDE DEF v5
<1>12. /\ DOMAIN c5 = Field
       /\ \A f \in Field : c5[f] = IF f = "conversion_trigger_chars" THEN v5 ELSE c4[f]
  BY <1>1, OneReplaced, <1>10
<1> HIDE DEF c5
<1>13. v6 = SourceRows(c["sources"])
  BY <1>1, <1>4, <1>6, <1>8, <1>10, <1>12
<1> HIDE DEF v6
<1>14. /\ DOMAIN c6 = Field
       /\ \A f \in Field : c6[f] = IF f = "sources" THEN v6 ELSE c5[f]
  BY <1>1, OneReplaced, <1>12
<1> HIDE DEF c6
<1>15. v7 = SpinBox(c["timeout_ms"], 2000, 0, 60000)
  BY <1>1, <1>4, <1>6, <1>8, <1>10, <1>12, <1>14
<1> HIDE DEF v7
<1>16. /\ DOMAIN c7 = Field
       /\ \A f \in Field : c7[f] = IF f = "timeout_ms" THEN v7 ELSE c6[f]
  BY <1>1, OneReplaced, <1>14
<1> HIDE DEF c7
<1>17. v8 = SpinBox(c["inline_count"], 3, 0, 1000000)
  BY <1>1, <1>4, <1>6, <1>8, <1>10, <1>12, <1>14, <1>16
<1> HIDE DEF v8
<1>18. /\ DOMAIN c8 = Field /\ c8 = [f \in Field |-> c8[f]]
       /\ \A f \in Field : c8[f] = IF f = "inline_count" THEN v8 ELSE c7[f]
  BY <1>1, OneReplaced, <1>16
<1> HIDE DEF c8
<1>19. \A f \in Field : c8[f] = Widget(f, c[f])
  BY <1>3, <1>4, <1>5, <1>6, <1>7, <1>8, <1>9, <1>10, <1>11, <1>12,
     <1>13, <1>14, <1>15, <1>16, <1>17, <1>18 DEF Widget
<1> QED
  BY <1>2, <1>18, <1>19

(* The form treats every field by itself.                                    *)
LEMMA FormByField ==
    ASSUME NEW c, NEW d, DOMAIN c = Field, DOMAIN d = Field, NEW f \in Field, c[f] = d[f]
    PROVE  ThroughForm(c)[f] = ThroughForm(d)[f]
  BY FormWidgets

(* A configuration each of whose values the form gives back is given back.    *)
LEMMA ShownByField ==
    ASSUME NEW c, DOMAIN c = Field, c = [f \in Field |-> c[f]],
           \A f \in Field : \E d : DOMAIN d = Field /\ Shown(d) /\ d[f] = c[f]
    PROVE  Shown(c)
<1>1. \A f \in Field : ThroughForm(c)[f] = c[f]
  <2> TAKE f \in Field
  <2>1. PICK d : DOMAIN d = Field /\ Shown(d) /\ d[f] = c[f]
    OBVIOUS
  <2>2. ThroughForm(c)[f] = ThroughForm(d)[f]
    BY <2>1, FormByField
  <2> QED
    BY <2>1, <2>2 DEF Shown
<1>2. [f \in Field |-> ThroughForm(c)[f]] = [f \in Field |-> c[f]]
  BY <1>1
<1> QED
  BY <1>2, FormWidgets DEF Shown

(* The defaults are what a new form shows.                                   *)
LEMMA DefaultOK == PlainDocuments => ConfigOK(Default)
<1> SUFFICES ASSUME PlainDocuments PROVE ConfigOK(Default)
  OBVIOUS
<1>1. Shown(Default)
  BY DEF PlainDocuments, PlainEntries
<1>2. Default = [f \in Field |-> Default[f]]
  BY <1>1, FieldsTyped, FormWidgets DEF Shown
<1> QED
  BY <1>1, <1>2, FieldsTyped DEF ConfigOK

(* What the user enters keeps a configuration in shape.                      *)
LEMMA EnteredOK ==
    ASSUME PlainDocuments, NEW c, ConfigOK(c), NEW f \in DOMAIN Entered, NEW v \in Entered[f]
    PROVE  ConfigOK([c EXCEPT ![f] = v])
<1> DEFINE e == [c EXCEPT ![f] = v]
           d == [Default EXCEPT ![f] = v]
<1>1. f \in Field /\ DOMAIN c = Field /\ DOMAIN Default = Field
  BY FieldsTyped, SettingsAssumption DEF ConfigOK
<1>2. DOMAIN e = Field /\ e = [g \in Field |-> e[g]]
  BY <1>1 DEF ConfigOK
<1>3. e[f] = v /\ \A g \in Field \ {f} : e[g] = c[g]
  BY <1>1
<1>4. DOMAIN d = Field /\ d[f] = v /\ Shown(d) /\ (v = None => Default[f] = None)
  BY <1>1 DEF PlainDocuments, PlainEntries
<1> HIDE DEF e, d
<1>5. \A g \in Field : \E x : DOMAIN x = Field /\ Shown(x) /\ x[g] = e[g]
  BY <1>1, <1>3, <1>4 DEF ConfigOK
<1>6. Shown(e)
  BY <1>2, <1>5, ShownByField
<1>7. \A g \in Field : e[g] = None => Default[g] = None
  BY <1>3, <1>4 DEF ConfigOK
<1> QED
  BY <1>2, <1>6, <1>7 DEF ConfigOK, e

(* An empty text reads as the defaults.                                      *)
LEMMA EmptyTextOK ==
    ASSUME PlainDocuments
    PROVE  TextOK(Empty) /\ Parsed(Empty) = Default
<1>1. \A f \in Field : Empty.keys[f] = None
  BY DEF Empty
<1>2. Parsed(Empty) = [f \in Field |-> Default[f]]
  BY <1>1 DEF Parsed
<1>3. Default = [f \in Field |-> Default[f]]
  BY DefaultOK DEF ConfigOK
<1> QED
  BY <1>2, <1>3, EmptyIsText, DefaultOK DEF TextOK

(* A document the user's editor puts in place.                               *)
LEMMA DocumentOK ==
    ASSUME PlainDocuments, NEW file \in Documents
    PROVE  SourceOK(file)
<1>1. FileOK(file)
  BY SettingsAssumption DEF FileOK
<1>2. ASSUME Readable(file) PROVE TextOK(file)
  <2>1. IsText(file)
    BY <1>1, <1>2 DEF FileOK, Readable
  <2>2. Shown(Parsed(file)) /\ \A s \in Section : file.repr[s] # "inline"
    BY <2>1 DEF PlainDocuments, Plain
  <2>3. \A f \in Field : Parsed(file)[f] = None => Default[f] = None
    BY DEF Parsed
  <2> QED
    BY <2>1, <2>2, <2>3, ParsedTyped DEF TextOK, ConfigOK
<1> QED
  BY <1>1, <1>2 DEF SourceOK

(* What is written reads back as what was asked for, and is a text of tables. *)
LEMMA WrittenReadsBack ==
    ASSUME NEW doc, TextOK(doc), NEW new, ConfigOK(new)
    PROVE  /\ TextOK(WriteConfigPreserving(doc, new))
           /\ Parsed(WriteConfigPreserving(doc, new)) = new
           /\ \A f \in Field : new[f] = Parsed(doc)[f] =>
                  WriteConfigPreserving(doc, new).keys[f] = doc.keys[f]
<1> DEFINE out == WriteConfigPreserving(doc, new)
<1>1. out.repr = ReprAfter(doc, new) /\ out.keys = KeysAfter(doc, new) /\ IsText(out)
  BY WrittenParts, WrittenIsText DEF TextOK
<1> HIDE DEF out
<1>2. \A s \in Section : doc.repr[s] \in {"absent", "table"}
  BY DEF TextOK, IsText
<1>3. \A f \in Field : SectionOf[f] \in Section
  BY FieldsTyped
<1>4. \A s \in Section : out.repr[s] # "inline"
  BY <1>1, <1>2 DEF ReprAfter
<1>5. \A f \in Field : Makes(doc, new, SectionOf[f]) => doc.keys[f] = None
  BY <1>2, <1>3 DEF Makes, TextOK, IsText
<1>6. \A f \in Field : new[f] = Parsed(doc)[f] => out.keys[f] = doc.keys[f]
  BY <1>1, <1>5 DEF KeysAfter, Puts, Drops
<1>7. \A f \in Field : Parsed(out)[f] = new[f]
  <2> TAKE f \in Field
  <2>1. Parsed(out)[f] = IF out.keys[f] = None THEN Default[f] ELSE out.keys[f]
    BY DEF Parsed
  <2>2. Parsed(doc)[f] = IF doc.keys[f] = None THEN Default[f] ELSE doc.keys[f]
    BY DEF Parsed
  <2>3. CASE new[f] = Parsed(doc)[f]
    BY <1>6, <2>1, <2>2, <2>3
  <2>4. CASE new[f] # Parsed(doc)[f] /\ new[f] # None
    <3>1. out.keys[f] = new[f]
      BY <1>1, <2>4 DEF KeysAfter, Puts
    <3> QED
      BY <2>1, <2>4, <3>1
  <2>5. CASE new[f] # Parsed(doc)[f] /\ new[f] = None
    <3>1. Default[f] = None /\ doc.keys[f] # None
      BY <2>2, <2>5 DEF ConfigOK
    <3>2. doc.repr[SectionOf[f]] = "table"
      BY <1>2, <1>3, <3>1 DEF TextOK, IsText
    <3>3. out.keys[f] = None
      BY <1>1, <2>5, <3>2 DEF KeysAfter, Puts, Drops
    <3> QED
      BY <2>1, <2>5, <3>1, <3>3
  <2> QED
    BY <2>3, <2>4, <2>5
<1>8. Parsed(out) = new
  <2>1. Parsed(out) = [f \in Field |-> Parsed(out)[f]] /\ new = [f \in Field |-> new[f]]
    BY ParsedTyped DEF ConfigOK
  <2>2. [f \in Field |-> Parsed(out)[f]] = [f \in Field |-> new[f]]
    BY <1>7
  <2> QED
    BY <2>1, <2>2
<1>9. TextOK(out)
  BY <1>1, <1>4, <1>8 DEF TextOK
<1> QED
  BY <1>6, <1>8, <1>9 DEF out

(* What the form starts from, and what an Apply starts from, agree.          *)
LEMMA BaseOK ==
    ASSUME PlainDocuments, NEW file, SourceOK(file)
    PROVE  /\ ConfigOK(LoadConfigRaw(file))
           /\ Readable(file) \/ file = Missing =>
                  TextOK(Source(file)) /\ Parsed(Source(file)) = LoadConfigRaw(file)
<1>1. CASE Readable(file)
  <2>1. file # Missing
    BY <1>1 DEF Readable, Missing
  <2> QED
    BY <1>1, <2>1 DEF SourceOK, TextOK, Source, LoadConfigRaw
<1>2. CASE ~Readable(file)
  BY <1>2, DefaultOK, EmptyTextOK DEF Source, LoadConfigRaw
<1> QED
  BY <1>1, <1>2

(* A step of the one window there is keeps the values if its new state does.  *)
LEMMA MovedValues ==
    ASSUME VInv, OneWindow, NEW w \in Window, NEW state, Moved(w, state),
           SourceOK(config'), ValuesOK(state, config', tmp')
    PROVE  VInv'
<1>1. DOMAIN window' = Window /\ window'[w] = state
  BY DEF VInv, Moved
<1>2. \A v \in Window : window'[v] = state
  BY <1>1 DEF OneWindow
<1> QED
  BY <1>1, <1>2 DEF VInv

(* A failed Apply leaves what it had asked for among the edited fields.       *)
LEMMA FailedValues ==
    ASSUME PlainDocuments, NEW state, NEW message, NEW file, NEW temporary, NEW temporary2,
           ValuesOK(state, file, temporary), state.at # "closed"
    PROVE  ValuesOK(Failed(state, message), file, temporary2)
<1> DEFINE d == Failed(state, message)
<1>1. /\ DOMAIN d = Fields /\ d.at = "open" /\ d.form = state.form /\ d.asked = Default
      /\ d.touched = {} /\ d.edited = state.edited \cup state.touched /\ d.stale = state.stale
  BY DEF ValuesOK, Fields, Failed
<1> HIDE DEF d
<1>2. \A f \in Field \ (d.touched \cup d.edited) : f \in Field \ (state.touched \cup state.edited)
  BY <1>1
<1>3. FollowsFile(state, file) => FollowsFile(d, file)
  BY <1>1, <1>2 DEF FollowsFile, Working, Writing
<1>4. ValuesOK(d, file, temporary2)
  BY <1>1, <1>3, DefaultOK DEF ValuesOK, Applying, Working, Writing
<1> QED
  BY <1>4 DEF d

(* A window that is not open shows the defaults.                             *)
LEMMA ClosedValues ==
    ASSUME PlainDocuments, NEW file, NEW temporary
    PROVE  ValuesOK(Closed, file, temporary)
<1>1. /\ DOMAIN Closed = Fields /\ Closed.at = "closed" /\ Closed.form = Default
      /\ Closed.asked = Default /\ Closed.touched = {} /\ Closed.stale = FALSE
  BY DEF Closed, Fields
<1> QED
  BY <1>1, DefaultOK DEF ValuesOK, FollowsFile, Applying, Working, Writing

(* The values are related at first.                                          *)
LEMMA InitValues == PlainDocuments /\ Init => VInv
<1> SUFFICES ASSUME PlainDocuments, Init PROVE VInv
  OBVIOUS
<1>1. SourceOK(config)
  BY DocumentOK DEF Init
<1>2. DOMAIN window = Window /\ \A w \in Window : window[w] = Closed
  BY DEF Init
<1> QED
  BY <1>1, <1>2, ClosedValues DEF VInv

(* A form shows the file it is filled from.                                  *)
LEMMA LoadValues ==
    ASSUME PlainDocuments, VInv, OneWindow, NEW w \in Window, LoadFromCore(w)
    PROVE  VInv'
<1> DEFINE form == ThroughForm(LoadConfigRaw(config))
           status == IF config.kind \in {"missing", "toml"} THEN "none" ELSE "warned"
           new == [Closed EXCEPT !.at = "open", !.form = form, !.status = status]
<1>1. ConfigOK(LoadConfigRaw(config)) /\ form = LoadConfigRaw(config)
  BY BaseOK DEF VInv, ConfigOK, Shown
<1>2. Moved(w, new) /\ UNCHANGED <<config, tmp>>
  BY DEF LoadFromCore
<1> HIDE DEF form, status
<1>3. /\ DOMAIN new = Fields /\ new.at = "open" /\ new.form = form /\ new.asked = Default
      /\ new.touched = {} /\ new.stale = FALSE
  BY DEF Closed, Fields
<1> HIDE DEF new
<1>4. FollowsFile(new, config)
  BY <1>1, <1>3 DEF FollowsFile, Working, Writing
<1>5. ValuesOK(new, config, tmp)
  BY <1>1, <1>3, <1>4, DefaultOK DEF ValuesOK, Applying, Working, Writing
<1> QED
  BY <1>2, <1>5, MovedValues DEF VInv

(* A change makes the form differ in an edited field only.                   *)
LEMMA EditValues ==
    ASSUME PlainDocuments, VInv, OneWindow, NEW w \in Window,
           NEW f \in DOMAIN Entered, NEW v \in Entered[f], EditField(w, f, v)
    PROVE  VInv'
<1> DEFINE old == window[w]
           form == [old.form EXCEPT ![f] = v]
           new == [old EXCEPT !.form = form, !.edited = @ \cup {f}]
<1>1. ValuesOK(old, config, tmp) /\ ConfigOK(old.form) /\ DOMAIN old = Fields
  BY DEF VInv, ValuesOK
<1>2. ConfigOK(form)
  BY <1>1, EnteredOK
<1>3. \A g \in Field \ {f} : form[g] = old.form[g]
  BY <1>1 DEF ConfigOK
<1>4. Moved(w, new) /\ UNCHANGED <<config, tmp>>
  BY <1>1 DEF EditField, Fields
<1> HIDE DEF form
<1>5. /\ DOMAIN new = Fields /\ new.at = old.at /\ new.form = form /\ new.asked = old.asked
      /\ new.result = old.result /\ new.fd = old.fd /\ new.touched = old.touched
      /\ new.edited = old.edited \cup {f} /\ new.stale = old.stale
      /\ new.overtaken = old.overtaken
  BY <1>1 DEF Fields
<1> HIDE DEF new, old
<1>6. FollowsFile(old, config) => FollowsFile(new, config)
  BY <1>3, <1>5 DEF FollowsFile
<1>7. ValuesOK(new, config, tmp)
  BY <1>1, <1>2, <1>3, <1>5, <1>6 DEF ValuesOK
<1> QED
  BY <1>4, <1>7, MovedValues DEF VInv

(* An Apply asks for what the form shows.                                    *)
LEMMA ApplyValues ==
    ASSUME PlainDocuments, VInv, OneWindow, NEW w \in Window, OnApply(w)
    PROVE  VInv'
<1> DEFINE old == window[w]
           failed == [old EXCEPT !.status = "invalid"]
           new == [old EXCEPT !.at = "reading", !.asked = old.form, !.status = "applying",
                              !.touched = old.edited, !.edited = {}]
<1>1. ValuesOK(old, config, tmp) /\ DOMAIN old = Fields /\ old.at = "open" /\ old.touched = {}
  BY DEF VInv, ValuesOK, OnApply
<1>2. (Moved(w, failed) \/ Moved(w, new)) /\ UNCHANGED <<config, tmp>>
  BY DEF OnApply
<1>3. /\ DOMAIN failed = Fields /\ failed.at = old.at /\ failed.form = old.form
      /\ failed.asked = old.asked /\ failed.result = old.result /\ failed.fd = old.fd
      /\ failed.touched = old.touched /\ failed.edited = old.edited /\ failed.stale = old.stale
  BY <1>1 DEF Fields
<1>4. /\ DOMAIN new = Fields /\ new.at = "reading" /\ new.form = old.form
      /\ new.asked = old.form /\ new.touched = old.edited /\ new.edited = {}
      /\ new.stale = old.stale
  BY <1>1 DEF Fields
<1> HIDE DEF failed, new, old
<1>5. ValuesOK(failed, config, tmp)
  BY <1>1, <1>3 DEF ValuesOK, FollowsFile
<1>6. FollowsFile(old, config) => FollowsFile(new, config)
  BY <1>1, <1>4 DEF FollowsFile, Working, Writing
<1>7. ValuesOK(new, config, tmp)
  BY <1>1, <1>4, <1>6 DEF ValuesOK, Applying, Working, Writing
<1> QED
  BY <1>2, <1>5, <1>7, MovedValues DEF VInv

(* What is to be written is made of the file as it is then.                  *)
LEMMA ReadValues ==
    ASSUME PlainDocuments, VInv, OneWindow, NEW w \in Window, ReadConfig(w)
    PROVE  VInv'
<1> DEFINE old == window[w]
           result == WriteConfigPreserving(Source(config), old.asked)
           new == [old EXCEPT !.at = "opening", !.read = config, !.result = result]
<1>1. ValuesOK(old, config, tmp) /\ DOMAIN old = Fields /\ old.at = "reading"
  BY DEF VInv, ValuesOK, ReadConfig
<1>2. CASE ~Readable(config) /\ config # Missing
  <2>1. Moved(w, Failed(old, "unwritten")) /\ UNCHANGED <<config, tmp>>
    BY <1>2 DEF ReadConfig
  <2> HIDE DEF old
  <2> QED
    BY <1>1, <2>1, FailedValues, MovedValues DEF VInv
<1>3. CASE Readable(config) \/ config = Missing
  <2>1. TextOK(Source(config))
    BY <1>3, BaseOK DEF VInv
  <2>2. TextOK(result) /\ Parsed(result) = old.asked
    BY <1>1, <2>1, WrittenReadsBack DEF ValuesOK
  <2>3. Moved(w, new) /\ UNCHANGED <<config, tmp>>
    BY <1>3 DEF ReadConfig, Source
  <2>4. result = WriteConfigPreserving(Source(config), old.asked)
    OBVIOUS
  <2> HIDE DEF result
  <2>5. /\ DOMAIN new = Fields /\ new.at = "opening" /\ new.form = old.form
        /\ new.asked = old.asked /\ new.result = result /\ new.touched = old.touched
        /\ new.edited = old.edited /\ new.stale = old.stale
    BY <1>1 DEF Fields
  <2> HIDE DEF new, old
  <2>6. FollowsFile(old, config) => FollowsFile(new, config)
    BY <1>1, <1>3, <2>4, <2>5 DEF FollowsFile, Working, Writing
  <2>7. ValuesOK(new, config, tmp)
    BY <1>1, <2>2, <2>5, <2>6 DEF ValuesOK, Applying, Working, Writing
  <2> QED
    BY <2>3, <2>7, MovedValues DEF VInv
<1> QED
  BY <1>2, <1>3

(* What is to be renamed is what was to be written.                          *)
LEMMA WriteValues ==
    ASSUME PlainDocuments, VInv, OneWindow, NEW w \in Window,
           OpenTmp(w) \/ FillTmp(w) \/ FillFails(w)
    PROVE  VInv'
<1> DEFINE old == window[w]
<1>1. ValuesOK(old, config, tmp) /\ DOMAIN old = Fields
  BY DEF VInv, ValuesOK
<1>2. CASE OpenTmp(w)
  <2> DEFINE new == [old EXCEPT !.at = "filling", !.fd = "tmp"]
  <2>1. old.at = "opening" /\ Moved(w, new) /\ config' = config
    BY <1>2 DEF OpenTmp
  <2>2. /\ DOMAIN new = Fields /\ new.at = "filling" /\ new.form = old.form /\ new.fd = "tmp"
        /\ new.asked = old.asked /\ new.result = old.result /\ new.touched = old.touched
        /\ new.edited = old.edited /\ new.stale = old.stale
    BY <1>1 DEF Fields
  <2> HIDE DEF new, old
  <2>3. FollowsFile(old, config) => FollowsFile(new, config)
    BY <2>1, <2>2 DEF FollowsFile, Working, Writing
  <2>4. ValuesOK(new, config', tmp')
    BY <1>1, <2>1, <2>2, <2>3 DEF ValuesOK, Applying, Working, Writing
  <2> QED
    BY <2>1, <2>4, MovedValues DEF VInv
<1>3. CASE FillTmp(w)
  <2> DEFINE new == [old EXCEPT !.at = "renaming"]
  <2>1. old.at = "filling" /\ Moved(w, new) /\ config' = config /\ tmp' = old.result
    BY <1>1, <1>3 DEF FillTmp, ValuesOK
  <2>2. /\ DOMAIN new = Fields /\ new.at = "renaming" /\ new.form = old.form
        /\ new.asked = old.asked /\ new.result = old.result /\ new.touched = old.touched
        /\ new.edited = old.edited /\ new.stale = old.stale
    BY <1>1 DEF Fields
  <2> HIDE DEF new, old
  <2>3. FollowsFile(old, config) => FollowsFile(new, config)
    BY <2>1, <2>2 DEF FollowsFile, Working, Writing
  <2>4. ValuesOK(new, config', tmp')
    BY <1>1, <2>1, <2>2, <2>3 DEF ValuesOK, Applying, Working, Writing
  <2> QED
    BY <2>1, <2>4, MovedValues DEF VInv
<1>4. CASE FillFails(w)
  <2>1. old.at = "filling" /\ Moved(w, Failed(old, "unwritten")) /\ UNCHANGED <<config, tmp>>
    BY <1>4 DEF FillFails
  <2> HIDE DEF old
  <2> QED
    BY <1>1, <2>1, FailedValues, MovedValues DEF VInv
<1> QED
  BY <1>2, <1>3, <1>4

(* The renamed file reads as the Apply asked, and so the form follows it.     *)
LEMMA RenameValues ==
    ASSUME PlainDocuments, VInv, OneWindow, NEW w \in Window, Rename(w)
    PROVE  VInv'
<1> DEFINE old == window[w]
           new == [old EXCEPT !.at = "reloading", !.result = Missing, !.fd = "none",
                              !.read = Missing]
<1>1. ValuesOK(old, config, tmp) /\ DOMAIN old = Fields /\ old.at = "renaming"
  BY DEF VInv, ValuesOK, Rename
<1>2. TextOK(tmp) /\ Parsed(tmp) = old.asked
  BY <1>1 DEF ValuesOK, Writing
<1>3. Readable(tmp) /\ SourceOK(tmp) /\ tmp # Missing
  BY <1>2 DEF TextOK, IsText, Readable, SourceOK, FileOK, Missing
<1>4. config' = tmp
  BY <1>3 DEF Rename
<1>5. DOMAIN window' = Window /\ window'[w] = new
  BY <1>3 DEF Rename
<1>6. /\ DOMAIN new = Fields /\ new.at = "reloading" /\ new.form = old.form
      /\ new.asked = old.asked /\ new.touched = old.touched /\ new.edited = old.edited
      /\ new.stale = old.stale
  BY <1>1 DEF Fields
<1> HIDE DEF new, old
<1>7. LoadConfigRaw(tmp) = old.asked
  BY <1>2, <1>3 DEF LoadConfigRaw
<1>8. \A f \in Field \ old.edited : old.form[f] = old.asked[f]
  BY <1>1 DEF ValuesOK, Applying, Working, Writing
<1>9. FollowsFile(new, tmp)
  BY <1>2, <1>3, <1>6, <1>7, <1>8 DEF FollowsFile, Working, Writing
<1>10. ValuesOK(new, config', tmp')
  BY <1>1, <1>2, <1>3, <1>4, <1>6, <1>8, <1>9 DEF ValuesOK, Applying, Working, Writing
<1>11. \A v \in Window : window'[v] = new
  BY <1>5 DEF OneWindow
<1> QED
  BY <1>3, <1>4, <1>5, <1>10, <1>11 DEF VInv

(* Once the Apply ends, the form shows the file but for what was edited       *)
(* since.                                                                    *)
LEMMA ReloadValues ==
    ASSUME PlainDocuments, VInv, OneWindow, NEW w \in Window, Reload(w) \/ ReloadFails(w)
    PROVE  VInv'
<1> DEFINE old == window[w]
<1>1. ValuesOK(old, config, tmp) /\ DOMAIN old = Fields /\ old.at = "reloading"
  BY DEF VInv, ValuesOK, Reload, ReloadFails
<1>2. PICK message : /\ Moved(w, [Failed(old, message) EXCEPT !.edited = old.edited])
                     /\ UNCHANGED <<config, tmp>>
  BY DEF Reload, ReloadFails, Ended
<1> DEFINE new == [Failed(old, message) EXCEPT !.edited = old.edited]
<1>3. /\ DOMAIN new = Fields /\ new.at = "open" /\ new.form = old.form /\ new.asked = Default
      /\ new.touched = {} /\ new.edited = old.edited /\ new.stale = old.stale
  BY <1>1 DEF Failed, Fields
<1>4. Moved(w, new)
  BY <1>2
<1> HIDE DEF new, old
<1>5. \A f \in Field \ old.edited : old.form[f] = old.asked[f]
  BY <1>1 DEF ValuesOK, Applying
<1>6. FollowsFile(old, config) => FollowsFile(new, config)
  BY <1>1, <1>3, <1>5 DEF FollowsFile, LoadConfigRaw, Working, Writing
<1>7. ValuesOK(new, config, tmp)
  BY <1>1, <1>3, <1>6, DefaultOK DEF ValuesOK, Applying, Working, Writing
<1> QED
  BY <1>2, <1>4, <1>7, MovedValues DEF VInv

(* The user's editor puts a file in place and outdates the open forms.        *)
LEMMA DocumentValues ==
    ASSUME PlainDocuments, VInv, NEW file \in Documents, EditFile(file)
    PROVE  VInv'
<1>1. SourceOK(file) /\ config' = file /\ tmp' = tmp /\ file # config
  BY DocumentOK DEF EditFile
<1>2. window' = Outdated(file, None) /\ DOMAIN window' = Window
  <2>1. window' = Outdated(file, None)
    BY DEF EditFile
  <2> QED
    BY <2>1, OutdatedWindows, Zenon
<1>3. ASSUME NEW w \in Window PROVE ValuesOK(window'[w], file, tmp)
  <2> DEFINE old == window[w]
             new == window'[w]
  <2>1. ValuesOK(old, config, tmp) /\ DOMAIN old = Fields
    BY DEF VInv, ValuesOK
  <2>2. \/ new = old /\ old.at = "closed"
        \/ /\ DOMAIN new = Fields /\ new.at = old.at /\ new.form = old.form
           /\ new.asked = old.asked /\ new.result = old.result /\ new.fd = old.fd
           /\ new.touched = old.touched /\ new.edited = old.edited /\ new.stale = TRUE
           /\ old.at = "reloading" => new.overtaken = TRUE
    BY <2>1, EditMarks
  <2> HIDE DEF new, old
  <2>3. ASSUME new = old, old.at = "closed" PROVE ValuesOK(new, file, tmp)
    BY <2>1, <2>3 DEF ValuesOK, FollowsFile, Working, Writing
  <2>4. ASSUME ~(new = old /\ old.at = "closed") PROVE ValuesOK(new, file, tmp)
    BY <2>1, <2>2, <2>4 DEF ValuesOK
  <2>5. ValuesOK(new, file, tmp)
    BY <2>3, <2>4
  <2> QED
    BY <2>5 DEF new
<1> QED
  BY <1>1, <1>2, <1>3 DEF VInv

(* Every step keeps form, Apply and file related.                            *)
LEMMA StepValues ==
    ASSUME PlainDocuments, VInv, OneWindow, [Next]_vars
    PROVE  VInv'
<1>1. ASSUME NEW w \in Window, LoadFromCore(w) \/ OnApply(w) \/ Worker(w) PROVE VInv'
  BY <1>1, LoadValues, ApplyValues, ReadValues, WriteValues, RenameValues, ReloadValues DEF Worker
<1>2. ASSUME NEW w \in Window, Close(w) PROVE VInv'
  BY <1>2, ClosedValues, MovedValues DEF Close, VInv
<1>3. ASSUME NEW w \in Window, NEW f \in DOMAIN Entered, NEW v \in Entered[f], EditField(w, f, v)
      PROVE  VInv'
  BY <1>3, EditValues
<1>4. ASSUME NEW file \in Documents, EditFile(file) PROVE VInv'
  BY <1>4, DocumentValues
<1>5. ASSUME \/ \E path \in Volatile : ChangeDisk(path)
             \/ \E c \in Window \cup Late : LoadCall(c)
             \/ \E c \in Late : LateReload(c) \/ LateFails(c)
             \/ StartDaemon \/ StopDaemon \/ UNCHANGED vars
      PROVE  VInv'
  <2>1. UNCHANGED <<config, tmp, window>>
    BY <1>5 DEF ChangeDisk, LoadCall, LateReload, LateFails, StartDaemon, StopDaemon, vars
  <2> QED
    BY <2>1 DEF VInv
<1> QED
  BY <1>1, <1>2, <1>3, <1>4, <1>5 DEF Next

(* ---- what an Apply does, from the values ---- *)

(* A step that takes a window from "renaming" to "reloading" renames.         *)
LEMMA OnlyRenames ==
    ASSUME VInv, OneWindow, [Next]_vars, NEW w \in Window,
           window[w].at = "renaming", window'[w].at = "reloading"
    PROVE  Rename(w) /\ tmp # Missing
<1> DEFINE old == window[w]
<1>1. DOMAIN window = Window /\ DOMAIN old = Fields
  BY DEF VInv, ValuesOK
<1>2. \A v \in Window : v = w
  BY DEF OneWindow
<1>3. ~(LoadFromCore(w) \/ OnApply(w) \/ ReadConfig(w) \/ OpenTmp(w) \/ FillTmp(w)
        \/ FillFails(w) \/ Reload(w) \/ ReloadFails(w))
  BY DEF LoadFromCore, OnApply, ReadConfig, OpenTmp, FillTmp, FillFails, Reload, ReloadFails
<1>4. ~Close(w)
  BY <1>1 DEF Close, Moved, Closed
<1>5. ASSUME NEW f \in DOMAIN Entered, NEW v \in Entered[f], EditField(w, f, v) PROVE FALSE
  BY <1>1, <1>5 DEF EditField, Moved, Fields
<1>6. ASSUME NEW file \in Documents, EditFile(file) PROVE FALSE
  BY <1>1, <1>6, EditMarks
<1>7. ~\E path \in Volatile : ChangeDisk(path)
  BY DEF ChangeDisk
<1>8. /\ ~(StartDaemon \/ StopDaemon \/ UNCHANGED vars)
      /\ \A c : ~(LoadCall(c) \/ LateReload(c) \/ LateFails(c))
  BY DEF LoadCall, LateReload, LateFails, StartDaemon, StopDaemon, vars
<1>9. Rename(w)
  BY <1>2, <1>3, <1>4, <1>5, <1>6, <1>7, <1>8 DEF Next, Worker
<1>10. ASSUME tmp = Missing PROVE FALSE
  <2>1. window'[w] = Failed(old, "unwritten")
    BY <1>1, <1>9, <1>10 DEF Rename, Moved
  <2>2. Failed(old, "unwritten").at = "open"
    BY <1>1, FailedOpen
  <2> QED
    BY <2>1, <2>2
<1> QED
  BY <1>9, <1>10

(* The step that renames leaves the keys of untouched fields as they were.   *)
LEMMA StepKeepsUntouched ==
    ASSUME PlainDocuments, VInv, OneWindow, [Next]_vars, NEW w \in Window,
           window[w].at = "renaming", window'[w].at = "reloading", ~window[w].stale
    PROVE  LET before == IF Readable(config) THEN config ELSE Empty
           IN  \A f \in Field \ window[w].touched : config'.keys[f] = before.keys[f]
<1> DEFINE old == window[w]
           before == IF Readable(config) THEN config ELSE Empty
<1>1. Rename(w) /\ tmp # Missing
  BY OnlyRenames
<1>2. ValuesOK(old, config, tmp)
  BY DEF VInv
<1>3. config' = tmp /\ tmp = old.result /\ ConfigOK(old.asked)
  BY <1>1, <1>2 DEF Rename, ValuesOK
<1>4. FollowsFile(old, config)
  BY <1>2 DEF ValuesOK
<1>5. /\ Readable(config) \/ config = Missing
      /\ old.result = WriteConfigPreserving(Source(config), old.asked)
      /\ \A f \in Field \ old.touched : old.asked[f] = LoadConfigRaw(config)[f]
  BY <1>4 DEF FollowsFile, Working, Writing
<1>6. before = Source(config)
  BY <1>5 DEF Source, Readable, Missing
<1>7. TextOK(Source(config)) /\ Parsed(Source(config)) = LoadConfigRaw(config)
  BY <1>5, BaseOK DEF VInv
<1> HIDE DEF before, old
<1>8. \A f \in Field : old.asked[f] = Parsed(Source(config))[f] =>
          WriteConfigPreserving(Source(config), old.asked).keys[f] = Source(config).keys[f]
  BY <1>3, <1>7, WrittenReadsBack
<1>9. \A f \in Field \ old.touched : config'.keys[f] = before.keys[f]
  BY <1>3, <1>5, <1>6, <1>7, <1>8
<1> QED
  BY <1>9 DEF before, old

(* Only the daemon's answer to a reload makes an Apply "applied".             *)
LEMMA OnlyReloads ==
    ASSUME VInv, OneWindow, [Next]_vars, NEW w \in Window,
           window[w].status = "applying", window'[w].status = "applied"
    PROVE  Reload(w)
<1> DEFINE old == window[w]
<1>1. DOMAIN window = Window /\ DOMAIN old = Fields
  BY DEF VInv, ValuesOK
<1>2. \A v \in Window : v = w
  BY DEF OneWindow
<1>3. \A message : Failed(old, message).status = message
  BY <1>1 DEF Failed, Fields
<1>4. ~(LoadFromCore(w) \/ Close(w))
  <2> DEFINE form == ThroughForm(LoadConfigRaw(config))
             status == IF config.kind \in {"missing", "toml"} THEN "none" ELSE "warned"
             new == [Closed EXCEPT !.at = "open", !.form = form, !.status = status]
  <2>1. LoadFromCore(w) => window'[w] = new
    BY <1>1 DEF LoadFromCore, Moved
  <2>2. status # "applied"
    OBVIOUS
  <2> HIDE DEF form, status
  <2>3. new.status = status
    BY DEF Closed
  <2> HIDE DEF new
  <2>4. ~LoadFromCore(w)
    BY <2>1, <2>2, <2>3
  <2>5. ~Close(w)
    BY <1>1 DEF Close, Moved, Closed
  <2> QED
    BY <2>4, <2>5
<1>5. ~OnApply(w)
  BY <1>1 DEF OnApply, Moved, Fields
<1>6. ~(OpenTmp(w) \/ FillTmp(w))
  BY <1>1 DEF OpenTmp, FillTmp, Moved, Fields
<1>7. ~FillFails(w)
  BY <1>1, <1>3 DEF FillFails, Moved
<1>8. ~ReadConfig(w)
  BY <1>1, <1>3 DEF ReadConfig, Moved, Fields
<1>9. ~Rename(w)
  BY <1>1, <1>3 DEF Rename, Moved, Fields
<1>10. \A message : [Failed(old, message) EXCEPT !.edited = old.edited].status = message
  BY <1>1 DEF Failed, Fields
<1>11. ~ReloadFails(w)
  BY <1>1, <1>10 DEF ReloadFails, Ended, Moved
<1>12. ASSUME NEW f \in DOMAIN Entered, NEW v \in Entered[f], EditField(w, f, v) PROVE FALSE
  BY <1>1, <1>12 DEF EditField, Moved, Fields
<1>13. ASSUME NEW file \in Documents, EditFile(file) PROVE FALSE
  BY <1>1, <1>13, EditMarks
<1>14. /\ ~((\E path \in Volatile : ChangeDisk(path)) \/ StartDaemon \/ StopDaemon)
       /\ \A c : ~(LoadCall(c) \/ LateReload(c) \/ LateFails(c))
       /\ ~UNCHANGED vars
  BY DEF ChangeDisk, LoadCall, LateReload, LateFails, StartDaemon, StopDaemon, vars
<1> QED
  BY <1>2, <1>4, <1>5, <1>6, <1>7, <1>8, <1>9, <1>11, <1>12, <1>13, <1>14 DEF Next, Worker

(* ---- what the daemon has loaded for an Apply ---- *)

(* What the daemon has loaded is what the Apply asked for, unless the file     *)
(* has changed since the rename.                                            *)
LoadedOK(state, call) ==
    state.at = "reloading" /\ call.at = "loaded"
        => state.overtaken = TRUE \/ call.cfg = Normalize(state.asked)

CallsInv == DOMAIN calls = Window \cup Late /\ \A w \in Window : LoadedOK(window[w], calls[w])

(* Once given up, a call is no longer the window's.                          *)
LEMMA GivenUpIdle ==
    ASSUME CallsInv, NEW w \in Window, GivenUp(w)
    PROVE  DOMAIN calls' = Window \cup Late /\ calls'[w] = Idle
<1>1. CASE calls' = [calls EXCEPT ![w] = Idle]
  BY <1>1 DEF CallsInv
<1>2. ASSUME NEW c \in Late, calls' = [calls EXCEPT ![c] = calls[w], ![w] = Idle]
      PROVE  DOMAIN calls' = Window \cup Late /\ calls'[w] = Idle
  BY <1>2 DEF CallsInv
<1> QED
  BY <1>1, <1>2 DEF GivenUp

(* A step that leaves the window without a loaded call, or not waiting for    *)
(* one, keeps the invariant.                                                *)
LEMMA NotLoaded ==
    ASSUME OneWindow, NEW w \in Window, DOMAIN calls' = Window \cup Late,
           window'[w].at # "reloading" \/ calls'[w].at # "loaded"
    PROVE  CallsInv'
  BY DEF OneWindow, CallsInv, LoadedOK

(* The steps of a window keep it,                                            *)
LEMMA WindowKeepsCalls ==
    ASSUME VInv, CallsInv, OneWindow, NEW w \in Window,
           LoadFromCore(w) \/ OnApply(w) \/ Worker(w) \/ Close(w)
    PROVE  CallsInv'
<1> DEFINE old == window[w]
<1>1. DOMAIN window = Window /\ DOMAIN old = Fields /\ DOMAIN calls = Window \cup Late
  BY DEF VInv, ValuesOK, CallsInv
<1>2. Idle.at = "idle" /\ Sent.at = "sent"
  BY DEF Idle, Sent
<1>3. CASE ReloadFails(w) \/ Close(w)
  BY <1>2, <1>3, GivenUpIdle, NotLoaded DEF ReloadFails, Close
<1>4. CASE Reload(w)
  <2>1. DOMAIN calls' = Window \cup Late /\ calls'[w] = Idle
    BY <1>1, <1>4 DEF Reload
  <2> QED
    BY <1>2, <2>1, NotLoaded
<1>5. CASE Rename(w) /\ tmp # Missing
  <2>1. DOMAIN calls' = Window \cup Late /\ calls'[w] = Sent
    BY <1>1, <1>5 DEF Rename
  <2> QED
    BY <1>2, <2>1, NotLoaded
<1>6. \A message : Failed(old, message).at = "open"
  BY <1>1, FailedOpen
<1>7. CASE Rename(w) /\ tmp = Missing
  <2>1. Moved(w, Failed(old, "unwritten")) /\ calls' = calls
    BY <1>7 DEF Rename
  <2>2. window'[w].at = "open"
    BY <1>1, <1>6, <2>1 DEF Moved
  <2> QED
    BY <1>1, <2>1, <2>2, NotLoaded
<1>8. CASE LoadFromCore(w)
  <2> DEFINE form == ThroughForm(LoadConfigRaw(config))
             status == IF config.kind \in {"missing", "toml"} THEN "none" ELSE "warned"
             new == [Closed EXCEPT !.at = "open", !.form = form, !.status = status]
  <2>1. Moved(w, new) /\ calls' = calls
    BY <1>8 DEF LoadFromCore
  <2> HIDE DEF form, status
  <2>2. new.at = "open"
    BY DEF Closed
  <2> HIDE DEF new
  <2>3. window'[w].at = "open"
    BY <1>1, <2>1, <2>2 DEF Moved
  <2> QED
    BY <1>1, <2>1, <2>3, NotLoaded
<1>9. CASE OnApply(w)
  <2> DEFINE failed == [old EXCEPT !.status = "invalid"]
             new == [old EXCEPT !.at = "reading", !.asked = old.form, !.status = "applying",
                                !.touched = old.edited, !.edited = {}]
  <2>1. old.at = "open" /\ (Moved(w, failed) \/ Moved(w, new)) /\ calls' = calls
    BY <1>9 DEF OnApply
  <2>2. failed.at = "open" /\ new.at = "reading"
    BY <1>1, <2>1 DEF Fields
  <2> HIDE DEF failed, new
  <2>3. window'[w].at \in {"open", "reading"}
    BY <1>1, <2>1, <2>2 DEF Moved
  <2> QED
    BY <1>1, <2>1, <2>3, NotLoaded
<1>10. CASE ReadConfig(w) \/ OpenTmp(w) \/ FillTmp(w) \/ FillFails(w)
  <2> DEFINE result == WriteConfigPreserving(IF config = Missing THEN Empty ELSE config, old.asked)
             r == [old EXCEPT !.at = "opening", !.read = config, !.result = result]
             o == [old EXCEPT !.at = "filling", !.fd = "tmp"]
             f == [old EXCEPT !.at = "renaming"]
  <2>1. /\ \/ Moved(w, r) \/ Moved(w, o) \/ Moved(w, f) \/ Moved(w, Failed(old, "unwritten"))
        /\ calls' = calls
    BY <1>10 DEF ReadConfig, OpenTmp, FillTmp, FillFails
  <2> HIDE DEF result
  <2>2. r.at = "opening" /\ o.at = "filling" /\ f.at = "renaming"
    BY <1>1 DEF Fields
  <2> HIDE DEF r, o, f
  <2>3. window'[w].at \in {"opening", "filling", "renaming", "open"}
    BY <1>1, <1>6, <2>1, <2>2 DEF Moved
  <2> QED
    BY <1>1, <2>1, <2>3, NotLoaded
<1> QED
  BY <1>3, <1>4, <1>5, <1>7, <1>8, <1>9, <1>10 DEF Worker

(* the user's changes keep it,                                               *)
LEMMA EditsKeepCalls ==
    ASSUME VInv, CallsInv,
           \/ \E w \in Window, f \in DOMAIN Entered : \E v \in Entered[f] : EditField(w, f, v)
           \/ \E file \in Documents : EditFile(file)
    PROVE  CallsInv'
<1>1. DOMAIN window = Window /\ \A w \in Window : DOMAIN window[w] = Fields
  BY DEF VInv, ValuesOK
<1>2. calls' = calls
  BY DEF EditField, EditFile
<1>3. ASSUME NEW w \in Window, NEW f, NEW v, EditField(w, f, v), NEW x \in Window
      PROVE  LoadedOK(window'[x], calls[x])
  <2> DEFINE new == [window[w] EXCEPT !.form[f] = v, !.edited = @ \cup {f}]
  <2>1. /\ new.at = window[w].at /\ new.asked = window[w].asked
        /\ new.overtaken = window[w].overtaken
    BY <1>1 DEF Fields
  <2>2. window' = [window EXCEPT ![w] = new]
    BY <1>3 DEF EditField, Moved
  <2> HIDE DEF new
  <2>3. /\ window'[x].at = window[x].at /\ window'[x].asked = window[x].asked
        /\ window'[x].overtaken = window[x].overtaken
    BY <1>1, <2>1, <2>2
  <2> QED
    BY <2>3 DEF CallsInv, LoadedOK
<1>4. ASSUME NEW file \in Documents, EditFile(file), NEW w \in Window
      PROVE  LoadedOK(window'[w], calls[w])
  <2>1. \/ window'[w] = window[w]
        \/ /\ window'[w].at = window[w].at
           /\ window[w].at = "reloading" => window'[w].overtaken = TRUE
    BY <1>1, <1>4, EditMarks
  <2> QED
    BY <2>1 DEF CallsInv, LoadedOK
<1> QED
  BY <1>2, <1>3, <1>4 DEF CallsInv

(* and so does the daemon: it loads the file as the Apply has left it.         *)
LEMMA StepKeepsCalls ==
    ASSUME VInv, CallsInv, OneWindow, [Next]_vars
    PROVE  CallsInv'
<1>1. ASSUME NEW w \in Window, LoadFromCore(w) \/ OnApply(w) \/ Worker(w) \/ Close(w)
      PROVE  CallsInv'
  BY <1>1, WindowKeepsCalls
<1>2. ASSUME \/ \E w \in Window, f \in DOMAIN Entered : \E v \in Entered[f] : EditField(w, f, v)
             \/ \E file \in Documents : EditFile(file)
      PROVE  CallsInv'
  BY <1>2, EditsKeepCalls
<1>3. ASSUME NEW c \in Window \cup Late, LoadCall(c) PROVE CallsInv'
  <2> DEFINE cfg == Normalize(Parsed(config))
             call == [at |-> "loaded", cfg |-> cfg]
  <2>1. calls' = [calls EXCEPT ![c] = call] /\ window' = window
    BY <1>3 DEF LoadCall
  <2>2. DOMAIN calls = Window \cup Late /\ call.cfg = cfg
    BY DEF CallsInv
  <2>3. ASSUME NEW w \in Window PROVE LoadedOK(window[w], call)
    BY <2>2 DEF VInv, ValuesOK, LoadedOK
  <2> HIDE DEF call
  <2> QED
    BY <2>1, <2>2, <2>3 DEF CallsInv
<1>4. ASSUME NEW c \in Late, LateReload(c) \/ LateFails(c) PROVE CallsInv'
  <2>1. calls' = [calls EXCEPT ![c] = Idle] /\ window' = window
    BY <1>4 DEF LateReload, LateFails
  <2>2. \A w \in Window : w # c
    BY SettingsAssumption
  <2> QED
    BY <2>1, <2>2 DEF CallsInv
<1>5. ASSUME StopDaemon PROVE CallsInv'
  <2>1. /\ DOMAIN calls' = DOMAIN calls /\ window' = window
        /\ \A c \in DOMAIN calls : calls'[c] \in {Idle, calls[c]}
    BY <1>5 DEF StopDaemon
  <2> QED
    BY <2>1 DEF CallsInv, LoadedOK, Idle
<1>6. ASSUME (\E path \in Volatile : ChangeDisk(path)) \/ StartDaemon \/ UNCHANGED vars
      PROVE  CallsInv'
  BY <1>6 DEF ChangeDisk, StartDaemon, vars, CallsInv
<1> QED
  BY <1>1, <1>2, <1>3, <1>4, <1>5, <1>6 DEF Next

(* The step that reports success finds the file as asked, and the daemon      *)
(* with it, unless the file has changed since the rename.                    *)
LEMMA StepApplies ==
    ASSUME VInv, CallsInv, OneWindow, [Next]_vars, NEW w \in Window,
           window[w].status = "applying", window'[w].status = "applied", ~window[w].overtaken
    PROVE  Parsed(config) = window[w].asked /\ daemon' = Normalize(window[w].asked)
<1>1. /\ window[w].at = "reloading" /\ calls[w].at = "loaded"
      /\ daemon' = calls[w].cfg
  BY OnlyReloads DEF Reload
<1>2. window[w].overtaken # TRUE
  OBVIOUS
<1>3. Parsed(config) = window[w].asked
  BY <1>1, <1>2 DEF VInv, ValuesOK
<1>4. calls[w].cfg = Normalize(window[w].asked)
  BY <1>1, <1>2 DEF CallsInv, LoadedOK
<1> QED
  BY <1>1, <1>3, <1>4

(* ---- theorems ---- *)

(* The invariant holds in every reachable state, whatever fails.             *)
THEOREM Invariance == OneWindow => (Spec => []IInv)
<1> SUFFICES ASSUME OneWindow PROVE Spec => []IInv
  OBVIOUS
<1>1. Init => IInv
  BY InitKeeps
<1>2. IInv /\ [Next]_vars => IInv'
  BY StepKeeps
<1> QED
  BY <1>1, <1>2, PTL DEF Spec

(* With one window, config.toml is never the beginning of a document, whatever *)
(* crashes, fails or is edited between the steps of an Apply.                *)
THEOREM SaveIsAtomic == OneWindow => (Spec => []NeverPartial)
<1> SUFFICES ASSUME OneWindow PROVE Spec => []NeverPartial
  OBVIOUS
<1>1. IInv => NeverPartial
  BY DEF IInv, NeverPartial, Partial
<1> QED
  BY <1>1, Invariance, PTL

(* What replaces a file that does not parse, other than the user, is the      *)
(* rename of an Apply that has read a valid file or none.                    *)
LEMMA StepKeepsBroken ==
    ASSUME IInv, OneWindow, [Next]_vars
    PROVE  KeepsBroken
<1> SUFFICES ASSUME config = Broken, config' # config, edits' = edits
             PROVE  \E v \in Window : /\ window[v].at = "renaming" /\ window'[v].at = "reloading"
                                      /\ window[v].read # Broken
  BY DEF KeepsBroken
<1>1. ~\E file \in Documents : EditFile(file)
  BY DEF EditFile, IInv
<1>2. \E w \in Window : FillTmp(w) \/ Rename(w)
  BY <1>1 DEF Next, vars, LoadFromCore, OnApply, Close, Worker, ReadConfig, OpenTmp, FillFails,
              Reload, ReloadFails, EditField, ChangeDisk, LoadCall, LateReload, LateFails,
              StartDaemon, StopDaemon
<1>3. PICK w \in Window : FillTmp(w) \/ Rename(w)
  BY <1>2
<1>4. WritesComplete(w) /\ SawValid(w) /\ DOMAIN window[w] = Fields
  BY DEF IInv
<1>5. ~FillTmp(w)
  BY <1>4 DEF FillTmp, WritesComplete
<1>6. window[w].at = "renaming" /\ tmp # Missing
  BY <1>3, <1>5 DEF Rename
<1>7. window'[w] = [window[w] EXCEPT !.at = "reloading", !.result = Missing, !.fd = "none",
                                     !.read = Missing]
  BY <1>3, <1>5, <1>6 DEF Rename
<1>8. window'[w].at = "reloading"
  BY <1>4, <1>7 DEF Fields
<1> QED
  BY <1>4, <1>6, <1>8 DEF SawValid

(* With one window, what replaces a file that does not parse is the user, or   *)
(* the rename of an Apply that found a valid file or none when it read it     *)
(* (write_config_preserving): it was broken after that.                      *)
THEOREM BrokenFileKept == OneWindow => (Spec => BrokenKept)
<1> SUFFICES ASSUME OneWindow PROVE Spec => BrokenKept
  OBVIOUS
<1>1. IInv /\ [Next]_vars => [KeepsBroken]_vars
  BY StepKeepsBroken
<1> QED
  BY <1>1, Invariance, PTL DEF Spec, BrokenKept

(* The documents and the forms of any number of windows keep their types, and *)
(* no key is written into a section that is not in the document              *)
(* (write_config_preserving, section_mut).                                  *)
THEOREM Typed == Spec => []TypeOK
<1>1. Spec => []TInv
  BY InitTyped, StepTyped, PTL DEF Spec
<1>2. Init => CallsTyped
  BY DEF Init, CallsTyped, CallTyped, Idle
<1>3. Spec => []CallsTyped
  BY <1>2, StepCallsTyped, PTL DEF Spec
<1> QED
  BY <1>1, <1>3, TypesImplied, PTL

(* The form and an Apply follow the file they were made from, for one window  *)
(* and texts the form can show.                                             *)
THEOREM ValuesInvariance == OneWindow /\ PlainDocuments => (Spec => []VInv)
<1> SUFFICES ASSUME OneWindow, PlainDocuments PROVE Spec => []VInv
  OBVIOUS
<1>1. Init => VInv
  BY InitValues
<1>2. VInv /\ [Next]_vars => VInv'
  BY StepValues
<1> QED
  BY <1>1, <1>2, PTL DEF Spec

(* An Apply changes no key that the user has not changed in the form: what    *)
(* loadFromCore, toJson and write_config_preserving do to the others is       *)
(* nothing, as long as no section is written inline.                         *)
THEOREM UntouchedStayKept == OneWindow /\ PlainDocuments => (Spec => UntouchedKept)
<1> SUFFICES ASSUME OneWindow, PlainDocuments PROVE Spec => UntouchedKept
  OBVIOUS
<1> DEFINE Kept == \A w \in Window :
             window[w].at = "renaming" /\ window'[w].at = "reloading" /\ ~window[w].stale
               => LET before == IF Readable(config) THEN config ELSE Empty
                  IN  \A f \in Field \ window[w].touched : config'.keys[f] = before.keys[f]
<1>1. VInv /\ [Next]_vars => [Kept]_vars
  BY StepKeepsUntouched
<1>2. Spec => [][Kept]_vars
  BY <1>1, ValuesInvariance, PTL DEF Spec
<1> QED
  BY <1>2 DEF UntouchedKept

(* What the daemon loads for an Apply is what the Apply asked for, under the   *)
(* same conditions and until the file changes (reload_config).               *)
LEMMA CallsInvariance == OneWindow /\ PlainDocuments => (Spec => []CallsInv)
<1> SUFFICES ASSUME OneWindow, PlainDocuments PROVE Spec => []CallsInv
  OBVIOUS
<1>1. Init => CallsInv
  <2> SUFFICES ASSUME Init PROVE CallsInv
    OBVIOUS
  <2>1. DOMAIN calls = Window \cup Late /\ \A w \in Window : calls[w] = Idle
    BY DEF Init
  <2> QED
    BY <2>1 DEF CallsInv, LoadedOK, Idle
<1>2. VInv /\ CallsInv /\ [Next]_vars => CallsInv'
  BY StepKeepsCalls
<1> QED
  BY <1>1, <1>2, ValuesInvariance, PTL DEF Spec

(* "Applied" means that the file reads as the Apply asked and that the daemon  *)
(* runs with it, whatever the form was made of and whichever calls given up    *)
(* are carried out late: only an edit of the file after the rename and before *)
(* the answer voids it (apply_config_json, reload_config).                   *)
THEOREM AppliedIsInForce == OneWindow /\ PlainDocuments => (Spec => AppliedInForce)
<1> SUFFICES ASSUME OneWindow, PlainDocuments PROVE Spec => AppliedInForce
  OBVIOUS
<1> DEFINE InForce == \A w \in Window :
             window[w].status = "applying" /\ window'[w].status = "applied"
             /\ ~window[w].overtaken
               => /\ Parsed(config) = window[w].asked
                  /\ daemon' = Normalize(window[w].asked)
<1>1. VInv /\ CallsInv /\ [Next]_vars => [InForce]_vars
  BY StepApplies
<1>2. Spec => [][InForce]_vars
  BY <1>1, ValuesInvariance, CallsInvariance, PTL DEF Spec
<1> QED
  BY <1>2 DEF AppliedInForce
=============================================================================
