-------------------------- MODULE CandidateWindow --------------------------
(***************************************************************************)
(* The window of the Wayland adapter that shows the candidate list or the  *)
(* mode indicator (adapter-wayland/src/candidate_window.rs), as operators  *)
(* on the record of one window.  What is drawn is abstracted to its kind:  *)
(* a list, the indicator, or nothing.                                      *)
(***************************************************************************)

Content == {"nothing", "list", "status"}
Buffer  == {"cand_buf", "ind_buf"}

(* pending: the draw kept until a layer surface is configured.  state: what *)
(* the window takes its surface to show, and surface: what it does show.     *)
(* broken: the buffers that cannot be created.                             *)
CandidateWindows ==
    [overlay : BOOLEAN, configured : BOOLEAN, pending : Content, state : Content,
     surface : Content, buffers : SUBSET Buffer, broken : SUBSET Buffer]

(* An overlay panel has no configure handshake; a layer surface has one.    *)
NewWindow(overlay, broken) ==
    [overlay |-> overlay, configured |-> overlay, pending |-> "nothing", state |-> "nothing",
     surface |-> "nothing", buffers |-> {}, broken |-> broken]

(* Only an overlay panel has a buffer of its own for the indicator.         *)
BufferOf(w, kind) == IF kind = "status" /\ w.overlay THEN "ind_buf" ELSE "cand_buf"

(* Buffers are created by the first draw; without one nothing is drawn.     *)
Draw(w, kind) ==
    IF BufferOf(w, kind) \in w.broken THEN w
    ELSE [w EXCEPT !.buffers = @ \cup {BufferOf(w, kind)}, !.surface = kind]

(* Mutant: the indicator is always faded out on the candidate buffer.       *)
FadeOutCandBuf(w, kind) ==
    IF "cand_buf" \in w.buffers THEN [w EXCEPT !.surface = "nothing"] ELSE w

(* A transparent payload in the buffer takes its content off the surface.   *)
FadeOut(w, kind) ==
    IF BufferOf(w, kind) \in w.buffers THEN [w EXCEPT !.surface = "nothing"] ELSE w

ShowList(w) ==
    IF w.configured THEN [Draw(w, "list") EXCEPT !.state = "list"]
    ELSE [w EXCEPT !.pending = "list"]

(* Taking one kind of content away leaves the other kind alone.             *)
Without(w, kind) ==
    IF ~w.configured THEN [w EXCEPT !.pending = IF @ = kind THEN "nothing" ELSE @]
    ELSE IF w.state = kind THEN [FadeOut(w, kind) EXCEPT !.state = "nothing"]
    ELSE w

(* Mutant: hide does nothing while a window is not configured.              *)
HideListConfigured(w) == IF w.configured THEN Without(w, "list") ELSE w

HideList(w) == Without(w, "list")

HideStatus(w) == Without(w, "status")

(* The indicator never covers a list that is on the surface.                *)
ShowStatus(w) ==
    IF w.state = "list" THEN w
    ELSE IF w.configured THEN [Draw(w, "status") EXCEPT !.state = "status"]
    ELSE [w EXCEPT !.pending = "status"]

(* The first configure event performs the pending draw.                     *)
Configured(w) ==
    IF w.configured THEN w
    ELSE LET shown == [w EXCEPT !.configured = TRUE, !.pending = "nothing"]
         IN  IF w.pending = "nothing" THEN shown
             ELSE [Draw(shown, w.pending) EXCEPT !.state = w.pending]
=============================================================================
