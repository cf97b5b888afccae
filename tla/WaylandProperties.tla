------------------------- MODULE WaylandProperties -------------------------
(***************************************************************************)
(* What the Wayland adapter guarantees about keys, repeats and its windows. *)
(***************************************************************************)
EXTENDS WaylandServer

LongestWait == Steps(Delay) + Steps(1000)   \* delay, or one tick a second
Slots(S) == [S -> [at : {"idle", "sleep", "write", "last"}, wait : 0 .. LongestWait,
                   pause : 0 .. LongestWait]]

(* Every part of the state keeps its type, and a deadline is never more than *)
(* the 500 ms that repeat_stop_grace allows, at any rate.                   *)
TypeOK ==
    /\ held \subseteq Key /\ echo \subseteq Key /\ pressed \subseteq Key
    /\ outage \in BOOLEAN /\ seatSpoke \in BOOLEAN /\ persistent \in BOOLEAN
    /\ active \in {None} \cup Contexts
    /\ repeat \in {None} \cup RepeatActive
    /\ deadline \in {None} \cup 0 .. Steps(500) /\ rate \in Rates \cup {DefaultRate}
    /\ threads \in Slots(Thread) /\ timers \in Slots(Timer) /\ timer \in Timer \cup {None}
    /\ ticks \in 0 .. MaxTicks /\ todo \in 0 .. MaxTicks
    /\ hide \in BOOLEAN /\ listing \in BOOLEAN
    /\ \A w \in DOMAIN windows : windows[w] \in CandidateWindows
    /\ app \subseteq Key /\ stranded \subseteq app

Running(slots) == {t \in DOMAIN slots : slots[t].at \in {"sleep", "write"}}

(* At most one thread writes ticks, and it belongs to the repeat in progress: *)
(* its key is taken to be down, its presses are consumed, and a context is   *)
(* active.  A thread that is not cancelled would type the key for ever, and  *)
(* a deadline that outlives its repeat would cut the next one short.         *)
OneRepeat ==
    /\ Running(threads) = IF repeat = None THEN {} ELSE {repeat.thread}
    /\ repeat # None => repeat.consumed /\ repeat.key \in pressed /\ active # None
    /\ deadline # None => repeat # None

(* No key stays down in the application: when the user has released it, the  *)
(* application got the release of every press forwarded to it, across any    *)
(* change of context, unless the daemon was gone or the keymap unusable.     *)
AppKeysReleased == app \subseteq held \cup stranded

(* An indicator that was to disappear will: while one is shown or waits to   *)
(* be, a timer is running for it or its byte is already in the pipe.         *)
IndicatorWillHide ==
    (\E w \in DOMAIN windows : "status" \in {windows[w].state, windows[w].pending})
        => persistent \/ hide \/ (timer # None /\ timer \in Running(timers))

(* No window shows, or will show once configured, a list the engine has      *)
(* taken back.                                                              *)
NoStaleList ==
    \A w \in DOMAIN windows : "list" \in {windows[w].state, windows[w].pending} => listing

(* A window's surface shows what its state says, whichever of its two buffers *)
(* the content was drawn on: an indicator or a list is taken off the buffer   *)
(* that holds it.  Buffers that cannot be created void this.                 *)
SurfaceShowsState ==
    \A w \in DOMAIN windows : windows[w].broken = {} => windows[w].surface = windows[w].state

(* A held key stops repeating once the user lets go of it, although releases *)
(* are deferred and made-up ones push the deadline on.                      *)
RepeatStops == \A k \in Key :
    (IsRepeating(KeyState, k) /\ k \notin held) ~> (~IsRepeating(KeyState, k) \/ k \in held)
----------------------------------------------------------------------------
(* The README promises that D-Bus errors fall back to passthrough: a key the  *)
(* user presses while the daemon cannot be reached goes to the application.   *)
(* on_key returns before it forwards anything, so this does not hold.        *)
FailOpen == [][\A k \in held' \ held :
    outage /\ active # None /\ active.keymap = "loaded" /\ k \notin pressed => k \in app']_vars
=============================================================================
