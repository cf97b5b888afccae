--------------------------- MODULE WaylandServer ---------------------------
(***************************************************************************)
(* The Wayland adapter (adapter-wayland/src/server.rs): the keys the        *)
(* compositor reports, key repeat by threads that write to a timer pipe,   *)
(* the deferred release of a repeating key, activation of input contexts,  *)
(* and the mode indicator with its auto-hide timer.                        *)
(*                                                                         *)
(* The main loop alternates turns (deadline, timer pipe, repeat ticks) and *)
(* batches of Wayland events.  Each event and each tick is one step: only  *)
(* timer threads run beside the loop, and they touch nothing but the pipe. *)
(* The compositor is external: `held' are the keys physically down, `echo' *)
(* the releases it makes up after a commit, as the code's comments say.     *)
(***************************************************************************)
EXTENDS Integers, Sequences, SequencesExt, CandidateWindow

CONSTANTS Key,       \* evdev key codes
          Repeats,   \* the keys that repeat (no modifiers, no locks)
          Thread,    \* slots for repeat threads: bounds how many are alive
          Timer,     \* slots for status timer threads
          Output,    \* the outputs the compositor may advertise
          Answers,   \* the action lists process_key may return for a press
          Rates,     \* repeat rates the compositor reports, in keys per second
          Delay,     \* repeat_delay in ms
          Unit,      \* one step of time, in ms
          MaxTicks,  \* bound: repeat ticks waiting in the pipe
          None

Contexts == [mods : BOOLEAN, keymap : {"awaited", "loaded", "failed"}]
RepeatActive == [key : Key, consumed : BOOLEAN, thread : Thread]

ASSUME WaylandAssumption ==
    /\ Repeats \subseteq Key /\ None \notin Key \cup Thread \cup Timer \cup Output
    /\ None \notin Contexts \cup RepeatActive \cup Int
    /\ Answers \subseteq Seq(STRING)
    /\ Rates \subseteq Nat /\ Delay \in Nat /\ Unit \in Nat \ {0} /\ MaxTicks \in Nat

VARIABLES
    held, echo,        \* the compositor: keys down, made-up releases under way
    outage,            \* process_key fails (ReconnectingClient has no daemon)
    active,            \* None, or the modifiers and the keymap of the context
    pressed,           \* pressed_keys
    repeat,            \* repeat_active
    deadline,          \* pending_stop_release: time left, or None
    rate, seatSpoke,   \* repeat_rate, seat_repeat_received
    threads,           \* the repeat threads
    ticks, hide,       \* the bytes in the timer pipe
    todo,              \* ticks this turn has read and not yet handled
    timers, timer,     \* the status timer threads, and status_cancel
    persistent,        \* the last indicator came without a timeout
    windows,           \* candidate_windows
    listing,           \* the engine's last word on the list: shown or hidden
    app, stranded      \* keys whose press was forwarded and whose release was
                       \*   not; those of them that on_key gave up on

keyVars   == <<pressed, repeat, deadline, threads, app>>
panelVars == <<timers, timer, persistent, windows, listing>>
pipeVars  == <<ticks, hide, todo>>
rateVars  == <<rate, seatSpoke>>
worldVars == <<held, echo, outage>>
vars == <<keyVars, panelVars, pipeVars, rateVars, worldVars, active, stranded>>

(* ---- times ---- *)

DefaultRate == 25
AtLeastOne(n)      == IF n = 0 THEN 1 ELSE n
Clamp(n, low, top) == IF n < low THEN low ELSE IF n > top THEN top ELSE n
Steps(ms)          == (ms + Unit - 1) \div Unit
TickInterval(r)    == Steps(AtLeastOne(1000 \div AtLeastOne(r)))

(* Mutant: the grace is not clamped.                                        *)
RepeatStopGraceUnclamped(r) == Steps(2 * (1000 \div AtLeastOne(r)))

RepeatStopGrace(r) == Steps(Clamp(2 * (1000 \div AtLeastOne(r)), 60, 500))

(* ---- timer threads ---- *)

Idle == [at |-> "idle", wait |-> 0, pause |-> 0]
Free(slots) == {t \in DOMAIN slots : slots[t].at = "idle"}

(* A thread that finds its cancel flag set on waking exits without a trace; *)
(* one already past the check writes one more byte ("last").               *)
Cancel(slots, t) ==
    IF t = None THEN slots
    ELSE [slots EXCEPT ![t] = IF @.at = "write" THEN [@ EXCEPT !.at = "last"] ELSE Idle]

Spawn(slots, wait, pause) ==
    [slots EXCEPT ![CHOOSE t \in Free(slots) : TRUE] =
        [at |-> "sleep", wait |-> wait, pause |-> pause]]

(* ---- key repeat, on a record s of the key variables ---- *)

KeyState == [pressed |-> pressed, repeat |-> repeat, deadline |-> deadline,
             threads |-> threads, app |-> app]
KeysBecome(s) ==
    /\ pressed' = s.pressed /\ repeat' = s.repeat /\ deadline' = s.deadline
    /\ threads' = s.threads /\ app' = s.app

IsRepeating(s, k) == s.repeat # None /\ s.repeat.key = k

(* Mutant: a cancelled repeat's thread is not told.                         *)
DropRepeatForgetsThread(s) ==
    IF s.repeat = None THEN s
    ELSE [s EXCEPT !.repeat = None, !.pressed = @ \ {s.repeat.key}]

(* The cancelled repeat's key leaves pressed_keys; the application gets its  *)
(* release if it had been given the press.                                 *)
DropRepeat(s) ==
    IF s.repeat = None THEN s
    ELSE [s EXCEPT !.repeat = None,
                   !.threads = Cancel(@, s.repeat.thread),
                   !.pressed = @ \ {s.repeat.key},
                   !.app = IF s.repeat.consumed \/ active = None THEN @ ELSE @ \ {s.repeat.key}]

StopAllRepeat(s) == [DropRepeat(s) EXCEPT !.deadline = None]

StartRepeat(s, k, consumed) ==
    LET d == StopAllRepeat(s)
        t == CHOOSE t \in Free(d.threads) : TRUE
    IN  IF ~consumed \/ rate = 0 THEN d
        ELSE [d EXCEPT !.threads = Spawn(@, Steps(Delay), TickInterval(rate)),
                       !.repeat = [key |-> k, consumed |-> consumed, thread |-> t]]

(* ---- the action sink, on a record p of the panel variables ---- *)

Panel == [timers |-> timers, timer |-> timer, persistent |-> persistent,
          windows |-> windows, listing |-> listing]
PanelBecomes(p) ==
    /\ timers' = p.timers /\ timer' = p.timer /\ persistent' = p.persistent
    /\ windows' = p.windows /\ listing' = p.listing

(* Mutant: the cancel flag of the new timer is set, not that of the old one. *)
UpdateStatusCancelsNew(p, timed) ==
    [p EXCEPT !.windows = [w \in DOMAIN @ |-> ShowStatus(@[w])], !.persistent = ~timed, !.timer = None]

(* "pin" is an indicator without timeout.  Threads get their copy of the      *)
(* pipe's descriptor here and in StartRepeat: descriptors are not exhausted.  *)
UpdateStatus(p, timed) ==
    LET cancelled == Cancel(p.timers, p.timer)
    IN  [p EXCEPT !.windows = [w \in DOMAIN @ |-> ShowStatus(@[w])],
                  !.persistent = ~timed,
                  !.timers = IF timed THEN Spawn(cancelled, 0, 0) ELSE cancelled,
                  !.timer = IF timed THEN CHOOSE t \in Free(cancelled) : TRUE ELSE None]

Perform(p, action) ==
    CASE action = "show"   -> [p EXCEPT !.windows = [w \in DOMAIN @ |-> ShowList(@[w])], !.listing = TRUE]
      [] action = "hide"   -> [p EXCEPT !.windows = [w \in DOMAIN @ |-> HideList(@[w])], !.listing = FALSE]
      [] action = "status" -> UpdateStatus(p, TRUE)
      [] action = "pin"    -> UpdateStatus(p, FALSE)
      [] OTHER             -> p

Dispatched(actions) ==
    LET after[i \in 0 .. Len(actions)] ==
            IF i = 0 THEN Panel ELSE Perform(after[i - 1], actions[i])
    IN  after[Len(actions)]

(* dispatch: any handled action consumes the key, a pass-through undoes it. *)
Consumes(actions) == actions # <<>> /\ ~Contains(actions, "pass")

Room(actions) == Contains(actions, "status") => Free(Cancel(timers, timer)) # {}

(* ---- on_key ---- *)

(* The answers on_key may see; none while the daemon cannot be reached.      *)
PressAnswers == IF outage THEN {None} ELSE {a \in Answers : Room(a)}

(* A commit makes the compositor report a release of a key that is down.    *)
Echoes(k, actions) == IF Contains(actions, "commit") /\ k \in held' THEN {k} ELSE {}

(* A key press reaches the engine; afterwards the state is after[consumed]. *)
(* Without an answer, on_key gives up: nothing is forwarded.               *)
OnPress(k, after, forward) ==
    \E answer \in PressAnswers :
        IF answer = None
          THEN /\ KeysBecome(after[FALSE]) /\ UNCHANGED <<panelVars, echo, stranded>>
          ELSE LET consumed  == Consumes(answer)
                   s         == after[consumed]
                   forwarded == forward /\ ~consumed
               IN  /\ PanelBecomes(Dispatched(answer))
                   /\ echo' = echo \cup Echoes(k, answer)
                   /\ KeysBecome([s EXCEPT !.app = IF forwarded THEN @ \cup {k} ELSE @])
                   /\ stranded' = IF forwarded THEN stranded \ {k} ELSE stranded

(* ---- wl_keyboard.key ---- *)

(* A press of a key taken to be down is a re-tap while its release waits,   *)
(* and is otherwise ignored.                                               *)
FreshPress(k) == k \notin pressed
ReTap(k)      == IsRepeating(KeyState, k) /\ deadline # None

PressEvent(k) ==
    LET cleared == IF FreshPress(k) THEN KeyState ELSE StopAllRepeat(KeyState)
        down    == [cleared EXCEPT !.pressed = @ \cup {k}]
        repeated == [consumed \in BOOLEAN |->
                        IF k \in Repeats THEN StartRepeat(down, k, consumed) ELSE down]
    IN  IF ~FreshPress(k) /\ ~ReTap(k)
          THEN UNCHANGED <<keyVars, panelVars, echo, stranded>>
          ELSE IF active.keymap # "loaded"
            THEN /\ KeysBecome(down) /\ UNCHANGED <<panelVars, echo, stranded>>
            ELSE /\ Free(StopAllRepeat(down).threads) # {}
                 /\ OnPress(k, repeated, TRUE)

(* Mutant: a release of the repeating key is dropped as synthetic.          *)
ReleaseEventDropped(k) ==
    /\ UNCHANGED <<panelVars, stranded, repeat, deadline, threads>>
    /\ IF IsRepeating(KeyState, k) \/ k \notin pressed
         THEN UNCHANGED <<pressed, app>>
         ELSE pressed' = pressed \ {k} /\ app' = app \ {k}

(* The engine passes every release; on_key forwards it unless it fails.      *)
ReleaseEvent(k) ==
    /\ UNCHANGED panelVars
    /\ IF IsRepeating(KeyState, k)
         THEN /\ deadline' = RepeatStopGrace(rate)
              /\ UNCHANGED <<pressed, repeat, threads, app, stranded>>
         ELSE LET forwarded == k \in pressed /\ active.keymap = "loaded" /\ ~outage
              IN  /\ pressed' = pressed \ {k}
                  /\ app' = IF forwarded THEN app \ {k} ELSE app
                  /\ stranded' = IF forwarded THEN stranded \ {k}
                                  ELSE IF k \in pressed \cap app THEN stranded \cup {k}
                                  ELSE stranded
                  /\ UNCHANGED <<repeat, deadline, threads>>

Listening == todo = 0 /\ active # None /\ active.keymap # "awaited"

Press(k) ==
    /\ Listening /\ k \notin held
    /\ held' = held \cup {k} /\ PressEvent(k)
    /\ UNCHANGED <<outage, active, pipeVars, rateVars>>

Release(k) ==
    /\ Listening /\ k \in held
    /\ held' = held \ {k} /\ ReleaseEvent(k)
    /\ UNCHANGED <<echo, outage, active, pipeVars, rateVars>>

MadeUpRelease(k) ==
    /\ Listening /\ k \in echo
    /\ echo' = echo \ {k} /\ ReleaseEvent(k)
    /\ UNCHANGED <<held, outage, active, pipeVars, rateVars>>

(* ---- the other events ---- *)

(* A context that was not deactivated is dropped; a repeat goes on.          *)
Activate ==
    /\ todo = 0
    /\ active' = [mods |-> FALSE, keymap |-> "awaited"]
    /\ UNCHANGED <<keyVars, panelVars, pipeVars, rateVars, worldVars, stranded>>

(* Mutant: pressed_keys is emptied when the context goes.                   *)
DeactivateClears ==
    /\ todo = 0 /\ active # None /\ active' = None
    /\ KeysBecome([StopAllRepeat(KeyState) EXCEPT !.pressed = {}])
    /\ UNCHANGED <<panelVars, pipeVars, rateVars, worldVars, stranded>>

Deactivate ==
    /\ todo = 0 /\ active # None
    /\ KeysBecome(StopAllRepeat(KeyState)) /\ active' = None
    /\ UNCHANGED <<panelVars, pipeVars, rateVars, worldVars, stranded>>

Keymap ==
    /\ todo = 0 /\ active # None /\ active.keymap = "awaited"
    /\ \E result \in {"loaded", "failed"} : active' = [active EXCEPT !.keymap = result]
    /\ UNCHANGED <<keyVars, panelVars, pipeVars, rateVars, worldVars, stranded>>

Modifiers(mods) ==
    /\ todo = 0 /\ active # None /\ active' = [active EXCEPT !.mods = mods]
    /\ KeysBecome(IF mods # active.mods /\ repeat # None
                    THEN StopAllRepeat(KeyState) ELSE KeyState)
    /\ UNCHANGED <<panelVars, pipeVars, rateVars, worldVars, stranded>>

(* A rate of zero on the grabbed keyboard counts only until the seat's own   *)
(* keyboard has reported one.                                              *)
RepeatInfo(r, seat) ==
    /\ todo = 0
    /\ rate' = IF seat \/ r > 0 \/ ~seatSpoke THEN r ELSE rate
    /\ seatSpoke' = (seatSpoke \/ seat)
    /\ UNCHANGED <<keyVars, panelVars, pipeVars, worldVars, active, stranded>>

WindowConfigured(w) ==
    /\ todo = 0 /\ ~windows[w].overlay
    /\ windows' = [windows EXCEPT ![w] = Configured(@)]
    /\ UNCHANGED <<keyVars, timers, timer, persistent, listing, pipeVars, rateVars, worldVars,
                   active, stranded>>

WindowClosed(w) ==
    /\ todo = 0 /\ ~windows[w].overlay
    /\ windows' = [v \in DOMAIN windows \ {w} |-> windows[v]]
    /\ UNCHANGED <<keyVars, timers, timer, persistent, listing, pipeVars, rateVars, worldVars,
                   active, stranded>>

(* ---- the main loop ---- *)

(* One turn: an expired deadline ends the repeat, the pipe is emptied, and   *)
(* the ticks found in it are handled one by one before any other event.     *)
Turn ==
    /\ todo = 0
    /\ KeysBecome(IF deadline = 0 THEN StopAllRepeat(KeyState) ELSE KeyState)
    /\ todo' = ticks /\ ticks' = 0 /\ hide' = FALSE
    /\ windows' = IF hide THEN [w \in DOMAIN windows |-> HideStatus(windows[w])] ELSE windows
    /\ UNCHANGED <<timers, timer, persistent, listing, rateVars, worldVars, active, stranded>>

(* A tick runs the key again and forwards nothing.  The rest of the ticks is *)
(* dropped once the key is not consumed, or when nothing repeats.           *)
RepeatTick ==
    /\ todo > 0
    /\ UNCHANGED <<held, outage, active, ticks, hide, rateVars>>
    /\ IF repeat = None
         THEN todo' = 0 /\ UNCHANGED <<keyVars, panelVars, echo, stranded>>
         ELSE LET continued == [consumed \in BOOLEAN |->
                                  IF consumed THEN KeyState ELSE StopAllRepeat(KeyState)]
              IN  /\ OnPress(repeat.key, continued, FALSE)
                  /\ todo' = IF repeat' = None THEN 0 ELSE todo - 1

(* ---- timer threads ---- *)

threadFrame == <<pressed, repeat, deadline, app, timer, persistent, windows, listing, todo,
                 rateVars, worldVars, active, stranded>>

ThreadWakes(t) ==
    /\ threads[t].at = "sleep" /\ threads[t].wait = 0
    /\ threads' = [threads EXCEPT ![t].at = "write"]
    /\ UNCHANGED <<threadFrame, timers, ticks, hide>>

ThreadWrites(t) ==
    /\ threads[t].at \in {"write", "last"} /\ ticks < MaxTicks
    /\ threads' = [threads EXCEPT ![t] =
           IF @.at = "last" THEN Idle ELSE [at |-> "sleep", wait |-> @.pause, pause |-> @.pause]]
    /\ ticks' = ticks + 1
    /\ UNCHANGED <<threadFrame, timers, hide>>

TimerWakes(t) ==
    /\ timers[t].at = "sleep"
    /\ timers' = [timers EXCEPT ![t].at = "write"]
    /\ UNCHANGED <<threadFrame, threads, ticks, hide>>

TimerWrites(t) ==
    /\ timers[t].at \in {"write", "last"}
    /\ timers' = [timers EXCEPT ![t] = Idle] /\ hide' = TRUE
    /\ UNCHANGED <<threadFrame, threads, ticks>>

(* ---- the world ---- *)

Down(n) == IF n \in Nat /\ n > 0 THEN n - 1 ELSE n

Elapse ==
    /\ deadline' = IF deadline = None THEN None ELSE Down(deadline)
    /\ threads' = [t \in Thread |-> [threads[t] EXCEPT !.wait = Down(@)]]
    /\ UNCHANGED <<pressed, repeat, app, panelVars, pipeVars, rateVars, worldVars, active, stranded>>

(* While no context is active keys go straight to the application.           *)
OutsideKey(k) ==
    /\ active = None
    /\ held' = IF k \in held THEN held \ {k} ELSE held \cup {k}
    /\ app' = app \ {k} /\ stranded' = stranded \ {k}
    /\ UNCHANGED <<pressed, repeat, deadline, threads, panelVars, pipeVars, rateVars,
                   echo, outage, active>>

(* The daemon stops answering, or answers again.                             *)
DaemonChanges ==
    /\ outage' = ~outage
    /\ UNCHANGED <<keyVars, panelVars, pipeVars, rateVars, held, echo, active, stranded>>

(* ---- the specification ---- *)

(* An overlay panel needs one window, layer surfaces one on every output.    *)
InitCandidateWindows(font, panel, layer, outputs, broken) ==
    LET on == IF ~font \/ ~(panel \/ layer) THEN {}
              ELSE IF panel \/ outputs = {} THEN {None} ELSE outputs
    IN  [w \in on |-> NewWindow(panel, broken)]

Init ==
    /\ held = {} /\ echo = {} /\ outage = FALSE /\ active = None
    /\ pressed = {} /\ repeat = None /\ deadline = None
    /\ rate = DefaultRate /\ seatSpoke = FALSE
    /\ threads = [t \in Thread |-> Idle] /\ timers = [t \in Timer |-> Idle] /\ timer = None
    /\ ticks = 0 /\ hide = FALSE /\ todo = 0
    /\ persistent = FALSE /\ listing = FALSE
    /\ \E font, panel, layer \in BOOLEAN, outputs \in SUBSET Output, broken \in SUBSET Buffer :
           windows = InitCandidateWindows(font, panel, layer, outputs, broken)
    /\ app = {} /\ stranded = {}

Next ==
    \/ \E k \in Key : Press(k) \/ Release(k) \/ MadeUpRelease(k) \/ OutsideKey(k)
    \/ Activate \/ Deactivate \/ Keymap
    \/ \E m \in BOOLEAN : Modifiers(m)
    \/ \E r \in Rates, seat \in BOOLEAN : RepeatInfo(r, seat)
    \/ \E w \in DOMAIN windows : WindowConfigured(w) \/ WindowClosed(w)
    \/ Turn \/ RepeatTick
    \/ \E t \in Thread : ThreadWakes(t) \/ ThreadWrites(t)
    \/ \E t \in Timer : TimerWakes(t) \/ TimerWrites(t)
    \/ Elapse \/ DaemonChanges

Spec == Init /\ [][Next]_vars

(* The loop is woken by the pipe and by its own timeout, threads are         *)
(* scheduled and time passes; what the user and the compositor do is theirs. *)
Fairness ==
    /\ WF_vars(Turn) /\ WF_vars(RepeatTick) /\ WF_vars(Elapse)
    /\ \A t \in Thread : WF_vars(ThreadWakes(t)) /\ WF_vars(ThreadWrites(t))
    /\ \A t \in Timer : WF_vars(TimerWakes(t)) /\ WF_vars(TimerWrites(t))

FairSpec == Spec /\ Fairness
=============================================================================
