------------------------- MODULE ReconnectingClient -------------------------
(***************************************************************************)
(* ReconnectingClient (skk-ipc/proxy/reconnect.rs): each client process    *)
(* has a UI thread that opens, types into and closes input contexts, and a *)
(* monitor thread that probes the daemon after a failure.  They share the  *)
(* proxy, the table of handles and the failure state, each under a mutex.  *)
(*                                                                         *)
(* Only the UI thread touches the table, so the two critical sections of   *)
(* mark_failed are one step here.  Time is what separates the three values *)
(* of a failure: none, recent (in cooldown) and old (cooldown elapsed).    *)
(***************************************************************************)
EXTENDS SessionManager

CONSTANTS
    MaxHandles,  \* bound: the handles a client opens
    MaxKeys      \* bound: the keys typed into a client

ASSUME ClientAssumption == MaxHandles \in Nat /\ MaxKeys \in Nat

VARIABLES
    ui,        \* ui[c]: what the UI thread is in the middle of
    monitor,   \* monitor[c]: where monitor_loop is
    proxy,     \* proxy[c]: who holds the proxy's mutex
    failure,   \* failure[c]: last_failure, as none / recent / old
    newer,     \* newer[c]: a failure was recorded since the monitor fell asleep
    sessions,  \* sessions[c]: open handle |-> daemon session id, 0 for none
    opened,    \* opened[c]: next_handle - 1
    pressed,   \* pressed[c]: how many keys have been typed
    applied,   \* applied[c][n]: how often an engine has processed key n
    passed,    \* passed[c]: the keys given to the application
    noticed    \* noticed[c]: a call of the UI thread failed since the daemon stopped
vars == <<daemonVars, ui, monitor, proxy, failure, newer, sessions, opened, pressed, applied,
          passed, noticed>>

Idle == [op |-> "idle", handle |-> 0, id |-> 0]
Monitor(at, id) == [at |-> at, id |-> id]
UI(op, h, id) == [op |-> op, handle |-> h, id |-> id]

Init ==
    /\ DaemonInit
    /\ ui = [c \in Client |-> Idle]
    /\ monitor = [c \in Client |-> Monitor("waiting", 0)]
    /\ proxy = [c \in Client |-> "free"]
    /\ failure = [c \in Client |-> "none"]
    /\ newer = [c \in Client |-> FALSE]
    /\ sessions = [c \in Client |-> <<>>]
    /\ opened = [c \in Client |-> 0]
    /\ pressed = [c \in Client |-> 0]
    /\ applied = [c \in Client |-> [n \in 1 .. MaxKeys |-> 0]]
    /\ passed = [c \in Client |-> {}]
    /\ noticed = [c \in Client |-> FALSE]
----------------------------------------------------------------------------
(* Pieces of the client.                                                   *)
InCooldown(c) == failure[c] = "recent"

Goto(c, state)   == ui' = [ui EXCEPT ![c] = state]
Store(c, h, id)  == sessions' = [sessions EXCEPT ![c] =
                        [i \in DOMAIN @ \cup {h} |-> IF i = h THEN id ELSE @[i]]]
PassThrough(c)   == passed' = [passed EXCEPT ![c] = @ \cup {pressed[c]}]

(* A call through the proxy: taking the mutex and sending, then the answer *)
(* and releasing it.                                                       *)
Send(c, thread, r) ==
    /\ proxy[c] = "free"
    /\ proxy' = [proxy EXCEPT ![c] = thread]
    /\ inbox' = [inbox EXCEPT ![c] = Append(@, r)]

Answered(c, thread) ==
    /\ proxy[c] = thread
    /\ reply[c] # NoReply
    /\ proxy' = [proxy EXCEPT ![c] = "free"]
    /\ reply' = [reply EXCEPT ![c] = NoReply]

(* Mutant: forgets only the session whose call failed.                     *)
MarkFailedOne(c) ==
    /\ failure' = [failure EXCEPT ![c] = "recent"]
    /\ newer' = [newer EXCEPT ![c] = TRUE]
    /\ noticed' = [noticed EXCEPT ![c] = TRUE]
    /\ sessions' = [sessions EXCEPT ![c] =
                        [h \in DOMAIN @ |-> IF h = ui[c].handle THEN 0 ELSE @[h]]]

MarkFailed(c) ==
    /\ failure' = [failure EXCEPT ![c] = "recent"]
    /\ newer' = [newer EXCEPT ![c] = TRUE]
    /\ noticed' = [noticed EXCEPT ![c] = TRUE]
    /\ sessions' = [sessions EXCEPT ![c] = [h \in DOMAIN @ |-> 0]]

MarkRecovered(c) == failure' = [failure EXCEPT ![c] = "none"]
----------------------------------------------------------------------------
(* create_handle                                                           *)
OpenHandle(c) ==
    /\ ui[c] = Idle /\ opened[c] < MaxHandles
    /\ opened' = [opened EXCEPT ![c] = @ + 1]
    /\ IF InCooldown(c)
       THEN Store(c, opened[c] + 1, 0) /\ UNCHANGED ui
       ELSE Goto(c, UI("open", opened[c] + 1, 0)) /\ UNCHANGED sessions
    /\ UNCHANGED <<daemonVars, monitor, proxy, failure, newer, pressed, passed, applied, noticed>>

HandleOpened(c) ==
    /\ ui[c].op = "open"
    /\ Answered(c, "ui")
    /\ Goto(c, Idle)
    /\ LET h == ui[c].handle
       IN  IF reply[c].kind = "created"
           THEN /\ Store(c, h, reply[c].id)
                /\ UNCHANGED <<failure, newer, noticed>>
           ELSE /\ failure' = [failure EXCEPT ![c] = "recent"]
                /\ newer' = [newer EXCEPT ![c] = TRUE]
                /\ noticed' = [noticed EXCEPT ![c] = TRUE]
                /\ sessions' = [sessions EXCEPT ![c] = [i \in DOMAIN @ \cup {h} |-> 0]]
    /\ UNCHANGED <<up, starts, late, made, engines, inbox, monitor, opened, pressed, passed, applied>>

(* destroy_handle: an error of the call is only logged.                    *)
CloseHandle(c, h) ==
    /\ ui[c] = Idle /\ h \in DOMAIN sessions[c]
    /\ sessions' = [sessions EXCEPT ![c] = [i \in DOMAIN @ \ {h} |-> @[i]]]
    /\ IF sessions[c][h] = 0 \/ InCooldown(c)
       THEN UNCHANGED ui
       ELSE Goto(c, UI("close", h, sessions[c][h]))
    /\ UNCHANGED <<daemonVars, monitor, proxy, failure, newer, opened, pressed, passed,
                   applied, noticed>>

HandleClosed(c) ==
    /\ ui[c].op = "close"
    /\ Answered(c, "ui")
    /\ Goto(c, Idle)
    /\ UNCHANGED <<up, starts, late, made, engines, inbox, monitor, failure, newer, sessions, opened,
                   pressed, passed, applied, noticed>>
----------------------------------------------------------------------------
(* process_key                                                             *)

(* Mutant: in cooldown the key is swallowed.                               *)
PressKeySwallows(c, h) ==
    /\ ui[c] = Idle /\ h \in DOMAIN sessions[c] /\ pressed[c] < MaxKeys
    /\ pressed' = [pressed EXCEPT ![c] = @ + 1]
    /\ IF InCooldown(c) THEN UNCHANGED ui
       ELSE Goto(c, UI(IF sessions[c][h] = 0 THEN "ensure" ELSE "type", h, sessions[c][h]))
    /\ UNCHANGED <<daemonVars, monitor, proxy, failure, newer, sessions, opened, passed, applied,
                   noticed>>

(* ensure_daemon_session finds a session or sets out to create one.        *)
PressKey(c, h) ==
    /\ ui[c] = Idle /\ h \in DOMAIN sessions[c] /\ pressed[c] < MaxKeys
    /\ pressed' = [pressed EXCEPT ![c] = @ + 1]
    /\ IF InCooldown(c)
       THEN passed' = [passed EXCEPT ![c] = @ \cup {pressed[c] + 1}] /\ UNCHANGED ui
       ELSE /\ Goto(c, UI(IF sessions[c][h] = 0 THEN "ensure" ELSE "type", h, sessions[c][h]))
            /\ UNCHANGED passed
    /\ UNCHANGED <<daemonVars, monitor, proxy, failure, newer, sessions, opened, applied, noticed>>

(* A new session for the key's handle, before the call or for the retry.   *)
SessionCreated(c) ==
    /\ ui[c].op \in {"ensure", "recreate"}
    /\ Answered(c, "ui")
    /\ LET h == ui[c].handle
           id == reply[c].id
       IN  IF reply[c].kind = "created"
           THEN /\ Store(c, h, id)
                /\ Goto(c, UI(IF ui[c].op = "ensure" THEN "type" ELSE "retry", h, id))
                /\ UNCHANGED <<failure, newer, passed, noticed>>
           ELSE MarkFailed(c) /\ PassThrough(c) /\ Goto(c, Idle)
    /\ UNCHANGED <<up, starts, late, made, engines, inbox, monitor, opened, pressed, applied>>

(* Mutant: an error is also answered with a new session and a retry.       *)
KeyAnsweredRetries(c) ==
    /\ ui[c].op = "type"
    /\ Answered(c, "ui")
    /\ IF reply[c].kind \in {"invalid", "error"}
       THEN /\ Goto(c, UI("recreate", ui[c].handle, 0))
            /\ UNCHANGED <<failure, newer, sessions, passed, noticed>>
       ELSE /\ Goto(c, Idle) /\ MarkRecovered(c)
            /\ UNCHANGED <<newer, sessions, passed, noticed>>
    /\ UNCHANGED <<up, starts, late, made, engines, inbox, monitor, opened, pressed, applied>>

KeyAnswered(c) ==
    /\ ui[c].op = "type"
    /\ Answered(c, "ui")
    /\ \/ /\ reply[c].kind = "invalid"
          /\ Goto(c, UI("recreate", ui[c].handle, 0))
          /\ UNCHANGED <<failure, newer, sessions, passed, noticed>>
       \/ /\ reply[c].kind = "done"
          /\ Goto(c, Idle) /\ MarkRecovered(c)
          /\ UNCHANGED <<newer, sessions, passed, noticed>>
       \/ /\ reply[c].kind = "error"
          /\ Goto(c, Idle) /\ MarkFailed(c) /\ PassThrough(c)
    /\ UNCHANGED <<up, starts, late, made, engines, inbox, monitor, opened, pressed, applied>>

(* The retry's answer is final; an adapter passes the key on when even the *)
(* new session is invalid.                                                 *)
RetryAnswered(c) ==
    /\ ui[c].op = "retry"
    /\ Answered(c, "ui")
    /\ Goto(c, Idle)
    /\ IF reply[c].kind = "error"
       THEN MarkFailed(c) /\ PassThrough(c)
       ELSE /\ MarkRecovered(c)
            /\ IF reply[c].kind = "invalid" THEN PassThrough(c) ELSE UNCHANGED passed
            /\ UNCHANGED <<newer, sessions, noticed>>
    /\ UNCHANGED <<up, starts, late, made, engines, inbox, monitor, opened, pressed, applied>>

Request(c) ==
    LET who == <<c, ui[c].handle>>
    IN  IF ui[c].op = "close" THEN DestroySession(ui[c].id, who)
        ELSE IF ui[c].op \in {"type", "retry"} THEN ProcessKey(ui[c].id, who, pressed[c])
        ELSE CreateSession(who)

UISends(c) ==
    /\ ui[c] # Idle
    /\ Send(c, "ui", Request(c))
    /\ UNCHANGED <<up, starts, late, made, engines, reply, ui, monitor, failure, newer, sessions, opened,
                   pressed, passed, applied, noticed>>

UIReceives(c) == HandleOpened(c) \/ HandleClosed(c) \/ SessionCreated(c) \/ KeyAnswered(c)
                 \/ RetryAnswered(c)
----------------------------------------------------------------------------
(* monitor_loop                                                            *)
uiVars == <<ui, sessions, opened, pressed, passed, applied, noticed>>

MonitorWakes(c) ==
    /\ monitor[c].at = "waiting" /\ failure[c] # "none"
    /\ monitor' = [monitor EXCEPT ![c] = Monitor("sleeping", 0)]
    /\ newer' = [newer EXCEPT ![c] = FALSE]
    /\ UNCHANGED <<daemonVars, uiVars, proxy, failure>>

(* It has slept for the cooldown of the failure it saw: that cooldown is    *)
(* over too, unless another failure has been recorded meanwhile.           *)
CooldownSlept(c) ==
    /\ monitor[c].at = "sleeping"
    /\ InCooldown(c) => newer[c]
    /\ monitor' = [monitor EXCEPT ![c] = Monitor("probe", 0)]
    /\ UNCHANGED <<daemonVars, uiVars, proxy, failure, newer>>

MonitorSends(c) ==
    /\ \/ /\ monitor[c].at = "probe"
          /\ Send(c, "monitor", CreateSession(<<c, 0>>))
       \/ /\ monitor[c].at = "cleanup"
          /\ Send(c, "monitor", DestroySession(monitor[c].id, <<c, 0>>))
    /\ UNCHANGED <<up, starts, late, made, engines, reply, uiVars, monitor, failure, newer>>

(* Mutant: the proxy's mutex stays locked while the monitor sleeps.         *)
ProbeAnsweredHolds(c) ==
    /\ monitor[c].at = "probe"
    /\ proxy[c] = "monitor"
    /\ reply[c] # NoReply
    /\ reply' = [reply EXCEPT ![c] = NoReply]
    /\ IF reply[c].kind = "created"
       THEN /\ proxy' = [proxy EXCEPT ![c] = "free"]
            /\ monitor' = [monitor EXCEPT ![c] = Monitor("cleanup", reply[c].id)]
            /\ UNCHANGED <<failure, newer>>
       ELSE /\ UNCHANGED proxy
            /\ monitor' = [monitor EXCEPT ![c] = Monitor("sleeping", 0)]
            /\ failure' = [failure EXCEPT ![c] = "recent"]
            /\ newer' = [newer EXCEPT ![c] = FALSE]
    /\ UNCHANGED <<up, starts, late, made, engines, inbox, uiVars>>

(* Mutant: the monitor ends when a probe fails.                             *)
ProbeAnsweredGivesUp(c) ==
    /\ monitor[c].at = "probe"
    /\ Answered(c, "monitor")
    /\ monitor' = [monitor EXCEPT ![c] =
                      IF reply[c].kind = "created" THEN Monitor("cleanup", reply[c].id)
                      ELSE Monitor("ended", 0)]
    /\ UNCHANGED <<up, starts, late, made, engines, inbox, uiVars, failure, newer>>

ProbeAnswered(c) ==
    /\ monitor[c].at = "probe"
    /\ Answered(c, "monitor")
    /\ IF reply[c].kind = "created"
       THEN /\ monitor' = [monitor EXCEPT ![c] = Monitor("cleanup", reply[c].id)]
            /\ UNCHANGED <<failure, newer>>
       ELSE /\ monitor' = [monitor EXCEPT ![c] = Monitor("sleeping", 0)]
            /\ failure' = [failure EXCEPT ![c] = "recent"]
            /\ newer' = [newer EXCEPT ![c] = FALSE]
    /\ UNCHANGED <<up, starts, late, made, engines, inbox, uiVars>>

CleanupAnswered(c) ==
    /\ monitor[c].at = "cleanup"
    /\ Answered(c, "monitor")
    /\ monitor' = [monitor EXCEPT ![c] = Monitor("recover", 0)]
    /\ UNCHANGED <<up, starts, late, made, engines, inbox, uiVars, failure, newer>>

ProbeRecovers(c) ==
    /\ monitor[c].at = "recover"
    /\ monitor' = [monitor EXCEPT ![c] = Monitor("waiting", 0)]
    /\ MarkRecovered(c)
    /\ UNCHANGED <<daemonVars, uiVars, proxy, newer>>
----------------------------------------------------------------------------
(* The surroundings.                                                       *)
clientVars == <<uiVars, monitor, proxy, failure, newer>>

Serve(c) ==
    /\ Handle(c)
    /\ LET r == Head(inbox[c])
       IN  applied' = IF r.op = "key" /\ r.id \in DOMAIN engines
                      THEN [applied EXCEPT ![c][r.key] = @ + 1] ELSE applied
    /\ UNCHANGED <<ui, sessions, opened, pressed, passed, noticed, monitor, proxy, failure, newer>>

DaemonStops ==
    /\ Crash
    /\ noticed' = [c \in Client |-> FALSE]
    /\ UNCHANGED <<ui, sessions, opened, pressed, passed, applied, monitor, proxy, failure, newer>>

DaemonStarts  == Start /\ UNCHANGED clientVars
CallFails(c)  == BusGivesUp(c) /\ UNCHANGED clientVars
TimesOut(c)   == CallTimesOut(c) /\ UNCHANGED clientVars

CooldownElapses(c) ==
    /\ failure[c] = "recent"
    /\ failure' = [failure EXCEPT ![c] = "old"]
    /\ UNCHANGED <<daemonVars, uiVars, monitor, proxy, newer>>

Next ==
    \/ DaemonStops \/ DaemonStarts
    \/ \E c \in Client :
          \/ OpenHandle(c) \/ HandleOpened(c) \/ HandleClosed(c) \/ SessionCreated(c)
          \/ KeyAnswered(c) \/ RetryAnswered(c) \/ UISends(c)
          \/ \E h \in DOMAIN sessions[c] : CloseHandle(c, h) \/ PressKey(c, h)
          \/ MonitorWakes(c) \/ CooldownSlept(c) \/ MonitorSends(c)
          \/ ProbeAnswered(c) \/ CleanupAnswered(c) \/ ProbeRecovers(c)
          \/ Serve(c) \/ CallFails(c) \/ TimesOut(c) \/ CooldownElapses(c)

(* Both threads go on and the daemon handles what it receives; time passes. *)
(* A thread that waits for the proxy's mutex gets it: the other one holds  *)
(* it for one call and spends seconds, or a keystroke, without it.  No     *)
(* user need type, and nothing makes the daemon come back.                 *)
Fairness == \A c \in Client :
    /\ SF_vars(UISends(c)) /\ WF_vars(UIReceives(c))
    /\ SF_vars(MonitorSends(c)) /\ WF_vars(MonitorWakes(c)) /\ WF_vars(CooldownSlept(c))
    /\ WF_vars(ProbeAnswered(c)) /\ WF_vars(CleanupAnswered(c)) /\ WF_vars(ProbeRecovers(c))
    /\ WF_vars(Serve(c)) /\ WF_vars(CallFails(c)) /\ WF_vars(CooldownElapses(c))

Spec     == Init /\ [][Next]_vars
FairSpec == Spec /\ Fairness
=============================================================================
