--------------------------- MODULE ReconnectSafety ---------------------------
(***************************************************************************)
(* Proofs about the clients and the daemon's sessions: the inductive       *)
(* invariant, that every step keeps it, and what follows from it: no key   *)
(* is lost or typed twice, and noticed failures leave only fresh ids.      *)
(***************************************************************************)
EXTENDS ReconnectProperties, TLAPS

(* ---- the invariant ---- *)

KeyCalls(c) == {i \in DOMAIN inbox[c] : inbox[c][i].op = "key"}
KeyOf(c, i) == inbox[c][i].key

(* The key being typed has not been processed and is on its way in no call.  *)
Untyped(c) ==
    applied[c][pressed[c]] = 0 /\ \A i \in KeyCalls(c) : KeyOf(c, i) # pressed[c]

(* The UI thread, its handle and its key.                                   *)
ThreadOK(c) ==
    /\ ui[c].op = "idle" => ui[c] = Idle /\ proxy[c] # "ui"
    /\ ui[c].op # "idle" => ui[c].handle \in 1 .. opened[c]
    /\ ui[c].op \in Typing => pressed[c] >= 1

(* Of the calls waiting to be handled, at most the last has a caller who     *)
(* waits for it; a key is on its way at most once, and not once processed.   *)
CallsOK(c) ==
    /\ \A i \in DOMAIN inbox[c] : inbox[c][i].live =>
          /\ i = Len(inbox[c]) /\ reply[c] = NoReply /\ proxy[c] # "free"
          /\ IF proxy[c] = "ui" THEN inbox[c][i] = Request(c) ELSE inbox[c][i].op # "key"
    /\ reply[c] # NoReply => proxy[c] # "free"
    /\ \A i \in KeyCalls(c) : KeyOf(c, i) \in 1 .. pressed[c] /\ applied[c][KeyOf(c, i)] = 0
    /\ \A i, j \in KeyCalls(c) : i # j => KeyOf(c, i) # KeyOf(c, j)

(* What an answer to the UI thread says about its key and its session.       *)
ReplyOK(c) ==
    proxy[c] = "ui" /\ reply[c] # NoReply =>
        /\ ui[c].op \in {"type", "retry"} =>
              /\ reply[c].kind \in {"done", "invalid", "error"}
              /\ reply[c].kind = "done" => applied[c][pressed[c]] > 0
              /\ reply[c].kind = "invalid" => Untyped(c)
        /\ reply[c].kind = "created" /\ noticed[c] =>
              reply[c].id \in 1 .. Len(made) /\ made[reply[c].id] = <<c, ui[c].handle>>

KeysOK(c) ==
    /\ ui[c].op \in {"ensure", "recreate"} => Untyped(c)
    /\ ui[c].op \in {"type", "retry"} /\ proxy[c] # "ui" => Untyped(c)
    /\ \A n \in 1 .. MaxKeys : /\ applied[c][n] <= 1
                               /\ n > pressed[c] => applied[c][n] = 0
    /\ \A n \in Finished(c) : applied[c][n] > 0 \/ n \in passed[c]

FreshOK(c) ==
    noticed[c] => \A h \in DOMAIN sessions[c] :
        sessions[c][h] # 0 => /\ sessions[c][h] \in 1 .. Len(made)
                              /\ made[sessions[c][h]] = <<c, h>>

ClientOK(c) == ThreadOK(c) /\ CallsOK(c) /\ ReplyOK(c) /\ KeysOK(c) /\ FreshOK(c)

IInv == TypeOK /\ DOMAIN sessions = Client /\ \A c \in Client : ClientOK(c)

(* ---- steps of one client ---- *)

(* What a step of client c leaves alone for another client.                 *)
Untouched(d) ==
    /\ ui'[d] = ui[d] /\ proxy'[d] = proxy[d] /\ inbox'[d] = inbox[d] /\ reply'[d] = reply[d]
    /\ pressed'[d] = pressed[d] /\ applied'[d] = applied[d] /\ passed'[d] = passed[d]
    /\ noticed'[d] = noticed[d] /\ sessions'[d] = sessions[d] /\ opened'[d] = opened[d]

MadeGrows ==
    /\ Len(made) \in Nat /\ Len(made') \in Nat /\ Len(made) <= Len(made')
    /\ \A i \in 1 .. Len(made) : made'[i] = made[i]

(* What a step leaves alone keeps its part of the invariant.                *)
LEMMA Bystander ==
    ASSUME NEW d \in Client, ClientOK(d), Untouched(d), MadeGrows
    PROVE  ClientOK(d)'
<1> USE DEF Untouched
<1>1. Untyped(d)' = Untyped(d)
  BY DEF Untyped, KeyCalls, KeyOf
<1>2. Request(d)' = Request(d)
  BY DEF Request
<1>3. ThreadOK(d)'
  BY DEF ClientOK, ThreadOK
<1>4. CallsOK(d)'
  BY <1>2 DEF ClientOK, CallsOK, KeyCalls, KeyOf
<1>5. ReplyOK(d)'
  BY <1>1 DEF ClientOK, ReplyOK, MadeGrows
<1>6. KeysOK(d)'
  BY <1>1 DEF ClientOK, KeysOK, Finished
<1>7. FreshOK(d)'
  BY DEF ClientOK, FreshOK, MadeGrows
<1> QED
  BY <1>3, <1>4, <1>5, <1>6, <1>7 DEF ClientOK

(* A step of client c keeps the invariant if it keeps c's part of it.        *)
LEMMA OneClientSteps ==
    ASSUME IInv, NEW c \in Client, TypeOK', DOMAIN sessions' = Client, MadeGrows,
           \A d \in Client \ {c} : Untouched(d), ClientOK(c)'
    PROVE  IInv'
  BY Bystander DEF IInv

(* ---- types ---- *)

(* What the UI thread asks of the daemon is a call.                         *)
LEMMA CallTypes ==
    ASSUME TypeOK, NEW c \in Client, ThreadOK(c)
    PROVE  ui[c].op # "idle" => Request(c) \in Call
<1> USE ClientAssumption
<1>1. ui[c] \in Activity /\ pressed[c] \in 0 .. MaxKeys
  BY DEF TypeOK
<1>2. ui[c].op # "idle" => <<c, ui[c].handle>> \in Context
  BY <1>1 DEF Activity, Context
<1> QED
  BY <1>1, <1>2 DEF Request, CreateSession, DestroySession, ProcessKey, Call, Activity, Ids

(* Sending the UI thread's call keeps every type.                           *)
LEMMA UISendsTypes ==
    ASSUME IInv, NEW c \in Client, UISends(c)
    PROVE  TypeOK' /\ DOMAIN sessions' = Client
<1>1. Request(c) \in Call
  BY CallTypes DEF IInv, ClientOK, UISends, ThreadOK
<1> QED
  BY <1>1 DEF IInv, TypeOK, UISends, Send

(* The handles of a client and the ids they stand for.                      *)
HandlesTyped(d) ==
    DOMAIN sessions[d] \subseteq 1 .. opened[d] /\ \A h \in DOMAIN sessions[d] : sessions[d][h] \in Ids

(* Storing an id changes the entry of one handle of one client.             *)
LEMMA Stored ==
    ASSUME DOMAIN sessions = Client, NEW c \in Client, NEW h, NEW id, Store(c, h, id)
    PROVE  /\ DOMAIN sessions' = Client
           /\ \A d \in Client \ {c} : sessions'[d] = sessions[d]
           /\ DOMAIN sessions'[c] = DOMAIN sessions[c] \cup {h}
           /\ \A i \in DOMAIN sessions'[c] :
                 sessions'[c][i] = IF i = h THEN id ELSE sessions[c][i]
  BY DEF Store

(* create_handle keeps every type, with a session or in the cooldown.       *)
LEMMA OpenHandleTypes ==
    ASSUME IInv, NEW c \in Client, OpenHandle(c)
    PROVE  TypeOK' /\ DOMAIN sessions' = Client
<1> USE ClientAssumption
<1>1. /\ opened[c] \in 0 .. MaxHandles /\ opened[c] < MaxHandles /\ opened'[c] = opened[c] + 1
      /\ opened' \in [Client -> 0 .. MaxHandles] /\ \A d \in Client \ {c} : opened'[d] = opened[d]
  BY DEF IInv, TypeOK, OpenHandle
<1>2. DOMAIN sessions = Client /\ \A d \in Client : HandlesTyped(d)
  BY DEF IInv, TypeOK, HandlesTyped
<1>3. CASE InCooldown(c)
  <2>1. Store(c, opened[c] + 1, 0) /\ UNCHANGED ui
    BY <1>3 DEF OpenHandle
  <2>2. DOMAIN sessions' = Client /\ \A d \in Client : HandlesTyped(d)'
    BY <1>1, <1>2, <2>1, Stored DEF HandlesTyped, Ids
  <2> QED
    BY <1>1, <2>1, <2>2 DEF IInv, TypeOK, OpenHandle, daemonVars, HandlesTyped
<1>4. CASE ~InCooldown(c)
  <2>1. UI("open", opened[c] + 1, 0) \in Activity
    BY <1>1 DEF UI, Activity, Ids
  <2>2. ui' = [ui EXCEPT ![c] = UI("open", opened[c] + 1, 0)] /\ UNCHANGED sessions
    BY <1>4 DEF OpenHandle, Goto
  <2>3. \A d \in Client : HandlesTyped(d)'
    BY <1>1, <1>2, <2>2 DEF HandlesTyped
  <2> QED
    BY <1>1, <1>2, <2>1, <2>2, <2>3 DEF IInv, TypeOK, OpenHandle, daemonVars, HandlesTyped
<1> QED
  BY <1>3, <1>4

(* The answer to create_handle's call keeps every type.                     *)
LEMMA HandleOpenedTypes ==
    ASSUME IInv, NEW c \in Client, HandleOpened(c)
    PROVE  TypeOK' /\ DOMAIN sessions' = Client
<1>1. reply[c] \in Reply /\ ui[c].handle \in 1 .. opened[c]
  BY DEF IInv, TypeOK, HandleOpened, ClientOK, ThreadOK
<1>2. DOMAIN sessions = Client /\ \A d \in Client : HandlesTyped(d)
  BY DEF IInv, TypeOK, HandlesTyped
<1>3. Idle \in Activity /\ NoReply \in Reply
  BY ClientAssumption DEF Idle, Activity, NoReply, Reply, Ids
<1>4. reply' \in [Client -> Reply] /\ ui' \in [Client -> Activity] /\ proxy' \in [Client -> {"free", "ui", "monitor"}]
  BY <1>3 DEF IInv, TypeOK, HandleOpened, Answered, Goto
<1>5. UNCHANGED opened
  BY DEF HandleOpened
<1>6. CASE reply[c].kind = "created"
  <2>1. Store(c, ui[c].handle, reply[c].id) /\ UNCHANGED <<failure, newer, noticed>>
    BY <1>6 DEF HandleOpened
  <2>2. DOMAIN sessions' = Client /\ \A d \in Client : HandlesTyped(d)'
    BY <1>1, <1>2, <1>5, <2>1, Stored DEF HandlesTyped, Ids, Reply
  <2> QED
    BY <1>4, <2>1, <2>2 DEF IInv, TypeOK, HandleOpened, HandlesTyped
<1>7. CASE reply[c].kind # "created"
  <2>1. DOMAIN sessions' = Client /\ \A d \in Client : HandlesTyped(d)'
    BY <1>1, <1>2, <1>5, <1>7 DEF HandlesTyped, Ids, HandleOpened
  <2>2. /\ failure' \in [Client -> {"none", "recent", "old"}]
        /\ newer' \in [Client -> BOOLEAN] /\ noticed' \in [Client -> BOOLEAN]
    BY <1>7 DEF HandleOpened, IInv, TypeOK
  <2> QED
    BY <1>4, <2>1, <2>2 DEF IInv, TypeOK, HandleOpened, HandlesTyped
<1> QED
  BY <1>6, <1>7

(* destroy_handle keeps every type.                                         *)
LEMMA CloseHandleTypes ==
    ASSUME IInv, NEW c \in Client, NEW h \in DOMAIN sessions[c], CloseHandle(c, h)
    PROVE  TypeOK' /\ DOMAIN sessions' = Client
<1>1. h \in 0 .. MaxHandles /\ sessions[c][h] \in Ids
  BY ClientAssumption DEF IInv, TypeOK
<1>2. UI("close", h, sessions[c][h]) \in Activity
  BY <1>1 DEF UI, Activity
<1>3. ui' \in [Client -> Activity]
  BY <1>2 DEF CloseHandle, Goto, IInv, TypeOK
<1>4. DOMAIN sessions' = Client /\ \A d \in Client : HandlesTyped(d)'
  BY DEF CloseHandle, IInv, TypeOK, HandlesTyped
<1> QED
  BY <1>3, <1>4 DEF CloseHandle, IInv, TypeOK, HandlesTyped, daemonVars

(* A failure is recorded: every handle's id is forgotten.                   *)
LEMMA MarkFailedTypes ==
    ASSUME IInv, NEW c \in Client, MarkFailed(c), UNCHANGED opened
    PROVE  /\ failure' \in [Client -> {"none", "recent", "old"}]
           /\ newer' \in [Client -> BOOLEAN] /\ noticed' \in [Client -> BOOLEAN]
           /\ DOMAIN sessions' = Client /\ \A d \in Client : HandlesTyped(d)'
  BY DEF MarkFailed, IInv, TypeOK, HandlesTyped, Ids

(* Taking an answer: the slot is empty again and the mutex free.            *)
LEMMA AnsweredTypes ==
    ASSUME IInv, NEW c \in Client, NEW thread, Answered(c, thread)
    PROVE  /\ reply[c] \in Reply /\ reply' \in [Client -> Reply]
           /\ proxy' \in [Client -> {"free", "ui", "monitor"}]
  BY DEF Answered, IInv, TypeOK, NoReply, Reply, Ids

(* A thread that is done is in a legal state.                               *)
LEMMA IdleTypes ==
    ASSUME IInv, NEW c \in Client
    PROVE  [ui EXCEPT ![c] = Idle] \in [Client -> Activity]
  BY ClientAssumption DEF IInv, TypeOK, Idle, Activity, Ids

(* A key given to the application was typed.                                *)
LEMMA PassThroughTypes ==
    ASSUME IInv, NEW c \in Client, ui[c].op \in Typing, PassThrough(c)
    PROVE  passed' \in [Client -> SUBSET (1 .. MaxKeys)]
<1>1. pressed[c] \in 1 .. MaxKeys
  BY ClientAssumption DEF IInv, TypeOK, ClientOK, ThreadOK
<1> QED
  BY <1>1 DEF IInv, TypeOK, PassThrough

(* The answer to destroy_handle's call keeps every type.                    *)
LEMMA HandleClosedTypes ==
    ASSUME IInv, NEW c \in Client, HandleClosed(c)
    PROVE  TypeOK' /\ DOMAIN sessions' = Client
  BY AnsweredTypes, IdleTypes DEF HandleClosed, Goto, IInv, TypeOK

(* process_key's start keeps every type.                                    *)
LEMMA PressKeyTypes ==
    ASSUME IInv, NEW c \in Client, NEW h \in DOMAIN sessions[c], PressKey(c, h)
    PROVE  TypeOK' /\ DOMAIN sessions' = Client
<1> USE ClientAssumption
<1>1. h \in 0 .. MaxHandles /\ sessions[c][h] \in Ids
  BY DEF IInv, TypeOK
<1>2. UI(IF sessions[c][h] = 0 THEN "ensure" ELSE "type", h, sessions[c][h]) \in Activity
  BY <1>1 DEF UI, Activity
<1>3. ui' \in [Client -> Activity]
  BY <1>2 DEF PressKey, Goto, IInv, TypeOK
<1>4. pressed[c] + 1 \in 1 .. MaxKeys
  BY DEF PressKey, IInv, TypeOK
<1>5. pressed' \in [Client -> 0 .. MaxKeys]
  BY <1>4 DEF PressKey, IInv, TypeOK
<1>6. passed' = [passed EXCEPT ![c] = @ \cup {pressed[c] + 1}] \/ UNCHANGED passed
  BY DEF PressKey
<1>7. passed \in [Client -> SUBSET (1 .. MaxKeys)]
  BY DEF IInv, TypeOK
<1>8. passed[c] \cup {pressed[c] + 1} \in SUBSET (1 .. MaxKeys)
  BY <1>4, <1>7
<1>9. passed' \in [Client -> SUBSET (1 .. MaxKeys)]
  BY <1>6, <1>7, <1>8
<1> QED
  BY <1>3, <1>5, <1>9 DEF PressKey, IInv, TypeOK, daemonVars

(* ensure_daemon_session's answer keeps every type.                         *)
LEMMA SessionCreatedTypes ==
    ASSUME IInv, NEW c \in Client, SessionCreated(c)
    PROVE  TypeOK' /\ DOMAIN sessions' = Client
<1>1. ui[c].op \in Typing /\ ui[c].handle \in 1 .. opened[c] /\ ui[c].handle \in 0 .. MaxHandles
  BY DEF IInv, TypeOK, SessionCreated, ClientOK, ThreadOK, Typing, Activity
<1>2. /\ reply[c] \in Reply /\ reply' \in [Client -> Reply]
      /\ proxy' \in [Client -> {"free", "ui", "monitor"}]
  BY AnsweredTypes DEF SessionCreated
<1>3. UNCHANGED opened /\ DOMAIN sessions = Client /\ \A d \in Client : HandlesTyped(d)
  BY DEF SessionCreated, IInv, TypeOK, HandlesTyped
<1>4. CASE reply[c].kind = "created"
  <2>1. UI(IF ui[c].op = "ensure" THEN "type" ELSE "retry", ui[c].handle, reply[c].id) \in Activity
    BY <1>1, <1>2 DEF UI, Activity, Reply
  <2>2. /\ Store(c, ui[c].handle, reply[c].id)
        /\ ui' = [ui EXCEPT ![c] = UI(IF ui[c].op = "ensure" THEN "type" ELSE "retry",
                                       ui[c].handle, reply[c].id)]
        /\ UNCHANGED <<failure, newer, passed, noticed>>
    BY <1>4 DEF SessionCreated, Goto
  <2>3. DOMAIN sessions' = Client /\ \A d \in Client : HandlesTyped(d)'
    BY <1>1, <1>2, <1>3, <2>2, Stored DEF HandlesTyped, Reply
  <2> QED
    BY <1>2, <2>1, <2>2, <2>3 DEF SessionCreated, IInv, TypeOK, HandlesTyped
<1>5. CASE reply[c].kind # "created"
  <2>1. MarkFailed(c) /\ PassThrough(c) /\ Goto(c, Idle)
    BY <1>5 DEF SessionCreated
  <2> QED
    BY <1>1, <1>2, <1>3, <2>1, MarkFailedTypes, PassThroughTypes, IdleTypes
    DEF SessionCreated, IInv, TypeOK, HandlesTyped, Goto
<1> QED
  BY <1>4, <1>5

(* The answer to a key keeps every type.                                    *)
LEMMA KeyAnsweredTypes ==
    ASSUME IInv, NEW c \in Client, KeyAnswered(c)
    PROVE  TypeOK' /\ DOMAIN sessions' = Client
<1>1. ui[c].op \in Typing /\ ui[c].handle \in 0 .. MaxHandles
  BY DEF IInv, TypeOK, KeyAnswered, Typing, Activity
<1>2. reply' \in [Client -> Reply] /\ proxy' \in [Client -> {"free", "ui", "monitor"}]
  BY AnsweredTypes DEF KeyAnswered
<1>3. UNCHANGED <<opened, made, engines, up, starts, late, inbox, monitor, pressed, applied>>
  BY DEF KeyAnswered
<1>4. CASE /\ Goto(c, UI("recreate", ui[c].handle, 0))
           /\ UNCHANGED <<failure, newer, sessions, passed, noticed>>
  <2>1. UI("recreate", ui[c].handle, 0) \in Activity
    BY <1>1 DEF UI, Activity, Ids
  <2> QED
    BY <1>2, <1>3, <1>4, <2>1 DEF IInv, TypeOK, Goto
<1>5. CASE Goto(c, Idle) /\ MarkRecovered(c) /\ UNCHANGED <<newer, sessions, passed, noticed>>
  BY <1>2, <1>3, <1>5, IdleTypes DEF IInv, TypeOK, Goto, MarkRecovered
<1>6. CASE Goto(c, Idle) /\ MarkFailed(c) /\ PassThrough(c)
  BY <1>1, <1>2, <1>3, <1>6, IdleTypes, MarkFailedTypes, PassThroughTypes
  DEF IInv, TypeOK, Goto, HandlesTyped
<1> QED
  BY <1>4, <1>5, <1>6 DEF KeyAnswered

(* The answer to a retried key keeps every type.                            *)
LEMMA RetryAnsweredTypes ==
    ASSUME IInv, NEW c \in Client, RetryAnswered(c)
    PROVE  TypeOK' /\ DOMAIN sessions' = Client
<1>1. ui[c].op \in Typing
  BY DEF RetryAnswered, Typing
<1>2. reply' \in [Client -> Reply] /\ proxy' \in [Client -> {"free", "ui", "monitor"}]
  BY AnsweredTypes DEF RetryAnswered
<1>3. UNCHANGED <<opened, made, engines, up, starts, late, inbox, monitor, pressed, applied>>
  BY DEF RetryAnswered
<1>4. CASE MarkFailed(c) /\ PassThrough(c) /\ Goto(c, Idle)
  BY <1>1, <1>2, <1>3, <1>4, IdleTypes, MarkFailedTypes, PassThroughTypes
  DEF IInv, TypeOK, Goto, HandlesTyped
<1>5. CASE /\ MarkRecovered(c) /\ (PassThrough(c) \/ UNCHANGED passed) /\ Goto(c, Idle)
           /\ UNCHANGED <<newer, sessions, noticed>>
  <2>1. passed' \in [Client -> SUBSET (1 .. MaxKeys)]
    BY <1>1, <1>5, PassThroughTypes DEF IInv, TypeOK
  <2> QED
    BY <1>2, <1>3, <1>5, <2>1, IdleTypes DEF IInv, TypeOK, Goto, MarkRecovered
<1> QED
  BY <1>4, <1>5 DEF RetryAnswered

(* Where the monitor is.                                                    *)
MonitorStates == [at : {"waiting", "sleeping", "probe", "cleanup", "recover"}, id : Ids]

(* A place in monitor_loop is a legal state of the monitor.                 *)
LEMMA MonitorTypes ==
    ASSUME NEW at \in {"waiting", "sleeping", "probe", "cleanup", "recover"}, NEW id \in Ids
    PROVE  Monitor(at, id) \in MonitorStates
  BY DEF Monitor, MonitorStates

(* The monitor's steps without a call keep every type.                      *)
LEMMA MonitorStepTypes ==
    ASSUME IInv, NEW c \in Client, MonitorWakes(c) \/ CooldownSlept(c) \/ ProbeRecovers(c)
    PROVE  TypeOK' /\ DOMAIN sessions' = Client
<1>1. 0 \in Ids
  BY DEF Ids
<1>2. /\ Monitor("sleeping", 0) \in MonitorStates /\ Monitor("probe", 0) \in MonitorStates
      /\ Monitor("waiting", 0) \in MonitorStates
  BY <1>1, MonitorTypes
<1>3. monitor \in [Client -> MonitorStates]
  BY DEF IInv, TypeOK, MonitorStates
<1>4. monitor' \in [Client -> MonitorStates]
  BY <1>2, <1>3 DEF MonitorWakes, CooldownSlept, ProbeRecovers
<1>5. /\ newer' \in [Client -> BOOLEAN] /\ failure' \in [Client -> {"none", "recent", "old"}]
      /\ UNCHANGED <<daemonVars, uiVars, proxy>>
  BY DEF IInv, TypeOK, MonitorWakes, CooldownSlept, ProbeRecovers, MarkRecovered
<1> QED
  BY <1>4, <1>5 DEF IInv, TypeOK, MonitorStates, daemonVars, uiVars

(* What the monitor asks of the daemon.                                     *)
MonitorAsks(c) == IF monitor[c].at = "probe" THEN CreateSession(<<c, 0>>)
                  ELSE DestroySession(monitor[c].id, <<c, 0>>)

(* The monitor sends a probe or its clean-up, both of them calls.           *)
LEMMA MonitorSendsStep ==
    ASSUME IInv, NEW c \in Client, MonitorSends(c)
    PROVE  Send(c, "monitor", MonitorAsks(c)) /\ MonitorAsks(c) \in Call
<1>1. Send(c, "monitor", MonitorAsks(c))
  BY DEF MonitorSends, MonitorAsks
<1>2. <<c, 0>> \in Context /\ monitor[c].id \in Ids /\ 0 \in Ids /\ 0 \in 0 .. MaxKeys
  BY ClientAssumption DEF Context, IInv, TypeOK, Ids
<1>3. MonitorAsks(c) \in Call
  BY <1>2 DEF MonitorAsks, CreateSession, DestroySession, Call
<1> QED
  BY <1>1, <1>3

(* Sending the monitor's call keeps every type.                             *)
LEMMA MonitorSendsTypes ==
    ASSUME IInv, NEW c \in Client, MonitorSends(c)
    PROVE  TypeOK' /\ DOMAIN sessions' = Client
<1>1. UNCHANGED <<up, starts, late, made, engines, reply, uiVars, monitor, failure, newer>>
  BY DEF MonitorSends
<1>2. Send(c, "monitor", MonitorAsks(c)) /\ MonitorAsks(c) \in Call
  BY MonitorSendsStep
<1>3. Append(inbox[c], MonitorAsks(c)) \in Seq(Call)
  BY <1>2 DEF IInv, TypeOK
<1>4. inbox' \in [Client -> Seq(Call)] /\ proxy' \in [Client -> {"free", "ui", "monitor"}]
  BY <1>3, <1>2 DEF IInv, TypeOK, Send
<1> QED
  BY <1>1, <1>4 DEF IInv, TypeOK, uiVars

(* The answer to a probe keeps every type.                                  *)
LEMMA ProbeAnsweredTypes ==
    ASSUME IInv, NEW c \in Client, ProbeAnswered(c)
    PROVE  TypeOK' /\ DOMAIN sessions' = Client
<1>1. /\ reply[c] \in Reply /\ reply' \in [Client -> Reply]
      /\ proxy' \in [Client -> {"free", "ui", "monitor"}]
  BY AnsweredTypes DEF ProbeAnswered
<1>2. reply[c].id \in Ids /\ 0 \in Ids
  BY <1>1 DEF Reply, Ids
<1>3. Monitor("cleanup", reply[c].id) \in MonitorStates /\ Monitor("sleeping", 0) \in MonitorStates
  BY <1>2, MonitorTypes
<1>4. monitor \in [Client -> MonitorStates]
  BY DEF IInv, TypeOK, MonitorStates
<1>5. monitor' \in [Client -> MonitorStates]
  BY <1>3, <1>4 DEF ProbeAnswered
<1>6. newer' \in [Client -> BOOLEAN] /\ failure' \in [Client -> {"none", "recent", "old"}]
  BY DEF IInv, TypeOK, ProbeAnswered
<1> QED
  BY <1>1, <1>5, <1>6 DEF ProbeAnswered, IInv, TypeOK, MonitorStates, uiVars

(* The answer to the probe's clean-up keeps every type.                     *)
LEMMA CleanupAnsweredTypes ==
    ASSUME IInv, NEW c \in Client, CleanupAnswered(c)
    PROVE  TypeOK' /\ DOMAIN sessions' = Client
<1>1. reply' \in [Client -> Reply] /\ proxy' \in [Client -> {"free", "ui", "monitor"}]
  BY AnsweredTypes DEF CleanupAnswered
<1>2. monitor' \in [Client -> MonitorStates]
  BY MonitorTypes DEF IInv, TypeOK, MonitorStates, CleanupAnswered, Ids
<1> QED
  BY <1>1, <1>2 DEF CleanupAnswered, IInv, TypeOK, MonitorStates, uiVars

(* The end of the cooldown keeps every type.                                *)
LEMMA CooldownElapsesTypes ==
    ASSUME IInv, NEW c \in Client, CooldownElapses(c)
    PROVE  TypeOK' /\ DOMAIN sessions' = Client
  BY DEF CooldownElapses, IInv, TypeOK, daemonVars, uiVars

(* The daemon's start keeps every type.                                     *)
LEMMA DaemonStartsTypes ==
    ASSUME IInv, DaemonStarts
    PROVE  TypeOK' /\ DOMAIN sessions' = Client
  BY SessionAssumption DEF DaemonStarts, Start, IInv, TypeOK, clientVars, uiVars

(* A call the bus gives up on keeps every type.                             *)
LEMMA CallFailsTypes ==
    ASSUME IInv, NEW c \in Client, CallFails(c)
    PROVE  TypeOK' /\ DOMAIN sessions' = Client
<1>1. Error \in Reply
  BY DEF Error, Reply, Ids
<1> QED
  BY <1>1 DEF CallFails, BusGivesUp, IInv, TypeOK, clientVars, uiVars

(* The daemon's end keeps every type.                                       *)
LEMMA DaemonStopsTypes ==
    ASSUME IInv, DaemonStops
    PROVE  TypeOK' /\ DOMAIN sessions' = Client
<1>1. Error \in Reply
  BY DEF Error, Reply, Ids
<1>2. reply' \in [Client -> Reply] /\ inbox' \in [Client -> Seq(Call)]
  BY <1>1 DEF DaemonStops, Crash, IInv, TypeOK
<1>3. /\ made' \in Seq(Context) /\ DOMAIN engines' \subseteq 1 .. Len(made')
      /\ \A id \in DOMAIN engines' : engines'[id] \subseteq Context
  BY DEF DaemonStops, Crash
<1> QED
  BY <1>2, <1>3 DEF DaemonStops, Crash, IInv, TypeOK

(* A call that times out keeps every type; it may still be handled.         *)
LEMMA TimesOutTypes ==
    ASSUME IInv, NEW c \in Client, TimesOut(c)
    PROVE  TypeOK' /\ DOMAIN sessions' = Client
<1>1. Error \in Reply
  BY DEF Error, Reply, Ids
<1>2. reply' \in [Client -> Reply] /\ late' \in 0 .. MaxLate
  BY <1>1, SessionAssumption DEF TimesOut, CallTimesOut, IInv, TypeOK
<1>3. inbox' \in [Client -> Seq(Call)]
  <2>1. CASE Waiting(c) /\ inbox' = [inbox EXCEPT ![c][Len(inbox[c])].live = FALSE]
    <3>1. inbox[c] \in Seq(Call) /\ Len(inbox[c]) \in DOMAIN inbox[c]
      BY <2>1 DEF IInv, TypeOK, Waiting
    <3>2. inbox[c][Len(inbox[c])] \in Call
      BY <3>1
    <3>3. [inbox[c][Len(inbox[c])] EXCEPT !.live = FALSE] \in Call
      BY <3>2 DEF Call
    <3>4. [inbox[c] EXCEPT ![Len(inbox[c])].live = FALSE] \in Seq(Call)
      BY <3>1, <3>3
    <3> QED
      BY <2>1, <3>4 DEF IInv, TypeOK
  <2>2. CASE UNCHANGED inbox
    BY <2>2 DEF IInv, TypeOK
  <2> QED
    BY <2>1, <2>2 DEF TimesOut, CallTimesOut
<1> QED
  BY <1>2, <1>3 DEF TimesOut, CallTimesOut, IInv, TypeOK, clientVars, uiVars

(* Handling a call keeps every type: sessions are the ids given out.        *)
LEMMA ServeTypes ==
    ASSUME IInv, NEW c \in Client, Serve(c)
    PROVE  TypeOK' /\ DOMAIN sessions' = Client
<1> DEFINE r == Head(inbox[c])
<1>1. inbox[c] \in Seq(Call) /\ inbox[c] # <<>> /\ r \in Call /\ Tail(inbox[c]) \in Seq(Call)
  BY DEF IInv, TypeOK, Serve, Handle
<1>2. inbox' \in [Client -> Seq(Call)]
  BY <1>1 DEF Serve, Handle, IInv, TypeOK
<1>3. made \in Seq(Context) /\ Len(made) \in Nat
  BY DEF IInv, TypeOK
<1>4. Answer(r) \in Reply
  BY <1>3 DEF Answer, Created, Invalid, Done, Reply, Ids
<1>5. reply' \in [Client -> Reply]
  BY <1>4 DEF Serve, Handle, IInv, TypeOK
<1>6. /\ made' \in Seq(Context) /\ DOMAIN engines' \subseteq 1 .. Len(made')
      /\ \A id \in DOMAIN engines' : engines'[id] \subseteq Context
  <2>1. CASE HandleCreate(r)
    <3>1. r.who \in Context
      BY <1>1 DEF Call
    <3>2. made' \in Seq(Context) /\ Len(made') = Len(made) + 1
      BY <1>3, <2>1, <3>1 DEF HandleCreate
    <3> QED
      BY <1>3, <2>1, <3>2 DEF HandleCreate, IInv, TypeOK
  <2>2. CASE HandleDestroy(r)
    BY <2>2 DEF HandleDestroy, IInv, TypeOK
  <2>3. CASE HandleKey(r)
    <3>1. r.who \in Context
      BY <1>1 DEF Call
    <3> QED
      BY <2>3, <3>1 DEF HandleKey, IInv, TypeOK
  <2> QED
    BY <2>1, <2>2, <2>3 DEF Serve, Handle
<1>7. applied' \in [Client -> [1 .. MaxKeys -> Nat]]
  <2>1. CASE r.op = "key" /\ r.id \in DOMAIN engines
    <3>1. 1 \in DOMAIN inbox[c] /\ inbox[c][1] = r
      BY <1>1
    <3>2. r.key \in 1 .. pressed[c]
      BY <2>1, <3>1 DEF IInv, ClientOK, CallsOK, KeyCalls, KeyOf
    <3>3. r.key \in 1 .. MaxKeys
      BY <3>2, ClientAssumption DEF IInv, TypeOK
    <3>4. applied \in [Client -> [1 .. MaxKeys -> Nat]]
      BY DEF IInv, TypeOK
    <3>5. applied[c] \in [1 .. MaxKeys -> Nat]
      BY <3>4
    <3>6. applied[c][r.key] \in Nat
      BY <3>3, <3>5
    <3>7. applied[c][r.key] + 1 \in Nat
      BY <3>6
    <3>8. applied' = [applied EXCEPT ![c][r.key] = @ + 1]
      BY <2>1 DEF Serve
    <3>9. [applied[c] EXCEPT ![r.key] = @ + 1] \in [1 .. MaxKeys -> Nat]
      BY <3>7, <3>5
    <3> QED
      BY <3>4, <3>8, <3>9
  <2>2. CASE ~(r.op = "key" /\ r.id \in DOMAIN engines)
    BY <2>2 DEF Serve, IInv, TypeOK
  <2> QED
    BY <2>1, <2>2
<1> QED
  BY <1>2, <1>5, <1>6, <1>7 DEF Serve, Handle, IInv, TypeOK


(* ---- the UI thread ---- *)

(* A step that creates no session keeps what is known of the ids.           *)
LEMMA MadeStays ==
    ASSUME IInv, UNCHANGED made
    PROVE  MadeGrows
<1>1. made \in Seq(Context)
  BY DEF IInv, TypeOK
<1>2. Len(made) \in Nat
  BY <1>1
<1> QED
  BY <1>2 DEF MadeGrows

(* Nothing but the UI thread's own state decides what it asks for, so a      *)
(* waiting call of the monitor stays right whatever the UI thread does.      *)
LEMMA CallsStay ==
    ASSUME NEW c \in Client, CallsOK(c), proxy[c] # "ui",
           inbox'[c] = inbox[c], reply'[c] = reply[c], proxy'[c] = proxy[c],
           applied'[c] = applied[c], pressed[c] \in Nat, pressed'[c] \in Nat,
           pressed[c] <= pressed'[c]
    PROVE  CallsOK(c)'
  BY DEF CallsOK, KeyCalls, KeyOf

(* A key stays untyped while its client's calls and engines rest.           *)
LEMMA UntypedStays ==
    ASSUME NEW c \in Client, inbox'[c] = inbox[c], applied'[c] = applied[c],
           pressed'[c] = pressed[c]
    PROVE  Untyped(c)' = Untyped(c)
  BY DEF Untyped, KeyCalls, KeyOf

(* An answer is taken: no call of the client has a caller any more.          *)
LEMMA AnswerTaken ==
    ASSUME IInv, NEW c \in Client, NEW thread, Answered(c, thread),
           UNCHANGED <<inbox, made, pressed, applied>>
    PROVE  /\ proxy'[c] = "free" /\ reply'[c] = NoReply
           /\ CallsOK(c)' /\ ReplyOK(c)' /\ MadeGrows /\ Untyped(c)' = Untyped(c)
<1>1. CallsOK(c) /\ proxy[c] = thread /\ reply[c] # NoReply
  BY DEF IInv, ClientOK, Answered
<1>2. proxy'[c] = "free" /\ reply'[c] = NoReply
  BY DEF Answered, IInv, TypeOK
<1>3. CallsOK(c)'
  BY <1>1, <1>2 DEF CallsOK, KeyCalls, KeyOf
<1>4. ReplyOK(c)'
  BY <1>2 DEF ReplyOK
<1> QED
  BY <1>2, <1>3, <1>4, MadeStays, UntypedStays

(* create_handle keeps the invariant.                                       *)
LEMMA OpenHandleKeeps ==
    ASSUME IInv, NEW c \in Client, OpenHandle(c)
    PROVE  IInv'
<1>1. /\ ui[c] = Idle /\ proxy[c] # "ui" /\ CallsOK(c) /\ KeysOK(c) /\ FreshOK(c)
      /\ DOMAIN sessions = Client /\ opened[c] \in Nat /\ pressed[c] \in Nat
  BY ClientAssumption DEF OpenHandle, IInv, ClientOK, ThreadOK, TypeOK, Idle
<1>2. /\ UNCHANGED <<inbox, reply, proxy, applied, pressed, passed, noticed, made>>
      /\ opened'[c] = opened[c] + 1
      /\ ui'[c] = Idle \/ ui'[c] = UI("open", opened[c] + 1, 0)
      /\ Store(c, opened[c] + 1, 0) \/ UNCHANGED sessions
  BY DEF OpenHandle, daemonVars, Goto, IInv, TypeOK
<1>3. ThreadOK(c)'
  BY <1>1, <1>2 DEF ThreadOK, Idle, UI, Typing
<1>4. CallsOK(c)'
  BY <1>1, <1>2, CallsStay
<1>5. ReplyOK(c)'
  BY <1>1, <1>2 DEF ReplyOK
<1>6. KeysOK(c)'
  BY <1>1, <1>2 DEF KeysOK, Finished, Typing, Idle, UI
<1>7. FreshOK(c)'
  BY <1>1, <1>2, Stored DEF FreshOK
<1>8. \A d \in Client \ {c} : Untouched(d)
  BY DEF OpenHandle, Untouched, daemonVars, Goto, Store, IInv, TypeOK
<1> QED
  BY <1>2, <1>3, <1>4, <1>5, <1>6, <1>7, <1>8, OneClientSteps, OpenHandleTypes, MadeStays
  DEF ClientOK

(* create_handle's answer: a fresh id is stored, or all are forgotten.      *)
LEMMA HandleOpenedKeeps ==
    ASSUME IInv, NEW c \in Client, HandleOpened(c)
    PROVE  IInv'
<1>1. /\ ReplyOK(c) /\ KeysOK(c) /\ FreshOK(c) /\ DOMAIN sessions = Client
      /\ ui[c].op = "open" /\ proxy[c] = "ui" /\ reply[c] # NoReply
  BY DEF HandleOpened, Answered, IInv, ClientOK
<1>2. UNCHANGED <<inbox, made, pressed, applied, passed, opened>>
  BY DEF HandleOpened
<1>3. /\ proxy'[c] = "free" /\ reply'[c] = NoReply
      /\ CallsOK(c)' /\ ReplyOK(c)' /\ MadeGrows
  BY <1>2, AnswerTaken DEF HandleOpened
<1>4. ui'[c] = Idle
  BY DEF HandleOpened, Goto, IInv, TypeOK
<1>5. ThreadOK(c)'
  BY <1>3, <1>4 DEF ThreadOK, Idle, Typing
<1>6. KeysOK(c)'
  BY <1>1, <1>2, <1>4 DEF KeysOK, Finished, Idle, Typing
<1>7. FreshOK(c)'
  <2>1. CASE reply[c].kind = "created"
    <3>1. Store(c, ui[c].handle, reply[c].id) /\ UNCHANGED noticed
      BY <2>1 DEF HandleOpened
    <3>2. noticed[c] => reply[c].id \in 1 .. Len(made) /\ made[reply[c].id] = <<c, ui[c].handle>>
      BY <1>1, <2>1 DEF ReplyOK
    <3> QED
      BY <1>1, <1>2, <3>1, <3>2, Stored DEF FreshOK
  <2>2. CASE reply[c].kind # "created"
    BY <1>1, <2>2 DEF HandleOpened, FreshOK
  <2> QED
    BY <2>1, <2>2
<1>8. \A d \in Client \ {c} : Untouched(d)
  BY DEF HandleOpened, Answered, Untouched, Goto, Store, IInv, TypeOK
<1> QED
  BY <1>3, <1>5, <1>6, <1>7, <1>8, OneClientSteps, HandleOpenedTypes DEF ClientOK

(* destroy_handle keeps the invariant.                                      *)
LEMMA CloseHandleKeeps ==
    ASSUME IInv, NEW c \in Client, NEW h \in DOMAIN sessions[c], CloseHandle(c, h)
    PROVE  IInv'
<1>1. /\ ui[c] = Idle /\ proxy[c] # "ui" /\ CallsOK(c) /\ KeysOK(c) /\ FreshOK(c)
      /\ DOMAIN sessions = Client /\ pressed[c] \in Nat /\ h \in 1 .. opened[c]
  BY ClientAssumption DEF CloseHandle, IInv, ClientOK, ThreadOK, TypeOK, Idle
<1>2. UNCHANGED <<inbox, reply, proxy, applied, pressed, passed, noticed, made, opened>>
  BY DEF CloseHandle, daemonVars
<1>3. ui'[c] = Idle \/ ui'[c] = UI("close", h, sessions[c][h])
  BY DEF CloseHandle, Goto, IInv, TypeOK
<1>4. ThreadOK(c)'
  BY <1>1, <1>2, <1>3 DEF ThreadOK, Idle, UI, Typing
<1>5. CallsOK(c)'
  BY <1>1, <1>2, CallsStay
<1>6. ReplyOK(c)'
  BY <1>1, <1>2 DEF ReplyOK
<1>7. KeysOK(c)'
  <2>1. Finished(c)' = Finished(c)
    BY <1>1, <1>2, <1>3 DEF Finished, Typing, Idle, UI
  <2> QED
    BY <1>1, <1>2, <1>3, <2>1 DEF KeysOK, Idle, UI
<1>8. FreshOK(c)'
  BY <1>1, <1>2 DEF FreshOK, CloseHandle
<1>9. \A d \in Client \ {c} : Untouched(d)
  BY DEF CloseHandle, Untouched, daemonVars, Goto, IInv, TypeOK
<1> QED
  BY <1>2, <1>4, <1>5, <1>6, <1>7, <1>8, <1>9, OneClientSteps, CloseHandleTypes, MadeStays
  DEF ClientOK

(* destroy_handle's answer keeps the invariant, an error too.               *)
LEMMA HandleClosedKeeps ==
    ASSUME IInv, NEW c \in Client, HandleClosed(c)
    PROVE  IInv'
<1>1. KeysOK(c) /\ FreshOK(c) /\ ui[c].op = "close"
  BY DEF HandleClosed, IInv, ClientOK
<1>2. UNCHANGED <<inbox, made, pressed, applied, passed, opened, sessions, noticed>>
  BY DEF HandleClosed
<1>3. /\ proxy'[c] = "free" /\ reply'[c] = NoReply
      /\ CallsOK(c)' /\ ReplyOK(c)' /\ MadeGrows
  BY <1>2, AnswerTaken DEF HandleClosed
<1>4. ui'[c] = Idle
  BY DEF HandleClosed, Goto, IInv, TypeOK
<1>5. ThreadOK(c)'
  BY <1>3, <1>4 DEF ThreadOK, Idle, Typing
<1>6. KeysOK(c)'
  BY <1>1, <1>2, <1>4 DEF KeysOK, Finished, Idle, Typing
<1>7. FreshOK(c)'
  BY <1>1, <1>2 DEF FreshOK
<1>8. \A d \in Client \ {c} : Untouched(d)
  BY DEF HandleClosed, Answered, Untouched, Goto, IInv, TypeOK
<1> QED
  BY <1>3, <1>5, <1>6, <1>7, <1>8, OneClientSteps, HandleClosedTypes DEF ClientOK

(* process_key starts with a key no call has carried yet.                   *)
LEMMA PressKeyKeeps ==
    ASSUME IInv, NEW c \in Client, NEW h \in DOMAIN sessions[c], PressKey(c, h)
    PROVE  IInv'
<1>1. /\ ui[c] = Idle /\ proxy[c] # "ui" /\ CallsOK(c) /\ KeysOK(c) /\ FreshOK(c)
      /\ DOMAIN sessions = Client /\ h \in 1 .. opened[c]
      /\ pressed[c] \in Nat /\ pressed[c] + 1 \in 1 .. MaxKeys
  BY ClientAssumption DEF PressKey, IInv, ClientOK, ThreadOK, TypeOK, Idle
<1>2. /\ UNCHANGED <<inbox, reply, proxy, applied, noticed, made, opened, sessions>>
      /\ pressed'[c] = pressed[c] + 1
  BY DEF PressKey, daemonVars, IInv, TypeOK
<1>3. \/ /\ ui'[c] = Idle /\ passed'[c] = passed[c] \cup {pressed[c] + 1}
      \/ /\ ui'[c] = UI(IF sessions[c][h] = 0 THEN "ensure" ELSE "type", h, sessions[c][h])
         /\ passed'[c] = passed[c]
  BY DEF PressKey, Goto, IInv, TypeOK
<1>4. ThreadOK(c)'
  BY <1>1, <1>2, <1>3 DEF ThreadOK, Idle, UI, Typing
<1>5. CallsOK(c)'
  BY <1>1, <1>2, CallsStay
<1>6. ReplyOK(c)'
  BY <1>1, <1>2 DEF ReplyOK
<1>7. KeysOK(c)'
  <2>1. Untyped(c)'
    <3>1. applied[c][pressed[c] + 1] = 0
      BY <1>1 DEF KeysOK
    <3>2. \A i \in KeyCalls(c) : KeyOf(c, i) # pressed[c] + 1
      BY <1>1 DEF CallsOK
    <3> QED
      BY <1>2, <3>1, <3>2 DEF Untyped, KeyCalls, KeyOf
  <2>2. \A n \in 1 .. MaxKeys : /\ applied'[c][n] <= 1
                                /\ n > pressed'[c] => applied'[c][n] = 0
    BY <1>1, <1>2 DEF KeysOK
  <2>3. \A n \in 1 .. pressed[c] : applied[c][n] > 0 \/ n \in passed[c]
    BY <1>1 DEF KeysOK, Finished, Typing, Idle
  <2>4. \A n \in Finished(c)' : applied'[c][n] > 0 \/ n \in passed'[c]
    <3>1. CASE ui'[c] = Idle /\ passed'[c] = passed[c] \cup {pressed[c] + 1}
      BY <1>1, <1>2, <2>3, <3>1 DEF Finished
    <3>2. CASE ui'[c].op \in Typing /\ passed'[c] = passed[c]
      BY <1>1, <1>2, <2>3, <3>2 DEF Finished
    <3> QED
      BY <1>3, <3>1, <3>2 DEF UI, Typing
  <2> QED
    BY <2>1, <2>2, <2>4 DEF KeysOK
<1>8. FreshOK(c)'
  BY <1>1, <1>2 DEF FreshOK
<1>9. \A d \in Client \ {c} : Untouched(d)
  BY DEF PressKey, Untouched, daemonVars, Goto, IInv, TypeOK
<1> QED
  BY <1>2, <1>4, <1>5, <1>6, <1>7, <1>8, <1>9, OneClientSteps, PressKeyTypes, MadeStays
  DEF ClientOK

(* A key whose call failed goes to the application, and every id is forgotten. *)
LEMMA KeyFails ==
    ASSUME IInv, NEW c \in Client, ui[c].op \in Typing,
           MarkFailed(c), PassThrough(c), Goto(c, Idle),
           UNCHANGED <<pressed, applied, opened>>, proxy'[c] = "free"
    PROVE  ThreadOK(c)' /\ KeysOK(c)' /\ FreshOK(c)' /\ \A d \in Client \ {c} :
               /\ ui'[d] = ui[d] /\ passed'[d] = passed[d]
               /\ noticed'[d] = noticed[d] /\ sessions'[d] = sessions[d]
<1>1. KeysOK(c) /\ pressed[c] \in 1 .. MaxKeys /\ DOMAIN sessions = Client
  BY ClientAssumption DEF IInv, ClientOK, ThreadOK, TypeOK
<1>2. ui'[c] = Idle /\ passed'[c] = passed[c] \cup {pressed[c]}
  BY DEF Goto, PassThrough, IInv, TypeOK
<1>3. \A h \in DOMAIN sessions'[c] : sessions'[c][h] = 0
  BY <1>1 DEF MarkFailed
<1>4. KeysOK(c)'
  BY <1>1, <1>2 DEF KeysOK, Finished, Idle, Typing
<1>5. FreshOK(c)'
  BY <1>3 DEF FreshOK
<1>6. ThreadOK(c)'
  BY <1>2 DEF ThreadOK, Idle, Typing
<1> QED
  BY <1>1, <1>4, <1>5, <1>6 DEF Goto, PassThrough, MarkFailed, IInv, TypeOK

(* A new session's key is still untyped, or the key is passed on.           *)
LEMMA SessionCreatedKeeps ==
    ASSUME IInv, NEW c \in Client, SessionCreated(c)
    PROVE  IInv'
<1>1. /\ ReplyOK(c) /\ KeysOK(c) /\ FreshOK(c) /\ ThreadOK(c) /\ DOMAIN sessions = Client
      /\ ui[c].op \in {"ensure", "recreate"} /\ proxy[c] = "ui" /\ reply[c] # NoReply
  BY DEF SessionCreated, Answered, IInv, ClientOK
<1>2. UNCHANGED <<inbox, made, pressed, applied, opened>>
  BY DEF SessionCreated
<1>3. /\ proxy'[c] = "free" /\ reply'[c] = NoReply
      /\ CallsOK(c)' /\ ReplyOK(c)' /\ MadeGrows /\ Untyped(c)' = Untyped(c)
  BY <1>2, AnswerTaken DEF SessionCreated
<1>4. CASE reply[c].kind = "created"
  <2>1. /\ Store(c, ui[c].handle, reply[c].id)
        /\ Goto(c, UI(IF ui[c].op = "ensure" THEN "type" ELSE "retry", ui[c].handle, reply[c].id))
        /\ UNCHANGED <<passed, noticed>>
    BY <1>4 DEF SessionCreated
  <2>2. ui'[c] = UI(IF ui[c].op = "ensure" THEN "type" ELSE "retry", ui[c].handle, reply[c].id)
    BY <2>1 DEF Goto, IInv, TypeOK
  <2>3. ThreadOK(c)'
    BY <1>1, <1>2, <2>2 DEF ThreadOK, UI, Typing
  <2>4. Untyped(c)'
    BY <1>1, <1>3 DEF KeysOK
  <2>5. Finished(c)' = Finished(c)
    BY <1>1, <1>2, <2>2 DEF Finished, UI, Typing
  <2>6. KeysOK(c)'
    BY <1>1, <1>2, <2>1, <2>4, <2>5 DEF KeysOK
  <2>7. noticed[c] => reply[c].id \in 1 .. Len(made) /\ made[reply[c].id] = <<c, ui[c].handle>>
    BY <1>1, <1>4 DEF ReplyOK
  <2>8. FreshOK(c)'
    BY <1>1, <1>2, <2>1, <2>7, Stored DEF FreshOK
  <2>9. \A d \in Client \ {c} : Untouched(d)
    BY <2>1 DEF SessionCreated, Answered, Untouched, Goto, Store, IInv, TypeOK
  <2> QED
    BY <1>3, <2>3, <2>6, <2>8, <2>9, OneClientSteps, SessionCreatedTypes DEF ClientOK
<1>5. CASE reply[c].kind # "created"
  <2>1. MarkFailed(c) /\ PassThrough(c) /\ Goto(c, Idle)
    BY <1>5 DEF SessionCreated
  <2>2. ThreadOK(c)' /\ KeysOK(c)' /\ FreshOK(c)' /\ \A d \in Client \ {c} :
               /\ ui'[d] = ui[d] /\ passed'[d] = passed[d]
               /\ noticed'[d] = noticed[d] /\ sessions'[d] = sessions[d]
    BY <1>1, <1>2, <1>3, <2>1, KeyFails DEF Typing
  <2>3. \A d \in Client \ {c} : Untouched(d)
    BY <1>2, <2>2 DEF SessionCreated, Answered, Untouched, IInv, TypeOK
  <2> QED
    BY <1>3, <2>2, <2>3, OneClientSteps, SessionCreatedTypes DEF ClientOK
<1> QED
  BY <1>4, <1>5

(* A refused key is untyped; a done one applied; a failed one passed on.    *)
LEMMA KeyAnsweredKeeps ==
    ASSUME IInv, NEW c \in Client, KeyAnswered(c)
    PROVE  IInv'
<1>1. /\ ReplyOK(c) /\ KeysOK(c) /\ FreshOK(c) /\ ThreadOK(c)
      /\ ui[c].op = "type" /\ proxy[c] = "ui" /\ reply[c] # NoReply
      /\ pressed[c] \in 1 .. MaxKeys
  BY ClientAssumption DEF KeyAnswered, Answered, IInv, ClientOK, ThreadOK, TypeOK, Typing
<1>2. UNCHANGED <<inbox, made, pressed, applied, opened>>
  BY DEF KeyAnswered
<1>3. /\ proxy'[c] = "free" /\ reply'[c] = NoReply
      /\ CallsOK(c)' /\ ReplyOK(c)' /\ MadeGrows /\ Untyped(c)' = Untyped(c)
  BY <1>2, AnswerTaken DEF KeyAnswered
<1>4. CASE /\ reply[c].kind = "invalid" /\ Goto(c, UI("recreate", ui[c].handle, 0))
           /\ UNCHANGED <<sessions, passed, noticed>>
  <2>1. ui'[c] = UI("recreate", ui[c].handle, 0)
    BY <1>4 DEF Goto, IInv, TypeOK
  <2>2. ThreadOK(c)'
    BY <1>1, <1>2, <2>1 DEF ThreadOK, UI, Typing
  <2>3. Untyped(c)'
    BY <1>1, <1>3, <1>4 DEF ReplyOK
  <2>4. Finished(c)' = Finished(c)
    BY <1>1, <1>2, <2>1 DEF Finished, UI, Typing
  <2>5. KeysOK(c)'
    BY <1>1, <1>2, <1>4, <2>3, <2>4 DEF KeysOK
  <2>6. FreshOK(c)'
    BY <1>1, <1>2, <1>4 DEF FreshOK
  <2>7. \A d \in Client \ {c} : Untouched(d)
    BY <1>2, <1>4 DEF KeyAnswered, Answered, Untouched, Goto, IInv, TypeOK
  <2> QED
    BY <1>3, <2>2, <2>5, <2>6, <2>7, OneClientSteps, KeyAnsweredTypes DEF ClientOK
<1>5. CASE /\ reply[c].kind = "done" /\ Goto(c, Idle)
           /\ UNCHANGED <<sessions, passed, noticed>>
  <2>1. ui'[c] = Idle
    BY <1>5 DEF Goto, IInv, TypeOK
  <2>2. ThreadOK(c)'
    BY <1>3, <2>1 DEF ThreadOK, Idle, Typing
  <2>3. applied[c][pressed[c]] > 0
    BY <1>1, <1>5 DEF ReplyOK
  <2>4. KeysOK(c)'
    BY <1>1, <1>2, <1>5, <2>1, <2>3 DEF KeysOK, Finished, Idle, Typing
  <2>5. FreshOK(c)'
    BY <1>1, <1>2, <1>5 DEF FreshOK
  <2>6. \A d \in Client \ {c} : Untouched(d)
    BY <1>2, <1>5 DEF KeyAnswered, Answered, Untouched, Goto, IInv, TypeOK
  <2> QED
    BY <1>3, <2>2, <2>4, <2>5, <2>6, OneClientSteps, KeyAnsweredTypes DEF ClientOK
<1>6. CASE Goto(c, Idle) /\ MarkFailed(c) /\ PassThrough(c)
  <2>1. ThreadOK(c)' /\ KeysOK(c)' /\ FreshOK(c)' /\ \A d \in Client \ {c} :
               /\ ui'[d] = ui[d] /\ passed'[d] = passed[d]
               /\ noticed'[d] = noticed[d] /\ sessions'[d] = sessions[d]
    BY <1>1, <1>2, <1>3, <1>6, KeyFails DEF Typing
  <2>2. \A d \in Client \ {c} : Untouched(d)
    BY <1>2, <2>1 DEF KeyAnswered, Answered, Untouched, IInv, TypeOK
  <2> QED
    BY <1>3, <2>1, <2>2, OneClientSteps, KeyAnsweredTypes DEF ClientOK
<1> QED
  BY <1>4, <1>5, <1>6 DEF KeyAnswered

(* After the retry the key was applied or is passed on.                     *)
LEMMA RetryAnsweredKeeps ==
    ASSUME IInv, NEW c \in Client, RetryAnswered(c)
    PROVE  IInv'
<1>1. /\ ReplyOK(c) /\ KeysOK(c) /\ FreshOK(c) /\ ThreadOK(c)
      /\ ui[c].op = "retry" /\ proxy[c] = "ui" /\ reply[c] # NoReply
      /\ pressed[c] \in 1 .. MaxKeys
  BY ClientAssumption DEF RetryAnswered, Answered, IInv, ClientOK, ThreadOK, TypeOK, Typing
<1>2. UNCHANGED <<inbox, made, pressed, applied, opened>>
  BY DEF RetryAnswered
<1>3. /\ proxy'[c] = "free" /\ reply'[c] = NoReply
      /\ CallsOK(c)' /\ ReplyOK(c)' /\ MadeGrows
  BY <1>2, AnswerTaken DEF RetryAnswered
<1>4. Goto(c, Idle) /\ ui'[c] = Idle
  BY DEF RetryAnswered, Goto, IInv, TypeOK
<1>5. CASE reply[c].kind = "error"
  <2>1. ThreadOK(c)' /\ KeysOK(c)' /\ FreshOK(c)' /\ \A d \in Client \ {c} :
               /\ ui'[d] = ui[d] /\ passed'[d] = passed[d]
               /\ noticed'[d] = noticed[d] /\ sessions'[d] = sessions[d]
    BY <1>1, <1>2, <1>3, <1>4, <1>5, KeyFails DEF Typing, RetryAnswered
  <2>2. \A d \in Client \ {c} : Untouched(d)
    BY <1>2, <2>1 DEF RetryAnswered, Answered, Untouched, IInv, TypeOK
  <2> QED
    BY <1>3, <2>1, <2>2, OneClientSteps, RetryAnsweredTypes DEF ClientOK
<1>6. CASE reply[c].kind # "error"
  <2>1. UNCHANGED <<sessions, noticed>>
    BY <1>6 DEF RetryAnswered
  <2>2. reply[c].kind \in {"done", "invalid"}
    BY <1>1, <1>6 DEF ReplyOK
  <2>3. passed'[c] = passed[c] \/ passed'[c] = passed[c] \cup {pressed[c]}
    BY <1>6 DEF RetryAnswered, PassThrough, IInv, TypeOK
  <2>4. applied[c][pressed[c]] > 0 \/ passed'[c] = passed[c] \cup {pressed[c]}
    BY <1>1, <1>6, <2>2 DEF ReplyOK, RetryAnswered, PassThrough, IInv, TypeOK
  <2>5. ThreadOK(c)'
    BY <1>3, <1>4 DEF ThreadOK, Idle, Typing
  <2>6. KeysOK(c)'
    BY <1>1, <1>2, <1>4, <2>3, <2>4 DEF KeysOK, Finished, Idle, Typing
  <2>7. FreshOK(c)'
    BY <1>1, <1>2, <2>1 DEF FreshOK
  <2>8. \A d \in Client \ {c} : passed'[d] = passed[d]
    BY <1>6 DEF RetryAnswered, PassThrough, IInv, TypeOK
  <2>9. \A d \in Client \ {c} : Untouched(d)
    BY <1>2, <2>1, <2>8 DEF RetryAnswered, Answered, Untouched, Goto, IInv, TypeOK
  <2> QED
    BY <1>3, <2>5, <2>6, <2>7, <2>9, OneClientSteps, RetryAnsweredTypes DEF ClientOK
<1> QED
  BY <1>5, <1>6

(* ---- calls sent, and the monitor's steps ---- *)

(* A call is sent: it is the last one, and the only one with a caller.       *)
LEMMA CallSent ==
    ASSUME IInv, NEW c \in Client, NEW thread \in {"ui", "monitor"}, NEW r \in Call,
           Send(c, thread, r), UNCHANGED reply
    PROVE  /\ Len(inbox[c]) \in Nat /\ DOMAIN inbox[c] = 1 .. Len(inbox[c])
           /\ Len(inbox'[c]) = Len(inbox[c]) + 1 /\ DOMAIN inbox'[c] = 1 .. Len(inbox[c]) + 1
           /\ \A i \in DOMAIN inbox[c] : inbox'[c][i] = inbox[c][i] /\ ~inbox[c][i].live
           /\ inbox'[c][Len(inbox[c]) + 1] = r
           /\ proxy'[c] = thread /\ reply'[c] = NoReply
           /\ \A d \in Client \ {c} : inbox'[d] = inbox[d] /\ proxy'[d] = proxy[d]
<1>1. inbox[c] \in Seq(Call) /\ CallsOK(c) /\ proxy[c] = "free"
  BY DEF IInv, TypeOK, ClientOK, Send
<1>2. inbox'[c] = Append(inbox[c], r) /\ proxy'[c] = thread
  BY DEF Send, IInv, TypeOK
<1>3. reply[c] = NoReply /\ \A i \in DOMAIN inbox[c] : inbox[c][i].live = FALSE
  <2>1. \A i \in DOMAIN inbox[c] : inbox[c][i] \in Call
    BY <1>1
  <2> QED
    BY <1>1, <2>1 DEF CallsOK, Call
<1> QED
  BY <1>1, <1>2, <1>3 DEF Send, IInv, TypeOK

(* The call of a key is the only one with it.                               *)
LEMMA UISendsKeeps ==
    ASSUME IInv, NEW c \in Client, UISends(c)
    PROVE  IInv'
<1>1. CallsOK(c) /\ KeysOK(c) /\ FreshOK(c) /\ ThreadOK(c) /\ ui[c] # Idle /\ ui[c].op # "idle"
  BY DEF UISends, IInv, ClientOK, ThreadOK
<1>2. UNCHANGED <<made, reply, ui, sessions, opened, pressed, passed, applied, noticed>>
  BY DEF UISends
<1>3. Request(c) \in Call /\ Request(c)' = Request(c) /\ Send(c, "ui", Request(c))
  BY <1>1, <1>2, CallTypes DEF Request, UISends, IInv
<1>4. /\ Len(inbox[c]) \in Nat /\ DOMAIN inbox[c] = 1 .. Len(inbox[c])
      /\ Len(inbox'[c]) = Len(inbox[c]) + 1 /\ DOMAIN inbox'[c] = 1 .. Len(inbox[c]) + 1
      /\ \A i \in DOMAIN inbox[c] : inbox'[c][i] = inbox[c][i] /\ ~inbox[c][i].live
      /\ inbox'[c][Len(inbox[c]) + 1] = Request(c)
      /\ proxy'[c] = "ui" /\ reply'[c] = NoReply
      /\ \A d \in Client \ {c} : inbox'[d] = inbox[d] /\ proxy'[d] = proxy[d]
  BY <1>2, <1>3, CallSent
<1>5. proxy[c] = "free"
  BY <1>3 DEF Send
<1>6. ThreadOK(c)'
  BY <1>1, <1>2 DEF ThreadOK
<1>7. CallsOK(c)'
  <2>1. \A i \in DOMAIN inbox'[c] : inbox'[c][i].live =>
            /\ i = Len(inbox'[c]) /\ inbox'[c][i] = Request(c)'
    BY <1>3, <1>4
  <2>2. Request(c).op = "key" => /\ ui[c].op \in {"type", "retry"} /\ Request(c).key = pressed[c]
    BY DEF Request, CreateSession, DestroySession, ProcessKey
  <2>3. Request(c).op = "key" => Untyped(c) /\ pressed[c] \in 1 .. pressed[c]
    BY <1>1, <1>5, <2>2, ClientAssumption DEF KeysOK, ThreadOK, Typing, IInv, TypeOK
  <2>4. \A i \in KeyCalls(c)' : \/ i \in KeyCalls(c) /\ KeyOf(c, i)' = KeyOf(c, i)
                                \/ /\ i = Len(inbox[c]) + 1 /\ Request(c).op = "key"
                                   /\ KeyOf(c, i)' = pressed[c]
    BY <1>4, <2>2 DEF KeyCalls, KeyOf
  <2>5. \A i \in KeyCalls(c)' : /\ KeyOf(c, i)' \in 1 .. pressed[c]
                                /\ applied[c][KeyOf(c, i)'] = 0
    BY <1>1, <2>3, <2>4 DEF CallsOK, Untyped
  <2>6. \A i, j \in KeyCalls(c)' : i # j => KeyOf(c, i)' # KeyOf(c, j)'
    BY <1>1, <2>3, <2>4 DEF CallsOK, Untyped
  <2> QED
    BY <1>2, <1>4, <2>1, <2>5, <2>6 DEF CallsOK, KeyOf
<1>8. ReplyOK(c)'
  BY <1>4 DEF ReplyOK
<1>9. KeysOK(c)'
  <2>1. ui[c].op \in {"ensure", "recreate"} => Untyped(c)'
    <3>1. ui[c].op \in {"ensure", "recreate"} => Request(c).op # "key"
      BY DEF Request, CreateSession
    <3>2. Request(c).op # "key" => KeyCalls(c)' = KeyCalls(c)
      BY <1>4 DEF KeyCalls
    <3>3. \A i \in KeyCalls(c) : KeyOf(c, i)' = KeyOf(c, i)
      BY <1>4 DEF KeyCalls, KeyOf
    <3> QED
      BY <1>1, <1>2, <3>1, <3>2, <3>3 DEF KeysOK, Untyped
  <2> QED
    BY <1>1, <1>2, <1>4, <2>1 DEF KeysOK, Finished
<1>10. FreshOK(c)'
  BY <1>1, <1>2 DEF FreshOK
<1>11. \A d \in Client \ {c} : Untouched(d)
  BY <1>2, <1>4 DEF Untouched
<1> QED
  BY <1>2, <1>6, <1>7, <1>8, <1>9, <1>10, <1>11, OneClientSteps, UISendsTypes, MadeStays
  DEF ClientOK

(* The monitor's steps leave the UI thread and its keys alone.               *)
LEMMA ThreadStays ==
    ASSUME NEW c \in Client, UNCHANGED <<ui, opened, pressed, passed, applied, noticed, sessions, made>>,
           ThreadOK(c), proxy'[c] = "ui" => proxy[c] = "ui", FreshOK(c)
    PROVE  ThreadOK(c)' /\ Finished(c)' = Finished(c) /\ FreshOK(c)'
  BY DEF ThreadOK, Finished, FreshOK

(* The monitor's steps without a call keep the invariant.                   *)
LEMMA MonitorStepKeeps ==
    ASSUME IInv, NEW c \in Client,
           MonitorWakes(c) \/ CooldownSlept(c) \/ ProbeRecovers(c) \/ CooldownElapses(c)
    PROVE  IInv'
<1>1. UNCHANGED <<ui, proxy, inbox, reply, pressed, applied, passed, noticed, sessions, opened, made>>
  BY DEF MonitorWakes, CooldownSlept, ProbeRecovers, CooldownElapses,
         daemonVars, uiVars
<1>2. TypeOK' /\ DOMAIN sessions' = Client
  BY MonitorStepTypes, CooldownElapsesTypes
<1>3. \A d \in Client : Untouched(d)
  BY <1>1 DEF Untouched
<1>4. ClientOK(c)'
  BY <1>1, <1>3, Bystander, MadeStays DEF IInv
<1> QED
  BY <1>1, <1>2, <1>3, <1>4, OneClientSteps, MadeStays

(* The monitor's calls carry no key.                                        *)
LEMMA MonitorSendsKeeps ==
    ASSUME IInv, NEW c \in Client, MonitorSends(c)
    PROVE  IInv'
<1>1. CallsOK(c) /\ KeysOK(c) /\ FreshOK(c) /\ ThreadOK(c)
  BY DEF IInv, ClientOK
<1>2. UNCHANGED <<made, reply, ui, sessions, opened, pressed, passed, applied, noticed>>
  BY DEF MonitorSends, uiVars
<1>3. MonitorAsks(c) \in Call /\ Send(c, "monitor", MonitorAsks(c))
  BY MonitorSendsStep
<1>4. /\ Len(inbox[c]) \in Nat /\ DOMAIN inbox[c] = 1 .. Len(inbox[c])
      /\ Len(inbox'[c]) = Len(inbox[c]) + 1 /\ DOMAIN inbox'[c] = 1 .. Len(inbox[c]) + 1
      /\ \A i \in DOMAIN inbox[c] : inbox'[c][i] = inbox[c][i] /\ ~inbox[c][i].live
      /\ inbox'[c][Len(inbox[c]) + 1] = MonitorAsks(c)
      /\ proxy'[c] = "monitor" /\ reply'[c] = NoReply
      /\ \A d \in Client \ {c} : inbox'[d] = inbox[d] /\ proxy'[d] = proxy[d]
  BY <1>2, <1>3, CallSent
<1>5. MonitorAsks(c).op # "key" /\ proxy[c] = "free"
  BY <1>3 DEF MonitorAsks, CreateSession, DestroySession, Send
<1>6. ThreadOK(c)' /\ Finished(c)' = Finished(c) /\ FreshOK(c)'
  BY <1>1, <1>2, <1>4, ThreadStays
<1>7. /\ KeyCalls(c)' = KeyCalls(c) /\ \A i \in KeyCalls(c) : KeyOf(c, i)' = KeyOf(c, i)
  BY <1>4, <1>5 DEF KeyCalls, KeyOf
<1>8. CallsOK(c)'
  <2>1. \A i \in DOMAIN inbox'[c] : inbox'[c][i].live =>
            i = Len(inbox'[c]) /\ inbox'[c][i].op # "key"
    BY <1>4, <1>5
  <2>2. \A i \in KeyCalls(c)' : /\ KeyOf(c, i)' \in 1 .. pressed[c]
                                /\ applied[c][KeyOf(c, i)'] = 0
    BY <1>1, <1>7 DEF CallsOK
  <2>3. \A i, j \in KeyCalls(c)' : i # j => KeyOf(c, i)' # KeyOf(c, j)'
    BY <1>1, <1>7 DEF CallsOK
  <2> QED
    BY <1>2, <1>4, <2>1, <2>2, <2>3 DEF CallsOK, KeyOf
<1>9. ReplyOK(c)'
  BY <1>4 DEF ReplyOK
<1>10. KeysOK(c)'
  <2>1. Untyped(c)' = Untyped(c)
    BY <1>2, <1>7 DEF Untyped
  <2> QED
    BY <1>1, <1>2, <1>5, <1>6, <2>1 DEF KeysOK
<1>11. \A d \in Client \ {c} : Untouched(d)
  BY <1>2, <1>4 DEF Untouched
<1> QED
  BY <1>2, <1>6, <1>8, <1>9, <1>10, <1>11, OneClientSteps, MonitorSendsTypes, MadeStays
  DEF ClientOK

(* The answers to the monitor concern no key and no handle.                 *)
LEMMA MonitorAnsweredKeeps ==
    ASSUME IInv, NEW c \in Client, ProbeAnswered(c) \/ CleanupAnswered(c)
    PROVE  IInv'
<1>1. CallsOK(c) /\ KeysOK(c) /\ FreshOK(c) /\ ThreadOK(c) /\ Answered(c, "monitor")
  BY DEF IInv, ClientOK, ProbeAnswered, CleanupAnswered
<1>2. UNCHANGED <<made, inbox, ui, sessions, opened, pressed, passed, applied, noticed>>
  BY DEF ProbeAnswered, CleanupAnswered, uiVars
<1>3. /\ proxy'[c] = "free" /\ reply'[c] = NoReply
      /\ CallsOK(c)' /\ ReplyOK(c)' /\ MadeGrows /\ Untyped(c)' = Untyped(c)
  BY <1>1, <1>2, AnswerTaken
<1>4. ThreadOK(c)' /\ Finished(c)' = Finished(c) /\ FreshOK(c)'
  BY <1>1, <1>2, <1>3, ThreadStays
<1>5. proxy[c] # "ui"
  BY <1>1 DEF Answered
<1>6. KeysOK(c)'
  BY <1>1, <1>2, <1>3, <1>4, <1>5 DEF KeysOK
<1>7. \A d \in Client \ {c} : Untouched(d)
  BY <1>1, <1>2 DEF Answered, Untouched, IInv, TypeOK
<1> QED
  BY <1>3, <1>4, <1>6, <1>7, OneClientSteps, ProbeAnsweredTypes, CleanupAnsweredTypes
  DEF ClientOK

(* ---- the daemon's steps ---- *)

(* Calls that are dropped or handled type no key that was not asked for.     *)
LEMMA UntypedDropped ==
    ASSUME NEW c \in Client, Untyped(c), inbox'[c] = <<>>,
           applied'[c] = applied[c], pressed'[c] = pressed[c]
    PROVE  Untyped(c)'
  BY DEF Untyped, KeyCalls, KeyOf

(* A call the bus gives up on is answered with an error.                    *)
LEMMA CallFailsKeeps ==
    ASSUME IInv, NEW c \in Client, CallFails(c)
    PROVE  IInv'
<1>1. /\ CallsOK(c) /\ KeysOK(c) /\ FreshOK(c) /\ ThreadOK(c)
      /\ inbox[c] # <<>> /\ inbox[c] \in Seq(Call) /\ inbox[c][Len(inbox[c])].live
  BY DEF IInv, TypeOK, ClientOK, CallFails, BusGivesUp, Waiting
<1>2. UNCHANGED <<made, proxy, ui, sessions, opened, pressed, passed, applied, noticed>>
  BY DEF CallFails, BusGivesUp, uiVars, clientVars
<1>3. inbox'[c] = <<>> /\ reply'[c] = Error
  BY DEF CallFails, BusGivesUp, IInv, TypeOK
<1>4. proxy[c] # "free"
  <2>1. Len(inbox[c]) \in DOMAIN inbox[c]
    BY <1>1
  <2> QED
    BY <1>1, <2>1 DEF CallsOK
<1>5. ThreadOK(c)' /\ Finished(c)' = Finished(c) /\ FreshOK(c)'
  BY <1>1, <1>2, ThreadStays
<1>6. CallsOK(c)'
  BY <1>2, <1>3, <1>4 DEF CallsOK, KeyCalls
<1>7. ReplyOK(c)'
  BY <1>3 DEF ReplyOK, Error
<1>8. KeysOK(c)'
  BY <1>1, <1>2, <1>3, <1>5, UntypedDropped DEF KeysOK
<1>9. \A d \in Client \ {c} : Untouched(d)
  BY <1>2 DEF CallFails, BusGivesUp, Untouched, IInv, TypeOK
<1> QED
  BY <1>2, <1>5, <1>6, <1>7, <1>8, <1>9, OneClientSteps, CallFailsTypes, MadeStays DEF ClientOK

(* A call that times out stays, without a caller, or was handled.           *)
LEMMA TimesOutKeeps ==
    ASSUME IInv, NEW c \in Client, TimesOut(c)
    PROVE  IInv'
<1>1. /\ CallsOK(c) /\ KeysOK(c) /\ FreshOK(c) /\ ThreadOK(c) /\ inbox[c] \in Seq(Call)
      /\ \A i \in DOMAIN inbox[c] : inbox[c][i] \in Call
  BY DEF IInv, TypeOK, ClientOK
<1>2. UNCHANGED <<made, proxy, ui, sessions, opened, pressed, passed, applied, noticed>>
  BY DEF TimesOut, CallTimesOut, uiVars, clientVars
<1>3. reply'[c] = Error
  BY DEF TimesOut, CallTimesOut, IInv, TypeOK
<1>4. /\ proxy[c] # "free" /\ DOMAIN inbox'[c] = DOMAIN inbox[c]
      /\ \A i \in DOMAIN inbox[c] : /\ ~inbox'[c][i].live
                                    /\ inbox'[c][i].op = inbox[c][i].op
                                    /\ inbox'[c][i].key = inbox[c][i].key
  <2>1. CASE Waiting(c) /\ inbox' = [inbox EXCEPT ![c][Len(inbox[c])].live = FALSE]
    <3>1. Len(inbox[c]) \in DOMAIN inbox[c] /\ inbox[c][Len(inbox[c])].live
      BY <1>1, <2>1 DEF Waiting
    <3>2. inbox'[c] = [inbox[c] EXCEPT ![Len(inbox[c])].live = FALSE]
      BY <2>1 DEF IInv, TypeOK
    <3>3. DOMAIN inbox'[c] = DOMAIN inbox[c]
      BY <3>2
    <3>4. \A i \in DOMAIN inbox[c] : i # Len(inbox[c]) => inbox'[c][i] = inbox[c][i]
      BY <3>2
    <3>5. \A i \in DOMAIN inbox[c] : i # Len(inbox[c]) => ~inbox[c][i].live
      BY <1>1 DEF CallsOK
    <3>6. inbox'[c][Len(inbox[c])] = [inbox[c][Len(inbox[c])] EXCEPT !.live = FALSE]
      BY <3>1, <3>2
    <3>7. /\ ~inbox'[c][Len(inbox[c])].live
          /\ inbox'[c][Len(inbox[c])].op = inbox[c][Len(inbox[c])].op
          /\ inbox'[c][Len(inbox[c])].key = inbox[c][Len(inbox[c])].key
      BY <1>1, <3>1, <3>6 DEF Call
    <3> QED
      BY <1>1, <3>1, <3>3, <3>4, <3>5, <3>7 DEF CallsOK
  <2>2. CASE reply[c].kind \in {"created", "done", "invalid"} /\ UNCHANGED inbox
    <3>1. reply[c] # NoReply
      BY <2>2 DEF NoReply
    <3> QED
      BY <1>1, <2>2, <3>1 DEF CallsOK
  <2> QED
    BY <2>1, <2>2 DEF TimesOut, CallTimesOut
<1>5. ThreadOK(c)' /\ Finished(c)' = Finished(c) /\ FreshOK(c)'
  BY <1>1, <1>2, ThreadStays
<1>6. KeyCalls(c)' = KeyCalls(c) /\ \A i \in KeyCalls(c) : KeyOf(c, i)' = KeyOf(c, i)
  BY <1>4 DEF KeyCalls, KeyOf
<1>7. CallsOK(c)'
  <2>1. \A i \in KeyCalls(c)' : /\ KeyOf(c, i)' \in 1 .. pressed[c]
                                /\ applied[c][KeyOf(c, i)'] = 0
    BY <1>1, <1>6 DEF CallsOK
  <2>2. \A i, j \in KeyCalls(c)' : i # j => KeyOf(c, i)' # KeyOf(c, j)'
    BY <1>1, <1>6 DEF CallsOK
  <2> QED
    BY <1>2, <1>4, <2>1, <2>2 DEF CallsOK, KeyOf
<1>8. ReplyOK(c)'
  BY <1>3 DEF ReplyOK, Error
<1>9. KeysOK(c)'
  <2>1. Untyped(c)' = Untyped(c)
    BY <1>2, <1>6 DEF Untyped
  <2> QED
    BY <1>1, <1>2, <1>5, <2>1 DEF KeysOK
<1>10. \A d \in Client \ {c} : Untouched(d)
  BY <1>2 DEF TimesOut, CallTimesOut, Untouched, IInv, TypeOK
<1> QED
  BY <1>2, <1>5, <1>7, <1>8, <1>9, <1>10, OneClientSteps, TimesOutTypes, MadeStays DEF ClientOK

(* The daemon's end drops the calls and answers those who wait.             *)
LEMMA DaemonStopsKeeps ==
    ASSUME IInv, DaemonStops
    PROVE  IInv'
<1> SUFFICES ASSUME NEW c \in Client PROVE ClientOK(c)'
  BY DaemonStopsTypes DEF IInv
<1>1. CallsOK(c) /\ KeysOK(c) /\ ThreadOK(c) /\ ReplyOK(c) /\ inbox[c] \in Seq(Call)
  BY DEF IInv, TypeOK, ClientOK
<1>2. UNCHANGED <<proxy, ui, sessions, opened, pressed, passed, applied>>
  BY DEF DaemonStops
<1>3. /\ inbox'[c] = <<>> /\ noticed'[c] = FALSE
      /\ reply'[c] = IF Waiting(c) THEN Error ELSE reply[c]
  BY DEF DaemonStops, Crash
<1>4. Waiting(c) => proxy[c] # "free"
  <2>1. Waiting(c) => Len(inbox[c]) \in DOMAIN inbox[c]
    BY <1>1 DEF Waiting
  <2> QED
    BY <1>1, <2>1 DEF CallsOK, Waiting
<1>5. ThreadOK(c)'
  BY <1>1, <1>2 DEF ThreadOK
<1>6. CallsOK(c)'
  BY <1>1, <1>2, <1>3, <1>4 DEF CallsOK, KeyCalls
<1>7. ReplyOK(c)'
  BY <1>1, <1>2, <1>3, UntypedDropped DEF ReplyOK, Error
<1>8. KeysOK(c)'
  BY <1>1, <1>2, <1>3, UntypedDropped DEF KeysOK, Finished
<1>9. FreshOK(c)'
  BY <1>3 DEF FreshOK
<1> QED
  BY <1>5, <1>6, <1>7, <1>8, <1>9 DEF ClientOK

(* Handling a call applies its key for the first time, and answers.         *)
LEMMA ServeKeeps ==
    ASSUME IInv, NEW c \in Client, Serve(c)
    PROVE  IInv'
<1> DEFINE r == inbox[c][1]
           n == Len(inbox[c])
<1>1. /\ CallsOK(c) /\ KeysOK(c) /\ ThreadOK(c) /\ ReplyOK(c) /\ FreshOK(c)
      /\ inbox[c] \in Seq(Call) /\ inbox[c] # <<>> /\ made \in Seq(Context)
      /\ pressed[c] \in 0 .. MaxKeys /\ applied[c] \in [1 .. MaxKeys -> Nat]
  BY DEF IInv, TypeOK, ClientOK, Serve, Handle
<1>2. /\ n \in Nat /\ n >= 1 /\ Head(inbox[c]) = r /\ r \in Call /\ Len(made) \in Nat
      /\ 1 \in DOMAIN inbox[c]
  BY <1>1
<1>3. /\ Len(Tail(inbox[c])) = n - 1 /\ DOMAIN Tail(inbox[c]) = 1 .. n - 1
      /\ \A i \in 1 .. n - 1 : Tail(inbox[c])[i] = inbox[c][i + 1] /\ i + 1 \in DOMAIN inbox[c]
  BY <1>1
<1>4. inbox'[c] = Tail(inbox[c])
  BY DEF Serve, Handle, IInv, TypeOK
<1>5. UNCHANGED <<ui, sessions, opened, pressed, passed, noticed, proxy>>
  BY DEF Serve
<1>6. reply'[c] = IF r.live THEN Answer(r) ELSE reply[c]
  BY <1>2 DEF Serve, Handle, IInv, TypeOK
<1>7. MadeGrows /\ (r.op = "create" => Len(made') = Len(made) + 1 /\ made'[Len(made) + 1] = r.who)
  <2>1. CASE r.op = "create" /\ HandleCreate(r)
    BY <1>1, <1>2, <2>1 DEF HandleCreate, MadeGrows
  <2>2. CASE r.op # "create" /\ UNCHANGED made
    BY <2>2, MadeStays
  <2> QED
    BY <1>2, <2>1, <2>2 DEF Serve, Handle, HandleDestroy, HandleKey
<1>8. r.op = "key" => r.key \in 1 .. pressed[c] /\ applied[c][r.key] = 0 /\ r.key \in 1 .. MaxKeys
  <2>1. r.op = "key" => r.key \in 1 .. pressed[c] /\ applied[c][r.key] = 0
    BY <1>1, <1>2 DEF CallsOK, KeyCalls, KeyOf
  <2>2. 1 .. pressed[c] \subseteq 1 .. MaxKeys
    BY <1>1, ClientAssumption
  <2> QED
    BY <2>1, <2>2
<1>9. \/ /\ r.op = "key" /\ r.id \in DOMAIN engines
         /\ applied'[c] = [applied[c] EXCEPT ![r.key] = @ + 1]
      \/ ~(r.op = "key" /\ r.id \in DOMAIN engines) /\ applied'[c] = applied[c]
  BY <1>2 DEF Serve, IInv, TypeOK
<1>10. \A m \in 1 .. MaxKeys :
          applied'[c][m] = IF r.op = "key" /\ r.id \in DOMAIN engines /\ m = r.key THEN 1
                           ELSE applied[c][m]
  <2>1. CASE r.op = "key" /\ r.id \in DOMAIN engines
    <3>1. applied'[c] = [applied[c] EXCEPT ![r.key] = @ + 1] /\ applied[c][r.key] + 1 = 1
      BY <1>8, <1>9, <2>1
    <3> QED
      BY <1>1, <1>8, <2>1, <3>1
  <2>2. CASE ~(r.op = "key" /\ r.id \in DOMAIN engines)
    BY <1>9, <2>2
  <2> QED
    BY <2>1, <2>2
<1>11. \A i \in KeyCalls(c)' : /\ i + 1 \in KeyCalls(c) /\ KeyOf(c, i)' = KeyOf(c, i + 1)
                               /\ i \in 1 .. n - 1
  BY <1>3, <1>4 DEF KeyCalls, KeyOf
<1>12. r.op = "key" => 1 \in KeyCalls(c) /\ KeyOf(c, 1) = r.key
  BY <1>2 DEF KeyCalls, KeyOf
<1>13. r.op = "key" => \A i \in KeyCalls(c)' : KeyOf(c, i)' # r.key
  BY <1>1, <1>2, <1>11, <1>12 DEF CallsOK
<1>14. Untyped(c) /\ pressed[c] \in 1 .. MaxKeys => Untyped(c)'
  <2> SUFFICES ASSUME Untyped(c), pressed[c] \in 1 .. MaxKeys PROVE Untyped(c)'
    OBVIOUS
  <2>1. r.op = "key" => r.key # pressed[c]
    BY <1>12 DEF Untyped
  <2>2. applied'[c][pressed[c]] = 0
    BY <1>10, <2>1 DEF Untyped
  <2>3. \A i \in KeyCalls(c)' : KeyOf(c, i)' # pressed[c]
    BY <1>11 DEF Untyped
  <2> QED
    BY <1>5, <2>2, <2>3 DEF Untyped
<1>15. r.live => n = 1 /\ reply[c] = NoReply /\ proxy[c] # "free"
  BY <1>1, <1>2 DEF CallsOK
<1>16. ThreadOK(c)'
  BY <1>1, <1>5 DEF ThreadOK
<1>17. CallsOK(c)'
  <2>1. Request(c)' = Request(c)
    BY <1>5 DEF Request
  <2>2. \A i \in DOMAIN inbox'[c] : inbox'[c][i].live =>
            /\ i = Len(inbox'[c]) /\ ~r.live /\ reply[c] = NoReply /\ proxy[c] # "free"
            /\ IF proxy[c] = "ui" THEN inbox'[c][i] = Request(c) ELSE inbox'[c][i].op # "key"
    BY <1>1, <1>2, <1>3, <1>4, <1>15 DEF CallsOK
  <2>3. reply'[c] # NoReply => proxy[c] # "free"
    BY <1>1, <1>6, <1>15 DEF CallsOK
  <2>4. \A i \in KeyCalls(c)' : /\ KeyOf(c, i)' \in 1 .. pressed[c]
                                /\ applied'[c][KeyOf(c, i)'] = 0
    <3> SUFFICES ASSUME NEW i \in KeyCalls(c)'
                 PROVE  KeyOf(c, i)' \in 1 .. pressed[c] /\ applied'[c][KeyOf(c, i)'] = 0
      OBVIOUS
    <3>1. KeyOf(c, i)' \in 1 .. pressed[c] /\ applied[c][KeyOf(c, i)'] = 0
      BY <1>1, <1>11 DEF CallsOK
    <3>2. KeyOf(c, i)' \in 1 .. MaxKeys
      BY <1>1, <3>1, ClientAssumption
    <3> QED
      BY <1>10, <1>13, <3>1, <3>2
  <2>5. \A i, j \in KeyCalls(c)' : i # j => KeyOf(c, i)' # KeyOf(c, j)'
    BY <1>1, <1>11 DEF CallsOK
  <2> QED
    BY <1>5, <1>6, <2>1, <2>2, <2>3, <2>4, <2>5 DEF CallsOK, KeyOf
<1>18. ReplyOK(c)'
  <2> SUFFICES ASSUME proxy[c] = "ui", reply'[c] # NoReply
               PROVE  /\ ui[c].op \in {"type", "retry"} =>
                           /\ reply'[c].kind \in {"done", "invalid", "error"}
                           /\ reply'[c].kind = "done" => applied'[c][pressed[c]] > 0
                           /\ reply'[c].kind = "invalid" => Untyped(c)'
                      /\ reply'[c].kind = "created" /\ noticed[c] =>
                           reply'[c].id \in 1 .. Len(made') /\ made'[reply'[c].id] = <<c, ui[c].handle>>
    BY <1>5 DEF ReplyOK
  <2>0. ui[c].op \in {"type", "retry"} => pressed[c] \in 1 .. MaxKeys
    BY <1>1 DEF ThreadOK, Typing
  <2>1. CASE r.live
    <3>1. r = Request(c) /\ n = 1 /\ reply'[c] = Answer(r)
      BY <1>1, <1>2, <1>6, <1>15, <2>1 DEF CallsOK
    <3>2. ui[c].op \in {"type", "retry"} => r.op = "key" /\ r.key = pressed[c]
      BY <3>1 DEF Request, ProcessKey
    <3>3. ui[c].op \in {"type", "retry"} =>
              /\ reply'[c].kind \in {"done", "invalid", "error"}
              /\ reply'[c].kind = "done" => applied'[c][pressed[c]] > 0
              /\ reply'[c].kind = "invalid" => applied'[c][pressed[c]] = 0
      BY <1>8, <1>10, <2>0, <3>1, <3>2 DEF Answer, Created, Done, Invalid
    <3>4. KeyCalls(c)' = {}
      BY <1>11, <3>1
    <3>5. reply'[c].kind = "created" =>
              r.op = "create" /\ reply'[c].id = Len(made) + 1
      BY <3>1 DEF Answer, Created, Done, Invalid
    <3>6. r.op = "create" => r.who = <<c, ui[c].handle>>
      BY <3>1 DEF Request, CreateSession, DestroySession, ProcessKey
    <3> QED
      BY <1>2, <1>5, <1>7, <3>3, <3>4, <3>5, <3>6 DEF Untyped
  <2>2. CASE ~r.live
    <3>1. reply'[c] = reply[c]
      BY <1>6, <2>2
    <3>2. ui[c].op \in {"type", "retry"} => (applied[c][pressed[c]] > 0 => applied'[c][pressed[c]] > 0)
      BY <1>10, <2>0
    <3> QED
      BY <1>1, <1>7, <1>14, <2>0, <3>1, <3>2 DEF ReplyOK, MadeGrows
  <2> QED
    BY <2>1, <2>2
<1>19. KeysOK(c)'
  <2>1. ui[c].op \in Typing => pressed[c] \in 1 .. MaxKeys
    BY <1>1 DEF ThreadOK
  <2>2. /\ ui[c].op \in {"ensure", "recreate"} => Untyped(c)'
        /\ ui[c].op \in {"type", "retry"} /\ proxy[c] # "ui" => Untyped(c)'
    BY <1>1, <1>14, <2>1 DEF KeysOK, Typing
  <2>3. \A m \in 1 .. MaxKeys : /\ applied'[c][m] <= 1
                                /\ m > pressed[c] => applied'[c][m] = 0
    BY <1>1, <1>8, <1>10 DEF KeysOK
  <2>4. 1 .. pressed[c] \subseteq 1 .. MaxKeys
    BY <1>1, ClientAssumption
  <2>5. Finished(c)' = Finished(c)
    BY <1>5 DEF Finished
  <2>6. Finished(c)' = Finished(c) /\ \A m \in Finished(c) : m \in 1 .. MaxKeys
    BY <2>4, <2>5 DEF Finished
  <2>7. \A m \in Finished(c) : applied'[c][m] > 0 \/ m \in passed[c]
    BY <1>1, <1>10, <2>6 DEF KeysOK
  <2> QED
    BY <1>5, <2>2, <2>3, <2>6, <2>7 DEF KeysOK
<1>20. FreshOK(c)'
  BY <1>1, <1>5, <1>7 DEF FreshOK, MadeGrows
<1>21. \A d \in Client \ {c} : Untouched(d)
  BY <1>5 DEF Serve, Handle, Untouched, IInv, TypeOK
<1> QED
  BY <1>7, <1>16, <1>17, <1>18, <1>19, <1>20, <1>21, OneClientSteps, ServeTypes DEF ClientOK

(* ---- the theorems ---- *)

(* Initially nothing is open, typed or on its way.                          *)
LEMMA InitOK ==
    ASSUME Init
    PROVE  IInv
<1> USE ClientAssumption, SessionAssumption
<1>1. TypeOK /\ DOMAIN sessions = Client
  BY DEF Init, DaemonInit, TypeOK, Idle, Monitor, NoReply, Call, Reply, Activity, Ids
<1>2. ASSUME NEW c \in Client PROVE ClientOK(c)
  BY DEF Init, DaemonInit, ClientOK, ThreadOK, CallsOK, ReplyOK, KeysOK, FreshOK, KeyCalls,
         Finished, Typing, Idle
<1> QED
  BY <1>1, <1>2 DEF IInv

(* Every step keeps the invariant.                                          *)
LEMMA StepOK ==
    ASSUME IInv, Next
    PROVE  IInv'
<1>1. CASE DaemonStops
  BY <1>1, DaemonStopsKeeps
<1>2. CASE \E c \in Client : \/ MonitorWakes(c) \/ CooldownSlept(c) \/ ProbeRecovers(c)
                             \/ CooldownElapses(c)
  BY <1>2, MonitorStepKeeps
<1>3. CASE DaemonStarts
  <2>1. UNCHANGED <<ui, proxy, inbox, reply, pressed, applied, passed, noticed, sessions, opened,
                    made>>
    BY <1>3 DEF DaemonStarts, Start, uiVars, clientVars
  <2>2. \A d \in Client : Untouched(d)
    BY <2>1 DEF Untouched
  <2> QED
    BY <1>3, <2>1, <2>2, Bystander, MadeStays, DaemonStartsTypes DEF IInv
<1>4. CASE \E c \in Client : OpenHandle(c) \/ HandleOpened(c) \/ HandleClosed(c)
                             \/ \E h \in DOMAIN sessions[c] : CloseHandle(c, h) \/ PressKey(c, h)
  BY <1>4, OpenHandleKeeps, HandleOpenedKeeps, HandleClosedKeeps, CloseHandleKeeps, PressKeyKeeps
<1>5. CASE \E c \in Client : SessionCreated(c) \/ KeyAnswered(c) \/ RetryAnswered(c) \/ UISends(c)
  BY <1>5, SessionCreatedKeeps, KeyAnsweredKeeps, RetryAnsweredKeeps, UISendsKeeps
<1>6. CASE \E c \in Client : MonitorSends(c) \/ ProbeAnswered(c) \/ CleanupAnswered(c)
  BY <1>6, MonitorSendsKeeps, MonitorAnsweredKeeps
<1>7. CASE \E c \in Client : Serve(c) \/ CallFails(c) \/ TimesOut(c)
  BY <1>7, ServeKeeps, CallFailsKeeps, TimesOutKeeps
<1> QED
  BY <1>1, <1>2, <1>3, <1>4, <1>5, <1>6, <1>7 DEF Next

(* So does a step that changes nothing.                                     *)
LEMMA StutterOK ==
    ASSUME IInv, UNCHANGED vars
    PROVE  IInv'
<1>1. UNCHANGED <<ui, proxy, inbox, reply, pressed, applied, passed, noticed, sessions, opened,
                  made>>
  BY DEF vars, daemonVars
<1>2. \A d \in Client : Untouched(d)
  BY <1>1 DEF Untouched
<1>3. TypeOK'
  BY DEF IInv, TypeOK, vars, daemonVars
<1> QED
  BY <1>1, <1>2, <1>3, Bystander, MadeStays DEF IInv

(* The inductive invariant: what the UI thread is waiting for, the calls on  *)
(* their way, the answer and the table of handles agree.                     *)
THEOREM Invariance == Spec => []IInv
<1>1. IInv /\ [Next]_vars => IInv'
  BY StepOK, StutterOK
<1> QED
  BY <1>1, InitOK, PTL DEF Spec

(* Every part of the state keeps its type, and the table of handles has only *)
(* handles that were given out.                                              *)
THEOREM Types == Spec => []TypeOK
<1>1. IInv => TypeOK
  BY DEF IInv
<1> QED
  BY <1>1, Invariance, PTL

(* process_key: a key whose call has returned was processed by an engine or  *)
(* given to the application, whatever fails, times out or restarts.          *)
THEOREM KeysAreNotLost == Spec => []NoKeyLost
<1>1. IInv => NoKeyLost
  BY DEF IInv, ClientOK, KeysOK, NoKeyLost
<1> QED
  BY <1>1, Invariance, PTL

(* process_key: the retry after InvalidSession never types a key twice.      *)
THEOREM KeysAreTypedOnce == Spec => []AppliedOnce
<1>1. IInv => AppliedOnce
  BY DEF IInv, ClientOK, KeysOK, AppliedOnce
<1> QED
  BY <1>1, Invariance, PTL

(* mark_failed: the ids a client goes on with after a failure it noticed     *)
(* were made for its own contexts by the daemon that runs now.               *)
THEOREM NoticedIdsAreFresh == Spec => []NoticedMeansFresh
<1>1. IInv => NoticedMeansFresh
  BY DEF IInv, ClientOK, FreshOK, NoticedMeansFresh
<1> QED
  BY <1>1, Invariance, PTL
=============================================================================
