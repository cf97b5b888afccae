------------------------ MODULE ReconnectProperties ------------------------
(***************************************************************************)
(* What the clients and the daemon's sessions guarantee together.          *)
(***************************************************************************)
EXTENDS ReconnectingClient

Context  == Client \X (0 .. MaxHandles)
Ids      == Nat
Call     == [op : {"create", "destroy", "key"}, id : Ids, who : Context,
             key : 0 .. MaxKeys, live : BOOLEAN]
Reply    == [kind : {"none", "created", "done", "invalid", "error"}, id : Ids]
Activity == [op : {"idle", "open", "close", "ensure", "type", "recreate", "retry"},
             handle : 0 .. MaxHandles, id : Ids]

(* Every part of the state keeps its type.                                 *)
TypeOK ==
    /\ up \in BOOLEAN /\ starts \in 0 .. MaxStarts /\ late \in 0 .. MaxLate
    /\ made \in Seq(Context)
    /\ DOMAIN engines \subseteq 1 .. Len(made)
    /\ \A id \in DOMAIN engines : engines[id] \subseteq Context
    /\ inbox \in [Client -> Seq(Call)] /\ reply \in [Client -> Reply]
    /\ ui \in [Client -> Activity]
    /\ monitor \in [Client -> [at : {"waiting", "sleeping", "probe", "cleanup", "recover"},
                               id : Ids]]
    /\ proxy \in [Client -> {"free", "ui", "monitor"}]
    /\ failure \in [Client -> {"none", "recent", "old"}]
    /\ newer \in [Client -> BOOLEAN] /\ noticed \in [Client -> BOOLEAN]
    /\ \A c \in Client : /\ DOMAIN sessions[c] \subseteq 1 .. opened[c]
                         /\ \A h \in DOMAIN sessions[c] : sessions[c][h] \in Ids
    /\ opened \in [Client -> 0 .. MaxHandles] /\ pressed \in [Client -> 0 .. MaxKeys]
    /\ applied \in [Client -> [1 .. MaxKeys -> Nat]]
    /\ passed \in [Client -> SUBSET (1 .. MaxKeys)]

Typing == {"ensure", "type", "recreate", "retry"}
Finished(c) == {n \in 1 .. pressed[c] : n = pressed[c] => ui[c].op \notin Typing}

(* No key is lost: when process_key has returned, the key was processed by  *)
(* an engine or the application got it.                                    *)
NoKeyLost == \A c \in Client : \A n \in Finished(c) : applied[c][n] > 0 \/ n \in passed[c]

(* No key is typed twice into the engines: it is sent again only when the   *)
(* daemon refused it, not when the answer is missing.                      *)
AppliedOnce == \A c \in Client : \A n \in 1 .. MaxKeys : applied[c][n] <= 1

(* Once a client has noticed that the daemon stopped, the session ids it    *)
(* holds were made for its own contexts by the daemon that runs now: the   *)
(* ids of the old one, which mean other contexts' sessions there, are gone. *)
NoticedMeansFresh == \A c \in Client : noticed[c] =>
    \A h \in DOMAIN sessions[c] :
        LET id == sessions[c][h]
        IN  id # 0 => id <= Len(made) /\ made[id] = <<c, h>>

(* Typing never hangs: whatever the UI thread asks of the daemon, it gets   *)
(* control back, though the daemon stays down.                             *)
UIReturns == \A c \in Client : ui[c] # Idle ~> ui[c] = Idle

(* Recovery in the background: when the daemon stays up from some time on,  *)
(* every failure is cleared, even if no key is typed.                      *)
Recovers == <>[]up => \A c \in Client : failure[c] # "none" ~> failure[c] = "none"
----------------------------------------------------------------------------
(* A statement of the code's comments that does not hold.                   *)

(* "Each client gets its own SkkEngine so input state is isolated per       *)
(* application" (the comment of SessionManager).                           *)
Isolated == \A id \in DOMAIN engines : Cardinality(engines[id]) <= 1
=============================================================================
