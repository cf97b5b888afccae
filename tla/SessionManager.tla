--------------------------- MODULE SessionManager ---------------------------
(***************************************************************************)
(* The daemon's sessions (skk-daemon/session.rs) and the method calls that *)
(* reach them over D-Bus.  A client process has at most one call in        *)
(* progress, because its threads share one proxy under a mutex, but calls  *)
(* it gave up on may still be waiting to be handled: the bus delivers the  *)
(* calls of one connection in order, the daemon handles them in order (a   *)
(* fair mutex around the session manager), and while the daemon is down    *)
(* the bus keeps them for the daemon it activates.                         *)
(***************************************************************************)
EXTENDS Naturals, Sequences, FiniteSets

CONSTANTS
    Client,      \* client processes, each with its own connection
    MaxStarts,   \* bound: how often the daemon is started again
    MaxLate      \* bound: how many calls time out

ASSUME SessionAssumption == MaxStarts \in Nat /\ MaxLate \in Nat

VARIABLES
    up,       \* whether a daemon owns the bus name
    starts,   \* how often it has been started again
    made,     \* made[id]: for whom this daemon created session id; next_id - 1 of them
    engines,  \* sessions: id |-> the contexts whose keys its engine has processed
    inbox,    \* inbox[c]: calls of client c to be handled, oldest first
    reply,    \* reply[c]: the answer on its way to client c
    late      \* how many calls have timed out
daemonVars == <<up, starts, made, engines, inbox, reply, late>>

NoReply    == [kind |-> "none", id |-> 0]
Error      == [kind |-> "error", id |-> 0]
Created(id) == [kind |-> "created", id |-> id]
Done       == [kind |-> "done", id |-> 0]
Invalid    == [kind |-> "invalid", id |-> 0]

(* Method calls.  live: the caller still waits for the answer.             *)
CreateSession(who)          == [op |-> "create", id |-> 0, who |-> who, key |-> 0, live |-> TRUE]
DestroySession(id, who)     == [op |-> "destroy", id |-> id, who |-> who, key |-> 0, live |-> TRUE]
ProcessKey(id, who, key)    == [op |-> "key", id |-> id, who |-> who, key |-> key, live |-> TRUE]

DaemonInit ==
    /\ up = TRUE
    /\ starts = 0
    /\ made = <<>>
    /\ engines = <<>>
    /\ inbox = [c \in Client |-> <<>>]
    /\ reply = [c \in Client |-> NoReply]
    /\ late = 0

(* Mutant: next_id is not advanced.                                        *)
HandleCreateForgets(r) ==
    LET id == Len(made) + 1
    IN  /\ made' = made
        /\ engines' = [i \in DOMAIN engines \cup {id} |-> IF i = id THEN {} ELSE engines[i]]

(* create_session                                                          *)
HandleCreate(r) ==
    LET id == Len(made) + 1
    IN  /\ made' = Append(made, r.who)
        /\ engines' = [i \in DOMAIN engines \cup {id} |-> IF i = id THEN {} ELSE engines[i]]

(* destroy_session                                                         *)
HandleDestroy(r) ==
    /\ engines' = [i \in DOMAIN engines \ {r.id} |-> engines[i]]
    /\ made' = made

(* process_key                                                             *)
HandleKey(r) ==
    /\ engines' = IF r.id \in DOMAIN engines
                  THEN [engines EXCEPT ![r.id] = @ \cup {r.who}] ELSE engines
    /\ made' = made

Answer(r) ==
    IF r.op = "create" THEN Created(Len(made) + 1)
    ELSE IF r.op = "key" /\ r.id \notin DOMAIN engines THEN Invalid
    ELSE Done

(* The last call in an inbox is the one whose caller still waits, if any.   *)
Waiting(c) == inbox[c] # <<>> /\ inbox[c][Len(inbox[c])].live

(* The daemon handles the oldest call of a client.                         *)
Handle(c) ==
    /\ up /\ inbox[c] # <<>>
    /\ LET r == Head(inbox[c])
       IN  /\ \/ r.op = "create" /\ HandleCreate(r)
              \/ r.op = "destroy" /\ HandleDestroy(r)
              \/ r.op = "key" /\ HandleKey(r)
           /\ reply' = IF r.live THEN [reply EXCEPT ![c] = Answer(r)] ELSE reply
    /\ inbox' = [inbox EXCEPT ![c] = Tail(@)]
    /\ UNCHANGED <<up, starts, late>>

(* The daemon stops: its sessions and the calls it had received are gone,  *)
(* and the bus answers the callers that still wait.                        *)
Crash ==
    /\ up
    /\ up' = FALSE
    /\ made' = <<>> /\ engines' = <<>>
    /\ inbox' = [c \in Client |-> <<>>]
    /\ reply' = [c \in Client |-> IF Waiting(c) THEN Error ELSE reply[c]]
    /\ UNCHANGED <<starts, late>>

(* SessionManager::new in a new process: ids count from 1 again.           *)
Start ==
    /\ ~up /\ starts < MaxStarts
    /\ up' = TRUE
    /\ starts' = starts + 1
    /\ UNCHANGED <<made, engines, inbox, reply, late>>

(* Activation fails: the bus answers the caller and drops what it kept.    *)
BusGivesUp(c) ==
    /\ ~up /\ Waiting(c)
    /\ inbox' = [inbox EXCEPT ![c] = <<>>]
    /\ reply' = [reply EXCEPT ![c] = Error]
    /\ UNCHANGED <<up, starts, made, engines, late>>

(* METHOD_TIMEOUT passes: the caller gets an error, but the call stays      *)
(* where it is, or its answer arrives and is dropped.                      *)
CallTimesOut(c) ==
    /\ late < MaxLate
    /\ late' = late + 1
    /\ \/ /\ Waiting(c)
          /\ inbox' = [inbox EXCEPT ![c][Len(inbox[c])].live = FALSE]
       \/ /\ reply[c].kind \in {"created", "done", "invalid"}
          /\ UNCHANGED inbox
    /\ reply' = [reply EXCEPT ![c] = Error]
    /\ UNCHANGED <<up, starts, made, engines>>
=============================================================================
