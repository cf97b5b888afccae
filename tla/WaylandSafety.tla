---------------------------- MODULE WaylandSafety ----------------------------
(***************************************************************************)
(* Proofs about the Wayland adapter: one repeat at a time, no key left down *)
(* in the application, and windows that show what the engine last asked     *)
(* for.  IInv carries the keys, PanelOK the windows and the status timer,    *)
(* WorldTyped the rest of the state.                                       *)
(***************************************************************************)
EXTENDS WaylandProperties, WellFoundedInduction, TLAPS

(* ---- the invariant ---- *)

(* What a thread is at, and for how long at most.                            *)
Time == 0 .. LongestWait
Slot == [at : {"idle", "sleep", "write", "last"}, wait : Time, pause : Time]

Deadlines == 0 .. Steps(500)
KeyStates == [pressed : SUBSET Key, repeat : {None} \cup RepeatActive,
              deadline : {None} \cup Deadlines, threads : [Thread -> Slot], app : SUBSET Key]

(* A key state with one repeat: its thread runs alone, its key is down and   *)
(* its presses are consumed.                                               *)
Sound(s) ==
    /\ s \in KeyStates
    /\ Running(s.threads) = IF s.repeat = None THEN {} ELSE {s.repeat.thread}
    /\ s.repeat # None => s.repeat.consumed = TRUE /\ s.repeat.key \in s.pressed
    /\ s.deadline # None => s.repeat # None

(* Key k is down in the application, and its release is not given up.        *)
Owed(k) == k \in app /\ k \notin stranded

(* A key the application is owed the release of is held by the user, the     *)
(* adapter takes it to be down, and it does not repeat.                     *)
ReleaseWillCome ==
    /\ \A k \in Key : Owed(k) =>
           k \in pressed /\ k \in held /\ (repeat # None => repeat.key # k)
    /\ stranded \subseteq app

IInv ==
    /\ Sound(KeyState) /\ ReleaseWillCome
    /\ active \in {None} \cup Contexts /\ (repeat # None => active # None)
    /\ rate \in Nat

(* ---- threads ---- *)

(* A longer time is at least as many steps of time.                          *)
LEMMA StepsGrow ==
    ASSUME NEW m \in Nat, NEW n \in Nat, m <= n
    PROVE  Steps(m) \in Nat /\ Steps(n) \in Nat /\ Steps(m) <= Steps(n)
<1> DEFINE x == m + Unit - 1
           y == n + Unit - 1
<1>1. Unit \in Nat \ {0} /\ x \in Nat /\ y \in Nat /\ x <= y
  BY WaylandAssumption
<1>2. Steps(m) = x \div Unit /\ Steps(n) = y \div Unit
  BY DEF Steps
<1> HIDE DEF x, y
<1> DEFINE p == x \div Unit
           q == y \div Unit
<1>3. p \in Nat /\ q \in Nat
  BY <1>1
<1>4. Unit * p <= x /\ y < Unit * (q + 1)
  BY <1>1
<1> HIDE DEF p, q
<1>5. ~(q + 1 <= p)
  <2> SUFFICES ASSUME q + 1 <= p PROVE FALSE
    OBVIOUS
  <2>1. Unit * (q + 1) <= Unit * p
    BY <1>1, <1>3
  <2> QED
    BY <1>1, <1>3, <1>4, <2>1
<1> QED
  BY <1>2, <1>3, <1>5 DEF p, q

(* An idle slot waits for nothing.                                           *)
LEMMA IdleTyped == Idle \in Slot /\ Idle.at = "idle" /\ LongestWait \in Nat /\ 0 \in Time
<1>1. Steps(Delay) \in Nat /\ Steps(1000) \in Nat
  BY StepsGrow, WaylandAssumption
<1>2. LongestWait \in Nat /\ 0 \in Time
  BY <1>1 DEF LongestWait, Time
<1> QED
  BY <1>2 DEF Idle, Slot

(* The delay and the interval of ticks are times a thread may wait, and the  *)
(* grace of a deferred release is one of the deadlines.                     *)
LEMMA TimesTyped ==
    ASSUME NEW r \in Nat
    PROVE  Steps(Delay) \in Time /\ TickInterval(r) \in Time /\ RepeatStopGrace(r) \in Deadlines
<1> DEFINE n == AtLeastOne(r)
           ms == 1000 \div n
<1>1. n \in Nat \ {0}
  BY DEF AtLeastOne
<1>2. ms \in 0 .. 1000
  <2> HIDE DEF n
  <2>1. ms \in Nat /\ n * ms <= 1000
    BY <1>1
  <2> HIDE DEF ms
  <2>2. ms <= n * ms
    BY <1>1, <2>1
  <2> QED
    BY <1>1, <2>1, <2>2
<1> HIDE DEF n, ms
<1>3. AtLeastOne(ms) \in Nat /\ AtLeastOne(ms) <= 1000
  BY <1>2 DEF AtLeastOne
<1>4. Steps(Delay) \in Nat /\ Steps(1000) \in Nat
  BY StepsGrow, WaylandAssumption
<1>5. Steps(AtLeastOne(ms)) \in Nat /\ Steps(AtLeastOne(ms)) <= Steps(1000)
  BY <1>3, StepsGrow
<1>6. Clamp(2 * ms, 60, 500) \in Nat /\ Clamp(2 * ms, 60, 500) <= 500
  BY <1>2 DEF Clamp
<1>7. /\ Steps(Clamp(2 * ms, 60, 500)) \in Nat /\ Steps(500) \in Nat
      /\ Steps(Clamp(2 * ms, 60, 500)) <= Steps(500)
  BY <1>6, StepsGrow
<1>8. /\ TickInterval(r) = Steps(AtLeastOne(ms))
      /\ RepeatStopGrace(r) = Steps(Clamp(2 * ms, 60, 500))
  BY DEF TickInterval, RepeatStopGrace, n, ms
<1> QED
  BY <1>4, <1>5, <1>7, <1>8 DEF Time, LongestWait, Deadlines

(* A cancelled thread does not run, and no other thread is touched.          *)
LEMMA Cancelled ==
    ASSUME NEW S, None \notin S, NEW slots \in [S -> Slot], NEW t \in S
    PROVE  /\ Cancel(slots, t) \in [S -> Slot]
           /\ Running(Cancel(slots, t)) = Running(slots) \ {t}
           /\ slots[t].at = "sleep" => t \in Free(Cancel(slots, t))
<1>1. t # None
  OBVIOUS
<1>2. Cancel(slots, t) =
          [slots EXCEPT ![t] = IF @.at = "write" THEN [@ EXCEPT !.at = "last"] ELSE Idle]
  BY <1>1 DEF Cancel
<1>3. Idle \in Slot /\ Idle.at = "idle"
  BY IdleTyped
<1>4. /\ [slots[t] EXCEPT !.at = "last"] \in Slot
      /\ [slots[t] EXCEPT !.at = "last"].at = "last"
  BY DEF Slot
<1>5. Cancel(slots, t) \in [S -> Slot]
  BY <1>2, <1>3, <1>4
<1>6. Cancel(slots, t)[t].at \in {"last", "idle"}
  BY <1>2, <1>3, <1>4
<1>7. \A u \in S \ {t} : Cancel(slots, t)[u] = slots[u]
  BY <1>2
<1>8. slots[t].at = "sleep" => Cancel(slots, t)[t].at = "idle"
  BY <1>2, <1>3
<1> QED
  BY <1>5, <1>6, <1>7, <1>8 DEF Running, Free

(* The slot the next thread takes.                                           *)
Taken(slots) == CHOOSE t \in Free(slots) : TRUE

(* A spawned thread takes a free slot and runs.                              *)
LEMMA Spawned ==
    ASSUME NEW S, NEW slots \in [S -> Slot], Free(slots) # {},
           NEW wait \in Time, NEW pause \in Time
    PROVE  /\ Taken(slots) \in S
           /\ Spawn(slots, wait, pause) \in [S -> Slot]
           /\ Running(Spawn(slots, wait, pause)) = Running(slots) \cup {Taken(slots)}
           /\ Spawn(slots, wait, pause)[Taken(slots)].at = "sleep"
<1> DEFINE t == Taken(slots)
           slot == [at |-> "sleep", wait |-> wait, pause |-> pause]
<1>1. t \in Free(slots) /\ t \in S
  BY DEF Free, Taken
<1>2. Spawn(slots, wait, pause) = [slots EXCEPT ![t] = slot]
  BY DEF Spawn, Taken
<1>3. slot \in Slot /\ slot.at = "sleep"
  BY DEF Slot
<1> HIDE DEF t, slot
<1>4. Spawn(slots, wait, pause) \in [S -> Slot]
  BY <1>1, <1>2, <1>3
<1>5. Running(Spawn(slots, wait, pause)) = Running(slots) \cup {t}
  BY <1>1, <1>2, <1>3 DEF Running
<1>6. Spawn(slots, wait, pause)[t].at = "sleep"
  BY <1>1, <1>2, <1>3
<1> QED
  BY <1>1, <1>4, <1>5, <1>6 DEF t

(* ---- operators on the key state ---- *)

(* The keys still taken to be down when the repeat is given up.              *)
Kept(s) == IF s.repeat = None THEN s.pressed ELSE s.pressed \ {s.repeat.key}

(* A repeat that is given up: its thread is cancelled, and as its key was    *)
(* consumed the application is told nothing.                               *)
LEMMA Dropped ==
    ASSUME NEW s, Sound(s)
    PROVE  LET d == DropRepeat(s)
           IN  /\ d \in KeyStates /\ d.repeat = None /\ Running(d.threads) = {}
               /\ d.app = s.app /\ d.deadline = s.deadline
               /\ d.pressed = Kept(s)
<1>1. CASE s.repeat = None
  BY <1>1 DEF DropRepeat, Sound, Kept
<1>2. CASE s.repeat # None
  <2>1. s.repeat.thread \in Thread /\ s.threads \in [Thread -> Slot] /\ s \in KeyStates
    BY <1>2 DEF Sound, KeyStates, RepeatActive
  <2>2. /\ Cancel(s.threads, s.repeat.thread) \in [Thread -> Slot]
        /\ Running(Cancel(s.threads, s.repeat.thread)) = {}
    BY <1>2, <2>1, Cancelled, WaylandAssumption DEF Sound
  <2>3. DropRepeat(s) = [s EXCEPT !.repeat = None,
                                  !.threads = Cancel(s.threads, s.repeat.thread),
                                  !.pressed = s.pressed \ {s.repeat.key}]
    BY <1>2, <2>1 DEF DropRepeat, Sound, KeyStates
  <2> QED
    BY <1>2, <2>1, <2>2, <2>3 DEF KeyStates, Kept
<1> QED
  BY <1>1, <1>2

(* After StopAllRepeat nothing repeats and nothing is deferred.              *)
LEMMA Stopped ==
    ASSUME NEW s, Sound(s)
    PROVE  LET d == StopAllRepeat(s)
           IN  /\ Sound(d) /\ d.repeat = None /\ d.app = s.app
               /\ d.pressed = Kept(s)
<1> DEFINE d == DropRepeat(s)
<1>1. /\ d \in KeyStates /\ d.repeat = None /\ Running(d.threads) = {} /\ d.app = s.app
      /\ d.pressed = Kept(s)
  BY Dropped
<1>2. StopAllRepeat(s) = [d EXCEPT !.deadline = None]
  BY DEF StopAllRepeat
<1> HIDE DEF d
<1>3. StopAllRepeat(s) \in KeyStates
  BY <1>1, <1>2 DEF KeyStates
<1>4. /\ StopAllRepeat(s).deadline = None /\ StopAllRepeat(s).repeat = None
      /\ StopAllRepeat(s).threads = d.threads /\ StopAllRepeat(s).app = d.app
      /\ StopAllRepeat(s).pressed = d.pressed
  BY <1>1, <1>2 DEF KeyStates
<1> QED
  BY <1>1, <1>3, <1>4 DEF Sound

(* A press that is consumed starts the only repeat, of a key that is down.   *)
LEMMA Started ==
    ASSUME NEW s, Sound(s), NEW k \in s.pressed, s.repeat # None => s.repeat.key # k,
           NEW consumed \in BOOLEAN, rate \in Nat, Free(StopAllRepeat(s).threads) # {}
    PROVE  /\ Sound(StartRepeat(s, k, consumed)) /\ StartRepeat(s, k, consumed).app = s.app
           /\ StartRepeat(s, k, consumed).pressed = Kept(s)
           /\ StartRepeat(s, k, consumed).repeat # None =>
                  StartRepeat(s, k, consumed).repeat.key = k /\ consumed = TRUE
<1> DEFINE d == StopAllRepeat(s)
           t == CHOOSE t \in Free(d.threads) : TRUE
           slots == Spawn(d.threads, Steps(Delay), TickInterval(rate))
           r == [key |-> k, consumed |-> TRUE, thread |-> t]
<1>1. /\ Sound(d) /\ d.repeat = None /\ d.app = s.app
      /\ d.pressed = Kept(s)
  BY Stopped
<1>2. CASE ~consumed \/ rate = 0
  <2>1. StartRepeat(s, k, consumed) = d
    BY <1>2 DEF StartRepeat
  <2> QED
    BY <1>1, <2>1
<1>3. CASE ~(~consumed \/ rate = 0)
  <2>1. d \in KeyStates /\ d.threads \in [Thread -> Slot] /\ Running(d.threads) = {}
    BY <1>1 DEF Sound, KeyStates
  <2>2. t \in Thread /\ slots \in [Thread -> Slot] /\ Running(slots) = {t}
    <3>1. Steps(Delay) \in Time /\ TickInterval(rate) \in Time
      BY TimesTyped
    <3>2. Free(d.threads) # {}
      OBVIOUS
    <3> HIDE DEF d
    <3>3. t = Taken(d.threads)
      BY DEF Taken
    <3> HIDE DEF t
    <3> QED
      BY <2>1, <3>1, <3>2, <3>3, Spawned
  <2>3. consumed = TRUE
    BY <1>3
  <2>4. StartRepeat(s, k, consumed) = [d EXCEPT !.threads = slots, !.repeat = r]
    BY <1>3, <2>3, <2>1 DEF StartRepeat, KeyStates
  <2>5. k \in Key /\ k \in d.pressed
    BY <1>1 DEF Sound, KeyStates, Kept
  <2> HIDE DEF d, t, slots
  <2>6. r \in RepeatActive /\ r.key = k /\ r.consumed = TRUE /\ r.thread = t
    BY <2>2, <2>5 DEF RepeatActive
  <2>7. r # None
    BY <2>6, WaylandAssumption
  <2> HIDE DEF r
  <2>8. [d EXCEPT !.threads = slots, !.repeat = r] \in KeyStates
    BY <2>1, <2>2, <2>6 DEF KeyStates
  <2>9. /\ [d EXCEPT !.threads = slots, !.repeat = r].threads = slots
        /\ [d EXCEPT !.threads = slots, !.repeat = r].repeat = r
        /\ [d EXCEPT !.threads = slots, !.repeat = r].app = d.app
        /\ [d EXCEPT !.threads = slots, !.repeat = r].pressed = d.pressed
    BY <2>1 DEF KeyStates
  <2> QED
    BY <1>1, <2>2, <2>3, <2>4, <2>5, <2>6, <2>7, <2>8, <2>9 DEF Sound
<1> QED
  BY <1>2, <1>3

(* ---- handlers ---- *)

(* The state a handler leaves is the one it computed.                        *)
LEMMA Became ==
    ASSUME NEW s \in KeyStates, KeysBecome(s)
    PROVE  KeyState' = s
  BY DEF KeysBecome, KeyState, KeyStates

(* What may have become of the keys after a call for key k: the engine       *)
(* consumed it or not (b), and only then may it have been forwarded (sent).  *)
LEMMA Pressed ==
    ASSUME NEW k \in Key, NEW after, after[TRUE] \in KeyStates, after[FALSE] \in KeyStates,
           NEW forward \in BOOLEAN, OnPress(k, after, forward)
    PROVE  \E b \in BOOLEAN, sent \in BOOLEAN :
               /\ sent => forward /\ ~b
               /\ KeyState' = [after[b] EXCEPT !.app = IF sent THEN @ \cup {k} ELSE @]
               /\ stranded' = IF sent THEN stranded \ {k} ELSE stranded
<1>1. PICK answer \in PressAnswers :
        IF answer = None
          THEN KeysBecome(after[FALSE]) /\ UNCHANGED stranded
          ELSE LET consumed  == Consumes(answer)
                   s         == after[consumed]
                   forwarded == forward /\ ~consumed
               IN  /\ KeysBecome([s EXCEPT !.app = IF forwarded THEN @ \cup {k} ELSE @])
                   /\ stranded' = IF forwarded THEN stranded \ {k} ELSE stranded
  BY DEF OnPress
<1>2. CASE answer = None
  <2>1. KeyState' = after[FALSE] /\ UNCHANGED stranded
    BY <1>1, <1>2, Became
  <2>2. [after[FALSE] EXCEPT !.app = @] = after[FALSE]
    BY DEF KeyStates
  <2> WITNESS FALSE \in BOOLEAN, FALSE \in BOOLEAN
  <2> QED
    BY <2>1, <2>2
<1>3. CASE answer # None
  <2> DEFINE b == Consumes(answer)
             sent == forward /\ ~b
  <2>1. b \in BOOLEAN /\ sent \in BOOLEAN
    BY DEF Consumes
  <2> HIDE DEF b
  <2>2. after[b] \in KeyStates
    BY <2>1
  <2> DEFINE s == [after[b] EXCEPT !.app = IF sent THEN @ \cup {k} ELSE @]
  <2>3. s \in KeyStates
    BY <2>2 DEF KeyStates
  <2>4. KeysBecome(s) /\ stranded' = IF sent THEN stranded \ {k} ELSE stranded
    BY <1>1, <1>3 DEF b
  <2> HIDE DEF s
  <2>5. KeyState' = s
    BY <2>3, <2>4, Became
  <2> HIDE DEF sent
  <2>6. (sent => forward /\ ~b) /\ sent \in BOOLEAN /\ b \in BOOLEAN
    BY <2>1 DEF sent
  <2>7. /\ KeyState' = [after[b] EXCEPT !.app = IF sent THEN @ \cup {k} ELSE @]
        /\ stranded' = IF sent THEN stranded \ {k} ELSE stranded
    BY <2>4, <2>5 DEF s
  <2> QED
    BY <2>6, <2>7
<1> QED
  BY <1>2, <1>3

(* The parts of the invariant a key handler may disturb.                     *)
KeysOK == Sound(KeyState) /\ ReleaseWillCome

(* A press keeps the key parts of the invariant: a fresh one, a re-tap, or    *)
(* one that is ignored; what was repeating is given up by the next repeat.   *)
LEMMA PressKeeps ==
    ASSUME IInv, NEW k \in Key, Press(k)
    PROVE  KeysOK'
<1> DEFINE cleared == IF FreshPress(k) THEN KeyState ELSE StopAllRepeat(KeyState)
           down == [cleared EXCEPT !.pressed = @ \cup {k}]
           repeated == [consumed \in BOOLEAN |->
                            IF k \in Repeats THEN StartRepeat(down, k, consumed) ELSE down]
<1>1. /\ Sound(KeyState) /\ ReleaseWillCome /\ rate \in Nat
      /\ k \notin held /\ held' = held \cup {k} /\ PressEvent(k)
  BY DEF IInv, Press
<1>2. ~Owed(k) /\ (repeat # None => repeat.key \in pressed)
  BY <1>1 DEF ReleaseWillCome, Sound, KeyState
<1>3. /\ Sound(cleared) /\ cleared.app = app
      /\ cleared.repeat # None => cleared.repeat = repeat /\ repeat.key # k
      /\ cleared.repeat = None =>
             \A j \in pressed : (repeat # None => repeat.key # j) => j \in cleared.pressed
      /\ cleared.repeat # None => cleared.pressed = pressed
  <2>1. CASE FreshPress(k)
    BY <1>1, <1>2, <2>1 DEF FreshPress, KeyState
  <2>2. CASE ~FreshPress(k)
    BY <1>1, <2>2, Stopped DEF KeyState, Kept
  <2> QED
    BY <2>1, <2>2
<1> HIDE DEF cleared
<1>4. /\ Sound(down) /\ down.app = app /\ down.repeat = cleared.repeat
      /\ down.pressed = cleared.pressed \cup {k}
  <2>1. cleared \in KeyStates
    BY <1>3 DEF Sound
  <2>2. /\ down \in KeyStates /\ down.app = cleared.app /\ down.repeat = cleared.repeat
        /\ down.threads = cleared.threads /\ down.deadline = cleared.deadline
        /\ down.pressed = cleared.pressed \cup {k}
    BY <2>1 DEF KeyStates
  <2> QED
    BY <1>3, <2>2 DEF Sound
<1> HIDE DEF down
<1>5. CASE UNCHANGED <<keyVars, stranded>>
  BY <1>1, <1>5 DEF KeysOK, ReleaseWillCome, Owed, KeyState, keyVars
<1>6. CASE KeysBecome(down) /\ UNCHANGED stranded
  <2>1. KeyState' = down
    BY <1>4, <1>6, Became DEF Sound
  <2>2. app' = app /\ repeat' = down.repeat /\ pressed' = down.pressed
    BY <1>4, <2>1 DEF KeyState
  <2>3. ReleaseWillCome'
    BY <1>1, <1>2, <1>3, <1>4, <1>6, <2>2 DEF ReleaseWillCome, Owed
  <2> QED
    BY <1>4, <2>1, <2>3 DEF KeysOK
<1>7. CASE Free(StopAllRepeat(down).threads) # {} /\ OnPress(k, repeated, TRUE)
  <2>1. ASSUME NEW b \in BOOLEAN
        PROVE  /\ Sound(repeated[b]) /\ repeated[b].app = app /\ k \in repeated[b].pressed
               /\ \A j \in pressed : (repeat # None => repeat.key # j) => j \in repeated[b].pressed
               /\ repeated[b].repeat # None =>
                      \/ repeated[b].repeat = repeat /\ repeat.key # k
                      \/ repeated[b].repeat.key = k /\ b = TRUE
    <3>1. CASE k \in Repeats
      <4>1. repeated[b] = StartRepeat(down, k, b)
        BY <3>1
      <4>2. k \in down.pressed /\ (down.repeat # None => down.repeat.key # k)
        BY <1>3, <1>4
      <4> DEFINE d == StartRepeat(down, k, b)
      <4>3. /\ Sound(d) /\ d.app = down.app
            /\ d.pressed = Kept(down)
            /\ d.repeat # None => d.repeat.key = k /\ b = TRUE
        <5>1. Free(StopAllRepeat(down).threads) # {}
          BY <1>7
        <5> HIDE DEF repeated
        <5> QED
          BY <1>1, <1>4, <4>2, <5>1, Started
      <4> HIDE DEF repeated, d
      <4>4. repeated[b] = d
        BY <4>1 DEF d
      <4> QED
        BY <1>3, <1>4, <4>3, <4>4 DEF Kept
    <3>2. CASE k \notin Repeats
      <4>1. repeated[b] = down
        BY <3>2
      <4> HIDE DEF repeated
      <4> QED
        BY <1>3, <1>4, <4>1
    <3> QED
      BY <3>1, <3>2
  <2> HIDE DEF repeated
  <2>2. PICK b \in BOOLEAN, sent \in BOOLEAN :
            /\ sent => ~b
            /\ KeyState' = [repeated[b] EXCEPT !.app = IF sent THEN @ \cup {k} ELSE @]
            /\ stranded' = IF sent THEN stranded \ {k} ELSE stranded
    <3>1. repeated[TRUE] \in KeyStates /\ repeated[FALSE] \in KeyStates
      BY <2>1 DEF Sound
    <3> QED
      BY <1>7, <3>1, Pressed
  <2>3. repeated[b] \in KeyStates
    BY <2>1 DEF Sound
  <2>4. /\ KeyState' \in KeyStates /\ KeyState'.app = IF sent THEN app \cup {k} ELSE app
        /\ KeyState'.pressed = repeated[b].pressed /\ KeyState'.repeat = repeated[b].repeat
        /\ KeyState'.threads = repeated[b].threads /\ KeyState'.deadline = repeated[b].deadline
    BY <2>1, <2>2, <2>3 DEF KeyStates
  <2>5. Sound(KeyState')
    BY <2>1, <2>4 DEF Sound
  <2>6. /\ app' = IF sent THEN app \cup {k} ELSE app
        /\ pressed' = repeated[b].pressed /\ repeat' = repeated[b].repeat
    BY <2>4 DEF KeyState
  <2>7. k \in pressed'
    BY <2>6, <2>1
  <2>8. ReleaseWillCome'
    BY <1>1, <1>2, <2>1, <2>2, <2>6, <2>7 DEF ReleaseWillCome, Owed
  <2> QED
    BY <2>5, <2>8 DEF KeysOK
<1> QED
  BY <1>1, <1>5, <1>6, <1>7 DEF PressEvent, cleared, down, repeated

(* A release, the user's or a made-up one, of the repeating key waits; that  *)
(* of another key reaches the application or is given up.                   *)
LEMMA ReleaseEventKeeps ==
    ASSUME IInv, NEW k \in Key, ReleaseEvent(k),
           \A j \in Key \ {k} : j \in held => j \in held'
    PROVE  KeysOK'
<1>1. Sound(KeyState) /\ ReleaseWillCome /\ rate \in Nat
  BY DEF IInv
<1>2. CASE IsRepeating(KeyState, k)
  <2>1. /\ deadline' = RepeatStopGrace(rate) /\ deadline' \in Deadlines
        /\ UNCHANGED <<pressed, repeat, threads, app, stranded>>
    BY <1>1, <1>2, TimesTyped DEF ReleaseEvent
  <2>2. repeat # None /\ repeat.key = k
    BY <1>2 DEF IsRepeating, KeyState
  <2>3. Sound(KeyState)'
    BY <1>1, <2>1, <2>2 DEF Sound, KeyStates, KeyState
  <2>4. ReleaseWillCome'
    BY <1>1, <2>1, <2>2 DEF ReleaseWillCome, Owed
  <2> QED
    BY <2>3, <2>4 DEF KeysOK
<1>3. CASE ~IsRepeating(KeyState, k)
  <2> DEFINE forwarded == k \in pressed /\ active.keymap = "loaded" /\ ~outage
  <2>1. /\ pressed' = pressed \ {k}
        /\ app' = IF forwarded THEN app \ {k} ELSE app
        /\ stranded' = IF forwarded THEN stranded \ {k}
                       ELSE IF k \in pressed \cap app THEN stranded \cup {k}
                       ELSE stranded
        /\ UNCHANGED <<repeat, deadline, threads>>
    BY <1>3 DEF ReleaseEvent
  <2>2. repeat # None => repeat.key # k
    BY <1>3 DEF IsRepeating, KeyState
  <2>3. Sound(KeyState)'
    BY <1>1, <2>1, <2>2 DEF Sound, KeyStates, KeyState
  <2>4. ReleaseWillCome'
    BY <1>1, <2>1, <2>2 DEF ReleaseWillCome, Owed
  <2> QED
    BY <2>3, <2>4 DEF KeysOK
<1> QED
  BY <1>2, <1>3

(* A repeat that is given up leaves the keys of the application as they are. *)
LEMMA StopKeeps ==
    ASSUME IInv, KeysBecome(StopAllRepeat(KeyState)), UNCHANGED <<stranded, held>>
    PROVE  KeysOK' /\ repeat' = None
<1>1. Sound(KeyState) /\ ReleaseWillCome
  BY DEF IInv
<1> DEFINE d == StopAllRepeat(KeyState)
<1>2. Sound(d) /\ d.repeat = None /\ d.app = app /\ d.pressed = Kept(KeyState)
  BY <1>1, Stopped DEF KeyState
<1> HIDE DEF d
<1>3. KeyState' = d
  BY <1>2, Became DEF Sound, d
<1>4. app' = app /\ repeat' = None /\ pressed' = Kept(KeyState)
  BY <1>2, <1>3 DEF KeyState
<1>5. ReleaseWillCome'
  BY <1>1, <1>4 DEF ReleaseWillCome, Owed, Kept, KeyState
<1>6. Sound(KeyState)'
  BY <1>2, <1>3
<1> QED
  BY <1>4, <1>5, <1>6 DEF KeysOK

(* Nothing changes for the keys.                                             *)
LEMMA KeysRest ==
    ASSUME IInv, UNCHANGED <<keyVars, stranded>>,
           \A j \in Key : j \in held => j \in held'
    PROVE  KeysOK'
  BY DEF IInv, KeysOK, ReleaseWillCome, Owed, KeyState, keyVars

(* A tick runs the repeating key through the engine and forwards nothing.    *)
LEMMA RepeatTickKeeps ==
    ASSUME IInv, RepeatTick
    PROVE  KeysOK' /\ (repeat' # None => active' # None)
<1>1. Sound(KeyState) /\ ReleaseWillCome /\ UNCHANGED <<held, active>>
  BY DEF IInv, RepeatTick
<1>2. CASE repeat = None
  <2>1. UNCHANGED <<keyVars, stranded>>
    BY <1>2 DEF RepeatTick
  <2> QED
    BY <1>1, <1>2, <2>1, KeysRest DEF keyVars, IInv
<1>3. CASE repeat # None
  <2> DEFINE continued == [consumed \in BOOLEAN |->
                              IF consumed THEN KeyState ELSE StopAllRepeat(KeyState)]
             k == repeat.key
  <2>1. OnPress(k, continued, FALSE) /\ active # None
    BY <1>3 DEF RepeatTick, IInv
  <2>2. k \in Key
    BY <1>1, <1>3 DEF Sound, KeyState, KeyStates, RepeatActive
  <2>3. /\ Sound(StopAllRepeat(KeyState)) /\ StopAllRepeat(KeyState).repeat = None
        /\ StopAllRepeat(KeyState).app = app /\ StopAllRepeat(KeyState).pressed = Kept(KeyState)
    BY <1>1, Stopped DEF KeyState
  <2>4. continued[TRUE] = KeyState /\ continued[FALSE] = StopAllRepeat(KeyState)
    OBVIOUS
  <2> HIDE DEF continued, k
  <2>5. continued[TRUE] \in KeyStates /\ continued[FALSE] \in KeyStates
    BY <1>1, <2>3, <2>4 DEF Sound
  <2>6. PICK b \in BOOLEAN, sent \in BOOLEAN :
            /\ sent => FALSE
            /\ KeyState' = [continued[b] EXCEPT !.app = IF sent THEN @ \cup {k} ELSE @]
            /\ stranded' = IF sent THEN stranded \ {k} ELSE stranded
    BY <2>1, <2>2, <2>5, Pressed
  <2>7. KeyState' = continued[b] /\ stranded' = stranded
    <3>1. [continued[b] EXCEPT !.app = @] = continued[b]
      BY <2>5 DEF KeyStates
    <3> QED
      BY <2>6, <3>1
  <2>8. KeyState' = KeyState \/ KeyState' = StopAllRepeat(KeyState)
    BY <2>4, <2>7
  <2>9. Sound(KeyState')
    BY <1>1, <2>3, <2>8
  <2>10. CASE KeyState' = KeyState
    <3>1. app' = app /\ pressed' = pressed /\ repeat' = repeat
      BY <2>10 DEF KeyState
    <3>2. ReleaseWillCome'
      BY <1>1, <2>7, <3>1 DEF ReleaseWillCome, Owed
    <3> QED
      BY <1>1, <2>1, <2>9, <3>2 DEF KeysOK
  <2>11. CASE KeyState' = StopAllRepeat(KeyState)
    <3>1. app' = app /\ repeat' = None /\ pressed' = Kept(KeyState)
      BY <2>3, <2>11 DEF KeyState
    <3>2. ReleaseWillCome'
      BY <1>1, <2>7, <3>1 DEF ReleaseWillCome, Owed, Kept, KeyState
    <3> QED
      BY <2>9, <3>1, <3>2 DEF KeysOK
  <2> QED
    BY <2>8, <2>10, <2>11
<1> QED
  BY <1>2, <1>3

(* A thread that wakes, writes or waits goes on running, or has ended.       *)
LEMMA ThreadsMove ==
    ASSUME IInv, UNCHANGED <<pressed, repeat, app, stranded, held>>,
           deadline' \in {None} \cup Deadlines, deadline' # None => deadline # None,
           threads' \in [Thread -> Slot], Running(threads') = Running(threads)
    PROVE  KeysOK'
<1>1. Sound(KeyState) /\ ReleaseWillCome
  BY DEF IInv
<1>2. Sound(KeyState)'
  BY <1>1 DEF Sound, KeyState, KeyStates
<1>3. ReleaseWillCome'
  BY <1>1 DEF ReleaseWillCome, Owed
<1> QED
  BY <1>2, <1>3 DEF KeysOK

(* A repeat thread that wakes or writes a tick touches only its own slot.     *)
LEMMA ThreadStepKeeps ==
    ASSUME IInv, NEW t \in Thread, ThreadWakes(t) \/ ThreadWrites(t)
    PROVE  KeysOK'
<1>1. threads \in [Thread -> Slot] /\ deadline \in {None} \cup Deadlines
  BY DEF IInv, Sound, KeyState, KeyStates
<1>2. UNCHANGED <<pressed, repeat, deadline, app, stranded, held>>
  BY DEF ThreadWakes, ThreadWrites, threadFrame, worldVars
<1>3. threads[t] \in Slot /\ Idle \in Slot
  BY <1>1, IdleTyped
<1>4. CASE ThreadWakes(t)
  <2>1. /\ threads' = [threads EXCEPT ![t] = [@ EXCEPT !.at = "write"]]
        /\ threads[t].at = "sleep"
    BY <1>4 DEF ThreadWakes
  <2>2. /\ [threads[t] EXCEPT !.at = "write"] \in Slot
        /\ [threads[t] EXCEPT !.at = "write"].at = "write"
    BY <1>3 DEF Slot
  <2>3. threads' \in [Thread -> Slot] /\ threads'[t].at = "write"
    BY <1>1, <2>1, <2>2
  <2>4. Running(threads') = Running(threads)
    BY <1>1, <2>1, <2>3 DEF Running
  <2> QED
    BY <1>1, <1>2, <2>3, <2>4, ThreadsMove
<1>5. CASE ThreadWrites(t)
  <2> DEFINE next == IF threads[t].at = "last" THEN Idle
                     ELSE [at |-> "sleep", wait |-> threads[t].pause, pause |-> threads[t].pause]
  <2>1. threads' = [threads EXCEPT ![t] = next] /\ threads[t].at \in {"write", "last"}
    BY <1>5 DEF ThreadWrites
  <2>2. /\ next \in Slot
        /\ next.at \in {"sleep", "write"} <=> threads[t].at \in {"sleep", "write"}
    BY <1>3, <2>1, IdleTyped DEF Slot
  <2> HIDE DEF next
  <2>3. threads' \in [Thread -> Slot] /\ threads'[t] = next
    BY <1>1, <2>1, <2>2
  <2>4. Running(threads') = Running(threads)
    BY <1>1, <2>1, <2>2, <2>3 DEF Running
  <2> QED
    BY <1>1, <1>2, <2>3, <2>4, ThreadsMove
<1> QED
  BY <1>4, <1>5

(* Time brings threads and the deadline nearer and starts or ends none.       *)
LEMMA ElapseKeeps ==
    ASSUME IInv, Elapse
    PROVE  KeysOK'
<1>1. threads \in [Thread -> Slot] /\ deadline \in {None} \cup Deadlines
  BY DEF IInv, Sound, KeyState, KeyStates
<1>2. UNCHANGED <<pressed, repeat, app, stranded, held>>
  BY DEF Elapse, worldVars
<1>3. (\A n \in Time : Down(n) \in Time) /\ \A n \in Deadlines : Down(n) \in Deadlines
  <2>1. LongestWait \in Nat /\ Steps(500) \in Nat
    BY IdleTyped, StepsGrow
  <2> QED
    BY <2>1 DEF Down, Time, Deadlines
<1>4. deadline' \in {None} \cup Deadlines /\ (deadline' # None => deadline # None)
  BY <1>1, <1>3 DEF Elapse
<1>5. threads' = [t \in Thread |-> [threads[t] EXCEPT !.wait = Down(@)]]
  BY DEF Elapse
<1>6. \A t \in Thread : /\ [threads[t] EXCEPT !.wait = Down(@)] \in Slot
                        /\ [threads[t] EXCEPT !.wait = Down(@)].at = threads[t].at
  BY <1>1, <1>3 DEF Slot
<1>7. threads' \in [Thread -> Slot] /\ \A t \in Thread : threads'[t].at = threads[t].at
  BY <1>5, <1>6
<1>8. Running(threads') = Running(threads)
  BY <1>1, <1>7 DEF Running
<1> QED
  BY <1>2, <1>4, <1>7, <1>8, ThreadsMove

(* While no context is active keys go straight to the application.           *)
LEMMA OutsideKeyKeeps ==
    ASSUME IInv, NEW k \in Key, OutsideKey(k)
    PROVE  KeysOK'
<1>1. Sound(KeyState) /\ ReleaseWillCome
  BY DEF IInv
<1>2. /\ UNCHANGED <<pressed, repeat, deadline, threads>>
      /\ app' = app \ {k} /\ stranded' = stranded \ {k}
      /\ \A j \in Key \ {k} : j \in held => j \in held'
  BY DEF OutsideKey
<1>3. Sound(KeyState)'
  BY <1>1, <1>2 DEF Sound, KeyState, KeyStates
<1>4. ReleaseWillCome'
  BY <1>1, <1>2 DEF ReleaseWillCome, Owed
<1> QED
  BY <1>3, <1>4 DEF KeysOK

(* ---- the induction ---- *)

(* Nothing is down and nothing repeats when the adapter starts.              *)
LEMMA InitOK == Init => IInv
<1> SUFFICES ASSUME Init PROVE IInv
  OBVIOUS
<1>1. /\ pressed = {} /\ repeat = None /\ deadline = None /\ app = {} /\ active = None
      /\ stranded = {} /\ threads = [t \in Thread |-> Idle] /\ rate = 25
  BY DEF Init, DefaultRate
<1>2. Idle \in Slot /\ Idle.at = "idle"
  BY IdleTyped
<1>3. Sound(KeyState)
  BY <1>1, <1>2 DEF Sound, KeyState, KeyStates, Running
<1> QED
  BY <1>1, <1>3 DEF IInv, ReleaseWillCome, Owed

(* A key event keeps the invariant: no context and no rate changes.          *)
LEMMA KeyEventKeeps ==
    ASSUME IInv, NEW k \in Key, Press(k) \/ Release(k) \/ MadeUpRelease(k) \/ OutsideKey(k)
    PROVE  IInv'
<1>1. UNCHANGED <<active, rate>>
  BY DEF Press, Release, MadeUpRelease, OutsideKey, rateVars
<1>2. KeysOK'
  <2>1. CASE Press(k)
    BY <2>1, PressKeeps
  <2>2. CASE Release(k)
    BY <2>2, ReleaseEventKeeps DEF Release
  <2>3. CASE MadeUpRelease(k)
    BY <2>3, ReleaseEventKeeps DEF MadeUpRelease
  <2>4. CASE OutsideKey(k)
    BY <2>4, OutsideKeyKeeps
  <2> QED
    BY <2>1, <2>2, <2>3, <2>4
<1>3. repeat' # None => active # None
  <2>1. CASE OutsideKey(k)
    BY <2>1 DEF OutsideKey, IInv
  <2>2. CASE ~OutsideKey(k)
    BY <2>2 DEF Press, Release, MadeUpRelease, Listening
  <2> QED
    BY <2>1, <2>2
<1> QED
  BY <1>1, <1>2, <1>3 DEF IInv, KeysOK

(* Events that leave the keys alone keep the invariant.                      *)
LEMMA QuietKeeps ==
    ASSUME IInv, UNCHANGED <<keyVars, stranded, held>>,
           active' \in {None} \cup Contexts, active # None => active' # None, rate' \in Nat
    PROVE  IInv'
<1>1. KeysOK'
  BY KeysRest
<1> QED
  BY <1>1 DEF IInv, KeysOK, keyVars

(* An event that may give up the repeat keeps the invariant.                 *)
LEMMA GivenUpKeeps ==
    ASSUME IInv, KeysBecome(StopAllRepeat(KeyState)), UNCHANGED <<stranded, held, rate>>,
           active' \in {None} \cup Contexts
    PROVE  IInv'
<1>1. KeysOK' /\ repeat' = None
  BY StopKeeps
<1> QED
  BY <1>1 DEF IInv, KeysOK

(* Changes of context keep the invariant.                                    *)
LEMMA ContextKeeps ==
    ASSUME IInv, Activate \/ Deactivate \/ Keymap \/ \E m \in BOOLEAN : Modifiers(m)
    PROVE  IInv'
<1>1. active \in {None} \cup Contexts /\ rate \in Nat
  BY DEF IInv
<1>2. CASE Activate
  <2>1. active' = [mods |-> FALSE, keymap |-> "awaited"]
    BY <1>2 DEF Activate
  <2>2. active' \in Contexts
    BY <2>1 DEF Contexts
  <2>3. active' # None
    BY <2>2, WaylandAssumption
  <2>4. UNCHANGED <<keyVars, stranded, held, rate>>
    BY <1>2 DEF Activate, worldVars, rateVars
  <2> QED
    BY <1>1, <2>2, <2>3, <2>4, QuietKeeps
<1>3. CASE Deactivate
  <2>1. /\ KeysBecome(StopAllRepeat(KeyState)) /\ active' = None
        /\ UNCHANGED <<stranded, held, rate>>
    BY <1>3 DEF Deactivate, worldVars, rateVars
  <2> QED
    BY <2>1, GivenUpKeeps
<1>4. CASE Keymap
  <2>1. PICK result \in {"loaded", "failed"} : active' = [active EXCEPT !.keymap = result]
    BY <1>4 DEF Keymap
  <2>2. active \in Contexts
    BY <1>1, <1>4 DEF Keymap
  <2>3. active' \in Contexts \ {None}
    BY <2>1, <2>2, WaylandAssumption DEF Contexts
  <2>4. UNCHANGED <<keyVars, stranded, held, rate>>
    BY <1>4 DEF Keymap, worldVars, rateVars
  <2> QED
    BY <1>1, <2>3, <2>4, QuietKeeps
<1>5. ASSUME NEW m \in BOOLEAN, Modifiers(m) PROVE IInv'
  <2>1. active' = [active EXCEPT !.mods = m] /\ active \in Contexts
    BY <1>1, <1>5 DEF Modifiers
  <2>2. active' \in Contexts \ {None}
    BY <2>1, WaylandAssumption DEF Contexts
  <2>3. UNCHANGED <<stranded, held, rate>>
    BY <1>5 DEF Modifiers, worldVars, rateVars
  <2>4. CASE m # active.mods /\ repeat # None
    <3>1. KeysBecome(StopAllRepeat(KeyState))
      BY <1>5, <2>4 DEF Modifiers
    <3> QED
      BY <2>2, <2>3, <3>1, GivenUpKeeps
  <2>5. CASE ~(m # active.mods /\ repeat # None)
    <3>1. KeysBecome(KeyState)
      BY <1>5, <2>5 DEF Modifiers
    <3>2. UNCHANGED keyVars
      BY <3>1 DEF KeysBecome, KeyState, keyVars
    <3> QED
      BY <1>1, <2>2, <2>3, <3>2, QuietKeeps
  <2> QED
    BY <2>4, <2>5
<1> QED
  BY <1>2, <1>3, <1>4, <1>5

(* Events and timers that are not about keys keep the invariant.             *)
LEMMA OtherEventKeeps ==
    ASSUME IInv,
           \/ \E r \in Rates, seat \in BOOLEAN : RepeatInfo(r, seat)
           \/ \E w \in DOMAIN windows : WindowConfigured(w) \/ WindowClosed(w)
           \/ \E t \in Timer : TimerWakes(t) \/ TimerWrites(t)
           \/ DaemonChanges
    PROVE  IInv'
<1>1. UNCHANGED <<keyVars, stranded, held, active>>
  BY DEF RepeatInfo, WindowConfigured, WindowClosed, TimerWakes, TimerWrites, DaemonChanges,
         threadFrame, worldVars, keyVars
<1>2. rate' \in Nat
  <2>1. CASE \E r \in Rates, seat \in BOOLEAN : RepeatInfo(r, seat)
    BY <2>1, WaylandAssumption DEF RepeatInfo, IInv
  <2>2. CASE rate' = rate
    BY <2>2 DEF IInv
  <2> QED
    BY <2>1, <2>2 DEF WindowConfigured, WindowClosed, TimerWakes, TimerWrites, DaemonChanges,
                      threadFrame, rateVars
<1> QED
  BY <1>1, <1>2, QuietKeeps DEF IInv

(* A turn of the loop ends a repeat whose deadline is over, or nothing.      *)
LEMMA TurnKeeps ==
    ASSUME IInv, Turn
    PROVE  IInv'
<1>1. UNCHANGED <<stranded, held, rate, active>> /\ active \in {None} \cup Contexts
  BY DEF Turn, IInv, worldVars, rateVars
<1>2. CASE deadline = 0
  BY <1>1, <1>2, GivenUpKeeps DEF Turn
<1>3. CASE deadline # 0
  <2>1. UNCHANGED keyVars
    BY <1>3 DEF Turn, KeysBecome, KeyState, keyVars
  <2> QED
    BY <1>1, <2>1, QuietKeeps DEF IInv
<1> QED
  BY <1>2, <1>3

(* Ticks, threads and time keep the invariant.                               *)
LEMMA TimeKeeps ==
    ASSUME IInv, RepeatTick \/ Elapse \/ \E t \in Thread : ThreadWakes(t) \/ ThreadWrites(t)
    PROVE  IInv'
<1>1. UNCHANGED <<active, rate>>
  BY DEF RepeatTick, Elapse, ThreadWakes, ThreadWrites, threadFrame, rateVars
<1>2. CASE RepeatTick
  BY <1>1, <1>2, RepeatTickKeeps DEF IInv, KeysOK
<1>3. CASE Elapse \/ \E t \in Thread : ThreadWakes(t) \/ ThreadWrites(t)
  <2>1. KeysOK'
    BY <1>3, ElapseKeeps, ThreadStepKeeps
  <2>2. repeat' = repeat
    BY <1>3 DEF Elapse, ThreadWakes, ThreadWrites, threadFrame
  <2> QED
    BY <1>1, <2>1, <2>2 DEF IInv, KeysOK
<1> QED
  BY <1>2, <1>3

(* Every step of the adapter and its world keeps the invariant.              *)
LEMMA StepOK == IInv /\ [Next]_vars => IInv'
<1> SUFFICES ASSUME IInv, [Next]_vars PROVE IInv'
  OBVIOUS
<1>1. CASE \E k \in Key : Press(k) \/ Release(k) \/ MadeUpRelease(k) \/ OutsideKey(k)
  BY <1>1, KeyEventKeeps
<1>2. CASE Activate \/ Deactivate \/ Keymap \/ \E m \in BOOLEAN : Modifiers(m)
  BY <1>2, ContextKeeps
<1>3. CASE \/ \E r \in Rates, seat \in BOOLEAN : RepeatInfo(r, seat)
           \/ \E w \in DOMAIN windows : WindowConfigured(w) \/ WindowClosed(w)
           \/ \E t \in Timer : TimerWakes(t) \/ TimerWrites(t)
           \/ DaemonChanges
  BY <1>3, OtherEventKeeps
<1>4. CASE Turn
  BY <1>4, TurnKeeps
<1>5. CASE RepeatTick \/ Elapse \/ \E t \in Thread : ThreadWakes(t) \/ ThreadWrites(t)
  BY <1>5, TimeKeeps
<1>6. CASE UNCHANGED vars
  <2>1. UNCHANGED <<keyVars, stranded, held, active, rate>>
    BY <1>6 DEF vars, worldVars, rateVars
  <2> QED
    BY <2>1, QuietKeeps DEF IInv
<1> QED
  BY <1>1, <1>2, <1>3, <1>4, <1>5, <1>6 DEF Next

(* The invariant gives the two properties the run checks.                    *)
LEMMA Implied == IInv => OneRepeat /\ AppKeysReleased
<1> SUFFICES ASSUME IInv PROVE OneRepeat /\ AppKeysReleased
  OBVIOUS
<1>1. OneRepeat
  BY DEF IInv, Sound, KeyState, OneRepeat
<1>2. app \subseteq Key
  BY DEF IInv, Sound, KeyState, KeyStates
<1> QED
  BY <1>1, <1>2 DEF IInv, ReleaseWillCome, Owed, AppKeysReleased

(* ---- windows ---- *)

(* A window that is configured has nothing pending, and one that is not shows *)
(* nothing.  Unless a buffer cannot be created, what the window takes to be   *)
(* on its surface is there, drawn on the buffer of its kind.                 *)
WindowOK(w) ==
    /\ w \in CandidateWindows
    /\ IF w.configured THEN w.pending = "nothing" ELSE w.state = "nothing"
    /\ w.broken = {} => w.surface = w.state
    /\ w.broken = {} /\ w.state # "nothing" => BufferOf(w, w.state) \in w.buffers

Holds(w, kind) == kind \in {w.state, w.pending}

(* A window that opens is empty.                                             *)
LEMMA NewWindowOK ==
    ASSUME NEW overlay \in BOOLEAN, NEW broken \in SUBSET Buffer
    PROVE  /\ WindowOK(NewWindow(overlay, broken))
           /\ \A kind \in {"list", "status"} : ~Holds(NewWindow(overlay, broken), kind)
  BY DEF NewWindow, WindowOK, CandidateWindows, Content, Holds

(* What a draw leaves of a window, and what a fade-out leaves.               *)
LEMMA Drawn ==
    ASSUME NEW w \in CandidateWindows, NEW kind \in {"list", "status"}
    PROVE  /\ [Draw(w, kind) EXCEPT !.state = kind] \in CandidateWindows
           /\ [Draw(w, kind) EXCEPT !.state = kind].state = kind
           /\ [Draw(w, kind) EXCEPT !.state = kind].pending = w.pending
           /\ [Draw(w, kind) EXCEPT !.state = kind].configured = w.configured
           /\ [Draw(w, kind) EXCEPT !.state = kind].broken = w.broken
           /\ [Draw(w, kind) EXCEPT !.state = kind].overlay = w.overlay
           /\ w.broken = {} =>
                  /\ [Draw(w, kind) EXCEPT !.state = kind].surface = kind
                  /\ BufferOf(w, kind) \in [Draw(w, kind) EXCEPT !.state = kind].buffers
<1> DEFINE d == Draw(w, kind)
<1>1. BufferOf(w, kind) \in Buffer
  BY DEF BufferOf, Buffer
<1>2. /\ d \in CandidateWindows /\ d.pending = w.pending /\ d.configured = w.configured
      /\ d.broken = w.broken /\ d.overlay = w.overlay
      /\ w.broken = {} => d.surface = kind /\ BufferOf(w, kind) \in d.buffers
  <2>1. CASE BufferOf(w, kind) \in w.broken
    BY <2>1 DEF Draw
  <2>2. CASE BufferOf(w, kind) \notin w.broken
    <3>1. d = [w EXCEPT !.buffers = w.buffers \cup {BufferOf(w, kind)}, !.surface = kind]
      BY <2>2 DEF Draw, CandidateWindows
    <3> HIDE DEF d
    <3> QED
      BY <1>1, <3>1 DEF CandidateWindows, Content
  <2> QED
    BY <2>1, <2>2
<1> HIDE DEF d
<1>3. /\ [d EXCEPT !.state = kind] \in CandidateWindows
      /\ [d EXCEPT !.state = kind].state = kind
      /\ [d EXCEPT !.state = kind].pending = d.pending
      /\ [d EXCEPT !.state = kind].configured = d.configured
      /\ [d EXCEPT !.state = kind].broken = d.broken
      /\ [d EXCEPT !.state = kind].overlay = d.overlay
      /\ [d EXCEPT !.state = kind].surface = d.surface
      /\ [d EXCEPT !.state = kind].buffers = d.buffers
  BY <1>2 DEF CandidateWindows, Content
<1> QED
  BY <1>2, <1>3 DEF d

(* A configured window that draws shows what it drew.                        *)
LEMMA ShownOK ==
    ASSUME NEW w, WindowOK(w), w.configured, NEW kind \in {"list", "status"}
    PROVE  /\ WindowOK([Draw(w, kind) EXCEPT !.state = kind])
           /\ \A other \in {"list", "status"} :
                  Holds([Draw(w, kind) EXCEPT !.state = kind], other) => other = kind
<1> DEFINE d == [Draw(w, kind) EXCEPT !.state = kind]
<1>1. w \in CandidateWindows /\ w.pending = "nothing"
  BY DEF WindowOK
<1>2. /\ d \in CandidateWindows /\ d.state = kind /\ d.pending = w.pending
      /\ d.configured = w.configured /\ d.broken = w.broken /\ d.overlay = w.overlay
      /\ w.broken = {} => d.surface = kind /\ BufferOf(w, kind) \in d.buffers
  BY <1>1, Drawn
<1> HIDE DEF d
<1>3. BufferOf(d, kind) = BufferOf(w, kind)
  BY <1>2 DEF BufferOf
<1>4. WindowOK(d)
  BY <1>1, <1>2, <1>3 DEF WindowOK
<1>5. \A other \in {"list", "status"} : Holds(d, other) => other = kind
  BY <1>1, <1>2 DEF Holds
<1> QED
  BY <1>4, <1>5 DEF d

(* A window that is not configured keeps the draw for later.                 *)
LEMMA PendingOK ==
    ASSUME NEW w, WindowOK(w), ~w.configured, NEW kind \in Content
    PROVE  /\ WindowOK([w EXCEPT !.pending = kind])
           /\ \A other \in {"list", "status"} :
                  Holds([w EXCEPT !.pending = kind], other) => other = kind
<1> DEFINE d == [w EXCEPT !.pending = kind]
<1>1. /\ d \in CandidateWindows /\ d.pending = kind /\ d.configured = w.configured
      /\ d.state = w.state /\ d.surface = w.surface /\ d.broken = w.broken
      /\ d.buffers = w.buffers /\ d.overlay = w.overlay /\ w.state = "nothing"
  BY DEF WindowOK, CandidateWindows
<1> HIDE DEF d
<1>2. WindowOK(d)
  BY <1>1 DEF WindowOK
<1>3. \A other \in {"list", "status"} : Holds(d, other) => other = kind
  BY <1>1 DEF Holds
<1> QED
  BY <1>2, <1>3 DEF d

(* After one kind of content is taken away the window does not hold it, and   *)
(* holds nothing it did not hold.                                            *)
LEMMA WithoutOK ==
    ASSUME NEW w, WindowOK(w), NEW kind \in {"list", "status"}
    PROVE  /\ WindowOK(Without(w, kind)) /\ ~Holds(Without(w, kind), kind)
           /\ \A other \in {"list", "status"} :
                  Holds(Without(w, kind), other) => Holds(w, other)
<1>1. CASE ~w.configured
  <2>1. w.pending \in Content /\ "nothing" \in Content /\ w.state = "nothing"
    BY <1>1 DEF WindowOK, CandidateWindows, Content
  <2> DEFINE p == IF w.pending = kind THEN "nothing" ELSE w.pending
  <2>2. p \in Content /\ p # kind /\ (p # "nothing" => p = w.pending)
    BY <2>1
  <2>3. Without(w, kind) = [w EXCEPT !.pending = p]
    BY <1>1, <2>1 DEF Without, WindowOK, CandidateWindows
  <2> HIDE DEF p
  <2> QED
    BY <1>1, <2>1, <2>2, <2>3, PendingOK DEF Holds
<1>2. CASE w.configured /\ w.state = kind
  <2> DEFINE f == FadeOut(w, kind)
             d == [f EXCEPT !.state = "nothing"]
  <2>1. Without(w, kind) = d
    BY <1>2 DEF Without
  <2>2. w \in CandidateWindows /\ w.pending = "nothing"
    BY <1>2 DEF WindowOK
  <2>3. /\ f \in CandidateWindows /\ f.configured = w.configured /\ f.pending = w.pending
        /\ f.broken = w.broken /\ (w.broken = {} => f.surface = "nothing")
    BY <1>2, <2>2 DEF FadeOut, WindowOK, CandidateWindows, Content
  <2> HIDE DEF f
  <2>4. /\ d \in CandidateWindows /\ d.configured = w.configured /\ d.pending = "nothing"
        /\ d.state = "nothing" /\ d.broken = w.broken /\ (w.broken = {} => d.surface = "nothing")
    BY <2>2, <2>3 DEF CandidateWindows, Content
  <2> HIDE DEF d
  <2> QED
    BY <1>2, <2>1, <2>4 DEF WindowOK, Holds
<1>3. CASE w.configured /\ w.state # kind
  BY <1>3 DEF Without, WindowOK, Holds
<1> QED
  BY <1>1, <1>2, <1>3

(* A window asked for the list holds it alone.                               *)
LEMMA ShowListOK ==
    ASSUME NEW w, WindowOK(w)
    PROVE  /\ WindowOK(ShowList(w))
           /\ \A other \in {"list", "status"} : Holds(ShowList(w), other) => other = "list"
<1>1. CASE w.configured
  BY <1>1, ShownOK DEF ShowList
<1>2. CASE ~w.configured
  BY <1>2, PendingOK DEF ShowList, Content
<1> QED
  BY <1>1, <1>2

(* A window asked for the indicator holds it alone, or keeps its list.       *)
LEMMA ShowStatusOK ==
    ASSUME NEW w, WindowOK(w)
    PROVE  /\ WindowOK(ShowStatus(w))
           /\ Holds(ShowStatus(w), "list") => Holds(w, "list")
<1>1. CASE w.state = "list"
  BY <1>1 DEF ShowStatus
<1>2. CASE w.state # "list" /\ w.configured
  BY <1>2, ShownOK DEF ShowStatus
<1>3. CASE w.state # "list" /\ ~w.configured
  BY <1>3, PendingOK DEF ShowStatus, Content
<1> QED
  BY <1>1, <1>2, <1>3

(* The configure event shows what was pending and nothing else.              *)
LEMMA ConfiguredOK ==
    ASSUME NEW w, WindowOK(w)
    PROVE  /\ WindowOK(Configured(w))
           /\ \A other \in {"list", "status"} : Holds(Configured(w), other) => Holds(w, other)
<1>1. CASE w.configured
  BY <1>1 DEF Configured
<1>2. CASE ~w.configured
  <2> DEFINE shown == [w EXCEPT !.configured = TRUE, !.pending = "nothing"]
  <2>1. /\ w \in CandidateWindows /\ w.state = "nothing"
        /\ w.pending \in {"nothing", "list", "status"}
    BY <1>2 DEF WindowOK, CandidateWindows, Content
  <2>2. /\ shown \in CandidateWindows /\ shown.configured = TRUE /\ shown.pending = "nothing"
        /\ shown.state = "nothing" /\ shown.surface = w.surface /\ shown.broken = w.broken
    BY <2>1 DEF CandidateWindows, Content
  <2> HIDE DEF shown
  <2>3. WindowOK(shown)
    BY <2>1, <2>2 DEF WindowOK
  <2>4. CASE w.pending = "nothing"
    <3>1. Configured(w) = shown
      BY <1>2, <2>4 DEF Configured, shown
    <3> QED
      BY <2>2, <2>3, <3>1 DEF Holds
  <2>5. CASE w.pending # "nothing"
    <3>1. Configured(w) = [Draw(shown, w.pending) EXCEPT !.state = w.pending]
      BY <1>2, <2>5 DEF Configured, shown
    <3>2. w.pending \in {"list", "status"}
      BY <2>1, <2>5
    <3>3. /\ WindowOK(Configured(w))
          /\ \A other \in {"list", "status"} : Holds(Configured(w), other) => other = w.pending
      <4>1. shown.configured
        BY <2>2
      <4>2. /\ WindowOK([Draw(shown, w.pending) EXCEPT !.state = w.pending])
            /\ \A other \in {"list", "status"} :
                  Holds([Draw(shown, w.pending) EXCEPT !.state = w.pending], other)
                      => other = w.pending
        BY <2>3, <3>2, <4>1, ShownOK
      <4> QED
        BY <3>1, <4>2, Zenon
    <3> QED
      BY <3>3 DEF Holds
  <2> QED
    BY <2>4, <2>5
<1> QED
  BY <1>1, <1>2

(* ---- the panel ---- *)

WindowMaps == UNION {[D -> CandidateWindows] : D \in SUBSET ({None} \cup Output)}
PanelStates == [timers : [Timer -> Slot], timer : {None} \cup Timer, persistent : BOOLEAN,
                windows : WindowMaps, listing : BOOLEAN]

(* An indicator will be taken away, or is to stay; h: its byte is in the pipe. *)
WillHide(p, h) == p.persistent = TRUE \/ h = TRUE \/ p.timer \in Running(p.timers)

(* The windows of a panel are sound, hold a list only while the engine lists  *)
(* candidates, and hold an indicator only while something will hide it.      *)
PanelOK(p, h) ==
    /\ p \in PanelStates
    /\ \A w \in DOMAIN p.windows :
           /\ WindowOK(p.windows[w])
           /\ Holds(p.windows[w], "list") => p.listing = TRUE
           /\ Holds(p.windows[w], "status") => WillHide(p, h)

(* A slot for the next timer remains once the present one is cancelled.      *)
RoomIn(p) == Free(Cancel(p.timers, p.timer)) # {}

(* A window that opens, closes or changes leaves a map of windows.           *)
LEMMA WindowMapped ==
    /\ \A f \in WindowMaps : /\ f = [w \in DOMAIN f |-> f[w]]
                             /\ DOMAIN f \subseteq {None} \cup Output
                             /\ \A w \in DOMAIN f : f[w] \in CandidateWindows
    /\ \A D \in SUBSET ({None} \cup Output) : \A f \in [D -> CandidateWindows] : f \in WindowMaps
  BY DEF WindowMaps

(* A cancelled status timer leaves its slot typed.                           *)
LEMMA TimerCancelled ==
    ASSUME NEW p \in PanelStates
    PROVE  Cancel(p.timers, p.timer) \in [Timer -> Slot]
<1>1. p.timers \in [Timer -> Slot] /\ p.timer \in {None} \cup Timer
  BY DEF PanelStates
<1>2. CASE p.timer = None
  BY <1>1, <1>2 DEF Cancel
<1>3. CASE p.timer \in Timer
  BY <1>1, <1>3, Cancelled, WaylandAssumption
<1> QED
  BY <1>1, <1>2, <1>3

(* The list is shown on, or taken off, every window.                         *)
LEMMA ListMoved ==
    ASSUME NEW p, PanelOK(p, hide), NEW action \in {"show", "hide"}
    PROVE  PanelOK(Perform(p, action), hide) /\ (RoomIn(p) => RoomIn(Perform(p, action)))
<1> DEFINE Moved(w) == IF action = "show" THEN ShowList(w) ELSE HideList(w)
           f == [w \in DOMAIN p.windows |-> Moved(p.windows[w])]
           b == action = "show"
           d == [p EXCEPT !.windows = f, !.listing = b]
<1>1. p \in PanelStates /\ p.windows \in WindowMaps
  BY DEF PanelOK, PanelStates
<1>2. \A w \in DOMAIN p.windows :
          /\ WindowOK(f[w]) /\ (Holds(f[w], "list") => b)
          /\ Holds(f[w], "status") => Holds(p.windows[w], "status")
  <2> TAKE w \in DOMAIN p.windows
  <2>1. WindowOK(p.windows[w])
    BY DEF PanelOK
  <2>2. CASE action = "show"
    <3>1. f[w] = ShowList(p.windows[w])
      BY <2>2
    <3> HIDE DEF f
    <3> QED
      BY <2>1, <2>2, <3>1, ShowListOK
  <2>3. CASE action = "hide"
    <3>1. f[w] = Without(p.windows[w], "list")
      BY <2>3 DEF HideList
    <3> HIDE DEF f
    <3> QED
      BY <2>1, <2>3, <3>1, WithoutOK
  <2> QED
    BY <2>2, <2>3
<1>3. Perform(p, action) = d
  <2>1. CASE action = "show"
    <3>1. b = TRUE /\ f = [w \in DOMAIN p.windows |-> ShowList(p.windows[w])]
      BY <2>1
    <3> HIDE DEF f, b
    <3> QED
      BY <1>1, <2>1, <3>1 DEF Perform, PanelStates
  <2>2. CASE action = "hide"
    <3>1. b = FALSE /\ f = [w \in DOMAIN p.windows |-> HideList(p.windows[w])]
      BY <2>2
    <3> HIDE DEF f, b
    <3> QED
      BY <1>1, <2>2, <3>1 DEF Perform, PanelStates
  <2> QED
    BY <2>1, <2>2
<1>4. f \in WindowMaps /\ DOMAIN f = DOMAIN p.windows
  <2>1. f = [w \in DOMAIN p.windows |-> f[w]]
    OBVIOUS
  <2> HIDE DEF f
  <2> QED
    BY <1>1, <1>2, <2>1, WindowMapped DEF WindowOK
<1>5. b \in BOOLEAN
  OBVIOUS
<1> HIDE DEF f, b
<1>6. /\ d \in PanelStates /\ d.windows = f /\ d.listing = b /\ d.timers = p.timers
      /\ d.timer = p.timer /\ d.persistent = p.persistent
  BY <1>1, <1>4, <1>5 DEF PanelStates
<1> HIDE DEF d
<1>7. PanelOK(d, hide)
  BY <1>2, <1>4, <1>6 DEF PanelOK, WillHide
<1>8. RoomIn(p) => RoomIn(d)
  BY <1>6 DEF RoomIn
<1> QED
  BY <1>3, <1>7, <1>8

(* The indicator is shown with a timer of its own, or to stay.               *)
LEMMA StatusShown ==
    ASSUME NEW p, PanelOK(p, hide), NEW timed \in BOOLEAN, timed => RoomIn(p)
    PROVE  /\ PanelOK(UpdateStatus(p, timed), hide)
           /\ RoomIn(p) => RoomIn(UpdateStatus(p, timed))
<1> DEFINE f == [w \in DOMAIN p.windows |-> ShowStatus(p.windows[w])]
           cancelled == Cancel(p.timers, p.timer)
           slots == IF timed THEN Spawn(cancelled, 0, 0) ELSE cancelled
           t == IF timed THEN Taken(cancelled) ELSE None
           d == [p EXCEPT !.windows = f, !.persistent = ~timed, !.timers = slots, !.timer = t]
<1>1. p \in PanelStates /\ p.windows \in WindowMaps /\ cancelled \in [Timer -> Slot]
  BY TimerCancelled DEF PanelOK, PanelStates
<1>2. \A w \in DOMAIN p.windows :
          WindowOK(f[w]) /\ (Holds(f[w], "list") => Holds(p.windows[w], "list"))
  <2> TAKE w \in DOMAIN p.windows
  <2>1. WindowOK(p.windows[w]) /\ f[w] = ShowStatus(p.windows[w])
    BY DEF PanelOK
  <2> HIDE DEF f
  <2> QED
    BY <2>1, ShowStatusOK
<1>3. f \in WindowMaps /\ DOMAIN f = DOMAIN p.windows
  <2>1. f = [w \in DOMAIN p.windows |-> f[w]]
    OBVIOUS
  <2> HIDE DEF f
  <2> QED
    BY <1>1, <1>2, <2>1, WindowMapped DEF WindowOK
<1>4. UpdateStatus(p, timed) = d
  BY <1>1 DEF UpdateStatus, PanelStates, Taken
<1> HIDE DEF f, cancelled
<1>5. /\ slots \in [Timer -> Slot] /\ t \in {None} \cup Timer
      /\ timed => t \in Timer /\ t \in Running(slots) /\ slots[t].at = "sleep"
      /\ ~timed => slots = cancelled /\ t = None
  <2>1. CASE timed
    <3>1. Free(cancelled) # {}
      BY <2>1 DEF RoomIn, cancelled
    <3> QED
      BY <1>1, <2>1, <3>1, Spawned, IdleTyped
  <2>2. CASE ~timed
    BY <1>1, <2>2
  <2> QED
    BY <2>1, <2>2
<1> HIDE DEF slots, t
<1>6. /\ d \in PanelStates /\ d.windows = f /\ d.listing = p.listing /\ d.timers = slots
      /\ d.timer = t /\ d.persistent = ~timed
  BY <1>1, <1>3, <1>5 DEF PanelStates
<1> HIDE DEF d
<1>7. WillHide(d, hide)
  BY <1>5, <1>6 DEF WillHide
<1>8. PanelOK(d, hide)
  BY <1>2, <1>3, <1>6, <1>7 DEF PanelOK
<1>9. RoomIn(p) => RoomIn(d)
  <2>1. CASE timed
    <3>1. t \in Free(Cancel(slots, t))
      BY <1>5, <2>1, Cancelled, WaylandAssumption
    <3> QED
      BY <1>6, <3>1 DEF RoomIn
  <2>2. CASE ~timed
    <3>1. Cancel(slots, t) = cancelled
      BY <1>5, <2>2 DEF Cancel
    <3> QED
      BY <1>6, <3>1 DEF RoomIn, cancelled
  <2> QED
    BY <2>1, <2>2
<1> QED
  BY <1>4, <1>8, <1>9

(* Whatever action the engine sends, the panel stays sound.                  *)
LEMMA Performed ==
    ASSUME NEW p, PanelOK(p, hide), NEW action, action = "status" => RoomIn(p)
    PROVE  PanelOK(Perform(p, action), hide) /\ (RoomIn(p) => RoomIn(Perform(p, action)))
<1>1. CASE action \in {"show", "hide"}
  BY <1>1, ListMoved
<1>2. CASE action = "status"
  BY <1>2, StatusShown DEF Perform
<1>3. CASE action = "pin"
  BY <1>3, StatusShown DEF Perform
<1>4. CASE action \notin {"show", "hide", "status", "pin"}
  BY <1>4 DEF Perform
<1> QED
  BY <1>1, <1>2, <1>3, <1>4

(* A set of numbers up to N that holds 0 and every successor holds them all.  *)
LEMMA UpTo ==
    ASSUME NEW N \in Nat, NEW S, 0 \in S, \A n \in 0 .. N - 1 : n \in S => n + 1 \in S
    PROVE  \A n \in 0 .. N : n \in S
<1> DEFINE missing == (0 .. N) \ S
           less == OpToRel(<, Nat)
<1> SUFFICES ASSUME missing # {} PROVE FALSE
  OBVIOUS
<1>1. missing \subseteq Nat /\ missing # {}
  OBVIOUS
<1>2. PICK n \in missing : \A m \in missing : ~(<<m, n>> \in less)
  <2> HIDE DEF missing, less
  <2>1. IsWellFoundedOn(less, Nat)
    BY NatLessThanWellFounded DEF less
  <2> QED
    BY <1>1, <2>1, WFMin
<1>3. n \in 0 .. N /\ n \notin S /\ n # 0
  BY <1>2
<1>4. n - 1 \notin missing
  <2>1. n - 1 \in Nat /\ n \in Nat /\ n - 1 < n
    BY <1>3
  <2>2. <<n - 1, n>> \in less
    BY <2>1 DEF OpToRel
  <2> QED
    BY <1>2, <2>2
<1> QED
  BY <1>3, <1>4

(* The panels after each action of a list: the first is the panel there is,   *)
(* and each next one has performed one more action.                          *)
Successive(f, actions, n) ==
    f = [i \in 0 .. n |-> IF i = 0 THEN Panel ELSE Perform(f[i - 1], actions[i])]

(* The panels after every prefix of a list of actions exist.                 *)
LEMMA PrefixesPerformed ==
    ASSUME NEW actions, NEW N \in Nat
    PROVE  \E f : Successive(f, actions, N)
<1> DEFINE S == {n \in 0 .. N : \E f : Successive(f, actions, n)}
<1>1. 0 \in S
  <2> DEFINE f == [i \in 0 .. 0 |-> Panel]
  <2>1. Successive(f, actions, 0)
    BY DEF Successive
  <2> QED
    BY <2>1
<1>2. ASSUME NEW n \in 0 .. N - 1, n \in S PROVE n + 1 \in S
  <2>1. PICK f : Successive(f, actions, n)
    BY <1>2
  <2> DEFINE g == [i \in 0 .. n + 1 |-> IF i = 0 THEN Panel ELSE Perform(f[i - 1], actions[i])]
  <2>2. \A i \in 0 .. n : g[i] = f[i]
    BY <2>1 DEF Successive
  <2>3. \A i \in 0 .. n + 1 : i # 0 => g[i - 1] = f[i - 1]
    <3> HIDE DEF g
    <3>1. \A i \in 0 .. n + 1 : i # 0 => i - 1 \in 0 .. n
      OBVIOUS
    <3> QED
      BY <2>2, <3>1
  <2>4. Successive(g, actions, n + 1)
    BY <2>3 DEF Successive
  <2> QED
    BY <2>4
<1>3. \A n \in 0 .. N : n \in S
  <2> HIDE DEF S
  <2> QED
    BY <1>1, <1>2, UpTo
<1> QED
  BY <1>3

(* A list of actions is dispatched in order, from the panel there is.        *)
LEMMA DispatchedInOrder ==
    ASSUME NEW actions \in Seq(STRING)
    PROVE  \E f : Successive(f, actions, Len(actions)) /\ Dispatched(actions) = f[Len(actions)]
<1> DEFINE N == Len(actions)
           after == CHOOSE f : Successive(f, actions, N)
<1>1. N \in Nat
  OBVIOUS
<1>2. Dispatched(actions) = after[N]
  BY DEF Dispatched, Successive
<1>3. Successive(after, actions, N)
  <2>1. \E f : Successive(f, actions, N)
    BY <1>1, PrefixesPerformed
  <2> QED
    BY <2>1
<1> QED
  BY <1>2, <1>3

(* Whatever list of actions the engine answers with, the panel stays sound.   *)
LEMMA DispatchOK ==
    ASSUME NEW actions \in Seq(STRING), PanelOK(Panel, hide),
           Contains(actions, "status") => RoomIn(Panel)
    PROVE  PanelOK(Dispatched(actions), hide)
<1> DEFINE N == Len(actions)
<1>1. PICK f : Successive(f, actions, N) /\ Dispatched(actions) = f[N]
  BY DispatchedInOrder
<1> DEFINE Sound2(n) == PanelOK(f[n], hide) /\ (Contains(actions, "status") => RoomIn(f[n]))
           S == {n \in 0 .. N : Sound2(n)}
<1>2. N \in Nat
  OBVIOUS
<1>3. f[0] = Panel /\ \A n \in 0 .. N - 1 : f[n + 1] = Perform(f[n], actions[n + 1])
  <2> HIDE DEF N
  <2> QED
    BY <1>1, <1>2 DEF Successive
<1>4. 0 \in S
  BY <1>2, <1>3
<1>5. ASSUME NEW n \in 0 .. N - 1, n \in S PROVE n + 1 \in S
  <2>1. actions[n + 1] = "status" => Contains(actions, "status")
    BY DEF Contains
  <2> HIDE DEF N
  <2>2. Sound2(n)
    BY <1>5
  <2>3. Sound2(n + 1)
    BY <1>3, <2>1, <2>2, Performed
  <2> QED
    BY <1>2, <2>3
<1>6. N \in S
  <2> HIDE DEF S, N
  <2>1. \A n \in 0 .. N : n \in S
    BY <1>2, <1>4, <1>5, UpTo
  <2> QED
    BY <1>2, <2>1
<1> QED
  BY <1>1, <1>6

(* ---- steps of the panel ---- *)

(* The state the action sink leaves is the one it computed.                  *)
LEMMA PanelBecame ==
    ASSUME NEW p, PanelOK(p, hide), PanelBecomes(p), hide => hide'
    PROVE  PanelOK(Panel, hide)'
<1>1. p \in PanelStates
  BY DEF PanelOK
<1>2. Panel' = p
  BY <1>1 DEF PanelBecomes, Panel, PanelStates
<1>3. WillHide(p, hide) => WillHide(p, hide')
  BY DEF WillHide
<1>4. PanelOK(p, hide')
  BY <1>3 DEF PanelOK
<1> QED
  BY <1>2, <1>4

(* Nothing changes for the panel.                                            *)
LEMMA PanelRests ==
    ASSUME PanelOK(Panel, hide), UNCHANGED panelVars, hide => hide'
    PROVE  PanelOK(Panel, hide)'
<1>1. PanelBecomes(Panel)
  BY DEF PanelBecomes, Panel, panelVars
<1> QED
  BY <1>1, PanelBecame

(* Nothing is shown when the adapter starts, on whatever windows there are.   *)
LEMMA PanelInit == Init => PanelOK(Panel, hide)
<1> SUFFICES ASSUME Init PROVE PanelOK(Panel, hide)
  OBVIOUS
<1>1. /\ timers = [t \in Timer |-> Idle] /\ timer = None /\ persistent = FALSE
      /\ listing = FALSE
  BY DEF Init
<1>2. PICK font \in BOOLEAN, panel \in BOOLEAN, layer \in BOOLEAN, outputs \in SUBSET Output,
           broken \in SUBSET Buffer :
               windows = InitCandidateWindows(font, panel, layer, outputs, broken)
  BY DEF Init
<1> DEFINE on == IF ~font \/ ~(panel \/ layer) THEN {}
                 ELSE IF panel \/ outputs = {} THEN {None} ELSE outputs
<1>3. on \in SUBSET ({None} \cup Output) /\ windows = [w \in on |-> NewWindow(panel, broken)]
  BY <1>2 DEF InitCandidateWindows
<1> HIDE DEF on
<1>4. \A w \in on : /\ WindowOK(windows[w])
                    /\ \A kind \in {"list", "status"} : ~Holds(windows[w], kind)
  BY <1>2, <1>3, NewWindowOK
<1>5. windows \in WindowMaps /\ DOMAIN windows = on
  BY <1>3, <1>4, WindowMapped DEF WindowOK
<1>6. Panel \in PanelStates
  BY <1>1, <1>5, IdleTyped DEF Panel, PanelStates
<1>7. Panel.windows = windows
  BY DEF Panel
<1> QED
  BY <1>4, <1>5, <1>6, <1>7 DEF PanelOK

(* What the engine answers to a key leaves the panel sound.                  *)
LEMMA OnPressPanel ==
    ASSUME PanelOK(Panel, hide), NEW k, NEW after, NEW forward, OnPress(k, after, forward),
           hide' = hide
    PROVE  PanelOK(Panel, hide)'
<1>1. PICK answer \in PressAnswers :
        IF answer = None THEN UNCHANGED panelVars ELSE PanelBecomes(Dispatched(answer))
  BY DEF OnPress
<1>2. CASE answer = None
  BY <1>1, <1>2, PanelRests
<1>3. CASE answer # None
  <2>1. answer \in Answers /\ Room(answer)
    BY <1>3 DEF PressAnswers
  <2>2. answer \in Seq(STRING)
    BY <2>1, WaylandAssumption
  <2>3. Contains(answer, "status") => RoomIn(Panel)
    BY <2>1 DEF Room, RoomIn, Panel
  <2>4. PanelOK(Dispatched(answer), hide)
    BY <2>2, <2>3, DispatchOK
  <2> QED
    BY <1>1, <1>3, <2>4, PanelBecame
<1> QED
  BY <1>2, <1>3

(* Windows that change may lose what they hold, and hold nothing new.        *)
LEMMA WindowsMove ==
    ASSUME PanelOK(Panel, hide), windows' \in WindowMaps, DOMAIN windows' \subseteq DOMAIN windows,
           \A w \in DOMAIN windows' :
               /\ WindowOK(windows'[w])
               /\ \A kind \in {"list", "status"} :
                      Holds(windows'[w], kind) => Holds(windows[w], kind)
               /\ Holds(windows'[w], "status") /\ hide => hide',
           UNCHANGED <<timers, timer, persistent, listing>>
    PROVE  PanelOK(Panel, hide)'
<1> DEFINE p == [Panel EXCEPT !.windows = windows']
<1>1. Panel \in PanelStates /\ Panel.windows = windows
  BY DEF PanelOK, Panel
<1>2. /\ p \in PanelStates /\ p.windows = windows' /\ p.listing = listing /\ p.timers = timers
      /\ p.timer = timer /\ p.persistent = persistent
  BY <1>1 DEF PanelStates, Panel
<1> HIDE DEF p
<1>3. Panel' = p
  BY <1>1, <1>2 DEF Panel, PanelStates
<1>4. \A w \in DOMAIN windows : /\ Holds(windows[w], "list") => listing = TRUE
                                /\ Holds(windows[w], "status") => WillHide(Panel, hide)
  BY <1>1 DEF PanelOK, Panel
<1>5. ASSUME NEW w \in DOMAIN windows', Holds(windows'[w], "status"), WillHide(Panel, hide)
      PROVE  WillHide(p, hide')
  BY <1>2, <1>5 DEF WillHide, Panel
<1>6. PanelOK(p, hide')
  BY <1>2, <1>4, <1>5 DEF PanelOK
<1> QED
  BY <1>3, <1>6

(* What the compositor does to a window leaves the panel sound.              *)
LEMMA WindowEventPanel ==
    ASSUME PanelOK(Panel, hide), NEW w \in DOMAIN windows, WindowConfigured(w) \/ WindowClosed(w)
    PROVE  PanelOK(Panel, hide)'
<1>1. /\ windows \in WindowMaps /\ \A v \in DOMAIN windows : WindowOK(windows[v])
      /\ UNCHANGED <<timers, timer, persistent, listing, hide>>
  BY DEF PanelOK, PanelStates, Panel, WindowConfigured, WindowClosed, pipeVars
<1>2. /\ windows = [v \in DOMAIN windows |-> windows[v]]
      /\ DOMAIN windows \subseteq {None} \cup Output
      /\ \A v \in DOMAIN windows : windows[v] \in CandidateWindows
  BY <1>1, WindowMapped
<1>3. CASE WindowConfigured(w)
  <2>1. windows' = [windows EXCEPT ![w] = Configured(windows[w])]
    BY <1>3 DEF WindowConfigured
  <2>2. /\ WindowOK(Configured(windows[w]))
        /\ \A kind \in {"list", "status"} :
               Holds(Configured(windows[w]), kind) => Holds(windows[w], kind)
    BY <1>1, ConfiguredOK
  <2>3. Configured(windows[w]) \in CandidateWindows
    BY <2>2 DEF WindowOK
  <2>4. DOMAIN windows' = DOMAIN windows /\ windows' \in [DOMAIN windows -> CandidateWindows]
    BY <1>2, <2>1, <2>3
  <2>5. windows' \in WindowMaps
    BY <1>2, <2>4, WindowMapped
  <2>6. \A v \in DOMAIN windows' :
            windows'[v] = IF v = w THEN Configured(windows[w]) ELSE windows[v]
    BY <2>1
  <2> QED
    BY <1>1, <2>2, <2>4, <2>5, <2>6, WindowsMove
<1>4. CASE WindowClosed(w)
  <2>1. windows' = [v \in DOMAIN windows \ {w} |-> windows[v]]
    BY <1>4 DEF WindowClosed
  <2>2. /\ DOMAIN windows' = DOMAIN windows \ {w}
        /\ windows' \in [DOMAIN windows \ {w} -> CandidateWindows]
    BY <1>2, <2>1
  <2>3. windows' \in WindowMaps
    BY <1>2, <2>2, WindowMapped
  <2>4. \A v \in DOMAIN windows' : windows'[v] = windows[v]
    BY <2>1
  <2> QED
    BY <1>1, <2>2, <2>3, <2>4, WindowsMove
<1> QED
  BY <1>3, <1>4

(* A turn that finds the byte of a timer takes the indicator away.           *)
LEMMA TurnPanel ==
    ASSUME PanelOK(Panel, hide), Turn
    PROVE  PanelOK(Panel, hide)'
<1>1. /\ windows \in WindowMaps /\ \A v \in DOMAIN windows : WindowOK(windows[v])
      /\ UNCHANGED <<timers, timer, persistent, listing>>
  BY DEF PanelOK, PanelStates, Panel, Turn
<1>2. CASE hide
  <2> DEFINE f == [w \in DOMAIN windows |-> HideStatus(windows[w])]
  <2>1. windows' = f
    BY <1>2 DEF Turn
  <2>2. \A w \in DOMAIN windows :
            /\ WindowOK(f[w]) /\ ~Holds(f[w], "status")
            /\ Holds(f[w], "list") => Holds(windows[w], "list")
    <3> TAKE w \in DOMAIN windows
    <3>1. f[w] = Without(windows[w], "status")
      BY DEF HideStatus
    <3> HIDE DEF f
    <3> QED
      BY <1>1, <3>1, WithoutOK
  <2>3. DOMAIN f = DOMAIN windows /\ f = [w \in DOMAIN windows |-> f[w]]
    OBVIOUS
  <2> HIDE DEF f
  <2>4. f \in WindowMaps
    BY <1>1, <2>2, <2>3, WindowMapped DEF WindowOK
  <2> QED
    BY <1>1, <2>1, <2>2, <2>3, <2>4, WindowsMove
<1>3. CASE ~hide
  BY <1>1, <1>3, PanelRests DEF Turn, panelVars
<1> QED
  BY <1>2, <1>3

(* A timer that wakes goes on running, and one that writes leaves its byte.   *)
LEMMA TimerPanel ==
    ASSUME PanelOK(Panel, hide), NEW t \in Timer, TimerWakes(t) \/ TimerWrites(t)
    PROVE  PanelOK(Panel, hide)'
<1>1. /\ Panel \in PanelStates /\ timers \in [Timer -> Slot]
      /\ UNCHANGED <<timer, persistent, windows, listing>>
  BY DEF PanelOK, PanelStates, Panel, TimerWakes, TimerWrites, threadFrame
<1> DEFINE p == [Panel EXCEPT !.timers = timers']
<1>2. /\ timers' \in [Timer -> Slot] /\ (hide => hide')
      /\ hide' = TRUE \/ Running(timers') = Running(timers)
  <2>1. CASE TimerWakes(t)
    <3>1. /\ timers' = [timers EXCEPT ![t] = [timers[t] EXCEPT !.at = "write"]]
          /\ timers[t].at = "sleep"
      BY <2>1 DEF TimerWakes
    <3>2. /\ [timers[t] EXCEPT !.at = "write"] \in Slot
          /\ [timers[t] EXCEPT !.at = "write"].at = "write"
      BY <1>1 DEF Slot
    <3>3. timers' \in [Timer -> Slot] /\ timers'[t].at = "write"
      BY <1>1, <3>1, <3>2
    <3>4. Running(timers') = Running(timers)
      BY <1>1, <3>1, <3>3 DEF Running
    <3> QED
      BY <2>1, <3>3, <3>4 DEF TimerWakes
  <2>2. CASE TimerWrites(t)
    BY <1>1, <2>2, IdleTyped DEF TimerWrites
  <2> QED
    BY <2>1, <2>2
<1>3. /\ p \in PanelStates /\ p.windows = windows /\ p.listing = listing /\ p.timers = timers'
      /\ p.timer = timer /\ p.persistent = persistent
  BY <1>1, <1>2 DEF PanelStates, Panel
<1> HIDE DEF p
<1>4. WillHide(Panel, hide) => WillHide(p, hide')
  BY <1>2, <1>3 DEF WillHide, Panel
<1>5. \A w \in DOMAIN windows : /\ WindowOK(windows[w])
                                /\ Holds(windows[w], "list") => listing = TRUE
                                /\ Holds(windows[w], "status") => WillHide(Panel, hide)
  BY DEF PanelOK, Panel
<1>6. PanelOK(p, hide')
  BY <1>1, <1>3, <1>4, <1>5 DEF PanelOK
<1>7. Panel' = p
  BY <1>1, <1>3 DEF Panel, PanelStates
<1> QED
  BY <1>6, <1>7

(* Every step of the adapter and its world leaves the panel sound.           *)
LEMMA PanelStep == PanelOK(Panel, hide) /\ [Next]_vars => PanelOK(Panel, hide)'
<1> SUFFICES ASSUME PanelOK(Panel, hide), [Next]_vars PROVE PanelOK(Panel, hide)'
  OBVIOUS
<1>1. ASSUME NEW k \in Key, Press(k) PROVE PanelOK(Panel, hide)'
  <2>1. hide' = hide /\ PressEvent(k)
    BY <1>1 DEF Press, pipeVars
  <2>2. UNCHANGED panelVars \/ \E after, forward : OnPress(k, after, forward)
    BY <2>1 DEF PressEvent
  <2> QED
    BY <2>1, <2>2, PanelRests, OnPressPanel
<1>2. CASE RepeatTick
  <2>1. hide' = hide /\ (UNCHANGED panelVars \/ \E k, after, forward : OnPress(k, after, forward))
    BY <1>2 DEF RepeatTick
  <2> QED
    BY <2>1, PanelRests, OnPressPanel
<1>3. CASE \/ \E k \in Key : Release(k) \/ MadeUpRelease(k) \/ OutsideKey(k)
           \/ Activate \/ Deactivate \/ Keymap \/ \E m \in BOOLEAN : Modifiers(m)
           \/ \E r \in Rates, seat \in BOOLEAN : RepeatInfo(r, seat)
           \/ \E t \in Thread : ThreadWakes(t) \/ ThreadWrites(t)
           \/ Elapse \/ DaemonChanges \/ UNCHANGED vars
  <2>1. UNCHANGED panelVars /\ UNCHANGED hide
    BY <1>3 DEF Release, MadeUpRelease, ReleaseEvent, OutsideKey, Activate, Deactivate, Keymap,
                Modifiers, RepeatInfo, ThreadWakes, ThreadWrites, Elapse, DaemonChanges, vars,
                threadFrame, panelVars, pipeVars
  <2> QED
    BY <2>1, PanelRests
<1>4. CASE \E w \in DOMAIN windows : WindowConfigured(w) \/ WindowClosed(w)
  BY <1>4, WindowEventPanel
<1>5. CASE Turn
  BY <1>5, TurnPanel
<1>6. CASE \E t \in Timer : TimerWakes(t) \/ TimerWrites(t)
  BY <1>6, TimerPanel
<1> QED
  BY <1>1, <1>2, <1>3, <1>4, <1>5, <1>6 DEF Next

(* ---- the rest of the state ---- *)

(* What the compositor, the daemon and the pipe may be.                      *)
WorldTyped ==
    /\ held \subseteq Key /\ echo \subseteq Key
    /\ outage \in BOOLEAN /\ seatSpoke \in BOOLEAN /\ hide \in BOOLEAN
    /\ rate \in Rates \cup {DefaultRate}
    /\ ticks \in 0 .. MaxTicks /\ todo \in 0 .. MaxTicks

(* A key that runs through the engine has at most its own release made up.   *)
LEMMA OnPressEchoes ==
    ASSUME NEW k \in Key, NEW after, NEW forward, OnPress(k, after, forward), echo \subseteq Key
    PROVE  echo' \subseteq Key
  BY DEF OnPress, Echoes

(* Every step leaves the rest of the state typed.                            *)
LEMMA WorldStep == IInv /\ WorldTyped /\ [Next]_vars => WorldTyped'
<1> SUFFICES ASSUME IInv, WorldTyped, [Next]_vars PROVE WorldTyped'
  OBVIOUS
<1>1. ASSUME NEW k \in Key, Press(k) PROVE WorldTyped'
  <2>1. echo' = echo \/ \E after, forward : OnPress(k, after, forward)
    BY <1>1 DEF Press, PressEvent
  <2>2. echo' \subseteq Key
    BY <2>1, OnPressEchoes DEF WorldTyped
  <2>3. held' \subseteq Key /\ UNCHANGED <<outage, seatSpoke, hide, rate, ticks, todo>>
    BY <1>1 DEF Press, WorldTyped, pipeVars, rateVars
  <2> QED
    BY <2>2, <2>3 DEF WorldTyped
<1>2. CASE \E k \in Key : Release(k) \/ MadeUpRelease(k) \/ OutsideKey(k)
  BY <1>2 DEF Release, MadeUpRelease, OutsideKey, WorldTyped, pipeVars, rateVars
<1>3. CASE \/ Activate \/ Deactivate \/ Keymap \/ \E m \in BOOLEAN : Modifiers(m)
           \/ Elapse \/ UNCHANGED vars
  BY <1>3 DEF Activate, Deactivate, Keymap, Modifiers, Elapse, vars, WorldTyped, pipeVars,
              rateVars, worldVars
<1>4. CASE \/ \E r \in Rates, seat \in BOOLEAN : RepeatInfo(r, seat)
           \/ \E w \in DOMAIN windows : WindowConfigured(w) \/ WindowClosed(w)
           \/ DaemonChanges
  BY <1>4 DEF RepeatInfo, WindowConfigured, WindowClosed, DaemonChanges, WorldTyped, pipeVars,
              rateVars, worldVars
<1>5. CASE Turn
  BY <1>5, WaylandAssumption DEF Turn, WorldTyped, rateVars, worldVars
<1>6. CASE RepeatTick
  <2>1. echo' = echo \/ (repeat # None /\ \E after, forward : OnPress(repeat.key, after, forward))
    BY <1>6 DEF RepeatTick
  <2>2. repeat # None => repeat.key \in Key
    BY DEF IInv, Sound, KeyState, KeyStates, RepeatActive
  <2>3. echo' \subseteq Key
    BY <2>1, <2>2, OnPressEchoes DEF WorldTyped
  <2>4. /\ UNCHANGED <<held, outage, seatSpoke, hide, rate, ticks>>
        /\ todo' \in {0, todo - 1} /\ todo > 0
    BY <1>6 DEF RepeatTick, rateVars
  <2>5. todo' \in 0 .. MaxTicks
    BY <2>4, WaylandAssumption DEF WorldTyped
  <2> QED
    BY <2>3, <2>4, <2>5 DEF WorldTyped
<1>7. CASE \/ \E t \in Thread : ThreadWakes(t) \/ ThreadWrites(t)
           \/ \E t \in Timer : TimerWakes(t) \/ TimerWrites(t)
  <2>1. /\ UNCHANGED <<held, echo, outage, seatSpoke, rate, todo>>
        /\ hide' \in {hide, TRUE} /\ (ticks' = ticks \/ (ticks < MaxTicks /\ ticks' = ticks + 1))
    BY <1>7 DEF ThreadWakes, ThreadWrites, TimerWakes, TimerWrites, threadFrame, rateVars,
                worldVars
  <2>2. ticks' \in 0 .. MaxTicks
    BY <2>1, WaylandAssumption DEF WorldTyped
  <2> QED
    BY <2>1, <2>2 DEF WorldTyped
<1> QED
  BY <1>1, <1>2, <1>3, <1>4, <1>5, <1>6, <1>7 DEF Next

(* Keys, panel and the rest together.                                        *)
AdapterInv == IInv /\ PanelOK(Panel, hide) /\ WorldTyped

(* The whole invariant gives the types and what the windows promise.         *)
LEMMA WindowsImplied ==
    AdapterInv => TypeOK /\ IndicatorWillHide /\ NoStaleList /\ SurfaceShowsState
<1> SUFFICES ASSUME AdapterInv
             PROVE  TypeOK /\ IndicatorWillHide /\ NoStaleList /\ SurfaceShowsState
  OBVIOUS
<1>1. /\ Panel \in PanelStates
      /\ \A w \in DOMAIN windows :
             /\ WindowOK(windows[w])
             /\ Holds(windows[w], "list") => listing = TRUE
             /\ Holds(windows[w], "status") => WillHide(Panel, hide)
  BY DEF AdapterInv, PanelOK, Panel
<1>2. /\ timers \in [Timer -> Slot] /\ timer \in {None} \cup Timer /\ persistent \in BOOLEAN
      /\ listing \in BOOLEAN
  BY <1>1 DEF Panel, PanelStates
<1>3. WillHide(Panel, hide) => persistent \/ hide \/ (timer # None /\ timer \in Running(timers))
  <2>1. Running(timers) \subseteq Timer /\ None \notin Timer
    BY <1>2, WaylandAssumption DEF Running
  <2> QED
    BY <2>1 DEF WillHide, Panel
<1>4. \A w \in DOMAIN windows : windows[w].broken = {} => windows[w].surface = windows[w].state
  BY <1>1 DEF WindowOK
<1>5. TypeOK
  <2>1. /\ Sound(KeyState) /\ ReleaseWillCome /\ active \in {None} \cup Contexts /\ WorldTyped
    BY DEF AdapterInv, IInv
  <2>2. /\ pressed \subseteq Key /\ repeat \in {None} \cup RepeatActive /\ app \subseteq Key
        /\ deadline \in {None} \cup 0 .. Steps(500) /\ threads \in [Thread -> Slot]
    BY <2>1 DEF Sound, KeyState, KeyStates, Deadlines
  <2>3. stranded \subseteq app
    BY <2>1 DEF ReleaseWillCome
  <2>4. threads \in Slots(Thread) /\ timers \in Slots(Timer)
    BY <1>2, <2>2 DEF Slots, Slot, Time
  <2>5. \A w \in DOMAIN windows : windows[w] \in CandidateWindows
    BY <1>1 DEF WindowOK
  <2> QED
    BY <1>2, <2>1, <2>2, <2>3, <2>4, <2>5 DEF TypeOK, WorldTyped
<1>6. IndicatorWillHide
  BY <1>1, <1>3 DEF IndicatorWillHide, Holds
<1>7. NoStaleList
  BY <1>1 DEF NoStaleList, Holds
<1>8. SurfaceShowsState
  BY <1>4 DEF SurfaceShowsState
<1> QED
  BY <1>5, <1>6, <1>7, <1>8

(* The adapter starts with everything typed and nothing shown.               *)
LEMMA AdapterInit == Init => AdapterInv
<1>1. ASSUME Init PROVE WorldTyped
  <2>1. /\ held = {} /\ echo = {} /\ outage = FALSE /\ seatSpoke = FALSE /\ hide = FALSE
        /\ rate = DefaultRate /\ ticks = 0 /\ todo = 0
    BY <1>1 DEF Init
  <2>2. 0 \in 0 .. MaxTicks
    BY WaylandAssumption
  <2> QED
    BY <2>1, <2>2 DEF WorldTyped
<1> QED
  BY <1>1, InitOK, PanelInit DEF AdapterInv

(* Every step keeps the keys, the panel and the types.                       *)
LEMMA AdapterStep == AdapterInv /\ [Next]_vars => AdapterInv'
  BY StepOK, PanelStep, WorldStep DEF AdapterInv

(* In every state a key the application is owed the release of is held and   *)
(* is taken to be down, whatever keys, answers, rates and threads there are. *)
THEOREM Invariance == Spec => []IInv
  BY InitOK, StepOK, PTL DEF Spec

(* One thread repeats at a time, the one of the repeat in progress: no order *)
(* of presses, deferred releases, ticks and context changes leaves a second  *)
(* thread or a deadline behind (start_repeat, drop_repeat, stop_all_repeat). *)
THEOREM OneRepeatAtATime == Spec => []OneRepeat
  BY Invariance, Implied, PTL

(* The application gets the release of every press it was given, whatever    *)
(* was repeating, unless on_key gave the release up (on_key).                *)
THEOREM ReleasesArrive == Spec => []AppKeysReleased
  BY Invariance, Implied, PTL

(* Every state keeps its keys, its panel and its types.                      *)
THEOREM AdapterInvariance == Spec => []AdapterInv
  BY AdapterInit, AdapterStep, PTL DEF Spec

(* The adapter's state is typed, its threads never wait longer than the delay *)
(* or one second, and its deadline is never over 500 ms (repeat_stop_grace),  *)
(* whatever rates the compositor reports.                                    *)
THEOREM Typed == Spec => []TypeOK
  BY AdapterInvariance, WindowsImplied, PTL

(* An indicator that is shown, or pending on a window not yet configured, has *)
(* a timer or its byte to take it away, whatever lists of actions, turns and  *)
(* timers come in between (update_status and its timer thread).              *)
THEOREM IndicatorsHide == Spec => []IndicatorWillHide
  BY AdapterInvariance, WindowsImplied, PTL

(* No window shows or keeps pending a list that the engine has hidden        *)
(* (show_candidates, hide_candidates, handle_configure).                     *)
THEOREM ListsAreTakenBack == Spec => []NoStaleList
  BY AdapterInvariance, WindowsImplied, PTL

(* A surface shows what its window takes it to show: each kind of content is  *)
(* faded out on the buffer it was drawn on (hide, hide_status).              *)
THEOREM SurfacesAgree == Spec => []SurfaceShowsState
  BY AdapterInvariance, WindowsImplied, PTL
=============================================================================
