----------------------------- MODULE MCWayland -----------------------------
(***************************************************************************)
(* Instances of the Wayland adapter for TLC.  The panel and the keys meet   *)
(* only in on_key, so one run explores three start-ups: without a window,   *)
(* with two keys (one during outages), contexts and waiting ticks; with an   *)
(* overlay panel, one key, modifiers and changing rates; with two layer     *)
(* surfaces, one key and what the engine and the compositor do to them.     *)
(***************************************************************************)
EXTENDS WaylandProperties

CONSTANTS a, b, t1, t2, w1, w2

TwoKeys    == {a, b}
TwoSlots   == {t1, t2}
TwoOutputs == {w1, w2}
RatesUsed  == {0, 25}

(* What a press may bring: passed, consumed with and without text, both,     *)
(* and the moves of the list and of the indicator.                         *)
AllAnswers == {<<"pass">>, <<"commit">>, <<"preedit">>, <<"commit", "pass">>,
               <<"show">>, <<"hide">>, <<"status">>, <<"pin">>}

KeyHalf ==
    /\ UNCHANGED <<panelVars, rateVars>> /\ (active' # None => ~active'.mods)
    /\ outage' => b \notin held' \cup pressed'

PanelHalf ==
    /\ DOMAIN windows' # {} /\ held' \subseteq {a}
    /\ UNCHANGED <<outage, echo>> /\ \A t \in Thread : threads'[t].at # "write"
    /\ active # None => active' # None
    /\ active' # None => active'.keymap # "failed"
    /\ (\E w \in DOMAIN windows : ~windows[w].overlay \/ windows[w].broken # {}) =>
            UNCHANGED rateVars /\ (active' # None => ~active'.mods)

MCNext == Next /\ IF DOMAIN windows = {} THEN KeyHalf ELSE PanelHalf
MCInit ==
    /\ Init /\ DOMAIN windows # {w1} /\ DOMAIN windows # {w2}
    /\ \A w \in DOMAIN windows :
           windows[w].broken \subseteq (IF windows[w].overlay THEN {"cand_buf"} ELSE {})
MCSpec == MCInit /\ [][MCNext]_vars /\ Fairness
=============================================================================
