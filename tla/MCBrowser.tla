----------------------------- MODULE MCBrowser -----------------------------
(* The instances of Browser that TLC checks.                               *)
EXTENDS Browser, TLC
CONSTANTS w1, w2, w3, p1, p2

\* Two websites share the default profile, a third has its own.
SharedProfile == [w \in Websites |-> IF w = w3 THEN p2 ELSE p1]

Few == {[actions |-> {"frame"}, websites |-> {w1, w2}],
        [actions |-> {"frame"}, websites |-> {w1, w3}],
        [actions |-> {"frame", "clear"}, websites |-> {w3}],
        [actions |-> {"frame", "prepare"}, websites |-> {w3}],
        [actions |-> {"prepare", "finish", "validate"}, websites |-> {w3}]}
=============================================================================
