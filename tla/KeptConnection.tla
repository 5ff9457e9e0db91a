--------------------------- MODULE KeptConnection ---------------------------
(***************************************************************************)
(* What the iOS app and the Mac app both promise of their connection to    *)
(* the backend: "any drop in that state is unintentional and gets retried" *)
(* (AppState.swift; pairingStore.ts has the same words).                   *)
(*                                                                         *)
(* While the connection is wanted it is up, or an attempt is under way, or *)
(* the next attempt has been scheduled; it is never left for dead.         *)
(***************************************************************************)
VARIABLE phase

Phase == {"off", "waiting", "trying", "up"}

Init == phase = "off"

Ask   == phase = "off" /\ phase' \in {"trying", "waiting"}
Stop  == phase # "off" /\ phase' = "off"

\* The next attempt begins, or one that replaces a connection that is up.
Again == phase \in {"waiting", "up"} /\ phase' = "trying"

Opens == phase = "trying" /\ phase' = "up"

\* An attempt fails, or the connection drops: the next attempt is scheduled.
Misses == phase \in {"trying", "up"} /\ phase' = "waiting"

Next == Ask \/ Stop \/ Again \/ Opens \/ Misses

(***************************************************************************)
(* What was scheduled is tried, and what is tried comes to an end.         *)
(***************************************************************************)
Fairness ==
    /\ WF_phase(phase = "waiting" /\ Next)
    /\ WF_phase(phase = "trying" /\ Next)

Spec == Init /\ [][Next]_phase /\ Fairness

=============================================================================
