----------------------------- MODULE MCDevices -----------------------------
(***************************************************************************)
(* A small instance of Devices: two accounts that take turns.  What the    *)
(* last two constraints leave out are steps of a sign-in that an earlier   *)
(* one has overtaken, where nothing is promised, and a refresh begun in    *)
(* the last sign-in, which has no other to overtake.                       *)
(***************************************************************************)
EXTENDS Devices

CONSTANTS a, b

\* The accounts are interchangeable: the first to sign in is a.
FirstIsA ==
    /\ signIns = 0 => user' # b
    /\ macStarts <= 1 => macAccount' # b

\* The last sign-in begins with nothing of an earlier one about but a refresh, and
\* begins none itself.
LastIsCalm ==
    signIns' = MaxSignIns =>
        IF signIns < MaxSignIns THEN upset' = {} ELSE refresh' \in {refresh, Nothing}

\* No Mac is paired or removed in a sign-in that was overtaken.
PairsInPeace == "overtaken" \in upset => paired' = paired
=============================================================================
