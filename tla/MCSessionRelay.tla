--------------------------- MODULE MCSessionRelay ---------------------------
(***************************************************************************)
(* Small instances of SessionRelay: a Mac, the iPhone it is paired with,   *)
(* and a second iPhone paired with the same Mac.                           *)
(***************************************************************************)
EXTENDS SessionRelay, TLC

CONSTANTS mac, phone, other, p1, p2, m1, i1, o1

MacOfBoth    == p1 :> mac @@ p2 :> mac
RemoteOfBoth == p1 :> phone @@ p2 :> other

\* One socket for each device.
ThreeDevices == m1 :> mac @@ i1 :> phone @@ o1 :> other

\* Handlers are interchangeable.
SymmetryTasks == Permutations(Task)
=============================================================================
