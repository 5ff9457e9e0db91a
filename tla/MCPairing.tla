----------------------------- MODULE MCPairing -----------------------------
(***************************************************************************)
(* Small instances of Pairing.  One account with a Mac and an iPhone is    *)
(* enough for every race between handlers; a second account with a Mac of  *)
(* its own is there where the account matters.                             *)
(***************************************************************************)
EXTENDS Pairing, TLC, FiniteSets, Naturals

CONSTANTS u1, u2, mac1, mac2, phone1

OneOwner == mac1 :> u1 @@ phone1 :> u1
TwoOwners == mac1 :> u1 @@ mac2 :> u2 @@ phone1 :> u1

\* Rows, sockets and handlers are interchangeable.
Symmetry == Permutations(CodeId) \cup Permutations(PairId) \cup Permutations(Socket)
            \cup Permutations(ReqTask) \cup Permutations(ResTask)

\* Bound: handlers, of whatever kind, that are suspended at once.
Suspended == Cardinality({t \in ReqTask : req[t] # NoReq})
             + Cardinality({t \in ResTask : res[t] # NoRes})
             + Cardinality({s \in Socket : flush[s] # NoFlush})
AtMostTwo == Suspended <= 2
=============================================================================
