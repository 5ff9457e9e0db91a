----------------------------- MODULE PairLedger -----------------------------
(***************************************************************************)
(* What the pairing tables promise, without sockets, handlers or steps:    *)
(* which changes of a code row and of a pair row are ever allowed.  Module *)
(* Pairing is shown to implement it with the two tables mapped to          *)
(* themselves.                                                             *)
(*                                                                         *)
(*   code:  none -> fresh -> used | expired, and anything -> gone          *)
(*   pair:  none -> pending -> approved | rejected, and anything -> gone   *)
(*                                                                         *)
(* A pair is only opened on a used code that backs no other pair, between  *)
(* the Mac that minted the code and another device of the same account,    *)
(* and never beside an active pair of the same two devices.                *)
(***************************************************************************)
CONSTANTS User, Device, Mac, Owner, CodeId, Hash, PairId, None

VARIABLES codes, pairs

Init ==
    /\ codes = [c \in CodeId |-> [status |-> "none", mac |-> None,
                                  user |-> None, hash |-> None]]
    /\ pairs = [p \in PairId |-> [status |-> "none", mac |-> None,
                                  remote |-> None, code |-> None]]

\* A code is minted for a Mac, in the name of its owner.
Mint(c, m, h) ==
    /\ codes[c].status = "none"
    /\ codes' = [codes EXCEPT ![c] = [status |-> "fresh", mac |-> m,
                                      user |-> Owner[m], hash |-> h]]
    /\ UNCHANGED pairs

\* Fresh codes C leave that status for good.
Spend(C, status) ==
    /\ \A c \in C : codes[c].status = "fresh"
    /\ codes' = [c \in CodeId |-> IF c \in C THEN [codes[c] EXCEPT !.status = status]
                                  ELSE codes[c]]
    /\ UNCHANGED pairs

\* Remote device r asks to be paired, on the strength of code c.
Request(p, c, r) ==
    /\ pairs[p].status = "none"
    /\ codes[c].status = "used"
    /\ r # codes[c].mac
    /\ Owner[r] = codes[c].user
    /\ \A q \in PairId : /\ pairs[q].status = "none" \/ pairs[q].code # c
                         /\ ~ /\ pairs[q].status \in {"pending", "approved"}
                              /\ pairs[q].mac = codes[c].mac
                              /\ pairs[q].remote = r
    /\ pairs' = [pairs EXCEPT ![p] = [status |-> "pending", mac |-> codes[c].mac,
                                      remote |-> r, code |-> c]]
    /\ UNCHANGED codes

\* The Mac decides, once.
Resolve(p, verdict) ==
    /\ pairs[p].status = "pending"
    /\ pairs' = [pairs EXCEPT ![p].status = verdict]
    /\ UNCHANGED codes

\* Device d is removed, and everything that refers to it.
Forget(d) ==
    /\ codes' = [c \in CodeId |-> IF codes[c].mac = d
                                  THEN [codes[c] EXCEPT !.status = "gone"]
                                  ELSE codes[c]]
    /\ pairs' = [p \in PairId |->
                    IF /\ pairs[p].status \notin {"none", "gone"}
                       /\ d \in {pairs[p].mac, pairs[p].remote}
                    THEN [pairs[p] EXCEPT !.status = "gone"]
                    ELSE pairs[p]]

Next ==
    \/ \E c \in CodeId, m \in Mac, h \in Hash : Mint(c, m, h)
    \/ \E C \in SUBSET CodeId, status \in {"used", "expired"} : Spend(C, status)
    \/ \E p \in PairId, c \in CodeId, r \in Device : Request(p, c, r)
    \/ \E p \in PairId, verdict \in {"approved", "rejected"} : Resolve(p, verdict)
    \/ \E d \in Device : Forget(d)

Spec == Init /\ [][Next]_<<codes, pairs>>

=============================================================================
