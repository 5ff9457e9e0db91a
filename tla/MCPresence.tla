---------------------------- MODULE MCPresence ----------------------------
(***************************************************************************)
(* Small instances of Presence: a Mac and its iPhone, with one or two      *)
(* sockets each, so that a device may be replaced, close and come back.    *)
(***************************************************************************)
EXTENDS Presence, TLC

CONSTANTS mac, phone, m1, m2, i1, i2

Paired == mac :> {phone} @@ phone :> {mac}

TwoEach      == m1 :> mac @@ m2 :> mac @@ i1 :> phone @@ i2 :> phone
Reconnecting == m1 :> mac @@ i1 :> phone @@ i2 :> phone
=============================================================================
