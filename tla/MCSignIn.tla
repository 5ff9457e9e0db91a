------------------------------ MODULE MCSignIn -----------------------------
(* One client of either kind, three tokens, three functions at once. *)
EXTENDS SignIn

Numbers == 1..3
Slots   == 1..3
=============================================================================
