--------------------------- MODULE MCScreenInput ---------------------------
(* Screen Mode with one modifier and 250, 300 and 400 ms as 1, 2 and 3. *)
EXTENDS ScreenInput

CONSTANTS shift
Toolbar == {shift}
=============================================================================
