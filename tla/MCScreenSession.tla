-------------------------- MODULE MCScreenSession --------------------------
(***************************************************************************)
(* Instances of ScreenSession for TLC.                                     *)
(***************************************************************************)
EXTENDS ScreenSession

\* Bound: nothing follows once Screen Mode is closed and no attempt is left to
\* open it again.  The Mac does not see that it is closed, and goes on as well
\* where it stays open.
LastIsShown == attempt[MaxAttempt].at # "none" => screenOpen
=============================================================================
