----------------------------- MODULE MacSignIn -----------------------------
(***************************************************************************)
(* The Mac's sign-in: AppState.swift.  The main actor is given up only     *)
(* while the server answers: the Keychain is synchronous, and its errors   *)
(* while writing are ignored (try?).                                       *)
(***************************************************************************)
EXTENDS SignInLink

\* Mutant: the Keychain keeps the token that was exchanged.
StoreInMemory(k) ==
    /\ memory' = k /\ access' = "young"
    /\ UNCHANGED <<stored, spoiled, faults>>

\* storeTokens
StoreTokens(k) ==
    /\ memory' = k /\ access' = "young"
    /\ \/ stored' = k /\ UNCHANGED <<spoiled, faults>>
       \/ Fault /\ Spoil("keychain") /\ UNCHANGED stored

\* bootstrap, which only the first menu to open runs.  A Keychain that cannot be
\* read is an entry that is not there.
MacLaunch(c) ==
    /\ status = "off" /\ Slot(c) /\ Room
    /\ \/ /\ stored # None /\ named
          /\ RecvRefresh(c, stored) /\ Goes(c, Asked("boot", "ask", stored))
          /\ status' = "loading" /\ UNCHANGED <<spoiled, faults>>
       \/ /\ IF stored # None /\ named THEN Fault /\ Spoil("keychain") ELSE UNCHANGED <<spoiled, faults>>
          /\ status' = "onboarding" /\ UNCHANGED <<vars, call>>
    /\ UNCHANGED <<memory, access, stored, named, inFlight, user>>

\* Onboarding starts at the sign-in form even when a token is stored already:
\* the launch was offline, or the Mac was never named or could not register.
MacLogin(c) ==
    /\ status = "onboarding" /\ ~Running({"login"}) /\ Slot(c) /\ Room
    /\ user < MaxUser /\ user' = user + 1
    /\ Goes(c, Asked("login", "ask", None))
    /\ IF stored # None THEN Spoil("over") ELSE UNCHANGED spoiled
    /\ UNCHANGED <<vars, keep, inFlight, faults>>

\* registerMacDevice, at the end of onboarding.
NameMac ==
    /\ status = "naming" /\ memory # None
    /\ status' = "ready" /\ named' = TRUE
    /\ UNCHANGED <<vars, memory, access, stored, inFlight, call, spoiled, bounds>>

\* signOut: all at once, and the token is revoked by a Task of its own.
MacSignOut(c) ==
    /\ status = "ready" /\ Slot(c)
    /\ user < MaxUser /\ user' = user + 1
    /\ RecvLogout(c, memory) /\ Goes(c, Asked("out", "logout", memory))
    /\ IF Running({"refresh", "login"}) THEN Spoil("overlap") ELSE UNCHANGED spoiled
    /\ stored' = None /\ named' = FALSE /\ memory' = None /\ access' = "none"
    /\ status' = "onboarding"
    /\ UNCHANGED <<inFlight, faults>>

\* freshAccessToken when it must ask.
MacMustRefresh == access # "young" /\ ~inFlight

MacRefresh(c) ==
    /\ status \in {"onboarding", "naming", "ready"} /\ memory # None /\ MacMustRefresh
    /\ Slot(c) /\ Room
    /\ inFlight' = TRUE
    /\ RecvRefresh(c, memory) /\ Goes(c, Asked("refresh", "ask", memory))
    /\ UNCHANGED <<keep, spoiled, bounds>>

(***************************************************************************)
(* What follows an answer.  After the bootstrap's refresh the Mac looks    *)
(* its device up, and registers it again if it is not there.               *)
(***************************************************************************)
MacAnswered(c) ==
    /\ call[c].ans \notin {"none", "waiting"}
    /\ Goes(c, Quiet)
    /\ inFlight' = (inFlight /\ call[c].fn # "refresh")
    /\ IF call[c].ans = "token" THEN StoreTokens(call[c].token)
       ELSE UNCHANGED <<memory, access, stored, spoiled, faults>>
    /\ status' \in CASE call[c].fn = "boot"  -> IF call[c].ans = "token"
                                               THEN {"ready", "onboarding"} ELSE {"onboarding"}
                     [] call[c].fn = "login" -> IF call[c].ans = "token"
                                               THEN {"naming"} ELSE {status}
                     [] OTHER -> {status}
    /\ UNCHANGED <<vars, named, user>>

MacNext == NameMac \/ \E c \in Task : \/ MacLaunch(c) \/ MacLogin(c) \/ MacSignOut(c)
                                      \/ MacRefresh(c) \/ MacAnswered(c)
=============================================================================
