---------------------------- MODULE PhoneSignIn ----------------------------
(***************************************************************************)
(* The phone's sign-in: authStore.ts.  Each function gives up the          *)
(* JavaScript thread at every await, of the server or of the Keychain, and *)
(* reads the store again only where the code does.                         *)
(***************************************************************************)
EXTENDS SignInLink

Untouched == UNCHANGED <<issued, row>>

\* bootstrap, called once as the app starts.
PhoneLaunch(c) ==
    /\ status = "off" /\ Slot(c) /\ Room
    /\ status' = "loading"
    /\ Goes(c, [fn |-> "boot", at |-> "read", token |-> None, ans |-> "none"])
    /\ UNCHANGED <<vars, memory, access, stored, named, inFlight, spoiled, bounds>>

\* getItem, outside the try: an error leaves bootstrap and the app loading.
BootRead(c) ==
    /\ call[c].at = "read"
    /\ \/ /\ stored = None
          /\ status' = "signedOut" /\ Goes(c, Quiet)
          /\ UNCHANGED <<task, spoiled, faults>>
       \/ /\ stored # None
          /\ RecvRefresh(c, stored) /\ Goes(c, Asked("boot", "ask", stored))
          /\ UNCHANGED <<status, spoiled, faults>>
       \/ /\ Fault /\ Spoil("keychain") /\ Goes(c, Quiet)
          /\ UNCHANGED <<task, status>>
    /\ Untouched /\ UNCHANGED <<memory, access, stored, named, inFlight, user>>

\* The sign-in form is shown to whoever is signed out.  isBusy disables its
\* button while a sign-in is under way; the return key submits all the same.
LoginShown     == status = "signedOut"
SubmittedAgain == Running({"login"})

\* signIn, register
PhoneLogin(c) ==
    /\ LoginShown /\ Slot(c) /\ Room
    /\ user < MaxUser /\ user' = user + 1
    /\ Goes(c, Asked("login", "ask", None))
    /\ IF SubmittedAgain THEN Fault /\ Spoil("twice") ELSE UNCHANGED <<spoiled, faults>>
    /\ UNCHANGED <<vars, keep, inFlight>>

\* signOut, by the user: the token it revokes is the one in memory now.
PhoneSignOut(c) ==
    /\ status = "signedIn" /\ Slot(c)
    /\ user < MaxUser /\ user' = user + 1
    /\ RecvLogout(c, memory) /\ Goes(c, Asked("out", "logout", memory))
    /\ IF Running({"refresh", "out"}) THEN Spoil("overlap") ELSE UNCHANGED spoiled
    /\ UNCHANGED <<keep, inFlight, faults>>

\* Mutant: callers do not share the refresh that is in flight.
RefreshAnyway == access # "young"

\* getFreshAccessToken when it must ask: callers that come later share it.
MustRefresh == access # "young" /\ ~inFlight

PhoneRefresh(c) ==
    /\ status = "signedIn" /\ MustRefresh /\ Slot(c) /\ Room
    /\ inFlight' = TRUE
    /\ RecvRefresh(c, memory) /\ Goes(c, Asked("refresh", "ask", memory))
    /\ IF Running({"out"}) THEN Spoil("overlap") ELSE UNCHANGED spoiled
    /\ UNCHANGED <<keep, bounds>>

-----------------------------------------------------------------------------
(***************************************************************************)
(* What follows an answer.                                                 *)
(***************************************************************************)
InFlightAfter(c) == inFlight /\ call[c].fn # "refresh"

\* A rejected refresh signs out; any other failure waits for the next caller.
SignOutNested(c) ==
    /\ RecvLogout(c, memory) /\ Goes(c, Asked("refresh", "logout", memory))
    /\ IF Running({"out"}) THEN Spoil("overlap") ELSE UNCHANGED spoiled
    /\ UNCHANGED inFlight

Answered(c) ==
    /\ call[c].at \in {"ask", "logout"} /\ call[c].ans \notin {"none", "waiting"}
    /\ LET fn == call[c].fn  ans == call[c].ans IN
       \/ /\ ans = "token" /\ Goes(c, At(c, "store"))
          /\ UNCHANGED <<task, inFlight, spoiled>>
       \/ /\ (fn = "boot" /\ ans # "token") \/ call[c].at = "logout"
          /\ Goes(c, At(c, "delete"))
          /\ UNCHANGED <<task, inFlight, spoiled>>
       \/ /\ call[c].at = "ask" /\ fn = "refresh" /\ ans = "rejected" /\ memory # None
          /\ task[c] = Idle /\ SignOutNested(c)
       \/ /\ call[c].at = "ask" /\ fn = "refresh" /\ ans = "rejected" /\ memory = None
          /\ Goes(c, At(c, "delete"))
          /\ UNCHANGED <<task, inFlight, spoiled>>
       \/ /\ fn \in {"login", "refresh"} /\ ans = "failed" /\ call[c].at = "ask"
          /\ Goes(c, Quiet) /\ inFlight' = InFlightAfter(c)
          /\ UNCHANGED <<task, spoiled>>
    /\ Untouched /\ UNCHANGED <<keep, bounds>>

\* setItem, and of a sign-in's e-mail address after it; an error is caught as a failed
\* request would be, and that of the address leaves the token stored.
Store(c) ==
    /\ call[c].at = "store"
    /\ \/ /\ stored' = call[c].token /\ Goes(c, At(c, "set"))
          /\ UNCHANGED <<inFlight, spoiled, faults>>
       \/ /\ Fault /\ Spoil("keychain")
          /\ Goes(c, IF call[c].fn = "boot" THEN At(c, "delete") ELSE Quiet)
          /\ inFlight' = InFlightAfter(c)
          /\ \/ UNCHANGED stored
             \/ call[c].fn = "login" /\ stored' = call[c].token
    /\ UNCHANGED <<vars, status, memory, access, named, user>>

Set(c) ==
    /\ call[c].at = "set"
    /\ memory' = call[c].token /\ access' = "young"
    /\ status' = IF call[c].fn = "refresh" THEN status ELSE "signedIn"
    /\ Goes(c, Quiet) /\ inFlight' = InFlightAfter(c)
    /\ UNCHANGED <<vars, stored, named, spoiled, bounds>>

\* deleteItem; an error leaves signOut, or bootstrap, before it sets the state.
Delete(c) ==
    /\ call[c].at = "delete"
    /\ \/ /\ stored' = None /\ Goes(c, At(c, "clear"))
          /\ UNCHANGED <<inFlight, spoiled, faults>>
       \/ /\ Fault /\ Spoil("keychain")
          /\ Goes(c, Quiet) /\ inFlight' = InFlightAfter(c)
          /\ UNCHANGED stored
    /\ UNCHANGED <<vars, status, memory, access, named, user>>

\* Mutant: a failed bootstrap clears the tokens only.
ClearTokens(c) ==
    /\ call[c].at = "clear"
    /\ memory' = None /\ access' = "none"
    /\ Goes(c, Quiet) /\ inFlight' = InFlightAfter(c)
    /\ UNCHANGED <<vars, status, stored, named, spoiled, bounds>>

Clear(c) ==
    /\ call[c].at = "clear"
    /\ status' = "signedOut" /\ memory' = None /\ access' = "none"
    /\ Goes(c, Quiet) /\ inFlight' = InFlightAfter(c)
    /\ UNCHANGED <<vars, stored, named, spoiled, bounds>>

PhoneCall(c) == BootRead(c) \/ Answered(c) \/ Store(c) \/ Set(c) \/ Delete(c) \/ Clear(c)
PhoneNext == \E c \in Task : PhoneLaunch(c) \/ PhoneLogin(c) \/ PhoneSignOut(c) \/ PhoneRefresh(c) \/ PhoneCall(c)
=============================================================================
