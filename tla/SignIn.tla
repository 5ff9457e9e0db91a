------------------------------- MODULE SignIn ------------------------------
(***************************************************************************)
(* A client signed in to the backend, over sign-ins and sign-outs, token   *)
(* rotations, lost answers, quits and Keychain errors.  side chooses the   *)
(* client: they share no token, so one behaviour has one of them.          *)
(***************************************************************************)
EXTENDS PhoneSignIn, MacSignIn

VARIABLE side
all == <<vars2, side>>

SignInInit == LinkInit /\ side \in {"phone", "mac"}

SignInNext ==
    \/ Around /\ UNCHANGED side
    \/ side = "phone" /\ PhoneNext /\ UNCHANGED side
    \/ side = "mac" /\ MacNext /\ UNCHANGED side

(***************************************************************************)
(* The network and the server answer in the end, and what the client has   *)
(* begun it goes on with.  Nobody has to press anything.                   *)
(***************************************************************************)
Serves   == UNCHANGED side /\ \E c \in Task : Serve(c)
Continues == UNCHANGED side /\ \E c \in Task : IF side = "phone" THEN PhoneCall(c) ELSE MacAnswered(c)

SignInSpec == SignInInit /\ [][SignInNext]_all /\ WF_all(Serves) /\ WF_all(Continues)

-----------------------------------------------------------------------------
LinkTypeOK ==
    /\ TypeOK
    /\ status \in {"off", "loading", "signedOut", "signedIn", "onboarding", "naming", "ready"}
    /\ {memory, stored} \subseteq issued \cup {None}
    /\ access \in {"none", "young", "old"} /\ {named, inFlight} \subseteq BOOLEAN
    /\ call \in [Task -> CallRec]
    /\ spoiled \subseteq Spoils /\ faults \in 0..MaxFaults /\ user \in 0..MaxUser

AtRest == ~Running({"boot", "login", "refresh", "out"}) /\ \A t \in Task : task[t] = Idle
Good(k) == k # None /\ row[k].status \in {"active", "expired"}

(***************************************************************************)
(* A token is exchanged once: the clients share one refresh between all    *)
(* its callers, so the server's lack of a transaction does no harm, unless *)
(* a client gave a refresh up that was going on (authStore.ts:31-33,       *)
(* AppState.swift:156).                                                    *)
(***************************************************************************)
ExchangedOnce ==
    spoiled \cap {"answer", "cut"} = {} =>
        \A j, k \in Token : row[j].parent = row[k].parent /\ row[k].parent # None => j = k

(***************************************************************************)
(* What is stored is what is used: at rest, a running client's two tokens  *)
(* are one, and it is good for the next refresh and for the next launch.   *)
(***************************************************************************)
StoredIsGood ==
    spoiled \subseteq {"offline", "over"} /\ AtRest =>
        /\ memory # None => memory = stored
        /\ stored # None => Good(stored)

(***************************************************************************)
(* Signing out leaves nothing behind: at rest, the only live token of the  *)
(* client's logins is the one it has stored.                               *)
(***************************************************************************)
NoneLeftBehind ==
    spoiled = {} /\ AtRest =>
        \A k \in Token : row[k].status = "active" => k = stored

(***************************************************************************)
(* Every launch ends in a screen, unless the Keychain refused to be read   *)
(* or cleared (authStore.ts:50, 69: an error there leaves the app loading).*)
(***************************************************************************)
LaunchSettles == status = "loading" ~> (status # "loading" \/ "keychain" \in spoiled)
=============================================================================
