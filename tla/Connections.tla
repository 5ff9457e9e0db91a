---------------------------- MODULE Connections ----------------------------
(***************************************************************************)
(* The two apps' connections to the backend, PhoneConnection and           *)
(* MacConnection.  They have no state in common: a behaviour is one of the *)
(* iPhone's or one of the Mac's, and the other stays as it began.          *)
(***************************************************************************)
EXTENDS PhoneConnection, MacConnection

VARIABLE side

vars == <<phone, mac, side>>

Init == PhoneInit /\ MacInit /\ side \in {"phone", "mac"}

Next ==
    \/ side = "phone" /\ PhoneNext /\ UNCHANGED <<mac, side>>
    \/ side = "mac" /\ MacNext /\ UNCHANGED <<phone, side>>

Spec == Init /\ [][Next]_vars /\ (side = "phone" => PhoneFairness) /\ (side = "mac" => MacFairness)

-----------------------------------------------------------------------------
(***************************************************************************)
(* Properties.                                                             *)
(***************************************************************************)

\* Every variable, of either app, has its type.
TypeOK == PhoneTypeOK /\ MacTypeOK

PhoneKeeps == INSTANCE KeptConnection WITH phase <- PhonePhase
MacKeeps   == INSTANCE KeptConnection WITH phase <- MacPhase

\* The iOS app implements KeptConnection: while the connection is wanted it is
\* never left for dead, whatever fails and in whatever order sockets, timers,
\* the shared refresh and the user go on ("any drop in between is unintentional
\* and gets retried"), and retries neither stop nor hang.
PhoneKept == PhoneKeeps!Spec

\* The Mac app implements it too.
MacKept == MacKeeps!Spec

\* An app has one live socket at most, however its attempts to connect overlap.
OneSocket ==
    /\ \A c, d \in Client : client[c].socket # "none" /\ client[d].socket # "none" => c = d
    /\ \A c, d \in MacClient : macClient[c].socket # "none" /\ macClient[d].socket # "none" => c = d

\* An app that shows a connection has one, which is what submitPairingCode
\* relies on ("the request was never actually transmitted"); one that has a
\* connection shows it, or is about to replace it.
StatusHonest ==
    /\ connectionStatus = "connected" => IsOpen(current)
    /\ macStatus = "connected" => MacIsOpen(signaling)
    /\ current # None => (IsOpen(current) =>
            connectionStatus = "connected" \/ awaitsToken \/ reconnectTimer)
    /\ signaling # Nobody => (MacIsOpen(signaling) =>
            macStatus = "connected" \/ reconnectTask \/ \E a \in Try : try[a] # "idle")

\* A connection that is not wanted is closed, and once the user has signed out or
\* disconnected, no attempt that was under way connects the app again.  Left out
\* are sign-outs that overtake the effect of DevicesScreen, or a registration of
\* the Mac together with a refresh: these do connect a signed-out app.
SignedOutStaysOff ==
    /\ ~signedIn /\ onPurpose => ~wantConnected
    /\ ~wantConnected => \A c \in Client : client[c].socket = "none"
    /\ shouldStayConnected => macAsked
    /\ ~shouldStayConnected => \A c \in MacClient : macClient[c].socket = "none"

=============================================================================
