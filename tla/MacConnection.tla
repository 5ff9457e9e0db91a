--------------------------- MODULE MacConnection ---------------------------
(***************************************************************************)
(* The Mac app's connection to the backend:                                *)
(*   Networking/Signaling/SignalingClient.swift  a socket, its pings and   *)
(*     the many callbacks that may tell that it is lost,                   *)
(*   App/AppState.swift  connecting, reconnecting, disconnecting, signing  *)
(*     out, and the shared refresh of the access token.                    *)
(* All of it runs on the main thread, one callback or stretch of a Task    *)
(* between two awaits at a time.                                           *)
(*                                                                         *)
(* What disconnecting does to the WebRTC session is in MacSession.         *)
(***************************************************************************)
EXTENDS Naturals

CONSTANTS
    MacClient,     \* SignalingClients that may be around at once
    Try,           \* calls of refreshThenConnectSignaling that may overlap
    MaxDeadlines,  \* bound: ping time-outs that run at once in one client
    MaxMacUser,    \* bound: steps of the user, and connectivity changes
    MaxMacFault,   \* bound: times the network or a request fails
    Nobody

ASSUME MacBounds == {MaxDeadlines, MaxMacUser, MaxMacFault} \subseteq Nat
ASSUME NobodyAssumption == Nobody \notin MacClient

VARIABLES
    accessToken,          \* "none", "fresh" or "old"
    hasDevice,            \* macDeviceId is set
    refreshTask,          \* a refresh is in flight
    registering,          \* registerMacDevice awaits the backend
    shouldStayConnected,
    reconnectTask,        \* a retry is asleep
    try,                  \* try[a]: a call of refreshThenConnectSignaling
    macStatus,            \* connectionStatus
    signaling,            \* AppState's client
    macClient,            \* macClient[c]: a SignalingClient
    macSteps, macFaults,  \* counters of the bounds
    macAsked              \* history: see SignedOutStaysOff

account  == <<accessToken, hasDevice, refreshTask, registering>>
retry    == <<shouldStayConnected, reconnectTask, try>>
macConn  == <<macStatus, signaling, macClient>>
macCount == <<macSteps, macFaults>>
mac      == <<account, retry, macConn, macCount, macAsked>>

(***************************************************************************)
(* heard: onStatusChange is set.  late: a client that is closed has a      *)
(* callback yet to come, from its socket or its pings, that would call     *)
(* markClosed.                                                             *)
(***************************************************************************)
MacClientRec == [socket : {"none", "connecting", "open", "mute"}, closed : BOOLEAN, heard : BOOLEAN,
                 awaitingPong : BOOLEAN, deadlines : 0..MaxDeadlines, late : BOOLEAN]
NoClient == [socket |-> "none", closed |-> TRUE, heard |-> FALSE,
             awaitingPong |-> FALSE, deadlines |-> 0, late |-> FALSE]
NewClient == [NoClient EXCEPT !.socket = "connecting", !.closed = FALSE, !.heard = TRUE]

MacInit ==
    /\ accessToken = "none" /\ hasDevice = FALSE /\ refreshTask = FALSE /\ registering = FALSE
    /\ shouldStayConnected = FALSE /\ reconnectTask = FALSE
    /\ try = [a \in Try |-> "idle"]
    /\ macStatus = "disconnected" /\ signaling = Nobody
    /\ macClient = [c \in MacClient |-> NoClient]
    /\ macSteps = 0 /\ macFaults = 0 /\ macAsked = FALSE

MacUser  == macSteps < MaxMacUser /\ macSteps' = macSteps + 1 /\ UNCHANGED macFaults
MacFault == macFaults < MaxMacFault /\ macFaults' = macFaults + 1 /\ UNCHANGED macSteps

-----------------------------------------------------------------------------
(***************************************************************************)
(* SignalingClient.                                                        *)
(***************************************************************************)

\* disconnect(), and what markClosed does to the socket.
CloseClient(rec) ==
    IF rec.closed THEN rec
    ELSE [rec EXCEPT !.socket = "none", !.closed = TRUE, !.awaitingPong = FALSE,
                     !.deadlines = 0, !.late = TRUE]

\* Mutant: no retry follows.
NoRetry(asleep) == asleep

\* scheduleReconnect, given whether a retry is asleep.
ScheduleReconnect(asleep) == asleep \/ shouldStayConnected

\* guard !closed
Reportable(rec) == ~rec.closed

\* markClosed, as a callback of client rec, which is macClient[c] updated.
MarkClosed(c, rec) ==
    /\ macClient' = [macClient EXCEPT ![c] = CloseClient(rec)]
    /\ IF Reportable(rec) /\ rec.heard
       THEN /\ macStatus' = "disconnected"
            /\ reconnectTask' = ScheduleReconnect(reconnectTask)
       ELSE UNCHANGED <<macStatus, reconnectTask>>
    /\ UNCHANGED <<account, shouldStayConnected, try, signaling, macAsked>>

\* didOpenWithProtocol
MacOpens(c) ==
    /\ macClient[c].socket = "connecting"
    /\ macClient' = [macClient EXCEPT ![c].socket = "open"]
    /\ macStatus' = IF macClient[c].heard THEN "connected" ELSE macStatus
    /\ UNCHANGED <<account, retry, signaling, macCount, macAsked>>

\* The first of receive's failure, didCloseWith and didCompleteWithError.
MacCloses(c) ==
    /\ macClient[c].socket # "none"
    /\ MacFault
    /\ MarkClosed(c, macClient[c])

\* One of the others, or a ping's, after the client was closed.
LateCallback(c) ==
    /\ macClient[c].late
    /\ MarkClosed(c, [macClient[c] EXCEPT !.late = FALSE])
    /\ UNCHANGED macCount

MacMutes(c) ==
    /\ macClient[c].socket = "open"
    /\ MacFault
    /\ macClient' = [macClient EXCEPT ![c].socket = "mute"]
    /\ UNCHANGED <<account, retry, macStatus, signaling, macAsked>>

\* Mutant: a ping is sent though one is awaited.
ProbedAgain(rec) == IF rec.closed THEN rec ELSE [rec EXCEPT !.awaitingPong = TRUE, !.deadlines = @ + 1]

\* probe(): a ping unless one is awaited, and its time-out.
Probed(rec) ==
    IF rec.closed \/ rec.awaitingPong \/ rec.deadlines = MaxDeadlines THEN rec
    ELSE [rec EXCEPT !.awaitingPong = TRUE, !.deadlines = @ + 1]

Heartbeat(c) ==
    /\ macClient[c].socket \in {"open", "mute"}
    /\ macClient' = [macClient EXCEPT ![c] = Probed(@)]
    /\ UNCHANGED <<account, retry, macStatus, signaling, macCount, macAsked>>

Pong(c) ==
    /\ macClient[c].awaitingPong
    /\ macClient[c].socket = "open"
    /\ macClient' = [macClient EXCEPT ![c].awaitingPong = FALSE]
    /\ UNCHANGED <<account, retry, macStatus, signaling, macCount, macAsked>>

\* A time-out is up; it does not ask whose pong is awaited.
DeadlineUp(c) ==
    LET rec == [macClient[c] EXCEPT !.deadlines = @ - 1] IN
    /\ macClient[c].deadlines > 0
    /\ IF rec.awaitingPong
       THEN /\ IF rec.socket = "open" THEN MacFault ELSE UNCHANGED macCount
            /\ MarkClosed(c, rec)
       ELSE /\ macClient' = [macClient EXCEPT ![c] = rec]
            /\ UNCHANGED <<account, retry, macStatus, signaling, macCount, macAsked>>

-----------------------------------------------------------------------------
(***************************************************************************)
(* AppState: connecting.                                                   *)
(***************************************************************************)

\* connectSignaling: the client there is is silenced and closed.
ConnectSignaling(device) ==
    IF accessToken = "none" \/ ~device
    THEN UNCHANGED <<shouldStayConnected, reconnectTask, macConn>>
    ELSE /\ shouldStayConnected' = TRUE
         /\ reconnectTask' = FALSE
         /\ macStatus' = "connecting"
         /\ \E c \in MacClient \ {signaling} :
               /\ macClient[c].socket = "none" /\ ~macClient[c].late
               /\ signaling' = c
               /\ macClient' = [d \in MacClient |->
                     CASE d = c         -> NewClient
                       [] d = signaling -> [CloseClient(macClient[d]) EXCEPT !.heard = FALSE]
                       [] OTHER         -> macClient[d]]

\* signaling?.disconnect(); signaling = nil
DropClient ==
    /\ shouldStayConnected' = FALSE
    /\ reconnectTask' = FALSE
    /\ macStatus' = "disconnected"
    /\ signaling' = Nobody
    /\ macClient' = [d \in MacClient |-> IF d = signaling THEN CloseClient(macClient[d]) ELSE macClient[d]]

\* Mutant: nobody looks whether the connection is still to be kept.
StayAnyway == TRUE

\* guard shouldStayConnected, after the await
StillStay == shouldStayConnected

\* The rest of refreshThenConnectSignaling, given whether there is a token and
\* whether a retry is asleep.
TryGoesOn(a, token, asleep) ==
    /\ try' = [try EXCEPT ![a] = "idle"]
    /\ IF token /\ StillStay
       THEN ConnectSignaling(hasDevice)
       ELSE /\ macStatus' = IF token THEN macStatus ELSE "disconnected"
            /\ reconnectTask' = IF token THEN asleep ELSE ScheduleReconnect(asleep)
            /\ UNCHANGED <<shouldStayConnected, signaling, macClient>>

\* refreshThenConnectSignaling: freshAccessToken returns a fresh token or
\* none at once, joins the refresh in flight, or begins one.
BeginTry(a, asleep) ==
    IF ~shouldStayConnected \/ ~hasDevice
    THEN /\ try' = [try EXCEPT ![a] = "idle"]
         /\ reconnectTask' = asleep
         /\ UNCHANGED <<shouldStayConnected, macConn, refreshTask>>
    ELSE IF accessToken = "old"
    THEN /\ try' = [try EXCEPT ![a] = "await"]
         /\ refreshTask' = TRUE
         /\ macStatus' = "connecting"
         /\ reconnectTask' = asleep
         /\ UNCHANGED <<shouldStayConnected, signaling, macClient>>
    ELSE /\ TryGoesOn(a, accessToken = "fresh", asleep)
         /\ UNCHANGED refreshTask

\* reconnectNow's Task runs.
TryStarts(a) ==
    /\ try[a] = "start"
    /\ BeginTry(a, reconnectTask)
    /\ UNCHANGED <<accessToken, hasDevice, registering, macCount, macAsked>>

\* The retry's sleep ends, and it was not cancelled.
RetryFires(a) ==
    /\ reconnectTask /\ try[a] = "idle"
    /\ BeginTry(a, FALSE)
    /\ UNCHANGED <<accessToken, hasDevice, registering, macCount, macAsked>>

\* The refresh ends, with a token, which is stored, or without.
RefreshEnds(ok) ==
    /\ refreshTask
    /\ refreshTask' = FALSE
    /\ accessToken' = IF ok THEN "fresh" ELSE accessToken
    /\ try' = [a \in Try |-> IF try[a] = "await" THEN (IF ok THEN "ok" ELSE "failed") ELSE try[a]]
    /\ IF ok THEN UNCHANGED macCount ELSE MacFault
    /\ UNCHANGED <<hasDevice, registering, shouldStayConnected, reconnectTask, macConn, macAsked>>

TryResumes(a) ==
    /\ try[a] \in {"ok", "failed"}
    /\ TryGoesOn(a, try[a] = "ok", reconnectTask)
    /\ UNCHANGED <<account, macCount, macAsked>>

\* reconnectNow
Now(a) ==
    /\ try[a] = "idle"
    /\ try' = [try EXCEPT ![a] = "start"]
    /\ reconnectTask' = FALSE

-----------------------------------------------------------------------------
(***************************************************************************)
(* The user and the system.                                                *)
(***************************************************************************)

\* The Mac wakes, or the network is back: probe() or reconnectNow.
ConnectivityChanged(a) ==
    /\ MacUser
    /\ shouldStayConnected
    /\ IF macStatus = "connected"
       THEN /\ macClient' = [macClient EXCEPT ![signaling] = Probed(@)]
            /\ UNCHANGED <<try, reconnectTask>>
       ELSE Now(a) /\ UNCHANGED macClient
    /\ UNCHANGED <<account, shouldStayConnected, macStatus, signaling, macAsked>>

\* The menu's buttons: Reconnect while disconnected, else Disconnect.
MacReconnect(a) ==
    /\ MacUser
    /\ hasDevice /\ macStatus = "disconnected"
    /\ shouldStayConnected' = TRUE
    /\ Now(a)
    /\ macAsked' = TRUE
    /\ UNCHANGED <<account, macConn>>

MacDisconnect ==
    /\ MacUser
    /\ hasDevice /\ macStatus # "disconnected"
    /\ DropClient
    /\ macAsked' = FALSE
    /\ UNCHANGED <<account, try>>

\* Signing in stores a token, and the Mac registers itself.
MacSignIn ==
    /\ MacUser
    /\ ~hasDevice /\ ~registering
    /\ accessToken' = "fresh"
    /\ registering' = TRUE
    /\ macAsked' = TRUE
    /\ UNCHANGED <<hasDevice, refreshTask, retry, macConn>>

Registered ==
    /\ registering
    /\ registering' = FALSE
    /\ hasDevice' = TRUE
    /\ ConnectSignaling(TRUE)
    /\ UNCHANGED <<accessToken, refreshTask, try, macCount, macAsked>>

RegisterFails ==
    /\ MacFault
    /\ registering
    /\ registering' = FALSE
    /\ UNCHANGED <<accessToken, hasDevice, refreshTask, retry, macConn, macAsked>>

MacSignOut ==
    /\ MacUser
    /\ accessToken # "none" \/ hasDevice
    /\ DropClient
    /\ accessToken' = "none"
    /\ hasDevice' = FALSE
    /\ macAsked' = (registering /\ refreshTask)
    /\ UNCHANGED <<refreshTask, registering, try>>

\* The access token reaches its maximum age.
MacAges ==
    /\ MacFault
    /\ accessToken = "fresh"
    /\ accessToken' = "old"
    /\ UNCHANGED <<hasDevice, refreshTask, registering, retry, macConn, macAsked>>

(***************************************************************************)
(* Sleeps and time-outs end, and so do connecting and a refresh.           *)
(***************************************************************************)
MacFairness ==
    /\ \A c \in MacClient : /\ WF_mac(MacOpens(c) \/ MacCloses(c))
                            /\ WF_mac(Heartbeat(c))
                            /\ WF_mac(DeadlineUp(c))
                            /\ WF_mac(Pong(c))
                            /\ WF_mac(LateCallback(c))
    /\ \A a \in Try : WF_mac(TryStarts(a)) /\ WF_mac(TryResumes(a))
    /\ WF_mac(\E a \in Try : RetryFires(a))
    /\ WF_mac(\E ok \in BOOLEAN : RefreshEnds(ok))

MacNext ==
    \/ \E c \in MacClient : MacOpens(c)
    \/ \E c \in MacClient : MacCloses(c)
    \/ \E c \in MacClient : LateCallback(c)
    \/ \E c \in MacClient : MacMutes(c)
    \/ \E c \in MacClient : Heartbeat(c)
    \/ \E c \in MacClient : Pong(c)
    \/ \E c \in MacClient : DeadlineUp(c)
    \/ \E a \in Try : TryStarts(a)
    \/ \E a \in Try : RetryFires(a)
    \/ \E ok \in BOOLEAN : RefreshEnds(ok)
    \/ \E a \in Try : TryResumes(a)
    \/ \E a \in Try : ConnectivityChanged(a)
    \/ \E a \in Try : MacReconnect(a)
    \/ MacDisconnect
    \/ MacSignIn
    \/ Registered
    \/ RegisterFails
    \/ MacSignOut
    \/ MacAges

-----------------------------------------------------------------------------
MacTypeOK ==
    /\ accessToken \in {"none", "fresh", "old"}
    /\ {hasDevice, refreshTask, registering, shouldStayConnected, reconnectTask, macAsked} \subseteq BOOLEAN
    /\ try \in [Try -> {"idle", "start", "await", "ok", "failed"}]
    /\ macStatus \in {"disconnected", "connecting", "connected"}
    /\ signaling \in MacClient \cup {Nobody}
    /\ macClient \in [MacClient -> MacClientRec]
    /\ macSteps \in 0..MaxMacUser /\ macFaults \in 0..MaxMacFault

MacIsOpen(c) == macClient[c].socket \in {"open", "mute"}

\* A Mac that was signed out while it registered itself has a device and no
\* token; it is off too, whatever it schedules.
MacPhase ==
    IF ~shouldStayConnected \/ accessToken = "none" THEN "off"
    ELSE IF \E c \in MacClient : MacIsOpen(c) THEN "up"
    ELSE IF \/ \E a \in Try : try[a] # "idle"
            \/ \E c \in MacClient : macClient[c].socket = "connecting" THEN "trying"
    ELSE IF reconnectTask THEN "waiting"
    ELSE "dead"

=============================================================================
