-------------------------- MODULE PhoneConnection --------------------------
(***************************************************************************)
(* The iOS app's connection to the backend:                                *)
(*   services/signaling/signalingClient.ts  a socket, its heartbeat and    *)
(*     its probe,                                                          *)
(*   state/pairingStore.ts  connect, disconnect, and the reconnects,       *)
(*   screens/Devices/DevicesScreen.tsx  the effect that connects once per  *)
(*     sign-in, and screens/Settings/SettingsScreen.tsx  signing out,      *)
(* over what state/authStore.ts gives them: a token, now or after a        *)
(* refresh all callers share.  JavaScript runs one callback at a time; a   *)
(* callback that awaits nothing but settled promises is one action.        *)
(*                                                                         *)
(* What connecting does to the screen session is in PhoneSession.          *)
(***************************************************************************)
EXTENDS Naturals

CONSTANTS
    Client,    \* SignalingClients at one time: the current one and one to come
    Effect,    \* runs of the DevicesScreen effect that may overlap
    MaxUser,   \* bound: times the user signs in or out, or takes up the app
    MaxFault,  \* bound: times the network or a request fails
    None

ASSUME PhoneBounds == {MaxUser, MaxFault} \subseteq Nat
ASSUME NoneAssumption == None \notin Client

VARIABLES
    signedIn,          \* authStore.status = 'signedIn'
    leaving,           \* signOut awaits the logout request and the keychain
    tokenFresh,        \* accessToken is younger than its maximum age
    refreshing,        \* inFlightRefresh
    effect,            \* effect[e]: where a run of the effect is
    wantConnected,
    awaitsToken,       \* reconnectSignaling awaits getFreshAccessToken
    reconnectTimer,    \* armed
    connectionStatus,
    current,           \* the store's client
    client,            \* client[c]: a SignalingClient
    userSteps, faults, \* counters of the bounds
    onPurpose          \* history: the user signed out, and no run of the effect was under way

auth  == <<signedIn, leaving, tokenFresh, refreshing>>
conn  == <<wantConnected, awaitsToken, reconnectTimer, connectionStatus, current, client>>
count == <<userSteps, faults>>
phone == <<auth, effect, conn, count, onPurpose>>

(***************************************************************************)
(* A "mute" socket claims to be open and nothing gets through it.  A       *)
(* client's handlers are attached exactly as long as it has a socket, and  *)
(* its heartbeat runs exactly while that is open or mute.                  *)
(***************************************************************************)
ClientRec == [socket : {"none", "connecting", "open", "mute"}, closed : BOOLEAN, probe : BOOLEAN]
Closed    == [socket |-> "none", closed |-> TRUE, probe |-> FALSE]
Fresh     == [socket |-> "connecting", closed |-> FALSE, probe |-> FALSE]

PhoneInit ==
    /\ signedIn = FALSE /\ leaving = FALSE /\ tokenFresh = FALSE /\ refreshing = FALSE
    /\ effect = [e \in Effect |-> "idle"]
    /\ wantConnected = FALSE /\ awaitsToken = FALSE /\ reconnectTimer = FALSE
    /\ connectionStatus = "disconnected"
    /\ current = None
    /\ client = [c \in Client |-> Closed]
    /\ userSteps = 0 /\ faults = 0 /\ onPurpose = FALSE

User  == userSteps < MaxUser /\ userSteps' = userSteps + 1 /\ UNCHANGED faults
Fault == faults < MaxFault /\ faults' = faults + 1 /\ UNCHANGED userSteps

IsOpen(c) == client[c].socket \in {"open", "mute"}   \* readyState = OPEN

-----------------------------------------------------------------------------
(***************************************************************************)
(* pairingStore.                                                           *)
(***************************************************************************)

\* Mutant: the previous client is left as it is.
KeepsPrevious(clients, c) == clients

\* previous.disconnect()
WithoutPrevious(clients, c) == IF c = None THEN clients ELSE [clients EXCEPT ![c] = Closed]

\* openSignaling: the previous client is closed, a new one connects.
OpenSignaling ==
    /\ reconnectTimer' = FALSE
    /\ connectionStatus' = "connecting"
    /\ \E c \in Client \ {current} :
          /\ client[c].socket = "none"
          /\ current' = c
          /\ client' = [WithoutPrevious(client, current) EXCEPT ![c] = Fresh]

\* disconnect()
Disconnect ==
    /\ wantConnected' = FALSE
    /\ reconnectTimer' = FALSE
    /\ connectionStatus' = "disconnected"
    /\ current' = None
    /\ client' = WithoutPrevious(client, current)

\* Mutant: no retry follows.
NotScheduled == reconnectTimer

\* scheduleReconnect arms the timer unless the connection is no longer wanted.
Scheduled == reconnectTimer \/ wantConnected

\* Mutant: nobody looks whether the connection is still wanted after the await.
WantedAnyway == TRUE

\* if (!wantConnected) return
StillWanted == wantConnected

\* reconnectSignaling once getFreshAccessToken has returned.
GoOn(token) ==
    IF ~StillWanted
    THEN UNCHANGED <<wantConnected, reconnectTimer, connectionStatus, current, client>>
    ELSE \/ /\ token = "rejected"                \* no longer signed in
            /\ Disconnect
         \/ /\ token = "none"
            /\ connectionStatus' = "disconnected"
            /\ reconnectTimer' = Scheduled
            /\ UNCHANGED <<wantConnected, current, client>>
         \/ /\ token = "token"
            /\ OpenSignaling
            /\ UNCHANGED wantConnected

\* reconnectSignaling: a fresh token lets it go on at once, else it joins the
\* refresh or begins one.
Reconnect ==
    IF ~wantConnected THEN UNCHANGED <<refreshing, conn>>
    ELSE IF signedIn /\ ~tokenFresh
         THEN /\ refreshing' = TRUE
              /\ awaitsToken' = TRUE
              /\ reconnectTimer' = FALSE
              /\ connectionStatus' = "connecting"
              /\ UNCHANGED <<wantConnected, current, client>>
         ELSE /\ GoOn(IF signedIn THEN "token" ELSE "rejected")
              /\ UNCHANGED <<refreshing, awaitsToken>>

TimerFires ==
    /\ reconnectTimer
    /\ Reconnect
    /\ UNCHANGED <<signedIn, leaving, tokenFresh, effect, count, onPurpose>>

\* A client reports that it is lost, once; only the current one is heard.
Lost(c) ==
    /\ ~client[c].closed
    /\ client' = [client EXCEPT ![c] = Closed]
    /\ IF c = current
       THEN /\ connectionStatus' = "disconnected"
            /\ reconnectTimer' = Scheduled
       ELSE UNCHANGED <<connectionStatus, reconnectTimer>>
    /\ UNCHANGED <<auth, effect, wantConnected, awaitsToken, current, onPurpose>>

-----------------------------------------------------------------------------
(***************************************************************************)
(* SignalingClient.                                                        *)
(***************************************************************************)

\* onopen
SocketOpens(c) ==
    /\ client[c].socket = "connecting"
    /\ client' = [client EXCEPT ![c].socket = "open"]
    /\ connectionStatus' = IF c = current THEN "connected" ELSE connectionStatus
    /\ UNCHANGED <<auth, effect, wantConnected, awaitsToken, reconnectTimer, current, count, onPurpose>>

\* onclose or onerror: refused, closed by the server, or cut.
SocketCloses(c) ==
    /\ client[c].socket # "none"
    /\ Fault
    /\ Lost(c)

\* The network goes and nobody is told.
SocketMutes(c) ==
    /\ client[c].socket = "open"
    /\ Fault
    /\ client' = [client EXCEPT ![c].socket = "mute"]
    /\ UNCHANGED <<auth, effect, wantConnected, awaitsToken, reconnectTimer,
                   connectionStatus, current, onPurpose>>

\* The heartbeat finds that nothing was received for too long.
GoesStale(c) ==
    /\ client[c].socket = "mute"
    /\ Lost(c)
    /\ UNCHANGED count

\* Anything received ends the probe.
ProbeAnswered(c) ==
    /\ client[c].probe
    /\ client[c].socket = "open"
    /\ client' = [client EXCEPT ![c].probe = FALSE]
    /\ UNCHANGED <<auth, effect, wantConnected, awaitsToken, reconnectTimer,
                   connectionStatus, current, count, onPurpose>>

\* On a mute socket, or when the answer is late, the probe's time is up.
ProbeTimesOut(c) ==
    /\ client[c].probe
    /\ IF client[c].socket = "open" THEN Fault ELSE UNCHANGED count
    /\ Lost(c)

-----------------------------------------------------------------------------
(***************************************************************************)
(* The user.                                                               *)
(***************************************************************************)

\* The app becomes active: probe() or a reconnect.
Foreground ==
    /\ User
    /\ wantConnected
    /\ IF connectionStatus = "connected"
       THEN /\ client' = [client EXCEPT ![current].probe = @ \/ IsOpen(current)]
            /\ UNCHANGED <<refreshing, wantConnected, awaitsToken, reconnectTimer,
                           connectionStatus, current>>
       ELSE Reconnect
    /\ UNCHANGED <<signedIn, leaving, tokenFresh, effect, onPurpose>>

\* The button under "Not connected": reconnectNow().
ReconnectNow ==
    /\ User
    /\ wantConnected
    /\ connectionStatus # "connected"
    /\ Reconnect
    /\ UNCHANGED <<signedIn, leaving, tokenFresh, effect, onPurpose>>

\* Signing in yields a token; the effect runs and finds it fresh.
SignIn(e) ==
    /\ User
    /\ ~signedIn
    /\ effect[e] = "idle"
    /\ signedIn' = TRUE
    /\ tokenFresh' = TRUE
    /\ effect' = [effect EXCEPT ![e] = "register"]
    /\ onPurpose' = FALSE
    /\ UNCHANGED <<leaving, refreshing, conn>>

\* Settings' button: disconnect(), then signOut() awaits.
SignOut ==
    /\ User
    /\ signedIn /\ ~leaving
    /\ leaving' = TRUE
    /\ Disconnect
    /\ onPurpose' = \A e \in Effect : effect[e] = "idle"
    /\ UNCHANGED <<signedIn, tokenFresh, refreshing, awaitsToken, effect>>

SignedOut ==
    /\ leaving
    /\ leaving' = FALSE
    /\ signedIn' = FALSE
    /\ tokenFresh' = FALSE
    /\ UNCHANGED <<refreshing, effect, conn, count, onPurpose>>

-----------------------------------------------------------------------------
(***************************************************************************)
(* authStore and the effect.                                               *)
(***************************************************************************)

\* The access token reaches its maximum age.
Ages ==
    /\ Fault
    /\ signedIn /\ tokenFresh
    /\ tokenFresh' = FALSE
    /\ UNCHANGED <<signedIn, leaving, refreshing, effect, conn, onPurpose>>

\* Somebody else needs a token: Screen Mode, or removing a Mac.
OthersRefresh ==
    /\ User
    /\ signedIn /\ ~tokenFresh
    /\ refreshing' = TRUE
    /\ UNCHANGED <<signedIn, leaving, tokenFresh, effect, conn, onPurpose>>

\* The shared refresh ends: with a token, with none, or rejected, which signs
\* out.  Whoever awaits it goes on.
Refreshed(token) ==
    /\ refreshing
    /\ refreshing' = FALSE
    /\ awaitsToken' = FALSE
    /\ IF token = "token" THEN UNCHANGED count ELSE Fault
    /\ signedIn' = (signedIn /\ token # "rejected")
    /\ tokenFresh' = IF token = "none" THEN tokenFresh ELSE token = "token"
    /\ IF awaitsToken
       THEN GoOn(IF signedIn' THEN token ELSE "rejected")
       ELSE UNCHANGED <<wantConnected, reconnectTimer, connectionStatus, current, client>>
    /\ onPurpose' = (onPurpose /\ token # "rejected")
    /\ UNCHANGED <<leaving, effect>>

\* connect(): the device is registered and the list is loaded.
EffectConnects(e) ==
    /\ effect[e] = "register"
    /\ effect' = [effect EXCEPT ![e] = "idle"]
    /\ wantConnected' = TRUE
    /\ OpenSignaling
    /\ UNCHANGED <<auth, awaitsToken, count, onPurpose>>

\* ensureRegistered throws: this run of the effect is over.
EffectThrows(e) ==
    /\ Fault
    /\ effect[e] = "register"
    /\ effect' = [effect EXCEPT ![e] = "idle"]
    /\ UNCHANGED <<auth, conn, onPurpose>>

PhoneNext ==
    \/ TimerFires
    \/ \E c \in Client : SocketOpens(c)
    \/ \E c \in Client : SocketCloses(c)
    \/ \E c \in Client : SocketMutes(c)
    \/ \E c \in Client : GoesStale(c)
    \/ \E c \in Client : ProbeAnswered(c)
    \/ \E c \in Client : ProbeTimesOut(c)
    \/ Foreground
    \/ ReconnectNow
    \/ \E e \in Effect : SignIn(e)
    \/ SignOut
    \/ SignedOut
    \/ Ages
    \/ OthersRefresh
    \/ \E token \in {"token", "none", "rejected"} : Refreshed(token)
    \/ \E e \in Effect : EffectConnects(e)
    \/ \E e \in Effect : EffectThrows(e)

(***************************************************************************)
(* Timers fire, and a socket, a request or a refresh comes to an end.      *)
(***************************************************************************)
PhoneFairness ==
    /\ WF_phone(TimerFires)
    /\ \A c \in Client : /\ WF_phone(SocketOpens(c) \/ SocketCloses(c))
                         /\ WF_phone(GoesStale(c))
    /\ WF_phone(\E token \in {"token", "none", "rejected"} : Refreshed(token))

-----------------------------------------------------------------------------
PhoneTypeOK ==
    /\ {signedIn, leaving, tokenFresh, refreshing, wantConnected, awaitsToken,
        reconnectTimer, onPurpose} \subseteq BOOLEAN
    /\ effect \in [Effect -> {"idle", "register"}]
    /\ connectionStatus \in {"disconnected", "connecting", "connected"}
    /\ current \in Client \cup {None}
    /\ client \in [Client -> ClientRec]
    /\ userSteps \in 0..MaxUser /\ faults \in 0..MaxFault

PhonePhase ==
    IF ~wantConnected THEN "off"
    ELSE IF \E c \in Client : IsOpen(c) THEN "up"
    ELSE IF awaitsToken \/ \E c \in Client : client[c].socket = "connecting" THEN "trying"
    ELSE IF reconnectTimer THEN "waiting"
    ELSE "dead"

=============================================================================
