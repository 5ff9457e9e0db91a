-------------------------- MODULE ConnectionsProofs --------------------------
(***************************************************************************)
(* Proofs about Connections: its types, that an app has one socket at      *)
(* most, that it shows the connection it has, that one which signed out    *)
(* stays off, and that each step of either app is a step of                *)
(* KeptConnection; and about Devices: its types, that an app connects as a *)
(* device of its account, that the list of Macs knows the pair, and that a *)
(* retry with a fresh identifier is not refused.                           *)
(***************************************************************************)
EXTENDS Connections, Devices, TLAPS

-----------------------------------------------------------------------------
(***************************************************************************)
(* The iPhone.  Its inductive invariant is about the store's client: the   *)
(* only one that may have a socket, and there exactly while the connection *)
(* is wanted.                                                              *)
(***************************************************************************)

ConnTypes ==
    /\ wantConnected \in BOOLEAN /\ awaitsToken \in BOOLEAN /\ reconnectTimer \in BOOLEAN
    /\ connectionStatus \in {"disconnected", "connecting", "connected"}
    /\ current \in Client \cup {None}
    /\ client \in [Client -> ClientRec]

AloneConnected ==
    \A c \in Client :
        /\ c # current => client[c].socket = "none"
        /\ (client[c].closed = TRUE) <=> (client[c].socket = "none")

WantedHasClient == (wantConnected = TRUE) <=> (current # None)

ShownIsOpen ==
    /\ connectionStatus = "connected" => current # None /\ IsOpen(current)
    /\ current # None => (IsOpen(current) =>
            connectionStatus = "connected" \/ awaitsToken \/ reconnectTimer)

Alive ==
    current # None => \/ client[current].socket # "none"
                      \/ awaitsToken \/ reconnectTimer

ConnInv == ConnTypes /\ AloneConnected /\ WantedHasClient /\ ShownIsOpen /\ Alive

\* No run of the effect is left that could connect an app whose user signed out.
LeftForGood ==
    onPurpose => /\ ~wantConnected
                 /\ \A e \in Effect : effect[e] = "idle"

RestTypes ==
    /\ signedIn \in BOOLEAN /\ leaving \in BOOLEAN /\ tokenFresh \in BOOLEAN
    /\ refreshing \in BOOLEAN /\ onPurpose \in BOOLEAN
    /\ effect \in [Effect -> {"idle", "register"}]
    /\ userSteps \in 0..MaxUser /\ faults \in 0..MaxFault

PhoneInv == ConnInv /\ RestTypes /\ LeftForGood

(***************************************************************************)
(* What a step of the iPhone may do to the connection.                     *)
(***************************************************************************)

KeepsConn == UNCHANGED conn

TurnsOff == Disconnect /\ awaitsToken' \in BOOLEAN

OpensNew == OpenSignaling /\ wantConnected' = TRUE /\ awaitsToken' \in BOOLEAN

WithoutToken ==
    /\ wantConnected = TRUE
    /\ connectionStatus' = "disconnected" /\ reconnectTimer' = TRUE
    /\ awaitsToken' \in BOOLEAN
    /\ UNCHANGED <<wantConnected, current, client>>

Awaits ==
    /\ awaitsToken' = TRUE /\ reconnectTimer' = FALSE
    /\ connectionStatus' = "connecting"
    /\ UNCHANGED <<wantConnected, current, client>>

TooLate ==
    /\ wantConnected = FALSE
    /\ awaitsToken' \in BOOLEAN
    /\ UNCHANGED <<wantConnected, reconnectTimer, connectionStatus, current, client>>

Loses(c) ==
    /\ c = current
    /\ client' = [client EXCEPT ![c] = Closed]
    /\ connectionStatus' = "disconnected"
    /\ reconnectTimer' = Scheduled
    /\ UNCHANGED <<wantConnected, awaitsToken, current>>

Connects(c) ==
    /\ c = current
    /\ client[c].socket = "connecting"
    /\ client' = [client EXCEPT ![c].socket = "open"]
    /\ connectionStatus' = "connected"
    /\ UNCHANGED <<wantConnected, awaitsToken, reconnectTimer, current>>

Retouches(c) ==
    /\ client' \in [Client -> ClientRec]
    /\ \A d \in Client : d # c => client'[d] = client[d]
    /\ client'[c].closed = client[c].closed
    /\ \/ client'[c].socket = client[c].socket
       \/ client[c].socket = "open" /\ client'[c].socket = "mute"
    /\ UNCHANGED <<wantConnected, awaitsToken, reconnectTimer, connectionStatus, current>>

ConnStep ==
    \/ KeepsConn \/ TurnsOff \/ OpensNew \/ WithoutToken \/ Awaits \/ TooLate
    \/ \E c \in Client : Loses(c) \/ Connects(c) \/ Retouches(c)

\* Records of clients, field by field.
LEMMA ClientRecords ==
    /\ Closed \in ClientRec /\ Closed.socket = "none" /\ Closed.closed = TRUE
    /\ Fresh \in ClientRec /\ Fresh.socket = "connecting" /\ Fresh.closed = FALSE
  BY DEF ClientRec, Closed, Fresh

\* Marking a phone's client open, or open and mute, changes its socket and nothing else of it.
LEMMA MutedRecord ==
    ASSUME NEW r \in ClientRec, NEW s \in {"open", "mute"}
    PROVE  /\ [r EXCEPT !.socket = s] \in ClientRec
           /\ [r EXCEPT !.socket = s].socket = s
           /\ [r EXCEPT !.socket = s].closed = r.closed
  BY DEF ClientRec

\* Setting or clearing the liveness probe of a client leaves its socket and its closed flag as they were.
LEMMA ProbedRecord ==
    ASSUME NEW r \in ClientRec, NEW p \in BOOLEAN
    PROVE  /\ [r EXCEPT !.probe = p] \in ClientRec
           /\ [r EXCEPT !.probe = p].socket = r.socket
           /\ [r EXCEPT !.probe = p].closed = r.closed
  BY DEF ClientRec

\* GoOn turns the connection off, opens it, or waits, or finds it unwanted.
LEMMA GoesOn ==
    ASSUME ConnInv, NEW token, GoOn(token), awaitsToken' \in BOOLEAN
    PROVE  ConnStep
  <1>1. CASE ~wantConnected
    BY <1>1 DEF GoOn, StillWanted, ConnStep, TooLate, ConnInv, ConnTypes
  <1>2. CASE wantConnected
    <2>1. CASE Disconnect
      BY <2>1 DEF ConnStep, TurnsOff
    <2>2. CASE connectionStatus' = "disconnected" /\ reconnectTimer' = Scheduled
               /\ UNCHANGED <<wantConnected, current, client>>
      BY <1>2, <2>2 DEF ConnStep, WithoutToken, Scheduled, ConnInv, ConnTypes
    <2>3. CASE OpenSignaling /\ UNCHANGED wantConnected
      BY <1>2, <2>3 DEF ConnStep, OpensNew, ConnInv, ConnTypes
    <2> QED BY <1>2, <2>1, <2>2, <2>3 DEF GoOn, StillWanted
  <1> QED BY <1>1, <1>2

\* So does a reconnect, which may begin to wait for a token as well.
LEMMA Reconnects ==
    ASSUME ConnInv, Reconnect
    PROVE  ConnStep
  <1>1. CASE ~wantConnected
    BY <1>1 DEF Reconnect, ConnStep, KeepsConn
  <1>2. CASE wantConnected /\ signedIn /\ ~tokenFresh
    BY <1>2 DEF Reconnect, ConnStep, Awaits
  <1>3. CASE wantConnected /\ ~(signedIn /\ ~tokenFresh)
    <2>1. PICK token : GoOn(token) /\ awaitsToken' = awaitsToken
      BY <1>3 DEF Reconnect
    <2>2. awaitsToken' \in BOOLEAN
      BY <2>1 DEF ConnInv, ConnTypes
    <2> QED BY <2>1, <2>2, GoesOn
  <1> QED BY <1>1, <1>2, <1>3

\* A client that reports a loss is the store's, for no other has a socket.
LEMMA LostStep ==
    ASSUME ConnInv, NEW c \in Client, Lost(c)
    PROVE  ConnStep
  <1>1. c = current
    BY DEF Lost, ConnInv, AloneConnected
  <1> QED BY <1>1 DEF Lost, ConnStep, Loses

\* A client that goes mute, or whose probe begins or ends, is as closed as before.
LEMMA Retouched ==
    ASSUME ConnInv, NEW c \in Client,
           \/ /\ client[c].socket = "open"
              /\ client' = [client EXCEPT ![c].socket = "mute"]
           \/ \E p \in BOOLEAN : client' = [client EXCEPT ![c].probe = p],
           UNCHANGED <<wantConnected, awaitsToken, reconnectTimer, connectionStatus, current>>
    PROVE  Retouches(c)
  <1>1. client \in [Client -> ClientRec] /\ client[c] \in ClientRec
    BY DEF ConnInv, ConnTypes
  <1>2. CASE /\ client[c].socket = "open"
             /\ client' = [client EXCEPT ![c].socket = "mute"]
    <2>1. client' = [client EXCEPT ![c] = [client[c] EXCEPT !.socket = "mute"]]
      BY <1>2
    <2>2. client'[c] = [client[c] EXCEPT !.socket = "mute"]
      BY <1>1, <2>1
    <2>3. /\ [client[c] EXCEPT !.socket = "mute"] \in ClientRec
          /\ [client[c] EXCEPT !.socket = "mute"].socket = "mute"
          /\ [client[c] EXCEPT !.socket = "mute"].closed = client[c].closed
      BY <1>1, MutedRecord
    <2> QED BY <1>1, <1>2, <2>1, <2>2, <2>3 DEF Retouches
  <1>3. CASE \E p \in BOOLEAN : client' = [client EXCEPT ![c].probe = p]
    <2>1. PICK p \in BOOLEAN : client' = [client EXCEPT ![c].probe = p]
      BY <1>3
    <2>2. client' = [client EXCEPT ![c] = [client[c] EXCEPT !.probe = p]]
      BY <2>1
    <2>3. client'[c] = [client[c] EXCEPT !.probe = p]
      BY <1>1, <2>2
    <2>4. /\ [client[c] EXCEPT !.probe = p] \in ClientRec
          /\ [client[c] EXCEPT !.probe = p].socket = client[c].socket
          /\ [client[c] EXCEPT !.probe = p].closed = client[c].closed
      BY <1>1, <2>1, ProbedRecord, Zenon
    <2> QED BY <1>1, <2>2, <2>3, <2>4 DEF Retouches
  <1> QED BY <1>2, <1>3

\* Every action of the iPhone is one of these steps.
LEMMA PhoneConnSteps ==
    ASSUME PhoneInv, PhoneNext
    PROVE  ConnStep
  <1> USE DEF PhoneInv
  <1>1. CASE TimerFires
    BY <1>1, Reconnects DEF TimerFires
  <1>2. ASSUME NEW c \in Client, SocketOpens(c)
        PROVE  ConnStep
    <2>1. c = current
      BY <1>2 DEF SocketOpens, ConnInv, AloneConnected
    <2> QED BY <1>2, <2>1 DEF SocketOpens, ConnStep, Connects
  <1>3. ASSUME NEW c \in Client, SocketCloses(c) \/ GoesStale(c) \/ ProbeTimesOut(c)
        PROVE  ConnStep
    BY <1>3, LostStep DEF SocketCloses, GoesStale, ProbeTimesOut
  <1>4. ASSUME NEW c \in Client, SocketMutes(c)
        PROVE  ConnStep
    <2>1. /\ client[c] \in ClientRec /\ client[c].socket = "open"
          /\ client' = [client EXCEPT ![c].socket = "mute"]
          /\ UNCHANGED <<wantConnected, awaitsToken, reconnectTimer, connectionStatus, current>>
      BY <1>4 DEF SocketMutes, ConnInv, ConnTypes
    <2>2. Retouches(c)
      BY <2>1, Retouched
    <2> QED BY <2>2 DEF ConnStep
  <1>5. ASSUME NEW c \in Client, ProbeAnswered(c)
        PROVE  ConnStep
    <2>1. /\ client[c] \in ClientRec
          /\ client' = [client EXCEPT ![c].probe = FALSE]
          /\ UNCHANGED <<wantConnected, awaitsToken, reconnectTimer, connectionStatus, current>>
      BY <1>5 DEF ProbeAnswered, ConnInv, ConnTypes
    <2>2. Retouches(c)
      BY <2>1, Retouched
    <2> QED BY <2>2 DEF ConnStep
  <1>6. CASE Foreground
    <2>1. CASE connectionStatus = "connected"
      <3>1. current \in Client /\ client[current] \in ClientRec
        BY <2>1 DEF ConnInv, ConnTypes, ShownIsOpen
      <3>2. PICK p \in BOOLEAN : client' = [client EXCEPT ![current].probe = p]
        <4>1. client' = [client EXCEPT ![current].probe = client[current].probe \/ IsOpen(current)]
          BY <1>6, <2>1 DEF Foreground
        <4>2. (client[current].probe \/ IsOpen(current)) \in BOOLEAN
          BY DEF IsOpen
        <4> QED BY <4>1, <4>2
      <3>3. UNCHANGED <<wantConnected, awaitsToken, reconnectTimer, connectionStatus, current>>
        BY <1>6, <2>1 DEF Foreground
      <3>4. Retouches(current)
        BY <3>1, <3>2, <3>3, Retouched
      <3> QED BY <3>1, <3>4 DEF ConnStep
    <2> QED BY <1>6, <2>1, Reconnects DEF Foreground
  <1>7. CASE ReconnectNow
    BY <1>7, Reconnects DEF ReconnectNow
  <1>8. CASE SignOut
    BY <1>8 DEF SignOut, ConnStep, TurnsOff, ConnInv, ConnTypes
  <1>9. ASSUME NEW token \in {"token", "none", "rejected"}, Refreshed(token)
        PROVE  ConnStep
    <2>1. CASE awaitsToken = TRUE
      <3>1. PICK t : GoOn(t)
        BY <1>9, <2>1 DEF Refreshed
      <3>2. awaitsToken' \in BOOLEAN
        BY <1>9 DEF Refreshed
      <3> QED BY <3>1, <3>2, GoesOn
    <2>2. CASE awaitsToken = FALSE
      BY <1>9, <2>2 DEF Refreshed, ConnStep, KeepsConn, conn
    <2> QED BY <2>1, <2>2 DEF ConnInv, ConnTypes
  <1>10. ASSUME NEW e \in Effect, EffectConnects(e)
         PROVE  ConnStep
    BY <1>10 DEF EffectConnects, ConnStep, OpensNew, ConnInv, ConnTypes
  <1>11. ASSUME NEW e \in Effect, SignIn(e) \/ EffectThrows(e)
         PROVE  ConnStep
    BY <1>11 DEF SignIn, EffectThrows, ConnStep, KeepsConn
  <1>12. CASE SignedOut \/ Ages \/ OthersRefresh
    BY <1>12 DEF SignedOut, Ages, OthersRefresh, ConnStep, KeepsConn
  <1> QED
    BY <1>1, <1>2, <1>3, <1>4, <1>5, <1>6, <1>7, <1>8, <1>9, <1>10, <1>11, <1>12 DEF PhoneNext

\* The new client of openSignaling is the only one that is not closed.
LEMMA Opened ==
    ASSUME ConnInv, OpenSignaling
    PROVE  /\ current' \in Client /\ client' \in [Client -> ClientRec]
           /\ client'[current'].socket = "connecting" /\ client'[current'].closed = FALSE
           /\ \A d \in Client : d # current' => client'[d].socket = "none" /\ client'[d].closed = TRUE
  <1>1. PICK c \in Client \ {current} :
            current' = c /\ client' = [WithoutPrevious(client, current) EXCEPT ![c] = Fresh]
    BY DEF OpenSignaling
  <1>2. PICK w : w = WithoutPrevious(client, current)
    OBVIOUS
  <1>3. /\ w \in [Client -> ClientRec]
        /\ \A d \in Client : w[d].socket = "none" /\ w[d].closed = TRUE
    BY <1>2, ClientRecords, NoneAssumption
      DEF WithoutPrevious, ConnInv, ConnTypes, AloneConnected
  <1>4. client' = [w EXCEPT ![c] = Fresh]
    BY <1>1, <1>2
  <1>5. /\ Fresh \in ClientRec /\ Fresh.socket = "connecting" /\ Fresh.closed = FALSE
        /\ c \in Client /\ current' = c
    BY <1>1, ClientRecords
  <1>6. client'[c] = Fresh /\ \A d \in Client : d # c => client'[d] = w[d]
    BY <1>3, <1>4, <1>5
  <1>7. client' \in [Client -> ClientRec]
    BY <1>3, <1>4, <1>5
  <1> QED BY <1>3, <1>5, <1>6, <1>7

\* Once the store has let its client go, no client has a socket.
LEMMA Disconnected ==
    ASSUME ConnInv, Disconnect
    PROVE  /\ current' = None /\ client' \in [Client -> ClientRec]
           /\ \A d \in Client : client'[d].socket = "none" /\ client'[d].closed = TRUE
  BY ClientRecords, NoneAssumption
    DEF Disconnect, WithoutPrevious, ConnInv, ConnTypes, AloneConnected

\* Whatever a step does to the phone's clients, it is one of the few kinds ConnStep lists,
\* and each of them keeps what the invariant says of the clients.
LEMMA ConnInvStep ==
    ASSUME ConnInv, ConnStep
    PROVE  ConnInv'
  <1> USE DEF ConnInv
  <1> USE NoneAssumption, ClientRecords
  <1>1. CASE KeepsConn
    BY <1>1 DEF KeepsConn, conn, ConnTypes, AloneConnected, WantedHasClient, ShownIsOpen, IsOpen, Alive
  <1>2. CASE TurnsOff
    BY <1>2, Disconnected
      DEF TurnsOff, Disconnect, ConnTypes, AloneConnected, WantedHasClient, ShownIsOpen, IsOpen, Alive
  <1>3. CASE OpensNew
    <2>1. /\ wantConnected' = TRUE /\ awaitsToken' \in BOOLEAN
          /\ reconnectTimer' = FALSE /\ connectionStatus' = "connecting"
      BY <1>3 DEF OpensNew, OpenSignaling
    <2>2. OpenSignaling
      BY <1>3 DEF OpensNew
    <2>3. /\ current' \in Client /\ client' \in [Client -> ClientRec]
          /\ client'[current'].socket = "connecting" /\ client'[current'].closed = FALSE
          /\ \A d \in Client : d # current' => client'[d].socket = "none" /\ client'[d].closed = TRUE
      BY <2>2, Opened, Zenon
    <2> QED
      BY <2>1, <2>3
        DEF ConnTypes, AloneConnected, WantedHasClient, ShownIsOpen, IsOpen, Alive
  <1>4. CASE WithoutToken \/ Awaits \/ TooLate
    <2>1. UNCHANGED <<wantConnected, current, client>>
      BY <1>4 DEF WithoutToken, Awaits, TooLate
    <2>2. ConnTypes' /\ AloneConnected' /\ WantedHasClient'
      BY <1>4, <2>1 DEF WithoutToken, Awaits, TooLate, ConnTypes, AloneConnected, WantedHasClient
    <2>3. CASE WithoutToken
      BY <2>1, <2>2, <2>3 DEF WithoutToken, ShownIsOpen, IsOpen, Alive
    <2>4. CASE Awaits
      BY <2>1, <2>2, <2>4 DEF Awaits, ShownIsOpen, IsOpen, Alive
    <2>5. CASE TooLate
      <3>1. current = None /\ current' = None /\ connectionStatus' # "connected"
        BY <2>5 DEF TooLate, WantedHasClient, ShownIsOpen
      <3> QED BY <2>2, <3>1 DEF ShownIsOpen, Alive
    <2> QED BY <1>4, <2>3, <2>4, <2>5
  <1>5. ASSUME NEW c \in Client, Loses(c)
        PROVE  ConnInv'
    <2>1. /\ c = current /\ wantConnected = TRUE
          /\ reconnectTimer' = TRUE /\ connectionStatus' = "disconnected"
          /\ client' = [client EXCEPT ![c] = Closed]
          /\ UNCHANGED <<wantConnected, awaitsToken, current>>
      BY <1>5 DEF Loses, WantedHasClient, Scheduled, ConnTypes
    <2> QED BY <2>1 DEF ConnTypes, AloneConnected, WantedHasClient, ShownIsOpen, IsOpen, Alive
  <1>6. ASSUME NEW c \in Client, Connects(c)
        PROVE  ConnInv'
    <2>1. /\ client \in [Client -> ClientRec] /\ client[c] \in ClientRec
          /\ client' = [client EXCEPT ![c] = [client[c] EXCEPT !.socket = "open"]]
      BY <1>6 DEF Connects, ConnTypes
    <2>2. /\ client' \in [Client -> ClientRec]
          /\ client'[c].socket = "open" /\ client'[c].closed = client[c].closed
          /\ \A d \in Client : d # c => client'[d] = client[d]
      BY <2>1, MutedRecord
    <2> QED
      BY <1>6, <2>2
        DEF Connects, ConnTypes, AloneConnected, WantedHasClient, ShownIsOpen, IsOpen, Alive
  <1>7. ASSUME NEW c \in Client, Retouches(c)
        PROVE  ConnInv'
    BY <1>7 DEF Retouches, ConnTypes, AloneConnected, WantedHasClient, ShownIsOpen, IsOpen, Alive
  <1> QED BY <1>1, <1>2, <1>3, <1>4, <1>5, <1>6, <1>7 DEF ConnStep

\* A step that neither signs in nor connects for the effect leaves who wants
\* what, and which runs of the effect are under way, no further than it was.
Stays ==
    /\ onPurpose' => onPurpose
    /\ effect' = effect
    /\ ~wantConnected => ~wantConnected'

\* A step that neither creates a client nor dials keeps a signed-out phone off.
LEMMA StaysLeft ==
    ASSUME LeftForGood, Stays
    PROVE  LeftForGood'
  BY DEF LeftForGood, Stays

\* The counters of the user's steps and of the faults stay within their bounds.
LEMMA UserCounted ==
    ASSUME RestTypes, User \/ Fault \/ UNCHANGED count
    PROVE  userSteps' \in 0..MaxUser /\ faults' \in 0..MaxFault
  BY PhoneBounds DEF RestTypes, User, Fault, count

\* Every action of the phone keeps the types of what is not a client, and keeps
\* a signed-out phone off.
LEMMA PhoneRestStep ==
    ASSUME PhoneInv, PhoneNext
    PROVE  RestTypes' /\ LeftForGood'
  <1> USE DEF PhoneInv
  <1>0. /\ signedIn \in BOOLEAN /\ leaving \in BOOLEAN /\ tokenFresh \in BOOLEAN
        /\ refreshing \in BOOLEAN /\ onPurpose \in BOOLEAN
        /\ effect \in [Effect -> {"idle", "register"}]
    BY DEF RestTypes
  <1>1. ASSUME Reconnect
        PROVE  /\ refreshing' \in BOOLEAN
               /\ ~wantConnected => ~wantConnected'
    BY <1>0, <1>1 DEF Reconnect, conn
  <1>2. CASE TimerFires
    <2>1. RestTypes'
      BY <1>0, <1>1, <1>2, UserCounted DEF TimerFires, RestTypes
    <2>2. Stays
      BY <1>1, <1>2 DEF TimerFires, Stays
    <2> QED BY <2>1, <2>2, StaysLeft
  <1>3. ASSUME NEW c \in Client,
               \/ SocketOpens(c) \/ SocketCloses(c) \/ SocketMutes(c)
               \/ GoesStale(c) \/ ProbeAnswered(c) \/ ProbeTimesOut(c)
        PROVE  RestTypes' /\ LeftForGood'
    <2>1. UNCHANGED <<auth, effect, wantConnected, onPurpose>>
      BY <1>3 DEF SocketOpens, SocketCloses, SocketMutes, GoesStale, ProbeAnswered,
                  ProbeTimesOut, Lost
    <2>2. Fault \/ UNCHANGED count
      BY <1>3 DEF SocketOpens, SocketCloses, SocketMutes, GoesStale, ProbeAnswered, ProbeTimesOut
    <2>3. RestTypes'
      BY <1>0, <2>1, <2>2, UserCounted DEF auth, RestTypes
    <2> QED BY <2>1, <2>3, StaysLeft DEF Stays
  <1>4. CASE Foreground \/ ReconnectNow
    <2>1. /\ User
          /\ UNCHANGED <<signedIn, leaving, tokenFresh, effect, onPurpose>>
          /\ Reconnect \/ UNCHANGED <<refreshing, wantConnected>>
      BY <1>4 DEF Foreground, ReconnectNow
    <2>2. RestTypes'
      BY <1>0, <1>1, <2>1, UserCounted DEF RestTypes
    <2> QED BY <1>1, <2>1, <2>2, StaysLeft DEF Stays
  <1>5. ASSUME NEW e \in Effect, SignIn(e)
        PROVE  RestTypes' /\ LeftForGood'
    BY <1>0, <1>5, UserCounted DEF SignIn, RestTypes, LeftForGood
  <1>6. CASE SignOut
    <2>1. onPurpose' \in BOOLEAN /\ (onPurpose' => \A e \in Effect : effect[e] = "idle")
      BY <1>6 DEF SignOut
    <2>2. /\ User /\ wantConnected' = FALSE /\ leaving' = TRUE
          /\ UNCHANGED <<signedIn, tokenFresh, refreshing, effect>>
      BY <1>6 DEF SignOut, Disconnect
    <2> QED BY <1>0, <2>1, <2>2, UserCounted DEF RestTypes, LeftForGood
  <1>7. CASE SignedOut \/ Ages \/ OthersRefresh
    <2>1. /\ UNCHANGED <<effect, wantConnected, onPurpose>>
          /\ User \/ Fault \/ UNCHANGED count
          /\ signedIn' \in BOOLEAN /\ leaving' \in BOOLEAN /\ tokenFresh' \in BOOLEAN
          /\ refreshing' \in BOOLEAN
      BY <1>0, <1>7 DEF SignedOut, Ages, OthersRefresh, conn
    <2> QED BY <1>0, <2>1, UserCounted, StaysLeft DEF RestTypes, Stays
  <1>8. ASSUME NEW token \in {"token", "none", "rejected"}, Refreshed(token)
        PROVE  RestTypes' /\ LeftForGood'
    <2>1. /\ signedIn' \in BOOLEAN /\ tokenFresh' \in BOOLEAN /\ refreshing' = FALSE
          /\ onPurpose' \in BOOLEAN /\ (onPurpose' => onPurpose)
          /\ UNCHANGED <<leaving, effect>> /\ (Fault \/ UNCHANGED count)
      BY <1>0, <1>8 DEF Refreshed
    <2>2. ~wantConnected => ~wantConnected'
      BY <1>8 DEF Refreshed, GoOn, StillWanted
    <2> QED BY <1>0, <2>1, <2>2, UserCounted, StaysLeft DEF RestTypes, Stays
  <1>9. ASSUME NEW e \in Effect, EffectConnects(e)
        PROVE  RestTypes' /\ LeftForGood'
    <2>1. ~onPurpose
      BY <1>9 DEF EffectConnects, LeftForGood
    <2> QED BY <1>0, <1>9, <2>1, UserCounted DEF EffectConnects, auth, RestTypes, LeftForGood
  <1>10. ASSUME NEW e \in Effect, EffectThrows(e)
         PROVE  RestTypes' /\ LeftForGood'
    BY <1>0, <1>10, UserCounted DEF EffectThrows, auth, conn, RestTypes, LeftForGood
  <1> QED
    BY <1>2, <1>3, <1>4, <1>5, <1>6, <1>7, <1>8, <1>9, <1>10 DEF PhoneNext

\* The phone starts with no client, nothing to keep and nothing counted.
LEMMA PhoneInvInit ==
    ASSUME PhoneInit
    PROVE  PhoneInv
  <1>1. ConnInv
    BY ClientRecords
      DEF PhoneInit, ConnInv, ConnTypes, AloneConnected, WantedHasClient, ShownIsOpen, Alive
  <1>2. RestTypes
    <2>1. userSteps \in 0..MaxUser /\ faults \in 0..MaxFault
      BY PhoneBounds DEF PhoneInit
    <2>2. effect \in [Effect -> {"idle", "register"}]
      BY DEF PhoneInit
    <2>3. /\ signedIn \in BOOLEAN /\ leaving \in BOOLEAN /\ tokenFresh \in BOOLEAN
          /\ refreshing \in BOOLEAN /\ onPurpose \in BOOLEAN
      BY DEF PhoneInit
    <2> QED BY <2>1, <2>2, <2>3 DEF RestTypes
  <1>3. LeftForGood
    BY DEF PhoneInit, LeftForGood
  <1> QED BY <1>1, <1>2, <1>3 DEF PhoneInv

\* The phone's invariant is inductive: ConnInvStep for the clients, PhoneRestStep for the rest.
LEMMA PhoneInvStep ==
    ASSUME PhoneInv, PhoneNext \/ UNCHANGED phone
    PROVE  PhoneInv'
  <1>1. CASE PhoneNext
    BY <1>1, PhoneConnSteps, ConnInvStep, PhoneRestStep DEF PhoneInv
  <1>2. CASE UNCHANGED phone
    <2>1. KeepsConn /\ UNCHANGED <<auth, effect, count, onPurpose>>
      BY <1>2 DEF phone, KeepsConn
    <2>2. ConnInv'
      BY <2>1, ConnInvStep DEF PhoneInv, ConnStep
    <2>3. RestTypes' /\ LeftForGood'
      BY <2>1 DEF PhoneInv, KeepsConn, conn, auth, count, RestTypes, LeftForGood
    <2> QED BY <2>2, <2>3 DEF PhoneInv
  <1> QED BY <1>1, <1>2

(***************************************************************************)
(* The refinement of KeptConnection, for the iPhone: a connection that is  *)
(* wanted is never dead, and one comes up only where an attempt was.       *)
(***************************************************************************)

PhoneLives ==
    /\ PhonePhase \in {"off", "waiting", "trying", "up"}
    /\ \A c \in Client : client[c].socket # "none" => PhonePhase \in {"trying", "up"}

\* A phone that wants a connection has an open socket, or a timer or a socket under way that leads to one.
LEMMA PhoneNotDead == PhoneInv => PhoneLives
  <1> SUFFICES ASSUME PhoneInv PROVE PhoneLives
    OBVIOUS
  <1> USE DEF PhoneInv, ConnInv
  <1>1. ASSUME NEW c \in Client, client[c].socket # "none"
        PROVE  PhonePhase \in {"trying", "up"}
    <2>1. wantConnected = TRUE
      BY <1>1, NoneAssumption DEF AloneConnected, WantedHasClient
    <2>2. client[c].socket = "connecting" \/ IsOpen(c)
      BY <1>1 DEF ConnTypes, ClientRec, IsOpen
    <2> QED BY <2>1, <2>2 DEF PhonePhase
  <1>2. PhonePhase \in {"off", "waiting", "trying", "up"}
    <2>1. CASE wantConnected = FALSE
      BY <2>1 DEF PhonePhase
    <2>2. CASE wantConnected = TRUE
      <3>1. current \in Client
        BY <2>2 DEF ConnTypes, WantedHasClient
      <3>2. CASE client[current].socket # "none"
        BY <1>1, <3>1, <3>2
      <3>3. CASE awaitsToken \/ reconnectTimer
        BY <3>3 DEF PhonePhase
      <3> QED BY <3>1, <3>2, <3>3, NoneAssumption DEF Alive
    <2> QED BY <2>1, <2>2 DEF ConnTypes
  <1> QED BY <1>1, <1>2 DEF PhoneLives

\* No client comes up in the step in which it is created.
LEMMA PhoneOpensFromTry ==
    ASSUME PhoneInv, ConnStep, PhonePhase' = "up"
    PROVE  \E c \in Client : client[c].socket # "none"
  <1> USE DEF PhoneInv
  <1>1. PICK c \in Client : client'[c].socket \in {"open", "mute"}
    BY DEF PhonePhase, IsOpen
  <1>2. CASE OpensNew
    BY <1>1, <1>2, Opened DEF OpensNew
  <1>3. CASE TurnsOff
    BY <1>1, <1>3, Disconnected DEF TurnsOff
  <1>4. ASSUME NEW d \in Client, Loses(d) \/ Connects(d) \/ Retouches(d)
        PROVE  \E b \in Client : client[b].socket # "none"
    <2>1. CASE c = d
      BY <1>1, <1>4, <2>1, ClientRecords DEF Loses, Connects, Retouches, ConnInv, ConnTypes
    <2>2. CASE c # d
      <3>1. client'[c] = client[c]
        BY <1>4, <2>2 DEF Loses, Connects, Retouches, ConnInv, ConnTypes
      <3> QED BY <1>1, <3>1
    <2> QED BY <2>1, <2>2
  <1>5. CASE KeepsConn \/ WithoutToken \/ Awaits \/ TooLate
    BY <1>1, <1>5 DEF KeepsConn, conn, WithoutToken, Awaits, TooLate
  <1> QED BY <1>2, <1>3, <1>4, <1>5 DEF ConnStep

\* Every step of the phone is a step, or a stutter, of the connection that is kept.
LEMMA PhoneStepRefines ==
    ASSUME PhoneInv, PhoneNext \/ UNCHANGED phone
    PROVE  [PhoneKeeps!Next]_PhonePhase
  <1>1. CASE PhoneNext
    <2>1. PhoneInv'
      BY <1>1, PhoneInvStep
    <2>2. PhoneLives
      BY PhoneNotDead
    <2>3. PhoneLives'
      BY <2>1, PhoneNotDead, PTL
    <2>4. PhonePhase' = "up" => PhonePhase \in {"trying", "up"}
      BY <1>1, <2>2, PhoneConnSteps, PhoneOpensFromTry DEF PhoneLives
    <2>5. /\ PhonePhase \in {"off", "waiting", "trying", "up"}
          /\ PhonePhase' \in {"off", "waiting", "trying", "up"}
      BY <2>2, <2>3 DEF PhoneLives
    <2> QED
      BY <2>4, <2>5
        DEF PhoneKeeps!Next, PhoneKeeps!Ask, PhoneKeeps!Stop, PhoneKeeps!Again,
            PhoneKeeps!Opens, PhoneKeeps!Misses
  <1>2. CASE UNCHANGED phone
    BY <1>2 DEF phone, conn, PhonePhase, IsOpen
  <1> QED BY <1>1, <1>2

-----------------------------------------------------------------------------
(***************************************************************************)
(* The Mac.  Again only AppState's client may have a socket; it is there   *)
(* only while the connection is to be kept and there is a token.           *)
(***************************************************************************)

MacClientTypes ==
    /\ signaling \in MacClient \cup {Nobody}
    /\ macClient \in [MacClient -> MacClientRec]

MacAlone ==
    \A c \in MacClient :
        /\ c # signaling => macClient[c].socket = "none"
        /\ (macClient[c].closed = TRUE) <=> (macClient[c].socket = "none")
        /\ macClient[c].closed = FALSE => macClient[c].heard = TRUE

MacTypes ==
    /\ accessToken \in {"none", "fresh", "old"}
    /\ hasDevice \in BOOLEAN /\ refreshTask \in BOOLEAN /\ registering \in BOOLEAN
    /\ shouldStayConnected \in BOOLEAN /\ reconnectTask \in BOOLEAN /\ macAsked \in BOOLEAN
    /\ try \in [Try -> {"idle", "start", "await", "ok", "failed"}]
    /\ macStatus \in {"disconnected", "connecting", "connected"}
    /\ macSteps \in 0..MaxMacUser /\ macFaults \in 0..MaxMacFault

MacWanted ==
    /\ shouldStayConnected => hasDevice /\ macAsked
    /\ signaling # Nobody => shouldStayConnected /\ accessToken # "none"
    /\ hasDevice => ~registering
    /\ registering /\ (accessToken # "none" \/ refreshTask) => macAsked

MacShown ==
    /\ macStatus = "connected" => signaling # Nobody /\ MacIsOpen(signaling)
    /\ signaling # Nobody => (MacIsOpen(signaling) =>
            \/ macStatus = "connected" \/ reconnectTask
            \/ \E a \in Try : try[a] # "idle")

\* Without a token, a call that was given one connects nothing and retries nothing.
Useful(state) == state \in {"start", "await", "failed"} \/ (state = "ok" /\ accessToken # "none")

MacAlive ==
    shouldStayConnected =>
        \/ signaling # Nobody /\ macClient[signaling].socket # "none"
        \/ reconnectTask
        \/ \E a \in Try : Useful(try[a])

MacInv == MacClientTypes /\ MacAlone /\ MacTypes /\ MacWanted /\ MacShown /\ MacAlive

(***************************************************************************)
(* What a step of the Mac may do to its clients.                           *)
(***************************************************************************)

SameClients ==
    /\ signaling' = signaling
    /\ macClient' \in [MacClient -> MacClientRec]
    /\ \A c \in MacClient :
          /\ macClient'[c].closed = macClient[c].closed
          /\ macClient'[c].heard = macClient[c].heard
          /\ \/ macClient'[c].socket = macClient[c].socket
             \/ macClient[c].socket = "open" /\ macClient'[c].socket = "mute"

ClientLost(c) ==
    /\ c = signaling /\ signaling' = signaling
    /\ macClient' \in [MacClient -> MacClientRec]
    /\ macClient'[c].closed = TRUE /\ macClient'[c].socket = "none"
    /\ \A d \in MacClient : d # c => macClient'[d] = macClient[d]

ClientOpens(c) ==
    /\ c = signaling /\ signaling' = signaling
    /\ macClient[c].socket = "connecting"
    /\ macClient' \in [MacClient -> MacClientRec]
    /\ macClient'[c].socket = "open"
    /\ macClient'[c].closed = macClient[c].closed /\ macClient'[c].heard = macClient[c].heard
    /\ \A d \in MacClient : d # c => macClient'[d] = macClient[d]

NoClientLeft ==
    /\ signaling' = Nobody
    /\ macClient' \in [MacClient -> MacClientRec]
    /\ \A d \in MacClient : macClient'[d].socket = "none" /\ macClient'[d].closed = TRUE

ClientCreated ==
    /\ signaling' \in MacClient
    /\ macClient' \in [MacClient -> MacClientRec]
    /\ macClient'[signaling'].socket = "connecting" /\ macClient'[signaling'].closed = FALSE
    /\ macClient'[signaling'].heard = TRUE
    /\ \A d \in MacClient : d # signaling' =>
          macClient'[d].socket = "none" /\ macClient'[d].closed = TRUE

ClientsStep ==
    \/ SameClients \/ NoClientLeft \/ ClientCreated
    \/ \E c \in MacClient : ClientLost(c) \/ ClientOpens(c)

\* Each kind of step the Mac's clients can take keeps their types, and at most one of them open.
LEMMA ClientsInvStep ==
    ASSUME MacClientTypes, MacAlone, ClientsStep
    PROVE  MacClientTypes' /\ MacAlone'
  <1>1. CASE SameClients
    BY <1>1 DEF SameClients, MacClientTypes, MacAlone
  <1>2. CASE NoClientLeft
    BY <1>2 DEF NoClientLeft, MacClientTypes, MacAlone
  <1>3. CASE ClientCreated
    BY <1>3 DEF ClientCreated, MacClientTypes, MacAlone
  <1>4. ASSUME NEW c \in MacClient, ClientLost(c) \/ ClientOpens(c)
        PROVE  MacClientTypes' /\ MacAlone'
    BY <1>4 DEF ClientLost, ClientOpens, MacClientTypes, MacAlone
  <1> QED BY <1>1, <1>2, <1>3, <1>4 DEF ClientsStep

(***************************************************************************)
(* Records of the Mac's clients.                                           *)
(***************************************************************************)

\* The records of a client that was never made and of one just made.
LEMMA MacRecords ==
    /\ NoClient \in MacClientRec /\ NoClient.socket = "none" /\ NoClient.closed = TRUE
    /\ NewClient \in MacClientRec /\ NewClient.socket = "connecting"
    /\ NewClient.closed = FALSE /\ NewClient.heard = TRUE
  <1>1. 0 \in 0..MaxDeadlines
    BY MacBounds
  <1>2. /\ NoClient \in MacClientRec /\ NoClient.socket = "none" /\ NoClient.closed = TRUE
    BY <1>1 DEF MacClientRec, NoClient
  <1>3. /\ [NoClient EXCEPT !.socket = "connecting", !.closed = FALSE, !.heard = TRUE] \in MacClientRec
        /\ NewClient.socket = "connecting" /\ NewClient.closed = FALSE /\ NewClient.heard = TRUE
    BY <1>1 DEF MacClientRec, NoClient, NewClient
  <1> QED BY <1>2, <1>3 DEF NewClient

\* Closing a Mac's client leaves it without a socket, and closing it again changes nothing.
LEMMA ClosedRecord ==
    ASSUME NEW r \in MacClientRec, (r.closed = TRUE) <=> (r.socket = "none")
    PROVE  /\ CloseClient(r) \in MacClientRec
           /\ CloseClient(r).socket = "none" /\ CloseClient(r).closed = TRUE
           /\ r.closed = TRUE => CloseClient(r) = r
  <1>1. CASE r.closed = TRUE
    BY <1>1 DEF CloseClient
  <1>2. CASE r.closed = FALSE
    <2>1. 0 \in 0..MaxDeadlines
      BY MacBounds
    <2>2. CloseClient(r) = [r EXCEPT !.socket = "none", !.closed = TRUE, !.awaitingPong = FALSE,
                                     !.deadlines = 0, !.late = TRUE]
      BY <1>2 DEF CloseClient
    <2>3. [r EXCEPT !.socket = "none", !.closed = TRUE, !.awaitingPong = FALSE,
                    !.deadlines = 0, !.late = TRUE] \in MacClientRec
      BY <2>1 DEF MacClientRec
    <2>4. CloseClient(r).socket = "none" /\ CloseClient(r).closed = TRUE
      BY <2>2 DEF MacClientRec
    <2> QED BY <1>2, <2>2, <2>3, <2>4
  <1> QED BY <1>1, <1>2 DEF MacClientRec

\* A Mac's client whose callbacks are cleared keeps its socket.
LEMMA SilencedRecord ==
    ASSUME NEW r \in MacClientRec
    PROVE  /\ [r EXCEPT !.heard = FALSE] \in MacClientRec
           /\ [r EXCEPT !.heard = FALSE].socket = r.socket
           /\ [r EXCEPT !.heard = FALSE].closed = r.closed
  BY DEF MacClientRec

\* Opening or muting the socket of a Mac's client changes nothing else of it.
LEMMA SocketRecord ==
    ASSUME NEW r \in MacClientRec, NEW s \in {"open", "mute"}
    PROVE  /\ [r EXCEPT !.socket = s] \in MacClientRec
           /\ [r EXCEPT !.socket = s].socket = s
           /\ [r EXCEPT !.socket = s].closed = r.closed
           /\ [r EXCEPT !.socket = s].heard = r.heard
  BY DEF MacClientRec

\* Two records of clients whose socket is equally closed and heard.
Alike(r, s) == r.socket = s.socket /\ r.closed = s.closed /\ r.heard = s.heard

\* The heartbeat's bookkeeping (ping, pong, deadline) leaves the socket, the callbacks and the
\* closed flag of a client as they were.
LEMMA PingRecords ==
    ASSUME NEW r \in MacClientRec
    PROVE  /\ Probed(r) \in MacClientRec /\ Alike(Probed(r), r)
           /\ [r EXCEPT !.awaitingPong = FALSE] \in MacClientRec
           /\ Alike([r EXCEPT !.awaitingPong = FALSE], r)
           /\ [r EXCEPT !.late = FALSE] \in MacClientRec
           /\ Alike([r EXCEPT !.late = FALSE], r)
           /\ r.deadlines > 0 => /\ [r EXCEPT !.deadlines = @ - 1] \in MacClientRec
                                 /\ Alike([r EXCEPT !.deadlines = @ - 1], r)
  <1>1. r.deadlines \in 0..MaxDeadlines /\ MaxDeadlines \in Nat
    BY MacBounds DEF MacClientRec
  <1>2. ASSUME NEW n \in 0..MaxDeadlines
        PROVE  /\ [r EXCEPT !.deadlines = n] \in MacClientRec
               /\ Alike([r EXCEPT !.deadlines = n], r)
               /\ [r EXCEPT !.awaitingPong = TRUE, !.deadlines = n] \in MacClientRec
               /\ Alike([r EXCEPT !.awaitingPong = TRUE, !.deadlines = n], r)
    BY DEF MacClientRec, Alike
  <1>3. Probed(r) \in MacClientRec /\ Alike(Probed(r), r)
    <2>1. CASE r.closed \/ r.awaitingPong \/ r.deadlines = MaxDeadlines
      BY <2>1 DEF Probed, Alike
    <2>2. CASE ~(r.closed \/ r.awaitingPong \/ r.deadlines = MaxDeadlines)
      <3>1. r.deadlines + 1 \in 0..MaxDeadlines
        BY <1>1, <2>2
      <3>2. Probed(r) = [r EXCEPT !.awaitingPong = TRUE, !.deadlines = r.deadlines + 1]
        BY <2>2 DEF Probed
      <3> QED BY <1>2, <3>1, <3>2
    <2> QED BY <2>1, <2>2
  <1>4. /\ [r EXCEPT !.awaitingPong = FALSE] \in MacClientRec
        /\ Alike([r EXCEPT !.awaitingPong = FALSE], r)
        /\ [r EXCEPT !.late = FALSE] \in MacClientRec
        /\ Alike([r EXCEPT !.late = FALSE], r)
    BY DEF MacClientRec, Alike
  <1>5. ASSUME r.deadlines > 0
        PROVE  /\ [r EXCEPT !.deadlines = @ - 1] \in MacClientRec
               /\ Alike([r EXCEPT !.deadlines = @ - 1], r)
    <2>1. r.deadlines - 1 \in 0..MaxDeadlines
      BY <1>1, <1>5
    <2> QED BY <1>2, <2>1
  <1> QED BY <1>3, <1>4, <1>5

(***************************************************************************)
(* The clients under the Mac's operations.                                 *)
(***************************************************************************)

\* A client that is replaced by an equal one, but for its pings or its socket's being mute.
LEMMA Swapped ==
    ASSUME MacClientTypes, NEW c \in MacClient, NEW r \in MacClientRec,
           macClient' = [macClient EXCEPT ![c] = r], signaling' = signaling,
           r.closed = macClient[c].closed, r.heard = macClient[c].heard,
           \/ r.socket = macClient[c].socket
           \/ macClient[c].socket = "open" /\ r.socket = "mute"
    PROVE  SameClients
  BY DEF MacClientTypes, SameClients

\* markClosed tells of a loss once, and only for AppState's client.
LEMMA Marked ==
    ASSUME MacClientTypes, MacAlone, MacTypes, MacWanted,
           NEW c \in MacClient, NEW r \in MacClientRec, Alike(r, macClient[c]),
           MarkClosed(c, r)
    PROVE  /\ UNCHANGED <<account, shouldStayConnected, try, macAsked>>
           /\ \/ SameClients /\ UNCHANGED <<macStatus, reconnectTask>>
              \/ /\ ClientLost(c)
                 /\ macStatus' = "disconnected" /\ reconnectTask' = TRUE
  <1>1. /\ macClient[c] \in MacClientRec
        /\ macClient' = [macClient EXCEPT ![c] = CloseClient(r)]
        /\ UNCHANGED <<account, shouldStayConnected, try, signaling, macAsked>>
    BY DEF MacClientTypes, MarkClosed
  <1>2. /\ CloseClient(r) \in MacClientRec
        /\ CloseClient(r).socket = "none" /\ CloseClient(r).closed = TRUE
        /\ r.closed = TRUE => CloseClient(r) = r
    BY ClosedRecord DEF Alike, MacAlone
  <1>3. CASE macClient[c].closed = TRUE
    <2>1. r.closed = TRUE /\ CloseClient(r) = r
      BY <1>2, <1>3 DEF Alike
    <2>2. SameClients
      BY <1>1, <2>1, Swapped DEF Alike
    <2>3. UNCHANGED <<macStatus, reconnectTask>>
      BY <2>1 DEF MarkClosed, Reportable
    <2> QED BY <1>1, <2>2, <2>3
  <1>4. CASE macClient[c].closed = FALSE
    <2>1. r.closed = FALSE /\ r.heard = TRUE
      BY <1>4 DEF Alike, MacAlone
    <2>2. c = signaling
      BY <1>4 DEF MacAlone
    <2>3. shouldStayConnected = TRUE
      BY <2>2, NobodyAssumption DEF MacWanted, MacTypes
    <2>4. macStatus' = "disconnected" /\ reconnectTask' = TRUE
      BY <2>1, <2>3 DEF MarkClosed, Reportable, ScheduleReconnect, MacTypes
    <2>5. ClientLost(c)
      BY <1>1, <1>2, <2>2 DEF ClientLost, MacClientTypes
    <2> QED BY <1>1, <2>4, <2>5
  <1> QED BY <1>1, <1>3, <1>4 DEF MacClientRec

\* connectSignaling leaves one client, a new one, or does nothing.
LEMMA Connected ==
    ASSUME MacClientTypes, MacAlone, NEW known, ConnectSignaling(known)
    PROVE  \/ /\ accessToken = "none" \/ ~known
              /\ UNCHANGED <<shouldStayConnected, reconnectTask, macStatus, signaling, macClient>>
           \/ /\ accessToken # "none" /\ known
              /\ shouldStayConnected' = TRUE /\ reconnectTask' = FALSE
              /\ macStatus' = "connecting" /\ ClientCreated
  <1>1. CASE accessToken = "none" \/ ~known
    BY <1>1 DEF ConnectSignaling, macConn
  <1>2. CASE ~(accessToken = "none" \/ ~known)
    <2>1. PICK c \in MacClient \ {signaling} :
             /\ signaling' = c
             /\ macClient' = [d \in MacClient |->
                   CASE d = c         -> NewClient
                     [] d = signaling -> [CloseClient(macClient[d]) EXCEPT !.heard = FALSE]
                     [] OTHER         -> macClient[d]]
      BY <1>2 DEF ConnectSignaling
    <2>2. macClient'[c] = NewClient
      BY <2>1
    <2>3. ASSUME NEW d \in MacClient, d # c
          PROVE  /\ macClient'[d] \in MacClientRec
                 /\ macClient'[d].socket = "none" /\ macClient'[d].closed = TRUE
      <3>1. CASE d = signaling
        <4>1. /\ CloseClient(macClient[d]) \in MacClientRec
              /\ CloseClient(macClient[d]).socket = "none"
              /\ CloseClient(macClient[d]).closed = TRUE
          BY ClosedRecord DEF MacClientTypes, MacAlone
        <4>2. macClient'[d] = [CloseClient(macClient[d]) EXCEPT !.heard = FALSE]
          BY <2>1, <2>3, <3>1
        <4> QED BY <4>1, <4>2, SilencedRecord
      <3>2. CASE d # signaling
        BY <2>1, <2>3, <3>2 DEF MacClientTypes, MacAlone
      <3> QED BY <3>1, <3>2
    <2>4. macClient' \in [MacClient -> MacClientRec]
      <3>1. \A d \in MacClient : macClient'[d] \in MacClientRec
        BY <2>2, <2>3, MacRecords
      <3>2. macClient' = [d \in MacClient |-> macClient'[d]]
        BY <2>1
      <3> QED BY <3>1, <3>2
    <2>5. ClientCreated
      BY <2>1, <2>2, <2>3, <2>4, MacRecords DEF ClientCreated
    <2> QED BY <1>2, <2>5 DEF ConnectSignaling
  <1> QED BY <1>1, <1>2

\* Disconnecting leaves none.
LEMMA Dropped ==
    ASSUME MacClientTypes, MacAlone, DropClient
    PROVE  NoClientLeft
  <1>1. ASSUME NEW d \in MacClient
        PROVE  /\ macClient'[d] \in MacClientRec
               /\ macClient'[d].socket = "none" /\ macClient'[d].closed = TRUE
    <2>1. CASE d = signaling
      <3>1. macClient'[d] = CloseClient(macClient[d])
        BY <2>1 DEF DropClient
      <3>2. /\ CloseClient(macClient[d]) \in MacClientRec
            /\ CloseClient(macClient[d]).socket = "none"
            /\ CloseClient(macClient[d]).closed = TRUE
        BY ClosedRecord DEF MacClientTypes, MacAlone
      <3> QED BY <3>1, <3>2
    <2>2. CASE d # signaling
      BY <2>2 DEF DropClient, MacClientTypes, MacAlone
    <2> QED BY <2>1, <2>2
  <1>2. macClient' = [d \in MacClient |-> macClient'[d]]
    BY DEF DropClient
  <1>3. macClient' \in [MacClient -> MacClientRec]
    BY <1>1, <1>2
  <1> QED BY <1>1, <1>3 DEF NoClientLeft, DropClient

(***************************************************************************)
(* What the Mac shows, and what keeps it trying, after each kind of step.  *)
(***************************************************************************)

\* When the clients stay as they are, the status is honest and the Mac alive after the step if the
\* status does not turn connected, and a retry or a connect task is left to the Mac that wants to be kept.
LEMMA SameTries ==
    ASSUME MacInv, SameClients, MacWanted',
           macStatus' = "connected" => macStatus = "connected",
           shouldStayConnected' => \/ reconnectTask'
                                   \/ \E a \in Try : try'[a] \in {"start", "await", "failed"}
    PROVE  MacShown' /\ MacAlive'
  <1>1. shouldStayConnected' => reconnectTask' \/ \E a \in Try : try'[a] # "idle"
    OBVIOUS
  <1>2. signaling' # Nobody => shouldStayConnected'
    BY DEF MacWanted
  <1>3. macStatus' = "connected" => signaling' # Nobody /\ MacIsOpen(signaling)'
    BY DEF SameClients, MacInv, MacShown, MacIsOpen, MacClientTypes
  <1> QED BY <1>1, <1>2, <1>3 DEF MacShown, MacAlive, Useful

\* When the clients and the status stay as they are, a step that drops no retry and no useful
\* connect task keeps the Mac alive.
LEMMA SameKept ==
    ASSUME MacInv, SameClients,
           macStatus' = macStatus,
           shouldStayConnected' => shouldStayConnected,
           reconnectTask => reconnectTask',
           signaling # Nobody => \A a \in Try : try[a] # "idle" => try'[a] # "idle",
           \A a \in Try : Useful(try[a]) => Useful(try[a])'
    PROVE  MacShown' /\ MacAlive'
  <1>1. macStatus' = "connected" => signaling' # Nobody /\ MacIsOpen(signaling)'
    BY DEF SameClients, MacInv, MacShown, MacIsOpen, MacClientTypes
  <1>2. signaling' # Nobody => (MacIsOpen(signaling)' =>
            macStatus' = "connected" \/ reconnectTask' \/ \E a \in Try : try'[a] # "idle")
    BY DEF SameClients, MacInv, MacShown, MacIsOpen, MacClientTypes
  <1>3. MacAlive'
    BY DEF SameClients, MacInv, MacAlive, MacClientTypes
  <1> QED BY <1>1, <1>2, <1>3 DEF MacShown

\* A client just made is shown as connecting, and its socket is under way.
LEMMA CreatedShown ==
    ASSUME ClientCreated, macStatus' = "connecting"
    PROVE  MacShown' /\ MacAlive'
  BY NobodyAssumption DEF ClientCreated, MacShown, MacIsOpen, MacAlive

\* A disconnect leaves nothing open, shows as much and wants nothing.
LEMMA DroppedShown ==
    ASSUME NoClientLeft, macStatus' = "disconnected", shouldStayConnected' = FALSE
    PROVE  MacShown' /\ MacAlive'
  BY DEF NoClientLeft, MacShown, MacAlive

\* A lost socket is shown as lost, and the retry that follows keeps the Mac alive.
LEMMA LostShown ==
    ASSUME NEW c \in MacClient, ClientLost(c),
           macStatus' = "disconnected", reconnectTask' = TRUE
    PROVE  MacShown' /\ MacAlive'
  BY DEF ClientLost, MacShown, MacIsOpen, MacAlive

\* A socket that opens is the current client's, and shown as connected.
LEMMA OpensShown ==
    ASSUME NEW c \in MacClient, ClientOpens(c), macStatus' = "connected"
    PROVE  MacShown' /\ MacAlive'
  BY NobodyAssumption DEF ClientOpens, MacShown, MacIsOpen, MacAlive

(***************************************************************************)
(* Every action of the Mac keeps the invariant.                            *)
(***************************************************************************)

Fine == ClientsStep /\ MacTypes' /\ MacWanted' /\ MacShown' /\ MacAlive'

\* The counters of the Mac user's steps and of the faults stay within their bounds.
LEMMA MacCounted ==
    ASSUME MacTypes, MacUser \/ MacFault \/ UNCHANGED macCount
    PROVE  macSteps' \in 0..MaxMacUser /\ macFaults' \in 0..MaxMacFault
  BY MacBounds DEF MacTypes, MacUser, MacFault, macCount

\* A callback of a client that may find it lost.
LEMMA MarkedFine ==
    ASSUME MacInv, NEW c \in MacClient, NEW r \in MacClientRec, Alike(r, macClient[c]),
           MarkClosed(c, r), MacFault \/ UNCHANGED macCount
    PROVE  Fine
  <1> USE DEF MacInv
  <1>1. UNCHANGED <<account, shouldStayConnected, try, macAsked>>
    BY Marked
  <1>2. macSteps' \in 0..MaxMacUser /\ macFaults' \in 0..MaxMacFault
    BY MacCounted
  <1>3. CASE SameClients /\ UNCHANGED <<macStatus, reconnectTask>>
    <2>1. MacTypes' /\ MacWanted'
      BY <1>1, <1>2, <1>3 DEF account, MacTypes, MacWanted, SameClients
    <2>2. MacShown' /\ MacAlive'
      BY <1>1, <1>3, SameKept DEF account, Useful
    <2> QED BY <1>3, <2>1, <2>2 DEF Fine, ClientsStep
  <1>4. CASE ClientLost(c) /\ macStatus' = "disconnected" /\ reconnectTask' = TRUE
    <2>1. MacTypes' /\ MacWanted'
      BY <1>1, <1>2, <1>4 DEF account, MacTypes, MacWanted, ClientLost
    <2>2. MacShown' /\ MacAlive'
      BY <1>4, LostShown
    <2> QED BY <1>4, <2>1, <2>2 DEF Fine, ClientsStep
  <1> QED BY <1>3, <1>4, Marked

\* A step that only touches up one client.
LEMMA TouchedFine ==
    ASSUME MacInv, NEW c \in MacClient, NEW r \in MacClientRec,
           macClient' = [macClient EXCEPT ![c] = r],
           r.closed = macClient[c].closed, r.heard = macClient[c].heard,
           \/ r.socket = macClient[c].socket
           \/ macClient[c].socket = "open" /\ r.socket = "mute",
           UNCHANGED <<account, retry, macStatus, signaling, macAsked>>,
           MacUser \/ MacFault \/ UNCHANGED macCount
    PROVE  Fine
  <1> USE DEF MacInv
  <1>1. SameClients
    BY Swapped
  <1>2. macSteps' \in 0..MaxMacUser /\ macFaults' \in 0..MaxMacFault
    BY MacCounted
  <1>3. MacTypes' /\ MacWanted'
    BY <1>1, <1>2 DEF account, retry, MacTypes, MacWanted
  <1>4. MacShown' /\ MacAlive'
    BY <1>1, SameKept DEF account, retry, Useful
  <1> QED BY <1>1, <1>3, <1>4 DEF Fine, ClientsStep

\* What a client of the Mac does (open, close, go mute, ping, time out) keeps the invariant.
LEMMA ClientActionsFine ==
    ASSUME MacInv, NEW c \in MacClient,
           \/ MacOpens(c) \/ MacCloses(c) \/ LateCallback(c) \/ MacMutes(c)
           \/ Heartbeat(c) \/ Pong(c) \/ DeadlineUp(c)
    PROVE  Fine
  <1> USE DEF MacInv
  <1>0. macClient[c] \in MacClientRec /\ Alike(macClient[c], macClient[c])
    BY DEF MacClientTypes, Alike
  <1>1. CASE MacOpens(c)
    <2>1. /\ macClient[c].socket = "connecting"
          /\ macClient' = [macClient EXCEPT ![c] = [macClient[c] EXCEPT !.socket = "open"]]
          /\ macStatus' = IF macClient[c].heard THEN "connected" ELSE macStatus
          /\ UNCHANGED <<account, retry, signaling, macCount, macAsked>>
      BY <1>1 DEF MacOpens
    <2>2. c = signaling /\ macClient[c].heard = TRUE
      BY <1>0, <2>1 DEF MacAlone, MacClientRec
    <2>3. ClientOpens(c)
      BY <1>0, <2>1, <2>2, SocketRecord DEF ClientOpens, MacClientTypes
    <2>4. macStatus' = "connected"
      BY <2>1, <2>2
    <2>5. MacShown' /\ MacAlive'
      BY <2>3, <2>4, OpensShown
    <2>6. MacTypes' /\ MacWanted'
      BY <2>1, <2>4 DEF account, retry, macCount, MacTypes, MacWanted
    <2> QED BY <2>3, <2>5, <2>6 DEF Fine, ClientsStep
  <1>2. CASE MacCloses(c)
    BY <1>0, <1>2, MarkedFine DEF MacCloses
  <1>3. CASE LateCallback(c)
    <2>1. /\ [macClient[c] EXCEPT !.late = FALSE] \in MacClientRec
          /\ Alike([macClient[c] EXCEPT !.late = FALSE], macClient[c])
      BY <1>0, PingRecords
    <2> QED BY <1>3, <2>1, MarkedFine DEF LateCallback
  <1>4. CASE MacMutes(c)
    <2>1. /\ [macClient[c] EXCEPT !.socket = "mute"] \in MacClientRec
          /\ [macClient[c] EXCEPT !.socket = "mute"].socket = "mute"
          /\ [macClient[c] EXCEPT !.socket = "mute"].closed = macClient[c].closed
          /\ [macClient[c] EXCEPT !.socket = "mute"].heard = macClient[c].heard
      BY <1>0, SocketRecord
    <2>2. /\ macClient' = [macClient EXCEPT ![c] = [macClient[c] EXCEPT !.socket = "mute"]]
          /\ macClient[c].socket = "open" /\ MacFault
          /\ UNCHANGED <<account, retry, macStatus, signaling, macAsked>>
      BY <1>4 DEF MacMutes
    <2> QED BY <2>1, <2>2, TouchedFine
  <1>5. CASE Heartbeat(c)
    <2>1. Probed(macClient[c]) \in MacClientRec /\ Alike(Probed(macClient[c]), macClient[c])
      BY <1>0, PingRecords
    <2>2. /\ macClient' = [macClient EXCEPT ![c] = Probed(macClient[c])]
          /\ UNCHANGED <<account, retry, macStatus, signaling, macCount, macAsked>>
      BY <1>5 DEF Heartbeat
    <2> QED BY <2>1, <2>2, TouchedFine DEF Alike
  <1>6. CASE Pong(c)
    <2>1. /\ [macClient[c] EXCEPT !.awaitingPong = FALSE] \in MacClientRec
          /\ Alike([macClient[c] EXCEPT !.awaitingPong = FALSE], macClient[c])
      BY <1>0, PingRecords
    <2>2. /\ macClient' = [macClient EXCEPT ![c] = [macClient[c] EXCEPT !.awaitingPong = FALSE]]
          /\ UNCHANGED <<account, retry, macStatus, signaling, macCount, macAsked>>
      BY <1>6 DEF Pong
    <2> QED BY <2>1, <2>2, TouchedFine DEF Alike
  <1>7. CASE DeadlineUp(c)
    <2>1. PICK r : r = [macClient[c] EXCEPT !.deadlines = @ - 1]
      OBVIOUS
    <2>2. r \in MacClientRec /\ Alike(r, macClient[c])
      BY <1>0, <1>7, <2>1, PingRecords DEF DeadlineUp
    <2>3. CASE r.awaitingPong
      <3>1. MarkClosed(c, r) /\ (MacFault \/ UNCHANGED macCount)
        BY <1>7, <2>1, <2>3 DEF DeadlineUp
      <3> QED BY <2>2, <3>1, MarkedFine
    <2>4. CASE ~r.awaitingPong
      <3>1. /\ macClient' = [macClient EXCEPT ![c] = r]
            /\ UNCHANGED <<account, retry, macStatus, signaling, macCount, macAsked>>
        BY <1>7, <2>1, <2>4 DEF DeadlineUp
      <3> QED BY <2>2, <3>1, TouchedFine DEF Alike
    <2> QED BY <2>3, <2>4
  <1> QED BY <1>1, <1>2, <1>3, <1>4, <1>5, <1>6, <1>7

\* A step that leaves the clients alone leaves them as they were.
LEMMA Untouched ==
    ASSUME MacClientTypes, UNCHANGED <<signaling, macClient>>
    PROVE  SameClients
  BY DEF MacClientTypes, SameClients

\* A call of refreshThenConnectSignaling goes on: it connects, or a retry is due,
\* or it is superfluous.
LEMMA TryGoesOnFine ==
    ASSUME MacInv, NEW a \in Try, NEW token \in BOOLEAN, NEW asleep \in BOOLEAN,
           TryGoesOn(a, token, asleep),
           token /\ accessToken = "none" => ~Useful(try[a]),
           UNCHANGED <<account, macCount, macAsked>>
    PROVE  Fine
  <1> USE DEF MacInv
  <1>1. /\ try' = [try EXCEPT ![a] = "idle"]
        /\ try' \in [Try -> {"idle", "start", "await", "ok", "failed"}]
        /\ UNCHANGED <<accessToken, hasDevice, refreshTask, registering, macSteps, macFaults, macAsked>>
    BY DEF TryGoesOn, MacTypes, account, macCount
  <1>2. CASE ~(token /\ shouldStayConnected)
    <2>1. /\ UNCHANGED <<shouldStayConnected, signaling, macClient>>
          /\ macStatus' = IF token THEN macStatus ELSE "disconnected"
          /\ reconnectTask' = IF token THEN asleep ELSE ScheduleReconnect(asleep)
      BY <1>2 DEF TryGoesOn, StillStay
    <2>2. reconnectTask' \in BOOLEAN /\ (shouldStayConnected' => reconnectTask')
      BY <1>2, <2>1 DEF ScheduleReconnect, MacTypes
    <2>3. macStatus' \in {"disconnected", macStatus}
      BY <2>1
    <2>4. MacTypes'
      BY <1>1, <2>1, <2>2, <2>3 DEF MacTypes
    <2>5. MacWanted'
      BY <1>1, <2>1 DEF MacWanted
    <2>6. SameClients
      BY <2>1, Untouched
    <2>7. MacShown' /\ MacAlive'
      BY <2>2, <2>3, <2>5, <2>6, SameTries
    <2> QED BY <2>4, <2>5, <2>6, <2>7 DEF Fine, ClientsStep
  <1>3. CASE token /\ shouldStayConnected
    <2>1. ConnectSignaling(hasDevice) /\ hasDevice
      BY <1>3 DEF TryGoesOn, StillStay, MacWanted
    <2>2. CASE /\ accessToken = "none"
               /\ UNCHANGED <<shouldStayConnected, reconnectTask, macStatus, signaling, macClient>>
      <3>1. SameClients /\ signaling = Nobody /\ ~Useful(try[a])
        BY <1>3, <2>2, Untouched DEF MacWanted
      <3>2. \A b \in Try : Useful(try[b]) => Useful(try[b])'
        BY <1>1, <3>1 DEF Useful, MacTypes
      <3>3. MacShown' /\ MacAlive'
        BY <2>2, <3>1, <3>2, SameKept
      <3>4. MacTypes' /\ MacWanted'
        BY <1>1, <2>2 DEF MacTypes, MacWanted
      <3> QED BY <3>1, <3>3, <3>4 DEF Fine, ClientsStep
    <2>3. CASE /\ accessToken # "none"
               /\ shouldStayConnected' = TRUE /\ reconnectTask' = FALSE
               /\ macStatus' = "connecting" /\ ClientCreated
      <3>1. MacShown' /\ MacAlive'
        BY <2>3, CreatedShown
      <3>2. MacTypes'
        BY <1>1, <2>3 DEF MacTypes
      <3>3. macAsked /\ hasDevice /\ ~registering
        BY <1>3, <2>1 DEF MacWanted
      <3>4. MacWanted'
        BY <1>1, <2>3, <3>3 DEF MacWanted
      <3> QED BY <2>3, <3>1, <3>2, <3>4 DEF Fine, ClientsStep
    <2> QED BY <2>1, <2>2, <2>3, Connected
  <1> QED BY <1>2, <1>3

\* Starting a connect task keeps the invariant.
LEMMA BeginTryFine ==
    ASSUME MacInv, NEW a \in Try, NEW asleep \in BOOLEAN, BeginTry(a, asleep),
           UNCHANGED <<accessToken, hasDevice, registering, macCount, macAsked>>
    PROVE  Fine
  <1> USE DEF MacInv
  <1>1. CASE ~shouldStayConnected \/ ~hasDevice
    <2>1. /\ ~shouldStayConnected
          /\ try' = [try EXCEPT ![a] = "idle"] /\ reconnectTask' = asleep
          /\ UNCHANGED <<shouldStayConnected, macStatus, signaling, macClient, refreshTask>>
      BY <1>1 DEF BeginTry, MacWanted, macConn
    <2>2. SameClients
      BY <2>1, Untouched
    <2>3. MacTypes'
      BY <2>1 DEF MacTypes, macCount
    <2>4. MacWanted'
      BY <2>1 DEF MacWanted
    <2>5. MacShown' /\ MacAlive'
      BY <2>1, <2>2, <2>4, SameTries
    <2> QED BY <2>2, <2>3, <2>4, <2>5 DEF Fine, ClientsStep
  <1>2. CASE shouldStayConnected /\ hasDevice /\ accessToken = "old"
    <2>1. /\ try' = [try EXCEPT ![a] = "await"] /\ reconnectTask' = asleep
          /\ refreshTask' = TRUE /\ macStatus' = "connecting"
          /\ UNCHANGED <<shouldStayConnected, signaling, macClient>>
      BY <1>2 DEF BeginTry
    <2>2. SameClients
      BY <2>1, Untouched
    <2>3. MacTypes' /\ try'[a] = "await"
      BY <2>1 DEF MacTypes, macCount
    <2>4. MacWanted'
      BY <1>2, <2>1 DEF MacWanted
    <2>5. MacShown' /\ MacAlive'
      BY <2>1, <2>2, <2>3, <2>4, SameTries
    <2> QED BY <2>2, <2>3, <2>4, <2>5 DEF Fine, ClientsStep
  <1>3. CASE shouldStayConnected /\ hasDevice /\ accessToken # "old"
    <2>1. TryGoesOn(a, accessToken = "fresh", asleep) /\ refreshTask' = refreshTask
      BY <1>3 DEF BeginTry
    <2>2. UNCHANGED <<account, macCount, macAsked>>
      BY <2>1 DEF account
    <2>3. (accessToken = "fresh") \in BOOLEAN
      OBVIOUS
    <2>4. accessToken = "fresh" /\ accessToken = "none" => ~Useful(try[a])
      OBVIOUS
    <2> QED BY <2>1, <2>2, <2>3, <2>4, TryGoesOnFine
  <1> QED BY <1>1, <1>2, <1>3

\* A connect task's own steps, the retry and the reconnects keep the invariant.
LEMMA TryActionsFine ==
    ASSUME MacInv, NEW a \in Try,
           \/ TryStarts(a) \/ RetryFires(a) \/ TryResumes(a)
           \/ ConnectivityChanged(a) \/ MacReconnect(a)
    PROVE  Fine
  <1> USE DEF MacInv
  <1>1. CASE TryStarts(a)
    BY <1>1, BeginTryFine DEF TryStarts, MacTypes
  <1>2. CASE RetryFires(a)
    BY <1>2, BeginTryFine DEF RetryFires
  <1>3. CASE TryResumes(a)
    <2>1. PICK token \in BOOLEAN : token = (try[a] = "ok")
      OBVIOUS
    <2>2. TryGoesOn(a, token, reconnectTask) /\ reconnectTask \in BOOLEAN
      BY <1>3, <2>1 DEF TryResumes, MacTypes
    <2>3. token /\ accessToken = "none" => ~Useful(try[a])
      BY <2>1 DEF Useful
    <2>4. UNCHANGED <<account, macCount, macAsked>>
      BY <1>3 DEF TryResumes
    <2> QED BY <2>2, <2>3, <2>4, TryGoesOnFine
  <1>4. ASSUME Now(a), UNCHANGED <<account, macStatus, signaling, macClient>>,
               shouldStayConnected' \in {shouldStayConnected, TRUE},
               shouldStayConnected' => hasDevice /\ macAsked',
               macAsked => macAsked', macAsked' \in BOOLEAN, MacUser
        PROVE  Fine
    <2>1. SameClients
      BY <1>4, Untouched
    <2>2. /\ try' \in [Try -> {"idle", "start", "await", "ok", "failed"}]
          /\ try'[a] = "start" /\ reconnectTask' = FALSE
      BY <1>4 DEF Now, MacTypes
    <2>3. MacTypes'
      BY <1>4, <2>2, MacCounted DEF account, MacTypes
    <2>4. MacWanted'
      <3>1. UNCHANGED <<accessToken, hasDevice, refreshTask, registering, signaling>>
        BY <1>4 DEF account
      <3>2. shouldStayConnected => shouldStayConnected'
        BY <1>4
      <3>3. /\ signaling' # Nobody => shouldStayConnected' /\ accessToken' # "none"
            /\ hasDevice' => ~registering'
        BY <3>1, <3>2 DEF MacWanted
      <3>4. registering' /\ (accessToken' # "none" \/ refreshTask') => macAsked'
        BY <1>4, <3>1 DEF MacWanted
      <3>5. shouldStayConnected' => hasDevice' /\ macAsked'
        BY <1>4, <3>1
      <3> QED BY <3>3, <3>4, <3>5 DEF MacWanted
    <2>5. MacShown' /\ MacAlive'
      BY <1>4, <2>1, <2>2, <2>4, SameTries
    <2> QED BY <2>1, <2>3, <2>4, <2>5 DEF Fine, ClientsStep
  <1>5. CASE ConnectivityChanged(a)
    <2>1. CASE macStatus = "connected"
      <3>1. signaling \in MacClient /\ macClient[signaling] \in MacClientRec
        BY <2>1 DEF MacShown, MacClientTypes
      <3>2. /\ Probed(macClient[signaling]) \in MacClientRec
            /\ Alike(Probed(macClient[signaling]), macClient[signaling])
        BY <3>1, PingRecords
      <3>3. /\ macClient' = [macClient EXCEPT ![signaling] = Probed(macClient[signaling])]
            /\ UNCHANGED <<account, retry, macStatus, signaling, macAsked>>
            /\ MacUser
        BY <1>5, <2>1 DEF ConnectivityChanged, retry
      <3> QED BY <3>1, <3>2, <3>3, TouchedFine DEF Alike
    <2>2. CASE macStatus # "connected"
      <3>1. /\ Now(a) /\ MacUser
            /\ UNCHANGED <<account, shouldStayConnected, macStatus, signaling, macClient, macAsked>>
        BY <1>5, <2>2 DEF ConnectivityChanged
      <3> QED BY <1>4, <3>1 DEF MacWanted, MacTypes
    <2> QED BY <2>1, <2>2
  <1>6. CASE MacReconnect(a)
    <2>1. /\ Now(a) /\ MacUser /\ hasDevice
          /\ shouldStayConnected' = TRUE /\ macAsked' = TRUE
          /\ UNCHANGED <<account, macStatus, signaling, macClient>>
      BY <1>6 DEF MacReconnect, macConn
    <2> QED BY <1>4, <2>1
  <1> QED BY <1>1, <1>2, <1>3, <1>5, <1>6

\* Signing in or out, registering, and the end of a refresh or of a token's age.
LEMMA AccountActionsFine ==
    ASSUME MacInv,
           \/ \E ok \in BOOLEAN : RefreshEnds(ok)
           \/ MacDisconnect \/ MacSignIn \/ Registered \/ RegisterFails \/ MacSignOut \/ MacAges
    PROVE  Fine
  <1> USE DEF MacInv
  <1>1. ASSUME NEW ok \in BOOLEAN, RefreshEnds(ok)
        PROVE  Fine
    <2>1. /\ refreshTask = TRUE /\ refreshTask' = FALSE
          /\ accessToken' = IF ok THEN "fresh" ELSE accessToken
          /\ try' = [a \in Try |-> IF try[a] = "await" THEN (IF ok THEN "ok" ELSE "failed") ELSE try[a]]
          /\ UNCHANGED <<hasDevice, registering, shouldStayConnected, reconnectTask, macStatus,
                         signaling, macClient, macAsked>>
          /\ MacFault \/ UNCHANGED macCount
      BY <1>1 DEF RefreshEnds, macConn, MacTypes
    <2>2. SameClients
      BY <2>1, Untouched
    <2>3. MacTypes'
      BY <2>1, MacCounted DEF MacTypes
    <2>4. MacWanted'
      BY <2>1 DEF MacWanted
    <2>5. \A a \in Try : (try[a] # "idle" => try'[a] # "idle") /\ (Useful(try[a]) => Useful(try[a])')
      BY <2>1 DEF Useful
    <2>6. MacShown' /\ MacAlive'
      BY <2>1, <2>2, <2>5, SameKept
    <2> QED BY <2>2, <2>3, <2>4, <2>6 DEF Fine, ClientsStep
  <1>2. CASE MacDisconnect \/ MacSignOut
    <2>1. /\ DropClient /\ NoClientLeft
          /\ shouldStayConnected' = FALSE /\ reconnectTask' = FALSE
          /\ macStatus' = "disconnected" /\ signaling' = Nobody
          /\ UNCHANGED <<refreshTask, registering, try>>
          /\ MacUser
      BY <1>2, Dropped DEF MacDisconnect, MacSignOut, DropClient, account
    <2>2. CASE MacDisconnect
      <3>1. hasDevice /\ UNCHANGED <<accessToken, hasDevice>> /\ macAsked' = FALSE
        BY <2>2 DEF MacDisconnect, account
      <3>2. MacTypes'
        BY <2>1, <3>1, MacCounted DEF MacTypes
      <3>3. MacWanted'
        BY <2>1, <3>1 DEF MacWanted
      <3> QED BY <2>1, <3>2, <3>3, DroppedShown DEF Fine, ClientsStep
    <2>3. CASE MacSignOut
      <3>1. accessToken' = "none" /\ hasDevice' = FALSE /\ macAsked' = (registering /\ refreshTask)
        BY <2>3 DEF MacSignOut
      <3>2. MacTypes'
        BY <2>1, <3>1, MacCounted DEF MacTypes
      <3>3. MacWanted'
        BY <2>1, <3>1 DEF MacWanted
      <3> QED BY <2>1, <3>2, <3>3, DroppedShown DEF Fine, ClientsStep
    <2> QED BY <1>2, <2>2, <2>3
  <1>3. ASSUME UNCHANGED <<shouldStayConnected, reconnectTask, try, macStatus, signaling, macClient>>,
               accessToken # "none" => accessToken' # "none",
               MacTypes', MacWanted'
        PROVE  Fine
    <2>1. SameClients
      BY <1>3, Untouched
    <2>2. \A a \in Try : Useful(try[a]) => Useful(try[a])'
      BY <1>3 DEF Useful
    <2>3. MacShown' /\ MacAlive'
      BY <1>3, <2>1, <2>2, SameKept
    <2> QED BY <1>3, <2>1, <2>3 DEF Fine, ClientsStep
  <1>4. CASE MacSignIn
    <2>1. /\ UNCHANGED <<shouldStayConnected, reconnectTask, try, macStatus, signaling, macClient>>
          /\ UNCHANGED <<hasDevice, refreshTask>> /\ ~hasDevice
          /\ accessToken' = "fresh" /\ registering' = TRUE /\ macAsked' = TRUE /\ MacUser
      BY <1>4 DEF MacSignIn, retry, macConn
    <2>2. MacTypes'
      BY <2>1, MacCounted DEF MacTypes
    <2>3. MacWanted'
      BY <2>1 DEF MacWanted
    <2> QED BY <1>3, <2>1, <2>2, <2>3
  <1>5. CASE RegisterFails
    <2>1. /\ UNCHANGED <<shouldStayConnected, reconnectTask, try, macStatus, signaling, macClient>>
          /\ UNCHANGED <<accessToken, hasDevice, refreshTask, macAsked>>
          /\ registering' = FALSE /\ MacFault
      BY <1>5 DEF RegisterFails, retry, macConn
    <2>2. MacTypes'
      BY <2>1, MacCounted DEF MacTypes
    <2>3. MacWanted'
      BY <2>1 DEF MacWanted
    <2> QED BY <1>3, <2>1, <2>2, <2>3
  <1>6. CASE MacAges
    <2>1. /\ UNCHANGED <<shouldStayConnected, reconnectTask, try, macStatus, signaling, macClient>>
          /\ UNCHANGED <<hasDevice, refreshTask, registering, macAsked>>
          /\ accessToken = "fresh" /\ accessToken' = "old" /\ MacFault
      BY <1>6 DEF MacAges, retry, macConn
    <2>2. MacTypes'
      BY <2>1, MacCounted DEF MacTypes
    <2>3. MacWanted'
      BY <2>1 DEF MacWanted
    <2> QED BY <1>3, <2>1, <2>2, <2>3
  <1>7. CASE Registered
    <2>1. /\ registering = TRUE /\ registering' = FALSE /\ hasDevice' = TRUE
          /\ UNCHANGED <<accessToken, refreshTask, try, macSteps, macFaults, macAsked>>
          /\ ConnectSignaling(TRUE)
      BY <1>7 DEF Registered, macCount, MacTypes
    <2>2. CASE UNCHANGED <<shouldStayConnected, reconnectTask, macStatus, signaling, macClient>>
      <3>1. MacTypes'
        BY <2>1, <2>2 DEF MacTypes
      <3>2. MacWanted'
        BY <2>1, <2>2 DEF MacWanted
      <3> QED BY <1>3, <2>1, <2>2, <3>1, <3>2
    <2>3. CASE /\ accessToken # "none"
               /\ shouldStayConnected' = TRUE /\ reconnectTask' = FALSE
               /\ macStatus' = "connecting" /\ ClientCreated
      <3>1. MacShown' /\ MacAlive'
        BY <2>3, CreatedShown
      <3>2. MacTypes'
        BY <2>1, <2>3 DEF MacTypes
      <3>3. macAsked = TRUE
        BY <2>1, <2>3 DEF MacWanted, MacTypes
      <3>4. MacWanted'
        BY <2>1, <2>3, <3>3 DEF MacWanted
      <3> QED BY <2>3, <3>1, <3>2, <3>4 DEF Fine, ClientsStep
    <2>4. \/ UNCHANGED <<shouldStayConnected, reconnectTask, macStatus, signaling, macClient>>
          \/ /\ accessToken # "none"
             /\ shouldStayConnected' = TRUE /\ reconnectTask' = FALSE
             /\ macStatus' = "connecting" /\ ClientCreated
      BY <2>1, Connected
    <2> QED BY <2>2, <2>3, <2>4
  <1> QED BY <1>1, <1>2, <1>4, <1>5, <1>6, <1>7

\* Every action of the Mac keeps the invariant.
LEMMA MacActionsFine ==
    ASSUME MacInv, MacNext
    PROVE  Fine
  BY ClientActionsFine, TryActionsFine, AccountActionsFine DEF MacNext

\* The Mac starts with no client, nothing to keep and nothing counted.
LEMMA MacInvInit ==
    ASSUME MacInit
    PROVE  MacInv
  <1>1. MacClientTypes /\ MacAlone
    BY MacRecords DEF MacInit, MacClientTypes, MacAlone
  <1>2. MacTypes
    <2>1. macSteps \in 0..MaxMacUser /\ macFaults \in 0..MaxMacFault
      BY MacBounds DEF MacInit
    <2>2. try \in [Try -> {"idle", "start", "await", "ok", "failed"}]
      BY DEF MacInit
    <2> QED BY <2>1, <2>2 DEF MacInit, MacTypes
  <1>3. MacWanted /\ MacShown /\ MacAlive
    BY DEF MacInit, MacWanted, MacShown, MacAlive
  <1> QED BY <1>1, <1>2, <1>3 DEF MacInv

\* The Mac's invariant is inductive.
LEMMA MacInvStep ==
    ASSUME MacInv, MacNext \/ UNCHANGED mac
    PROVE  MacInv'
  <1>1. CASE MacNext
    BY <1>1, MacActionsFine, ClientsInvStep DEF Fine, MacInv
  <1>2. CASE UNCHANGED mac
    BY <1>2 DEF mac, account, retry, macConn, macCount, MacInv, MacClientTypes, MacAlone,
                MacTypes, MacWanted, MacShown, MacIsOpen, MacAlive, Useful
  <1> QED BY <1>1, <1>2

(***************************************************************************)
(* The refinement of KeptConnection, for the Mac.                          *)
(***************************************************************************)

MacLives ==
    /\ MacPhase \in {"off", "waiting", "trying", "up"}
    /\ \A c \in MacClient : macClient[c].socket # "none" => MacPhase \in {"trying", "up"}

\* A Mac that wants to be kept has an open socket, a retry, or a connect task under way.
LEMMA MacNotDead == MacInv => MacLives
  <1> SUFFICES ASSUME MacInv PROVE MacLives
    OBVIOUS
  <1> USE DEF MacInv
  <1>1. ASSUME NEW c \in MacClient, macClient[c].socket # "none"
        PROVE  MacPhase \in {"trying", "up"}
    <2>1. shouldStayConnected /\ accessToken # "none"
      BY <1>1, NobodyAssumption DEF MacAlone, MacWanted
    <2>2. macClient[c].socket = "connecting" \/ MacIsOpen(c)
      BY <1>1 DEF MacClientTypes, MacClientRec, MacIsOpen
    <2> QED BY <2>1, <2>2 DEF MacPhase
  <1>2. MacPhase \in {"off", "waiting", "trying", "up"}
    <2>1. CASE ~shouldStayConnected \/ accessToken = "none"
      BY <2>1 DEF MacPhase
    <2>2. CASE signaling # Nobody /\ macClient[signaling].socket # "none"
      BY <1>1, <2>2 DEF MacClientTypes
    <2>3. CASE reconnectTask \/ \E a \in Try : Useful(try[a])
      BY <2>3 DEF MacPhase, Useful
    <2> QED BY <2>1, <2>2, <2>3 DEF MacAlive
  <1> QED BY <1>1, <1>2 DEF MacLives

\* A Mac that is up after a step had a socket before it: no step makes a socket that is open at once.
LEMMA MacOpensFromTry ==
    ASSUME MacInv, ClientsStep, MacPhase' = "up"
    PROVE  \E c \in MacClient : macClient[c].socket # "none"
  <1>1. PICK c \in MacClient : macClient'[c].socket \in {"open", "mute"}
    BY DEF MacPhase, MacIsOpen
  <1>2. CASE SameClients
    BY <1>1, <1>2 DEF SameClients
  <1>3. CASE NoClientLeft \/ ClientCreated
    BY <1>1, <1>3 DEF NoClientLeft, ClientCreated
  <1>4. ASSUME NEW d \in MacClient, ClientLost(d) \/ ClientOpens(d)
        PROVE  \E b \in MacClient : macClient[b].socket # "none"
    <2>1. CASE c = d
      BY <1>1, <1>4, <2>1 DEF ClientLost, ClientOpens
    <2>2. CASE c # d
      <3>1. macClient'[c] = macClient[c]
        BY <1>4, <2>2 DEF ClientLost, ClientOpens
      <3> QED BY <1>1, <3>1
    <2> QED BY <2>1, <2>2
  <1> QED BY <1>2, <1>3, <1>4 DEF ClientsStep

\* Every step of the Mac is a step, or a stutter, of the connection that is kept.
LEMMA MacStepRefines ==
    ASSUME MacInv, MacNext \/ UNCHANGED mac
    PROVE  [MacKeeps!Next]_MacPhase
  <1>1. CASE MacNext
    <2>1. MacInv'
      BY <1>1, MacInvStep
    <2>2. MacLives
      BY MacNotDead
    <2>3. MacLives'
      BY <2>1, MacNotDead, PTL
    <2>4. MacPhase' = "up" => MacPhase \in {"trying", "up"}
      BY <1>1, <2>2, MacActionsFine, MacOpensFromTry DEF Fine, MacLives
    <2>5. /\ MacPhase \in {"off", "waiting", "trying", "up"}
          /\ MacPhase' \in {"off", "waiting", "trying", "up"}
      BY <2>2, <2>3 DEF MacLives
    <2> QED
      BY <2>4, <2>5
        DEF MacKeeps!Next, MacKeeps!Ask, MacKeeps!Stop, MacKeeps!Again,
            MacKeeps!Opens, MacKeeps!Misses
  <1>2. CASE UNCHANGED mac
    BY <1>2 DEF mac, account, retry, macConn, MacPhase, MacIsOpen
  <1> QED BY <1>1, <1>2

-----------------------------------------------------------------------------
(***************************************************************************)
(* The theorems, of both apps.                                             *)
(***************************************************************************)

BothInv == PhoneInv /\ MacInv

\* A step of the composition is a step or a stutter of each of the two devices.
LEMMA BothStep ==
    ASSUME [Next]_vars
    PROVE  /\ PhoneNext \/ UNCHANGED phone
           /\ MacNext \/ UNCHANGED mac
  BY DEF Next, vars

\* The two inductive invariants hold in every reachable state.
THEOREM Invariance == Spec => []BothInv
  <1>1. Init => BothInv
    BY PhoneInvInit, MacInvInit DEF Init, BothInv
  <1>2. BothInv /\ [Next]_vars => BothInv'
    BY BothStep, PhoneInvStep, MacInvStep DEF BothInv
  <1> QED BY <1>1, <1>2, PTL DEF Spec

\* Every variable of either app keeps its type.
THEOREM TypeCorrect == Spec => []TypeOK
  <1>1. BothInv => TypeOK
    <2> SUFFICES ASSUME BothInv PROVE TypeOK
      OBVIOUS
    <2>1. PhoneTypeOK
      BY DEF BothInv, PhoneInv, ConnInv, ConnTypes, RestTypes, PhoneTypeOK
    <2>2. MacTypeOK
      BY DEF BothInv, MacInv, MacClientTypes, MacTypes, MacTypeOK
    <2> QED BY <2>1, <2>2 DEF TypeOK
  <1> QED BY <1>1, Invariance, PTL

\* Neither app ever has two live sockets, however many attempts overlap.
THEOREM OneSocketEach == Spec => []OneSocket
  <1>1. BothInv => OneSocket
    BY DEF BothInv, PhoneInv, ConnInv, AloneConnected, MacInv, MacAlone, OneSocket
  <1> QED BY <1>1, Invariance, PTL

\* Either app shows a connection exactly where it has one, or is about to
\* replace the one it has.
THEOREM ShownAsItIs == Spec => []StatusHonest
  <1>1. BothInv => StatusHonest
    BY DEF BothInv, PhoneInv, ConnInv, ShownIsOpen, MacInv, MacShown, StatusHonest
  <1> QED BY <1>1, Invariance, PTL

\* Signing out, or disconnecting, is final: no call that was waiting connects again.
THEOREM OffForGood == Spec => []SignedOutStaysOff
  <1>1. BothInv => SignedOutStaysOff
    <2> SUFFICES ASSUME BothInv PROVE SignedOutStaysOff
      OBVIOUS
    <2>1. ~signedIn /\ onPurpose => ~wantConnected
      BY DEF BothInv, PhoneInv, LeftForGood
    <2>2. ~wantConnected => \A c \in Client : client[c].socket = "none"
      BY NoneAssumption
        DEF BothInv, PhoneInv, ConnInv, ConnTypes, AloneConnected, WantedHasClient
    <2>3. shouldStayConnected => macAsked
      BY DEF BothInv, MacInv, MacWanted
    <2>4. ~shouldStayConnected => \A c \in MacClient : macClient[c].socket = "none"
      BY NobodyAssumption DEF BothInv, MacInv, MacAlone, MacWanted
    <2> QED BY <2>1, <2>2, <2>3, <2>4 DEF SignedOutStaysOff
  <1> QED BY <1>1, Invariance, PTL

\* The safety part of PhoneKept: every step of the iPhone is one that
\* KeptConnection allows, so a wanted connection is never left for dead.
THEOREM PhoneRefinesKept == Spec => PhoneKeeps!Init /\ [][PhoneKeeps!Next]_PhonePhase
  <1>1. Init => PhoneKeeps!Init
    BY DEF Init, PhoneInit, PhoneKeeps!Init, PhonePhase
  <1>2. BothInv /\ [Next]_vars => [PhoneKeeps!Next]_PhonePhase
    BY BothStep, PhoneStepRefines DEF BothInv
  <1> QED BY <1>1, <1>2, Invariance, PTL DEF Spec

\* The safety part of MacKept.
THEOREM MacRefinesKept == Spec => MacKeeps!Init /\ [][MacKeeps!Next]_MacPhase
  <1>1. Init => MacKeeps!Init
    BY DEF Init, MacInit, MacKeeps!Init, MacPhase
  <1>2. BothInv /\ [Next]_vars => [MacKeeps!Next]_MacPhase
    BY BothStep, MacStepRefines DEF BothInv
  <1> QED BY <1>1, <1>2, Invariance, PTL DEF Spec

-----------------------------------------------------------------------------
(***************************************************************************)
(* Devices.  The inductive invariant follows a device of the account from  *)
(* the run that registered or checked it to the socket, on the iPhone only *)
(* while nothing of an earlier sign-in is about; on the Mac from the job   *)
(* to the id in memory, until another account's refresh is answered.       *)
(***************************************************************************)

\* The device d is there and the account a's; or it was and has been deleted.
Owns(a, d) == d \in DeviceId /\ device[d].is = "there" /\ device[d].owner = a
Had(a, d)  == d \in DeviceId /\ device[d].is # "unused" /\ device[d].owner = a

\* Nothing of an earlier sign-in is about, and the list of devices was loaded.
Calm == upset \cap {"unchecked", "overtaken"} = {}

\* A run that has a device of its account, which it is about to connect as.
HasDevice(e) == run[e].at \in {"keep", "name", "list", "pairs", "show"}

RunsKnow ==
    /\ \A e, f \in Run : Active(e) /\ Active(f) => e = f
    /\ \A e \in Run : HasDevice(e) => Owns(run[e].as, run[e].id)
    /\ \A e \in Run : run[e].at \in {"pairs", "show"} => asDevice = run[e].id
    /\ user # Nothing => \A e \in Run : Active(e) => run[e].as = user /\ run[e].mounted

SocketKnows ==
    wanted => /\ socket.id = asDevice /\ Owns(socket.as, asDevice)
              /\ user # Nothing => socket.as = user

\* The ids that are on their way to the screen.
PairsRead ==
    user # Nothing /\ upset \cap {"unlisted", "late"} = {} =>
        \A e \in Run : run[e].at = "show" => (run[e].ids = "has" <=> asDevice \in paired)

PairsLoaded ==
    user # Nothing /\ pairIds # "empty" =>
        /\ \A e \in Run : ~Active(e)
        /\ Owns(user, asDevice)
        /\ upset \cap {"unlisted", "late"} = {} => (pairIds = "has" <=> asDevice \in paired)

PhoneOwns ==
    /\ ~wanted => socket = NoSocket
    /\ user = Nothing => pairIds = "empty" /\ \A e \in Run : ~run[e].mounted
    /\ Calm => RunsKnow /\ SocketKnows /\ PairsRead /\ PairsLoaded

\* What an answer to another account's refresh leaves as it is ...
MacStages ==
    /\ ~macWanted => macSocket = NoSocket
    /\ stage \in {"off", "launching"} => ~settingsOpen /\ (job.at # "restore" => ~macWanted)
    /\ stage = "off" => job.at = "idle"
    /\ stage = "onboarding" /\ onboarding = "signIn" /\ job.at # "restore" => ~macWanted
    /\ job.at \in {"refresh", "check"} => job.boot
    /\ job.at # "idle" => (job.boot <=> stage = "launching")
    /\ macWanted => macAccount # Nothing

\* ... and what it does not.
NoneOvertook == "overtaken" \notin macUpset
MacKnows ==
    /\ macWanted => macSocket.as = macAccount /\ Had(macAccount, macSocket.id)
    /\ macWanted /\ macDevice # Nothing => Had(macAccount, macDevice)
    /\ job.at # "idle" /\ ~job.boot /\ macAccount # Nothing => stage = "onboarding" /\ onboarding = "nameMac"
    /\ job.at \in {"check", "register", "again"} /\ macAccount # Nothing => job.as = macAccount

MacOwns == MacStages /\ (NoneOvertook => MacKnows)

\* Identifiers in use have been minted.
IdentsMinted  == \A d \in DeviceId : device[d].is # "unused" => device[d].ident \in minted
PhoneMinted   == /\ keptIdent # Nothing => keptIdent \in minted
                 /\ \A e \in Run : run[e].at \in {"mint", "register"} => run[e].ident \in minted
MacMinted     == /\ macKept.ident # Nothing => macKept.ident \in minted
                 /\ job.at \in {"register", "again"} => job.ident \in minted

\* An identifier that was minted because another was refused is refused by nobody.
PhoneRetries ==
    /\ \A e \in Run : run[e].again => run[e].at \notin {"token", "cached", "check"}
    /\ Calm => \A e \in Run : run[e].again => /\ (run[e].at = "ident" => keptIdent = Nothing)
                                              /\ (run[e].at \in {"mint", "register"} => With(run[e].ident) = {})
MacRetries == job.at = "again" => With(job.ident) = {}

TableInv == TableTypeOK /\ IdentsMinted
PhoneDeviceInv == PhoneDevicesTypeOK /\ PhoneMinted /\ PhoneRetries /\ PhoneOwns
MacDeviceInv   == MacDevicesTypeOK /\ MacMinted /\ MacRetries /\ MacOwns

DevicesInv ==
    /\ TableInv /\ PhoneDeviceInv /\ MacDeviceInv
    /\ \/ app = "phone" /\ MacDevicesInit
       \/ app = "mac" /\ PhoneDevicesInit

\* The same of the next state.
WillOwn(a, d) == d \in DeviceId /\ device'[d].is = "there" /\ device'[d].owner = a
WillHave(i)   == {d \in DeviceId : device'[d].is = "there" /\ device'[d].ident = i}

\* What a step does to the table: rows are added, for identifiers that were minted,
\* or deleted, and nothing else changes.
TableGrows ==
    /\ TableInv' /\ minted \subseteq minted'
    /\ \A a \in Account \cup {Nothing}, d \in DeviceId : Owns(a, d) => WillOwn(a, d)

LEMMA TableSame ==
    ASSUME TableInv, UNCHANGED device, minted \subseteq minted', minted' \subseteq Ident
    PROVE  TableGrows /\ \A i : With(i) = {} => WillHave(i) = {}
  BY DEF TableInv, TableTypeOK, IdentsMinted, TableGrows, Owns, WillOwn, With, WillHave

\* A device that is registered is the account's, and no row changes but a new one.
LEMMA TableCreates ==
    ASSUME TableInv, UNCHANGED minted,
           NEW a \in Account \cup {Nothing}, NEW i \in minted, NEW d \in DeviceId, Creates(a, i, d)
    PROVE  /\ TableGrows
           /\ WillOwn(a, d)
           /\ \A b, x : Had(b, x) => Had(b, x)'
  <1> USE DEF TableInv, TableTypeOK
  <1>1. CASE d \in Adoptable(a, i) /\ UNCHANGED device
    BY <1>1 DEF IdentsMinted, TableGrows, Owns, WillOwn, Adoptable, Listed, With, Had
  <1>2. CASE /\ With(i) = {} /\ d \in NextOf(Unassigned)
             /\ device' = [device EXCEPT ![d] = [is |-> "there", owner |-> a, ident |-> i]]
    <2>1. device[d].is = "unused"
      BY <1>2 DEF NextOf, Unassigned
    <2>2. [is |-> "there", owner |-> a, ident |-> i] \in RowRec
      BY DEF RowRec
    <2>3. device' \in [DeviceId -> RowRec]
      BY <1>2, <2>2
    <2>4. /\ device'[d] = [is |-> "there", owner |-> a, ident |-> i]
          /\ \A x \in DeviceId : x # d => device'[x] = device[x]
      BY <1>2
    <2>5. WillOwn(a, d)
      BY <2>4 DEF WillOwn
    <2>6. IdentsMinted'
      BY <2>4 DEF IdentsMinted
    <2>7. \A b \in Account \cup {Nothing}, x \in DeviceId : Owns(b, x) => WillOwn(b, x)
      BY <2>1, <2>4 DEF Owns, WillOwn
    <2>8. \A b, x : Had(b, x) => Had(b, x)'
      BY <2>1, <2>4 DEF Had
    <2> QED BY <2>3, <2>5, <2>6, <2>7, <2>8 DEF TableGrows
  <1> QED BY <1>1, <1>2 DEF Creates

-----------------------------------------------------------------------------
(***************************************************************************)
(* The iPhone.                                                             *)
(***************************************************************************)

Places == {"idle", "token", "cached", "check", "ident", "mint", "register", "forget",
           "keep", "name", "list", "pairs", "show"}

LEMMA RunTypes ==
    ASSUME run \in [Run -> RunRec], NEW e \in Run
    PROVE  /\ run[e].at \in Places /\ run[e].as \in Account \cup {Nothing}
           /\ run[e].id \in DeviceId \cup {Nothing} /\ run[e].ident \in Ident \cup {Nothing}
           /\ run[e].again \in BOOLEAN /\ run[e].mounted \in BOOLEAN /\ run[e].ids \in {"none", "has"}
  BY DEF RunRec, Places

OthersStay(e) == run' \in [Run -> RunRec] /\ \A f \in Run : f # e => run'[f] = run[f]

\* The run e alone goes on, to at, for its account or the one that is signed in; it
\* has the device id and the identifier ident.
Advances(e, at, id, ident, again) ==
    /\ OthersStay(e)
    /\ run'[e].at = at /\ run'[e].id = id /\ run'[e].ident = ident /\ run'[e].again = again
    /\ run'[e].as = run[e].as \/ (user # Nothing /\ run'[e].as = user)
    /\ run'[e].mounted = run[e].mounted

LEMMA AdvancesAt ==
    ASSUME run \in [Run -> RunRec], NEW e \in Run, NEW at \in Places, Goes(e, at)
    PROVE  Advances(e, at, run[e].id, run[e].ident, run[e].again)
  <1>1. [run[e] EXCEPT !.at = at] \in RunRec
    BY DEF RunRec, Places
  <1> QED BY <1>1 DEF Goes, Advances, OthersStay

LEMMA AdvancesId ==
    ASSUME run \in [Run -> RunRec], NEW e \in Run, NEW at \in Places, NEW id \in DeviceId \cup {Nothing},
           run' = [run EXCEPT ![e].id = id, ![e].at = at]
    PROVE  Advances(e, at, id, run[e].ident, run[e].again)
  <1>1. [run[e] EXCEPT !.id = id, !.at = at] \in RunRec
    BY DEF RunRec, Places
  <1> QED BY <1>1 DEF Advances, OthersStay

LEMMA AdvancesAs ==
    ASSUME run \in [Run -> RunRec], NEW e \in Run, NEW at \in Places, NEW id \in DeviceId \cup {Nothing},
           user \in Account, user # Nothing, run' = [run EXCEPT ![e].as = user, ![e].id = id, ![e].at = at]
    PROVE  Advances(e, at, id, run[e].ident, run[e].again)
  <1>1. [run[e] EXCEPT !.as = user, !.id = id, !.at = at] \in RunRec
    BY DEF RunRec, Places
  <1> QED BY <1>1 DEF Advances, OthersStay

LEMMA AdvancesIds ==
    ASSUME run \in [Run -> RunRec], NEW e \in Run, NEW at \in Places, NEW ids \in {"none", "has"},
           run' = [run EXCEPT ![e].at = at, ![e].ids = ids]
    PROVE  Advances(e, at, run[e].id, run[e].ident, run[e].again) /\ run'[e].ids = ids
  <1>1. [run[e] EXCEPT !.at = at, !.ids = ids] \in RunRec
    BY DEF RunRec, Places
  <1> QED BY <1>1 DEF Advances, OthersStay

LEMMA AdvancesIdent ==
    ASSUME run \in [Run -> RunRec], NEW e \in Run, NEW at \in Places, NEW i \in Ident,
           run' = [run EXCEPT ![e].ident = i, ![e].at = at]
    PROVE  Advances(e, at, run[e].id, i, run[e].again)
  <1>1. [run[e] EXCEPT !.ident = i, !.at = at] \in RunRec
    BY DEF RunRec, Places
  <1> QED BY <1>1 DEF Advances, OthersStay

LEMMA AdvancesAgain ==
    ASSUME run \in [Run -> RunRec], NEW e \in Run, NEW at \in Places,
           run' = [run EXCEPT ![e].at = at, ![e].again = TRUE]
    PROVE  Advances(e, at, run[e].id, run[e].ident, TRUE)
  <1>1. [run[e] EXCEPT !.at = at, !.again = TRUE] \in RunRec
    BY DEF RunRec, Places
  <1> QED BY <1>1 DEF Advances, OthersStay

LEMMA HasEnded ==
    ASSUME run \in [Run -> RunRec], NEW e \in Run, run' = [run EXCEPT ![e] = Ended]
    PROVE  OthersStay(e) /\ run'[e] = Ended
  <1>1. Ended \in RunRec
    BY DEF Ended, RunRec
  <1> QED BY <1>1 DEF OthersStay

\* The rest of what a run's step may do, besides going on or ending: the sign-in
\* stays, and what the store connects with is known to be the account's.
StepKeeps ==
    /\ TableGrows
    /\ UNCHANGED <<tokens, pairIds, paired>>
    /\ upset \subseteq upset' /\ upset' \subseteq Upsets
    /\ {thisDevice', keptId', asDevice'} \subseteq DeviceId \cup {Nothing}
    /\ keptIdent' \in Ident \cup {Nothing} /\ (keptIdent' # Nothing => keptIdent' \in minted')
    /\ wanted' \in BOOLEAN /\ socket' \in Presented
    /\ ~wanted' => socket' = NoSocket
    /\ Calm' => SocketKnows'

LEMMA CalmGoesOn ==
    ASSUME upset \subseteq upset', Calm'
    PROVE  Calm
  BY DEF Calm

\* The steps of a run that leave the socket alone.
LEMMA SocketStays ==
    ASSUME PhoneDeviceInv, TableGrows, UNCHANGED <<tokens, wanted, asDevice, socket, pairIds, paired>>,
           upset \subseteq upset', upset' \subseteq Upsets,
           {thisDevice', keptId'} \subseteq DeviceId \cup {Nothing}, keptIdent' \in Ident \cup {Nothing},
           keptIdent' # Nothing => keptIdent' \in minted'
    PROVE  StepKeeps
  <1> USE DEF PhoneDeviceInv, PhoneDevicesTypeOK, PhoneOwns, tokens
  <1>1. socket' \in Presented /\ wanted' \in BOOLEAN /\ (~wanted' => socket' = NoSocket)
    OBVIOUS
  <1>2. ASSUME Calm' PROVE SocketKnows'
    <2>1. SocketKnows
      BY <1>2, CalmGoesOn
    <2>2. wanted => socket.as \in Account \cup {Nothing}
      BY DEF Presented
    <2> QED BY <2>1, <2>2 DEF SocketKnows, TableGrows, Owns, WillOwn
  <1> QED BY <1>1, <1>2 DEF StepKeeps

\* A run that goes on keeps the invariant, if it knows at its new place what a run there knows.
LEMMA RunGoesOn ==
    ASSUME TableInv, PhoneDeviceInv, StepKeeps, NEW e \in Run, Active(e),
           NEW at \in Places \ {"idle"}, NEW id \in DeviceId \cup {Nothing},
           NEW ident \in Ident \cup {Nothing}, NEW again \in BOOLEAN,
           Advances(e, at, id, ident, again),
           at \in {"mint", "register"} => ident \in minted',
           again => at \notin {"token", "cached", "check"},
           Calm' /\ at \in {"keep", "name", "list", "pairs", "show"} => WillOwn(run[e].as, id),
           Calm' /\ at \in {"pairs", "show"} => asDevice' = id,
           Calm' /\ at = "show" /\ user # Nothing /\ upset' \cap {"unlisted", "late"} = {}
              => (run'[e].ids = "has" <=> asDevice' \in paired'),
           Calm' /\ again /\ at = "ident" => keptIdent' = Nothing,
           Calm' /\ again /\ at \in {"mint", "register"} => WillHave(ident) = {}
    PROVE  PhoneDeviceInv'
  <1> USE DEF PhoneDeviceInv, tokens
  <1>1. PhoneDevicesTypeOK'
    BY DEF PhoneDevicesTypeOK, StepKeeps, Advances, OthersStay
  <1>2. PhoneMinted'
    BY DEF PhoneMinted, StepKeeps, TableGrows, Advances, OthersStay
  <1>3. /\ ~wanted' => socket' = NoSocket
        /\ user' = Nothing => pairIds' = "empty" /\ \A f \in Run : ~run'[f].mounted
    BY DEF PhoneOwns, StepKeeps, Advances, OthersStay
  <1>4. ASSUME Calm'
        PROVE  /\ RunsKnow' /\ PairsRead' /\ PairsLoaded'
               /\ \A f \in Run : run'[f].again => /\ (run'[f].at = "ident" => keptIdent' = Nothing)
                                                  /\ (run'[f].at \in {"mint", "register"} => WillHave(run'[f].ident) = {})
    <2>1. Calm
      BY <1>4, CalmGoesOn DEF StepKeeps
    <2>2. RunsKnow /\ PairsLoaded
      BY <2>1 DEF PhoneOwns
    <2>3. \A f \in Run : f # e => run'[f].at = "idle"
      BY <2>2 DEF RunsKnow, Advances, OthersStay, Active
    <2>7. user # Nothing => run'[e].as = user /\ run[e].as = user
      BY <2>2 DEF RunsKnow, Advances
    <2>8. user = Nothing => run'[e].as = run[e].as
      BY DEF Advances
    <2>9. run'[e].as = run[e].as /\ run'[e].at = at /\ run'[e].id = id /\ run'[e].mounted = run[e].mounted
      BY <2>7, <2>8 DEF Advances
    <2>4. RunsKnow'
      BY <1>4, <2>2, <2>3, <2>9 DEF RunsKnow, HasDevice, Active, Owns, WillOwn, StepKeeps
    <2>5. PairsRead' /\ PairsLoaded'
      BY <1>4, <2>2, <2>3, <2>9 DEF PairsRead, PairsLoaded, StepKeeps
    <2>6. \A f \in Run : run'[f].again => /\ (run'[f].at = "ident" => keptIdent' = Nothing)
                                           /\ (run'[f].at \in {"mint", "register"} => WillHave(run'[f].ident) = {})
      BY <1>4, <2>3 DEF Advances
    <2> QED BY <2>4, <2>5, <2>6
  <1>5. PhoneRetries'
    <2>1. \A f \in Run : run'[f].again => run'[f].at \notin {"token", "cached", "check"}
      BY DEF PhoneRetries, Advances, OthersStay
    <2> QED BY <1>4, <2>1 DEF PhoneRetries, WillHave, With
  <1>6. PhoneOwns'
    BY <1>3, <1>4 DEF PhoneOwns, StepKeeps
  <1> QED BY <1>1, <1>2, <1>5, <1>6

\* A run that ends keeps it, whatever becomes of the list of pairs, as long as that agrees.
LEMMA RunEnds ==
    ASSUME TableInv, PhoneDeviceInv, NEW e \in Run, Active(e), OthersStay(e), run'[e] = Ended,
           TableGrows, UNCHANGED <<tokens, paired, thisDevice, keptId, keptIdent, asDevice, wanted, socket>>,
           upset \subseteq upset', upset' \subseteq Upsets,
           pairIds' \in {"empty", "none", "has"}, pairIds' # pairIds => run[e].mounted,
           Calm' => PairsLoaded'
    PROVE  PhoneDeviceInv'
  <1> USE DEF PhoneDeviceInv, tokens
  <1>1. PhoneDevicesTypeOK'
    BY DEF PhoneDevicesTypeOK, OthersStay
  <1>2. PhoneMinted'
    BY DEF PhoneMinted, TableGrows, OthersStay, Ended
  <1>3. /\ ~wanted' => socket' = NoSocket
        /\ user' = Nothing => pairIds' = "empty" /\ \A f \in Run : ~run'[f].mounted
    BY DEF PhoneOwns, OthersStay, Ended
  <1>4. ASSUME Calm'
        PROVE  RunsKnow' /\ SocketKnows' /\ PairsRead' /\ PairsLoaded' /\ \A f \in Run : ~run'[f].again \/ run'[f].at = "idle"
    <2>1. Calm
      BY <1>4, CalmGoesOn
    <2>2. RunsKnow /\ SocketKnows
      BY <2>1 DEF PhoneOwns
    <2>3. \A f \in Run : run'[f].at = "idle"
      BY <2>2 DEF RunsKnow, OthersStay, Active, Ended
    <2>4. RunsKnow'
      BY <2>3 DEF RunsKnow, HasDevice, Active
    <2>5. SocketKnows'
      BY <2>2 DEF SocketKnows, TableGrows, Owns, WillOwn, PhoneDevicesTypeOK, Presented
    <2>6. PairsRead'
      BY <2>3 DEF PairsRead
    <2> QED BY <1>4, <2>3, <2>4, <2>5, <2>6
  <1>5. PhoneRetries'
    BY <1>4 DEF PhoneRetries, OthersStay, Ended
  <1>6. PhoneOwns'
    BY <1>3, <1>4 DEF PhoneOwns
  <1> QED BY <1>1, <1>2, <1>5, <1>6

\* Nothing changes but the runs, and what is known of the sign-in.
LEMMA QuietStep ==
    ASSUME TableInv, PhoneDeviceInv, UNCHANGED <<device, minted, tokens, install, store, paired, pairIds>>,
           upset \subseteq upset', upset' \subseteq Upsets
    PROVE  /\ StepKeeps
           /\ \A i : With(i) = {} => WillHave(i) = {}
  <1> USE DEF PhoneDeviceInv, PhoneDevicesTypeOK, tokens, install, store
  <1>1. TableGrows /\ \A i : With(i) = {} => WillHave(i) = {}
    BY TableSame DEF TableInv, TableTypeOK
  <1> QED BY <1>1, SocketStays DEF PhoneMinted

\* TakesToken, ReadsId: the id is memory's or the Keychain's.
LEMMA TokenTaken ==
    ASSUME TableInv, PhoneDeviceInv, NEW e \in Run, TakesToken(e) \/ ReadsId(e)
    PROVE  TableInv' /\ PhoneDeviceInv'
  <1> USE DEF PhoneDeviceInv
  <1>1. StepKeeps
    BY QuietStep DEF TakesToken, ReadsId, PhoneDevicesTypeOK
  <1>2. run \in [Run -> RunRec] /\ Active(e) /\ run[e].at \in {"token", "cached"}
    BY DEF TakesToken, ReadsId, PhoneDevicesTypeOK, Active
  <1>3. ~run[e].again
    BY <1>2 DEF PhoneRetries
  <1>4. PICK id \in DeviceId \cup {Nothing}, at \in {"cached", "check", "ident"} :
            Advances(e, at, id, run[e].ident, run[e].again)
    <2>1. CASE TakesToken(e)
      <3>1. PICK at \in {"cached", "check"} :
                run' = [run EXCEPT ![e].as = user, ![e].id = thisDevice, ![e].at = at]
        BY <2>1 DEF TakesToken
      <3>2. user \in Account /\ user # Nothing /\ thisDevice \in DeviceId \cup {Nothing}
        BY <2>1 DEF TakesToken, PhoneDevicesTypeOK
      <3> QED BY <1>2, <3>1, <3>2, AdvancesAs DEF Places
    <2>2. CASE ReadsId(e)
      <3>1. PICK at \in {"check", "ident"} : run' = [run EXCEPT ![e].id = keptId, ![e].at = at]
        BY <2>2 DEF ReadsId
      <3> QED BY <1>2, <3>1, AdvancesId DEF Places, PhoneDevicesTypeOK
    <2> QED BY <2>1, <2>2
  <1>6. run[e].ident \in Ident \cup {Nothing} /\ run[e].again \in BOOLEAN
    BY <1>2, RunTypes
  <1>7. PhoneDeviceInv'
    BY <1>1, <1>2, <1>3, <1>4, <1>6, RunGoesOn DEF Places
  <1> QED BY <1>1, <1>7 DEF StepKeeps, TableGrows

\* Checks, CheckFails: the id is the account's, or nobody could tell.
LEMMA IdChecked ==
    ASSUME TableInv, PhoneDeviceInv, NEW e \in Run, Checks(e) \/ CheckFails(e)
    PROVE  TableInv' /\ PhoneDeviceInv'
  <1> USE DEF PhoneDeviceInv, tokens
  <1>1. StepKeeps
    BY QuietStep DEF Checks, CheckFails, Upset, Upsets, PhoneDevicesTypeOK
  <1>2. run \in [Run -> RunRec] /\ Active(e) /\ run[e].at = "check"
    BY DEF Checks, CheckFails, PhoneDevicesTypeOK, Active
  <1>3. ~run[e].again
    BY <1>2 DEF PhoneRetries
  <1>4. PICK at \in {"ident", "name", "list"} :
            Goes(e, at) /\ (Calm' /\ at # "ident" => IsOwned(e))
    BY DEF Checks, CheckFails, Uses, Upset, Calm
  <1>5. Advances(e, at, run[e].id, run[e].ident, run[e].again)
    BY <1>2, <1>4, AdvancesAt DEF Places
  <1>6. /\ run[e].ident \in Ident \cup {Nothing} /\ run[e].again \in BOOLEAN
        /\ run[e].id \in DeviceId \cup {Nothing}
    BY <1>2, RunTypes
  <1>7. UNCHANGED device
    BY DEF Checks, CheckFails
  <1>8. Calm' /\ at # "ident" => WillOwn(run[e].as, run[e].id)
    BY <1>4, <1>7 DEF IsOwned, Listed, WillOwn
  <1>9. PhoneDeviceInv'
    BY <1>1, <1>2, <1>3, <1>5, <1>6, <1>8, RunGoesOn DEF Places
  <1> QED BY <1>1, <1>9 DEF StepKeeps, TableGrows

\* ReadsIdent: it is the Keychain's, or one that no device has.
LEMMA IdentRead ==
    ASSUME TableInv, PhoneDeviceInv, NEW e \in Run, ReadsIdent(e)
    PROVE  TableInv' /\ PhoneDeviceInv'
  <1> USE DEF PhoneDeviceInv, tokens
  <1>1. minted \subseteq minted' /\ minted' \subseteq Ident /\ UNCHANGED device
    BY DEF ReadsIdent, TableInv, TableTypeOK, Mintable, NextOf
  <1>2. TableGrows /\ \A i : With(i) = {} => WillHave(i) = {}
    BY <1>1, TableSame
  <1>3. /\ UNCHANGED <<tokens, thisDevice, wanted, asDevice, socket, keptId, keptIdent, paired, pairIds, upset>>
        /\ {thisDevice', keptId'} \subseteq DeviceId \cup {Nothing}
        /\ keptIdent' \in Ident \cup {Nothing} /\ upset \subseteq upset' /\ upset' \subseteq Upsets
        /\ (keptIdent' # Nothing => keptIdent' \in minted')
    BY <1>1 DEF ReadsIdent, install, store, PhoneDevicesTypeOK, PhoneMinted
  <1>4. StepKeeps
    BY <1>2, <1>3, SocketStays
  <1>5. run \in [Run -> RunRec] /\ Active(e) /\ run[e].at = "ident"
    BY DEF ReadsIdent, PhoneDevicesTypeOK, Active
  <1>6. run[e].id \in DeviceId \cup {Nothing} /\ run[e].again \in BOOLEAN
    BY <1>5, RunTypes
  <1>7. ASSUME Calm', run[e].again
        PROVE  keptIdent = Nothing
    BY <1>3, <1>5, <1>7, CalmGoesOn DEF PhoneRetries
  <1>8. PICK i \in Ident, at \in {"mint", "register"} :
            /\ run' = [run EXCEPT ![e].ident = i, ![e].at = at]
            /\ i \in minted'
            /\ Calm' /\ run[e].again => With(i) = {}
    <2>1. CASE keptIdent # Nothing
      BY <2>1, <1>1, <1>7 DEF ReadsIdent, PhoneMinted, PhoneDevicesTypeOK
    <2>2. CASE keptIdent = Nothing
      <3>1. PICK i \in Mintable : /\ run' = [run EXCEPT ![e].ident = i, ![e].at = "mint"]
                                  /\ minted' = minted \cup {i}
        BY <2>2 DEF ReadsIdent
      <3>2. i \in Ident /\ i \notin minted
        BY DEF Mintable, NextOf
      <3>3. With(i) = {}
        BY <3>2 DEF With, TableInv, IdentsMinted
      <3> QED BY <3>1, <3>2, <3>3
    <2> QED BY <2>1, <2>2
  <1>9. Advances(e, at, run[e].id, i, run[e].again)
    BY <1>5, <1>8, AdvancesIdent DEF Places
  <1>10. PhoneDeviceInv'
    BY <1>2, <1>4, <1>5, <1>6, <1>8, <1>9, RunGoesOn DEF Places
  <1> QED BY <1>2, <1>10 DEF TableGrows

\* KeepsIdent, ForgetsIdent: the Keychain has what the run goes on with, or nothing.
LEMMA IdentKept ==
    ASSUME TableInv, PhoneDeviceInv, NEW e \in Run, KeepsIdent(e) \/ ForgetsIdent(e)
    PROVE  TableInv' /\ PhoneDeviceInv'
  <1> USE DEF PhoneDeviceInv, tokens
  <1>1. /\ UNCHANGED <<device, minted, tokens, thisDevice, wanted, asDevice, socket, keptId, paired, pairIds, upset>>
        /\ run \in [Run -> RunRec] /\ Active(e) /\ run[e].at \in {"mint", "forget"}
    BY DEF KeepsIdent, ForgetsIdent, store, PhoneDevicesTypeOK, Active
  <1>2. TableGrows /\ \A i : With(i) = {} => WillHave(i) = {}
    BY <1>1, TableSame DEF TableInv, TableTypeOK
  <1>3. /\ run[e].id \in DeviceId \cup {Nothing} /\ run[e].again \in BOOLEAN
        /\ run[e].ident \in Ident \cup {Nothing}
        /\ run[e].at = "mint" => run[e].ident \in minted
    BY <1>1, RunTypes DEF PhoneMinted
  <1>4. keptIdent' \in Ident \cup {Nothing} /\ (keptIdent' # Nothing => keptIdent' \in minted')
    BY <1>1, <1>3 DEF KeepsIdent, ForgetsIdent
  <1>5. StepKeeps
    <2>1. /\ {thisDevice', keptId'} \subseteq DeviceId \cup {Nothing}
          /\ upset \subseteq upset' /\ upset' \subseteq Upsets
      BY <1>1 DEF PhoneDevicesTypeOK
    <2> QED BY <1>1, <1>2, <1>4, <2>1, SocketStays
  <1>6. CASE KeepsIdent(e)
    <2>1. Advances(e, "register", run[e].id, run[e].ident, run[e].again)
      BY <1>1, <1>6, AdvancesAt DEF KeepsIdent, Places
    <2>2. Calm' /\ run[e].again => WillHave(run[e].ident) = {}
      BY <1>1, <1>2, <1>6, CalmGoesOn DEF PhoneRetries, KeepsIdent
    <2>3. run[e].ident \in minted'
      BY <1>1, <1>3, <1>6 DEF KeepsIdent
    <2>4. PhoneDeviceInv'
      <3>1. "register" \in Places \ {"idle"}
        BY DEF Places
      <3>2. /\ Active(e) /\ run[e].id \in DeviceId \cup {Nothing} /\ run[e].again \in BOOLEAN
            /\ run[e].ident \in Ident \cup {Nothing}
        BY <1>1, <1>3
      <3> HIDE DEF PhoneDeviceInv, tokens
      <3> QED BY <1>5, <2>1, <2>2, <2>3, <3>1, <3>2, RunGoesOn
    <2> QED BY <1>2, <2>4 DEF TableGrows
  <1>7. CASE ForgetsIdent(e)
    <2>1. Advances(e, "ident", run[e].id, run[e].ident, TRUE)
      BY <1>1, <1>7, AdvancesAgain DEF ForgetsIdent, Places
    <2>2. keptIdent' = Nothing
      BY <1>7 DEF ForgetsIdent
    <2>3. PhoneDeviceInv'
      BY <1>1, <1>3, <1>5, <2>1, <2>2, RunGoesOn DEF Places
    <2> QED BY <1>2, <2>3 DEF TableGrows
  <1> QED BY <1>6, <1>7

\* Registers: the run has a device of its account.
LEMMA DeviceRegistered ==
    ASSUME TableInv, PhoneDeviceInv, NEW e \in Run, Registers(e)
    PROVE  TableInv' /\ PhoneDeviceInv'
  <1> USE DEF PhoneDeviceInv, tokens
  <1>1. /\ UNCHANGED <<minted, tokens, thisDevice, wanted, asDevice, socket, keptId, keptIdent,
                       paired, pairIds, upset>>
        /\ run \in [Run -> RunRec] /\ Active(e) /\ run[e].at = "register"
    BY DEF Registers, install, store, PhoneDevicesTypeOK, Active
  <1>2. /\ run[e].as \in Account \cup {Nothing} /\ run[e].again \in BOOLEAN
        /\ run[e].ident \in Ident \cup {Nothing}
        /\ run[e].ident \in minted
    BY <1>1, RunTypes DEF PhoneMinted
  <1>3. PICK d \in DeviceId : /\ Creates(run[e].as, run[e].ident, d)
                              /\ run' = [run EXCEPT ![e].id = d, ![e].at = "keep"]
    BY DEF Registers
  <1>4. TableGrows /\ WillOwn(run[e].as, d)
    BY <1>1, <1>2, <1>3, TableCreates
  <1>5. StepKeeps
    <2>1. /\ {thisDevice', keptId'} \subseteq DeviceId \cup {Nothing} /\ keptIdent' \in Ident \cup {Nothing}
          /\ upset \subseteq upset' /\ upset' \subseteq Upsets /\ (keptIdent' # Nothing => keptIdent' \in minted')
      BY <1>1 DEF PhoneDevicesTypeOK, PhoneMinted
    <2> QED BY <1>1, <1>4, <2>1, SocketStays
  <1>6. Advances(e, "keep", d, run[e].ident, run[e].again)
    BY <1>1, <1>3, AdvancesId DEF Places
  <1>7. PhoneDeviceInv'
    BY <1>1, <1>2, <1>4, <1>5, <1>6, RunGoesOn DEF Places
  <1> QED BY <1>4, <1>7 DEF TableGrows

\* KeepsId, Names: the id is kept, in the Keychain and in memory.
LEMMA IdKept ==
    ASSUME TableInv, PhoneDeviceInv, NEW e \in Run, KeepsId(e) \/ Names(e)
    PROVE  TableInv' /\ PhoneDeviceInv'
  <1> USE DEF PhoneDeviceInv, tokens
  <1>1. /\ UNCHANGED <<device, minted, tokens, wanted, asDevice, socket, keptIdent, paired, pairIds, upset>>
        /\ run \in [Run -> RunRec] /\ Active(e) /\ run[e].at \in {"keep", "name"}
    BY DEF KeepsId, Names, install, store, PhoneDevicesTypeOK, Active
  <1>2. /\ run[e].again \in BOOLEAN /\ run[e].ident \in Ident \cup {Nothing}
        /\ run[e].id \in DeviceId \cup {Nothing} /\ run[e].as \in Account \cup {Nothing}
    BY <1>1, RunTypes
  <1>3. TableGrows
    BY <1>1, TableSame DEF TableInv, TableTypeOK
  <1>4. StepKeeps
    <2>1. /\ {thisDevice', keptId'} \subseteq DeviceId \cup {Nothing} /\ keptIdent' \in Ident \cup {Nothing}
          /\ upset \subseteq upset' /\ upset' \subseteq Upsets /\ (keptIdent' # Nothing => keptIdent' \in minted')
      BY <1>1, <1>2 DEF KeepsId, Names, install, store, PhoneDevicesTypeOK, PhoneMinted
    <2> QED BY <1>1, <1>3, <2>1, SocketStays
  <1>5. PICK at \in {"name", "list"} : Goes(e, at)
    BY DEF KeepsId, Names
  <1>6. Advances(e, at, run[e].id, run[e].ident, run[e].again)
    BY <1>1, <1>5, AdvancesAt DEF Places
  <1>7. Calm' => WillOwn(run[e].as, run[e].id)
    <2>1. ASSUME Calm' PROVE Calm
      BY <1>1, <2>1, CalmGoesOn DEF PhoneDevicesTypeOK
    <2>2. Calm => Owns(run[e].as, run[e].id)
      BY <1>1 DEF PhoneOwns, RunsKnow, HasDevice
    <2> QED BY <1>2, <1>3, <2>1, <2>2 DEF TableGrows, Owns
  <1>8. PhoneDeviceInv'
    BY <1>1, <1>2, <1>4, <1>6, <1>7, RunGoesOn DEF Places
  <1> QED BY <1>3, <1>8 DEF TableGrows

\* The list of pairs is not loaded while a run may still load it.
LEMMA NotLoaded ==
    ASSUME PhoneDeviceInv, NEW e \in Run, Active(e), upset \subseteq upset', UNCHANGED <<tokens, pairIds>>
    PROVE  Calm' => PairsLoaded'
  BY CalmGoesOn DEF PhoneDeviceInv, PhoneOwns, PairsLoaded

\* NoToken, Throws: the run ends before the socket, with a device registered or not.
LEMMA RunGivesUp ==
    ASSUME TableInv, PhoneDeviceInv, NEW e \in Run, NoToken(e) \/ Throws(e)
    PROVE  TableInv' /\ PhoneDeviceInv'
  <1> USE DEF PhoneDeviceInv, tokens
  <1>1. /\ UNCHANGED <<minted, tokens, thisDevice, wanted, asDevice, socket, keptId, keptIdent, paired, pairIds>>
        /\ run \in [Run -> RunRec] /\ Active(e)
        /\ run' = [run EXCEPT ![e] = Ended]
        /\ upset \subseteq upset' /\ upset' \subseteq Upsets
    BY DEF NoToken, Throws, install, store, PhoneDevicesTypeOK, Active, Upset, Upsets
  <1>2. TableGrows
    <2>1. CASE UNCHANGED device
      BY <2>1, <1>1, TableSame DEF TableInv, TableTypeOK
    <2>2. CASE run[e].at = "register" /\ \E d \in DeviceId : Creates(run[e].as, run[e].ident, d)
      <3>1. run[e].as \in Account \cup {Nothing} /\ run[e].ident \in minted
        BY <2>2, <1>1, RunTypes DEF PhoneMinted
      <3> QED BY <2>2, <3>1, <1>1, TableCreates
    <2> QED BY <2>1, <2>2 DEF NoToken, Throws
  <1>3. OthersStay(e) /\ run'[e] = Ended
    BY <1>1, HasEnded
  <1>4. Calm' => PairsLoaded'
    BY <1>1, NotLoaded
  <1>5. pairIds' \in {"empty", "none", "has"}
    BY <1>1 DEF PhoneDevicesTypeOK
  <1>6. PhoneDeviceInv'
    BY <1>1, <1>2, <1>3, <1>4, <1>5, RunEnds
  <1> QED BY <1>2, <1>6 DEF TableGrows

\* IsRefused: once more with another identifier, or no more.
LEMMA IdentRefused ==
    ASSUME TableInv, PhoneDeviceInv, NEW e \in Run, IsRefused(e)
    PROVE  TableInv' /\ PhoneDeviceInv'
  <1> USE DEF PhoneDeviceInv, tokens
  <1>1. /\ UNCHANGED <<device, minted, tokens, thisDevice, wanted, asDevice, socket, keptId, keptIdent,
                       paired, pairIds, upset>>
        /\ run \in [Run -> RunRec] /\ Active(e)
        /\ upset \subseteq upset' /\ upset' \subseteq Upsets /\ pairIds' \in {"empty", "none", "has"}
    BY DEF IsRefused, install, store, PhoneDevicesTypeOK, Active
  <1>2. TableGrows
    BY <1>1, TableSame DEF TableInv, TableTypeOK
  <1>3. CASE run[e].again
    <2>1. OthersStay(e) /\ run'[e] = Ended
      BY <1>1, <1>3, HasEnded DEF IsRefused
    <2>2. PhoneDeviceInv'
      BY <1>1, <1>2, <2>1, NotLoaded, RunEnds
    <2> QED BY <1>2, <2>2 DEF TableGrows
  <1>4. CASE ~run[e].again
    <2>1. Advances(e, "forget", run[e].id, run[e].ident, run[e].again)
      BY <1>1, <1>4, AdvancesAt DEF IsRefused, Places
    <2>2. StepKeeps
      BY <1>1, QuietStep DEF install, store
    <2>3. /\ run[e].id \in DeviceId \cup {Nothing} /\ run[e].ident \in Ident \cup {Nothing}
          /\ run[e].again \in BOOLEAN
      BY <1>1, RunTypes
    <2>4. PhoneDeviceInv'
      <3> HIDE DEF PhoneDeviceInv
      <3> QED BY <1>1, <1>4, <2>1, <2>2, <2>3, RunGoesOn DEF Places
    <2> QED BY <1>2, <2>4 DEF TableGrows
  <1> QED BY <1>3, <1>4

\* OpensSocket: with the device of the run's account, and that account's token.
LEMMA SocketOpened ==
    ASSUME TableInv, PhoneDeviceInv, NEW e \in Run, OpensSocket(e)
    PROVE  TableInv' /\ PhoneDeviceInv'
  <1> USE DEF PhoneDeviceInv, tokens
  <1>1. /\ UNCHANGED <<device, minted, tokens, thisDevice, keptId, keptIdent, paired, pairIds, upset>>
        /\ run \in [Run -> RunRec] /\ Active(e) /\ run[e].at = "list"
        /\ wanted' = TRUE /\ asDevice' = run[e].id /\ socket' = [id |-> run[e].id, as |-> run[e].as]
    BY DEF OpensSocket, install, PhoneDevicesTypeOK, Active
  <1>2. /\ run[e].again \in BOOLEAN /\ run[e].ident \in Ident \cup {Nothing}
        /\ run[e].id \in DeviceId \cup {Nothing} /\ run[e].as \in Account \cup {Nothing}
    BY <1>1, RunTypes
  <1>3. TableGrows
    BY <1>1, TableSame DEF TableInv, TableTypeOK
  <1>4. ASSUME Calm'
        PROVE  WillOwn(run[e].as, run[e].id) /\ (user # Nothing => run[e].as = user)
    <2>1. Calm
      BY <1>1, <1>4, CalmGoesOn DEF PhoneDevicesTypeOK
    <2>2. Owns(run[e].as, run[e].id) /\ (user # Nothing => run[e].as = user)
      BY <1>1, <2>1 DEF PhoneOwns, RunsKnow, HasDevice
    <2> QED BY <1>2, <1>3, <2>2 DEF TableGrows, Owns
  <1>5. Calm' => SocketKnows'
    BY <1>1, <1>4 DEF SocketKnows, Owns, WillOwn
  <1>6. socket' \in Presented
    BY <1>1, <1>2 DEF Presented
  <1>7. StepKeeps
    BY <1>1, <1>2, <1>3, <1>5, <1>6 DEF StepKeeps, PhoneDevicesTypeOK, PhoneMinted
  <1>8. Advances(e, "pairs", run[e].id, run[e].ident, run[e].again)
    BY <1>1, AdvancesAt DEF OpensSocket, Places
  <1>9. PhoneDeviceInv'
    BY <1>1, <1>2, <1>4, <1>7, <1>8, RunGoesOn DEF Places
  <1> QED BY <1>3, <1>9 DEF TableGrows

\* LoadsPairs, PairsFail: the ids of the pairs there are, or none, are on their way.
LEMMA PairsListed ==
    ASSUME TableInv, PhoneDeviceInv, NEW e \in Run, LoadsPairs(e) \/ PairsFail(e)
    PROVE  TableInv' /\ PhoneDeviceInv'
  <1> USE DEF PhoneDeviceInv
  <1>1. StepKeeps
    BY QuietStep DEF LoadsPairs, PairsFail, Upset, Upsets, PhoneDevicesTypeOK
  <1>2. /\ run \in [Run -> RunRec] /\ Active(e) /\ run[e].at = "pairs"
        /\ UNCHANGED <<device, tokens, asDevice, paired>> /\ upset \subseteq upset'
    BY DEF LoadsPairs, PairsFail, PhoneDevicesTypeOK, Active, Upset, store
  <1>3. /\ run[e].id \in DeviceId \cup {Nothing} /\ run[e].ident \in Ident \cup {Nothing}
        /\ run[e].again \in BOOLEAN
    BY <1>2, RunTypes
  <1>4. Advances(e, "show", run[e].id, run[e].ident, run[e].again)
    <2>1. CASE LoadsPairs(e)
      <3>1. PICK ids \in {"none", "has"} : run' = [run EXCEPT ![e].at = "show", ![e].ids = ids]
        BY <2>1 DEF LoadsPairs
      <3> QED BY <1>2, <3>1, AdvancesIds DEF Places
    <2>2. CASE PairsFail(e)
      BY <1>2, <2>2, AdvancesAt DEF PairsFail, Places
    <2> QED BY <2>1, <2>2
  <1>5. ASSUME Calm'
        PROVE  WillOwn(run[e].as, run[e].id) /\ asDevice' = run[e].id
    <2>1. RunsKnow
      BY <1>2, <1>5, CalmGoesOn DEF PhoneOwns
    <2> QED BY <1>2, <2>1 DEF RunsKnow, HasDevice, Owns, WillOwn
  <1>6. ASSUME Calm', upset' \cap {"unlisted", "late"} = {}
        PROVE  run'[e].ids = "has" <=> asDevice' \in paired'
    <2>1. LoadsPairs(e)
      BY <1>6 DEF PairsFail, Upset
    <2>2. run' = [run EXCEPT ![e].at = "show",
                             ![e].ids = IF IsOwned(e) /\ run[e].id \in paired THEN "has" ELSE "none"]
      BY <2>1 DEF LoadsPairs
    <2>3. run'[e].ids = IF IsOwned(e) /\ run[e].id \in paired THEN "has" ELSE "none"
      BY <1>2, <2>2 DEF RunRec
    <2>4. IsOwned(e)
      BY <1>2, <1>5, <1>6 DEF IsOwned, Listed, WillOwn
    <2> QED BY <1>2, <1>5, <1>6, <2>3, <2>4 DEF tokens
  <1>7. Calm' /\ run[e].again => "show" \notin {"ident", "mint", "register", "token", "cached", "check"}
    OBVIOUS
  <1>8. PhoneDeviceInv'
    BY <1>1, <1>2, <1>3, <1>4, <1>5, <1>6, RunGoesOn DEF Places
  <1> QED BY <1>1, <1>8 DEF StepKeeps, TableGrows

\* ShowsPairs: the screen the run began in is told of the Mac if it is paired.
LEMMA PairsShown ==
    ASSUME TableInv, PhoneDeviceInv, NEW e \in Run, ShowsPairs(e)
    PROVE  TableInv' /\ PhoneDeviceInv'
  <1> USE DEF PhoneDeviceInv, tokens
  <1>1. /\ UNCHANGED <<device, minted, tokens, thisDevice, wanted, asDevice, socket, keptId, keptIdent, paired, upset>>
        /\ run \in [Run -> RunRec] /\ Active(e) /\ run[e].at = "show"
        /\ run' = [run EXCEPT ![e] = Ended]
        /\ upset' \subseteq Upsets
    BY DEF ShowsPairs, install, store, PhoneDevicesTypeOK, Active
  <1>2. pairIds' \in {"empty", "none", "has"} /\ (pairIds' # pairIds => run[e].mounted)
    BY <1>1, RunTypes DEF ShowsPairs, ShownIds, PhoneDevicesTypeOK
  <1>3. TableGrows
    BY <1>1, TableSame DEF TableInv, TableTypeOK
  <1>4. OthersStay(e) /\ run'[e] = Ended
    BY <1>1, HasEnded
  <1>5. ASSUME Calm', user # Nothing
        PROVE  PairsLoaded'
    <2>1. RunsKnow /\ PairsRead
      BY <1>1, <1>5, CalmGoesOn DEF PhoneOwns
    <2>2. Owns(user, asDevice) /\ run[e].mounted
      BY <1>1, <1>5, <2>1 DEF RunsKnow, HasDevice
    <2>3. \A f \in Run : run'[f].at = "idle"
      BY <1>1, <1>4, <2>1 DEF RunsKnow, OthersStay, Active, Ended
    <2>4. upset' \cap {"unlisted", "late"} = {} => (pairIds' = "has" <=> asDevice' \in paired')
      BY <1>1, <1>5, <2>1, <2>2 DEF PairsRead, ShowsPairs, ShownIds
    <2> QED BY <1>1, <2>2, <2>3, <2>4 DEF PairsLoaded, Active, Owns
  <1>6. Calm' => PairsLoaded'
    BY <1>1, <1>5 DEF PairsLoaded
  <1>7. PhoneDeviceInv'
    BY <1>1, <1>2, <1>3, <1>4, <1>6, RunEnds
  <1> QED BY <1>3, <1>7 DEF TableGrows

\* A step of one run keeps it.
LEMMA RunKeeps ==
    ASSUME TableInv, PhoneDeviceInv, NEW e \in Run, RunSteps(e)
    PROVE  TableInv' /\ PhoneDeviceInv'
  BY TokenTaken, IdChecked, IdentRead, IdentKept, DeviceRegistered, IdKept, RunGivesUp,
     IdentRefused, SocketOpened, PairsListed, PairsShown DEF RunSteps

\* Signing in: the runs and the socket there are belong to an earlier sign-in, or are none.
LEMMA SignInKeeps ==
    ASSUME TableInv, PhoneDeviceInv, NEW e \in Run, NEW a \in Account, SignsIn(e, a)
    PROVE  TableInv' /\ PhoneDeviceInv'
  <1> USE DEF PhoneDeviceInv, tokens
  <1>1. /\ UNCHANGED <<device, minted, keptId, keptIdent, thisDevice, wanted, asDevice, socket, paired, pairIds>>
        /\ user = Nothing /\ user' = a /\ a # Nothing /\ pairIds = "empty"
        /\ Calm' => ~wanted /\ \A f \in Run : ~Active(f)
    BY NothingAssumption DEF SignsIn, install, store, PhoneOwns, Calm
  <1>2. TableInv'
    BY <1>1, TableSame DEF TableInv, TableTypeOK, TableGrows
  <1>3. Begun(a) \in RunRec /\ Begun(a).at = "token" /\ Begun(a).as = a /\ Begun(a).mounted /\ ~Begun(a).again
    BY DEF Begun, Ended, RunRec
  <1>4. /\ run' \in [Run -> RunRec] /\ run'[e] = Begun(a)
        /\ \A f \in Run : f # e => run'[f] = run[f]
    BY <1>3 DEF SignsIn, PhoneDevicesTypeOK
  <1>5. PhoneDevicesTypeOK' /\ PhoneMinted'
    BY <1>1, <1>3, <1>4 DEF PhoneDevicesTypeOK, PhoneMinted, SignsIn, Upsets
  <1>6. PhoneRetries'
    BY <1>1, <1>3, <1>4 DEF PhoneRetries, Active
  <1>7. Calm' => RunsKnow'
    BY <1>1, <1>3, <1>4 DEF RunsKnow, Active, HasDevice
  <1>8. PhoneOwns'
    <2>1. Calm' => PairsRead'
      BY <1>1, <1>3, <1>4 DEF PairsRead, Active
    <2> QED BY <1>1, <1>7, <2>1 DEF PhoneOwns, SocketKnows, PairsLoaded
  <1> QED BY <1>2, <1>5, <1>6, <1>8

\* Signing out, by the button or because a refresh was rejected.
LEMMA SignOutKeeps ==
    ASSUME TableInv, PhoneDeviceInv, LeavesAccount,
           {refresh'} \subseteq Account \cup {Nothing}, waits' \in BOOLEAN,
           UNCHANGED <<device, minted, keptId, keptIdent, thisDevice, asDevice, paired, upset>>,
           \/ wanted' = FALSE /\ socket' = NoSocket
           \/ UNCHANGED <<wanted, socket>>
    PROVE  TableInv' /\ PhoneDeviceInv'
  <1> USE DEF PhoneDeviceInv
  <1>1. /\ user' = Nothing /\ keptAs' = Nothing /\ pairIds' = "empty"
        /\ wanted' \in BOOLEAN /\ socket' \in Presented
        /\ ~wanted' => socket' = NoSocket
        /\ wanted' => wanted /\ UNCHANGED socket
    <2>1. NoSocket \in Presented
      BY DEF NoSocket, Presented
    <2>3. wanted' \in BOOLEAN /\ socket' \in Presented /\ (~wanted' => socket' = NoSocket)
      BY <2>1 DEF PhoneDevicesTypeOK, PhoneOwns
    <2>4. wanted' => wanted /\ UNCHANGED socket
      BY DEF PhoneDevicesTypeOK
    <2> QED BY <2>3, <2>4 DEF LeavesAccount
  <1>2. TableInv'
    BY <1>1, TableSame DEF TableInv, TableTypeOK, TableGrows
  <1>3. ASSUME NEW f \in Run
        PROVE  /\ run'[f] \in RunRec
               /\ run'[f].at = run[f].at /\ run'[f].as = run[f].as /\ run'[f].id = run[f].id
               /\ run'[f].ident = run[f].ident /\ run'[f].again = run[f].again /\ ~run'[f].mounted
    BY DEF LeavesAccount, PhoneDevicesTypeOK, RunRec
  <1>4. run' \in [Run -> RunRec]
    BY <1>3 DEF LeavesAccount
  <1>5. PhoneDevicesTypeOK' /\ PhoneMinted'
    BY <1>1, <1>3, <1>4 DEF PhoneDevicesTypeOK, PhoneMinted
  <1>6. PhoneRetries'
    BY <1>1, <1>3 DEF PhoneRetries, Calm, With
  <1>7. Calm' => RunsKnow'
    BY <1>1, <1>3 DEF PhoneOwns, RunsKnow, Active, HasDevice, Owns, Calm
  <1>8. Calm' => SocketKnows'
    BY <1>1 DEF PhoneOwns, SocketKnows, Owns, Calm
  <1>9. PhoneOwns'
    BY <1>1, <1>3, <1>7, <1>8 DEF PhoneOwns, PairsRead, PairsLoaded
  <1> QED BY <1>2, <1>5, <1>6, <1>9

LEMMA ButtonKeeps ==
    ASSUME TableInv, PhoneDeviceInv, SignsOut
    PROVE  TableInv' /\ PhoneDeviceInv'
  <1>1. /\ LeavesAccount /\ wanted' = FALSE /\ socket' = NoSocket
        /\ UNCHANGED <<device, minted, keptId, keptIdent, thisDevice, asDevice, paired, upset, refresh, waits>>
    BY DEF SignsOut, install
  <1>2. {refresh'} \subseteq Account \cup {Nothing} /\ waits' \in BOOLEAN
    BY <1>1 DEF PhoneDeviceInv, PhoneDevicesTypeOK
  <1> QED BY <1>1, <1>2, SignOutKeeps

\* A launch starts with the Keychain, and with one run if it is signed in.
LEMMA RelaunchKeeps ==
    ASSUME TableInv, PhoneDeviceInv, NEW e \in Run, Relaunches(e)
    PROVE  TableInv' /\ PhoneDeviceInv'
  <1> USE DEF PhoneDeviceInv, tokens
  <1>1. /\ UNCHANGED <<device, minted, keptId, keptIdent, paired>>
        /\ user' \in Account \cup {Nothing} /\ keptAs' = user' /\ refresh' = Nothing /\ waits' = FALSE
        /\ thisDevice' = Nothing /\ ~wanted' /\ wanted' \in BOOLEAN
        /\ asDevice' = Nothing /\ socket' = NoSocket /\ pairIds' = "empty" /\ upset' = {}
    BY DEF Relaunches, install, PhoneDevicesTypeOK
  <1>2. TableInv'
    BY <1>1, TableSame DEF TableInv, TableTypeOK, TableGrows
  <1>3. ASSUME NEW x \in Account \cup {Nothing}
        PROVE  Begun(x) \in RunRec /\ Begun(x).at = "token" /\ Begun(x).as = x /\ Begun(x).mounted /\ ~Begun(x).again
    BY <1>3 DEF Begun, Ended, RunRec
  <1>4. /\ Ended \in RunRec /\ Ended.at = "idle" /\ ~Ended.mounted /\ ~Ended.again
    BY DEF Ended, RunRec
  <1>5. /\ run' \in [Run -> RunRec]
        /\ run'[e] = IF user' # Nothing THEN Begun(user') ELSE Ended
        /\ \A f \in Run : f # e => run'[f] = Ended
    BY <1>1, <1>3, <1>4 DEF Relaunches
  <1>6. PhoneDevicesTypeOK' /\ PhoneMinted'
    <2>1. PhoneDevicesTypeOK'
      BY <1>1, <1>5 DEF PhoneDevicesTypeOK, Presented, NoSocket, Upsets
    <2>2. \A f \in Run : run'[f].at \in {"token", "idle"}
      BY <1>1, <1>3, <1>4, <1>5
    <2> QED BY <1>1, <2>1, <2>2 DEF PhoneMinted
  <1>7. PhoneRetries'
    BY <1>1, <1>3, <1>4, <1>5 DEF PhoneRetries
  <1>8. RunsKnow'
    BY <1>1, <1>3, <1>4, <1>5 DEF RunsKnow, Active, HasDevice
  <1>9. PhoneOwns'
    <2>1. PairsRead'
      BY <1>1, <1>3, <1>4, <1>5 DEF PairsRead
    <2> QED BY <1>1, <1>4, <1>5, <1>8, <2>1 DEF PhoneOwns, PairsLoaded, SocketKnows
  <1> QED BY <1>2, <1>6, <1>7, <1>9

\* reconnectSignaling goes on with no token, or with one of the account that is
\* signed in; or nobody waits.
LEMMA ResumeKeeps ==
    ASSUME TableInv, PhoneDeviceInv, NEW t \in Account \cup {Nothing},
           Resumes(t) \/ UNCHANGED <<wanted, socket>>,
           UNCHANGED <<device, minted, run, keptId, keptIdent, thisDevice, asDevice, paired, pairIds>>,
           {user', keptAs', refresh'} \subseteq Account \cup {Nothing}, waits' \in BOOLEAN,
           user = Nothing => user' = Nothing, user # Nothing => user' # Nothing,
           upset \subseteq upset', upset' \subseteq Upsets,
           Calm' => UNCHANGED user /\ (user # Nothing => t \in {user, Nothing})
    PROVE  TableInv' /\ PhoneDeviceInv'
  <1> USE DEF PhoneDeviceInv
  <1>1. TableInv'
    BY TableSame DEF TableInv, TableTypeOK, TableGrows
  <1>2. wanted' \in BOOLEAN /\ socket' \in Presented /\ (~wanted' => socket' = NoSocket)
    <2>1. NoSocket \in Presented /\ [id |-> asDevice, as |-> t] \in Presented
      BY DEF NoSocket, Presented, PhoneDevicesTypeOK
    <2> QED BY <2>1 DEF Resumes, PhoneDevicesTypeOK, PhoneOwns
  <1>3. PhoneDevicesTypeOK' /\ PhoneMinted'
    BY <1>2 DEF PhoneDevicesTypeOK, PhoneMinted
  <1>4. PhoneRetries'
    BY CalmGoesOn DEF PhoneRetries, With
  <1>5. ASSUME Calm'
        PROVE  RunsKnow' /\ SocketKnows' /\ PairsRead' /\ PairsLoaded'
    <2>1. RunsKnow /\ SocketKnows /\ PairsRead /\ PairsLoaded
      BY <1>5, CalmGoesOn DEF PhoneOwns
    <2>2. UNCHANGED user /\ (user # Nothing => t \in {user, Nothing})
      BY <1>5
    <2>3. RunsKnow'
      BY <2>1, <2>2 DEF RunsKnow, Active, HasDevice, Owns
    <2>4. SocketKnows'
      <3>1. CASE UNCHANGED <<wanted, socket>>
        BY <2>1, <2>2, <3>1 DEF SocketKnows, Owns
      <3>2. CASE wanted' = FALSE
        BY <3>2 DEF SocketKnows
      <3>3. CASE /\ wanted /\ user' # Nothing /\ UNCHANGED wanted /\ t # Nothing
                 /\ socket' = [id |-> asDevice, as |-> t]
        BY <2>1, <2>2, <3>3 DEF SocketKnows, Owns
      <3> QED BY <3>1, <3>2, <3>3 DEF Resumes
    <2>5. PairsRead' /\ PairsLoaded'
      BY <2>1, <2>2 DEF PairsRead, PairsLoaded, Active, Owns
    <2> QED BY <2>3, <2>4, <2>5
  <1>6. PhoneOwns'
    BY <1>2, <1>5 DEF PhoneOwns
  <1> QED BY <1>1, <1>3, <1>4, <1>6

\* ReconnectsAs, Refreshes, RefreshAnswered, RefreshFails, RefreshRejected
LEMMA ReconnectKeeps ==
    ASSUME TableInv, PhoneDeviceInv, ReconnectsAs \/ Refreshes \/ RefreshSteps
    PROVE  TableInv' /\ PhoneDeviceInv'
  <1>1. /\ {user, keptAs, refresh} \subseteq Account \cup {Nothing} /\ waits \in BOOLEAN /\ wanted \in BOOLEAN
        /\ upset \subseteq Upsets
    BY DEF PhoneDeviceInv, PhoneDevicesTypeOK
  <1>2. CASE ReconnectsAs
    BY <1>1, <1>2, ResumeKeeps DEF ReconnectsAs, tokens, install
  <1>3. CASE Refreshes
    <2>1. waits' \in BOOLEAN
      BY <1>1, <1>3 DEF Refreshes
    <2> QED BY <1>1, <1>3, <2>1, ResumeKeeps DEF Refreshes, install, store
  <1>4. CASE RefreshAnswered
    <2>1. /\ refresh # Nothing /\ refresh' = Nothing /\ waits' = FALSE
          /\ Resumes(refresh) \/ UNCHANGED <<wanted, socket>>
          /\ UNCHANGED <<device, minted, run, keptId, keptIdent, thisDevice, asDevice, paired, pairIds>>
          /\ keptAs' = refresh
      BY <1>4 DEF RefreshAnswered, Returns, install
    <2>2. /\ user = Nothing => user' = Nothing
          /\ user # Nothing => user' = refresh
          /\ user \in {Nothing, refresh} => UNCHANGED upset
          /\ user \notin {Nothing, refresh} => upset' = upset \cup {"overtaken"}
      BY <1>4 DEF RefreshAnswered, Upset
    <2>3. upset \subseteq upset' /\ upset' \subseteq Upsets
      BY <1>1, <2>2 DEF Upsets
    <2>4. Calm' => user \in {Nothing, refresh}
      BY <2>2 DEF Calm
    <2> QED BY <1>1, <2>1, <2>2, <2>3, <2>4, ResumeKeeps
  <1>5. CASE RefreshFails
    <2>1. /\ UNCHANGED <<user, keptAs, upset>> /\ refresh' = Nothing /\ waits' = FALSE
          /\ Resumes(Nothing) \/ UNCHANGED <<wanted, socket>>
          /\ UNCHANGED <<device, minted, run, keptId, keptIdent, thisDevice, asDevice, paired, pairIds>>
      BY <1>5 DEF RefreshFails, Returns, install
    <2> QED BY <1>1, <2>1, ResumeKeeps
  <1>6. CASE RefreshRejected
    <2>1. /\ LeavesAccount /\ refresh' = Nothing /\ waits' = FALSE /\ user' = Nothing
          /\ Resumes(Nothing) \/ UNCHANGED <<wanted, socket>>
          /\ UNCHANGED <<device, minted, keptId, keptIdent, thisDevice, asDevice, paired, upset>>
      BY <1>6 DEF RefreshRejected, LeavesAccount, Returns, install
    <2>2. \/ wanted' = FALSE /\ socket' = NoSocket
          \/ UNCHANGED <<wanted, socket>>
      BY <2>1 DEF Resumes
    <2> QED BY <2>1, <2>2, SignOutKeeps
  <1> QED BY <1>2, <1>3, <1>4, <1>5, <1>6 DEF RefreshSteps

\* Pairs: what is on its way to the screen, or on it, is late.
LEMMA PairKeeps ==
    ASSUME TableInv, PhoneDeviceInv, Pairs
    PROVE  TableInv' /\ PhoneDeviceInv'
  <1> USE DEF PhoneDeviceInv, tokens
  <1>1. /\ UNCHANGED <<device, minted, tokens, run, keptId, keptIdent, thisDevice, asDevice, wanted, socket, pairIds>>
        /\ upset \subseteq upset' /\ upset' \subseteq Upsets /\ paired' \subseteq DeviceId
        /\ upset' \cap {"unlisted", "late"} = {} => pairIds = "empty" /\ \A e \in Run : run[e].at # "show"
    BY DEF Pairs, Admitted, Listed, install, store, PhoneDevicesTypeOK, Upset, Upsets
  <1>2. TableInv'
    BY <1>1, TableSame DEF TableInv, TableTypeOK, TableGrows
  <1>3. PhoneDevicesTypeOK' /\ PhoneMinted'
    BY <1>1 DEF PhoneDevicesTypeOK, PhoneMinted
  <1>4. PhoneRetries'
    BY <1>1, CalmGoesOn DEF PhoneRetries, With
  <1>5. ASSUME Calm'
        PROVE  RunsKnow' /\ SocketKnows' /\ PairsRead' /\ PairsLoaded'
    <2>1. RunsKnow /\ SocketKnows /\ PairsLoaded
      BY <1>1, <1>5, CalmGoesOn DEF PhoneOwns
    <2> QED BY <1>1, <2>1 DEF RunsKnow, SocketKnows, PairsRead, PairsLoaded, Active, HasDevice, Owns
  <1>6. PhoneOwns'
    BY <1>1, <1>5 DEF PhoneOwns
  <1> QED BY <1>2, <1>3, <1>4, <1>6

\* RemovesMac: neither the screen nor what is on its way to it has the Mac.
LEMMA RemoveKeeps ==
    ASSUME TableInv, PhoneDeviceInv, RemovesMac
    PROVE  TableInv' /\ PhoneDeviceInv'
  <1> USE DEF PhoneDeviceInv, tokens
  <1>1. /\ UNCHANGED <<device, minted, tokens, keptId, keptIdent, thisDevice, asDevice, wanted, socket, upset>>
        /\ paired' = paired \ Listed(user) /\ paired' \subseteq DeviceId
        /\ pairIds' = IF pairIds = "has" THEN "none" ELSE pairIds
    BY DEF RemovesMac, install, store, PhoneDevicesTypeOK
  <1>2. TableInv'
    BY <1>1, TableSame DEF TableInv, TableTypeOK, TableGrows
  <1>3. ASSUME NEW f \in Run
        PROVE  /\ run'[f] \in RunRec
               /\ run'[f].at = run[f].at /\ run'[f].as = run[f].as /\ run'[f].id = run[f].id
               /\ run'[f].ident = run[f].ident /\ run'[f].again = run[f].again
               /\ run'[f].mounted = run[f].mounted /\ run'[f].ids = "none"
    BY DEF RemovesMac, PhoneDevicesTypeOK, RunRec
  <1>4. run' \in [Run -> RunRec]
    BY <1>3 DEF RemovesMac
  <1>5. PhoneDevicesTypeOK' /\ PhoneMinted'
    BY <1>1, <1>3, <1>4 DEF PhoneDevicesTypeOK, PhoneMinted
  <1>6. PhoneRetries'
    BY <1>1, <1>3 DEF PhoneRetries, Calm, With
  <1>7. ASSUME Calm'
        PROVE  RunsKnow' /\ SocketKnows' /\ PairsRead' /\ PairsLoaded'
    <2>1. RunsKnow /\ SocketKnows /\ PairsLoaded
      BY <1>1, <1>7 DEF PhoneOwns, Calm
    <2>2. RunsKnow' /\ SocketKnows'
      BY <1>1, <1>3, <2>1 DEF RunsKnow, SocketKnows, Active, HasDevice, Owns
    <2>3. user # Nothing => \A f \in Run : run[f].at = "show" => asDevice \notin paired'
      BY <1>1, <2>1 DEF RunsKnow, HasDevice, Active, Owns, Listed
    <2>4. PairsRead'
      BY <1>1, <1>3, <2>3 DEF PairsRead
    <2>5. PairsLoaded'
      BY <1>1, <1>3, <2>1 DEF PairsLoaded, Active, Owns, Listed
    <2> QED BY <2>2, <2>4, <2>5
  <1>8. PhoneOwns'
    BY <1>1, <1>3, <1>7 DEF PhoneOwns
  <1> QED BY <1>2, <1>5, <1>6, <1>8

\* Every step of the iPhone keeps the invariant.
LEMMA PhoneKeepsDevices ==
    ASSUME TableInv, PhoneDeviceInv, PhoneSteps
    PROVE  TableInv' /\ PhoneDeviceInv'
  BY RunKeeps, SignInKeeps, ButtonKeeps, RelaunchKeeps, ReconnectKeeps, PairKeeps, RemoveKeeps DEF PhoneSteps

\* The iPhone that was never launched.
LEMMA PhoneAtRest == PhoneDevicesInit => PhoneDeviceInv
  <1> SUFFICES ASSUME PhoneDevicesInit PROVE PhoneDeviceInv
    OBVIOUS
  <1>1. Ended \in RunRec /\ Ended.at = "idle" /\ ~Ended.mounted /\ ~Ended.again
    BY DEF Ended, RunRec
  <1>2. PhoneDevicesTypeOK
    BY <1>1 DEF PhoneDevicesInit, PhoneDevicesTypeOK, Presented, NoSocket, Upsets
  <1>3. PhoneMinted /\ PhoneRetries
    BY <1>1 DEF PhoneDevicesInit, PhoneMinted, PhoneRetries
  <1>4. PhoneOwns
    BY <1>1 DEF PhoneDevicesInit, PhoneOwns, RunsKnow, SocketKnows, PairsRead, PairsLoaded, Active, HasDevice
  <1> QED BY <1>2, <1>3, <1>4 DEF PhoneDeviceInv

-----------------------------------------------------------------------------
(***************************************************************************)
(* The Mac.                                                                *)
(***************************************************************************)

\* What a step of the Mac does to the table: a row that is or was an account's
\* stays its, and no identifier is taken.
WillHad(a, d) == d \in DeviceId /\ device'[d].is # "unused" /\ device'[d].owner = a
RowsStay      == TableInv' /\ minted \subseteq minted' /\ \A b, x : Had(b, x) => WillHad(b, x)
NoneTaken     == \A i : With(i) = {} => WillHave(i) = {}

LEMMA RowsSame ==
    ASSUME TableInv, UNCHANGED device, minted \subseteq minted', minted' \subseteq Ident
    PROVE  RowsStay /\ NoneTaken
  BY TableSame DEF TableGrows, RowsStay, NoneTaken, Had, WillHad

LEMMA RowCreated ==
    ASSUME TableInv, UNCHANGED minted, NEW a \in Account \cup {Nothing}, NEW i \in minted,
           NEW d \in DeviceId, Creates(a, i, d)
    PROVE  RowsStay /\ WillHad(a, d)
  BY TableCreates DEF TableGrows, RowsStay, Had, WillHad, WillOwn

LEMMA RowDeleted ==
    ASSUME TableInv, UNCHANGED minted, NEW d \in DeviceId, device[d].is = "there", Deletes(d)
    PROVE  RowsStay /\ NoneTaken
  <1> USE DEF TableInv, TableTypeOK
  <1>1. [device[d] EXCEPT !.is = "deleted"] \in RowRec
    BY DEF RowRec
  <1>2. device' \in [DeviceId -> RowRec]
    BY <1>1 DEF Deletes
  <1>3. /\ device'[d].is = "deleted" /\ device'[d].owner = device[d].owner /\ device'[d].ident = device[d].ident
        /\ \A x \in DeviceId : x # d => device'[x] = device[x]
    BY DEF Deletes, RowRec
  <1>4. IdentsMinted'
    BY <1>3 DEF IdentsMinted
  <1>5. \A b, x : Had(b, x) => WillHad(b, x)
    BY <1>3 DEF Had, WillHad
  <1>6. NoneTaken
    BY <1>3 DEF NoneTaken, With, WillHave
  <1> QED BY <1>2, <1>4, <1>5, <1>6 DEF RowsStay

LEMMA JobTypes ==
    ASSUME MacDevicesTypeOK
    PROVE  /\ job.at \in {"idle", "refresh", "check", "register", "again", "restore"} /\ job.boot \in BOOLEAN
           /\ job.as \in Account \cup {Nothing} /\ job.ident \in Ident \cup {Nothing}
           /\ macKept.as \in Account \cup {Nothing} /\ macKept.id \in DeviceId \cup {Nothing}
           /\ macKept.ident \in Ident \cup {Nothing} /\ {macAccount, macRefresh} \subseteq Account \cup {Nothing}
           /\ Off \in JobRec /\ Off.at = "idle" /\ ~Off.boot /\ NoSocket \in Presented
  BY DEF MacDevicesTypeOK, JobRec, KeptRec, Off, NoSocket, Presented

\* The Mac is launched, quits, or ends its onboarding.
LEMMA StageKeeps ==
    ASSUME TableInv, MacDeviceInv, Launches \/ Quits \/ Completes
    PROVE  TableInv' /\ MacDeviceInv'
  <1> USE DEF MacDeviceInv
  <1>1. UNCHANGED <<device, minted, macKept>>
    BY DEF Launches, Quits, Completes
  <1>2. TableInv'
    BY <1>1, RowsSame DEF TableInv, TableTypeOK, RowsStay
  <1>3. CASE Launches
    <2>1. job' \in JobRec /\ job'.at \in {"idle", "refresh"}
          /\ (job'.at # "idle" => job'.boot /\ stage' = "launching")
      <3>1. CASE job' = [Off EXCEPT !.at = "refresh", !.boot = TRUE, !.as = macKept.as] /\ stage' = "launching"
        BY <3>1, JobTypes DEF Off, JobRec
      <3>2. CASE UNCHANGED job
        BY <1>3, <3>2 DEF Launches, MacOwns, MacStages, NoneOvertook, MacKnows, MacDevicesTypeOK
      <3> QED BY <1>3, <3>1, <3>2 DEF Launches
    <2>2. /\ stage = "off" /\ stage' \in {"launching", "onboarding"}
          /\ UNCHANGED <<onboarding, settingsOpen, macAccount, macRefresh, macDevice, macWanted, macSocket, macUpset>>
      BY <1>3 DEF Launches
    <2>3. ~macWanted /\ ~settingsOpen
      BY <2>2 DEF MacOwns, MacStages, NoneOvertook, MacKnows
    <2>4. MacDevicesTypeOK'
      BY <1>1, <2>1, <2>2 DEF MacDevicesTypeOK
    <2>5. MacOwns'
      BY <2>1, <2>2, <2>3 DEF MacOwns, MacStages, NoneOvertook, MacKnows
    <2>6. MacMinted' /\ MacRetries'
      BY <1>1, <2>1 DEF MacMinted, MacRetries
    <2> QED BY <1>2, <2>4, <2>5, <2>6
  <1>4. CASE Quits
    <2>1. /\ stage' = "off" /\ onboarding' = "signIn" /\ settingsOpen' = FALSE
          /\ macAccount' = Nothing /\ macRefresh' = Nothing /\ macDevice' = Nothing
          /\ job' = Off /\ macWanted' = FALSE /\ macSocket' = NoSocket /\ macUpset' = {}
      BY <1>4 DEF Quits
    <2>2. MacDevicesTypeOK' /\ MacMinted' /\ MacRetries' /\ MacOwns'
      BY <1>1, <2>1, JobTypes DEF MacDevicesTypeOK, MacMinted, MacRetries, MacOwns, MacStages, NoneOvertook, MacKnows
    <2> QED BY <1>2, <2>2
  <1>5. CASE Completes
    <2>1. /\ stage = "onboarding" /\ onboarding = "pair" /\ stage' = "ready" /\ settingsOpen' = TRUE
          /\ UNCHANGED <<device, minted, onboarding, macAccount, macRefresh, macDevice, macWanted, macSocket, job, macUpset>>
      BY <1>5 DEF Completes
    <2>2. MacDevicesTypeOK' /\ MacMinted' /\ MacRetries'
      BY <1>1, <2>1 DEF MacDevicesTypeOK, MacMinted, MacRetries, With
    <2>3. MacOwns'
      BY <2>1 DEF MacOwns, MacStages, NoneOvertook, MacKnows, Had
    <2> QED BY <1>2, <2>2, <2>3
  <1> QED BY <1>3, <1>4, <1>5

\* It signs in or out.
LEMMA MacAuthKeeps ==
    ASSUME TableInv, MacDeviceInv, (\E a \in Account : MacSignsIn(a)) \/ MacSignsOut
    PROVE  TableInv' /\ MacDeviceInv'
  <1> USE DEF MacDeviceInv
  <1>1. UNCHANGED <<device, minted, macRefresh, job, settingsOpen>>
    BY DEF MacSignsIn, MacSignsOut
  <1>2. TableInv'
    BY <1>1, RowsSame DEF TableInv, TableTypeOK, RowsStay
  <1>3. macKept' \in KeptRec /\ macKept'.ident = macKept.ident
    BY DEF MacSignsIn, MacSignsOut, MacDevicesTypeOK, KeptRec
  <1>4. MacMinted' /\ MacRetries'
    BY <1>1, <1>3 DEF MacMinted, MacRetries, With
  <1>5. CASE \E a \in Account : MacSignsIn(a)
    <2>1. /\ stage = "onboarding" /\ onboarding = "signIn" /\ job.at = "idle"
          /\ macAccount' \in Account /\ onboarding' = "nameMac" /\ macUpset' = {}
          /\ UNCHANGED <<stage, macDevice, macWanted, macSocket>>
      BY <1>5 DEF MacSignsIn
    <2>2. MacDevicesTypeOK'
      BY <1>1, <1>3, <2>1 DEF MacDevicesTypeOK
    <2>3. MacOwns'
      BY <1>1, <2>1 DEF MacOwns, MacStages, NoneOvertook, MacKnows
    <2> QED BY <1>2, <1>4, <2>2, <2>3
  <1>6. CASE MacSignsOut
    <2>1. /\ settingsOpen /\ macWanted' = FALSE /\ macSocket' = NoSocket
          /\ macAccount' = Nothing /\ macDevice' = Nothing
          /\ stage' = "onboarding" /\ onboarding' = "signIn" /\ macUpset' = macUpset \cup {"left"}
      BY <1>6 DEF MacSignsOut
    <2>2. MacDevicesTypeOK'
      BY <1>1, <1>3, <2>1, JobTypes DEF MacDevicesTypeOK, MacUpsets
    <2>3. MacOwns'
      BY <1>1, <2>1 DEF MacOwns, MacStages, NoneOvertook, MacKnows
    <2> QED BY <1>2, <1>4, <2>2, <2>3
  <1> QED BY <1>5, <1>6

\* Registering begins, with an identifier that was minted.
LEMMA RegisterBegins ==
    ASSUME TableInv, MacDeviceInv, NEW boot \in BOOLEAN, BeginRegister(boot)
    PROVE  /\ minted \subseteq minted' /\ minted' \subseteq Ident
           /\ macKept' \in KeptRec /\ job' \in JobRec
           /\ job'.at = "register" /\ job'.boot = boot /\ job'.as = macAccount
           /\ job'.ident \in minted' /\ (macKept'.ident # Nothing => macKept'.ident \in minted')
  <1> USE DEF MacDeviceInv
  <1>1. CASE macKept.ident # Nothing
    <2>1. /\ job' = [at |-> "register", boot |-> boot, as |-> macAccount, ident |-> macKept.ident]
          /\ UNCHANGED <<macKept, minted>>
      BY <1>1 DEF BeginRegister
    <2> QED BY <1>1, <2>1, JobTypes DEF TableInv, TableTypeOK, MacMinted, MacDevicesTypeOK, JobRec
  <1>2. CASE macKept.ident = Nothing
    <2>1. PICK i \in Mintable : /\ job' = [at |-> "register", boot |-> boot, as |-> macAccount, ident |-> i]
                                /\ macKept' = [macKept EXCEPT !.ident = i]
                                /\ minted' = minted \cup {i}
      BY <1>2 DEF BeginRegister
    <2>2. i \in Ident
      BY DEF Mintable, NextOf
    <2> QED BY <2>1, <2>2 DEF TableInv, TableTypeOK, MacDevicesTypeOK, JobRec, KeptRec
  <1> QED BY <1>1, <1>2

\* BootNotOwned, NamesMac
LEMMA BeginKeeps ==
    ASSUME TableInv, MacDeviceInv, BootNotOwned \/ NamesMac
    PROVE  TableInv' /\ MacDeviceInv'
  <1> USE DEF MacDeviceInv
  <1>1. PICK boot \in BOOLEAN :
            /\ BeginRegister(boot)
            /\ boot => job.at = "check"
            /\ ~boot => stage = "onboarding" /\ onboarding = "nameMac"
    BY DEF BootNotOwned, NamesMac
  <1>2. /\ UNCHANGED <<device, stage, onboarding, settingsOpen, macAccount, macRefresh, macDevice, macWanted, macSocket>>
        /\ macUpset \subseteq macUpset' /\ macUpset' \subseteq MacUpsets
    BY DEF BootNotOwned, NamesMac, macApp, MacTrouble, MacUpset, MacUpsets, MacDevicesTypeOK
  <1>3. TableInv'
    BY <1>1, <1>2, RegisterBegins, RowsSame DEF RowsStay
  <1>4. MacDevicesTypeOK'
    BY <1>1, <1>2, RegisterBegins DEF MacDevicesTypeOK
  <1>5. MacMinted' /\ MacRetries'
    BY <1>1, RegisterBegins DEF MacMinted, MacRetries
  <1>6. MacOwns'
    <2>1. job'.at = "register" /\ job'.boot = boot /\ job'.as = macAccount
      BY <1>1, RegisterBegins
    <2>2. boot => stage = "launching" /\ ~settingsOpen /\ ~macWanted
      BY <1>1 DEF MacOwns, MacStages, NoneOvertook, MacKnows
    <2>3. ~macWanted => macSocket = NoSocket
      BY DEF MacOwns, MacStages, NoneOvertook, MacKnows
    <2>4. NoneOvertook' /\ macWanted =>
             /\ macAccount # Nothing /\ macSocket.as = macAccount /\ Had(macAccount, macSocket.id)
             /\ (macDevice # Nothing => Had(macAccount, macDevice))
      BY <1>2 DEF MacOwns, MacStages, NoneOvertook, MacKnows
    <2> QED BY <1>1, <1>2, <2>1, <2>2, <2>3, <2>4 DEF MacOwns, MacStages, NoneOvertook, MacKnows, Had
  <1> QED BY <1>3, <1>4, <1>5, <1>6

\* BootRefreshes, BootOwned: the Keychain's id is the account's.
LEMMA BootKeeps ==
    ASSUME TableInv, MacDeviceInv, BootRefreshes \/ BootOwned
    PROVE  TableInv' /\ MacDeviceInv'
  <1> USE DEF MacDeviceInv
  <1>1. /\ UNCHANGED <<device, minted, macRefresh, onboarding, macKept, macUpset>>
        /\ job.boot /\ stage = "launching" /\ ~settingsOpen /\ ~macWanted /\ macSocket = NoSocket
    BY DEF BootRefreshes, BootOwned, MacOwns, MacStages, NoneOvertook, MacKnows
  <1>2. TableInv'
    BY <1>1, RowsSame DEF TableInv, TableTypeOK, RowsStay
  <1>3. CASE BootRefreshes
    <2>1. /\ macAccount' = job.as /\ job'.at = "check" /\ job'.boot /\ job'.as = job.as /\ job' \in JobRec
          /\ UNCHANGED <<stage, settingsOpen, macDevice, macWanted, macSocket>>
      BY <1>1, <1>3, JobTypes DEF BootRefreshes, JobRec, MacDevicesTypeOK
    <2>2. MacDevicesTypeOK' /\ MacMinted' /\ MacRetries'
      BY <1>1, <2>1, JobTypes DEF MacDevicesTypeOK, MacMinted, MacRetries
    <2>3. MacOwns'
      BY <1>1, <2>1 DEF MacOwns, MacStages, NoneOvertook, MacKnows
    <2> QED BY <1>2, <2>2, <2>3
  <1>4. CASE BootOwned
    <2>1. /\ macDevice' = macKept.id /\ stage' = "ready" /\ settingsOpen' = TRUE /\ job' = Off
          /\ UNCHANGED macAccount /\ macKept.id \in Listed(macAccount)
          /\ \/ macAccount = Nothing /\ UNCHANGED <<macWanted, macSocket>>
             \/ /\ macAccount # Nothing
                /\ macWanted' = TRUE /\ macSocket' = [id |-> macKept.id, as |-> macAccount]
      BY <1>4, NothingAssumption DEF BootOwned, OwnsKept, ConnectAs, Listed
    <2>2. macKept.id \in DeviceId /\ Had(macAccount, macKept.id)
      BY <2>1 DEF Listed, Had
    <2>3. [id |-> macKept.id, as |-> macAccount] \in Presented
      BY <2>2 DEF Presented, MacDevicesTypeOK
    <2>4. MacDevicesTypeOK' /\ MacMinted' /\ MacRetries'
      BY <1>1, <2>1, <2>2, <2>3, JobTypes DEF MacDevicesTypeOK, MacMinted, MacRetries
    <2>5. MacOwns'
      BY <1>1, <2>1, <2>2, JobTypes DEF MacOwns, MacStages, NoneOvertook, MacKnows, Had
    <2> QED BY <1>2, <2>4, <2>5
  <1> QED BY <1>3, <1>4

\* MacRegisters: the Mac has a device of its account, and connects as it.
LEMMA MacRegisterKeeps ==
    ASSUME TableInv, MacDeviceInv, MacRegisters
    PROVE  TableInv' /\ MacDeviceInv'
  <1> USE DEF MacDeviceInv
  <1>1. /\ UNCHANGED <<minted, macRefresh, stage, onboarding, settingsOpen, macUpset, macAccount>>
        /\ job.at \in {"register", "again"} /\ job.ident \in minted
    BY DEF MacRegisters, MacMinted
  <1>2. PICK d \in DeviceId : /\ Creates(job.as, job.ident, d)
                              /\ macDevice' = d
                              /\ macKept' = [macKept EXCEPT !.id = d]
                              /\ ConnectAs(d)
    BY DEF MacRegisters
  <1>3. RowsStay /\ WillHad(job.as, d)
    BY <1>1, <1>2, JobTypes, RowCreated
  <1>4. /\ job' \in JobRec /\ job'.at = "restore" /\ job'.boot = job.boot
        /\ macKept' \in KeptRec /\ macKept'.ident = macKept.ident
    BY <1>2 DEF MacRegisters, MacDevicesTypeOK, JobRec, KeptRec
  <1>5. /\ macAccount = Nothing => ~macWanted /\ UNCHANGED <<macWanted, macSocket>>
        /\ macAccount # Nothing => macWanted' = TRUE /\ macSocket' = [id |-> d, as |-> macAccount]
    BY <1>1, <1>2, NothingAssumption DEF ConnectAs, MacOwns, MacStages, NoneOvertook, MacKnows
  <1>6. macSocket' \in Presented /\ macWanted' \in BOOLEAN
    <2>1. [id |-> d, as |-> macAccount] \in Presented
      BY DEF Presented, MacDevicesTypeOK
    <2> QED BY <1>5, <2>1 DEF MacDevicesTypeOK
  <1>7. MacDevicesTypeOK' /\ MacMinted' /\ MacRetries'
    BY <1>1, <1>2, <1>4, <1>6 DEF MacDevicesTypeOK, MacMinted, MacRetries
  <1>8. MacOwns'
    BY <1>1, <1>2, <1>3, <1>4, <1>5 DEF MacOwns, MacStages, NoneOvertook, MacKnows, Had, WillHad
  <1> QED BY <1>3, <1>7, <1>8 DEF RowsStay

\* A job that ends: macDevice is as it was, or a device of the job's account.
LEMMA JobEndKeeps ==
    ASSUME RowsStay, MacDeviceInv, job.at # "idle", NEW d \in DeviceId \cup {Nothing}, JobEnds(d),
           macDevice' = d, job.at = "restore" => onboarding' = "pair",
           d = macDevice \/ (job.at \in {"register", "again"} /\ WillHad(job.as, d)),
           onboarding' \in {onboarding, "pair"},
           macUpset \subseteq macUpset', macUpset' \subseteq MacUpsets,
           UNCHANGED <<macAccount, macRefresh, macWanted, macSocket, macKept>>
    PROVE  MacDeviceInv'
  <1> USE DEF MacDeviceInv
  <1>1. /\ stage' = IF ~job.boot THEN stage ELSE IF d = Nothing THEN "onboarding" ELSE "ready"
        /\ settingsOpen' = (settingsOpen \/ (job.boot /\ d # Nothing))
        /\ job' = Off /\ minted \subseteq minted'
    BY DEF JobEnds, RowsStay
  <1>2. /\ MacDevicesTypeOK'
    BY <1>1, JobTypes DEF MacDevicesTypeOK
  <1>3. MacMinted' /\ MacRetries'
    BY <1>1, JobTypes DEF MacMinted, MacRetries
  <1>4. MacStages'
    <2>1. job'.at = "idle"
      BY <1>1, JobTypes
    <2>2. /\ ~macWanted => macSocket = NoSocket
          /\ stage # "off"
          /\ stage = "launching" => ~settingsOpen /\ (job.at # "restore" => ~macWanted)
          /\ stage = "onboarding" /\ onboarding = "signIn" /\ job.at # "restore" => ~macWanted
          /\ job.boot <=> stage = "launching"
          /\ macWanted => macAccount # Nothing
      BY DEF MacOwns, MacStages
    <2> QED BY <1>1, <2>1, <2>2 DEF MacStages
  <1>5. NoneOvertook' => MacKnows'
    <2>1. ASSUME NoneOvertook' PROVE MacKnows
      BY <2>1 DEF MacOwns, NoneOvertook
    <2>2. job'.at = "idle"
      BY <1>1, JobTypes
    <2>3. ASSUME NoneOvertook', macWanted
          PROVE  /\ macSocket.as = macAccount
                 /\ WillHad(macAccount, macSocket.id)
                 /\ (d # Nothing => WillHad(macAccount, d))
      <3>1. macAccount # Nothing
        BY <2>3 DEF MacOwns, MacStages
      <3> QED BY <2>1, <2>3, <3>1 DEF MacKnows, RowsStay
    <2> QED BY <2>2, <2>3 DEF MacKnows, Had, WillHad
  <1> QED BY <1>2, <1>3, <1>4, <1>5 DEF MacOwns

\* MacRestores, JobFails, KeepFails
LEMMA EndKeeps ==
    ASSUME TableInv, MacDeviceInv, MacRestores \/ JobFails \/ KeepFails
    PROVE  TableInv' /\ MacDeviceInv'
  <1> USE DEF MacDeviceInv
  <1>1. /\ UNCHANGED <<minted, macAccount, macRefresh, macWanted, macSocket, macKept>>
        /\ onboarding' \in {onboarding, "pair"} /\ job.at # "idle"
        /\ macUpset \subseteq macUpset' /\ macUpset' \subseteq MacUpsets
        /\ job.at \in {"register", "again"} => job.ident \in minted
    BY DEF MacRestores, JobFails, KeepFails, MacTrouble, MacUpset, MacUpsets, MacDevicesTypeOK, MacMinted
  <1>2. CASE MacRestores
    <2>1. RowsStay
      BY <1>1, <1>2, RowsSame DEF MacRestores, TableInv, TableTypeOK
    <2>2. MacDeviceInv'
      BY <1>1, <1>2, <2>1, JobEndKeeps DEF MacRestores, MacDevicesTypeOK
    <2> QED BY <2>1, <2>2 DEF RowsStay
  <1>3. CASE JobFails
    <2>1. RowsStay
      <3>1. CASE UNCHANGED device
        BY <1>1, <3>1, RowsSame DEF TableInv, TableTypeOK
      <3>2. CASE job.at # "refresh" /\ \E d \in DeviceId : Creates(job.as, job.ident, d)
        BY <1>1, <1>3, <3>2, JobTypes, RowCreated DEF JobFails
      <3> QED BY <1>3, <3>1, <3>2 DEF JobFails
    <2>2. MacDeviceInv'
      BY <1>1, <1>3, <2>1, JobEndKeeps DEF JobFails, MacDevicesTypeOK
    <2> QED BY <2>1, <2>2 DEF RowsStay
  <1>4. CASE KeepFails
    <2>1. PICK d \in DeviceId : Creates(job.as, job.ident, d) /\ macDevice' = d /\ JobEnds(d)
      BY <1>4 DEF KeepFails
    <2>2. RowsStay /\ WillHad(job.as, d)
      BY <1>1, <1>4, <2>1, JobTypes, RowCreated DEF KeepFails
    <2>3. MacDeviceInv'
      BY <1>1, <1>4, <2>1, <2>2, JobEndKeeps DEF KeepFails
    <2> QED BY <2>2, <2>3 DEF RowsStay
  <1> QED BY <1>2, <1>3, <1>4

\* MacRefused: another identifier, which no device has, or an error.
LEMMA RefusedKeeps ==
    ASSUME TableInv, MacDeviceInv, MacRefused
    PROVE  TableInv' /\ MacDeviceInv'
  <1> USE DEF MacDeviceInv
  <1>1. UNCHANGED <<device, onboarding, macAccount, macRefresh, macDevice, macWanted, macSocket, macUpset>>
    BY DEF MacRefused
  <1>2. CASE job.at = "register" /\ UNCHANGED <<stage, settingsOpen>>
    <2>1. PICK i \in Mintable : /\ macKept' = [macKept EXCEPT !.ident = i]
                                /\ minted' = minted \cup {i}
                                /\ job' = [job EXCEPT !.at = "again", !.ident = i]
      BY <1>2 DEF MacRefused
    <2>2. i \in Ident /\ i \notin minted
      BY DEF Mintable, NextOf
    <2>3. RowsStay /\ NoneTaken
      BY <1>1, <2>1, <2>2, RowsSame DEF TableInv, TableTypeOK
    <2>4. With(i) = {}
      BY <2>2 DEF With, TableInv, IdentsMinted
    <2>5. /\ job' \in JobRec /\ job'.at = "again" /\ job'.ident = i /\ job'.boot = job.boot /\ job'.as = job.as
          /\ macKept' \in KeptRec /\ macKept'.ident = i
      BY <2>1, <2>2 DEF MacDevicesTypeOK, JobRec, KeptRec
    <2>6. MacDevicesTypeOK' /\ MacMinted'
      BY <1>1, <1>2, <2>1, <2>5 DEF MacDevicesTypeOK, MacMinted
    <2>7. MacRetries'
      BY <2>3, <2>4, <2>5 DEF MacRetries, NoneTaken, WillHave, With
    <2>8. MacOwns'
      BY <1>1, <1>2, <2>5 DEF MacOwns, MacStages, NoneOvertook, MacKnows, Had
    <2> QED BY <2>3, <2>6, <2>7, <2>8 DEF RowsStay
  <1>3. CASE job.at = "again" /\ JobEnds(macDevice) /\ UNCHANGED <<macKept, minted>>
    <2>1. RowsStay
      BY <1>1, <1>3, RowsSame DEF TableInv, TableTypeOK
    <2>2. MacDeviceInv'
      BY <1>1, <1>3, <2>1, JobEndKeeps DEF MacDevicesTypeOK
    <2> QED BY <2>1, <2>2 DEF RowsStay
  <1> QED BY <1>2, <1>3 DEF MacRefused

\* MacReconnects, MacRemoved
LEMMA SocketKeeps ==
    ASSUME TableInv, MacDeviceInv, MacReconnects \/ MacRemoved
    PROVE  TableInv' /\ MacDeviceInv'
  <1> USE DEF MacDeviceInv
  <1>1. UNCHANGED <<minted, stage, onboarding, settingsOpen, macAccount, macRefresh, macDevice, macWanted,
                    macKept, job>>
    BY DEF MacReconnects, MacRemoved, macApp
  <1>2. RowsStay /\ NoneTaken
    <2>1. CASE MacReconnects
      BY <2>1, RowsSame DEF MacReconnects, TableInv, TableTypeOK
    <2>2. CASE MacRemoved
      BY <1>1, <2>2, RowDeleted DEF MacRemoved
    <2> QED BY <2>1, <2>2
  <1>3. /\ macSocket' \in Presented /\ macUpset \subseteq macUpset' /\ macUpset' \subseteq MacUpsets
        /\ ~macWanted => macSocket' = NoSocket
        /\ MacKnows /\ macWanted => macSocket'.as = macAccount /\ Had(macAccount, macSocket'.id)
    <2>1. CASE MacReconnects
      <3>1. [id |-> macDevice, as |-> macAccount] \in Presented
        BY DEF Presented, MacDevicesTypeOK
      <3> QED BY <2>1, <3>1 DEF MacReconnects, MacDevicesTypeOK, MacKnows
    <2>2. CASE MacRemoved
      BY <2>2 DEF MacRemoved, macApp, MacUpsets, MacDevicesTypeOK, MacOwns, MacStages, MacKnows
    <2> QED BY <2>1, <2>2
  <1>4. MacDevicesTypeOK' /\ MacMinted'
    BY <1>1, <1>3 DEF MacDevicesTypeOK, MacMinted
  <1>5. MacRetries'
    BY <1>1, <1>2 DEF MacRetries, NoneTaken, With, WillHave
  <1>6. MacStages'
    BY <1>1, <1>3 DEF MacOwns, MacStages
  <1>7. ASSUME NoneOvertook' PROVE MacKnows'
    <2>1. MacKnows
      BY <1>3, <1>7 DEF MacOwns, NoneOvertook
    <2>2. macWanted => WillHad(macAccount, macSocket'.id) /\ (macDevice # Nothing => WillHad(macAccount, macDevice))
      BY <1>2, <1>3, <2>1 DEF RowsStay, MacKnows
    <2> QED BY <1>1, <1>3, <2>1, <2>2 DEF MacKnows, Had, WillHad
  <1> QED BY <1>2, <1>4, <1>5, <1>6, <1>7 DEF RowsStay, MacOwns

\* MacRefreshes, MacRefreshEnds, MacRefreshFails: tokens that are not the account's
\* are noted, and nothing else is touched.
LEMMA MacRefreshKeeps ==
    ASSUME TableInv, MacDeviceInv, MacRefreshes \/ MacRefreshEnds \/ MacRefreshFails
    PROVE  TableInv' /\ MacDeviceInv'
  <1> USE DEF MacDeviceInv
  <1>1. UNCHANGED <<device, minted, stage, onboarding, settingsOpen, macDevice, macWanted, macSocket, job>>
    BY DEF MacRefreshes, MacRefreshEnds, MacRefreshFails, macApp
  <1>2. TableInv'
    BY <1>1, RowsSame DEF TableInv, TableTypeOK, RowsStay
  <1>3. /\ {macAccount', macRefresh'} \subseteq Account \cup {Nothing}
        /\ macKept' \in KeptRec /\ macKept'.ident = macKept.ident
        /\ macUpset \subseteq macUpset' /\ macUpset' \subseteq MacUpsets
        /\ macAccount' # macAccount => "overtaken" \in macUpset' /\ macAccount' # Nothing
    BY DEF MacRefreshes, MacRefreshEnds, MacRefreshFails, macApp, MacUpset, MacUpsets, MacDevicesTypeOK, KeptRec
  <1>4. MacDevicesTypeOK' /\ MacMinted' /\ MacRetries'
    BY <1>1, <1>3 DEF MacDevicesTypeOK, MacMinted, MacRetries, With
  <1>5. MacStages'
    BY <1>1, <1>3 DEF MacOwns, MacStages
  <1>6. ASSUME NoneOvertook' PROVE MacKnows'
    BY <1>1, <1>3, <1>6 DEF MacOwns, NoneOvertook, MacKnows, Had
  <1> QED BY <1>2, <1>4, <1>5, <1>6 DEF MacOwns

\* Every step of the Mac keeps the invariant.
LEMMA MacKeepsDevices ==
    ASSUME TableInv, MacDeviceInv, MacAppSteps
    PROVE  TableInv' /\ MacDeviceInv'
  BY StageKeeps, MacAuthKeeps, BeginKeeps, BootKeeps, MacRegisterKeeps, EndKeeps, RefusedKeeps, SocketKeeps,
     MacRefreshKeeps
     DEF MacAppSteps

\* The Mac that was never launched.
LEMMA MacAtRest == MacDevicesInit => MacDeviceInv
  <1> SUFFICES ASSUME MacDevicesInit PROVE MacDeviceInv
    OBVIOUS
  <1>1. Off \in JobRec /\ Off.at = "idle"
    BY DEF Off, JobRec
  <1>2. MacDevicesTypeOK
    BY <1>1 DEF MacDevicesInit, MacDevicesTypeOK, Presented, NoSocket, KeptRec
  <1>3. MacMinted /\ MacRetries /\ MacOwns
    BY <1>1 DEF MacDevicesInit, MacMinted, MacRetries, MacOwns, MacStages, NoneOvertook, MacKnows
  <1> QED BY <1>2, <1>3 DEF MacDeviceInv

-----------------------------------------------------------------------------
\* The invariant of the two apps and the table they share.
THEOREM DevicesInvariance == DevicesSpec => []DevicesInv
  <1>1. DevicesInit => DevicesInv
    <2> SUFFICES ASSUME DevicesInit PROVE DevicesInv
      OBVIOUS
    <2>1. TableInv
      <3>1. Unused \in RowRec
        BY DEF Unused, RowRec
      <3> QED BY <3>1 DEF DevicesInit, TableInit, TableInv, TableTypeOK, IdentsMinted, Unused
    <2> QED BY <2>1, PhoneAtRest, MacAtRest DEF DevicesInit, DevicesInv
  <1>2. DevicesInv /\ [DevicesNext]_devicesVars => DevicesInv'
    <2> SUFFICES ASSUME DevicesInv, [DevicesNext]_devicesVars PROVE DevicesInv'
      OBVIOUS
    <2>1. TableInv /\ PhoneDeviceInv /\ MacDeviceInv
      BY DEF DevicesInv
    <2>2. CASE app = "phone" /\ PhoneSteps /\ UNCHANGED <<macBook, app>>
      <3>1. TableInv' /\ PhoneDeviceInv'
        BY <2>1, <2>2, PhoneKeepsDevices
      <3>2. MacDevicesInit'
        BY <2>2 DEF DevicesInv, MacDevicesInit, macBook, macApp, macEnv
      <3>3. MacDeviceInv'
        BY <3>2, MacAtRest, PTL
      <3> QED BY <2>2, <3>1, <3>2, <3>3 DEF DevicesInv
    <2>3. CASE app = "mac" /\ MacAppSteps /\ UNCHANGED <<iphone, app>>
      <3>1. TableInv' /\ MacDeviceInv'
        BY <2>1, <2>3, MacKeepsDevices
      <3>2. PhoneDevicesInit'
        BY <2>3 DEF DevicesInv, PhoneDevicesInit, iphone, tokens, install, store, phoneEnv
      <3>3. PhoneDeviceInv'
        BY <3>2, PhoneAtRest, PTL
      <3> QED BY <2>3, <3>1, <3>2, <3>3 DEF DevicesInv
    <2>4. CASE UNCHANGED devicesVars
      <3>1. UNCHANGED <<device, minted, iphone, macBook, app>>
        BY <2>4 DEF devicesVars
      <3>2. TableInv'
        BY <2>1, <3>1, RowsSame DEF TableInv, TableTypeOK, RowsStay
      <3>3. PhoneDeviceInv'
        BY <2>1, <3>1 DEF iphone, tokens, install, store, phoneEnv, PhoneDeviceInv, PhoneDevicesTypeOK, PhoneMinted,
           PhoneRetries, PhoneOwns, Calm, RunsKnow, SocketKnows, PairsRead, PairsLoaded, Owns, With, Active,
           HasDevice
      <3>4. MacDeviceInv'
        BY <2>1, <3>1 DEF macBook, macApp, macEnv, MacDeviceInv, MacDevicesTypeOK, MacMinted, MacRetries,
           MacOwns, MacStages, NoneOvertook, MacKnows, Had, With
      <3>5. \/ (app = "phone" /\ MacDevicesInit)'
            \/ (app = "mac" /\ PhoneDevicesInit)'
        <4>1. CASE app = "phone" /\ MacDevicesInit
          BY <3>1, <4>1 DEF MacDevicesInit, macBook, macApp, macEnv
        <4>2. CASE app = "mac" /\ PhoneDevicesInit
          BY <3>1, <4>2 DEF PhoneDevicesInit, iphone, tokens, install, store, phoneEnv
        <4> QED BY <4>1, <4>2 DEF DevicesInv
      <3> QED BY <3>2, <3>3, <3>4, <3>5 DEF DevicesInv
    <2> QED BY <2>2, <2>3, <2>4 DEF DevicesNext
  <1> QED BY <1>1, <1>2, PTL DEF DevicesSpec

\* Every variable has its type: the table, the iPhone's and the Mac's.
THEOREM DevicesTypeCorrect == DevicesSpec => []DevicesTypeOK
  <1>1. DevicesInv => DevicesTypeOK
    BY DEF DevicesInv, TableInv, PhoneDeviceInv, MacDeviceInv, DevicesTypeOK
  <1> QED BY <1>1, DevicesInvariance, PTL

\* Whoever was signed in before, and whatever was refused or removed, the socket
\* an app keeps is for a device of the account whose token it presents, until tokens
\* of another account, refreshed since an earlier sign-in, are stored over its own
\* (and, on the iPhone, unless an id was used unchecked or an earlier sign-in's run
\* or socket was still about).
THEOREM ConnectsAsOwnDevice == DevicesSpec => []ConnectsAsOwn
  <1>1. DevicesInv => ConnectsAsOwn
    <2> SUFFICES ASSUME DevicesInv PROVE ConnectsAsOwn
      OBVIOUS
    <2>1. ASSUME Calm PROVE IsOwn(socket, user)
      <3>1. CASE wanted
        BY <2>1, <3>1 DEF DevicesInv, PhoneDeviceInv, PhoneOwns, SocketKnows, Owns, IsOwn
      <3>2. CASE ~wanted
        BY <3>2 DEF DevicesInv, PhoneDeviceInv, PhoneOwns, IsOwn, NoSocket
      <3> QED BY <3>1, <3>2
    <2>2. ASSUME "overtaken" \notin macUpset PROVE IsOwn(macSocket, macAccount)
      <3>1. CASE macWanted
        BY <2>2, <3>1 DEF DevicesInv, MacDeviceInv, MacOwns, MacStages, NoneOvertook, MacKnows, Had, IsOwn
      <3>2. CASE ~macWanted
        BY <3>2 DEF DevicesInv, MacDeviceInv, MacOwns, MacStages, NoneOvertook, MacKnows, IsOwn, NoSocket
      <3> QED BY <3>1, <3>2
    <2> QED BY <2>1, <2>2 DEF ConnectsAsOwn, Calm
  <1> QED BY <1>1, DevicesInvariance, PTL

\* The list of Macs tells the truth about the pair of the device it was loaded for.
THEOREM PairsAreKnown == DevicesSpec => []PairsKnown
  <1>1. DevicesInv => PairsKnown
    BY DEF DevicesInv, PhoneDeviceInv, PhoneOwns, PairsLoaded, Calm, PairsKnown
  <1> QED BY <1>1, DevicesInvariance, PTL

\* "Minting a fresh one and retrying exactly once" is enough: the identifier that
\* is minted after a refusal is refused by nobody, for either app; on the iPhone
\* unless a run, a socket or a refresh of an earlier sign-in, or an unchecked id, is in play.
RetriesAccepted ==
    /\ Calm => \A e \in Run : run[e].at = "register" /\ run[e].again => ~Conflicts(run[e].as, run[e].ident)
    /\ job.at = "again" => ~Conflicts(job.as, job.ident)

THEOREM RetriesAreAccepted == DevicesSpec => []RetriesAccepted
  <1>1. DevicesInv => RetriesAccepted
    BY DEF DevicesInv, PhoneDeviceInv, MacDeviceInv, PhoneRetries, MacRetries, RetriesAccepted, Conflicts
  <1> QED BY <1>1, DevicesInvariance, PTL

=============================================================================
