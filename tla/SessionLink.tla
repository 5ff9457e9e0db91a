---------------------------- MODULE SessionLink ----------------------------
(***************************************************************************)
(* What lies between the iPhone and the Mac while a screen session is set  *)
(* up: the signaling sockets, the server that hands out session ids and    *)
(* relays, and the two peer connections.                                   *)
(*                                                                         *)
(* An attempt is one call of the iPhone's establishConnection; sessions    *)
(* are numbered in the order the server creates them.  What the relay      *)
(* promises is modelled in SessionRelay; here it is a queue to each end    *)
(* that loses its contents with the socket.                                *)
(***************************************************************************)
EXTENDS Naturals, Sequences, FiniteSets

CONSTANTS
    None,
    MaxAttempt,      \* bound: calls of establishConnection
    MaxSession,      \* bound: rows the server creates
    MaxSocket        \* bound: signaling sockets the iPhone opens

ASSUME LinkAssumption ==
    /\ MaxAttempt \in Nat /\ MaxSession \in Nat /\ MaxSocket \in Nat \ {0}
    /\ None \notin Nat

Attempt == 1..MaxAttempt
Session == 1..MaxSession

VARIABLES
    connectionStatus, \* the iPhone's signaling: disconnected, connecting, connected
    socket,           \* number of its current signaling socket
    macConnected,     \* the Mac's socket is open
    asked,            \* attempts whose session.start the server is working on
    created,          \* sessions created so far
    toPhone, toMac,   \* messages under way, in order
    pc,               \* the iPhone's peer connection of each attempt
    peer              \* the Mac's peer connection of each session

sig   == <<connectionStatus, socket, macConnected>>
wires == <<asked, created, toPhone, toMac>>
peers == <<pc, peer>>
link  == <<sig, wires, peers>>

\* session: whose answer was applied; offer: whose offer was accepted.
PcRec   == [conn : {"none", "open", "closed"}, session : Session \cup {None},
            channel : {"none", "open", "closed"}]
PeerRec == [conn : {"none", "open", "closed"}, offer : Attempt \cup {None},
            state : {"new", "connecting", "connected", "disconnected"},
            channel : BOOLEAN]

StartMsg(s)     == [type |-> "session.start", session |-> s, offer |-> None]
OfferMsg(s, a)  == [type |-> "webrtc.offer",  session |-> s, offer |-> a]
AnswerMsg(s, a) == [type |-> "webrtc.answer", session |-> s, offer |-> a]
ErrorMsg        == [type |-> "error", session |-> None, offer |-> None]

Msg == [type : {"session.start", "webrtc.offer", "webrtc.answer", "error"},
        session : Session \cup {None}, offer : Attempt \cup {None}]

LinkInit ==
    /\ connectionStatus = "connected" /\ socket = 1 /\ macConnected = TRUE
    /\ asked = {} /\ created = 0
    /\ toPhone = <<>> /\ toMac = <<>>
    /\ pc   = [a \in Attempt |-> [conn |-> "none", session |-> None, channel |-> "none"]]
    /\ peer = [s \in Session |-> [conn |-> "none", offer |-> None, state |-> "new",
                               channel |-> FALSE]]

LinkTypeOK ==
    /\ connectionStatus \in {"disconnected", "connecting", "connected"}
    /\ socket \in 1..MaxSocket
    /\ macConnected \in BOOLEAN
    /\ asked \subseteq Attempt
    /\ created \in 0..MaxSession
    /\ toPhone \in Seq(Msg) /\ toMac \in Seq(Msg)
    /\ pc \in [Attempt -> PcRec]
    /\ peer \in [Session -> PeerRec]

\* Offer and answer have met: the two ends can reach each other.
Linked(a, s) ==
    /\ pc[a].conn = "open"   /\ pc[a].session = s
    /\ peer[s].conn = "open" /\ peer[s].offer = a

\* registry.send: dropped when the device has no open socket.
SendToPhone(m) ==
    toPhone' = IF connectionStatus = "connected" THEN Append(toPhone, m) ELSE toPhone
SendToMac(m) ==
    toMac' = IF macConnected THEN Append(toMac, m) ELSE toMac

-----------------------------------------------------------------------------
\* handleSessionStart, to its end: the ack goes to the socket that asked,
\* the notice to the Mac's socket of now.
CreateSession(a, asker) ==
    /\ a \in asked
    /\ created < MaxSession
    /\ asked' = asked \ {a}
    /\ created' = created + 1
    /\ toPhone' = IF connectionStatus = "connected" /\ asker = socket
                  THEN Append(toPhone, StartMsg(created + 1)) ELSE toPhone
    /\ SendToMac(StartMsg(created + 1))
    /\ UNCHANGED <<sig, peers>>

\* It finds the pair no longer approved.
RefuseSession(a, asker) ==
    /\ a \in asked
    /\ asked' = asked \ {a}
    /\ toPhone' = IF connectionStatus = "connected" /\ asker = socket
                  THEN Append(toPhone, ErrorMsg) ELSE toPhone
    /\ UNCHANGED <<sig, created, toMac, peers>>

\* A socket that breaks takes the messages under way to it along.
PhoneLost ==
    /\ connectionStatus # "disconnected"
    /\ connectionStatus' = "disconnected"
    /\ toPhone' = <<>>
    /\ UNCHANGED <<socket, macConnected, asked, created, toMac, peers>>

\* reconnectSignaling opens a new socket, once it has a token.
PhoneReopens ==
    /\ connectionStatus = "disconnected"
    /\ socket < MaxSocket
    /\ connectionStatus' = "connecting"
    /\ socket' = socket + 1
    /\ UNCHANGED <<macConnected, wires, peers>>

MacLost ==
    /\ macConnected
    /\ macConnected' = FALSE
    /\ toMac' = <<>>
    /\ UNCHANGED <<connectionStatus, socket, asked, created, toPhone, peers>>

\* refreshThenConnectSignaling; a Mac that reconnects keeps its session.
MacReconnects ==
    /\ ~macConnected
    /\ macConnected' = TRUE
    /\ UNCHANGED <<connectionStatus, socket, wires, peers>>
=============================================================================
