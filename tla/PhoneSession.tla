---------------------------- MODULE PhoneSession ----------------------------
(***************************************************************************)
(* The iPhone's side of a screen session (pairingStore.ts):                *)
(* establishConnection, the recovery timers of Screen Mode, and what       *)
(* signaling and the peer connection call back.                            *)
(*                                                                         *)
(* The store runs on one thread; a function runs from one await to the     *)
(* next in one step.  Several calls of establishConnection may be          *)
(* suspended at once and share webrtcClient, sessionId and the two pending *)
(* promises.  A promise that is rejected runs the catch of                 *)
(* startScreenSession before any other event, so the catch is part of the  *)
(* step that rejects.                                                      *)
(***************************************************************************)
EXTENDS SessionLink

VARIABLES
    attempt,             \* where each call of establishConnection is suspended
    webrtcClient,        \* attempt whose WebRTCClient is the current one, or None
    sessionId,
    pendingSessionStart, \* attempt whose promise is stored, or None
    pendingAnswer,
    applying,            \* answers handed to setRemoteDescription
    peerState,           \* None stands for null, new and connecting
    peerDisconnectTimer, \* the grace timer runs
    dataChannelStatus,
    screenOpen,          \* activeScreenPairId is set
    screenStatus,        \* screenSessionStatus.kind
    screenRetryTimer,    \* the variable holds a timer
    strayTimers          \* retry timers that run and are held by no variable

\* null is no state of a peer connection.
ASSUME PeerAssumption == None \notin {"connected", "disconnected", "failed"}

store  == <<webrtcClient, sessionId, pendingSessionStart, pendingAnswer>>
watch  == <<peerState, peerDisconnectTimer>>
screen == <<screenOpen, screenStatus, screenRetryTimer, strayTimers>>
phone  == <<attempt, store, applying, watch, dataChannelStatus, screen>>

AttemptRec ==
    [at : {"none", "token", "ice", "start", "offer", "answer", "channel", "done", "failed"},
     kind : {"screen", "test"}, socket : 0..MaxSocket]

Underway(a) == attempt[a].at \notin {"none", "done", "failed"}

PhoneInit ==
    /\ attempt = [a \in Attempt |-> [at |-> "none", kind |-> "screen", socket |-> 0]]
    /\ webrtcClient = None /\ sessionId = None
    /\ pendingSessionStart = None /\ pendingAnswer = None
    /\ applying = {}
    /\ peerState = None /\ peerDisconnectTimer = FALSE
    /\ dataChannelStatus = "idle"
    /\ screenOpen = FALSE /\ screenStatus = "idle"
    /\ screenRetryTimer = FALSE /\ strayTimers = 0

PhoneTypeOK ==
    /\ attempt \in [Attempt -> AttemptRec]
    /\ {webrtcClient, pendingSessionStart, pendingAnswer} \subseteq Attempt \cup {None}
    /\ sessionId \in Session \cup {None}
    /\ applying \subseteq [client : Attempt, session : Session, offer : Attempt]
    /\ peerState \in {None, "connected", "disconnected", "failed"}
    /\ peerDisconnectTimer \in BOOLEAN
    /\ dataChannelStatus \in {"idle", "connecting", "open", "closed"}
    /\ screenOpen \in BOOLEAN /\ screenRetryTimer \in BOOLEAN
    /\ screenStatus \in {"idle", "connecting", "reconnecting", "connected", "failed"}
    /\ strayTimers \in 0..MaxAttempt

-----------------------------------------------------------------------------
(***************************************************************************)
(* startScreenSession: its beginning and its catch.                        *)
(***************************************************************************)

\* Mutant: a rejected attempt leaves it at the failure shown.
NotCaught(failing, shown, held, stray) ==
    /\ screenStatus' = IF failing # {} /\ screenOpen' THEN "failed" ELSE shown
    /\ screenRetryTimer' = held
    /\ strayTimers' = stray

\* Each of the failing attempts of Screen Mode sets a retry timer; only the
\* last one set is held by screenRetryTimer.
Caught(failing, shown, held, stray) ==
    LET n == Cardinality({a \in failing : attempt'[a].kind = "screen"})
    IN  IF n > 0 /\ screenOpen'
        THEN /\ screenStatus' = "failed"
             /\ screenRetryTimer' = TRUE
             /\ strayTimers' = stray + n - (IF held THEN 0 ELSE 1)
        ELSE /\ screenStatus' = shown
             /\ screenRetryTimer' = held
             /\ strayTimers' = stray

Fresh(a) == attempt[a].at = "none" /\ \A b \in 1..(a - 1) : attempt[b].at # "none"

\* The first lines of establishConnection: without signaling it throws.
Start(a, kind, shown, held, stray) ==
    /\ Fresh(a)
    /\ attempt' = [attempt EXCEPT ![a] =
                      [at |-> IF connectionStatus' = "connected" THEN "token" ELSE "failed",
                       kind |-> kind, socket |-> socket]]
    /\ Caught(IF connectionStatus' = "connected" THEN {} ELSE {a}, shown, held, stray)

\* scheduleScreenRecovery
ScheduleRecovery ==
    /\ IF screenOpen /\ ~screenRetryTimer
       THEN screenStatus' = "reconnecting" /\ screenRetryTimer' = TRUE
       ELSE UNCHANGED <<screenStatus, screenRetryTimer>>
    /\ UNCHANGED <<screenOpen, strayTimers>>

OpenScreen(a) ==
    /\ ~screenOpen
    /\ screenOpen' = TRUE
    /\ UNCHANGED <<link, store, applying, watch, dataChannelStatus>>
    /\ Start(a, "screen", "connecting", FALSE, strayTimers)

CloseScreen ==
    /\ screenOpen
    /\ screenOpen' = FALSE
    /\ screenRetryTimer' = FALSE
    /\ UNCHANGED <<link, attempt, store, applying, watch, dataChannelStatus,
                   screenStatus, strayTimers>>

\* testWebrtcConnection, from the Devices screen.
TestConnection(a) ==
    /\ ~screenOpen
    /\ UNCHANGED <<link, store, applying, watch, dataChannelStatus, screenOpen>>
    /\ Start(a, "test", screenStatus, screenRetryTimer, strayTimers)

\* The callback of a retry timer: it forgets whichever timer is held.
TimerFires(a, stray, held) ==
    /\ UNCHANGED <<link, store, applying, watch, dataChannelStatus, screenOpen>>
    /\ IF screenOpen /\ connectionStatus = "connected"
       THEN Start(a, "screen", "reconnecting", held, stray)
       ELSE /\ screenRetryTimer' = held
            /\ strayTimers' = stray
            /\ UNCHANGED <<attempt, screenStatus>>

HeldTimerFires(a) ==
    /\ screenRetryTimer
    /\ TimerFires(a, strayTimers, FALSE)

\* The held timer runs on, but no variable holds it any more.
StrayTimerFires(a) ==
    /\ strayTimers > 0
    /\ TimerFires(a, IF screenRetryTimer THEN strayTimers ELSE strayTimers - 1, FALSE)

-----------------------------------------------------------------------------
(***************************************************************************)
(* establishConnection, from one await to the next.                        *)
(***************************************************************************)

\* Attempts that teardownWebrtc and an error message reject.
Waiting ==
    {a \in Attempt : \/ a = pendingSessionStart /\ attempt[a].at = "start"
                     \/ a = pendingAnswer /\ attempt[a].at = "answer"}

Failed(A) == [a \in Attempt |-> IF a \in A THEN [attempt[a] EXCEPT !.at = "failed"]
                                ELSE attempt[a]]

\* An attempt throws by itself; the attempts that wait for a token share one
\* refresh and resume, or throw, one right after the other.
Throw(A) ==
    /\ attempt' = Failed(A)
    /\ UNCHANGED <<store, applying, watch, dataChannelStatus, screenOpen>>
    /\ Caught(A, screenStatus, screenRetryTimer, strayTimers)

Last(A) == CHOOSE a \in A : \A b \in A : b <= a

AwaitToken == {a \in Attempt : attempt[a].at = "token"}

NoToken ==
    /\ AwaitToken # {}
    /\ Throw(AwaitToken)
    /\ UNCHANGED link

\* teardownWebrtc, a new WebRTCClient, then getIceServers; the client of the
\* last one stays.
TearDown ==
    /\ AwaitToken # {}
    /\ pc' = [x \in Attempt |-> IF x = webrtcClient /\ pc[x].conn = "open"
                                THEN [pc[x] EXCEPT !.conn = "closed"] ELSE pc[x]]
    /\ webrtcClient' = Last(AwaitToken) /\ sessionId' = None
    /\ pendingSessionStart' = None /\ pendingAnswer' = None
    /\ peerState' = None /\ peerDisconnectTimer' = FALSE
    /\ dataChannelStatus' = "idle"
    /\ attempt' = [a \in Attempt |-> IF a \in AwaitToken THEN [attempt[a] EXCEPT !.at = "ice"]
                                     ELSE Failed(Waiting)[a]]
    /\ UNCHANGED screenOpen
    /\ Caught(Waiting, screenStatus, screenRetryTimer, strayTimers)
    /\ UNCHANGED <<sig, wires, peer, applying>>

NoIceServers(a) ==
    /\ attempt[a].at = "ice"
    /\ Throw({a})
    /\ UNCHANGED link

\* client.send drops silently: the client is the one of the attempt's start.
CanSend(a) == connectionStatus = "connected" /\ attempt[a].socket = socket

AskForSession(a) ==
    /\ attempt[a].at = "ice"
    /\ attempt' = [attempt EXCEPT ![a].at = "start"]
    /\ pendingSessionStart' = a
    /\ asked' = IF CanSend(a) THEN asked \cup {a} ELSE asked
    /\ UNCHANGED <<sig, created, toPhone, toMac, peers, webrtcClient, sessionId, pendingAnswer,
                   applying, watch, dataChannelStatus, screen>>

\* session.start from the server resolves whichever promise is pending; its
\* attempt creates the peer connection and the channel of the offer.
RecvStart ==
    /\ toPhone # <<>> /\ Head(toPhone).type = "session.start"
    /\ toPhone' = Tail(toPhone)
    /\ pendingSessionStart' = None
    /\ LET a == pendingSessionStart
       IN  IF a \in Waiting
           THEN /\ sessionId' = Head(toPhone).session
                /\ attempt' = [attempt EXCEPT ![a].at = "offer"]
                /\ pc' = [pc EXCEPT ![a].conn = "open"]
                /\ dataChannelStatus' = "connecting"
           ELSE UNCHANGED <<sessionId, attempt, pc, dataChannelStatus>>
    /\ UNCHANGED <<sig, asked, created, toMac, peer, webrtcClient, pendingAnswer,
                   applying, watch, screen>>

\* createOffer is done; the offer carries the session id the store holds now.
SendOffer(a) ==
    /\ attempt[a].at = "offer" /\ pc[a].conn = "open"
    /\ attempt' = [attempt EXCEPT ![a].at = "answer"]
    /\ pendingAnswer' = a
    /\ IF ~CanSend(a) THEN UNCHANGED <<toMac, toPhone>>
       ELSE IF sessionId = None THEN SendToPhone(ErrorMsg) /\ UNCHANGED toMac
       ELSE SendToMac(OfferMsg(sessionId, a)) /\ UNCHANGED toPhone
    /\ UNCHANGED <<sig, asked, created, peers, webrtcClient, sessionId, pendingSessionStart,
                   applying, watch, dataChannelStatus, screen>>

\* The peer connection was closed under createOffer.
OfferThrows(a) ==
    /\ attempt[a].at = "offer" /\ pc[a].conn = "closed"
    /\ Throw({a})
    /\ UNCHANGED link

\* The three time-outs.
TimesOut(a) ==
    /\ attempt[a].at \in {"start", "answer", "channel"}
    /\ Throw({a})
    /\ UNCHANGED link

\* webrtc.answer: handed to the current client if it is for the current session.
RecvAnswer ==
    /\ toPhone # <<>> /\ Head(toPhone).type = "webrtc.answer"
    /\ toPhone' = Tail(toPhone)
    /\ applying' = IF webrtcClient # None /\ Head(toPhone).session = sessionId
                   THEN applying \cup {[client |-> webrtcClient, session |-> sessionId,
                                        offer |-> Head(toPhone).offer]}
                   ELSE applying
    /\ UNCHANGED <<sig, asked, created, toMac, peers, attempt, store, watch,
                   dataChannelStatus, screen>>

\* setRemoteAnswer resolves or rejects the promise that is pending by then.
\* It fails on a closed connection and on an answer to another one's offer.
ApplyAnswer(r) ==
    /\ r \in applying
    /\ applying' = applying \ {r}
    /\ LET applies == pc[r.client].conn = "open" /\ r.offer = r.client
           p == pendingAnswer
       IN  /\ pc' = IF applies THEN [pc EXCEPT ![r.client].session = r.session] ELSE pc
           /\ attempt' = IF p \notin Waiting \/ attempt[p].at # "answer" THEN attempt
                         ELSE IF applies
                         THEN [attempt EXCEPT ![p].at =
                                  IF dataChannelStatus = "open" THEN "done" ELSE "channel"]
                         ELSE Failed({p})
           /\ UNCHANGED screenOpen
           /\ Caught(IF attempt' # attempt /\ ~applies THEN {p} ELSE {},
                     IF attempt' # attempt /\ attempt'[p].at = "done" /\ screenOpen
                        /\ attempt[p].kind = "screen" THEN "connected" ELSE screenStatus,
                     screenRetryTimer, strayTimers)
    /\ UNCHANGED <<sig, wires, peer, store, watch, dataChannelStatus>>

\* An error message fails whatever is pending.
RecvError ==
    /\ toPhone # <<>> /\ Head(toPhone).type = "error"
    /\ toPhone' = Tail(toPhone)
    /\ pendingSessionStart' = None /\ pendingAnswer' = None
    /\ attempt' = Failed(Waiting)
    /\ UNCHANGED screenOpen
    /\ Caught(Waiting, screenStatus, screenRetryTimer, strayTimers)
    /\ UNCHANGED <<sig, asked, created, toMac, peers, webrtcClient, sessionId,
                   applying, watch, dataChannelStatus>>

-----------------------------------------------------------------------------
(***************************************************************************)
(* Events of the peer connection and of its data channel.                  *)
(***************************************************************************)

PeerConnected(a) ==
    /\ a = webrtcClient
    /\ \E s \in Session : Linked(a, s)
    /\ peerState \in {None, "disconnected"}
    /\ peerState' = "connected"
    /\ peerDisconnectTimer' = FALSE
    /\ UNCHANGED <<link, attempt, store, applying, dataChannelStatus, screen>>

PeerDisconnected ==
    /\ peerState = "connected"
    /\ peerState' = "disconnected"
    /\ peerDisconnectTimer' = TRUE
    /\ UNCHANGED <<link, attempt, store, applying, dataChannelStatus, screen>>

PeerFailed(a) ==
    /\ a = webrtcClient
    /\ pc[a].conn = "open" /\ pc[a].session # None
    /\ peerState # "failed"
    /\ peerState' = "failed"
    /\ peerDisconnectTimer' = FALSE
    /\ ScheduleRecovery
    /\ UNCHANGED <<link, attempt, store, applying, dataChannelStatus>>

GraceEnds ==
    /\ peerDisconnectTimer
    /\ peerDisconnectTimer' = FALSE
    /\ IF peerState # "connected" THEN ScheduleRecovery ELSE UNCHANGED screen
    /\ UNCHANGED <<link, attempt, store, applying, peerState, dataChannelStatus>>

\* The status callback of a client is not checked against the current one.
ChannelOpens(a) ==
    /\ a = webrtcClient /\ peerState = "connected"
    /\ pc[a].conn = "open" /\ pc[a].channel = "none"
    /\ pc' = [pc EXCEPT ![a].channel = "open"]
    /\ dataChannelStatus' = "open"
    /\ LET finishes == attempt[a].at = "channel"
       IN  /\ attempt' = IF finishes THEN [attempt EXCEPT ![a].at = "done"] ELSE attempt
           /\ screenStatus' = IF finishes /\ attempt[a].kind = "screen" /\ screenOpen
                              THEN "connected" ELSE screenStatus
    /\ UNCHANGED <<sig, wires, peer, store, applying, watch,
                   screenOpen, screenRetryTimer, strayTimers>>

ChannelCloses(a) ==
    /\ pc[a].channel = "open"
    /\ \A s \in Session : ~Linked(a, s)
    /\ pc' = [pc EXCEPT ![a].channel = "closed"]
    /\ dataChannelStatus' = "closed"
    /\ UNCHANGED <<sig, wires, peer, attempt, store, applying, watch, screen>>

-----------------------------------------------------------------------------
\* Signaling is up: onSignalingConnected.  The socket was opened with a token,
\* and whoever awaited one shared that refresh and has gone on by now.
SignalingConnected(a) ==
    /\ connectionStatus = "connecting" /\ AwaitToken = {}
    /\ connectionStatus' = "connected"
    /\ UNCHANGED <<socket, macConnected, wires, peers, store, applying, watch,
                   dataChannelStatus>>
    /\ IF ~screenOpen \/ peerState = "connected" \/ screenRetryTimer
       THEN UNCHANGED <<attempt, screen>>
       ELSE IF screenStatus = "connecting" THEN UNCHANGED <<attempt, screen>>
       ELSE IF screenStatus = "reconnecting"
       THEN ScheduleRecovery /\ UNCHANGED attempt
       ELSE /\ UNCHANGED screenOpen
            /\ Start(a, "screen", "reconnecting", FALSE, strayTimers)

\* What goes wrong around the iPhone.
PhoneFault ==
    \/ \E a \in Attempt :
          NoIceServers(a) \/ TimesOut(a) \/ PeerFailed(a)
    \/ NoToken \/ PeerDisconnected

PhoneStep ==
    \/ \E a \in Attempt :
          \/ OpenScreen(a) \/ TestConnection(a)
          \/ HeldTimerFires(a) \/ StrayTimerFires(a)
          \/ AskForSession(a)
          \/ SendOffer(a) \/ OfferThrows(a)
          \/ PeerConnected(a)
          \/ ChannelOpens(a) \/ ChannelCloses(a)
          \/ SignalingConnected(a)
    \/ CloseScreen \/ TearDown
    \/ RecvStart \/ RecvAnswer \/ RecvError
    \/ \E r \in applying : ApplyAnswer(r)
    \/ GraceEnds
=============================================================================
