----------------------------- MODULE MacSession -----------------------------
(***************************************************************************)
(* The Mac's side of a screen session (AppState.swift): the peer           *)
(* connection that answers the iPhone's offer, its time-out, and the       *)
(* screen capture that starts once the data channel is open.               *)
(*                                                                         *)
(* AppState is confined to the main actor, so a function runs from one     *)
(* await to the next in one step.  What outlives a session is kept per     *)
(* session: its start task, its time-out, its offers being accepted and    *)
(* its capture.  The offers with which the Mac renegotiates for video, and *)
(* ICE candidates, change nothing that is modelled here.                   *)
(***************************************************************************)
EXTENDS SessionLink

VARIABLES
    activeWebRTCSessionId,
    macClient,           \* session of webrtcClient, or None
    pendingOffer,        \* an offer that came before the client, or None
    macState,            \* webrtcConnectionState
    fetching,            \* sessions whose start task waits for the ICE servers
    deadlines,           \* sessions whose 20 s have not passed
    accepting,           \* offers being accepted
    screenShareState,
    screenCapture,       \* session of the capture that is held, or None
    capture,             \* each session's ScreenCaptureManager; "lost": see CaptureLost
    stopping             \* captures whose stop() is scheduled

session   == <<activeWebRTCSessionId, macClient, pendingOffer, macState>>
macTasks  == <<fetching, deadlines, accepting>>
share     == <<screenShareState, screenCapture, capture, stopping>>
mac       == <<session, macTasks, share>>

Offer == [session : Session, offer : Attempt]

MacInit ==
    /\ activeWebRTCSessionId = None /\ macClient = None /\ pendingOffer = None
    /\ macState = "idle"
    /\ fetching = {} /\ deadlines = {} /\ accepting = {}
    /\ screenShareState = "idle" /\ screenCapture = None
    /\ capture = [s \in Session |-> "none"]
    /\ stopping = {}

MacTypeOK ==
    /\ activeWebRTCSessionId \in Session \cup {None}
    /\ macClient \in Session \cup {None}
    /\ pendingOffer \in Offer \cup {None}
    /\ macState \in {"idle", "negotiating", "connected", "disconnected", "failed"}
    /\ fetching \subseteq Session /\ deadlines \subseteq Session /\ stopping \subseteq Session
    /\ accepting \subseteq Offer
    /\ screenShareState \in {"idle", "missingPermissions", "starting", "active", "failed"}
    /\ screenCapture \in Session \cup {None}
    /\ capture \in [Session -> {"none", "starting", "running", "stopped", "lost"}]

-----------------------------------------------------------------------------
\* close() of a client: its peer connection, and with it the channel.
Closed(s) ==
    [x \in Session |-> IF x = s THEN [peer[x] EXCEPT !.conn = "closed"] ELSE peer[x]]

\* Mutants: teardown keeps an early offer; stops a capture it does not have.
KeepsOffer == pendingOffer
StopsAny   == {screenCapture}

DropsOffer == None
ToStop     == {screenCapture} \ {None}

\* teardownWebRTCSession, followed by the session that takes its place.
TeardownFor(next, state) ==
    /\ peer' = Closed(macClient)
    /\ macClient' = None /\ pendingOffer' = DropsOffer
    /\ activeWebRTCSessionId' = next /\ macState' = state
    /\ screenCapture' = None /\ screenShareState' = "idle"
    /\ stopping' = stopping \cup ToStop
    /\ UNCHANGED capture

Teardown == TeardownFor(None, "idle")

Delivered(type) ==
    /\ toMac # <<>> /\ Head(toMac).type = type
    /\ toMac' = Tail(toMac)

Current(s) == s = activeWebRTCSessionId

\* session.start: startWebRTCSession up to its two tasks.
MacStart ==
    /\ Delivered("session.start")
    /\ LET s == Head(toMac).session
       IN  /\ TeardownFor(s, "negotiating")
           /\ fetching' = fetching \cup {s}
           /\ deadlines' = deadlines \cup {s}
    /\ UNCHANGED <<sig, asked, created, toPhone, pc, accepting>>

\* Mutant: the task goes on for whichever session it was started.
ProceedsAnyway(s) == TRUE

Proceeds(s) == Current(s)

\* The ICE servers are there: create the client, unless the session has ended,
\* and start to accept an offer that came before it.
FetchOk(s) ==
    /\ s \in fetching
    /\ fetching' = fetching \ {s}
    /\ IF Proceeds(s)
       THEN LET early == pendingOffer # None /\ pendingOffer.session = s
            IN  /\ macClient' = s
                /\ peer' = [peer EXCEPT ![s].conn = "open"]
                /\ pendingOffer' = IF early THEN None ELSE pendingOffer
                /\ accepting' = IF early THEN accepting \cup {pendingOffer} ELSE accepting
       ELSE UNCHANGED <<macClient, peer, pendingOffer, accepting>>
    /\ UNCHANGED <<sig, wires, pc, activeWebRTCSessionId, macState, deadlines, share>>

\* No token, no ICE servers: whichever session is active is marked failed.
FetchFails(s) ==
    /\ s \in fetching
    /\ fetching' = fetching \ {s}
    /\ macState' = "failed"
    /\ UNCHANGED <<link, activeWebRTCSessionId, macClient, pendingOffer,
                   deadlines, accepting, share>>

\* handleWebRTCOffer, up to acceptOffer.
RecvOffer ==
    /\ Delivered("webrtc.offer")
    /\ LET o == [session |-> Head(toMac).session, offer |-> Head(toMac).offer]
       IN  IF ~Current(o.session) THEN UNCHANGED <<pendingOffer, accepting>>
           ELSE IF macClient = None
           THEN pendingOffer' = o /\ UNCHANGED accepting
           ELSE accepting' = accepting \cup {o} /\ UNCHANGED pendingOffer
    /\ UNCHANGED <<sig, asked, created, toPhone, peers, activeWebRTCSessionId, macClient,
                   macState, fetching, deadlines, share>>

\* acceptOffer succeeds on an open connection; the answer goes out whatever
\* has become of the session.
Accepted(o) ==
    /\ o \in accepting /\ peer[o.session].conn = "open"
    /\ accepting' = accepting \ {o}
    /\ peer' = [peer EXCEPT ![o.session].offer = o.offer]
    /\ IF macConnected THEN SendToPhone(AnswerMsg(o.session, o.offer)) ELSE UNCHANGED toPhone
    /\ UNCHANGED <<sig, asked, created, toMac, pc, session, fetching, deadlines, share>>

\* It throws on a closed one: whichever session is active is marked failed.
AcceptThrows(o) ==
    /\ o \in accepting /\ peer[o.session].conn = "closed"
    /\ accepting' = accepting \ {o}
    /\ macState' = "failed"
    /\ UNCHANGED <<link, activeWebRTCSessionId, macClient, pendingOffer,
                   fetching, deadlines, share>>

\* Twenty seconds after the start.
Deadline(s) ==
    /\ s \in deadlines
    /\ deadlines' = deadlines \ {s}
    /\ IF Current(s) /\ macState = "negotiating"
       THEN Teardown
       ELSE UNCHANGED <<peer, session, share>>
    /\ UNCHANGED <<sig, wires, pc, fetching, accepting>>

\* disconnectSignaling and signOut, by the user of the Mac.
MacDisconnects ==
    /\ macConnected
    /\ macConnected' = FALSE
    /\ toMac' = <<>>
    /\ Teardown
    /\ UNCHANGED <<connectionStatus, socket, asked, created, toPhone, pc, macTasks>>

-----------------------------------------------------------------------------
\* onConnectionStateChange: a peer connection that has its offer connects once
\* it is linked, and may drop and come back, or fail.  That it is connecting is
\* a step only where it is news.
Reports(s, state) ==
    CASE state = "connecting"   -> peer[s].state = "new" /\ macState # "negotiating"
      [] state = "connected"    -> /\ peer[s].state # "connected"
                                   /\ \E a \in Attempt : Linked(a, s)
      [] state = "disconnected" -> peer[s].state = "connected"
      [] state = "failed"       -> peer[s].state # "connected"

PeerReports(s, state) ==
    /\ s = macClient /\ peer[s].offer # None
    /\ Reports(s, state)
    /\ IF state = "failed"
       THEN Teardown
       ELSE /\ macState' = IF state = "connecting" THEN "negotiating" ELSE state
            /\ peer' = [peer EXCEPT ![s].state = state]
            /\ UNCHANGED <<activeWebRTCSessionId, macClient, pendingOffer, share>>
    /\ UNCHANGED <<sig, wires, pc, macTasks>>

\* onDataChannelOpen: maybeStartScreenShare.
MacChannelOpens(s, permitted) ==
    /\ \E a \in Attempt : Linked(a, s)
    /\ s = macClient /\ peer[s].state = "connected"
    /\ ~peer[s].channel
    /\ peer' = [peer EXCEPT ![s].channel = TRUE]
    /\ IF ~permitted
       THEN screenShareState' = "missingPermissions" /\ UNCHANGED <<screenCapture, capture>>
       ELSE IF screenShareState \in {"starting", "active"}
       THEN UNCHANGED <<screenShareState, screenCapture, capture>>
       ELSE /\ screenShareState' = "starting"
            /\ screenCapture' = s
            /\ capture' = [capture EXCEPT ![s] = "starting"]
    /\ UNCHANGED <<sig, wires, pc, session, macTasks, stopping>>

\* Mutant: a capture that is ready shares for whichever session there is.
SharesAnyway(s, trackAdded) == IF trackAdded THEN "active" ELSE "failed"

Shares(s, trackAdded) ==
    IF ~Current(s) THEN screenShareState
    ELSE IF trackAdded THEN "active" ELSE "failed"

\* capture.start() returns; a session that has ended leaves it running.
CaptureStarted(s, trackAdded) ==
    /\ capture[s] = "starting"
    /\ capture' = [capture EXCEPT ![s] = "running"]
    /\ screenShareState' = Shares(s, trackAdded)
    /\ UNCHANGED <<link, session, macTasks, screenCapture, stopping>>

\* The system stops the capture after startCapture() has returned and before the
\* main actor goes on, whose own verdict is then the last.
CaptureLost(s, trackAdded) ==
    /\ capture[s] = "starting"
    /\ capture' = [capture EXCEPT ![s] = "lost"]
    /\ screenShareState' = Shares(s, trackAdded)
    /\ UNCHANGED <<link, session, macTasks, screenCapture, stopping>>

\* It throws: the state of whichever session is active becomes failed.
CaptureFails(s) ==
    /\ capture[s] = "starting"
    /\ capture' = [capture EXCEPT ![s] = "stopped"]
    /\ screenShareState' = "failed"
    /\ UNCHANGED <<link, session, macTasks, screenCapture, stopping>>

\* The system stops a capture (onStopped).
CaptureDies(s) ==
    /\ capture[s] = "running"
    /\ capture' = [capture EXCEPT ![s] = "stopped"]
    /\ screenShareState' = IF Current(s) THEN "failed" ELSE screenShareState
    /\ UNCHANGED <<link, session, macTasks, screenCapture, stopping>>

\* stop() finds no stream as long as start() has not returned.
StopRuns(s) ==
    /\ s \in stopping
    /\ stopping' = stopping \ {s}
    /\ capture' = [capture EXCEPT ![s] = IF @ = "running" THEN "stopped" ELSE @]
    /\ UNCHANGED <<link, session, macTasks, screenShareState, screenCapture>>

\* What goes wrong around the Mac.
MacFault ==
    \/ MacDisconnects
    \/ \E s \in Session :
          \/ FetchFails(s) \/ Deadline(s)
          \/ \E state \in {"disconnected", "failed"} : PeerReports(s, state)
          \/ MacChannelOpens(s, FALSE) \/ CaptureStarted(s, FALSE)
          \/ \E added \in BOOLEAN : CaptureLost(s, added)
          \/ CaptureFails(s) \/ CaptureDies(s)

MacStep ==
    \/ MacStart \/ RecvOffer
    \/ \E s \in Session :
          \/ FetchOk(s)
          \/ \E state \in {"connecting", "connected"} : PeerReports(s, state)
          \/ MacChannelOpens(s, TRUE) \/ CaptureStarted(s, TRUE)
          \/ StopRuns(s)
    \/ \E o \in accepting : Accepted(o) \/ AcceptThrows(o)
=============================================================================
