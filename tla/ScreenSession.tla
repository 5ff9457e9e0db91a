--------------------------- MODULE ScreenSession ---------------------------
(***************************************************************************)
(* A screen session from both ends: PhoneSession and MacSession over       *)
(* SessionLink.                                                            *)
(***************************************************************************)
EXTENDS PhoneSession, MacSession

CONSTANT MaxFault    \* bound: things that go wrong
ASSUME FaultAssumption == MaxFault \in Nat

VARIABLE faults      \* how many did

vars == <<link, phone, mac, faults>>

Init == LinkInit /\ PhoneInit /\ MacInit /\ faults = 0

LinkFault ==
    \/ \E a \in Attempt : RefuseSession(a, attempt[a].socket)
    \/ PhoneLost \/ MacLost

LinkStep ==
    \/ \E a \in Attempt : CreateSession(a, attempt[a].socket)
    \/ PhoneReopens \/ MacReconnects

Works ==
    /\ \/ PhoneStep /\ UNCHANGED mac
       \/ MacStep /\ UNCHANGED phone
       \/ LinkStep /\ UNCHANGED <<phone, mac>>
    /\ UNCHANGED faults

Fails ==
    /\ faults < MaxFault
    /\ faults' = faults + 1
    /\ \/ PhoneFault /\ UNCHANGED mac
       \/ MacFault /\ UNCHANGED phone
       \/ LinkFault /\ UNCHANGED <<phone, mac>>

Next == Works \/ Fails

Spec == Init /\ [][Next]_vars

-----------------------------------------------------------------------------
(***************************************************************************)
(* Properties.                                                             *)
(***************************************************************************)

\* Every variable, of both ends, has its type.
TypeOK == LinkTypeOK /\ PhoneTypeOK /\ MacTypeOK /\ faults \in 0..MaxFault

\* Screen Mode is never abandoned: while it is open, signaling is up and its
\* peer connection is not, something is under way that will bring the session
\* back - an attempt, a retry timer or the grace timer (pairingStore.ts).
Driven ==
    screenOpen /\ connectionStatus = "connected" /\ peerState # "connected" =>
        \/ \E a \in Attempt : Underway(a)
        \/ screenRetryTimer \/ strayTimers > 0 \/ peerDisconnectTimer

\* The Mac has one peer connection at most that is not closed, that of its
\* active session, whatever tasks of earlier sessions still run (AppState).
OneMacPeer ==
    \A s \in Session : peer[s].conn = "open" => s = macClient /\ s = activeWebRTCSessionId

\* An offer kept because it came early is never forgotten beside the client
\* that should answer it, nor kept for a session that is gone (AppState).
OfferNotStranded ==
    pendingOffer # None => /\ macClient = None
                           /\ pendingOffer.session = activeWebRTCSessionId

\* The Mac shows that it shares its screen only while a capture runs for the
\* session that is active and its client, whatever a capture that an earlier
\* session asked for does when it gets ready; the exception is a capture that the
\* system stopped while start() was returning (AppState.swift:609-636).
ShareHonest ==
    screenShareState = "active" =>
        /\ screenCapture # None /\ capture[screenCapture] \in {"running", "lost"}
        /\ screenCapture = macClient /\ screenCapture = activeWebRTCSessionId

\* A retry or a reconnect rebuilds the session of Screen Mode only when it has
\* dropped: it starts no attempt while the session is up (pairingStore.ts).
HealthyNotRebuilt ==
    [][screenOpen /\ screenStatus = "connected" /\ peerState = "connected"
       => \A a \in Attempt : attempt'[a].at # "none" => attempt[a].at # "none"]_vars
=============================================================================
