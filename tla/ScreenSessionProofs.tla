------------------------- MODULE ScreenSessionProofs -------------------------
(***************************************************************************)
(* Proofs about ScreenSession, for any number of attempts, sessions,       *)
(* sockets and faults: the types of both ends, what the Mac's peer         *)
(* connection, early offer and capture have to do with its session, and    *)
(* that Screen Mode is never abandoned.                                    *)
(***************************************************************************)
EXTENDS ScreenSession, SequenceTheorems, FiniteSetTheorems, WellFoundedInduction, TLAPS

-----------------------------------------------------------------------------
(***************************************************************************)
(* Messages under way.  Those that name a session or an offer name one     *)
(* that there is.                                                          *)
(***************************************************************************)

Sound(m) ==
    /\ m.type \in {"session.start", "webrtc.offer", "webrtc.answer"} => m.session \in Session
    /\ m.type \in {"webrtc.offer", "webrtc.answer"} => m.offer \in Attempt

SoundQueue(q) == \A i \in 1..Len(q) : Sound(q[i])

Sendable(m) == m \in Msg /\ Sound(m)

\* The messages that are sent are sound.
LEMMA Messages ==
    /\ \A s \in Session : Sendable(StartMsg(s))
    /\ \A s \in Session, a \in Attempt : Sendable(OfferMsg(s, a)) /\ Sendable(AnswerMsg(s, a))
    /\ Sendable(ErrorMsg)
  BY DEF Sendable, Sound, Msg, StartMsg, OfferMsg, AnswerMsg, ErrorMsg

\* What happens to a queue: nothing, it is lost, a message arrives or is sent.
Arrives(q, r) == q # <<>> /\ r = Tail(q)

\* A message that may be sent keeps a queue sound.
LEMMA Appended ==
    ASSUME NEW q \in Seq(Msg), SoundQueue(q), NEW m, Sendable(m)
    PROVE  Append(q, m) \in Seq(Msg) /\ SoundQueue(Append(q, m))
  <1>1. /\ Append(q, m) \in Seq(Msg) /\ Len(Append(q, m)) = Len(q) + 1
        /\ \A i \in 1..Len(q) : Append(q, m)[i] = q[i]
        /\ Append(q, m)[Len(q) + 1] = m
    BY AppendProperties DEF Sendable
  <1>2. Len(q) \in Nat
    OBVIOUS
  <1> QED BY <1>1, <1>2 DEF SoundQueue, Sendable

\* Taking the oldest message keeps a queue sound, and moves the others one place up.
LEMMA Tailed ==
    ASSUME NEW q \in Seq(Msg), SoundQueue(q), q # <<>>
    PROVE  /\ Tail(q) \in Seq(Msg) /\ SoundQueue(Tail(q))
           /\ Head(q) \in Msg /\ Sound(Head(q))
           /\ 1 \in 1..Len(q) /\ Head(q) = q[1]
           /\ Len(Tail(q)) = Len(q) - 1
           /\ \A i \in 1..Len(Tail(q)) : i + 1 \in 1..Len(q) /\ Tail(q)[i] = q[i + 1]
  <1>1. /\ Head(q) \in Msg /\ Tail(q) \in Seq(Msg) /\ Len(Tail(q)) = Len(q) - 1
        /\ \A i \in 1..Len(Tail(q)) : Tail(q)[i] = q[i + 1]
    BY HeadTailProperties
  <1>2. Len(q) \in Nat \ {0}
    BY EmptySeq
  <1>3. Head(q) = q[1] /\ 1 \in 1..Len(q)
    BY <1>2
  <1>4. \A i \in 1..Len(Tail(q)) : i + 1 \in 1..Len(q)
    BY <1>1, <1>2
  <1> QED BY <1>1, <1>3, <1>4 DEF SoundQueue

\* A queue nobody wrote to is sound.
LEMMA EmptyIsSound == <<>> \in Seq(Msg) /\ SoundQueue(<<>>)
  BY DEF SoundQueue

-----------------------------------------------------------------------------
(***************************************************************************)
(* Sessions are numbered as they are created, and the Mac is told of them  *)
(* in that order.  A session is old once the Mac has been told of it.      *)
(***************************************************************************)

Below(s, q) == \A i \in 1..Len(q) : q[i].type = "session.start" => s < q[i].session

Numbered(q, n) ==
    \A i \in 1..Len(q) : q[i].type = "session.start" =>
        /\ q[i].session \in 1..n
        /\ \A j \in 1..Len(q) : i < j /\ q[j].type = "session.start" => q[i].session < q[j].session

Old(s) == s \in 1..created /\ Below(s, toMac)

MacQueueTypes ==
    /\ created \in 0..MaxSession
    /\ toMac \in Seq(Msg) /\ SoundQueue(toMac)
    /\ Numbered(toMac, created)

MacQueueStep ==
    \/ toMac' = toMac /\ created' = created
    \/ toMac' = <<>> /\ created' = created
    \/ Arrives(toMac, toMac') /\ created' = created
    \/ /\ created < MaxSession /\ created' = created + 1
       /\ toMac' \in {toMac, Append(toMac, StartMsg(created + 1))}
    \/ /\ created' = created
       /\ \E s \in Session, a \in Attempt : toMac' = Append(toMac, OfferMsg(s, a))

\* The order is kept, and an old session stays old.
LEMMA MacQueueKept ==
    ASSUME MacQueueTypes, MacQueueStep
    PROVE  /\ MacQueueTypes'
           /\ \A s \in Session : Old(s) => Old(s)'
  <1> USE DEF MacQueueTypes
  <1>1. CASE toMac' = toMac /\ created' = created
    BY <1>1 DEF Old, Below, Numbered, SoundQueue, Sound
  <1>2. CASE toMac' = <<>> /\ created' = created
    BY <1>2, EmptyIsSound DEF Old, Below, Numbered
  <1>3. CASE Arrives(toMac, toMac') /\ created' = created
    <2>1. /\ toMac' \in Seq(Msg) /\ SoundQueue(toMac') /\ Len(toMac') \in Nat
          /\ \A i \in 1..Len(toMac') : i + 1 \in 1..Len(toMac) /\ toMac'[i] = toMac[i + 1]
      BY <1>3, Tailed DEF Arrives
    <2>2. Numbered(toMac', created)
      BY <2>1 DEF Numbered
    <2>3. \A s \in Session : Below(s, toMac) => Below(s, toMac')
      BY <2>1 DEF Below
    <2> QED BY <1>3, <2>1, <2>2, <2>3 DEF Old
  <1>4. CASE /\ created < MaxSession /\ created' = created + 1
             /\ toMac' \in {toMac, Append(toMac, StartMsg(created + 1))}
    <2>1. created + 1 \in Session /\ created \in Nat /\ created' \in 0..MaxSession
      BY <1>4, LinkAssumption DEF Session
    <2>2. CASE toMac' = toMac
      BY <1>4, <2>1, <2>2 DEF Old, Below, Numbered, SoundQueue, Sound
    <2>3. CASE toMac' = Append(toMac, StartMsg(created + 1))
      <3>1. /\ StartMsg(created + 1) \in Msg /\ Sendable(StartMsg(created + 1))
            /\ StartMsg(created + 1).session = created + 1
        BY <2>1, Messages DEF StartMsg, Sendable
      <3>2. /\ toMac' \in Seq(Msg) /\ SoundQueue(toMac')
        BY <2>3, <3>1, Appended
      <3>3. /\ Len(toMac') = Len(toMac) + 1 /\ Len(toMac) \in Nat
            /\ \A i \in 1..Len(toMac) : toMac'[i] = toMac[i]
            /\ toMac'[Len(toMac) + 1] = StartMsg(created + 1)
        BY <2>3, <3>1, AppendProperties
      <3>4. Numbered(toMac', created + 1)
        <4> DEFINE n == Len(toMac)
        <4>1. SUFFICES ASSUME NEW i \in 1..Len(toMac'), toMac'[i].type = "session.start"
                       PROVE  /\ toMac'[i].session \in 1..(created + 1)
                              /\ \A j \in 1..Len(toMac') :
                                    i < j /\ toMac'[j].type = "session.start"
                                    => toMac'[i].session < toMac'[j].session
          BY DEF Numbered
        <4>2. CASE i = n + 1
          BY <2>1, <3>1, <3>3, <4>2
        <4>3. CASE i \in 1..n
          <5>1. /\ toMac[i].session \in 1..created /\ toMac'[i] = toMac[i]
                /\ \A j \in 1..n : i < j /\ toMac[j].type = "session.start"
                                  => toMac[i].session < toMac[j].session
            BY <3>3, <4>1, <4>3 DEF Numbered
          <5>2. \A j \in 1..n : toMac'[j] = toMac[j]
            BY <3>3
          <5>3. toMac'[n + 1].session = created + 1
            BY <3>1, <3>3
          <5> QED BY <2>1, <3>3, <5>1, <5>2, <5>3
        <4> QED BY <3>3, <4>1, <4>2, <4>3
      <3>5. ASSUME NEW s \in Session, Old(s)
            PROVE  Old(s)'
        <4>1. s \in 1..created' /\ s < created + 1
          BY <1>4, <2>1, <3>5 DEF Old
        <4>2. Below(s, toMac')
          BY <3>1, <3>3, <3>5, <4>1 DEF Old, Below
        <4> QED BY <4>1, <4>2 DEF Old
      <3> QED BY <1>4, <2>1, <3>2, <3>4, <3>5
    <2> QED BY <1>4, <2>2, <2>3
  <1>5. ASSUME NEW s \in Session, NEW a \in Attempt, created' = created,
               toMac' = Append(toMac, OfferMsg(s, a))
        PROVE  MacQueueTypes' /\ \A x \in Session : Old(x) => Old(x)'
    <2>1. /\ OfferMsg(s, a) \in Msg /\ Sendable(OfferMsg(s, a))
          /\ OfferMsg(s, a).type # "session.start"
      BY Messages DEF OfferMsg, Sendable
    <2>2. /\ toMac' \in Seq(Msg) /\ SoundQueue(toMac')
      BY <1>5, <2>1, Appended
    <2>3. /\ Len(toMac') = Len(toMac) + 1 /\ Len(toMac) \in Nat
          /\ \A i \in 1..Len(toMac) : toMac'[i] = toMac[i]
          /\ toMac'[Len(toMac) + 1] = OfferMsg(s, a)
      BY <1>5, <2>1, AppendProperties
    <2>4. \A i \in 1..Len(toMac') : toMac'[i].type = "session.start" => i \in 1..Len(toMac)
      BY <2>1, <2>3
    <2>5. Numbered(toMac', created)
      BY <2>3, <2>4 DEF Numbered
    <2>6. \A x \in Session : Below(x, toMac) => Below(x, toMac')
      BY <2>3, <2>4 DEF Below
    <2> QED BY <1>5, <2>2, <2>5, <2>6 DEF Old
  <1> QED BY <1>1, <1>2, <1>3, <1>4, <1>5 DEF MacQueueStep

\* The session the Mac is told of next is old afterwards, and was not before.
LEMMA ToldIsNew ==
    ASSUME MacQueueTypes, toMac # <<>>, Head(toMac).type = "session.start",
           toMac' = Tail(toMac), created' = created
    PROVE  /\ Head(toMac).session \in Session
           /\ ~Old(Head(toMac).session)
           /\ \A s \in Session : s = Head(toMac).session => Old(s)'
  <1> USE DEF MacQueueTypes
  <1>1. /\ Head(toMac) = toMac[1] /\ 1 \in 1..Len(toMac) /\ Sound(Head(toMac))
        /\ Len(toMac') \in Nat
        /\ \A i \in 1..Len(toMac') : i + 1 \in 1..Len(toMac) /\ toMac'[i] = toMac[i + 1]
    BY Tailed
  <1>2. Head(toMac).session \in Session /\ Head(toMac).session \in 1..created
    BY <1>1 DEF Sound, Numbered
  <1>3. ~Old(Head(toMac).session)
    BY <1>1, <1>2 DEF Old, Below, Session
  <1>4. PICK s \in Session : s = Head(toMac).session
    BY <1>2
  <1>5. Below(s, toMac')
    BY <1>1, <1>4 DEF Below, Numbered
  <1>6. Old(s)'
    BY <1>2, <1>4, <1>5 DEF Old
  <1> QED BY <1>3, <1>4, <1>6

-----------------------------------------------------------------------------
(***************************************************************************)
(* The Mac.                                                                *)
(***************************************************************************)

MacQueue == toMac \in Seq(Msg) /\ SoundQueue(toMac)

Remembered == \A s \in Session : Old(s) => Old(s)'

\* What the Mac is busy with are sessions it was told of.
UsedIsOld ==
    \A s \in Session :
        s = activeWebRTCSessionId \/ capture[s] # "none" \/ s \in stopping => Old(s)

\* Its client and the capture it holds are those of its active session.
ClientIsActive  == macClient # None => macClient = activeWebRTCSessionId
CaptureIsShared == screenCapture # None => screenCapture = macClient

\* A capture that is about to start for the active session is held, and is not
\* told to stop.
StartingIsHeld ==
    \A s \in Session : capture[s] = "starting" /\ s = activeWebRTCSessionId => s = screenCapture
NotToStop == activeWebRTCSessionId \notin stopping

ShareRuns ==
    screenShareState = "active" => screenCapture # None /\ capture[screenCapture] \in {"running", "lost"}

MacInv ==
    /\ MacTypeOK /\ peer \in [Session -> PeerRec]
    /\ UsedIsOld /\ ClientIsActive /\ CaptureIsShared
    /\ StartingIsHeld /\ NotToStop /\ ShareRuns
    /\ OneMacPeer /\ OfferNotStranded

\* What the checked properties follow from.
LEMMA MacInvShows == MacInv => OneMacPeer /\ OfferNotStranded /\ ShareHonest
  BY DEF MacInv, ShareRuns, ClientIsActive, CaptureIsShared, ShareHonest

\* None names nothing.
LEMMA NoneIsNothing == None \notin Session /\ None \notin Attempt
  BY LinkAssumption DEF Session, Attempt

\* Closing a client closes its peer connection alone.
LEMMA ClosedPeers ==
    ASSUME peer \in [Session -> PeerRec], NEW s
    PROVE  /\ Closed(s) \in [Session -> PeerRec]
           /\ \A x \in Session : Closed(s)[x].conn = "open" => x # s /\ peer[x].conn = "open"
  <1>1. ASSUME NEW r \in PeerRec
        PROVE  [r EXCEPT !.conn = "closed"] \in PeerRec
               /\ [r EXCEPT !.conn = "closed"].conn = "closed"
    BY DEF PeerRec
  <1>2. \A x \in Session : Closed(s)[x] = IF x = s THEN [peer[x] EXCEPT !.conn = "closed"] ELSE peer[x]
    BY DEF Closed
  <1>3. \A x \in Session : Closed(s)[x] \in PeerRec
    BY <1>1, <1>2
  <1> QED BY <1>1, <1>2, <1>3 DEF Closed

\* Changing one field of a peer connection changes nothing else.
SamePeers ==
    /\ peer' \in [Session -> PeerRec]
    /\ \A x \in Session : peer'[x].conn = peer[x].conn

\* Opening the peer of a session changes no other session's.
LEMMA PeerOpened ==
    ASSUME peer \in [Session -> PeerRec], NEW s \in Session,
           peer' = [peer EXCEPT ![s].conn = "open"]
    PROVE  peer' \in [Session -> PeerRec] /\ \A x \in Session : x # s => peer'[x] = peer[x]
  <1> DEFINE v == [peer[s] EXCEPT !.conn = "open"]
  <1>1. v \in PeerRec
    BY DEF PeerRec
  <1>2. peer' = [peer EXCEPT ![s] = v]
    OBVIOUS
  <1> HIDE DEF v
  <1> QED BY <1>1, <1>2

\* Recording an offer leaves every peer open or closed as it was.
LEMMA OfferTaken ==
    ASSUME peer \in [Session -> PeerRec], NEW s \in Session, NEW a \in Attempt,
           peer' = [peer EXCEPT ![s].offer = a]
    PROVE  SamePeers
  <1> DEFINE v == [peer[s] EXCEPT !.offer = a]
  <1>1. v \in PeerRec /\ v.conn = peer[s].conn
    BY DEF PeerRec
  <1>2. peer' = [peer EXCEPT ![s] = v]
    OBVIOUS
  <1> HIDE DEF v
  <1> QED BY <1>1, <1>2 DEF SamePeers

\* A peer's new state leaves every peer open or closed as it was.
LEMMA StateTaken ==
    ASSUME peer \in [Session -> PeerRec], NEW s \in Session,
           NEW t \in {"connecting", "connected", "disconnected"},
           peer' = [peer EXCEPT ![s].state = t]
    PROVE  SamePeers
  <1> DEFINE v == [peer[s] EXCEPT !.state = t]
  <1>1. v \in PeerRec /\ v.conn = peer[s].conn
    BY DEF PeerRec
  <1>2. peer' = [peer EXCEPT ![s] = v]
    OBVIOUS
  <1> HIDE DEF v
  <1> QED BY <1>1, <1>2 DEF SamePeers

\* A data channel that opens leaves every peer open or closed as it was.
LEMMA ChannelTaken ==
    ASSUME peer \in [Session -> PeerRec], NEW s \in Session,
           peer' = [peer EXCEPT ![s].channel = TRUE]
    PROVE  SamePeers
  <1> DEFINE v == [peer[s] EXCEPT !.channel = TRUE]
  <1>1. v \in PeerRec /\ v.conn = peer[s].conn
    BY DEF PeerRec
  <1>2. peer' = [peer EXCEPT ![s] = v]
    OBVIOUS
  <1> HIDE DEF v
  <1> QED BY <1>1, <1>2 DEF SamePeers

\* What a teardown leaves, and what a new session finds, is in order.
LEMMA TeardownKept ==
    ASSUME MacInv, Remembered, NEW next \in Session \cup {None},
           \A s \in Session : s = next => ~Old(s) /\ Old(s)',
           NEW state \in {"idle", "negotiating"}, TeardownFor(next, state),
           fetching' \subseteq Session, deadlines' \subseteq Session, accepting' \subseteq Offer
    PROVE  MacInv'
  <1> USE DEF MacInv, TeardownFor, DropsOffer, ToStop
  <1>1. /\ peer' \in [Session -> PeerRec]
        /\ \A x \in Session : peer'[x].conn = "open" => x # macClient /\ peer[x].conn = "open"
    BY ClosedPeers
  <1>2. MacTypeOK' /\ ClientIsActive' /\ CaptureIsShared' /\ ShareRuns' /\ OfferNotStranded'
    BY DEF MacTypeOK, ClientIsActive, CaptureIsShared, ShareRuns, OfferNotStranded
  <1>3. OneMacPeer'
    BY <1>1 DEF OneMacPeer
  <1>4. \A s \in Session : s = screenCapture => Old(s)
    BY NoneIsNothing DEF UsedIsOld, ClientIsActive, CaptureIsShared
  <1>5. \A s \in Session : capture'[s] # "none" \/ s \in stopping' => Old(s)
    BY <1>4 DEF UsedIsOld
  <1>6. UsedIsOld'
    BY <1>5 DEF UsedIsOld, Remembered
  <1>7. \A s \in Session : s = activeWebRTCSessionId' => ~Old(s)
    OBVIOUS
  <1>8. StartingIsHeld'
    BY <1>5, <1>7 DEF StartingIsHeld, MacTypeOK
  <1>9. NotToStop'
    BY <1>5, <1>7, NoneIsNothing DEF NotToStop, MacTypeOK
  <1> QED BY <1>1, <1>2, <1>3, <1>6, <1>8, <1>9

\* None of what the Mac is busy with changes.
LEMMA MacUntouched ==
    ASSUME MacInv, Remembered, UNCHANGED <<activeWebRTCSessionId, macClient, share>>,
           peer' \in [Session -> PeerRec],
           \A x \in Session : peer'[x].conn = peer[x].conn,
           MacTypeOK', OfferNotStranded'
    PROVE  MacInv'
  <1> USE DEF MacInv, share
  <1>1. UsedIsOld' /\ ClientIsActive' /\ CaptureIsShared' /\ StartingIsHeld' /\ NotToStop'
    BY DEF UsedIsOld, Remembered, ClientIsActive, CaptureIsShared, StartingIsHeld, NotToStop
  <1>2. ShareRuns'
    BY DEF ShareRuns
  <1>3. OneMacPeer'
    BY DEF OneMacPeer
  <1> QED BY <1>1, <1>2, <1>3

\* A session start the Mac is told of, after the teardown of the one before it, keeps the invariant.
LEMMA MacStartStep ==
    ASSUME MacInv, MacQueueTypes, Remembered, MacStart
    PROVE  MacInv'
  <1> DEFINE s == Head(toMac).session
  <1>1. /\ toMac # <<>> /\ Head(toMac).type = "session.start"
        /\ toMac' = Tail(toMac) /\ created' = created
    BY DEF MacStart, Delivered
  <1>2. PICK n \in Session : n = Head(toMac).session
    BY <1>1, ToldIsNew
  <1>3. \A x \in Session : x = n => ~Old(x) /\ Old(x)'
    BY <1>1, <1>2, ToldIsNew
  <1>4. /\ TeardownFor(n, "negotiating")
        /\ fetching' = fetching \cup {n} /\ deadlines' = deadlines \cup {n}
        /\ accepting' = accepting
    BY <1>2 DEF MacStart
  <1>5. /\ fetching' \subseteq Session /\ deadlines' \subseteq Session
        /\ accepting' \subseteq Offer
    BY <1>4 DEF MacInv, MacTypeOK
  <1> QED BY <1>3, <1>4, <1>5, TeardownKept

\* A teardown keeps the Mac's invariant, whatever becomes of the tasks that are left behind.
LEMMA TeardownStep ==
    ASSUME MacInv, Remembered, Teardown,
           fetching' \subseteq Session, deadlines' \subseteq Session, accepting' \subseteq Offer
    PROVE  MacInv'
  BY TeardownKept, NoneIsNothing DEF Teardown

\* The ICE servers a start task waits for, or their failure, keep the Mac's invariant.
LEMMA FetchStep ==
    ASSUME MacInv, Remembered, NEW s \in Session, FetchOk(s) \/ FetchFails(s)
    PROVE  MacInv'
  <1>1. CASE FetchFails(s)
    <2>1. MacTypeOK' /\ OfferNotStranded'
      BY <1>1 DEF MacInv, FetchFails, MacTypeOK, OfferNotStranded, share
    <2> QED BY <1>1, <2>1, MacUntouched DEF MacInv, FetchFails, link, peers
  <1>2. CASE FetchOk(s) /\ ~Proceeds(s)
    <2>1. MacTypeOK' /\ OfferNotStranded'
      BY <1>2 DEF MacInv, FetchOk, MacTypeOK, OfferNotStranded, share
    <2> QED BY <1>2, <2>1, MacUntouched DEF MacInv, FetchOk
  <1>3. CASE FetchOk(s) /\ Proceeds(s)
    <2> USE DEF MacInv
    <2>1. /\ s = activeWebRTCSessionId /\ activeWebRTCSessionId' = s /\ macClient' = s
          /\ peer' = [peer EXCEPT ![s].conn = "open"]
          /\ UNCHANGED share /\ macState' = macState /\ deadlines' = deadlines
          /\ fetching' = fetching \ {s}
      BY <1>3 DEF FetchOk, Proceeds, Current
    <2>2. pendingOffer' = None /\ accepting' \in {accepting, accepting \cup {pendingOffer}}
          /\ (accepting' # accepting => pendingOffer # None)
      BY <1>3, <2>1 DEF FetchOk, OfferNotStranded
    <2>3. MacTypeOK'
      BY <2>1, <2>2 DEF MacTypeOK, share
    <2>4. /\ peer' \in [Session -> PeerRec]
          /\ \A x \in Session : x # s => peer'[x] = peer[x]
      BY <2>1, PeerOpened
    <2>5. OneMacPeer'
      BY <2>1, <2>4 DEF OneMacPeer
    <2>6. UsedIsOld' /\ StartingIsHeld' /\ NotToStop' /\ ShareRuns' /\ ClientIsActive'
          /\ OfferNotStranded'
      BY <2>1, <2>2 DEF UsedIsOld, Remembered, StartingIsHeld, NotToStop, ShareRuns,
                        ClientIsActive, OfferNotStranded, share
    <2>7. CaptureIsShared'
      BY <2>1 DEF CaptureIsShared, ClientIsActive, share
    <2> QED BY <2>3, <2>4, <2>5, <2>6, <2>7
  <1> QED BY <1>1, <1>2, <1>3

\* An offer is taken by the active session, or held, or rejected: the Mac's invariant is kept.
LEMMA OfferStep ==
    ASSUME MacInv, MacQueueTypes, Remembered, RecvOffer
    PROVE  MacInv'
  <1> USE DEF MacInv, MacQueueTypes
  <1>1. toMac # <<>> /\ Head(toMac).type = "webrtc.offer"
    BY DEF RecvOffer, Delivered
  <1>2. Sound(Head(toMac))
    BY <1>1, Tailed
  <1> DEFINE o == [session |-> Head(toMac).session, offer |-> Head(toMac).offer]
  <1>3. o \in Offer /\ o.session = Head(toMac).session
    BY <1>1, <1>2 DEF Sound, Offer
  <1>4. \/ UNCHANGED <<pendingOffer, accepting>>
        \/ /\ o.session = activeWebRTCSessionId /\ macClient = None
           /\ pendingOffer' = o /\ UNCHANGED accepting
        \/ accepting' = accepting \cup {o} /\ UNCHANGED pendingOffer
    BY DEF RecvOffer, Current
  <1>5. /\ UNCHANGED <<activeWebRTCSessionId, macClient, macState, fetching, deadlines, share>>
        /\ UNCHANGED peer
    BY DEF RecvOffer, peers
  <1> HIDE DEF o
  <1>6. MacTypeOK'
    BY <1>3, <1>4, <1>5 DEF MacTypeOK, share
  <1>7. OfferNotStranded'
    BY <1>4, <1>5 DEF OfferNotStranded
  <1> QED BY <1>5, <1>6, <1>7, MacUntouched

\* The end of an accepted offer, good or bad, keeps the Mac's invariant.
LEMMA AcceptStep ==
    ASSUME MacInv, Remembered, NEW o \in accepting, Accepted(o) \/ AcceptThrows(o)
    PROVE  MacInv'
  <1> USE DEF MacInv
  <1>1. o \in Offer /\ o.session \in Session /\ o.offer \in Attempt
    BY DEF MacTypeOK, Offer
  <1>2. MacTypeOK' /\ OfferNotStranded' /\ UNCHANGED <<activeWebRTCSessionId, macClient, share>>
    BY DEF Accepted, AcceptThrows, MacTypeOK, OfferNotStranded, share, session
  <1>3. CASE Accepted(o)
    <2>1. peer' = [peer EXCEPT ![o.session].offer = o.offer]
      BY <1>3 DEF Accepted
    <2>2. SamePeers
      BY <1>1, <2>1, OfferTaken
    <2> QED BY <1>2, <2>2, MacUntouched DEF SamePeers
  <1>4. CASE AcceptThrows(o)
    BY <1>2, <1>4, MacUntouched DEF AcceptThrows, link, peers
  <1> QED BY <1>3, <1>4

\* The deadline of a session that never connected tears it down if it is still the active one.
LEMMA DeadlineStep ==
    ASSUME MacInv, Remembered, NEW s \in Session, Deadline(s)
    PROVE  MacInv'
  <1>1. /\ fetching' \subseteq Session /\ deadlines' \subseteq Session
        /\ accepting' \subseteq Offer
    BY DEF Deadline, MacInv, MacTypeOK
  <1>2. CASE Teardown
    BY <1>1, <1>2, TeardownStep
  <1>3. CASE UNCHANGED peer /\ UNCHANGED session /\ UNCHANGED share
    <2>1. MacTypeOK' /\ OfferNotStranded'
      BY <1>1, <1>3 DEF MacInv, MacTypeOK, OfferNotStranded, session, share
    <2> QED BY <1>3, <2>1, MacUntouched DEF MacInv, session
  <1> QED BY <1>2, <1>3 DEF Deadline

\* A Mac that leaves the backend tears its session down.
LEMMA DisconnectStep ==
    ASSUME MacInv, Remembered, MacDisconnects
    PROVE  MacInv'
  BY TeardownStep DEF MacDisconnects, macTasks, MacInv, MacTypeOK

\* What the peer connection reports keeps the Mac's invariant; a failure tears down.
LEMMA ReportsStep ==
    ASSUME MacInv, Remembered, NEW s \in Session,
           NEW state \in {"connecting", "connected", "disconnected", "failed"},
           PeerReports(s, state)
    PROVE  MacInv'
  <1>1. /\ fetching' \subseteq Session /\ deadlines' \subseteq Session
        /\ accepting' \subseteq Offer
    BY DEF PeerReports, macTasks, MacInv, MacTypeOK
  <1>2. CASE state = "failed"
    BY <1>1, <1>2, TeardownStep DEF PeerReports
  <1>3. CASE state # "failed"
    <2>1. /\ peer' = [peer EXCEPT ![s].state = state]
          /\ state \in {"connecting", "connected", "disconnected"}
          /\ macState' \in {"negotiating", "connected", "disconnected"}
          /\ UNCHANGED <<activeWebRTCSessionId, macClient, pendingOffer, share>>
      BY <1>3 DEF PeerReports
    <2>2. SamePeers
      BY <2>1, StateTaken DEF MacInv
    <2>3. MacTypeOK' /\ OfferNotStranded'
      BY <1>1, <2>1 DEF MacInv, MacTypeOK, OfferNotStranded, share
    <2> QED BY <2>1, <2>2, <2>3, MacUntouched DEF SamePeers
  <1> QED BY <1>2, <1>3

\* A data channel that opens starts the share and keeps the Mac's invariant.
LEMMA ChannelStep ==
    ASSUME MacInv, Remembered, NEW s \in Session, NEW permitted \in BOOLEAN,
           MacChannelOpens(s, permitted)
    PROVE  MacInv'
  <1> USE DEF MacInv
  <1>1. /\ s = macClient /\ UNCHANGED session /\ UNCHANGED macTasks /\ stopping' = stopping
        /\ peer' = [peer EXCEPT ![s].channel = TRUE]
    BY DEF MacChannelOpens
  <1>2. s = activeWebRTCSessionId
    BY <1>1, NoneIsNothing DEF ClientIsActive
  <1>3. \/ /\ screenShareState' = "missingPermissions"
           /\ UNCHANGED <<screenCapture, capture>>
        \/ UNCHANGED <<screenShareState, screenCapture, capture>>
        \/ /\ screenShareState' = "starting" /\ screenCapture' = s
           /\ capture' = [capture EXCEPT ![s] = "starting"]
    BY DEF MacChannelOpens
  <1>4. peer' \in [Session -> PeerRec] /\ \A x \in Session : peer'[x].conn = peer[x].conn
    BY <1>1, ChannelTaken DEF SamePeers
  <1>5. MacTypeOK' /\ OfferNotStranded'
    BY <1>1, <1>3 DEF MacTypeOK, OfferNotStranded, session, macTasks
  <1>6. \A x \in Session : x # s => capture'[x] = capture[x]
    BY <1>3 DEF MacTypeOK
  <1>7. UsedIsOld' /\ NotToStop' /\ ClientIsActive'
    BY <1>1, <1>2, <1>6 DEF UsedIsOld, Remembered, NotToStop, ClientIsActive, session
  <1>8. CaptureIsShared' /\ StartingIsHeld' /\ ShareRuns'
    BY <1>1, <1>2, <1>3 DEF CaptureIsShared, StartingIsHeld, ShareRuns, session
  <1>9. OneMacPeer'
    BY <1>1, <1>4 DEF OneMacPeer, session
  <1> QED BY <1>4, <1>5, <1>7, <1>8, <1>9

\* The capture that starts, fails, dies or is stopped keeps the Mac's invariant.
LEMMA CaptureStep ==
    ASSUME MacInv, Remembered, NEW s \in Session,
           \/ \E added \in BOOLEAN : CaptureStarted(s, added) \/ CaptureLost(s, added)
           \/ CaptureFails(s) \/ CaptureDies(s) \/ StopRuns(s)
    PROVE  MacInv'
  <1> USE DEF MacInv
  <1>1. /\ peer' = peer /\ UNCHANGED session /\ UNCHANGED macTasks
        /\ screenCapture' = screenCapture /\ stopping' \subseteq stopping
    BY DEF CaptureStarted, CaptureLost, CaptureFails, CaptureDies, StopRuns, link, peers
  <1>2. /\ \A x \in Session : x # s => capture'[x] = capture[x]
        /\ capture' \in [Session -> {"none", "starting", "running", "stopped", "lost"}]
        /\ capture'[s] = "starting" => capture[s] = "starting"
        /\ capture'[s] # "none" => capture[s] # "none" \/ s \in stopping
    BY DEF CaptureStarted, CaptureLost, CaptureFails, CaptureDies, StopRuns, MacTypeOK
  <1>3. screenShareState' \in {"idle", "missingPermissions", "starting", "active", "failed"}
    BY DEF CaptureStarted, CaptureLost, CaptureFails, CaptureDies, StopRuns, MacTypeOK, Shares
  <1>4. MacTypeOK' /\ OfferNotStranded' /\ OneMacPeer'
    BY <1>1, <1>2, <1>3 DEF MacTypeOK, OfferNotStranded, OneMacPeer, session, macTasks
  <1>5. UsedIsOld' /\ NotToStop' /\ ClientIsActive' /\ CaptureIsShared' /\ StartingIsHeld'
    BY <1>1, <1>2 DEF UsedIsOld, Remembered, NotToStop, ClientIsActive, CaptureIsShared,
                      StartingIsHeld, session
  <1>6. screenCapture # None => screenCapture = activeWebRTCSessionId
    BY DEF CaptureIsShared, ClientIsActive
  <1>7. ShareRuns'
    <2>1. ASSUME NEW added \in BOOLEAN, CaptureStarted(s, added) \/ CaptureLost(s, added)
          PROVE  ShareRuns'
      BY <1>1, <2>1, NoneIsNothing
      DEF CaptureStarted, CaptureLost, Shares, Current, ShareRuns, StartingIsHeld, MacTypeOK
    <2>2. CASE CaptureFails(s)
      BY <2>2 DEF CaptureFails, ShareRuns
    <2>3. CASE CaptureDies(s)
      BY <1>1, <1>2, <1>6, <2>3 DEF CaptureDies, Current, ShareRuns, MacTypeOK
    <2>4. CASE StopRuns(s)
      BY <1>1, <1>2, <1>6, <2>4 DEF StopRuns, NotToStop, ShareRuns, MacTypeOK
    <2> QED BY <2>1, <2>2, <2>3, <2>4
  <1> QED BY <1>1, <1>4, <1>5, <1>7

-----------------------------------------------------------------------------
(***************************************************************************)
(* The attempts of the iPhone.                                             *)
(***************************************************************************)

Stage == {"none", "token", "ice", "start", "offer", "answer", "channel", "done", "failed"}

Attempts == attempt \in [Attempt -> AttemptRec]

\* Of the attempts that await a token there is a last one.
LEMMA LastIsOne ==
    ASSUME NEW A \in SUBSET Attempt, A # {}
    PROVE  Last(A) \in A
  <1> DEFINE R == {ss \in Nat \X Nat : ss[1] < ss[2]}
             T == {MaxAttempt - a : a \in A}
  <1>1. IsWellFoundedOn(R, Nat)
    BY NatLessThanWellFounded DEF OpToRel
  <1>2. MaxAttempt \in Nat /\ \A a \in A : a \in 1..MaxAttempt
    BY LinkAssumption DEF Attempt
  <1>3. \A a \in A : MaxAttempt - a \in Nat
    BY <1>2
  <1>4. T \subseteq Nat /\ T # {}
    BY <1>3, Zenon
  <1>5. PICK t \in T : \A y \in T : <<y, t>> \notin R
    <2> HIDE DEF R, T
    <2> QED BY <1>1, <1>4, WFMin
  <1>6. PICK a \in A : t = MaxAttempt - a
    BY <1>5
  <1>7. ASSUME NEW b \in A PROVE b <= a
    <2>1. MaxAttempt - b \in T /\ MaxAttempt - b \in Nat /\ MaxAttempt - a \in Nat
      BY <1>3
    <2>2. ~(MaxAttempt - b < MaxAttempt - a)
      BY <1>5, <1>6, <2>1
    <2> QED BY <1>2, <2>2
  <1>8. \E x \in A : \A b \in A : b <= x
    BY <1>7
  <1> QED BY <1>8, Zenon DEF Last

\* What becomes of each attempt: its stage, unless it begins, is all that changes.
Keeps(x) == attempt'[x].at = attempt[x].at /\ attempt'[x].kind = attempt[x].kind

GoesTo(x, stage) == attempt'[x].at = stage /\ attempt'[x].kind = attempt[x].kind

Others(a) == \A x \in Attempt : x # a => Keeps(x)

\* Moving one attempt on leaves the others where they are.
LEMMA StageChanged ==
    ASSUME Attempts, NEW a \in Attempt, NEW stage \in Stage,
           attempt' = [attempt EXCEPT ![a].at = stage]
    PROVE  Attempts' /\ GoesTo(a, stage) /\ Others(a)
  <1> DEFINE v == [attempt[a] EXCEPT !.at = stage]
  <1>1. v \in AttemptRec /\ v.at = stage /\ v.kind = attempt[a].kind
    BY DEF Attempts, AttemptRec, Stage
  <1>2. attempt' = [attempt EXCEPT ![a] = v]
    OBVIOUS
  <1> HIDE DEF v
  <1> QED BY <1>1, <1>2 DEF Attempts, GoesTo, Others, Keeps

\* Failing a set of attempts leaves the kind of each, and the stage of the others.
LEMMA FailedAre ==
    ASSUME Attempts, NEW A
    PROVE  /\ Failed(A) \in [Attempt -> AttemptRec]
           /\ \A x \in Attempt :
                 /\ Failed(A)[x].kind = attempt[x].kind
                 /\ Failed(A)[x].at = IF x \in A THEN "failed" ELSE attempt[x].at
  <1>1. ASSUME NEW r \in AttemptRec
        PROVE  /\ [r EXCEPT !.at = "failed"] \in AttemptRec
               /\ [r EXCEPT !.at = "failed"].at = "failed"
               /\ [r EXCEPT !.at = "failed"].kind = r.kind
    BY DEF AttemptRec
  <1>2. \A x \in Attempt : attempt[x] \in AttemptRec
    BY DEF Attempts
  <1>3. \A x \in Attempt :
           Failed(A)[x] = IF x \in A THEN [attempt[x] EXCEPT !.at = "failed"] ELSE attempt[x]
    BY DEF Failed
  <1>4. ASSUME NEW x \in Attempt
        PROVE  /\ Failed(A)[x] \in AttemptRec
               /\ Failed(A)[x].kind = attempt[x].kind
               /\ Failed(A)[x].at = IF x \in A THEN "failed" ELSE attempt[x].at
    BY <1>1, <1>2, <1>3
  <1> QED BY <1>4 DEF Failed

\* The attempts that begin.
LEMMA BegunIs ==
    ASSUME Attempts, NEW a \in Attempt, NEW stage \in Stage, NEW kind \in {"screen", "test"},
           socket \in 0..MaxSocket,
           attempt' = [attempt EXCEPT ![a] = [at |-> stage, kind |-> kind, socket |-> socket]]
    PROVE  Attempts' /\ attempt'[a].at = stage /\ attempt'[a].kind = kind /\ Others(a)
  BY DEF Attempts, AttemptRec, Stage, Others, Keeps

-----------------------------------------------------------------------------
(***************************************************************************)
(* Rejected attempts: never more stray timers than there are of them.      *)
(***************************************************************************)

Failures == {a \in Attempt : attempt[a].at = "failed"}

\* There are at most MaxAttempt attempts.
LEMMA Finite ==
    ASSUME NEW A \in SUBSET Attempt
    PROVE  IsFiniteSet(A) /\ Cardinality(A) \in Nat /\ Cardinality(A) <= MaxAttempt
  <1>1. /\ MaxAttempt \in Nat /\ 1 \in Int /\ MaxAttempt \in Int
        /\ IsFiniteSet(1..MaxAttempt)
        /\ Cardinality(1..MaxAttempt) = IF 1 > MaxAttempt THEN 0 ELSE MaxAttempt - 1 + 1
    BY LinkAssumption, FS_Interval
  <1>2. Cardinality(Attempt) = MaxAttempt /\ IsFiniteSet(Attempt)
    BY <1>1 DEF Attempt
  <1>3. IsFiniteSet(A) /\ Cardinality(A) <= Cardinality(Attempt)
    BY <1>2, FS_Subset
  <1> QED BY <1>2, <1>3, FS_CardinalityType

\* What catching the rejected attempts comes to.
CatchesShown(failing, shown, held) ==
    \/ /\ screenOpen' /\ \E a \in failing : attempt'[a].kind = "screen"
       /\ screenStatus' = "failed" /\ screenRetryTimer' = TRUE
    \/ /\ ~screenOpen' \/ \A a \in failing : attempt'[a].kind # "screen"
       /\ screenStatus' = shown /\ screenRetryTimer' = held

CatchesCounted(failing, stray) ==
    /\ strayTimers' \in Nat
    /\ stray <= strayTimers' /\ strayTimers' <= stray + Cardinality(failing)

\* What the catch blocks of failing attempts do: to what is shown and held, and to the timers left behind.
LEMMA CaughtIs ==
    ASSUME NEW failing \in SUBSET Attempt, NEW shown, NEW held, NEW stray \in Nat,
           Caught(failing, shown, held, stray)
    PROVE  CatchesShown(failing, shown, held) /\ CatchesCounted(failing, stray)
  <1> DEFINE F == {a \in failing : attempt'[a].kind = "screen"}
  <1>1. PICK n : n = Cardinality(F)
    OBVIOUS
  <1>2. F \in SUBSET Attempt /\ F \in SUBSET failing
    OBVIOUS
  <1>3. /\ n \in Nat /\ IsFiniteSet(F) /\ IsFiniteSet(failing)
        /\ Cardinality(failing) \in Nat /\ n <= Cardinality(failing)
    BY <1>1, <1>2, Finite, FS_Subset
  <1>4. n > 0 <=> \E a \in failing : attempt'[a].kind = "screen"
    <2>1. n = 0 <=> F = {}
      BY <1>1, <1>3, FS_EmptySet
    <2> QED BY <1>3, <2>1
  <1>5. \/ /\ n > 0 /\ screenOpen'
           /\ screenStatus' = "failed" /\ screenRetryTimer' = TRUE
           /\ strayTimers' = stray + n - (IF held THEN 0 ELSE 1)
        \/ /\ ~(n > 0 /\ screenOpen')
           /\ screenStatus' = shown /\ screenRetryTimer' = held
           /\ strayTimers' = stray
    BY <1>1, Zenon DEF Caught
  <1>6. CatchesShown(failing, shown, held)
    BY <1>4, <1>5, Zenon DEF CatchesShown
  <1>7. CatchesCounted(failing, stray)
    BY <1>3, <1>5 DEF CatchesCounted
  <1> QED BY <1>6, <1>7

\* The attempts that fail are new among the failed ones.
LEMMA StrayBound ==
    ASSUME strayTimers \in Nat, strayTimers <= Cardinality(Failures),
           NEW failing \in SUBSET Attempt, NEW stray \in Nat, stray <= strayTimers,
           failing \cap Failures = {}, failing \cup Failures \subseteq Failures',
           CatchesCounted(failing, stray)
    PROVE  strayTimers' <= Cardinality(Failures') /\ strayTimers' \in 0..MaxAttempt
  <1>1. Failures \in SUBSET Attempt /\ Failures' \in SUBSET Attempt
    BY DEF Failures
  <1>2. /\ IsFiniteSet(Failures) /\ IsFiniteSet(failing) /\ IsFiniteSet(Failures')
        /\ Cardinality(Failures) \in Nat /\ Cardinality(failing) \in Nat
        /\ Cardinality(Failures') \in Nat /\ Cardinality(Failures') <= MaxAttempt
    BY <1>1, Finite
  <1>3. Cardinality(failing \cup Failures) = Cardinality(failing) + Cardinality(Failures)
    BY <1>2, FS_Union, FS_EmptySet
  <1>4. Cardinality(failing \cup Failures) <= Cardinality(Failures')
    BY <1>2, FS_Subset
  <1> QED BY <1>2, <1>3, <1>4, LinkAssumption DEF CatchesCounted

-----------------------------------------------------------------------------
(***************************************************************************)
(* The iPhone: its types, and what drives Screen Mode.                     *)
(***************************************************************************)

StoreTypes ==
    /\ {webrtcClient, pendingSessionStart, pendingAnswer} \subseteq Attempt \cup {None}
    /\ sessionId \in Session \cup {None}
    /\ applying \subseteq [client : Attempt, session : Session, offer : Attempt]

WatchTypes ==
    /\ peerState \in {None, "connected", "disconnected", "failed"}
    /\ peerDisconnectTimer \in BOOLEAN
    /\ dataChannelStatus \in {"idle", "connecting", "open", "closed"}

ScreenStatus == {"idle", "connecting", "reconnecting", "connected", "failed"}

ScreenTypes ==
    /\ screenOpen \in BOOLEAN /\ screenRetryTimer \in BOOLEAN
    /\ screenStatus \in ScreenStatus
    /\ strayTimers \in 0..MaxAttempt /\ strayTimers <= Cardinality(Failures)

SigTypes ==
    /\ connectionStatus \in {"disconnected", "connecting", "connected"}
    /\ socket \in 1..MaxSocket /\ macConnected \in BOOLEAN
    /\ asked \subseteq Attempt

PhoneTypes == Attempts /\ StoreTypes /\ WatchTypes /\ ScreenTypes

\* An attempt of Screen Mode waits for its token, or is under way at all.
ScreenWaits    == \E a \in Attempt : attempt[a].kind = "screen" /\ attempt[a].at = "token"
ScreenUnderway == \E a \in Attempt : attempt[a].kind = "screen" /\ Underway(a)

Timed    == screenRetryTimer \/ strayTimers > 0 \/ peerDisconnectTimer
Watching == screenOpen /\ connectionStatus = "connected"
Broken   == peerState \in {"disconnected", "failed"}

\* The status says connecting only while an attempt does connect.
ConnectingIsUnderway == screenOpen /\ screenStatus = "connecting" => ScreenUnderway
ConnectingNoRetry    == screenStatus = "connecting" => ~screenRetryTimer

\* If any attempt waits for a token, one of Screen Mode does.
TokenIsScreens == Watching /\ AwaitToken # {} => ScreenWaits

\* A broken peer connection is about to be replaced; one that is not there yet
\* is being set up.
BrokenIsTimed         == Watching /\ Broken => Timed \/ ScreenWaits
BrokenWhileConnecting ==
    screenOpen /\ screenStatus = "connecting" /\ Broken => peerDisconnectTimer \/ ScreenWaits
UnlinkedIsDriven      == Watching /\ peerState = None => Timed \/ ScreenUnderway

\* The data channel is open only on a peer connection.
OpenHasPeer == peerState = None => dataChannelStatus # "open"

Rescue ==
    /\ ConnectingIsUnderway /\ ConnectingNoRetry /\ TokenIsScreens
    /\ BrokenIsTimed /\ BrokenWhileConnecting /\ UnlinkedIsDriven /\ OpenHasPeer

\* What the checked properties follow from.
LEMMA PhoneShows == (PhoneTypes => PhoneTypeOK) /\ (PhoneTypes /\ Rescue => Driven)
  <1>1. PhoneTypes => PhoneTypeOK
    BY DEF PhoneTypes, Attempts, StoreTypes, WatchTypes, ScreenTypes, ScreenStatus, PhoneTypeOK
  <1>2. ScreenWaits \/ ScreenUnderway => \E a \in Attempt : Underway(a)
    BY DEF ScreenWaits, ScreenUnderway, Underway
  <1>3. PhoneTypes /\ Rescue => Driven
    BY <1>2
    DEF PhoneTypes, WatchTypes, Rescue, Driven, BrokenIsTimed, UnlinkedIsDriven, Watching,
        Broken, Timed
  <1> QED BY <1>1, <1>3

\* Attempts that fail or go on, where none begins and none gets its token.
LEMMA WaitsKept ==
    ASSUME Attempts, NEW failing \in SUBSET Attempt,
           \A x \in failing : GoesTo(x, "failed") /\ Underway(x) /\ attempt[x].at # "token",
           \A x \in Attempt \ failing :
              \/ Keeps(x)
              \/ /\ attempt'[x].kind = attempt[x].kind
                 /\ Underway(x) /\ Underway(x)'
                 /\ attempt[x].at # "token" /\ attempt'[x].at # "token"
    PROVE  /\ ScreenWaits <=> ScreenWaits'
           /\ AwaitToken' = AwaitToken
           /\ (\A x \in failing : attempt'[x].kind # "screen") =>
                 (ScreenUnderway => ScreenUnderway')
  <1>1. \A x \in Attempt : /\ attempt[x].kind = attempt'[x].kind
                           /\ attempt[x].at = "token" <=> attempt'[x].at = "token"
    BY DEF GoesTo, Keeps
  <1>2. \A x \in Attempt \ failing : Underway(x) => Underway(x)'
    BY DEF Keeps, Underway
  <1>3. (ScreenWaits <=> ScreenWaits') /\ AwaitToken' = AwaitToken
    BY <1>1 DEF ScreenWaits, AwaitToken
  <1>4. (\A x \in failing : attempt'[x].kind # "screen") => (ScreenUnderway => ScreenUnderway')
    BY <1>1, <1>2 DEF ScreenUnderway
  <1> QED BY <1>3, <1>4

\* What drives Screen Mode survives attempts that fail, or go on.
LEMMA CatchKept ==
    ASSUME PhoneTypes, Rescue, NEW failing \in SUBSET Attempt,
           NEW shown \in {screenStatus, "connected"},
           \A x \in failing : GoesTo(x, "failed") /\ Underway(x) /\ attempt[x].at # "token",
           \A x \in Attempt \ failing :
              \/ Keeps(x)
              \/ /\ attempt'[x].kind = attempt[x].kind
                 /\ Underway(x) /\ Underway(x)'
                 /\ attempt[x].at # "token" /\ attempt'[x].at # "token",
           CatchesShown(failing, shown, screenRetryTimer),
           CatchesCounted(failing, strayTimers),
           UNCHANGED <<screenOpen, connectionStatus, watch>>,
           peerState = None => dataChannelStatus' # "open"
    PROVE  Rescue'
  <1> USE DEF PhoneTypes, Rescue
  <1>1. /\ ScreenWaits <=> ScreenWaits'
        /\ AwaitToken' = AwaitToken
        /\ (\A x \in failing : attempt'[x].kind # "screen") => (ScreenUnderway => ScreenUnderway')
    BY WaitsKept
  <1>2. /\ peerState' = peerState /\ peerDisconnectTimer' = peerDisconnectTimer
        /\ screenOpen' = screenOpen /\ connectionStatus' = connectionStatus
        /\ Watching' <=> Watching
        /\ Broken' <=> Broken
    BY DEF watch, Watching, Broken
  <1>3. OpenHasPeer'
    BY <1>2 DEF OpenHasPeer
  <1>4. TokenIsScreens'
    BY <1>1, <1>2 DEF TokenIsScreens
  <1>5. strayTimers > 0 => strayTimers' > 0
    BY DEF CatchesCounted, ScreenTypes
  <1>6. CASE /\ screenOpen' /\ screenStatus' = "failed" /\ screenRetryTimer' = TRUE
    BY <1>3, <1>4, <1>6
    DEF ConnectingIsUnderway, ConnectingNoRetry, BrokenIsTimed, BrokenWhileConnecting,
        UnlinkedIsDriven, Timed
  <1>7. CASE /\ ~screenOpen'
             /\ screenStatus' = shown /\ screenRetryTimer' = screenRetryTimer
    BY <1>2, <1>3, <1>4, <1>7
    DEF ConnectingIsUnderway, ConnectingNoRetry, BrokenIsTimed, BrokenWhileConnecting,
        UnlinkedIsDriven, Timed, Watching
  <1>8. CASE /\ \A a \in failing : attempt'[a].kind # "screen"
             /\ screenStatus' = shown /\ screenRetryTimer' = screenRetryTimer
    <2>1. Timed => Timed'
      BY <1>2, <1>5, <1>8 DEF Timed
    <2>2. (ScreenUnderway => ScreenUnderway') /\ (screenStatus' = "connecting" => screenStatus = "connecting")
      BY <1>1, <1>8
    <2>3. ConnectingIsUnderway' /\ BrokenWhileConnecting' /\ BrokenIsTimed' /\ UnlinkedIsDriven'
      BY <1>1, <1>2, <2>1, <2>2
      DEF ConnectingIsUnderway, BrokenWhileConnecting, BrokenIsTimed, UnlinkedIsDriven
    <2>4. ConnectingNoRetry'
      BY <1>8, <2>2 DEF ConnectingNoRetry
    <2> QED BY <1>3, <1>4, <2>3, <2>4
  <1> QED BY <1>6, <1>7, <1>8 DEF CatchesShown

\* It survives what leaves the attempts alone, as far as this concerns it.
LEMMA AttemptsKept ==
    ASSUME attempt' = attempt
    PROVE  /\ ScreenWaits' <=> ScreenWaits
           /\ ScreenUnderway' <=> ScreenUnderway
           /\ AwaitToken' = AwaitToken
  BY DEF ScreenWaits, ScreenUnderway, Underway, AwaitToken

\* An attempt of Screen Mode that begins drives it.
LEMMA BeginKept ==
    ASSUME Rescue, NEW a \in Attempt, attempt'[a].at = "token", attempt'[a].kind = "screen",
           screenStatus' \in {"connecting", "reconnecting"}, screenRetryTimer' = FALSE,
           peerState' = peerState, dataChannelStatus' = dataChannelStatus
    PROVE  Rescue'
  <1>1. ScreenWaits' /\ ScreenUnderway'
    BY DEF ScreenWaits, ScreenUnderway, Underway
  <1>2. ConnectingNoRetry'
    BY DEF ConnectingNoRetry
  <1> QED BY <1>1, <1>2
      DEF Rescue, ConnectingIsUnderway, TokenIsScreens, BrokenIsTimed,
          BrokenWhileConnecting, UnlinkedIsDriven, OpenHasPeer

\* Recovery that is scheduled drives it.
LEMMA RecoveryKept ==
    ASSUME PhoneTypes, Rescue, ScheduleRecovery, attempt' = attempt,
           peerState' \in {peerState, "failed"},
           dataChannelStatus' = dataChannelStatus,
           Watching' /\ AwaitToken # {} => Watching
    PROVE  Rescue'
  <1>1. /\ ScreenWaits' <=> ScreenWaits
        /\ ScreenUnderway' <=> ScreenUnderway
        /\ AwaitToken' = AwaitToken
    BY AttemptsKept
  <1>2. screenOpen' = screenOpen /\ (screenOpen => screenRetryTimer')
    BY DEF ScheduleRecovery
  <1>3. /\ screenRetryTimer' => screenStatus' # "connecting"
        /\ screenStatus' \in {screenStatus, "reconnecting"}
        /\ screenOpen => screenStatus' # "connecting"
    BY DEF ScheduleRecovery, Rescue, ConnectingNoRetry
  <1>4. Watching' => Timed'
    BY <1>2 DEF Watching, Timed
  <1>5. TokenIsScreens'
    BY <1>1 DEF Rescue, TokenIsScreens
  <1>6. OpenHasPeer'
    BY PeerAssumption DEF Rescue, OpenHasPeer
  <1> QED BY <1>2, <1>3, <1>4, <1>5, <1>6
      DEF Rescue, ConnectingIsUnderway, ConnectingNoRetry, BrokenIsTimed,
          BrokenWhileConnecting, UnlinkedIsDriven

PhoneInv == PhoneTypes /\ Rescue

\* The types of what the rejected attempts leave.
LEMMA ScreenTypesCaught ==
    ASSUME ScreenTypes, screenOpen' \in BOOLEAN,
           NEW failing \in SUBSET Attempt,
           NEW shown \in ScreenStatus, NEW held \in BOOLEAN,
           NEW stray \in Nat, stray <= strayTimers,
           CatchesShown(failing, shown, held), CatchesCounted(failing, stray),
           \A x \in failing : attempt'[x].at = "failed" /\ attempt[x].at # "failed",
           \A x \in Attempt \ failing : attempt[x].at = "failed" => attempt'[x].at = "failed"
    PROVE  ScreenTypes'
  <1>1. failing \cap Failures = {} /\ failing \cup Failures \subseteq Failures'
    BY DEF Failures
  <1>2. strayTimers \in Nat /\ strayTimers <= Cardinality(Failures)
    BY LinkAssumption DEF ScreenTypes
  <1>3. strayTimers' <= Cardinality(Failures') /\ strayTimers' \in 0..MaxAttempt
    BY <1>1, <1>2, StrayBound
  <1>4. screenStatus' \in ScreenStatus
    BY DEF CatchesShown, ScreenStatus
  <1>5. screenRetryTimer' \in BOOLEAN
    BY Zenon DEF CatchesShown
  <1> QED BY <1>3, <1>4, <1>5 DEF ScreenTypes

\* ... and where nothing of the screen changes.
LEMMA ScreenTypesKept ==
    ASSUME ScreenTypes, screenOpen' \in BOOLEAN, screenRetryTimer' \in BOOLEAN,
           screenStatus' \in ScreenStatus, strayTimers' \in Nat, strayTimers' <= strayTimers,
           \A x \in Attempt : attempt[x].at = "failed" => attempt'[x].at = "failed"
    PROVE  ScreenTypes'
  <1>1. Failures \subseteq Failures' /\ Failures' \in SUBSET Attempt /\ Failures \in SUBSET Attempt
    BY DEF Failures
  <1>2. /\ Cardinality(Failures) \in Nat /\ Cardinality(Failures') \in Nat
        /\ Cardinality(Failures) <= Cardinality(Failures')
    BY <1>1, Finite, FS_Subset
  <1> QED BY <1>2, LinkAssumption DEF ScreenTypes

\* Attempts, not waiting for a token, that throw.
LEMMA ThrowStep ==
    ASSUME PhoneInv, NEW A \in SUBSET Attempt,
           \A x \in A : Underway(x) /\ attempt[x].at # "token",
           attempt' = Failed(A), Caught(A, screenStatus, screenRetryTimer, strayTimers),
           UNCHANGED <<screenOpen, watch, dataChannelStatus, connectionStatus>>,
           StoreTypes'
    PROVE  PhoneInv'
  <1> USE DEF PhoneInv, PhoneTypes
  <1>1. Attempts' /\ \A x \in Attempt : /\ attempt'[x].kind = attempt[x].kind
                                        /\ attempt'[x].at = IF x \in A THEN "failed" ELSE attempt[x].at
    BY FailedAre DEF Attempts
  <1>2. /\ \A x \in A : GoesTo(x, "failed")
        /\ \A x \in Attempt \ A : Keeps(x)
    BY <1>1 DEF GoesTo, Keeps
  <1>3. strayTimers \in Nat /\ screenStatus \in ScreenStatus /\ screenRetryTimer \in BOOLEAN
    BY LinkAssumption DEF ScreenTypes
  <1>4. /\ CatchesShown(A, screenStatus, screenRetryTimer)
        /\ CatchesCounted(A, strayTimers)
    BY <1>3, CaughtIs
  <1>5. ScreenTypes'
    <2>1. screenOpen' \in BOOLEAN
      BY DEF ScreenTypes
    <2>2. \A x \in A : attempt'[x].at = "failed" /\ attempt[x].at # "failed"
      BY <1>1 DEF Underway
    <2>3. \A x \in Attempt \ A : attempt[x].at = "failed" => attempt'[x].at = "failed"
      BY <1>1
    <2> QED BY <1>3, <1>4, <2>1, <2>2, <2>3, ScreenTypesCaught
  <1>6. WatchTypes'
    BY DEF WatchTypes, watch
  <1>7. Rescue'
    <2>1. peerState = None => dataChannelStatus' # "open"
      BY DEF Rescue, OpenHasPeer
    <2> QED BY <1>2, <1>4, <2>1, CatchKept
  <1> QED BY <1>1, <1>5, <1>6, <1>7

\* They all wait for the token.
LEMMA NoTokenStep ==
    ASSUME PhoneInv, NoToken
    PROVE  PhoneInv'
  <1> USE DEF PhoneInv, PhoneTypes
  <1> DEFINE A == AwaitToken
  <1>1. /\ attempt' = Failed(A) /\ Caught(A, screenStatus, screenRetryTimer, strayTimers)
        /\ UNCHANGED <<store, applying, watch, dataChannelStatus, screenOpen>>
        /\ connectionStatus' = connectionStatus
        /\ A \in SUBSET Attempt
    BY DEF NoToken, Throw, link, sig, AwaitToken
  <1>2. Attempts' /\ \A x \in Attempt : /\ attempt'[x].kind = attempt[x].kind
                                        /\ attempt'[x].at = IF x \in A THEN "failed" ELSE attempt[x].at
    BY <1>1, FailedAre DEF Attempts
  <1>3. strayTimers \in Nat /\ screenStatus \in ScreenStatus /\ screenRetryTimer \in BOOLEAN
    BY LinkAssumption DEF ScreenTypes
  <1>4. /\ CatchesShown(A, screenStatus, screenRetryTimer)
        /\ CatchesCounted(A, strayTimers)
    BY <1>1, <1>3, CaughtIs
  <1>5. ScreenTypes'
    <2>1. screenOpen' \in BOOLEAN
      BY <1>1 DEF ScreenTypes
    <2>2. \A x \in A : attempt'[x].at = "failed" /\ attempt[x].at # "failed"
      BY <1>1, <1>2 DEF AwaitToken
    <2>3. \A x \in Attempt \ A : attempt[x].at = "failed" => attempt'[x].at = "failed"
      BY <1>2
    <2> QED BY <1>1, <1>3, <1>4, <2>1, <2>2, <2>3, ScreenTypesCaught
  <1>6. WatchTypes' /\ StoreTypes'
    BY <1>1 DEF WatchTypes, StoreTypes, watch, store
  <1>7. Rescue'
    <2> USE DEF Rescue
    <2>1. /\ peerState' = peerState /\ peerDisconnectTimer' = peerDisconnectTimer
          /\ dataChannelStatus' = dataChannelStatus
          /\ screenOpen' = screenOpen
          /\ Watching' <=> Watching
          /\ Broken' <=> Broken
      BY <1>1 DEF watch, Watching, Broken
    <2>2. OpenHasPeer' /\ AwaitToken' = {}
      BY <1>2, <2>1 DEF OpenHasPeer, AwaitToken
    <2>3. CASE /\ screenOpen' /\ screenStatus' = "failed" /\ screenRetryTimer' = TRUE
      BY <2>2, <2>3
      DEF ConnectingIsUnderway, ConnectingNoRetry, BrokenIsTimed, BrokenWhileConnecting,
          UnlinkedIsDriven, Timed, TokenIsScreens
    <2>4. CASE /\ ~screenOpen'
               /\ screenStatus' = screenStatus /\ screenRetryTimer' = screenRetryTimer
      BY <2>1, <2>2, <2>4
      DEF ConnectingIsUnderway, ConnectingNoRetry, BrokenIsTimed, BrokenWhileConnecting,
          UnlinkedIsDriven, Timed, TokenIsScreens, Watching
    <2>5. CASE /\ \A a \in A : attempt'[a].kind # "screen"
               /\ screenStatus' = screenStatus /\ screenRetryTimer' = screenRetryTimer
      <3>1. ~ScreenWaits
        BY <1>1, <1>2, <2>5 DEF ScreenWaits, AwaitToken
      <3>2. ~Watching
        BY <1>1, <3>1 DEF TokenIsScreens, NoToken
      <3>3. ScreenUnderway => ScreenUnderway'
        BY <1>2, <2>5 DEF ScreenUnderway, Underway
      <3> QED BY <2>1, <2>2, <2>5, <3>1, <3>2, <3>3
          DEF ConnectingIsUnderway, ConnectingNoRetry, BrokenIsTimed, BrokenWhileConnecting,
              UnlinkedIsDriven, TokenIsScreens
    <2> QED BY <1>4, <2>3, <2>4, <2>5 DEF CatchesShown
  <1> QED BY <1>2, <1>5, <1>6, <1>7

\* What waits is no attempt that waits for a token.
LEMMA WaitingAre ==
    Waiting \in SUBSET Attempt
    /\ \A x \in Waiting : Underway(x) /\ attempt[x].at \notin {"token", "failed"}
  BY DEF Waiting, Underway

\* The attempts that got their token tear down what there was.
LEMMA TearDownStep ==
    ASSUME PhoneInv, TearDown
    PROVE  PhoneInv'
  <1> USE DEF PhoneInv, PhoneTypes
  <1>1. /\ AwaitToken \in SUBSET Attempt /\ AwaitToken # {}
        /\ Caught(Waiting, screenStatus, screenRetryTimer, strayTimers)
        /\ UNCHANGED <<applying, screenOpen>>
        /\ connectionStatus' = connectionStatus
    BY DEF TearDown, AwaitToken, sig
  <1>2. Last(AwaitToken) \in Attempt
    BY <1>1, LastIsOne
  <1>3. ASSUME NEW x \in Attempt
        PROVE  /\ attempt'[x] \in AttemptRec
               /\ attempt'[x].kind = attempt[x].kind
               /\ attempt'[x].at = IF x \in AwaitToken THEN "ice"
                                   ELSE IF x \in Waiting THEN "failed" ELSE attempt[x].at
    <2>1. attempt[x] \in AttemptRec
      BY DEF Attempts
    <2>2. /\ [attempt[x] EXCEPT !.at = "ice"] \in AttemptRec
          /\ [attempt[x] EXCEPT !.at = "ice"].at = "ice"
          /\ [attempt[x] EXCEPT !.at = "ice"].kind = attempt[x].kind
      BY <2>1 DEF AttemptRec
    <2>3. attempt'[x] = IF x \in AwaitToken THEN [attempt[x] EXCEPT !.at = "ice"]
                        ELSE Failed(Waiting)[x]
      BY DEF TearDown
    <2>4. /\ Failed(Waiting)[x] \in AttemptRec /\ Failed(Waiting)[x].kind = attempt[x].kind
          /\ Failed(Waiting)[x].at = IF x \in Waiting THEN "failed" ELSE attempt[x].at
      BY FailedAre
    <2> QED BY <2>2, <2>3, <2>4
  <1>4. Attempts'
    BY <1>3 DEF Attempts, TearDown
  <1>5. strayTimers \in Nat /\ screenStatus \in ScreenStatus /\ screenRetryTimer \in BOOLEAN
    BY LinkAssumption DEF ScreenTypes
  <1>6. /\ CatchesShown(Waiting, screenStatus, screenRetryTimer)
        /\ CatchesCounted(Waiting, strayTimers)
    BY <1>1, <1>5, CaughtIs, WaitingAre
  <1>7. ScreenTypes'
    <2>1. screenOpen' \in BOOLEAN
      BY <1>1 DEF ScreenTypes
    <2>2. \A x \in Waiting : attempt'[x].at = "failed" /\ attempt[x].at # "failed"
      BY <1>3, WaitingAre DEF AwaitToken
    <2>3. \A x \in Attempt \ Waiting : attempt[x].at = "failed" => attempt'[x].at = "failed"
      BY <1>3 DEF AwaitToken
    <2> QED BY <1>5, <1>6, <2>1, <2>2, <2>3, ScreenTypesCaught, WaitingAre
  <1>8. WatchTypes' /\ StoreTypes'
    BY <1>1, <1>2 DEF TearDown, WatchTypes, StoreTypes
  <1>9. Rescue'
    <2> USE DEF Rescue
    <2>a. peerState' = None /\ ~Broken' /\ OpenHasPeer'
      BY PeerAssumption DEF TearDown, Broken, OpenHasPeer
    <2>b. AwaitToken' = {}
      BY <1>3 DEF AwaitToken
    <2>c. Watching' <=> Watching
      BY <1>1 DEF Watching
    <2>1. /\ peerState' = None /\ ~Broken' /\ OpenHasPeer' /\ AwaitToken' = {}
          /\ Watching' <=> Watching
      BY <2>a, <2>b, <2>c
    <2>2. TokenIsScreens' /\ BrokenIsTimed' /\ BrokenWhileConnecting'
      BY <2>1 DEF TokenIsScreens, BrokenIsTimed, BrokenWhileConnecting
    <2>3. UnlinkedIsDriven'
      <3>1. ScreenWaits => ScreenUnderway'
        BY <1>3 DEF ScreenWaits, ScreenUnderway, Underway, AwaitToken
      <3> QED BY <1>1, <2>1, <3>1 DEF UnlinkedIsDriven, TokenIsScreens
    <2>4. CASE screenOpen' /\ screenStatus' = "failed" /\ screenRetryTimer' = TRUE
      BY <2>1, <2>2, <2>3, <2>4 DEF ConnectingIsUnderway, ConnectingNoRetry
    <2>5. CASE ~screenOpen' /\ screenStatus' = screenStatus /\ screenRetryTimer' = screenRetryTimer
      BY <2>1, <2>2, <2>3, <2>5 DEF ConnectingIsUnderway, ConnectingNoRetry
    <2>6. CASE /\ \A a \in Waiting : attempt'[a].kind # "screen"
               /\ screenStatus' = screenStatus /\ screenRetryTimer' = screenRetryTimer
      <3>1. ScreenUnderway => ScreenUnderway'
        BY <1>3, <2>6 DEF ScreenUnderway, Underway
      <3> QED BY <1>1, <2>1, <2>2, <2>3, <2>6, <3>1 DEF ConnectingIsUnderway, ConnectingNoRetry
    <2> QED BY <1>6, <2>4, <2>5, <2>6 DEF CatchesShown
  <1> QED BY <1>4, <1>7, <1>8, <1>9

\* An attempt goes on to its next stage.
LEMMA AdvanceStep ==
    ASSUME PhoneInv, NEW a \in Attempt, NEW stage \in Stage,
           Underway(a), attempt[a].at # "token",
           stage \notin {"none", "token", "done", "failed"},
           attempt' = [attempt EXCEPT ![a].at = stage],
           UNCHANGED <<watch, screen, connectionStatus>>,
           dataChannelStatus' \in {dataChannelStatus, "connecting"},
           StoreTypes'
    PROVE  PhoneInv'
  <1> USE DEF PhoneInv, PhoneTypes
  <1>1. Attempts' /\ GoesTo(a, stage) /\ Others(a)
    BY StageChanged
  <1>2. \A x \in Attempt : \/ Keeps(x)
                           \/ /\ attempt'[x].kind = attempt[x].kind
                              /\ Underway(x) /\ Underway(x)'
                              /\ attempt[x].at # "token" /\ attempt'[x].at # "token"
    BY <1>1 DEF Others, GoesTo, Underway
  <1>3. WatchTypes'
    BY DEF WatchTypes, watch
  <1>4. ScreenTypes'
    <2>1. /\ screenOpen' \in BOOLEAN /\ screenRetryTimer' \in BOOLEAN
          /\ screenStatus' \in ScreenStatus /\ strayTimers' \in Nat /\ strayTimers' <= strayTimers
      BY LinkAssumption DEF screen, ScreenTypes
    <2>2. \A x \in Attempt : attempt[x].at = "failed" => attempt'[x].at = "failed"
      BY <1>2 DEF Keeps, Underway
    <2> QED BY <2>1, <2>2, ScreenTypesKept
  <1>5. Rescue'
    <2>1. /\ CatchesShown({}, screenStatus, screenRetryTimer)
          /\ UNCHANGED <<screenOpen, connectionStatus, watch>>
      BY DEF CatchesShown, screen
    <2>2. CatchesCounted({}, strayTimers)
      BY LinkAssumption, FS_EmptySet DEF CatchesCounted, screen, ScreenTypes
    <2>3. peerState = None => dataChannelStatus' # "open"
      BY DEF Rescue, OpenHasPeer
    <2>4. {} \in SUBSET Attempt
      OBVIOUS
    <2> QED BY <1>2, <2>1, <2>2, <2>3, <2>4, CatchKept
  <1> QED BY <1>1, <1>3, <1>4, <1>5

\* Nothing that drives Screen Mode is touched.
LEMMA QuietStep ==
    ASSUME PhoneInv, attempt' = attempt, UNCHANGED <<watch, screen>>,
           connectionStatus' = connectionStatus \/ connectionStatus' # "connected",
           dataChannelStatus' \in {dataChannelStatus, "closed"}, StoreTypes'
    PROVE  PhoneInv'
  <1> USE DEF PhoneInv, PhoneTypes
  <1>1. Attempts' /\ WatchTypes'
    BY DEF Attempts, WatchTypes, watch
  <1>2. ScreenTypes'
    BY DEF ScreenTypes, screen, Failures
  <1>3. Rescue'
    BY AttemptsKept
    DEF Rescue, ConnectingIsUnderway, ConnectingNoRetry, TokenIsScreens, BrokenIsTimed,
        BrokenWhileConnecting, UnlinkedIsDriven, OpenHasPeer, Watching, Broken, Timed,
        watch, screen
  <1> QED BY <1>1, <1>2, <1>3

PhoneQueue == toPhone \in Seq(Msg) /\ SoundQueue(toPhone)

\* The attempts that ask for a session, send an offer, throw or time out.
LEMMA AttemptSteps ==
    ASSUME PhoneInv, NEW a \in Attempt,
           \/ AskForSession(a) \/ SendOffer(a)
           \/ NoIceServers(a) \/ OfferThrows(a) \/ TimesOut(a)
    PROVE  PhoneInv'
  <1> USE DEF PhoneInv, PhoneTypes
  <1>1. CASE AskForSession(a)
    <2>1. /\ attempt[a].at = "ice" /\ attempt' = [attempt EXCEPT ![a].at = "start"]
          /\ UNCHANGED <<watch, screen, connectionStatus, dataChannelStatus>>
          /\ "start" \in Stage
      BY <1>1 DEF AskForSession, sig, Stage
    <2>2. StoreTypes'
      BY <1>1 DEF AskForSession, StoreTypes
    <2> QED BY <2>1, <2>2, AdvanceStep DEF Underway
  <1>2. CASE SendOffer(a)
    <2>1. /\ attempt[a].at = "offer" /\ attempt' = [attempt EXCEPT ![a].at = "answer"]
          /\ UNCHANGED <<watch, screen, connectionStatus, dataChannelStatus>>
          /\ "answer" \in Stage
      BY <1>2 DEF SendOffer, sig, Stage
    <2>2. StoreTypes'
      BY <1>2 DEF SendOffer, StoreTypes
    <2> QED BY <2>1, <2>2, AdvanceStep DEF Underway
  <1>3. CASE NoIceServers(a) \/ OfferThrows(a) \/ TimesOut(a)
    <2>1. /\ Throw({a}) /\ connectionStatus' = connectionStatus
          /\ Underway(a) /\ attempt[a].at # "token"
      BY <1>3 DEF NoIceServers, OfferThrows, TimesOut, link, sig, Underway
    <2>2. StoreTypes'
      BY <2>1 DEF Throw, StoreTypes, store
    <2>3. {a} \in SUBSET Attempt /\ \A x \in {a} : Underway(x) /\ attempt[x].at # "token"
      BY <2>1
    <2>4. /\ attempt' = Failed({a}) /\ Caught({a}, screenStatus, screenRetryTimer, strayTimers)
          /\ UNCHANGED <<screenOpen, watch, dataChannelStatus, connectionStatus>>
      BY <2>1 DEF Throw
    <2> QED BY <2>2, <2>3, <2>4, ThrowStep
  <1> QED BY <1>1, <1>2, <1>3

\* The messages the iPhone receives.
LEMMA ReceiveSteps ==
    ASSUME PhoneInv, PhoneQueue, RecvStart \/ RecvAnswer \/ RecvError
    PROVE  PhoneInv'
  <1> USE DEF PhoneInv, PhoneTypes
  <1>1. toPhone # <<>> => Sound(Head(toPhone))
    BY Tailed DEF PhoneQueue
  <1>2. CASE RecvStart
    <2>1. /\ Head(toPhone).session \in Session
          /\ pendingSessionStart' = None /\ pendingAnswer' = pendingAnswer
          /\ webrtcClient' = webrtcClient /\ applying' = applying
          /\ UNCHANGED <<watch, screen, connectionStatus>>
      BY <1>1, <1>2 DEF RecvStart, Sound, sig
    <2>2. CASE pendingSessionStart \in Waiting
      <3>1. PICK a \in Attempt : a = pendingSessionStart /\ a \in Waiting
        BY <2>2, WaitingAre
      <3>2. /\ sessionId' = Head(toPhone).session
            /\ attempt' = [attempt EXCEPT ![a].at = "offer"]
            /\ dataChannelStatus' = "connecting" /\ "offer" \in Stage
        BY <1>2, <3>1 DEF RecvStart, Stage
      <3>3. StoreTypes'
        BY <2>1, <3>2 DEF StoreTypes
      <3>4. Underway(a) /\ attempt[a].at # "token"
        BY <3>1, WaitingAre
      <3> QED BY <2>1, <3>2, <3>3, <3>4, AdvanceStep
    <2>3. CASE pendingSessionStart \notin Waiting
      <3>1. UNCHANGED <<sessionId, attempt, dataChannelStatus>>
        BY <1>2, <2>3 DEF RecvStart
      <3>2. StoreTypes'
        BY <2>1, <3>1 DEF StoreTypes
      <3> QED BY <2>1, <3>1, <3>2, QuietStep
    <2> QED BY <2>2, <2>3
  <1>3. CASE RecvAnswer
    <2>1. /\ UNCHANGED <<attempt, store, watch, screen, connectionStatus, dataChannelStatus>>
          /\ Head(toPhone).session \in Session /\ Head(toPhone).offer \in Attempt
      BY <1>1, <1>3 DEF RecvAnswer, Sound, sig
    <2>2. \/ applying' = applying
          \/ /\ webrtcClient \in Attempt /\ sessionId \in Session
             /\ applying' = applying \cup {[client |-> webrtcClient, session |-> sessionId,
                                            offer |-> Head(toPhone).offer]}
      BY <1>3, <2>1 DEF RecvAnswer, StoreTypes
    <2>3. StoreTypes'
      BY <2>1, <2>2 DEF StoreTypes, store
    <2> QED BY <2>1, <2>3, QuietStep
  <1>4. CASE RecvError
    <2>1. StoreTypes'
      BY <1>4 DEF RecvError, StoreTypes
    <2> QED BY <1>4, <2>1, ThrowStep, WaitingAre DEF RecvError, sig
  <1> QED BY <1>2, <1>3, <1>4

\* An answer is applied, or fails.
LEMMA AnswerStep ==
    ASSUME PhoneInv, NEW r \in applying, ApplyAnswer(r)
    PROVE  PhoneInv'
  <1> USE DEF PhoneInv, PhoneTypes
  <1> DEFINE applies == pc[r.client].conn = "open" /\ r.offer = r.client
             p == pendingAnswer
             failing == IF attempt' # attempt /\ ~applies THEN {p} ELSE {}
             shown == IF attempt' # attempt /\ attempt'[p].at = "done" /\ screenOpen
                         /\ attempt[p].kind = "screen" THEN "connected" ELSE screenStatus
  <1>1. /\ attempt' = IF p \notin Waiting \/ attempt[p].at # "answer" THEN attempt
                      ELSE IF applies
                      THEN [attempt EXCEPT ![p].at =
                               IF dataChannelStatus = "open" THEN "done" ELSE "channel"]
                      ELSE Failed({p})
        /\ Caught(failing, shown, screenRetryTimer, strayTimers)
        /\ UNCHANGED <<store, watch, dataChannelStatus, screenOpen>>
        /\ connectionStatus' = connectionStatus /\ applying' \subseteq applying
    BY DEF ApplyAnswer, sig
  <1>2. StoreTypes' /\ WatchTypes'
    BY <1>1 DEF StoreTypes, WatchTypes, store, watch
  <1>3. strayTimers \in Nat /\ screenRetryTimer \in BOOLEAN /\ screenOpen' \in BOOLEAN
        /\ screenStatus \in ScreenStatus /\ "connected" \in ScreenStatus
    BY <1>1, LinkAssumption DEF ScreenTypes, ScreenStatus
  <1>4. peerState = None => dataChannelStatus' # "open"
    BY <1>1 DEF Rescue, OpenHasPeer
  <1>5. CASE attempt' = attempt
    <2>1. failing = {} /\ shown = screenStatus /\ {} \in SUBSET Attempt
      BY <1>5
    <2>2. Caught({}, screenStatus, screenRetryTimer, strayTimers)
      BY <1>1, <2>1
    <2>3. /\ CatchesShown({}, screenStatus, screenRetryTimer)
          /\ CatchesCounted({}, strayTimers)
      BY <1>3, <2>1, <2>2, CaughtIs
    <2>4. Attempts' /\ \A x \in Attempt : Keeps(x)
      BY <1>5 DEF Attempts, Keeps
    <2>5. ScreenTypes'
      BY <1>3, <1>5, <2>1, <2>3, ScreenTypesCaught
    <2>6. Rescue'
      BY <1>1, <1>4, <2>1, <2>3, <2>4, CatchKept
    <2> QED BY <1>2, <2>4, <2>5, <2>6
  <1>6. CASE attempt' # attempt
    <2>1. p \in Waiting /\ attempt[p].at = "answer" /\ p \in Attempt
      BY <1>1, <1>6, WaitingAre
    <2>2. Underway(p) /\ attempt[p].at # "token"
      BY <2>1, WaitingAre
    <2>3. CASE ~applies
      <3>1. failing = {p} /\ attempt' = Failed({p}) /\ {p} \in SUBSET Attempt
        BY <1>1, <1>6, <2>1, <2>3
      <3>2. attempt'[p].at = "failed"
        BY <2>1, <3>1, FailedAre
      <3>3. shown = screenStatus
        BY <3>2
      <3>4. Caught({p}, screenStatus, screenRetryTimer, strayTimers)
        BY <1>1, <3>1, <3>3
      <3> QED BY <1>1, <1>2, <2>2, <3>1, <3>4, ThrowStep
    <2>4. CASE applies
      <3>1. PICK stage \in {"done", "channel"} :
               /\ attempt' = [attempt EXCEPT ![p].at = stage]
               /\ stage = "done" <=> dataChannelStatus = "open"
        BY <1>1, <1>6, <2>1, <2>4
      <3>2. Attempts' /\ GoesTo(p, stage) /\ Others(p)
        BY <2>1, <3>1, StageChanged DEF Stage
      <3>3. failing = {} /\ {} \in SUBSET Attempt
        BY <2>4
      <3>4. PICK sh \in {screenStatus, "connected"} : sh = shown
        OBVIOUS
      <3>5. Caught({}, sh, screenRetryTimer, strayTimers)
        BY <1>1, <3>3, <3>4
      <3>6. /\ CatchesShown({}, sh, screenRetryTimer) /\ CatchesCounted({}, strayTimers)
        BY <1>3, <3>3, <3>5, CaughtIs
      <3>7. ScreenTypes'
        <4>1. sh \in ScreenStatus
          BY <1>3, <3>4
        <4>2. \A x \in Attempt : attempt[x].at = "failed" => attempt'[x].at = "failed"
          BY <2>1, <3>2 DEF Others, Keeps
        <4> QED BY <1>3, <3>3, <3>6, <4>1, <4>2, ScreenTypesCaught
      <3>8. CASE stage = "channel"
        <4>1. \A x \in Attempt : \/ Keeps(x)
                                 \/ /\ attempt'[x].kind = attempt[x].kind
                                    /\ Underway(x) /\ Underway(x)'
                                    /\ attempt[x].at # "token" /\ attempt'[x].at # "token"
          BY <2>1, <2>2, <3>2, <3>8 DEF Others, GoesTo, Underway
        <4>2. Rescue'
          BY <1>1, <1>4, <3>3, <3>6, <4>1, CatchKept
        <4> QED BY <1>2, <3>2, <3>7, <4>2
      <3>9. CASE stage = "done"
        <4>1. /\ strayTimers' >= strayTimers /\ screenRetryTimer' = screenRetryTimer
              /\ screenStatus' = shown
          BY <3>4, <3>6 DEF CatchesShown, CatchesCounted
        <4>2. \A x \in Attempt : /\ attempt'[x].kind = attempt[x].kind
                                 /\ attempt'[x].at = "token" <=> attempt[x].at = "token"
                                 /\ x # p => attempt'[x].at = attempt[x].at
          BY <2>1, <3>2, <3>9 DEF Others, GoesTo, Keeps
        <4>3. (ScreenWaits' <=> ScreenWaits) /\ AwaitToken' = AwaitToken
          BY <4>2 DEF ScreenWaits, AwaitToken
        <4>4. screenOpen /\ attempt[p].kind = "screen" => screenStatus' = "connected"
          BY <1>6, <2>1, <3>2, <3>9, <4>1 DEF GoesTo
        <4>5. attempt[p].kind # "screen" => (ScreenUnderway => ScreenUnderway')
          BY <4>2 DEF ScreenUnderway, Underway
        <4>6. screenStatus' = "connecting" => screenStatus = "connecting"
          BY <4>1
        <4>7. peerState' = peerState /\ peerState # None /\ peerDisconnectTimer' = peerDisconnectTimer
              /\ dataChannelStatus' = dataChannelStatus
          BY <1>1, <3>1, <3>9 DEF watch, Rescue, OpenHasPeer
        <4>8. Timed => Timed'
          <5>1. strayTimers > 0 => strayTimers' > 0
            BY <1>3, <3>6 DEF CatchesCounted
          <5> QED BY <4>1, <4>7, <5>1 DEF Timed
        <4>9. (Watching' <=> Watching) /\ (Broken' <=> Broken) /\ screenOpen' = screenOpen
          BY <1>1, <4>7 DEF Watching, Broken
        <4>10. Rescue'
          BY <4>1, <4>3, <4>4, <4>5, <4>6, <4>7, <4>8, <4>9
          DEF Rescue, ConnectingIsUnderway, ConnectingNoRetry, TokenIsScreens, BrokenIsTimed,
              BrokenWhileConnecting, UnlinkedIsDriven, OpenHasPeer
        <4> QED BY <1>2, <3>2, <3>7, <4>10
      <3> QED BY <3>8, <3>9
    <2> QED BY <2>3, <2>4
  <1> QED BY <1>5, <1>6

\* Events of the peer connection and of its data channel.
LEMMA PeerSteps ==
    ASSUME PhoneInv, NEW a,
           PeerConnected(a) \/ PeerDisconnected \/ PeerFailed(a) \/ GraceEnds
    PROVE  PhoneInv'
  <1> USE DEF PhoneInv, PhoneTypes
  <1>1. /\ UNCHANGED <<attempt, store, applying, dataChannelStatus, screenOpen, strayTimers>>
        /\ connectionStatus' = connectionStatus
    BY DEF PeerConnected, PeerDisconnected, PeerFailed, GraceEnds, ScheduleRecovery, screen,
           link, sig
  <1>2. Attempts' /\ StoreTypes'
    BY <1>1 DEF Attempts, StoreTypes, store
  <1>3. WatchTypes'
    BY <1>1 DEF PeerConnected, PeerDisconnected, PeerFailed, GraceEnds, WatchTypes
  <1>4. ScreenTypes'
    <2>1. screenRetryTimer' \in BOOLEAN /\ screenStatus' \in ScreenStatus
      BY DEF PeerConnected, PeerDisconnected, PeerFailed, GraceEnds, ScheduleRecovery, screen,
             ScreenTypes, ScreenStatus
    <2> QED BY <1>1, <2>1 DEF ScreenTypes, Failures
  <1>5. /\ ScreenWaits' <=> ScreenWaits
        /\ ScreenUnderway' <=> ScreenUnderway
        /\ AwaitToken' = AwaitToken
        /\ Watching' <=> Watching
    BY <1>1, AttemptsKept DEF Watching
  <1>6. CASE PeerConnected(a)
    <2>1. peerState' = "connected" /\ ~Broken' /\ peerState' # None /\ UNCHANGED screen
      BY <1>6, PeerAssumption DEF PeerConnected, Broken
    <2>2. Rescue'
      BY <1>1, <1>5, <2>1
      DEF Rescue, ConnectingIsUnderway, ConnectingNoRetry, TokenIsScreens, BrokenIsTimed,
          BrokenWhileConnecting, UnlinkedIsDriven, OpenHasPeer, screen
    <2> QED BY <1>2, <1>3, <1>4, <2>2
  <1>7. CASE PeerDisconnected
    <2>1. peerDisconnectTimer' /\ peerState' # None /\ UNCHANGED screen /\ Timed'
      BY <1>7, PeerAssumption DEF PeerDisconnected, Timed
    <2>2. Rescue'
      BY <1>1, <1>5, <2>1
      DEF Rescue, ConnectingIsUnderway, ConnectingNoRetry, TokenIsScreens, BrokenIsTimed,
          BrokenWhileConnecting, UnlinkedIsDriven, OpenHasPeer, screen
    <2> QED BY <1>2, <1>3, <1>4, <2>2
  <1>8. CASE ScheduleRecovery /\ peerState' \in {peerState, "failed"}
    <2>1. Rescue'
      BY <1>1, <1>5, <1>8, RecoveryKept
    <2> QED BY <1>2, <1>3, <1>4, <2>1
  <1>9. CASE GraceEnds /\ peerState = "connected"
    <2>1. peerState' = "connected" /\ ~Broken' /\ peerState' # None /\ UNCHANGED screen
      BY <1>9, PeerAssumption DEF GraceEnds, Broken
    <2>2. Rescue'
      BY <1>1, <1>5, <2>1
      DEF Rescue, ConnectingIsUnderway, ConnectingNoRetry, TokenIsScreens, BrokenIsTimed,
          BrokenWhileConnecting, UnlinkedIsDriven, OpenHasPeer, screen
    <2> QED BY <1>2, <1>3, <1>4, <2>2
  <1> QED BY <1>6, <1>7, <1>8, <1>9 DEF PeerFailed, GraceEnds

\* The data channel of the phone's client, as it opens and closes, keeps the phone's invariant.
LEMMA DataChannelSteps ==
    ASSUME PhoneInv, NEW a \in Attempt, ChannelOpens(a) \/ ChannelCloses(a)
    PROVE  PhoneInv'
  <1> USE DEF PhoneInv, PhoneTypes
  <1>1. CASE ChannelCloses(a)
    <2>1. StoreTypes'
      BY <1>1 DEF ChannelCloses, StoreTypes, store
    <2> QED BY <1>1, <2>1, QuietStep DEF ChannelCloses, sig
  <1>2. CASE ChannelOpens(a)
    <2> DEFINE finishes == attempt[a].at = "channel"
    <2>1. /\ dataChannelStatus' = "open" /\ peerState = "connected"
          /\ UNCHANGED <<store, applying, watch, screenOpen, screenRetryTimer, strayTimers>>
          /\ connectionStatus' = connectionStatus
          /\ attempt' = IF finishes THEN [attempt EXCEPT ![a].at = "done"] ELSE attempt
          /\ screenStatus' = IF finishes /\ attempt[a].kind = "screen" /\ screenOpen
                             THEN "connected" ELSE screenStatus
      BY <1>2 DEF ChannelOpens, sig
    <2>2. StoreTypes' /\ WatchTypes'
      BY <2>1 DEF StoreTypes, WatchTypes, store, watch
    <2>3. /\ Attempts' /\ Others(a) /\ attempt'[a].kind = attempt[a].kind
          /\ attempt'[a].at = IF finishes THEN "done" ELSE attempt[a].at
      <3>1. CASE finishes
        BY <2>1, <3>1, StageChanged DEF GoesTo, Stage
      <3>2. CASE ~finishes
        BY <2>1, <3>2 DEF Attempts, Others, Keeps
      <3> QED BY <3>1, <3>2
    <2>4. /\ ScreenWaits' <=> ScreenWaits
          /\ AwaitToken' = AwaitToken
      <3>1. \A x \in Attempt : /\ attempt'[x].kind = attempt[x].kind
                               /\ attempt'[x].at = "token" <=> attempt[x].at = "token"
        BY <2>3 DEF Others, Keeps
      <3> QED BY <3>1 DEF ScreenWaits, AwaitToken
    <2>5. ScreenTypes'
      <3>1. /\ screenOpen' \in BOOLEAN /\ screenRetryTimer' \in BOOLEAN
            /\ screenStatus' \in ScreenStatus /\ strayTimers' \in Nat /\ strayTimers' <= strayTimers
        BY <2>1, LinkAssumption DEF ScreenTypes, ScreenStatus
      <3>2. \A x \in Attempt : attempt[x].at = "failed" => attempt'[x].at = "failed"
        BY <2>3 DEF Others, Keeps
      <3> QED BY <3>1, <3>2, ScreenTypesKept
    <2>6. peerState' = "connected" /\ ~Broken' /\ peerState' # None
      BY <2>1, PeerAssumption DEF Broken, watch
    <2>7. (Watching' <=> Watching) /\ screenOpen' = screenOpen
      BY <2>1 DEF Watching
    <2>8. ConnectingIsUnderway'
      <3>1. CASE finishes /\ attempt[a].kind = "screen"
        BY <2>1, <3>1 DEF ConnectingIsUnderway
      <3>2. CASE ~(finishes /\ attempt[a].kind = "screen")
        <4>1. ScreenUnderway => ScreenUnderway'
          BY <2>3, <3>2 DEF ScreenUnderway, Others, Keeps, Underway
        <4> QED BY <2>1, <3>2, <4>1 DEF Rescue, ConnectingIsUnderway
      <3> QED BY <3>1, <3>2
    <2>9. Rescue'
      BY <2>1, <2>4, <2>6, <2>7, <2>8
      DEF Rescue, ConnectingNoRetry, TokenIsScreens, BrokenIsTimed,
          BrokenWhileConnecting, UnlinkedIsDriven, OpenHasPeer
    <2> QED BY <2>2, <2>3, <2>5, <2>9
  <1> QED BY <1>1, <1>2

\* How an attempt begins.
Began(a, kind, shown, held) ==
    /\ attempt[a].at = "none" /\ attempt'[a].kind = kind /\ Others(a)
    /\ \/ connectionStatus' = "connected" /\ attempt'[a].at = "token"
          /\ screenStatus' = shown /\ screenRetryTimer' = held
       \/ connectionStatus' # "connected" /\ attempt'[a].at = "failed"
          /\ \/ /\ screenOpen' /\ kind = "screen"
                /\ screenStatus' = "failed" /\ screenRetryTimer' = TRUE
             \/ /\ ~(screenOpen' /\ kind = "screen")
                /\ screenStatus' = shown /\ screenRetryTimer' = held

\* Beginning an attempt takes an unused one, and moves no other.
LEMMA BeganIs ==
    ASSUME PhoneInv, socket \in 0..MaxSocket, NEW a \in Attempt,
           NEW kind \in {"screen", "test"}, NEW shown \in ScreenStatus, NEW held \in BOOLEAN,
           NEW stray \in Nat, stray <= strayTimers, screenOpen' \in BOOLEAN,
           Start(a, kind, shown, held, stray)
    PROVE  Attempts' /\ ScreenTypes' /\ Began(a, kind, shown, held)
  <1> USE DEF PhoneInv, PhoneTypes
  <1>1. PICK stage \in {"token", "failed"} :
           /\ attempt' = [attempt EXCEPT ![a] = [at |-> stage, kind |-> kind, socket |-> socket]]
           /\ stage = "token" <=> connectionStatus' = "connected"
    BY DEF Start
  <1>2. PICK failing \in SUBSET Attempt :
           /\ failing = IF connectionStatus' = "connected" THEN {} ELSE {a}
           /\ Caught(failing, shown, held, stray)
    BY DEF Start
  <1>3. /\ Attempts' /\ attempt'[a].at = stage /\ attempt'[a].kind = kind /\ Others(a)
        /\ attempt[a].at = "none"
    BY <1>1, BegunIs DEF Stage, Start, Fresh
  <1>4. CatchesShown(failing, shown, held) /\ CatchesCounted(failing, stray)
    BY <1>2, CaughtIs
  <1>5. ScreenTypes'
    <2>1. \A x \in failing : attempt'[x].at = "failed" /\ attempt[x].at # "failed"
      BY <1>1, <1>2, <1>3
    <2>2. \A x \in Attempt \ failing : attempt[x].at = "failed" => attempt'[x].at = "failed"
      BY <1>3 DEF Others, Keeps
    <2> QED BY <1>4, <2>1, <2>2, ScreenTypesCaught
  <1>6. CASE connectionStatus' = "connected"
    <2>1. failing = {} /\ stage = "token"
      BY <1>1, <1>2, <1>6
    <2>2. screenStatus' = shown /\ screenRetryTimer' = held
      BY <1>4, <2>1 DEF CatchesShown
    <2> QED BY <1>3, <1>5, <1>6, <2>1, <2>2 DEF Began
  <1>7. CASE connectionStatus' # "connected"
    <2>1. failing = {a} /\ stage = "failed"
      BY <1>1, <1>2, <1>7
    <2>2. \/ /\ screenOpen' /\ kind = "screen"
             /\ screenStatus' = "failed" /\ screenRetryTimer' = TRUE
          \/ /\ ~(screenOpen' /\ kind = "screen")
             /\ screenStatus' = shown /\ screenRetryTimer' = held
      BY <1>3, <1>4, <2>1 DEF CatchesShown
    <2> QED BY <1>3, <1>5, <1>7, <2>1, <2>2 DEF Began
  <1> QED BY <1>6, <1>7

\* The user opens Screen Mode, closes it, or tests the connection without it.
LEMMA UserSteps ==
    ASSUME PhoneInv, SigTypes, NEW a,
           (a \in Attempt /\ (OpenScreen(a) \/ TestConnection(a))) \/ CloseScreen
    PROVE  PhoneInv'
  <1> USE DEF PhoneInv, PhoneTypes
  <1>1. /\ UNCHANGED <<store, applying, watch, dataChannelStatus, connectionStatus>>
        /\ peerState' = peerState /\ peerDisconnectTimer' = peerDisconnectTimer
    BY DEF OpenScreen, CloseScreen, TestConnection, link, sig, watch
  <1>2. StoreTypes' /\ WatchTypes' /\ OpenHasPeer'
    BY <1>1 DEF StoreTypes, WatchTypes, store, watch, Rescue, OpenHasPeer
  <1>3. socket \in 0..MaxSocket /\ strayTimers \in Nat /\ strayTimers <= strayTimers
    BY LinkAssumption DEF SigTypes, ScreenTypes
  <1>4. CASE a \in Attempt /\ OpenScreen(a)
    <2>1. /\ a \in Attempt /\ screenOpen' \in BOOLEAN /\ screenOpen'
          /\ Start(a, "screen", "connecting", FALSE, strayTimers)
          /\ "connecting" \in ScreenStatus
      BY <1>4 DEF OpenScreen, ScreenStatus
    <2>2. Attempts' /\ ScreenTypes' /\ Began(a, "screen", "connecting", FALSE)
      BY <1>3, <2>1, BeganIs
    <2>3. CASE connectionStatus' = "connected"
      <3>1. Rescue'
        BY <1>1, <2>1, <2>2, <2>3, BeginKept DEF Began
      <3> QED BY <1>2, <2>2, <3>1
    <2>4. CASE connectionStatus' # "connected"
      <3>1. screenStatus' = "failed"
        BY <2>1, <2>2, <2>4 DEF Began
      <3>2. Rescue'
        BY <1>2, <2>4, <3>1
        DEF Rescue, ConnectingIsUnderway, ConnectingNoRetry, TokenIsScreens, BrokenIsTimed,
            BrokenWhileConnecting, UnlinkedIsDriven, Watching
      <3> QED BY <1>2, <2>2, <3>2
    <2> QED BY <2>3, <2>4
  <1>5. CASE CloseScreen
    <2>1. ~screenOpen' /\ screenOpen' \in BOOLEAN /\ screenRetryTimer' = FALSE /\ attempt' = attempt
          /\ screenStatus' = screenStatus /\ strayTimers' = strayTimers
      BY <1>5 DEF CloseScreen
    <2>2. Attempts' /\ ScreenTypes'
      BY <2>1 DEF Attempts, ScreenTypes, Failures
    <2>3. Rescue'
      BY <1>2, <2>1
      DEF Rescue, ConnectingIsUnderway, ConnectingNoRetry, TokenIsScreens, BrokenIsTimed,
          BrokenWhileConnecting, UnlinkedIsDriven, Watching
    <2> QED BY <1>2, <2>2, <2>3
  <1>6. CASE a \in Attempt /\ TestConnection(a)
    <2>1. /\ a \in Attempt /\ screenOpen' = screenOpen /\ ~screenOpen /\ screenOpen' \in BOOLEAN
          /\ Start(a, "test", screenStatus, screenRetryTimer, strayTimers)
      BY <1>6 DEF TestConnection, ScreenTypes
    <2>2. screenStatus \in ScreenStatus /\ screenRetryTimer \in BOOLEAN
      BY DEF ScreenTypes
    <2>3. Attempts' /\ ScreenTypes' /\ Began(a, "test", screenStatus, screenRetryTimer)
      BY <1>3, <2>1, <2>2, BeganIs
    <2>4. screenStatus' = screenStatus /\ screenRetryTimer' = screenRetryTimer /\ ~screenOpen'
      BY <2>1, <2>3 DEF Began
    <2>5. Rescue'
      BY <1>2, <2>4
      DEF Rescue, ConnectingIsUnderway, ConnectingNoRetry, TokenIsScreens, BrokenIsTimed,
          BrokenWhileConnecting, UnlinkedIsDriven, Watching
    <2> QED BY <1>2, <2>3, <2>5
  <1> QED BY <1>4, <1>5, <1>6

\* A retry timer, held or stray, fires.
LEMMA TimerSteps ==
    ASSUME PhoneInv, SigTypes, NEW a \in Attempt, HeldTimerFires(a) \/ StrayTimerFires(a)
    PROVE  PhoneInv'
  <1> USE DEF PhoneInv, PhoneTypes
  <1>1. strayTimers \in Nat /\ socket \in 0..MaxSocket
    BY LinkAssumption DEF SigTypes, ScreenTypes
  <1>2. PICK stray \in Nat : stray <= strayTimers /\ TimerFires(a, stray, FALSE)
    <2>1. CASE HeldTimerFires(a)
      <3>1. TimerFires(a, strayTimers, FALSE)
        BY <2>1, Zenon DEF HeldTimerFires
      <3>2. strayTimers <= strayTimers
        BY <1>1
      <3> QED BY <1>1, <3>1, <3>2, Zenon
    <2>2. CASE StrayTimerFires(a)
      <3>1. PICK n : n = IF screenRetryTimer THEN strayTimers ELSE strayTimers - 1
        OBVIOUS
      <3>2. TimerFires(a, n, FALSE) /\ strayTimers > 0
        BY <2>2, <3>1, Zenon DEF StrayTimerFires
      <3>3. n \in Nat /\ n <= strayTimers
        BY <1>1, <3>1, <3>2
      <3> QED BY <3>2, <3>3, Zenon
    <2> QED BY <2>1, <2>2
  <1>3. /\ UNCHANGED <<store, applying, watch, dataChannelStatus, connectionStatus>>
        /\ peerState' = peerState /\ peerDisconnectTimer' = peerDisconnectTimer
        /\ screenOpen' = screenOpen /\ screenOpen' \in BOOLEAN
    BY <1>2 DEF TimerFires, link, sig, watch, ScreenTypes
  <1>4. StoreTypes' /\ WatchTypes' /\ OpenHasPeer'
    BY <1>3 DEF StoreTypes, WatchTypes, store, watch, Rescue, OpenHasPeer
  <1>5. CASE screenOpen /\ connectionStatus = "connected"
    <2>1. Start(a, "screen", "reconnecting", FALSE, stray) /\ "reconnecting" \in ScreenStatus
      BY <1>2, <1>5 DEF TimerFires, ScreenStatus
    <2>2. Attempts' /\ ScreenTypes' /\ Began(a, "screen", "reconnecting", FALSE)
      BY <1>1, <1>2, <1>3, <2>1, BeganIs
    <2>3. Rescue'
      BY <1>3, <1>5, <2>2, BeginKept DEF Began
    <2> QED BY <1>4, <2>2, <2>3
  <1>6. CASE ~(screenOpen /\ connectionStatus = "connected")
    <2>1. /\ screenRetryTimer' = FALSE /\ strayTimers' = stray
          /\ attempt' = attempt /\ screenStatus' = screenStatus
      BY <1>2, <1>6 DEF TimerFires
    <2>2. Attempts'
      BY <2>1 DEF Attempts
    <2>3. ScreenTypes'
      BY <1>2, <1>3, <2>1, ScreenTypesKept DEF ScreenTypes
    <2>4. ~Watching'
      BY <1>3, <1>6 DEF Watching
    <2>5. Rescue'
      BY <1>3, <1>4, <2>1, <2>4, AttemptsKept
      DEF Rescue, ConnectingIsUnderway, ConnectingNoRetry, TokenIsScreens, BrokenIsTimed,
          BrokenWhileConnecting, UnlinkedIsDriven, Broken
    <2> QED BY <1>4, <2>2, <2>3, <2>5
  <1> QED BY <1>5, <1>6

\* Signaling is up again.
LEMMA SignalingStep ==
    ASSUME PhoneInv, SigTypes, NEW a \in Attempt, SignalingConnected(a)
    PROVE  PhoneInv'
  <1> USE DEF PhoneInv, PhoneTypes
  <1>1. /\ UNCHANGED <<store, applying, watch, dataChannelStatus>>
        /\ peerState' = peerState /\ peerDisconnectTimer' = peerDisconnectTimer
        /\ connectionStatus' = "connected" /\ AwaitToken = {}
    BY DEF SignalingConnected, watch
  <1>2. StoreTypes' /\ WatchTypes' /\ OpenHasPeer'
    BY <1>1 DEF StoreTypes, WatchTypes, store, watch, Rescue, OpenHasPeer
  <1>3. socket \in 0..MaxSocket /\ strayTimers \in Nat /\ strayTimers <= strayTimers
    BY LinkAssumption DEF SigTypes, ScreenTypes
  <1>4. CASE /\ UNCHANGED <<attempt, screen>>
             /\ ~screenOpen \/ peerState = "connected" \/ screenRetryTimer
                \/ screenStatus = "connecting"
    <2>1. Attempts' /\ ScreenTypes'
      BY <1>4 DEF Attempts, ScreenTypes, screen, Failures
    <2>2. /\ ScreenWaits' <=> ScreenWaits
          /\ ScreenUnderway' <=> ScreenUnderway
          /\ AwaitToken' = {}
          /\ Broken' <=> Broken
          /\ Timed' <=> Timed
      BY <1>1, <1>4, AttemptsKept DEF Broken, Timed, screen
    <2>3. Rescue'
      BY <1>1, <1>2, <1>4, <2>2, PeerAssumption
      DEF Rescue, ConnectingIsUnderway, ConnectingNoRetry, TokenIsScreens, BrokenIsTimed,
          BrokenWhileConnecting, UnlinkedIsDriven, Watching, Broken, Timed, screen
    <2> QED BY <1>2, <2>1, <2>3
  <1>5. CASE ScheduleRecovery /\ UNCHANGED attempt
    <2>1. Attempts'
      BY <1>5 DEF Attempts
    <2>2. ScreenTypes'
      BY <1>5 DEF ScheduleRecovery, ScreenTypes, ScreenStatus, Failures
    <2>3. Rescue'
      BY <1>1, <1>5, RecoveryKept
    <2> QED BY <1>2, <2>1, <2>2, <2>3
  <1>6. CASE UNCHANGED screenOpen /\ Start(a, "screen", "reconnecting", FALSE, strayTimers)
    <2>1. screenOpen' \in BOOLEAN /\ "reconnecting" \in ScreenStatus
      BY <1>6 DEF ScreenTypes, ScreenStatus
    <2>2. Attempts' /\ ScreenTypes' /\ Began(a, "screen", "reconnecting", FALSE)
      BY <1>3, <1>6, <2>1, BeganIs
    <2>3. Rescue'
      BY <1>1, <2>2, BeginKept DEF Began
    <2> QED BY <1>2, <2>2, <2>3
  <1> QED BY <1>4, <1>5, <1>6 DEF SignalingConnected

-----------------------------------------------------------------------------
(***************************************************************************)
(* What lies between the two.                                              *)
(***************************************************************************)

PcTypes == pc \in [Attempt -> PcRec]

PhoneQueueStep ==
    \/ toPhone' = toPhone \/ toPhone' = <<>>
    \/ Arrives(toPhone, toPhone')
    \/ \E m \in Msg : Sound(m) /\ toPhone' = Append(toPhone, m)

\* The messages to the iPhone stay sound.
LEMMA PhoneQueueKept ==
    ASSUME PhoneQueue, PhoneQueueStep
    PROVE  PhoneQueue'
  <1> USE DEF PhoneQueue
  <1>1. CASE toPhone' = toPhone
    BY <1>1 DEF SoundQueue, Sound
  <1>2. CASE toPhone' = <<>>
    BY <1>2, EmptyIsSound
  <1>3. CASE Arrives(toPhone, toPhone')
    BY <1>3, Tailed DEF Arrives
  <1>4. ASSUME NEW m \in Msg, Sound(m), toPhone' = Append(toPhone, m)
        PROVE  PhoneQueue'
    BY <1>4, Appended DEF Sendable
  <1> QED BY <1>1, <1>2, <1>3, <1>4 DEF PhoneQueueStep

Wires == SigTypes /\ PcTypes /\ PhoneQueue /\ MacQueueTypes

\* What a step does to what lies between.
WiresStep == SigTypes' /\ PcTypes' /\ PhoneQueueStep /\ MacQueueStep

\* A step that only appends messages that may be sent, and only takes the oldest one, keeps the wires sound.
LEMMA WiresKept ==
    ASSUME Wires, WiresStep
    PROVE  Wires' /\ Remembered
  BY PhoneQueueKept, MacQueueKept DEF Wires, WiresStep, Remembered

\* A step that leaves the link alone is such a step.
LEMMA LinkUnchanged ==
    ASSUME Wires, UNCHANGED link
    PROVE  WiresStep /\ peer' = peer
  BY DEF Wires, WiresStep, SigTypes, PcTypes, PhoneQueueStep, MacQueueStep, link, sig, wires, peers

\* The iPhone's peer connections keep their type.
LEMMA PcChanged ==
    ASSUME PcTypes, NEW a \in Attempt
    PROVE  /\ [pc EXCEPT ![a].conn = "open"] \in [Attempt -> PcRec]
           /\ \A s \in Session : [pc EXCEPT ![a].session = s] \in [Attempt -> PcRec]
           /\ \A t \in {"open", "closed"} : [pc EXCEPT ![a].channel = t] \in [Attempt -> PcRec]
           /\ [pc[a] EXCEPT !.conn = "closed"] \in PcRec
  <1>1. pc[a] \in PcRec
    BY DEF PcTypes
  <1>2. [pc[a] EXCEPT !.conn = "open"] \in PcRec /\ [pc[a] EXCEPT !.conn = "closed"] \in PcRec
    BY <1>1 DEF PcRec
  <1>3. ASSUME NEW s \in Session PROVE [pc[a] EXCEPT !.session = s] \in PcRec
    BY <1>1 DEF PcRec
  <1>4. ASSUME NEW t \in {"open", "closed"} PROVE [pc[a] EXCEPT !.channel = t] \in PcRec
    BY <1>1 DEF PcRec
  <1>5. \A v \in PcRec : [pc EXCEPT ![a] = v] \in [Attempt -> PcRec]
    BY DEF PcTypes
  <1> QED BY <1>2, <1>3, <1>4, <1>5

\* ... where the iPhone is at work ...
PhoneActs == PhoneStep \/ PhoneFault

\* What the phone sends may be sent, and it takes only the oldest message.
LEMMA PhoneWires ==
    ASSUME Wires, PhoneTypes, PhoneActs
    PROVE  WiresStep /\ peer' = peer
  <1> USE DEF Wires
  <1>1. CASE UNCHANGED link
    BY <1>1, LinkUnchanged
  <1>2. ASSUME NEW a \in Attempt, AskForSession(a)
        PROVE  WiresStep /\ peer' = peer
    BY <1>2 DEF AskForSession, WiresStep, SigTypes, PcTypes, PhoneQueueStep, MacQueueStep, sig, peers
  <1>3. ASSUME NEW a \in Attempt, SendOffer(a)
        PROVE  WiresStep /\ peer' = peer
    <2>1. SigTypes' /\ PcTypes' /\ peer' = peer /\ created' = created
      BY <1>3 DEF SendOffer, SigTypes, PcTypes, sig, peers
    <2>2. \/ toMac' = toMac /\ toPhone' = toPhone
          \/ toMac' = toMac /\ SendToPhone(ErrorMsg)
          \/ /\ sessionId # None /\ SendToMac(OfferMsg(sessionId, a)) /\ toPhone' = toPhone
      BY <1>3 DEF SendOffer
    <2>3. PhoneQueueStep
      BY <2>2, Messages DEF SendToPhone, PhoneQueueStep, Sendable
    <2>4. MacQueueStep
      <3>1. sessionId # None => sessionId \in Session
        BY DEF PhoneTypes, StoreTypes
      <3> QED BY <2>1, <2>2, <3>1 DEF SendToMac, MacQueueStep
    <2> QED BY <2>1, <2>3, <2>4 DEF WiresStep
  <1>4. CASE TearDown
    <2>1. PcTypes'
      <3>1. ASSUME NEW x \in Attempt
            PROVE  /\ pc'[x] \in PcRec
        <4>1. [pc[x] EXCEPT !.conn = "closed"] \in PcRec /\ pc[x] \in PcRec
          BY PcChanged DEF PcTypes
        <4> QED BY <1>4, <4>1 DEF TearDown
      <3>2. pc' = [x \in Attempt |-> pc'[x]]
        BY <1>4 DEF TearDown
      <3> QED BY <3>1, <3>2 DEF PcTypes
    <2> QED BY <1>4, <2>1
        DEF TearDown, WiresStep, SigTypes, PhoneQueueStep, MacQueueStep, sig, wires
  <1>5. CASE RecvStart
    <2>1. PcTypes'
      BY <1>5, PcChanged, WaitingAre DEF RecvStart, PcTypes
    <2> QED BY <1>5, <2>1
        DEF RecvStart, WiresStep, SigTypes, PhoneQueueStep, MacQueueStep, Arrives, sig
  <1>6. CASE RecvAnswer \/ RecvError
    BY <1>6 DEF RecvAnswer, RecvError, WiresStep, SigTypes, PcTypes, PhoneQueueStep, MacQueueStep,
                Arrives, sig, peers
  <1>7. ASSUME NEW r \in applying, ApplyAnswer(r)
        PROVE  WiresStep /\ peer' = peer
    <2>1. r.client \in Attempt /\ r.session \in Session
      BY DEF PhoneTypes, StoreTypes
    <2>2. PcTypes'
      BY <1>7, <2>1, PcChanged DEF ApplyAnswer, PcTypes
    <2> QED BY <1>7, <2>2
        DEF ApplyAnswer, WiresStep, SigTypes, PhoneQueueStep, MacQueueStep, sig, wires
  <1>8. ASSUME NEW a \in Attempt, ChannelOpens(a) \/ ChannelCloses(a)
        PROVE  WiresStep /\ peer' = peer
    <2>1. PcTypes'
      BY <1>8, PcChanged DEF ChannelOpens, ChannelCloses, PcTypes
    <2> QED BY <1>8, <2>1
        DEF ChannelOpens, ChannelCloses, WiresStep, SigTypes, PhoneQueueStep, MacQueueStep, sig, wires
  <1>9. ASSUME NEW a \in Attempt, SignalingConnected(a)
        PROVE  WiresStep /\ peer' = peer
    BY <1>9 DEF SignalingConnected, WiresStep, SigTypes, PcTypes, PhoneQueueStep, MacQueueStep,
                wires, peers
  <1>10. \/ UNCHANGED link \/ TearDown \/ RecvStart \/ RecvAnswer \/ RecvError
         \/ \E a \in Attempt : \/ AskForSession(a) \/ SendOffer(a) \/ ChannelOpens(a)
                               \/ ChannelCloses(a) \/ SignalingConnected(a)
         \/ \E r \in applying : ApplyAnswer(r)
    BY DEF PhoneActs, PhoneStep, PhoneFault, OpenScreen, TestConnection, HeldTimerFires,
           StrayTimerFires, TimerFires, OfferThrows, PeerConnected, CloseScreen, GraceEnds,
           NoIceServers, TimesOut, PeerFailed, NoToken, PeerDisconnected
  <1> QED BY <1>1, <1>2, <1>3, <1>4, <1>5, <1>6, <1>7, <1>8, <1>9, <1>10

\* ... and where the Mac is.
MacActs == MacStep \/ MacFault

\* What the Mac sends may be sent, and it takes only the oldest message.
LEMMA MacWires ==
    ASSUME Wires, MacTypeOK, MacActs
    PROVE  WiresStep /\ connectionStatus' = connectionStatus
  <1> USE DEF Wires
  <1>1. CASE UNCHANGED link
    BY <1>1, LinkUnchanged DEF link, sig
  <1>2. CASE UNCHANGED <<sig, wires, pc>>
    BY <1>2 DEF WiresStep, SigTypes, PcTypes, PhoneQueueStep, MacQueueStep, sig, wires
  <1>3. CASE MacStart \/ RecvOffer
    BY <1>3 DEF MacStart, RecvOffer, Delivered, WiresStep, SigTypes, PcTypes, PhoneQueueStep,
                MacQueueStep, Arrives, sig, peers
  <1>4. ASSUME NEW o \in accepting, Accepted(o)
        PROVE  WiresStep /\ connectionStatus' = connectionStatus
    <2>1. o.session \in Session /\ o.offer \in Attempt
      BY DEF MacTypeOK, Offer
    <2>2. Sendable(AnswerMsg(o.session, o.offer))
      BY <2>1, Messages
    <2>3. /\ UNCHANGED <<sig, asked, created, toMac, pc>>
          /\ SendToPhone(AnswerMsg(o.session, o.offer)) \/ toPhone' = toPhone
      BY <1>4 DEF Accepted
    <2> HIDE DEF Wires
    <2>4. PhoneQueueStep
      BY <2>2, <2>3 DEF SendToPhone, PhoneQueueStep, Sendable
    <2> QED BY <2>3, <2>4 DEF Wires, WiresStep, SigTypes, PcTypes, MacQueueStep, sig
  <1>5. CASE MacDisconnects
    BY <1>5 DEF MacDisconnects, WiresStep, SigTypes, PcTypes, PhoneQueueStep, MacQueueStep
  <1>6. \/ UNCHANGED link \/ UNCHANGED <<sig, wires, pc>>
        \/ MacStart \/ RecvOffer \/ MacDisconnects
        \/ \E o \in accepting : Accepted(o)
    BY DEF MacActs, MacStep, MacFault, FetchOk, FetchFails, AcceptThrows, Deadline, PeerReports,
           MacChannelOpens, CaptureStarted, CaptureLost, CaptureFails, CaptureDies, StopRuns
  <1> QED BY <1>1, <1>2, <1>3, <1>4, <1>5, <1>6

LinkActs == LinkStep \/ LinkFault

\* The backend and the network move messages on, tell the Mac of sessions in order, or lose all of them.
LEMMA LinkWires ==
    ASSUME Wires, LinkActs
    PROVE  /\ WiresStep /\ peer' = peer
           /\ connectionStatus' = connectionStatus \/ connectionStatus' # "connected"
  <1> USE DEF Wires
  <1>1. ASSUME NEW a \in Attempt, NEW asker, CreateSession(a, asker)
        PROVE  WiresStep /\ peer' = peer /\ connectionStatus' = connectionStatus
    <2>1. created + 1 \in Session /\ created < MaxSession
      BY <1>1, LinkAssumption DEF CreateSession, MacQueueTypes, Session
    <2>2. Sendable(StartMsg(created + 1))
      BY <2>1, Messages
    <2>3. /\ UNCHANGED <<sig, pc, peer>> /\ asked' \subseteq asked /\ created' = created + 1
          /\ toPhone' \in {toPhone, Append(toPhone, StartMsg(created + 1))}
          /\ toMac' \in {toMac, Append(toMac, StartMsg(created + 1))}
      BY <1>1 DEF CreateSession, SendToMac, peers
    <2> HIDE DEF Wires
    <2>4. PhoneQueueStep
      BY <2>2, <2>3 DEF PhoneQueueStep, Sendable
    <2>5. MacQueueStep
      BY <2>1, <2>3 DEF MacQueueStep
    <2> QED BY <2>3, <2>4, <2>5 DEF Wires, WiresStep, SigTypes, PcTypes, sig
  <1>2. ASSUME NEW a \in Attempt, NEW asker, RefuseSession(a, asker)
        PROVE  WiresStep /\ peer' = peer /\ connectionStatus' = connectionStatus
    <2>1. /\ UNCHANGED <<sig, pc, peer, created, toMac>> /\ asked' \subseteq asked
          /\ toPhone' \in {toPhone, Append(toPhone, ErrorMsg)}
      BY <1>2 DEF RefuseSession, peers
    <2>2. PhoneQueueStep
      BY <2>1, Messages DEF PhoneQueueStep, Sendable
    <2> QED BY <2>1, <2>2 DEF WiresStep, SigTypes, PcTypes, MacQueueStep, sig
  <1>3. CASE PhoneLost
    BY <1>3 DEF PhoneLost, WiresStep, SigTypes, PcTypes, PhoneQueueStep, MacQueueStep, peers
  <1>4. CASE PhoneReopens
    BY <1>4, LinkAssumption
    DEF PhoneReopens, WiresStep, SigTypes, PcTypes, PhoneQueueStep, MacQueueStep, wires, peers
  <1>5. CASE MacLost \/ MacReconnects
    BY <1>5 DEF MacLost, MacReconnects, WiresStep, SigTypes, PcTypes, PhoneQueueStep,
                MacQueueStep, wires, peers
  <1> QED BY <1>1, <1>2, <1>3, <1>4, <1>5 DEF LinkActs, LinkStep, LinkFault

-----------------------------------------------------------------------------
(***************************************************************************)
(* Both ends.                                                              *)
(***************************************************************************)

IInv == Wires /\ MacInv /\ PhoneInv /\ faults \in 0..MaxFault

\* The Mac when somebody else is at work, and the iPhone.
LEMMA MacWaits ==
    ASSUME MacInv, Remembered, UNCHANGED mac, peer' = peer
    PROVE  MacInv'
  <1>1. SamePeers
    BY DEF SamePeers, MacInv
  <1>2. MacTypeOK' /\ OfferNotStranded'
    BY DEF MacInv, MacTypeOK, OfferNotStranded, mac, session, macTasks, share
  <1>3. UNCHANGED <<activeWebRTCSessionId, macClient, share>>
    BY DEF mac, session, share
  <1> QED BY <1>1, <1>2, <1>3, MacUntouched DEF SamePeers

\* A step that leaves the phone alone and does not connect its socket keeps the phone's invariant.
LEMMA PhoneWaits ==
    ASSUME PhoneInv, UNCHANGED phone,
           connectionStatus' = connectionStatus \/ connectionStatus' # "connected"
    PROVE  PhoneInv'
  <1>1. StoreTypes'
    BY DEF PhoneInv, PhoneTypes, StoreTypes, phone, store
  <1> QED BY <1>1, QuietStep DEF phone

\* Every step of the Mac.
LEMMA MacInvStep ==
    ASSUME MacInv, MacQueueTypes, Remembered, MacActs
    PROVE  MacInv'
  <1>1. \/ MacStart \/ RecvOffer \/ MacDisconnects
        \/ \E s \in Session :
              \/ FetchOk(s) \/ FetchFails(s) \/ Deadline(s)
              \/ \E state \in {"connecting", "connected", "disconnected", "failed"} :
                    PeerReports(s, state)
              \/ \E permitted \in BOOLEAN : MacChannelOpens(s, permitted)
              \/ \E added \in BOOLEAN : CaptureStarted(s, added) \/ CaptureLost(s, added)
              \/ CaptureFails(s) \/ CaptureDies(s) \/ StopRuns(s)
        \/ \E o \in accepting : Accepted(o) \/ AcceptThrows(o)
    BY DEF MacActs, MacStep, MacFault
  <1> QED BY <1>1, MacStartStep, OfferStep, DisconnectStep, FetchStep, DeadlineStep, ReportsStep,
             ChannelStep, CaptureStep, AcceptStep

\* Every step of the iPhone.
LEMMA PhoneInvStep ==
    ASSUME PhoneInv, SigTypes, PhoneQueue, PhoneActs
    PROVE  PhoneInv'
  <1>1. \/ NoToken \/ TearDown \/ CloseScreen
        \/ RecvStart \/ RecvAnswer \/ RecvError
        \/ \E r \in applying : ApplyAnswer(r)
        \/ PeerDisconnected \/ GraceEnds
        \/ \E a \in Attempt :
              \/ AskForSession(a) \/ SendOffer(a)
              \/ NoIceServers(a) \/ OfferThrows(a) \/ TimesOut(a)
              \/ PeerConnected(a) \/ PeerFailed(a)
              \/ ChannelOpens(a) \/ ChannelCloses(a)
              \/ OpenScreen(a) \/ TestConnection(a)
              \/ HeldTimerFires(a) \/ StrayTimerFires(a)
              \/ SignalingConnected(a)
    BY DEF PhoneActs, PhoneStep, PhoneFault
  <1>2. ASSUME NEW a \in Attempt,
               \/ AskForSession(a) \/ SendOffer(a)
               \/ NoIceServers(a) \/ OfferThrows(a) \/ TimesOut(a)
               \/ PeerConnected(a) \/ PeerFailed(a)
               \/ ChannelOpens(a) \/ ChannelCloses(a)
               \/ OpenScreen(a) \/ TestConnection(a)
               \/ HeldTimerFires(a) \/ StrayTimerFires(a)
               \/ SignalingConnected(a)
        PROVE  PhoneInv'
    BY <1>2, UserSteps, PeerSteps, AttemptSteps, DataChannelSteps, TimerSteps, SignalingStep
  <1>3. CASE CloseScreen
    BY <1>3, UserSteps
  <1>4. CASE PeerDisconnected \/ GraceEnds
    BY <1>4, PeerSteps
  <1> QED BY <1>1, <1>2, <1>3, <1>4, NoTokenStep, TearDownStep, ReceiveSteps, AnswerStep

\* It holds at first.
LEMMA InitIInv == Init => IInv
  <1> SUFFICES ASSUME Init PROVE IInv
    OBVIOUS
  <1> USE DEF Init
  <1>1. Wires
    <2>1. SigTypes
      BY LinkAssumption DEF LinkInit, SigTypes
    <2>2. PcTypes
      BY DEF LinkInit, PcTypes, PcRec
    <2>3. PhoneQueue /\ toMac \in Seq(Msg) /\ SoundQueue(toMac)
      BY EmptyIsSound DEF LinkInit, PhoneQueue
    <2>4. created \in 0..MaxSession /\ Numbered(toMac, created)
      BY LinkAssumption DEF LinkInit, Numbered
    <2> QED BY <2>1, <2>2, <2>3, <2>4 DEF Wires, MacQueueTypes
  <1>2. MacInv
    <2>1. MacTypeOK
      BY DEF MacInit, MacTypeOK
    <2>2. peer \in [Session -> PeerRec] /\ \A s \in Session : peer[s].conn = "none"
      BY DEF LinkInit, PeerRec
    <2>3. UsedIsOld /\ StartingIsHeld /\ NotToStop
      BY NoneIsNothing DEF MacInit, UsedIsOld, StartingIsHeld, NotToStop
    <2> QED BY <2>1, <2>2, <2>3
        DEF MacInv, MacInit, ClientIsActive, CaptureIsShared, ShareRuns, OneMacPeer, OfferNotStranded
  <1>3. PhoneInv
    <2>1. /\ attempt \in [Attempt -> AttemptRec]
          /\ \A a \in Attempt : attempt[a].at = "none"
      BY LinkAssumption DEF PhoneInit, AttemptRec
    <2>2. StoreTypes /\ WatchTypes
      BY DEF PhoneInit, StoreTypes, WatchTypes
    <2>3. ScreenTypes
      <3>1. Failures \in SUBSET Attempt
        BY DEF Failures
      <3>2. Cardinality(Failures) \in Nat
        BY <3>1, Finite
      <3>3. /\ screenOpen = FALSE /\ screenRetryTimer = FALSE
            /\ screenStatus = "idle" /\ strayTimers = 0
        BY DEF PhoneInit
      <3>4. 0 \in 0..MaxAttempt /\ 0 <= Cardinality(Failures)
        BY <3>2, LinkAssumption
      <3> HIDE DEF Init
      <3> QED BY <3>3, <3>4 DEF ScreenTypes, ScreenStatus
    <2>4. Rescue
      <3>1. AwaitToken = {}
        BY <2>1 DEF AwaitToken
      <3>2. ~screenOpen /\ screenStatus = "idle" /\ dataChannelStatus = "idle"
        BY DEF PhoneInit
      <3> QED BY <3>1, <3>2
          DEF Rescue, ConnectingIsUnderway, ConnectingNoRetry, TokenIsScreens, BrokenIsTimed,
              BrokenWhileConnecting, UnlinkedIsDriven, OpenHasPeer, Watching
    <2> QED BY <2>1, <2>2, <2>3, <2>4 DEF PhoneInv, PhoneTypes, Attempts
  <1>4. faults \in 0..MaxFault
    BY FaultAssumption
  <1> QED BY <1>1, <1>2, <1>3, <1>4 DEF IInv

\* Every step keeps it.
LEMMA StepIInv == IInv /\ [Next]_vars => IInv'
  <1> SUFFICES ASSUME IInv, [Next]_vars PROVE IInv'
    OBVIOUS
  <1> USE DEF IInv
  <1>1. faults' \in 0..MaxFault
    BY FaultAssumption DEF Next, Works, Fails, vars
  <1>2. CASE PhoneActs /\ UNCHANGED mac
    <2>1. WiresStep /\ peer' = peer
      BY <1>2, PhoneWires DEF PhoneInv
    <2>2. Wires' /\ Remembered
      BY <2>1, WiresKept
    <2>3. MacInv'
      BY <1>2, <2>1, <2>2, MacWaits
    <2>4. PhoneInv'
      BY <1>2, PhoneInvStep DEF Wires
    <2> QED BY <1>1, <2>2, <2>3, <2>4
  <1>3. CASE MacActs /\ UNCHANGED phone
    <2>1. WiresStep /\ connectionStatus' = connectionStatus
      BY <1>3, MacWires DEF MacInv
    <2>2. Wires' /\ Remembered
      BY <2>1, WiresKept
    <2>3. MacInv'
      BY <1>3, <2>2, MacInvStep DEF Wires
    <2>4. PhoneInv'
      BY <1>3, <2>1, PhoneWaits
    <2> QED BY <1>1, <2>2, <2>3, <2>4
  <1>4. CASE LinkActs /\ UNCHANGED <<phone, mac>>
    <2>1. /\ WiresStep /\ peer' = peer
          /\ connectionStatus' = connectionStatus \/ connectionStatus' # "connected"
      BY <1>4, LinkWires
    <2>2. Wires' /\ Remembered
      BY <2>1, WiresKept
    <2>3. MacInv'
      BY <1>4, <2>1, <2>2, MacWaits
    <2>4. PhoneInv'
      BY <1>4, <2>1, PhoneWaits
    <2> QED BY <1>1, <2>2, <2>3, <2>4
  <1>5. CASE UNCHANGED vars
    <2>1. UNCHANGED link /\ UNCHANGED phone /\ UNCHANGED mac
      BY <1>5 DEF vars
    <2>2. WiresStep /\ peer' = peer /\ connectionStatus' = connectionStatus
      BY <2>1, LinkUnchanged DEF link, sig
    <2>3. Wires' /\ Remembered
      BY <2>2, WiresKept
    <2>4. MacInv' /\ PhoneInv'
      BY <2>1, <2>2, <2>3, MacWaits, PhoneWaits
    <2> QED BY <1>1, <2>3, <2>4
  <1> QED BY <1>2, <1>3, <1>4, <1>5
      DEF Next, Works, Fails, PhoneActs, MacActs, LinkActs

\* Whatever either end does, and whatever goes wrong between them, the
\* invariant holds.
THEOREM Invariance == Spec => []IInv
  BY InitIInv, StepIInv, PTL DEF Spec

\* Every variable of both ends has its type; in particular an offer never goes
\* out without its session, and there are never more stray retry timers than
\* attempts that failed.
THEOREM TypeCorrect == Spec => []TypeOK
  <1>1. IInv => LinkTypeOK
    BY DEF IInv, Wires, SigTypes, PcTypes, PhoneQueue, MacQueueTypes, MacInv, LinkTypeOK
  <1>2. IInv => TypeOK
    BY <1>1, PhoneShows DEF IInv, PhoneInv, MacInv, TypeOK
  <1> QED BY <1>2, Invariance, PTL

\* Screen Mode is never abandoned.
THEOREM AlwaysDriven == Spec => []Driven
  <1>1. IInv => Driven
    BY PhoneShows DEF IInv, PhoneInv
  <1> QED BY <1>1, Invariance, PTL

\* The Mac never has two peer connections, nor one of a session that is gone.
THEOREM OnePeerOfTheMac == Spec => []OneMacPeer
  <1>1. IInv => OneMacPeer
    BY MacInvShows DEF IInv
  <1> QED BY <1>1, Invariance, PTL

\* No early offer is forgotten beside the client that should answer it.
THEOREM OffersAreAnswered == Spec => []OfferNotStranded
  <1>1. IInv => OfferNotStranded
    BY MacInvShows DEF IInv
  <1> QED BY <1>1, Invariance, PTL

\* The Mac says it shares its screen only while it does, for its session, unless the
\* system stopped the capture while start() was returning.
THEOREM SharesAsShown == Spec => []ShareHonest
  <1>1. IInv => ShareHonest
    BY MacInvShows DEF IInv
  <1> QED BY <1>1, Invariance, PTL
=============================================================================
