--------------------------- MODULE PresenceProofs ---------------------------
(***************************************************************************)
(* Proofs about Presence, for any devices and any number of sockets: a     *)
(* device is reached on the socket it has open, and no device is left      *)
(* shown online when it is gone.                                           *)
(***************************************************************************)
EXTENDS Presence, SequenceTheorems, TLAPS

-----------------------------------------------------------------------------
(***************************************************************************)
(* The inductive invariant.                                                *)
(***************************************************************************)
Types ==
    /\ sock     \in [Socket -> {"unused", "open", "closing", "closed"}]
    /\ registry \in [Device -> Socket \cup {None}]
    /\ due      \in Seq(Announcement)
    /\ cur      \in [Socket -> SUBSET Device]
    /\ \A s \in Socket : cur[s] \subseteq Partner[DeviceOf[s]]
    /\ heard    \in [Socket -> [Device -> {"unknown", "online", "offline"}]]
    /\ calm     \in BOOLEAN

\* A device is registered with a socket of its own.
OwnSocket == \A d \in Device : registry[d] # None => DeviceOf[registry[d]] = d

GoneAfter(i, d) == \E j \in 1 .. Len(due) : j > i /\ due[j].dev = d /\ due[j].online = FALSE

\* While announcements are sent in turn, one that says a device is online is
\* followed by one that says it is not, if it has left.
LastWordIsGone ==
    \A d \in Device : registry[d] = None =>
        \A i \in 1 .. Len(due) : due[i].dev = d /\ due[i].online = TRUE => GoneAfter(i, d)

\* What an open socket shows of a partner that is gone, or what will correct it.
ToldGone ==
    \A s \in Socket, e \in Device :
        sock[s] = "open" /\ e \in Partner[DeviceOf[s]] /\ registry[e] = None =>
            \/ heard[s][e] = "offline"
            \/ e \in cur[s]
            \/ GoneAfter(0, e)

Corrected == calm = TRUE => LastWordIsGone /\ ToldGone

IInv == Types /\ OwnSocket /\ RegistryCurrent /\ Corrected

-----------------------------------------------------------------------------
(***************************************************************************)
(* The queue of announcements.                                             *)
(***************************************************************************)
Grows(a) ==
    /\ due' \in Seq(Announcement) /\ Len(due') = Len(due) + 1
    /\ \A j \in 1 .. Len(due) : due'[j] = due[j]
    /\ due'[Len(due) + 1] = a

Shrinks(i) ==
    /\ due' \in Seq(Announcement) /\ Len(due') = Len(due) - 1
    /\ \A j \in 1 .. Len(due) - 1 : due'[j] = IF j < i THEN due[j] ELSE due[j + 1]

\* RemoveAt closes the gap it makes, and keeps the order.
LEMMA RemoveAtProperties ==
    ASSUME NEW S, NEW q \in Seq(S), NEW i \in 1 .. Len(q)
    PROVE  /\ RemoveAt(q, i) \in Seq(S)
           /\ Len(RemoveAt(q, i)) = Len(q) - 1
           /\ \A j \in 1 .. Len(q) - 1 : RemoveAt(q, i)[j] = IF j < i THEN q[j] ELSE q[j + 1]
<1> DEFINE p == SubSeq(q, 1, i - 1)
           r == SubSeq(q, i + 1, Len(q))
<1>0. Len(q) \in Nat /\ i \in Nat
  OBVIOUS
<1>1. /\ p \in Seq(S) /\ Len(p) = i - 1
      /\ \A j \in 1 .. i - 1 : p[j] = q[j]
  BY <1>0
<1>2. /\ r \in Seq(S) /\ Len(r) = Len(q) - i
      /\ \A j \in 1 .. Len(q) - i : r[j] = q[i + j]
  BY <1>0
<1> HIDE DEF p, r
<1>3. /\ p \o r \in Seq(S) /\ Len(p \o r) = Len(q) - 1
      /\ \A j \in 1 .. i - 1 : (p \o r)[j] = p[j]
      /\ \A j \in i .. Len(q) - 1 : (p \o r)[j] = r[j - (i - 1)]
  <2>1. /\ p \o r \in Seq(S)
        /\ Len(p \o r) = Len(p) + Len(r)
        /\ \A j \in 1 .. Len(p) + Len(r) : (p \o r)[j] = IF j <= Len(p) THEN p[j] ELSE r[j - Len(p)]
    BY <1>1, <1>2, ConcatProperties, Zenon
  <2>2. Len(p) + Len(r) = Len(q) - 1
    BY <1>0, <1>1, <1>2
  <2>3. ASSUME NEW j \in 1 .. i - 1
        PROVE  (p \o r)[j] = p[j]
    BY <1>0, <1>1, <2>1, <2>2, <2>3
  <2>4. ASSUME NEW j \in i .. Len(q) - 1
        PROVE  (p \o r)[j] = r[j - (i - 1)]
    BY <1>0, <1>1, <2>1, <2>2, <2>4
  <2>5. QED
    BY <2>1, <2>2, <2>3, <2>4
<1>4. ASSUME NEW j \in 1 .. Len(q) - 1
      PROVE  (p \o r)[j] = IF j < i THEN q[j] ELSE q[j + 1]
  <2>1. CASE j < i
    BY <1>0, <1>1, <1>3, <2>1
  <2>2. CASE ~ (j < i)
    <3>1. j - (i - 1) \in 1 .. Len(q) - i /\ i + (j - (i - 1)) = j + 1 /\ j \in i .. Len(q) - 1
      BY <1>0, <2>2
    <3>2. QED
      BY <1>2, <1>3, <2>2, <3>1
  <2>3. QED
    BY <2>1, <2>2
<1>5. RemoveAt(q, i) = p \o r
  BY DEF RemoveAt, p, r
<1>6. QED
  BY <1>3, <1>4, <1>5

\* Taking an announcement out of the list leaves all the others, in their order.
LEMMA DueShrinks ==
    ASSUME Types, NEW i \in DOMAIN due, due' = RemoveAt(due, i)
    PROVE  i \in 1 .. Len(due) /\ Shrinks(i)
<1>1. due \in Seq(Announcement) /\ i \in 1 .. Len(due)
  BY DEF Types
<1>2. QED
  BY <1>1, RemoveAtProperties DEF Shrinks

\* Adding an announcement to the list leaves those before it where they were.
LEMMA DueGrows ==
    ASSUME Types, NEW a \in Announcement, due' = Append(due, a)
    PROVE  Grows(a)
  BY AppendProperties DEF Types, Grows

\* What was to be corrected still will be when an announcement joins the queue.
LEMMA GrowsKeepsGone ==
    ASSUME Types, NEW a, Grows(a), NEW i \in Nat, NEW d, GoneAfter(i, d)
    PROVE  GoneAfter(i, d)'
<1>1. PICK j \in 1 .. Len(due) : j > i /\ due[j].dev = d /\ due[j].online = FALSE
  BY DEF GoneAfter
<1>2. j \in 1 .. Len(due') /\ due'[j] = due[j]
  BY <1>1 DEF Grows, Types
<1>3. QED
  BY <1>1, <1>2 DEF GoneAfter

\* The same when one leaves it in turn that is of another device, or not the
\* one that corrects.
LEMMA ShrinksKeepsGone ==
    ASSUME Types, NEW i \in 1 .. Len(due), Shrinks(i), NEW d,
           NEW n \in Nat, NEW j \in 1 .. Len(due), j # i, due[j].dev = d, due[j].online = FALSE,
           IF j < i THEN j > n ELSE j - 1 > n
    PROVE  GoneAfter(n, d)'
<1>0. Len(due) \in Nat /\ due \in Seq(Announcement) /\ Len(due') = Len(due) - 1
  BY DEF Types, Shrinks
<1>1. CASE j < i
  <2>1. j \in 1 .. Len(due) - 1
    BY <1>0, <1>1
  <2>2. due'[j] = due[j]
    BY <1>1, <2>1 DEF Shrinks
  <2>3. j \in 1 .. Len(due') /\ j > n
    BY <1>0, <1>1, <2>1
  <2>4. QED
    BY <2>2, <2>3 DEF GoneAfter
<1>2. CASE ~ (j < i)
  <2>1. j - 1 \in 1 .. Len(due) - 1 /\ ~ (j - 1 < i) /\ (j - 1) + 1 = j
    BY <1>0, <1>2
  <2>2. due'[j - 1] = due[j]
    BY <2>1 DEF Shrinks
  <2>3. j - 1 \in 1 .. Len(due') /\ j - 1 > n
    BY <1>0, <1>2, <2>1
  <2>4. QED
    BY <2>2, <2>3 DEF GoneAfter
<1>3. QED
  BY <1>1, <1>2

-----------------------------------------------------------------------------
\* What is said of a device reaches the open sockets of the devices it is meant
\* for, and changes nothing they show of others.
Says(D, e, state) ==
    heard' = [s \in Socket |-> IF \E d \in Reachable(D) : registry[d] = s
                               THEN [heard[s] EXCEPT ![e] = state] ELSE heard[s]]

Shown(D, e, state) ==
    /\ heard' \in [Socket -> [Device -> {"unknown", "online", "offline"}]]
    /\ \A s \in Socket, d \in Device : d # e => heard'[s][d] = heard[s][d]
    /\ \A s \in Socket : heard'[s] # heard[s] => heard'[s][e] = state
    /\ \A s \in Socket : sock[s] = "open" /\ DeviceOf[s] \in D => heard'[s][e] = state

\* What a message of device.status changes of what is shown: the devices it is sent to, and no other.
LEMMA SaysMoves ==
    ASSUME Types, OwnSocket, RegistryCurrent,
           NEW D, NEW e \in Device, NEW state \in {"online", "offline"},
           D \in SUBSET Device, Says(D, e, state)
    PROVE  Shown(D, e, state)
<1> DEFINE Reached(s) == \E d \in Reachable(D) : registry[d] = s
<1>0. heard \in [Socket -> [Device -> {"unknown", "online", "offline"}]]
  BY DEF Types
<1>1. heard' = [s \in Socket |-> IF Reached(s) THEN [heard[s] EXCEPT ![e] = state] ELSE heard[s]]
  BY DEF Says
<1>2. ASSUME NEW s \in Socket, sock[s] = "open", DeviceOf[s] \in D
      PROVE  Reached(s)
  BY <1>2, SocketAssumption, NoneAssumption DEF Reachable, RegistryCurrent
<1> HIDE DEF Reached
<1>3. /\ heard' \in [Socket -> [Device -> {"unknown", "online", "offline"}]]
      /\ \A s \in Socket : Reached(s) => heard'[s] = [heard[s] EXCEPT ![e] = state]
      /\ \A s \in Socket : ~ Reached(s) => heard'[s] = heard[s]
  BY <1>0, <1>1
<1>4. \A s \in Socket : Reached(s) => heard'[s][e] = state /\ \A d \in Device : d # e => heard'[s][d] = heard[s][d]
  BY <1>0, <1>3
<1>5. QED
  BY <1>2, <1>3, <1>4 DEF Shown

-----------------------------------------------------------------------------
\* Before any socket connects nobody is registered, nothing is due and nothing is shown.
LEMMA InitIInv == Init => IInv
<1> SUFFICES ASSUME Init
             PROVE  IInv
  OBVIOUS
<1>1. Types
  BY PartnerAssumption, SocketAssumption DEF Init, Types, Nothing
<1>2. OwnSocket /\ RegistryCurrent
  BY SocketAssumption, NoneAssumption DEF Init, OwnSocket, RegistryCurrent
<1>3. Corrected
  BY DEF Init, Corrected, LastWordIsGone, ToldGone
<1>4. QED
  BY <1>1, <1>2, <1>3 DEF IInv

\* A device that connects takes over the registry and is due as online.
LEMMA ConnectStep ==
    ASSUME IInv, NEW s \in Socket, Connect(s)
    PROVE  IInv'
<1> DEFINE dev == DeviceOf[s]
           a   == [dev |-> dev, online |-> TRUE]
<1>0. Types /\ OwnSocket /\ RegistryCurrent /\ dev \in Device /\ s # None
  BY SocketAssumption, NoneAssumption DEF IInv
<1>1. /\ sock'[s] = "open" /\ sock[s] = "unused"
      /\ \A x \in Socket \ {s} : sock'[x] = IF x \in Prior(s) THEN "closing" ELSE sock[x]
      /\ sock' \in [Socket -> {"unused", "open", "closing", "closed"}]
  BY <1>0 DEF Connect, Types
<1>2. /\ registry' \in [Device -> Socket \cup {None}]
      /\ registry'[dev] = s
      /\ \A d \in Device \ {dev} : registry'[d] = registry[d]
  BY <1>0 DEF Connect, Types
<1>3. Grows(a)
  BY <1>0, DueGrows DEF Connect, Announcement
<1>4. /\ cur' \in [Socket -> SUBSET Device]
      /\ cur'[s] = Partner[dev] /\ \A x \in Socket \ {s} : cur'[x] = cur[x]
  BY <1>0, PartnerAssumption DEF Connect, ToReport, Types
<1>5. /\ heard' \in [Socket -> [Device -> {"unknown", "online", "offline"}]]
      /\ \A x \in Socket : x \notin Prior(s) => heard'[x] = heard[x]
      /\ calm' = calm
  BY <1>0 DEF Connect, Types, Nothing
<1>6. Types'
  BY <1>0, <1>1, <1>2, <1>3, <1>4, <1>5 DEF Types, Grows
<1>7. OwnSocket'
  BY <1>0, <1>2 DEF OwnSocket
<1>8. RegistryCurrent'
  <2>1. ASSUME NEW x \in Socket, x # s
        PROVE  /\ sock'[x] = "open" => registry'[DeviceOf[x]] = x
               /\ registry'[DeviceOf[x]] = x => sock'[x] \in {"open", "closing"}
    <3>1. CASE DeviceOf[x] = dev
      BY <1>0, <1>1, <1>2, <2>1, <3>1 DEF RegistryCurrent, Prior
    <3>2. CASE DeviceOf[x] # dev
      <4>1. x \notin Prior(s)
        BY <1>0, <3>2, NoneAssumption DEF Prior, OwnSocket
      <4>2. QED
        BY <1>0, <1>1, <1>2, <2>1, <3>2, <4>1, SocketAssumption DEF RegistryCurrent
    <3>3. QED
      BY <3>1, <3>2
  <2>2. QED
    BY <1>1, <1>2, <2>1 DEF RegistryCurrent
<1>9. ASSUME calm = TRUE
      PROVE  LastWordIsGone' /\ ToldGone'
  <2>0. LastWordIsGone /\ ToldGone
    BY <1>9 DEF IInv, Corrected
  <2>1. ASSUME NEW d \in Device, registry'[d] = None
        PROVE  d # dev /\ registry[d] = None
    BY <1>0, <1>2, <2>1
  <2>2. ASSUME NEW d \in Device, registry'[d] = None,
               NEW i \in 1 .. Len(due'), due'[i].dev = d, due'[i].online = TRUE
        PROVE  GoneAfter(i, d)'
    <3>1. i \in 1 .. Len(due) /\ due'[i] = due[i]
      <4>1. i # Len(due) + 1
        BY <1>3, <2>1, <2>2 DEF Grows
      <4>2. QED
        BY <1>0, <1>3, <4>1 DEF Grows, Types
    <3>2. GoneAfter(i, d)
      BY <2>0, <2>1, <2>2, <3>1 DEF LastWordIsGone
    <3>3. QED
      BY <1>0, <1>3, <3>1, <3>2, GrowsKeepsGone
  <2>3. ASSUME NEW x \in Socket, NEW e \in Device,
               sock'[x] = "open", e \in Partner[DeviceOf[x]], registry'[e] = None
        PROVE  heard'[x][e] = "offline" \/ e \in cur'[x] \/ GoneAfter(0, e)'
    <3>1. CASE x = s
      BY <1>4, <2>3, <3>1
    <3>2. CASE x # s
      <4>1. x \notin Prior(s) /\ sock[x] = "open"
        BY <1>1, <2>3, <3>2
      <4>2. heard[x][e] = "offline" \/ e \in cur[x] \/ GoneAfter(0, e)
        BY <2>0, <2>1, <2>3, <4>1 DEF ToldGone
      <4>3. QED
        BY <1>0, <1>3, <1>4, <1>5, <3>2, <4>1, <4>2, GrowsKeepsGone
    <3>3. QED
      BY <3>1, <3>2
  <2>4. QED
    BY <2>2, <2>3 DEF LastWordIsGone, ToldGone
<1>10. QED
  BY <1>5, <1>6, <1>7, <1>8, <1>9 DEF IInv, Corrected

\* Only the close of the registered socket empties the registry, and it is due as offline.
LEMMA CloseStep ==
    ASSUME IInv, NEW s \in Socket, CloseEvent(s)
    PROVE  IInv'
<1> DEFINE dev == DeviceOf[s]
           a   == [dev |-> dev, online |-> FALSE]
<1>0. Types /\ OwnSocket /\ RegistryCurrent /\ dev \in Device /\ s # None
  BY SocketAssumption, NoneAssumption DEF IInv
<1>1. /\ sock[s] = "closing" /\ sock'[s] = "closed"
      /\ \A x \in Socket \ {s} : sock'[x] = sock[x]
      /\ sock' \in [Socket -> {"unused", "open", "closing", "closed"}]
      /\ cur' = cur /\ heard' = heard /\ calm' = calm
  BY <1>0 DEF CloseEvent, Types
<1>2. /\ registry' \in [Device -> Socket \cup {None}]
      /\ registry'[dev] = IF registry[dev] = s THEN None ELSE registry[dev]
      /\ \A d \in Device \ {dev} : registry'[d] = registry[d]
  BY <1>0 DEF CloseEvent, IsRegistered, Types
<1>3. Grows(a)
  <2>1. due' = Append(due, a)
    BY <1>0, AppendIsConcat DEF CloseEvent, Offline, Types
  <2>2. QED
    BY <1>0, <2>1, DueGrows DEF Announcement
<1>4. Types'
  BY <1>0, <1>1, <1>2, <1>3 DEF Types, Grows
<1>5. OwnSocket'
  BY <1>0, <1>2 DEF OwnSocket
<1>6. RegistryCurrent'
  BY <1>0, <1>1, <1>2, SocketAssumption, NoneAssumption DEF RegistryCurrent
<1>7. \A i \in 0 .. Len(due) : GoneAfter(i, dev)'
  <2>1. Len(due) + 1 \in 1 .. Len(due') /\ due'[Len(due) + 1] = a
    BY <1>0, <1>3 DEF Grows, Types
  <2>2. QED
    BY <1>0, <2>1 DEF GoneAfter, Types
<1>8. ASSUME calm = TRUE
      PROVE  LastWordIsGone' /\ ToldGone'
  <2>0. LastWordIsGone /\ ToldGone
    BY <1>8 DEF IInv, Corrected
  <2>2. ASSUME NEW d \in Device, registry'[d] = None,
               NEW i \in 1 .. Len(due'), due'[i].dev = d, due'[i].online = TRUE
        PROVE  GoneAfter(i, d)'
    <3>1. i \in 1 .. Len(due) /\ due'[i] = due[i]
      <4>1. i # Len(due) + 1
        BY <1>3, <2>2 DEF Grows
      <4>2. QED
        BY <1>0, <1>3, <4>1 DEF Grows, Types
    <3>2. CASE d = dev
      BY <1>0, <1>7, <3>1, <3>2 DEF Types
    <3>3. CASE d # dev
      <4>1. GoneAfter(i, d)
        BY <1>2, <2>0, <2>2, <3>1, <3>3 DEF LastWordIsGone
      <4>2. QED
        BY <1>0, <1>3, <3>1, <4>1, GrowsKeepsGone
    <3>4. QED
      BY <3>2, <3>3
  <2>3. ASSUME NEW x \in Socket, NEW e \in Device,
               sock'[x] = "open", e \in Partner[DeviceOf[x]], registry'[e] = None
        PROVE  heard'[x][e] = "offline" \/ e \in cur'[x] \/ GoneAfter(0, e)'
    <3>1. CASE e = dev
      BY <1>0, <1>7, <3>1 DEF Types
    <3>2. CASE e # dev
      <4>1. sock[x] = "open" /\ registry[e] = None
        BY <1>1, <1>2, <2>3, <3>2
      <4>2. heard[x][e] = "offline" \/ e \in cur[x] \/ GoneAfter(0, e)
        BY <2>0, <2>3, <4>1 DEF ToldGone
      <4>3. QED
        BY <1>0, <1>1, <1>3, <4>2, GrowsKeepsGone
    <3>3. QED
      BY <3>1, <3>2
  <2>4. QED
    BY <2>2, <2>3 DEF LastWordIsGone, ToldGone
<1>9. QED
  BY <1>1, <1>4, <1>5, <1>6, <1>8 DEF IInv, Corrected

\* An announcement tells the partners, and an older one that is due later is followed by a newer.
LEMMA AnnounceStep ==
    ASSUME IInv, NEW i \in DOMAIN due, Announce(i)
    PROVE  IInv'
<1> DEFINE dev    == due[i].dev
           online == due[i].online
<1>0. Types /\ OwnSocket /\ RegistryCurrent /\ i \in 1 .. Len(due) /\ Shrinks(i)
  BY DueShrinks DEF IInv, Announce
<1>1. due[i] \in Announcement /\ dev \in Device /\ online \in BOOLEAN /\ Partner[dev] \in SUBSET Device
  <2>1. due[i] \in Announcement
    BY <1>0 DEF Types
  <2>2. QED
    BY <2>1, PartnerAssumption DEF Announcement
<1>2. /\ sock' = sock /\ registry' = registry /\ cur' = cur
      /\ \E state \in {"online", "offline"} :
             state = (IF online THEN "online" ELSE "offline") /\ Says(Partner[dev], dev, state)
      /\ calm' \in BOOLEAN /\ (calm' = TRUE => calm = TRUE /\ InTurn(i))
  BY <1>0 DEF Announce, Types, InTurn, Tell, Says
<1> HIDE DEF dev, online
<1>3. /\ heard' \in [Socket -> [Device -> {"unknown", "online", "offline"}]]
      /\ \A s \in Socket, d \in Device : d # dev => heard'[s][d] = heard[s][d]
      /\ \A s \in Socket : sock[s] = "open" /\ DeviceOf[s] \in Partner[dev]
             => heard'[s][dev] = IF online THEN "online" ELSE "offline"
  <2>1. PICK state \in {"online", "offline"} :
            state = (IF online THEN "online" ELSE "offline") /\ Says(Partner[dev], dev, state)
    BY <1>2
  <2>2. Shown(Partner[dev], dev, state)
    BY <1>0, <1>1, <2>1, SaysMoves
  <2>3. QED
    BY <2>1, <2>2 DEF Shown
<1>4. Types' /\ OwnSocket' /\ RegistryCurrent'
  BY <1>0, <1>2, <1>3 DEF Types, Shrinks, OwnSocket, RegistryCurrent
<1>5. ASSUME calm' = TRUE
      PROVE  LastWordIsGone' /\ ToldGone'
  <2>0. LastWordIsGone /\ ToldGone /\ calm = TRUE
    BY <1>2, <1>5 DEF IInv, Corrected
  <2>1. \A j \in 1 .. Len(due) : j < i => due[j].dev # dev
    BY <1>0, <1>2, <1>5 DEF InTurn, dev, Types
  <2>2. Len(due) \in Nat /\ Len(due') = Len(due) - 1
    BY <1>0 DEF Types, Shrinks
  <2>3. ASSUME NEW d \in Device, registry'[d] = None,
               NEW n \in 1 .. Len(due'), due'[n].dev = d, due'[n].online = TRUE
        PROVE  GoneAfter(n, d)'
    <3>1. PICK m \in 1 .. Len(due) : /\ due'[n] = due[m]
                                     /\ m # i
                                     /\ m = IF n < i THEN n ELSE n + 1
      <4>1. n \in 1 .. Len(due) - 1
        BY <2>2
      <4>2. CASE n < i
        BY <1>0, <2>2, <4>1, <4>2 DEF Shrinks
      <4>3. CASE ~ (n < i)
        <5>1. due'[n] = due[n + 1] /\ n + 1 \in 1 .. Len(due) /\ n + 1 # i
          BY <1>0, <2>2, <4>1, <4>3 DEF Shrinks
        <5>2. QED
          BY <4>3, <5>1
      <4>4. QED
        BY <4>2, <4>3
    <3>2. GoneAfter(m, d)
      BY <1>2, <2>0, <2>3, <3>1 DEF LastWordIsGone
    <3>3. PICK j \in 1 .. Len(due) : j > m /\ due[j].dev = d /\ due[j].online = FALSE
      BY <3>2 DEF GoneAfter
    <3>4. j # i
      BY <2>1, <2>3, <3>1, <3>3 DEF dev
    <3>5. IF j < i THEN j > n ELSE j - 1 > n
      BY <1>0, <2>2, <3>1, <3>3, <3>4
    <3>6. n \in Nat
      BY <2>2
    <3>7. QED
      BY <1>0, <3>3, <3>4, <3>5, <3>6, ShrinksKeepsGone
  <2>4. ASSUME NEW x \in Socket, NEW e \in Device,
               sock'[x] = "open", e \in Partner[DeviceOf[x]], registry'[e] = None
        PROVE  heard'[x][e] = "offline" \/ e \in cur'[x] \/ GoneAfter(0, e)'
    <3>0. /\ heard[x][e] = "offline" \/ e \in cur[x] \/ GoneAfter(0, e)
          /\ sock[x] = "open" /\ registry[e] = None
      BY <1>2, <2>0, <2>4 DEF ToldGone
    <3>1. CASE e = dev /\ online = FALSE
      <4>1. DeviceOf[x] \in Partner[dev]
        BY <2>4, <3>1, PartnerAssumption, SocketAssumption
      <4>2. QED
        BY <1>3, <3>0, <3>1, <4>1
    <3>2. CASE e = dev /\ online = TRUE
      <4>1. GoneAfter(i, e)
        BY <1>0, <2>0, <3>0, <3>2 DEF LastWordIsGone, dev, online
      <4>2. PICK j \in 1 .. Len(due) : j > i /\ due[j].dev = e /\ due[j].online = FALSE
        BY <4>1 DEF GoneAfter
      <4>3. j # i /\ (IF j < i THEN j > 0 ELSE j - 1 > 0)
        BY <1>0, <2>2, <4>2
      <4>4. QED
        BY <1>0, <4>2, <4>3, ShrinksKeepsGone
    <3>3. CASE e # dev
      <4>1. CASE heard[x][e] = "offline" \/ e \in cur[x]
        BY <1>2, <1>3, <3>3, <4>1
      <4>2. CASE GoneAfter(0, e)
        <5>1. PICK j \in 1 .. Len(due) : due[j].dev = e /\ due[j].online = FALSE
          BY <4>2 DEF GoneAfter
        <5>2. j # i
          BY <3>3, <5>1 DEF dev
        <5>3. IF j < i THEN j > 0 ELSE j - 1 > 0
          BY <1>0, <2>2, <5>2
        <5>4. QED
          BY <1>0, <5>1, <5>2, <5>3, ShrinksKeepsGone
      <4>3. QED
        BY <3>0, <4>1, <4>2
    <3>4. QED
      BY <1>1, <3>1, <3>2, <3>3
  <2>5. QED
    BY <2>3, <2>4 DEF LastWordIsGone, ToldGone
<1>6. QED
  BY <1>4, <1>5 DEF IInv, Corrected

\* The report to a device that connects shows what the registry holds of its partner.
LEMMA ReportStep ==
    ASSUME IInv, NEW s \in Socket, NEW e \in Device, Report(s, e)
    PROVE  IInv'
<1>0. Types /\ OwnSocket /\ RegistryCurrent /\ DeviceOf[s] \in Device
  BY SocketAssumption DEF IInv
<1>1. /\ sock' = sock /\ registry' = registry /\ due' = due /\ calm' = calm
      /\ \E state \in {"online", "offline"} :
             /\ state = IF registry[e] # None THEN "online" ELSE "offline"
             /\ Says({DeviceOf[s]}, e, state)
  BY DEF Report, IsConnected, Tell, Says
<1>2. /\ cur' \in [Socket -> SUBSET Device]
      /\ cur'[s] = cur[s] \ {e} /\ \A x \in Socket \ {s} : cur'[x] = cur[x]
  BY <1>0 DEF Report, Types
<1>3. /\ heard' \in [Socket -> [Device -> {"unknown", "online", "offline"}]]
      /\ \A x \in Socket, d \in Device : d # e => heard'[x][d] = heard[x][d]
      /\ \A x \in Socket : heard'[x] # heard[x] => registry[e] # None \/ heard'[x][e] = "offline"
      /\ \A x \in Socket : sock[x] = "open" /\ DeviceOf[x] = DeviceOf[s]
             => heard'[x][e] = IF registry[e] # None THEN "online" ELSE "offline"
  <2>1. PICK state \in {"online", "offline"} :
            /\ state = IF registry[e] # None THEN "online" ELSE "offline"
            /\ Says({DeviceOf[s]}, e, state)
    BY <1>1
  <2>2. {DeviceOf[s]} \in SUBSET Device
    BY <1>0
  <2>3. Shown({DeviceOf[s]}, e, state)
    BY <1>0, <2>1, <2>2, SaysMoves
  <2>4. QED
    BY <2>1, <2>3 DEF Shown
<1>4. Types' /\ OwnSocket' /\ RegistryCurrent'
  BY <1>0, <1>1, <1>2, <1>3 DEF Types, OwnSocket, RegistryCurrent
<1>5. ASSUME calm = TRUE
      PROVE  LastWordIsGone' /\ ToldGone'
  <2>0. LastWordIsGone /\ ToldGone
    BY <1>5 DEF IInv, Corrected
  <2>1. LastWordIsGone'
    BY <1>1, <2>0 DEF LastWordIsGone, GoneAfter
  <2>2. ASSUME NEW x \in Socket, NEW d \in Device,
               sock'[x] = "open", d \in Partner[DeviceOf[x]], registry'[d] = None
        PROVE  heard'[x][d] = "offline" \/ d \in cur'[x] \/ GoneAfter(0, d)'
    <3>1. /\ heard[x][d] = "offline" \/ d \in cur[x] \/ GoneAfter(0, d)
          /\ sock[x] = "open" /\ registry[d] = None
      BY <1>1, <2>0, <2>2 DEF ToldGone
    <3>2. GoneAfter(0, d) => GoneAfter(0, d)'
      BY <1>1 DEF GoneAfter
    <3>3. CASE d # e
      BY <1>2, <1>3, <3>1, <3>2, <3>3
    <3>4. CASE d = e /\ x = s
      BY <1>1, <1>3, <3>1, <3>4
    <3>5. CASE d = e /\ x # s
      BY <1>1, <1>2, <1>3, <3>1, <3>2, <3>5
    <3>6. QED
      BY <3>3, <3>4, <3>5
  <2>3. QED
    BY <2>1, <2>2 DEF ToldGone
<1>6. QED
  BY <1>1, <1>4, <1>5 DEF IInv, Corrected

\* Every step keeps the invariant.
LEMMA NextIInv == IInv /\ [Next]_vars => IInv'
<1> SUFFICES ASSUME IInv, [Next]_vars
             PROVE  IInv'
  OBVIOUS
<1>0. Types /\ OwnSocket /\ RegistryCurrent /\ Corrected
  BY DEF IInv
<1>1. ASSUME NEW s \in Socket, Drop(s)
      PROVE  IInv'
  <2>1. /\ sock[s] = "open" /\ sock'[s] = "closing" /\ \A x \in Socket \ {s} : sock'[x] = sock[x]
        /\ sock' \in [Socket -> {"unused", "open", "closing", "closed"}]
        /\ heard' \in [Socket -> [Device -> {"unknown", "online", "offline"}]]
        /\ \A x \in Socket \ {s} : heard'[x] = heard[x]
        /\ registry' = registry /\ due' = due /\ cur' = cur /\ calm' = calm
    BY <1>0, <1>1 DEF Drop, Types, Nothing
  <2>2. Types' /\ OwnSocket' /\ RegistryCurrent'
    BY <1>0, <2>1 DEF Types, OwnSocket, RegistryCurrent
  <2>3. Corrected'
    BY <1>0, <2>1 DEF Corrected, LastWordIsGone, ToldGone, GoneAfter
  <2>4. QED
    BY <2>2, <2>3 DEF IInv
<1>2. CASE Restart
  <2>1. /\ sock' \in [Socket -> {"unused", "open", "closing", "closed"}]
        /\ \A s \in Socket : sock'[s] \in {"unused", "closed"} /\ cur'[s] = {}
        /\ registry' \in [Device -> Socket \cup {None}]
        /\ \A d \in Device : registry'[d] = None
        /\ due' = <<>> /\ cur' \in [Socket -> SUBSET Device]
        /\ heard' \in [Socket -> [Device -> {"unknown", "online", "offline"}]]
        /\ calm' = calm
    BY <1>0, <1>2 DEF Restart, Types, Nothing
  <2>2. Types' /\ OwnSocket'
    BY <1>0, <2>1 DEF Types, OwnSocket
  <2>3. RegistryCurrent'
    BY <2>1, SocketAssumption, NoneAssumption DEF RegistryCurrent
  <2>4. Corrected'
    BY <2>1 DEF Corrected, LastWordIsGone, ToldGone
  <2>5. QED
    BY <2>2, <2>3, <2>4 DEF IInv
<1>3. ASSUME NEW i \in DOMAIN due, AnnounceFails(i)
      PROVE  IInv'
  <2>1. Shrinks(i) /\ UNCHANGED <<sock, registry, cur, heard>> /\ calm' = FALSE
    BY <1>0, <1>3, DueShrinks DEF AnnounceFails
  <2>2. QED
    BY <1>0, <2>1 DEF IInv, Types, Shrinks, OwnSocket, RegistryCurrent, Corrected
<1>4. ASSUME NEW s \in Socket, ReportFails(s)
      PROVE  IInv'
  <2>1. /\ UNCHANGED <<sock, registry, due, heard>> /\ calm' = FALSE
        /\ cur' \in [Socket -> SUBSET Device]
        /\ \A x \in Socket : cur'[x] \subseteq cur[x]
    BY <1>0, <1>4 DEF ReportFails, Types
  <2>2. QED
    BY <1>0, <2>1 DEF IInv, Types, OwnSocket, RegistryCurrent, Corrected
<1>5. CASE UNCHANGED vars
  BY <1>0, <1>5 DEF vars, IInv, Types, OwnSocket, RegistryCurrent, Corrected, LastWordIsGone,
                    ToldGone, GoneAfter
<1>6. QED
  BY <1>1, <1>2, <1>3, <1>4, <1>5, ConnectStep, CloseStep, AnnounceStep, ReportStep DEF Next, ReportNext

-----------------------------------------------------------------------------
\* The inductive invariant holds throughout, for any devices and sockets.
THEOREM Invariance == Spec => []IInv
  BY InitIInv, NextIInv, PTL DEF Spec

\* The variables keep their types, and a device has one open socket at most.
THEOREM TypeCorrect == Spec => []TypeOK
<1>1. IInv => TypeOK
  BY DEF IInv, Types, RegistryCurrent, TypeOK
<1>2. QED
  BY <1>1, Invariance, PTL

\* However late the close event of a replaced socket comes in, a device is
\* reached on the socket it has open.
THEOREM RegistryIsCurrent == Spec => []RegistryCurrent
<1>1. IInv => RegistryCurrent
  BY DEF IInv
<1>2. QED
  BY <1>1, Invariance, PTL

\* What a report misses of a partner's leaving the announcement tells, and the
\* other way round: nobody is left shown online.
THEOREM GhostsAreCorrected == Spec => []NoGhosts
<1>1. ASSUME IInv
      PROVE  NoGhosts
  <2>1. Quiet => Len(due) = 0
    BY DEF Quiet
  <2>2. Quiet => \A d \in Device : ~ GoneAfter(0, d)
    BY <2>1 DEF GoneAfter
  <2>3. QED
    BY <1>1, <2>2, PartnerAssumption, SocketAssumption
       DEF IInv, Corrected, ToldGone, NoGhosts, Quiet, Types
<1>2. QED
  BY <1>1, Invariance, PTL

=============================================================================
