------------------------------ MODULE Presence ------------------------------
(***************************************************************************)
(* Who is told that which device is online: the ConnectionRegistry         *)
(* (services/backend/src/ws/connectionRegistry.ts) and the background work *)
(* that GET /ws and a socket's close event start                           *)
(* (services/backend/src/ws/signaling.ts).                                 *)
(*                                                                         *)
(* A device that connects is announced online to its partners and is sent  *)
(* the state of each of them; a socket's close event announces its device  *)
(* offline.  Each of these runs a few statements first, so announcements   *)
(* of one device may be sent in another order than they were started.      *)
(*                                                                         *)
(* The approved partners are fixed here: module Pairing changes them.      *)
(***************************************************************************)
EXTENDS Sequences, SequencesExt

CONSTANTS
    Device,      \* ids of device rows
    Partner,     \* Partner[d]: the devices d has an approved pair with
    Socket,      \* WebSocket connections (bounds the connects)
    DeviceOf,    \* DeviceOf[s]: the device that opens socket s
    MayOvertake, \* whether a device's announcements may overtake each other
    MayRestart,  \* whether the process may die and start again
    DbMayFail,   \* whether a statement may fail and so abort the work
    None         \* no socket

ASSUME PartnerAssumption ==
    /\ Partner \in [Device -> SUBSET Device]
    /\ \A d, e \in Device : e \in Partner[d] <=> d \in Partner[e]
ASSUME SocketAssumption == DeviceOf \in [Socket -> Device]
ASSUME FlagAssumption   == {MayOvertake, MayRestart, DbMayFail} \subseteq BOOLEAN
ASSUME NoneAssumption   == None \notin Socket

VARIABLES
    sock,      \* sock[s]: state of socket s
    registry,  \* ConnectionRegistry: registry[d] is the socket of d
    due,       \* announcements started and not sent, in the order of their start
    cur,       \* cur[s]: partners whose state is still to be sent for socket s
    heard,     \* heard[s]: what the open socket s was last sent of each device
    calm       \* history: no announcement overtook another, no statement failed

vars == <<sock, registry, due, cur, heard, calm>>

Announcement == [dev : Device, online : BOOLEAN]
Nothing      == [e \in Device |-> "unknown"]

Init ==
    /\ sock     = [s \in Socket |-> "unused"]
    /\ registry = [d \in Device |-> None]
    /\ due      = <<>>
    /\ cur      = [s \in Socket |-> {}]
    /\ heard    = [s \in Socket |-> Nothing]
    /\ calm     = TRUE

-----------------------------------------------------------------------------
\* The devices registry.send reaches.
Reachable(D) == {d \in D : registry[d] # None /\ sock[registry[d]] = "open"}

\* A device.status about device e, sent to the devices D.
Tell(D, e, online) ==
    heard' = [s \in Socket |->
                 IF \E d \in Reachable(D) : registry[d] = s
                 THEN [heard[s] EXCEPT ![e] = IF online THEN "online" ELSE "offline"]
                 ELSE heard[s]]

\* The open socket that registry.set replaces, if any.
Prior(s) == {x \in Socket : registry[DeviceOf[s]] = x /\ sock[x] = "open"}

\* Mutant: only changes are pushed, nothing is sent to the device that connects.
NothingToReport(s) == {}

\* The partners sendCurrentPartnerPresence goes through.
ToReport(s) == Partner[DeviceOf[s]]

\* GET /ws: register, announce, report.
Connect(s) ==
    /\ sock[s] = "unused"
    /\ sock' = [x \in Socket |-> IF x = s THEN "open"
                                 ELSE IF x \in Prior(s) THEN "closing"
                                 ELSE sock[x]]
    /\ registry' = [registry EXCEPT ![DeviceOf[s]] = s]
    /\ due' = Append(due, [dev |-> DeviceOf[s], online |-> TRUE])
    /\ cur' = [cur EXCEPT ![s] = ToReport(s)]
    /\ heard' = [x \in Socket |-> IF x \in Prior(s) THEN Nothing ELSE heard[x]]
    /\ UNCHANGED calm

\* The peer closes an open socket, or it breaks; its close event is to come,
\* and until then it stays registered.
Drop(s) ==
    /\ sock[s] = "open"
    /\ sock' = [sock EXCEPT ![s] = "closing"]
    /\ heard' = [heard EXCEPT ![s] = Nothing]
    /\ UNCHANGED <<registry, due, cur, calm>>

\* Mutant: whatever socket is registered is removed.
Unregistered(s) == TRUE

\* connections.get(deviceId) === socket
IsRegistered(s) == registry[DeviceOf[s]] = s

\* Mutant: the announcement is left to the next connect.
NotAnnounced(s) == <<>>

\* The close event announces its device offline, whether or not the device has
\* another socket by now.
Offline(s) == <<[dev |-> DeviceOf[s], online |-> FALSE]>>

\* socket.on("close")
CloseEvent(s) ==
    /\ sock[s] = "closing"
    /\ sock' = [sock EXCEPT ![s] = "closed"]
    /\ registry' = [registry EXCEPT ![DeviceOf[s]] = IF IsRegistered(s) THEN None ELSE @]
    /\ due' = due \o Offline(s)
    /\ UNCHANGED <<cur, heard, calm>>

\* The process dies: sockets and background work are lost.
Restart ==
    /\ MayRestart
    /\ sock'     = [s \in Socket |-> IF sock[s] = "unused" THEN "unused" ELSE "closed"]
    /\ registry' = [d \in Device |-> None]
    /\ due'      = <<>>
    /\ cur'      = [s \in Socket |-> {}]
    /\ heard'    = [s \in Socket |-> Nothing]
    /\ UNCHANGED calm

-----------------------------------------------------------------------------
\* Announcement i is the first of its device; others it may overtake.
InTurn(i) == \A j \in 1 .. (i - 1) : due[j].dev # due[i].dev

\* announcePresence gets to its sends.
Announce(i) ==
    /\ i \in DOMAIN due
    /\ InTurn(i) \/ MayOvertake
    /\ calm' = (calm /\ InTurn(i))
    /\ Tell(Partner[due[i].dev], due[i].dev, due[i].online)
    /\ due' = RemoveAt(due, i)
    /\ UNCHANGED <<sock, registry, cur>>

\* registry.isConnected: the socket may be closing already.
IsConnected(e) == registry[e] # None

\* sendCurrentPartnerPresence gets to one partner.  The message goes to the
\* socket its device has now.
Report(s, e) ==
    /\ e \in cur[s]
    /\ Tell({DeviceOf[s]}, e, IsConnected(e))
    /\ cur' = [cur EXCEPT ![s] = @ \ {e}]
    /\ UNCHANGED <<sock, registry, due, calm>>

\* A statement fails: the work it belongs to is dropped.
AnnounceFails(i) ==
    /\ DbMayFail
    /\ i \in DOMAIN due
    /\ due' = RemoveAt(due, i)
    /\ calm' = FALSE
    /\ UNCHANGED <<sock, registry, cur, heard>>

ReportFails(s) ==
    /\ DbMayFail
    /\ cur[s] # {}
    /\ cur' = [cur EXCEPT ![s] = {}]
    /\ calm' = FALSE
    /\ UNCHANGED <<sock, registry, due, heard>>

-----------------------------------------------------------------------------
ReportNext(s) == \E e \in Device : Report(s, e)

Next ==
    \/ \E s \in Socket : Connect(s)
    \/ \E s \in Socket : Drop(s)
    \/ \E s \in Socket : CloseEvent(s)
    \/ Restart
    \/ \E i \in DOMAIN due : Announce(i)
    \/ \E s \in Socket : ReportNext(s)
    \/ \E i \in DOMAIN due : AnnounceFails(i)
    \/ \E s \in Socket : ReportFails(s)

Spec == Init /\ [][Next]_vars

\* Postgres answers: the loop of sendCurrentPartnerPresence goes on.
FairSpec == Spec /\ \A s \in Socket : WF_vars(ReportNext(s))

-----------------------------------------------------------------------------
(***************************************************************************)
(* Properties.                                                             *)
(***************************************************************************)

\* The type invariant; a device has at most one open socket.
TypeOK ==
    /\ sock     \in [Socket -> {"unused", "open", "closing", "closed"}]
    /\ \A s, z \in Socket : sock[s] = "open" /\ sock[z] = "open" /\ s # z
                                => DeviceOf[s] # DeviceOf[z]
    /\ registry \in [Device -> Socket \cup {None}]
    /\ \A i \in DOMAIN due : due[i] \in Announcement
    /\ \A s \in Socket : cur[s] \subseteq Partner[DeviceOf[s]]
    /\ heard    \in [Socket -> [Device -> {"unknown", "online", "offline"}]]
    /\ calm     \in BOOLEAN

\* A device is reached on the socket it has open, however late the close event
\* of a socket it had before comes in; and a closed socket is never registered.
RegistryCurrent ==
    \A s \in Socket :
        /\ sock[s] = "open" => registry[DeviceOf[s]] = s
        /\ registry[DeviceOf[s]] = s => sock[s] \in {"open", "closing"}

\* Nothing that was started is still under way.
Quiet == due = <<>> /\ \A s \in Socket : sock[s] # "closing" /\ cur[s] = {}

\* Once everything that was started is through, no device shows a partner as
\* online that is gone, or does not know about it: what the report missed of a
\* partner's leaving, the announcement tells, and the other way round.  A failed
\* statement, or one announcement overtaking another, is not made good.
NoGhosts ==
    Quiet /\ calm => \A s \in Socket : sock[s] = "open" =>
                 \A e \in Partner[DeviceOf[s]] :
                     registry[e] = None => heard[s][e] = "offline"

\* Once everything is through, no device shows a connected partner "as offline
\* until the partner's next connect/disconnect event".
ConnectedShownOnline ==
    Quiet => \A s \in Socket : sock[s] = "open" =>
                 \A e \in Partner[DeviceOf[s]] :
                     registry[e] # None => heard[s][e] = "online"

\* A device that stays connected is told about every partner, also when it
\* connects after the partner did ("it should learn the Mac is online right away").
Told ==
    \A s \in Socket : \A e \in Device :
        sock[s] = "open" /\ e \in Partner[DeviceOf[s]]
            ~> sock[s] # "open" \/ heard[s][e] # "unknown" \/ ~calm

=============================================================================
