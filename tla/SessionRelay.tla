---------------------------- MODULE SessionRelay ----------------------------
(***************************************************************************)
(* Sessions of an approved pair, as the backend runs them: the sessions    *)
(* table, the in-memory SessionPartnerCache, and the handlers of           *)
(* session.start, session.end and the webrtc.* messages                    *)
(* (services/backend/src/ws/signaling.ts).                                 *)
(*                                                                         *)
(* Handlers are cut at their awaits, as in module Pairing: one statement   *)
(* or one burst of sends per step, and the steps of different handlers     *)
(* interleave.  The cache and the handlers die with the process, the       *)
(* tables do not.                                                          *)
(***************************************************************************)
EXTENDS FiniteSets

CONSTANTS
    Device,     \* ids of device rows
    Pair,       \* ids of device_pairs rows
    MacOf,      \* MacOf[p], RemoteOf[p]: the two devices of pair p
    RemoteOf,
    Session,    \* ids of sessions rows (bounds the sessions started)
    Socket,     \* WebSocket connections (bounds the connects)
    DeviceOf,   \* DeviceOf[s]: the device that opens socket s
    Task,       \* handlers that may be suspended at once
    MayRestart, \* whether the process may die and start again
    DbMayFail,  \* whether a statement may fail and so abort its handler
    None        \* no row, no socket

ASSUME EndsAssumption ==
    /\ MacOf \in [Pair -> Device]
    /\ RemoteOf \in [Pair -> Device]
    /\ \A p \in Pair : MacOf[p] # RemoteOf[p]
ASSUME SocketAssumption == DeviceOf \in [Socket -> Device]
ASSUME FlagAssumption   == MayRestart \in BOOLEAN /\ DbMayFail \in BOOLEAN
ASSUME NoneAssumption   == None \notin Device \cup Pair \cup Session \cup Socket

VARIABLES
    deleted,  \* devices whose row is gone
    pair,     \* pair[p]: status of the row
    session,  \* session[x]: the sessions row x
    known,    \* sessions whose id was ever sent to a client
    cache,    \* SessionPartnerCache: cache[x] is the pair whose ends it holds
    sock,     \* sock[s]: state of socket s
    inbox,    \* inbox[s]: the session messages sent on the open socket s
    task      \* task[t]: a suspended handler

dbvars == <<deleted, pair, session>>
vars   == <<dbvars, known, cache, sock, inbox, task>>

SessionRow == [status : {"none", "active", "ended", "gone"}, pair : Pair \cup {None}]
NoSession  == [status |-> "none", pair |-> None]

StartNote(x)    == [type |-> "session.start", session |-> x, from |-> None]
EndNote(x)      == [type |-> "session.end", session |-> x, from |-> None]
RelayNote(x, d) == [type |-> "webrtc", session |-> x, from |-> d]

Note == [type : {"session.start", "session.end", "webrtc"}, session : Session,
         from : Device \cup {None}]

TaskRec == [at : {"idle",
                  "startFind", "startCreate", "startSend",
                  "endFind", "endPair", "endUpdate", "endSend",
                  "relayFind", "relayPair", "relaySend"},
            sock : Socket \cup {None}, session : Session \cup {None},
            pair : Pair \cup {None}]
Idle    == [at |-> "idle", sock |-> None, session |-> None, pair |-> None]

-----------------------------------------------------------------------------
Ends(p) == {MacOf[p], RemoteOf[p]}

\* Mutant: a device that is not the Mac is taken for the remote.
PartnerUnlessMac(p, d) == IF d = MacOf[p] THEN {RemoteOf[p]} ELSE {MacOf[p]}

\* partnerDeviceId: the other end of the pair, for a device that is an end.
Partner(p, d) == IF d \in Ends(p) THEN Ends(p) \ {d} ELSE {}

\* Sockets whose peer may still be heard: a replaced one is closing, and what
\* was sent before the close was seen still arrives.
Heard(s) == sock[s] \in {"open", "closing"}

\* registry.send to the devices D, and socket.send on the sockets S.
Send(D, S, note) ==
    inbox' = [s \in Socket |->
                 IF sock[s] = "open" /\ (DeviceOf[s] \in D \/ s \in S)
                 THEN inbox[s] \cup {note}
                 ELSE inbox[s]]

DeviceOfTask(t) == DeviceOf[task[t].sock]

Goto(t, at) == task' = [task EXCEPT ![t].at = at]
Finish(t)   == task' = [task EXCEPT ![t] = Idle]

Init ==
    /\ deleted = {}
    /\ pair    = [p \in Pair |-> "pending"]
    /\ session = [x \in Session |-> NoSession]
    /\ known   = {}
    /\ cache   = [x \in Session |-> None]
    /\ sock    = [s \in Socket |-> "unused"]
    /\ inbox   = [s \in Socket |-> {}]
    /\ task    = [t \in Task |-> Idle]

-----------------------------------------------------------------------------
(***************************************************************************)
(* The tables, as the rest of the backend changes them (module Pairing).   *)
(***************************************************************************)
Approve(p) ==
    /\ pair[p] = "pending"
    /\ pair' = [pair EXCEPT ![p] = "approved"]
    /\ UNCHANGED <<deleted, session, known, cache, sock, inbox, task>>

\* Mutant: the sessions of a removed pair stay.
CascadeKeeps(d) == {}

\* ON DELETE CASCADE from device_pairs to sessions.
Cascade(d) == {x \in Session : /\ session[x].status \in {"active", "ended"}
                               /\ d \in Ends(session[x].pair)}

\* DELETE /devices/:id takes pairs and sessions along; neither the cache nor
\* the device's socket hears of it.
DeleteDevice(d) ==
    /\ d \notin deleted
    /\ deleted' = deleted \cup {d}
    /\ pair' = [p \in Pair |-> IF d \in Ends(p) THEN "gone" ELSE pair[p]]
    /\ session' = [x \in Session |-> IF x \in Cascade(d)
                                     THEN [session[x] EXCEPT !.status = "gone"]
                                     ELSE session[x]]
    /\ UNCHANGED <<known, cache, sock, inbox, task>>

-----------------------------------------------------------------------------
(***************************************************************************)
(* Connections.                                                            *)
(***************************************************************************)

\* The socket registered for the device of s, if any.
Prior(s) == {x \in Socket : sock[x] = "open" /\ DeviceOf[x] = DeviceOf[s]}

\* GET /ws and registry.set: a prior socket of the device starts to close.
Connect(s) ==
    /\ sock[s] = "unused"
    /\ DeviceOf[s] \notin deleted
    /\ sock' = [x \in Socket |-> IF x = s THEN "open"
                                 ELSE IF x \in Prior(s) THEN "closing"
                                 ELSE sock[x]]
    /\ inbox' = [x \in Socket |-> IF x \in Prior(s) THEN {} ELSE inbox[x]]
    /\ UNCHANGED <<dbvars, known, cache, task>>

\* An open socket breaks, or a replaced one has finished closing.
Close(s) ==
    /\ Heard(s)
    /\ sock' = [sock EXCEPT ![s] = "closed"]
    /\ inbox' = [inbox EXCEPT ![s] = {}]
    /\ UNCHANGED <<dbvars, known, cache, task>>

Restart ==
    /\ MayRestart
    /\ cache' = [x \in Session |-> None]
    /\ sock'  = [s \in Socket |-> IF Heard(s) THEN "closed" ELSE sock[s]]
    /\ inbox' = [s \in Socket |-> {}]
    /\ task'  = [t \in Task |-> Idle]
    /\ UNCHANGED <<dbvars, known>>

-----------------------------------------------------------------------------
(***************************************************************************)
(* handleSessionStart.                                                     *)
(***************************************************************************)
RecvStart(t, s, p) ==
    /\ Heard(s)
    /\ task[t].at = "idle"
    /\ task' = [task EXCEPT ![t] = [Idle EXCEPT !.at = "startFind", !.sock = s, !.pair = p]]
    /\ UNCHANGED <<dbvars, known, cache, sock, inbox>>

\* findDevicePairById: the caller must be an end of an approved pair.
StartFind(t) ==
    /\ task[t].at = "startFind"
    /\ IF pair[task[t].pair] = "approved" /\ Partner(task[t].pair, DeviceOfTask(t)) # {}
       THEN Goto(t, "startCreate")
       ELSE Finish(t)
    /\ UNCHANGED <<dbvars, known, cache, sock, inbox>>

\* createSession; its foreign key refuses a pair removed meanwhile, and the
\* handler throws.
CreateSession(t, x) ==
    /\ task[t].at = "startCreate"
    /\ session[x].status = "none"
    /\ pair[task[t].pair] # "gone"
    /\ session' = [session EXCEPT ![x] = [status |-> "active", pair |-> task[t].pair]]
    /\ task' = [task EXCEPT ![t].at = "startSend", ![t].session = x]
    /\ UNCHANGED <<deleted, pair, known, cache, sock, inbox>>

CreateThrows(t) ==
    /\ task[t].at = "startCreate"
    /\ pair[task[t].pair] = "gone"
    /\ Finish(t)
    /\ UNCHANGED <<dbvars, known, cache, sock, inbox>>

\* The cache is filled, and both ends are sent the id: the caller on the socket
\* it asked on, the partner on the socket it has now.
StartSend(t) ==
    /\ task[t].at = "startSend"
    /\ cache' = [cache EXCEPT ![task[t].session] = task[t].pair]
    /\ known' = known \cup {task[t].session}
    /\ Send(Partner(task[t].pair, DeviceOfTask(t)), {task[t].sock}, StartNote(task[t].session))
    /\ Finish(t)
    /\ UNCHANGED <<dbvars, sock>>

-----------------------------------------------------------------------------
(***************************************************************************)
(* handleSessionEnd.                                                       *)
(***************************************************************************)
RecvEnd(t, s, x) ==
    /\ Heard(s)
    /\ x \in known
    /\ task[t].at = "idle"
    /\ task' = [task EXCEPT ![t] = [Idle EXCEPT !.at = "endFind", !.sock = s, !.session = x]]
    /\ UNCHANGED <<dbvars, known, cache, sock, inbox>>

\* findSessionById: an ended session is found too.
EndFind(t) ==
    /\ task[t].at = "endFind"
    /\ task' = [task EXCEPT ![t] =
                   IF session[task[t].session].status \in {"active", "ended"}
                   THEN [task[t] EXCEPT !.at = "endPair", !.pair = session[task[t].session].pair]
                   ELSE Idle]
    /\ UNCHANGED <<dbvars, known, cache, sock, inbox>>

\* findDevicePairById: the caller must be an end of the pair.
EndPair(t) ==
    /\ task[t].at = "endPair"
    /\ IF pair[task[t].pair] # "gone" /\ Partner(task[t].pair, DeviceOfTask(t)) # {}
       THEN Goto(t, "endUpdate")
       ELSE Finish(t)
    /\ UNCHANGED <<dbvars, known, cache, sock, inbox>>

\* endSession; whether a row was still active is not looked at.
EndUpdate(t) ==
    /\ task[t].at = "endUpdate"
    /\ session' = [session EXCEPT ![task[t].session].status =
                      IF @ = "active" THEN "ended" ELSE @]
    /\ Goto(t, "endSend")
    /\ UNCHANGED <<deleted, pair, known, cache, sock, inbox>>

EndSend(t) ==
    /\ task[t].at = "endSend"
    /\ cache' = [cache EXCEPT ![task[t].session] = None]
    /\ Send(Partner(task[t].pair, DeviceOfTask(t)), {}, EndNote(task[t].session))
    /\ Finish(t)
    /\ UNCHANGED <<dbvars, known, sock>>

-----------------------------------------------------------------------------
(***************************************************************************)
(* relayWebrtcMessage.                                                     *)
(***************************************************************************)

\* The session is cached: authorised and forwarded without an await.
RelayHit(s, x) ==
    /\ Heard(s)
    /\ x \in known
    /\ cache[x] # None
    /\ Send(Partner(cache[x], DeviceOf[s]), {}, RelayNote(x, DeviceOf[s]))
    /\ UNCHANGED <<dbvars, known, cache, sock, task>>

RelayMiss(t, s, x) ==
    /\ Heard(s)
    /\ x \in known
    /\ cache[x] = None
    /\ task[t].at = "idle"
    /\ task' = [task EXCEPT ![t] = [Idle EXCEPT !.at = "relayFind", !.sock = s, !.session = x]]
    /\ UNCHANGED <<dbvars, known, cache, sock, inbox>>

Relayable(x) == session[x].status = "active"

RelayFind(t) ==
    /\ task[t].at = "relayFind"
    /\ task' = [task EXCEPT ![t] =
                   IF Relayable(task[t].session)
                   THEN [task[t] EXCEPT !.at = "relayPair",
                                        !.pair = session[task[t].session].pair]
                   ELSE Idle]
    /\ UNCHANGED <<dbvars, known, cache, sock, inbox>>

RelayPair(t) ==
    /\ task[t].at = "relayPair"
    /\ IF pair[task[t].pair] # "gone" /\ Partner(task[t].pair, DeviceOfTask(t)) # {}
       THEN Goto(t, "relaySend")
       ELSE Finish(t)
    /\ UNCHANGED <<dbvars, known, cache, sock, inbox>>

\* The cache is filled again and the message forwarded.
RelaySend(t) ==
    /\ task[t].at = "relaySend"
    /\ cache' = [cache EXCEPT ![task[t].session] = task[t].pair]
    /\ Send(Partner(task[t].pair, DeviceOfTask(t)), {},
            RelayNote(task[t].session, DeviceOfTask(t)))
    /\ Finish(t)
    /\ UNCHANGED <<dbvars, known, sock>>

-----------------------------------------------------------------------------
\* A statement fails, its effect taken or not, and the handler ends silently.
Fail(t) ==
    /\ DbMayFail
    /\ task[t].at # "idle"
    /\ Finish(t)
    /\ UNCHANGED <<dbvars, known, cache, sock, inbox>>

Step(t) ==
    \/ StartFind(t)
    \/ \E x \in Session : CreateSession(t, x)
    \/ CreateThrows(t)
    \/ StartSend(t)
    \/ EndFind(t)
    \/ EndPair(t)
    \/ EndUpdate(t)
    \/ EndSend(t)
    \/ RelayFind(t)
    \/ RelayPair(t)
    \/ RelaySend(t)

Environment ==
    \/ \E p \in Pair : Approve(p)
    \/ \E d \in Device : DeleteDevice(d)
    \/ \E s \in Socket : Connect(s)
    \/ \E s \in Socket : Close(s)
    \/ Restart
    \/ \E t \in Task, s \in Socket, p \in Pair : RecvStart(t, s, p)
    \/ \E t \in Task, s \in Socket, x \in Session : RecvEnd(t, s, x)
    \/ \E s \in Socket, x \in Session : RelayHit(s, x)
    \/ \E t \in Task, s \in Socket, x \in Session : RelayMiss(t, s, x)
    \/ \E t \in Task : Fail(t)

Next == Environment \/ \E t \in Task : Step(t)

Spec == Init /\ [][Next]_vars

-----------------------------------------------------------------------------
(***************************************************************************)
(* Properties.                                                             *)
(***************************************************************************)

\* The type invariant; a device has at most one open socket.
TypeOK ==
    /\ deleted \subseteq Device
    /\ pair    \in [Pair -> {"pending", "approved", "gone"}]
    /\ session \in [Session -> SessionRow]
    /\ \A x \in Session : session[x].pair = None <=> session[x].status = "none"
    /\ known   \subseteq Session
    /\ cache   \in [Session -> Pair \cup {None}]
    /\ sock    \in [Socket -> {"unused", "open", "closing", "closed"}]
    /\ \A s, z \in Socket : sock[s] = "open" /\ sock[z] = "open" /\ s # z
                                => DeviceOf[s] # DeviceOf[z]
    /\ inbox   \in [Socket -> SUBSET Note]
    /\ task    \in [Task -> TaskRec]

\* A webrtc message of a session passes only between the two devices of the
\* session's pair, from one to the other, whether the cache or the tables
\* authorised it and whatever was restarted, replaced or deleted meanwhile.
RelayConfined ==
    \A s \in Socket : \A n \in inbox[s] : n.type = "webrtc" =>
        /\ session[n.session].pair # None
        /\ Ends(session[n.session].pair) = {DeviceOf[s], n.from}
        /\ DeviceOf[s] # n.from

\* A session, active or ended, is of an approved pair that is still there,
\* though handleSessionStart checks the pair one statement before the INSERT.
SessionHasPair ==
    \A x \in Session : session[x].status \in {"active", "ended"} =>
        pair[session[x].pair] = "approved"

=============================================================================
