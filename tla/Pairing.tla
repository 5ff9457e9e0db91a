------------------------------ MODULE Pairing ------------------------------
(***************************************************************************)
(* Pairing an iPhone with a Mac, as the backend runs it: pairing codes,    *)
(* the device_pairs table, the signaling sockets and the three handlers    *)
(* that touch them (services/backend/src/ws/signaling.ts).                 *)
(*                                                                         *)
(* The backend is one Node process.  A handler runs without interruption   *)
(* up to its next `await`; every await is one SQL statement, atomic in     *)
(* Postgres.  A handler is therefore a task whose steps are "the statement *)
(* runs and its result is kept" and "the messages are sent", and the steps *)
(* of different tasks interleave.  The tables survive a restart of the     *)
(* process; sockets and running handlers do not.                           *)
(***************************************************************************)
EXTENDS FiniteSets

CONSTANTS
    User,       \* accounts
    Device,     \* ids of device rows; an id is never issued twice
    Mac,        \* the ids issued with device_type 'mac'
    Owner,      \* Owner[d]: the account the row of d belongs to
    CodeId,     \* ids of pairing_codes rows (bounds the codes minted)
    Hash,       \* hashes of 6-digit codes; two rows may share one
    PairId,     \* ids of device_pairs rows (bounds the pairs created)
    Socket,     \* WebSocket connections (bounds the connects)
    ReqTask,    \* pair.request handlers that may run at once
    ResTask,    \* pair.approve / pair.reject handlers that may run at once
    MayFail,    \* tasks and sockets whose handlers a failing statement may abort
    None        \* no row, no socket, no device

ASSUME MacAssumption   == Mac \subseteq Device
ASSUME OwnerAssumption == Owner \in [Device -> User]
ASSUME FailAssumption  == MayFail \subseteq ReqTask \cup ResTask \cup Socket
ASSUME NoneAssumption  == None \notin User \cup Device \cup CodeId \cup Hash \cup PairId \cup Socket

VARIABLES
    device,    \* device[d]: "unborn", "present" or "deleted" row of devices
    codes,     \* codes[c]: the pairing_codes row c
    pairs,     \* pairs[p]: the device_pairs row p
    deviceOf,  \* deviceOf[s]: the device that opened socket s
    live,      \* sockets that may still hand the server a message
    registry,  \* ConnectionRegistry: registry[d] is the socket of d
    inbox,     \* inbox[s]: the pairing messages sent on the open socket s
    req,       \* req[t]: a running handlePairRequest
    res,       \* res[t]: a running handlePairResolve
    flush      \* flush[s]: the flushPendingPairingRequests of socket s

dbvars   == <<device, codes, pairs>>
connvars == <<deviceOf, live, registry>>
vars     == <<device, codes, pairs, deviceOf, live, registry, inbox, req, res, flush>>

CodeStatus == {"none", "fresh", "used", "expired", "gone"}
CodeRow    == [status : CodeStatus, mac : Mac \cup {None},
               user : User \cup {None}, hash : Hash \cup {None}]
NoCode     == [status |-> "none", mac |-> None, user |-> None, hash |-> None]

(***************************************************************************)
(* "none" is a row not inserted yet and "gone" one the deletion of one of  *)
(* its devices removed.  The field code names the pairing code that led to *)
(* the row; the table has no such column.                                  *)
(***************************************************************************)
PairStatus == {"none", "pending", "approved", "rejected", "gone"}
PairRow    == [status : PairStatus, mac : Device \cup {None},
               remote : Device \cup {None}, code : CodeId \cup {None}]
NoPair     == [status |-> "none", mac |-> None, remote |-> None, code |-> None]

Verdict == {"approved", "rejected"}
Note    == [type : {"pair.incoming", "pair.complete", "pair.reject"}, pair : PairId]

ReqRec  == [at   : {"idle", "find", "consume", "insert", "lookup", "notify", "complete",
                     "failed"},
            dev  : Device \cup {None}, sock : Socket \cup {None},
            hash : Hash \cup {None},   code : CodeId \cup {None},
            mac  : Device \cup {None}, pair : PairId \cup {None}]
NoReq   == [at |-> "idle", dev |-> None, sock |-> None, hash |-> None,
            code |-> None, mac |-> None, pair |-> None]

ResRec  == [at  : {"idle", "find", "update", "send"}, dev : Device \cup {None},
            pair : PairId \cup {None}, verdict : Verdict \cup {None}]
NoRes   == [at |-> "idle", dev |-> None, pair |-> None, verdict |-> None]

FlushRec == [at : {"idle", "list", "look", "send", "failed"}, todo : SUBSET PairId,
             pair : PairId \cup {None}]
NoFlush  == [at |-> "idle", todo |-> {}, pair |-> None]

-----------------------------------------------------------------------------
(***************************************************************************)
(* Helper state formulae.                                                  *)
(***************************************************************************)
Present(d) == device[d] = "present"
Exists(p)  == pairs[p].status \notin {"none", "gone"}
Active(p)  == pairs[p].status \in {"pending", "approved"}
Ends(p)    == {pairs[p].mac, pairs[p].remote}

\* socket.readyState === OPEN.  ConnectionRegistry.set closes a replaced socket
\* on the spot; what its peer had sent before it saw the close still arrives.
Open(s) == deviceOf[s] # None /\ registry[deviceOf[s]] = s

\* registry.send to each device of D; a device with no socket gets nothing.
Deliver(D, note) ==
    inbox' = [s \in Socket |-> IF \E d \in D : registry[d] = s
                               THEN inbox[s] \cup {note}
                               ELSE inbox[s]]

Incoming(p) == [type |-> "pair.incoming", pair |-> p]
Complete(p) == [type |-> "pair.complete", pair |-> p]
Reject(p)   == [type |-> "pair.reject",   pair |-> p]

Init ==
    /\ device   = [d \in Device |-> "unborn"]
    /\ codes    = [c \in CodeId |-> NoCode]
    /\ pairs    = [p \in PairId |-> NoPair]
    /\ deviceOf = [s \in Socket |-> None]
    /\ live     = {}
    /\ registry = [d \in Device |-> None]
    /\ inbox    = [s \in Socket |-> {}]
    /\ req      = [t \in ReqTask |-> NoReq]
    /\ res      = [t \in ResTask |-> NoRes]
    /\ flush    = [s \in Socket |-> NoFlush]

-----------------------------------------------------------------------------
(***************************************************************************)
(* REST routes and the passing of time.                                    *)
(***************************************************************************)

\* POST /devices inserts a row.  The conflict branch, which re-adopts a row of
\* the same account, changes only its name and platform.
RegisterDevice(d) ==
    /\ device[d] = "unborn"
    /\ device' = [device EXCEPT ![d] = "present"]
    /\ UNCHANGED <<codes, pairs, connvars, inbox, req, res, flush>>

\* DELETE /devices/:id.  ON DELETE CASCADE takes the codes and the pairs of
\* the device with it in the same statement; its socket stays open.
DeleteDevice(d) ==
    /\ Present(d)
    /\ device' = [device EXCEPT ![d] = "deleted"]
    /\ codes' = [c \in CodeId |-> IF codes[c].mac = d
                                  THEN [codes[c] EXCEPT !.status = "gone"]
                                  ELSE codes[c]]
    /\ pairs' = [p \in PairId |-> IF Exists(p) /\ d \in Ends(p)
                                  THEN [pairs[p] EXCEPT !.status = "gone"]
                                  ELSE pairs[p]]
    /\ UNCHANGED <<connvars, inbox, req, res, flush>>

\* Mutant: the device type is not looked at.
MayMintAny(d) == Present(d)

\* A row of the caller (any device serves its own owner here) of type 'mac'.
MayMint(d) == Present(d) /\ d \in Mac

\* POST /pairing/request for a Mac of the caller.  The lookup and the insert
\* are one step: a deletion between them makes the insert fail on its foreign
\* key and leaves no trace.
MintCode(m, c, h) ==
    /\ MayMint(m)
    /\ codes[c].status = "none"
    /\ codes' = [codes EXCEPT ![c] = [status |-> "fresh", mac |-> m,
                                      user |-> Owner[m], hash |-> h]]
    /\ UNCHANGED <<device, pairs, connvars, inbox, req, res, flush>>

\* The five minutes of a code are over.
ExpireCode(c) ==
    /\ codes[c].status = "fresh"
    /\ codes' = [codes EXCEPT ![c].status = "expired"]
    /\ UNCHANGED <<device, pairs, connvars, inbox, req, res, flush>>

-----------------------------------------------------------------------------
(***************************************************************************)
(* Connections.                                                            *)
(***************************************************************************)

\* Mutant: a Mac whose socket is replaced gets no replay.
ReplaysAfterOffline(d) == d \in Mac /\ registry[d] = None

\* The backlog is replayed to every Mac that connects.
Replays(d) == d \in Mac

\* GET /ws: the preHandler finds the row, then registry.set replaces a prior
\* socket and the backlog of a Mac starts to be replayed.
Connect(d, s) ==
    /\ Present(d)
    /\ deviceOf[s] = None
    /\ deviceOf' = [deviceOf EXCEPT ![s] = d]
    /\ live' = live \cup {s}
    /\ registry' = [registry EXCEPT ![d] = s]
    /\ inbox' = [x \in Socket |-> IF x = registry[d] THEN {} ELSE inbox[x]]
    /\ flush' = IF Replays(d) THEN [flush EXCEPT ![s].at = "list"] ELSE flush
    /\ UNCHANGED <<dbvars, req, res>>

\* The peer closes the socket of d, or it breaks: registry.delete.
Close(d) ==
    /\ registry[d] # None
    /\ live' = live \ {registry[d]}
    /\ registry' = [registry EXCEPT ![d] = None]
    /\ inbox' = [inbox EXCEPT ![registry[d]] = {}]
    /\ UNCHANGED <<dbvars, deviceOf, req, res, flush>>

\* The closing handshake of a replaced socket is over.
HangUp(s) ==
    /\ s \in live
    /\ ~Open(s)
    /\ live' = live \ {s}
    /\ UNCHANGED <<dbvars, deviceOf, registry, inbox, req, res, flush>>

\* The process dies and starts again: sockets and running handlers are lost.
Restart ==
    /\ live'     = {}
    /\ registry' = [d \in Device |-> None]
    /\ inbox'    = [s \in Socket |-> {}]
    /\ req'      = [t \in ReqTask |-> NoReq]
    /\ res'      = [t \in ResTask |-> NoRes]
    /\ flush'    = [s \in Socket |-> NoFlush]
    /\ UNCHANGED <<dbvars, deviceOf>>

-----------------------------------------------------------------------------
(***************************************************************************)
(* flushPendingPairingRequests: list the pending pairs of the Mac, then    *)
(* for each of them look up the remote device and send pair.incoming.      *)
(* The messages go to the socket registered at the moment of sending.      *)
(***************************************************************************)
\* Mutant: the loop stops after its first message.
FirstOnly(todo) == NoFlush

\* The loop goes on with the pairs it has not come to.
NextOf(todo) == IF todo = {} THEN NoFlush
                ELSE [at |-> "look", todo |-> todo, pair |-> None]

\* listPendingDevicePairsForMac
PendingOf(m) == {p \in PairId : pairs[p].status = "pending" /\ pairs[p].mac = m}

FlushList(s) ==
    /\ flush[s].at = "list"
    /\ flush' = [flush EXCEPT ![s] = NextOf(PendingOf(deviceOf[s]))]
    /\ UNCHANGED <<dbvars, connvars, inbox, req, res>>

\* findDeviceById of the remote device; a deleted one is skipped.
FlushLook(s, p) ==
    /\ flush[s].at = "look"
    /\ p \in flush[s].todo
    /\ flush' = [flush EXCEPT ![s] =
                    IF Present(pairs[p].remote)
                    THEN [at |-> "send", todo |-> flush[s].todo \ {p}, pair |-> p]
                    ELSE NextOf(flush[s].todo \ {p})]
    /\ UNCHANGED <<dbvars, connvars, inbox, req, res>>

FlushSend(s) ==
    /\ flush[s].at = "send"
    /\ Deliver({deviceOf[s]}, Incoming(flush[s].pair))
    /\ flush' = [flush EXCEPT ![s] = NextOf(flush[s].todo)]
    /\ UNCHANGED <<dbvars, connvars, req, res>>

-----------------------------------------------------------------------------
(***************************************************************************)
(* handlePairRequest: redeem a code.                                       *)
(***************************************************************************)
RecvRequest(t, s, h) ==
    /\ s \in live
    /\ req[t].at = "idle"
    /\ req' = [req EXCEPT ![t] = [NoReq EXCEPT !.at = "find", !.dev = deviceOf[s],
                                               !.sock = s, !.hash = h]]
    /\ UNCHANGED <<dbvars, connvars, inbox, res, flush>>

\* findDeviceById; an unknown device is answered with an error.
ReqFind(t) ==
    /\ req[t].at = "find"
    /\ req' = [req EXCEPT ![t] = IF Present(req[t].dev)
                                 THEN [req[t] EXCEPT !.at = "consume"]
                                 ELSE NoReq]
    /\ UNCHANGED <<dbvars, connvars, inbox, res, flush>>

\* Mutant: the UPDATE forgets `used_at IS NULL`.
RedeemableTwice(h) ==
    {c \in CodeId : codes[c].status \in {"fresh", "used"} /\ codes[c].hash = h}

Redeemable(h) == {c \in CodeId : codes[c].status = "fresh" /\ codes[c].hash = h}

\* consumePairingCode finds no row: error.
ConsumeNothing(t) ==
    /\ req[t].at = "consume"
    /\ Redeemable(req[t].hash) = {}
    /\ req' = [req EXCEPT ![t] = NoReq]
    /\ UNCHANGED <<dbvars, connvars, inbox, res, flush>>

\* Mutant: the account is not compared.
AnyAccount(d, c) == codes[c].user # None

\* requestingDevice.userId === redeemed.userId
OwnAccount(d, c) == Owner[d] = codes[c].user

\* consumePairingCode marks every row with that hash and returns the first,
\* whichever that is.  A code of another account is spent all the same.
Consume(t, c) ==
    /\ req[t].at = "consume"
    /\ c \in Redeemable(req[t].hash)
    /\ codes' = [x \in CodeId |-> IF x \in Redeemable(req[t].hash)
                                  THEN [codes[x] EXCEPT !.status = "used"]
                                  ELSE codes[x]]
    /\ req' = [req EXCEPT ![t] =
                  IF OwnAccount(req[t].dev, c)
                  THEN [req[t] EXCEPT !.at = "insert", !.code = c, !.mac = codes[c].mac]
                  ELSE NoReq]
    /\ UNCHANGED <<device, pairs, connvars, inbox, res, flush>>

\* Mutant: the partial index leaves the approved rows out.
ConflictPending(m, r) ==
    \E p \in PairId : pairs[p].status = "pending" /\ pairs[p].mac = m /\ pairs[p].remote = r

\* device_pairs_active_unique_idx already holds this Mac and this remote.
Conflict(m, r) == \E p \in PairId : Active(p) /\ pairs[p].mac = m /\ pairs[p].remote = r

\* createPendingDevicePair inserts the row.
InsertPair(t, p) ==
    /\ req[t].at = "insert"
    /\ pairs[p].status = "none"
    /\ req[t].mac # req[t].dev
    /\ Present(req[t].mac) /\ Present(req[t].dev)
    /\ ~Conflict(req[t].mac, req[t].dev)
    /\ pairs' = [pairs EXCEPT ![p] = [status |-> "pending", mac |-> req[t].mac,
                                      remote |-> req[t].dev, code |-> req[t].code]]
    /\ req' = [req EXCEPT ![t].at = "notify", ![t].pair = p]
    /\ UNCHANGED <<device, codes, connvars, inbox, res, flush>>

\* The unique index refuses the row.
InsertConflict(t) ==
    /\ req[t].at = "insert"
    /\ Conflict(req[t].mac, req[t].dev)
    /\ req' = [req EXCEPT ![t].at = "lookup"]
    /\ UNCHANGED <<dbvars, connvars, inbox, res, flush>>

\* The CHECK (a Mac redeeming its own code) or a foreign key (a device deleted
\* meanwhile) refuses the row; the handler throws and nobody is answered.
InsertThrows(t) ==
    /\ req[t].at = "insert"
    /\ \/ req[t].mac = req[t].dev
       \/ ~Present(req[t].mac)
       \/ ~Present(req[t].dev)
    /\ req' = [req EXCEPT ![t] = NoReq]
    /\ UNCHANGED <<dbvars, connvars, inbox, res, flush>>

NotifyMac(t) ==
    /\ req[t].at = "notify"
    /\ Deliver({req[t].mac}, Incoming(req[t].pair))
    /\ req' = [req EXCEPT ![t] = NoReq]
    /\ UNCHANGED <<dbvars, connvars, res, flush>>

ApprovedBetween(m, r) ==
    {p \in PairId : /\ pairs[p].status = "approved"
                    /\ pairs[p].mac = m
                    /\ pairs[p].remote = r}

\* findApprovedPairBetween finds nothing: the request is pending already.
LookupNothing(t) ==
    /\ req[t].at = "lookup"
    /\ ApprovedBetween(req[t].mac, req[t].dev) = {}
    /\ req' = [req EXCEPT ![t] = NoReq]
    /\ UNCHANGED <<dbvars, connvars, inbox, res, flush>>

LookupApproved(t, p) ==
    /\ req[t].at = "lookup"
    /\ p \in ApprovedBetween(req[t].mac, req[t].dev)
    /\ req' = [req EXCEPT ![t].at = "complete", ![t].pair = p]
    /\ UNCHANGED <<dbvars, connvars, inbox, res, flush>>

\* pair.complete to the requesting socket, if it is still open, and to the Mac.
CompleteExisting(t) ==
    /\ req[t].at = "complete"
    /\ Deliver(IF Open(req[t].sock) THEN {req[t].mac, req[t].dev} ELSE {req[t].mac},
               Complete(req[t].pair))
    /\ req' = [req EXCEPT ![t] = NoReq]
    /\ UNCHANGED <<dbvars, connvars, res, flush>>

-----------------------------------------------------------------------------
(***************************************************************************)
(* handlePairResolve: pair.approve and pair.reject.  Any connected device  *)
(* may name any id the server has issued.                                  *)
(***************************************************************************)
RecvResolve(t, s, p, v) ==
    /\ s \in live
    /\ pairs[p].status # "none"
    /\ res[t].at = "idle"
    /\ res' = [res EXCEPT ![t] = [at |-> "find", dev |-> deviceOf[s],
                                  pair |-> p, verdict |-> v]]
    /\ UNCHANGED <<dbvars, connvars, inbox, req, flush>>

\* Mutant: either end of the pair may resolve it.
MayResolveEither(d, p) == Exists(p) /\ d \in Ends(p)

\* pair.macDeviceId === actingDeviceId, on the row just read.
MayResolve(d, p) == Exists(p) /\ pairs[p].mac = d

\* findDevicePairById; only the pair's Mac goes on.
ResFind(t) ==
    /\ res[t].at = "find"
    /\ res' = [res EXCEPT ![t] =
                  IF MayResolve(res[t].dev, res[t].pair)
                  THEN [res[t] EXCEPT !.at = "update"]
                  ELSE NoRes]
    /\ UNCHANGED <<dbvars, connvars, inbox, req, flush>>

\* Mutant: the UPDATE trusts the row read one statement earlier.
ResolvableIfExists(p) == Exists(p)

\* WHERE id = $1 AND status = 'pending'
Resolvable(p) == pairs[p].status = "pending"

\* resolveDevicePair
ResUpdate(t) ==
    /\ res[t].at = "update"
    /\ Resolvable(res[t].pair)
    /\ pairs' = [pairs EXCEPT ![res[t].pair].status = res[t].verdict]
    /\ res' = [res EXCEPT ![t].at = "send"]
    /\ UNCHANGED <<device, codes, connvars, inbox, req, flush>>

\* The row is no longer pending: error.
ResTooLate(t) ==
    /\ res[t].at = "update"
    /\ ~Resolvable(res[t].pair)
    /\ res' = [res EXCEPT ![t] = NoRes]
    /\ UNCHANGED <<dbvars, connvars, inbox, req, flush>>

ResSend(t) ==
    /\ res[t].at = "send"
    /\ LET p == res[t].pair
       IN  IF res[t].verdict = "approved"
           THEN Deliver(Ends(p), Complete(p))
           ELSE Deliver({pairs[p].remote}, Reject(p))
    /\ res' = [res EXCEPT ![t] = NoRes]
    /\ UNCHANGED <<dbvars, connvars, req, flush>>

-----------------------------------------------------------------------------
(***************************************************************************)
(* A statement fails (pool exhausted, connection lost): the rejected       *)
(* promise ends the handler, is logged, and nothing is sent.  The          *)
(* statement may have taken effect, so the steps that only send, "notify", *)
(* "complete" and "send", can be lost to the failure too.  Where a prompt  *)
(* is lost, "failed" records it with the socket it was meant for: such a   *)
(* task serves no other request until the next restart, which bounds the   *)
(* failures that lose a prompt.                                            *)
(***************************************************************************)
FailReq(t) ==
    /\ t \in MayFail
    /\ req[t].at \notin {"idle", "failed"}
    /\ req' = [req EXCEPT ![t] = IF req[t].at = "notify"
                                THEN [NoReq EXCEPT !.at   = "failed",
                                                   !.pair = req[t].pair,
                                                   !.sock = registry[req[t].mac]]
                                ELSE NoReq]
    /\ UNCHANGED <<dbvars, connvars, inbox, res, flush>>

FailRes(t) ==
    /\ t \in MayFail
    /\ res[t].at # "idle"
    /\ res' = [res EXCEPT ![t] = NoRes]
    /\ UNCHANGED <<dbvars, connvars, inbox, req, flush>>

FailFlush(s) ==
    /\ s \in MayFail
    /\ flush[s].at \in {"list", "look", "send"}
    /\ flush' = [flush EXCEPT ![s] = [NoFlush EXCEPT !.at = "failed"]]
    /\ UNCHANGED <<dbvars, connvars, inbox, req, res>>

-----------------------------------------------------------------------------
ReqStep(t) ==
    \/ ReqFind(t)
    \/ ConsumeNothing(t)
    \/ \E c \in CodeId : Consume(t, c)
    \/ \E p \in PairId : InsertPair(t, p)
    \/ InsertConflict(t)
    \/ InsertThrows(t)
    \/ NotifyMac(t)
    \/ LookupNothing(t)
    \/ \E p \in PairId : LookupApproved(t, p)
    \/ CompleteExisting(t)

ResStep(t) == ResFind(t) \/ ResUpdate(t) \/ ResTooLate(t) \/ ResSend(t)

FlushStep(s) ==
    \/ FlushList(s)
    \/ \E p \in PairId : FlushLook(s, p)
    \/ FlushSend(s)

Environment ==
    \/ \E d \in Device : RegisterDevice(d)
    \/ \E d \in Device : DeleteDevice(d)
    \/ \E m \in Device, c \in CodeId, h \in Hash : MintCode(m, c, h)
    \/ \E c \in CodeId : ExpireCode(c)
    \/ \E d \in Device, s \in Socket : Connect(d, s)
    \/ \E d \in Device : Close(d)
    \/ \E s \in Socket : HangUp(s)
    \/ Restart
    \/ \E t \in ReqTask, s \in Socket, h \in Hash : RecvRequest(t, s, h)
    \/ \E t \in ResTask, s \in Socket, p \in PairId, v \in Verdict :
           RecvResolve(t, s, p, v)
    \/ \E t \in ReqTask : FailReq(t)
    \/ \E t \in ResTask : FailRes(t)
    \/ \E s \in Socket : FailFlush(s)

Next ==
    \/ Environment
    \/ \E t \in ReqTask : ReqStep(t)
    \/ \E t \in ResTask : ResStep(t)
    \/ \E s \in Socket : FlushStep(s)

Spec == Init /\ [][Next]_vars

(***************************************************************************)
(* A handler that can run does: Postgres answers every statement and the   *)
(* event loop runs every continuation.  Nothing is assumed of the users,   *)
(* of their devices or of the network.                                     *)
(***************************************************************************)
Fairness ==
    /\ \A t \in ReqTask : WF_vars(ReqStep(t))
    /\ \A t \in ResTask : WF_vars(ResStep(t))
    /\ \A s \in Socket : WF_vars(FlushStep(s))

FairSpec == Spec /\ Fairness

-----------------------------------------------------------------------------
(***************************************************************************)
(* Properties.                                                             *)
(***************************************************************************)

\* The type invariant: every table, map and handler holds what it should.
TypeOK ==
    /\ device   \in [Device -> {"unborn", "present", "deleted"}]
    /\ codes    \in [CodeId -> CodeRow]
    /\ pairs    \in [PairId -> PairRow]
    /\ deviceOf \in [Socket -> Device \cup {None}]
    /\ live     \subseteq {s \in Socket : deviceOf[s] # None}
    /\ registry \in [Device -> Socket \cup {None}]
    /\ inbox    \in [Socket -> SUBSET Note]
    /\ req      \in [ReqTask -> ReqRec]
    /\ res      \in [ResTask -> ResRec]
    /\ flush    \in [Socket -> FlushRec]

\* A pairing code opens at most one pair, however many redemptions of it run
\* at once (the single UPDATE of consumePairingCode).
CodeBacksOnePair ==
    \A p, q \in PairId :
        pairs[p].status # "none" /\ pairs[q].status # "none" /\ p # q
            => pairs[p].code # pairs[q].code

\* A pair joins a Mac to another device of the same account, even when codes
\* of two accounts hash alike and one UPDATE spends both.
SameAccount ==
    \A p \in PairId :
        pairs[p].status # "none" =>
            /\ pairs[p].mac \in Mac
            /\ pairs[p].mac # pairs[p].remote
            /\ Owner[pairs[p].mac] = Owner[pairs[p].remote]

\* What a device has been told on its open socket is true of the table, though
\* every message is sent one await after the statement it reports: a prompt
\* goes to the pair's Mac, a completion to the two ends of a pair that was
\* approved, a rejection to the remote of one that was rejected.
NotesTruthful ==
    \A s \in Socket : \A n \in inbox[s] :
        LET p == n.pair
        IN  /\ n = Incoming(p) => deviceOf[s] = pairs[p].mac
            /\ n = Complete(p) => /\ deviceOf[s] \in Ends(p)
                                  /\ pairs[p].status \in {"approved", "gone"}
            /\ n = Reject(p)   => /\ deviceOf[s] = pairs[p].remote
                                  /\ pairs[p].status \in {"rejected", "gone"}

\* Where the replay of socket s still has pair p before it.
Replaying(s, p) ==
    \/ flush[s].at = "list"
    \/ flush[s].at \in {"look", "send"} /\ p \in flush[s].todo
    \/ flush[s].at = "send" /\ flush[s].pair = p

\* A statement failed on the way of the prompt for pair p to socket s: in the
\* handler that inserted p while s was open, or in the replay of s.
PromptFailed(p, s) ==
    \/ \E t \in ReqTask : req[t].at = "failed" /\ req[t].pair = p /\ req[t].sock = s
    \/ flush[s].at = "failed"

\* No pairing request is lost between the live message and the replay on
\* connect: while a pair is pending and its Mac has an open socket, either the
\* prompt was sent on that socket, or the handler that inserted the pair has
\* yet to send it, or the replay started by that socket still comes to it, or
\* a statement of one of the two has failed.
NoLostRequest ==
    \A p \in PairId : \A s \in Socket :
        /\ pairs[p].status = "pending"
        /\ registry[pairs[p].mac] = s
        => \/ Incoming(p) \in inbox[s]
           \/ \E t \in ReqTask : req[t].at = "notify" /\ req[t].pair = p
           \/ Replaying(s, p)
           \/ PromptFailed(p, s)

\* A pair becomes approved only by the pair.approve of its own Mac: the acting
\* device was compared with a row read one statement before the UPDATE.
ApprovedByMac ==
    [][\A p \in PairId :
          pairs'[p].status = "approved" /\ pairs[p].status # "approved" =>
              \E t \in ResTask : /\ res[t].at = "update"
                                 /\ res[t].pair = p
                                 /\ res[t].dev = pairs[p].mac
                                 /\ res[t].verdict = "approved"]_vars

\* A pending pair whose Mac keeps its socket open is brought before the user of
\* that Mac, unless the pair is settled or removed first or a statement on the
\* way of the prompt fails.
PendingReachesMac ==
    \A p \in PairId : \A s \in Socket :
        (pairs[p].status = "pending" /\ registry[pairs[p].mac] = s)
            ~> (\/ Incoming(p) \in inbox[s]
                \/ PromptFailed(p, s)
                \/ pairs[p].status # "pending"
                \/ registry[pairs[p].mac] # s)

\* The two tables only change as PairLedger allows.
Ledger == INSTANCE PairLedger
ImplementsLedger == Ledger!Spec

=============================================================================
