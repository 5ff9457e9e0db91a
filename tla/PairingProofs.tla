--------------------------- MODULE PairingProofs ---------------------------
(***************************************************************************)
(* Proofs about Pairing, for any accounts, devices, codes, pairs, sockets  *)
(* and numbers of handlers running at once.                                *)
(***************************************************************************)
EXTENDS Pairing, TLAPS

-----------------------------------------------------------------------------
(***************************************************************************)
(* The inductive invariant, in named parts.  Each part says what a handler *)
(* that read the tables one or more statements ago may still rely on.      *)
(***************************************************************************)

\* A socket in the registry was opened by the device it is registered for.
RegistryOwn == \A d \in Device : registry[d] # None => deviceOf[registry[d]] = d

\* A code names a Mac and the account that owns it; a row that is not there
\* names nobody.
CodesOwned ==
    \A c \in CodeId :
        IF codes[c].status = "none" THEN codes[c].mac = None
        ELSE codes[c].mac \in Mac /\ codes[c].user = Owner[codes[c].mac]

\* A pair stands on a spent code of its Mac and of the remote's account.
PairsBacked ==
    \A p \in PairId : pairs[p].status # "none" =>
        /\ pairs[p].code \in CodeId
        /\ codes[pairs[p].code].status \in {"used", "gone"}
        /\ pairs[p].mac = codes[pairs[p].code].mac
        /\ pairs[p].mac \in Mac
        /\ pairs[p].remote \in Device
        /\ pairs[p].remote # pairs[p].mac
        /\ Owner[pairs[p].remote] = codes[pairs[p].code].user

\* The foreign keys: the devices of a row that exists are there.
Referential == \A p \in PairId : Exists(p) => \A d \in Ends(p) : Present(d)

\* The cascade: a code is gone because its Mac is.
GoneWithMac == \A c \in CodeId : codes[c].status = "gone" => device[codes[c].mac] = "deleted"

\* A redemption past the UPDATE holds a spent code that nobody else holds and
\* no pair stands on.
RedemptionExclusive ==
    \A t \in ReqTask : req[t].at = "insert" =>
        /\ req[t].code \in CodeId
        /\ codes[req[t].code].status \in {"used", "gone"}
        /\ req[t].mac = codes[req[t].code].mac
        /\ Owner[req[t].dev] = codes[req[t].code].user
        /\ \A p \in PairId : pairs[p].status # "none" => pairs[p].code # req[t].code
        /\ \A u \in ReqTask \ {t} : req[u].at = "insert" => req[u].code # req[t].code

\* What a pair.request handler knows of its caller and of the pair it reports.
ReqKnows(t) ==
    /\ req[t].at \notin {"idle", "failed"} =>
           /\ req[t].dev \in Device
           /\ req[t].sock \in Socket
           /\ deviceOf[req[t].sock] = req[t].dev
    /\ req[t].at \in {"insert", "lookup", "notify", "complete"} => req[t].mac \in Device
    /\ req[t].at = "notify" =>
           /\ req[t].pair \in PairId
           /\ pairs[req[t].pair].status # "none"
           /\ pairs[req[t].pair].mac = req[t].mac
    /\ req[t].at = "complete" =>
           /\ req[t].pair \in PairId
           /\ pairs[req[t].pair].status \in {"approved", "gone"}
           /\ pairs[req[t].pair].mac = req[t].mac
           /\ pairs[req[t].pair].remote = req[t].dev

ReqInv == \A t \in ReqTask : ReqKnows(t)

\* What a pair.approve or pair.reject handler knows of the pair it resolves.
ResKnows(t) ==
    res[t].at # "idle" =>
        /\ res[t].dev \in Device
        /\ res[t].pair \in PairId
        /\ res[t].verdict \in Verdict
        /\ pairs[res[t].pair].status # "none"
        /\ res[t].at = "update" => pairs[res[t].pair].mac = res[t].dev
        /\ res[t].at = "send" => pairs[res[t].pair].status \in {res[t].verdict, "gone"}

ResInv == \A t \in ResTask : ResKnows(t)

\* What a replay knows of the pairs before it.
FlushKnows(s) ==
    flush[s].at # "idle" =>
        /\ deviceOf[s] \in Device
        /\ flush[s].at # "list" =>
               \A p \in flush[s].todo : /\ pairs[p].status # "none"
                                        /\ pairs[p].mac = deviceOf[s]
        /\ flush[s].at = "send" => /\ flush[s].pair \in PairId
                                   /\ pairs[flush[s].pair].status # "none"
                                   /\ pairs[flush[s].pair].mac = deviceOf[s]

FlushInv == \A s \in Socket : FlushKnows(s)

\* Messages name pairs that exist.
NotesNamed == \A s \in Socket : \A n \in inbox[s] : pairs[n.pair].status # "none"

TableInv ==
    TypeOK /\ RegistryOwn /\ CodesOwned /\ PairsBacked /\ Referential /\ GoneWithMac

IInv ==
    /\ TableInv
    /\ RedemptionExclusive
    /\ CodeBacksOnePair
    /\ ReqInv
    /\ ResInv
    /\ FlushInv
    /\ NotesNamed
    /\ NotesTruthful

-----------------------------------------------------------------------------
(***************************************************************************)
(* Which steps touch which table, and how the rows may evolve.             *)
(***************************************************************************)

\* The steps that write pairing_codes.
LEMMA CodesFrame ==
    ASSUME [Next]_vars
    PROVE  \/ UNCHANGED codes
           \/ \E d \in Device : DeleteDevice(d)
           \/ \E m \in Device, c \in CodeId, h \in Hash : MintCode(m, c, h)
           \/ \E c \in CodeId : ExpireCode(c)
           \/ \E t \in ReqTask, c \in CodeId : Consume(t, c)
  BY DEF Next, Environment, ReqStep, ResStep, FlushStep, vars, dbvars,
         RegisterDevice, Connect, Close, HangUp, Restart, RecvRequest, RecvResolve,
         FailReq, FailRes, FailFlush, ReqFind, ConsumeNothing, InsertPair,
         InsertConflict, InsertThrows, NotifyMac, LookupNothing, LookupApproved,
         CompleteExisting, ResFind, ResUpdate, ResTooLate, ResSend,
         FlushList, FlushLook, FlushSend

\* The steps that write device_pairs.
LEMMA PairsFrame ==
    ASSUME [Next]_vars
    PROVE  \/ UNCHANGED pairs
           \/ \E d \in Device : DeleteDevice(d)
           \/ \E t \in ReqTask, p \in PairId : InsertPair(t, p)
           \/ \E t \in ResTask : ResUpdate(t)
  BY DEF Next, Environment, ReqStep, ResStep, FlushStep, vars, dbvars,
         RegisterDevice, MintCode, ExpireCode, Connect, Close, HangUp, Restart,
         RecvRequest, RecvResolve,
         FailReq, FailRes, FailFlush, ReqFind, ConsumeNothing, Consume,
         InsertConflict, InsertThrows, NotifyMac, LookupNothing, LookupApproved,
         CompleteExisting, ResFind, ResTooLate, ResSend,
         FlushList, FlushLook, FlushSend

\* The steps that write devices, and the one that deletes.
LEMMA DevicesFrame ==
    ASSUME [Next]_vars
    PROVE  \/ UNCHANGED device
           \/ \E d \in Device : RegisterDevice(d)
           \/ \E d \in Device : DeleteDevice(d)
  BY DEF Next, Environment, ReqStep, ResStep, FlushStep, vars, dbvars,
         MintCode, ExpireCode, Connect, Close, HangUp, Restart, RecvRequest, RecvResolve,
         FailReq, FailRes, FailFlush, ReqFind, ConsumeNothing, Consume, InsertPair,
         InsertConflict, InsertThrows, NotifyMac, LookupNothing, LookupApproved,
         CompleteExisting, ResFind, ResUpdate, ResTooLate, ResSend,
         FlushList, FlushLook, FlushSend

\* A row, once inserted, keeps its devices and its code; its status moves from
\* pending to a verdict, and from anywhere to gone.
LEMMA PairsEvolve ==
    ASSUME TypeOK, ResInv, [Next]_vars, NEW p \in PairId, pairs[p].status # "none"
    PROVE  /\ pairs'[p].status # "none"
           /\ pairs'[p].mac = pairs[p].mac
           /\ pairs'[p].remote = pairs[p].remote
           /\ pairs'[p].code = pairs[p].code
           /\ pairs[p].status # "pending" => pairs'[p].status \in {pairs[p].status, "gone"}
<1>1. CASE UNCHANGED pairs
  BY <1>1
<1>2. ASSUME NEW d \in Device, DeleteDevice(d)
      PROVE  /\ pairs'[p].status # "none"
             /\ pairs'[p] \in {pairs[p], [pairs[p] EXCEPT !.status = "gone"]}
  BY <1>2 DEF DeleteDevice, TypeOK, PairRow
<1>3. ASSUME NEW t \in ReqTask, NEW q \in PairId, InsertPair(t, q)
      PROVE  pairs'[p] = pairs[p]
  BY <1>3 DEF InsertPair, TypeOK
<1>4. ASSUME NEW t \in ResTask, ResUpdate(t)
      PROVE  \/ pairs'[p] = pairs[p]
             \/ /\ pairs[p].status = "pending"
                /\ \E v \in Verdict : pairs'[p] = [pairs[p] EXCEPT !.status = v]
  BY <1>4 DEF ResUpdate, Resolvable, ResInv, ResKnows, TypeOK
<1>5. QED
  BY <1>1, <1>2, <1>3, <1>4, PairsFrame DEF TypeOK, PairRow, Verdict

-----------------------------------------------------------------------------
\* The updates a redeeming handler makes to its locals stay within their type.
LEMMA ReqRecUpdates ==
    /\ NoReq \in ReqRec
    /\ \A r \in ReqRec : [r EXCEPT !.at = "consume"] \in ReqRec
    /\ \A r \in ReqRec, c \in CodeId, m \in Device \cup {None} :
          [r EXCEPT !.at = "insert", !.code = c, !.mac = m] \in ReqRec
    /\ \A r \in ReqRec, p \in PairId, at \in {"notify", "complete"} :
          [r EXCEPT !.at = at, !.pair = p] \in ReqRec
<1>1. NoReq \in ReqRec
  BY DEF NoReq, ReqRec
<1>2. \A r \in ReqRec : [r EXCEPT !.at = "consume"] \in ReqRec
  BY DEF ReqRec
<1>3. \A r \in ReqRec, c \in CodeId, m \in Device \cup {None} :
          [r EXCEPT !.at = "insert", !.code = c, !.mac = m] \in ReqRec
  BY DEF ReqRec
<1>4. \A r \in ReqRec, p \in PairId, at \in {"notify", "complete"} :
          [r EXCEPT !.at = at, !.pair = p] \in ReqRec
  BY DEF ReqRec
<1>5. QED
  BY <1>1, <1>2, <1>3, <1>4

\* Every step keeps the tables, maps and handlers well typed.
LEMMA TypeStep ==
    ASSUME TypeOK, ReqInv, ResInv, FlushInv, [Next]_vars
    PROVE  TypeOK'
<1>1. ASSUME NEW d \in Device, RegisterDevice(d)
      PROVE  TypeOK'
  BY <1>1 DEF RegisterDevice, TypeOK, dbvars, connvars
<1>2. ASSUME NEW d \in Device, DeleteDevice(d)
      PROVE  TypeOK'
  <2>1. \A c \in CodeId : [codes[c] EXCEPT !.status = "gone"] \in CodeRow
    BY DEF TypeOK, CodeRow, CodeStatus
  <2>2. \A p \in PairId : [pairs[p] EXCEPT !.status = "gone"] \in PairRow
    BY DEF TypeOK, PairRow, PairStatus
  <2>3. /\ device' \in [Device -> {"unborn", "present", "deleted"}]
        /\ UNCHANGED <<deviceOf, live, registry, inbox, req, res, flush>>
    BY <1>2 DEF DeleteDevice, TypeOK, connvars
  <2>4. codes' \in [CodeId -> CodeRow]
    BY <1>2, <2>1 DEF DeleteDevice, TypeOK
  <2>5. pairs' \in [PairId -> PairRow]
    BY <1>2, <2>2 DEF DeleteDevice, TypeOK
  <2>6. QED
    BY <2>3, <2>4, <2>5 DEF TypeOK
<1>3. ASSUME NEW m \in Device, NEW c \in CodeId, NEW h \in Hash, MintCode(m, c, h)
      PROVE  TypeOK'
  BY <1>3, OwnerAssumption DEF MintCode, TypeOK, connvars, CodeRow, CodeStatus, MayMint
<1>4. ASSUME NEW c \in CodeId, ExpireCode(c)
      PROVE  TypeOK'
  BY <1>4 DEF ExpireCode, TypeOK, connvars, CodeRow, CodeStatus
<1>5. ASSUME NEW d \in Device, NEW s \in Socket, Connect(d, s)
      PROVE  TypeOK'
  <2>1. live' \subseteq {x \in Socket : deviceOf'[x] # None}
    BY <1>5, NoneAssumption DEF Connect, TypeOK
  <2>2. /\ deviceOf' \in [Socket -> Device \cup {None}]
        /\ registry' \in [Device -> Socket \cup {None}]
        /\ inbox' \in [Socket -> SUBSET Note]
    BY <1>5 DEF Connect, TypeOK
  <2>3. flush' \in [Socket -> FlushRec]
    <3>1. [flush[s] EXCEPT !.at = "list"] \in FlushRec
      BY DEF TypeOK, FlushRec
    <3>2. QED
      BY <1>5, <3>1 DEF Connect, TypeOK
  <2>4. UNCHANGED <<device, codes, pairs, req, res>>
    BY <1>5 DEF Connect, dbvars
  <2>5. QED
    BY <2>1, <2>2, <2>3, <2>4 DEF TypeOK
<1>6. ASSUME NEW d \in Device, Close(d)
      PROVE  TypeOK'
  BY <1>6 DEF Close, TypeOK, dbvars, connvars
<1>7. ASSUME NEW s \in Socket, HangUp(s)
      PROVE  TypeOK'
  BY <1>7 DEF HangUp, TypeOK, dbvars, connvars
<1>8. CASE Restart
  BY <1>8 DEF Restart, TypeOK, dbvars, ReqRec, NoReq, ResRec, NoRes, FlushRec, NoFlush
<1>9. ASSUME NEW t \in ReqTask, NEW s \in Socket, NEW h \in Hash, RecvRequest(t, s, h)
      PROVE  TypeOK'
  BY <1>9 DEF RecvRequest, TypeOK, dbvars, connvars, ReqRec, NoReq
<1>10. ASSUME NEW t \in ResTask, NEW s \in Socket, NEW p \in PairId, NEW v \in Verdict,
              RecvResolve(t, s, p, v)
       PROVE  TypeOK'
  BY <1>10 DEF RecvResolve, TypeOK, dbvars, connvars, ResRec
<1>11. ASSUME NEW t \in ReqTask, FailReq(t)
      PROVE  TypeOK'
  BY <1>11 DEF FailReq, TypeOK, ReqInv, ReqKnows, dbvars, connvars, ReqRec, NoReq
<1>12. ASSUME NEW t \in ResTask, FailRes(t)
      PROVE  TypeOK'
  BY <1>12 DEF FailRes, TypeOK, dbvars, connvars, ResRec, NoRes
<1>13. ASSUME NEW s \in Socket, FailFlush(s)
      PROVE  TypeOK'
  BY <1>13 DEF FailFlush, TypeOK, dbvars, connvars, FlushRec, NoFlush
<1>14. ASSUME NEW t \in ReqTask, ReqFind(t)
      PROVE  TypeOK'
  <2>0. req[t] \in ReqRec
    BY DEF TypeOK
  <2>1. NoReq \in ReqRec /\ [req[t] EXCEPT !.at = "consume"] \in ReqRec
    BY <2>0, ReqRecUpdates
  <2>2. QED
    BY <1>14, <2>1 DEF ReqFind, TypeOK, dbvars, connvars
<1>15. ASSUME NEW t \in ReqTask, ConsumeNothing(t)
      PROVE  TypeOK'
  BY <1>15 DEF ConsumeNothing, TypeOK, dbvars, connvars, ReqRec, NoReq
<1>16. ASSUME NEW t \in ReqTask, NEW c \in CodeId, Consume(t, c)
      PROVE  TypeOK'
  <2>1. \A x \in CodeId : [codes[x] EXCEPT !.status = "used"] \in CodeRow
    BY DEF TypeOK, CodeRow, CodeStatus
  <2>2. codes[c].mac \in Device \cup {None}
    BY MacAssumption DEF TypeOK, CodeRow
  <2>0. req[t] \in ReqRec
    BY DEF TypeOK
  <2>3. /\ NoReq \in ReqRec
        /\ [req[t] EXCEPT !.at = "insert", !.code = c, !.mac = codes[c].mac] \in ReqRec
    BY <2>0, <2>2, ReqRecUpdates
  <2>4. codes' \in [CodeId -> CodeRow] /\ req' \in [ReqTask -> ReqRec]
    BY <1>16, <2>1, <2>3 DEF Consume, TypeOK
  <2>5. UNCHANGED <<device, pairs, deviceOf, live, registry, inbox, res, flush>>
    BY <1>16 DEF Consume, connvars
  <2>6. QED
    BY <2>4, <2>5 DEF TypeOK
<1>17. ASSUME NEW t \in ReqTask, NEW p \in PairId, InsertPair(t, p)
      PROVE  TypeOK'
  <2>1. [status |-> "pending", mac |-> req[t].mac, remote |-> req[t].dev,
         code |-> req[t].code] \in PairRow
    BY DEF TypeOK, ReqRec, PairRow, PairStatus
  <2>0. req[t] \in ReqRec
    BY DEF TypeOK
  <2>2. [req[t] EXCEPT !.at = "notify", !.pair = p] \in ReqRec
    BY <2>0, ReqRecUpdates
  <2>3. /\ pairs' \in [PairId -> PairRow]
        /\ req' \in [ReqTask -> ReqRec]
    <3>1. pairs \in [PairId -> PairRow] /\ req \in [ReqTask -> ReqRec]
      BY DEF TypeOK
    <3>2. /\ pairs' = [pairs EXCEPT ![p] = [status |-> "pending", mac |-> req[t].mac,
                                            remote |-> req[t].dev, code |-> req[t].code]]
          /\ req' = [req EXCEPT ![t] = [req[t] EXCEPT !.at = "notify", !.pair = p]]
      BY <1>17 DEF InsertPair
    <3>3. QED
      BY <2>1, <2>2, <3>1, <3>2
  <2>4. UNCHANGED <<device, codes, deviceOf, live, registry, inbox, res, flush>>
    BY <1>17 DEF InsertPair, connvars
  <2>5. QED
    BY <2>3, <2>4 DEF TypeOK
<1>18. ASSUME NEW t \in ReqTask, InsertConflict(t)
      PROVE  TypeOK'
  BY <1>18 DEF InsertConflict, TypeOK, dbvars, connvars, ReqRec, NoReq
<1>19. ASSUME NEW t \in ReqTask, InsertThrows(t)
      PROVE  TypeOK'
  BY <1>19 DEF InsertThrows, TypeOK, dbvars, connvars, ReqRec, NoReq
<1>20. ASSUME NEW t \in ReqTask, NotifyMac(t)
      PROVE  TypeOK'
  BY <1>20
     DEF NotifyMac, TypeOK, ReqInv, ReqKnows, dbvars, connvars, ReqRec, NoReq, Deliver, Note,
         Incoming
<1>21. ASSUME NEW t \in ReqTask, LookupNothing(t)
      PROVE  TypeOK'
  BY <1>21 DEF LookupNothing, TypeOK, dbvars, connvars, ReqRec, NoReq
<1>22. ASSUME NEW t \in ReqTask, NEW p \in PairId, LookupApproved(t, p)
      PROVE  TypeOK'
  <2>0. req[t] \in ReqRec
    BY DEF TypeOK
  <2>1. [req[t] EXCEPT !.at = "complete", !.pair = p] \in ReqRec
    BY <2>0, ReqRecUpdates
  <2>2. QED
    BY <1>22, <2>1 DEF LookupApproved, TypeOK, dbvars, connvars
<1>23. ASSUME NEW t \in ReqTask, CompleteExisting(t)
      PROVE  TypeOK'
  BY <1>23
     DEF CompleteExisting, TypeOK, ReqInv, ReqKnows, dbvars, connvars, ReqRec, NoReq, Deliver,
         Note, Complete
<1>24. ASSUME NEW t \in ResTask, ResFind(t)
      PROVE  TypeOK'
  BY <1>24 DEF ResFind, TypeOK, dbvars, connvars, ResRec, NoRes
<1>25. ASSUME NEW t \in ResTask, ResUpdate(t)
      PROVE  TypeOK'
  <2>1. res[t].pair \in PairId /\ res[t].verdict \in Verdict
    BY <1>25 DEF ResUpdate, ResInv, ResKnows
  <2>2. [pairs[res[t].pair] EXCEPT !.status = res[t].verdict] \in PairRow
    BY <2>1 DEF TypeOK, PairRow, PairStatus, Verdict
  <2>3. [res[t] EXCEPT !.at = "send"] \in ResRec
    BY DEF TypeOK, ResRec
  <2>4. QED
    BY <1>25, <2>2, <2>3 DEF ResUpdate, TypeOK, connvars
<1>26. ASSUME NEW t \in ResTask, ResTooLate(t)
      PROVE  TypeOK'
  BY <1>26 DEF ResTooLate, TypeOK, dbvars, connvars, ResRec, NoRes
<1>27. ASSUME NEW t \in ResTask, ResSend(t)
      PROVE  TypeOK'
  BY <1>27
     DEF ResSend, TypeOK, ResInv, ResKnows, dbvars, connvars, ResRec, NoRes, Deliver, Note,
         Complete, Reject
<1>28. ASSUME NEW s \in Socket, FlushList(s)
      PROVE  TypeOK'
  BY <1>28 DEF FlushList, TypeOK, dbvars, connvars, FlushRec, NextOf, NoFlush, PendingOf
<1>29. ASSUME NEW s \in Socket, NEW p \in PairId, FlushLook(s, p)
      PROVE  TypeOK'
  BY <1>29 DEF FlushLook, TypeOK, dbvars, connvars, FlushRec, NextOf, NoFlush
<1>30. ASSUME NEW s \in Socket, FlushSend(s)
      PROVE  TypeOK'
  BY <1>30
     DEF FlushSend, TypeOK, FlushInv, FlushKnows, dbvars, connvars, FlushRec, NextOf, NoFlush,
         Deliver, Note, Incoming
<1>31. CASE UNCHANGED vars
  BY <1>31 DEF vars, TypeOK, dbvars, connvars
<1>32. QED
  BY <1>1, <1>2, <1>3, <1>4, <1>5, <1>6, <1>7, <1>8, <1>9, <1>10, <1>11, <1>12, <1>13,
     <1>14, <1>15, <1>16, <1>17, <1>18, <1>19, <1>20, <1>21, <1>22, <1>23, <1>24,
     <1>25, <1>26, <1>27, <1>28, <1>29, <1>30, <1>31
     DEF Next, Environment, ReqStep, ResStep, FlushStep

-----------------------------------------------------------------------------
(***************************************************************************)
(* How one handler, one replay and one inbox may change in a step.         *)
(***************************************************************************)

\* An account's code row keeps its Mac and its owner; a spent row stays spent.
LEMMA CodesEvolve ==
    ASSUME TypeOK, [Next]_vars, NEW c \in CodeId, codes[c].status # "none"
    PROVE  /\ codes'[c].status # "none"
           /\ codes'[c].mac = codes[c].mac
           /\ codes'[c].user = codes[c].user
           /\ codes[c].status \in {"used", "gone"} => codes'[c].status \in {"used", "gone"}
<1>1. ASSUME NEW d \in Device, DeleteDevice(d)
      PROVE  codes'[c] \in {codes[c], [codes[c] EXCEPT !.status = "gone"]}
  BY <1>1 DEF DeleteDevice
<1>2. ASSUME NEW m \in Device, NEW x \in CodeId, NEW h \in Hash, MintCode(m, x, h)
      PROVE  codes'[c] = codes[c]
  BY <1>2 DEF MintCode, TypeOK
<1>3. ASSUME NEW x \in CodeId, ExpireCode(x)
      PROVE  \/ codes'[c] = codes[c]
             \/ codes[c].status = "fresh" /\ codes'[c] = [codes[c] EXCEPT !.status = "expired"]
  BY <1>3 DEF ExpireCode, TypeOK
<1>4. ASSUME NEW t \in ReqTask, NEW x \in CodeId, Consume(t, x)
      PROVE  codes'[c] \in {codes[c], [codes[c] EXCEPT !.status = "used"]}
  BY <1>4 DEF Consume
<1>5. \/ codes'[c] = codes[c]
      \/ \E st \in {"gone", "used"} : codes'[c] = [codes[c] EXCEPT !.status = st]
      \/ codes[c].status = "fresh" /\ codes'[c] = [codes[c] EXCEPT !.status = "expired"]
  BY <1>1, <1>2, <1>3, <1>4, CodesFrame
<1>6. codes[c] \in CodeRow
  BY DEF TypeOK
<1>7. QED
  BY <1>5, <1>6 DEF CodeRow

\* The steps that open, replace or close a socket.
LEMMA ConnFrame ==
    ASSUME [Next]_vars
    PROVE  \/ UNCHANGED connvars
           \/ \E d \in Device, s \in Socket : Connect(d, s)
           \/ \E d \in Device : Close(d)
           \/ \E s \in Socket : HangUp(s)
           \/ Restart
<1>1. CASE Environment
  BY <1>1 DEF Environment, RegisterDevice, DeleteDevice, MintCode, ExpireCode, RecvRequest,
              RecvResolve, FailReq, FailRes, FailFlush
<1>2. ASSUME NEW t \in ReqTask, ReqStep(t)
      PROVE  UNCHANGED connvars
  BY <1>2 DEF ReqStep, ReqFind, ConsumeNothing, Consume, InsertPair, InsertConflict,
              InsertThrows, NotifyMac, LookupNothing, LookupApproved, CompleteExisting
<1>3. ASSUME NEW t \in ResTask, ResStep(t)
      PROVE  UNCHANGED connvars
  BY <1>3 DEF ResStep, ResFind, ResUpdate, ResTooLate, ResSend
<1>4. ASSUME NEW s \in Socket, FlushStep(s)
      PROVE  UNCHANGED connvars
  BY <1>4 DEF FlushStep, FlushList, FlushLook, FlushSend
<1>5. CASE UNCHANGED vars
  BY <1>5 DEF vars, connvars
<1>6. QED
  BY <1>1, <1>2, <1>3, <1>4, <1>5 DEF Next

\* A socket belongs to one device for good.
LEMMA DeviceOfEvolves ==
    ASSUME TypeOK, [Next]_vars, NEW s \in Socket, deviceOf[s] # None
    PROVE  deviceOf'[s] = deviceOf[s]
  BY ConnFrame DEF TypeOK, connvars, Connect, Close, HangUp, Restart

\* The steps that write req: a handler is cleared, or starts, or goes on.
LEMMA ReqFrame ==
    ASSUME [Next]_vars
    PROVE  \/ UNCHANGED req
           \/ req' = [t \in ReqTask |-> NoReq]
           \/ \E t \in ReqTask : req' = [req EXCEPT ![t] = NoReq]
           \/ \E t \in ReqTask, s \in Socket, h \in Hash : RecvRequest(t, s, h)
           \/ \E t \in ReqTask : ReqFind(t)
           \/ \E t \in ReqTask, c \in CodeId : Consume(t, c)
           \/ \E t \in ReqTask, p \in PairId : InsertPair(t, p)
           \/ \E t \in ReqTask : InsertConflict(t)
           \/ \E t \in ReqTask, p \in PairId : LookupApproved(t, p)
           \/ \E t \in ReqTask : FailReq(t)
  BY DEF Next, Environment, ReqStep, ResStep, FlushStep, vars, RegisterDevice,
         DeleteDevice, MintCode, ExpireCode, Connect, Close, HangUp, Restart, RecvResolve,
         FailRes, FailFlush, ConsumeNothing, InsertThrows, NotifyMac,
         LookupNothing, CompleteExisting, ResFind, ResUpdate, ResTooLate, ResSend,
         FlushList, FlushLook, FlushSend

\* A pair.request handler stays, ends, or makes one of its own steps.
LEMMA ReqEvolves ==
    ASSUME TypeOK, [Next]_vars, NEW t \in ReqTask
    PROVE  \/ req'[t] = req[t]
           \/ req'[t] = NoReq
           \/ \E s \in Socket, h \in Hash : RecvRequest(t, s, h)
           \/ ReqFind(t)
           \/ \E c \in CodeId : Consume(t, c)
           \/ \E p \in PairId : InsertPair(t, p)
           \/ InsertConflict(t)
           \/ \E p \in PairId : LookupApproved(t, p)
           \/ FailReq(t)
<1>1. ASSUME NEW q \in ReqTask, req' = [req EXCEPT ![q] = NoReq]
      PROVE  req'[t] = req[t] \/ req'[t] = NoReq
  BY <1>1 DEF TypeOK
<1>2. ASSUME NEW q \in ReqTask, q # t,
             \/ \E s \in Socket, h \in Hash : RecvRequest(q, s, h)
             \/ ReqFind(q)
             \/ \E c \in CodeId : Consume(q, c)
             \/ \E p \in PairId : InsertPair(q, p)
             \/ InsertConflict(q)
             \/ \E p \in PairId : LookupApproved(q, p)
             \/ FailReq(q)
      PROVE  req'[t] = req[t]
  BY <1>2 DEF TypeOK, RecvRequest, ReqFind, Consume, InsertPair, InsertConflict,
              LookupApproved, FailReq
<1>3. QED
  BY <1>1, <1>2, ReqFrame

\* The steps that write res: a handler is cleared, or starts, or goes on.
LEMMA ResFrame ==
    ASSUME [Next]_vars
    PROVE  \/ UNCHANGED res
           \/ res' = [t \in ResTask |-> NoRes]
           \/ \E t \in ResTask : res' = [res EXCEPT ![t] = NoRes]
           \/ \E t \in ResTask, s \in Socket, p \in PairId, v \in Verdict :
                  RecvResolve(t, s, p, v)
           \/ \E t \in ResTask : ResFind(t)
           \/ \E t \in ResTask : ResUpdate(t)
  BY DEF Next, Environment, ReqStep, ResStep, FlushStep, vars, RegisterDevice,
         DeleteDevice, MintCode, ExpireCode, Connect, Close, HangUp, Restart, RecvRequest,
         FailReq, FailRes, FailFlush, ReqFind, ConsumeNothing, Consume, InsertPair,
         InsertConflict, InsertThrows, NotifyMac, LookupNothing, LookupApproved,
         CompleteExisting, ResTooLate, ResSend, FlushList, FlushLook, FlushSend

\* A resolving handler stays, ends, or makes one of its own steps.
LEMMA ResEvolves ==
    ASSUME TypeOK, [Next]_vars, NEW t \in ResTask
    PROVE  \/ res'[t] = res[t]
           \/ res'[t] = NoRes
           \/ \E s \in Socket, p \in PairId, v \in Verdict : RecvResolve(t, s, p, v)
           \/ ResFind(t)
           \/ ResUpdate(t)
<1>1. ASSUME NEW q \in ResTask, res' = [res EXCEPT ![q] = NoRes]
      PROVE  res'[t] = res[t] \/ res'[t] = NoRes
  BY <1>1 DEF TypeOK
<1>2. ASSUME NEW q \in ResTask, q # t,
             \/ \E s \in Socket, p \in PairId, v \in Verdict : RecvResolve(q, s, p, v)
             \/ ResFind(q)
             \/ ResUpdate(q)
      PROVE  res'[t] = res[t]
  BY <1>2 DEF TypeOK, RecvResolve, ResFind, ResUpdate
<1>3. QED
  BY <1>1, <1>2, ResFrame

\* The steps that write flush: a replay is cleared, or starts, or goes on.
LEMMA FlushFrame ==
    ASSUME [Next]_vars
    PROVE  \/ UNCHANGED flush
           \/ flush' = [s \in Socket |-> NoFlush]
           \/ \E s \in Socket : flush' = [flush EXCEPT ![s] = NoFlush]
           \/ \E d \in Device, s \in Socket : Connect(d, s)
           \/ \E s \in Socket : FlushList(s)
           \/ \E s \in Socket, p \in PairId : FlushLook(s, p)
           \/ \E s \in Socket : FlushSend(s)
           \/ \E s \in Socket : FailFlush(s)
  BY DEF Next, Environment, ReqStep, ResStep, FlushStep, vars, RegisterDevice,
         DeleteDevice, MintCode, ExpireCode, Close, HangUp, Restart, RecvRequest, RecvResolve,
         FailReq, FailRes, ReqFind, ConsumeNothing, Consume, InsertPair,
         InsertConflict, InsertThrows, NotifyMac, LookupNothing, LookupApproved,
         CompleteExisting, ResFind, ResUpdate, ResTooLate, ResSend

\* A replay stays, ends, starts with its socket, or makes one of its own steps.
LEMMA FlushEvolves ==
    ASSUME TypeOK, [Next]_vars, NEW s \in Socket
    PROVE  \/ flush'[s] = flush[s]
           \/ flush'[s] = NoFlush
           \/ \E d \in Device : Connect(d, s)
           \/ FlushList(s)
           \/ \E p \in PairId : FlushLook(s, p)
           \/ FlushSend(s)
           \/ FailFlush(s)
<1>1. ASSUME NEW x \in Socket, flush' = [flush EXCEPT ![x] = NoFlush]
      PROVE  flush'[s] = flush[s] \/ flush'[s] = NoFlush
  BY <1>1 DEF TypeOK
<1>2. ASSUME NEW x \in Socket, x # s, NEW d \in Device, Connect(d, x)
      PROVE  flush'[s] = flush[s]
  BY <1>2 DEF TypeOK, Connect
<1>3. ASSUME NEW x \in Socket, x # s, FlushList(x)
      PROVE  flush'[s] = flush[s]
  BY <1>3 DEF TypeOK, FlushList
<1>4. ASSUME NEW x \in Socket, x # s, NEW p \in PairId, FlushLook(x, p)
      PROVE  flush'[s] = flush[s]
  BY <1>4 DEF TypeOK, FlushLook
<1>5. ASSUME NEW x \in Socket, x # s, FlushSend(x)
      PROVE  flush'[s] = flush[s]
  BY <1>5 DEF TypeOK, FlushSend
<1>6. ASSUME NEW x \in Socket, x # s, FailFlush(x)
      PROVE  flush'[s] = flush[s]
  BY <1>6 DEF TypeOK, FailFlush
<1>7. CASE UNCHANGED flush \/ flush' = [x \in Socket |-> NoFlush]
  BY <1>7
<1>8. QED
  BY <1>1, <1>2, <1>3, <1>4, <1>5, <1>6, <1>7, FlushFrame

\* A message appears on a socket only by one of the four sends.
LEMMA InboxEvolves ==
    ASSUME TypeOK, [Next]_vars, NEW s \in Socket, NEW n \in inbox'[s], n \notin inbox[s]
    PROVE  \/ \E t \in ReqTask : NotifyMac(t)
           \/ \E t \in ReqTask : CompleteExisting(t)
           \/ \E t \in ResTask : ResSend(t)
           \/ \E x \in Socket : FlushSend(x)
  BY DEF Next, Environment, ReqStep, ResStep, FlushStep, vars, dbvars, connvars,
         TypeOK, RegisterDevice, DeleteDevice, MintCode, ExpireCode, Connect, Close, HangUp,
         Restart, RecvRequest, RecvResolve, FailReq, FailRes, FailFlush, ReqFind,
         ConsumeNothing, Consume, InsertPair, InsertConflict, InsertThrows,
         LookupNothing, LookupApproved, ResFind, ResUpdate, ResTooLate, FlushList,
         FlushLook

-----------------------------------------------------------------------------
(***************************************************************************)
(* Every part of the invariant is kept by every step.                      *)
(***************************************************************************)

\* Only Connect registers a socket, and it opens that socket for the device.
LEMMA RegistryOwnStep ==
    ASSUME TypeOK, RegistryOwn, [Next]_vars
    PROVE  RegistryOwn'
<1>1. ASSUME NEW d \in Device, NEW s \in Socket, Connect(d, s)
      PROVE  RegistryOwn'
  BY <1>1, NoneAssumption DEF Connect, RegistryOwn, TypeOK
<1>2. ASSUME NEW d \in Device, Close(d)
      PROVE  RegistryOwn'
  BY <1>2 DEF Close, RegistryOwn, TypeOK
<1>3. CASE Restart
  BY <1>3 DEF Restart, RegistryOwn
<1>4. ASSUME NEW s \in Socket, HangUp(s)
      PROVE  RegistryOwn'
  BY <1>4 DEF HangUp, RegistryOwn
<1>5. CASE UNCHANGED connvars
  BY <1>5 DEF connvars, RegistryOwn
<1>6. QED
  BY <1>1, <1>2, <1>3, <1>4, <1>5, ConnFrame

\* A code is only inserted for a Mac, in the name of its owner.
LEMMA CodesOwnedStep ==
    ASSUME TypeOK, CodesOwned, [Next]_vars
    PROVE  CodesOwned'
<1>1. SUFFICES ASSUME NEW c \in CodeId
               PROVE  IF codes'[c].status = "none" THEN codes'[c].mac = None
                      ELSE codes'[c].mac \in Mac /\ codes'[c].user = Owner[codes'[c].mac]
  BY DEF CodesOwned
<1>2. CASE codes[c].status # "none"
  BY <1>2, CodesEvolve DEF CodesOwned
<1>3. ASSUME codes[c].status = "none", NEW d \in Device, DeleteDevice(d)
      PROVE  codes'[c] = codes[c]
  BY <1>3, NoneAssumption DEF DeleteDevice, CodesOwned
<1>4. ASSUME codes[c].status = "none", NEW m \in Device, NEW x \in CodeId, NEW h \in Hash,
             MintCode(m, x, h)
      PROVE  \/ codes'[c] = codes[c]
             \/ /\ codes'[c].status = "fresh"
                /\ codes'[c].mac \in Mac /\ codes'[c].user = Owner[codes'[c].mac]
  BY <1>4 DEF MintCode, MayMint, TypeOK
<1>5. ASSUME codes[c].status = "none", NEW x \in CodeId, ExpireCode(x)
      PROVE  codes'[c] = codes[c]
  BY <1>5 DEF ExpireCode, TypeOK
<1>6. ASSUME codes[c].status = "none", NEW t \in ReqTask, NEW x \in CodeId, Consume(t, x)
      PROVE  codes'[c] = codes[c]
  BY <1>6 DEF Consume, Redeemable
<1>7. QED
  BY <1>2, <1>3, <1>4, <1>5, <1>6, CodesFrame DEF CodesOwned

\* A pair is only inserted by a redemption, which holds what the row needs.
LEMMA PairsBackedStep ==
    ASSUME TypeOK, CodesOwned, PairsBacked, RedemptionExclusive, ReqInv, ResInv, [Next]_vars
    PROVE  PairsBacked'
<1>1. SUFFICES ASSUME NEW p \in PairId, pairs'[p].status # "none"
               PROVE  /\ pairs'[p].code \in CodeId
                      /\ codes'[pairs'[p].code].status \in {"used", "gone"}
                      /\ pairs'[p].mac = codes'[pairs'[p].code].mac
                      /\ pairs'[p].mac \in Mac
                      /\ pairs'[p].remote \in Device
                      /\ pairs'[p].remote # pairs'[p].mac
                      /\ Owner[pairs'[p].remote] = codes'[pairs'[p].code].user
  BY DEF PairsBacked
<1>2. CASE pairs[p].status # "none"
  BY <1>2, PairsEvolve, CodesEvolve DEF PairsBacked
<1>3. CASE pairs[p].status = "none"
  <2>1. ASSUME NEW d \in Device, DeleteDevice(d)
        PROVE  pairs'[p] = pairs[p]
    BY <1>3, <2>1 DEF DeleteDevice, Exists
  <2>2. ASSUME NEW t \in ResTask, ResUpdate(t)
        PROVE  pairs'[p] = pairs[p]
    BY <1>3, <2>2 DEF ResUpdate, Resolvable, TypeOK
  <2>3. PICK t \in ReqTask : InsertPair(t, p)
    <3>1. ASSUME NEW t \in ReqTask, NEW q \in PairId, InsertPair(t, q), q # p
          PROVE  pairs'[p] = pairs[p]
      BY <3>1 DEF InsertPair, TypeOK
    <3>2. QED
      BY <1>1, <1>3, <2>1, <2>2, <3>1, PairsFrame
  <2>4. /\ pairs'[p].mac = req[t].mac
        /\ pairs'[p].remote = req[t].dev
        /\ pairs'[p].code = req[t].code
        /\ req[t].mac # req[t].dev
        /\ req[t].at = "insert"
        /\ codes' = codes
    BY <2>3 DEF InsertPair, TypeOK
  <2>5. /\ req[t].code \in CodeId
        /\ codes[req[t].code].status \in {"used", "gone"}
        /\ req[t].mac = codes[req[t].code].mac
        /\ Owner[req[t].dev] = codes[req[t].code].user
        /\ req[t].dev \in Device
    BY <2>4 DEF RedemptionExclusive, ReqInv, ReqKnows
  <2>6. req[t].mac \in Mac
    BY <2>5 DEF CodesOwned
  <2>7. QED
    BY <2>4, <2>5, <2>6
<1>4. QED
  BY <1>2, <1>3

\* A row is inserted only between devices that are there, and does not survive
\* the deletion of either.
LEMMA ReferentialStep ==
    ASSUME TypeOK, PairsBacked, Referential, ResInv, [Next]_vars
    PROVE  Referential'
<1>1. ASSUME NEW d \in Device, DeleteDevice(d)
      PROVE  Referential'
  <2>1. SUFFICES ASSUME NEW p \in PairId, Exists(p)', NEW e \in Ends(p)'
                 PROVE  device'[e] = "present"
    BY DEF Referential, Present
  <2>2. pairs'[p] = pairs[p] /\ Exists(p) /\ d \notin Ends(p)
    BY <1>1, <2>1 DEF DeleteDevice, Exists, TypeOK, PairRow
  <2>3. e \in Ends(p) /\ e # d /\ e \in Device
    BY <2>1, <2>2, MacAssumption DEF Ends, PairsBacked, Exists
  <2>4. device[e] = "present"
    BY <2>2, <2>3 DEF Referential, Present
  <2>5. QED
    BY <1>1, <2>3, <2>4 DEF DeleteDevice, TypeOK
<1>2. ASSUME NEW d \in Device, RegisterDevice(d)
      PROVE  Referential'
  BY <1>2, MacAssumption
     DEF RegisterDevice, Referential, Exists, Ends, Present, PairsBacked, TypeOK
<1>3. ASSUME NEW t \in ReqTask, NEW q \in PairId, InsertPair(t, q)
      PROVE  Referential'
  <2>1. SUFFICES ASSUME NEW p \in PairId, Exists(p)', NEW e \in Ends(p)'
                 PROVE  device'[e] = "present"
    BY DEF Referential, Present
  <2>2. CASE p = q
    BY <1>3, <2>1, <2>2 DEF InsertPair, Ends, Present, TypeOK
  <2>3. CASE p # q
    BY <1>3, <2>1, <2>3 DEF InsertPair, Ends, Exists, Present, Referential, TypeOK
  <2>4. QED
    BY <2>2, <2>3
<1>4. ASSUME NEW t \in ResTask, ResUpdate(t)
      PROVE  Referential'
  <2>1. SUFFICES ASSUME NEW p \in PairId, Exists(p)', NEW e \in Ends(p)'
                 PROVE  device'[e] = "present"
    BY DEF Referential, Present
  <2>2. Exists(p) /\ Ends(p)' = Ends(p)
    BY <1>4, <2>1 DEF ResUpdate, Resolvable, Exists, Ends, TypeOK, PairRow
  <2>3. QED
    BY <1>4, <2>1, <2>2 DEF ResUpdate, Referential, Present
<1>5. CASE UNCHANGED <<device, pairs>>
  BY <1>5 DEF Referential, Exists, Ends, Present
<1>6. QED
  <2>1. ASSUME NEW d \in Device, RegisterDevice(d)
        PROVE  UNCHANGED pairs
    BY <2>1 DEF RegisterDevice
  <2>2. QED
    BY <1>1, <1>2, <1>3, <1>4, <1>5, <2>1, PairsFrame, DevicesFrame


\* A deleted device stays deleted, and only deletion removes a code.
LEMMA GoneWithMacStep ==
    ASSUME TypeOK, CodesOwned, GoneWithMac, [Next]_vars
    PROVE  GoneWithMac'
<1>1. SUFFICES ASSUME NEW c \in CodeId, codes'[c].status = "gone"
               PROVE  device'[codes'[c].mac] = "deleted"
  BY DEF GoneWithMac
<1>2. ASSUME NEW d \in Device, device[d] = "deleted"
      PROVE  device'[d] = "deleted"
  BY <1>2, DevicesFrame DEF RegisterDevice, DeleteDevice, Present, TypeOK
<1>3. CASE codes[c].status = "gone"
  <2>1. codes[c].mac \in Device /\ codes'[c].mac = codes[c].mac
    BY <1>3, CodesEvolve, MacAssumption DEF CodesOwned
  <2>2. QED
    BY <1>2, <1>3, <2>1 DEF GoneWithMac
<1>4. ASSUME codes[c].status # "gone", NEW d \in Device, DeleteDevice(d)
      PROVE  codes'[c].mac = d /\ device'[d] = "deleted"
  BY <1>1, <1>4 DEF DeleteDevice, TypeOK, CodeRow
<1>5. ASSUME codes[c].status # "gone", NEW m \in Device, NEW x \in CodeId, NEW h \in Hash,
             MintCode(m, x, h)
      PROVE  FALSE
  BY <1>1, <1>5 DEF MintCode, TypeOK
<1>6. ASSUME codes[c].status # "gone", NEW x \in CodeId, ExpireCode(x)
      PROVE  FALSE
  BY <1>1, <1>6 DEF ExpireCode, TypeOK, CodeRow
<1>7. ASSUME codes[c].status # "gone", NEW t \in ReqTask, NEW x \in CodeId, Consume(t, x)
      PROVE  FALSE
  BY <1>1, <1>7 DEF Consume, TypeOK, CodeRow
<1>8. QED
  BY <1>1, <1>3, <1>4, <1>5, <1>6, <1>7, CodesFrame

\* A redemption starts at the UPDATE, with the row it returned.
LEMMA RedemptionStarts ==
    ASSUME TypeOK, [Next]_vars, NEW t \in ReqTask, req'[t].at = "insert"
    PROVE  \/ req'[t] = req[t]
           \/ \E c \in CodeId : /\ Consume(t, c)
                                /\ OwnAccount(req[t].dev, c)
                                /\ req'[t].code = c
                                /\ req'[t].mac = codes[c].mac
                                /\ req'[t].dev = req[t].dev
<1>1. ASSUME NEW c \in CodeId, Consume(t, c)
      PROVE  /\ OwnAccount(req[t].dev, c)
             /\ req'[t].code = c
             /\ req'[t].mac = codes[c].mac
             /\ req'[t].dev = req[t].dev
  BY <1>1 DEF Consume, TypeOK, ReqRec, NoReq
<1>2. ASSUME NEW s \in Socket, NEW h \in Hash, RecvRequest(t, s, h)
      PROVE  FALSE
  BY <1>2 DEF RecvRequest, TypeOK, NoReq
<1>3. ASSUME ReqFind(t)
      PROVE  FALSE
  <2>1. req'[t] \in {NoReq, [req[t] EXCEPT !.at = "consume"]}
    BY <1>3 DEF ReqFind, TypeOK
  <2>2. QED
    BY <2>1 DEF TypeOK, ReqRec, NoReq
<1>4. ASSUME NEW p \in PairId, InsertPair(t, p)
      PROVE  FALSE
  BY <1>4 DEF InsertPair, TypeOK, ReqRec
<1>5. ASSUME InsertConflict(t)
      PROVE  FALSE
  BY <1>5 DEF InsertConflict, TypeOK, ReqRec
<1>6. ASSUME NEW p \in PairId, LookupApproved(t, p)
      PROVE  FALSE
  BY <1>6 DEF LookupApproved, TypeOK, ReqRec
<1>7. ASSUME FailReq(t)
      PROVE  FALSE
  BY <1>7 DEF FailReq, TypeOK, NoReq
<1>8. QED
  BY <1>1, <1>2, <1>3, <1>4, <1>5, <1>6, <1>7, ReqEvolves DEF NoReq

\* Where a pair that was not there comes from.
LEMMA PairStarts ==
    ASSUME TypeOK, [Next]_vars, NEW p \in PairId,
           pairs[p].status = "none", pairs'[p].status # "none"
    PROVE  \E t \in ReqTask : /\ InsertPair(t, p)
                              /\ pairs'[p].mac = req[t].mac
                              /\ pairs'[p].remote = req[t].dev
                              /\ pairs'[p].code = req[t].code
                              /\ pairs'[p].status = "pending"
<1>1. ASSUME NEW d \in Device, DeleteDevice(d)
      PROVE  pairs'[p] = pairs[p]
  BY <1>1 DEF DeleteDevice, Exists
<1>2. ASSUME NEW t \in ResTask, ResUpdate(t)
      PROVE  pairs'[p] = pairs[p]
  BY <1>2 DEF ResUpdate, Resolvable, TypeOK
<1>3. ASSUME NEW t \in ReqTask, NEW q \in PairId, InsertPair(t, q), q # p
      PROVE  pairs'[p] = pairs[p]
  BY <1>3 DEF InsertPair, TypeOK
<1>4. PICK t \in ReqTask : InsertPair(t, p)
  BY <1>1, <1>2, <1>3, PairsFrame
<1>5. QED
  BY <1>4 DEF InsertPair, TypeOK

\* Only the UPDATE that spends a code starts a redemption with it, and a spent
\* code is not spent again.
LEMMA RedemptionExclusiveStep ==
    ASSUME TypeOK, PairsBacked, RedemptionExclusive, ResInv, [Next]_vars
    PROVE  RedemptionExclusive'
<1>1. ASSUME NEW u \in ReqTask, NEW c \in CodeId, Consume(u, c)
      PROVE  RedemptionExclusive'
  <2>1. /\ codes[c].status = "fresh" /\ codes'[c].status = "used"
        /\ codes'[c].mac = codes[c].mac /\ codes'[c].user = codes[c].user
        /\ pairs' = pairs
        /\ \A t \in ReqTask \ {u} : req'[t] = req[t]
    BY <1>1 DEF Consume, Redeemable, TypeOK, CodeRow
  <2>2. \A p \in PairId : pairs[p].status # "none" => pairs[p].code # c
    BY <2>1 DEF PairsBacked
  <2>3. \A t \in ReqTask : req[t].at = "insert" => req[t].code # c
    BY <2>1 DEF RedemptionExclusive
  <2>4. req[u].at = "consume"
    BY <1>1 DEF Consume
  <2>5. req'[u].at = "insert" => /\ req'[u].code = c
                                 /\ req'[u].mac = codes[c].mac
                                 /\ Owner[req'[u].dev] = codes[c].user
    BY <1>1, <2>4 DEF Consume, OwnAccount, TypeOK, ReqRec, NoReq
  <2>6. SUFFICES ASSUME NEW t \in ReqTask, req'[t].at = "insert"
                 PROVE  /\ req'[t].code \in CodeId
                        /\ codes'[req'[t].code].status \in {"used", "gone"}
                        /\ req'[t].mac = codes'[req'[t].code].mac
                        /\ Owner[req'[t].dev] = codes'[req'[t].code].user
                        /\ \A p \in PairId : pairs'[p].status # "none" =>
                               pairs'[p].code # req'[t].code
                        /\ \A x \in ReqTask \ {t} : req'[x].at = "insert" =>
                               req'[x].code # req'[t].code
    BY DEF RedemptionExclusive
  <2>7. CASE t = u
    BY <2>1, <2>2, <2>3, <2>5, <2>6, <2>7
  <2>8. CASE t # u
    <3>1. req'[t] = req[t] /\ req[t].at = "insert"
      BY <2>1, <2>6, <2>8
    <3>2. /\ req[t].code \in CodeId
          /\ codes[req[t].code].status \in {"used", "gone"}
          /\ req[t].mac = codes[req[t].code].mac
          /\ Owner[req[t].dev] = codes[req[t].code].user
          /\ \A p \in PairId : pairs[p].status # "none" => pairs[p].code # req[t].code
          /\ \A x \in ReqTask \ {t} : req[x].at = "insert" => req[x].code # req[t].code
      BY <3>1 DEF RedemptionExclusive
    <3>3. /\ codes'[req[t].code].status \in {"used", "gone"}
          /\ codes'[req[t].code].mac = codes[req[t].code].mac
          /\ codes'[req[t].code].user = codes[req[t].code].user
      BY <3>2, CodesEvolve
    <3>4. \A x \in ReqTask \ {t} : req'[x].at = "insert" => req'[x].code # req[t].code
      BY <2>1, <2>3, <2>5, <3>1, <3>2
    <3>5. QED
      BY <2>1, <3>1, <3>2, <3>3, <3>4
  <2>9. QED
    BY <2>7, <2>8
<1>2. ASSUME ~ \E u \in ReqTask, c \in CodeId : Consume(u, c)
      PROVE  RedemptionExclusive'
  <2>1. \A u \in ReqTask : req'[u].at = "insert" => req'[u] = req[u]
    BY <1>2, RedemptionStarts
  <2>2. SUFFICES ASSUME NEW t \in ReqTask, req'[t].at = "insert"
                 PROVE  /\ req'[t].code \in CodeId
                        /\ codes'[req'[t].code].status \in {"used", "gone"}
                        /\ req'[t].mac = codes'[req'[t].code].mac
                        /\ Owner[req'[t].dev] = codes'[req'[t].code].user
                        /\ \A p \in PairId : pairs'[p].status # "none" =>
                               pairs'[p].code # req'[t].code
                        /\ \A x \in ReqTask \ {t} : req'[x].at = "insert" =>
                               req'[x].code # req'[t].code
    BY DEF RedemptionExclusive
  <2>3. req'[t] = req[t] /\ req[t].at = "insert"
    BY <2>1, <2>2
  <2>4. /\ req[t].code \in CodeId
        /\ codes[req[t].code].status \in {"used", "gone"}
        /\ req[t].mac = codes[req[t].code].mac
        /\ Owner[req[t].dev] = codes[req[t].code].user
        /\ \A p \in PairId : pairs[p].status # "none" => pairs[p].code # req[t].code
        /\ \A x \in ReqTask \ {t} : req[x].at = "insert" => req[x].code # req[t].code
    BY <2>3 DEF RedemptionExclusive
  <2>5. /\ codes'[req[t].code].status \in {"used", "gone"}
        /\ codes'[req[t].code].mac = codes[req[t].code].mac
        /\ codes'[req[t].code].user = codes[req[t].code].user
    BY <2>4, CodesEvolve
  <2>6. ASSUME NEW p \in PairId, pairs'[p].status # "none"
        PROVE  pairs'[p].code # req[t].code
    <3>1. CASE pairs[p].status # "none"
      BY <2>4, <3>1, PairsEvolve
    <3>2. CASE pairs[p].status = "none"
      <4>1. PICK x \in ReqTask : InsertPair(x, p) /\ pairs'[p].code = req[x].code
        BY <2>6, <3>2, PairStarts
      <4>2. req[x].at = "insert" /\ req'[x].at = "notify"
        BY <4>1 DEF InsertPair, TypeOK, ReqRec
      <4>3. QED
        BY <2>2, <2>4, <4>1, <4>2
    <3>3. QED
      BY <3>1, <3>2
  <2>7. \A x \in ReqTask \ {t} : req'[x].at = "insert" => req'[x].code # req[t].code
    BY <2>1, <2>4
  <2>8. QED
    BY <2>3, <2>4, <2>5, <2>6, <2>7
<1>3. QED
  BY <1>1, <1>2

\* A new pair stands on the code of the redemption that inserts it, which no
\* other pair stands on.
LEMMA CodeBacksOnePairStep ==
    ASSUME TypeOK, RedemptionExclusive, CodeBacksOnePair, ResInv, [Next]_vars
    PROVE  CodeBacksOnePair'
<1>1. ASSUME NEW p \in PairId, NEW q \in PairId, p # q,
             pairs[p].status = "none", pairs'[p].status # "none", pairs'[q].status # "none"
      PROVE  pairs'[p].code # pairs'[q].code
  <2>1. PICK t \in ReqTask : InsertPair(t, p) /\ pairs'[p].code = req[t].code
    BY <1>1, PairStarts
  <2>2. req[t].at = "insert" /\ pairs'[q] = pairs[q]
    BY <1>1, <2>1 DEF InsertPair, TypeOK
  <2>3. QED
    BY <1>1, <2>1, <2>2 DEF RedemptionExclusive
<1>2. SUFFICES ASSUME NEW p \in PairId, NEW q \in PairId, p # q,
                      pairs'[p].status # "none", pairs'[q].status # "none"
               PROVE  pairs'[p].code # pairs'[q].code
  BY DEF CodeBacksOnePair
<1>3. CASE pairs[p].status # "none" /\ pairs[q].status # "none"
  BY <1>2, <1>3, PairsEvolve DEF CodeBacksOnePair
<1>4. QED
  BY <1>1, <1>2, <1>3

\* A handler past its caller's lookup, or holding a pair, stays right about both
\* while other handlers run.
LEMMA ReqInvStep ==
    ASSUME TypeOK, CodesOwned, ReqInv, ResInv, [Next]_vars
    PROVE  ReqInv'
<1>1. SUFFICES ASSUME NEW t \in ReqTask
               PROVE  ReqKnows(t)'
  BY DEF ReqInv
<1>2. CASE req'[t] = NoReq
  BY <1>2 DEF ReqKnows, NoReq
<1>3. CASE req'[t] = req[t]
  <2>1. req[t].at \notin {"idle", "failed"} => deviceOf'[req[t].sock] = req[t].dev
    BY DeviceOfEvolves, NoneAssumption DEF ReqInv, ReqKnows
  <2>2. req[t].at = "notify" => /\ pairs'[req[t].pair].status # "none"
                                /\ pairs'[req[t].pair].mac = req[t].mac
    BY PairsEvolve DEF ReqInv, ReqKnows
  <2>3. req[t].at = "complete" => /\ pairs'[req[t].pair].status \in {"approved", "gone"}
                                  /\ pairs'[req[t].pair].mac = req[t].mac
                                  /\ pairs'[req[t].pair].remote = req[t].dev
    BY PairsEvolve DEF ReqInv, ReqKnows
  <2>4. ReqKnows(t)
    BY DEF ReqInv
  <2>5. QED
    BY <1>3, <2>1, <2>2, <2>3, <2>4 DEF ReqKnows
<1>4. ASSUME NEW s \in Socket, NEW h \in Hash, RecvRequest(t, s, h)
      PROVE  ReqKnows(t)'
  BY <1>4, NoneAssumption DEF RecvRequest, TypeOK, NoReq, ReqKnows, connvars
<1>5. CASE ReqFind(t)
  <2>1. req[t].at = "find" /\ req'[t] \in {NoReq, [req[t] EXCEPT !.at = "consume"]}
    BY <1>5 DEF ReqFind, TypeOK
  <2>2. deviceOf' = deviceOf
    BY <1>5 DEF ReqFind, connvars
  <2>3. QED
    BY <1>2, <2>1, <2>2 DEF ReqInv, ReqKnows, TypeOK, ReqRec
<1>6. ASSUME NEW c \in CodeId, Consume(t, c)
      PROVE  ReqKnows(t)'
  <2>1. codes[c].mac \in Device
    BY <1>6, MacAssumption DEF Consume, Redeemable, CodesOwned
  <2>2. req'[t] \in {NoReq, [req[t] EXCEPT !.at = "insert", !.code = c, !.mac = codes[c].mac]}
    BY <1>6 DEF Consume, TypeOK
  <2>3. req[t].at = "consume" /\ deviceOf' = deviceOf
    BY <1>6 DEF Consume, connvars
  <2>4. QED
    BY <1>2, <2>1, <2>2, <2>3 DEF ReqInv, ReqKnows, TypeOK, ReqRec
<1>7. ASSUME NEW p \in PairId, InsertPair(t, p)
      PROVE  ReqKnows(t)'
  <2>1. req'[t] = [req[t] EXCEPT !.at = "notify", !.pair = p]
    BY <1>7 DEF InsertPair, TypeOK
  <2>2. /\ req[t].at = "insert" /\ deviceOf' = deviceOf
        /\ pairs'[p].status = "pending" /\ pairs'[p].mac = req[t].mac
    BY <1>7 DEF InsertPair, connvars, TypeOK
  <2>3. QED
    BY <2>1, <2>2 DEF ReqInv, ReqKnows, TypeOK, ReqRec
<1>8. CASE InsertConflict(t)
  BY <1>8 DEF InsertConflict, connvars, ReqInv, ReqKnows, TypeOK, ReqRec
<1>9. ASSUME NEW p \in PairId, LookupApproved(t, p)
      PROVE  ReqKnows(t)'
  <2>1. req'[t] = [req[t] EXCEPT !.at = "complete", !.pair = p]
    BY <1>9 DEF LookupApproved, TypeOK
  <2>2. /\ req[t].at = "lookup" /\ deviceOf' = deviceOf /\ pairs' = pairs
        /\ pairs[p].status = "approved" /\ pairs[p].mac = req[t].mac
        /\ pairs[p].remote = req[t].dev
    BY <1>9 DEF LookupApproved, ApprovedBetween, connvars, dbvars
  <2>3. QED
    BY <2>1, <2>2 DEF ReqInv, ReqKnows, TypeOK, ReqRec
<1>10. CASE FailReq(t)
  BY <1>10 DEF FailReq, TypeOK, NoReq, ReqKnows
<1>11. QED
  BY <1>2, <1>3, <1>4, <1>5, <1>6, <1>7, <1>8, <1>9, <1>10, ReqEvolves

\* The row a resolving handler read keeps its Mac; the row it wrote keeps the
\* verdict until the pair is removed.
LEMMA ResInvStep ==
    ASSUME TypeOK, ResInv, [Next]_vars
    PROVE  ResInv'
<1>1. SUFFICES ASSUME NEW t \in ResTask
               PROVE  ResKnows(t)'
  BY DEF ResInv
<1>2. CASE res'[t] = NoRes
  BY <1>2 DEF ResKnows, NoRes
<1>3. CASE res'[t] = res[t]
  <2>1. ResKnows(t)
    BY DEF ResInv
  <2>2. SUFFICES ASSUME res[t].at # "idle"
                 PROVE  ResKnows(t)'
    BY <1>3 DEF ResKnows
  <2>3. LET p == res[t].pair
        IN  /\ pairs'[p].status # "none"
            /\ pairs'[p].mac = pairs[p].mac
            /\ pairs[p].status # "pending" => pairs'[p].status \in {pairs[p].status, "gone"}
    BY <2>1, <2>2, PairsEvolve DEF ResKnows
  <2>4. QED
    BY <1>3, <2>1, <2>2, <2>3 DEF ResKnows, Verdict
<1>4. ASSUME NEW s \in Socket, NEW p \in PairId, NEW v \in Verdict, RecvResolve(t, s, p, v)
      PROVE  ResKnows(t)'
  BY <1>4, NoneAssumption DEF RecvResolve, TypeOK, ResKnows, dbvars
<1>5. CASE ResFind(t)
  <2>1. /\ res[t].at = "find" /\ pairs' = pairs
        /\ \/ res'[t] = NoRes
           \/ /\ res'[t] = [res[t] EXCEPT !.at = "update"]
              /\ pairs[res[t].pair].mac = res[t].dev
    BY <1>5 DEF ResFind, MayResolve, dbvars, TypeOK
  <2>2. QED
    BY <1>2, <2>1 DEF ResInv, ResKnows, TypeOK, ResRec
<1>6. CASE ResUpdate(t)
  <2>1. /\ res[t].at = "update" /\ res'[t] = [res[t] EXCEPT !.at = "send"]
        /\ pairs' = [pairs EXCEPT ![res[t].pair].status = res[t].verdict]
    BY <1>6 DEF ResUpdate, TypeOK
  <2>2. ResKnows(t)
    BY DEF ResInv
  <2>3. pairs'[res[t].pair].status = res[t].verdict
    BY <2>1, <2>2 DEF ResKnows, TypeOK, PairRow
  <2>4. QED
    BY <2>1, <2>2, <2>3 DEF ResKnows, TypeOK, ResRec, Verdict
<1>7. QED
  BY <1>2, <1>3, <1>4, <1>5, <1>6, ResEvolves

\* A replay only comes to pairs of the Mac whose socket started it.
LEMMA FlushInvStep ==
    ASSUME TypeOK, FlushInv, ResInv, [Next]_vars
    PROVE  FlushInv'
<1>1. SUFFICES ASSUME NEW s \in Socket
               PROVE  FlushKnows(s)'
  BY DEF FlushInv
<1>2. FlushKnows(s)
  BY DEF FlushInv
<1>3. CASE flush'[s] = NoFlush
  BY <1>3 DEF FlushKnows, NoFlush
<1>4. CASE flush'[s] = flush[s]
  <2>1. SUFFICES ASSUME flush[s].at # "idle"
                 PROVE  FlushKnows(s)'
    BY <1>4 DEF FlushKnows
  <2>2. deviceOf[s] \in Device /\ deviceOf'[s] = deviceOf[s]
    BY <1>2, <2>1, DeviceOfEvolves, NoneAssumption DEF FlushKnows
  <2>3. ASSUME NEW p \in PairId, pairs[p].status # "none"
        PROVE  pairs'[p].status # "none" /\ pairs'[p].mac = pairs[p].mac
    BY <2>3, PairsEvolve
  <2>4. flush[s].todo \subseteq PairId
    BY DEF TypeOK, FlushRec
  <2>5. QED
    BY <1>2, <1>4, <2>1, <2>2, <2>3, <2>4 DEF FlushKnows
<1>5. ASSUME NEW d \in Device, Connect(d, s)
      PROVE  FlushKnows(s)'
  <2>1. /\ deviceOf[s] = None /\ deviceOf'[s] = d
        /\ flush'[s] \in {flush[s], [flush[s] EXCEPT !.at = "list"]}
    BY <1>5 DEF Connect, TypeOK
  <2>2. flush[s].at = "idle"
    BY <1>2, <2>1, NoneAssumption DEF FlushKnows
  <2>3. QED
    BY <2>1, <2>2 DEF FlushKnows, TypeOK, FlushRec
<1>6. CASE FlushList(s)
  <2>1. /\ flush[s].at = "list" /\ flush'[s] = NextOf(PendingOf(deviceOf[s]))
        /\ deviceOf' = deviceOf /\ pairs' = pairs
    BY <1>6 DEF FlushList, TypeOK, connvars, dbvars
  <2>2. QED
    BY <1>2, <2>1 DEF FlushKnows, NextOf, NoFlush, PendingOf
<1>7. ASSUME NEW p \in PairId, FlushLook(s, p)
      PROVE  FlushKnows(s)'
  <2>1. /\ flush[s].at = "look" /\ p \in flush[s].todo
        /\ flush'[s] \in {[at |-> "send", todo |-> flush[s].todo \ {p}, pair |-> p],
                          NextOf(flush[s].todo \ {p})}
        /\ deviceOf' = deviceOf /\ pairs' = pairs
    BY <1>7 DEF FlushLook, TypeOK, connvars, dbvars
  <2>2. QED
    BY <1>2, <2>1 DEF FlushKnows, NextOf, NoFlush
<1>8. CASE FlushSend(s)
  <2>1. /\ flush[s].at = "send" /\ flush'[s] = NextOf(flush[s].todo)
        /\ deviceOf' = deviceOf /\ pairs' = pairs
    BY <1>8 DEF FlushSend, TypeOK, connvars, dbvars
  <2>2. QED
    BY <1>2, <2>1 DEF FlushKnows, NextOf, NoFlush
<1>9. CASE FailFlush(s)
  <2>1. /\ flush[s].at # "idle" /\ deviceOf' = deviceOf
        /\ flush'[s] = [NoFlush EXCEPT !.at = "failed"]
    BY <1>9 DEF FailFlush, TypeOK, connvars
  <2>2. QED
    BY <1>2, <2>1 DEF FlushKnows, NoFlush
<1>10. QED
  BY <1>3, <1>4, <1>5, <1>6, <1>7, <1>8, <1>9, FlushEvolves

\* registry.send reaches a socket only if it was opened by an addressee.
LEMMA DeliverReaches ==
    ASSUME TypeOK, RegistryOwn, NEW D \in SUBSET Device, NEW note, Deliver(D, note),
           NEW s \in Socket, NEW n \in inbox'[s], n \notin inbox[s]
    PROVE  n = note /\ deviceOf[s] \in D
  BY NoneAssumption DEF Deliver, RegistryOwn, TypeOK

\* Each of the four sends addresses a device the message concerns.
LEMMA NewNote ==
    ASSUME TypeOK, RegistryOwn, PairsBacked, ReqInv, ResInv, FlushInv, [Next]_vars,
           NEW s \in Socket, NEW n \in inbox'[s], n \notin inbox[s]
    PROVE  /\ pairs' = pairs /\ deviceOf' = deviceOf
           /\ n.pair \in PairId
           /\ pairs[n.pair].status # "none"
           /\ \/ n = Incoming(n.pair) /\ deviceOf[s] = pairs[n.pair].mac
              \/ /\ n = Complete(n.pair)
                 /\ deviceOf[s] \in Ends(n.pair)
                 /\ pairs[n.pair].status \in {"approved", "gone"}
              \/ /\ n = Reject(n.pair)
                 /\ deviceOf[s] = pairs[n.pair].remote
                 /\ pairs[n.pair].status \in {"rejected", "gone"}
<1>1. ASSUME NEW t \in ReqTask, NotifyMac(t)
      PROVE  /\ pairs' = pairs /\ deviceOf' = deviceOf
             /\ n.pair \in PairId /\ pairs[n.pair].status # "none"
             /\ n = Incoming(n.pair) /\ deviceOf[s] = pairs[n.pair].mac
  <2>1. /\ req[t].at = "notify" /\ Deliver({req[t].mac}, Incoming(req[t].pair))
        /\ pairs' = pairs /\ deviceOf' = deviceOf
    BY <1>1 DEF NotifyMac, dbvars, connvars
  <2>2. /\ req[t].mac \in Device /\ req[t].pair \in PairId
        /\ pairs[req[t].pair].status # "none"
        /\ pairs[req[t].pair].mac = req[t].mac
    BY <2>1 DEF ReqInv, ReqKnows
  <2>3. n = Incoming(req[t].pair) /\ deviceOf[s] = req[t].mac
    BY <2>1, <2>2, DeliverReaches
  <2>4. QED
    BY <2>1, <2>2, <2>3 DEF Incoming
<1>2. ASSUME NEW t \in ReqTask, CompleteExisting(t)
      PROVE  /\ pairs' = pairs /\ deviceOf' = deviceOf
             /\ n.pair \in PairId /\ pairs[n.pair].status \in {"approved", "gone"}
             /\ n = Complete(n.pair) /\ deviceOf[s] \in Ends(n.pair)
  <2>1. /\ req[t].at = "complete"
        /\ pairs' = pairs /\ deviceOf' = deviceOf
        /\ \E D \in SUBSET {req[t].mac, req[t].dev} : Deliver(D, Complete(req[t].pair))
    BY <1>2 DEF CompleteExisting, dbvars, connvars
  <2>2. /\ req[t].mac \in Device /\ req[t].dev \in Device /\ req[t].pair \in PairId
        /\ pairs[req[t].pair].status \in {"approved", "gone"}
        /\ Ends(req[t].pair) = {req[t].mac, req[t].dev}
    <3>1. /\ req[t].dev \in Device /\ req[t].pair \in PairId
          /\ pairs[req[t].pair].status \in {"approved", "gone"}
          /\ Ends(req[t].pair) = {req[t].mac, req[t].dev}
          /\ req[t].mac \in Device
      BY <2>1 DEF ReqInv, ReqKnows, Ends
    <3>2. QED
      BY <3>1
  <2>3. n = Complete(req[t].pair) /\ deviceOf[s] \in {req[t].mac, req[t].dev}
    BY <2>1, <2>2, DeliverReaches
  <2>4. QED
    BY <2>1, <2>2, <2>3 DEF Complete
<1>3. ASSUME NEW t \in ResTask, ResSend(t)
      PROVE  /\ pairs' = pairs /\ deviceOf' = deviceOf
             /\ n.pair \in PairId /\ pairs[n.pair].status # "none"
             /\ \/ /\ n = Complete(n.pair)
                   /\ deviceOf[s] \in Ends(n.pair)
                   /\ pairs[n.pair].status \in {"approved", "gone"}
                \/ /\ n = Reject(n.pair)
                   /\ deviceOf[s] = pairs[n.pair].remote
                   /\ pairs[n.pair].status \in {"rejected", "gone"}
  <2>1. /\ res[t].at = "send" /\ pairs' = pairs /\ deviceOf' = deviceOf
        /\ \/ res[t].verdict = "approved" /\ Deliver(Ends(res[t].pair), Complete(res[t].pair))
           \/ /\ res[t].verdict # "approved"
              /\ Deliver({pairs[res[t].pair].remote}, Reject(res[t].pair))
    BY <1>3 DEF ResSend, dbvars, connvars
  <2>2. /\ res[t].pair \in PairId /\ res[t].verdict \in Verdict
        /\ pairs[res[t].pair].status # "none"
        /\ pairs[res[t].pair].status \in {res[t].verdict, "gone"}
    BY <2>1 DEF ResInv, ResKnows
  <2>3. Ends(res[t].pair) \subseteq Device /\ pairs[res[t].pair].remote \in Device
    BY <2>2, MacAssumption DEF PairsBacked, Ends
  <2>4. CASE res[t].verdict = "approved"
    <3>1. n = Complete(res[t].pair) /\ deviceOf[s] \in Ends(res[t].pair)
      BY <2>1, <2>3, <2>4, DeliverReaches
    <3>2. QED
      BY <2>1, <2>2, <2>4, <3>1 DEF Complete
  <2>5. CASE res[t].verdict # "approved"
    <3>1. n = Reject(res[t].pair) /\ deviceOf[s] = pairs[res[t].pair].remote
      BY <2>1, <2>3, <2>5, DeliverReaches
    <3>2. QED
      BY <2>1, <2>2, <2>5, <3>1 DEF Reject, Verdict
  <2>6. QED
    BY <2>4, <2>5
<1>4. ASSUME NEW x \in Socket, FlushSend(x)
      PROVE  /\ pairs' = pairs /\ deviceOf' = deviceOf
             /\ n.pair \in PairId /\ pairs[n.pair].status # "none"
             /\ n = Incoming(n.pair) /\ deviceOf[s] = pairs[n.pair].mac
  <2>1. /\ flush[x].at = "send" /\ pairs' = pairs /\ deviceOf' = deviceOf
        /\ Deliver({deviceOf[x]}, Incoming(flush[x].pair))
    BY <1>4 DEF FlushSend, dbvars, connvars
  <2>2. /\ deviceOf[x] \in Device /\ flush[x].pair \in PairId
        /\ pairs[flush[x].pair].status # "none"
        /\ pairs[flush[x].pair].mac = deviceOf[x]
    BY <2>1 DEF FlushInv, FlushKnows
  <2>3. n = Incoming(flush[x].pair) /\ deviceOf[s] = deviceOf[x]
    BY <2>1, <2>2, DeliverReaches
  <2>4. QED
    BY <2>1, <2>2, <2>3 DEF Incoming
<1>5. QED
  BY <1>1, <1>2, <1>3, <1>4, InboxEvolves

\* What was said stays true: the row it names keeps its devices, and a verdict
\* is final.
LEMMA NotesStep ==
    ASSUME TypeOK, RegistryOwn, PairsBacked, ReqInv, ResInv, FlushInv,
           NotesNamed, NotesTruthful, [Next]_vars
    PROVE  NotesNamed' /\ NotesTruthful'
<1>1. SUFFICES ASSUME NEW s \in Socket, NEW n \in inbox'[s]
               PROVE  /\ pairs'[n.pair].status # "none"
                      /\ n = Incoming(n.pair) => deviceOf'[s] = pairs'[n.pair].mac
                      /\ n = Complete(n.pair) =>
                             /\ deviceOf'[s] \in {pairs'[n.pair].mac, pairs'[n.pair].remote}
                             /\ pairs'[n.pair].status \in {"approved", "gone"}
                      /\ n = Reject(n.pair) =>
                             /\ deviceOf'[s] = pairs'[n.pair].remote
                             /\ pairs'[n.pair].status \in {"rejected", "gone"}
  BY DEF NotesNamed, NotesTruthful, Ends, Incoming, Complete, Reject
<1>2. CASE n \notin inbox[s]
  <2>1. /\ Incoming(n.pair) # Complete(n.pair)
        /\ Incoming(n.pair) # Reject(n.pair)
        /\ Complete(n.pair) # Reject(n.pair)
    BY DEF Incoming, Complete, Reject
  <2>2. QED
    BY <1>2, <2>1, NewNote DEF Ends
<1>3. CASE n \in inbox[s]
  <2>1. /\ n.pair \in PairId
        /\ n \in {Incoming(n.pair), Complete(n.pair), Reject(n.pair)}
    BY <1>3 DEF TypeOK, Note, Incoming, Complete, Reject
  <2>2. /\ pairs[n.pair].status # "none"
        /\ n = Incoming(n.pair) => deviceOf[s] = pairs[n.pair].mac
        /\ n = Complete(n.pair) =>
               /\ deviceOf[s] \in {pairs[n.pair].mac, pairs[n.pair].remote}
               /\ pairs[n.pair].status \in {"approved", "gone"}
        /\ n = Reject(n.pair) =>
               /\ deviceOf[s] = pairs[n.pair].remote
               /\ pairs[n.pair].status \in {"rejected", "gone"}
    BY <1>3 DEF NotesNamed, NotesTruthful, Ends, Incoming, Complete, Reject
  <2>3. pairs[n.pair].mac \in Device /\ pairs[n.pair].remote \in Device
    BY <2>1, <2>2, MacAssumption DEF PairsBacked
  <2>4. deviceOf'[s] = deviceOf[s]
    BY <2>1, <2>2, <2>3, DeviceOfEvolves, NoneAssumption
  <2>5. /\ pairs'[n.pair].status # "none"
        /\ pairs'[n.pair].mac = pairs[n.pair].mac
        /\ pairs'[n.pair].remote = pairs[n.pair].remote
        /\ pairs[n.pair].status # "pending" =>
               pairs'[n.pair].status \in {pairs[n.pair].status, "gone"}
    BY <2>1, <2>2, PairsEvolve
  <2>6. QED
    BY <2>2, <2>4, <2>5
<1>4. QED
  BY <1>2, <1>3

-----------------------------------------------------------------------------
(***************************************************************************)
(* The invariant, and what follows from it.                                *)
(***************************************************************************)

\* Empty tables, no sockets and no handlers satisfy the invariant.
LEMMA InvInit == Init => IInv
<1>1. SUFFICES ASSUME Init
               PROVE  IInv
  OBVIOUS
<1>2. TypeOK
  BY <1>1 DEF Init, TypeOK, NoCode, CodeRow, CodeStatus, NoPair, PairRow, PairStatus,
              NoReq, ReqRec, NoRes, ResRec, NoFlush, FlushRec
<1>3. TableInv
  BY <1>1, <1>2
     DEF Init, TableInv, RegistryOwn, CodesOwned, PairsBacked, Referential, Exists, GoneWithMac,
         NoCode, NoPair
<1>4. RedemptionExclusive /\ CodeBacksOnePair /\ ReqInv /\ ResInv /\ FlushInv
  BY <1>1
     DEF Init, RedemptionExclusive, CodeBacksOnePair, ReqInv, ReqKnows, ResInv, ResKnows,
         FlushInv, FlushKnows, NoPair, NoReq, NoRes, NoFlush
<1>5. NotesNamed /\ NotesTruthful
  BY <1>1 DEF Init, NotesNamed, NotesTruthful
<1>6. QED
  BY <1>3, <1>4, <1>5 DEF IInv

\* Every step keeps it.
LEMMA InvStep == IInv /\ [Next]_vars => IInv'
<1>1. SUFFICES ASSUME IInv, [Next]_vars
               PROVE  IInv'
  OBVIOUS
<1>2. TableInv'
  BY <1>1, TypeStep, RegistryOwnStep, CodesOwnedStep, PairsBackedStep, ReferentialStep,
     GoneWithMacStep
     DEF IInv, TableInv
<1>3. RedemptionExclusive' /\ CodeBacksOnePair'
  BY <1>1, RedemptionExclusiveStep, CodeBacksOnePairStep DEF IInv, TableInv
<1>4. ReqInv' /\ ResInv' /\ FlushInv'
  BY <1>1, ReqInvStep, ResInvStep, FlushInvStep DEF IInv, TableInv
<1>5. NotesNamed' /\ NotesTruthful'
  BY <1>1, NotesStep DEF IInv, TableInv
<1>6. QED
  BY <1>2, <1>3, <1>4, <1>5 DEF IInv

\* The inductive invariant holds throughout.
THEOREM Invariant == Spec => []IInv
  BY InvInit, InvStep, PTL DEF Spec

\* The tables, maps and handlers stay well typed.
THEOREM TypeCorrect == Spec => []TypeOK
<1>1. IInv => TypeOK
  BY DEF IInv, TableInv
<1>2. QED
  BY <1>1, Invariant, PTL

\* However many handlers redeem at once, a pairing code opens at most one pair
\* (consumePairingCode and createPendingDevicePair are two statements).
THEOREM CodeSingleUse == Spec => []CodeBacksOnePair
<1>1. IInv => CodeBacksOnePair
  BY DEF IInv
<1>2. QED
  BY <1>1, Invariant, PTL

\* Two devices are only ever paired within one account, whatever codes collide.
THEOREM PairsStayInAccount == Spec => []SameAccount
<1>1. IInv => SameAccount
  BY DEF IInv, TableInv, SameAccount, PairsBacked, CodesOwned
<1>2. QED
  BY <1>1, Invariant, PTL

\* No device is told of a pairing it is no part of, or of a verdict that was not
\* given, whatever runs between the statement and the message.
THEOREM NotesHold == Spec => []NotesTruthful
<1>1. IInv => NotesTruthful
  BY DEF IInv
<1>2. QED
  BY <1>1, Invariant, PTL

\* Only the Mac of a pair approves it, though the check and the UPDATE are two
\* statements.
THEOREM OnlyMacApproves == Spec => ApprovedByMac
<1>1. ASSUME IInv, [Next]_vars, NEW p \in PairId,
             pairs'[p].status = "approved", pairs[p].status # "approved"
      PROVE  \E t \in ResTask : /\ res[t].at = "update"
                                /\ res[t].pair = p
                                /\ res[t].dev = pairs[p].mac
                                /\ res[t].verdict = "approved"
  <2>1. ASSUME NEW d \in Device, DeleteDevice(d)
        PROVE  FALSE
    BY <1>1, <2>1 DEF DeleteDevice, IInv, TableInv, TypeOK, PairRow
  <2>2. ASSUME NEW t \in ReqTask, NEW q \in PairId, InsertPair(t, q)
        PROVE  FALSE
    BY <1>1, <2>2 DEF InsertPair, IInv, TableInv, TypeOK
  <2>3. ASSUME NEW t \in ResTask, ResUpdate(t)
        PROVE  /\ res[t].at = "update" /\ res[t].pair = p
               /\ res[t].dev = pairs[p].mac /\ res[t].verdict = "approved"
    <3>1. /\ res[t].at = "update"
          /\ pairs' = [pairs EXCEPT ![res[t].pair].status = res[t].verdict]
      BY <2>3 DEF ResUpdate
    <3>2. /\ res[t].pair \in PairId
          /\ pairs[res[t].pair].mac = res[t].dev
      BY <1>1, <3>1 DEF IInv, ResInv, ResKnows
    <3>3. QED
      BY <1>1, <3>1, <3>2 DEF IInv, TableInv, TypeOK, PairRow
  <2>4. QED
    BY <1>1, <2>1, <2>2, <2>3, PairsFrame
<1>2. IInv /\ [Next]_vars =>
        [\A p \in PairId :
            pairs'[p].status = "approved" /\ pairs[p].status # "approved" =>
                \E t \in ResTask : /\ res[t].at = "update"
                                   /\ res[t].pair = p
                                   /\ res[t].dev = pairs[p].mac
                                   /\ res[t].verdict = "approved"]_vars
  BY <1>1
<1>3. QED
  BY <1>2, Invariant, PTL DEF Spec, ApprovedByMac

-----------------------------------------------------------------------------
(***************************************************************************)
(* The tables implement the ledger.                                        *)
(***************************************************************************)

\* Every step of a handler or a route is a step of the ledger, or leaves both
\* tables alone.
LEMMA LedgerStep ==
    ASSUME IInv, [Next]_vars
    PROVE  Ledger!Next \/ UNCHANGED <<codes, pairs>>
<1>1. ASSUME NEW d \in Device, DeleteDevice(d)
      PROVE  Ledger!Next
  <2>1. Ledger!Forget(d)
    BY <1>1 DEF DeleteDevice, Exists, Ends, Ledger!Forget
  <2>2. QED
    BY <2>1 DEF Ledger!Next
<1>2. ASSUME NEW m \in Device, NEW c \in CodeId, NEW h \in Hash, MintCode(m, c, h)
      PROVE  Ledger!Next
  <2>1. m \in Mac /\ Ledger!Mint(c, m, h)
    BY <1>2 DEF MintCode, MayMint, Ledger!Mint
  <2>2. QED
    BY <2>1 DEF Ledger!Next
<1>3. ASSUME NEW c \in CodeId, ExpireCode(c)
      PROVE  Ledger!Next
  <2>1. codes' = [x \in CodeId |-> IF x \in {c} THEN [codes[x] EXCEPT !.status = "expired"]
                                   ELSE codes[x]]
    BY <1>3 DEF ExpireCode, IInv, TableInv, TypeOK
  <2>2. Ledger!Spend({c}, "expired")
    BY <1>3, <2>1 DEF ExpireCode, Ledger!Spend
  <2>3. QED
    BY <2>2 DEF Ledger!Next
<1>4. ASSUME NEW t \in ReqTask, NEW c \in CodeId, Consume(t, c)
      PROVE  Ledger!Next
  <2>1. Ledger!Spend(Redeemable(req[t].hash), "used")
    BY <1>4 DEF Consume, Redeemable, Ledger!Spend
  <2>2. Redeemable(req[t].hash) \in SUBSET CodeId
    BY DEF Redeemable
  <2>3. QED
    BY <2>1, <2>2 DEF Ledger!Next
<1>5. ASSUME NEW t \in ReqTask, NEW p \in PairId, InsertPair(t, p)
      PROVE  Ledger!Next
  <2>1. /\ req[t].at = "insert" /\ pairs[p].status = "none"
        /\ req[t].mac # req[t].dev /\ Present(req[t].mac)
        /\ ~Conflict(req[t].mac, req[t].dev)
        /\ pairs' = [pairs EXCEPT ![p] = [status |-> "pending", mac |-> req[t].mac,
                                          remote |-> req[t].dev, code |-> req[t].code]]
        /\ codes' = codes
    BY <1>5 DEF InsertPair
  <2>2. /\ req[t].code \in CodeId /\ req[t].dev \in Device
        /\ codes[req[t].code].status \in {"used", "gone"}
        /\ req[t].mac = codes[req[t].code].mac
        /\ Owner[req[t].dev] = codes[req[t].code].user
        /\ \A q \in PairId : pairs[q].status # "none" => pairs[q].code # req[t].code
    BY <2>1 DEF IInv, RedemptionExclusive, ReqInv, ReqKnows
  <2>3. codes[req[t].code].status = "used"
    BY <2>1, <2>2 DEF IInv, TableInv, GoneWithMac, Present
  <2>4. Ledger!Request(p, req[t].code, req[t].dev)
    BY <2>1, <2>2, <2>3 DEF Conflict, Active, Ledger!Request
  <2>5. QED
    BY <2>2, <2>4 DEF Ledger!Next
<1>6. ASSUME NEW t \in ResTask, ResUpdate(t)
      PROVE  Ledger!Next
  <2>1. /\ res[t].at = "update" /\ pairs[res[t].pair].status = "pending"
        /\ pairs' = [pairs EXCEPT ![res[t].pair].status = res[t].verdict]
        /\ codes' = codes
    BY <1>6 DEF ResUpdate, Resolvable
  <2>2. res[t].pair \in PairId /\ res[t].verdict \in {"approved", "rejected"}
    BY <2>1 DEF IInv, ResInv, ResKnows, Verdict
  <2>3. Ledger!Resolve(res[t].pair, res[t].verdict)
    BY <2>1 DEF Ledger!Resolve
  <2>4. QED
    BY <2>2, <2>3 DEF Ledger!Next
<1>7. QED
  BY <1>1, <1>2, <1>3, <1>4, <1>5, <1>6, CodesFrame, PairsFrame

\* The two tables change only as the ledger allows: no code is spent twice, no
\* verdict is changed, no pair is opened without a code, a common account, or
\* beside an active pair of the same devices.
THEOREM TablesImplementLedger == Spec => ImplementsLedger
<1>1. Init => Ledger!Init
  BY DEF Init, NoCode, NoPair, Ledger!Init
<1>2. IInv /\ [Next]_vars => [Ledger!Next]_<<codes, pairs>>
  BY LedgerStep
<1>3. QED
  BY <1>1, <1>2, Invariant, PTL DEF Spec, ImplementsLedger, Ledger!Spec

-----------------------------------------------------------------------------
(***************************************************************************)
(* No request is lost.                                                     *)
(***************************************************************************)

\* Where the prompt for pair p and socket s is: on the socket, or still to come
\* from the handler that inserted p or from the replay of s, or lost to a failure.
Underway(p, s) ==
    \/ Incoming(p) \in inbox[s]
    \/ \E t \in ReqTask : req[t].at = "notify" /\ req[t].pair = p
    \/ Replaying(s, p)
    \/ PromptFailed(p, s)

\* A pair that becomes pending is reported by the handler that inserted it.
LEMMA PendingStarts ==
    ASSUME IInv, [Next]_vars, NEW p \in PairId, pairs'[p].status = "pending"
    PROVE  \/ pairs[p].status = "pending" /\ pairs'[p] = pairs[p]
           \/ \E t \in ReqTask : req'[t].at = "notify" /\ req'[t].pair = p
<1>1. CASE pairs[p].status = "none"
  <2>1. PICK t \in ReqTask : InsertPair(t, p)
    BY <1>1, PairStarts DEF IInv, TableInv
  <2>2. req'[t].at = "notify" /\ req'[t].pair = p
    BY <2>1 DEF InsertPair, IInv, TableInv, TypeOK, ReqRec
  <2>3. QED
    BY <2>2
<1>2. CASE pairs[p].status # "none"
  <2>1. ASSUME NEW d \in Device, DeleteDevice(d)
        PROVE  pairs'[p] = pairs[p]
    BY <2>1 DEF DeleteDevice, IInv, TableInv, TypeOK, PairRow
  <2>2. ASSUME NEW t \in ReqTask, NEW q \in PairId, InsertPair(t, q)
        PROVE  pairs'[p] = pairs[p]
    BY <1>2, <2>2 DEF InsertPair, IInv, TableInv, TypeOK
  <2>3. ASSUME NEW t \in ResTask, ResUpdate(t)
        PROVE  pairs'[p] = pairs[p]
    <3>1. /\ res[t].pair \in PairId /\ res[t].verdict \in Verdict
          /\ pairs' = [pairs EXCEPT ![res[t].pair].status = res[t].verdict]
      BY <2>3 DEF ResUpdate, IInv, ResInv, ResKnows
    <3>2. QED
      BY <3>1 DEF IInv, TableInv, TypeOK, PairRow, Verdict
  <2>4. QED
    BY <2>1, <2>2, <2>3, PairsFrame
<1>3. QED
  BY <1>1, <1>2

\* The handler that reports a pair sends the prompt before it ends, or records
\* that it failed and for which socket.
LEMMA ReporterStays ==
    ASSUME IInv, [Next]_vars, NEW t \in ReqTask, req[t].at \in {"notify", "failed"}
    PROVE  req'[t] = req[t] \/ NotifyMac(t) \/ Restart \/ FailReq(t)
<1>1. ASSUME \/ \E s \in Socket, h \in Hash : RecvRequest(t, s, h)
             \/ ReqFind(t)
             \/ ConsumeNothing(t)
             \/ \E c \in CodeId : Consume(t, c)
             \/ \E p \in PairId : InsertPair(t, p)
             \/ InsertConflict(t)
             \/ InsertThrows(t)
             \/ LookupNothing(t)
             \/ \E p \in PairId : LookupApproved(t, p)
             \/ CompleteExisting(t)
      PROVE  FALSE
  BY <1>1 DEF RecvRequest, ReqFind, ConsumeNothing, Consume, InsertPair, InsertConflict,
              InsertThrows, LookupNothing, LookupApproved, CompleteExisting
<1>2. ASSUME NEW u \in ReqTask, u # t, ReqStep(u)
      PROVE  req'[t] = req[t]
  BY <1>2 DEF ReqStep, IInv, TableInv, TypeOK, ReqFind, ConsumeNothing, Consume, InsertPair,
              InsertConflict, InsertThrows, NotifyMac, LookupNothing, LookupApproved,
              CompleteExisting
<1>3. ASSUME NEW u \in ReqTask, u # t, NEW s \in Socket, NEW h \in Hash, RecvRequest(u, s, h)
      PROVE  req'[t] = req[t]
  BY <1>3 DEF IInv, TableInv, TypeOK, RecvRequest
<1>4. ASSUME NEW u \in ReqTask, u # t, FailReq(u)
      PROVE  req'[t] = req[t]
  BY <1>4 DEF IInv, TableInv, TypeOK, FailReq
<1>5. CASE UNCHANGED req
  BY <1>5
<1>6. QED
  BY <1>1, <1>2, <1>3, <1>4, <1>5
     DEF Next, Environment, ReqStep, ResStep, FlushStep, vars, RegisterDevice,
         DeleteDevice, MintCode, ExpireCode, Connect, Close, HangUp, RecvResolve,
         FailRes, FailFlush, ResFind, ResUpdate, ResTooLate, ResSend, FlushList,
         FlushLook, FlushSend

\* A message stays on a socket that stays registered.
LEMMA NoteStays ==
    ASSUME IInv, [Next]_vars, NEW d \in Device, NEW s \in Socket,
           registry[d] = s, registry'[d] = s
    PROVE  inbox[s] \subseteq inbox'[s]
<1>1. ASSUME NEW e \in Device, NEW x \in Socket, Connect(e, x)
      PROVE  inbox[s] = inbox'[s]
  BY <1>1, NoneAssumption DEF Connect, IInv, TableInv, RegistryOwn, TypeOK
<1>2. ASSUME NEW e \in Device, Close(e)
      PROVE  inbox[s] = inbox'[s]
  BY <1>2, NoneAssumption DEF Close, IInv, TableInv, RegistryOwn, TypeOK
<1>3. ASSUME Restart
      PROVE  FALSE
  BY <1>3, NoneAssumption DEF Restart, IInv, TableInv, TypeOK
<1>4. ASSUME \/ \E t \in ReqTask : NotifyMac(t) \/ CompleteExisting(t)
             \/ \E t \in ResTask : ResSend(t)
             \/ \E x \in Socket : FlushSend(x)
      PROVE  inbox[s] \subseteq inbox'[s]
  BY <1>4 DEF NotifyMac, CompleteExisting, ResSend, FlushSend, Deliver
<1>5. CASE UNCHANGED inbox
  BY <1>5
<1>6. QED
  BY <1>1, <1>2, <1>3, <1>4, <1>5
     DEF Next, Environment, ReqStep, ResStep, FlushStep, vars,
         RegisterDevice, DeleteDevice, MintCode, ExpireCode, HangUp, RecvRequest, RecvResolve,
         FailReq, FailRes, FailFlush, ReqFind, ConsumeNothing, Consume, InsertPair,
         InsertConflict, InsertThrows, LookupNothing, LookupApproved, ResFind, ResUpdate,
         ResTooLate, FlushList, FlushLook

\* A replay that has a pending pair before it keeps it there, prompts for it, or
\* fails.
LEMMA ReplayStays ==
    ASSUME IInv, [Next]_vars, NEW p \in PairId, NEW s \in Socket,
           pairs[p].status = "pending", registry[pairs[p].mac] = s, Replaying(s, p)
    PROVE  \/ Replaying(s, p)'
           \/ Incoming(p) \in inbox'[s]
           \/ flush'[s].at = "failed"
           \/ Restart
<1>1. /\ pairs[p].mac \in Device /\ deviceOf[s] = pairs[p].mac /\ deviceOf[s] # None
      /\ flush \in [Socket -> FlushRec]
  BY NoneAssumption, MacAssumption DEF IInv, TableInv, TypeOK, RegistryOwn, PairsBacked
<1>2. CASE FlushList(s)
  BY <1>1, <1>2 DEF FlushList, NextOf, PendingOf, Replaying
<1>3. ASSUME NEW q \in PairId, FlushLook(s, q)
      PROVE  Replaying(s, p)'
  <2>1. Present(pairs[p].remote)
    BY DEF IInv, TableInv, Referential, Exists, Ends
  <2>2. flush[s].at = "look" /\ p \in flush[s].todo
    BY <1>3 DEF FlushLook, Replaying
  <2>3. QED
    BY <1>1, <1>3, <2>1, <2>2 DEF FlushLook, NextOf, Replaying
<1>4. CASE FlushSend(s)
  <2>1. flush[s].at = "send" /\ (p \in flush[s].todo \/ flush[s].pair = p)
    BY <1>4 DEF FlushSend, Replaying
  <2>2. CASE flush[s].pair = p
    BY <1>1, <1>4, <2>2 DEF FlushSend, Deliver, IInv, TableInv, TypeOK
  <2>3. CASE p \in flush[s].todo
    BY <1>1, <1>4, <2>3 DEF FlushSend, NextOf, Replaying
  <2>4. QED
    BY <2>1, <2>2, <2>3
<1>5. ASSUME NEW d \in Device, NEW x \in Socket, Connect(d, x)
      PROVE  flush'[s] = flush[s]
  BY <1>1, <1>5 DEF Connect
<1>6. ASSUME NEW x \in Socket, x # s,
             FlushList(x) \/ (\E q \in PairId : FlushLook(x, q)) \/ FlushSend(x)
      PROVE  flush'[s] = flush[s]
  BY <1>1, <1>6 DEF FlushList, FlushLook, FlushSend
<1>7. ASSUME NEW x \in Socket, FailFlush(x)
      PROVE  flush'[s] = flush[s] \/ flush'[s].at = "failed"
  BY <1>1, <1>7 DEF FailFlush, FlushRec, NoFlush
<1>8. CASE flush'[s] = flush[s]
  BY <1>8 DEF Replaying
<1>9. QED
  BY <1>2, <1>3, <1>4, <1>5, <1>6, <1>7, <1>8
     DEF Next, Environment, ReqStep, ResStep, FlushStep, vars,
         RegisterDevice, DeleteDevice, MintCode, ExpireCode, Close, HangUp, RecvRequest,
         RecvResolve, FailReq, FailRes, ReqFind, ConsumeNothing, Consume,
         InsertPair, InsertConflict, InsertThrows, NotifyMac, LookupNothing,
         LookupApproved, CompleteExisting, ResFind, ResUpdate, ResTooLate, ResSend

\* A replay that failed stays so while its socket is registered.
LEMMA FailedStays ==
    ASSUME IInv, [Next]_vars, NEW s \in Socket, flush[s].at = "failed", deviceOf[s] # None
    PROVE  flush'[s] = flush[s] \/ Restart
<1>1. ASSUME NEW x \in Socket, \/ FlushList(x)
                               \/ \E q \in PairId : FlushLook(x, q)
                               \/ FlushSend(x)
                               \/ FailFlush(x)
                               \/ \E d \in Device : Connect(d, x)
      PROVE  flush'[s] = flush[s]
  BY <1>1 DEF IInv, TableInv, TypeOK, FlushList, FlushLook, FlushSend, FailFlush, Connect
<1>2. CASE UNCHANGED flush
  BY <1>2
<1>3. QED
  BY <1>1, <1>2
     DEF Next, Environment, ReqStep, ResStep, FlushStep, vars,
         RegisterDevice, DeleteDevice, MintCode, ExpireCode, Close, HangUp, RecvRequest,
         RecvResolve, FailReq, FailRes, ReqFind, ConsumeNothing, Consume,
         InsertPair, InsertConflict, InsertThrows, NotifyMac, LookupNothing,
         LookupApproved, CompleteExisting, ResFind, ResUpdate, ResTooLate, ResSend

\* Whatever interleaves, the prompt of a pending pair is somewhere.
LEMMA NoLostStep ==
    ASSUME IInv, NoLostRequest, [Next]_vars
    PROVE  NoLostRequest'
<1>1. SUFFICES ASSUME NEW p \in PairId, NEW s \in Socket,
                      pairs'[p].status = "pending", registry'[pairs'[p].mac] = s
               PROVE  Underway(p, s)'
  BY DEF NoLostRequest, Underway
<1>2. CASE \E t \in ReqTask : req'[t].at = "notify" /\ req'[t].pair = p
  BY <1>2 DEF Underway
<1>3. CASE pairs[p].status = "pending" /\ pairs'[p] = pairs[p]
  <2> DEFINE m == pairs[p].mac
  <2>1. m \in Mac /\ m \in Device /\ registry'[m] = s
    BY <1>1, <1>3, MacAssumption DEF IInv, TableInv, PairsBacked
  <2>2. ASSUME Restart
        PROVE  FALSE
    BY <2>1, <2>2, NoneAssumption DEF Restart
  <2>3. CASE registry[m] = s
    <3>1. Underway(p, s)
      BY <1>3, <2>3 DEF NoLostRequest, Underway
    <3>2. CASE Incoming(p) \in inbox[s]
      BY <2>1, <2>3, <3>2, NoteStays DEF Underway
    <3>3. ASSUME NEW t \in ReqTask, req[t].at = "notify", req[t].pair = p
          PROVE  Underway(p, s)'
      <4>1. req'[t] = req[t] \/ NotifyMac(t) \/ FailReq(t)
        BY <2>2, <3>3, ReporterStays
      <4>2. ASSUME NotifyMac(t)
            PROVE  Incoming(p) \in inbox'[s]
        BY <2>1, <2>3, <3>3, <4>2
           DEF NotifyMac, Deliver, IInv, ReqInv, ReqKnows
      <4>3. ASSUME FailReq(t)
            PROVE  req'[t].at = "failed" /\ req'[t].pair = p /\ req'[t].sock = s
        <5>1. req[t].mac = m /\ req \in [ReqTask -> ReqRec]
          BY <3>3 DEF IInv, TableInv, TypeOK, ReqInv, ReqKnows
        <5>2. QED
          BY <2>3, <3>3, <4>3, <5>1 DEF FailReq, NoReq
      <4>4. QED
        BY <3>3, <4>1, <4>2, <4>3 DEF Underway, Incoming, PromptFailed
    <3>4. CASE Replaying(s, p)
      BY <1>3, <2>2, <2>3, <3>4, ReplayStays DEF Underway, Incoming, PromptFailed
    <3>5. ASSUME NEW t \in ReqTask, req[t].at = "failed", req[t].pair = p, req[t].sock = s
          PROVE  Underway(p, s)'
      <4>1. req'[t] = req[t]
        BY <2>2, <3>5, ReporterStays DEF NotifyMac, FailReq
      <4>2. QED
        BY <3>5, <4>1 DEF Underway, PromptFailed
    <3>6. CASE flush[s].at = "failed"
      <4>1. deviceOf[s] # None
        BY <2>1, <2>3, NoneAssumption DEF IInv, TableInv, RegistryOwn
      <4>2. QED
        BY <2>2, <3>6, <4>1, FailedStays DEF Underway, PromptFailed
    <3>7. QED
      BY <3>1, <3>2, <3>3, <3>4, <3>5, <3>6 DEF Underway, PromptFailed
  <2>4. CASE registry[m] # s
    <3>1. Connect(m, s)
      <4>1. ASSUME NEW d \in Device, NEW x \in Socket, Connect(d, x)
            PROVE  d = m /\ x = s
        BY <2>1, <2>4, <4>1 DEF Connect, IInv, TableInv, TypeOK
      <4>2. ASSUME NEW d \in Device, Close(d)
            PROVE  FALSE
        BY <2>1, <2>4, <4>2, NoneAssumption DEF Close, IInv, TableInv, TypeOK
      <4>3. CASE UNCHANGED connvars
        BY <2>1, <2>4, <4>3 DEF connvars
      <4>4. ASSUME NEW x \in Socket, HangUp(x)
            PROVE  FALSE
        BY <2>1, <2>4, <4>4 DEF HangUp
      <4>5. QED
        BY <2>2, <4>1, <4>2, <4>3, <4>4, ConnFrame
    <3>2. flush'[s].at = "list"
      BY <2>1, <3>1 DEF Connect, Replays, IInv, TableInv, TypeOK, FlushRec
    <3>3. QED
      BY <3>2 DEF Underway, Replaying
  <2>5. QED
    BY <2>3, <2>4
<1>4. QED
  BY <1>1, <1>2, <1>3, PendingStarts

\* No pairing request falls between the live prompt and the replay: a Mac that is
\* connected while a pair waits for it has been prompted, or is about to be, or
\* a statement of the handler that was to prompt it has failed.
THEOREM NoRequestLost == Spec => []NoLostRequest
<1>1. Init => NoLostRequest
  BY DEF Init, NoLostRequest, NoPair
<1>2. IInv /\ NoLostRequest /\ [Next]_vars => NoLostRequest'
  BY NoLostStep
<1>3. QED
  BY <1>1, <1>2, Invariant, PTL DEF Spec

=============================================================================
