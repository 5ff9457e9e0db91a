-------------------------- MODULE SessionRelayProofs --------------------------
(***************************************************************************)
(* Proofs about SessionRelay, for any devices, pairs, sessions, sockets    *)
(* and numbers of handlers running at once.                                *)
(***************************************************************************)
EXTENDS SessionRelay, TLAPS

-----------------------------------------------------------------------------
(***************************************************************************)
(* The inductive invariant, in named parts.                                *)
(***************************************************************************)

\* The cache holds the pair of the session's row, whoever filled it and
\* whatever became of the row since.
CacheTrue == \A x \in Session : cache[x] # None => cache[x] = session[x].pair

\* What a suspended handler may still rely on after its last await: it never
\* sees another pair than its session's, and past the check of the pair its
\* caller is an end of it.
TaskKnows(t) ==
    /\ task[t].at # "idle" => task[t].sock \in Socket
    /\ task[t].at \in {"startFind", "startCreate"} => task[t].pair \in Pair
    /\ task[t].at = "startCreate" => pair[task[t].pair] \in {"approved", "gone"}
    /\ task[t].at \in {"endFind", "relayFind"} => task[t].session \in Session
    /\ task[t].at \in {"startSend", "endPair", "endUpdate", "endSend", "relayPair", "relaySend"} =>
           /\ task[t].session \in Session
           /\ task[t].pair \in Pair
           /\ session[task[t].session].pair = task[t].pair

TaskInv == \A t \in Task : TaskKnows(t)

IInv == TypeOK /\ CacheTrue /\ TaskInv /\ RelayConfined /\ SessionHasPair

-----------------------------------------------------------------------------
(***************************************************************************)
(* How rows evolve, and what a burst of sends adds.                        *)
(***************************************************************************)

\* The steps that write the sessions table.
LEMMA SessionFrame ==
    ASSUME [Next]_vars
    PROVE  \/ UNCHANGED session
           \/ \E d \in Device : DeleteDevice(d)
           \/ \E t \in Task, x \in Session : CreateSession(t, x)
           \/ \E t \in Task : EndUpdate(t)
  BY DEF Next, Environment, Step, vars, dbvars, Approve, Connect, Close, Restart, RecvStart,
         RecvEnd, RelayHit, RelayMiss, Fail, StartFind, CreateThrows, StartSend, EndFind,
         EndPair, EndSend, RelayFind, RelayPair, RelaySend

\* A row keeps the pair it was created with.
LEMMA SessionPairKept ==
    ASSUME TypeOK, [Next]_vars, NEW x \in Session, session[x].pair # None
    PROVE  session'[x].pair = session[x].pair
<1>0. session[x] \in SessionRow /\ session[x].status # "none"
  BY DEF TypeOK
<1>1. ASSUME NEW d \in Device, DeleteDevice(d)
      PROVE  session'[x] \in {session[x], [session[x] EXCEPT !.status = "gone"]}
  BY <1>1 DEF DeleteDevice
<1>2. ASSUME NEW t \in Task, NEW y \in Session, CreateSession(t, y)
      PROVE  session'[x] = session[x]
  BY <1>0, <1>2 DEF CreateSession, TypeOK
<1>3. ASSUME NEW t \in Task, EndUpdate(t)
      PROVE  session'[x].pair = session[x].pair
  BY <1>0, <1>3 DEF EndUpdate, TypeOK, SessionRow
<1>4. QED
  BY <1>0, <1>1, <1>2, <1>3, SessionFrame DEF SessionRow

\* A pair once approved is approved until it is gone, and a pair that is gone
\* does not come back.
LEMMA PairStays ==
    ASSUME TypeOK, [Next]_vars, NEW p \in Pair
    PROVE  /\ pair[p] \in {"approved", "gone"} => pair'[p] \in {"approved", "gone"}
           /\ pair'[p] # pair[p] => \/ \E d \in Device : DeleteDevice(d) /\ d \in Ends(p)
                                    \/ Approve(p)
  BY DEF Next, Environment, Step, vars, dbvars, Approve, DeleteDevice, Connect, Close, Restart,
         RecvStart, RecvEnd, RelayHit, RelayMiss, Fail, StartFind, CreateThrows, CreateSession,
         StartSend, EndFind, EndPair, EndUpdate, EndSend, RelayFind, RelayPair, RelaySend, TypeOK

\* A partner is the other of the two devices of the pair.
LEMMA PartnerIsOther ==
    ASSUME NEW p \in Pair, NEW d, NEW e \in Partner(p, d)
    PROVE  Ends(p) = {e, d} /\ e # d
  BY EndsAssumption DEF Partner, Ends

\* A burst adds nothing but its note, and that to open sockets of the devices
\* or of the sockets it is for.
LEMMA SendAdds ==
    ASSUME inbox \in [Socket -> SUBSET Note],
           NEW D, NEW S, NEW note \in Note, Send(D, S, note)
    PROVE  /\ inbox' \in [Socket -> SUBSET Note]
           /\ \A s \in Socket : \A n \in inbox'[s] :
                  n \in inbox[s] \/ (n = note /\ (DeviceOf[s] \in D \/ s \in S))
<1>1. \A s \in Socket : /\ inbox'[s] \in {inbox[s], inbox[s] \cup {note}}
                        /\ inbox'[s] # inbox[s] => DeviceOf[s] \in D \/ s \in S
  BY DEF Send
<1>2. inbox' \in [Socket -> SUBSET Note]
  BY DEF Send
<1>3. QED
  BY <1>1, <1>2

\* The records a handler's steps leave are handler records.
LEMMA TaskRecUpdates ==
    /\ Idle \in TaskRec
    /\ \A r \in TaskRec, at \in {"startCreate", "endUpdate", "endSend", "relaySend"} :
           [r EXCEPT !.at = at] \in TaskRec
    /\ \A r \in TaskRec, x \in Session :
           [r EXCEPT !.at = "startSend", !.session = x] \in TaskRec
    /\ \A r \in TaskRec, p \in Pair \cup {None}, at \in {"endPair", "relayPair"} :
           [r EXCEPT !.at = at, !.pair = p] \in TaskRec
    /\ \A s \in Socket, p \in Pair :
           [Idle EXCEPT !.at = "startFind", !.sock = s, !.pair = p] \in TaskRec
    /\ \A s \in Socket, x \in Session, at \in {"endFind", "relayFind"} :
           [Idle EXCEPT !.at = at, !.sock = s, !.session = x] \in TaskRec
<1>1. Idle \in TaskRec
  BY DEF TaskRec, Idle
<1>2. \A r \in TaskRec, at \in {"startCreate", "endUpdate", "endSend", "relaySend"} :
           [r EXCEPT !.at = at] \in TaskRec
  BY DEF TaskRec
<1>3. \A r \in TaskRec, x \in Session :
           [r EXCEPT !.at = "startSend", !.session = x] \in TaskRec
  BY DEF TaskRec
<1>4. \A r \in TaskRec, p \in Pair \cup {None}, at \in {"endPair", "relayPair"} :
           [r EXCEPT !.at = at, !.pair = p] \in TaskRec
  BY DEF TaskRec
<1>5. \A s \in Socket, p \in Pair :
           [Idle EXCEPT !.at = "startFind", !.sock = s, !.pair = p] \in TaskRec
  BY DEF TaskRec, Idle
<1>6. \A s \in Socket, x \in Session, at \in {"endFind", "relayFind"} :
           [Idle EXCEPT !.at = at, !.sock = s, !.session = x] \in TaskRec
  BY DEF TaskRec, Idle
<1>7. QED
  BY <1>1, <1>2, <1>3, <1>4, <1>5, <1>6

-----------------------------------------------------------------------------
(***************************************************************************)
(* The type invariant.                                                     *)
(***************************************************************************)

\* Every step keeps the tables, the cache and the handlers well typed.
LEMMA TypeStep ==
    ASSUME TypeOK, CacheTrue, TaskInv, [Next]_vars
    PROVE  TypeOK'
<1>0. \A t \in Task : task[t] \in TaskRec
  BY DEF TypeOK
<1>1. ASSUME NEW p \in Pair, Approve(p)
      PROVE  TypeOK'
  BY <1>1 DEF Approve, TypeOK
<1>2. ASSUME NEW d \in Device, DeleteDevice(d)
      PROVE  TypeOK'
  <2>1. \A x \in Session : /\ session[x] \in SessionRow
                           /\ [session[x] EXCEPT !.status = "gone"] \in SessionRow
    BY DEF TypeOK, SessionRow
  <2>2. session' \in [Session -> SessionRow]
    BY <1>2, <2>1 DEF DeleteDevice
  <2>3. \A x \in Session : session'[x].pair = None <=> session'[x].status = "none"
    <3>1. \A x \in Session : session'[x] \in {session[x], [session[x] EXCEPT !.status = "gone"]}
      BY <1>2 DEF DeleteDevice
    <3>2. \A x \in Session : session'[x] # session[x] => session[x].status # "none"
      BY <1>2 DEF DeleteDevice, Cascade
    <3>3. QED
      BY <2>1, <3>1, <3>2 DEF TypeOK, SessionRow
  <2>4. /\ deleted' \subseteq Device
        /\ pair' \in [Pair -> {"pending", "approved", "gone"}]
        /\ UNCHANGED <<known, cache, sock, inbox, task>>
    BY <1>2 DEF DeleteDevice, TypeOK
  <2>5. QED
    BY <2>2, <2>3, <2>4 DEF TypeOK
<1>3. ASSUME NEW s \in Socket, Connect(s)
      PROVE  TypeOK'
  <2>1. \A x, z \in Socket : sock'[x] = "open" /\ sock'[z] = "open" /\ x # z
                                => DeviceOf[x] # DeviceOf[z]
    BY <1>3 DEF Connect, TypeOK, Prior
  <2>2. QED
    BY <1>3, <2>1 DEF Connect, TypeOK, dbvars
<1>4. ASSUME NEW s \in Socket, Close(s)
      PROVE  TypeOK'
  BY <1>4 DEF Close, TypeOK, dbvars
<1>5. CASE Restart
  BY <1>5, TaskRecUpdates DEF Restart, TypeOK, dbvars
<1>6. ASSUME NEW t \in Task, NEW s \in Socket, NEW p \in Pair, RecvStart(t, s, p)
      PROVE  TypeOK'
  BY <1>6, TaskRecUpdates DEF RecvStart, TypeOK, dbvars
<1>7. ASSUME NEW t \in Task, NEW s \in Socket, NEW x \in Session, RecvEnd(t, s, x)
      PROVE  TypeOK'
  BY <1>7, TaskRecUpdates DEF RecvEnd, TypeOK, dbvars
<1>8. ASSUME NEW s \in Socket, NEW x \in Session, RelayHit(s, x)
      PROVE  TypeOK'
  <2>1. RelayNote(x, DeviceOf[s]) \in Note
    BY SocketAssumption DEF RelayNote, Note
  <2>2. inbox' \in [Socket -> SUBSET Note]
    BY <1>8, <2>1, SendAdds DEF RelayHit, TypeOK
  <2>3. QED
    BY <1>8, <2>2 DEF RelayHit, TypeOK, dbvars
<1>9. ASSUME NEW t \in Task, NEW s \in Socket, NEW x \in Session, RelayMiss(t, s, x)
      PROVE  TypeOK'
  BY <1>9, TaskRecUpdates DEF RelayMiss, TypeOK, dbvars
<1>10. ASSUME NEW t \in Task, Fail(t)
       PROVE  TypeOK'
  BY <1>10, TaskRecUpdates DEF Fail, Finish, TypeOK, dbvars
<1>11. ASSUME NEW t \in Task, StartFind(t)
       PROVE  TypeOK'
  BY <1>0, <1>11, TaskRecUpdates DEF StartFind, Goto, Finish, TypeOK, dbvars
<1>12. ASSUME NEW t \in Task, NEW x \in Session, CreateSession(t, x)
       PROVE  TypeOK'
  <2>1. task[t].pair \in Pair
    BY <1>12 DEF CreateSession, TaskInv, TaskKnows
  <2>2. [status |-> "active", pair |-> task[t].pair] \in SessionRow
    BY <2>1 DEF SessionRow
  <2>3. [task[t] EXCEPT !.at = "startSend", !.session = x] \in TaskRec
    BY <1>0, TaskRecUpdates
  <2>4. session' \in [Session -> SessionRow] /\ task' \in [Task -> TaskRec]
    BY <1>12, <2>2, <2>3 DEF CreateSession, TypeOK
  <2>5. \A y \in Session : session'[y].pair = None <=> session'[y].status = "none"
    BY <1>12, <2>1, NoneAssumption DEF CreateSession, TypeOK
  <2>6. QED
    BY <1>12, <2>4, <2>5 DEF CreateSession, TypeOK
<1>13. ASSUME NEW t \in Task, CreateThrows(t)
       PROVE  TypeOK'
  BY <1>13, TaskRecUpdates DEF CreateThrows, Finish, TypeOK, dbvars
<1>14. ASSUME NEW t \in Task, StartSend(t)
       PROVE  TypeOK'
  <2>1. task[t].session \in Session /\ task[t].pair \in Pair
    BY <1>14 DEF StartSend, TaskInv, TaskKnows
  <2>2. StartNote(task[t].session) \in Note
    BY <2>1 DEF StartNote, Note
  <2>3. inbox' \in [Socket -> SUBSET Note]
    BY <1>14, <2>2, SendAdds DEF StartSend, TypeOK
  <2>4. QED
    BY <1>14, <2>1, <2>3, TaskRecUpdates DEF StartSend, Finish, TypeOK, dbvars
<1>15. ASSUME NEW t \in Task, EndFind(t)
       PROVE  TypeOK'
  <2>1. session[task[t].session].pair \in Pair \cup {None}
    BY <1>15 DEF EndFind, TaskInv, TaskKnows, TypeOK, SessionRow
  <2>2. [task[t] EXCEPT !.at = "endPair", !.pair = session[task[t].session].pair] \in TaskRec
    BY <1>0, <2>1, TaskRecUpdates
  <2>3. QED
    BY <1>15, <2>2, TaskRecUpdates DEF EndFind, TypeOK, dbvars
<1>16. ASSUME NEW t \in Task, EndPair(t)
       PROVE  TypeOK'
  BY <1>0, <1>16, TaskRecUpdates DEF EndPair, Goto, Finish, TypeOK, dbvars
<1>17. ASSUME NEW t \in Task, EndUpdate(t)
       PROVE  TypeOK'
  <2>1. task[t].session \in Session
    BY <1>17 DEF EndUpdate, TaskInv, TaskKnows
  <2>2. PICK st : /\ st \in {session[task[t].session].status, "ended"}
                  /\ st # session[task[t].session].status
                        => session[task[t].session].status = "active"
                  /\ session' = [session EXCEPT ![task[t].session].status = st]
    BY <1>17 DEF EndUpdate
  <2>3. /\ session[task[t].session] \in SessionRow
        /\ [session[task[t].session] EXCEPT !.status = st] \in SessionRow
    BY <2>1, <2>2 DEF TypeOK, SessionRow
  <2>4. session' \in [Session -> SessionRow]
    BY <2>1, <2>2, <2>3 DEF TypeOK
  <2>5. \A y \in Session : session'[y].pair = None <=> session'[y].status = "none"
    BY <2>1, <2>2, <2>3 DEF TypeOK, SessionRow
  <2>6. QED
    BY <1>0, <1>17, <2>4, <2>5, TaskRecUpdates DEF EndUpdate, Goto, TypeOK
<1>18. ASSUME NEW t \in Task, EndSend(t)
       PROVE  TypeOK'
  <2>1. task[t].session \in Session
    BY <1>18 DEF EndSend, TaskInv, TaskKnows
  <2>2. EndNote(task[t].session) \in Note
    BY <2>1 DEF EndNote, Note
  <2>3. inbox' \in [Socket -> SUBSET Note]
    BY <1>18, <2>2, SendAdds DEF EndSend, TypeOK
  <2>4. QED
    BY <1>18, <2>1, <2>3, TaskRecUpdates DEF EndSend, Finish, TypeOK, dbvars
<1>19. ASSUME NEW t \in Task, RelayFind(t)
       PROVE  TypeOK'
  <2>1. session[task[t].session].pair \in Pair \cup {None}
    BY <1>19 DEF RelayFind, TaskInv, TaskKnows, TypeOK, SessionRow
  <2>2. [task[t] EXCEPT !.at = "relayPair", !.pair = session[task[t].session].pair] \in TaskRec
    BY <1>0, <2>1, TaskRecUpdates
  <2>3. QED
    BY <1>19, <2>2, TaskRecUpdates DEF RelayFind, TypeOK, dbvars
<1>20. ASSUME NEW t \in Task, RelayPair(t)
       PROVE  TypeOK'
  BY <1>0, <1>20, TaskRecUpdates DEF RelayPair, Goto, Finish, TypeOK, dbvars
<1>21. ASSUME NEW t \in Task, RelaySend(t)
       PROVE  TypeOK'
  <2>1. /\ task[t].session \in Session
        /\ task[t].pair \in Pair
        /\ DeviceOfTask(t) \in Device
    BY <1>21, SocketAssumption DEF RelaySend, TaskInv, TaskKnows, DeviceOfTask
  <2>2. RelayNote(task[t].session, DeviceOfTask(t)) \in Note
    BY <2>1 DEF RelayNote, Note
  <2>3. inbox' \in [Socket -> SUBSET Note]
    BY <1>21, <2>2, SendAdds DEF RelaySend, TypeOK
  <2>4. QED
    BY <1>21, <2>1, <2>3, TaskRecUpdates DEF RelaySend, Finish, TypeOK, dbvars
<1>22. CASE UNCHANGED vars
  BY <1>22 DEF vars, dbvars, TypeOK
<1>23. QED
  BY <1>1, <1>2, <1>3, <1>4, <1>5, <1>6, <1>7, <1>8, <1>9, <1>10, <1>11, <1>12, <1>13, <1>14,
     <1>15, <1>16, <1>17, <1>18, <1>19, <1>20, <1>21, <1>22
     DEF Next, Environment, Step

-----------------------------------------------------------------------------
(***************************************************************************)
(* The cache, the handlers, and the properties themselves.                 *)
(***************************************************************************)

\* The steps that write the cache.
LEMMA CacheFrame ==
    ASSUME [Next]_vars
    PROVE  \/ UNCHANGED cache
           \/ cache' = [x \in Session |-> None]
           \/ \E t \in Task : StartSend(t) \/ EndSend(t) \/ RelaySend(t)
  BY DEF Next, Environment, Step, vars, dbvars, Approve, DeleteDevice, Connect, Close, Restart,
         RecvStart, RecvEnd, RelayHit, RelayMiss, Fail, StartFind, CreateSession, CreateThrows,
         EndFind, EndPair, EndUpdate, RelayFind, RelayPair

\* A late fill of the cache is as true as the first: a row keeps its pair.
LEMMA CacheStep ==
    ASSUME TypeOK, CacheTrue, TaskInv, [Next]_vars
    PROVE  CacheTrue'
<1>1. ASSUME NEW x \in Session, cache'[x] # None
      PROVE  session[x].pair # None /\ cache'[x] = session[x].pair
  <2>1. CASE UNCHANGED cache
    BY <1>1, <2>1 DEF CacheTrue
  <2>2. CASE cache' = [y \in Session |-> None]
    BY <1>1, <2>2
  <2>3. ASSUME NEW t \in Task, StartSend(t) \/ RelaySend(t)
        PROVE  session[x].pair # None /\ cache'[x] = session[x].pair
    <3>1. /\ session[task[t].session].pair = task[t].pair
          /\ task[t].pair \in Pair
      BY <2>3 DEF StartSend, RelaySend, TaskInv, TaskKnows
    <3>2. cache' = [cache EXCEPT ![task[t].session] = task[t].pair]
      BY <2>3 DEF StartSend, RelaySend
    <3>3. QED
      BY <1>1, <3>1, <3>2, NoneAssumption DEF TypeOK, CacheTrue
  <2>4. ASSUME NEW t \in Task, EndSend(t)
        PROVE  session[x].pair # None /\ cache'[x] = session[x].pair
    BY <1>1, <2>4 DEF EndSend, TypeOK, CacheTrue
  <2>5. QED
    BY <2>1, <2>2, <2>3, <2>4, CacheFrame
<1>2. QED
  BY <1>1, SessionPairKept DEF CacheTrue

\* What a handler knows stays true over its own steps and over everybody else's.
LEMMA TaskStep ==
    ASSUME TypeOK, TaskInv, [Next]_vars
    PROVE  TaskInv'
<1>1. SUFFICES ASSUME NEW t \in Task
               PROVE  TaskKnows(t)'
  BY DEF TaskInv
<1>2. TaskKnows(t)
  BY DEF TaskInv
<1>3. task[t] \in TaskRec
  BY DEF TypeOK
<1>4. CASE task'[t] = task[t]
  <2>1. task[t].at = "startCreate" => pair'[task[t].pair] \in {"approved", "gone"}
    BY <1>2, PairStays DEF TaskKnows
  <2>2. task[t].at \in {"startSend", "endPair", "endUpdate", "endSend", "relayPair", "relaySend"}
            => session'[task[t].session].pair = task[t].pair
    BY <1>2, SessionPairKept, NoneAssumption DEF TaskKnows
  <2>3. QED
    BY <1>2, <1>4, <2>1, <2>2 DEF TaskKnows
<1>5. CASE task'[t] = Idle
  BY <1>5 DEF TaskKnows, Idle
<1>6. ASSUME NEW s \in Socket, NEW p \in Pair, RecvStart(t, s, p)
      PROVE  TaskKnows(t)'
  BY <1>3, <1>6 DEF RecvStart, TaskKnows, Idle, TypeOK
<1>7. ASSUME NEW s \in Socket, NEW x \in Session, RecvEnd(t, s, x) \/ RelayMiss(t, s, x)
      PROVE  TaskKnows(t)'
  <2>1. CASE RecvEnd(t, s, x)
    BY <1>3, <2>1 DEF RecvEnd, TaskKnows, Idle, TypeOK
  <2>2. CASE RelayMiss(t, s, x)
    BY <1>3, <2>2 DEF RelayMiss, TaskKnows, Idle, TypeOK
  <2>3. QED
    BY <1>7, <2>1, <2>2
<1>8. CASE StartFind(t)
  BY <1>2, <1>3, <1>8 DEF StartFind, Goto, Finish, Idle, TaskKnows, TaskRec, TypeOK, dbvars
<1>9. ASSUME NEW x \in Session, CreateSession(t, x)
      PROVE  TaskKnows(t)'
  <2>1. task'[t] = [task[t] EXCEPT !.at = "startSend", !.session = x]
    BY <1>9 DEF CreateSession, TypeOK
  <2>2. session'[x].pair = task[t].pair
    BY <1>9 DEF CreateSession, TypeOK
  <2>3. task'[t].at = "startSend" /\ task'[t].session = x
    BY <1>3, <2>1 DEF TaskRec
  <2>4. task'[t].pair = task[t].pair /\ task'[t].sock = task[t].sock
    BY <1>3, <2>1 DEF TaskRec
  <2>5. task[t].at = "startCreate"
    BY <1>9 DEF CreateSession
  <2>6. QED
    BY <1>2, <2>2, <2>3, <2>4, <2>5 DEF TaskKnows
<1>10. CASE EndFind(t) \/ RelayFind(t)
  <2>1. task[t].session \in Session /\ task[t].sock \in Socket
    BY <1>2, <1>10 DEF EndFind, RelayFind, TaskKnows
  <2>2. UNCHANGED session
    BY <1>10 DEF EndFind, RelayFind, dbvars
  <2>3. CASE session[task[t].session].status \in {"active", "ended"}
    <3>1. session[task[t].session].pair \in Pair
      BY <2>1, <2>3 DEF TypeOK, SessionRow
    <3>2. \E at \in {"endPair", "relayPair"} :
              task'[t] \in {[task[t] EXCEPT !.at = at,
                                            !.pair = session[task[t].session].pair], Idle}
      BY <1>10, <2>3 DEF EndFind, RelayFind, TypeOK
    <3>3. QED
      BY <1>3, <1>5, <2>1, <2>2, <3>1, <3>2 DEF TaskKnows, TaskRec
  <2>4. CASE session[task[t].session].status \notin {"active", "ended"}
    BY <1>5, <1>10, <2>4 DEF EndFind, RelayFind, Relayable, TypeOK
  <2>5. QED
    BY <2>3, <2>4
<1>11. CASE EndPair(t) \/ RelayPair(t)
  <2>1. \/ task[t].at = "endPair" /\ task'[t] = [task[t] EXCEPT !.at = "endUpdate"]
        \/ task[t].at = "relayPair" /\ task'[t] = [task[t] EXCEPT !.at = "relaySend"]
        \/ task'[t] = Idle
    BY <1>11 DEF EndPair, RelayPair, Goto, Finish, TypeOK
  <2>2. UNCHANGED session
    BY <1>11 DEF EndPair, RelayPair, dbvars
  <2>3. QED
    BY <1>2, <1>3, <1>5, <2>1, <2>2 DEF TaskKnows, TaskRec
<1>12. CASE EndUpdate(t)
  <2>1. task[t].at = "endUpdate" /\ task'[t] = [task[t] EXCEPT !.at = "endSend"]
    BY <1>12 DEF EndUpdate, Goto, TypeOK
  <2>2. session'[task[t].session].pair = task[t].pair
    BY <1>2, <2>1, SessionPairKept, NoneAssumption DEF TaskKnows
  <2>3. QED
    BY <1>2, <1>3, <2>1, <2>2 DEF TaskKnows, TaskRec
<1>13. ASSUME NEW u \in Task, u # t, Step(u) \/ Fail(u)
       PROVE  task'[t] = task[t]
  BY <1>13 DEF Step, Fail, TypeOK, Goto, Finish, StartFind, CreateSession, CreateThrows, StartSend,
     EndFind, EndPair, EndUpdate, EndSend, RelayFind, RelayPair, RelaySend
<1>14. ASSUME NEW u \in Task, NEW s \in Socket, u # t,
              \/ \E p \in Pair : RecvStart(u, s, p)
              \/ \E x \in Session : RecvEnd(u, s, x) \/ RelayMiss(u, s, x)
       PROVE  task'[t] = task[t]
  BY <1>14 DEF TypeOK, RecvStart, RecvEnd, RelayMiss
<1>15. CASE CreateThrows(t) \/ StartSend(t) \/ EndSend(t) \/ RelaySend(t) \/ Fail(t) \/ Restart
  BY <1>5, <1>15 DEF CreateThrows, StartSend, EndSend, RelaySend, Fail, Restart, Finish, TypeOK
<1>16. CASE \/ UNCHANGED vars
            \/ \E p \in Pair : Approve(p)
            \/ \E d \in Device : DeleteDevice(d)
            \/ \E s \in Socket : Connect(s) \/ Close(s) \/ \E x \in Session : RelayHit(s, x)
  BY <1>4, <1>16 DEF vars, Approve, DeleteDevice, Connect, Close, RelayHit
<1>17. QED
  BY <1>4, <1>6, <1>7, <1>8, <1>9, <1>10, <1>11, <1>12, <1>13, <1>14, <1>15, <1>16
     DEF Next, Environment, Step

\* The sends of a step go to one end of a pair, from the other.
LEMMA RelayStep ==
    ASSUME TypeOK, CacheTrue, TaskInv, RelayConfined, [Next]_vars
    PROVE  RelayConfined'
<1>1. SUFFICES ASSUME NEW s \in Socket, NEW n \in inbox'[s], n.type = "webrtc"
               PROVE  /\ n.session \in Session
                      /\ session[n.session].pair \in Pair
                      /\ Ends(session[n.session].pair) = {DeviceOf[s], n.from}
                      /\ DeviceOf[s] # n.from
  BY <1>1, SessionPairKept, NoneAssumption DEF RelayConfined
<1>2. CASE n \in inbox[s]
  <2>1. n \in Note
    BY <1>2 DEF TypeOK
  <2>2. n.session \in Session
    BY <1>1, <2>1, NoneAssumption DEF Note
  <2>3. QED
    BY <1>1, <1>2, <2>2 DEF RelayConfined, TypeOK, SessionRow
<1>3. ASSUME NEW z \in Socket, NEW x \in Session, RelayHit(z, x), n \notin inbox[s]
      PROVE  /\ n.session \in Session
             /\ session[n.session].pair \in Pair
             /\ Ends(session[n.session].pair) = {DeviceOf[s], n.from}
             /\ DeviceOf[s] # n.from
  <2>1. RelayNote(x, DeviceOf[z]) \in Note
    BY SocketAssumption DEF RelayNote, Note
  <2>2. n = RelayNote(x, DeviceOf[z]) /\ DeviceOf[s] \in Partner(cache[x], DeviceOf[z])
    BY <1>3, <2>1, SendAdds DEF RelayHit, TypeOK
  <2>3. cache[x] \in Pair /\ cache[x] = session[x].pair
    BY <1>3 DEF RelayHit, TypeOK, CacheTrue
  <2>4. QED
    BY <2>2, <2>3, PartnerIsOther DEF RelayNote
<1>4. ASSUME NEW t \in Task, RelaySend(t), n \notin inbox[s]
      PROVE  /\ n.session \in Session
             /\ session[n.session].pair \in Pair
             /\ Ends(session[n.session].pair) = {DeviceOf[s], n.from}
             /\ DeviceOf[s] # n.from
  <2>1. /\ task[t].session \in Session
        /\ task[t].pair \in Pair
        /\ task[t].pair = session[task[t].session].pair
        /\ DeviceOfTask(t) \in Device
    BY <1>4, SocketAssumption DEF RelaySend, TaskInv, TaskKnows, DeviceOfTask
  <2>2. RelayNote(task[t].session, DeviceOfTask(t)) \in Note
    BY <2>1 DEF RelayNote, Note
  <2>3. /\ n = RelayNote(task[t].session, DeviceOfTask(t))
        /\ DeviceOf[s] \in Partner(task[t].pair, DeviceOfTask(t))
    BY <1>4, <2>2, SendAdds DEF RelaySend, TypeOK
  <2>4. QED
    BY <2>1, <2>3, PartnerIsOther DEF RelayNote
<1>5. ASSUME NEW t \in Task, StartSend(t) \/ EndSend(t)
      PROVE  n \in inbox[s]
  <2>1. task[t].session \in Session
    BY <1>5 DEF StartSend, EndSend, TaskInv, TaskKnows
  <2>2. \E note \in {StartNote(task[t].session), EndNote(task[t].session)} :
            \E D, S : Send(D, S, note)
    BY <1>5 DEF StartSend, EndSend
  <2>3. PICK note \in {StartNote(task[t].session), EndNote(task[t].session)} :
            \E D, S : Send(D, S, note)
    BY <2>2
  <2>4. PICK D, S : Send(D, S, note)
    BY <2>3
  <2>5. note \in Note /\ note.type # "webrtc"
    BY <2>1, <2>3 DEF StartNote, EndNote, Note
  <2>6. QED
    BY <1>1, <2>4, <2>5, SendAdds DEF TypeOK
<1>6. CASE \/ UNCHANGED inbox
           \/ \E z \in Socket : Connect(z) \/ Close(z)
           \/ Restart
  BY <1>1, <1>2, <1>6 DEF Connect, Close, Restart, TypeOK
<1>7. \/ UNCHANGED inbox
      \/ \E z \in Socket : Connect(z) \/ Close(z) \/ \E x \in Session : RelayHit(z, x)
      \/ Restart
      \/ \E t \in Task : StartSend(t) \/ EndSend(t) \/ RelaySend(t)
  BY DEF Next, Environment, Step, vars, Approve, DeleteDevice, RecvStart, RecvEnd, RelayMiss, Fail,
     StartFind, CreateSession, CreateThrows, EndFind, EndPair, EndUpdate, RelayFind, RelayPair
<1>8. QED
  BY <1>2, <1>3, <1>4, <1>5, <1>6, <1>7

\* The INSERT is one statement after the check of the pair; its foreign key
\* closes the gap, and the cascade takes the sessions of a pair along.
LEMMA HasPairStep ==
    ASSUME TypeOK, TaskInv, SessionHasPair, [Next]_vars
    PROVE  SessionHasPair'
<1>1. SUFFICES ASSUME NEW x \in Session, session'[x].status \in {"active", "ended"}
               PROVE  pair'[session'[x].pair] = "approved"
  BY DEF SessionHasPair
<1>2. CASE session[x].status \in {"active", "ended"}
  <2>1. session[x].pair \in Pair /\ pair[session[x].pair] = "approved"
    BY <1>2 DEF SessionHasPair, TypeOK, SessionRow
  <2>2. session'[x].pair = session[x].pair
    BY <2>1, SessionPairKept, NoneAssumption
  <2>3. ASSUME NEW d \in Device, DeleteDevice(d), d \in Ends(session[x].pair)
        PROVE  FALSE
    <3>1. x \in Cascade(d)
      BY <1>2, <2>3 DEF Cascade
    <3>2. session'[x] = [session[x] EXCEPT !.status = "gone"] /\ session[x] \in SessionRow
      BY <2>3, <3>1 DEF DeleteDevice, TypeOK
    <3>3. QED
      BY <1>1, <3>2 DEF SessionRow
  <2>4. ~ Approve(session[x].pair)
    BY <2>1 DEF Approve
  <2>5. QED
    BY <2>1, <2>2, <2>3, <2>4, PairStays
<1>3. CASE session[x].status \notin {"active", "ended"}
  <2>1. ASSUME NEW d \in Device, DeleteDevice(d)
        PROVE  FALSE
    <3>1. session'[x] \in {session[x], [session[x] EXCEPT !.status = "gone"]}
      BY <2>1 DEF DeleteDevice
    <3>2. session[x] \in SessionRow
      BY DEF TypeOK
    <3>3. QED
      BY <1>1, <1>3, <3>1, <3>2 DEF SessionRow
  <2>2. ASSUME NEW t \in Task, NEW y \in Session, CreateSession(t, y)
        PROVE  pair'[session'[x].pair] = "approved"
    <3>1. /\ task[t].pair \in Pair
          /\ pair[task[t].pair] = "approved"
      BY <2>2 DEF CreateSession, TaskInv, TaskKnows
    <3>2. session'[x] = [status |-> "active", pair |-> task[t].pair] /\ UNCHANGED pair
      BY <1>1, <1>3, <2>2 DEF CreateSession, TypeOK
    <3>3. QED
      BY <3>1, <3>2
  <2>3. ASSUME NEW t \in Task, EndUpdate(t)
        PROVE  FALSE
    <3>1. session'[x].status = session[x].status
      BY <1>3, <2>3 DEF EndUpdate, TypeOK, SessionRow
    <3>2. QED
      BY <1>1, <1>3, <3>1
  <2>4. QED
    BY <1>1, <1>3, <2>1, <2>2, <2>3, SessionFrame
<1>4. QED
  BY <1>2, <1>3

-----------------------------------------------------------------------------
(***************************************************************************)
(* The theorems.                                                           *)
(***************************************************************************)

\* The invariant holds when the backend starts on empty tables.
LEMMA InitIInv == Init => IInv
  BY NoneAssumption
     DEF Init, IInv, TypeOK, CacheTrue, TaskInv, TaskKnows, RelayConfined, SessionHasPair,
         SessionRow, NoSession, TaskRec, Idle

\* Every step of every handler, and of the world around them, keeps it.
LEMMA StepIInv == IInv /\ [Next]_vars => IInv'
  BY TypeStep, CacheStep, TaskStep, RelayStep, HasPairStep DEF IInv

\* The invariant holds throughout (signaling.ts, handleSessionStart,
\* handleSessionEnd and relayWebrtcMessage, over sessionCache.ts).
THEOREM Invariance == Spec => []IInv
  BY InitIInv, StepIInv, PTL DEF Spec

\* Rows, cache, sockets, inboxes and handlers stay well typed; a device never
\* has two open sockets.
THEOREM TypeCorrect == Spec => []TypeOK
<1>1. IInv => TypeOK
  BY DEF IInv
<1>2. QED
  BY <1>1, Invariance, PTL

\* A webrtc message of a session passes only between the two devices of its
\* pair, for any number of devices, sessions, sockets and handlers, with
\* restarts, failed statements, replaced sockets and deleted devices.
THEOREM RelayIsConfined == Spec => []RelayConfined
<1>1. IInv => RelayConfined
  BY DEF IInv
<1>2. QED
  BY <1>1, Invariance, PTL

\* The cache, which authorises a relay without a look at the tables, never
\* disagrees with the session's row about the pair.
THEOREM CacheIsTrue == Spec => []CacheTrue
<1>1. IInv => CacheTrue
  BY DEF IInv
<1>2. QED
  BY <1>1, Invariance, PTL

\* A session that exists is of an approved pair that exists.
THEOREM SessionsHavePairs == Spec => []SessionHasPair
<1>1. IInv => SessionHasPair
  BY DEF IInv
<1>2. QED
  BY <1>1, Invariance, PTL

=============================================================================
