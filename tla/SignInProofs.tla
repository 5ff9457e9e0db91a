----------------------------- MODULE SignInProofs -----------------------------
(***************************************************************************)
(* Proofs about RefreshTokens and SignIn: the rotation of refresh tokens,  *)
(* for any tokens and numbers of handlers running at once, whatever the    *)
(* client does, and the clients that drive it.                             *)
(***************************************************************************)
EXTENDS SignIn, TLAPS

-----------------------------------------------------------------------------
(***************************************************************************)
(* Part 1: the table and its handlers.  A step of theirs, for any client:  *)
(* one of Next, or a request that is forgotten.                            *)
(***************************************************************************)
Forgotten(t) == task' = [task EXCEPT ![t] = Idle] /\ UNCHANGED <<row, issued>>
TableStep    == Next \/ \E t \in Task : Forgotten(t)

\* A client presents a token; a handler finds it to be live.
Presented(t, k) ==
    /\ \/ task' = [task EXCEPT ![t] = [at |-> "find", token |-> k, new |-> None]]
       \/ task' = [task EXCEPT ![t] = [at |-> "logoutFind", token |-> k, new |-> None]]
    /\ UNCHANGED <<row, issued>>

Found(t) ==
    /\ \/ /\ task[t].at = "find"
          /\ task' = [task EXCEPT ![t] = [task[t] EXCEPT !.at = "create"]]
       \/ /\ task[t].at = "logoutFind"
          /\ task' = [task EXCEPT ![t] = [task[t] EXCEPT !.at = "logoutRevoke"]]
    /\ UNCHANGED <<row, issued>>

\* A token belongs to the login its chain of rotations began with.
Chained ==
    \A k \in Token :
        IF row[k].status = "none" THEN row[k] = NoRow
        ELSE /\ row[k].login \in Token
             /\ row[row[k].login].login = row[k].login

\* What a running handler knows.  The successor it has inserted and not sent
\* yet is nobody else's, and no request can name it.
Knows(t) ==
    /\ task[t].at # "idle" => task[t].token \in issued
    /\ task[t].at \in {"revoke", "reply"} =>
           /\ task[t].new \in Token
           /\ row[task[t].new].parent = task[t].token
           /\ row[task[t].new].login = row[task[t].token].login
           /\ task[t].new \notin issued
           /\ row[task[t].new].status \in {"active", "expired"}
           /\ \A u \in Task \ {t} : task[u].at \in {"revoke", "reply"} => task[u].new # task[t].new

TableInv ==
    /\ TypeOK
    /\ Chained
    /\ \A t \in Task : Knows(t)
    /\ LoginAlive
    /\ RevokedNamesSuccessor

\* The records a handler's steps leave are handler records.
LEMMA TaskRecUpdates ==
    /\ Idle \in TaskRec
    /\ \A k \in Token, at \in {"find", "logoutFind"} :
           [at |-> at, token |-> k, new |-> None] \in TaskRec
    /\ \A r \in TaskRec, at \in {"create", "reply", "logoutRevoke"} : [r EXCEPT !.at = at] \in TaskRec
    /\ \A r \in TaskRec, k \in Token : [r EXCEPT !.at = "revoke", !.new = k] \in TaskRec
<1>1. Idle \in TaskRec
  BY DEF TaskRec, Idle
<1>2. \A k \in Token, at \in {"find", "logoutFind"} :
          [at |-> at, token |-> k, new |-> None] \in TaskRec
  BY DEF TaskRec
<1>3. \A r \in TaskRec, at \in {"create", "reply", "logoutRevoke"} : [r EXCEPT !.at = at] \in TaskRec
  BY DEF TaskRec
<1>4. \A r \in TaskRec, k \in Token : [r EXCEPT !.at = "revoke", !.new = k] \in TaskRec
  BY DEF TaskRec
<1>5. QED
  BY <1>1, <1>2, <1>3, <1>4

\* So are the rows that the UPDATEs leave.
LEMMA RowUpdates ==
    /\ \A r \in Row, k \in Token : [r EXCEPT !.status = "revoked", !.next = k] \in Row
    /\ \A r \in Row : [r EXCEPT !.status = "loggedOut", !.next = None] \in Row
<1>1. \A r \in Row, k \in Token : [r EXCEPT !.status = "revoked", !.next = k] \in Row
  BY DEF Row
<1>2. \A r \in Row : [r EXCEPT !.status = "loggedOut", !.next = None] \in Row
  BY DEF Row
<1>3. QED
  BY <1>1, <1>2

\* What each kind of step does to the handlers and to the table.
LEMMA TableMoves ==
    ASSUME TypeOK, \A t \in Task : Knows(t), TableStep \/ UNCHANGED vars
    PROVE  \/ UNCHANGED vars
           \/ \E k \in Token : Login(k)
           \/ \E k \in Token : Expire(k)
           \/ \E t \in Task, k \in issued : Presented(t, k)
           \/ \E t \in Task : Found(t)
           \/ \E t \in Task, k \in Token : Create(t, k)
           \/ \E t \in Task : Revoke(t)
           \/ \E t \in Task : Reply(t)
           \/ \E t \in Task : LogoutRevoke(t)
           \/ \E t \in Task : Forgotten(t)
<1>1. ASSUME NEW t \in Task, NEW k \in Token, RecvRefresh(t, k) \/ RecvLogout(t, k)
      PROVE  k \in issued /\ Presented(t, k)
  BY <1>1 DEF RecvRefresh, RecvLogout, Recv, Presented
<1>2. ASSUME NEW t \in Task, Find(t)
      PROVE  Found(t) \/ Forgotten(t)
  BY <1>2 DEF Find, After, Found, Forgotten
<1>3. ASSUME NEW t \in Task, LogoutFind(t)
      PROVE  Found(t) \/ Forgotten(t)
  BY <1>3 DEF LogoutFind, Found, Forgotten
<1>4. ASSUME NEW t \in Task, Fail(t)
      PROVE  Forgotten(t)
  BY <1>4 DEF Fail, Forgotten
<1>5. QED
  BY <1>1, <1>2, <1>3, <1>4 DEF TableStep, Next, Step

\* What one handler may become in a step.
LEMMA TaskMoves ==
    ASSUME TypeOK, \A t \in Task : Knows(t), TableStep \/ UNCHANGED vars, NEW u \in Task
    PROVE  \/ task'[u] = task[u]
           \/ task'[u].at = "idle"
           \/ task'[u].at \in {"find", "logoutFind"} /\ task'[u].token \in issued
           \/ /\ task[u].at # "idle"
              /\ task'[u].at \in {"create", "logoutRevoke"}
              /\ task'[u].token = task[u].token
           \/ /\ task'[u].at = "revoke"
              /\ task'[u].token = task[u].token
              /\ task'[u].new \in Token
              /\ Create(u, task'[u].new)
           \/ /\ Revoke(u)
              /\ task'[u].at = "reply"
              /\ task'[u].token = task[u].token
              /\ task'[u].new = task[u].new
<1>0. task \in [Task -> TaskRec] /\ task[u] \in TaskRec
  BY DEF TypeOK
<1>1. ASSUME NEW k \in Token, Create(u, k)
      PROVE  /\ task'[u].at = "revoke"
             /\ task'[u].token = task[u].token
             /\ task'[u].new = k
  <2>1. task'[u] = [task[u] EXCEPT !.at = "revoke", !.new = k]
    BY <1>0, <1>1 DEF Create, After
  <2>2. QED
    BY <1>0, <2>1 DEF TaskRec
<1>2. CASE Revoke(u)
  <2>1. task'[u] = [task[u] EXCEPT !.at = "reply"]
    BY <1>0, <1>2 DEF Revoke, After
  <2>2. QED
    BY <1>0, <1>2, <2>1 DEF TaskRec
<1>3. CASE Reply(u) \/ LogoutRevoke(u) \/ Forgotten(u)
  BY <1>0, <1>3 DEF Reply, LogoutRevoke, Forgotten, Idle
<1>4. ASSUME NEW k \in issued, Presented(u, k)
      PROVE  task'[u].at \in {"find", "logoutFind"} /\ task'[u].token \in issued
  BY <1>0, <1>4 DEF Presented
<1>5. CASE Found(u)
  <2>1. /\ task[u].at # "idle"
        /\ \/ task'[u] = [task[u] EXCEPT !.at = "create"]
           \/ task'[u] = [task[u] EXCEPT !.at = "logoutRevoke"]
    BY <1>0, <1>5 DEF Found
  <2>2. QED
    BY <1>0, <2>1 DEF TaskRec
<1>6. ASSUME NEW k \in Token, Login(k) \/ Expire(k)
      PROVE  task'[u] = task[u]
  BY <1>6 DEF Login, Expire
<1>7. ASSUME NEW v \in Task \ {u}, NEW k, \/ Create(v, k) \/ Revoke(v) \/ Reply(v) \/ LogoutRevoke(v)
                                        \/ Forgotten(v) \/ Presented(v, k) \/ Found(v)
      PROVE  task'[u] = task[u]
  BY <1>0, <1>7 DEF Create, Revoke, Reply, LogoutRevoke, Forgotten, Presented, Found
<1>8. CASE UNCHANGED vars
  BY <1>8 DEF vars
<1>9. QED
  BY <1>1, <1>2, <1>3, <1>4, <1>5, <1>6, <1>7, <1>8, TableMoves

\* A row keeps the token it was issued for and its login, and is spoilt only by
\* a handler that was presented that very token.
LEMMA RowEvolves ==
    ASSUME TypeOK, \A t \in Task : Knows(t), TableStep \/ UNCHANGED vars,
           NEW k \in Token, row[k].status # "none"
    PROVE  /\ row'[k].status # "none"
           /\ row'[k].parent = row[k].parent
           /\ row'[k].login = row[k].login
           /\ row'[k].status \in {"active", "expired"} \/ row'[k].status = row[k].status
              \/ \E t \in Task : task[t].token = k /\ task[t].at \in {"revoke", "logoutRevoke"}
<1>0. row \in [Token -> Row] /\ row[k] \in Row
  BY DEF TypeOK
<1>1. ASSUME NEW j \in Token, Login(j)
      PROVE  row'[k] = row[k]
  BY <1>0, <1>1 DEF Login
<1>2. ASSUME NEW j \in Token, Expire(j)
      PROVE  row'[k] = row[k] \/ row'[k] = [row[k] EXCEPT !.status = "expired"]
  BY <1>0, <1>2 DEF Expire
<1>3. ASSUME NEW t \in Task, NEW j \in Token, Create(t, j)
      PROVE  row'[k] = row[k]
  BY <1>0, <1>3 DEF Create
<1>4. ASSUME NEW t \in Task, Revoke(t)
      PROVE  \/ row'[k] = row[k]
             \/ /\ task[t].token = k /\ task[t].at = "revoke"
                /\ row'[k] = [row[k] EXCEPT !.status = "revoked", !.next = task[t].new]
  BY <1>0, <1>4 DEF Revoke, Rotation
<1>5. ASSUME NEW t \in Task, LogoutRevoke(t)
      PROVE  \/ row'[k] = row[k]
             \/ /\ task[t].token = k /\ task[t].at = "logoutRevoke"
                /\ row'[k] = [row[k] EXCEPT !.status = "loggedOut", !.next = None]
  BY <1>0, <1>5 DEF LogoutRevoke
<1>6. ASSUME NEW t \in Task, Reply(t) \/ Forgotten(t)
      PROVE  row'[k] = row[k]
  BY <1>6 DEF Reply, Forgotten
<1>7. CASE UNCHANGED vars
  BY <1>7 DEF vars
<1>8. QED
  BY <1>0, <1>1, <1>2, <1>3, <1>4, <1>5, <1>6, <1>7, TableMoves DEF Row, Presented, Found

\* Tokens that were sent to a client stay so; a step sends at most the token
\* of a fresh login or a handler's own successor.
LEMMA IssuedEvolves ==
    ASSUME TypeOK, \A t \in Task : Knows(t), TableStep \/ UNCHANGED vars
    PROVE  /\ issued \subseteq issued'
           /\ \A k \in issued' \ issued :
                  \/ Login(k) /\ k \in Token /\ row[k].status = "none"
                  \/ \E t \in Task : Reply(t) /\ k = task[t].new
<1>1. ASSUME NEW k \in Token, Login(k)
      PROVE  issued' = issued \cup {k} /\ row[k].status = "none"
  BY <1>1 DEF Login
<1>2. ASSUME NEW t \in Task, Reply(t)
      PROVE  issued' = issued \cup {task[t].new}
  BY <1>2 DEF Reply
<1>3. \/ UNCHANGED issued
      \/ \E k \in Token : Login(k)
      \/ \E t \in Task : Reply(t)
  BY TableMoves
     DEF vars, Expire, Create, Revoke, LogoutRevoke, Forgotten, Presented, Found
<1>4. QED
  BY <1>1, <1>2, <1>3

-----------------------------------------------------------------------------
\* Every statement on the table keeps its types.
LEMMA TypeStep ==
    ASSUME TypeOK, \A t \in Task : Knows(t), TableStep \/ UNCHANGED vars
    PROVE  TypeOK'
<1>0. /\ row \in [Token -> Row] /\ task \in [Task -> TaskRec] /\ issued \subseteq Token
      /\ \A t \in Task : task[t] \in TaskRec
  BY DEF TypeOK
<1>1. row' \in [Token -> Row]
  <2>1. ASSUME NEW k \in Token, Login(k)
        PROVE  row' \in [Token -> Row]
    BY <1>0, <2>1 DEF Login, Row
  <2>2. ASSUME NEW k \in Token, Expire(k)
        PROVE  row' \in [Token -> Row]
    <3>1. [row[k] EXCEPT !.status = "expired"] \in Row
      BY <1>0 DEF Row
    <3>2. QED
      BY <1>0, <2>2, <3>1 DEF Expire
  <2>3. ASSUME NEW t \in Task, NEW k \in Token, Create(t, k)
        PROVE  row' \in [Token -> Row]
    <3>1. task[t].token \in Token
      BY <1>0, <2>3 DEF Create, Knows
    <3>2. [status |-> "active", next |-> None, parent |-> task[t].token,
           login |-> row[task[t].token].login] \in Row
      BY <1>0, <3>1 DEF Row
    <3>3. QED
      BY <1>0, <2>3, <3>2 DEF Create
  <2>4. ASSUME NEW t \in Task, Revoke(t)
        PROVE  row' \in [Token -> Row]
    <3>1. task[t].token \in Token /\ task[t].new \in Token
      BY <1>0, <2>4 DEF Revoke, Knows
    <3>2. [row[task[t].token] EXCEPT !.status = "revoked", !.next = task[t].new] \in Row
      BY <1>0, <3>1, RowUpdates
    <3>3. row' = [row EXCEPT ![task[t].token] =
                     [row[task[t].token] EXCEPT !.status = "revoked", !.next = task[t].new]]
      BY <1>0, <2>4, <3>1 DEF Revoke, Rotation
    <3>4. QED
      BY <1>0, <3>2, <3>3
  <2>5. ASSUME NEW t \in Task, LogoutRevoke(t)
        PROVE  row' \in [Token -> Row]
    <3>1. task[t].token \in Token
      BY <1>0, <2>5 DEF LogoutRevoke, Knows
    <3>2. [row[task[t].token] EXCEPT !.status = "loggedOut", !.next = None] \in Row
      BY <1>0, <3>1, RowUpdates
    <3>3. row' = [row EXCEPT ![task[t].token] =
                     [row[task[t].token] EXCEPT !.status = "loggedOut", !.next = None]]
      BY <1>0, <2>5, <3>1 DEF LogoutRevoke
    <3>4. QED
      BY <1>0, <3>2, <3>3
  <2>6. QED
    BY <1>0, <2>1, <2>2, <2>3, <2>4, <2>5, TableMoves DEF vars, Reply, Forgotten, Presented, Found
<1>2. task' \in [Task -> TaskRec]
  <2>1. ASSUME NEW t \in Task, NEW r \in TaskRec, task' = [task EXCEPT ![t] = r]
        PROVE  task' \in [Task -> TaskRec]
    BY <1>0, <2>1
  <2>2. ASSUME NEW t \in Task, NEW k \in Token, Create(t, k)
        PROVE  task' \in [Task -> TaskRec]
    <3>1. [task[t] EXCEPT !.at = "revoke", !.new = k] \in TaskRec
      BY <1>0, TaskRecUpdates
    <3>2. task' = [task EXCEPT ![t] = [task[t] EXCEPT !.at = "revoke", !.new = k]]
      BY <1>0, <2>2 DEF Create, After
    <3>3. QED
      BY <2>1, <3>1, <3>2
  <2>3. ASSUME NEW t \in Task, Revoke(t)
        PROVE  task' \in [Task -> TaskRec]
    <3>1. [task[t] EXCEPT !.at = "reply"] \in TaskRec
      BY <1>0, TaskRecUpdates
    <3>2. task' = [task EXCEPT ![t] = [task[t] EXCEPT !.at = "reply"]]
      BY <1>0, <2>3 DEF Revoke, After
    <3>3. QED
      BY <2>1, <3>1, <3>2
  <2>4. ASSUME NEW t \in Task, Reply(t) \/ LogoutRevoke(t) \/ Forgotten(t)
        PROVE  task' \in [Task -> TaskRec]
    BY <2>1, <2>4, TaskRecUpdates DEF Reply, LogoutRevoke, Forgotten
  <2>5. ASSUME NEW t \in Task, NEW k \in issued, Presented(t, k)
        PROVE  task' \in [Task -> TaskRec]
    BY <1>0, <2>1, <2>5, TaskRecUpdates DEF Presented
  <2>6. ASSUME NEW t \in Task, Found(t)
        PROVE  task' \in [Task -> TaskRec]
    <3>1. /\ [task[t] EXCEPT !.at = "create"] \in TaskRec
          /\ [task[t] EXCEPT !.at = "logoutRevoke"] \in TaskRec
      BY <1>0, TaskRecUpdates
    <3>2. QED
      BY <2>1, <2>6, <3>1 DEF Found
  <2>7. ASSUME NEW k \in Token, Login(k) \/ Expire(k)
        PROVE  task' \in [Task -> TaskRec]
    BY <1>0, <2>7 DEF Login, Expire
  <2>8. QED
    BY <1>0, <2>2, <2>3, <2>4, <2>5, <2>6, <2>7, TableMoves DEF vars
<1>3. issued' \subseteq {k \in Token : row'[k].status # "none"}
  <2>1. ASSUME NEW k \in issued
        PROVE  k \in Token /\ row'[k].status # "none"
    BY <2>1, RowEvolves DEF TypeOK
  <2>2. ASSUME NEW k \in issued' \ issued
        PROVE  k \in Token /\ row'[k].status # "none"
    <3>1. CASE Login(k) /\ k \in Token
      BY <1>0, <3>1 DEF Login
    <3>2. ASSUME NEW t \in Task, Reply(t), k = task[t].new
          PROVE  k \in Token /\ row'[k].status # "none"
      BY <3>2, RowEvolves DEF Reply, Knows
    <3>3. QED
      BY <2>2, <3>1, <3>2, IssuedEvolves
  <2>3. QED
    BY <2>1, <2>2
<1>4. QED
  BY <1>1, <1>2, <1>3 DEF TypeOK

\* A row that is there was there, or is the login's or successor's just inserted.
LEMMA RowBorn ==
    ASSUME TypeOK, \A t \in Task : Knows(t), TableStep \/ UNCHANGED vars,
           NEW k \in Token, row[k].status = "none"
    PROVE  \/ row'[k] = row[k]
           \/ /\ Login(k)
              /\ row'[k].status = "active"
              /\ row'[k].parent = None
              /\ row'[k].login = k
           \/ /\ row'[k].status = "active"
              /\ \E t \in Task : /\ Create(t, k)
                                 /\ task[t].token \in Token \ {k}
                                 /\ row[task[t].token].status # "none"
                                 /\ row'[k].parent = task[t].token
                                 /\ row'[k].login = row[task[t].token].login
<1>0. row \in [Token -> Row] /\ row[k] \in Row
  BY DEF TypeOK
<1>1. ASSUME NEW t \in Task, task[t].at # "idle"
      PROVE  task[t].token \in Token \ {k} /\ row[task[t].token].status # "none"
  BY <1>1 DEF Knows, TypeOK
<1>2. ASSUME NEW j \in Token, Login(j)
      PROVE  \/ row'[k] = row[k]
             \/ /\ j = k
                /\ row'[k].status = "active"
                /\ row'[k].parent = None
                /\ row'[k].login = k
  BY <1>0, <1>2 DEF Login
<1>3. ASSUME NEW t \in Task, NEW j \in Token, Create(t, j)
      PROVE  \/ row'[k] = row[k]
             \/ /\ j = k
                /\ row'[k].status = "active"
                /\ row'[k].parent = task[t].token
                /\ row'[k].login = row[task[t].token].login
  BY <1>0, <1>3 DEF Create
<1>4. ASSUME NEW j \in Token, Expire(j)
      PROVE  row'[k] = row[k]
  BY <1>0, <1>4 DEF Expire
<1>5. ASSUME NEW t \in Task, Revoke(t) \/ LogoutRevoke(t)
      PROVE  row'[k] = row[k]
  BY <1>0, <1>1, <1>5 DEF Revoke, Rotation, LogoutRevoke
<1>6. ASSUME NEW t \in Task, Create(t, k)
      PROVE  task[t].token \in Token \ {k} /\ row[task[t].token].status # "none"
  BY <1>1, <1>6 DEF Create
<1>7. QED
  BY <1>2, <1>3, <1>4, <1>5, <1>6, TableMoves DEF vars, Reply, Forgotten, Presented, Found

\* Every statement on the table keeps each login's chain of successors to an unrevoked token.
LEMMA ChainedStep ==
    ASSUME TypeOK, Chained, \A t \in Task : Knows(t), TableStep \/ UNCHANGED vars
    PROVE  Chained'
<1>1. SUFFICES ASSUME NEW k \in Token
               PROVE  IF row'[k].status = "none" THEN row'[k] = NoRow
                      ELSE /\ row'[k].login \in Token
                           /\ row'[row'[k].login].login = row'[k].login
  BY DEF Chained
<1>2. \A j \in Token : row[j].status # "none" =>
          /\ row[j].login \in Token
          /\ row[row[j].login].login = row[j].login
          /\ row[row[j].login].status # "none"
          /\ row'[row[j].login].login = row[j].login
  <2>1. ASSUME NEW j \in Token, row[j].status # "none"
        PROVE  /\ row[j].login \in Token
               /\ row[row[j].login].login = row[j].login
               /\ row[row[j].login].status # "none"
    BY <2>1, NoneAssumption DEF Chained, NoRow
  <2>2. QED
    BY <2>1, RowEvolves
<1>3. CASE row[k].status # "none"
  BY <1>2, <1>3, RowEvolves
<1>4. CASE row[k].status = "none"
  <2>1. row[k] = NoRow
    BY <1>4 DEF Chained
  <2>2. CASE row'[k] = row[k]
    BY <1>4, <2>1, <2>2
  <2>3. CASE row'[k].status = "active" /\ row'[k].login = k
    BY <2>3
  <2>4. ASSUME NEW t \in Task, task[t].token \in Token, row[task[t].token].status # "none",
               row'[k].status = "active", row'[k].login = row[task[t].token].login
        PROVE  /\ row'[k].status # "none"
               /\ row'[k].login \in Token
               /\ row'[row'[k].login].login = row'[k].login
    BY <1>2, <2>4
  <2>5. QED
    BY <1>4, <2>2, <2>3, <2>4, RowBorn
<1>5. QED
  BY <1>3, <1>4

\* A handler's successor stays live and unheard of until it is sent: only a
\* handler that was presented it could revoke it, and no client can present it.
LEMMA KnowsStep ==
    ASSUME TypeOK, Chained, \A t \in Task : Knows(t), TableStep \/ UNCHANGED vars,
           NEW t \in Task
    PROVE  Knows(t)'
<1>0. /\ task \in [Task -> TaskRec] /\ issued \subseteq Token
      /\ \A k \in issued : row[k].status # "none"
      /\ \A u \in Task : task[u] \in TaskRec
  BY DEF TypeOK
<1>1. ASSUME task[t].at \in {"revoke", "reply"}, ~ Reply(t)
      PROVE  /\ task[t].new \in Token
             /\ row'[task[t].new].parent = task[t].token
             /\ row'[task[t].new].login = row'[task[t].token].login
             /\ task[t].new \notin issued'
             /\ row'[task[t].new].status \in {"active", "expired"}
  <2>1. /\ task[t].new \in Token
        /\ task[t].token \in Token
        /\ row[task[t].token].status # "none"
        /\ row[task[t].new].status # "none"
        /\ Knows(t)
    BY <1>0, <1>1 DEF Knows
  <2>2. /\ row'[task[t].new].parent = task[t].token
        /\ row'[task[t].new].login = row'[task[t].token].login
    BY <1>1, <2>1, RowEvolves DEF Knows
  <2>3. task[t].new \notin issued'
    <3>1. ~ Login(task[t].new)
      BY <2>1 DEF Login
    <3>2. \A u \in Task : Reply(u) => task[u].new # task[t].new
      BY <1>1, <2>1 DEF Reply, Knows
    <3>3. QED
      BY <1>1, <2>1, <3>1, <3>2, IssuedEvolves DEF Knows
  <2>4. \A u \in Task : task[u].at # "idle" => task[u].token # task[t].new
    BY <1>1, <2>1 DEF Knows
  <2>5. row'[task[t].new].status \in {"active", "expired"}
    BY <1>1, <2>1, <2>4, RowEvolves DEF Knows
  <2>6. QED
    BY <2>1, <2>2, <2>3, <2>5
<1>2. task[t].at # "idle" => task[t].token \in issued'
  BY IssuedEvolves DEF Knows
<1>3. ASSUME NEW u \in Task, task'[u].at \in {"revoke", "reply"}
      PROVE  \/ /\ task[u].at \in {"revoke", "reply"}
                /\ task'[u].new = task[u].new
                /\ task'[u].token = task[u].token
                /\ ~ Reply(u)
             \/ /\ task'[u].new \in Token
                /\ Create(u, task'[u].new)
                /\ task'[u].token = task[u].token
  <2>1. Reply(u) => task'[u].at = "idle"
    BY <1>0 DEF Reply, Idle
  <2>2. Revoke(u) => task[u].at = "revoke"
    BY DEF Revoke
  <2>3. QED
    BY <1>3, <2>1, <2>2, TaskMoves
<1>4. ASSUME task'[t].at \in {"revoke", "reply"}
      PROVE  /\ task'[t].new \in Token
             /\ row'[task'[t].new].parent = task'[t].token
             /\ row'[task'[t].new].login = row'[task'[t].token].login
             /\ task'[t].new \notin issued'
             /\ row'[task'[t].new].status \in {"active", "expired"}
             /\ \A u \in Task \ {t} : task'[u].at \in {"revoke", "reply"}
                                          => task'[u].new # task'[t].new
  <2>1. CASE /\ task[t].at \in {"revoke", "reply"} /\ ~ Reply(t)
             /\ task'[t].new = task[t].new /\ task'[t].token = task[t].token
    <3>1. row[task[t].new].status # "none" /\ task[t].new \in Token
      BY <2>1 DEF Knows
    <3>2. ASSUME NEW u \in Task \ {t}, task'[u].at \in {"revoke", "reply"}
          PROVE  task'[u].new # task[t].new
      <4>1. Create(u, task'[u].new) => row[task'[u].new].status = "none"
        BY DEF Create
      <4>2. task[u].at \in {"revoke", "reply"} => task[u].new # task[t].new
        BY <2>1 DEF Knows
      <4>3. QED
        BY <1>3, <3>1, <3>2, <4>1, <4>2
    <3>3. QED
      BY <1>1, <2>1, <3>2
  <2>2. ASSUME NEW k \in Token, k = task'[t].new, Create(t, k), task'[t].token = task[t].token
        PROVE  /\ task'[t].new \in Token
               /\ row'[task'[t].new].parent = task'[t].token
               /\ row'[task'[t].new].login = row'[task'[t].token].login
               /\ task'[t].new \notin issued'
               /\ row'[task'[t].new].status \in {"active", "expired"}
               /\ \A u \in Task \ {t} : task'[u].at \in {"revoke", "reply"}
                                            => task'[u].new # task'[t].new
    <3>1. /\ row[k].status = "none"
          /\ task[t].token \in Token
          /\ row[task[t].token].status # "none"
          /\ issued' = issued
      BY <1>0, <2>2 DEF Create, Knows
    <3>2. row'[k] = [status |-> "active", next |-> None, parent |-> task[t].token,
                     login |-> row[task[t].token].login]
      BY <2>2 DEF Create, TypeOK
    <3>3. row'[task[t].token] = row[task[t].token]
      BY <2>2, <3>1 DEF Create, TypeOK
    <3>4. \A u \in Task \ {t} : task'[u] = task[u]
      BY <1>0, <2>2 DEF Create
    <3>5. \A u \in Task \ {t} : task[u].at \in {"revoke", "reply"} => task[u].new # k
      BY <3>1 DEF Knows
    <3>6. QED
      BY <1>0, <2>2, <3>1, <3>2, <3>3, <3>4, <3>5
  <2>3. QED
    BY <1>3, <1>4, <2>1, <2>2
<1>5. task'[t].at # "idle" => task'[t].token \in issued'
  <2>1. Create(t, task'[t].new) \/ Revoke(t) => task[t].at # "idle"
    BY DEF Create, Revoke
  <2>2. QED
    BY <1>2, <2>1, TaskMoves, IssuedEvolves
<1>6. QED
  BY <1>4, <1>5 DEF Knows

\* A revocation leaves its successor as the live token of the login.
LEMMA LoginAliveStep ==
    ASSUME TypeOK, Chained, \A t \in Task : Knows(t), LoginAlive, TableStep \/ UNCHANGED vars
    PROVE  LoginAlive'
<1>1. SUFFICES ASSUME NEW k \in Token, row'[k].login = k
               PROVE  \E c \in Token : /\ row'[c].login = k
                                      /\ row'[c].status \in {"active", "expired", "loggedOut"}
  BY DEF LoginAlive
<1>2. CASE row[k].status = "none"
  <2>1. row[k].login = None
    BY <1>2 DEF Chained, NoRow
  <2>2. ASSUME NEW t \in Task, task[t].token \in Token \ {k}, row[task[t].token].status # "none",
               row[task[t].token].login = k
        PROVE  FALSE
    BY <1>2, <2>1, <2>2, NoneAssumption DEF Chained
  <2>3. row'[k].status = "active"
    BY <1>1, <1>2, <2>1, <2>2, RowBorn, NoneAssumption
  <2>4. QED
    BY <1>1, <2>3
<1>3. CASE row[k].status # "none"
  <2>1. row[k].login = k
    BY <1>1, <1>3, RowEvolves
  <2>2. PICK c \in Token : /\ row[c].login = k
                          /\ row[c].status \in {"active", "expired", "loggedOut"}
    BY <2>1 DEF LoginAlive
  <2>3. row'[c].login = k
    BY <2>2, RowEvolves
  <2>4. CASE row'[c].status \in {"active", "expired", "loggedOut"}
    BY <2>3, <2>4
  <2>5. CASE row'[c].status \notin {"active", "expired", "loggedOut"}
    <3>1. PICK t \in Task : Revoke(t) /\ task[t].token = c
      <4>1. ASSUME NEW j \in Token, Login(j) \/ Expire(j)
            PROVE  row'[c].status \in {row[c].status, "active", "expired"}
        BY <2>2, <4>1 DEF Login, Expire, TypeOK, Row
      <4>2. ASSUME NEW t \in Task, NEW j \in Token, Create(t, j)
            PROVE  row'[c].status \in {row[c].status, "active"}
        BY <2>2, <4>2 DEF Create, TypeOK, Row
      <4>3. ASSUME NEW t \in Task, LogoutRevoke(t)
            PROVE  row'[c].status \in {row[c].status, "loggedOut"}
        BY <2>2, <4>3 DEF LogoutRevoke, TypeOK, Row
      <4>4. ASSUME NEW t \in Task, Revoke(t), task[t].token # c
            PROVE  row'[c] = row[c]
        BY <2>2, <4>4 DEF Revoke, Rotation, TypeOK
      <4>5. ASSUME UNCHANGED row
            PROVE  row'[c].status = row[c].status
        BY <4>5
      <4>6. QED
        BY <2>2, <2>5, <4>1, <4>2, <4>3, <4>4, <4>5, TableMoves
           DEF vars, Reply, Forgotten, Presented, Found
    <3>2. /\ task[t].at = "revoke"
          /\ task[t].new \in Token
          /\ row[task[t].new].login = k
          /\ row[task[t].new].status \in {"active", "expired"}
          /\ task[t].new # c
      BY <2>2, <3>1 DEF Revoke, Knows
    <3>3. row'[task[t].new] = row[task[t].new]
      BY <3>1, <3>2 DEF Revoke, Rotation, TypeOK
    <3>4. QED
      BY <3>2, <3>3
  <2>6. QED
    BY <2>4, <2>5
<1>4. QED
  BY <1>2, <1>3

\* The pointer a revocation writes is its own handler's successor, and a
\* successor's row never forgets what it was issued for.
LEMMA RevokedStep ==
    ASSUME TypeOK, Chained, \A t \in Task : Knows(t), RevokedNamesSuccessor,
           TableStep \/ UNCHANGED vars
    PROVE  RevokedNamesSuccessor'
<1>0. row \in [Token -> Row] /\ \A k \in Token : row[k] \in Row
  BY DEF TypeOK
<1>1. SUFFICES ASSUME NEW k \in Token, row'[k].status = "revoked"
               PROVE  /\ row'[k].next # None
                      /\ row'[row'[k].next].parent = k
                      /\ row'[row'[k].next].login = row'[k].login
  BY DEF RevokedNamesSuccessor
<1>2. row[k].status # "none"
  BY <1>1, RowBorn
<1>3. CASE row'[k] = row[k]
  <2>1. /\ row[k].next \in Token
        /\ row[row[k].next].parent = k
        /\ row[row[k].next].login = row[k].login
    BY <1>0, <1>1, <1>3 DEF RevokedNamesSuccessor, Row
  <2>2. row[row[k].next].status # "none"
    BY <2>1, NoneAssumption DEF Chained, NoRow
  <2>3. QED
    BY <1>3, <2>1, <2>2, RowEvolves, NoneAssumption
<1>4. ASSUME NEW t \in Task, Revoke(t), task[t].token = k
      PROVE  /\ row'[k].next # None
             /\ row'[row'[k].next].parent = k
             /\ row'[row'[k].next].login = row'[k].login
  <2>1. /\ task[t].new \in Token
        /\ row[task[t].new].parent = k
        /\ row[task[t].new].login = row[k].login
        /\ row[task[t].new].status # "none"
    BY <1>4 DEF Revoke, Knows
  <2>2. row'[k] = [row[k] EXCEPT !.status = "revoked", !.next = task[t].new]
    BY <1>0, <1>4 DEF Revoke, Rotation
  <2>3. row'[k].next = task[t].new
    BY <1>0, <2>2 DEF Row
  <2>4. row'[k].login = row[k].login
    BY <1>2, RowEvolves
  <2>5. QED
    BY <2>1, <2>3, <2>4, RowEvolves, NoneAssumption
<1>5. ASSUME NEW t \in Task, Revoke(t), task[t].token # k
      PROVE  row'[k] = row[k]
  BY <1>0, <1>5 DEF Revoke, Rotation
<1>6. ASSUME NEW t \in Task, LogoutRevoke(t)
      PROVE  row'[k] = row[k]
  BY <1>0, <1>1, <1>6 DEF LogoutRevoke, Row
<1>7. ASSUME NEW j \in Token, Login(j) \/ Expire(j)
      PROVE  row'[k] = row[k]
  BY <1>0, <1>1, <1>7 DEF Login, Expire, Row
<1>8. ASSUME NEW t \in Task, NEW j \in Token, Create(t, j)
      PROVE  row'[k] = row[k]
  BY <1>0, <1>1, <1>8 DEF Create, Row
<1>9. QED
  BY <1>3, <1>4, <1>5, <1>6, <1>7, <1>8, TableMoves DEF vars, Reply, Forgotten, Presented, Found

\* The invariant holds of an empty table, and every step keeps it.
LEMMA TableInvInit == Init => TableInv
  BY NoneAssumption
     DEF Init, TableInv, TypeOK, Chained, Knows, LoginAlive, RevokedNamesSuccessor, NoRow, Row,
         TaskRec, Idle

\* The table's invariant is inductive.
LEMMA TableInvStep == TableInv /\ (TableStep \/ UNCHANGED vars) => TableInv'
  BY TypeStep, ChainedStep, KnowsStep, LoginAliveStep, RevokedStep DEF TableInv

-----------------------------------------------------------------------------
(***************************************************************************)
(* The theorems about the table alone, whoever its clients are.            *)
(***************************************************************************)
THEOREM TableInvariance == Spec => []TableInv
<1>1. TableInv /\ [Next]_vars => TableInv'
  BY TableInvStep DEF TableStep
<1>2. QED
  BY <1>1, TableInvInit, PTL DEF Spec

\* No race and no failure between the statements leaves a login without a
\* token that is live, has expired, or was logged out.
THEOREM LoginsAlive == Spec => []LoginAlive
<1>1. TableInv => LoginAlive
  BY DEF TableInv
<1>2. QED
  BY <1>1, TableInvariance, PTL

\* The audit trail is sound: a rotated token points at a token that was issued
\* for it, in its login, however refreshes and logouts of it overwrite each other.
THEOREM RevokedNameSuccessors == Spec => []RevokedNamesSuccessor
<1>1. TableInv => RevokedNamesSuccessor
  BY DEF TableInv
<1>2. QED
  BY <1>1, TableInvariance, PTL

-----------------------------------------------------------------------------
(***************************************************************************)
(* Part 2: the clients.  Their steps, one by one, as the proofs need them. *)
(***************************************************************************)

\* What a slot of the client may rely on.
SlotKnows(c) ==
    /\ call[c].fn = "idle" => call[c] = Quiet
    /\ call[c].ans = "token" \/ call[c].at \in {"store", "set"} => call[c].token \in issued
    /\ call[c].at \in {"idle", "read", "store", "set", "delete", "clear"} => call[c].ans = "none"
    /\ call[c].at = "read" => call[c].fn = "boot"

\* Every step of a client is a step of the table, or none.
LEMMA TableSteps ==
    ASSUME LinkTypeOK, SignInNext \/ UNCHANGED all
    PROVE  TableStep \/ UNCHANGED vars
<1>0. issued \subseteq Token /\ {memory, stored} \subseteq issued \cup {None}
  BY DEF LinkTypeOK, TypeOK
<1>1. ASSUME NEW c \in Task, NEW k, RecvRefresh(c, k) \/ RecvLogout(c, k)
      PROVE  TableStep
  <2>1. k \in Token
    BY <1>0, <1>1 DEF RecvRefresh, RecvLogout, Recv
  <2>2. QED
    BY <1>1, <2>1 DEF TableStep, Next
<1>2. ASSUME NEW c \in Task, Serve(c)
      PROVE  TableStep
  BY <1>2 DEF Serve, ServerFind, ServerCreate, ServerReply, ServerLogout, ServerLogin, TableStep,
              Next, Step
<1>3. ASSUME NEW c \in Task, Unreachable(c)
      PROVE  TableStep
  BY <1>3 DEF Unreachable, TableStep, Forgotten
<1>4. ASSUME NEW c \in Task, ServerFails(c)
      PROVE  TableStep
  BY <1>4 DEF ServerFails, TableStep, Next
<1>5. ASSUME NEW c \in Task, AnswerLost(c) \/ LoginLost(c)
      PROVE  UNCHANGED vars
  BY <1>5 DEF AnswerLost, LoginLost
<1>6. CASE Ages
  <2>1. CASE UNCHANGED row
    BY <1>6, <2>1 DEF Ages, vars
  <2>2. ASSUME NEW k \in {stored, memory} \ {None}, Expire(k)
        PROVE  TableStep
    BY <1>0, <2>2 DEF TableStep, Next
  <2>3. QED
    BY <1>6, <2>1, <2>2 DEF Ages
<1>7. CASE Quit
  BY <1>7 DEF Quit
<1>8. ASSUME NEW c \in Task, \/ PhoneLaunch(c) \/ PhoneLogin(c) \/ Store(c) \/ Set(c) \/ Delete(c)
                            \/ Clear(c) \/ MacLogin(c) \/ MacAnswered(c)
      PROVE  UNCHANGED vars
  BY <1>8 DEF PhoneLaunch, PhoneLogin, Store, Set, Delete, Clear, MacLogin, MacAnswered
<1>9. ASSUME NEW c \in Task, BootRead(c) \/ Answered(c)
      PROVE  TableStep \/ UNCHANGED vars
  BY <1>1, <1>9 DEF BootRead, Answered, SignOutNested, Untouched, vars
<1>10. ASSUME NEW c \in Task, \/ PhoneSignOut(c) \/ PhoneRefresh(c) \/ MacLaunch(c)
                             \/ MacSignOut(c) \/ MacRefresh(c)
       PROVE  TableStep \/ UNCHANGED vars
  BY <1>1, <1>10 DEF PhoneSignOut, PhoneRefresh, MacLaunch, MacSignOut, MacRefresh
<1>11. CASE NameMac
  BY <1>11 DEF NameMac
<1>12. CASE UNCHANGED all
  BY <1>12 DEF all, vars2
<1>13. QED
  BY <1>2, <1>3, <1>4, <1>5, <1>6, <1>7, <1>8, <1>9, <1>10, <1>11, <1>12
     DEF SignInNext, Around, PhoneNext, PhoneCall, MacNext

(***************************************************************************)
(* What a step may do to one slot: its function (call) and the handler of  *)
(* its request (task).                                                     *)
(***************************************************************************)
SameTask(u) == task'[u] = task[u]
SameAsk(u)  == call'[u].fn = call[u].fn /\ call'[u].at = call[u].at
Asks(u, fn, at, k) ==
    call'[u].fn = fn /\ call'[u].at = at /\ call'[u].token = k /\ call'[u].ans = "waiting"
Handles(u, at, k) == task'[u].at = at /\ task'[u].token = k

Ends(u) == call[u].ans # "waiting" /\ call'[u] = Quiet /\ SameTask(u)

Begins(u) ==
    /\ call[u] = Quiet
    /\ task[u] = Idle
    /\ \/ status = "off" /\ status' = "loading" /\ SameTask(u)
          /\ call'[u].fn = "boot" /\ call'[u].at = "read" /\ call'[u].ans = "none"
       \/ status = "off" /\ status' = "loading"
          /\ \E k \in issued : Asks(u, "boot", "ask", k) /\ Handles(u, "find", k)
       \/ status \notin {"off", "loading"} /\ inFlight = FALSE /\ inFlight' = TRUE
          /\ status' = status
          /\ \E k \in issued : Asks(u, "refresh", "ask", k) /\ Handles(u, "find", k)
       \/ status \notin {"off", "loading"} /\ status' # "off" /\ inFlight' = inFlight
          /\ \E k \in issued : Asks(u, "out", "logout", k) /\ Handles(u, "logoutFind", k)
       \/ status \notin {"off", "loading"} /\ status' = status /\ inFlight' = inFlight
          /\ SameTask(u) /\ Asks(u, "login", "ask", None)

BootAsks(u) ==
    /\ call[u].at = "read" /\ task[u].at = "idle"
    /\ \E k \in issued : Asks(u, "boot", "ask", k) /\ Handles(u, "find", k)

ServerWorks(u) ==
    /\ call'[u] = call[u]
    /\ task'[u].token = task[u].token
    /\ \/ task[u].at \in {"find", "create", "revoke"} /\ task'[u].at \in {"create", "revoke", "reply"}
       \/ task[u].at = "logoutFind" /\ task'[u].at = "logoutRevoke"

ServerAnswers(u) ==
    /\ \/ task'[u] = Idle
       \/ SameTask(u) /\ Waits(u) /\ call[u].fn = "login"
    /\ IF Waits(u) THEN /\ SameAsk(u)
                        /\ call'[u].ans \in {"token", "rejected", "done", "failed"}
                        /\ call'[u].ans = "token" => call'[u].token \in issued'
       ELSE call'[u] = call[u]

Loses(u) ==
    /\ "answer" \in spoiled'
    /\ task'[u] \in {task[u], Idle}
    /\ \/ call'[u] = call[u]
       \/ /\ call[u].ans # "none" /\ SameAsk(u) /\ call'[u].ans = "failed"

GoesOn(u) ==
    /\ call[u].ans \notin {"none", "waiting"}
    /\ call'[u].fn = call[u].fn
    /\ call'[u].token = call[u].token
    /\ call'[u].ans = "none"
    /\ call'[u].at = "delete" \/ (call'[u].at = "store" /\ call[u].ans = "token")
    /\ SameTask(u)

SignsOut(u) ==
    /\ call[u].fn = "refresh" /\ call[u].ans = "rejected"
    /\ task[u] = Idle
    /\ \E k \in issued : Asks(u, "refresh", "logout", k) /\ Handles(u, "logoutFind", k)

Keeps(u) ==
    /\ call[u].at \in {"store", "delete"}
    /\ call'[u].fn = call[u].fn
    /\ call'[u].token = call[u].token
    /\ call'[u].ans = "none"
    /\ call'[u].at \in {"delete", "clear"} \/ (call'[u].at = "set" /\ call[u].at = "store")
    /\ SameTask(u)

SlotMove(u) ==
    \/ call'[u] = call[u] /\ SameTask(u)
    \/ Quit
    \/ Ends(u)
    \/ Begins(u)
    \/ BootAsks(u)
    \/ ServerWorks(u)
    \/ ServerAnswers(u)
    \/ Loses(u)
    \/ GoesOn(u)
    \/ SignsOut(u)
    \/ Keeps(u)

\* A slot's record keeps its shape.
LEMMA CallRecUpdates ==
    /\ Quiet \in CallRec
    /\ \A r \in CallRec, ans \in {"token", "rejected", "failed", "done"} : [r EXCEPT !.ans = ans] \in CallRec
    /\ \A r \in CallRec, ans \in {"token", "rejected", "failed", "done"}, k \in Token \cup {None} :
           [r EXCEPT !.ans = ans, !.token = k] \in CallRec
    /\ \A r \in CallRec, at \in {"store", "set", "delete", "clear"} :
           [r EXCEPT !.at = at, !.ans = "none"] \in CallRec
<1>1. Quiet \in CallRec
  BY DEF Quiet, CallRec
<1>2. \A r \in CallRec, ans \in {"token", "rejected", "failed", "done"} : [r EXCEPT !.ans = ans] \in CallRec
  BY DEF CallRec
<1>3. \A r \in CallRec, ans \in {"token", "rejected", "failed", "done"}, k \in Token \cup {None} :
          [r EXCEPT !.ans = ans, !.token = k] \in CallRec
  BY DEF CallRec
<1>4. \A r \in CallRec, at \in {"store", "set", "delete", "clear"} :
          [r EXCEPT !.at = at, !.ans = "none"] \in CallRec
  BY DEF CallRec
<1>5. QED
  BY <1>1, <1>2, <1>3, <1>4

\* An answer changes the slot that waits for it, and nothing else.
LEMMA AnswerMoves ==
    ASSUME call \in [Task -> CallRec], NEW c \in Task, NEW k \in Token \cup {None},
           NEW ans \in {"token", "rejected", "failed", "done"}, Answer(c, ans, k)
    PROVE  /\ call' \in [Task -> CallRec]
           /\ \A u \in Task : IF u = c /\ Waits(c)
                              THEN SameAsk(u) /\ call'[u].ans = ans /\ call'[u].token = k
                              ELSE call'[u] = call[u]
<1>1. CASE ~ Waits(c)
  BY <1>1 DEF Answer
<1>2. CASE Waits(c)
  <2>1. call' = [call EXCEPT ![c] = [call[c] EXCEPT !.ans = ans, !.token = k]]
    BY <1>2 DEF Answer
  <2>2. call[c] \in CallRec /\ [call[c] EXCEPT !.ans = ans, !.token = k] \in CallRec
    BY CallRecUpdates
  <2>3. SameAsk(c) /\ call'[c].ans = ans /\ call'[c].token = k
    BY <2>1, <2>2 DEF SameAsk, CallRec
  <2>4. QED
    BY <1>2, <2>1, <2>2, <2>3
<1>3. QED
  BY <1>1, <1>2

\* The server's steps, slot by slot.
LEMMA ServeMoves ==
    ASSUME LinkTypeOK, \A t \in Task : Knows(t), NEW c \in Task, Serve(c), NEW u \in Task
    PROVE  /\ call' \in [Task -> CallRec]
           /\ (call'[u] = call[u] /\ SameTask(u)) \/ ServerWorks(u) \/ ServerAnswers(u)
<1>0. /\ call \in [Task -> CallRec] /\ task \in [Task -> TaskRec]
      /\ \A v \in Task : call[v].token \in Token \cup {None} /\ task[v] \in TaskRec
  BY DEF LinkTypeOK, TypeOK, CallRec
<1>1. CASE ServerFind(c)
  <2>1. CASE Live(task[c].token)
    <3>1. /\ call' = call /\ task[c].at = "find"
          /\ task' = [task EXCEPT ![c] = [task[c] EXCEPT !.at = "create"]]
      BY <1>1, <2>1 DEF ServerFind, Find, After
    <3>2. QED
      BY <1>0, <3>1 DEF ServerWorks, SameTask, TaskRec
  <2>2. CASE ~ Live(task[c].token)
    <3>1. task' = [task EXCEPT ![c] = Idle] /\ Answer(c, "rejected", call[c].token)
      BY <1>1, <2>2 DEF ServerFind, Find
    <3>2. QED
      BY <1>0, <3>1, AnswerMoves DEF ServerAnswers, SameTask
  <2>3. QED
    BY <2>1, <2>2
<1>2. CASE ServerCreate(c)
  <2>1. PICK k \in Token : Create(c, k) /\ UNCHANGED call
    BY <1>2 DEF ServerCreate
  <2>2. task[c].at = "create" /\ task' = [task EXCEPT ![c] = [task[c] EXCEPT !.at = "revoke", !.new = k]]
    BY <1>0, <2>1 DEF Create, After
  <2>3. QED
    BY <1>0, <2>1, <2>2 DEF ServerWorks, SameTask, TaskRec
<1>3. CASE Revoke(c) /\ UNCHANGED call
  <2>1. task[c].at = "revoke" /\ task' = [task EXCEPT ![c] = [task[c] EXCEPT !.at = "reply"]]
    BY <1>0, <1>3 DEF Revoke, After
  <2>2. QED
    BY <1>0, <1>3, <2>1 DEF ServerWorks, SameTask, TaskRec
<1>4. CASE ServerReply(c)
  <2>1. /\ task' = [task EXCEPT ![c] = Idle]
        /\ Answer(c, "token", task[c].new)
        /\ task[c].new \in issued'
        /\ task[c].new \in Token
    BY <1>0, <1>4 DEF ServerReply, Reply, Knows
  <2>2. QED
    BY <1>0, <2>1, AnswerMoves DEF ServerAnswers, SameTask
<1>5. CASE ServerLogout(c)
  <2>1. CASE LogoutFind(c) /\ Live(task[c].token) /\ UNCHANGED call
    <3>1. /\ call' = call /\ task[c].at = "logoutFind"
          /\ task' = [task EXCEPT ![c] = [task[c] EXCEPT !.at = "logoutRevoke"]]
      BY <2>1 DEF LogoutFind
    <3>2. QED
      BY <1>0, <3>1 DEF ServerWorks, SameTask, TaskRec
  <2>2. CASE /\ (LogoutFind(c) /\ ~Live(task[c].token)) \/ LogoutRevoke(c)
             /\ Answer(c, "done", call[c].token)
    <3>1. task' = [task EXCEPT ![c] = Idle]
      BY <2>2 DEF LogoutFind, LogoutRevoke
    <3>2. QED
      BY <1>0, <2>2, <3>1, AnswerMoves DEF ServerAnswers, SameTask
  <2>3. QED
    BY <1>5, <2>1, <2>2 DEF ServerLogout
<1>6. CASE ServerLogin(c)
  <2>1. PICK k \in Token : Login(k) /\ Answer(c, "token", k)
    BY <1>6 DEF ServerLogin
  <2>2. k \in issued' /\ task' = task
    BY <2>1 DEF Login
  <2>3. QED
    BY <1>0, <1>6, <2>1, <2>2, AnswerMoves DEF ServerLogin, ServerAnswers, SameTask
<1>7. QED
  BY <1>1, <1>2, <1>3, <1>4, <1>5, <1>6 DEF Serve

\* What goes wrong around a request, slot by slot.
LEMMA FaultMoves ==
    ASSUME LinkTypeOK, NEW c \in Task, NEW u \in Task,
           Unreachable(c) \/ AnswerLost(c) \/ LoginLost(c) \/ ServerFails(c)
    PROVE  /\ call' \in [Task -> CallRec]
           /\ (call'[u] = call[u] /\ SameTask(u)) \/ ServerAnswers(u) \/ Loses(u)
<1>0. /\ call \in [Task -> CallRec] /\ task \in [Task -> TaskRec]
      /\ call[c].token \in Token \cup {None}
  BY DEF LinkTypeOK, TypeOK, CallRec
<1>1. CASE Unreachable(c)
  <2>1. task' = [task EXCEPT ![c] = Idle] /\ Answer(c, "failed", call[c].token)
    BY <1>1 DEF Unreachable
  <2>2. QED
    BY <1>0, <2>1, AnswerMoves DEF ServerAnswers, SameTask
<1>2. CASE AnswerLost(c)
  <2>1. task' = task /\ Answer(c, "failed", call[c].token) /\ "answer" \in spoiled'
    BY <1>2 DEF AnswerLost, vars, Spoil
  <2>2. QED
    BY <1>0, <2>1, AnswerMoves DEF Loses, Waits
<1>3. CASE LoginLost(c)
  <2>1. /\ task' = task /\ "answer" \in spoiled'
        /\ call[c].ans = "token"
        /\ call' = [call EXCEPT ![c] = [call[c] EXCEPT !.ans = "failed"]]
    BY <1>3 DEF LoginLost, vars, Spoil
  <2>2. call[c] \in CallRec /\ [call[c] EXCEPT !.ans = "failed"] \in CallRec
    BY <1>0, CallRecUpdates
  <2>3. SameAsk(c) /\ call'[c].ans = "failed"
    BY <1>0, <2>1, <2>2 DEF SameAsk, CallRec
  <2>4. \A v \in Task \ {c} : call'[v] = call[v]
    BY <1>0, <2>1
  <2>5. QED
    BY <1>0, <2>1, <2>2, <2>3, <2>4 DEF Loses, SameTask
<1>4. CASE ServerFails(c)
  <2>1. /\ task' = [task EXCEPT ![c] = Idle] /\ "answer" \in spoiled'
        /\ Answer(c, "failed", call[c].token)
    BY <1>4 DEF ServerFails, Fail, Spoil
  <2>2. QED
    BY <1>0, <2>1, AnswerMoves DEF Loses, SameTask, Waits
<1>5. QED
  BY <1>1, <1>2, <1>3, <1>4

\* A slot that a client sets to a record r, and the others.
LEMMA GoesMoves ==
    ASSUME call \in [Task -> CallRec], NEW c \in Task, NEW r \in CallRec, Goes(c, r)
    PROVE  call' \in [Task -> CallRec] /\ call'[c] = r /\ \A u \in Task \ {c} : call'[u] = call[u]
  BY DEF Goes

\* A client presents a token for slot c.
LEMMA PresentMoves ==
    ASSUME TypeOK, NEW c \in Task, NEW k, RecvRefresh(c, k) \/ RecvLogout(c, k)
    PROVE  /\ k \in issued /\ k \in Token
           /\ task[c].at = "idle"
           /\ \A u \in Task \ {c} : task'[u] = task[u]
           /\ RecvRefresh(c, k) => Handles(c, "find", k)
           /\ RecvLogout(c, k) => Handles(c, "logoutFind", k)
  BY DEF TypeOK, RecvRefresh, RecvLogout, Recv, Handles

\* The records the clients set.
LEMMA AskedRec ==
    /\ \A k \in Token \cup {None} :
           {Asked("boot", "ask", k), Asked("refresh", "ask", k), Asked("login", "ask", k),
            Asked("refresh", "logout", k), Asked("out", "logout", k)} \subseteq CallRec
    /\ [fn |-> "boot", at |-> "read", token |-> None, ans |-> "none"] \in CallRec
  BY DEF Asked, CallRec

\* A keychain call that moves on to its next place keeps its function and its token.
LEMMA AtRec ==
    ASSUME call \in [Task -> CallRec], NEW c \in Task, NEW at \in {"store", "set", "delete", "clear"}
    PROVE  /\ At(c, at) \in CallRec
           /\ At(c, at).fn = call[c].fn
           /\ At(c, at).token = call[c].token
           /\ At(c, at).at = at
           /\ At(c, at).ans = "none"
<1>1. call[c] \in CallRec
  OBVIOUS
<1>2. At(c, at) \in CallRec
  BY <1>1, CallRecUpdates DEF At
<1>3. QED
  BY <1>1, <1>2 DEF At, CallRec

\* The phone's and the Mac's steps, slot by slot.
LEMMA PhoneMoves ==
    ASSUME LinkTypeOK, \A v \in Task : SlotKnows(v), PhoneNext, NEW u \in Task
    PROVE  call' \in [Task -> CallRec] /\ SlotMove(u)
<1>0. /\ call \in [Task -> CallRec] /\ TypeOK
      /\ None \in Token \cup {None}
      /\ Quiet \in CallRec
  BY CallRecUpdates DEF LinkTypeOK
<1>1. ASSUME NEW c \in Task, PhoneLaunch(c)
      PROVE  call' \in [Task -> CallRec] /\ SlotMove(u)
  <2>1. /\ Goes(c, [fn |-> "boot", at |-> "read", token |-> None, ans |-> "none"])
        /\ Free(c) /\ status = "off" /\ status' = "loading" /\ task' = task
    BY <1>1 DEF PhoneLaunch, Slot, vars
  <2>2. QED
    BY <1>0, <2>1, GoesMoves, AskedRec DEF SlotMove, Begins, SameTask, Free
<1>2. ASSUME NEW c \in Task, BootRead(c)
      PROVE  call' \in [Task -> CallRec] /\ SlotMove(u)
  <2>0. call[c].at = "read" /\ call[c].ans # "waiting"
    BY <1>2 DEF BootRead, SlotKnows
  <2>1. CASE Goes(c, Quiet) /\ task' = task
    BY <1>0, <2>0, <2>1, GoesMoves DEF SlotMove, Ends, SameTask
  <2>2. CASE RecvRefresh(c, stored) /\ Goes(c, Asked("boot", "ask", stored))
    <3>1. /\ stored \in issued /\ stored \in Token /\ task[c].at = "idle"
          /\ \A v \in Task \ {c} : task'[v] = task[v]
          /\ Handles(c, "find", stored)
      BY <1>0, <2>2, PresentMoves
    <3>2. /\ call' \in [Task -> CallRec] /\ call'[c] = Asked("boot", "ask", stored)
          /\ \A v \in Task \ {c} : call'[v] = call[v]
      BY <1>0, <2>2, <3>1, GoesMoves, AskedRec
    <3>3. QED
      BY <2>0, <3>1, <3>2 DEF SlotMove, BootAsks, Asks, Asked, SameTask
  <2>3. QED
    BY <1>2, <2>1, <2>2 DEF BootRead
<1>3. ASSUME NEW c \in Task, PhoneLogin(c)
      PROVE  call' \in [Task -> CallRec] /\ SlotMove(u)
  <2>1. /\ Goes(c, Asked("login", "ask", None)) /\ Free(c)
        /\ status \notin {"off", "loading"} /\ status' = status /\ inFlight' = inFlight /\ task' = task
    BY <1>3 DEF PhoneLogin, LoginShown, Slot, keep, vars
  <2>2. /\ call' \in [Task -> CallRec] /\ call'[c] = Asked("login", "ask", None)
        /\ \A v \in Task \ {c} : call'[v] = call[v]
    BY <1>0, <2>1, GoesMoves, AskedRec
  <2>3. Begins(c) /\ \A v \in Task : SameTask(v)
    BY <2>1, <2>2 DEF Begins, Asks, Asked, SameTask, Free
  <2>4. QED
    BY <2>2, <2>3 DEF SlotMove
<1>4. ASSUME NEW c \in Task, PhoneSignOut(c)
      PROVE  call' \in [Task -> CallRec] /\ SlotMove(u)
  <2>1. /\ RecvLogout(c, memory) /\ Goes(c, Asked("out", "logout", memory)) /\ Free(c)
        /\ status \notin {"off", "loading"} /\ status' = status /\ inFlight' = inFlight
    BY <1>4 DEF PhoneSignOut, Slot, keep
  <2>2. /\ memory \in issued /\ memory \in Token
        /\ \A v \in Task \ {c} : task'[v] = task[v]
        /\ Handles(c, "logoutFind", memory)
    BY <1>0, <2>1, PresentMoves
  <2>3. /\ call' \in [Task -> CallRec] /\ call'[c] = Asked("out", "logout", memory)
        /\ \A v \in Task \ {c} : call'[v] = call[v]
    BY <1>0, <2>1, <2>2, GoesMoves, AskedRec
  <2>4. QED
    BY <2>1, <2>2, <2>3 DEF SlotMove, Begins, Asks, Asked, SameTask, Free
<1>5. ASSUME NEW c \in Task, PhoneRefresh(c)
      PROVE  call' \in [Task -> CallRec] /\ SlotMove(u)
  <2>1. /\ RecvRefresh(c, memory) /\ Goes(c, Asked("refresh", "ask", memory)) /\ Free(c)
        /\ status \notin {"off", "loading"} /\ status' = status
        /\ inFlight = FALSE /\ inFlight' = TRUE
    BY <1>5 DEF PhoneRefresh, MustRefresh, Slot, keep, LinkTypeOK
  <2>2. /\ memory \in issued /\ memory \in Token
        /\ \A v \in Task \ {c} : task'[v] = task[v]
        /\ Handles(c, "find", memory)
    BY <1>0, <2>1, PresentMoves
  <2>3. /\ call' \in [Task -> CallRec] /\ call'[c] = Asked("refresh", "ask", memory)
        /\ \A v \in Task \ {c} : call'[v] = call[v]
    BY <1>0, <2>1, <2>2, GoesMoves, AskedRec
  <2>4. Asks(c, "refresh", "ask", memory)
    BY <2>3 DEF Asks, Asked
  <2>5. Begins(c)
    BY <2>1, <2>2, <2>4 DEF Begins, Free
  <2>6. QED
    BY <2>2, <2>3, <2>5 DEF SlotMove, SameTask
<1>6. ASSUME NEW c \in Task, Answered(c)
      PROVE  call' \in [Task -> CallRec] /\ SlotMove(u)
  <2>0. call[c].ans \notin {"none", "waiting"}
    BY <1>6 DEF Answered
  <2>1. CASE Goes(c, At(c, "store")) /\ call[c].ans = "token" /\ task' = task
    BY <1>0, <2>0, <2>1, GoesMoves, AtRec DEF SlotMove, GoesOn, SameTask
  <2>2. CASE Goes(c, At(c, "delete")) /\ task' = task
    BY <1>0, <2>0, <2>2, GoesMoves, AtRec DEF SlotMove, GoesOn, SameTask
  <2>3. CASE /\ call[c].fn = "refresh" /\ call[c].ans = "rejected" /\ task[c] = Idle
             /\ RecvLogout(c, memory) /\ Goes(c, Asked("refresh", "logout", memory))
    <3>1. /\ memory \in issued /\ memory \in Token
          /\ \A v \in Task \ {c} : task'[v] = task[v]
          /\ Handles(c, "logoutFind", memory)
      BY <1>0, <2>3, PresentMoves
    <3>2. /\ call' \in [Task -> CallRec] /\ call'[c] = Asked("refresh", "logout", memory)
          /\ \A v \in Task \ {c} : call'[v] = call[v]
      BY <1>0, <2>3, <3>1, GoesMoves, AskedRec
    <3>3. QED
      BY <2>3, <3>1, <3>2 DEF SlotMove, SignsOut, Asks, Asked, SameTask
  <2>4. CASE Goes(c, Quiet) /\ task' = task
    BY <1>0, <2>0, <2>4, GoesMoves DEF SlotMove, Ends, SameTask
  <2>5. QED
    BY <1>6, <2>1, <2>2, <2>3, <2>4 DEF Answered, SignOutNested
<1>7. ASSUME NEW c \in Task, Store(c) \/ Delete(c)
      PROVE  call' \in [Task -> CallRec] /\ SlotMove(u)
  <2>1. /\ call[c].at \in {"store", "delete"} /\ call[c].ans # "waiting" /\ task' = task
        /\ \/ Goes(c, Quiet)
           \/ Goes(c, At(c, "set")) /\ call[c].at = "store"
           \/ Goes(c, At(c, "delete"))
           \/ Goes(c, At(c, "clear"))
    BY <1>7 DEF Store, Delete, SlotKnows, vars
  <2>2. QED
    BY <1>0, <2>1, GoesMoves, AtRec DEF SlotMove, Keeps, Ends, SameTask
<1>8. ASSUME NEW c \in Task, Set(c) \/ Clear(c)
      PROVE  call' \in [Task -> CallRec] /\ SlotMove(u)
  <2>1. Goes(c, Quiet) /\ call[c].ans # "waiting" /\ task' = task
    BY <1>8 DEF Set, Clear, SlotKnows, vars
  <2>2. QED
    BY <1>0, <2>1, GoesMoves DEF SlotMove, Ends, SameTask
<1>9. QED
  BY <1>1, <1>2, <1>3, <1>4, <1>5, <1>6, <1>7, <1>8 DEF PhoneNext, PhoneCall

\* A step of the Mac moves each backend request along its way, or leaves it alone.
LEMMA MacMoves ==
    ASSUME LinkTypeOK, \A v \in Task : SlotKnows(v), MacNext, NEW u \in Task
    PROVE  call' \in [Task -> CallRec] /\ SlotMove(u)
<1>0. /\ call \in [Task -> CallRec] /\ TypeOK
      /\ None \in Token \cup {None}
      /\ Quiet \in CallRec
  BY CallRecUpdates DEF LinkTypeOK
<1>1. ASSUME NEW c \in Task, MacLaunch(c)
      PROVE  call' \in [Task -> CallRec] /\ SlotMove(u)
  <2>1. CASE UNCHANGED <<vars, call>>
    BY <1>0, <2>1 DEF SlotMove, SameTask, vars
  <2>2. CASE /\ RecvRefresh(c, stored) /\ Goes(c, Asked("boot", "ask", stored))
             /\ Free(c) /\ status = "off" /\ status' = "loading"
    <3>1. /\ stored \in issued /\ stored \in Token
          /\ \A v \in Task \ {c} : task'[v] = task[v]
          /\ Handles(c, "find", stored)
      BY <1>0, <2>2, PresentMoves
    <3>2. /\ call' \in [Task -> CallRec] /\ call'[c] = Asked("boot", "ask", stored)
          /\ \A v \in Task \ {c} : call'[v] = call[v]
      BY <1>0, <2>2, <3>1, GoesMoves, AskedRec
    <3>3. QED
      BY <2>2, <3>1, <3>2 DEF SlotMove, Begins, Asks, Asked, SameTask, Free
  <2>3. QED
    BY <1>1, <2>1, <2>2 DEF MacLaunch, Slot
<1>2. ASSUME NEW c \in Task, MacLogin(c)
      PROVE  call' \in [Task -> CallRec] /\ SlotMove(u)
  <2>1. /\ Goes(c, Asked("login", "ask", None)) /\ Free(c)
        /\ status \notin {"off", "loading"} /\ status' = status /\ inFlight' = inFlight /\ task' = task
    BY <1>2 DEF MacLogin, Slot, keep, vars
  <2>2. /\ call' \in [Task -> CallRec] /\ call'[c] = Asked("login", "ask", None)
        /\ \A v \in Task \ {c} : call'[v] = call[v]
    BY <1>0, <2>1, GoesMoves, AskedRec
  <2>3. Begins(c) /\ \A v \in Task : SameTask(v)
    BY <2>1, <2>2 DEF Begins, Asks, Asked, SameTask, Free
  <2>4. QED
    BY <2>2, <2>3 DEF SlotMove
<1>3. CASE NameMac
  BY <1>0, <1>3 DEF NameMac, SlotMove, SameTask, vars
<1>4. ASSUME NEW c \in Task, MacSignOut(c)
      PROVE  call' \in [Task -> CallRec] /\ SlotMove(u)
  <2>1. /\ RecvLogout(c, memory) /\ Goes(c, Asked("out", "logout", memory)) /\ Free(c)
        /\ status \notin {"off", "loading"} /\ status' # "off" /\ inFlight' = inFlight
    BY <1>4 DEF MacSignOut, Slot
  <2>2. /\ memory \in issued /\ memory \in Token
        /\ \A v \in Task \ {c} : task'[v] = task[v]
        /\ Handles(c, "logoutFind", memory)
    BY <1>0, <2>1, PresentMoves
  <2>3. /\ call' \in [Task -> CallRec] /\ call'[c] = Asked("out", "logout", memory)
        /\ \A v \in Task \ {c} : call'[v] = call[v]
    BY <1>0, <2>1, <2>2, GoesMoves, AskedRec
  <2>4. QED
    BY <2>1, <2>2, <2>3 DEF SlotMove, Begins, Asks, Asked, SameTask, Free
<1>5. ASSUME NEW c \in Task, MacRefresh(c)
      PROVE  call' \in [Task -> CallRec] /\ SlotMove(u)
  <2>1. /\ RecvRefresh(c, memory) /\ Goes(c, Asked("refresh", "ask", memory)) /\ Free(c)
        /\ status \notin {"off", "loading"} /\ status' = status
        /\ inFlight = FALSE /\ inFlight' = TRUE
    BY <1>5 DEF MacRefresh, MacMustRefresh, Slot, keep, LinkTypeOK
  <2>2. /\ memory \in issued /\ memory \in Token
        /\ \A v \in Task \ {c} : task'[v] = task[v]
        /\ Handles(c, "find", memory)
    BY <1>0, <2>1, PresentMoves
  <2>3. /\ call' \in [Task -> CallRec] /\ call'[c] = Asked("refresh", "ask", memory)
        /\ \A v \in Task \ {c} : call'[v] = call[v]
    BY <1>0, <2>1, <2>2, GoesMoves, AskedRec
  <2>4. Asks(c, "refresh", "ask", memory)
    BY <2>3 DEF Asks, Asked
  <2>5. Begins(c)
    BY <2>1, <2>2, <2>4 DEF Begins, Free
  <2>6. QED
    BY <2>2, <2>3, <2>5 DEF SlotMove, SameTask
<1>6. ASSUME NEW c \in Task, MacAnswered(c)
      PROVE  call' \in [Task -> CallRec] /\ SlotMove(u)
  <2>1. Goes(c, Quiet) /\ call[c].ans # "waiting" /\ task' = task
    BY <1>6 DEF MacAnswered, vars
  <2>2. QED
    BY <1>0, <2>1, GoesMoves DEF SlotMove, Ends, SameTask
<1>7. QED
  BY <1>1, <1>2, <1>3, <1>4, <1>5, <1>6 DEF MacNext

\* A step of either client or of the backend moves each backend request along its way, or leaves it alone.
LEMMA SlotMoves ==
    ASSUME LinkTypeOK, \A v \in Task : SlotKnows(v) /\ Knows(v), SignInNext \/ UNCHANGED all,
           NEW u \in Task
    PROVE  call' \in [Task -> CallRec] /\ SlotMove(u)
<1>0. call \in [Task -> CallRec] /\ Quiet \in CallRec
  BY CallRecUpdates DEF LinkTypeOK
<1>1. CASE Quit
  BY <1>0, <1>1 DEF Quit, SlotMove
<1>2. CASE Ages
  BY <1>0, <1>2 DEF Ages, SlotMove, SameTask
<1>3. ASSUME NEW c \in Task, Serve(c)
      PROVE  call' \in [Task -> CallRec] /\ SlotMove(u)
  BY <1>3, ServeMoves DEF SlotMove
<1>4. ASSUME NEW c \in Task, Unreachable(c) \/ AnswerLost(c) \/ LoginLost(c) \/ ServerFails(c)
      PROVE  call' \in [Task -> CallRec] /\ SlotMove(u)
  BY <1>4, FaultMoves DEF SlotMove
<1>5. CASE UNCHANGED all
  BY <1>0, <1>5 DEF all, vars2, vars, client, SlotMove, SameTask
<1>6. QED
  BY <1>1, <1>2, <1>3, <1>4, <1>5, PhoneMoves, MacMoves DEF SignInNext, Around

\* A step other than a quit is about one slot.
LEMMA OneSlotMoves ==
    ASSUME LinkTypeOK, SignInNext \/ UNCHANGED all
    PROVE  \/ Quit
           \/ \A u \in Task : call'[u] = call[u] /\ SameTask(u)
           \/ \E c \in Task : \A u \in Task \ {c} : call'[u] = call[u] /\ SameTask(u)
<1>0. call \in [Task -> CallRec] /\ task \in [Task -> TaskRec]
  BY DEF LinkTypeOK, TypeOK
<1>1. ASSUME NEW c \in Task, NEW r, Goes(c, r), NEW u \in Task \ {c}
      PROVE  call'[u] = call[u]
  BY <1>0, <1>1 DEF Goes
<1>2. ASSUME NEW c \in Task, NEW ans, NEW k, Answer(c, ans, k), NEW u \in Task \ {c}
      PROVE  call'[u] = call[u]
  BY <1>0, <1>2 DEF Answer
<1>3. ASSUME NEW c \in Task, NEW k, RecvRefresh(c, k) \/ RecvLogout(c, k), NEW u \in Task \ {c}
      PROVE  task'[u] = task[u]
  BY <1>0, <1>3 DEF RecvRefresh, RecvLogout, Recv
<1>4. ASSUME NEW c \in Task, Serve(c), NEW u \in Task \ {c}
      PROVE  call'[u] = call[u] /\ SameTask(u)
  BY <1>0, <1>2, <1>4
     DEF Serve, ServerFind, ServerCreate, ServerReply, ServerLogout, ServerLogin, SameTask,
         Find, Create, Revoke, Reply, LogoutFind, LogoutRevoke, Login
<1>5. ASSUME NEW c \in Task, Unreachable(c) \/ AnswerLost(c) \/ LoginLost(c) \/ ServerFails(c),
             NEW u \in Task \ {c}
      PROVE  call'[u] = call[u] /\ SameTask(u)
  BY <1>0, <1>2, <1>5 DEF Unreachable, AnswerLost, LoginLost, ServerFails, Fail, SameTask, vars
<1>6. ASSUME NEW c \in Task, PhoneLaunch(c) \/ PhoneLogin(c) \/ PhoneSignOut(c) \/ PhoneRefresh(c),
             NEW u \in Task \ {c}
      PROVE  call'[u] = call[u] /\ SameTask(u)
  BY <1>1, <1>3, <1>6 DEF PhoneLaunch, PhoneLogin, PhoneSignOut, PhoneRefresh, SameTask, vars
<1>7. ASSUME NEW c \in Task, PhoneCall(c), NEW u \in Task \ {c}
      PROVE  call'[u] = call[u] /\ SameTask(u)
  <2>1. CASE BootRead(c)
    BY <1>1, <1>3, <1>7, <2>1 DEF BootRead, SameTask
  <2>2. CASE Answered(c)
    BY <1>1, <1>3, <1>7, <2>2 DEF Answered, SignOutNested, SameTask
  <2>3. CASE Store(c) \/ Set(c) \/ Delete(c) \/ Clear(c)
    BY <1>1, <1>7, <2>3 DEF Store, Set, Delete, Clear, SameTask, vars
  <2>4. QED
    BY <1>7, <2>1, <2>2, <2>3 DEF PhoneCall
<1>8. ASSUME NEW c \in Task, \/ MacLaunch(c) \/ MacLogin(c) \/ MacSignOut(c) \/ MacRefresh(c)
                            \/ MacAnswered(c),
             NEW u \in Task \ {c}
      PROVE  call'[u] = call[u] /\ SameTask(u)
  BY <1>1, <1>3, <1>8 DEF MacLaunch, MacLogin, MacSignOut, MacRefresh, MacAnswered, SameTask, vars
<1>9. CASE NameMac \/ Ages \/ UNCHANGED all
  BY <1>9 DEF NameMac, Ages, all, vars2, vars, client, SameTask
<1>10. QED
  BY <1>4, <1>5, <1>6, <1>7, <1>8, <1>9 DEF SignInNext, Around, PhoneNext, MacNext

\* A slot goes on knowing what it knows.
LEMMA SlotKnowsStep ==
    ASSUME LinkTypeOK, \A v \in Task : SlotKnows(v) /\ Knows(v), SignInNext \/ UNCHANGED all,
           NEW u \in Task
    PROVE  SlotKnows(u)'
<1>0. /\ SlotKnows(u) /\ call' \in [Task -> CallRec] /\ SlotMove(u)
      /\ call[u] \in CallRec /\ call'[u] \in CallRec
  BY SlotMoves DEF LinkTypeOK
<1>1. issued \subseteq issued'
  BY TableSteps, IssuedEvolves DEF LinkTypeOK
<1>2. CASE call'[u] = call[u]
  BY <1>0, <1>1, <1>2 DEF SlotKnows
<1>3. CASE call'[u] = Quiet
  BY <1>3 DEF SlotKnows, Quiet
<1>4. CASE Quit
  BY <1>3, <1>4 DEF Quit
<1>5. CASE Begins(u) \/ BootAsks(u) \/ SignsOut(u)
  BY <1>5 DEF Begins, BootAsks, SignsOut, Asks, SlotKnows
<1>6. CASE ServerAnswers(u)
  BY <1>0, <1>1, <1>2, <1>6 DEF ServerAnswers, SameAsk, Waits, SlotKnows, CallRec, Quiet
<1>7. CASE Loses(u)
  BY <1>0, <1>1, <1>2, <1>7 DEF Loses, SameAsk, SlotKnows, CallRec, Quiet
<1>8. CASE GoesOn(u)
  BY <1>0, <1>1, <1>8 DEF GoesOn, SlotKnows, CallRec, Quiet
<1>9. CASE Keeps(u)
  BY <1>0, <1>1, <1>9 DEF Keeps, SlotKnows, CallRec, Quiet
<1>10. QED
  BY <1>0, <1>2, <1>3, <1>4, <1>5, <1>6, <1>7, <1>8, <1>9 DEF SlotMove, Ends, ServerWorks

\* The variables of a client beside its slots, over one step.
Bounded == faults \in 0..MaxFaults /\ user \in 0..MaxUser

\* The counters of faults and of the users' steps stay within their bounds.
LEMMA BoundStep ==
    ASSUME LinkTypeOK, SignInNext \/ UNCHANGED all
    PROVE  Bounded'
<1>0. /\ faults \in 0..MaxFaults /\ user \in 0..MaxUser
      /\ MaxFaults \in Nat /\ MaxUser \in Nat
  BY BoundAssumption DEF LinkTypeOK
<1>1. faults' = faults \/ Fault
  BY DEF SignInNext, Around, Quit, Ages, Serve, Unreachable, AnswerLost, LoginLost, ServerFails,
         PhoneNext, PhoneLaunch, PhoneLogin, PhoneSignOut, PhoneRefresh, PhoneCall, BootRead,
         Answered, Store, Set, Delete, Clear, MacNext, NameMac, MacLaunch, MacLogin, MacSignOut,
         MacRefresh, MacAnswered, StoreTokens, bounds, all, vars2
<1>2. user' = user \/ (user < MaxUser /\ user' = user + 1)
  BY DEF SignInNext, Around, Quit, Ages, Serve, Unreachable, AnswerLost, LoginLost, ServerFails,
         PhoneNext, PhoneLaunch, PhoneLogin, PhoneSignOut, PhoneRefresh, PhoneCall, BootRead,
         Answered, Store, Set, Delete, Clear, MacNext, NameMac, MacLaunch, MacLogin, MacSignOut,
         MacRefresh, MacAnswered, bounds, all, vars2
<1>3. QED
  BY <1>0, <1>1, <1>2 DEF Bounded, Fault

\* What is stored or in memory is a token that was sent to this client.
LEMMA KeepStep ==
    ASSUME LinkTypeOK, \A v \in Task : SlotKnows(v) /\ Knows(v), SignInNext \/ UNCHANGED all
    PROVE  /\ status' \in {"off", "loading", "signedOut", "signedIn", "onboarding", "naming", "ready"}
           /\ {memory', stored'} \subseteq issued' \cup {None}
           /\ access' \in {"none", "young", "old"}
           /\ {named', inFlight'} \subseteq BOOLEAN
           /\ spoiled' \subseteq Spoils
<1> DEFINE KeepOK == /\ status' \in {"off", "loading", "signedOut", "signedIn", "onboarding",
                                      "naming", "ready"}
                     /\ {memory', stored'} \subseteq issued' \cup {None}
                     /\ access' \in {"none", "young", "old"}
                     /\ {named', inFlight'} \subseteq BOOLEAN
                     /\ spoiled' \subseteq Spoils
<1>0. /\ status \in {"off", "loading", "signedOut", "signedIn", "onboarding", "naming", "ready"}
      /\ {memory, stored} \subseteq issued' \cup {None}
      /\ access \in {"none", "young", "old"}
      /\ {named, inFlight} \subseteq BOOLEAN
      /\ spoiled \subseteq Spoils
      /\ issued \subseteq issued'
  BY TableSteps, IssuedEvolves DEF LinkTypeOK
<1>1. CASE Quit
  BY <1>0, <1>1 DEF Quit, Spoil, Spoils
<1>2. CASE Ages
  BY <1>0, <1>2 DEF Ages
<1>3. ASSUME NEW c \in Task, Serve(c)
      PROVE  KeepOK
  BY <1>0, <1>3 DEF Serve, keep
<1>4. ASSUME NEW c \in Task, Unreachable(c) \/ AnswerLost(c) \/ LoginLost(c) \/ ServerFails(c)
      PROVE  KeepOK
  BY <1>0, <1>4 DEF Unreachable, AnswerLost, LoginLost, ServerFails, keep, Spoil, Spoils
<1>5. ASSUME NEW c \in Task, PhoneLaunch(c) \/ PhoneLogin(c) \/ PhoneSignOut(c) \/ PhoneRefresh(c)
      PROVE  KeepOK
  BY <1>0, <1>5 DEF PhoneLaunch, PhoneLogin, PhoneSignOut, PhoneRefresh, keep, Spoil, Spoils
<1>6. ASSUME NEW c \in Task, BootRead(c) \/ Answered(c)
      PROVE  KeepOK
  BY <1>0, <1>6 DEF BootRead, Answered, SignOutNested, InFlightAfter, keep, Spoil, Spoils
<1>7. ASSUME NEW c \in Task, Store(c) \/ Set(c)
      PROVE  KeepOK
  <2>1. call[c].token \in issued
    BY <1>7 DEF Store, Set, SlotKnows
  <2>2. QED
    BY <1>0, <1>7, <2>1 DEF Store, Set, InFlightAfter, Spoil, Spoils
<1>8. ASSUME NEW c \in Task, Delete(c) \/ Clear(c)
      PROVE  KeepOK
  BY <1>0, <1>8 DEF Delete, Clear, InFlightAfter, Spoil, Spoils
<1>9. ASSUME NEW c \in Task, MacLaunch(c) \/ MacLogin(c) \/ MacSignOut(c) \/ MacRefresh(c)
      PROVE  KeepOK
  BY <1>0, <1>9 DEF MacLaunch, MacLogin, MacSignOut, MacRefresh, keep, Spoil, Spoils
<1>10. ASSUME NEW c \in Task, MacAnswered(c)
       PROVE  KeepOK
  <2>1. call[c].ans = "token" => call[c].token \in issued
    BY DEF SlotKnows
  <2>2. status' \in {status, "ready", "onboarding", "naming"}
    BY <1>10 DEF MacAnswered
  <2>3. /\ {named', inFlight'} \subseteq BOOLEAN
        /\ spoiled' \subseteq Spoils
    BY <1>0, <1>10 DEF MacAnswered, StoreTokens, Spoil, Spoils
  <2>4. /\ {memory', stored'} \subseteq issued' \cup {None}
        /\ access' \in {"none", "young", "old"}
    BY <1>0, <1>10, <2>1 DEF MacAnswered, StoreTokens
  <2>5. QED
    BY <1>0, <2>2, <2>3, <2>4
<1>11. CASE NameMac
  BY <1>0, <1>11 DEF NameMac, vars
<1>12. CASE UNCHANGED all
  BY <1>0, <1>12 DEF all, vars2, client, keep
<1>13. QED
  BY <1>1, <1>2, <1>3, <1>4, <1>5, <1>6, <1>7, <1>8, <1>9, <1>10, <1>11, <1>12
     DEF SignInNext, Around, PhoneNext, PhoneCall, MacNext

\* Every step of the clients and the backend keeps the types of the link.
LEMMA LinkTypeStep ==
    ASSUME TableInv, LinkTypeOK, \A v \in Task : SlotKnows(v), SignInNext \/ UNCHANGED all
    PROVE  LinkTypeOK'
<1>1. \A v \in Task : Knows(v)
  BY DEF TableInv
<1>2. TypeOK'
  BY <1>1, TypeStep, TableSteps DEF LinkTypeOK
<1>3. call' \in [Task -> CallRec]
  <2>1. ASSUME Task = {}
        PROVE  call' \in [Task -> CallRec]
    <3>1. Quit \/ Ages \/ NameMac \/ UNCHANGED all
      BY <2>1 DEF SignInNext, Around, PhoneNext, MacNext
    <3>2. QED
      BY <3>1, CallRecUpdates DEF LinkTypeOK, Quit, Ages, NameMac, all, vars2, client
  <2>2. QED
    BY <1>1, <2>1, SlotMoves
<1>4. QED
  BY <1>1, <1>2, <1>3, KeepStep, BoundStep DEF LinkTypeOK, Bounded

-----------------------------------------------------------------------------
(***************************************************************************)
(* One exchange at a time: what the shared refresh, and the bootstrap that *)
(* nothing else runs beside, give the server.                              *)
(***************************************************************************)
Exchanging == {"boot", "refresh"}

\* A client has one refresh going on, and has set the flag that says so; while
\* it bootstraps it does nothing else.
OneAtATime ==
    /\ \A c \in Task : call[c].fn # "idle" => status # "off"
    /\ \A c \in Task : status = "loading" => call[c].fn \in {"idle", "boot"}
    /\ \A c \in Task : call[c].fn = "boot" => status = "loading"
    /\ \A c \in Task : call[c].fn = "refresh" => inFlight = TRUE
    /\ \A c, d \in Task : call[c].fn \in Exchanging /\ call[d].fn \in Exchanging => c = d

\* What a slot's function becomes: it goes on, ends, or begins.
LEMMA FnMoves ==
    ASSUME LinkTypeOK, \A v \in Task : SlotKnows(v) /\ Knows(v), SignInNext \/ UNCHANGED all,
           NEW u \in Task
    PROVE  \/ call'[u].fn = call[u].fn
           \/ call'[u].fn = "idle"
           \/ Begins(u) /\ call[u].fn = "idle"
<1>1. Quiet.fn = "idle"
  BY DEF Quiet
<1>2. Quit => call'[u] = Quiet
  BY DEF Quit
<1>3. SlotMove(u)
  BY SlotMoves
<1>4. BootAsks(u) => call'[u].fn = call[u].fn
  BY DEF BootAsks, Asks, SlotKnows
<1>5. SignsOut(u) => call'[u].fn = call[u].fn
  BY DEF SignsOut, Asks
<1>6. ServerAnswers(u) \/ Loses(u) \/ GoesOn(u) \/ Keeps(u) \/ ServerWorks(u)
          => call'[u].fn = call[u].fn
  BY DEF ServerAnswers, Loses, GoesOn, Keeps, ServerWorks, SameAsk
<1>7. QED
  BY <1>1, <1>2, <1>3, <1>4, <1>5, <1>6 DEF SlotMove, Ends, Begins

\* When the status leaves "off" or "loading", and when the flag is reset.
LEMMA StatusMoves ==
    ASSUME LinkTypeOK, \A v \in Task : SlotKnows(v), SignInNext \/ UNCHANGED all
    PROVE  /\ status' = "off" => status = "off" \/ Quit
           /\ status' = "loading" => status \in {"off", "loading"}
           /\ status = "loading" /\ status' # "loading" =>
                  \/ Quit
                  \/ \E c \in Task : call[c].fn # "idle" /\ call'[c] = Quiet
           /\ inFlight = TRUE /\ inFlight' # TRUE =>
                  \/ Quit
                  \/ \E c \in Task : call[c].fn = "refresh" /\ call'[c] = Quiet
<1>0. call \in [Task -> CallRec] /\ Quiet.fn = "idle" /\ Quiet.at = "idle" /\ Quiet.ans = "none"
  BY DEF LinkTypeOK, Quiet
<1> DEFINE StatusOK ==
        /\ status' = "off" => status = "off" \/ Quit
        /\ status' = "loading" => status \in {"off", "loading"}
        /\ status = "loading" /\ status' # "loading" =>
               \/ Quit
               \/ \E c \in Task : call[c].fn # "idle" /\ call'[c] = Quiet
    FlagOK == inFlight = TRUE /\ inFlight' # TRUE =>
               \/ Quit
               \/ \E c \in Task : call[c].fn = "refresh" /\ call'[c] = Quiet
<1>1. ASSUME NEW c \in Task, Goes(c, Quiet)
      PROVE  call'[c] = Quiet
  BY <1>0, <1>1 DEF Goes
<1>2. ASSUME NEW c \in Task, Serve(c) \/ Unreachable(c) \/ AnswerLost(c) \/ LoginLost(c) \/ ServerFails(c)
      PROVE  status' = status /\ inFlight' = inFlight
  BY <1>2 DEF Serve, Unreachable, AnswerLost, LoginLost, ServerFails, keep
<1>3. ASSUME NEW c \in Task, PhoneLaunch(c) \/ MacLaunch(c)
      PROVE  status = "off" /\ status' \in {"loading", "onboarding"} /\ inFlight' = inFlight
  BY <1>3 DEF PhoneLaunch, MacLaunch
<1>4. ASSUME NEW c \in Task, PhoneLogin(c) \/ PhoneSignOut(c) \/ MacLogin(c) \/ Answered(c)
      PROVE  status' = status
  BY <1>4 DEF PhoneLogin, PhoneSignOut, MacLogin, Answered, keep
<1>5. ASSUME NEW c \in Task, PhoneLogin(c) \/ PhoneSignOut(c) \/ MacLogin(c) \/ MacSignOut(c)
      PROVE  inFlight' = inFlight
  BY <1>5 DEF PhoneLogin, PhoneSignOut, MacLogin, MacSignOut, keep
<1>6. ASSUME NEW c \in Task, PhoneRefresh(c) \/ MacRefresh(c)
      PROVE  status' = status /\ inFlight' = TRUE
  BY <1>6 DEF PhoneRefresh, MacRefresh, keep
<1>7. ASSUME NEW c \in Task, Answered(c)
      PROVE  FlagOK
  BY <1>1, <1>7 DEF Answered, SignOutNested, InFlightAfter
<1>8. ASSUME NEW c \in Task, BootRead(c)
      PROVE  StatusOK /\ FlagOK
  BY <1>1, <1>8 DEF BootRead, SlotKnows
<1>9. ASSUME NEW c \in Task, Store(c) \/ Set(c) \/ Delete(c) \/ Clear(c)
      PROVE  StatusOK
  BY <1>0, <1>1, <1>9 DEF Store, Set, Delete, Clear, SlotKnows
<1>10. ASSUME NEW c \in Task, Store(c) \/ Set(c) \/ Delete(c) \/ Clear(c)
       PROVE  FlagOK
  <2>1. CASE call[c].fn = "refresh" /\ Goes(c, Quiet)
    BY <1>1, <2>1
  <2>2. CASE ~ (call[c].fn = "refresh" /\ Goes(c, Quiet))
    BY <1>10, <2>2 DEF Store, Set, Delete, Clear, InFlightAfter
  <2>3. QED
    BY <2>1, <2>2
<1>11. CASE NameMac
  BY <1>11 DEF NameMac
<1>12. ASSUME NEW c \in Task, MacSignOut(c)
       PROVE  StatusOK
  BY <1>12 DEF MacSignOut
<1>13. ASSUME NEW c \in Task, MacAnswered(c)
       PROVE  StatusOK /\ FlagOK
  <2>1. call'[c] = Quiet /\ call[c].ans # "none"
    BY <1>1, <1>13 DEF MacAnswered
  <2>2. call[c].fn # "idle"
    BY <1>0, <2>1 DEF SlotKnows
  <2>3. status' \in {status, "ready", "onboarding", "naming"}
    BY <1>13 DEF MacAnswered
  <2>4. FlagOK
    BY <1>13, <2>1 DEF MacAnswered
  <2>5. QED
    BY <2>1, <2>2, <2>3, <2>4
<1>14. CASE Ages \/ UNCHANGED all
  BY <1>14 DEF Ages, all, vars2, client, keep
<1>15. ASSUME NEW c \in Task, \/ Serve(c) \/ Unreachable(c) \/ AnswerLost(c) \/ LoginLost(c)
                               \/ ServerFails(c)
       PROVE  StatusOK /\ FlagOK
  BY <1>2, <1>15
<1>16. ASSUME NEW c \in Task, \/ PhoneLaunch(c) \/ MacLaunch(c) \/ PhoneLogin(c) \/ PhoneSignOut(c)
                               \/ MacLogin(c) \/ MacSignOut(c) \/ PhoneRefresh(c) \/ MacRefresh(c)
       PROVE  StatusOK /\ FlagOK
  <2>1. StatusOK
    BY <1>3, <1>4, <1>6, <1>12, <1>16
  <2>2. FlagOK
    BY <1>3, <1>5, <1>6, <1>16
  <2>3. QED
    BY <2>1, <2>2
<1>17. ASSUME NEW c \in Task, PhoneCall(c)
       PROVE  StatusOK /\ FlagOK
  <2>1. StatusOK
    BY <1>4, <1>8, <1>9, <1>17 DEF PhoneCall
  <2>2. FlagOK
    BY <1>7, <1>8, <1>10, <1>17 DEF PhoneCall
  <2>3. QED
    BY <2>1, <2>2
<1>18. ASSUME Quit
       PROVE  StatusOK /\ FlagOK
  <2>1. StatusOK
    BY <1>18 DEF Quit
  <2>2. QED
    BY <1>18, <2>1
<1>19. ASSUME NameMac \/ Ages \/ UNCHANGED all
       PROVE  StatusOK /\ FlagOK
  BY <1>11, <1>14, <1>19
<1>20. StatusOK /\ FlagOK
  BY <1>13, <1>15, <1>16, <1>17, <1>18, <1>19 DEF SignInNext, Around, PhoneNext, MacNext
<1>21. QED
  BY <1>20

\* Every step keeps at most one refresh of a client under way.
LEMMA OneAtATimeStep ==
    ASSUME LinkTypeOK, \A v \in Task : SlotKnows(v) /\ Knows(v), OneAtATime,
           SignInNext \/ UNCHANGED all
    PROVE  OneAtATime'
<1>0. Quiet.fn = "idle"
  BY DEF Quiet
<1>1. CASE Quit
  <2>1. \A c \in Task : call'[c] = Quiet
    BY <1>1 DEF Quit
  <2>2. QED
    BY <1>0, <2>1 DEF OneAtATime, Exchanging
<1>2. CASE ~ Quit
  <2>1. \A c \in Task : \/ call'[c].fn = call[c].fn
                        \/ call'[c].fn = "idle"
                        \/ Begins(c) /\ call[c].fn = "idle"
    BY FnMoves
  <2>2. \A c \in Task : Begins(c) =>
            /\ \A d \in Task \ {c} : call'[d].fn = call[d].fn
            /\ \/ call'[c].fn = "boot" /\ status = "off" /\ status' = "loading"
               \/ /\ call'[c].fn = "refresh" /\ status \notin {"off", "loading"} /\ status' = status
                  /\ inFlight = FALSE /\ inFlight' = TRUE
               \/ /\ call'[c].fn \in {"out", "login"} /\ status \notin {"off", "loading"}
                  /\ status' # "off" /\ inFlight' = inFlight
    <3>1. ASSUME NEW c \in Task, Begins(c)
          PROVE  \A d \in Task \ {c} : call'[d].fn = call[d].fn
      <4>1. call'[c].fn # "idle" /\ call[c].fn = "idle"
        BY <1>0, <3>1 DEF Begins, Asks
      <4>2. QED
        BY <1>2, <4>1, OneSlotMoves
    <3>2. ASSUME NEW c \in Task, Begins(c)
          PROVE  \/ call'[c].fn = "boot" /\ status = "off" /\ status' = "loading"
                 \/ /\ call'[c].fn = "refresh" /\ status \notin {"off", "loading"} /\ status' = status
                    /\ inFlight = FALSE /\ inFlight' = TRUE
                 \/ /\ call'[c].fn \in {"out", "login"} /\ status \notin {"off", "loading"}
                    /\ status' # "off" /\ inFlight' = inFlight
      BY <3>2 DEF Begins, Asks
    <3>3. QED
      BY <3>1, <3>2
  <2>3. ASSUME NEW c \in Task, call'[c].fn # "idle"
        PROVE  status' # "off"
    BY <1>2, <2>1, <2>2, <2>3, StatusMoves DEF OneAtATime
  <2>4. ASSUME NEW c \in Task, status' = "loading"
        PROVE  call'[c].fn \in {"idle", "boot"}
    BY <2>1, <2>2, <2>4, StatusMoves DEF OneAtATime
  <2>5. ASSUME NEW c \in Task, call'[c].fn = "boot"
        PROVE  status' = "loading"
    <3>1. CASE Begins(c)
      BY <2>2, <2>5, <3>1
    <3>2. CASE call[c].fn = "boot"
      <4>1. status = "loading" /\ \A d \in Task \ {c} : call[d].fn = "idle"
        BY <3>2 DEF OneAtATime, Exchanging
      <4>2. call'[c] # Quiet
        BY <1>0, <2>5
      <4>3. QED
        BY <1>2, <4>1, <4>2, StatusMoves
    <3>3. QED
      BY <2>1, <2>5, <3>1, <3>2
  <2>6. ASSUME NEW c \in Task, call'[c].fn = "refresh"
        PROVE  inFlight' = TRUE
    <3>1. CASE Begins(c)
      BY <2>2, <2>6, <3>1
    <3>2. CASE call[c].fn = "refresh"
      <4>1. inFlight = TRUE /\ \A d \in Task \ {c} : call[d].fn # "refresh"
        BY <3>2 DEF OneAtATime, Exchanging
      <4>2. call'[c] # Quiet
        BY <1>0, <2>6
      <4>3. QED
        BY <1>2, <4>1, <4>2, StatusMoves
    <3>3. QED
      BY <2>1, <2>6, <3>1, <3>2
  <2>7. ASSUME NEW c \in Task, NEW d \in Task, c # d,
               call'[c].fn \in Exchanging, call'[d].fn \in Exchanging
        PROVE  FALSE
    <3>1. ASSUME NEW x \in Task, NEW y \in Task, x # y, Begins(x),
                 call'[x].fn \in Exchanging, call'[y].fn \in Exchanging
          PROVE  FALSE
      <4>1. call[y].fn \in Exchanging
        BY <2>2, <3>1
      <4>2. (call[y].fn = "boot" /\ status = "loading") \/ (call[y].fn = "refresh" /\ inFlight = TRUE)
        BY <4>1 DEF OneAtATime, Exchanging
      <4>3. status # "off"
        BY <4>1 DEF OneAtATime, Exchanging
      <4>4. QED
        BY <2>2, <3>1, <4>2, <4>3 DEF Exchanging
    <3>2. CASE call[c].fn \in Exchanging /\ call[d].fn \in Exchanging
      BY <2>7, <3>2 DEF OneAtATime
    <3>3. QED
      BY <2>1, <2>7, <3>1, <3>2 DEF Exchanging
  <2>8. QED
    BY <2>3, <2>4, <2>5, <2>6, <2>7 DEF OneAtATime
<1>3. QED
  BY <1>1, <1>2

-----------------------------------------------------------------------------
(***************************************************************************)
(* A token is exchanged once.  As long as no answer was lost and no call   *)
(* was cut short, a handler that runs is one its slot waits for; so one    *)
(* refresh at most is between its statements, and the token it presented   *)
(* has no successor before it makes one.                                   *)
(***************************************************************************)
Clean        == spoiled \cap {"answer", "cut"} = {}
Rotating(t)  == task[t].at \in {"find", "create", "revoke", "reply"}

\* A running handler is awaited, and by a refresh or a bootstrap if it rotates.
Awaited(t) ==
    /\ task[t].at # "idle" => call[t].ans = "waiting" /\ call[t].fn # "login"
    /\ Rotating(t) => call[t].fn \in Exchanging

\* A token with a successor is revoked, or is being revoked.
Spent ==
    \A k \in Token : row[k].parent # None =>
        /\ row[k].parent \in issued
        /\ \/ row[row[k].parent].status # "active"
           \/ \E t \in Task : task[t].at = "revoke" /\ task[t].token = row[k].parent

\* The token a refresh is about to exchange has no successor.
Unspent(t) == task[t].at = "create" => \A k \in Token : row[k].parent # task[t].token

Single ==
    \A j, k \in Token : row[j].parent = row[k].parent /\ row[k].parent # None => j = k

Once == Clean => /\ \A t \in Task : Awaited(t) /\ Unspent(t)
                 /\ Spent
                 /\ Single

LinkInv == /\ TableInv
           /\ LinkTypeOK
           /\ \A v \in Task : SlotKnows(v)
           /\ OneAtATime
           /\ Once

\* What has gone wrong is not forgotten.
LEMMA SpoiledGrows ==
    ASSUME SignInNext \/ UNCHANGED all
    PROVE  spoiled \subseteq spoiled'
<1>1. CASE Around
  BY <1>1 DEF Around, Quit, Ages, Serve, Unreachable, AnswerLost, LoginLost, ServerFails, Spoil
<1>2. CASE PhoneNext
  BY <1>2 DEF PhoneNext, PhoneLaunch, PhoneLogin, PhoneSignOut, PhoneRefresh, PhoneCall, BootRead,
              Answered, SignOutNested, Store, Set, Delete, Clear, Spoil, bounds
<1>3. CASE MacNext
  BY <1>3 DEF MacNext, NameMac, MacLaunch, MacLogin, MacSignOut, MacRefresh, MacAnswered,
              StoreTokens, Spoil
<1>4. CASE UNCHANGED all
  BY <1>4 DEF all, vars2
<1>5. QED
  BY <1>1, <1>2, <1>3, <1>4 DEF SignInNext

\* A handler goes on being awaited.
LEMMA AwaitedStep ==
    ASSUME LinkTypeOK, \A v \in Task : SlotKnows(v) /\ Knows(v), SignInNext \/ UNCHANGED all,
           Clean', \A v \in Task : Awaited(v),
           NEW u \in Task
    PROVE  Awaited(u)'
<1>0. /\ SlotKnows(u) /\ Awaited(u)
      /\ call[u] \in CallRec /\ task[u] \in TaskRec
      /\ "answer" \notin spoiled' /\ "cut" \notin spoiled'
  BY DEF LinkTypeOK, TypeOK, Clean
<1>1. SlotMove(u)
  BY SlotMoves
<1>2. ASSUME task'[u].at = "idle"
      PROVE  Awaited(u)'
  BY <1>2 DEF Awaited, Rotating
<1>3. CASE call'[u] = call[u] /\ SameTask(u)
  BY <1>0, <1>3 DEF SameTask, Awaited, Rotating
<1>4. CASE Quit
  <2>1. call[u].fn \notin {"boot", "login", "refresh", "out"}
    BY <1>0, <1>4 DEF Quit, Running, Spoil
  <2>2. call[u] = Quiet
    BY <1>0, <2>1 DEF SlotKnows, CallRec
  <2>3. task[u].at = "idle" /\ task' = task
    BY <1>0, <1>4, <2>2 DEF Awaited, Quiet, Quit, vars
  <2>4. QED
    BY <1>2, <2>3
<1>5. CASE Ends(u) \/ GoesOn(u)
  BY <1>0, <1>2, <1>5 DEF Ends, GoesOn, SameTask, Awaited
<1>6. CASE Begins(u)
  BY <1>0, <1>2, <1>6 DEF Begins, SameTask, Asks, Handles, Idle, Awaited, Rotating, Exchanging
<1>7. CASE BootAsks(u) \/ SignsOut(u)
  BY <1>0, <1>7 DEF BootAsks, SignsOut, Asks, Handles, Awaited, Rotating, Exchanging
<1>8. CASE ServerWorks(u)
  BY <1>0, <1>8 DEF ServerWorks, Awaited, Rotating
<1>9. CASE ServerAnswers(u)
  BY <1>0, <1>2, <1>9 DEF ServerAnswers, SameTask, Idle, Awaited
<1>10. CASE Keeps(u)
  BY <1>0, <1>2, <1>10 DEF Keeps, SameTask, SlotKnows, Awaited
<1>11. QED
  BY <1>0, <1>1, <1>3, <1>4, <1>5, <1>6, <1>7, <1>8, <1>9, <1>10 DEF SlotMove, Loses

\* One refresh at a time is between its statements.
LEMMA OneRotates ==
    ASSUME OneAtATime, \A v \in Task : Awaited(v),
           NEW t \in Task, NEW u \in Task, Rotating(t), Rotating(u)
    PROVE  t = u
  BY DEF OneAtATime, Awaited

\* What else than the statements of a refresh a step may do to the table.
Beside ==
    /\ \A k \in Token : row'[k].parent = row[k].parent
    /\ \A k \in Token : row'[k].status = "active" => row[k].status = "active" \/ k \notin issued
    /\ \A t \in Task : task[t].at = "revoke" =>
           task'[t].at = task[t].at /\ task'[t].token = task[t].token
    /\ \A t \in Task : task'[t].at = "create" =>
           task'[t].at = task[t].at /\ task'[t].token = task[t].token

\* While no answer was lost, a step rotates a token for a refresh that awaits it, or moves only beside the rotations.
LEMMA Rotations ==
    ASSUME TableInv, LinkTypeOK, SignInNext \/ UNCHANGED all, "answer" \notin spoiled'
    PROVE  \/ \E t \in Task : Find(t) \/ Revoke(t) \/ \E k \in Token : Create(t, k)
           \/ Beside
<1>0. /\ row \in [Token -> Row] /\ task \in [Task -> TaskRec]
      /\ issued \subseteq {k \in Token : row[k].status # "none"}
  BY DEF LinkTypeOK, TypeOK
<1>1. ASSUME row' = row, task' = task
      PROVE  Beside
  BY <1>1 DEF Beside
<1>2. ASSUME NEW c \in Task, NEW k, RecvRefresh(c, k) \/ RecvLogout(c, k)
      PROVE  Beside
  BY <1>0, <1>2 DEF RecvRefresh, RecvLogout, Recv, Beside
<1>3. ASSUME NEW k \in Token, Login(k)
      PROVE  Beside
  <2>1. row[k].parent = None
    BY <1>3 DEF Login, TableInv, Chained, NoRow
  <2>2. QED
    BY <1>0, <1>3, <2>1 DEF Login, Beside
<1>4. ASSUME NEW k \in Token, Expire(k)
      PROVE  Beside
  BY <1>0, <1>4 DEF Expire, Beside, Row
<1>5. ASSUME NEW t \in Task, Reply(t) \/ LogoutFind(t) \/ LogoutRevoke(t)
      PROVE  Beside
  <2>1. CASE Reply(t) \/ LogoutFind(t)
    BY <1>0, <2>1 DEF Reply, LogoutFind, Beside, Idle, TaskRec
  <2>2. CASE LogoutRevoke(t)
    BY <1>0, <2>2 DEF LogoutRevoke, Beside, Idle, TaskRec, Row
  <2>3. QED
    BY <1>5, <2>1, <2>2
<1>6. ASSUME NEW c \in Task, Unreachable(c)
      PROVE  Beside
  BY <1>0, <1>6 DEF Unreachable, Beside, Idle, TaskRec
<1>7. ASSUME NEW c \in Task, AnswerLost(c) \/ LoginLost(c) \/ ServerFails(c)
      PROVE  FALSE
  BY <1>7 DEF AnswerLost, LoginLost, ServerFails, Spoil
<1>8. ASSUME NEW c \in Task, Serve(c)
      PROVE  \/ Find(c) \/ Revoke(c) \/ \E k \in Token : Create(c, k)
             \/ Beside
  BY <1>3, <1>5, <1>8
     DEF Serve, ServerFind, ServerCreate, ServerReply, ServerLogout, ServerLogin
<1>9. CASE Quit \/ NameMac \/ UNCHANGED all
  <2>1. row' = row /\ task' = task
    BY <1>9 DEF Quit, NameMac, all, vars2, vars
  <2>2. QED
    BY <1>1, <2>1
<1>10. CASE Ages
  <2>1. stored \in Token \cup {None} /\ memory \in Token \cup {None}
    BY DEF LinkTypeOK, TypeOK
  <2>2. CASE row' = row
    BY <1>1, <1>10, <2>2 DEF Ages
  <2>3. QED
    BY <1>4, <1>10, <2>1, <2>2 DEF Ages
<1> DEFINE Recvs(c, k) == RecvRefresh(c, k) \/ RecvLogout(c, k)
           Presents(c)    == (row' = row /\ task' = task) \/ Recvs(c, memory) \/ Recvs(c, stored)
<1>11. ASSUME NEW c \in Task, Presents(c)
       PROVE  Beside
  BY <1>1, <1>2, <1>11
<1>12. ASSUME NEW c \in Task, PhoneLaunch(c) \/ PhoneLogin(c) \/ PhoneSignOut(c) \/ PhoneRefresh(c)
       PROVE  Presents(c)
  BY <1>12 DEF PhoneLaunch, PhoneLogin, PhoneSignOut, PhoneRefresh, vars
<1>13. ASSUME NEW c \in Task, PhoneCall(c)
       PROVE  Presents(c)
  <2>1. CASE BootRead(c)
    BY <2>1 DEF BootRead, Untouched
  <2>2. CASE Answered(c)
    BY <2>2 DEF Answered, SignOutNested, Untouched
  <2>3. CASE Store(c) \/ Set(c) \/ Delete(c) \/ Clear(c)
    BY <2>3 DEF Store, Set, Delete, Clear, vars
  <2>4. QED
    BY <1>13, <2>1, <2>2, <2>3 DEF PhoneCall
<1>14. ASSUME NEW c \in Task, \/ MacLaunch(c) \/ MacLogin(c) \/ MacSignOut(c) \/ MacRefresh(c)
                             \/ MacAnswered(c)
       PROVE  Presents(c)
  BY <1>14 DEF MacLaunch, MacLogin, MacSignOut, MacRefresh, MacAnswered, vars
<1> HIDE DEF Presents
<1>15. QED
  BY <1>6, <1>7, <1>8, <1>9, <1>10, <1>11, <1>12, <1>13, <1>14
     DEF SignInNext, Around, PhoneNext, MacNext

\* A token gets its one successor, and is spent from then on.
LEMMA OnceStep ==
    ASSUME TableInv, LinkTypeOK, \A v \in Task : SlotKnows(v), OneAtATime, Once,
           SignInNext \/ UNCHANGED all
    PROVE  Once'
<1> SUFFICES ASSUME Clean'
             PROVE  /\ \A t \in Task : Awaited(t)' /\ Unspent(t)'
                    /\ Spent'
                    /\ Single'
  BY DEF Once
<1>0. /\ row \in [Token -> Row] /\ task \in [Task -> TaskRec]
      /\ issued \subseteq {k \in Token : row[k].status # "none"}
      /\ \A t \in Task : Knows(t)
      /\ issued \subseteq issued'
  BY TableSteps, IssuedEvolves DEF LinkTypeOK, TypeOK, TableInv
<1>1. /\ \A t \in Task : Awaited(t) /\ Unspent(t)
      /\ Spent /\ Single
      /\ "answer" \notin spoiled'
  BY SpoiledGrows DEF Clean, Once
<1>2. \A t \in Task : Awaited(t)'
  BY <1>0, <1>1, AwaitedStep
<1>3. CASE Beside
  <2>1. \A t \in Task : Unspent(t)'
    BY <1>1, <1>3 DEF Beside, Unspent
  <2>2. Spent'
    BY <1>0, <1>1, <1>3 DEF Beside, Spent
  <2>3. Single'
    BY <1>1, <1>3 DEF Beside, Single
  <2>4. QED
    BY <1>2, <2>1, <2>2, <2>3
<1>4. ASSUME NEW t \in Task, Find(t)
      PROVE  (\A u \in Task : Unspent(u)') /\ Spent' /\ Single'
  <2>1. row' = row /\ issued' = issued
    BY <1>4 DEF Find
  <2>2. /\ \A u \in Task \ {t} : task'[u] = task[u]
        /\ task[t].at = "find" /\ task'[t].at # "revoke"
        /\ task'[t].at = "create" => Live(task[t].token) /\ task'[t].token = task[t].token
    BY <1>0, <1>4 DEF Find, After, Idle, TaskRec
  <2>3. ASSUME NEW k \in Token, task'[t].at = "create", row[k].parent = task[t].token
        PROVE  FALSE
    <3>1. row[k].parent # None /\ Live(row[k].parent)
      BY <1>0, <2>2, <2>3, NoneAssumption DEF Knows
    <3>2. PICK u \in Task : task[u].at = "revoke"
      BY <1>1, <3>1 DEF Spent, Live
    <3>3. u = t
      BY <1>1, <2>2, <3>2, OneRotates DEF Rotating
    <3>4. QED
      BY <2>2, <3>2, <3>3
  <2>4. \A u \in Task : Unspent(u)'
    BY <1>1, <2>1, <2>2, <2>3 DEF Unspent
  <2>5. Spent' /\ Single'
    BY <1>1, <2>1, <2>2 DEF Spent, Single
  <2>6. QED
    BY <2>4, <2>5
<1>5. ASSUME NEW t \in Task, Revoke(t)
      PROVE  (\A u \in Task : Unspent(u)') /\ Spent' /\ Single'
  <2>1. /\ \A u \in Task \ {t} : task'[u] = task[u]
        /\ task[t].at = "revoke" /\ task'[t].at = "reply"
        /\ task[t].token \in Token /\ issued' = issued
    BY <1>0, <1>5 DEF Revoke, After, TaskRec, Knows
  <2>2. /\ \A k \in Token : row'[k].parent = row[k].parent
        /\ \A k \in Token \ {task[t].token} : row'[k] = row[k]
        /\ row'[task[t].token].status = "revoked"
    BY <1>0, <1>5, <2>1 DEF Revoke, Rotation, Row
  <2>3. QED
    BY <1>0, <1>1, <2>1, <2>2 DEF Spent, Single, Unspent
<1>6. ASSUME NEW t \in Task, NEW k \in Token, Create(t, k)
      PROVE  (\A u \in Task : Unspent(u)') /\ Spent' /\ Single'
  <2>1. /\ \A u \in Task \ {t} : task'[u] = task[u]
        /\ task[t].at = "create" /\ task'[t].at = "revoke" /\ task'[t].token = task[t].token
        /\ task[t].token \in issued /\ issued' = issued
    BY <1>0, <1>6 DEF Create, After, TaskRec, Knows
  <2>2. /\ \A j \in Token \ {k} : row'[j] = row[j]
        /\ row'[k].parent = task[t].token
        /\ k \notin issued
    BY <1>0, <1>6 DEF Create, Row
  <2>3. \A u \in Task : task'[u].at # "create"
    BY <1>1, <2>1, OneRotates DEF Rotating
  <2>4. \A j \in Token : row[j].parent # task[t].token
    BY <1>1, <2>1 DEF Unspent
  <2>5. Spent'
    BY <1>0, <1>1, <2>1, <2>2 DEF Spent
  <2>6. Single'
    BY <1>1, <2>2, <2>4 DEF Single
  <2>7. QED
    BY <2>3, <2>5, <2>6 DEF Unspent
<1>7. QED
  BY <1>1, <1>2, <1>3, <1>4, <1>5, <1>6, Rotations

-----------------------------------------------------------------------------
(***************************************************************************)
(* The invariant of a signed-in client, and the theorems about it.         *)
(***************************************************************************)
LEMMA LinkInvInit == SignInInit => LinkInv
<1> SUFFICES ASSUME SignInInit
             PROVE  LinkInv
  OBVIOUS
<1>1. Init /\ TableInv
  BY TableInvInit DEF SignInInit, LinkInit
<1>2. /\ status = "off" /\ memory = None /\ access = "none" /\ stored = None
      /\ named = FALSE /\ inFlight = FALSE /\ spoiled = {} /\ faults = 0 /\ user = 0
      /\ \A c \in Task : call[c] = Quiet
      /\ call \in [Task -> CallRec]
  BY CallRecUpdates DEF SignInInit, LinkInit
<1>3. LinkTypeOK
  <2>1. TypeOK /\ 0 \in 0..MaxFaults /\ 0 \in 0..MaxUser
    BY <1>1, BoundAssumption DEF TableInv
  <2>2. QED
    BY <1>2, <2>1 DEF LinkTypeOK
<1>4. (\A v \in Task : SlotKnows(v)) /\ OneAtATime
  BY <1>2 DEF SlotKnows, OneAtATime, Quiet, Exchanging
<1>5. Once
  BY <1>1 DEF Once, Awaited, Unspent, Spent, Single, Rotating, Init, NoRow, Idle
<1>6. QED
  BY <1>1, <1>3, <1>4, <1>5 DEF LinkInv

\* The invariant of the link is inductive.
LEMMA LinkInvStep == LinkInv /\ [SignInNext]_all => LinkInv'
<1> SUFFICES ASSUME LinkInv, SignInNext \/ UNCHANGED all
             PROVE  LinkInv'
  OBVIOUS
<1>1. \A v \in Task : SlotKnows(v) /\ Knows(v)
  BY DEF LinkInv, TableInv
<1>2. TableInv'
  BY TableSteps, TableInvStep DEF LinkInv
<1>3. LinkTypeOK'
  BY LinkTypeStep DEF LinkInv
<1>4. \A v \in Task : SlotKnows(v)'
  BY <1>1, SlotKnowsStep DEF LinkInv
<1>5. OneAtATime'
  BY <1>1, OneAtATimeStep DEF LinkInv
<1>6. Once'
  BY OnceStep DEF LinkInv
<1>7. QED
  BY <1>2, <1>3, <1>4, <1>5, <1>6 DEF LinkInv

\* The inductive invariant of a signed-in client, phone or Mac.
THEOREM LinkInvariance == SignInSpec => []LinkInv
  BY LinkInvInit, LinkInvStep, PTL DEF SignInSpec

\* The variables keep their types, and a client holds only tokens it was sent.
THEOREM LinkTypeCorrect == SignInSpec => []LinkTypeOK
<1>1. LinkInv => LinkTypeOK
  BY DEF LinkInv
<1>2. QED
  BY <1>1, LinkInvariance, PTL

\* The two theorems about the table hold of the table the clients use.
THEOREM ClientsLoginsAlive == SignInSpec => []LoginAlive
<1>1. LinkInv => LoginAlive
  BY DEF LinkInv, TableInv
<1>2. QED
  BY <1>1, LinkInvariance, PTL

\* The same for the audit trail.
THEOREM ClientsRevokedNameSuccessors == SignInSpec => []RevokedNamesSuccessor
<1>1. LinkInv => RevokedNamesSuccessor
  BY DEF LinkInv, TableInv
<1>2. QED
  BY <1>1, LinkInvariance, PTL

\* The shared refresh and the undisturbed bootstrap make up for the transaction
\* the server does not use: unless an answer was lost or a call cut short, no
\* token is ever exchanged twice.
THEOREM TokensExchangedOnce == SignInSpec => []ExchangedOnce
<1>1. LinkInv => ExchangedOnce
  BY DEF LinkInv, Once, Clean, Single, ExchangedOnce
<1>2. QED
  BY <1>1, LinkInvariance, PTL

-----------------------------------------------------------------------------
(***************************************************************************)
(* Part 3: what the Keychain, the memory and the table have to do with     *)
(* each other, as long as nothing has gone wrong but requests that never   *)
(* arrived and a sign-in over a stored token.                              *)
(***************************************************************************)
Whole      == spoiled \subseteq {"offline", "over"}
LoggingOut == {"logoutFind", "logoutRevoke"}

\* A token has been exchanged and the client has not stored it yet.
Pending(c) == call[c].ans = "token" \/ call[c].at = "store"

\* What a slot asks, and the handler that is at it.
Paired(c) ==
    /\ Waits(c) => call[c].at \in {"ask", "logout"}
    /\ Waits(c) /\ call[c].fn # "login" =>
           /\ task[c].token = call[c].token
           /\ IF call[c].at = "ask" THEN Rotating(c) ELSE task[c].at \in LoggingOut
    /\ call[c].fn = "login" => call[c].at \in {"ask", "store", "set"}
    /\ call[c].fn = "out" => call[c].at \in {"logout", "delete", "clear"}
    /\ call[c].ans = "token" => call[c].at = "ask"
    /\ call[c].ans = "done" => call[c].at = "logout"
    /\ call[c].ans = "rejected" => call[c].at = "ask" /\ call[c].fn \in Exchanging

\* The phone does one thing at a time; the status says which.
OnPhone == side = "phone" =>
    /\ \A c, d \in Task : call[c].fn # "idle" /\ call[d].fn # "idle" => c = d
    /\ \A c \in Task : call[c].fn = "login" => status = "signedOut"
    /\ \A c \in Task : call[c].fn \in {"refresh", "out"} => status = "signedIn"
    /\ \A c \in Task : call[c].at = "set" => stored = call[c].token
    /\ \A c \in Task : call[c].at = "clear" => stored = None

\* The Mac does not await its Keychain; what it logs out it has forgotten.
OnMac == side = "mac" =>
    /\ \A c \in Task : call[c].at \in {"idle", "ask", "logout"}
    /\ \A c \in Task : task[c].at \in LoggingOut => task[c].token \notin {stored, memory}
    /\ \A c \in Task : call[c].at = "logout" => call[c].fn = "out"
    /\ \A c, d \in Task : call[c].fn = "login" /\ call[d].fn = "login" => c = d

\* Memory and Keychain agree, but between the two assignments of a function.
Assigns(c) == call[c].at \in {"set", "clear"}
OneToken   == memory \in {None, stored} \/ \E c \in Task : Assigns(c)

\* The stored token is good, or the function that made it otherwise is not through.
Passing(c) ==
    \/ call[c].fn \in Exchanging /\ Waits(c) /\ task[c].at \in {"revoke", "reply"}
    \/ Pending(c)
    \/ side = "phone" /\ call[c].at \in {"logout", "delete"}
    \/ side = "phone" /\ call[c].at = "ask" /\ call[c].ans = "rejected"
Kept == stored # None => Good(stored) \/ \E c \in Task : Passing(c)

\* A token that is about to be stored is good, and nobody else has it.
Held(c) == Pending(c) =>
    /\ Good(call[c].token)
    /\ call[c].token \notin {memory, stored}
    /\ \A d \in Task : task[d].at # "idle" => task[d].token # call[c].token
    /\ \A d \in Task \ {c} : Pending(d) => call[d].token # call[c].token

\* The invariant of a whole client.
WholeInv == Whole =>
    /\ \A c \in Task : Paired(c)
    /\ \A c \in Task : Held(c)
    /\ OnPhone
    /\ OnMac
    /\ OneToken
    /\ Kept
    /\ side \in {"phone", "mac"}

-----------------------------------------------------------------------------
\* The kinds of steps while all is whole, and what they do to slot c.
Only(c)    == \A u \in Task \ {c} : call'[u] = call[u] /\ SameTask(u)
SameTokens == memory' = memory /\ stored' = stored
SameRows   == \A k \in Token : row'[k].status = row[k].status
RowsBut(k) == \A j \in Token \ {k} : row'[j].status = row[j].status
Idles(c)   == call[c].fn = "idle"

\* Nothing is done with a token: the app is killed, a token expires, a screen
\* changes, or nothing at all.
Rests ==
    /\ \A u \in Task : call'[u] = call[u] /\ SameTask(u)
    /\ stored' = stored /\ memory' \in {memory, None}
    /\ side = "phone" => status' \in {status, "off"}
    /\ \A k \in Token : \/ row'[k].status = row[k].status
                        \/ row[k].status = "active" /\ row'[k].status = "expired"

\* A function begins that asks for no token's sake, or reads the Keychain first.
Opens(c) ==
    /\ call[c] = Quiet /\ task[c].at = "idle"
    /\ SameTask(c) /\ Only(c) /\ SameTokens /\ SameRows
    /\ side = "phone" => \A u \in Task : Idles(u)
    /\ \/ /\ side = "phone"
          /\ call'[c].fn = "boot" /\ call'[c].at = "read" /\ call'[c].ans = "none"
       \/ /\ Asks(c, "login", "ask", None)
          /\ \A u \in Task : call[u].fn # "login"
          /\ side = "phone" => status = "signedOut" /\ status' = status
          /\ side = "mac" /\ stored # None => "over" \in spoiled'

\* A function asks for the token that is stored, or in memory, to be exchanged.
Trades(c, k) ==
    /\ call[c] = Quiet \/ call[c].at = "read"
    /\ task[c].at = "idle"
    /\ Only(c) /\ SameTokens /\ SameRows
    /\ side = "phone" => \A u \in Task \ {c} : Idles(u)
    /\ k \in issued /\ k \in Token /\ Handles(c, "find", k)
    /\ \/ Asks(c, "boot", "ask", k) /\ k = stored
       \/ /\ Asks(c, "refresh", "ask", k) /\ k = memory
          /\ side = "phone" => status = "signedIn" /\ status' = status

\* The phone signs out, or a refusal has it sign out.
PhoneOuts(c) ==
    /\ side = "phone"
    /\ call[c] = Quiet \/ (call[c].fn = "refresh" /\ call[c].at = "ask" /\ call[c].ans = "rejected")
    /\ task[c].at = "idle"
    /\ Only(c) /\ SameTokens /\ SameRows
    /\ \A u \in Task \ {c} : Idles(u)
    /\ memory \in issued /\ memory \in Token /\ Handles(c, "logoutFind", memory)
    /\ Asks(c, "out", "logout", memory) \/ Asks(c, "refresh", "logout", memory)
    /\ status = "signedIn" /\ status' = status

\* The Mac signs out: it forgets first, and asks then.
MacOuts(c) ==
    /\ side = "mac"
    /\ call[c] = Quiet /\ task[c].at = "idle"
    /\ Only(c) /\ SameRows
    /\ memory' = None /\ stored' = None
    /\ \A u \in Task : call[u].fn \notin {"boot", "refresh", "login"}
    /\ memory \in issued /\ memory \in Token /\ Handles(c, "logoutFind", memory)
    /\ Asks(c, "out", "logout", memory)

\* The handler goes on.
Works(c) ==
    /\ call'[c] = call[c] /\ Only(c) /\ SameTokens /\ status' = status
    /\ task'[c].token = task[c].token
    /\ \/ task[c].at = "find" /\ task'[c].at = "create" /\ SameRows
       \/ /\ task[c].at = "create" /\ task'[c].at = "revoke" /\ task'[c].new \in Token
          /\ row[task'[c].new].status = "none" /\ row'[task'[c].new].status = "active"
          /\ RowsBut(task'[c].new)
       \/ /\ task[c].at = "revoke" /\ task'[c].at = "reply" /\ task'[c].new = task[c].new
          /\ row'[task[c].token].status = "revoked" /\ RowsBut(task[c].token)
       \/ task[c].at = "logoutFind" /\ task'[c].at = "logoutRevoke" /\ SameRows

\* The answer arrives, or the request has not.
Answers(c) ==
    /\ Waits(c) /\ SameAsk(c) /\ task'[c].at = "idle"
    /\ Only(c) /\ SameTokens /\ status' = status
    /\ \/ /\ task[c].at = "find" /\ row[task[c].token].status # "active" /\ SameRows
          /\ call'[c].ans = "rejected" /\ call'[c].token = call[c].token
       \/ /\ task[c].at = "reply" /\ SameRows
          /\ call'[c].ans = "token" /\ call'[c].token = task[c].new
       \/ /\ task[c].at = "logoutFind" /\ row[task[c].token].status # "active" /\ SameRows
          /\ call'[c].ans = "done" /\ call'[c].token = call[c].token
       \/ /\ task[c].at = "logoutRevoke"
          /\ row'[task[c].token].status = "loggedOut" /\ RowsBut(task[c].token)
          /\ call'[c].ans = "done" /\ call'[c].token = call[c].token
       \/ /\ call[c].fn = "login" /\ task[c].at = "idle" /\ call'[c].ans = "token"
          /\ call'[c].token \in Token
          /\ row[call'[c].token].status = "none" /\ row'[call'[c].token].status = "active"
          /\ RowsBut(call'[c].token)
       \/ /\ task[c].at \in {"idle", "find", "logoutFind"} /\ SameRows
          /\ call'[c].ans = "failed" /\ call'[c].token = call[c].token
          /\ call[c].fn \in {"boot", "out"} \/ call[c].at = "logout" => "offline" \in spoiled'

\* The function ends.
Finishes(c) ==
    /\ call'[c] = Quiet /\ SameTask(c) /\ ~ Waits(c) /\ call[c].fn # "idle"
    /\ Only(c) /\ SameRows
    /\ \/ /\ side = "phone" /\ call[c].at = "ask" /\ call[c].ans = "failed"
          /\ SameTokens /\ status' = status
       \/ side = "phone" /\ call[c].at = "read" /\ stored = None /\ SameTokens
       \/ /\ side = "phone" /\ call[c].at = "set" /\ memory' = call[c].token /\ stored' = stored
          /\ status' = "signedIn" \/ (call[c].fn = "refresh" /\ status' = status)
       \/ side = "phone" /\ call[c].at = "clear" /\ memory' = None /\ stored' = stored
       \/ side = "mac" /\ call[c].ans # "token" /\ SameTokens
       \/ /\ side = "mac" /\ call[c].ans = "token"
          /\ memory' = call[c].token /\ stored' = call[c].token

\* The phone goes on to its Keychain, or from there to the assignment.
Proceeds(c) ==
    /\ side = "phone"
    /\ SameTask(c) /\ ~ Waits(c) /\ call[c].fn # "idle"
    /\ Only(c) /\ SameRows /\ memory' = memory /\ status' = status
    /\ call'[c].fn = call[c].fn /\ call'[c].token = call[c].token /\ call'[c].ans = "none"
    /\ \/ call[c].ans = "token" /\ call'[c].at = "store" /\ stored' = stored
       \/ /\ call[c].ans \notin {"token", "none"} /\ call'[c].at = "delete" /\ stored' = stored
          /\ \/ call[c].fn = "boot" \/ call[c].at = "logout"
             \/ call[c].at = "ask" /\ call[c].ans = "rejected"
       \/ call[c].at = "store" /\ call'[c].at = "set" /\ stored' = call[c].token
       \/ call[c].at = "delete" /\ call'[c].at = "clear" /\ stored' = None

\* Every step is of one of these kinds (WholeMoves, below).
WholeMove ==
    \/ Rests
    \/ \E c \in Task : \/ Opens(c) \/ PhoneOuts(c) \/ MacOuts(c)
                       \/ Works(c) \/ Answers(c) \/ Finishes(c) \/ Proceeds(c)
                       \/ \E k \in Token : Trades(c, k)

\* While all is whole, handlers are awaited, and no answer is lost.
LEMMA WholeFacts ==
    ASSUME LinkInv, WholeInv, SignInNext \/ UNCHANGED all, Whole'
    PROVE  /\ Whole
           /\ {"answer", "cut", "keychain", "overlap"} \cap spoiled' = {}
           /\ \A t \in Task : Awaited(t) /\ Knows(t) /\ SlotKnows(t) /\ Paired(t) /\ Held(t)
           /\ OnPhone /\ OnMac /\ OneToken /\ Kept
           /\ call \in [Task -> CallRec] /\ task \in [Task -> TaskRec] /\ row \in [Token -> Row]
           /\ issued \subseteq {k \in Token : row[k].status # "none"}
           /\ {memory, stored} \subseteq issued \cup {None}
           /\ side' = side /\ side \in {"phone", "mac"}
<1>1. spoiled \subseteq spoiled'
  BY SpoiledGrows
<1>2. Whole /\ {"answer", "cut", "keychain", "overlap"} \cap spoiled' = {}
  BY <1>1 DEF Whole
<1>3. Clean
  BY <1>2 DEF Whole, Clean
<1>4. side' = side
  BY DEF SignInNext, all
<1>5. QED
  BY <1>2, <1>3, <1>4 DEF LinkInv, TableInv, Once, WholeInv, LinkTypeOK, TypeOK

\* The handlers' steps.
LEMMA ServeWhole ==
    ASSUME LinkInv, WholeInv, SignInNext \/ UNCHANGED all, Whole', NEW c \in Task, Serve(c)
    PROVE  Works(c) \/ Answers(c)
<1>0. /\ call \in [Task -> CallRec] /\ task \in [Task -> TaskRec] /\ row \in [Token -> Row]
      /\ task[c] \in TaskRec
      /\ Awaited(c) /\ Knows(c) /\ Paired(c)
      /\ call[c].token \in Token \cup {None}
  BY WholeFacts DEF CallRec
<1>1. SameTokens /\ status' = status
  BY DEF Serve, keep, SameTokens
<1>2. ASSUME call' = call
      PROVE  call'[c] = call[c] /\ \A u \in Task \ {c} : call'[u] = call[u]
  BY <1>2
<1>3. ASSUME NEW k \in Token \cup {None}, NEW ans \in {"token", "rejected", "failed", "done"},
             Answer(c, ans, k), Waits(c)
      PROVE  /\ SameAsk(c) /\ call'[c].ans = ans /\ call'[c].token = k
             /\ \A u \in Task \ {c} : call'[u] = call[u]
  BY <1>0, <1>3, AnswerMoves
<1>4. issued \subseteq Token
  BY WholeFacts
<1>5. CASE ServerFind(c)
  <2>1. /\ task[c].at = "find" /\ SameRows /\ Waits(c)
        /\ \A u \in Task \ {c} : SameTask(u)
    BY <1>0, <1>5 DEF ServerFind, Find, SameRows, SameTask, Awaited, Waits
  <2>2. CASE Live(task[c].token)
    <3>1. call' = call /\ task'[c].at = "create" /\ task'[c].token = task[c].token
      BY <1>0, <1>5, <2>2 DEF ServerFind, Find, After, TaskRec
    <3>2. QED
      BY <1>1, <1>2, <2>1, <3>1 DEF Works, Only
  <2>3. CASE ~ Live(task[c].token)
    <3>1. Answer(c, "rejected", call[c].token) /\ task'[c].at = "idle"
      BY <1>0, <1>5, <2>3 DEF ServerFind, Find, Idle
    <3>2. QED
      BY <1>0, <1>1, <1>3, <2>1, <2>3, <3>1 DEF Answers, Only, Live
  <2>4. QED
    BY <2>2, <2>3
<1>6. CASE ServerCreate(c)
  <2>1. PICK k \in Token : Create(c, k)
    BY <1>6 DEF ServerCreate
  <2>2. /\ task[c].at = "create" /\ task'[c].at = "revoke" /\ task'[c].new = k
        /\ task'[c].token = task[c].token
        /\ \A u \in Task \ {c} : SameTask(u)
    BY <1>0, <2>1 DEF Create, After, TaskRec, SameTask
  <2>3. row[k].status = "none" /\ row'[k].status = "active" /\ RowsBut(k)
    BY <1>0, <2>1 DEF Create, RowsBut
  <2>4. call' = call
    BY <1>6 DEF ServerCreate
  <2>5. QED
    BY <1>1, <1>2, <2>2, <2>3, <2>4 DEF Works, Only
<1>7. CASE Revoke(c) /\ UNCHANGED call
  <2>1. /\ task[c].at = "revoke" /\ task'[c].at = "reply" /\ task'[c].new = task[c].new
        /\ task'[c].token = task[c].token
        /\ \A u \in Task \ {c} : SameTask(u)
    BY <1>0, <1>7 DEF Revoke, After, TaskRec, SameTask
  <2>2. task[c].token \in Token
    BY <1>0, <1>4, <2>1 DEF Knows
  <2>3. row'[task[c].token].status = "revoked" /\ RowsBut(task[c].token)
    BY <1>0, <1>7, <2>2 DEF Revoke, Rotation, Row, RowsBut
  <2>4. QED
    BY <1>1, <1>2, <1>7, <2>1, <2>3 DEF Works, Only
<1>8. CASE ServerReply(c)
  <2>1. /\ task[c].at = "reply" /\ SameRows /\ Waits(c) /\ task'[c].at = "idle"
        /\ task[c].new \in Token
        /\ Answer(c, "token", task[c].new)
        /\ \A u \in Task \ {c} : SameTask(u)
    BY <1>0, <1>8 DEF ServerReply, Reply, SameRows, SameTask, Awaited, Waits, Idle, Knows
  <2>2. QED
    BY <1>1, <1>3, <2>1 DEF Answers, Only
<1>9. CASE ServerLogout(c) /\ LogoutFind(c)
  <2>1. /\ task[c].at = "logoutFind" /\ SameRows /\ Waits(c)
        /\ \A u \in Task \ {c} : SameTask(u)
    BY <1>0, <1>9 DEF LogoutFind, SameRows, SameTask, Awaited, Waits
  <2>2. CASE Live(task[c].token)
    <3>1. call' = call /\ task'[c].at = "logoutRevoke" /\ task'[c].token = task[c].token
      BY <1>0, <1>9, <2>2 DEF ServerLogout, LogoutFind, LogoutRevoke, TaskRec
    <3>2. QED
      BY <1>1, <1>2, <2>1, <3>1 DEF Works, Only
  <2>3. CASE ~ Live(task[c].token)
    <3>1. Answer(c, "done", call[c].token) /\ task'[c].at = "idle"
      BY <1>0, <1>9, <2>1, <2>3 DEF ServerLogout, LogoutFind, LogoutRevoke, Idle
    <3>2. QED
      BY <1>0, <1>1, <1>3, <2>1, <2>3, <3>1 DEF Answers, Only, Live
  <2>4. QED
    BY <2>2, <2>3
<1>10. CASE LogoutRevoke(c) /\ Answer(c, "done", call[c].token)
  <2>1. /\ task[c].at = "logoutRevoke" /\ task'[c].at = "idle" /\ Waits(c)
        /\ \A u \in Task \ {c} : SameTask(u)
    BY <1>0, <1>10 DEF LogoutRevoke, SameTask, Awaited, Waits, Idle
  <2>2. task[c].token \in Token
    BY <1>0, <1>4, <2>1 DEF Knows
  <2>3. row'[task[c].token].status = "loggedOut" /\ RowsBut(task[c].token)
    BY <1>0, <1>10, <2>2 DEF LogoutRevoke, Row, RowsBut
  <2>4. QED
    BY <1>0, <1>1, <1>3, <1>10, <2>1, <2>3 DEF Answers, Only
<1>11. CASE ServerLogin(c)
  <2>1. PICK k \in Token : Login(k) /\ Answer(c, "token", k)
    BY <1>11 DEF ServerLogin
  <2>2. /\ call[c].fn = "login" /\ Waits(c) /\ task' = task /\ task[c].at = "idle"
    BY <1>0, <1>11, <2>1 DEF ServerLogin, Login, Awaited
  <2>3. row[k].status = "none" /\ row'[k].status = "active" /\ RowsBut(k)
    BY <1>0, <2>1 DEF Login, RowsBut
  <2>4. QED
    BY <1>1, <1>3, <2>1, <2>2, <2>3 DEF Answers, Only, SameTask
<1>12. QED
  BY <1>5, <1>6, <1>7, <1>8, <1>9, <1>10, <1>11 DEF Serve, ServerLogout

\* Of what goes wrong around a request, only that it does not arrive.
LEMMA FaultWhole ==
    ASSUME LinkInv, WholeInv, SignInNext \/ UNCHANGED all, Whole', NEW c \in Task,
           Unreachable(c) \/ AnswerLost(c) \/ LoginLost(c) \/ ServerFails(c)
    PROVE  Answers(c)
<1>0. /\ call \in [Task -> CallRec] /\ task \in [Task -> TaskRec] /\ row \in [Token -> Row]
      /\ call[c].token \in Token \cup {None}
      /\ "answer" \notin spoiled'
  BY WholeFacts DEF CallRec
<1>1. CASE Unreachable(c)
  <2>1. /\ Waits(c) /\ task[c].at \in {"idle", "find", "logoutFind"}
        /\ task'[c].at = "idle" /\ \A u \in Task \ {c} : SameTask(u)
        /\ SameRows /\ SameTokens /\ status' = status
        /\ call[c].fn \in {"boot", "out"} \/ call[c].at = "logout" => "offline" \in spoiled'
    BY <1>0, <1>1 DEF Unreachable, SameRows, SameTokens, SameTask, keep, Idle, Spoil
  <2>2. /\ SameAsk(c) /\ call'[c].ans = "failed" /\ call'[c].token = call[c].token
        /\ \A u \in Task \ {c} : call'[u] = call[u]
    BY <1>0, <1>1, <2>1, AnswerMoves DEF Unreachable
  <2>3. QED
    BY <2>1, <2>2 DEF Answers, Only
<1>2. CASE AnswerLost(c) \/ LoginLost(c) \/ ServerFails(c)
  BY <1>0, <1>2 DEF AnswerLost, LoginLost, ServerFails, Spoil
<1>3. QED
  BY <1>1, <1>2

\* A client sets slot c to r and presents no token; or it presents k.
LEMMA GoesWhole ==
    ASSUME LinkInv, NEW c \in Task, NEW r \in CallRec, Goes(c, r)
    PROVE  /\ call'[c] = r
           /\ \A u \in Task \ {c} : call'[u] = call[u]
           /\ task' = task => SameTask(c) /\ Only(c)
           /\ \A k : RecvRefresh(c, k) \/ RecvLogout(c, k) =>
                  /\ Only(c) /\ SameRows /\ k \in issued /\ k \in Token /\ task[c].at = "idle"
                  /\ RecvRefresh(c, k) => Handles(c, "find", k)
                  /\ RecvLogout(c, k) => Handles(c, "logoutFind", k)
<1>1. call \in [Task -> CallRec] /\ TypeOK
  BY DEF LinkInv, LinkTypeOK
<1>2. call'[c] = r /\ \A u \in Task \ {c} : call'[u] = call[u]
  BY <1>1, GoesMoves
<1>3. task' = task => SameTask(c) /\ Only(c)
  BY <1>2 DEF SameTask, Only
<1>4. ASSUME NEW k, RecvRefresh(c, k) \/ RecvLogout(c, k)
      PROVE  /\ Only(c) /\ SameRows /\ k \in issued /\ k \in Token /\ task[c].at = "idle"
             /\ RecvRefresh(c, k) => Handles(c, "find", k)
             /\ RecvLogout(c, k) => Handles(c, "logoutFind", k)
  <2>1. row' = row
    BY <1>4 DEF RecvRefresh, RecvLogout, Recv
  <2>2. QED
    BY <1>1, <1>2, <1>4, <2>1, PresentMoves DEF Only, SameRows, SameTask
<1>5. QED
  BY <1>2, <1>3, <1>4

\* A client asks, and presents a token if it has one to present.
LEMMA AsksWhole ==
    ASSUME LinkInv, NEW c \in Task, NEW k \in Token \cup {None},
           NEW fn \in {"boot", "login", "refresh", "out"}, NEW at \in {"ask", "logout"},
           Goes(c, Asked(fn, at, k))
    PROVE  /\ Asks(c, fn, at, k)
           /\ task' = task => SameTask(c) /\ Only(c)
           /\ RecvRefresh(c, k) \/ RecvLogout(c, k) =>
                  Only(c) /\ SameRows /\ k \in issued /\ k \in Token /\ task[c].at = "idle"
           /\ RecvRefresh(c, k) => Handles(c, "find", k)
           /\ RecvLogout(c, k) => Handles(c, "logoutFind", k)
<1>1. Asked(fn, at, k) \in CallRec
  BY DEF Asked, CallRec
<1>2. Asks(c, fn, at, k)
  <2>1. call'[c] = Asked(fn, at, k)
    BY <1>1, GoesWhole
  <2>2. QED
    BY <2>1 DEF Asks, Asked
<1>3. QED
  BY <1>1, <1>2, GoesWhole

\* The steps with which a function of the phone begins.
LEMMA PhoneBegins ==
    ASSUME LinkInv, WholeInv, SignInNext \/ UNCHANGED all, Whole', side = "phone", NEW c \in Task,
           PhoneLaunch(c) \/ PhoneLogin(c) \/ PhoneSignOut(c) \/ PhoneRefresh(c)
    PROVE  Opens(c) \/ PhoneOuts(c) \/ \E k \in Token : Trades(c, k)
<1>0. /\ OneAtATime /\ OnPhone
      /\ "overlap" \notin spoiled'
      /\ None \in Token \cup {None}
      /\ \A u \in Task : call[u].fn \in {"idle", "boot", "login", "refresh", "out"}
      /\ memory \in Token \cup {None}
  <2>1. /\ OnPhone /\ "overlap" \notin spoiled' /\ call \in [Task -> CallRec]
        /\ {memory, stored} \subseteq issued \cup {None} /\ issued \subseteq Token
    BY WholeFacts
  <2>2. QED
    BY <2>1 DEF LinkInv, CallRec
<1>1. CASE PhoneLaunch(c)
  <2>1. /\ Goes(c, [fn |-> "boot", at |-> "read", token |-> None, ans |-> "none"])
        /\ call[c] = Quiet /\ task[c].at = "idle" /\ task' = task
        /\ SameTokens /\ SameRows
        /\ \A u \in Task : Idles(u)
    BY <1>0, <1>1 DEF PhoneLaunch, Slot, Free, Idle, vars, SameTokens, SameRows, Idles, OneAtATime
  <2>2. /\ call'[c] = [fn |-> "boot", at |-> "read", token |-> None, ans |-> "none"]
        /\ SameTask(c) /\ Only(c)
    BY <2>1, GoesWhole, AskedRec
  <2>3. QED
    BY <2>1, <2>2 DEF Opens
<1>2. CASE PhoneLogin(c)
  <2>1. /\ Goes(c, Asked("login", "ask", None))
        /\ call[c] = Quiet /\ task[c].at = "idle" /\ task' = task
        /\ SameTokens /\ SameRows
        /\ status = "signedOut" /\ status' = status
        /\ Running({"login"}) => "twice" \in spoiled'
    BY <1>2 DEF PhoneLogin, LoginShown, SubmittedAgain, Slot, Free, Idle, vars, keep, SameTokens,
                SameRows, Spoil
  <2>2. \A u \in Task : call[u].fn # "login"
    BY <2>1 DEF Running, Whole
  <2>3. \A u \in Task : Idles(u)
    BY <1>0, <2>1, <2>2 DEF Idles, OneAtATime, OnPhone
  <2>4. Asks(c, "login", "ask", None) /\ SameTask(c) /\ Only(c)
    BY <1>0, <2>1, AsksWhole
  <2>5. QED
    BY <2>1, <2>2, <2>3, <2>4 DEF Opens
<1>3. CASE PhoneSignOut(c)
  <2>1. /\ RecvLogout(c, memory) /\ Goes(c, Asked("out", "logout", memory))
        /\ call[c] = Quiet /\ SameTokens
        /\ status = "signedIn" /\ status' = status
        /\ \A u \in Task : call[u].fn \notin {"refresh", "out"}
    BY <1>0, <1>3 DEF PhoneSignOut, Slot, Free, keep, SameTokens, Running, Spoil
  <2>2. \A u \in Task : Idles(u)
    BY <1>0, <2>1 DEF Idles, OneAtATime, OnPhone
  <2>3. /\ Asks(c, "out", "logout", memory) /\ Only(c) /\ SameRows
        /\ memory \in issued /\ memory \in Token /\ task[c].at = "idle"
        /\ Handles(c, "logoutFind", memory)
    BY <1>0, <2>1, AsksWhole
  <2>4. QED
    BY <2>1, <2>2, <2>3 DEF PhoneOuts
<1>4. CASE PhoneRefresh(c)
  <2>1. /\ RecvRefresh(c, memory) /\ Goes(c, Asked("refresh", "ask", memory))
        /\ call[c] = Quiet /\ SameTokens
        /\ status = "signedIn" /\ status' = status /\ inFlight = FALSE
        /\ \A u \in Task : call[u].fn # "out"
    BY <1>0, <1>4 DEF PhoneRefresh, MustRefresh, Slot, Free, keep, SameTokens, Running, Spoil,
                      LinkInv, LinkTypeOK
  <2>2. \A u \in Task : Idles(u)
    BY <1>0, <2>1 DEF Idles, OneAtATime, OnPhone
  <2>3. /\ Asks(c, "refresh", "ask", memory) /\ Only(c) /\ SameRows
        /\ memory \in issued /\ memory \in Token /\ task[c].at = "idle"
        /\ Handles(c, "find", memory)
    BY <1>0, <2>1, AsksWhole
  <2>4. Trades(c, memory)
    BY <2>1, <2>2, <2>3 DEF Trades
  <2>5. QED
    BY <2>3, <2>4
<1>5. QED
  BY <1>1, <1>2, <1>3, <1>4

\* The steps with which it goes on.
LEMMA PhoneGoesOn ==
    ASSUME LinkInv, WholeInv, SignInNext \/ UNCHANGED all, Whole', side = "phone", NEW c \in Task,
           PhoneCall(c)
    PROVE  PhoneOuts(c) \/ Finishes(c) \/ Proceeds(c) \/ \E k \in Token : Trades(c, k)
<1>0. /\ OnPhone /\ SlotKnows(c) /\ Paired(c) /\ OneAtATime
      /\ "keychain" \notin spoiled'
      /\ call \in [Task -> CallRec]
      /\ Quiet \in CallRec /\ Quiet.fn = "idle" /\ Quiet.at = "idle" /\ Quiet.ans = "none"
      /\ memory \in Token \cup {None} /\ stored \in Token \cup {None}
  <2>1. /\ OnPhone /\ SlotKnows(c) /\ Paired(c) /\ "keychain" \notin spoiled' /\ call \in [Task -> CallRec]
        /\ {memory, stored} \subseteq issued \cup {None} /\ issued \subseteq Token
    BY WholeFacts
  <2>2. QED
    BY <2>1, CallRecUpdates DEF LinkInv, Quiet
<1>1. call[c].fn # "idle" /\ \A u \in Task \ {c} : Idles(u)
  <2>1. call[c].at # "idle"
    BY <1>0 DEF PhoneCall, BootRead, Answered, Store, Set, Delete, Clear
  <2>2. call[c].fn # "idle"
    BY <1>0, <2>1 DEF SlotKnows
  <2>3. QED
    BY <1>0, <2>2 DEF OnPhone, Idles
<1>2. ASSUME Goes(c, Quiet), UNCHANGED vars
      PROVE  call'[c] = Quiet /\ SameTask(c) /\ Only(c) /\ SameRows
  BY <1>0, <1>2, GoesWhole DEF vars, SameRows
<1>3. ASSUME NEW at \in {"store", "set", "delete", "clear"}, Goes(c, At(c, at)), UNCHANGED vars
      PROVE  /\ SameTask(c) /\ Only(c) /\ SameRows
             /\ call'[c].fn = call[c].fn /\ call'[c].token = call[c].token
             /\ call'[c].ans = "none" /\ call'[c].at = at
  <2>1. At(c, at) \in CallRec
    BY <1>0, AtRec
  <2>2. call'[c] = At(c, at) /\ SameTask(c) /\ Only(c) /\ SameRows
    BY <1>3, <2>1, GoesWhole DEF vars, SameRows
  <2>3. QED
    BY <1>0, <2>2, AtRec
<1>4. CASE BootRead(c)
  <2>1. call[c].at = "read" /\ ~ Waits(c) /\ SameTokens
    BY <1>0, <1>4 DEF BootRead, SlotKnows, Waits, SameTokens
  <2>2. CASE stored = None /\ Goes(c, Quiet) /\ UNCHANGED task
    <3>1. UNCHANGED vars
      BY <1>4, <2>2 DEF BootRead, Untouched, vars
    <3>2. QED
      BY <1>1, <1>2, <2>1, <2>2, <3>1 DEF Finishes
  <2>3. CASE RecvRefresh(c, stored) /\ Goes(c, Asked("boot", "ask", stored))
    <3>1. /\ Asks(c, "boot", "ask", stored) /\ Only(c) /\ SameRows
          /\ stored \in issued /\ stored \in Token /\ task[c].at = "idle"
          /\ Handles(c, "find", stored)
      BY <1>0, <2>3, AsksWhole
    <3>2. Trades(c, stored)
      BY <1>1, <2>1, <3>1 DEF Trades
    <3>3. QED
      BY <3>1, <3>2
  <2>4. QED
    BY <1>0, <1>4, <2>2, <2>3 DEF BootRead, Spoil
<1>5. CASE Answered(c)
  <2>1. /\ call[c].at \in {"ask", "logout"} /\ call[c].ans \notin {"none", "waiting"}
        /\ ~ Waits(c) /\ SameTokens /\ status' = status
        /\ UNCHANGED <<issued, row>>
    BY <1>5 DEF Answered, Untouched, Waits, SameTokens, keep
  <2>2. CASE call[c].ans = "token" /\ Goes(c, At(c, "store")) /\ UNCHANGED task
    <3>1. UNCHANGED vars
      BY <2>1, <2>2 DEF vars
    <3>2. QED
      BY <1>1, <1>3, <2>1, <2>2, <3>1 DEF Proceeds, SameTokens
  <2>3. CASE /\ (call[c].fn = "boot" /\ call[c].ans # "token") \/ call[c].at = "logout"
             /\ Goes(c, At(c, "delete")) /\ UNCHANGED task
    <3>1. UNCHANGED vars
      BY <2>1, <2>3 DEF vars
    <3>2. call[c].ans # "token"
      BY <1>0, <2>1, <2>3 DEF Paired
    <3>3. QED
      BY <1>1, <1>3, <2>1, <2>3, <3>1, <3>2 DEF Proceeds, SameTokens
  <2>4. CASE /\ call[c].at = "ask" /\ call[c].fn = "refresh" /\ call[c].ans = "rejected"
             /\ Goes(c, At(c, "delete")) /\ UNCHANGED task
    <3>1. UNCHANGED vars
      BY <2>1, <2>4 DEF vars
    <3>2. QED
      BY <1>1, <1>3, <2>1, <2>4, <3>1 DEF Proceeds, SameTokens
  <2>5. CASE /\ call[c].at = "ask" /\ call[c].fn = "refresh" /\ call[c].ans = "rejected"
             /\ SignOutNested(c)
    <3>1. RecvLogout(c, memory) /\ Goes(c, Asked("refresh", "logout", memory))
      BY <2>5 DEF SignOutNested
    <3>2. /\ Asks(c, "refresh", "logout", memory) /\ Only(c) /\ SameRows
          /\ memory \in issued /\ memory \in Token /\ task[c].at = "idle"
          /\ Handles(c, "logoutFind", memory)
      BY <1>0, <3>1, AsksWhole
    <3>3. status = "signedIn"
      BY <1>0, <2>5 DEF OnPhone
    <3>4. QED
      BY <1>1, <2>1, <2>5, <3>2, <3>3 DEF PhoneOuts
  <2>6. CASE /\ call[c].ans = "failed" /\ call[c].at = "ask"
             /\ Goes(c, Quiet) /\ UNCHANGED task
    <3>1. UNCHANGED vars
      BY <2>1, <2>6 DEF vars
    <3>2. QED
      BY <1>1, <1>2, <2>1, <2>6, <3>1 DEF Finishes
  <2>7. QED
    BY <1>5, <2>2, <2>3, <2>4, <2>5, <2>6 DEF Answered
<1>6. CASE Store(c)
  <2>1. /\ call[c].at = "store" /\ ~ Waits(c) /\ UNCHANGED vars
        /\ memory' = memory /\ status' = status
        /\ stored' = call[c].token /\ Goes(c, At(c, "set"))
    BY <1>0, <1>6 DEF Store, Spoil, SlotKnows, Waits
  <2>2. QED
    BY <1>1, <1>3, <2>1 DEF Proceeds
<1>7. CASE Delete(c)
  <2>1. /\ call[c].at = "delete" /\ ~ Waits(c) /\ UNCHANGED vars
        /\ memory' = memory /\ status' = status
        /\ stored' = None /\ Goes(c, At(c, "clear"))
    BY <1>0, <1>7 DEF Delete, Spoil, SlotKnows, Waits
  <2>2. QED
    BY <1>1, <1>3, <2>1 DEF Proceeds
<1>8. CASE Set(c)
  <2>1. /\ call[c].at = "set" /\ ~ Waits(c) /\ UNCHANGED vars /\ Goes(c, Quiet)
        /\ memory' = call[c].token /\ stored' = stored
        /\ status' = "signedIn" \/ (call[c].fn = "refresh" /\ status' = status)
    BY <1>0, <1>8 DEF Set, SlotKnows, Waits
  <2>2. QED
    BY <1>1, <1>2, <2>1 DEF Finishes
<1>9. CASE Clear(c)
  <2>1. /\ call[c].at = "clear" /\ ~ Waits(c) /\ UNCHANGED vars /\ Goes(c, Quiet)
        /\ memory' = None /\ stored' = stored
    BY <1>0, <1>9 DEF Clear, SlotKnows, Waits
  <2>2. QED
    BY <1>1, <1>2, <2>1 DEF Finishes
<1>10. QED
  BY <1>4, <1>5, <1>6, <1>7, <1>8, <1>9 DEF PhoneCall

\* The Mac's steps.
LEMMA MacWhole ==
    ASSUME LinkInv, WholeInv, SignInNext \/ UNCHANGED all, Whole', side = "mac", MacNext
    PROVE  WholeMove
<1>0. /\ OneAtATime
      /\ "overlap" \notin spoiled' /\ "keychain" \notin spoiled'
      /\ call \in [Task -> CallRec] /\ \A u \in Task : SlotKnows(u)
      /\ Quiet \in CallRec /\ Quiet.fn = "idle" /\ Quiet.at = "idle" /\ Quiet.ans = "none"
      /\ memory \in Token \cup {None} /\ stored \in Token \cup {None}
  <2>1. /\ {"overlap", "keychain"} \cap spoiled' = {} /\ call \in [Task -> CallRec]
        /\ {memory, stored} \subseteq issued \cup {None} /\ issued \subseteq Token
        /\ \A u \in Task : SlotKnows(u)
    BY WholeFacts
  <2>2. QED
    BY <2>1, CallRecUpdates DEF LinkInv, Quiet
<1>1. ASSUME UNCHANGED <<vars, call, memory, stored>>
      PROVE  Rests
  BY <1>1 DEF vars, Rests, SameTask
<1>2. CASE NameMac
  BY <1>1, <1>2 DEF NameMac, WholeMove
<1>3. ASSUME NEW c \in Task, MacLaunch(c)
      PROVE  Rests \/ \E k \in Token : Trades(c, k)
  <2>1. SameTokens /\ call[c] = Quiet
    BY <1>3 DEF MacLaunch, SameTokens, Slot, Free
  <2>2. CASE UNCHANGED <<vars, call>>
    BY <1>1, <2>1, <2>2 DEF SameTokens
  <2>3. CASE RecvRefresh(c, stored) /\ Goes(c, Asked("boot", "ask", stored))
    <3>1. /\ Asks(c, "boot", "ask", stored) /\ Only(c) /\ SameRows
          /\ stored \in issued /\ stored \in Token /\ task[c].at = "idle"
          /\ Handles(c, "find", stored)
      BY <1>0, <2>3, AsksWhole
    <3>2. Trades(c, stored)
      BY <2>1, <3>1 DEF Trades
    <3>3. QED
      BY <3>1, <3>2
  <2>4. QED
    BY <1>3, <2>2, <2>3 DEF MacLaunch
<1>4. ASSUME NEW c \in Task, MacLogin(c)
      PROVE  Opens(c)
  <2>1. /\ Goes(c, Asked("login", "ask", None))
        /\ call[c] = Quiet /\ task[c].at = "idle" /\ task' = task
        /\ SameTokens /\ SameRows
        /\ \A u \in Task : call[u].fn # "login"
        /\ stored # None => "over" \in spoiled'
    BY <1>4 DEF MacLogin, Slot, Free, Idle, vars, keep, SameTokens, SameRows, Running, Spoil
  <2>2. None \in Token \cup {None}
    OBVIOUS
  <2>3. Asks(c, "login", "ask", None) /\ SameTask(c) /\ Only(c)
    BY <2>1, <2>2, AsksWhole
  <2>4. QED
    BY <2>1, <2>3 DEF Opens
<1>5. ASSUME NEW c \in Task, MacSignOut(c)
      PROVE  MacOuts(c)
  <2>1. /\ RecvLogout(c, memory) /\ Goes(c, Asked("out", "logout", memory))
        /\ call[c] = Quiet /\ status = "ready"
        /\ memory' = None /\ stored' = None
        /\ \A u \in Task : call[u].fn \notin {"refresh", "login"}
    BY <1>0, <1>5 DEF MacSignOut, Slot, Free, Running, Spoil
  <2>2. \A u \in Task : call[u].fn # "boot"
    BY <1>0, <2>1 DEF OneAtATime
  <2>3. /\ Asks(c, "out", "logout", memory) /\ Only(c) /\ SameRows
        /\ memory \in issued /\ memory \in Token /\ task[c].at = "idle"
        /\ Handles(c, "logoutFind", memory)
    BY <1>0, <2>1, AsksWhole
  <2>4. QED
    BY <2>1, <2>2, <2>3 DEF MacOuts
<1>6. ASSUME NEW c \in Task, MacRefresh(c)
      PROVE  \E k \in Token : Trades(c, k)
  <2>1. /\ RecvRefresh(c, memory) /\ Goes(c, Asked("refresh", "ask", memory))
        /\ call[c] = Quiet /\ SameTokens
    BY <1>6 DEF MacRefresh, Slot, Free, keep, SameTokens
  <2>2. /\ Asks(c, "refresh", "ask", memory) /\ Only(c) /\ SameRows
        /\ memory \in issued /\ memory \in Token /\ task[c].at = "idle"
        /\ Handles(c, "find", memory)
    BY <1>0, <2>1, AsksWhole
  <2>3. Trades(c, memory)
    BY <2>1, <2>2 DEF Trades
  <2>4. QED
    BY <2>2, <2>3
<1>7. ASSUME NEW c \in Task, MacAnswered(c)
      PROVE  Finishes(c)
  <2>1. Goes(c, Quiet) /\ UNCHANGED vars /\ call[c].ans \notin {"none", "waiting"}
    BY <1>7 DEF MacAnswered
  <2>2. call[c].fn # "idle"
    BY <1>0, <2>1 DEF SlotKnows
  <2>3. call'[c] = Quiet /\ SameTask(c) /\ Only(c) /\ SameRows
    BY <1>0, <2>1, GoesWhole DEF vars, SameRows
  <2>4. IF call[c].ans = "token" THEN memory' = call[c].token /\ stored' = call[c].token
        ELSE SameTokens
    BY <1>0, <1>7 DEF MacAnswered, StoreTokens, Spoil, SameTokens
  <2>5. QED
    BY <2>1, <2>2, <2>3, <2>4 DEF Finishes, Waits
<1>8. QED
  BY <1>2, <1>3, <1>4, <1>5, <1>6, <1>7 DEF MacNext, WholeMove

\* Every step while all is whole is one of these.
LEMMA WholeMoves ==
    ASSUME LinkInv, WholeInv, SignInNext \/ UNCHANGED all, Whole'
    PROVE  WholeMove
<1>0. /\ call \in [Task -> CallRec] /\ row \in [Token -> Row]
      /\ "cut" \notin spoiled' /\ \A u \in Task : SlotKnows(u)
      /\ {memory, stored} \subseteq issued \cup {None} /\ issued \subseteq Token
  BY WholeFacts
<1>1. ASSUME NEW c \in Task, Serve(c)
      PROVE  WholeMove
  BY <1>1, ServeWhole DEF WholeMove
<1>2. ASSUME NEW c \in Task, Unreachable(c) \/ AnswerLost(c) \/ LoginLost(c) \/ ServerFails(c)
      PROVE  WholeMove
  BY <1>2, FaultWhole DEF WholeMove
<1>3. CASE Quit
  <2>1. \A u \in Task : call[u].fn \notin {"boot", "login", "refresh", "out"}
    BY <1>0, <1>3 DEF Quit, Running, Spoil
  <2>2. \A u \in Task : call[u] = Quiet
    BY <1>0, <2>1 DEF SlotKnows, CallRec
  <2>3. Rests
    BY <1>3, <2>2 DEF Quit, Rests, vars, SameTask
  <2>4. QED
    BY <2>3 DEF WholeMove
<1>4. CASE Ages
  <2>1. /\ task' = task /\ call' = call /\ memory' = memory /\ stored' = stored /\ status' = status
        /\ row' = row \/ \E k \in Token : Expire(k)
    BY <1>0, <1>4 DEF Ages
  <2>2. ASSUME NEW k \in Token, Expire(k), NEW j \in Token
        PROVE  \/ row'[j].status = row[j].status
               \/ row[j].status = "active" /\ row'[j].status = "expired"
    BY <1>0, <2>2 DEF Expire, Row
  <2>3. Rests
    BY <2>1, <2>2 DEF Rests, SameTask
  <2>4. QED
    BY <2>3 DEF WholeMove
<1>5. CASE UNCHANGED all
  <2>1. Rests
    BY <1>5 DEF all, vars2, vars, client, keep, Rests, SameTask
  <2>2. QED
    BY <2>1 DEF WholeMove
<1>6. CASE side = "phone" /\ PhoneNext
  BY <1>6, PhoneBegins, PhoneGoesOn DEF PhoneNext, WholeMove
<1>7. CASE side = "mac" /\ MacNext
  BY <1>7, MacWhole
<1>8. QED
  BY <1>1, <1>2, <1>3, <1>4, <1>5, <1>6, <1>7 DEF SignInNext, Around

\* What a step while all is whole does to one slot.
LEMMA WholeSlot ==
    ASSUME WholeMove, NEW u \in Task
    PROVE  \/ call'[u] = call[u] /\ SameTask(u)
           \/ Opens(u) \/ PhoneOuts(u) \/ MacOuts(u) \/ Works(u) \/ Answers(u)
           \/ Finishes(u) \/ Proceeds(u) \/ \E k \in Token : Trades(u, k)
<1>1. ASSUME NEW c \in Task, Only(c), u # c
      PROVE  call'[u] = call[u] /\ SameTask(u)
  BY <1>1 DEF Only
<1>2. Rests => call'[u] = call[u] /\ SameTask(u)
  BY DEF Rests
<1>3. ASSUME NEW c \in Task, \/ Opens(c) \/ PhoneOuts(c) \/ MacOuts(c) \/ Works(c) \/ Answers(c)
                            \/ Finishes(c) \/ Proceeds(c) \/ \E k \in Token : Trades(c, k)
      PROVE  Only(c)
  BY <1>3 DEF Opens, PhoneOuts, MacOuts, Works, Answers, Finishes, Proceeds, Trades
<1>4. QED
  BY <1>1, <1>2, <1>3 DEF WholeMove

\* The quiet slot's fields.
LEMMA QuietFields ==
    Quiet.fn = "idle" /\ Quiet.at = "idle" /\ Quiet.ans = "none" /\ Quiet.token = None
  BY DEF Quiet

\* A slot and the handler of its request stay together.
LEMMA PairedStep ==
    ASSUME LinkInv, WholeInv, SignInNext \/ UNCHANGED all, Whole', NEW u \in Task
    PROVE  Paired(u)'
<1>0. SlotKnows(u) /\ Paired(u) /\ Awaited(u) /\ call[u] \in CallRec
  BY WholeFacts
<1>1. CASE call'[u] = call[u] /\ SameTask(u)
  BY <1>0, <1>1 DEF SameTask, Paired, Waits, Rotating
<1>2. CASE Opens(u) \/ \E k \in Token : Trades(u, k)
  <2>1. call[u] = Quiet \/ call[u].at = "read"
    BY <1>2 DEF Opens, Trades
  <2>2. \/ call'[u].fn = "boot" /\ call'[u].at = "read" /\ call'[u].ans = "none"
        \/ Asks(u, "login", "ask", None)
        \/ \E k \in Token : /\ Handles(u, "find", k)
                            /\ Asks(u, "boot", "ask", k) \/ Asks(u, "refresh", "ask", k)
    BY <1>2 DEF Opens, Trades
  <2>3. QED
    BY <2>2 DEF Asks, Handles, Paired, Waits, Rotating
<1>3. CASE PhoneOuts(u) \/ MacOuts(u)
  <2>1. /\ Handles(u, "logoutFind", memory)
        /\ Asks(u, "out", "logout", memory) \/ Asks(u, "refresh", "logout", memory)
    BY <1>3 DEF PhoneOuts, MacOuts
  <2>2. QED
    BY <2>1 DEF Asks, Handles, Paired, Waits, LoggingOut
<1>4. CASE Works(u)
  BY <1>0, <1>4 DEF Works, Paired, Waits, Rotating, LoggingOut
<1>5. CASE Answers(u)
  <2>1. Waits(u) /\ SameAsk(u) /\ call'[u].ans \in {"rejected", "token", "done", "failed"}
    BY <1>5 DEF Answers
  <2>2. call'[u].ans = "rejected" => call[u].at = "ask" /\ call[u].fn \in Exchanging
    <3>1. call'[u].ans = "rejected" => task[u].at = "find"
      BY <1>5 DEF Answers
    <3>2. QED
      BY <1>0, <2>1, <3>1 DEF Awaited, Rotating, Paired, LoggingOut
  <2>3. call'[u].ans = "token" => call[u].at = "ask"
    <3>1. call'[u].ans = "token" => task[u].at = "reply" \/ call[u].fn = "login"
      BY <1>5 DEF Answers
    <3>2. QED
      BY <1>0, <2>1, <3>1 DEF Awaited, Rotating, Paired, LoggingOut
  <2>4. call'[u].ans = "done" => call[u].at = "logout"
    <3>1. call'[u].ans = "done" => task[u].at \in LoggingOut
      BY <1>5 DEF Answers, LoggingOut
    <3>2. QED
      BY <1>0, <2>1, <3>1 DEF Awaited, Rotating, Paired, LoggingOut
  <2>5. QED
    BY <1>0, <2>1, <2>2, <2>3, <2>4 DEF SameAsk, Paired, Waits
<1>6. CASE Finishes(u)
  BY <1>6, QuietFields DEF Finishes, Paired, Waits
<1>7. CASE Proceeds(u)
  <2>1. /\ call'[u].fn = call[u].fn /\ call'[u].ans = "none"
        /\ call'[u].at \in {"store", "delete", "set", "clear"}
        /\ call'[u].at = "store" => call[u].ans = "token"
        /\ call'[u].at = "set" => call[u].at = "store"
    BY <1>7 DEF Proceeds
  <2>2. call'[u].fn = "login" => call'[u].at \in {"store", "set"}
    BY <1>0, <1>7, <2>1 DEF Proceeds, Paired, Exchanging
  <2>3. call'[u].fn = "out" => call'[u].at \in {"delete", "clear"}
    BY <1>0, <1>7, <2>1 DEF Proceeds, Paired, Exchanging
  <2>4. QED
    BY <2>1, <2>2, <2>3 DEF Paired, Waits
<1>8. QED
  BY <1>1, <1>2, <1>3, <1>4, <1>5, <1>6, <1>7, WholeMoves, WholeSlot

\* The phone goes on doing one thing at a time.
LEMMA OnPhoneStep ==
    ASSUME LinkInv, WholeInv, SignInNext \/ UNCHANGED all, Whole'
    PROVE  OnPhone'
<1> SUFFICES ASSUME side = "phone"
             PROVE  OnPhone'
  BY WholeFacts DEF OnPhone
<1>0. /\ \A u, d \in Task : call[u].fn # "idle" /\ call[d].fn # "idle" => u = d
      /\ \A u \in Task : call[u].fn = "login" => status = "signedOut"
      /\ \A u \in Task : call[u].fn \in {"refresh", "out"} => status = "signedIn"
      /\ \A u \in Task : call[u].at = "set" => stored = call[u].token
      /\ \A u \in Task : call[u].at = "clear" => stored = None
      /\ \A u \in Task : SlotKnows(u) /\ Awaited(u) /\ Knows(u)
  BY WholeFacts DEF OnPhone
<1>1. CASE Rests
  <2>1. \A u \in Task : call'[u] = call[u]
    BY <1>1 DEF Rests
  <2>2. stored' = stored
    BY <1>1 DEF Rests
  <2>3. LinkInv'
    BY LinkInvStep
  <2>4. \A u \in Task : call'[u].fn # "idle" => status' # "off"
    BY <2>3 DEF LinkInv, OneAtATime
  <2>5. status' \in {status, "off"}
    BY <1>1 DEF Rests
  <2>6. QED
    BY <1>0, <2>1, <2>2, <2>4, <2>5 DEF OnPhone
\* Whose slot c moves while the others are idle or as they were.
<1> DEFINE Good1(c) ==
        /\ \A u \in Task \ {c} : call'[u].fn = "idle" /\ call'[u].at = "idle"
        /\ call'[c].fn = "login" => status' = "signedOut"
        /\ call'[c].fn \in {"refresh", "out"} => status' = "signedIn"
        /\ call'[c].at = "set" => stored' = call'[c].token
        /\ call'[c].at = "clear" => stored' = None
<1>2. ASSUME NEW c \in Task, Good1(c)
      PROVE  OnPhone'
  BY <1>2 DEF OnPhone
<1>3. ASSUME NEW c \in Task, Only(c), \A u \in Task \ {c} : Idles(u)
      PROVE  \A u \in Task \ {c} : call'[u].fn = "idle" /\ call'[u].at = "idle"
  BY <1>0, <1>3, QuietFields DEF Only, Idles, SlotKnows
<1>4. ASSUME NEW c \in Task, Opens(c)
      PROVE  Good1(c)
  BY <1>3, <1>4 DEF Opens, Asks
<1>5. ASSUME NEW c \in Task, PhoneOuts(c)
      PROVE  Good1(c)
  BY <1>3, <1>5 DEF PhoneOuts, Asks
<1>6. ASSUME NEW c \in Task, NEW k \in Token, Trades(c, k)
      PROVE  Good1(c)
  BY <1>3, <1>6 DEF Trades, Asks
<1>7. ASSUME NEW c \in Task, call[c].fn # "idle"
      PROVE  \A u \in Task \ {c} : Idles(u)
  BY <1>0, <1>7 DEF Idles
<1>8. ASSUME NEW c \in Task, Works(c)
      PROVE  Good1(c)
  <2>1. call[c].fn # "idle"
    BY <1>0, <1>8, QuietFields DEF Works, Awaited, SlotKnows
  <2>2. call'[c] = call[c] /\ stored' = stored /\ status' = status /\ Only(c)
    BY <1>8 DEF Works, SameTokens
  <2>3. QED
    BY <1>0, <1>3, <1>7, <2>1, <2>2
<1>9. ASSUME NEW c \in Task, Answers(c)
      PROVE  Good1(c)
  <2>1. call[c].fn # "idle" /\ call[c].at \notin {"set", "clear"}
    BY <1>0, <1>9, QuietFields DEF Answers, Waits, SlotKnows
  <2>2. SameAsk(c) /\ status' = status /\ Only(c)
    BY <1>9 DEF Answers
  <2>3. QED
    BY <1>0, <1>3, <1>7, <2>1, <2>2 DEF SameAsk
<1>10. ASSUME NEW c \in Task, Finishes(c)
       PROVE  Good1(c)
  <2>1. call[c].fn # "idle" /\ Only(c) /\ call'[c] = Quiet
    BY <1>10 DEF Finishes
  <2>2. QED
    BY <1>3, <1>7, <2>1, QuietFields
<1>11. ASSUME NEW c \in Task, Proceeds(c)
       PROVE  Good1(c)
  <2>1. /\ call[c].fn # "idle" /\ Only(c) /\ call'[c].fn = call[c].fn /\ status' = status
        /\ call'[c].at = "set" => stored' = call'[c].token
        /\ call'[c].at = "clear" => stored' = None
    BY <1>11 DEF Proceeds
  <2>2. QED
    BY <1>0, <1>3, <1>7, <2>1
<1>12. ASSUME NEW c \in Task, MacOuts(c)
       PROVE  FALSE
  BY <1>12 DEF MacOuts
<1> HIDE DEF Good1
<1>13. QED
  BY <1>1, <1>2, <1>4, <1>5, <1>6, <1>8, <1>9, <1>10, <1>11, <1>12, WholeMoves DEF WholeMove

\* A token arrives for slot u.
Gets(u) == Answers(u) /\ call'[u].ans = "token"

\* A token that is waiting to be stored was waiting before, or arrives now.
LEMMA PendingEvolves ==
    ASSUME LinkInv, WholeInv, SignInNext \/ UNCHANGED all, Whole', NEW u \in Task, Pending(u)'
    PROVE  (Pending(u) /\ call'[u].token = call[u].token) \/ Gets(u)
<1>0. SlotKnows(u) /\ Paired(u)
  BY WholeFacts
<1>1. call'[u].ans = "token" \/ call'[u].at = "store"
  BY DEF Pending
<1>2. CASE call'[u] = call[u]
  BY <1>1, <1>2 DEF Pending
<1>3. CASE Opens(u) \/ PhoneOuts(u) \/ MacOuts(u) \/ (\E k \in Token : Trades(u, k)) \/ Finishes(u)
  BY <1>1, <1>3, QuietFields DEF Opens, PhoneOuts, MacOuts, Trades, Finishes, Asks
<1>4. CASE Works(u)
  BY <1>1, <1>4 DEF Works, Pending
<1>5. CASE Answers(u)
  <2>1. call[u].at # "store"
    BY <1>0, <1>5 DEF Answers, Waits, Paired
  <2>2. call'[u].at = call[u].at
    BY <1>5 DEF Answers, SameAsk
  <2>3. QED
    BY <1>1, <1>5, <2>1, <2>2 DEF Gets
<1>6. CASE Proceeds(u)
  BY <1>1, <1>6 DEF Proceeds, Pending
<1>7. QED
  BY <1>2, <1>3, <1>4, <1>5, <1>6, WholeMoves, WholeSlot

\* A token is good after the step.
Survives(k) == k # None /\ row'[k].status \in {"active", "expired"}

\* What arrives is good, and new to the client and to every handler.
LEMMA GetsNew ==
    ASSUME LinkInv, WholeInv, SignInNext \/ UNCHANGED all, Whole', NEW u \in Task, Gets(u)
    PROVE  /\ call'[u].token \in Token
           /\ call'[u].token \notin issued
           /\ Survives(call'[u].token)
           /\ SameTokens /\ Only(u) /\ task'[u].at = "idle"
<1>0. /\ Knows(u) /\ issued \subseteq {k \in Token : row[k].status # "none"}
  BY WholeFacts
<1>1. SameTokens /\ Only(u) /\ task'[u].at = "idle"
  BY DEF Gets, Answers
<1>2. CASE task[u].at = "reply"
  <2>1. SameRows /\ call'[u].token = task[u].new
    BY <1>2 DEF Gets, Answers
  <2>2. QED
    BY <1>0, <1>1, <1>2, <2>1, NoneAssumption DEF Knows, Survives, SameRows
<1>3. CASE task[u].at # "reply"
  <2>1. /\ call'[u].token \in Token
        /\ row[call'[u].token].status = "none" /\ row'[call'[u].token].status = "active"
    BY <1>3 DEF Gets, Answers
  <2>2. QED
    BY <1>0, <1>1, <2>1, NoneAssumption DEF Survives
<1>4. QED
  BY <1>2, <1>3

\* Where the tokens come from that a client holds after a step.
LEMMA HoldsEvolve ==
    ASSUME LinkInv, WholeInv, SignInNext \/ UNCHANGED all, Whole', NEW k \in {memory', stored'}
    PROVE  \/ k \in {memory, stored, None}
           \/ \E c \in Task : Pending(c) /\ ~ Pending(c)' /\ k = call[c].token
<1>0. /\ \A c \in Task : SlotKnows(c)
      /\ side = "phone" => \A c \in Task : call[c].at = "set" => stored = call[c].token
  BY WholeFacts DEF OnPhone
<1>1. CASE Rests
  BY <1>1 DEF Rests
<1>2. ASSUME NEW c \in Task, SameTokens \/ (memory' = None /\ stored' = None)
      PROVE  k \in {memory, stored, None}
  BY <1>2 DEF SameTokens
<1>3. ASSUME NEW c \in Task, NEW j \in Token, \/ Opens(c) \/ PhoneOuts(c) \/ MacOuts(c) \/ Works(c)
                                             \/ Answers(c) \/ Trades(c, j)
      PROVE  k \in {memory, stored, None}
  BY <1>2, <1>3 DEF Opens, PhoneOuts, MacOuts, Works, Answers, Trades
<1>4. ASSUME NEW c \in Task, \/ Opens(c) \/ PhoneOuts(c) \/ MacOuts(c) \/ Works(c) \/ Answers(c)
      PROVE  k \in {memory, stored, None}
  BY <1>2, <1>4 DEF Opens, PhoneOuts, MacOuts, Works, Answers
<1>5. ASSUME NEW c \in Task, Finishes(c)
      PROVE  k \in {memory, stored, None} \/ (Pending(c) /\ ~ Pending(c)' /\ k = call[c].token)
  <2>1. ~ Pending(c)'
    BY <1>5, QuietFields DEF Finishes, Pending
  <2>2. QED
    BY <1>0, <1>5, <2>1 DEF Finishes, SameTokens, Pending
<1>6. ASSUME NEW c \in Task, Proceeds(c)
      PROVE  k \in {memory, stored, None} \/ (Pending(c) /\ ~ Pending(c)' /\ k = call[c].token)
  BY <1>6 DEF Proceeds, Pending
<1>7. QED
  BY <1>1, <1>3, <1>4, <1>5, <1>6, WholeMoves DEF WholeMove

\* A handler works on the token it worked on, or on one the client holds.
LEMMA HandlersEvolve ==
    ASSUME LinkInv, WholeInv, SignInNext \/ UNCHANGED all, Whole', NEW d \in Task,
           task'[d].at # "idle"
    PROVE  \/ task[d].at # "idle" /\ task'[d].token = task[d].token
           \/ task'[d].token \in {memory, stored} \cap issued
<1>1. CASE SameTask(d)
  BY <1>1 DEF SameTask
<1>2. CASE Opens(d) \/ Finishes(d) \/ Proceeds(d)
  BY <1>1, <1>2 DEF Opens, Finishes, Proceeds
<1>3. CASE PhoneOuts(d) \/ MacOuts(d)
  BY <1>3 DEF PhoneOuts, MacOuts, Handles
<1>4. CASE \E k \in Token : Trades(d, k)
  BY <1>4 DEF Trades, Handles
<1>5. CASE Works(d) \/ Answers(d)
  BY <1>5 DEF Works, Answers
<1>6. QED
  BY <1>1, <1>2, <1>3, <1>4, <1>5, WholeMoves, WholeSlot

\* A good token is spoilt by a handler that works on it.
LEMMA GoodEvolves ==
    ASSUME LinkInv, WholeInv, SignInNext \/ UNCHANGED all, Whole', NEW k \in Token, Good(k)
    PROVE  \/ Survives(k)
           \/ \E d \in Task : /\ task[d].token = k /\ task[d].at \in {"revoke", "logoutRevoke"}
                              /\ Works(d) \/ Answers(d)
<1>1. CASE SameRows \/ Rests
  BY <1>1 DEF SameRows, Rests, Good, Survives
<1>2. ASSUME NEW c \in Task, Works(c)
      PROVE  Survives(k) \/ (task[c].token = k /\ task[c].at \in {"revoke", "logoutRevoke"})
  BY <1>2 DEF Works, SameRows, RowsBut, Good, Survives
<1>3. ASSUME NEW c \in Task, Answers(c)
      PROVE  Survives(k) \/ (task[c].token = k /\ task[c].at \in {"revoke", "logoutRevoke"})
  BY <1>3 DEF Answers, SameRows, RowsBut, Good, Survives
<1>4. ASSUME NEW c \in Task, \/ Opens(c) \/ PhoneOuts(c) \/ MacOuts(c) \/ Finishes(c) \/ Proceeds(c)
                            \/ \E j \in Token : Trades(c, j)
      PROVE  SameRows
  BY <1>4 DEF Opens, PhoneOuts, MacOuts, Finishes, Proceeds, Trades
<1>5. QED
  BY <1>1, <1>2, <1>3, <1>4, WholeMoves DEF WholeMove

\* What is about to be stored stays good, and nobody else's.
LEMMA HeldStep ==
    ASSUME LinkInv, WholeInv, SignInNext \/ UNCHANGED all, Whole', NEW u \in Task
    PROVE  Held(u)'
<1> DEFINE k == call'[u].token
<1> SUFFICES ASSUME Pending(u)'
             PROVE  /\ Survives(k)
                    /\ k \notin {memory', stored'}
                    /\ \A d \in Task : task'[d].at # "idle" => task'[d].token # k
                    /\ \A d \in Task \ {u} : Pending(d)' => call'[d].token # k
  BY DEF Held, Good, Survives
<1>0. /\ \A c \in Task : Held(c) /\ SlotKnows(c) /\ Knows(c)
      /\ issued \subseteq Token /\ {memory, stored} \subseteq issued \cup {None}
  BY WholeFacts
<1>1. \A d \in Task : Pending(d) => call[d].token \in issued
  BY <1>0 DEF Pending, SlotKnows
<1>2. CASE Gets(u)
  <2>1. k \in Token /\ k \notin issued /\ Survives(k) /\ SameTokens /\ Only(u) /\ task'[u].at = "idle"
    BY <1>2, GetsNew
  <2>2. k \notin {memory', stored'}
    BY <1>0, <2>1, NoneAssumption DEF SameTokens
  <2>3. ASSUME NEW d \in Task, task'[d].at # "idle"
        PROVE  task'[d].token # k
    BY <1>0, <2>1, <2>3 DEF Only, SameTask, Knows
  <2>4. ASSUME NEW d \in Task \ {u}, Pending(d)'
        PROVE  call'[d].token # k
    BY <1>1, <2>1, <2>4 DEF Only, Pending
  <2>5. QED
    BY <2>1, <2>2, <2>3, <2>4
<1>3. CASE Pending(u) /\ call'[u].token = call[u].token
  <2>1. /\ k \in issued /\ k \in Token /\ Good(k) /\ k \notin {memory, stored}
        /\ \A d \in Task : task[d].at # "idle" => task[d].token # k
        /\ \A d \in Task \ {u} : Pending(d) => call[d].token # k
    BY <1>0, <1>1, <1>3 DEF Held
  <2>2. Survives(k)
    BY <2>1, GoodEvolves
  <2>3. k \notin {memory', stored'}
    BY <2>1, HoldsEvolve, NoneAssumption
  <2>4. \A d \in Task : task'[d].at # "idle" => task'[d].token # k
    BY <2>1, HandlersEvolve
  <2>5. \A d \in Task \ {u} : Pending(d)' => call'[d].token # k
    BY <2>1, PendingEvolves, GetsNew
  <2>6. QED
    BY <2>2, <2>3, <2>4, <2>5
<1>4. QED
  BY <1>2, <1>3, PendingEvolves

\* The Mac goes on having forgotten what it logs out.
LEMMA OnMacStep ==
    ASSUME LinkInv, WholeInv, SignInNext \/ UNCHANGED all, Whole'
    PROVE  OnMac'
<1> SUFFICES ASSUME side = "mac"
             PROVE  OnMac'
  BY WholeFacts DEF OnMac
<1>0. /\ \A c \in Task : call[c].at \in {"idle", "ask", "logout"}
      /\ \A c \in Task : task[c].at \in LoggingOut => task[c].token \notin {stored, memory}
      /\ \A c \in Task : call[c].at = "logout" => call[c].fn = "out"
      /\ \A c, d \in Task : call[c].fn = "login" /\ call[d].fn = "login" => c = d
      /\ \A c \in Task : SlotKnows(c) /\ Knows(c) /\ Held(c)
      /\ issued \subseteq Token
  BY WholeFacts DEF OnMac
<1>1. ASSUME NEW u \in Task
      PROVE  /\ call'[u].at \in {"idle", "ask", "logout"}
             /\ call'[u].at = "logout" => call'[u].fn = "out"
  <2>1. CASE call'[u] = call[u] \/ Works(u) \/ Answers(u)
    BY <1>0, <2>1 DEF Works, Answers, SameAsk
  <2>2. CASE Finishes(u)
    BY <2>2, QuietFields DEF Finishes
  <2>3. CASE MacOuts(u) \/ \E k \in Token : Trades(u, k)
    BY <2>3 DEF MacOuts, Trades, Asks
  <2>4. CASE Opens(u)
    BY <2>4 DEF Opens, Asks
  <2>5. CASE PhoneOuts(u) \/ Proceeds(u)
    BY <2>5 DEF PhoneOuts, Proceeds
  <2>6. QED
    BY <2>1, <2>2, <2>3, <2>4, <2>5, WholeMoves, WholeSlot
<1>2. ASSUME NEW u \in Task, task'[u].at \in LoggingOut
      PROVE  task'[u].token \notin {stored', memory'}
  <2>1. CASE MacOuts(u)
    BY <1>0, <2>1, NoneAssumption DEF MacOuts, Handles
  <2>2. CASE ~ MacOuts(u)
    <3>1. task[u].at \in LoggingOut /\ task'[u].token = task[u].token
      <4>1. CASE SameTask(u) \/ Works(u)
        BY <1>2, <4>1 DEF SameTask, Works, LoggingOut
      <4>2. CASE Opens(u) \/ Finishes(u)
        BY <1>2, <4>2 DEF Opens, Finishes, SameTask
      <4>3. CASE Answers(u) \/ PhoneOuts(u) \/ Proceeds(u) \/ \E k \in Token : Trades(u, k)
        BY <1>2, <4>3 DEF Answers, PhoneOuts, Proceeds, Trades, Handles, LoggingOut
      <4>4. QED
        BY <2>2, <4>1, <4>2, <4>3, WholeMoves, WholeSlot
    <3>2. task[u].token \in issued /\ task[u].at # "idle"
      BY <1>0, <3>1 DEF Knows, LoggingOut
    <3>3. task[u].token \notin {stored, memory, None}
      BY <1>0, <3>1, <3>2, NoneAssumption
    <3>4. \A d \in Task : Pending(d) => call[d].token # task[u].token
      BY <1>0, <3>2 DEF Held
    <3>5. QED
      BY <3>1, <3>3, <3>4, HoldsEvolve
  <2>3. QED
    BY <2>1, <2>2
<1>3. ASSUME NEW u \in Task, call'[u].fn = "login"
      PROVE  call[u].fn = "login" \/ \A d \in Task : call[d].fn # "login"
  <2>1. CASE call'[u] = call[u] \/ Works(u) \/ Answers(u)
    BY <1>3, <2>1 DEF Works, Answers, SameAsk
  <2>2. CASE Finishes(u) \/ MacOuts(u) \/ \E k \in Token : Trades(u, k)
    BY <1>3, <2>2, QuietFields DEF Finishes, MacOuts, Trades, Asks
  <2>3. CASE Opens(u) \/ PhoneOuts(u) \/ Proceeds(u)
    BY <1>3, <2>3 DEF Opens, PhoneOuts, Proceeds
  <2>4. QED
    BY <2>1, <2>2, <2>3, WholeMoves, WholeSlot
<1>4. ASSUME NEW u \in Task, NEW d \in Task, call'[u].fn = "login", call'[d].fn = "login"
      PROVE  u = d
  <2>1. CASE call[u].fn = "login" /\ call[d].fn = "login"
    BY <1>0, <2>1
  <2>2. CASE call[u].fn # "login" /\ call[d].fn # "login"
    <3>1. call'[u] # call[u] /\ call'[d] # call[d]
      BY <1>4, <2>2
    <3>2. \E c \in Task : Only(c)
      <4>1. ~ Rests
        BY <3>1 DEF Rests
      <4>2. ASSUME NEW c \in Task, \/ Opens(c) \/ PhoneOuts(c) \/ MacOuts(c) \/ Works(c) \/ Answers(c)
                                  \/ Finishes(c) \/ Proceeds(c) \/ \E k \in Token : Trades(c, k)
            PROVE  Only(c)
        BY <4>2 DEF Opens, PhoneOuts, MacOuts, Works, Answers, Finishes, Proceeds, Trades
      <4>3. QED
        BY <4>1, <4>2, WholeMoves DEF WholeMove
    <3>3. QED
      BY <3>1, <3>2 DEF Only
  <2>3. QED
    BY <1>3, <1>4, <2>1, <2>2
<1>5. QED
  BY <1>1, <1>2, <1>4 DEF OnMac

\* The client's two tokens go on being one.
LEMMA OneTokenStep ==
    ASSUME LinkInv, WholeInv, SignInNext \/ UNCHANGED all, Whole'
    PROVE  OneToken'
<1>0. /\ OneToken /\ OnPhone /\ OnMac
      /\ \A c \in Task : SlotKnows(c) /\ Awaited(c)
  BY WholeFacts
\* A step of slot c that leaves the tokens alone, c not being about to assign.
<1>1. ASSUME NEW c \in Task, Only(c), SameTokens, ~ Assigns(c)
      PROVE  OneToken'
  <2>1. ASSUME NEW d \in Task, Assigns(d)
        PROVE  Assigns(d)'
    BY <1>1, <2>1 DEF Only, Assigns
  <2>2. QED
    BY <1>0, <1>1, <2>1 DEF OneToken, SameTokens
<1>2. CASE Rests
  <2>1. \A d \in Task : Assigns(d) => Assigns(d)'
    BY <1>2 DEF Rests, Assigns
  <2>2. QED
    BY <1>0, <1>2, <2>1 DEF Rests, OneToken
<1>3. ASSUME NEW c \in Task, Opens(c) \/ PhoneOuts(c) \/ (\E k \in Token : Trades(c, k))
      PROVE  Only(c) /\ SameTokens /\ ~ Assigns(c)
  BY <1>3, QuietFields DEF Opens, PhoneOuts, Trades, Assigns
<1>4. ASSUME NEW c \in Task, MacOuts(c)
      PROVE  OneToken'
  BY <1>4 DEF MacOuts, OneToken
<1>5. ASSUME NEW c \in Task, Works(c) \/ Answers(c)
      PROVE  Only(c) /\ SameTokens /\ ~ Assigns(c)
  <2>1. Waits(c)
    BY <1>0, <1>5 DEF Works, Answers, Awaited, Waits
  <2>2. QED
    BY <1>0, <1>5, <2>1 DEF Works, Answers, SlotKnows, Assigns, Waits
<1>6. ASSUME NEW c \in Task, Finishes(c)
      PROVE  OneToken'
  <2>1. CASE side = "phone" /\ call[c].at = "ask" /\ SameTokens
    BY <1>1, <1>6, <2>1 DEF Finishes, Assigns
  <2>2. CASE side = "phone" /\ call[c].at = "read" /\ SameTokens
    BY <1>1, <1>6, <2>2 DEF Finishes, Assigns
  <2>3. CASE side = "phone" /\ call[c].at = "set" /\ memory' = call[c].token /\ stored' = stored
    BY <1>0, <2>3 DEF OnPhone, OneToken
  <2>4. CASE side = "phone" /\ call[c].at = "clear" /\ memory' = None
    BY <2>4 DEF OneToken
  <2>5. CASE side = "mac" /\ SameTokens
    BY <1>0, <1>1, <1>6, <2>5 DEF Finishes, Assigns, OnMac
  <2>6. CASE memory' = call[c].token /\ stored' = call[c].token
    BY <2>6 DEF OneToken
  <2>7. QED
    BY <1>6, <2>1, <2>2, <2>3, <2>4, <2>5, <2>6 DEF Finishes
<1>7. ASSUME NEW c \in Task, Proceeds(c)
      PROVE  OneToken'
  <2>1. CASE call'[c].at \in {"set", "clear"}
    BY <2>1 DEF OneToken, Assigns
  <2>2. CASE call'[c].at \notin {"set", "clear"}
    <3>1. Only(c) /\ SameTokens /\ ~ Assigns(c)
      BY <1>0, <1>7, <2>2 DEF Proceeds, SameTokens, Assigns, SlotKnows
    <3>2. QED
      BY <1>1, <3>1
  <2>3. QED
    BY <2>1, <2>2
<1>8. QED
  BY <1>1, <1>2, <1>3, <1>4, <1>5, <1>6, <1>7, WholeMoves DEF WholeMove

\* What is stored stays good, or somebody is about to see to it.
LEMMA KeptStep ==
    ASSUME LinkInv, WholeInv, SignInNext \/ UNCHANGED all, Whole'
    PROVE  Kept'
<1>0. /\ Kept /\ OnMac /\ OnPhone
      /\ \A c \in Task : SlotKnows(c) /\ Awaited(c) /\ Paired(c) /\ Held(c)
      /\ stored \in issued \cup {None} /\ issued \subseteq Token
      /\ side' = side /\ side \in {"phone", "mac"}
  BY WholeFacts
<1>1. ASSUME NEW c \in Task, Passing(c), call'[c] = call[c], SameTask(c)
      PROVE  Passing(c)'
  BY <1>0, <1>1 DEF Passing, SameTask, Waits, Pending
\* A step of slot c that leaves the tokens and the stored row alone.
<1>2. ASSUME NEW c \in Task, Only(c), stored' = stored, Passing(c) => Passing(c)',
             stored # None /\ Good(stored) => Survives(stored) \/ Passing(c)'
      PROVE  Kept'
  <2>1. \A d \in Task : Passing(d) => Passing(d)'
    BY <1>1, <1>2 DEF Only
  <2>2. QED
    BY <1>0, <1>2, <2>1 DEF Kept, Good, Survives
<1>3. CASE Rests
  <2>1. \A d \in Task : Passing(d) => Passing(d)'
    BY <1>1, <1>3 DEF Rests
  <2>2. QED
    BY <1>0, <1>3, <2>1 DEF Kept, Good, Rests
<1>4. ASSUME SameRows, stored # None, Good(stored)
      PROVE  Survives(stored)
  BY <1>0, <1>4 DEF SameRows, Good, Survives
<1>5. ASSUME NEW c \in Task, Opens(c) \/ (\E k \in Token : Trades(c, k))
      PROVE  Kept'
  <2>1. call[c] = Quiet \/ call[c].at = "read"
    BY <1>5 DEF Opens, Trades
  <2>2. ~ Passing(c)
    BY <1>0, <2>1, QuietFields DEF Passing, Pending, Waits, SlotKnows
  <2>3. Only(c) /\ stored' = stored /\ SameRows
    BY <1>5 DEF Opens, Trades, SameTokens
  <2>4. QED
    BY <1>2, <1>4, <2>2, <2>3
<1>6. ASSUME NEW c \in Task, PhoneOuts(c)
      PROVE  Kept'
  <2>1. Passing(c)'
    BY <1>0, <1>6 DEF PhoneOuts, Asks, Passing
  <2>2. Only(c) /\ stored' = stored
    BY <1>6 DEF PhoneOuts, SameTokens
  <2>3. QED
    BY <1>2, <2>1, <2>2
<1>7. ASSUME NEW c \in Task, MacOuts(c)
      PROVE  Kept'
  BY <1>7 DEF MacOuts, Kept
\* A handler that spoils a token is awaited by a function that passes.
<1>8. ASSUME NEW c \in Task, stored # None, Good(stored), ~ Survives(stored), Works(c) \/ Answers(c)
      PROVE  Passing(c)'
  <2>1. /\ task[c].at \in {"revoke", "logoutRevoke"} /\ task[c].token = stored
    BY <1>0, <1>8 DEF Works, Answers, SameRows, RowsBut, Good, Survives
  <2>2. CASE task[c].at = "revoke"
    <3>1. call'[c] = call[c] /\ task'[c].at = "reply"
      BY <1>8, <2>2 DEF Works, Answers, Waits
    <3>2. Waits(c) /\ call[c].fn \in Exchanging
      BY <1>0, <2>2 DEF Awaited, Rotating, Waits
    <3>3. QED
      BY <3>1, <3>2 DEF Passing, Waits
  <2>3. CASE task[c].at = "logoutRevoke"
    <3>1. side = "phone"
      BY <1>0, <2>1, <2>3 DEF OnMac, LoggingOut
    <3>2. call[c].at = "logout"
      BY <1>0, <2>3 DEF Awaited, Waits, Paired, Rotating
    <3>3. call'[c].at = call[c].at
      BY <1>8 DEF Works, Answers, SameAsk
    <3>4. QED
      BY <1>0, <3>1, <3>2, <3>3 DEF Passing
  <2>4. QED
    BY <2>1, <2>2, <2>3
<1>9. ASSUME NEW c \in Task, Works(c)
      PROVE  Kept'
  <2>1. call'[c] = call[c] /\ Only(c) /\ stored' = stored
    BY <1>9 DEF Works, SameTokens
  <2>2. task[c].at \in {"revoke", "reply"} => task'[c].at \in {"revoke", "reply"}
    BY <1>9 DEF Works
  <2>3. Passing(c) => Passing(c)'
    BY <1>0, <2>1, <2>2 DEF Passing, Pending, Waits
  <2>4. QED
    BY <1>2, <1>8, <1>9, <2>1, <2>3
<1>10. ASSUME NEW c \in Task, Answers(c)
       PROVE  Kept'
  <2>1. Waits(c) /\ SameAsk(c) /\ Only(c) /\ stored' = stored
    BY <1>10 DEF Answers, SameTokens
  <2>2. Passing(c) => Passing(c)'
    <3>1. SUFFICES ASSUME Passing(c)
                   PROVE  Passing(c)'
      OBVIOUS
    <3>2. \/ side = "phone" /\ call[c].at = "logout"
          \/ call[c].fn \in Exchanging /\ task[c].at \in {"revoke", "reply"}
      BY <1>0, <2>1, <3>1 DEF Passing, Pending, Waits, SlotKnows
    <3>3. CASE side = "phone" /\ call[c].at = "logout"
      BY <1>0, <2>1, <3>3 DEF Passing, SameAsk
    <3>4. CASE call[c].fn \in Exchanging /\ task[c].at \in {"revoke", "reply"}
      <4>1. call'[c].ans = "token"
        BY <1>10, <3>4 DEF Answers, Exchanging
      <4>2. QED
        BY <4>1 DEF Passing, Pending
    <3>5. QED
      BY <3>2, <3>3, <3>4
  <2>3. QED
    BY <1>2, <1>8, <1>10, <2>1, <2>2
<1>11. ASSUME NEW c \in Task, Finishes(c)
       PROVE  Kept'
  <2>1. Only(c) /\ SameRows /\ ~ Waits(c)
    BY <1>11 DEF Finishes
  <2>2. CASE stored' = stored /\ ~ Passing(c)
    BY <1>2, <1>4, <2>1, <2>2
  <2>3. CASE side = "mac" /\ call[c].ans = "token" /\ stored' = call[c].token
    <3>1. Good(call[c].token) /\ call[c].token \in Token
      BY <1>0, <2>3 DEF Held, Pending, SlotKnows
    <3>2. QED
      BY <2>1, <2>3, <3>1 DEF SameRows, Good, Kept
  <2>4. CASE stored = None /\ stored' = stored
    BY <2>4 DEF Kept
  <2>5. ASSUME side = "mac", call[c].ans # "token"
        PROVE  ~ Passing(c)
    BY <1>0, <2>1, <2>5 DEF Passing, Pending, OnMac
  <2>6. ASSUME side = "phone", call[c].at \in {"set", "clear"}
        PROVE  ~ Passing(c)
    BY <1>0, <2>1, <2>6 DEF Passing, Pending, Paired
  <2>7. ASSUME call[c].at = "ask" /\ call[c].ans = "failed"
        PROVE  ~ Passing(c)
    BY <1>0, <2>1, <2>7 DEF Passing, Pending
  <2>8. QED
    BY <1>11, <2>2, <2>3, <2>4, <2>5, <2>6, <2>7 DEF Finishes, SameTokens
<1>12. ASSUME NEW c \in Task, Proceeds(c)
       PROVE  Kept'
  <2>1. Only(c) /\ SameRows /\ side = "phone"
    BY <1>12 DEF Proceeds
  <2>2. CASE call'[c].at \in {"store", "delete"} /\ stored' = stored
    <3>1. Passing(c)'
      BY <1>0, <2>1, <2>2 DEF Passing, Pending
    <3>2. QED
      BY <1>2, <2>1, <2>2, <3>1
  <2>3. CASE call[c].at = "store" /\ stored' = call[c].token
    <3>1. Good(call[c].token) /\ call[c].token \in Token
      BY <1>0, <2>3 DEF Held, Pending, SlotKnows
    <3>2. QED
      BY <2>1, <2>3, <3>1 DEF SameRows, Good, Kept
  <2>4. CASE stored' = None
    BY <2>4 DEF Kept
  <2>5. QED
    BY <1>12, <2>2, <2>3, <2>4 DEF Proceeds
<1>13. QED
  BY <1>3, <1>5, <1>6, <1>7, <1>9, <1>10, <1>11, <1>12, WholeMoves DEF WholeMove

\* All of it is preserved, given the invariant of the table and its clients.
LEMMA WholeInvStep == LinkInv /\ WholeInv /\ [SignInNext]_all => WholeInv'
<1> SUFFICES ASSUME LinkInv, WholeInv, SignInNext \/ UNCHANGED all, Whole'
             PROVE  /\ \A c \in Task : Paired(c)' /\ Held(c)'
                    /\ OnPhone' /\ OnMac' /\ OneToken' /\ Kept'
                    /\ side' \in {"phone", "mac"}
  BY DEF WholeInv
<1>1. \A c \in Task : Paired(c)'
  BY PairedStep
<1>2. \A c \in Task : Held(c)'
  BY HeldStep
<1>3. QED
  BY <1>1, <1>2, OnPhoneStep, OnMacStep, OneTokenStep, KeptStep, WholeFacts

\* It holds at the start, when nobody holds a token.
LEMMA WholeInvInit == SignInInit => WholeInv
<1> SUFFICES ASSUME SignInInit
             PROVE  WholeInv
  OBVIOUS
<1>1. /\ \A c \in Task : call[c] = Quiet /\ task[c].at = "idle"
      /\ memory = None /\ stored = None /\ side \in {"phone", "mac"}
  BY DEF SignInInit, LinkInit, Init, Idle
<1>2. QED
  BY <1>1, QuietFields
     DEF WholeInv, Paired, Held, Pending, OnPhone, OnMac, OneToken, Kept, Waits, LoggingOut

\* The token a client uses between two functions is the one its Keychain holds,
\* and a stored token is good for the next refresh and the next launch, unless
\* an answer was lost, the Keychain refused, the user signed out under a refresh,
\* or the form was submitted twice.  A request that never arrived, or a sign-in
\* over a stored token, does not harm it.
THEOREM StoredTokenIsGood == SignInSpec => []StoredIsGood
<1>1. LinkInv /\ WholeInv => StoredIsGood
  <2> SUFFICES ASSUME LinkInv, WholeInv, Whole, AtRest
               PROVE  /\ memory # None => memory = stored
                      /\ stored # None => Good(stored)
    BY DEF StoredIsGood, Whole
  <2>1. /\ \A c \in Task : SlotKnows(c) /\ call[c] \in CallRec
        /\ OneToken /\ Kept
    BY DEF LinkInv, LinkTypeOK, WholeInv
  <2>2. \A c \in Task : call[c] = Quiet
    <3>1. \A c \in Task : call[c].fn \notin {"boot", "login", "refresh", "out"}
      BY DEF AtRest, Running
    <3>2. QED
      BY <2>1, <3>1 DEF SlotKnows, CallRec
  <2>3. \A c \in Task : ~ Assigns(c) /\ ~ Passing(c)
    BY <2>2, QuietFields DEF Assigns, Passing, Pending, Waits
  <2>4. QED
    BY <2>1, <2>3 DEF OneToken, Kept
<1>2. QED
  BY <1>1, LinkInvInit, LinkInvStep, WholeInvInit, WholeInvStep, PTL DEF SignInSpec

-----------------------------------------------------------------------------
(***************************************************************************)
(* As long as nothing at all has gone wrong: where every live token is.    *)
(***************************************************************************)
Spotless == spoiled = {}
Dead(k)  == k = None \/ row[k].status # "active"

\* A live token is stored, or on its way there, or being logged out.
Left(k) ==
    \/ k = stored
    \/ \E t \in Task : task[t].at \in {"revoke", "reply"} /\ task[t].new = k
    \/ \E c \in Task : Pending(c) /\ call[c].token = k
    \/ \E c \in Task : task[c].at \in LoggingOut /\ task[c].token = k

\* A function presents the stored token, and when its successor is there, or
\* when the Keychain is about to be cleared, the stored one is not live.
Traced(c) ==
    /\ call[c].fn = "login" /\ call[c].at # "set" => stored = None /\ memory = None
    /\ call[c].fn \in Exchanging /\ Waits(c) /\ call[c].at = "ask" => call[c].token = stored
    /\ task[c].at = "reply" \/ Pending(c) => Dead(stored)
    /\ side = "phone" /\ Waits(c) /\ call[c].at = "logout" => call[c].token = stored
    /\ side = "phone" /\ (call[c].ans \in {"rejected", "done"} \/ call[c].at = "delete") => Dead(stored)
    /\ call[c].fn = "boot" \/ call[c].at = "logout" => call[c].ans # "failed"
    /\ side = "mac" /\ call[c].fn \in Exchanging => stored # None

\* The sign-in form of the phone is shown only when nothing is stored.
FormShown == side = "phone" /\ status = "signedOut" => stored = None \/ \E c \in Task : call[c].at = "set"

SpotlessInv == Spotless =>
    /\ \A c \in Task : Traced(c)
    /\ \A k \in Token : row[k].status = "active" => Left(k)
    /\ FormShown

SpotlessStep == LinkInv /\ WholeInv /\ SpotlessInv /\ (SignInNext \/ UNCHANGED all) /\ Spotless'

\* What is known before such a step.
LEMMA SpotlessFacts ==
    ASSUME SpotlessStep
    PROVE  /\ LinkInv /\ WholeInv /\ (SignInNext \/ UNCHANGED all) /\ Whole'
           /\ {"offline", "over"} \cap spoiled' = {}
           /\ \A c \in Task : Traced(c)
           /\ \A k \in Token : row[k].status = "active" => Left(k)
           /\ FormShown
<1>1. spoiled \subseteq spoiled' /\ spoiled' = {}
  BY SpoiledGrows DEF SpotlessStep, Spotless
<1>2. QED
  BY <1>1 DEF SpotlessStep, SpotlessInv, Spotless, Whole

\* The functions that may yet store a token.
Stores(c) == call[c].fn \in Exchanging \/ (call[c].fn = "login" /\ call[c].at # "set")

\* Only one of them runs at a time.
LEMMA OneStores ==
    ASSUME LinkInv, WholeInv, Whole, \A v \in Task : Traced(v),
           NEW c \in Task, NEW d \in Task, Stores(c), Stores(d)
    PROVE  c = d
<1>0. OnPhone /\ OnMac /\ side \in {"phone", "mac"} /\ OneAtATime
  BY DEF LinkInv, WholeInv
<1>1. CASE side = "phone"
  BY <1>0, <1>1 DEF OnPhone, Stores, Exchanging
<1>2. CASE side = "mac"
  <2>1. CASE call[c].fn = "login" /\ call[d].fn = "login"
    BY <1>0, <1>2, <2>1 DEF OnMac
  <2>2. CASE call[c].fn \in Exchanging /\ call[d].fn \in Exchanging
    BY <1>0, <2>2 DEF OneAtATime
  <2>3. QED
    BY <1>2, <2>1, <2>2 DEF Stores, Traced
<1>3. QED
  BY <1>0, <1>1, <1>2

\* A token that is waiting to be stored, or that a handler is about to send, is
\* one of such a function.
LEMMA StoringStores ==
    ASSUME LinkInv, WholeInv, Whole, NEW c \in Task,
           Pending(c) \/ task[c].at \in {"find", "create", "revoke", "reply"}
    PROVE  Stores(c)
<1>0. /\ SlotKnows(c) /\ Paired(c) /\ call[c] \in CallRec
  BY DEF LinkInv, WholeInv, LinkTypeOK
<1>1. Clean
  BY DEF Whole, Clean
<1>2. Awaited(c)
  BY <1>1 DEF LinkInv, Once
<1>3. CASE Pending(c)
  <2>1. call[c].at \in {"ask", "store"}
    BY <1>0, <1>3 DEF Pending, Paired
  <2>2. call[c].fn # "idle"
    BY <1>0, <1>3, QuietFields DEF Pending, SlotKnows
  <2>3. call[c].fn # "out"
    BY <1>0, <2>1 DEF Paired
  <2>4. QED
    BY <1>0, <2>1, <2>2, <2>3 DEF Stores, Exchanging, CallRec
<1>4. CASE ~ Pending(c)
  BY <1>2, <1>4 DEF Awaited, Rotating, Stores
<1>5. QED
  BY <1>3, <1>4

\* Outside an assignment the client's two tokens are one.
LEMMA TokenStored ==
    ASSUME LinkInv, WholeInv, Whole, memory # None, \A d \in Task : ~ Assigns(d)
    PROVE  memory = stored
  BY DEF WholeInv, OneToken

\* On the Mac nothing is ever between the two; on the phone only the function
\* that assigns is there.
LEMMA NoneAssigns ==
    ASSUME LinkInv, WholeInv, Whole, NEW c \in Task, ~ Assigns(c),
           side = "phone" => \A u \in Task \ {c} : Idles(u)
    PROVE  \A d \in Task : ~ Assigns(d)
<1>0. /\ \A d \in Task : SlotKnows(d)
      /\ side \in {"phone", "mac"} /\ OnMac
  BY DEF LinkInv, WholeInv
<1>1. CASE side = "phone"
  BY <1>0, <1>1, QuietFields DEF Idles, SlotKnows, Assigns
<1>2. CASE side = "mac"
  BY <1>0, <1>2 DEF OnMac, Assigns
<1>3. QED
  BY <1>0, <1>1, <1>2

\* A token that is not live does not come to life again.
LEMMA DeadStays ==
    ASSUME SpotlessStep, stored' = stored, Dead(stored)
    PROVE  Dead(stored)'
<1>0. /\ stored \in issued \cup {None} /\ issued \subseteq {k \in Token : row[k].status # "none"}
      /\ WholeMove
  BY SpotlessFacts, WholeFacts, WholeMoves
<1>1. SUFFICES ASSUME stored # None
               PROVE  row'[stored].status # "active"
  BY DEF Dead
<1>2. stored \in Token /\ row[stored].status \notin {"none", "active"}
  BY <1>0, <1>1 DEF Dead
<1>3. CASE SameRows \/ Rests
  BY <1>2, <1>3 DEF SameRows, Rests
<1>4. ASSUME NEW c \in Task, Works(c)
      PROVE  row'[stored].status # "active"
  <2>1. CASE task[c].at = "create"
    BY <1>2, <1>4, <2>1 DEF Works, RowsBut
  <2>2. CASE task[c].at # "create"
    BY <1>2, <1>4, <2>2 DEF Works, SameRows, RowsBut
  <2>3. QED
    BY <2>1, <2>2
<1>5. ASSUME NEW c \in Task, Answers(c)
      PROVE  row'[stored].status # "active"
  BY <1>2, <1>5 DEF Answers, SameRows, RowsBut
<1>6. ASSUME NEW c \in Task, \/ Opens(c) \/ PhoneOuts(c) \/ MacOuts(c) \/ Finishes(c) \/ Proceeds(c)
                            \/ \E j \in Token : Trades(c, j)
      PROVE  SameRows
  BY <1>6 DEF Opens, PhoneOuts, MacOuts, Finishes, Proceeds, Trades
<1>7. QED
  BY <1>0, <1>3, <1>4, <1>5, <1>6 DEF WholeMove

\* Nobody else changes the tokens under a function that stores one, nor, on the
\* phone, under any function.
LEMMA TokensOf ==
    ASSUME SpotlessStep, NEW u \in Task, Stores(u) \/ (side = "phone" /\ call[u].fn # "idle")
    PROVE  \/ stored' = stored /\ memory' \in {memory, None}
           \/ Finishes(u)
           \/ Proceeds(u)
<1>0. /\ WholeMove /\ LinkInv /\ WholeInv /\ Whole /\ OnPhone
      /\ \A c \in Task : Traced(c)
      /\ call[u].fn # "idle"
  BY SpotlessFacts, WholeFacts, WholeMoves DEF Stores, Exchanging
<1>1. ASSUME NEW c \in Task, MacOuts(c)
      PROVE  FALSE
  BY <1>1 DEF MacOuts, Stores, Exchanging
<1>2. ASSUME NEW c \in Task, side = "phone", call[c].fn # "idle"
      PROVE  c = u
  BY <1>0, <1>2 DEF OnPhone
<1>3. ASSUME NEW c \in Task, Finishes(c), side = "mac"
      PROVE  SameTokens \/ c = u
  <2>1. CASE call[c].ans = "token"
    <3>1. Stores(c)
      BY <1>0, <2>1, StoringStores DEF Pending
    <3>2. QED
      BY <1>0, <1>3, <3>1, OneStores
  <2>2. CASE call[c].ans # "token"
    BY <1>3, <2>2 DEF Finishes
  <2>3. QED
    BY <2>1, <2>2
<1>4. ASSUME NEW c \in Task, Finishes(c)
      PROVE  SameTokens \/ c = u
  <2>1. call[c].fn # "idle" /\ (side = "phone" \/ side = "mac")
    BY <1>4 DEF Finishes
  <2>2. QED
    BY <1>2, <1>3, <1>4, <2>1
<1>5. ASSUME NEW c \in Task, Proceeds(c)
      PROVE  c = u
  BY <1>2, <1>5 DEF Proceeds
<1>6. ASSUME NEW c \in Task, Opens(c) \/ PhoneOuts(c) \/ Works(c) \/ Answers(c)
      PROVE  SameTokens
  BY <1>6 DEF Opens, PhoneOuts, Works, Answers
<1>7. ASSUME NEW c \in Task, NEW k \in Token, Trades(c, k)
      PROVE  SameTokens
  BY <1>7 DEF Trades
<1>8. SameTokens => stored' = stored /\ memory' \in {memory, None}
  BY DEF SameTokens
<1>9. Rests => stored' = stored /\ memory' \in {memory, None}
  BY DEF Rests
<1>10. QED
  BY <1>0, <1>1, <1>4, <1>5, <1>6, <1>7, <1>8, <1>9 DEF WholeMove

\* Signing in begins with nothing stored, and nothing is stored meanwhile.
LEMMA LoginTraced ==
    ASSUME SpotlessStep, NEW u \in Task, call'[u].fn = "login", call'[u].at # "set"
    PROVE  stored' = None /\ memory' = None
<1>0. /\ WholeMove /\ LinkInv /\ WholeInv /\ Whole /\ OnPhone /\ OnMac
      /\ Traced(u) /\ FormShown /\ Paired(u) /\ \A d \in Task : SlotKnows(d)
      /\ "over" \notin spoiled' /\ side \in {"phone", "mac"}
  BY SpotlessFacts, WholeFacts, WholeMoves
<1>1. CASE Opens(u)
  <2>1. call[u] = Quiet /\ SameTokens
    BY <1>1 DEF Opens
  <2>2. \A d \in Task : ~ Assigns(d)
    BY <1>0, <1>1, <2>1, QuietFields, NoneAssigns DEF Assigns, Opens
  <2>3. stored = None
    <3>1. CASE side = "phone"
      <4>1. status = "signedOut"
        BY <1>1, <3>1 DEF Opens
      <4>2. QED
        BY <1>0, <2>2, <3>1, <4>1 DEF FormShown, Assigns
    <3>2. CASE side = "mac"
      BY <1>0, <1>1, <3>2 DEF Opens
    <3>3. QED
      BY <1>0, <3>1, <3>2
  <2>4. memory = None
    BY <1>0, <2>2, <2>3, TokenStored
  <2>5. QED
    BY <2>1, <2>3, <2>4 DEF SameTokens
<1>2. CASE Proceeds(u)
  <2>1. call[u].fn = "login" /\ call'[u].at \in {"store", "delete", "clear"} /\ memory' = memory
    BY <1>2 DEF Proceeds
  <2>2. call[u].at \in {"ask", "store", "set"}
    BY <1>0, <2>1 DEF Paired
  <2>3. call'[u].at = "store" /\ stored' = stored /\ call[u].at # "set"
    BY <1>0, <1>2, <2>1, <2>2 DEF Proceeds, Paired, SlotKnows, Exchanging
  <2>4. QED
    BY <1>0, <2>1, <2>3 DEF Traced
<1>3. CASE ~ Opens(u) /\ ~ Proceeds(u)
  <2>1. ~ Finishes(u)
    BY QuietFields DEF Finishes
  <2>2. call[u].fn = "login" /\ call[u].at # "set"
    <3>1. CASE call'[u] = call[u] \/ Works(u) \/ Answers(u)
      BY <3>1 DEF Works, Answers, SameAsk
    <3>2. CASE PhoneOuts(u) \/ MacOuts(u) \/ \E k \in Token : Trades(u, k)
      BY <3>2 DEF PhoneOuts, MacOuts, Trades, Asks
    <3>3. QED
      BY <1>0, <1>3, <2>1, <3>1, <3>2, WholeSlot
  <2>3. stored = None /\ memory = None
    BY <1>0, <2>2 DEF Traced
  <2>4. stored' = stored /\ memory' \in {memory, None}
    BY <1>3, <2>1, <2>2, TokensOf DEF Stores
  <2>5. QED
    BY <2>3, <2>4
<1>4. QED
  BY <1>1, <1>2, <1>3

\* What is presented is what is stored, whether to be exchanged or, on the phone, revoked.
LEMMA AskTraced ==
    ASSUME SpotlessStep, NEW u \in Task, Waits(u)',
           \/ call'[u].fn \in Exchanging /\ call'[u].at = "ask"
           \/ side = "phone" /\ call'[u].at = "logout"
    PROVE  call'[u].token = stored'
<1>0. /\ WholeMove /\ LinkInv /\ WholeInv /\ Whole
      /\ Traced(u) /\ SlotKnows(u)
      /\ issued \subseteq Token
      /\ call'[u].ans = "waiting"
  BY SpotlessFacts, WholeFacts, WholeMoves DEF Waits
<1>1. ASSUME NEW k \in Token, Trades(u, k)
      PROVE  call'[u].token = stored'
  <2>1. call'[u].token = k /\ SameTokens /\ k \in {stored, memory} /\ k # None
    BY <1>0, <1>1, NoneAssumption DEF Trades, Asks
  <2>2. ~ Assigns(u)
    BY <1>1, QuietFields DEF Trades, Assigns
  <2>3. \A d \in Task : ~ Assigns(d)
    BY <1>0, <1>1, <2>2, NoneAssigns DEF Trades
  <2>4. QED
    BY <1>0, <2>1, <2>3, TokenStored DEF SameTokens
<1>2. CASE PhoneOuts(u)
  <2>1. call'[u].token = memory /\ SameTokens /\ memory # None
    BY <1>0, <1>2, NoneAssumption DEF PhoneOuts, Asks
  <2>2. ~ Assigns(u)
    BY <1>2, QuietFields DEF PhoneOuts, Assigns
  <2>3. \A d \in Task : ~ Assigns(d)
    BY <1>0, <1>2, <2>2, NoneAssigns DEF PhoneOuts
  <2>4. QED
    BY <1>0, <2>1, <2>3, TokenStored DEF SameTokens
<1>3. ~ Finishes(u) /\ ~ Proceeds(u) /\ ~ Answers(u)
  <2>1. ~ Finishes(u) /\ ~ Proceeds(u)
    BY <1>0, QuietFields DEF Finishes, Proceeds
  <2>2. ~ Answers(u)
    BY <1>0 DEF Answers
  <2>3. QED
    BY <2>1, <2>2
<1>4. CASE call'[u] = call[u] \/ Works(u)
  <2>1. call'[u] = call[u]
    BY <1>4 DEF Works
  <2>2. call[u].fn # "idle"
    BY <1>0, <2>1, QuietFields DEF SlotKnows
  <2>3. stored' = stored
    BY <1>3, <2>1, <2>2, TokensOf DEF Stores
  <2>4. QED
    BY <1>0, <2>1, <2>3 DEF Traced, Waits
<1>5. CASE Opens(u)
  BY <1>0, <1>5 DEF Opens, Asks, Exchanging
<1>6. CASE MacOuts(u)
  BY <1>6 DEF MacOuts, Asks, Exchanging
<1>7. QED
  BY <1>0, <1>1, <1>2, <1>3, <1>4, <1>5, <1>6, WholeSlot

\* When the successor is there, the stored token is not live.
LEMMA SuccessorTraced ==
    ASSUME SpotlessStep, NEW u \in Task, task'[u].at = "reply" \/ Pending(u)'
    PROVE  Dead(stored)'
<1>0. /\ WholeMove /\ LinkInv /\ WholeInv /\ Whole /\ (SignInNext \/ UNCHANGED all) /\ Whole'
      /\ Traced(u) /\ SlotKnows(u) /\ Awaited(u) /\ Paired(u)
      /\ task \in [Task -> TaskRec]
  BY SpotlessFacts, WholeFacts, WholeMoves
<1>1. CASE Works(u) /\ task[u].at = "revoke"
  <2>1. /\ row'[task[u].token].status = "revoked" /\ stored' = stored
    BY <1>1 DEF Works, SameTokens
  <2>2. Waits(u) /\ call[u].fn \in Exchanging
    BY <1>0, <1>1 DEF Awaited, Rotating, Waits
  <2>3. call[u].at = "ask" /\ task[u].token = call[u].token
    BY <1>0, <1>1, <2>2 DEF Paired, LoggingOut, Exchanging
  <2>4. task[u].token = stored
    BY <1>0, <2>2, <2>3 DEF Traced
  <2>5. QED
    BY <2>1, <2>4 DEF Dead
<1>2. CASE Gets(u)
  <2>1. stored' = stored /\ (task[u].at = "reply" \/ call[u].fn = "login") /\ Waits(u)
    BY <1>2 DEF Gets, Answers, SameTokens
  <2>2. call[u].fn = "login" => call[u].at # "set"
    BY <1>0, <2>1 DEF Paired
  <2>3. Dead(stored)
    BY <1>0, <2>1, <2>2 DEF Traced, Dead
  <2>4. QED
    BY <2>1, <2>3, DeadStays
<1>3. CASE ~ (Works(u) /\ task[u].at = "revoke") /\ ~ Gets(u)
  <2>1. task'[u].at = "reply" => task[u].at = "reply"
    <3>1. CASE SameTask(u)
      BY <3>1 DEF SameTask
    <3>2. CASE Works(u) \/ Answers(u) \/ PhoneOuts(u) \/ MacOuts(u) \/ \E k \in Token : Trades(u, k)
      BY <1>3, <3>2 DEF Works, Answers, PhoneOuts, MacOuts, Trades, Handles
    <3>3. CASE Opens(u) \/ Finishes(u) \/ Proceeds(u)
      BY <3>1, <3>3 DEF Opens, Finishes, Proceeds
    <3>4. QED
      BY <1>0, <3>1, <3>2, <3>3, WholeSlot
  <2>2. task[u].at = "reply" \/ Pending(u)
    BY <1>0, <1>3, <2>1, PendingEvolves
  <2>3. Stores(u) /\ Dead(stored)
    BY <1>0, <2>2, StoringStores DEF Traced
  <2>4. stored' = stored
    <3>1. CASE Finishes(u)
      <4>1. task'[u].at = "idle"
        BY <1>0, <3>1 DEF Finishes, SameTask, Awaited, Waits
      <4>2. ~ Pending(u)'
        BY <3>1, QuietFields DEF Finishes, Pending
      <4>3. QED
        BY <4>1, <4>2
    <3>2. CASE Proceeds(u)
      <4>1. task'[u].at = "idle"
        BY <1>0, <3>2 DEF Proceeds, SameTask, Awaited, Waits
      <4>2. call'[u].at = "store"
        BY <3>2, <4>1 DEF Proceeds, Pending
      <4>3. QED
        BY <3>2, <4>2 DEF Proceeds
    <3>3. QED
      BY <2>3, <3>1, <3>2, TokensOf
  <2>5. QED
    BY <2>3, <2>4, DeadStays
<1>4. QED
  BY <1>1, <1>2, <1>3

\* Nor is it when the phone is about to clear its Keychain.
LEMMA ClearingTraced ==
    ASSUME SpotlessStep, NEW u \in Task, side = "phone",
           call'[u].ans \in {"rejected", "done"} \/ call'[u].at = "delete"
    PROVE  Dead(stored)'
<1>0. /\ WholeMove /\ LinkInv /\ WholeInv /\ Whole
      /\ Traced(u) /\ SlotKnows(u) /\ Awaited(u) /\ Paired(u)
      /\ call[u] \in CallRec
  BY SpotlessFacts, WholeFacts, WholeMoves
<1>1. CASE Answers(u)
  <2>1. Waits(u) /\ stored' = stored /\ SameAsk(u)
    BY <1>1 DEF Answers, SameTokens
  <2>2. call'[u].at # "delete"
    BY <1>0, <2>1 DEF SameAsk, Paired
  <2>3. /\ task[u].at \in {"find", "logoutFind", "logoutRevoke"}
        /\ row'[task[u].token].status # "active" \/ task[u].token \notin Token
    BY <1>1, <2>2 DEF Answers, SameRows
  <2>4. call[u].fn # "login"
    BY <1>0, <2>3 DEF Awaited
  <2>5. task[u].token = call[u].token /\ (call[u].at = "ask" => call[u].fn \in Exchanging)
    BY <1>0, <2>1, <2>3, <2>4 DEF Paired, Awaited, Exchanging
  <2>6. task[u].token = stored
    BY <1>0, <2>1, <2>5 DEF Traced, Paired
  <2>7. stored \in Token \cup {None}
    BY SpotlessFacts, WholeFacts
  <2>8. QED
    BY <2>1, <2>3, <2>6, <2>7 DEF Dead
<1>2. CASE Proceeds(u)
  <2>1. /\ call'[u].at = "delete" /\ stored' = stored
        /\ call[u].ans \in {"rejected", "done", "failed"}
        /\ call[u].ans = "failed" => call[u].fn = "boot" \/ call[u].at = "logout"
    BY <1>0, <1>2 DEF Proceeds, Waits, CallRec
  <2>2. Dead(stored)
    BY <1>0, <2>1 DEF Traced
  <2>3. QED
    BY <2>1, <2>2, DeadStays
<1>3. CASE call'[u] = call[u] \/ Works(u)
  <2>1. call'[u] = call[u]
    BY <1>3 DEF Works
  <2>2. call[u].fn # "idle" /\ Dead(stored)
    BY <1>0, <2>1, QuietFields DEF SlotKnows, Traced
  <2>3. ~ Finishes(u)
    BY <2>1, <2>2, QuietFields DEF Finishes
  <2>4. QED
    BY <1>2, <2>2, <2>3, TokensOf, DeadStays
<1>4. CASE Opens(u) \/ PhoneOuts(u) \/ MacOuts(u) \/ Finishes(u) \/ \E k \in Token : Trades(u, k)
  BY <1>4, QuietFields DEF Opens, PhoneOuts, MacOuts, Finishes, Trades, Asks
<1>5. QED
  BY <1>0, <1>1, <1>2, <1>3, <1>4, WholeSlot

\* Neither a bootstrap nor a sign-out fails, for that would have been noted; and
\* the Mac exchanges nothing unless something is stored.
LEMMA FailTraced ==
    ASSUME SpotlessStep, NEW u \in Task
    PROVE  /\ call'[u].fn = "boot" \/ call'[u].at = "logout" => call'[u].ans # "failed"
           /\ side = "mac" /\ call'[u].fn \in Exchanging => stored' # None
<1>0. /\ WholeMove /\ LinkInv /\ WholeInv /\ Whole
      /\ Traced(u) /\ "offline" \notin spoiled'
      /\ issued \subseteq Token
  BY SpotlessFacts, WholeFacts, WholeMoves
<1>1. ASSUME call'[u].fn = "boot" \/ call'[u].at = "logout", call'[u].ans = "failed"
      PROVE  FALSE
  <2>1. CASE call'[u] = call[u] \/ Works(u)
    BY <1>0, <1>1, <2>1 DEF Works, Traced
  <2>2. CASE Answers(u)
    BY <1>0, <1>1, <2>2 DEF Answers, SameAsk
  <2>3. CASE Opens(u) \/ PhoneOuts(u) \/ MacOuts(u) \/ Finishes(u) \/ \E k \in Token : Trades(u, k)
    BY <1>1, <2>3, QuietFields DEF Opens, PhoneOuts, MacOuts, Finishes, Trades, Asks
  <2>4. CASE Proceeds(u)
    BY <1>1, <2>4 DEF Proceeds
  <2>5. QED
    BY <1>0, <2>1, <2>2, <2>3, <2>4, WholeSlot
<1>2. ASSUME side = "mac", call'[u].fn \in Exchanging
      PROVE  stored' # None
  <2>1. ASSUME NEW k \in Token, Trades(u, k)
        PROVE  stored' # None
    <3>1. k \in {stored, memory} /\ k # None /\ SameTokens
      BY <2>1, NoneAssumption DEF Trades
    <3>2. ~ Assigns(u)
      BY <2>1, QuietFields DEF Trades, Assigns
    <3>3. \A d \in Task : ~ Assigns(d)
      BY <1>0, <1>2, <3>2, NoneAssigns
    <3>4. QED
      BY <1>0, <3>1, <3>3, TokenStored DEF SameTokens
  <2>2. CASE call'[u] = call[u] \/ Works(u) \/ Answers(u)
    <3>1. call[u].fn = call'[u].fn
      BY <2>2 DEF Works, Answers, SameAsk
    <3>2. ~ Finishes(u) /\ ~ Proceeds(u)
      BY <1>2, QuietFields DEF Finishes, Proceeds, Exchanging
    <3>3. stored' = stored
      BY <1>2, <3>1, <3>2, TokensOf DEF Stores
    <3>4. QED
      BY <1>0, <1>2, <3>1, <3>3 DEF Traced
  <2>3. CASE Opens(u) \/ MacOuts(u) \/ Finishes(u) \/ PhoneOuts(u) \/ Proceeds(u)
    BY <1>2, <2>3, QuietFields DEF Opens, MacOuts, Finishes, PhoneOuts, Proceeds, Asks, Exchanging
  <2>4. QED
    BY <1>0, <2>1, <2>2, <2>3, WholeSlot
<1>3. QED
  BY <1>1, <1>2

\* When the phone comes back to its form, nothing is stored.
LEMMA FormStep ==
    ASSUME SpotlessStep
    PROVE  FormShown'
<1>0. /\ WholeMove /\ OnPhone /\ FormShown /\ side' = side
      /\ \A d \in Task : SlotKnows(d) /\ Awaited(d)
      /\ LinkInv' /\ LinkInv
  <2>1. LinkInv /\ (SignInNext \/ UNCHANGED all)
    BY SpotlessFacts
  <2>2. LinkInv'
    BY <2>1, LinkInvStep
  <2>3. QED
    BY <2>1, <2>2, SpotlessFacts, WholeFacts, WholeMoves
<1> DEFINE Shown == stored' = None \/ \E d \in Task : call'[d].at = "set"
<1> SUFFICES ASSUME side = "phone", status' = "signedOut"
             PROVE  Shown
  BY <1>0 DEF FormShown
<1>1. \A u \in Task : call'[u].fn # "boot"
  BY <1>0 DEF LinkInv, OneAtATime
\* A step of slot c, not about to assign, under the form.
<1>2. ASSUME NEW c \in Task, Only(c), status = "signedOut", stored' = stored, call[c].at # "set"
      PROVE  Shown
  BY <1>0, <1>2 DEF FormShown, Only
<1>3. CASE Rests
  BY <1>0, <1>3 DEF Rests, FormShown
<1>4. ASSUME NEW c \in Task, Opens(c)
      PROVE  Shown
  BY <1>1, <1>2, <1>4, QuietFields DEF Opens, SameTokens
<1>5. ASSUME NEW c \in Task, NEW k \in Token, Trades(c, k)
      PROVE  Shown
  BY <1>1, <1>5 DEF Trades, Asks
<1>6. ASSUME NEW c \in Task, PhoneOuts(c) \/ MacOuts(c)
      PROVE  Shown
  BY <1>6 DEF PhoneOuts, MacOuts
<1>7. ASSUME NEW c \in Task, Works(c) \/ Answers(c)
      PROVE  Shown
  <2>1. call[c].at # "set"
    BY <1>0, <1>7 DEF Works, Answers, Awaited, Waits, SlotKnows
  <2>2. QED
    BY <1>2, <1>7, <2>1 DEF Works, Answers, SameTokens
<1>8. ASSUME NEW c \in Task, Finishes(c)
      PROVE  Shown
  <2>1. CASE call[c].at \in {"read", "clear"}
    BY <1>0, <1>8, <2>1 DEF Finishes, SameTokens, OnPhone
  <2>2. CASE call[c].at = "set"
    BY <1>0, <1>8, <2>2 DEF Finishes, OnPhone
  <2>3. CASE call[c].at \notin {"read", "clear", "set"}
    BY <1>2, <1>8, <2>3 DEF Finishes, SameTokens
  <2>4. QED
    BY <2>1, <2>2, <2>3
<1>9. ASSUME NEW c \in Task, Proceeds(c)
      PROVE  Shown
  <2>1. CASE call'[c].at = "set" \/ stored' = None
    BY <2>1
  <2>2. CASE call'[c].at # "set" /\ stored' # None
    <3>1. Only(c) /\ status' = status /\ stored' = stored /\ call[c].ans # "none"
      BY <1>9, <2>2 DEF Proceeds
    <3>2. call[c].at # "set"
      BY <1>0, <3>1 DEF SlotKnows
    <3>3. QED
      BY <1>2, <3>1, <3>2
  <2>3. QED
    BY <2>1, <2>2
<1>10. QED
  BY <1>0, <1>3, <1>4, <1>5, <1>6, <1>7, <1>8, <1>9 DEF WholeMove

\* A step of slot c leaves the tokens of the others where they are.
LEMMA LeftFrame ==
    ASSUME NEW c \in Task, Only(c), NEW k \in Token, Left(k),
           k = stored => Left(k)',
           task[c].at \in {"revoke", "reply"} /\ task[c].new = k => Left(k)',
           Pending(c) /\ call[c].token = k => Left(k)',
           task[c].at \in LoggingOut /\ task[c].token = k => Left(k)'
    PROVE  Left(k)'
<1>1. ASSUME NEW t \in Task \ {c}, task[t].at \in {"revoke", "reply"} /\ task[t].new = k
      PROVE  Left(k)'
  BY <1>1 DEF Only, SameTask, Left
<1>2. ASSUME NEW t \in Task \ {c}, Pending(t) /\ call[t].token = k
      PROVE  Left(k)'
  BY <1>2 DEF Only, Left, Pending
<1>3. ASSUME NEW t \in Task \ {c}, task[t].at \in LoggingOut /\ task[t].token = k
      PROVE  Left(k)'
  BY <1>3 DEF Only, SameTask, Left
<1>4. QED
  BY <1>1, <1>2, <1>3 DEF Left

\* A live token goes on being stored, or on its way.
LEMMA LeftStep ==
    ASSUME SpotlessStep, NEW k \in Token, row'[k].status = "active"
    PROVE  Left(k)'
<1>0. /\ WholeMove /\ LinkInv /\ WholeInv /\ Whole
      /\ {"offline", "over"} \cap spoiled' = {}
      /\ \A d \in Task : Traced(d) /\ SlotKnows(d) /\ Awaited(d) /\ Paired(d)
      /\ row[k].status = "active" => Left(k)
      /\ issued \subseteq Token
  BY SpotlessFacts, WholeFacts, WholeMoves
<1>1. ASSUME stored' = stored, k = stored
      PROVE  Left(k)'
  BY <1>1 DEF Left
<1>2. CASE Rests
  <2>1. row[k].status = "active" /\ stored' = stored
    BY <1>2 DEF Rests
  <2>2. Left(k)
    BY <1>0, <2>1
  <2>3. QED
    BY <1>2, <2>1, <2>2 DEF Rests, Left, SameTask, Pending
\* A step of slot c that neither had nor gets a token of its own.
<1>3. ASSUME NEW c \in Task, Only(c), SameRows, task[c].at = "idle", ~ Pending(c),
             k = stored => Left(k)'
      PROVE  Left(k)'
  <2>1. Left(k)
    BY <1>0, <1>3 DEF SameRows
  <2>2. task[c].at \notin {"revoke", "reply"} /\ task[c].at \notin LoggingOut
    BY <1>3 DEF LoggingOut
  <2>3. QED
    BY <1>3, <2>1, <2>2, LeftFrame
<1>4. ASSUME NEW c \in Task, Opens(c) \/ PhoneOuts(c) \/ \E j \in Token : Trades(c, j)
      PROVE  Left(k)'
  <2>1. Only(c) /\ SameRows /\ task[c].at = "idle" /\ stored' = stored
    BY <1>4 DEF Opens, PhoneOuts, Trades, SameTokens
  <2>2. call[c] = Quiet \/ call[c].at = "read" \/ (call[c].at = "ask" /\ call[c].ans = "rejected")
    BY <1>4 DEF Opens, PhoneOuts, Trades
  <2>3. ~ Pending(c)
    BY <1>0, <2>2, QuietFields DEF Pending, SlotKnows
  <2>4. QED
    BY <1>1, <1>3, <2>1, <2>3
<1>5. ASSUME NEW c \in Task, MacOuts(c)
      PROVE  Left(k)'
  <2>1. Only(c) /\ SameRows /\ task[c].at = "idle" /\ ~ Pending(c)
    BY <1>5, QuietFields DEF MacOuts, Pending
  <2>2. memory = stored
    <3>1. memory # None /\ ~ Assigns(c) /\ side = "mac"
      BY <1>0, <1>5, NoneAssumption, QuietFields DEF MacOuts, Assigns
    <3>2. QED
      BY <1>0, <3>1, NoneAssigns, TokenStored
  <2>3. task'[c].at \in LoggingOut /\ task'[c].token = stored
    BY <1>5, <2>2 DEF MacOuts, Handles, LoggingOut
  <2>4. k = stored => Left(k)'
    BY <2>3 DEF Left
  <2>5. QED
    BY <1>3, <2>1, <2>4
<1>6. ASSUME NEW c \in Task, Works(c)
      PROVE  Left(k)'
  <2>1. Only(c) /\ stored' = stored /\ call'[c] = call[c] /\ task'[c].token = task[c].token
    BY <1>6 DEF Works, SameTokens
  <2>2. CASE task'[c].at = "revoke" /\ task'[c].new = k
    BY <2>2 DEF Left
  <2>3. CASE ~ (task'[c].at = "revoke" /\ task'[c].new = k)
    <3>1. row[k].status = "active"
      BY <1>6, <2>3 DEF Works, SameRows, RowsBut
    <3>2. task[c].at \in {"revoke", "reply"} => task'[c].at = "reply" /\ task'[c].new = task[c].new
      BY <1>6 DEF Works
    <3>3. task[c].at \in LoggingOut => task'[c].at \in LoggingOut
      BY <1>6 DEF Works, LoggingOut
    <3>4. task[c].at \in {"revoke", "reply"} /\ task[c].new = k => Left(k)'
      BY <3>2 DEF Left
    <3>5. task[c].at \in LoggingOut /\ task[c].token = k => Left(k)'
      BY <2>1, <3>3 DEF Left
    <3>6. Pending(c) /\ call[c].token = k => Left(k)'
      BY <2>1 DEF Left, Pending
    <3>7. Left(k) /\ (k = stored => Left(k)')
      BY <1>0, <1>1, <2>1, <3>1
    <3>8. QED
      BY <2>1, <3>4, <3>5, <3>6, <3>7, LeftFrame
  <2>4. QED
    BY <2>2, <2>3
<1>7. ASSUME NEW c \in Task, Answers(c)
      PROVE  Left(k)'
  <2>1. Only(c) /\ stored' = stored /\ Waits(c)
    BY <1>7 DEF Answers, SameTokens
  <2>2. ~ Pending(c)
    BY <1>0, <2>1 DEF Pending, Waits, Paired
  <2>3. CASE call'[c].ans = "token" /\ call'[c].token = k
    BY <2>3 DEF Left, Pending
  <2>4. CASE ~ (call'[c].ans = "token" /\ call'[c].token = k)
    <3>1. row[k].status = "active"
      BY <1>7, <2>4 DEF Answers, SameRows, RowsBut
    <3>2. ~ (task[c].at \in {"revoke", "reply"} /\ task[c].new = k)
      BY <1>7, <2>4 DEF Answers
    <3>3. ~ (task[c].at \in LoggingOut /\ task[c].token = k)
      <4>1. SUFFICES ASSUME task[c].at \in LoggingOut, task[c].token = k
                     PROVE  FALSE
        OBVIOUS
      <4>2. call[c].at = "logout"
        BY <1>0, <2>1, <4>1 DEF Awaited, Paired, Rotating, LoggingOut
      <4>3. QED
        BY <1>0, <1>7, <3>1, <4>1, <4>2 DEF Answers, SameRows, LoggingOut, Awaited
    <3>4. Left(k) /\ (k = stored => Left(k)')
      BY <1>0, <1>1, <2>1, <3>1
    <3>5. QED
      BY <2>1, <2>2, <3>2, <3>3, <3>4, LeftFrame
  <2>5. QED
    BY <2>3, <2>4
\* A client's own step: its handler is through.
<1>8. ASSUME NEW c \in Task, Only(c), SameRows, ~ Waits(c), SameTask(c),
             k = stored => Left(k)', Pending(c) /\ call[c].token = k => Left(k)'
      PROVE  Left(k)'
  <2>1. task[c].at = "idle"
    BY <1>0, <1>8 DEF Awaited, Waits
  <2>2. Left(k)
    BY <1>0, <1>8 DEF SameRows
  <2>3. task[c].at \notin {"revoke", "reply"} /\ task[c].at \notin LoggingOut
    BY <2>1 DEF LoggingOut
  <2>4. QED
    BY <1>8, <2>2, <2>3, LeftFrame
<1>9. ASSUME Dead(stored), SameRows
      PROVE  k # stored
  BY <1>9, NoneAssumption DEF Dead, SameRows
<1>10. ASSUME NEW c \in Task, Finishes(c)
       PROVE  Left(k)'
  <2>1. Only(c) /\ SameRows /\ ~ Waits(c) /\ SameTask(c)
    BY <1>10 DEF Finishes
  <2>2. CASE call[c].ans = "token" /\ stored' = call[c].token
    <3>1. k # stored
      BY <1>0, <1>9, <2>1, <2>2 DEF Traced, Pending
    <3>2. Pending(c) /\ call[c].token = k => Left(k)'
      BY <2>2 DEF Left
    <3>3. QED
      BY <1>8, <2>1, <3>1, <3>2
  <2>3. CASE ~ (call[c].ans = "token" /\ stored' = call[c].token)
    <3>1. stored' = stored /\ ~ Pending(c)
      BY <1>0, <1>10, <2>3 DEF Finishes, SameTokens, Pending, Paired, SlotKnows, WholeInv, OnMac
    <3>2. QED
      BY <1>1, <1>8, <2>1, <3>1
  <2>4. QED
    BY <2>2, <2>3
<1>11. ASSUME NEW c \in Task, Proceeds(c)
       PROVE  Left(k)'
  <2>1. Only(c) /\ SameRows /\ ~ Waits(c) /\ SameTask(c)
    BY <1>11 DEF Proceeds
  <2>2. CASE call'[c].at = "store" /\ stored' = stored
    <3>1. Pending(c)' /\ call'[c].token = call[c].token
      BY <1>11, <2>2 DEF Proceeds, Pending
    <3>2. Pending(c) /\ call[c].token = k => Left(k)'
      BY <3>1 DEF Left
    <3>3. QED
      BY <1>1, <1>8, <2>1, <2>2, <3>2
  <2>3. CASE call'[c].at = "delete" /\ stored' = stored
    <3>1. call[c].ans \notin {"token", "none"}
      BY <1>11, <2>3 DEF Proceeds
    <3>2. ~ Pending(c)
      BY <1>0, <3>1 DEF Pending, SlotKnows
    <3>3. QED
      BY <1>1, <1>8, <2>1, <2>3, <3>2
  <2>4. CASE call[c].at = "store" /\ stored' = call[c].token
    <3>1. k # stored
      BY <1>0, <1>9, <2>1, <2>4 DEF Traced, Pending
    <3>2. Pending(c) /\ call[c].token = k => Left(k)'
      BY <2>4 DEF Left
    <3>3. QED
      BY <1>8, <2>1, <3>1, <3>2
  <2>5. CASE call[c].at = "delete" /\ stored' = None
    <3>1. k # stored
      BY <1>0, <1>9, <1>11, <2>1, <2>5 DEF Traced, Proceeds
    <3>2. ~ Pending(c)
      BY <1>0, <2>5 DEF Pending, SlotKnows
    <3>3. QED
      BY <1>8, <2>1, <3>1, <3>2
  <2>6. QED
    BY <1>11, <2>2, <2>3, <2>4, <2>5 DEF Proceeds
<1>12. QED
  BY <1>0, <1>2, <1>4, <1>5, <1>6, <1>7, <1>10, <1>11 DEF WholeMove

\* The spotless invariant is inductive, given the two before it.
LEMMA SpotlessInvStep == LinkInv /\ WholeInv /\ SpotlessInv /\ [SignInNext]_all => SpotlessInv'
<1> SUFFICES ASSUME LinkInv, WholeInv, SpotlessInv, SignInNext \/ UNCHANGED all, Spotless'
             PROVE  /\ \A c \in Task : Traced(c)'
                    /\ \A k \in Token : row'[k].status = "active" => Left(k)'
                    /\ FormShown'
  BY DEF SpotlessInv
<1>1. SpotlessStep
  BY DEF SpotlessStep
<1>2. side' = side
  BY DEF SignInNext, all
<1>3. ASSUME NEW u \in Task
      PROVE  Traced(u)'
  <2>1. call'[u].fn = "login" /\ call'[u].at # "set" => stored' = None /\ memory' = None
    BY <1>1, LoginTraced
  <2>2. call'[u].fn \in Exchanging /\ Waits(u)' /\ call'[u].at = "ask" => call'[u].token = stored'
    BY <1>1, AskTraced
  <2>3. task'[u].at = "reply" \/ Pending(u)' => Dead(stored)'
    BY <1>1, SuccessorTraced
  <2>4. side = "phone" /\ Waits(u)' /\ call'[u].at = "logout" => call'[u].token = stored'
    BY <1>1, AskTraced
  <2>5. side = "phone" /\ (call'[u].ans \in {"rejected", "done"} \/ call'[u].at = "delete")
            => Dead(stored)'
    BY <1>1, ClearingTraced
  <2>6. /\ call'[u].fn = "boot" \/ call'[u].at = "logout" => call'[u].ans # "failed"
        /\ side = "mac" /\ call'[u].fn \in Exchanging => stored' # None
    BY <1>1, FailTraced
  <2>7. QED
    BY <1>2, <2>1, <2>2, <2>3, <2>4, <2>5, <2>6 DEF Traced
<1>4. QED
  BY <1>1, <1>3, LeftStep, FormStep

\* It holds at the start, when there are no tokens.
LEMMA SpotlessInvInit == SignInInit => SpotlessInv
<1> SUFFICES ASSUME SignInInit
             PROVE  SpotlessInv
  OBVIOUS
<1>1. /\ \A c \in Task : call[c] = Quiet /\ task[c].at = "idle"
      /\ \A k \in Token : row[k].status = "none"
      /\ stored = None
  BY DEF SignInInit, LinkInit, Init, Idle, NoRow
<1>2. QED
  BY <1>1, QuietFields DEF SpotlessInv, Traced, FormShown, Pending, Waits, Dead, Exchanging

\* Between two functions no refresh token is live but the one that is stored:
\* signing out leaves nothing behind at the backend, and neither does a refresh
\* or a launch, as long as nothing has gone wrong.
THEOREM NothingLeftBehind == SignInSpec => []NoneLeftBehind
<1>1. LinkInv /\ SpotlessInv => NoneLeftBehind
  <2> SUFFICES ASSUME LinkInv, SpotlessInv, Spotless, AtRest,
                      NEW k \in Token, row[k].status = "active"
               PROVE  k = stored
    BY DEF NoneLeftBehind, Spotless
  <2>1. Left(k) /\ \A c \in Task : task[c].at = "idle"
    BY DEF SpotlessInv, AtRest, Idle
  <2>2. \A c \in Task : call[c] = Quiet
    <3>1. \A c \in Task : call[c].fn \notin {"boot", "login", "refresh", "out"}
      BY DEF AtRest, Running
    <3>2. \A c \in Task : SlotKnows(c) /\ call[c] \in CallRec
      BY DEF LinkInv, LinkTypeOK
    <3>3. QED
      BY <3>1, <3>2 DEF SlotKnows, CallRec
  <2>3. QED
    BY <2>1, <2>2, QuietFields DEF Left, Pending, LoggingOut
<1>2. QED
  BY <1>1, LinkInvInit, LinkInvStep, WholeInvInit, WholeInvStep, SpotlessInvInit, SpotlessInvStep,
     PTL DEF SignInSpec

=============================================================================
