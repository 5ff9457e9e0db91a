--------------------------- MODULE RefreshTokens ---------------------------
(***************************************************************************)
(* Rotation of refresh tokens: POST /auth/login, /auth/refresh and         *)
(* /auth/logout over the refresh_tokens table                              *)
(* (services/backend/src/routes/auth.ts).                                  *)
(*                                                                         *)
(* A refresh is four statements - find the presented token, find its user, *)
(* insert the successor, revoke the presented one - with no transaction    *)
(* around them, and refreshes and logouts of the same token interleave.    *)
(* Users are never deleted, so finding the user changes nothing and is     *)
(* left out; so is device_id, which every caller leaves null.              *)
(***************************************************************************)
CONSTANTS
    Token,      \* refresh tokens (bounds the tokens issued)
    Task,       \* refresh and logout handlers that may run at once
    DbMayFail,  \* whether a statement may fail and so abort its handler
    None        \* no token

ASSUME FailAssumption == DbMayFail \in BOOLEAN
ASSUME NoneAssumption == None \notin Token

VARIABLES
    row,     \* row[k]: the refresh_tokens row of token k
    issued,  \* tokens that were sent to a client
    task     \* task[t]: a running handler

vars == <<row, issued, task>>

(***************************************************************************)
(* next is replaced_by_id; revoked_at is set in "revoked" and "loggedOut". *)
(* The table does not say whether the last to revoke a row was a logout,   *)
(* which token a row was issued for (parent), or which login a chain of    *)
(* rotations began with (login): the properties speak of these.            *)
(***************************************************************************)
Row    == [status : {"none", "active", "revoked", "loggedOut", "expired"},
           next : Token \cup {None}, parent : Token \cup {None}, login : Token \cup {None}]
NoRow  == [status |-> "none", next |-> None, parent |-> None, login |-> None]

TaskRec == [at : {"idle", "find", "create", "revoke", "reply", "logoutFind", "logoutRevoke"},
            token : Token \cup {None}, new : Token \cup {None}]
Idle    == [at |-> "idle", token |-> None, new |-> None]

Init ==
    /\ row    = [k \in Token |-> NoRow]
    /\ issued = {}
    /\ task   = [t \in Task |-> Idle]

-----------------------------------------------------------------------------
\* POST /auth/login and /auth/register: createRefreshToken and the reply.
Login(k) ==
    /\ row[k].status = "none"
    /\ row' = [row EXCEPT ![k] = [status |-> "active", next |-> None,
                                  parent |-> None, login |-> k]]
    /\ issued' = issued \cup {k}
    /\ UNCHANGED task

\* expires_at passes.
Expire(k) ==
    /\ row[k].status = "active"
    /\ row' = [row EXCEPT ![k].status = "expired"]
    /\ UNCHANGED <<issued, task>>

\* A client presents a token it was once sent, to refresh it or to log out.
Recv(t, k, at) ==
    /\ k \in issued
    /\ task[t].at = "idle"
    /\ task' = [task EXCEPT ![t] = [at |-> at, token |-> k, new |-> None]]
    /\ UNCHANGED <<row, issued>>

RecvRefresh(t, k) == Recv(t, k, "find")
RecvLogout(t, k)  == Recv(t, k, "logoutFind")

-----------------------------------------------------------------------------
(***************************************************************************)
(* POST /auth/refresh.                                                     *)
(***************************************************************************)

\* Mutant: the old token is revoked before its successor is inserted.
RevokeFirst == [find |-> "revoke", revoke |-> "create", create |-> "reply"]

\* Mutant: the successor is sent without having been inserted.
NeverStored == [find |-> "revoke", revoke |-> "reply", create |-> "reply"]

\* The order of the statements.
After == [find |-> "create", create |-> "revoke", revoke |-> "reply"]

\* revoked_at IS NULL AND expires_at > now()
Live(k) == row[k].status = "active"

\* findActiveRefreshTokenByHash; 401 unless the token is active.
Find(t) ==
    /\ task[t].at = "find"
    /\ task' = [task EXCEPT ![t] = IF Live(task[t].token)
                                   THEN [task[t] EXCEPT !.at = After.find]
                                   ELSE Idle]
    /\ UNCHANGED <<row, issued>>

\* createRefreshToken
Create(t, k) ==
    /\ task[t].at = "create"
    /\ row[k].status = "none"
    /\ row' = [row EXCEPT ![k] = [status |-> "active", next |-> None,
                                  parent |-> task[t].token,
                                  login |-> row[task[t].token].login]]
    /\ task' = [task EXCEPT ![t].at = After.create, ![t].new = k]
    /\ UNCHANGED issued

\* Mutant: the arguments of revokeRefreshToken are swapped.
Swapped(t) == [old |-> task[t].new, by |-> task[t].token]

\* The token a refresh revokes, and the one it names as its replacement.
Rotation(t) == [old |-> task[t].token, by |-> task[t].new]

\* revokeRefreshToken: whatever the row has become meanwhile, it is revoked
\* now and replaced by this handler's successor.
Revoke(t) ==
    /\ task[t].at = "revoke"
    /\ row' = [row EXCEPT ![Rotation(t).old].status = "revoked",
                          ![Rotation(t).old].next = Rotation(t).by]
    /\ task' = [task EXCEPT ![t].at = After.revoke]
    /\ UNCHANGED issued

Reply(t) ==
    /\ task[t].at = "reply"
    /\ issued' = issued \cup {task[t].new}
    /\ task' = [task EXCEPT ![t] = Idle]
    /\ UNCHANGED row

-----------------------------------------------------------------------------
(***************************************************************************)
(* POST /auth/logout.                                                      *)
(***************************************************************************)
LogoutFind(t) ==
    /\ task[t].at = "logoutFind"
    /\ task' = [task EXCEPT ![t] = IF Live(task[t].token)
                                   THEN [task[t] EXCEPT !.at = "logoutRevoke"]
                                   ELSE Idle]
    /\ UNCHANGED <<row, issued>>

\* Mutant: the UPDATE finds no row.
LogoutMisses(t) ==
    /\ task[t].at = "logoutRevoke"
    /\ task' = [task EXCEPT ![t] = Idle]
    /\ UNCHANGED <<row, issued>>

\* The UPDATE writes replaced_by_id too: null, over a successor if there is one.
LogoutRevoke(t) ==
    /\ task[t].at = "logoutRevoke"
    /\ row' = [row EXCEPT ![task[t].token].status = "loggedOut",
                          ![task[t].token].next = None]
    /\ task' = [task EXCEPT ![t] = Idle]
    /\ UNCHANGED issued

\* A statement fails, its effect taken or not, or the process dies: no reply.
Fail(t) ==
    /\ DbMayFail
    /\ task[t].at # "idle"
    /\ task' = [task EXCEPT ![t] = Idle]
    /\ UNCHANGED <<row, issued>>

-----------------------------------------------------------------------------
Step(t) ==
    \/ Find(t)
    \/ \E k \in Token : Create(t, k)
    \/ Revoke(t)
    \/ Reply(t)
    \/ LogoutFind(t)
    \/ LogoutRevoke(t)

Next ==
    \/ \E k \in Token : Login(k)
    \/ \E k \in Token : Expire(k)
    \/ \E t \in Task, k \in Token : RecvRefresh(t, k)
    \/ \E t \in Task, k \in Token : RecvLogout(t, k)
    \/ \E t \in Task : Step(t)
    \/ \E t \in Task : Fail(t)

Spec == Init /\ [][Next]_vars

-----------------------------------------------------------------------------
(***************************************************************************)
(* Properties.                                                             *)
(***************************************************************************)

\* The type invariant: only what is in the table is ever sent to a client.
TypeOK ==
    /\ row    \in [Token -> Row]
    /\ issued \subseteq {k \in Token : row[k].status # "none"}
    /\ task   \in [Task -> TaskRec]

\* No failure and no race of refreshes leaves a login without a live token: the
\* successor is in the table before the token it replaces is revoked.  Only a
\* logout or the passing of time ends a login.
LoginAlive ==
    \A k \in Token : row[k].login = k =>
        \E c \in Token : /\ row[c].login = k
                         /\ row[c].status \in {"active", "expired", "loggedOut"}

\* A token revoked by a rotation names a token that was issued in its place
\* ("the old one is marked revoked (pointing at its replacement ...)"), though
\* refreshes and logouts of it overwrite each other.
RevokedNamesSuccessor ==
    \A k \in Token : row[k].status = "revoked" =>
        /\ row[k].next # None
        /\ row[row[k].next].parent = k
        /\ row[row[k].next].login = row[k].login

=============================================================================
