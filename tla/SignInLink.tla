----------------------------- MODULE SignInLink ----------------------------
(***************************************************************************)
(* One signed-in client of the backend and the refresh_tokens table: the   *)
(* state both clients keep of their sign-in, and the requests between      *)
(* them.  PhoneSignIn and MacSignIn say what each client does with it.     *)
(*                                                                         *)
(* A slot is an asynchronous function of the client and the handler that   *)
(* serves its request; the handler goes on when the client has given up.   *)
(***************************************************************************)
EXTENDS RefreshTokens, Naturals, FiniteSets

CONSTANTS
    MaxFaults,  \* bound: lost answers, failed statements, quits, Keychain errors,
                \* a form submitted again
    MaxUser     \* bound: sign-ins and sign-outs

ASSUME NumberedAssumption == Token \subseteq Nat /\ Task \subseteq Nat
ASSUME BoundAssumption    == {MaxFaults, MaxUser} \subseteq Nat

VARIABLES
    status,    \* "off": the app is not running; "loading": it bootstraps
    memory,    \* the refresh token in memory
    access,    \* the access token: "none", "young", or "old" (past its max age)
    stored,    \* the Keychain's refresh token
    named,     \* Mac: the Keychain's macDeviceId and macDeviceName
    inFlight,  \* inFlightRefresh, refreshTask
    call,      \* call[c]: what the client does in slot c
    spoiled,   \* history: what has gone wrong; see each property
    faults, user

keep    == <<status, memory, access, stored, named>>
bounds  == <<faults, user>>
client  == <<keep, inFlight, call>>
vars2   == <<vars, client, spoiled, bounds>>

(***************************************************************************)
(* at is the await the function has reached: "read", "store" and "delete"  *)
(* are the Keychain's, "ask" and "logout" the server's; "set" and "clear"  *)
(* are the assignments that follow.                                        *)
(***************************************************************************)
Quiet   == [fn |-> "idle", at |-> "idle", token |-> None, ans |-> "none"]
CallRec == [fn  : {"idle", "boot", "login", "refresh", "out"},
            at  : {"idle", "read", "ask", "store", "set", "logout", "delete", "clear"},
            token : Token \cup {None},
            ans : {"none", "waiting", "token", "rejected", "failed", "done"}]
Spoils  == {"answer", "cut", "keychain", "overlap", "twice", "offline", "over"}

LinkInit ==
    /\ Init
    /\ status = "off" /\ memory = None /\ access = "none" /\ stored = None
    /\ named = FALSE /\ inFlight = FALSE
    /\ call = [c \in Task |-> Quiet]
    /\ spoiled = {} /\ faults = 0 /\ user = 0

-----------------------------------------------------------------------------
Running(fns) == \E c \in Task : call[c].fn \in fns

\* Slots and tokens are used in order: which one it is makes no difference.
Free(c) == call[c] = Quiet /\ task[c] = Idle
Slot(c) == Free(c) /\ \A d \in Task : Free(d) => c <= d
Unused  == {k \in Token : row[k].status = "none"}
Fresh(k) == k \in Unused /\ \A j \in Unused : k <= j

\* Bound: no request is made that could find the tokens used up.
MayCreate(c) == \/ task[c].at \in {"find", "create"}
                \/ call[c].at = "read"
                \/ call[c].fn = "login" /\ call[c].ans = "waiting"
Room == Cardinality(Unused) > Cardinality({c \in Task : MayCreate(c)})

Fault == faults < MaxFaults /\ faults' = faults + 1
Spoil(x) == spoiled' = spoiled \cup {x}

Goes(c, rec) == call' = [call EXCEPT ![c] = rec]
At(c, at)    == [call[c] EXCEPT !.at = at, !.ans = "none"]
Asked(fn, at, k) == [fn |-> fn, at |-> at, token |-> k, ans |-> "waiting"]

-----------------------------------------------------------------------------
(***************************************************************************)
(* The server's steps, and what they answer.                               *)
(***************************************************************************)
Waits(c) == call[c].ans = "waiting"
Answer(c, ans, k) ==
    call' = IF Waits(c) THEN [call EXCEPT ![c].ans = ans, ![c].token = k] ELSE call

ServerFind(c)   == Find(c) /\ IF Live(task[c].token) THEN UNCHANGED call
                              ELSE Answer(c, "rejected", call[c].token)
ServerCreate(c) == (\E k \in Token : Fresh(k) /\ Create(c, k)) /\ UNCHANGED call
ServerReply(c)  == Reply(c) /\ Answer(c, "token", task[c].new)
ServerLogout(c) == \/ LogoutFind(c) /\ IF Live(task[c].token) THEN UNCHANGED call
                                       ELSE Answer(c, "done", call[c].token)
                   \/ LogoutRevoke(c) /\ Answer(c, "done", call[c].token)

\* POST /auth/login or /auth/register, for the right password.
ServerLogin(c) ==
    /\ call[c].fn = "login" /\ Waits(c)
    /\ \E k \in Token : Fresh(k) /\ Login(k) /\ Answer(c, "token", k)

Serve(c) ==
    /\ \/ ServerFind(c) \/ ServerCreate(c) \/ (Revoke(c) /\ UNCHANGED call)
       \/ ServerReply(c) \/ ServerLogout(c) \/ ServerLogin(c)
    /\ UNCHANGED <<keep, inFlight, spoiled, bounds>>

-----------------------------------------------------------------------------
(***************************************************************************)
(* What goes wrong around a request.                                       *)
(***************************************************************************)

\* The request never arrives: the client is offline, or the password wrong.
Unreachable(c) ==
    /\ Waits(c)
    /\ task[c].at \in {"idle", "find", "logoutFind"}
    /\ task' = [task EXCEPT ![c] = Idle]
    /\ Answer(c, "failed", call[c].token)
    /\ IF call[c].fn \in {"boot", "out"} \/ call[c].at = "logout"
       THEN Spoil("offline") ELSE UNCHANGED spoiled
    /\ UNCHANGED <<row, issued, keep, inFlight, bounds>>

\* The answer is lost: the handler goes on, the client sees a failure.
AnswerLost(c) ==
    /\ Waits(c) /\ call[c].fn # "login"
    /\ Fault /\ Spoil("answer")
    /\ Answer(c, "failed", call[c].token)
    /\ UNCHANGED <<vars, keep, inFlight, user>>

LoginLost(c) ==
    /\ call[c].fn = "login" /\ call[c].ans = "token"
    /\ Fault /\ Spoil("answer")
    /\ call' = [call EXCEPT ![c].ans = "failed"]
    /\ UNCHANGED <<vars, keep, inFlight, user>>

\* A statement of the handler fails: 500.
ServerFails(c) ==
    /\ Fail(c)
    /\ Fault /\ Spoil("answer")
    /\ Answer(c, "failed", call[c].token)
    /\ UNCHANGED <<keep, inFlight, user>>

\* The app quits or crashes; what it awaited is forgotten.
Quit ==
    /\ status # "off"
    /\ Fault
    /\ IF Running({"boot", "login", "refresh", "out"}) THEN Spoil("cut") ELSE UNCHANGED spoiled
    /\ status' = "off" /\ memory' = None /\ access' = "none"
    /\ inFlight' = FALSE
    /\ call' = [c \in Task |-> Quiet]
    /\ UNCHANGED <<vars, stored, named, user>>

\* ACCESS_TOKEN_MAX_AGE_MS passes, or the refresh token the client has expires.
Ages ==
    /\ \/ access = "young" /\ access' = "old" /\ UNCHANGED row
       \/ \E k \in {stored, memory} \ {None} : Expire(k) /\ UNCHANGED access
    /\ UNCHANGED <<issued, task, status, memory, stored, named, inFlight, call,
                   spoiled, bounds>>

Around == Quit \/ Ages
          \/ \E c \in Task : \/ Serve(c) \/ Unreachable(c) \/ AnswerLost(c)
                             \/ LoginLost(c) \/ ServerFails(c)
=============================================================================
