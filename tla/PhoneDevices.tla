---------------------------- MODULE PhoneDevices ----------------------------
(***************************************************************************)
(* As which device the iOS app connects:                                   *)
(*   screens/Devices/DevicesScreen.tsx  the effect that runs once per      *)
(*     sign-in, and the list of Macs,                                      *)
(*   state/deviceStore.ts, services/tokens/deviceIdentity.ts  registering,   *)
(*   state/pairingStore.ts  which device and account a socket is for,      *)
(*   state/authStore.ts  the one refresh all callers share.                *)
(* Each await is a step, and neither a run of the effect nor a refresh is  *)
(* ever cancelled: both may outlive their sign-in and end in the next.     *)
(***************************************************************************)
EXTENDS DeviceTable

CONSTANTS
    Run,          \* runs of the effect that may overlap
    MaxSignIns,   \* bound: times the user signs in or launches the app
    MaxTrouble    \* bound: requests that fail, and refreshes answered in another sign-in

VARIABLES
    user,         \* whose access token authStore has; Nothing: signed out
    keptAs,       \* whose refresh token the Keychain has
    refresh,      \* inFlightRefresh: whose refresh token was sent
    waits,        \* reconnectSignaling awaits it
    thisDevice,   \* thisDeviceId
    keptId,       \* the Keychain's DEVICE_ID_KEY
    keptIdent,    \* the Keychain's deviceIdentity.publicIdentifier
    run,          \* run[e]: where a run of the effect is
    wanted,       \* wantConnected
    asDevice,     \* pairingStore's deviceId
    socket,       \* what the store's SignalingClient presents
    paired,       \* devices of this iPhone that have an approved pair with a Mac
    pairIds,      \* pairIdByDeviceId: "empty", or loaded and with the Mac of the list or not
    upset,        \* history of the sign-in; see the properties
    signIns, trouble

tokens     == <<user, keptAs, refresh, waits>>
install  == <<keptId, keptIdent>>
store    == <<thisDevice, wanted, asDevice, socket>>
phoneEnv == <<signIns, trouble>>
iphone   == <<tokens, install, run, store, paired, pairIds, upset, phoneEnv>>

(***************************************************************************)
(* at is the await a run has reached: authStore's "token", the Keychain's  *)
(* "cached", "ident", "mint", "forget", "keep" and "name", the server's    *)
(* "check", "register", "list" and "pairs", or "show": the pairs are read  *)
(* and their ids, has or none of the Mac, are on their way.  again: the    *)
(* identifier was refused and minted anew.                                 *)
(***************************************************************************)
RunRec == [at : {"idle", "token", "cached", "check", "ident", "mint", "register", "forget",
                 "keep", "name", "list", "pairs", "show"},
           as : Account \cup {Nothing}, id : DeviceId \cup {Nothing},
           ident : Ident \cup {Nothing}, again : BOOLEAN, mounted : BOOLEAN, ids : {"none", "has"}]
Ended  == [at |-> "idle", as |-> Nothing, id |-> Nothing, ident |-> Nothing,
           again |-> FALSE, mounted |-> FALSE, ids |-> "none"]
Upsets == {"unchecked", "threw", "overtaken", "unlisted", "late"}

PhoneDevicesInit ==
    /\ user = Nothing /\ keptAs = Nothing /\ refresh = Nothing /\ waits = FALSE
    /\ thisDevice = Nothing /\ keptId = Nothing /\ keptIdent = Nothing
    /\ run = [e \in Run |-> Ended]
    /\ wanted = FALSE /\ asDevice = Nothing /\ socket = NoSocket
    /\ paired = {} /\ pairIds = "empty" /\ upset = {} /\ signIns = 0 /\ trouble = 0

Goes(e, at)    == run' = [run EXCEPT ![e].at = at]
Active(e)      == run[e].at # "idle"
SlotFor(e)     == ~Active(e) /\ \A f \in Run : ~Active(f) => e <= f
Trouble        == trouble < MaxTrouble /\ trouble' = trouble + 1
Upset(x)       == upset' = upset \cup {x}

Begun(a) == [Ended EXCEPT !.at = "token", !.as = a, !.mounted = TRUE]

-----------------------------------------------------------------------------
(***************************************************************************)
(* The user.                                                               *)
(***************************************************************************)

\* Signing in shows DevicesScreen, whose effect runs.
SignsIn(e, a) ==
    /\ signIns < MaxSignIns /\ signIns' = signIns + 1
    /\ user = Nothing /\ SlotFor(e)
    /\ user' = a /\ keptAs' = a
    /\ run' = [run EXCEPT ![e] = Begun(a)]
    /\ upset' = IF wanted \/ \E f \in Run : Active(f) THEN {"overtaken"} ELSE {}
    /\ UNCHANGED <<device, minted, refresh, waits, install, store, paired, pairIds, trouble>>

\* authStore's signOut: DevicesScreen goes, its runs go on.
LeavesAccount ==
    /\ user' = Nothing /\ keptAs' = Nothing
    /\ run' = [e \in Run |-> [run[e] EXCEPT !.mounted = FALSE]]
    /\ pairIds' = "empty"

\* The button in Settings: disconnect() and signOut().  A refresh stays in flight.
SignsOut ==
    /\ user # Nothing
    /\ LeavesAccount
    /\ wanted' = FALSE /\ socket' = NoSocket
    /\ UNCHANGED <<device, minted, refresh, waits, install, thisDevice, asDevice, paired, upset, phoneEnv>>

\* The app is killed and launched: signed in as the Keychain has it, or with no
\* network signed out.
Relaunches(e) ==
    /\ signIns < MaxSignIns /\ signIns' = signIns + 1
    /\ user' \in {keptAs, Nothing} /\ keptAs' = user'
    /\ refresh' = Nothing /\ waits' = FALSE
    /\ \A f \in Run : e <= f
    /\ run' = [f \in Run |-> IF f = e /\ user' # Nothing THEN Begun(user') ELSE Ended]
    /\ thisDevice' = Nothing /\ wanted' = FALSE /\ asDevice' = Nothing /\ socket' = NoSocket
    /\ pairIds' = "empty" /\ upset' = {}
    /\ UNCHANGED <<device, minted, install, paired, trouble>>

-----------------------------------------------------------------------------
(***************************************************************************)
(* ensureRegistered                                                        *)
(***************************************************************************)

\* getFreshAccessToken(), the token there is now; then the id in memory, or the Keychain's.
TakesToken(e) ==
    /\ run[e].at = "token" /\ user # Nothing
    /\ run' = [run EXCEPT ![e].as = user, ![e].id = thisDevice,
                          ![e].at = IF thisDevice = Nothing THEN "cached" ELSE "check"]
    /\ UNCHANGED <<device, minted, tokens, install, store, paired, pairIds, upset, phoneEnv>>

\* There is no token any more: the user has signed out.
NoToken(e) ==
    /\ run[e].at = "token" /\ user = Nothing
    /\ run' = [run EXCEPT ![e] = Ended]
    /\ UNCHANGED <<device, minted, tokens, install, store, paired, pairIds, upset, phoneEnv>>

\* getItem(DEVICE_ID_KEY)
ReadsId(e) ==
    /\ run[e].at = "cached"
    /\ run' = [run EXCEPT ![e].id = keptId, ![e].at = IF keptId = Nothing THEN "ident" ELSE "check"]
    /\ UNCHANGED <<device, minted, tokens, install, store, paired, pairIds, upset, phoneEnv>>

\* devices.some((device) => device.id === cached)
IsOwned(e) == run[e].id \in Listed(run[e].as)

\* The cached id is used; if memory had none, its name is read first.
Uses(e) == Goes(e, IF thisDevice = Nothing THEN "name" ELSE "list")

\* listDevices(), to see whether the account owns the cached id.
Checks(e) ==
    /\ run[e].at = "check"
    /\ IF IsOwned(e) THEN Uses(e) ELSE Goes(e, "ident")
    /\ UNCHANGED <<device, minted, tokens, install, store, paired, pairIds, upset, phoneEnv>>

\* "network hiccup on this check shouldn't block startup"
CheckFails(e) ==
    /\ run[e].at = "check"
    /\ Trouble /\ Upset("unchecked")
    /\ Uses(e)
    /\ UNCHANGED <<device, minted, tokens, install, store, paired, pairIds, signIns>>

\* loadOrCreateDeviceIdentity: getItem, and a new identifier if there is none.
ReadsIdent(e) ==
    /\ run[e].at = "ident"
    /\ \/ /\ keptIdent # Nothing
          /\ run' = [run EXCEPT ![e].ident = keptIdent, ![e].at = "register"]
          /\ UNCHANGED minted
       \/ /\ keptIdent = Nothing
          /\ \E i \in Mintable : /\ run' = [run EXCEPT ![e].ident = i, ![e].at = "mint"]
                                 /\ minted' = minted \cup {i}
    /\ UNCHANGED <<device, tokens, install, store, paired, pairIds, upset, phoneEnv>>

\* setItem(KEYCHAIN_KEY, generated)
KeepsIdent(e) ==
    /\ run[e].at = "mint"
    /\ keptIdent' = run[e].ident
    /\ Goes(e, "register")
    /\ UNCHANGED <<device, minted, tokens, keptId, store, paired, pairIds, upset, phoneEnv>>

\* POST /devices
Registers(e) ==
    /\ run[e].at = "register"
    /\ \E d \in DeviceId : /\ Creates(run[e].as, run[e].ident, d)
                           /\ run' = [run EXCEPT ![e].id = d, ![e].at = "keep"]
    /\ UNCHANGED <<minted, tokens, install, store, paired, pairIds, upset, phoneEnv>>

\* 409: "minting a fresh one and retrying exactly once"; a second one throws.
IsRefused(e) ==
    /\ run[e].at = "register"
    /\ Conflicts(run[e].as, run[e].ident)
    /\ IF run[e].again THEN run' = [run EXCEPT ![e] = Ended] ELSE Goes(e, "forget")
    /\ UNCHANGED <<device, minted, tokens, install, store, paired, pairIds, upset, phoneEnv>>

\* resetDeviceIdentity, whose deleteItem comes before the identifier is minted.
ForgetsIdent(e) ==
    /\ run[e].at = "forget"
    /\ keptIdent' = Nothing
    /\ run' = [run EXCEPT ![e].at = "ident", ![e].again = TRUE]
    /\ UNCHANGED <<device, minted, tokens, keptId, store, paired, pairIds, upset, phoneEnv>>

\* setItem(DEVICE_ID_KEY, device.id)
KeepsId(e) ==
    /\ run[e].at = "keep"
    /\ keptId' = run[e].id
    /\ Goes(e, "name")
    /\ UNCHANGED <<device, minted, tokens, keptIdent, store, paired, pairIds, upset, phoneEnv>>

\* The name is read from the Keychain, or kept there; the id goes into memory.
Names(e) ==
    /\ run[e].at = "name"
    /\ thisDevice' = run[e].id
    /\ Goes(e, "list")
    /\ UNCHANGED <<device, minted, tokens, install, wanted, asDevice, socket, paired, pairIds, upset, phoneEnv>>

\* No token, or the Keychain or POST /devices fails, before or after the server's
\* part: the run is over, and nothing repeats it.
Throws(e) ==
    /\ run[e].at \in {"token", "cached", "ident", "mint", "register", "forget", "keep", "name"}
    /\ Trouble /\ Upset("threw")
    /\ run' = [run EXCEPT ![e] = Ended]
    /\ \/ UNCHANGED device
       \/ run[e].at = "register" /\ \E d \in DeviceId : Creates(run[e].as, run[e].ident, d)
    /\ UNCHANGED <<minted, tokens, install, store, paired, pairIds, signIns>>

-----------------------------------------------------------------------------
(***************************************************************************)
(* The effect goes on, and the connection is kept.                         *)
(***************************************************************************)

\* refreshDevices() has ended one way or the other: connect(id, token).
OpensSocket(e) ==
    /\ run[e].at = "list"
    /\ wanted' = TRUE /\ asDevice' = run[e].id
    /\ socket' = [id |-> run[e].id, as |-> run[e].as]
    /\ Goes(e, "pairs")
    /\ UNCHANGED <<device, minted, tokens, install, thisDevice, paired, pairIds, upset, phoneEnv>>

\* Mutant: the ids of an earlier sign-in's run are taken.
AnyonesIds(e, ids) == ids

\* setPairIdByDeviceId(), of the screen the run began in.
ShownIds(e, ids) == IF run[e].mounted THEN ids ELSE pairIds

\* The SELECT of GET /devices/:id/pairs; 404 shows none.
LoadsPairs(e) ==
    /\ run[e].at = "pairs"
    /\ run' = [run EXCEPT ![e].at = "show",
                          ![e].ids = IF IsOwned(e) /\ run[e].id \in paired THEN "has" ELSE "none"]
    /\ UNCHANGED <<device, minted, tokens, install, store, paired, pairIds, upset, phoneEnv>>

\* .catch(() => [])
PairsFail(e) ==
    /\ run[e].at = "pairs"
    /\ Trouble /\ Upset("unlisted")
    /\ Goes(e, "show")
    /\ UNCHANGED <<device, minted, tokens, install, store, paired, pairIds, signIns>>

\* The answer is there.
ShowsPairs(e) ==
    /\ run[e].at = "show"
    /\ pairIds' = ShownIds(e, run[e].ids)
    /\ run' = [run EXCEPT ![e] = Ended]
    /\ UNCHANGED <<device, minted, tokens, install, store, paired, upset, phoneEnv>>

-----------------------------------------------------------------------------
(***************************************************************************)
(* reconnectSignaling and the refresh it awaits.  A young token is handed  *)
(* out at once; how old one is, is left out.                               *)
(***************************************************************************)

\* reconnectSignaling after its await, with t's token or none: that is retried.
Resumes(t) ==
    \/ ~wanted /\ UNCHANGED <<wanted, socket>>
    \/ wanted /\ user' = Nothing /\ wanted' = FALSE /\ socket' = NoSocket
    \/ /\ wanted /\ user' # Nothing
       /\ socket' = IF t = Nothing THEN socket ELSE [id |-> asDevice, as |-> t]
       /\ UNCHANGED wanted

\* The token is young, or there is none.
ReconnectsAs ==
    /\ wanted
    /\ UNCHANGED tokens /\ Resumes(user)
    /\ UNCHANGED <<device, minted, install, thisDevice, asDevice, run, paired, pairIds, upset, phoneEnv>>

\* The token is old: reconnectSignaling, or another caller, begins a refresh or
\* joins the one in flight, whoever's that is.
Refreshes ==
    /\ user # Nothing
    /\ refresh' = IF refresh = Nothing THEN user ELSE refresh
    /\ waits' \in {waits, waits \/ wanted}
    /\ UNCHANGED <<device, minted, user, keptAs, install, store, run, paired, pairIds, upset, phoneEnv>>

\* It has ended, with a token or none, for everyone who awaits it.
Returns(t) ==
    /\ refresh # Nothing
    /\ refresh' = Nothing /\ waits' = FALSE
    /\ IF waits THEN Resumes(t) ELSE UNCHANGED <<wanted, socket>>
    /\ UNCHANGED <<device, minted, install, thisDevice, asDevice, paired>>

\* Answered: the tokens are stored, whoever has signed in meanwhile.
RefreshAnswered ==
    /\ user' = (IF user = Nothing THEN Nothing ELSE refresh) /\ keptAs' = refresh
    /\ IF user \in {Nothing, refresh} THEN UNCHANGED <<upset, trouble>> ELSE Trouble /\ Upset("overtaken")
    /\ Returns(refresh)
    /\ UNCHANGED <<run, pairIds, signIns>>

\* No answer, or the Keychain refuses the token.
RefreshFails ==
    /\ UNCHANGED <<user, keptAs, run, pairIds, upset, phoneEnv>>
    /\ Returns(Nothing)

\* 401: signOut(), of whoever has signed in meanwhile, and the socket stays unless
\* reconnectSignaling waits.
RefreshRejected ==
    /\ LeavesAccount
    /\ Returns(Nothing)
    /\ UNCHANGED <<upset, phoneEnv>>

-----------------------------------------------------------------------------
\* The preHandler of /ws lets the socket in.
Admitted(s) == s.id \in Listed(s.as)

\* A code is redeemed and the Mac approves: Pairing.
Pairs ==
    /\ user # Nothing /\ socket.as = user /\ Admitted(socket)
    /\ paired' = paired \cup {socket.id}
    /\ IF pairIds = "empty" /\ \A e \in Run : run[e].at # "show" THEN UNCHANGED upset ELSE Upset("late")
    /\ UNCHANGED <<device, minted, tokens, install, store, run, pairIds, phoneEnv>>

\* removeDevice: the Mac goes from the table, with its pairs, and from the list,
\* where ids that are on their way no longer find it.
RemovesMac ==
    /\ user # Nothing
    /\ paired' = paired \ Listed(user)
    /\ pairIds' = IF pairIds = "has" THEN "none" ELSE pairIds
    /\ run' = [e \in Run |-> [run[e] EXCEPT !.ids = "none"]]
    /\ UNCHANGED <<device, minted, tokens, install, store, upset, phoneEnv>>

RunSteps(e) ==
    \/ TakesToken(e) \/ NoToken(e) \/ ReadsId(e) \/ Checks(e) \/ CheckFails(e) \/ ReadsIdent(e) \/ KeepsIdent(e)
    \/ Registers(e) \/ IsRefused(e) \/ ForgetsIdent(e) \/ KeepsId(e) \/ Names(e) \/ Throws(e)
    \/ OpensSocket(e) \/ LoadsPairs(e) \/ PairsFail(e) \/ ShowsPairs(e)

RefreshSteps == RefreshAnswered \/ RefreshFails \/ RefreshRejected

PhoneSteps ==
    \/ \E e \in Run, a \in Account : SignsIn(e, a)
    \/ SignsOut
    \/ \E e \in Run : Relaunches(e) \/ RunSteps(e)
    \/ ReconnectsAs \/ Refreshes \/ RefreshSteps \/ Pairs \/ RemovesMac

PhoneDevicesTypeOK ==
    /\ {user, keptAs, refresh} \subseteq Account \cup {Nothing} /\ waits \in BOOLEAN
    /\ {thisDevice, keptId, asDevice} \subseteq DeviceId \cup {Nothing}
    /\ keptIdent \in Ident \cup {Nothing}
    /\ run \in [Run -> RunRec]
    /\ wanted \in BOOLEAN /\ socket \in Presented
    /\ paired \subseteq DeviceId /\ pairIds \in {"empty", "none", "has"}
    /\ upset \subseteq Upsets

=============================================================================
