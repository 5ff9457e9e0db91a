------------------------------ MODULE Devices ------------------------------
(***************************************************************************)
(* An installation of the iOS app or of the Mac app, the accounts that are *)
(* signed in on it one after the other, and the table of devices.  The two *)
(* have only the table in common, where they never meet: a behaviour is    *)
(* one of the iPhone's or one of the Mac's.                                *)
(***************************************************************************)
EXTENDS PhoneDevices, MacDevices

VARIABLE app

devicesVars == <<device, minted, iphone, macBook, app>>

DevicesInit == TableInit /\ PhoneDevicesInit /\ MacDevicesInit /\ app \in {"phone", "mac"}

DevicesNext ==
    \/ app = "phone" /\ PhoneSteps /\ UNCHANGED <<macBook, app>>
    \/ app = "mac" /\ MacAppSteps /\ UNCHANGED <<iphone, app>>

(***************************************************************************)
(* Requests, refreshes among them, are answered or fail, the Keychain      *)
(* answers, and a run goes on.                                             *)
(***************************************************************************)
RequestsEnd ==
    /\ \A e \in Run : WF_devicesVars(app = "phone" /\ RunSteps(e) /\ UNCHANGED <<macBook, app>>)
    /\ WF_devicesVars(app = "phone" /\ RefreshSteps /\ UNCHANGED <<macBook, app>>)
    /\ WF_devicesVars(app = "mac" /\ (MacRefreshEnds \/ MacRefreshFails) /\ UNCHANGED <<iphone, app>>)
    /\ WF_devicesVars(/\ app = "mac" /\ UNCHANGED <<iphone, app>>
                      /\ \/ BootRefreshes \/ BootOwned \/ BootNotOwned
                         \/ MacRegisters \/ MacRestores \/ MacRefused \/ JobFails \/ KeepFails)

DevicesSpec == DevicesInit /\ [][DevicesNext]_devicesVars /\ RequestsEnd

-----------------------------------------------------------------------------
\* Every variable has its type.
DevicesTypeOK == TableTypeOK /\ PhoneDevicesTypeOK /\ MacDevicesTypeOK /\ app \in {"phone", "mac"}

\* A socket that presents s is of the account u, if that is signed in, and for a
\* device that account owns, or that has been deleted.
IsOwn(s, u) ==
    s.id # Nothing => /\ u \in {s.as, Nothing}
                      /\ device[s.id].is # "unused" /\ device[s.id].owner = s.as

\* An app connects as a device of the account that is signed in, whoever was
\* signed in before: "signing into a different account here would otherwise
\* silently reuse a device id the new account doesn't own, and every /ws
\* connection would 403 forever".  Two things can undo it: on the iPhone a list of
\* devices that cannot be loaded, and on either app what an earlier sign-in left
\* under way, a refresh whose tokens replace the new account's or, on the iPhone, a
\* run of the effect or a socket.
ConnectsAsOwn ==
    /\ upset \cap {"unchecked", "overtaken"} = {} => IsOwn(socket, user)
    /\ "overtaken" \notin macUpset => IsOwn(macSocket, macAccount)

\* A launch or a sign-in ends connected as a device of its account, whichever
\* identifiers were refused and devices removed before, unless a request fails,
\* something of an earlier sign-in overtakes it, the user leaves, or the Mac is
\* removed while it runs; the Mac waits for its name.  So a second account is not
\* stuck with its "publicIdentifier conflict".
ConnectedAs(s, a) == s.as = a /\ Admitted(s)
AwaitsName      == onboarding = "nameMac" /\ job.at = "idle"
Stuck ==
    \/ /\ app = "phone" /\ upset \cap {"unchecked", "overtaken", "threw"} = {}
       /\ user # Nothing /\ ~(wanted /\ ConnectedAs(socket, user))
    \/ /\ app = "mac" /\ macUpset = {} /\ ~AwaitsName
       /\ \/ stage = "launching"
          \/ macAccount # Nothing /\ ~(macWanted /\ ConnectedAs(macSocket, macAccount))
EndsConnected == []<>~Stuck

\* A Mac in the list opens exactly when it is paired with this iPhone: "Not
\* paired ... Try again in a moment" is true, unless the ids could not be loaded
\* or the pairing came after they were.
PairsKnown ==
    /\ user # Nothing /\ pairIds # "empty"
    /\ upset \cap {"unchecked", "overtaken", "unlisted", "late"} = {}
    => (pairIds = "has" <=> asDevice \in paired)

=============================================================================
