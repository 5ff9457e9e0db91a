----------------------------- MODULE MacDevices -----------------------------
(***************************************************************************)
(* As which device the Mac app connects: bootstrap, registerMacDevice,     *)
(* registerWithIdentity and signOut of AppState.swift, over                *)
(* DeviceIdentity.swift.  The Keychain is synchronous, a request is an     *)
(* await; bootstrap and onboarding never register at the same time, since  *)
(* isBusy disables the form.                                               *)
(***************************************************************************)
EXTENDS DeviceTable

CONSTANTS
    MaxMacStarts,    \* bound: times the Mac is launched, signed in or removed
    MaxMacTrouble    \* bound: requests that fail, and refreshes answered in another sign-in

VARIABLES
    stage,          \* "off": not running
    onboarding,     \* onboardingStep
    settingsOpen,   \* the Settings window may be open
    macAccount,     \* whose access token the Mac has
    macRefresh,     \* refreshTask: whose refresh token was sent
    macKept,        \* the Keychain: refresh token (whose), macDeviceId, identifier
    macDevice,      \* macDeviceId
    job,            \* bootstrap or registerMacDevice, at one of its awaits
    macWanted,      \* shouldStayConnected
    macSocket,      \* what the SignalingClient presents
    macUpset,       \* history since the launch or the sign-in; see the properties.
                    \* "overtaken": the tokens of another refresh were stored
    macStarts, macTrouble

macEnv  == <<macStarts, macTrouble>>
macApp  == <<stage, onboarding, settingsOpen, macAccount, macDevice, macWanted, macSocket>>
macBook == <<macApp, macRefresh, macKept, job, macUpset, macEnv>>

Off     == [at |-> "idle", boot |-> FALSE, as |-> Nothing, ident |-> Nothing]
JobRec  == [at : {"idle", "refresh", "check", "register", "again", "restore"}, boot : BOOLEAN,
            as : Account \cup {Nothing}, ident : Ident \cup {Nothing}]
MacUpsets == {"failed", "left", "removed", "overtaken"}
KeptRec == [as : Account \cup {Nothing}, id : DeviceId \cup {Nothing}, ident : Ident \cup {Nothing}]

MacDevicesInit ==
    /\ stage = "off" /\ onboarding = "signIn" /\ settingsOpen = FALSE
    /\ macAccount = Nothing /\ macRefresh = Nothing /\ macDevice = Nothing
    /\ macKept = [as |-> Nothing, id |-> Nothing, ident |-> Nothing]
    /\ job = Off /\ macWanted = FALSE /\ macSocket = NoSocket
    /\ macUpset = {} /\ macStarts = 0 /\ macTrouble = 0

MacStep    == macStarts < MaxMacStarts /\ macStarts' = macStarts + 1 /\ UNCHANGED macTrouble
MacUpset(x) == /\ macTrouble < MaxMacTrouble /\ macTrouble' = macTrouble + 1
               /\ macUpset' = macUpset \cup {x}
MacTrouble == MacUpset("failed") /\ UNCHANGED macStarts

-----------------------------------------------------------------------------
\* bootstrap(): with all three entries of the Keychain it refreshes the token.
Launches ==
    /\ MacStep
    /\ stage = "off"
    /\ IF macKept.as # Nothing /\ macKept.id # Nothing
       THEN /\ stage' = "launching"
            /\ job' = [Off EXCEPT !.at = "refresh", !.boot = TRUE, !.as = macKept.as]
       ELSE stage' = "onboarding" /\ UNCHANGED job
    /\ UNCHANGED <<device, minted, macRefresh, onboarding, settingsOpen, macAccount, macKept, macDevice,
                   macWanted, macSocket, macUpset>>

\* The app quits or crashes.
Quits ==
    /\ stage # "off"
    /\ stage' = "off" /\ onboarding' = "signIn" /\ settingsOpen' = FALSE
    /\ macAccount' = Nothing /\ macRefresh' = Nothing /\ macDevice' = Nothing
    /\ job' = Off /\ macWanted' = FALSE /\ macSocket' = NoSocket /\ macUpset' = {}
    /\ UNCHANGED <<device, minted, macKept, macEnv>>

\* connectSignaling(), with the token and the id of this moment.
ConnectAs(id) ==
    IF macAccount' = Nothing \/ id = Nothing THEN UNCHANGED <<macWanted, macSocket>>
    ELSE macWanted' = TRUE /\ macSocket' = [id |-> id, as |-> macAccount']

\* POST /auth/refresh of bootstrap; storeTokens.
BootRefreshes ==
    /\ job.at = "refresh"
    /\ macAccount' = job.as
    /\ job' = [job EXCEPT !.at = "check"]
    /\ UNCHANGED <<device, minted, macRefresh, stage, onboarding, settingsOpen, macKept, macDevice,
                   macWanted, macSocket, macUpset, macEnv>>

\* registerMacDevice begins: the identifier is the Keychain's, or minted and kept.
BeginRegister(boot) ==
    \/ /\ macKept.ident # Nothing
       /\ job' = [at |-> "register", boot |-> boot, as |-> macAccount, ident |-> macKept.ident]
       /\ UNCHANGED <<macKept, minted>>
    \/ /\ macKept.ident = Nothing
       /\ \E i \in Mintable :
             /\ job' = [at |-> "register", boot |-> boot, as |-> macAccount, ident |-> i]
             /\ macKept' = [macKept EXCEPT !.ident = i]
             /\ minted' = minted \cup {i}

\* Mutant: the Keychain's id is trusted.
TrustsKept == TRUE

\* ownedDevices.contains(where: { $0.id == macDeviceId })
OwnsKept == macKept.id \in Listed(macAccount)

\* listDevices(): the account owns the id it finds in the Keychain ...
BootOwned ==
    /\ job.at = "check" /\ OwnsKept
    /\ macDevice' = macKept.id /\ stage' = "ready" /\ settingsOpen' = TRUE
    /\ macAccount' = macAccount /\ ConnectAs(macKept.id)
    /\ job' = Off
    /\ UNCHANGED <<device, minted, macRefresh, onboarding, macKept, macUpset, macEnv>>

\* ... or it does not, or nobody knows: the Mac registers again.
BootNotOwned ==
    /\ job.at = "check"
    /\ \/ ~OwnsKept /\ UNCHANGED <<macUpset, macEnv>>
       \/ MacTrouble
    /\ BeginRegister(TRUE)
    /\ UNCHANGED <<device, macRefresh, macApp>>

\* performAuth, of the form in onboarding.
MacSignsIn(a) ==
    /\ MacStep
    /\ stage = "onboarding" /\ onboarding = "signIn" /\ job.at = "idle"
    /\ macAccount' = a /\ macKept' = [macKept EXCEPT !.as = a]
    /\ onboarding' = "nameMac" /\ macUpset' = {}
    /\ UNCHANGED <<device, minted, macRefresh, stage, settingsOpen, macDevice, job, macWanted, macSocket>>

\* The Continue button under the Mac's name.
NamesMac ==
    /\ stage = "onboarding" /\ onboarding = "nameMac" /\ job.at = "idle"
    /\ macAccount # Nothing
    /\ BeginRegister(FALSE)
    /\ UNCHANGED <<device, macRefresh, macApp, macUpset, macEnv>>

\* Where a job that has ended leaves the app, once bootstrap has looked for an id.
JobEnds(id) ==
    /\ stage' = IF ~job.boot THEN stage ELSE IF id = Nothing THEN "onboarding" ELSE "ready"
    /\ settingsOpen' = (settingsOpen \/ (job.boot /\ id # Nothing))
    /\ job' = Off

\* POST /devices returns: the id is kept, and connects unless signed out meanwhile.
MacRegisters ==
    /\ job.at \in {"register", "again"}
    /\ \E d \in DeviceId :
          /\ Creates(job.as, job.ident, d)
          /\ macDevice' = d
          /\ macKept' = [macKept EXCEPT !.id = d]
          /\ macAccount' = macAccount /\ ConnectAs(d)
    /\ job' = [job EXCEPT !.at = "restore"]
    /\ UNCHANGED <<minted, macRefresh, stage, onboarding, settingsOpen, macUpset, macEnv>>

\* restorePairingState, which takes a failure for no pair.
MacRestores ==
    /\ job.at = "restore"
    /\ onboarding' = "pair"
    /\ JobEnds(macDevice)
    /\ UNCHANGED <<device, minted, macRefresh, macAccount, macDevice, macWanted, macSocket, macKept, macUpset, macEnv>>

\* 409: deviceIdentity.reset(), and once more; a second 409 is an error.
MacRefused ==
    /\ Conflicts(job.as, job.ident)
    /\ \/ /\ job.at = "register"
          /\ \E i \in Mintable :
                /\ macKept' = [macKept EXCEPT !.ident = i]
                /\ minted' = minted \cup {i}
                /\ job' = [job EXCEPT !.at = "again", !.ident = i]
          /\ UNCHANGED <<stage, settingsOpen>>
       \/ /\ job.at = "again"
          /\ JobEnds(macDevice)
          /\ UNCHANGED <<macKept, minted>>
    /\ UNCHANGED <<device, macRefresh, onboarding, macAccount, macDevice, macWanted, macSocket, macUpset, macEnv>>

\* A request of the job fails, before or after the server's part.
JobFails ==
    /\ job.at \in {"refresh", "register", "again"}
    /\ MacTrouble
    /\ \/ UNCHANGED device
       \/ job.at # "refresh" /\ \E d \in DeviceId : Creates(job.as, job.ident, d)
    /\ JobEnds(macDevice)
    /\ UNCHANGED <<minted, macRefresh, onboarding, macAccount, macKept, macDevice, macWanted, macSocket>>

\* The Keychain refuses the id that was registered: it is in memory only.
KeepFails ==
    /\ job.at \in {"register", "again"}
    /\ MacTrouble
    /\ \E d \in DeviceId : /\ Creates(job.as, job.ident, d)
                            /\ macDevice' = d
                            /\ JobEnds(d)
    /\ UNCHANGED <<minted, macRefresh, onboarding, macAccount, macKept, macWanted, macSocket>>

\* completeOnboarding
Completes ==
    /\ stage = "onboarding" /\ onboarding = "pair"
    /\ stage' = "ready" /\ settingsOpen' = TRUE
    /\ UNCHANGED <<device, minted, macRefresh, onboarding, macAccount, macDevice, macWanted, macSocket,
                   macKept, job, macUpset, macEnv>>

\* signOut, in the Settings window, which stays open when the stage changes.
MacSignsOut ==
    /\ settingsOpen
    /\ macWanted' = FALSE /\ macSocket' = NoSocket
    /\ macAccount' = Nothing /\ macDevice' = Nothing
    /\ macKept' = [macKept EXCEPT !.as = Nothing, !.id = Nothing]
    /\ stage' = "onboarding" /\ onboarding' = "signIn"
    /\ macUpset' = macUpset \cup {"left"}
    /\ UNCHANGED <<device, minted, macRefresh, settingsOpen, job, macEnv>>

\* freshAccessToken, when the token is old and no refresh is under way.
MacRefreshes ==
    /\ macAccount # Nothing /\ macDevice # Nothing /\ macRefresh = Nothing
    /\ macRefresh' = macAccount
    /\ UNCHANGED <<device, minted, macApp, macKept, job, macUpset, macEnv>>

\* Answered: storeTokens, whoever has signed in or out meanwhile.
MacRefreshEnds ==
    /\ macRefresh # Nothing
    /\ macRefresh' = Nothing
    /\ macAccount' = macRefresh /\ macKept' = [macKept EXCEPT !.as = macRefresh]
    /\ IF macAccount = macRefresh THEN UNCHANGED <<macUpset, macTrouble>> ELSE MacUpset("overtaken")
    /\ UNCHANGED <<device, minted, stage, onboarding, settingsOpen, macDevice, macWanted, macSocket,
                   job, macStarts>>

\* No answer: whoever awaits it has no token.
MacRefreshFails ==
    /\ macRefresh # Nothing
    /\ macRefresh' = Nothing
    /\ UNCHANGED <<device, minted, macApp, macKept, job, macUpset, macEnv>>

\* refreshThenConnectSignaling after its await, for a young token at once and for an
\* old one some time after MacRefreshEnds: if the app still wants a connection, it
\* connects with the token and the id of this moment, not those it began with.
MacReconnects ==
    /\ macWanted /\ macAccount # Nothing /\ macDevice # Nothing
    /\ macSocket' = [id |-> macDevice, as |-> macAccount]
    /\ UNCHANGED <<device, minted, stage, onboarding, settingsOpen, macAccount, macRefresh, macDevice,
                   macWanted, macKept, job, macUpset, macEnv>>

\* An iPhone of the account removes this Mac.
MacRemoved ==
    /\ MacStep
    /\ \E d \in DeviceId : device[d].is = "there" /\ Deletes(d)
    /\ macUpset' = IF stage = "off" THEN macUpset ELSE macUpset \cup {"removed"}
    /\ UNCHANGED <<minted, macApp, macRefresh, macKept, job>>

MacAppSteps ==
    \/ Launches \/ Quits \/ BootRefreshes \/ BootOwned \/ BootNotOwned
    \/ (\E a \in Account : MacSignsIn(a)) \/ NamesMac
    \/ MacRegisters \/ MacRestores \/ MacRefused \/ JobFails \/ KeepFails
    \/ Completes \/ MacSignsOut \/ MacRemoved
    \/ MacRefreshes \/ MacRefreshEnds \/ MacRefreshFails \/ MacReconnects

MacDevicesTypeOK ==
    /\ stage \in {"off", "launching", "onboarding", "ready"}
    /\ onboarding \in {"signIn", "nameMac", "pair"}
    /\ {macWanted, settingsOpen} \subseteq BOOLEAN
    /\ macSocket \in Presented
    /\ {macAccount, macRefresh} \subseteq Account \cup {Nothing} /\ macDevice \in DeviceId \cup {Nothing}
    /\ macKept \in KeptRec /\ job \in JobRec
    /\ macUpset \subseteq MacUpsets

=============================================================================
