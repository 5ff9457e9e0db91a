# A TLA+ development of RemoteMac

RemoteMac lets an iPhone see and control a Mac.  A backend (Fastify, Postgres, one
process) authenticates accounts, pairs devices and carries the WebRTC signaling between
them; screen and input travel peer to peer.  This directory holds TLA+ specifications of
the parts of that system in which several actors interleave, TLC instances that check
them, and proofs that TLAPS checks.

Paths below are relative to `src/`.  `PROJECT.json` maps every definition to the lines it
models and lists runs, findings, hazards and theorems.

## The system

| Part | State | Operations | What can go wrong |
|---|---|---|---|
| **Pairing** (`services/backend/src/ws/signaling.ts`, `repositories/pairingCodesRepository.ts`, `repositories/devicePairsRepository.ts`) | `pairing_codes`, `device_pairs` | mint a code (REST), `pair.request`, `pair.approve`, `pair.reject`, replay of pending requests on connect | two handlers between each other's awaits; a code used twice; codes of two accounts that are equal; a request lost while its Mac reconnects; telling a device something the table no longer says |
| **Device registry** (`routes/devices.ts`; `state/deviceStore.ts`, `services/auth/deviceIdentity.ts` and `DevicesScreen.tsx` of `apps/ios`; `AppState.swift`, `DeviceIdentity.swift`) | `devices`; in each app the device id in memory and in the Keychain, and the installation's identifier | register, adopt or refuse a row, list, delete (cascades to codes, pairs, sessions); check the cached id, reset the identifier and retry | a deletion between two statements of a handler; accounts that take turns on one installation; a registration, or a refresh, that goes on in the next sign-in |
| **Sockets** (`ws/connectionRegistry.ts`) | one socket per device, in memory | connect, replace, break, close event, process restart | the close event of a replaced socket comes late |
| **Presence** (`ws/signaling.ts`) | background announcements | announce online/offline, report partners to a device that connects | announcements overtake each other or are overtaken by events |
| **Sessions and relay** (`ws/signaling.ts`, `repositories/sessionsRepository.ts`) | `sessions`, `SessionPartnerCache` in memory | `session.start`, `session.end`, `webrtc.*` | a cache that outlives what it caches; ends that learn an id at different moments |
| **Refresh tokens** (`routes/auth.ts`, `repositories/refreshTokensRepository.ts`) | `refresh_tokens` | login, refresh (rotate), logout | a rotation of four statements without a transaction |
| **Sign-in of the clients** (`apps/ios/src/state/authStore.ts`; `apps/mac/RemoteMac/App/AppState.swift`) | Keychain, tokens in memory, the shared refresh | launch, sign in, refresh, sign out | a refresh in flight across a sign-out, a crash or a lost answer; a Keychain that fails |
| **iOS connection** (`apps/ios/src/services/signaling/signalingClient.ts`, `state/pairingStore.ts`, `screens/Devices/DevicesScreen.tsx`) | the socket, heartbeat, probe, timers, `wantConnected` | connect, disconnect, every way to reconnect | timers, foreground and user reconnecting at once; a socket that is dead and does not say so |
| **Mac connection** (`apps/mac/RemoteMac/Networking/Signaling/SignalingClient.swift`, `AppState.swift`) | the same, with tasks | the same, with callbacks of closed sockets that come late | a ping's time-out that outlives its ping; calls of `refreshThenConnectSignaling` that overlap |
| **Screen session** (`pairingStore.ts` and `services/webrtc`; `AppState.swift` and `Networking/WebRTC`) | peer connections, pending promises, capture | handshake, recovery, teardown, screen share | late answers resolving a newer attempt; early offers, time-outs, overlapping sessions |
| **Screen Mode** (`apps/ios/src/screens/Screen/ScreenScreen.tsx`; `apps/mac/RemoteMac/Networking/WebRTC/InputInjector.swift`) | the touch in progress, two timers, modes, the toolbar; the Mac's button and modifier flags | gestures, clicks, keys, modifiers | two sides that count the button and the modifiers separately |
| **Keep-awake** (`apps/mac/RemoteMac/App/KeepAwakeManager.swift`) | assertion, `pmset` setting, preference | enable, disable, restore | overlapping toggles |

The clients call the backend by REST and over one WebSocket per device.  The handlers of
all sockets share the tables and the two in-memory maps.  Everything in the backend that
is hard comes from one fact: a handler runs without interruption only up to its next
`await`.

## How the code is modelled

Node runs one continuation at a time, and in the backend every `await` is one SQL
statement, which Postgres executes atomically.  A handler is therefore a *task* with a
program counter: each step is "the statement runs, and its result is kept in the task" or
"the messages are sent".  Steps of different tasks interleave freely.  The effect of a
synchronous burst (`socket.send`, `registry.send`, a cache update) is one step, joined to
nothing it is separated from by an `await`.

Messages that a server sends are recorded in the inbox of the socket they are written to,
and only when the socket is open: `ConnectionRegistry.send` and `ws` drop the others.  An
inbox is emptied when its socket stops being open, so it says what the device has been
told on the connection it has now.

A failing statement (`Fail...`) ends the handler silently, as `background` in
`signaling.ts` does; since a statement may take effect and its answer be lost, failing is
possible after the effect too.  `DbMayFail` allows it in `SessionRelay`, `RefreshTokens`
and `Presence`; `MayFail` in `Pairing` is the set of handlers it may happen to.  There a
handler that would have prompted a Mac stays in the state `failed` and keeps its slot until
the next restart (a bound), so that a property can speak of it (`PromptFailed`).  `Restart`
loses memory and keeps tables.

The clients are modelled in the same grain: JavaScript on the iPhone and the main actor on
the Mac run without interruption from one `await` to the next.  What awaits is a slot
(`call`, `effect`, `try`, `task`) with the place it has reached; what it read before the
`await` is kept in the slot only where the code keeps it in a local.

A variable called *history* in its comment is not in the code and no guard reads it.  Such
variables let a property name exactly the situations in which the code does not keep its
promise, instead of a model that leaves them out: `spoiled`, `onPurpose`, `macAsked`,
`lost`, `crossed`, `alone`, `confirmed`, `upset`, `macUpset`, and `parent` and `login` of
`RefreshTokens`.  (`minted` of `DeviceTable` is read by one guard: it keeps new identifiers
new, as UUIDs are.)

## Modules

**`Pairing`** - the core.  `device`, `codes`, `pairs` are the tables; `deviceOf`, `live`,
`registry`, `inbox` the sockets; `req`, `res`, `flush` the running handlers of
`handlePairRequest`, `handlePairResolve` and `flushPendingPairingRequests`.  The
uniqueness index, the `CHECK`, the foreign keys and the cascades are part of the
statements they constrain.  Codes are `Hash` values, so that two rows can be equal; in the
instances there is a single hash, the worst case.

**`PairLedger`** - the abstract specification: which changes of a code and of a pair are
ever allowed (a code goes from fresh to used or expired once; a pair opens on a used code
that backs no other pair, between the Mac that minted it and another device of its
account, never beside an active pair of the same two; it is decided once).  `Pairing`
implements it with the two tables mapped to themselves.

**`PairingProofs`, `SessionRelayProofs`, `PresenceProofs`, `SignInProofs`,
`ConnectionsProofs`, `ScreenSessionProofs`, `ScreenInputProofs`, `KeepAwakeProofs`** - each
extends the module it is named after with its theorems, see *Proofs*.

**`SessionRelay`** - `session` and `cache` beside `pair` and the sockets, with the tasks of
`handleSessionStart`, `handleSessionEnd` and `relayWebrtcMessage`.  A cache hit is one
step, as in the code; a miss is three.  `Heard` is a socket whose messages still reach a
handler: a replaced socket is closing, and what its peer sent before it saw the close is
still handled.

**`RefreshTokens`** - `row`, `issued` and the tasks of `POST /auth/refresh` and
`/auth/logout`.  `parent` and `login` are history that the table does not have.  The
order of the statements of a rotation is the function `After`.

**`SignInLink`, `PhoneSignIn`, `MacSignIn`, `SignIn`** - a client signed in to that table.
`SignInLink` extends `RefreshTokens` with what both clients keep (`memory`, `access`,
`stored`, `inFlight`) and with *slots*: an asynchronous function of the client (`call[c]`)
and the server's handler of its request (`task[c]`), which goes on when the client has
given up.  It also has what goes wrong around a request: the client offline, an answer
lost, a statement that fails, a quit.  `PhoneSignIn` is `authStore.ts`, with an `await` of
the Keychain wherever the code has one; `MacSignIn` is the token half of `AppState.swift`,
whose Keychain is synchronous and whose write errors are ignored.  `SignIn` composes them:
`side` says which of the two a behaviour is about, as they share no token.

**`Presence`** - `registry`, the state of each socket (an open socket that breaks or is
replaced is *closing* until its close event), the announcements started and not yet sent
(`due`), the partners a new socket has still to be told about (`cur`), and what each open
socket was last told (`heard`).

**`SessionLink`, `PhoneSession`, `MacSession`, `ScreenSession`** - the setting up of a screen
session from both ends.  `PhoneSession` is `pairingStore.ts`: every call of
`establishConnection` is an *attempt* with a program counter (`at`), and all attempts share
`webrtcClient`, `sessionId` and the two pending promises, as the closures of the store do.
JavaScript runs the continuation of a settled promise before the next event, so the catch
of `startScreenSession` (`Caught`) is part of the step that rejects.  All attempts that wait
for an access token wait for the same refresh, as does the socket that reconnects, so
signaling connects only when none of them still waits (`SignalingConnected`).  A timer that a later
one displaced from `screenRetryTimer` still runs (`strayTimers`).  `MacSession` is the
session part of `AppState.swift`, on the main actor: tasks that outlive their session
(`fetching`, `accepting`, `deadlines`, a capture that starts) are kept per session.
`SessionLink` has what is between them: the sockets with the messages under way, the
server's numbering of sessions, and the two peer connections, which reach each other once
an answer to the right offer is applied (`Linked`).  `ScreenSession` composes them and
bounds by `MaxFault` the number of steps in which something goes wrong.

**`KeptConnection`** - the abstract specification of both apps' connection: while it is
wanted it is up, being tried, or scheduled to be tried, and neither waiting nor trying
lasts for ever.  **`PhoneConnection`** and **`MacConnection`** implement it, with the phase
computed from sockets, timers and tasks (`PhonePhase`, `MacPhase`); a state in which all of
these have run out is mapped to `dead`, which `KeptConnection` does not have.  A socket is
`connecting`, `open`, or `mute` (it claims to be open and nothing gets through).  In
`PhoneConnection` the heartbeat, the probe, the reconnect timer, the effect of
`DevicesScreen` and the refresh that all callers await are the code's; `MacConnection`
adds the callbacks of a URLSession socket that come after `disconnect`
(`LateCallback`), and the time-outs of earlier pings (`deadlines`).  **`Connections`**
composes the two, again one app per behaviour, and states the properties.

**`DeviceTable`, `PhoneDevices`, `MacDevices`, `Devices`** - as which device an app connects.
`DeviceTable` is `devicesRepository.ts`: `POST /devices` with the `WHERE` of its
`ON CONFLICT`, which makes the statement adopt a row of the same account (`Adoptable`),
insert one, or answer 409 (`Conflicts`).  `PhoneDevices` is the effect of `DevicesScreen`
with `ensureRegistered` inside it, one *run* per sign-in and a step per `await`, over the id
in memory, the two entries of the Keychain, and the socket and device of `pairingStore`; runs
are not cancelled, so one may go on during the next sign-in.  Nor is the one refresh that all
callers share: `refresh` is the account whose token was sent, which may have left when the
answer comes (`RefreshAnswered`), and `waits` says that `reconnectSignaling` awaits it and
goes on when it has ended (`Resumes`); `keptAs` is whose refresh token the Keychain has.
`MacDevices` is `bootstrap`, `registerMacDevice`, `registerWithIdentity` and `signOut`; what
awaits there is one `job`, since `isBusy` disables the form while another registers.  Its
refresh (`macRefresh`) outlives a sign-out in the same way; `MacReconnects` is what follows
the await of it, with the token and the id of that moment, which are all it uses, so it needs
no place of its own to wait at.  An installation goes through
sign-ins and sign-outs of several accounts, launches and failing requests.  `Devices`
composes them, one app per behaviour; the Mac's removal from the iPhone's list is an action
of both (`RemovesMac`, `MacRemoved`).

**`ScreenInput`** - the responder callbacks of `ScreenScreen.tsx` on one record `g`
(`gestureRef`), the tap that waits (`pending`), the toolbar (`active`), the ordered data
channel (`wire`), and `InputInjector` (`button`, `flags`, the permission and its cached
value).  Messages whose effect does not outlive them carry nothing but their kind, or are left out.
Time passes in `Tick`; 250, 300 and 400 ms are 1, 2 and 3 units, which keeps their order.

**`KeepAwake`** - the assertion, the system-wide setting and the preference, with the
Tasks of `setEnabled` and `restoreOnLaunch`, each split at its awaits of `pmset` and
`osascript`.

The clients' other end of `webrtc.ice`, the offers with which the Mac adds its video track
and `session.end`, which no client sends, change none of this state and are left out.

The `MC*` modules name small instances; each `.cfg` is one run.

## Runs

| Run | Instance | Checks |
|---|---|---|
| `pairing_redeem` | 2 accounts, 2 Macs, 1 iPhone, 2 codes of one hash, 2 redeeming handlers, 1 resolving that may fail | `TypeOK`, `CodeBacksOnePair`, `SameAccount`, `NotesTruthful`, `ApprovedByMac`, `ImplementsLedger` |
| `pairing_deliver` | 1 pair, 3 sockets, every statement may fail, fair handlers | `NoLostRequest`, `PendingReachesMac` |
| `session_confined` | a Mac with two iPhones, restarts, failing statements | `RelayConfined`, `SessionHasPair` |
| `presence_told` | an iPhone that reconnects, restarts, failing statements, announcements in any order | `RegistryCurrent`, `NoGhosts`, `Told` |
| `presence_shown` | 2 sockets each, announcements of a device in order | `ConnectedShownOnline` is violated |
| `screen_kept` | 2 attempts, 2 sessions, 2 sockets of the iPhone, 2 faults | `TypeOK`, `Driven`, `OneMacPeer`, `OfferNotStranded`, `ShareHonest` |
| `screen_rebuilt` | 3 attempts, 2 sessions, no fault | `HealthyNotRebuilt` is violated |
| `signin_kept` | either client, 3 tokens, 3 slots, 3 steps of the user, 1 fault | `LinkTypeOK`, `LoginAlive`, `RevokedNamesSuccessor`, `ExchangedOnce`, `StoredIsGood`, `NoneLeftBehind`, `LaunchSettles` |
| `connections_kept` | iPhone: 2 clients, 2 effects, 6 steps of the user, 4 faults; Mac: 3 clients, 2 calls, 5 steps, 2 faults | `TypeOK`, `OneSocket`, `StatusHonest`, `SignedOutStaysOff`, `PhoneKept`, `MacKept` |
| `input_follows` | 1 modifier, 2 messages in flight, 1 fault | `ButtonFollows`, `NoScrollWhileHeld`, `KeysAsShown` |
| `keepawake_toggle` | 3 Tasks, relaunches, others who run `pmset` | `TypeOK`, `ToggleTellsTruth`, `OnlyConfirmed` |
| `devices_owned` | either app, 2 accounts, 3 rows and 3 identifiers, 2 runs of the effect, 3 sign-ins, 1 failing request; Mac: 4 launches, sign-ins and removals, 1 failing request | `ConnectsAsOwn`, `PairsKnown`, `EndsConnected` |

What the passing runs show, where a name alone does not say it:

* `NoLostRequest`: a pending request whose Mac is connected has been sent to it, or a
  handler that will send it is on its way, or one that would have done so had a statement
  fail.  `PendingReachesMac` is its liveness.
* `NoGhosts`: nobody keeps showing a partner online that has gone, as long as no statement
  failed and announcements kept their order; `Presence` knows when they did not.
* `ExchangedOnce`: the server does let two refreshes that race on one token both succeed
  (its four statements are no transaction), but neither client ever causes that race:
  all callers share one refresh.  Only a client that gave up a refresh which was going on
  at the server (a lost answer, a crash) presents its token again.
* `NoneLeftBehind`: signing out leaves no live token, unless it overlaps a refresh.
* `PhoneKept`, `MacKept`: the refinement of `KeptConnection` with its liveness, under every
  interleaving of timers, sockets, the shared refresh, the foreground and the user.
* `ConnectsAsOwn`: the comment in `deviceStore.ts:60` names what went wrong before it was
  written, a device id that "the new account doesn't own".  With the check, no order of
  accounts, refusals, launches and failing requests leaves a socket with such an id, but for
  the exceptions below: in both apps a refresh that outlives its sign-in may still do it, on
  the iPhone also a run of the effect, a socket that was left behind, or a list that could
  not be loaded.  The id stays another account's in memory and in the Keychain; the property
  is about what is presented.
* `EndsConnected`: a launch or a sign-in ends connected, and admitted by the server, for
  whichever accounts were there before, with the same exceptions: every switch of accounts is
  one refused identifier and one retry that is accepted.  The comment at
  `authStore.ts:122-125`, by which a second account "would hit a publicIdentifier conflict
  registering a device - an accepted limitation", is older than `registerWithIdentity`
  (`deviceStore.ts:23-27`), which resets the identifier and registers once more; what is left
  of the limitation is that the first account's device is not found again.
* `PairsKnown`: the alert "Not paired" (`DevicesScreen.tsx:77`) is true of the ids that were
  loaded, and they are those of the device in use.
* `ButtonFollows`: compares the Mac's button *after all that is under way* with the finger's
  gesture, so it holds at every moment and not only when the channel is empty.

What the violated properties show:

* `presence_shown`: the close event of a replaced socket announces its device offline
  after the new socket has announced it online.
* `screen_rebuilt`: Screen Mode is left and opened again while the first attempt waits for
  the server or the Mac.  The second attempt's teardown rejects the first, whose catch sees
  the same pair on screen and sets a retry timer; no success clears it and its callback
  does not look at the peer connection, so it tears the connected session down.

### What the properties except, and the code does

These are situations in which a property would fail; each is named in the property, so
that nothing else is excepted.

| Exception | What the code does |
|---|---|
| `spoiled`: `overlap` | a sign-out and a refresh in flight: the refresh stores a live token in an app that is signed out |
| `spoiled`: `answer`, `cut` | the server rotated and the client never heard of it; the stored token is a revoked one |
| `spoiled`: `keychain` | the rotated token could not be stored, or not the e-mail address after it, and the token is stored in an app that is signed out; a Mac whose Keychain cannot be read at launch is back in onboarding; on the iPhone a Keychain error while launching or signing out also leaves the screen as it was, the loading screen included |
| `spoiled`: `offline` | the logout request is never repeated, and a launch without network forgets (iPhone) or sets aside (Mac) a good token |
| `spoiled`: `over` | the Mac's onboarding signs in over a token that is stored, which stays alive |
| `onPurpose`, `macAsked` | a sign-out that overtakes the effect of `DevicesScreen`, or the Mac's registration together with a refresh, is followed by a connection |
| `crossed` | the click of an earlier tap fires during a press of Drag mode; its button-up ends the drag |
| `lost` | the channel or the screen goes away during a press: nothing sends the button-up |
| `spoiled`: `twice` | the return key submits the sign-in form again while a sign-in is under way (`LoginScreen.tsx:99`): one of the two tokens stays alive |
| `alone` | two applies of keep-awake overlap: `restoreOnLaunch`, which runs at each opening of the menu, has decided to restore and awaits `pmset` when the user switches the toggle off; the last write of each variable wins separately, and the Mac is kept awake by a toggle that shows off, where `SettingsView.swift:222` promises "until you turn this off again" |
| `upset`: `unchecked` | the list of devices could not be loaded: the cached id is used, whoever's it is |
| `upset`: `overtaken` | a run of the effect, or a socket that a rejected refresh left behind, is still there when the next account signs in, or a refresh of another account is answered in this sign-in and stores its tokens (`authStore.ts:141`): connections are then made with one account's token and the other's device, and refused for as long as that lasts |
| `macUpset`: `overtaken` | the same refresh on the Mac (`AppState.swift:160`): it stores the tokens of the account that has left over those of the one that signed in, and the reconnect that awaited it presents that account's token with this one's device |
| `upset`: `threw` | a registration that failed is not repeated before the next launch or sign-in |
| `upset`: `unlisted`, `late` | the ids of the pairs could not be loaded; a Mac paired after they were read, on their way to the screen included, opens only after the next launch or sign-in |
| `macUpset`: `failed`, `left` | a request or the Keychain failed and the Mac is back in onboarding, or, after a launch whose new id the Keychain refused, ready without a connection; the user signed out |
| `macUpset`: `removed` | a Mac that is removed while it runs keeps trying as a device that is gone; only a launch registers it again, where `DevicesScreen.tsx:95` says to pair it again |
| `capture` is `lost` | the system stops a capture after `startCapture` has returned and before the main actor goes on (`AppState.swift:609-636`): the Mac then shows that it shares its screen |
| `PromptFailed`, failed announcements | nothing repeats a prompt or an announcement whose statement failed, until the device reconnects |

Met while modelling, and without a property: a relay that missed the cache and found its
session active may put it back after a `session.end` that ran in between has cleared it,
and the ended session is then relayed until the next restart; on the Mac the time-out of
an earlier ping may close a healthy socket while a later pong is due (the connection is
retried, as `MacKept` shows); the Mac takes a rejected refresh for a network error and
retries until the user signs in again; a touch of two fingers shorter than 300 ms counts
as a tap; the Drag and Scroll modes stay on until they are switched off, where a comment
(`ScreenScreen.tsx:311`) has them revert to Move after one gesture; accounts that take turns
on one installation get a new row in `devices` at every turn, since each 409 replaces the
identifier, so the pairs of the turn before are of a device that nobody uses any more; the
iPhone's list keeps showing the Macs of the last account until the next one's are loaded; a
Mac whose registration is answered after the user has signed out keeps the id and shows the
pairing step, signed out; a refresh of the account before that is rejected signs out whoever
has signed in meanwhile (`authStore.ts:149`).

Some awaits are one step with what they follow, where no property can tell: in `Devices`
the logout request and the `deleteItem` of the iPhone's `signOut`, and the storing of a
refreshed token with its use, all of which `SignIn` takes apart, and the two requests of
`removeDevice`; in `SignIn` the e-mail address's `setItem` succeeds together with the
token's.

### Bounds

The size of a set of sockets bounds the connects, that of a set of row ids the inserts,
and that of a set of tasks the handlers suspended at once; in `pairing_redeem`,
`AtMostTwo` bounds the handlers of all kinds together.  Two are what a race between
statements needs; two pairs and two codes let a code be reused and a pair be opened again
after a rejection; three sockets let one device replace its socket while the other one is
connected.  What is true of more is covered, for `Pairing`, by the proofs, which bound
nothing.

In `screen_kept` two attempts and two sessions let everything of the first outlive it into
the second, and two faults let a retry fail.  A fault is a lost socket, a failed call, a
time-out, a report of the peer connection that it dropped or failed, a missing permission
or a capture that fails; what the user does, what timers do and every order of the rest is
not limited by it.  `LastIsShown` ends a behaviour when Screen Mode is closed and no attempt
is left to open it again: nothing has to be driven then, and the Mac, which does not see
it, is followed where the screen stays open.  `screen_rebuilt` needs a third attempt, the one that should not start.

In `signin_kept` three tokens are a login and two rotations, or two logins and one;
`Room` keeps a request from being made that could find no token unused, so no handler gets
stuck for want of an id.  `MaxUser` counts sign-ins and sign-outs, `MaxFaults` lost
answers, failed statements, quits, Keychain errors and forms submitted again; being offline, a token's ageing and
its expiry are not counted.  In `connections_kept` two clients of the iPhone are the
current one and its successor (the code drops every reference to the one before), three of
the Mac leave room for one whose callbacks are still to come; `MaxDeadlines` is 2, a ping
and an earlier one whose time-out runs.  `MaxUser`, `MaxMacUser` count what the user and
the system do, `MaxFault` and `MaxMacFault` sockets that drop, go mute or fail, requests
that fail and the Mac's tokens that age.  Refinement is checked with its liveness, so a
retry that fails for ever is out of the bound while a retry after every kind of failure is
in it.  In `input_follows` no more than one message is sent by one handler with one
exception (a second finger that both releases and scrolls), for which the channel holds
two; one fault closes the channel, leaves the screen or changes the permission at any
moment, and screens and channels are opened again without limit.  Three Tasks in
`keepawake_toggle` are an apply, one that overlaps it and a restore.

In `devices_owned` two accounts are what can take turns; `FirstIsA` fixes which of them is
first, since nothing tells them apart.  Three sign-ins of the iPhone (`MaxSignIns`, launches
included) are there and back again; each makes one row and one identifier at most, whatever
fails, so three of each are enough (runs that overtake each other may want more and are then
left waiting, which no property is about).  Two runs are a run and the one that overtakes it.
`MaxMacStarts` counts the Mac's launches, sign-ins and removals, `MaxTrouble` and
`MaxMacTrouble` the requests that fail and the refreshes that are answered in a sign-in of
another account; quitting, signing out, refreshing, reconnecting and pairing are not counted.
Two constraints cut steps of sign-ins that an earlier one has overtaken, for which nothing is
promised: the last sign-in is not such a one (`LastIsCalm`, which also has it begin no
refresh, as there is no sign-in after it to overtake), and no Mac is paired or removed in one
(`PairsInPeace`).  The proofs have none of these constraints.

`presence_shown` sets `MayRestart`, `DbMayFail` and `MayOvertake` to `FALSE`: the violation
needs none of them.
`CHECK_DEADLOCK FALSE` stands where the bounds run out.

### Fairness

`Pairing!FairSpec` and `Presence!FairSpec` assume weak fairness of the steps of each
handler: Postgres answers every statement and the event loop runs every continuation.
`SignInSpec` assumes that the server answers a request that reached it, and that a client
goes on with what it began.  `PhoneFairness` and `MacFairness` assume that armed timers
fire, that a socket that connects opens or fails (both have time-outs), that a mute one is
found out by its heartbeat and that a refresh ends, in whatever way.  `RequestsEnd` assumes the
same of the requests of `Devices`, refreshes among them: they are answered or fail, and what
awaited them goes on.
It assumes nothing of the user: a Mac that waits for its name is none that is stuck
(`AwaitsName`).  Nothing is assumed
of users, devices or the network: which way a request or a socket ends is free.
`PendingReachesMac` and `Told` are therefore about a Mac, or a device, that stays
connected, and `PhoneKept` and `MacKept` do not say that a connection comes about.

## Proofs

TLAPS checks the following for all values of the constants: any number of accounts,
devices, codes, sockets, handlers, sessions, attempts, Tasks, messages in flight, and any
value of the bounds.  Every invariant that a passing run checks is proved, and so are the
type invariants of `SessionRelay`, `Presence`, `ScreenInput` and `Devices`, which no run
needs to check beside them.

| Module | Theorem | Statement |
|---|---|---|
| `PairingProofs` | `Invariant` | `Spec => []IInv`, the inductive invariant |
| | `TypeCorrect` | `TypeOK` |
| | `CodeSingleUse` | `CodeBacksOnePair` |
| | `PairsStayInAccount` | `SameAccount` |
| | `NotesHold` | `NotesTruthful` |
| | `OnlyMacApproves` | `ApprovedByMac` (an action property) |
| | `TablesImplementLedger` | `ImplementsLedger` (the refinement of `PairLedger`) |
| | `NoRequestLost` | `NoLostRequest` |
| `SessionRelayProofs` | `Invariance` | `Spec => []IInv` |
| | `TypeCorrect` | `TypeOK` |
| | `RelayIsConfined` | `RelayConfined` |
| | `SessionsHavePairs` | `SessionHasPair` |
| | `CacheIsTrue` | a cached pair is the pair of the session's row |
| `PresenceProofs` | `Invariance` | `Spec => []IInv` |
| | `TypeCorrect` | `TypeOK` |
| | `RegistryIsCurrent` | `RegistryCurrent` |
| | `GhostsAreCorrected` | `NoGhosts` |
| `SignInProofs` | `TableInvariance` | `Spec => []TableInv`, for the table and any clients |
| | `LoginsAlive`, `RevokedNameSuccessors` | `LoginAlive`, `RevokedNamesSuccessor`, for any clients |
| | `LinkInvariance` | `SignInSpec => []LinkInv`, for the table and either client |
| | `LinkTypeCorrect` | `LinkTypeOK` |
| | `ClientsLoginsAlive`, `ClientsRevokedNameSuccessors` | `LoginAlive`, `RevokedNamesSuccessor` |
| | `TokensExchangedOnce` | `ExchangedOnce` |
| | `StoredTokenIsGood` | `StoredIsGood` |
| | `NothingLeftBehind` | `NoneLeftBehind` |
| `ConnectionsProofs` | `Invariance` | `Spec => []BothInv` |
| | `TypeCorrect` | `TypeOK` |
| | `OneSocketEach` | `OneSocket` |
| | `ShownAsItIs` | `StatusHonest` |
| | `OffForGood` | `SignedOutStaysOff` |
| | `PhoneRefinesKept`, `MacRefinesKept` | every step of either app is a step or a stutter of `KeptConnection` (`PhoneKept` and `MacKept` without their fairness) |
| | `DevicesInvariance` | `DevicesSpec => []DevicesInv` |
| | `DevicesTypeCorrect` | `DevicesTypeOK` |
| | `ConnectsAsOwnDevice` | `ConnectsAsOwn` |
| | `PairsAreKnown` | `PairsKnown` |
| | `RetriesAreAccepted` | the identifier minted after a 409 is refused by nobody |
| `ScreenSessionProofs` | `Invariance` | `Spec => []IInv` |
| | `TypeCorrect` | `TypeOK` |
| | `AlwaysDriven` | `Driven` |
| | `OnePeerOfTheMac` | `OneMacPeer` |
| | `OffersAreAnswered` | `OfferNotStranded` |
| | `SharesAsShown` | `ShareHonest` |
| `ScreenInputProofs` | `ThroughIsHandling` | `ButtonThrough`, `FlagsThrough` are what handling the messages one by one yields |
| | `Invariance` | `Spec => []IInv` |
| | `TypeCorrect` | `TypeOK` |
| | `ButtonFollowsFinger` | `ButtonFollows` |
| | `NeverScrollsHeld` | `NoScrollWhileHeld` |
| | `KeysCarryWhatIsShown` | `KeysAsShown` |
| `KeepAwakeProofs` | `Invariance` | `Spec => []IInv` |
| | `TypeCorrect` | `TypeOK` |
| | `ToggleIsTrue` | `ToggleTellsTruth` |
| | `AlwaysConfirmed` | `OnlyConfirmed` |

They rest on the assumptions the modules name, which TLC evaluates on every run, and on
nothing else: the types of the constants, and that a value that stands for *none*
(`None`, `Nobody`, `Nothing`) is not one of the things it is none of (`NoneAssumption`,
`NobodyAssumption`, `NothingAssumption`; `PeerAssumption`: nor one of the states a peer connection reports);
that the bounds are numbers (`BoundAssumption` and its like).

### The arguments

**`Pairing`.**  `CodeBacksOnePair` and `NotesTruthful` are not inductive: the step that
inserts a pair or sends a message only knows what its handler remembers.  `IInv` therefore
says what each handler may rely on.  `RedemptionExclusive`: a code that is being redeemed is
used, backs no pair yet, and no other handler redeems it.  `ReqKnows`, `ResKnows`,
`FlushKnows`: what a handler read at an earlier statement and what of it cannot have changed
(a Mac and a remote never change, a pair once approved is approved or gone).  `TableInv`
relates the tables: codes belong to Macs of their account, every pair stands on a used code
of its Mac, rows of deleted devices are gone.  One lemma per conjunct shows that a step
preserves it; frame lemmas (`CodesFrame`, `PairsFrame`, ...) say once which actions change
which variable, and *evolution* lemmas (`PairsEvolve`, ...) how.

**`SessionRelay`.**  A relay sends on the word of its cache or of two statements that are
already past.  `TaskKnows` says what remains of them: a handler never sees another pair than
its session's, and past the check of the pair its caller is an end of it.  The pair of a
session never changes and a pair's ends never do, so an aged answer still confines.

**`Presence`.**  `NoGhosts` is about the moment when everything is through; the invariant
behind it, `Corrected`, is about every moment: while announcements keep their order, the
last one due about a device agrees with the registry, and a device that has not been told
of a partner's leaving by an announcement will be by its report.  `OwnSocket` ties the
registry to sockets of the device itself.

**`SignIn`.**  `TableInv` holds of the server whatever its clients do: `Knows` says of a
handler between its statements that the successor it has inserted is issued to nobody,
named by no other handler, and live; hence revoking the old token leaves the login alive.
`LinkInv` adds the client: `OneAtATime` (at most one function that exchanges a token, and
which it is follows from `status` and `inFlight`) and, as long as no answer was lost or cut
off, `Once`: a token that is being exchanged is awaited by the one client function that
presented it, has no successor yet, and is revoked by the time the answer is there.

`StoredIsGood` and `NoneLeftBehind` speak of the moments between two functions.  The two
invariants behind them speak of every moment.  `WholeInv` holds while nothing went wrong but
requests that never arrived and sign-ins over a stored token.  `OneToken`: memory and
Keychain differ only under a function that is assigning the two.  `Held`: a token that a
handler is about to send, or a client about to store, is good and nobody else's.  `Kept`: the
stored token is good, or a function is `Passing` - it has presented it and will replace it or
clear it.  `OnPhone` and `OnMac` say which functions can be between their awaits
at once (one on the phone; on the Mac a sign-in next to the refresh slot).  `SpotlessInv`
holds while nothing went wrong at all, and turns to the table: a live token is `Left` in one
of four places - stored, inserted by a handler that has not answered, received and not yet
stored, or being logged out - and `Traced` says for each function that the token it
replaces or clears is not live by then.  For these proofs
the actions are first sorted (`WholeMoves`) into the nine kinds of step that the two
invariants distinguish: `Opens`, `Trades`, `Works`, `Answers`, ...

**`Connections`.**  For each app: one client holds a socket, it is the current one (or, on
the Mac, one of whom callbacks may still come, which has none), and whatever is wanted is
being brought about - `Alive` and `MacAlive` name the timer, task or request.  The last
conjunct makes the phase `dead` impossible, which is most of the refinement: given it, a
step can only move between the phases of `KeptConnection` as that allows.

**`Devices`** (in `ConnectionsProofs`).  `ConnectsAsOwn` is about the socket; the id in it
comes from a run of the effect that learnt it several awaits before, from the server or from
the Keychain by way of the server's list.  `PhoneOwns` therefore says, while nothing was
unchecked and nothing overtook (`Calm`): one run is active, its account is the one signed in,
and from the check or the registration on its id is a row of that account; and so is the
device of a connection that is wanted.  Rows are never taken from their account (`RowsStay`,
the lemma every step rests on).  A refresh needs no clause: while `Calm` holds it ends in a
sign-in of its own account, in none, or with none, and what it changes then is `user` or
nothing (`ResumeKeeps`).  `PairsRead` carries the ids of the pairs from the server's answer
to the screen.  `MacOwns` has two parts.  `MacStages` relates the stage, the job and the
socket and survives an overtaking refresh, which disturbs no more than the account;
`MacKnows`, while none came (`NoneOvertook`), says of the Mac what `PhoneOwns` says of the
iPhone, with a row that was the account's once (`Had`), as the Mac may be removed at any
moment, and follows the id in memory, because `MacReconnects` uses that one.  `PhoneRetries`
and `MacRetries` follow the identifier from the refusal on: it is new to `minted`, and
`IdentsMinted` has every row's identifier in there, so no row has it; this is why retrying
*once* is enough.

**`ScreenSession`.**  Three parts.  `Wires`: messages under way are sound, and the Mac is
told of sessions in the order of their numbers, so a task that remembers a session of the
past never takes it for the active one (`UsedIsOld`).  `MacInv`: captures, peers, held
offers and start tasks of all sessions but the active one are closed, stopped or about to
be.  `PhoneInv`: `Rescue` says for every way in which the shared state can stand - a promise
awaited by the newest attempt, a token awaited, a broken peer, an unlinked one - which timer
or attempt brings the session back; `strayTimers` is bounded by the failed attempts.  The
newest attempt is found by well-founded induction on the natural numbers
(`WFMin`), the only place where the number of attempts matters.

**`ScreenInput`.**  What the channel will make of the button is a function of a whole
sequence.  `ThroughIsHandling` proves that its closed form (the last message that sets or
clears it) is the same as handling the messages one after another; the three ends of the
channel (one appended, the oldest taken, all lost) are each one lemma, and the actions are
sorted by what they send.  `ButtonInv` is stronger than `ButtonFollows` and
`NoScrollWhileHeld`: while no finger holds, the last message that moves the button is an up.
`KeysAsShown` is inductive by itself.

**`KeepAwake`.**  A Task that wants sleep off was confirmed (`ChecksToTurnOn`), and while no
two overlapped, a single Task is between the awaits and the toggle is disabled (`Alone`).

### What the proofs changed

* `Driven` did not follow: with three attempts and two sockets, an attempt that awaited its
  token across a reconnect of signaling was left behind by nothing.  The model was more
  permissive than the code, in which that attempt and the new socket await one refresh
  (`authStore.ts:129-157`); `SignalingConnected` has the guard now.  No run was large enough
  to show it.
* `NoScrollWhileHeld` was stated with an exception for a click that crosses a press.  The
  proof did not need it, and the exception is gone.
* `NoneLeftBehind` had been proved of a sign-in form that cannot be submitted twice.  Its
  guard was stronger than the form's, whose return key submits while the button is disabled;
  `PhoneLogin` allows it now (`SubmittedAgain`), and the exception has a name.
* `ButtonThrough` and `FlagsThrough` were folds over the channel, and are now the closed form
  that `ThroughIsHandling` justifies.

* `ConnectsAsOwn` had been proved of reconnects without the await in them.  With the shared
  refresh as a step of its own the two inequalities `socket.as = user` and
  `macSocket.as = macAccount` are no longer invariant, and `overtaken` names when they fail.

### Only model-checked

* Liveness: `PendingReachesMac`, `Told`, `LaunchSettles`, `EndsConnected`, and the fairness
  half of `PhoneKept` and `MacKept`.  The prover does not reach liveness under fairness.
* `SignIn`'s and the others' bounds on faults are constants in the theorems, so what holds
  with `MaxFault` faults holds for any number of them; the runs only check small values.

## Not modelled

Formats and validation (`packages/protocol`, `validation/`), password hashing, access
tokens and rate limits, the ICE configuration route, logging, the web site and deployment
files: stateless, or a library's.  `revokeDevicePair` and the status `revoked` have no
caller.  `last_seen_at` is written on every connect and close and only shown.  The
approved partners are constant in `Presence`.  The pairing screens of both apps show one
value that a message or a tap sets; what they send is in `Pairing`.

Of the components that are modelled: cursor positions, the joystick, zoom offsets and the
amount of scrolling (no later message depends on them); the delays of the backoff (a timer
is armed or not); ICE candidates and the offers with which the Mac adds its video track;
the diagnostic ping; e-mail addresses and passwords, of which only right or wrong matters;
names and platforms of devices.

## Plan

Written, in this order: `Pairing` with `PairLedger` and its proofs, `SessionRelay`,
`RefreshTokens`, `Presence`, `ScreenSession` with its parts, `SignIn`, `Connections` with
`KeptConnection`, `ScreenInput`, `KeepAwake`, `Devices` with its parts.  The proofs followed,
in the order `Pairing`, `SessionRelay`, `SignIn`, `KeepAwake`, `Presence`, `Connections`,
`ScreenSession`, `ScreenInput`, `Devices`.  Next:

1. A component for the wire formats: which of the three hand-written sets of message schemas
   (`messages.ts`, `protocol.ts`, `ProtocolMessages.swift`) accepts what the others send.
