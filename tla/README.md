# Verification of kbm-remote

kbm-remote turns a phone (the *sender*) into a mouse, keyboard, clipboard and
presentation remote of a computer (the *receiver*) over WebSockets with TLS. This
directory holds TLA+ models of the program, TLC configurations that check them, and
theorems with proofs that TLAPS checks. Every definition is translated from the
TypeScript source; `PROJECT.json` maps each one to its file and lines.

To check a model: `tlc -config <file>.cfg <module>.tla`; to check a proof:
`tlapm <module>.tla`.

## 1. The system

| Component | Source | State it keeps | Operations |
|---|---|---|---|
| ClientConnection, outbox | `packages/network/src/client/ClientConnection.ts` | `midCounter`, the `pending` Map with attempts and retry timers, the encode chain | `send`, `sendReliable`, retry timer, Ack / Nack, `failAllPending` |
| ClientConnection, life | same | `state`, `socket`, heartbeat, backoff, Hello and echo timers, `missedPongs`, `disposed` | `connect`, `disconnectGracefully`, `dispose`, socket events, HelloAck / AuthOk / AuthFailed / Pong, timers |
| WssGateway | `packages/network/src/server/WssGateway.ts` | sessions, connections per address, auth failures and bans, watchdogs, gateway state | `start`, `stop`, `onConnection`, `onMessage`, `close`, `authenticate`, `recordAuthFailure`, watchdog |
| frameRouter | `.../server/frameRouter.ts` | a table of handlers | gate before authentication, dispatch, outcome |
| NetworkService | `apps/receiver/src/main/networkService.ts` | the gateway, the challenge of a session, the two files of the TLS identity | Hello and Authenticate handlers, `start`, `stop`, `loadOrGenerateIdentity` |
| DeviceRegistry | `apps/receiver/src/main/deviceRegistry.ts` | trusted devices, pairing requests, pairing tokens, revoked sessions, the registry file | `requestPair`, `issuePairingCode`, `verifyPairingCode`, `approve`, `revoke`, `setPermissions`, `verifyToken`, `persist`, `load` |
| Keyboard and media screens | `apps/sender/src/screens/KeyboardScreen.tsx`, `MediaControlsScreen.tsx` | the field, its buffer, shift and caps, what React has not drawn yet | edits, Send, keys of the grid and of the strip, media buttons |
| KeyboardController, its names and providers | `packages/input-provider/src/keyboard.ts`, `controllers/KeyboardController.ts`, `providers/keyboard*.ts` | `activeRepeats`, live intervals | `pressKeys`, `holdKey`, `releaseKey`, `shortcut`, `typeText`, `mediaKey` |
| Touchpad, FrameCoalescer, inputDispatch | `apps/sender/src/screens/TouchpadScreen.tsx`, `packages/network/src/client/FrameCoalescer.ts`, `apps/sender/src/services/inputDispatch.ts` | gesture, drag, the batch of moves, the flushes asked for | pan, tap, scroll, long press, release, `sendFrame`, `flush` |
| MouseController and providers | `.../controllers/MouseController.ts`, `providers/nutjs.ts`, `native.ts` | throttle, `dragActive` | move, click, scroll, drag |
| InputService | `apps/receiver/src/main/inputService.ts` | none | a permission and a handler for each frame type |
| ClipboardController and providers | `.../controllers/ClipboardController.ts`, `clipboard.ts`, `providers/clipboardNative.ts` | what was last pushed, `lastKnownHash`, the marked edit | remote write, clear, read, query |
| Clipboard screen and store | `apps/sender/src/store/clipboardStore.ts`, `screens/ClipboardScreen.tsx` | history, its copy in storage | send, pull, clear, resend |
| Codec | `packages/protocol/src/` | none | two encoders, two decoders, compression |
| Receiver process | `apps/receiver/src/main/index.ts`, `settingsStore.ts` | `networkService`, window, tray, settings, quit handlers | boot, start, stop, tray, quit, IPC |
| Dashboard | `apps/receiver/src/renderer/store.ts` and screens | copies of status, devices, pending requests | hydrate, start, stop, restart, permissions, revoke, approve |
| Connection store and manager of the sender | `apps/sender/src/store/connectionStore.ts`, `services/connectionManager.ts`, screens Home and PairDevice, `HubHeader` | the manager, its one connection, the target, the list of devices and its copy in storage | pair, connect, disconnect, forget, restart |
| Preferences, metrics, logs, views, stubs | | | not modelled (section 5) |

**How they interact.** A screen calls `inputDispatch`, which sends a frame (moves go through
the coalescer) to the ClientConnection of the connection store. Frames travel over one
WebSocket at a time; the gateway decodes them, guards against replays, and hands them to
the router, which calls the handler the receiver registered: NetworkService's for Hello and
Authenticate (which read the DeviceRegistry), InputService's for input (which checks the
permission, calls a controller and does not wait). The handler's outcome becomes an Ack, a
Nack or a close. The dashboard reaches the registry and the service over IPC. Everything in
a process runs on one event loop: shared state changes between awaits, timers, calls of a
storage or a platform tool, and socket events.

**What is hard.** Decoding is asynchronous, so frames and answers of one connection
overtake each other, and events of an abandoned socket reach the handlers of the new
one. Retries cross reconnections. Timers (retry, backoff, heartbeat, Hello, echo,
watchdog, scheduled close, key repeat, long press, flush) fire between any two steps.
Files and storages are written without being waited for, and a process can end at any
point. Input handlers overlap at every await. Screens act on copies that lag behind.
`PROJECT.json` lists each such hazard at its line, with the properties that cover it, or the
reason why none does.

**What makes each part correct.** A send's promise settles once, truthfully, and
eventually; a frame's handler runs once on a connection. A client never waits for
nothing, never opens a socket after `dispose`, notices a dead link and recovers; its input
goes to the device that is shown. The gateway's sessions, sockets and counts agree, and
sockets that must go are closed. A revoked device stays out across crashes, no pairing
request is lost to the others, the code on the screen should be that of a request (it is
not: `MCAccessPairing.cfg` in section 3), a refusal ends its connection. Repeats can be
stopped, modifiers are down while their base key is, shortcuts leave no key down, typed
text leaves once and in order. Clicks keep their place among moves and a drag holds the
button no longer than it lasts. A local edit that was marked is not overwritten. The
service that listens is the one that can be stopped, and serves the
certificate that is on disk. Lists on screens agree with what they copy.

## 2. The modules

| Module | Models | Correspondence with the code |
|---|---|---|
| `SendPromise` | what `sendReliable` promises | abstract: `Submit`, `TakeEffect`, `Settle` |
| `ReliableDelivery` | the outbox, the link, `onMessage`, router and `applyOutcome` | `outbox`, `attempts`, `timers` are the `pending` Map and its entries; `encoding` is the encode chain; `seen` is `seenMids`; `running` are handlers that have started |
| `ClientConnection` | the life of a client | one variable per field; one action per user call, socket event, frame and timer |
| `DeviceStore` | the sender's list of devices | `devices` in memory, `stored` in AsyncStorage, `calls` of it that are unanswered, in order |
| `SenderApp` | the sender's application | extends `ClientConnection` and `DeviceStore`; `target` is the store's, `url` the connection's, `peer` the device the current socket was opened to |
| `WssGateway` | admission, sessions, watchdogs, shutdown | `sessions`, `connectionsPerIp`, `ipAuthBans`, `ipAuthFailures` are the Maps of those names; `closing` is a `close()` waiting for queued frames; `doomed` has a `scheduleClose` timer |
| `DeviceRegistry` | the registry, its file, restarts | `trusted`, `pending`, `pairingTokens`, `revokedSessions` are the Maps; `lastCode` is the code on the screen, of a request or one the screen drew (`IssuePairingCode`); `writes` are `persist` calls under way; `disk` is the file |
| `Access` | Hello and Authenticate over the registry | extends `DeviceRegistry`; a handler does not wait, so it is one step |
| `ReceiverService` | starts and stops of NetworkService, the identity's files, window, tray, quit | `services` are all NetworkService objects ever made, `networkService` the one with the handle, `stops` the stops under way |
| `DevicePanel` | the dashboard's list of devices | `registry` in the main process, `devices` in the store; `calls` over IPC, then `persisting` for a change, then `answers`, each with the list of its time; the list that `approveDevice` holds travels with its second call |
| `ReceiverApp` | both under the dashboard | a behaviour has one `subject`, the service or the devices, which share no state |
| `KeyNames` | key ids, normalisation, what each platform can press | the tables of `keyboard.ts` and of the providers, as sets |
| `Wire` | both encoders, both decoders, the gate by frame type | a payload is its size class and how it is packed |
| `KeyboardScreen` | the field, buffer and keys of the screens | `field` is the native text, `buffer` the React state, `seen` what closures still hold; `wanted` and `given` are histories |
| `KeyboardController` | presses, holds, repeats, releases, shortcuts | `call` is what an `async` method has reached, with the keys it has pressed; `down` is what the operating system has down; `activeRepeats` is the Map; `interval` are live `setInterval` timers |
| `KeyboardPath` | all of the above, from a screen or a client to a provider | frames in `outbox`, the session's `permissions`, a provider chosen by kind and platform |
| `FrameCoalescer`, `Touchpad` | gestures, batches, what the connection takes | `batch` is `pending`, `callbacks` are flushes asked for; gestures are the responder's handlers |
| `MouseController` | gate, controller, provider | `resolving` are moves that wait for the layout, `calls` what each provider call has still to do, `button` whether a drag or a click frame holds the left button |
| `PointerPath` | both halves of the pointer over a link | connections end and are renewed, frames are lost, refused or delivered |
| `ClipboardController` | ownership, duplicates, overlapping calls | `call` is the phase each call has reached (reading, writing, written); `os` is the clipboard, which a write may leave as something else |
| `ClipboardSync` | the sender's clipboard and the controller | history and its storage, frames to the receiver, replies to queries |
| `*Proofs` | theorems | section 4 |

The `MC*` modules instantiate a model for TLC; `Permutations` symmetry is used for
invariants only, and for sets whose members no definition tells apart. `MCKeyboardPath`
also evaluates three facts about the constant operators as assumptions: the fast decoder
reads what either encoder wrote, the baseline decoder reads the baseline encoder, and every
platform can press every media key.

Each definition called *Faulty variant* in a comment is a plausible bug of the definition
after it, with the same parameters. No specification uses it: it is there so that one can
put it in the place of the correct one and see the property that it breaks break.

### Abstractions

* A frame is its message id (`ReliableDelivery`), its role (`ClientConnection`), or its type
  with what its handler tells apart (the input models). Log lines and layout are left out.
* A handler in `ReliableDelivery` is whatever the host registered: it runs for a while and
  reports success or a reason.
* Answers to one client are kept in a set: a second copy of an answer that is under way
  changes nothing that the first does not.
* Clocks: retries, backoff, heartbeat, throttle and long press are choices; the gateway's
  deadlines are counted in watchdog ticks. `ClientConnection` has no `reconnectAttempts`, which
  only sets the length of the backoff.
* `SenderApp` leaves the heartbeat out: all it does is close the current socket, as the network
  may. The shipped store gives the connection no resume credentials and no pin check, so the
  model sets `Resume` and `PinCheck` to FALSE.
* In `WssGateway` a connection's name is used again once nothing of the old connection is
  left but its watchdog interval. What a session held is forgotten when its socket closes.
* In `DeviceRegistry` a token is the number of times it was hashed since its device
  received it; a code stands for its request (codes are taken to differ); the registry path
  is taken to be set and to be the one the next start loads. (It is empty by default, and
  `persist` then writes nothing.) A request's id is drawn once.
* In `DeviceRegistry` codes that the pairing screen draws for itself are one, `OwnCode`:
  `lastCode` is never cleared, so there is one at most in a process. The program as shipped never
  calls `requestPair`; the model's requests stand for a caller of it.
* In `KeyboardController` a provider presses the keys of a call one at a time, any of them
  can fail, and what is pressed stays down, as with nut.js. In `KeyboardPath` a provider that
  strikes keys (xdotool) leaves none down, so that `ModifiersLast`, which is about keys that are
  down, says nothing of it. The keys of a combination differ.
  nut.js's own table of keys is outside the repository, and is modelled from `toNutKey`.
* In the keyboard path the subject is either the screens, with the provider the program
  ships, or a client that sends any frame, with each kind of provider. The texts of the field
  are letters; `Batch` stands for the four characters that make the screen send. React Native
  ignores a value that is older than the field's latest edit: text edited while it is being
  sent is then sent again, and `TypedOnce` leaves that case out (`hurried`).
* In the pointer path only the left button is followed. A click frame has its action: `click`
  and `dblclick` press and let go, `down` holds the button (`click` in the variable `button`)
  and `up` lets go, also of a button that a drag holds. nut.js is taken to carry out its calls
  in order, the second click of a double one behind what waits by then; a native call is a
  process of its own and may overtake another.
* A clipboard entry is its hash, kind and size class. A write on Windows yields some text (its
  backslashes and line ends are altered); an image on macOS and Windows is put there as a file,
  which reads as nothing or as text. PowerShell and osascript reject when they fail or are
  killed by their timeout, which may be after the clipboard was written; a failure of xclip or
  pbcopy is not seen. A read with xclip gives nothing.
* Over IPC calls arrive in the order in which they were made, and answers in the order in which
  they were given; a change is answered when it is persisted, in any order. The five calls of a
  hydration are made and handled in one go, and are one call. `mainWindow` is a constant `null`
  (`index.ts:51`), so no event of the main process reaches the dashboard, which reads the list
  once, when it mounts. In `ReceiverApp` the service's calls are made and answered at once but
  for what their handlers await.

## 3. The runs

| Run | Module | Question | Result |
|---|---|---|---|
| `delivery` | `MCReliableDelivery` | `TimerIffWaiting`, `OneRunPerConnection`, `RetryBudget`, and the refinement `KeepsPromise` with its liveness | holds |
| `client` | `MCClientConnection` | `KeepsTrying`, `NoSocketAfterDispose`, `DeadLinkNoticed`, `Recovers` | holds |
| `sender` | `MCSenderApp` | Does input go to the device that is shown (`InputReachesTarget`), and is the list in memory the one in storage (`ListIsStored`)? | holds |
| `sender_restart` | `MCSenderApp`, `MCSenderRestart.cfg` | Does pairing one device lose no other (`PairingOnlyAdds`)? | no, finding 1 |
| `gateway` | `MCWssGateway` | Bans, errors, shutdown: `SessionPerSocket`, `CountNeverOverstates` | holds |
| `gateway_live` | `MCWssGateway`, `MCWssGatewayLive.cfg` | Are anonymous, silent and doomed sockets closed (`AnonymousGo`, `SilentGo`, `DoomedGo`)? | holds |
| `access` | `MCAccess` | Crashes, failed and torn writes: `RevokedStayOut`, `NewestRequestWaits`, `ToldOnce`, `RefusalEnds` | holds |
| `access_handshake` | `MCAccess`, `MCAccessHandshake.cfg` | Does the right echo of the challenge pass (`RightEchoPasses`)? | no, finding 2 |
| `receiver` | `MCReceiverApp` | Does what listens serve the identity on disk (`IdentityOnDiskServes`), can it be stopped (`NoOrphanService`), does the dashboard show the registry (`ListShowsRegistry`)? | holds |
| `keyboard` | `MCKeyboardPath` | `RepeatsAreStoppable`, `ModifiersLast`, `ShortcutsLetGo` below the wire, `TypedOnce` on the screen | holds |
| `pointer` | `MCPointerPath` | `ClickInPlace`, `ButtonHeldForADrag`, `MovesNotStranded` | holds |
| `clipboard` | `MCClipboardSync` | `MarkedEditStays`, `FailedWriteMayRetry` | holds |

A run uses the `.cfg` of its module's name unless another is given, and each passing run
but `gateway_live` also checks a type invariant.

Some properties have preconditions that say how far the code keeps them. They are part of
what the runs show:

* `NoOrphanService` and `IdentityOnDiskServes` leave out behaviours in which a stop began
  during another stop or a start (`overlapped`): those can leave a service that listens
  without a handle, or two first starts that make two identities. What is left to
  `NoOrphanService` is every other order of starts, failed starts, restarts with another port,
  tray stops, quits and crashes. Crashes between the two files of the identity are in; the next
  start finds a certificate missing or corrupt, and makes a new pair.
* `ListShowsRegistry` speaks of the moments without an unanswered call, and leaves out a list
  that was overwritten by the one that `approveDevice` held meanwhile (`overtaken`): that list
  is stale, and it stays until the next one is taken (`store.ts:113`).
* `NewestRequestWaits` speaks of requests; a code of the screen's own belongs to none, which is
  `CodeOnScreenWorks` (below).
* `ButtonHeldForADrag` is about drags: a click frame's `down` holds the button as its sender
  asked. It leaves out (`excused`) a drag whose end was not sent, as its connection was lost or
  renewed, or whose provider failed: nothing clears `dragActive` or the button then, until
  another drag ends with no start behind it on the wire.
* `ModifiersLast` leaves out a combination of which another call has let a key go (`robbed`), as
  the first of two combinations to end does with a modifier that they share.
* `ShortcutsLetGo` counts as `stray` what a KeyPress, a hold, a repeat or a shortcut that failed
  half-way has pressed: nothing lets go of those but a release that is asked for.
* `RepeatsAreStoppable` is about repeats that are remembered; one that was overwritten before it
  was remembered, or armed after its release, is what `MCKeyboardHold.cfg` shows.
* `TypedOnce` leaves out text that is edited while it is being sent (`hurried`), and text
  typed while the link is not in the state "connected" is dropped by `sendInput`.
* `MarkedEditStays` speaks of an edit that was marked by `markLocalClipboardWritten`, until a
  clear takes effect, and not of a remote write that was past its check when the edit came
  (`raced`). The program as built never marks an edit; the property is about an embedding that
  does, as the controller's interface asks.
* `FailedWriteMayRetry` says that what is refused as a duplicate was reported written; whether
  it was is the provider's word.
* `ListIsStored` speaks of the moments without an unanswered storage call, after the first
  connect, and leaves out failed calls and changes made while the list loads (`unsure`).

### Bounds, and why they are enough

* **delivery**: with two sends, one can be in any phase while the other settles; with two
  connections a send crosses a reconnection, and its answers come from either. Two attempts
  (`MAX_ACK_ATTEMPTS` is 4) give one retry and one exhaustion, before and after every event.
  The copies of a frame are bounded by `RetryBudget` itself.
* **client**: two sockets are the current one and one that was abandoned. Sockets are used
  again once closed, so any number of reconnections is covered. A limit of one missed Pong
  keeps the count on both sides of it.
* **sender**: two sockets as above; two devices are the one that is shown and another; two
  storage calls are a write and one that overtakes or follows it. Restarts are unbounded.
* **gateway**: two sockets of one address meet the cap, an error and a close of one while
  the other lives, and a ban between them; two pending `stop()`. `gateway_live` has one
  socket at a time with the real ratio of authentication and silence deadlines to ticks
  and the real `MAX_MISSED_PONGS`.
* **access**: the cap of pending requests (five in the code) is two, and the third request
  evicts. Two writes under way are enough for one to be overtaken by a change and another.
  One hashing tells a digest from a token. One connection, with two HelloAcks that count.
  A code of the screen's own comes before the first request, or not at all.
* **receiver**: two services are the one with the handle and one before or after it; two
  ports make a restart a change, two identities make a mismatch; two stops overlap; two
  boots give a crash and what it leaves. Two devices with a scope and three calls let one change
  be persisted before another, and an approval hold its list over both.
* **keyboard**: the races are between a call and one other, or a timer; two intervals give
  one that is remembered and one that was overwritten. A combination has a modifier and a
  letter. Three characters are typed in all, and `Batch` (four in the code) is two, so the
  field is below, at and above the batch.
* **pointer**: a finger is at rest or beyond the dead zone; one frame is on the wire before
  another is dispatched (`MaxWire`), two flushes are asked for and two connections succeed
  each other, which is a batch in front of a click, and a drag across a renewal. Click frames
  have each of the four actions. One provider call is under way at a time; nut.js and cliclick.
  The calls of the native backend of the other platforms overtake each other, and the button may
  then stay down: that backend is modelled, and it is not in the run. The theorems hold for
  any number of calls, any wire, and the horizontal scrolls that the run leaves out.
* **clipboard**: two texts, one within the size limit of the sender and one over it, and an
  image; two calls of the controller overlap with local copies; the history's cap is two, so
  the third entry evicts.

`CHECK_DEADLOCK FALSE` is set in all of them because each system really stops at times: a
bounded number of sends, calls or connections has been used, or a process waits for its user.

### Fairness

* `ReliableDelivery`: weak fairness of each armed retry timer (the event loop fires it).
  Nothing is assumed of the network or the gateway; the promise settles all the same.
* `ClientConnection`: the heartbeat interval fires. A socket that the client has abandoned
  or is closing is eventually closed: by the closing handshake, or by the gateway's silence
  watchdog (`SilentGo`, `AnonymousGo` of `WssGateway`). Strong fairness of the backoff's socket
  factory, of the opening of the current socket and of its HelloAck says that the network
  is not down for ever: `Recovers` can promise nothing without it. `DeadLinkNoticed` needs
  the heartbeat only. `KeepsTrying` and `NoSocketAfterDispose` need none.
* `WssGateway`: the watchdog, the second that `close()` waits at most, and the scheduled
  close are timers that nothing clears. The peer is never assumed to close.
* `PointerPath`: the flush that the coalescer asked for is a microtask or a timer of the
  event loop, and runs. Nothing is assumed of the link or of the finger.
* The other models state no fairness and no liveness.

### Findings

1. **Pairing after a restart loses the stored devices** (`sender_restart`): the list in storage
   is read by `ensureManager` only, at the first connect. Until then the home screen has no
   device to connect to, so the first thing a user can do is to pair, and `saveDevice` then
   writes a list made from the empty one in memory over the stored one, against
   `apps/sender/src/App.tsx:5-6` and `connectionStore.ts:5`.
2. **No sender can authenticate** (`access_handshake`): the challenge is consumed by telling
   it, and what is echoed is compared with the blank that is left, against
   `frameRouter.ts:30` and `apps/receiver/tests/networkService.test.ts:222`.

### Configurations beside the runs

These are kept beside the runs, each for a statement of the repository that the code does
not keep. TLC finds each of them violated within seconds.

| cfg | Property | What it shows |
|---|---|---|
| `MCReliableDeliveryOnce.cfg` | `NoDoubleSideEffects` | A retried frame can be applied twice: `seenMids` is forgotten with its session while the retry timer keeps the message id, against `docs/Protocol-Documentation.md:351` |
| `MCClientHeartbeat.cfg` | `HeartbeatPatience` | A client that lost its link once cannot keep another: `missedPongs` (`ClientConnection.ts:528`) is never reset by a new connection, against `docs/Protocol-Documentation.md:341` |
| `MCGatewayStop.cfg` | `StopAcceptsNobody` | A stopping gateway admits sockets (`WssGateway.ts:211`), against the comment at `WssGateway.ts:145` |
| `MCAccessRestart.cfg` | `TokenSurvivesRestart` | No token survives a restart: its digest is loaded as the token (`deviceRegistry.ts:299`), against `apps/sender/src/services/connectionManager.ts:10` |
| `MCAccessPairing.cfg` | `CodeOnScreenWorks` | The code on the pairing screen belongs to no request: `issuePairingCode` (`deviceRegistry.ts:202`) draws one without making a request and returns it ever after, and `requestPair` and `verifyPairingCode` have no caller but the tests, against `PairingScreen.tsx:3` ("A 6-digit code is always valid for the current pairing window"). A request that does come puts its own code there; `NewestRequestWaits` is what the registry then keeps |
| `MCKeyboardHold.cfg` (of `KeyboardController`) | `ReleaseEndsHold` | A key released within its start delay repeats for ever, against `docs/Keyboard-Subsystem-M3b.md:83` |
| `MCKeyboardCodec.cfg` | `EveryFrameDecodes` | A payload above 256 bytes is compressed by `FastCodec` into a form that the gateway's baseline decoder refuses |

`LocalEditWins` of `ClipboardSync` has no configuration: the program never calls
`markLocalClipboardWritten` (`clipboard.ts:158`, `inputService.ts:361`), so any remote write
overwrites a local copy.

### What else the models say about the program

Following every step of the code left some facts in the models that no property is about,
and that a reader of the code may want to know.

* **sender**: the store's connection has no resume credentials and sends no Authenticate, so
  the gateway closes it when its authentication deadline ends. The code typed at pairing
  goes nowhere. Disconnect is followed by a reconnection: the close of a graceful disconnect
  arrives with a code that does not end it. `connectionManager` overwrites
  `connection.events`, so the pin callbacks never run. Connecting to another device leaves
  the old socket open. Nothing calls `dispose`. Settings stored with missing fields come back
  as the least value of their range.
* **receiver**: `mainWindow` is a constant `null`, so no event reaches the dashboard and "Show
  Dashboard" shows nothing. Quit, with close-to-tray set, hides the window and stops the
  service. The tray's Stop keeps the handle. A boot whose start fails leaves `main()` before
  the quit handlers are set. `registry.pending()` has request ids and no device ids, so
  Approve sends `undefined`; `requestPair` and `verifyPairingCode` have no caller; a list that
  `approveDevice` holds would overwrite a newer one, were a request ever pending; after a failed
  start the dashboard says "running"; the registry's path is empty, so
  `persist` writes nothing. `before-quit` does not wait for the stop. A revoked device keeps
  its session ("Revoking a device disconnects it immediately." is on the screen).
* **keyboard**: a key of the grid is pressed and never released. Shift alone and shortcuts of
  a single key are refused. The strip and Enter do not send the buffer first. Caps lock and
  the long press of space cannot be reached. With the native provider of Windows, Control and
  a letter leave Control down; digits have no native code and the letter keys have none on
  nut.js. The factory's default is nut.js whatever is configured.
* **pointer**: a quick scroll on the strip ends in a click, and a long one starts a drag. An
  AuthOk in the middle of a drag makes its end unsent, as `sendInput` wants exactly the state
  "connected". An absolute MouseMove loses its x and y in the coalescer, which sums dx and
  dy. A cliclick backend never holds the button.
* **clipboard**: the sender ignores replies to its queries; Windows doubles backslashes; a
  read on Linux with xclip gives nothing.

## 4. What is proved

The proofs hold for every value of the constants that satisfies the module's assumptions.

* `ReliableDeliveryProofs`: `TypeCorrect`, `NoOrphanedPromise` (`TimerIffWaiting`),
  `ReplayGuardHolds` (`OneRunPerConnection`), `RetriesStayInBudget` (`RetryBudget`) and
  `ImplementsPromise` (the safety part of the refinement of `SendPromise`), for any numbers of
  sends, connections and attempts (two at least). The inductive invariant `IInv` has four
  parts. `TypeOK`. `Bookkeeping`: a pending promise has a timer, what is in the outbox has one
  too, an armed timer has an attempt left, and what is unsent is what `midCounter` has not
  reached; without it a Nack could orphan a send that has left the Map. `Guarded`: what was
  invoked is in `seenMids`. `Witnessed`: an Ack under way has an applied frame behind it, and
  nothing is under way for a send not yet made; the refinement rests on it. Each step of the
  code is then a `Submit`, a `TakeEffect`, a `Settle` or a stutter of `SendPromise`. The budget
  is a sum over the connections. A lemma shows, by induction on their number, that the sum
  moves by what one summand moves; then a transmission adds one to both sides, a delivery
  turns a copy into a run, and `Fresh` says that a send not yet made has made no attempt.
* `WssGatewayProofs`: `SessionsMatchSockets` (`SessionPerSocket`), `CountIsModest`
  (`CountNeverOverstates`) and `TypeCorrect`, for any finite set of sockets, any addresses and
  limits. The first is inductive with the type of `socket`: `close()` keeps the session of a
  socket that is still open and removes any other's, and every other way out of "open" but
  the peer's own close removes the session. `CountInv` adds that each count is at most the
  cardinality of the sockets of its address that have not closed (`Held`); a close removes one
  of them and takes at least one from the count, a ban or an error only lowers the count.
* `KeyboardProofs`, for any keys, calls, intervals, texts and bounds: `PathTypes`
  (`PathTypeOK`), `RepeatsStayStoppable` (`RepeatsAreStoppable`), `ModifiersGoLast`
  (`ModifiersLast`), `ShortcutsEndClean` (`ShortcutsLetGo`) and `TextIsTypedOnce` (`TypedOnce`).
  Repeats: an interval that is armed was not live, so nothing remembered it, and two keys
  never remember the same interval, so a release stops no other key's. Order: a combination
  is ordered once, when its call begins, and a call presses and releases along it
  (`WellFormed`); `PressedStays` says that what it has pressed is down, unless another call let it
  go, so the modifiers in front of its base key are. Shortcuts: `DownAccounted` says that a key that is down is a stray one or is
  among the keys that a shortcut under way has pressed, so when no call is under way only
  the stray ones are left. Text: `TextKept` says that what was handed over, followed by the
  field, is what was wanted, and that the last report the screen has yet to read holds the
  field's text, until an edit meets a text that is being sent.
* `SenderAppProofs`, the connection: `TypeCorrect`, `NeverStuck` (`KeepsTrying`) and
  `DisposeIsFinal` (`NoSocketAfterDispose`). The last is about steps, and needs `DisposedIsIdle`:
  a connection that was disposed of has no backoff timer left, which is what would open a
  socket. The application: `InputGoesToTarget` (`InputReachesTarget`) rests on `UrlOfTarget`: a
  backoff timer dials the address that the connection holds by then, which is that of the
  device shown. `AppTypes` (`AppTypeOK`) adds that the storage serves its calls in order, and
  `ListStaysStored` (`ListIsStored`) rests on that: as long as nothing was `unsure`, a load is
  the last call and has read what is stored (`LoadIsLast`), and with no load under way the last
  write holds the list of the screen (`LastWrite`). `Asleep` is what makes the first connect the
  moment from which this holds.
* `AccessProofs`: `ChallengeToldOnce` (`ToldOnce`) and `RefusalIsFinal` (`RefusalEnds`) of the
  handshake; `RevocationIsFinal` (`RevokedStayOut`) and `NoRequestIsLost` (`NewestRequestWaits`) of
  the registry. `RegInv` adds what each of these rests on: a request that is pending was drawn
  and is not decided yet, so that approving it brings nothing revoked back, and revoking a device
  takes no token from a request. `TypeCorrect` adds
  that no request is pending twice, without which an eviction would not make room.
* `PointerProofs`, for any distances, frames of the screens' buttons and bounds:
  `TypeCorrect`, `ClickKeepsPlace` (`ClickInPlace`) and `ButtonIsHeld` (`ButtonHeldForADrag`). The
  coalescer owes what its batch holds (`CoalescerInv`): a flush in front of a click pays all of
  it, frame by frame (`DebtSteps`, by induction on the frames), so every frame on the wire is
  in its place. `DragInv`: unless `excused`, each drag's start on the wire, and the drag that the
  controller has begun, has an end behind it or a finger that still makes one. `ButtonInv`
  hands this on to nut.js: a "down" among its calls has an "up" behind it, and clicks, whose
  calls are short (a double one's second half goes to the end), change neither. The attempt found
  the model's history `excused` reset too early, by the end of one drag with the start of the
  next behind it; TLC shows that with two frames on the wire, and `DragEndsWell` is what the
  proof needs.
* `ReceiverAppProofs`: `IdentityIsWhole` (`IdentityOnDiskServes`), `HandleReachesService`
  (`NoOrphanService`), `ListIsRegistry` (`ListShowsRegistry`) and `TypeCorrect`. The first two
  are inductive only together: `OneHandle` says that a service that starts or listens has the
  handle, and that none does while a stop waits; so the identity is written by one service at a
  time, and `WholeIdentity` says that it is only written over a certificate that does not parse,
  which is why a crash between the two files leaves none that does. It uses that the states of a
  cut-off file are no identities (`FilesAssumption`). For the list, `PanelInv` follows the last
  change: unless it is being persisted, its answer is on the way with the registry's list, with
  nothing older behind it (`FreshComes`), or what is on the way is current (`AnswersCurrent`) and,
  unless a list was `overtaken`, so are the store's list and every list that is held (`LastWord`).
  `TypeCorrect`
  says among others that no two services listen on one port: a bind takes a port that is free,
  whatever starts and stops overlapped.
* `ClipboardProofs`: `MarkedEditIsKept` (`MarkedEditStays`), `FailedWriteRetries`
  (`FailedWriteMayRetry`) and `TypeCorrect`, for any contents, caps, platforms and numbers of
  overlapping calls.
  `EditIsGuarded` says that while an edit is to be kept the ownership is local with no known
  hash, so that no remote write passes its check, and that what is past its check is a clear, which takes
  the edit along when it takes effect, be it rejected or not;
  `EditWasTold`, that only a controller that is told of edits has one to keep. The types hold
  because every history, in memory, in storage or on its way, has each text once: leaving a
  text out (`Without`, by induction on what it has read) keeps the others distinct, so that
  the one that is put in front is new, and what is over the cap is cut.

The assumptions on the constants are named in the modules that declare them, and TLC
evaluates them in the runs. They say that bounds and limits are numbers, that absent values
(`None`, `NoSocket`, `NoDevice`) are none of the present ones, that a cut-off file is no identity,
that the keys of the screens' grid are keys of the controller, that the pad alone starts and
ends drags, and that a frame of a button is one that the dispatch functions can make. The
lower limits are few: `MaxAckAttempts` is at least two (`AttemptsAssumption`; four in the code),
the registry's cap of pending requests at least one (five in the code), a token is told
from its digest, a pointer path has a connection, and there is a first service. The sockets
of the gateway are a finite set, as their number is counted.

Every invariant and action property of a passing run has a theorem. Liveness is only
model-checked, as it is out of this prover's reach: `SettleEventually` in `KeepsPromise` (the
rest of which is `ImplementsPromise`), `DeadLinkNoticed`, `Recovers`, `AnonymousGo`, `SilentGo`,
`DoomedGo` and `MovesNotStranded`. So are the three facts about the codec and the media keys in
`MCKeyboardPath`, which speak of fixed tables.

## 5. What is not modelled, and why

* The sender's preferences, metrics, logs and views: scalars of which the last write wins,
  statistics, texts and layout. No control depends on them.
* Coordinates: the display layout's scaling (it maps x = 1 to one pixel outside of the
  display), the deltas' sizes and the acceleration.
* The clipboard's cipher, which the program never creates, and the default in-memory store of
  NetworkService, which the receiver never uses.
* Certificates: their generation and the comparison of pins are a library's work. The
  outcome of the pin check is an input of `ClientConnection`.
* The gateway's set of pending sends, beyond the second that `close()` waits for it.
* `storeSession`, the rate limit of the auth store, the `auth` package, the services
  without a caller and the placeholders of the receiver: nothing in the program calls them.
* The composition of a revocation with a session that is live: as no session authenticates
  (finding 2), the states in which its copied permissions are stale cannot be reached.

## 6. Plan

Done: reliable delivery against its abstract promise, with proofs; the client's life; the
sender's application over it; the gateway's bookkeeping; the registry and the handshake; the
receiver's life and its dashboard; the input paths of keyboard, pointer and clipboard, from
the screen to the operating system; proofs of all their safety properties.

Next, in this order:

1. Pure functions against reference definitions over bounded inputs: the windows of the
   metrics, the backoff, the display layout.
2. Abstract specifications of the list of devices in storage and of the clipboard's
   ownership, with their refinements.
3. Once the handshake is repaired: sessions that authenticate, composed with `revoke` and
   `setPermissions`.
