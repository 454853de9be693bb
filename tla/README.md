# Wyze and Eufy cameras: TLA+ models, checks and proofs

This directory is a verification project for the repository: TLA+ modules
translated from the source, TLC configurations that check them on small
instances, and proofs of their main properties for every instance, checked by
TLAPS. `PROJECT.json` names the runs, the source lines of every definition, the
theorems, and the hazards the properties answer to.

## 1. Inventory of the system

The repository holds four programs.

| Part | Source | State it keeps | Operations | Modelled |
|---|---|---|---|---|
| Wyze client library: login and tokens | `src/src/index.js` 24-690 | `access_token`, `refresh_token`, `lastLoginAttempt`, the token file, rate-limit counters | `request`, `_handleRequest` and its retries, `login`, `maybeLogin`, `refreshToken`, `_persistTokens`, `_loadPersistedTokens`, the 48 h refresh interval | **WyzeLogin**, **WyzeTokens** (not `_checkRateLimit`, nor the interval) |
| Wyze client library: stream information and snapshots | `src/src/index.js` 2403-2969 | caches of stream information and of snapshots | `getCameraWebRTCConnectionInfo` (with reconnect), `cameraGetStreamInfo`, `cameraCaptureSnapshot`, `getCameraSnapshotImage`, `clearCameraStreamCache` | **WyzeStreamCache** |
| Wyze client library: device commands | `src/src/index.js` 679-2400, 2970-3211 | none but the token | commands of one or two requests each, methods that read | commands: **WyzeDevices**; reading methods are not modelled |
| WebRTC frame capture | `src/src/cameraStreamCapture.js` | one peer connection, one ffmpeg, deadlines | `captureStreamFrame` | **CaptureFrame** |
| Signing, payloads, Roku login | `src/src/{crypto,payloadFactory,rokuAuth,util,types}.js` | none | pure functions and one HTTP exchange | not modelled |
| Eufy viewer: live sessions and snapshots | `src/eufy/server.js` 70-86, 424-693, 855-885, 937-957 | `sessions`, `pendingSnapshots`, the camera's livestream, ffmpeg children | `startSession`, `stopSession`, `refreshSnapshot`, the library's livestream events, `captureSnapshotFromStream` | **EufyStreams** |
| Eufy viewer: auto-snapshot schedule | `src/eufy/server.js` 87-103, 185-247, 901-927 | `autoSnapMinutes`, `autoSnapTimers`, `autosnap.json` | `setAutoSnap`, `startAllAutoSnapTimers`, load and save | **EufyAutoSnap** |
| Eufy login and its pages | `src/eufy/server.js` 249-378, 759-792, both `viewer.html` | `auth`, `loginFailTimer`, each page's poll loop and banner signature | challenge events, `submitAuthCode`, status polls, the failure timer | **EufyAuth** |
| Eufy detection events | `src/eufy/server.js` 105-180, 412-422, 735-757 | `sseClients`, `snapshotCache` | `broadcastEvent`, `saveSnapshot`, subscribe, close | **EufyTile** |
| Dashboard server | `src/cam-frontend/server.js` | WebSocket pairs, proxied requests | `proxyToEufy`, the WebSocket proxy, `/api/*` | the WebSocket proxy: **EufyLive**; `/api/events`: **BrowserAlerts**; the other routes hand on one call and keep no state |
| Dashboard page | `src/cam-frontend/public/viewer.html` | tiles, `StreamSession`, `EufyStreamSession`, poll loops | start, stop, auto-start, auto-capture, thumbnails, loading of tiles | **DashboardTile**, **EufyTile**; the connections of its Eufy tiles: **EufyLive**; the polling of Wyze events: **BrowserAlerts**; its login banner is in EufyAuth |
| Eufy page, examples, Docker files | `src/eufy/public/viewer.html`, `src/example`, ... | | | its login form is in EufyAuth; the rest is not modelled |

How they interact. The dashboard page calls the dashboard server, which uses the
Wyze library in process and proxies `/api/eufy/*` and the `/eufy/stream`
WebSocket to the Eufy viewer; the Eufy viewer drives the cameras through the
external library `eufy-security-client`, whose events (`connect`, `close`,
`captcha request`, `station livestream start`, ...) arrive between any two
awaits. All programs are single-threaded Node.js: code between two awaits is
atomic, and the interleavings are those of awaits, timers, events and sockets.

What is hard. Maps keyed by camera serial are read, awaited on, and written
after the await (sessions, pending snapshots); one promise is shared by several
callers and settled from a timer, an event or a rejection; close events arrive
after the thing they belong to was replaced; timers must be cleared on every path
or the camera's battery drains; a file is rewritten without serialisation; the
token is refreshed by whichever request fails first, while others are in flight;
a cache is cleared and filled by calls that know nothing of each other; a socket is
abandoned while its partner on the other side of a proxy is still connecting; polls
of one page overlap and answer out of order.

What makes each part correct. Sessions: a viewer's leaving stops its own stream only, a
camera that streams has somebody who will stop it, every snapshot request is answered.
Schedule: one timer per camera, at the interval in force, restored after a restart.
Login: the pending captcha is the latest and is shown, no attempt spins for ever.
Client: a caller that asks for a login gets a token or an error, logins are spaced, a
retry happens once and with the newest token. Cache: what is served is of the camera
asked for and within its lifetime, and nobody fetches what is there to be shared. Proxy:
either side's end is the other's. Alerts: each event is notified once, and none is lost.

## 2. Plan

Order, most important first; each module is written with CONSTANT parameters and
named assumptions, one action per operation, no RECURSIVE operator.

1. **EufyStreams** (done), proofs in **EufyStreamsProofs** (done).
2. **EufyAutoSnap** (done), proofs in **EufyAutoSnapProofs** (done).
3. **EufyAuth** (done), proofs in **LoginProofs** (done).
4. **WyzeLogin** (done), proofs in **LoginProofs** (done). An abstract gate that lets
   one login through per interval was planned and dropped, as WyzeLogin does not
   refine it: two callers that wake together both log in (`src/src/index.js:438`).
5. **WyzeTokens** (done), proofs in **WyzeClientProofs** (done). Left to prove: the
   bound on the attempts of one request.
6. **WyzeStreamCache** (done), proofs in **WyzeClientProofs** (done).
7. **CapturePromise** and **CaptureFrame** (done), proofs and refinement in
   **CaptureFrameProofs** (done).
8. **EufyLive** (done): page, WebSocket proxy and EufyStreams composed, with the
   refinement to EufyStreams in **EufyStreamsProofs** (done). It takes the place of
   the WsProxy planned at first, as the proxy's sockets matter for what they keep
   streaming.
9. **DashboardTile** (done), proofs in **DashboardTileProofs** (done).
10. **EufyTile** (done), proofs in **PageEventsProofs** (done).
11. **BrowserAlerts** (done), proofs in **PageEventsProofs** (done).
12. **WyzeDevices** (done), proofs in **WyzeDevicesProofs** (done).

A module of proofs is about one part of the system: what logs in (LoginProofs), what the
Wyze client keeps (WyzeClientProofs), what the dashboard page learns from events
(PageEventsProofs). Where it extends two components, the definitions that both would
name `Init`, `Next`, `Spec` or `TypeOK` carry the component's name in one of them:
`AuthSpec`, `CacheSpec`, `AlertsSpec`.

## 3. Modules and how they correspond to the code

### EufyStreams

One camera: every Map of the server is keyed by the serial and no handler touches
two cameras, so cameras do not interact. Sessions are identified with the viewer
(WebSocket) they were created for; a refresh with the caller that created its
`pendingSnapshots` entry, its *owner*.

- State: the `sessions` and `pendingSnapshots` entries of the camera, the phase of
  each viewer's `startSession` and of each caller's `refreshSnapshot`, the 15 s
  timeouts armed, captures in progress, ffmpeg children, whether the camera
  streams, whether the cloud is connected, whether the process is up.
- Actions: `ViewerConnects`/`SessionStored`/`StreamRequested`/`StreamRefused` are
  the pieces of `startSession` between its awaits; `ViewerCloses` and
  `FfmpegExits` the close handlers that call `stopSession`; `RefreshSnapshot`,
  `RefreshAccepted`, `RefreshRefused`, `RefreshTimesOut` the pieces of
  `refreshSnapshot`; `LivestreamStarts` the whole handler of "station livestream
  start" with its three branches (a pending snapshot, a session, nobody);
  `CaptureOutcome` and `CaptureEnds` the settling and the `finally` of
  `captureSnapshotFromStream`.
- A promise that is rejected while nothing awaits it ends the process (`Unhandled`
  lowers `up`): Node's default for unhandled rejections. So does an ffmpeg that cannot
  be spawned, as nothing listens to its "error" (`startFfmpeg`).
- Abstractions: a stop takes effect when it is called, or not at all while the
  camera is still starting; a rejected start has had no effect on the camera; two
  ffmpeg children of one session count as one; video data is absent. SIGINT's
  shutdown loop is not modelled.

### EufyLive

The path of a livestream for one camera: a tile of the dashboard page, the proxy of
`src/cam-frontend/server.js`, and EufyStreams. A viewer of EufyStreams is one
attempt of a tile to stream: `page[v]` says what the tile holds of it, `client[v]` and
`upstream[v]` are the proxy's two sockets for it. The Eufy server's own socket is that
of EufyStreams: `ViewerConnects` and `ViewerCloses` of EufyStreams happen when the
upstream handshake is accepted and when its close arrives, not at any time as they do
there; all other actions are EufyStreams's own. `ws.close()` is modelled by state: a
socket that is connecting is aborted, an open one begins a close handshake. The death of
the Eufy server closes its sockets.

Abstractions: a start of a tile is `stop()` and a new player in one step; what is
relayed is absent, because no decision depends on it. mpegts.js is external: it
closes its socket when the player is destroyed. At a close from the other side it
reports the end of loading, to which the tile does not listen (it does to errors,
`viewer.html:1469`): a tile whose connection was closed (`Lost`) keeps its player until
the user stops or restarts it, so no action of the page follows.

### EufyAutoSnap

`minutes` is `autoSnapMinutes`, `handle` is `autoSnapTimers`, `live` counts the
intervals Node actually runs, so that a handle overwritten without
`clearInterval` shows as a leak. `writes` are the `fs.writeFile` calls in flight;
each lands, or fails and is logged (`failed`), in the order begun or, if
`Reorders`, in any. `Exits` is SIGINT as well as a crash: a write in flight has
landed, not happened, or left half a file (`Torn`), which `loadAutoSnapConfig`
refuses to parse. What a tick does is `EufyStreams!RefreshSnapshot`.

### EufyAuth

The `auth` object, the failure timer, the cloud's events, and pages that poll,
render and post. A captcha is the number under which the cloud issued it; its
image is the number it depicts, so that an image and an id can disagree. A page
holds the set of status answers on their way to it, hence answers may overtake
each other. The dashboard's banner (a page in `Dashboard`) renders only an answer
whose signature differs. Assumed of the cloud: it challenges only a connection
not yet made. Assumed of the user: a page is reloaded only when it reports an
error or has stopped polling.

### WyzeLogin

`maybeLogin` and the functions only it calls, in discrete time. Times are kept
relative to the present (`age`, `since`) so that states recur: `lastLoginAttempt`
is `age`, a caller's `now` is `since[c]`, and ages above twelve hours are one
value, `Far`. `LoadFindsNothing` is the stretch from the end of the file read to
the next await: return, log in, or wait; `Wake` one turn of the wait loop and what
follows it up to the end of `maybeLogin`. Sleeps are taken to end punctually, to
the unit of time. `updateDebounceAndLogin` is not awaited: its login is counted
in `logins`, and its failure, an unhandled rejection, ends the process. Between
`LoginAccepted` and `LoginSaved` there is a token whose file is being written; if that
fails, `LoginFails` throws and the token stays.

### WyzeTokens

Pairs of tokens are numbers in the order of issue; a request carries the token it
was sent with (`tok`) and a stack of `refreshToken` calls (`frames`), because a
refusal with code 2001 of the refresh request itself calls `refreshToken` again
from within. Actions are the stretches between awaits: `Loaded`, `Waited`,
`LoginAccepted`, `LoginRefused` (a login answered with code 2001, which refreshes and
then throws), `LoginFails`, `Send`, the four outcomes of a request, `Retry`, the outcomes
of a refresh attempt, `Saved` and `SaveFails`. `AttemptFails` is the `catch` of
`refreshToken`'s loop, applied from the innermost call outwards.

Abstractions: the two tries of one file write are one outcome; when the debounce
lets a login through is left open (WyzeLogin times it); a reader of the file while
it is being written may find it torn; the reading of `NestedRefusal` and
`RefreshDies` is up to the cloud, so they are constants. `Restart` stands for a
restart of the process and for the unhandled rejection of the login that
`maybeLogin` does not await; the refresh that such a login may make when it is answered
with code 2001 is left out. Bounds: the last of `MaxPairs` pairs is issued again and does
not expire; refreshes nest to `MaxDepth`, where the code has no bound. What the liveness
properties say ends there: `NestsDeep` is their exception.

### WyzeStreamCache

The two caches of the client and the calls that use them. `Wanted` is a key
(`_streamCacheKey`: the camera and whether the substream is asked for). `streams[k]`
holds stream information with its age and the time it has left, `photos[m]` the time
left to a picture. `call[c].at` is the await at which a call stands: listing devices for
the model, the fetch and, after it, the answer held back by the rate limit (`issued`;
`index.js:2441`), the capture, the download, the pause between two attempts of
`getCameraWebRTCConnectionInfoWithReconnect`. `Tick` is one unit of time, which shortens
every entry and ages what is under way. `lease[k]` is history: for how long information
that callers were given to share ought still to be shared; `spoiled` marks information
whose camera was cleared meanwhile.

Abstractions: stream information is its key and its age; a lifetime is a few units of
time; back-offs take any time; which attempts fail is open; a caller asks again as often
as it likes. A picture is only the time left to it.

### WyzeDevices

A command is the sequence of requests its method makes; `Commands` lists, for each
kind of device, those of the methods of `src/index.js` that set something, by the
name of the method that sends them (`setProperty`, `runAction`, `runActionList`,
`controlLock`, `setIotProp`, `vacuumControl`, ...). A request says which channel it
takes and what the device then takes over; `"flip"` is the garage door, which has one
action for open and close. `setHMSState("off")` is two requests, a local bulb's is
one to the bulb and, if that answers with an HTTP error, one to the cloud.
`runActionList` sends `P3 = 1` along, so a brightness turns the light on. Calls made
at once share the token. Per call, `at` says where its current request stands:
in `maybeLogin`, sent, answered (`ran`, `refused`, `limited`, `failed`), in the
refresh, waiting to retry, ended. Only the `api` channel looks at answers
(`Refused`, `Resume`, `Retry`, `Failed`); the services of locks, switches,
thermostats, irrigation, alarm and vacuums return or throw (`Unchecked`).

Abstractions: how a token is obtained is left to WyzeLogin and WyzeTokens, here a
login or refresh leaves one that is good or stale, or none; the pauses of
`_checkRateLimit` and of the rate limit are time passing between two steps. Of a
parameter two values are enough to tell whose command won. Methods that only read,
the vacuum's event tracking and the rooms of a vacuum's sweep are left out.

Read, not run: `setMeshHue` and `setMeshSaturation` send the same property, P1507
(`src/index.js:3104`, `:3120`), though `README.md:297` lists them as two settings.

### CapturePromise and CaptureFrame

`CapturePromise` is what a caller of `captureStreamFrame` is promised: each call
settles once, with a frame or an error, unless the process ends. `CaptureFrame` is
the function: `call[c].at` is the await at which a call stands (the port lookup,
the offer, and the three `Promise.race`s), the other fields are the WebSocket, the
ffmpeg child, the promises `ffmpegOutcome` and `remoteAnswered`, the timeout, and
what `cleanup()` has to release (`held`). An event changes one field and the call
then runs to its next await (`RunOn`), through `cleanup()` if it ends. A promise
that rejects before anything awaits it (`heard`) ends the process, and with it
every other call: that is how calls interact. So does an error of the forwarding socket,
to which nothing listens (`ForwardFails`).

Abstractions: an event and the microtasks it causes are one step; an answer is
applied in the step in which it arrives; "error" and the "close" that follows it
are one event; `createOffer` is assumed to settle; ffmpeg delivers a frame only
after the offer was sent.

### DashboardTile

`StreamSession` of one online Wyze camera. A member of `Starts` is a call of
`start()`, the peer connection and socket it makes, and its session token: tokens
are only compared for equality, and every `start()` and `stop()` takes a new one,
so `current` is the start whose token is in force, or none after a `stop()`.
`this.pc` and `this.ws` are set and cleared together: `held`. `Fetched` and
`FetchFails` are the two ends of the fetch in `start()`, `WaitTimesOut` that of
`_waitForStartResult`; the other actions are the handlers that `_connect` sets up,
each of them of one connection, which may no longer be the one held. Starts come
from the button, which may be disabled, from the loops of Start All and auto-start,
which do not look at it, and from the retry timer. `StateChanges` is
`onconnectionstatechange`: it is called for one connection and reads the state of
`this.pc`, which may be another's. `Rebuild` is what Refresh does to the tile.
`overlapped` records which starts fetched at the same time.

Abstractions: making an offer and sending it is one step; a `RTCPeerConnection`
that cannot be constructed counts as a failed fetch; what fails in `_connect` after that
(`ConnectFails`) is modelled only while nothing is held; that a connection recovers after
"disconnected" is not; ICE candidates (but for one that makes the answer fail, in
`Applied`), sound, the microphone (which no control of the page reaches) and offline
tiles are left out.

### EufyTile

One Eufy camera in the dashboard page and the part of the Eufy viewer that feeds
it. An image is the number of the snapshot it shows. `events` are the messages of
the event stream on their way to the page, `image` the thumbnail's request and
then the answer to it, `loads` the camera lists requested, `retry` and `strays`
the retry timers (one that `eufyCamRetry` refers to, and those it has forgotten).
`opener`, `missed` and `failed` are history: who opened the view, whether a snapshot
event was lost since the thumbnail was last served, and whether its last load failed.
`ImageArrives` with image 0 is the answer 404, no snapshot yet; `ImageFails` any other
failure, at the proxy or on the way. Both remove the picture. `disarm` is the beginning of
`stop()`, which is the first thing `start()` does.

Abstractions: browsers without MSE, battery events and the auto-snapshot selector
are left out; the Eufy viewer does not restart; Start All and Stop All are clicks. The
camera is one that the Eufy viewer lists: among the first two, or named in
`EUFY_CAMERA_SERIALS` (`server.js:836`); any other has no tile.

### BrowserAlerts

The polling of Wyze events by the dashboard page and the answer of `/api/events`. Events
are numbered in the order in which they happened and a time is the number of events that
have happened, so that `eventsSince` and the times of events compare. `polls` are the
requests under way; an answer is the newest `PageSize` events recorded since the time
asked for. `pollEvents` goes on to `handleEvent` for each event in turn, which may throw
(`new Notification` does on some platforms) after the event was put in `seenEvents`; the
rest of the answer is then lost until the next poll. `asking` are clicks on the button
that await the permission prompt. `shown` counts notifications per event across reloads;
`begun` is the time from which the page promised to tell.

Abstractions: the browser's clock agrees with the cameras'; no two events have the
same time; a toast counts as a notification; the text of an event is left out.

## 4. Runs

Every run finishes within seconds to a minute and a half on two workers.

| Run | Instance | Checks |
|---|---|---|
| `streams` | 2 viewers, 2 callers, calls and stops may fail | `PendingIsLive`, `OwnersAreTimed`, `RefreshAnswered` |
| `eufy_live` | 2 streaming attempts through the proxy, 1 snapshot caller, start calls may fail | `AwakeHasConsumer`, `CameraSleepsUnwatched`, `AbandonedCloses`, `CloseReachesPlayer` |
| `autosnap` | 2 cameras, 2 of 5 intervals, 3 writes in flight, in order | `OneTimer`, `PolledAsConfigured`, `SavedWhenQuiet` |
| `auth` | 1 page of the Eufy viewer, 2 captchas, 2 polls in flight, drops | `LatestCaptchaKept`, `AttemptIsTimed`, `NoEndlessSpin`, `PageShowsCaptcha` |
| `login` | 2 callers, debounce 1 to 4, reset after 12, naps of 2 | `CallReturns`, `NoLoginWithToken`, `ResetOnlyAfterRest` |
| `tokens` | 1 request at a time beside a login nobody awaits, 3 pairs, nesting 3, refresh tokens stay good | `PairHeld`, `RequestEnds`, `Recovers` |
| `devices` | 2 calls of any 2 commands of one device, every kind of device, logging on | `OkIsDone`, `RunsOnce` |
| `cache` | 2 callers, 1 camera with 2 streams, lifetime 2 (pictures 1), answers held back by 1, 3 attempts | `ServedIsFresh`, `OneFetchPerLifetime` |
| `capture` | 2 calls in one process | `EndsInOrder`, `WaitsAreLive`, `LateFailuresContained`, `KeepsPromise` |
| `tile` | 3 starts | `LiveIsCurrent`, `StrayNeedsOverlap`, `StoppedStaysStopped`, `StartsReturn` |
| `eufy_tile` | 2 snapshots, 2 events and 2 lists on their way, 2 subscriptions | `AutoAloneIsTimed`, `ThumbIsLatest`, `TileAppears` |
| `alerts` | 3 events recorded in order, 2 per answer, 2 polls under way, 2 clicks at the prompt | `NotifiedOnce`, `TimersAsShown`, `NoneSkipped`, `NothingMissed`, `SinceOnlyGrows` |

The type invariants are not in this table: they are proved (section 5), for these
instances and all others.

What some of them say. `RefreshAnswered`: every request for a snapshot is answered,
whoever overlaps it, but for callers that joined an owner whose start call was rejected
(`JoinedAnswered` below). `AwakeHasConsumer`: until the start call of a viewer is
rejected, a streaming camera has a session or a capture (`AwakeAfterRefusal` below).
`CameraSleepsUnwatched`: a camera that nobody watches any more is stopped at last,
unless one viewer took a session over from another (see `CameraAlwaysSleeps` below for
that case) or was rejected; `AbandonedCloses`: the Eufy server's side of an abandoned
attempt comes to be closed, or is never made, whatever the handshake was doing;
`CloseReachesPlayer`: when the Eufy server closes a session or dies, the player's
connection is closed (what the tile then shows is another matter: `TileNotices` below).
Attempts are made and let go of once, so both say what holds from some time on.
`RequestEnds` and `Recovers`: but for a request whose refreshes nest three deep, which
the code lets go on for as long as the cloud answers 2001. `LiveIsCurrent`: Live is
shown over lost video only if an overlapping start has taken `this.pc` (`LiveHasVideo`
below). `ThumbIsLatest`: an older thumbnail is shown only after a lost event, none only
after a load that failed (`ThumbReloads` below). `OneFetchPerLifetime`: while
information fetched to be shared has time left, no caller who accepts shared information
sends a request for it; that includes a caller that went to sleep in its back-off before
the fetch and wakes after it. `AttemptIsTimed`: a page is told "connecting" only while
the failure timer runs, or after a dropped connection, which the library mends by
itself; `NoEndlessSpin` is the liveness that rests on it. `SinceOnlyGrows`: an answer
handled after those of later polls does not move `eventsSince` back.

Why the bounds suffice. Two viewers give every take-over and every late close; two
callers give an owner and one that joins it, or one that comes after a timeout while the
capture of the first is still running, with an entry of its own. Two viewers with three
callers are too many for a run of minutes; `Viewers = {v1}` and `Refreshers = {r1, r2,
r3}` pass in the same configuration, and the two invariants are proved for any number.
Each viewer and caller is used once: a viewer that returns is a new WebSocket, a caller
that returns a new promise. `MaxCaptures` bounds captures that run at once. Two cameras
suffice for a schedule because nothing relates cameras but the file. Two captchas give a
replaced one; two polls in flight give overtaking. Three pairs give one that expires,
one that replaces it and one obtained meanwhile by the stray login. Three nested
refreshes give one that fails two others. Two callers of `maybeLogin` give one that
waits while another logs in; the times are scaled so that the debounce passes its
initial value, doubles twice, meets its ceiling, and a rest longer than the reset is
reached. Two captures give one that ends the process under the other; they share nothing
else. Three starts of a tile give two that overlap and one that replaces both, or one
with its retry and a start by hand. Two snapshots give an older image on its way when a
newer one is saved; `MaxQueue`, `MaxLoads` and `MaxClients` bound what is on its way,
two of each giving overlap (subscriptions end at `MaxClients`, which stands for any time
later). Two calls of commands give one that retries or waits while the other sets the
same settings; more calls only share the token, which any one call may clear, renew or
find stale. Two callers of the stream cache give one that fills while the other waits,
bypasses or clears; keys share nothing but the clearing of a camera, which has two
streams. Three attempts give one back-off after a bypass and one after a failure. Three
events and answers of two give one that crowds another out; two polls give one that
overtakes the other. Two attempts to stream give a restart of a tile, or two tiles of
one camera.

Deadlock is checked where the modelled program never stops (EufyAutoSnap, EufyAuth,
WyzeTokens, WyzeStreamCache, BrowserAlerts). It is not in EufyStreams and EufyLive,
where viewers and callers run out and the process may die; in WyzeLogin and
CaptureFrame, where the process may die, and the calls of CaptureFrame run out; in
WyzeDevices, whose calls do; in DashboardTile, whose starts do; and in EufyTile, whose
snapshots and subscriptions do.

Fairness. `FairSpec` of EufyStreams: timers fire, a promise of the library that does
settle is delivered, ffmpeg's events come. None on viewers or cloud. `AuthFairSpec` of
EufyAuth: the 5 s timer, the poll timers, HTTP answers and `connect()` settling; none on
cloud, reload or submit. These are the guarantees of Node's event loop and of loopback
HTTP; liveness of EufyStreams is stated up to the death of the process. WyzeLogin: time
passes, files are read, logins are answered, timers fire. WyzeTokens: calls return and
the callers ask again (weak fairness of a request's steps); a cloud asked again and
again answers at last with what the token deserves (strong fairness of the served
outcomes only, as a cloud that never answers would leave nothing to recover with).
CaptureFrame: the port and offer promises settle, timers fire, sockets told to close do,
a killed child ends; nothing is assumed of the camera. DashboardTile: the dashboard
server answers or its request fails, and timers fire. EufyTile: timers fire, events
arrive, images arrive or fail, and a list asked for again and again is answered with the
cameras at last (strong fairness of `CamerasAnswered`: the cloud session comes up).
EufyLive: that of EufyStreams, and sockets do what they were told (a handshake ends, a
close arrives on either side); none on the page. BrowserAlerts: intervals fire, polls
are answered or fail, and a server that is asked again and again answers at last (strong
fairness of its answer). WyzeStreamCache states no liveness: its calls wait on the cloud
only.

### Further counterexamples

Besides the runs, these configurations make TLC exhibit behaviour of the code that
a reader should know of: `tlc -config MCEufyStreams_overlaps.cfg MCEufyStreams.tla`
and so on. A configuration with several properties is stopped by the first that TLC
finds violated; to see another, leave only that one in.

Eufy viewer, `src/eufy/server.js`:

- `MCEufyStreams_overlaps`, `SnapshotSparesViewer`: a snapshot pending when a viewer
  starts takes the livestream, then stops it under the viewer (`:443`).
- `MCEufyStreams_overlaps`, `LeavingEndsOwnSession`: a replaced viewer's close event
  stops its successor (`:953`), although `:664` says that the second "takes over".
- `MCEufyStreams_overlaps`, `SessionIsOpen`: a viewer that leaves while its
  `startSession` awaits the stop of the previous session leaves a session with a closed
  socket (`:668`).
- `MCEufyStreams_overlaps`, `OneFfmpeg`: two overlapping take-overs leave an ffmpeg
  child that no entry refers to (`:668`).
- `MCEufyStreams_overlaps`, `SingleWake`: a capture that ends after its refresh timed
  out deletes the next refresh's entry, and a third caller wakes the camera again
  (`:442`).
- `MCEufyStreams_refused`, `AwakeAfterRefusal`: a refused start deletes the session of a
  viewer that took over meanwhile; the camera streams for nobody (`:680`).
- `MCEufyStreams_refused`, `JoinedAnswered`: callers that joined a pending snapshot are
  never answered when the owner's start call rejects: the `catch` rethrows to the owner
  and leaves the shared promise unsettled, its timeout cleared (`:657`).
- `MCEufyLive_odd`, `CameraAlwaysSleeps` and `PlayerIsServed`: a tile is restarted; the
  abandoned connection is accepted by the Eufy server after its successor's, takes the
  session over and closes it, and the new player stays dark, or the camera streams on
  for nobody (`cam-frontend/server.js:389`, `:668`).
- `MCEufyLive_odd`, `TileNotices`: a session that the Eufy server ended, or whose server
  died, is closed cleanly at the player; the tile listens to errors only and keeps its
  last picture (`cam-frontend/public/viewer.html:1469`).
- `MCEufyAutoSnap_reordered`: the older of two quick changes stays on disk (`:201`).
- `MCEufyAuth_odd`, `AnswerMatchesImage`: an answer read from one captcha is checked
  against the id of a later one (`:291`).
- `MCEufyAuth_odd`, `ReloadRetries`: reloading after a failed login does not retry
  (`:281`).
- `MCEufyAuth_odd`, `PageShowsCaptcha`: the dashboard's banner never shows a captcha
  re-issued while one is shown, because its signature is status and message only
  (`cam-frontend/public/viewer.html:1692`), although line 1772 there polls on for just
  that.

Wyze client, `src/src/index.js`:

- `MCWyzeLogin_tokenless`: `maybeLogin` returns without a token after a wait, because
  `updateDebounceAndLogin` is not awaited (`:445`), although `understand.md:184` says
  that it guarantees one.
- `MCWyzeTokens_odd`, `Recovers`: once the refresh token is dead as well, the client
  loads the dead pair from its file for every request and never logs in with the
  password again (`:423`), although the comment at `:417` says that it does when the
  token is "missing or expired".
- `MCWyzeTokens_odd`, `RefreshNotNested`: a refresh refused with code 2001 calls
  `refreshToken` within `refreshToken` (`:353`).
- `MCWyzeDevices_odd`, `EveryOkIsDone`: a service's refusal in the body of an answer is
  returned like a success: an alarm is not armed and nobody is told (`:1117`). With
  `Kinds = {"light"}`: a bulb that cannot be reached is logged, and the command returns
  as if done (`:1558`).
- `MCWyzeDevices_odd`, `ServedReturns`: with `apiLogEnabled` the irrigation methods call
  `this.log`, an object, and throw after the sprinkler was started (`:1384`).
- `MCWyzeDevices_odd`, `RetryOverridesNone`: a command that waited out a rate limit is
  sent ten minutes later over one made meanwhile (`:151`).
- `MCWyzeStreamCache_odd`, `OneCapture`: rapid callers do not "share one capture"
  (`:2639`): the cache is filled when the capture ends, so those that ask meanwhile
  capture too.
- `MCWyzeStreamCache_odd`, `NoCacheOverwrites`: a snapshot with `noCache` is not stored,
  although `:2645` says "bypass and overwrite"; later readers get the older picture
  (`:2671`).
- `MCWyzeStreamCache_odd`, `ClearedStaysCleared`: a fetch in flight when the cache is
  cleared stores its answer afterwards (`:2960`).
- `MCWyzeStreamCache_odd`, `OwnTtlKept` and `OneFetchPerLifetime` with two lifetimes: a
  caller is served what another gave longer to, and an entry is replaced by a
  shorter-lived one (`:2885`).
- `MCCaptureFrame_crash`: ffmpeg's failure while the socket connects makes `cleanup()`
  abort the socket, whose error rejects `remoteAnswered`, which nothing awaits yet: the
  process ends (`cameraStreamCapture.js:218`), although `:182` there promises otherwise.

Dashboard page, `src/cam-frontend/public/viewer.html`:

- `MCDashboardTile_odd`, `OpenIsHeld`: two starts fetch at once, and the second
  connection replaces the first without closing it (`:608`).
- `MCDashboardTile_odd`, `RemovedIsQuiet`: a tile that Refresh removed while it fetched
  connects all the same, and no control reaches it (`:608`).
- `MCDashboardTile_odd`, `ButtonComesBack`: the socket closes before an answer and the
  Start button stays disabled (`:809`).
- `MCDashboardTile_odd`, `LiveHasVideo`: after overlapping starts the current session's
  video is lost, the handler reads the state of the other connection, in `this.pc`, and
  the badge stays Live (`:709`).
- `MCEufyTile_odd`, `ThumbReloads`: a load of the thumbnail that fails for whatever reason
  removes it, and nothing loads it again until the next event (`:1377`).
- `MCEufyTile_odd`, `NeverBlank`: such a failure leaves the overlay hidden where a picture
  was shown, so that the tile shows neither (`:1377`).
- `MCEufyTile_odd`, `ThumbCatchesUp`: an event lost while the stream is down leaves an
  old thumbnail (`:1780`).
- `MCEufyTile_odd`, `LiveIsVisible`: a refresh of the thumbnail that fails covers a live
  view that a detection opened meanwhile (`:1434`).
- `MCEufyTile_odd`, `OneClient`: each reconnect of the event stream leaves a client
  behind in the Eufy viewer, as the proxy does not abort its request
  (`cam-frontend/server.js:91`).
- `MCEufyTile_odd`, `TileComesInTheEnd`: a list that fails with anything but 503 is
  never asked for again (`:1660`).
- `MCBrowserAlerts_odd`, `SeenIsShown`: an event whose notification throws is remembered
  and never shown (`:1229`).
- `MCBrowserAlerts_odd`, `OffIsQuiet`: an answer that arrives after the button said OFF
  is shown.
- `MCBrowserAlerts_odd`, `OnlyNew`: a poll sent before alerts were switched off and on
  again is answered afterwards, with events from before that were never shown.
- `MCBrowserAlerts_odd`, `NothingCrowdedOut`: more events between two polls than an
  answer holds, and the oldest are never shown (`cam-frontend/server.js:298`).
- `MCBrowserAlerts_polls` with `InOrder = FALSE`, `NoneSkipped`: an event recorded late
  lies behind `eventsSince` and is never asked for.

## 5. Proofs

Each `...Proofs` module extends the modules it is about; every theorem is for any
sets of viewers, callers, requests, cameras and intervals and any times, under the
named assumptions of the modules only, but for the hypotheses that are named here. All
safety properties that the runs check are proved.

- EufyStreams: the invariants of the snapshot protocol are inductive together
  with two facts about owners (an owner's phase says whether its timer is armed
  and whether its promise is settled), see `RefreshInvariant`; from it follow
  `PendingIsLive` and `OwnersAreTimed` with calls failing at
  will. `CameraAccountedFor` proves `AwakeHasConsumer` with start calls failing at will,
  for stops that do not fail; that it ends at the rejection of a viewer's start call is
  in the property, and `MCEufyStreams_refused.cfg` shows it to be needed.
- EufyLive: `LiveImplementsStreams` shows that every step of the composition is a step
  of EufyStreams or none, so that its theorems hold behind the proxy too
  (`LiveCameraAccountedFor`); `LiveIsTyped` types the sockets.
- EufyAutoSnap: the live timers are a function of the handles
  (`LiveIsTimers`), and a handle is the interval in force or none
  (`HandleIsInterval`); `OneTimer` and `PolledAsConfigured`
  follow. `QuietScheduleIsSaved` rests on `LatestIsOnItsWay`: the last of the
  writes in flight carries the schedule in force.
- WyzeTokens: `PairHeld` is inductive by itself: every writer sets both tokens
  or clears the access token. `TypeOK` is not: a pair being written reaches the file,
  so `TokensInv` adds that it was issued, and that nested refreshes unwind in order.
- WyzeDevices: `RunsOnce` follows from `UnexecutedUntilRan`: a request that may
  still be sent, one waiting for its retry included, has not been executed. `OkIsDone` rests
  on `CommandShape`, that a command of `request()` is one request, on where each call
  stands in its command (`DevicesInv`), and on what holds between execution and answer
  (`RanIsDone`). `DevicesTypeOK` needs `KindsAssumption`, that `Commands` knows every kind.
- WyzeLogin: `DebounceBounded` proves `TypeOK`, whose hard parts are the ranges: a
  wait outlasts neither the ceiling nor a nap (`WaitsAreBounded`), because the
  debounce never passes its ceiling. `BackOffSurvives` follows from it and from
  `AgeIsNearTruth`: the recorded age of the last login exceeds the true one by
  less than the longest wait. `TokenSparesLogin` needs no invariant but that: a waiter
  looks for a token in the very step in which it logs in.
- EufyAuth: `ServerInv` is about the server alone, which takes from a page only the fact
  that something was posted. `LatestCaptchaKept` and `AttemptIsTimed` are inductive with
  one more fact, that the status says "connected" just when there is a connection
  (`StatusIsConnection`): a submit is refused then, and a timeout or a challenge cannot
  come. `LoginTypes` goes on from the server to its answers and the pages.
- CaptureFrame: `CallInv` relates a call's phase to its fields; each event keeps
  it (`Events`) because running to the next await re-establishes it (`RunsOn`).
  The run's safety properties follow, `CaptureFailuresContained` (of promises; an error
  of the forwarding socket ends the process) because
  `remoteAnswered` is listened to from the offer on, and `CaptureKeepsPromise` shows
  that every step is a step of `CapturePromise` or none.
- WyzeStreamCache: `CacheInv` bounds an entry's age and the time it has left together,
  by the longest lifetime and the lag of an answer (`EntryOK`), and says of what stream,
  and how old, what a call holds is (`CallOK`). `ServedFresh` follows. `LeaseInv` says
  that what ought to be shared is there for as long as it ought to be; it is inductive
  only if every caller gives the same lifetime, so that a later store never shortens an
  earlier one. `FetchedOncePerLifetime` is under that hypothesis (`StreamTtls = {t}`), and
  `MCWyzeStreamCache_odd.cfg` shows that it fails without it.
- BrowserAlerts: `DataSteps` sorts the steps by what they do to the events. `TimesOK`
  says that no poll asks from a later time than `eventsSince`, and that an answer holds
  only what is later than its poll asked for; from it follows `AskedEverLater`.
  `NotifiedOnce` needs to know where a notified event is (`ShownOnce`): in `seenEvents`,
  or, after a reload forgot it, behind every poll under way. `NoneSkipped` needs what an
  answer under way owes (`NoGap`): an event between its poll's time and the latest it
  brings is in it or crowded out. That holds if events are recorded in order, the hypothesis
  `InOrder` of `InOrderNoneSkipped`; with `InOrder = FALSE` TLC shows an event passed.
  `OneIntervalAtMost` is inductive by itself with the flag's type.
- DashboardTile: `TileInv` adds to the properties that every connection was made
  once by a start that fetched, that the sockets of a fresh one are connecting, and
  that starts which fetch together are recorded as such; `stop()` then leaves
  nothing open but what overlapped. `LiveIsCurrent` needs that something is held
  while the session in force has a connection (`ConnectedIsHeld`), as the handler that
  takes the badge away looks at what is held.
- EufyTile: `ViewInv` ties the timer to the opener; `ThumbOnItsWay` says where the
  latest snapshot is: asked for, announced by an event on its way, served, or shown, or
  its load failed and the thumbnail is gone.

- `StreamsTypeOK`, `LiveIsTyped`, `AutoSnapTypeOK`, `TokensTypeOK`, `DevicesTypeOK`,
  `CaptureTypeOK`, `TileTypeOK`, `EufyTileTypeOK`, `LoginTypes`, `CacheTypes`,
  `AlertsTypes` and `DebounceBounded` are the type invariants; the runs do not repeat
  them.

Assumptions on constants are few: bounds are positive, times are natural numbers in the
order in which the code has them, sets of cameras and lifetimes are not empty
(`MacsAssumption`, `TtlAssumption`), and the value that stands for no entry is none
(`NothingAssumption`). TLC evaluates them in every run.

Only model-checked: liveness (it needs fairness and ENABLED, which the prover does
not handle), and the counterexamples.

## 6. Not modelled

Formatting, logging, HTML, codec choice and ffmpeg's arguments; the bytes of frames and
streams; the cloud services and `eufy-security-client`, which appear as the events and
outcomes the code reacts to. Of the Wyze library: methods that only read, signing and
payloads (pure functions), the Roku login (one exchange without state), the pause of
`_checkRateLimit` (time passing before a request), and the refresh interval, which is
off by default; read, not run: it is meant to be 48 hours and is given to `setInterval`
in seconds, 173 s (`src/src/index.js:73`). Of the Eufy viewer: device lists and
thumbnails (formatted as they are read, no state), the SIGINT shutdown loop, and the
tiles of its own page, which start one session each. Of the dashboard: routes that hand
on one call, layout, drag and drop, muting. Docker and CI files.

Read, not run: with the `ws` version the proxy uses, a message is a Buffer, so the
JSON text in which the Eufy server reports an error is relayed to the page as a
binary message (`cam-frontend/server.js:398`).
