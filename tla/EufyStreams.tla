---------------------------- MODULE EufyStreams ----------------------------
(***************************************************************************)
(* Live sessions and on-demand snapshots of ONE Eufy camera, as            *)
(* eufy/server.js runs them.  Every Map of the server is keyed by the      *)
(* camera serial and no handler touches two serials, so one camera is the  *)
(* whole story; the cloud connection flag is the only shared state.        *)
(*                                                                         *)
(* Node runs a handler up to its next await without interruption, so a     *)
(* step below is the code between two awaits that really wait.  An await   *)
(* of an already settled promise (stopSession when there is no session)    *)
(* only yields to microtasks and does not end the step.                    *)
(***************************************************************************)
EXTENDS Naturals, FiniteSets

CONSTANTS
    Viewers,     \* WebSocket connections to /stream, each opened once
    Refreshers,  \* HTTP refreshes and auto-snapshot ticks, each made once
    NoOne,       \* the absence of a session, of a pending entry, of an owner
    StartFails,  \* may the library's connect/startStationLivestream reject?
    StopFails,   \* may stopStationLivestream reject and leave the stream on?
    MaxCaptures  \* bound: overlapping frame captures of one refresh

ASSUME SetsAssumption == NoOne \notin Viewers \cup Refreshers
ASSUME FaultAssumption == StartFails \in BOOLEAN /\ StopFails \in BOOLEAN
ASSUME CaptureAssumption == MaxCaptures \in Nat \ {0}

VARIABLES
    up,         \* the Node process has not died of a rejection or error unhandled
    connected,  \* the flag the cloud events maintain
    camera,     \* the livestream as the library drives it
    session,    \* sessions.get(sn): the viewer whose session it is, or NoOne
    ws,         \* ws[v]: readyState of the viewer's socket
    task,       \* task[v]: where startSession(sn, ws) of the viewer stands
    ffmpeg,     \* viewers for whose session an ffmpeg child is alive
    pending,    \* pendingSnapshots.get(sn): the owner of the entry, or NoOne
    refresh,    \* refresh[r]: where refreshSnapshot(sn) of the caller stands
    shares,     \* shares[r]: whose promise a joining caller was handed
    promise,    \* promise[r]: the shared promise r created as an owner
    timer,      \* timer[r]: the 15 s timeout of owner r is armed
    captures    \* captures[r]: captureSnapshotFromStream running for r's entry

vars == <<up, connected, camera, session, ws, task, ffmpeg, pending, refresh,
          shares, promise, timer, captures>>
viewVars == <<session, ws, task, ffmpeg>>
snapVars == <<pending, refresh, shares, promise, timer, captures>>

TypeOK ==
    /\ up \in BOOLEAN
    /\ connected \in BOOLEAN
    /\ camera \in {"asleep", "starting", "streaming"}
    /\ session \in Viewers \cup {NoOne}
    /\ ws \in [Viewers -> {"none", "open", "closing", "closed"}]
    /\ task \in [Viewers -> {"idle", "stopping", "connecting", "running", "failed"}]
    /\ ffmpeg \in SUBSET Viewers
    /\ pending \in Refreshers \cup {NoOne}
    /\ refresh \in [Refreshers -> {"idle", "starting", "waiting", "joined", "failed"}]
    /\ shares \in [Refreshers -> Refreshers \cup {NoOne}]
    /\ promise \in [Refreshers -> {"none", "unsettled", "resolved", "rejected"}]
    /\ timer \in [Refreshers -> BOOLEAN]
    /\ captures \in [Refreshers -> 0..MaxCaptures]

Init ==
    /\ up = TRUE
    /\ connected = FALSE
    /\ camera = "asleep"
    /\ session = NoOne
    /\ ws = [v \in Viewers |-> "none"]
    /\ task = [v \in Viewers |-> "idle"]
    /\ ffmpeg = {}
    /\ pending = NoOne
    /\ refresh = [r \in Refreshers |-> "idle"]
    /\ shares = [r \in Refreshers |-> NoOne]
    /\ promise = [r \in Refreshers |-> "none"]
    /\ timer = [r \in Refreshers |-> FALSE]
    /\ captures = [r \in Refreshers |-> 0]

-----------------------------------------------------------------------------
\* The process is alive, and the step does not kill it.
Running == up /\ up' = up

(* The library and the camera (external): what a call may do to the stream. *)

\* startStationLivestream: wakes a sleeping camera, changes nothing otherwise.
startStationLivestream ==
    camera' = IF camera = "asleep" THEN "starting" ELSE camera

\* stopStationLivestream: ends a running stream; a stream that has not
\* started yet may come up all the same.
stopStationLivestream ==
    \/ camera' = "asleep"
    \/ camera = "starting" /\ camera' = "starting"
    \/ StopFails /\ camera' = camera

\* "connect" and "close" of the cloud connection, as far as the streams see it.
CloudConnects ==
    /\ Running
    /\ ~connected
    /\ connected' = TRUE
    /\ UNCHANGED <<camera, viewVars, snapVars>>

CloudCloses ==
    /\ Running
    /\ connected
    /\ connected' = FALSE
    /\ UNCHANGED <<camera, viewVars, snapVars>>

\* The camera ends its stream, or never brings it up: "station livestream
\* stop" only logs.
CameraStops ==
    /\ Running
    /\ camera # "asleep"
    /\ camera' = "asleep"
    /\ UNCHANGED <<connected, viewVars, snapVars>>

-----------------------------------------------------------------------------
(* Viewers *)

\* stopSession(sn), up to its await: nothing at all without a session.
stopSession ==
    IF session = NoOne
    THEN UNCHANGED <<session, ffmpeg, camera>>
    ELSE /\ session' = NoOne
         /\ ffmpeg' = ffmpeg \ {session}
         /\ stopStationLivestream

\* A viewer's socket opens.  startSession first stops the session it finds:
\* with none it carries on in the same turn, with one it awaits the stop.
ViewerConnects(v) ==
    /\ Running
    /\ ws[v] = "none"
    /\ ws' = [ws EXCEPT ![v] = "open"]
    /\ \/ /\ session = NoOne
          /\ session' = v
          /\ task' = [task EXCEPT ![v] = "connecting"]
          /\ UNCHANGED <<ffmpeg, camera>>
       \/ /\ session # NoOne
          /\ stopSession
          /\ task' = [task EXCEPT ![v] = "stopping"]
    /\ UNCHANGED <<connected, snapVars>>

\* The awaited stop settles (a rejection is swallowed): the new session is
\* stored over whatever the Map holds by now, and connect() is awaited.
SessionStored(v) ==
    /\ Running
    /\ task[v] = "stopping"
    /\ task' = [task EXCEPT ![v] = "connecting"]
    /\ session' = v
    /\ UNCHANGED <<connected, camera, ws, ffmpeg, snapVars>>

\* connect() resolves, startStationLivestream is called and accepted.
StreamRequested(v) ==
    /\ Running
    /\ task[v] = "connecting"
    /\ task' = [task EXCEPT ![v] = "running"]
    /\ startStationLivestream
    /\ UNCHANGED <<connected, session, ws, ffmpeg, snapVars>>

\* connect() or startStationLivestream rejects: the error is sent and the
\* socket closed if it is still open, and the Map's entry is deleted.
StreamRefused(v) ==
    /\ Running
    /\ StartFails
    /\ task[v] = "connecting"
    /\ task' = [task EXCEPT ![v] = "failed"]
    /\ ws' = [ws EXCEPT ![v] = IF @ = "open" THEN "closing" ELSE @]
    /\ session' = NoOne
    /\ UNCHANGED <<connected, camera, ffmpeg, snapVars>>

\* "close" of a socket, by the browser or after the server's ws.close().
ViewerCloses(v) ==
    /\ Running
    /\ ws[v] \in {"open", "closing"}
    /\ ws' = [ws EXCEPT ![v] = "closed"]
    /\ stopSession
    /\ UNCHANGED <<connected, task, snapVars>>

\* An ffmpeg child ends by itself (its input ended, or it failed): only logged.
FfmpegExits(v) ==
    /\ Running
    /\ v \in ffmpeg
    /\ ffmpeg' = ffmpeg \ {v}
    /\ UNCHANGED <<connected, camera, session, ws, task, snapVars>>

-----------------------------------------------------------------------------
(* Snapshots *)

\* The Node process dies of a rejection nobody handles: owner r does not await its
\* promise, still at startStationLivestream or refused there, and no caller has
\* joined it.
Unhandled(r) == /\ refresh[r] \in {"starting", "failed"}
                /\ \A q \in Refreshers : shares[q] # r

settle(r, outcome) ==
    /\ up
    /\ promise' = [promise EXCEPT ![r] = IF @ = "unsettled" THEN outcome ELSE @]
    /\ up' = ~(promise[r] = "unsettled" /\ outcome = "rejected" /\ Unhandled(r))

\* refreshSnapshot(sn): refused, handed the pending promise, or made owner.
RefreshSnapshot(r) ==
    /\ Running
    /\ refresh[r] = "idle"
    /\ \/ /\ ~connected \/ session # NoOne
          /\ refresh' = [refresh EXCEPT ![r] = "failed"]
          /\ UNCHANGED <<pending, shares, promise, timer>>
       \/ /\ connected /\ session = NoOne /\ pending # NoOne
          /\ refresh' = [refresh EXCEPT ![r] = "joined"]
          /\ shares' = [shares EXCEPT ![r] = pending]
          /\ UNCHANGED <<pending, promise, timer>>
       \/ /\ connected /\ session = NoOne /\ pending = NoOne
          /\ refresh' = [refresh EXCEPT ![r] = "starting"]
          /\ promise' = [promise EXCEPT ![r] = "unsettled"]
          /\ timer' = [timer EXCEPT ![r] = TRUE]
          /\ pending' = r
          /\ UNCHANGED shares
    /\ UNCHANGED <<connected, camera, viewVars, captures>>

\* The owner's startStationLivestream is accepted; it now awaits its promise.
RefreshAccepted(r) ==
    /\ Running
    /\ refresh[r] = "starting"
    /\ refresh' = [refresh EXCEPT ![r] = "waiting"]
    /\ startStationLivestream
    /\ UNCHANGED <<connected, viewVars, pending, shares, promise, timer, captures>>

\* It rejects: the owner's caller gets the error, the promise is left as it is.
RefreshRefused_KeepsTimer(r) ==     \* mutant: the timeout stays armed
    /\ Running
    /\ StartFails
    /\ refresh[r] = "starting"
    /\ refresh' = [refresh EXCEPT ![r] = "failed"]
    /\ pending' = NoOne
    /\ UNCHANGED <<connected, camera, viewVars, shares, promise, timer, captures>>

RefreshRefused(r) ==
    /\ Running
    /\ StartFails
    /\ refresh[r] = "starting"
    /\ refresh' = [refresh EXCEPT ![r] = "failed"]
    /\ timer' = [timer EXCEPT ![r] = FALSE]
    /\ pending' = NoOne
    /\ UNCHANGED <<connected, camera, viewVars, shares, promise, captures>>

\* The 15 s timeout of owner r.
RefreshTimesOut_KeepsEntry(r) ==    \* mutant: the entry is not deleted
    /\ timer[r]
    /\ timer' = [timer EXCEPT ![r] = FALSE]
    /\ stopStationLivestream
    /\ settle(r, "rejected")
    /\ UNCHANGED <<connected, viewVars, pending, refresh, shares, captures>>

RefreshTimesOut(r) ==
    /\ timer[r]
    /\ timer' = [timer EXCEPT ![r] = FALSE]
    /\ pending' = NoOne
    /\ stopStationLivestream
    /\ settle(r, "rejected")
    /\ UNCHANGED <<connected, viewVars, refresh, shares, captures>>

\* "station livestream start": a pending snapshot comes first, then the
\* session (startFfmpeg), and a stream nobody wants is stopped.
StreamToCapture ==
    /\ pending # NoOne
    /\ captures[pending] < MaxCaptures
    /\ captures' = [captures EXCEPT ![pending] = @ + 1]
    /\ camera' = "streaming"
    /\ UNCHANGED <<up, ffmpeg>>

\* The child may fail to spawn: an "error" event that nothing listens to, which
\* ends the process.
startFfmpeg ==
    /\ pending = NoOne /\ session # NoOne
    /\ \/ ffmpeg' = ffmpeg \cup {session} /\ UNCHANGED up
       \/ up' = FALSE /\ UNCHANGED ffmpeg
    /\ camera' = "streaming"
    /\ UNCHANGED captures

StreamToNobody_LeftOn ==            \* mutant: not stopped
    /\ pending = NoOne /\ session = NoOne
    /\ camera' = "streaming"
    /\ UNCHANGED <<up, ffmpeg, captures>>

StreamToNobody ==
    /\ pending = NoOne /\ session = NoOne
    /\ \/ camera' = "asleep"
       \/ StopFails /\ camera' = "streaming"
    /\ UNCHANGED <<up, ffmpeg, captures>>

LivestreamStarts ==
    /\ up
    /\ camera = "starting"
    /\ StreamToCapture \/ startFfmpeg \/ StreamToNobody
    /\ UNCHANGED <<connected, session, ws, task, pending, refresh, shares,
                   promise, timer>>

\* A frame capture ends with a frame, empty, in error or by its 10 s watchdog,
\* and settles the promise; its finally runs in the same turn.
CaptureOutcome_DropsError(r) ==     \* mutant: a failed capture is not reported
    settle(r, "resolved") \/ (up /\ UNCHANGED <<up, promise>>)

CaptureOutcome(r) == \E outcome \in {"resolved", "rejected"} : settle(r, outcome)

CaptureEnds(r) ==
    /\ captures[r] > 0
    /\ captures' = [captures EXCEPT ![r] = @ - 1]
    /\ CaptureOutcome(r)
    /\ timer' = [timer EXCEPT ![r] = FALSE]
    /\ pending' = NoOne
    /\ stopStationLivestream
    /\ UNCHANGED <<connected, viewVars, refresh, shares>>

-----------------------------------------------------------------------------
ViewerStep(v) ==
    \/ ViewerConnects(v) \/ SessionStored(v) \/ StreamRequested(v)
    \/ StreamRefused(v) \/ ViewerCloses(v) \/ FfmpegExits(v)

SnapshotStep(r) ==
    \/ RefreshSnapshot(r) \/ RefreshAccepted(r) \/ RefreshRefused(r)
    \/ RefreshTimesOut(r) \/ CaptureEnds(r)

Next ==
    \/ CloudConnects \/ CloudCloses \/ CameraStops \/ LivestreamStarts
    \/ \E v \in Viewers : ViewerStep(v)
    \/ \E r \in Refreshers : SnapshotStep(r)

Spec == Init /\ [][Next]_vars

\* Calls into the library settle, timers fire, watchdogs end captures; what
\* the camera, the cloud and the users do is not promised.
Fairness ==
    /\ \A r \in Refreshers :
          /\ WF_vars(RefreshAccepted(r) \/ RefreshRefused(r))
          /\ WF_vars(RefreshTimesOut(r))
          /\ WF_vars(CaptureEnds(r))
    /\ \A v \in Viewers :
          /\ WF_vars(SessionStored(v))
          /\ WF_vars(StreamRequested(v) \/ StreamRefused(v))

FairSpec == Spec /\ Fairness

-----------------------------------------------------------------------------
(* Properties *)

Owner(r) == refresh[r] \in {"starting", "waiting"}

\* A pending entry is always one a new caller may safely join: its timeout is
\* armed and its promise not settled (refreshSnapshot's "existing" branch).
PendingIsLive ==
    pending # NoOne => timer[pending] /\ promise[pending] = "unsettled"

\* An owner has its 15 s timeout armed while its promise is not settled, and no
\* longer, whatever happened to the entry, the capture or the stream meanwhile: it
\* cannot wait for ever, nor leave a timeout that would stop somebody else's stream.
OwnersAreTimed ==
    \A r \in Refreshers : timer[r] <=> Owner(r) /\ promise[r] = "unsettled"

\* startSession's catch has deleted the session in the Map, whoever's it was.
ViewerRefused == \E v \in Viewers : task[v] = "failed"

\* Battery: a streaming camera has a live session or a frame capture that will
\* stop it; there is no moment at which the server has lost track of it, unless the
\* start call of some viewer was rejected.
AwakeHasConsumer ==
    camera = "streaming" =>
        session # NoOne \/ (\E r \in Refreshers : captures[r] > 0) \/ ViewerRefused

\* The session in the Map belongs to a viewer that is still there.
SessionIsOpen == session # NoOne => ws[session] = "open"

\* One ffmpeg child per camera, the current session's.
OneFfmpeg == ffmpeg \subseteq {session}

\* One wake at a time: two callers that both own an unanswered refresh would
\* each wake the camera for itself.
SingleWake ==
    \A q, r \in Refreshers :
        (Owner(q) /\ promise[q] = "unsettled") /\ (Owner(r) /\ promise[r] = "unsettled")
            => q = r

\* Once a second viewer has taken over, the first one's leaving does not end
\* the second one's session.
LeavingEndsOwnSession ==
    [][\A v \in Viewers :
          ViewerCloses(v) /\ session # NoOne /\ session # v => session' = session]_vars

\* A snapshot never puts the camera to sleep under a viewer whose livestream
\* has been requested.
SnapshotSparesViewer ==
    [][\A r \in Refreshers :
          CaptureEnds(r) /\ session # NoOne /\ task[session] = "running"
              => camera' = camera]_vars

Answered(r) ==
    \/ refresh[r] = "failed"
    \/ refresh[r] = "waiting" /\ promise[r] \in {"resolved", "rejected"}
    \/ refresh[r] = "joined" /\ promise[shares[r]] \in {"resolved", "rejected"}

\* The owner whose promise a caller joined was refused: it was told, and its timeout
\* cleared, but the promise was left alone.
JoinedRefused(r) == refresh[r] = "joined" /\ refresh[shares[r]] = "failed"

\* Every request for a fresh snapshot is answered, by an image or an error, whoever
\* else asked meanwhile, unless it joined one whose start call was rejected.
RefreshAnswered ==
    \A r \in Refreshers : refresh[r] # "idle" ~> Answered(r) \/ JoinedRefused(r) \/ ~up

\* The same of those that joined, too ...
JoinedAnswered == \A r \in Refreshers : refresh[r] # "idle" ~> Answered(r) \/ ~up

\* ... and a camera accounted for when calls are rejected, too.
AwakeAfterRefusal ==
    camera = "streaming" => session # NoOne \/ \E r \in Refreshers : captures[r] > 0
=============================================================================
