---------------------------- MODULE CaptureFrame ----------------------------
(***************************************************************************)
(* captureStreamFrame (src/cameraStreamCapture.js): one frame from a Wyze  *)
(* camera, by a signalling WebSocket, a peer connection and an ffmpeg      *)
(* child, raced against one another and against a timeout.                 *)
(*                                                                         *)
(* Calls run in one process: a promise rejected while nothing awaits it    *)
(* ends the process for all of them, and so does an error event without a  *)
(* listener.                                                               *)
(***************************************************************************)
EXTENDS Naturals

CONSTANTS Calls

VARIABLES
    up,   \* the process runs
    call  \* call[c]: the state of call c, a record

vars == <<up, call>>

\* The phases are the awaits of captureStreamFrame.
Racing == {"opening", "answering", "framing"}
Ended == {"returned", "threw"}
Phases == {"idle", "port", "offering"} \cup Racing \cup Ended

Kept == {"sdp", "socket", "peer"}

CallStates ==
    [at: Phases,
     ws: {"none", "connecting", "open", "aborted", "closing", "closed"},
     ffmpeg: {"none", "running", "killed", "gone"},
     outcome: {"pending", "frame", "error"},       \* ffmpegOutcome
     answer: {"pending", "yes", "error"},          \* remoteAnswered
     timer: {"off", "armed", "fired"},             \* timeout
     heard: SUBSET {"outcome", "answer"},          \* promises that are awaited
     held: {{}, Kept}]                             \* kept, but for ws and ffmpeg

TypeOK == up \in BOOLEAN /\ call \in [Calls -> CallStates]

Uncalled ==
    [at |-> "idle", ws |-> "none", ffmpeg |-> "none", outcome |-> "pending",
     answer |-> "pending", timer |-> "off", heard |-> {}, held |-> {}]

Init == up = TRUE /\ call = [c \in Calls |-> Uncalled]

-----------------------------------------------------------------------------
(* The three races: the phase in which a call in state s goes on *)

OpenRace_WsOnly(s) ==               \* mutant: ffmpegOutcome is not raced
    IF s.ws = "open" THEN "offering"
    ELSE IF s.ws = "closed" \/ s.timer = "fired" THEN "threw"
    ELSE "opening"

OpenRace(s) ==
    IF s.ws = "open" \/ s.outcome = "frame" THEN "offering"
    ELSE IF s.ws = "closed" \/ s.outcome = "error" \/ s.timer = "fired" THEN "threw"
    ELSE "opening"

FrameRace_NoTimeout(s) ==           \* mutant: timeout is not raced
    IF s.outcome = "frame" THEN "returned"
    ELSE IF s.outcome = "error" THEN "threw"
    ELSE "framing"

FrameRace(s) ==
    IF s.outcome = "frame" THEN "returned"
    ELSE IF s.outcome = "error" \/ s.timer = "fired" THEN "threw"
    ELSE "framing"

AnswerRace(s) ==
    IF s.answer = "yes" \/ (s.answer = "pending" /\ s.outcome = "frame") THEN FrameRace(s)
    ELSE IF s.answer = "error" \/ s.outcome = "error" \/ s.timer = "fired" THEN "threw"
    ELSE "answering"

Phase(s) ==
    CASE s.at = "opening" -> OpenRace(s)
      [] s.at = "answering" -> AnswerRace(s)
      [] s.at = "framing" -> FrameRace(s)
      [] OTHER -> s.at

\* cleanup(), in the finally block: a socket that is still connecting is aborted,
\* an open one starts to close, ffmpeg gets a SIGKILL.
cleanup_NoKill(s) ==                \* mutant: ffmpeg is left running
    [s EXCEPT !.ws = CASE s.ws = "connecting" -> "aborted"
                       [] s.ws = "open" -> "closing"
                       [] OTHER -> s.ws,
              !.held = {}]

cleanup(s) ==
    [s EXCEPT !.ws = CASE s.ws = "connecting" -> "aborted"
                       [] s.ws = "open" -> "closing"
                       [] OTHER -> s.ws,
              !.ffmpeg = IF s.ffmpeg = "running" THEN "killed" ELSE s.ffmpeg,
              !.held = {}]

\* A rejection of a promise that is not awaited yet, or any more.
Unhandled(s) ==
    \/ s.answer = "error" /\ "answer" \notin s.heard
    \/ s.outcome = "error" /\ "outcome" \notin s.heard

\* Call c, brought to state s by an event, runs to its next await.
RunOn(s) ==
    LET t == [s EXCEPT !.at = Phase(s)] IN IF t.at \in Ended THEN cleanup(t) ELSE t

Becomes(c, s) ==
    /\ call' = [call EXCEPT ![c] = RunOn(s)]
    /\ up' = ~Unhandled(s)

-----------------------------------------------------------------------------
Begin(c) ==
    /\ up /\ call[c].at = "idle"
    /\ Becomes(c, [call[c] EXCEPT !.at = "port"])

\* No port, or no file for the SDP.
NoPort(c) ==
    /\ up /\ call[c].at = "port"
    /\ Becomes(c, [call[c] EXCEPT !.at = "threw"])

\* From the port to the first race, without an await: only from there on is
\* ffmpegOutcome awaited.
SetUp_NoTimer(c) ==                 \* mutant: the timeout is not armed
    /\ up /\ call[c].at = "port"
    /\ Becomes(c, [call[c] EXCEPT !.at = "opening", !.ws = "connecting",
                                  !.ffmpeg = "running", !.heard = {"outcome"},
                                  !.held = Kept])

SetUp(c) ==
    /\ up /\ call[c].at = "port"
    /\ Becomes(c, [call[c] EXCEPT !.at = "opening", !.ws = "connecting",
                                  !.ffmpeg = "running", !.timer = "armed",
                                  !.heard = {"outcome"},
                                  !.held = Kept])

\* The peer connection or the WebSocket cannot be constructed.
SetUpThrows(c) ==
    /\ up /\ call[c].at = "port"
    /\ Becomes(c, [call[c] EXCEPT !.at = "threw", !.ffmpeg = "running"])

WsOpens(c) ==
    /\ up /\ call[c].ws = "connecting"
    /\ Becomes(c, [call[c] EXCEPT !.ws = "open"])

Rejected(promise) == IF promise = "pending" THEN "error" ELSE promise

\* The socket fails: events "error" and "close", the latter with a code other
\* than 1000.  An aborted one always does.
WsFails(c) ==
    /\ up /\ call[c].ws \in {"connecting", "open", "aborted", "closing"}
    /\ Becomes(c, [call[c] EXCEPT !.ws = "closed", !.answer = Rejected(@)])

\* It closes with code 1000.
WsCloses(c) ==
    /\ up /\ call[c].ws \in {"open", "closing"}
    /\ Becomes(c, [call[c] EXCEPT !.ws = "closed"])

\* The offer is made and sent; the second race begins.
OfferMade_Deaf(c) ==                \* mutant: remoteAnswered is not raced
    /\ up /\ call[c].at = "offering"
    /\ Becomes(c, [call[c] EXCEPT !.at = "answering"])

OfferMade(c) ==
    /\ up /\ call[c].at = "offering"
    /\ Becomes(c, [call[c] EXCEPT !.at = "answering", !.heard = @ \cup {"answer"}])

OfferFails(c) ==
    /\ up /\ call[c].at = "offering"
    /\ Becomes(c, [call[c] EXCEPT !.at = "threw"])

\* A message of the camera: its SDP answer is applied, or it, or one of its ICE
\* candidates, cannot be.
AnswerApplied(c) ==
    /\ up /\ call[c].at = "answering" /\ call[c].ws = "open"
    /\ Becomes(c, [call[c] EXCEPT !.answer = "yes"])

AnswerRefused(c) ==
    /\ up /\ call[c].at = "answering" /\ call[c].ws = "open"
    /\ Becomes(c, [call[c] EXCEPT !.answer = Rejected(@)])

\* ffmpeg ends, or could not be spawned.  It can have decoded a frame only once
\* the camera has been offered the session.
FfmpegEnds(c) ==
    /\ up /\ call[c].ffmpeg \in {"running", "killed"}
    /\ \E result \in {"frame", "error"} :
          /\ result = "frame" => "answer" \in call[c].heard
          /\ Becomes(c, [call[c] EXCEPT !.ffmpeg = "gone",
                                        !.outcome = IF @ = "pending" THEN result ELSE @])

\* The timeout, which nobody clears.
TimerFires(c) ==
    /\ up /\ call[c].timer = "armed"
    /\ Becomes(c, [call[c] EXCEPT !.timer = "fired"])

Step(c) ==
    \/ Begin(c) \/ NoPort(c) \/ SetUp(c) \/ SetUpThrows(c)
    \/ WsOpens(c) \/ WsFails(c) \/ WsCloses(c)
    \/ OfferMade(c) \/ OfferFails(c) \/ AnswerApplied(c) \/ AnswerRefused(c)
    \/ FfmpegEnds(c) \/ TimerFires(c)

\* The video comes once the offer is made.  Nothing listens to the errors of the socket
\* that forwards it to ffmpeg: one that cannot send ends the process.
ForwardFails(c) ==
    /\ up /\ call[c].held # {} /\ "answer" \in call[c].heard
    /\ up' = FALSE
    /\ UNCHANGED call

Next == \E c \in Calls : Step(c) \/ ForwardFails(c)

Spec == Init /\ [][Next]_vars

\* The port is found or not, the offer is made or not, timers fire, sockets told
\* to close do, and a killed child ends.  Nothing is assumed of the camera.
Fairness ==
    \A c \in Calls :
        /\ WF_vars(NoPort(c) \/ SetUp(c) \/ SetUpThrows(c))
        /\ WF_vars(OfferMade(c) \/ OfferFails(c))
        /\ WF_vars(TimerFires(c))
        /\ WF_vars(call[c].at \in Ended /\ (WsFails(c) \/ WsCloses(c)))
        /\ WF_vars(call[c].ffmpeg = "killed" /\ FfmpegEnds(c))

FairSpec == Spec /\ Fairness

-----------------------------------------------------------------------------
(* Properties *)

\* A call that has ended has let go of everything: the SDP file, the forwarding
\* socket and the peer connection are gone, the WebSocket is closing, ffmpeg is killed.
\* What it returned is a frame, from a session offered to the camera.
EndsInOrder ==
    \A c \in Calls : call[c].at \in Ended =>
        /\ call[c].held = {}
        /\ call[c].ws \in {"none", "aborted", "closing", "closed"}
        /\ call[c].ffmpeg \in {"none", "killed", "gone"}
        /\ call[c].at = "returned" => call[c].outcome = "frame" /\ "answer" \in call[c].heard

\* "fail fast if ffmpeg dies instead of hanging": no call waits on while its
\* ffmpeg is gone or its timeout has fired.
WaitsAreLive ==
    \A c \in Calls : call[c].at \in Racing =>
        call[c].outcome = "pending" /\ call[c].timer = "armed"

\* A call whose offer is made rejects no promise that nobody awaits: what ffmpeg, the
\* camera, the signalling socket or the timeout do to it from then on, or after a frame
\* was returned, is reported to the caller or of no consequence.  (A forwarding socket
\* that fails ends the process, and changes no call.)
LateFailuresContained ==
    [][\A c \in Calls :
          call'[c] # call[c] /\ call[c].at \in {"answering", "framing", "returned"} => up']_vars

\* Every call keeps the promise of CapturePromise.
PromiseOf(s) ==
    CASE s.at = "idle" -> "uncalled"
      [] s.at = "returned" -> "frame"
      [] s.at = "threw" -> "error"
      [] OTHER -> "pending"

P == INSTANCE CapturePromise
        WITH promise <- [c \in Calls |-> PromiseOf(call[c])], alive <- up

KeepsPromise == P!FairSpec

\* "spawn failures reject the outcome promise instead of going unhandled and
\* crashing the Node process": a capture whose ffmpeg failed within the time allowed
\* does not end the process.
FfmpegFailureContained ==
    \A c \in Calls :
        call[c].ffmpeg = "gone" /\ call[c].outcome = "error" /\ call[c].timer = "armed" => up
=============================================================================
