------------------------- MODULE CaptureFrameProofs -------------------------
(***************************************************************************)
(* Proofs about CaptureFrame, for any set of calls.                        *)
(***************************************************************************)
EXTENDS CaptureFrame, TLAPS

\* What the phase of a call says of its promises and of what it holds.  The
\* phases from the first race to the offer have had no answer, those that race
\* wait for promises still pending.
CallInv(s) ==
    /\ s \in CallStates
    /\ s.at \in {"idle", "port"} =>
          /\ s.ws = "none" /\ s.ffmpeg = "none" /\ s.timer = "off"
          /\ s.outcome = "pending" /\ s.answer = "pending"
          /\ s.heard = {} /\ s.held = {}
    /\ s.at \in Racing \cup {"offering"} => s.timer # "off" /\ "outcome" \in s.heard
    /\ s.at \in {"opening", "offering"} => s.outcome # "frame" /\ "answer" \notin s.heard
    /\ s.at \in {"answering", "framing"} => "answer" \in s.heard
    /\ s.at \in Racing => s.outcome = "pending" /\ s.timer = "armed"
    /\ s.at = "returned" => s.outcome = "frame" /\ "answer" \in s.heard
    /\ "answer" \in s.heard => "outcome" \in s.heard
    /\ s.outcome = "frame" => "answer" \in s.heard
    /\ s.at \in Ended =>
          /\ s.held = {}
          /\ s.ws \in {"none", "aborted", "closing", "closed"}
          /\ s.ffmpeg \in {"none", "killed", "gone"}

Inv ==
    /\ up \in BOOLEAN
    /\ call \in [Calls -> CallStates]
    /\ \A c \in Calls : CallInv(call[c])

\* A call whose events keep its promises in order runs on to a state in order.
Ready(s) ==
    /\ s \in CallStates
    /\ s.at \in {"idle", "port"} => CallInv(s)
    /\ s.at \in Racing \cup {"offering"} => s.timer # "off" /\ "outcome" \in s.heard
    /\ s.at \in {"opening", "offering"} => s.outcome # "frame" /\ "answer" \notin s.heard
    /\ s.at \in {"answering", "framing"} => "answer" \in s.heard
    /\ s.at = "returned" => s.outcome = "frame" /\ "answer" \in s.heard
    /\ "answer" \in s.heard => "outcome" \in s.heard
    /\ s.outcome = "frame" => "answer" \in s.heard

LEMMA PhaseOfReady ==
    ASSUME NEW s, Ready(s)
    PROVE  /\ Phase(s) \in Phases
           /\ Phase(s) \in {"idle", "port", "opening"} => s.at = Phase(s)
           /\ Phase(s) = "offering" => s.at \in {"opening", "offering"}
           /\ Phase(s) \in {"answering", "framing"} => s.at \in {"answering", "framing"}
           /\ Phase(s) \in Racing => s.outcome = "pending" /\ s.timer = "armed"
           /\ Phase(s) = "returned" => s.outcome = "frame"
           /\ s.at \in Ended => Phase(s) = s.at
<1>0. /\ s.at \in Phases
      /\ s.outcome \in {"pending", "frame", "error"}
      /\ s.answer \in {"pending", "yes", "error"}
      /\ s.timer \in {"off", "armed", "fired"}
      /\ s.at \in Racing => s.timer # "off"
      BY DEF Ready, CallStates
<1>1. CASE s.at = "opening"
  <2>1. Phase(s) = OpenRace(s)
    BY <1>1 DEF Phase
  <2>2. s.outcome # "frame"
    BY <1>1 DEF Ready
  <2>3. \/ OpenRace(s) \in {"offering", "threw"}
        \/ OpenRace(s) = "opening" /\ s.outcome = "pending" /\ s.timer # "fired"
    BY <1>0, <2>2 DEF OpenRace
  <2> QED BY <1>0, <1>1, <2>1, <2>3 DEF Phases, Racing, Ended
<1>2. CASE s.at = "answering"
  <2>1. Phase(s) = AnswerRace(s)
    BY <1>2 DEF Phase
  <2>2. \/ AnswerRace(s) = "threw"
        \/ AnswerRace(s) = "returned" /\ s.outcome = "frame"
        \/ /\ AnswerRace(s) \in {"answering", "framing"}
           /\ s.outcome = "pending" /\ s.timer # "fired"
    BY <1>0 DEF AnswerRace, FrameRace
  <2> QED BY <1>0, <1>2, <2>1, <2>2 DEF Phases, Racing, Ended
<1>3. CASE s.at = "framing"
  <2>1. Phase(s) = FrameRace(s)
    BY <1>3 DEF Phase
  <2>2. \/ FrameRace(s) = "threw"
        \/ FrameRace(s) = "returned" /\ s.outcome = "frame"
        \/ FrameRace(s) = "framing" /\ s.outcome = "pending" /\ s.timer # "fired"
    BY <1>0 DEF FrameRace
  <2> QED BY <1>0, <1>3, <2>1, <2>2 DEF Phases, Racing, Ended
<1>4. CASE s.at \notin Racing
  <2>1. Phase(s) = s.at
    BY <1>4 DEF Phase, Racing
  <2> QED BY <1>0, <1>4, <2>1 DEF Ready, Phases, Racing, Ended
<1> QED BY <1>1, <1>2, <1>3, <1>4 DEF Racing

LEMMA RunsOn ==
    ASSUME NEW s, Ready(s)
    PROVE  CallInv(RunOn(s))
<1> DEFINE t == [s EXCEPT !.at = Phase(s)]
<1>0. s \in CallStates
  BY DEF Ready
<1>1. /\ t \in CallStates /\ t.at = Phase(s)
      /\ t.ws = s.ws /\ t.ffmpeg = s.ffmpeg /\ t.outcome = s.outcome
      /\ t.answer = s.answer /\ t.timer = s.timer /\ t.heard = s.heard /\ t.held = s.held
  BY <1>0, PhaseOfReady DEF CallStates
<1>2. CASE t.at \in Ended
  <2>1. /\ cleanup(t) \in CallStates
        /\ cleanup(t).at = t.at /\ cleanup(t).held = {}
        /\ cleanup(t).outcome = t.outcome /\ cleanup(t).heard = t.heard
        /\ cleanup(t).ws \in {"none", "aborted", "closing", "closed"}
        /\ cleanup(t).ffmpeg \in {"none", "killed", "gone"}
    BY <1>1 DEF CallStates, cleanup
  <2>2. t.at = "returned" => t.outcome = "frame" /\ "answer" \in t.heard
    BY <1>1, PhaseOfReady DEF Ready
  <2>3. /\ "answer" \in t.heard => "outcome" \in t.heard
        /\ t.outcome = "frame" => "answer" \in t.heard
    BY <1>1 DEF Ready
  <2> QED BY <1>2, <2>1, <2>2, <2>3 DEF RunOn, CallInv, Ended, Racing
<1>3. CASE t.at \notin Ended
  <2>1. RunOn(s) = t
    BY <1>3 DEF RunOn
  <2>2. t.at \in {"idle", "port"} => CallInv(t)
    <3> SUFFICES ASSUME t.at \in {"idle", "port"} PROVE CallInv(t)
      OBVIOUS
    <3>1. s.at = t.at /\ CallInv(s)
      BY <1>1, PhaseOfReady DEF Ready
    <3> QED BY <1>1, <3>1 DEF CallInv, Racing, Ended
  <2>3. t.at \notin {"idle", "port"} => CallInv(t)
    BY <1>1, <1>3, PhaseOfReady DEF CallInv, Ready, Racing, Phases, Ended
  <2> QED BY <2>1, <2>2, <2>3
<1> QED BY <1>2, <1>3

\* Where an event finds a call and where it leaves it to run on from.
Moves(from, to) ==
    \/ to = from
    \/ from = "idle" /\ to = "port"
    \/ from = "port" /\ to \in {"opening", "threw"}
    \/ from = "offering" /\ to \in {"answering", "threw"}

\* Every event leaves its call ready to run on.
LEMMA Events ==
    ASSUME NEW c \in Calls, CallInv(call[c]), Step(c)
    PROVE  up /\ \E s : Ready(s) /\ Becomes(c, s) /\ Moves(call[c].at, s.at)
<1>0. call[c] \in CallStates
  BY DEF CallInv
<1>1. CASE Begin(c)
  <2> DEFINE s == [call[c] EXCEPT !.at = "port"]
  <2>1. Ready(s) /\ Moves(call[c].at, s.at)
    BY <1>0, <1>1 DEF Begin, Moves, Ready, CallInv, CallStates, Phases, Racing, Ended
  <2> QED BY <1>1, <2>1 DEF Begin
<1>2. CASE NoPort(c)
  <2> DEFINE s == [call[c] EXCEPT !.at = "threw"]
  <2>1. Ready(s) /\ Moves(call[c].at, s.at)
    BY <1>0, <1>2 DEF NoPort, Moves, Ready, CallInv, CallStates, Phases, Racing, Ended
  <2> QED BY <1>2, <2>1 DEF NoPort
<1>3. CASE SetUp(c)
  <2> DEFINE s == [call[c] EXCEPT !.at = "opening", !.ws = "connecting",
                                  !.ffmpeg = "running", !.timer = "armed",
                                  !.heard = {"outcome"}, !.held = Kept]
  <2>1. Ready(s) /\ Moves(call[c].at, s.at)
    BY <1>0, <1>3 DEF SetUp, Moves, Ready, CallInv, CallStates, Phases, Racing, Ended
  <2> QED BY <1>3, <2>1 DEF SetUp
<1>4. CASE SetUpThrows(c)
  <2> DEFINE s == [call[c] EXCEPT !.at = "threw", !.ffmpeg = "running"]
  <2>1. Ready(s) /\ Moves(call[c].at, s.at)
    BY <1>0, <1>4 DEF SetUpThrows, Moves, Ready, CallInv, CallStates, Phases, Racing, Ended
  <2> QED BY <1>4, <2>1 DEF SetUpThrows
<1>5. CASE WsOpens(c)
  <2> DEFINE s == [call[c] EXCEPT !.ws = "open"]
  <2>1. Ready(s) /\ Moves(call[c].at, s.at)
    BY <1>0, <1>5 DEF WsOpens, Moves, Ready, CallInv, CallStates, Phases, Racing, Ended
  <2> QED BY <1>5, <2>1 DEF WsOpens
<1>6. CASE WsFails(c)
  <2> DEFINE s == [call[c] EXCEPT !.ws = "closed", !.answer = Rejected(@)]
  <2>1. Ready(s) /\ Moves(call[c].at, s.at)
    BY <1>0, <1>6 DEF WsFails, Rejected, Moves, Ready, CallInv, CallStates, Phases, Racing, Ended
  <2> QED BY <1>6, <2>1 DEF WsFails
<1>7. CASE WsCloses(c)
  <2> DEFINE s == [call[c] EXCEPT !.ws = "closed"]
  <2>1. Ready(s) /\ Moves(call[c].at, s.at)
    BY <1>0, <1>7 DEF WsCloses, Moves, Ready, CallInv, CallStates, Phases, Racing, Ended
  <2> QED BY <1>7, <2>1 DEF WsCloses
<1>8. CASE OfferMade(c)
  <2> DEFINE s == [call[c] EXCEPT !.at = "answering", !.heard = @ \cup {"answer"}]
  <2>1. Ready(s) /\ Moves(call[c].at, s.at)
    BY <1>0, <1>8 DEF OfferMade, Moves, Ready, CallInv, CallStates, Phases, Racing, Ended
  <2> QED BY <1>8, <2>1 DEF OfferMade
<1>9. CASE OfferFails(c)
  <2> DEFINE s == [call[c] EXCEPT !.at = "threw"]
  <2>1. Ready(s) /\ Moves(call[c].at, s.at)
    BY <1>0, <1>9 DEF OfferFails, Moves, Ready, CallInv, CallStates, Phases, Racing, Ended
  <2> QED BY <1>9, <2>1 DEF OfferFails
<1>10. CASE AnswerApplied(c)
  <2> DEFINE s == [call[c] EXCEPT !.answer = "yes"]
  <2>1. Ready(s) /\ Moves(call[c].at, s.at)
    BY <1>0, <1>10 DEF AnswerApplied, Moves, Ready, CallInv, CallStates, Phases, Racing, Ended
  <2> QED BY <1>10, <2>1 DEF AnswerApplied
<1>11. CASE AnswerRefused(c)
  <2> DEFINE s == [call[c] EXCEPT !.answer = Rejected(@)]
  <2>1. Ready(s) /\ Moves(call[c].at, s.at)
    BY <1>0, <1>11 DEF AnswerRefused, Rejected, Moves, Ready, CallInv, CallStates, Phases, Racing, Ended
  <2> QED BY <1>11, <2>1 DEF AnswerRefused
<1>12. CASE FfmpegEnds(c)
  <2>1. PICK result \in {"frame", "error"} :
           /\ result = "frame" => "answer" \in call[c].heard
           /\ Becomes(c, [call[c] EXCEPT !.ffmpeg = "gone",
                                         !.outcome = IF @ = "pending" THEN result ELSE @])
    BY <1>12 DEF FfmpegEnds
  <2> DEFINE s == [call[c] EXCEPT !.ffmpeg = "gone",
                                  !.outcome = IF @ = "pending" THEN result ELSE @]
  <2>2. Ready(s) /\ Moves(call[c].at, s.at)
    BY <1>0, <1>12, <2>1 DEF FfmpegEnds, Moves, Ready, CallInv, CallStates, Phases, Racing, Ended
  <2> QED BY <1>12, <2>1, <2>2 DEF FfmpegEnds
<1>13. CASE TimerFires(c)
  <2> DEFINE s == [call[c] EXCEPT !.timer = "fired"]
  <2>1. Ready(s) /\ Moves(call[c].at, s.at)
    BY <1>0, <1>13 DEF TimerFires, Moves, Ready, CallInv, CallStates, Phases, Racing, Ended
  <2> QED BY <1>13, <2>1 DEF TimerFires
<1> QED BY <1>1, <1>2, <1>3, <1>4, <1>5, <1>6, <1>7, <1>8, <1>9, <1>10, <1>11, <1>12, <1>13 DEF Step

LEMMA StepKeepsInv == Inv /\ [Next]_vars => Inv'
<1> SUFFICES ASSUME Inv, [Next]_vars PROVE Inv'
  OBVIOUS
<1>1. CASE UNCHANGED vars
  BY <1>1 DEF Inv, vars
<1>2. ASSUME NEW c \in Calls, Step(c) PROVE Inv'
  <2>1. PICK s : Ready(s) /\ Becomes(c, s)
    BY <1>2, Events DEF Inv
  <2>2. CallInv(RunOn(s)) /\ RunOn(s) \in CallStates
    BY <2>1, RunsOn DEF CallInv
  <2>3. call' = [call EXCEPT ![c] = RunOn(s)] /\ up' \in BOOLEAN
    BY <2>1 DEF Becomes
  <2>4. call' \in [Calls -> CallStates]
    BY <2>2, <2>3 DEF Inv
  <2>5. ASSUME NEW d \in Calls PROVE CallInv(call'[d])
    <3>1. call'[d] = IF d = c THEN RunOn(s) ELSE call[d]
      BY <2>3 DEF Inv
    <3> QED BY <2>2, <3>1 DEF Inv
  <2> QED BY <2>3, <2>4, <2>5 DEF Inv
<1>3. ASSUME NEW c \in Calls, ForwardFails(c) PROVE Inv'
  BY <1>3 DEF ForwardFails, Inv
<1> QED BY <1>1, <1>2, <1>3 DEF Next

LEMMA InitInv == Init => Inv
<1> SUFFICES ASSUME Init PROVE Inv
  OBVIOUS
<1>1. CallInv(Uncalled)
  BY DEF Uncalled, CallInv, CallStates, Phases, Racing, Ended
<1> QED BY <1>1 DEF Init, Inv, CallInv

\* The phases of every capture mean what they say, whatever fails and in
\* whatever order.
THEOREM CapturesInOrder == Spec => []Inv
<1> QED BY InitInv, StepKeepsInv, PTL DEF Spec

\* Records stay records of their type, and `up` a Boolean.
THEOREM CaptureTypeOK == Spec => []TypeOK
<1>1. Inv => TypeOK
  BY DEF Inv, TypeOK
<1> QED BY <1>1, CapturesInOrder, PTL

\* cleanup() is reached on every path out of captureStreamFrame.
THEOREM CapturesLeaveNothing == Spec => []EndsInOrder
<1>1. Inv => EndsInOrder
  BY DEF Inv, CallInv, EndsInOrder
<1> QED BY <1>1, CapturesInOrder, PTL

\* Each race has ffmpegOutcome and timeout among its promises.
THEOREM CapturesFailFast == Spec => []WaitsAreLive
<1>1. Inv => WaitsAreLive
  BY DEF Inv, CallInv, WaitsAreLive
<1> QED BY <1>1, CapturesInOrder, PTL

\* From the answer on, and after a frame, both promises of a call are awaited: no
\* rejection of one goes unhandled.
THEOREM CaptureFailuresContained == Spec => LateFailuresContained
<1>1. Inv /\ [Next]_vars
        => [\A c \in Calls :
              call'[c] # call[c] /\ call[c].at \in {"answering", "framing", "returned"}
                  => up']_vars
  <2> SUFFICES ASSUME Inv, Next, NEW c \in Calls, call'[c] # call[c],
                      call[c].at \in {"answering", "framing", "returned"}
               PROVE  up'
    OBVIOUS
  <2>1. PICK d \in Calls : Step(d)
    BY DEF Next, ForwardFails
  <2>2. PICK s : Ready(s) /\ Becomes(d, s) /\ Moves(call[d].at, s.at)
    BY <2>1, Events DEF Inv
  <2>3. d = c
    BY <2>2 DEF Becomes, Inv
  <2>4. s.at \in {"answering", "framing", "returned"}
    BY <2>2, <2>3 DEF Moves
  <2>5. "answer" \in s.heard /\ "outcome" \in s.heard
    BY <2>2, <2>4 DEF Ready
  <2> QED BY <2>2, <2>5, Zenon DEF Becomes, Unhandled
<1> QED BY <1>1, CapturesInOrder, PTL DEF Spec, LateFailuresContained

-----------------------------------------------------------------------------
(* The refinement *)

\* A call that has ended, or not begun, stays so while events reach it; one that
\* is under way goes on, or ends, and with a frame only if the process survives.
LEMMA PromiseAfter ==
    ASSUME NEW s, Ready(s)
    PROVE  /\ PromiseOf(s) \in {"uncalled", "frame", "error"}
                => PromiseOf(RunOn(s)) = PromiseOf(s)
           /\ PromiseOf(s) = "pending" => PromiseOf(RunOn(s)) \in {"pending", "frame", "error"}
           /\ PromiseOf(RunOn(s)) = "frame" => s.outcome = "frame"
<1> DEFINE t == [s EXCEPT !.at = Phase(s)]
<1>0. s \in CallStates /\ s.at \in Phases
  BY DEF Ready, CallStates
<1>1. t.at = Phase(s)
  BY <1>0 DEF CallStates
<1>2. cleanup(t).at = t.at
  BY <1>0, PhaseOfReady DEF CallStates, cleanup
<1>3. RunOn(s).at = Phase(s)
  BY <1>1, <1>2 DEF RunOn
<1>4. \A r : /\ r.at = "idle" => PromiseOf(r) = "uncalled"
             /\ r.at = "returned" => PromiseOf(r) = "frame"
             /\ r.at = "threw" => PromiseOf(r) = "error"
             /\ r.at \notin {"idle", "returned", "threw"} => PromiseOf(r) = "pending"
  BY DEF PromiseOf
<1>5. /\ s.at = "idle" => Phase(s) = "idle"
      /\ s.at \in Ended => Phase(s) = s.at
      /\ Phase(s) = "idle" => s.at = "idle"
      /\ Phase(s) = "returned" => s.outcome = "frame"
  BY <1>0, PhaseOfReady DEF Phase
<1> QED BY <1>0, <1>3, <1>4, <1>5 DEF Ended

\* captureStreamFrame settles its promise once and for all.
THEOREM CaptureKeepsPromise == Spec => P!Spec
<1> DEFINE pr == [c \in Calls |-> PromiseOf(call[c])]
<1>1. Init => P!Init
  BY DEF Init, P!Init, Uncalled, PromiseOf
<1>2. Inv /\ [Next]_vars => [P!Next]_(P!vars)
  <2> SUFFICES ASSUME Inv, [Next]_vars PROVE [P!Next]_(P!vars)
    OBVIOUS
  <2>1. CASE UNCHANGED vars
    BY <2>1 DEF vars, P!vars
  <2>2. ASSUME NEW c \in Calls, Step(c) PROVE [P!Next]_(P!vars)
    <3>1. PICK s : Ready(s) /\ Becomes(c, s) /\ Moves(call[c].at, s.at)
      BY <2>2, Events DEF Inv
    <3>2. up = TRUE
      BY <2>2, Events DEF Inv
    <3>3. pr' = [pr EXCEPT ![c] = PromiseOf(RunOn(s))]
      <4>1. call' = [call EXCEPT ![c] = RunOn(s)]
        BY <3>1 DEF Becomes
      <4>2. \A d \in Calls : call'[d] = IF d = c THEN RunOn(s) ELSE call[d]
        BY <4>1 DEF Inv
      <4> QED BY <4>2
    <3>4. pr[c] = PromiseOf(call[c])
      OBVIOUS
    <3>5. CASE pr'[c] = pr[c]
      <4>1. pr' = pr
        BY <3>3, <3>5
      <4>2. CASE up'
        BY <3>1, <3>2, <4>1, <4>2 DEF Becomes, P!vars
      <4>3. CASE ~up'
        BY <3>1, <3>2, <4>1, <4>3 DEF Becomes, P!Next, P!Die
      <4> QED BY <4>2, <4>3
    <3>6. CASE pr'[c] # pr[c]
      <4>1. /\ call[c].at \in Phases /\ s.at \in Phases
        BY <3>1 DEF Inv, CallStates, Ready
      <4>2. \A r : /\ r.at = "idle" => PromiseOf(r) = "uncalled"
                   /\ r.at = "returned" => PromiseOf(r) = "frame"
                   /\ r.at = "threw" => PromiseOf(r) = "error"
                   /\ r.at \notin {"idle", "returned", "threw"} => PromiseOf(r) = "pending"
        BY DEF PromiseOf
      <4>3. pr'[c] = PromiseOf(RunOn(s))
        BY <3>3
      <4>4. CASE call[c].at = "idle"
        <5>1. s.at = "port"
          BY <3>1, <3>4, <3>6, <4>2, <4>3, <4>4, PromiseAfter DEF Moves
        <5>2. RunOn(s) = s /\ ~Unhandled(s)
          BY <3>1, <5>1 DEF Ready, CallInv, RunOn, Phase, Ended, Unhandled, CallStates
        <5> QED BY <3>1, <3>2, <3>3, <3>4, <4>2, <4>4, <5>1, <5>2 DEF Becomes, P!Next, P!Call
      <4>5. CASE call[c].at # "idle"
        <5>1. pr[c] = "pending" /\ pr'[c] \in {"frame", "error"}
          BY <3>1, <3>4, <3>6, <4>1, <4>2, <4>3, <4>5, PromiseAfter DEF Moves, Phases, Racing, Ended
        <5>2. CASE up'
          BY <3>1, <3>2, <3>3, <4>3, <5>1, <5>2 DEF Becomes, P!Next, P!Settle, P!Settled
        <5>3. CASE ~up'
          <6>1. Unhandled(s)
            BY <3>1, <5>3 DEF Becomes
          <6>2. pr'[c] = "error"
            BY <3>1, <4>3, <5>1, <6>1, PromiseAfter DEF Ready, Unhandled
          <6> QED BY <3>1, <3>2, <3>3, <4>3, <5>1, <5>3, <6>2 DEF Becomes, P!Next, P!Die
        <5> QED BY <5>2, <5>3
      <4> QED BY <4>4, <4>5
    <3> QED BY <3>5, <3>6
  <2>3. ASSUME NEW c \in Calls, ForwardFails(c) PROVE [P!Next]_(P!vars)
    <3>1. pr' = pr /\ up = TRUE /\ ~up'
      BY <2>3 DEF ForwardFails, Inv
    <3> QED BY <3>1 DEF P!Next, P!Die
  <2> QED BY <2>1, <2>2, <2>3 DEF Next
<1> QED BY <1>1, <1>2, CapturesInOrder, PTL DEF Spec, P!Spec

=============================================================================
