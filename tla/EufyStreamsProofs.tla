-------------------------- MODULE EufyStreamsProofs --------------------------
(***************************************************************************)
(* Theorems about EufyStreams for any sets of viewers and callers, and     *)
(* about EufyLive, which composes it with the page and the proxy.          *)
(*                                                                         *)
(* TypeOK is inductive by itself.  RefreshInv, the conjunction of what is  *)
(* claimed of the pending entry, the owners and their timeouts, is         *)
(* inductive relative to it, and so is AwakeHasConsumer when the calls     *)
(* that stop a stream do not fail.  EufyLive implements EufyStreams, and   *)
(* so has all of it.                                                       *)
(***************************************************************************)
EXTENDS EufyLive, TLAPS

USE SetsAssumption, FaultAssumption, CaptureAssumption
    DEF SetsAssumption, FaultAssumption, CaptureAssumption

\* The initial state is well typed.
LEMMA InitTypeOK == Init => TypeOK
<1> SUFFICES ASSUME Init PROVE TypeOK
  OBVIOUS
<1>1. timer \in [Refreshers -> BOOLEAN]
  BY Zenon DEF Init
<1>2. captures \in [Refreshers -> 0..MaxCaptures]
  BY DEF Init
<1>3. QED
  BY <1>1, <1>2 DEF Init, TypeOK

\* A viewer's step (socket, startSession, stopSession, ffmpeg) keeps the types.
LEMMA ViewerTypeOK ==
    ASSUME NEW v \in Viewers, TypeOK, ViewerStep(v)
    PROVE  TypeOK'
<1>1. CASE ViewerConnects(v)
  BY <1>1 DEF ViewerConnects, TypeOK, Running, stopSession, stopStationLivestream, snapVars
<1>2. CASE SessionStored(v)
  BY <1>2 DEF SessionStored, TypeOK, Running, snapVars
<1>3. CASE StreamRequested(v)
  BY <1>3 DEF StreamRequested, TypeOK, Running, startStationLivestream, snapVars
<1>4. CASE StreamRefused(v)
  BY <1>4 DEF StreamRefused, TypeOK, Running, snapVars
<1>5. CASE ViewerCloses(v)
  BY <1>5 DEF ViewerCloses, TypeOK, Running, stopSession, stopStationLivestream, snapVars
<1>6. CASE FfmpegExits(v)
  BY <1>6 DEF FfmpegExits, TypeOK, Running, snapVars
<1>7. QED
  BY <1>1, <1>2, <1>3, <1>4, <1>5, <1>6 DEF ViewerStep

\* A caller's step (refreshSnapshot, its timeout, its capture) keeps the types.
LEMMA SnapshotTypeOK ==
    ASSUME NEW r \in Refreshers, TypeOK, SnapshotStep(r)
    PROVE  TypeOK'
<1>1. CASE RefreshSnapshot(r)
  <2>1. timer' \in [Refreshers -> BOOLEAN]
    BY <1>1 DEF RefreshSnapshot, TypeOK
  <2>2. refresh' \in [Refreshers -> {"idle", "starting", "waiting", "joined", "failed"}]
    BY <1>1 DEF RefreshSnapshot, TypeOK
  <2>3. promise' \in [Refreshers -> {"none", "unsettled", "resolved", "rejected"}]
    BY <1>1 DEF RefreshSnapshot, TypeOK
  <2>4. shares' \in [Refreshers -> Refreshers \cup {NoOne}]
    BY <1>1 DEF RefreshSnapshot, TypeOK
  <2>5. pending' \in Refreshers \cup {NoOne}
    BY <1>1 DEF RefreshSnapshot, TypeOK
  <2>6. QED
    BY <1>1, <2>1, <2>2, <2>3, <2>4, <2>5 DEF RefreshSnapshot, TypeOK, Running, viewVars
<1>2. CASE RefreshAccepted(r)
  BY <1>2 DEF RefreshAccepted, TypeOK, Running, startStationLivestream, viewVars
<1>3. CASE RefreshRefused(r)
  BY <1>3 DEF RefreshRefused, TypeOK, Running, viewVars
<1>4. CASE RefreshTimesOut(r)
  BY <1>4 DEF RefreshTimesOut, TypeOK, settle, stopStationLivestream, viewVars
<1>5. CASE CaptureEnds(r)
  <2>1. (captures[r] - 1) \in 0..MaxCaptures
    BY <1>5 DEF CaptureEnds, TypeOK
  <2>2. QED
    BY <1>5, <2>1 DEF CaptureEnds, CaptureOutcome, TypeOK, settle, stopStationLivestream, viewVars
<1>6. QED
  BY <1>1, <1>2, <1>3, <1>4, <1>5 DEF SnapshotStep

\* The start of the livestream, routed to a capture, a session or nobody,
\* keeps the types.
LEMMA LivestreamTypeOK ==
    ASSUME TypeOK, LivestreamStarts
    PROVE  TypeOK'
<1>1. UNCHANGED <<connected, session, ws, task, pending, refresh, shares, promise, timer>>
  BY DEF LivestreamStarts
<1>2. up' \in BOOLEAN
  BY Zenon DEF LivestreamStarts, StreamToCapture, startFfmpeg, StreamToNobody, TypeOK
<1>3. CASE StreamToCapture
  <2>1. (captures[pending] + 1) \in 0..MaxCaptures
    BY <1>3 DEF StreamToCapture, TypeOK
  <2> QED BY <1>1, <1>2, <1>3, <2>1 DEF StreamToCapture, TypeOK
<1>4. CASE startFfmpeg
  <2>1. ffmpeg' \in SUBSET Viewers /\ camera' = "streaming" /\ captures' = captures
    BY <1>4 DEF startFfmpeg, TypeOK
  <2> QED BY <1>1, <1>2, <2>1 DEF TypeOK
<1>5. CASE StreamToNobody
  BY <1>1, <1>2, <1>5 DEF StreamToNobody, TypeOK
<1> QED
  BY <1>3, <1>4, <1>5 DEF LivestreamStarts

\* Every reachable state of the sessions and snapshots is well typed.
THEOREM StreamsTypeOK == Spec => []TypeOK
<1>1. TypeOK /\ [Next]_vars => TypeOK'
  <2> SUFFICES ASSUME TypeOK, [Next]_vars PROVE TypeOK'
    OBVIOUS
  <2>1. CASE CloudConnects \/ CloudCloses \/ CameraStops
    BY <2>1 DEF CloudConnects, CloudCloses, CameraStops, TypeOK, Running, viewVars, snapVars
  <2>2. CASE LivestreamStarts
    BY <2>2, LivestreamTypeOK
  <2>3. CASE \E v \in Viewers : ViewerStep(v)
    BY <2>3, ViewerTypeOK
  <2>4. CASE \E r \in Refreshers : SnapshotStep(r)
    BY <2>4, SnapshotTypeOK
  <2>5. CASE UNCHANGED vars
    BY <2>5 DEF vars, viewVars, snapVars, TypeOK
  <2>6. QED
    BY <2>1, <2>2, <2>3, <2>4, <2>5 DEF Next
<1>2. QED
  BY <1>1, InitTypeOK, PTL DEF Spec

-----------------------------------------------------------------------------
(* The pending entry and the timeouts *)

RefreshInv == PendingIsLive /\ OwnersAreTimed

\* What the three conjuncts speak of.
refreshState == <<pending, refresh, promise, timer>>

\* A step that leaves the entry, the callers, their promises and timeouts
\* alone leaves the invariant alone.
LEMMA RefreshFrame ==
    ASSUME RefreshInv, UNCHANGED refreshState
    PROVE  RefreshInv'
BY DEF RefreshInv, refreshState, PendingIsLive, OwnersAreTimed, Owner

\* A step of refreshSnapshot, of its timeout or of its capture preserves it.
LEMMA SnapshotRefreshInv ==
    ASSUME NEW r \in Refreshers, TypeOK, RefreshInv, SnapshotStep(r)
    PROVE  RefreshInv'
<1> USE DEF TypeOK, RefreshInv, PendingIsLive, OwnersAreTimed, Owner
<1>1. CASE RefreshSnapshot(r)
  BY <1>1 DEF RefreshSnapshot
<1>2. CASE RefreshAccepted(r)
  BY <1>2 DEF RefreshAccepted
<1>3. CASE RefreshRefused(r)
  BY <1>3 DEF RefreshRefused
<1>4. CASE RefreshTimesOut(r)
  BY <1>4 DEF RefreshTimesOut, settle
<1>5. CASE CaptureEnds(r)
  BY <1>5 DEF CaptureEnds, CaptureOutcome, settle
<1>6. QED
  BY <1>1, <1>2, <1>3, <1>4, <1>5 DEF SnapshotStep

\* Steps of the viewers, the camera and the cloud do not touch it.
LEMMA OthersKeepRefresh ==
    ASSUME NEW v \in Viewers,
           \/ CloudConnects \/ CloudCloses \/ CameraStops
           \/ LivestreamStarts \/ ViewerStep(v)
    PROVE  UNCHANGED refreshState
BY DEF CloudConnects, CloudCloses, CameraStops, LivestreamStarts, ViewerStep,
       ViewerConnects, SessionStored, StreamRequested, StreamRefused,
       ViewerCloses, FfmpegExits, snapVars, refreshState

\* The pending entry is always safe to join, an owner that is not answered
\* always has its timeout armed, and no timeout outlives its refresh.
THEOREM RefreshInvariant == Spec => []RefreshInv
<1>1. Init => RefreshInv
  BY DEF Init, RefreshInv, PendingIsLive, OwnersAreTimed, Owner
<1>2. TypeOK /\ RefreshInv /\ [Next]_vars => RefreshInv'
  <2> SUFFICES ASSUME TypeOK, RefreshInv, [Next]_vars PROVE RefreshInv'
    OBVIOUS
  <2>1. CASE CloudConnects \/ CloudCloses \/ CameraStops \/ LivestreamStarts
    <3>1. UNCHANGED refreshState
      BY <2>1 DEF CloudConnects, CloudCloses, CameraStops, LivestreamStarts,
                  snapVars, refreshState
    <3>2. QED
      BY <3>1, RefreshFrame
  <2>2. CASE \E v \in Viewers : ViewerStep(v)
    BY <2>2, OthersKeepRefresh, RefreshFrame
  <2>3. CASE \E r \in Refreshers : SnapshotStep(r)
    BY <2>3, SnapshotRefreshInv
  <2>4. CASE UNCHANGED vars
    <3>1. UNCHANGED refreshState
      BY <2>4 DEF vars, snapVars, refreshState
    <3>2. QED
      BY <3>1, RefreshFrame
  <2>5. QED
    BY <2>1, <2>2, <2>3, <2>4 DEF Next
<1>3. QED
  BY <1>1, <1>2, StreamsTypeOK, PTL DEF Spec

\* A caller that finds a pending entry joins a promise that is not settled
\* and whose owner's timeout will settle it.
THEOREM PendingIsSafeToJoin == Spec => []PendingIsLive
<1>1. RefreshInv => PendingIsLive
  BY DEF RefreshInv
<1>2. QED
  BY <1>1, RefreshInvariant, PTL

\* No owner of a refresh is ever left without a timeout, and no timeout outlives the
\* refresh it guards.
THEOREM OwnersNeverStranded == Spec => []OwnersAreTimed
<1>1. RefreshInv => OwnersAreTimed
  BY DEF RefreshInv
<1>2. QED
  BY <1>1, RefreshInvariant, PTL

-----------------------------------------------------------------------------
(* The camera's sleep *)

\* A viewer's step leaves no stream running without a consumer: whoever empties
\* the Map's entry has stopped the stream.
LEMMA ViewerAwake ==
    ASSUME ~StopFails, NEW v \in Viewers,
           TypeOK, AwakeHasConsumer, ViewerStep(v)
    PROVE  AwakeHasConsumer'
<1> USE DEF TypeOK, AwakeHasConsumer, ViewerRefused, snapVars
<1>1. CASE ViewerConnects(v)
  BY <1>1 DEF ViewerConnects, stopSession, stopStationLivestream
<1>2. CASE SessionStored(v)
  BY <1>2 DEF SessionStored
<1>3. CASE StreamRequested(v)
  BY <1>3 DEF StreamRequested, startStationLivestream
<1>4. CASE StreamRefused(v)
  BY <1>4 DEF StreamRefused
<1>5. CASE ViewerCloses(v)
  BY <1>5 DEF ViewerCloses, stopSession, stopStationLivestream
<1>6. CASE FfmpegExits(v)
  BY <1>6 DEF FfmpegExits
<1>7. QED
  BY <1>1, <1>2, <1>3, <1>4, <1>5, <1>6 DEF ViewerStep

\* Neither does a snapshot's: a timeout or the end of a capture stops the stream.
LEMMA SnapshotAwake ==
    ASSUME ~StopFails, NEW r \in Refreshers,
           TypeOK, AwakeHasConsumer, SnapshotStep(r)
    PROVE  AwakeHasConsumer'
<1> USE DEF TypeOK, AwakeHasConsumer, ViewerRefused, viewVars
<1>1. CASE RefreshSnapshot(r)
  BY <1>1 DEF RefreshSnapshot
<1>2. CASE RefreshAccepted(r)
  BY <1>2 DEF RefreshAccepted, startStationLivestream
<1>3. CASE RefreshRefused(r)
  BY <1>3 DEF RefreshRefused
<1>4. CASE RefreshTimesOut(r)
  BY <1>4 DEF RefreshTimesOut, stopStationLivestream
<1>5. CASE CaptureEnds(r)
  BY <1>5 DEF CaptureEnds, stopStationLivestream
<1>6. QED
  BY <1>1, <1>2, <1>3, <1>4, <1>5 DEF SnapshotStep

\* When the calls that stop a stream do not fail, a streaming camera always has a live
\* session or a frame capture that will stop it, until a viewer's start call is rejected.
THEOREM CameraAccountedFor ==
    ASSUME ~StopFails
    PROVE  Spec => []AwakeHasConsumer
<1>1. Init => AwakeHasConsumer
  BY DEF Init, AwakeHasConsumer
<1>2. TypeOK /\ AwakeHasConsumer /\ [Next]_vars => AwakeHasConsumer'
  <2> SUFFICES ASSUME TypeOK, AwakeHasConsumer, [Next]_vars
               PROVE  AwakeHasConsumer'
    OBVIOUS
  <2>1. CASE CloudConnects \/ CloudCloses \/ CameraStops
    BY <2>1 DEF CloudConnects, CloudCloses, CameraStops, AwakeHasConsumer, ViewerRefused, viewVars, snapVars
  <2>2. CASE LivestreamStarts
    <3>1. UNCHANGED <<session, task, pending>>
      BY <2>2 DEF LivestreamStarts
    <3>2. CASE StreamToCapture
      <4>1. pending \in Refreshers /\ captures'[pending] > 0
        BY <3>2 DEF StreamToCapture, TypeOK
      <4> QED BY <4>1 DEF AwakeHasConsumer
    <3>3. CASE startFfmpeg
      <4>1. session' # NoOne
        BY <3>1, <3>3 DEF startFfmpeg
      <4> QED BY <4>1 DEF AwakeHasConsumer
    <3>4. CASE StreamToNobody
      BY <3>4 DEF StreamToNobody, AwakeHasConsumer
    <3> QED BY <2>2, <3>2, <3>3, <3>4 DEF LivestreamStarts
  <2>3. CASE \E v \in Viewers : ViewerStep(v)
    BY <2>3, ViewerAwake
  <2>4. CASE \E r \in Refreshers : SnapshotStep(r)
    BY <2>4, SnapshotAwake
  <2>5. CASE UNCHANGED vars
    BY <2>5 DEF vars, viewVars, snapVars, AwakeHasConsumer, ViewerRefused
  <2>6. QED
    BY <2>1, <2>2, <2>3, <2>4, <2>5 DEF Next
<1>3. QED
  BY <1>1, <1>2, StreamsTypeOK, PTL DEF Spec

-----------------------------------------------------------------------------
(* The composition *)

\* The steps of a connection that reach the Eufy server are steps of it, the others
\* leave it alone.
LEMMA ConnectionIsServerStep ==
    ASSUME NEW v \in Viewers,
           \/ TileStarts(v) \/ TileStops(v)
           \/ ProxyAccepts(v) \/ UpstreamOpens(v) \/ ClientEnds(v) \/ UpstreamEnds(v)
           \/ ServerAccepts(v) \/ ServerLeft(v)
    PROVE  [Next]_vars
<1>1. CASE TileStarts(v) \/ TileStops(v)
  BY <1>1 DEF TileStarts, TileStops
<1>2. CASE ProxyAccepts(v) \/ UpstreamOpens(v) \/ ClientEnds(v) \/ UpstreamEnds(v)
  BY <1>2 DEF ProxyAccepts, UpstreamOpens, ClientEnds, UpstreamEnds
<1>3. CASE ServerAccepts(v) \/ ServerLeft(v)
  BY <1>3 DEF ServerAccepts, ServerLeft, Next, ViewerStep
<1>4. QED
  BY <1>1, <1>2, <1>3

\* However the page and the proxy open and close their sockets, the Eufy server behind
\* them behaves as EufyStreams says.
THEOREM LiveImplementsStreams == LiveSpec => Spec
<1>1. LiveInit => Init
  BY DEF LiveInit
<1>2. [LiveNext]_liveVars => [Next]_vars
  <2> SUFFICES ASSUME [LiveNext]_liveVars PROVE [Next]_vars
    OBVIOUS
  <2>1. CASE ServerRuns
    BY <2>1 DEF ServerRuns, Next, ViewerStep
  <2>2. CASE \E v \in Viewers : \/ TileStarts(v) \/ TileStops(v)
                                \/ ProxyAccepts(v) \/ UpstreamOpens(v)
                                \/ ClientEnds(v) \/ UpstreamEnds(v)
                                \/ ServerAccepts(v) \/ ServerLeft(v)
    BY <2>2, ConnectionIsServerStep
  <2>3. CASE UNCHANGED liveVars
    BY <2>3 DEF liveVars
  <2>4. QED
    BY <2>1, <2>2, <2>3 DEF LiveNext
<1>3. QED
  BY <1>1, <1>2, PTL DEF LiveSpec, Spec

\* Streaming through the dashboard, too, the camera is always accounted for.
COROLLARY LiveCameraAccountedFor ==
    ASSUME ~StopFails
    PROVE  LiveSpec => []AwakeHasConsumer
BY CameraAccountedFor, LiveImplementsStreams

\* The sockets and tiles are well typed too.
NetOK ==
    /\ page \in [Viewers -> {"none", "held", "released"}]
    /\ client \in [Viewers -> Socket \ {"connecting"}]
    /\ upstream \in [Viewers -> Socket]

HistoryOK == tookOver \in BOOLEAN

LEMMA ConnectionKeepsNet ==
    ASSUME NetOK, NEW v \in Viewers,
           \/ TileStarts(v) \/ TileStops(v)
           \/ ProxyAccepts(v) \/ UpstreamOpens(v) \/ ClientEnds(v) \/ UpstreamEnds(v)
           \/ ServerAccepts(v) \/ ServerLeft(v)
    PROVE  NetOK'
<1>1. CASE TileStarts(v)
  <2>1. CASE page' = [page EXCEPT ![v] = "held"]
    BY <1>1, <2>1 DEF TileStarts, NetOK
  <2>2. ASSUME NEW w \in Viewers, page' = [page EXCEPT ![v] = "held", ![w] = "released"]
        PROVE  NetOK'
    BY <1>1, <2>2 DEF TileStarts, NetOK
  <2> QED BY <1>1, <2>1, <2>2 DEF TileStarts, Playing
<1>2. CASE TileStops(v)
  BY <1>2 DEF TileStops, NetOK
<1>3. CASE ProxyAccepts(v) \/ UpstreamOpens(v)
  BY <1>3 DEF ProxyAccepts, UpstreamOpens, NetOK, Socket
<1>4. CASE ClientEnds(v)
  BY <1>4 DEF ClientEnds, CloseUpstream, NetOK, Socket
<1>5. CASE UpstreamEnds(v)
  BY <1>5 DEF UpstreamEnds, NetOK, Socket
<1>6. CASE ServerAccepts(v) \/ ServerLeft(v)
  BY <1>6 DEF ServerAccepts, ServerLeft, netVars, NetOK
<1> QED BY <1>1, <1>2, <1>3, <1>4, <1>5, <1>6

\* Every reachable state of page, proxy and server is well typed, for any viewers and
\* callers.
THEOREM LiveIsTyped == LiveSpec => []LiveTypeOK
<1>1. LiveInit => NetOK /\ HistoryOK
  BY DEF LiveInit, NetOK, HistoryOK, Socket
<1>2. NetOK /\ [LiveNext]_liveVars => NetOK'
  <2> SUFFICES ASSUME NetOK, [LiveNext]_liveVars PROVE NetOK'
    OBVIOUS
  <2>1. CASE ServerRuns
    BY <2>1 DEF ServerRuns, netVars, NetOK
  <2>2. CASE \E v \in Viewers : \/ TileStarts(v) \/ TileStops(v)
                                \/ ProxyAccepts(v) \/ UpstreamOpens(v)
                                \/ ClientEnds(v) \/ UpstreamEnds(v)
                                \/ ServerAccepts(v) \/ ServerLeft(v)
    BY <2>2, ConnectionKeepsNet
  <2>3. CASE UNCHANGED liveVars
    BY <2>3 DEF liveVars, netVars, NetOK
  <2> QED BY <2>1, <2>2, <2>3 DEF LiveNext
<1>3. HistoryOK /\ [LiveNext]_liveVars => HistoryOK'
  BY Zenon DEF HistoryOK, LiveNext, liveVars, ServerRuns, TileStarts, TileStops, ProxyAccepts,
     UpstreamOpens, ClientEnds, UpstreamEnds, ServerAccepts, ServerLeft
<1>4. TypeOK /\ NetOK /\ HistoryOK => LiveTypeOK
  BY DEF LiveTypeOK, NetOK, HistoryOK
<1> QED
  BY <1>1, <1>2, <1>3, <1>4, LiveImplementsStreams, StreamsTypeOK, PTL DEF LiveSpec
=============================================================================
