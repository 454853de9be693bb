------------------------------ MODULE EufyLive ------------------------------
(***************************************************************************)
(* A Eufy livestream from the browser to the camera: the tiles of the      *)
(* dashboard page, the WebSocket proxy of its server (cam-frontend) and    *)
(* the sessions of the Eufy server (EufyStreams), for one camera.          *)
(*                                                                         *)
(* A member of Viewers stands for one attempt of some tile to stream: its  *)
(* connection to the proxy, and the one the proxy opens for it upstream.   *)
(* What the page sends is not modelled (mpegts.js sends nothing), nor is   *)
(* the video; only who is connected to whom.                               *)
(***************************************************************************)
EXTENDS EufyStreams

VARIABLES
    page,      \* page[v]: does the tile that made v still hold its player?
    client,    \* client[v]: the proxy's socket to the page
    upstream,  \* upstream[v]: the proxy's socket to the Eufy server
    tookOver   \* history: a viewer has taken a live session over

netVars == <<page, client, upstream>>
liveVars == <<vars, netVars, tookOver>>

Socket == {"none", "connecting", "open", "closing", "closed"}

LiveTypeOK ==
    /\ TypeOK
    /\ page \in [Viewers -> {"none", "held", "released"}]
    /\ client \in [Viewers -> Socket \ {"connecting"}]
    /\ upstream \in [Viewers -> Socket]
    /\ tookOver \in BOOLEAN

LiveInit ==
    /\ Init
    /\ page = [v \in Viewers |-> "none"]
    /\ client = [v \in Viewers |-> "none"]
    /\ upstream = [v \in Viewers |-> "none"]
    /\ tookOver = FALSE

Playing == {v \in Viewers : page[v] = "held"}

-----------------------------------------------------------------------------
(* The page *)

\* start(): stop() of whatever the tile holds, then a new player, which connects.
TileStarts(v) ==
    /\ page[v] = "none"
    /\ \/ page' = [page EXCEPT ![v] = "held"]
       \/ \E w \in Playing : page' = [page EXCEPT ![v] = "held", ![w] = "released"]
    /\ UNCHANGED <<vars, client, upstream, tookOver>>

\* stop(), by the button, the auto-stop timer, a new list of cameras, or the page's end.
TileStops(v) ==
    /\ v \in Playing
    /\ page' = [page EXCEPT ![v] = "released"]
    /\ UNCHANGED <<vars, client, upstream, tookOver>>

-----------------------------------------------------------------------------
(* The proxy *)

\* "upgrade" of /eufy-stream, which may come to be handled after the tile has
\* stopped: the upstream socket is opened at once.
ProxyAccepts(v) ==
    /\ page[v] # "none" /\ client[v] = "none"
    /\ client' = [client EXCEPT ![v] = "open"]
    /\ upstream' = [upstream EXCEPT ![v] = "connecting"]
    /\ UNCHANGED <<vars, page, tookOver>>

\* The handshake with the Eufy server is done.
UpstreamOpens(v) ==
    /\ upstream[v] = "connecting" /\ ws[v] # "none"
    /\ upstream' = [upstream EXCEPT ![v] = "open"]
    /\ UNCHANGED <<vars, page, client, tookOver>>

\* upstream.close(): a handshake is aborted, an open socket says goodbye.
CloseUpstream_Open(v) ==      \* mutant: only `if (upstream.readyState === OPEN)`
    upstream' = [upstream EXCEPT ![v] = IF @ = "open" THEN "closing" ELSE @]

CloseUpstream(v) ==
    upstream' = [upstream EXCEPT ![v] = IF @ = "connecting" THEN "closed"
                                        ELSE IF @ = "open" THEN "closing" ELSE @]

\* "close" (or "error") of the page's socket: the tile let go of it, or answers the
\* proxy's own close.
ClientEnds_Alone(v) ==        \* mutant: no handler closes the upstream
    /\ \/ client[v] = "open" /\ page[v] = "released"
       \/ client[v] = "closing"
    /\ client' = [client EXCEPT ![v] = "closed"]
    /\ UNCHANGED <<vars, page, upstream, tookOver>>

ClientEnds(v) ==
    /\ \/ client[v] = "open" /\ page[v] = "released"
       \/ client[v] = "closing"
    /\ client' = [client EXCEPT ![v] = "closed"]
    /\ CloseUpstream(v)
    /\ UNCHANGED <<vars, page, tookOver>>

\* "close" (or "error") of the upstream socket: the Eufy server closed it or answers
\* the proxy's close, has died, or refuses the connection because it had.
UpstreamEnds_Alone(v) ==      \* mutant: no handler closes the client
    /\ \/ upstream[v] \in {"open", "closing"} /\ ws[v] \in {"closing", "closed"}
       \/ upstream[v] \in {"connecting", "open", "closing"} /\ ~up
    /\ upstream' = [upstream EXCEPT ![v] = "closed"]
    /\ UNCHANGED <<vars, page, client, tookOver>>

UpstreamEnds(v) ==
    /\ \/ upstream[v] \in {"open", "closing"} /\ ws[v] \in {"closing", "closed"}
       \/ upstream[v] \in {"connecting", "open", "closing"} /\ ~up
    /\ upstream' = [upstream EXCEPT ![v] = "closed"]
    /\ client' = [client EXCEPT ![v] = IF @ = "open" THEN "closing" ELSE @]
    /\ UNCHANGED <<vars, page, tookOver>>

-----------------------------------------------------------------------------
(* The Eufy server *)

\* The request of the proxy arrives, which may have aborted it since.
ServerAccepts(v) ==
    /\ upstream[v] # "none"
    /\ ViewerConnects(v)
    /\ tookOver' = (tookOver \/ session # NoOne)
    /\ UNCHANGED netVars

\* "close" at the Eufy server: the proxy has closed its end, or answers.
ServerLeft(v) ==
    /\ ws[v] = "open" => upstream[v] \in {"closing", "closed"}
    /\ ViewerCloses(v)
    /\ UNCHANGED <<netVars, tookOver>>

\* Everything else it does on its own.
ServerRuns ==
    /\ \/ CloudConnects \/ CloudCloses \/ CameraStops \/ LivestreamStarts
       \/ \E v \in Viewers : \/ SessionStored(v) \/ StreamRequested(v)
                             \/ StreamRefused(v) \/ FfmpegExits(v)
       \/ \E r \in Refreshers : SnapshotStep(r)
    /\ UNCHANGED <<netVars, tookOver>>

-----------------------------------------------------------------------------
\* What the network and the ends of a connection do unasked.
NetStep(v) ==
    \/ page[v] = "held" /\ ProxyAccepts(v)
    \/ client[v] = "open" /\ ServerAccepts(v)
    \/ UpstreamOpens(v) \/ UpstreamEnds(v) \/ ClientEnds(v)
    \/ ServerLeft(v)

LiveNext ==
    \/ ServerRuns
    \/ \E v \in Viewers : \/ TileStarts(v) \/ TileStops(v)
                          \/ ProxyAccepts(v) \/ UpstreamOpens(v)
                          \/ ClientEnds(v) \/ UpstreamEnds(v)
                          \/ ServerAccepts(v) \/ ServerLeft(v)

LiveSpec == LiveInit /\ [][LiveNext]_liveVars

\* The server's own fairness, and a network that delivers requests and closes; of a
\* request that is abandoned nothing is promised.  (A connection takes each of these
\* steps once, so that one condition for all of them loses none.)
LiveFairness == Fairness /\ \A v \in Viewers : WF_liveVars(NetStep(v))

LiveFairSpec == LiveSpec /\ LiveFairness

-----------------------------------------------------------------------------
(* Properties *)

Lost(v) == client[v] \in {"closing", "closed"}

Watched == \E v \in Playing : ~Lost(v)

\* Battery, end to end: when the last tile has stopped, or has lost its connection, the
\* camera stops streaming, unless one viewer ever took another's session over or had
\* its start call rejected.
CameraSleepsUnwatched ==
    camera = "streaming" /\ ~Watched
        ~> camera # "streaming" \/ Watched \/ tookOver \/ ViewerRefused \/ ~up

\* In the end, and for good (each attempt is made and let go of once): what a tile let
\* go of is not connected to the Eufy server, whichever of the two handshakes it was
\* in the middle of ...
AbandonedCloses ==
    <>[](up => \A v \in Viewers : page[v] = "released" => ws[v] \in {"none", "closed"})

\* ... and a player whose start call the Eufy server answered with an error and a close,
\* or whose server died, has its connection closed, too.
CloseReachesPlayer ==
    <>[](\A v \in Playing : ws[v] \in {"closing", "closed"} \/ ~up => Lost(v))

\* The same as CameraSleepsUnwatched after a take-over, too.
CameraAlwaysSleeps ==
    camera = "streaming" /\ ~Watched ~> camera # "streaming" \/ Watched \/ ~up

\* A tile that goes on holding its player has the session in the end, or has lost it
\* to another tile that plays, or has lost its connection.
PlayerIsServed ==
    \A v \in Viewers :
        page[v] = "held" /\ task[v] = "running"
            ~> page[v] # "held" \/ Lost(v) \/ session \in Playing \/ ~up

\* A tile lets go of a player whose connection was closed.  (The close is a clean one,
\* at which mpegts.js reports the end of loading; the tile listens to errors only.)
TileNotices == \A v \in Viewers : page[v] = "held" /\ Lost(v) ~> page[v] # "held"
=============================================================================
