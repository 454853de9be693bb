------------------------------ MODULE EufyTile ------------------------------
(***************************************************************************)
(* One Eufy camera in the dashboard page (EufyStreamSession and the code   *)
(* around it in cam-frontend/public/viewer.html): loading its tile, its    *)
(* live view, the views that detections open, its thumbnail, and the event *)
(* stream that the Eufy viewer sends (broadcastEvent in eufy/server.js).   *)
(* The camera is taken to be one that the Eufy viewer lists.               *)
(*                                                                         *)
(* An image is the number of the snapshot it shows, 0 being none.          *)
(***************************************************************************)
EXTENDS Naturals, Sequences

CONSTANTS
    MaxShots,   \* bound: snapshots saved
    MaxQueue,   \* bound: events on their way to the page
    MaxLoads,   \* bound: camera lists on their way to the page
    MaxClients, \* bound: subscriptions to the event stream
    None, Asked \* no request for the thumbnail, and one not answered yet

ASSUME Bounds == /\ MaxShots \in Nat \ {0}
                 /\ {MaxQueue, MaxLoads, MaxClients} \subseteq Nat

ASSUME Requests == None \notin Nat /\ Asked \notin Nat /\ None # Asked

VARIABLES
    cache,      \* snapshotCache of the Eufy viewer
    clients,    \* its sseClients that lead, or led, to this page
    subscribed, \* the page's EventSource is connected
    events,     \* on their way to the page, in order
    connected,  \* eufyConnected
    loaded,     \* eufyLoaded: the tile exists
    loads,      \* camera lists requested and not yet answered
    retry,      \* the timer in eufyCamRetry runs
    strays,     \* retry timers that eufyCamRetry has forgotten
    banner,     \* the banner shows that a list could not be loaded
    live,       \* the player: "off" is null
    auto,       \* autoStarted
    timer,      \* autoStopTimer runs
    opener,     \* history: who opened the live view
    waking,     \* refreshThumb, up to its answer
    overlay,    \* the overlay covers the picture
    image,      \* the thumbnail's request: None, Asked, or the answer to it
    thumb,      \* the thumbnail shown
    missed,     \* history: a snapshot event was lost since the image was last served
    failed      \* history: the last load of the thumbnail failed

server == <<cache, clients>>
stream == <<subscribed, events, missed>>
lists == <<connected, loaded, loads, retry, strays, banner>>
view == <<live, auto, timer, opener>>
picture == <<overlay, image, thumb, failed>>

vars == <<server, stream, lists, view, waking, picture>>

Shots == 0..MaxShots

TypeOK ==
    /\ cache \in Shots
    /\ clients \in 0..MaxClients
    /\ subscribed \in BOOLEAN
    /\ events \in Seq({"person", "snapshot"}) /\ Len(events) <= MaxQueue
    /\ connected \in BOOLEAN /\ loaded \in BOOLEAN
    /\ loads \in 0..MaxLoads
    /\ retry \in BOOLEAN
    /\ strays \in 0..MaxLoads
    /\ banner \in BOOLEAN
    /\ live \in {"off", "starting", "playing", "failed"}
    /\ auto \in BOOLEAN /\ timer \in BOOLEAN
    /\ opener \in {"nobody", "user", "detection"}
    /\ waking \in {"no", "asked", "saved"}
    /\ overlay \in BOOLEAN
    /\ image \in {None, Asked} \cup Shots
    /\ thumb \in Shots
    /\ missed \in BOOLEAN /\ failed \in BOOLEAN

Init ==
    /\ cache \in {0, 1} /\ clients = 0
    /\ subscribed = FALSE /\ events = <<>> /\ missed = FALSE
    /\ connected = FALSE /\ loaded = FALSE /\ loads = 0 /\ retry = FALSE
    /\ strays = 0 /\ banner = FALSE
    /\ live = "off" /\ auto = FALSE /\ timer = FALSE /\ opener = "nobody"
    /\ waking = "no"
    /\ overlay = TRUE /\ image = None /\ thumb = 0 /\ failed = FALSE

-----------------------------------------------------------------------------
(* The Eufy viewer *)

\* broadcastEvent, as far as this page is concerned.
Broadcast(event) ==
    IF subscribed
    THEN /\ Len(events) < MaxQueue
         /\ events' = Append(events, event)
         /\ missed' = missed
    ELSE /\ events' = events
         /\ missed' = (missed \/ event = "snapshot")

\* saveSnapshot: an event's thumbnail, a scheduled snapshot, or the one asked for.
saveSnapshot ==
    /\ cache < MaxShots
    /\ cache' = cache + 1
    /\ Broadcast("snapshot")
    /\ waking' \in {waking, IF waking = "asked" THEN "saved" ELSE waking}
    /\ UNCHANGED <<clients, subscribed, lists, view, picture>>

PersonDetected ==
    /\ Broadcast("person")
    /\ UNCHANGED <<server, subscribed, lists, view, waking, picture>>

\* GET /api/events, through the dashboard's proxy.
Subscribe ==
    /\ ~subscribed /\ clients < MaxClients
    /\ subscribed' = TRUE
    /\ clients' = clients + 1
    /\ UNCHANGED <<cache, events, missed, lists, view, waking, picture>>

\* The page's connection to the proxy is lost.  The proxy does not give up its
\* own request, so the Eufy viewer keeps the client.
Disconnect ==
    /\ subscribed
    /\ subscribed' = FALSE
    /\ events' = <<>>
    /\ missed' = (missed \/ \E k \in DOMAIN events : events[k] = "snapshot")
    /\ UNCHANGED <<server, lists, view, waking, picture>>

\* GET /api/snapshot/:sn
ServeImage ==
    /\ image = Asked
    /\ image' = cache
    /\ missed' = FALSE
    /\ UNCHANGED <<server, subscribed, events, lists, view, waking, overlay, thumb, failed>>

-----------------------------------------------------------------------------
(* The live view *)

\* stop(), also the first thing that start() does.  It leaves an overlay only on a
\* tile without a thumbnail.
disarm_KeepsTimer ==                \* mutant: the timer is not cleared
    auto' = FALSE /\ timer' = timer

disarm == auto' = FALSE /\ timer' = FALSE

stop ==
    /\ disarm
    /\ live' = "off" /\ opener' = "nobody"

HasPicture == image # None \/ thumb # 0

StartClicked ==
    /\ loaded
    /\ disarm
    /\ live' = "starting" /\ opener' = "user"
    /\ overlay' = TRUE
    /\ UNCHANGED <<server, stream, lists, waking, image, thumb, failed>>

StopClicked ==
    /\ loaded
    /\ stop
    /\ overlay' = ~HasPicture
    /\ UNCHANGED <<server, stream, lists, waking, image, thumb, failed>>

\* The video element plays, or the player reports an error.
Plays ==
    /\ live = "starting"
    /\ live' = "playing"
    /\ overlay' = FALSE
    /\ UNCHANGED <<server, stream, lists, auto, timer, opener, waking, image, thumb, failed>>

PlayerFails ==
    /\ live \in {"starting", "playing"}
    /\ live' = "failed"
    /\ overlay' = TRUE
    /\ UNCHANGED <<server, stream, lists, auto, timer, opener, waking, image, thumb, failed>>

AutoStop ==
    /\ timer
    /\ stop
    /\ overlay' = ~HasPicture
    /\ UNCHANGED <<server, stream, lists, waking, image, thumb, failed>>

\* autoCapture: a manually started view is left alone; otherwise the timer starts over.
autoCapture ==
    IF live # "off" /\ ~auto
    THEN UNCHANGED <<view, overlay>>
    ELSE /\ auto' = TRUE /\ timer' = TRUE
         /\ IF live = "off"
            THEN live' = "starting" /\ opener' = "detection" /\ overlay' = TRUE
            ELSE UNCHANGED <<live, opener, overlay>>

-----------------------------------------------------------------------------
(* The thumbnail *)

ImageArrives ==
    /\ image \in Shots
    /\ thumb' = image
    /\ image' = None
    /\ overlay' = IF image # 0 /\ live = "off" THEN FALSE ELSE overlay
    /\ UNCHANGED <<server, stream, lists, view, waking, failed>>

\* The request or its answer is lost, or the proxy cannot reach the Eufy viewer: onerror
\* removes the picture, leaves the overlay as it is, and nothing loads the image again.
ImageFails ==
    /\ image # None
    /\ image' = None /\ thumb' = 0
    /\ failed' = TRUE
    /\ UNCHANGED <<server, stream, lists, view, waking, overlay>>

\* refreshThumb, not while the view is live; its button is disabled meanwhile.
RefreshThumb ==
    /\ loaded /\ live = "off" /\ waking = "no"
    /\ waking' = "asked"
    /\ overlay' = TRUE
    /\ UNCHANGED <<server, stream, lists, view, image, thumb, failed>>

RefreshAnswered ==
    /\ waking = "saved"
    /\ waking' = "no"
    /\ image' = Asked /\ failed' = FALSE
    /\ UNCHANGED <<server, stream, lists, view, overlay, thumb>>

RefreshFails ==
    /\ waking \in {"asked", "saved"}
    /\ waking' = "no"
    /\ overlay' = TRUE
    /\ UNCHANGED <<server, stream, lists, view, image, thumb, failed>>

\* es.onmessage: without a tile an event is dropped.
EventArrives_NoReload ==            \* mutant: a snapshot event reloads nothing
    /\ events # <<>>
    /\ events' = Tail(events)
    /\ IF Head(events) = "person" /\ loaded THEN autoCapture ELSE UNCHANGED <<view, overlay>>
    /\ UNCHANGED <<server, subscribed, missed, lists, waking, image, thumb, failed>>

EventArrives ==
    /\ events # <<>>
    /\ events' = Tail(events)
    /\ IF Head(events) = "person" /\ loaded THEN autoCapture ELSE UNCHANGED <<view, overlay>>
    /\ IF Head(events) = "snapshot" /\ loaded
       THEN image' = Asked /\ failed' = FALSE
       ELSE UNCHANGED <<image, failed>>
    /\ UNCHANGED <<server, subscribed, missed, lists, waking, thumb>>

-----------------------------------------------------------------------------
(* Loading the tile *)

\* loadEufyCameras, up to its answer; it clears the timer in eufyCamRetry.
loadEufyCameras ==
    /\ loads < MaxLoads
    /\ loads' = loads + 1

\* pollEufyAuth learns that the login is done, and hides the banner.  A poll still under way when a code
\* is submitted may learn it a second time.
PollConnected ==
    /\ connected' = TRUE
    /\ banner' = FALSE
    /\ IF loaded THEN UNCHANGED <<loads, retry>> ELSE loadEufyCameras /\ retry' = FALSE
    /\ UNCHANGED <<server, stream, loaded, strays, view, waking, picture>>

\* The Refresh button, once the Wyze cameras are loaded.
RefreshCameras ==
    /\ connected
    /\ loadEufyCameras /\ retry' = FALSE
    /\ UNCHANGED <<server, stream, connected, loaded, strays, banner, view, waking, picture>>

\* buildEufyTiles: the old tile's view is stopped, the new tile asks for its thumbnail.
CamerasAnswered ==
    /\ loads > 0
    /\ loads' = loads - 1
    /\ loaded' = TRUE
    /\ stop
    /\ waking' = "no"
    /\ overlay' = TRUE /\ image' = Asked /\ thumb' = 0 /\ failed' = FALSE
    /\ UNCHANGED <<server, stream, connected, retry, strays, banner>>

\* 503, the cloud session is not up yet: again in three seconds.
CamerasNotYet_Once ==               \* mutant: no retry
    /\ loads > 0
    /\ loads' = loads - 1
    /\ UNCHANGED <<server, stream, connected, loaded, retry, strays, banner, view,
                   waking, picture>>

CamerasNotYet ==
    /\ loads > 0
    /\ strays < MaxLoads
    /\ loads' = loads - 1
    /\ retry' = TRUE
    /\ strays' = IF retry THEN strays + 1 ELSE strays
    /\ UNCHANGED <<server, stream, connected, loaded, banner, view, waking, picture>>

\* Any other failure is shown in the banner, and that is all.
CamerasFail ==
    /\ loads > 0
    /\ loads' = loads - 1
    /\ banner' = TRUE
    /\ UNCHANGED <<server, stream, connected, loaded, retry, strays, view, waking, picture>>

RetryFires ==
    /\ \/ retry /\ strays' = strays
       \/ strays > 0 /\ strays' = strays - 1
    /\ loadEufyCameras /\ retry' = FALSE
    /\ UNCHANGED <<server, stream, connected, loaded, banner, view, waking, picture>>

-----------------------------------------------------------------------------
Next ==
    \/ saveSnapshot \/ PersonDetected \/ Subscribe \/ Disconnect \/ ServeImage
    \/ StartClicked \/ StopClicked \/ Plays \/ PlayerFails \/ AutoStop
    \/ ImageArrives \/ ImageFails \/ RefreshThumb \/ RefreshAnswered \/ RefreshFails \/ EventArrives
    \/ PollConnected \/ RefreshCameras \/ RetryFires
    \/ CamerasAnswered \/ CamerasNotYet \/ CamerasFail

Spec == Init /\ [][Next]_vars

\* Timers fire, events arrive, images arrive or fail.  Lists asked for again and again are
\* answered at last.
Fairness ==
    /\ WF_vars(AutoStop) /\ WF_vars(EventArrives)
    /\ WF_vars(ServeImage \/ ImageArrives \/ ImageFails)
    /\ WF_vars(RetryFires)
    /\ WF_vars(CamerasAnswered \/ CamerasNotYet \/ CamerasFail) /\ SF_vars(CamerasAnswered)

FairSpec == Spec /\ Fairness

-----------------------------------------------------------------------------
(* Properties *)

\* A view that a detection opened has a timer that will close it, or, unattended, it
\* would drain the camera's battery; no other view has one ("leave a manually-started
\* stream running"), though detections opened one before, or come while it runs.
AutoAloneIsTimed == timer <=> opener = "detection"

\* When nothing is on its way, the thumbnail is the latest snapshot, whatever came
\* first: the tile, the event stream, the snapshot, or another request for it; or there
\* is none, its last load having failed.  It is an older one only if an event was lost
\* while the stream was down.
ThumbIsLatest ==
    loaded /\ events = <<>> /\ image = None =>
        thumb = cache \/ missed \/ (failed /\ thumb = 0)

\* Once the page knows that the login is done the tile comes, however often the
\* list is refused because the cloud session is not up, or the banner says why not.
TileAppears == connected ~> loaded \/ banner

\* Counterexamples: the tile comes even after another failure ...
TileComesInTheEnd == connected ~> loaded

\* ... the thumbnail is the latest even after the stream was down ...
ThumbCatchesUp ==
    loaded /\ subscribed /\ events = <<>> /\ image = None => thumb = cache

\* ... the thumbnail comes, though a load of it failed ...
ThumbReloads ==
    loaded /\ events = <<>> /\ image = None => thumb = cache \/ missed

\* ... a tile that is not live shows a picture or a text ("leave the overlay text
\* visible", says onerror of a snapshot that does not exist) ...
NeverBlank == loaded /\ live = "off" => overlay \/ HasPicture

\* ... the live picture is not covered ...
LiveIsVisible == live = "playing" => ~overlay

\* ... and the Eufy viewer has one client for one page.
OneClient == clients <= 1
=============================================================================
