-------------------------- MODULE PageEventsProofs --------------------------
(***************************************************************************)
(* What pages do with the events they are told of, for any bounds: safety  *)
(* of EufyTile, the tile that server-sent events refresh, and of           *)
(* BrowserAlerts, the notifications of the dashboard, which polls.         *)
(***************************************************************************)
EXTENDS EufyTile, BrowserAlerts, WellFoundedInduction, FiniteSetTheorems, TLAPS

-----------------------------------------------------------------------------
(* The live view *)

\* The timer runs for the views that detections opened, and for no other.
ViewInv ==
    /\ opener = "detection" => timer /\ auto /\ live # "off"
    /\ opener = "user" => ~timer /\ ~auto /\ live # "off"
    /\ opener = "nobody" => ~timer /\ live = "off"
    /\ opener \in {"nobody", "user", "detection"}

\* A detection leaves a manual view alone and times any other.
LEMMA autoCaptureKeepsView ==
    ASSUME ViewInv, autoCapture
    PROVE  ViewInv'
<1>1. CASE live # "off" /\ ~auto
  BY <1>1 DEF autoCapture, ViewInv, view
<1>2. CASE live = "off"
  BY <1>2 DEF autoCapture, ViewInv
<1>3. CASE live # "off" /\ auto
  BY <1>3 DEF autoCapture, ViewInv
<1> QED BY <1>1, <1>2, <1>3

\* Every step keeps the timers with the views that detections opened.
LEMMA NextKeepsView == ViewInv /\ [Next]_vars => ViewInv'
<1> SUFFICES ASSUME ViewInv, [Next]_vars PROVE ViewInv'
  OBVIOUS
<1>1. CASE UNCHANGED view
  BY <1>1 DEF view, ViewInv
<1>2. CASE \/ saveSnapshot \/ PersonDetected \/ Subscribe \/ Disconnect \/ ServeImage
           \/ ImageArrives \/ ImageFails \/ RefreshThumb \/ RefreshAnswered \/ RefreshFails
           \/ PollConnected \/ RefreshCameras \/ RetryFires \/ CamerasNotYet \/ CamerasFail
  <2>1. UNCHANGED view
    BY <1>2 DEF saveSnapshot, PersonDetected, Subscribe, Disconnect, ServeImage, ImageArrives,
           ImageFails, RefreshThumb, RefreshAnswered, RefreshFails, PollConnected, RefreshCameras,
           RetryFires, CamerasNotYet, CamerasFail
  <2> QED BY <1>1, <2>1
<1>3. CASE StartClicked \/ StopClicked \/ AutoStop \/ CamerasAnswered
  BY <1>3 DEF StartClicked, StopClicked, AutoStop, CamerasAnswered, stop, disarm, ViewInv
<1>4. CASE Plays \/ PlayerFails
  BY <1>4 DEF Plays, PlayerFails, ViewInv
<1>5. CASE EventArrives
  <2>1. autoCapture \/ UNCHANGED view
    BY <1>5 DEF EventArrives
  <2> QED BY <1>1, <2>1, autoCaptureKeepsView
<1>6. CASE UNCHANGED vars
  BY <1>1, <1>6 DEF vars
<1> QED BY <1>2, <1>3, <1>4, <1>5, <1>6 DEF Next

\* Timers run for the views that detections opened, and for no other.
THEOREM ViewInvariant == Spec => []ViewInv
<1>1. Init => ViewInv BY DEF Init, ViewInv
<1> QED BY <1>1, NextKeepsView, PTL DEF Spec

\* A view opened by a detection never runs without the timer that ends it, and no
\* other view has one.
THEOREM ViewsAreTimed == Spec => []AutoAloneIsTimed
<1>1. ViewInv => AutoAloneIsTimed BY DEF ViewInv, AutoAloneIsTimed
<1> QED BY <1>1, ViewInvariant, PTL

-----------------------------------------------------------------------------
(* The thumbnail *)

Coming == \E k \in DOMAIN events : events[k] = "snapshot"

\* The latest snapshot is shown, has been served, or will be asked for, or the last load
\* failed and there is no thumbnail.
ThumbOnItsWay ==
    loaded /\ ~missed =>
        \/ image = Asked
        \/ Coming
        \/ image = cache
        \/ image = None /\ thumb = cache
        \/ failed

ThumbInv ==
    /\ events \in Seq({"person", "snapshot"})
    /\ image \in {None, Asked} \cup Nat
    /\ cache \in Nat
    /\ missed \in BOOLEAN
    /\ failed => image = None /\ thumb = 0
    /\ ThumbOnItsWay

\* An event broadcast joins those on their way, or is recorded as missed.
LEMMA BroadcastReaches ==
    ASSUME ThumbInv, NEW event \in {"person", "snapshot"}, Broadcast(event)
    PROVE  /\ events' \in Seq({"person", "snapshot"})
           /\ missed' \in BOOLEAN
           /\ ~missed' => ~missed /\ (Coming => Coming')
           /\ event = "snapshot" /\ ~missed' => Coming'
<1>1. CASE subscribed
  <2>1. events' = Append(events, event) /\ missed' = missed
    BY <1>1 DEF Broadcast
  <2>2. /\ events \in Seq({"person", "snapshot"})
        /\ events' \in Seq({"person", "snapshot"})
    BY <2>1 DEF ThumbInv
  <2>3. /\ Len(events) \in Nat /\ DOMAIN events = 1..Len(events)
        /\ DOMAIN events' = 1..(Len(events) + 1)
        /\ \A k \in DOMAIN events : events'[k] = events[k]
        /\ events'[Len(events) + 1] = event
    BY <2>1, <2>2
  <2>4. DOMAIN events \subseteq DOMAIN events' /\ Len(events) + 1 \in DOMAIN events'
    BY <2>3
  <2>5. (Coming => Coming') /\ (event = "snapshot" => Coming')
    BY <2>3, <2>4 DEF Coming
  <2> QED BY <2>1, <2>2, <2>5 DEF ThumbInv
<1>2. CASE ~subscribed
  <2>1. events' = events /\ missed' = (missed \/ event = "snapshot")
    BY <1>2 DEF Broadcast
  <2> QED BY <2>1, Zenon DEF ThumbInv, Coming
<1> QED BY <1>1, <1>2

\* Every step keeps the latest snapshot on its way, or shown, or its load failed.
LEMMA NextKeepsThumb == ThumbInv /\ [Next]_vars => ThumbInv'
<1> SUFFICES ASSUME ThumbInv, [Next]_vars PROVE ThumbInv'
  OBVIOUS
<1> USE Requests
<1>1. CASE UNCHANGED <<cache, events, missed, loaded, image, thumb, failed>>
  <2>1. Coming' = Coming
    BY <1>1 DEF Coming
  <2> QED BY <1>1, <2>1 DEF ThumbInv, ThumbOnItsWay
<1>2. CASE \/ Subscribe \/ StartClicked \/ StopClicked \/ Plays \/ PlayerFails \/ AutoStop
           \/ RefreshThumb \/ RefreshFails \/ PollConnected \/ RefreshCameras \/ RetryFires
           \/ CamerasNotYet \/ CamerasFail \/ UNCHANGED vars
  <2>1. UNCHANGED <<cache, events, missed, loaded, image, thumb, failed>>
    BY <1>2 DEF Subscribe, StartClicked, StopClicked, Plays, PlayerFails, AutoStop,
           RefreshThumb, RefreshFails, PollConnected, RefreshCameras, RetryFires,
           CamerasNotYet, CamerasFail, vars, server, stream, lists, picture
  <2> QED BY <1>1, <2>1
<1>3. CASE saveSnapshot
  <2>1. /\ cache' = cache + 1 /\ Broadcast("snapshot")
        /\ UNCHANGED <<loaded, image, thumb, failed>>
    BY <1>3 DEF saveSnapshot, lists, picture
  <2> QED BY <2>1, BroadcastReaches DEF ThumbInv, ThumbOnItsWay
<1>4. CASE PersonDetected
  <2>1. Broadcast("person") /\ UNCHANGED <<cache, loaded, image, thumb, failed>>
    BY <1>4 DEF PersonDetected, server, lists, picture
  <2> QED BY <2>1, BroadcastReaches DEF ThumbInv, ThumbOnItsWay
<1>5. CASE Disconnect
  <2>1. /\ events' = <<>> /\ missed' = (missed \/ Coming)
        /\ UNCHANGED <<cache, loaded, image, thumb, failed>>
    BY <1>5 DEF Disconnect, Coming, server, lists, picture
  <2>2. missed' \in BOOLEAN
    BY <2>1, Zenon DEF ThumbInv, Coming
  <2>3. events' \in Seq({"person", "snapshot"})
    BY <2>1
  <2>4. ~missed' => ~missed /\ ~Coming
    BY <2>1 DEF Coming
  <2> QED BY <2>1, <2>2, <2>3, <2>4 DEF ThumbInv, ThumbOnItsWay
<1>6. CASE ServeImage
  BY <1>6 DEF ServeImage, ThumbInv, ThumbOnItsWay, server, lists
<1>7. CASE ImageArrives
  <2>1. /\ image \in Nat /\ thumb' = image /\ image' = None
        /\ UNCHANGED <<cache, events, missed, loaded, failed>>
    BY <1>7 DEF ImageArrives, Shots, server, stream, lists
  <2>2. Coming' = Coming
    BY <2>1 DEF Coming
  <2> QED BY <2>1, <2>2 DEF ThumbInv, ThumbOnItsWay
<1>8. CASE RefreshAnswered \/ CamerasAnswered
  <2>1. image' = Asked /\ ~failed' /\ UNCHANGED <<cache, events, missed>>
    BY <1>8 DEF RefreshAnswered, CamerasAnswered, server, stream
  <2> QED BY <2>1 DEF ThumbInv, ThumbOnItsWay
<1>9. CASE EventArrives
  <2>1. /\ events # <<>> /\ events' = Tail(events)
        /\ \/ Head(events) = "snapshot" /\ loaded /\ image' = Asked /\ ~failed'
           \/ ~(Head(events) = "snapshot" /\ loaded) /\ UNCHANGED <<image, failed>>
        /\ UNCHANGED <<cache, missed, loaded, thumb>>
    BY <1>9 DEF EventArrives, server, lists
  <2>2. events' \in Seq({"person", "snapshot"})
    BY <2>1 DEF ThumbInv
  <2>3. Coming => Coming' \/ Head(events) = "snapshot"
    <3> SUFFICES ASSUME NEW k \in DOMAIN events, events[k] = "snapshot", k # 1
                 PROVE  Coming'
      BY <2>1 DEF Coming
    <3>1. k - 1 \in DOMAIN events' /\ events'[k - 1] = events[k]
      BY <2>1 DEF ThumbInv
    <3> QED BY <3>1 DEF Coming
  <2> QED BY <2>1, <2>2, <2>3 DEF ThumbInv, ThumbOnItsWay
<1>10. CASE ImageFails
  <2>1. /\ image' = None /\ thumb' = 0 /\ failed' = TRUE
        /\ UNCHANGED <<cache, events, missed, loaded>>
    BY <1>10 DEF ImageFails, server, stream, lists
  <2> QED BY <2>1 DEF ThumbInv, ThumbOnItsWay
<1> QED BY <1>2, <1>3, <1>4, <1>5, <1>6, <1>7, <1>8, <1>9, <1>10 DEF Next

\* The latest snapshot is on its way to the tile, or shown, or its load failed.
THEOREM ThumbInvariant == Spec => []ThumbInv
<1>1. Init => ThumbInv
  <2> SUFFICES ASSUME Init PROVE ThumbInv
    OBVIOUS
  <2>1. missed \in BOOLEAN /\ ~loaded /\ ~failed
    BY Zenon DEF Init
  <2>2. events \in Seq({"person", "snapshot"}) /\ image = None /\ cache \in Nat
    BY DEF Init
  <2> QED BY <2>1, <2>2 DEF ThumbInv, ThumbOnItsWay
<1> QED BY <1>1, NextKeepsThumb, PTL DEF Spec

\* When nothing is on its way, the thumbnail is the latest snapshot, or there is none for
\* its last load failed: an older one shows only after an event was lost.
THEOREM ThumbsAreLatest == Spec => []ThumbIsLatest
<1>1. ThumbInv => ThumbIsLatest
  <2> SUFFICES ASSUME ThumbInv, loaded, events = <<>>, image = None, ~missed
               PROVE  thumb = cache \/ (failed /\ thumb = 0)
    BY DEF ThumbIsLatest
  <2>1. ~Coming
    BY DEF Coming
  <2> QED BY <2>1, Requests DEF ThumbInv, ThumbOnItsWay
<1> QED BY <1>1, ThumbInvariant, PTL

-----------------------------------------------------------------------------
(* Types *)

FlagsOK ==
    /\ subscribed \in BOOLEAN /\ missed \in BOOLEAN /\ connected \in BOOLEAN
    /\ loaded \in BOOLEAN /\ retry \in BOOLEAN /\ banner \in BOOLEAN
    /\ auto \in BOOLEAN /\ timer \in BOOLEAN /\ overlay \in BOOLEAN
    /\ failed \in BOOLEAN

ValuesOK ==
    /\ cache \in Shots
    /\ clients \in 0..MaxClients
    /\ events \in Seq({"person", "snapshot"}) /\ Len(events) <= MaxQueue
    /\ loads \in 0..MaxLoads /\ strays \in 0..MaxLoads
    /\ live \in {"off", "starting", "playing", "failed"}
    /\ opener \in {"nobody", "user", "detection"}
    /\ waking \in {"no", "asked", "saved"}
    /\ image \in {None, Asked} \cup Shots
    /\ thumb \in Shots

\* Every flag stays a flag.
LEMMA NextKeepsFlags == FlagsOK /\ [Next]_vars => FlagsOK'
<1> SUFFICES ASSUME FlagsOK, [Next]_vars PROVE FlagsOK'
  OBVIOUS
<1> USE DEF FlagsOK, server, stream, lists, view, picture
<1>1. CASE saveSnapshot \/ PersonDetected
  BY <1>1, Zenon DEF saveSnapshot, PersonDetected, Broadcast
<1>2. CASE Subscribe \/ Disconnect \/ ServeImage
  BY <1>2, Zenon DEF Subscribe, Disconnect, ServeImage
<1>3. CASE StartClicked \/ StopClicked \/ AutoStop \/ CamerasAnswered
  BY <1>3, Zenon DEF StartClicked, StopClicked, AutoStop, CamerasAnswered, stop, disarm
<1>4. CASE Plays \/ PlayerFails \/ ImageArrives
  BY <1>4, Zenon DEF Plays, PlayerFails, ImageArrives
<1>9. CASE ImageFails
  BY <1>9, Zenon DEF ImageFails
<1>5. CASE RefreshThumb \/ RefreshAnswered \/ RefreshFails
  BY <1>5, Zenon DEF RefreshThumb, RefreshAnswered, RefreshFails
<1>6. CASE EventArrives
  BY <1>6, Zenon DEF EventArrives, autoCapture
<1>7. CASE PollConnected \/ RefreshCameras \/ RetryFires \/ CamerasNotYet \/ CamerasFail
  BY <1>7, Zenon DEF PollConnected, RefreshCameras, RetryFires, CamerasNotYet, CamerasFail
<1>8. CASE UNCHANGED vars
  BY <1>8, Zenon DEF vars
<1> QED BY <1>1, <1>2, <1>3, <1>4, <1>5, <1>6, <1>7, <1>8, <1>9 DEF Next

\* Every number, queue and state stays in its range.
LEMMA NextKeepsValues == ValuesOK /\ [Next]_vars => ValuesOK'
<1> SUFFICES ASSUME ValuesOK, [Next]_vars PROVE ValuesOK'
  OBVIOUS
<1> USE Bounds, Requests DEF ValuesOK, Shots, server, stream, lists, view, picture
<1>1. CASE saveSnapshot \/ PersonDetected
  <2>1. \/ events' = events
        \/ Len(events) < MaxQueue /\ \E event \in {"person", "snapshot"} :
                                         events' = Append(events, event)
    BY <1>1, Zenon DEF saveSnapshot, PersonDetected, Broadcast
  <2>2. events' \in Seq({"person", "snapshot"}) /\ Len(events') <= MaxQueue
    BY <2>1
  <2> QED BY <1>1, <2>2 DEF saveSnapshot, PersonDetected
<1>2. CASE Subscribe
  BY <1>2 DEF Subscribe
<1>10. CASE Disconnect
  <2>1. events' = <<>> /\ UNCHANGED <<cache, clients, loads, strays, view, waking, image, thumb>>
    BY <1>10 DEF Disconnect
  <2> QED BY <2>1
<1>11. CASE ServeImage
  BY <1>11 DEF ServeImage
<1>3. CASE StartClicked \/ StopClicked \/ AutoStop
  <2>1. UNCHANGED <<cache, clients, events, loads, strays, waking, image, thumb>>
    BY <1>3, Zenon DEF StartClicked, StopClicked, AutoStop
  <2>2. \/ live' = "starting" /\ opener' = "user"
        \/ live' = "off" /\ opener' = "nobody"
    BY <1>3, Zenon DEF StartClicked, StopClicked, AutoStop, stop
  <2> QED BY <2>1, <2>2
<1>12. CASE CamerasAnswered
  <2>1. /\ loads > 0 /\ loads' = loads - 1
        /\ live' = "off" /\ opener' = "nobody"
        /\ waking' = "no" /\ image' = Asked /\ thumb' = 0
        /\ UNCHANGED <<cache, clients, events, strays>>
    BY <1>12, Zenon DEF CamerasAnswered, stop
  <2> QED BY <2>1
<1>4. CASE Plays \/ PlayerFails \/ ImageArrives
  BY <1>4 DEF Plays, PlayerFails, ImageArrives
<1>13. CASE ImageFails
  <2>1. /\ image' = None /\ thumb' = 0
        /\ UNCHANGED <<server, events, loads, strays, live, opener, waking>>
    BY <1>13, Zenon DEF ImageFails
  <2> QED BY <2>1
<1>5. CASE RefreshThumb \/ RefreshAnswered \/ RefreshFails
  BY <1>5 DEF RefreshThumb, RefreshAnswered, RefreshFails
<1>6. CASE EventArrives
  <2>1. events' \in Seq({"person", "snapshot"}) /\ Len(events') <= MaxQueue
    BY <1>6 DEF EventArrives
  <2>2. /\ live' \in {"off", "starting", "playing", "failed"}
        /\ opener' \in {"nobody", "user", "detection"}
    BY <1>6 DEF EventArrives, autoCapture
  <2> QED BY <1>6, <2>1, <2>2 DEF EventArrives
<1>7. CASE PollConnected \/ RefreshCameras \/ RetryFires
  <2>1. \/ UNCHANGED loads
        \/ loads < MaxLoads /\ loads' = loads + 1
    BY <1>7 DEF PollConnected, RefreshCameras, RetryFires, loadEufyCameras
  <2>2. \/ UNCHANGED strays
        \/ strays > 0 /\ strays' = strays - 1
    BY <1>7, Zenon DEF PollConnected, RefreshCameras, RetryFires
  <2>3. UNCHANGED <<server, events, view, waking, picture>>
    BY <1>7, Zenon DEF PollConnected, RefreshCameras, RetryFires
  <2> QED BY <2>1, <2>2, <2>3
<1>8. CASE CamerasNotYet \/ CamerasFail
  <2>1. /\ loads > 0 /\ loads' = loads - 1
        /\ UNCHANGED <<cache, clients, events, live, opener, waking, image, thumb>>
    BY <1>8, Zenon DEF CamerasNotYet, CamerasFail
  <2>2. \/ UNCHANGED strays
        \/ strays < MaxLoads /\ strays' = strays + 1
    BY <1>8 DEF CamerasNotYet, CamerasFail
  <2> QED BY <2>1, <2>2
<1>9. CASE UNCHANGED vars
  BY <1>9 DEF vars
<1> QED BY <1>1, <1>2, <1>3, <1>4, <1>5, <1>6, <1>7, <1>8, <1>9, <1>10, <1>11, <1>12, <1>13
        DEF Next

\* Every reachable state of a tile is well typed, for any bounds.
THEOREM EufyTileTypeOK == Spec => []TypeOK
<1>1. Init => FlagsOK
  BY Zenon DEF Init, FlagsOK
<1>2. Init => ValuesOK
  BY Bounds DEF Init, ValuesOK, Shots
<1>3. FlagsOK /\ ValuesOK => TypeOK
  BY DEF FlagsOK, ValuesOK, TypeOK
<1> QED BY <1>1, <1>2, <1>3, NextKeepsFlags, NextKeepsValues, PTL DEF Spec
-----------------------------------------------------------------------------
(* Browser alerts: the button *)

ButtonInv ==
    /\ alertsOn \in BOOLEAN /\ pref \in BOOLEAN /\ prompt \in BOOLEAN
    /\ TimersAsShown

\* The button and its preference move together with the one interval.
LEMMA NextKeepsButton == ButtonInv /\ [AlertsNext]_alertsVars => ButtonInv'
<1> SUFFICES ASSUME ButtonInv, [AlertsNext]_alertsVars PROVE ButtonInv'
  OBVIOUS
<1>1. CASE UNCHANGED <<alertsOn, timers, pref, prompt>>
  BY <1>1, Zenon DEF ButtonInv, TimersAsShown
<1>2. CASE \/ Happens \/ \E e \in Events : Recorded(e)
           \/ TimerFires \/ \E p \in 1..MaxPolls : PollStep(p)
           \/ UNCHANGED alertsVars
  <2>1. UNCHANGED <<alertsOn, timers, pref, prompt>>
    BY <1>2, Zenon DEF Happens, Recorded, TimerFires, PollStep, Answered, PollFails, Handled,
                       pageVars, clickVars, alertsVars
  <2> QED BY <1>1, <2>1
<1>3. ASSUME startAlerts PROVE alertsOn' = TRUE /\ timers' = 1
  <2>1. alertsOn \in BOOLEAN /\ timers = IF alertsOn THEN 1 ELSE 0
    BY DEF ButtonInv, TimersAsShown
  <2>2. CASE alertsOn
    BY <1>3, <2>1, <2>2, Zenon DEF startAlerts
  <2>3. CASE ~alertsOn
    <3>1. alertsOn' = TRUE /\ timers' = timers + 1 /\ timers = 0
      BY <1>3, <2>1, <2>3, Zenon DEF startAlerts
    <3>2. timers' = 1
      BY <3>1
    <3> QED BY <3>1, <3>2
  <2> QED BY <2>2, <2>3
<1>4. CASE ClickOff
  <2>1. timers' = timers - 1 /\ timers = 1 /\ alertsOn' = FALSE /\ pref' = FALSE /\ prompt' = prompt
    BY <1>4, Zenon DEF ClickOff, ButtonInv, TimersAsShown
  <2>2. timers' = 0
    BY <2>1
  <2> QED BY <2>1, <2>2, Zenon DEF ButtonInv, TimersAsShown
<1>5. CASE ClickOn
  <2>1. pref' = TRUE /\ prompt' = prompt /\ (startAlerts \/ UNCHANGED <<alertsOn, timers>>)
    BY <1>5, Zenon DEF ClickOn
  <2> QED BY <1>3, <2>1, Zenon DEF ButtonInv, TimersAsShown
<1>6. CASE PromptEnds
  <2>1. pref' = pref /\ prompt' \in {prompt, FALSE} /\ startAlerts
    BY <1>6, Zenon DEF PromptEnds
  <2> QED BY <1>3, <2>1, Zenon DEF ButtonInv, TimersAsShown
<1>7. CASE Reload
  BY <1>7, Zenon DEF Reload, ButtonInv, TimersAsShown
<1> QED BY <1>2, <1>4, <1>5, <1>6, <1>7 DEF AlertsNext

LEMMA SpecButtonInv == AlertsSpec => []ButtonInv
<1>1. AlertsInit => ButtonInv
  BY Zenon DEF AlertsInit, ButtonInv, TimersAsShown
<1> QED BY <1>1, NextKeepsButton, PTL DEF AlertsSpec

\* No order of clicks and answers to the permission prompt leaves a second interval
\* running, or one while the button says OFF.
THEOREM OneIntervalAtMost == AlertsSpec => []TimersAsShown
<1>1. ButtonInv => TimersAsShown
  BY DEF ButtonInv
<1> QED BY <1>1, SpecButtonInv, PTL

-----------------------------------------------------------------------------
(* Browser alerts: greatest and least numbers *)

\* Every nonempty set of natural numbers has a least one.
LEMMA LeastExists ==
    ASSUME NEW S \in SUBSET Nat, S # {}
    PROVE  \E x \in S : \A y \in S : x <= y
<1> DEFINE R == {xy \in Nat \X Nat : xy[1] < xy[2]}
<1>1. IsWellFoundedOn(R, Nat)
  BY NatLessThanWellFounded DEF OpToRel
<1>2. PICK x \in S : \A y \in S : ~(<<y, x>> \in R)
  BY <1>1, WFMin
<1>3. ASSUME NEW y \in S PROVE x <= y
  <2>1. ~(<<y, x>> \in R) /\ x \in Nat /\ y \in Nat
    BY <1>2
  <2> QED BY <2>1
<1> QED BY <1>3

\* A nonempty set of bounded natural numbers has its Max.
LEMMA MaxOfBounded ==
    ASSUME NEW n \in Nat, NEW S \in SUBSET (0..n), S # {}
    PROVE  Max(S) \in S /\ \A y \in S : y <= Max(S)
<1> DEFINE D == {n - x : x \in S}
<1>1. D \in SUBSET Nat /\ D # {}
  <2>1. \A x \in S : n - x \in Nat
    <3>1. \A x \in S : x \in 0..n
      OBVIOUS
    <3> QED BY <3>1
  <2>2. D # {}
    OBVIOUS
  <2> QED BY <2>1, <2>2
<1>2. PICK d \in D : \A e \in D : d <= e
  BY <1>1, LeastExists
<1>3. PICK x \in S : d = n - x
  OBVIOUS
<1>4. ASSUME NEW y \in S PROVE x >= y
  <2>1. n - x <= n - y
    BY <1>2, <1>3
  <2>2. x \in Nat /\ y \in Nat
    OBVIOUS
  <2> QED BY <2>1, <2>2
<1>5. Max(S) \in S /\ \A y \in S : Max(S) >= y
  BY <1>4, Zenon DEF Max
<1>6. \A y \in S : y \in Int
  OBVIOUS
<1> QED BY <1>5, <1>6

-----------------------------------------------------------------------------
(* Browser alerts: what the steps do to the events *)

Slots == 1..MaxPolls

DataOK ==
    /\ happened \in Times
    /\ recorded \in SUBSET (1..happened)
    /\ since \in Times /\ begun \in Times
    /\ seen \in SUBSET recorded
    /\ polls \in [Slots -> Poll]
    /\ shown \in [Events -> Nat]

\* Polls begin and fail, alerts start anew, the page is loaded again: what is known
\* of events, and the answers under way, are kept or forgotten.
Rearranged ==
    /\ UNCHANGED <<happened, recorded, shown>>
    /\ polls' \in [Slots -> Poll]
    /\ \A p \in Slots : polls'[p] \in {polls[p], NoPoll, Sent(since')}
    /\ \/ UNCHANGED <<since, begun, seen>>
       \/ since' = happened /\ begun' = happened /\ seen' = seen
       \/ /\ since' = happened /\ begun' = happened /\ seen' = {}
          /\ \A p \in Slots : polls'[p] \in {NoPoll, Sent(since')}

\* Events done are a beginning of those of the answer that are new to the page;
\* notified is what handleEvent did not throw for.
HandledSome(p, done, notified) ==
    /\ polls[p].at = "answered"
    /\ done \subseteq polls[p].events \ seen /\ notified \subseteq done
    /\ \A f \in done : \A e \in polls[p].events \ seen : e <= f => e \in done
    /\ seen' = seen \cup done
    /\ since' = Max({since} \cup done)
    /\ shown' = [e \in Events |-> IF e \in notified THEN shown[e] + 1 ELSE shown[e]]
    /\ polls' = [polls EXCEPT ![p] = NoPoll]
    /\ UNCHANGED <<happened, recorded, begun>>

\* A poll takes the place of none, if there is room.
LEMMA SendsOne ==
    ASSUME DataOK, NEW t \in Times, Sends(t)
    PROVE  /\ polls' \in [Slots -> Poll]
           /\ \A p \in Slots : polls'[p] \in {polls[p], Sent(t)}
<1>1. Sent(t) \in Poll
  BY DEF Sent, Poll
<1>2. CASE \E p \in 1..MaxPolls : polls[p].at = "none"
  <2>1. PICK free : polls' = [polls EXCEPT ![free] = Sent(t)]
    BY <1>2, Zenon DEF Sends
  <2> QED BY <1>1, <2>1 DEF DataOK, Slots
<1>3. CASE ~ \E p \in 1..MaxPolls : polls[p].at = "none"
  BY <1>3 DEF Sends, DataOK, Slots
<1> QED BY <1>2, <1>3

\* The kinds of step, as far as events go.
LEMMA DataSteps ==
    ASSUME DataOK, [AlertsNext]_alertsVars
    PROVE  \/ Happens
           \/ \E e \in Events : Recorded(e)
           \/ Rearranged
           \/ \E p \in Slots : Answered(p)
           \/ \E p \in Slots, done \in SUBSET Nat, notified \in SUBSET Nat :
                 HandledSome(p, done, notified)
<1>0. /\ happened \in Times /\ since \in Times
      /\ polls \in [Slots -> Poll] /\ NoPoll \in Poll
      /\ \A t \in Times : Sent(t) \in Poll
  BY BoundAssumption DEF DataOK, NoPoll, Sent, Poll, Times
<1> USE DEF Slots
<1>1. CASE UNCHANGED alertsVars
  <2>1. UNCHANGED <<happened, recorded, shown, polls, since, begun, seen>>
    BY <1>1, Zenon DEF alertsVars, cloudVars, pageVars
  <2> QED BY <1>0, <2>1 DEF Rearranged
<1>2. CASE TimerFires
  <2>1. Sends(since) /\ UNCHANGED <<happened, recorded, shown, since, begun, seen>>
    BY <1>2, Zenon DEF TimerFires, cloudVars
  <2> QED BY <1>0, <2>1, SendsOne DEF Rearranged
<1>3. ASSUME NEW p \in Slots, PollFails(p) PROVE Rearranged
  <2>1. /\ polls' = [polls EXCEPT ![p] = NoPoll]
        /\ UNCHANGED <<happened, recorded, shown, since, begun, seen>>
    BY <1>3, Zenon DEF PollFails, cloudVars
  <2> QED BY <1>0, <2>1 DEF Rearranged
<1>4. ASSUME startAlerts, UNCHANGED <<happened, recorded, shown, seen>> PROVE Rearranged
  <2>1. CASE alertsOn
    BY <1>0, <1>4, <2>1 DEF startAlerts, Rearranged
  <2>2. CASE ~alertsOn
    <3>1. Sends(happened) /\ since' = happened /\ begun' = happened
      BY <1>4, <2>2, Zenon DEF startAlerts, Now
    <3> QED BY <1>0, <1>4, <3>1, SendsOne DEF Rearranged
  <2> QED BY <2>1, <2>2
<1>5. CASE ClickOff \/ ClickOn \/ PromptEnds
  <2>1. /\ UNCHANGED <<happened, recorded, shown, seen>>
        /\ startAlerts \/ UNCHANGED <<since, polls, begun>>
    BY <1>5, Zenon DEF ClickOff, ClickOn, PromptEnds, cloudVars
  <2> QED BY <1>0, <1>4, <2>1 DEF Rearranged
<1>6. CASE Reload
  <2>1. /\ UNCHANGED <<happened, recorded, shown>>
        /\ seen' = {} /\ since' = happened /\ begun' = happened
        /\ polls' = NoPolls \/ polls' = [NoPolls EXCEPT ![1] = Sent(since')]
    BY <1>6, Zenon DEF Reload, cloudVars, Now
  <2>2. polls' \in [Slots -> Poll] /\ \A p \in Slots : polls'[p] \in {NoPoll, Sent(since')}
    BY <1>0, <2>1 DEF NoPolls
  <2> QED BY <2>1, <2>2 DEF Rearranged
<1>7. ASSUME NEW p \in Slots, Handled(p)
      PROVE  \E done \in SUBSET Nat, notified \in SUBSET Nat : HandledSome(p, done, notified)
  <2> DEFINE fresh == polls[p].events \ seen
  <2>1. fresh \in SUBSET Events
    BY <1>0 DEF Poll
  <2>2. /\ polls[p].at = "answered"
        /\ polls' = [polls EXCEPT ![p] = NoPoll]
        /\ UNCHANGED <<happened, recorded, begun>>
    BY <1>7, Zenon DEF Handled, cloudVars
  <2>3. CASE /\ Remember(fresh)
             /\ shown' = [e \in Events |-> IF e \in fresh THEN shown[e] + 1 ELSE shown[e]]
    <3>1. HandledSome(p, fresh, fresh)
      BY <2>2, <2>3, Zenon DEF HandledSome, Remember
    <3>2. fresh \in SUBSET Nat
      BY <2>1 DEF Events
    <3> QED BY <3>1, <3>2
  <2>4. ASSUME NEW thrown \in fresh,
               Remember({e \in fresh : e <= thrown}),
               shown' = [e \in Events |-> IF e \in fresh /\ e < thrown
                                          THEN shown[e] + 1 ELSE shown[e]]
        PROVE  \E done \in SUBSET Nat, notified \in SUBSET Nat : HandledSome(p, done, notified)
    <3> DEFINE done == {e \in fresh : e <= thrown}
               notified == {e \in fresh : e < thrown}
    <3>1. done \subseteq fresh /\ notified \subseteq done
      BY <2>1 DEF Events
    <3>2. \A f \in done : \A e \in fresh : e <= f => e \in done
      BY <2>1 DEF Events
    <3>3. shown' = [e \in Events |-> IF e \in notified THEN shown[e] + 1 ELSE shown[e]]
      BY <2>4
    <3>4. seen' = seen \cup done /\ since' = Max({since} \cup done)
      BY <2>4, Zenon DEF Remember
    <3>5. done \in SUBSET Nat /\ notified \in SUBSET Nat
      BY <2>1 DEF Events
    <3> HIDE DEF done, notified
    <3>6. HandledSome(p, done, notified)
      BY <2>2, <3>1, <3>2, <3>3, <3>4, Zenon DEF HandledSome
    <3> QED BY <3>5, <3>6
  <2> QED BY <1>7, <2>3, <2>4, Zenon DEF Handled, Unseen
<1> QED BY <1>1, <1>2, <1>3, <1>5, <1>6, <1>7 DEF AlertsNext, PollStep

-----------------------------------------------------------------------------
(* Browser alerts: times *)

\* No time is ahead of the clock, no poll's ahead of eventsSince, and an answer
\* holds recorded events later than the time its poll asked for.
TimesOK ==
    /\ DataOK
    /\ since <= happened /\ begun <= happened
    /\ \A p \in Slots :
          /\ polls[p].since <= since
          /\ polls[p].events \subseteq recorded
          /\ \A e \in polls[p].events : e > polls[p].since

\* What pollEvents does with an answer moves eventsSince to an event of it, at most.
LEMMA HandledTimes ==
    ASSUME TimesOK, NEW p \in Slots, NEW done, NEW notified, HandledSome(p, done, notified)
    PROVE  /\ done \subseteq recorded /\ done \subseteq Times
           /\ since' \in {since} \cup done
           /\ \A e \in {since} \cup done : e <= since'
<1>1. /\ since \in Times /\ happened \in Times /\ recorded \subseteq 1..happened
      /\ polls[p].events \subseteq recorded
  BY DEF TimesOK, DataOK
<1>2. done \subseteq recorded
  BY <1>1 DEF HandledSome
<1>3. MaxEvents \in Nat
  BY BoundAssumption
<1>4. done \subseteq Times /\ {since} \cup done \in SUBSET (0..MaxEvents)
  BY <1>1, <1>2, <1>3 DEF Times
<1>5. since' = Max({since} \cup done)
  BY DEF HandledSome
<1> QED BY <1>2, <1>3, <1>4, <1>5, MaxOfBounded

LEMMA NextTimesOK == TimesOK /\ [AlertsNext]_alertsVars => TimesOK'
<1> SUFFICES ASSUME TimesOK, [AlertsNext]_alertsVars PROVE TimesOK'
  OBVIOUS
<1>0. /\ happened \in Times /\ recorded \subseteq 1..happened
      /\ since \in Times /\ begun \in Times /\ seen \subseteq recorded
      /\ polls \in [Slots -> Poll] /\ shown \in [Events -> Nat]
      /\ since <= happened /\ begun <= happened
      /\ MaxEvents \in Nat
      /\ Times \subseteq Nat /\ \A n \in Times : n <= MaxEvents
  BY BoundAssumption DEF TimesOK, DataOK, Times
<1>1. CASE Happens
  <2>1. /\ happened < MaxEvents /\ happened' = happened + 1
        /\ UNCHANGED <<recorded, since, seen, polls, begun, shown>>
    BY <1>1, Zenon DEF Happens, pageVars
  <2>2. /\ happened' \in Times /\ recorded' \subseteq 1..happened'
        /\ since' <= happened' /\ begun' <= happened'
    BY <1>0, <2>1 DEF Times
  <2> QED BY <2>1, <2>2, Zenon DEF TimesOK, DataOK
<1>2. ASSUME NEW e \in Events, Recorded(e) PROVE TimesOK'
  <2>1. /\ e \in 1..happened /\ recorded' = recorded \cup {e}
        /\ UNCHANGED <<happened, since, seen, polls, begun, shown>>
    BY <1>2, Zenon DEF Recorded, pageVars
  <2>2. recorded' \in SUBSET (1..happened) /\ recorded \subseteq recorded'
    BY <1>0, <2>1, Zenon
  <2> QED BY <2>1, <2>2 DEF TimesOK, DataOK
<1>3. CASE Rearranged
  <2>1. /\ UNCHANGED <<happened, recorded, shown>>
        /\ polls' \in [Slots -> Poll]
        /\ \A p \in Slots : polls'[p] \in {polls[p], NoPoll, Sent(since')}
        /\ since' \in {since, happened} /\ begun' \in {begun, happened}
        /\ seen' \in {seen, {}}
    BY <1>3, Zenon DEF Rearranged
  <2>2. since <= since' /\ since' \in Times /\ since' <= happened /\ begun' <= happened
    BY <1>0, <2>1
  <2>3. ASSUME NEW p \in Slots
        PROVE  /\ polls'[p].since <= since'
               /\ polls'[p].events \subseteq recorded
               /\ \A e \in polls'[p].events : e > polls'[p].since
    <3>1. CASE polls'[p] = polls[p]
      <4>1. polls[p].since <= since /\ polls[p].since \in Times
        BY <1>0 DEF TimesOK, Poll
      <4>2. since \in Nat /\ since' \in Nat /\ polls[p].since \in Nat
        BY <1>0, <2>2, <4>1
      <4>3. polls[p].since <= since'
        BY <2>2, <4>1, <4>2
      <4> QED BY <3>1, <4>3 DEF TimesOK
    <3>2. CASE polls'[p] = NoPoll \/ polls'[p] = Sent(since')
      BY <1>0, <2>2, <3>2 DEF NoPoll, Sent
    <3> QED BY <2>1, <3>1, <3>2
  <2> QED BY <1>0, <2>1, <2>2, <2>3 DEF TimesOK, DataOK
<1>4. ASSUME NEW p \in Slots, Answered(p) PROVE TimesOK'
  <2>1. /\ polls' = [polls EXCEPT ![p] = [@ EXCEPT !.at = "answered",
                                                   !.events = Answer(polls[p].since)]]
        /\ UNCHANGED <<happened, recorded, since, seen, begun, shown>>
    BY <1>4, Zenon DEF Answered, cloudVars
  <2>2. polls[p].since \in Times /\ polls[p] \in Poll
    BY <1>0 DEF Poll
  <2>3. /\ Answer(polls[p].since) \subseteq recorded
        /\ \A e \in Answer(polls[p].since) : e > polls[p].since
    <3>1. /\ Answer(polls[p].since) \subseteq recorded
          /\ \A e \in Answer(polls[p].since) : e >= polls[p].since /\ e # polls[p].since
      BY Zenon DEF Answer
    <3>2. ASSUME NEW e \in Answer(polls[p].since) PROVE e > polls[p].since
      <4>1. happened \in Nat /\ polls[p].since \in Nat
        BY <1>0, <2>2
      <4>2. e \in 1..happened
        BY <1>0, <3>1, Zenon
      <4> QED BY <3>1, <4>1, <4>2
    <3> QED BY <3>1, <3>2
  <2>4. recorded \subseteq Events
    BY <1>0 DEF Events
  <2>5. polls' \in [Slots -> Poll]
    BY <1>0, <2>1, <2>2, <2>3, <2>4 DEF Poll
  <2>6. ASSUME NEW q \in Slots
        PROVE  /\ polls'[q].since <= since
               /\ polls'[q].events \subseteq recorded
               /\ \A e \in polls'[q].events : e > polls'[q].since
    <3>1. polls'[q].since = polls[q].since
      BY <1>0, <2>1, <2>2 DEF Poll
    <3>2. polls'[q].events = IF q = p THEN Answer(polls[p].since) ELSE polls[q].events
      BY <1>0, <2>1, <2>2 DEF Poll
    <3> QED BY <2>3, <3>1, <3>2 DEF TimesOK
  <2> QED BY <2>1, <2>5, <2>6 DEF TimesOK, DataOK
<1>5. ASSUME NEW p \in Slots, NEW done \in SUBSET Nat, NEW notified \in SUBSET Nat,
             HandledSome(p, done, notified)
      PROVE  TimesOK'
  <2>1. /\ seen' = seen \cup done
        /\ shown' = [e \in Events |-> IF e \in notified THEN shown[e] + 1 ELSE shown[e]]
        /\ polls' = [polls EXCEPT ![p] = NoPoll]
        /\ UNCHANGED <<happened, recorded, begun>>
    BY <1>5, Zenon DEF HandledSome
  <2>2. /\ done \subseteq recorded /\ since' \in {since} \cup done /\ since <= since'
    BY <1>5, HandledTimes
  <2>3. since' \in Times /\ since' <= happened
    <3>1. \A e \in recorded : e \in Times /\ e <= happened
      BY <1>0 DEF Times
    <3> QED BY <1>0, <2>2, <3>1
  <2>4. shown' \in [Events -> Nat]
    BY <1>0, <2>1
  <2>5. NoPoll \in Poll
    BY <1>0 DEF NoPoll, Poll, Times
  <2>6. polls' \in [Slots -> Poll]
    BY <1>0, <2>1, <2>5, Zenon
  <2>7. ASSUME NEW q \in Slots
        PROVE  /\ polls'[q].since <= since'
               /\ polls'[q].events \subseteq recorded
               /\ \A e \in polls'[q].events : e > polls'[q].since
    <3>1. CASE q = p
      BY <1>0, <2>1, <2>3, <3>1 DEF NoPoll
    <3>2. CASE q # p
      <4>1. polls'[q] = polls[q] /\ polls[q].since \in Times /\ polls[q].since <= since
        BY <1>0, <2>1, <3>2 DEF TimesOK, Poll
      <4>2. polls[q].since \in Nat /\ since \in Nat /\ since' \in Nat
        BY <1>0, <2>3, <4>1
      <4>3. polls[q].since <= since'
        BY <2>2, <4>1, <4>2
      <4> QED BY <2>1, <4>1, <4>3 DEF TimesOK
    <3> QED BY <3>1, <3>2
  <2> QED BY <1>0, <2>1, <2>2, <2>3, <2>4, <2>6, <2>7 DEF TimesOK, DataOK
<1> QED BY <1>1, <1>2, <1>3, <1>4, <1>5, DataSteps DEF TimesOK

LEMMA SpecTimesOK == AlertsSpec => []TimesOK
<1>1. AlertsInit => TimesOK
  <2> SUFFICES ASSUME AlertsInit PROVE TimesOK
    OBVIOUS
  <2>1. /\ happened = 0 /\ recorded = {} /\ since = 0 /\ begun = 0 /\ seen = {}
        /\ polls = [NoPolls EXCEPT ![1] = Sent(0)] /\ shown = [e \in Events |-> 0]
    BY Zenon DEF AlertsInit, Now
  <2>2. 0 \in Times /\ NoPoll \in Poll /\ Sent(0) \in Poll
    BY BoundAssumption DEF Times, NoPoll, Sent, Poll
  <2>3. polls \in [Slots -> Poll] /\ \A p \in Slots : polls[p] \in {NoPoll, Sent(0)}
    BY <2>1, <2>2 DEF NoPolls, Slots
  <2>4. \A p \in Slots : polls[p].since = 0 /\ polls[p].events = {}
    BY <2>3 DEF NoPoll, Sent
  <2> QED BY <2>1, <2>2, <2>3, <2>4 DEF TimesOK, DataOK
<1> QED BY <1>1, NextTimesOK, PTL DEF AlertsSpec

\* eventsSince never moves back: an answer that comes after those of later polls
\* leaves it, and alerts that start anew set it to a time it cannot have passed.
THEOREM AskedEverLater == AlertsSpec => SinceOnlyGrows
<1>1. TimesOK /\ [AlertsNext]_alertsVars => [since' >= since]_alertsVars
  <2> SUFFICES ASSUME TimesOK, [AlertsNext]_alertsVars PROVE since' >= since
    BY Zenon
  <2>1. DataOK /\ since \in Nat /\ happened \in Nat /\ since <= happened
    BY DEF TimesOK, DataOK, Times
  <2>2. CASE Happens \/ \E e \in Events : Recorded(e)
    <3>1. since' = since
      BY <2>2, Zenon DEF Happens, Recorded, pageVars
    <3> QED BY <2>1, <3>1
  <2>3. CASE Rearranged
    BY <2>1, <2>3 DEF Rearranged
  <2>4. ASSUME NEW p \in Slots, Answered(p) PROVE since' >= since
    <3>1. since' = since
      BY <2>4, Zenon DEF Answered
    <3> QED BY <2>1, <3>1
  <2>5. ASSUME NEW p \in Slots, NEW done \in SUBSET Nat, NEW notified \in SUBSET Nat,
               HandledSome(p, done, notified)
        PROVE  since' >= since
    <3>1. done \subseteq Times /\ since' \in {since} \cup done /\ since <= since'
      BY <2>5, HandledTimes, Zenon
    <3> QED BY <2>1, <3>1 DEF Times
  <2> QED BY <2>1, <2>2, <2>3, <2>4, <2>5, DataSteps, Zenon
<1> QED BY <1>1, SpecTimesOK, PTL DEF AlertsSpec, SinceOnlyGrows

-----------------------------------------------------------------------------
(* Browser alerts: no event is notified twice *)

\* What was notified is remembered, or lies behind eventsSince and every poll.
ShownOnce ==
    \A e \in Events :
        /\ shown[e] \in 0..1
        /\ shown[e] > 0 =>
              /\ e <= happened
              /\ \/ e \in seen
                 \/ /\ e <= since
                    /\ \A p \in Slots : polls[p].at # "none" => e <= polls[p].since

LEMMA NextShownOnce == TimesOK /\ ShownOnce /\ [AlertsNext]_alertsVars => ShownOnce'
<1> SUFFICES ASSUME TimesOK, ShownOnce, [AlertsNext]_alertsVars, NEW e \in Events
             PROVE  /\ shown'[e] \in 0..1
                    /\ shown'[e] > 0 =>
                          /\ e <= happened'
                          /\ \/ e \in seen'
                             \/ /\ e <= since'
                                /\ \A p \in Slots :
                                      polls'[p].at # "none" => e <= polls'[p].since
  BY DEF ShownOnce
<1> DEFINE Past == \A p \in Slots : polls[p].at # "none" => e <= polls[p].since
<1>0. /\ happened \in Nat /\ since \in Nat /\ since <= happened /\ e \in Nat
      /\ polls \in [Slots -> Poll] /\ seen \subseteq recorded
      /\ MaxEvents \in Nat
  BY BoundAssumption DEF TimesOK, DataOK, Times, Events
<1>9. /\ shown[e] \in 0..1
      /\ shown[e] > 0 => e <= happened /\ (e \in seen \/ (e <= since /\ Past))
  BY DEF ShownOnce
<1>1. CASE Happens
  <2>1. /\ happened' = happened + 1 /\ UNCHANGED <<shown, seen, since, polls>>
    BY <1>1, Zenon DEF Happens, pageVars
  <2> QED BY <1>0, <1>9, <2>1
<1>2. CASE \E f \in Events : Recorded(f)
  <2>1. UNCHANGED <<happened, shown, seen, since, polls>>
    BY <1>2, Zenon DEF Recorded, pageVars
  <2> QED BY <1>9, <2>1
<1>3. CASE Rearranged
  <2>1. /\ UNCHANGED <<happened, shown>>
        /\ \A p \in Slots : polls'[p] \in {polls[p], NoPoll, Sent(since')}
        /\ \/ UNCHANGED <<since, seen>>
           \/ since' = happened /\ seen' = seen
           \/ /\ since' = happened
              /\ \A p \in Slots : polls'[p] \in {NoPoll, Sent(since')}
    BY <1>3, Zenon DEF Rearranged
  <2>2. NoPoll.at = "none" /\ Sent(since').since = since'
    BY DEF NoPoll, Sent
  <2> SUFFICES ASSUME shown[e] > 0, e \notin seen'
               PROVE  /\ e <= since'
                      /\ \A p \in Slots : polls'[p].at # "none" => e <= polls'[p].since
    BY <1>9, <2>1
  <2>3. e <= happened
    BY <1>9
  <2>4. CASE seen' = seen
    <3>1. e <= since /\ Past
      BY <1>9, <2>4
    <3>2. e <= since'
      BY <2>1, <2>3, <3>1
    <3> QED BY <2>1, <2>2, <3>1, <3>2
  <2>5. CASE since' = happened /\ \A p \in Slots : polls'[p] \in {NoPoll, Sent(since')}
    BY <2>2, <2>3, <2>5
  <2> QED BY <2>1, <2>4, <2>5
<1>4. ASSUME NEW p \in Slots, Answered(p)
      PROVE  /\ UNCHANGED <<happened, shown, seen, since>>
             /\ Past => \A q \in Slots : polls'[q].at # "none" => e <= polls'[q].since
  <2>1. /\ polls[p].at = "asked"
        /\ polls' = [polls EXCEPT ![p] = [@ EXCEPT !.at = "answered",
                                                   !.events = Answer(polls[p].since)]]
        /\ UNCHANGED <<happened, shown, seen, since>>
    BY <1>4, Zenon DEF Answered, cloudVars
  <2>2. \A q \in Slots : /\ polls'[q].since = polls[q].since
                         /\ polls'[q].at # "none" => polls[q].at # "none"
    BY <1>0, <2>1 DEF Poll
  <2> QED BY <2>1, <2>2
<1>5. ASSUME NEW p \in Slots, NEW done \in SUBSET Nat, NEW notified \in SUBSET Nat,
             HandledSome(p, done, notified)
      PROVE  /\ shown'[e] \in 0..1
             /\ shown'[e] > 0 =>
                   /\ e <= happened'
                   /\ \/ e \in seen'
                      \/ /\ e <= since'
                         /\ \A q \in Slots : polls'[q].at # "none" => e <= polls'[q].since
  <2>1. /\ polls[p].at = "answered" /\ done \subseteq polls[p].events \ seen
        /\ notified \subseteq done
        /\ seen' = seen \cup done
        /\ shown' = [f \in Events |-> IF f \in notified THEN shown[f] + 1 ELSE shown[f]]
        /\ polls' = [polls EXCEPT ![p] = NoPoll]
        /\ UNCHANGED <<happened, recorded>>
    BY <1>5, Zenon DEF HandledSome
  <2>2. CASE e \in notified
    \* An event that was notified before is remembered, or earlier than the answer.
    <3>1. e \in polls[p].events /\ e \notin seen /\ e \in seen'
      BY <2>1, <2>2
    <3>2. e > polls[p].since /\ polls[p].since \in Nat /\ e \in recorded
      BY <1>0, <3>1 DEF TimesOK, Poll, Times
    <3>3. shown[e] = 0
      <4> SUFFICES ASSUME shown[e] > 0 PROVE FALSE
        BY <1>9
      <4>1. e <= polls[p].since
        BY <1>9, <2>1, <3>1
      <4> QED BY <1>0, <3>2, <4>1
    <3>4. e <= happened
      <4>1. e \in 1..happened
        BY <3>2, Zenon DEF TimesOK, DataOK
      <4> QED BY <4>1
    <3> QED BY <2>1, <2>2, <3>1, <3>3, <3>4
  <2>3. CASE e \notin notified
    <3>1. shown'[e] = shown[e]
      BY <2>1, <2>3
    <3>2. since <= since' /\ since' \in Nat
      <4>1. since <= since' /\ since' \in {since} \cup done
        BY <1>5, HandledTimes
      <4> QED BY <1>0, <4>1
    <3>3. e <= since => e <= since'
      BY <1>0, <3>2
    <3>4. Past => \A q \in Slots : polls'[q].at # "none" => e <= polls'[q].since
      <4>1. \A q \in Slots : q # p => polls'[q] = polls[q]
        BY <1>0, <2>1
      <4>2. polls'[p].at = "none"
        BY <1>0, <2>1 DEF NoPoll
      <4> QED BY <4>1, <4>2
    <3> QED BY <1>9, <2>1, <3>1, <3>3, <3>4
  <2> QED BY <2>2, <2>3
<1>6. DataOK
  BY DEF TimesOK
<1>7. ASSUME NEW p \in Slots, Answered(p)
      PROVE  /\ shown'[e] \in 0..1
             /\ shown'[e] > 0 =>
                   /\ e <= happened'
                   /\ \/ e \in seen'
                      \/ /\ e <= since'
                         /\ \A q \in Slots : polls'[q].at # "none" => e <= polls'[q].since
  BY <1>4, <1>7, <1>9
<1> QED BY <1>1, <1>2, <1>3, <1>5, <1>6, <1>7, DataSteps

\* No event is notified twice, whatever the overlaps, repeats and reloads.
THEOREM AlertedOnce == AlertsSpec => []NotifiedOnce
<1>1. AlertsInit => ShownOnce
  BY DEF AlertsInit, ShownOnce
<1>2. ShownOnce => NotifiedOnce
  BY DEF ShownOnce, NotifiedOnce
<1> QED BY <1>1, <1>2, NextShownOnce, SpecTimesOK, PTL DEF AlertsSpec

-----------------------------------------------------------------------------
(* Browser alerts: no event is skipped *)

\* While events are recorded in the order in which they happened, no gap opens in
\* what the cloud knows, in an answer, or in what the page has seen.
NoGap ==
    /\ \A e \in recorded : 1..e \subseteq recorded
    /\ \A p \in Slots : \A f \in polls[p].events : \A e \in Events :
          polls[p].since < e /\ e <= f => e \in polls[p].events \/ Crowded(e)
    /\ \A e \in Events : begun < e /\ e <= since => e \in seen \/ Crowded(e)

\* An event crowded out of the answers stays so: the cloud forgets none.
LEMMA CrowdedStays ==
    ASSUME NEW e, recorded \subseteq recorded', NEW n \in Nat, recorded' \subseteq 1..n,
           Crowded(e)
    PROVE  Crowded(e)'
<1> DEFINE Later == {f \in recorded : f > e}
           LaterNow == {f \in recorded' : f > e}
<1>1. IsFiniteSet(1..n)
  BY FS_Interval
<1>2. Later \in SUBSET LaterNow /\ LaterNow \in SUBSET (1..n)
  OBVIOUS
<1> HIDE DEF Later, LaterNow
<1>3. IsFiniteSet(LaterNow)
  BY <1>1, <1>2, FS_Subset
<1>4. IsFiniteSet(Later) /\ Cardinality(Later) <= Cardinality(LaterNow)
  BY <1>2, <1>3, FS_Subset
<1>5. Cardinality(Later) \in Nat /\ Cardinality(LaterNow) \in Nat
  BY <1>3, <1>4, FS_CardinalityType
<1>6. Cardinality(Later) >= PageSize
  BY DEF Crowded, Later
<1>7. Cardinality(LaterNow) >= PageSize
  BY <1>4, <1>5, <1>6, BoundAssumption
<1> QED BY <1>7 DEF Crowded, LaterNow

LEMMA NextNoGap == InOrder /\ TimesOK /\ NoGap /\ [AlertsNext]_alertsVars => NoGap'
<1> SUFFICES ASSUME InOrder, TimesOK, NoGap, [AlertsNext]_alertsVars PROVE NoGap'
  OBVIOUS
<1>0. /\ happened \in Nat /\ since \in Nat /\ begun \in Nat
      /\ recorded \subseteq 1..happened /\ recorded \subseteq Events
      /\ polls \in [Slots -> Poll] /\ DataOK
      /\ Events \subseteq Nat /\ MaxEvents \in Nat
  BY BoundAssumption DEF TimesOK, DataOK, Times, Events
<1>1. ASSUME UNCHANGED <<recorded, begun, since, seen, polls>> PROVE NoGap'
  BY <1>1 DEF NoGap, Crowded
<1>2. CASE Happens
  <2>1. UNCHANGED <<recorded, begun, since, seen, polls>>
    BY <1>2, Zenon DEF Happens, pageVars
  <2> QED BY <1>1, <2>1
<1>3. ASSUME NEW n \in Events, Recorded(n) PROVE NoGap'
  <2>1. /\ n \in 1..happened /\ recorded' = recorded \cup {n}
        /\ 1..(n - 1) \subseteq recorded
        /\ UNCHANGED <<begun, since, seen, polls>>
    BY <1>3, Zenon DEF Recorded, pageVars
  <2>2. \A e : Crowded(e) => Crowded(e)'
    <3>1. recorded \subseteq recorded' /\ recorded' \subseteq 1..happened
      BY <1>0, <2>1, Zenon
    <3> QED BY <1>0, <3>1, CrowdedStays
  <2>3. \A e \in recorded' : 1..e \subseteq recorded'
    <3>1. 1..n \subseteq recorded'
      <4>1. \A k \in 1..n : k \in 1..(n - 1) \/ k = n
        BY <1>0
      <4> QED BY <2>1, <4>1, Zenon
    <3>2. \A e \in recorded : 1..e \subseteq recorded'
      BY <2>1, Zenon DEF NoGap
    <3> QED BY <2>1, <3>1, <3>2, Zenon
  <2> QED BY <2>1, <2>2, <2>3, Zenon DEF NoGap
<1>4. CASE Rearranged
  <2>1. /\ UNCHANGED recorded
        /\ \A p \in Slots : polls'[p] \in {polls[p], NoPoll, Sent(since')}
        /\ \/ UNCHANGED <<since, begun, seen>>
           \/ since' = happened /\ begun' = happened
    BY <1>4, Zenon DEF Rearranged
  <2>2. \A e : Crowded(e)' <=> Crowded(e)
    BY <2>1 DEF Crowded
  <2>3. \A p \in Slots : polls'[p] = polls[p] \/ polls'[p].events = {}
    BY <2>1 DEF NoPoll, Sent
  <2>4. \A e \in Events : begun' < e /\ e <= since' => e \in seen' \/ Crowded(e)
    <3>1. CASE UNCHANGED <<since, begun, seen>>
      BY <3>1, Zenon DEF NoGap
    <3>2. CASE since' = happened /\ begun' = happened
      BY <1>0, <3>2
    <3> QED BY <2>1, <3>1, <3>2
  <2>5. \A p \in Slots : \A f \in polls'[p].events : \A e \in Events :
          polls'[p].since < e /\ e <= f => e \in polls'[p].events \/ Crowded(e)
    BY <2>3, Zenon DEF NoGap
  <2> QED BY <2>1, <2>2, <2>4, <2>5, Zenon DEF NoGap
<1>5. ASSUME NEW p \in Slots, Answered(p) PROVE NoGap'
  <2> DEFINE t == polls[p].since
  <2>1. /\ polls' = [polls EXCEPT ![p] = [@ EXCEPT !.at = "answered",
                                                   !.events = Answer(polls[p].since)]]
        /\ UNCHANGED <<recorded, since, seen, begun>>
    BY <1>5, Zenon DEF Answered, cloudVars
  <2>2. \A e : Crowded(e)' <=> Crowded(e)
    BY <2>1 DEF Crowded
  <2>3. t \in Nat
    BY <1>0 DEF Poll, Times
  <2>4. ASSUME NEW f \in Answer(t), NEW e \in Events, t < e, e <= f
        PROVE  e \in Answer(t) \/ Crowded(e)
    <3>1. f \in recorded
      BY Zenon DEF Answer
    <3>2. e \in 1..f
      BY <1>0, <2>4, <3>1 DEF Events
    <3>3. e \in recorded
      BY <3>1, <3>2, Zenon DEF NoGap
    <3>4. e >= t /\ e # t
      BY <1>0, <2>3, <2>4
    <3> QED BY <3>3, <3>4, Zenon DEF Answer
  <2>5. \A q \in Slots : /\ polls'[q].since = polls[q].since
                         /\ polls'[q].events = IF q = p THEN Answer(t) ELSE polls[q].events
    BY <1>0, <2>1 DEF Poll
  <2> HIDE DEF t
  <2>6. \A q \in Slots : \A f \in polls'[q].events : \A e \in Events :
          polls'[q].since < e /\ e <= f => e \in polls'[q].events \/ Crowded(e)
    <3>1. polls'[p].since = t /\ polls'[p].events = Answer(t)
      BY <2>5 DEF t
    <3>2. \A q \in Slots : q # p => polls'[q].since = polls[q].since
                                      /\ polls'[q].events = polls[q].events
      BY <2>5
    <3> QED BY <2>4, <3>1, <3>2, Zenon DEF NoGap
  <2> QED BY <2>1, <2>2, <2>6, Zenon DEF NoGap
<1>6. ASSUME NEW p \in Slots, NEW done \in SUBSET Nat, NEW notified \in SUBSET Nat,
             HandledSome(p, done, notified)
      PROVE  NoGap'
  <2>1. /\ done \subseteq polls[p].events \ seen
        /\ \A f \in done : \A e \in polls[p].events \ seen : e <= f => e \in done
        /\ seen' = seen \cup done
        /\ polls' = [polls EXCEPT ![p] = NoPoll]
        /\ UNCHANGED <<recorded, begun>>
    BY <1>6, Zenon DEF HandledSome
  <2>2. \A e : Crowded(e)' <=> Crowded(e)
    BY <2>1 DEF Crowded
  <2>3. ASSUME NEW e \in Events, begun < e, e <= since' PROVE e \in seen' \/ Crowded(e)
    <3>1. CASE e <= since
      BY <2>1, <2>3, <3>1, Zenon DEF NoGap
    <3>2. CASE ~(e <= since)
      <4>1. since' \in done
        <5>1. since' \in {since} \cup done
          BY <1>6, HandledTimes
        <5> QED BY <2>3, <3>2, <5>1, Zenon
      <4>2. polls[p].since < e
        <5>1. polls[p].since <= since /\ polls[p].since \in Nat
          BY <1>0 DEF TimesOK, Poll, Times
        <5> QED BY <1>0, <3>2, <5>1
      <4>3. e \in polls[p].events \/ Crowded(e)
        BY <2>1, <2>3, <4>1, <4>2, Zenon DEF NoGap
      <4> QED BY <2>1, <2>3, <4>1, <4>3, Zenon
    <3> QED BY <3>1, <3>2
  <2>4. \A q \in Slots : polls'[q] = polls[q] \/ polls'[q].events = {}
    BY <1>0, <2>1 DEF NoPoll
  <2>5. \A q \in Slots : \A f \in polls'[q].events : \A e \in Events :
          polls'[q].since < e /\ e <= f => e \in polls'[q].events \/ Crowded(e)
    BY <2>4, Zenon DEF NoGap
  <2> QED BY <2>1, <2>2, <2>3, <2>5, Zenon DEF NoGap
<1>7. CASE UNCHANGED alertsVars
  BY <1>1, <1>7, Zenon DEF alertsVars, cloudVars, pageVars
<1> QED BY <1>0, <1>2, <1>3, <1>4, <1>5, <1>6, <1>7, DataSteps

\* What lies behind eventsSince was seen, or is older than alerts, or crowded out: an
\* answer that throws half-way, comes late or overlaps another skips nothing, if the
\* cloud records events in the order in which they happen.
THEOREM InOrderNoneSkipped ==
    ASSUME InOrder
    PROVE  AlertsSpec => []NoneSkipped
<1>1. AlertsInit => NoGap
  <2> SUFFICES ASSUME AlertsInit PROVE NoGap
    OBVIOUS
  <2>1. recorded = {} /\ since = 0 /\ begun = 0 /\ polls = [NoPolls EXCEPT ![1] = Sent(0)]
    BY Zenon DEF AlertsInit, Now
  <2>2. \A p \in Slots : polls[p].events = {}
    BY <2>1 DEF NoPolls, NoPoll, Sent, Slots
  <2>3. \A e \in Events : ~(begun < e /\ e <= since)
    BY <2>1, BoundAssumption DEF Events
  <2> QED BY <2>1, <2>2, <2>3, Zenon DEF NoGap
<1>2. TimesOK /\ NoGap => NoneSkipped
  <2> SUFFICES ASSUME TimesOK, NoGap, NEW e \in 1..happened, begun < e, e <= since
               PROVE  e \in seen \/ Crowded(e)
    BY DEF NoneSkipped
  <2>1. happened \in Nat /\ happened <= MaxEvents /\ MaxEvents \in Nat
    BY BoundAssumption DEF TimesOK, DataOK, Times
  <2>2. e \in Events
    BY <2>1 DEF Events
  <2> QED BY <2>2, Zenon DEF NoGap
<1>3. InOrder
  OBVIOUS
<1> QED BY <1>1, <1>2, <1>3, NextNoGap, SpecTimesOK, PTL DEF AlertsSpec

-----------------------------------------------------------------------------
(* Browser alerts: types *)

AskingOK == asking \in 0..MaxAsking

LEMMA NextAskingOK == AskingOK /\ [AlertsNext]_alertsVars => AskingOK'
<1> SUFFICES ASSUME AskingOK, [AlertsNext]_alertsVars PROVE AskingOK'
  OBVIOUS
<1>1. CASE \/ Happens \/ \E e \in Events : Recorded(e)
           \/ TimerFires \/ \E p \in 1..MaxPolls : PollStep(p)
           \/ UNCHANGED alertsVars
  BY <1>1, Zenon DEF Happens, Recorded, TimerFires, PollStep, Answered, PollFails, Handled,
                     clickVars, alertsVars, AskingOK
<1>2. CASE ClickOff \/ ClickOn \/ PromptEnds \/ Reload
  <2>1. \/ asking' = asking \/ asking' = 0
        \/ asking < MaxAsking /\ asking' = asking + 1
        \/ asking > 0 /\ asking' = asking - 1
    <3>1. CASE ClickOff \/ Reload
      BY <3>1, Zenon DEF ClickOff, Reload
    <3>2. CASE ClickOn
      BY <3>2, Zenon DEF ClickOn
    <3>3. CASE PromptEnds
      BY <3>3, Zenon DEF PromptEnds
    <3> QED BY <1>2, <3>1, <3>2, <3>3, Zenon
  <2> QED BY <2>1, BoundAssumption DEF AskingOK
<1> QED BY <1>1, <1>2 DEF AlertsNext

\* Every event counted as seen is one the cloud knows, every answer is of the poll's
\* kind, and no counter leaves its range.
THEOREM AlertsTypes == AlertsSpec => []AlertsTypeOK
<1>1. AlertsInit => AskingOK
  BY BoundAssumption DEF AlertsInit, AskingOK
<1>2. ButtonInv /\ TimesOK /\ AskingOK => AlertsTypeOK
  <2> SUFFICES ASSUME ButtonInv, TimesOK, AskingOK PROVE AlertsTypeOK
    OBVIOUS
  <2>1. timers \in 0..1 /\ alertsOn \in BOOLEAN /\ pref \in BOOLEAN /\ prompt \in BOOLEAN
    <3>1. timers = 0 \/ timers = 1
      BY Zenon DEF ButtonInv, TimersAsShown
    <3>2. timers \in 0..1
      BY <3>1
    <3> QED BY <3>2, Zenon DEF ButtonInv
  <2> QED BY <2>1, Zenon DEF TimesOK, DataOK, Times, Slots, AskingOK, AlertsTypeOK
<1> QED BY <1>1, <1>2, NextAskingOK, SpecButtonInv, SpecTimesOK, PTL DEF AlertsSpec
=============================================================================
