---------------------------- MODULE BrowserAlerts ----------------------------
(***************************************************************************)
(* Browser alerts: the dashboard page polls /api/events of its server,     *)
(* which asks the Wyze cloud for the newest events since a time, and       *)
(* raises a notification for each event it has not seen.                   *)
(*                                                                         *)
(* Events are numbered in the order in which the cameras saw them, and a   *)
(* time is the number of events that have happened by then.  An event      *)
(* reaches the cloud some time after it happened.                          *)
(***************************************************************************)
EXTENDS Naturals, FiniteSets, FiniteSetsExt

CONSTANTS
    MaxEvents,  \* bound: events that happen
    PageSize,   \* the `count` the server asks for: newest events of an answer
    MaxPolls,   \* bound: polls under way at once
    MaxAsking,  \* bound: clicks waiting for the permission prompt
    InOrder     \* are events recorded in the order in which they happened?

ASSUME BoundAssumption == /\ MaxEvents \in Nat \ {0} /\ PageSize \in Nat \ {0}
                          /\ MaxPolls \in Nat \ {0} /\ MaxAsking \in Nat \ {0}
ASSUME OrderAssumption == InOrder \in BOOLEAN

VARIABLES
    happened,  \* how many events have happened
    recorded,  \* those the cloud knows of
    alertsOn,  \* the page's flag, which the button shows
    timers,    \* intervals that call pollEvents, one of them in eventPollTimer
    since,     \* eventsSince
    seen,      \* seenEvents
    polls,     \* the polls under way
    pref,      \* the preference in localStorage
    prompt,    \* Notification.permission is still "default"
    asking,    \* clicks that await requestPermission
    begun,     \* history: the eventsSince that startAlerts last set
    shown      \* history: how often each event was notified, reloads included

cloudVars == <<happened, recorded>>
pageVars == <<alertsOn, timers, since, seen, polls, begun>>
clickVars == <<pref, prompt, asking>>
alertsVars == <<cloudVars, pageVars, clickVars, shown>>

Events == 1..MaxEvents
Times == 0..MaxEvents

\* No poll, one the server has yet to answer, and one answered with events.
NoPoll == [at |-> "none", since |-> 0, events |-> {}]
Poll == [at : {"none", "asked", "answered"}, since : Times, events : SUBSET Events]

AlertsTypeOK ==
    /\ happened \in 0..MaxEvents
    /\ recorded \in SUBSET (1..happened)
    /\ alertsOn \in BOOLEAN
    /\ timers \in 0..1
    /\ since \in Times
    /\ seen \in SUBSET recorded
    /\ polls \in [1..MaxPolls -> Poll]
    /\ pref \in BOOLEAN /\ prompt \in BOOLEAN
    /\ asking \in 0..MaxAsking
    /\ begun \in Times
    /\ shown \in [Events -> Nat]

\* Date.now() in the browser, whose clock agrees with the cameras'.
Now == happened

\* The page with alerts just started by a new page: one poll on its way.
Sent(t) == [at |-> "asked", since |-> t, events |-> {}]
NoPolls == [p \in 1..MaxPolls |-> NoPoll]

AlertsInit ==
    /\ happened = 0 /\ recorded = {}
    /\ alertsOn = TRUE /\ timers = 1
    /\ since = Now /\ begun = Now
    /\ seen = {}
    /\ polls = [NoPolls EXCEPT ![1] = Sent(Now)]
    /\ pref = TRUE /\ prompt \in BOOLEAN /\ asking = 0
    /\ shown = [e \in Events |-> 0]

-----------------------------------------------------------------------------
(* The cameras and the cloud (external) *)

Happens ==
    /\ happened < MaxEvents
    /\ happened' = happened + 1
    /\ UNCHANGED <<recorded, pageVars, clickVars, shown>>

Recorded(e) ==
    /\ e \in 1..happened \ recorded
    /\ InOrder => 1..(e - 1) \subseteq recorded
    /\ recorded' = recorded \cup {e}
    /\ UNCHANGED <<happened, pageVars, clickVars, shown>>

-----------------------------------------------------------------------------
(* Polling *)

\* fetch(`/api/events?since=${eventsSince}`), if a poll may be added.
Sends(t) ==
    IF \E p \in 1..MaxPolls : polls[p].at = "none"
    THEN LET free == Min({p \in 1..MaxPolls : polls[p].at = "none"})
         IN  polls' = [polls EXCEPT ![free] = Sent(t)]
    ELSE UNCHANGED polls

\* The interval fires.
TimerFires ==
    /\ timers > 0
    /\ \E p \in 1..MaxPolls : polls[p].at = "none"
    /\ Sends(since)
    /\ UNCHANGED <<cloudVars, alertsOn, timers, since, seen, begun, clickVars, shown>>

\* The route /api/events: the cloud gives the newest PageSize events from `since`
\* on, and those of that very time are left out.
Crowded(e) == Cardinality({f \in recorded : f > e}) >= PageSize

Answer(t) == {e \in recorded : e >= t /\ ~Crowded(e)} \ {t}

Answered(p) ==
    /\ polls[p].at = "asked"
    /\ polls' = [polls EXCEPT ![p] = [@ EXCEPT !.at = "answered",
                                               !.events = Answer(polls[p].since)]]
    /\ UNCHANGED <<cloudVars, alertsOn, timers, since, seen, begun, clickVars, shown>>

\* Login or request fails, or the answer is lost: "Events error", and that is all.
PollFails_Stops(p) ==         \* mutant: the interval ends with the first failure
    /\ polls[p].at = "asked"
    /\ polls' = [polls EXCEPT ![p] = NoPoll]
    /\ timers' = 0
    /\ UNCHANGED <<cloudVars, alertsOn, since, seen, begun, clickVars, shown>>

PollFails(p) ==
    /\ polls[p].at = "asked"
    /\ polls' = [polls EXCEPT ![p] = NoPoll]
    /\ UNCHANGED <<cloudVars, alertsOn, timers, since, seen, begun, clickVars, shown>>

\* Events of an answer that pollEvents goes on to handle.
Unseen_All(answer) == answer     \* mutant: seenEvents is not looked at

Unseen(answer) == answer \ seen

\* Those handled are remembered and move eventsSince on, before each is notified.
Remember_Now(done) ==         \* mutant: eventsSince becomes the time of the poll
    /\ seen' = seen \cup done
    /\ since' = Max({since, Now})

Remember_Replace(done) ==     \* mutant: `if (ev.time > eventsSince)` is missing
    /\ seen' = seen \cup done
    /\ since' = IF done = {} THEN since ELSE Max(done)

Remember(done) ==
    /\ seen' = seen \cup done
    /\ since' = Max({since} \cup done)

\* pollEvents goes through the answer in the order of time.  handleEvent may throw
\* (a browser that knows Notification and refuses to construct one): the event it
\* throws for is not shown, and the rest of the answer is left.  Alerts may have
\* been switched off meanwhile.
Handled(p) ==
    /\ polls[p].at = "answered"
    /\ LET fresh == Unseen(polls[p].events)
       IN  \/ /\ Remember(fresh)
              /\ shown' = [e \in Events |-> IF e \in fresh THEN shown[e] + 1 ELSE shown[e]]
           \/ \E thrown \in fresh :
                 /\ Remember({e \in fresh : e <= thrown})
                 /\ shown' = [e \in Events |-> IF e \in fresh /\ e < thrown
                                               THEN shown[e] + 1 ELSE shown[e]]
    /\ polls' = [polls EXCEPT ![p] = NoPoll]
    /\ UNCHANGED <<cloudVars, alertsOn, timers, begun, clickVars>>

-----------------------------------------------------------------------------
(* The button *)

startAlerts_Again ==          \* mutant: `if (alertsOn) return` is missing
    /\ alertsOn' = TRUE
    /\ timers' = timers + 1
    /\ since' = Now /\ begun' = Now
    /\ Sends(Now)

startAlerts ==
    IF alertsOn
    THEN UNCHANGED <<alertsOn, timers, since, polls, begun>>
    ELSE /\ alertsOn' = TRUE
         /\ timers' = timers + 1
         /\ since' = Now /\ begun' = Now
         /\ Sends(Now)

\* The button, while alerts are on.  Polls under way are left to end.
ClickOff ==
    /\ alertsOn
    /\ pref' = FALSE
    /\ alertsOn' = FALSE
    /\ timers' = timers - 1
    /\ UNCHANGED <<cloudVars, since, seen, polls, begun, prompt, asking, shown>>

\* The button, while they are off: with a decision on notifications they start at
\* once, else the click awaits the prompt.
ClickOn ==
    /\ ~alertsOn
    /\ pref' = TRUE
    /\ \/ ~prompt /\ startAlerts /\ UNCHANGED asking
       \/ /\ prompt /\ asking < MaxAsking
          /\ asking' = asking + 1
          /\ UNCHANGED <<alertsOn, timers, since, polls, begun>>
    /\ UNCHANGED <<cloudVars, seen, prompt, shown>>

\* The prompt is answered, or dismissed; a click that awaited it goes on.
PromptEnds ==
    /\ asking > 0
    /\ asking' = asking - 1
    /\ prompt' \in {prompt, FALSE}
    /\ startAlerts
    /\ UNCHANGED <<cloudVars, seen, pref, shown>>

\* The page is loaded again: alerts start unless the preference is "off".
Reload ==
    /\ seen' = {} /\ asking' = 0
    /\ alertsOn' = pref
    /\ timers' = IF pref THEN 1 ELSE 0
    /\ since' = Now /\ begun' = Now
    /\ polls' = IF pref THEN [NoPolls EXCEPT ![1] = Sent(Now)] ELSE NoPolls
    /\ UNCHANGED <<cloudVars, pref, prompt, shown>>

-----------------------------------------------------------------------------
PollStep(p) == Answered(p) \/ PollFails(p) \/ Handled(p)

AlertsNext ==
    \/ Happens \/ \E e \in Events : Recorded(e)
    \/ TimerFires \/ \E p \in 1..MaxPolls : PollStep(p)
    \/ ClickOff \/ ClickOn \/ PromptEnds \/ Reload

AlertsSpec == AlertsInit /\ [][AlertsNext]_alertsVars

\* Events reach the cloud, the interval fires, polls end; of polls made again and
\* again one is answered at last.
AlertsFairness ==
    /\ \A e \in Events : WF_alertsVars(Recorded(e))
    /\ WF_alertsVars(TimerFires)
    /\ \A p \in 1..MaxPolls : WF_alertsVars(PollStep(p))
    /\ SF_alertsVars(\E p \in 1..MaxPolls : Answered(p))

AlertsFairSpec == AlertsSpec /\ AlertsFairness

-----------------------------------------------------------------------------
(* Properties *)

\* No event is notified twice, although polls overlap, answers repeat what others
\* brought, and the page is reloaded.
NotifiedOnce == \A e \in Events : shown[e] <= 1

\* One interval while the button says ON and none while it says OFF, however often
\* it is clicked while the permission prompt is open.
TimersAsShown == timers = IF alertsOn THEN 1 ELSE 0

\* eventsSince moves past no event that was not seen: the page will ask for it again,
\* unless more events than an answer holds have come after it.
NoneSkipped ==
    \A e \in 1..happened : begun < e /\ e <= since => e \in seen \/ Crowded(e)

\* eventsSince never moves back, although a slow poll brings its older events after a
\* later poll was handled.
SinceOnlyGrows == [][since' >= since]_alertsVars

\* An event that happens while alerts are on reaches the page, unless they are switched
\* off or started anew, or it is crowded out: failed polls, answers that come late or out
\* of order and notifications that throw do not lose it.
NothingMissed ==
    \A e \in Events :
        alertsOn /\ e \in begun + 1..happened
            ~> e \in seen \/ ~alertsOn \/ e <= begun \/ Crowded(e)

\* Every event is shown that the page has seen.
SeenIsShown == \A e \in seen : shown[e] > 0

\* OFF means quiet.
OffIsQuiet == [][shown' # shown => alertsOn]_alertsVars

\* What happened before alerts were (last) switched on is not notified.
OnlyNew == [][\A e \in Events : shown'[e] # shown[e] => e > begun]_alertsVars

\* Not one event is missed.
NothingCrowdedOut ==
    \A e \in Events :
        alertsOn /\ e \in begun + 1..happened ~> e \in seen \/ ~alertsOn \/ e <= begun
=============================================================================
