---------------------------- MODULE DashboardTile ----------------------------
(***************************************************************************)
(* StreamSession (cam-frontend/public/viewer.html): the live view of one   *)
(* Wyze camera, online, in the dashboard page.                             *)
(*                                                                         *)
(* A start() is a member of Starts, and so are the connection it makes and *)
(* its session token: tokens are only compared, and each start takes a new *)
(* one.  The fields this.pc and this.ws are assigned and cleared together. *)
(***************************************************************************)
EXTENDS Naturals

CONSTANTS
    Starts,     \* the calls of start() on this tile
    None

ASSUME NoneIsNoStart == None \notin Starts

VARIABLES
    call,       \* call[i]: how far start i has come
    current,    \* the start that sessionToken belongs to, or None after a stop()
    held,       \* the start whose connection is in this.pc and this.ws, or None
    pc,         \* pc[i]: the peer connection made by start i
    ws,         \* ws[i]: its signalling socket; "sent": an offer went out on it
    answered,   \* hasRemoteDesc and isApplyingRemoteAnswer
    retries,    \* incompatibleRetryCount
    timers,     \* the starts whose 500 ms retry timer runs
    badge,
    startable,  \* ~startBtn.disabled
    removed,    \* buildGrid has replaced this tile
    overlapped  \* history: starts that fetched while another start did

vars == <<call, current, held, pc, ws, answered, retries, timers, badge,
          startable, removed, overlapped>>

\* What a negotiation changes, and what it leaves alone.
buttons == <<removed, overlapped>>

TypeOK ==
    /\ call \in [Starts -> {"unused", "fetching", "waiting", "done"}]
    /\ current \in Starts \cup {None}
    /\ held \in Starts \cup {None}
    /\ pc \in [Starts -> {"none", "made", "offered", "applying", "stable", "live", "lost", "closed"}]
    /\ ws \in [Starts -> {"none", "connecting", "open", "sent", "closed"}]
    /\ answered \in {"no", "applying", "yes"}
    /\ retries \in 0..1
    /\ timers \subseteq Starts
    /\ badge \in {"online", "connecting", "live", "error"}
    /\ startable \in BOOLEAN
    /\ removed \in BOOLEAN
    /\ overlapped \subseteq Starts

Init ==
    /\ call = [i \in Starts |-> "unused"]
    /\ current = None /\ held = None
    /\ pc = [i \in Starts |-> "none"]
    /\ ws = [i \in Starts |-> "none"]
    /\ answered = "no"
    /\ retries = 0
    /\ timers = {}
    /\ badge = "online"
    /\ startable = TRUE
    /\ removed = FALSE
    /\ overlapped = {}

-----------------------------------------------------------------------------
(* Helpers *)

\* _resolveStartWaiters: every start that waits for its result goes on.
Resolved(c) == [i \in Starts |-> IF c[i] = "waiting" THEN "done" ELSE c[i]]

Fetching == {i \in Starts : call[i] = "fetching"}

\* stop(), up to its last line; the caller sets the token, badge and button.
stop_KeepsPeer ==                   \* mutant: this.pc is cleared, not closed
    /\ pc' = pc
    /\ ws' = [i \in Starts |-> IF i = held THEN "closed" ELSE ws[i]]
    /\ held' = None
    /\ answered' = "no"

stop ==
    /\ pc' = [i \in Starts |-> IF i = held THEN "closed" ELSE pc[i]]
    /\ ws' = [i \in Starts |-> IF i = held THEN "closed" ELSE ws[i]]
    /\ held' = None
    /\ answered' = "no"

\* start(isRetry), up to its fetch: stop() first, then a new token.
start(i, isRetry) ==
    /\ call[i] = "unused"
    /\ stop
    /\ retries' = IF isRetry THEN retries ELSE 0
    /\ current' = i
    /\ badge' = "connecting"
    /\ startable' = FALSE
    /\ call' = [Resolved(call) EXCEPT ![i] = "fetching"]
    /\ overlapped' = IF Fetching = {} THEN overlapped ELSE overlapped \cup Fetching \cup {i}
    /\ UNCHANGED removed

-----------------------------------------------------------------------------
(* The user, and the loops of Start All and of auto-start, which do not look *)
(* at the button                                                             *)

StartClicked(i) ==
    /\ ~removed /\ startable
    /\ start(i, FALSE)
    /\ UNCHANGED timers

StartedByLoop(i) ==
    /\ ~removed
    /\ start(i, FALSE)
    /\ UNCHANGED timers

Stop ==
    /\ ~removed
    /\ stop
    /\ current' = None
    /\ badge' = "online"
    /\ startable' = TRUE
    /\ call' = Resolved(call)
    /\ UNCHANGED <<retries, timers, removed, overlapped>>

\* buildGrid, on Refresh: the session is stopped and its tile taken out of the page.
Rebuild ==
    /\ ~removed
    /\ stop
    /\ current' = None
    /\ badge' = "online"
    /\ startable' = TRUE
    /\ call' = Resolved(call)
    /\ removed' = TRUE
    /\ UNCHANGED <<retries, timers, overlapped>>

-----------------------------------------------------------------------------
(* The rest of start() *)

\* The stream parameters arrive: _connect, whatever became of the session since,
\* then _waitForStartResult.
Fetched(i) ==
    /\ call[i] = "fetching"
    /\ call' = [call EXCEPT ![i] = "waiting"]
    /\ held' = i
    /\ pc' = [pc EXCEPT ![i] = "made"]
    /\ ws' = [ws EXCEPT ![i] = "connecting"]
    /\ UNCHANGED <<current, answered, retries, timers, badge, startable, buttons>>

\* _connect throws once this.pc is made (no audio context, no socket for that URL).
\* Only with nothing held: an earlier start's socket would stay in this.ws.
ConnectFails(i) ==
    /\ call[i] = "fetching"
    /\ held = None
    /\ call' = [Resolved(call) EXCEPT ![i] = "done"]
    /\ held' = i
    /\ pc' = [pc EXCEPT ![i] = "made"]
    /\ badge' = "error"
    /\ startable' = TRUE
    /\ UNCHANGED <<current, ws, answered, retries, timers, buttons>>

FetchFails(i) ==
    /\ call[i] = "fetching"
    /\ call' = [Resolved(call) EXCEPT ![i] = "done"]
    /\ badge' = "error"
    /\ startable' = TRUE
    /\ UNCHANGED <<current, held, pc, ws, answered, retries, timers, buttons>>

WaitTimesOut_Never(i) == FALSE /\ UNCHANGED vars    \* mutant: no timeout

WaitTimesOut(i) ==
    /\ call[i] = "waiting"
    /\ call' = [call EXCEPT ![i] = "done"]
    /\ UNCHANGED <<current, held, pc, ws, answered, retries, timers, badge,
                   startable, buttons>>

-----------------------------------------------------------------------------
(* Handlers of connection i: those of any but the current session return at once *)

\* ws.onopen: the offer is made on this.pc and sent on this.ws, if that is open.
WsOpens(i) ==
    /\ ws[i] = "connecting"
    /\ IF i = current /\ held # None
       THEN /\ pc' = [pc EXCEPT ![held] = "offered"]
            /\ ws' = [ws EXCEPT ![i] = "open",
                                ![held] = IF held = i \/ @ \in {"open", "sent"}
                                          THEN "sent" ELSE @]
       ELSE /\ ws' = [ws EXCEPT ![i] = "open"]
            /\ UNCHANGED pc
    /\ UNCHANGED <<call, current, held, answered, retries, timers, badge,
                   startable, buttons>>

\* ws.onmessage, SDP_ANSWER: late unless this.pc has an offer out, and only the
\* connection the answer is for can have one.
Answer(i) ==
    /\ ws[i] = "sent"
    /\ i = current /\ i = held
    /\ answered = "no" /\ pc[i] = "offered"
    /\ answered' = "applying"
    /\ pc' = [pc EXCEPT ![i] = "applying"]
    /\ UNCHANGED <<call, current, held, ws, retries, timers, badge, startable, buttons>>

\* setRemoteDescription has settled, on a peer connection not closed meanwhile.
\* Nothing looks at the token again.  A candidate that came before the answer may yet
\* be refused, which is reported like any failure.
Applied(i) ==
    /\ pc[i] = "applying"
    /\ answered' = "yes"
    /\ pc' = [pc EXCEPT ![i] = "stable"]
    /\ call' \in {call, Resolved(call)}
    /\ UNCHANGED <<current, held, ws, retries, timers, badge, startable, buttons>>

\* "incompatible send direction": one retry, then an error.
Incompatible(i) ==
    /\ pc[i] = "applying"
    /\ answered' = "no"
    /\ pc' = [pc EXCEPT ![i] = "offered"]
    /\ call' = Resolved(call)
    /\ \/ /\ retries < 1
          /\ retries' = retries + 1
          /\ timers' = timers \cup {i}
          /\ UNCHANGED <<badge, startable>>
       \/ /\ retries >= 1
          /\ badge' = "error"
          /\ startable' = TRUE
          /\ UNCHANGED <<retries, timers>>
    /\ UNCHANGED <<current, held, ws, buttons>>

\* Any other failure of the answer.
AnswerRefused(i) ==
    /\ pc[i] = "applying"
    /\ answered' = "no"
    /\ pc' = [pc EXCEPT ![i] = "offered"]
    /\ call' = Resolved(call)
    /\ UNCHANGED <<current, held, ws, retries, timers, badge, startable, buttons>>

RetryFires_Always(i, j) ==          \* mutant: the token is not compared
    /\ i \in timers
    /\ timers' = timers \ {i}
    /\ start(j, TRUE)

RetryFires(i, j) ==
    /\ i \in timers /\ i = current
    /\ timers' = timers \ {i}
    /\ start(j, TRUE)

RetryIsStale(i) ==
    /\ i \in timers /\ i # current
    /\ timers' = timers \ {i}
    /\ UNCHANGED <<call, current, held, pc, ws, answered, retries, badge,
                   startable, buttons>>

\* pc.ontrack, with video.
Track_Any(i) ==                     \* mutant: the token is not compared
    /\ pc[i] = "stable"
    /\ pc' = [pc EXCEPT ![i] = "live"]
    /\ badge' = "live"
    /\ call' = Resolved(call)
    /\ UNCHANGED <<current, held, ws, answered, retries, timers, startable, buttons>>

Track(i) ==
    /\ pc[i] = "stable"
    /\ pc' = [pc EXCEPT ![i] = "live"]
    /\ IF i = current
       THEN badge' = "live" /\ call' = Resolved(call)
       ELSE UNCHANGED <<badge, call>>
    /\ UNCHANGED <<current, held, ws, answered, retries, timers, startable, buttons>>

\* pc.onconnectionstatechange: connection i has "failed" or is "disconnected", or has
\* changed to some other state.  The handler looks at the state of this.pc, which may
\* be another connection.
StateChanges(i) ==
    /\ pc[i] \in {"stable", "live"}
    /\ pc' \in {pc, [pc EXCEPT ![i] = "lost"]}
    /\ IF i = current /\ held # None /\ pc'[held] = "lost"
       THEN badge' = "error" /\ call' = Resolved(call)
       ELSE UNCHANGED <<badge, call>>
    /\ UNCHANGED <<current, held, ws, answered, retries, timers, startable, buttons>>

\* ws.onclose.
WsCloses(i) ==
    /\ ws[i] \in {"connecting", "open", "sent"}
    /\ ws' = [ws EXCEPT ![i] = "closed"]
    /\ call' = IF i = current THEN Resolved(call) ELSE call
    /\ UNCHANGED <<current, held, pc, answered, retries, timers, badge, startable, buttons>>

-----------------------------------------------------------------------------
Handler(i) ==
    \/ Fetched(i) \/ ConnectFails(i) \/ FetchFails(i) \/ WaitTimesOut(i)
    \/ WsOpens(i) \/ Answer(i) \/ Applied(i) \/ Incompatible(i) \/ AnswerRefused(i)
    \/ Track(i) \/ StateChanges(i) \/ WsCloses(i) \/ RetryIsStale(i)

Next ==
    \/ Stop \/ Rebuild
    \/ \E i \in Starts : StartClicked(i) \/ StartedByLoop(i) \/ Handler(i)
    \/ \E i, j \in Starts : RetryFires(i, j)

Spec == Init /\ [][Next]_vars

\* The dashboard server answers or the request fails; timers fire.
Fairness ==
    \A i \in Starts :
        /\ WF_vars(Fetched(i) \/ ConnectFails(i) \/ FetchFails(i))
        /\ WF_vars(WaitTimesOut(i))
        /\ WF_vars(RetryIsStale(i) \/ \E j \in Starts : RetryFires(i, j))

FairSpec == Spec /\ Fairness

-----------------------------------------------------------------------------
(* Properties *)

\* The badge says Live only while the session in force has video, or had it and lost it
\* after its this.pc was taken by an overlapping start: a connection that was replaced
\* never claims the tile, and a loss that the page can see takes the badge away.
LiveIsCurrent ==
    badge = "live" =>
        /\ current # None
        /\ \/ pc[current] = "live"
           \/ pc[current] = "lost" /\ held # current /\ current \in overlapped

\* Connections get out of stop()'s reach, or negotiate on behalf of another
\* session, only if two starts were fetching at once.
IsOpen(i) == pc[i] \notin {"none", "closed"}

StrayNeedsOverlap ==
    /\ \A i \in Starts : IsOpen(i) => i = held \/ i \in overlapped
    /\ current # None /\ held # None /\ held # current => {held, current} \subseteq overlapped

\* After a stop() nothing brings the tile back but a start: no late answer,
\* track or retry timer.
Started == \E i \in Starts : call[i] = "unused" /\ call'[i] = "fetching"

StoppedStaysStopped ==
    [][current = None =>
          \/ current' = None /\ badge' # "live"
          \/ ~removed /\ Started /\ timers' = timers]_vars

\* Start All and auto-start await start(): it returns, whatever the camera does.
StartsReturn == \A i \in Starts : call[i] = "fetching" ~> call[i] = "done"

\* Counterexamples: every connection is within stop()'s reach ...
OpenIsHeld == \A i \in Starts : IsOpen(i) => i = held

\* ... a tile taken out of the page has none ...
RemovedIsQuiet == removed => \A i \in Starts : ~IsOpen(i)

\* ... the badge says Live only while there is video ...
LiveHasVideo == badge = "live" => current # None /\ pc[current] = "live"

\* ... and a session that does not come about gives the Start button back.
ButtonComesBack == ~startable ~> startable \/ badge = "live"
=============================================================================
