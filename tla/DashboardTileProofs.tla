------------------------- MODULE DashboardTileProofs -------------------------
(* Safety of DashboardTile, for any number of starts. *)
EXTENDS DashboardTile, TLAPS

-----------------------------------------------------------------------------
(* The inductive invariant *)

\* A start has no connection before its parameters arrive, and this.pc is that of
\* a start whose parameters did.
ConnectsOnce ==
    /\ \A i \in Starts : call[i] \in {"unused", "fetching"} => pc[i] = "none" /\ ws[i] = "none"
    /\ held # None => call[held] \in {"waiting", "done"}

\* Nothing is negotiated before the socket opens.
ConnectingIsFresh ==
    \A i \in Starts : ws[i] = "connecting" => pc[i] \in {"made", "offered"}

\* While the session in force has a connection, something is held.
ConnectedIsHeld == current # None /\ pc[current] # "none" => held # None

\* Whatever a fetching start finds besides itself has overlapped with it.
FetchersOverlap ==
    \A i \in Starts : call[i] = "fetching" =>
        /\ \A j \in Starts \ {i} : call[j] = "fetching" => {i, j} \subseteq overlapped
        /\ held # None => {i, held} \subseteq overlapped
        /\ current # None /\ current # i => {i, current} \subseteq overlapped

TileInv ==
    TypeOK /\ ConnectsOnce /\ ConnectingIsFresh /\ ConnectedIsHeld /\ FetchersOverlap
    /\ LiveIsCurrent /\ StrayNeedsOverlap

-----------------------------------------------------------------------------
(* Lemmas *)

\* Resolving the waiters changes no start but those that wait.
LEMMA ResolvedType ==
    ASSUME TypeOK
    PROVE  /\ Resolved(call) \in [Starts -> {"unused", "fetching", "waiting", "done"}]
           /\ \A i \in Starts :
                 /\ Resolved(call)[i] = "unused" <=> call[i] = "unused"
                 /\ Resolved(call)[i] = "fetching" <=> call[i] = "fetching"
                 /\ call[i] \in {"waiting", "done"} => Resolved(call)[i] = "done"
  BY SMT DEF TypeOK, Resolved

\* A start() keeps the invariant: it closes what is held, and overlaps with
\* whatever is being fetched.
LEMMA StartKeepsInv ==
    ASSUME TileInv, NEW i \in Starts, NEW isRetry \in BOOLEAN, start(i, isRetry),
           timers' \subseteq Starts
    PROVE  TileInv'
<1>0. TypeOK BY DEF TileInv
<1>1. call' = [Resolved(call) EXCEPT ![i] = "fetching"] /\ call[i] = "unused"
  BY DEF start
<1>2. /\ current' = i /\ held' = None /\ badge' = "connecting" /\ answered' = "no"
      /\ startable' = FALSE /\ removed' = removed
      /\ pc' = [k \in Starts |-> IF k = held THEN "closed" ELSE pc[k]]
      /\ ws' = [k \in Starts |-> IF k = held THEN "closed" ELSE ws[k]]
      /\ overlapped' = IF Fetching = {} THEN overlapped ELSE overlapped \cup Fetching \cup {i}
  BY DEF start, stop
<1>3. retries' \in 0..1
  BY <1>0 DEF start, TypeOK
<1>4. \A k \in Starts :
        /\ call'[k] = "unused" => call[k] = "unused"
        /\ call'[k] = "fetching" => k = i \/ call[k] = "fetching"
  BY <1>0, <1>1, ResolvedType
<1>5. TypeOK'
  <2>1. call' \in [Starts -> {"unused", "fetching", "waiting", "done"}]
    BY <1>0, <1>1, ResolvedType
  <2>2. overlapped' \subseteq Starts
    BY <1>0, <1>2 DEF TypeOK, Fetching
  <2> QED BY <1>0, <1>2, <1>3, <2>1, <2>2 DEF TypeOK
<1>6. ConnectsOnce'
  <2>1. \A k \in Starts : call[k] \in {"unused", "fetching"} => k # held
    BY <1>0, NoneIsNoStart DEF TileInv, ConnectsOnce, TypeOK
  <2> QED BY <1>1, <1>2, <1>4, <2>1 DEF TileInv, ConnectsOnce
<1>7. ConnectingIsFresh'
  BY <1>2 DEF TileInv, ConnectingIsFresh
<1>8. FetchersOverlap'
  <2>1. \A k \in Starts : call'[k] = "fetching" /\ k # i => {k, i} \subseteq overlapped'
    BY <1>2, <1>4 DEF Fetching
  <2>2. overlapped \subseteq overlapped'
    BY <1>2
  <2> QED BY <1>2, <1>4, <2>1, <2>2 DEF TileInv, FetchersOverlap
<1>9. LiveIsCurrent' /\ ConnectedIsHeld'
  <2>1. pc[i] = "none" /\ i # held
    BY <1>0, <1>1, NoneIsNoStart DEF TileInv, ConnectsOnce, TypeOK
  <2> QED BY <1>2, <2>1 DEF LiveIsCurrent, ConnectedIsHeld
<1>10. StrayNeedsOverlap'
  <2>1. overlapped \subseteq overlapped'
    BY <1>2
  <2> QED BY <1>2, <2>1 DEF TileInv, StrayNeedsOverlap, IsOpen
<1> QED BY <1>5, <1>6, <1>7, <1>8, <1>9, <1>10 DEF TileInv

\* So does a stop().
LEMMA StopKeepsInv ==
    ASSUME TileInv, stop, current' = None, badge' = "online", startable' = TRUE,
           call' = Resolved(call), retries' = retries, timers' = timers,
           overlapped' = overlapped, removed' \in BOOLEAN
    PROVE  TileInv'
<1>0. TypeOK BY DEF TileInv
<1>1. /\ held' = None /\ answered' = "no"
      /\ pc' = [k \in Starts |-> IF k = held THEN "closed" ELSE pc[k]]
      /\ ws' = [k \in Starts |-> IF k = held THEN "closed" ELSE ws[k]]
  BY DEF stop
<1>2. \A k \in Starts : /\ call'[k] = "unused" <=> call[k] = "unused"
                        /\ call'[k] = "fetching" <=> call[k] = "fetching"
  BY <1>0, ResolvedType
<1>3. TypeOK'
  <2>1. call' \in [Starts -> {"unused", "fetching", "waiting", "done"}]
    BY <1>0, ResolvedType
  <2> QED BY <1>0, <1>1, <2>1 DEF TypeOK
<1>4. ConnectsOnce'
  <2>1. \A k \in Starts : call[k] \in {"unused", "fetching"} => k # held
    BY <1>0, NoneIsNoStart DEF TileInv, ConnectsOnce, TypeOK
  <2>2. \A k \in Starts : call'[k] \in {"unused", "fetching"} => pc'[k] = "none" /\ ws'[k] = "none"
    BY <1>1, <1>2, <2>1 DEF TileInv, ConnectsOnce
  <2> QED BY <1>1, <2>2 DEF ConnectsOnce
<1>5. ConnectingIsFresh' /\ ConnectedIsHeld' /\ LiveIsCurrent' /\ StrayNeedsOverlap'
  BY <1>1 DEF TileInv, ConnectingIsFresh, ConnectedIsHeld, LiveIsCurrent, StrayNeedsOverlap, IsOpen
<1>6. FetchersOverlap'
  BY <1>1, <1>2 DEF TileInv, FetchersOverlap
<1> QED BY <1>3, <1>4, <1>5, <1>6 DEF TileInv

-----------------------------------------------------------------------------
\* A tile begins with no connection.
LEMMA InitKeepsInv == Init => TileInv
<1> SUFFICES ASSUME Init PROVE TileInv
  OBVIOUS
<1>1. TypeOK
  <2>1. startable \in BOOLEAN /\ removed \in BOOLEAN
    BY Zenon DEF Init
  <2> QED BY <2>1 DEF Init, TypeOK
<1>2. ConnectsOnce /\ ConnectingIsFresh /\ ConnectedIsHeld
  BY DEF Init, ConnectsOnce, ConnectingIsFresh, ConnectedIsHeld
<1>3. FetchersOverlap
  BY DEF Init, FetchersOverlap
<1>4. LiveIsCurrent /\ StrayNeedsOverlap
  BY DEF Init, LiveIsCurrent, StrayNeedsOverlap, IsOpen
<1> QED BY <1>1, <1>2, <1>3, <1>4 DEF TileInv

\* The handlers of a connection keep it: they neither open nor close one.
LEMMA HandlersKeepInv ==
    ASSUME TileInv, NEW i \in Starts, Handler(i)
    PROVE  TileInv'
<1>0. TypeOK /\ None \notin Starts
  BY NoneIsNoStart DEF TileInv
<1> USE <1>0
<1>1. CASE Fetched(i)
  <2>1. TypeOK'
    BY <1>1 DEF Fetched, TypeOK, buttons
  <2>2. ConnectsOnce' /\ ConnectedIsHeld'
    BY <1>1 DEF Fetched, TypeOK, TileInv, ConnectsOnce, ConnectedIsHeld
  <2>3. ConnectingIsFresh' /\ LiveIsCurrent'
    <3>1. pc[i] = "none"
      BY <1>1 DEF Fetched, TileInv, ConnectsOnce
    <3>2. badge = "live" => current # i
      BY <3>1 DEF TileInv, LiveIsCurrent
    <3>3. current # None /\ current # i => current \in overlapped
      BY <1>1 DEF Fetched, TileInv, FetchersOverlap
    <3> QED BY <1>1, <3>2, <3>3
          DEF Fetched, TypeOK, TileInv, ConnectingIsFresh, LiveIsCurrent, buttons
  <2>4. FetchersOverlap'
    BY <1>1 DEF Fetched, TypeOK, TileInv, FetchersOverlap, buttons
  <2>5. StrayNeedsOverlap'
    <3>1. \A k \in Starts : IsOpen(k)' => k = held' \/ k \in overlapped'
      BY <1>1 DEF Fetched, TypeOK, TileInv, FetchersOverlap, StrayNeedsOverlap, IsOpen, buttons
    <3>2. current # None /\ current # i => {i, current} \subseteq overlapped
      BY <1>1 DEF Fetched, TileInv, FetchersOverlap
    <3> QED BY <1>1, <3>1, <3>2 DEF Fetched, StrayNeedsOverlap, buttons
  <2> QED BY <2>1, <2>2, <2>3, <2>4, <2>5 DEF TileInv
<1>2. CASE FetchFails(i) \/ WaitTimesOut(i) \/ RetryIsStale(i)
  <2>1. /\ UNCHANGED <<current, held, pc, ws, answered, retries, removed, overlapped>>
        /\ badge' \in {badge, "error"} /\ startable' \in BOOLEAN /\ timers' \subseteq timers
    BY <1>2 DEF FetchFails, WaitTimesOut, RetryIsStale, buttons, TypeOK
  <2>2. /\ call' \in [Starts -> {"unused", "fetching", "waiting", "done"}]
        /\ \A k \in Starts :
              /\ call'[k] \in {"unused", "fetching"} => call'[k] = call[k]
              /\ call[k] \in {"waiting", "done"} => call'[k] \in {"waiting", "done"}
    <3>1. CASE FetchFails(i)
      BY <3>1, ResolvedType DEF FetchFails, TypeOK, Resolved
    <3>2. CASE WaitTimesOut(i) \/ RetryIsStale(i)
      BY <3>2 DEF WaitTimesOut, RetryIsStale, TypeOK
    <3> QED BY <1>2, <3>1, <3>2
  <2>3. TypeOK'
    BY <2>1, <2>2 DEF TypeOK
  <2>4. ConnectsOnce' /\ ConnectingIsFresh' /\ ConnectedIsHeld' /\ FetchersOverlap'
    BY <2>1, <2>2 DEF TypeOK, TileInv, ConnectsOnce, ConnectingIsFresh, ConnectedIsHeld,
                      FetchersOverlap
  <2>5. LiveIsCurrent' /\ StrayNeedsOverlap'
    BY <2>1 DEF TileInv, LiveIsCurrent, StrayNeedsOverlap, IsOpen
  <2> QED BY <2>3, <2>4, <2>5 DEF TileInv
<1>3. CASE WsOpens(i)
  <2>1. /\ UNCHANGED <<call, current, held, answered, retries, timers, badge, startable,
                       removed, overlapped>>
        /\ ws[i] = "connecting" /\ ws'[i] \in {"open", "sent"}
        /\ ws' \in [Starts -> {"none", "connecting", "open", "sent", "closed"}]
        /\ \A k \in Starts : ws'[k] = "connecting" => ws[k] = "connecting" /\ k # i
        /\ \A k \in Starts : ws[k] = "none" => ws'[k] = "none"
    BY <1>3 DEF WsOpens, TypeOK, buttons
  <2>2. /\ pc' \in [Starts -> {"none", "made", "offered", "applying", "stable", "live", "lost", "closed"}]
        /\ \A k \in Starts : pc'[k] = pc[k] \/ (k = held /\ i = current /\ pc'[k] = "offered")
    BY <1>3 DEF WsOpens, TypeOK
  <2>3. TypeOK'
    BY <2>1, <2>2 DEF TypeOK
  <2>4. ConnectsOnce' /\ ConnectingIsFresh' /\ FetchersOverlap'
    BY <2>1, <2>2 DEF TileInv, ConnectsOnce, ConnectingIsFresh, FetchersOverlap
  <2>7. ConnectedIsHeld'
    BY <2>1, <2>2 DEF TileInv, ConnectedIsHeld, TypeOK
  <2>5. LiveIsCurrent'
    BY <2>1, <2>2 DEF TileInv, LiveIsCurrent, ConnectingIsFresh, TypeOK
  <2>6. StrayNeedsOverlap'
    BY <2>1, <2>2 DEF TileInv, StrayNeedsOverlap, IsOpen
  <2> QED BY <2>3, <2>4, <2>5, <2>6, <2>7 DEF TileInv
<1>4. CASE \/ Answer(i) \/ Applied(i) \/ Incompatible(i) \/ AnswerRefused(i)
           \/ Track(i) \/ StateChanges(i) \/ WsCloses(i)
  <2>1. /\ UNCHANGED <<current, held, removed, overlapped>>
        /\ \A k \in Starts : ws'[k] = ws[k] \/ (k = i /\ ws[k] # "none" /\ ws'[k] = "closed")
        /\ ws' \in [Starts -> {"none", "connecting", "open", "sent", "closed"}]
    BY <1>4 DEF Answer, Applied, Incompatible, AnswerRefused, Track, StateChanges, WsCloses,
                TypeOK, buttons
  <2>2. /\ pc' \in [Starts -> {"none", "made", "offered", "applying", "stable", "live", "lost", "closed"}]
        /\ \A k \in Starts \ {i} : pc'[k] = pc[k]
        /\ \/ pc'[i] = pc[i]
           \/ pc[i] = "offered" /\ pc'[i] = "applying" /\ ws[i] = "sent" /\ badge' = badge
           \/ pc[i] = "applying" /\ pc'[i] \in {"offered", "stable"} /\ badge' \in {badge, "error"}
           \/ pc[i] = "stable" /\ pc'[i] = "live"
              /\ (badge' = badge \/ (i = current /\ badge' = "live"))
           \/ pc[i] \in {"stable", "live"} /\ pc'[i] = "lost"
              /\ (IF i = current /\ held = i THEN badge' = "error" ELSE badge' \in {badge, "error"})
        /\ pc'[i] = pc[i] => badge' \in {badge, "error"}
    BY <1>4 DEF Answer, Applied, Incompatible, AnswerRefused, Track, StateChanges, WsCloses, TypeOK
  <2>3. call' = call \/ call' = Resolved(call)
    BY <1>4 DEF Answer, Applied, Incompatible, AnswerRefused, Track, StateChanges, WsCloses
  <2>4. /\ call' \in [Starts -> {"unused", "fetching", "waiting", "done"}]
        /\ \A k \in Starts :
              /\ call'[k] \in {"unused", "fetching"} => call'[k] = call[k]
              /\ call[k] \in {"waiting", "done"} => call'[k] \in {"waiting", "done"}
    BY <2>3, ResolvedType DEF TypeOK
  <2>5. TypeOK'
    <3>1. answered' \in {"no", "applying", "yes"} /\ retries' \in 0..1 /\ timers' \subseteq Starts
      BY <1>4 DEF Answer, Applied, Incompatible, AnswerRefused, Track, StateChanges, WsCloses, TypeOK
    <3>2. startable' = startable \/ startable' = TRUE
      BY <1>4, Zenon DEF Answer, Applied, Incompatible, AnswerRefused, Track, StateChanges, WsCloses
    <3>3. startable' \in BOOLEAN
      BY <3>2, Zenon DEF TypeOK
    <3>4. badge' \in {"online", "connecting", "live", "error"}
      BY <2>2 DEF TypeOK
    <3> QED BY <2>1, <2>2, <2>4, <3>1, <3>3, <3>4 DEF TypeOK
  <2>6. ConnectsOnce' /\ FetchersOverlap'
    BY <2>1, <2>2, <2>4 DEF TypeOK, TileInv, ConnectsOnce, FetchersOverlap
  <2>7. ConnectingIsFresh' /\ ConnectedIsHeld'
    BY <2>1, <2>2 DEF TileInv, ConnectingIsFresh, ConnectedIsHeld, TypeOK
  <2>9. LiveIsCurrent'
    <3>1. pc[i] \in {"stable", "live"} /\ i = current /\ held # i => i \in overlapped
      BY DEF TileInv, ConnectedIsHeld, StrayNeedsOverlap
    <3> QED BY <2>1, <2>2, <3>1 DEF TileInv, LiveIsCurrent, TypeOK
  <2>8. StrayNeedsOverlap'
    BY <2>1, <2>2 DEF TileInv, StrayNeedsOverlap, IsOpen
  <2> QED BY <2>5, <2>6, <2>7, <2>8, <2>9 DEF TileInv
<1>5. CASE ConnectFails(i)
  <2>1. /\ call' = [Resolved(call) EXCEPT ![i] = "done"] /\ call[i] = "fetching"
        /\ held = None /\ held' = i /\ pc' = [pc EXCEPT ![i] = "made"]
        /\ badge' = "error" /\ startable' = TRUE
        /\ UNCHANGED <<current, ws, answered, retries, timers, removed, overlapped>>
    BY <1>5 DEF ConnectFails, buttons
  <2>2. /\ call' \in [Starts -> {"unused", "fetching", "waiting", "done"}]
        /\ call'[i] = "done"
        /\ \A k \in Starts \ {i} :
              /\ call'[k] \in {"unused", "fetching"} => call'[k] = call[k]
    BY <2>1, ResolvedType
  <2>3. TypeOK'
    BY <2>1, <2>2 DEF TypeOK
  <2>4. ConnectsOnce' /\ ConnectingIsFresh' /\ ConnectedIsHeld'
    BY <2>1, <2>2 DEF TypeOK, TileInv, ConnectsOnce, ConnectingIsFresh, ConnectedIsHeld
  <2>5. FetchersOverlap'
    BY <2>1, <2>2 DEF TypeOK, TileInv, FetchersOverlap
  <2>6. LiveIsCurrent'
    BY <2>1 DEF LiveIsCurrent
  <2>7. StrayNeedsOverlap'
    <3>1. current # None /\ current # i => {i, current} \subseteq overlapped
      BY <2>1 DEF TileInv, FetchersOverlap
    <3> QED BY <2>1, <3>1 DEF TileInv, StrayNeedsOverlap, IsOpen, TypeOK
  <2> QED BY <2>3, <2>4, <2>5, <2>6, <2>7 DEF TileInv
<1> QED BY <1>1, <1>2, <1>3, <1>4, <1>5 DEF Handler

\* Every step of the tile keeps it.
LEMMA NextKeepsInv == TileInv /\ [Next]_vars => TileInv'
<1> SUFFICES ASSUME TileInv, [Next]_vars PROVE TileInv'
  OBVIOUS
<1>0. TypeOK BY DEF TileInv
<1>1. CASE Stop \/ Rebuild
  <2>1. removed' \in BOOLEAN
    BY <1>0, <1>1 DEF Stop, Rebuild, TypeOK
  <2> QED BY <1>1, <2>1, StopKeepsInv DEF Stop, Rebuild
<1>2. ASSUME NEW i \in Starts, StartClicked(i) \/ StartedByLoop(i) PROVE TileInv'
  <2>1. timers' \subseteq Starts /\ start(i, FALSE)
    BY <1>0, <1>2 DEF StartClicked, StartedByLoop, TypeOK
  <2> QED BY <2>1, StartKeepsInv
<1>3. ASSUME NEW i \in Starts, NEW j \in Starts, RetryFires(i, j) PROVE TileInv'
  <2>1. timers' \subseteq Starts /\ start(j, TRUE)
    BY <1>0, <1>3 DEF RetryFires, TypeOK
  <2> QED BY <2>1, StartKeepsInv
<1>4. ASSUME NEW i \in Starts, Handler(i) PROVE TileInv'
  BY <1>4, HandlersKeepInv
<1>5. CASE UNCHANGED vars
  BY <1>5 DEF vars, TileInv, TypeOK, ConnectsOnce, ConnectingIsFresh, ConnectedIsHeld,
              FetchersOverlap,
              LiveIsCurrent, StrayNeedsOverlap, IsOpen
<1> QED BY <1>1, <1>2, <1>3, <1>4, <1>5 DEF Next

\* The tile's invariant.
THEOREM TileInvariant == Spec => []TileInv
<1>1. Init => TileInv BY InitKeepsInv
<1>2. TileInv /\ [Next]_vars => TileInv' BY NextKeepsInv
<1> QED BY <1>1, <1>2, PTL DEF Spec

\* The types of the tile's state.
THEOREM TileTypeOK == Spec => []TypeOK
<1>1. TileInv => TypeOK BY DEF TileInv
<1> QED BY <1>1, TileInvariant, PTL

\* The badge says Live only while the session in force has video, unless its this.pc was
\* taken by an overlapping start before the video was lost.
THEOREM TileLiveIsCurrent == Spec => []LiveIsCurrent
<1>1. TileInv => LiveIsCurrent BY DEF TileInv
<1> QED BY <1>1, TileInvariant, PTL

\* Connections escape stop() through overlapping starts, and in no other way.
THEOREM TileStrays == Spec => []StrayNeedsOverlap
<1>1. TileInv => StrayNeedsOverlap BY DEF TileInv
<1> QED BY <1>1, TileInvariant, PTL

\* A stopped tile stays stopped until somebody asks for a start.
THEOREM TileStoppedStaysStopped == Spec => StoppedStaysStopped
<1>1. ASSUME TileInv, [Next]_vars
      PROVE  [current = None =>
                 \/ current' = None /\ badge' # "live"
                 \/ ~removed /\ Started /\ timers' = timers]_vars
  <2> SUFFICES ASSUME current = None
               PROVE  \/ current' = None /\ badge' # "live"
                      \/ ~removed /\ Started /\ timers' = timers
    OBVIOUS
  <2>0. TypeOK /\ badge # "live" /\ None \notin Starts
    BY <1>1, NoneIsNoStart DEF TileInv, LiveIsCurrent
  <2>1. CASE Stop \/ Rebuild
    BY <2>1 DEF Stop, Rebuild
  <2>2. ASSUME NEW i \in Starts, StartClicked(i) \/ StartedByLoop(i)
        PROVE  ~removed /\ Started /\ timers' = timers
    <3>1. call[i] = "unused" /\ call' = [Resolved(call) EXCEPT ![i] = "fetching"]
      BY <2>2 DEF StartClicked, StartedByLoop, start
    <3>2. call'[i] = "fetching"
      BY <2>0, <3>1, ResolvedType
    <3> QED BY <2>2, <3>1, <3>2 DEF StartClicked, StartedByLoop, Started
  <2>3. ASSUME NEW i \in Starts, Handler(i)
        PROVE  current' = None /\ badge' # "live"
    BY <2>0, <2>3 DEF Handler, Fetched, ConnectFails, FetchFails, WaitTimesOut, WsOpens, Answer, Applied,
           Incompatible, AnswerRefused, Track, StateChanges, WsCloses, RetryIsStale
  <2>4. ASSUME NEW i \in Starts, NEW j \in Starts, RetryFires(i, j) PROVE FALSE
    BY <2>0, <2>4 DEF RetryFires
  <2>5. CASE UNCHANGED vars
    BY <2>0, <2>5 DEF vars
  <2> QED BY <1>1, <2>1, <2>2, <2>3, <2>4, <2>5 DEF Next
<1> QED BY <1>1, TileInvariant, PTL DEF Spec, StoppedStaysStopped
=============================================================================
