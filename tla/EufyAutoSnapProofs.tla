------------------------- MODULE EufyAutoSnapProofs -------------------------
(* Proofs about the snapshot schedule, for any cameras and any intervals.   *)
EXTENDS EufyAutoSnap, SequenceTheorems, TLAPS

USE DEF Off

\* What the live timers of a camera are when the server holds the handle of
\* the one with period h.
Timers(h) == [m \in Minutes |-> IF h = m THEN 1 ELSE 0]

\* Once the cloud has connected every interval has its timer; before that only
\* the cameras that were set since.
HandleIsInterval ==
    /\ \A sn \in Cameras : handle[sn] \in {Off, minutes[sn]}
    /\ started => \A sn \in Cameras : handle[sn] = minutes[sn]

\* A process that has ended holds nothing.
DownIsEmpty ==
    ~up => /\ ~started
           /\ writes = <<>>
           /\ \A sn \in Cameras : handle[sn] = Off

IInv == TypeOK /\ OneTimer /\ HandleIsInterval /\ DownIsEmpty

-----------------------------------------------------------------------------
\* The live timers are determined by the handles.
LEMMA LiveIsTimers ==
    ASSUME TypeOK, OneTimer
    PROVE  live = [sn \in Cameras |-> Timers(handle[sn])]
<1>1. ASSUME NEW sn \in Cameras PROVE live[sn] = Timers(handle[sn])
  BY DEF TypeOK, OneTimer, Timers
<1>2. live \in [Cameras -> [Minutes -> Nat]]
  BY DEF TypeOK
<1> QED BY <1>1, <1>2

\* Clearing leaves no live timer of the camera.
LEMMA ClearLeavesNone ==
    ASSUME TypeOK, OneTimer, NEW sn \in Cameras
    PROVE  clearAutoSnapTimer(sn) = NoTimers
<1>1. live[sn] = Timers(handle[sn])
  BY LiveIsTimers
<1>2. handle[sn] \in Minutes \cup {Off}
  BY DEF TypeOK
<1>3. CASE handle[sn] = Off
  <2>1. Timers(Off) = NoTimers
    BY MinutesAssumption DEF Timers, NoTimers
  <2> QED BY <1>1, <1>3, <2>1 DEF clearAutoSnapTimer
<1>4. CASE handle[sn] # Off
  BY <1>1, <1>2, <1>4 DEF clearAutoSnapTimer, Timers, NoTimers
<1> QED BY <1>3, <1>4

\* Scheduling leaves exactly one live timer, with the new period.
LEMMA ScheduleLeavesOne ==
    ASSUME TypeOK, OneTimer, NEW sn \in Cameras, NEW m \in Minutes
    PROVE  scheduleAutoSnap(sn, m) = Timers(m)
<1>1. clearAutoSnapTimer(sn) = NoTimers
  BY ClearLeavesNone
<1> QED BY <1>1 DEF scheduleAutoSnap, NoTimers, Timers

\* The timers that Timers describes are typed.
LEMMA TimersTyped ==
    ASSUME NEW h \in [Cameras -> Minutes \cup {Off}]
    PROVE  [sn \in Cameras |-> Timers(h[sn])] \in [Cameras -> [Minutes -> Nat]]
BY DEF Timers

\* Appending to the writes in flight keeps them schedules.
LEMMA PersistTypes ==
    ASSUME writes \in Seq(Schedules), NEW s \in Schedules, persistAutoSnapConfig(s)
    PROVE  writes' \in Seq(Schedules)
BY DEF persistAutoSnapConfig

\* A completed write leaves the others in flight.
LEMMA RemoveTypes ==
    ASSUME NEW w \in Seq(Schedules), NEW i \in DOMAIN w
    PROVE  RemoveAt(w, i) \in Seq(Schedules)
<1>1. i \in 1..Len(w) /\ Len(w) \in Nat
  OBVIOUS
<1>2. SubSeq(w, 1, i - 1) \in Seq(Schedules)
  BY <1>1
<1>3. SubSeq(w, i + 1, Len(w)) \in Seq(Schedules)
  BY <1>1
<1> QED BY <1>2, <1>3 DEF RemoveAt

\* The file always loads as a schedule.
LEMMA LoadedIsSchedule ==
    ASSUME TypeOK
    PROVE  Loaded \in Schedules
BY DEF TypeOK, Loaded, Schedules

LEMMA InitIInv == Init => IInv
<1> SUFFICES ASSUME Init PROVE IInv
  OBVIOUS
<1> USE DEF Init
<1>1. Timers(Off) = NoTimers
  BY MinutesAssumption DEF Timers, NoTimers
<1>2. live = [sn \in Cameras |-> Timers(handle[sn])]
  BY <1>1
<1>3. TypeOK
  <2>1. live \in [Cameras -> [Minutes -> Nat]]
    BY <1>2, TimersTyped
  <2>2. up \in BOOLEAN /\ started \in BOOLEAN /\ failed \in BOOLEAN
    OBVIOUS
  <2>3. writes \in Seq(Schedules)
    OBVIOUS
  <2> QED BY <2>1, <2>2, <2>3 DEF TypeOK, Schedules
<1>4. OneTimer
  BY <1>2 DEF OneTimer, Timers
<1> QED BY <1>3, <1>4 DEF IInv, HandleIsInterval, DownIsEmpty

LEMMA NextIInv == IInv /\ [Next]_vars => IInv'
<1> SUFFICES ASSUME IInv, [Next]_vars PROVE IInv'
  OBVIOUS
<1>0. /\ TypeOK /\ OneTimer /\ HandleIsInterval /\ DownIsEmpty
      /\ live = [sn \in Cameras |-> Timers(handle[sn])]
  BY LiveIsTimers DEF IInv
<1>1. ASSUME NEW sn \in Cameras, Disable(sn) PROVE IInv'
  <2>1. minutes' \in Schedules /\ handle' \in [Cameras -> Minutes \cup {Off}]
    BY <1>0, <1>1 DEF Disable, TypeOK, Schedules
  <2>2. writes' \in Seq(Schedules)
    BY <1>0, <1>1, <2>1, PersistTypes DEF Disable, TypeOK
  <2>3. Timers(Off) = NoTimers
    BY MinutesAssumption DEF Timers, NoTimers
  <2>4. live' = [c \in Cameras |-> Timers(handle'[c])]
    BY <1>0, <1>1, <2>3, ClearLeavesNone DEF Disable, TypeOK
  <2>5. TypeOK'
    <3>1. live' \in [Cameras -> [Minutes -> Nat]]
      BY <2>1, <2>4, TimersTyped
    <3>2. up' \in BOOLEAN /\ started' \in BOOLEAN /\ failed' \in BOOLEAN
      BY <1>0, <1>1 DEF Disable, TypeOK
    <3> QED BY <1>0, <1>1, <2>1, <2>2, <3>1, <3>2 DEF Disable, TypeOK
  <2>6. OneTimer'
    BY <2>4 DEF OneTimer, Timers
  <2>7. HandleIsInterval'
    BY <1>0, <1>1, <2>1 DEF Disable, HandleIsInterval, TypeOK, Schedules
  <2>8. DownIsEmpty'
    BY <1>1 DEF Disable, DownIsEmpty
  <2> QED BY <2>5, <2>6, <2>7, <2>8 DEF IInv
<1>2. ASSUME NEW sn \in Cameras, NEW m \in Requests, Enable(sn, m) PROVE IInv'
  <2>0. m \in Minutes
    BY <1>2 DEF Enable, Allowed
  <2>1. minutes' \in Schedules /\ handle' \in [Cameras -> Minutes \cup {Off}]
    BY <1>0, <1>2, <2>0 DEF Enable, TypeOK, Schedules
  <2>2. writes' \in Seq(Schedules)
    BY <1>0, <1>2, <2>1, PersistTypes DEF Enable, TypeOK
  <2>4. live' = [c \in Cameras |-> Timers(handle'[c])]
    BY <1>0, <1>2, <2>0, ScheduleLeavesOne DEF Enable, TypeOK
  <2>5. TypeOK'
    <3>1. live' \in [Cameras -> [Minutes -> Nat]]
      BY <2>1, <2>4, TimersTyped
    <3>2. up' \in BOOLEAN /\ started' \in BOOLEAN /\ failed' \in BOOLEAN
      BY <1>0, <1>2 DEF Enable, TypeOK
    <3> QED BY <1>0, <1>2, <2>1, <2>2, <3>1, <3>2 DEF Enable, TypeOK
  <2>6. OneTimer'
    BY <2>4 DEF OneTimer, Timers
  <2>7. HandleIsInterval'
    BY <1>0, <1>2, <2>1 DEF Enable, HandleIsInterval, TypeOK, Schedules
  <2>8. DownIsEmpty'
    BY <1>2 DEF Enable, DownIsEmpty
  <2> QED BY <2>5, <2>6, <2>7, <2>8 DEF IInv
<1>3. ASSUME NEW i \in DOMAIN writes, WriteCompletes(i) PROVE IInv'
  <2>1. writes' \in Seq(Schedules)
    BY <1>0, <1>3, RemoveTypes DEF WriteCompletes, TypeOK
  <2>2. writes[i] \in Schedules
    BY <1>0 DEF TypeOK
  <2>3. file' \in Schedules \cup {Torn}
    BY <1>0, <1>3, <2>2 DEF WriteCompletes, TypeOK
  <2>4. up' \in BOOLEAN /\ started' \in BOOLEAN /\ failed' \in BOOLEAN
    BY <1>0, <1>3 DEF WriteCompletes, TypeOK
  <2>5. TypeOK'
    BY <1>0, <1>3, <2>1, <2>3, <2>4 DEF WriteCompletes, TypeOK
  <2> QED BY <1>0, <1>3, <2>5
    DEF WriteCompletes, IInv, OneTimer, HandleIsInterval, DownIsEmpty
<1>4. ASSUME CloudConnects PROVE IInv'
  <2>1. handle' = [c \in Cameras |-> minutes[c]]
    BY <1>0, <1>4 DEF CloudConnects, startAllAutoSnapTimers, HandleIsInterval, TypeOK
  <2>2. ASSUME NEW c \in Cameras PROVE live'[c] = Timers(minutes[c])
    <3>1. CASE minutes[c] = Off
      <4>1. handle[c] = Off
        BY <1>0, <3>1 DEF HandleIsInterval
      <4> QED BY <1>0, <1>4, <3>1, <4>1 DEF CloudConnects, startAllAutoSnapTimers
    <3>2. CASE minutes[c] # Off
      <4>1. minutes[c] \in Minutes
        BY <1>0, <3>2 DEF TypeOK, Schedules
      <4>2. scheduleAutoSnap(c, minutes[c]) = Timers(minutes[c])
        BY <1>0, <4>1, ScheduleLeavesOne
      <4> QED BY <1>4, <3>2, <4>2 DEF CloudConnects, startAllAutoSnapTimers
    <3> QED BY <3>1, <3>2
  <2>3. live' = [c \in Cameras |-> Timers(handle'[c])]
    BY <1>4, <2>1, <2>2 DEF CloudConnects, startAllAutoSnapTimers
  <2>0. handle' \in [Cameras -> Minutes \cup {Off}]
    BY <1>0, <2>1 DEF TypeOK, Schedules
  <2>4. TypeOK'
    <3>1. live' \in [Cameras -> [Minutes -> Nat]]
      BY <2>0, <2>3, TimersTyped
    <3>2. up' \in BOOLEAN /\ started' \in BOOLEAN /\ failed' \in BOOLEAN
      BY <1>0, <1>4 DEF CloudConnects, TypeOK
    <3> QED BY <1>0, <1>4, <2>0, <3>1, <3>2 DEF CloudConnects, TypeOK, Schedules
  <2>5. OneTimer'
    BY <2>3 DEF OneTimer, Timers
  <2>6. HandleIsInterval' /\ DownIsEmpty'
    BY <1>4, <2>1 DEF CloudConnects, HandleIsInterval, DownIsEmpty
  <2> QED BY <2>4, <2>5, <2>6 DEF IInv
<1>5. ASSUME Exits PROVE IInv'
  <2>1. file' \in Schedules \cup {Torn}
    BY <1>0, <1>5 DEF Exits, TypeOK
  <2>2. live' = [c \in Cameras |-> Timers(handle'[c])]
    BY <1>5, MinutesAssumption DEF Exits, Timers, NoTimers
  <2>3. TypeOK'
    <3>1. handle' \in [Cameras -> Minutes \cup {Off}]
      BY <1>5 DEF Exits
    <3>2. live' \in [Cameras -> [Minutes -> Nat]]
      BY <2>2, <3>1, TimersTyped
    <3>3. up' \in BOOLEAN /\ started' \in BOOLEAN /\ failed' \in BOOLEAN
      BY <1>5 DEF Exits
    <3>4. writes' \in Seq(Schedules)
      BY <1>5 DEF Exits
    <3> QED BY <1>5, <2>1, <3>1, <3>2, <3>3, <3>4 DEF Exits, TypeOK, Schedules
  <2>4. OneTimer'
    BY <2>2 DEF OneTimer, Timers
  <2> QED BY <1>5, <2>3, <2>4 DEF Exits, IInv, HandleIsInterval, DownIsEmpty
<1>6. ASSUME Starts PROVE IInv'
  <2>1. minutes' \in Schedules
    BY <1>0, <1>6, LoadedIsSchedule DEF Starts
  <2>2. TypeOK' /\ OneTimer'
    BY <1>0, <1>6, <2>1 DEF Starts, TypeOK, OneTimer
  <2> QED BY <1>0, <1>6, <2>2 DEF Starts, IInv, HandleIsInterval, DownIsEmpty
<1>7. CASE UNCHANGED vars
  BY <1>0, <1>7
    DEF vars, IInv, TypeOK, OneTimer, HandleIsInterval, DownIsEmpty
<1> QED BY <1>1, <1>2, <1>3, <1>4, <1>5, <1>6, <1>7 DEF Next

LEMMA SpecIInv == Spec => []IInv
BY InitIInv, NextIInv, PTL DEF Spec

-----------------------------------------------------------------------------
\* The schedule, the timers, the file and the writes in flight stay well typed
\* through requests, reconnects, failed writes, crashes and restarts.
THEOREM AutoSnapTypeOK == Spec => []TypeOK
<1>1. IInv => TypeOK
  BY DEF IInv
<1> QED BY <1>1, SpecIInv, PTL

\* scheduleAutoSnap never leaks a timer: however often a camera is set and the
\* cloud reconnects, at most one timer of it is live, the one that can be
\* cleared.
THEOREM OneTimerPerCamera == Spec => []OneTimer
<1>1. IInv => OneTimer
  BY DEF IInv
<1> QED BY <1>1, SpecIInv, PTL

\* Every live timer runs at the interval in force, and after the first connect of a
\* run every configured camera has one, those restored from autosnap.json included.
THEOREM CamerasPolledAsConfigured == Spec => []PolledAsConfigured
<1>1. IInv => PolledAsConfigured
  <2> SUFFICES ASSUME IInv, NEW sn \in Cameras, NEW m \in Minutes
               PROVE  /\ live[sn][m] > 0 => minutes[sn] = m
                      /\ started /\ minutes[sn] = m => live[sn][m] > 0
    BY DEF PolledAsConfigured
  <2>1. ASSUME live[sn][m] > 0 PROVE minutes[sn] = m
    <3>1. handle[sn] = m
      BY <2>1 DEF IInv, OneTimer
    <3> QED BY <3>1, MinutesAssumption DEF IInv, HandleIsInterval
  <2>2. ASSUME started, minutes[sn] = m PROVE live[sn][m] > 0
    <3>1. handle[sn] = m
      BY <2>2 DEF IInv, HandleIsInterval
    <3> QED BY <3>1 DEF IInv, OneTimer
  <2> QED BY <2>1, <2>2
<1> QED BY <1>1, SpecIInv, PTL

-----------------------------------------------------------------------------
\* The latest schedule is the last one to be written, or it is on disk, or the
\* log reports that it is not.
LatestIsOnItsWay ==
    up => IF writes = <<>> THEN failed \/ Loaded = minutes
          ELSE writes[Len(writes)] = minutes

\* What was appended last is last.
LEMMA LastAppended ==
    ASSUME NEW w \in Seq(Schedules), NEW s \in Schedules
    PROVE  Append(w, s) # <<>> /\ Append(w, s)[Len(Append(w, s))] = s
OBVIOUS

\* Removing the first of several leaves the last.
LEMMA LastRemains ==
    ASSUME NEW w \in Seq(Schedules), 1 \in DOMAIN w
    PROVE  IF Len(w) = 1 THEN RemoveAt(w, 1) = <<>>
           ELSE /\ RemoveAt(w, 1) # <<>>
                /\ RemoveAt(w, 1)[Len(RemoveAt(w, 1))] = w[Len(w)]
<1>0. Len(w) \in Nat /\ Len(w) >= 1
  OBVIOUS
<1>1. SubSeq(w, 1, 1 - 1) = <<>>
  BY <1>0
<1>2. RemoveAt(w, 1) = SubSeq(w, 2, Len(w))
  BY <1>0, <1>1 DEF RemoveAt
<1>3. CASE Len(w) = 1
  BY <1>2, <1>3
<1>4. CASE Len(w) # 1
  <2>1. /\ SubSeq(w, 2, Len(w)) \in Seq(Schedules)
        /\ Len(SubSeq(w, 2, Len(w))) = Len(w) - 1
        /\ \A i \in 1..Len(w) - 1 : SubSeq(w, 2, Len(w))[i] = w[i + 1]
    <3>1. \A i \in 2..Len(w) : w[i] \in Schedules
      BY <1>0
    <3>2. /\ SubSeq(w, 2, Len(w)) \in Seq(Schedules)
          /\ Len(SubSeq(w, 2, Len(w))) = IF 2 <= Len(w) THEN Len(w) - 2 + 1 ELSE 0
          /\ \A i \in 1..Len(w) - 2 + 1 : SubSeq(w, 2, Len(w))[i] = w[2 + i - 1]
      BY <1>0, <3>1, SubSeqProperties
    <3>3. Len(SubSeq(w, 2, Len(w))) = Len(w) - 1
      <4>1. \A n \in Nat : n >= 1 /\ n # 1 => 2 <= n /\ n - 2 + 1 = n - 1
        OBVIOUS
      <4>2. 2 <= Len(w) /\ Len(w) - 2 + 1 = Len(w) - 1
        BY <1>0, <1>4, <4>1, Zenon
      <4> QED BY <3>2, <4>2, Zenon
    <3>4. ASSUME NEW i \in 1..Len(w) - 1 PROVE SubSeq(w, 2, Len(w))[i] = w[i + 1]
      <4>1. i \in 1..Len(w) - 2 + 1 /\ 2 + i - 1 = i + 1
        BY <1>0
      <4> QED BY <3>2, <4>1
    <3> QED BY <3>2, <3>3, <3>4
  <2>2. SubSeq(w, 2, Len(w))[Len(w) - 1] = w[Len(w)]
    BY <1>0, <1>4, <2>1
  <2> QED BY <1>0, <1>2, <1>4, <2>1, <2>2
<1> QED BY <1>3, <1>4

\* If writes of autosnap.json complete in the order they were begun, then once
\* they have, the schedule in force is the one a restart would restore, or the
\* log reports a failed write.
THEOREM QuietScheduleIsSaved ==
    ASSUME ~Reorders
    PROVE  Spec => []SavedWhenQuiet
<1>1. Init => LatestIsOnItsWay
  BY TornAssumption DEF Init, LatestIsOnItsWay, Loaded, Schedules
<1>2. IInv /\ IInv' /\ LatestIsOnItsWay /\ [Next]_vars => LatestIsOnItsWay'
  <2> SUFFICES ASSUME IInv, IInv', LatestIsOnItsWay, [Next]_vars
               PROVE  LatestIsOnItsWay'
    OBVIOUS
  <2>0. writes \in Seq(Schedules) /\ minutes \in Schedules /\ minutes' \in Schedules
    BY DEF IInv, TypeOK
  <2>1. ASSUME persistAutoSnapConfig(minutes')
        PROVE  writes' # <<>> /\ writes'[Len(writes')] = minutes'
    BY <2>0, <2>1, LastAppended DEF persistAutoSnapConfig
  <2>2. ASSUME NEW sn \in Cameras, Disable(sn) PROVE LatestIsOnItsWay'
    <3>1. persistAutoSnapConfig(minutes')
      BY <2>2 DEF Disable
    <3> QED BY <2>1, <3>1 DEF LatestIsOnItsWay
  <2>3. ASSUME NEW sn \in Cameras, NEW m \in Requests, Enable(sn, m)
        PROVE LatestIsOnItsWay'
    <3>1. persistAutoSnapConfig(minutes')
      BY <2>3 DEF Enable
    <3> QED BY <2>1, <3>1 DEF LatestIsOnItsWay
  <2>4. ASSUME NEW i \in DOMAIN writes, WriteCompletes(i) PROVE LatestIsOnItsWay'
    <3>1. /\ 1 \in DOMAIN writes
          /\ writes' = RemoveAt(writes, 1)
          /\ minutes' = minutes /\ up
      BY <2>4 DEF WriteCompletes
    <3>2. writes # <<>> /\ writes[Len(writes)] = minutes
      BY <2>0, <3>1 DEF LatestIsOnItsWay
    <3>3. CASE Len(writes) = 1
      <4>1. writes' = <<>>
        BY <2>0, <3>1, <3>3, LastRemains
      <4>2. failed' \/ file' = minutes
        BY <2>4, <3>2, <3>3 DEF WriteCompletes
      <4>3. minutes # Torn
        BY <2>0, TornAssumption
      <4> QED BY <3>1, <4>1, <4>2, <4>3 DEF LatestIsOnItsWay, Loaded
    <3>4. CASE Len(writes) # 1
      BY <2>0, <3>1, <3>2, <3>4, LastRemains DEF LatestIsOnItsWay
    <3> QED BY <3>3, <3>4
  <2>5. ASSUME CloudConnects PROVE LatestIsOnItsWay'
    BY <2>5 DEF CloudConnects, LatestIsOnItsWay, Loaded
  <2>6. CASE Exits
    BY <2>6 DEF Exits, LatestIsOnItsWay
  <2>7. CASE Starts
    <3>1. writes' = <<>> /\ minutes' = Loaded /\ file' = file
      BY <2>7 DEF Starts, IInv, DownIsEmpty
    <3>2. Loaded' = Loaded
      BY <3>1 DEF Loaded
    <3> QED BY <3>1, <3>2 DEF LatestIsOnItsWay
  <2>8. CASE UNCHANGED vars
    BY <2>8 DEF vars, LatestIsOnItsWay, Loaded
  <2> QED BY <2>2, <2>3, <2>4, <2>5, <2>6, <2>7, <2>8 DEF Next
<1>3. LatestIsOnItsWay => SavedWhenQuiet
  BY DEF LatestIsOnItsWay, SavedWhenQuiet
<1> QED BY <1>1, <1>2, <1>3, SpecIInv, PTL DEF Spec
=============================================================================
