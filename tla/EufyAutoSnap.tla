---------------------------- MODULE EufyAutoSnap ----------------------------
(***************************************************************************)
(* The per-camera snapshot schedule of eufy/server.js: the intervals in    *)
(* memory, the Node timers that run them, and autosnap.json on disk.  What *)
(* a tick of an interval asks for is EufyStreams!RefreshSnapshot.          *)
(*                                                                         *)
(* A Node timer stays alive until it is cleared, whether or not the server *)
(* still holds its handle, so live timers are counted apart from the       *)
(* handles the server knows.                                               *)
(***************************************************************************)
EXTENDS Naturals, Sequences, SequencesExt

CONSTANTS
    Cameras,
    Minutes,    \* ALLOWED_AUTOSNAP_MINUTES
    Requests,   \* the numbers POST /api/autosnap/:sn may carry
    Torn,       \* what a half-written autosnap.json holds
    Reorders,   \* may writes in flight complete in another order than begun?
    MaxWrites   \* bound: writes of autosnap.json in flight

ASSUME MinutesAssumption == Minutes \subseteq Nat \ {0}
ASSUME RequestsAssumption == Requests \subseteq Nat
ASSUME WritesAssumption == Reorders \in BOOLEAN /\ MaxWrites \in Nat

Off == 0
Schedules == [Cameras -> Minutes \cup {Off}]

ASSUME TornAssumption == Torn \notin Schedules

VARIABLES
    up,       \* the process runs
    started,  \* a cloud "connect" has been seen since it started
    minutes,  \* autoSnapMinutes (Off: absent)
    live,     \* live[sn][m]: live timers of camera sn with period m
    handle,   \* autoSnapTimers: the period of the timer the server can clear
    file,     \* what autosnap.json holds; missing is the empty schedule
    writes,   \* schedules whose fs.writeFile has not completed
    failed    \* the last write to complete failed, and the log says so

vars == <<up, started, minutes, live, handle, file, writes, failed>>

NoTimers == [m \in Minutes |-> 0]

TypeOK ==
    /\ up \in BOOLEAN
    /\ started \in BOOLEAN
    /\ minutes \in Schedules
    /\ live \in [Cameras -> [Minutes -> Nat]]
    /\ handle \in [Cameras -> Minutes \cup {Off}]
    /\ file \in Schedules \cup {Torn}
    /\ writes \in Seq(Schedules)
    /\ failed \in BOOLEAN

Init ==
    /\ up = TRUE
    /\ started = FALSE
    /\ minutes = [sn \in Cameras |-> Off]
    /\ live = [sn \in Cameras |-> NoTimers]
    /\ handle = [sn \in Cameras |-> Off]
    /\ file = minutes
    /\ writes = <<>>
    /\ failed = FALSE

-----------------------------------------------------------------------------
\* The live timers of sn after clearAutoSnapTimer(sn).
clearAutoSnapTimer(sn) ==
    IF handle[sn] = Off THEN live[sn] ELSE [live[sn] EXCEPT ![handle[sn]] = @ - 1]

\* The live timers of sn after scheduleAutoSnap(sn) with the period m.
scheduleAutoSnap_NoClear(sn, m) ==  \* mutant: the old timer is not cleared
    [live[sn] EXCEPT ![m] = @ + 1]

scheduleAutoSnap(sn, m) == [clearAutoSnapTimer(sn) EXCEPT ![m] = @ + 1]

\* persistAutoSnapConfig: the write of the new schedule is started, not awaited.
persistAutoSnapConfig(schedule) ==
    /\ Len(writes) < MaxWrites
    /\ writes' = Append(writes, schedule)

\* setAutoSnap(sn, 0)
Disable_KeepsTimer(sn) ==           \* mutant: the timer runs on
    /\ up
    /\ minutes' = [minutes EXCEPT ![sn] = Off]
    /\ persistAutoSnapConfig(minutes')
    /\ UNCHANGED <<up, started, live, handle, file, failed>>

Disable_NotSaved(sn) ==             \* mutant: returns before the save
    /\ up
    /\ minutes' = [minutes EXCEPT ![sn] = Off]
    /\ live' = [live EXCEPT ![sn] = clearAutoSnapTimer(sn)]
    /\ handle' = [handle EXCEPT ![sn] = Off]
    /\ UNCHANGED <<up, started, file, writes, failed>>

Disable(sn) ==
    /\ up
    /\ minutes' = [minutes EXCEPT ![sn] = Off]
    /\ live' = [live EXCEPT ![sn] = clearAutoSnapTimer(sn)]
    /\ handle' = [handle EXCEPT ![sn] = Off]
    /\ persistAutoSnapConfig(minutes')
    /\ UNCHANGED <<up, started, file, failed>>

\* setAutoSnap(sn, m) for an m of the allowed list; any other number is
\* answered 400 and changes nothing.
Allowed(m) == m \in Minutes

Enable(sn, m) ==
    /\ up
    /\ Allowed(m)
    /\ minutes' = [minutes EXCEPT ![sn] = m]
    /\ live' = [live EXCEPT ![sn] = scheduleAutoSnap(sn, m)]
    /\ handle' = [handle EXCEPT ![sn] = m]
    /\ persistAutoSnapConfig(minutes')
    /\ UNCHANGED <<up, started, file, failed>>

\* Every "connect" of the cloud reschedules all cameras that have an interval.
startAllAutoSnapTimers ==
    /\ live' = [sn \in Cameras |->
                  IF minutes[sn] = Off THEN live[sn]
                  ELSE scheduleAutoSnap(sn, minutes[sn])]
    /\ handle' = [sn \in Cameras |->
                    IF minutes[sn] = Off THEN handle[sn] ELSE minutes[sn]]

CloudConnects ==
    /\ up
    /\ started' = TRUE
    /\ startAllAutoSnapTimers
    /\ UNCHANGED <<up, minutes, file, writes, failed>>

\* A write completes, or fails, the file untouched or already truncated, and
\* is only logged.
WriteCompletes(i) ==
    /\ up
    /\ Reorders \/ i = 1
    /\ \/ file' = writes[i] /\ failed' = FALSE
       \/ file' \in {file, Torn} /\ failed' = TRUE
    /\ writes' = RemoveAt(writes, i)
    /\ UNCHANGED <<up, started, minutes, live, handle>>

\* The process ends, on SIGINT or in a crash: timers and memory are gone, and
\* writes in flight have landed, not happened, or left half a file.
Exits ==
    /\ up
    /\ up' = FALSE
    /\ \/ file' = file
       \/ \E i \in DOMAIN writes : file' \in {writes[i], Torn}
    /\ started' = FALSE
    /\ minutes' = [sn \in Cameras |-> Off]
    /\ live' = [sn \in Cameras |-> NoTimers]
    /\ handle' = [sn \in Cameras |-> Off]
    /\ writes' = <<>>
    /\ failed' = FALSE

\* loadAutoSnapConfig: a file that does not parse leaves every camera off.
Loaded == IF file = Torn THEN [sn \in Cameras |-> Off] ELSE file

Starts ==
    /\ ~up
    /\ up' = TRUE
    /\ minutes' = Loaded
    /\ UNCHANGED <<started, live, handle, file, writes, failed>>

Next ==
    \/ \E sn \in Cameras : Disable(sn)
    \/ \E sn \in Cameras, m \in Requests : Enable(sn, m)
    \/ \E i \in DOMAIN writes : WriteCompletes(i)
    \/ CloudConnects
    \/ Exits
    \/ Starts

Spec == Init /\ [][Next]_vars

-----------------------------------------------------------------------------
(* Properties *)

\* "A single setInterval per camera": however often the schedule is changed
\* and the cloud reconnects, the only live timer of a camera is the one the
\* server holds the handle of.
OneTimer ==
    \A sn \in Cameras : \A m \in Minutes :
        live[sn][m] = IF handle[sn] = m THEN 1 ELSE 0

\* Cameras are polled as configured: a live timer runs at the interval the user last
\* chose, and once the cloud has connected every interval has its timer, those restored
\* from autosnap.json included.
PolledAsConfigured ==
    \A sn \in Cameras : \A m \in Minutes :
        /\ live[sn][m] > 0 => minutes[sn] = m
        /\ started /\ minutes[sn] = m => live[sn][m] > 0

\* When no write is outstanding, a restart would restore the schedule in force,
\* or the log reports that it could not be saved.
SavedWhenQuiet == up /\ writes = <<>> => failed \/ Loaded = minutes
=============================================================================
