-------------------------- MODULE WyzeDevicesProofs --------------------------
(***************************************************************************)
(* Proofs about device commands, for any number of calls, any kinds of     *)
(* device and any answers of the cloud.                                    *)
(*                                                                         *)
(* RunsOnce is not inductive: it needs that a request which may still be   *)
(* sent, waits for its retry included, has not been executed yet (RunInv). *)
(* OkIsDone needs besides that a command by request() is a single request, *)
(* where a call stands in its command (DevicesInv), and what holds between *)
(* the execution and the answer (RanIsDone).                               *)
(***************************************************************************)
EXTENDS WyzeDevices, SequenceTheorems, TLAPS

Executed == {"ran", "ok", "threw"}

RunTyped ==
    /\ at \in [Calls -> Phases]
    /\ ran \in [Calls -> Nat]

\* A request in any other phase has yet to be executed.
UnexecutedUntilRan ==
    \A c \in Calls : ran[c] <= 1 /\ (at[c] \notin Executed => ran[c] = 0)

RunInv == RunTyped /\ UnexecutedUntilRan

-----------------------------------------------------------------------------
\* A call that moves on, its count reset or kept, keeps the invariant if an
\* unexecuted request was not executed or the phase it comes to allows for one.
LEMMA MoveKeepsInv ==
    ASSUME RunInv, NEW c \in Calls, NEW phase \in Phases, Goto(c, phase),
           \/ ran' = [ran EXCEPT ![c] = 0]
           \/ ran' = ran /\ (phase \in Executed \/ at[c] \notin Executed)
    PROVE  RunInv'
<1>1. at' = [at EXCEPT ![c] = phase]
  BY DEF Goto
<1>2. RunTyped'
  BY <1>1 DEF RunInv, RunTyped
<1>3. UnexecutedUntilRan'
  <2>1. CASE ran' = [ran EXCEPT ![c] = 0]
    BY <1>1, <2>1 DEF RunInv, RunTyped, UnexecutedUntilRan
  <2>2. CASE ran' = ran /\ (phase \in Executed \/ at[c] \notin Executed)
    BY <1>1, <2>2 DEF RunInv, RunTyped, UnexecutedUntilRan
  <2> QED BY <2>1, <2>2
<1> QED BY <1>2, <1>3 DEF RunInv

\* A request begins with a count of 0, in a phase before its execution.
LEMMA StartKeepsInv ==
    ASSUME RunInv, NEW c \in Calls, NEW q, NEW i, Start(c, q, i)
    PROVE  RunInv'
<1>1. ran' = [ran EXCEPT ![c] = 0]
  BY DEF Start
<1>2. Goto(c, "sent") \/ Goto(c, "login") \/ Goto(c, "ready")
  BY DEF Start, maybeLogin, Goto
<1> QED BY <1>1, <1>2, MoveKeepsInv DEF Phases

\* A command that returns begins its next request or ends.
LEMMA ReturnKeepsInv ==
    ASSUME RunInv, NEW c \in Calls, Return(c)
    PROVE  RunInv'
<1>1. CASE step[c] < Len(cmd[c])
  BY <1>1, StartKeepsInv DEF Return
<1>2. CASE ~(step[c] < Len(cmd[c]))
  <2>1. Goto(c, "ok") /\ ran' = ran
    BY <1>2 DEF Return
  <2> QED BY <2>1, MoveKeepsInv DEF Phases, Executed
<1> QED BY <1>1, <1>2

\* A command that ends keeps its count.
LEMMA EndKeepsInv ==
    ASSUME RunInv, NEW c \in Calls, NEW phase \in {"ok", "threw"}, End(c, phase)
    PROVE  RunInv'
<1>1. Goto(c, phase) /\ ran' = ran
  BY DEF End
<1> QED BY <1>1, MoveKeepsInv DEF Phases, Executed

-----------------------------------------------------------------------------
\* Every step of a call keeps the invariant.
LEMMA StepKeepsInv ==
    ASSUME RunInv, NEW c \in Calls, Step(c)
    PROVE  RunInv'
<1>1. ASSUME NEW q \in Commands[kind], Call(c, q) PROVE RunInv'
  BY <1>1, StartKeepsInv DEF Call
<1>2. CASE LoggedIn(c)
  BY <1>2, MoveKeepsInv DEF LoggedIn, history, Phases, Executed
<1>3. CASE LoginFails(c)
  BY <1>3, MoveKeepsInv DEF LoginFails, history, Phases, Executed
<1>4. CASE Send(c)
  BY <1>4, MoveKeepsInv DEF Send, history, Phases, Executed
<1>5. CASE Run(c)
  <2>1. at[c] = "sent" /\ at' = [at EXCEPT ![c] = "ran"]
    BY <1>5 DEF Run, Goto
  <2>2. ran' = [ran EXCEPT ![c] = @ + 1] /\ ran[c] = 0
    BY <1>5, <2>1 DEF Run, RunInv, UnexecutedUntilRan, Executed
  <2> QED BY <2>1, <2>2 DEF RunInv, RunTyped, UnexecutedUntilRan, Executed, Phases, Answers
<1>6. CASE Decline(c)
  <2>1. PICK phase \in {"refused", "limited", "failed"} : Goto(c, phase)
    BY <1>6 DEF Decline
  <2>2. at[c] = "sent" /\ ran' = ran
    BY <1>6 DEF Decline, history
  <2> QED BY <2>1, <2>2, MoveKeepsInv DEF Phases, Answers, Executed
<1>7. CASE Served(c)
  <2>1. End(c, "ok") \/ End(c, "threw") \/ Return(c)
    BY <1>7, Zenon DEF Served
  <2> QED BY <2>1, EndKeepsInv, ReturnKeepsInv
<1>8. CASE Lost(c)
  <2>1. End(c, "ok") \/ End(c, "threw")
    BY <1>8 DEF Lost, End, Goto
  <2> QED BY <2>1, EndKeepsInv
<1>9. CASE Refused(c)
  BY <1>9, MoveKeepsInv DEF Refused, history, Phases, Executed
<1>10. CASE Refreshed(c)
  BY <1>10, MoveKeepsInv DEF Refreshed, history, Phases, Executed
<1>11. CASE RefreshFails(c)
  BY <1>11, MoveKeepsInv DEF RefreshFails, history, Phases, Executed
<1>12. CASE Resume(c)
  <2>1. PICK phase \in {"backoff", "threw"} : Goto(c, phase)
    BY <1>12 DEF Resume, RetryAfter, Goto
  <2>2. at[c] \in {"refreshed", "limited"} /\ ran' = ran
    BY <1>12 DEF Resume, history
  <2> QED BY <2>1, <2>2, MoveKeepsInv DEF Phases, Executed
<1>13. CASE Retry(c)
  <2>1. PICK phase \in {"login", "ready"} : Goto(c, phase)
    BY <1>13 DEF Retry, maybeLogin, Goto
  <2>2. at[c] = "backoff" /\ ran' = ran
    BY <1>13 DEF Retry, history
  <2> QED BY <2>1, <2>2, MoveKeepsInv DEF Phases, Executed
<1>14. CASE Failed(c)
  BY <1>14, MoveKeepsInv DEF Failed, history, Phases, Executed
<1>15. CASE Unchecked(c)
  BY <1>15, ReturnKeepsInv, EndKeepsInv DEF Unchecked
<1>16. CASE Fallback(c)
  BY <1>16, ReturnKeepsInv DEF Fallback
<1> QED
  BY <1>1, <1>2, <1>3, <1>4, <1>5, <1>6, <1>7, <1>8, <1>9, <1>10, <1>11, <1>12, <1>13,
     <1>14, <1>15, <1>16 DEF Step

-----------------------------------------------------------------------------
\* A request that may still be sent has not been executed, and none twice.
LEMMA RunInvariant == Spec => []RunInv
<1>1. Init => RunInv
  BY DEF Init, RunInv, RunTyped, UnexecutedUntilRan, Phases, Executed
<1>2. RunInv /\ [Next]_vars => RunInv'
  <2> SUFFICES ASSUME RunInv, [Next]_vars PROVE RunInv'
    OBVIOUS
  <2>1. CASE Expire
    <3>1. at' = at /\ ran' = ran
      BY <2>1 DEF Expire, history
    <3> QED BY <3>1 DEF RunInv, RunTyped, UnexecutedUntilRan
  <2>2. CASE \E c \in Calls : Step(c)
    BY <2>2, StepKeepsInv
  <2>3. CASE UNCHANGED vars
    BY <2>3 DEF vars, calls, history, RunInv, RunTyped, UnexecutedUntilRan
  <2> QED BY <2>1, <2>2, <2>3 DEF Next
<1> QED BY <1>1, <1>2, PTL DEF Spec

\* However often the token is refused, the rate limited or the answer lost, and
\* whatever other calls do meanwhile, the device executes a request of a call
\* at most once: the garage door is never triggered a second time.
THEOREM NoCommandTwice == Spec => []RunsOnce
<1>1. RunInv => RunsOnce
  BY DEF RunInv, UnexecutedUntilRan, RunsOnce
<1> QED BY <1>1, RunInvariant, PTL

-----------------------------------------------------------------------------
(* What the commands are: one request, or two of which the first does not go *)
(* by request()                                                              *)

One(q) == \E via, sets : q = Request(via, sets)
Two(q) == \E via, sets, b : via # "api" /\ One(b) /\ q = Request(via, sets) \o b

LEMMA CommandShape ==
    ASSUME NEW k \in Kinds, NEW q \in Commands[k]
    PROVE  One(q) \/ Two(q)
<1>1. ASSUME NEW pid, NEW v
      PROVE  /\ One(setProperty(pid, v)) /\ One(runActionList(pid, v)) /\ One(runAction(pid))
             /\ One(setIotProp(pid, v)) /\ One(thermostatSetIotProp(pid, v))
             /\ One(vacuumControl(pid, v)) /\ One(vacuumSetSuctionLevel(v))
             /\ One(setVacuumCurrentMap(v)) /\ One(controlLock(v)) /\ One(iot3RunAction(v))
             /\ One(irrigationQuickRun(v)) /\ One(irrigationStop) /\ One(disableRemeAlarm)
             /\ One(monitoringProfileActive(pid, v)) /\ One(Request(pid, v))
  BY Zenon DEF One, setProperty, runActionList, runAction, setIotProp, thermostatSetIotProp,
       vacuumControl, vacuumSetSuctionLevel, setVacuumCurrentMap, controlLock, iot3RunAction,
       irrigationQuickRun, irrigationStop, disableRemeAlarm, monitoringProfileActive
<1>2. k \in {"camera", "plug", "light", "mesh", "wallswitch", "hms", "lock", "bolt",
            "thermostat", "irrigation", "vacuum"}
  BY KindsAssumption DEF Commands
<1>3. CASE k = "camera"
  <2>1. q \in CameraActions \cup CameraLights \cup CameraDetection \cup CameraNotices
    BY <1>3 DEF Commands
  <2>2. \E pid, v : q \in {runAction(pid), setProperty(pid, v)}
    BY <2>1 DEF CameraActions, CameraLights, CameraDetection, CameraNotices
  <2> QED BY <2>2, <1>1, Zenon
<1>4. CASE k = "plug"
  <2>1. q \in PlugCommands
    BY <1>4 DEF Commands
  <2> QED BY <2>1, <1>1, Zenon DEF PlugCommands
<1>5. CASE k = "light"
  <2>1. q \in LightCommands \cup BulbCommands
    BY <1>5 DEF Commands
  <2>2. ASSUME NEW pid, NEW v PROVE Two(localBulbCommand(pid, v))
    <3>1. localBulbCommand(pid, v) = Request("local", pid :> v) \o runActionList(pid, v)
      BY Zenon DEF localBulbCommand
    <3>2. "local" # "api"
      OBVIOUS
    <3> QED BY <1>1, <3>1, <3>2, Zenon DEF Two
  <2>3. \E pid, v : q \in {setProperty(pid, v), localBulbCommand(pid, v)}
    BY <2>1 DEF LightCommands, BulbCommands
  <2> QED BY <2>2, <2>3, <1>1, Zenon
<1>6. CASE k = "mesh"
  <2>1. q \in MeshPower \cup MeshCommands
    BY <1>6 DEF Commands
  <2>2. \E pid, v : q = runActionList(pid, v)
    BY <2>1 DEF MeshPower, MeshCommands
  <2> QED BY <2>2, <1>1, Zenon
<1>7. CASE k = "wallswitch"
  <2>1. q \in WallSwitchCommands
    BY <1>7 DEF Commands
  <2>2. \E prop, v : q = setIotProp(prop, v)
    BY <2>1 DEF WallSwitchCommands
  <2> QED BY <2>2, <1>1, Zenon
<1>8. CASE k = "hms"
  <2>1. PICK mode \in {"off", "away", "home"} : q = setHMSState(mode)
    BY <1>8 DEF Commands, HmsCommands
  <2>2. setHMSState("off") = disableRemeAlarm \o monitoringProfileActive("0", "0")
    BY Zenon DEF setHMSState
  <2>3. setHMSState("away") = monitoringProfileActive("0", "1")
    BY Zenon DEF setHMSState
  <2>4. setHMSState("home") = monitoringProfileActive("1", "0")
    BY Zenon DEF setHMSState
  <2>5. Two(setHMSState("off"))
    <3>1. disableRemeAlarm = Request("service", "alarm" :> "0") /\ "service" # "api"
      BY DEF disableRemeAlarm
    <3> QED BY <1>1, <2>2, <3>1, Zenon DEF Two
  <2>6. One(setHMSState("away")) /\ One(setHMSState("home"))
    BY <1>1, <2>3, <2>4, Zenon
  <2> QED BY <2>1, <2>5, <2>6
<1>9. CASE k = "lock"
  <2>1. q \in LockCommands
    BY <1>9 DEF Commands
  <2> QED BY <2>1, <1>1, Zenon DEF LockCommands
<1>10. CASE k = "bolt"
  <2>1. q \in BoltCommands
    BY <1>10 DEF Commands
  <2> QED BY <2>1, <1>1, Zenon DEF BoltCommands
<1>11. CASE k = "thermostat"
  <2>1. q \in ThermostatCommands
    BY <1>11 DEF Commands
  <2>2. \E prop, v : q = thermostatSetIotProp(prop, v)
    BY <2>1 DEF ThermostatCommands
  <2> QED BY <2>2, <1>1, Zenon
<1>12. CASE k = "irrigation"
  <2>1. q \in IrrigationCommands
    BY <1>12 DEF Commands
  <2> QED BY <2>1, <1>1, Zenon DEF IrrigationCommands
<1>13. CASE k = "vacuum"
  <2>1. q \in VacuumCommands \cup VacuumSettings
    BY <1>13 DEF Commands
  <2>2. PICK type, v : q \in {vacuumControl(type, v), vacuumSetSuctionLevel(v),
                              setVacuumCurrentMap(v)}
    BY <2>1 DEF VacuumCommands, VacuumSettings
  <2>3. /\ One(vacuumControl(type, v)) /\ One(vacuumSetSuctionLevel(v))
        /\ One(setVacuumCurrentMap(v))
    BY <1>1, Zenon
  <2> QED BY <2>2, <2>3
<1> QED
  BY <1>2, <1>3, <1>4, <1>5, <1>6, <1>7, <1>8, <1>9, <1>10, <1>11, <1>12, <1>13

\* A command has a first request, is that request if it goes by request(), and
\* sets settings of the kind of device it is for.
LEMMA CommandTyped ==
    ASSUME NEW k \in Kinds, NEW q \in Commands[k]
    PROVE  /\ Len(q) \in Nat /\ Len(q) >= 1 /\ DOMAIN q = 1..Len(q)
           /\ q[1].via = "api" => Len(q) = 1
           /\ \A i \in 1..Len(q) : DOMAIN q[i].sets \subseteq Settings(k)
<1>1. ASSUME NEW a, One(a) PROVE \E x : a = <<x>>
  BY <1>1, Zenon DEF One, Request
<1>2. CASE One(q)
  <2>1. PICK x : q = <<x>>
    BY <1>1, <1>2
  <2> QED BY <2>1 DEF Settings
<1>3. CASE Two(q)
  <2>1. PICK via, sets, b : via # "api" /\ One(b) /\ q = Request(via, sets) \o b
    BY <1>3, Zenon DEF Two
  <2>2. PICK y : b = <<y>>
    BY <1>1, <2>1
  <2> DEFINE x == [via |-> via, sets |-> sets]
  <2>3. q = <<x>> \o <<y>> /\ x.via # "api"
    BY <2>1, <2>2 DEF Request
  <2> HIDE DEF x
  <2>4. <<x>> \in Seq({x, y}) /\ <<y>> \in Seq({x, y})
    OBVIOUS
  <2>5. q \in Seq({x, y}) /\ Len(q) = 2 /\ q[1] = x
    BY <2>3, <2>4, ConcatProperties
  <2>6. DOMAIN q = 1..Len(q) /\ q[1].via # "api"
    BY <2>3, <2>5
  <2> QED BY <2>5, <2>6 DEF Settings
<1> QED BY <1>2, <1>3, CommandShape

-----------------------------------------------------------------------------
(* Types: step[c] is in its command once c has begun. *)

Begun(c) == cmd[c] \in Commands[kind] /\ step[c] \in 1..Len(cmd[c])

Fixed == kind \in Kinds /\ DOMAIN device = Settings(kind)

Places ==
    /\ at \in [Calls -> Phases]
    /\ cmd \in [Calls -> Commands[kind] \cup {<<>>}]
    /\ step \in [Calls -> Nat]
    /\ \A c \in Calls : \/ at[c] = "idle" /\ cmd[c] = <<>> /\ step[c] = 0
                       \/ Begun(c)

Data ==
    /\ token \in Tokens
    /\ tok \in [Calls -> Tokens]
    /\ try \in [Calls -> 1..2]
    /\ \A c \in Calls : at[c] = "backoff" => try[c] = 1
    /\ undone \in [Calls -> SUBSET Settings(kind)]

DevicesInv == Fixed /\ Places /\ Data

\* Going to another phase leaves a call where it is in its command.
LEMMA GotoKeepsPlaces ==
    ASSUME Fixed, Places, NEW c \in Calls, at[c] # "idle",
           NEW phase \in Phases \ {"idle"}, Goto(c, phase), UNCHANGED <<kind, cmd, step>>
    PROVE  Places'
<1>1. Begun(c)
  BY DEF Places
<1>2. at' = [at EXCEPT ![c] = phase]
  BY DEF Goto
<1> QED BY <1>1, <1>2 DEF Places, Begun

\* A request begins at its place in its command.
LEMMA StartKeepsPlaces ==
    ASSUME Fixed, Places, Data, NEW c \in Calls, NEW q \in Commands[kind], NEW i \in 1..Len(q),
           Start(c, q, i), kind' = kind
    PROVE  /\ Places'
           /\ try' = [try EXCEPT ![c] = 1] /\ tok' = [tok EXCEPT ![c] = "none"]
           /\ \E phase \in Phases \ {"idle", "backoff"} : at' = [at EXCEPT ![c] = phase]
<1>1. PICK phase \in {"sent", "login", "ready"} : at' = [at EXCEPT ![c] = phase]
  BY DEF Start, maybeLogin, Goto
<1>2. cmd' = [cmd EXCEPT ![c] = q] /\ step' = [step EXCEPT ![c] = i]
  BY DEF Start
<1>3. i \in Nat
  BY CommandTyped DEF Fixed
<1>4. Places'
  BY <1>1, <1>2, <1>3 DEF Places, Begun, Phases
<1> QED BY <1>1, <1>4 DEF Start, Phases

\* So it is when a command returns from a request.
LEMMA ReturnKeepsPlaces ==
    ASSUME Fixed, Places, Data, NEW c \in Calls, at[c] # "idle", Return(c), kind' = kind
    PROVE  /\ Places'
           /\ try' \in {try, [try EXCEPT ![c] = 1]}
           /\ tok' \in {tok, [tok EXCEPT ![c] = "none"]}
           /\ \E phase \in Phases \ {"idle", "backoff"} : at' = [at EXCEPT ![c] = phase]
<1>1. Begun(c) /\ Len(cmd[c]) \in Nat
  BY CommandTyped DEF Places, Begun, Fixed
<1>2. CASE step[c] < Len(cmd[c])
  <2>1. cmd[c] \in Commands[kind] /\ step[c] + 1 \in 1..Len(cmd[c])
    BY <1>1, <1>2 DEF Begun
  <2>2. Start(c, cmd[c], step[c] + 1)
    BY <1>2 DEF Return
  <2> QED BY <2>1, <2>2, StartKeepsPlaces
<1>3. CASE ~(step[c] < Len(cmd[c]))
  <2>1. Goto(c, "ok") /\ UNCHANGED <<cmd, step, try, tok>>
    BY <1>3 DEF Return
  <2> QED BY <2>1, GotoKeepsPlaces DEF Goto, Phases
<1> QED BY <1>2, <1>3

\* And when it ends.
LEMMA EndKeepsPlaces ==
    ASSUME Fixed, Places, NEW c \in Calls, at[c] # "idle", NEW phase \in {"ok", "threw"},
           End(c, phase), kind' = kind
    PROVE  /\ Places' /\ try' = try /\ tok' = tok
           /\ at' = [at EXCEPT ![c] = phase]
<1>1. Goto(c, phase) /\ UNCHANGED <<cmd, step, try, tok>>
  BY DEF End
<1> QED BY <1>1, GotoKeepsPlaces DEF Goto, Phases

\* A call that moves to another phase, its data reset or kept, keeps the types.
LEMMA DataKept ==
    ASSUME Data, NEW c \in Calls, NEW phase, at' = [at EXCEPT ![c] = phase],
           at \in [Calls -> Phases],
           token' \in Tokens, tok' \in {tok, [tok EXCEPT ![c] = "none"]},
           try' \in {try, [try EXCEPT ![c] = 1]},
           phase = "backoff" => try[c] = 1,
           kind' = kind, undone' = undone
    PROVE  Data'
<1>1. tok' \in [Calls -> Tokens]
  BY DEF Data, Tokens
<1>2. try' \in [Calls -> 1..2] /\ \A d \in Calls : at'[d] = "backoff" => try'[d] = 1
  BY DEF Data
<1> QED BY <1>1, <1>2 DEF Data, Settings

\* Every step of a call keeps the types.
LEMMA StepKeepsTypes ==
    ASSUME DevicesInv, NEW c \in Calls, Step(c)
    PROVE  DevicesInv'
<1> USE DEF DevicesInv
<1>1. at \in [Calls -> Phases]
  BY DEF Places
<1>2. ASSUME UNCHANGED <<kind, device>> PROVE Fixed'
  BY <1>2 DEF Fixed, Settings
<1>3. ASSUME NEW q \in Commands[kind], Call(c, q) PROVE DevicesInv'
  <2>1. 1 \in 1..Len(q)
    BY CommandTyped DEF Fixed
  <2>2. Start(c, q, 1) /\ UNCHANGED <<kind, device, token>> /\ undone' = [undone EXCEPT ![c] = {}]
    BY <1>3 DEF Call
  <2>3. PICK phase \in Phases \ {"idle", "backoff"} : at' = [at EXCEPT ![c] = phase]
    BY <2>1, <2>2, StartKeepsPlaces
  <2>4. /\ Places' /\ try' = [try EXCEPT ![c] = 1] /\ tok' = [tok EXCEPT ![c] = "none"]
    BY <2>1, <2>2, StartKeepsPlaces
  <2>5. undone' \in [Calls -> SUBSET Settings(kind)]
    BY <2>2 DEF Data
  <2>6. Data'
    BY <1>1, <2>2, <2>3, <2>4, <2>5 DEF Data, Tokens
  <2> QED BY <1>2, <2>2, <2>4, <2>6
<1>4. ASSUME at[c] # "idle", Return(c), UNCHANGED <<kind, device, token, undone>>
      PROVE  DevicesInv'
  <2>1. PICK phase \in Phases \ {"idle", "backoff"} : at' = [at EXCEPT ![c] = phase]
    BY <1>4, ReturnKeepsPlaces
  <2>2. /\ Places' /\ try' \in {try, [try EXCEPT ![c] = 1]}
        /\ tok' \in {tok, [tok EXCEPT ![c] = "none"]}
    BY <1>4, ReturnKeepsPlaces
  <2>3. Data'
    BY <1>1, <1>4, <2>1, <2>2, DataKept DEF Data
  <2> QED BY <1>2, <1>4, <2>2, <2>3
<1>5. ASSUME at[c] # "idle", NEW phase \in {"ok", "threw"}, End(c, phase),
             UNCHANGED <<kind, device, token, undone>>
      PROVE  DevicesInv'
  <2>1. Places' /\ try' = try /\ tok' = tok /\ at' = [at EXCEPT ![c] = phase]
    BY <1>5, EndKeepsPlaces
  <2>2. Data'
    BY <1>1, <1>5, <2>1, DataKept DEF Data
  <2> QED BY <1>2, <1>5, <2>1, <2>2
<1>6. ASSUME at[c] # "idle", NEW phase \in Phases \ {"idle"}, Goto(c, phase), token' \in Tokens,
             phase = "backoff" => try[c] = 1, UNCHANGED <<kind, device, cmd, step, tok, try, undone>>
      PROVE  DevicesInv'
  <2>1. Places' /\ at' = [at EXCEPT ![c] = phase]
    BY <1>6, GotoKeepsPlaces DEF Goto
  <2>2. Data'
    BY <1>1, <1>6, <2>1, DataKept
  <2> QED BY <1>2, <1>6, <2>1, <2>2
<1>7. token \in Tokens
  BY DEF Data
<1>8. CASE LoggedIn(c)
  BY <1>8, <1>6, <1>7 DEF LoggedIn, history, Phases, Tokens
<1>9. CASE LoginFails(c)
  BY <1>9, <1>6, <1>7 DEF LoginFails, history, Phases, Tokens
<1>10. CASE Send(c)
  <2>1. Places'
    BY <1>10, GotoKeepsPlaces DEF Send, history, Phases
  <2>2. Data'
    BY <1>10 DEF Send, history, Data, Goto, Places
  <2> QED BY <1>2, <1>10, <2>1, <2>2 DEF Send
<1>11. CASE Run(c)
  <2>1. at[c] = "sent" /\ Goto(c, "ran") /\ UNCHANGED <<kind, token, cmd, step, tok, try>>
    BY <1>11 DEF Run
  <2>2. Places'
    BY <2>1, GotoKeepsPlaces DEF Phases, Answers
  <2>3. DOMAIN Req(c).sets \subseteq Settings(kind)
    BY <2>1, CommandTyped DEF Places, Begun, Req, Fixed
  <2>4. /\ DOMAIN device' = DOMAIN device
        /\ undone' = [d \in Calls |-> IF d = c THEN undone[d] \ DOMAIN Req(c).sets
                                      ELSE undone[d] \cup DOMAIN Req(c).sets]
    BY <1>11 DEF Run
  <2>5. undone' \in [Calls -> SUBSET Settings(kind)]
    BY <2>3, <2>4 DEF Data
  <2>6. at' = [at EXCEPT ![c] = "ran"]
    BY <2>1 DEF Goto
  <2>7. Data'
    BY <1>1, <2>1, <2>5, <2>6 DEF Data
  <2> QED BY <2>1, <2>2, <2>4, <2>7 DEF Fixed
<1>12. CASE Decline(c)
  <2>1. PICK phase \in {"refused", "limited", "failed"} : Goto(c, phase)
    BY <1>12 DEF Decline
  <2> QED BY <1>12, <1>6, <1>7, <2>1 DEF Decline, history, Phases, Answers
<1>13. CASE Served(c)
  <2>1. End(c, "ok") \/ End(c, "threw") \/ Return(c)
    BY <1>13, Zenon DEF Served
  <2> QED BY <1>13, <1>4, <1>5, <2>1 DEF Served
<1>14. CASE Lost(c)
  <2>1. End(c, "ok") \/ End(c, "threw")
    BY <1>14 DEF Lost, End, Goto
  <2> QED BY <1>14, <1>5, <2>1 DEF Lost
<1>15. CASE Refused(c)
  BY <1>15, <1>6 DEF Refused, history, Phases, Tokens
<1>16. CASE Refreshed(c)
  BY <1>16, <1>6 DEF Refreshed, history, Phases, Tokens
<1>17. CASE RefreshFails(c)
  BY <1>17, <1>6, <1>7 DEF RefreshFails, history, Phases, Tokens
<1>18. CASE Resume(c)
  <2>1. PICK phase \in {"backoff", "threw"} : Goto(c, phase) /\ (phase = "backoff" => try[c] = 1)
    BY <1>18 DEF Resume, RetryAfter, Goto
  <2> QED BY <1>18, <1>6, <1>7, <2>1 DEF Resume, history, Phases
<1>19. CASE Retry(c)
  <2>1. PICK phase \in {"login", "ready"} : Goto(c, phase)
    BY <1>19 DEF Retry, maybeLogin, Goto
  <2>2. Places'
    BY <1>19, <2>1, GotoKeepsPlaces DEF Retry, history, Phases
  <2>3. try' = [try EXCEPT ![c] = 2]
    <3>1. try[c] = 1 /\ try' = [try EXCEPT ![c] = try[c] + 1]
      BY <1>19 DEF Retry, Data
    <3> QED BY <3>1
  <2>4. at' = [at EXCEPT ![c] = phase]
    BY <2>1 DEF Goto
  <2>5. Data'
    BY <1>1, <1>19, <2>3, <2>4 DEF Retry, history, Data
  <2> QED BY <1>2, <1>19, <2>2, <2>5 DEF Retry
<1>20. CASE Failed(c)
  BY <1>20, <1>6, <1>7 DEF Failed, history, Phases, Tokens
<1>21. CASE Unchecked(c)
  BY <1>21, <1>4, <1>5 DEF Unchecked
<1>22. CASE Fallback(c)
  BY <1>22, <1>4 DEF Fallback
<1> QED
  BY <1>3, <1>8, <1>9, <1>10, <1>11, <1>12, <1>13, <1>14, <1>15, <1>16, <1>17, <1>18, <1>19,
     <1>20, <1>21, <1>22 DEF Step

\* What a call knows of its command, and the data it keeps, are as declared.
LEMMA TypesInvariant == Spec => []DevicesInv
<1>1. Init => DevicesInv
  <2>1. Init => Fixed /\ Places
    BY DEF Init, Fixed, Places, Phases
  <2>2. Init => Data
    BY DEF Init, Data, Tokens
  <2> QED BY <2>1, <2>2 DEF DevicesInv
<1>2. DevicesInv /\ [Next]_vars => DevicesInv'
  <2> SUFFICES ASSUME DevicesInv, [Next]_vars PROVE DevicesInv'
    OBVIOUS
  <2>1. CASE Expire
    <3>1. Fixed' /\ Places'
      BY <2>1 DEF Expire, history, DevicesInv, Fixed, Places, Begun, Settings
    <3>2. Data'
      BY <2>1 DEF Expire, history, DevicesInv, Data, Tokens, Settings
    <3> QED BY <3>1, <3>2 DEF DevicesInv
  <2>2. CASE \E c \in Calls : Step(c)
    BY <2>2, StepKeepsTypes
  <2>3. CASE UNCHANGED vars
    BY <2>3 DEF vars, calls, history, DevicesInv, Fixed, Places, Begun, Data, Settings
  <2> QED BY <2>1, <2>2, <2>3 DEF Next
<1> QED BY <1>1, <1>2, PTL DEF Spec

\* Whatever calls, losses, refusals and retries interleave, a call stands at a
\* request of its command and knows settings of its kind of device only.
THEOREM DevicesTypeOK == Spec => []TypeOK
<1>1. DevicesInv /\ RunInv => TypeOK
  <2> SUFFICES ASSUME DevicesInv, RunInv PROVE TypeOK
    OBVIOUS
  <2>1. ASSUME NEW c \in Calls PROVE step[c] \in 0..Len(cmd[c])
    BY CommandTyped DEF DevicesInv, Fixed, Places, Begun
  <2> QED BY <2>1 DEF DevicesInv, RunInv, RunTyped, Fixed, Places, Data, TypeOK
<1> QED BY <1>1, TypesInvariant, RunInvariant, PTL

-----------------------------------------------------------------------------
(* From its execution on, a command by request() is done. *)

RanIsDone ==
    \A c \in Calls : at[c] \in {"ran", "ok"} /\ cmd[c][1].via = "api" => ran[c] > 0 /\ Done(c)

\* A step moves one call.
Unmoved(c) == at'[c] = at[c] /\ cmd'[c] = cmd[c] /\ ran'[c] = ran[c]

LEMMA OthersUnmoved ==
    ASSUME DevicesInv, RunInv, NEW c \in Calls, NEW d \in Calls, c # d, Step(d)
    PROVE  Unmoved(c) /\ (Run(d) \/ (device' = device /\ undone'[c] = undone[c]))
<1>1. /\ at \in [Calls -> Phases] /\ ran \in [Calls -> Nat]
      /\ cmd \in [Calls -> Commands[kind] \cup {<<>>}]
      /\ undone \in [Calls -> SUBSET Settings(kind)]
  BY DEF DevicesInv, Places, Data, RunInv, RunTyped
<1>2. ASSUME NEW phase, Goto(d, phase) PROVE at'[c] = at[c]
  BY <1>1, <1>2 DEF Goto
<1>3. ASSUME NEW q, NEW i, Start(d, q, i) PROVE Unmoved(c)
  <2>1. Goto(d, "sent") \/ Goto(d, "login") \/ Goto(d, "ready")
    BY <1>3 DEF Start, maybeLogin, Goto
  <2>2. cmd' = [cmd EXCEPT ![d] = q] /\ ran' = [ran EXCEPT ![d] = 0]
    BY <1>3 DEF Start
  <2> QED BY <1>1, <1>2, <2>1, <2>2 DEF Unmoved
<1>4. ASSUME Return(d) PROVE Unmoved(c)
  BY <1>2, <1>3, <1>4 DEF Return, Unmoved
<1>5. ASSUME NEW phase, End(d, phase) PROVE Unmoved(c)
  BY <1>2, <1>5 DEF End, Unmoved
<1>6. ASSUME NEW phase, Goto(d, phase), UNCHANGED <<cmd, ran>> PROVE Unmoved(c)
  BY <1>2, <1>6 DEF Unmoved
<1>7. ASSUME NEW q \in Commands[kind], Call(d, q)
      PROVE  Unmoved(c) /\ device' = device /\ undone'[c] = undone[c]
  BY <1>1, <1>3, <1>7 DEF Call
<1>8. CASE LoggedIn(d) \/ LoginFails(d) \/ Send(d)
  BY <1>6, <1>8 DEF LoggedIn, LoginFails, Send, history
<1>9. CASE Run(d)
  <2>1. Goto(d, "ran") /\ cmd' = cmd /\ ran' = [ran EXCEPT ![d] = @ + 1]
    BY <1>9 DEF Run
  <2> QED BY <1>1, <1>2, <1>9, <2>1 DEF Unmoved
<1>10. CASE Decline(d)
  BY <1>6, <1>10 DEF Decline, history
<1>11. CASE Served(d)
  <2>1. End(d, "ok") \/ End(d, "threw") \/ Return(d)
    BY <1>11, Zenon DEF Served
  <2> QED BY <1>4, <1>5, <1>11, <2>1 DEF Served
<1>12. CASE Lost(d)
  <2>1. End(d, "ok") \/ End(d, "threw")
    BY <1>12 DEF Lost, End, Goto
  <2> QED BY <1>5, <1>12, <2>1 DEF Lost
<1>13. CASE Refused(d) \/ Refreshed(d) \/ RefreshFails(d)
  BY <1>6, <1>13 DEF Refused, Refreshed, RefreshFails, history
<1>14. CASE Resume(d)
  <2>1. Goto(d, "backoff") \/ Goto(d, "threw")
    BY <1>14 DEF Resume, RetryAfter, Goto
  <2> QED BY <1>6, <1>14, <2>1 DEF Resume, history
<1>15. CASE Retry(d)
  <2>1. Goto(d, "login") \/ Goto(d, "ready")
    BY <1>15 DEF Retry, maybeLogin, Goto
  <2> QED BY <1>6, <1>15, <2>1 DEF Retry, history
<1>16. CASE Failed(d)
  BY <1>6, <1>16 DEF Failed, history
<1>17. CASE Unchecked(d) \/ Fallback(d)
  BY <1>4, <1>5, <1>17 DEF Unchecked, Fallback
<1> QED
  BY <1>7, <1>8, <1>9, <1>10, <1>11, <1>12, <1>13, <1>14, <1>15, <1>16, <1>17 DEF Step

\* What another call sets is noted as undone: what is left holds.
LEMMA OthersAreNoted ==
    ASSUME DevicesInv, RunInv, NEW c \in Calls, NEW d \in Calls, c # d, Step(d),
           at[c] # "idle", Done(c)
    PROVE  Done(c)'
<1>1. cmd'[c] = cmd[c] /\ (Run(d) \/ (device' = device /\ undone'[c] = undone[c]))
  BY OthersUnmoved DEF Unmoved
<1>2. CASE device' = device /\ undone'[c] = undone[c]
  BY <1>1, <1>2 DEF Done
<1>3. CASE Run(d)
  <2> DEFINE asked == cmd[c][1].sets  new == Req(d).sets
  <2>1. DOMAIN asked \subseteq DOMAIN device
    BY CommandTyped DEF DevicesInv, Places, Begun, Fixed
  <2>2. /\ device' = [p \in DOMAIN device |->
                       IF p \in DOMAIN new THEN NewValue(new[p], device[p]) ELSE device[p]]
        /\ undone'[c] = undone[c] \cup DOMAIN new
    BY <1>3 DEF Run
  <2>3. \A p \in DOMAIN asked \ undone[c] : asked[p] \in {"flip", device[p]}
    BY DEF Done
  <2> HIDE DEF asked, new
  <2>4. \A p \in DOMAIN asked \ undone'[c] : asked[p] \in {"flip", device'[p]}
    BY <2>1, <2>2, <2>3
  <2>5. cmd'[c][1].sets = asked
    BY <1>1 DEF asked
  <2> QED BY <2>4, <2>5 DEF Done
<1> QED BY <1>1, <1>2, <1>3

\* A call that has set what it asked for finds it set.
LEMMA RunIsDone ==
    ASSUME DevicesInv, RunInv, NEW c \in Calls, Run(c), cmd[c][1].via = "api"
    PROVE  ran'[c] > 0 /\ Done(c)'
<1>1. Begun(c) /\ ran[c] \in Nat /\ ran \in [Calls -> Nat]
  BY DEF DevicesInv, Places, Run, RunInv, RunTyped
<1>2. Req(c) = cmd[c][1]
  BY <1>1, CommandTyped DEF Begun, DevicesInv, Fixed, Req
<1> DEFINE new == Req(c).sets
<1>3. /\ device' = [p \in DOMAIN device |->
                     IF p \in DOMAIN new THEN NewValue(new[p], device[p]) ELSE device[p]]
      /\ cmd' = cmd /\ ran' = [ran EXCEPT ![c] = @ + 1]
  BY DEF Run
<1>4. DOMAIN new \subseteq DOMAIN device
  BY <1>1, CommandTyped DEF DevicesInv, Begun, Fixed, Req
<1>5. cmd'[c][1].sets = new
  BY <1>2, <1>3
<1>6. ran'[c] > 0
  BY <1>1, <1>3
<1> HIDE DEF new
<1>7. \A p \in DOMAIN new : new[p] \in {"flip", device'[p]}
  BY <1>3, <1>4 DEF NewValue
<1> QED BY <1>5, <1>6, <1>7 DEF Done

\* The only step by which a command by request() returns is the answer of an
\* execution.
LEMMA OwnStepDone ==
    ASSUME DevicesInv, RunInv, RanIsDone, NEW c \in Calls, Step(c),
           at'[c] \in {"ran", "ok"}, cmd'[c][1].via = "api"
    PROVE  ran'[c] > 0 /\ Done(c)'
<1>1. /\ at \in [Calls -> Phases]
      /\ cmd \in [Calls -> Commands[kind] \cup {<<>>}]
  BY DEF DevicesInv, Places
<1>2. ASSUME NEW phase \in Phases \ {"ran", "ok"}, Goto(c, phase) PROVE FALSE
  BY <1>1, <1>2 DEF Goto
<1>3. ASSUME NEW q, NEW i, Start(c, q, i) PROVE FALSE
  BY <1>2, <1>3 DEF Start, maybeLogin, Goto, Phases
<1>4. ASSUME NEW q \in Commands[kind], Call(c, q) PROVE FALSE
  BY <1>3, <1>4 DEF Call
<1>5. CASE Run(c)
  BY <1>5, RunIsDone DEF Run
<1>6. ASSUME cmd' = cmd, at[c] # "idle" PROVE Req(c).via = "api"
  <2>1. Begun(c) /\ cmd[c][1].via = "api"
    BY <1>6 DEF DevicesInv, Places
  <2> QED BY <2>1, CommandTyped DEF Begun, DevicesInv, Fixed, Req
<1>7. ASSUME Return(c), at[c] = "ran", UNCHANGED <<device, undone>>
      PROVE  ran'[c] > 0 /\ Done(c)'
  <2>1. cmd' = cmd /\ ran' = ran
    BY <1>3, <1>7 DEF Return
  <2> QED BY <1>7, <2>1 DEF RanIsDone, Done
<1>8. CASE Served(c)
  <2>1. at[c] = "ran" /\ UNCHANGED <<device, undone>>
    BY <1>8 DEF Served
  <2>2. CASE Req(c).via = "local"
    <3>1. End(c, "ok")
      BY <1>8, <2>2, Zenon DEF Served
    <3> QED BY <1>6, <2>1, <2>2, <3>1 DEF End
  <2>3. CASE Req(c).via # "local"
    <3>1. End(c, "threw") \/ Return(c)
      BY <1>8, <2>3, Zenon DEF Served
    <3> QED BY <1>2, <1>7, <2>1, <3>1 DEF End, Phases
  <2> QED BY <2>2, <2>3
<1>9. CASE Lost(c)
  <2>1. cmd' = cmd /\ at[c] # "idle"
    BY <1>9 DEF Lost, End
  <2>2. Req(c).via # "local"
    BY <1>6, <2>1
  <2>3. Goto(c, "threw")
    BY <1>9, <2>2 DEF Lost, End
  <2> QED BY <1>2, <2>3 DEF Phases
<1>10. CASE Unchecked(c) \/ Fallback(c)
  <2>1. Return(c) \/ End(c, "threw")
    BY <1>10 DEF Unchecked, Fallback
  <2>2. cmd' = cmd
    BY <1>3, <2>1 DEF Return, End
  <2>3. Req(c).via # "api"
    BY <1>10 DEF Unchecked, Fallback
  <2> QED BY <1>6, <1>10, <2>2, <2>3 DEF Unchecked, Fallback
<1>11. CASE LoggedIn(c) \/ LoginFails(c) \/ Send(c)
  BY <1>2, <1>11 DEF LoggedIn, LoginFails, Send, Phases
<1>12. CASE Decline(c)
  BY <1>2, <1>12 DEF Decline, Phases, Answers
<1>13. CASE Refused(c) \/ Refreshed(c) \/ RefreshFails(c)
  BY <1>2, <1>13 DEF Refused, Refreshed, RefreshFails, Phases
<1>14. CASE Resume(c) \/ Retry(c) \/ Failed(c)
  BY <1>2, <1>14 DEF Resume, RetryAfter, Retry, maybeLogin, Failed, Phases, Goto
<1> QED BY <1>4, <1>5, <1>8, <1>9, <1>10, <1>11, <1>12, <1>13, <1>14 DEF Step

\* A command by request() that returns has been executed, and what it asked for
\* holds as far as no other call has set it since, whatever was refused,
\* limited, lost and retried, for any number of calls.
THEOREM ReturnedIsDone == Spec => []OkIsDone
<1>1. Init => RanIsDone
  BY DEF Init, RanIsDone
<1>2. DevicesInv /\ RunInv /\ RanIsDone /\ [Next]_vars => RanIsDone'
  <2> SUFFICES ASSUME DevicesInv, RunInv, RanIsDone, [Next]_vars PROVE RanIsDone'
    OBVIOUS
  <2>1. CASE Expire
    BY <2>1 DEF Expire, history, RanIsDone, Done
  <2>2. ASSUME NEW d \in Calls, Step(d) PROVE RanIsDone'
    <3> SUFFICES ASSUME NEW c \in Calls, at'[c] \in {"ran", "ok"}, cmd'[c][1].via = "api"
                 PROVE  ran'[c] > 0 /\ Done(c)'
      BY DEF RanIsDone
    <3>1. CASE c = d
      BY <2>2, <3>1, OwnStepDone
    <3>2. CASE c # d
      <4>1. Unmoved(c)
        BY <2>2, <3>2, OthersUnmoved
      <4>2. ran[c] > 0 /\ Done(c) /\ at[c] # "idle"
        BY <4>1 DEF Unmoved, RanIsDone
      <4> QED BY <2>2, <3>2, <4>1, <4>2, OthersAreNoted DEF Unmoved
    <3> QED BY <3>1, <3>2
  <2>3. CASE UNCHANGED vars
    BY <2>3 DEF vars, calls, history, RanIsDone, Done
  <2> QED BY <2>1, <2>2, <2>3 DEF Next
<1>3. RanIsDone => OkIsDone
  BY DEF RanIsDone, OkIsDone
<1> QED BY <1>1, <1>2, <1>3, TypesInvariant, RunInvariant, PTL DEF Spec
=============================================================================
