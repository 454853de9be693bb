----------------------------- MODULE WyzeDevices -----------------------------
(***************************************************************************)
(* Device commands of the Wyze client (src/index.js).  A command is the    *)
(* sequence of requests its method makes; calls of commands to one device  *)
(* interleave at their awaits and share the client's access token.         *)
(*                                                                         *)
(* A request goes out by one of four channels.  Only "api" (request())     *)
(* looks at the answer's code, refreshes the token and retries.  How the   *)
(* token is obtained is WyzeLogin and WyzeTokens; here it is "good",       *)
(* "stale" (the cloud refuses it) or "none".                               *)
(***************************************************************************)
EXTENDS Naturals, Sequences, FiniteSets, TLC

CONSTANTS
    Calls,   \* calls of the client's methods, each made at most once
    Kinds,   \* kinds of device there may be
    ApiLog   \* apiLogEnabled

ASSUME DevicesAssumption == ApiLog \in BOOLEAN

-----------------------------------------------------------------------------
(* Requests.  sets: what the device takes over when it executes one; *)
(* "flip" inverts the setting.                                       *)

Request(via, sets) == <<[via |-> via, sets |-> sets]>>

setProperty(pid, v) == Request("api", pid :> v)

\* What a camera does on an action key.
ActionSets ==
    [power_on  |-> "power" :> "1", power_off |-> "power" :> "0",
     siren_on  |-> "siren" :> "1", siren_off |-> "siren" :> "0",
     garage_door_trigger |-> "door" :> "flip"]

runAction(key) == Request("api", ActionSets[key])

\* Every property but P3 itself is sent along with P3 = 1: the light goes on.
runActionList(pid, v) == Request("api", (pid :> v) @@ ("P3" :> "1"))

controlLock(action) == Request("service", "lock" :> action)
iot3RunAction(action) == Request("service", "lock" :> action)
setIotProp(prop, v) == Request("service", prop :> v)
thermostatSetIotProp(prop, v) == Request("service", prop :> v)
irrigationQuickRun(zone) == Request("irrigation", "zone" :> zone)
irrigationStop == Request("irrigation", "zone" :> "0")
disableRemeAlarm == Request("service", "alarm" :> "0")
monitoringProfileActive(home, away) ==
    Request("service", ("home" :> home) @@ ("away" :> away))
vacuumControl(type, v) == Request("service", type :> v)
vacuumSetSuctionLevel(v) == Request("service", "suction" :> v)
setVacuumCurrentMap(v) == Request("service", "map" :> v)

\* The bulb in the local network first, the cloud if it answers with an error.
localBulbCommand(pid, v) == Request("local", pid :> v) \o runActionList(pid, v)

setHMSState(mode) ==
    CASE mode = "off"  -> disableRemeAlarm \o monitoringProfileActive("0", "0")
      [] mode = "away" -> monitoringProfileActive("0", "1")
      [] mode = "home" -> monitoringProfileActive("1", "0")

-----------------------------------------------------------------------------
(* The commands of each kind of device *)

Values == {"0", "1"}  \* bound: values of a parameter

CameraActions == {runAction(key) : key \in DOMAIN ActionSets}
CameraLights == {setProperty("P1056", v) : v \in {"1", "2"}}
CameraDetection == {setProperty(pid, v) : pid \in {"P1001", "P1048"}, v \in Values}
CameraNotices == {setProperty(pid, v) : pid \in {"P1", "P1047"}, v \in Values}

PlugCommands == {setProperty("P3", v) : v \in Values}
LightCommands == {setProperty(pid, v) : pid \in {"P3", "P1501", "P1502"}, v \in Values}
BulbCommands == {localBulbCommand(pid, v) : pid \in {"P3", "P1501"}, v \in Values}

MeshPower == {runActionList("P3", v) : v \in Values}
\* Hue and saturation both go by P1507.
MeshCommands == {runActionList(pid, v) : pid \in {"P1501", "P1502", "P1507"}, v \in Values}

WallSwitchCommands ==
    {setIotProp(prop, v) :
        prop \in {"switch-power", "switch-iot", "led_state", "vacation_mode"}, v \in Values}
HmsCommands == {setHMSState(mode) : mode \in {"off", "away", "home"}}
LockCommands == {controlLock(a) : a \in {"remoteLock", "remoteUnlock"}}
BoltCommands == {iot3RunAction(a) : a \in {"lock::lock", "lock::unlock"}}
ThermostatCommands ==
    {thermostatSetIotProp(prop, v) : prop \in {"mode_sys", "heat_sp"}, v \in Values}
IrrigationCommands == {irrigationQuickRun("1"), irrigationStop}
VacuumCommands ==
    {vacuumControl("GLOBAL_SWEEPING", v) : v \in {"START", "PAUSE"}}
        \cup {vacuumControl("RETURN_TO_CHARGING", v) : v \in {"START", "STOP"}}
VacuumSettings ==
    {vacuumSetSuctionLevel(v) : v \in {"1", "2", "3"}}
        \cup {setVacuumCurrentMap(v) : v \in Values}

Commands ==
    [camera |-> CameraActions \cup CameraLights \cup CameraDetection \cup CameraNotices,
     plug |-> PlugCommands,
     light |-> LightCommands \cup BulbCommands,
     mesh |-> MeshPower \cup MeshCommands,
     wallswitch |-> WallSwitchCommands,
     hms |-> HmsCommands,
     lock |-> LockCommands,
     bolt |-> BoltCommands,
     thermostat |-> ThermostatCommands,
     irrigation |-> IrrigationCommands,
     vacuum |-> VacuumCommands \cup VacuumSettings]

ASSUME KindsAssumption == Kinds \subseteq DOMAIN Commands

Settings(k) == UNION {UNION {DOMAIN q[i].sets : i \in DOMAIN q} : q \in Commands[k]}

-----------------------------------------------------------------------------
VARIABLES
    kind,    \* the kind of the device, fixed
    device,  \* device[p]: the value of its setting p
    token,   \* this.access_token
    cmd,     \* cmd[c]: the requests of the command called
    step,    \* step[c]: which of them c has come to
    at,      \* at[c]: where that request stands
    tok,     \* tok[c]: the token it was sent with
    try,     \* try[c]: 2 once _handleRetry has sent it again
    ran,     \* history: how often the device has executed that request
    undone   \* history: settings others have set since c began or last set them

calls == <<cmd, step, at, tok, try>>
history == <<ran, undone>>
vars == <<kind, device, token, calls, history>>

Answers == {"ran", "refused", "limited", "failed"}
Phases == {"idle", "login", "ready", "sent", "refreshing", "refreshed", "backoff",
           "ok", "threw"} \cup Answers
Tokens == {"none", "good", "stale"}

TypeOK ==
    /\ kind \in Kinds
    /\ DOMAIN device = Settings(kind)
    /\ token \in Tokens
    /\ cmd \in [Calls -> Commands[kind] \cup {<<>>}]
    /\ \A c \in Calls : step[c] \in 0..Len(cmd[c])
    /\ at \in [Calls -> Phases]
    /\ tok \in [Calls -> Tokens]
    /\ try \in [Calls -> 1..2]
    /\ ran \in [Calls -> Nat]
    /\ undone \in [Calls -> SUBSET Settings(kind)]

Init ==
    /\ kind \in Kinds
    /\ device = [p \in Settings(kind) |-> "0"]
    /\ token \in Tokens
    /\ cmd = [c \in Calls |-> <<>>]
    /\ step = [c \in Calls |-> 0]
    /\ at = [c \in Calls |-> "idle"]
    /\ tok = [c \in Calls |-> "none"]
    /\ try = [c \in Calls |-> 1]
    /\ ran = [c \in Calls |-> 0]
    /\ undone = [c \in Calls |-> {}]

-----------------------------------------------------------------------------
Goto(c, phase) == at' = [at EXCEPT ![c] = phase]

Req(c) == cmd[c][step[c]]

\* maybeLogin, up to its first await.
maybeLogin(c) == Goto(c, IF token = "none" THEN "login" ELSE "ready")

\* Request i of command q begins; a bulb in the local network needs no login.
Start(c, q, i) ==
    /\ cmd' = [cmd EXCEPT ![c] = q]
    /\ step' = [step EXCEPT ![c] = i]
    /\ try' = [try EXCEPT ![c] = 1]
    /\ tok' = [tok EXCEPT ![c] = "none"]
    /\ ran' = [ran EXCEPT ![c] = 0]
    /\ IF q[i].via = "local" THEN Goto(c, "sent") ELSE maybeLogin(c)

\* The request has returned: the next one, or the command returns.
Return(c) ==
    IF step[c] < Len(cmd[c]) THEN Start(c, cmd[c], step[c] + 1)
    ELSE Goto(c, "ok") /\ UNCHANGED <<cmd, step, try, tok, ran>>

End(c, phase) == Goto(c, phase) /\ UNCHANGED <<cmd, step, try, tok, ran>>

Call(c, q) ==
    /\ at[c] = "idle"
    /\ Start(c, q, 1)
    /\ undone' = [undone EXCEPT ![c] = {}]
    /\ UNCHANGED <<kind, device, token>>

\* maybeLogin returns with a token from the login or from the file, or, when it
\* does not wait for the login it starts, without one.
LoggedIn(c) ==
    /\ at[c] = "login"
    /\ token' \in {token, "good", "stale"}
    /\ Goto(c, "ready")
    /\ UNCHANGED <<kind, device, cmd, step, tok, try, history>>

\* The login fails, and maybeLogin throws.
LoginFails(c) ==
    /\ at[c] = "login"
    /\ token' \in {token, "none"}
    /\ Goto(c, "threw")
    /\ UNCHANGED <<kind, device, cmd, step, tok, try, history>>

Send(c) ==
    /\ at[c] = "ready"
    /\ tok' = [tok EXCEPT ![c] = token]
    /\ Goto(c, "sent")
    /\ UNCHANGED <<kind, device, token, cmd, step, try, history>>

-----------------------------------------------------------------------------
(* The cloud and the device *)

NewValue(v, old) == IF v # "flip" THEN v ELSE IF old = "1" THEN "0" ELSE "1"

Run(c) ==
    /\ at[c] = "sent"
    /\ Req(c).via = "local" \/ tok[c] = "good"
    /\ LET new == Req(c).sets IN
       /\ device' = [p \in DOMAIN device |->
                        IF p \in DOMAIN new THEN NewValue(new[p], device[p]) ELSE device[p]]
       /\ undone' = [d \in Calls |-> IF d = c THEN undone[d] \ DOMAIN new
                                     ELSE undone[d] \cup DOMAIN new]
    /\ ran' = [ran EXCEPT ![c] = @ + 1]
    /\ Goto(c, "ran")
    /\ UNCHANGED <<kind, token, cmd, step, tok, try>>

\* An answer without effect: the token is refused, too many requests, or an
\* error of the cloud or of the device.
Decline(c) ==
    /\ at[c] = "sent"
    /\ \/ tok[c] # "good" /\ Req(c).via # "local" /\ Goto(c, "refused")
       \/ Req(c).via # "local" /\ Goto(c, "limited")
       \/ Goto(c, "failed")
    /\ UNCHANGED <<kind, device, token, cmd, step, tok, try, history>>

\* The access token expires, for requests on their way as well.
Expire ==
    /\ token = "good" \/ \E c \in Calls : at[c] = "sent" /\ tok[c] = "good"
    /\ token' = IF token = "good" THEN "stale" ELSE token
    /\ tok' = [c \in Calls |-> IF at[c] = "sent" /\ tok[c] = "good" THEN "stale" ELSE tok[c]]
    /\ UNCHANGED <<kind, device, cmd, step, at, try, history>>

-----------------------------------------------------------------------------
(* The client *)

\* The answer of a request that was executed.  this.log is an object: with
\* apiLogEnabled the call of it in the irrigation methods throws.
Served(c) ==
    /\ at[c] = "ran"
    /\ CASE Req(c).via = "local" -> End(c, "ok")
         [] Req(c).via = "irrigation" /\ ApiLog -> End(c, "threw")
         [] OTHER -> Return(c)
    /\ UNCHANGED <<kind, device, token, undone>>

\* No answer, executed or not: thrown to the caller, but for a local bulb
\* logged only.
Lost_Retried(c) ==                  \* mutant: a network error is retried as well
    /\ at[c] \in {"sent", "ran"}
    /\ IF Req(c).via = "api" /\ try[c] = 1 THEN End(c, "backoff")
       ELSE End(c, IF Req(c).via = "local" THEN "ok" ELSE "threw")
    /\ UNCHANGED <<kind, device, token, undone>>

Lost(c) ==
    /\ at[c] \in {"sent", "ran"}
    /\ End(c, IF Req(c).via = "local" THEN "ok" ELSE "threw")
    /\ UNCHANGED <<kind, device, token, undone>>

\* _handleAccessTokenError clears the token and refreshes it.
Refused(c) ==
    /\ at[c] = "refused" /\ Req(c).via = "api"
    /\ token' = "none"
    /\ Goto(c, "refreshing")
    /\ UNCHANGED <<kind, device, cmd, step, tok, try, history>>

\* refreshToken, and the saving of its pair, return.
Refreshed(c) ==
    /\ at[c] = "refreshing"
    /\ token' = "good"
    /\ Goto(c, "refreshed")
    /\ UNCHANGED <<kind, device, cmd, step, tok, try, history>>

RefreshFails(c) ==
    /\ at[c] = "refreshing"
    /\ token' \in {token, "none", "good"}
    /\ Goto(c, "threw")
    /\ UNCHANGED <<kind, device, cmd, step, tok, try, history>>

\* _handleRequest: one retry if there is a time to retry after.
RetryAfter_Unchecked(c, given) ==   \* mutant: the retry's answer is returned as it is
    Goto(c, IF given /\ try[c] = 1 THEN "backoff" ELSE "ok")

RetryAfter(c, given) == Goto(c, IF given /\ try[c] = 1 THEN "backoff" ELSE "threw")

Resume(c) ==
    /\ \/ at[c] = "refreshed" /\ RetryAfter(c, token # "none")
       \/ at[c] = "limited" /\ Req(c).via = "api" /\ RetryAfter(c, TRUE)
    /\ UNCHANGED <<kind, device, token, cmd, step, tok, try, history>>

\* _handleRetry, after its wait: at once for a new token, ten minutes for a
\* rate limit.
Retry(c) ==
    /\ at[c] = "backoff"
    /\ try' = [try EXCEPT ![c] = @ + 1]
    /\ maybeLogin(c)
    /\ UNCHANGED <<kind, device, token, cmd, step, tok, history>>

\* Any other error code is thrown; one of the credentials clears the token.
Failed(c) ==
    /\ at[c] = "failed" /\ Req(c).via = "api"
    /\ token' \in {token, "none"}
    /\ Goto(c, "threw")
    /\ UNCHANGED <<kind, device, cmd, step, tok, try, history>>

\* The services' answers are not looked at: an error in the body is returned
\* like a success, an HTTP error is thrown.
Unchecked(c) ==
    /\ at[c] \in {"refused", "limited", "failed"}
    /\ Req(c).via \in {"service", "irrigation"}
    /\ \/ Return(c)
       \/ End(c, "threw")
    /\ UNCHANGED <<kind, device, token, undone>>

\* The bulb answered with an HTTP error: the cloud is asked.
Fallback(c) ==
    /\ at[c] = "failed" /\ Req(c).via = "local"
    /\ Return(c)
    /\ UNCHANGED <<kind, device, token, undone>>

Step(c) ==
    \/ \E q \in Commands[kind] : Call(c, q)
    \/ LoggedIn(c) \/ LoginFails(c) \/ Send(c) \/ Run(c) \/ Decline(c)
    \/ Served(c) \/ Lost(c) \/ Refused(c) \/ Refreshed(c) \/ RefreshFails(c)
    \/ Resume(c) \/ Retry(c) \/ Failed(c) \/ Unchecked(c) \/ Fallback(c)

Next == Expire \/ \E c \in Calls : Step(c)

Spec == Init /\ [][Next]_vars

-----------------------------------------------------------------------------
(* Properties *)

\* What c asked for in its first request holds, as far as no other call has
\* set it since.  A setting that is flipped is left to RunsOnce.
Done(c) ==
    LET asked == cmd[c][1].sets
    IN \A p \in DOMAIN asked \ undone[c] : asked[p] \in {"flip", device[p]}

\* A command that returned from request() has been executed: no refusal, rate
\* limit or error code is taken for success, on the first try or the second.
OkIsDone ==
    \A c \in Calls : at[c] = "ok" /\ cmd[c][1].via = "api" => ran[c] > 0 /\ Done(c)

\* No request is executed twice, whatever was refused, lost or retried: the
\* garage door, which a second trigger would close again, is triggered once.
RunsOnce == \A c \in Calls : ran[c] <= 1

\* The same of the commands whose answers nobody checks.
EveryOkIsDone == \A c \in Calls : at[c] = "ok" => Done(c)

\* A command that throws although the device executed it was cut off from the
\* answer: an answer received is never turned into an error.
ServedReturns == [][\A c \in Calls : Served(c) => at'[c] # "threw"]_vars

\* A retry does not undo what another call has set while it waited.
RetryOverridesNone ==
    [][\A c \in Calls : Run(c) /\ try[c] = 2 => undone[c] \cap DOMAIN Req(c).sets = {}]_vars
=============================================================================
