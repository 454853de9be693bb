------------------------------ MODULE WyzeLogin ------------------------------
(***************************************************************************)
(* maybeLogin of the Wyze client (src/index.js): callers that need a token *)
(* and the debounce that spaces their logins, in discrete time.            *)
(*                                                                         *)
(* Times are kept relative to the present, in seconds: age is the time     *)
(* since lastLoginAttempt, since[c] the time since caller c read the clock.*)
(***************************************************************************)
EXTENDS Naturals

CONSTANTS
    Callers,
    Initial,     \* the debounce at the start: 1 s
    Cap,         \* its ceiling: 5 min
    ResetAfter,  \* the rest after which it starts again: 12 h
    Nap,         \* a waiter looks for a token every Nap: 2 s
    MaxLogins    \* bound: logins running that nobody awaits

ASSUME TimesAssumption ==
    /\ Initial \in Nat \ {0} /\ Cap \in Nat /\ ResetAfter \in Nat /\ Nap \in Nat \ {0}
    /\ Initial <= Cap /\ Cap + Nap <= ResetAfter
ASSUME LoginsAssumption == MaxLogins \in Nat

Far == ResetAfter + 1  \* longer ago is all the same

VARIABLES
    up,          \* the process runs
    token,       \* this.access_token is set
    age,         \* time since lastLoginAttempt, at most Far
    debounce,    \* loginAttemptDebounceMilliseconds
    sinceLogin,  \* time since a login really began, at most Far
    pc,          \* pc[c]: where maybeLogin stands for caller c
    since,       \* since[c]: time since c took `now`
    nap,         \* nap[c]: what is left of the nap of a waiting caller
    logins       \* logins running that nobody awaits

vars == <<up, token, age, debounce, sinceLogin, pc, since, nap, logins>>

TypeOK ==
    /\ up \in BOOLEAN
    /\ token \in BOOLEAN
    /\ age \in 0..Far
    /\ debounce \in Initial..Cap
    /\ sinceLogin \in 0..Far
    /\ pc \in [Callers -> {"idle", "loading", "login", "saving", "waiting", "returned"}]
    /\ since \in [Callers -> 0..(Cap + Nap - 1)]
    /\ nap \in [Callers -> 0..Nap]
    /\ logins \in 0..MaxLogins

\* lastLoginAttempt starts at the epoch.
Init ==
    /\ up = TRUE
    /\ token = FALSE
    /\ age = Far /\ sinceLogin = Far
    /\ debounce = Initial
    /\ pc = [c \in Callers |-> "idle"]
    /\ since = [c \in Callers |-> 0]
    /\ nap = [c \in Callers |-> 0]
    /\ logins = 0

-----------------------------------------------------------------------------
AtMost(x, limit) == IF x <= limit THEN x ELSE limit
Goto(c, phase) == pc' = [pc EXCEPT ![c] = phase]
Rest(c) == since' = [since EXCEPT ![c] = 0] /\ nap' = [nap EXCEPT ![c] = 0]

\* maybeLogin is called: with a token it returns at once.
Calls(c) ==
    /\ up
    /\ pc[c] \in {"idle", "returned"}
    /\ Goto(c, IF token THEN "returned" ELSE "loading")
    /\ UNCHANGED <<up, token, age, debounce, sinceLogin, since, nap, logins>>

isDebounceCleared == debounce < age

\* resetDebounceIfNeeded
resetDebounceIfNeeded_Always == debounce' = Initial  \* mutant: without the test
resetDebounceIfNeeded == debounce' = IF age > ResetAfter THEN Initial ELSE debounce

\* The token file has been read, and found to hold tokens or not.
LoadFinds(c) ==
    /\ up /\ pc[c] = "loading"
    /\ token' = TRUE
    /\ Goto(c, "returned")
    /\ UNCHANGED <<up, age, debounce, sinceLogin, since, nap, logins>>

LoadFindsNothing(c) ==
    /\ up /\ pc[c] = "loading"
    /\ \/ /\ token
          /\ Goto(c, "returned")
          /\ UNCHANGED <<age, debounce, sinceLogin, nap>>
       \/ /\ ~token /\ isDebounceCleared
          /\ resetDebounceIfNeeded
          /\ age' = 0 /\ sinceLogin' = 0
          /\ Goto(c, "login")
          /\ UNCHANGED nap
       \/ /\ ~token /\ ~isDebounceCleared
          /\ Goto(c, "waiting")
          /\ nap' = [nap EXCEPT ![c] = Nap]
          /\ UNCHANGED <<age, debounce, sinceLogin>>
    /\ UNCHANGED <<up, token, since, logins>>

\* The login that tryLogin awaits is accepted: there is a token while it is being
\* saved, and maybeLogin returns once it is.
LoginAccepted(c) ==
    /\ up /\ pc[c] = "login"
    /\ token' = TRUE
    /\ Goto(c, "saving")
    /\ UNCHANGED <<up, age, debounce, sinceLogin, since, nap, logins>>

LoginSaved(c) ==
    /\ up /\ pc[c] = "saving"
    /\ Goto(c, "returned")
    /\ UNCHANGED <<up, token, age, debounce, sinceLogin, since, nap, logins>>

\* maybeLogin throws: the login is refused, which clears the token, or fails, or is
\* answered with a token error, which clears the token and may get another from
\* refreshToken first; or the token cannot be saved, and stays.
LoginFails(c) ==
    /\ up
    /\ \/ pc[c] = "login" /\ token' \in BOOLEAN
       \/ pc[c] = "saving" /\ UNCHANGED token
    /\ Goto(c, "idle")
    /\ UNCHANGED <<up, age, debounce, sinceLogin, since, nap, logins>>

\* A waiter wakes from a nap.  It returns if there is a token; it naps again
\* while the debounce lasts; then it doubles the debounce, starts a login, and
\* maybeLogin returns without awaiting that login.
Wake_Insists(c) ==                  \* mutant: the token is not looked at
    /\ up /\ pc[c] = "waiting" /\ nap[c] = 0
    /\ \/ /\ since[c] < debounce
          /\ nap' = [nap EXCEPT ![c] = Nap]
          /\ UNCHANGED <<age, debounce, sinceLogin, pc, since, logins>>
       \/ /\ since[c] >= debounce
          /\ age' = since[c]
          /\ debounce' = AtMost(debounce * 2, Cap)
          /\ logins < MaxLogins /\ logins' = logins + 1
          /\ sinceLogin' = 0
          /\ Goto(c, "returned") /\ Rest(c)
    /\ UNCHANGED <<up, token>>

Wake_NapsOn(c) ==                   \* mutant: waitTime is not advanced
    /\ up /\ pc[c] = "waiting" /\ nap[c] = 0
    /\ \/ /\ token
          /\ Goto(c, "returned") /\ Rest(c)
       \/ /\ ~token
          /\ nap' = [nap EXCEPT ![c] = Nap]
          /\ since' = [since EXCEPT ![c] = 0]
          /\ UNCHANGED pc
    /\ UNCHANGED <<up, token, age, debounce, sinceLogin, logins>>

Wake(c) ==
    /\ up /\ pc[c] = "waiting" /\ nap[c] = 0
    /\ \/ /\ token
          /\ Goto(c, "returned") /\ Rest(c)
          /\ UNCHANGED <<age, debounce, sinceLogin, logins>>
       \/ /\ ~token /\ since[c] < debounce
          /\ nap' = [nap EXCEPT ![c] = Nap]
          /\ UNCHANGED <<age, debounce, sinceLogin, pc, since, logins>>
       \/ /\ ~token /\ since[c] >= debounce
          /\ age' = since[c]
          /\ debounce' = AtMost(debounce * 2, Cap)
          /\ logins < MaxLogins /\ logins' = logins + 1
          /\ sinceLogin' = 0
          /\ Goto(c, "returned") /\ Rest(c)
    /\ UNCHANGED <<up, token>>

\* The login nobody awaits ends.  Its rejection is handled by nobody, and the
\* process ends, with a token (which could not be saved) or without.
StrayLoginSucceeds ==
    /\ up /\ logins > 0
    /\ token' = TRUE
    /\ logins' = logins - 1
    /\ UNCHANGED <<up, age, debounce, sinceLogin, pc, since, nap>>

StrayLoginFails ==
    /\ up /\ logins > 0
    /\ up' = FALSE
    /\ token' \in BOOLEAN
    /\ UNCHANGED <<age, debounce, sinceLogin, pc, since, nap, logins>>

\* A request is refused for its token, which clears it.
TokenCleared ==
    /\ up /\ token
    /\ token' = FALSE
    /\ UNCHANGED <<up, age, debounce, sinceLogin, pc, since, nap, logins>>

\* A second passes.  Timers that are due fire first.
Waiting == {c \in Callers : pc[c] = "waiting"}

Tick ==
    /\ up
    /\ \A c \in Waiting : nap[c] > 0
    /\ age' = AtMost(age + 1, Far)
    /\ sinceLogin' = AtMost(sinceLogin + 1, Far)
    /\ since' = [c \in Callers |-> IF c \in Waiting THEN since[c] + 1 ELSE since[c]]
    /\ nap' = [c \in Callers |-> IF c \in Waiting THEN nap[c] - 1 ELSE nap[c]]
    /\ UNCHANGED <<up, token, debounce, pc, logins>>

CallerStep(c) ==
    \/ Calls(c) \/ LoadFinds(c) \/ LoadFindsNothing(c)
    \/ LoginAccepted(c) \/ LoginSaved(c) \/ LoginFails(c) \/ Wake(c)

Next ==
    \/ \E c \in Callers : CallerStep(c)
    \/ StrayLoginSucceeds \/ StrayLoginFails \/ TokenCleared \/ Tick

Spec == Init /\ [][Next]_vars

\* Time passes, files are read, logins are answered and timers fire.
Fairness ==
    /\ WF_vars(Tick)
    /\ WF_vars(StrayLoginSucceeds \/ StrayLoginFails)
    /\ \A c \in Callers :
          /\ WF_vars(LoadFinds(c) \/ LoadFindsNothing(c))
          /\ WF_vars(LoginAccepted(c) \/ LoginSaved(c) \/ LoginFails(c))
          /\ WF_vars(Wake(c))

FairSpec == Spec /\ Fairness

-----------------------------------------------------------------------------
(* Properties *)

\* maybeLogin returns or throws, whatever other callers do to the debounce while
\* it waits.
CallReturns ==
    \A c \in Callers : pc[c] \in {"loading", "login", "saving", "waiting"}
                           ~> pc[c] \in {"idle", "returned"} \/ ~up

\* A caller that waits for the debounce uses the token another caller obtained:
\* no login begins while there is one.
NoLoginWithToken == [][sinceLogin' = 0 /\ sinceLogin # 0 => ~token]_vars

\* The back-off survives: the debounce falls back only after a rest of twelve
\* hours, less the five minutes (and part of a nap) by which a waiter's `now`, taken
\* before it waited, antedates the login it records.
ResetOnlyAfterRest ==
    [][debounce' < debounce => sinceLogin + (Cap + Nap - 1) > ResetAfter]_vars

\* maybeLogin "guarantees this.access_token is set": when it returns there is a
\* token, unless it was cleared since.
CallerHasToken ==
    [][\A c \in Callers : pc[c] # "returned" /\ pc'[c] = "returned" => token']_vars
=============================================================================
