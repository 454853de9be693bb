----------------------------- MODULE WyzeTokens -----------------------------
(***************************************************************************)
(* Access and refresh tokens of the Wyze client (src/index.js): the pair   *)
(* in memory, the pair in the token file, and requests that load, obtain,  *)
(* use, refresh and save them, interleaved at their awaits.                *)
(*                                                                         *)
(* The cloud issues pairs, numbered in the order of issue; a token is the  *)
(* number of its pair.  When the debounce of logins lets a login through   *)
(* is left open here; WyzeLogin models it.                                 *)
(***************************************************************************)
EXTENDS Naturals, Sequences, FiniteSets, SequencesExt

CONSTANTS
    Requests,      \* calls of request()
    MaxPairs,      \* bound: token pairs the cloud issues
    MaxDepth,      \* bound: refreshes nested in one another
    RefreshDies,   \* may a refresh token cease to be accepted?
    NestedRefusal  \* is a dead refresh token refused with code 2001?

ASSUME BoundsAssumption == MaxPairs \in Nat \ {0} /\ MaxDepth \in Nat \ {0}
ASSUME CloudAssumption == RefreshDies \in BOOLEAN /\ NestedRefusal \in BOOLEAN

Pairs == 1..MaxPairs
None == 0       \* no token
Torn == MaxPairs + 1  \* a token file that does not parse

VARIABLES
    issued,     \* pairs the cloud has issued
    accessOK,   \* pairs whose access token the cloud accepts
    refreshOK,  \* pairs whose refresh token the cloud accepts
    access,     \* this.access_token
    refresh,    \* this.refresh_token
    file,       \* the pair in the token file; None if there is none
    pc,         \* pc[r]: where request r stands
    try,        \* try[r]: 2 once r will not be retried (_handleRetry is entered, or
                \* its login was answered with a token error)
    tok,        \* tok[r]: the access token r was sent with
    frames,     \* frames[r]: its refreshToken calls, the innermost last
    saved,      \* saved[r]: the pair r is writing to the file, if any
    bg,         \* bg[r]: the login r has started and not awaited
    bgSaved     \* bgSaved[r]: the pair that login is writing, if any

cloudVars == <<issued, accessOK, refreshOK>>
bgVars == <<bg, bgSaved>>
vars == <<cloudVars, access, refresh, file, pc, try, tok, frames, saved, bgVars>>

AtRest == {"idle", "done", "failed"}
Phases == AtRest \cup {"loading", "login", "waiting", "ready", "sent", "backoff",
                       "refreshing", "saving"}
Frames == [rtok: 0..MaxPairs, attempt: 1..2]

TypeOK ==
    /\ issued \in 0..MaxPairs
    /\ accessOK \subseteq 1..issued
    /\ refreshOK \subseteq 1..issued
    /\ access \in 0..issued
    /\ refresh \in 0..issued
    /\ file \in 0..issued \cup {Torn}
    /\ pc \in [Requests -> Phases]
    /\ try \in [Requests -> 1..2]
    /\ tok \in [Requests -> 0..MaxPairs]
    /\ frames \in [Requests -> Seq(Frames)]
    /\ saved \in [Requests -> 0..MaxPairs]
    /\ bg \in [Requests -> {"off", "login", "saving"}]
    /\ bgSaved \in [Requests -> 0..MaxPairs]

Init ==
    /\ issued = 0 /\ accessOK = {} /\ refreshOK = {}
    /\ access = None /\ refresh = None /\ file = None
    /\ pc = [r \in Requests |-> "idle"]
    /\ try = [r \in Requests |-> 1]
    /\ tok = [r \in Requests |-> None]
    /\ frames = [r \in Requests |-> <<>>]
    /\ saved = [r \in Requests |-> None]
    /\ bg = [r \in Requests |-> "off"]
    /\ bgSaved = [r \in Requests |-> None]

-----------------------------------------------------------------------------
Goto(r, phase) == pc' = [pc EXCEPT ![r] = phase]

\* The cloud issues a pair; _updateTokens puts it in memory.  Bound: the last
\* pair is issued again and again.
Issue ==
    /\ issued' = IF issued < MaxPairs THEN issued + 1 ELSE issued
    /\ accessOK' = accessOK \cup {issued'}
    /\ refreshOK' = refreshOK \cup {issued'}
    /\ access' = issued'
    /\ refresh' = issued'

\* Pairs being written: a reader may find the file half written.
Saving == ({saved[r] : r \in Requests} \cup {bgSaved[r] : r \in Requests}) \ {None}
Contents == {file} \cup (IF Saving = {} THEN {} ELSE {Torn})

\* maybeLogin, up to its first await.
maybeLogin(r) == Goto(r, IF access = None THEN "loading" ELSE "ready")

\* request(): only a client that can still be served asks.
Ask(r) ==
    /\ pc[r] \in AtRest
    /\ try' = [try EXCEPT ![r] = 1]
    /\ tok' = [tok EXCEPT ![r] = None]
    /\ maybeLogin(r)
    /\ UNCHANGED <<cloudVars, access, refresh, file, frames, saved, bgVars>>

\* The token file has been read.  A pair in it replaces the one in memory;
\* otherwise a login follows, at once or after the debounce.
Loaded(r) ==
    /\ pc[r] = "loading"
    /\ \E content \in Contents :
          \/ /\ content \in Pairs
             /\ access' = content /\ refresh' = content
             /\ Goto(r, "ready")
          \/ /\ content \notin Pairs
             /\ IF access # None THEN Goto(r, "ready")
                ELSE Goto(r, "login") \/ Goto(r, "waiting")
             /\ UNCHANGED <<access, refresh>>
    /\ UNCHANGED <<cloudVars, file, try, tok, frames, saved, bgVars>>

\* waitForDebounceClearance returns.  updateDebounceAndLogin is called without
\* await: maybeLogin returns while its login runs on.
Waited(r) ==
    /\ pc[r] = "waiting"
    /\ IF access # None THEN UNCHANGED bg
       ELSE bg[r] = "off" /\ bg' = [bg EXCEPT ![r] = "login"]
    /\ Goto(r, "ready")
    /\ UNCHANGED <<cloudVars, access, refresh, file, try, tok, frames, saved, bgSaved>>

LoginAccepted(r) ==
    /\ pc[r] = "login"
    /\ Issue
    /\ saved' = [saved EXCEPT ![r] = issued']
    /\ Goto(r, "saving")
    /\ UNCHANGED <<file, try, tok, frames, bgVars>>

\* The credentials are refused, which clears the token, or the call fails.
LoginFails(r) ==
    /\ pc[r] = "login"
    /\ access' \in {None, access}
    /\ Goto(r, "failed")
    /\ UNCHANGED <<cloudVars, refresh, file, try, tok, frames, saved, bgVars>>

\* The login is answered with code 2001: as with any request, the token is cleared and
\* refreshToken called; whatever comes of it, login() then throws.
LoginRefused(r) ==
    /\ pc[r] = "login"
    /\ access' = None
    /\ frames' = [frames EXCEPT ![r] = <<[rtok |-> refresh, attempt |-> 1]>>]
    /\ try' = [try EXCEPT ![r] = 2]
    /\ Goto(r, "refreshing")
    /\ UNCHANGED <<cloudVars, refresh, file, tok, saved, bgVars>>

-----------------------------------------------------------------------------
(* The request itself *)

\* _performRequest sends the token that is in memory, which may be none.
Send(r) ==
    /\ pc[r] = "ready"
    /\ tok' = [tok EXCEPT ![r] = access]
    /\ Goto(r, "sent")
    /\ UNCHANGED <<cloudVars, access, refresh, file, try, frames, saved, bgVars>>

Accepted(r) ==
    /\ pc[r] = "sent"
    /\ tok[r] \in accessOK
    /\ Goto(r, "done")
    /\ UNCHANGED <<cloudVars, access, refresh, file, try, tok, frames, saved, bgVars>>

\* _handleAccessTokenError: code 2001 clears the token and calls refreshToken.
Refused_NoRefresh(r) ==             \* mutant: cleared, and answered to the caller
    /\ pc[r] = "sent"
    /\ tok[r] \notin accessOK
    /\ access' = None
    /\ Goto(r, "failed")
    /\ UNCHANGED <<cloudVars, refresh, file, try, tok, frames, saved, bgVars>>

Refused(r) ==
    /\ pc[r] = "sent"
    /\ tok[r] \notin accessOK
    /\ access' = None
    /\ frames' = [frames EXCEPT ![r] = <<[rtok |-> refresh, attempt |-> 1]>>]
    /\ Goto(r, "refreshing")
    /\ UNCHANGED <<cloudVars, refresh, file, try, tok, saved, bgVars>>

\* The rate limit: _handleRequest retries once, after ten minutes.
RateLimited(r) ==
    /\ pc[r] = "sent"
    /\ Goto(r, IF try[r] = 1 THEN "backoff" ELSE "failed")
    /\ UNCHANGED <<cloudVars, access, refresh, file, try, tok, frames, saved, bgVars>>

\* Any other error is thrown to the caller; that the credentials are refused clears
\* the token.
RequestFails(r) ==
    /\ pc[r] = "sent"
    /\ access' \in {None, access}
    /\ Goto(r, "failed")
    /\ UNCHANGED <<cloudVars, refresh, file, try, tok, frames, saved, bgVars>>

\* _handleRetry, once its wait is over.
Retry(r) ==
    /\ pc[r] = "backoff"
    /\ try' = [try EXCEPT ![r] = 2]
    /\ maybeLogin(r)
    /\ UNCHANGED <<cloudVars, access, refresh, file, tok, frames, saved, bgVars>>

-----------------------------------------------------------------------------
(* refreshToken *)

\* An attempt of the innermost of calls fails: a first attempt is repeated
\* with the data it was made with; after a second the call throws, which fails
\* the attempt of the call it is nested in.
Retriable(calls) == {i \in DOMAIN calls : calls[i].attempt = 1}

NextAttempt(sent) == [rtok |-> sent.rtok, attempt |-> sent.attempt + 1]

AttemptFails_NotCounted(r, calls) ==  \* mutant: attempt is not incremented
    IF calls = <<>> THEN UNCHANGED frames /\ Goto(r, "failed")
    ELSE frames' = [frames EXCEPT ![r] = calls] /\ Goto(r, "refreshing")

AttemptFails(r, calls) ==
    \/ /\ Retriable(calls) = {}
       /\ frames' = [frames EXCEPT ![r] = <<>>]
       /\ Goto(r, "failed")
    \/ \E i \in Retriable(calls) :
          /\ \A j \in Retriable(calls) : j <= i
          /\ frames' = [frames EXCEPT ![r] = Append(SubSeq(calls, 1, i - 1), NextAttempt(calls[i]))]
          /\ Goto(r, "refreshing")

RefreshAccepted_KeepsOld(r) ==      \* mutant: the old refresh token is kept
    /\ pc[r] = "refreshing"
    /\ Last(frames[r]).rtok \in refreshOK
    /\ issued' = IF issued < MaxPairs THEN issued + 1 ELSE issued
    /\ accessOK' = accessOK \cup {issued'}
    /\ refreshOK' = refreshOK \cup {issued'}
    /\ access' = issued'
    /\ saved' = [saved EXCEPT ![r] = issued']
    /\ Goto(r, "saving")
    /\ UNCHANGED <<refresh, file, try, tok, frames, bgVars>>

RefreshAccepted(r) ==
    /\ pc[r] = "refreshing"
    /\ Last(frames[r]).rtok \in refreshOK
    /\ Issue
    /\ saved' = [saved EXCEPT ![r] = issued']
    /\ Goto(r, "saving")
    /\ UNCHANGED <<file, try, tok, frames, bgVars>>

\* Code 2001 in answer to a refresh: _handleApiResponse clears the token and
\* calls refreshToken within refreshToken.  Bound: the code has none, here the answer
\* is not given again once MaxDepth calls are nested.
RefreshRefused(r) ==
    /\ pc[r] = "refreshing"
    /\ Last(frames[r]).rtok \notin refreshOK
    /\ NestedRefusal
    /\ Len(frames[r]) < MaxDepth
    /\ access' = None
    /\ frames' = [frames EXCEPT ![r] = Append(@, [rtok |-> refresh, attempt |-> 1])]
    /\ UNCHANGED <<cloudVars, refresh, file, pc, try, tok, saved, bgVars>>

\* Another error: no answer, a rate limit, a refusal that is not a 2001.
RefreshFails(r) ==
    /\ pc[r] = "refreshing"
    /\ AttemptFails(r, frames[r])
    /\ UNCHANGED <<cloudVars, access, refresh, file, try, tok, saved, bgVars>>

\* The pair is in the file.  After a login the request goes on; a nested
\* refresh returns to an attempt that counts as failed all the same; after the
\* outermost the request is retried if there is still a token in memory, and a login
\* throws.
AfterSave(r) ==
    CASE frames[r] = <<>> -> Goto(r, "ready") /\ UNCHANGED frames
      [] Len(frames[r]) > 1 -> AttemptFails(r, Front(frames[r]))
      [] OTHER -> /\ frames' = [frames EXCEPT ![r] = <<>>]
                  /\ Goto(r, IF access # None /\ try[r] = 1 THEN "backoff" ELSE "failed")

Saved(r) ==
    /\ pc[r] = "saving"
    /\ file' = saved[r]
    /\ saved' = [saved EXCEPT ![r] = None]
    /\ AfterSave(r)
    /\ UNCHANGED <<cloudVars, access, refresh, try, tok, bgVars>>

\* Both attempts of the write fail: _updateTokens throws.
SaveFails(r) ==
    /\ pc[r] = "saving"
    /\ file' \in {file, Torn}
    /\ saved' = [saved EXCEPT ![r] = None]
    /\ AttemptFails(r, frames[r])
    /\ UNCHANGED <<cloudVars, access, refresh, try, tok, bgVars>>

-----------------------------------------------------------------------------
(* The login that is not awaited *)

BgLoginAccepted(r) ==
    /\ bg[r] = "login"
    /\ Issue
    /\ bg' = [bg EXCEPT ![r] = "saving"]
    /\ bgSaved' = [bgSaved EXCEPT ![r] = issued']
    /\ UNCHANGED <<file, pc, try, tok, frames, saved>>

BgSaved(r) ==
    /\ bg[r] = "saving"
    /\ file' = bgSaved[r]
    /\ bg' = [bg EXCEPT ![r] = "off"]
    /\ bgSaved' = [bgSaved EXCEPT ![r] = None]
    /\ UNCHANGED <<cloudVars, access, refresh, pc, try, tok, frames, saved>>

\* The process ends and starts again: because it is told to, or because a login
\* nobody awaits is refused (a refresh it may make before that is left out) or cannot
\* save its pair.  Requests are lost, a file being written may be lost too.
Restart ==
    /\ access' = None /\ refresh' = None
    /\ file' \in Contents \cup Saving
    /\ pc' = [r \in Requests |-> "idle"]
    /\ try' = [r \in Requests |-> 1]
    /\ tok' = [r \in Requests |-> None]
    /\ frames' = [r \in Requests |-> <<>>]
    /\ saved' = [r \in Requests |-> None]
    /\ bg' = [r \in Requests |-> "off"]
    /\ bgSaved' = [r \in Requests |-> None]
    /\ UNCHANGED cloudVars

\* An access token expires, and its refresh token may do so with it.  Bound: the
\* last pair stays good.
Expires(p) ==
    /\ p \in accessOK /\ p < MaxPairs
    /\ accessOK' = accessOK \ {p}
    /\ \/ UNCHANGED refreshOK
       \/ RefreshDies /\ refreshOK' = refreshOK \ {p}
    /\ UNCHANGED <<issued, access, refresh, file, pc, try, tok, frames, saved, bgVars>>

Step(r) ==
    \/ Ask(r) \/ Loaded(r) \/ Waited(r)
    \/ LoginAccepted(r) \/ LoginRefused(r) \/ LoginFails(r)
    \/ Send(r) \/ Accepted(r) \/ Refused(r) \/ RateLimited(r) \/ RequestFails(r)
    \/ Retry(r) \/ RefreshAccepted(r) \/ RefreshRefused(r) \/ RefreshFails(r)
    \/ Saved(r) \/ SaveFails(r)

Next ==
    \/ \E r \in Requests : Step(r) \/ BgLoginAccepted(r) \/ BgSaved(r)
    \/ Restart
    \/ \E p \in Pairs : Expires(p)

Spec == Init /\ [][Next]_vars

\* Calls return, and the callers keep asking.  A cloud that is asked again and
\* again answers in the end, with what the token or the credentials deserve.
Fairness ==
    \A r \in Requests :
        /\ WF_vars(Step(r))
        /\ WF_vars(BgLoginAccepted(r)) /\ WF_vars(BgSaved(r))
        /\ SF_vars(LoginAccepted(r))
        /\ SF_vars(Accepted(r)) /\ SF_vars(Refused(r))
        /\ SF_vars(RefreshAccepted(r))

FairSpec == Spec /\ Fairness

-----------------------------------------------------------------------------
(* Properties *)

\* The two tokens in memory belong together: a refresh never mixes the token of
\* one pair with that of another.
PairHeld == access # None => refresh = access

\* The cloud has refused refreshes within refreshes with code 2001, MaxDepth of them:
\* whether it ever stops is up to it, nothing in the code does.
NestsDeep(r) == Len(frames[r]) >= MaxDepth

\* Every request is answered or fails, however its awaits, its refreshes and those
\* nested in them succeed, fail or are refused, unless they nest MaxDepth deep.
RequestEnds == \A r \in Requests : pc[r] \notin AtRest ~> pc[r] \in AtRest \/ NestsDeep(r)

\* A client whose requests fail comes to have one served, unless its process is
\* restarted or its refreshes nest MaxDepth deep first: expired tokens, lost files and
\* failed refreshes are got over.
Recovers ==
    \A r \in Requests : pc[r] = "failed" ~> pc[r] \in {"done", "idle"} \/ NestsDeep(r)

\* The newest refresh token is in memory, in the file or on its way there.
NewestKept == issued > 0 => issued \in {refresh, file} \cup Saving

\* A request is not retried with the token it was refused with.
RetryIsFresh ==
    [][\A r \in Requests : Send(r) /\ try[r] = 2 => access # tok[r]]_vars

\* A refresh is attempted twice and no more: refreshToken does not call itself.
RefreshNotNested == \A r \in Requests : Len(frames[r]) <= 1
=============================================================================
