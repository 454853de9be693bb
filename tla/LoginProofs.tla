----------------------------- MODULE LoginProofs -----------------------------
(***************************************************************************)
(* Proofs about the two logins: the debounce of the Wyze client            *)
(* (WyzeLogin), for any callers and any times, and the challenges of the   *)
(* Eufy cloud (EufyAuth), for any pages and any number of captchas.        *)
(***************************************************************************)
EXTENDS WyzeLogin, EufyAuth, TLAPS

USE DEF Far

\* A waiter's clock: it runs only while it waits, and no longer than the
\* longest debounce and a nap.
WaitsAreBounded ==
    \A c \in Callers :
        IF pc[c] = "waiting" THEN since[c] + nap[c] <= Cap + Nap - 1 ELSE since[c] = 0

\* lastLoginAttempt antedates the last login by a wait at most.
AgeIsNearTruth == age <= sinceLogin + (Cap + Nap - 1)

IInv == TypeOK /\ WaitsAreBounded /\ AgeIsNearTruth

-----------------------------------------------------------------------------
LEMMA InitIInv == Init => IInv
<1> SUFFICES ASSUME Init PROVE IInv
  OBVIOUS
<1> USE TimesAssumption, LoginsAssumption DEF Init
<1>1. up \in BOOLEAN /\ token \in BOOLEAN
  OBVIOUS
<1>2. TypeOK
  BY <1>1 DEF TypeOK
<1> QED BY <1>2 DEF IInv, WaitsAreBounded, AgeIsNearTruth

\* Steps of a caller that change neither the times nor the debounce.
LEMMA QuietCallerStep ==
    ASSUME IInv, NEW c \in Callers,
           Calls(c) \/ LoadFinds(c) \/ LoginAccepted(c) \/ LoginSaved(c) \/ LoginFails(c)
    PROVE  IInv'
<1> USE DEF Calls, LoadFinds, LoginAccepted, LoginSaved, LoginFails, Goto
<1>1. up' \in BOOLEAN /\ token' \in BOOLEAN
  BY DEF IInv, TypeOK
<1>2. /\ pc' \in [Callers -> {"idle", "loading", "login", "saving", "waiting", "returned"}]
      /\ UNCHANGED <<age, debounce, sinceLogin, since, nap, logins>>
      /\ pc[c] # "waiting" /\ pc'[c] # "waiting"
      /\ \A d \in Callers \ {c} : pc'[d] = pc[d]
  BY DEF IInv, TypeOK
<1>3. TypeOK'
  BY <1>1, <1>2 DEF IInv, TypeOK
<1>4. WaitsAreBounded'
  BY <1>2 DEF IInv, TypeOK, WaitsAreBounded
<1> QED BY <1>2, <1>3, <1>4 DEF IInv, AgeIsNearTruth

LEMMA LoadFindsNothingIInv ==
    ASSUME IInv, NEW c \in Callers, LoadFindsNothing(c)
    PROVE  IInv'
<1> USE TimesAssumption DEF LoadFindsNothing, Goto
<1>1. up' \in BOOLEAN /\ token' \in BOOLEAN
  BY DEF IInv, TypeOK
<1>2. /\ since' = since /\ logins' = logins
      /\ pc' \in [Callers -> {"idle", "loading", "login", "saving", "waiting", "returned"}]
      /\ nap' \in [Callers -> 0..Nap]
  BY DEF IInv, TypeOK
<1>3. /\ age' \in 0..Far /\ sinceLogin' \in 0..Far
      /\ age' <= sinceLogin' + (Cap + Nap - 1)
  BY DEF IInv, TypeOK, AgeIsNearTruth
<1>4. debounce' \in Initial..Cap
  BY DEF IInv, TypeOK, resetDebounceIfNeeded
<1>5. TypeOK'
  BY <1>1, <1>2, <1>3, <1>4 DEF IInv, TypeOK
<1>6. WaitsAreBounded'
  <2> SUFFICES ASSUME NEW d \in Callers
               PROVE IF pc'[d] = "waiting" THEN since'[d] + nap'[d] <= Cap + Nap - 1
                     ELSE since'[d] = 0
    BY DEF WaitsAreBounded
  <2>1. CASE d = c
    <3>1. since[c] = 0
      BY DEF IInv, WaitsAreBounded
    <3>2. pc'[c] = "waiting" => nap'[c] = Nap
      BY DEF IInv, TypeOK
    <3>3. Nap <= Cap + Nap - 1
      OBVIOUS
    <3>4. CASE pc'[c] = "waiting"
      BY <1>2, <2>1, <3>1, <3>2, <3>3, <3>4
    <3>5. CASE pc'[c] # "waiting"
      BY <1>2, <2>1, <3>1, <3>5
    <3> QED BY <3>4, <3>5
  <2>2. CASE d # c
    <3>1. pc'[d] = pc[d] /\ nap'[d] = nap[d] /\ since'[d] = since[d]
      BY <2>2 DEF IInv, TypeOK
    <3> QED BY <3>1 DEF IInv, WaitsAreBounded
  <2> QED BY <2>1, <2>2
<1> QED BY <1>3, <1>5, <1>6 DEF IInv, AgeIsNearTruth

LEMMA WakeIInv ==
    ASSUME IInv, NEW c \in Callers, Wake(c)
    PROVE  IInv'
<1> USE TimesAssumption, LoginsAssumption DEF Goto, Rest
<1>0. /\ TypeOK /\ WaitsAreBounded /\ AgeIsNearTruth
      /\ since[c] \in Nat /\ nap[c] = 0 /\ since[c] <= Cap + Nap - 1
      /\ pc[c] = "waiting"
  BY DEF IInv, TypeOK, WaitsAreBounded, Wake
<1>1. up' \in BOOLEAN /\ token' \in BOOLEAN
  BY <1>0 DEF Wake, TypeOK
<1>2. /\ pc' \in [Callers -> {"idle", "loading", "login", "saving", "waiting", "returned"}]
      /\ nap' \in [Callers -> 0..Nap]
      /\ since' \in [Callers -> 0..(Cap + Nap - 1)]
  BY <1>0 DEF Wake, TypeOK
<1>3. logins' \in 0..MaxLogins
  BY <1>0 DEF Wake, TypeOK
<1>4. debounce' \in Initial..Cap
  BY <1>0 DEF Wake, TypeOK, AtMost
<1>5. /\ age' \in 0..Far /\ sinceLogin' \in 0..Far
      /\ age' <= sinceLogin' + (Cap + Nap - 1)
  BY <1>0 DEF Wake, TypeOK, AgeIsNearTruth
<1>6. TypeOK'
  BY <1>1, <1>2, <1>3, <1>4, <1>5 DEF TypeOK
<1>7. WaitsAreBounded'
  <2> SUFFICES ASSUME NEW d \in Callers
               PROVE IF pc'[d] = "waiting" THEN since'[d] + nap'[d] <= Cap + Nap - 1
                     ELSE since'[d] = 0
    BY DEF WaitsAreBounded
  <2>1. CASE d = c
    <3>1. \/ pc'[c] = "returned" /\ since'[c] = 0
          \/ pc'[c] = "waiting" /\ since'[c] = since[c] /\ nap'[c] = Nap
             /\ since[c] < debounce
      BY <1>0 DEF Wake, TypeOK
    <3>2. debounce \in Nat /\ debounce <= Cap
      BY <1>0 DEF TypeOK
    <3> QED BY <1>0, <2>1, <3>1, <3>2
  <2>2. CASE d # c
    <3>1. pc'[d] = pc[d] /\ nap'[d] = nap[d] /\ since'[d] = since[d]
      BY <1>0, <2>2 DEF Wake, TypeOK
    <3> QED BY <1>0, <3>1 DEF WaitsAreBounded
  <2> QED BY <2>1, <2>2
<1> QED BY <1>5, <1>6, <1>7 DEF IInv, AgeIsNearTruth

LEMMA TickIInv ==
    ASSUME IInv, Tick
    PROVE  IInv'
<1> USE TimesAssumption DEF Tick, Waiting
<1>0. TypeOK /\ WaitsAreBounded /\ AgeIsNearTruth
  BY DEF IInv
<1>1. up' \in BOOLEAN /\ token' \in BOOLEAN
  BY <1>0 DEF TypeOK
<1>2. ASSUME NEW c \in Callers
      PROVE  /\ since'[c] \in 0..(Cap + Nap - 1) /\ nap'[c] \in 0..Nap
             /\ IF pc'[c] = "waiting" THEN since'[c] + nap'[c] <= Cap + Nap - 1
                ELSE since'[c] = 0
  <2>1. since[c] \in Nat /\ nap[c] \in 0..Nap /\ pc' = pc
    BY <1>0 DEF TypeOK
  <2>2. CASE pc[c] = "waiting"
    <3>1. nap[c] > 0 /\ since'[c] = since[c] + 1 /\ nap'[c] = nap[c] - 1
      BY <2>2
    <3>2. since[c] + nap[c] <= Cap + Nap - 1
      BY <1>0, <2>2 DEF WaitsAreBounded
    <3> QED BY <2>1, <2>2, <3>1, <3>2
  <2>3. CASE pc[c] # "waiting"
    <3>1. since'[c] = since[c] /\ nap'[c] = nap[c]
      BY <2>3
    <3> QED BY <1>0, <2>1, <2>3, <3>1 DEF WaitsAreBounded, TypeOK
  <2> QED BY <2>2, <2>3
<1>3. since' \in [Callers -> 0..(Cap + Nap - 1)] /\ nap' \in [Callers -> 0..Nap]
  BY <1>2
<1>4. /\ age' \in 0..Far /\ sinceLogin' \in 0..Far
      /\ age' <= sinceLogin' + (Cap + Nap - 1)
  BY <1>0 DEF TypeOK, AgeIsNearTruth, AtMost
<1>5. TypeOK'
  BY <1>0, <1>1, <1>3, <1>4 DEF TypeOK
<1> QED BY <1>2, <1>4, <1>5 DEF IInv, WaitsAreBounded, AgeIsNearTruth

\* The steps that only end a stray login or change the token.
LEMMA StrayIInv ==
    ASSUME IInv, StrayLoginSucceeds \/ StrayLoginFails \/ TokenCleared
    PROVE  IInv'
<1> USE LoginsAssumption DEF StrayLoginSucceeds, StrayLoginFails, TokenCleared
<1>1. up' \in BOOLEAN /\ token' \in BOOLEAN
  BY DEF IInv, TypeOK
<1>2. logins' \in 0..MaxLogins
  BY DEF IInv, TypeOK
<1>3. UNCHANGED <<age, debounce, sinceLogin, pc, since, nap>>
  OBVIOUS
<1> QED BY <1>1, <1>2, <1>3 DEF IInv, TypeOK, WaitsAreBounded, AgeIsNearTruth

LEMMA NextIInv == IInv /\ [Next]_vars => IInv'
<1> SUFFICES ASSUME IInv, [Next]_vars PROVE IInv'
  OBVIOUS
<1>1. ASSUME NEW c \in Callers, CallerStep(c) PROVE IInv'
  BY <1>1, QuietCallerStep, LoadFindsNothingIInv, WakeIInv DEF CallerStep
<1>2. CASE StrayLoginSucceeds \/ StrayLoginFails \/ TokenCleared
  BY <1>2, StrayIInv
<1>3. CASE Tick
  BY <1>3, TickIInv
<1>4. CASE UNCHANGED vars
  BY <1>4 DEF vars, IInv, TypeOK, WaitsAreBounded, AgeIsNearTruth
<1> QED BY <1>1, <1>2, <1>3, <1>4 DEF Next

LEMMA SpecIInv == Spec => []IInv
BY InitIInv, NextIInv, PTL DEF Spec

-----------------------------------------------------------------------------
\* The debounce stays between its first value and its ceiling, and every wait
\* ends within the ceiling and a nap, however many callers wait at once.
THEOREM DebounceBounded == Spec => []TypeOK
<1>1. IInv => TypeOK
  BY DEF IInv
<1> QED BY <1>1, SpecIInv, PTL

\* The back-off falls back to its first value only after a rest of twelve
\* hours, less one wait.
THEOREM BackOffSurvives == Spec => ResetOnlyAfterRest
<1>1. IInv /\ [Next]_vars
        => [debounce' < debounce => sinceLogin + (Cap + Nap - 1) > ResetAfter]_vars
  <2> SUFFICES ASSUME IInv, Next, debounce' < debounce
               PROVE  sinceLogin + (Cap + Nap - 1) > ResetAfter
    BY DEF vars
  <2> USE TimesAssumption
  <2>0. /\ debounce \in Nat /\ age \in Nat /\ sinceLogin \in Nat
        /\ debounce <= Cap
        /\ age <= sinceLogin + (Cap + Nap - 1)
    BY DEF IInv, TypeOK, AgeIsNearTruth
  <2>1. ASSUME NEW c \in Callers, CallerStep(c) PROVE age > ResetAfter
    <3>1. CASE LoadFindsNothing(c)
      BY <2>0, <3>1 DEF LoadFindsNothing, resetDebounceIfNeeded
    <3>2. CASE Wake(c)
      BY <2>0, <3>2 DEF Wake, AtMost
    <3>3. CASE Calls(c) \/ LoadFinds(c) \/ LoginAccepted(c) \/ LoginSaved(c) \/ LoginFails(c)
      <4>1. debounce' = debounce
        BY <3>3, Zenon DEF Calls, LoadFinds, LoginAccepted, LoginSaved, LoginFails
      <4> QED BY <2>0, <4>1
    <3> QED BY <2>1, <3>1, <3>2, <3>3 DEF CallerStep
  <2>2. ASSUME StrayLoginSucceeds \/ StrayLoginFails \/ TokenCleared \/ Tick
        PROVE  age > ResetAfter
    <3>1. debounce' = debounce
      BY <2>2, Zenon DEF StrayLoginSucceeds, StrayLoginFails, TokenCleared, Tick
    <3> QED BY <2>0, <3>1
  <2>3. age > ResetAfter
    BY <2>1, <2>2 DEF Next
  <2> QED BY <2>0, <2>3
<1> QED BY <1>1, SpecIInv, PTL DEF Spec, ResetOnlyAfterRest

\* A caller that begins a login has found no token, whoever obtained one meanwhile.
THEOREM TokenSparesLogin == Spec => NoLoginWithToken
<1>1. IInv /\ [Next]_vars => [sinceLogin' = 0 /\ sinceLogin # 0 => ~token]_vars
  <2> SUFFICES ASSUME IInv, Next, sinceLogin' = 0, sinceLogin # 0 PROVE ~token
    BY DEF vars
  <2>0. sinceLogin \in 0..Far /\ Far \in Nat \ {0}
    BY TimesAssumption DEF IInv, TypeOK
  <2>1. ASSUME NEW c \in Callers, CallerStep(c) PROVE ~token
    <3>1. CASE LoadFindsNothing(c)
      BY <2>0, <3>1, Zenon DEF LoadFindsNothing
    <3>2. CASE Wake(c)
      BY <2>0, <3>2, Zenon DEF Wake
    <3>3. CASE Calls(c) \/ LoadFinds(c) \/ LoginAccepted(c) \/ LoginSaved(c) \/ LoginFails(c)
      BY <2>0, <3>3, Zenon DEF Calls, LoadFinds, LoginAccepted, LoginSaved, LoginFails
    <3> QED BY <2>1, <3>1, <3>2, <3>3 DEF CallerStep
  <2>2. CASE StrayLoginSucceeds \/ StrayLoginFails \/ TokenCleared
    BY <2>2, Zenon DEF StrayLoginSucceeds, StrayLoginFails, TokenCleared
  <2>3. CASE Tick
    <3>1. sinceLogin' # 0
      BY <2>0, <2>3 DEF Tick, AtMost
    <3> QED BY <3>1
  <2> QED BY <2>1, <2>2, <2>3 DEF Next
<1> QED BY <1>1, SpecIInv, PTL DEF Spec, NoLoginWithToken

-----------------------------------------------------------------------------
(* The challenges of the Eufy cloud *)

\* What the server knows of its login.
ServerTyped ==
    /\ connected \in BOOLEAN /\ loginTimer \in BOOLEAN
    /\ status \in Statuses /\ message \in Messages[status]
    /\ captchaId \in 0..MaxCaptchas /\ captchaImage \in 0..MaxCaptchas
    /\ issued \in 0..MaxCaptchas

\* What the pages know, and what is on its way to them.
PagesTyped ==
    /\ due \in [Pages -> BOOLEAN]
    /\ replies \in [Pages -> SUBSET Reply]
    /\ shown \in [Pages -> [status: Statuses, captcha: 0..MaxCaptchas]]
    /\ sig \in [Pages -> (Statuses \X Texts) \cup {NoSig}]
    /\ post \in [Pages -> {"none", "sent", "checking", "replied"}]
    /\ seen \in [Pages -> 0..MaxCaptchas]
    /\ answered \in (0..MaxCaptchas) \X (0..MaxCaptchas)

\* The status says whether there is a connection: no submit, challenge or timeout
\* touches the status of one that is made.
StatusIsConnection == connected <=> status = "connected"

ServerInv == ServerTyped /\ StatusIsConnection /\ LatestCaptchaKept /\ AttemptIsTimed

\* Every status has its texts, and every text is that of some status.
LEMMA MessagesAreTexts ==
    /\ \A s \in Statuses : Messages[s] \subseteq Texts
    /\ "connecting" \in Messages["connecting"]
    /\ "checking captcha" \in Messages["connecting"]
    /\ "checking 2FA" \in Messages["connecting"]
    /\ "reconnecting" \in Messages["connecting"]
    /\ "enter captcha" \in Messages["captcha"]
    /\ "enter 2FA" \in Messages["tfa"]
    /\ "connected" \in Messages["connected"]
    /\ "no response" \in Messages["error"]
<1>1. \A s \in Statuses : Messages[s] \subseteq Texts
  BY Zenon DEF Texts
<1> QED BY <1>1 DEF Messages

LEMMA InitServerInv == AuthInit => ServerInv
<1> SUFFICES ASSUME AuthInit PROVE ServerInv
  OBVIOUS
<1>1. message \in Messages[status]
  BY MessagesAreTexts DEF AuthInit
<1>2. connected \in BOOLEAN /\ loginTimer \in BOOLEAN
  BY DEF AuthInit
<1>3. ServerTyped
  BY <1>1, <1>2, BoundsAssumption DEF AuthInit, ServerTyped, Statuses, None
<1> QED BY <1>3 DEF AuthInit, ServerInv, StatusIsConnection, LatestCaptchaKept, AttemptIsTimed

\* The events of the cloud, the failure timer, and an answer that is taken.
LEMMA ServerStepKeepsInv ==
    ASSUME ServerInv,
           \/ CaptchaRequest \/ TfaRequest \/ CloudConnects \/ CloudCloses \/ LoginTimesOut
           \/ \E p \in Pages : SubmitArrives(p)
    PROVE  ServerInv'
<1>0. ServerTyped /\ StatusIsConnection /\ LatestCaptchaKept /\ AttemptIsTimed
  BY DEF ServerInv
<1>1. CASE CaptchaRequest
  <2>1. connected' = connected /\ ~connected /\ loginTimer' = FALSE
    BY <1>1 DEF CaptchaRequest
  <2>2. /\ status' = "captcha" /\ message' = "enter captcha"
        /\ captchaId' = issued' /\ captchaImage' = issued'
    BY <1>1, Zenon DEF CaptchaRequest
  <2>3. issued' \in 0..MaxCaptchas
    <3>1. issued < MaxCaptchas /\ issued' = issued + 1
      BY <1>1, Zenon DEF CaptchaRequest
    <3>2. issued \in 0..MaxCaptchas /\ MaxCaptchas \in Nat
      BY <1>0, BoundsAssumption, Zenon DEF ServerTyped
    <3> QED BY <3>1, <3>2
  <2>4. connected' \in BOOLEAN /\ loginTimer' \in BOOLEAN
    BY <1>0, <2>1, Zenon DEF ServerTyped
  <2>5. ServerTyped'
    BY <2>2, <2>3, <2>4, MessagesAreTexts DEF ServerTyped, Statuses
  <2> QED BY <2>1, <2>2, <2>5
        DEF ServerInv, StatusIsConnection, LatestCaptchaKept, AttemptIsTimed
<1>2. CASE TfaRequest
  <2>1. /\ connected' = connected /\ ~connected /\ loginTimer' = FALSE
        /\ status' = "tfa" /\ message' = "enter 2FA"
        /\ UNCHANGED <<captchaId, captchaImage, issued>>
    BY <1>2 DEF TfaRequest
  <2>2. ServerTyped'
    BY <1>0, <2>1, MessagesAreTexts DEF ServerTyped, Statuses
  <2> QED BY <2>1, <2>2
        DEF ServerInv, StatusIsConnection, LatestCaptchaKept, AttemptIsTimed
<1>3. CASE CloudConnects
  <2>1. /\ connected' = TRUE /\ loginTimer' = FALSE
        /\ status' = "connected" /\ message' = "connected"
        /\ captchaImage' = None /\ UNCHANGED <<captchaId, issued>>
    BY <1>3 DEF CloudConnects
  <2>2. connected' \in BOOLEAN /\ loginTimer' \in BOOLEAN
    BY <2>1, Zenon
  <2>4. None \in 0..MaxCaptchas
    BY BoundsAssumption DEF None
  <2>5. captchaId' \in 0..MaxCaptchas /\ captchaImage' \in 0..MaxCaptchas
        /\ issued' \in 0..MaxCaptchas
    BY <1>0, <2>1, <2>4, Zenon DEF ServerTyped
  <2>6. status' \in Statuses /\ message' \in Messages[status']
    BY <2>1, MessagesAreTexts DEF Statuses
  <2>3. ServerTyped'
    BY <2>2, <2>5, <2>6, Zenon DEF ServerTyped
  <2> QED BY <2>1, <2>3
        DEF ServerInv, StatusIsConnection, LatestCaptchaKept, AttemptIsTimed
<1>4. CASE CloudCloses
  <2>1. /\ connected' = FALSE /\ UNCHANGED <<captchaId, captchaImage, loginTimer, issued>>
        /\ \/ status = "connected" /\ status' = "connecting" /\ message' = "reconnecting"
           \/ status # "connected" /\ UNCHANGED <<status, message>>
    BY <1>4 DEF CloudCloses
  <2>2. ServerTyped'
    BY <1>0, <2>1, MessagesAreTexts DEF ServerTyped, Statuses
  <2> QED BY <1>0, <2>1, <2>2
        DEF ServerInv, StatusIsConnection, LatestCaptchaKept, AttemptIsTimed
<1>5. CASE LoginTimesOut
  <2>1. /\ loginTimer' = FALSE /\ UNCHANGED <<connected, captchaId, captchaImage, issued>>
        /\ \/ status = "connecting" /\ ~connected /\ status' = "error" /\ message' = "no response"
           \/ (status # "connecting" \/ connected) /\ UNCHANGED <<status, message>>
    BY <1>5 DEF LoginTimesOut
  <2>2. ServerTyped'
    BY <1>0, <2>1, MessagesAreTexts DEF ServerTyped, Statuses
  <2> QED BY <1>0, <2>1, <2>2
        DEF ServerInv, StatusIsConnection, LatestCaptchaKept, AttemptIsTimed
<1>6. ASSUME NEW p \in Pages, SubmitArrives(p) PROVE ServerInv'
  <2>1. /\ status \in {"captcha", "tfa"} /\ loginTimer' = TRUE
        /\ UNCHANGED <<connected, captchaId, captchaImage, issued>>
        /\ status' = "connecting" /\ message' \in {"checking captcha", "checking 2FA"}
    BY <1>6 DEF SubmitArrives
  <2>2. ServerTyped'
    BY <1>0, <2>1, MessagesAreTexts DEF ServerTyped, Statuses
  <2> QED BY <1>0, <2>1, <2>2
        DEF ServerInv, StatusIsConnection, LatestCaptchaKept, AttemptIsTimed
<1> QED BY <1>1, <1>2, <1>3, <1>4, <1>5, <1>6

LEMMA NextServerInv == ServerInv /\ [AuthNext]_authVars => ServerInv'
<1> SUFFICES ASSUME ServerInv, [AuthNext]_authVars PROVE ServerInv'
  OBVIOUS
<1> DEFINE Kept == UNCHANGED <<connected, status, message, captchaId, captchaImage,
                               loginTimer, issued>>
<1>1. ASSUME NEW p \in Pages, PageStep(p) PROVE SubmitArrives(p) \/ Kept
  BY <1>1, Zenon DEF PageStep, PollAsks, PollAnswers, Reloads, Submits, SubmitRefused,
                     ConnectSettles, SubmitReturns, serverVars
<1>2. CASE UNCHANGED authVars
  <2>1. Kept
    BY <1>2, Zenon DEF authVars, serverVars
  <2> QED BY <2>1 DEF ServerInv, ServerTyped, StatusIsConnection, LatestCaptchaKept,
                      AttemptIsTimed
<1>3. ASSUME Kept PROVE ServerInv'
  BY <1>3 DEF ServerInv, ServerTyped, StatusIsConnection, LatestCaptchaKept, AttemptIsTimed
<1> QED BY <1>1, <1>2, <1>3, ServerStepKeepsInv DEF AuthNext

LEMMA SpecServerInv == AuthSpec => []ServerInv
BY InitServerInv, NextServerInv, PTL DEF AuthSpec

\* A pending captcha is the latest one the cloud issued, with its own image, after
\* any order of challenges, answers, timeouts, connects and drops.
THEOREM CaptchaIsLatest == AuthSpec => []LatestCaptchaKept
<1>1. ServerInv => LatestCaptchaKept
  BY DEF ServerInv
<1> QED BY <1>1, SpecServerInv, PTL

\* No login attempt goes untimed.
THEOREM AttemptsAreTimed == AuthSpec => []AttemptIsTimed
<1>1. ServerInv => AttemptIsTimed
  BY DEF ServerInv
<1> QED BY <1>1, SpecServerInv, PTL

LEMMA InitPagesTyped == AuthInit => PagesTyped
<1> SUFFICES ASSUME AuthInit PROVE PagesTyped
  OBVIOUS
<1>1. None \in 0..MaxCaptchas
  BY BoundsAssumption DEF None
<1>2. Nothing \in [status: Statuses, captcha: 0..MaxCaptchas]
  BY <1>1 DEF Nothing, Statuses
<1>3. due \in [Pages -> BOOLEAN]
  BY Zenon DEF AuthInit
<1> QED BY <1>1, <1>2, <1>3 DEF AuthInit, PagesTyped

\* The answer to a poll carries the state of the server.
LEMMA PollAsksTyped ==
    ASSUME ServerTyped, PagesTyped, NEW p \in Pages, PollAsks(p)
    PROVE  PagesTyped'
<1> DEFINE r == [status |-> status, message |-> message, connected |-> connected,
                 captcha |-> IF status = "captcha" THEN captchaImage ELSE None]
<1>1. status \in Statuses /\ message \in Texts /\ connected \in BOOLEAN
  BY MessagesAreTexts, Zenon DEF ServerTyped
<1>2. (IF status = "captcha" THEN captchaImage ELSE None) \in 0..MaxCaptchas
  <2>1. captchaImage \in 0..MaxCaptchas
    BY Zenon DEF ServerTyped
  <2>2. None \in 0..MaxCaptchas
    BY BoundsAssumption DEF None
  <2> QED BY <2>1, <2>2
<1>3. r \in Reply
  BY <1>1, <1>2, Zenon DEF Reply
<1>4. replies' = [replies EXCEPT ![p] = @ \cup {r}]
  BY Zenon DEF PollAsks
<1>5. due' = [due EXCEPT ![p] = FALSE] /\ UNCHANGED <<shown, sig, post, seen, answered>>
  BY Zenon DEF PollAsks
<1> HIDE DEF r
<1>6. replies' \in [Pages -> SUBSET Reply]
  BY <1>3, <1>4 DEF PagesTyped
<1>7. due' \in [Pages -> BOOLEAN]
  BY <1>5, Zenon DEF PagesTyped
<1> QED BY <1>5, <1>6, <1>7, Zenon DEF PagesTyped

\* What a page renders comes from an answer to its poll.
LEMMA PollAnswersTyped ==
    ASSUME PagesTyped, NEW p \in Pages, NEW r \in replies[p], PollAnswers(p, r)
    PROVE  PagesTyped'
<1>0. r \in Reply
  BY DEF PagesTyped
<1>1. /\ <<r.status, r.message>> \in Statuses \X Texts
      /\ [status |-> r.status, captcha |-> r.captcha]
            \in [status: Statuses, captcha: 0..MaxCaptchas]
  BY <1>0 DEF Reply
<1>2. Nothing \in [status: Statuses, captcha: 0..MaxCaptchas]
  <2>1. None \in 0..MaxCaptchas
    BY BoundsAssumption DEF None
  <2> QED BY <2>1 DEF Nothing, Statuses
<1>3. /\ replies' = [replies EXCEPT ![p] = @ \ {r}]
      /\ UNCHANGED <<post, seen, answered>>
  BY Zenon DEF PollAnswers
<1>4. replies' \in [Pages -> SUBSET Reply]
  BY <1>3 DEF PagesTyped
<1>5. /\ due' \in [Pages -> BOOLEAN]
      /\ shown' \in [Pages -> [status: Statuses, captcha: 0..MaxCaptchas]]
      /\ sig' \in [Pages -> (Statuses \X Texts) \cup {NoSig}]
  <2>1. CASE /\ shown' = [shown EXCEPT ![p] = Nothing]
             /\ sig' = [sig EXCEPT ![p] = NoSig]
             /\ UNCHANGED due
    BY <1>2, <2>1, Zenon DEF PagesTyped
  <2>2. CASE Render(p, r) /\ due' = [due EXCEPT ![p] = TRUE]
    <3>1. due' \in [Pages -> BOOLEAN]
      BY <2>2, Zenon DEF PagesTyped
    <3>2. CASE Renders(p, r)
      <4>1. shown' = [shown EXCEPT ![p] = [status |-> r.status, captcha |-> r.captcha]]
        BY <2>2, <3>2, Zenon DEF Render
      <4>2. sig' = [sig EXCEPT ![p] =
                IF p \in Dashboard THEN <<r.status, r.message>> ELSE NoSig]
        BY <2>2, <3>2, Zenon DEF Render
      <4>3. shown' \in [Pages -> [status: Statuses, captcha: 0..MaxCaptchas]]
        BY <1>1, <4>1, Zenon DEF PagesTyped
      <4>4. sig' \in [Pages -> (Statuses \X Texts) \cup {NoSig}]
        BY <1>1, <4>2 DEF PagesTyped
      <4> QED BY <3>1, <4>3, <4>4
    <3>3. CASE ~Renders(p, r)
      BY <2>2, <3>1, <3>3, Zenon DEF Render, PagesTyped
    <3> QED BY <3>2, <3>3
  <2> QED BY <2>1, <2>2, Zenon DEF PollAnswers
<1> QED BY <1>3, <1>4, <1>5, Zenon DEF PagesTyped

\* A reload, and a submit from the page to its answer.
LEMMA PageStepTyped ==
    ASSUME ServerTyped, PagesTyped, NEW p \in Pages, PageStep(p)
    PROVE  PagesTyped'
<1>0. Nothing \in [status: Statuses, captcha: 0..MaxCaptchas]
  <2>1. None \in 0..MaxCaptchas
    BY BoundsAssumption DEF None
  <2> QED BY <2>1 DEF Nothing, Statuses
<1>1. CASE Reloads(p)
  <2>1. due' \in [Pages -> BOOLEAN]
    BY <1>1, Zenon DEF Reloads, PagesTyped
  <2>2. replies' \in [Pages -> SUBSET Reply]
    BY <1>1 DEF Reloads, PagesTyped
  <2> QED BY <1>0, <1>1, <2>1, <2>2, Zenon DEF Reloads, PagesTyped
<1>2. CASE Submits(p)
  <2>1. post' = [post EXCEPT ![p] = "sent"] /\ seen' = [seen EXCEPT ![p] = shown[p].captcha]
        /\ UNCHANGED <<due, replies, shown, sig, answered>>
    BY <1>2, Zenon DEF Submits
  <2>2. post' \in [Pages -> {"none", "sent", "checking", "replied"}]
        /\ seen' \in [Pages -> 0..MaxCaptchas]
    BY <2>1 DEF PagesTyped
  <2> QED BY <2>1, <2>2, Zenon DEF PagesTyped
<1>3. CASE SubmitArrives(p)
  <2>1. post' = [post EXCEPT ![p] = "checking"]
        /\ UNCHANGED <<due, replies, shown, sig, seen>>
    BY <1>3, Zenon DEF SubmitArrives
  <2>2. post' \in [Pages -> {"none", "sent", "checking", "replied"}]
    BY <2>1 DEF PagesTyped
  <2>3. answered' \in (0..MaxCaptchas) \X (0..MaxCaptchas)
    <3>1. answered' = answered \/ answered' = <<captchaId, seen[p]>>
      BY <1>3, Zenon DEF SubmitArrives
    <3>2. captchaId \in 0..MaxCaptchas
      BY Zenon DEF ServerTyped
    <3> QED BY <3>1, <3>2 DEF PagesTyped
  <2> QED BY <2>1, <2>2, <2>3, Zenon DEF PagesTyped
<1>4. CASE SubmitRefused(p) \/ ConnectSettles(p)
  <2>1. post' = [post EXCEPT ![p] = "replied"]
        /\ UNCHANGED <<due, replies, shown, sig, seen, answered>>
    BY <1>4, Zenon DEF SubmitRefused, ConnectSettles
  <2>2. post' \in [Pages -> {"none", "sent", "checking", "replied"}]
    BY <2>1 DEF PagesTyped
  <2> QED BY <2>1, <2>2, Zenon DEF PagesTyped
<1>5. CASE SubmitReturns(p)
  <2>1. post' = [post EXCEPT ![p] = "none"]
    BY <1>5, Zenon DEF SubmitReturns
  <2>2. post' \in [Pages -> {"none", "sent", "checking", "replied"}]
    BY <2>1 DEF PagesTyped
  <2> QED BY <1>5, <2>2, Zenon DEF SubmitReturns, PagesTyped
<1> QED BY <1>1, <1>2, <1>3, <1>4, <1>5, PollAsksTyped, PollAnswersTyped DEF PageStep

LEMMA SpecPagesTyped == AuthSpec => []PagesTyped
<1>1. ServerInv /\ PagesTyped /\ [AuthNext]_authVars => PagesTyped'
  <2> SUFFICES ASSUME ServerTyped, PagesTyped, [AuthNext]_authVars PROVE PagesTyped'
    BY DEF ServerInv
  <2>1. CASE UNCHANGED <<pageVars, answered>>
    BY <2>1, Zenon DEF pageVars, PagesTyped
  <2>2. CaptchaRequest \/ TfaRequest \/ CloudConnects \/ CloudCloses \/ LoginTimesOut
            \/ UNCHANGED authVars
        => UNCHANGED <<pageVars, answered>>
    BY Zenon DEF CaptchaRequest, TfaRequest, CloudConnects, CloudCloses, LoginTimesOut,
                 authVars
  <2> QED BY <2>1, <2>2, PageStepTyped DEF AuthNext
<1> QED BY <1>1, InitPagesTyped, SpecServerInv, PTL DEF AuthSpec

\* Every status has a text of its own, and every page shows what some answer said.
THEOREM LoginTypes == AuthSpec => []AuthTypeOK
<1>1. ServerInv /\ PagesTyped => AuthTypeOK
  BY Zenon DEF ServerInv, ServerTyped, PagesTyped, AuthTypeOK
<1> QED BY <1>1, SpecServerInv, SpecPagesTyped, PTL
=============================================================================
