------------------------------ MODULE EufyAuth ------------------------------
(***************************************************************************)
(* Login to the Eufy cloud: the challenge eufy/server.js keeps, and the    *)
(* pages that poll it, show it and post the user's answer.  Two kinds of   *)
(* page do so: eufy/public/viewer.html renders every answer to its poll,   *)
(* the banner of cam-frontend/public/viewer.html (a page in Dashboard)     *)
(* only one whose status or message differs from the last.                 *)
(***************************************************************************)
EXTENDS Naturals, FiniteSets

CONSTANTS
    Pages,        \* open browser pages
    Dashboard,    \* those of them that are the dashboard
    MaxCaptchas,  \* bound: captchas the cloud issues
    MaxPolls,     \* bound: status requests of one page in flight
    CloudDrops    \* may the cloud close an established connection?

ASSUME PagesAssumption == Dashboard \subseteq Pages
ASSUME BoundsAssumption == MaxCaptchas \in Nat /\ MaxPolls \in Nat
ASSUME DropsAssumption == CloudDrops \in BOOLEAN

Captchas == 1..MaxCaptchas
None == 0
Statuses == {"connecting", "captcha", "tfa", "connected", "error"}
\* auth.message: the texts that go with each status, by name.  With the status
\* the text makes the banner's signature.
Messages == [connecting |-> {"connecting", "checking captcha", "checking 2FA",
                             "reconnecting"},
             captcha |-> {"enter captcha"}, tfa |-> {"enter 2FA"},
             connected |-> {"connected"}, error |-> {"no response"}]
Texts == UNION {Messages[s] : s \in Statuses}

VARIABLES
    connected,     \* maintained by the cloud's "connect" and "close"
    status,        \* auth.status
    message,       \* auth.message
    captchaId,     \* auth.captchaId
    captchaImage,  \* auth.captchaImage, by the captcha it depicts
    loginTimer,    \* the loginFailTimer is armed
    issued,        \* captchas the cloud has issued
    due,           \* due[p]: the page's next poll is scheduled
    replies,       \* replies[p]: status answers on their way to the page
    shown,         \* shown[p]: the status rendered and the captcha in its image
    sig,           \* sig[p]: the banner's signature
    post,          \* post[p]: where the page's submit stands
    seen,          \* seen[p]: the captcha the submitted code was read from
    answered       \* the captcha id and the image of the last captcha answer

serverVars == <<connected, status, message, captchaId, captchaImage, loginTimer>>
pageVars == <<due, replies, shown, sig, post, seen>>
authVars == <<serverVars, issued, pageVars, answered>>

Reply == [status: Statuses, message: Texts, connected: BOOLEAN,
          captcha: 0..MaxCaptchas]
Nothing == [status |-> "connecting", captcha |-> None]
NoSig == <<"", "">>

AuthTypeOK ==
    /\ connected \in BOOLEAN
    /\ status \in Statuses
    /\ message \in Messages[status]
    /\ captchaId \in 0..MaxCaptchas
    /\ captchaImage \in 0..MaxCaptchas
    /\ loginTimer \in BOOLEAN
    /\ issued \in 0..MaxCaptchas
    /\ due \in [Pages -> BOOLEAN]
    /\ replies \in [Pages -> SUBSET Reply]
    /\ shown \in [Pages -> [status: Statuses, captcha: 0..MaxCaptchas]]
    /\ sig \in [Pages -> (Statuses \X Texts) \cup {NoSig}]
    /\ post \in [Pages -> {"none", "sent", "checking", "replied"}]
    /\ seen \in [Pages -> 0..MaxCaptchas]
    /\ answered \in (0..MaxCaptchas) \X (0..MaxCaptchas)

\* The server has just armed the timer and called connect() for the first time.
AuthInit ==
    /\ connected = FALSE
    /\ status = "connecting"
    /\ message = "connecting"
    /\ captchaId = None /\ captchaImage = None
    /\ loginTimer = TRUE
    /\ issued = 0
    /\ due = [p \in Pages |-> TRUE]
    /\ replies = [p \in Pages |-> {}]
    /\ shown = [p \in Pages |-> Nothing]
    /\ sig = [p \in Pages |-> NoSig]
    /\ post = [p \in Pages |-> "none"]
    /\ seen = [p \in Pages |-> None]
    /\ answered = <<None, None>>

-----------------------------------------------------------------------------
(* Events of the cloud.  Only a connection not yet made is challenged. *)

CaptchaRequest_OldId ==             \* mutant: the new image without its id
    /\ ~connected
    /\ issued < MaxCaptchas
    /\ issued' = issued + 1
    /\ loginTimer' = FALSE
    /\ status' = "captcha"
    /\ message' = "enter captcha"
    /\ captchaImage' = issued'
    /\ UNCHANGED <<connected, captchaId, pageVars, answered>>

CaptchaRequest ==
    /\ ~connected
    /\ issued < MaxCaptchas
    /\ issued' = issued + 1
    /\ loginTimer' = FALSE
    /\ status' = "captcha"
    /\ message' = "enter captcha"
    /\ captchaId' = issued'
    /\ captchaImage' = issued'
    /\ UNCHANGED <<connected, pageVars, answered>>

TfaRequest ==
    /\ ~connected
    /\ loginTimer' = FALSE
    /\ status' = "tfa"
    /\ message' = "enter 2FA"
    /\ UNCHANGED <<connected, captchaId, captchaImage, issued, pageVars, answered>>

CloudConnects ==
    /\ connected' = TRUE
    /\ loginTimer' = FALSE
    /\ status' = "connected"
    /\ message' = "connected"
    /\ captchaImage' = None
    /\ UNCHANGED <<captchaId, issued, pageVars, answered>>

CloudCloses ==
    /\ CloudDrops
    /\ connected' = FALSE
    /\ IF status = "connected"
       THEN status' = "connecting" /\ message' = "reconnecting"
       ELSE UNCHANGED <<status, message>>
    /\ UNCHANGED <<captchaId, captchaImage, loginTimer, issued, pageVars, answered>>

\* The 5 s of armLoginFailTimer are over.
LoginTimesOut ==
    /\ loginTimer
    /\ loginTimer' = FALSE
    /\ IF ~connected /\ status = "connecting"
       THEN status' = "error" /\ message' = "no response"
       ELSE UNCHANGED <<status, message>>
    /\ UNCHANGED <<connected, captchaId, captchaImage, issued, pageVars, answered>>

-----------------------------------------------------------------------------
(* Polls of a page *)

\* GET /api/auth/status, answered at once.
PollAsks(p) ==
    /\ due[p]
    /\ Cardinality(replies[p]) < MaxPolls
    /\ due' = [due EXCEPT ![p] = FALSE]
    /\ replies' = [replies EXCEPT ![p] = @ \cup
          {[status |-> status, message |-> message, connected |-> connected,
            captcha |-> IF status = "captcha" THEN captchaImage ELSE None]}]
    /\ UNCHANGED <<serverVars, issued, shown, sig, post, seen, answered>>

\* The dashboard's banner keeps what it shows unless the signature changed.
Renders_NewStatus(p, r) ==          \* mutant: any page keeps what it shows
    shown[p].status # r.status      \* unless the status changed

Renders(p, r) == p \notin Dashboard \/ sig[p] # <<r.status, r.message>>

\* renderAuth / renderEufyBanner
Render(p, r) ==
    IF Renders(p, r)
    THEN /\ shown' = [shown EXCEPT ![p] = [status |-> r.status, captcha |-> r.captcha]]
         /\ sig' = [sig EXCEPT ![p] =
                IF p \in Dashboard THEN <<r.status, r.message>> ELSE NoSig]
    ELSE UNCHANGED <<shown, sig>>

\* A status answer reaches the page: it stops polling once connected, renders
\* and polls again otherwise.
PollAnswers(p, r) ==
    /\ r \in replies[p]
    /\ replies' = [replies EXCEPT ![p] = @ \ {r}]
    /\ \/ /\ r.connected \/ r.status = "connected"
          /\ shown' = [shown EXCEPT ![p] = Nothing]
          /\ sig' = [sig EXCEPT ![p] = NoSig]
          /\ UNCHANGED due
       \/ /\ ~(r.connected \/ r.status = "connected")
          /\ Render(p, r)
          /\ due' = [due EXCEPT ![p] = TRUE]
    /\ UNCHANGED <<serverVars, issued, post, seen, answered>>

\* The user reloads a page that reports an error or has stopped polling; what
\* the old page had in flight is lost to it.
Reloads(p) ==
    /\ shown[p].status = "error" \/ (~due[p] /\ replies[p] = {})
    /\ post[p] = "none"
    /\ due' = [due EXCEPT ![p] = TRUE]
    /\ replies' = [replies EXCEPT ![p] = {}]
    /\ shown' = [shown EXCEPT ![p] = Nothing]
    /\ sig' = [sig EXCEPT ![p] = NoSig]
    /\ UNCHANGED <<serverVars, issued, post, seen, answered>>

-----------------------------------------------------------------------------
(* Answers of the user *)

\* The user submits a code read from what the page shows.
Submits(p) ==
    /\ shown[p].status \in {"captcha", "tfa"}
    /\ post[p] = "none"
    /\ post' = [post EXCEPT ![p] = "sent"]
    /\ seen' = [seen EXCEPT ![p] = shown[p].captcha]
    /\ UNCHANGED <<serverVars, issued, due, replies, shown, sig, answered>>

\* submitAuthCode: the pending challenge is taken, the timer armed, connect()
\* awaited; without a pending challenge the answer is an error.
SubmitArrives_NoTimer(p) ==         \* mutant: the timer is not armed
    /\ post[p] = "sent"
    /\ \/ /\ status = "captcha"
          /\ answered' = <<captchaId, seen[p]>>
          /\ message' = "checking captcha"
       \/ /\ status = "tfa"
          /\ message' = "checking 2FA"
          /\ UNCHANGED answered
    /\ status' = "connecting"
    /\ post' = [post EXCEPT ![p] = "checking"]
    /\ UNCHANGED <<connected, captchaId, captchaImage, loginTimer, issued, due,
                   replies, shown, sig, seen>>

SubmitArrives(p) ==
    /\ post[p] = "sent"
    /\ \/ /\ status = "captcha"
          /\ answered' = <<captchaId, seen[p]>>
          /\ message' = "checking captcha"
       \/ /\ status = "tfa"
          /\ message' = "checking 2FA"
          /\ UNCHANGED answered
    /\ status' = "connecting"
    /\ loginTimer' = TRUE
    /\ post' = [post EXCEPT ![p] = "checking"]
    /\ UNCHANGED <<connected, captchaId, captchaImage, issued, due, replies,
                   shown, sig, seen>>

SubmitRefused(p) ==
    /\ post[p] = "sent"
    /\ status \notin {"captcha", "tfa"}
    /\ post' = [post EXCEPT ![p] = "replied"]
    /\ UNCHANGED <<serverVars, issued, due, replies, shown, sig, seen, answered>>

\* connect() resolves (and 600 ms pass) or rejects: the status is left to the
\* events and to the timer either way.
ConnectSettles(p) ==
    /\ post[p] = "checking"
    /\ post' = [post EXCEPT ![p] = "replied"]
    /\ UNCHANGED <<serverVars, issued, due, replies, shown, sig, seen, answered>>

\* The page gets its answer and polls at once, forcing the banner to re-render.
SubmitReturns(p) ==
    /\ post[p] = "replied"
    /\ post' = [post EXCEPT ![p] = "none"]
    /\ sig' = [sig EXCEPT ![p] = NoSig]
    /\ due' = [due EXCEPT ![p] = TRUE]
    /\ UNCHANGED <<serverVars, issued, replies, shown, seen, answered>>

PageStep(p) ==
    \/ PollAsks(p)
    \/ \E r \in replies[p] : PollAnswers(p, r)
    \/ Reloads(p) \/ Submits(p) \/ SubmitArrives(p) \/ SubmitRefused(p)
    \/ ConnectSettles(p) \/ SubmitReturns(p)

AuthNext ==
    \/ CaptchaRequest \/ TfaRequest \/ CloudConnects \/ CloudCloses \/ LoginTimesOut
    \/ \E p \in Pages : PageStep(p)

AuthSpec == AuthInit /\ [][AuthNext]_authVars

\* Timers fire, requests are answered; cloud and users promise nothing.
AuthFairness ==
    /\ WF_authVars(LoginTimesOut)
    /\ \A p \in Pages :
          /\ WF_authVars(PollAsks(p))
          /\ WF_authVars(\E r \in replies[p] : PollAnswers(p, r))
          /\ WF_authVars(SubmitArrives(p) \/ SubmitRefused(p))
          /\ WF_authVars(ConnectSettles(p))
          /\ WF_authVars(SubmitReturns(p))

AuthFairSpec == AuthSpec /\ AuthFairness

-----------------------------------------------------------------------------
(* Properties *)

\* A pending captcha is the last one issued, and its image belongs to its id:
\* an answer read from the image the server hands out is checked against it.
LatestCaptchaKept ==
    status = "captcha" => captchaId = issued /\ captchaImage = captchaId

\* A page is told "connecting" only while the failure timer runs, or after a drop,
\* when the library reconnects by itself: no order of challenges, answers, drops and
\* connects leaves an attempt untimed.
AttemptIsTimed == status = "connecting" => loginTimer \/ message = "reconnecting"

\* A login attempt does not spin for ever: it ends in a connection, a
\* challenge or an error, if it is not cut short by a dropped connection.
NoEndlessSpin ==
    status = "connecting" ~> status # "connecting" \/ message = "reconnecting"

\* A page that polls comes to show the captcha that is pending.
PageShowsCaptcha ==
    \A p \in Pages : \A n \in Captchas :
        status = "captcha" /\ captchaId = n /\ due[p]
            ~> \/ shown[p] = [status |-> "captcha", captcha |-> n]
               \/ status # "captcha" \/ captchaId # n
               \/ ~due[p] /\ replies[p] = {}

\* The id an answer is checked against is that of the image it was read from.
AnswerMatchesImage == answered[2] # None => answered[1] = answered[2]

\* Reloading the page after a failed login leads to another attempt.
ReloadRetries ==
    \A p \in Pages : status = "error" /\ due[p] /\ shown[p] = Nothing ~> status # "error"
=============================================================================
