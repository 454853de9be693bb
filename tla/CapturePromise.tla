--------------------------- MODULE CapturePromise ---------------------------
(***************************************************************************)
(* What captureStreamFrame (src/cameraStreamCapture.js) promises its       *)
(* callers: each call is settled once, with a frame or an error, and stays *)
(* so, unless the process ends first.                                      *)
(***************************************************************************)
CONSTANTS Calls

VARIABLES
    promise,  \* promise[c]: the promise that call c has returned
    alive     \* the process runs

vars == <<promise, alive>>

Settled == {"frame", "error"}

Init ==
    /\ promise = [c \in Calls |-> "uncalled"]
    /\ alive = TRUE

Call(c) ==
    /\ alive
    /\ promise[c] = "uncalled"
    /\ promise' = [promise EXCEPT ![c] = "pending"]
    /\ UNCHANGED alive

Settle(c) ==
    /\ alive
    /\ promise[c] = "pending"
    /\ \E result \in Settled : promise' = [promise EXCEPT ![c] = result]
    /\ UNCHANGED alive

\* The process ends; a call may have been settled by what ends it.
Die ==
    /\ alive
    /\ alive' = FALSE
    /\ \/ UNCHANGED promise
       \/ \E c \in Calls : /\ promise[c] = "pending"
                           /\ promise' = [promise EXCEPT ![c] = "error"]

Next == Die \/ \E c \in Calls : Call(c) \/ Settle(c)

Spec == Init /\ [][Next]_vars

FairSpec == Spec /\ \A c \in Calls : WF_vars(Settle(c))
=============================================================================
