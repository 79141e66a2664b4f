----------------------------- MODULE LifecycleShell ----------------------------
(***************************************************************************)
(* What every runtime shell of @fluojs/runtime promises about its public   *)
(* state and its shutdown gate, whatever it has to start and tear down.    *)
(* FluoApplication and FluoMicroserviceApplication implement it.           *)
(***************************************************************************)

CONSTANT Retryable  \* whether close() after a failed close() tries again

VARIABLES
    state,  \* the public ApplicationState
    gate    \* open, closing, failed (shutdown began, nothing runs) or closed

vars == <<state, gate>>

Init == state = "bootstrapped" /\ gate = "open"

\* A startup completes; only while no shutdown has begun.
BecomeReady ==
    /\ gate = "open" /\ state = "bootstrapped"
    /\ state' = "ready"
    /\ UNCHANGED gate

\* close() begins an attempt.  It shuts the gate and leaves the state alone.
BeginClose ==
    /\ gate = "open" \/ (Retryable /\ gate = "failed")
    /\ gate' = "closing"
    /\ UNCHANGED state

CloseFails ==
    /\ gate = "closing"
    /\ gate' = "failed"
    /\ UNCHANGED state

CloseSucceeds ==
    /\ gate = "closing"
    /\ gate' = "closed"
    /\ state' = "closed"

Next == BecomeReady \/ BeginClose \/ CloseFails \/ CloseSucceeds

Spec == Init /\ [][Next]_vars

=============================================================================
