---------------------------- MODULE ControlPlane ----------------------------
(***************************************************************************)
(* What the models of requests to the control plane share: replicas behind *)
(* one address, the requests that reach any of them, and calls that fail   *)
(* or whose answer is lost, a bounded number of times.                     *)
(***************************************************************************)
EXTENDS Naturals

CONSTANTS
    Replicas,  \* control-plane replicas
    Requests,  \* requests that may be sent
    MaxFaults  \* bound on lost answers, failed calls, crashes and restarts

VARIABLE faults

Fault == faults < MaxFaults /\ faults' = faults + 1
NoFault == UNCHANGED faults
=============================================================================
