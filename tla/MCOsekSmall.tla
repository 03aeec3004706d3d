---------------------------- MODULE MCOsekSmall ----------------------------
(* Two priorities, idle below low and mate, which share a queue that the   *)
(* configuration makes too small for them: activations are refused.  The   *)
(* upper priority is a constant, to leave a priority between NOT_USED.     *)
EXTENDS OsekKernelLiveness, TLC

CONSTANTS low, mate, top

MCPrios == {0, top}
MCQSize == 0 :> 1 @@ top :> 1
MCTaskPrio == idle :> 0 @@ low :> top @@ mate :> top
MCMayActivate == idle :> {low} @@ low :> {mate} @@ mate :> {}
MCMayChain == idle :> {idle} @@ low :> {low, mate} @@ mate :> {}
MCMayTerminate == Tasks \ {idle}
=============================================================================
