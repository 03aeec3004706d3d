---------------------------- MODULE MCOsekKernel ----------------------------
(* Three priorities: idle below low and mate, which share a queue of two,  *)
(* below high.  Tasks activate tasks of their own and of other priorities, *)
(* chain up and to themselves.                                             *)
EXTENDS OsekKernelLiveness, TLC

CONSTANTS low, mate, high

MCPrios == 0 .. 2
MCQSize == 0 :> 1 @@ 1 :> 2 @@ 2 :> 1
MCTaskPrio == idle :> 0 @@ low :> 1 @@ mate :> 1 @@ high :> 2
MCMayActivate == idle :> {low, high} @@ low :> {mate} @@ mate :> {} @@ high :> {}
MCIdleActivates == idle :> {mate, high} @@ low :> {} @@ mate :> {} @@ high :> {}
MCMayChain == idle :> {idle} @@ low :> {} @@ mate :> {high} @@ high :> {}
MCMayTerminate == Tasks \ {idle}
=============================================================================
