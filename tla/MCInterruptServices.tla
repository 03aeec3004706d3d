------------------------ MODULE MCInterruptServices ------------------------
(* A task, a handler of category 2 and one of category 1 above it.         *)
EXTENDS InterruptServices, TLC

MCHandlers == {1, 2}
MCCategory == 1 :> 2 @@ 2 :> 1
=============================================================================
