-------------------------- MODULE MCCriticalSection --------------------------
(* Three levels of one core: the dispatcher of queue 1, a dispatcher of    *)
(* queue 2 above it, and a handler that activates tasks of both.           *)
EXTENDS CriticalSection, TLC

CONSTANTS low, high

MCLevels == 1 .. 3
MCPrios == 1 .. 2
MCQSize == 1 :> 2 @@ 2 :> 1
MCTaskPrio == low :> 1 @@ high :> 2
MCActivates == 1 :> {low, high} @@ 2 :> {low} @@ 3 :> {low, high}
MCServes == 1 :> 1 @@ 2 :> 2 @@ 3 :> NULL
=============================================================================
