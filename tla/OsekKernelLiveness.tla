------------------------- MODULE OsekKernelLiveness -------------------------
(***************************************************************************)
(* What the kernel must eventually do: every task that is activated is     *)
(* served, however handlers, preemptions and the tasks of its own priority *)
(* interleave.                                                             *)
(***************************************************************************)
EXTENDS OsekKernelProperties

(* What the core executes when no handler is at work.                      *)
Core == \/ Startup \/ Context(NULL)
        \/ \E p \in Prios : Thread(p)
        \/ contextSwitchISR

(* The body of the task of context p ends.                                 *)
BodyEnds(p) == /\ pc[p] = "task"
               /\ CallTerminate(p) \/ CallChain(p) \/ CallShutdown(p)

(* The core keeps executing between handlers, and a task body, which ends  *)
(* in TerminateTask or ChainTask (README.md:39), does not put it off       *)
(* forever.  Nothing is assumed of handlers: they may never come, or come  *)
(* at any point as often as they like, short of starving the core.         *)
Fairness == WF_vars(Core) /\ \A p \in Prios : SF_vars(BodyEnds(p))

FairSpec == Spec /\ Fairness

(* The priorities above p have nothing to do.                              *)
QuietAbove(p) == \A q \in Prios : q > p => TopFromQueue(queues[q]) = NULL

(* The kernel is past what it can serve; interrupts that a context keeps   *)
(* masked from afar are masked for as long as the others chain on.         *)
GivenUp == \/ Exhausted \/ mode = "fault" \/ Exported
           \/ \E p \in Prios : pc[p] = "shutdown"

(* Every activation is served: a task that is queued, at whatever place,   *)
(* is eventually called by its dispatcher (osek.c:103-107), unless the     *)
(* higher priorities are busy for ever or the kernel is past what it can   *)
(* serve.  No interleaving of Schedule(), handlers and switches drops it   *)
(* or stops the core in a context that will not give way.                  *)
ActivationsServed ==
  \A t \in Tasks :
    <>[]QuietAbove(TaskPrio[t]) =>
      ((NumQueued(t) > 0)
         ~> (GivenUp \/ (Serving(TaskPrio[t]) /\ run[TaskPrio[t]] = t)))
=============================================================================
