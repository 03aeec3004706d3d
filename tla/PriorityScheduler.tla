------------------------ MODULE PriorityScheduler ------------------------
(***************************************************************************)
(* What the lwosek kernel promises its tasks, without stacks, interrupts   *)
(* or the scheduler's variables.  Each priority has a bounded FIFO of      *)
(* activations and serves its head; an activation leaves when it is done.  *)
(* A priority starts a task only when no higher one has work, or all that  *)
(* has is late.                                                            *)
(*                                                                         *)
(* A priority serves one busy period: it may retire once it serves         *)
(* nothing, and does not come back.  Retiring is not synchronised with     *)
(* activation, so it can leave work behind; from then on (Stranded) the    *)
(* order of priorities is no longer kept.                                  *)
(*                                                                         *)
(* An activation by a task is two things, the task is queued and the       *)
(* processor is asked for.  A priority is late while a lower one, not yet  *)
(* retired, that has queued work for it is kept from asking, or keeps the  *)
(* processor from being given.                                             *)
(***************************************************************************)
EXTENDS Naturals, Sequences

CONSTANTS Prios, QSize, Tasks, TaskPrio, NULL

VARIABLES pending,   \* per priority: the accepted activations
          serving,   \* per priority: the task being served, or NULL
          retired,   \* the priorities that serve no more
          late       \* the priorities the processor is not yet asked for

vars == <<pending, serving, retired, late>>

Init == /\ pending = [p \in Prios |-> <<>>]
        /\ serving = [p \in Prios |-> NULL]
        /\ retired = {}
        /\ late = {}

Stranded == \E p \in retired : pending[p] # <<>>

Activate(t) == LET p == TaskPrio[t]
               IN /\ Len(pending[p]) < QSize[p]
                  /\ pending' = [pending EXCEPT ![p] = Append(@, t)]
                  /\ UNCHANGED <<serving, retired, late>>

Start(p) == /\ p \notin retired
            /\ serving[p] = NULL
            /\ pending[p] # <<>>
            /\ Stranded \/ \A q \in Prios : q > p => pending[q] = <<>> \/ q \in late
            /\ serving' = [serving EXCEPT ![p] = Head(pending[p])]
            /\ UNCHANGED <<pending, retired, late>>

(* Only the highest priority in service gets to the end of a task.         *)
Finish(p) == /\ serving[p] # NULL
             /\ Stranded \/ \A q \in Prios : q > p => serving[q] = NULL
             /\ serving' = [serving EXCEPT ![p] = NULL]
             /\ pending' = [pending EXCEPT ![p] = Tail(@)]
             /\ UNCHANGED <<retired, late>>

Retire(p) == /\ p \notin retired
             /\ serving[p] = NULL
             /\ retired' = retired \cup {p}
             /\ UNCHANGED <<pending, serving, late>>

(* Who is late changes when the processor goes to another priority.        *)
Switch == /\ late' \in SUBSET Prios
          /\ Stranded \/ \A q \in late' : \E p \in Prios \ retired : p < q
          /\ UNCHANGED <<pending, serving, retired>>

Next == \/ \E t \in Tasks : Activate(t)
        \/ \E p \in Prios : Start(p) \/ Finish(p) \/ Retire(p)
        \/ Switch

Spec == Init /\ [][Next]_vars
=============================================================================
