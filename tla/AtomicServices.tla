--------------------------- MODULE AtomicServices ---------------------------
(***************************************************************************)
(* What the critical sections promise: the kernel's data, ready set,       *)
(* activation counts and queues, change by a whole service at a time, as   *)
(* if nothing could interrupt one.  A queue is the sequence it holds.      *)
(***************************************************************************)
EXTENDS OsekQueue, Sequences

CONSTANTS Prios, QSize, Tasks, TaskPrio

VARIABLES readySet, noAct, fifo

vars == <<readySet, noAct, fifo>>

Init == /\ readySet = {}
        /\ noAct = [t \in Tasks |-> 0]
        /\ fifo = [p \in Prios |-> <<>>]

(* The activation of t: it is ready and counted, and queued if there is    *)
(* room.                                                                   *)
ActivateTask(t) ==
  LET p == TaskPrio[t]
  IN /\ readySet' = readySet \cup {p}
     /\ noAct' = [noAct EXCEPT ![t] = Uint8Inc(@)]
     /\ fifo' = [fifo EXCEPT ![p] = IF Len(@) < QSize[p] THEN Append(@, t) ELSE @]

(* The end of the task at the head of queue p.                             *)
TerminateTask(p) ==
  /\ fifo[p] # <<>>
  /\ fifo' = [fifo EXCEPT ![p] = Tail(@)]
  /\ noAct' = [noAct EXCEPT ![Head(fifo[p])] = Uint8Dec(@)]
  /\ UNCHANGED readySet

(* dispatcher() found the queue of p empty, and now clears its ready bit.  *)
Drain(p) == readySet' = readySet \ {p} /\ UNCHANGED <<noAct, fifo>>

Next == \/ \E t \in Tasks : ActivateTask(t)
        \/ \E p \in Prios : TerminateTask(p) \/ Drain(p)

Spec == Init /\ [][Next]_vars
=============================================================================
