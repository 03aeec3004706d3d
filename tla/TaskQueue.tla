----------------------------- MODULE TaskQueue -----------------------------
(***************************************************************************)
(* One OsekQueue_t used the way osek.c uses it: pushToQueue from           *)
(* ActivateTask, popFromQueue from TerminateTask, topFromQueue from the    *)
(* dispatcher and Schedule, each inside one critical section.  The queue   *)
(* implements a bounded FIFO of the configured size for every size the     *)
(* int8_t indices can count.                                               *)
(***************************************************************************)
EXTENDS OsekQueue, Sequences

CONSTANTS
  Task,        \* the tasks of the application
  QueueSizes   \* the PRIORITY_n_Q_SIZE values considered

ASSUME TaskAssumption == /\ QueueSizes \subseteq Nat \ {0}
                         /\ NULL \notin Task

VARIABLES oq,         \* the queue
          configured, \* the size its storage was allocated with
          result      \* what the last call returned

vars == <<oq, configured, result>>

Init == /\ configured \in QueueSizes
        /\ oq = NewQueue(configured)
        /\ result = NULL

Push(t) == /\ oq' = PushToQueue(oq, t)
           /\ result' = PushStatus(oq)
           /\ UNCHANGED configured

Pop == /\ oq' = PopFromQueue(oq)
       /\ result' = TopFromQueue(oq)
       /\ UNCHANGED configured

Top == /\ result' = TopFromQueue(oq)
       /\ UNCHANGED <<oq, configured>>

Next == (\E t \in Task : Push(t)) \/ Pop \/ Top

Spec == Init /\ [][Next]_vars
-----------------------------------------------------------------------------
(* The count always agrees with the distance from head to tail around the  *)
(* ring: a push never lands on a queued task, and a pop never returns one  *)
(* twice (osek.c:43-47 and osek.c:69-73).                                  *)
RingConsistent == RingOK(oq)

(* The types of the variables: every index is inside the array that        *)
(* osek_queue.c allocates.                                                 *)
TypeOK ==
  /\ configured \in QueueSizes
  /\ oq \in QueueType(Task \cup {NULL}, configured)
  /\ result \in Task \cup {NULL, "E_OK", "E_OS_LIMIT"}

(* The queue implements a bounded FIFO of the configured capacity: no      *)
(* activation is lost, duplicated, reordered or refused while there is     *)
(* room, across every wrap-around of the indices.  (osek.c:35-92)          *)
Fifo == INSTANCE BoundedFifo WITH fifo <- Contents(oq), capacity <- configured

ImplementsFifo == Fifo!Spec
=============================================================================
