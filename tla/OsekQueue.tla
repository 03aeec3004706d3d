----------------------------- MODULE OsekQueue -----------------------------
(***************************************************************************)
(* The ring buffer of task pointers behind every priority level:           *)
(* OsekQueue_t (osek_queue.h) and the three static functions of osek.c     *)
(* that are the only code to touch it.  A queue is a record; the functions *)
(* are operators from a queue to a queue, a Task_t* or a StatusType.       *)
(***************************************************************************)
EXTENDS Integers

CONSTANTS
  Int8Max,   \* greatest int8_t: 127 on the target (head and tail are int8_t)
  NULL       \* the null pointer

(* Only the width of the C types is abstracted: an int8_t is any           *)
(* two's-complement type with at least one positive value.                 *)
ASSUME Int8Assumption == Int8Max \in Nat \ {0}

Uint8Max == 2 * Int8Max + 1             \* greatest uint8_t

(* ++ on an int8_t: the conversion back from int wraps to the minimum.     *)
Int8Inc(i) == IF i = Int8Max THEN -Int8Max - 1 ELSE i + 1

(* ++ and -- on a uint8_t.                                                 *)
Uint8Inc(n) == IF n = Uint8Max THEN 0 ELSE n + 1
Uint8Dec(n) == IF n = 0 THEN Uint8Max ELSE n - 1

(* The static initialiser {sp, tasks, prio, 0, 0, 0, queue_size}, over an  *)
(* array of queue_size pointers.  max_queue_Size is a uint8_t.             *)
NewQueue(queue_size) ==
  [ tasks          |-> [i \in 0 .. queue_size - 1 |-> NULL],
    head           |-> 0,
    tail           |-> 0,
    queue_size     |-> 0,
    max_queue_Size |-> queue_size % (Uint8Max + 1) ]

(* index++; if (index == max_queue_Size) index = 0;                        *)
Advance_NoWrap(i, max) == Int8Inc(i)
Advance(i, max) == IF Int8Inc(i) = max THEN 0 ELSE Int8Inc(i)

IsFull_OffByOne(oq) == oq.queue_size > oq.max_queue_Size
IsFull(oq) == oq.queue_size >= oq.max_queue_Size

(* The body of pushToQueue's critical section, run when the queue has room. *)
Pushed_AtHead(oq, task) ==
  [oq EXCEPT !.tasks[oq.head] = task,
             !.tail           = Advance(oq.tail, oq.max_queue_Size),
             !.queue_size     = @ + 1]
Pushed(oq, task) ==
  [oq EXCEPT !.tasks[oq.tail] = task,
             !.tail           = Advance(oq.tail, oq.max_queue_Size),
             !.queue_size     = @ + 1]

PushToQueue(oq, task) == IF IsFull(oq) THEN oq ELSE Pushed(oq, task)
PushStatus(oq) == IF IsFull(oq) THEN "E_OS_LIMIT" ELSE "E_OK"

PopFromQueue_KeepsHead(oq) ==
  IF oq.queue_size > 0 THEN [oq EXCEPT !.queue_size = @ - 1] ELSE oq
PopFromQueue(oq) ==
  IF oq.queue_size > 0
  THEN [oq EXCEPT !.head       = Advance(oq.head, oq.max_queue_Size),
                  !.queue_size = @ - 1]
  ELSE oq

TopFromQueue(oq) == IF oq.queue_size > 0 THEN oq.tasks[oq.head] ELSE NULL
-----------------------------------------------------------------------------
(* Every field of a queue of size n over the pointers P inside its array.  *)
QueueType(P, n) == [ tasks          : [0 .. n - 1 -> P],
                     head           : 0 .. n - 1,
                     tail           : 0 .. n - 1,
                     queue_size     : 0 .. n,
                     max_queue_Size : {n} ]

(* The count agrees with the distance from head to tail around the ring.   *)
RingOK(oq) == \/ oq.head + oq.queue_size = oq.tail
              \/ oq.head + oq.queue_size = oq.tail + oq.max_queue_Size

(***************************************************************************)
(* What the queue holds, for properties and refinement mappings: the       *)
(* queue_size pointers found by walking the ring from head.                *)
(***************************************************************************)
Slot(oq, i) == IF oq.head + i < oq.max_queue_Size
               THEN oq.head + i
               ELSE oq.head + i - oq.max_queue_Size

Contents(oq) == [i \in 1 .. oq.queue_size |-> oq.tasks[Slot(oq, i - 1)]]
=============================================================================
