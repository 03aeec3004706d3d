-------------------------- MODULE TaskQueueProofs --------------------------
(***************************************************************************)
(* TaskQueue for every int8_t width, every set of tasks and every choice   *)
(* of queue sizes that the int8_t indices can count: the queue is well     *)
(* formed, and implements the bounded FIFO.                                *)
(***************************************************************************)
EXTENDS TaskQueue, OsekQueueProofs

SizesFit == QueueSizes \subseteq 1 .. Int8Max

(* The inductive invariant: the refinement needs, besides the shape of the *)
(* queue, that the count agrees with the distance between the indices.     *)
IInv == TypeOK /\ RingConsistent
-----------------------------------------------------------------------------
LEMMA InitIInv == ASSUME SizesFit, Init PROVE IInv
<1>1. configured \in 1 .. Int8Max
  BY DEF SizesFit, Init
<1>2. /\ NewQueue(configured) \in QueueType(Task \cup {NULL}, configured)
      /\ RingOK(NewQueue(configured))
  BY <1>1, NewQueueTyped
<1> QED
  BY <1>2 DEF Init, IInv, TypeOK, RingConsistent

LEMMA NextIInv == ASSUME SizesFit, IInv, [Next]_vars PROVE IInv'
<1> DEFINE P == Task \cup {NULL}
<1>1. configured \in 1 .. Int8Max /\ oq \in QueueType(P, configured) /\ RingOK(oq)
  BY DEF SizesFit, IInv, TypeOK, RingConsistent
<1>2. ASSUME NEW t \in Task, Push(t)
      PROVE  IInv'
  <2>1. /\ PushToQueue(oq, t) \in QueueType(P, configured)
        /\ RingOK(PushToQueue(oq, t))
    BY <1>1, PushTyped
  <2> QED
    BY <1>2, <2>1 DEF Push, PushStatus, IInv, TypeOK, RingConsistent
<1>3. TopFromQueue(oq) \in P
  BY <1>1, TopIsHead DEF TopFromQueue
<1>4. CASE Pop
  <2>1. /\ PopFromQueue(oq) \in QueueType(P, configured)
        /\ RingOK(PopFromQueue(oq))
    BY <1>1, PopTyped
  <2> QED
    BY <1>3, <1>4, <2>1 DEF Pop, IInv, TypeOK, RingConsistent
<1>5. CASE Top
  BY <1>3, <1>5 DEF Top, IInv, TypeOK, RingConsistent
<1>6. CASE UNCHANGED vars
  BY <1>6 DEF vars, IInv, TypeOK, RingConsistent
<1> QED
  BY <1>2, <1>4, <1>5, <1>6 DEF Next

LEMMA Invariance == ASSUME SizesFit PROVE Spec => []IInv
<1>1. Init => IInv
  BY InitIInv
<1>2. IInv /\ [Next]_vars => IInv'
  BY NextIInv
<1> QED
  BY <1>1, <1>2, PTL DEF Spec

(* Every queue size that fits: the fields of the queue keep their ranges   *)
(* (osek.c:35-92).                                                         *)
THEOREM TypeCorrect == ASSUME SizesFit PROVE Spec => []TypeOK
<1>1. IInv => TypeOK
  BY DEF IInv
<1> QED
  BY <1>1, Invariance, PTL

(* Every queue size that fits: the count agrees with the indices.          *)
THEOREM RingCorrect == ASSUME SizesFit PROVE Spec => []RingConsistent
<1>1. IInv => RingConsistent
  BY DEF IInv
<1> QED
  BY <1>1, Invariance, PTL

-----------------------------------------------------------------------------
(***************************************************************************)
(* The refinement.                                                         *)
(***************************************************************************)
LEMMA InitFifo == ASSUME SizesFit, Init PROVE Fifo!Init
<1>1. configured \in 1 .. Int8Max /\ configured \in Nat
  BY Int8Assumption DEF SizesFit, Init
<1>2. oq \in QueueType(Task \cup {NULL}, configured)
  BY <1>1, NewQueueTyped DEF Init
<1>3. oq.queue_size = 0
  BY DEF Init, NewQueue
<1>4. Contents(oq) = <<>>
  BY <1>1, <1>2, <1>3, TopIsHead
<1> QED
  BY <1>1, <1>4 DEF Init, Fifo!Init

LEMMA StepFifo == ASSUME SizesFit, IInv, [Next]_vars PROVE [Fifo!Next]_Fifo!vars
<1> DEFINE P == Task \cup {NULL}
<1>1. configured \in 1 .. Int8Max /\ oq \in QueueType(P, configured) /\ RingOK(oq)
  BY DEF SizesFit, IInv, TypeOK, RingConsistent
<1>2. Len(Contents(oq)) = oq.queue_size
  BY <1>1, ContentsSeq
<1>3. /\ oq.queue_size \in Nat /\ oq.queue_size <= configured
      /\ oq.max_queue_Size = configured
  BY <1>1, Int8Assumption DEF QueueType
<1>4. /\ oq.queue_size = 0 => Contents(oq) = <<>> /\ TopFromQueue(oq) = NULL
      /\ oq.queue_size # 0 => /\ Contents(oq) # <<>>
                              /\ TopFromQueue(oq) = Head(Contents(oq))
  BY <1>1, TopIsHead
<1>5. ASSUME NEW t \in Task, Push(t)
      PROVE  Fifo!Push(t) \/ Fifo!Refuse
  <2>1. CASE IsFull(oq)
    <3>1. oq.queue_size = configured
      BY <1>1, <1>3, <2>1, Int8Assumption DEF IsFull
    <3>2. oq' = oq /\ result' = "E_OS_LIMIT" /\ configured' = configured
      BY <1>5, <2>1 DEF Push, PushToQueue, PushStatus
    <3> QED
      BY <1>2, <3>1, <3>2 DEF Fifo!Refuse
  <2>2. CASE ~IsFull(oq)
    <3>1. oq.queue_size < configured
      BY <1>1, <1>3, <2>2, Int8Assumption DEF IsFull
    <3>2. Contents(oq)' = Append(Contents(oq), t)
      BY <1>1, <1>5, <2>2, PushIsAppend DEF Push
    <3>3. result' = "E_OK" /\ configured' = configured
      BY <1>5, <2>2 DEF Push, PushStatus
    <3> QED
      BY <1>2, <3>1, <3>2, <3>3 DEF Fifo!Push
  <2> QED
    BY <2>1, <2>2
<1>6. ASSUME Pop
      PROVE  Fifo!Pop \/ Fifo!Top
  <2>1. CASE oq.queue_size = 0
    <3>1. oq' = oq /\ result' = NULL /\ configured' = configured
      BY <1>4, <1>6, <2>1 DEF Pop, PopFromQueue
    <3>2. Contents(oq)' = Contents(oq)
      BY <3>1
    <3> QED
      BY <1>4, <2>1, <3>1, <3>2 DEF Fifo!Top
  <2>2. CASE oq.queue_size # 0
    <3>1. Contents(oq)' = Tail(Contents(oq))
      BY <1>1, <1>6, <2>2, PopIsTail DEF Pop
    <3> QED
      BY <1>4, <1>6, <2>2, <3>1 DEF Pop, Fifo!Pop
  <2> QED
    BY <1>3, <2>1, <2>2
<1>7. ASSUME Top
      PROVE  Fifo!Top
  <2>1. Contents(oq)' = Contents(oq) /\ configured' = configured
    BY <1>7 DEF Top
  <2> QED
    BY <1>3, <1>4, <1>7, <2>1 DEF Top, Fifo!Top
<1>8. CASE UNCHANGED vars
  BY <1>8 DEF vars, Fifo!vars
<1> QED
  BY <1>5, <1>6, <1>7, <1>8 DEF Next, Fifo!Next

(* Every queue size that fits: the queue implements the bounded FIFO.      *)
THEOREM Refinement == ASSUME SizesFit PROVE Spec => ImplementsFifo
<1>1. Init => Fifo!Init
  BY InitFifo
<1>2. IInv /\ [Next]_vars => [Fifo!Next]_Fifo!vars
  BY StepFifo
<1> QED
  BY <1>1, <1>2, Invariance, PTL DEF Spec, ImplementsFifo, Fifo!Spec
=============================================================================
