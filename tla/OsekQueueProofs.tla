-------------------------- MODULE OsekQueueProofs --------------------------
(***************************************************************************)
(* What the queue operations do to a queue, for every int8_t width and     *)
(* every size n that an int8_t can count: they keep its shape, and on its  *)
(* contents they are the operations of a FIFO.                             *)
(***************************************************************************)
EXTENDS OsekQueue, FiniteSets, Sequences, SequenceTheorems, FiniteSetTheorems, TLAPS

(* Advance stays on the ring: it returns the next index, or 0 past the end.*)
LEMMA AdvanceInRing ==
  ASSUME NEW max \in 1 .. Int8Max, NEW i \in 0 .. max - 1
  PROVE  /\ Advance(i, max) \in 0 .. max - 1
         /\ Advance(i, max) = IF i + 1 = max THEN 0 ELSE i + 1
  BY Int8Assumption DEF Advance, Int8Inc

(* A new queue is well formed.                                             *)
LEMMA NewQueueTyped ==
  ASSUME NEW P, NULL \in P, NEW n \in 1 .. Int8Max
  PROVE  /\ NewQueue(n) \in QueueType(P, n)
         /\ RingOK(NewQueue(n))
<1>1. n % (Uint8Max + 1) = n
  BY Int8Assumption DEF Uint8Max
<1> QED
  BY <1>1, Int8Assumption DEF NewQueue, QueueType, RingOK

(* A push keeps the queue well formed.                                     *)
LEMMA PushTyped ==
  ASSUME NEW P, NEW n \in 1 .. Int8Max, NEW q \in QueueType(P, n), RingOK(q),
         NEW t \in P
  PROVE  /\ PushToQueue(q, t) \in QueueType(P, n)
         /\ RingOK(PushToQueue(q, t))
<1>1. CASE IsFull(q)
  BY <1>1 DEF PushToQueue
<1>2. CASE ~IsFull(q)
  <2> DEFINE a == Advance(q.tail, q.max_queue_Size)
  <2>1. a \in 0 .. n - 1 /\ a = IF q.tail + 1 = n THEN 0 ELSE q.tail + 1
    BY AdvanceInRing DEF QueueType
  <2>2. q.queue_size + 1 \in 0 .. n
    BY <1>2, Int8Assumption DEF IsFull, QueueType
  <2>3. PushToQueue(q, t) = Pushed(q, t)
    BY <1>2 DEF PushToQueue
  <2>4. Pushed(q, t) \in QueueType(P, n)
    BY <2>1, <2>2 DEF Pushed, QueueType
  <2>5. /\ Pushed(q, t).head = q.head /\ Pushed(q, t).tail = a
        /\ Pushed(q, t).queue_size = q.queue_size + 1
        /\ Pushed(q, t).max_queue_Size = n
    BY DEF Pushed, QueueType
  <2>6. RingOK(Pushed(q, t))
    BY <2>1, <2>2, <2>5, Int8Assumption DEF RingOK, QueueType
  <2> QED
    BY <2>3, <2>4, <2>6
<1> QED
  BY <1>1, <1>2

(* A pop keeps the queue well formed.                                      *)
LEMMA PopTyped ==
  ASSUME NEW P, NEW n \in 1 .. Int8Max, NEW q \in QueueType(P, n), RingOK(q)
  PROVE  /\ PopFromQueue(q) \in QueueType(P, n)
         /\ RingOK(PopFromQueue(q))
<1>1. CASE q.queue_size > 0
  <2> DEFINE a == Advance(q.head, q.max_queue_Size)
             r == PopFromQueue(q)
  <2>1. a \in 0 .. n - 1 /\ a = IF q.head + 1 = n THEN 0 ELSE q.head + 1
    BY AdvanceInRing DEF QueueType
  <2>2. q.queue_size - 1 \in 0 .. n
    BY <1>1, Int8Assumption DEF QueueType
  <2>3. r \in QueueType(P, n)
    BY <1>1, <2>1, <2>2 DEF PopFromQueue, QueueType
  <2>4. /\ r.head = a /\ r.tail = q.tail
        /\ r.queue_size = q.queue_size - 1 /\ r.max_queue_Size = n
    BY <1>1 DEF PopFromQueue, QueueType
  <2>5. RingOK(r)
    <3> HIDE DEF r, a
    <3> QED
      BY <1>1, <2>1, <2>4, Int8Assumption DEF RingOK, QueueType
  <2> QED
    BY <2>3, <2>5
<1>2. CASE ~(q.queue_size > 0)
  BY <1>2 DEF PopFromQueue
<1> QED
  BY <1>1, <1>2
-----------------------------------------------------------------------------
(* Walking the ring from head stays inside the array.                      *)
LEMMA SlotInRing ==
  ASSUME NEW P, NEW n \in 1 .. Int8Max, NEW q \in QueueType(P, n),
         NEW i \in 0 .. n - 1
  PROVE  /\ Slot(q, i) \in 0 .. n - 1
         /\ Slot(q, i) = IF q.head + i < n THEN q.head + i ELSE q.head + i - n
  BY Int8Assumption DEF Slot, QueueType

(* The contents are a sequence of as many pointers as the count says.      *)
LEMMA ContentsSeq ==
  ASSUME NEW P, NEW n \in 1 .. Int8Max, NEW q \in QueueType(P, n)
  PROVE  /\ Contents(q) \in Seq(P)
         /\ Len(Contents(q)) = q.queue_size
         /\ \A i \in 1 .. q.queue_size :
              Contents(q)[i] = q.tasks[Slot(q, i - 1)]
<1>1. q.queue_size \in 0 .. n
  BY DEF QueueType
<1>2. \A i \in 1 .. q.queue_size : q.tasks[Slot(q, i - 1)] \in P
  <2>1. SUFFICES ASSUME NEW i \in 1 .. q.queue_size
                 PROVE  q.tasks[Slot(q, i - 1)] \in P
    OBVIOUS
  <2>2. i - 1 \in 0 .. n - 1
    BY <1>1, Int8Assumption
  <2>3. Slot(q, i - 1) \in 0 .. n - 1
    BY <2>2, SlotInRing
  <2> QED
    BY <2>3 DEF QueueType
<1>3. Contents(q) \in [1 .. q.queue_size -> P]
  BY <1>2 DEF Contents
<1>4. q.queue_size \in Nat
  BY <1>1, Int8Assumption
<1>5. Contents(q) \in Seq(P)
  BY <1>3, <1>4, SeqDef
<1>6. DOMAIN Contents(q) = 1 .. q.queue_size
  BY DEF Contents
<1>7. Len(Contents(q)) = q.queue_size
  BY <1>4, <1>5, <1>6, LenProperties
<1> QED
  BY <1>5, <1>7 DEF Contents

(* A push that finds room appends, one that does not changes nothing.      *)
LEMMA PushIsAppend ==
  ASSUME NEW P, NEW n \in 1 .. Int8Max, NEW q \in QueueType(P, n), RingOK(q),
         NEW t \in P, ~IsFull(q)
  PROVE  Contents(PushToQueue(q, t)) = Append(Contents(q), t)
<1> DEFINE r == PushToQueue(q, t)
           k == q.queue_size
<1>1. /\ k \in 0 .. n - 1 /\ k \in Nat
      /\ q.head \in 0 .. n - 1 /\ q.tail \in 0 .. n - 1
      /\ q.max_queue_Size = n
  BY Int8Assumption DEF IsFull, QueueType
<1>2. r \in QueueType(P, n)
  BY PushTyped
<1>3. /\ r.head = q.head /\ r.queue_size = k + 1 /\ r.max_queue_Size = n
      /\ r.tasks = [q.tasks EXCEPT ![q.tail] = t]
  BY DEF PushToQueue, Pushed, QueueType
<1>4. /\ Contents(q) \in Seq(P) /\ Len(Contents(q)) = k
      /\ \A i \in 1 .. k : Contents(q)[i] = q.tasks[Slot(q, i - 1)]
  BY ContentsSeq
<1>5. /\ Contents(r) \in Seq(P) /\ Len(Contents(r)) = k + 1
      /\ \A i \in 1 .. k + 1 : Contents(r)[i] = r.tasks[Slot(r, i - 1)]
  <2> HIDE DEF r
  <2>1. /\ Contents(r) \in Seq(P) /\ Len(Contents(r)) = r.queue_size
        /\ \A i \in 1 .. r.queue_size :
             Contents(r)[i] = r.tasks[Slot(r, i - 1)]
    BY <1>2, ContentsSeq
  <2> QED
    BY <1>3, <2>1
<1>6. /\ Append(Contents(q), t) \in Seq(P)
      /\ Len(Append(Contents(q), t)) = k + 1
      /\ \A i \in 1 .. k : Append(Contents(q), t)[i] = Contents(q)[i]
      /\ Append(Contents(q), t)[k + 1] = t
  BY <1>1, <1>4
<1>7. ASSUME NEW i \in 1 .. k + 1
      PROVE  Contents(r)[i] = Append(Contents(q), t)[i]
  <2>1. i - 1 \in 0 .. n - 1
    BY <1>1, Int8Assumption
  <2>2. Slot(r, i - 1) = Slot(q, i - 1) /\ Slot(q, i - 1) \in 0 .. n - 1
    BY <1>1, <1>3, <2>1, SlotInRing DEF Slot
  <2>3. q.tasks \in [0 .. n - 1 -> P]
    BY DEF QueueType
  <2>4. CASE i = k + 1
    <3>1. Slot(q, k) = q.tail
      BY <1>1, Int8Assumption DEF Slot, RingOK
    <3> HIDE DEF r, k
    <3> QED
      BY <1>1, <1>3, <1>5, <1>6, <2>2, <2>3, <2>4, <3>1
  <2>5. CASE i # k + 1
    <3>1. i \in 1 .. k
      BY <1>1, <2>5
    <3>2. Slot(q, i - 1) # q.tail
      BY <1>1, <3>1, Int8Assumption DEF Slot, RingOK
    <3> HIDE DEF r, k
    <3> QED
      BY <1>3, <1>4, <1>5, <1>6, <2>2, <2>3, <3>1, <3>2
  <2> QED
    BY <2>4, <2>5
<1> QED
  BY <1>5, <1>6, <1>7, SeqEqual

(* The top of a queue that is not empty is the head of its contents.       *)
LEMMA TopIsHead ==
  ASSUME NEW P, NEW n \in 1 .. Int8Max, NEW q \in QueueType(P, n)
  PROVE  /\ q.queue_size = 0 => Contents(q) = <<>> /\ TopFromQueue(q) = NULL
         /\ q.queue_size # 0 => /\ Contents(q) # <<>>
                                /\ TopFromQueue(q) = Head(Contents(q))
                                /\ TopFromQueue(q) \in P
<1>1. /\ q.queue_size \in Nat /\ q.queue_size <= n
      /\ q.head \in 0 .. n - 1
      /\ q.max_queue_Size = n
      /\ q.tasks \in [0 .. n - 1 -> P]
  BY Int8Assumption DEF QueueType
<1>2. /\ Contents(q) \in Seq(P) /\ Len(Contents(q)) = q.queue_size
      /\ \A i \in 1 .. q.queue_size :
           Contents(q)[i] = q.tasks[Slot(q, i - 1)]
  BY ContentsSeq
<1>3. CASE q.queue_size = 0
  BY <1>2, <1>3, EmptySeq DEF TopFromQueue
<1>4. CASE q.queue_size # 0
  <2>1. Slot(q, 0) = q.head
    BY <1>1 DEF Slot
  <2>2. Contents(q) # <<>> /\ Head(Contents(q)) = Contents(q)[1]
    BY <1>2, <1>4
  <2>3. Contents(q)[1] = q.tasks[q.head]
    BY <1>1, <1>2, <1>4, <2>1
  <2> QED
    BY <1>1, <1>4, <2>2, <2>3 DEF TopFromQueue
<1> QED
  BY <1>3, <1>4

(* A pop of a queue that is not empty removes the head.                    *)
LEMMA PopIsTail ==
  ASSUME NEW P, NEW n \in 1 .. Int8Max, NEW q \in QueueType(P, n), RingOK(q),
         q.queue_size # 0
  PROVE  Contents(PopFromQueue(q)) = Tail(Contents(q))
<1> DEFINE r == PopFromQueue(q)
           k == q.queue_size
<1>1. /\ k \in 1 .. n /\ k \in Nat /\ k > 0
      /\ q.head \in 0 .. n - 1
      /\ q.max_queue_Size = n
  BY Int8Assumption DEF QueueType
<1>2. r \in QueueType(P, n)
  BY PopTyped
<1>3. /\ r.head = Advance(q.head, n) /\ r.queue_size = k - 1
      /\ r.max_queue_Size = n /\ r.tasks = q.tasks
  BY <1>1 DEF PopFromQueue, QueueType
<1>4. Advance(q.head, n) = IF q.head + 1 = n THEN 0 ELSE q.head + 1
  BY <1>1, AdvanceInRing
<1>5. /\ Contents(q) \in Seq(P) /\ Len(Contents(q)) = k
      /\ \A i \in 1 .. k : Contents(q)[i] = q.tasks[Slot(q, i - 1)]
  BY ContentsSeq
<1>6. /\ Contents(r) \in Seq(P) /\ Len(Contents(r)) = k - 1
      /\ \A i \in 1 .. k - 1 : Contents(r)[i] = r.tasks[Slot(r, i - 1)]
  BY <1>2, <1>3, ContentsSeq
<1>7. Contents(q) # <<>>
  BY <1>1, <1>5, EmptySeq
<1>8. /\ Tail(Contents(q)) \in Seq(P) /\ Len(Tail(Contents(q))) = k - 1
      /\ \A i \in 1 .. k - 1 : Tail(Contents(q))[i] = Contents(q)[i + 1]
  BY <1>5, <1>7, HeadTailProperties
<1>9. ASSUME NEW i \in 1 .. k - 1
      PROVE  Contents(r)[i] = Tail(Contents(q))[i]
  <2>1. i \in Nat /\ i >= 1 /\ i + 1 \in 1 .. k /\ (i + 1) - 1 = i
    BY <1>1
  <2>2. Slot(r, i - 1) = Slot(q, i)
    BY <1>1, <1>3, <1>4, <2>1, Int8Assumption DEF Slot
  <2> HIDE DEF r, k
  <2> QED
    BY <1>3, <1>5, <1>6, <1>8, <2>1, <2>2
<1> QED
  BY <1>6, <1>8, <1>9, SeqEqual
-----------------------------------------------------------------------------
(* How often t is in the queue.                                            *)
Places(q, t) == {i \in 1 .. q.queue_size : Contents(q)[i] = t}

LEMMA PlacesFinite ==
  ASSUME NEW P, NEW n \in 1 .. Int8Max, NEW q \in QueueType(P, n), NEW t
  PROVE  /\ IsFiniteSet(Places(q, t)) /\ Cardinality(Places(q, t)) \in Nat
         /\ q.queue_size = 0 => Cardinality(Places(q, t)) = 0
<1>1. q.queue_size \in Int /\ 1 \in Int
  BY Int8Assumption DEF QueueType
<1>2. IsFiniteSet(1 .. q.queue_size)
  BY <1>1, FS_Interval
<1>3. Places(q, t) \subseteq 1 .. q.queue_size
  BY DEF Places
<1>4. IsFiniteSet(Places(q, t))
  BY <1>2, <1>3, FS_Subset
<1>5. ASSUME q.queue_size = 0 PROVE Places(q, t) = {}
  BY <1>3, <1>5
<1> QED
  BY <1>4, <1>5, FS_CardinalityType, FS_EmptySet

(* A push with room adds one copy of what it pushes, and of nothing else.  *)
LEMMA PushCopies ==
  ASSUME NEW P, NEW n \in 1 .. Int8Max, NEW q \in QueueType(P, n), RingOK(q),
         NEW x \in P, ~IsFull(q), NEW t
  PROVE  Cardinality(Places(PushToQueue(q, x), t))
           = Cardinality(Places(q, t)) + (IF x = t THEN 1 ELSE 0)
<1> DEFINE r == PushToQueue(q, x)
           k == q.queue_size
<1>1. k \in Nat
  BY Int8Assumption DEF QueueType
<1>2. /\ Contents(q) \in Seq(P) /\ Len(Contents(q)) = k
      /\ Contents(r) = Append(Contents(q), x) /\ r.queue_size = k + 1
  <2>1. Contents(q) \in Seq(P) /\ Len(Contents(q)) = k
    BY ContentsSeq
  <2>2. Contents(r) = Append(Contents(q), x)
    BY PushIsAppend
  <2>3. r.queue_size = k + 1
    BY DEF PushToQueue, Pushed, QueueType
  <2> QED
    BY <2>1, <2>2, <2>3
<1>3. /\ \A i \in 1 .. k : Contents(r)[i] = Contents(q)[i]
      /\ Contents(r)[k + 1] = x
  BY <1>1, <1>2
<1>4. IsFiniteSet(Places(q, t)) /\ Cardinality(Places(q, t)) \in Nat
  BY PlacesFinite
<1> HIDE DEF r, k
<1>5. 1 .. k + 1 = (1 .. k) \cup {k + 1} /\ k + 1 \notin 1 .. k
  BY <1>1
<1>6. CASE x = t
  <2>1. Places(r, t) = Places(q, t) \cup {k + 1} /\ k + 1 \notin Places(q, t)
    BY <1>2, <1>3, <1>5, <1>6 DEF Places, k
  <2>2. Cardinality(Places(q, t) \cup {k + 1}) = Cardinality(Places(q, t)) + 1
    BY <1>4, <2>1, FS_AddElement
  <2> QED
    BY <1>6, <2>1, <2>2 DEF r
<1>7. CASE x # t
  <2>1. Places(r, t) = Places(q, t)
    BY <1>2, <1>3, <1>5, <1>7 DEF Places, k
  <2> QED
    BY <1>4, <1>7, <2>1 DEF r
<1> QED
  BY <1>6, <1>7

(* A pop takes one copy of the top, and of nothing else.                   *)
LEMMA PopCopies ==
  ASSUME NEW P, NEW n \in 1 .. Int8Max, NEW q \in QueueType(P, n), RingOK(q),
         q.queue_size # 0, NEW t
  PROVE  Cardinality(Places(q, t))
           = Cardinality(Places(PopFromQueue(q), t))
               + (IF TopFromQueue(q) = t THEN 1 ELSE 0)
<1> DEFINE r == PopFromQueue(q)
           k == q.queue_size
           S == Places(r, t)
           T == Places(q, t) \ {1}
<1>1. k \in Nat /\ k > 0
  BY Int8Assumption DEF QueueType
<1>2. /\ Contents(q) \in Seq(P) /\ Len(Contents(q)) = k /\ Contents(q) # <<>>
      /\ Contents(r) = Tail(Contents(q)) /\ TopFromQueue(q) = Head(Contents(q))
      /\ r.queue_size = k - 1 /\ r \in QueueType(P, n)
  <2>1. Contents(q) \in Seq(P) /\ Len(Contents(q)) = k
    BY ContentsSeq
  <2>2. Contents(r) = Tail(Contents(q))
    BY PopIsTail
  <2>3. Contents(q) # <<>> /\ TopFromQueue(q) = Head(Contents(q))
    BY TopIsHead
  <2>4. r \in QueueType(P, n)
    BY PopTyped
  <2>5. r.queue_size = k - 1
    BY <1>1 DEF PopFromQueue, QueueType
  <2> QED
    BY <2>1, <2>2, <2>3, <2>4, <2>5
<1>3. /\ \A i \in 1 .. k - 1 : Contents(r)[i] = Contents(q)[i + 1]
      /\ Contents(q)[1] = TopFromQueue(q)
  BY <1>1, <1>2, HeadTailProperties
<1>4. /\ IsFiniteSet(Places(q, t)) /\ Cardinality(Places(q, t)) \in Nat
      /\ IsFiniteSet(S) /\ Cardinality(S) \in Nat
  BY <1>2, PlacesFinite
<1>5. Cardinality(T) = Cardinality(S)
  <2> DEFINE f == [i \in S |-> i + 1]
  <2>0. \A i : i \in S <=> i \in 1 .. k - 1 /\ Contents(q)[i + 1] = t
    BY <1>2, <1>3 DEF Places
  <2>1. \A j : j \in T <=> j \in 2 .. k /\ Contents(q)[j] = t
    BY <1>1 DEF Places
  <2> HIDE DEF S, T
  <2>2. f \in [S -> T]
    BY <1>1, <2>0, <2>1
  <2>3. \A i, j \in S : f[i] = f[j] => i = j
    BY <2>0
  <2>4. \A j \in T : j - 1 \in S /\ f[j - 1] = j
    BY <1>1, <2>0, <2>1
  <2>5. f \in Bijection(S, T)
    BY <2>2, <2>3, <2>4 DEF Bijection, Injection, Surjection, IsInjective
  <2>6. ExistsBijection(S, T)
    BY <2>5 DEF ExistsBijection
  <2> QED
    BY <1>4, <2>6, FS_Bijection
<1> HIDE DEF r
<1>6. Cardinality(T) = IF 1 \in Places(q, t) THEN Cardinality(Places(q, t)) - 1
                       ELSE Cardinality(Places(q, t))
  BY <1>4, FS_RemoveElement
<1>7. 1 \in Places(q, t) <=> TopFromQueue(q) = t
  BY <1>1, <1>3 DEF Places
<1> HIDE DEF S, T
<1>8. Cardinality(Places(q, t))
        = Cardinality(S) + (IF TopFromQueue(q) = t THEN 1 ELSE 0)
  BY <1>4, <1>5, <1>6, <1>7
<1> QED
  BY <1>8 DEF S, r
=============================================================================
