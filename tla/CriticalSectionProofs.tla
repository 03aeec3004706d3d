----------------------- MODULE CriticalSectionProofs -----------------------
(***************************************************************************)
(* For any number of levels, queues and tasks: if the port masks           *)
(* interrupts, no two levels are inside their critical sections at once,   *)
(* the data change by whole services only, no activation is lost, and the  *)
(* lock is released.                                                       *)
(***************************************************************************)
EXTENDS CriticalSection, OsekQueueProofs

(* The inductive invariant: while a level is inside its section interrupts *)
(* are masked, and it is the highest active level.  Nothing above it can   *)
(* then start a call, and nothing below it takes a step.                   *)
InsideIsSafe(c) == Inside(c) => masked /\ Runs(c)

IInv == /\ pc \in [Levels -> Steps]
        /\ \A c \in Levels : InsideIsSafe(c)
-----------------------------------------------------------------------------
(* A level that takes a step has nothing active above it, so whoever else  *)
(* is inside its section would have to be below, and then not inside.      *)
LEMMA StepperIsAlone ==
  ASSUME IInv, NEW c \in Levels, Runs(c), pc[c] # "out",
         NEW d \in Levels, Inside(d)
  PROVE  d = c
<1>1. c \in Nat /\ d \in Nat
  BY LevelAssumption
<1>2. ~(d > c)
  BY DEF Runs, Inside
<1>3. ~(c > d)
  BY DEF IInv, InsideIsSafe, Runs
<1> QED
  BY <1>1, <1>2, <1>3

LEMMA InitIInv == Init => IInv
  BY DEF Init, IInv, InsideIsSafe, Inside, Steps

LEMMA NextIInv == ASSUME Masking, IInv, [Next]_vars PROVE IInv'
<1> USE DEF IInv
<1>1. ASSUME NEW c \in Levels, NEW call, Call(c, call)
      PROVE  IInv'
  <2>1. pc' = [pc EXCEPT ![c] = "count"] /\ masked' = masked
    BY <1>1 DEF Call, Goto, lock
  <2>2. CASE ~masked
    <3>1. \A d \in Levels : ~Inside(d)
      BY <2>2 DEF InsideIsSafe
    <3> QED
      BY <2>1, <3>1 DEF InsideIsSafe, Inside, Steps
  <2>3. CASE Goto(c, "in", "count")
    <3>1. \A d \in Levels : ~Inside(d)
      BY <2>3, StepperIsAlone DEF Goto, Inside
    <3> QED
      BY <2>1, <3>1 DEF InsideIsSafe, Inside, Steps
  <2> QED
    BY <1>1, <2>2, <2>3 DEF Call
<1>2. ASSUME NEW c \in Levels, Runs(c), pc[c] # "out",
             NEW to \in Steps, pc' = [pc EXCEPT ![c] = to],
             to \in {"load", "store"} => masked'
      PROVE  IInv'
  <2>1. pc' \in [Levels -> Steps]
    BY <1>2
  <2>2. ASSUME NEW d \in Levels, Inside(d)'
        PROVE  (masked /\ Runs(d))'
    <3>1. d = c
      BY <1>2, <2>2, StepperIsAlone DEF Inside
    <3>2. c \in Nat
      BY LevelAssumption
    <3>3. masked'
      BY <1>2, <2>2, <3>1 DEF Inside
    <3>4. Runs(c)'
      BY <1>2, <3>2 DEF Runs
    <3> QED
      BY <3>1, <3>3, <3>4
  <2> QED
    BY <2>1, <2>2 DEF InsideIsSafe
<1>3. ASSUME NEW c \in Levels, LoadCount(c) \/ StoreCount(c)
      PROVE  IInv'
  <2>1. \E from \in Steps \ {"out"}, to \in Steps \ {"load", "store"} :
          Goto(c, from, to)
    BY <1>3 DEF LoadCount, StoreCount, Steps
  <2> QED
    BY <1>2, <2>1 DEF Goto
<1>4. ASSUME NEW c \in Levels, Mask(c)
      PROVE  IInv'
  BY <1>2, <1>4 DEF Mask, Goto, Steps
<1>5. ASSUME NEW c \in Levels, Unmask(c)
      PROVE  IInv'
  BY <1>2, <1>5 DEF Unmask, Goto, Steps
<1>6. ASSUME NEW c \in Levels, LoadWords(c)
      PROVE  IInv'
  <2>1. masked /\ masked' = masked
    BY <1>6 DEF LoadWords, lock, Goto, InsideIsSafe, Inside
  <2> QED
    BY <1>2, <1>6, <2>1 DEF LoadWords, Goto, Steps
<1>7. ASSUME NEW c \in Levels, StoreWords(c)
      PROVE  IInv'
  BY <1>2, <1>7 DEF StoreWords, Goto, Steps
<1>8. CASE UNCHANGED vars
  BY <1>8 DEF vars, lock, InsideIsSafe, Inside, Runs
<1>10. ASSUME NEW c \in Levels, Return(c)
       PROVE  IInv'
  BY <1>2, <1>10 DEF Return, Goto, Steps
<1>9. ASSUME NEW c \in Levels, Calls(c)
      PROVE  IInv'
  BY <1>1, <1>9 DEF Calls
<1> QED
  BY <1>3, <1>4, <1>5, <1>6, <1>7, <1>8, <1>9, <1>10 DEF Next

(* If the port masks interrupts, critical sections exclude each other, for *)
(* any number of levels: the steps of OsekKernel for whole sections are    *)
(* justified.  (osek.c:41, 218)                                            *)
THEOREM Exclusion == ASSUME Masking PROVE Spec => []MutualExclusion
<1>1. Init => IInv
  BY InitIInv
<1>2. IInv /\ [Next]_vars => IInv'
  BY NextIInv
<1>3. IInv => MutualExclusion
  BY LevelAssumption DEF IInv, InsideIsSafe, MutualExclusion, Inside, Runs
<1> QED
  BY <1>1, <1>2, <1>3, PTL DEF Spec
-----------------------------------------------------------------------------
(***************************************************************************)
(* The data.                                                               *)
(***************************************************************************)
(* Every queue has a size that an int8_t can count.                        *)
QSizeFits == \A p \in Prios : QSize[p] <= Int8Max

(* A queue has one dispatcher (osek.c:168-171: one stack per queue).       *)
OneDispatcher == \A c, d \in Levels : Serves[c] = Serves[d] /\ Serves[c] # NULL
                                         => c = d

QueuesOK == /\ DOMAIN queues = Prios
            /\ \A p \in Prios : /\ queues[p] \in QueueType(Tasks \cup {NULL}, QSize[p])
                                /\ RingOK(queues[p])

(* What a level that is in a call has called.                              *)
CalledOK(c) ==
  pc[c] \notin {"out", "in"} =>
    \/ \E t \in Activates[c] : op[c] = <<"activate", t>>
    \/ Serves[c] # NULL /\ op[c] \in {<<"terminate", Serves[c]>>, <<"drain", Serves[c]>>}

(* The words a level has loaded are still those in memory when it stores.  *)
Fresh(c) == pc[c] = "store" => reg[c] = [ready |-> readySet, count |-> noAct,
                                         queue |-> queues]

(* A dispatcher that is about to end a task still has one: nobody else     *)
(* pops from its queue.                                                    *)
HasTask(c) == /\ pc[c] \in {"count", "counted", "mask", "load", "store"}
              /\ op[c] = <<"terminate", Serves[c]>>
              => queues[Serves[c]].queue_size # 0

CountLoaded(c) == pc[c] \in {"counted", "uncounted"} => reg[c] \in 0 .. Uint8Max

DataInv ==
  /\ readySet \subseteq Prios
  /\ noAct \in [Tasks -> 0 .. Uint8Max]
  /\ QueuesOK
  /\ disableCount \in 0 .. Uint8Max
  /\ masked \in BOOLEAN
  /\ op = [c \in Levels |-> op[c]] /\ reg = [c \in Levels |-> reg[c]]
  /\ \A c \in Levels : CalledOK(c) /\ Fresh(c) /\ HasTask(c) /\ CountLoaded(c)
-----------------------------------------------------------------------------
(* What a section does to the data, if the words it loaded are still there. *)
Pushes(t) ==
  /\ readySet' = readySet \cup {TaskPrio[t]}
  /\ noAct' = [noAct EXCEPT ![t] = Uint8Inc(@)]
  /\ queues' = [queues EXCEPT ![TaskPrio[t]] = PushToQueue(@, t)]
  /\ refused' = [refused EXCEPT ![t] = IF IsFull(queues[TaskPrio[t]])
                                       THEN @ + 1 ELSE @]

Pops(p) ==
  /\ queues[p].queue_size # 0
  /\ queues' = [queues EXCEPT ![p] = PopFromQueue(@)]
  /\ noAct' = [noAct EXCEPT ![TopFromQueue(queues[p])] = Uint8Dec(@)]
  /\ UNCHANGED <<readySet, refused>>

Clears(p) == readySet' = readySet \ {p} /\ UNCHANGED <<noAct, queues, refused>>

LEMMA Stored ==
  ASSUME DataInv, NEW c \in Levels, StoreWords(c)
  PROVE  \/ \E t \in Tasks : op[c] = <<"activate", t>> /\ Pushes(t)
         \/ Serves[c] \in Prios /\ Pops(Serves[c])
         \/ Serves[c] \in Prios /\ Clears(Serves[c])
<1> DEFINE r == reg[c]
           what == op[c][2]
<1>1. pc[c] = "store"
  BY DEF StoreWords, Goto
<1>2. /\ r = [ready |-> readySet, count |-> noAct, queue |-> queues]
      /\ CalledOK(c) /\ HasTask(c)
  BY <1>1 DEF DataInv, Fresh
<1>3. /\ op[c][1] = "activate" => StoreActivation(what, r)
      /\ op[c][1] = "terminate" => StoreTermination(what, r)
      /\ op[c][1] = "drain" => StoreDrain(what, r)
  BY DEF StoreWords
<1>4. CASE \E t \in Activates[c] : op[c] = <<"activate", t>>
  <2>1. PICK t \in Activates[c] : op[c] = <<"activate", t>>
    BY <1>4
  <2>2. t \in Tasks /\ StoreActivation(t, r)
    BY <1>3, <2>1, SectionAssumption
  <2>3. Pushes(t)
    BY <1>2, <2>2 DEF StoreActivation, Pushes, PushToQueue
  <2> QED
    BY <2>1, <2>2, <2>3
<1>5. CASE Serves[c] # NULL /\ op[c] = <<"terminate", Serves[c]>>
  <2>1. Serves[c] \in Prios /\ StoreTermination(Serves[c], r)
    BY <1>3, <1>5, SectionAssumption
  <2>2. queues[Serves[c]].queue_size # 0
    BY <1>1, <1>2, <1>5 DEF HasTask
  <2> QED
    BY <1>2, <2>1, <2>2 DEF StoreTermination, Pops
<1>6. CASE Serves[c] # NULL /\ op[c] = <<"drain", Serves[c]>>
  <2>1. Serves[c] \in Prios /\ StoreDrain(Serves[c], r)
    BY <1>3, <1>6, SectionAssumption
  <2> QED
    BY <1>2, <2>1 DEF StoreDrain, Clears
<1> QED
  BY <1>1, <1>2, <1>4, <1>5, <1>6 DEF CalledOK
-----------------------------------------------------------------------------
LEMMA SizeInRange ==
  ASSUME QSizeFits, NEW p \in Prios PROVE QSize[p] \in 1 .. Int8Max
<1>1. QSize[p] \in Nat \ {0}
  BY SectionAssumption
<1> QED
  BY <1>1, Int8Assumption DEF QSizeFits

LEMMA InitData == ASSUME QSizeFits, Init PROVE DataInv
<1>1. \A p \in Prios : /\ NewQueue(QSize[p]) \in QueueType(Tasks \cup {NULL}, QSize[p])
                      /\ RingOK(NewQueue(QSize[p]))
  BY NewQueueTyped, SizeInRange
<1>2. QueuesOK
  BY <1>1 DEF Init, QueuesOK
<1>3. 0 \in 0 .. Uint8Max
  BY Int8Assumption DEF Uint8Max
<1>4. /\ noAct \in [Tasks -> 0 .. Uint8Max] /\ disableCount \in 0 .. Uint8Max
      /\ readySet \subseteq Prios /\ masked \in BOOLEAN
      /\ op = [c \in Levels |-> op[c]] /\ reg = [c \in Levels |-> reg[c]]
  BY <1>3 DEF Init
<1>5. \A c \in Levels : pc[c] = "out"
  BY DEF Init
<1> QED
  BY <1>2, <1>4, <1>5 DEF DataInv, CalledOK, Fresh, HasTask, CountLoaded

(* The stores of a section keep the types and the rings, and leave a task  *)
(* to every other dispatcher that has found one.                           *)
LEMMA StoresKeep ==
  ASSUME QSizeFits, OneDispatcher, DataInv, NEW c \in Levels, StoreWords(c)
  PROVE  /\ readySet' \subseteq Prios
         /\ noAct' \in [Tasks -> 0 .. Uint8Max]
         /\ QueuesOK'
         /\ \A d \in Levels : d # c => HasTask(d)'
<1> DEFINE P == Tasks \cup {NULL}
<1>1. \A n \in 0 .. Uint8Max : /\ Uint8Inc(n) \in 0 .. Uint8Max
                              /\ Uint8Dec(n) \in 0 .. Uint8Max
  BY Int8Assumption DEF Uint8Inc, Uint8Dec, Uint8Max
<1>2. ASSUME NEW p \in Prios, NEW q, q \in QueueType(P, QSize[p]), RingOK(q),
             queues' = [queues EXCEPT ![p] = q]
      PROVE  QueuesOK'
  BY <1>2 DEF DataInv, QueuesOK
<1>3. ASSUME NEW d \in Levels, d # c, ~HasTask(d)'
      PROVE  /\ Serves[d] \in Prios /\ Serves[d] # Serves[c]
             /\ queues[Serves[d]].queue_size # 0
             /\ ~(queues'[Serves[d]].queue_size # 0)
  <2>1. pc'[d] = pc[d] /\ op'[d] = op[d]
    BY <1>3 DEF StoreWords, Goto
  <2>2. CalledOK(d) /\ HasTask(d)
    BY DEF DataInv
  <2>3. Serves[d] # NULL
    BY <1>3, <2>1, <2>2 DEF HasTask, CalledOK
  <2>4. Serves[d] \in Prios /\ Serves[d] # Serves[c]
    BY <1>3, <2>3, SectionAssumption DEF OneDispatcher
  <2> QED
    BY <1>3, <2>1, <2>2, <2>4 DEF HasTask
<1>4. ASSUME NEW t \in Tasks, Pushes(t)
      PROVE  QueuesOK' /\ \A d \in Levels : d # c => HasTask(d)'
  <2> DEFINE p == TaskPrio[t]
             q == PushToQueue(queues[p], t)
  <2>1. /\ p \in Prios /\ QSize[p] \in 1 .. Int8Max
        /\ queues[p] \in QueueType(P, QSize[p]) /\ RingOK(queues[p])
        /\ DOMAIN queues = Prios
    <3>1. p \in Prios
      BY SectionAssumption
    <3> QED
      BY <3>1, SizeInRange DEF DataInv, QueuesOK
  <2>2. q \in QueueType(P, QSize[p]) /\ RingOK(q)
    BY <2>1, PushTyped
  <2>3. queues' = [queues EXCEPT ![p] = q]
    BY <1>4 DEF Pushes
  <2>4. queues[p].queue_size # 0 => q.queue_size # 0
    BY <2>1 DEF PushToQueue, Pushed, QueueType
  <2>5. \A x \in Prios : queues[x].queue_size # 0 => queues'[x].queue_size # 0
    BY <2>1, <2>3, <2>4
  <2> QED
    BY <1>2, <1>3, <2>1, <2>2, <2>3, <2>5
<1>5. ASSUME Serves[c] \in Prios, Pops(Serves[c])
      PROVE  QueuesOK' /\ \A d \in Levels : d # c => HasTask(d)'
  <2> DEFINE p == Serves[c]
             q == PopFromQueue(queues[p])
  <2>1. /\ QSize[p] \in 1 .. Int8Max
        /\ queues[p] \in QueueType(P, QSize[p]) /\ RingOK(queues[p])
        /\ DOMAIN queues = Prios
    BY <1>5, SizeInRange DEF DataInv, QueuesOK
  <2>2. q \in QueueType(P, QSize[p]) /\ RingOK(q)
    BY <2>1, PopTyped
  <2>3. queues' = [queues EXCEPT ![p] = q]
    BY <1>5 DEF Pops
  <2>4. \A x \in Prios : x # p => queues'[x] = queues[x]
    BY <2>1, <2>3
  <2> QED
    BY <1>2, <1>3, <1>5, <2>2, <2>3, <2>4
<1>6. ASSUME Clears(Serves[c])
      PROVE  QueuesOK' /\ \A d \in Levels : d # c => HasTask(d)'
  BY <1>3, <1>6 DEF Clears, DataInv, QueuesOK
<1>7. readySet' \subseteq Prios
  BY Stored, SectionAssumption DEF Pushes, Pops, Clears, DataInv
<1>8. noAct' \in [Tasks -> 0 .. Uint8Max]
  BY Stored, <1>1 DEF Pushes, Pops, Clears, DataInv
<1> QED
  BY Stored, <1>4, <1>5, <1>6, <1>7, <1>8

(* The steps that leave the data alone.                                    *)
LEMMA OthersKeep ==
  ASSUME IInv, DataInv, NEW c \in Levels, NEW from, NEW to, NEW o, NEW r,
         Goto(c, from, to),
         UNCHANGED <<readySet, noAct, queues>>,
         op' = [op EXCEPT ![c] = o], reg' = [reg EXCEPT ![c] = r],
         disableCount' \in 0 .. Uint8Max, masked' \in BOOLEAN,
         CalledOK(c)', Fresh(c)', HasTask(c)', CountLoaded(c)'
  PROVE  DataInv'
<1>1. ASSUME NEW d \in Levels, d # c
      PROVE  (CalledOK(d) /\ Fresh(d) /\ HasTask(d) /\ CountLoaded(d))'
  <2>1. pc'[d] = pc[d] /\ op'[d] = op[d] /\ reg'[d] = reg[d]
    BY <1>1 DEF Goto, DataInv, IInv
  <2>2. CalledOK(d) /\ Fresh(d) /\ HasTask(d) /\ CountLoaded(d)
    BY DEF DataInv
  <2> QED
    BY <2>1, <2>2 DEF CalledOK, Fresh, HasTask, CountLoaded
<1>2. QueuesOK'
  BY DEF DataInv, QueuesOK
<1> QED
  BY <1>1, <1>2 DEF DataInv

LEMMA NextData ==
  ASSUME QSizeFits, OneDispatcher, Masking, IInv, DataInv, [Next]_vars
  PROVE  DataInv'
<1> DEFINE U == 0 .. Uint8Max
<1>1. \A n \in U : Uint8Inc(n) \in U /\ Uint8Dec(n) \in U
  BY Int8Assumption DEF Uint8Inc, Uint8Dec, Uint8Max
<1>2. DOMAIN op = Levels /\ DOMAIN reg = Levels /\ pc \in [Levels -> Steps]
      /\ disableCount \in U /\ masked \in BOOLEAN
      /\ op = [c \in Levels |-> op[c]] /\ reg = [c \in Levels |-> reg[c]]
  BY DEF DataInv, IInv
<1>3. ASSUME NEW c \in Levels, NEW call, Call(c, call),
             \/ \E t \in Activates[c] : call = <<"activate", t>>
             \/ /\ Serves[c] # NULL
                /\ \/ /\ call = <<"terminate", Serves[c]>>
                      /\ TopFromQueue(queues[Serves[c]]) # NULL
                   \/ call = <<"drain", Serves[c]>>
      PROVE  DataInv'
  <2>1. /\ \E from : Goto(c, from, "count")
        /\ op' = [op EXCEPT ![c] = call]
        /\ UNCHANGED <<readySet, noAct, queues, disableCount, masked, reg>>
    BY <1>3 DEF Call, data, lock
  <2>2. pc'[c] = "count" /\ op'[c] = call /\ reg' = [reg EXCEPT ![c] = reg[c]]
    BY <1>2, <2>1 DEF Goto
  <2>3. CalledOK(c)' /\ Fresh(c)' /\ CountLoaded(c)'
    BY <1>3, <2>2 DEF CalledOK, Fresh, CountLoaded
  <2>4. HasTask(c)'
    BY <1>3, <2>1, <2>2 DEF HasTask, TopFromQueue, DataInv, QueuesOK, QueueType
  <2> QED
    BY <1>2, <2>1, <2>2, <2>3, <2>4, OthersKeep
<1>4. ASSUME NEW c \in Levels, Calls(c)
      PROVE  DataInv'
  BY <1>3, <1>4 DEF Calls
<1>5. ASSUME NEW c \in Levels, LoadCount(c)
      PROVE  DataInv'
  <2>1. /\ Goto(c, "count", "counted") \/ Goto(c, "uncount", "uncounted")
        /\ reg' = [reg EXCEPT ![c] = disableCount]
        /\ UNCHANGED <<readySet, noAct, queues, disableCount, masked, op>>
    BY <1>5 DEF LoadCount, data, lock
  <2>2. /\ \/ pc[c] = "count" /\ pc'[c] = "counted"
           \/ pc[c] = "uncount" /\ pc'[c] = "uncounted"
        /\ reg'[c] = disableCount /\ op' = [op EXCEPT ![c] = op[c]]
    BY <1>2, <2>1 DEF Goto
  <2>3. CalledOK(c)' /\ Fresh(c)' /\ CountLoaded(c)' /\ HasTask(c)'
    BY <1>2, <2>1, <2>2 DEF CalledOK, Fresh, CountLoaded, HasTask, DataInv
  <2> QED
    BY <1>2, <2>1, <2>2, <2>3, OthersKeep
<1>6. ASSUME NEW c \in Levels, StoreCount(c)
      PROVE  DataInv'
  <2>1. /\ \/ Goto(c, "counted", "mask") /\ disableCount' = Uint8Inc(reg[c])
           \/ Goto(c, "uncounted", "unmask") /\ disableCount' = Uint8Dec(reg[c])
        /\ reg' = [reg EXCEPT ![c] = NULL]
        /\ UNCHANGED <<readySet, noAct, queues, masked, op>>
    BY <1>6 DEF StoreCount, data
  <2>2. /\ \/ pc[c] = "counted" /\ pc'[c] = "mask"
           \/ pc[c] = "uncounted" /\ pc'[c] = "unmask"
        /\ op' = [op EXCEPT ![c] = op[c]]
    BY <1>2, <2>1 DEF Goto
  <2>3. disableCount' \in U
    BY <1>1, <2>1, <2>2 DEF DataInv, CountLoaded
  <2>4. CalledOK(c)' /\ Fresh(c)' /\ CountLoaded(c)' /\ HasTask(c)'
    BY <2>1, <2>2 DEF CalledOK, Fresh, CountLoaded, HasTask, DataInv
  <2> QED
    BY <1>2, <2>1, <2>2, <2>3, <2>4, OthersKeep
<1>7. ASSUME NEW c \in Levels, Mask(c)
      PROVE  DataInv'
  <2>1. /\ Goto(c, "mask", "load") /\ masked' = Masking
        /\ UNCHANGED <<readySet, noAct, queues, disableCount, op, reg>>
    BY <1>7 DEF Mask, data
  <2>2. /\ pc[c] = "mask" /\ pc'[c] = "load"
        /\ op' = [op EXCEPT ![c] = op[c]] /\ reg' = [reg EXCEPT ![c] = reg[c]]
    BY <1>2, <2>1 DEF Goto
  <2>3. masked' \in BOOLEAN
    BY <2>1, SectionAssumption
  <2>4. CalledOK(c)' /\ Fresh(c)' /\ CountLoaded(c)' /\ HasTask(c)'
    BY <2>1, <2>2 DEF CalledOK, Fresh, CountLoaded, HasTask, DataInv
  <2> QED
    BY <1>2, <2>1, <2>2, <2>3, <2>4, OthersKeep
<1>8. ASSUME NEW c \in Levels, Unmask(c)
      PROVE  DataInv'
  <2>1. /\ Goto(c, "unmask", IF masked' THEN "in" ELSE "out")
        /\ masked' = (masked /\ disableCount # 0)
        /\ op' = [op EXCEPT ![c] = NULL]
        /\ UNCHANGED <<readySet, noAct, queues, disableCount, reg>>
    BY <1>8 DEF Unmask, data
  <2>2. pc'[c] \in {"out", "in"} /\ reg' = [reg EXCEPT ![c] = reg[c]]
    BY <1>2, <2>1 DEF Goto
  <2>3. masked' \in BOOLEAN
    BY <2>1
  <2>4. CalledOK(c)' /\ Fresh(c)' /\ CountLoaded(c)' /\ HasTask(c)'
    BY <2>2 DEF CalledOK, Fresh, CountLoaded, HasTask
  <2> QED
    BY <1>2, <2>1, <2>2, <2>3, <2>4, OthersKeep
<1>9. ASSUME NEW c \in Levels, LoadWords(c)
      PROVE  DataInv'
  <2> DEFINE r == [ready |-> readySet, count |-> noAct, queue |-> queues]
  <2>1. /\ Goto(c, "load", "store") /\ reg' = [reg EXCEPT ![c] = r]
        /\ UNCHANGED <<readySet, noAct, queues, disableCount, masked, op>>
    BY <1>9 DEF LoadWords, data, lock
  <2>2. /\ pc[c] = "load" /\ pc'[c] = "store" /\ reg'[c] = r
        /\ op' = [op EXCEPT ![c] = op[c]]
    BY <1>2, <2>1 DEF Goto
  <2>3. CalledOK(c)' /\ Fresh(c)' /\ CountLoaded(c)' /\ HasTask(c)'
    BY <2>1, <2>2 DEF CalledOK, Fresh, CountLoaded, HasTask, DataInv
  <2> HIDE DEF r
  <2> QED
    BY <1>2, <2>1, <2>2, <2>3, OthersKeep
<1>10. ASSUME NEW c \in Levels, StoreWords(c)
       PROVE  DataInv'
  <2>1. /\ Goto(c, "store", "uncount") /\ reg' = [reg EXCEPT ![c] = NULL]
        /\ UNCHANGED <<disableCount, masked, op>>
    BY <1>10 DEF StoreWords, lock
  <2>2. pc[c] = "store" /\ pc'[c] = "uncount"
    BY <1>2, <2>1 DEF Goto
  <2>3. CalledOK(c)' /\ Fresh(c)' /\ CountLoaded(c)' /\ HasTask(c)'
    BY <2>1, <2>2 DEF CalledOK, Fresh, CountLoaded, HasTask, DataInv
  <2>4. ASSUME NEW d \in Levels, d # c
        PROVE  CalledOK(d)' /\ Fresh(d)' /\ CountLoaded(d)'
    <3>1. pc'[d] = pc[d] /\ op'[d] = op[d] /\ reg'[d] = reg[d]
      BY <1>2, <2>1, <2>4 DEF Goto
    <3>2. pc[d] # "store"
      BY <1>2, <2>1, <2>2, <2>4, StepperIsAlone DEF Goto, Inside
    <3> QED
      BY <3>1, <3>2 DEF CalledOK, Fresh, CountLoaded, DataInv
  <2> QED
    BY <1>2, <1>10, <2>1, <2>3, <2>4, StoresKeep DEF DataInv
<1>11. CASE UNCHANGED vars
  BY <1>11 DEF vars, data, lock, DataInv, QueuesOK, CalledOK, Fresh, HasTask, CountLoaded
<1>12. ASSUME NEW c \in Levels, Return(c)
       PROVE  DataInv'
  <2>1. /\ Goto(c, "in", "out")
        /\ UNCHANGED <<readySet, noAct, queues, disableCount, masked, op, reg>>
    BY <1>12 DEF Return, data, lock
  <2>2. /\ pc'[c] = "out"
        /\ op' = [op EXCEPT ![c] = op[c]] /\ reg' = [reg EXCEPT ![c] = reg[c]]
    BY <1>2, <2>1 DEF Goto
  <2>3. CalledOK(c)' /\ Fresh(c)' /\ CountLoaded(c)' /\ HasTask(c)'
    BY <2>2 DEF CalledOK, Fresh, CountLoaded, HasTask
  <2> QED
    BY <1>2, <2>1, <2>2, <2>3, OthersKeep
<1> QED
  BY <1>4, <1>5, <1>6, <1>7, <1>8, <1>9, <1>10, <1>11, <1>12 DEF Next

LEMMA DataInvariance ==
  ASSUME QSizeFits, OneDispatcher, Masking PROVE Spec => [](IInv /\ DataInv)
<1>1. Init => IInv /\ DataInv
  BY InitIInv, InitData
<1>2. IInv /\ DataInv /\ [Next]_vars => (IInv /\ DataInv)'
  BY NextIInv, NextData
<1> QED
  BY <1>1, <1>2, PTL DEF Spec

(* The shared variables keep their types, and the queues' indices their    *)
(* arrays, however many levels nest.  (osek.c:35-78, 211-272)              *)
THEOREM SectionTypes ==
  ASSUME QSizeFits, OneDispatcher, Masking PROVE Spec => []TypeOK
<1>1. IInv /\ DataInv => TypeOK
  BY DEF IInv, DataInv, QueuesOK, TypeOK
<1> QED
  BY <1>1, DataInvariance, PTL
-----------------------------------------------------------------------------
(***************************************************************************)
(* The refinement: the stores of a section are the step of a whole         *)
(* service, and no other step changes the data.                            *)
(***************************************************************************)
fifo == [p \in Prios |-> Contents(queues[p])]

LEMMA InitWhole == ASSUME QSizeFits, Init PROVE Whole!Init
<1>1. ASSUME NEW p \in Prios
      PROVE  Contents(queues[p]) = <<>>
  <2>1. /\ queues[p] = NewQueue(QSize[p])
        /\ NewQueue(QSize[p]) \in QueueType(Tasks \cup {NULL}, QSize[p])
    BY NewQueueTyped, SizeInRange DEF Init
  <2>2. NewQueue(QSize[p]).queue_size = 0
    BY DEF NewQueue
  <2> QED
    BY <2>1, <2>2, SizeInRange, TopIsHead
<1> QED
  BY <1>1 DEF Init, Whole!Init

LEMMA SameArithmetic ==
  \A n : Whole!Uint8Inc(n) = Uint8Inc(n) /\ Whole!Uint8Dec(n) = Uint8Dec(n)
  BY DEF Whole!Uint8Inc, Whole!Uint8Dec, Whole!Uint8Max, Uint8Inc, Uint8Dec, Uint8Max

LEMMA PushesIsWhole ==
  ASSUME QSizeFits, DataInv, NEW t \in Tasks, Pushes(t)
  PROVE  Whole!ActivateTask(t)
<1> DEFINE P == Tasks \cup {NULL}
           p == TaskPrio[t]
           q == queues[p]
<1>1. p \in Prios
  BY SectionAssumption
<1>2. /\ QSize[p] \in 1 .. Int8Max /\ q \in QueueType(P, QSize[p]) /\ RingOK(q)
      /\ DOMAIN queues = Prios
  BY <1>1, SizeInRange DEF DataInv, QueuesOK
<1>3. /\ queues'[p] = PushToQueue(q, t)
      /\ \A x \in Prios : x # p => queues'[x] = queues[x]
  BY <1>1, <1>2 DEF Pushes
<1>4. IsFull(q) <=> ~(Len(Contents(q)) < QSize[p])
  <2>1. Len(Contents(q)) = q.queue_size
    BY <1>2, ContentsSeq
  <2>2. q.queue_size \in 0 .. QSize[p] /\ q.max_queue_Size = QSize[p]
    BY <1>2 DEF QueueType
  <2> QED
    BY <1>2, <2>1, <2>2 DEF IsFull
<1>5. Contents(PushToQueue(q, t)) = IF Len(Contents(q)) < QSize[p]
                                    THEN Append(Contents(q), t) ELSE Contents(q)
  <2>1. CASE IsFull(q)
    BY <1>4, <2>1 DEF PushToQueue
  <2>2. CASE ~IsFull(q)
    <3>1. t \in P
      OBVIOUS
    <3>2. Contents(PushToQueue(q, t)) = Append(Contents(q), t)
      BY <1>2, <2>2, <3>1, PushIsAppend
    <3> QED
      BY <1>4, <2>2, <3>2
  <2> QED
    BY <2>1, <2>2
<1>6. fifo' = [fifo EXCEPT ![p] = IF Len(@) < QSize[p] THEN Append(@, t) ELSE @]
  BY <1>1, <1>3, <1>5 DEF fifo
<1> QED
  BY <1>6, SameArithmetic DEF Pushes, Whole!ActivateTask, fifo

LEMMA PopsIsWhole ==
  ASSUME QSizeFits, DataInv, NEW p \in Prios, Pops(p)
  PROVE  Whole!TerminateTask(p)
<1> DEFINE P == Tasks \cup {NULL}
           q == queues[p]
<1>1. /\ QSize[p] \in 1 .. Int8Max /\ q \in QueueType(P, QSize[p]) /\ RingOK(q)
      /\ DOMAIN queues = Prios
  BY SizeInRange DEF DataInv, QueuesOK
<1>2. /\ queues'[p] = PopFromQueue(q)
      /\ \A x \in Prios : x # p => queues'[x] = queues[x]
  BY <1>1 DEF Pops
<1>3. q.queue_size # 0
  BY DEF Pops
<1>4. /\ Contents(q) # <<>> /\ TopFromQueue(q) = Head(Contents(q))
      /\ Contents(PopFromQueue(q)) = Tail(Contents(q))
  BY <1>1, <1>3, TopIsHead, PopIsTail
<1>5. fifo' = [fifo EXCEPT ![p] = Tail(@)] /\ fifo[p] = Contents(q)
  BY <1>2, <1>4 DEF fifo
<1> QED
  BY <1>4, <1>5, SameArithmetic DEF Pops, Whole!TerminateTask, fifo

LEMMA StepWhole ==
  ASSUME QSizeFits, DataInv, [Next]_vars
  PROVE  [Whole!Next]_Whole!vars
<1>1. ASSUME UNCHANGED <<readySet, noAct, queues>>
      PROVE  UNCHANGED Whole!vars
  BY <1>1 DEF Whole!vars
<1>2. ASSUME NEW c \in Levels, StoreWords(c)
      PROVE  Whole!Next
  <2>1. ASSUME NEW t \in Tasks, Pushes(t)
        PROVE  Whole!Next
    BY <2>1, PushesIsWhole DEF Whole!Next
  <2>2. ASSUME Serves[c] \in Prios, Pops(Serves[c])
        PROVE  Whole!Next
    BY <2>2, PopsIsWhole DEF Whole!Next
  <2>3. ASSUME Serves[c] \in Prios, Clears(Serves[c])
        PROVE  Whole!Next
    BY <2>3 DEF Clears, Whole!Drain, Whole!Next
  <2> QED
    BY <1>2, <2>1, <2>2, <2>3, Stored
<1>3. ASSUME NEW c \in Levels,
             Calls(c) \/ Return(c) \/ LoadCount(c) \/ StoreCount(c) \/ Mask(c)
               \/ Unmask(c) \/ LoadWords(c)
      PROVE  UNCHANGED <<readySet, noAct, queues>>
  BY <1>3 DEF Calls, Call, Return, LoadCount, StoreCount, Mask, Unmask, LoadWords, data
<1>4. CASE UNCHANGED vars
  BY <1>1, <1>4 DEF vars, data
<1> QED
  BY <1>1, <1>2, <1>3, <1>4 DEF Next

(* If the port masks, the critical sections make every service a single    *)
(* step on the kernel's data, whatever preempts whom between their loads   *)
(* and stores.  (osek.c:112, 219-223, 259-268)                             *)
THEOREM SectionsAreWhole ==
  ASSUME QSizeFits, OneDispatcher, Masking PROVE Spec => ServicesAreWhole
<1>1. Init => Whole!Init
  BY InitWhole
<1>2. IInv /\ DataInv /\ [Next]_vars => [Whole!Next]_Whole!vars
  BY StepWhole
<1> QED
  BY <1>1, <1>2, DataInvariance, PTL DEF Spec, ServicesAreWhole, Whole!Spec
-----------------------------------------------------------------------------
(***************************************************************************)
(* The lock.  The count is the number of levels that have raised it and    *)
(* not lowered it yet, and a level that has loaded it stores it back when  *)
(* those above are done, so that only those below count.                   *)
(***************************************************************************)
(* The levels can be counted in a uint8_t.                                 *)
LevelsFit == IsFiniteSet(Levels) /\ Cardinality(Levels) <= Uint8Max

HasRaised(c) == pc[c] \in {"mask", "load", "store", "uncount", "uncounted"}
Raised == {c \in Levels : HasRaised(c)}
Below(c) == {d \in Raised : d <= c}

LockInv ==
  /\ pc \in [Levels -> Steps]
  /\ reg = [c \in Levels |-> reg[c]]
  /\ disableCount = Cardinality(Raised)
  /\ \A c \in Levels : pc[c] \in {"counted", "uncounted"}
                         => reg[c] = Cardinality(Below(c))
  /\ masked => \E c \in Levels : HasRaised(c) \/ pc[c] = "unmask"

(* All who have raised the count are below the level that runs.            *)
LEMMA RunnerIsTop ==
  ASSUME NEW c \in Levels, Runs(c) PROVE Below(c) = Raised
<1>1. ASSUME NEW d \in Raised
      PROVE  d <= c
  <2>1. d \in Levels /\ pc[d] # "out" /\ c \in Nat /\ d \in Nat
    BY <1>1, LevelAssumption DEF Raised, HasRaised
  <2> QED
    BY <2>1 DEF Runs
<1> QED
  BY <1>1 DEF Below

(* A step of the running level changes nothing for a level below it, and   *)
(* those above it are out.                                                 *)
LEMMA OthersCount ==
  ASSUME LockInv, NEW c \in Levels, NEW from, NEW to, Goto(c, from, to),
         NEW r, reg' = [reg EXCEPT ![c] = r],
         NEW d \in Levels, d # c, pc'[d] \in {"counted", "uncounted"}
  PROVE  reg'[d] = Cardinality(Below(d)')
<1>1. /\ pc' = [pc EXCEPT ![c] = to] /\ Runs(c)
      /\ pc \in [Levels -> Steps] /\ reg = [x \in Levels |-> reg[x]]
  BY DEF Goto, LockInv
<1>2. pc'[d] = pc[d] /\ reg'[d] = reg[d]
  BY <1>1
<1>3. c \in Nat /\ d \in Nat /\ ~(d > c)
  BY <1>1, <1>2, LevelAssumption DEF Runs
<1>4. \A x \in Levels : x <= d => pc'[x] = pc[x]
  BY <1>1, <1>3, LevelAssumption
<1>5. Below(d)' = Below(d)
  BY <1>4 DEF Below, Raised, HasRaised
<1> QED
  BY <1>2, <1>5 DEF LockInv

LEMMA RaisedIsFinite ==
  ASSUME LevelsFit
  PROVE  /\ IsFiniteSet(Raised) /\ Cardinality(Raised) \in 0 .. Cardinality(Levels)
         /\ Cardinality(Levels) \in Nat
<1>1. Raised \subseteq Levels
  BY DEF Raised
<1>2. /\ IsFiniteSet(Raised) /\ Cardinality(Raised) <= Cardinality(Levels)
      /\ Cardinality(Raised) \in Nat /\ Cardinality(Levels) \in Nat
  BY <1>1, FS_Subset, FS_CardinalityType DEF LevelsFit
<1> QED
  BY <1>2

(* A step that does not store the count.                                   *)
LEMMA CountKept ==
  ASSUME LockInv, NEW c \in Levels, NEW from \in Steps, NEW to \in Steps,
         Goto(c, from, to), NEW r, reg' = [reg EXCEPT ![c] = r],
         HasRaised(c)' <=> HasRaised(c),
         disableCount' = disableCount,
         to \in {"counted", "uncounted"} => r = disableCount,
         masked' => masked \/ HasRaised(c),
         from = "unmask" => (masked' => disableCount # 0)
  PROVE  LockInv'
<1>1. /\ pc' = [pc EXCEPT ![c] = to] /\ pc[c] = from /\ Runs(c)
      /\ pc \in [Levels -> Steps] /\ reg = [x \in Levels |-> reg[x]]
  BY DEF Goto, LockInv
<1>2. pc' \in [Levels -> Steps] /\ reg' = [x \in Levels |-> reg'[x]]
  BY <1>1
<1>3. \A d \in Levels : HasRaised(d)' <=> HasRaised(d)
  BY <1>1 DEF HasRaised
<1>4. Raised' = Raised /\ Below(c)' = Below(c)
  BY <1>3 DEF Raised, Below
<1>5. disableCount' = Cardinality(Raised')
  BY <1>4 DEF LockInv
<1>6. pc'[c] \in {"counted", "uncounted"} => reg'[c] = Cardinality(Below(c)')
  BY <1>1, <1>4, RunnerIsTop DEF LockInv
<1>7. ASSUME masked'
      PROVE  \E d \in Levels : HasRaised(d)' \/ pc'[d] = "unmask"
  <2>1. CASE HasRaised(c)
    BY <1>3, <2>1
  <2>2. CASE ~HasRaised(c) /\ from # "unmask"
    <3>1. PICK d \in Levels : HasRaised(d) \/ pc[d] = "unmask"
      BY <1>7, <2>2 DEF LockInv
    <3>2. d # c
      BY <1>1, <2>2, <3>1
    <3>3. pc'[d] = pc[d]
      BY <1>1, <3>2
    <3> QED
      BY <1>3, <3>1, <3>3
  <2>3. CASE ~HasRaised(c) /\ from = "unmask"
    <3>1. Cardinality(Raised) # 0
      BY <1>7, <2>3 DEF LockInv
    <3>2. Raised # {}
      BY <3>1, FS_EmptySet
    <3> QED
      BY <1>3, <3>2 DEF Raised
  <2> QED
    BY <2>1, <2>2, <2>3
<1> QED
  BY <1>2, <1>5, <1>6, <1>7, OthersCount DEF LockInv

(* Raising and lowering the count: the value loaded is still the count.    *)
LEMMA CountStored ==
  ASSUME LevelsFit, LockInv, NEW c \in Levels, StoreCount(c)
  PROVE  LockInv'
<1>1. /\ \/ pc[c] = "counted" /\ pc' = [pc EXCEPT ![c] = "mask"]
            /\ disableCount' = Uint8Inc(reg[c])
         \/ pc[c] = "uncounted" /\ pc' = [pc EXCEPT ![c] = "unmask"]
            /\ disableCount' = Uint8Dec(reg[c])
      /\ reg' = [reg EXCEPT ![c] = NULL] /\ masked' = masked /\ Runs(c)
      /\ pc \in [Levels -> Steps] /\ reg = [x \in Levels |-> reg[x]]
  BY DEF StoreCount, Goto, LockInv
<1>2. pc' \in [Levels -> Steps] /\ reg' = [x \in Levels |-> reg'[x]]
  BY <1>1 DEF Steps
<1>3. reg[c] = Cardinality(Raised)
  BY <1>1, RunnerIsTop DEF LockInv
<1>4. /\ IsFiniteSet(Raised) /\ Cardinality(Levels) \in Nat
      /\ Cardinality(Raised) \in 0 .. Cardinality(Levels)
      /\ IsFiniteSet(Raised)' /\ Cardinality(Raised)' \in 0 .. Cardinality(Levels)
  <2>1. Raised' \subseteq Levels
    BY DEF Raised
  <2>2. /\ IsFiniteSet(Raised') /\ Cardinality(Raised') <= Cardinality(Levels)
        /\ Cardinality(Raised') \in Nat
    BY <2>1, FS_Subset, FS_CardinalityType DEF LevelsFit
  <2> QED
    BY <2>2, RaisedIsFinite
<1>5. disableCount' = Cardinality(Raised)'
  <2>1. CASE pc[c] = "counted"
    <3>1. Raised' = Raised \cup {c} /\ c \notin Raised
      BY <1>1, <2>1 DEF Raised, HasRaised
    <3>2. Cardinality(Raised') = Cardinality(Raised) + 1
      BY <1>4, <3>1, FS_AddElement
    <3>3. Cardinality(Raised) # Uint8Max
      BY <1>4, <3>2, Int8Assumption DEF LevelsFit, Uint8Max
    <3> QED
      BY <1>1, <1>3, <2>1, <3>2, <3>3 DEF Uint8Inc
  <2>2. CASE pc[c] = "uncounted"
    <3>1. Raised' = Raised \ {c} /\ c \in Raised
      BY <1>1, <2>2 DEF Raised, HasRaised
    <3>2. Cardinality(Raised') = Cardinality(Raised) - 1
      BY <1>4, <3>1, FS_RemoveElement
    <3>3. Cardinality(Raised) # 0
      BY <1>4, <3>1, FS_EmptySet
    <3> QED
      BY <1>1, <1>3, <2>2, <3>2, <3>3 DEF Uint8Dec
  <2> QED
    BY <1>1, <2>1, <2>2
<1>6. \A d \in Levels : pc'[d] \in {"counted", "uncounted"}
                        => reg'[d] = Cardinality(Below(d)')
  <2>1. PICK from, to : Goto(c, from, to)
    BY DEF StoreCount
  <2> QED
    BY <1>1, <2>1, OthersCount
<1>7. ASSUME masked'
      PROVE  \E d \in Levels : HasRaised(d)' \/ pc'[d] = "unmask"
  BY <1>1 DEF HasRaised
<1> QED
  BY <1>2, <1>5, <1>6, <1>7 DEF LockInv

LEMMA NextLock == ASSUME LevelsFit, LockInv, [Next]_vars PROVE LockInv'
<1>1. reg = [x \in Levels |-> reg[x]]
  BY DEF LockInv
<1>2. ASSUME NEW c \in Levels, NEW call, Call(c, call)
      PROVE  LockInv'
  <2>1. /\ Goto(c, "out", "count") \/ Goto(c, "in", "count")
        /\ reg' = [reg EXCEPT ![c] = reg[c]]
        /\ UNCHANGED <<disableCount, masked>> /\ ~HasRaised(c) /\ ~HasRaised(c)'
    BY <1>1, <1>2 DEF Call, Goto, lock, LockInv, HasRaised
  <2> QED
    BY <2>1, CountKept DEF Steps
<1>11. ASSUME NEW c \in Levels, Return(c)
       PROVE  LockInv'
  <2>1. /\ Goto(c, "in", "out") /\ reg' = [reg EXCEPT ![c] = reg[c]]
        /\ UNCHANGED <<disableCount, masked>> /\ ~HasRaised(c) /\ ~HasRaised(c)'
    BY <1>1, <1>11 DEF Return, Goto, lock, LockInv, HasRaised
  <2> QED
    BY <2>1, CountKept DEF Steps
<1>3. ASSUME NEW c \in Levels, LoadCount(c)
      PROVE  LockInv'
  <2>1. /\ \/ Goto(c, "count", "counted") /\ ~HasRaised(c) /\ ~HasRaised(c)'
           \/ Goto(c, "uncount", "uncounted") /\ HasRaised(c) /\ HasRaised(c)'
        /\ reg' = [reg EXCEPT ![c] = disableCount]
        /\ UNCHANGED <<disableCount, masked>>
    BY <1>3 DEF LoadCount, Goto, lock, LockInv, HasRaised
  <2> QED
    BY <2>1, CountKept DEF Steps
<1>4. ASSUME NEW c \in Levels, StoreCount(c)
      PROVE  LockInv'
  BY <1>4, CountStored
<1>5. ASSUME NEW c \in Levels, Mask(c)
      PROVE  LockInv'
  <2>1. /\ Goto(c, "mask", "load") /\ reg' = [reg EXCEPT ![c] = reg[c]]
        /\ UNCHANGED disableCount /\ HasRaised(c) /\ HasRaised(c)'
    BY <1>1, <1>5 DEF Mask, Goto, LockInv, HasRaised
  <2> QED
    BY <2>1, CountKept DEF Steps
<1>6. ASSUME NEW c \in Levels, Unmask(c)
      PROVE  LockInv'
  <2>1. /\ Goto(c, "unmask", "out") \/ Goto(c, "unmask", "in")
        /\ reg' = [reg EXCEPT ![c] = reg[c]]
        /\ UNCHANGED disableCount /\ ~HasRaised(c) /\ ~HasRaised(c)'
        /\ masked' = (masked /\ disableCount # 0)
    BY <1>1, <1>6 DEF Unmask, Goto, LockInv, HasRaised
  <2> QED
    BY <2>1, CountKept DEF Steps
<1>7. ASSUME NEW c \in Levels, LoadWords(c)
      PROVE  LockInv'
  <2>1. /\ Goto(c, "load", "store") /\ \E r : reg' = [reg EXCEPT ![c] = r]
        /\ UNCHANGED <<disableCount, masked>> /\ HasRaised(c) /\ HasRaised(c)'
    BY <1>7 DEF LoadWords, Goto, lock, LockInv, HasRaised
  <2> QED
    BY <2>1, CountKept DEF Steps
<1>8. ASSUME NEW c \in Levels, StoreWords(c)
      PROVE  LockInv'
  <2>1. /\ Goto(c, "store", "uncount") /\ reg' = [reg EXCEPT ![c] = NULL]
        /\ UNCHANGED <<disableCount, masked>> /\ HasRaised(c) /\ HasRaised(c)'
    BY <1>8 DEF StoreWords, Goto, lock, LockInv, HasRaised
  <2> QED
    BY <2>1, CountKept DEF Steps
<1>9. CASE UNCHANGED vars
  BY <1>9 DEF vars, lock, LockInv, Below, Raised, HasRaised
<1>10. ASSUME NEW c \in Levels, Calls(c)
       PROVE  LockInv'
  BY <1>2, <1>10 DEF Calls
<1> QED
  BY <1>3, <1>4, <1>5, <1>6, <1>7, <1>8, <1>9, <1>10, <1>11 DEF Next

(* When every call is over interrupts are enabled and the count is zero,   *)
(* however the loads and stores of the count nested, and whether or not    *)
(* the port masks.  (osek.c:426-463)                                       *)
THEOREM LockBalanced == ASSUME LevelsFit PROVE Spec => []LockReleased
<1>1. Init => LockInv
  <2>1. ASSUME Init
        PROVE  Raised = {}
    BY <2>1 DEF Init, Raised, HasRaised
  <2> QED
    BY <2>1, FS_EmptySet DEF Init, LockInv, Steps
<1>2. LockInv /\ [Next]_vars => LockInv'
  BY NextLock
<1>3. LockInv => LockReleased
  <2>1. ASSUME LockInv, Quiet
        PROVE  Raised = {} /\ ~masked
    BY <2>1 DEF LockInv, Quiet, Raised, HasRaised
  <2> QED
    BY <2>1, FS_EmptySet DEF LockInv, LockReleased
<1> QED
  BY <1>1, <1>2, <1>3, PTL DEF Spec
-----------------------------------------------------------------------------
(***************************************************************************)
(* The activations.                                                        *)
(***************************************************************************)
(* The activations that are admitted can be counted in a uint8_t: every    *)
(* level may have passed the test for the limit and not counted its own.   *)
ActFits == /\ IsFiniteSet(Levels) /\ ActLimit \in Nat
           /\ ActLimit + Cardinality(Levels) <= Uint8Max

TasksOf(p) == {t \in Tasks : TaskPrio[t] = p}

(* The levels that are activating t and have not stored it yet.            *)
Before == {"count", "counted", "mask", "load", "store"}
Pending(t) == {c \in Levels : op[c] = <<"activate", t>> /\ pc[c] \in Before}

(* At every step, not only when no call is in progress, what is counted is *)
(* queued or was refused; and the count has room for those that are about  *)
(* to be stored, so that it does not wrap.                                 *)
CountInv ==
  /\ refused \in [Tasks -> Nat]
  /\ \A p \in Prios : Contents(queues[p]) \in Seq(TasksOf(p))
  /\ \A t \in Tasks :
       /\ noAct[t] = NumQueued(t) + refused[t]
       /\ noAct[t] + Cardinality(Pending(t)) <= ActLimit + Cardinality(Levels)

LEMMA QueuedIsPlaces ==
  ASSUME QSizeFits, DataInv, NEW t \in Tasks
  PROVE  /\ TaskPrio[t] \in Prios
         /\ NumQueued(t) = Cardinality(Places(queues[TaskPrio[t]], t))
         /\ NumQueued(t) \in Nat
<1>1. TaskPrio[t] \in Prios
  BY SectionAssumption
<1>2. /\ QSize[TaskPrio[t]] \in 1 .. Int8Max
      /\ queues[TaskPrio[t]] \in QueueType(Tasks \cup {NULL}, QSize[TaskPrio[t]])
  BY <1>1, SizeInRange DEF DataInv, QueuesOK
<1>3. Cardinality(Places(queues[TaskPrio[t]], t)) \in Nat
  BY <1>2, PlacesFinite
<1> QED
  BY <1>1, <1>3 DEF NumQueued, Places

LEMMA PendingIsFinite ==
  ASSUME ActFits, NEW t
  PROVE  /\ IsFiniteSet(Pending(t)) /\ IsFiniteSet(Pending(t))'
         /\ Cardinality(Pending(t)) \in 0 .. Cardinality(Levels)
         /\ Cardinality(Pending(t))' \in 0 .. Cardinality(Levels)
         /\ Cardinality(Levels) \in Nat
<1>1. ASSUME NEW S \in SUBSET Levels
      PROVE  IsFiniteSet(S) /\ Cardinality(S) \in 0 .. Cardinality(Levels)
  <2>1. /\ IsFiniteSet(S) /\ Cardinality(S) <= Cardinality(Levels)
        /\ Cardinality(S) \in Nat /\ Cardinality(Levels) \in Nat
    BY <1>1, FS_Subset, FS_CardinalityType DEF ActFits
  <2> QED
    BY <2>1
<1>2. Pending(t) \subseteq Levels /\ Pending(t)' \subseteq Levels
  BY DEF Pending
<1>3. Cardinality(Levels) \in Nat
  BY FS_CardinalityType DEF ActFits
<1> QED
  BY <1>1, <1>2, <1>3

(* A level that no longer is, or still is not, about to store t adds no    *)
(* activation of t.                                                        *)
LEMMA FewerPending ==
  ASSUME ActFits, NEW t, Pending(t)' \subseteq Pending(t)
  PROVE  Cardinality(Pending(t))' <= Cardinality(Pending(t))
<1>1. IsFiniteSet(Pending(t))
  BY PendingIsFinite
<1> QED
  BY <1>1, FS_Subset

LEMMA InitCounts == ASSUME QSizeFits, ActFits, Init PROVE CountInv
<1>1. DataInv
  BY InitData
<1>2. ASSUME NEW p \in Prios
      PROVE  Contents(queues[p]) = <<>> /\ queues[p].queue_size = 0
  <2>1. /\ queues[p] = NewQueue(QSize[p]) /\ QSize[p] \in 1 .. Int8Max
        /\ NewQueue(QSize[p]) \in QueueType(Tasks \cup {NULL}, QSize[p])
    BY NewQueueTyped, SizeInRange DEF Init
  <2>2. NewQueue(QSize[p]).queue_size = 0
    BY DEF NewQueue
  <2> QED
    BY <2>1, <2>2, TopIsHead
<1>3. ASSUME NEW t \in Tasks
      PROVE  NumQueued(t) = 0
  <2>1. TaskPrio[t] \in Prios /\ queues[TaskPrio[t]].queue_size = 0
    BY <1>2, SectionAssumption
  <2>2. {i \in 1 .. 0 : Contents(queues[TaskPrio[t]])[i] = t} = {}
    OBVIOUS
  <2> QED
    BY <2>1, <2>2, FS_EmptySet DEF NumQueued
<1>4. ASSUME NEW t \in Tasks
      PROVE  Cardinality(Pending(t)) \in 0 .. Cardinality(Levels)
  BY PendingIsFinite
<1>5. ActLimit \in Nat /\ Cardinality(Levels) \in Nat
  BY FS_CardinalityType DEF ActFits
<1>6. ASSUME NEW t \in Tasks
      PROVE  noAct[t] = 0 /\ refused[t] = 0
  BY DEF Init
<1>7. ASSUME NEW t \in Tasks
      PROVE  noAct[t] + Cardinality(Pending(t)) <= ActLimit + Cardinality(Levels)
  BY <1>4, <1>5, <1>6
<1>8. refused \in [Tasks -> Nat]
  BY DEF Init
<1>9. ASSUME NEW p \in Prios
      PROVE  Contents(queues[p]) \in Seq(TasksOf(p))
  <2>1. <<>> \in Seq(TasksOf(p))
    OBVIOUS
  <2> QED
    BY <1>2, <2>1
<1>10. ASSUME NEW t \in Tasks
       PROVE  noAct[t] = NumQueued(t) + refused[t]
  BY <1>3, <1>6
<1> QED
  BY <1>7, <1>8, <1>9, <1>10 DEF CountInv

(* The steps outside of the body of a section: only a call can add a level *)
(* that is about to store t, and it is made below the limit.               *)
LEMMA CallsCount ==
  ASSUME QSizeFits, ActFits, DataInv, CountInv,
         UNCHANGED <<noAct, queues, refused>>,
         \A t \in Tasks : \/ Pending(t)' \subseteq Pending(t)
                          \/ noAct[t] < ActLimit
  PROVE  CountInv'
<1>1. ASSUME NEW t \in Tasks
      PROVE  noAct[t] + Cardinality(Pending(t))' <= ActLimit + Cardinality(Levels)
  <2>1. /\ Cardinality(Pending(t)) \in Nat /\ Cardinality(Levels) \in Nat
        /\ Cardinality(Pending(t))' \in Nat /\ ActLimit \in Nat
        /\ Cardinality(Pending(t))' <= Cardinality(Levels)
    BY PendingIsFinite DEF ActFits
  <2>2. noAct[t] \in Nat
    BY Int8Assumption DEF DataInv, Uint8Max
  <2>3. noAct[t] + Cardinality(Pending(t)) <= ActLimit + Cardinality(Levels)
    BY DEF CountInv
  <2>4. CASE Pending(t)' \subseteq Pending(t)
    <3>1. Cardinality(Pending(t))' <= Cardinality(Pending(t))
      BY <2>4, FewerPending
    <3> QED
      BY <2>1, <2>2, <2>3, <3>1
  <2>5. CASE noAct[t] < ActLimit
    BY <2>1, <2>2, <2>5
  <2> QED
    BY <2>4, <2>5
<1> QED
  BY <1>1 DEF CountInv, NumQueued

(* What a section stores: an activation is counted and queued, or counted  *)
(* and refused; a task that ends is one of those counted.                  *)
LEMMA StoresCount ==
  ASSUME QSizeFits, ActFits, IInv, DataInv, CountInv,
         NEW c \in Levels, StoreWords(c)
  PROVE  CountInv'
<1>1. /\ pc[c] = "store" /\ pc' = [pc EXCEPT ![c] = "uncount"]
      /\ op' = op /\ pc \in [Levels -> Steps]
  BY DEF StoreWords, Goto, IInv
<1>2. ASSUME NEW t
      PROVE  Pending(t)' = Pending(t) \ {c}
  BY <1>1 DEF Pending, Before
<1>3. Cardinality(Levels) \in Nat /\ ActLimit \in Nat
      /\ ActLimit + Cardinality(Levels) <= Uint8Max /\ Uint8Max \in Nat
  BY FS_CardinalityType, Int8Assumption DEF ActFits, Uint8Max
<1>4. ASSUME NEW t \in Tasks
      PROVE  /\ noAct[t] \in Nat /\ refused[t] \in Nat /\ NumQueued(t) \in Nat
             /\ noAct[t] = NumQueued(t) + refused[t]
             /\ noAct[t] + Cardinality(Pending(t)) <= ActLimit + Cardinality(Levels)
             /\ Cardinality(Pending(t)) \in Nat /\ Cardinality(Pending(t))' \in Nat
             /\ Cardinality(Pending(t))' <= Cardinality(Pending(t))
  <2>1. noAct[t] \in Nat
    BY Int8Assumption DEF DataInv, Uint8Max
  <2>2. Cardinality(Pending(t)) \in Nat /\ Cardinality(Pending(t))' \in Nat
    BY PendingIsFinite
  <2>3. Cardinality(Pending(t))' <= Cardinality(Pending(t))
    BY <1>2, FewerPending
  <2> QED
    BY <2>1, <2>2, <2>3, QueuedIsPlaces DEF CountInv
<1>5. ASSUME NEW p \in Prios
      PROVE  /\ QSize[p] \in 1 .. Int8Max /\ RingOK(queues[p])
             /\ queues[p] \in QueueType(Tasks \cup {NULL}, QSize[p])
             /\ Contents(queues[p]) \in Seq(TasksOf(p)) /\ DOMAIN queues = Prios
  BY SizeInRange DEF DataInv, QueuesOK, CountInv
<1>6. ASSUME NEW t \in Tasks, op[c] = <<"activate", t>>, Pushes(t)
      PROVE  CountInv'
  <2> DEFINE w == TaskPrio[t]
             q == queues[w]
             r == PushToQueue(q, t)
  <2>1. w \in Prios /\ t \in TasksOf(w)
    BY SectionAssumption DEF TasksOf
  <2>2. /\ QSize[w] \in 1 .. Int8Max /\ RingOK(q)
        /\ q \in QueueType(Tasks \cup {NULL}, QSize[w])
        /\ Contents(q) \in Seq(TasksOf(w)) /\ DOMAIN queues = Prios
    BY <1>5, <2>1
  <2>3. queues'[w] = r /\ \A p \in Prios : p # w => queues'[p] = queues[p]
    BY <2>1, <2>2, <1>6 DEF Pushes
  <2>4. IsFull(q) => r = q
    BY DEF PushToQueue
  <2>5. ~IsFull(q) => Contents(r) = Append(Contents(q), t)
    BY <2>2, PushIsAppend
  <2>6. Contents(r) \in Seq(TasksOf(w))
    BY <2>1, <2>2, <2>4, <2>5
  <2>7. \A p \in Prios : Contents(queues'[p]) \in Seq(TasksOf(p))
    <3> HIDE DEF q, r
    <3> QED
      BY <1>5, <2>3, <2>6
  <2>8. /\ noAct[t] # Uint8Max
        /\ Cardinality(Pending(t))' = Cardinality(Pending(t)) - 1
    <3>1. c \in Pending(t) /\ IsFiniteSet(Pending(t))
      BY <1>1, <1>6, PendingIsFinite DEF Pending, Before
    <3>2. Cardinality(Pending(t) \ {c}) = Cardinality(Pending(t)) - 1
      BY <3>1, FS_RemoveElement
    <3>3. Cardinality(Pending(t))' = Cardinality(Pending(t) \ {c})
      BY <1>2
    <3>4. noAct[t] # Uint8Max
      BY <1>3, <1>4, <3>2, <3>3
    <3> QED
      BY <3>2, <3>3, <3>4
  <2>9. /\ noAct'[t] = noAct[t] + 1
        /\ \A u \in Tasks : u # t => noAct'[u] = noAct[u]
    BY <1>6, <2>8 DEF Pushes, DataInv, Uint8Inc
  <2>10. /\ refused'[t] = IF IsFull(q) THEN refused[t] + 1 ELSE refused[t]
         /\ \A u \in Tasks : u # t => refused'[u] = refused[u]
         /\ refused' \in [Tasks -> Nat]
    BY <1>6 DEF Pushes, CountInv
  <2>11. ASSUME NEW u \in Tasks
         PROVE  NumQueued(u)' = NumQueued(u) + (IF t = u /\ ~IsFull(q) THEN 1 ELSE 0)
    <3>1. CASE TaskPrio[u] # w
      <4>1. TaskPrio[u] \in Prios /\ NumQueued(u) \in Nat
        BY QueuedIsPlaces
      <4>2. queues'[TaskPrio[u]] = queues[TaskPrio[u]]
        BY <2>3, <3>1, <4>1
      <4>3. NumQueued(u)' = NumQueued(u)
        BY <4>2 DEF NumQueued
      <4> QED
        BY <3>1, <4>1, <4>3
    <3>2. CASE TaskPrio[u] = w
      <4>1. NumQueued(u)' = Cardinality(Places(r, u))
        BY <2>3, <3>2 DEF NumQueued, Places
      <4>2. NumQueued(u) = Cardinality(Places(q, u)) /\ NumQueued(u) \in Nat
        BY <3>2, QueuedIsPlaces
      <4>3. ~IsFull(q) => Cardinality(Places(r, u))
                            = Cardinality(Places(q, u)) + (IF t = u THEN 1 ELSE 0)
        BY <2>2, PushCopies
      <4> HIDE DEF q, r
      <4> QED
        BY <2>4, <4>1, <4>2, <4>3
    <3> QED
      BY <3>1, <3>2
  <2>12. ASSUME NEW u \in Tasks
         PROVE  /\ noAct'[u] = NumQueued(u)' + refused'[u]
                /\ noAct'[u] + Cardinality(Pending(u))' <= ActLimit + Cardinality(Levels)
    <3> HIDE DEF q
    <3>1. CASE u = t
      BY <1>4, <2>8, <2>9, <2>10, <2>11, <3>1, <1>3
    <3>2. CASE u # t
      BY <1>4, <2>9, <2>10, <2>11, <3>2, <1>3
    <3> QED
      BY <3>1, <3>2
  <2> QED
    BY <2>7, <2>10, <2>12 DEF CountInv
<1>7. ASSUME NEW p \in Prios, Pops(p)
      PROVE  CountInv'
  <2> DEFINE q == queues[p]
             r == PopFromQueue(q)
             t == TopFromQueue(q)
  <2>1. /\ QSize[p] \in 1 .. Int8Max /\ RingOK(q)
        /\ q \in QueueType(Tasks \cup {NULL}, QSize[p])
        /\ Contents(q) \in Seq(TasksOf(p)) /\ DOMAIN queues = Prios
        /\ q.queue_size # 0
    BY <1>5, <1>7 DEF Pops
  <2>2. queues'[p] = r /\ \A x \in Prios : x # p => queues'[x] = queues[x]
    BY <1>7, <2>1 DEF Pops
  <2>3. /\ Contents(q) # <<>> /\ t = Head(Contents(q))
        /\ Contents(r) = Tail(Contents(q))
    BY <2>1, TopIsHead, PopIsTail
  <2>4. t \in TasksOf(p) /\ Contents(r) \in Seq(TasksOf(p))
    BY <2>1, <2>3, HeadTailProperties
  <2>5. t \in Tasks /\ TaskPrio[t] = p
    BY <2>4 DEF TasksOf
  <2>6. \A x \in Prios : Contents(queues'[x]) \in Seq(TasksOf(x))
    <3> HIDE DEF q, r
    <3> QED
      BY <1>5, <2>2, <2>4
  <2>7. ASSUME NEW u \in Tasks
        PROVE  NumQueued(u) = NumQueued(u)' + (IF t = u THEN 1 ELSE 0)
               /\ NumQueued(u)' \in Nat
    <3>1. CASE TaskPrio[u] # p
      <4>1. TaskPrio[u] \in Prios /\ NumQueued(u) \in Nat
        BY QueuedIsPlaces
      <4>2. queues'[TaskPrio[u]] = queues[TaskPrio[u]]
        BY <2>2, <3>1, <4>1
      <4>3. NumQueued(u)' = NumQueued(u)
        BY <4>2 DEF NumQueued
      <4>4. t # u
        BY <2>5, <3>1
      <4> HIDE DEF t
      <4> QED
        BY <4>1, <4>3, <4>4
    <3>2. CASE TaskPrio[u] = p
      <4>1. NumQueued(u)' = Cardinality(Places(r, u))
        BY <2>2, <3>2 DEF NumQueued, Places
      <4>2. NumQueued(u) = Cardinality(Places(q, u))
        BY <3>2, QueuedIsPlaces
      <4>3. Cardinality(Places(q, u))
              = Cardinality(Places(r, u)) + (IF t = u THEN 1 ELSE 0)
        BY <2>1, PopCopies
      <4>4. Cardinality(Places(r, u)) \in Nat
        <5>1. r \in QueueType(Tasks \cup {NULL}, QSize[p])
          BY <2>1, PopTyped
        <5> HIDE DEF r
        <5> QED
          BY <2>1, <5>1, PlacesFinite
      <4> HIDE DEF q, r, t
      <4> QED
        BY <4>1, <4>2, <4>3, <4>4
    <3> QED
      BY <3>1, <3>2
  <2>8. noAct[t] # 0
    <3>1. \A u \in Tasks : t = u => NumQueued(u) # 0
      BY <2>7
    <3>2. NumQueued(t) # 0
      <4> HIDE DEF t
      <4> QED
        BY <2>5, <3>1
    <3> QED
      BY <1>4, <2>5, <3>2
  <2>9. /\ noAct'[t] = noAct[t] - 1
        /\ \A u \in Tasks : u # t => noAct'[u] = noAct[u]
    BY <1>7, <2>5, <2>8 DEF Pops, DataInv, Uint8Dec
  <2>10. refused' = refused /\ refused \in [Tasks -> Nat]
    BY <1>7 DEF Pops, CountInv
  <2>11. ASSUME NEW u \in Tasks
         PROVE  /\ noAct'[u] = NumQueued(u)' + refused'[u]
                /\ noAct'[u] + Cardinality(Pending(u))' <= ActLimit + Cardinality(Levels)
    <3> HIDE DEF t
    <3>1. CASE u = t
      BY <1>3, <1>4, <2>7, <2>8, <2>9, <2>10, <3>1
    <3>2. CASE u # t
      BY <1>3, <1>4, <2>7, <2>9, <2>10, <3>2
    <3> QED
      BY <3>1, <3>2
  <2> QED
    BY <2>6, <2>10, <2>11 DEF CountInv
<1>8. ASSUME NEW p, Clears(p)
      PROVE  CountInv'
  <2>1. UNCHANGED <<noAct, queues, refused>>
    BY <1>8 DEF Clears
  <2>2. \A t \in Tasks : Pending(t)' \subseteq Pending(t)
    BY <1>2
  <2> QED
    BY <2>1, <2>2, CallsCount
<1> QED
  BY Stored, <1>6, <1>7, <1>8

LEMMA NextCounts ==
  ASSUME QSizeFits, ActFits, IInv, DataInv, CountInv, [Next]_vars
  PROVE  CountInv'
<1>1. pc \in [Levels -> Steps] /\ DOMAIN op = Levels
  BY DEF IInv, DataInv
<1>2. ASSUME NEW c \in Levels, NEW call, Call(c, call),
             \A t \in Tasks : call = <<"activate", t>> => noAct[t] < ActLimit
      PROVE  CountInv'
  <2>1. /\ pc' = [pc EXCEPT ![c] = "count"] /\ op' = [op EXCEPT ![c] = call]
        /\ UNCHANGED <<noAct, queues, refused>>
    BY <1>2 DEF Call, Goto, data
  <2>2. ASSUME NEW t \in Tasks, call # <<"activate", t>>
        PROVE  Pending(t)' \subseteq Pending(t)
    BY <1>1, <2>1, <2>2 DEF Pending
  <2>3. \A t \in Tasks : Pending(t)' \subseteq Pending(t) \/ noAct[t] < ActLimit
    BY <1>2, <2>2
  <2> QED
    BY <2>1, <2>3, CallsCount
<1>3. ASSUME NEW c \in Levels, NEW from, NEW to, Goto(c, from, to),
             to \in Before => from \in Before,
             \A d \in Levels : d # c => op'[d] = op[d],
             to \in Before => op'[c] = op[c],
             UNCHANGED <<noAct, queues, refused>>
      PROVE  CountInv'
  <2>1. pc[c] = from /\ pc' = [pc EXCEPT ![c] = to]
    BY <1>3 DEF Goto
  <2>2. ASSUME NEW t, NEW d \in Pending(t)'
        PROVE  d \in Pending(t)
    <3>1. d \in Levels /\ op'[d] = <<"activate", t>> /\ pc'[d] \in Before
      BY DEF Pending
    <3>2. CASE d = c
      BY <1>1, <1>3, <2>1, <3>1, <3>2 DEF Pending
    <3>3. CASE d # c
      BY <1>1, <1>3, <2>1, <3>1, <3>3 DEF Pending
    <3> QED
      BY <3>2, <3>3
  <2>3. \A t \in Tasks : Pending(t)' \subseteq Pending(t)
    BY <2>2
  <2> QED
    BY <1>3, <2>3, CallsCount
<1>4. ASSUME NEW c \in Levels, Calls(c)
      PROVE  CountInv'
  <2>1. ASSUME NEW t \in Activates[c], noAct[t] < ActLimit, Call(c, <<"activate", t>>)
        PROVE  CountInv'
    <3>1. \A u \in Tasks : <<"activate", t>> = <<"activate", u>> => noAct[u] < ActLimit
      BY <2>1
    <3> QED
      BY <1>2, <2>1, <3>1
  <2>2. ASSUME NEW what \in {"terminate", "drain"}, Call(c, <<what, Serves[c]>>)
        PROVE  CountInv'
    <3>1. \A u \in Tasks : <<what, Serves[c]>> # <<"activate", u>>
      BY <2>2
    <3> QED
      BY <1>2, <2>2, <3>1
  <2> QED
    BY <1>4, <2>1, <2>2 DEF Calls
<1>5. ASSUME NEW c \in Levels, LoadCount(c) \/ StoreCount(c) \/ Mask(c) \/ LoadWords(c)
      PROVE  CountInv'
  <2>1. UNCHANGED <<noAct, queues, refused, op>>
    BY <1>5 DEF LoadCount, StoreCount, Mask, LoadWords, data
  <2>2. \E from, to : Goto(c, from, to) /\ (to \in Before => from \in Before)
    BY <1>5 DEF LoadCount, StoreCount, Mask, LoadWords, Before
  <2> QED
    BY <1>3, <2>1, <2>2
<1>6. ASSUME NEW c \in Levels, Unmask(c)
      PROVE  CountInv'
  <2>1. /\ UNCHANGED <<noAct, queues, refused>>
        /\ Goto(c, "unmask", "out") \/ Goto(c, "unmask", "in")
        /\ \A d \in Levels : d # c => op'[d] = op[d]
    BY <1>1, <1>6 DEF Unmask, data
  <2> QED
    BY <1>3, <2>1 DEF Before
<1>7. CASE UNCHANGED vars
  <2>1. UNCHANGED <<noAct, queues, refused>> /\ \A t \in Tasks : Pending(t)' = Pending(t)
    BY <1>7 DEF vars, data, Pending
  <2> QED
    BY <2>1, CallsCount
<1>8. ASSUME NEW c \in Levels, StoreWords(c)
      PROVE  CountInv'
  BY <1>8, StoresCount
<1>9. ASSUME NEW c \in Levels, Return(c)
      PROVE  CountInv'
  BY <1>3, <1>9 DEF Return, data, Before
<1> QED
  BY <1>4, <1>5, <1>6, <1>7, <1>8, <1>9 DEF Next

(* If the port masks, no activation is lost, whoever preempts whom between *)
(* the loads and the stores: what is counted is queued or was refused.     *)
(* (osek.c:218-224, 258-269)                                               *)
THEOREM ActivationsKept ==
  ASSUME QSizeFits, OneDispatcher, Masking, ActFits PROVE Spec => []NothingLost
<1>1. Init => CountInv
  BY InitCounts
<1>2. IInv /\ DataInv /\ CountInv /\ [Next]_vars => CountInv'
  BY NextCounts
<1>3. CountInv => NothingLost
  BY DEF CountInv, NothingLost
<1> QED
  BY <1>1, <1>2, <1>3, DataInvariance, PTL DEF Spec
=============================================================================
