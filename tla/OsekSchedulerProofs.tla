------------------------ MODULE OsekSchedulerProofs ------------------------
(***************************************************************************)
(* The kernel implements PriorityScheduler, for every number of priorities *)
(* without gaps, every size of the queues and every set of tasks: each of  *)
(* its steps is an action of the scheduler, or changes nothing of it.  And *)
(* its scheduler never runs out of work: idle is ready when no one else is.*)
(***************************************************************************)
EXTENDS OsekKernelOrderProofs

(* The scheduler's variables, as Scheduler maps them.                      *)
fifos    == [p \in Prios |-> Contents(queues[p])]
serves   == [p \in Prios |-> IF Serving(p) THEN run[p] ELSE NULL]
retirees == {p \in Prios : Drained(p)}
delayed  == {p \in Prios : /\ currQueue # NULL /\ p > currQueue
                           /\ (CutOff(p) \/ Exported)}

(* main() is not left inside a critical section.                           *)
MainLeft == currQueue # NULL => pc[NULL] \notin CriticalSections
-----------------------------------------------------------------------------
(***************************************************************************)
(* The queues as sequences.                                                *)
(***************************************************************************)
LEMMA FifoOf ==
  ASSUME QSizeFits, QueuesOK, NEW p \in Prios
  PROVE  /\ fifos[p] = Contents(queues[p])
         /\ fifos[p] # <<>> <=> Top(p) # NULL
         /\ Top(p) # NULL => Head(fifos[p]) = Top(p) /\ queues[p].queue_size # 0
         /\ IsFull(queues[p]) <=> ~(Len(fifos[p]) < QSize[p])
<1> DEFINE q == queues[p]
<1>1. /\ QSize[p] \in 1 .. Int8Max /\ q \in QueueType(Tasks \cup {NULL}, QSize[p])
      /\ Contents(q) \in Seq(TasksOf(p))
  BY DEF QSizeFits, QueuesOK
<1>2. fifos[p] = Contents(q)
  BY DEF fifos
<1>3. Len(Contents(q)) = q.queue_size
  BY <1>1, ContentsSeq
<1>4. IsFull(q) <=> ~(Len(Contents(q)) < QSize[p])
  BY <1>1, <1>3, Int8Assumption DEF IsFull, QueueType
<1>5. CASE q.queue_size = 0
  <2>1. Contents(q) = <<>> /\ TopFromQueue(q) = NULL
    BY <1>1, <1>5, TopIsHead
  <2> QED
    BY <1>2, <1>4, <2>1 DEF Top
<1>6. CASE q.queue_size # 0
  <2>1. Contents(q) # <<>> /\ TopFromQueue(q) = Head(Contents(q))
    BY <1>1, <1>6, TopIsHead
  <2>2. Head(Contents(q)) \in TasksOf(p)
    BY <1>1, <2>1, HeadTailProperties
  <2> QED
    BY <1>2, <1>4, <1>6, <2>1, <2>2, KernelAssumption DEF Top, TasksOf
<1> QED
  BY <1>5, <1>6

LEMMA PushFifos ==
  ASSUME QSizeFits, QueuesOK, NEW t \in Tasks,
         queues' = [queues EXCEPT ![TaskPrio[t]] = PushToQueue(@, t)]
  PROVE  IF Len(fifos[TaskPrio[t]]) < QSize[TaskPrio[t]]
         THEN fifos' = [fifos EXCEPT ![TaskPrio[t]] = Append(@, t)]
         ELSE fifos' = fifos
<1> DEFINE w == TaskPrio[t]
           q == queues[w]
           P == Tasks \cup {NULL}
<1>1. w \in Prios /\ t \in P
  BY KernelAssumption
<1>2. /\ QSize[w] \in 1 .. Int8Max /\ q \in QueueType(P, QSize[w]) /\ RingOK(q)
      /\ DOMAIN queues = Prios
  BY <1>1 DEF QSizeFits, QueuesOK
<1>3. queues'[w] = PushToQueue(q, t) /\ \A p \in Prios : p # w => queues'[p] = queues[p]
  BY <1>1, <1>2
<1>4. fifos[w] = Contents(q) /\ (IsFull(q) <=> ~(Len(fifos[w]) < QSize[w]))
  BY <1>1, FifoOf
<1>5. CASE IsFull(q)
  <2>1. \A p \in Prios : queues'[p] = queues[p]
    BY <1>3, <1>5 DEF PushToQueue
  <2>2. fifos' = fifos
    BY <2>1 DEF fifos
  <2> QED
    BY <1>4, <1>5, <2>2
<1>6. CASE ~IsFull(q)
  <2>1. Contents(PushToQueue(q, t)) = Append(Contents(q), t)
    BY <1>1, <1>2, <1>6, PushIsAppend
  <2>2. fifos'[w] = Append(fifos[w], t)
    BY <1>1, <1>3, <1>4, <2>1 DEF fifos
  <2>3. \A p \in Prios : p # w => fifos'[p] = fifos[p]
    BY <1>3 DEF fifos
  <2>4. fifos' = [fifos EXCEPT ![w] = Append(@, t)]
    <3> HIDE DEF w
    <3> QED
      BY <2>2, <2>3 DEF fifos
  <2> QED
    BY <1>4, <1>6, <2>4
<1> QED
  BY <1>5, <1>6

LEMMA PopFifos ==
  ASSUME QSizeFits, QueuesOK, NEW c \in Prios, Top(c) # NULL,
         queues' = [queues EXCEPT ![c] = PopFromQueue(@)]
  PROVE  fifos' = [fifos EXCEPT ![c] = Tail(@)]
<1> DEFINE q == queues[c]
<1>1. /\ QSize[c] \in 1 .. Int8Max /\ q \in QueueType(Tasks \cup {NULL}, QSize[c])
      /\ RingOK(q) /\ DOMAIN queues = Prios
  BY DEF QSizeFits, QueuesOK
<1>2. queues'[c] = PopFromQueue(q) /\ \A p \in Prios : p # c => queues'[p] = queues[p]
  BY <1>1
<1>3. q.queue_size # 0
  BY FifoOf
<1>4. Contents(PopFromQueue(q)) = Tail(Contents(q))
  BY <1>1, <1>3, PopIsTail
<1>5. \A p \in Prios : Contents(queues'[p]) = IF p = c THEN Tail(fifos[c]) ELSE fifos[p]
  BY <1>2, <1>4, FifoOf DEF fifos
<1> QED
  BY <1>5 DEF fifos
-----------------------------------------------------------------------------
(***************************************************************************)
(* What the scheduler sees of a step.                                      *)
(***************************************************************************)
(* Who is late depends on the contexts that do not execute.                *)
LEMMA LateKept ==
  ASSUME \/ \E c \in Contexts : \E from, to : Moves(c, from, to)
         \/ UNCHANGED <<currQueue, ctxVars>>
  PROVE  delayed' = delayed
<1>1. CASE UNCHANGED <<currQueue, ctxVars>>
  BY <1>1 DEF ctxVars, delayed, CutOff, Exported
<1>2. ASSUME NEW c \in Contexts, NEW from, NEW to, Moves(c, from, to)
      PROVE  delayed' = delayed
  <2>1. c = currQueue /\ currQueue' = currQueue
        /\ \A d \in Contexts : d # c => pc'[d] = pc[d] /\ ret'[d] = ret[d] /\ arg'[d] = arg[d]
    BY <1>2 DEF Moves, Executes, Alone
  <2>2. Exported' <=> Exported
    BY <2>1 DEF Exported
  <2>3. ASSUME NEW p \in Prios PROVE CutOff(p)' <=> CutOff(p)
    <3>1. ASSUME NEW d \in Prios, d < currQueue, currQueue # NULL
          PROVE  d # c /\ d \in Contexts
      BY <2>1, <3>1, KernelAssumption DEF Contexts
    <3> QED
      BY <2>1, <3>1 DEF CutOff
  <2> QED
    BY <2>1, <2>2, <2>3 DEF delayed
<1> QED
  BY <1>1, <1>2

(* A step of a context that serves and retires as before.                  *)
LEMMA SameService ==
  ASSUME NEW c \in Contexts, NEW from, NEW to, Moves(c, from, to),
         c \in Prios => /\ Serving(c)' <=> Serving(c)
                        /\ Serving(c) => run'[c] = run[c]
                        /\ Drained(c)' <=> Drained(c)
  PROVE  serves' = serves /\ retirees' = retirees
<1>1. \A p \in Prios : /\ Serving(p)' <=> Serving(p)
                       /\ Serving(p) => run'[p] = run[p]
                       /\ Drained(p)' <=> Drained(p)
  BY DEF Moves, Alone, Serving, Drained, Contexts
<1> QED
  BY <1>1 DEF serves, retirees

LEMMA Stutters ==
  ASSUME fifos' = fifos, serves' = serves, retirees' = retirees, delayed' = delayed
  PROVE  UNCHANGED Scheduler!vars
  BY DEF Scheduler!vars, fifos, serves, retirees, delayed

(* Work left behind in the scheduler's terms.                              *)
LEMMA StrandedIsExhausted ==
  ASSUME QSizeFits, QueuesOK PROVE Scheduler!Stranded <=> Exhausted
<1>1. \A p \in Prios : Contents(queues[p]) # <<>> <=> TopFromQueue(queues[p]) # NULL
  BY FifoOf DEF Top
<1> QED
  BY <1>1 DEF Scheduler!Stranded, Exhausted
-----------------------------------------------------------------------------
(***************************************************************************)
(* The steps.                                                              *)
(***************************************************************************)
(* A critical section that pushes activates, or stutters at a full queue.  *)
LEMMA PushActivates ==
  ASSUME QSizeFits, QueuesOK, NEW t \in Tasks,
         queues' = [queues EXCEPT ![TaskPrio[t]] = PushToQueue(@, t)],
         serves' = serves, retirees' = retirees, delayed' = delayed
  PROVE  Scheduler!Next \/ UNCHANGED Scheduler!vars
<1> DEFINE w == TaskPrio[t]
<1>1. CASE Len(fifos[w]) < QSize[w]
  <2>1. fifos' = [fifos EXCEPT ![w] = Append(@, t)]
    BY <1>1, PushFifos
  <2>2. Scheduler!Activate(t)
    BY <1>1, <2>1, KernelAssumption DEF Scheduler!Activate, fifos, serves, retirees, delayed
  <2> QED
    BY <2>2 DEF Scheduler!Next
<1>2. CASE ~(Len(fifos[w]) < QSize[w])
  BY <1>2, PushFifos, Stutters
<1> QED
  BY <1>1, <1>2

(* The dispatcher's turn starts the head of its queue: no higher priority  *)
(* has work, but for those that are late.                                  *)
LEMMA DispatchStarts ==
  ASSUME QSizeFits, OrderInv, NoMissedPreemption, NEW c \in Prios, DispatchTask(c)
  PROVE  Scheduler!Start(c)
<1>1. /\ Moves(c, "loop", "task") /\ ret[c] = "none" /\ run'[c] = Top(c)
      /\ Top(c) \in Tasks /\ queues' = queues /\ readySet' = readySet
      /\ ret' = ret
  BY DispatchTaskMoves DEF OrderInv
<1>2. /\ currQueue = c /\ Executes(c) /\ pc[c] = "loop" /\ pc'[c] = "task" /\ Alone(c)
      /\ c \in Contexts /\ c # NULL
  BY <1>1, KernelAssumption DEF Moves, Executes, Contexts
<1>3. /\ fifos' = fifos /\ delayed' = delayed /\ Top(c) # NULL
      /\ fifos[c] # <<>> /\ Head(fifos[c]) = Top(c)
  BY <1>1, <1>2, LateKept, FifoOf, KernelAssumption DEF fifos, OrderInv, IInv
<1>4. retirees' = retirees /\ c \notin retirees /\ serves[c] = NULL
  BY <1>1, <1>2 DEF retirees, Drained, serves, Serving, Alone, Contexts
<1>5. serves' = [serves EXCEPT ![c] = Head(fifos[c])]
  <2>1. \A p \in Prios : p # c => run'[p] = run[p] /\ (Serving(p)' <=> Serving(p))
    BY <1>2 DEF Alone, Serving, Contexts
  <2>2. Serving(c)' /\ run'[c] = Head(fifos[c])
    BY <1>1, <1>2, <1>3 DEF Serving
  <2> QED
    BY <2>1, <2>2 DEF serves
<1>6. ASSUME ~Exhausted, NEW q \in Prios, q > c, fifos[q] # <<>>
      PROVE  q \in delayed
  <2>1. Top(q) # NULL
    BY <1>6, FifoOf DEF OrderInv, IInv
  <2>2. q \in readySet
    BY <1>6, <2>1 DEF OrderInv, IInv, LostOnlyByDrain, Exhausted, Top
  <2>3. pendSV \/ CutOff(q)
    BY <1>2, <1>6, <2>2 DEF NoMissedPreemption, Executes, Schedulers
  <2>4. pendSV => Exported
    BY <1>2, PendingWaits DEF OrderInv, CriticalSections, Stuck
  <2> QED
    BY <1>2, <1>6, <2>3, <2>4 DEF delayed
<1>7. Scheduler!Stranded \/ \A q \in Prios : q > c => fifos[q] = <<>> \/ q \in delayed
  BY <1>6, StrandedIsExhausted DEF OrderInv, IInv
<1> QED
  BY <1>3, <1>4, <1>5, <1>7 DEF Scheduler!Start, fifos, serves, retirees, delayed

(* The critical section of TerminateTask finishes the task in service, and *)
(* no higher one is.                                                       *)
LEMMA TerminateFinishes ==
  ASSUME QSizeFits, OrderInv, ProperlyNested, NEW c \in Prios, TerminateTask(c)
  PROVE  Scheduler!Finish(c)
<1>1. /\ Moves(c, "termCS", "read") /\ ret[c] \in {"taskEnd", "chain"}
      /\ run[c] \in Tasks /\ Top(c) = run[c] /\ ret' = ret
      /\ queues' = [queues EXCEPT ![c] = PopFromQueue(@)]
  BY TerminateTaskMoves DEF OrderInv
<1>2. /\ currQueue = c /\ pc[c] = "termCS" /\ pc'[c] = "read" /\ Alone(c)
      /\ c \in Contexts /\ c # NULL
  BY <1>1, KernelAssumption DEF Moves, Executes, Contexts
<1>3. fifos' = [fifos EXCEPT ![c] = Tail(@)] /\ delayed' = delayed
  BY <1>1, <1>2, LateKept, PopFifos, KernelAssumption DEF OrderInv, IInv
<1>4. retirees' = retirees /\ serves[c] # NULL
  BY <1>1, <1>2, KernelAssumption DEF retirees, Drained, serves, Serving, Alone, Contexts
<1>5. serves' = [serves EXCEPT ![c] = NULL]
  <2>1. \A p \in Prios : p # c => run'[p] = run[p] /\ (Serving(p)' <=> Serving(p))
    BY <1>2 DEF Alone, Serving, Contexts
  <2>2. ~Serving(c)'
    BY <1>1, <1>2 DEF Serving
  <2> QED
    BY <2>1, <2>2 DEF serves
<1>6. ASSUME ~Exhausted, NEW q \in Prios, q > c PROVE serves[q] = NULL
  <2>1. pc[q] \in {"nostack", "loop"} \/ Drained(q)
    BY <1>2, <1>6 DEF ProperlyNested
  <2>2. ~Serving(q)
    BY <2>1 DEF OrderInv, IInv, Control, Frame, Returns, Schedulers, Serving, Drained,
       Contexts
  <2> QED
    BY <2>2 DEF serves
<1>7. Scheduler!Stranded \/ \A q \in Prios : q > c => serves[q] = NULL
  BY <1>6, StrandedIsExhausted DEF OrderInv, IInv
<1> QED
  BY <1>3, <1>4, <1>5, <1>7 DEF Scheduler!Finish, fifos, serves, retirees, delayed

(* The critical section behind the dispatcher's loop retires its priority. *)
LEMMA ClearRetires ==
  ASSUME QSizeFits, OrderInv, NEW c \in Prios, ClearReadyBit(c)
  PROVE  Scheduler!Retire(c)
<1>1. /\ Moves(c, "drainCS", "read") /\ ret[c] = "none" /\ ret'[c] = "exit"
      /\ queues' = queues
  BY ClearReadyBitMoves DEF OrderInv, IInv
<1>2. pc[c] = "drainCS" /\ pc'[c] = "read" /\ Alone(c) /\ c \in Contexts
  BY <1>1 DEF Moves, Contexts
<1>3. fifos' = fifos /\ delayed' = delayed
  BY <1>1, <1>2, LateKept DEF fifos
<1>4. serves' = serves /\ serves[c] = NULL
  <2>1. \A p \in Prios : p # c => run'[p] = run[p] /\ (Serving(p)' <=> Serving(p))
    BY <1>2 DEF Alone, Serving, Contexts
  <2>2. ~Serving(c) /\ ~Serving(c)'
    BY <1>1, <1>2 DEF Serving
  <2> QED
    BY <2>1, <2>2 DEF serves
<1>5. c \notin retirees /\ retirees' = retirees \cup {c}
  BY <1>1, <1>2 DEF retirees, Drained, Alone, Contexts
<1> QED
  BY <1>3, <1>4, <1>5 DEF Scheduler!Retire, fifos, serves, retirees, delayed

(* A switch of context gives the processor to another priority; who is     *)
(* late behind it waits for a lower one that has not retired.              *)
LEMMA SwitchSwitches ==
  ASSUME QSizeFits, OrderInv, OrderInv', ProperlyNested', MainLeft', contextSwitchISR
  PROVE  Scheduler!Switch
<1>1. UNCHANGED <<queues, ctxVars>>
  BY DEF contextSwitchISR, osVars
<1>2. fifos' = fifos /\ serves' = serves /\ retirees' = retirees
  BY <1>1 DEF fifos, serves, retirees, Serving, Drained, ctxVars
<1>3. ASSUME ~Exhausted, NEW q \in delayed'
      PROVE  \E p \in Prios \ retirees : p < q
  <2>1. /\ q \in Prios /\ currQueue' # NULL /\ q > currQueue' /\ currQueue' \in Prios
        /\ CutOff(q)' \/ Exported'
    BY DEF delayed, OrderInv, IInv, TypeOK, Contexts
  <2>2. CASE CutOff(q)'
    <3>1. PICK c \in Prios : c < currQueue' /\ pc'[c] = "read" /\ ret'[c] \in {"task", "taskEnd"}
      BY <2>2 DEF CutOff
    <3>2. c < q
      BY <2>1, <3>1, KernelAssumption
    <3>3. ~Drained(c)
      BY <1>1, <3>1 DEF Drained, ctxVars
    <3> QED
      BY <3>2, <3>3 DEF retirees
  <2>3. CASE Exported'
    <3>1. PICK d \in Contexts : d # currQueue' /\ pc'[d] \in CriticalSections
      BY <2>3 DEF Exported
    <3>2. d \in Prios
      BY <2>1, <3>1 DEF MainLeft, Contexts
    <3>3. ~Drained(d) /\ ~Drained(d)'
      BY <1>1, <3>1, <3>2 DEF OrderInv, IInv, Control, Frame, Returns, Schedulers,
         CriticalSections, Drained, Contexts, ctxVars
    <3>4. ~(d > currQueue')
      BY <1>1, <1>3, <2>1, <3>1, <3>2, <3>3 DEF ProperlyNested, Exhausted, CriticalSections,
         Drained, ctxVars
    <3>5. d < q
      BY <2>1, <3>1, <3>2, <3>4, KernelAssumption
    <3> QED
      BY <3>2, <3>3, <3>5 DEF retirees
  <2> QED
    BY <2>1, <2>2, <2>3
<1>4. delayed' \in SUBSET Prios
  BY DEF delayed
<1>5. Scheduler!Stranded \/ \A q \in delayed' : \E p \in Prios \ retirees : p < q
  BY <1>3, StrandedIsExhausted DEF OrderInv, IInv
<1> QED
  BY <1>2, <1>4, <1>5 DEF Scheduler!Switch, fifos, serves, retirees, delayed
-----------------------------------------------------------------------------
(***************************************************************************)
(* The rest stutters.                                                      *)
(***************************************************************************)
LEMMA ContextStutters ==
  ASSUME QSizeFits, OrderInv, NEW c \in Contexts,
         \/ Lock(c) \/ ScheduleRead(c) \/ ScheduleStore(c) \/ ScheduleCompare(c)
         \/ ScheduleMark(c) \/ SchedulePend(c)
  PROVE  UNCHANGED Scheduler!vars
<1>1. IInv
  BY DEF OrderInv
<1>2. ASSUME NEW from, NEW to, Moves(c, from, to), queues' = queues,
             Serving(c)' <=> Serving(c), Drained(c)' <=> Drained(c), run' = run
      PROVE  UNCHANGED Scheduler!vars
  <2>1. fifos' = fifos /\ delayed' = delayed
    BY <1>2, LateKept DEF fifos
  <2>2. serves' = serves /\ retirees' = retirees
    BY <1>2, SameService
  <2> QED
    BY <2>1, <2>2, Stutters
<1>3. ASSUME NEW from, NEW to, Moves(c, from, to), queues' = queues, run' = run, ret' = ret,
             from \notin {"task", "term", "termCS", "shutdown", "exit"},
             to \notin {"task", "term", "termCS", "shutdown", "exit"}
      PROVE  UNCHANGED Scheduler!vars
  BY <1>2, <1>3 DEF Moves, Serving, Drained
<1>4. ASSUME NEW from \in {"compare", "pend"}, Moves(c, from, ret[c]), ret'[c] = "none",
             ret[c] \in {"task", "taskEnd", "chain", "loop", "exit", "main", "lost"},
             queues' = queues, run' = run
      PROVE  UNCHANGED Scheduler!vars
  BY <1>2, <1>4 DEF Moves, Serving, Drained
<1>5. CASE Lock(c)
  <2>1. CASE Moves(c, "term", "termCS")
    BY <1>1, <1>2, <1>5, <2>1, LockMoves DEF Moves, Serving, Drained
  <2> QED
    BY <1>1, <1>3, <1>5, <2>1, LockMoves
<1>6. CASE ScheduleRead(c)
  BY <1>1, <1>3, <1>6, ScheduleReadMoves
<1>7. CASE ScheduleStore(c)
  BY <1>1, <1>3, <1>7, ScheduleStoreMoves
<1>8. CASE ScheduleCompare(c)
  BY <1>1, <1>3, <1>4, <1>8, ScheduleCompareMoves
<1>9. CASE ScheduleMark(c)
  BY <1>1, <1>3, <1>9, ScheduleMarkMoves
<1>10. CASE SchedulePend(c)
  BY <1>1, <1>4, <1>10, SchedulePendMoves
<1> QED
  BY <1>5, <1>6, <1>7, <1>8, <1>9, <1>10

LEMMA ThreadStutters ==
  ASSUME QSizeFits, OrderInv, NEW c \in Prios,
         LeaveLoop(c) \/ TaskReturns(c) \/ Body(c) \/ ChainContinues(c)
  PROVE  UNCHANGED Scheduler!vars
<1>1. IInv /\ c \in Contexts
  BY DEF OrderInv, Contexts
<1>2. ASSUME NEW from, NEW to, Moves(c, from, to), queues' = queues,
             Serving(c)' <=> Serving(c), Serving(c) => run'[c] = run[c],
             Drained(c)' <=> Drained(c)
      PROVE  UNCHANGED Scheduler!vars
  <2>1. fifos' = fifos /\ delayed' = delayed
    BY <1>1, <1>2, LateKept DEF fifos
  <2>2. serves' = serves /\ retirees' = retirees
    BY <1>1, <1>2, SameService
  <2> QED
    BY <2>1, <2>2, Stutters
<1>3. CASE LeaveLoop(c)
  BY <1>1, <1>2, <1>3, LeaveLoopMoves DEF Moves, Serving, Drained
<1>4. CASE TaskReturns(c)
  BY <1>1, <1>2, <1>4, TaskReturnsMoves DEF Moves, Serving, Drained
<1>5. CASE Body(c)
  BY <1>1, <1>2, <1>5, BodyMoves DEF Moves, Serving, Drained
<1>6. CASE ChainContinues(c)
  BY <1>1, <1>2, <1>6, ChainContinuesMoves DEF Moves, Serving, Drained
<1> QED
  BY <1>3, <1>4, <1>5, <1>6

LEMMA StartupStutters ==
  ASSUME QSizeFits, OrderInv,
         \/ MainActivate \/ StartOS \/ InitReady \/ InitState
         \/ \E p \in Prios : InitQueue(p)
  PROVE  UNCHANGED Scheduler!vars
<1>1. IInv /\ NULL \in Contexts /\ NULL \notin Prios
  BY KernelAssumption DEF OrderInv, Contexts
<1>2. ASSUME NEW from, NEW to, Moves(NULL, from, to), queues' = queues
      PROVE  UNCHANGED Scheduler!vars
  <2>1. fifos' = fifos /\ delayed' = delayed
    BY <1>1, <1>2, LateKept DEF fifos
  <2>2. serves' = serves /\ retirees' = retirees
    BY <1>1, <1>2, SameService
  <2> QED
    BY <2>1, <2>2, Stutters
<1>3. CASE MainActivate \/ StartOS
  BY <1>1, <1>2, <1>3, MainCalls
<1>4. CASE InitReady \/ InitState
  BY <1>1, <1>2, <1>4, InitMoves
<1>5. ASSUME NEW p \in Prios, InitQueue(p) PROVE UNCHANGED Scheduler!vars
  <2>1. /\ currQueue = NULL /\ currQueue' = NULL /\ queues' = queues
        /\ pc[p] = "nostack" /\ pc'[p] = "loop" /\ ret' = ret /\ run' = run
        /\ \A d \in Prios : d # p => pc'[d] = pc[d]
    BY <1>1, <1>5, InitQueueMoves DEF Executes, Contexts
  <2>2. fifos' = fifos /\ delayed' = delayed
    BY <2>1 DEF fifos, delayed
  <2>3. \A q \in Prios : (Serving(q)' <=> Serving(q)) /\ (Drained(q)' <=> Drained(q))
    BY <2>1 DEF Serving, Drained
  <2>4. serves' = serves /\ retirees' = retirees
    BY <2>1, <2>3 DEF serves, retirees
  <2> QED
    BY <2>2, <2>4, Stutters
<1> QED
  BY <1>3, <1>4, <1>5

(* InitOS queues idle while there is room for it.                          *)
LEMMA InitPushActivates ==
  ASSUME QSizeFits, OrderInv, InitPush
  PROVE  Scheduler!Next \/ UNCHANGED Scheduler!vars
<1> DEFINE w == TaskPrio[idle]
<1>1. /\ IInv /\ NULL \in Contexts /\ NULL \notin Prios /\ w \in Prios /\ idle \in Tasks
  BY KernelAssumption DEF OrderInv, Contexts
<1>2. /\ Moves(NULL, "initCS", "read")
      /\ queues' = [queues EXCEPT ![w] = Pushed(@, idle)]
  BY <1>1, InitPushMoves
<1>3. ~IsFull(queues[w])
  BY <1>2 DEF Moves, Executes, OrderInv, Starting
<1>4. queues' = [queues EXCEPT ![w] = PushToQueue(@, idle)]
  BY <1>2, <1>3 DEF PushToQueue
<1>5. delayed' = delayed
  BY <1>1, <1>2, LateKept
<1>6. serves' = serves /\ retirees' = retirees
  BY <1>1, <1>2, SameService
<1> QED
  BY <1>1, <1>4, <1>5, <1>6, PushActivates DEF IInv

(* ActivateTask, called by a context or by a handler.                      *)
LEMMA ActivateTaskActivates ==
  ASSUME QSizeFits, OrderInv, NEW c \in Contexts, ActivateTask(c)
  PROVE  Scheduler!Next \/ UNCHANGED Scheduler!vars
<1>1. /\ IInv /\ Moves(c, "actCS", "read") /\ arg[c] \in Tasks
      /\ ret' = ret /\ run' = run
      /\ queues' = [queues EXCEPT ![TaskPrio[arg[c]]] = PushToQueue(@, arg[c])]
  BY ActivateTaskMoves DEF OrderInv, Activate
<1>2. delayed' = delayed
  BY <1>1, LateKept
<1>3. serves' = serves /\ retirees' = retirees
  BY <1>1, SameService DEF Moves, Serving, Drained
<1> QED
  BY <1>1, <1>2, <1>3, PushActivates DEF IInv

LEMMA IsrActivates ==
  ASSUME QSizeFits, OrderInv, NEW t \in IsrTasks, IsrActivateTask(t)
  PROVE  Scheduler!Next \/ UNCHANGED Scheduler!vars
<1>1. /\ t \in Tasks /\ UNCHANGED <<currQueue, ctxVars>>
      /\ queues' = [queues EXCEPT ![TaskPrio[t]] = PushToQueue(@, t)]
  BY KernelAssumption DEF IsrActivateTask, Activate
<1>2. delayed' = delayed
  BY <1>1, LateKept
<1>3. serves' = serves /\ retirees' = retirees
  BY <1>1 DEF serves, retirees, Serving, Drained, ctxVars
<1> QED
  BY <1>1, <1>2, <1>3, PushActivates DEF OrderInv, IInv

(* Handlers that queue nothing, and steps that change no context.          *)
LEMMA QuietStutters ==
  ASSUME queues' = queues, UNCHANGED <<currQueue, ctxVars>>
  PROVE  UNCHANGED Scheduler!vars
<1>1. fifos' = fifos /\ serves' = serves /\ retirees' = retirees
  BY DEF fifos, serves, retirees, Serving, Drained, ctxVars
<1> QED
  BY <1>1, LateKept, Stutters
-----------------------------------------------------------------------------
(***************************************************************************)
(* The refinement.                                                         *)
(***************************************************************************)
LEMMA NextMainLeft ==
  ASSUME QSizeFits, OrderInv, MainAlone, MainLeft, [Next]_vars
  PROVE  MainLeft'
<1>1. SUFFICES ASSUME currQueue' # NULL PROVE pc'[NULL] \notin CriticalSections
  BY DEF MainLeft
<1>2. NULL \in Contexts /\ NULL \notin Prios
  BY KernelAssumption DEF Contexts
<1>3. ASSUME NEW c \in Contexts, NEW from, NEW to, Advances(c, from, to)
      PROVE  pc'[NULL] \notin CriticalSections
  BY <1>1, <1>2, <1>3 DEF Advances, Moves, Executes, Alone, MainLeft
<1>4. CASE Handles
  BY <1>1, <1>4 DEF Handles, MainLeft, ctxVars
<1>5. CASE contextSwitchISR
  BY <1>5 DEF contextSwitchISR, MainLeft, MainAlone, ctxVars
<1>6. CASE Still
  BY <1>1, <1>6 DEF Still, MainLeft, ctxVars
<1>7. ASSUME NEW p \in Prios, InitQueue(p) PROVE FALSE
  BY <1>1, <1>7, InitQueueMoves DEF Executes, OrderInv
<1> QED
  BY <1>3, <1>4, <1>5, <1>6, <1>7, ControlSteps DEF OrderInv

LEMMA SchedulerSteps ==
  ASSUME QSizeFits, OrderInv, OrderInv', ProperlyNested, ProperlyNested',
         NoMissedPreemption, MainLeft', [Next]_vars
  PROVE  Scheduler!Next \/ UNCHANGED Scheduler!vars
<1>1. CASE MainActivate \/ StartOS \/ InitReady \/ InitState \/ \E p \in Prios : InitQueue(p)
  BY <1>1, StartupStutters
<1>2. CASE InitPush
  BY <1>2, InitPushActivates
<1>3. ASSUME NEW c \in Contexts,
             \/ Lock(c) \/ ActivateTask(c)
             \/ ScheduleRead(c) \/ ScheduleStore(c) \/ ScheduleCompare(c)
             \/ ScheduleMark(c) \/ SchedulePend(c)
      PROVE  Scheduler!Next \/ UNCHANGED Scheduler!vars
  BY <1>3, ActivateTaskActivates, ContextStutters
<1>4. ASSUME NEW c \in Prios, LeaveLoop(c) \/ TaskReturns(c) \/ Body(c) \/ ChainContinues(c)
      PROVE  UNCHANGED Scheduler!vars
  BY <1>4, ThreadStutters
<1>5. ASSUME NEW c \in Prios, DispatchTask(c) \/ TerminateTask(c) \/ ClearReadyBit(c)
      PROVE  Scheduler!Next
  BY <1>5, DispatchStarts, TerminateFinishes, ClearRetires DEF Scheduler!Next
<1>6. CASE tickHandler \/ Still
  BY <1>6, QuietStutters DEF tickHandler, Still, osVars
<1>7. CASE \E t \in IsrTasks : IsrActivateTask(t)
  BY <1>7, IsrActivates
<1>8. CASE contextSwitchISR
  BY <1>8, SwitchSwitches DEF Scheduler!Next
<1> QED
  BY <1>1, <1>2, <1>3, <1>4, <1>5, <1>6, <1>7, <1>8, Steps

(* The kernel implements the scheduler: activations are served per priority *)
(* first come first served, each once, by strict priority but for those    *)
(* that are late, and for one busy period; with interrupts let in only     *)
(* once a task runs (osek.c:99-115, 211-227, 255-272).                     *)
THEOREM KernelIsScheduler ==
  ASSUME QSizeFits, HandlersSpareIdle, FewPriorities, NoGaps, ~EarlyInterrupts
  PROVE  Spec => ImplementsScheduler
<1> DEFINE MInv == MainAlone /\ MainLeft
<1>1. Init => MInv /\ Scheduler!Init
  <2>1. SUFFICES ASSUME Init PROVE MInv /\ Scheduler!Init
    OBVIOUS
  <2>2. MInv
    BY <2>1 DEF Init, MainAlone, MainLeft, CriticalSections, Contexts
  <2>3. fifos = [p \in Prios |-> <<>>]
    <3>1. ASSUME NEW p \in Prios PROVE Contents(queues[p]) = <<>>
      <4>1. QSize[p] \in 1 .. Int8Max /\ queues[p] = NewQueue(QSize[p])
        BY <2>1 DEF QSizeFits, Init
      <4>2. queues[p] \in QueueType(Tasks \cup {NULL}, QSize[p]) /\ RingOK(queues[p])
        BY <4>1, NewQueueTyped
      <4>3. queues[p].queue_size = 0
        BY <4>1 DEF NewQueue
      <4> QED
        BY <4>1, <4>2, <4>3, TopIsHead
    <3> QED
      BY <3>1 DEF fifos
  <2>4. /\ currQueue = NULL
        /\ \A p \in Prios : pc[p] = "nostack" /\ ret[p] = "none"
    BY <2>1, KernelAssumption DEF Init, Contexts
  <2>5. serves = [p \in Prios |-> NULL] /\ retirees = {} /\ delayed = {}
    BY <2>4 DEF serves, retirees, delayed, Serving, Drained
  <2> QED
    BY <2>2, <2>3, <2>5 DEF Scheduler!Init, fifos, serves, retirees, delayed
<1>2. OrderInv /\ MInv /\ [Next]_vars => MInv'
  BY NextMainAlone, NextMainLeft
<1>3. /\ OrderInv /\ OrderInv' /\ ProperlyNested /\ ProperlyNested'
      /\ NoMissedPreemption /\ MInv' /\ [Next]_vars
      => [Scheduler!Next]_Scheduler!vars
  BY SchedulerSteps
<1> QED
  BY <1>1, <1>2, <1>3, OrderInvariance, ContextsNest, PreemptionComes, PTL
     DEF Spec, ImplementsScheduler, Scheduler!Spec
-----------------------------------------------------------------------------
(***************************************************************************)
(* Schedule() finds a queue.                                               *)
(***************************************************************************)
(* The application's idle task ends only by chaining to itself, and has    *)
(* its priority to itself (osek_task.c:5-12).                              *)
IdleChains == /\ idle \notin MayTerminate /\ MayChain[idle] \subseteq {idle}
              /\ TasksOf(TaskPrio[idle]) = {idle}

(* W is idle's priority; its context is Chaining while it is between       *)
(* idle's termination and idle's activation.                               *)
W == TaskPrio[idle]
Chaining == \/ pc[W] \in Schedulers /\ ret[W] = "chain"
            \/ pc[W] = "chain"
            \/ pc[W] \in {"act", "actCS"} /\ ret[W] = "taskEnd"

(* It knows whom to activate, and does not leave its loop.                 *)
IdleFrame ==
  /\ pc[W] \notin {"drain", "drainCS"} /\ ~Drained(W)
  /\ pc[W] \in {"term", "termCS"} => ret[W] = "chain"
  /\ Chaining \/ pc[W] \in {"term", "termCS"} => arg[W] = idle

(* InitOS is done.                                                         *)
StartedUp == \/ currQueue # NULL \/ pc[NULL] = "lost"
             \/ pc[NULL] \in Schedulers /\ ret[NULL] = "lost"
IdleServed == StartedUp => Top(W) # NULL \/ Chaining

(* What main() calls returns to it or to StartOS; the switch that a call   *)
(* before StartOS asks for finds no stack; and such a call has made its    *)
(* task ready.                                                             *)
MainCalling ==
  /\ ret[NULL] \in {"none", "main", "lost"}
  /\ (currQueue = NULL /\ pendSV) => StartedUp \/ \A p \in Prios : pc[p] = "nostack"
  /\ (currQueue = NULL /\ pc[NULL] = "read" /\ ret[NULL] = "main") => readySet # {}

(* Schedule() has chosen an entry of osek_queues.                          *)
QueueFound == nextQueue # WILD /\ \A c \in Contexts : pc[c] = "store" => cand[c] # WILD

IdleInv == MainAlone /\ IdleFrame /\ IdleServed /\ MainCalling /\ QueueFound

LEMMA IdleContext == W \in Prios /\ W \in Contexts /\ NULL \in Contexts /\ NULL \notin Prios
  BY KernelAssumption DEF W, Contexts

(* What idle's body may do.                                                *)
LEMMA IdleBody ==
  ASSUME IdleChains, QSizeFits, IInv, Body(W)
  PROVE  \/ \E to \in {"act", "read"} : Moves(W, "task", to) /\ ret'[W] = "task"
         \/ Moves(W, "task", "term") /\ ret'[W] = "chain" /\ arg'[W] = idle
         \/ Moves(W, "task", "shutdown") /\ ret'[W] = "shutdown"
<1>1. pc[W] = "task" /\ W \in Contexts /\ W \in Prios
  BY IdleContext DEF Body
<1>2. run[W] = idle
  <2>1. run[W] \in Tasks /\ Top(W) = run[W]
    BY <1>1 DEF IInv, ServedIsHead, Serving, TypeOK, Top
  <2>2. TaskPrio[run[W]] = W
    BY <1>1, <2>1, TopHasPrio, KernelAssumption DEF IInv
  <2> QED
    BY <2>1, <2>2 DEF IdleChains, TasksOf, W
<1>3. ASSUME NEW to, NEW back, NEW t, BodyCalls(W, to, back, t)
      PROVE  Moves(W, "task", to) /\ ret'[W] = back /\ arg'[W] = t
  BY <1>1, <1>3 DEF BodyCalls, Call, Goto, IInv, TypeOK, Moves, Alone
<1>4. CASE CallActivateTask(W)
  BY <1>3, <1>4 DEF CallActivateTask
<1>5. CASE CallSchedule(W)
  BY <1>3, <1>5 DEF CallSchedule
<1>6. ~CallTerminate(W)
  BY <1>2 DEF CallTerminate, IdleChains
<1>7. CASE CallChain(W)
  BY <1>2, <1>3, <1>7 DEF CallChain, IdleChains
<1>8. CASE CallShutdown(W)
  BY <1>3, <1>8 DEF CallShutdown
<1> QED
  BY <1>4, <1>5, <1>6, <1>7, <1>8 DEF Body

(* While a dispatcher executes, idle's is not at the end of its loop.      *)
LEMMA IdleStays ==
  ASSUME IInv, IdleFrame, IdleServed
  PROVE  ~LeaveLoop(W) /\ ~ClearReadyBit(W)
<1>1. ASSUME LeaveLoop(W) PROVE FALSE
  <2>1. currQueue = W /\ pc[W] = "loop" /\ CurrTop = NULL /\ currQueue # NULL
    BY <1>1, IdleContext DEF LeaveLoop, Executes, Goto
  <2>2. ret[W] = "none"
    BY <2>1, IdleContext DEF IInv, Control, Frame, Returns, Schedulers
  <2>3. ~Chaining /\ Top(W) = NULL
    BY <2>1, <2>2 DEF Chaining, Schedulers, CurrTop, Top
  <2> QED
    BY <2>1, <2>3 DEF IdleServed, StartedUp
<1>2. ~ClearReadyBit(W)
  BY DEF ClearReadyBit, Call, Goto, IdleFrame
<1> QED
  BY <1>1, <1>2

LEMMA NextIdleFrame ==
  ASSUME IdleChains, QSizeFits, IInv, IdleFrame, IdleServed, [Next]_vars
  PROVE  /\ IdleFrame'
         /\ Chaining => Chaining' \/ ActivateTask(W)
         /\ TerminateTask(W) => Chaining'
<1> DEFINE Kept == IdleFrame' /\ (Chaining => Chaining')
           Goal == /\ IdleFrame'
                   /\ Chaining => Chaining' \/ ActivateTask(W)
                   /\ TerminateTask(W) => Chaining'
<1>0. /\ W \in Prios /\ W \in Contexts /\ NULL \in Contexts /\ W # NULL
      /\ Prios \subseteq Contexts
  BY IdleContext DEF Contexts
<1>1. ret[W] \in Returns(pc[W])
  BY <1>0 DEF IInv, Control, Frame
<1>2. ASSUME UNCHANGED ctxVars PROVE Goal
  <2>1. Kept
    BY <1>2 DEF IdleFrame, Chaining, Drained, ctxVars
  <2>2. ~TerminateTask(W)
    BY <1>0, <1>2, TerminateTaskMoves DEF Moves, ctxVars
  <2> QED
    BY <2>1, <2>2
<1>3. ASSUME NEW c \in Contexts, c # W, NEW from, NEW to, Moves(c, from, to)
      PROVE  Goal
  <2>1. pc'[W] = pc[W] /\ ret'[W] = ret[W] /\ arg'[W] = arg[W]
    BY <1>0, <1>3 DEF Moves, Alone
  <2>2. Kept
    BY <2>1 DEF IdleFrame, Chaining, Drained
  <2>3. ~TerminateTask(W)
    BY <1>0, <1>3 DEF Moves, TerminateTask, Executes
  <2> QED
    BY <2>2, <2>3
<1>4. ASSUME NEW from, NEW to, Moves(W, from, to), from # "termCS",
             to \notin {"drain", "drainCS", "exit"}, ret'[W] # "exit",
             to \in {"term", "termCS"} => ret'[W] = "chain" /\ arg'[W] = idle,
             Chaining => Chaining' \/ ActivateTask(W),
             Chaining' => arg'[W] = idle
      PROVE  Goal
  <2>1. IdleFrame'
    BY <1>4 DEF IdleFrame, Moves, Drained
  <2>2. ~TerminateTask(W)
    BY <1>4 DEF Moves, TerminateTask, Goto
  <2> QED
    BY <1>4, <2>1, <2>2
<1> HIDE DEF Goal, Kept
<1> USE DEF Schedulers
<1>5. ASSUME MainActivate \/ StartOS \/ InitReady \/ InitState \/ InitPush
      PROVE  Goal
  <2>1. \E from, to : Moves(NULL, from, to)
    BY <1>5, MainCalls, InitMoves, InitPushMoves
  <2> QED
    BY <1>0, <1>3, <2>1
<1>6. ASSUME NEW p \in Prios, InitQueue(p) PROVE Goal
  <2>1. /\ pc'[W] \in {pc[W], "loop"} /\ UNCHANGED <<ret, arg>>
        /\ pc'[W] = "loop" => pc[W] \in {"nostack", "loop"}
    BY <1>0, <1>6, InitQueueMoves
  <2>2. Chaining => Chaining'
    BY <2>1 DEF Chaining
  <2>3. Chaining' => Chaining
    BY <2>1 DEF Chaining
  <2>4. IdleFrame'
    BY <2>1, <2>3 DEF IdleFrame, Drained
  <2>5. ~TerminateTask(W)
    BY <1>0, <1>6, InitQueueMoves DEF TerminateTask, Executes
  <2> QED
    BY <2>2, <2>4, <2>5 DEF Goal
<1>7. ASSUME Lock(W) PROVE Goal
  <2>1. UNCHANGED <<ret, arg>>
    BY <1>0, <1>7, LockMoves
  <2>2. ret'[W] # "exit"
    BY <2>1 DEF IdleFrame, Drained
  <2>3. CASE Moves(W, "act", "actCS")
    BY <1>4, <2>1, <2>2, <2>3 DEF Moves, Chaining, IdleFrame
  <2>4. CASE Moves(W, "term", "termCS")
    BY <1>4, <2>1, <2>2, <2>4 DEF Moves, Chaining, IdleFrame
  <2>5. CASE Moves(W, "drain", "drainCS")
    BY <2>5 DEF Moves, IdleFrame
  <2>6. CASE Moves(W, "initLock", "initCS")
    BY <1>4, <2>1, <2>2, <2>6 DEF Moves, Chaining
  <2> QED
    BY <1>0, <1>7, <2>3, <2>4, <2>5, <2>6, LockMoves
<1>8. ASSUME ActivateTask(W) PROVE Goal
  <2>1. Moves(W, "actCS", "read") /\ ret[W] \in {"task", "taskEnd", "main"} /\ ret' = ret
    BY <1>0, <1>8, ActivateTaskMoves
  <2>2. ~Chaining' /\ ret'[W] # "exit"
    BY <2>1 DEF Chaining, Moves
  <2> QED
    BY <1>4, <1>8, <2>1, <2>2
<1>9. ASSUME NEW from \in Schedulers, NEW to \in Schedulers, Moves(W, from, to),
             UNCHANGED ret, ret[W] = "chain" => arg'[W] = arg[W]
      PROVE  Goal
  <2>1. ret'[W] # "exit"
    BY <1>9 DEF IdleFrame, Drained
  <2>2. Chaining <=> ret[W] = "chain"
    BY <1>9 DEF Chaining, Moves
  <2>3. Chaining' <=> ret[W] = "chain"
    BY <1>9 DEF Chaining, Moves
  <2>4. Chaining' => arg'[W] = idle
    BY <1>9, <2>2, <2>3 DEF IdleFrame
  <2>5. from # "termCS" /\ to \notin {"drain", "drainCS", "exit", "term", "termCS"}
    BY <1>9
  <2> QED
    BY <1>4, <1>9, <2>1, <2>2, <2>3, <2>4, <2>5
<1>10. ASSUME NEW from \in Schedulers, Moves(W, from, ret[W]), ret'[W] = "none",
              ret[W] \in {"task", "taskEnd", "chain", "loop", "exit", "main", "lost"},
              UNCHANGED arg
       PROVE  Goal
  <2>1. ret[W] # "exit"
    BY DEF IdleFrame, Drained
  <2>2. Chaining <=> ret[W] = "chain"
    BY <1>10 DEF Chaining, Moves
  <2>3. Chaining' <=> ret[W] = "chain"
    BY <1>10 DEF Chaining, Moves
  <2>4. Chaining' => arg'[W] = idle
    BY <1>10, <2>2, <2>3 DEF IdleFrame
  <2>5. from # "termCS"
    BY <1>10
  <2> QED
    BY <1>4, <1>10, <2>1, <2>2, <2>3, <2>4, <2>5
<1>11. ASSUME \/ ScheduleRead(W) \/ ScheduleStore(W) \/ ScheduleCompare(W)
              \/ ScheduleMark(W) \/ SchedulePend(W)
       PROVE  Goal
  BY <1>0, <1>9, <1>10, <1>11, ScheduleReadMoves, ScheduleStoreMoves,
     ScheduleCompareMoves, ScheduleMarkMoves, SchedulePendMoves
<1>12. ASSUME DispatchTask(W) \/ TaskReturns(W) PROVE Goal
  <2>1. CASE DispatchTask(W)
    <3>1. Moves(W, "loop", "task") /\ ret'[W] = "none"
      BY <1>0, <2>1, DispatchTaskMoves
    <3>2. ~Chaining /\ ~Chaining'
      BY <3>1 DEF Chaining, Moves
    <3> QED
      BY <1>4, <3>1, <3>2
  <2>2. CASE TaskReturns(W)
    <3>1. Moves(W, "taskEnd", "read") /\ ret'[W] = "loop"
      BY <1>0, <2>2, TaskReturnsMoves
    <3>2. ~Chaining /\ ~Chaining'
      BY <3>1 DEF Chaining, Moves
    <3> QED
      BY <1>4, <3>1, <3>2
  <2> QED
    BY <1>12, <2>1, <2>2
<1>13. ASSUME Body(W) PROVE Goal
  <2>1. pc[W] = "task"
    BY <1>13 DEF Body
  <2>2. ~Chaining
    BY <2>1 DEF Chaining
  <2>3. ASSUME NEW to \in {"act", "read"}, Moves(W, "task", to), ret'[W] = "task"
        PROVE  Goal
    <3>1. ~Chaining'
      BY <2>3 DEF Chaining, Moves
    <3> QED
      BY <1>4, <2>2, <2>3, <3>1
  <2>4. CASE Moves(W, "task", "term") /\ ret'[W] = "chain" /\ arg'[W] = idle
    BY <1>4, <2>2, <2>4
  <2>5. CASE Moves(W, "task", "shutdown") /\ ret'[W] = "shutdown"
    <3>1. ~Chaining'
      BY <2>5 DEF Chaining, Moves
    <3> QED
      BY <1>4, <2>2, <2>5, <3>1
  <2> QED
    BY <1>13, <2>3, <2>4, <2>5, IdleBody
<1>14. ASSUME TerminateTask(W) PROVE Goal
  <2>1. /\ Moves(W, "termCS", "read") /\ UNCHANGED <<ret, arg>>
        /\ ret[W] = "chain" /\ arg[W] = idle
    BY <1>0, <1>14, TerminateTaskMoves DEF Moves, IdleFrame
  <2>2. Chaining' /\ IdleFrame'
    BY <2>1 DEF Moves, Chaining, IdleFrame, Drained
  <2> QED
    BY <2>2 DEF Goal
<1>15. ASSUME ChainContinues(W) PROVE Goal
  <2>1. Moves(W, "chain", "act") /\ ret'[W] = "taskEnd" /\ arg' = arg
    BY <1>0, <1>15, ChainContinuesMoves
  <2>2. Chaining /\ Chaining'
    BY <2>1 DEF Chaining, Moves
  <2>3. arg'[W] = idle
    BY <2>1, <2>2 DEF IdleFrame
  <2> QED
    BY <1>4, <2>1, <2>2, <2>3
<1>16. ASSUME NEW c \in Contexts,
              \/ Lock(c) \/ ActivateTask(c)
              \/ ScheduleRead(c) \/ ScheduleStore(c) \/ ScheduleCompare(c)
              \/ ScheduleMark(c) \/ SchedulePend(c)
       PROVE  Goal
  <2>1. CASE c = W
    BY <1>7, <1>8, <1>11, <1>16, <2>1
  <2>2. CASE c # W
    BY <1>3, <1>16, <2>2, LockMoves, ActivateTaskMoves, ScheduleReadMoves,
       ScheduleStoreMoves, ScheduleCompareMoves, ScheduleMarkMoves, SchedulePendMoves
  <2> QED
    BY <2>1, <2>2
<1>17. ASSUME NEW c \in Prios,
              \/ DispatchTask(c) \/ LeaveLoop(c) \/ ClearReadyBit(c)
              \/ TaskReturns(c) \/ Body(c) \/ TerminateTask(c)
              \/ ChainContinues(c)
       PROVE  Goal
  <2>1. CASE c = W
    BY <1>12, <1>13, <1>14, <1>15, <1>17, <2>1, IdleStays
  <2>2. CASE c # W
    BY <1>0, <1>3, <1>17, <2>2, DispatchTaskMoves, LeaveLoopMoves, ClearReadyBitMoves,
       TaskReturnsMoves, BodyMoves, TerminateTaskMoves, ChainContinuesMoves
  <2> QED
    BY <2>1, <2>2
<1>18. ASSUME tickHandler \/ contextSwitchISR \/ Still PROVE Goal
  <2>1. UNCHANGED ctxVars
    BY <1>18 DEF tickHandler, contextSwitchISR, Still
  <2> QED
    BY <1>2, <2>1
<1>19. ASSUME NEW t \in IsrTasks, IsrActivateTask(t) PROVE Goal
  BY <1>2, <1>19 DEF IsrActivateTask
<1>20. Goal
  BY <1>5, <1>6, <1>16, <1>17, <1>18, <1>19, Steps
<1> QED
  BY <1>20 DEF Goal

(* Idle's queue is emptied only by idle's own termination, and what idle   *)
(* chains to is idle.                                                      *)
LEMMA IdleQueued ==
  ASSUME QSizeFits, IInv, Starting, IdleFrame, [Next]_vars
  PROVE  /\ Top(W) # NULL => Top(W)' # NULL \/ TerminateTask(W)
         /\ InitPush => Top(W)' # NULL
         /\ (ActivateTask(W) /\ Chaining) => Top(W)' # NULL
<1>0. W \in Prios /\ W \in Contexts /\ idle \in Tasks /\ QueuesOK
  BY IdleContext, KernelAssumption DEF IInv
<1>1. InitPush => queues' = [queues EXCEPT ![TaskPrio[idle]] = PushToQueue(@, idle)]
  <2>1. SUFFICES ASSUME InitPush
                 PROVE  queues' = [queues EXCEPT ![TaskPrio[idle]] = PushToQueue(@, idle)]
    OBVIOUS
  <2>2. ~IsFull(queues[TaskPrio[idle]])
    BY <2>1, InitPushMoves DEF Moves, Executes, Starting
  <2>3. PushToQueue(queues[TaskPrio[idle]], idle) = Pushed(queues[TaskPrio[idle]], idle)
    BY <2>2 DEF PushToQueue
  <2> QED
    BY <2>1, <2>3, InitPushMoves
<1>2. ASSUME NEW t \in Tasks, queues' = [queues EXCEPT ![TaskPrio[t]] = PushToQueue(@, t)]
      PROVE  Top(TaskPrio[t])' # NULL /\ (Top(W) # NULL => Top(W)' # NULL)
  BY <1>0, <1>2, PushKeeps
<1>3. ASSUME NEW c \in Prios, TerminateTask(c), c # W, Top(W) # NULL
      PROVE  Top(W)' # NULL
  BY <1>0, <1>3, PopKeeps, TerminateTaskMoves
<1>4. InitPush => Top(W)' # NULL
  BY <1>0, <1>1, <1>2 DEF W
<1>5. ASSUME ActivateTask(W), Chaining PROVE Top(W)' # NULL
  <2>1. arg[W] = idle /\ Activate(arg[W])
    BY <1>0, <1>5, ActivateTaskMoves DEF IdleFrame
  <2> QED
    BY <1>0, <1>2, <2>1 DEF Activate, W
<1>6. ASSUME queues' = queues, Top(W) # NULL PROVE Top(W)' # NULL
  BY <1>6 DEF Top
<1> QED
  BY <1>2, <1>3, <1>4, <1>5, <1>6, QueueSteps

(* main() is not about to be interrupted while it executes.                *)
LEMMA MainUndisturbed ==
  ASSUME FewPriorities, CountInv, Starting, MainAlone, Executes(NULL)
  PROVE  ~pendSV
<1>1. currQueue = NULL /\ NULL \in Contexts
  BY DEF Executes, Contexts
<1>2. ~Stuck
  BY <1>1 DEF Stuck, Exported, Starting, CriticalSections, Contexts
<1> QED
  BY <1>1, <1>2, PendingWaits DEF MainAlone

(* InitOS ends with idle queued; main() is left only behind its end, as a  *)
(* switch before that finds no stack.                                      *)
LEMMA BecomesStarted ==
  ASSUME QSizeFits, FewPriorities, ~EarlyInterrupts, OrderInv, IdleFrame, MainCalling,
         [Next]_vars, ~StartedUp, StartedUp'
  PROVE  Top(W)' # NULL
<1>0. /\ NULL \in Contexts /\ NULL \notin Prios /\ W \in Prios /\ Prios \subseteq Contexts
      /\ currQueue = NULL /\ IInv /\ Starting
  BY IdleContext DEF Contexts, StartedUp, OrderInv
<1> USE DEF Schedulers
<1>1. ASSUME NEW c \in Contexts, NEW from, NEW to, Moves(c, from, to)
      PROVE  c = NULL /\ currQueue' = NULL /\ pc[NULL] = from /\ pc'[NULL] = to
  BY <1>0, <1>1 DEF Moves, Executes
<1>2. CASE MainActivate \/ StartOS \/ InitReady
  BY <1>0, <1>1, <1>2, MainCalls, InitMoves DEF StartedUp, InitReady, Goto, Moves, Executes
<1>3. CASE InitState
  <2>1. CASE IsFull(queues[W])
    <3>1. Top(W) # NULL
      <4>1. QSize[W] \in Nat \ {0} /\ QueuesOK
        BY <1>0, KernelAssumption DEF IInv
      <4>2. ~(Len(fifos[W]) < QSize[W])
        BY <1>0, <2>1, <4>1, FifoOf
      <4>3. fifos[W] # <<>>
        BY <4>1, <4>2
      <4> QED
        BY <1>0, <4>1, <4>3, FifoOf
    <3>2. queues' = queues
      BY <1>0, <1>3, InitMoves
    <3> QED
      BY <3>1, <3>2 DEF Top
  <2>2. CASE ~IsFull(queues[W])
    <3>1. pc'[NULL] = "initLock" /\ currQueue' = NULL
      BY <1>0, <1>3, <2>2 DEF InitState, Goto, IInv, TypeOK, W
    <3> QED
      BY <3>1 DEF StartedUp
  <2> QED
    BY <2>1, <2>2
<1>4. CASE InitPush
  BY <1>0, <1>4, IdleQueued
<1>5. ASSUME NEW p \in Prios, InitQueue(p) PROVE FALSE
  BY <1>0, <1>5, InitQueueMoves DEF StartedUp
<1>6. ASSUME NEW c \in Contexts,
             \/ Lock(c) \/ ActivateTask(c)
             \/ ScheduleRead(c) \/ ScheduleStore(c) \/ ScheduleCompare(c)
             \/ ScheduleMark(c) \/ SchedulePend(c)
      PROVE  FALSE
  <2>1. CASE Lock(c)
    BY <1>0, <1>1, <1>6, <2>1, LockMoves DEF StartedUp
  <2>2. CASE ActivateTask(c)
    <3>1. Moves(c, "actCS", "read") /\ ret[c] \in {"task", "taskEnd", "main"} /\ ret' = ret
      BY <1>0, <2>2, ActivateTaskMoves
    <3> QED
      BY <1>1, <3>1 DEF StartedUp
  <2>3. CASE ScheduleRead(c) \/ ScheduleStore(c) \/ ScheduleMark(c)
    BY <1>0, <1>1, <2>3, ScheduleReadMoves, ScheduleStoreMoves, ScheduleMarkMoves
       DEF StartedUp
  <2>4. CASE ScheduleCompare(c) \/ SchedulePend(c)
    BY <1>0, <1>1, <2>4, ScheduleCompareMoves, SchedulePendMoves DEF StartedUp
  <2> QED
    BY <1>6, <2>1, <2>2, <2>3, <2>4
<1>7. ASSUME NEW c \in Prios,
             \/ DispatchTask(c) \/ LeaveLoop(c) \/ ClearReadyBit(c)
             \/ TaskReturns(c) \/ Body(c) \/ TerminateTask(c)
             \/ ChainContinues(c)
      PROVE  FALSE
  <2>1. \E from, to : Moves(c, from, to)
    <3>1. CASE DispatchTask(c) \/ LeaveLoop(c) \/ ClearReadyBit(c) \/ TaskReturns(c)
      BY <1>0, <3>1, DispatchTaskMoves, LeaveLoopMoves, ClearReadyBitMoves,
         TaskReturnsMoves
    <3>2. CASE Body(c) \/ TerminateTask(c) \/ ChainContinues(c)
      BY <1>0, <3>2, BodyMoves, TerminateTaskMoves, ChainContinuesMoves
    <3> QED
      BY <1>7, <3>1, <3>2
  <2> QED
    BY <1>0, <1>1, <2>1
<1>8. CASE contextSwitchISR
  <2>1. currQueue' # NULL
    BY <1>0, <1>8 DEF contextSwitchISR, ctxVars, StartedUp
  <2>2. pendSV /\ nextQueue \in Prios /\ pc[nextQueue] # "nostack"
    BY <1>0, <1>8, <2>1 DEF contextSwitchISR
  <2> QED
    BY <1>0, <2>2 DEF MainCalling
<1>9. CASE tickHandler
  BY <1>0, <1>9 DEF tickHandler, InterruptTaken
<1>10. ASSUME NEW t \in IsrTasks, IsrActivateTask(t) PROVE FALSE
  BY <1>0, <1>10 DEF IsrActivateTask, InterruptTaken
<1>11. CASE Still
  BY <1>11 DEF Still, ctxVars, StartedUp
<1> QED
  BY <1>2, <1>3, <1>4, <1>5, <1>6, <1>7, <1>8, <1>9, <1>10, <1>11, Steps

(* Once InitOS is done, idle is queued but where it is chaining.           *)
LEMMA NextIdleServed ==
  ASSUME IdleChains, QSizeFits, FewPriorities, ~EarlyInterrupts, OrderInv, IdleFrame,
         IdleServed, MainCalling, [Next]_vars
  PROVE  IdleServed'
<1>1. SUFFICES ASSUME StartedUp' PROVE Top(W)' # NULL \/ Chaining'
  BY DEF IdleServed
<1>2. CASE ~StartedUp
  BY <1>1, <1>2, BecomesStarted
<1>3. CASE StartedUp
  <2>1. Top(W) # NULL \/ Chaining
    BY <1>3 DEF IdleServed
  <2> QED
    BY <2>1, IdleQueued, NextIdleFrame DEF OrderInv
<1> QED
  BY <1>2, <1>3

LEMMA NextMainCalling ==
  ASSUME QSizeFits, FewPriorities, ~EarlyInterrupts, OrderInv, MainAlone, MainCalling,
         [Next]_vars
  PROVE  MainCalling'
<1>0. /\ NULL \in Contexts /\ NULL \notin Prios /\ Prios \subseteq Contexts
      /\ IInv /\ CountInv /\ Starting /\ Calls
  BY IdleContext DEF Contexts, OrderInv
<1> USE DEF Schedulers
<1>1. Executes(NULL) => ~pendSV
  BY <1>0, MainUndisturbed
<1>2. ASSUME NEW c \in Prios, NEW from, NEW to, Moves(c, from, to) PROVE MainCalling'
  <2>1. ret'[NULL] = ret[NULL] /\ currQueue' # NULL
    BY <1>0, <1>2 DEF Moves, Alone, Executes
  <2> QED
    BY <2>1 DEF MainCalling
<1>3. ASSUME NEW from, NEW to, Moves(NULL, from, to), pendSV' = pendSV,
             ret'[NULL] \in {"none", "main", "lost"},
             to = "read" => ret'[NULL] = "lost" \/ readySet' # {}
      PROVE  MainCalling'
  <2>1. ~pendSV' /\ pc'[NULL] = to
    BY <1>1, <1>3 DEF Moves
  <2> QED
    BY <1>3, <2>1 DEF MainCalling
<1>4. CASE MainActivate \/ StartOS
  BY <1>0, <1>3, <1>4, MainCalls
<1>5. CASE InitReady \/ InitState \/ InitPush
  <2>1. pc[NULL] \in {"initQueue", "initState", "initCS"} /\ ret'[NULL] = ret[NULL]
    BY <1>0, <1>5, InitMoves, InitPushMoves DEF Moves
  <2>2. ret'[NULL] = "lost"
    BY <1>0, <2>1 DEF IInv, Control, Frame, Returns
  <2> QED
    BY <1>0, <1>3, <1>5, <2>2, InitMoves, InitPushMoves
<1>6. ASSUME NEW p \in Prios, InitQueue(p) PROVE MainCalling'
  <2>1. ~pendSV' /\ ret' = ret /\ pc'[NULL] = "initQueue"
    BY <1>0, <1>1, <1>6, InitQueueMoves
  <2> QED
    BY <2>1 DEF MainCalling
<1>7. CASE Lock(NULL)
  BY <1>0, <1>3, <1>7, LockMoves DEF MainCalling
<1>8. CASE ActivateTask(NULL)
  <2>1. readySet' # {}
    BY <1>0, <1>8, ActivateTaskMoves DEF Activate
  <2> QED
    BY <1>0, <1>3, <1>8, <2>1, ActivateTaskMoves DEF MainCalling
<1>9. CASE ScheduleRead(NULL) \/ ScheduleStore(NULL) \/ ScheduleMark(NULL)
  BY <1>0, <1>3, <1>9, ScheduleReadMoves, ScheduleStoreMoves, ScheduleMarkMoves
     DEF MainCalling
<1>10. CASE ScheduleCompare(NULL)
  BY <1>0, <1>3, <1>10, ScheduleCompareMoves DEF MainCalling
<1>11. CASE SchedulePend(NULL)
  <2>1. /\ Moves(NULL, "pend", ret[NULL]) /\ ret'[NULL] = "none"
        /\ ret[NULL] \in {"main", "lost"}
    BY <1>0, <1>11, SchedulePendMoves DEF MainCalling
  <2>2. CASE ret[NULL] = "lost"
    BY <1>0, <2>1, <2>2 DEF Moves, MainCalling, StartedUp
  <2>3. CASE ret[NULL] = "main"
    <3>1. \A p \in Prios : pc[p] = "nostack"
      BY <1>0, <2>3 DEF Calls
    <3>2. \A p \in Prios : pc'[p] = "nostack"
      BY <1>0, <2>1, <3>1 DEF Moves, Alone
    <3>3. pc'[NULL] = "main"
      BY <2>1, <2>3 DEF Moves
    <3> QED
      BY <2>1, <3>2, <3>3 DEF MainCalling
  <2> QED
    BY <2>1, <2>2, <2>3
<1>12. ASSUME NEW c \in Contexts,
              \/ Lock(c) \/ ActivateTask(c)
              \/ ScheduleRead(c) \/ ScheduleStore(c) \/ ScheduleCompare(c)
              \/ ScheduleMark(c) \/ SchedulePend(c)
       PROVE  MainCalling'
  <2>1. CASE c = NULL
    BY <1>7, <1>8, <1>9, <1>10, <1>11, <1>12, <2>1
  <2>2. CASE c # NULL
    <3>1. c \in Prios
      BY <2>2 DEF Contexts
    <3> QED
      BY <1>0, <1>2, <1>12, <3>1, LockMoves, ActivateTaskMoves, ScheduleReadMoves,
         ScheduleStoreMoves, ScheduleCompareMoves, ScheduleMarkMoves, SchedulePendMoves
  <2> QED
    BY <2>1, <2>2
<1>13. ASSUME NEW c \in Prios,
              \/ DispatchTask(c) \/ LeaveLoop(c) \/ ClearReadyBit(c)
              \/ TaskReturns(c) \/ Body(c) \/ TerminateTask(c)
              \/ ChainContinues(c)
       PROVE  MainCalling'
  <2>1. CASE DispatchTask(c) \/ LeaveLoop(c) \/ ClearReadyBit(c) \/ TaskReturns(c)
    BY <1>0, <1>2, <2>1, DispatchTaskMoves, LeaveLoopMoves, ClearReadyBitMoves,
       TaskReturnsMoves
  <2>2. CASE Body(c) \/ TerminateTask(c) \/ ChainContinues(c)
    BY <1>0, <1>2, <2>2, BodyMoves, TerminateTaskMoves, ChainContinuesMoves
  <2> QED
    BY <1>13, <2>1, <2>2
<1>14. ASSUME currQueue # NULL, UNCHANGED <<currQueue, ctxVars>> PROVE MainCalling'
  BY <1>14 DEF MainCalling, ctxVars
<1>15. CASE tickHandler
  BY <1>14, <1>15 DEF tickHandler, InterruptTaken
<1>16. ASSUME NEW t \in IsrTasks, IsrActivateTask(t) PROVE MainCalling'
  BY <1>14, <1>16 DEF IsrActivateTask, InterruptTaken
<1>17. CASE contextSwitchISR
  <2>1. ~pendSV' /\ UNCHANGED <<readySet, pc, ret>> /\ (currQueue' = NULL => currQueue = NULL)
    BY <1>0, <1>17 DEF contextSwitchISR, ctxVars, osVars
  <2> QED
    BY <2>1 DEF MainCalling
<1>18. CASE Still
  BY <1>18 DEF Still, ctxVars, osVars, MainCalling, StartedUp
<1> QED
  BY <1>4, <1>5, <1>6, <1>12, <1>13, <1>15, <1>16, <1>17, <1>18, Steps

(* Wherever Schedule() looks, idle at least is ready.                      *)
LEMMA ReadyWhereRead ==
  ASSUME ~EarlyInterrupts, OrderInv, IdleFrame, IdleServed, MainCalling
  PROVE  /\ currQueue # NULL => W \in readySet
         /\ (Executes(NULL) /\ pc[NULL] = "read") => readySet # {}
<1>0. W \in Prios /\ W \in Contexts /\ NULL \in Contexts /\ IInv /\ ~Drained(W)
  BY IdleContext DEF OrderInv, IdleFrame
<1> USE DEF Schedulers
<1>1. Top(W) # NULL => W \in readySet
  BY <1>0 DEF IInv, LostOnlyByDrain, Top
<1>2. Chaining => W \in readySet
  <2>1. Chaining => ~AtRest(W)
    BY DEF Chaining, AtRest
  <2> QED
    BY <1>0, <2>1 DEF OrderInv, ChosenReady, Chosen
<1>3. ASSUME Executes(NULL), pc[NULL] = "read" PROVE readySet # {}
  <2>1. currQueue = NULL
    BY <1>3 DEF Executes
  <2>2. ret[NULL] \in {"main", "lost"}
    BY <1>0, <1>3, ScheduleReturns DEF MainCalling
  <2>3. CASE ret[NULL] = "main"
    BY <1>3, <2>1, <2>3 DEF MainCalling
  <2>4. CASE ret[NULL] = "lost"
    BY <1>0, <1>3, <2>4 DEF OrderInv, IdleReady, W
  <2> QED
    BY <2>2, <2>3, <2>4
<1> QED
  BY <1>1, <1>2, <1>3 DEF IdleServed, StartedUp

LEMMA NextQueueFound ==
  ASSUME QSizeFits, NoGaps, ~EarlyInterrupts, OrderInv, OrderInv', IdleFrame, IdleServed,
         IdleServed', IdleFrame', MainCalling, MainCalling', QueueFound, [Next]_vars
  PROVE  QueueFound'
<1>0. /\ IInv /\ readySet \in SUBSET Prios /\ readySet' \in SUBSET Prios
      /\ NULL \in Contexts /\ WILD \notin Prios
  BY IdleContext, KernelAssumption DEF OrderInv, IInv, TypeOK
<1>1. ASSUME NEW rs \in SUBSET Prios, rs # {}, NEW q \in ReadyQueue(rs)
      PROVE  q # WILD
  BY <1>0, <1>1, ReadyIsHighest
<1>2. ASSUME NEW c \in Contexts, ScheduleRead(c) PROVE QueueFound'
  <2>1. /\ Moves(c, "read", "store") /\ cand'[c] \in ReadyQueue(readySet)
        /\ nextQueue' = nextQueue
    BY <1>0, <1>2, ScheduleReadMoves
  <2>2. readySet # {}
    BY <2>1, ReadyWhereRead DEF Moves, Executes
  <2>3. cand'[c] # WILD
    <3> DEFINE m == cand'[c]
    <3>1. m \in ReadyQueue(readySet)
      BY <2>1
    <3> HIDE DEF m
    <3>2. m # WILD
      BY <1>0, <1>1, <2>2, <3>1
    <3> QED
      BY <3>2 DEF m
  <2> QED
    BY <2>1, <2>3 DEF QueueFound, Moves, Alone
<1>3. ASSUME NEW c \in Contexts, Proceeds(c) PROVE QueueFound'
  BY <1>3 DEF Proceeds, QueueFound, Moves, Alone
<1>4. CASE Handles
  <2>1. readySet' # {} /\ nextQueue' \in ReadyQueue(readySet')
    BY <1>4, ReadyWhereRead DEF Handles
  <2>2. nextQueue' # WILD
    <3> DEFINE m == nextQueue'
               r == readySet'
    <3>1. m \in ReadyQueue(r) /\ r # {} /\ r \in SUBSET Prios
      BY <1>0, <2>1
    <3> HIDE DEF m, r
    <3>2. m # WILD
      BY <1>1, <3>1
    <3> QED
      BY <3>2 DEF m
  <2> QED
    BY <1>4, <2>2 DEF Handles, QueueFound, ctxVars
<1>5. CASE contextSwitchISR
  BY <1>5 DEF contextSwitchISR, QueueFound, ctxVars
<1>6. CASE Still
  BY <1>6 DEF Still, QueueFound, ctxVars
<1>7. ASSUME NEW p \in Prios, InitQueue(p) PROVE QueueFound'
  BY <1>0, <1>7, InitQueueMoves DEF QueueFound, Contexts
<1> QED
  BY <1>0, <1>2, <1>3, <1>4, <1>5, <1>6, <1>7, OrderSteps DEF Chooses

(* Schedule() never finds the ready set empty: idle is in it from InitOS   *)
(* on, though its queue is empty while it chains, and an activation by     *)
(* main() comes before the Schedule() that it calls (osek.c:342, 312-317). *)
THEOREM QueueAlwaysFound ==
  ASSUME QSizeFits, HandlersSpareIdle, FewPriorities, NoGaps, ~EarlyInterrupts, IdleChains
  PROVE  Spec => []ScheduleFindsQueue
<1>1. Init => IdleInv
  <2>1. SUFFICES ASSUME Init PROVE IdleInv
    OBVIOUS
  <2>2. NULL \in Contexts /\ W \in Contexts /\ W # NULL /\ WILD # NULL
    BY IdleContext, KernelAssumption
  <2>3. /\ pc = [c \in Contexts |-> IF c = NULL THEN "main" ELSE "nostack"]
        /\ ret = [c \in Contexts |-> "none"]
        /\ currQueue = NULL /\ pendSV = FALSE /\ nextQueue = NULL
    BY <2>1 DEF Init
  <2>4. pc[NULL] = "main" /\ pc[W] = "nostack" /\ ret[W] = "none" /\ ret[NULL] = "none"
    BY <2>2, <2>3
  <2>5. \A c \in Contexts : pc[c] # "store"
    BY <2>3
  <2>6. MainAlone /\ QueueFound
    BY <2>2, <2>3, <2>5 DEF MainAlone, QueueFound
  <2>7. IdleFrame /\ IdleServed /\ MainCalling
    BY <2>3, <2>4 DEF IdleFrame, Chaining, Drained, IdleServed, StartedUp, MainCalling,
       Schedulers
  <2> QED
    BY <2>6, <2>7 DEF IdleInv
<1>2. OrderInv /\ OrderInv' /\ IdleInv /\ [Next]_vars => IdleInv'
  <2>1. SUFFICES ASSUME OrderInv, OrderInv', IdleInv, [Next]_vars PROVE IdleInv'
    OBVIOUS
  <2>2. IInv /\ MainAlone /\ IdleFrame /\ IdleServed /\ MainCalling /\ QueueFound
    BY <2>1 DEF OrderInv, IdleInv
  <2>3. MainAlone' /\ MainCalling'
    BY <2>1, <2>2, NextMainAlone, NextMainCalling
  <2>4. IdleFrame' /\ IdleServed'
    BY <2>1, <2>2, NextIdleFrame, NextIdleServed
  <2>5. QueueFound'
    BY <2>1, <2>2, <2>3, <2>4, NextQueueFound
  <2> QED
    BY <2>3, <2>4, <2>5 DEF IdleInv
<1>3. IdleInv => ScheduleFindsQueue
  BY DEF IdleInv, QueueFound, ScheduleFindsQueue
<1> QED
  BY <1>1, <1>2, <1>3, OrderInvariance, PTL DEF Spec
=============================================================================
