-------------------------- MODULE OsekKernelProofs --------------------------
(***************************************************************************)
(* OsekKernel for every set of priorities and tasks, every assignment of   *)
(* tasks to priorities and every behaviour of their bodies, for queues     *)
(* that the int8_t indices can count: types, queues and ready bits, and    *)
(* then the nesting counter, the task that is RUNNING and the count of     *)
(* activations.  What the steps do to the contexts is used in              *)
(* OsekKernelOrderProofs too.                                              *)
(***************************************************************************)
EXTENDS OsekKernelProperties, OsekQueueProofs, FiniteSetTheorems

QSizeFits == \A p \in Prios : QSize[p] \in 1 .. Int8Max

(* InitOS tests outside of the critical section whether idle's queue has   *)
(* room: a handler that comes so early must not fill it (osek.c:38, 185).  *)
HandlersSpareIdle ==
  EarlyInterrupts => \A t \in IsrTasks : TaskPrio[t] # TaskPrio[idle]

Top(p) == TopFromQueue(queues[p])
-----------------------------------------------------------------------------
(***************************************************************************)
(* The inductive invariant.                                                *)
(***************************************************************************)
(* The tasks of priority p.                                                *)
TasksOf(p) == {t \in Tasks : TaskPrio[t] = p}

(* The queues are well formed and hold only tasks of their priority.       *)
QueuesOK ==
  /\ DOMAIN queues = Prios
  /\ \A p \in Prios : /\ queues[p] \in QueueType(Tasks \cup {NULL}, QSize[p])
                      /\ RingOK(queues[p])
                      /\ Contents(queues[p]) \in Seq(TasksOf(p))

(* Where the call that a context is in can return to.                      *)
Returns(label) ==
  CASE label \in Schedulers -> {"task", "taskEnd", "chain", "loop", "exit", "main", "lost"}
    [] label \in {"act", "actCS"} -> {"task", "taskEnd", "main"}
    [] label \in {"term", "termCS"} -> {"taskEnd", "chain"}
    [] label \in {"initQueue", "initState", "initLock", "initCS"} -> {"lost"}
    [] label = "shutdown" -> {"shutdown"}
    [] OTHER -> {"none"}

(* A context that is about to activate a task knows which.                 *)
Frame(c) ==
  /\ ret[c] \in Returns(pc[c])
  /\ (pc[c] \in {"act", "actCS", "chain"} \/ ret[c] = "chain") => arg[c] \in Tasks

Control == \A c \in Contexts : Frame(c)

(* While main() executes no dispatcher has, idle's bit is set before idle  *)
(* is pushed, and there is room for it.                                    *)
Starting ==
  currQueue = NULL =>
    /\ \A p \in Prios : pc[p] \in {"nostack", "loop"}
    /\ pc[NULL] \in {"initState", "initLock", "initCS"} => TaskPrio[idle] \in readySet
    /\ pc[NULL] \in {"initLock", "initCS"} => ~IsFull(queues[TaskPrio[idle]])

IInv == /\ TypeOK /\ QueuesOK /\ Control
        /\ ServedIsHead /\ LostOnlyByDrain /\ ReadyBitJustified
-----------------------------------------------------------------------------
(***************************************************************************)
(* The queues.                                                             *)
(***************************************************************************)
(* A push gives its queue a task at the top, and takes none away.          *)
LEMMA PushKeeps ==
  ASSUME QSizeFits, QueuesOK, NEW t \in Tasks,
         queues' = [queues EXCEPT ![TaskPrio[t]] = PushToQueue(@, t)]
  PROVE  /\ QueuesOK'
         /\ Top(TaskPrio[t])' # NULL
         /\ \A p \in Prios : Top(p) # NULL => Top(p)' = Top(p)
<1> DEFINE P == Tasks \cup {NULL}
           w == TaskPrio[t]
           q == queues[w]
           r == PushToQueue(q, t)
<1>1. /\ w \in Prios /\ t \in P /\ t \in TasksOf(w) /\ t # NULL
      /\ NULL \notin TasksOf(w) /\ w = TaskPrio[t]
  BY KernelAssumption DEF TasksOf
<1>2. /\ QSize[w] \in 1 .. Int8Max /\ q \in QueueType(P, QSize[w]) /\ RingOK(q)
      /\ Contents(q) \in Seq(TasksOf(w))
  BY <1>1 DEF QSizeFits, QueuesOK
<1>3. r \in QueueType(P, QSize[w]) /\ RingOK(r)
  BY <1>1, <1>2, PushTyped
<1>4. /\ queues'[w] = r
      /\ DOMAIN queues' = Prios
      /\ \A p \in Prios : p # w => queues'[p] = queues[p]
  BY <1>1 DEF QueuesOK
<1>5. /\ Contents(r) \in Seq(TasksOf(w))
      /\ TopFromQueue(r) # NULL
      /\ TopFromQueue(q) # NULL => TopFromQueue(r) = TopFromQueue(q)
  <2>1. CASE IsFull(q)
    <3>1. r = q
      BY <2>1 DEF PushToQueue
    <3>2. q.queue_size # 0
      BY <1>2, <2>1, Int8Assumption DEF IsFull, QueueType
    <3>3. TopFromQueue(q) = Head(Contents(q)) /\ Contents(q) # <<>>
      BY <1>2, <3>2, TopIsHead
    <3>4. Head(Contents(q)) \in TasksOf(w)
      BY <1>2, <3>3, HeadTailProperties
    <3> QED
      BY <1>2, <3>1, <3>3, <3>4, <1>1
  <2>2. CASE ~IsFull(q)
    <3>1. Contents(r) = Append(Contents(q), t)
      BY <1>1, <1>2, <2>2, PushIsAppend
    <3>2. Contents(r) \in Seq(TasksOf(w)) /\ Contents(r) # <<>>
      BY <1>1, <1>2, <3>1
    <3>3. TopFromQueue(r) = Head(Contents(r))
      <4> HIDE DEF r
      <4> QED
        BY <1>2, <1>3, <3>2, TopIsHead
    <3>4. Head(Contents(r)) \in TasksOf(w)
      BY <3>2, HeadTailProperties
    <3>5. TopFromQueue(q) # NULL => Head(Contents(r)) = TopFromQueue(q)
      <4>1. CASE q.queue_size = 0
        BY <4>1 DEF TopFromQueue
      <4>2. CASE q.queue_size # 0
        <5>1. Contents(q) # <<>> /\ TopFromQueue(q) = Head(Contents(q))
          BY <1>2, <4>2, TopIsHead
        <5> QED
          BY <1>2, <3>1, <5>1
      <4> QED
        BY <4>1, <4>2
    <3> QED
      BY <3>2, <3>3, <3>4, <3>5, <1>1
  <2> QED
    BY <2>1, <2>2
<1> HIDE DEF r, w
<1>6. QueuesOK'
  BY <1>1, <1>3, <1>4, <1>5 DEF QueuesOK
<1> QED
  BY <1>1, <1>4, <1>5, <1>6 DEF Top, w

(* A pop keeps the queues well formed; only its own queue gets another top.*)
LEMMA PopKeeps ==
  ASSUME QSizeFits, QueuesOK, NEW c \in Prios,
         queues' = [queues EXCEPT ![c] = PopFromQueue(@)]
  PROVE  /\ QueuesOK'
         /\ \A p \in Prios : p # c => Top(p)' = Top(p)
         /\ Top(c) = NULL => Top(c)' = NULL
<1> DEFINE P == Tasks \cup {NULL}
           q == queues[c]
           r == PopFromQueue(q)
<1>1. /\ QSize[c] \in 1 .. Int8Max /\ q \in QueueType(P, QSize[c]) /\ RingOK(q)
      /\ Contents(q) \in Seq(TasksOf(c))
  BY DEF QSizeFits, QueuesOK
<1>2. r \in QueueType(P, QSize[c]) /\ RingOK(r)
  BY <1>1, PopTyped
<1>3. /\ queues'[c] = r
      /\ DOMAIN queues' = Prios
      /\ \A p \in Prios : p # c => queues'[p] = queues[p]
  BY DEF QueuesOK
<1>4. q.queue_size \in Nat
  BY <1>1, Int8Assumption DEF QueueType
<1>5. Contents(r) \in Seq(TasksOf(c)) /\ (TopFromQueue(q) = NULL => r = q)
  <2>1. CASE q.queue_size = 0
    BY <1>1, <2>1 DEF PopFromQueue
  <2>2. CASE q.queue_size # 0
    <3>1. Contents(r) = Tail(Contents(q))
      BY <1>1, <2>2, PopIsTail
    <3>2. Contents(q) # <<>> /\ TopFromQueue(q) = Head(Contents(q))
      BY <1>1, <2>2, TopIsHead
    <3>3. Tail(Contents(q)) \in Seq(TasksOf(c)) /\ Head(Contents(q)) \in TasksOf(c)
      BY <1>1, <3>2, HeadTailProperties
    <3> QED
      BY <3>1, <3>2, <3>3, KernelAssumption DEF TasksOf
  <2> QED
    BY <2>1, <2>2
<1> HIDE DEF r
<1>6. QueuesOK'
  BY <1>2, <1>3, <1>5 DEF QueuesOK
<1> QED
  BY <1>3, <1>5, <1>6 DEF Top

(* The top of a queue is a task, or the queue is empty.                    *)
LEMMA TopIsTask ==
  ASSUME QSizeFits, QueuesOK, NEW p \in Prios
  PROVE  Top(p) \in Tasks \cup {NULL}
<1>1. /\ QSize[p] \in 1 .. Int8Max
      /\ queues[p] \in QueueType(Tasks \cup {NULL}, QSize[p])
  BY DEF QSizeFits, QueuesOK
<1>2. CASE queues[p].queue_size = 0
  BY <1>1, <1>2, TopIsHead DEF Top
<1>3. CASE queues[p].queue_size # 0
  BY <1>1, <1>3, TopIsHead DEF Top
<1> QED
  BY <1>2, <1>3

(* It is a task of the queue's own priority.                               *)
LEMMA TopHasPrio ==
  ASSUME QSizeFits, QueuesOK, NEW p \in Prios, Top(p) # NULL
  PROVE  Top(p) \in Tasks /\ TaskPrio[Top(p)] = p
<1>1. /\ QSize[p] \in 1 .. Int8Max
      /\ queues[p] \in QueueType(Tasks \cup {NULL}, QSize[p])
      /\ Contents(queues[p]) \in Seq(TasksOf(p))
  BY DEF QSizeFits, QueuesOK
<1>2. queues[p].queue_size # 0
  BY DEF Top, TopFromQueue
<1>3. Contents(queues[p]) # <<>> /\ Top(p) = Head(Contents(queues[p]))
  BY <1>1, <1>2, TopIsHead DEF Top
<1>4. Top(p) \in TasksOf(p)
  BY <1>1, <1>3, HeadTailProperties
<1> QED
  BY <1>4 DEF TasksOf

(* Whatever word Schedule() reads, it is a queue of the array or wild.     *)
LEMMA ReadyQueueTyped == ASSUME NEW rs PROVE ReadyQueue(rs) \subseteq Prios \cup {WILD}
<1>1. \A i : osek_queues(i) \subseteq Prios \cup {WILD}
  BY DEF osek_queues
<1> QED
  BY <1>1 DEF ReadyQueue
-----------------------------------------------------------------------------
(***************************************************************************)
(* Steps that leave the queues and the ready bits alone.                   *)
(***************************************************************************)
LEMMA QuietKeeps ==
  ASSUME TypeOK, ServedIsHead, LostOnlyByDrain, ReadyBitJustified,
         UNCHANGED <<queues, readySet>>,
         \A p \in Prios : /\ Serving(p)' => Serving(p) /\ run'[p] = run[p]
                          /\ Drained(p)' <=> Drained(p)
  PROVE  (ServedIsHead /\ LostOnlyByDrain /\ ReadyBitJustified)'
<1>1. ServedIsHead'
  BY DEF ServedIsHead
<1>2. LostOnlyByDrain'
  BY DEF LostOnlyByDrain
<1>3. ReadyBitJustified'
  BY DEF ReadyBitJustified, TypeOK
<1> QED
  BY <1>1, <1>2, <1>3

(* A step that moves only context c, to a place where it may be.           *)
LEMMA ControlKeeps ==
  ASSUME Control, NEW c \in Contexts,
         \A d \in Contexts : d # c => /\ pc'[d] = pc[d] /\ ret'[d] = ret[d]
                                      /\ arg'[d] = arg[d],
         Frame(c)'
  PROVE  Control'
<1>1. ASSUME NEW d \in Contexts PROVE Frame(d)'
  BY DEF Control, Frame
<1> QED
  BY <1>1 DEF Control

LEMMA DispatchTaskKeeps ==
  ASSUME QSizeFits, IInv, NEW c \in Prios, DispatchTask(c)
  PROVE  IInv'
<1> USE DEF IInv
<1>1. /\ pc[c] = "loop" /\ pc' = [pc EXCEPT ![c] = "task"]
      /\ currQueue = c /\ CurrTop = Top(c) /\ CurrTop \in Tasks
  BY TopIsTask, KernelAssumption DEF DispatchTask, Executes, Goto, CurrTop, Top
<1>2. c \in Contexts /\ ret[c] = "none"
  BY <1>1 DEF Contexts, Control, Frame, Returns, Schedulers
<1>3. TypeOK'
  BY <1>1, <1>2 DEF TypeOK, DispatchTask, Labels, lockVars
<1>4. QueuesOK'
  BY DEF QueuesOK, DispatchTask
<1>5. Control'
  <2>1. Frame(c)'
    BY <1>1, <1>2 DEF TypeOK, DispatchTask, Frame, Returns, Schedulers
  <2> QED
    BY <1>1, <1>2, <2>1, ControlKeeps DEF TypeOK, DispatchTask
<1>6. (ServedIsHead /\ LostOnlyByDrain /\ ReadyBitJustified)'
  BY <1>1, <1>2 DEF TypeOK, DispatchTask, ServedIsHead, LostOnlyByDrain,
                    ReadyBitJustified, Serving, Drained, Top, Contexts
<1> QED
  BY <1>3, <1>4, <1>5, <1>6

(* Every other quiet step of a context moves it between two labels where   *)
(* it serves the same task, or none, and is as drained as before.          *)
LEMMA QuietStep ==
  ASSUME QSizeFits, IInv, NEW c \in Contexts, UNCHANGED <<queues, readySet>>,
         TypeOK', Frame(c)',
         \A d \in Contexts : d # c => /\ pc'[d] = pc[d] /\ ret'[d] = ret[d]
                                      /\ arg'[d] = arg[d] /\ run'[d] = run[d],
         c \in Prios => /\ Serving(c)' => Serving(c) /\ run'[c] = run[c]
                        /\ Drained(c)' <=> Drained(c)
  PROVE  IInv'
<1> USE DEF IInv
<1>1. QueuesOK'
  BY DEF QueuesOK
<1>2. Control'
  BY ControlKeeps
<1>3. \A p \in Prios : /\ Serving(p)' => Serving(p) /\ run'[p] = run[p]
                       /\ Drained(p)' <=> Drained(p)
  BY DEF Contexts, Serving, Drained
<1> QED
  BY <1>1, <1>2, <1>3, QuietKeeps

LEMMA LeaveLoopKeeps ==
  ASSUME QSizeFits, IInv, NEW c \in Prios, LeaveLoop(c)
  PROVE  IInv'
<1>1. TypeOK'
  BY DEF IInv, TypeOK, LeaveLoop, Goto, osVars, lockVars, Labels,
      Schedulers, CriticalSections, Contexts
<1> QED
  BY <1>1, QuietStep DEF IInv, TypeOK, LeaveLoop, Goto, osVars, Control, Frame,
      Returns, Schedulers, Serving, Drained, Contexts

LEMMA TaskReturnsKeeps ==
  ASSUME QSizeFits, IInv, NEW c \in Prios, TaskReturns(c)
  PROVE  IInv'
<1>1. TypeOK'
  BY DEF IInv, TypeOK, TaskReturns, Call, Goto, osVars, lockVars, Labels,
      Schedulers, CriticalSections, Contexts
<1> QED
  BY <1>1, QuietStep DEF IInv, TypeOK, TaskReturns, Call, Goto, osVars, Control, Frame,
      Returns, Schedulers, Serving, Drained, Contexts

(* ++ and -- stay within a uint8_t.                                        *)
LEMMA Uint8Closed ==
  ASSUME NEW n \in 0 .. Uint8Max
  PROVE  Uint8Inc(n) \in 0 .. Uint8Max /\ Uint8Dec(n) \in 0 .. Uint8Max
  BY Int8Assumption DEF Uint8Max, Uint8Inc, Uint8Dec

LEMMA LockKeeps ==
  ASSUME QSizeFits, IInv, NEW c \in Contexts, Lock(c)
  PROVE  IInv'
<1>1. disableCount' \in 0 .. Uint8Max
  BY Uint8Closed DEF IInv, TypeOK, Lock, CountUp
<1>2. UNCHANGED <<osVars, currQueue, nextQueue, pendSV, masked, ret, arg, cand,
                  run, mode>>
  BY DEF Lock
<1>3. ASSUME NEW from, NEW to, Goto(c, from, to),
             <<from, to>> \in {<<"act", "actCS">>, <<"term", "termCS">>,
                               <<"drain", "drainCS">>, <<"initLock", "initCS">>}
      PROVE  IInv'
  <2>1. TypeOK'
    BY <1>1, <1>2, <1>3 DEF IInv, TypeOK, Goto, osVars, Labels, CriticalSections,
        Contexts
  <2> QED
    BY <1>2, <1>3, <2>1, QuietStep DEF IInv, TypeOK, Goto, osVars, Control,
        Frame, Returns, Schedulers, Serving, Drained, Contexts
<1> QED
  BY <1>3 DEF Lock

LEMMA ChainContinuesKeeps ==
  ASSUME QSizeFits, IInv, NEW c \in Prios, ChainContinues(c)
  PROVE  IInv'
<1>1. TypeOK'
  BY DEF IInv, TypeOK, ChainContinues, Call, Goto, osVars, lockVars, Labels,
      Schedulers, CriticalSections, Contexts
<1> QED
  BY <1>1, QuietStep DEF IInv, TypeOK, ChainContinues, Call, Goto, osVars, Control, Frame,
      Returns, Schedulers, Serving, Drained, Contexts

LEMMA BodyCallsKeeps ==
  ASSUME QSizeFits, IInv, NEW c \in Prios, NEW to, NEW back,
         NEW t \in Tasks \cup {NULL}, BodyCalls(c, to, back, t),
         \/ to = "act" /\ back = "task" /\ t \in Tasks
         \/ to = "read" /\ back = "task"
         \/ to = "term" /\ back = "taskEnd"
         \/ to = "term" /\ back = "chain" /\ t \in Tasks
         \/ to = "shutdown" /\ back = "shutdown"
  PROVE  IInv'
<1>1. TypeOK'
  BY DEF IInv, TypeOK, BodyCalls, Call, Goto, osVars, lockVars, Labels,
      Schedulers, Contexts
<1>2. c \in Contexts /\ pc[c] = "task" /\ ret[c] = "none"
  BY DEF BodyCalls, Call, Goto, Contexts, IInv, Control, Frame, Returns, Schedulers
<1>3. /\ pc'[c] = to /\ ret'[c] = back /\ arg'[c] = t
      /\ \A d \in Contexts : d # c => /\ pc'[d] = pc[d] /\ ret'[d] = ret[d]
                                      /\ arg'[d] = arg[d]
      /\ UNCHANGED <<osVars, run>>
  BY <1>2 DEF BodyCalls, Call, Goto, IInv, TypeOK
<1>4. Frame(c)'
  BY <1>3 DEF Frame, Returns, Schedulers
<1>5. Serving(c) /\ ~Drained(c) /\ ~Drained(c)'
  BY <1>2, <1>3 DEF Serving, Drained
<1> QED
  BY <1>1, <1>2, <1>3, <1>4, <1>5, QuietStep DEF osVars

LEMMA BodyKeeps ==
  ASSUME QSizeFits, IInv, NEW c \in Prios, Body(c)
  PROVE  IInv'
<1>1. pc[c] = "task"
  BY DEF Body
<1>2. run[c] \in Tasks
  BY <1>1 DEF IInv, ServedIsHead, Serving, TypeOK, Contexts
<1>3. MayActivate[run[c]] \subseteq Tasks /\ MayChain[run[c]] \subseteq Tasks
  BY <1>2, KernelAssumption
<1>4. CASE CallActivateTask(c)
  BY <1>3, <1>4, BodyCallsKeeps DEF CallActivateTask
<1>5. CASE CallSchedule(c)
  BY <1>5, BodyCallsKeeps DEF CallSchedule
<1>6. CASE CallTerminate(c)
  BY <1>6, BodyCallsKeeps DEF CallTerminate
<1>7. CASE CallChain(c)
  BY <1>3, <1>7, BodyCallsKeeps DEF CallChain
<1>8. CASE CallShutdown(c)
  BY <1>8, BodyCallsKeeps DEF CallShutdown
<1> QED
  BY <1>4, <1>5, <1>6, <1>7, <1>8 DEF Body
-----------------------------------------------------------------------------
(***************************************************************************)
(* Schedule().                                                             *)
(***************************************************************************)
(* A step of context c from one label to another, in the same call.        *)
LEMMA GotoMoves ==
  ASSUME TypeOK, NEW c \in Contexts, NEW from, NEW to \in Labels, Goto(c, from, to)
  PROVE  /\ pc' \in [Contexts -> Labels]
         /\ pc[c] = from /\ pc'[c] = to
         /\ \A d \in Contexts : d # c => pc'[d] = pc[d]
  BY DEF TypeOK, Goto

(* Within Schedule() only the context's label changes.                     *)
LEMMA WithinSchedule ==
  ASSUME QSizeFits, IInv, NEW c \in Contexts,
         NEW from \in Schedulers, NEW to \in Schedulers, Goto(c, from, to),
         TypeOK', UNCHANGED <<queues, readySet, ret, arg, run>>
  PROVE  IInv'
<1>1. /\ pc[c] = from /\ pc'[c] = to
      /\ \A d \in Contexts : d # c => pc'[d] = pc[d]
  BY GotoMoves DEF IInv, Labels
<1>2. Frame(c)
  BY DEF IInv, Control
<1>3. Frame(c)'
  BY <1>1, <1>2 DEF Frame, Returns, Schedulers
<1>4. /\ Serving(c)' <=> Serving(c)
      /\ Drained(c)' <=> Drained(c)
  BY <1>1 DEF Serving, Drained, Schedulers
<1> QED
  BY <1>1, <1>3, <1>4, QuietStep

(* Where Schedule() can return to.                                         *)
LEMMA ScheduleReturns ==
  ASSUME IInv, NEW c \in Contexts, pc[c] \in Schedulers
  PROVE  ret[c] \in {"task", "taskEnd", "chain", "loop", "exit", "main", "lost"}
<1>1. Frame(c)
  BY DEF IInv, Control
<1> QED
  BY <1>1 DEF Frame, Returns, Schedulers

(* Schedule() returns: to a place where the context serves and is drained  *)
(* as it was during the call.                                              *)
LEMMA ReturnMoves ==
  ASSUME TypeOK, NEW c \in Contexts, NEW from \in Schedulers, Return(c, from),
         ret[c] \in {"task", "taskEnd", "chain", "loop", "exit", "main", "lost"}
  PROVE  /\ pc' \in [Contexts -> Labels]
         /\ ret' \in [Contexts -> {"none", "loop", "task", "taskEnd", "chain",
                                   "exit", "main", "lost", "shutdown"}]
         /\ pc[c] = from /\ pc'[c] = ret[c] /\ ret'[c] = "none"
         /\ \A d \in Contexts : d # c => pc'[d] = pc[d] /\ ret'[d] = ret[d]
<1>1. ret[c] \in Labels
  BY DEF Labels
<1>2. Goto(c, from, ret[c]) /\ ret' = [ret EXCEPT ![c] = "none"]
  BY DEF Return, Call
<1>3. /\ pc' \in [Contexts -> Labels]
      /\ pc[c] = from /\ pc'[c] = ret[c]
      /\ \A d \in Contexts : d # c => pc'[d] = pc[d]
  BY <1>1, <1>2, GotoMoves
<1>4. /\ ret' \in [Contexts -> {"none", "loop", "task", "taskEnd", "chain",
                                "exit", "main", "lost", "shutdown"}]
      /\ ret'[c] = "none"
      /\ \A d \in Contexts : d # c => ret'[d] = ret[d]
  BY <1>2 DEF TypeOK
<1> QED
  BY <1>3, <1>4

LEMMA ReturnKeeps ==
  ASSUME QSizeFits, IInv, NEW c \in Contexts, NEW from \in Schedulers,
         Return(c, from), TypeOK',
         UNCHANGED <<queues, readySet, arg, run>>
  PROVE  IInv'
<1>1. ret[c] \in {"task", "taskEnd", "chain", "loop", "exit", "main", "lost"}
  BY ScheduleReturns DEF Return, Call, Goto
<1>2. /\ pc[c] = from /\ pc'[c] = ret[c] /\ ret'[c] = "none"
      /\ \A d \in Contexts : d # c => pc'[d] = pc[d] /\ ret'[d] = ret[d]
  BY <1>1, ReturnMoves DEF IInv
<1>3. Frame(c)
  BY DEF IInv, Control
<1>4. Frame(c)'
  BY <1>1, <1>2, <1>3 DEF Frame, Returns, Schedulers
<1>5. /\ Serving(c)' <=> Serving(c)
      /\ Drained(c)' <=> Drained(c)
  BY <1>1, <1>2 DEF Serving, Drained, Schedulers
<1> QED
  BY <1>2, <1>4, <1>5, QuietStep

LEMMA ScheduleReadKeeps ==
  ASSUME QSizeFits, IInv, NEW c \in Contexts, ScheduleRead(c)
  PROVE  IInv'
<1>1. /\ Goto(c, "read", "store") /\ "store" \in Labels
      /\ arg' = IF ret[c] = "chain" THEN arg ELSE [arg EXCEPT ![c] = NULL]
      /\ UNCHANGED <<osVars, currQueue, nextQueue, pendSV, lockVars, ret,
                     run, mode>>
  BY DEF ScheduleRead, Schedulers, Labels
<1>2. /\ cand' \in [Contexts -> Contexts \cup {WILD}]
      /\ arg' \in [Contexts -> Tasks \cup {NULL}]
  BY <1>1, ReadyQueueTyped DEF IInv, TypeOK, ScheduleRead, Contexts
<1>3. TypeOK'
  BY <1>1, <1>2, GotoMoves DEF IInv, TypeOK, osVars, lockVars
<1>4. /\ pc[c] = "read" /\ pc'[c] = "store"
      /\ \A d \in Contexts : d # c => pc'[d] = pc[d] /\ arg'[d] = arg[d]
  BY <1>1, GotoMoves DEF IInv, TypeOK
<1>5. Frame(c)'
  <2>1. Frame(c)
    BY DEF IInv, Control
  <2> QED
    BY <1>1, <1>4, <2>1 DEF Frame, Returns, Schedulers
<1>6. \A p \in Prios : /\ Serving(p)' <=> Serving(p)
                       /\ Drained(p)' <=> Drained(p)
  BY <1>1, <1>4 DEF Serving, Drained, Contexts
<1>7. Control'
  BY <1>1, <1>4, <1>5, ControlKeeps DEF IInv
<1>8. QueuesOK' /\ ServedIsHead'
  BY <1>1, <1>6 DEF IInv, QueuesOK, ServedIsHead, osVars
<1>9. LostOnlyByDrain' /\ ReadyBitJustified'
  BY <1>1, <1>6 DEF IInv, TypeOK, LostOnlyByDrain, ReadyBitJustified, osVars
<1> QED
  BY <1>3, <1>7, <1>8, <1>9 DEF IInv

LEMMA ScheduleStoreKeeps ==
  ASSUME QSizeFits, IInv, NEW c \in Contexts, ScheduleStore(c)
  PROVE  IInv'
<1>1. /\ Goto(c, "store", "compare") /\ "store" \in Schedulers
      /\ "compare" \in Schedulers \cap Labels
      /\ UNCHANGED <<osVars, currQueue, pendSV, lockVars, ret, arg, run, mode>>
  BY DEF ScheduleStore, Schedulers, Labels
<1>2. /\ cand' \in [Contexts -> Contexts \cup {WILD}]
      /\ nextQueue' \in Contexts \cup {WILD}
  BY DEF IInv, TypeOK, ScheduleStore, Contexts
<1>3. TypeOK'
  BY <1>1, <1>2, GotoMoves DEF IInv, TypeOK, osVars, lockVars
<1> QED
  BY <1>1, <1>3, WithinSchedule DEF osVars

LEMMA ScheduleCompareKeeps ==
  ASSUME QSizeFits, IInv, NEW c \in Contexts, ScheduleCompare(c)
  PROVE  IInv'
<1>1. /\ "compare" \in Schedulers /\ "mark" \in Schedulers \cap Labels
      /\ UNCHANGED <<osVars, currQueue, nextQueue, pendSV, lockVars, arg, cand,
                     run, mode>>
  BY DEF ScheduleCompare, Schedulers, Labels
<1>2. CASE nextQueue # currQueue
  <2>1. Goto(c, "compare", "mark") /\ ret' = ret
    BY <1>2 DEF ScheduleCompare
  <2>2. TypeOK'
    BY <1>1, <2>1, GotoMoves DEF IInv, TypeOK, osVars, lockVars
  <2> QED
    BY <1>1, <2>1, <2>2, WithinSchedule DEF osVars
<1>3. CASE nextQueue = currQueue
  <2>1. Return(c, "compare")
    BY <1>3 DEF ScheduleCompare
  <2>2. ret[c] \in {"task", "taskEnd", "chain", "loop", "exit", "main", "lost"}
    BY <1>1, <2>1, ScheduleReturns DEF Return, Call, Goto
  <2>3. TypeOK'
    BY <1>1, <2>1, <2>2, ReturnMoves DEF IInv, TypeOK, osVars, lockVars
  <2> QED
    BY <1>1, <2>1, <2>3, ReturnKeeps DEF osVars
<1> QED
  BY <1>2, <1>3

LEMMA SchedulePendKeeps ==
  ASSUME QSizeFits, IInv, NEW c \in Contexts, SchedulePend(c)
  PROVE  IInv'
<1>1. /\ Return(c, "pend") /\ "pend" \in Schedulers /\ pendSV' \in BOOLEAN
      /\ UNCHANGED <<osVars, currQueue, nextQueue, lockVars, arg, cand, run, mode>>
  BY DEF SchedulePend, Schedulers
<1>2. ret[c] \in {"task", "taskEnd", "chain", "loop", "exit", "main", "lost"}
  BY <1>1, ScheduleReturns DEF Return, Call, Goto
<1>3. TypeOK'
  BY <1>1, <1>2, ReturnMoves DEF IInv, TypeOK, osVars, lockVars
<1> QED
  BY <1>1, <1>3, ReturnKeeps DEF osVars

(* The write of READY, whether it finds a task or goes through NULL.       *)
LEMMA MarkReadyTyped ==
  ASSUME TypeOK, NEW top \in Tasks \cup {NULL},
         NEW s \in [Tasks -> {"SUSPENDED", "READY", "RUNNING"}],
         MarkReady(top, s)
  PROVE  /\ state' \in [Tasks -> {"SUSPENDED", "READY", "RUNNING"}]
         /\ mode' \in {"run", "fault"}
  BY DEF MarkReady, TypeOK

(* The task that Schedule() demotes, if the current queue has one.         *)
LEMMA CurrTopIsTask ==
  ASSUME QSizeFits, IInv PROVE CurrTop \in Tasks \cup {NULL}
  BY TopIsTask DEF IInv, TypeOK, Contexts, CurrTop, Top

LEMMA ScheduleMarkKeeps ==
  ASSUME QSizeFits, IInv, NEW c \in Contexts, ScheduleMark(c)
  PROVE  IInv'
<1>1. /\ Goto(c, "mark", "pend") /\ "mark" \in Schedulers
      /\ "pend" \in Schedulers \cap Labels
      /\ UNCHANGED <<readySet, noAct, queues, currQueue, nextQueue, pendSV,
                     lockVars, ret, arg, cand, run>>
  BY DEF ScheduleMark, Schedulers, Labels
<1>2. /\ state' \in [Tasks -> {"SUSPENDED", "READY", "RUNNING"}]
      /\ mode' \in {"run", "fault"}
  BY CurrTopIsTask, MarkReadyTyped DEF IInv, TypeOK, ScheduleMark
<1>3. TypeOK'
  BY <1>1, <1>2, GotoMoves DEF IInv, TypeOK, lockVars
<1> QED
  BY <1>1, <1>3, WithinSchedule

-----------------------------------------------------------------------------
(***************************************************************************)
(* Steps that change the queues or the ready bits.                         *)
(***************************************************************************)
(* A step that activates t, in which no context starts to serve a task and *)
(* none becomes drained or stops being so.                                 *)
LEMMA ActivationKeeps ==
  ASSUME QSizeFits, IInv, NEW t \in Tasks,
         queues' = [queues EXCEPT ![TaskPrio[t]] = PushToQueue(@, t)],
         readySet' = readySet \cup {TaskPrio[t]},
         \A p \in Prios : /\ Serving(p)' => Serving(p) /\ run'[p] = run[p]
                          /\ Drained(p)' <=> Drained(p)
  PROVE  /\ QueuesOK'
         /\ (ServedIsHead /\ LostOnlyByDrain /\ ReadyBitJustified)'
<1>1. /\ QueuesOK'
      /\ Top(TaskPrio[t])' # NULL
      /\ \A p \in Prios : Top(p) # NULL => Top(p)' = Top(p)
  BY PushKeeps DEF IInv
<1>2. TaskPrio[t] \in Prios
  BY KernelAssumption
<1>3. \A p \in Prios : p # TaskPrio[t] => queues'[p] = queues[p]
  BY DEF IInv, TypeOK
<1>4. ServedIsHead'
  BY <1>1 DEF IInv, ServedIsHead, Top
<1>5. LostOnlyByDrain'
  BY <1>3 DEF IInv, LostOnlyByDrain
<1>6. ReadyBitJustified'
  BY <1>1, <1>3 DEF IInv, ReadyBitJustified, TypeOK, Top
<1> QED
  BY <1>1, <1>4, <1>5, <1>6

(* The values of the activation itself.                                    *)
LEMMA ActivationTyped ==
  ASSUME QSizeFits, IInv, NEW t \in Tasks, Activate(t)
  PROVE  /\ readySet' \subseteq Prios
         /\ noAct' \in [Tasks -> 0 .. Uint8Max]
         /\ Activated(t) \in [Tasks -> {"SUSPENDED", "READY", "RUNNING"}]
<1>1. TaskPrio[t] \in Prios
  BY KernelAssumption
<1>2. Uint8Inc(noAct[t]) \in 0 .. Uint8Max
  BY Uint8Closed DEF IInv, TypeOK
<1> QED
  BY <1>1, <1>2 DEF IInv, TypeOK, Activate, Activated

(* Unlocking, from a context or a handler, leaves lock variables typed.    *)
LEMMA UnlockTyped ==
  ASSUME TypeOK, EnableAllInterrupts \/ InterruptSection
  PROVE  masked' \in BOOLEAN /\ disableCount' \in 0 .. Uint8Max
<1>1. Uint8Dec(disableCount) \in 0 .. Uint8Max
  BY Uint8Closed DEF TypeOK
<1> QED
  BY <1>1 DEF TypeOK, EnableAllInterrupts, InterruptSection

LEMMA ActivateTaskKeeps ==
  ASSUME QSizeFits, IInv, NEW c \in Contexts, ActivateTask(c)
  PROVE  IInv'
<1>1. /\ Goto(c, "actCS", "read") /\ c \in Contexts /\ "read" \in Labels
      /\ UNCHANGED <<currQueue, nextQueue, pendSV, ret, arg, cand, run, mode>>
  BY DEF ActivateTask, Contexts, Labels, Schedulers
<1>2. /\ pc' \in [Contexts -> Labels]
      /\ pc[c] = "actCS" /\ pc'[c] = "read"
      /\ \A d \in Contexts : d # c => pc'[d] = pc[d]
  BY <1>1, GotoMoves DEF IInv
<1>3. Frame(c)
  BY <1>1 DEF IInv, Control
<1>4. ret[c] \in {"task", "taskEnd", "main"} /\ arg[c] \in Tasks
  BY <1>2, <1>3 DEF Frame, Returns, Schedulers
<1>5. Activate(arg[c]) /\ state' = Activated(arg[c])
  BY DEF ActivateTask
<1>6. /\ QueuesOK'
      /\ (ServedIsHead /\ LostOnlyByDrain /\ ReadyBitJustified)'
  <2>1. \A p \in Prios : /\ Serving(p)' => Serving(p) /\ run'[p] = run[p]
                         /\ Drained(p)' <=> Drained(p)
    BY <1>1, <1>2 DEF Serving, Drained, Contexts
  <2> QED
    BY <1>4, <1>5, <2>1, ActivationKeeps DEF Activate
<1>7. TypeOK'
  <2>1. masked' \in BOOLEAN /\ disableCount' \in 0 .. Uint8Max
    BY UnlockTyped DEF IInv, ActivateTask
  <2>2. /\ readySet' \subseteq Prios
        /\ noAct' \in [Tasks -> 0 .. Uint8Max]
        /\ state' \in [Tasks -> {"SUSPENDED", "READY", "RUNNING"}]
    BY <1>4, <1>5, ActivationTyped
  <2> QED
    BY <1>1, <1>2, <1>6, <2>1, <2>2 DEF IInv, TypeOK, QueuesOK
<1>8. Control'
  <2>1. Frame(c)'
    BY <1>1, <1>2, <1>4 DEF Frame, Returns, Schedulers
  <2> QED
    BY <1>1, <1>2, <2>1, ControlKeeps DEF IInv
<1> QED
  BY <1>6, <1>7, <1>8 DEF IInv

LEMMA TerminateTaskKeeps ==
  ASSUME QSizeFits, IInv, NEW c \in Prios, TerminateTask(c)
  PROVE  IInv'
<1>1. /\ Goto(c, "termCS", "read") /\ c \in Contexts /\ "read" \in Labels
      /\ currQueue = c
      /\ queues' = [queues EXCEPT ![c] = PopFromQueue(@)]
      /\ UNCHANGED <<readySet, currQueue, nextQueue, pendSV, ret, arg, cand, run>>
  BY DEF TerminateTask, Executes, Contexts, Labels, Schedulers
<1>2. /\ pc' \in [Contexts -> Labels]
      /\ pc[c] = "termCS" /\ pc'[c] = "read"
      /\ \A d \in Contexts : d # c => pc'[d] = pc[d]
  BY <1>1, GotoMoves DEF IInv
<1>3. Frame(c)
  BY <1>1 DEF IInv, Control
<1>4. ret[c] \in {"taskEnd", "chain"}
  BY <1>2, <1>3 DEF Frame, Returns, Schedulers
<1>5. /\ QueuesOK'
      /\ \A p \in Prios : p # c => Top(p)' = Top(p)
      /\ Top(c) = NULL => Top(c)' = NULL
  BY <1>1, PopKeeps DEF IInv
<1>6. /\ ~Serving(c)' /\ ~Drained(c)' /\ ~Drained(c)
      /\ \A p \in Prios : p # c => /\ Serving(p)' <=> Serving(p)
                                   /\ Drained(p)' <=> Drained(p)
  BY <1>1, <1>2, <1>4 DEF Serving, Drained, Contexts
<1>7. ServedIsHead'
  BY <1>1, <1>5, <1>6 DEF IInv, ServedIsHead, Top
<1>8. LostOnlyByDrain'
  BY <1>1, <1>5, <1>6 DEF IInv, LostOnlyByDrain, Top
<1>9. ReadyBitJustified'
  BY <1>1, <1>5, <1>6 DEF IInv, ReadyBitJustified, TypeOK, Top
<1>10. TypeOK'
  <2>1. masked' \in BOOLEAN /\ disableCount' \in 0 .. Uint8Max
    BY UnlockTyped DEF IInv, TerminateTask
  <2>2. /\ noAct' \in [Tasks -> 0 .. Uint8Max]
        /\ state' \in [Tasks -> {"SUSPENDED", "READY", "RUNNING"}]
        /\ mode' \in {"run", "fault"}
    <3>1. CASE CurrTop = NULL
      <4>1. MarkReady(NULL, state) /\ noAct' = noAct
        BY <3>1 DEF TerminateTask
      <4> QED
        BY <4>1, MarkReadyTyped DEF IInv, TypeOK
    <3>2. CASE CurrTop # NULL
      <4> DEFINE left == Uint8Dec(noAct[CurrTop])
      <4>1. CurrTop \in Tasks
        BY <3>2, CurrTopIsTask
      <4>2. left \in 0 .. Uint8Max
        BY <4>1, Uint8Closed DEF IInv, TypeOK
      <4>3. /\ noAct' = [noAct EXCEPT ![CurrTop] = left]
            /\ state' = [state EXCEPT ![CurrTop] =
                           IF left = 0 THEN "SUSPENDED" ELSE "READY"]
            /\ mode' = mode
        BY <3>2 DEF TerminateTask
      <4> QED
        BY <4>1, <4>2, <4>3 DEF IInv, TypeOK
    <3> QED
      BY <3>1, <3>2
  <2> QED
    BY <1>1, <1>2, <1>5, <2>1, <2>2 DEF IInv, TypeOK, QueuesOK
<1>11. Control'
  <2>1. Frame(c)'
    BY <1>1, <1>2, <1>3, <1>4 DEF Frame, Returns, Schedulers
  <2> QED
    BY <1>1, <1>2, <2>1, ControlKeeps DEF IInv
<1> QED
  BY <1>5, <1>7, <1>8, <1>9, <1>10, <1>11 DEF IInv

LEMMA ClearReadyBitKeeps ==
  ASSUME QSizeFits, IInv, NEW c \in Prios, ClearReadyBit(c)
  PROVE  IInv'
<1>1. /\ Goto(c, "drainCS", "read") /\ c \in Contexts /\ "read" \in Labels
      /\ ret' = [ret EXCEPT ![c] = "exit"]
      /\ readySet' = readySet \ {c}
      /\ UNCHANGED <<state, noAct, queues, currQueue, nextQueue, pendSV,
                     arg, cand, run, mode>>
  BY DEF ClearReadyBit, Call, Contexts, Labels, Schedulers
<1>2. /\ pc' \in [Contexts -> Labels]
      /\ pc[c] = "drainCS" /\ pc'[c] = "read"
      /\ \A d \in Contexts : d # c => pc'[d] = pc[d]
  BY <1>1, GotoMoves DEF IInv
<1>3. /\ ret' \in [Contexts -> {"none", "loop", "task", "taskEnd", "chain",
                                "exit", "main", "lost", "shutdown"}]
      /\ ret'[c] = "exit"
      /\ \A d \in Contexts : d # c => ret'[d] = ret[d]
  BY <1>1 DEF IInv, TypeOK
<1>4. /\ ~Serving(c)' /\ Drained(c)'
      /\ \A p \in Prios : p # c => /\ Serving(p)' <=> Serving(p)
                                   /\ Drained(p)' <=> Drained(p)
  BY <1>1, <1>2, <1>3 DEF Serving, Drained, Contexts
<1>5. QueuesOK' /\ ServedIsHead'
  BY <1>1, <1>4 DEF IInv, QueuesOK, ServedIsHead
<1>6. LostOnlyByDrain' /\ ReadyBitJustified'
  BY <1>1, <1>4 DEF IInv, LostOnlyByDrain, ReadyBitJustified, TypeOK
<1>7. TypeOK'
  <2>1. masked' \in BOOLEAN /\ disableCount' \in 0 .. Uint8Max
    BY UnlockTyped DEF IInv, ClearReadyBit
  <2> QED
    BY <1>1, <1>2, <1>3, <2>1 DEF IInv, TypeOK
<1>8. Control'
  <2>1. Frame(c)'
    BY <1>2, <1>3 DEF Frame, Returns, Schedulers
  <2> QED
    BY <1>1, <1>2, <1>3, <2>1, ControlKeeps DEF IInv
<1> QED
  BY <1>5, <1>6, <1>7, <1>8 DEF IInv
-----------------------------------------------------------------------------
(***************************************************************************)
(* Start-up.                                                               *)
(***************************************************************************)
LEMMA MainActivateKeeps ==
  ASSUME QSizeFits, IInv, MainActivate
  PROVE  IInv'
<1>1. PICK t \in MainActivates :
        /\ Call(NULL, "main", "act", "main")
        /\ arg' = [arg EXCEPT ![NULL] = t]
        /\ UNCHANGED <<osVars, currQueue, nextQueue, pendSV, lockVars, cand,
                       run, mode>>
  BY DEF MainActivate
<1>2. t \in Tasks /\ NULL \in Contexts \ Prios
  BY KernelAssumption DEF Contexts
<1>3. TypeOK'
  BY <1>1, <1>2 DEF IInv, TypeOK, Call, Goto, osVars, lockVars, Labels
<1> QED
  BY <1>1, <1>2, <1>3, QuietStep DEF IInv, TypeOK, Call, Goto, osVars, Frame,
     Returns, Schedulers

LEMMA StartOSKeeps ==
  ASSUME QSizeFits, IInv, StartOS
  PROVE  IInv'
<1>1. NULL \in Contexts \ Prios
  BY KernelAssumption DEF Contexts
<1>2. TypeOK'
  BY <1>1 DEF IInv, TypeOK, StartOS, Call, Goto, osVars, lockVars, Labels
<1> QED
  BY <1>1, <1>2, QuietStep DEF IInv, TypeOK, StartOS, Call, Goto, osVars, Frame,
     Returns, Schedulers

LEMMA InitQueueKeeps ==
  ASSUME QSizeFits, IInv, NEW p \in Prios, InitQueue(p)
  PROVE  IInv'
<1>1. TypeOK'
  BY DEF IInv, TypeOK, InitQueue, osVars, lockVars, Labels
<1> QED
  BY <1>1, QuietStep DEF IInv, TypeOK, InitQueue, osVars, Control, Frame,
     Returns, Schedulers, Serving, Drained, Contexts

LEMMA InitReadyKeeps ==
  ASSUME QSizeFits, IInv, Starting, InitReady
  PROVE  IInv'
<1>1. /\ currQueue = NULL /\ NULL \in Contexts \ Prios /\ TaskPrio[idle] \in Prios
      /\ Goto(NULL, "initQueue", "initState") /\ "initState" \in Labels
      /\ readySet' = readySet \cup {TaskPrio[idle]}
      /\ UNCHANGED <<state, noAct, queues, currQueue, nextQueue, pendSV, lockVars,
                     ret, arg, cand, run, mode>>
  BY KernelAssumption DEF InitReady, Executes, Contexts, Labels
<1>2. /\ pc' \in [Contexts -> Labels]
      /\ pc[NULL] = "initQueue" /\ pc'[NULL] = "initState"
      /\ \A d \in Contexts : d # NULL => pc'[d] = pc[d]
  BY <1>1, GotoMoves DEF IInv
<1>3. TypeOK' /\ QueuesOK'
  BY <1>1, <1>2 DEF IInv, TypeOK, QueuesOK, lockVars
<1>4. Control'
  <2>1. Frame(NULL)'
    BY <1>1, <1>2 DEF IInv, Control, Frame, Returns, Schedulers
  <2> QED
    BY <1>1, <1>2, <2>1, ControlKeeps DEF IInv
<1>5. \A p \in Prios : /\ Serving(p)' <=> Serving(p)
                       /\ Drained(p)' <=> Drained(p)
  BY <1>1, <1>2 DEF Serving, Drained, Contexts
<1>6. \A p \in Prios : ~Drained(p)
  BY <1>1 DEF IInv, Starting, Control, Frame, Returns, Schedulers, Drained, Contexts
<1>7. ServedIsHead'
  BY <1>1, <1>5 DEF IInv, ServedIsHead
<1>8. LostOnlyByDrain'
  BY <1>1, <1>5 DEF IInv, LostOnlyByDrain
<1>9. ReadyBitJustified'
  BY <1>1, <1>5, <1>6 DEF IInv, TypeOK, ReadyBitJustified
<1> QED
  BY <1>3, <1>4, <1>7, <1>8, <1>9 DEF IInv

LEMMA InitStateKeeps ==
  ASSUME QSizeFits, IInv, InitState
  PROVE  IInv'
<1> DEFINE to == IF IsFull(queues[TaskPrio[idle]]) THEN "read" ELSE "initLock"
<1>1. /\ NULL \in Contexts \ Prios
      /\ Goto(NULL, "initState", to) /\ to \in Labels
      /\ state' = Activated(idle)
      /\ UNCHANGED <<readySet, noAct, queues, currQueue, nextQueue, pendSV, lockVars,
                     ret, arg, cand, run, mode>>
  BY KernelAssumption DEF InitState, Contexts, Labels, Schedulers
<1>2. to \in {"read", "initLock"}
  OBVIOUS
<1> HIDE DEF to
<1>3. /\ pc' \in [Contexts -> Labels]
      /\ pc[NULL] = "initState" /\ pc'[NULL] = to
      /\ \A d \in Contexts : d # NULL => pc'[d] = pc[d]
  BY <1>1, GotoMoves DEF IInv
<1>4. TypeOK'
  BY <1>1, <1>3 DEF IInv, TypeOK, Activated, lockVars
<1>5. Frame(NULL)'
  BY <1>1, <1>2, <1>3 DEF IInv, Control, Frame, Returns, Schedulers
<1> QED
  BY <1>1, <1>3, <1>4, <1>5, QuietStep

LEMMA InitPushKeeps ==
  ASSUME QSizeFits, IInv, Starting, InitPush
  PROVE  IInv'
<1> DEFINE w == TaskPrio[idle]
<1>1. /\ currQueue = NULL /\ NULL \in Contexts \ Prios /\ idle \in Tasks /\ w \in Prios
      /\ Goto(NULL, "initCS", "read") /\ "read" \in Labels
      /\ queues' = [queues EXCEPT ![w] = Pushed(@, idle)]
      /\ UNCHANGED <<readySet, state, noAct, currQueue, nextQueue, pendSV,
                     ret, arg, cand, run, mode>>
  BY KernelAssumption DEF InitPush, Executes, Contexts, Labels, Schedulers
<1>2. /\ pc' \in [Contexts -> Labels]
      /\ pc[NULL] = "initCS" /\ pc'[NULL] = "read"
      /\ \A d \in Contexts : d # NULL => pc'[d] = pc[d]
  BY <1>1, GotoMoves DEF IInv
<1>3. w \in readySet /\ ~IsFull(queues[w])
  BY <1>1, <1>2 DEF Starting
<1>4. /\ queues' = [queues EXCEPT ![w] = PushToQueue(@, idle)]
      /\ readySet' = readySet \cup {w}
  BY <1>1, <1>3 DEF PushToQueue
<1>5. \A p \in Prios : /\ Serving(p)' => Serving(p) /\ run'[p] = run[p]
                       /\ Drained(p)' <=> Drained(p)
  BY <1>1, <1>2 DEF Serving, Drained, Contexts
<1>6. QueuesOK' /\ (ServedIsHead /\ LostOnlyByDrain /\ ReadyBitJustified)'
  BY <1>1, <1>4, <1>5, ActivationKeeps
<1>7. TypeOK'
  <2>1. masked' \in BOOLEAN /\ disableCount' \in 0 .. Uint8Max
    BY UnlockTyped DEF IInv, InitPush
  <2> QED
    BY <1>1, <1>2, <1>6, <2>1 DEF IInv, TypeOK, QueuesOK
<1>8. Control'
  <2>1. Frame(NULL)'
    BY <1>1, <1>2 DEF IInv, Control, Frame, Returns, Schedulers
  <2> QED
    BY <1>1, <1>2, <2>1, ControlKeeps DEF IInv
<1> QED
  BY <1>6, <1>7, <1>8 DEF IInv
-----------------------------------------------------------------------------
(***************************************************************************)
(* Interrupts, and steps that move no context.                             *)
(***************************************************************************)
LEMMA StillKeeps ==
  ASSUME QSizeFits, IInv, TypeOK', UNCHANGED <<readySet, queues, ctxVars>>
  PROVE  IInv'
<1>1. QueuesOK' /\ Control'
  BY DEF IInv, QueuesOK, Control, Frame, ctxVars
<1>2. \A p \in Prios : /\ Serving(p)' => Serving(p) /\ run'[p] = run[p]
                       /\ Drained(p)' <=> Drained(p)
  BY DEF Serving, Drained, ctxVars
<1> QED
  BY <1>1, <1>2, QuietKeeps DEF IInv

(* What Schedule() writes at interrupt level.                              *)
LEMMA ScheduleFromISRTyped ==
  ASSUME QSizeFits, TypeOK, NEW rs, NEW qs,
         NEW s \in [Tasks -> {"SUSPENDED", "READY", "RUNNING"}],
         \A p \in Prios : qs[p] \in QueueType(Tasks \cup {NULL}, QSize[p]),
         ScheduleFromISR(rs, qs, s)
  PROVE  /\ nextQueue' \in Contexts \cup {WILD}
         /\ pendSV' \in BOOLEAN
         /\ state' \in [Tasks -> {"SUSPENDED", "READY", "RUNNING"}]
         /\ mode' \in {"run", "fault"}
<1> DEFINE top == IF currQueue = NULL THEN NULL ELSE TopFromQueue(qs[currQueue])
<1>1. top \in Tasks \cup {NULL}
  <2>1. CASE currQueue = NULL
    BY <2>1
  <2>2. CASE currQueue # NULL
    <3>1. /\ currQueue \in Prios /\ QSize[currQueue] \in 1 .. Int8Max
          /\ qs[currQueue] \in QueueType(Tasks \cup {NULL}, QSize[currQueue])
      BY <2>2 DEF TypeOK, Contexts, QSizeFits
    <3> QED
      BY <2>2, <3>1, TopIsHead
  <2> QED
    BY <2>1, <2>2
<1>2. PICK q \in ReadyQueue(rs) :
        /\ nextQueue' = q
        /\ IF q = currQueue THEN state' = s /\ UNCHANGED <<pendSV, mode>>
                            ELSE MarkReady(top, s) /\ pendSV' = TRUE
  BY DEF ScheduleFromISR
<1> HIDE DEF top
<1>3. nextQueue' \in Contexts \cup {WILD}
  BY <1>2, ReadyQueueTyped DEF Contexts
<1>4. CASE q = currQueue
  BY <1>2, <1>3, <1>4 DEF TypeOK
<1>5. CASE q # currQueue
  BY <1>1, <1>2, <1>3, <1>5, MarkReadyTyped
<1> QED
  BY <1>4, <1>5

LEMMA tickHandlerKeeps ==
  ASSUME QSizeFits, IInv, tickHandler
  PROVE  IInv'
<1>1. /\ ScheduleFromISR(readySet, queues, state)
      /\ UNCHANGED <<readySet, noAct, queues, currQueue, lockVars, ctxVars>>
  BY DEF tickHandler
<1>2. /\ nextQueue' \in Contexts \cup {WILD}
      /\ pendSV' \in BOOLEAN
      /\ state' \in [Tasks -> {"SUSPENDED", "READY", "RUNNING"}]
      /\ mode' \in {"run", "fault"}
  BY <1>1, ScheduleFromISRTyped DEF IInv, TypeOK, QueuesOK
<1>3. TypeOK'
  BY <1>1, <1>2 DEF IInv, TypeOK, lockVars, ctxVars
<1> QED
  BY <1>1, <1>3, StillKeeps

LEMMA IsrActivateTaskKeeps ==
  ASSUME QSizeFits, IInv, NEW t \in IsrTasks, IsrActivateTask(t)
  PROVE  IInv'
<1>1. /\ t \in Tasks /\ Activate(t)
      /\ ScheduleFromISR(readySet', queues', Activated(t))
      /\ InterruptSection
      /\ UNCHANGED <<currQueue, ctxVars>>
  BY KernelAssumption DEF IsrActivateTask
<1>2. \A p \in Prios : /\ Serving(p)' => Serving(p) /\ run'[p] = run[p]
                       /\ Drained(p)' <=> Drained(p)
  BY <1>1 DEF Serving, Drained, ctxVars
<1>3. /\ QueuesOK'
      /\ (ServedIsHead /\ LostOnlyByDrain /\ ReadyBitJustified)'
  BY <1>1, <1>2, ActivationKeeps DEF Activate
<1>4. TypeOK'
  <2>1. /\ readySet' \subseteq Prios
        /\ noAct' \in [Tasks -> 0 .. Uint8Max]
        /\ Activated(t) \in [Tasks -> {"SUSPENDED", "READY", "RUNNING"}]
    BY <1>1, ActivationTyped
  <2>2. /\ nextQueue' \in Contexts \cup {WILD}
        /\ pendSV' \in BOOLEAN
        /\ state' \in [Tasks -> {"SUSPENDED", "READY", "RUNNING"}]
        /\ mode' \in {"run", "fault"}
    BY <1>1, <1>3, <2>1, ScheduleFromISRTyped DEF IInv, QueuesOK
  <2>3. masked' \in BOOLEAN /\ disableCount' \in 0 .. Uint8Max
    BY <1>1, UnlockTyped DEF IInv
  <2> QED
    BY <1>1, <1>3, <2>1, <2>2, <2>3 DEF IInv, TypeOK, QueuesOK, ctxVars
<1>5. Control'
  BY <1>1 DEF IInv, Control, Frame, ctxVars
<1> QED
  BY <1>3, <1>4, <1>5 DEF IInv

LEMMA contextSwitchISRKeeps ==
  ASSUME QSizeFits, IInv, contextSwitchISR
  PROVE  IInv'
<1>1. TypeOK'
  BY DEF IInv, TypeOK, contextSwitchISR, Contexts, osVars, lockVars, ctxVars
<1> QED
  BY <1>1, StillKeeps DEF contextSwitchISR, osVars

LEMMA DispatcherReturnsKeeps ==
  ASSUME QSizeFits, IInv, NEW c \in Prios, DispatcherReturns(c)
  PROVE  IInv'
<1>1. TypeOK'
  BY DEF IInv, TypeOK, DispatcherReturns, osVars, lockVars, ctxVars
<1> QED
  BY <1>1, StillKeeps DEF DispatcherReturns, osVars

LEMMA StutterKeeps ==
  ASSUME QSizeFits, IInv, UNCHANGED vars
  PROVE  IInv'
<1>1. TypeOK'
  BY DEF IInv, TypeOK, vars, osVars, lockVars, ctxVars
<1> QED
  BY <1>1, StillKeeps DEF vars, osVars
-----------------------------------------------------------------------------
(***************************************************************************)
(* The theorems.                                                           *)
(***************************************************************************)
LEMMA InitIInv == ASSUME QSizeFits, Init PROVE IInv
<1>1. \A p \in Prios :
        /\ queues[p] = NewQueue(QSize[p])
        /\ queues[p] \in QueueType(Tasks \cup {NULL}, QSize[p])
        /\ RingOK(queues[p]) /\ queues[p].queue_size = 0
        /\ Contents(queues[p]) = << >> /\ TopFromQueue(queues[p]) = NULL
  <2>1. SUFFICES ASSUME NEW p \in Prios
                 PROVE  /\ queues[p] = NewQueue(QSize[p])
                        /\ queues[p] \in QueueType(Tasks \cup {NULL}, QSize[p])
                        /\ RingOK(queues[p]) /\ queues[p].queue_size = 0
                        /\ Contents(queues[p]) = << >>
                        /\ TopFromQueue(queues[p]) = NULL
    OBVIOUS
  <2>2. QSize[p] \in 1 .. Int8Max /\ queues[p] = NewQueue(QSize[p])
    BY DEF QSizeFits, Init
  <2>3. /\ queues[p] \in QueueType(Tasks \cup {NULL}, QSize[p])
        /\ RingOK(queues[p])
    BY <2>2, NewQueueTyped
  <2>4. queues[p].queue_size = 0
    BY <2>2 DEF NewQueue
  <2> QED
    BY <2>2, <2>3, <2>4, TopIsHead
<1>2. /\ \A c \in Contexts : pc[c] = IF c = NULL THEN "main" ELSE "nostack"
      /\ \A c \in Contexts : ret[c] = "none"
      /\ \A p \in Prios : p \in Contexts /\ p # NULL
      /\ NULL \in Contexts
  BY KernelAssumption DEF Init, Contexts
<1>3. TypeOK
  <2>1. pc \in [Contexts -> Labels]
    BY DEF Init, Labels
  <2>2. 0 \in 0 .. Uint8Max
    BY Int8Assumption DEF Uint8Max
  <2>3. DOMAIN queues = Prios
    BY DEF Init
  <2> QED
    BY <1>1, <2>1, <2>2, <2>3 DEF Init, TypeOK, Contexts
<1>4. QueuesOK
  <2>1. DOMAIN queues = Prios
    BY DEF Init
  <2>2. \A p : << >> \in Seq(TasksOf(p))
    OBVIOUS
  <2> QED
    BY <1>1, <2>1, <2>2 DEF QueuesOK
<1>5. Control
  BY <1>2 DEF Control, Frame, Returns, Schedulers
<1>6. \A p \in Prios : ~Serving(p) /\ ~Drained(p)
  BY <1>2 DEF Serving, Drained
<1>7. ServedIsHead /\ LostOnlyByDrain /\ ReadyBitJustified
  BY <1>1, <1>6 DEF Init, ServedIsHead, LostOnlyByDrain, ReadyBitJustified
<1> QED
  BY <1>3, <1>4, <1>5, <1>7 DEF IInv

LEMMA NextIInv == ASSUME QSizeFits, IInv, Starting, [Next]_vars PROVE IInv'
<1>1. CASE Startup
  BY <1>1, MainActivateKeeps, StartOSKeeps, InitQueueKeeps, InitReadyKeeps,
     InitStateKeeps, InitPushKeeps DEF Startup
<1>2. ASSUME NEW c \in Contexts, Context(c) PROVE IInv'
  <2>1. CASE Schedule(c)
    BY <2>1, ScheduleReadKeeps, ScheduleStoreKeeps, ScheduleCompareKeeps,
       ScheduleMarkKeeps, SchedulePendKeeps DEF Schedule
  <2> QED
    BY <1>2, <2>1, LockKeeps, ActivateTaskKeeps DEF Context
<1>3. ASSUME NEW p \in Prios, Thread(p) PROVE IInv'
  <2>1. CASE Dispatcher(p)
    BY <2>1, DispatchTaskKeeps, LeaveLoopKeeps, ClearReadyBitKeeps,
       DispatcherReturnsKeeps, TaskReturnsKeeps DEF Dispatcher
  <2>2. CASE Context(p)
    BY <1>2, <2>2 DEF Contexts
  <2> QED
    BY <1>3, <2>1, <2>2, BodyKeeps, TerminateTaskKeeps, ChainContinuesKeeps
       DEF Thread
<1>4. CASE Interrupt
  BY <1>4, tickHandlerKeeps, contextSwitchISRKeeps, IsrActivateTaskKeeps
     DEF Interrupt
<1>5. CASE UNCHANGED vars
  BY <1>5, StutterKeeps
<1> QED
  BY <1>1, <1>2, <1>3, <1>4, <1>5 DEF Next, Halted, Contexts

(* A step of a dispatcher's context, and one that takes main() past        *)
(* InitOS, leave nothing to show of the start-up.                          *)
LEMMA PastStartup ==
  ASSUME Starting, NEW c \in Contexts, Executes(c), UNCHANGED currQueue,
         c = NULL => /\ pc'[NULL] \notin {"initState", "initLock", "initCS"}
                     /\ \A p \in Prios : pc'[p] = pc[p]
  PROVE  Starting'
  BY DEF Starting, Executes

LEMMA MainMoves ==
  ASSUME TypeOK, Starting, Executes(NULL), UNCHANGED currQueue, NEW from, NEW to,
         Goto(NULL, from, to), to \notin {"initState", "initLock", "initCS"}
  PROVE  Starting'
<1>1. /\ pc'[NULL] = to /\ NULL \in Contexts
      /\ \A p \in Prios : pc'[p] = pc[p]
  BY KernelAssumption DEF TypeOK, Goto, Contexts
<1> QED
  BY <1>1, PastStartup

LEMMA NextStarting ==
  ASSUME QSizeFits, HandlersSpareIdle, IInv, Starting, [Next]_vars
  PROVE  Starting'
<1> USE KernelAssumption
<1>1. CASE Startup
  <2>1. CASE MainActivate \/ StartOS \/ InitPush
    BY <2>1, MainMoves DEF MainActivate, StartOS, InitPush, Call, IInv
  <2>2. ASSUME NEW p \in Prios, InitQueue(p) PROVE Starting'
    BY <2>2 DEF InitQueue, Executes, Starting, IInv, TypeOK, Contexts, osVars
  <2>3. CASE InitReady
    BY <2>3 DEF InitReady, Executes, Goto, Starting, IInv, TypeOK, Contexts
  <2>4. CASE InitState
    BY <2>4 DEF InitState, Executes, Goto, Starting, IInv, TypeOK, Contexts
  <2> QED
    BY <1>1, <2>1, <2>2, <2>3, <2>4 DEF Startup
<1>2. CASE Context(NULL)
  <2>1. CASE Lock(NULL)
    BY <2>1 DEF Lock, Goto, Executes, Starting, IInv, TypeOK, Contexts, osVars
  <2>2. CASE ActivateTask(NULL)
    BY <2>2, MainMoves DEF ActivateTask, IInv
  <2>3. CASE Schedule(NULL)
    <3>1. CASE ScheduleRead(NULL) \/ ScheduleStore(NULL) \/ ScheduleMark(NULL)
      BY <3>1, MainMoves DEF ScheduleRead, ScheduleStore, ScheduleMark, IInv
    <3>2. CASE ScheduleCompare(NULL) \/ SchedulePend(NULL)
      <4>1. NULL \in Contexts /\ pc[NULL] \in Schedulers
        BY <3>2 DEF ScheduleCompare, SchedulePend, Return, Call, Goto,
           Schedulers, Contexts
      <4>2. ret[NULL] \in {"task", "taskEnd", "chain", "loop", "exit", "main", "lost"}
        BY <4>1, ScheduleReturns
      <4> QED
        BY <3>2, <4>2, MainMoves DEF ScheduleCompare, SchedulePend, Return, Call,
           IInv
    <3> QED
      BY <2>3, <3>1, <3>2 DEF Schedule
  <2> QED
    BY <1>2, <2>1, <2>2, <2>3 DEF Context
<1>3. ASSUME NEW p \in Prios, Thread(p) PROVE Starting'
  <2>1. Executes(p) /\ currQueue' = currQueue
    BY <1>3 DEF Thread, Dispatcher, DispatchTask, LeaveLoop, ClearReadyBit,
       DispatcherReturns, TaskReturns, Body, CallActivateTask, CallSchedule,
       CallTerminate, CallChain, CallShutdown, BodyCalls, TerminateTask,
       ChainContinues, Context, Lock, ActivateTask, Schedule, ScheduleRead,
       ScheduleStore, ScheduleCompare, ScheduleMark, SchedulePend
  <2> QED
    BY <2>1, PastStartup DEF Contexts
<1>4. CASE Interrupt
  <2>1. CASE tickHandler
    BY <2>1 DEF tickHandler, Starting, ctxVars
  <2>2. ASSUME NEW t \in IsrTasks, IsrActivateTask(t) PROVE Starting'
    <3>1. currQueue = NULL => TaskPrio[t] # TaskPrio[idle]
      BY <2>2 DEF IsrActivateTask, InterruptTaken, HandlersSpareIdle
    <3> QED
      BY <2>2, <3>1 DEF IsrActivateTask, Activate, Starting, ctxVars, IInv, TypeOK
  <2>3. CASE contextSwitchISR
    BY <2>3 DEF contextSwitchISR, Starting, ctxVars, osVars
  <2> QED
    BY <1>4, <2>1, <2>2, <2>3 DEF Interrupt
<1>5. CASE UNCHANGED vars
  BY <1>5 DEF Starting, vars, osVars, ctxVars
<1> QED
  BY <1>1, <1>2, <1>3, <1>4, <1>5 DEF Next, Halted

(* The inductive invariant holds of every behaviour of the kernel.         *)
LEMMA Invariance ==
  ASSUME QSizeFits, HandlersSpareIdle PROVE Spec => [](IInv /\ Starting)
<1>1. Init => IInv /\ Starting
  BY InitIInv, KernelAssumption DEF Init, Starting, Contexts
<1>2. IInv /\ Starting /\ [Next]_vars => (IInv /\ Starting)'
  BY NextIInv, NextStarting
<1> QED
  BY <1>1, <1>2, PTL DEF Spec

(* Every variable stays within its C type, and every index inside its      *)
(* array, whatever the tasks and the interrupts do (osek.c:35-92).         *)
THEOREM TypeCorrect ==
  ASSUME QSizeFits, HandlersSpareIdle PROVE Spec => []TypeOK
<1>1. IInv => TypeOK
  BY DEF IInv
<1> QED
  BY <1>1, Invariance, PTL

(* TerminateTask always pops the task that its caller is: the head of the  *)
(* current queue is the one the dispatcher called (osek.c:103, 259).       *)
THEOREM TerminatesCaller ==
  ASSUME QSizeFits, HandlersSpareIdle PROVE Spec => []ServedIsHead
<1>1. IInv => ServedIsHead
  BY DEF IInv
<1> QED
  BY <1>1, Invariance, PTL

(* A queued task without its ready bit is always behind the drain window   *)
(* of osek.c:103-112: no other path loses an activation.                   *)
THEOREM OnlyDrainLoses ==
  ASSUME QSizeFits, HandlersSpareIdle PROVE Spec => []LostOnlyByDrain
<1>1. IInv => LostOnlyByDrain
  BY DEF IInv
<1> QED
  BY <1>1, Invariance, PTL

(* No ready bit is set for good without a task: a context whose bit is set *)
(* over an empty queue still has its dispatcher's loop to run              *)
(* (osek.c:99-115).                                                        *)
THEOREM BitsJustified ==
  ASSUME QSizeFits, HandlersSpareIdle PROVE Spec => []ReadyBitJustified
<1>1. IInv => ReadyBitJustified
  BY DEF IInv
<1> QED
  BY <1>1, Invariance, PTL
-----------------------------------------------------------------------------
(***************************************************************************)
(* The counter, the RUNNING task and the count of activations.             *)
(***************************************************************************)
(* There are fewer priorities than a uint8_t has values: osek_readySet has *)
(* a bit for each of them, of the bits of a word (osek.c:14, 36).          *)
FewPriorities == IsFiniteSet(Prios) /\ Cardinality(Contexts) <= Uint8Max

(* The contexts inside a critical section, or about to mask for it.        *)
InSection == {c \in Contexts : pc[c] \in CriticalSections}

(* The nesting counter is that of these contexts, and interrupts are masked *)
(* only while it is up.                                                    *)
CountInv == /\ disableCount = Cardinality(InSection)
            /\ masked => disableCount # 0

(* The sections of a context that was switched away from keep interrupts   *)
(* masked, whatever the executing one does.                                *)
Stuck == masked /\ Exported

NoneRunning == \A t \in Tasks : state[t] # "RUNNING"

(* A task is RUNNING only while its context executes it; the switch to     *)
(* another context, and the end of Schedule(), come when it is no more.    *)
RunningServed ==
  \A t \in Tasks : state[t] = "RUNNING" =>
    currQueue = TaskPrio[t] /\ run[currQueue] = t /\ Serving(currQueue)
SwitchMarked == (pendSV /\ nextQueue # currQueue /\ ~Stuck) => NoneRunning
PendMarked == pc[currQueue] = "pend" => NoneRunning

RunInv == RunningServed /\ SwitchMarked /\ PendMarked
-----------------------------------------------------------------------------
(***************************************************************************)
(* What the steps do to the contexts.                                      *)
(***************************************************************************)
(* A step of c takes it from one label to another, and no other context    *)
(* anywhere.                                                               *)
Alone(c) == \A d \in Contexts : d # c => /\ pc'[d] = pc[d] /\ ret'[d] = ret[d]
                                         /\ arg'[d] = arg[d] /\ cand'[d] = cand[d]
                                         /\ run'[d] = run[d]
Moves(c, from, to) == /\ Executes(c) /\ UNCHANGED currQueue
                      /\ pc[c] = from /\ pc'[c] = to /\ Alone(c)

(* The steps of a context, by the kinds of things they change.             *)
LEMMA LockMoves ==
  ASSUME IInv, NEW c \in Contexts, Lock(c)
  PROVE  /\ \/ Moves(c, "act", "actCS") \/ Moves(c, "term", "termCS")
            \/ Moves(c, "drain", "drainCS") \/ Moves(c, "initLock", "initCS")
         /\ UNCHANGED <<readySet, state, noAct, queues, nextQueue, pendSV, masked,
                        ret, arg, cand, run, mode>>
         /\ disableCount' = Uint8Inc(disableCount)
<1>1. ASSUME NEW from, NEW to, Goto(c, from, to),
             UNCHANGED <<currQueue, ret, arg, cand, run>>
      PROVE  Moves(c, from, to)
  BY <1>1 DEF Goto, IInv, TypeOK, Moves, Alone, Lock
<1> QED
  BY <1>1 DEF Lock, CountUp, osVars

LEMMA ActivateTaskMoves ==
  ASSUME IInv, NEW c \in Contexts, ActivateTask(c)
  PROVE  /\ Moves(c, "actCS", "read")
         /\ arg[c] \in Tasks /\ ret[c] \in {"task", "taskEnd", "main"}
         /\ Activate(arg[c]) /\ state' = Activated(arg[c])
         /\ EnableAllInterrupts
         /\ UNCHANGED <<nextQueue, pendSV, ret, arg, cand, run, mode>>
<1>1. Frame(c) /\ pc[c] = "actCS"
  BY DEF IInv, Control, ActivateTask, Goto
<1>2. arg[c] \in Tasks /\ ret[c] \in {"task", "taskEnd", "main"}
  BY <1>1 DEF Frame, Returns, Schedulers
<1> QED
  BY <1>2 DEF ActivateTask, Goto, IInv, TypeOK, Moves, Alone

LEMMA ScheduleReadMoves ==
  ASSUME IInv, NEW c \in Contexts, ScheduleRead(c)
  PROVE  /\ Moves(c, "read", "store")
         /\ cand'[c] \in ReadyQueue(readySet)
         /\ ret[c] = "chain" => arg'[c] = arg[c]
         /\ UNCHANGED <<readySet, state, noAct, queues, nextQueue, pendSV,
                        masked, disableCount, ret, run, mode>>
  BY DEF ScheduleRead, Goto, IInv, TypeOK, Moves, Alone, osVars, lockVars

LEMMA ScheduleStoreMoves ==
  ASSUME IInv, NEW c \in Contexts, ScheduleStore(c)
  PROVE  /\ Moves(c, "store", "compare")
         /\ nextQueue' = cand[c]
         /\ UNCHANGED <<readySet, state, noAct, queues, pendSV,
                        masked, disableCount, ret, arg, run, mode>>
  BY DEF ScheduleStore, Goto, IInv, TypeOK, Moves, Alone, osVars, lockVars

(* The label that Schedule() returns to.                                   *)
LEMMA ReturnLabel ==
  ASSUME IInv, NEW c \in Contexts, NEW from \in Schedulers, Return(c, from),
         Executes(c), UNCHANGED <<currQueue, arg, cand, run>>
  PROVE  /\ Moves(c, from, ret[c]) /\ ret'[c] = "none"
         /\ ret[c] \in {"task", "taskEnd", "chain", "loop", "exit", "main", "lost"}
<1>1. ret[c] \in {"task", "taskEnd", "chain", "loop", "exit", "main", "lost"}
  BY ScheduleReturns DEF Return, Call, Goto
<1> QED
  BY <1>1, ReturnMoves DEF IInv, Moves, Alone

LEMMA ScheduleCompareMoves ==
  ASSUME IInv, NEW c \in Contexts, ScheduleCompare(c)
  PROVE  /\ IF nextQueue # currQueue
            THEN Moves(c, "compare", "mark") /\ ret' = ret
            ELSE /\ Moves(c, "compare", ret[c]) /\ ret'[c] = "none"
                 /\ ret[c] \in {"task", "taskEnd", "chain", "loop", "exit",
                                "main", "lost"}
         /\ UNCHANGED <<readySet, state, noAct, queues, nextQueue, pendSV,
                        masked, disableCount, arg, cand, run, mode>>
<1>1. CASE nextQueue # currQueue
  BY <1>1 DEF ScheduleCompare, Goto, IInv, TypeOK, Moves, Alone, osVars, lockVars
<1>2. CASE nextQueue = currQueue
  BY <1>2, ReturnLabel DEF ScheduleCompare, osVars, lockVars, Schedulers
<1> QED
  BY <1>1, <1>2

LEMMA ScheduleMarkMoves ==
  ASSUME IInv, NEW c \in Contexts, ScheduleMark(c)
  PROVE  /\ Moves(c, "mark", "pend")
         /\ MarkReady(CurrTop, state)
         /\ UNCHANGED <<readySet, noAct, queues, nextQueue, pendSV,
                        masked, disableCount, ret, arg, cand, run>>
  BY DEF ScheduleMark, Goto, IInv, TypeOK, Moves, Alone, osVars, lockVars

LEMMA SchedulePendMoves ==
  ASSUME IInv, NEW c \in Contexts, SchedulePend(c)
  PROVE  /\ Moves(c, "pend", ret[c]) /\ ret'[c] = "none"
         /\ ret[c] \in {"task", "taskEnd", "chain", "loop", "exit", "main", "lost"}
         /\ pendSV' = TRUE
         /\ UNCHANGED <<readySet, state, noAct, queues, nextQueue,
                        masked, disableCount, arg, cand, run, mode>>
  BY ReturnLabel DEF SchedulePend, osVars, lockVars, Schedulers

LEMMA DispatchTaskMoves ==
  ASSUME QSizeFits, IInv, NEW c \in Prios, DispatchTask(c)
  PROVE  /\ Moves(c, "loop", "task") /\ ret[c] = "none"
         /\ CurrTop = Top(c) /\ Top(c) \in Tasks /\ TaskPrio[Top(c)] = c
         /\ run'[c] = Top(c) /\ state' = [state EXCEPT ![Top(c)] = "RUNNING"]
         /\ UNCHANGED <<readySet, noAct, queues, nextQueue, pendSV,
                        masked, disableCount, ret, arg, cand, mode>>
<1>1. CurrTop = Top(c) /\ CurrTop # NULL /\ pc[c] = "loop" /\ c \in Contexts
  BY KernelAssumption DEF DispatchTask, Executes, CurrTop, Top, Goto, Contexts
<1>2. Top(c) \in Tasks /\ TaskPrio[Top(c)] = c
  BY <1>1, TopHasPrio DEF IInv
<1>3. ret[c] = "none"
  BY <1>1 DEF IInv, Control, Frame, Returns, Schedulers
<1> QED
  BY <1>1, <1>2, <1>3 DEF DispatchTask, Goto, IInv, TypeOK, Moves, Alone, lockVars

LEMMA LeaveLoopMoves ==
  ASSUME IInv, NEW c \in Prios, LeaveLoop(c)
  PROVE  /\ Moves(c, "loop", "drain")
         /\ UNCHANGED <<readySet, state, noAct, queues, nextQueue, pendSV,
                        masked, disableCount, ret, arg, cand, run, mode>>
  BY DEF LeaveLoop, Goto, IInv, TypeOK, Moves, Alone, osVars, lockVars, Contexts

LEMMA ClearReadyBitMoves ==
  ASSUME IInv, NEW c \in Prios, ClearReadyBit(c)
  PROVE  /\ Moves(c, "drainCS", "read") /\ ret[c] = "none" /\ ret'[c] = "exit"
         /\ readySet' = readySet \ {c}
         /\ EnableAllInterrupts
         /\ UNCHANGED <<state, noAct, queues, nextQueue, pendSV,
                        arg, cand, run, mode>>
<1>1. pc[c] = "drainCS" /\ c \in Contexts
  BY DEF ClearReadyBit, Call, Goto, Contexts
<1>2. ret[c] = "none"
  BY <1>1 DEF IInv, Control, Frame, Returns, Schedulers
<1> QED
  BY <1>1, <1>2 DEF ClearReadyBit, Call, Goto, IInv, TypeOK, Moves, Alone

LEMMA TaskReturnsMoves ==
  ASSUME IInv, NEW c \in Prios, TaskReturns(c)
  PROVE  /\ Moves(c, "taskEnd", "read") /\ ret[c] = "none" /\ ret'[c] = "loop"
         /\ UNCHANGED <<readySet, state, noAct, queues, nextQueue, pendSV,
                        masked, disableCount, arg, cand, mode>>
<1>1. pc[c] = "taskEnd" /\ c \in Contexts
  BY DEF TaskReturns, Call, Goto, Contexts
<1>2. ret[c] = "none"
  BY <1>1 DEF IInv, Control, Frame, Returns, Schedulers
<1> QED
  BY <1>1, <1>2 DEF TaskReturns, Call, Goto, IInv, TypeOK, Moves, Alone, osVars, lockVars

LEMMA BodyMoves ==
  ASSUME IInv, NEW c \in Prios, Body(c)
  PROVE  /\ \/ /\ Moves(c, "task", "act") /\ ret'[c] = "task"
               /\ arg'[c] \in MayActivate[run[c]]
            \/ Moves(c, "task", "read") /\ ret'[c] = "task"
            \/ Moves(c, "task", "term") /\ ret'[c] = "taskEnd"
            \/ /\ Moves(c, "task", "term") /\ ret'[c] = "chain"
               /\ arg'[c] \in MayChain[run[c]]
            \/ Moves(c, "task", "shutdown") /\ ret'[c] = "shutdown"
         /\ run[c] \in Tasks /\ ret[c] = "none"
         /\ UNCHANGED <<readySet, state, noAct, queues, nextQueue, pendSV,
                        masked, disableCount, cand, run, mode>>
<1>1. pc[c] = "task" /\ c \in Contexts
  BY DEF Body, Contexts
<1>2. ret[c] = "none"
  BY <1>1 DEF IInv, Control, Frame, Returns, Schedulers
<1>3. run[c] \in Tasks
  BY <1>1 DEF IInv, ServedIsHead, Serving, TypeOK
<1>4. ASSUME NEW to, NEW back, NEW t, BodyCalls(c, to, back, t)
      PROVE  /\ Moves(c, "task", to) /\ ret'[c] = back /\ arg'[c] = t
             /\ UNCHANGED <<readySet, state, noAct, queues, nextQueue, pendSV,
                            masked, disableCount, cand, run, mode>>
  BY <1>1, <1>4 DEF BodyCalls, Call, Goto, IInv, TypeOK, Moves, Alone, osVars, lockVars
<1>5. CASE CallActivateTask(c)
  BY <1>2, <1>3, <1>4, <1>5 DEF CallActivateTask
<1>6. CASE CallSchedule(c)
  BY <1>2, <1>3, <1>4, <1>6 DEF CallSchedule
<1>7. CASE CallTerminate(c)
  BY <1>2, <1>3, <1>4, <1>7 DEF CallTerminate
<1>8. CASE CallChain(c)
  BY <1>2, <1>3, <1>4, <1>8 DEF CallChain
<1>9. CASE CallShutdown(c)
  BY <1>2, <1>3, <1>4, <1>9 DEF CallShutdown
<1> QED
  BY <1>5, <1>6, <1>7, <1>8, <1>9 DEF Body

LEMMA TerminateTaskMoves ==
  ASSUME QSizeFits, IInv, NEW c \in Prios, TerminateTask(c)
  PROVE  /\ Moves(c, "termCS", "read") /\ ret[c] \in {"taskEnd", "chain"}
         /\ run[c] \in Tasks /\ Top(c) = run[c] /\ CurrTop = run[c]
         /\ queues' = [queues EXCEPT ![c] = PopFromQueue(@)]
         /\ noAct' = [noAct EXCEPT ![run[c]] = Uint8Dec(@)]
         /\ \E left \in {"SUSPENDED", "READY"} :
              state' = [state EXCEPT ![run[c]] = left]
         /\ EnableAllInterrupts
         /\ UNCHANGED <<readySet, nextQueue, pendSV, ret, arg, cand, run, mode>>
<1>1. pc[c] = "termCS" /\ c \in Contexts /\ currQueue = c /\ c # NULL
  BY KernelAssumption DEF TerminateTask, Executes, Goto, Contexts
<1>2. ret[c] \in {"taskEnd", "chain"}
  BY <1>1 DEF IInv, Control, Frame, Returns, Schedulers
<1>3. run[c] \in Tasks /\ Top(c) = run[c]
  BY <1>1 DEF IInv, ServedIsHead, Serving, TypeOK, Top
<1>4. CurrTop = run[c] /\ CurrTop # NULL
  BY <1>1, <1>3, KernelAssumption DEF CurrTop, Top
<1> QED
  BY <1>1, <1>2, <1>3, <1>4 DEF TerminateTask, Goto, IInv, TypeOK, Moves, Alone

LEMMA ChainContinuesMoves ==
  ASSUME IInv, NEW c \in Prios, ChainContinues(c)
  PROVE  /\ Moves(c, "chain", "act") /\ ret[c] = "none" /\ ret'[c] = "taskEnd"
         /\ UNCHANGED <<readySet, state, noAct, queues, nextQueue, pendSV,
                        masked, disableCount, arg, cand, run, mode>>
<1>1. pc[c] = "chain" /\ c \in Contexts
  BY DEF ChainContinues, Call, Goto, Contexts
<1>2. ret[c] = "none"
  BY <1>1 DEF IInv, Control, Frame, Returns, Schedulers
<1> QED
  BY <1>1, <1>2 DEF ChainContinues, Call, Goto, IInv, TypeOK, Moves, Alone, osVars,
     lockVars
-----------------------------------------------------------------------------
LEMMA MainCalls ==
  ASSUME IInv, MainActivate \/ StartOS
  PROVE  /\ \/ Moves(NULL, "main", "act") /\ ret'[NULL] = "main"
            \/ Moves(NULL, "main", "initQueue") /\ ret'[NULL] = "lost"
         /\ UNCHANGED <<readySet, state, noAct, queues, nextQueue, pendSV,
                        masked, disableCount, cand, run, mode>>
  BY DEF MainActivate, StartOS, Call, Goto, IInv, TypeOK, Moves, Alone, osVars,
     lockVars, Contexts

LEMMA InitQueueMoves ==
  ASSUME IInv, NEW p \in Prios, InitQueue(p)
  PROVE  /\ Executes(NULL) /\ UNCHANGED currQueue
         /\ pc[NULL] = "initQueue" /\ pc[p] = "nostack" /\ pc'[p] = "loop"
         /\ \A d \in Contexts : d # p => pc'[d] = pc[d]
         /\ UNCHANGED <<readySet, state, noAct, queues, nextQueue, pendSV,
                        masked, disableCount, ret, arg, cand, run, mode>>
  BY DEF InitQueue, IInv, TypeOK, osVars, lockVars, Contexts

LEMMA InitMoves ==
  ASSUME IInv, InitReady \/ InitState
  PROVE  /\ \/ /\ Moves(NULL, "initQueue", "initState")
               /\ readySet' = readySet \cup {TaskPrio[idle]}
               /\ state' = state
            \/ /\ \/ Moves(NULL, "initState", "read")
                  \/ Moves(NULL, "initState", "initLock")
               /\ readySet' = readySet
               /\ state' = Activated(idle)
         /\ UNCHANGED <<noAct, queues, nextQueue, pendSV, masked, disableCount,
                        ret, arg, cand, run, mode>>
  BY DEF InitReady, InitState, Goto, IInv, TypeOK, Moves, Alone, lockVars, Contexts

LEMMA InitPushMoves ==
  ASSUME IInv, InitPush
  PROVE  /\ Moves(NULL, "initCS", "read")
         /\ queues' = [queues EXCEPT ![TaskPrio[idle]] = Pushed(@, idle)]
         /\ EnableAllInterrupts
         /\ UNCHANGED <<readySet, state, noAct, nextQueue, pendSV,
                        ret, arg, cand, run, mode>>
  BY DEF InitPush, Goto, IInv, TypeOK, Moves, Alone, Contexts

(* A step of the kernel is one of these.                                   *)
Still == UNCHANGED <<osVars, currQueue, nextQueue, pendSV, lockVars, ctxVars>>

LEMMA Steps ==
  ASSUME [Next]_vars
  PROVE  \/ MainActivate \/ StartOS \/ InitReady \/ InitState \/ InitPush
         \/ \E p \in Prios : InitQueue(p)
         \/ \E c \in Contexts :
              \/ Lock(c) \/ ActivateTask(c)
              \/ ScheduleRead(c) \/ ScheduleStore(c) \/ ScheduleCompare(c)
              \/ ScheduleMark(c) \/ SchedulePend(c)
         \/ \E c \in Prios :
              \/ DispatchTask(c) \/ LeaveLoop(c) \/ ClearReadyBit(c)
              \/ TaskReturns(c) \/ Body(c) \/ TerminateTask(c)
              \/ ChainContinues(c)
         \/ tickHandler \/ (\E t \in IsrTasks : IsrActivateTask(t))
         \/ contextSwitchISR
         \/ Still
<1>1. CASE Startup
  BY <1>1 DEF Startup
<1>2. ASSUME NEW c \in Contexts, Context(c)
      PROVE  \/ Lock(c) \/ ActivateTask(c)
             \/ ScheduleRead(c) \/ ScheduleStore(c) \/ ScheduleCompare(c)
             \/ ScheduleMark(c) \/ SchedulePend(c)
  BY <1>2 DEF Context, Schedule
<1>3. ASSUME NEW p \in Prios, Thread(p)
      PROVE  \/ DispatchTask(p) \/ LeaveLoop(p) \/ ClearReadyBit(p)
             \/ TaskReturns(p) \/ Body(p) \/ TerminateTask(p)
             \/ ChainContinues(p) \/ Context(p)
             \/ Still
  BY <1>3 DEF Thread, Dispatcher, DispatcherReturns, Still
<1>4. Prios \subseteq Contexts /\ NULL \in Contexts
  BY DEF Contexts
<1>5. CASE Interrupt
  BY <1>5 DEF Interrupt
<1>6. CASE UNCHANGED vars
  BY <1>6 DEF vars, Still
<1>7. CASE Context(NULL)
  BY <1>2, <1>4, <1>7
<1>8. ASSUME NEW p \in Prios, Thread(p)
      PROVE  \/ \E c \in Contexts :
                  \/ Lock(c) \/ ActivateTask(c)
                  \/ ScheduleRead(c) \/ ScheduleStore(c) \/ ScheduleCompare(c)
                  \/ ScheduleMark(c) \/ SchedulePend(c)
             \/ \E c \in Prios :
                  \/ DispatchTask(c) \/ LeaveLoop(c) \/ ClearReadyBit(c)
                  \/ TaskReturns(c) \/ Body(c) \/ TerminateTask(c)
                  \/ ChainContinues(c)
             \/ Still
  BY <1>2, <1>3, <1>4, <1>8
<1> QED
  BY <1>1, <1>5, <1>6, <1>7, <1>8 DEF Next, Halted
-----------------------------------------------------------------------------
(***************************************************************************)
(* The nesting counter.                                                    *)
(***************************************************************************)
LEMMA SectionsFinite ==
  ASSUME FewPriorities
  PROVE  /\ IsFiniteSet(InSection)
         /\ Cardinality(InSection) \in Nat
         /\ \A c \in Contexts \ InSection : Cardinality(InSection) + 1 <= Uint8Max
<1>1. IsFiniteSet(Contexts)
  BY FS_AddElement DEF FewPriorities, Contexts
<1>2. IsFiniteSet(InSection) /\ Cardinality(InSection) \in Nat
  BY <1>1, FS_Subset, FS_CardinalityType DEF InSection
<1>3. ASSUME NEW c \in Contexts \ InSection
      PROVE  Cardinality(InSection) + 1 <= Uint8Max
  <2>1. InSection \cup {c} \in SUBSET Contexts
    BY DEF InSection
  <2>2. Cardinality(InSection \cup {c}) = Cardinality(InSection) + 1
    BY <1>2, FS_AddElement
  <2>3. Cardinality(InSection \cup {c}) <= Cardinality(Contexts)
    BY <1>1, <2>1, FS_Subset
  <2>4. Cardinality(Contexts) \in Nat /\ Uint8Max \in Nat
    BY <1>1, FS_CardinalityType, Int8Assumption DEF Uint8Max
  <2> QED
    BY <1>2, <2>2, <2>3, <2>4 DEF FewPriorities
<1> QED
  BY <1>2, <1>3

LEMMA MovesSection ==
  ASSUME NEW c \in Contexts, NEW from, NEW to, Moves(c, from, to)
  PROVE  /\ InSection' = IF to \in CriticalSections THEN InSection \cup {c}
                                                    ELSE InSection \ {c}
         /\ c \in InSection <=> from \in CriticalSections
  BY DEF Moves, Alone, InSection

LEMMA EntersSection ==
  ASSUME FewPriorities, IInv, CountInv, NEW c \in Contexts, Lock(c)
  PROVE  CountInv'
<1>1. InSection' = InSection \cup {c} /\ c \notin InSection
  BY LockMoves, MovesSection DEF CriticalSections
<1>2. Cardinality(InSection') = Cardinality(InSection) + 1
  BY <1>1, SectionsFinite, FS_AddElement
<1>3. disableCount = Cardinality(InSection)
  BY DEF CountInv, InSection
<1>4. disableCount' = disableCount + 1 /\ disableCount' # 0 /\ disableCount \in Nat
  BY <1>1, <1>3, SectionsFinite, LockMoves DEF Uint8Inc
<1> QED
  BY <1>2, <1>3, <1>4 DEF CountInv, InSection

LEMMA LeavesSection ==
  ASSUME FewPriorities, IInv, CountInv, NEW c \in Contexts,
         NEW from \in CriticalSections, Moves(c, from, "read"), EnableAllInterrupts
  PROVE  /\ CountInv'
         /\ Stuck => Stuck'
<1>1. InSection' = InSection \ {c} /\ c \in InSection
  BY MovesSection DEF CriticalSections
<1>2. Cardinality(InSection') = Cardinality(InSection) - 1
  BY <1>1, SectionsFinite, FS_RemoveElement
<1>3. disableCount = Cardinality(InSection) /\ disableCount \in Nat
  BY SectionsFinite DEF CountInv, InSection
<1>4. disableCount # 0
  BY <1>1, <1>3, SectionsFinite, FS_EmptySet
<1>5. disableCount' = disableCount - 1 /\ masked' = (disableCount' # 0)
  BY <1>3, <1>4 DEF EnableAllInterrupts, Uint8Dec
<1>6. CountInv'
  BY <1>2, <1>3, <1>5 DEF CountInv, InSection
<1>7. ASSUME Stuck PROVE Stuck'
  <2>1. PICK d \in Contexts : d # c /\ d \in InSection
    BY <1>7 DEF Stuck, Exported, Moves, Executes, InSection
  <2>2. d \in InSection'
    BY <1>1, <2>1
  <2>3. IsFiniteSet(InSection')
    BY <1>1, SectionsFinite, FS_RemoveElement
  <2>4. disableCount' # 0
    BY <1>2, <1>3, <1>5, <2>2, <2>3, FS_EmptySet
  <2>5. d # currQueue' /\ pc'[d] \in CriticalSections
    BY <2>1, <2>2 DEF Moves, Executes, InSection
  <2> QED
    BY <1>5, <2>4, <2>5 DEF Stuck, Exported
<1> QED
  BY <1>6, <1>7

(* A step that stays on its side of the sections' borders.                 *)
LEMMA SectionsKept ==
  ASSUME CountInv, UNCHANGED <<masked, disableCount, currQueue>>,
         \A c \in Contexts : pc'[c] \in CriticalSections <=> pc[c] \in CriticalSections
  PROVE  CountInv' /\ (Stuck => Stuck')
<1>1. {c \in Contexts : pc'[c] \in CriticalSections}
        = {c \in Contexts : pc[c] \in CriticalSections}
  OBVIOUS
<1>2. CountInv'
  BY <1>1 DEF CountInv, InSection
<1> QED
  BY <1>2 DEF Stuck, Exported

LEMMA MovesOutside ==
  ASSUME CountInv, UNCHANGED <<masked, disableCount>>,
         NEW c \in Contexts, NEW from, NEW to, Moves(c, from, to),
         from \notin CriticalSections, to \notin CriticalSections
  PROVE  CountInv' /\ (Stuck => Stuck')
<1>1. \A d \in Contexts : pc'[d] \in CriticalSections <=> pc[d] \in CriticalSections
  BY DEF Moves, Alone
<1> QED
  BY <1>1, SectionsKept DEF Moves

LEMMA NextMask ==
  ASSUME QSizeFits, FewPriorities, IInv, CountInv, [Next]_vars
  PROVE  CountInv' /\ (Stuck => Stuck')
<1> USE DEF CriticalSections
<1>0. NULL \in Contexts /\ Prios \subseteq Contexts
  BY DEF Contexts
<1>1. CASE MainActivate \/ StartOS
  BY <1>0, <1>1, MainCalls, MovesOutside
<1>2. CASE InitReady \/ InitState
  BY <1>0, <1>2, InitMoves, MovesOutside
<1>3. CASE InitPush
  BY <1>0, <1>3, InitPushMoves, LeavesSection
<1>4. ASSUME NEW p \in Prios, InitQueue(p)
      PROVE  CountInv' /\ (Stuck => Stuck')
  <2>1. \A d \in Contexts : pc'[d] \in CriticalSections <=> pc[d] \in CriticalSections
    BY <1>4, InitQueueMoves
  <2> QED
    BY <1>4, <2>1, InitQueueMoves, SectionsKept
<1>5. ASSUME NEW c \in Contexts, Lock(c)
      PROVE  CountInv' /\ (Stuck => Stuck')
  <2>1. CountInv'
    BY <1>5, EntersSection
  <2>2. ASSUME Stuck PROVE Stuck'
    <3>1. masked' = masked /\ currQueue' = currQueue /\ currQueue = c /\ Alone(c)
      BY <1>5, LockMoves DEF Moves, Executes
    <3> QED
      BY <2>2, <3>1 DEF Stuck, Exported, Alone
  <2> QED
    BY <2>1, <2>2
<1>6. ASSUME NEW c \in Contexts, ActivateTask(c)
      PROVE  CountInv' /\ (Stuck => Stuck')
  BY <1>6, ActivateTaskMoves, LeavesSection
<1>7. ASSUME NEW c \in Contexts,
             \/ ScheduleRead(c) \/ ScheduleStore(c) \/ ScheduleCompare(c)
             \/ ScheduleMark(c) \/ SchedulePend(c)
      PROVE  CountInv' /\ (Stuck => Stuck')
  <2>1. UNCHANGED <<masked, disableCount>>
    BY <1>7, ScheduleReadMoves, ScheduleStoreMoves, ScheduleCompareMoves,
       ScheduleMarkMoves, SchedulePendMoves
  <2>2. CASE ScheduleRead(c) \/ ScheduleStore(c) \/ ScheduleMark(c)
    BY <2>1, <2>2, ScheduleReadMoves, ScheduleStoreMoves, ScheduleMarkMoves,
       MovesOutside
  <2>3. CASE ScheduleCompare(c)
    BY <2>1, <2>3, ScheduleCompareMoves, MovesOutside
  <2>4. CASE SchedulePend(c)
    BY <2>1, <2>4, SchedulePendMoves, MovesOutside
  <2> QED
    BY <1>7, <2>2, <2>3, <2>4
<1>8. ASSUME NEW c \in Prios,
             DispatchTask(c) \/ LeaveLoop(c) \/ TaskReturns(c) \/ ChainContinues(c)
      PROVE  CountInv' /\ (Stuck => Stuck')
  BY <1>0, <1>8, DispatchTaskMoves, LeaveLoopMoves, TaskReturnsMoves,
     ChainContinuesMoves, MovesOutside
<1>9. ASSUME NEW c \in Prios, Body(c)
      PROVE  CountInv' /\ (Stuck => Stuck')
  BY <1>0, <1>9, BodyMoves, MovesOutside
<1>10. ASSUME NEW c \in Prios, ClearReadyBit(c) \/ TerminateTask(c)
       PROVE  CountInv' /\ (Stuck => Stuck')
  BY <1>0, <1>10, ClearReadyBitMoves, TerminateTaskMoves, LeavesSection
<1>11. CASE tickHandler
  <2>1. UNCHANGED <<masked, disableCount, currQueue, pc>>
    BY <1>11 DEF tickHandler, lockVars, ctxVars
  <2> QED
    BY <2>1, SectionsKept
<1>12. ASSUME NEW t \in IsrTasks, IsrActivateTask(t)
       PROVE  CountInv' /\ (Stuck => Stuck')
  <2>1. /\ ~masked /\ masked' = (disableCount # 0) /\ disableCount' = disableCount
        /\ pc' = pc
    BY <1>12 DEF IsrActivateTask, InterruptTaken, InterruptSection, ctxVars
  <2> QED
    BY <2>1 DEF CountInv, InSection, Stuck
<1>13. CASE contextSwitchISR
  <2>1. ~masked /\ UNCHANGED <<masked, disableCount, pc>>
    BY <1>13 DEF contextSwitchISR, lockVars, ctxVars
  <2> QED
    BY <2>1 DEF CountInv, InSection, Stuck
<1>14. CASE Still
  <2>1. UNCHANGED <<masked, disableCount, currQueue, pc>>
    BY <1>14 DEF Still, lockVars, ctxVars
  <2> QED
    BY <2>1, SectionsKept
<1> QED
  BY <1>1, <1>2, <1>3, <1>4, <1>5, <1>6, <1>7, <1>8, <1>9, <1>10, <1>11, <1>12,
     <1>13, <1>14, Steps

LEMMA InitMask == ASSUME Init PROVE CountInv
<1>1. {c \in Contexts : pc[c] \in CriticalSections} = {}
  BY DEF Init, CriticalSections
<1>2. disableCount = 0 /\ ~masked
  BY DEF Init
<1> QED
  BY <1>1, <1>2, FS_EmptySet DEF CountInv, InSection

LEMMA CountCovers == ASSUME CountInv PROVE MaskDiscipline
<1>1. ASSUME masked PROVE pc[currQueue] \in CriticalSections \/ Exported
  <2>1. InSection # {}
    BY <1>1, FS_EmptySet DEF CountInv
  <2> QED
    BY <2>1 DEF InSection, Exported
<1> QED
  BY <1>1 DEF CountInv, MaskDiscipline, InSection

(* The count is that of the contexts inside a critical section, and        *)
(* interrupts are masked only while the executing context, or one that was *)
(* switched away from, is inside one, through every handler and every      *)
(* switch of context (osek.c:426-463).                                     *)
THEOREM CountIsSections ==
  ASSUME QSizeFits, HandlersSpareIdle, FewPriorities
  PROVE  Spec => []MaskDiscipline
<1>1. Init => CountInv
  BY InitMask
<1>2. IInv /\ CountInv /\ [Next]_vars => CountInv'
  BY NextMask
<1>3. CountInv => MaskDiscipline
  BY CountCovers
<1> QED
  BY <1>1, <1>2, <1>3, Invariance, PTL DEF Spec
-----------------------------------------------------------------------------
(***************************************************************************)
(* The task that is RUNNING.                                               *)
(***************************************************************************)
(* A context executes outside of its sections with a switch pending only   *)
(* if the sections of another one hold the switch back.                    *)
LEMMA PendingWaits ==
  ASSUME CountInv, NEW c \in Contexts, Executes(c),
         pc[c] \notin CriticalSections, pendSV
  PROVE  Stuck
<1>1. masked /\ disableCount # 0
  BY DEF Executes, CountInv
<1>2. InSection # {}
  BY <1>1, FS_EmptySet DEF CountInv, InSection
<1>3. PICK d \in Contexts : pc[d] \in CriticalSections
  BY <1>2 DEF InSection
<1> QED
  BY <1>1, <1>3 DEF Stuck, Exported, Executes

LEMMA NoneIsEnough == ASSUME NoneRunning' PROVE RunInv'
  BY DEF NoneRunning, RunInv, RunningServed, SwitchMarked, PendMarked

LEMMA NoneOutside ==
  ASSUME RunInv, currQueue = NULL \/ ~Serving(currQueue)
  PROVE  NoneRunning
  BY KernelAssumption DEF RunInv, RunningServed, NoneRunning

LEMMA ServedIsTop ==
  ASSUME IInv, RunInv, NEW t \in Tasks, state[t] = "RUNNING"
  PROVE  currQueue \in Prios /\ run[currQueue] = t /\ CurrTop = t /\ Top(currQueue) = t
<1>1. currQueue \in Prios /\ run[currQueue] = t /\ Serving(currQueue)
  BY KernelAssumption DEF RunInv, RunningServed
<1>2. Top(currQueue) = t
  BY <1>1 DEF IInv, ServedIsHead, Top
<1> QED
  BY <1>1, <1>2, KernelAssumption DEF CurrTop, Top

(* A step within what a context does for its task.                         *)
LEMMA RunKept ==
  ASSUME RunInv, UNCHANGED <<currQueue, pendSV, nextQueue>>, Stuck => Stuck',
         \A t \in Tasks : state'[t] = "RUNNING" => state[t] = "RUNNING",
         Serving(currQueue) => Serving(currQueue)' /\ run'[currQueue] = run[currQueue],
         pc'[currQueue] = "pend" => pc[currQueue] = "pend"
  PROVE  RunInv'
<1>1. RunningServed'
  BY DEF RunInv, RunningServed
<1>2. SwitchMarked' /\ PendMarked'
  BY DEF RunInv, SwitchMarked, PendMarked, NoneRunning
<1> QED
  BY <1>1, <1>2 DEF RunInv

(* The write of READY to the top of the current queue leaves none RUNNING. *)
LEMMA MarkClears ==
  ASSUME IInv, RunInv, NEW top, NEW s, DOMAIN s = Tasks,
         \A t \in Tasks : s[t] = "RUNNING" => state[t] = "RUNNING",
         \A t \in Tasks : state[t] = "RUNNING" => top = t,
         MarkReady(top, s)
  PROVE  NoneRunning'
<1>1. SUFFICES ASSUME NEW t \in Tasks PROVE state'[t] # "RUNNING"
  BY DEF NoneRunning
<1>2. CASE top = NULL
  BY <1>2, KernelAssumption DEF MarkReady
<1>3. CASE top # NULL
  BY <1>3 DEF MarkReady
<1> QED
  BY <1>2, <1>3

(* Schedule() at interrupt level: no switch is asked for while a task is   *)
(* RUNNING.                                                                *)
LEMMA HandlerMarks ==
  ASSUME IInv, RunInv, NEW rs, NEW qs, NEW s, DOMAIN s = Tasks,
         UNCHANGED <<currQueue, ctxVars>>,
         \A t \in Tasks : s[t] = "RUNNING" => state[t] = "RUNNING",
         \A t \in Tasks : state[t] = "RUNNING" => TopFromQueue(qs[currQueue]) = t,
         ScheduleFromISR(rs, qs, s)
  PROVE  RunInv'
<1> DEFINE top == IF currQueue = NULL THEN NULL ELSE TopFromQueue(qs[currQueue])
<1>1. PICK q \in ReadyQueue(rs) :
        /\ nextQueue' = q
        /\ IF q = currQueue THEN state' = s /\ UNCHANGED <<pendSV, mode>>
                            ELSE MarkReady(top, s) /\ pendSV' = TRUE
  BY DEF ScheduleFromISR
<1>2. CASE q = currQueue
  <2>1. RunningServed' /\ PendMarked'
    BY <1>1, <1>2 DEF RunInv, RunningServed, PendMarked, Serving, ctxVars, NoneRunning
  <2>2. SwitchMarked'
    BY <1>1, <1>2 DEF SwitchMarked
  <2> QED
    BY <2>1, <2>2 DEF RunInv
<1>3. CASE q # currQueue
  <2>1. \A t \in Tasks : state[t] = "RUNNING" => top = t
    BY ServedIsTop, KernelAssumption
  <2>2. MarkReady(top, s)
    BY <1>1, <1>3
  <2> HIDE DEF top
  <2>3. NoneRunning'
    BY <2>1, <2>2, MarkClears
  <2> QED
    BY <2>3, NoneIsEnough
<1> QED
  BY <1>2, <1>3

LEMMA ContextRun ==
  ASSUME QSizeFits, IInv, CountInv, RunInv, Stuck => Stuck', NEW c \in Contexts,
         \/ Lock(c) \/ ActivateTask(c) \/ ScheduleRead(c) \/ ScheduleStore(c)
         \/ ScheduleCompare(c) \/ ScheduleMark(c) \/ SchedulePend(c)
  PROVE  RunInv'
<1>1. CASE Lock(c)
  BY <1>1, LockMoves, RunKept DEF Moves, Executes, Serving
<1>2. CASE ActivateTask(c)
  <2>1. \A t \in Tasks : state'[t] = "RUNNING" => state[t] = "RUNNING"
    BY <1>2, ActivateTaskMoves DEF Activated, IInv, TypeOK
  <2> QED
    BY <1>2, <2>1, ActivateTaskMoves, RunKept DEF Moves, Executes, Serving
<1>3. CASE ScheduleRead(c)
  BY <1>3, ScheduleReadMoves, RunKept DEF Moves, Executes, Serving
<1>4. CASE ScheduleStore(c)
  <2>1. pendSV => Stuck
    BY <1>4, PendingWaits, ScheduleStoreMoves DEF Moves, CriticalSections
  <2>2. /\ UNCHANGED <<state, currQueue, pendSV, ret, run>> /\ currQueue = c
        /\ pc[c] = "store" /\ pc'[c] = "compare"
    BY <1>4, ScheduleStoreMoves DEF Moves, Executes
  <2>3. RunningServed' /\ PendMarked'
    BY <2>2 DEF RunInv, RunningServed, PendMarked, Serving
  <2>4. SwitchMarked'
    BY <2>1, <2>2 DEF SwitchMarked
  <2> QED
    BY <2>3, <2>4 DEF RunInv
<1>5. CASE ScheduleCompare(c)
  <2>1. ASSUME NEW to, Moves(c, "compare", to), to \in {"mark", ret[c]}, to # "pend",
               ret[c] = "task" /\ to # "task" => ret'[c] = "task"
        PROVE  RunInv'
    BY <1>5, <2>1, ScheduleCompareMoves, RunKept DEF Moves, Executes, Serving
  <2> QED
    BY <1>5, <2>1, ScheduleCompareMoves
<1>6. CASE ScheduleMark(c)
  <2>1. DOMAIN state = Tasks /\ MarkReady(CurrTop, state)
    BY <1>6, ScheduleMarkMoves DEF IInv, TypeOK
  <2>2. \A t \in Tasks : state[t] = "RUNNING" => CurrTop = t
    BY ServedIsTop
  <2> QED
    BY <2>1, <2>2, MarkClears, NoneIsEnough
<1>7. CASE SchedulePend(c)
  <2>1. NoneRunning /\ state' = state
    BY <1>7, SchedulePendMoves DEF RunInv, PendMarked, Moves, Executes
  <2> QED
    BY <2>1, NoneIsEnough DEF NoneRunning
<1> QED
  BY <1>1, <1>2, <1>3, <1>4, <1>5, <1>6, <1>7

LEMMA ThreadRun ==
  ASSUME QSizeFits, IInv, CountInv, RunInv, Stuck => Stuck', NEW c \in Prios,
         \/ DispatchTask(c) \/ LeaveLoop(c) \/ ClearReadyBit(c)
         \/ TaskReturns(c) \/ Body(c) \/ TerminateTask(c)
         \/ ChainContinues(c)
  PROVE  RunInv'
<1>0. c \in Contexts
  BY DEF Contexts
<1>1. CASE DispatchTask(c)
  <2>1. /\ Moves(c, "loop", "task") /\ ret[c] = "none"
        /\ Top(c) \in Tasks /\ TaskPrio[Top(c)] = c
        /\ run'[c] = Top(c) /\ state' = [state EXCEPT ![Top(c)] = "RUNNING"]
        /\ UNCHANGED <<nextQueue, pendSV>>
    BY <1>1, DispatchTaskMoves
  <2>2. NoneRunning /\ (pendSV => Stuck)
    BY <1>0, <2>1, NoneOutside, PendingWaits DEF Moves, Executes, Serving, CriticalSections
  <2>3. \A t \in Tasks : state'[t] = "RUNNING" => t = Top(c)
    BY <2>1, <2>2 DEF NoneRunning, IInv, TypeOK
  <2>4. RunningServed' /\ PendMarked'
    BY <2>1, <2>3 DEF RunningServed, PendMarked, Moves, Executes, Serving
  <2>5. SwitchMarked'
    BY <2>1, <2>2 DEF SwitchMarked
  <2> QED
    BY <2>4, <2>5 DEF RunInv
<1>2. CASE LeaveLoop(c) \/ ClearReadyBit(c) \/ TaskReturns(c) \/ ChainContinues(c)
  <2>1. ret[c] = "none" /\ pc[c] \in {"loop", "drainCS", "taskEnd", "chain"}
    <3>1. pc[c] \in {"loop", "drainCS", "taskEnd", "chain"}
      BY <1>2, LeaveLoopMoves, ClearReadyBitMoves, TaskReturnsMoves,
         ChainContinuesMoves DEF Moves
    <3> QED
      BY <1>0, <3>1 DEF IInv, Control, Frame, Returns, Schedulers
  <2>2. currQueue = c /\ state' = state
    BY <1>2, LeaveLoopMoves, ClearReadyBitMoves, TaskReturnsMoves,
       ChainContinuesMoves DEF Moves, Executes
  <2>3. NoneRunning
    BY <2>1, <2>2, NoneOutside DEF Serving
  <2> QED
    BY <2>2, <2>3, NoneIsEnough DEF NoneRunning
<1>3. CASE Body(c)
  <2>1. /\ currQueue = c
        /\ UNCHANGED <<state, currQueue, pendSV, nextQueue, run>>
        /\ Serving(c)' /\ pc'[c] # "pend"
    BY <1>3, BodyMoves DEF Moves, Executes, Serving
  <2> QED
    BY <2>1, RunKept
<1>4. CASE TerminateTask(c)
  <2>1. PICK left \in {"SUSPENDED", "READY"} : state' = [state EXCEPT ![run[c]] = left]
    BY <1>4, TerminateTaskMoves
  <2>2. run[c] \in Tasks /\ currQueue = c
    BY <1>4, TerminateTaskMoves DEF Moves, Executes
  <2>3. NoneRunning'
    BY <2>1, <2>2, ServedIsTop DEF NoneRunning, IInv, TypeOK
  <2> QED
    BY <2>3, NoneIsEnough
<1> QED
  BY <1>1, <1>2, <1>3, <1>4

LEMMA NextRun ==
  ASSUME QSizeFits, FewPriorities, IInv, CountInv, RunInv, [Next]_vars
  PROVE  RunInv'
<1>0. Stuck => Stuck'
  BY NextMask
<1>1. CASE \/ MainActivate \/ StartOS \/ InitReady \/ InitState \/ InitPush
           \/ \E p \in Prios : InitQueue(p)
  <2>1. currQueue = NULL
    BY <1>1 DEF MainActivate, StartOS, InitReady, InitState, InitPush, InitQueue,
       Executes
  <2>2. state' = state \/ state' = Activated(idle)
    BY <1>1, MainCalls, InitMoves, InitPushMoves, InitQueueMoves
  <2>3. NoneRunning'
    BY <2>1, <2>2, NoneOutside DEF NoneRunning, Activated, IInv, TypeOK
  <2> QED
    BY <2>3, NoneIsEnough
<1>2. ASSUME NEW c \in Contexts,
             \/ Lock(c) \/ ActivateTask(c) \/ ScheduleRead(c) \/ ScheduleStore(c)
             \/ ScheduleCompare(c) \/ ScheduleMark(c) \/ SchedulePend(c)
      PROVE  RunInv'
  BY <1>0, <1>2, ContextRun
<1>3. ASSUME NEW c \in Prios,
             \/ DispatchTask(c) \/ LeaveLoop(c) \/ ClearReadyBit(c)
             \/ TaskReturns(c) \/ Body(c) \/ TerminateTask(c)
             \/ ChainContinues(c)
      PROVE  RunInv'
  BY <1>0, <1>3, ThreadRun
<1>4. CASE tickHandler
  <2>1. /\ ScheduleFromISR(readySet, queues, state)
        /\ UNCHANGED <<currQueue, ctxVars>>
        /\ DOMAIN state = Tasks
    BY <1>4 DEF tickHandler, IInv, TypeOK
  <2>2. \A t \in Tasks : state[t] = "RUNNING" => TopFromQueue(queues[currQueue]) = t
    BY ServedIsTop DEF Top
  <2> QED
    BY <2>1, <2>2, HandlerMarks
<1>5. ASSUME NEW t \in IsrTasks, IsrActivateTask(t) PROVE RunInv'
  <2>1. /\ ScheduleFromISR(readySet', queues', Activated(t))
        /\ UNCHANGED <<currQueue, ctxVars>>
        /\ DOMAIN Activated(t) = Tasks
        /\ \A u \in Tasks : Activated(t)[u] = "RUNNING" => state[u] = "RUNNING"
    BY <1>5 DEF IsrActivateTask, Activated, IInv, TypeOK
  <2>2. t \in Tasks /\ queues' = [queues EXCEPT ![TaskPrio[t]] = PushToQueue(@, t)]
    BY <1>5, KernelAssumption DEF IsrActivateTask, Activate
  <2>3. \A p \in Prios : Top(p) # NULL => Top(p)' = Top(p)
    BY <2>2, PushKeeps DEF IInv
  <2>4. \A u \in Tasks : state[u] = "RUNNING" => TopFromQueue(queues'[currQueue]) = u
    BY <2>3, ServedIsTop, KernelAssumption DEF Top
  <2> QED
    BY <2>1, <2>4, HandlerMarks
<1>6. CASE contextSwitchISR
  <2>1. ~Stuck /\ pendSV /\ pendSV' = FALSE /\ state' = state /\ UNCHANGED ctxVars
        /\ currQueue' \in {currQueue, nextQueue}
    BY <1>6 DEF contextSwitchISR, Stuck, osVars
  <2>2. CASE currQueue' = currQueue
    BY <2>1, <2>2 DEF RunInv, RunningServed, SwitchMarked, PendMarked, NoneRunning,
       Serving, ctxVars
  <2>3. CASE currQueue' # currQueue
    BY <2>1, <2>3, NoneIsEnough DEF RunInv, SwitchMarked, NoneRunning
  <2> QED
    BY <2>2, <2>3
<1>7. CASE Still
  BY <1>0, <1>7 DEF Still, osVars, ctxVars, RunInv, RunningServed, SwitchMarked,
     PendMarked, NoneRunning, Serving
<1> QED
  BY <1>1, <1>2, <1>3, <1>4, <1>5, <1>6, <1>7, Steps

(* At most one task is RUNNING, the one whose body the core executes, and  *)
(* GetTaskID names no other (osek.c:105-107, 347, 370-380).                *)
THEOREM RunsOne ==
  ASSUME QSizeFits, HandlersSpareIdle, FewPriorities
  PROVE  Spec => []RunningIsExecuting
<1>1. Init => CountInv /\ RunInv
  BY InitMask, NoneIsEnough DEF Init, NoneRunning, RunInv, RunningServed, SwitchMarked, PendMarked
<1>2. IInv /\ CountInv /\ RunInv /\ [Next]_vars => (CountInv /\ RunInv)'
  BY NextMask, NextRun
<1>3. IInv /\ RunInv => RunningIsExecuting
  <2>1. ASSUME IInv, NEW p \in Prios, Executes(p), pc[p] = "task"
        PROVE  CurrTop = run[p]
    BY <2>1, KernelAssumption DEF IInv, ServedIsHead, Serving, Executes, CurrTop
  <2> QED
    BY <2>1 DEF RunInv, RunningServed, RunningIsExecuting, GetTaskID
<1> QED
  BY <1>1, <1>2, <1>3, Invariance, PTL DEF Spec
-----------------------------------------------------------------------------
(***************************************************************************)
(* The count of activations.                                               *)
(***************************************************************************)
(* The activations that are admitted can be counted in a uint8_t: every    *)
(* context may have passed the test for the limit and not counted its own. *)
ActivationsFit == /\ IsFiniteSet(Prios) /\ ActLimit \in Nat
                  /\ ActLimit + Cardinality(Contexts) < Uint8Max

(* The contexts with an activation of t that is not counted yet.           *)
Uncounted(c) == pc[c] \in {"act", "actCS", "chain"} \/ ret[c] = "chain"
Waiting(t) == {c \in Contexts : Uncounted(c) /\ arg[c] = t}

(* The count covers the queue, and does not wrap when those that wait have *)
(* counted.                                                                *)
CoverInv ==
  \A t \in Tasks \ {idle} :
    /\ noAct[t] >= NumQueued(t)
    /\ (state[t] = "SUSPENDED") <=> (noAct[t] = 0)
    /\ noAct[t] + Cardinality(Waiting(t)) <= ActLimit + Cardinality(Contexts)

LEMMA WaitingFinite ==
  ASSUME ActivationsFit, NEW t
  PROVE  /\ IsFiniteSet(Waiting(t)) /\ IsFiniteSet(Waiting(t))'
         /\ Cardinality(Waiting(t)) \in 0 .. Cardinality(Contexts)
         /\ Cardinality(Waiting(t))' \in 0 .. Cardinality(Contexts)
         /\ Cardinality(Contexts) \in Nat
<1>1. IsFiniteSet(Contexts) /\ Cardinality(Contexts) \in Nat
  BY FS_AddElement, FS_CardinalityType DEF ActivationsFit, Contexts
<1>2. ASSUME NEW S \in SUBSET Contexts
      PROVE  IsFiniteSet(S) /\ Cardinality(S) \in 0 .. Cardinality(Contexts)
  <2>1. /\ IsFiniteSet(S) /\ Cardinality(S) <= Cardinality(Contexts)
        /\ Cardinality(S) \in Nat
    BY <1>1, <1>2, FS_Subset, FS_CardinalityType
  <2> QED
    BY <1>1, <2>1
<1>3. Waiting(t) \subseteq Contexts /\ Waiting(t)' \subseteq Contexts
  BY DEF Waiting
<1> QED
  BY <1>1, <1>2, <1>3

LEMMA QueueOfTask ==
  ASSUME QSizeFits, QueuesOK, NEW t \in Tasks
  PROVE  /\ TaskPrio[t] \in Prios /\ QSize[TaskPrio[t]] \in 1 .. Int8Max
         /\ queues[TaskPrio[t]] \in QueueType(Tasks \cup {NULL}, QSize[TaskPrio[t]])
         /\ RingOK(queues[TaskPrio[t]]) /\ DOMAIN queues = Prios
         /\ NumQueued(t) = Cardinality(Places(queues[TaskPrio[t]], t))
         /\ NumQueued(t) \in Nat
<1>1. TaskPrio[t] \in Prios
  BY KernelAssumption
<1>2. /\ QSize[TaskPrio[t]] \in 1 .. Int8Max
      /\ queues[TaskPrio[t]] \in QueueType(Tasks \cup {NULL}, QSize[TaskPrio[t]])
      /\ RingOK(queues[TaskPrio[t]]) /\ DOMAIN queues = Prios
  BY <1>1 DEF QSizeFits, QueuesOK
<1>3. Cardinality(Places(queues[TaskPrio[t]], t)) \in Nat
  BY <1>2, PlacesFinite
<1> QED
  BY <1>1, <1>2, <1>3 DEF NumQueued, Places

(* A push adds at most one, and only to the task pushed.                   *)
LEMMA PushAdds ==
  ASSUME QSizeFits, QueuesOK, NEW x \in Tasks, NEW t \in Tasks,
         queues' = [queues EXCEPT ![TaskPrio[x]] = PushToQueue(@, x)]
  PROVE  /\ NumQueued(t)' \in Nat
         /\ NumQueued(t)' <= NumQueued(t) + (IF x = t THEN 1 ELSE 0)
<1> DEFINE w == TaskPrio[x]
           q == queues[w]
           r == PushToQueue(q, x)
<1>1. /\ w \in Prios /\ QSize[w] \in 1 .. Int8Max /\ RingOK(q)
      /\ q \in QueueType(Tasks \cup {NULL}, QSize[w]) /\ DOMAIN queues = Prios
  BY QueueOfTask
<1>2. queues'[w] = r /\ \A p \in Prios : p # w => queues'[p] = queues[p]
  BY <1>1
<1>3. /\ NumQueued(t) = Cardinality(Places(queues[TaskPrio[t]], t))
      /\ NumQueued(t) \in Nat /\ TaskPrio[t] \in Prios
  BY QueueOfTask
<1>4. CASE TaskPrio[t] # w
  <2>1. queues'[TaskPrio[t]] = queues[TaskPrio[t]]
    BY <1>2, <1>3, <1>4
  <2>2. NumQueued(t)' = NumQueued(t)
    BY <2>1 DEF NumQueued
  <2> QED
    BY <1>3, <2>2
<1>5. CASE TaskPrio[t] = w
  <2>1. NumQueued(t)' = Cardinality(Places(r, t))
    BY <1>2, <1>5 DEF NumQueued, Places
  <2>2. IsFull(q) => r = q
    BY DEF PushToQueue
  <2>3. ~IsFull(q) => Cardinality(Places(r, t))
                        = Cardinality(Places(q, t)) + (IF x = t THEN 1 ELSE 0)
    BY <1>1, PushCopies
  <2>4. NumQueued(t) = Cardinality(Places(q, t))
    BY <1>3, <1>5
  <2> HIDE DEF q, r
  <2> QED
    BY <1>3, <2>1, <2>2, <2>3, <2>4
<1> QED
  BY <1>4, <1>5

(* A pop takes one, of the task at the top.                                *)
LEMMA PopTakes ==
  ASSUME QSizeFits, QueuesOK, NEW x \in Tasks, TopFromQueue(queues[TaskPrio[x]]) = x,
         queues' = [queues EXCEPT ![TaskPrio[x]] = PopFromQueue(@)],
         NEW t \in Tasks
  PROVE  /\ NumQueued(t)' \in Nat
         /\ NumQueued(t) = NumQueued(t)' + (IF x = t THEN 1 ELSE 0)
<1> DEFINE w == TaskPrio[x]
           q == queues[w]
           r == PopFromQueue(q)
<1>1. /\ w \in Prios /\ QSize[w] \in 1 .. Int8Max /\ RingOK(q)
      /\ q \in QueueType(Tasks \cup {NULL}, QSize[w]) /\ DOMAIN queues = Prios
  BY QueueOfTask
<1>2. queues'[w] = r /\ \A p \in Prios : p # w => queues'[p] = queues[p]
  BY <1>1
<1>3. q.queue_size # 0
  BY <1>1, TopIsHead, KernelAssumption
<1>4. /\ NumQueued(t) = Cardinality(Places(queues[TaskPrio[t]], t))
      /\ NumQueued(t) \in Nat /\ TaskPrio[t] \in Prios
  BY QueueOfTask
<1>5. CASE TaskPrio[t] # w
  <2>1. queues'[TaskPrio[t]] = queues[TaskPrio[t]]
    BY <1>2, <1>4, <1>5
  <2>2. NumQueued(t)' = NumQueued(t)
    BY <2>1 DEF NumQueued
  <2> QED
    BY <1>4, <1>5, <2>2
<1>6. CASE TaskPrio[t] = w
  <2>1. NumQueued(t)' = Cardinality(Places(r, t))
    BY <1>2, <1>6 DEF NumQueued, Places
  <2>2. Cardinality(Places(q, t))
          = Cardinality(Places(r, t)) + (IF x = t THEN 1 ELSE 0)
    BY <1>1, <1>3, PopCopies
  <2>3. r \in QueueType(Tasks \cup {NULL}, QSize[w])
    BY <1>1, PopTyped
  <2>4. NumQueued(t) = Cardinality(Places(q, t))
    BY <1>4, <1>6
  <2>5. Cardinality(Places(r, t)) \in Nat
    <3> HIDE DEF r
    <3> QED
      BY <1>1, <2>3, PlacesFinite
  <2> HIDE DEF q, r
  <2> QED
    BY <2>1, <2>2, <2>4, <2>5
<1> QED
  BY <1>5, <1>6

(* A task at the top of a queue is in it.                                  *)
LEMMA TopIsQueued ==
  ASSUME NEW n \in 1 .. Int8Max, NEW q \in QueueType(Tasks \cup {NULL}, n), RingOK(q),
         TopFromQueue(q) # NULL
  PROVE  Cardinality(Places(q, TopFromQueue(q))) \in Nat \ {0}
<1> DEFINE r == PopFromQueue(q)
           t == TopFromQueue(q)
<1>1. q.queue_size # 0
  BY TopIsHead
<1>2. Cardinality(Places(q, t)) = Cardinality(Places(r, t)) + 1
  BY <1>1, PopCopies
<1>3. r \in QueueType(Tasks \cup {NULL}, n)
  BY PopTyped
<1>4. Cardinality(Places(r, t)) \in Nat
  <2> HIDE DEF r
  <2> QED
    BY <1>3, PlacesFinite
<1> QED
  BY <1>2, <1>4

LEMMA CoverFacts ==
  ASSUME QSizeFits, ActivationsFit, IInv, CoverInv, NEW t \in Tasks \ {idle}
  PROVE  /\ noAct[t] \in Nat /\ noAct[t] < Uint8Max /\ NumQueued(t) \in Nat
         /\ noAct[t] >= NumQueued(t)
         /\ (state[t] = "SUSPENDED") <=> (noAct[t] = 0)
         /\ noAct[t] + Cardinality(Waiting(t)) <= ActLimit + Cardinality(Contexts)
         /\ Cardinality(Waiting(t)) \in Nat /\ Cardinality(Waiting(t))' \in Nat
         /\ Cardinality(Waiting(t))' <= Cardinality(Contexts)
         /\ Cardinality(Contexts) \in Nat /\ ActLimit \in Nat
         /\ WithinLimit(t) => noAct[t] + 1 <= ActLimit
<1>1. noAct[t] \in Nat /\ Uint8Max \in Nat
  BY Int8Assumption DEF IInv, TypeOK, Uint8Max
<1>2. NumQueued(t) \in Nat
  BY QueueOfTask DEF IInv
<1>3. /\ Cardinality(Waiting(t)) \in Nat /\ Cardinality(Waiting(t))' \in Nat
      /\ Cardinality(Waiting(t))' <= Cardinality(Contexts)
      /\ Cardinality(Contexts) \in Nat
  BY WaitingFinite
<1>4. /\ noAct[t] >= NumQueued(t)
      /\ (state[t] = "SUSPENDED") <=> (noAct[t] = 0)
      /\ noAct[t] + Cardinality(Waiting(t)) <= ActLimit + Cardinality(Contexts)
  BY DEF CoverInv
<1>5. /\ ActLimit \in Nat /\ ActLimit + Cardinality(Contexts) < Uint8Max
  BY DEF ActivationsFit
<1>6. noAct[t] < Uint8Max
  BY <1>1, <1>3, <1>4, <1>5
<1>7. WithinLimit(t) => noAct[t] + 1 <= ActLimit
  BY <1>1, <1>6 DEF WithinLimit, Uint8Inc
<1> QED
  BY <1>1, <1>2, <1>3, <1>4, <1>5, <1>6, <1>7

(* A step that counts nothing: a context that waits from now on has found  *)
(* its task below the limit.                                               *)
LEMMA QuietCover ==
  ASSUME QSizeFits, ActivationsFit, IInv, CoverInv, noAct' = noAct,
         \A t \in Tasks \ {idle} :
           /\ NumQueued(t)' \in Nat /\ NumQueued(t)' <= NumQueued(t)
           /\ state'[t] = "SUSPENDED" <=> state[t] = "SUSPENDED"
           /\ Waiting(t)' \subseteq Waiting(t) \/ WithinLimit(t)
  PROVE  CoverInv'
<1>1. ASSUME NEW t \in Tasks \ {idle}
      PROVE  /\ noAct'[t] >= NumQueued(t)'
             /\ (state'[t] = "SUSPENDED") <=> (noAct'[t] = 0)
             /\ noAct'[t] + Cardinality(Waiting(t))' <= ActLimit + Cardinality(Contexts)
  <2>1. noAct'[t] >= NumQueued(t)' /\ (state'[t] = "SUSPENDED" <=> noAct'[t] = 0)
    BY CoverFacts
  <2>2. CASE Waiting(t)' \subseteq Waiting(t)
    <3>1. Cardinality(Waiting(t)') <= Cardinality(Waiting(t))
      BY <2>2, WaitingFinite, FS_Subset
    <3> QED
      BY <2>1, <3>1, CoverFacts
  <2>3. CASE WithinLimit(t)
    BY <2>1, <2>3, CoverFacts
  <2> QED
    BY <2>1, <2>2, <2>3
<1> QED
  BY <1>1 DEF CoverInv

LEMMA QueuesKept ==
  ASSUME QSizeFits, QueuesOK, queues' = queues, NEW t \in Tasks
  PROVE  NumQueued(t)' \in Nat /\ NumQueued(t)' <= NumQueued(t)
<1>1. NumQueued(t)' = NumQueued(t) /\ NumQueued(t) \in Nat
  BY QueueOfTask DEF NumQueued
<1> QED
  BY <1>1

(* A step of c that calls nothing to be activated.                         *)
CallsNothing(c) == Alone(c) /\ (Uncounted(c)' => Uncounted(c) /\ arg'[c] = arg[c])

LEMMA WaitingKept ==
  ASSUME NEW t, (\E c \in Contexts : CallsNothing(c)) \/ UNCHANGED ctxVars
  PROVE  Waiting(t)' \subseteq Waiting(t)
<1>1. ASSUME NEW c \in Contexts, CallsNothing(c), NEW d \in Contexts,
             Uncounted(d)', arg'[d] = t
      PROVE  Uncounted(d) /\ arg[d] = t
  <2>1. CASE d = c
    BY <1>1, <2>1 DEF CallsNothing
  <2>2. CASE d # c
    BY <1>1, <2>2 DEF CallsNothing, Alone, Uncounted
  <2> QED
    BY <2>1, <2>2
<1>2. CASE UNCHANGED ctxVars
  BY <1>2 DEF ctxVars, Waiting, Uncounted
<1> QED
  BY <1>1, <1>2 DEF Waiting

(* A step that leaves the counts, the queues and the states alone.         *)
LEMMA StatesKept ==
  ASSUME QSizeFits, ActivationsFit, IInv, CoverInv, UNCHANGED <<noAct, queues, state>>,
         \A t \in Tasks \ {idle} : Waiting(t)' \subseteq Waiting(t) \/ WithinLimit(t)
  PROVE  CoverInv'
<1>1. \A t \in Tasks : NumQueued(t)' \in Nat /\ NumQueued(t)' <= NumQueued(t)
  BY QueuesKept DEF IInv
<1> QED
  BY <1>1, QuietCover

(* A step that changes nothing but the state of a task at the top.         *)
LEMMA TopStays ==
  ASSUME QSizeFits, ActivationsFit, IInv, CoverInv, UNCHANGED <<noAct, queues>>,
         \A t \in Tasks : Waiting(t)' \subseteq Waiting(t),
         NEW p \in Prios, NEW s \in {"READY", "RUNNING"},
         Top(p) # NULL, state' = [state EXCEPT ![Top(p)] = s]
  PROVE  CoverInv'
<1>1. ASSUME NEW t \in Tasks \ {idle}
      PROVE  state'[t] = "SUSPENDED" <=> state[t] = "SUSPENDED"
  <2>1. CASE t = Top(p)
    <3>1. TaskPrio[t] = p
      BY <2>1, TopHasPrio DEF IInv
    <3>2. NumQueued(t) \in Nat \ {0}
      <4>1. /\ QSize[p] \in 1 .. Int8Max /\ RingOK(queues[p])
            /\ queues[p] \in QueueType(Tasks \cup {NULL}, QSize[p])
            /\ NumQueued(t) = Cardinality(Places(queues[p], t))
        BY <3>1, QueueOfTask DEF IInv
      <4> QED
        BY <2>1, <4>1, TopIsQueued DEF Top
    <3>3. state[t] # "SUSPENDED"
      BY <3>2, CoverFacts
    <3>4. state'[t] # "SUSPENDED"
      BY <2>1 DEF IInv, TypeOK
    <3> QED
      BY <3>3, <3>4
  <2>2. CASE t # Top(p)
    BY <2>2 DEF IInv, TypeOK
  <2> QED
    BY <2>1, <2>2
<1>2. \A t \in Tasks : NumQueued(t)' \in Nat /\ NumQueued(t)' <= NumQueued(t)
  BY QueuesKept DEF IInv
<1> QED
  BY <1>1, <1>2, QuietCover

LEMMA MarkStays ==
  ASSUME QSizeFits, ActivationsFit, IInv, CoverInv, UNCHANGED <<noAct, queues>>,
         \A t \in Tasks : Waiting(t)' \subseteq Waiting(t),
         MarkReady(CurrTop, state)
  PROVE  CoverInv'
<1>1. CASE CurrTop = NULL
  BY <1>1, StatesKept DEF MarkReady
<1>2. CASE CurrTop # NULL
  <2>1. currQueue \in Prios /\ CurrTop = Top(currQueue)
    BY <1>2 DEF CurrTop, Top, IInv, TypeOK, Contexts
  <2>2. state' = [state EXCEPT ![Top(currQueue)] = "READY"]
    BY <1>2, <2>1 DEF MarkReady
  <2> QED
    BY <1>2, <2>1, <2>2, TopStays
<1> QED
  BY <1>1, <1>2

(* An activation is counted, and READY, before it is seen to be refused.   *)
LEMMA ActivationCovers ==
  ASSUME QSizeFits, ActivationsFit, IInv, CoverInv, NEW x \in Tasks, Activate(x),
         \A t \in Tasks \ {idle} :
           /\ state'[t] = "SUSPENDED" <=> Activated(x)[t] = "SUSPENDED"
           /\ IF t = x
              THEN \/ Cardinality(Waiting(t))' = Cardinality(Waiting(t)) - 1
                   \/ WithinLimit(t)
              ELSE Waiting(t)' \subseteq Waiting(t)
  PROVE  CoverInv'
<1>1. \A t \in Tasks : /\ NumQueued(t)' \in Nat
                       /\ NumQueued(t)' <= NumQueued(t) + (IF x = t THEN 1 ELSE 0)
  BY PushAdds DEF Activate, IInv
<1>2. /\ noAct'[x] = Uint8Inc(noAct[x])
      /\ \A t \in Tasks : t # x => noAct'[t] = noAct[t]
      /\ Activated(x)[x] = "READY"
      /\ \A t \in Tasks : t # x => Activated(x)[t] = state[t]
  BY DEF Activate, Activated, IInv, TypeOK
<1>3. ASSUME NEW t \in Tasks \ {idle}
      PROVE  /\ noAct'[t] >= NumQueued(t)'
             /\ (state'[t] = "SUSPENDED") <=> (noAct'[t] = 0)
             /\ noAct'[t] + Cardinality(Waiting(t))' <= ActLimit + Cardinality(Contexts)
  <2>1. CASE t = x
    <3>1. noAct'[t] = noAct[t] + 1
      BY <1>2, <2>1, CoverFacts DEF Uint8Inc
    <3>2. noAct'[t] >= NumQueued(t)' /\ noAct'[t] # 0
      BY <1>1, <2>1, <3>1, CoverFacts
    <3>3. state'[t] # "SUSPENDED"
      BY <1>2, <2>1
    <3>4. noAct'[t] + Cardinality(Waiting(t))' <= ActLimit + Cardinality(Contexts)
      BY <2>1, <3>1, CoverFacts
    <3> QED
      BY <3>2, <3>3, <3>4
  <2>2. CASE t # x
    <3>1. noAct'[t] = noAct[t] /\ (state'[t] = "SUSPENDED" <=> state[t] = "SUSPENDED")
      BY <1>2, <2>2
    <3>2. NumQueued(t)' <= NumQueued(t) /\ NumQueued(t)' \in Nat
      BY <1>1, <2>2, CoverFacts
    <3>3. Cardinality(Waiting(t)') <= Cardinality(Waiting(t))
      BY <2>2, WaitingFinite, FS_Subset
    <3> QED
      BY <3>1, <3>2, <3>3, CoverFacts
  <2> QED
    BY <2>1, <2>2
<1> QED
  BY <1>3 DEF CoverInv

LEMMA ActivateTaskCovers ==
  ASSUME QSizeFits, ActivationsFit, IInv, CoverInv, NEW c \in Contexts, ActivateTask(c)
  PROVE  CoverInv'
<1>1. /\ arg[c] \in Tasks /\ Activate(arg[c]) /\ state' = Activated(arg[c])
      /\ Moves(c, "actCS", "read") /\ ret[c] \in {"task", "taskEnd", "main"}
      /\ UNCHANGED <<ret, arg>>
  BY ActivateTaskMoves
<1>2. PICK x \in Tasks : x = arg[c]
  BY <1>1
<1>3. /\ Uncounted(c) /\ ~Uncounted(c)'
      /\ \A d \in Contexts : d # c => (Uncounted(d)' <=> Uncounted(d))
  BY <1>1 DEF Moves, Alone, Uncounted
<1>4. Activate(x) /\ state' = Activated(x)
  BY <1>1, <1>2
<1>5. \A t \in Tasks : Waiting(t)' = Waiting(t) \ {c}
  BY <1>1, <1>3 DEF Waiting
<1>6. Cardinality(Waiting(x))' = Cardinality(Waiting(x)) - 1
  <2>1. c \in Waiting(x) /\ IsFiniteSet(Waiting(x))
    BY <1>2, <1>3, WaitingFinite DEF Waiting
  <2>2. Cardinality(Waiting(x) \ {c}) = Cardinality(Waiting(x)) - 1
    BY <2>1, FS_RemoveElement
  <2> QED
    BY <1>5, <2>2
<1> QED
  BY <1>4, <1>5, <1>6, ActivationCovers

(* The count of the task that ends is not 0, as it is still in the queue.  *)
LEMMA TerminateTaskCovers ==
  ASSUME QSizeFits, ActivationsFit, IInv, CoverInv, NEW c \in Prios, TerminateTask(c)
  PROVE  CoverInv'
<1>1. /\ run[c] \in Tasks /\ Top(c) = run[c] /\ CurrTop = run[c]
      /\ queues' = [queues EXCEPT ![c] = PopFromQueue(@)]
      /\ Moves(c, "termCS", "read") /\ UNCHANGED <<ret, arg>>
  BY TerminateTaskMoves
<1>2. PICK x \in Tasks : x = run[c]
  BY <1>1
<1>3. CurrTop = x /\ x # NULL /\ TaskPrio[x] = c /\ TopFromQueue(queues[c]) = x
  BY <1>1, <1>2, TopHasPrio, KernelAssumption DEF IInv, Top
<1>4. /\ noAct' = [noAct EXCEPT ![x] = Uint8Dec(noAct[x])]
      /\ state' = [state EXCEPT ![x] = IF Uint8Dec(noAct[x]) = 0
                                       THEN "SUSPENDED" ELSE "READY"]
  BY <1>3 DEF TerminateTask
<1>5. \A t \in Tasks : /\ NumQueued(t)' \in Nat
                       /\ NumQueued(t) = NumQueued(t)' + (IF x = t THEN 1 ELSE 0)
  BY <1>1, <1>3, PopTakes DEF IInv
<1>6. ASSUME NEW t \in Tasks \ {idle}
      PROVE  /\ noAct'[t] >= NumQueued(t)'
             /\ (state'[t] = "SUSPENDED") <=> (noAct'[t] = 0)
             /\ noAct'[t] + Cardinality(Waiting(t))' <= ActLimit + Cardinality(Contexts)
  <2>1. Waiting(t)' = Waiting(t)
    <3>1. \A d \in Contexts : Uncounted(d)' <=> Uncounted(d)
      BY <1>1 DEF Moves, Alone, Uncounted
    <3> QED
      BY <1>1, <3>1 DEF Waiting
  <2>2. CASE t = x
    <3>1. noAct[t] # 0
      BY <1>5, <2>2, CoverFacts
    <3>2. noAct'[t] = noAct[t] - 1 /\ Uint8Dec(noAct[x]) = noAct'[t]
      BY <1>4, <2>2, <3>1 DEF Uint8Dec, IInv, TypeOK
    <3>3. state'[t] = "SUSPENDED" <=> noAct'[t] = 0
      BY <1>4, <2>2, <3>2 DEF IInv, TypeOK
    <3>4. noAct'[t] >= NumQueued(t)'
      BY <1>5, <2>2, <3>2, CoverFacts
    <3>5. noAct'[t] + Cardinality(Waiting(t))' <= ActLimit + Cardinality(Contexts)
      BY <2>1, <3>2, CoverFacts
    <3> QED
      BY <3>3, <3>4, <3>5
  <2>3. CASE t # x
    <3>1. noAct'[t] = noAct[t] /\ state'[t] = state[t]
      BY <1>4, <2>3 DEF IInv, TypeOK
    <3>2. NumQueued(t)' = NumQueued(t)
      BY <1>5, <2>3, CoverFacts
    <3> QED
      BY <2>1, <3>1, <3>2, CoverFacts
  <2> QED
    BY <2>2, <2>3
<1> QED
  BY <1>6 DEF CoverInv

LEMMA IsrActivateTaskCovers ==
  ASSUME QSizeFits, ActivationsFit, IInv, CoverInv, NEW x \in IsrTasks,
         IsrActivateTask(x)
  PROVE  CoverInv'
<1>1. /\ x \in Tasks /\ WithinLimit(x) /\ Activate(x)
      /\ ScheduleFromISR(readySet', queues', Activated(x))
      /\ UNCHANGED <<currQueue, ctxVars>>
  BY KernelAssumption DEF IsrActivateTask
<1>2. \A t \in Tasks : Waiting(t)' \subseteq Waiting(t)
  BY <1>1, WaitingKept
<1>3. QueuesOK'
  BY <1>1, PushKeeps DEF Activate, IInv
<1>4. ASSUME NEW t \in Tasks \ {idle}
      PROVE  state'[t] = "SUSPENDED" <=> Activated(x)[t] = "SUSPENDED"
  <2> DEFINE top == TopFromQueue(queues'[currQueue])
  <2>1. \/ state' = Activated(x)
        \/ /\ currQueue \in Prios /\ top # NULL
           /\ state' = [Activated(x) EXCEPT ![top] = "READY"]
    BY <1>1 DEF ScheduleFromISR, MarkReady, IInv, TypeOK, Contexts
  <2>2. Activated(x) \in [Tasks -> {"SUSPENDED", "READY", "RUNNING"}]
    BY DEF Activated, IInv, TypeOK
  <2>3. ASSUME currQueue \in Prios, top = t
        PROVE  Activated(x)[t] # "SUSPENDED"
    <3>1. /\ QSize[currQueue] \in 1 .. Int8Max /\ RingOK(queues'[currQueue])
          /\ queues'[currQueue] \in QueueType(Tasks \cup {NULL}, QSize[currQueue])
          /\ Contents(queues'[currQueue]) \in Seq(TasksOf(currQueue))
      BY <1>1, <1>3, <2>3 DEF QueuesOK, QSizeFits
    <3>2. t # NULL /\ Cardinality(Places(queues'[currQueue], t)) \in Nat \ {0}
      BY <2>3, <3>1, TopIsQueued, KernelAssumption
    <3>3. TaskPrio[t] = currQueue
      <4>1. queues'[currQueue].queue_size # 0
        BY <2>3, <3>1, <3>2, TopIsHead
      <4>2. t = Head(Contents(queues'[currQueue])) /\ Contents(queues'[currQueue]) # <<>>
        BY <2>3, <3>1, <4>1, TopIsHead
      <4>3. t \in TasksOf(currQueue)
        BY <3>1, <4>2, HeadTailProperties
      <4> QED
        BY <4>3 DEF TasksOf
    <3>4. NumQueued(t)' \in Nat \ {0}
      BY <3>2, <3>3 DEF NumQueued, Places
    <3>5. CASE t = x
      BY <3>5 DEF Activated, IInv, TypeOK
    <3>6. CASE t # x
      <4>1. queues' = [queues EXCEPT ![TaskPrio[x]] = PushToQueue(@, x)]
        BY <1>1 DEF Activate
      <4>2. NumQueued(t)' <= NumQueued(t) + (IF x = t THEN 1 ELSE 0)
        BY <1>1, <4>1, PushAdds DEF IInv
      <4>3. state[t] # "SUSPENDED"
        BY <3>4, <3>6, <4>2, CoverFacts
      <4> QED
        BY <3>6, <4>3 DEF Activated, IInv, TypeOK
    <3> QED
      BY <3>5, <3>6
  <2>4. CASE state' = Activated(x)
    BY <2>4
  <2>5. CASE currQueue \in Prios /\ state' = [Activated(x) EXCEPT ![top] = "READY"]
    <3>1. CASE top = t
      BY <2>2, <2>3, <2>5, <3>1
    <3>2. CASE top # t
      BY <2>2, <2>5, <3>2
    <3> QED
      BY <3>1, <3>2
  <2> QED
    BY <2>1, <2>4, <2>5
<1> QED
  BY <1>1, <1>2, <1>4, ActivationCovers

(* What a context is called to activate, it has found below the limit.     *)
LEMMA CallsCover ==
  ASSUME QSizeFits, ActivationsFit, IInv, CoverInv, UNCHANGED <<noAct, queues, state>>,
         NEW c \in Contexts, Alone(c), arg'[c] \in Tasks => WithinLimit(arg'[c])
  PROVE  CoverInv'
<1>1. ASSUME NEW t \in Tasks, NEW d \in Contexts, d # c
      PROVE  d \in Waiting(t)' <=> d \in Waiting(t)
  BY <1>1 DEF Waiting, Uncounted, Alone
<1>2. \A t \in Tasks : Waiting(t)' \subseteq Waiting(t) \/ t = arg'[c]
  BY <1>1 DEF Waiting
<1> QED
  BY <1>2, StatesKept

LEMMA NextCover ==
  ASSUME QSizeFits, ActivationsFit, IInv, Starting, CoverInv, [Next]_vars
  PROVE  CoverInv'
<1>0. NULL \in Contexts /\ Prios \subseteq Contexts /\ NULL \notin Tasks /\ idle \in Tasks
  BY KernelAssumption DEF Contexts
<1>1. ASSUME UNCHANGED <<noAct, queues, state>>,
             (\E c \in Contexts : CallsNothing(c)) \/ UNCHANGED ctxVars
      PROVE  CoverInv'
  BY <1>1, WaitingKept, StatesKept
<1>2. ASSUME NEW c \in Contexts, NEW from, NEW to, Moves(c, from, to),
             to \notin {"act", "actCS", "chain"}, ret'[c] = ret[c] \/ ret'[c] # "chain",
             arg'[c] = arg[c]
      PROVE  CallsNothing(c)
  BY <1>2 DEF Moves, CallsNothing, Uncounted
<1>3. CASE MainActivate \/ StartOS
  <2>1. CASE MainActivate
    <3>1. /\ UNCHANGED <<noAct, queues, state>> /\ Alone(NULL)
          /\ arg'[NULL] \in Tasks => WithinLimit(arg'[NULL])
      BY <1>0, <2>1, MainCalls DEF MainActivate, Moves, IInv, TypeOK
    <3> QED
      BY <1>0, <3>1, CallsCover
  <2>2. CASE StartOS
    <3>1. /\ Moves(NULL, "main", "initQueue") /\ ret'[NULL] = "lost"
          /\ UNCHANGED <<noAct, queues, state, arg>>
      BY <1>0, <2>2, MainCalls DEF StartOS, Moves, Call, Goto, IInv, TypeOK, osVars
    <3> QED
      BY <1>0, <1>1, <1>2, <3>1
  <2> QED
    BY <1>3, <2>1, <2>2
<1>4. CASE InitReady \/ InitState
  <2>1. /\ \/ Moves(NULL, "initQueue", "initState") /\ state' = state
           \/ /\ Moves(NULL, "initState", "read") \/ Moves(NULL, "initState", "initLock")
              /\ state' = Activated(idle)
        /\ UNCHANGED <<noAct, queues, ret, arg>>
    BY <1>4, InitMoves
  <2>2. CallsNothing(NULL)
    BY <1>0, <1>2, <2>1
  <2>3. \A t \in Tasks \ {idle} : state'[t] = state[t]
    BY <2>1 DEF Activated, IInv, TypeOK
  <2>4. \A t \in Tasks : /\ NumQueued(t)' \in Nat /\ NumQueued(t)' <= NumQueued(t)
                         /\ Waiting(t)' \subseteq Waiting(t)
    BY <1>0, <2>1, <2>2, QueuesKept, WaitingKept DEF IInv
  <2> QED
    BY <2>1, <2>3, <2>4, QuietCover
<1>5. CASE InitPush
  <2>1. /\ queues' = [queues EXCEPT ![TaskPrio[idle]] = Pushed(@, idle)]
        /\ UNCHANGED <<noAct, state>> /\ ~IsFull(queues[TaskPrio[idle]])
    BY <1>5 DEF InitPush, Executes, Goto, Starting
  <2>2. queues' = [queues EXCEPT ![TaskPrio[idle]] = PushToQueue(@, idle)]
    BY <2>1 DEF PushToQueue
  <2>3. ASSUME NEW t \in Tasks \ {idle}
        PROVE  NumQueued(t)' \in Nat /\ NumQueued(t)' <= NumQueued(t)
    <3>1. /\ NumQueued(t)' \in Nat
          /\ NumQueued(t)' <= NumQueued(t) + (IF idle = t THEN 1 ELSE 0)
      BY <1>0, <2>2, PushAdds DEF IInv
    <3>2. NumQueued(t) \in Nat
      BY CoverFacts
    <3> QED
      BY <2>3, <3>1, <3>2
  <2>4. \A t \in Tasks : Waiting(t)' \subseteq Waiting(t)
    BY <1>0, <1>2, <1>5, InitPushMoves, WaitingKept
  <2> QED
    BY <2>1, <2>3, <2>4, QuietCover
<1>6. ASSUME NEW p \in Prios, InitQueue(p)
      PROVE  CoverInv'
  <2>1. /\ UNCHANGED <<noAct, queues, state, ret, arg>> /\ pc'[p] = "loop"
        /\ \A d \in Contexts : d # p => pc'[d] = pc[d]
    BY <1>6, InitQueueMoves
  <2>2. \A t \in Tasks : Waiting(t)' \subseteq Waiting(t)
    BY <1>0, <2>1 DEF Waiting, Uncounted
  <2> QED
    BY <2>1, <2>2, StatesKept
<1>7. ASSUME NEW c \in Contexts, Lock(c)
      PROVE  CoverInv'
  <2>1. CallsNothing(c)
    BY <1>7, LockMoves DEF Moves, CallsNothing, Uncounted
  <2> QED
    BY <1>1, <1>7, <2>1, LockMoves
<1>8. ASSUME NEW c \in Contexts, NEW from \in Schedulers, NEW to, Moves(c, from, to),
             \/ to \in Schedulers /\ ret'[c] = ret[c]
             \/ to = ret[c] /\ ret'[c] = "none",
             arg'[c] = arg[c] \/ ret[c] # "chain"
      PROVE  CallsNothing(c)
  <2>1. ret[c] \in {"task", "taskEnd", "chain", "loop", "exit", "main", "lost"}
    BY <1>8, ScheduleReturns DEF Moves
  <2>2. Uncounted(c)' => ret[c] = "chain"
    BY <1>8, <2>1 DEF Moves, Uncounted, Schedulers
  <2> QED
    BY <1>8, <2>2 DEF Moves, CallsNothing, Uncounted
<1>9. ASSUME NEW c \in Contexts, ScheduleRead(c) \/ ScheduleStore(c) \/ ScheduleCompare(c)
      PROVE  CoverInv'
  <2>1. UNCHANGED <<noAct, queues, state>>
    BY <1>9, ScheduleReadMoves, ScheduleStoreMoves, ScheduleCompareMoves
  <2>2. CallsNothing(c)
    BY <1>8, <1>9, ScheduleReadMoves, ScheduleStoreMoves, ScheduleCompareMoves
       DEF Schedulers
  <2> QED
    BY <1>1, <2>1, <2>2
<1>10. ASSUME NEW c \in Contexts, ScheduleMark(c) \/ SchedulePend(c)
       PROVE  CoverInv'
  <2>1. CallsNothing(c)
    BY <1>8, <1>10, ScheduleMarkMoves, SchedulePendMoves DEF Schedulers
  <2>2. CASE ScheduleMark(c)
    BY <2>1, <2>2, ScheduleMarkMoves, WaitingKept, MarkStays
  <2>3. CASE SchedulePend(c)
    BY <1>1, <2>1, <2>3, SchedulePendMoves
  <2> QED
    BY <1>10, <2>2, <2>3
<1>11. ASSUME NEW c \in Contexts, ActivateTask(c)
       PROVE  CoverInv'
  BY <1>11, ActivateTaskCovers
<1>12. ASSUME NEW c \in Prios, DispatchTask(c)
       PROVE  CoverInv'
  <2>1. /\ Top(c) # NULL /\ state' = [state EXCEPT ![Top(c)] = "RUNNING"]
        /\ UNCHANGED <<noAct, queues, ret, arg>> /\ Moves(c, "loop", "task")
    BY <1>0, <1>12, DispatchTaskMoves
  <2>2. CallsNothing(c)
    BY <1>0, <1>2, <2>1
  <2> QED
    BY <1>0, <2>1, <2>2, WaitingKept, TopStays
<1>13. ASSUME NEW c \in Prios, LeaveLoop(c) \/ ClearReadyBit(c) \/ TaskReturns(c)
       PROVE  CoverInv'
  <2>1. CallsNothing(c) /\ UNCHANGED <<noAct, queues, state>>
    BY <1>0, <1>2, <1>13, LeaveLoopMoves, ClearReadyBitMoves, TaskReturnsMoves
  <2> QED
    BY <1>0, <1>1, <2>1
<1>14. ASSUME NEW c \in Prios, ChainContinues(c)
       PROVE  CoverInv'
  <2>1. CallsNothing(c) /\ UNCHANGED <<noAct, queues, state>>
    BY <1>14, ChainContinuesMoves DEF Moves, CallsNothing, Uncounted
  <2> QED
    BY <1>0, <1>1, <2>1
<1>15. ASSUME NEW c \in Prios, Body(c)
       PROVE  CoverInv'
  <2>1. ASSUME NEW to, NEW back, NEW t, BodyCalls(c, to, back, t),
               t \in Tasks => WithinLimit(t)
        PROVE  arg'[c] \in Tasks => WithinLimit(arg'[c])
    BY <1>0, <2>1 DEF BodyCalls, IInv, TypeOK
  <2>2. arg'[c] \in Tasks => WithinLimit(arg'[c])
    <3>1. CASE CallActivateTask(c)
      BY <2>1, <3>1 DEF CallActivateTask
    <3>2. CASE CallChain(c)
      BY <2>1, <3>2 DEF CallChain
    <3>3. CASE CallSchedule(c) \/ CallTerminate(c) \/ CallShutdown(c)
      BY <1>0, <2>1, <3>3 DEF CallSchedule, CallTerminate, CallShutdown
    <3> QED
      BY <1>15, <3>1, <3>2, <3>3 DEF Body
  <2>3. Alone(c) /\ UNCHANGED <<noAct, queues, state>>
    BY <1>15, BodyMoves DEF Moves
  <2> QED
    BY <1>0, <2>2, <2>3, CallsCover
<1>16. ASSUME NEW c \in Prios, TerminateTask(c)
       PROVE  CoverInv'
  BY <1>16, TerminateTaskCovers
<1>17. CASE tickHandler
  <2>1. /\ UNCHANGED <<noAct, queues, ctxVars, currQueue>>
        /\ ScheduleFromISR(readySet, queues, state)
    BY <1>17 DEF tickHandler
  <2>2. state' = state \/ MarkReady(CurrTop, state)
    BY <2>1 DEF ScheduleFromISR, CurrTop
  <2> QED
    BY <1>1, <2>1, <2>2, WaitingKept, MarkStays
<1>18. ASSUME NEW t \in IsrTasks, IsrActivateTask(t)
       PROVE  CoverInv'
  BY <1>18, IsrActivateTaskCovers
<1>19. CASE contextSwitchISR \/ Still
  BY <1>1, <1>19 DEF contextSwitchISR, Still, osVars
<1> QED
  BY <1>3, <1>4, <1>5, <1>6, <1>7, <1>9, <1>10, <1>11, <1>12, <1>13,
     <1>14, <1>15, <1>16, <1>17, <1>18, <1>19, Steps

LEMMA InitCover == ASSUME QSizeFits, ActivationsFit, Init PROVE CoverInv
<1>1. ASSUME NEW t \in Tasks
      PROVE  NumQueued(t) = 0
  <2>1. TaskPrio[t] \in Prios
    BY KernelAssumption
  <2>2. queues[TaskPrio[t]].queue_size = 0
    BY <2>1 DEF Init, NewQueue
  <2>3. {i \in 1 .. 0 : Contents(queues[TaskPrio[t]])[i] = t} = {}
    OBVIOUS
  <2> QED
    BY <2>2, <2>3, FS_EmptySet DEF NumQueued
<1>2. ASSUME NEW t \in Tasks
      PROVE  /\ noAct[t] = 0 /\ state[t] = "SUSPENDED"
             /\ Cardinality(Waiting(t)) \in 0 .. Cardinality(Contexts)
             /\ Cardinality(Contexts) \in Nat /\ ActLimit \in Nat
  BY WaitingFinite DEF Init, ActivationsFit
<1>3. ASSUME NEW t \in Tasks
      PROVE  noAct[t] + Cardinality(Waiting(t)) <= ActLimit + Cardinality(Contexts)
  BY <1>2
<1> QED
  BY <1>1, <1>2, <1>3 DEF CoverInv

(* A task is SUSPENDED exactly when no activation of it is counted, and    *)
(* the count covers its queue, whoever is preempted between counting and   *)
(* pushing or between popping and counting.  (osek.c:219-223, 259-268)     *)
THEOREM CountCoversQueue ==
  ASSUME QSizeFits, HandlersSpareIdle, ActivationsFit PROVE Spec => []NoActCoversQueue
<1>1. Init => CoverInv
  BY InitCover
<1>2. IInv /\ Starting /\ CoverInv /\ [Next]_vars => CoverInv'
  BY NextCover
<1>3. CoverInv => NoActCoversQueue
  BY DEF CoverInv, NoActCoversQueue
<1> QED
  BY <1>1, <1>2, <1>3, Invariance, PTL DEF Spec
=============================================================================
