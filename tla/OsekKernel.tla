----------------------------- MODULE OsekKernel -----------------------------
(***************************************************************************)
(* The lwosek kernel (osek.c, osek_task.c, osek_queue.c) on one core: the  *)
(* per-priority dispatchers and the task bodies they call, the task        *)
(* services, Schedule(), the tick and category 2 interrupts and the        *)
(* context switch interrupt.                                               *)
(*                                                                         *)
(* Each used priority has one stack, hence one execution context: a        *)
(* dispatcher() that runs the tasks of its queue.  A context is where it   *)
(* stopped (pc), where the Schedule() call it is in returns to (ret), and  *)
(* its live locals.  The context of main(), which calls StartOS, is NULL:  *)
(* osek_currQueue is NULL exactly while it executes, and it is not saved.  *)
(*                                                                         *)
(* A step of a context runs up to the next point where an interrupt can    *)
(* change what it does: every access to shared state outside a critical    *)
(* section, and every critical section as a whole.  That a section is      *)
(* indivisible is what DisableAllInterrupts_uC documents (osek_port.c:55); *)
(* the window between counting and masking (osek.c:461-462) is kept.  An   *)
(* interrupt handler is one step: all handlers that call the kernel share  *)
(* one interrupt level, above the context switch's (osek_port.c:19-20).    *)
(***************************************************************************)
EXTENDS OsekQueue, FiniteSets

CONSTANTS
  Prios,          \* the priorities whose PRIORITY_p_Q_SIZE is not NOT_USED
  QSize,          \* QSize[p]: PRIORITY_p_Q_SIZE
  Tasks,          \* the TaskType identifiers, ID_idle included
  idle,           \* ID_idle
  TaskPrio,       \* TaskPrio[t]: the queue tasks[t].q, by its priority
  MayActivate,    \* MayActivate[t]: tasks that t's body activates
  MayChain,       \* MayChain[t]: tasks that t's body may end by chaining to
  MayTerminate,   \* tasks whose body may end by TerminateTask
  MayShutdown,    \* tasks whose body may call ShutdownOS
  MainActivates,  \* tasks that main() may activate before it calls StartOS
  IsrTasks,       \* tasks activated by category 2 interrupt handlers
  EarlyInterrupts,\* interrupts are let in before the first task runs
  NullWrites,     \* what the target does with a write through NULL
  ActLimit,       \* bound: no ActivateTask call once noAct has reached it
  WILD            \* a word read outside the array osek_queues

ASSUME KernelAssumption ==
  /\ Prios \subseteq Nat
  /\ idle \in Tasks
  /\ TaskPrio \in [Tasks -> Prios]
  /\ QSize \in [Prios -> Nat \ {0}]
  /\ MayActivate \in [Tasks -> SUBSET Tasks]
  /\ MayChain \in [Tasks -> SUBSET Tasks]
  /\ MayTerminate \subseteq Tasks
  /\ MayShutdown \subseteq Tasks
  /\ MainActivates \subseteq Tasks
  /\ IsrTasks \subseteq Tasks
  /\ EarlyInterrupts \in BOOLEAN
  /\ NullWrites \subseteq {"ignored", "fault"} /\ NullWrites # {}
  /\ NULL \notin Tasks /\ NULL \notin Prios /\ WILD \notin Prios \cup {NULL}

VARIABLES
  readySet,       \* osek_readySet: the priorities whose bit is set
  state,          \* tasks[t].state
  noAct,          \* tasks[t].noAct, a uint8_t
  queues,         \* queues[p]: the OsekQueue_t Qp
  currQueue,      \* osek_currQueue, a queue named by its priority
  nextQueue,      \* osek_nextQueue
  pendSV,         \* the context switch interrupt is pending
  masked,         \* interrupts are globally disabled
  disableCount,   \* DisableAllInterrupts_count, a uint8_t
  pc, ret,        \* per context: control, and where Schedule() returns
  arg,            \* per context: the TaskID an ActivateTask is called with
  cand,           \* per context: the queue Schedule() has chosen
  run,            \* per context: dispatcher's taskStruct, the task called
  mode            \* "run", or "fault" once the core has taken a HardFault

osVars   == <<readySet, state, noAct, queues>>
lockVars == <<masked, disableCount>>
ctxVars  == <<pc, ret, arg, cand, run>>
vars     == <<osVars, currQueue, nextQueue, pendSV, lockVars, ctxVars, mode>>

Contexts == Prios \cup {NULL}
-----------------------------------------------------------------------------
(***************************************************************************)
(* Helpers.                                                                *)
(***************************************************************************)
(* FIND_READY_QUEUE: the number of the highest bit set, if any is set.     *)
FindReady_Lowest(rs) == {p \in rs : \A q \in rs : p <= q}
FindReady(rs) == {p \in rs : \A q \in rs : q <= p}

(* What osek_queues[i] can be.  The array holds the used queues from low   *)
(* to high priority, without gaps: entry i is the one with i used queues   *)
(* below it.  A word outside the array is unknown.                         *)
osek_queues(i) == LET Q == {p \in Prios : Cardinality({q \in Prios : q < p}) = i}
                  IN IF Q = {} THEN {WILD} ELSE Q

(* osek_queues[FIND_READY_QUEUE(rs)]; with no bit set the index is -1.     *)
ReadyQueue(rs) == IF rs = {} THEN {WILD}
                  ELSE UNION {osek_queues(i) : i \in FindReady(rs)}

(* The task that topFromQueue(osek_currQueue) points to, NULL if none.     *)
CurrTop == IF currQueue = NULL THEN NULL ELSE TopFromQueue(queues[currQueue])

(* GetTaskID, called where a task is current; GetTaskState is state[t].    *)
GetTaskID == IF state[CurrTop] = "RUNNING" THEN CurrTop ELSE "INVALID_TASK"

(* topFromQueue(osek_currQueue)->state = READY, given the states s.  With  *)
(* no task to point to, the write goes through NULL; before the first      *)
(* switch osek_currQueue itself is NULL, and the write goes through what   *)
(* lies at address 0.  Either is ignored or faults.                        *)
MarkReady_Skipped(top, s) == state' = s /\ UNCHANGED mode
MarkReady(top, s) ==
  IF top = NULL
  THEN /\ state' = s
       /\ \E w \in NullWrites : mode' = IF w = "fault" THEN "fault" ELSE mode
  ELSE /\ state' = [s EXCEPT ![top] = "READY"]
       /\ UNCHANGED mode

(* DisableAllInterrupts counts before it masks; EnableAllInterrupts        *)
(* unmasks only when the count returns to zero.                            *)
CountUp == disableCount' = Uint8Inc(disableCount)
EnableAllInterrupts_TestFirst == /\ disableCount' = Uint8Dec(disableCount)
                                 /\ masked' = (disableCount # 0)
EnableAllInterrupts == /\ disableCount' = Uint8Dec(disableCount)
                       /\ masked' = (disableCount' # 0)

(* The same pair at interrupt level: the count is left as it was found,    *)
(* and interrupts masked if a context stopped between counting and masking.*)
InterruptSection_NoNesting == masked' = FALSE /\ UNCHANGED disableCount
InterruptSection == masked' = (disableCount # 0) /\ UNCHANGED disableCount

(* The critical section of ActivateTask, with the effect of its push.      *)
Activate_NoCount(t) ==
  /\ readySet' = readySet \cup {TaskPrio[t]}
  /\ noAct' = noAct
  /\ queues' = [queues EXCEPT ![TaskPrio[t]] = PushToQueue(@, t)]
Activate_NoReadyBit(t) ==
  /\ readySet' = readySet
  /\ noAct' = [noAct EXCEPT ![t] = Uint8Inc(@)]
  /\ queues' = [queues EXCEPT ![TaskPrio[t]] = PushToQueue(@, t)]
Activate_Overwrites(t) ==
  /\ readySet' = {TaskPrio[t]}
  /\ noAct' = [noAct EXCEPT ![t] = Uint8Inc(@)]
  /\ queues' = [queues EXCEPT ![TaskPrio[t]] = PushToQueue(@, t)]
Activate_Toggles(t) ==
  /\ readySet' = (readySet \ {TaskPrio[t]}) \cup ({TaskPrio[t]} \ readySet)
  /\ noAct' = [noAct EXCEPT ![t] = Uint8Inc(@)]
  /\ queues' = [queues EXCEPT ![TaskPrio[t]] = PushToQueue(@, t)]
Activate(t) ==
  /\ readySet' = readySet \cup {TaskPrio[t]}
  /\ noAct' = [noAct EXCEPT ![t] = Uint8Inc(@)]
  /\ queues' = [queues EXCEPT ![TaskPrio[t]] = PushToQueue(@, t)]
Activated(t) == [state EXCEPT ![t] = "READY"]

(* ActivateTask(t) is still within the bound of the model.                 *)
WithinLimit(t) == Uint8Inc(noAct[t]) <= ActLimit

(* Context c executes its next step: it owns the core and no interrupt is  *)
(* about to be taken.                                                      *)
Executes(c) == /\ mode = "run"
               /\ currQueue = c
               /\ ~(pendSV /\ ~masked)

Goto(c, from, to) == /\ pc[c] = from
                     /\ pc' = [pc EXCEPT ![c] = to]
Call(c, from, to, back) == /\ Goto(c, from, to)
                           /\ ret' = [ret EXCEPT ![c] = back]
Return(c, from) == Call(c, from, ret[c], "none")
-----------------------------------------------------------------------------
Init ==
  /\ readySet = {}
  /\ state = [t \in Tasks |-> "SUSPENDED"]
  /\ noAct = [t \in Tasks |-> 0]
  /\ queues = [p \in Prios |-> NewQueue(QSize[p])]
  /\ currQueue = NULL /\ nextQueue = NULL
  /\ pendSV = FALSE /\ masked = FALSE /\ disableCount = 0
  /\ pc = [c \in Contexts |-> IF c = NULL THEN "main" ELSE "nostack"]
  /\ ret = [c \in Contexts |-> "none"]
  /\ arg = [c \in Contexts |-> NULL]
  /\ cand = [c \in Contexts |-> NULL]
  /\ run = [c \in Contexts |-> NULL]
  /\ mode = "run"

-----------------------------------------------------------------------------
(***************************************************************************)
(* Start-up, in the context of main().                                     *)
(***************************************************************************)
(* The example's main() activates idle before it starts the kernel.        *)
MainActivate ==
  \E t \in MainActivates :
    /\ WithinLimit(t)
    /\ Executes(NULL)
    /\ Call(NULL, "main", "act", "main")
    /\ arg' = [arg EXCEPT ![NULL] = t]
    /\ UNCHANGED <<osVars, currQueue, nextQueue, pendSV, lockVars,
                   cand, run, mode>>

(* StartOS, up to InitOS(); the Schedule() at its end must not return.     *)
StartOS ==
  /\ Executes(NULL)
  /\ Call(NULL, "main", "initQueue", "lost")
  /\ UNCHANGED <<osVars, currQueue, nextQueue, pendSV, lockVars,
                 arg, cand, run, mode>>

(* initQueue() gives the queues, in their order, a stack that starts in    *)
(* dispatcher().                                                           *)
InitQueue(p) ==
  /\ Executes(NULL)
  /\ pc[NULL] = "initQueue" /\ pc[p] = "nostack"
  /\ \A q \in Prios : q < p => pc[q] # "nostack"
  /\ pc' = [pc EXCEPT ![p] = "loop"]
  /\ UNCHANGED <<osVars, currQueue, nextQueue, pendSV, lockVars,
                 ret, arg, cand, run, mode>>

(* The idle task is made ready and queued by hand, uncounted; whether its  *)
(* queue has room is tested before the critical section of the push.       *)
InitReady ==
  /\ Executes(NULL)
  /\ Goto(NULL, "initQueue", "initState")
  /\ \A p \in Prios : pc[p] # "nostack"
  /\ readySet' = readySet \cup {TaskPrio[idle]}
  /\ UNCHANGED <<state, noAct, queues, currQueue, nextQueue, pendSV, lockVars,
                 ret, arg, cand, run, mode>>

InitState ==
  /\ Executes(NULL)
  /\ Goto(NULL, "initState",
          IF IsFull(queues[TaskPrio[idle]]) THEN "read" ELSE "initLock")
  /\ state' = Activated(idle)
  /\ UNCHANGED <<readySet, noAct, queues, currQueue, nextQueue, pendSV, lockVars,
                 ret, arg, cand, run, mode>>

InitPush ==
  /\ Executes(NULL)
  /\ Goto(NULL, "initCS", "read")
  /\ queues' = [queues EXCEPT ![TaskPrio[idle]] = Pushed(@, idle)]
  /\ EnableAllInterrupts
  /\ UNCHANGED <<readySet, state, noAct, currQueue, nextQueue, pendSV,
                 ret, arg, cand, run, mode>>
-----------------------------------------------------------------------------
(***************************************************************************)
(* dispatcher().                                                           *)
(***************************************************************************)
DispatchTask(c) ==
  /\ Executes(c)
  /\ Goto(c, "loop", "task")
  /\ CurrTop # NULL
  /\ run' = [run EXCEPT ![c] = CurrTop]
  /\ state' = [state EXCEPT ![CurrTop] = "RUNNING"]
  /\ UNCHANGED <<readySet, noAct, queues, currQueue, nextQueue, pendSV,
                 lockVars, ret, arg, cand, mode>>

(* The loop ends: the queue was found empty, outside any critical section. *)
LeaveLoop(c) ==
  /\ Executes(c)
  /\ Goto(c, "loop", "drain")
  /\ CurrTop = NULL
  /\ UNCHANGED <<osVars, currQueue, nextQueue, pendSV, lockVars,
                 ret, arg, cand, run, mode>>

ClearReadyBit_NoClear(c) ==
  /\ Executes(c)
  /\ Call(c, "drainCS", "read", "exit")
  /\ EnableAllInterrupts
  /\ UNCHANGED <<osVars, currQueue, nextQueue, pendSV, arg, cand, run, mode>>
ClearReadyBit(c) ==
  /\ Executes(c)
  /\ Call(c, "drainCS", "read", "exit")
  /\ readySet' = readySet \ {c}
  /\ EnableAllInterrupts
  /\ UNCHANGED <<state, noAct, queues, currQueue, nextQueue, pendSV,
                 arg, cand, run, mode>>

(* Past its last Schedule() dispatcher() returns, to the link register of  *)
(* the initial frame, 0x0000000E: not a Thumb address.                     *)
DispatcherReturns(c) ==
  /\ Executes(c)
  /\ pc[c] = "exit"
  /\ mode' = "fault"
  /\ UNCHANGED <<osVars, currQueue, nextQueue, pendSV, lockVars, ctxVars>>

(* task() has returned to the loop, which calls Schedule().                *)
TaskReturns(c) ==
  /\ Executes(c)
  /\ Call(c, "taskEnd", "read", "loop")
  /\ run' = [run EXCEPT ![c] = NULL]
  /\ UNCHANGED <<osVars, currQueue, nextQueue, pendSV, lockVars,
                 arg, cand, mode>>
-----------------------------------------------------------------------------
(***************************************************************************)
(* The body of a task: any sequence of service calls that ends in exactly  *)
(* one TerminateTask or ChainTask, or in ShutdownOS (README.md:39).        *)
(***************************************************************************)
BodyCalls(c, to, back, t) ==
  /\ Executes(c)
  /\ Call(c, "task", to, back)
  /\ arg' = [arg EXCEPT ![c] = t]
  /\ UNCHANGED <<osVars, currQueue, nextQueue, pendSV, lockVars,
                 cand, run, mode>>

CallActivateTask(c) == \E t \in MayActivate[run[c]] :
                         WithinLimit(t) /\ BodyCalls(c, "act", "task", t)
CallSchedule(c)     == BodyCalls(c, "read", "task", NULL)
CallTerminate(c)    == /\ run[c] \in MayTerminate
                       /\ BodyCalls(c, "term", "taskEnd", NULL)
CallChain(c)        == \E t \in MayChain[run[c]] :
                         WithinLimit(t) /\ BodyCalls(c, "term", "chain", t)
CallShutdown(c)     == /\ run[c] \in MayShutdown
                       /\ BodyCalls(c, "shutdown", "shutdown", NULL)
-----------------------------------------------------------------------------
(***************************************************************************)
(* ActivateTask, TerminateTask and ChainTask.                              *)
(***************************************************************************)
(* DisableAllInterrupts, up to but not including the masking.              *)
Lock(c) ==
  /\ Executes(c)
  /\ \/ Goto(c, "act", "actCS")
     \/ Goto(c, "term", "termCS")
     \/ Goto(c, "drain", "drainCS")
     \/ Goto(c, "initLock", "initCS")
  /\ CountUp
  /\ UNCHANGED <<osVars, currQueue, nextQueue, pendSV, masked,
                 ret, arg, cand, run, mode>>

ActivateTask(c) ==
  /\ Executes(c)
  /\ Goto(c, "actCS", "read")
  /\ Activate(arg[c])
  /\ state' = Activated(arg[c])
  /\ EnableAllInterrupts
  /\ UNCHANGED <<currQueue, nextQueue, pendSV, ret, arg, cand, run, mode>>

(* The task popped is the head of the current queue; its state follows     *)
(* from the count of activations left.  An empty queue yields NULL, whose  *)
(* noAct and state are written.                                            *)
TerminateTask(c) ==
  /\ Executes(c)
  /\ Goto(c, "termCS", "read")
  /\ queues' = [queues EXCEPT ![currQueue] = PopFromQueue(@)]
  /\ IF CurrTop = NULL
     THEN /\ MarkReady(NULL, state)
          /\ UNCHANGED noAct
     ELSE LET left == Uint8Dec(noAct[CurrTop])
          IN /\ noAct' = [noAct EXCEPT ![CurrTop] = left]
             /\ state' = [state EXCEPT ![CurrTop] =
                            IF left = 0 THEN "SUSPENDED" ELSE "READY"]
             /\ UNCHANGED mode
  /\ EnableAllInterrupts
  /\ UNCHANGED <<readySet, currQueue, nextQueue, pendSV, ret, arg, cand, run>>

(* ChainTask: TerminateTask has returned, ActivateTask follows.            *)
ChainContinues_Drops(c) ==
  /\ Executes(c)
  /\ Call(c, "chain", "taskEnd", "none")
  /\ UNCHANGED <<osVars, currQueue, nextQueue, pendSV, lockVars,
                 arg, cand, run, mode>>
ChainContinues(c) ==
  /\ Executes(c)
  /\ Call(c, "chain", "act", "taskEnd")
  /\ UNCHANGED <<osVars, currQueue, nextQueue, pendSV, lockVars,
                 arg, cand, run, mode>>
-----------------------------------------------------------------------------
(***************************************************************************)
(* Schedule(), called by a context.                                        *)
(***************************************************************************)
(* An ActivateTask that called it has no more use of its TaskID; ChainTask *)
(* still has, when it is TerminateTask that called.                        *)
ScheduleRead(c) ==
  /\ Executes(c)
  /\ Goto(c, "read", "store")
  /\ \E q \in ReadyQueue(readySet) : cand' = [cand EXCEPT ![c] = q]
  /\ arg' = IF ret[c] = "chain" THEN arg ELSE [arg EXCEPT ![c] = NULL]
  /\ UNCHANGED <<osVars, currQueue, nextQueue, pendSV, lockVars,
                 ret, run, mode>>

ScheduleStore(c) ==
  /\ Executes(c)
  /\ Goto(c, "store", "compare")
  /\ nextQueue' = cand[c]
  /\ cand' = [cand EXCEPT ![c] = NULL]
  /\ UNCHANGED <<osVars, currQueue, pendSV, lockVars, ret, arg, run, mode>>

ScheduleCompare_Inverted(c) ==
  /\ Executes(c)
  /\ IF nextQueue = currQueue
     THEN Goto(c, "compare", "mark") /\ UNCHANGED ret
     ELSE Return(c, "compare")
  /\ UNCHANGED <<osVars, currQueue, nextQueue, pendSV, lockVars,
                 arg, cand, run, mode>>
ScheduleCompare(c) ==
  /\ Executes(c)
  /\ IF nextQueue # currQueue
     THEN Goto(c, "compare", "mark") /\ UNCHANGED ret
     ELSE Return(c, "compare")
  /\ UNCHANGED <<osVars, currQueue, nextQueue, pendSV, lockVars,
                 arg, cand, run, mode>>

ScheduleMark(c) ==
  /\ Executes(c)
  /\ Goto(c, "mark", "pend")
  /\ MarkReady(CurrTop, state)
  /\ UNCHANGED <<readySet, noAct, queues, currQueue, nextQueue, pendSV,
                 lockVars, ret, arg, cand, run>>

SchedulePend(c) ==
  /\ Executes(c)
  /\ Return(c, "pend")
  /\ pendSV' = TRUE
  /\ UNCHANGED <<osVars, currQueue, nextQueue, lockVars,
                 arg, cand, run, mode>>
-----------------------------------------------------------------------------
(***************************************************************************)
(* Interrupts.                                                             *)
(***************************************************************************)
(* The tick and the application's handlers: that they are enabled is left  *)
(* to the application, normally done once a task runs.                     *)
InterruptTaken == /\ mode = "run"
                  /\ ~masked
                  /\ currQueue # NULL \/ EarlyInterrupts

(* Schedule() at interrupt level, with the states s at its start.          *)
ScheduleFromISR_NoPend(rs, qs, s) ==
  \E q \in ReadyQueue(rs) :
    /\ nextQueue' = q
    /\ MarkReady(IF currQueue = NULL THEN NULL
                 ELSE TopFromQueue(qs[currQueue]), s)
    /\ UNCHANGED pendSV
ScheduleFromISR(rs, qs, s) ==
  \E q \in ReadyQueue(rs) :
    /\ nextQueue' = q
    /\ IF q = currQueue
       THEN /\ state' = s
            /\ UNCHANGED <<pendSV, mode>>
       ELSE /\ MarkReady(IF currQueue = NULL THEN NULL
                         ELSE TopFromQueue(qs[currQueue]), s)
            /\ pendSV' = TRUE

tickHandler ==
  /\ InterruptTaken
  /\ ScheduleFromISR(readySet, queues, state)
  /\ UNCHANGED <<readySet, noAct, queues, currQueue, lockVars, ctxVars>>

(* A category 2 handler that calls ActivateTask.                           *)
IsrActivateTask(t) ==
  /\ InterruptTaken
  /\ WithinLimit(t)
  /\ Activate(t)
  /\ ScheduleFromISR(readySet', queues', Activated(t))
  /\ InterruptSection
  /\ UNCHANGED <<currQueue, ctxVars>>

(* contextSwitchISR: the stack of osek_nextQueue becomes the stack of the  *)
(* core.  A queue without an initialised stack, or a word that is no       *)
(* queue, has no frame to return through.                                  *)
contextSwitchISR ==
  /\ mode = "run" /\ pendSV /\ ~masked
  /\ pendSV' = FALSE
  /\ IF nextQueue \in Prios /\ pc[nextQueue] # "nostack"
     THEN currQueue' = nextQueue /\ UNCHANGED mode
     ELSE mode' = "fault" /\ UNCHANGED currQueue
  /\ UNCHANGED <<osVars, nextQueue, lockVars, ctxVars>>

(* The HardFault handler loops forever.                                    *)
Halted == mode = "fault" /\ UNCHANGED vars
-----------------------------------------------------------------------------
Dispatcher(c) == \/ DispatchTask(c) \/ LeaveLoop(c) \/ ClearReadyBit(c)
                 \/ DispatcherReturns(c) \/ TaskReturns(c)

Body(c) == /\ pc[c] = "task"
           /\ \/ CallActivateTask(c) \/ CallSchedule(c) \/ CallTerminate(c)
              \/ CallChain(c) \/ CallShutdown(c)

Schedule(c) == \/ ScheduleRead(c) \/ ScheduleStore(c) \/ ScheduleCompare(c)
               \/ ScheduleMark(c) \/ SchedulePend(c)

Context(c) == Lock(c) \/ ActivateTask(c) \/ Schedule(c)

Thread(p) == \/ Dispatcher(p) \/ Body(p)
             \/ TerminateTask(p) \/ ChainContinues(p)
             \/ Context(p)

Startup == \/ MainActivate \/ StartOS \/ (\E p \in Prios : InitQueue(p))
           \/ InitReady \/ InitState \/ InitPush

Interrupt == \/ tickHandler \/ contextSwitchISR
             \/ \E t \in IsrTasks : IsrActivateTask(t)

Next == \/ Startup \/ Context(NULL)
        \/ \E p \in Prios : Thread(p)
        \/ Interrupt \/ Halted

Spec == Init /\ [][Next]_vars
=============================================================================
