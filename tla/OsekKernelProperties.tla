----------------------- MODULE OsekKernelProperties -----------------------
(***************************************************************************)
(* What the kernel promises: properties of OsekKernel, for the runs of     *)
(* TLC.  The first group holds; the second states what the sources say of  *)
(* themselves and the code does not do.                                    *)
(***************************************************************************)
EXTENDS OsekKernel, Sequences

Schedulers == {"read", "store", "compare", "mark", "pend"}
CriticalSections == {"actCS", "termCS", "drainCS", "initCS"}
Labels == Schedulers \cup CriticalSections \cup
          {"main", "initQueue", "initState", "initLock", "nostack", "loop",
           "task", "act", "term", "chain", "taskEnd", "drain", "exit", "lost",
           "shutdown"}

(* Context c is between taking a task from its queue (osek.c:103) and      *)
(* popping it (osek.c:259).                                                *)
Serving(c) == \/ pc[c] \in {"task", "term", "termCS", "shutdown"}
              \/ ret[c] = "task"

(* Context c has cleared its ready bit and is in, or past, the last        *)
(* Schedule() of dispatcher(): nothing makes it look at its queue again.   *)
Drained(c) == pc[c] = "exit" \/ ret[c] = "exit"

(* A drained context has been given work again.  From then on the kernel   *)
(* is past what its authors can have intended: every switch to that        *)
(* context ends in a fault, and until then a ready priority goes unserved. *)
Exhausted == \E p \in Prios : Drained(p) /\ TopFromQueue(queues[p]) # NULL

(* A lower context was switched away from between ActivateTask's section   *)
(* for a task of priority p and its Schedule().  A handler in the window   *)
(* of the section had asked for the switch; the section held it back, and  *)
(* made p ready when the handler had chosen (osek.c:218-225).              *)
CutOff(p) ==
  \E c \in Prios : /\ currQueue # NULL /\ c < currQueue
                   /\ pc[c] = "read" /\ ret[c] \in {"task", "taskEnd"}
                   /\ arg[c] # NULL /\ TaskPrio[arg[c]] = p

(* A context was switched away from in the window between counting and     *)
(* masking (osek.c:461-462).  Its count keeps interrupts masked behind the *)
(* next section of whoever executes, and a pending switch waits.           *)
Exported == \E c \in Contexts : c # currQueue /\ pc[c] \in CriticalSections

NumQueued(t) == LET q == queues[TaskPrio[t]]
                IN Cardinality({i \in 1 .. q.queue_size : Contents(q)[i] = t})
-----------------------------------------------------------------------------
(* The types of the variables.                                             *)
TypeOK ==
  /\ readySet \subseteq Prios
  /\ state \in [Tasks -> {"SUSPENDED", "READY", "RUNNING"}]
  /\ noAct \in [Tasks -> 0 .. Uint8Max]
  /\ DOMAIN queues = Prios
  /\ \A p \in Prios : queues[p] \in QueueType(Tasks \cup {NULL}, QSize[p])
  /\ currQueue \in Contexts
  /\ nextQueue \in Contexts \cup {WILD}
  /\ pendSV \in BOOLEAN /\ masked \in BOOLEAN /\ disableCount \in 0 .. Uint8Max
  /\ pc \in [Contexts -> Labels]
  /\ ret \in [Contexts -> {"none", "loop", "task", "taskEnd", "chain",
                           "exit", "main", "lost", "shutdown"}]
  /\ arg \in [Contexts -> Tasks \cup {NULL}]
  /\ cand \in [Contexts -> Contexts \cup {WILD}]
  /\ run \in [Contexts -> Tasks \cup {NULL}]
  /\ mode \in {"run", "fault"}

(* TerminateTask pops whatever is at the head of the current queue and     *)
(* takes it for the caller (osek.c:259): however tasks and handlers        *)
(* interleave, the head is the task that the dispatcher called.            *)
ServedIsHead ==
  \A p \in Prios : Serving(p) => /\ run[p] # NULL
                                 /\ TopFromQueue(queues[p]) = run[p]

(* A task is SUSPENDED exactly when no activation of it is counted, and    *)
(* the count covers all its queued activations, so that a task with work   *)
(* left never becomes SUSPENDED (osek.c:260-268).  Not so for idle, whose  *)
(* first activation InitOS does not count (osek.c:183-185).                *)
NoActCoversQueue ==
  \A t \in Tasks \ {idle} : /\ noAct[t] >= NumQueued(t)
                            /\ (state[t] = "SUSPENDED") <=> (noAct[t] = 0)

(* A ready bit without a task to run is about to be cleared: its context   *)
(* will return to the head of the dispatcher's loop (osek.c:103-112).      *)
ReadyBitJustified ==
  \A p \in readySet :
    TopFromQueue(queues[p]) # NULL \/ ~Drained(p)

(* The drain window (osek.c:103-112) is the only way to lose an            *)
(* activation: a task that is queued while its ready bit is clear sits in  *)
(* the queue of a context that has passed that window.                     *)
LostOnlyByDrain ==
  \A p \in Prios :
    (TopFromQueue(queues[p]) # NULL /\ p \notin readySet) => Drained(p)

(* Contexts nest: above the executing priority no context is stopped in    *)
(* the middle of a task.  Preemption never leaves a higher-priority task   *)
(* half done (osek.c:339-351 and the context switch).                      *)
ProperlyNested ==
  \A p \in Prios : (~Exhausted /\ currQueue # NULL /\ p > currQueue)
                     => pc[p] \in {"nostack", "loop"} \/ Drained(p)

(* While a lower priority executes, a ready higher one is already on its   *)
(* way: the switch is pending, or the executing context is itself in       *)
(* Schedule() and will ask for it (osek.c:342-348).  The only other way is *)
(* that the context that would have asked for it was cut off.              *)
NoMissedPreemption ==
  \A p \in readySet :
    (mode = "run" /\ ~Exhausted /\ currQueue # NULL /\ p > currQueue) =>
      pendSV \/ pc[currQueue] \in Schedulers \/ CutOff(p)

(* At most one task is RUNNING, and it is the one whose body the core      *)
(* executes: Schedule() has made every preempted task READY (osek.c:347).  *)
(* GetTaskID, wherever a body calls it, names no other (osek.c:370-380).   *)
RunningIsExecuting ==
  /\ \A t \in Tasks : state[t] = "RUNNING" =>
       currQueue = TaskPrio[t] /\ run[currQueue] = t
  /\ \A p \in Prios : (Executes(p) /\ pc[p] = "task") =>
       GetTaskID \in {run[p], "INVALID_TASK"}

(* No path through handlers and context switches loses or adds a count:    *)
(* the nesting counter is the number of contexts in a critical section.    *)
(* Interrupts are masked only where one holds them so: the executing one,  *)
(* or one that a switch has taken the processor from in the window between *)
(* counting and masking (osek.c:426-463).  The latter may hold them for    *)
(* good: see InterruptsRestored.                                           *)
MaskDiscipline ==
  /\ disableCount = Cardinality({c \in Contexts : pc[c] \in CriticalSections})
  /\ masked => pc[currQueue] \in CriticalSections \/ Exported

(* The core does not change context while the nesting counter is up, so    *)
(* that the window between counting and masking (osek.c:461-462) exports a *)
(* count to another task only when a preemption has been missed.           *)
SwitchOnlyUnlocked ==
  [][currQueue' # currQueue =>
       disableCount = 0 \/ Exhausted \/ CutOff(currQueue')]_vars

(* Control never comes back to StartOS: "the following code should never   *)
(* execute" (osek.c:675).                                                  *)
StartOSKeepsControl == ~(Executes(NULL) /\ pc[NULL] = "lost")

(* Schedule() always finds a queue: the ready set is never empty when it   *)
(* looks (osek.c:342).  Idle, which chains to itself, is never refused and *)
(* never lost, though between its termination and its activation its queue *)
(* is empty (osek.c:312-317).  Only for a configuration without gaps, and  *)
(* with no interrupts before InitOS.                                       *)
ScheduleFindsQueue == nextQueue # WILD

(* ShutdownOS does not return and nothing of its own or a lower priority   *)
(* executes again, though its loop leaves interrupts enabled and handlers  *)
(* go on activating tasks and calling Schedule() (osek.c:706-712).         *)
ShutdownIsFinal ==
  [][\A p \in Prios : (pc[p] = "shutdown" /\ ~Exhausted) =>
       pc'[p] = "shutdown" /\ currQueue' >= p]_vars

(* What the activations are worth: per priority they are served first come *)
(* first served, each at most once, one at a time, by strict priority but  *)
(* for those that are late, and for one busy period.                       *)
Scheduler == INSTANCE PriorityScheduler
               WITH pending <- [p \in Prios |-> Contents(queues[p])],
                    serving <- [p \in Prios |-> IF Serving(p) THEN run[p]
                                                             ELSE NULL],
                    retired <- {p \in Prios : Drained(p)},
                    late <- {p \in Prios : /\ currQueue # NULL /\ p > currQueue
                                          /\ (CutOff(p) \/ Exported)}

(* The kernel implements that scheduler: each critical section and each    *)
(* turn of the dispatcher's loop is one of its actions, the rest stutters  *)
(* (osek.c:99-115, 211-227, 255-272).                                      *)
ImplementsScheduler == Scheduler!Spec
-----------------------------------------------------------------------------
(***************************************************************************)
(* Promises of the documentation and the comments that the code breaks.    *)
(***************************************************************************)
(* "Each bit corresponds to a Priority which activates correspond Queue"   *)
(* (osek.c:14): a task in a queue has its ready bit set.                   *)
ReadyBitCoversQueue ==
  \A p \in Prios : TopFromQueue(queues[p]) # NULL => p \in readySet

(* "The operating system ensures that the task code is being executed from *)
(* the first statement" (osek.c:194-195): no activation ends in a fault.   *)
ActivationNeverFaults == mode # "fault"

(* Schedule: if a higher-priority task is ready it is executed, "Otherwise *)
(* the calling task is continued" (osek.c:321-324).  A context is switched *)
(* to only if its priority is ready.                                       *)
SwitchesToReady ==
  [][(currQueue' # currQueue) => currQueue' \in readySet]_vars

(* EnableAllInterrupts "restores the state saved by DisableAllInterrupts"  *)
(* (osek.c:411): behind it interrupts are enabled, as they were before.    *)
(* Stated short of the states in which a drained priority has work.        *)
InterruptsRestored ==
  (mode = "run" /\ masked /\ ~Exhausted) => pc[currQueue] \in CriticalSections
=============================================================================
