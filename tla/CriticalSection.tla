-------------------------- MODULE CriticalSection --------------------------
(***************************************************************************)
(* The critical sections of ActivateTask, TerminateTask and dispatcher(),  *)
(* in smaller steps than in OsekKernel, to show when they are indivisible. *)
(* DisableAllInterrupts and EnableAllInterrupts are all that protects the  *)
(* ready set, the counters and the queues (osek.c:40-41, 218); each is     *)
(* changed by loading a word, computing and storing it back.  Here the     *)
(* loads of a section are one step and its stores another.                 *)
(*                                                                         *)
(* The callers are levels of one core: contexts by priority, and above     *)
(* them the interrupt handlers.  A higher level preempts a lower one       *)
(* between any two steps unless interrupts are masked, and is done with    *)
(* its call before the lower one goes on.  Masking says whether the port   *)
(* implements DisableAllInterrupts_uC: that is its documented meaning      *)
(* (osek_port.c:55), while the body is empty, in the Cortex-M4 port too.   *)
(***************************************************************************)
EXTENDS OsekQueue, FiniteSets

CONSTANTS
  Levels,      \* the callers, by increasing priority
  Prios,       \* the queues
  QSize,       \* QSize[p]: the size of queue p
  Tasks,
  TaskPrio,    \* TaskPrio[t]: the queue of t
  Activates,   \* Activates[c]: the tasks that c activates
  Serves,      \* Serves[c]: the queue c is the dispatcher of, NULL if none
  Masking,     \* DisableAllInterrupts_uC masks interrupts
  ActLimit     \* bound: no activation once noAct has reached it

ASSUME LevelAssumption == Levels \subseteq Nat
ASSUME SectionAssumption ==
  /\ TaskPrio \in [Tasks -> Prios]
  /\ QSize \in [Prios -> Nat \ {0}]
  /\ Activates \in [Levels -> SUBSET Tasks]
  /\ Serves \in [Levels -> Prios \cup {NULL}]
  /\ Masking \in BOOLEAN
  /\ NULL \notin Prios \cup Tasks

VARIABLES
  readySet, noAct, queues,   \* as in the kernel
  disableCount, masked,      \* as in the kernel
  pc,       \* pc[c]: where c is in its call, "out" of any, or "in" between
            \* two calls with interrupts masked
  op,       \* op[c]: the call, and the task or priority it is about
  reg,      \* reg[c]: the words c has loaded
  refused   \* refused[t]: activations of t that returned E_OS_LIMIT

data == <<readySet, noAct, queues, refused>>
lock == <<disableCount, masked>>
vars == <<data, lock, pc, op, reg>>

Steps == {"out", "in", "count", "counted", "mask", "load", "store",
          "uncount", "uncounted", "unmask"}

Init ==
  /\ readySet = {}
  /\ noAct = [t \in Tasks |-> 0]
  /\ queues = [p \in Prios |-> NewQueue(QSize[p])]
  /\ disableCount = 0 /\ masked = FALSE
  /\ pc = [c \in Levels |-> "out"]
  /\ op = [c \in Levels |-> NULL]
  /\ reg = [c \in Levels |-> NULL]
  /\ refused = [t \in Tasks |-> 0]

(* Level c has the core when nothing above it is active.                   *)
Runs(c) == \A d \in Levels : d > c => pc[d] = "out"

Goto(c, from, to) == /\ Runs(c)
                     /\ pc[c] = from
                     /\ pc' = [pc EXCEPT ![c] = to]

(* Level c makes a call, perhaps in the middle of one of a lower level; or *)
(* another call, after one that has left interrupts masked.                *)
Call(c, call) ==
  /\ \/ Goto(c, "out", "count") /\ ~masked
     \/ Goto(c, "in", "count")
  /\ op' = [op EXCEPT ![c] = call]
  /\ UNCHANGED <<data, lock, reg>>

Return(c) == /\ Goto(c, "in", "out")
             /\ UNCHANGED <<data, lock, op, reg>>

(* A dispatcher ends the task at the head of its queue, or finds the queue *)
(* empty and clears its ready bit.                                         *)
Calls(c) ==
  \/ \E t \in Activates[c] : /\ noAct[t] < ActLimit
                             /\ Call(c, <<"activate", t>>)
  \/ /\ Serves[c] # NULL
     /\ Call(c, <<IF TopFromQueue(queues[Serves[c]]) # NULL
                  THEN "terminate" ELSE "drain", Serves[c]>>)
-----------------------------------------------------------------------------
(***************************************************************************)
(* DisableAllInterrupts and EnableAllInterrupts.                           *)
(***************************************************************************)
LoadCount(c) ==
  /\ \/ Goto(c, "count", "counted")
     \/ Goto(c, "uncount", "uncounted")
  /\ reg' = [reg EXCEPT ![c] = disableCount]
  /\ UNCHANGED <<data, lock, op>>

StoreCount(c) ==
  /\ \/ Goto(c, "counted", "mask") /\ disableCount' = Uint8Inc(reg[c])
     \/ Goto(c, "uncounted", "unmask") /\ disableCount' = Uint8Dec(reg[c])
  /\ reg' = [reg EXCEPT ![c] = NULL]
  /\ UNCHANGED <<data, masked, op>>

Mask_FirstOnly(c) ==
  /\ Goto(c, "mask", "load")
  /\ masked' = (masked \/ (Masking /\ disableCount = 1))
  /\ UNCHANGED <<data, disableCount, op, reg>>
Mask(c) ==
  /\ Goto(c, "mask", "load")
  /\ masked' = Masking
  /\ UNCHANGED <<data, disableCount, op, reg>>

Unmask_NoReset(c) ==
  /\ masked' = (masked /\ disableCount = 0)
  /\ Goto(c, "unmask", IF masked' THEN "in" ELSE "out")
  /\ op' = [op EXCEPT ![c] = NULL]
  /\ UNCHANGED <<data, disableCount, reg>>
Unmask(c) ==
  /\ masked' = (masked /\ disableCount # 0)
  /\ Goto(c, "unmask", IF masked' THEN "in" ELSE "out")
  /\ op' = [op EXCEPT ![c] = NULL]
  /\ UNCHANGED <<data, disableCount, reg>>
-----------------------------------------------------------------------------
(***************************************************************************)
(* The body of the section.                                                *)
(***************************************************************************)
LoadWords(c) ==
  /\ Goto(c, "load", "store")
  /\ reg' = [reg EXCEPT ![c] = [ready |-> readySet, count |-> noAct,
                                queue |-> queues]]
  /\ UNCHANGED <<data, lock, op>>

StoreActivation(t, r) ==
  LET p == TaskPrio[t]
      full == IsFull(r.queue[p])
  IN /\ readySet' = r.ready \cup {p}
     /\ noAct' = [noAct EXCEPT ![t] = Uint8Inc(r.count[t])]
     /\ queues' = [queues EXCEPT ![p] = IF full THEN @
                                        ELSE Pushed(r.queue[p], t)]
     /\ refused' = [refused EXCEPT ![t] = IF full THEN @ + 1 ELSE @]

StoreTermination(p, r) ==
  LET task == TopFromQueue(r.queue[p])
  IN /\ queues' = [queues EXCEPT ![p] = PopFromQueue(r.queue[p])]
     /\ noAct' = [noAct EXCEPT ![task] = Uint8Dec(r.count[task])]
     /\ UNCHANGED <<readySet, refused>>

StoreDrain(p, r) == /\ readySet' = r.ready \ {p}
                    /\ UNCHANGED <<noAct, queues, refused>>

StoreWords(c) ==
  /\ Goto(c, "store", "uncount")
  /\ LET what == op[c][2]
     IN CASE op[c][1] = "activate"  -> StoreActivation(what, reg[c])
          [] op[c][1] = "terminate" -> StoreTermination(what, reg[c])
          [] op[c][1] = "drain"     -> StoreDrain(what, reg[c])
  /\ reg' = [reg EXCEPT ![c] = NULL]
  /\ UNCHANGED <<lock, op>>

Next == \E c \in Levels : \/ Calls(c) \/ Return(c) \/ LoadCount(c) \/ StoreCount(c)
                          \/ Mask(c) \/ Unmask(c)
                          \/ LoadWords(c) \/ StoreWords(c)

Spec == Init /\ [][Next]_vars
-----------------------------------------------------------------------------
Inside(c) == pc[c] \in {"load", "store"}
Quiet == \A c \in Levels : pc[c] = "out"
NumQueued(t) == LET q == queues[TaskPrio[t]]
                IN Cardinality({i \in 1 .. q.queue_size : Contents(q)[i] = t})

(* The types of the variables the callers share, and of control.           *)
TypeOK ==
  /\ readySet \subseteq Prios
  /\ noAct \in [Tasks -> 0 .. Uint8Max]
  /\ \A p \in Prios : queues[p] \in QueueType(Tasks \cup {NULL}, QSize[p])
  /\ disableCount \in 0 .. Uint8Max
  /\ masked \in BOOLEAN
  /\ pc \in [Levels -> Steps]

(* Two levels are never inside their sections at the same time: what the   *)
(* step of OsekKernel for a whole section rests on (osek.c:41, 218).       *)
MutualExclusion == \A c, d \in Levels : Inside(c) /\ Inside(d) => c = d

(* No activation is lost: when no call is in progress, every activation    *)
(* counted is queued or was refused, whoever preempted whom while they     *)
(* were made (osek.c:218-224, 258-269).                                    *)
NothingLost ==
  Quiet => \A t \in Tasks : noAct[t] = NumQueued(t) + refused[t]

(* However loads and stores of different levels interleave, the data       *)
(* change only by whole services, each from the words it loaded last       *)
(* (osek.c:112, 219-223, 259-268); TerminateTask finds a task to end.      *)
Whole == INSTANCE AtomicServices
           WITH fifo <- [p \in Prios |-> Contents(queues[p])]
ServicesAreWhole == Whole!Spec

(* When no call is in progress the count is back to zero and interrupts    *)
(* are enabled, however the windows between counting and masking nested    *)
(* (osek.c:426-463).                                                       *)
LockReleased == Quiet => disableCount = 0 /\ ~masked
=============================================================================
