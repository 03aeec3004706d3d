------------------------------- MODULE Stacks -------------------------------
(***************************************************************************)
(* The stacks of the priorities, word by word: the frame that initSP makes *)
(* up (osek.c:121-159), what functions, exceptions and the context switch  *)
(* of the Cortex-M4 port push and pop, and the registers that come back.   *)
(* There is one stack pointer: handlers run on the stack of the context    *)
(* they interrupt.  Which queue is next is the scheduler's business        *)
(* (OsekKernel); here it may be any.                                       *)
(*                                                                         *)
(* The registers are a sequence of 16 words, in the order in which a       *)
(* stopped context has them on its stack, from its sp upwards.             *)
(***************************************************************************)
EXTENDS Integers, Sequences

CONSTANTS
  Queues,        \* the used priorities
  Base,          \* Base[q]: the address of the array sp_q
  Size,          \* Size[q]: OS_PRIORITY_q_MAX_STACK_SIZE, in words
  Needs,         \* Needs[q]: bytes that q's tasks and handlers need at most
  HandlerWords,  \* words that a handler pushes beside the exception frame
  Memory,        \* the addresses of the words modelled
  MainSP,        \* sp of main() when it starts the OS
  NULL

ASSUME StacksAssumption ==
  /\ Queues \subseteq Nat /\ NULL \notin Queues
  /\ Base \in [Queues -> Nat] /\ Size \in [Queues -> Nat] /\ Needs \in [Queues -> Nat]
  /\ Memory \subseteq Nat /\ MainSP \in Nat
  /\ \A x \in Memory : x % 4 = 0
  /\ \A q \in Queues : /\ Base[q] % 4 = 0
                       /\ \A i \in 0 .. Size[q] - 1 : Base[q] + 4 * i \in Memory
  /\ HandlerWords \in Nat /\ HandlerWords % 2 = 0

VARIABLES
  mem,       \* the words of memory
  regs, sp,  \* the registers of the core
  spOf,      \* spOf[q]: Qq.sp
  made,      \* the queues for which initSP has been called
  currQueue, nextQueue, pendSV,   \* as in OsekKernel
  level      \* "thread", or where the context switch handler is

vars == <<mem, regs, sp, spOf, made, currQueue, nextQueue, pendSV, level>>

DISPATCHER == 4096
THUMB == 16777216            \* 1 << 24
DEADBEEF == -559038737
JUNK == -1                   \* a word or register of no further use

(* r4-r11, r0-r3, r12, lr, pc and xPSR with its Thumb bit.                 *)
InitialFrame == <<4, 5, 6, 7, 8, 9, 10, 11, 0, 1, 2, 3, 12, 14,
                  DISPATCHER, THUMB>>
Callee(r) == SubSeq(r, 1, 8)
Caller(r) == SubSeq(r, 9, 16)

(* The memory m after pushing the words ws on a stack at address a, and n  *)
(* words from a on.                                                        *)
Push(m, a, ws) == [x \in Memory |-> IF x \in a - 4 * Len(ws) .. a - 4
                                    THEN ws[(x - a) \div 4 + Len(ws) + 1]
                                    ELSE m[x]]
Words(m, a, n) == [i \in 1 .. n |-> m[a + 4 * (i - 1)]]

Junk(n) == [i \in 1 .. n |-> JUNK]
-----------------------------------------------------------------------------
(* initSP.  stkSize counts words, but is added to an address in bytes.     *)
Top(q) == ((Base[q] + Size[q]) \div 8) * 8
Limit(q) == ((Base[q] - 1) \div 8 + 1) * 8

(* Each Qq.sp is first the address of its array; main() executes.          *)
Init ==
  /\ mem = [x \in Memory |-> 0]
  /\ spOf = Base /\ made = {}
  /\ regs = Junk(16) /\ sp = MainSP
  /\ currQueue = NULL /\ nextQueue = NULL /\ pendSV = FALSE
  /\ level = "thread"

(* initQueue calls it for one queue after the other.                       *)
initSP(q) ==
  /\ q \notin made
  /\ mem' = [x \in Memory |-> IF x \in Limit(q) .. Top(q) - 68 THEN DEADBEEF
                              ELSE Push(mem, Top(q), InitialFrame)[x]]
  /\ spOf' = [spOf EXCEPT ![q] = Top(q) - 64]
  /\ made' = made \cup {q}
  /\ UNCHANGED <<regs, sp, currQueue, nextQueue, pendSV, level>>
-----------------------------------------------------------------------------
(* A context enters and leaves functions that save r4-r10 and lr, and work *)
(* with these and r0.  It keeps to what its queue is said to need, and so  *)
(* leaves room for what comes on top: the frames of the switch and of a    *)
(* handler that interrupts it.  The words it works with tell it, and how   *)
(* deep it is, from any other.                                             *)
PUSHED == <<1, 2, 3, 4, 5, 6, 7, 14>>
Working(q, n, r) == LET word == 1000 * q + n
                    IN [r EXCEPT ![1] = word, ![7] = word, ![9] = word,
                                 ![14] = DISPATCHER + n]
OnTop == 4 * (8 + 8 + HandlerWords)

Call(q) ==
  /\ level = "thread" /\ currQueue = q
  /\ Top(q) - sp + 4 * Len(PUSHED) + OnTop <= Needs[q]
  /\ mem' = Push(mem, sp, [i \in 1 .. Len(PUSHED) |-> regs[PUSHED[i]]])
  /\ sp' = sp - 4 * Len(PUSHED)
  /\ regs' = Working(q, Top(q) - sp, regs)
  /\ UNCHANGED <<spOf, made, currQueue, nextQueue, pendSV, level>>

Return(q) ==
  /\ level = "thread" /\ currQueue = q
  /\ sp < Top(q)
  /\ regs' = Words(mem, sp, 7) \o SubSeq(regs, 8, 13)
              \o Words(mem, sp + 28, 1) \o SubSeq(regs, 15, 16)
  /\ sp' = sp + 4 * Len(PUSHED)
  /\ UNCHANGED <<mem, spOf, made, currQueue, nextQueue, pendSV, level>>

(* Schedule(), by a task, by main() when InitOS is done, or from a handler:*)
(* the handler has come and gone, and left its words below sp.             *)
Schedule(q) == /\ made = Queues
               /\ nextQueue' = q /\ pendSV' = (q # currQueue \/ pendSV)

ScheduleTask(q) ==
  /\ level = "thread"
  /\ Schedule(q)
  /\ UNCHANGED <<mem, regs, sp, spOf, made, currQueue, level>>

tickHandler(q) ==
  /\ Schedule(q)
  /\ mem' = Push(mem, sp, Junk(HandlerWords) \o Caller(regs))
  /\ UNCHANGED <<regs, sp, spOf, made, currQueue, level>>
-----------------------------------------------------------------------------
(* contextSwitchISR: entered, up to CPSID; between CPSID and CPSIE; and    *)
(* from CPSIE to the exception return.  It works in r0-r2.                 *)
Enter ==
  /\ level = "thread" /\ pendSV
  /\ mem' = Push(mem, sp, Caller(regs))
  /\ sp' = sp - 32
  /\ regs' = Callee(regs) \o Junk(8)
  /\ pendSV' = FALSE
  /\ level' = "entered"
  /\ UNCHANGED <<spOf, made, currQueue, nextQueue>>

contextSwitchISR_NoStore ==
  /\ level = "entered"
  /\ mem' = IF currQueue = NULL THEN mem ELSE Push(mem, sp, Callee(regs))
  /\ sp' = spOf[nextQueue] + 32
  /\ regs' = Words(mem', spOf[nextQueue], 8) \o Junk(8)
  /\ currQueue' = nextQueue
  /\ level' = "switched"
  /\ UNCHANGED <<spOf, made, nextQueue, pendSV>>
contextSwitchISR ==
  /\ level = "entered"
  /\ IF currQueue = NULL
     THEN UNCHANGED <<mem, spOf>>
     ELSE /\ mem' = Push(mem, sp, Callee(regs))
          /\ spOf' = [spOf EXCEPT ![currQueue] = sp - 32]
  /\ sp' = spOf'[nextQueue] + 32
  /\ regs' = Words(mem', spOf'[nextQueue], 8) \o Junk(8)
  /\ currQueue' = nextQueue
  /\ level' = "switched"
  /\ UNCHANGED <<made, nextQueue, pendSV>>

ExceptionReturn ==
  /\ level = "switched"
  /\ regs' = Callee(regs) \o Words(mem, sp, 8)
  /\ sp' = sp + 32
  /\ level' = "thread"
  /\ UNCHANGED <<mem, spOf, made, currQueue, nextQueue, pendSV>>

Next == \/ \E q \in Queues : \/ initSP(q) \/ Call(q) \/ Return(q)
                             \/ ScheduleTask(q) \/ tickHandler(q)
        \/ Enter \/ contextSwitchISR \/ ExceptionReturn

Spec == Init /\ [][Next]_vars
-----------------------------------------------------------------------------
(* The registers and the words of queue q, wherever they are; as initSP    *)
(* will leave them, where it is still to come.                             *)
RegsOf(q) ==
  IF q \notin made THEN InitialFrame
  ELSE IF q # currQueue THEN Words(mem, spOf[q], 16)
  ELSE IF level = "thread" THEN regs
  ELSE Callee(regs) \o Words(mem, sp, 8)
StackTop(q) ==
  IF q \notin made THEN Top(q)
  ELSE IF q # currQueue THEN spOf[q] + 64
  ELSE IF level = "thread" THEN sp ELSE sp + 32
StackOf(q) == Words(mem, StackTop(q), (Top(q) - StackTop(q)) \div 4)

Private == INSTANCE Coroutines WITH regs <- [q \in Queues |-> RegsOf(q)],
                                    stack <- [q \in Queues |-> StackOf(q)],
                                    running <- currQueue

(* Every context finds the registers and the stack that it left, the first *)
(* time those of initSP, whatever ran in between on its stack and on       *)
(* others (contextSwitchISR and the frame of osek.c:131-147).              *)
KeepsContexts == Private!Spec

(* osek_config.h gives each queue the "maximum stack needed" (README.md:5).*)
(* So as long as a queue needs no more than its array has, all that is     *)
(* written while it runs, by its functions, by handlers and by the switch, *)
(* lies in its own array; before, only its initSP writes there.            *)
Array(q) == Base[q] .. Base[q] + 4 * Size[q] - 4
Owners == IF currQueue = NULL THEN made' \ made ELSE {currQueue}
StaysInStack == [][\A x \in Memory : mem'[x] # mem[x] =>
                      {q \in Queues : x \in Array(q)} = Owners]_vars
=============================================================================
