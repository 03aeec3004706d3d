# lwosek in TLA+

Specifications of lwosek, a small OSEK operating system kernel in C, the TLC
configurations that check them on small instances, and theorems about them with
proofs checked by TLAPS. In the repository the kernel is `src/osek.c` ("osek.c:112"
is a line of it) and the files beside it, with a port for the Cortex-M4 in
`port/ARM/CM4/armcc`; "README.md:39" is a line of the repository's README.

## The system

An application declares tasks, each with a fixed priority, and a queue length
and a stack size for each priority in use. There is **one stack per priority**,
not per task. `dispatcher()` runs on each stack and calls, one after the other,
the tasks in that priority's queue. Tasks never block; they end by
`TerminateTask` or `ChainTask`, which return into the task body and from there to
the dispatcher (README.md:39). A higher priority preempts a lower one by a
switch of stacks in the lowest-priority interrupt (PendSV).

| Component | State | Operations | Interacts through |
| --- | --- | --- | --- |
| Task queue (`osek_queue.h`, `osek_queue.c`, osek.c:35-92) | a ring of `Task_t*`: `head`, `tail` (int8), `queue_size`, `max_queue_Size` (uint8) | `pushToQueue`, `popFromQueue`, `topFromQueue` | called inside the services' critical sections, and read outside of them by the dispatcher and `Schedule` |
| Dispatcher (osek.c:99-115) | its stack; local `oq`, `taskStruct` | the loop over the queue, clearing of the ready bit, a last `Schedule()` | `osek_readySet`, `tasks[].state`, calls task bodies |
| Task services (osek.c:211-406) | `osek_readySet`, `tasks[].noAct`, `tasks[].state` | `ActivateTask`, `TerminateTask`, `ChainTask`, `GetTaskID`, `GetTaskState` | called by task bodies and category 2 handlers; call `Schedule` |
| Scheduler and switch (osek.c:339-351; the port) | `osek_currQueue`, `osek_nextQueue`, the PendSV pending bit | `Schedule`, `activateCSInt`, `contextSwitchISR`, `tickHandler` | shared variables between `Schedule` at task level, at interrupt level, and the switch |
| Critical sections (osek.c:426-463; the port) | `DisableAllInterrupts_count`, the interrupt mask | `DisableAllInterrupts`, `EnableAllInterrupts` | protect the ready set, the counters and the queues |
| Suspend/resume services (osek.c:490-585) | two more counters; what the port saves | four services | the same interrupts as the critical sections |
| Start-up and shut-down (osek.c:121-188, 670-712; `example/main.c`) | initial stack frames, each queue's `sp` | `initSP`, `initQueue`, `InitOS`, `StartOS`, `ShutdownOS` | activations by `main()`, first push of the idle task, first `Schedule()`; the frames are what `contextSwitchISR` restores |
| Configuration (`osek_config.h`, the `_def.h` files) | - | macros that expand into queues, stacks and tasks | sizes and priorities of everything above |
| Port template (`osek_port.c`), hooks | - | empty functions | their comments say what the kernel expects |
| Example application (`example/`) | - | `main()`, idle | `ActivateTask` and `StartOS` |
| Vendored code (`port/3rd_party`) | - | - | none |

What is hard here is the interleaving. A context can be interrupted at any
instruction that is not in a critical section: by a tick, which calls
`Schedule()`; by a category 2 handler, which calls `ActivateTask()`; and then
by the context switch. `Schedule()` reads and writes shared variables without
protection, the dispatcher looks at its queue without protection, and the
critical sections are opened in two instructions (count, then mask). Each
priority's context keeps where it stopped, and resumes with what it had read.

What makes each component correct:

- *queue*: it is a FIFO of its configured size; indices stay inside the array;
- *dispatcher*: every queued activation is run once, in order; a ready bit is
  set exactly over work to do;
- *services*: a task that ends is the one that is popped; counters and states
  agree with the queues; an activation that is refused has no effect;
- *scheduler*: the highest ready priority runs; contexts nest; control never
  returns to `StartOS`; a switch goes to a stack that can be resumed;
- *critical sections*: mutual exclusion, nothing lost, services that are one
  step each, and the mask and the counter balanced;
- *suspend/resume*: what a section keeps out stays out while any other section
  opens and closes; everything is enabled again at the end;
- *stacks*: each queue has the stack that it was configured with and stays in it, and
  a context finds its registers and its stack as it left them;
- *start-up and shut-down*: nothing is lost to an early interrupt, control comes
  back neither to `main()` nor from `ShutdownOS`;
- *all together*: an activation is eventually served.

`PROJECT.json` lists, under `hazards`, the lines at which these are at risk.

## The modules

| Module | What it is |
| --- | --- |
| `OsekQueue` | the queue as a record and its three functions as operators, with the widths of the C types |
| `TaskQueue` | one queue, pushed to and popped from in any order; its properties |
| `BoundedFifo` | abstract: what a queue promises |
| `OsekKernel` | the kernel on one core: contexts, bodies, services, scheduler, interrupts |
| `OsekKernelProperties` | the kernel's properties, those that hold and those that the sources state and the code breaks |
| `PriorityScheduler` | abstract: what the kernel promises its tasks |
| `OsekKernelLiveness` | the fairness of the core and of task bodies, and what must eventually happen under it |
| `CriticalSection` | the critical sections in smaller steps, with nested interruption, for a port that masks and one that does not |
| `AtomicServices` | abstract: the services as one step each on the kernel's data |
| `InterruptServices` | the three pairs of services over the one interrupt status of the core |
| `Stacks` | the stacks word by word: `initSP`, calls, handlers, the context switch |
| `Coroutines` | abstract: what stacks and the switch are for |
| `OsekQueueProofs` | lemmas: what the queue's operations do to its contents |
| `TaskQueueProofs`, `CriticalSectionProofs`, `InterruptServicesProofs` | the theorems about the modules of these names |
| `OsekKernelProofs` | theorems about the kernel: types, queues, ready bits, the nesting counter, the RUNNING task, the count of activations |
| `OsekKernelOrderProofs` | ... the order of priorities: nesting, preemption, start-up and shut-down |
| `OsekSchedulerProofs` | ... the refinement of `PriorityScheduler`; `Schedule()` finds a queue |
| `StacksProofs` | the refinement of `Coroutines` by `Stacks` |
| `MCTaskQueue`, `MCOsekKernel`, `MCOsekSmall`, `MCCriticalSection`, `MCInterruptServices`, `MCStacks` | instances for TLC |

`OsekKernel` and `CriticalSection` EXTEND `OsekQueue`; `TaskQueue`,
`OsekKernelProperties`, `CriticalSection` and `Stacks` INSTANCE the abstract
specifications under a refinement mapping. The kernel is looked at in three
grains. `OsekKernel` takes a critical section as one step, and `CriticalSection`
shows, by refinement and by proof, that it is one if the port masks. It takes a
context as a program counter that survives a switch, and `Stacks` shows that
registers and stacks do.

### OsekKernel and the code

| Variable | Code |
| --- | --- |
| `readySet` | `osek_readySet`, the set of priorities whose bit is set |
| `state`, `noAct` | `tasks[t].state`, `tasks[t].noAct` (wraps at 2·Int8Max+1) |
| `queues` | the `Qp` |
| `currQueue`, `nextQueue` | `osek_currQueue`, `osek_nextQueue`; a queue is named by its priority, `NULL` is NULL, `WILD` a word read outside `osek_queues` |
| `pendSV` | the pending bit of the context switch interrupt |
| `masked`, `disableCount` | the global interrupt mask, `DisableAllInterrupts_count` |
| `pc`, `ret`, `arg`, `cand`, `run` | per stack: the program counter, the return address of the `Schedule()` or `TerminateTask()` call it is in, the argument of `ActivateTask`, the queue `Schedule()` has read but not stored, and the dispatcher's `taskStruct` |
| `mode` | "fault" after a HardFault |

The labels of `pc` are: `loop` (osek.c:103), `task` (inside `taskStruct->task()`),
`act`/`actCS` and `term`/`termCS` (before counting, and before masking, in
`ActivateTask` and `TerminateTask`), `chain` (osek.c:316), `taskEnd` (osek.c:107,
returning), `drain`/`drainCS` (osek.c:111), `read`, `store` (the two halves of
osek.c:342), `compare` (345), `mark` (347), `pend` (348), `exit` (osek.c:115),
`nostack` (before `initSP`) and `shutdown`; and, in the context of `main()`, which
has the name `NULL`: `main` (`example/main.c:12-15`), `initQueue` (osek.c:168-171,
one queue per step, then 183), `initState` (184 and the test for room of 185),
`initLock`/`initCS` (before counting, and before masking, in the push of 185) and
`lost` (675).

A step ends wherever an interrupt can change what follows. A critical section is
one step, which is the step that masks; counting is a step before it. A handler
is one step, as handlers share one interrupt level above the switch's
(`osek_port.c:17-22`). A task body is any sequence of calls from
`MayActivate`, `Schedule()`, and one of `MayTerminate`, `MayChain` or
`MayShutdown` at the end; the body of idle is `ChainTask(ID_idle)`
(`osek_task.c:5-12`). A context steps only when no interrupt that the core would
take first is pending (`Executes`). `main()` activates any of `MainActivates` before
`StartOS`, and `EarlyInterrupts` says whether handlers come before the first task
runs. If they do, their first `Schedule()` pends the switch and `main()` is never
resumed, except from the window of a critical section, which holds the switch
back; so the rest of start-up may never happen.

What has no defined outcome in C is a choice: a word read beyond `osek_queues`
is `WILD`, a write through NULL (osek.c:347 with an empty queue, and before the
first switch, when `osek_currQueue` itself is NULL) is ignored or faults
(`NullWrites`). Resuming through a word that is no queue faults.

### The other modules and the code

`OsekQueue` has one operator per function and keeps the static initialiser, the
full and wrap-around tests and the integer widths of `OsekQueue_t`; `Int8Max` is
127 on the target. `TaskQueue` adds the allocated size and the last result.
`CriticalSection` has the ready set, the counters and the queues of the kernel,
and for each nesting level the step it is at: raising the count (a load and a
store), masking, loading the shared words, storing them, lowering the count (a
load and a store), unmasking. A level above the running one may begin a call
between any two of these steps unless the mask is set, and ends it first, as
an interrupt or a preempting task does. If it came in the window of a lower level, its
call leaves interrupts masked, and it may make more of them so (`in`) before it returns. `refused` remembers the activations that
found the queue full. In `AtomicServices` there are only the ready set, the counts
and the contents of the queues, and the store of a section is its only step.
`PriorityScheduler` has, per priority, the queue, the task
in service, whether the dispatcher is past its loop, and whether the priority is
late, that is, has been given work by a task that could not ask for the processor;
in the refinement these are the queue's contents, the dispatcher's `taskStruct` from
the call of the task to its pop, `Drained`, and `CutOff` or `Exported`.

`InterruptServices` has the three counters, and for each caller (a task, category
2 handlers, category 1 handlers above them) the sections it has open. A call is two steps, the
count and the port's function; a handler is entered between any two steps if its
category is enabled. The port's functions are empty in the repository, and are modelled
as the comments of `osek_port.c:44-87` describe them: there is one status; Suspend saves
it, in a word for each of the two pairs, and disables on top of it; Resume restores what
was saved last; `DisableAllInterrupts` and `EnableAllInterrupts` disable and enable
globally. Suspend saves what it finds at every level, so nesting spoils what is saved,
which is what `nested_suspend` shows; that no section is opened by it all the same is
`Protected`. The one call that does open a section of another is in `opened`:
`SuspendOSInterrupts` lets handlers of category 1 in, these may call
`EnableAllInterrupts` (osek.c:409), and that enables category 2 too.

`Stacks` has memory as words, the core's registers and stack pointer, and each
queue's `sp`, which is first the address of its array. `initSP` keeps its arithmetic:
a size in words added to an address in bytes, the rounding of both ends, and the fill.
It is called for one queue after the other on the stack of `main()`, and handlers
call `Schedule()` when all are done (`made`); those that come earlier are a matter of
`OsekKernel`. The registers are in the order of
the frame. Functions, handlers and the switch push even numbers of words, as the
procedure call standard asks, on one stack pointer; the floating point registers
are not in use. The switch is three steps: the exception entry, what is between
CPSID and CPSIE, and the return; handlers fall between any two of them.
`Coroutines` has, for each queue, its registers and the words on its stack, and
steps only by a call, a return or a switch.

### Exhausted

Once a drained priority is activated again the kernel is past what it can serve
(see "What the code does not do"). Its dispatcher waits behind its last
`Schedule()` and, resumed there, either returns into a fault or bounces back with
a stale choice, and the order of priorities is gone. The predicate `Exhausted`
names these states. `ProperlyNested`, `NoMissedPreemption`,
`SwitchOnlyUnlocked`, `ShutdownIsFinal` and `ActivationsServed` (in `GivenUp`) are
stated outside of them; the others hold in them too.

### CutOff

A handler that comes between counting and masking (osek.c:461-462) may ask for a
switch, but its own `EnableAllInterrupts` finds the count up and leaves interrupts
masked: the switch waits for the end of the section. If the section is that of an
`ActivateTask` of a priority above the handler's choice, the switch goes to the
handler's choice all the same, because `Schedule()` comes only after the section. The
context that would have corrected it is cut off at its `Schedule()`, below a
priority that is not the highest ready one, until someone else calls `Schedule()`.
The predicate `CutOff` names the priorities to which this has happened: a lower context
stands before its `Schedule()` after an `ActivateTask`, itself or as the second half of
ChainTask, of a task of that priority, and the core executes a higher one.
`NoMissedPreemption`, `SwitchOnlyUnlocked` and `PriorityScheduler` except them.

Such a missed preemption is what it takes to leave a section open. A tick in the window
of another context finds the priority that was cut off, and its `Schedule()`, which
has no section, asks for a switch that comes at once, with the count up and
interrupts not yet masked. The section left behind keeps the count up, the next
section of whoever executes leaves interrupts masked, and later switches wait.
The predicate `Exported` says that there is such a context; `PriorityScheduler`
excepts every priority above the executing one in these states (`late`), and
`ActivationsServed` gives them up (`GivenUp`). Their effect on the order of priorities
takes four of them; on the instances below, with three, it does not show.
`interrupts_stay_disabled` shows the masked interrupts.

## The runs

| Run | Shows | Bounds | States |
| --- | --- | --- | --- |
| `task_queue` | queue implements `BoundedFifo`; count and indices agree | Int8Max = 3, every size 1..3: each index wraps, each size is filled | 1 thousand |
| `kernel` | nesting, no missed preemption outside `CutOff`, one RUNNING task, the nesting counter, `Schedule()` always finds a queue, `StartOS` never resumed; kernel implements `PriorityScheduler`; every activation is served | priorities 0..2, idle, two tasks sharing a queue of two, one above; handlers activate one of the two that share a queue, idle the other and the upper one: `CutOff` happens; `ActLimit` 1 | 146 thousand |
| `overload` | queue heads, counters, ready bits, shutdown | queue of one for two tasks, `ActLimit` 2, so pushes are refused; activations by `main()`, interrupts between any two steps of start-up, shutdown, both outcomes of a NULL write | 414 thousand |
| `critical_section` | mutual exclusion, nothing lost, lock released, implements `AtomicServices` | three nested levels, queues of two and one | 275 thousand |
| `stacks` | implements `Coroutines`, while each queue keeps to the quarter of its array that `initSP` leaves it | two queues with arrays next to each other, of which one is not aligned; a call, and a handler and a switch on top; start-up stack by stack | 13 thousand |
| `interrupt_services` | what a section keeps out stays out; no counter wraps | a task, a category 2 and a category 1 handler, three sections open in each | 69 thousand |

Three priorities are the least at which a switch can be overtaken by another
one; two tasks in a queue are the least for order; one tick or handler step
can fall between any two steps of a context, any number of times, because
handlers are bounded by `ActLimit` only in what they activate.
`ActLimit` bounds `noAct`: no `ActivateTask` call is made once the count has
reached it. `MaxDepth` bounds the sections a caller has open; two would be enough to nest one
pair in itself and not to nest another pair between. `Bytes` in `MCStacks.cfg`
is the most that fits a quarter of the smaller stack, so that its last word is used. TLC uses
`Int8Max` 127 except where the wrap is the subject.

### Fairness

Only `ActivationsServed` in the run `kernel` needs any. `FairSpec` asks two things. The
core keeps executing between handlers (weak fairness of `Core`, the disjunction of
all that is not a handler): a processor does, unless handlers take all of its
time. And the body of a task comes to its end, whatever services it calls before
(strong fairness of `BodyEnds`, strong because it is preempted any number of
times): README.md:39 says that it ends in `TerminateTask` or `ChainTask`. Nothing
is assumed of handlers or of their order, and nothing of single steps of
`Schedule()`.

Under these, a task that is queued is called by its dispatcher, provided that the
priorities above it are idle from some time on (`QuietAbove`), as strict priority
requires. It is not enough that they be idle again and again: a handler can
activate a higher priority at each turn, and keep the core in that dispatcher and
its `Schedule()` for ever. The exception is `GivenUp`: a drained priority that was
activated again, a section left open (`Exported`), a fault, or shutdown.

### What the code does not do

These runs each check one statement that a comment or the documentation makes of
the program, and TLC finds it violated; `PROJECT.json` (`findings`) quotes the
statement and the line.

| Run | In a sentence |
| --- | --- |
| `lost_activation` | an activation in the drain window (osek.c:103-112) stays queued with its ready bit clear |
| `second_busy_period` | a priority activated after it has drained ends in a fault |
| `stale_next_queue` | a handler's `osek_nextQueue` is overwritten by a stale choice, and the core goes to a priority that is not ready |
| `interrupts_stay_disabled` | a switch that a section held back goes to a choice the section has overtaken; a later one carries a raised count into another task, and interrupts stay disabled |
| `nested_suspend` | a port that saves the interrupt status, as the comments ask, saves at every level and restores once, so nesting leaves interrupts disabled |
| `stack_too_small` | `initSP` adds a number of words to an address in bytes (123), so a queue starts a quarter of the way up its array: with three nested calls and a handler, 160 of the 544 bytes it was given, it writes below it |

The models show more of this kind, for which no run is kept:

- with `Masking = FALSE` in `MCCriticalSection.cfg`, which is the port as it is,
  `MutualExclusion`, `NothingLost` and `ServicesAreWhole` are violated;
- with `MainActivates = {idle}` in `SecondBusyPeriod.cfg`, which is the example's
  `main()`, the core faults ten states after the start: `Schedule()` of that
  activation switches to a queue without a stack;
- with `top = 2` in `MCOsekSmall`, a priority left unused below a used one,
  `Schedule()` indexes past `osek_queues` (`ScheduleFindsQueue`);
- a tick before `InitOS` indexes `osek_queues` with -1 (342, 672);
- with `IsrTasks = {idle}` and `EarlyInterrupts`, a handler in the window of
  `InitOS`'s push fills the queue whose room has been tested, and the push
  overruns it (`TypeOK`);
- a refused activation is counted and makes the task READY (221-223), and enough
  of them wrap `noAct`;
- a task that was preempted is READY while it executes, and `GetTaskID` returns
  `INVALID_TASK` to it (347, 370-380);
- a task chaining to itself is SUSPENDED for a while (315 against 283-284), and
  `ChainTask` terminates its caller before it knows whether the successor is
  accepted (316 against 292);
- handlers go on activating tasks after `ShutdownOS`, and those of a higher
  priority than the caller's start (710 against 699);
- saving the status before the count goes up, or only at the first level, would
  not be enough for `nested_suspend`: a handler in the window between the two steps
  is itself the second level;
- an `EnableAllInterrupts` of a category 1 handler, within a section that
  `SuspendOSInterrupts` of a task has opened, enables category 2 in that section, with a
  port that enables "globally" (`osek_port.c:47`): the caller is in `opened`, and `Protected`
  excepts it;
- a queue of 128 or more overruns its int8_t index (44).

## What is proved

For every value of the constants that satisfies the modules' ASSUMEs:

- `TaskQueueProofs`: for every queue size up to the greatest int8_t (`SizesFit`),
  the types (`TypeCorrect`, and so the indices within the array), `RingConsistent`
  (`RingCorrect`), and `Refinement`, that the queue
  implements `BoundedFifo`. The invariant is that of types and `RingOK`. The
  lemmas of `OsekQueueProofs` say what each operation does to the contents: a
  push with room appends, a pop removes the head, the top is the head; and what
  it does to the number of copies of a task.
- `OsekKernelProofs`: with queue sizes that an int8_t can count (`QSizeFits`),
  and for any priorities, tasks, bodies and handlers, `TypeCorrect`,
  `TerminatesCaller` (`ServedIsHead`), `OnlyDrainLoses` (`LostOnlyByDrain`) and
  `BitsJustified` (`ReadyBitJustified`). The inductive invariant `IInv` adds to
  these `QueuesOK` (every queue is a well-formed ring that holds tasks, never
  NULL: else a push could leave the top NULL) and `Control` (to where the call a
  context is in can return: else nothing keeps a context that is past
  TerminateTask from being taken for one that still serves). It is preserved by
  one lemma per action; steps that leave queues and ready bits alone share
  `QuietStep`.
  With them are `CountIsSections` (`MaskDiscipline`), `RunsOne`
  (`RunningIsExecuting`) and `CountCoversQueue` (`NoActCoversQueue`). The counter needs
  no more priorities than a uint8_t counts contexts (`FewPriorities`); a ready bit is one
  of a word, so there are at most 32. `CountInv`, that the counter counts the contexts in a
  section and a mask has one of them, is inductive on `IInv`, with the lemmas that say
  which context a step moves and whether it enters or leaves a section; `CountCovers`
  draws `MaskDiscipline` from it.
  `RunInv` adds to `IInv` when a task is RUNNING: only in a context that serves it, and no
  longer when a switch away from it is pending or `Schedule()` is past 347. `CoverInv`
  adds to `NoActCoversQueue` that the count has room for the activations that have passed
  the test for the limit and are not counted yet (`Waiting`). It takes `ActivationsFit`,
  that the activations the applications make at once stay below 2·Int8Max+1: the code
  does not see to it, and a count that wraps makes a queued task SUSPENDED.
- `OsekKernelOrderProofs`: with priorities that have no gap (`NoGaps`, see above for
  what a gap does), `ContextsNest` (`ProperlyNested`), `PreemptionComes`
  (`NoMissedPreemption`), `StartOSNeverReturns` (`StartOSKeepsControl`), `ShutdownStays`
  (`ShutdownIsFinal`) and, with no interrupts before the first task,
  `SwitchesUnlocked` (`SwitchOnlyUnlocked`). The first four rest on `OrderInv`. What
  the properties say of a moment is not inductive: `Schedule()` may have read a choice
  that is stale when stored, and a pending switch may be chosen anew. `Nesting`
  says instead that from the executing, the next and an active context, following
  what each has read and not stored, control never gets below that context
  (`Within`, with a set that is closed under it as witness). `ReadyComes` says that a
  ready priority has a way to the processor: control is at or above it for good,
  or the switch, or a `Schedule()`, or a context about to call it (`Coming`). `ChosenReady`,
  `Calls` and `IdleReady` keep ready bits under every choice. For
  `SwitchesUnlocked` there are three more: in the window of a section nothing above is
  ready that is not cut off (`WindowOpen`), nobody switches away from `main()` in it
  (`MainAlone`), and behind a section left open no switch is on its way
  (`ExportedAtTop`).
- `OsekSchedulerProofs`, on `OrderInv` and with no interrupts before the first task:
  `KernelIsScheduler`, that the kernel implements `PriorityScheduler`
  (`ImplementsScheduler`), one lemma per group of actions that are one of the
  scheduler's, the rest shown to leave it alone; and, if idle chains to itself alone
  in its priority (`IdleChains`, `osek_task.c:5-12`), `QueueAlwaysFound`
  (`ScheduleFindsQueue`). Its invariant `IdleInv` follows idle from its termination to its
  next activation, where its queue is empty, and `main()` up to its first `Schedule()`.
- `CriticalSectionProofs`, for any number of nested levels. If the port masks,
  `Exclusion`: a level inside its section has the mask set and everything above it
  is outside. On that rest, for queues that an int8_t can count and one dispatcher
  for each (`OneDispatcher`), `SectionTypes` and `SectionsAreWhole`, that
  `CriticalSection` implements `AtomicServices`: the words a level has loaded are
  still those in memory when it stores, and a dispatcher that is about to pop
  still has something to pop. On these rests `ActivationsKept` (`NothingLost`): at every
  step, what is counted is queued or was refused (`CountInv`), if a uint8_t can count
  the limit and an activation of each level above it (`ActFits`).
  `LockBalanced` (`LockReleased`) needs no mask: the
  count is the number of levels that have raised it, and a level that has loaded
  it stores it when those above it are done, so that only those below it count;
  it is assumed that a uint8_t can count the levels (`LevelsFit`).
- `InterruptServicesProofs`, for any number of handlers and depth that a uint8_t counts
  (`CountFits`): `CountersNeverWrap` (`TypeOK`), on the invariant that each counter is the
  number of its sections that are open and counted, and `SectionsProtect` (`Protected`). What
  a section keeps out is disabled not only in the status (`Masked`) but in every status
  that a later section has saved and will restore (`Restores`), be it saved over one of
  an earlier section or not. It helps that a handler comes into no section but those of
  `SuspendOSInterrupts` (`Below`), and that inside of `DisableAllInterrupts` a caller opens
  nothing else (`Apart`). The exception `opened` is needed: see above.
- `StacksProofs`, for any number of queues, arrays of any size, handlers that push any
  even number of words: `ContextsKept`
  (`KeepsContexts`), that `Stacks` implements `Coroutines`. It assumes `NeedsFit`, that
  what a queue needs includes what a handler and the switch push on top and fits what
  `initSP` leaves it (`Top(q) - Base[q]`, a quarter of the array; of a queue that needs
  more nothing is kept, as `stack_too_small` shows), and
  `ArraysApart`, that the linker gives each array and the stack of `main()` a place of its
  own. The invariant `StackInv` says that what is in use of a stack is whole frames of 32
  bytes and leaves room for what comes on top (`Room`), that no context runs before all
  stacks are made (`Switching`), and where `main()` has its stack pointer (`OnMain`). From
  it every push lies in the array of the queue that runs (`Written`, `NextWrites`), so that
  the other contexts keep their words (`OtherKept`); and for the queue that runs, one
  lemma for each kind of step says where its 16 registers go, from the core to its stack
  and back. The lemmas about `Words` and `Push` (`Placed`, `Stored`, `Stacked`, `Popped`)
  say that what is pushed at an address is what is read there, below what was there.

The theorems about the kernel rest on the step size of `OsekKernel`, that is on a
port that masks (`SectionsAreWhole`), and on handlers that do not nest. They assume
queue sizes that an int8_t can count (`QSizeFits`) and
`HandlersSpareIdle`: if interrupts come before the first task runs, they do not
activate tasks of idle's priority. Without it types are not kept, see above. The
invariant therefore has a part about start-up, `Starting`: while `main()` executes
no dispatcher has, idle's bit is set before idle is pushed, and there is room.

That no interrupts come before the first task is assumed where it says so above.
`SwitchesUnlocked` and `QueueAlwaysFound` do not hold without it: a tick in the
window of InitOS's section leaves `main()` there for good, with the count up and idle
ready but not queued; and a tick before InitOS finds no queue. `KernelIsScheduler` rests on
`SwitchesUnlocked`; on the instance of `overload` TLC finds no error in
`ImplementsScheduler` with such interrupts either.

Only model-checked: liveness, `ActivationsServed`, which is out of the provers' reach
and stays with TLC; and the properties of the runs that show a violation, which are what
the code does not do.

## Not modelled

- `port/3rd_party`: CMSIS, FreeRTOS, embOS, emWin, lwIP, ThreadX, uC/OS-II and the board
  files of several vendors. They are nearly all of the lines in the repository, and none
  of them is called by the kernel, which is about 1700 lines, 3400 with its
  example; all of the kernel's functions are modelled;
- hooks, which are empty bodies for the application;
- the macros of the configuration: their results are the constants. The name of
  priority 12 is misspelt (`osek_queue_def.h:36`), a matter for the compiler;
- a TaskID out of range (osek.c:214), which is noticed and then used all the same:
  identifiers are valid in the models;
- nesting of handlers of different levels in `OsekKernel` (levels nest in
  `CriticalSection` and `InterruptServices`);
- `timerTick`, which nothing reads.

## Plan

Written so far, in this order: `OsekQueue` and `TaskQueue` with their refinement;
`OsekKernel` with its properties and `PriorityScheduler`; `CriticalSection`; the
proofs; `InterruptServices`; `Stacks`; start-up in `OsekKernel`; liveness;
`AtomicServices`; the proofs about the lock, the order of priorities, the refinement
of `PriorityScheduler`, the interrupt services and the stacks. Every safety property
that a passing run checks has its theorem. What is left is to weaken assumptions: early
interrupts in `KernelIsScheduler`, which TLC finds to hold with them on `overload`'s
instance.
