------------------------ MODULE OsekKernelOrderProofs ------------------------
(***************************************************************************)
(* The order of priorities in OsekKernel, for every number of priorities   *)
(* without gaps: contexts nest, no preemption is missed but behind a       *)
(* section, control does not come back to StartOS, ShutdownOS is final.    *)
(***************************************************************************)
EXTENDS OsekKernelProofs

(* All priorities up to the highest are used.  With a gap Schedule() reads *)
(* the wrong entry of osek_queues, or none (osek.c:36, 342).               *)
NoGaps == \E n \in Nat : Prios = 0 .. n

(* A dispatcher at the head of its loop, or not yet started, is in the     *)
(* middle of nothing; one that is, or that executes, counts as active      *)
(* until it is drained.                                                    *)
AtRest(p) == pc[p] \in {"nostack", "loop"}
Active(p) == (p = currQueue \/ ~AtRest(p)) /\ ~Drained(p)

(* Contexts that control does not leave but by a new choice of Schedule(): *)
(* the executing and the next one, and with each what it has chosen and    *)
(* not yet stored.  Within(p, c): c is among such, and none is below p.    *)
Closed(S) == \A c \in S : pc[c] = "store" => cand[c] \in S
Within(p, c) == \E S \in SUBSET {d \in Prios : d >= p} :
                  {c, currQueue, nextQueue} \subseteq S /\ Closed(S)

(* Control stays at or above every active context.                         *)
Nesting == (~Exhausted /\ currQueue # NULL) =>
             \A p \in Prios : Active(p) => Within(p, p)

(* Whoever executes, is chosen or is in the middle of something has its    *)
(* ready bit set, until it is drained.                                     *)
Chosen(p) == \/ p = currQueue \/ p = nextQueue \/ ~AtRest(p)
             \/ \E c \in Contexts : pc[c] = "store" /\ cand[c] = p
ChosenReady == \A p \in Prios : Chosen(p) => p \in readySet \/ Drained(p)
-----------------------------------------------------------------------------
(* What Schedule() reads is the highest priority of the ready set.         *)
LEMMA ReadyIsHighest ==
  ASSUME NoGaps, NEW rs \in SUBSET Prios, NEW q \in ReadyQueue(rs)
  PROVE  \/ rs = {} /\ q = WILD
         \/ q \in rs /\ \A r \in rs : r <= q
<1>1. PICK n \in Nat : Prios = 0 .. n
  BY DEF NoGaps
<1>2. ASSUME NEW p \in Prios PROVE Cardinality({r \in Prios : r < p}) = p
  <2>1. {r \in Prios : r < p} = 0 .. p - 1
    BY <1>1
  <2>2. p \in Nat /\ 0 \in Int /\ p - 1 \in Int
    BY <1>1
  <2>3. Cardinality(0 .. p - 1) = IF 0 > p - 1 THEN 0 ELSE p - 1 - 0 + 1
    BY <2>2, FS_Interval
  <2>4. Cardinality(0 .. p - 1) = p
    BY <2>2, <2>3
  <2> QED
    BY <2>1, <2>4, Zenon
<1>3. ASSUME NEW i \in Prios PROVE osek_queues(i) = {i}
  <2>1. {p \in Prios : Cardinality({r \in Prios : r < p}) = i} = {i}
    BY <1>2
  <2> QED
    BY <2>1 DEF osek_queues
<1>4. CASE rs = {}
  BY <1>4 DEF ReadyQueue
<1>5. CASE rs # {}
  <2>1. PICK i \in FindReady(rs) : q \in osek_queues(i)
    BY <1>5 DEF ReadyQueue
  <2> QED
    BY <1>3, <2>1 DEF FindReady
<1> QED
  BY <1>4, <1>5
-----------------------------------------------------------------------------
(***************************************************************************)
(* What no step does.                                                      *)
(***************************************************************************)
(* A drained context stays drained, only the executing one starts on       *)
(* anything, and only it clears its ready bit.                             *)
Onward == /\ \A p \in Prios : Drained(p) => Drained(p)'
          /\ \A p \in Prios : ~AtRest(p)' => ~AtRest(p) \/ p = currQueue
          /\ \A p \in readySet : p \in readySet' \/ Drained(p)'

(* A move between labels outside Schedule(), and one inside it.            *)
LEMMA MovesOnward ==
  ASSUME IInv, NEW c \in Contexts, NEW from, NEW to, Moves(c, from, to),
         readySet \subseteq readySet',
         \/ from \notin Schedulers \cup {"exit", "nostack"}
         \/ from \in Schedulers /\ to \in Schedulers /\ ret'[c] = ret[c]
         \/ from \in Schedulers /\ to = ret[c]
  PROVE  Onward
<1>1. c \in Prios => (Drained(c) => Drained(c)')
  <2>1. CASE from \notin Schedulers \cup {"exit", "nostack"}
    <3>1. pc[c] # "exit" /\ ret[c] # "exit"
      BY <2>1 DEF Moves, IInv, Control, Frame, Returns, TypeOK, Labels
    <3> QED
      BY <3>1 DEF Drained
  <2>2. CASE from \in Schedulers
    BY <2>2 DEF Moves, Drained, Schedulers
  <2> QED
    BY <2>1, <2>2
<1>2. \A p \in Prios : p # c => (Drained(p) => Drained(p)') /\ (~AtRest(p)' => ~AtRest(p))
  BY DEF Moves, Alone, Drained, AtRest, Contexts
<1>3. c = currQueue
  BY DEF Moves, Executes
<1> QED
  BY <1>1, <1>2, <1>3 DEF Onward

LEMMA NextOnward ==
  ASSUME QSizeFits, IInv, [Next]_vars
  PROVE  Onward
<1> USE DEF Schedulers
<1>0. NULL \in Contexts /\ Prios \subseteq Contexts
  BY DEF Contexts
<1>1. CASE MainActivate \/ StartOS
  BY <1>0, <1>1, MainCalls, MovesOnward
<1>2. CASE InitReady \/ InitState
  BY <1>0, <1>2, InitMoves, MovesOnward
<1>3. CASE InitPush
  BY <1>0, <1>3, InitPushMoves, MovesOnward
<1>4. ASSUME NEW p \in Prios, InitQueue(p) PROVE Onward
  BY <1>0, <1>4, InitQueueMoves DEF Onward, Drained, AtRest
<1>5. ASSUME NEW c \in Contexts, Lock(c) PROVE Onward
  BY <1>5, LockMoves, MovesOnward
<1>6. ASSUME NEW c \in Contexts, ActivateTask(c) PROVE Onward
  BY <1>6, ActivateTaskMoves, MovesOnward DEF Activate
<1>7. ASSUME NEW c \in Contexts,
             \/ ScheduleRead(c) \/ ScheduleStore(c) \/ ScheduleCompare(c)
             \/ ScheduleMark(c) \/ SchedulePend(c)
      PROVE  Onward
  BY <1>7, ScheduleReadMoves, ScheduleStoreMoves, ScheduleCompareMoves,
     ScheduleMarkMoves, SchedulePendMoves, MovesOnward
<1>8. ASSUME NEW c \in Prios,
             \/ DispatchTask(c) \/ LeaveLoop(c) \/ TaskReturns(c)
             \/ TerminateTask(c) \/ ChainContinues(c)
      PROVE  Onward
  BY <1>0, <1>8, DispatchTaskMoves, LeaveLoopMoves, TaskReturnsMoves,
     TerminateTaskMoves, ChainContinuesMoves, MovesOnward
<1>9. ASSUME NEW c \in Prios, Body(c) PROVE Onward
  BY <1>0, <1>9, BodyMoves, MovesOnward
<1>10. ASSUME NEW c \in Prios, ClearReadyBit(c) PROVE Onward
  <2>1. /\ Moves(c, "drainCS", "read") /\ ret'[c] = "exit"
        /\ readySet' = readySet \ {c}
    BY <1>10, ClearReadyBitMoves
  <2> QED
    BY <1>0, <2>1 DEF Onward, Moves, Alone, Executes, Drained, AtRest
<1>11. CASE tickHandler \/ contextSwitchISR \/ Still
  BY <1>11 DEF tickHandler, contextSwitchISR, Still, osVars, ctxVars, Onward, Drained,
     AtRest
<1>12. ASSUME NEW t \in IsrTasks, IsrActivateTask(t) PROVE Onward
  BY <1>12 DEF IsrActivateTask, Activate, ctxVars, Onward, Drained, AtRest
<1> QED
  BY <1>1, <1>2, <1>3, <1>4, <1>5, <1>6, <1>7, <1>8, <1>9, <1>10, <1>11, <1>12, Steps

(* Whatever changes the queues.                                            *)
LEMMA QueueSteps ==
  ASSUME QSizeFits, IInv, [Next]_vars
  PROVE  \/ queues' = queues
         \/ \E t \in Tasks : queues' = [queues EXCEPT ![TaskPrio[t]] = PushToQueue(@, t)]
         \/ \E c \in Prios : TerminateTask(c)
         \/ InitPush
<1>0. NULL \in Contexts /\ Prios \subseteq Contexts
  BY DEF Contexts
<1>1. CASE MainActivate \/ StartOS \/ InitReady \/ InitState
  BY <1>1, MainCalls, InitMoves
<1>2. ASSUME NEW p \in Prios, InitQueue(p) PROVE queues' = queues
  BY <1>2, InitQueueMoves
<1>3. ASSUME NEW c \in Contexts,
             \/ Lock(c) \/ ScheduleRead(c) \/ ScheduleStore(c) \/ ScheduleCompare(c)
             \/ ScheduleMark(c) \/ SchedulePend(c)
      PROVE  queues' = queues
  BY <1>3, LockMoves, ScheduleReadMoves, ScheduleStoreMoves, ScheduleCompareMoves,
     ScheduleMarkMoves, SchedulePendMoves
<1>4. ASSUME NEW c \in Contexts, ActivateTask(c)
      PROVE  \E t \in Tasks : queues' = [queues EXCEPT ![TaskPrio[t]] = PushToQueue(@, t)]
  BY <1>4, ActivateTaskMoves DEF Activate
<1>5. ASSUME NEW c \in Prios,
             \/ DispatchTask(c) \/ LeaveLoop(c) \/ ClearReadyBit(c)
             \/ TaskReturns(c) \/ Body(c) \/ ChainContinues(c)
      PROVE  queues' = queues
  BY <1>5, DispatchTaskMoves, LeaveLoopMoves, ClearReadyBitMoves, TaskReturnsMoves,
     BodyMoves, ChainContinuesMoves
<1>6. ASSUME NEW t \in IsrTasks, IsrActivateTask(t)
      PROVE  t \in Tasks /\ queues' = [queues EXCEPT ![TaskPrio[t]] = PushToQueue(@, t)]
  BY <1>6, KernelAssumption DEF IsrActivateTask, Activate
<1>7. CASE tickHandler \/ contextSwitchISR \/ Still
  BY <1>7 DEF tickHandler, contextSwitchISR, Still, osVars
<1> QED
  BY <1>1, <1>2, <1>3, <1>4, <1>5, <1>6, <1>7, Steps

(* The kernel does not recover from being past what it can serve.          *)
LEMMA ExhaustedStays ==
  ASSUME QSizeFits, IInv, Starting, [Next]_vars, Exhausted
  PROVE  Exhausted'
<1>1. PICK p \in Prios : Drained(p) /\ Top(p) # NULL
  BY DEF Exhausted, Top
<1>2. Drained(p)'
  BY <1>1, NextOnward DEF Onward
<1>3. Top(p)' # NULL
  <2>1. CASE queues' = queues
    BY <1>1, <2>1 DEF Top
  <2>2. CASE \E t \in Tasks : queues' = [queues EXCEPT ![TaskPrio[t]] = PushToQueue(@, t)]
    BY <1>1, <2>2, PushKeeps DEF IInv
  <2>3. ASSUME NEW c \in Prios, TerminateTask(c) PROVE Top(p)' # NULL
    <3>1. /\ pc[c] = "termCS" /\ ret[c] \in {"taskEnd", "chain"}
          /\ queues' = [queues EXCEPT ![c] = PopFromQueue(@)]
      BY <2>3, TerminateTaskMoves DEF Moves
    <3>2. p # c
      BY <1>1, <3>1 DEF Drained
    <3> QED
      BY <1>1, <3>1, <3>2, PopKeeps DEF IInv
  <2>4. CASE InitPush
    <3>1. currQueue = NULL
      BY <2>4, InitPushMoves DEF Moves, Executes
    <3>2. ret[p] = "none" /\ pc[p] # "exit"
      BY <3>1 DEF Starting, IInv, Control, Frame, Returns, Schedulers, Contexts
    <3> QED
      BY <1>1, <3>2 DEF Drained
  <2> QED
    BY <2>1, <2>2, <2>3, <2>4, QueueSteps
<1> QED
  BY <1>1, <1>2, <1>3 DEF Exhausted, Top
-----------------------------------------------------------------------------
(***************************************************************************)
(* Contexts nest.                                                          *)
(***************************************************************************)
(* The steps by what they do to the choice of the next queue.              *)
Chooses(c) == ScheduleRead(c)
Proceeds(c) == \E from, to : /\ Moves(c, from, to) /\ to # "store"
                             /\ \/ nextQueue' = nextQueue
                                \/ from = "store" /\ nextQueue' = cand[c]
Handles == /\ UNCHANGED <<currQueue, ctxVars>>
           /\ nextQueue' \in ReadyQueue(readySet') /\ readySet \subseteq readySet'
           /\ \/ nextQueue' = currQueue /\ pendSV' = pendSV
              \/ nextQueue' # currQueue /\ pendSV'
           /\ ~masked /\ (currQueue # NULL \/ EarlyInterrupts)
           /\ UNCHANGED <<readySet, masked>> \/ (disableCount # 0 => masked')

LEMMA OrderSteps ==
  ASSUME QSizeFits, IInv, [Next]_vars
  PROVE  \/ \E c \in Contexts : Chooses(c) \/ Proceeds(c)
         \/ Handles \/ contextSwitchISR \/ Still
         \/ \E p \in Prios : InitQueue(p)
<1>0. NULL \in Contexts /\ Prios \subseteq Contexts
  BY DEF Contexts
<1>1. ASSUME NEW c \in Contexts, NEW from, NEW to, Moves(c, from, to), to # "store",
             nextQueue' = nextQueue
      PROVE  Proceeds(c)
  BY <1>1 DEF Proceeds
<1>2. CASE \/ MainActivate \/ StartOS \/ InitReady \/ InitState \/ InitPush
  <2>1. Proceeds(NULL)
    BY <1>0, <1>1, <1>2, MainCalls, InitMoves, InitPushMoves
  <2> QED
    BY <1>0, <2>1
<1>3. ASSUME NEW c \in Contexts,
             \/ Lock(c) \/ ActivateTask(c) \/ ScheduleStore(c) \/ ScheduleCompare(c)
             \/ ScheduleMark(c) \/ SchedulePend(c)
      PROVE  Proceeds(c)
  <2>1. CASE Lock(c) \/ ActivateTask(c)
    BY <1>1, <2>1, LockMoves, ActivateTaskMoves
  <2>2. CASE ScheduleStore(c)
    BY <2>2, ScheduleStoreMoves DEF Proceeds
  <2>3. CASE ScheduleCompare(c)
    BY <1>1, <2>3, ScheduleCompareMoves
  <2>4. CASE ScheduleMark(c) \/ SchedulePend(c)
    BY <1>1, <2>4, ScheduleMarkMoves, SchedulePendMoves
  <2> QED
    BY <1>3, <2>1, <2>2, <2>3, <2>4
<1>4. ASSUME NEW c \in Prios,
             \/ DispatchTask(c) \/ LeaveLoop(c) \/ ClearReadyBit(c)
             \/ TaskReturns(c) \/ Body(c) \/ TerminateTask(c)
             \/ ChainContinues(c)
      PROVE  Proceeds(c)
  <2>1. CASE DispatchTask(c) \/ LeaveLoop(c) \/ ClearReadyBit(c) \/ TaskReturns(c)
    BY <1>0, <1>1, <2>1, DispatchTaskMoves, LeaveLoopMoves, ClearReadyBitMoves,
       TaskReturnsMoves
  <2>2. CASE Body(c)
    BY <1>0, <1>1, <2>2, BodyMoves
  <2>3. CASE TerminateTask(c) \/ ChainContinues(c)
    BY <1>0, <1>1, <2>3, TerminateTaskMoves, ChainContinuesMoves
  <2> QED
    BY <1>4, <2>1, <2>2, <2>3
<1>5. CASE tickHandler
  BY <1>5 DEF tickHandler, InterruptTaken, ScheduleFromISR, Handles, lockVars
<1>6. ASSUME NEW t \in IsrTasks, IsrActivateTask(t) PROVE Handles
  BY <1>6 DEF IsrActivateTask, InterruptTaken, InterruptSection, ScheduleFromISR,
     Activate, Handles
<1> QED
  BY <1>0, <1>2, <1>3, <1>4, <1>5, <1>6, Steps DEF Chooses

LEMMA NextChosen ==
  ASSUME NoGaps, QSizeFits, IInv, IInv', ChosenReady, [Next]_vars
  PROVE  ChosenReady'
<1>0. Onward
  BY NextOnward
<1>1. SUFFICES ASSUME NEW p \in Prios, Chosen(p)', ~Chosen(p)
               PROVE  p \in readySet'
  BY <1>0 DEF Onward, ChosenReady
<1>2. p = currQueue' \/ p = nextQueue' \/ \E c \in Contexts : pc'[c] = "store" /\ cand'[c] = p
  BY <1>0, <1>1 DEF Onward, Chosen
<1>3. ASSUME NEW rs \in SUBSET Prios, p \in ReadyQueue(rs) PROVE p \in rs
  BY <1>3, ReadyIsHighest, KernelAssumption
<1>4. readySet \in SUBSET Prios /\ readySet' \in SUBSET Prios
  BY DEF IInv, TypeOK
<1>5. ASSUME NEW c \in Contexts, Chooses(c) PROVE p \in readySet'
  BY <1>1, <1>2, <1>3, <1>4, <1>5, ScheduleReadMoves DEF Chooses, Moves, Alone, Chosen
<1>6. ASSUME NEW c \in Contexts, Proceeds(c) PROVE FALSE
  BY <1>1, <1>2, <1>6 DEF Proceeds, Moves, Alone, Chosen
<1>7. CASE Handles
  BY <1>1, <1>2, <1>3, <1>4, <1>7 DEF Handles, ctxVars, Chosen
<1>8. CASE contextSwitchISR
  BY <1>1, <1>2, <1>8 DEF contextSwitchISR, ctxVars, Chosen
<1>9. CASE Still
  BY <1>1, <1>2, <1>9 DEF Still, ctxVars, Chosen
<1>10. ASSUME NEW q \in Prios, InitQueue(q) PROVE FALSE
  BY <1>1, <1>2, <1>10, InitQueueMoves DEF Chosen, Contexts
<1> QED
  BY <1>5, <1>6, <1>7, <1>8, <1>9, <1>10, OrderSteps

(* The highest ready priority, chosen anew, is in no lower context's way.  *)
LEMMA JoinHighest ==
  ASSUME Nesting, ~Exhausted, currQueue # NULL, NEW p \in Prios, NEW a, Within(p, a),
         NEW m \in Prios, m >= p, ~Drained(m)
  PROVE  \E S \in SUBSET {d \in Prios : d >= p} :
           {a, m, currQueue, nextQueue} \subseteq S /\ Closed(S)
<1>0. Prios \subseteq Nat
  BY KernelAssumption
<1>1. PICK S \in SUBSET {d \in Prios : d >= p} :
        {a, currQueue, nextQueue} \subseteq S /\ Closed(S)
  BY DEF Within
<1>2. CASE Active(m)
  <2>1. PICK T \in SUBSET {d \in Prios : d >= m} :
          {m, currQueue, nextQueue} \subseteq T /\ Closed(T)
    BY <1>2 DEF Nesting, Within
  <2>2. S \cup T \in SUBSET {d \in Prios : d >= p}
    BY <1>0, <1>1, <2>1
  <2>3. Closed(S \cup T)
    BY <1>1, <2>1 DEF Closed
  <2> QED
    BY <1>1, <2>1, <2>2, <2>3
<1>3. CASE ~Active(m)
  <2>1. pc[m] # "store"
    BY <1>3 DEF Active, AtRest
  <2>2. S \cup {m} \in SUBSET {d \in Prios : d >= p}
    BY <1>0, <1>1
  <2>3. Closed(S \cup {m})
    BY <1>1, <2>1 DEF Closed
  <2> QED
    BY <1>1, <2>2, <2>3
<1> QED
  BY <1>2, <1>3

LEMMA WithinIntro ==
  ASSUME NEW p, NEW c, NEW S \in SUBSET {d \in Prios : d >= p},
         {c, currQueue', nextQueue'} \subseteq S,
         \A d \in S : pc'[d] = "store" => cand'[d] \in S
  PROVE  Within(p, c)'
  BY DEF Within, Closed

(* A ready priority whose bit is set, of the highest.                      *)
LEMMA HighestIsSound ==
  ASSUME NoGaps, IInv, ~Exhausted, NEW p \in readySet, NEW m \in ReadyQueue(readySet)
  PROVE  m \in readySet /\ m \in Prios /\ m >= p /\ ~Drained(m)
<1>1. readySet \in SUBSET Prios
  BY DEF IInv, TypeOK
<1>2. m \in readySet /\ \A r \in readySet : r <= m
  BY <1>1, ReadyIsHighest
<1>3. m \in Prios /\ p \in Prios /\ Prios \subseteq Nat
  BY <1>1, <1>2, KernelAssumption
<1>4. ~Drained(m)
  BY <1>2, <1>3 DEF IInv, ReadyBitJustified, Exhausted
<1> QED
  BY <1>2, <1>3, <1>4

LEMMA HandledIsSound ==
  ASSUME NoGaps, IInv', ~Exhausted', Handles, NEW p \in readySet'
  PROVE  /\ nextQueue' \in readySet' /\ nextQueue' \in Prios /\ nextQueue' >= p
         /\ ~Drained(nextQueue')
<1> DEFINE m == nextQueue'
<1>1. readySet' \in SUBSET Prios /\ m \in ReadyQueue(readySet')
  BY DEF IInv, TypeOK, Handles
<1> HIDE DEF m
<1>2. m \in readySet' /\ \A r \in readySet' : r <= m
  BY <1>1, ReadyIsHighest
<1>3. m \in Prios /\ p \in Prios /\ Prios \subseteq Nat
  BY <1>1, <1>2, KernelAssumption
<1>4. TopFromQueue(queues'[m]) # NULL \/ ~(pc'[m] = "exit" \/ ret'[m] = "exit")
  BY <1>2 DEF IInv, ReadyBitJustified, Drained
<1>5. TopFromQueue(queues'[m]) = NULL \/ ~(pc'[m] = "exit" \/ ret'[m] = "exit")
  BY <1>3 DEF Exhausted, Drained
<1>6. ~Drained(m)
  BY <1>4, <1>5 DEF Drained, Handles, ctxVars
<1> QED
  BY <1>2, <1>3, <1>6 DEF m

LEMMA NextWithin ==
  ASSUME NoGaps, QSizeFits, IInv, IInv', Nesting, [Next]_vars, ~Exhausted, ~Exhausted',
         currQueue # NULL, NEW p \in Prios, p \in readySet, NEW a, Within(p, a)
  PROVE  Within(p, a)'
<1>1. PICK S \in SUBSET {d \in Prios : d >= p} :
        {a, currQueue, nextQueue} \subseteq S /\ Closed(S)
  BY DEF Within
<1>2. ASSUME NEW c \in Contexts, Chooses(c) PROVE Within(p, a)'
  <2>1. /\ currQueue = c /\ UNCHANGED <<currQueue, nextQueue>>
        /\ pc'[c] = "store" /\ cand'[c] \in ReadyQueue(readySet) /\ Alone(c)
    BY <1>2, ScheduleReadMoves DEF Chooses, Moves, Executes
  <2>2. cand'[c] \in Prios /\ cand'[c] >= p /\ ~Drained(cand'[c])
    BY <2>1, HighestIsSound
  <2>3. PICK T \in SUBSET {d \in Prios : d >= p} :
          {a, cand'[c], currQueue, nextQueue} \subseteq T /\ Closed(T)
    BY <2>2, JoinHighest
  <2>4. \A d \in T : pc'[d] = "store" => cand'[d] \in T
    BY <2>1, <2>3 DEF Closed, Alone, Contexts
  <2> QED
    BY <2>1, <2>3, <2>4, WithinIntro
<1>3. ASSUME NEW c \in Contexts, Proceeds(c) PROVE Within(p, a)'
  <2>1. PICK from, to : /\ Moves(c, from, to) /\ to # "store"
                        /\ \/ nextQueue' = nextQueue
                           \/ from = "store" /\ nextQueue' = cand[c]
    BY <1>3 DEF Proceeds
  <2>2. {a, currQueue', nextQueue'} \subseteq S
    BY <1>1, <2>1 DEF Moves, Executes, Closed
  <2>3. \A d \in S : pc'[d] = "store" => cand'[d] \in S
    BY <1>1, <2>1 DEF Moves, Alone, Closed, Contexts
  <2> QED
    BY <2>2, <2>3, WithinIntro
<1>4. CASE Handles
  <2>1. p \in readySet' /\ UNCHANGED <<currQueue, ctxVars>>
    BY <1>4 DEF Handles
  <2>2. nextQueue' \in Prios /\ nextQueue' >= p /\ ~Drained(nextQueue')
    BY <1>4, <2>1, HandledIsSound
  <2>4. PICK T \in SUBSET {d \in Prios : d >= p} :
          {a, nextQueue', currQueue, nextQueue} \subseteq T /\ Closed(T)
    BY <2>2, JoinHighest
  <2>5. \A d \in T : pc'[d] = "store" => cand'[d] \in T
    BY <2>1, <2>4 DEF Closed, ctxVars
  <2> QED
    BY <2>1, <2>4, <2>5, WithinIntro
<1>5. CASE contextSwitchISR \/ Still
  <2>1. currQueue' \in {currQueue, nextQueue} /\ UNCHANGED <<nextQueue, ctxVars>>
    BY <1>5 DEF contextSwitchISR, Still
  <2>2. \A d \in S : pc'[d] = "store" => cand'[d] \in S
    BY <1>1, <2>1 DEF Closed, ctxVars
  <2> QED
    BY <1>1, <2>1, <2>2, WithinIntro
<1>6. ASSUME NEW q \in Prios, InitQueue(q) PROVE FALSE
  BY <1>6, InitQueueMoves DEF Executes
<1> QED
  BY <1>2, <1>3, <1>4, <1>5, <1>6, OrderSteps

(* A context becomes active only when it is switched to.                   *)
LEMMA NewlyActive ==
  ASSUME QSizeFits, IInv, [Next]_vars, NEW p \in Prios, Active(p)', ~Active(p)
  PROVE  /\ contextSwitchISR
         /\ p = currQueue' /\ p = nextQueue' /\ AtRest(p)'
<1>1. Onward
  BY NextOnward
<1>2. p = currQueue' /\ p # currQueue
  BY <1>1 DEF Onward, Active
<1>3. contextSwitchISR
  BY <1>2, OrderSteps, InitQueueMoves DEF Chooses, ScheduleRead, Proceeds, Moves,
     Handles, Still
<1> QED
  BY <1>1, <1>2, <1>3 DEF contextSwitchISR, Active, Drained, AtRest, ctxVars

LEMMA NextNesting ==
  ASSUME NoGaps, QSizeFits, Starting, IInv, IInv', ChosenReady, Nesting, [Next]_vars
  PROVE  Nesting'
<1>1. SUFFICES ASSUME ~Exhausted', currQueue' # NULL, NEW p \in Prios, Active(p)'
               PROVE  Within(p, p)'
  BY DEF Nesting
<1>2. ~Exhausted
  BY <1>1, ExhaustedStays
<1>3. CASE Active(p) /\ currQueue # NULL
  <2>1. p \in readySet
    BY <1>3 DEF ChosenReady, Chosen, Active
  <2> QED
    BY <1>1, <1>2, <1>3, <2>1, NextWithin DEF Nesting
<1>4. CASE ~Active(p)
  <2>1. p = currQueue' /\ p = nextQueue' /\ AtRest(p)'
    BY <1>1, <1>4, NewlyActive
  <2>2. {p} \in SUBSET {d \in Prios : d >= p}
    BY KernelAssumption
  <2>3. {p, currQueue', nextQueue'} \subseteq {p}
    BY <2>1
  <2>4. \A d \in {p} : pc'[d] = "store" => cand'[d] \in {p}
    BY <2>1 DEF AtRest
  <2> QED
    BY <2>2, <2>3, <2>4, WithinIntro
<1>5. CASE Active(p) /\ currQueue = NULL
  BY <1>5, KernelAssumption DEF Active, Starting, AtRest
<1> QED
  BY <1>3, <1>4, <1>5
-----------------------------------------------------------------------------
(***************************************************************************)
(* No preemption is missed.                                                *)
(***************************************************************************)
(* Only main() comes back to StartOS, and while it calls services no       *)
(* context has a stack.                                                    *)
Calls ==
  /\ \A c \in Prios : ret[c] \notin {"main", "lost"}
  /\ (pc[NULL] \in {"main", "act", "actCS"} \/ ret[NULL] = "main") =>
       \A p \in Prios : pc[p] = "nostack"

(* A context that is entered at the head of its loop, at p or above.       *)
Fresh(x, p) == x \in Prios /\ x >= p /\ AtRest(x)

(* A context at or below the executing one is about to call Schedule() for *)
(* the task of priority p it has activated.                                *)
Asks(p) ==
  \E c \in Prios : /\ currQueue # NULL /\ c <= currQueue
                   /\ pc[c] = "read" /\ ret[c] \in {"task", "taskEnd"}
                   /\ arg[c] # NULL /\ TaskPrio[arg[c]] = p

(* How a ready priority gets the processor: control is at or above it and  *)
(* stays there; a switch is pending, to a context at or above it or behind *)
(* the sections of another; Schedule() has it before it, has chosen it or  *)
(* is about to ask for it; or the context that will is still to do so.     *)
Chooser(p) ==
  \/ pc[currQueue] = "read"
  \/ pc[currQueue] = "store" /\ Fresh(cand[currQueue], p)
  \/ pc[currQueue] \in {"compare", "mark", "pend"} /\ Fresh(nextQueue, p)
  \/ currQueue = NULL /\ pc[NULL] \in {"initState", "initLock", "initCS"}
Pending(p) == \/ Stuck \/ Fresh(nextQueue, p)
              \/ currQueue = NULL /\ \A q \in Prios : pc[q] = "nostack"
Coming(p) == \/ currQueue # NULL /\ \E a \in Prios : Within(p, a)
             \/ IF pendSV THEN Pending(p) ELSE Chooser(p)
             \/ Asks(p)

ReadyComes == (mode = "run" /\ ~Exhausted) => \A p \in readySet : Coming(p)

(* A step of context c, as far as the way of a ready priority goes.        *)
Advances(c, from, to) ==
  /\ Moves(c, from, to) /\ from # "shutdown"
  /\ to = "store" => from = "read"
  /\ to = "mark" => from = "compare" /\ nextQueue # currQueue
  /\ to = "pend" => from = "mark"
  /\ to \in CriticalSections => from \notin Schedulers \cup CriticalSections
  /\ \/ from \in CriticalSections /\ (disableCount' # 0 => masked')
     \/ masked' = masked /\ readySet' = readySet
     \/ c = NULL
  /\ IF from = "pend" THEN pendSV' ELSE pendSV' = pendSV
  /\ nextQueue' = IF from = "store" THEN cand[c] ELSE nextQueue
  /\ from = "read" => to = "store" /\ cand'[c] \in ReadyQueue(readySet)
  /\ from = "store" => to = "compare"
  /\ from = "compare" => (nextQueue # currQueue => to = "mark")
  /\ from = "mark" => to = "pend"
  /\ from = "initState" => to \in {"initLock", "read"}
  /\ from = "initLock" => to = "initCS"
  /\ from = "initCS" => to = "read"
  /\ \A p \in readySet' \ readySet :
       \/ c = NULL /\ from = "initQueue" /\ to = "initState"
       \/ /\ from = "actCS" /\ to = "read" /\ p = TaskPrio[arg[c]]
          /\ ret[c] \in {"task", "taskEnd", "main"}
          /\ arg[c] \in Tasks /\ UNCHANGED <<ret, arg>>

LEMMA ControlSteps ==
  ASSUME QSizeFits, IInv, [Next]_vars
  PROVE  \/ \E c \in Contexts : \E from, to : Advances(c, from, to)
         \/ Handles \/ contextSwitchISR \/ Still
         \/ \E p \in Prios : InitQueue(p)
<1>0. NULL \in Contexts /\ Prios \subseteq Contexts
  BY DEF Contexts
<1>1. ASSUME NEW c \in Contexts, NEW from, NEW to, Moves(c, from, to),
             UNCHANGED <<readySet, nextQueue, pendSV, masked>>,
             to \notin {"store", "mark", "pend"},
             to \in CriticalSections => from \notin CriticalSections,
             from \notin Schedulers \cup {"initState", "initLock", "initCS", "shutdown"}
      PROVE  Advances(c, from, to)
  BY <1>1 DEF Advances, Schedulers
<1>2. CASE MainActivate \/ StartOS
  BY <1>0, <1>1, <1>2, MainCalls DEF Schedulers, CriticalSections
<1>3. CASE InitReady \/ InitState
  BY <1>0, <1>3, InitMoves DEF Advances, CriticalSections
<1>4. CASE InitPush
  BY <1>0, <1>4, InitPushMoves DEF Advances, CriticalSections, EnableAllInterrupts
<1>5. ASSUME NEW c \in Contexts, Lock(c)
      PROVE  \E from, to : Advances(c, from, to)
  BY <1>5, LockMoves DEF Advances, Schedulers, CriticalSections
<1>6. ASSUME NEW c \in Contexts, ActivateTask(c)
      PROVE  \E from, to : Advances(c, from, to)
  <2>1. \A p \in readySet' \ readySet : p = TaskPrio[arg[c]]
    BY <1>6, ActivateTaskMoves DEF Activate
  <2>2. Advances(c, "actCS", "read")
    BY <1>6, <2>1, ActivateTaskMoves DEF Advances, EnableAllInterrupts, CriticalSections
  <2> QED
    BY <2>2
<1>7. ASSUME NEW c \in Contexts,
             \/ ScheduleRead(c) \/ ScheduleStore(c) \/ ScheduleCompare(c)
             \/ ScheduleMark(c) \/ SchedulePend(c)
      PROVE  \E from, to : Advances(c, from, to)
  <2> USE DEF CriticalSections
  <2>1. CASE ScheduleRead(c)
    BY <2>1, ScheduleReadMoves DEF Advances
  <2>2. CASE ScheduleStore(c)
    BY <2>2, ScheduleStoreMoves DEF Advances
  <2>3. CASE ScheduleCompare(c)
    BY <2>3, ScheduleCompareMoves DEF Advances
  <2>4. CASE ScheduleMark(c)
    BY <2>4, ScheduleMarkMoves DEF Advances
  <2>5. CASE SchedulePend(c)
    <3>1. Advances(c, "pend", ret[c])
      BY <2>5, SchedulePendMoves DEF Advances
    <3> QED
      BY <3>1
  <2> QED
    BY <1>7, <2>1, <2>2, <2>3, <2>4, <2>5
<1>8. ASSUME NEW c \in Prios,
             \/ DispatchTask(c) \/ LeaveLoop(c) \/ ClearReadyBit(c)
             \/ TaskReturns(c) \/ TerminateTask(c) \/ ChainContinues(c)
      PROVE  \E from, to : Advances(c, from, to)
  <2> USE DEF EnableAllInterrupts, CriticalSections
  <2>1. CASE ClearReadyBit(c)
    <3>1. Advances(c, "drainCS", "read")
      BY <1>0, <2>1, ClearReadyBitMoves DEF Advances
    <3> QED
      BY <3>1
  <2>2. CASE TerminateTask(c)
    <3>1. Advances(c, "termCS", "read")
      BY <1>0, <2>2, TerminateTaskMoves DEF Advances
    <3> QED
      BY <3>1
  <2> QED
    BY <1>0, <1>1, <1>8, <2>1, <2>2, DispatchTaskMoves, LeaveLoopMoves,
       TaskReturnsMoves, ChainContinuesMoves DEF Schedulers
<1>9. ASSUME NEW c \in Prios, Body(c)
      PROVE  \E from, to : Advances(c, from, to)
  BY <1>0, <1>1, <1>9, BodyMoves DEF Schedulers, CriticalSections
<1>10. CASE tickHandler
  BY <1>10 DEF tickHandler, InterruptTaken, ScheduleFromISR, Handles, lockVars
<1>11. ASSUME NEW t \in IsrTasks, IsrActivateTask(t) PROVE Handles
  BY <1>11 DEF IsrActivateTask, InterruptTaken, InterruptSection, ScheduleFromISR,
     Activate, Handles
<1> QED
  BY <1>0, <1>2, <1>3, <1>4, <1>5, <1>6, <1>7, <1>8, <1>9, <1>10, <1>11, Steps

(* The calls that are on their way.                                        *)
LEMMA MovesCalls ==
  ASSUME Calls, NEW c \in Contexts, NEW from, NEW to, Moves(c, from, to),
         from # "nostack",
         c \in Prios => ret'[c] \notin {"main", "lost"},
         (c = NULL /\ (to \in {"main", "act", "actCS"} \/ ret'[c] = "main")) =>
           from \in {"main", "act", "actCS"} \/ ret[c] = "main"
  PROVE  Calls'
<1>0. NULL \in Contexts /\ NULL \notin Prios /\ Prios \subseteq Contexts
  BY KernelAssumption DEF Contexts
<1>1. ASSUME NEW d \in Prios
      PROVE  ret'[d] \notin {"main", "lost"}
  BY <1>0 DEF Moves, Alone, Calls
<1>2. ASSUME pc'[NULL] \in {"main", "act", "actCS"} \/ ret'[NULL] = "main",
             NEW p \in Prios
      PROVE  pc'[p] = "nostack"
  <2>1. pc[p] = "nostack" /\ \A d \in Prios : pc[d] = "nostack"
    BY <1>0, <1>2 DEF Moves, Alone, Calls
  <2> QED
    BY <1>0, <2>1 DEF Moves, Alone
<1> QED
  BY <1>1, <1>2 DEF Calls

LEMMA NextCalls ==
  ASSUME QSizeFits, IInv, Calls, [Next]_vars
  PROVE  Calls'
<1>0. NULL \in Contexts /\ NULL \notin Prios /\ Prios \subseteq Contexts
  BY KernelAssumption DEF Contexts
<1>1. CASE MainActivate \/ StartOS
  BY <1>0, <1>1, MainCalls, MovesCalls
<1>2. CASE InitReady \/ InitState \/ InitPush
  <2>1. pc[NULL] \in {"initQueue", "initState", "initCS"} /\ ret'[NULL] = ret[NULL]
    BY <1>2, InitMoves, InitPushMoves DEF Moves
  <2>2. ret'[NULL] = "lost"
    BY <1>0, <2>1 DEF IInv, Control, Frame, Returns, Schedulers
  <2> QED
    BY <1>0, <1>2, <2>2, InitMoves, InitPushMoves, MovesCalls
<1>3. ASSUME NEW p \in Prios, InitQueue(p) PROVE Calls'
  <2>1. ret[NULL] = "lost"
    BY <1>0, <1>3, InitQueueMoves DEF IInv, Control, Frame, Returns, Schedulers
  <2> QED
    BY <1>0, <1>3, <2>1, InitQueueMoves DEF Calls
<1>4. ASSUME NEW c \in Contexts, Lock(c) PROVE Calls'
  BY <1>4, LockMoves, MovesCalls DEF Calls, Moves
<1>5. ASSUME NEW c \in Contexts, ActivateTask(c) PROVE Calls'
  BY <1>5, ActivateTaskMoves, MovesCalls DEF Calls
<1>6. ASSUME NEW c \in Contexts, NEW from \in Schedulers, NEW to, Moves(c, from, to),
             \/ to \in Schedulers /\ ret'[c] = ret[c]
             \/ to = ret[c] /\ ret'[c] = "none"
      PROVE  Calls'
  <2>1. ret[c] \in Returns(from)
    BY <1>6 DEF Moves, IInv, Control, Frame
  <2>2. ret[c] \notin {"act", "actCS", "none"}
    BY <1>6, <2>1 DEF Returns
  <2> QED
    BY <1>6, <2>2, MovesCalls DEF Calls, Schedulers
<1>7. ASSUME NEW c \in Contexts,
             \/ ScheduleRead(c) \/ ScheduleStore(c) \/ ScheduleCompare(c)
             \/ ScheduleMark(c) \/ SchedulePend(c)
      PROVE  Calls'
  BY <1>6, <1>7, ScheduleReadMoves, ScheduleStoreMoves, ScheduleCompareMoves,
     ScheduleMarkMoves, SchedulePendMoves DEF Schedulers
<1>8. ASSUME NEW c \in Prios,
             \/ DispatchTask(c) \/ LeaveLoop(c) \/ ClearReadyBit(c)
             \/ TaskReturns(c) \/ TerminateTask(c) \/ ChainContinues(c)
      PROVE  Calls'
  <2>1. CASE DispatchTask(c) \/ ClearReadyBit(c) \/ TaskReturns(c)
    BY <1>0, <2>1, DispatchTaskMoves, ClearReadyBitMoves, TaskReturnsMoves, MovesCalls
  <2>2. CASE LeaveLoop(c) \/ TerminateTask(c)
    BY <1>0, <2>2, LeaveLoopMoves, TerminateTaskMoves, MovesCalls DEF Calls
  <2>3. CASE ChainContinues(c)
    BY <1>0, <2>3, ChainContinuesMoves, MovesCalls DEF Calls, Moves
  <2> QED
    BY <1>8, <2>1, <2>2, <2>3
<1>9. ASSUME NEW c \in Prios, Body(c) PROVE Calls'
  BY <1>0, <1>9, BodyMoves, MovesCalls
<1>10. CASE tickHandler \/ contextSwitchISR \/ Still
  BY <1>10 DEF tickHandler, contextSwitchISR, Still, ctxVars, Calls
<1>11. ASSUME NEW t \in IsrTasks, IsrActivateTask(t) PROVE Calls'
  BY <1>11 DEF IsrActivateTask, ctxVars, Calls
<1> QED
  BY <1>1, <1>2, <1>3, <1>4, <1>5, <1>7, <1>8, <1>9, <1>10, <1>11, Steps

(* Halted is for good.                                                     *)
LEMMA FaultStays == ASSUME [Next]_vars, mode' = "run" PROVE mode = "run"
<1>1. ASSUME NEW p \in Prios, Thread(p) PROVE mode = "run"
  BY <1>1 DEF Thread, Dispatcher, DispatchTask, LeaveLoop, ClearReadyBit,
     DispatcherReturns, TaskReturns, Body, CallActivateTask, CallSchedule,
     CallTerminate, CallChain, CallShutdown, BodyCalls, TerminateTask,
     ChainContinues, Context, Lock, ActivateTask, Schedule, ScheduleRead,
     ScheduleStore, ScheduleCompare, ScheduleMark, SchedulePend, Executes
<1>2. CASE Startup \/ Context(NULL)
  BY <1>2 DEF Startup, MainActivate, StartOS, InitQueue, InitReady, InitState,
     InitPush, Context, Lock, ActivateTask, Schedule, ScheduleRead,
     ScheduleStore, ScheduleCompare, ScheduleMark, SchedulePend, Executes
<1>3. CASE Interrupt
  BY <1>3 DEF Interrupt, tickHandler, IsrActivateTask, InterruptTaken, contextSwitchISR
<1> QED
  BY <1>1, <1>2, <1>3 DEF Next, Halted, vars

LEMMA ActiveWithin ==
  ASSUME NoGaps, QSizeFits, IInv, IInv', ChosenReady, Nesting, [Next]_vars,
         ~Exhausted, ~Exhausted', currQueue # NULL,
         NEW p \in Prios, NEW m \in Prios, m >= p, Active(m)
  PROVE  Within(p, m)'
<1>1. m \in readySet
  BY DEF ChosenReady, Chosen, Active
<1>2. Within(m, m)'
  BY <1>1, NextWithin DEF Nesting
<1>3. ASSUME NEW d \in Prios, d >= m PROVE d >= p
  BY <1>3, KernelAssumption
<1> QED
  BY <1>2, <1>3 DEF Within

(* What ReadyComes says of a ready priority p is still so behind a step of *)
(* the context that executes.                                              *)
LEMMA AdvanceComes ==
  ASSUME NoGaps, QSizeFits, FewPriorities, IInv, IInv', Starting, CountInv, Calls,
         ChosenReady, Nesting, [Next]_vars, ~Exhausted, ~Exhausted', currQueue' = currQueue,
         NEW c \in Contexts, NEW from, NEW to, Advances(c, from, to),
         NEW p \in readySet, p \in Prios, Coming(p)
  PROVE  Coming(p)'
<1>0. /\ Executes(c) /\ c = currQueue /\ pc[c] = from /\ pc'[c] = to /\ Alone(c)
      /\ Stuck => Stuck'
  BY NextMask DEF Advances, Moves, Executes
<1>1. CASE currQueue # NULL /\ \E a \in Prios : Within(p, a)
  <2>1. PICK a \in Prios : Within(p, a)
    BY <1>1
  <2>2. Within(p, a)'
    BY <1>1, <2>1, NextWithin
  <2> QED
    BY <1>0, <1>1, <2>2 DEF Coming
<1>2. CASE Stuck /\ pendSV
  BY <1>0, <1>2 DEF Advances, Coming, Pending
<1>3. ASSUME ~pendSV, from = "read" PROVE Coming(p)'
  <2>1. to = "store" /\ cand'[c] \in ReadyQueue(readySet) /\ ~pendSV'
    BY <1>3 DEF Advances
  <2>2. PICK m \in Prios : m = cand'[c] /\ m >= p /\ ~Drained(m)
    BY <2>1, HighestIsSound
  <2>3. CASE AtRest(m)
    <3>1. m # c /\ AtRest(m)'
      BY <1>0, <1>3, <2>3 DEF AtRest, Alone, Contexts
    <3> QED
      BY <1>0, <2>1, <2>2, <3>1 DEF Coming, Chooser, Fresh
  <2>4. CASE ~AtRest(m)
    <3>1. currQueue # NULL
      BY <2>4 DEF Starting, AtRest
    <3>2. Within(p, m)'
      BY <2>2, <2>4, <3>1, ActiveWithin DEF Active
    <3> QED
      BY <1>0, <3>1, <3>2 DEF Coming
  <2> QED
    BY <2>3, <2>4
<1>4. ASSUME NEW x, Fresh(x, p), from \notin {"nostack", "loop"}
      PROVE  Fresh(x, p)' /\ x # c
  BY <1>0, <1>4 DEF Fresh, AtRest, Alone, Contexts
<1>5. CASE ~Stuck /\ pendSV /\ Pending(p)
  <2>1. from \in CriticalSections
    BY <1>0, <1>5, PendingWaits
  <2>2. nextQueue' = nextQueue /\ pendSV'
    BY <1>5, <2>1 DEF Advances, CriticalSections
  <2>3. CASE Fresh(nextQueue, p)
    BY <1>4, <2>1, <2>2, <2>3 DEF CriticalSections, Coming, Pending
  <2>4. CASE currQueue = NULL /\ \A q \in Prios : pc[q] = "nostack"
    <3>1. \A q \in Prios : pc'[q] = "nostack"
      BY <1>0, <2>4, KernelAssumption DEF Alone, Contexts
    <3> QED
      BY <2>2, <2>4, <3>1 DEF Coming, Pending
  <2> QED
    BY <1>5, <2>3, <2>4 DEF Pending
<1>6. CASE ~pendSV /\ Chooser(p)
  <2>1. CASE from = "read"
    BY <1>3, <1>6, <2>1
  <2>2. CASE from = "store" /\ Fresh(cand[c], p)
    <3>1. PICK x : x = cand[c] /\ Fresh(x, p)
      BY <2>2
    <3>2. nextQueue' = x /\ to = "compare" /\ ~pendSV' /\ Fresh(x, p)'
      BY <1>4, <1>6, <2>2, <3>1 DEF Advances
    <3> QED
      BY <1>0, <3>2 DEF Coming, Chooser
  <2>3. CASE from = "compare" /\ Fresh(nextQueue, p)
    <3>1. nextQueue' = nextQueue /\ ~pendSV' /\ Fresh(nextQueue, p)' /\ nextQueue # c
      BY <1>4, <1>6, <2>3 DEF Advances
    <3>2. to = "mark"
      BY <1>0, <2>3, <3>1 DEF Advances
    <3> QED
      BY <1>0, <3>1, <3>2 DEF Coming, Chooser
  <2>4. CASE from = "mark" /\ Fresh(nextQueue, p)
    <3>1. nextQueue' = nextQueue /\ ~pendSV' /\ Fresh(nextQueue, p)' /\ to = "pend"
      BY <1>4, <1>6, <2>4 DEF Advances
    <3> QED
      BY <1>0, <3>1 DEF Coming, Chooser
  <2>5. CASE from = "pend" /\ Fresh(nextQueue, p)
    <3>1. nextQueue' = nextQueue /\ pendSV' /\ Fresh(nextQueue, p)'
      BY <1>4, <2>5 DEF Advances
    <3> QED
      BY <3>1 DEF Coming, Pending
  <2>6. CASE currQueue = NULL /\ from \in {"initState", "initLock", "initCS"}
    <3>1. ~pendSV' /\ to \in {"initLock", "initCS", "read"}
      BY <1>6, <2>6 DEF Advances
    <3> QED
      BY <1>0, <2>6, <3>1 DEF Coming, Chooser
  <2> QED
    BY <1>0, <1>6, <2>1, <2>2, <2>3, <2>4, <2>5, <2>6 DEF Chooser
<1>7. CASE Asks(p) /\ ~(Stuck /\ pendSV)
  <2>1. PICK d \in Prios : /\ currQueue # NULL /\ d <= currQueue
                           /\ pc[d] = "read" /\ ret[d] \in {"task", "taskEnd"}
                           /\ arg[d] # NULL /\ TaskPrio[arg[d]] = p
    BY <1>7 DEF Asks
  <2>2. CASE d = c
    <3>1. ~pendSV
      BY <1>0, <1>7, <2>1, <2>2, PendingWaits DEF CriticalSections
    <3> QED
      BY <1>0, <1>3, <2>1, <2>2, <3>1
  <2>3. CASE d # c
    <3>1. pc'[d] = pc[d] /\ ret'[d] = ret[d] /\ arg'[d] = arg[d]
      BY <1>0, <2>3 DEF Alone, Contexts
    <3>2. Asks(p)'
      BY <2>1, <3>1 DEF Asks
    <3> QED
      BY <3>2 DEF Coming
  <2> QED
    BY <2>2, <2>3
<1> QED
  BY <1>1, <1>2, <1>5, <1>6, <1>7 DEF Coming

(* A priority that the step itself has made ready.                         *)
LEMMA NewlyReady ==
  ASSUME IInv, CountInv, Calls, Stuck => Stuck',
         NEW c \in Contexts, NEW from, NEW to, Advances(c, from, to),
         NEW p \in readySet', p \notin readySet
  PROVE  Coming(p)'
<1>0. /\ Executes(c) /\ c = currQueue /\ currQueue' = currQueue
      /\ pc[c] = from /\ pc'[c] = to /\ Alone(c)
  BY DEF Advances, Moves, Executes
<1>1. CASE c = NULL /\ from = "initQueue" /\ to = "initState"
  <2>1. IF pendSV THEN Stuck' /\ pendSV' ELSE ~pendSV'
    BY <1>0, <1>1, PendingWaits DEF CriticalSections, Advances
  <2> QED
    BY <1>0, <1>1, <2>1 DEF Coming, Pending, Chooser
<1>2. CASE /\ from = "actCS" /\ to = "read" /\ p = TaskPrio[arg[c]]
           /\ ret[c] \in {"task", "taskEnd", "main"}
           /\ arg[c] \in Tasks /\ UNCHANGED <<ret, arg>>
  <2>1. pendSV' = pendSV
    BY <1>2 DEF Advances
  <2>2. CASE ~pendSV
    BY <1>0, <1>2, <2>1, <2>2 DEF Coming, Chooser
  <2>3. CASE pendSV /\ c # NULL
    <3>1. c \in Prios /\ arg[c] # NULL /\ ret[c] # "main" /\ c <= c
      BY <1>0, <1>2, <2>3, KernelAssumption DEF Calls, Contexts
    <3>2. Asks(p)'
      BY <1>0, <1>2, <2>3, <3>1 DEF Asks
    <3> QED
      BY <3>2 DEF Coming
  <2>4. CASE pendSV /\ c = NULL
    <3>1. \A q \in Prios : pc'[q] = "nostack"
      BY <1>0, <1>2, <2>4, KernelAssumption DEF Calls, Alone, Contexts
    <3> QED
      BY <1>0, <2>1, <2>4, <3>1 DEF Coming, Pending
  <2> QED
    BY <2>2, <2>3, <2>4
<1> QED
  BY <1>1, <1>2 DEF Advances
LEMMA NextComing ==
  ASSUME NoGaps, QSizeFits, FewPriorities, IInv, IInv', Starting, CountInv, Calls,
         ChosenReady, Nesting, ReadyComes, [Next]_vars
  PROVE  ReadyComes'
<1>1. SUFFICES ASSUME mode' = "run", ~Exhausted', NEW p \in readySet' PROVE Coming(p)'
  BY DEF ReadyComes
<1>2. /\ ~Exhausted /\ p \in Prios /\ (p \in readySet => Coming(p))
      /\ Stuck => Stuck'
  BY <1>1, ExhaustedStays, FaultStays, NextMask DEF ReadyComes, IInv, TypeOK
<1>3. ASSUME NEW c \in Contexts, NEW from, NEW to, Advances(c, from, to)
      PROVE  Coming(p)'
  <2>1. currQueue' = currQueue
    BY <1>3 DEF Advances, Moves
  <2> QED
    BY <1>1, <1>2, <1>3, <2>1, AdvanceComes, NewlyReady
<1>4. CASE Handles
  <2>1. PICK m \in Prios : m = nextQueue' /\ m >= p /\ ~Drained(m)
    BY <1>1, <1>4, HandledIsSound
  <2>2. UNCHANGED <<currQueue, ctxVars>>
    BY <1>4 DEF Handles
  <2>3. CASE AtRest(m) /\ m # currQueue
    BY <1>4, <2>1, <2>2, <2>3 DEF Handles, Coming, Pending, Fresh, AtRest, ctxVars
  <2>4. CASE ~AtRest(m) \/ m = currQueue
    <3>1. currQueue # NULL
      BY <2>4, KernelAssumption DEF Starting, AtRest
    <3>2. Within(p, m)'
      BY <1>1, <1>2, <2>1, <2>2, <2>4, <3>1, ActiveWithin DEF Active
    <3> QED
      BY <2>2, <3>1, <3>2 DEF Coming
  <2> QED
    BY <2>3, <2>4
<1>5. CASE contextSwitchISR
  <2>1. /\ nextQueue \in Prios /\ pc[nextQueue] # "nostack" /\ currQueue' = nextQueue
        /\ UNCHANGED <<readySet, nextQueue, ctxVars>> /\ pendSV /\ ~Stuck
        /\ currQueue' # NULL
    BY <1>1, <1>5, KernelAssumption DEF contextSwitchISR, osVars, Stuck
  <2>2. CASE currQueue # NULL /\ \E a \in Prios : Within(p, a)
    <3>1. PICK a \in Prios : Within(p, a)
      BY <2>2
    <3>2. Within(p, a)'
      BY <1>1, <1>2, <2>1, <2>2, <3>1, NextWithin
    <3> QED
      BY <2>1, <3>2 DEF Coming
  <2>3. CASE Fresh(nextQueue, p)
    <3>1. PICK a \in Prios : a = nextQueue /\ a >= p /\ pc[a] # "store"
      BY <2>3 DEF Fresh, AtRest
    <3>2. {a} \in SUBSET {d \in Prios : d >= p}
      BY <3>1
    <3>3. {a, currQueue', nextQueue'} \subseteq {a}
      BY <2>1, <3>1
    <3>4. \A d \in {a} : pc'[d] = "store" => cand'[d] \in {a}
      BY <2>1, <3>1 DEF ctxVars
    <3>5. Within(p, a)'
      BY <3>2, <3>3, <3>4, WithinIntro
    <3> QED
      BY <2>1, <3>5 DEF Coming
  <2>4. CASE Asks(p)
    <3>1. PICK d \in Prios : /\ currQueue # NULL /\ d <= currQueue
                             /\ pc[d] = "read" /\ ret[d] \in {"task", "taskEnd"}
                             /\ arg[d] # NULL /\ TaskPrio[arg[d]] = p
      BY <2>4 DEF Asks
    <3>2. Within(d, d)
      BY <1>2, <3>1 DEF Nesting, Active, AtRest, Drained
    <3>3. d <= nextQueue
      BY <3>2, KernelAssumption DEF Within
    <3>4. Asks(p)'
      BY <2>1, <3>1, <3>3 DEF Asks, ctxVars
    <3> QED
      BY <3>4 DEF Coming
  <2> QED
    BY <1>2, <2>1, <2>2, <2>3, <2>4 DEF Coming, Pending
<1>6. ASSUME NEW q \in Prios, InitQueue(q) PROVE Coming(p)'
  <2>1. /\ Executes(NULL) /\ currQueue = NULL /\ pc[NULL] = "initQueue"
        /\ UNCHANGED <<readySet, pendSV>>
    BY <1>6, InitQueueMoves DEF Executes
  <2>2. pendSV
    BY <1>2, <2>1 DEF Coming, Chooser, Asks
  <2>3. Stuck
    BY <2>1, <2>2, PendingWaits DEF Contexts, CriticalSections
  <2> QED
    BY <1>2, <2>1, <2>2, <2>3 DEF Coming, Pending
<1>7. CASE Still
  <2>1. /\ UNCHANGED <<readySet, currQueue, nextQueue, pendSV, pc, ret, arg, cand>>
    BY <1>7 DEF Still, osVars, ctxVars
  <2>2. CASE currQueue # NULL /\ \E a \in Prios : Within(p, a)
    <3>1. PICK a \in Prios : Within(p, a)
      BY <2>2
    <3>2. Within(p, a)'
      BY <1>1, <1>2, <2>1, <2>2, <3>1, NextWithin
    <3> QED
      BY <2>1, <2>2, <3>2 DEF Coming
  <2>3. CASE pendSV /\ Pending(p)
    BY <1>2, <2>1, <2>3 DEF Coming, Pending, Fresh, AtRest
  <2>4. CASE ~pendSV /\ Chooser(p)
    BY <2>1, <2>4 DEF Coming, Chooser, Fresh, AtRest
  <2>5. CASE Asks(p)
    BY <2>1, <2>5 DEF Coming, Asks
  <2> QED
    BY <1>2, <2>1, <2>2, <2>3, <2>4, <2>5 DEF Coming
<1> QED
  BY <1>3, <1>4, <1>5, <1>6, <1>7, ControlSteps
-----------------------------------------------------------------------------
(***************************************************************************)
(* The theorems.                                                           *)
(***************************************************************************)
(* Once StartOS has set it, idle's bit stays set until idle's dispatcher   *)
(* has drained.                                                            *)
IdleReady ==
  (pc[NULL] \in {"initState", "initLock", "initCS", "lost"} \/
     (pc[NULL] \in Schedulers /\ ret[NULL] = "lost"))
  => TaskPrio[idle] \in readySet \/ Drained(TaskPrio[idle])

LEMMA NextIdleReady ==
  ASSUME QSizeFits, IInv, IdleReady, [Next]_vars
  PROVE  IdleReady'
<1> DEFINE w == TaskPrio[idle]
           In == pc[NULL] \in {"initState", "initLock", "initCS", "lost"} \/
                   (pc[NULL] \in Schedulers /\ ret[NULL] = "lost")
<1>0. w \in Prios /\ NULL \in Contexts /\ NULL \notin Prios /\ Prios \subseteq Contexts
  BY KernelAssumption DEF Contexts
<1>1. (w \in readySet \/ Drained(w)) => (w \in readySet' \/ Drained(w)')
  BY <1>0, NextOnward DEF Onward
<1>2. ASSUME NEW c \in Prios, NEW from, NEW to, Moves(c, from, to) PROVE In' => In
  BY <1>0, <1>2 DEF Moves, Alone
<1>3. SUFFICES ASSUME In', ~In PROVE w \in readySet'
  BY <1>1 DEF IdleReady
<1> USE DEF Schedulers
<1>4. CASE MainActivate \/ StartOS
  BY <1>3, <1>4, MainCalls DEF Moves
<1>5. CASE InitReady \/ InitState \/ InitPush
  BY <1>3, <1>5, InitMoves, InitPushMoves DEF Moves
<1>6. ASSUME NEW p \in Prios, InitQueue(p) PROVE FALSE
  BY <1>0, <1>3, <1>6, InitQueueMoves
<1>7. ASSUME NEW c \in Contexts,
             \/ Lock(c) \/ ActivateTask(c)
             \/ ScheduleRead(c) \/ ScheduleStore(c) \/ ScheduleCompare(c)
             \/ ScheduleMark(c) \/ SchedulePend(c)
      PROVE  FALSE
  <2>1. c = NULL
    BY <1>2, <1>3, <1>7, LockMoves, ActivateTaskMoves, ScheduleReadMoves,
       ScheduleStoreMoves, ScheduleCompareMoves, ScheduleMarkMoves,
       SchedulePendMoves DEF Contexts
  <2> QED
    BY <1>3, <1>7, <2>1, LockMoves, ActivateTaskMoves, ScheduleReadMoves,
       ScheduleStoreMoves, ScheduleCompareMoves, ScheduleMarkMoves,
       SchedulePendMoves DEF Moves
<1>8. ASSUME NEW c \in Prios,
             \/ DispatchTask(c) \/ LeaveLoop(c) \/ ClearReadyBit(c)
             \/ TaskReturns(c) \/ Body(c) \/ TerminateTask(c)
             \/ ChainContinues(c)
      PROVE  FALSE
  <2>1. CASE DispatchTask(c) \/ LeaveLoop(c) \/ ClearReadyBit(c) \/ TaskReturns(c)
    BY <1>2, <1>3, <2>1, DispatchTaskMoves, LeaveLoopMoves, ClearReadyBitMoves,
       TaskReturnsMoves
  <2>2. CASE Body(c) \/ TerminateTask(c) \/ ChainContinues(c)
    BY <1>2, <1>3, <2>2, BodyMoves, TerminateTaskMoves, ChainContinuesMoves
  <2> QED
    BY <1>8, <2>1, <2>2
<1>9. CASE tickHandler \/ contextSwitchISR \/ Still
  BY <1>3, <1>9 DEF tickHandler, contextSwitchISR, Still, ctxVars
<1>10. ASSUME NEW t \in IsrTasks, IsrActivateTask(t) PROVE FALSE
  BY <1>3, <1>10 DEF IsrActivateTask, ctxVars
<1> QED
  BY <1>4, <1>5, <1>6, <1>7, <1>8, <1>9, <1>10, Steps

(* The inductive invariant behind the theorems.                            *)
OrderInv == /\ IInv /\ Starting /\ CountInv
            /\ Calls /\ IdleReady /\ ChosenReady /\ Nesting /\ ReadyComes

LEMMA OrderInvariance ==
  ASSUME QSizeFits, HandlersSpareIdle, FewPriorities, NoGaps
  PROVE  Spec => []OrderInv
<1>1. Init => OrderInv
  <2>1. ASSUME Init PROVE Calls /\ IdleReady /\ ChosenReady /\ Nesting /\ ReadyComes
    BY <2>1, KernelAssumption DEF Init, Calls, IdleReady, ChosenReady, Chosen, AtRest,
       Nesting, ReadyComes, Schedulers, Contexts
  <2>2. ASSUME Init PROVE IInv /\ Starting
    BY <2>2, InitIInv, KernelAssumption DEF Init, Starting, Contexts
  <2> QED
    BY <2>1, <2>2, InitMask DEF OrderInv
<1>2. OrderInv /\ [Next]_vars => OrderInv'
  <2>1. SUFFICES ASSUME OrderInv, [Next]_vars PROVE OrderInv'
    OBVIOUS
  <2>2. IInv' /\ Starting'
    BY <2>1, NextIInv, NextStarting DEF OrderInv
  <2>3. CountInv' /\ Calls' /\ IdleReady'
    BY <2>1, NextMask, NextCalls, NextIdleReady DEF OrderInv
  <2>4. ChosenReady'
    BY <2>1, <2>2, NextChosen DEF OrderInv
  <2>5. Nesting'
    BY <2>1, <2>2, NextNesting DEF OrderInv
  <2>6. ReadyComes'
    BY <2>1, <2>2, NextComing DEF OrderInv
  <2> QED
    BY <2>2, <2>3, <2>4, <2>5, <2>6 DEF OrderInv
<1> QED
  BY <1>1, <1>2, PTL DEF Spec

(* Above the executing priority no context is stopped in the middle of a   *)
(* task, through any sequence of activations, interrupts and switches, as  *)
(* long as no drained priority has got work again (osek.c:339-351).        *)
THEOREM ContextsNest ==
  ASSUME QSizeFits, HandlersSpareIdle, FewPriorities, NoGaps
  PROVE  Spec => []ProperlyNested
<1>1. ASSUME OrderInv PROVE ProperlyNested
  <2>1. SUFFICES ASSUME NEW p \in Prios, ~Exhausted, currQueue # NULL, p > currQueue,
                        Active(p)
                 PROVE  FALSE
    BY DEF ProperlyNested, Active, AtRest
  <2>2. Within(p, p)
    BY <1>1, <2>1 DEF OrderInv, Nesting
  <2>3. currQueue \in Prios /\ currQueue >= p
    BY <2>2 DEF Within
  <2>4. currQueue \in Nat /\ p \in Nat
    BY <2>3, KernelAssumption
  <2> QED
    BY <2>1, <2>3, <2>4
<1> QED
  BY <1>1, OrderInvariance, PTL

(* A ready priority above the executing one is on its way, but for one     *)
(* that the critical section of its activation cut off from its Schedule() *)
(* (osek.c:211-227, 342-348).                                              *)
THEOREM PreemptionComes ==
  ASSUME QSizeFits, HandlersSpareIdle, FewPriorities, NoGaps
  PROVE  Spec => []NoMissedPreemption
<1>1. ASSUME OrderInv PROVE NoMissedPreemption
  <2>1. SUFFICES ASSUME NEW p \in readySet, mode = "run", ~Exhausted,
                        currQueue # NULL, p > currQueue, ~pendSV
                 PROVE  pc[currQueue] \in Schedulers \/ CutOff(p)
    BY DEF NoMissedPreemption
  <2>2. p \in Prios /\ currQueue \in Prios /\ Prios \subseteq Nat
    BY <1>1, <2>1, KernelAssumption DEF OrderInv, IInv, TypeOK, Contexts
  <2>3. Coming(p)
    BY <1>1, <2>1 DEF OrderInv, ReadyComes
  <2>4. \A a \in Prios : ~Within(p, a)
    BY <2>1, <2>2 DEF Within
  <2>5. CASE Chooser(p)
    BY <2>1, <2>5 DEF Chooser, Schedulers
  <2>6. CASE Asks(p)
    <3>1. PICK c \in Prios : /\ c <= currQueue
                             /\ pc[c] = "read" /\ ret[c] \in {"task", "taskEnd"}
                             /\ arg[c] # NULL /\ TaskPrio[arg[c]] = p
      BY <2>6 DEF Asks
    <3>2. c < currQueue \/ c = currQueue
      BY <2>2, <3>1
    <3> QED
      BY <2>1, <3>1, <3>2 DEF CutOff, Schedulers
  <2> QED
    BY <2>1, <2>3, <2>4, <2>5, <2>6 DEF Coming
<1> QED
  BY <1>1, OrderInvariance, PTL

(* "The following code should never execute": Schedule(), called by        *)
(* StartOS, finds idle ready and hands the core over (osek.c:182, 675).    *)
THEOREM StartOSNeverReturns ==
  ASSUME QSizeFits, HandlersSpareIdle, FewPriorities, NoGaps
  PROVE  Spec => []StartOSKeepsControl
<1>1. ASSUME OrderInv PROVE StartOSKeepsControl
  <2>1. SUFFICES ASSUME Executes(NULL), pc[NULL] = "lost" PROVE FALSE
    BY DEF StartOSKeepsControl
  <2>2. currQueue = NULL /\ mode = "run" /\ NULL \in Contexts
    BY <2>1 DEF Executes, Contexts
  <2>3. \A p \in Prios : pc[p] \in {"nostack", "loop"}
    BY <1>1, <2>2 DEF OrderInv, Starting
  <2>4. \A p \in Prios : ~Drained(p)
    BY <1>1, <2>3 DEF OrderInv, IInv, Control, Frame, Returns, Schedulers, Drained,
       Contexts
  <2>5. ~Exhausted /\ TaskPrio[idle] \in readySet
    BY <1>1, <2>1, <2>4, KernelAssumption DEF Exhausted, OrderInv, IdleReady
  <2>6. Coming(TaskPrio[idle])
    BY <1>1, <2>2, <2>5 DEF OrderInv, ReadyComes
  <2>7. ~Stuck
    BY <2>2, <2>3 DEF Stuck, Exported, CriticalSections, Contexts
  <2>8. ~pendSV
    BY <1>1, <2>1, <2>2, <2>7, PendingWaits DEF OrderInv, CriticalSections
  <2> QED
    BY <2>1, <2>2, <2>6, <2>8 DEF Coming, Chooser, Asks
<1> QED
  BY <1>1, OrderInvariance, PTL

(* A context in ShutdownOS leaves it by no step, and control passes to no  *)
(* lower priority (osek.c:706-712).                                        *)
THEOREM ShutdownStays ==
  ASSUME QSizeFits, HandlersSpareIdle, FewPriorities, NoGaps
  PROVE  Spec => ShutdownIsFinal
<1>1. ASSUME OrderInv, [Next]_vars, NEW p \in Prios, pc[p] = "shutdown", ~Exhausted
      PROVE  pc'[p] = "shutdown" /\ currQueue' >= p
  <2>1. p \in Contexts /\ currQueue # NULL
    BY <1>1 DEF OrderInv, Starting, Contexts
  <2>2. Active(p)
    BY <1>1, <2>1 DEF OrderInv, IInv, Control, Frame, Returns, Schedulers, Active,
       AtRest, Drained
  <2>3. currQueue >= p /\ nextQueue >= p
    BY <1>1, <2>1, <2>2 DEF OrderInv, Nesting, Within
  <2>4. currQueue' \in {currQueue, nextQueue} /\ pc'[p] = "shutdown"
    <3>1. ASSUME NEW c \in Contexts, NEW from, NEW to, Advances(c, from, to)
          PROVE  currQueue' = currQueue /\ pc'[p] = pc[p]
      BY <1>1, <2>1, <3>1 DEF Advances, Moves, Alone
    <3>2. ASSUME NEW q \in Prios, InitQueue(q) PROVE FALSE
      BY <1>1, <2>1, <3>2, InitQueueMoves DEF Executes, OrderInv
    <3>3. CASE Handles \/ contextSwitchISR \/ Still
      BY <1>1, <3>3 DEF Handles, contextSwitchISR, Still, ctxVars
    <3> QED
      BY <1>1, <3>1, <3>2, <3>3, ControlSteps DEF OrderInv
  <2> QED
    BY <2>3, <2>4
<1>2. OrderInv /\ [Next]_vars =>
        [\A p \in Prios : (pc[p] = "shutdown" /\ ~Exhausted) =>
            pc'[p] = "shutdown" /\ currQueue' >= p]_vars
  BY <1>1
<1> QED
  BY <1>2, OrderInvariance, PTL DEF Spec, ShutdownIsFinal
-----------------------------------------------------------------------------
(***************************************************************************)
(* Switches and critical sections.                                         *)
(***************************************************************************)
(* In the window between counting and masking: a higher ready priority has *)
(* been cut off, and a switch that is pending leads to the highest.        *)
InWindow(c) == currQueue = c /\ pc[c] \in CriticalSections /\ ~masked
WindowOpen ==
  (~Exhausted /\ currQueue # NULL /\ InWindow(currQueue)) =>
    /\ \A p \in readySet : p > currQueue => CutOff(p)
    /\ pendSV => /\ nextQueue \in readySet \ {currQueue}
                 /\ \A p \in readySet : p <= nextQueue

(* main() stays in its window undisturbed.                                 *)
MainAlone == (currQueue = NULL /\ pc[NULL] \in CriticalSections) => ~pendSV

(* Behind a switch out of the window, until a critical section is left,    *)
(* the executing priority is the highest and no switch is on its way.      *)
AtTop == /\ ~pendSV /\ nextQueue = currQueue /\ currQueue \in readySet
         /\ \A p \in readySet : p <= currQueue
         /\ pc[currQueue] = "store" => cand[currQueue] = currQueue
         /\ pc[currQueue] \notin {"mark", "pend"}
ExportedAtTop == (~Exhausted /\ Exported /\ ~masked) => AtTop

(* Exported sections are counted.                                          *)
LEMMA SectionCounted ==
  ASSUME FewPriorities, CountInv, NEW c \in Contexts, pc[c] \in CriticalSections
  PROVE  disableCount # 0
<1>1. c \in InSection /\ disableCount = Cardinality(InSection)
  BY DEF InSection, CountInv
<1> QED
  BY <1>1, SectionsFinite, FS_EmptySet

LEMMA SectionCountedNext ==
  ASSUME FewPriorities, CountInv', NEW c \in Contexts, pc'[c] \in CriticalSections
  PROVE  disableCount' # 0
<1> DEFINE I == {d \in Contexts : pc'[d] \in CriticalSections}
<1>1. IsFiniteSet(Contexts)
  BY FS_AddElement DEF FewPriorities, Contexts
<1>2. IsFiniteSet(I) /\ c \in I /\ disableCount' = Cardinality(I)
  BY <1>1, FS_Subset DEF CountInv, InSection
<1> QED
  BY <1>2, FS_EmptySet

(* The executing context, while it is in a section, is a ready one.        *)
LEMMA SectionReady ==
  ASSUME OrderInv, currQueue # NULL, pc[currQueue] \in CriticalSections
  PROVE  currQueue \in readySet /\ currQueue \in Prios
<1>1. currQueue \in Prios /\ currQueue \in Contexts
  BY DEF OrderInv, IInv, TypeOK, Contexts
<1>2. ~Drained(currQueue)
  BY <1>1 DEF OrderInv, IInv, Control, Frame, Returns, Schedulers, CriticalSections,
     Drained
<1> QED
  BY <1>1, <1>2 DEF OrderInv, ChosenReady, Chosen

LEMMA NextWindow ==
  ASSUME QSizeFits, FewPriorities, NoGaps, OrderInv, OrderInv', NoMissedPreemption,
         WindowOpen, ExportedAtTop, [Next]_vars
  PROVE  WindowOpen'
<1>1. SUFFICES ASSUME ~Exhausted', currQueue' # NULL, InWindow(currQueue)'
               PROVE  /\ \A p \in readySet' : p > currQueue' => CutOff(p)'
                      /\ pendSV' => /\ nextQueue' \in readySet' \ {currQueue'}
                                    /\ \A p \in readySet' : p <= nextQueue'
  BY DEF WindowOpen
<1>2. ~Exhausted /\ ~masked' /\ pc'[currQueue'] \in CriticalSections
  BY <1>1, ExhaustedStays DEF OrderInv, InWindow
<1>3. ASSUME NEW c \in Contexts, NEW from, NEW to, Advances(c, from, to)
      PROVE  WindowOpen'
  <2>1. /\ c = currQueue /\ c \in Prios /\ currQueue' = c /\ Executes(c)
        /\ pc[c] = from /\ pc'[c] = to /\ Alone(c) /\ to \in CriticalSections
    BY <1>1, <1>2, <1>3 DEF Advances, Moves, Executes, Contexts
  <2>2. /\ masked' = masked /\ readySet' = readySet /\ ~pendSV /\ ~pendSV'
        /\ from \notin Schedulers
    <3>1. from \notin Schedulers \cup CriticalSections
      BY <1>3, <2>1 DEF Advances
    <3>2. masked' = masked /\ readySet' = readySet
      BY <1>3, <2>1, <3>1, KernelAssumption DEF Advances
    <3>3. ~pendSV
      BY <1>2, <2>1, <3>2 DEF Executes
    <3> QED
      BY <1>3, <3>1, <3>2, <3>3 DEF Advances, Schedulers
  <2>3. ASSUME NEW p \in readySet, p > c PROVE CutOff(p)'
    <3>1. CutOff(p)
      BY <1>2, <2>1, <2>2, <2>3, KernelAssumption DEF NoMissedPreemption, Executes
    <3> QED
      BY <2>1, <3>1, KernelAssumption DEF CutOff, Alone, Contexts
  <2> QED
    BY <2>1, <2>2, <2>3 DEF WindowOpen
<1>4. CASE /\ currQueue' = currQueue /\ UNCHANGED <<readySet, masked, ctxVars>>
           /\ \/ Handles
              \/ UNCHANGED nextQueue /\ (pendSV' = pendSV \/ pendSV' = FALSE)
  <2>1. /\ currQueue # NULL /\ InWindow(currQueue)
        /\ \A p \in readySet : p > currQueue => CutOff(p)'
    BY <1>1, <1>2, <1>4 DEF InWindow, WindowOpen, CutOff, ctxVars
  <2>2. currQueue \in readySet /\ readySet \in SUBSET Prios
    BY <2>1, SectionReady DEF InWindow, OrderInv, IInv, TypeOK
  <2>3. pendSV => /\ nextQueue \in readySet \ {currQueue}
                  /\ \A p \in readySet : p <= nextQueue
    BY <1>2, <2>1 DEF WindowOpen
  <2>4. CASE Handles
    <3>1. nextQueue' \in readySet /\ \A p \in readySet : p <= nextQueue'
      <4> DEFINE m == nextQueue'
      <4>1. m \in ReadyQueue(readySet)
        BY <1>4, <2>4 DEF Handles
      <4> HIDE DEF m
      <4>2. m \in readySet /\ \A p \in readySet : p <= m
        BY <2>2, <4>1, ReadyIsHighest
      <4> QED
        BY <4>2 DEF m
    <3>2. pendSV' => nextQueue' # currQueue
      <4>1. SUFFICES ASSUME nextQueue' = currQueue PROVE ~pendSV'
        OBVIOUS
      <4>2. pendSV' = pendSV
        BY <2>4, <4>1 DEF Handles
      <4>3. ASSUME pendSV PROVE FALSE
        <5>1. nextQueue \in readySet /\ nextQueue # currQueue
              /\ currQueue <= nextQueue /\ nextQueue <= currQueue
          BY <2>2, <2>3, <3>1, <4>1, <4>3
        <5>2. nextQueue \in Nat /\ currQueue \in Nat
          BY <2>2, <5>1, KernelAssumption
        <5> QED
          BY <5>1, <5>2
      <4> QED
        BY <4>2, <4>3
    <3> QED
      BY <1>4, <2>1, <3>1, <3>2 DEF WindowOpen
  <2>5. CASE UNCHANGED nextQueue /\ (pendSV' = pendSV \/ pendSV' = FALSE)
    BY <1>4, <2>1, <2>3, <2>5 DEF WindowOpen
  <2> QED
    BY <1>4, <2>4, <2>5
<1>5. CASE Handles
  <2>1. /\ currQueue' = currQueue /\ UNCHANGED ctxVars
        /\ currQueue \in Contexts /\ pc[currQueue] \in CriticalSections
    BY <1>2, <1>5 DEF Handles, OrderInv, IInv, TypeOK, ctxVars
  <2>2. disableCount # 0
    BY <2>1, SectionCounted DEF OrderInv
  <2>3. UNCHANGED <<readySet, masked>>
    BY <1>2, <1>5, <2>2 DEF Handles
  <2> QED
    BY <1>4, <1>5, <2>1, <2>3
<1>6. CASE contextSwitchISR
  <2>1. /\ UNCHANGED <<readySet, masked, ctxVars, nextQueue, queues>> /\ pendSV /\ ~masked
        /\ pendSV' = FALSE /\ currQueue' \in {currQueue, nextQueue}
    BY <1>6 DEF contextSwitchISR, osVars, lockVars
  <2>2. CASE currQueue' = currQueue
    BY <1>4, <2>1, <2>2
  <2>3. CASE currQueue' # currQueue
    <3>1. Exported
      BY <1>2, <2>1, <2>3 DEF Exported, OrderInv, IInv, TypeOK, ctxVars
    <3> QED
      BY <1>2, <2>1, <3>1 DEF ExportedAtTop, AtTop
  <2> QED
    BY <2>2, <2>3
<1>7. CASE Still
  BY <1>4, <1>7 DEF Still, osVars, lockVars
<1>8. ASSUME NEW p \in Prios, InitQueue(p) PROVE FALSE
  BY <1>1, <1>8, InitQueueMoves DEF Executes, OrderInv
<1> QED
  BY <1>1, <1>3, <1>5, <1>6, <1>7, <1>8, ControlSteps DEF OrderInv, WindowOpen

LEMMA NextMainAlone ==
  ASSUME QSizeFits, FewPriorities, ~EarlyInterrupts, OrderInv, MainAlone, [Next]_vars
  PROVE  MainAlone'
<1>1. SUFFICES ASSUME currQueue' = NULL, pc'[NULL] \in CriticalSections PROVE ~pendSV'
  BY DEF MainAlone
<1>2. ASSUME NEW c \in Contexts, NEW from, NEW to, Advances(c, from, to)
      PROVE  ~pendSV'
  <2>1. /\ c = NULL /\ currQueue = NULL /\ Executes(c) /\ pc[c] = from
        /\ to \in CriticalSections /\ from \notin Schedulers
    BY <1>1, <1>2 DEF Advances, Moves, Executes
  <2>2. pendSV' = pendSV
    BY <1>2, <2>1 DEF Advances, Schedulers
  <2>3. ~Stuck
    BY <2>1 DEF Stuck, Exported, OrderInv, Starting, CriticalSections, Contexts
  <2>4. ~pendSV
    BY <1>2, <2>1, <2>3, PendingWaits DEF OrderInv, MainAlone, Advances
  <2> QED
    BY <2>2, <2>4
<1>3. CASE Handles
  BY <1>1, <1>3 DEF Handles
<1>4. CASE contextSwitchISR
  BY <1>4 DEF contextSwitchISR
<1>5. CASE Still
  BY <1>1, <1>5 DEF Still, MainAlone, ctxVars
<1>6. ASSUME NEW p \in Prios, InitQueue(p) PROVE FALSE
  BY <1>1, <1>6, InitQueueMoves, KernelAssumption DEF Contexts, OrderInv, CriticalSections
<1> QED
  BY <1>2, <1>3, <1>4, <1>5, <1>6, ControlSteps DEF OrderInv

LEMMA NextExported ==
  ASSUME QSizeFits, FewPriorities, NoGaps, ~EarlyInterrupts, OrderInv, OrderInv',
         ProperlyNested, WindowOpen, MainAlone, ExportedAtTop, [Next]_vars
  PROVE  ExportedAtTop'
<1>1. SUFFICES ASSUME ~Exhausted', Exported', ~masked' PROVE AtTop'
  BY DEF ExportedAtTop
<1>2. PICK d \in Contexts : d # currQueue' /\ pc'[d] \in CriticalSections
  BY <1>1 DEF Exported
<1>3. ~Exhausted /\ disableCount' # 0 /\ readySet \in SUBSET Prios
  BY <1>1, <1>2, ExhaustedStays, SectionCountedNext DEF OrderInv, IInv, TypeOK
<1>4. ASSUME AtTop, NEW m \in ReadyQueue(readySet) PROVE m = currQueue
  <2>1. m \in readySet /\ currQueue \in readySet /\ m <= currQueue /\ currQueue <= m
    BY <1>3, <1>4, ReadyIsHighest DEF AtTop
  <2>2. m \in Nat /\ currQueue \in Nat
    BY <1>3, <2>1, KernelAssumption
  <2> QED
    BY <2>1, <2>2
<1>5. ASSUME NEW c \in Contexts, NEW from, NEW to, Advances(c, from, to)
      PROVE  AtTop'
  <2>1. /\ c = currQueue /\ currQueue' = currQueue /\ pc[c] = from /\ pc'[c] = to
        /\ Alone(c)
    BY <1>5 DEF Advances, Moves, Executes
  <2>2. Exported
    BY <1>2, <2>1 DEF Exported, Alone
  <2>3. c # NULL
    BY <2>1, <2>2 DEF Exported, OrderInv, Starting, CriticalSections, Contexts
  <2>4. masked' = masked /\ readySet' = readySet
    BY <1>1, <1>3, <1>5, <2>3 DEF Advances
  <2>5. AtTop
    BY <1>1, <1>3, <2>2, <2>4 DEF ExportedAtTop
  <2>6. ~pendSV' /\ nextQueue' = currQueue' /\ to \notin {"mark", "pend"}
    BY <1>5, <2>1, <2>5 DEF AtTop, Advances
  <2>7. to = "store" => cand'[c] = currQueue
    BY <1>4, <1>5, <2>5 DEF Advances
  <2> QED
    BY <2>1, <2>4, <2>5, <2>6, <2>7 DEF AtTop
<1>6. CASE Handles
  <2>1. currQueue' = currQueue /\ UNCHANGED <<readySet, masked, ctxVars>>
    <3>1. disableCount # 0
      BY <1>2, <1>6, SectionCounted DEF Handles, ctxVars, OrderInv
    <3> QED
      BY <1>1, <1>6, <3>1 DEF Handles
  <2>2. AtTop
    BY <1>1, <1>2, <1>3, <2>1 DEF ExportedAtTop, Exported, ctxVars
  <2>3. nextQueue' = currQueue
    <3> DEFINE m == nextQueue'
    <3>1. m \in ReadyQueue(readySet)
      BY <1>6, <2>1 DEF Handles
    <3> HIDE DEF m
    <3>2. m = currQueue
      BY <1>4, <2>2, <3>1
    <3> QED
      BY <3>2 DEF m
  <2>4. pendSV' = pendSV
    BY <1>6, <2>3 DEF Handles
  <2> QED
    BY <2>1, <2>2, <2>3, <2>4 DEF AtTop, ctxVars
<1>7. CASE contextSwitchISR
  <2>1. /\ UNCHANGED <<readySet, masked, ctxVars, nextQueue>> /\ pendSV /\ ~masked
        /\ ~pendSV' /\ currQueue' \in {currQueue, nextQueue}
    BY <1>7 DEF contextSwitchISR, osVars, lockVars
  <2>2. d = currQueue /\ pc[d] \in CriticalSections
    BY <1>2, <1>3, <2>1 DEF ExportedAtTop, AtTop, Exported, ctxVars
  <2>3. currQueue # NULL
    BY <2>1, <2>2 DEF MainAlone
  <2>4. /\ nextQueue \in readySet \ {currQueue} /\ \A p \in readySet : p <= nextQueue
        /\ currQueue \in readySet
    BY <1>3, <2>1, <2>2, <2>3, SectionReady DEF WindowOpen, InWindow
  <2>5. currQueue' = nextQueue
    BY <1>2, <2>1, <2>2
  <2>6. nextQueue > currQueue
    <3>1. nextQueue \in Nat /\ currQueue \in Nat /\ currQueue <= nextQueue
          /\ nextQueue # currQueue
      BY <1>3, <2>4, KernelAssumption
    <3> QED
      BY <3>1
  <2>7. ~Drained(nextQueue)
    BY <1>3, <2>4 DEF OrderInv, IInv, ReadyBitJustified, Exhausted
  <2>8. pc[nextQueue] \in {"nostack", "loop"}
    BY <1>3, <2>3, <2>4, <2>6, <2>7 DEF ProperlyNested
  <2> QED
    BY <2>1, <2>4, <2>5, <2>8 DEF AtTop, ctxVars
<1>8. CASE Still
  BY <1>1, <1>2, <1>3, <1>8 DEF Still, osVars, lockVars, ctxVars, ExportedAtTop,
     Exported, AtTop
<1>9. ASSUME NEW p \in Prios, InitQueue(p) PROVE FALSE
  <2>1. /\ currQueue = NULL /\ currQueue' = currQueue /\ pc'[p] = "loop"
        /\ \A e \in Contexts : e # p => pc'[e] = pc[e]
    BY <1>9, InitQueueMoves DEF Executes, OrderInv
  <2> QED
    BY <1>2, <2>1 DEF OrderInv, Starting, CriticalSections, Contexts
<1> QED
  BY <1>5, <1>6, <1>7, <1>8, <1>9, ControlSteps DEF OrderInv

(* The core changes context with the nesting counter up only when the      *)
(* switch leaves a window of osek.c:461-462 for a priority whose activation *)
(* by a lower context was cut off before; with interrupts let in only once *)
(* a task runs.                                                            *)
THEOREM SwitchesUnlocked ==
  ASSUME QSizeFits, HandlersSpareIdle, FewPriorities, NoGaps, ~EarlyInterrupts
  PROVE  Spec => SwitchOnlyUnlocked
<1> DEFINE WInv == WindowOpen /\ MainAlone /\ ExportedAtTop
<1>1. Init => WInv
  BY DEF Init, WindowOpen, MainAlone, ExportedAtTop, Exported, CriticalSections, Contexts
<1>2. /\ OrderInv /\ OrderInv' /\ ProperlyNested /\ NoMissedPreemption
      /\ WInv /\ [Next]_vars
      => WInv'
  BY NextWindow, NextMainAlone, NextExported
<1>3. ASSUME OrderInv, WInv, [Next]_vars, currQueue' # currQueue
      PROVE  disableCount = 0 \/ Exhausted \/ CutOff(currQueue')
  <2>1. SUFFICES ASSUME disableCount # 0, ~Exhausted PROVE CutOff(currQueue')
    OBVIOUS
  <2>2. contextSwitchISR
    BY <1>3, ControlSteps, InitQueueMoves DEF Advances, Moves, Handles, Still, OrderInv
  <2>3. pendSV /\ ~masked /\ currQueue' = nextQueue /\ nextQueue # currQueue
    BY <1>3, <2>2 DEF contextSwitchISR
  <2>4. PICK d \in Contexts : pc[d] \in CriticalSections
    <3>1. InSection # {}
      BY <1>3, <2>1, FS_EmptySet DEF OrderInv, CountInv, InSection
    <3> QED
      BY <3>1 DEF InSection
  <2>5. d = currQueue
    BY <1>3, <2>1, <2>3, <2>4 DEF ExportedAtTop, AtTop, Exported
  <2>6. currQueue # NULL
    BY <1>3, <2>3, <2>4, <2>5 DEF MainAlone
  <2>7. /\ currQueue \in readySet /\ nextQueue \in readySet
        /\ \A p \in readySet : p <= nextQueue
        /\ \A p \in readySet : p > currQueue => CutOff(p)
    BY <1>3, <2>1, <2>3, <2>4, <2>5, <2>6, SectionReady DEF WindowOpen, InWindow
  <2>8. currQueue \in Nat /\ nextQueue \in Nat
    BY <1>3, <2>7, KernelAssumption DEF OrderInv, IInv, TypeOK
  <2>9. CutOff(nextQueue)
    BY <2>3, <2>7, <2>8
  <2> QED
    BY <2>3, <2>9
<1>4. OrderInv /\ WInv /\ [Next]_vars =>
        [currQueue' # currQueue =>
           disableCount = 0 \/ Exhausted \/ CutOff(currQueue')]_vars
  BY <1>3
<1> QED
  BY <1>1, <1>2, <1>4, OrderInvariance, ContextsNest, PreemptionComes, PTL
     DEF Spec, SwitchOnlyUnlocked
=============================================================================
