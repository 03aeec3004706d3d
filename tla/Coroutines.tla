----------------------------- MODULE Coroutines -----------------------------
(***************************************************************************)
(* What stacks and the context switch are for: each priority is a          *)
(* coroutine with registers and a stack of its own, that nothing but its   *)
(* own calls and returns changes.  It starts in dispatcher(), with the     *)
(* registers that initSP made up.  Handlers leave no trace, and a switch   *)
(* changes only who runs.                                                  *)
(***************************************************************************)
EXTENDS Integers, Sequences

CONSTANTS Queues, NULL, InitialFrame, PUSHED, Working(_, _, _)

VARIABLES regs,     \* regs[q]: the words of r4-r11, r0-r3, r12, lr, pc, xPSR
          stack,    \* stack[q]: the words q has pushed, the last one first
          running   \* the coroutine that runs, NULL before the first one

vars == <<regs, stack, running>>

Init == /\ regs = [q \in Queues |-> InitialFrame]
        /\ stack = [q \in Queues |-> <<>>]
        /\ running = NULL

(* A function is entered: it pushes the registers PUSHED and works.        *)
Call(q) ==
  /\ running = q
  /\ stack' = [stack EXCEPT ![q] = [i \in 1 .. Len(PUSHED) |-> regs[q][PUSHED[i]]] \o @]
  /\ regs' = [regs EXCEPT ![q] = Working(q, 4 * Len(stack[q]), @)]
  /\ UNCHANGED running

(* It returns, with the registers it pushed restored.                      *)
Return(q) ==
  /\ running = q
  /\ Len(stack[q]) >= Len(PUSHED)
  /\ regs' = [regs EXCEPT ![q] =
                [r \in 1 .. 16 |-> IF \E i \in 1 .. Len(PUSHED) : PUSHED[i] = r
                                   THEN stack[q][CHOOSE i \in 1 .. Len(PUSHED) : PUSHED[i] = r]
                                   ELSE @[r]]]
  /\ stack' = [stack EXCEPT ![q] = SubSeq(@, Len(PUSHED) + 1, Len(@))]
  /\ UNCHANGED running

Switch(q) == running' = q /\ UNCHANGED <<regs, stack>>

Next == \E q \in Queues : Call(q) \/ Return(q) \/ Switch(q)

Spec == Init /\ [][Next]_vars
=============================================================================
