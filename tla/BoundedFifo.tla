---------------------------- MODULE BoundedFifo ----------------------------
(***************************************************************************)
(* What a task queue promises its users: a FIFO of at most capacity        *)
(* activations.  A push is refused exactly when the FIFO is full, a pop    *)
(* returns the oldest element, and a pop of an empty FIFO returns NULL.    *)
(***************************************************************************)
EXTENDS Naturals, Sequences

CONSTANTS Task, NULL
VARIABLES fifo,       \* the activations, oldest first
          capacity,   \* fixed when the system is configured
          result      \* what the last operation returned

vars == <<fifo, capacity, result>>

Init == /\ fifo = <<>>
        /\ capacity \in Nat
        /\ result = NULL

Push(t) == /\ Len(fifo) < capacity
           /\ fifo' = Append(fifo, t)
           /\ result' = "E_OK"
           /\ UNCHANGED capacity

Refuse == /\ Len(fifo) = capacity
          /\ result' = "E_OS_LIMIT"
          /\ UNCHANGED <<fifo, capacity>>

Pop == /\ fifo # <<>>
       /\ result' = Head(fifo)
       /\ fifo' = Tail(fifo)
       /\ UNCHANGED capacity

Top == /\ result' = IF fifo = <<>> THEN NULL ELSE Head(fifo)
       /\ UNCHANGED <<fifo, capacity>>

Next == (\E t \in Task : Push(t)) \/ Refuse \/ Pop \/ Top

Spec == Init /\ [][Next]_vars
=============================================================================
