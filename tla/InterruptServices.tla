------------------------- MODULE InterruptServices -------------------------
(***************************************************************************)
(* The three pairs of services that open and close critical sections:      *)
(* Disable/EnableAllInterrupts, Suspend/ResumeAllInterrupts and            *)
(* Suspend/ResumeOSInterrupts (osek.c:426-585).  Each pair has a nesting   *)
(* counter of its own and two functions of the port; all three act on the  *)
(* one interrupt status of the core.                                       *)
(*                                                                         *)
(* The callers are a task and handlers above it.  A handler is entered     *)
(* when its category is enabled, between any two steps of a lower caller,  *)
(* and closes the sections it opened before it returns.  A caller nests    *)
(* sections as the services' descriptions allow: nothing but itself inside *)
(* DisableAllInterrupts, where the kernel nests it (osek.c:218, 42), and   *)
(* either Suspend inside a Suspend.                                        *)
(***************************************************************************)
EXTENDS Integers, Sequences, FiniteSets

CONSTANTS
  Handlers,   \* handlers by increasing level, above the task, which is 0
  Category,   \* Category[h]: 1 or 2
  MaxDepth    \* bound: sections one caller has open

ASSUME ServicesAssumption ==
  /\ Handlers \subseteq Nat \ {0}
  /\ Category \in [Handlers -> {1, 2}]
  /\ MaxDepth \in Nat \ {0}

Services == {"DisableAll", "SuspendAll", "SuspendOS"}
Callers == Handlers \cup {0}
MaxOpen == MaxDepth * Cardinality(Callers)

VARIABLES
  count,    \* count[s]: DisableAllInterrupts_count and its two fellows
  status,   \* the recognition status: the categories that are disabled
  saved,    \* saved[s]: the status a Suspend function has saved
  open,     \* open[c]: the sections c has opened, the last one last
  pc,       \* pc[c]: "out", "in", or before the port's function is called
  opened    \* history: the callers inside of whose SuspendOS sections a
            \* handler has called EnableAllInterrupts

vars == <<count, status, saved, open, pc, opened>>

Last(c) == open[c][Len(open[c])]

(* The sections that c is inside of: opened, and not being opened or       *)
(* closed.                                                                 *)
Inside(c) == {open[c][i] : i \in 1 .. Len(open[c]) -
                                 (IF pc[c] \in {"mask", "unmask"} THEN 1 ELSE 0)}

(* What a section of service s keeps out.                                  *)
Disables(s) == IF s = "SuspendOS" THEN {2} ELSE {1, 2}

Init ==
  /\ count = [s \in Services |-> 0]
  /\ status = {}
  /\ saved = [s \in Services |-> {}]
  /\ open = [c \in Callers |-> <<>>]
  /\ pc = [c \in Callers |-> IF c = 0 THEN "in" ELSE "out"]
  /\ opened = {}

Goto(c, from, to) == /\ \A h \in Handlers : h > c => pc[h] = "out"
                     /\ pc[c] = from
                     /\ pc' = [pc EXCEPT ![c] = to]

Enter(h) == /\ Goto(h, "out", "in")
            /\ Category[h] \notin status
            /\ UNCHANGED <<count, status, saved, open, opened>>

Leave(h) == /\ Goto(h, "in", "out")
            /\ open[h] = <<>>
            /\ UNCHANGED <<count, status, saved, open, opened>>
-----------------------------------------------------------------------------
(***************************************************************************)
(* The port, empty in the repository, as its comments describe it          *)
(* (osek_port.c:44-87): Suspend saves the status and disables on top of    *)
(* it, Resume restores what its counterpart has saved last;                *)
(* DisableAllInterrupts and EnableAllInterrupts disable and enable         *)
(* globally.                                                               *)
(***************************************************************************)
Suspend_uC(s) ==
  /\ status' = status \cup Disables(s)
  /\ saved' = IF s = "DisableAll" THEN saved ELSE [saved EXCEPT ![s] = status]

Resume_uC(s) == /\ status' = IF s = "DisableAll" THEN {} ELSE saved[s]
                /\ UNCHANGED saved

-----------------------------------------------------------------------------
(***************************************************************************)
(* The services.                                                           *)
(***************************************************************************)
MayOpen(c, s) == /\ Len(open[c]) < MaxDepth
                 /\ open[c] # <<>> =>
                      ((s = "DisableAll") <=> (Last(c) = "DisableAll"))

(* The count goes up first ...                                             *)
Suspend_NoCount(c, s) ==
  /\ Goto(c, "in", "mask")
  /\ MayOpen(c, s)
  /\ open' = [open EXCEPT ![c] = Append(@, s)]
  /\ UNCHANGED <<count, status, saved, opened>>
Suspend(c, s) ==
  /\ Goto(c, "in", "mask")
  /\ MayOpen(c, s)
  /\ open' = [open EXCEPT ![c] = Append(@, s)]
  /\ count' = [count EXCEPT ![s] = (@ + 1) % 256]
  /\ UNCHANGED <<status, saved, opened>>

(* ... then the port is asked to disable, whatever the count.              *)
SuspendMasks_FirstOnly(c) ==
  /\ Goto(c, "mask", "in")
  /\ IF count[Last(c)] = 1 THEN Suspend_uC(Last(c))
                           ELSE UNCHANGED <<status, saved>>
  /\ UNCHANGED <<count, open, opened>>
SuspendMasks(c) ==
  /\ Goto(c, "mask", "in")
  /\ Suspend_uC(Last(c))
  /\ UNCHANGED <<count, open, opened>>

(* The last section of c is closed, and it has opened those of others.     *)
Close(c, others) ==
  /\ open' = [open EXCEPT ![c] = SubSeq(@, 1, Len(@) - 1)]
  /\ opened' = {d \in opened \cup others : open'[d] # <<>>}

(* The count goes down first; at zero the port is asked to enable.         *)
Resume(c) ==
  /\ open[c] # <<>>
  /\ count' = [count EXCEPT ![Last(c)] = (@ - 1) % 256]
  /\ IF count'[Last(c)] = 0
     THEN Goto(c, "in", "unmask") /\ UNCHANGED <<open, opened>>
     ELSE Goto(c, "in", "in") /\ Close(c, {})
  /\ UNCHANGED <<status, saved>>

ResumeUnmasks(c) ==
  /\ Goto(c, "unmask", "in")
  /\ Resume_uC(Last(c))
  /\ Close(c, IF Last(c) # "DisableAll" THEN {}
              ELSE {d \in Callers : d < c /\ "SuspendOS" \in Inside(d)})
  /\ UNCHANGED count

Next == \/ \E h \in Handlers : Enter(h) \/ Leave(h)
        \/ \E c \in Callers : \/ \E s \in Services : Suspend(c, s)
                              \/ SuspendMasks(c) \/ Resume(c) \/ ResumeUnmasks(c)

Spec == Init /\ [][Next]_vars
-----------------------------------------------------------------------------
(* The types; the counters stay within the sections that can be open, so   *)
(* that no pair of calls makes a uint8_t wrap.                             *)
TypeOK ==
  /\ count \in [Services -> 0 .. MaxOpen]
  /\ status \subseteq {1, 2}
  /\ saved \in [Services -> SUBSET {1, 2}]
  /\ open \in [Callers -> Seq(Services)]
  /\ pc \in [Callers -> {"out", "in", "mask", "unmask"}]
  /\ opened \subseteq Callers

(* While a caller is inside a section, what the section keeps out is       *)
(* disabled, however its other sections and those of the handlers that     *)
(* interrupt it open and close, and whichever status a Suspend has saved   *)
(* over (osek.c:490-497, 520-524, 550-557, 581-585).  One call can undo    *)
(* it: SuspendOSInterrupts lets handlers of category 1 in, and the         *)
(* EnableAllInterrupts of one of them enables category 2 behind its back.  *)
Protected ==
  \A c \in Callers : \A s \in Inside(c) :
    Disables(s) \subseteq status \/ (s = "SuspendOS" /\ c \in opened)

(* "The interrupt recognition status saved by the first call ... is        *)
(* restored by the last call" (osek.c:480-484, 540-544): all interrupts    *)
(* are enabled again once no section is open.                              *)
Restored == (\A c \in Callers : open[c] = <<>>) => status = {}
=============================================================================
