---------------------------- MODULE StacksProofs ----------------------------
(***************************************************************************)
(* A theorem about Stacks for every number of queues, arrays of every size *)
(* and handlers of every depth: every context finds its registers and its  *)
(* stack again, while no queue needs more than initSP leaves to it.        *)
(***************************************************************************)
EXTENDS Stacks, SequenceTheorems, TLAPS

(* What a queue needs is at least what the switch and a handler push, and  *)
(* fits the quarter of its array that initSP leaves to it (osek.c:123).    *)
(* Of a queue that needs more nothing holds: see StaysInStack.             *)
NeedsFit == \A q \in Queues : OnTop <= Needs[q] /\ Needs[q] <= Top(q) - Base[q]

(* The linker gives every array, and the stack of main(), a place of its   *)
(* own.                                                                    *)
ArraysApart ==
  /\ \A p, q \in Queues : p # q => Array(p) \cap Array(q) = {}
  /\ \A q \in Queues : (MainSP - OnTop .. MainSP - 4) \cap Array(q) = {}

(* How deep the calls of q are, in bytes.                                  *)
Depth(q) == Top(q) - StackTop(q)

Typed == /\ mem \in [Memory -> Int] /\ regs \in Seq(Int) /\ Len(regs) = 16
         /\ sp \in Int /\ spOf \in [Queues -> Int]
         /\ made \subseteq Queues /\ pendSV \in BOOLEAN
         /\ currQueue \in Queues \cup {NULL} /\ nextQueue \in Queues \cup {NULL}
         /\ level \in {"thread", "entered", "switched"}

(* main() executes until all stacks are made and a switch has come.        *)
Switching == (currQueue # NULL \/ pendSV \/ level # "thread") =>
               made = Queues /\ nextQueue \in Queues
OnMain == currQueue = NULL =>
            level # "switched" /\ sp = (IF level = "thread" THEN MainSP ELSE MainSP - 32)

(* Calls nest in frames of eight words and leave room on top of them.      *)
Room == \A q \in Queues : /\ Depth(q) \in Nat /\ Depth(q) % 32 = 0
                          /\ Depth(q) + OnTop <= Needs[q]

StackInv == Typed /\ Switching /\ OnMain /\ Room
-----------------------------------------------------------------------------
(***************************************************************************)
(* Addresses.                                                              *)
(***************************************************************************)
LEMMA Bounds ==
  ASSUME NEW q \in Queues
  PROVE  /\ Base[q] \in Nat /\ Size[q] \in Nat /\ Needs[q] \in Nat /\ OnTop \in Nat
         /\ Base[q] % 4 = 0
         /\ Top(q) \in Int /\ Top(q) % 4 = 0 /\ Top(q) <= Base[q] + Size[q]
         /\ Limit(q) \in Int /\ Base[q] <= Limit(q)
<1>1. /\ Base[q] \in Nat /\ Size[q] \in Nat /\ Needs[q] \in Nat /\ HandlerWords \in Nat
      /\ Base[q] % 4 = 0
  BY StacksAssumption
<1>2. ASSUME NEW n \in Int
      PROVE  /\ (n \div 8) * 8 \in Int /\ ((n \div 8) * 8) % 4 = 0 /\ (n \div 8) * 8 <= n
             /\ n - 7 <= (n \div 8) * 8
  OBVIOUS
<1>3. /\ Top(q) \in Int /\ Top(q) % 4 = 0 /\ Top(q) <= Base[q] + Size[q]
  BY <1>1, <1>2 DEF Top
<1>4. Limit(q) \in Int /\ Base[q] <= Limit(q)
  BY <1>1, <1>2 DEF Limit
<1> QED
  BY <1>1, <1>3, <1>4 DEF OnTop

(* The words of an array below its top.                                    *)
LEMMA InArray ==
  ASSUME NEW q \in Queues, NEW x \in Int, x % 4 = 0, Base[q] <= x, x < Top(q)
  PROVE  x \in Memory /\ x \in Array(q)
<1>1. /\ Base[q] \in Nat /\ Size[q] \in Nat /\ Base[q] % 4 = 0
      /\ Top(q) \in Int /\ Top(q) <= Base[q] + Size[q]
      /\ \A i \in 0 .. Size[q] - 1 : Base[q] + 4 * i \in Memory
  BY Bounds, StacksAssumption
<1>2. PICK i \in 0 .. Size[q] - 1 : x = Base[q] + 4 * i
  <2>1. ASSUME NEW n \in Int, n % 4 = 0 PROVE \E m \in Int : n = 4 * m
    <3>1. n = 4 * (n \div 4) /\ n \div 4 \in Int
      BY <2>1
    <3> QED
      BY <3>1
  <2>2. PICK m \in Int : x = 4 * m
    BY <2>1
  <2>3. PICK k \in Int : Base[q] = 4 * k
    <3>1. Base[q] \in Int /\ Base[q] % 4 = 0
      BY <1>1
    <3> QED
      BY <2>1, <3>1
  <2>4. m - k \in 0 .. Size[q] - 1 /\ x = Base[q] + 4 * (m - k)
    BY <1>1, <2>2, <2>3
  <2> QED
    BY <2>4
<1> QED
  BY <1>1, <1>2 DEF Array

(* Where a context may push while the queues keep to what they need.       *)
LEMMA Written ==
  ASSUME NeedsFit, ArraysApart, StackInv, NEW x \in Int, x <= sp - 4,
         sp - (IF level = "thread" THEN OnTop ELSE OnTop - 32) <= x
  PROVE  {q \in Queues : x \in Array(q)} = IF currQueue = NULL THEN {} ELSE {currQueue}
<1>0. sp \in Int /\ OnTop \in Int /\ MainSP \in Int
  BY StacksAssumption DEF StackInv, Typed, OnTop
<1>1. CASE currQueue = NULL
  <2>1. x \in MainSP - OnTop .. MainSP - 4
    BY <1>0, <1>1 DEF StackInv, OnMain
  <2> QED
    BY <1>1, <2>1 DEF ArraysApart
<1>2. ASSUME NEW q \in Queues, currQueue = q PROVE x \in Array(q)
  <2>1. /\ Base[q] \in Nat /\ Size[q] \in Nat /\ Needs[q] \in Nat
        /\ Top(q) \in Int /\ Top(q) <= Base[q] + Size[q]
    BY Bounds
  <2>2. made = Queues /\ q # NULL
    BY <1>2, StacksAssumption DEF StackInv, Switching
  <2>3. /\ Depth(q) \in Nat /\ Depth(q) + OnTop <= Top(q) - Base[q]
        /\ Depth(q) = Top(q) - (IF level = "thread" THEN sp ELSE sp + 32)
    BY <1>0, <1>2, <2>1, <2>2 DEF NeedsFit, StackInv, Room, Depth, StackTop
  <2>4. Base[q] <= x /\ x <= Top(q) - 4
    BY <1>0, <2>1, <2>3
  <2> QED
    BY <2>1, <2>4 DEF Array
<1>3. ASSUME NEW q \in Queues, currQueue = q
      PROVE  {p \in Queues : x \in Array(p)} = {q}
  BY <1>2, <1>3 DEF ArraysApart
<1> QED
  BY <1>1, <1>3 DEF StackInv, Typed
-----------------------------------------------------------------------------
(***************************************************************************)
(* Words and registers.                                                    *)
(***************************************************************************)
LEMMA Sequence ==
  ASSUME NEW n \in Nat, NEW v \in [1 .. n -> Int]
  PROVE  v \in Seq(Int) /\ Len(v) = n
  BY SeqDef

LEMMA PushPlaces ==
  ASSUME NEW m \in [Memory -> Int], NEW ws \in Seq(Int), NEW a \in Int
  PROVE  /\ Push(m, a, ws) \in [Memory -> Int]
         /\ \A x \in Memory : ~(a - 4 * Len(ws) <= x /\ x <= a - 4) =>
                               Push(m, a, ws)[x] = m[x]
         /\ \A i \in 1 .. Len(ws) : a - 4 * Len(ws) + 4 * (i - 1) \in Memory =>
              Push(m, a, ws)[a - 4 * Len(ws) + 4 * (i - 1)] = ws[i]
<1> DEFINE L == Len(ws)
<1>1. L \in Nat /\ Memory \subseteq Nat /\ \A i \in 1 .. L : ws[i] \in Int
  BY LenProperties, StacksAssumption
<1>2. ASSUME NEW x \in Memory, x \in a - 4 * L .. a - 4
      PROVE  (x - a) \div 4 + L + 1 \in 1 .. L
  BY <1>1, <1>2
<1>3. ASSUME NEW i \in 1 .. L
      PROVE  /\ a - 4 * L + 4 * (i - 1) \in a - 4 * L .. a - 4
             /\ ((a - 4 * L + 4 * (i - 1)) - a) \div 4 + L + 1 = i
  <2>1. ((a - 4 * L + 4 * (i - 1)) - a) = 4 * (i - 1 - L)
    BY <1>1, <1>3
  <2>2. \A n \in Int : (4 * n) \div 4 = n
    OBVIOUS
  <2> QED
    BY <1>1, <1>3, <2>1, <2>2
<1>4. ASSUME NEW x \in Memory
      PROVE  Push(m, a, ws)[x] = IF x \in a - 4 * L .. a - 4
                                 THEN ws[(x - a) \div 4 + L + 1] ELSE m[x]
  BY DEF Push
<1>5. Push(m, a, ws) \in [Memory -> Int]
  <2>1. \A x \in Memory : Push(m, a, ws)[x] \in Int
    BY <1>1, <1>2, <1>4
  <2> QED
    BY <2>1 DEF Push
<1>6. ASSUME NEW x \in Memory, ~(a - 4 * L <= x /\ x <= a - 4)
      PROVE  Push(m, a, ws)[x] = m[x]
  BY <1>1, <1>4, <1>6
<1>7. ASSUME NEW i \in 1 .. L, a - 4 * L + 4 * (i - 1) \in Memory
      PROVE  Push(m, a, ws)[a - 4 * L + 4 * (i - 1)] = ws[i]
  BY <1>3, <1>4, <1>7
<1> QED
  BY <1>5, <1>6, <1>7

(* The words of an array below its top.                                    *)
LEMMA WordsIn ==
  ASSUME NEW m \in [Memory -> Int], NEW q \in Queues, NEW a \in Int, NEW n \in Nat,
         a % 4 = 0, Base[q] <= a, a + 4 * n <= Top(q)
  PROVE  /\ Words(m, a, n) \in Seq(Int) /\ Len(Words(m, a, n)) = n
         /\ \A i \in 1 .. n : /\ a + 4 * (i - 1) \in Memory
                              /\ a + 4 * (i - 1) \in Array(q)
                              /\ Words(m, a, n)[i] = m[a + 4 * (i - 1)]
<1>1. Top(q) \in Int /\ Base[q] \in Nat
  BY Bounds
<1>2. ASSUME NEW i \in 1 .. n
      PROVE  a + 4 * (i - 1) \in Memory /\ a + 4 * (i - 1) \in Array(q)
  <2>1. /\ a + 4 * (i - 1) \in Int /\ (a + 4 * (i - 1)) % 4 = 0
        /\ Base[q] <= a + 4 * (i - 1) /\ a + 4 * (i - 1) < Top(q)
    BY <1>1
  <2> QED
    BY <2>1, InArray
<1>3. Words(m, a, n) \in [1 .. n -> Int]
  BY <1>2 DEF Words
<1>4. Words(m, a, n) \in Seq(Int) /\ Len(Words(m, a, n)) = n
  BY <1>3, Sequence
<1> QED
  BY <1>2, <1>4 DEF Words

LEMMA Halves ==
  ASSUME NEW r \in Seq(Int), Len(r) = 16
  PROVE  /\ Callee(r) \in Seq(Int) /\ Len(Callee(r)) = 8
         /\ Caller(r) \in Seq(Int) /\ Len(Caller(r)) = 8
         /\ \A i \in 1 .. 8 : Callee(r)[i] = r[i] /\ Caller(r)[i] = r[8 + i]
<1>1. \A i \in 1 .. 16 : r[i] \in Int
  BY ElementOfSeq
<1>2. /\ Callee(r) \in Seq(Int) /\ Len(Callee(r)) = 8
      /\ \A i \in 1 .. 8 : Callee(r)[i] = r[i]
  <2>1. ASSUME NEW i \in 1 .. 8 PROVE r[i] \in Int
    <3>1. i \in 1 .. 16
      OBVIOUS
    <3> QED
      BY <1>1, <3>1
  <2>2. /\ SubSeq(r, 1, 8) \in Seq(Int)
        /\ Len(SubSeq(r, 1, 8)) = IF 1 <= 8 THEN 8 - 1 + 1 ELSE 0
        /\ \A i \in 1 .. 8 - 1 + 1 : SubSeq(r, 1, 8)[i] = r[1 + i - 1]
    BY <2>1, SubSeqProperties
  <2> QED
    BY <2>2 DEF Callee
<1>3. /\ Caller(r) \in Seq(Int) /\ Len(Caller(r)) = 8
      /\ \A i \in 1 .. 8 : Caller(r)[i] = r[8 + i]
  <2>1. ASSUME NEW i \in 9 .. 16 PROVE r[i] \in Int
    <3>1. i \in 1 .. 16
      OBVIOUS
    <3> QED
      BY <1>1, <3>1
  <2>2. /\ SubSeq(r, 9, 16) \in Seq(Int)
        /\ Len(SubSeq(r, 9, 16)) = IF 9 <= 16 THEN 16 - 9 + 1 ELSE 0
        /\ \A i \in 1 .. 16 - 9 + 1 : SubSeq(r, 9, 16)[i] = r[9 + i - 1]
    BY <2>1, SubSeqProperties
  <2> QED
    BY <2>2 DEF Caller
<1> QED
  BY <1>2, <1>3

(* Two halves make a set of registers again.                               *)
LEMMA Joined ==
  ASSUME NEW r \in Seq(Int), NEW t \in Seq(Int), Len(r) = 8, Len(t) = 8
  PROVE  /\ r \o t \in Seq(Int) /\ Len(r \o t) = 16
         /\ \A i \in 1 .. 8 : (r \o t)[i] = r[i] /\ (r \o t)[8 + i] = t[i]
         /\ Callee(r \o t) = r /\ Caller(r \o t) = t
<1> DEFINE u == r \o t
<1>1. /\ u \in Seq(Int) /\ Len(u) = Len(r) + Len(t)
      /\ \A i \in 1 .. Len(r) + Len(t) : u[i] = IF i <= Len(r) THEN r[i] ELSE t[i - Len(r)]
  BY ConcatProperties
<1> HIDE DEF u
<1>2. ASSUME NEW i \in 1 .. 8 PROVE u[i] = r[i] /\ u[8 + i] = t[i]
  <2>1. /\ i \in 1 .. Len(r) + Len(t) /\ i <= Len(r)
        /\ 8 + i \in 1 .. Len(r) + Len(t) /\ ~(8 + i <= Len(r)) /\ 8 + i - Len(r) = i
    OBVIOUS
  <2> QED
    BY <1>1, <2>1
<1>3. Len(u) = 16
  BY <1>1
<1>4. Callee(u) = r /\ Caller(u) = t
  <2>1. /\ Callee(u) \in Seq(Int) /\ Len(Callee(u)) = 8
        /\ Caller(u) \in Seq(Int) /\ Len(Caller(u)) = 8
        /\ \A i \in 1 .. 8 : Callee(u)[i] = u[i] /\ Caller(u)[i] = u[8 + i]
    BY <1>1, <1>3, Halves
  <2>2. Callee(u) = r
    <3>1. /\ Callee(u) \in Seq(Int) /\ Len(Callee(u)) = Len(r)
          /\ \A i \in 1 .. Len(Callee(u)) : Callee(u)[i] = r[i]
      BY <1>2, <2>1
    <3> QED
      BY <3>1, SeqEqual
  <2>3. Caller(u) = t
    <3>1. /\ Caller(u) \in Seq(Int) /\ Len(Caller(u)) = Len(t)
          /\ \A i \in 1 .. Len(Caller(u)) : Caller(u)[i] = t[i]
      BY <1>2, <2>1
    <3> QED
      BY <3>1, SeqEqual
  <2> QED
    BY <2>2, <2>3
<1> QED
  BY <1>1, <1>2, <1>3, <1>4 DEF u

LEMMA JunkWords ==
  ASSUME NEW n \in Nat
  PROVE  Junk(n) \in Seq(Int) /\ Len(Junk(n)) = n
<1>1. Junk(n) \in [1 .. n -> Int]
  BY DEF Junk, JUNK
<1> QED
  BY <1>1, Sequence

LEMMA Edited ==
  ASSUME NEW r \in Seq(Int), Len(r) = 16, NEW i \in 1 .. 16, NEW e \in Int,
         NEW v, v = [r EXCEPT ![i] = e]
  PROVE  v \in Seq(Int) /\ Len(v) = 16
<1>1. r \in [1 .. 16 -> Int]
  BY LenProperties
<1>2. v \in [1 .. 16 -> Int] /\ 16 \in Nat
  BY <1>1
<1> QED
  BY <1>2, Sequence

LEMMA Chained ==
  ASSUME NEW s \in Seq(Int), NEW t \in Seq(Int), NEW u, u = s \o t
  PROVE  /\ u \in Seq(Int) /\ Len(u) = Len(s) + Len(t)
         /\ \A i \in 1 .. Len(s) + Len(t) :
              u[i] = IF i <= Len(s) THEN s[i] ELSE t[i - Len(s)]
<1>1. /\ s \o t \in Seq(Int) /\ Len(s \o t) = Len(s) + Len(t)
      /\ \A i \in 1 .. Len(s) + Len(t) :
           (s \o t)[i] = IF i <= Len(s) THEN s[i] ELSE t[i - Len(s)]
  BY ConcatProperties
<1> QED
  BY <1>1, Zenon

(* A function works with its registers.                                    *)
LEMMA Works ==
  ASSUME NEW r \in Seq(Int), Len(r) = 16, NEW q \in Nat, NEW n \in Int
  PROVE  Working(q, n, r) \in Seq(Int) /\ Len(Working(q, n, r)) = 16
<1> DEFINE w == 1000 * q + n
<1> DEFINE d == DISPATCHER + n
<1>1. PICK r1 : r1 = [r EXCEPT ![1] = w]
  OBVIOUS
<1>2. PICK r2 : r2 = [r1 EXCEPT ![7] = w]
  OBVIOUS
<1>3. PICK r3 : r3 = [r2 EXCEPT ![9] = w]
  OBVIOUS
<1>4. PICK r4 : r4 = [r3 EXCEPT ![14] = d]
  OBVIOUS
<1>5. Working(q, n, r) = r4
  BY <1>1, <1>2, <1>3, <1>4 DEF Working
<1>6. w \in Int /\ d \in Int
  BY DEF DISPATCHER
<1> HIDE DEF w, d
<1>7. r1 \in Seq(Int) /\ Len(r1) = 16
  BY <1>1, <1>6, Edited
<1>8. r2 \in Seq(Int) /\ Len(r2) = 16
  BY <1>2, <1>6, <1>7, Edited
<1>9. r3 \in Seq(Int) /\ Len(r3) = 16
  BY <1>3, <1>6, <1>8, Edited
<1>10. r4 \in Seq(Int) /\ Len(r4) = 16
  BY <1>4, <1>6, <1>9, Edited
<1> QED
  BY <1>5, <1>10

(* ... and returns with those it pushed at address a.                      *)
Returned(m, a, r) == Words(m, a, 7) \o SubSeq(r, 8, 13)
                       \o Words(m, a + 28, 1) \o SubSeq(r, 15, 16)

LEMMA Returns ==
  ASSUME NEW m \in [Memory -> Int], NEW r \in Seq(Int), Len(r) = 16,
         NEW q \in Queues, NEW a \in Int, a % 4 = 0, Base[q] <= a, a + 32 <= Top(q)
  PROVE  /\ Returned(m, a, r) \in Seq(Int) /\ Len(Returned(m, a, r)) = 16
         /\ \A i \in 1 .. 16 :
              Returned(m, a, r)[i] = IF i <= 7 \/ i = 14
                                     THEN m[a + 4 * ((IF i = 14 THEN 8 ELSE i) - 1)]
                                     ELSE r[i]
<1>0. Top(q) \in Int /\ Base[q] \in Int
  BY Bounds
<1> DEFINE s1 == Words(m, a, 7)
<1> DEFINE s2 == SubSeq(r, 8, 13)
<1> DEFINE s3 == Words(m, a + 28, 1)
<1> DEFINE s4 == SubSeq(r, 15, 16)
<1>1. s1 \in Seq(Int) /\ Len(s1) = 7 /\ \A i \in 1 .. 7 : s1[i] = m[a + 4 * (i - 1)]
  <2>1. a + 4 * 7 <= Top(q) /\ 7 \in Nat
    BY <1>0
  <2> QED
    BY <2>1, WordsIn
<1>2. s3 \in Seq(Int) /\ Len(s3) = 1 /\ s3[1] = m[a + 28]
  <2>1. /\ a + 28 \in Int /\ (a + 28) % 4 = 0 /\ 1 \in Nat
        /\ Base[q] <= a + 28 /\ a + 28 + 4 * 1 <= Top(q)
        /\ a + 28 + 4 * (1 - 1) = a + 28 /\ 1 \in 1 .. 1
    BY <1>0
  <2> DEFINE b == a + 28
  <2> HIDE DEF b
  <2>2. /\ b \in Int /\ b % 4 = 0 /\ Base[q] <= b /\ b + 4 * 1 <= Top(q)
        /\ b + 4 * (1 - 1) = b
    BY <2>1 DEF b
  <2>3. /\ Words(m, b, 1) \in Seq(Int) /\ Len(Words(m, b, 1)) = 1
        /\ \A i \in 1 .. 1 : Words(m, b, 1)[i] = m[b + 4 * (i - 1)]
    BY <2>1, <2>2, WordsIn
  <2>4. Words(m, b, 1)[1] = m[b]
    BY <2>1, <2>2, <2>3
  <2> QED
    BY <2>3, <2>4 DEF b
<1>3. ASSUME NEW i \in 1 .. 16 PROVE r[i] \in Int
  BY <1>3, ElementOfSeq
<1>4. s2 \in Seq(Int) /\ Len(s2) = 6 /\ \A i \in 1 .. 6 : s2[i] = r[7 + i]
  <2>1. ASSUME NEW i \in 8 .. 13 PROVE r[i] \in Int
    <3>1. i \in 1 .. 16
      OBVIOUS
    <3> QED
      BY <1>3, <3>1
  <2>2. /\ s2 \in Seq(Int) /\ Len(s2) = (IF 8 <= 13 THEN 13 - 8 + 1 ELSE 0)
        /\ \A i \in 1 .. 13 - 8 + 1 : s2[i] = r[8 + i - 1]
    BY <2>1, SubSeqProperties
  <2> QED
    BY <2>2
<1>5. s4 \in Seq(Int) /\ Len(s4) = 2 /\ \A i \in 1 .. 2 : s4[i] = r[14 + i]
  <2>1. ASSUME NEW i \in 15 .. 16 PROVE r[i] \in Int
    <3>1. i \in 1 .. 16
      OBVIOUS
    <3> QED
      BY <1>3, <3>1
  <2>2. /\ s4 \in Seq(Int) /\ Len(s4) = (IF 15 <= 16 THEN 16 - 15 + 1 ELSE 0)
        /\ \A i \in 1 .. 16 - 15 + 1 : s4[i] = r[15 + i - 1]
    BY <2>1, SubSeqProperties
  <2> QED
    BY <2>2
<1> HIDE DEF s1, s2, s3, s4
<1>6. PICK t1 : t1 = s1 \o s2
  OBVIOUS
<1>7. PICK t2 : t2 = t1 \o s3
  OBVIOUS
<1>8. PICK t3 : t3 = t2 \o s4
  OBVIOUS
<1>9. Returned(m, a, r) = t3
  BY <1>6, <1>7, <1>8 DEF Returned, s1, s2, s3, s4
<1>10. /\ t1 \in Seq(Int) /\ Len(t1) = 13
       /\ \A i \in 1 .. 13 : t1[i] = IF i <= 7 THEN s1[i] ELSE s2[i - 7]
  <2>1. s1 \in Seq(Int) /\ s2 \in Seq(Int) /\ t1 = s1 \o s2
    BY <1>1, <1>4, <1>6
  <2>2. /\ t1 \in Seq(Int) /\ Len(t1) = Len(s1) + Len(s2)
        /\ \A i \in 1 .. Len(s1) + Len(s2) :
             t1[i] = IF i <= Len(s1) THEN s1[i] ELSE s2[i - Len(s1)]
    BY <2>1, Chained
  <2>3. Len(s1) = 7 /\ Len(s2) = 6
    BY <1>1, <1>4, <1>6
  <2> QED
    BY <2>2, <2>3
<1>11. /\ t2 \in Seq(Int) /\ Len(t2) = 14
       /\ \A i \in 1 .. 14 : t2[i] = IF i <= 13 THEN t1[i] ELSE s3[i - 13]
  <2>1. t1 \in Seq(Int) /\ s3 \in Seq(Int) /\ t2 = t1 \o s3
    BY <1>2, <1>7, <1>10
  <2>2. /\ t2 \in Seq(Int) /\ Len(t2) = Len(t1) + Len(s3)
        /\ \A i \in 1 .. Len(t1) + Len(s3) :
             t2[i] = IF i <= Len(t1) THEN t1[i] ELSE s3[i - Len(t1)]
    BY <2>1, Chained
  <2>3. Len(t1) = 13 /\ Len(s3) = 1
    BY <1>2, <1>7, <1>10
  <2> QED
    BY <2>2, <2>3
<1>12. /\ t3 \in Seq(Int) /\ Len(t3) = 16
       /\ \A i \in 1 .. 16 : t3[i] = IF i <= 14 THEN t2[i] ELSE s4[i - 14]
  <2>1. t2 \in Seq(Int) /\ s4 \in Seq(Int) /\ t3 = t2 \o s4
    BY <1>5, <1>8, <1>11
  <2>2. /\ t3 \in Seq(Int) /\ Len(t3) = Len(t2) + Len(s4)
        /\ \A i \in 1 .. Len(t2) + Len(s4) :
             t3[i] = IF i <= Len(t2) THEN t2[i] ELSE s4[i - Len(t2)]
    BY <2>1, Chained
  <2>3. Len(t2) = 14 /\ Len(s4) = 2
    BY <1>5, <1>8, <1>11
  <2> QED
    BY <2>2, <2>3
<1>13. ASSUME NEW i \in 1 .. 16
       PROVE  t3[i] = IF i <= 7 \/ i = 14
                      THEN m[a + 4 * ((IF i = 14 THEN 8 ELSE i) - 1)] ELSE r[i]
  <2>1. CASE i <= 7
    <3>1. i \in 1 .. 7 /\ i # 14
      BY <2>1
    <3>2. t3[i] = t2[i]
      BY <1>12, <2>1
    <3>3. t2[i] = t1[i]
      BY <1>11, <2>1
    <3>4. t1[i] = s1[i]
      BY <1>10, <2>1
    <3>5. s1[i] = m[a + 4 * (i - 1)]
      BY <1>1, <3>1
    <3> QED
      BY <2>1, <3>1, <3>2, <3>3, <3>4, <3>5
  <2>2. CASE 8 <= i /\ i <= 13
    <3>1. /\ i - 7 \in 1 .. 6 /\ i # 14 /\ ~(i <= 7) /\ 7 + (i - 7) = i
          /\ i \in 1 .. 13 /\ i \in 1 .. 14 /\ i \in 1 .. 16 /\ i <= 13 /\ i <= 14
      BY <2>2
    <3>2. t3[i] = t2[i]
      BY <1>12, <3>1
    <3>3. t2[i] = t1[i]
      BY <1>11, <3>1
    <3>4. t1[i] = s2[i - 7]
      BY <1>10, <3>1
    <3>5. s2[i - 7] = r[7 + (i - 7)]
      BY <1>4, <3>1
    <3> QED
      BY <3>1, <3>2, <3>3, <3>4, <3>5
  <2>3. CASE i = 14
    <3>1. t3[14] = t2[14] /\ t2[14] = s3[14 - 13]
      BY <1>11, <1>12
    <3>2. 14 - 13 = 1 /\ a + 4 * (8 - 1) = a + 28
      OBVIOUS
    <3> QED
      BY <1>2, <2>3, <3>1, <3>2
  <2>4. CASE i > 14
    <3>1. i - 14 \in 1 .. 2 /\ i # 14 /\ ~(i <= 7) /\ ~(i <= 14) /\ 14 + (i - 14) = i
      BY <2>4
    <3>2. t3[i] = s4[i - 14]
      BY <1>12, <3>1
    <3>3. s4[i - 14] = r[14 + (i - 14)]
      BY <1>5, <3>1
    <3> QED
      BY <3>1, <3>2, <3>3
  <2> QED
    BY <2>1, <2>2, <2>3, <2>4
<1> QED
  BY <1>9, <1>12, <1>13
-----------------------------------------------------------------------------
(***************************************************************************)
(* The words that are pushed.                                              *)
(***************************************************************************)
LEMMA FrameWords == InitialFrame \in Seq(Int) /\ Len(InitialFrame) = 16
  BY DEF InitialFrame, DISPATCHER, THUMB

LEMMA PushedRegs ==
  PUSHED \in Seq(Int) /\ Len(PUSHED) = 8 /\ \A i \in 1 .. 8 : PUSHED[i] \in 1 .. 16
  BY DEF PUSHED

LEMMA PushedWords ==
  ASSUME NEW r \in Seq(Int), Len(r) = 16,
         NEW ws, ws = [i \in 1 .. Len(PUSHED) |-> r[PUSHED[i]]]
  PROVE  /\ ws \in Seq(Int) /\ Len(ws) = 8
         /\ \A i \in 1 .. 8 : ws[i] = r[PUSHED[i]]
<1>1. \A i \in 1 .. 16 : r[i] \in Int
  BY ElementOfSeq
<1>2. ws \in [1 .. 8 -> Int] /\ 8 \in Nat
  BY <1>1, PushedRegs
<1>3. ws \in Seq(Int) /\ Len(ws) = 8
  BY <1>2, Sequence
<1> QED
  BY <1>3, PushedRegs

LEMMA HandlerPushes ==
  ASSUME NEW r \in Seq(Int), Len(r) = 16,
         NEW ws, ws = Junk(HandlerWords) \o Caller(r)
  PROVE  /\ ws \in Seq(Int) /\ Len(ws) = HandlerWords + 8
         /\ 4 * Len(ws) = OnTop - 32
<1>1. HandlerWords \in Nat
  BY StacksAssumption
<1>2. /\ Junk(HandlerWords) \in Seq(Int) /\ Len(Junk(HandlerWords)) = HandlerWords
      /\ Caller(r) \in Seq(Int) /\ Len(Caller(r)) = 8
  BY <1>1, JunkWords, Halves
<1>3. ws \in Seq(Int) /\ Len(ws) = Len(Junk(HandlerWords)) + Len(Caller(r))
  BY <1>2, Chained
<1> QED
  BY <1>1, <1>2, <1>3 DEF OnTop
-----------------------------------------------------------------------------
(***************************************************************************)
(* The invariant.                                                          *)
(***************************************************************************)
(* Where the words of q that are in use end.                               *)
LEMMA Place ==
  ASSUME NeedsFit, StackInv, NEW q \in Queues
  PROVE  /\ Base[q] \in Nat /\ Top(q) \in Int /\ Top(q) % 4 = 0
         /\ StackTop(q) \in Int /\ StackTop(q) % 4 = 0
         /\ Base[q] + OnTop <= StackTop(q) /\ StackTop(q) <= Top(q)
         /\ OnTop \in Int /\ OnTop >= 64
<1>1. /\ Base[q] \in Nat /\ Top(q) \in Int /\ Top(q) % 4 = 0 /\ Needs[q] \in Nat
      /\ HandlerWords \in Nat
  BY Bounds, StacksAssumption
<1>2. StackTop(q) \in Int
  BY <1>1 DEF StackTop, StackInv, Typed
<1>3. /\ Depth(q) \in Nat /\ Depth(q) % 32 = 0 /\ Depth(q) + OnTop <= Top(q) - Base[q]
      /\ Depth(q) = Top(q) - StackTop(q) /\ OnTop = 64 + 4 * HandlerWords
  BY <1>1 DEF StackInv, Room, NeedsFit, Depth, OnTop
<1>4. StackTop(q) % 4 = 0
  BY <1>1, <1>2, <1>3
<1> QED
  BY <1>1, <1>2, <1>3, <1>4

(* Where sp and the others' sp are.                                        *)
LEMMA Pointers ==
  ASSUME StackInv, NEW q \in Queues
  PROVE  /\ currQueue = q => sp = (IF level = "thread" THEN StackTop(q) ELSE StackTop(q) - 32)
         /\ (q \in made /\ q # currQueue) => spOf[q] = StackTop(q) - 64
  BY StacksAssumption DEF StackInv, Typed, Switching, StackTop

LEMMA InitStacks == ASSUME NeedsFit, Init PROVE StackInv
<1>1. Junk(16) \in Seq(Int) /\ Len(Junk(16)) = 16
  <2>1. 16 \in Nat
    OBVIOUS
  <2> QED
    BY <2>1, JunkWords
<1>2. Typed /\ Switching /\ OnMain
  <2>1. Base \in [Queues -> Int] /\ MainSP \in Int
    BY StacksAssumption
  <2>2. mem \in [Memory -> Int]
    BY DEF Init
  <2>3. Typed
    BY <1>1, <2>1, <2>2 DEF Init, Typed
  <2> QED
    BY <2>3 DEF Init, Switching, OnMain
<1>3. ASSUME NEW q \in Queues PROVE Depth(q) = 0 /\ OnTop <= Needs[q] /\ OnTop \in Int
  BY <1>3, Bounds DEF Init, Depth, StackTop, NeedsFit
<1> QED
  BY <1>2, <1>3 DEF StackInv, Room

(* Most steps leave every stack as deep as it was.                         *)
LEMMA SameRoom ==
  ASSUME StackInv, \A q \in Queues : StackTop(q)' = StackTop(q) PROVE Room'
  BY DEF StackInv, Room, Depth, Top

LEMMA NextStacks ==
  ASSUME NeedsFit, StackInv, [Next]_vars PROVE StackInv'
<1>0. Typed /\ Switching /\ OnMain /\ Room /\ NULL \notin Queues /\ Queues \subseteq Nat
  BY StacksAssumption DEF StackInv
<1>1. ASSUME NEW p \in Queues, initSP(p) PROVE StackInv'
  <2>1. currQueue = NULL /\ p \notin made /\ level = "thread" /\ ~pendSV
    BY <1>0, <1>1 DEF initSP, Switching, Typed
  <2>2. Push(mem, Top(p), InitialFrame) \in [Memory -> Int] /\ Top(p) \in Int
    BY <1>0, Bounds, FrameWords, PushPlaces DEF Typed
  <2>3. mem' \in [Memory -> Int]
    BY <1>1, <2>2 DEF initSP, DEADBEEF
  <2>4. Typed' /\ Switching' /\ OnMain'
    BY <1>0, <1>1, <2>1, <2>2, <2>3 DEF initSP, Typed, Switching, OnMain
  <2>5. StackTop(p)' = Top(p) /\ \A q \in Queues : q # p => StackTop(q)' = StackTop(q)
    <3>1. /\ \A q \in Queues : q # currQueue /\ q # currQueue'
          /\ p \in made' /\ \A q \in Queues : q # p => (q \in made' <=> q \in made)
          /\ spOf'[p] = Top(p) - 64 /\ \A q \in Queues : q # p => spOf'[q] = spOf[q]
      BY <1>0, <1>1, <2>1 DEF initSP, Typed
    <3>2. StackTop(p)' = spOf'[p] + 64
      BY <3>1 DEF StackTop
    <3>3. ASSUME NEW q \in Queues, q # p PROVE StackTop(q)' = StackTop(q)
      BY <3>1, <3>3 DEF StackTop, Top
    <3> QED
      BY <2>2, <3>1, <3>2, <3>3
  <2>6. Room'
    <3>1. SUFFICES ASSUME NEW q \in Queues
                   PROVE  Depth(q)' \in Nat /\ Depth(q)' % 32 = 0 /\ Depth(q)' + OnTop <= Needs[q]
      BY DEF Room, OnTop
    <3>2. CASE q = p
      BY <2>2, <2>5, <3>2, Bounds DEF Depth, Top, NeedsFit
    <3>3. CASE q # p
      BY <1>0, <2>5, <3>3 DEF Depth, Top, Room
    <3> QED
      BY <3>2, <3>3
  <2> QED
    BY <2>4, <2>6 DEF StackInv
<1>2. ASSUME NEW p \in Queues, Call(p) PROVE StackInv'
  <2>1. /\ currQueue = p /\ level = "thread" /\ made = Queues /\ p \in Nat
        /\ sp = StackTop(p) /\ sp \in Int
    BY <1>0, <1>2, Pointers DEF Call, Switching, Typed
  <2>2. PICK ws : ws = [i \in 1 .. Len(PUSHED) |-> regs[PUSHED[i]]]
    OBVIOUS
  <2>3. ws \in Seq(Int) /\ Len(ws) = 8
    BY <1>0, <2>2, PushedWords DEF Typed
  <2>4. mem' = Push(mem, sp, ws) /\ sp' = sp - 32
    BY <1>2, <2>2, PushedRegs DEF Call
  <2>5. mem' \in [Memory -> Int]
    BY <1>0, <2>1, <2>3, <2>4, PushPlaces DEF Typed
  <2>6. Top(p) \in Int
    BY Bounds
  <2>7. regs' \in Seq(Int) /\ Len(regs') = 16
    <3>1. Top(p) - sp \in Int
      BY <2>1, <2>6
    <3> QED
      BY <1>0, <1>2, <2>1, <3>1, Works DEF Call, Typed
  <2>8. Typed' /\ Switching' /\ OnMain'
    BY <1>0, <1>2, <2>1, <2>4, <2>5, <2>7 DEF Call, Typed, Switching, OnMain
  <2>9. StackTop(p)' = sp - 32 /\ \A q \in Queues : q # p => StackTop(q)' = StackTop(q)
    BY <1>0, <1>2, <2>1, <2>4 DEF Call, StackTop, Typed
  <2>10. Top(p) - sp + 32 + OnTop <= Needs[p]
    BY <1>2, PushedRegs DEF Call
  <2>11. Room'
    <3>1. SUFFICES ASSUME NEW q \in Queues
                   PROVE  Depth(q)' \in Nat /\ Depth(q)' % 32 = 0 /\ Depth(q)' + OnTop <= Needs[q]
      BY DEF Room, OnTop
    <3>2. CASE q = p
      <4>1. Depth(p)' = Depth(p) + 32 /\ Depth(p)' = Top(p) - sp + 32
        BY <2>1, <2>6, <2>9 DEF Depth, Top
      <4>2. Depth(p) \in Nat /\ Depth(p) % 32 = 0
        BY <1>0 DEF Room
      <4> QED
        BY <2>10, <3>2, <4>1, <4>2
    <3>3. CASE q # p
      BY <1>0, <2>9, <3>3 DEF Depth, Top, Room
    <3> QED
      BY <3>2, <3>3
  <2> QED
    BY <2>8, <2>11 DEF StackInv
<1>3. ASSUME NEW p \in Queues, Return(p) PROVE StackInv'
  <2>1. /\ currQueue = p /\ level = "thread" /\ made = Queues
        /\ sp = StackTop(p) /\ sp \in Int
    BY <1>0, <1>3, Pointers DEF Return, Switching, Typed
  <2>2. /\ Top(p) \in Int /\ sp % 4 = 0 /\ Base[p] <= sp /\ sp < Top(p)
    BY <1>3, <2>1, Place DEF Return
  <2>3. Depth(p) = Top(p) - sp /\ Depth(p) \in Nat /\ Depth(p) % 32 = 0 /\ Depth(p) >= 32
    BY <1>0, <2>1, <2>2 DEF Depth, Room
  <2>4. sp + 32 <= Top(p)
    BY <2>1, <2>2, <2>3
  <2>5. regs' = Returned(mem, sp, regs) /\ sp' = sp + 32
    BY <1>3, PushedRegs DEF Return, Returned
  <2>6. regs' \in Seq(Int) /\ Len(regs') = 16
    BY <1>0, <2>1, <2>2, <2>4, <2>5, Returns DEF Typed
  <2>7. Typed' /\ Switching' /\ OnMain'
    <3>1. sp' \in Int
      BY <2>1, <2>5
    <3> QED
      BY <1>0, <1>3, <2>1, <2>6, <3>1 DEF Return, Typed, Switching, OnMain
  <2>8. StackTop(p)' = sp + 32 /\ \A q \in Queues : q # p => StackTop(q)' = StackTop(q)
    BY <1>0, <1>3, <2>1, <2>5 DEF Return, StackTop, Typed
  <2>9. Room'
    <3>1. SUFFICES ASSUME NEW q \in Queues
                   PROVE  Depth(q)' \in Nat /\ Depth(q)' % 32 = 0 /\ Depth(q)' + OnTop <= Needs[q]
      BY DEF Room, OnTop
    <3>2. CASE q = p
      <4>1. Depth(p)' = Depth(p) - 32
        BY <2>1, <2>2, <2>3, <2>8 DEF Depth, Top
      <4>2. Depth(p) + OnTop <= Needs[p] /\ Needs[p] \in Int /\ OnTop \in Int
        BY <1>0, Bounds DEF Room
      <4> QED
        BY <2>3, <3>2, <4>1, <4>2
    <3>3. CASE q # p
      BY <1>0, <2>8, <3>3 DEF Depth, Top, Room
    <3> QED
      BY <3>2, <3>3
  <2> QED
    BY <2>7, <2>9 DEF StackInv
<1>4. ASSUME NEW p \in Queues, ScheduleTask(p) PROVE StackInv'
  <2>1. Typed' /\ Switching' /\ OnMain'
    BY <1>0, <1>4 DEF ScheduleTask, Schedule, Typed, Switching, OnMain
  <2>2. \A q \in Queues : StackTop(q)' = StackTop(q)
    BY <1>4 DEF ScheduleTask, StackTop, Top
  <2> QED
    BY <2>1, <2>2, SameRoom DEF StackInv
<1>5. ASSUME NEW p \in Queues, tickHandler(p) PROVE StackInv'
  <2>1. PICK ws : ws = Junk(HandlerWords) \o Caller(regs)
    OBVIOUS
  <2>2. ws \in Seq(Int)
    BY <1>0, <2>1, HandlerPushes DEF Typed
  <2>3. mem' = Push(mem, sp, ws)
    BY <1>5, <2>1 DEF tickHandler
  <2>4. mem' \in [Memory -> Int]
    BY <1>0, <2>2, <2>3, PushPlaces DEF Typed
  <2>5. Typed' /\ Switching' /\ OnMain'
    BY <1>0, <1>5, <2>4 DEF tickHandler, Schedule, Typed, Switching, OnMain
  <2>6. \A q \in Queues : StackTop(q)' = StackTop(q)
    BY <1>5 DEF tickHandler, StackTop, Top
  <2> QED
    BY <2>5, <2>6, SameRoom DEF StackInv
<1>6. ASSUME Enter PROVE StackInv'
  <2>1. made = Queues /\ nextQueue \in Queues
    BY <1>0, <1>6 DEF Enter, Switching
  <2>2. /\ Callee(regs) \in Seq(Int) /\ Len(Callee(regs)) = 8
        /\ Caller(regs) \in Seq(Int) /\ Len(Caller(regs)) = 8
    BY <1>0, Halves DEF Typed
  <2>3. mem' \in [Memory -> Int]
    BY <1>0, <1>6, <2>2, PushPlaces DEF Enter, Typed
  <2>4. regs' \in Seq(Int) /\ Len(regs') = 16
    <3>1. 8 \in Nat
      OBVIOUS
    <3>2. Junk(8) \in Seq(Int) /\ Len(Junk(8)) = 8
      BY <3>1, JunkWords
    <3> QED
      BY <1>6, <2>2, <3>2, Joined DEF Enter
  <2>5. Typed' /\ Switching' /\ OnMain'
    <3>1. sp \in Int /\ sp' = sp - 32 /\ sp' \in Int
      BY <1>0, <1>6 DEF Enter, Typed
    <3>2. Typed' /\ Switching'
      BY <1>0, <1>6, <2>1, <2>3, <2>4, <3>1 DEF Enter, Typed, Switching
    <3>3. OnMain'
      BY <1>0, <1>6, <3>1 DEF Enter, OnMain
    <3> QED
      BY <3>2, <3>3
  <2>6. \A q \in Queues : StackTop(q)' = StackTop(q)
    BY <1>0, <1>6 DEF Enter, StackTop, Top, Typed
  <2> QED
    BY <2>5, <2>6, SameRoom DEF StackInv
<1>7. ASSUME contextSwitchISR PROVE StackInv'
  <2>1. /\ level = "entered" /\ made = Queues /\ nextQueue \in Queues
        /\ currQueue' = nextQueue /\ level' = "switched"
        /\ UNCHANGED <<made, nextQueue, pendSV>>
    BY <1>0, <1>7 DEF contextSwitchISR, Switching
  <2>2. Callee(regs) \in Seq(Int) /\ Len(Callee(regs)) = 8
    BY <1>0, Halves DEF Typed
  <2>3. mem' \in [Memory -> Int] /\ spOf' \in [Queues -> Int]
    <3>1. Push(mem, sp, Callee(regs)) \in [Memory -> Int]
      BY <1>0, <2>2, PushPlaces DEF Typed
    <3>2. sp - 32 \in Int
      BY <1>0 DEF Typed
    <3> QED
      BY <1>0, <1>7, <3>1, <3>2 DEF contextSwitchISR, Typed
  <2>4. \A q \in Queues : spOf'[q] = StackTop(q) - 64
    <3>1. SUFFICES ASSUME NEW q \in Queues PROVE spOf'[q] = StackTop(q) - 64
      OBVIOUS
    <3>2. StackTop(q) \in Int
      BY Place
    <3>3. CASE q = currQueue
      <4>1. sp = StackTop(q) - 32
        BY <2>1, <3>3, Pointers
      <4> QED
        BY <1>0, <1>7, <3>2, <3>3, <4>1 DEF contextSwitchISR, Typed
    <3>4. CASE q # currQueue
      BY <1>0, <1>7, <2>1, <3>4, Pointers DEF contextSwitchISR, Typed
    <3> QED
      BY <3>3, <3>4
  <2>5. sp' = spOf'[nextQueue] + 32 /\ sp' \in Int
    BY <1>7, <2>1, <2>3 DEF contextSwitchISR
  <2>6. regs' \in Seq(Int) /\ Len(regs') = 16
    <3>1. /\ StackTop(nextQueue) \in Int /\ StackTop(nextQueue) % 4 = 0
          /\ Base[nextQueue] + 64 <= StackTop(nextQueue) /\ Top(nextQueue) \in Int
          /\ StackTop(nextQueue) <= Top(nextQueue) /\ Base[nextQueue] \in Nat
      BY <2>1, Place
    <3>2. PICK a : a = spOf'[nextQueue]
      OBVIOUS
    <3>3. /\ a \in Int /\ a % 4 = 0 /\ Base[nextQueue] <= a /\ a + 4 * 8 <= Top(nextQueue)
          /\ 8 \in Nat
      BY <2>1, <2>4, <3>1, <3>2
    <3>4. PICK m : m = mem'
      OBVIOUS
    <3>5. Words(m, a, 8) \in Seq(Int) /\ Len(Words(m, a, 8)) = 8
      BY <2>1, <2>3, <3>3, <3>4, WordsIn
    <3>6. Junk(8) \in Seq(Int) /\ Len(Junk(8)) = 8
      BY <3>3, JunkWords
    <3>7. regs' = Words(m, a, 8) \o Junk(8)
      BY <1>7, <3>2, <3>4 DEF contextSwitchISR
    <3> QED
      BY <3>5, <3>6, <3>7, Joined
  <2>7. Typed' /\ Switching' /\ OnMain'
    BY <1>0, <2>1, <2>3, <2>5, <2>6 DEF Typed, Switching, OnMain
  <2>8. \A q \in Queues : StackTop(q)' = StackTop(q)
    BY <2>1, <2>3, <2>4, <2>5, Place DEF StackTop, Top
  <2> QED
    BY <2>7, <2>8, SameRoom DEF StackInv
<1>8. ASSUME ExceptionReturn PROVE StackInv'
  <2>1. /\ level = "switched" /\ currQueue \in Queues /\ made = Queues /\ sp \in Int
    BY <1>0, <1>8 DEF ExceptionReturn, Switching, OnMain, Typed
  <2>2. PICK p \in Queues : p = currQueue
    BY <2>1
  <2>3. /\ sp % 4 = 0 /\ Base[p] <= sp /\ sp + 4 * 8 <= Top(p) /\ 8 \in Nat
    <3>1. sp = StackTop(p) - 32
      BY <2>1, <2>2, Pointers
    <3>2. /\ StackTop(p) \in Int /\ StackTop(p) % 4 = 0 /\ Base[p] + 64 <= StackTop(p)
          /\ StackTop(p) <= Top(p) /\ Top(p) \in Int /\ Base[p] \in Nat
      BY Place
    <3> QED
      BY <3>1, <3>2
  <2>4. Words(mem, sp, 8) \in Seq(Int) /\ Len(Words(mem, sp, 8)) = 8
    <3>1. PICK m, a : m = mem /\ a = sp
      OBVIOUS
    <3>2. m \in [Memory -> Int] /\ a \in Int
      BY <1>0, <2>1, <3>1 DEF Typed
    <3>3. Words(m, a, 8) \in Seq(Int) /\ Len(Words(m, a, 8)) = 8
      BY <2>3, <3>1, <3>2, WordsIn
    <3> QED
      BY <3>1, <3>3
  <2>5. Callee(regs) \in Seq(Int) /\ Len(Callee(regs)) = 8
    BY <1>0, Halves DEF Typed
  <2>6. regs' \in Seq(Int) /\ Len(regs') = 16
    BY <1>8, <2>4, <2>5, Joined DEF ExceptionReturn
  <2>7. Typed' /\ Switching' /\ OnMain'
    BY <1>0, <1>8, <2>1, <2>6 DEF ExceptionReturn, Typed, Switching, OnMain
  <2>8. \A q \in Queues : StackTop(q)' = StackTop(q)
    BY <1>8, <2>1 DEF ExceptionReturn, StackTop, Top
  <2> QED
    BY <2>7, <2>8, SameRoom DEF StackInv
<1>9. CASE UNCHANGED vars
  BY <1>9 DEF vars, StackInv, Typed, Switching, OnMain, Room, Depth, StackTop, Top, OnTop
<1> QED
  BY <1>1, <1>2, <1>3, <1>4, <1>5, <1>6, <1>7, <1>8, <1>9 DEF Next

LEMMA Invariance == ASSUME NeedsFit PROVE Spec => []StackInv
<1>1. Init => StackInv
  BY InitStacks
<1>2. StackInv /\ [Next]_vars => StackInv'
  BY NextStacks
<1> QED
  BY <1>1, <1>2, PTL DEF Spec
-----------------------------------------------------------------------------
(***************************************************************************)
(* What is written.                                                        *)
(***************************************************************************)
(* While they fit it, queues write in their own arrays only.               *)
LEMMA InitWrites ==
  ASSUME NeedsFit, ArraysApart, NEW q \in Queues, initSP(q), mem \in [Memory -> Int],
         NEW x \in Memory, mem'[x] # mem[x]
  PROVE  {p \in Queues : x \in Array(p)} = {q}
<1>1. /\ Base[q] \in Nat /\ Size[q] \in Nat /\ Top(q) \in Int /\ x \in Int
      /\ Top(q) <= Base[q] + Size[q] /\ Limit(q) \in Int /\ Base[q] <= Limit(q)
      /\ OnTop \in Int /\ OnTop >= 64 /\ Base[q] + OnTop <= Top(q)
  <2>1. OnTop = 64 + 4 * HandlerWords /\ HandlerWords \in Nat /\ x \in Int
    BY StacksAssumption DEF OnTop
  <2> QED
    BY <2>1, Bounds DEF NeedsFit
<1>2. \/ Top(q) - 64 <= x /\ x <= Top(q) - 4
      \/ Limit(q) <= x /\ x <= Top(q) - 68
  <2>1. x \in Limit(q) .. Top(q) - 68 \/ mem'[x] = Push(mem, Top(q), InitialFrame)[x]
    BY DEF initSP
  <2>2. CASE x \in Limit(q) .. Top(q) - 68
    BY <1>1, <2>2
  <2>3. CASE Push(mem, Top(q), InitialFrame)[x] # mem[x]
    <3>1. PICK m, ws, a : m = mem /\ ws = InitialFrame /\ a = Top(q)
      OBVIOUS
    <3>2. m \in [Memory -> Int] /\ ws \in Seq(Int) /\ Len(ws) = 16 /\ a \in Int
      BY <1>1, <3>1, FrameWords
    <3>3. Push(m, a, ws)[x] # m[x]
      BY <2>3, <3>1
    <3>4. a - 4 * Len(ws) <= x /\ x <= a - 4
      BY <3>2, <3>3, PushPlaces
    <3>5. a - 64 <= x /\ x <= a - 4
      BY <3>2, <3>4
    <3> QED
      BY <3>1, <3>5
  <2> QED
    BY <2>1, <2>2, <2>3
<1>3. x \in Array(q)
  BY <1>1, <1>2 DEF Array
<1> QED
  BY <1>3 DEF ArraysApart

(* Everything else is pushed at sp.                                        *)
LEMMA PushWrites ==
  ASSUME NeedsFit, ArraysApart, StackInv, NEW ws \in Seq(Int), mem' = Push(mem, sp, ws),
         4 * Len(ws) <= (IF level = "thread" THEN OnTop ELSE OnTop - 32), made' = made,
         NEW x \in Memory, mem'[x] # mem[x]
  PROVE  {p \in Queues : x \in Array(p)} = Owners
<1>1. PICK m, a : m = mem /\ a = sp
  OBVIOUS
<1>2. m \in [Memory -> Int] /\ a \in Int
  BY <1>1 DEF StackInv, Typed
<1>3. a - 4 * Len(ws) <= x /\ x <= a - 4
  BY <1>1, <1>2, PushPlaces
<1>4. x \in Int /\ Len(ws) \in Nat /\ OnTop \in Int
  BY StacksAssumption, LenProperties DEF OnTop
<1>5. /\ x <= sp - 4
      /\ sp - (IF level = "thread" THEN OnTop ELSE OnTop - 32) <= x
  BY <1>1, <1>2, <1>3, <1>4
<1>6. {p \in Queues : x \in Array(p)} = IF currQueue = NULL THEN {} ELSE {currQueue}
  BY <1>4, <1>5, Written
<1> QED
  BY <1>6 DEF Owners

LEMMA NextWrites ==
  ASSUME NeedsFit, ArraysApart, StackInv, [Next]_vars, NEW x \in Memory, mem'[x] # mem[x]
  PROVE  {q \in Queues : x \in Array(q)} = Owners
<1>0. Typed /\ Switching /\ NULL \notin Queues
  BY StacksAssumption DEF StackInv
<1>1. /\ OnTop \in Int /\ OnTop >= 64
      /\ Callee(regs) \in Seq(Int) /\ Len(Callee(regs)) = 8
      /\ Caller(regs) \in Seq(Int) /\ Len(Caller(regs)) = 8
  <2>1. OnTop = 64 + 4 * HandlerWords /\ HandlerWords \in Nat
    BY StacksAssumption DEF OnTop
  <2> QED
    BY <1>0, <2>1, Halves DEF Typed
<1>2. ASSUME NEW p \in Queues, initSP(p) PROVE {q \in Queues : x \in Array(q)} = Owners
  <2>1. currQueue = NULL /\ made' \ made = {p}
    BY <1>0, <1>2 DEF initSP, Switching, Typed
  <2> QED
    BY <1>0, <1>2, <2>1, InitWrites DEF Owners, Typed
<1>3. ASSUME NEW p \in Queues, Call(p) PROVE {q \in Queues : x \in Array(q)} = Owners
  <2>1. PICK ws : ws = [i \in 1 .. Len(PUSHED) |-> regs[PUSHED[i]]]
    OBVIOUS
  <2>2. ws \in Seq(Int) /\ Len(ws) = 8
    BY <1>0, <2>1, PushedWords DEF Typed
  <2>3. mem' = Push(mem, sp, ws) /\ level = "thread" /\ made' = made
    BY <1>3, <2>1 DEF Call
  <2>4. 4 * Len(ws) <= (IF level = "thread" THEN OnTop ELSE OnTop - 32)
    BY <1>1, <2>2, <2>3
  <2> QED
    BY <2>2, <2>3, <2>4, PushWrites
<1>4. ASSUME NEW p \in Queues, tickHandler(p)
      PROVE  {q \in Queues : x \in Array(q)} = Owners
  <2>1. PICK ws : ws = Junk(HandlerWords) \o Caller(regs)
    OBVIOUS
  <2>2. ws \in Seq(Int) /\ 4 * Len(ws) = OnTop - 32
    BY <1>0, <2>1, HandlerPushes DEF Typed
  <2>3. mem' = Push(mem, sp, ws) /\ made' = made
    BY <1>4, <2>1 DEF tickHandler
  <2>4. 4 * Len(ws) <= (IF level = "thread" THEN OnTop ELSE OnTop - 32)
    BY <1>1, <2>2
  <2> QED
    BY <2>2, <2>3, <2>4, PushWrites
<1>5. ASSUME Enter PROVE {q \in Queues : x \in Array(q)} = Owners
  <2>1. PICK ws : ws = Caller(regs)
    OBVIOUS
  <2>2. ws \in Seq(Int) /\ Len(ws) = 8
    BY <1>1, <2>1
  <2>3. mem' = Push(mem, sp, ws) /\ made' = made /\ level = "thread"
    BY <1>5, <2>1 DEF Enter
  <2>4. 4 * Len(ws) <= (IF level = "thread" THEN OnTop ELSE OnTop - 32)
    BY <1>1, <2>2, <2>3
  <2> QED
    BY <2>2, <2>3, <2>4, PushWrites
<1>6. ASSUME contextSwitchISR PROVE {q \in Queues : x \in Array(q)} = Owners
  <2>1. PICK ws : ws = Callee(regs)
    OBVIOUS
  <2>2. ws \in Seq(Int) /\ Len(ws) = 8
    BY <1>1, <2>1
  <2>3. mem' = Push(mem, sp, ws) /\ made' = made /\ level = "entered"
    BY <1>6, <2>1 DEF contextSwitchISR
  <2>4. 4 * Len(ws) <= (IF level = "thread" THEN OnTop ELSE OnTop - 32)
    BY <1>1, <2>2, <2>3
  <2> QED
    BY <2>2, <2>3, <2>4, PushWrites
<1>7. ASSUME NEW p \in Queues, Return(p) \/ ScheduleTask(p) PROVE FALSE
  BY <1>7 DEF Return, ScheduleTask
<1>8. CASE ExceptionReturn \/ UNCHANGED vars
  BY <1>8 DEF ExceptionReturn, vars
<1> QED
  BY <1>2, <1>3, <1>4, <1>5, <1>6, <1>7, <1>8 DEF Next
-----------------------------------------------------------------------------
(***************************************************************************)
(* The contexts.                                                           *)
(***************************************************************************)
Kept(q) == RegsOf(q)' = RegsOf(q) /\ StackOf(q)' = StackOf(q)

LEMMA WordsSame ==
  ASSUME NEW m \in [Memory -> Int], NEW m2 \in [Memory -> Int], NEW q \in Queues,
         NEW a \in Int, NEW n \in Nat, a % 4 = 0, Base[q] <= a, a + 4 * n <= Top(q),
         \A x \in Memory : (x \in Array(q) /\ a <= x) => m2[x] = m[x]
  PROVE  Words(m2, a, n) = Words(m, a, n)
<1>1. ASSUME NEW i \in 1 .. n PROVE Words(m2, a, n)[i] = Words(m, a, n)[i]
  <2>1. /\ a + 4 * (i - 1) \in Memory /\ a + 4 * (i - 1) \in Array(q)
        /\ Words(m, a, n)[i] = m[a + 4 * (i - 1)]
        /\ Words(m2, a, n)[i] = m2[a + 4 * (i - 1)]
    BY WordsIn
  <2>2. a <= a + 4 * (i - 1)
    OBVIOUS
  <2> QED
    BY <2>1, <2>2
<1>2. /\ Words(m, a, n) \in Seq(Int) /\ Len(Words(m, a, n)) = n
      /\ Words(m2, a, n) \in Seq(Int) /\ Len(Words(m2, a, n)) = n
  BY WordsIn
<1> QED
  BY <1>1, <1>2, SeqEqual

(* How many words q has on its stack.                                      *)
Height(q) == (Top(q) - StackTop(q)) \div 4

LEMMA Heights ==
  ASSUME NeedsFit, StackInv, NEW q \in Queues
  PROVE  /\ Height(q) \in Nat /\ StackTop(q) + 4 * Height(q) = Top(q)
         /\ StackOf(q) \in Seq(Int) /\ Len(StackOf(q)) = Height(q)
         /\ \A i \in 1 .. Height(q) : StackOf(q)[i] = mem[StackTop(q) + 4 * (i - 1)]
<1>1. /\ StackTop(q) \in Int /\ Top(q) \in Int /\ StackTop(q) <= Top(q)
      /\ StackTop(q) % 4 = 0 /\ Top(q) % 4 = 0 /\ Base[q] <= StackTop(q)
  <2>1. /\ Base[q] \in Nat /\ Top(q) \in Int /\ Top(q) % 4 = 0
        /\ StackTop(q) \in Int /\ StackTop(q) % 4 = 0
        /\ Base[q] + OnTop <= StackTop(q) /\ StackTop(q) <= Top(q)
        /\ OnTop \in Int /\ OnTop >= 64
    BY Place
  <2> QED
    BY <2>1
<1>2. Height(q) \in Nat /\ StackTop(q) + 4 * Height(q) = Top(q)
  <2>1. (Top(q) - StackTop(q)) % 4 = 0 /\ Top(q) - StackTop(q) \in Nat
    BY <1>1
  <2>2. \A n \in Nat : n % 4 = 0 => n \div 4 \in Nat /\ 4 * (n \div 4) = n
    OBVIOUS
  <2> QED
    BY <1>1, <2>1, <2>2 DEF Height
<1>3. PICK m, a, n : m = mem /\ a = StackTop(q) /\ n = Height(q)
  OBVIOUS
<1>4. /\ m \in [Memory -> Int] /\ a \in Int /\ n \in Nat
      /\ a % 4 = 0 /\ Base[q] <= a /\ a + 4 * n <= Top(q)
  BY <1>1, <1>2, <1>3 DEF StackInv, Typed
<1>5. /\ Words(m, a, n) \in Seq(Int) /\ Len(Words(m, a, n)) = n
      /\ \A i \in 1 .. n : Words(m, a, n)[i] = m[a + 4 * (i - 1)]
  BY <1>4, WordsIn
<1>6. StackOf(q) = Words(m, a, n)
  BY <1>3 DEF StackOf, Height
<1> QED
  BY <1>2, <1>3, <1>5, <1>6

(* The stack of q is where it was if its words and its top are.            *)
LEMMA SameStack ==
  ASSUME NeedsFit, StackInv, NEW q \in Queues, StackTop(q)' = StackTop(q),
         mem' \in [Memory -> Int],
         \A x \in Memory : (x \in Array(q) /\ StackTop(q) <= x) => mem'[x] = mem[x]
  PROVE  StackOf(q)' = StackOf(q)
<1>1. PICK m, m2, a, n : m = mem /\ m2 = mem' /\ a = StackTop(q) /\ n = Height(q)
  OBVIOUS
<1>2. /\ m \in [Memory -> Int] /\ m2 \in [Memory -> Int] /\ a \in Int /\ n \in Nat
      /\ a % 4 = 0 /\ Base[q] <= a /\ a + 4 * n <= Top(q)
  <2>1. /\ Base[q] \in Nat /\ Top(q) \in Int
        /\ StackTop(q) \in Int /\ StackTop(q) % 4 = 0
        /\ Base[q] + OnTop <= StackTop(q) /\ OnTop \in Int /\ OnTop >= 64
    BY Place
  <2>2. Height(q) \in Nat /\ StackTop(q) + 4 * Height(q) = Top(q)
    BY Heights
  <2> QED
    BY <1>1, <2>1, <2>2 DEF StackInv, Typed
<1>3. Words(m2, a, n) = Words(m, a, n)
  BY <1>1, <1>2, WordsSame
<1>4. StackOf(q) = Words(m, a, n)
  BY <1>1 DEF StackOf, Height
<1>5. StackOf(q)' = Words(m2, a, n)
  BY <1>1 DEF StackOf, Height, Top
<1> QED
  BY <1>3, <1>4, <1>5

(* What is written on one queue's stack, or on none's, leaves the others   *)
(* alone.                                                                  *)
LEMMA OtherKept ==
  ASSUME NeedsFit, ArraysApart, StackInv, [Next]_vars, mem' \in [Memory -> Int],
         NEW q \in Queues, q # currQueue, q # currQueue',
         q \in made' <=> q \in made, spOf'[q] = spOf[q]
  PROVE  Kept(q)
<1>1. ASSUME NEW x \in Memory, x \in Array(q) PROVE mem'[x] = mem[x]
  <2>1. q \notin Owners
    BY DEF Owners
  <2> QED
    BY <1>1, <2>1, NextWrites
<1>2. StackTop(q)' = StackTop(q)
  BY DEF StackTop, Top
<1>3. StackOf(q)' = StackOf(q)
  BY <1>1, <1>2, SameStack
<1>4. RegsOf(q)' = RegsOf(q)
  <2>1. CASE q \notin made
    BY <2>1 DEF RegsOf
  <2>2. CASE q \in made
    <3>1. PICK m, m2, a, n : m = mem /\ m2 = mem' /\ a = spOf[q] /\ n = 16
      OBVIOUS
    <3>2. /\ m \in [Memory -> Int] /\ m2 \in [Memory -> Int] /\ a \in Int /\ n \in Nat
          /\ a % 4 = 0 /\ Base[q] <= a /\ a + 4 * n <= Top(q)
      <4>1. /\ Base[q] \in Nat /\ Top(q) \in Int
            /\ StackTop(q) \in Int /\ StackTop(q) % 4 = 0 /\ StackTop(q) <= Top(q)
            /\ Base[q] + OnTop <= StackTop(q) /\ OnTop \in Int /\ OnTop >= 64
        BY Place
      <4>2. spOf[q] = StackTop(q) - 64
        BY <2>2, Pointers
      <4>3. m \in [Memory -> Int] /\ m2 \in [Memory -> Int]
        BY <3>1 DEF StackInv, Typed
      <4>4. a = StackTop(q) - 64 /\ a \in Int
        BY <3>1, <4>1, <4>2
      <4>5. a % 4 = 0 /\ Base[q] <= a /\ a + 64 <= Top(q)
        BY <4>1, <4>4
      <4> QED
        BY <3>1, <4>3, <4>4, <4>5
    <3>3. Words(m2, a, n) = Words(m, a, n)
      BY <1>1, <3>1, <3>2, WordsSame
    <3> QED
      BY <2>2, <3>1, <3>3 DEF RegsOf
  <2> QED
    BY <2>1, <2>2
<1> QED
  BY <1>3, <1>4 DEF Kept

(* There are n words of q from a on; the words s are there; and after      *)
(* these, from b on, n others, N in all.                                   *)
Inside(q, a, n) == a \in Int /\ a % 4 = 0 /\ Base[q] <= a /\ a + 4 * n <= Top(q)
Holds(m, a, s) == \A i \in 1 .. Len(s) : m[a + 4 * (i - 1)] = s[i]
Follow(m, q, a, s, b, n, N) ==
  /\ m \in [Memory -> Int] /\ q \in Queues /\ s \in Seq(Int) /\ Holds(m, a, s)
  /\ n \in Nat /\ N \in Nat /\ N = Len(s) + n /\ b = a + 4 * Len(s)
  /\ Inside(q, a, N) /\ Inside(q, b, n)

LEMMA InsideIn ==
  ASSUME NEW m \in [Memory -> Int], NEW q \in Queues, NEW a, NEW n \in Nat, Inside(q, a, n)
  PROVE  /\ Words(m, a, n) \in Seq(Int) /\ Len(Words(m, a, n)) = n
         /\ Holds(m, a, Words(m, a, n))
         /\ \A i \in 1 .. n : a + 4 * (i - 1) \in Memory
<1>1. a \in Int /\ a % 4 = 0 /\ Base[q] <= a /\ a + 4 * n <= Top(q)
  BY DEF Inside
<1>2. /\ Words(m, a, n) \in Seq(Int) /\ Len(Words(m, a, n)) = n
      /\ \A i \in 1 .. n : a + 4 * (i - 1) \in Memory /\ Words(m, a, n)[i] = m[a + 4 * (i - 1)]
  BY <1>1, WordsIn
<1> QED
  BY <1>2 DEF Holds

(* What is pushed is there.                                                *)
LEMMA Placed ==
  ASSUME NEW m \in [Memory -> Int], NEW ws \in Seq(Int), NEW a \in Int, NEW q \in Queues,
         NEW b, b = a - 4 * Len(ws), NEW n \in Nat, n = Len(ws), Inside(q, b, n),
         NEW m2, m2 = Push(m, a, ws)
  PROVE  Holds(m2, b, ws)
<1>1. \A i \in 1 .. n : b + 4 * (i - 1) \in Memory
  BY InsideIn
<1>2. \A i \in 1 .. Len(ws) : a - 4 * Len(ws) + 4 * (i - 1) \in Memory =>
        m2[a - 4 * Len(ws) + 4 * (i - 1)] = ws[i]
  BY PushPlaces
<1> QED
  BY <1>1, <1>2 DEF Holds

(* Words that are there from a on are read there ...                       *)
LEMMA Stored ==
  ASSUME NEW m \in [Memory -> Int], NEW q \in Queues, NEW a, NEW s \in Seq(Int),
         NEW n \in Nat, n = Len(s), Inside(q, a, n), Holds(m, a, s)
  PROVE  Words(m, a, n) = s
<1>1. /\ Words(m, a, n) \in Seq(Int) /\ Len(Words(m, a, n)) = n
      /\ \A i \in 1 .. n : Words(m, a, n)[i] = m[a + 4 * (i - 1)]
  BY InsideIn DEF Holds
<1>2. \A i \in 1 .. n : s[i] = m[a + 4 * (i - 1)]
  BY DEF Holds
<1> QED
  BY <1>1, <1>2, SeqEqual

(* ... and the words from there on follow.                                 *)
LEMMA Stacked ==
  ASSUME NEW m, NEW q, NEW a, NEW s, NEW b, NEW n, NEW N, Follow(m, q, a, s, b, n, N)
  PROVE  Words(m, a, N) = s \o Words(m, b, n)
<1>0. /\ m \in [Memory -> Int] /\ q \in Queues /\ s \in Seq(Int) /\ Holds(m, a, s)
      /\ n \in Nat /\ N \in Nat /\ Inside(q, a, N) /\ Inside(q, b, n)
  BY DEF Follow
<1> DEFINE k == Len(s)
<1>1. k \in Nat /\ k = Len(s) /\ N = k + n /\ b = a + 4 * k
  BY <1>0, LenProperties DEF Follow
<1> HIDE DEF k
<1>2. PICK t : t = Words(m, b, n)
  OBVIOUS
<1>3. /\ t \in Seq(Int) /\ Len(t) = n
      /\ \A i \in 1 .. n : t[i] = m[b + 4 * (i - 1)]
  <2>1. t \in Seq(Int) /\ Len(t) = n /\ Holds(m, b, t)
    BY <1>0, <1>2, InsideIn
  <2> QED
    BY <2>1 DEF Holds
<1>4. /\ Words(m, a, N) \in Seq(Int) /\ Len(Words(m, a, N)) = N
      /\ \A i \in 1 .. N : Words(m, a, N)[i] = m[a + 4 * (i - 1)]
  <2>1. /\ Words(m, a, N) \in Seq(Int) /\ Len(Words(m, a, N)) = N
        /\ Holds(m, a, Words(m, a, N))
    BY <1>0, InsideIn
  <2> QED
    BY <2>1 DEF Holds
<1>5. PICK u : u = s \o t
  OBVIOUS
<1>6. /\ u \in Seq(Int) /\ Len(u) = N
      /\ \A i \in 1 .. N : u[i] = IF i <= k THEN s[i] ELSE t[i - k]
  <2>1. /\ u \in Seq(Int) /\ Len(u) = Len(s) + Len(t)
        /\ \A i \in 1 .. Len(s) + Len(t) : u[i] = IF i <= Len(s) THEN s[i] ELSE t[i - Len(s)]
    BY <1>0, <1>3, <1>5, Chained
  <2> QED
    BY <1>3, <1>1, <2>1
<1>7. ASSUME NEW i \in 1 .. N PROVE Words(m, a, N)[i] = u[i]
  <2>1. CASE i <= k
    <3>1. i \in 1 .. k
      BY <1>1, <2>1
    <3>2. s[i] = m[a + 4 * (i - 1)]
      BY <1>0, <1>1, <3>1 DEF Holds
    <3> QED
      BY <1>4, <1>6, <2>1, <3>2
  <2>2. CASE i > k
    <3>0. a \in Int
      BY <1>0 DEF Inside
    <3>1. i - k \in 1 .. n /\ ~(i <= k) /\ b + 4 * ((i - k) - 1) = a + 4 * (i - 1)
      BY <1>0, <1>1, <2>2, <3>0
    <3>2. t[i - k] = m[b + 4 * ((i - k) - 1)]
      BY <1>3, <3>1
    <3> QED
      BY <1>4, <1>6, <3>1, <3>2
  <2> QED
    BY <1>1, <2>1, <2>2
<1>8. Words(m, a, N) = u
  BY <1>4, <1>6, <1>7, SeqEqual
<1> QED
  BY <1>5, <1>8, <1>2

(* What is left when eight words are popped.                               *)
LEMMA Popped ==
  ASSUME NEW m \in [Memory -> Int], NEW q \in Queues, NEW a \in Int, NEW n \in Nat,
         n >= 8, a % 4 = 0, Base[q] <= a, a + 4 * n <= Top(q),
         NEW s, s = Words(m, a, n), NEW b, b = a + 32
  PROVE  Words(m, b, n - 8) = SubSeq(s, 9, n)
<1>0. Top(q) \in Int /\ Base[q] \in Int
  BY Bounds
<1>1. /\ s \in Seq(Int) /\ Len(s) = n
      /\ \A i \in 1 .. n : s[i] = m[a + 4 * (i - 1)]
  BY WordsIn
<1>2. PICK k : k = n - 8
  OBVIOUS
<1>3. k \in Nat /\ b \in Int /\ b % 4 = 0 /\ Base[q] <= b /\ b + 4 * k <= Top(q)
  BY <1>0, <1>2
<1>4. /\ Words(m, b, k) \in Seq(Int) /\ Len(Words(m, b, k)) = k
      /\ \A i \in 1 .. k : Words(m, b, k)[i] = m[b + 4 * (i - 1)]
  BY <1>3, WordsIn
<1>5. /\ SubSeq(s, 9, n) \in Seq(Int) /\ Len(SubSeq(s, 9, n)) = k
      /\ \A i \in 1 .. k : SubSeq(s, 9, n)[i] = s[8 + i]
  <2>1. ASSUME NEW i \in 9 .. n PROVE s[i] \in Int
    <3>1. i \in 1 .. Len(s)
      BY <1>1
    <3> QED
      BY <1>1, <3>1, ElementOfSeq
  <2>2. /\ SubSeq(s, 9, n) \in Seq(Int)
        /\ Len(SubSeq(s, 9, n)) = IF 9 <= n THEN n - 9 + 1 ELSE 0
        /\ \A i \in 1 .. n - 9 + 1 : SubSeq(s, 9, n)[i] = s[9 + i - 1]
    BY <2>1, SubSeqProperties
  <2> QED
    BY <1>2, <2>2
<1>6. ASSUME NEW i \in 1 .. k PROVE Words(m, b, k)[i] = SubSeq(s, 9, n)[i]
  <2>1. 8 + i \in 1 .. n /\ a + 4 * ((8 + i) - 1) = b + 4 * (i - 1)
    BY <1>2, <1>3
  <2>2. s[8 + i] = m[a + 4 * ((8 + i) - 1)]
    BY <1>1, <2>1
  <2> QED
    BY <1>4, <1>5, <2>1, <2>2
<1> QED
  BY <1>2, <1>4, <1>5, <1>6, SeqEqual

LEMMA Rejoined ==
  ASSUME NEW r \in Seq(Int), Len(r) = 16 PROVE Callee(r) \o Caller(r) = r
<1>1. PICK s, t : s = Callee(r) /\ t = Caller(r)
  OBVIOUS
<1>2. /\ s \in Seq(Int) /\ Len(s) = 8 /\ t \in Seq(Int) /\ Len(t) = 8
      /\ \A i \in 1 .. 8 : s[i] = r[i] /\ t[i] = r[8 + i]
  BY <1>1, Halves
<1>3. PICK u : u = s \o t
  OBVIOUS
<1>4. /\ u \in Seq(Int) /\ Len(u) = 16
      /\ \A i \in 1 .. 8 : u[i] = s[i] /\ u[8 + i] = t[i]
  <2>1. s \in Seq(Int) /\ Len(s) = 8 /\ t \in Seq(Int) /\ Len(t) = 8
    BY <1>2
  <2>2. /\ s \o t \in Seq(Int) /\ Len(s \o t) = 16
        /\ \A i \in 1 .. 8 : (s \o t)[i] = s[i] /\ (s \o t)[8 + i] = t[i]
    BY <2>1, Joined
  <2> QED
    BY <1>3, <2>2
<1>5. ASSUME NEW i \in 1 .. 16 PROVE u[i] = r[i]
  <2>1. CASE i <= 8
    <3>1. i \in 1 .. 8
      BY <2>1
    <3> QED
      BY <1>2, <1>4, <3>1
  <2>2. CASE i > 8
    <3>1. i - 8 \in 1 .. 8 /\ 8 + (i - 8) = i
      BY <2>2
    <3>2. u[8 + (i - 8)] = t[i - 8] /\ t[i - 8] = r[8 + (i - 8)]
      BY <1>2, <1>4, <3>1
    <3> QED
      BY <3>1, <3>2
  <2> QED
    BY <2>1, <2>2
<1>6. \A i \in 1 .. Len(u) : u[i] = r[i]
  BY <1>4, <1>5
<1>7. u \in Seq(Int) /\ Len(u) = Len(r)
  BY <1>4
<1>8. u = r
  BY <1>6, <1>7, SeqEqual
<1> QED
  BY <1>1, <1>3, <1>8

LEMMA Empty ==
  ASSUME NEW m, NEW a PROVE Words(m, a, 0) = <<>>
<1>1. PICK v : v = Words(m, a, 0)
  OBVIOUS
<1>2. v \in [1 .. 0 -> Int]
  BY <1>1 DEF Words
<1>3. v \in Seq(Int) /\ Len(v) = 0
  BY <1>2, SeqDef
<1> QED
  BY <1>1, <1>3, EmptySeq
-----------------------------------------------------------------------------
(* What is pushed at sp leaves the words from sp on.                       *)
LEMMA AboveSp ==
  ASSUME Typed, NEW ws \in Seq(Int), mem' = Push(mem, sp, ws)
  PROVE  /\ mem' \in [Memory -> Int]
         /\ \A x \in Memory : sp <= x => mem'[x] = mem[x]
<1>1. PICK m, m2, a : m = mem /\ m2 = mem' /\ a = sp
  OBVIOUS
<1>2. m \in [Memory -> Int] /\ a \in Int /\ m2 = Push(m, a, ws)
  BY <1>1 DEF Typed
<1>3. /\ m2 \in [Memory -> Int]
      /\ \A x \in Memory : ~(a - 4 * Len(ws) <= x /\ x <= a - 4) => m2[x] = m[x]
  BY <1>2, PushPlaces
<1>4. ASSUME NEW x \in Memory, a <= x PROVE ~(x <= a - 4)
  <2>1. x \in Int
    BY StacksAssumption
  <2> QED
    BY <1>2, <1>4, <2>1
<1> QED
  BY <1>1, <1>3, <1>4

LEMMA InitKeeps ==
  ASSUME NeedsFit, ArraysApart, StackInv, NEW p \in Queues, initSP(p), NEW q \in Queues
  PROVE  Kept(q)
<1>0. Typed /\ Switching /\ NULL \notin Queues
  BY StacksAssumption DEF StackInv
<1>1. currQueue = NULL /\ currQueue' = NULL /\ p \notin made /\ p \in made'
  BY <1>0 DEF initSP, Switching, Typed
<1>2. [Next]_vars
  BY DEF Next
<1>3. Top(p) \in Int /\ Base[p] \in Nat /\ Top(p) % 4 = 0 /\ Base[p] + 64 <= Top(p)
  <2>1. /\ Base[p] \in Nat /\ Top(p) \in Int /\ Top(p) % 4 = 0 /\ StackTop(p) \in Int
        /\ Base[p] + OnTop <= StackTop(p) /\ StackTop(p) <= Top(p)
        /\ OnTop \in Int /\ OnTop >= 64
    BY Place
  <2> QED
    BY <2>1
<1>4. PICK m, a, f : m = Push(mem, Top(p), InitialFrame) /\ a = Top(p) /\ f = InitialFrame
  OBVIOUS
<1>5. f \in Seq(Int) /\ Len(f) = 16 /\ a \in Int
  BY <1>3, <1>4, FrameWords
<1>6. /\ m \in [Memory -> Int]
      /\ \A i \in 1 .. Len(f) : a - 4 * Len(f) + 4 * (i - 1) \in Memory =>
           m[a - 4 * Len(f) + 4 * (i - 1)] = f[i]
  <2>1. PICK m0 : m0 = mem
    OBVIOUS
  <2>2. m0 \in [Memory -> Int] /\ m = Push(m0, a, f)
    BY <1>0, <1>4, <2>1 DEF Typed
  <2> QED
    BY <1>5, <2>2, PushPlaces
<1>7. /\ mem' \in [Memory -> Int]
      /\ \A x \in Memory : x > a - 68 => mem'[x] = m[x]
  <2>1. mem' = [x \in Memory |-> IF x \in Limit(p) .. a - 68 THEN DEADBEEF ELSE m[x]]
    BY <1>4 DEF initSP
  <2>2. mem' \in [Memory -> Int]
    BY <1>6, <2>1 DEF DEADBEEF
  <2>3. Memory \subseteq Nat /\ Limit(p) \in Int
    BY StacksAssumption, Bounds
  <2> QED
    BY <1>5, <2>1, <2>2, <2>3
<1>8. /\ spOf'[p] = a - 64
      /\ \A r \in Queues : r # p => spOf'[r] = spOf[r] /\ (r \in made' <=> r \in made)
  BY <1>0, <1>4 DEF initSP, Typed
<1>9. CASE q # p
  BY <1>0, <1>1, <1>2, <1>7, <1>8, <1>9, OtherKept
<1>10. CASE q = p
  <2>1. StackOf(p) = <<>> /\ StackOf(p)' = <<>>
    <3>1. StackTop(p) = Top(p)
      BY <1>1 DEF StackTop
    <3>2. StackTop(p)' = Top(p)
      <4>1. StackTop(p)' = spOf'[p] + 64
        BY <1>0, <1>1 DEF StackTop
      <4> QED
        BY <1>4, <1>5, <1>8, <4>1
    <3>3. (Top(p) - Top(p)) \div 4 = 0
      BY <1>3
    <3>4. StackOf(p) = Words(mem, Top(p), 0)
      BY <3>1, <3>3 DEF StackOf
    <3>5. StackOf(p)' = Words(mem', Top(p), 0)
      BY <3>2, <3>3 DEF StackOf, Top
    <3> QED
      BY <3>4, <3>5, Empty
  <2>2. RegsOf(p) = f
    BY <1>1, <1>4 DEF RegsOf
  <2>3. RegsOf(p)' = Words(mem', spOf'[p], 16)
    BY <1>0, <1>1 DEF RegsOf
  <2>4. PICK m2, b : m2 = mem' /\ b = a - 64
    OBVIOUS
  <2>5. /\ m2 \in [Memory -> Int] /\ b \in Int /\ b % 4 = 0 /\ Base[p] <= b
        /\ b + 4 * 16 <= Top(p) /\ b + 4 * Len(f) <= Top(p) /\ 16 \in Nat
    BY <1>3, <1>4, <1>5, <1>7, <2>4
  <2>6. PICK n : n = 16
    OBVIOUS
  <2>7. n \in Nat /\ n = Len(f) /\ Inside(p, b, n)
    BY <1>5, <2>5, <2>6 DEF Inside
  <2>8. Holds(m2, b, f)
    <3>1. SUFFICES ASSUME NEW i \in 1 .. Len(f) PROVE m2[b + 4 * (i - 1)] = f[i]
      BY DEF Holds
    <3>2. i \in 1 .. n /\ a - 4 * Len(f) + 4 * (i - 1) = b + 4 * (i - 1)
      BY <1>5, <2>4, <2>7
    <3>3. b + 4 * (i - 1) \in Memory
      BY <2>5, <2>7, <3>2, InsideIn
    <3>4. b + 4 * (i - 1) > a - 68
      BY <1>5, <2>4, <3>2
    <3>5. m2[b + 4 * (i - 1)] = m[b + 4 * (i - 1)]
      BY <1>7, <2>4, <3>3, <3>4
    <3> QED
      BY <1>6, <3>2, <3>3, <3>5
  <2>9. Words(m2, b, n) = f
    BY <1>5, <2>5, <2>7, <2>8, Stored
  <2> QED
    BY <1>5, <1>8, <1>10, <2>1, <2>2, <2>3, <2>4, <2>6, <2>9 DEF Kept
<1> QED
  BY <1>9, <1>10

LEMMA HandlerKeeps ==
  ASSUME NeedsFit, ArraysApart, StackInv, NEW p \in Queues, tickHandler(p), NEW q \in Queues
  PROVE  Kept(q)
<1>0. Typed /\ Switching /\ NULL \notin Queues
  BY StacksAssumption DEF StackInv
<1>1. PICK ws : ws = Junk(HandlerWords) \o Caller(regs)
  OBVIOUS
<1>2. ws \in Seq(Int) /\ mem' = Push(mem, sp, ws)
  BY <1>0, <1>1, HandlerPushes DEF tickHandler, Typed
<1>3. /\ mem' \in [Memory -> Int]
      /\ \A x \in Memory : sp <= x => mem'[x] = mem[x]
  BY <1>0, <1>2, AboveSp
<1>4. UNCHANGED <<regs, sp, spOf, made, currQueue, level>>
  BY DEF tickHandler
<1>5. CASE q # currQueue
  <2>1. [Next]_vars
    BY DEF Next
  <2> QED
    BY <1>3, <1>4, <1>5, <2>1, OtherKept
<1>6. CASE q = currQueue
  <2>1. /\ StackTop(q) \in Int /\ StackTop(q) % 4 = 0 /\ StackTop(q) <= Top(q)
        /\ Top(q) \in Int /\ Base[q] \in Nat /\ Base[q] + 64 <= StackTop(q) /\ sp \in Int
        /\ sp = (IF level = "thread" THEN StackTop(q) ELSE StackTop(q) - 32)
    <3>1. /\ Base[q] \in Nat /\ Top(q) \in Int /\ StackTop(q) \in Int /\ StackTop(q) % 4 = 0
          /\ Base[q] + OnTop <= StackTop(q) /\ StackTop(q) <= Top(q)
          /\ OnTop \in Int /\ OnTop >= 64
      BY Place
    <3>2. sp = (IF level = "thread" THEN StackTop(q) ELSE StackTop(q) - 32)
      BY <1>6, Pointers
    <3> QED
      BY <1>0, <3>1, <3>2 DEF Typed
  <2>2. StackTop(q)' = StackTop(q)
    BY <1>4 DEF StackTop, Top
  <2>3. ASSUME NEW x \in Memory, StackTop(q) <= x PROVE sp <= x
    <3>1. x \in Int
      BY StacksAssumption
    <3> QED
      BY <2>1, <2>3, <3>1
  <2>4. StackOf(q)' = StackOf(q)
    BY <1>3, <2>2, <2>3, SameStack
  <2>5. RegsOf(q)' = RegsOf(q)
    <3>0. q \in made /\ made' = made
      BY <1>0, <1>4, <1>6 DEF Switching
    <3>1. CASE level = "thread"
      BY <1>4, <1>6, <3>0, <3>1 DEF RegsOf
    <3>2. CASE level # "thread"
      <4>1. PICK m, m2, a, n : m = mem /\ m2 = mem' /\ a = sp /\ n = 8
        OBVIOUS
      <4>2. /\ m \in [Memory -> Int] /\ m2 \in [Memory -> Int] /\ a \in Int /\ n \in Nat
            /\ a % 4 = 0 /\ Base[q] <= a /\ a + 4 * n <= Top(q)
        <5>1. m \in [Memory -> Int] /\ m2 \in [Memory -> Int]
          BY <1>0, <1>3, <4>1 DEF Typed
        <5>2. a = StackTop(q) - 32 /\ n = 8
          BY <2>1, <3>2, <4>1
        <5> QED
          BY <2>1, <5>1, <5>2
      <4>3. Words(m2, a, n) = Words(m, a, n)
        BY <1>3, <4>1, <4>2, WordsSame
      <4>4. RegsOf(q) = Callee(regs) \o Words(m, a, n)
        BY <1>6, <3>0, <3>2, <4>1 DEF RegsOf
      <4>5. RegsOf(q)' = Callee(regs) \o Words(m2, a, n)
        BY <1>4, <1>6, <3>0, <3>2, <4>1 DEF RegsOf, Callee
      <4> QED
        BY <4>3, <4>4, <4>5
    <3> QED
      BY <3>1, <3>2
  <2> QED
    BY <2>4, <2>5 DEF Kept
<1> QED
  BY <1>5, <1>6

LEMMA EnterKeeps ==
  ASSUME NeedsFit, ArraysApart, StackInv, Enter, NEW q \in Queues
  PROVE  Kept(q)
<1>0. Typed /\ Switching /\ NULL \notin Queues
  BY StacksAssumption DEF StackInv
<1>1. PICK ws, t : ws = Caller(regs) /\ t = Callee(regs)
  OBVIOUS
<1>2. /\ ws \in Seq(Int) /\ Len(ws) = 8 /\ mem' = Push(mem, sp, ws)
      /\ t \in Seq(Int) /\ Len(t) = 8
  BY <1>0, <1>1, Halves DEF Enter, Typed
<1>3. /\ mem' \in [Memory -> Int]
      /\ \A x \in Memory : sp <= x => mem'[x] = mem[x]
  BY <1>0, <1>2, AboveSp
<1>4. /\ level = "thread" /\ level' = "entered" /\ sp' = sp - 32
      /\ regs' = t \o Junk(8) /\ made = Queues
      /\ UNCHANGED <<spOf, made, currQueue>>
  BY <1>0, <1>1 DEF Enter, Switching
<1>5. CASE q # currQueue
  <2>1. [Next]_vars
    BY DEF Next
  <2> QED
    BY <1>3, <1>4, <1>5, <2>1, OtherKept
<1>6. CASE q = currQueue
  <2>1. /\ StackTop(q) \in Int /\ StackTop(q) % 4 = 0 /\ StackTop(q) <= Top(q)
        /\ Top(q) \in Int /\ Base[q] \in Nat /\ Base[q] + 64 <= StackTop(q) /\ sp \in Int
        /\ sp = StackTop(q)
    <3>1. /\ Base[q] \in Nat /\ Top(q) \in Int /\ StackTop(q) \in Int /\ StackTop(q) % 4 = 0
          /\ Base[q] + OnTop <= StackTop(q) /\ StackTop(q) <= Top(q)
          /\ OnTop \in Int /\ OnTop >= 64
      BY Place
    <3>2. sp = StackTop(q)
      BY <1>4, <1>6, Pointers
    <3> QED
      BY <3>1, <3>2
  <2>2. StackTop(q)' = StackTop(q)
    BY <1>4, <1>6, <2>1 DEF StackTop
  <2>3. StackOf(q)' = StackOf(q)
    BY <1>3, <2>1, <2>2, SameStack
  <2>4. PICK m, m2, a, b : m = mem /\ m2 = mem' /\ a = sp /\ b = sp - 32
    OBVIOUS
  <2>5. /\ m \in [Memory -> Int] /\ m2 \in [Memory -> Int] /\ m2 = Push(m, a, ws)
        /\ a \in Int /\ b \in Int /\ b = a - 32
    BY <1>0, <1>2, <1>3, <2>1, <2>4 DEF Typed
  <2>6. b % 4 = 0 /\ Base[q] <= b /\ b + 32 <= Top(q)
    BY <2>1, <2>4
  <2>7. PICK n : n = 8
    OBVIOUS
  <2>8. Words(m2, b, n) = ws
    <3>1. n \in Nat /\ n = Len(ws) /\ Inside(q, b, n) /\ b = a - 4 * Len(ws)
      BY <1>2, <2>5, <2>6, <2>7 DEF Inside
    <3>2. Holds(m2, b, ws)
      BY <1>2, <2>5, <3>1, Placed
    <3> QED
      BY <1>2, <2>5, <3>1, <3>2, Stored
  <2>9. Callee(regs') = t
    <3>1. 8 \in Nat
      OBVIOUS
    <3>2. Junk(8) \in Seq(Int) /\ Len(Junk(8)) = 8
      BY <3>1, JunkWords
    <3> QED
      BY <1>2, <1>4, <3>2, Joined
  <2>10. RegsOf(q)' = t \o ws
    <3>1. RegsOf(q)' = Callee(regs') \o Words(mem', sp', 8)
      BY <1>4, <1>6 DEF RegsOf, Callee
    <3> QED
      BY <1>4, <2>4, <2>7, <2>8, <2>9, <3>1
  <2>11. RegsOf(q) = t \o ws
    <3>1. RegsOf(q) = regs
      BY <1>4, <1>6 DEF RegsOf
    <3> QED
      BY <1>0, <1>1, <3>1, Rejoined DEF Typed
  <2> QED
    BY <2>3, <2>10, <2>11 DEF Kept
<1> QED
  BY <1>5, <1>6

LEMMA ReturnKeeps ==
  ASSUME StackInv, ExceptionReturn, NEW q \in Queues
  PROVE  Kept(q)
<1>0. Typed /\ Switching /\ NULL \notin Queues
  BY StacksAssumption DEF StackInv
<1>1. /\ level = "switched" /\ level' = "thread" /\ sp' = sp + 32 /\ made = Queues
      /\ regs' = Callee(regs) \o Words(mem, sp, 8)
      /\ UNCHANGED <<mem, spOf, made, currQueue>>
  BY <1>0 DEF ExceptionReturn, Switching
<1>2. RegsOf(q)' = RegsOf(q)
  BY <1>1 DEF RegsOf
<1>3. StackTop(q)' = StackTop(q)
  BY <1>1 DEF StackTop, Top
<1> QED
  BY <1>1, <1>2, <1>3 DEF Kept, StackOf, Top

LEMMA TaskKeeps ==
  ASSUME NEW p \in Queues, ScheduleTask(p), NEW q \in Queues PROVE Kept(q)
<1>1. UNCHANGED <<mem, regs, sp, spOf, made, currQueue, level>>
  BY DEF ScheduleTask
<1>2. RegsOf(q)' = RegsOf(q)
  BY <1>1 DEF RegsOf, Callee
<1>3. StackTop(q)' = StackTop(q)
  BY <1>1 DEF StackTop, Top
<1> QED
  BY <1>1, <1>2, <1>3 DEF Kept, StackOf, Top

LEMMA SwitchKeeps ==
  ASSUME NeedsFit, ArraysApart, StackInv, contextSwitchISR, NEW q \in Queues
  PROVE  Kept(q)
<1>0. Typed /\ Switching /\ NULL \notin Queues
  BY StacksAssumption DEF StackInv
<1>1. /\ level = "entered" /\ level' = "switched" /\ made = Queues /\ made' = Queues
      /\ nextQueue \in Queues /\ currQueue' = nextQueue /\ sp \in Int
  BY <1>0 DEF contextSwitchISR, Switching, Typed
<1>2. [Next]_vars
  BY DEF Next
<1>3. PICK c : c = Callee(regs)
  OBVIOUS
<1>4. c \in Seq(Int) /\ Len(c) = 8
  BY <1>0, <1>3, Halves DEF Typed
<1>5. IF currQueue = NULL THEN UNCHANGED <<mem, spOf>>
      ELSE mem' = Push(mem, sp, c) /\ spOf' = [spOf EXCEPT ![currQueue] = sp - 32]
  BY <1>3 DEF contextSwitchISR
<1>6. /\ mem' \in [Memory -> Int]
      /\ \A x \in Memory : sp <= x => mem'[x] = mem[x]
  BY <1>0, <1>4, <1>5, AboveSp DEF Typed
<1>7. PICK m, m2 : m = mem /\ m2 = mem'
  OBVIOUS
<1>8. m \in [Memory -> Int] /\ m2 \in [Memory -> Int]
  BY <1>0, <1>6, <1>7 DEF Typed
<1>9. /\ StackTop(q) \in Int /\ StackTop(q) % 4 = 0 /\ StackTop(q) <= Top(q)
      /\ Top(q) \in Int /\ Base[q] \in Nat /\ Base[q] + 64 <= StackTop(q)
  <2>1. /\ Base[q] \in Nat /\ Top(q) \in Int /\ StackTop(q) \in Int /\ StackTop(q) % 4 = 0
        /\ Base[q] + OnTop <= StackTop(q) /\ StackTop(q) <= Top(q)
        /\ OnTop \in Int /\ OnTop >= 64
    BY Place
  <2> QED
    BY <2>1
<1>10. q = currQueue => sp = StackTop(q) - 32
  BY <1>1, Pointers
(* The stored pointer of each queue is 64 bytes below its calls.           *)
<1>11. spOf'[q] = StackTop(q) - 64
  <2>1. CASE q = currQueue
    BY <1>0, <1>5, <1>9, <1>10, <2>1 DEF Typed
  <2>2. CASE q # currQueue
    BY <1>0, <1>1, <1>5, <2>2, Pointers DEF Typed
  <2> QED
    BY <2>1, <2>2
<1>12. PICK a, b : a = spOf'[q] /\ b = spOf'[q] + 32
  OBVIOUS
<1>13. /\ a \in Int /\ a % 4 = 0 /\ Base[q] <= a /\ a + 64 <= Top(q)
       /\ b \in Int /\ b % 4 = 0 /\ Base[q] <= b /\ b = a + 32 /\ b + 32 <= Top(q)
  BY <1>9, <1>11, <1>12
<1>14. PICK w : w = Words(m2, a, 16)
  OBVIOUS
(* After the switch its registers are there ...                            *)
<1>15. RegsOf(q)' = w
  <2>1. CASE q # nextQueue
    BY <1>1, <1>7, <1>12, <1>14, <2>1 DEF RegsOf
  <2>2. CASE q = nextQueue
    <3>1. PICK s, t : s = Words(m2, a, 8) /\ t = Words(m2, b, 8)
      OBVIOUS
    <3>2. s \in Seq(Int) /\ Len(s) = 8 /\ Holds(m2, a, s)
      <4>1. PICK n : n = 8
        OBVIOUS
      <4>2. n \in Nat /\ Inside(q, a, n)
        BY <1>9, <1>13, <4>1 DEF Inside
      <4> QED
        BY <1>8, <3>1, <4>1, <4>2, InsideIn
    <3>3. regs' = s \o Junk(8) /\ sp' = b
      BY <1>7, <1>12, <2>2, <3>1 DEF contextSwitchISR
    <3>4. Callee(regs') = s
      <4>1. 8 \in Nat
        OBVIOUS
      <4>2. Junk(8) \in Seq(Int) /\ Len(Junk(8)) = 8
        BY <4>1, JunkWords
      <4> QED
        BY <3>2, <3>3, <4>2, Joined
    <3>5. RegsOf(q)' = Callee(regs') \o Words(mem', sp', 8)
      BY <1>1, <2>2 DEF RegsOf, Callee
    <3>6. RegsOf(q)' = s \o t
      BY <1>7, <3>1, <3>3, <3>4, <3>5
    <3>7. w = s \o t
      <4>1. PICK n, N : n = 8 /\ N = 16
        OBVIOUS
      <4>2. n \in Nat /\ N \in Nat /\ N = Len(s) + n /\ b = a + 4 * Len(s)
        BY <1>13, <3>2, <4>1
      <4>3. Inside(q, a, N) /\ Inside(q, b, n)
        BY <1>13, <4>1 DEF Inside
      <4>4. Follow(m2, q, a, s, b, n, N)
        BY <1>8, <3>2, <4>2, <4>3 DEF Follow
      <4>5. Words(m2, a, N) = s \o Words(m2, b, n)
        BY <4>4, Stacked
      <4> QED
        BY <1>14, <3>1, <4>1, <4>5
    <3> QED
      BY <3>6, <3>7
  <2> QED
    BY <2>1, <2>2
(* ... and they are what it had before.                                    *)
<1>16. RegsOf(q) = w
  <2>1. CASE q # currQueue
    <3>1. RegsOf(q) = Words(m, a, 16)
      <4>1. spOf'[q] = spOf[q]
        BY <1>0, <1>5, <2>1 DEF Typed
      <4> QED
        BY <1>1, <1>7, <1>12, <2>1, <4>1 DEF RegsOf
    <3>2. ASSUME NEW x \in Memory, x \in Array(q) PROVE m2[x] = m[x]
      <4>1. q \notin Owners
        BY <1>1, <2>1 DEF Owners
      <4> QED
        BY <1>2, <1>7, <3>2, <4>1, NextWrites
    <3>3. PICK n : n = 16
      OBVIOUS
    <3>4. n \in Nat /\ a + 4 * n <= Top(q)
      BY <1>13, <3>3
    <3>5. Words(m2, a, n) = Words(m, a, n)
      BY <1>8, <1>13, <3>2, <3>4, WordsSame
    <3> QED
      BY <1>14, <3>1, <3>3, <3>5
  <2>2. CASE q = currQueue
    <3>1. mem' = Push(mem, sp, c) /\ b = sp /\ sp = a + 32
      BY <1>0, <1>5, <1>9, <1>10, <1>11, <1>12, <2>2
    <3>2. RegsOf(q) = c \o Words(m, b, 8)
      BY <1>1, <1>3, <1>7, <2>2, <3>1 DEF RegsOf
    <3>3. m2 = Push(m, b, c)
      BY <1>7, <3>1
    <3>4. PICK n, N : n = 8 /\ N = 16
      OBVIOUS
    <3>5. /\ n \in Nat /\ N \in Nat /\ N = Len(c) + n /\ b = a + 4 * Len(c)
          /\ n = Len(c) /\ a = b - 4 * Len(c) /\ b + 4 * n <= Top(q)
      BY <1>13, <1>4, <3>4
    <3>6. Inside(q, a, n) /\ Inside(q, a, N) /\ Inside(q, b, n)
      BY <1>9, <1>13, <3>4 DEF Inside
    <3>7. Holds(m2, a, c)
      BY <1>4, <1>8, <1>13, <3>3, <3>5, <3>6, Placed
    <3>8. Words(m2, a, N) = c \o Words(m2, b, n)
      <4>1. Follow(m2, q, a, c, b, n, N)
        BY <1>4, <1>8, <3>5, <3>6, <3>7 DEF Follow
      <4> QED
        BY <4>1, Stacked
    <3>9. Words(m2, b, n) = Words(m, b, n)
      <4>1. \A x \in Memory : b <= x => m2[x] = m[x]
        BY <1>6, <1>7, <3>1
      <4> QED
        BY <1>8, <1>13, <3>5, <4>1, WordsSame
    <3> QED
      BY <1>14, <3>2, <3>4, <3>8, <3>9
  <2> QED
    BY <2>1, <2>2
<1>17. StackTop(q)' = StackTop(q)
  <2>1. CASE q # nextQueue
    BY <1>1, <1>9, <1>11, <2>1 DEF StackTop
  <2>2. CASE q = nextQueue
    <3>1. sp' = spOf'[q] + 32
      BY <2>2 DEF contextSwitchISR
    <3> QED
      BY <1>1, <1>9, <1>11, <2>2, <3>1 DEF StackTop
  <2> QED
    BY <2>1, <2>2
<1>18. ASSUME NEW x \in Memory, x \in Array(q), StackTop(q) <= x PROVE mem'[x] = mem[x]
  <2>1. CASE q # currQueue
    <3>1. q \notin Owners
      BY <1>1, <2>1 DEF Owners
    <3> QED
      BY <1>2, <1>18, <3>1, NextWrites
  <2>2. CASE q = currQueue
    <3>1. x \in Int
      BY StacksAssumption
    <3>2. sp <= x
      BY <1>1, <1>9, <1>10, <1>18, <2>2, <3>1
    <3> QED
      BY <1>6, <3>2
  <2> QED
    BY <2>1, <2>2
<1>19. StackOf(q)' = StackOf(q)
  BY <1>6, <1>17, <1>18, SameStack
<1> QED
  BY <1>15, <1>16, <1>19 DEF Kept
-----------------------------------------------------------------------------
(* The running queue's registers and words.                                *)
LEMMA Running ==
  ASSUME NeedsFit, StackInv, NEW q \in Queues, currQueue = q, level = "thread"
  PROVE  /\ made = Queues /\ StackTop(q) = sp /\ RegsOf(q) = regs
         /\ sp \in Int /\ sp % 4 = 0 /\ Base[q] + OnTop <= sp /\ sp <= Top(q)
         /\ Base[q] \in Nat /\ Top(q) \in Int /\ Top(q) % 4 = 0
         /\ OnTop \in Int /\ OnTop >= 64
         /\ Height(q) \in Nat /\ sp + 4 * Height(q) = Top(q)
         /\ StackOf(q) = Words(mem, sp, Height(q)) /\ StackOf(q) \in Seq(Int)
         /\ Len(StackOf(q)) = Height(q)
<1>1. made = Queues /\ NULL \notin Queues
  BY StacksAssumption DEF StackInv, Switching
<1>2. StackTop(q) = sp /\ RegsOf(q) = regs
  BY <1>1 DEF StackTop, RegsOf
<1>3. StackOf(q) = Words(mem, sp, Height(q))
  BY <1>2 DEF StackOf, Height
<1>4. /\ Base[q] \in Nat /\ Top(q) \in Int /\ Top(q) % 4 = 0
      /\ StackTop(q) \in Int /\ StackTop(q) % 4 = 0
      /\ Base[q] + OnTop <= StackTop(q) /\ StackTop(q) <= Top(q)
      /\ OnTop \in Int /\ OnTop >= 64
  BY Place
<1>5. /\ Height(q) \in Nat /\ StackTop(q) + 4 * Height(q) = Top(q)
      /\ StackOf(q) \in Seq(Int) /\ Len(StackOf(q)) = Height(q)
  BY Heights
<1> QED
  BY <1>1, <1>2, <1>3, <1>4, <1>5

LEMMA CallSteps ==
  ASSUME NeedsFit, ArraysApart, StackInv, NEW q \in Queues, Call(q)
  PROVE  /\ RegsOf(q)' = Working(q, 4 * Len(StackOf(q)), RegsOf(q))
         /\ StackOf(q)' = [i \in 1 .. Len(PUSHED) |-> RegsOf(q)[PUSHED[i]]] \o StackOf(q)
         /\ \A p \in Queues : p # q => Kept(p)
<1>0. Typed /\ NULL \notin Queues /\ currQueue = q /\ level = "thread"
  BY StacksAssumption DEF StackInv, Call
<1>1. /\ made = Queues /\ RegsOf(q) = regs
      /\ sp \in Int /\ sp % 4 = 0 /\ Base[q] + OnTop <= sp /\ sp <= Top(q)
      /\ Base[q] \in Nat /\ Top(q) \in Int /\ OnTop \in Int /\ OnTop >= 64
      /\ Height(q) \in Nat /\ sp + 4 * Height(q) = Top(q)
      /\ StackOf(q) = Words(mem, sp, Height(q)) /\ Len(StackOf(q)) = Height(q)
  BY <1>0, Running
<1>2. PICK ws : ws = [i \in 1 .. Len(PUSHED) |-> regs[PUSHED[i]]]
  OBVIOUS
<1>3. ws \in Seq(Int) /\ Len(ws) = 8
  BY <1>0, <1>2, PushedWords DEF Typed
<1>4. /\ mem' = Push(mem, sp, ws) /\ sp' = sp - 32
      /\ regs' = Working(q, Top(q) - sp, regs)
      /\ UNCHANGED <<spOf, made, currQueue, level>>
  BY <1>2, PushedRegs DEF Call
<1>5. /\ mem' \in [Memory -> Int]
      /\ \A x \in Memory : sp <= x => mem'[x] = mem[x]
  BY <1>0, <1>3, <1>4, AboveSp
<1>6. RegsOf(q)' = Working(q, 4 * Len(StackOf(q)), RegsOf(q))
  <2>1. Top(q) - sp = 4 * Len(StackOf(q))
    <3>1. PICK h : h = Height(q)
      OBVIOUS
    <3>2. h \in Nat /\ sp + 4 * h = Top(q) /\ sp \in Int /\ Top(q) \in Int
      BY <1>1, <3>1
    <3>3. Top(q) - sp = 4 * h
      BY <3>2
    <3> QED
      BY <1>1, <3>1, <3>3
  <2>2. RegsOf(q)' = regs'
    BY <1>0, <1>1, <1>4 DEF RegsOf
  <2> QED
    BY <1>1, <1>4, <2>1, <2>2
<1>7. StackOf(q)' = ws \o StackOf(q)
  <2>1. PICK m, m2, a, b, n, N :
          /\ m = mem /\ m2 = mem' /\ a = sp - 32 /\ b = sp
          /\ n = Height(q) /\ N = Height(q) + 8
    OBVIOUS
  <2>2. m \in [Memory -> Int] /\ m2 \in [Memory -> Int] /\ m2 = Push(m, b, ws)
    BY <1>0, <1>4, <1>5, <2>1 DEF Typed
  <2>3. /\ n \in Nat /\ N \in Nat /\ N = Len(ws) + n /\ b = a + 4 * Len(ws)
        /\ a = b - 4 * Len(ws) /\ a \in Int /\ b \in Int /\ 8 \in Nat
    BY <1>1, <1>3, <2>1
  <2>4. /\ a % 4 = 0 /\ b % 4 = 0 /\ Base[q] <= a /\ Base[q] <= b
        /\ a + 4 * N <= Top(q) /\ b + 4 * n <= Top(q) /\ a + 4 * 8 <= Top(q)
    BY <1>1, <2>1
  <2>5. PICK k : k = 8
    OBVIOUS
  <2>6. Inside(q, a, k) /\ Inside(q, a, N) /\ Inside(q, b, n) /\ k \in Nat /\ k = Len(ws)
    BY <1>3, <2>3, <2>4, <2>5 DEF Inside
  <2>7. Holds(m2, a, ws)
    BY <1>3, <2>2, <2>3, <2>6, Placed
  <2>8. Words(m2, a, N) = ws \o Words(m2, b, n)
    <3>1. Follow(m2, q, a, ws, b, n, N)
      BY <1>3, <2>2, <2>3, <2>6, <2>7 DEF Follow
    <3> QED
      BY <3>1, Stacked
  <2>9. Words(m2, b, n) = Words(m, b, n)
    <3>1. \A x \in Memory : b <= x => m2[x] = m[x]
      BY <1>5, <2>1
    <3> QED
      BY <2>2, <2>3, <2>4, <3>1, WordsSame
  <2>10. StackOf(q)' = Words(m2, a, N)
    <3>1. StackTop(q)' = sp'
      BY <1>0, <1>1, <1>4 DEF StackTop
    <3>2. StackTop(q)' = a
      BY <1>4, <2>1, <3>1
    <3>3. (Top(q) - a) \div 4 = N
      <4>1. Top(q) - a = 4 * N
        BY <1>1, <2>1
      <4>2. \A i \in Nat : (4 * i) \div 4 = i
        OBVIOUS
      <4> QED
        BY <2>3, <4>1, <4>2
    <3> QED
      BY <2>1, <3>2, <3>3 DEF StackOf, Top
  <2> QED
    BY <1>1, <2>1, <2>8, <2>9, <2>10
<1>8. \A p \in Queues : p # q => Kept(p)
  <2>1. [Next]_vars
    BY DEF Next
  <2> QED
    BY <1>0, <1>4, <1>5, <2>1, OtherKept
<1> QED
  BY <1>1, <1>2, <1>6, <1>7, <1>8

(* Where a function's frame has register r.                                *)
LEMMA Places ==
  ASSUME NEW r \in 1 .. 16
  PROVE  /\ (\E i \in 1 .. Len(PUSHED) : PUSHED[i] = r) <=> (r <= 7 \/ r = 14)
         /\ (r <= 7 \/ r = 14) => (CHOOSE i \in 1 .. Len(PUSHED) : PUSHED[i] = r)
                                   = (IF r = 14 THEN 8 ELSE r)
<1>1. Len(PUSHED) = 8
  BY PushedRegs
<1>2. \A i \in 1 .. 8 : PUSHED[i] = (IF i = 8 THEN 14 ELSE i)
  BY DEF PUSHED
<1>3. (\E i \in 1 .. Len(PUSHED) : PUSHED[i] = r) <=> (r <= 7 \/ r = 14)
  <2>1. ASSUME NEW i \in 1 .. 8, PUSHED[i] = r PROVE r <= 7 \/ r = 14
    BY <1>2, <2>1
  <2>2. CASE r <= 7
    <3>1. r \in 1 .. 8 /\ PUSHED[r] = r
      BY <1>2, <2>2
    <3> QED
      BY <1>1, <2>2, <3>1
  <2>3. CASE r = 14
    <3>1. 8 \in 1 .. 8 /\ PUSHED[8] = r
      BY <1>2, <2>3
    <3> QED
      BY <1>1, <2>3, <3>1
  <2> QED
    BY <1>1, <2>1, <2>2, <2>3
<1>4. ASSUME r <= 7 \/ r = 14
      PROVE  (CHOOSE i \in 1 .. Len(PUSHED) : PUSHED[i] = r) = (IF r = 14 THEN 8 ELSE r)
  <2>1. PICK c : c = CHOOSE i \in 1 .. Len(PUSHED) : PUSHED[i] = r
    OBVIOUS
  <2>2. c \in 1 .. Len(PUSHED) /\ PUSHED[c] = r
    BY <1>3, <1>4, <2>1, Zenon
  <2>3. c = IF r = 14 THEN 8 ELSE r
    BY <1>1, <1>2, <2>2
  <2> QED
    BY <2>1, <2>3
<1> QED
  BY <1>3, <1>4

LEMMA ReturnSteps ==
  ASSUME NeedsFit, ArraysApart, StackInv, NEW q \in Queues, Return(q)
  PROVE  /\ Len(StackOf(q)) >= Len(PUSHED)
         /\ RegsOf(q)' = [r \in 1 .. 16 |->
              IF \E i \in 1 .. Len(PUSHED) : PUSHED[i] = r
              THEN StackOf(q)[CHOOSE i \in 1 .. Len(PUSHED) : PUSHED[i] = r]
              ELSE RegsOf(q)[r]]
         /\ StackOf(q)' = SubSeq(StackOf(q), Len(PUSHED) + 1, Len(StackOf(q)))
         /\ \A p \in Queues : p # q => Kept(p)
<1>0. Typed /\ NULL \notin Queues /\ currQueue = q /\ level = "thread" /\ sp < Top(q)
  BY StacksAssumption DEF StackInv, Return
<1>1. /\ made = Queues /\ RegsOf(q) = regs /\ StackTop(q) = sp
      /\ sp \in Int /\ sp % 4 = 0 /\ Base[q] + OnTop <= sp /\ sp <= Top(q)
      /\ Base[q] \in Nat /\ Top(q) \in Int /\ OnTop \in Int /\ OnTop >= 64
      /\ Height(q) \in Nat /\ sp + 4 * Height(q) = Top(q)
      /\ StackOf(q) = Words(mem, sp, Height(q)) /\ Len(StackOf(q)) = Height(q)
  BY <1>0, Running
<1>2. PICK m, a, n, s : m = mem /\ a = sp /\ n = Height(q) /\ s = StackOf(q)
  OBVIOUS
<1>3. Height(q) >= 8
  <2>1. Depth(q) = Top(q) - sp /\ Depth(q) % 32 = 0
    BY <1>1 DEF StackInv, Room, Depth
  <2>2. \A i \in Int : (i % 32 = 0 /\ i > 0) => i >= 32
    OBVIOUS
  <2>3. Top(q) - sp \in Int /\ Top(q) - sp > 0
    BY <1>0, <1>1
  <2>4. Top(q) - sp >= 32
    BY <2>1, <2>2, <2>3
  <2> QED
    BY <1>1, <2>4
<1>4. /\ m \in [Memory -> Int] /\ a \in Int /\ a % 4 = 0 /\ Base[q] <= a /\ a + 32 <= Top(q)
      /\ n \in Nat /\ n >= 8 /\ a + 4 * n <= Top(q) /\ s = Words(m, a, n) /\ Len(s) = n
  <2>1. m \in [Memory -> Int] /\ s = Words(m, a, n) /\ Len(s) = n
    BY <1>0, <1>1, <1>2 DEF Typed
  <2>2. /\ a \in Int /\ a % 4 = 0 /\ n \in Nat /\ n >= 8 /\ a + 4 * n = Top(q)
        /\ Base[q] + OnTop <= a /\ Base[q] \in Int /\ OnTop \in Int /\ OnTop >= 0
    BY <1>1, <1>2, <1>3
  <2>3. Base[q] <= a /\ a + 32 <= Top(q) /\ a + 4 * n <= Top(q)
    BY <2>2
  <2> QED
    BY <2>1, <2>2, <2>3
<1>5. /\ regs' = Returned(m, a, regs) /\ sp' = a + 32
      /\ UNCHANGED <<mem, spOf, made, currQueue, level>>
  BY <1>2, PushedRegs DEF Return, Returned
<1>6. RegsOf(q)' = regs'
  BY <1>0, <1>1, <1>5 DEF RegsOf
<1>7. PICK r0, r2 : r0 = regs /\ r2 = regs'
  OBVIOUS
<1>8. r0 \in Seq(Int) /\ Len(r0) = 16 /\ r2 = Returned(m, a, r0)
  BY <1>0, <1>5, <1>7 DEF Typed
<1>9. /\ r2 \in Seq(Int) /\ Len(r2) = 16
      /\ \A i \in 1 .. 16 : r2[i] = IF i <= 7 \/ i = 14
                                    THEN m[a + 4 * ((IF i = 14 THEN 8 ELSE i) - 1)]
                                    ELSE r0[i]
  BY <1>4, <1>8, Returns
<1>10. \A i \in 1 .. n : s[i] = m[a + 4 * (i - 1)]
  BY <1>4, WordsIn
<1>11. r2 = [r \in 1 .. 16 |->
               IF \E i \in 1 .. Len(PUSHED) : PUSHED[i] = r
               THEN s[CHOOSE i \in 1 .. Len(PUSHED) : PUSHED[i] = r] ELSE r0[r]]
  <2>1. r2 = [r \in 1 .. 16 |-> r2[r]]
    BY <1>9, LenProperties
  <2>2. ASSUME NEW r \in 1 .. 16
        PROVE  r2[r] = IF \E i \in 1 .. Len(PUSHED) : PUSHED[i] = r
                       THEN s[CHOOSE i \in 1 .. Len(PUSHED) : PUSHED[i] = r] ELSE r0[r]
    <3>1. CASE r <= 7 \/ r = 14
      <4>1. PICK e : e = IF r = 14 THEN 8 ELSE r
        OBVIOUS
      <4>2. e \in 1 .. n
        BY <1>4, <3>1, <4>1
      <4>3. r2[r] = m[a + 4 * (e - 1)]
        BY <1>9, <3>1, <4>1
      <4>4. r2[r] = s[e]
        BY <1>10, <4>2, <4>3
      <4>5. /\ \E i \in 1 .. Len(PUSHED) : PUSHED[i] = r
            /\ (CHOOSE i \in 1 .. Len(PUSHED) : PUSHED[i] = r) = e
        BY <3>1, <4>1, Places
      <4> QED
        BY <4>4, <4>5
    <3>2. CASE ~(r <= 7 \/ r = 14)
      <4>1. ~\E i \in 1 .. Len(PUSHED) : PUSHED[i] = r
        BY <3>2, Places
      <4>2. r2[r] = r0[r]
        BY <1>9, <3>2
      <4> QED
        BY <4>1, <4>2
    <3> QED
      BY <3>1, <3>2
  <2> QED
    BY <2>1, <2>2
<1>12. StackOf(q)' = SubSeq(s, 9, n)
  <2>1. PICK b : b = a + 32
    OBVIOUS
  <2>2. Words(m, b, n - 8) = SubSeq(s, 9, n)
    BY <1>4, <2>1, Popped
  <2>3. StackTop(q)' = b
    BY <1>0, <1>1, <1>5, <2>1 DEF StackTop
  <2>4. (Top(q) - b) \div 4 = n - 8
    <3>1. Top(q) - b = 4 * (n - 8)
      <4>1. a + 4 * n = Top(q)
        BY <1>1, <1>2
      <4> QED
        BY <1>4, <2>1, <4>1
    <3>2. \A i \in Int : (4 * i) \div 4 = i
      OBVIOUS
    <3> QED
      BY <1>4, <3>1, <3>2
  <2> QED
    BY <1>2, <1>5, <2>2, <2>3, <2>4 DEF StackOf, Top
<1>13. \A p \in Queues : p # q => Kept(p)
  <2>1. [Next]_vars
    BY DEF Next
  <2>2. mem' \in [Memory -> Int]
    BY <1>2, <1>4, <1>5
  <2> QED
    BY <1>0, <1>5, <2>1, <2>2, OtherKept
<1>14. Len(PUSHED) = 8
  BY PushedRegs
<1> QED
  BY <1>1, <1>2, <1>4, <1>6, <1>7, <1>11, <1>12, <1>13, <1>14
-----------------------------------------------------------------------------
(***************************************************************************)
(* The refinement.                                                         *)
(***************************************************************************)
regsOf == [q \in Queues |-> RegsOf(q)]
stackOf == [q \in Queues |-> StackOf(q)]

LEMMA AllKept ==
  ASSUME \A q \in Queues : Kept(q) PROVE regsOf' = regsOf /\ stackOf' = stackOf
<1>1. regsOf' = regsOf
  BY DEF Kept, regsOf
<1>2. stackOf' = stackOf
  BY DEF Kept, stackOf
<1> QED
  BY <1>1, <1>2

LEMMA ContextsInit == ASSUME NeedsFit, Init PROVE Private!Init
<1>1. ASSUME NEW q \in Queues PROVE RegsOf(q) = InitialFrame /\ StackOf(q) = <<>>
  <2>1. made = {} /\ Top(q) \in Int
    BY Bounds DEF Init
  <2>2. (Top(q) - StackTop(q)) \div 4 = 0
    BY <2>1 DEF StackTop
  <2>3. StackOf(q) = Words(mem, StackTop(q), 0)
    BY <2>2 DEF StackOf
  <2> QED
    BY <2>1, <2>3, Empty DEF RegsOf
<1>2. currQueue = NULL
  BY DEF Init
<1> QED
  BY <1>1, <1>2 DEF Private!Init

LEMMA ContextsNext ==
  ASSUME NeedsFit, ArraysApart, StackInv, [Next]_vars PROVE [Private!Next]_Private!vars
<1>0. NULL \notin Queues /\ Switching
  BY StacksAssumption DEF StackInv
<1>1. ASSUME NEW q \in Queues, Call(q) PROVE Private!Call(q)
  <2>1. /\ RegsOf(q)' = Working(q, 4 * Len(StackOf(q)), RegsOf(q))
        /\ StackOf(q)' = [i \in 1 .. Len(PUSHED) |-> RegsOf(q)[PUSHED[i]]] \o StackOf(q)
        /\ \A p \in Queues : p # q => Kept(p)
    BY <1>1, CallSteps
  <2>2. regsOf' = [regsOf EXCEPT ![q] = Working(q, 4 * Len(stackOf[q]), @)]
    BY <2>1 DEF regsOf, stackOf, Kept
  <2>3. stackOf' = [stackOf EXCEPT ![q] = [i \in 1 .. Len(PUSHED) |-> regsOf[q][PUSHED[i]]] \o @]
    BY <2>1 DEF regsOf, stackOf, Kept
  <2>4. currQueue = q /\ currQueue' = currQueue
    BY <1>1 DEF Call
  <2> QED
    BY <2>2, <2>3, <2>4 DEF Private!Call, regsOf, stackOf
<1>2. ASSUME NEW q \in Queues, Return(q) PROVE Private!Return(q)
  <2>1. /\ Len(StackOf(q)) >= Len(PUSHED)
        /\ RegsOf(q)' = [r \in 1 .. 16 |->
             IF \E i \in 1 .. Len(PUSHED) : PUSHED[i] = r
             THEN StackOf(q)[CHOOSE i \in 1 .. Len(PUSHED) : PUSHED[i] = r]
             ELSE RegsOf(q)[r]]
        /\ StackOf(q)' = SubSeq(StackOf(q), Len(PUSHED) + 1, Len(StackOf(q)))
        /\ \A p \in Queues : p # q => Kept(p)
    BY <1>2, ReturnSteps
  <2>2. regsOf' = [regsOf EXCEPT ![q] =
          [r \in 1 .. 16 |-> IF \E i \in 1 .. Len(PUSHED) : PUSHED[i] = r
                             THEN stackOf[q][CHOOSE i \in 1 .. Len(PUSHED) : PUSHED[i] = r]
                             ELSE @[r]]]
    BY <2>1 DEF regsOf, stackOf, Kept
  <2>3. stackOf' = [stackOf EXCEPT ![q] = SubSeq(@, Len(PUSHED) + 1, Len(@))]
    BY <2>1 DEF stackOf, Kept
  <2>4. currQueue = q /\ currQueue' = currQueue /\ Len(stackOf[q]) >= Len(PUSHED)
    BY <1>2, <2>1 DEF Return, stackOf
  <2> QED
    BY <2>2, <2>3, <2>4 DEF Private!Return, regsOf, stackOf
<1>3. ASSUME contextSwitchISR PROVE nextQueue \in Queues /\ Private!Switch(nextQueue)
  <2>1. nextQueue \in Queues /\ currQueue' = nextQueue
    BY <1>0, <1>3 DEF contextSwitchISR, Switching
  <2>2. regsOf' = regsOf /\ stackOf' = stackOf
    BY <1>3, SwitchKeeps, AllKept
  <2> QED
    BY <2>1, <2>2 DEF Private!Switch, regsOf, stackOf
<1>4. ASSUME \/ \E q \in Queues : initSP(q) \/ ScheduleTask(q) \/ tickHandler(q)
             \/ Enter \/ ExceptionReturn
      PROVE  UNCHANGED Private!vars
  <2>1. \A q \in Queues : Kept(q)
    BY <1>4, InitKeeps, TaskKeeps, HandlerKeeps, EnterKeeps, ReturnKeeps
  <2>2. regsOf' = regsOf /\ stackOf' = stackOf
    BY <2>1, AllKept
  <2>3. currQueue' = currQueue
    BY <1>4 DEF initSP, ScheduleTask, tickHandler, Enter, ExceptionReturn
  <2> QED
    BY <2>2, <2>3 DEF Private!vars, regsOf, stackOf
<1>5. ASSUME UNCHANGED vars PROVE UNCHANGED Private!vars
  <2>1. ASSUME NEW q \in Queues PROVE Kept(q)
    <3>1. UNCHANGED <<mem, regs, sp, spOf, made, currQueue, level>>
      BY <1>5 DEF vars
    <3>2. RegsOf(q)' = RegsOf(q)
      BY <3>1 DEF RegsOf, Callee
    <3>3. StackTop(q)' = StackTop(q)
      BY <3>1 DEF StackTop, Top
    <3> QED
      BY <3>1, <3>2, <3>3 DEF Kept, StackOf, Top
  <2>2. regsOf' = regsOf /\ stackOf' = stackOf
    BY <2>1, AllKept
  <2> QED
    BY <1>5, <2>2 DEF vars, Private!vars, regsOf, stackOf
<1> QED
  BY <1>1, <1>2, <1>3, <1>4, <1>5 DEF Next, Private!Next

(* Each priority is a coroutine with registers and a stack of its own:     *)
(* whatever handlers and other priorities push in between, on its stack    *)
(* and on others, it finds what it left, for every depth of calls and      *)
(* every size of arrays (contextSwitchISR, initSP and the exceptions).     *)
THEOREM ContextsKept ==
  ASSUME NeedsFit, ArraysApart PROVE Spec => KeepsContexts
<1>1. Init => Private!Init
  BY ContextsInit
<1>2. StackInv /\ [Next]_vars => [Private!Next]_Private!vars
  BY ContextsNext
<1> QED
  BY <1>1, <1>2, Invariance, PTL DEF Spec, KeepsContexts, Private!Spec
=============================================================================
