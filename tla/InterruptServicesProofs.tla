----------------------- MODULE InterruptServicesProofs -----------------------
(***************************************************************************)
(* Theorems about InterruptServices for every number of handlers and every *)
(* depth of nesting that a uint8_t counts: the counters never wrap, and    *)
(* sections protect, over the port that the comments describe.             *)
(***************************************************************************)
EXTENDS InterruptServices, FiniteSetTheorems, SequenceTheorems, TLAPS

(* No more sections can be open than a uint8_t counts.                     *)
CountFits == IsFiniteSet(Handlers) /\ MaxOpen <= 255

(* The sections of s that c has counted, by their place in open[c]: all,   *)
(* but for the one that Resume has taken off the count.                    *)
Counted(c) == IF pc[c] = "unmask" THEN Len(open[c]) - 1 ELSE Len(open[c])
Places == Callers \X (1 .. MaxDepth)
Held(s) == {e \in Places : e[2] <= Counted(e[1]) /\ open[e[1]][e[2]] = s}

Typed ==
  /\ count \in [Services -> Nat]
  /\ status \subseteq {1, 2}
  /\ saved \in [Services -> SUBSET {1, 2}]
  /\ open \in [Callers -> Seq(Services)]
  /\ pc \in [Callers -> {"out", "in", "mask", "unmask"}]
  /\ opened \subseteq Callers

Nested == \A c \in Callers : /\ Len(open[c]) <= MaxDepth
                             /\ pc[c] = "out" => open[c] = <<>>
                             /\ pc[c] \in {"mask", "unmask"} => open[c] # <<>>

(* Every counter counts the sections of its pair.                          *)
Counts == \A s \in Services : count[s] = Cardinality(Held(s))

(* While c is about to unmask, only handlers above it can have opened      *)
(* sections of that pair.                                                  *)
LastOut == \A c \in Callers : \A s \in Services :
             (pc[c] = "unmask" /\ Last(c) = s) => \A e \in Held(s) : e[1] > c

ServicesInv == Typed /\ Nested /\ Counts /\ LastOut
-----------------------------------------------------------------------------
(***************************************************************************)
(* The sections that are counted.                                          *)
(***************************************************************************)
LEMMA PlacesFinite ==
  ASSUME CountFits
  PROVE  IsFiniteSet(Places) /\ Cardinality(Places) = MaxOpen
<1>1. IsFiniteSet(Callers)
  BY FS_AddElement DEF CountFits, Callers
<1>2. MaxDepth \in Nat /\ Cardinality(Callers) \in Nat
  BY <1>1, ServicesAssumption, FS_CardinalityType
<1>3. IsFiniteSet(1 .. MaxDepth) /\ Cardinality(1 .. MaxDepth) = MaxDepth
  BY <1>2, FS_Interval
<1>4. IsFiniteSet(Places) /\ Cardinality(Places) = Cardinality(Callers) * MaxDepth
  BY <1>1, <1>3, FS_Product DEF Places
<1> QED
  BY <1>2, <1>4 DEF MaxOpen

LEMMA HeldFinite ==
  ASSUME CountFits, NEW s
  PROVE  IsFiniteSet(Held(s)) /\ Cardinality(Held(s)) \in 0 .. MaxOpen
<1>1. Held(s) \subseteq Places
  BY DEF Held
<1>2. IsFiniteSet(Places) /\ Cardinality(Places) = MaxOpen
  BY PlacesFinite
<1>3. IsFiniteSet(Held(s)) /\ Cardinality(Held(s)) <= Cardinality(Places)
  BY <1>1, <1>2, FS_Subset
<1>4. Cardinality(Held(s)) \in Nat /\ Cardinality(Places) \in Nat
  BY <1>2, <1>3, FS_CardinalityType
<1> QED
  BY <1>2, <1>3, <1>4

(* The callers are levels.                                                 *)
LEMMA CallersOrdered ==
  ASSUME NEW c \in Callers, NEW d \in Callers
  PROVE  c \in Nat /\ d \in Nat /\ (c < d \/ c = d \/ d < c) /\ (d > c => d \in Handlers)
  BY ServicesAssumption DEF Callers

(* The last section taken off.                                             *)
LEMMA FrontOf ==
  ASSUME NEW S, NEW sq \in Seq(S), sq # <<>>
  PROVE  /\ SubSeq(sq, 1, Len(sq) - 1) \in Seq(S)
         /\ Len(SubSeq(sq, 1, Len(sq) - 1)) = Len(sq) - 1
         /\ \A i \in 1 .. Len(sq) - 1 : SubSeq(sq, 1, Len(sq) - 1)[i] = sq[i]
         /\ Len(sq) \in Nat \ {0} /\ sq[Len(sq)] \in S
<1>1. Len(sq) \in Nat \ {0}
  BY EmptySeq
<1>2. \A i \in 1 .. Len(sq) : sq[i] \in S
  BY ElementOfSeq
<1> DEFINE n == Len(sq) - 1
<1>3. n \in Nat /\ \A i \in 1 .. n : sq[i] \in S
  BY <1>1, <1>2
<1>4. /\ SubSeq(sq, 1, n) \in Seq(S)
      /\ Len(SubSeq(sq, 1, n)) = IF 1 <= n THEN n - 1 + 1 ELSE 0
      /\ \A i \in 1 .. n - 1 + 1 : SubSeq(sq, 1, n)[i] = sq[1 + i - 1]
  <2> HIDE DEF n
  <2> QED
    BY <1>3, SubSeqProperties
<1>5. Len(SubSeq(sq, 1, n)) = n /\ \A i \in 1 .. n : SubSeq(sq, 1, n)[i] = sq[i]
  <2> HIDE DEF n
  <2> QED
    BY <1>3, <1>4
<1> QED
  BY <1>1, <1>2, <1>4, <1>5

(* Who moves has nobody above it, and moves alone.                         *)
LEMMA GotoAlone ==
  ASSUME Typed, Nested, NEW c \in Callers, NEW from, NEW to, Goto(c, from, to)
  PROVE  /\ pc[c] = from /\ pc'[c] = to /\ pc' = [pc EXCEPT ![c] = to]
         /\ \A d \in Callers : d # c => pc'[d] = pc[d]
         /\ \A d \in Callers : d > c => pc[d] = "out" /\ open[d] = <<>>
  BY CallersOrdered DEF Goto, Typed, Nested

(* Whether a place is counted is a matter of its caller alone.             *)
LEMMA HeldElsewhere ==
  ASSUME NEW c \in Callers, NEW e \in Places, e[1] # c, NEW s,
         pc'[e[1]] = pc[e[1]], open'[e[1]] = open[e[1]]
  PROVE  e \in Held(s)' <=> e \in Held(s)
  BY DEF Held, Counted

LEMMA SuspendHolds ==
  ASSUME Typed, Nested, NEW c \in Callers, NEW s \in Services, Suspend(c, s)
  PROVE  /\ Held(s)' = Held(s) \cup {<<c, Len(open[c]) + 1>>}
         /\ <<c, Len(open[c]) + 1>> \notin Held(s)
         /\ \A r \in Services : r # s => Held(r)' = Held(r)
<1> DEFINE n == Len(open[c])
<1>1. /\ pc[c] = "in" /\ pc'[c] = "mask" /\ n < MaxDepth /\ n \in Nat
      /\ open'[c] = Append(open[c], s) /\ open[c] \in Seq(Services)
      /\ \A d \in Callers : d # c => pc'[d] = pc[d] /\ open'[d] = open[d]
  BY GotoAlone DEF Suspend, MayOpen, Typed
<1>2. /\ Len(open'[c]) = n + 1 /\ open'[c][n + 1] = s
      /\ \A i \in 1 .. n : open'[c][i] = open[c][i]
  BY <1>1, AppendProperties
<1>3. Counted(c) = n /\ Counted(c)' = n + 1
  BY <1>1, <1>2 DEF Counted
<1>4. <<c, n + 1>> \in Places /\ <<c, n + 1>> \notin Held(s)
  BY <1>1, <1>3, ServicesAssumption DEF Places, Held
<1>5. ASSUME NEW r \in Services, NEW e \in Places
      PROVE  e \in Held(r)' <=> e \in Held(r) \/ (r = s /\ e = <<c, n + 1>>)
  <2>1. PICK d \in Callers, i \in 1 .. MaxDepth : e = <<d, i>>
    BY DEF Places
  <2>2. CASE d # c
    BY <1>1, <2>1, <2>2, HeldElsewhere
  <2>3. CASE d = c
    <3>1. e \in Held(r)' <=> i <= n + 1 /\ open'[c][i] = r
      BY <1>3, <2>1, <2>3 DEF Held
    <3>2. e \in Held(r) <=> i <= n /\ open[c][i] = r
      BY <1>3, <2>1, <2>3 DEF Held
    <3>3. e = <<c, n + 1>> <=> i = n + 1
      BY <2>1, <2>3
    <3>4. i \in Nat /\ i >= 1
      BY ServicesAssumption
    <3> QED
      BY <1>1, <1>2, <3>1, <3>2, <3>3, <3>4
  <2> QED
    BY <2>2, <2>3
<1>6. \A r : Held(r) \subseteq Places /\ Held(r)' \subseteq Places
  BY DEF Held
<1> QED
  BY <1>4, <1>5, <1>6

(* Resume takes the last section off its count, though the list still has  *)
(* it when the port is to be asked.                                        *)
LEMMA ResumeHolds ==
  ASSUME Typed, Nested, NEW c \in Callers, Resume(c), NEW s, s = Last(c)
  PROVE  /\ s \in Services
         /\ Held(s)' = Held(s) \ {<<c, Len(open[c])>>}
         /\ <<c, Len(open[c])>> \in Held(s)
         /\ \A r \in Services : r # s => Held(r)' = Held(r)
<1> DEFINE n == Len(open[c])
<1>1. /\ pc[c] = "in" /\ open[c] # <<>> /\ open[c] \in Seq(Services)
      /\ \A d \in Callers : d # c => pc'[d] = pc[d] /\ open'[d] = open[d]
      /\ \/ pc'[c] = "unmask" /\ open'[c] = open[c]
         \/ pc'[c] = "in" /\ open'[c] = SubSeq(open[c], 1, n - 1)
  <2>1. PICK to \in {"in", "unmask"} : Goto(c, "in", to)
    BY DEF Resume
  <2>2. pc[c] = "in" /\ pc'[c] = to /\ \A d \in Callers : d # c => pc'[d] = pc[d]
    BY <2>1, GotoAlone
  <2>3. \/ to = "unmask" /\ open' = open
        \/ to = "in" /\ open' = [open EXCEPT ![c] = SubSeq(@, 1, Len(@) - 1)]
    BY <2>2 DEF Resume, Close, Goto, Typed
  <2> QED
    BY <2>2, <2>3 DEF Resume, Typed
<1>2. n \in Nat \ {0} /\ n <= MaxDepth /\ s = open[c][n] /\ s \in Services
  BY <1>1, FrontOf DEF Last, Nested
<1>3. Counted(c) = n /\ Counted(c)' = n - 1 /\ \A i \in 1 .. n - 1 : open'[c][i] = open[c][i]
  BY <1>1, <1>2, FrontOf DEF Counted
<1>4. <<c, n>> \in Held(s)
  BY <1>2, <1>3, ServicesAssumption DEF Places, Held
<1>5. ASSUME NEW r \in Services, NEW e \in Places
      PROVE  e \in Held(r)' <=> e \in Held(r) /\ ~(r = s /\ e = <<c, n>>)
  <2>1. PICK d \in Callers, i \in 1 .. MaxDepth : e = <<d, i>>
    BY DEF Places
  <2>2. CASE d # c
    BY <1>1, <2>1, <2>2, HeldElsewhere
  <2>3. CASE d = c
    <3>1. e \in Held(r)' <=> i <= n - 1 /\ open'[c][i] = r
      BY <1>3, <2>1, <2>3 DEF Held
    <3>2. e \in Held(r) <=> i <= n /\ open[c][i] = r
      BY <1>3, <2>1, <2>3 DEF Held
    <3>3. e = <<c, n>> <=> i = n
      BY <2>1, <2>3
    <3>4. i \in Nat /\ i >= 1
      BY ServicesAssumption
    <3> HIDE DEF n
    <3> QED
      BY <1>2, <1>3, <3>1, <3>2, <3>3, <3>4
  <2> QED
    BY <2>2, <2>3
<1>6. \A r : Held(r) \subseteq Places /\ Held(r)' \subseteq Places
  BY DEF Held
<1> QED
  BY <1>2, <1>4, <1>5, <1>6

(* The other steps leave what is counted alone.                            *)
LEMMA HeldKept ==
  ASSUME Typed, Nested, NEW c \in Callers,
         \/ \E from, to \in {"out", "in", "mask"} : Goto(c, from, to) /\ open' = open
         \/ ResumeUnmasks(c)
  PROVE  \A r : Held(r)' = Held(r)
<1>1. CASE \E from, to \in {"out", "in", "mask"} : Goto(c, from, to) /\ open' = open
  <2>1. \A d \in Callers : Counted(d)' = Counted(d)
    BY <1>1, GotoAlone DEF Counted
  <2> QED
    BY <1>1, <2>1 DEF Held, Places
<1>2. CASE ResumeUnmasks(c)
  <2> DEFINE n == Len(open[c])
  <2>1. /\ pc[c] = "unmask" /\ pc'[c] = "in" /\ open[c] # <<>> /\ open[c] \in Seq(Services)
        /\ \A d \in Callers : d # c => pc'[d] = pc[d] /\ open'[d] = open[d]
        /\ open'[c] = SubSeq(open[c], 1, n - 1)
    BY <1>2, GotoAlone DEF ResumeUnmasks, Close, Typed, Nested
  <2>2. Counted(c) = n - 1 /\ Counted(c)' = n - 1 /\ n \in Nat \ {0}
        /\ \A i \in 1 .. n - 1 : open'[c][i] = open[c][i]
    BY <2>1, FrontOf DEF Counted
  <2>3. ASSUME NEW r, NEW e \in Places PROVE e \in Held(r)' <=> e \in Held(r)
    <3>1. PICK d \in Callers, i \in 1 .. MaxDepth : e = <<d, i>>
      BY DEF Places
    <3>2. CASE d # c
      BY <2>1, <3>1, <3>2, HeldElsewhere
    <3>3. CASE d = c
      BY <2>2, <3>1, <3>3, ServicesAssumption DEF Held
    <3> QED
      BY <3>2, <3>3
  <2>4. \A r : Held(r) \subseteq Places /\ Held(r)' \subseteq Places
    BY DEF Held
  <2> QED
    BY <2>3, <2>4
<1> QED
  BY <1>1, <1>2
-----------------------------------------------------------------------------
(***************************************************************************)
(* The counters.                                                           *)
(***************************************************************************)
(* The steps as the proofs see them.                                       *)
Passes(c) == /\ \E from, to \in {"out", "in", "mask"} : Goto(c, from, to)
             /\ UNCHANGED <<count, open>>

LEMMA ServicesSteps ==
  ASSUME [Next]_vars
  PROVE  \/ \E c \in Callers : \/ Passes(c) \/ (\E s \in Services : Suspend(c, s))
                               \/ Resume(c) \/ ResumeUnmasks(c)
         \/ UNCHANGED <<count, open, pc>>
<1>1. ASSUME NEW h \in Handlers, Enter(h) \/ Leave(h)
      PROVE  h \in Callers /\ Passes(h)
  BY <1>1 DEF Enter, Leave, Passes, Callers
<1>2. ASSUME NEW c \in Callers, SuspendMasks(c) PROVE Passes(c)
  BY <1>2 DEF SuspendMasks, Passes
<1> QED
  BY <1>1, <1>2 DEF Next, vars

LEMMA Uint8Stays == \A n \in 0 .. 255 : n % 256 = n
  OBVIOUS

LEMMA NextCounts ==
  ASSUME CountFits, ServicesInv, [Next]_vars
  PROVE  Counts'
<1>1. ASSUME NEW r \in Services
      PROVE  /\ count[r] = Cardinality(Held(r)) /\ IsFiniteSet(Held(r))
             /\ count[r] \in 0 .. 255
  <2>1. MaxOpen <= 255 /\ Cardinality(Held(r)) \in 0 .. MaxOpen /\ IsFiniteSet(Held(r))
        /\ count[r] = Cardinality(Held(r))
    BY <1>1, HeldFinite DEF CountFits, ServicesInv, Counts
  <2>2. MaxOpen \in Nat
    BY PlacesFinite, FS_CardinalityType
  <2> QED
    BY <2>1, <2>2
<1>2. ASSUME count' = count, \A r : Held(r)' = Held(r)
      PROVE  Counts'
  BY <1>2 DEF Counts, ServicesInv
<1>3. ASSUME NEW c \in Callers, NEW s \in Services, Suspend(c, s)
      PROVE  Counts'
  <2>1. /\ Held(s)' = Held(s) \cup {<<c, Len(open[c]) + 1>>}
        /\ <<c, Len(open[c]) + 1>> \notin Held(s)
        /\ \A r \in Services : r # s => Held(r)' = Held(r)
    BY <1>3, SuspendHolds DEF ServicesInv
  <2>2. Cardinality(Held(s)') = Cardinality(Held(s)) + 1 /\ IsFiniteSet(Held(s)')
    <3> DEFINE H == Held(s)
               e == <<c, Len(open[c]) + 1>>
    <3>1. IsFiniteSet(H) /\ e \notin H
      BY <1>1, <2>1
    <3>2. Cardinality(H \cup {e}) = Cardinality(H) + 1 /\ IsFiniteSet(H \cup {e})
      <4> HIDE DEF H, e
      <4> QED
        BY <3>1, FS_AddElement
    <3> QED
      BY <2>1, <3>2
  <2>3. count' = [count EXCEPT ![s] = (@ + 1) % 256]
    BY <1>3 DEF Suspend
  <2>4. count[s] + 1 \in 0 .. 255
    <3>1. Held(s)' \subseteq Places
      BY DEF Held
    <3>2. Cardinality(Held(s)') <= MaxOpen
      BY <3>1, PlacesFinite, FS_Subset
    <3>3. MaxOpen \in Nat
      BY PlacesFinite, FS_CardinalityType
    <3> QED
      BY <1>1, <2>2, <3>2, <3>3 DEF CountFits
  <2>5. count'[s] = Cardinality(Held(s)')
    <3>1. count'[s] = count[s] + 1
      BY <2>3, <2>4, Uint8Stays DEF ServicesInv, Typed
    <3> QED
      BY <1>1, <2>2, <3>1
  <2>6. \A r \in Services : r # s => count'[r] = Cardinality(Held(r)')
    BY <1>1, <2>1, <2>3 DEF ServicesInv, Typed
  <2> QED
    BY <2>5, <2>6 DEF Counts
<1>4. ASSUME NEW c \in Callers, Resume(c)
      PROVE  Counts'
  <2>1. PICK s : s = Last(c)
    OBVIOUS
  <2>2. /\ s \in Services
        /\ Held(s)' = Held(s) \ {<<c, Len(open[c])>>}
        /\ <<c, Len(open[c])>> \in Held(s)
        /\ \A r \in Services : r # s => Held(r)' = Held(r)
    BY <1>4, <2>1, ResumeHolds DEF ServicesInv
  <2>3. Cardinality(Held(s)') = Cardinality(Held(s)) - 1 /\ IsFiniteSet(Held(s)')
    <3> DEFINE H == Held(s)
               e == <<c, Len(open[c])>>
    <3>1. IsFiniteSet(H) /\ e \in H
      BY <1>1, <2>2
    <3>2. Cardinality(H \ {e}) = Cardinality(H) - 1 /\ IsFiniteSet(H \ {e})
      <4> HIDE DEF H, e
      <4> QED
        BY <3>1, FS_RemoveElement
    <3> QED
      BY <2>2, <3>2
  <2>4. count' = [count EXCEPT ![s] = (@ - 1) % 256]
    BY <1>4, <2>1 DEF Resume
  <2>5. count[s] - 1 \in 0 .. 255
    <3>1. Cardinality(Held(s)') \in Nat
      BY <2>3, FS_CardinalityType
    <3>2. count[s] = Cardinality(Held(s)) /\ count[s] \in 0 .. 255
      BY <1>1, <2>2
    <3> QED
      BY <2>3, <3>1, <3>2
  <2>6. count'[s] = Cardinality(Held(s)')
    <3>1. (count[s] - 1) % 256 = count[s] - 1
      BY <2>5, Uint8Stays
    <3>2. count'[s] = count[s] - 1
      BY <2>2, <2>4, <3>1 DEF ServicesInv, Typed
    <3> QED
      BY <1>1, <2>2, <2>3, <3>2
  <2>7. \A r \in Services : r # s => count'[r] = Cardinality(Held(r)')
    BY <1>1, <2>2, <2>4 DEF ServicesInv, Typed
  <2> QED
    BY <2>6, <2>7 DEF Counts
<1>5. ASSUME NEW c \in Callers, Passes(c) \/ ResumeUnmasks(c) PROVE Counts'
  BY <1>2, <1>5, HeldKept DEF Passes, ResumeUnmasks, ServicesInv
<1>6. CASE UNCHANGED <<count, open, pc>>
  BY <1>2, <1>6 DEF Held, Counted
<1> QED
  BY <1>3, <1>4, <1>5, <1>6, ServicesSteps

(* A counter that has come down to zero counts nothing; what it counts     *)
(* before the port is asked, handlers above have opened.                   *)
LEMMA NextLastOut ==
  ASSUME CountFits, ServicesInv, Counts', [Next]_vars
  PROVE  LastOut'
<1>1. SUFFICES ASSUME NEW d \in Callers, NEW r \in Services,
                      pc'[d] = "unmask", Last(d)' = r, NEW e \in Held(r)'
               PROVE  e[1] > d
  BY DEF LastOut
<1>2. ASSUME pc[d] = "unmask", Last(d) = r, e \in Held(r) PROVE e[1] > d
  BY <1>2 DEF ServicesInv, LastOut
<1>3. ASSUME NEW c \in Callers, NEW s \in Services, Suspend(c, s)
      PROVE  e[1] > d
  <2>1. /\ pc'[c] = "mask" /\ pc[d] = "unmask" /\ open'[d] = open[d] /\ ~(d > c) /\ d # c
    BY <1>1, <1>3, GotoAlone DEF Suspend, ServicesInv, Typed
  <2>2. e \in Held(r) \/ e = <<c, Len(open[c]) + 1>>
    <3>1. /\ Held(s)' = Held(s) \cup {<<c, Len(open[c]) + 1>>}
          /\ \A q \in Services : q # s => Held(q)' = Held(q)
      BY <1>3, SuspendHolds DEF ServicesInv
    <3> QED
      BY <1>1, <3>1
  <2> QED
    BY <1>1, <1>2, <2>1, <2>2, CallersOrdered DEF Last
<1>4. ASSUME NEW c \in Callers, Resume(c)
      PROVE  e[1] > d
  <2>1. PICK s : s = Last(c)
    OBVIOUS
  <2>2. /\ s \in Services
        /\ Held(s)' = Held(s) \ {<<c, Len(open[c])>>}
        /\ \A q \in Services : q # s => Held(q)' = Held(q)
    BY <1>4, <2>1, ResumeHolds DEF ServicesInv
  <2>3. CASE d = c
    <3>1. pc' = [pc EXCEPT ![c] = "unmask"] /\ open' = open /\ count'[s] = 0
      BY <1>1, <1>4, <2>1, <2>3 DEF Resume, Close, Goto, ServicesInv, Typed
    <3>2. s = r
      BY <1>1, <2>1, <2>3, <3>1 DEF Last
    <3>3. Held(s)' = {}
      <4>1. Cardinality(Held(s)') = 0
        BY <2>2, <3>1 DEF Counts
      <4>2. IsFiniteSet(Held(s)')
        <5>1. Held(s)' \subseteq Held(s) /\ IsFiniteSet(Held(s))
          BY <2>2, HeldFinite
        <5> QED
          BY <5>1, FS_Subset
      <4> QED
        BY <4>1, <4>2, FS_EmptySet
    <3> QED
      BY <1>1, <3>2, <3>3
  <2>4. CASE d # c
    <3>1. pc[d] = "unmask" /\ open'[d] = open[d]
      BY <1>1, <1>4, <2>4, GotoAlone DEF Resume, Close, ServicesInv, Typed
    <3> QED
      BY <1>1, <1>2, <2>2, <3>1 DEF Last
  <2> QED
    BY <2>3, <2>4
<1>5. ASSUME NEW c \in Callers, Passes(c) \/ ResumeUnmasks(c)
      PROVE  e[1] > d
  <2>1. Held(r)' = Held(r)
    BY <1>5, HeldKept DEF Passes, ServicesInv
  <2>2. pc[d] = "unmask" /\ open'[d] = open[d]
    <3>1. PICK to \in {"out", "in", "mask"} : \E from : Goto(c, from, to)
      BY <1>5 DEF Passes, ResumeUnmasks
    <3>2. d # c /\ pc'[d] = pc[d]
      BY <1>1, <3>1, GotoAlone DEF ServicesInv
    <3> QED
      BY <1>1, <1>5, <3>2 DEF Passes, ResumeUnmasks, Close, ServicesInv, Typed
  <2> QED
    BY <1>1, <1>2, <2>1, <2>2 DEF Last
<1>6. CASE UNCHANGED <<count, open, pc>>
  <2>1. Held(r)' = Held(r) /\ Last(d)' = Last(d)
    BY <1>6 DEF Held, Counted, Last
  <2> QED
    BY <1>1, <1>2, <1>6, <2>1
<1> QED
  BY <1>3, <1>4, <1>5, <1>6, ServicesSteps
-----------------------------------------------------------------------------
(***************************************************************************)
(* The types.                                                              *)
(***************************************************************************)
LEMMA PortTyped ==
  ASSUME Typed, NEW s \in Services, Suspend_uC(s) \/ Resume_uC(s)
  PROVE  status' \subseteq {1, 2} /\ saved' \in [Services -> SUBSET {1, 2}]
<1>1. Disables(s) \subseteq {1, 2} /\ saved[s] \subseteq {1, 2} /\ status \subseteq {1, 2}
  BY DEF Typed, Disables
<1>2. CASE Suspend_uC(s)
  BY <1>1, <1>2 DEF Suspend_uC, Typed
<1>3. CASE Resume_uC(s)
  BY <1>1, <1>3 DEF Resume_uC, Typed
<1> QED
  BY <1>2, <1>3

LEMMA NextTyped ==
  ASSUME CountFits, ServicesInv, [Next]_vars
  PROVE  Typed' /\ Nested'
<1>1. Typed /\ Nested
  BY DEF ServicesInv
<1>2. ASSUME NEW c \in Callers, NEW from, NEW to \in {"out", "in", "mask", "unmask"},
             Goto(c, from, to)
      PROVE  /\ pc' \in [Callers -> {"out", "in", "mask", "unmask"}]
             /\ pc[c] = from /\ pc'[c] = to
             /\ \A d \in Callers : d # c => pc'[d] = pc[d]
  BY <1>1, <1>2, GotoAlone DEF Goto, Typed
<1>3. ASSUME NEW h \in Handlers, Enter(h) PROVE Typed' /\ Nested'
  <2>1. h \in Callers
    BY DEF Callers
  <2> QED
    BY <1>1, <1>2, <1>3, <2>1 DEF Enter, Typed, Nested
<1>4. ASSUME NEW h \in Handlers, Leave(h) PROVE Typed' /\ Nested'
  <2>1. h \in Callers
    BY DEF Callers
  <2> QED
    BY <1>1, <1>2, <1>4, <2>1 DEF Leave, Typed, Nested
<1>5. ASSUME NEW c \in Callers, NEW s \in Services, Suspend(c, s) PROVE Typed' /\ Nested'
  <2>1. /\ Goto(c, "in", "mask") /\ open' = [open EXCEPT ![c] = Append(@, s)]
        /\ Len(open[c]) < MaxDepth /\ open[c] \in Seq(Services)
        /\ count' = [count EXCEPT ![s] = (@ + 1) % 256]
        /\ UNCHANGED <<status, saved, opened>>
    BY <1>1, <1>5 DEF Suspend, MayOpen, Typed
  <2>2. /\ Append(open[c], s) \in Seq(Services) /\ Append(open[c], s) # <<>>
        /\ Len(Append(open[c], s)) = Len(open[c]) + 1 /\ Len(open[c]) \in Nat
    BY <2>1, AppendProperties
  <2>3. count[s] \in Nat /\ (count[s] + 1) % 256 \in Nat
    BY <1>1 DEF Typed
  <2>4. Typed'
    BY <1>1, <1>2, <2>1, <2>2, <2>3 DEF Typed
  <2>5. Nested'
    BY <1>1, <1>2, <2>1, <2>2, ServicesAssumption DEF Typed, Nested
  <2> QED
    BY <2>4, <2>5
<1>6. ASSUME NEW c \in Callers, SuspendMasks(c) PROVE Typed' /\ Nested'
  <2>1. Goto(c, "mask", "in") /\ Suspend_uC(Last(c)) /\ UNCHANGED <<count, open, opened>>
    BY <1>6 DEF SuspendMasks
  <2>2. Last(c) \in Services
    BY <1>1, <1>2, <2>1, FrontOf DEF Last, Nested, Typed
  <2> QED
    BY <1>1, <1>2, <2>1, <2>2, PortTyped DEF Typed, Nested
<1>7. ASSUME NEW c \in Callers, NEW to \in {"in", "unmask"}, open[c] # <<>>,
             NEW from, Goto(c, from, to),
             \/ to = "unmask" /\ open' = open
             \/ to = "in" /\ open' = [open EXCEPT ![c] = SubSeq(@, 1, Len(@) - 1)]
      PROVE  Nested' /\ open' \in [Callers -> Seq(Services)]
  <2>1. /\ SubSeq(open[c], 1, Len(open[c]) - 1) \in Seq(Services)
        /\ Len(SubSeq(open[c], 1, Len(open[c]) - 1)) = Len(open[c]) - 1
        /\ Len(open[c]) \in Nat \ {0} /\ open[c] \in Seq(Services)
    BY <1>1, <1>7, FrontOf DEF Typed
  <2>2. open' \in [Callers -> Seq(Services)]
    BY <1>1, <1>7, <2>1 DEF Typed
  <2>3. Nested'
    BY <1>1, <1>2, <1>7, <2>1, ServicesAssumption DEF Typed, Nested
  <2> QED
    BY <2>2, <2>3
<1>8. ASSUME NEW c \in Callers, Resume(c) PROVE Typed' /\ Nested'
  <2>1. Last(c) \in Services
    BY <1>1, <1>8, FrontOf DEF Resume, Last, Typed
  <2>2. /\ open[c] # <<>> /\ count' = [count EXCEPT ![Last(c)] = (@ - 1) % 256]
        /\ UNCHANGED <<status, saved>>
        /\ \E to \in {"in", "unmask"} :
             /\ Goto(c, "in", to)
             /\ \/ to = "unmask" /\ open' = open
                \/ to = "in" /\ open' = [open EXCEPT ![c] = SubSeq(@, 1, Len(@) - 1)]
        /\ opened' \subseteq Callers
    BY <1>1, <1>8 DEF Resume, Close, Typed
  <2>3. (count[Last(c)] - 1) % 256 \in Nat
    BY <1>1, <2>1 DEF Typed
  <2>4. count' \in [Services -> Nat]
    BY <1>1, <2>1, <2>2, <2>3 DEF Typed
  <2>5. PICK to \in {"in", "unmask"} :
          /\ Goto(c, "in", to)
          /\ \/ to = "unmask" /\ open' = open
             \/ to = "in" /\ open' = [open EXCEPT ![c] = SubSeq(@, 1, Len(@) - 1)]
    BY <2>2
  <2>6. Nested' /\ open' \in [Callers -> Seq(Services)]
    BY <1>7, <2>2, <2>5
  <2>7. pc' \in [Callers -> {"out", "in", "mask", "unmask"}]
    BY <1>2, <2>5
  <2> QED
    BY <1>1, <2>2, <2>4, <2>6, <2>7 DEF Typed
<1>9. ASSUME NEW c \in Callers, ResumeUnmasks(c) PROVE Typed' /\ Nested'
  <2>1. /\ Goto(c, "unmask", "in") /\ Resume_uC(Last(c)) /\ UNCHANGED count
        /\ open' = [open EXCEPT ![c] = SubSeq(@, 1, Len(@) - 1)]
        /\ opened' \subseteq Callers
    BY <1>1, <1>9 DEF ResumeUnmasks, Close, Typed
  <2>2. open[c] # <<>>
    BY <1>1, <1>2, <2>1 DEF Nested
  <2>3. Last(c) \in Services
    BY <1>1, <2>2, FrontOf DEF Last, Typed
  <2>4. Nested' /\ open' \in [Callers -> Seq(Services)]
    BY <1>7, <2>1, <2>2
  <2> QED
    BY <1>1, <1>2, <2>1, <2>3, <2>4, PortTyped DEF Typed
<1>10. CASE UNCHANGED vars
  BY <1>1, <1>10 DEF vars, Typed, Nested
<1> QED
  BY <1>3, <1>4, <1>5, <1>6, <1>8, <1>9, <1>10 DEF Next

LEMMA ServicesInvariance ==
  ASSUME CountFits
  PROVE  Spec => []ServicesInv
<1>1. Init => ServicesInv
  <2>1. SUFFICES ASSUME Init PROVE ServicesInv
    OBVIOUS
  <2>2. Typed
    BY <2>1 DEF Init, Typed
  <2>3. Nested /\ LastOut
    BY <2>1, ServicesAssumption DEF Init, Nested, LastOut
  <2>4. \A s : Held(s) = {}
    <3>1. \A c \in Callers : Counted(c) = 0
      BY <2>1 DEF Init, Counted
    <3> QED
      BY <3>1, ServicesAssumption DEF Held, Places
  <2>5. Counts
    BY <2>1, <2>4, FS_EmptySet DEF Init, Counts
  <2> QED
    BY <2>2, <2>3, <2>5 DEF ServicesInv
<1>2. ServicesInv /\ [Next]_vars => ServicesInv'
  BY NextTyped, NextCounts, NextLastOut DEF ServicesInv
<1> QED
  BY <1>1, <1>2, PTL DEF Spec

(* No pair of calls makes a counter wrap, however tasks and handlers nest  *)
(* sections (osek.c:426-585).                                              *)
THEOREM CountersNeverWrap ==
  ASSUME CountFits
  PROVE  Spec => []TypeOK
<1>1. ASSUME ServicesInv PROVE TypeOK
  <2>1. \A s \in Services : count[s] \in 0 .. MaxOpen
    BY <1>1, HeldFinite DEF ServicesInv, Counts
  <2> QED
    BY <1>1, <2>1 DEF ServicesInv, Typed, TypeOK
<1> QED
  BY <1>1, ServicesInvariance, PTL
-----------------------------------------------------------------------------
(***************************************************************************)
(* Protection, with the port that the comments describe.                   *)
(***************************************************************************)
(* The sections that c is inside of, by their place.                       *)
Within(c) == IF pc[c] \in {"mask", "unmask"} THEN Len(open[c]) - 1 ELSE Len(open[c])

(* The sections of c whose Suspend has saved a status.                     *)
Opened(c) == IF pc[c] = "mask" THEN Len(open[c]) - 1 ELSE Len(open[c])

(* What section j of d keeps out is disabled in m, or was opened to it.    *)
Keeps(d, j, m) == \/ Disables(open[d][j]) \subseteq m
                  \/ open[d][j] = "SuspendOS" /\ d \in opened

(* The sections that c is inside of are kept by the status, and so they    *)
(* are by the one that each later section has saved and will restore.      *)
Masked == \A d \in Callers : \A j \in 1 .. Within(d) : Keeps(d, j, status)
Restores == \A c, d \in Callers : \A i \in 1 .. Opened(c) : \A j \in 1 .. Within(d) :
              (d < c \/ (d = c /\ j < i)) /\ open[c][i] # "DisableAll"
              => Keeps(d, j, saved[open[c][i]])

(* A handler is entered only while the sections below it are SuspendOS's;  *)
(* inside of DisableAllInterrupts a caller opens nothing else.             *)
Below == \A c, d \in Callers : \A j \in 1 .. Within(d) :
           d < c /\ pc[c] # "out" => open[d][j] = "SuspendOS"
Apart == \A c \in Callers : \A i, j \in 1 .. Len(open[c]) :
           open[c][i] = "DisableAll" => open[c][j] = "DisableAll"

PortInv == Masked /\ Restores /\ Below /\ Apart

(* A step that opens no section: what c is inside of, and what it has      *)
(* saved a status for, it was and had before.                              *)
Fewer == \A d \in Callers :
  /\ \A j \in 1 .. Within(d)' : /\ j \in 1 .. Within(d) /\ open'[d][j] = open[d][j]
                                /\ d \in opened => d \in opened'
  /\ \A i \in 1 .. Opened(d)' : i \in 1 .. Opened(d) /\ open'[d][i] = open[d][i]

LEMMA ClosesFewer ==
  ASSUME Typed, Nested, NEW c \in Callers, NEW others \in SUBSET Callers,
         open[c] # <<>>, Close(c, others)
  PROVE  /\ Len(open'[c]) = Len(open[c]) - 1 /\ Len(open[c]) \in Nat \ {0}
         /\ \A i \in 1 .. Len(open[c]) - 1 : open'[c][i] = open[c][i]
         /\ \A d \in Callers : d # c => open'[d] = open[d]
         /\ \A d \in opened \cup others : \A j \in 1 .. Len(open'[d]) : d \in opened'
<1>1. /\ Len(open'[c]) = Len(open[c]) - 1 /\ Len(open[c]) \in Nat \ {0}
      /\ \A i \in 1 .. Len(open[c]) - 1 : open'[c][i] = open[c][i]
      /\ \A d \in Callers : d # c => open'[d] = open[d]
  BY FrontOf DEF Close, Typed
<1>2. Len(<<>>) = 0
  OBVIOUS
<1>3. ASSUME NEW d \in opened \cup others, NEW j \in 1 .. Len(open'[d])
      PROVE  d \in opened'
  <2>1. open'[d] # <<>>
    BY <1>2, <1>3
  <2> QED
    BY <1>3, <2>1 DEF Close
<1> QED
  BY <1>1, <1>3

LEMMA StepsFewer ==
  ASSUME Typed, Nested, NEW c \in Callers,
         Enter(c) \/ Leave(c) \/ (\E s \in Services : Suspend(c, s))
           \/ Resume(c) \/ ResumeUnmasks(c)
  PROVE  Fewer
<1>0. \A d \in Callers : open[d] \in Seq(Services) /\ Len(open[d]) \in Nat
  BY LenProperties DEF Typed
<1>1. CASE Enter(c) \/ Leave(c)
  <2>1. open' = open /\ opened' = opened
        /\ \A d \in Callers : Within(d)' = Within(d) /\ Opened(d)' = Opened(d)
    BY <1>1, GotoAlone DEF Enter, Leave, Within, Opened
  <2> QED
    BY <2>1 DEF Fewer
<1>2. ASSUME NEW s \in Services, Suspend(c, s) PROVE Fewer
  <2>1. /\ pc[c] = "in" /\ pc'[c] = "mask" /\ opened' = opened
        /\ open'[c] = Append(open[c], s)
        /\ \A d \in Callers : d # c => pc'[d] = pc[d] /\ open'[d] = open[d]
    BY <1>2, GotoAlone DEF Suspend, Typed
  <2>2. /\ Len(open'[c]) = Len(open[c]) + 1
        /\ \A i \in 1 .. Len(open[c]) : open'[c][i] = open[c][i]
    BY <1>0, <2>1, AppendProperties
  <2>3. /\ Within(c)' = Within(c) /\ Opened(c)' = Opened(c)
        /\ Within(c) = Len(open[c]) /\ Opened(c) = Len(open[c])
    BY <1>0, <2>1, <2>2 DEF Within, Opened
  <2>4. \A d \in Callers : d # c => Within(d)' = Within(d) /\ Opened(d)' = Opened(d)
    BY <2>1 DEF Within, Opened
  <2> QED
    BY <2>1, <2>2, <2>3, <2>4 DEF Fewer
<1>3. ASSUME pc[c] \in {"in", "unmask"}, NEW from, Goto(c, from, "in"), open[c] # <<>>,
             NEW others \in SUBSET Callers, Close(c, others)
      PROVE  Fewer
  <2>1. /\ Len(open'[c]) = Len(open[c]) - 1 /\ Len(open[c]) \in Nat \ {0}
        /\ \A i \in 1 .. Len(open[c]) - 1 : open'[c][i] = open[c][i]
        /\ \A d \in Callers : d # c => open'[d] = open[d]
        /\ \A d \in opened \cup others : \A j \in 1 .. Len(open'[d]) : d \in opened'
    BY <1>3, ClosesFewer
  <2>2. pc'[c] = "in" /\ \A d \in Callers : d # c => pc'[d] = pc[d]
    BY <1>3, GotoAlone
  <2>3. /\ Within(c)' = Len(open[c]) - 1 /\ Opened(c)' = Len(open[c]) - 1
        /\ Within(c) \in {Len(open[c]), Len(open[c]) - 1} /\ Opened(c) = Len(open[c])
    BY <1>3, <2>1, <2>2 DEF Within, Opened
  <2>4. \A d \in Callers : d # c => Within(d)' = Within(d) /\ Opened(d)' = Opened(d)
    BY <2>1, <2>2 DEF Within, Opened
  <2>5. ASSUME NEW d \in Callers, NEW j \in 1 .. Within(d)'
        PROVE  /\ j \in 1 .. Within(d) /\ open'[d][j] = open[d][j]
               /\ d \in opened => d \in opened'
    <3>1. j \in 1 .. Len(open'[d])
      <4>1. CASE d = c
        BY <2>1, <2>3, <2>5, <4>1
      <4>2. CASE d # c
        BY <1>0, <2>1, <2>4, <2>5, <4>2 DEF Within
      <4> QED
        BY <4>1, <4>2
    <3>2. j \in 1 .. Within(d) /\ open'[d][j] = open[d][j]
      <4>1. CASE d = c
        BY <2>1, <2>3, <2>5, <4>1
      <4>2. CASE d # c
        BY <2>1, <2>4, <2>5, <4>2
      <4> QED
        BY <4>1, <4>2
    <3> QED
      BY <2>1, <3>1, <3>2
  <2>6. ASSUME NEW d \in Callers, NEW i \in 1 .. Opened(d)'
        PROVE  i \in 1 .. Opened(d) /\ open'[d][i] = open[d][i]
    <3>1. CASE d = c
      BY <2>1, <2>3, <2>6, <3>1
    <3>2. CASE d # c
      BY <2>1, <2>4, <2>6, <3>2
    <3> QED
      BY <3>1, <3>2
  <2> QED
    BY <2>5, <2>6 DEF Fewer
<1>4. CASE Resume(c)
  <2>1. CASE Goto(c, "in", "unmask") /\ UNCHANGED <<open, opened>>
    <3>1. /\ Within(c)' = Len(open[c]) - 1 /\ Within(c) = Len(open[c])
          /\ Opened(c)' = Opened(c)
          /\ \A d \in Callers : d # c => Within(d)' = Within(d) /\ Opened(d)' = Opened(d)
      BY <2>1, GotoAlone DEF Within, Opened
    <3> QED
      BY <1>0, <2>1, <3>1 DEF Fewer
  <2>2. CASE Goto(c, "in", "in") /\ Close(c, {})
    BY <1>3, <1>4, <2>2, GotoAlone DEF Resume
  <2> QED
    BY <1>4, <2>1, <2>2 DEF Resume
<1>5. CASE ResumeUnmasks(c)
  <2>1. pc[c] = "unmask" /\ Goto(c, "unmask", "in") /\ open[c] # <<>>
    BY <1>5, GotoAlone DEF ResumeUnmasks, Nested
  <2>2. \E others \in SUBSET Callers : Close(c, others)
    BY <1>5 DEF ResumeUnmasks
  <2> QED
    BY <1>3, <2>1, <2>2
<1> QED
  BY <1>1, <1>2, <1>4, <1>5

LEMMA FewerKept ==
  ASSUME Fewer, Masked, Restores
  PROVE  /\ status' = status => Masked'
         /\ saved' = saved => Restores'
<1>1. ASSUME NEW d \in Callers, NEW j \in 1 .. Within(d)', NEW m, Keeps(d, j, m)
      PROVE  \/ Disables(open'[d][j]) \subseteq m
             \/ open'[d][j] = "SuspendOS" /\ d \in opened'
  <2>1. open'[d][j] = open[d][j] /\ (d \in opened => d \in opened')
    BY <1>1 DEF Fewer
  <2> QED
    BY <1>1, <2>1 DEF Keeps
<1>2. ASSUME status' = status PROVE Masked'
  <2>1. ASSUME NEW d \in Callers, NEW j \in 1 .. Within(d)'
        PROVE  Keeps(d, j, status)
    BY <2>1 DEF Fewer, Masked
  <2> QED
    BY <1>1, <1>2, <2>1 DEF Masked, Keeps
<1>3. ASSUME saved' = saved PROVE Restores'
  <2>1. SUFFICES ASSUME NEW c \in Callers, NEW d \in Callers,
                        NEW i \in 1 .. Opened(c)', NEW j \in 1 .. Within(d)',
                        d < c \/ (d = c /\ j < i), open'[c][i] # "DisableAll"
                 PROVE  Keeps(d, j, saved[open[c][i]])'
    BY DEF Restores
  <2>2. i \in 1 .. Opened(c) /\ open'[c][i] = open[c][i] /\ j \in 1 .. Within(d)
    BY DEF Fewer
  <2>3. Keeps(d, j, saved[open[c][i]])
    BY <2>1, <2>2 DEF Restores
  <2> QED
    BY <1>1, <1>3, <2>2, <2>3 DEF Keeps
<1> QED
  BY <1>2, <1>3

(* A Suspend that disables keeps everything, and saves what is kept.       *)
LEMMA SuspendKeeps ==
  ASSUME Typed, Nested, Masked, Restores, NEW c \in Callers, SuspendMasks(c)
  PROVE  Masked' /\ Restores'
<1> DEFINE n == Len(open[c])
<1>0. PICK s : s = Last(c)
  OBVIOUS
<1>1. /\ pc[c] = "mask" /\ pc'[c] = "in" /\ open' = open /\ opened' = opened
      /\ Suspend_uC(s) /\ open[c] # <<>>
      /\ \A d \in Callers : d # c => pc'[d] = pc[d]
      /\ \A d \in Callers : d > c => Len(open[d]) = 0
  <2>1. Goto(c, "mask", "in") /\ open[c] # <<>>
    BY GotoAlone DEF SuspendMasks, Nested
  <2>2. /\ pc[c] = "mask" /\ pc'[c] = "in"
        /\ \A d \in Callers : d # c => pc'[d] = pc[d]
        /\ \A d \in Callers : d > c => open[d] = <<>>
    BY <2>1, GotoAlone
  <2>3. \A d \in Callers : d > c => Len(open[d]) = 0
    BY <2>2, EmptySeq
  <2> QED
    BY <1>0, <2>1, <2>2, <2>3 DEF SuspendMasks
<1>2. n \in Nat \ {0} /\ s = open[c][n] /\ s \in Services
  BY <1>0, <1>1, FrontOf DEF Typed, Last
<1>3. /\ Within(c) = n - 1 /\ Within(c)' = n /\ Opened(c) = n - 1 /\ Opened(c)' = n
      /\ \A d \in Callers : d # c => Within(d)' = Within(d) /\ Opened(d)' = Opened(d)
  BY <1>1 DEF Within, Opened
<1>4. /\ status' = status \cup Disables(s)
      /\ saved' = IF s = "DisableAll" THEN saved ELSE [saved EXCEPT ![s] = status]
  BY <1>1 DEF Suspend_uC
<1>5. ASSUME NEW d \in Callers, NEW j \in 1 .. Within(d)
      PROVE  Keeps(d, j, status) /\ Keeps(d, j, status)'
  <2>1. Keeps(d, j, status)
    BY <1>5 DEF Masked
  <2> QED
    BY <1>1, <1>4, <2>1 DEF Keeps
<1>6. Masked'
  <2>1. ASSUME NEW d \in Callers, NEW j \in 1 .. Within(d)'
        PROVE  j \in 1 .. Within(d) \/ (d = c /\ j = n)
    <3> HIDE DEF n
    <3>1. CASE d = c
      BY <1>2, <1>3, <2>1, <3>1
    <3>2. CASE d # c
      BY <1>3, <2>1, <3>2
    <3> QED
      BY <3>1, <3>2
  <2>2. ASSUME NEW j, j = n PROVE Keeps(c, j, status)'
    <3>1. Disables(s) \subseteq status' /\ open'[c][n] = s
      BY <1>1, <1>2, <1>4
    <3>2. Disables(open'[c][n]) \subseteq status'
      BY <3>1
    <3> QED
      BY <2>2, <3>2 DEF Keeps
  <2>3. ASSUME NEW d \in Callers, NEW j \in 1 .. Within(d)'
        PROVE  Keeps(d, j, status)'
    BY <1>5, <2>1, <2>2, <2>3
  <2> QED
    BY <2>3 DEF Masked
<1>7. Restores'
  <2>1. SUFFICES ASSUME NEW e \in Callers, NEW d \in Callers,
                        NEW i \in 1 .. Opened(e)', NEW j \in 1 .. Within(d)',
                        d < e \/ (d = e /\ j < i), open'[e][i] # "DisableAll"
                 PROVE  Keeps(d, j, saved[open[e][i]])'
    BY DEF Restores
  <2>2. i \in Nat /\ i >= 1 /\ i <= Len(open[e]) /\ e \in Nat /\ d \in Nat /\ c \in Nat
    <3>1. open[e] \in Seq(Services) /\ Len(open[e]) \in Nat
      BY LenProperties DEF Typed
    <3> QED
      BY <1>1, <3>1, CallersOrdered DEF Opened
  <2>3. ~(e > c)
    BY <1>1, <2>2
  <2>4. j \in 1 .. Within(d)
    <3> HIDE DEF n
    <3>1. CASE d = c
      <4>1. e = c /\ j < i
        BY <2>1, <2>2, <2>3, <3>1
      <4> QED
        BY <1>2, <1>3, <3>1, <4>1
    <3>2. CASE d # c
      BY <1>3, <3>2
    <3> QED
      BY <3>1, <3>2
  <2>5. CASE open[e][i] = s
    <3>1. saved'[open'[e][i]] = status
      BY <1>1, <1>2, <1>4, <2>1, <2>5 DEF Typed
    <3>2. Keeps(d, j, status)
      BY <1>5, <2>4
    <3> QED
      BY <1>1, <3>1, <3>2 DEF Keeps
  <2>6. CASE open[e][i] # s
    <3>1. i \in 1 .. Opened(e)
      <4> HIDE DEF n
      <4>1. CASE e = c
        BY <1>2, <1>3, <2>6, <4>1
      <4>2. CASE e # c
        BY <1>3, <4>2
      <4> QED
        BY <4>1, <4>2
    <3>2. Keeps(d, j, saved[open[e][i]])
      BY <1>1, <2>1, <2>4, <3>1 DEF Restores
    <3>3. open[e][i] \in Services
      <4>1. open[e] \in Seq(Services)
        BY DEF Typed
      <4> QED
        BY <2>2, <4>1, ElementOfSeq
    <3>4. saved'[open'[e][i]] = saved[open[e][i]]
      BY <1>1, <1>4, <2>6, <3>3 DEF Typed
    <3> QED
      BY <1>1, <3>2, <3>4 DEF Keeps
  <2> QED
    BY <2>5, <2>6
<1> QED
  BY <1>6, <1>7

(* A Resume that enables leaves disabled what the sections that remain     *)
(* keep out, but for those of SuspendOSInterrupts that it opens.           *)
LEMMA ResumeKeeps ==
  ASSUME ServicesInv, PortInv, NEW c \in Callers, ResumeUnmasks(c)
  PROVE  Masked'
<1> DEFINE n == Len(open[c])
<1>0. PICK s : s = Last(c)
  OBVIOUS
<1>a. Typed /\ Nested /\ Masked /\ Restores /\ Below /\ Apart
  BY DEF ServicesInv, PortInv
<1>b. Fewer
  BY <1>a, StepsFewer
<1>1. /\ pc[c] = "unmask" /\ open[c] # <<>> /\ Resume_uC(s)
      /\ Close(c, IF s # "DisableAll" THEN {}
                  ELSE {d \in Callers : d < c /\ "SuspendOS" \in Inside(d)})
      /\ \A d \in Callers : d > c => Len(open[d]) = 0 /\ pc[d] = "out"
  <2>1. Goto(c, "unmask", "in") /\ open[c] # <<>>
    BY <1>a, GotoAlone DEF ResumeUnmasks, Nested
  <2>2. /\ pc[c] = "unmask"
        /\ \A d \in Callers : d > c => open[d] = <<>> /\ pc[d] = "out"
    BY <1>a, <2>1, GotoAlone
  <2>3. \A d \in Callers : d > c => Len(open[d]) = 0
    BY <2>2, EmptySeq
  <2> QED
    BY <1>0, <2>1, <2>2, <2>3 DEF ResumeUnmasks
<1>2. n \in Nat \ {0} /\ s = open[c][n] /\ s \in Services
  BY <1>0, <1>1, <1>a, FrontOf DEF Typed, Last
<1>3. Within(c) = n - 1 /\ Opened(c) = n
  BY <1>1 DEF Within, Opened
<1>4. SUFFICES ASSUME NEW d \in Callers, NEW j \in 1 .. Within(d)'
               PROVE  Keeps(d, j, status)'
  BY DEF Masked
<1>5. /\ j \in 1 .. Within(d) /\ open'[d][j] = open[d][j]
      /\ d \in opened => d \in opened'
  BY <1>b DEF Fewer
<1>6. /\ j \in Nat /\ j >= 1 /\ j <= Len(open[d]) /\ d \in Nat /\ c \in Nat /\ ~(d > c)
      /\ d = c => j < n
  <2>1. open[d] \in Seq(Services) /\ Len(open[d]) \in Nat
    BY <1>a, LenProperties DEF Typed
  <2>2. j \in Nat /\ j >= 1 /\ j <= Len(open[d])
    BY <1>5, <2>1 DEF Within
  <2>3. d \in Nat /\ c \in Nat
    BY CallersOrdered
  <2>4. ~(d > c)
    BY <1>1, <2>2
  <2> HIDE DEF n
  <2>5. d = c => j < n
    BY <1>2, <1>3, <1>5
  <2> QED
    BY <2>2, <2>3, <2>4, <2>5
<1>7. CASE s # "DisableAll"
  <2>1. Keeps(d, j, saved[open[c][n]])
    <3>1. n \in 1 .. Opened(c)
      BY <1>2, <1>3
    <3>2. d < c \/ (d = c /\ j < n)
      BY <1>6
    <3> QED
      BY <1>2, <1>5, <1>7, <1>a, <3>1, <3>2 DEF Restores
  <2>2. status' = saved[open[c][n]]
    BY <1>1, <1>2, <1>7 DEF Resume_uC
  <2> QED
    BY <1>5, <2>1, <2>2 DEF Keeps
<1>8. CASE s = "DisableAll"
  <2>1. CASE d = c
    (* DisableAllInterrupts nests in itself alone, and none of it is left. *)
    <3>1. n \in 1 .. Len(open[c]) /\ j \in 1 .. Len(open[c])
      BY <1>2, <1>6, <2>1
    <3>2. open[c][j] = "DisableAll"
      BY <1>2, <1>8, <1>a, <3>1 DEF Apart
    <3>3. <<c, j>> \in Held(s)
      <4>1. j <= Counted(c) /\ j \in 1 .. MaxDepth
        BY <1>1, <1>2, <1>6, <1>a, <2>1, ServicesAssumption DEF Counted, Nested
      <4> QED
        BY <1>8, <3>2, <4>1 DEF Held, Places
    <3>4. c > c
      BY <1>0, <1>1, <1>2, <3>3 DEF ServicesInv, LastOut
    <3> QED
      BY <1>6, <3>4
  <2>2. CASE d # c
    <3>1. d < c
      BY <1>6, <2>2
    <3>2. open[d][j] = "SuspendOS"
      BY <1>1, <1>5, <1>a, <3>1 DEF Below
    <3>3. "SuspendOS" \in Inside(d)
      <4>1. Len(open[d]) \in Nat
        BY <1>a, LenProperties DEF Typed
      <4>2. Within(d) = Len(open[d]) - (IF pc[d] \in {"mask", "unmask"} THEN 1 ELSE 0)
        BY <4>1 DEF Within
      <4> QED
        BY <1>5, <3>2, <4>2 DEF Inside
    <3>4. d \in opened'
      <4> DEFINE others == {e \in Callers : e < c /\ "SuspendOS" \in Inside(e)}
      <4>1. d \in others /\ others \in SUBSET Callers
        BY <3>1, <3>3
      <4>2. Close(c, others)
        BY <1>1, <1>8
      <4> HIDE DEF others
      <4>3. open'[d] = open[d] /\ j \in 1 .. Len(open'[d])
        BY <1>1, <1>6, <1>a, <2>2, <4>1, <4>2, ClosesFewer
      <4> QED
        BY <1>1, <1>a, <4>1, <4>2, <4>3, ClosesFewer
    <3> QED
      BY <1>5, <3>2, <3>4 DEF Keeps
  <2> QED
    BY <2>1, <2>2
<1> QED
  BY <1>7, <1>8

LEMMA NextPort ==
  ASSUME ServicesInv, PortInv, [Next]_vars
  PROVE  PortInv'
<1>1. Typed /\ Nested /\ Masked /\ Restores /\ Below /\ Apart
  BY DEF ServicesInv, PortInv
<1>2. ASSUME \A c \in Callers : pc[c] = "out" => pc'[c] = "out", Fewer PROVE Below'
  BY <1>1, <1>2 DEF Fewer, Below
<1>3. ASSUME NEW c \in Callers, \A d \in Callers : d # c => open'[d] = open[d],
             \/ open'[c] = open[c]
             \/ /\ Len(open'[c]) = Len(open[c]) - 1 /\ Len(open[c]) \in Nat
                /\ \A i \in 1 .. Len(open[c]) - 1 : open'[c][i] = open[c][i]
      PROVE  Apart'
  <2>1. ASSUME NEW d \in Callers, NEW i \in 1 .. Len(open'[d])
        PROVE  i \in 1 .. Len(open[d]) /\ open'[d][i] = open[d][i]
    BY <1>3, <2>1
  <2> QED
    BY <1>1, <2>1 DEF Apart
<1>4. ASSUME NEW c \in Callers, NEW from \in {"in", "mask", "unmask"}, NEW to, Goto(c, from, to)
      PROVE  \A d \in Callers : pc[d] = "out" => pc'[d] = "out"
  BY <1>1, <1>4, GotoAlone
<1>5. ASSUME NEW h \in Handlers, Enter(h) PROVE PortInv'
  <2>0. h \in Callers
    BY DEF Callers
  <2>1. /\ Goto(h, "out", "in") /\ Category[h] \notin status /\ open' = open /\ Fewer
        /\ UNCHANGED <<status, saved>>
    BY <1>1, <1>5, <2>0, StepsFewer DEF Enter
  <2>2. ASSUME NEW c \in Callers, NEW d \in Callers, NEW j \in 1 .. Within(d)',
               d < c, pc'[c] # "out"
        PROVE  open'[d][j] = "SuspendOS"
    <3>1. j \in 1 .. Within(d)
      BY <2>1, <2>2 DEF Fewer
    <3>2. CASE pc[c] # "out"
      BY <1>1, <2>1, <2>2, <3>1, <3>2 DEF Below
    <3>3. CASE pc[c] = "out"
      <4>1. Category[h] \in {1, 2}
        BY ServicesAssumption
      <4>2. Keeps(d, j, status)
        BY <1>1, <3>1 DEF Masked
      <4> QED
        BY <2>1, <4>1, <4>2 DEF Keeps, Disables
    <3> QED
      BY <3>2, <3>3
  <2>3. Below'
    BY <2>2 DEF Below
  <2> QED
    BY <1>1, <1>3, <2>0, <2>1, <2>3, FewerKept DEF PortInv
<1>6. ASSUME NEW h \in Handlers, Leave(h) PROVE PortInv'
  <2>0. h \in Callers
    BY DEF Callers
  <2>1. Goto(h, "in", "out") /\ open' = open /\ Fewer /\ UNCHANGED <<status, saved>>
    BY <1>1, <1>6, <2>0, StepsFewer DEF Leave
  <2> QED
    BY <1>1, <1>2, <1>3, <1>4, <2>0, <2>1, FewerKept DEF PortInv
<1>7. ASSUME NEW c \in Callers, NEW s \in Services, Suspend(c, s) PROVE PortInv'
  <2>1. /\ Goto(c, "in", "mask") /\ Fewer /\ UNCHANGED <<status, saved>>
        /\ open' = [open EXCEPT ![c] = Append(@, s)] /\ MayOpen(c, s)
    BY <1>1, <1>7, StepsFewer DEF Suspend
  <2>2. /\ open[c] \in Seq(Services) /\ Len(open[c]) \in Nat
        /\ open'[c] = Append(open[c], s)
        /\ \A d \in Callers : d # c => open'[d] = open[d]
    BY <1>1, <2>1, LenProperties DEF Typed
  <2>3. /\ Len(open'[c]) = Len(open[c]) + 1 /\ open'[c][Len(open[c]) + 1] = s
        /\ \A i \in 1 .. Len(open[c]) : open'[c][i] = open[c][i]
    BY <2>2, AppendProperties
  <2>4. ASSUME NEW i \in 1 .. Len(open[c])
        PROVE  open[c][i] = "DisableAll" <=> s = "DisableAll"
    <3>1. open[c] # <<>> /\ Len(open[c]) \in 1 .. Len(open[c])
      BY <2>2, EmptySeq
    <3>2. s = "DisableAll" <=> open[c][Len(open[c])] = "DisableAll"
      BY <2>1, <3>1 DEF MayOpen, Last
    <3> QED
      BY <1>1, <3>1, <3>2 DEF Apart
  <2>5. ASSUME NEW i \in 1 .. Len(open'[c])
        PROVE  open'[c][i] = "DisableAll" <=> s = "DisableAll"
    <3>1. i \in 1 .. Len(open[c]) \/ i = Len(open[c]) + 1
      BY <2>2, <2>3, <2>5
    <3> QED
      BY <2>3, <2>4, <3>1
  <2>6. ASSUME NEW d \in Callers, NEW i \in 1 .. Len(open'[d]), NEW j \in 1 .. Len(open'[d]),
               open'[d][i] = "DisableAll"
        PROVE  open'[d][j] = "DisableAll"
    <3>1. CASE d = c
      BY <2>5, <2>6, <3>1
    <3>2. CASE d # c
      BY <1>1, <2>2, <2>6, <3>2 DEF Apart
    <3> QED
      BY <3>1, <3>2
  <2> QED
    BY <1>1, <1>2, <1>4, <2>1, <2>6, FewerKept DEF PortInv, Apart
<1>8. ASSUME NEW c \in Callers, SuspendMasks(c) PROVE PortInv'
  <2>1. Goto(c, "mask", "in") /\ open' = open
    BY <1>8 DEF SuspendMasks
  <2>2. ASSUME NEW d \in Callers, NEW e \in Callers, NEW j \in 1 .. Within(d)',
               d < e, pc'[e] # "out"
        PROVE  open'[d][j] = "SuspendOS"
    <3>1. /\ pc[e] # "out" /\ pc[c] = "mask" /\ pc'[c] = "in"
          /\ \A b \in Callers : b # c => pc'[b] = pc[b]
          /\ \A b \in Callers : b > c => pc[b] = "out"
      BY <1>1, <2>1, <2>2, GotoAlone
    <3>2. d # c
      BY <2>2, <3>1, CallersOrdered
    <3>3. j \in 1 .. Within(d)
      BY <2>1, <2>2, <3>1, <3>2 DEF Within
    <3> QED
      BY <1>1, <2>1, <2>2, <3>1, <3>3 DEF Below
  <2>3. Below'
    BY <2>2 DEF Below
  <2> QED
    BY <1>1, <1>3, <1>8, <2>1, <2>3, SuspendKeeps DEF PortInv
<1>9. ASSUME NEW c \in Callers, Resume(c) PROVE PortInv'
  <2>1. Fewer /\ UNCHANGED <<status, saved>>
    BY <1>1, <1>9, StepsFewer DEF Resume
  <2>2. \/ Goto(c, "in", "unmask") /\ open' = open
        \/ Goto(c, "in", "in") /\ Close(c, {}) /\ open[c] # <<>>
    BY <1>9 DEF Resume
  <2>3. Apart'
    <3>1. CASE open' = open
      BY <1>1, <3>1, <1>3
    <3>2. CASE Close(c, {}) /\ open[c] # <<>>
      <4>1. {} \in SUBSET Callers
        OBVIOUS
      <4>2. /\ Len(open'[c]) = Len(open[c]) - 1 /\ Len(open[c]) \in Nat
            /\ \A i \in 1 .. Len(open[c]) - 1 : open'[c][i] = open[c][i]
            /\ \A d \in Callers : d # c => open'[d] = open[d]
        BY <1>1, <3>2, <4>1, ClosesFewer
      <4> QED
        BY <1>3, <4>2
    <3> QED
      BY <2>2, <3>1, <3>2
  <2> QED
    BY <1>1, <1>2, <1>4, <2>1, <2>2, <2>3, FewerKept DEF PortInv
<1>10. ASSUME NEW c \in Callers, ResumeUnmasks(c) PROVE PortInv'
  <2>1. /\ Fewer /\ saved' = saved /\ Goto(c, "unmask", "in") /\ open[c] # <<>>
        /\ \E others \in SUBSET Callers : Close(c, others)
    BY <1>1, <1>10, StepsFewer, GotoAlone DEF ResumeUnmasks, Resume_uC, Nested
  <2>2. /\ Len(open'[c]) = Len(open[c]) - 1 /\ Len(open[c]) \in Nat
        /\ \A i \in 1 .. Len(open[c]) - 1 : open'[c][i] = open[c][i]
        /\ \A d \in Callers : d # c => open'[d] = open[d]
    BY <1>1, <2>1, ClosesFewer
  <2>3. Masked'
    BY <1>10, ResumeKeeps
  <2> QED
    BY <1>1, <1>2, <1>3, <1>4, <2>1, <2>2, <2>3, FewerKept DEF PortInv
<1>11. CASE UNCHANGED vars
  <2>1. \A d \in Callers : Within(d)' = Within(d) /\ Opened(d)' = Opened(d)
    BY <1>11 DEF vars, Within, Opened
  <2> QED
    BY <1>1, <1>11, <2>1 DEF vars, PortInv, Masked, Restores, Below, Apart, Keeps
<1> QED
  BY <1>5, <1>6, <1>7, <1>8, <1>9, <1>10, <1>11 DEF Next

LEMMA PortInvariance ==
  ASSUME CountFits
  PROVE  Spec => []PortInv
<1>1. Init => PortInv
  <2>1. SUFFICES ASSUME Init PROVE PortInv
    OBVIOUS
  <2>2. \A c \in Callers : Len(open[c]) = 0 /\ Within(c) = 0 /\ Opened(c) = 0
    BY <2>1 DEF Init, Within, Opened
  <2> QED
    BY <2>2 DEF PortInv, Masked, Restores, Below, Apart
<1>2. ServicesInv /\ PortInv /\ [Next]_vars => PortInv'
  BY NextPort
<1> QED
  BY <1>1, <1>2, ServicesInvariance, PTL DEF Spec

(* While a caller is inside a section, what the section keeps out is       *)
(* disabled, however the pairs nest and whichever handlers open and close  *)
(* their own in the window of a count or over a saved status, but for the  *)
(* sections of SuspendOSInterrupts that the EnableAllInterrupts of a       *)
(* handler has opened (osek.c:426-433, 490-497, 520-524, 550-557,          *)
(* 581-585).                                                               *)
THEOREM SectionsProtect ==
  ASSUME CountFits
  PROVE  Spec => []Protected
<1>1. ASSUME ServicesInv, PortInv PROVE Protected
  <2>1. SUFFICES ASSUME NEW c \in Callers, NEW s \in Inside(c)
                 PROVE  Disables(s) \subseteq status \/ (s = "SuspendOS" /\ c \in opened)
    BY DEF Protected
  <2>2. open[c] \in Seq(Services) /\ Len(open[c]) \in Nat
    BY <1>1, LenProperties DEF ServicesInv, Typed
  <2>3. PICK i \in 1 .. Within(c) : s = open[c][i]
    BY <2>2 DEF Inside, Within
  <2>4. Keeps(c, i, status)
    BY <1>1, <2>3 DEF PortInv, Masked
  <2> QED
    BY <2>3, <2>4 DEF Keeps
<1> QED
  BY <1>1, ServicesInvariance, PortInvariance, PTL
=============================================================================
