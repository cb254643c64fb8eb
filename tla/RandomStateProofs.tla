------------------------- MODULE RandomStateProofs -------------------------
(***************************************************************************)
(* Proofs about module RandomState, for every number of threads, chains    *)
(* and pages.                                                              *)
(***************************************************************************)
EXTENDS RandomState, NumberFacts

LEMMA SizeFacts ==
  /\ NumThreads \in Nat /\ NumThreads - 1 \in Threads
  /\ Nobody \notin Threads
  /\ Sections \in Nat
<1>1. SectionsPerChain \in Nat /\ Chains \in Nat
  BY SizesAssumption DEF SectionsPerChain
<1>2. Sections \in Nat
  BY <1>1 DEF Sections
<1>3. QED
  BY <1>2, SizesAssumption DEF Threads, Nobody

LEMMA InitIInv == Init => IInv
<1> SUFFICES ASSUME Init PROVE IInv
  OBVIOUS
<1>1. TypeOK
  BY SizeFacts DEF Init, TypeOK
<1>2. MutexInv /\ StreamInv /\ OwnStream
  BY DEF Init, MutexInv, StreamInv, OwnStream, Inside
<1>3. QED
  BY <1>1, <1>2 DEF IInv

(* A thread whose own state is selected draws the next number of its own   *)
(* stream.                                                                 *)
LEMMA DrawStep ==
  ASSUME IInv, NEW t \in Threads, Draw(t), current = t
  PROVE  /\ position' \in [Threads -> Nat]
         /\ drawn' \in [Threads -> Seq(Threads \X Nat)]
         /\ StreamInv' /\ OwnStream'
         /\ \A u \in Threads : u # t => position'[u] = position[u]
<1>1. /\ position \in [Threads -> Nat] /\ drawn \in [Threads -> Seq(Threads \X Nat)]
      /\ position[t] = Len(drawn[t])
  BY DEF IInv, TypeOK, StreamInv
<1>2. drawn' = [drawn EXCEPT ![t] = Append(drawn[t], <<t, position[t]>>)]
      /\ position' = [position EXCEPT ![t] = position[t] + 1]
  BY DEF Draw
<1>3. /\ position' \in [Threads -> Nat]
      /\ drawn' \in [Threads -> Seq(Threads \X Nat)]
  BY <1>1, <1>2
<1>4. /\ Len(drawn'[t]) = Len(drawn[t]) + 1
      /\ drawn'[t][Len(drawn[t]) + 1] = <<t, position[t]>>
      /\ \A k \in 1 .. Len(drawn[t]) : drawn'[t][k] = drawn[t][k]
      /\ Len(drawn[t]) \in Nat
  BY <1>1, <1>2
<1>5. \A u \in Threads : u # t => drawn'[u] = drawn[u] /\ position'[u] = position[u]
  BY <1>1, <1>2
<1>6. StreamInv'
  BY <1>1, <1>2, <1>4, <1>5 DEF IInv, StreamInv
<1>7. ASSUME NEW u \in Threads, NEW k \in 1 .. Len(drawn'[u])
      PROVE  drawn'[u][k] = <<u, k - 1>>
  <2>1. CASE u # t
    BY <1>5, <1>7, <2>1 DEF IInv, OwnStream
  <2>2. CASE u = t /\ k = Len(drawn[t]) + 1
    BY <1>1, <1>4, <2>2
  <2>3. CASE u = t /\ k # Len(drawn[t]) + 1
    <3>1. k \in 1 .. Len(drawn[t])
      BY <1>4, <1>7, <2>3
    <3>2. QED
      BY <1>4, <2>3, <3>1 DEF IInv, OwnStream
  <2>4. QED
    BY <2>1, <2>2, <2>3
<1>8. QED
  BY <1>3, <1>5, <1>6, <1>7 DEF OwnStream

LEMMA ThreadStep ==
  ASSUME IInv, NEW t \in Threads, Step(t)
  PROVE  IInv'
<1> USE SizeFacts DEF Inside
<1>0. TypeOK /\ MutexInv /\ StreamInv /\ OwnStream
  BY DEF IInv
<1>1. CASE Lock(t)
  <2>1. TypeOK'
    BY <1>0, <1>1 DEF TypeOK, Lock, Goto
  <2>2. MutexInv'
    BY <1>0, <1>1 DEF TypeOK, MutexInv, Lock, Goto
  <2>3. QED
    BY <1>0, <1>1, <2>1, <2>2 DEF IInv, Lock, StreamInv, OwnStream
<1>2. CASE SetState(t)
  <2>1. TypeOK'
    BY <1>0, <1>2 DEF TypeOK, SetState, Goto
  <2>2. MutexInv'
    BY <1>0, <1>2 DEF TypeOK, MutexInv, SetState, Goto
  <2>3. QED
    BY <1>0, <1>2, <2>1, <2>2 DEF IInv, SetState, StreamInv, OwnStream
<1>3. CASE DrawFactor(t) \/ DrawOffset(t)
  <2>1. current = t /\ Draw(t)
    BY <1>0, <1>3 DEF MutexInv, DrawFactor, DrawOffset, Goto
  <2>2. /\ position' \in [Threads -> Nat]
        /\ drawn' \in [Threads -> Seq(Threads \X Nat)]
        /\ StreamInv' /\ OwnStream'
    BY <2>1, DrawStep
  <2>3. TypeOK'
    BY <1>0, <1>3, <2>2 DEF TypeOK, DrawFactor, DrawOffset, Goto
  <2>4. MutexInv'
    BY <1>0, <1>3 DEF TypeOK, MutexInv, DrawFactor, DrawOffset, Goto
  <2>5. QED
    BY <2>2, <2>3, <2>4 DEF IInv
<1>4. CASE StoreOps(t)
  <2>1. TypeOK'
    BY <1>0, <1>4 DEF TypeOK, StoreOps, Goto
  <2>2. MutexInv'
    BY <1>0, <1>4 DEF TypeOK, MutexInv, StoreOps, Goto
  <2>3. QED
    BY <1>0, <1>4, <2>1, <2>2 DEF IInv, StoreOps, StreamInv, OwnStream
<1>5. CASE Unlock(t)
  <2>1. section[t] \in 0 .. Sections /\ section[t] < Sections
    BY <1>0, <1>5 DEF TypeOK, MutexInv, Unlock, Goto
  <2>2. section' = [section EXCEPT ![t] = section[t] + 1]
        /\ section[t] + 1 \in 0 .. Sections
    BY <1>5, <2>1 DEF Unlock
  <2>3. TypeOK'
    BY <1>0, <1>5, <2>2 DEF TypeOK, Unlock, Goto
  <2>4. MutexInv'
    BY <1>0, <1>5, <2>2 DEF TypeOK, MutexInv, Unlock, Goto
  <2>5. QED
    BY <1>0, <1>5, <2>3, <2>4 DEF IInv, Unlock, StreamInv, OwnStream
<1>6. QED
  BY <1>1, <1>2, <1>3, <1>4, <1>5 DEF Step

LEMMA StepIInv == IInv /\ [Next]_vars => IInv'
<1> SUFFICES ASSUME IInv, [Next]_vars PROVE IInv'
  OBVIOUS
<1>1. CASE UNCHANGED vars
  BY <1>1 DEF IInv, TypeOK, MutexInv, StreamInv, OwnStream, vars
<1>2. CASE Next
  BY <1>1, <1>2, ThreadStep DEF Next, Done
<1>3. QED
  BY <1>1, <1>2

(* The mutex, the selected state and the positions of the streams agree.   *)
THEOREM StateInvariant == Spec => []IInv
BY InitIInv, StepIInv, PTL DEF Spec

(* Holder, selected state and sections keep their types, for any number of *)
(* threads, chains and pages.                                              *)
THEOREM TypeCorrect == Spec => []TypeOK
BY StateInvariant, PTL DEF IInv

(* Every thread draws its own stream in order, for any interleaving of any *)
(* number of threads.                                                      *)
THEOREM ThreadsDrawTheirOwn == Spec => []OwnStream
BY StateInvariant, PTL DEF IInv

(* A stream moves under the mutex only, and the selected state stays       *)
(* selected until both numbers are drawn.                                  *)
THEOREM StreamsAreGuarded == Spec => StreamGuarded
<1> DEFINE Guarded ==
      \A t \in Threads :
        /\ position'[t] # position[t] => holder = t
        /\ current' # current => pc[t] \notin {"set", "drew"}
<1>1. ASSUME IInv, Next PROVE Guarded
  <2>1. ASSUME NEW u \in Threads, Step(u) PROVE Guarded
    <3>0. TypeOK /\ MutexInv
      BY <1>1 DEF IInv
    <3>1. CASE DrawFactor(u) \/ DrawOffset(u)
      <4>1. Draw(u) /\ current = u /\ holder = u /\ current' = current
        BY <3>0, <3>1 DEF MutexInv, DrawFactor, DrawOffset, Goto, Inside
      <4>2. \A t \in Threads : t # u => position'[t] = position[t]
        BY <1>1, <4>1, DrawStep
      <4>3. QED
        BY <4>1, <4>2
    <3>2. CASE SetState(u)
      <4>1. holder = u /\ pc[u] = "locked" /\ position' = position
        BY <3>0, <3>2 DEF MutexInv, SetState, Goto, Inside
      <4>2. \A t \in Threads : pc[t] \in {"set", "drew"} => t = u
        BY <3>0, <4>1 DEF MutexInv, Inside
      <4>3. QED
        BY <4>1, <4>2
    <3>3. CASE Lock(u) \/ StoreOps(u) \/ Unlock(u)
      BY <3>3 DEF Lock, StoreOps, Unlock
    <3>4. QED
      BY <2>1, <3>1, <3>2, <3>3 DEF Step
  <2>2. QED
    BY <1>1, <2>1 DEF Next, Done, vars
<1>2. IInv /\ [Next]_vars => [Guarded]_vars
  BY <1>1
<1>3. QED
  BY <1>2, StateInvariant, PTL DEF Spec, StreamGuarded
-----------------------------------------------------------------------------
(* How many numbers are drawn                                              *)

LEMMA StoresAt ==
  ASSUME NEW c \in Nat, NEW k \in 0 .. Pages + 1
  PROVE  StoresOps(SectionsPerChain * c + k) <=> k = Pages + 1
<1>1. SectionsPerChain \in Nat \ {0} /\ SectionsPerChain - 1 = Pages + 1
      /\ c \in Int /\ k \in 0 .. SectionsPerChain - 1
  BY SizesAssumption DEF SectionsPerChain
<1>2. (SectionsPerChain * c + k) % SectionsPerChain = k
  BY <1>1, QuotientRemainder, Zenon
<1> QED  BY <1>2 DEF StoresOps

(* A step of one thread leaves the others where they are.                  *)
LEMMA OthersStay ==
  ASSUME NEW u \in Threads, NEW c \in 0 .. Chains, NEW k \in 0 .. Pages + 1, At(u, c, k),
         pc'[u] = pc[u], section'[u] = section[u], drawn'[u] = drawn[u],
         ops' \in {ops, OpsPerChain}
  PROVE  At(u, c, k)'
BY DEF At, DrawnIn

(* The arithmetic of a section and of the step to the next chain.          *)
LEMMA NextSection ==
  ASSUME NEW p \in Nat, NEW c \in Nat, NEW k \in Nat
  PROVE  /\ 2 * (c * (p + 1) + k) + 2 = 2 * (c * (p + 1) + (k + 1)) + 0
         /\ 2 * (c * (p + 1) + (p + 1)) + 0 = 2 * ((c + 1) * (p + 1) + 0) + 0
         /\ ((p + 2) * c + k) + 1 = (p + 2) * c + (k + 1)
         /\ ((p + 2) * c + (p + 1)) + 1 = (p + 2) * (c + 1) + 0
BY SMT

LEMMA CountStep ==
  ASSUME IInv, CountInv, NEW t \in Threads, Step(t)
  PROVE  CountInv'
<1>1. /\ pc \in [Threads -> Inside \cup {"out"}] /\ section \in [Threads -> 0 .. Sections]
      /\ drawn \in [Threads -> Seq(Threads \X Nat)] /\ MutexInv
  BY DEF IInv, TypeOK
<1>2. /\ pc' = [pc EXCEPT ![t] = pc'[t]] /\ ops' \in {ops, OpsPerChain}
      /\ section' = [section EXCEPT ![t] = section'[t]]
      /\ drawn' = [drawn EXCEPT ![t] = drawn'[t]]
  BY <1>1 DEF Step, Lock, SetState, DrawFactor, DrawOffset, StoreOps, Unlock, Goto, Draw
<1>3. ASSUME NEW u \in Threads, u # t
      PROVE  \E c \in 0 .. Chains, k \in 0 .. Pages + 1 : At(u, c, k)'
  <2>1. PICK c \in 0 .. Chains, k \in 0 .. Pages + 1 : At(u, c, k)
    BY DEF CountInv
  <2>2. pc'[u] = pc[u] /\ section'[u] = section[u] /\ drawn'[u] = drawn[u]
    BY <1>1, <1>2, <1>3
  <2> QED  BY <1>2, <2>1, <2>2, OthersStay
<1>4. PICK c \in 0 .. Chains, k \in 0 .. Pages + 1 : At(t, c, k)
  BY DEF CountInv
<1>5. /\ section[t] = SectionsPerChain * c + k
      /\ Len(drawn[t]) = 2 * (c * (Pages + 1) + k) + DrawnIn(t, k)
      /\ pc[t] \in {"set", "drew"} => k <= Pages
      /\ c > 0 \/ (pc[t] = "leave" /\ k = Pages + 1) => ops = OpsPerChain
      /\ c \in Nat /\ k \in Nat /\ Pages \in Nat /\ Chains \in Nat
      /\ c <= Chains /\ k <= Pages + 1
  BY <1>4, SizesAssumption DEF At
<1>6. StoresOps(section[t]) <=> k = Pages + 1
  BY <1>4, <1>5, StoresAt
<1>7. CASE Lock(t)
  <2>1. /\ pc[t] = "out" /\ pc'[t] = "locked" /\ section' = section /\ drawn' = drawn
        /\ ops' = ops
    BY <1>1, <1>7 DEF Lock, Goto
  <2>2. At(t, c, k)'
    BY <1>5, <2>1 DEF At, DrawnIn
  <2> QED  BY <1>3, <1>4, <2>2 DEF CountInv
<1>8. CASE SetState(t)
  <2>0. k <= Pages
    <3>1. k # Pages + 1
      BY <1>6, <1>8 DEF SetState
    <3>2. \A x, y \in Nat : x <= y + 1 /\ x # y + 1 => x <= y
      OBVIOUS
    <3> QED  BY <1>5, <3>1, <3>2
  <2>1. /\ pc[t] = "locked" /\ pc'[t] = "set" /\ section' = section /\ drawn' = drawn
        /\ ops' = ops /\ k <= Pages
    BY <1>1, <1>8, <2>0 DEF SetState, Goto
  <2>2. At(t, c, k)'
    BY <1>5, <2>1 DEF At, DrawnIn
  <2> QED  BY <1>3, <1>4, <2>2 DEF CountInv
<1>9. CASE DrawFactor(t) \/ DrawOffset(t)
  <2>1. /\ section' = section /\ ops' = ops /\ k <= Pages
        /\ \/ pc[t] = "set" /\ pc'[t] = "drew"
           \/ pc[t] = "drew" /\ pc'[t] = "leave"
    BY <1>1, <1>5, <1>9 DEF DrawFactor, DrawOffset, Goto
  <2>2. Len(drawn'[t]) = Len(drawn[t]) + 1
    <3>1. Draw(t) /\ current = t
      BY <1>1, <1>9 DEF DrawFactor, DrawOffset, MutexInv, Goto
    <3>2. drawn' = [drawn EXCEPT ![t] = Append(drawn[t], <<t, position[t]>>)]
          /\ position[t] \in Nat
      BY <3>1 DEF Draw, IInv, TypeOK
    <3> QED  BY <1>1, <3>2
  <2>3. 2 * (c * (Pages + 1) + k) \in Int
    BY <1>5
  <2>4. Len(drawn'[t]) = 2 * (c * (Pages + 1) + k) + DrawnIn(t, k)'
    <3>1. DrawnIn(t, k)' = DrawnIn(t, k) + 1 /\ DrawnIn(t, k) \in Int
      BY <2>1 DEF DrawnIn
    <3> HIDE DEF DrawnIn
    <3>2. \A x, d \in Int : (x + d) + 1 = x + (d + 1)
      OBVIOUS
    <3> QED  BY <1>5, <2>2, <2>3, <3>1, <3>2
  <2>5. At(t, c, k)'
    BY <1>5, <2>1, <2>4 DEF At
  <2> QED  BY <1>3, <1>4, <2>5 DEF CountInv
<1>10. CASE StoreOps(t)
  <2>1. /\ pc[t] = "locked" /\ pc'[t] = "leave" /\ section' = section /\ drawn' = drawn
        /\ ops' = OpsPerChain /\ k = Pages + 1
    BY <1>1, <1>6, <1>10 DEF StoreOps, Goto
  <2>2. At(t, c, k)'
    BY <1>5, <2>1 DEF At, DrawnIn
  <2> QED  BY <1>3, <1>4, <2>2 DEF CountInv
<1>11. CASE Unlock(t)
  <2>1. /\ pc[t] = "leave" /\ pc'[t] = "out" /\ section'[t] = section[t] + 1
        /\ drawn' = drawn /\ ops' = ops /\ section[t] < Sections
    BY <1>1, <1>11 DEF Unlock, Goto, MutexInv, Inside
  <2>2. CASE k <= Pages
    <3>1. k + 1 \in 0 .. Pages + 1 /\ c \in 0 .. Chains
      BY <1>4, <1>5, <2>2
    <3>2. section'[t] = SectionsPerChain * c + (k + 1)
      BY <1>5, <2>1, NextSection DEF SectionsPerChain
    <3>3. Len(drawn'[t]) = 2 * (c * (Pages + 1) + (k + 1)) + 0
      <4>1. DrawnIn(t, k) = 2
        BY <2>1, <2>2 DEF DrawnIn
      <4> QED  BY <1>5, <2>1, <4>1, NextSection
    <3>4. At(t, c, k + 1)'
      BY <1>5, <2>1, <3>2, <3>3 DEF At, DrawnIn
    <3> QED  BY <1>3, <3>1, <3>4 DEF CountInv
  <2>3. CASE k = Pages + 1
    <3>1. section'[t] = SectionsPerChain * (c + 1) + 0
      BY <1>5, <2>1, <2>3, NextSection DEF SectionsPerChain
    <3>2. Len(drawn'[t]) = 2 * ((c + 1) * (Pages + 1) + 0) + 0
      <4>1. DrawnIn(t, k) = 0
        BY <1>5, <2>1, <2>3 DEF DrawnIn
      <4> QED  BY <1>5, <2>1, <2>3, <4>1, NextSection
    <3>3. c # Chains
      <4>1. SectionsPerChain \in Nat /\ Sections = SectionsPerChain * Chains
        BY SizesAssumption DEF Sections, SectionsPerChain
      <4>2. SectionsPerChain * c \in Nat
        BY <1>5, <4>1
      <4> QED  BY <1>5, <2>1, <4>1, <4>2
    <3>4. c + 1 \in 0 .. Chains /\ 0 \in 0 .. Pages + 1
      <4>1. \A x, y \in Nat : x <= y /\ x # y => x + 1 \in 0 .. y
        OBVIOUS
      <4>2. c + 1 \in 0 .. Chains
        BY <1>5, <3>3, <4>1
      <4> QED  BY <4>2, SizesAssumption
    <3>5. At(t, c + 1, 0)'
      BY <1>5, <2>1, <2>3, <3>1, <3>2 DEF At, DrawnIn
    <3> QED  BY <1>3, <3>4, <3>5 DEF CountInv
  <2> QED  BY <1>4, <1>5, <2>2, <2>3
<1> QED  BY <1>7, <1>8, <1>9, <1>10, <1>11 DEF Step

(* When all chains are linked, every thread has drawn two numbers for each *)
(* chain and two for each page, and the operations are stored.             *)
THEOREM DrawsAreCounted == Spec => []DrawsCounted
<1>1. Init => CountInv
  <2> SUFFICES ASSUME Init, NEW t \in Threads PROVE At(t, 0, 0)
    BY SizesAssumption DEF CountInv
  <2>1. 0 = SectionsPerChain * 0 + 0 /\ 0 = 2 * (0 * (Pages + 1) + 0) + 0
    BY SizesAssumption DEF SectionsPerChain
  <2> QED  BY <2>1 DEF Init, At, DrawnIn
<1>2. ASSUME IInv, CountInv, [Next]_vars PROVE CountInv'
  <2>1. CASE UNCHANGED vars
    BY <1>2, <2>1 DEF CountInv, At, DrawnIn, vars
  <2> QED  BY <1>2, <2>1, CountStep DEF Next, Done
<1>3. ASSUME CountInv PROVE DrawsCounted
  <2>1. SUFFICES ASSUME AllLinked, NEW t \in Threads
                 PROVE  Len(drawn[t]) = Chains * 2 * (Pages + 1) /\ ops = OpsPerChain
    BY SizeFacts DEF DrawsCounted
  <2>2. PICK c \in 0 .. Chains, k \in 0 .. Pages + 1 : At(t, c, k)
    BY <1>3 DEF CountInv
  <2>3. /\ Chains \in Nat /\ Chains > 0 /\ Pages \in Nat
        /\ SectionsPerChain \in Nat \ {0} /\ c \in Int
        /\ k \in 0 .. SectionsPerChain - 1 /\ 0 \in 0 .. SectionsPerChain - 1
    BY <2>2, SizesAssumption DEF SectionsPerChain
  <2>4. SectionsPerChain * c + k = SectionsPerChain * Chains + 0
    <3>1. SectionsPerChain * c + k = Sections
      BY <2>1, <2>2 DEF AllLinked, At
    <3> QED  BY <2>3, <3>1 DEF Sections
  <2>5. c = Chains /\ k = 0
    <3>1. /\ (SectionsPerChain * c + k) \div SectionsPerChain = c
          /\ (SectionsPerChain * c + k) % SectionsPerChain = k
      BY <2>3, QuotientRemainder, Zenon
    <3>2. Chains \in Int
      BY <2>3
    <3>3. /\ (SectionsPerChain * Chains + 0) \div SectionsPerChain = Chains
          /\ (SectionsPerChain * Chains + 0) % SectionsPerChain = 0
      BY <2>3, <3>2, QuotientRemainder, Zenon
    <3> QED  BY <2>4, <3>1, <3>3, Zenon
  <2>6. Len(drawn[t]) = 2 * (Chains * (Pages + 1) + 0) + 0 /\ ops = OpsPerChain
    BY <2>1, <2>2, <2>3, <2>5 DEF AllLinked, At, DrawnIn
  <2> QED  BY <2>3, <2>6
<1> QED  BY <1>1, <1>2, <1>3, StateInvariant, PTL DEF Spec
=============================================================================
