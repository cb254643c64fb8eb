-------------------------- MODULE PlacementProofs --------------------------
(***************************************************************************)
(* Proofs about Placement and Setup: reading a map never leaves the local  *)
(* arrays, whatever the map, the sizes left behind agree, and a thread     *)
(* runs, and has its memory, where the placement says.                     *)
(***************************************************************************)
EXTENDS Setup, NumberFacts, FiniteSetTheorems

(* The place that the loops of alloc_map stop at is within the map, at or  *)
(* after the place they started from.                                      *)
LEMMA FirstInMap ==
  ASSUME TypeOK, NEW kinds
  PROVE  /\ First(kinds) \in p .. Len(req.map) + 1
         /\ Kind(First(kinds)) \in kinds \cup {"end"}
         /\ \A r \in p .. First(kinds) - 1 : Kind(r) \notin kinds
<1> DEFINE N == Len(req.map)
           stops == {q \in p .. N + 1 : Kind(q) \in kinds \cup {"end"}}
<1>1. N \in Nat
  BY DEF TypeOK, Request
<1>2. p \in Nat /\ p <= N + 1
  BY <1>1 DEF TypeOK
<1>3. N + 1 \in stops
  BY <1>1, <1>2 DEF Kind, AtEnd
<1>4. stops \subseteq Nat /\ stops # {}
  BY <1>1, <1>2, <1>3
<1>5. PICK q \in stops : \A r \in stops : q <= r
  BY <1>4, LeastNatural
<1>6. \A r \in p .. q - 1 : Kind(r) \notin kinds
  <2> HIDE DEF N
  <2> SUFFICES ASSUME NEW r \in p .. q - 1, Kind(r) \in kinds PROVE FALSE
    OBVIOUS
  <2>1. r \in p .. N + 1 /\ ~(q <= r)
    BY <1>1, <1>2, <1>5
  <2> QED  BY <2>1, <1>5
<1>7. \E x \in p .. Len(req.map) + 1 :
        /\ Kind(x) \in kinds \cup {"end"}
        /\ \A r \in p .. x - 1 : Kind(r) \notin kinds
  BY <1>5, <1>6
<1> QED  BY <1>7 DEF First

(* The ";" up to any place of the map are finitely many, and no fewer up   *)
(* to a later place.                                                       *)
Before(q) == {r \in 1 .. q - 1 : Kind(r) = "semicolon"}

LEMMA BeforeFinite ==
  ASSUME NEW q \in Nat
  PROVE  IsFiniteSet(Before(q)) /\ Cardinality(Before(q)) \in Nat
<1>1. IsFiniteSet(1 .. q - 1)
  BY FS_Interval
<1> QED  BY <1>1, FS_Subset, FS_CardinalityType DEF Before

LEMMA BeforeMonotone ==
  ASSUME NEW q \in Nat, NEW r \in Nat, q <= r
  PROVE  Cardinality(Before(q)) <= Cardinality(Before(r))
<1>1. Before(q) \subseteq Before(r)
  BY DEF Before
<1> QED  BY <1>1, BeforeFinite, FS_Subset

LEMMA BeforeNext ==
  ASSUME NEW q \in Nat, Kind(q) = "semicolon", q >= 1
  PROVE  Cardinality(Before(q + 1)) = Cardinality(Before(q)) + 1
<1>1. Before(q + 1) = Before(q) \cup {q}
  BY DEF Before
<1>2. q \notin Before(q)
  BY DEF Before
<1> QED  BY <1>1, <1>2, BeforeFinite, FS_AddElement

(* Before the end of the map all ";" are counted by Threads.               *)
LEMMA PassedCounted ==
  ASSUME TypeOK
  PROVE  /\ Cardinality(Passed) \in Nat
         /\ Cardinality(Passed) + 1 <= Threads
         /\ Threads \in Nat \ {0}
<1>1. Len(req.map) \in Nat /\ p \in 1 .. Len(req.map) + 1
  BY DEF TypeOK, Request
<1>2. Passed = Before(p)
  BY DEF Passed, Before
<1>3. {q \in Places : Kind(q) = "semicolon"} = Before(Len(req.map) + 1)
  BY <1>1 DEF Before, Places
<1>4. Threads = 1 + Cardinality(Before(Len(req.map) + 1))
  BY <1>3 DEF Threads
<1>5. /\ Cardinality(Before(p)) \in Nat
      /\ Cardinality(Before(Len(req.map) + 1)) \in Nat
      /\ Cardinality(Before(p)) <= Cardinality(Before(Len(req.map) + 1))
  <2>1. p \in Nat /\ Len(req.map) + 1 \in Nat /\ p <= Len(req.map) + 1
    BY <1>1
  <2> QED  BY <2>1, BeforeFinite, BeforeMonotone
<1> QED  BY <1>2, <1>4, <1>5

LEMMA ChainsPositive ==
  ASSUME req \in Request
  PROVE  Chains \in Nat \ {0}
<1>1. IsFiniteSet(Places)
  BY FS_Interval DEF Request, Places
<1> DEFINE commas ==
      {q \in Places : Kind(q) = "comma" /\ \A r \in 1 .. q : Kind(r) # "semicolon"}
<1>2. Cardinality(commas) \in Nat
  BY <1>1, FS_Subset, FS_CardinalityType
<1>3. Chains = 1 + Cardinality(commas)
  BY DEF Chains
<1> HIDE DEF commas
<1> QED  BY <1>2, <1>3

(* The map stays the same, and with it what is counted in it.              *)
LEMMA SameMap ==
  ASSUME req' = req
  PROVE  /\ Threads' = Threads /\ Chains' = Chains
         /\ \A q : Kind(q)' = Kind(q) /\ Before(q)' = Before(q) /\ AtEnd(q)' = AtEnd(q)
  BY DEF Threads, Chains, Kind, Places, AtEnd, Before

LEMMA InitInvariant == Init => IInv
<1> SUFFICES ASSUME Init PROVE IInv
  OBVIOUS
<1>1. req \in Request /\ Len(req.map) \in Nat
  BY RequestAssumption DEF Init, Request
<1>2. TypeOK
  <2>1. Chains \in Nat
    BY <1>1, ChainsPositive
  <2>2. req.threads \in Nat \ {0} /\ req.chains \in Nat \ {0}
    BY <1>1 DEF Request
  <2>3. req.threads * req.chains \in Nat
    BY <2>2
  <2> QED  BY <1>1, <2>1, <2>2, <2>3 DEF TypeOK, Init
<1>3. WalkInv
  BY <1>2, PassedCounted DEF WalkInv, Init
<1> QED
  BY <1>1, <1>2, <1>3 DEF IInv, Init, BeginInv, SizeInv, SizesAgree

(* One step for each action; the walk through the map moves p forward.     *)
LEMMA StepInvariant == IInv /\ [Next]_vars => IInv'
<1> SUFFICES ASSUME IInv, [Next]_vars PROVE IInv'
  OBVIOUS
<1> USE DEF IInv
<1>1. req' = req
  BY DEF Next, vars, AllocLocal, AllocXor, AllocAdd, Alloc, CountDescriptors,
         ReadThread, ReadChain, Malformed, NextThread, Install, Finished
<1>2. /\ Threads' = Threads /\ Chains' = Chains
      /\ \A q : Kind(q)' = Kind(q) /\ Before(q)' = Before(q) /\ AtEnd(q)' = AtEnd(q)
  BY <1>1, SameMap
<1>3. Chains \in Nat \ {0}
  BY ChainsPositive DEF TypeOK
<1>4. /\ Cardinality(Passed) \in Nat
      /\ Cardinality(Passed) + 1 <= Threads
      /\ Threads \in Nat \ {0}
  BY PassedCounted
<1>5. Passed = Before(p) /\ Passed' = Before(p')
  BY <1>1 DEF Passed, Before, Kind, AtEnd
<1>6. Len(req.map) \in Nat /\ p \in 1 .. Len(req.map) + 1
  BY DEF TypeOK, Request
<1>7. ASSUME NEW kind, NEW homes, Alloc(kind, homes) PROVE IInv'
  BY <1>7, <1>1, <1>2
     DEF Alloc, TypeOK, BeginInv, WalkInv, SizeInv, SizesAgree, walkVars, Upto
<1>8. CASE CountDescriptors
  BY <1>8, <1>1, <1>2, <1>4, <1>5
     DEF CountDescriptors, TypeOK, BeginInv, WalkInv, SizeInv, SizesAgree, resultVars
<1>9. CASE ReadThread
  <2> DEFINE q == First({"colon"})
  <2>1. q \in p .. Len(req.map) + 1 /\ Kind(q) \in {"colon", "end"}
    BY FirstInMap
  <2>2. p' = IF Kind(q) = "colon" THEN q + 1 ELSE q
    BY <1>9 DEF ReadThread
  <2>3. Kind(q) = "colon" => q <= Len(req.map)
    BY <2>1, <1>6 DEF Kind, AtEnd
  <2> HIDE DEF q
  <2>4. p' \in 1 .. Len(req.map) + 1 /\ p <= p'
    BY <2>1, <2>2, <2>3, <1>6
  <2>5. Cardinality(Before(p)) <= Cardinality(Before(p'))
        /\ Cardinality(Before(p')) \in Nat
    BY <2>4, <1>6, BeforeMonotone, BeforeFinite
  <2>6. /\ phase = "thread" /\ phase' = "chains" /\ c' = 0 /\ t' = t
        /\ UNCHANGED <<threads, chains, seeded, testSize>>
    BY <1>9 DEF ReadThread, resultVars
  <2>7. TypeOK'
    BY <2>4, <2>6, <1>1, <1>2, <1>3 DEF TypeOK
  <2>8. WalkInv'
    BY <2>5, <2>6, <1>4, <1>5 DEF WalkInv, TypeOK
  <2> QED
    BY <2>6, <2>7, <2>8 DEF BeginInv, SizeInv, SizesAgree
<1>10. CASE ReadChain
  <2> DEFINE q == First({"comma", "semicolon"})
  <2>1. q \in p .. Len(req.map) + 1 /\ Kind(q) \in {"comma", "semicolon", "end"}
    BY FirstInMap
  <2>2. p' = IF Kind(q) = "comma" THEN q + 1 ELSE q
    BY <1>10 DEF ReadChain
  <2>3. Kind(q) = "comma" => q <= Len(req.map)
    BY <2>1, <1>6 DEF Kind, AtEnd
  <2> HIDE DEF q
  <2>4. p' \in 1 .. Len(req.map) + 1 /\ p <= p'
    BY <2>1, <2>2, <2>3, <1>6
  <2>5. Cardinality(Before(p)) <= Cardinality(Before(p'))
        /\ Cardinality(Before(p')) \in Nat
    BY <2>4, <1>6, BeforeMonotone, BeforeFinite
  <2>6. /\ phase = "chains" /\ phase' = "chains" /\ c' = c + 1 /\ t' = t
        /\ c < Chains
        /\ UNCHANGED <<threads, chains, seeded, testSize>>
    BY <1>10 DEF ReadChain, resultVars
  <2>7. TypeOK'
    BY <2>4, <2>6, <1>1, <1>2, <1>3 DEF TypeOK
  <2>8. WalkInv'
    BY <2>5, <2>6, <1>4, <1>5 DEF WalkInv, TypeOK
  <2> QED
    BY <2>6, <2>7, <2>8 DEF BeginInv, SizeInv, SizesAgree
<1>11. CASE Malformed
  BY <1>11, <1>1, <1>2
     DEF Malformed, TypeOK, BeginInv, WalkInv, SizeInv, SizesAgree, walkVars,
         resultVars
<1>12. CASE NextThread
  <2>1. /\ phase = "chains" /\ phase' \in {"install", "thread"}
        /\ phase' = "thread" => ~AtEnd(p')
        /\ c' = c /\ UNCHANGED <<threads, chains, seeded, testSize>>
    BY <1>12 DEF NextThread, resultVars
  <2>2. CASE AtEnd(p)
    <3>1. p' = p /\ t' = t
      BY <1>12, <2>2 DEF NextThread
    <3> QED
      BY <2>1, <3>1, <1>1, <1>2, <1>5
         DEF TypeOK, BeginInv, WalkInv, SizeInv, SizesAgree
  <2>3. CASE ~AtEnd(p)
    <3>1. p' = p + 1 /\ t' = t + 1 /\ Kind(p) = "semicolon"
      <4>1. p' = p + 1 /\ t' = t + 1 /\ Kind(p) \in {"end", "semicolon"}
        BY <1>12, <2>3 DEF NextThread
      <4>2. p \in 1 .. Len(req.map) /\ req.map \in Seq(Token)
        BY <2>3, <1>6 DEF AtEnd, TypeOK, Request
      <4>3. req.map[p] \in Token
        BY <4>2
      <4>4. Kind(p) # "end"
        BY <2>3, <4>3 DEF Kind, Token
      <4> QED  BY <4>1, <4>4
    <3>2. p' \in 1 .. Len(req.map) + 1
      BY <3>1, <2>3, <1>6 DEF AtEnd
    <3>3. Cardinality(Before(p')) = Cardinality(Before(p)) + 1
      BY <3>1, <1>6, BeforeNext
    <3>4. TypeOK'
      BY <2>1, <3>1, <3>2, <1>1, <1>2 DEF TypeOK
    <3>5. WalkInv'
      BY <2>1, <3>1, <3>3, <1>4, <1>5 DEF WalkInv, TypeOK
    <3> QED
      BY <2>1, <3>4, <3>5, <1>2 DEF BeginInv, SizeInv, SizesAgree
  <2> QED  BY <2>2, <2>3
<1>13. CASE Install
  <2>1. Threads * Chains \in Nat
    BY <1>3, <1>4
  <2>2. TypeOK'
    BY <1>13, <2>1, <1>1, <1>2, <1>3, <1>4 DEF Install, TypeOK, walkVars, Upto
  <2>3. SizesAgree'
    BY <1>13 DEF Install, SizesAgree, Upto
  <2> QED
    BY <1>13, <2>2, <2>3 DEF Install, BeginInv, WalkInv, SizeInv
<1>14. CASE UNCHANGED vars
  BY <1>14, <1>1, <1>2, <1>5
     DEF vars, TypeOK, BeginInv, WalkInv, SizeInv, SizesAgree, Upto
<1> QED
  BY <1>7, <1>8, <1>9, <1>10, <1>11, <1>12, <1>13, <1>14
     DEF Next, AllocLocal, AllocXor, AllocAdd, Finished

(* While the map is read, t is one of the threads counted.                 *)
LEMMA ThreadInBounds == IInv => WritesInBounds
<1> SUFFICES ASSUME IInv, phase \in {"thread", "chains"}
             PROVE  t \in 0 .. Threads - 1
  BY DEF WritesInBounds, Upto
<1>1. /\ Cardinality(Passed) \in Nat
      /\ Cardinality(Passed) + 1 <= Threads
      /\ Threads \in Nat
  BY PassedCounted DEF IInv
<1>2. t \in Nat /\ t <= Cardinality(Passed)
  BY DEF IInv, WalkInv, TypeOK
<1> QED  BY <1>1, <1>2

(* The invariant holds of every behaviour of the placement.                *)
THEOREM PlacementInvariant == Spec => []IInv
  BY InitInvariant, StepInvariant, PTL DEF Spec

(* The walk of alloc_map stays in the map and its counters in their        *)
(* ranges, for every request.                                              *)
THEOREM TypeCorrect == Spec => []TypeOK
  BY PlacementInvariant, PTL DEF IInv

(* Whatever the map, well-formed or not, experiment.cpp:668 writes within  *)
(* the array of thread domains.                                            *)
THEOREM MapStaysInBounds == Spec => []WritesInBounds
  BY ThreadInBounds, PlacementInvariant, PTL

(* The arrays, the random states and the size of the test are those of the *)
(* threads that will run, whether the options or a map determine them.     *)
THEOREM SizesAlwaysAgree == Spec => []SizesAgree
<1>1. IInv => SizesAgree
  BY DEF IInv
<1> QED  BY <1>1, PlacementInvariant, PTL

-----------------------------------------------------------------------------
(* What is read from the map                                               *)

(* The loops that look for a separator stop at the first one.              *)
LEMMA EndKind ==
  ASSUME TypeOK, NEW q \in Nat, q >= 1
  PROVE  Kind(q) = "end" <=> AtEnd(q)
<1>1. CASE ~AtEnd(q)
  <2>1. q \in 1 .. Len(req.map) /\ req.map \in Seq(Token)
    BY <1>1 DEF AtEnd, TypeOK, Request
  <2>2. req.map[q] \in Token
    BY <2>1
  <2> QED  BY <1>1, <2>2 DEF Kind, Token
<1>2. CASE AtEnd(q)
  BY <1>2 DEF Kind
<1> QED  BY <1>1, <1>2

LEMMA FirstIs ==
  ASSUME TypeOK, NEW kinds, NEW q \in p .. Len(req.map) + 1,
         Kind(q) \in kinds \cup {"end"},
         \A r \in p .. q - 1 : Kind(r) \notin kinds \cup {"end"}
  PROVE  First(kinds) = q
<1> DEFINE f == First(kinds)
           N == Len(req.map)
<1>1. /\ f \in p .. N + 1 /\ Kind(f) \in kinds \cup {"end"}
      /\ \A r \in p .. f - 1 : Kind(r) \notin kinds
  BY FirstInMap
<1>2. N \in Nat /\ p \in Nat /\ p >= 1
  BY DEF TypeOK, Request
<1> HIDE DEF f
<1>3. CASE f < q
  <2>1. f \in p .. q - 1
    BY <1>1, <1>2, <1>3
  <2> QED  BY <1>1, <2>1
<1>4. CASE q < f
  <2>1. q \in p .. f - 1 /\ q \in Nat /\ q >= 1 /\ ~(q > N)
    BY <1>1, <1>2, <1>4
  <2>2. Kind(q) = "end"
    BY <1>1, <2>1
  <2> QED  BY <2>1, <2>2, EndKind DEF AtEnd
<1>5. f \in Int /\ q \in Int
  BY <1>1, <1>2
<1> QED  BY <1>3, <1>4, <1>5 DEF f

(* Rows of equal width.                                                    *)
LEMMA Rows ==
  ASSUME NEW n \in Nat, NEW w \in Nat \ {0}, NEW i \in 0 .. n - 1
  PROVE  /\ i * w \in Nat /\ n * w \in Nat /\ (i + 1) * w = i * w + w
         /\ i * w + w <= n * w
         /\ i # n - 1 => i * w + 2 * w <= n * w
         /\ i = n - 1 => i * w + w = n * w
<1>1. \A a, b \in Nat : a <= b => a * w <= b * w
  OBVIOUS
<1>2. i \in Nat /\ i + 1 <= n /\ (i # n - 1 => i + 2 <= n)
  OBVIOUS
<1>3. i * w \in Nat /\ n * w \in Nat /\ (i + 1) * w = i * w + w /\ (i + 2) * w = i * w + 2 * w
  BY <1>2
<1>4. (i + 1) * w <= n * w
  BY <1>1, <1>2
<1>5. i # n - 1 => (i + 2) * w <= n * w
  BY <1>1, <1>2
<1>6. i = n - 1 => (i + 1) * w = n * w
  BY <1>2
<1> QED  BY <1>3, <1>4, <1>5, <1>6

LEMMA WidthFacts ==
  ASSUME TypeOK
  PROVE  /\ Chains \in Nat /\ Chains >= 1 /\ Threads \in Nat /\ Threads >= 1
         /\ Width = 2 * Chains + 1 /\ Width \in Nat /\ Width >= 3
BY ChainsPositive, PassedCounted DEF Width, TypeOK

(* Token z of thread i in a well-formed map; the last one may be the end.  *)
Place(i, z) == i * (Width + 1) + 1 + z

LEMMA TokenAt ==
  ASSUME TypeOK, WellFormed, NEW i \in Upto(Threads), NEW z \in 0 .. Width
  PROVE  /\ Place(i, z) \in 1 .. Len(req.map) + 1
         /\ z < Width => ~AtEnd(Place(i, z))
         /\ ~AtEnd(Place(i, z)) => Kind(Place(i, z)) = Expected(z)
         /\ z = Width => (AtEnd(Place(i, z)) <=> i = Threads - 1)
<1> DEFINE w == Width + 1
           a == i * w
<1>1. /\ w \in Nat \ {0} /\ Width \in Nat /\ Threads \in Nat /\ i \in 0 .. Threads - 1
      /\ Width = w - 1
  BY WidthFacts DEF Upto
<1>2. Len(req.map) = Threads * w - 1
      /\ \A q \in Places : Kind(q) = Expected((q - 1) % w)
  BY DEF WellFormed
<1>3. Place(i, z) = a + 1 + z
  BY DEF Place
<1> HIDE DEF w
<1>4. /\ a \in Nat /\ Threads * w \in Nat /\ a + w <= Threads * w
      /\ i # Threads - 1 => a + 2 * w <= Threads * w
      /\ i = Threads - 1 => a + w = Threads * w
  BY <1>1, Rows
<1>5. (a + z) % w = z
  <2>1. a + z = w * i + z /\ z \in 0 .. w - 1 /\ i \in Int
    BY <1>1
  <2> QED  BY <1>1, <2>1, QuotientRemainder
<1> HIDE DEF a
<1>6. PICK n \in Nat : n = Threads * w
  BY <1>4
<1>7. Place(i, z) \in 1 .. Len(req.map) + 1
  BY <1>1, <1>2, <1>3, <1>4, <1>6
<1>8. z < Width => ~AtEnd(Place(i, z))
  BY <1>1, <1>2, <1>3, <1>4, <1>6 DEF AtEnd
<1>9. z = Width => (AtEnd(Place(i, z)) <=> i = Threads - 1)
  BY <1>1, <1>2, <1>3, <1>4, <1>6 DEF AtEnd
<1>10. ASSUME ~AtEnd(Place(i, z)) PROVE Kind(Place(i, z)) = Expected(z)
  <2>1. Place(i, z) \in Places
    BY <1>2, <1>6, <1>7, <1>10 DEF AtEnd, Places
  <2>2. Place(i, z) - 1 = a + z
    BY <1>1, <1>3, <1>4
  <2> QED  BY <1>2, <1>5, <2>1, <2>2
<1> QED  BY <1>7, <1>8, <1>9, <1>10

(* The kinds that are expected.                                            *)
LEMMA ExpectedKinds ==
  ASSUME TypeOK
  PROVE  /\ Expected(0) = "num" /\ Expected(1) = "colon" /\ Expected(Width) = "semicolon"
         /\ \A j \in Upto(Chains) : Expected(2 + 2 * j) = "num"
         /\ \A j \in Upto(Chains) : 2 + 2 * j + 1 # Width => Expected(2 + 2 * j + 1) = "comma"
<1>1. /\ Chains \in Nat /\ Chains >= 1 /\ Width = 2 * Chains + 1
  BY WidthFacts
<1>2. ASSUME NEW j \in Upto(Chains)
      PROVE  /\ Expected(2 + 2 * j) = "num"
             /\ 2 + 2 * j + 1 # Width => Expected(2 + 2 * j + 1) = "comma"
  <2>1. j \in Nat /\ j < Chains
    BY <1>1 DEF Upto
  <2>2. /\ 2 + 2 * j # Width /\ 2 + 2 * j # 1 /\ (2 + 2 * j) % 2 = 0
        /\ 2 + 2 * j + 1 # 1 /\ (2 + 2 * j + 1) % 2 # 0
    BY <1>1, <2>1
  <2> QED  BY <2>2 DEF Expected
<1> QED  BY <1>1, <1>2 DEF Expected

LEMMA ParseNat ==
  ASSUME TypeOK, NEW q PROVE ParseNumber(q) \in Nat
<1>1. ASSUME Kind(p) = "num" PROVE req.map[p].value \in Nat
  <2>1. p \in 1 .. Len(req.map) /\ req.map \in Seq(Token)
    BY <1>1 DEF Kind, AtEnd, TypeOK, Request
  <2>2. req.map[p] \in Token
    BY <2>1
  <2> QED  BY <2>2 DEF Token
<1> QED  BY <1>1 DEF ParseNumber

(* An int holds the number, if it is not too large.                        *)
LEMMA NarrowFacts ==
  ASSUME NEW n \in Nat
  PROVE  Narrow(n) \in Int /\ (n <= MaxInt => Narrow(n) = n)
<1>1. PICK m \in Nat \ {0} : m = 2 * (MaxInt + 1) /\ MaxInt < m /\ MaxInt \in Nat
  BY DomainsAssumption
<1>2. n % m \in Nat
  BY <1>1
<1>3. ASSUME n <= MaxInt PROVE n % m = n
  <2>1. n \in 0 .. m - 1 /\ m * 0 + n = n
    BY <1>1, <1>3
  <2> QED  BY <2>1, QuotientRemainder
<1> QED  BY <1>1, <1>2, <1>3 DEF Narrow

LEMMA RequestKept == [Next]_vars => req' = req
  BY DEF Next, vars, AllocLocal, AllocXor, AllocAdd, Alloc, CountDescriptors,
         ReadThread, ReadChain, Malformed, NextThread, Install, Finished

(* The numbers of a well-formed map fit an int.                            *)
LEMMA NumberFits ==
  ASSUME TypeOK, WellFormed, Kind(p) = "num"
  PROVE  Narrow(req.map[p].value) = req.map[p].value
<1>1. p \in 1 .. Len(req.map) /\ req.map \in Seq(Token)
  BY DEF Kind, AtEnd, TypeOK, Request
<1>2. req.map[p] \in Token /\ req.map[p].value \in Nat
  <2>1. req.map[p] \in Token
    BY <1>1
  <2> QED  BY <2>1 DEF Token
<1>3. req.map[p].value <= MaxInt
  BY <1>1 DEF WellFormed, Places
<1> QED  BY <1>2, <1>3, NarrowFacts

LEMMA LocalStep == IInv /\ LocalInv /\ [Next]_vars => LocalInv'
<1> SUFFICES ASSUME IInv, LocalInv, [Next]_vars PROVE LocalInv'
  OBVIOUS
<1>1. req' = req /\ Threads' = Threads /\ Chains' = Chains /\ TypeOK
  BY RequestKept, SameMap DEF IInv
<1>2. ASSUME NEW kind, NEW homes, Alloc(kind, homes) PROVE LocalInv'
  BY <1>2 DEF Alloc, LocalInv
<1>3. CASE CountDescriptors
  <2>1. Unset \in Int
    BY DomainsAssumption DEF Unset
  <2> QED  BY <1>1, <1>3, <2>1 DEF CountDescriptors, LocalInv, Upto
<1>4. CASE ReadThread
  <2>1. t \in Upto(Threads) /\ Narrow(ParseNumber(First({"colon"}))) \in Int
    BY <1>1, <1>4, ThreadInBounds, ParseNat, NarrowFacts DEF ReadThread, WritesInBounds
  <2>2. /\ phase = "thread" /\ localChain' = localChain
        /\ localThread' = [localThread EXCEPT ![t] = Narrow(ParseNumber(First({"colon"})))]
    BY <1>4 DEF ReadThread
  <2> QED  BY <1>1, <2>1, <2>2 DEF LocalInv, Upto
<1>5. CASE ReadChain
  <2> DEFINE v == Narrow(ParseNumber(First({"comma", "semicolon"})))
  <2>1. v \in Int
    BY <1>1, ParseNat, NarrowFacts
  <2>2. /\ phase = "chains" /\ localThread' = localThread
        /\ localChain' = [localChain EXCEPT ![t] = [localChain[t] EXCEPT ![c] = v]]
    BY <1>5 DEF ReadChain
  <2> HIDE DEF v
  <2>3. /\ localThread \in [Upto(Threads) -> Int]
        /\ localChain \in [Upto(Threads) -> [Upto(Chains) -> Int]]
        /\ req.kind = "map"
    BY <2>2 DEF LocalInv
  <2>4. t \in Upto(Threads) => localChain[t] \in [Upto(Chains) -> Int]
    BY <2>3
  <2>5. t \in Upto(Threads) =>
          [localChain[t] EXCEPT ![c] = v] \in [Upto(Chains) -> Int]
    BY <2>1, <2>4
  <2>6. localChain' \in [Upto(Threads) -> [Upto(Chains) -> Int]]
    BY <2>2, <2>3, <2>5
  <2> QED  BY <1>1, <2>2, <2>3, <2>6 DEF LocalInv, Upto
<1>6. CASE Malformed \/ NextThread \/ Install
  BY <1>1, <1>6 DEF Malformed, NextThread, Install, LocalInv, Upto, walkVars
<1>7. CASE UNCHANGED vars
  BY <1>1, <1>7 DEF LocalInv, Upto, vars
<1> QED
  BY <1>2, <1>3, <1>4, <1>5, <1>6, <1>7 DEF Next, AllocLocal, AllocXor, AllocAdd, Finished

(* What a step that keeps the request and the local arrays keeps.          *)
LEMMA SameRows ==
  ASSUME req' = req
  PROVE  /\ WellFormed' = WellFormed /\ Width' = Width
         /\ \A i : localThread'[i] = localThread[i] => ThreadRead(i)' = ThreadRead(i)
         /\ \A i, j : localChain'[i][j] = localChain[i][j] => ChainRead(i, j)' = ChainRead(i, j)
BY SameMap DEF WellFormed, Width, Places, Expected, ThreadRead, ChainRead

LEMMA MapStep == IInv /\ LocalInv /\ MapInv /\ [Next]_vars => MapInv'
<1> SUFFICES ASSUME IInv, LocalInv, MapInv, [Next]_vars PROVE MapInv'
  OBVIOUS
<1>1. /\ req' = req /\ Threads' = Threads /\ Chains' = Chains /\ TypeOK
      /\ WellFormed' = WellFormed /\ Width' = Width
      /\ \A i : localThread'[i] = localThread[i] => ThreadRead(i)' = ThreadRead(i)
      /\ \A i, j : localChain'[i][j] = localChain[i][j] => ChainRead(i, j)' = ChainRead(i, j)
  BY RequestKept, SameMap, SameRows DEF IInv
<1>2. SUFFICES ASSUME req.kind = "map", WellFormed PROVE MapInv'
  BY <1>1 DEF MapInv
<1>3. /\ Chains \in Nat /\ Chains >= 1 /\ Threads \in Nat /\ Threads >= 1
      /\ Width = 2 * Chains + 1 /\ Width \in Nat /\ Width >= 3
      /\ t \in Nat /\ c \in 0 .. Chains /\ p \in Nat /\ p >= 1
  BY <1>1, WidthFacts DEF TypeOK, Request
<1>4. phase \in {"thread", "chains"} => t \in Upto(Threads)
  BY ThreadInBounds DEF WritesInBounds
<1>5. ASSUME localThread' = localThread, localChain' = localChain
      PROVE  /\ \A i : ThreadRead(i)' = ThreadRead(i)
             /\ \A i, j : ChainRead(i, j)' = ChainRead(i, j)
             /\ \A i : AllRead(i) => AllRead(i)'
  BY <1>1, <1>5 DEF AllRead, Upto
<1>6. /\ phase # "exit"
      /\ phase = "thread" => p = Place(t, 0)
      /\ phase = "chains" =>
           /\ p = Place(t, IF c = Chains THEN Width ELSE 2 + 2 * c)
           /\ ThreadRead(t) /\ \A j \in Upto(c) : ChainRead(t, j)
      /\ phase \in {"thread", "chains"} => \A i \in Upto(t) : AllRead(i)
      /\ phase = "install" => \A i \in Upto(Threads) : AllRead(i)
  <2>1. t * (Width + 1) \in Int
    BY <1>3
  <2>2. Place(t, 0) = t * (Width + 1) + 1
    BY <2>1 DEF Place
  <2> QED  BY <1>2, <2>2 DEF MapInv, Place
<1>7. (* Enough for each action.                                           *)
      ASSUME phase' # "exit",
             phase' = "thread" => p' = Place(t', 0),
             phase' = "chains" =>
               /\ p' = Place(t', IF c' = Chains THEN Width ELSE 2 + 2 * c')
               /\ ThreadRead(t)' /\ \A j \in Upto(c') : ChainRead(t, j)',
             phase' \in {"thread", "chains"} => \A i \in Upto(t') : AllRead(i)',
             phase' = "install" => \A i \in Upto(Threads) : AllRead(i)'
      PROVE  MapInv'
  <2>1. phase' = "thread" => p' = t' * (Width + 1) + 1
    <3>1. CASE t' \in Int
      <4>1. t' * (Width + 1) \in Int
        BY <1>3, <3>1
      <4> QED  BY <1>7, <4>1 DEF Place
    <3>2. t' \in {t, t + 1}
      BY <1>2 DEF Next, AllocLocal, AllocXor, AllocAdd, Alloc, CountDescriptors, ReadThread,
         ReadChain, Malformed, NextThread, Install, Finished, vars, walkVars
    <3> QED  BY <1>3, <3>1, <3>2
  <2> QED  BY <1>1, <1>7, <2>1 DEF MapInv, Place, Upto
<1>8. ASSUME NEW kind \in {"local", "xor", "add"}, NEW homes, Alloc(kind, homes) PROVE FALSE
  BY <1>2, <1>8 DEF Alloc
<1>9. CASE CountDescriptors
  <2>1. /\ p = 1 /\ t = 0 /\ p' = p /\ t' = t
        /\ phase' = IF AtEnd(1) THEN "install" ELSE "thread"
    BY <1>9 DEF CountDescriptors, IInv, BeginInv
  <2>2. Place(0, 0) = 1 /\ ~AtEnd(1)
    <3>1. Place(0, 0) = 1
      BY <1>3 DEF Place
    <3>2. 0 \in Upto(Threads) /\ 0 \in 0 .. Width /\ 0 < Width
      BY <1>3 DEF Upto
    <3> QED  BY <1>1, <1>2, <3>1, <3>2, TokenAt
  <2> QED  BY <1>7, <2>1, <2>2 DEF Upto
<1>10. CASE ReadThread
  <2>1. /\ phase = "thread" /\ phase' = "chains" /\ c' = 0 /\ t' = t
        /\ localChain' = localChain
        /\ localThread' = [localThread EXCEPT ![t] = Narrow(ParseNumber(First({"colon"})))]
        /\ LET q == First({"colon"}) IN p' = IF Kind(q) = "colon" THEN q + 1 ELSE q
    BY <1>10 DEF ReadThread
  <2>2. t \in Upto(Threads) /\ p = Place(t, 0) /\ 0 \in 0 .. Width /\ 1 \in 0 .. Width
        /\ 0 < Width /\ 1 < Width /\ 2 \in 0 .. Width
    BY <1>3, <1>4, <1>6, <2>1
  <2>3. Place(t, 0) + 1 = Place(t, 1) /\ Place(t, 1) + 1 = Place(t, 2)
    <3>1. t * (Width + 1) \in Int
      BY <1>3
    <3> QED  BY <3>1 DEF Place
  <2>4. Kind(p) = "num" /\ Kind(p + 1) = "colon" /\ p + 1 \in p .. Len(req.map) + 1
    <3>1. ~AtEnd(Place(t, 0)) /\ ~AtEnd(Place(t, 1)) /\ Place(t, 1) \in 1 .. Len(req.map) + 1
      BY <1>1, <1>2, <2>2, TokenAt
    <3>2. Kind(Place(t, 0)) = Expected(0) /\ Kind(Place(t, 1)) = Expected(1)
      BY <1>1, <1>2, <2>2, <3>1, TokenAt
    <3> QED  BY <1>1, <1>3, <2>2, <2>3, <3>1, <3>2, ExpectedKinds
  <2>5. First({"colon"}) = p + 1
    <3>1. \A r \in p .. (p + 1) - 1 : Kind(r) \notin {"colon"} \cup {"end"}
      BY <1>3, <2>4
    <3> QED  BY <1>1, <2>4, <3>1, FirstIs
  <2>6. p' = Place(t, 2) /\ Narrow(ParseNumber(First({"colon"}))) = req.map[p].value
    <3>1. p' = Place(t, 2) /\ ParseNumber(First({"colon"})) = req.map[p].value
      BY <1>3, <2>1, <2>2, <2>3, <2>4, <2>5 DEF ParseNumber
    <3> QED  BY <1>1, <1>2, <2>4, <3>1, NumberFits
  <2>7. ThreadRead(t)'
    <3>1. localThread'[t] = req.map[Place(t, 0)].value
      BY <2>1, <2>2, <2>6 DEF LocalInv
    <3>2. Place(t, 0) = t * (Width + 1) + 1
      BY <1>3 DEF Place
    <3> QED  BY <1>1, <2>1, <3>1, <3>2 DEF ThreadRead
  <2>8. \A i \in Upto(t') : AllRead(i)'
    <3>1. \A i \in Upto(t) : AllRead(i) /\ localThread'[i] = localThread[i]
      BY <1>3, <1>6, <2>1, <2>2 DEF LocalInv, Upto
    <3> QED  BY <1>1, <2>1, <3>1 DEF AllRead, Upto
  <2>9. 0 # Chains /\ 2 + 2 * 0 = 2 /\ Upto(0) = {}
    BY <1>3 DEF Upto
  <2> QED  BY <1>7, <2>1, <2>6, <2>7, <2>8, <2>9
<1>11. CASE ReadChain
  <2> DEFINE q == First({"comma", "semicolon"})
             n == 2 + 2 * c
  <2>1. /\ phase = "chains" /\ phase' = "chains" /\ c' = c + 1 /\ t' = t
        /\ c < Chains /\ Kind(p) \notin {"end", "semicolon"}
        /\ localThread' = localThread
        /\ localChain' = [localChain EXCEPT ![t] = [localChain[t] EXCEPT ![c] = Narrow(ParseNumber(q))]]
        /\ p' = IF Kind(q) = "comma" THEN q + 1 ELSE q
    BY <1>11 DEF ReadChain
  <2>2. /\ t \in Upto(Threads) /\ c \in Upto(Chains) /\ p = Place(t, n)
        /\ n \in 0 .. Width /\ n + 1 \in 0 .. Width /\ n < Width /\ n \in Nat
    BY <1>3, <1>4, <1>6, <2>1 DEF Upto
  <2>3. Place(t, n) + 1 = Place(t, n + 1) /\ Place(t, n + 1) + 1 = Place(t, n + 2)
    <3>1. t * (Width + 1) \in Int
      BY <1>3
    <3> QED  BY <2>2, <3>1 DEF Place
  <2>4. Kind(p) = "num" /\ p + 1 \in p .. Len(req.map) + 1
    <3>1. ~AtEnd(Place(t, n)) /\ Place(t, n + 1) \in 1 .. Len(req.map) + 1
      BY <1>1, <1>2, <2>2, TokenAt
    <3>2. Kind(Place(t, n)) = Expected(n) /\ Expected(n) = "num"
      BY <1>1, <1>2, <2>2, <3>1, TokenAt, ExpectedKinds
    <3> QED  BY <1>1, <1>3, <2>2, <2>3, <3>1, <3>2
  <2>5. /\ n + 1 # Width => Kind(p + 1) = "comma"
        /\ n + 1 = Width => Kind(p + 1) \in {"semicolon", "end"}
    <3>1. CASE n + 1 # Width
      <4>1. n + 1 < Width
        BY <1>3, <2>2, <3>1
      <4>2. ~AtEnd(Place(t, n + 1))
        BY <1>1, <1>2, <2>2, <4>1, TokenAt
      <4>3. Kind(Place(t, n + 1)) = Expected(n + 1)
        BY <1>1, <1>2, <2>2, <4>2, TokenAt
      <4> QED  BY <1>1, <2>2, <2>3, <3>1, <4>3, ExpectedKinds
    <3>2. CASE n + 1 = Width
      <4>1. ~AtEnd(Place(t, n + 1)) => Kind(Place(t, n + 1)) = Expected(n + 1)
        BY <1>1, <1>2, <2>2, TokenAt
      <4>2. Expected(n + 1) = "semicolon"
        BY <1>1, <3>2, ExpectedKinds
      <4> QED  BY <2>2, <2>3, <3>2, <4>1, <4>2 DEF Kind
    <3> QED  BY <3>1, <3>2
  <2>6. q = p + 1
    <3>1. \A r \in p .. (p + 1) - 1 : Kind(r) \notin {"comma", "semicolon"} \cup {"end"}
      BY <1>3, <2>4
    <3>2. Kind(p + 1) \in {"comma", "semicolon"} \cup {"end"}
      BY <2>5
    <3> QED  BY <1>1, <2>4, <3>1, <3>2, FirstIs
  <2>7. Narrow(ParseNumber(q)) = req.map[p].value
    <3>1. ParseNumber(q) = req.map[p].value
      BY <1>3, <2>4, <2>6 DEF ParseNumber
    <3> QED  BY <1>1, <1>2, <2>4, <3>1, NumberFits
  <2> HIDE DEF q
  <2>8. p' = Place(t', IF c' = Chains THEN Width ELSE 2 + 2 * c')
    <3>1. n + 1 = Width <=> c' = Chains
      BY <1>3, <2>1, <2>2
    <3>2. 2 + 2 * c' = n + 2
      BY <1>3, <2>1
    <3>3. CASE n + 1 = Width
      <4>1. p' = Place(t, n + 1)
        BY <2>1, <2>2, <2>3, <2>5, <2>6, <3>3
      <4> QED  BY <2>1, <3>1, <3>3, <4>1
    <3>4. CASE n + 1 # Width
      <4>1. p' = Place(t, n + 2)
        BY <2>1, <2>2, <2>3, <2>5, <2>6, <3>4
      <4> QED  BY <2>1, <3>1, <3>2, <3>4, <4>1
    <3> QED  BY <3>3, <3>4
  <2>9. /\ localChain \in [Upto(Threads) -> [Upto(Chains) -> Int]]
        /\ localChain[t] \in [Upto(Chains) -> Int]
    BY <2>1, <2>2 DEF LocalInv
  <2>10. /\ localChain'[t][c] = req.map[p].value
         /\ \A j \in Upto(Chains) : j # c => localChain'[t][j] = localChain[t][j]
         /\ \A i \in Upto(Threads) : i # t => localChain'[i] = localChain[i]
    BY <2>1, <2>2, <2>7, <2>9
  <2>11. ThreadRead(t)'
    <3>1. ThreadRead(t)
      BY <1>6, <2>1
    <3> QED  BY <1>1, <2>1, <3>1 DEF ThreadRead
  <2>12. \A j \in Upto(c') : ChainRead(t, j)'
    <3> SUFFICES ASSUME NEW j \in Upto(c')
                 PROVE  localChain'[t][j] = req.map[t * (Width + 1) + 1 + 2 + 2 * j].value
      BY <1>1, <2>1 DEF ChainRead
    <3>1. CASE j = c
      <4>1. Place(t, n) = t * (Width + 1) + 1 + 2 + 2 * c
        <5>1. t * (Width + 1) \in Int
          BY <1>3
        <5> QED  BY <1>3, <5>1 DEF Place
      <4> QED  BY <2>2, <2>10, <3>1, <4>1
    <3>2. CASE j # c
      <4>1. j \in Upto(c) /\ j \in Upto(Chains)
        BY <1>3, <2>1, <3>2 DEF Upto
      <4>2. ChainRead(t, j)
        BY <1>6, <2>1, <4>1
      <4> QED  BY <2>10, <3>2, <4>1, <4>2 DEF ChainRead
    <3> QED  BY <3>1, <3>2
  <2>13. \A i \in Upto(t') : AllRead(i)'
    <3>1. \A i \in Upto(t) : AllRead(i) /\ i \in Upto(Threads) /\ i # t
      BY <1>3, <1>6, <2>1, <2>2 DEF Upto
    <3>2. \A i \in Upto(t) : localChain'[i] = localChain[i]
      BY <2>10, <3>1
    <3> QED  BY <1>1, <2>1, <3>1, <3>2 DEF AllRead, Upto
  <2> QED  BY <1>7, <2>1, <2>8, <2>11, <2>12, <2>13
<1>12. CASE Malformed
  <2>1. /\ phase = "chains" /\ Kind(p) \notin {"end", "semicolon"}
        /\ Chains <= c \/ Threads <= t
    BY <1>12 DEF Malformed
  <2>2. t \in Upto(Threads) /\ Width \in 0 .. Width /\ c = Chains
    BY <1>3, <1>4, <2>1 DEF Upto
  <2>3. p = Place(t, Width)
    BY <1>6, <2>1, <2>2
  <2>4. ~AtEnd(Place(t, Width)) => Kind(Place(t, Width)) = Expected(Width)
    BY <1>1, <1>2, <2>2, TokenAt
  <2>5. Expected(Width) = "semicolon"
    BY <1>1, ExpectedKinds
  <2> QED  BY <2>1, <2>3, <2>4, <2>5 DEF Kind
<1>13. CASE NextThread
  <2>1. /\ phase = "chains" /\ Kind(p) \in {"end", "semicolon"}
        /\ p' = IF AtEnd(p) THEN p ELSE p + 1
        /\ t' = IF AtEnd(p) THEN t ELSE t + 1
        /\ phase' = IF AtEnd(p') THEN "install" ELSE "thread"
        /\ localThread' = localThread /\ localChain' = localChain
    BY <1>13 DEF NextThread
  <2>2. t \in Upto(Threads) /\ Width \in 0 .. Width
    BY <1>3, <1>4, <2>1
  <2>3. c = Chains
    <3> SUFFICES ASSUME c # Chains PROVE FALSE
      OBVIOUS
    <3>1. /\ c \in Upto(Chains) /\ p = Place(t, 2 + 2 * c)
          /\ 2 + 2 * c \in 0 .. Width /\ 2 + 2 * c < Width
      BY <1>3, <1>6, <2>1 DEF Upto
    <3>2. ~AtEnd(Place(t, 2 + 2 * c))
      BY <1>1, <1>2, <2>2, <3>1, TokenAt
    <3>3. Kind(Place(t, 2 + 2 * c)) = Expected(2 + 2 * c) /\ Expected(2 + 2 * c) = "num"
      BY <1>1, <1>2, <2>2, <3>1, <3>2, TokenAt, ExpectedKinds
    <3> QED  BY <2>1, <3>1, <3>3
  <2>4. p = Place(t, Width)
    BY <1>6, <2>1, <2>3
  <2>5. \A i \in Upto(t + 1) : AllRead(i)'
    <3>1. AllRead(t)
      BY <1>6, <2>1, <2>3 DEF AllRead
    <3>2. \A i \in Upto(t + 1) : AllRead(i)
      <4>1. \A i \in Upto(t + 1) : i = t \/ i \in Upto(t)
        BY <1>3 DEF Upto
      <4> QED  BY <1>6, <2>1, <3>1, <4>1
    <3> QED  BY <1>5, <2>1, <3>2
  <2>6. AtEnd(p) <=> t = Threads - 1
    BY <1>1, <1>2, <2>2, <2>4, TokenAt
  <2>7. CASE AtEnd(p)
    <3>1. p' = p /\ phase' = "install" /\ t + 1 = Threads
      BY <1>1, <1>3, <2>1, <2>6, <2>7 DEF AtEnd
    <3> QED  BY <1>7, <2>5, <3>1
  <2>8. CASE ~AtEnd(p)
    <3>1. t + 1 \in Upto(Threads) /\ 0 \in 0 .. Width /\ 0 < Width
      BY <1>3, <2>2, <2>6, <2>8 DEF Upto
    <3>2. p' = Place(t + 1, 0)
      <4>1. t * (Width + 1) \in Int /\ (t + 1) * (Width + 1) = t * (Width + 1) + (Width + 1)
        BY <1>3
      <4> QED  BY <1>3, <2>1, <2>4, <2>8, <4>1 DEF Place
    <3>3. ~AtEnd(Place(t + 1, 0))
      BY <1>1, <1>2, <3>1, TokenAt
    <3>4. phase' = "thread" /\ t' = t + 1
      BY <1>1, <2>1, <2>8, <3>2, <3>3 DEF AtEnd
    <3> QED  BY <1>7, <2>5, <3>2, <3>4
  <2> QED  BY <2>7, <2>8
<1>14. CASE Install
  BY <1>7, <1>14 DEF Install
<1>15. CASE UNCHANGED vars
  <2>1. /\ localThread' = localThread /\ localChain' = localChain /\ phase' = phase
        /\ p' = p /\ t' = t /\ c' = c
    BY <1>15 DEF vars
  <2>2. phase = "chains" => ThreadRead(t)' /\ \A j \in Upto(c') : ChainRead(t, j)'
    BY <1>1, <1>6, <2>1 DEF ThreadRead, ChainRead
  <2>3. \A i : AllRead(i) => AllRead(i)'
    BY <1>5, <2>1
  <2> QED  BY <1>6, <1>7, <2>1, <2>2, <2>3
<1> QED
  BY <1>8, <1>9, <1>10, <1>11, <1>12, <1>13, <1>14, <1>15
     DEF Next, AllocLocal, AllocXor, AllocAdd, Finished

(* What a well-formed map has given when it is installed.                  *)
DoneInv ==
  req.kind = "map" /\ WellFormed /\ phase = "done" =>
    /\ threads = Threads /\ chains = Chains
    /\ \A i \in Upto(Threads) :
         /\ threadDomain[i] = req.map[i * (Width + 1) + 1].value % Domains
         /\ \A j \in Upto(Chains) :
              chainDomain[i][j] = req.map[i * (Width + 1) + 1 + 2 + 2 * j].value % Domains

(* The numbers of a well-formed map.                                       *)
LEMMA NumberAt ==
  ASSUME TypeOK, WellFormed, NEW i \in Upto(Threads), NEW z \in 0 .. Width, z < Width
  PROVE  req.map[Place(i, z)].value \in Nat
<1>1. ~AtEnd(Place(i, z)) /\ Place(i, z) \in 1 .. Len(req.map) + 1
  BY TokenAt
<1>2. Place(i, z) \in 1 .. Len(req.map) /\ req.map \in Seq(Token)
  BY <1>1 DEF AtEnd, TypeOK, Request
<1>3. req.map[Place(i, z)] \in Token
  BY <1>2
<1> QED  BY <1>3 DEF Token

LEMMA RowNumbers ==
  ASSUME TypeOK, WellFormed, NEW i \in Upto(Threads)
  PROVE  /\ req.map[i * (Width + 1) + 1].value \in Nat
         /\ \A j \in Upto(Chains) : req.map[i * (Width + 1) + 1 + 2 + 2 * j].value \in Nat
<1>1. /\ Chains \in Nat /\ Width = 2 * Chains + 1 /\ Width \in Nat /\ Width >= 3
      /\ Threads \in Nat /\ i \in Nat
  BY WidthFacts DEF Upto
<1>2. i * (Width + 1) \in Int
  BY <1>1
<1>3. req.map[Place(i, 0)].value \in Nat /\ Place(i, 0) = i * (Width + 1) + 1
  BY <1>1, <1>2, NumberAt DEF Place
<1>4. ASSUME NEW j \in Upto(Chains)
      PROVE  req.map[i * (Width + 1) + 1 + 2 + 2 * j].value \in Nat
  <2>1. 2 + 2 * j \in 0 .. Width /\ 2 + 2 * j < Width /\ j \in Int
    BY <1>1 DEF Upto
  <2>2. Place(i, 2 + 2 * j) = i * (Width + 1) + 1 + 2 + 2 * j
    BY <1>2, <2>1 DEF Place
  <2> QED  BY <2>1, <2>2, NumberAt
<1> QED  BY <1>3, <1>4

LEMMA DoneStep == IInv /\ MapInv /\ DoneInv /\ [Next]_vars => DoneInv'
<1> SUFFICES ASSUME IInv, MapInv, DoneInv, [Next]_vars, req.kind = "map", WellFormed,
                    phase' = "done"
             PROVE  DoneInv'
  BY RequestKept, SameRows DEF DoneInv
<1>1. /\ req' = req /\ Threads' = Threads /\ Chains' = Chains /\ TypeOK
      /\ Width' = Width
  BY RequestKept, SameMap, SameRows DEF IInv
<1>2. CASE Install
  <2>1. \A i \in Upto(Threads) : AllRead(i)
    BY <1>2 DEF Install, MapInv
  <2>2. \A v \in Nat : Wrapped(v) = v % Domains
    BY DomainsAssumption DEF Wrapped, Unset
  <2>3. ASSUME NEW i \in Upto(Threads)
        PROVE  /\ threadDomain'[i] = req.map[i * (Width + 1) + 1].value % Domains
               /\ \A j \in Upto(Chains) :
                    chainDomain'[i][j] = req.map[i * (Width + 1) + 1 + 2 + 2 * j].value % Domains
    <3>1. threadDomain'[i] = Wrapped(localThread[i])
      BY <1>2 DEF Install
    <3>2. \A j \in Upto(Chains) : chainDomain'[i][j] = Wrapped(localChain[i][j])
      BY <1>2 DEF Install
    <3>3. localThread[i] = req.map[i * (Width + 1) + 1].value
      BY <2>1 DEF AllRead, ThreadRead
    <3>4. \A j \in Upto(Chains) : localChain[i][j] = req.map[i * (Width + 1) + 1 + 2 + 2 * j].value
      BY <2>1 DEF AllRead, ChainRead
    <3> QED  BY <1>1, <2>2, <3>1, <3>2, <3>3, <3>4, RowNumbers
  <2>4. threads' = Threads /\ chains' = Chains
    BY <1>2 DEF Install
  <2> QED  BY <1>1, <2>3, <2>4 DEF DoneInv, Upto
<1>3. CASE ~Install
  <2>1. phase = "done" /\ UNCHANGED <<threads, chains, threadDomain, chainDomain>>
    BY <1>3 DEF Next, AllocLocal, AllocXor, AllocAdd, Alloc, CountDescriptors, ReadThread,
       ReadChain, Malformed, NextThread, Finished, vars
  <2> QED  BY <1>1, <2>1 DEF DoneInv, Upto
<1> QED  BY <1>2, <1>3

LEMMA MapInvariant == Spec => [](IInv /\ LocalInv /\ MapInv /\ DoneInv)
<1>1. Init => IInv /\ LocalInv /\ MapInv /\ DoneInv
  BY InitInvariant DEF Init, LocalInv, MapInv, DoneInv
<1> QED  BY <1>1, StepInvariant, LocalStep, MapStep, DoneStep, PTL DEF Spec

(* A well-formed map is never refused, and every thread and every chain is *)
(* given the domain written for it, wrapped around, for maps of any        *)
(* number of threads and chains.                                           *)
THEOREM MapsAreExact == Spec => []MapExact
<1>1. MapInv /\ DoneInv => MapExact
  BY DEF MapInv, DoneInv, MapExact
<1> QED  BY <1>1, MapInvariant, PTL

-----------------------------------------------------------------------------
(* Every domain given is a domain of the machine                           *)

(* The exclusive or of two numbers is a number.                            *)
LEMMA XorIsNumber ==
  ASSUME NEW a \in Int, NEW b \in Int PROVE Xor(a, b) \in Int
<1> DEFINE term == [z \in 1 .. MaskBits |->
                      2 ^ (z - 1) * ((a \div 2 ^ (z - 1) + b \div 2 ^ (z - 1)) % 2)]
           low == CHOOSE low : low =
                    [z \in 0 .. MaskBits |->
                       IF z = 0 THEN 0
                       ELSE low[z - 1]
                              + 2 ^ (z - 1) * ((a \div 2 ^ (z - 1) + b \div 2 ^ (z - 1)) % 2)]
<1>1. Xor(a, b) = low[MaskBits]
  BY Zenon DEF Xor
<1>2. MaskBits \in Nat /\ term \in [1 .. MaskBits -> Int]
  <2>1. ASSUME NEW z \in 1 .. MaskBits
        PROVE  2 ^ (z - 1) * ((a \div 2 ^ (z - 1) + b \div 2 ^ (z - 1)) % 2) \in Int
    <3>1. z - 1 \in Nat
      BY DomainsAssumption
    <3>2. 2 ^ (z - 1) \in Int
      BY <3>1
    <3>3. \A y \in Int : (a \div y + b \div y) % 2 \in Int
      OBVIOUS
    <3>4. (a \div 2 ^ (z - 1) + b \div 2 ^ (z - 1)) % 2 \in Int
      BY <3>2, <3>3, Zenon
    <3>5. \A x, y \in Int : x * y \in Int
      OBVIOUS
    <3> QED  BY <3>2, <3>4, <3>5, Zenon
  <2> QED  BY <2>1, DomainsAssumption
<1>3. \A s : RunningSum(s, MaskBits, term) <=>
               s = [z \in 0 .. MaskBits |->
                      IF z = 0 THEN 0
                      ELSE s[z - 1]
                             + 2 ^ (z - 1) * ((a \div 2 ^ (z - 1) + b \div 2 ^ (z - 1)) % 2)]
  <2>1. \A z \in 0 .. MaskBits : z # 0 =>
          term[z] = 2 ^ (z - 1) * ((a \div 2 ^ (z - 1) + b \div 2 ^ (z - 1)) % 2)
    BY <1>2
  <2> HIDE DEF term
  <2> QED  BY <2>1, Zenon DEF RunningSum
<1> HIDE DEF term
<1>4. \E s : RunningSum(s, MaskBits, term)
  BY <1>2, SumExists, Zenon
<1>5. RunningSum(low, MaskBits, term)
  BY <1>3, <1>4, Zenon
<1> HIDE DEF low
<1>6. \A z \in 0 .. MaskBits : low[z] \in Int
  BY <1>2, <1>5, SumTyped
<1> QED  BY <1>1, <1>2, <1>6

(* What % leaves of a number is a domain of the machine.                   *)
LEMMA ModIsDomain ==
  ASSUME NEW v \in Int PROVE v % Domains \in Upto(Domains)
  BY DomainsAssumption DEF Upto

(* The domains when all is placed: local, xor and add give the chains of a *)
(* thread one domain of the machine; a map gives what its text says, the   *)
(* remainder of a number that is not an int, or leaves an entry unwritten. *)
AnyDomain == (-(Domains - 1) .. Domains - 1) \cup {Unset}
PlacedInv ==
  phase = "done" =>
    \A i \in Upto(threads) :
      /\ req.kind # "map" =>
           /\ threadDomain[i] \in Upto(Domains)
           /\ \E h \in Upto(Domains) : \A j \in Upto(chains) : chainDomain[i][j] = h
      /\ req.kind = "map" =>
           /\ threadDomain[i] \in AnyDomain
           /\ \A j \in Upto(chains) : chainDomain[i][j] \in AnyDomain

LEMMA PlacedStep == IInv /\ LocalInv /\ PlacedInv /\ [Next]_vars => PlacedInv'
<1> SUFFICES ASSUME IInv, LocalInv, PlacedInv, [Next]_vars PROVE PlacedInv'
  OBVIOUS
<1>1. /\ req' = req /\ req.operand \in Int /\ threads \in Nat /\ chains \in Nat
      /\ Domains \in Nat /\ Domains # 0
  BY RequestKept, DomainsAssumption DEF IInv, TypeOK, Request
<1>2. \A i \in Upto(threads) : Home(i) \in Upto(Domains) /\ Home(i) \in Int
  BY <1>1, ModIsDomain DEF Home, Upto
<1>3. ASSUME NEW kind, kind # "map", NEW homes \in [Upto(threads) -> Upto(Domains)],
             Alloc(kind, homes)
      PROVE  PlacedInv'
  <2>1. /\ req'.kind # "map" /\ threads' = threads /\ chains' = chains
        /\ \A i \in Upto(threads) : /\ threadDomain'[i] = Home(i)
                                    /\ \A j \in Upto(chains) : chainDomain'[i][j] = homes[i]
    BY <1>1, <1>3 DEF Alloc
  <2>2. \A i \in Upto(threads) : homes[i] \in Upto(Domains)
    OBVIOUS
  <2> QED  BY <1>2, <2>1, <2>2 DEF PlacedInv, Upto
<1>4. CASE AllocLocal
  <2>1. [i \in Upto(threads) |-> Home(i)] \in [Upto(threads) -> Upto(Domains)]
    BY <1>2
  <2> QED  BY <1>3, <1>4, <2>1 DEF AllocLocal
<1>5. CASE AllocXor
  <2>1. \A i \in Upto(threads) : XorHome(i) \in Upto(Domains)
    <3> TAKE i \in Upto(threads)
    <3>1. Xor(Home(i), req.operand) \in Int
      BY <1>1, <1>2, XorIsNumber
    <3> QED  BY <3>1, ModIsDomain DEF XorHome
  <2>2. [i \in Upto(threads) |-> XorHome(i)] \in [Upto(threads) -> Upto(Domains)]
    BY <2>1
  <2> QED  BY <1>3, <1>5, <2>2 DEF AllocXor
<1>6. CASE AllocAdd
  <2>1. \A i \in Upto(threads) : AddHome(i) \in Upto(Domains)
    <3> TAKE i \in Upto(threads)
    <3>1. Home(i) + req.operand \in Int
      BY <1>1, <1>2
    <3> QED  BY <3>1, ModIsDomain DEF AddHome
  <2>2. [i \in Upto(threads) |-> AddHome(i)] \in [Upto(threads) -> Upto(Domains)]
    BY <2>1
  <2> QED  BY <1>3, <1>6, <2>2 DEF AllocAdd
<1>7. CASE Install
  <2>1. \A d \in Int : Wrapped(d) \in AnyDomain
    <3> TAKE d \in Int
    <3>1. d % Domains \in 0 .. Domains - 1 /\ (-d) % Domains \in 0 .. Domains - 1
      BY ModIsDomain DEF Upto
    <3> QED  BY <1>1, <3>1 DEF Wrapped, AnyDomain
  <2>2. /\ req.kind = "map" /\ localThread \in [Upto(Threads) -> Int]
        /\ localChain \in [Upto(Threads) -> [Upto(Chains) -> Int]]
    BY <1>7 DEF Install, LocalInv
  <2>3. /\ threads' = Threads /\ chains' = Chains
        /\ threadDomain' = [i \in Upto(Threads) |-> Wrapped(localThread[i])]
        /\ chainDomain' = [i \in Upto(Threads) |->
                             [j \in Upto(Chains) |-> Wrapped(localChain[i][j])]]
    BY <1>7 DEF Install
  <2> HIDE DEF Upto, Threads, Chains, Wrapped, AnyDomain
  <2>4. ASSUME NEW i \in Upto(Threads)
        PROVE  /\ threadDomain'[i] \in AnyDomain
               /\ \A j \in Upto(Chains) : chainDomain'[i][j] \in AnyDomain
    BY <2>1, <2>2, <2>3
  <2> QED  BY <1>1, <2>2, <2>3, <2>4 DEF PlacedInv, Upto
<1>8. CASE phase' # "done" \/ UNCHANGED <<phase, threads, chains, threadDomain, chainDomain>>
  BY <1>1, <1>8 DEF PlacedInv, Upto
<1> QED
  BY <1>4, <1>5, <1>6, <1>7, <1>8
     DEF Next, CountDescriptors, ReadThread, ReadChain, Malformed, NextThread, Finished, vars

PlacementInv == IInv /\ LocalInv /\ MapInv /\ DoneInv /\ PlacedInv

LEMMA PlacementStep == PlacementInv /\ [Next]_vars => PlacementInv'
  BY StepInvariant, LocalStep, MapStep, DoneStep, PlacedStep DEF PlacementInv

LEMMA PlacementInit == Init => PlacementInv
  BY InitInvariant DEF Init, LocalInv, MapInv, DoneInv, PlacedInv, PlacementInv

(* What a well-formed map gives is never an unwritten entry.               *)
LEMMA WrittenDomains ==
  ASSUME PlacementInv, phase = "done", req.kind = "map", WellFormed,
         NEW i \in Upto(threads)
  PROVE  /\ threadDomain[i] \in Upto(Domains)
         /\ \A j \in Upto(chains) : chainDomain[i][j] \in Upto(Domains)
<1>1. /\ TypeOK /\ threads = Threads /\ chains = Chains
      /\ threadDomain[i] = req.map[i * (Width + 1) + 1].value % Domains
      /\ \A j \in Upto(Chains) :
           chainDomain[i][j] = req.map[i * (Width + 1) + 1 + 2 + 2 * j].value % Domains
  BY DEF PlacementInv, IInv, DoneInv
<1>2. /\ req.map[i * (Width + 1) + 1].value \in Nat
      /\ \A j \in Upto(Chains) : req.map[i * (Width + 1) + 1 + 2 + 2 * j].value \in Nat
  BY <1>1, RowNumbers
<1>3. \A v \in Nat : v % Domains \in Upto(Domains)
  BY ModIsDomain
<1> QED  BY <1>1, <1>2, <1>3, Zenon

LEMMA PlacedIsValid == PlacementInv => DomainsValid
<1> SUFFICES ASSUME PlacementInv, phase = "done", NEW i \in Upto(threads)
             PROVE  {threadDomain[i]} \cup {chainDomain[i][j] : j \in Upto(chains)}
                      \subseteq IF req.kind = "map" /\ ~WellFormed THEN AnyDomain
                                ELSE Upto(Domains)
  BY DEF DomainsValid, AnyDomain
<1>1. CASE req.kind # "map"
  BY <1>1 DEF PlacementInv, PlacedInv
<1>2. CASE req.kind = "map" /\ ~WellFormed
  BY <1>2 DEF PlacementInv, PlacedInv
<1>3. CASE req.kind = "map" /\ WellFormed
  BY <1>3, WrittenDomains
<1> QED  BY <1>1, <1>2, <1>3

(* Whatever the offset, the mask, the number of threads and the map, no    *)
(* thread is sent to a domain the machine does not have, unless a map is   *)
(* ill-formed or has a number that is not an int.                          *)
THEOREM DomainsAreValid == Spec => []DomainsValid
  BY PlacementInit, PlacementStep, PlacedIsValid, PTL DEF Spec

-----------------------------------------------------------------------------
(* The threads leave the placement alone.                                  *)
LEMMA SetupStep == [SetupNext]_setupVars => [Next]_vars
<1> SUFFICES ASSUME [SetupNext]_setupVars, ~Next PROVE UNCHANGED vars
  OBVIOUS
<1>1. CASE Thread
  BY <1>1, Zenon DEF Thread, Launch, Pin, PinModuloZero, Move, AllocChain, Bind, LinkChain
<1>2. CASE UNCHANGED setupVars
  BY <1>2, Zenon DEF setupVars
<1> QED  BY <1>1, <1>2, Zenon DEF SetupNext

(* The threads' set-up goes on where the placement has ended, and all that *)
(* is proved of the placement holds while they run.                        *)
THEOREM SetupImplementsPlacement == SetupSpec => Spec
<1>1. SetupInit => Init
  BY DEF SetupInit
<1> QED  BY <1>1, SetupStep, PTL DEF SetupSpec, Spec

(* A set of CPUs that is finite lacks one, and there is a first of those.  *)
LEMMA CountExists ==
  ASSUME NEW S, S \subseteq Nat, IsFiniteSet(S)
  PROVE  \E n \in 0 .. Cardinality(S) : Upto(n) \subseteq S /\ n \notin S
<1> DEFINE K == Cardinality(S)
           T == {n \in 0 .. K : n \notin S}
<1>1. K \in Nat
  BY FS_CardinalityType
<1>2. T # {}
  <2> SUFFICES ASSUME 0 .. K \subseteq S PROVE FALSE
    OBVIOUS
  <2>1. Cardinality(0 .. K) <= K
    BY FS_Subset
  <2>2. Cardinality(0 .. K) = K + 1
    BY <1>1, FS_Interval
  <2> QED  BY <2>1, <2>2, <1>1
<1>3. PICK n \in T : \A m \in T : n <= m
  <2>1. T \subseteq Nat
    BY <1>1
  <2> HIDE DEF T
  <2> QED  BY <2>1, <1>2, LeastNatural
<1>4. Upto(n) \subseteq S
  BY <1>1, <1>3 DEF Upto
<1> QED  BY <1>3, <1>4

(* The thread's domain is one of the machine's.                            *)
Valid == req.kind = "map" => WellFormed

LEMMA ThreadDomainGiven ==
  ASSUME PlacementInv, phase = "done", Valid, NEW i \in Upto(threads)
  PROVE  threadDomain[i] \in Upto(Domains)
<1>1. CASE req.kind # "map"
  BY <1>1 DEF PlacementInv, PlacedInv
<1>2. CASE req.kind = "map"
  BY <1>2, WrittenDomains DEF Valid
<1> QED  BY <1>1, <1>2

LEMMA DomainMeant ==
  ASSUME NEW d \in Upto(Domains) PROVE Meant(d) = {d} /\ d # Unset
BY DomainsAssumption DEF Meant, Upto, Unset

(* What start_routine leaves, and what the domain's call makes of it.      *)
Pinned ==
  /\ affinity # {} /\ affinity \subseteq cpuset
  /\ 0 \in mask =>
       /\ affinity \subseteq mask
       /\ Upto(me + 1) \subseteq mask /\ me < CpuSetBits => affinity = {me}
Sent ==
  /\ affinity # {} /\ affinity \subseteq cpuset
  /\ Valid =>
       /\ NodeCpus(threadDomain[me]) # {} => affinity = NodeCpus(threadDomain[me])
       /\ NodeCpus(threadDomain[me]) = {} => Pinned

(* The thread is one of those that were counted and starts on the CPUs of  *)
(* the program, which are some of those that it may ask for.               *)
PinInv ==
  step \notin {"idle", "killed"} =>
    /\ mask \in Masks /\ mask \subseteq cpuset
    /\ phase = "done" /\ me \in Upto(threads)
    /\ step = "pin" => affinity = mask
    /\ step = "move" => Pinned
    /\ step \notin {"pin", "move"} => Sent

LEMMA PinStep == PlacementInv /\ PinInv /\ [SetupNext]_setupVars => PinInv'
<1> SUFFICES ASSUME PlacementInv, PinInv, [SetupNext]_setupVars PROVE PinInv'
  OBVIOUS
<1>0. threads \in Nat
  BY DEF PlacementInv, IInv, TypeOK
<1>1. ASSUME UNCHANGED <<vars, me, cpuset, mask, affinity>>
      PROVE  /\ UNCHANGED <<phase, threads>> /\ Pinned' = Pinned /\ Sent' = Sent
             /\ Upto(threads)' = Upto(threads)
  <2>1. UNCHANGED <<req, phase, threads, threadDomain>>
    BY <1>1 DEF vars
  <2>2. Valid' = Valid
    BY <2>1 DEF Valid, WellFormed, Threads, Chains, Width, Places, Kind, AtEnd, Expected
  <2>3. \A d : NodeCpus(d)' = NodeCpus(d)
    BY <1>1 DEF NodeCpus
  <2>4. Pinned' = Pinned
    BY <1>1 DEF Pinned
  <2> HIDE DEF Pinned
  <2>5. Sent' = Sent
    BY <1>1, <2>1, <2>2, <2>3, <2>4 DEF Sent
  <2> QED  BY <2>1, <2>4, <2>5
<1>2. ASSUME \/ step' = step
             \/ step \in {"alloc", "link"} /\ step' \in {"alloc", "link", "ready"},
             UNCHANGED <<vars, me, cpuset, mask, affinity>>
      PROVE  PinInv'
  <2>1. UNCHANGED <<phase, threads, mask, cpuset, affinity, me, Pinned, Sent, Upto(threads)>>
    BY <1>1, <1>2
  <2> QED  BY <1>2, <2>1 DEF PinInv
<1>3. CASE Next /\ UNCHANGED threadVars
  <2>1. UNCHANGED <<me, step, cpuset, mask, affinity>>
    BY <1>3 DEF threadVars
  <2>2. phase = "done" => UNCHANGED vars
    BY <1>3 DEF Next, AllocLocal, AllocXor, AllocAdd, Alloc, CountDescriptors, ReadThread,
                ReadChain, Malformed, NextThread, Install, Finished
  <2>3. CASE step \in {"idle", "killed"}
    BY <2>1, <2>3 DEF PinInv
  <2>4. CASE step \notin {"idle", "killed"}
    BY <1>2, <2>1, <2>2, <2>4 DEF PinInv
  <2> QED  BY <2>3, <2>4
<1>4. CASE Launch
  BY <1>4 DEF Launch, PinInv, vars, Upto
<1>5. ASSUME step = "pin", step' = "move", UNCHANGED <<vars, me, cpuset, mask>>, Pinned'
      PROVE  PinInv'
  BY <1>5 DEF PinInv, vars, Upto
<1>6. CASE Pin
  <2>1. /\ mask \subseteq Nat /\ IsFiniteSet(mask) /\ mask # {} /\ mask \subseteq cpuset
        /\ me \in Upto(threads) /\ affinity = mask /\ CpuSetBits \in Nat
    BY <1>6, CpusAssumption DEF Pin, PinInv
  <2>2. Count \in 0 .. Cardinality(mask) /\ Upto(Count) \subseteq mask /\ Count \notin mask
    BY <2>1, CountExists DEF Count
  <2>3. Count \in Nat /\ Count > 0
    BY <1>6, <2>1, <2>2, FS_CardinalityType DEF Pin
  <2> HIDE DEF Count
  <2>4. me \in Nat
    BY <1>0, <2>1 DEF Upto
  <2>5. PICK cpu : cpu = me % Count
    OBVIOUS
  <2>6. cpu \in Nat /\ cpu \in mask
    BY <2>2, <2>3, <2>4, <2>5 DEF Upto
  <2>7. Upto(me + 1) \subseteq mask => cpu = me
    <3> SUFFICES ASSUME Upto(me + 1) \subseteq mask PROVE cpu = me
      OBVIOUS
    <3>1. me < Count
      BY <2>2, <2>3, <2>4 DEF Upto
    <3> QED  BY <2>3, <2>4, <2>5, <3>1
  <2>8. /\ step = "pin" /\ step' = "move" /\ UNCHANGED <<vars, me, cpuset, mask>>
        /\ affinity' = IF cpu < CpuSetBits /\ cpu \in cpuset THEN {cpu} ELSE affinity
    BY <1>6, <2>5 DEF Pin, SetAffinity
  <2>9. Pinned'
    BY <2>1, <2>6, <2>7, <2>8 DEF Pinned
  <2> QED  BY <1>5, <2>8, <2>9
<1>7. CASE PinModuloZero
  <2>1. /\ step = "pin" /\ Count = 0 /\ UNCHANGED <<vars, me, cpuset, mask>>
        /\ step' = "killed" \/ (step' = "move" /\ SetAffinity(me))
    BY <1>7 DEF PinModuloZero
  <2>2. CASE step' = "killed"
    BY <2>2 DEF PinInv
  <2>3. CASE step' = "move" /\ SetAffinity(me)
    <3>1. /\ mask \subseteq Nat /\ IsFiniteSet(mask) /\ mask # {} /\ mask \subseteq cpuset
          /\ affinity = mask
      BY <2>1, CpusAssumption DEF PinInv
    <3>2. 0 \notin mask
      BY <2>1, <3>1, CountExists DEF Count
    <3>3. Pinned'
      BY <2>1, <2>3, <3>1, <3>2 DEF Pinned, SetAffinity
    <3> QED  BY <1>5, <2>1, <2>3, <3>3
  <2> QED  BY <2>1, <2>2, <2>3
<1>8. CASE Move
  <2>1. /\ step = "move" /\ step' = "alloc" /\ UNCHANGED <<vars, me, cpuset, mask>>
        /\ phase = "done" /\ me \in Upto(threads) /\ Pinned
        /\ mask \in Masks /\ mask \subseteq cpuset
    BY <1>8 DEF Move, PinInv
  <2>2. PICK d \in Meant(threadDomain[me]) :
          affinity' = IF NodeCpus(d) = {} THEN affinity ELSE NodeCpus(d)
    BY <1>8 DEF Move
  <2>3. UNCHANGED <<req, phase, threads, threadDomain>>
    BY <2>1 DEF vars
  <2>4. Valid' = Valid
    BY <2>3 DEF Valid, WellFormed, Threads, Chains, Width, Places, Kind, AtEnd, Expected
  <2>5. NodeCpus(threadDomain[me])' = NodeCpus(threadDomain[me])
    BY <2>1, <2>3 DEF NodeCpus
  <2>6. Valid => d = threadDomain[me]
    BY <2>1, <2>2, ThreadDomainGiven, DomainMeant
  <2>7. NodeCpus(d) \subseteq cpuset
    BY DEF NodeCpus
  <2>8. affinity' # {} /\ affinity' \subseteq cpuset
    BY <2>1, <2>2, <2>7 DEF Pinned
  <2>9. NodeCpus(d) = {} => Pinned'
    BY <2>1, <2>2 DEF Pinned
  <2>10. Sent'
    BY <2>1, <2>2, <2>4, <2>5, <2>6, <2>8, <2>9 DEF Sent
  <2> QED  BY <2>1, <2>3, <2>10 DEF PinInv, Upto
<1>9. CASE AllocChain \/ LinkChain
  BY <1>2, <1>9 DEF AllocChain, Bind, LinkChain
<1>10. CASE UNCHANGED setupVars
  BY <1>2, <1>10 DEF setupVars, threadVars
<1> QED  BY <1>3, <1>4, <1>6, <1>7, <1>8, <1>9, <1>10 DEF SetupNext, Thread

(* Whatever CPUs the machine has and lets the program use, and whichever   *)
(* it is started on: from the NUMA calls on a thread has a CPU, it runs on *)
(* the CPUs of its domain and no others, and where its domain has none it  *)
(* stays on the CPU it pinned itself to, alone if the CPUs suffice.        *)
THEOREM ThreadsRunWhereSent == SetupSpec => []RunsWhereSent
<1>1. SetupInit => PlacementInv /\ PinInv
  BY PlacementInit DEF SetupInit, PinInv
<1>2. PlacementInv /\ PinInv /\ [SetupNext]_setupVars => (PlacementInv /\ PinInv)'
  BY SetupStep, PlacementStep, PinStep
<1>3. PinInv => RunsWhereSent
  BY DEF PinInv, RunsWhereSent, Sent, Pinned, Valid
<1> QED  BY <1>1, <1>2, <1>3, PTL DEF SetupSpec

-----------------------------------------------------------------------------
(* The memory of a thread whose chains share one domain                    *)

OneDomain == req.kind = "map" => WellFormed /\ chains = 1

LEMMA OneDomainGiven ==
  ASSUME PlacementInv, phase = "done", OneDomain, NEW i \in Upto(threads)
  PROVE  /\ threadDomain[i] \in Upto(Domains)
         /\ 0 \in Upto(chains) /\ chainDomain[i][0] \in Upto(Domains)
         /\ \A j \in Upto(chains) : chainDomain[i][j] = chainDomain[i][0]
<1>1. chains \in Nat \ {0} /\ 0 \in Upto(chains)
  BY DEF PlacementInv, IInv, TypeOK, Upto
<1>2. CASE req.kind # "map"
  BY <1>1, <1>2 DEF PlacementInv, PlacedInv
<1>3. CASE req.kind = "map"
  <2>1. Upto(chains) = {0}
    BY <1>3 DEF OneDomain, Upto
  <2> QED  BY <1>1, <1>3, <2>1, WrittenDomains DEF OneDomain
<1> QED  BY <1>2, <1>3

(* The policy is that of the thread's one domain from the first allocation *)
(* on, and the pages linked are there.                                     *)
HonourInv ==
  /\ step \notin {"idle", "killed"} => phase = "done" /\ me \in Upto(threads)
  /\ step \in {"idle", "pin", "move"} => k = 0
  /\ step \in {"alloc", "link", "ready"} /\ OneDomain =>
       /\ k \in Upto(chains)
       /\ step # "alloc" \/ k > 0 => bound = chainDomain[me][0]
       /\ step = "link" => \A j \in Upto(k) : pages[j] = chainDomain[me][j]
       /\ step = "ready" => \A j \in Upto(chains) : pages[j] = chainDomain[me][j]

LEMMA HonourStep == PlacementInv /\ HonourInv /\ [SetupNext]_setupVars => HonourInv'
<1> SUFFICES ASSUME PlacementInv, HonourInv, [SetupNext]_setupVars PROVE HonourInv'
  OBVIOUS
<1>1. threads \in Nat /\ chains \in Nat \ {0}
  BY DEF PlacementInv, IInv, TypeOK
<1>2. UNCHANGED vars => UNCHANGED <<phase, threads, chains, threadDomain, chainDomain>>
                          /\ OneDomain' = OneDomain
  BY DEF vars, OneDomain, WellFormed, Threads, Chains, Width, Places, Kind, AtEnd, Expected
<1>3. \A d \in Upto(Domains) : Meant(d) = {d}
  BY DomainMeant
<1>4. CASE Next /\ UNCHANGED threadVars
  <2>1. UNCHANGED <<me, step, affinity, bound, k, pages>>
    BY <1>4 DEF threadVars
  <2>2. phase = "done" => UNCHANGED vars
    BY <1>4 DEF Next, AllocLocal, AllocXor, AllocAdd, Alloc, CountDescriptors, ReadThread,
                ReadChain, Malformed, NextThread, Install, Finished
  <2>3. CASE step \in {"idle", "killed"}
    BY <2>1, <2>3 DEF HonourInv
  <2>4. CASE step \notin {"idle", "killed"}
    BY <1>2, <2>1, <2>2, <2>4 DEF HonourInv, Upto
  <2> QED  BY <2>3, <2>4
<1>5. CASE Launch
  BY <1>2, <1>5 DEF Launch, HonourInv, Upto
<1>6. CASE Pin \/ PinModuloZero
  BY <1>2, <1>6 DEF Pin, PinModuloZero, HonourInv, Upto
<1>7. CASE Move
  <2>1. /\ step = "move" /\ step' = "alloc" /\ UNCHANGED <<vars, me, k>>
        /\ phase = "done" /\ me \in Upto(threads) /\ k = 0
    BY <1>7 DEF Move, HonourInv
  <2> QED  BY <1>1, <1>2, <2>1 DEF HonourInv, Upto
<1>8. CASE AllocChain
  <2>1. /\ step = "alloc" /\ UNCHANGED <<vars, me, affinity>>
        /\ phase = "done" /\ me \in Upto(threads)
        /\ \E d \in Meant(chainDomain[me][k]) : bound' = IF d \in Upto(Domains) THEN d ELSE bound
        /\ IF k + 1 < chains THEN k' = k + 1 /\ step' = step ELSE k' = 0 /\ step' = "link"
    BY <1>8 DEF AllocChain, Bind, HonourInv
  <2>2. CASE ~OneDomain
    BY <1>2, <2>1, <2>2 DEF HonourInv, Upto
  <2>3. CASE OneDomain
    <3>1. /\ k \in Upto(chains) /\ chainDomain[me][k] = chainDomain[me][0]
          /\ chainDomain[me][0] \in Upto(Domains)
      BY <2>1, <2>3, OneDomainGiven DEF HonourInv
    <3>2. bound' = chainDomain[me][0]
      BY <1>3, <2>1, <3>1
    <3>3. k' \in Upto(chains) /\ step' \in {"alloc", "link"} /\ (step' = "link" => Upto(k') = {})
      BY <1>1, <2>1, <3>1 DEF Upto
    <3>4. UNCHANGED <<phase, threads, chains, threadDomain, chainDomain, me, affinity, Upto(chains)>>
      BY <1>2, <2>1 DEF Upto
    <3> QED  BY <2>1, <3>1, <3>2, <3>3, <3>4 DEF HonourInv
  <2> QED  BY <2>2, <2>3
<1>9. CASE LinkChain
  <2>1. /\ step = "link" /\ UNCHANGED <<vars, me, affinity, bound>>
        /\ phase = "done" /\ me \in Upto(threads)
        /\ pages' = [j \in 0 .. k |-> IF j = k THEN bound ELSE pages[j]]
        /\ IF k + 1 < chains THEN k' = k + 1 /\ step' = step ELSE k' = k /\ step' = "ready"
    BY <1>9 DEF LinkChain, HonourInv
  <2>2. CASE ~OneDomain
    BY <1>2, <2>1, <2>2 DEF HonourInv, Upto
  <2>3. CASE OneDomain
    <3>1. /\ k \in Upto(chains) /\ chainDomain[me][k] = chainDomain[me][0]
          /\ bound = chainDomain[me][0]
          /\ \A j \in Upto(k) : pages[j] = chainDomain[me][j]
      BY <2>1, <2>3, OneDomainGiven DEF HonourInv
    <3>2. k' \in Upto(chains) /\ step' \in {"link", "ready"}
      BY <1>1, <2>1, <3>1 DEF Upto
    <3>3. \A j \in 0 .. k : pages'[j] = chainDomain[me][j]
      BY <1>1, <2>1, <3>1 DEF Upto
    <3>4. /\ step' = "link" => Upto(k') = 0 .. k
          /\ step' = "ready" => Upto(chains) = 0 .. k
      BY <1>1, <2>1, <3>1 DEF Upto
    <3> QED  BY <1>2, <2>1, <3>1, <3>2, <3>3, <3>4 DEF HonourInv, Upto
  <2> QED  BY <2>2, <2>3
<1>10. CASE UNCHANGED setupVars
  BY <1>2, <1>10 DEF setupVars, threadVars, HonourInv, Upto
<1> QED  BY <1>4, <1>5, <1>6, <1>7, <1>8, <1>9, <1>10 DEF SetupNext, Thread

(* Although the pages are placed when they are linked and the policy is    *)
(* set long before, a thread whose chains share a domain has all of its    *)
(* memory there, for every number of threads and chains, every machine and *)
(* every mask, offset or map.                                              *)
THEOREM MemoryIsWhereMeant == SetupSpec => []OneDomainHonoured
<1>1. SetupInit => PlacementInv /\ HonourInv
  BY PlacementInit DEF SetupInit, HonourInv
<1>2. PlacementInv /\ HonourInv /\ [SetupNext]_setupVars => (PlacementInv /\ HonourInv)'
  BY SetupStep, PlacementStep, HonourStep
<1>3. PlacementInv /\ HonourInv => OneDomainHonoured
  BY DEF HonourInv, OneDomainHonoured, OneDomain
<1> QED  BY <1>1, <1>2, <1>3, PTL DEF SetupSpec
=============================================================================
