-------------------------- MODULE ChainInitProofs --------------------------
(***************************************************************************)
(* Proofs about ChainInit and Chase, for chains of every size, every       *)
(* stride and every factor and offset that random() may draw.              *)
(***************************************************************************)
EXTENDS Chase, NumberFacts, FiniteSetTheorems

(* What the proofs need to know of a geometry.                             *)
LEMMA GeometryFacts ==
  ASSUME exp \in Geometry
  PROVE  /\ exp.pages \in Nat /\ exp.pages >= 1
         /\ exp.lines \in Nat /\ exp.lines >= 1
         /\ exp.stride \in Int /\ exp.stride # 0
         /\ Stride \in Nat /\ Stride >= 1
         /\ exp.pattern \in {"random", "strided"}
         /\ exp.words \in Nat /\ exp.words >= 2
         /\ exp.operation \in {"none", "load", "store", "load_all", "store_all"}
BY DEF Geometry, Stride

LEMMA LinesFacts ==
  ASSUME exp \in Geometry
  PROVE  /\ LinesPerChain(exp) \in Nat /\ LinesPerChain(exp) >= 1
         /\ Lines \subseteq Nat /\ 0 \in Lines /\ Null \notin Lines
<1>1. exp.pages * exp.lines \in Nat /\ exp.pages * exp.lines >= 1
  BY GeometryFacts
<1>2. QED
  BY <1>1 DEF LinesPerChain, Lines, Null

(* A line within a page within the chain is a line of the chain.           *)
LEMMA LineInChain ==
  ASSUME NEW P \in Nat, NEW L \in Nat, P >= 1, L >= 1,
         NEW p \in 0 .. P - 1, NEW l \in 0 .. L - 1
  PROVE  p * L + l \in 0 .. P * L - 1
<1>1. p * L >= 0 /\ p * L \in Int
  OBVIOUS
<1>2. p * L <= (P - 1) * L
  <2>1. \A a, b, c \in Nat : a <= b => a * c <= b * c
    OBVIOUS
  <2>2. p \in Nat /\ P - 1 \in Nat /\ p <= P - 1
    OBVIOUS
  <2>3. QED
    BY <2>1, <2>2
<1>3. (P - 1) * L = P * L - L
  OBVIOUS
<1>4. P * L \in Int
  OBVIOUS
<1>5. QED
  BY <1>1, <1>2, <1>3, <1>4

LEMMA InitBase == Init => BaseInv
<1> SUFFICES ASSUME Init PROVE BaseInv
  OBVIOUS
<1>1. exp \in Geometry
  BY GeometryAssumption DEF Init
<1> USE GeometryFacts, LinesFacts, <1>1
<1>2. TypeOK
  BY DEF Init, TypeOK, Phases
<1>3. CounterInv /\ LinkInv /\ ChaseInv /\ StridedInv
  BY DEF Init, CounterInv, LinkInv, ChaseInv, StridedInv
<1>4. QED
  BY <1>2, <1>3 DEF BaseInv

-----------------------------------------------------------------------------
(* Appending a link, for all three loops.                                  *)

LEMMA LinkType ==
  ASSUME TypeOK, LinkInv, NEW l \in Lines, Link(l), exp' = exp
  PROVE  /\ root' \in Lines /\ prev' \in Lines
         /\ next' \in [Lines -> Lines \cup {Null}]
         /\ ops' \in Nat /\ rank' \in [Lines -> Nat]
BY LinesFacts DEF TypeOK, LinkInv, Link

LEMMA LinkKeepsLinkInv ==
  ASSUME TypeOK, LinkInv, NEW l \in Lines, Link(l), exp' = exp
  PROVE  LinkInv' /\ ops' > 0
<1>1. Lines' = Lines
  BY DEF Lines
<1>2. /\ ops \in Nat /\ ops' = ops + 1 /\ prev' = l
      /\ rank \in [Lines -> Nat] /\ rank' = [rank EXCEPT ![l] = ops + 1]
  BY DEF TypeOK, Link
<1>3. rank'[l] = ops' /\ \A m \in Lines : m # l => rank'[m] = rank[m]
  BY <1>2
<1>4. \A m \in Lines : rank'[m] <= ops' /\ rank'[m] >= rank[m]
  BY <1>2, <1>3 DEF LinkInv
<1>5. root' \in Lines /\ rank'[root'] >= 1
  <2>1. CASE ops = 0
    BY <1>2, <1>3, <2>1, LinesFacts DEF LinkInv, Link
  <2>2. CASE ops > 0
    <3>1. root \in Lines /\ root' = root /\ rank[root] >= 1
      BY <2>2, LinesFacts DEF LinkInv, Link, TypeOK
    <3>2. QED
      BY <1>2, <1>4, <3>1
  <2>3. QED
    BY <1>2, <2>1, <2>2
<1>6. ASSUME NEW m \in Lines, rank'[m] >= 1, m # l
      PROVE  next'[m] \in Lines /\ rank'[next'[m]] > rank'[m]
  <2>1. rank[m] >= 1 /\ rank[m] = rank'[m] /\ rank[m] \in Nat
    BY <1>2, <1>3, <1>6
  <2>2. ops > 0
    BY <1>2, <2>1 DEF LinkInv
  <2>3. prev \in Lines /\ root # Null /\ rank[prev] = ops
    BY <2>2, LinesFacts DEF LinkInv, TypeOK
  <2>4. next' = [next EXCEPT ![prev] = l] /\ next \in [Lines -> Lines \cup {Null}]
    BY <2>3 DEF Link, TypeOK
  <2>5. CASE m = prev
    BY <1>2, <1>3, <2>1, <2>3, <2>4, <2>5
  <2>6. CASE m # prev
    <3>1. next'[m] = next[m]
      BY <2>4, <2>6
    <3>2. next[m] \in Lines /\ rank[next[m]] > rank[m]
      BY <2>1, <2>6 DEF LinkInv
    <3>3. rank'[next[m]] >= rank[next[m]] /\ rank[next[m]] \in Nat
          /\ rank'[next[m]] \in Nat
      BY <1>2, <1>3, <1>4, <3>2
    <3>4. QED
      BY <2>1, <3>1, <3>2, <3>3
  <2>7. QED
    BY <2>5, <2>6
<1>7. QED
  BY <1>1, <1>2, <1>3, <1>4, <1>5, <1>6 DEF LinkInv

(* A line never linked before, a stride from the end of the chain.         *)
LEMMA LinkKeepsStrides ==
  ASSUME TypeOK, LinkInv, StridedInv, exp.pattern = "strided",
         NEW l \in Lines, Link(l), exp' = exp, rank[l] = 0,
         ops > 0 => l = prev + exp.stride
  PROVE  /\ rank'[root'] = 1
         /\ \A m \in Lines :
              /\ rank'[m] = 0 => next'[m] = Null
              /\ rank'[m] >= 1 /\ m # l =>
                   next'[m] = m + exp.stride /\ rank'[next'[m]] = rank'[m] + 1
              /\ rank'[m] >= 1 /\ exp.stride > 0 => m <= l
              /\ rank'[m] >= 1 /\ exp.stride < 0 => m >= l
<1>1. /\ ops \in Nat /\ ops' = ops + 1
      /\ rank \in [Lines -> Nat] /\ rank' = [rank EXCEPT ![l] = ops + 1]
      /\ next \in [Lines -> Lines \cup {Null}]
      /\ exp \in Geometry
  BY DEF TypeOK, Link
<1>2. rank'[l] = ops + 1 /\ \A m \in Lines : m # l => rank'[m] = rank[m]
  BY <1>1
<1>g. exp.stride \in Int /\ Lines \subseteq Nat /\ Null \notin Lines
  BY <1>1, GeometryFacts, LinesFacts
<1>3. CASE ops = 0
  <2>1. root' = l /\ next' = next /\ \A m \in Lines : rank[m] = 0
    BY <1>1, <1>3 DEF Link, LinkInv
  <2>2. \A m \in Lines : next[m] = Null
    BY <2>1 DEF StridedInv
  <2>3. \A m \in Lines : rank'[m] >= 1 => m = l
    BY <1>2, <2>1
  <2>4. l <= l /\ l >= l
    BY <1>g
  <2>6. QED
    BY <1>2, <1>3, <2>1, <2>2, <2>3, <2>4
<1>4. CASE ops > 0
  <2>1. /\ root \in Lines /\ prev \in Lines /\ rank[root] = 1
        /\ rank[prev] = ops /\ l = prev + exp.stride
    BY <1>4 DEF LinkInv, StridedInv
  <2>2. root' = root /\ next' = [next EXCEPT ![prev] = l]
    BY <1>g, <2>1 DEF Link
  <2>3. root # l /\ prev # l
    BY <1>4, <2>1
  <2>4. rank'[root'] = 1
    BY <1>2, <2>1, <2>2, <2>3
  <2>5. ASSUME NEW m \in Lines
        PROVE  /\ rank'[m] = 0 => next'[m] = Null
               /\ rank'[m] >= 1 /\ m # l =>
                    next'[m] = m + exp.stride /\ rank'[next'[m]] = rank'[m] + 1
               /\ rank'[m] >= 1 /\ exp.stride > 0 => m <= l
               /\ rank'[m] >= 1 /\ exp.stride < 0 => m >= l
    <3>1. CASE m = l
      BY <1>1, <1>2, <1>g, <3>1
    <3>2. CASE m = prev
      <4>1. next'[m] = l /\ rank'[m] = ops /\ rank'[l] = ops + 1
        BY <1>1, <1>2, <2>1, <2>2, <2>3, <3>2
      <4>2. QED
        BY <1>4, <1>g, <2>1, <3>2, <4>1
    <3>3. CASE m # l /\ m # prev
      <4>1. next'[m] = next[m] /\ rank'[m] = rank[m] /\ rank[m] \in Nat
        BY <1>1, <1>2, <2>2, <3>3
      <4>2. rank[m] = 0 => next[m] = Null
        BY DEF StridedInv
      <4>3. ASSUME rank[m] >= 1
            PROVE  /\ next[m] = m + exp.stride
                   /\ rank'[next[m]] = rank[m] + 1
        <5>1. /\ next[m] = m + exp.stride /\ rank[next[m]] = rank[m] + 1
              /\ next[m] \in Lines
          BY <3>3, <4>3 DEF StridedInv, LinkInv
        <5>2. next[m] # l
          BY <4>1, <4>3, <5>1
        <5>3. QED
          BY <1>2, <5>1, <5>2
      <4>4. /\ rank[m] >= 1 /\ exp.stride > 0 => m <= prev
            /\ rank[m] >= 1 /\ exp.stride < 0 => m >= prev
        BY DEF StridedInv
      <4>5. QED
        BY <1>g, <2>1, <4>1, <4>2, <4>3, <4>4
    <3>4. QED
      BY <3>1, <3>2, <3>3
  <2>6. QED
    BY <2>4, <2>5
<1>5. QED
  BY <1>1, <1>3, <1>4

-----------------------------------------------------------------------------
(* One lemma for each action                                               *)

LEMMA StartStep ==
  ASSUME BaseInv, RandomStart \/ StridedStart PROVE BaseInv'
<1>1. /\ exp' = exp /\ exp \in Geometry /\ Lines' = Lines /\ Stride' = Stride
      /\ UNCHANGED <<page, j, last, linkVars, chaseVars>>
  BY DEF BaseInv, TypeOK, RandomStart, StridedStart, drawVars, Lines, Stride
<1> USE <1>1, GeometryFacts, LinesFacts, PrimesAssumption
    DEF BaseInv, linkVars, chaseVars, drawVars
<1>2. i' = 0 /\ phase = "init" /\ ops = 0
  BY DEF RandomStart, StridedStart, CounterInv
<1>3. TypeOK'
  <2>1. /\ pageFactor' \in Nat /\ pageOffset' \in Nat /\ lineFactor' \in Nat
        /\ lineOffset' \in Nat /\ phase' \in Phases
    <3>1. CASE RandomStart
      BY <3>1 DEF TypeOK, RandomStart, Phases
    <3>2. CASE StridedStart
      BY <3>2 DEF TypeOK, StridedStart, Phases
    <3>3. QED
      BY <3>1, <3>2
  <2>2. QED
    BY <1>2, <2>1 DEF TypeOK
<1>4. CounterInv'
  BY <1>2 DEF CounterInv, RandomStart, StridedStart
<1>5. LinkInv' /\ ChaseInv'
  BY <1>2 DEF LinkInv, ChaseInv, RandomStart, StridedStart
<1>6. StridedInv'
  BY <1>2 DEF StridedInv, RandomStart, StridedStart
<1>7. QED
  BY <1>3, <1>4, <1>5, <1>6

LEMMA RandomPageStep ==
  ASSUME BaseInv, RandomPage PROVE BaseInv'
<1>1. /\ exp' = exp /\ exp \in Geometry /\ Lines' = Lines
      /\ UNCHANGED <<i, last, linkVars, chaseVars>>
      /\ phase = "page" /\ phase' = "line" /\ exp.pattern = "random"
  BY DEF BaseInv, TypeOK, CounterInv, RandomPage, Lines
<1> USE <1>1, GeometryFacts, LinesFacts, PrimesAssumption
    DEF BaseInv, linkVars, chaseVars
<1>2. TypeOK'
  <2>1. page' \in 0 .. exp.pages - 1
    BY DEF TypeOK, RandomPage
  <2>2. lineFactor' \in Nat /\ lineOffset' \in Nat /\ j' = 0
    BY DEF TypeOK, RandomPage
  <2>3. QED
    BY <2>1, <2>2 DEF TypeOK, RandomPage, Phases
<1>3. CounterInv' /\ LinkInv' /\ ChaseInv' /\ StridedInv'
  BY DEF CounterInv, LinkInv, ChaseInv, StridedInv
<1>4. QED
  BY <1>2, <1>3

LEMMA RandomLineStep ==
  ASSUME BaseInv, RandomLine PROVE BaseInv'
<1>1. /\ exp' = exp /\ exp \in Geometry /\ Lines' = Lines
      /\ UNCHANGED <<drawVars, last, chaseVars>>
      /\ phase = "line" /\ exp.pattern = "random"
      /\ phase' \in {"line", "page", "close"} /\ i' \in Int
      /\ TypeOK /\ LinkInv
  BY DEF BaseInv, TypeOK, CounterInv, RandomLine, Lines
<1> DEFINE l == page * exp.lines + ((lineFactor * j + lineOffset) % exp.lines)
<1>2. l \in Lines
  <2>1. /\ exp.pages \in Nat /\ exp.pages >= 1 /\ exp.lines \in Nat
        /\ exp.lines >= 1 /\ page \in 0 .. exp.pages - 1
        /\ lineFactor \in Nat /\ lineOffset \in Nat /\ j \in Nat
    BY <1>1, GeometryFacts DEF TypeOK
  <2>2. lineFactor * j + lineOffset \in Nat
    BY <2>1
  <2>3. (lineFactor * j + lineOffset) % exp.lines \in 0 .. exp.lines - 1
    BY <2>1, <2>2
  <2>4. QED
    BY <2>1, <2>3, LineInChain DEF Lines, LinesPerChain
<1>3. Link(l)
  BY DEF RandomLine
<1>4. j' \in 0 .. exp.lines - 1
  BY <1>1, GeometryFacts DEF TypeOK, RandomLine
<1> HIDE DEF l
<1>5. /\ root' \in Lines /\ prev' \in Lines
      /\ next' \in [Lines -> Lines \cup {Null}]
      /\ ops' \in Nat /\ rank' \in [Lines -> Nat]
  BY <1>1, <1>2, <1>3, LinkType
<1>6. LinkInv' /\ ops' > 0
  BY <1>1, <1>2, <1>3, LinkKeepsLinkInv
<1>7. TypeOK'
  BY <1>1, <1>4, <1>5 DEF TypeOK, drawVars, chaseVars, Phases
<1>8. CounterInv' /\ ChaseInv' /\ StridedInv'
  BY <1>1, <1>6 DEF BaseInv, CounterInv, ChaseInv, StridedInv, chaseVars
<1>9. QED
  BY <1>6, <1>7, <1>8 DEF BaseInv

LEMMA ScanStep ==
  ASSUME BaseInv, Scan PROVE BaseInv'
<1>1. /\ exp' = exp /\ exp \in Geometry /\ Lines' = Lines
      /\ UNCHANGED <<drawVars, j, linkVars, chaseVars>>
      /\ phase = "scan" /\ exp.pattern = "strided" /\ exp.stride < 0
      /\ i \in Lines /\ ops = 0 /\ last' = i
      /\ phase' \in {"scan", "reverse"}
  BY DEF BaseInv, TypeOK, CounterInv, Scan, Lines
<1> USE <1>1, GeometryFacts, LinesFacts DEF BaseInv, linkVars, chaseVars, drawVars
<1>2. i' \in Lines
  BY DEF Scan, Lines
<1>3. TypeOK'
  BY <1>2 DEF TypeOK, Phases
<1>4. CounterInv' /\ LinkInv' /\ ChaseInv' /\ StridedInv'
  BY <1>2 DEF CounterInv, LinkInv, ChaseInv, StridedInv
<1>5. QED
  BY <1>3, <1>4

LEMMA StridedStep ==
  ASSUME BaseInv, Forward \/ Reverse PROVE BaseInv'
<1>1. /\ exp' = exp /\ exp \in Geometry /\ Lines' = Lines
      /\ UNCHANGED <<drawVars, j, last, chaseVars>>
      /\ phase \in {"forward", "reverse"} /\ exp.pattern = "strided"
      /\ i \in Lines /\ Link(i)
      /\ phase' \in {phase, "close"}
      /\ phase = "forward" => exp.stride > 0
      /\ phase = "reverse" => exp.stride < 0
      /\ TypeOK /\ LinkInv /\ StridedInv
  BY DEF BaseInv, TypeOK, CounterInv, Forward, Reverse, Lines
<1>g. exp.stride \in Int /\ Lines \subseteq Nat
  BY <1>1, GeometryFacts, LinesFacts
<1>2. i' = i + exp.stride /\ i' \in Int
  BY <1>1, <1>g DEF Forward, Reverse, Stride
<1>3. IF phase' = "close" THEN i' \notin Lines ELSE i' \in Lines
  <2>1. CASE Forward
    BY <1>1, <1>g, <1>2, <2>1, LinesFacts DEF Forward, Lines, Stride
  <2>2. CASE Reverse
    BY <1>1, <1>g, <1>2, <2>2, LinesFacts DEF Reverse, Lines, Stride
  <2>3. QED
    BY <2>1, <2>2
<1>4. ops > 0 => i = prev + exp.stride
  BY <1>1 DEF StridedInv
<1>5. rank[i] = 0
  <2>1. rank[i] \in Nat /\ ops \in Nat /\ rank[i] <= ops
    BY <1>1 DEF TypeOK, LinkInv
  <2>2. ASSUME rank[i] >= 1 PROVE FALSE
    <3>1. ops > 0
      BY <2>1, <2>2
    <3>2. prev \in Lines /\ i = prev + exp.stride
      BY <1>1, <1>4, <3>1 DEF LinkInv
    <3>3. (exp.stride > 0 => i <= prev) /\ (exp.stride < 0 => i >= prev)
      BY <1>1, <2>2 DEF StridedInv
    <3>4. exp.stride # 0
      BY <1>1, GeometryFacts
    <3>5. QED
      BY <1>g, <3>2, <3>3, <3>4
  <2>3. QED
    BY <2>1, <2>2
<1>6. /\ root' \in Lines /\ prev' \in Lines
      /\ next' \in [Lines -> Lines \cup {Null}]
      /\ ops' \in Nat /\ rank' \in [Lines -> Nat]
  BY <1>1, LinkType
<1>7. LinkInv' /\ ops' > 0
  BY <1>1, LinkKeepsLinkInv
<1>8. TypeOK'
  BY <1>1, <1>2, <1>6 DEF TypeOK, drawVars, chaseVars, Phases
<1>9. CounterInv' /\ ChaseInv'
  BY <1>1, <1>3, <1>7 DEF BaseInv, CounterInv, ChaseInv, chaseVars
<1>10. prev' = i
  BY <1>1 DEF Link
<1>11. StridedInv'
  <2>1. /\ rank'[root'] = 1
        /\ \A m \in Lines :
             /\ rank'[m] = 0 => next'[m] = Null
             /\ rank'[m] >= 1 /\ m # i =>
                  next'[m] = m + exp.stride /\ rank'[next'[m]] = rank'[m] + 1
             /\ rank'[m] >= 1 /\ exp.stride > 0 => m <= i
             /\ rank'[m] >= 1 /\ exp.stride < 0 => m >= i
    BY <1>1, <1>4, <1>5, LinkKeepsStrides
  <2>2. phase' \notin {"chase", "return"}
    BY <1>1
  <2>3. QED
    BY <1>1, <1>2, <1>3, <1>10, <2>1, <2>2 DEF StridedInv
<1>12. QED
  BY <1>7, <1>8, <1>9, <1>11 DEF BaseInv

LEMMA CloseStep ==
  ASSUME BaseInv, Close PROVE BaseInv'
<1>1. /\ exp' = exp /\ exp \in Geometry /\ Lines' = Lines
      /\ UNCHANGED <<drawVars, i, j, last, root, prev, ops, rank, hops, touched>>
      /\ phase = "close" /\ phase' = "chase" /\ pos' = root
      /\ next' = [next EXCEPT ![prev] = root]
      /\ ops > 0 /\ hops = 0
      /\ TypeOK /\ LinkInv /\ StridedInv
  BY DEF BaseInv, TypeOK, CounterInv, ChaseInv, Close, Lines
<1>2. root \in Lines /\ prev \in Lines /\ rank[root] >= 1 /\ rank[prev] = ops
  BY <1>1 DEF LinkInv
<1>3. next'[prev] = root /\ \A l \in Lines : l # prev => next'[l] = next[l]
  BY <1>1, <1>2 DEF TypeOK
<1>4. TypeOK'
  BY <1>1, <1>2 DEF TypeOK, drawVars, Phases
<1>5. CounterInv' /\ LinkInv'
  BY <1>1, <1>2, <1>3 DEF BaseInv, CounterInv, LinkInv
<1>6. ChaseInv'
  BY <1>1, <1>2, <1>3 DEF ChaseInv, TypeOK
<1>7. StridedInv'
  <2>1. SUFFICES ASSUME exp.pattern = "strided" PROVE StridedInv'
    BY <1>1 DEF StridedInv
  <2>2. rank[root] = 1 /\ prev + exp.stride \notin Lines
    BY <1>1, <2>1 DEF StridedInv
  <2>3. \A l \in Lines : rank[l] = 0 => next'[l] = Null
    BY <1>1, <1>2, <1>3, <2>1 DEF StridedInv, TypeOK
  <2>4. \A l \in Lines :
         /\ rank[l] >= 1 /\ l # prev =>
              next'[l] = l + exp.stride /\ rank[next'[l]] = rank[l] + 1
         /\ rank[l] >= 1 /\ exp.stride > 0 => l <= prev
         /\ rank[l] >= 1 /\ exp.stride < 0 => l >= prev
    BY <1>1, <1>3, <2>1 DEF StridedInv
  <2>5. hops' = rank'[pos'] - 1
    BY <1>1, <2>2
  <2>6. QED
    BY <1>1, <2>2, <2>3, <2>4, <2>5 DEF StridedInv
<1>8. QED
  BY <1>4, <1>5, <1>6, <1>7 DEF BaseInv

LEMMA HopStep ==
  ASSUME BaseInv, Hop PROVE BaseInv'
<1>1. /\ exp' = exp /\ exp \in Geometry /\ Lines' = Lines
      /\ UNCHANGED <<drawVars, i, j, last, linkVars>>
      /\ phase = "chase" /\ pos' = next[pos] /\ hops' = hops + 1
      /\ phase' = IF next[pos] = root THEN "return" ELSE "chase"
      /\ pos \in Lines /\ rank[pos] >= 1 /\ hops < rank[pos]
      /\ next[prev] = root /\ ops > 0
      /\ TypeOK /\ LinkInv /\ StridedInv
  BY DEF BaseInv, TypeOK, CounterInv, ChaseInv, Hop, Lines
<1>2. root \in Lines /\ prev \in Lines /\ rank[root] >= 1 /\ rank[prev] = ops
  BY <1>1 DEF LinkInv
<1>3. rank[pos] <= ops /\ rank[pos] \in Nat /\ ops \in Nat /\ hops \in Nat
  BY <1>1 DEF LinkInv, TypeOK
<1>4. pos # prev => next[pos] \in Lines /\ rank[next[pos]] > rank[pos]
  BY <1>1 DEF LinkInv
<1>5. touched' \subseteq Lines
  <2>1. next[pos] \in Lines
    BY <1>1, <1>2, <1>4
  <2>2. touched \subseteq Lines /\ touched' = touched \cup {next[pos]}
    BY <1>1 DEF TypeOK, Hop
  <2> QED  BY <2>1, <2>2
<1>6. TypeOK'
  BY <1>1, <1>2, <1>4, <1>5 DEF TypeOK, drawVars, linkVars, Phases
<1>7. CounterInv' /\ LinkInv'
  BY <1>1 DEF BaseInv, CounterInv, LinkInv, linkVars
<1>8. ChaseInv'
  <2>1. CASE pos = prev
    BY <1>1, <1>2, <1>3, <2>1 DEF ChaseInv, linkVars
  <2>2. CASE pos # prev
    <3>1. rank[next[pos]] \in Nat /\ rank[next[pos]] <= ops
      BY <1>1, <1>4, <2>2 DEF TypeOK, LinkInv
    <3>2. QED
      BY <1>1, <1>3, <1>4, <2>2, <3>1 DEF ChaseInv, linkVars
  <2>3. QED
    BY <2>1, <2>2
<1>9. StridedInv'
  <2>1. SUFFICES ASSUME exp.pattern = "strided" PROVE StridedInv'
    BY <1>1 DEF StridedInv
  <2>2. rank[root] = 1 /\ hops = rank[pos] - 1
    BY <1>1, <2>1 DEF StridedInv
  <2>3. CASE pos = prev
    <3>1. hops' = ops /\ phase' = "return"
      BY <1>1, <1>2, <1>3, <2>2, <2>3
    <3>2. QED
      BY <1>1, <2>1, <3>1 DEF StridedInv, linkVars
  <2>4. CASE pos # prev
    <3>1. rank[next[pos]] = rank[pos] + 1
      BY <1>1, <2>1, <2>4 DEF StridedInv
    <3>2. next[pos] # root
      BY <1>1, <1>3, <2>2, <3>1
    <3>3. hops' = rank[next[pos]] - 1 /\ phase' = "chase"
      BY <1>1, <1>3, <2>2, <3>1, <3>2
    <3>4. QED
      BY <1>1, <2>1, <3>3 DEF StridedInv, linkVars
  <2>5. QED
    BY <2>3, <2>4
<1>10. QED
  BY <1>6, <1>7, <1>8, <1>9 DEF BaseInv

LEMMA StepBase == BaseInv /\ [Next]_vars => BaseInv'
<1> SUFFICES ASSUME BaseInv, [Next]_vars PROVE BaseInv'
  OBVIOUS
<1>1. CASE UNCHANGED vars
  <2>1. TypeOK'
    BY <1>1 DEF BaseInv, TypeOK, Lines, vars
  <2>2. QED
    BY <1>1, <2>1 DEF BaseInv, CounterInv, LinkInv, ChaseInv, StridedInv, Lines, vars
<1>2. QED
  BY <1>1, StartStep, RandomPageStep, RandomLineStep, ScanStep, StridedStep,
     CloseStep, HopStep DEF Next, Random, Strided, Returned

-----------------------------------------------------------------------------
(* Random chains whose sizes no factor divides                             *)

(* The drawn factors are primes that divide neither size, so that          *)
(* FactorPermutes applies to both loops.                                   *)
LEMMA FactorFacts ==
  ASSUME Coprime, NEW p \in PrimeTable
  PROVE  p \in Nat /\ Prime(p) /\ exp.pages % p # 0 /\ exp.lines % p # 0
BY PrimesAssumption DEF Coprime, Prime

LEMMA InitRandom == Init => RandomInv
<1> SUFFICES ASSUME Init PROVE DrawInv /\ RankInv /\ WalkInv
  BY DEF RandomInv
<1>1. exp \in Geometry
  BY GeometryAssumption DEF Init
<1>2. LinkedLines = {}
  BY DEF Init, LinkedLines
<1>3. 0 = 0 * exp.lines + 0
  BY <1>1, GeometryFacts
<1>4. DrawInv
  BY <1>3 DEF Init, DrawInv
<1>5. RankInv
  BY <1>2, FS_EmptySet DEF Init, RankInv
<1> QED  BY <1>4, <1>5 DEF Init, WalkInv

(* Nothing is to be shown of a strided chain.                              *)
LEMMA StridedNotRandom ==
  ASSUME BaseInv, StridedStart \/ Forward \/ Scan \/ Reverse PROVE RandomInv'
<1>1. exp' = exp /\ exp.pattern = "strided"
  BY DEF BaseInv, CounterInv, StridedStart, Forward, Scan, Reverse
<1> QED  BY <1>1 DEF RandomInv

(* The loop counters and what was drawn, whatever was drawn.               *)
LEMMA DrawStep ==
  ASSUME BaseInv, exp.pattern = "random", DrawInv, [Next]_vars PROVE DrawInv'
<1>1. /\ exp' = exp /\ exp.pages \in Nat /\ exp.pages >= 1 /\ exp.lines \in Nat /\ exp.lines >= 1
      /\ j \in 0 .. exp.lines - 1 /\ ops \in Nat
  BY GeometryFacts DEF BaseInv, TypeOK, Next, Random, Strided, RandomStart, RandomPage,
     RandomLine, StridedStart, Forward, Scan, Reverse, Close, Hop, Returned, vars
<1>2. CASE RandomStart
  BY <1>1, <1>2 DEF DrawInv, RandomStart, linkVars
<1>3. CASE RandomPage
  <2>1. phase = "page" /\ phase' = "line" /\ j' = 0 /\ UNCHANGED <<pageFactor, pageOffset, i, ops>>
    BY <1>3 DEF RandomPage, linkVars
  <2> QED  BY <1>1, <1>3, <2>1 DEF DrawInv, RandomPage, PageAt
<1>4. CASE RandomLine
  <2>1. /\ UNCHANGED <<pageFactor, pageOffset, lineFactor, lineOffset, page>>
        /\ i \in 0 .. exp.pages - 1 /\ ops = i * exp.lines + j /\ ops' = ops + 1
        /\ page = PageAt(i) /\ pageFactor \in PrimeTable /\ lineFactor \in PrimeTable
    BY <1>1, <1>4 DEF RandomLine, drawVars, DrawInv, Link
  <2>i. exp.pages \in Nat /\ i \in 0 .. exp.pages - 1
    BY <1>1, <2>1
  <2>2. \/ j + 1 < exp.lines /\ j' = j + 1 /\ i' = i /\ phase' = "line"
        \/ /\ j + 1 = exp.lines /\ j' = 0 /\ i' = i + 1
           /\ phase' = IF i + 1 < exp.pages THEN "page" ELSE "close"
    BY <1>1, <1>4 DEF RandomLine
  <2>3. ops' = i' * exp.lines + j'
    <3>1. (i + 1) * exp.lines = i * exp.lines + exp.lines /\ i * exp.lines \in Int
      BY <1>1, <2>1
    <3> QED  BY <1>1, <2>1, <2>2, <3>1
  <2>4. i' = i => page' = PageAt(i)'
    BY <1>1, <2>1 DEF PageAt
  <2>5. CASE phase' = "line"
    <3>1. i' = i /\ j' = j + 1
      BY <2>2, <2>5
    <3>2. PageAt(i)' = page'
      BY <2>4, <3>1
    <3> QED  BY <1>1, <2>1, <2>3, <2>5, <3>1, <3>2 DEF DrawInv
  <2>6. CASE phase' = "page"
    BY <1>1, <2>1, <2>2, <2>3, <2>6 DEF DrawInv
  <2>7. CASE phase' = "close"
    <3>1. i' = exp.pages /\ j' = 0
      BY <2>2, <2>i, <2>7
    <3> QED  BY <1>1, <2>1, <2>3, <2>7, <3>1 DEF DrawInv
  <2> QED  BY <2>2, <2>5, <2>6, <2>7
<1>5. CASE Close \/ Hop
  <2>1. /\ UNCHANGED <<pageFactor, pageOffset, lineFactor, lineOffset, page, i, j, ops>>
        /\ phase \in {"close", "chase"} /\ phase' \in {"chase", "return"}
    BY <1>5 DEF Close, Hop, drawVars, linkVars
  <2> QED  BY <1>1, <2>1 DEF DrawInv
<1>6. CASE UNCHANGED vars
  BY <1>6 DEF vars, DrawInv, PageAt
<1>7. ~Strided
  BY DEF BaseInv, CounterInv, Strided, StridedStart, Forward, Scan, Reverse
<1> QED  BY <1>2, <1>3, <1>4, <1>5, <1>6, <1>7 DEF Next, Random, Returned

LEMMA RandomStartRandom ==
  ASSUME BaseInv, RandomInv, RandomStart PROVE RandomInv'
<1>1. /\ exp' = exp /\ Lines' = Lines /\ exp \in Geometry
      /\ UNCHANGED <<page, j, last, linkVars, chaseVars>>
      /\ phase = "init" /\ phase' = "page" /\ i' = 0 /\ ops = 0
  BY DEF BaseInv, TypeOK, CounterInv, RandomStart, Lines
<1>2. SUFFICES ASSUME exp.pattern = "random", Coprime
               PROVE  DrawInv' /\ RankInv' /\ WalkInv'
  BY <1>1 DEF RandomInv, Coprime
<1>3. DrawInv /\ RankInv
  BY <1>2 DEF RandomInv
<1>5. DrawInv'
  BY <1>2, <1>3, DrawStep DEF Next, Random
<1>6. \A l \in Lines : rank[l] <= 0 /\ rank[l] \in Nat
  BY <1>1 DEF BaseInv, LinkInv, TypeOK
<1>7. LinkedLines = {} /\ LinkedLines' = {}
  BY <1>1, <1>6 DEF LinkedLines, linkVars
<1>8. RankInv'
  BY <1>1, <1>3, <1>7 DEF RankInv, linkVars
<1> QED  BY <1>1, <1>5, <1>8 DEF WalkInv

LEMMA RandomPageRandom ==
  ASSUME BaseInv, RandomInv, RandomPage PROVE RandomInv'
<1>1. /\ exp' = exp /\ Lines' = Lines /\ exp \in Geometry
      /\ UNCHANGED <<pageFactor, pageOffset, i, last, linkVars, chaseVars>>
      /\ phase = "page" /\ phase' = "line" /\ j' = 0
  BY DEF BaseInv, TypeOK, CounterInv, RandomPage, Lines
<1>2. SUFFICES ASSUME exp.pattern = "random", Coprime
               PROVE  DrawInv' /\ RankInv' /\ WalkInv'
  BY <1>1 DEF RandomInv, Coprime
<1>3. DrawInv /\ RankInv
  BY <1>2 DEF RandomInv
<1>4. j = 0 /\ i \in 0 .. exp.pages - 1
  BY <1>1, <1>3 DEF DrawInv
<1>5. DrawInv'
  BY <1>2, <1>3, DrawStep DEF Next, Random
<1>6. LinkedLines' = LinkedLines
  BY <1>1 DEF LinkedLines, linkVars
<1>7. ASSUME NEW l \in LinkedLines
      PROVE  \E a \in 0 .. i, b \in 0 .. exp.lines - 1 :
               /\ rank[l] = a * exp.lines + b + 1
               /\ PageOf(l) = PageAt(a)
               /\ a # i
  <2>1. PICK a \in 0 .. i, b \in 0 .. exp.lines - 1 :
               /\ rank[l] = a * exp.lines + b + 1
               /\ PageOf(l) = PageAt(a)
               /\ a = i => b < j /\ l = LineAt(b)
    BY <1>3 DEF RankInv
  <2>2. a # i
    BY <1>4, <2>1
  <2> QED  BY <2>1, <2>2
<1>8. \A l \in LinkedLines : PageOf(l)' = PageOf(l)
  BY <1>1 DEF PageOf
<1>9. \A a : PageAt(a)' = PageAt(a)
  BY <1>1 DEF PageAt
<1>10. RankInv'
  BY <1>1, <1>3, <1>6, <1>7, <1>8, <1>9 DEF RankInv, linkVars
<1> QED  BY <1>1, <1>5, <1>10 DEF WalkInv

(* The line that a round of the inner loop links is not linked yet.        *)
LEMMA FreshLine ==
  ASSUME BaseInv, DrawInv, RankInv, Coprime, phase = "line"
  PROVE  /\ LineAt(j) \in Lines /\ PageOf(LineAt(j)) = PageAt(i)
         /\ rank[LineAt(j)] = 0
<1>1. /\ exp.pages \in Nat \ {0} /\ exp.lines \in Nat \ {0}
      /\ pageFactor \in PrimeTable /\ lineFactor \in PrimeTable
      /\ pageOffset \in Nat /\ lineOffset \in Nat
      /\ page \in 0 .. exp.pages - 1 /\ page = PageAt(i)
      /\ i \in 0 .. exp.pages - 1 /\ j \in 0 .. exp.lines - 1
  BY GeometryFacts DEF BaseInv, TypeOK, DrawInv
<1>2. /\ pageFactor \in Nat /\ Prime(pageFactor) /\ exp.pages % pageFactor # 0
      /\ lineFactor \in Nat /\ Prime(lineFactor) /\ exp.lines % lineFactor # 0
  BY <1>1, FactorFacts
<1> DEFINE x(b) == (lineFactor * b + lineOffset) % exp.lines
<1>3. \A b \in 0 .. exp.lines - 1 : x(b) \in 0 .. exp.lines - 1
  <2> SUFFICES ASSUME NEW b \in 0 .. exp.lines - 1
               PROVE  x(b) \in 0 .. exp.lines - 1
    OBVIOUS
  <2>1. lineFactor * b + lineOffset \in Int
    BY <1>1, <1>2
  <2> QED  BY <1>1, <2>1
<1>4. \A b : LineAt(b) = page * exp.lines + x(b)
  BY DEF LineAt
<1>5. \A a, b \in 0 .. exp.lines - 1 : x(a) = x(b) => a = b
  BY <1>1, <1>2, FactorPermutes
<1> HIDE DEF x
<1>6. LineAt(j) \in Lines
  BY <1>1, <1>3, <1>4, LineInChain DEF Lines, LinesPerChain
<1>7. PageOf(LineAt(j)) = PageAt(i)
  <2>1. LineAt(j) = exp.lines * page + x(j)
    BY <1>1, <1>3, <1>4
  <2>2. (exp.lines * page + x(j)) \div exp.lines = page
    <3>1. page \in Int /\ x(j) \in 0 .. exp.lines - 1
      BY <1>1, <1>3
    <3> QED  BY <1>1, <3>1, QuotientRemainder, Zenon
  <2> QED  BY <1>1, <2>1, <2>2 DEF PageOf
<1>8. rank[LineAt(j)] \in Nat
  BY <1>6 DEF BaseInv, TypeOK
<1>9. ASSUME rank[LineAt(j)] >= 1 PROVE FALSE
  <2>1. LineAt(j) \in LinkedLines
    BY <1>6, <1>9 DEF LinkedLines
  <2>2. PICK a \in 0 .. i, b \in 0 .. exp.lines - 1 :
          /\ PageOf(LineAt(j)) = PageAt(a)
          /\ a = i => b < j /\ LineAt(j) = LineAt(b)
    BY <2>1 DEF RankInv
  <2>3. a \in 0 .. exp.pages - 1
    BY <1>1, <2>2
  <2>4. (pageFactor * a + pageOffset) % exp.pages
          = (pageFactor * i + pageOffset) % exp.pages
    BY <1>7, <2>2 DEF PageAt
  <2>5. a = i
    BY <1>1, <1>2, <2>3, <2>4, FactorPermutes
  <2>6. b < j /\ x(j) = x(b)
    <3>1. page * exp.lines \in Int /\ x(j) \in Int /\ x(b) \in Int
      BY <1>1, <1>3
    <3>2. page * exp.lines + x(j) = page * exp.lines + x(b)
      BY <1>4, <2>2, <2>5
    <3>3. \A u, v, w \in Int : u + v = u + w => v = w
      OBVIOUS
    <3>4. x(j) = x(b)
      BY <3>1, <3>2, <3>3, Zenon
    <3> QED  BY <2>2, <2>5, <3>4
  <2>7. b = j
    BY <1>1, <1>5, <2>2, <2>6, Zenon
  <2> QED  BY <1>1, <2>6, <2>7
<1> QED  BY <1>6, <1>7, <1>8, <1>9

(* Linking a line for the first time adds one line and one rank.           *)
LEMMA LinkFresh ==
  ASSUME BaseInv, RankInv, NEW l \in Lines, Link(l), exp' = exp, rank[l] = 0
  PROVE  /\ LinkedLines' = LinkedLines \cup {l}
         /\ Cardinality(LinkedLines') = ops'
         /\ rank'[root'] = 1
         /\ rank'[l] = ops + 1 /\ \A m \in LinkedLines : m # l /\ rank'[m] = rank[m]
         /\ \A m \in LinkedLines : rank'[next'[m]] = rank'[m] + 1
         /\ \A m, k \in LinkedLines' : rank'[m] = rank'[k] => m = k
<1>1. /\ ops \in Nat /\ ops' = ops + 1 /\ Lines' = Lines
      /\ rank \in [Lines -> Nat] /\ rank' = [rank EXCEPT ![l] = ops + 1]
      /\ next \in [Lines -> Lines \cup {Null}]
      /\ exp \in Geometry
      /\ LinkInv
  BY DEF BaseInv, TypeOK, Link, Lines
<1>2. rank'[l] = ops + 1 /\ \A m \in Lines : m # l => rank'[m] = rank[m]
  BY <1>1
<1>3. l \notin LinkedLines /\ LinkedLines \subseteq Lines
  BY DEF LinkedLines
<1>4. LinkedLines' = LinkedLines \cup {l}
  BY <1>1, <1>2, <1>3 DEF LinkedLines
<1>5. Cardinality(LinkedLines') = ops'
  <2>1. IsFiniteSet(Lines)
    <3>1. LinesPerChain(exp) \in Nat
      BY <1>1, LinesFacts
    <3> QED  BY <3>1, FS_Interval DEF Lines
  <2>2. IsFiniteSet(LinkedLines)
    BY <1>3, <2>1, FS_Subset
  <2>3. Cardinality(LinkedLines \cup {l}) = Cardinality(LinkedLines) + 1
    BY <1>3, <2>2, FS_AddElement
  <2> QED  BY <1>1, <1>4, <2>3 DEF RankInv
<1>6. \A m \in LinkedLines : m # l /\ rank'[m] = rank[m] /\ rank[m] \in 1 .. ops
  BY <1>1, <1>2, <1>3 DEF LinkedLines, LinkInv
<1>7. \A m, k \in LinkedLines' : rank'[m] = rank'[k] => m = k
  BY <1>1, <1>2, <1>4, <1>6 DEF RankInv
<1>8. rank'[root'] = 1
  <2>1. CASE ops = 0
    BY <1>1, <1>2, <2>1 DEF Link, LinkInv
  <2>2. CASE ops > 0
    <3>1. root \in LinkedLines /\ root # Null /\ rank[root] = 1
      BY <1>1, <2>2, LinesFacts DEF RankInv, LinkInv, LinkedLines
    <3> QED  BY <1>6, <3>1 DEF Link
  <2> QED  BY <1>1, <2>1, <2>2
<1>9. ASSUME NEW m \in LinkedLines PROVE rank'[next'[m]] = rank'[m] + 1
  <2>1. ops > 0
    BY <1>1, <1>6
  <2>2. root # Null /\ prev \in Lines /\ rank[prev] = ops
    BY <1>1, <2>1, LinesFacts DEF LinkInv
  <2>3. next' = [next EXCEPT ![prev] = l]
    BY <2>2 DEF Link
  <2>4. CASE m = prev
    BY <1>1, <1>2, <1>6, <2>2, <2>3, <2>4
  <2>5. CASE m # prev
    <3>1. next'[m] = next[m]
      BY <1>1, <1>3, <2>3, <2>5
    <3>2. next[m] \in Lines /\ rank[next[m]] = rank[m] + 1
      BY <1>1, <1>3, <2>5 DEF LinkInv, RankInv, LinkedLines
    <3>3. next[m] # l
      BY <1>6, <3>2
    <3> QED  BY <1>2, <1>6, <3>1, <3>2, <3>3
  <2> QED  BY <2>4, <2>5
<1> QED  BY <1>2, <1>4, <1>5, <1>6, <1>7, <1>8, <1>9

LEMMA RandomLineRandom ==
  ASSUME BaseInv, RandomInv, RandomLine PROVE RandomInv'
<1>1. /\ exp' = exp /\ exp \in Geometry /\ Lines' = Lines
      /\ UNCHANGED <<pageFactor, pageOffset, lineFactor, lineOffset, page, last>>
      /\ phase = "line" /\ phase' \in {"line", "page", "close"}
      /\ Link(LineAt(j))
  BY DEF BaseInv, TypeOK, RandomLine, Lines, LineAt, drawVars
<1>2. SUFFICES ASSUME exp.pattern = "random", Coprime
               PROVE  DrawInv' /\ RankInv' /\ WalkInv'
  BY <1>1 DEF RandomInv, Coprime
<1>3. DrawInv /\ RankInv
  BY <1>2 DEF RandomInv
<1>4. /\ exp.pages \in Nat /\ exp.lines \in Nat /\ exp.lines >= 1
      /\ i \in 0 .. exp.pages - 1 /\ j \in 0 .. exp.lines - 1
      /\ ops \in Nat /\ ops = i * exp.lines + j /\ ops' = ops + 1
      /\ page = PageAt(i) /\ pageFactor \in PrimeTable /\ lineFactor \in PrimeTable
  BY <1>1, <1>3, GeometryFacts DEF BaseInv, TypeOK, DrawInv, Link
<1>i. exp.pages \in Nat /\ i \in 0 .. exp.pages - 1 /\ j \in Nat
  BY <1>4
<1> DEFINE l == LineAt(j)
<1>5. l \in Lines /\ PageOf(l) = PageAt(i) /\ rank[l] = 0
  BY <1>1, <1>2, <1>3, FreshLine
<1> HIDE DEF l
<1>6. /\ LinkedLines' = LinkedLines \cup {l}
      /\ Cardinality(LinkedLines') = ops'
      /\ rank'[root'] = 1
      /\ rank'[l] = ops + 1 /\ \A m \in LinkedLines : m # l /\ rank'[m] = rank[m]
      /\ \A m \in LinkedLines : rank'[next'[m]] = rank'[m] + 1
      /\ \A m, k \in LinkedLines' : rank'[m] = rank'[k] => m = k
  BY <1>1, <1>3, <1>5, LinkFresh DEF l
<1>7. \/ j + 1 < exp.lines /\ j' = j + 1 /\ i' = i /\ phase' = "line"
      \/ /\ j + 1 = exp.lines /\ j' = 0 /\ i' = i + 1
         /\ phase' = IF i + 1 < exp.pages THEN "page" ELSE "close"
  BY <1>1, <1>4 DEF RandomLine
<1>8. \A a, b : PageAt(a)' = PageAt(a) /\ LineAt(b)' = LineAt(b) /\ PageOf(a)' = PageOf(a)
  BY <1>1 DEF PageAt, LineAt, PageOf
<1>9. DrawInv'
  BY <1>2, <1>3, DrawStep DEF Next, Random
<1>10. ASSUME NEW m \in LinkedLines'
       PROVE  \E a \in 0 .. i', b \in 0 .. exp.lines - 1 :
                /\ rank'[m] = a * exp.lines + b + 1
                /\ PageOf(m) = PageAt(a)
                /\ a = i' => b < j' /\ m = LineAt(b)
  <2>1. CASE m = l
    <3>1. rank'[m] = i * exp.lines + j + 1 /\ PageOf(m) = PageAt(i) /\ i \in 0 .. i'
      BY <1>4, <1>5, <1>6, <1>7, <2>1
    <3>2. ASSUME i = i' PROVE j < j'
      <4>1. i # i + 1
        BY <1>i
      <4>2. j' = j + 1
        BY <1>7, <3>2, <4>1, Zenon
      <4> QED  BY <1>i, <4>2
    <3>3. m = LineAt(j)
      BY <2>1 DEF l
    <3> QED  BY <1>4, <3>1, <3>2, <3>3
  <2>2. CASE m \in LinkedLines
    <3>1. PICK a \in 0 .. i, b \in 0 .. exp.lines - 1 :
                /\ rank[m] = a * exp.lines + b + 1
                /\ PageOf(m) = PageAt(a)
                /\ a = i => b < j /\ m = LineAt(b)
      BY <1>3, <2>2 DEF RankInv
    <3>2. rank'[m] = a * exp.lines + b + 1 /\ a \in 0 .. i'
      BY <1>4, <1>6, <1>7, <2>2, <3>1
    <3>3. a = i' => b < j' /\ m = LineAt(b)
      BY <1>4, <1>7, <3>1
    <3> QED  BY <3>1, <3>2, <3>3
  <2> QED  BY <1>6, <2>1, <2>2
<1>11. \A m \in LinkedLines' : m # prev' => rank'[next'[m]] = rank'[m] + 1
  BY <1>1, <1>6 DEF Link, l
<1>12. RankInv'
  BY <1>1, <1>6, <1>8, <1>10, <1>11 DEF RankInv
<1> QED  BY <1>1, <1>9, <1>12 DEF WalkInv

(* As many lines as links are linked: all of them once the loops are over. *)
LEMMA AllLinked ==
  ASSUME BaseInv, DrawInv, RankInv, phase \in {"close", "chase", "return"}
  PROVE  LinkedLines = Lines
<1>1. exp \in Geometry /\ LinesPerChain(exp) \in Nat
  BY LinesFacts DEF BaseInv, TypeOK
<1>2. IsFiniteSet(Lines) /\ Cardinality(Lines) = LinesPerChain(exp)
  <2>1. IsFiniteSet(0 .. LinesPerChain(exp) - 1)
        /\ Cardinality(0 .. LinesPerChain(exp) - 1)
             = IF 0 > LinesPerChain(exp) - 1 THEN 0
               ELSE (LinesPerChain(exp) - 1) - 0 + 1
    BY <1>1, FS_Interval
  <2> QED  BY <1>1, <2>1 DEF Lines
<1>3. ops = LinesPerChain(exp)
  <2>1. exp.pages * exp.lines + 0 = exp.pages * exp.lines
    BY <1>1, GeometryFacts
  <2> QED  BY <2>1 DEF DrawInv, LinesPerChain
<1>4. LinkedLines \subseteq Lines /\ Cardinality(LinkedLines) = ops
  BY DEF LinkedLines, RankInv
<1> QED  BY <1>2, <1>3, <1>4, FS_Subset, Zenon

LEMMA CloseRandom ==
  ASSUME BaseInv, RandomInv, Close PROVE RandomInv'
<1>1. /\ exp' = exp /\ exp \in Geometry /\ Lines' = Lines
      /\ UNCHANGED <<pageFactor, pageOffset, lineFactor, lineOffset, page,
                     i, j, root, prev, ops, rank, hops, touched>>
      /\ phase = "close" /\ phase' = "chase" /\ pos' = root
      /\ next' = [next EXCEPT ![prev] = root]
      /\ ops > 0 /\ hops = 0 /\ LinkInv
      /\ next \in [Lines -> Lines \cup {Null}]
  BY DEF BaseInv, TypeOK, CounterInv, ChaseInv, Close, Lines, drawVars
<1>2. SUFFICES ASSUME exp.pattern = "random", Coprime
               PROVE  DrawInv' /\ RankInv' /\ WalkInv'
  BY <1>1 DEF RandomInv, Coprime
<1>3. DrawInv /\ RankInv
  BY <1>2 DEF RandomInv
<1>4. DrawInv'
  BY <1>2, <1>3, DrawStep DEF Next
<1>5. LinkedLines' = LinkedLines /\ LinkedLines \subseteq Lines
  BY <1>1 DEF LinkedLines
<1>6. \A a, b : PageAt(a)' = PageAt(a) /\ LineAt(b)' = LineAt(b) /\ PageOf(a)' = PageOf(a)
  BY <1>1 DEF PageAt, LineAt, PageOf
<1>7. \A l \in LinkedLines : l # prev => next'[l] = next[l]
  BY <1>1, <1>5
<1>8. RankInv'
  BY <1>1, <1>3, <1>5, <1>6, <1>7 DEF RankInv
<1>9. rank[root] = 1
  BY <1>1, <1>3 DEF RankInv
<1>10. WalkInv'
  BY <1>1, <1>9 DEF WalkInv
<1> QED  BY <1>4, <1>8, <1>10

(* The chase is at the end of the chain or goes to the next rank.          *)
LEMMA NextRank ==
  ASSUME BaseInv, DrawInv, RankInv, phase = "chase"
  PROVE  /\ pos \in LinkedLines /\ next[pos] \in Lines
         /\ pos = prev => next[pos] = root /\ rank[pos] = ops
         /\ pos # prev => rank[next[pos]] = rank[pos] + 1 /\ next[pos] # root
<1>1. /\ pos \in Lines /\ rank[pos] >= 1 /\ next[prev] = root /\ ops > 0
      /\ root \in Lines /\ rank[prev] = ops /\ rank[pos] \in Nat
  BY DEF BaseInv, TypeOK, CounterInv, ChaseInv, LinkInv
<1>2. pos \in LinkedLines
  BY <1>1 DEF LinkedLines
<1>3. pos # prev => next[pos] \in Lines /\ rank[next[pos]] = rank[pos] + 1
  BY <1>1, <1>2 DEF BaseInv, LinkInv, RankInv
<1>4. rank[root] = 1
  BY <1>1 DEF RankInv
<1> QED  BY <1>1, <1>2, <1>3, <1>4

LEMMA HopRandom ==
  ASSUME BaseInv, RandomInv, Hop PROVE RandomInv'
<1>1. /\ exp' = exp /\ exp \in Geometry /\ Lines' = Lines
      /\ UNCHANGED <<pageFactor, pageOffset, lineFactor, lineOffset, page,
                     i, j, root, prev, next, ops, rank>>
      /\ phase = "chase" /\ pos' = next[pos] /\ hops' = hops + 1
      /\ phase' = IF next[pos] = root THEN "return" ELSE "chase"
      /\ touched' = touched \cup {next[pos]}
      /\ rank \in [Lines -> Nat] /\ LinkInv /\ ops \in Nat
  BY DEF BaseInv, TypeOK, Hop, Lines, drawVars, linkVars
<1>2. SUFFICES ASSUME exp.pattern = "random", Coprime
               PROVE  DrawInv' /\ RankInv' /\ WalkInv'
  BY <1>1 DEF RandomInv, Coprime
<1>3. DrawInv /\ RankInv /\ WalkInv
  BY <1>2 DEF RandomInv
<1>4. DrawInv'
  BY <1>2, <1>3, DrawStep DEF Next
<1>5. LinkedLines' = LinkedLines /\ LinkedLines = Lines
  BY <1>1, <1>3, AllLinked DEF LinkedLines
<1>6. \A a, b : PageAt(a)' = PageAt(a) /\ LineAt(b)' = LineAt(b) /\ PageOf(a)' = PageOf(a)
  BY <1>1 DEF PageAt, LineAt, PageOf
<1>7. RankInv'
  BY <1>1, <1>3, <1>5, <1>6 DEF RankInv
<1>8. /\ pos \in Lines /\ next[pos] \in Lines
      /\ pos = prev => next[pos] = root /\ rank[pos] = ops
      /\ pos # prev => rank[next[pos]] = rank[pos] + 1 /\ next[pos] # root
  BY <1>1, <1>3, NextRank DEF LinkedLines
<1>9. /\ hops = rank[pos] - 1 /\ rank[pos] \in Nat
      /\ \A l \in Lines : rank[l] \in 2 .. rank[pos] => l \in touched
  BY <1>1, <1>3, <1>8 DEF WalkInv
<1>10. next[pos] \in touched'
  BY <1>1
<1>11. \A l, m \in Lines : rank[l] = rank[m] => l = m
  BY <1>3, <1>5 DEF RankInv
<1>12. CASE pos = prev
  <2>1. ASSUME NEW l \in Lines PROVE l \in touched'
    <3>1. rank[l] \in 1 .. ops
      BY <1>1, <1>5 DEF LinkInv, LinkedLines
    <3>2. CASE rank[l] = 1
      <4>1. root \in Lines /\ rank[root] = 1
        BY <1>1, <1>3, <1>8, <1>12, <3>1 DEF RankInv
      <4>2. l = next[pos]
        BY <1>8, <1>11, <1>12, <3>2, <4>1
      <4> QED  BY <1>10, <4>2
    <3>3. CASE rank[l] # 1
      BY <1>1, <1>8, <1>9, <1>12, <3>1, <3>3
    <3> QED  BY <3>2, <3>3
  <2>2. hops' = ops /\ phase' = "return"
    BY <1>1, <1>8, <1>9, <1>12
  <2> QED  BY <1>1, <1>4, <1>7, <2>1, <2>2 DEF WalkInv
<1>13. CASE pos # prev
  <2>1. phase' = "chase" /\ hops' = rank[next[pos]] - 1
    BY <1>1, <1>8, <1>9, <1>13
  <2>2. ASSUME NEW l \in Lines, rank[l] \in 2 .. rank[next[pos]] PROVE l \in touched'
    <3>1. CASE rank[l] = rank[next[pos]]
      BY <1>8, <1>10, <1>11, <3>1
    <3>2. CASE rank[l] # rank[next[pos]]
      BY <1>1, <1>8, <1>9, <1>13, <2>2, <3>2
    <3> QED  BY <3>1, <3>2
  <2> QED  BY <1>1, <1>4, <1>7, <2>1, <2>2 DEF WalkInv
<1> QED  BY <1>12, <1>13

LEMMA StepRandom == BaseInv /\ RandomInv /\ [Next]_vars => RandomInv'
<1> SUFFICES ASSUME BaseInv, RandomInv, [Next]_vars PROVE RandomInv'
  OBVIOUS
<1>1. CASE UNCHANGED vars
  BY <1>1 DEF RandomInv, Coprime, DrawInv, RankInv, WalkInv, LinkedLines, Lines,
     PageOf, PageAt, LineAt, vars
<1> QED
  BY <1>1, RandomStartRandom, RandomPageRandom, RandomLineRandom, StridedNotRandom,
     CloseRandom, HopRandom DEF Next, Random, Strided, Returned

-----------------------------------------------------------------------------
(* Theorems                                                                *)

LEMMA BaseInvariant == Spec => []BaseInv
BY InitBase, StepBase, PTL DEF Spec

(* Locals, links and positions of run.cpp:221-338 keep their types; no     *)
(* link is ever written outside the chain.                                 *)
THEOREM TypeCorrect == Spec => []TypeOK
BY BaseInvariant, PTL DEF BaseInv

(* Whatever random() returns and whatever the sizes, a chase makes at most *)
(* as many hops as links were written: it cannot miss the root.            *)
THEOREM ChaseIsBounded == Spec => []ChaseBounded
<1>1. BaseInv => ChaseBounded
  BY DEF BaseInv, TypeOK, LinkInv, ChaseInv, ChaseBounded, Phases
<1>2. QED
  BY <1>1, BaseInvariant, PTL

(* For every stride, dividing the chain or not, a chase makes exactly      *)
(* _ops_per_chain hops.                                                    *)
THEOREM StridedIsExact == Spec => []StridedOpsExact
<1>1. BaseInv => StridedOpsExact
  BY DEF BaseInv, StridedInv, StridedOpsExact, OpsExact
<1>2. QED
  BY <1>1, BaseInvariant, PTL

(* Forward and reverse chains keep the direction and the distance of the   *)
(* stride, for every size and stride.                                      *)
THEOREM StridedIsOrdered == Spec => []StrideOrder
<1>1. ASSUME BaseInv PROVE StrideOrder
  <2>1. SUFFICES ASSUME phase \in {"chase", "return"}, exp.pattern = "strided",
                        NEW l \in Lines, next[l] # Null
                 PROVE  IF l + exp.stride \in Lines
                        THEN next[l] = l + exp.stride ELSE next[l] = root
    BY DEF StrideOrder
  <2>2. rank[l] >= 1
    BY <1>1, <2>1 DEF BaseInv, TypeOK, StridedInv
  <2>3. CASE l = prev
    BY <1>1, <2>1, <2>3 DEF BaseInv, ChaseInv, StridedInv
  <2>4. CASE l # prev
    BY <1>1, <2>1, <2>2, <2>4 DEF BaseInv, LinkInv, StridedInv
  <2>5. QED
    BY <2>3, <2>4
<1>2. QED
  BY <1>1, BaseInvariant, PTL

(* The whole inductive invariant.                                          *)
THEOREM ChainInvariant == Spec => []IInv
<1>1. Init => IInv
  BY InitBase, InitRandom DEF IInv
<1>2. IInv /\ [Next]_vars => IInv'
  BY StepBase, StepRandom DEF IInv
<1> QED  BY <1>1, <1>2, PTL DEF Spec

(* For chains of any size, if none of the primes of prime_table divides    *)
(* the pages or the lines of a page, random_mem_init links every line      *)
(* exactly once: a chase accesses the whole chain in _ops_per_chain hops.  *)
THEOREM CoprimeIsExact == Spec => []CoprimeExact
<1>1. IInv => CoprimeExact
  BY DEF IInv, RandomInv, WalkInv, CoprimeExact, WholeChain, OpsExact
<1> QED  BY <1>1, ChainInvariant, PTL

(* Two links of one page belong to the same round of the outer loop.       *)
LEMMA SameRound ==
  ASSUME exp \in Geometry, Coprime, pageFactor \in PrimeTable, pageOffset \in Nat,
         NEW a \in 0 .. exp.pages - 1, NEW b \in 0 .. exp.pages - 1,
         PageAt(a) = PageAt(b)
  PROVE  a = b
<1>1. exp.pages \in Nat \ {0} /\ pageFactor \in Nat /\ Prime(pageFactor)
      /\ exp.pages % pageFactor # 0
  BY GeometryFacts, FactorFacts
<1>2. (pageFactor * a + pageOffset) % exp.pages = (pageFactor * b + pageOffset) % exp.pages
  BY DEF PageAt
<1> QED  BY <1>1, <1>2, FactorPermutes

(* For chains of any size whose factors divide neither, the chase leaves a *)
(* page only when all its lines have been accessed.                        *)
THEOREM PagesInOrder == Spec => PageByPage
<1>1. ASSUME IInv, exp.pattern = "random", Coprime, Hop, PageOf(pos') # PageOf(pos),
             NEW l \in Lines \ {root}, PageOf(l) = PageOf(pos), l \notin touched
      PROVE  FALSE
  <2>1. BaseInv /\ DrawInv /\ RankInv /\ WalkInv /\ phase = "chase" /\ pos' = next[pos]
    BY <1>1 DEF IInv, RandomInv, Hop
  <2>2. /\ exp \in Geometry /\ exp.lines \in Nat \ {0} /\ i = exp.pages /\ j = 0
        /\ exp.pages \in Nat /\ ops > 0
        /\ rank \in [Lines -> Nat] /\ LinkInv /\ ops \in Nat
        /\ pageFactor \in PrimeTable /\ pageOffset \in Nat
    BY <2>1, GeometryFacts DEF BaseInv, TypeOK, DrawInv, CounterInv
  <2>3. LinkedLines = Lines
    BY <2>1, AllLinked
  <2>4. /\ pos \in Lines /\ next[pos] \in Lines
        /\ pos = prev => next[pos] = root /\ rank[pos] = ops
        /\ pos # prev => rank[next[pos]] = rank[pos] + 1
    BY <2>1, <2>3, NextRank
  <2>5. rank[root] = 1 /\ root \in Lines /\ \A m, k \in Lines : rank[m] = rank[k] => m = k
    BY <2>1, <2>2, <2>3 DEF RankInv, LinkInv
  <2>6. rank[l] \in 2 .. ops
    BY <1>1, <2>2, <2>3, <2>5 DEF LinkInv, LinkedLines
  <2>7. rank[l] > rank[pos] /\ rank[pos] \in Nat
    BY <1>1, <2>1, <2>2, <2>4, <2>6 DEF WalkInv
  <2>8. pos # prev /\ rank[next[pos]] = rank[pos] + 1
    BY <2>2, <2>4, <2>6, <2>7
  <2>9. \A m \in Lines : \E a \in 0 .. exp.pages - 1, b \in 0 .. exp.lines - 1 :
          rank[m] = a * exp.lines + b + 1 /\ PageOf(m) = PageAt(a)
    <3> SUFFICES ASSUME NEW m \in Lines
                 PROVE  \E a \in 0 .. exp.pages - 1, b \in 0 .. exp.lines - 1 :
                          rank[m] = a * exp.lines + b + 1 /\ PageOf(m) = PageAt(a)
      OBVIOUS
    <3>1. PICK a \in 0 .. i, b \in 0 .. exp.lines - 1 :
            /\ rank[m] = a * exp.lines + b + 1 /\ PageOf(m) = PageAt(a)
            /\ a = i => b < j
      BY <2>1, <2>3 DEF RankInv
    <3>2. a # i
      BY <2>2, <3>1
    <3>3. a \in 0 .. exp.pages - 1
      BY <2>2, <3>1, <3>2
    <3> QED  BY <3>1, <3>3
  <2>10. PICK a1 \in 0 .. exp.pages - 1, b1 \in 0 .. exp.lines - 1 :
           rank[pos] = a1 * exp.lines + b1 + 1 /\ PageOf(pos) = PageAt(a1)
    BY <2>4, <2>9
  <2>11. PICK a2 \in 0 .. exp.pages - 1, b2 \in 0 .. exp.lines - 1 :
           rank[l] = a2 * exp.lines + b2 + 1 /\ PageOf(l) = PageAt(a2)
    BY <2>9
  <2>12. PICK a3 \in 0 .. exp.pages - 1, b3 \in 0 .. exp.lines - 1 :
           rank[next[pos]] = a3 * exp.lines + b3 + 1 /\ PageOf(next[pos]) = PageAt(a3)
    BY <2>4, <2>9
  <2>13. a1 = a2
    BY <1>1, <2>2, <2>10, <2>11, SameRound
  <2>14. b1 + 1 \in 0 .. exp.lines - 1
    <3>1. a1 * exp.lines \in Int
      BY <2>2, <2>10
    <3>2. b2 > b1
      BY <2>7, <2>10, <2>11, <2>13, <3>1
    <3> QED  BY <2>2, <2>10, <2>11, <3>2
  <2>15. a3 = a1
    <3>1. a1 * exp.lines + b1 + 1 + 1 = a3 * exp.lines + b3 + 1
      BY <2>8, <2>10, <2>12, Zenon
    <3>2. a1 \in Int /\ a3 \in Int /\ b1 \in Int /\ exp.lines \in Nat \ {0}
      BY <2>2, <2>10, <2>12
    <3> QED  BY <2>12, <2>14, <3>1, <3>2, SameQuotient, Zenon
  <2> QED  BY <1>1, <2>1, <2>10, <2>12, <2>15
<1>2. ASSUME IInv, [Next]_vars
      PROVE  [exp.pattern = "random" /\ Coprime /\ Hop /\ PageOf(pos') # PageOf(pos) =>
                \A l \in Lines \ {root} : PageOf(l) = PageOf(pos) => l \in touched]_vars
  BY <1>1, <1>2
<1> QED  BY <1>2, ChainInvariant, PTL DEF Spec, PageByPage

-----------------------------------------------------------------------------
(* The lines of a strided chain                                            *)

(* Strided chains are linked at the multiples of the stride.               *)
MultipleInv ==
  exp.pattern = "strided" =>
    /\ phase \in {"forward", "scan", "reverse"} => Divides(Stride, i)
    /\ \A l \in LinkedLines : Divides(Stride, l)

LEMMA NextMultiple ==
  ASSUME NEW s \in Int, NEW x \in Int, Divides(s, x)
  PROVE  Divides(s, x + s) /\ Divides(s, x - s)
<1>1. PICK k \in Int : x = s * k
  BY DEF Divides
<1>2. x + s = s * (k + 1) /\ x - s = s * (k - 1) /\ k + 1 \in Int /\ k - 1 \in Int
  BY <1>1
<1> QED  BY <1>2 DEF Divides

(* Between two multiples there is room for all lines up to the second.     *)
LEMMA RoomForStride ==
  ASSUME NEW s \in Nat \ {0}, NEW n \in Int, NEW x \in Int, Divides(s, n), Divides(s, x),
         x < n
  PROVE  x + s <= n
<1>1. PICK k \in Int : n = s * k
  BY DEF Divides
<1>2. PICK m \in Int : x = s * m
  BY DEF Divides
<1>3. k > m
  <2>1. SUFFICES ASSUME k <= m PROVE FALSE
    BY <1>1, <1>2
  <2>2. m - k \in Nat
    BY <1>1, <1>2, <2>1
  <2>3. s * (m - k) >= 0
    BY <2>2
  <2>4. s * (m - k) = s * m - s * k
    BY <1>1, <1>2
  <2> QED  BY <1>1, <1>2, <2>3, <2>4
<1>4. k - (m + 1) \in Nat
  BY <1>1, <1>2, <1>3
<1>5. s * (k - (m + 1)) >= 0
  BY <1>4
<1>6. s * (k - (m + 1)) = s * k - (s * m + s)
  BY <1>1, <1>2
<1> QED  BY <1>1, <1>2, <1>5, <1>6

LEMMA MultipleLinked ==
  ASSUME BaseInv, MultipleInv, exp.pattern = "strided", NEW l \in Lines, Link(l),
         exp' = exp, Divides(Stride, l)
  PROVE  \A m \in LinkedLines' : Divides(Stride, m)
<1>1. Lines' = Lines /\ rank \in [Lines -> Nat] /\ rank' = [rank EXCEPT ![l] = ops + 1]
  BY DEF BaseInv, TypeOK, Link, Lines
<1>2. LinkedLines' \subseteq LinkedLines \cup {l}
  BY <1>1 DEF LinkedLines
<1> QED  BY <1>2 DEF MultipleInv

LEMMA StepMultiple == BaseInv /\ MultipleInv /\ [Next]_vars => MultipleInv'
<1> SUFFICES ASSUME BaseInv, MultipleInv, [Next]_vars PROVE MultipleInv'
  OBVIOUS
<1>1. exp' = exp /\ exp \in Geometry
  BY DEF BaseInv, TypeOK, Next, Random, Strided, RandomStart, RandomPage, RandomLine,
     StridedStart, Forward, Scan, Reverse, Close, Hop, Returned, vars
<1>2. Stride' = Stride /\ Lines' = Lines /\ Stride \in Nat \ {0} /\ Lines \subseteq Int
  BY <1>1, GeometryFacts, LinesFacts DEF Stride, Lines
<1>3. SUFFICES ASSUME exp.pattern = "strided"
               PROVE  /\ phase' \in {"forward", "scan", "reverse"} => Divides(Stride, i')
                      /\ \A l \in LinkedLines' : Divides(Stride, l)
  BY <1>1, <1>2 DEF MultipleInv
<1>4. ASSUME rank' = rank PROVE LinkedLines' = LinkedLines
  BY <1>2, <1>4 DEF LinkedLines
<1>5. CASE StridedStart
  <2>1. 0 = Stride * 0
    BY <1>2
  <2>2. Divides(Stride, i')
    BY <1>5, <2>1 DEF StridedStart, Divides
  <2>3. rank' = rank
    BY <1>5 DEF StridedStart, linkVars
  <2> QED  BY <1>3, <1>4, <2>2, <2>3 DEF MultipleInv
<1>6. CASE Forward \/ Reverse
  <2>1. i \in Lines /\ Divides(Stride, i) /\ Link(i) /\ i' \in {i + Stride, i - Stride}
    BY <1>3, <1>6 DEF BaseInv, CounterInv, MultipleInv, Forward, Reverse
  <2>2. Divides(Stride, i')
    <3>1. Stride \in Int /\ i \in Int
      BY <1>2, <2>1
    <3>2. Divides(Stride, i + Stride) /\ Divides(Stride, i - Stride)
      BY <2>1, <3>1, NextMultiple, Zenon
    <3> QED  BY <2>1, <3>2
  <2>3. \A l \in LinkedLines' : Divides(Stride, l)
    BY <1>1, <1>3, <2>1, MultipleLinked
  <2> QED  BY <2>2, <2>3
<1>7. CASE Scan
  <2>1. i \in Lines /\ Divides(Stride, i) /\ i' \in {i + Stride, i} /\ rank' = rank
    BY <1>3, <1>7 DEF BaseInv, CounterInv, MultipleInv, Scan, linkVars
  <2>2. Divides(Stride, i')
    <3>1. Stride \in Int /\ i \in Int
      BY <1>2, <2>1
    <3>2. Divides(Stride, i + Stride) /\ Divides(Stride, i - Stride)
      BY <2>1, <3>1, NextMultiple, Zenon
    <3> QED  BY <2>1, <3>2
  <2> QED  BY <1>3, <1>4, <2>1, <2>2 DEF MultipleInv
<1>8. CASE Close \/ Hop \/ Returned
  <2>1. rank' = rank /\ phase' \notin {"forward", "scan", "reverse"}
    BY <1>8 DEF Close, Hop, Returned, linkVars, vars
  <2> QED  BY <1>3, <1>4, <2>1 DEF MultipleInv
<1>9. CASE UNCHANGED vars
  <2>1. rank' = rank /\ phase' = phase /\ i' = i
    BY <1>9 DEF vars
  <2> QED  BY <1>3, <1>4, <2>1 DEF MultipleInv
<1>10. ~Random
  BY <1>3 DEF BaseInv, CounterInv, Random, RandomStart, RandomPage, RandomLine
<1> QED
  BY <1>5, <1>6, <1>7, <1>8, <1>9, <1>10 DEF Next, Strided

(* The chase moves from linked line to linked line.                        *)
LEMMA HopLinked ==
  ASSUME BaseInv, phase = "chase" PROVE next[pos] \in LinkedLines
<1>1. /\ pos \in Lines /\ rank[pos] >= 1 /\ next[prev] = root
      /\ ops > 0 /\ rank[pos] \in Nat /\ rank \in [Lines -> Nat] /\ LinkInv
  BY DEF BaseInv, TypeOK, CounterInv, ChaseInv
<1>2. CASE pos = prev
  BY <1>1, <1>2 DEF LinkInv, LinkedLines
<1>3. CASE pos # prev
  <2>1. next[pos] \in Lines /\ rank[next[pos]] > rank[pos] /\ rank[next[pos]] \in Nat
    BY <1>1, <1>3 DEF LinkInv
  <2> QED  BY <1>1, <2>1 DEF LinkedLines
<1> QED  BY <1>2, <1>3

-----------------------------------------------------------------------------
(* The loop with several chains                                            *)

LEMMA LoopStep == [LoopNext]_allVars => [Next]_vars
<1> SUFFICES ASSUME [LoopNext]_allVars, ~Next PROVE UNCHANGED vars
  OBVIOUS
<1>1. CASE LoopNext
  BY <1>1, Zenon DEF LoopNext, LinkStep, Begin, Loop, Fault, Stay, Next
<1>2. CASE UNCHANGED allVars
  BY <1>2, Zenon DEF allVars
<1> QED  BY <1>1, <1>2

(* However many chains a thread has, the loop walks chain 0 as if it were  *)
(* the only one: what is proved of one chain holds of it.                  *)
THEOREM LoopImplementsChain == LoopSpec => Spec
<1>1. LoopInit => Init
  BY DEF LoopInit
<1> QED  BY <1>1, LoopStep, PTL DEF LoopSpec, Spec

-----------------------------------------------------------------------------
(* What the loops of the *_mem_init functions compute                      *)

(* The first ops lines of f are linked, one after the other; a line that   *)
(* is there more than once has the rank and the link of its last place.    *)
Matches(f) ==
  /\ ops > 0 => root = f[0] /\ prev = f[ops - 1]
  /\ \A n \in 0 .. ops - 1 : f[n] \in Lines /\ rank[f[n]] >= n + 1
  /\ \A l \in Lines : rank[l] >= 1 =>
       f[rank[l] - 1] = l /\ (rank[l] < ops => next[l] = f[rank[l]])
  /\ \A l \in Lines : rank[l] = 0 => next[l] = Null

LEMMA LinkMatches ==
  ASSUME TypeOK, LinkInv, NEW l \in Lines, Link(l), exp' = exp,
         NEW f, Matches(f), f[ops] = l
  PROVE  Matches(f)'
<1>1. /\ ops \in Nat /\ ops' = ops + 1 /\ Lines' = Lines /\ exp \in Geometry
      /\ rank \in [Lines -> Nat] /\ rank' = [rank EXCEPT ![l] = ops + 1]
      /\ next \in [Lines -> Lines \cup {Null}] /\ prev' = l
      /\ Null \notin Lines
  BY LinesFacts DEF TypeOK, Link, Lines
<1>2. rank'[l] = ops + 1 /\ \A m \in Lines : m # l => rank'[m] = rank[m]
  BY <1>1
<1>3. /\ ops = 0 => root = Null
      /\ ops > 0 => root \in Lines /\ prev \in Lines /\ rank[prev] = ops
      /\ \A m \in Lines : rank[m] \in Nat /\ rank[m] <= ops
  BY <1>1 DEF LinkInv
<1>4. /\ ops = 0 => next' = next /\ root' = l
      /\ ops > 0 => next' = [next EXCEPT ![prev] = l] /\ root' = root
  BY <1>1, <1>3 DEF Link
<1>5. root' = f[0] /\ prev' = f[ops' - 1]
  BY <1>1, <1>4 DEF Matches
<1>6. ASSUME NEW n \in 0 .. ops' - 1 PROVE f[n] \in Lines /\ rank'[f[n]] >= n + 1
  <2>1. CASE n = ops
    BY <1>1, <1>2, <2>1
  <2>2. CASE n # ops
    <3>1. f[n] \in Lines /\ rank[f[n]] >= n + 1
      BY <1>1, <2>2 DEF Matches
    <3> QED  BY <1>1, <1>2, <3>1
  <2> QED  BY <2>1, <2>2
<1>7. ASSUME NEW m \in Lines, rank'[m] >= 1
      PROVE  f[rank'[m] - 1] = m /\ (rank'[m] < ops' => next'[m] = f[rank'[m]])
  <2>1. CASE m = l
    BY <1>1, <1>2, <2>1
  <2>2. CASE m # l
    <3>1. rank'[m] = rank[m] /\ f[rank[m] - 1] = m /\ ops > 0
      BY <1>1, <1>2, <1>3, <1>7, <2>2 DEF Matches
    <3>2. CASE m = prev
      BY <1>1, <1>3, <1>4, <3>1, <3>2
    <3>3. CASE m # prev
      <4>1. rank[m] # ops
        BY <3>1, <3>3 DEF Matches
      <4>2. rank[m] < ops /\ next[m] = f[rank[m]]
        BY <1>1, <1>2, <1>3, <1>7, <3>1, <4>1 DEF Matches
      <4>3. next'[m] = next[m]
        BY <1>1, <1>4, <3>1, <3>3
      <4> QED  BY <3>1, <4>2, <4>3
    <3> QED  BY <3>2, <3>3
  <2> QED  BY <2>1, <2>2
<1>8. ASSUME NEW m \in Lines, rank'[m] = 0 PROVE next'[m] = Null
  <2>1. m # l /\ rank[m] = 0 /\ next[m] = Null
    BY <1>1, <1>2, <1>8 DEF Matches
  <2>2. ops > 0 => m # prev
    BY <1>3, <2>1
  <2> QED  BY <1>1, <1>4, <2>1, <2>2
<1> QED  BY <1>1, <1>5, <1>6, <1>7, <1>8 DEF Matches

(* Only the lines linked so far matter.                                    *)
LEMMA MatchesAgree ==
  ASSUME TypeOK, LinkInv, NEW f, NEW g, Matches(f), \A n \in 0 .. ops - 1 : g[n] = f[n]
  PROVE  Matches(g)
<1>1. ops \in Nat /\ \A l \in Lines : rank[l] \in Nat /\ rank[l] <= ops
  BY DEF TypeOK, LinkInv
<1>2. ops > 0 => root = g[0] /\ prev = g[ops - 1]
  BY <1>1 DEF Matches
<1>3. \A n \in 0 .. ops - 1 : g[n] \in Lines /\ rank[g[n]] >= n + 1
  BY DEF Matches
<1>4. ASSUME NEW l \in Lines, rank[l] >= 1
      PROVE  g[rank[l] - 1] = l /\ (rank[l] < ops => next[l] = g[rank[l]])
  <2>1. rank[l] - 1 \in 0 .. ops - 1 /\ (rank[l] < ops => rank[l] \in 0 .. ops - 1)
    BY <1>1, <1>4
  <2> QED  BY <1>4, <2>1 DEF Matches
<1> QED  BY <1>2, <1>3, <1>4 DEF Matches

LEMMA MatchesSame ==
  ASSUME NEW f, Matches(f), UNCHANGED <<exp, linkVars>> PROVE Matches(f)'
BY DEF Matches, Lines, linkVars

(* When the end is led back to the root, the chain is the one in closed    *)
(* form.                                                                   *)
LEMMA CloseBuilds ==
  ASSUME BaseInv, Close, NEW f, Matches(f), DOMAIN f = 0 .. ops - 1
  PROVE  [root |-> root', next |-> next'] = Linked(exp, f)
<1>1. /\ phase = "close" /\ root' = root /\ next' = [next EXCEPT ![prev] = root]
      /\ exp \in Geometry /\ ops \in Nat /\ ops > 0 /\ prev \in Lines /\ rank[prev] = ops
      /\ next \in [Lines -> Lines \cup {Null}]
      /\ \A l \in Lines : rank[l] \in Nat /\ rank[l] <= ops
      /\ root = f[0] /\ prev = f[ops - 1]
  BY DEF Close, BaseInv, TypeOK, CounterInv, LinkInv, Matches
<1> DEFINE Last(l, n) == f[n] = l /\ \A m \in DOMAIN f : f[m] = l => m <= n
           Chosen(l) == CHOOSE n \in DOMAIN f : Last(l, n)
           Target(l) == IF \A n \in DOMAIN f : f[n] # l THEN Null
                        ELSE IF Chosen(l) + 1 \in DOMAIN f THEN f[Chosen(l) + 1] ELSE f[0]
<1>2. Linked(exp, f) = [root |-> f[0], next |-> [l \in Lines |-> Target(l)]]
  BY Zenon DEF Linked, Lines
<1>3. ASSUME NEW l \in Lines PROVE next'[l] = Target(l)
  <2>1. CASE rank[l] = 0
    <3>1. \A n \in DOMAIN f : f[n] # l
      BY <1>1, <2>1 DEF Matches
    <3>2. next[l] = Null /\ l # prev
      BY <1>1, <2>1 DEF Matches
    <3> QED  BY <1>1, <3>1, <3>2
  <2>2. CASE rank[l] # 0
    <3> DEFINE r == rank[l] - 1
    <3>1. r \in DOMAIN f /\ f[r] = l
      BY <1>1, <2>2 DEF Matches
    <3>2. ASSUME NEW m \in DOMAIN f, f[m] = l PROVE m <= r /\ m \in Nat
      <4>1. m \in 0 .. ops - 1 /\ rank[f[m]] >= m + 1
        BY <3>2 DEF Matches
      <4> QED  BY <1>1, <3>2, <4>1
    <3>3. \A n \in DOMAIN f : Last(l, n) => n = r
      <4>1. r \in Nat
        BY <1>1, <3>1
      <4>2. \A n \in DOMAIN f : Last(l, n) => r <= n /\ n <= r /\ n \in Nat
        BY <3>1, <3>2
      <4> HIDE DEF Last, r
      <4> QED  BY <4>1, <4>2
    <3>4. Last(l, r)
      BY <3>1, <3>2
    <3>5. Chosen(l) = r
      <4> HIDE DEF Last, r
      <4> QED  BY <3>1, <3>3, <3>4, Zenon
    <3>6. Target(l) = IF r + 1 \in DOMAIN f THEN f[r + 1] ELSE f[0]
      <4> HIDE DEF Last, Chosen, r
      <4> QED  BY <3>1, <3>5
    <3>7. r + 1 = rank[l]
      BY <1>1
    <3>8. CASE rank[l] < ops
      <4>1. l # prev /\ next[l] = f[rank[l]]
        BY <1>1, <2>2, <3>8 DEF Matches
      <4>2. rank[l] \in DOMAIN f /\ next'[l] = next[l]
        BY <1>1, <3>8, <4>1
      <4> QED  BY <3>6, <3>7, <4>1, <4>2
    <3>9. CASE ~(rank[l] < ops)
      <4>1. rank[l] = ops
        BY <1>1, <3>9
      <4>2. l = prev /\ rank[l] \notin DOMAIN f
        BY <1>1, <3>1, <4>1
      <4>3. next'[l] = f[0]
        BY <1>1, <4>2
      <4> QED  BY <3>6, <3>7, <4>2, <4>3
    <3> QED  BY <3>8, <3>9
  <2> QED  BY <2>1, <2>2
<1> HIDE DEF Target
<1>4. next' = [l \in Lines |-> Target(l)]
  BY <1>1, <1>3
<1> QED  BY <1>1, <1>2, <1>4

-----------------------------------------------------------------------------
(* Strided chains                                                          *)

(* How many strides fit into the chain, and the lines they lead to.        *)
Final == (LinesPerChain(exp) - 1) \div Stride
StridedOrder ==
  [n \in 0 .. Final |-> IF exp.stride > 0 THEN n * Stride ELSE (Final - n) * Stride]

LEMMA LessFactor ==
  ASSUME NEW s \in Nat \ {0}, NEW a \in Int, NEW b \in Int, a * s < b * s PROVE a < b
<1> SUFFICES ASSUME a >= b PROVE FALSE
  OBVIOUS
<1>1. a - b \in Nat
  OBVIOUS
<1>2. (a - b) * s >= 0
  BY <1>1
<1>3. (a - b) * s = a * s - b * s /\ a * s \in Int /\ b * s \in Int
  OBVIOUS
<1> QED  BY <1>2, <1>3

LEMMA FinalFacts ==
  ASSUME exp \in Geometry
  PROVE  /\ Final \in Nat
         /\ Final * Stride <= LinesPerChain(exp) - 1
         /\ LinesPerChain(exp) - 1 < (Final + 1) * Stride
<1> DEFINE y == LinesPerChain(exp) - 1
           r == y % Stride
<1>1. y \in Nat /\ Stride \in Nat \ {0}
  BY GeometryFacts, LinesFacts
<1>2. Final = y \div Stride
  BY DEF Final
<1> HIDE DEF y, Final
<1>3. Final \in Int /\ r \in 0 .. Stride - 1 /\ y = Stride * Final + r
  BY <1>1, <1>2
<1> HIDE DEF r
<1>4. /\ Final * Stride \in Int /\ (Final + 1) * Stride = Final * Stride + Stride
      /\ Stride * Final = Final * Stride
  BY <1>1, <1>3
<1>5. Final * Stride <= y /\ y < (Final + 1) * Stride
  BY <1>1, <1>3, <1>4
<1>6. 0 * Stride < (Final + 1) * Stride
  BY <1>1, <1>3, <1>4, <1>5
<1>7. 0 < Final + 1
  <2>1. 0 \in Int /\ Final + 1 \in Int
    BY <1>3
  <2> QED  BY <1>1, <1>6, <2>1, LessFactor, Zenon
<1> QED  BY <1>3, <1>5, <1>7 DEF y

LEMMA FinalIs ==
  ASSUME exp \in Geometry, NEW c \in Int, c * Stride <= LinesPerChain(exp) - 1,
         LinesPerChain(exp) - 1 < (c + 1) * Stride
  PROVE  Final = c
<1>1. LinesPerChain(exp) \in Nat /\ Stride \in Nat \ {0} /\ Final \in Nat
  BY GeometryFacts, LinesFacts, FinalFacts
<1>2. /\ c * Stride \in Int /\ (c + 1) * Stride \in Int
      /\ Final * Stride \in Int /\ (Final + 1) * Stride \in Int
  BY <1>1
<1>3. c * Stride < (Final + 1) * Stride /\ Final * Stride < (c + 1) * Stride
  BY <1>1, <1>2, FinalFacts
<1>4. c < Final + 1 /\ Final < c + 1
  <2>1. c + 1 \in Int /\ Final + 1 \in Int /\ Final \in Int
    BY <1>1
  <2> QED  BY <1>1, <1>3, <2>1, LessFactor, Zenon
<1> QED  BY <1>1, <1>4

(* i is where the order says the next line is.                             *)
StridedBuild ==
  exp.pattern = "strided" =>
    /\ phase = "forward" => i = ops * Stride
    /\ phase = "scan" => \E m \in Int : i = m * Stride
    /\ phase = "reverse" => i = (Final - ops) * Stride
    /\ phase \in {"close", "chase", "return"} => ops = Final + 1
    /\ phase \in {"forward", "scan", "reverse", "close"} => Matches(StridedOrder)

LEMMA ExpKept == [Next]_vars => exp' = exp
BY DEF Next, Random, Strided, RandomStart, RandomPage, RandomLine,
   StridedStart, Forward, Scan, Reverse, Close, Hop, Returned, vars

(* Nothing is linked, and any order will do.                               *)
LEMMA NothingLinked ==
  ASSUME BaseInv, ops = 0, \A l \in Lines : next[l] = Null, NEW f PROVE Matches(f)
<1>1. \A l \in Lines : rank[l] \in Nat /\ rank[l] <= 0
  BY DEF BaseInv, TypeOK, LinkInv
<1>2. \A l \in Lines : ~(rank[l] >= 1)
  BY <1>1
<1>3. 0 .. ops - 1 = {}
  OBVIOUS
<1> QED  BY <1>2, <1>3 DEF Matches

LEMMA StepStrided ==
  ASSUME BaseInv, StridedBuild, [Next]_vars PROVE StridedBuild'
<1>1. exp' = exp /\ exp \in Geometry /\ ops \in Nat
  BY ExpKept DEF BaseInv, TypeOK
<1>2. /\ Stride' = Stride /\ Final' = Final /\ StridedOrder' = StridedOrder
      /\ Lines' = Lines /\ LinesPerChain(exp)' = LinesPerChain(exp)
  BY <1>1, Zenon DEF Stride, Final, StridedOrder, Lines
<1>3. SUFFICES ASSUME exp.pattern = "strided" PROVE StridedBuild'
  BY <1>1 DEF StridedBuild
<1>4. /\ Stride \in Nat /\ Stride >= 1 /\ Final \in Nat /\ LinesPerChain(exp) \in Nat
      /\ exp.stride \in Int /\ exp.stride # 0
      /\ Lines = 0 .. LinesPerChain(exp) - 1
  BY <1>1, GeometryFacts, LinesFacts, FinalFacts DEF Lines
<1>5. ASSUME UNCHANGED linkVars PROVE Matches(StridedOrder) => Matches(StridedOrder)'
  <2> DEFINE f == StridedOrder
  <2>1. f' = f
    BY <1>2
  <2> QED  BY <1>1, <1>2, <1>5 DEF Matches, linkVars
<1>6. CASE StridedStart
  <2>1. /\ UNCHANGED linkVars /\ ops = 0 /\ i' = 0 /\ ops' = 0
        /\ phase' \in {"forward", "scan"}
    BY <1>6 DEF StridedStart, linkVars, BaseInv, CounterInv
  <2>2. \A l \in Lines : rank[l] = 0 /\ next[l] = Null
    <3>1. \A l \in Lines : rank[l] \in Nat /\ rank[l] <= 0
      BY <2>1 DEF BaseInv, TypeOK, LinkInv
    <3> QED  BY <1>3, <3>1 DEF BaseInv, StridedInv
  <2>3. Matches(StridedOrder)'
    BY <1>5, <2>1, <2>2, NothingLinked
  <2>4. 0 = 0 * Stride
    BY <1>4
  <2> QED  BY <1>2, <2>1, <2>3, <2>4 DEF StridedBuild
<1>7. CASE Forward
  <2>1. /\ phase = "forward" /\ Link(i) /\ i' = i + Stride /\ i \in Lines /\ exp.stride > 0
        /\ phase' = IF i + Stride < LinesPerChain(exp) THEN "forward" ELSE "close"
        /\ i = ops * Stride /\ Matches(StridedOrder) /\ ops' = ops + 1
    BY <1>3, <1>7 DEF Forward, Link, BaseInv, CounterInv, StridedBuild
  <2>2. ops * Stride \in Int /\ (ops + 1) * Stride = ops * Stride + Stride
    BY <1>1, <1>4
  <2>3. i' = ops' * Stride
    BY <2>1, <2>2
  <2>4. ops <= Final
    <3>1. ops * Stride < (Final + 1) * Stride
      <4>1. ops * Stride <= LinesPerChain(exp) - 1 /\ (Final + 1) * Stride \in Int
        BY <1>4, <2>1, <2>2
      <4> QED  BY <1>1, <1>4, <2>2, <4>1, FinalFacts
    <3>2. ops \in Int /\ Final + 1 \in Int /\ Stride \in Nat \ {0}
      BY <1>1, <1>4
    <3>3. ops < Final + 1
      BY <3>1, <3>2, LessFactor, Zenon
    <3> QED  BY <1>1, <1>4, <3>3
  <2>5. StridedOrder[ops] = i
    BY <1>1, <1>4, <2>1, <2>4 DEF StridedOrder
  <2>6. Matches(StridedOrder)'
    <3>1. PICK f : f = StridedOrder
      OBVIOUS
    <3>2. StridedOrder' = f /\ Matches(f) /\ f[ops] = i
      BY <1>2, <2>1, <2>5, <3>1
    <3>3. Matches(f)'
      BY <1>1, <2>1, <3>2, LinkMatches DEF BaseInv
    <3> QED  BY <3>2, <3>3 DEF Matches
  <2>7. phase' = "close" => ops' = Final + 1
    <3> SUFFICES ASSUME phase' = "close" PROVE ops = Final
      BY <2>1
    <3>1. ~(i + Stride < LinesPerChain(exp))
      BY <2>1
    <3>2. ops * Stride <= LinesPerChain(exp) - 1 /\ LinesPerChain(exp) - 1 < (ops + 1) * Stride
      BY <1>4, <2>1, <2>2, <3>1
    <3> QED  BY <1>1, <3>2, FinalIs
  <2>8. phase' \in {"forward", "close"}
    BY <2>1
  <2> QED  BY <1>2, <2>3, <2>6, <2>7, <2>8 DEF StridedBuild
<1>8. CASE Scan
  <2>1. /\ phase = "scan" /\ i \in Lines /\ UNCHANGED linkVars /\ ops = 0 /\ ops' = 0
        /\ Matches(StridedOrder)
        /\ \/ i + Stride < LinesPerChain(exp) /\ i' = i + Stride /\ phase' = "scan"
           \/ ~(i + Stride < LinesPerChain(exp)) /\ i' = i /\ phase' = "reverse"
    BY <1>3, <1>8 DEF Scan, BaseInv, CounterInv, StridedBuild, linkVars
  <2>2. PICK m \in Int : i = m * Stride
    BY <1>3, <2>1 DEF StridedBuild
  <2>3. m * Stride \in Int /\ (m + 1) * Stride = m * Stride + Stride /\ m + 1 \in Int
    BY <1>4
  <2>4. Matches(StridedOrder)'
    BY <1>5, <2>1
  <2>5. CASE phase' = "scan"
    <3>1. i' = (m + 1) * Stride
      BY <2>1, <2>2, <2>3, <2>5
    <3> QED  BY <1>2, <2>3, <2>4, <2>5, <3>1 DEF StridedBuild
  <2>6. CASE phase' = "reverse"
    <3>1. ~(i + Stride < LinesPerChain(exp)) /\ i' = i
      BY <2>1, <2>6
    <3>2. m * Stride <= LinesPerChain(exp) - 1 /\ LinesPerChain(exp) - 1 < (m + 1) * Stride
      BY <1>4, <2>1, <2>2, <2>3, <3>1
    <3>3. Final = m
      BY <1>1, <3>2, FinalIs
    <3>4. Final - 0 = Final
      BY <1>4
    <3>5. i' = (Final - ops') * Stride
      BY <2>1, <2>2, <3>1, <3>3, <3>4
    <3> QED  BY <1>2, <2>4, <2>6, <3>5 DEF StridedBuild
  <2> QED  BY <2>1, <2>5, <2>6
<1>9. CASE Reverse
  <2>1. /\ phase = "reverse" /\ Link(i) /\ i' = i - Stride /\ i \in Lines /\ exp.stride < 0
        /\ phase' = IF 0 <= i - Stride THEN "reverse" ELSE "close"
        /\ i = (Final - ops) * Stride /\ Matches(StridedOrder) /\ ops' = ops + 1
    BY <1>3, <1>9 DEF Reverse, Link, BaseInv, CounterInv, StridedBuild
  <2> DEFINE d == Final - ops
  <2>2. d \in Int /\ d * Stride \in Int /\ (d + 1) * Stride = d * Stride + Stride
        /\ (d - 1) * Stride = d * Stride - Stride /\ Final - ops' = d - 1
    BY <1>1, <1>4, <2>1
  <2>d. i = d * Stride
    BY <2>1
  <2> HIDE DEF d
  <2>3. i' = (Final - ops') * Stride
    BY <2>1, <2>2, <2>d
  <2>4. d >= 0
    <3>1. (-1) * Stride < d * Stride
      <4>1. d * Stride >= 0
        BY <1>4, <2>1, <2>d
      <4> QED  BY <1>4, <2>2, <4>1
    <3>2. -1 \in Int /\ Stride \in Nat \ {0}
      BY <1>4
    <3>3. -1 < d
      BY <2>2, <3>1, <3>2, LessFactor, Zenon
    <3> QED  BY <2>2, <3>3
  <2>5. ops \in 0 .. Final
    BY <1>1, <1>4, <2>4 DEF d
  <2>6. StridedOrder[ops] = i
    BY <1>1, <1>4, <2>1, <2>5 DEF StridedOrder
  <2>7. Matches(StridedOrder)'
    <3>1. PICK f : f = StridedOrder
      OBVIOUS
    <3>2. StridedOrder' = f /\ Matches(f) /\ f[ops] = i
      BY <1>2, <2>1, <2>6, <3>1
    <3>3. Matches(f)'
      BY <1>1, <2>1, <3>2, LinkMatches DEF BaseInv
    <3> QED  BY <3>2, <3>3 DEF Matches
  <2>8. phase' = "close" => ops' = Final + 1
    <3> SUFFICES ASSUME phase' = "close" PROVE ops = Final
      BY <2>1
    <3>1. (d - 1) * Stride < 0 * Stride
      BY <1>4, <2>1, <2>2, <2>d
    <3>2. d - 1 \in Int /\ 0 \in Int /\ Stride \in Nat \ {0}
      BY <1>4, <2>2
    <3>3. d - 1 < 0
      BY <3>1, <3>2, LessFactor, Zenon
    <3>4. d = 0
      BY <2>2, <2>4, <3>3
    <3> QED  BY <1>1, <1>4, <3>4 DEF d
  <2>9. phase' \in {"reverse", "close"}
    BY <2>1
  <2> QED  BY <1>2, <2>3, <2>7, <2>8, <2>9 DEF StridedBuild
<1>10. CASE Close \/ Hop
  <2>1. phase \in {"close", "chase"} /\ phase' \in {"chase", "return"} /\ ops' = ops
    BY <1>10 DEF Close, Hop, linkVars
  <2> QED  BY <1>2, <1>3, <2>1 DEF StridedBuild
<1>11. CASE UNCHANGED vars
  <2>1. UNCHANGED <<phase, i, ops, linkVars>>
    BY <1>11 DEF vars, linkVars
  <2> QED  BY <1>2, <1>3, <1>5, <2>1 DEF StridedBuild
<1>12. ~Random
  BY <1>3 DEF BaseInv, CounterInv, Random, RandomStart, RandomPage, RandomLine
<1> QED
  BY <1>6, <1>7, <1>8, <1>9, <1>10, <1>11, <1>12 DEF Next, Strided, Returned

-----------------------------------------------------------------------------
(* Random chains, whatever the factors                                     *)

RandomOrder(g, pf, po, lf, lo) ==
  [n \in 0 .. LinesPerChain(g) - 1 |->
     LET m == n \div g.lines IN
       ((pf * m + po) % g.pages) * g.lines
         + ((lf[m] * (n % g.lines) + lo[m]) % g.lines)]

(* Which link of which page the n-th line is.                              *)
LEMMA PlaceOfLink ==
  ASSUME exp \in Geometry, NEW a \in 0 .. exp.pages - 1, NEW b \in 0 .. exp.lines - 1
  PROVE  /\ a * exp.lines + b \in 0 .. LinesPerChain(exp) - 1
         /\ (a * exp.lines + b) \div exp.lines = a
         /\ (a * exp.lines + b) % exp.lines = b
<1>1. /\ exp.pages \in Nat /\ exp.pages >= 1 /\ exp.lines \in Nat /\ exp.lines >= 1
      /\ exp.lines \in Nat \ {0} /\ a \in Int
  BY GeometryFacts
<1>2. a * exp.lines + b \in 0 .. LinesPerChain(exp) - 1
  BY <1>1, LineInChain DEF LinesPerChain
<1>3. (exp.lines * a + b) \div exp.lines = a /\ (exp.lines * a + b) % exp.lines = b
  BY <1>1, QuotientRemainder, Zenon
<1>4. exp.lines * a = a * exp.lines
  BY <1>1
<1> QED  BY <1>2, <1>3, <1>4

LEMMA LinkOfPlace ==
  ASSUME exp \in Geometry, NEW n \in 0 .. LinesPerChain(exp) - 1
  PROVE  \E a \in 0 .. exp.pages - 1, b \in 0 .. exp.lines - 1 :
           n = a * exp.lines + b /\ n \div exp.lines = a /\ n % exp.lines = b
<1>1. /\ exp.pages \in Nat /\ exp.lines \in Nat /\ exp.lines >= 1 /\ exp.lines \in Nat \ {0}
      /\ LinesPerChain(exp) = exp.pages * exp.lines /\ exp.pages * exp.lines \in Nat
  BY GeometryFacts DEF LinesPerChain
<1> DEFINE a == n \div exp.lines
           b == n % exp.lines
<1>2. n \in Nat /\ n < exp.pages * exp.lines
  BY <1>1
<1>3. a \in Int /\ b \in 0 .. exp.lines - 1 /\ n = exp.lines * a + b
  <2>1. PICK L \in Nat \ {0} : L = exp.lines
    BY <1>1
  <2>2. n \div L \in Int /\ n % L \in 0 .. L - 1 /\ n = L * (n \div L) + (n % L)
    BY <1>2
  <2> QED  BY <2>1, <2>2
<1> HIDE DEF a, b
<1>4. exp.lines * a = a * exp.lines /\ a * exp.lines \in Int
      /\ (a + 1) * exp.lines = a * exp.lines + exp.lines
  BY <1>1, <1>3
<1>5. a * exp.lines < exp.pages * exp.lines /\ 0 * exp.lines < (a + 1) * exp.lines
  BY <1>1, <1>2, <1>3, <1>4
<1>6. a < exp.pages /\ 0 < a + 1
  <2>1. a \in Int /\ exp.pages \in Int /\ 0 \in Int /\ a + 1 \in Int
    BY <1>1, <1>3
  <2> QED  BY <1>1, <1>5, <2>1, LessFactor, Zenon
<1>7. a \in 0 .. exp.pages - 1 /\ n = a * exp.lines + b
  BY <1>1, <1>3, <1>4, <1>6
<1>8. n \div exp.lines = a /\ n % exp.lines = b
  BY DEF a, b
<1> QED  BY <1>3, <1>7, <1>8

(* The lines drawn for a page are used from then on, and chosen freely.    *)
RandomBuild ==
  exp.pattern = "random" =>
    /\ DrawInv
    /\ phase # "init" => pageOffset \in 0 .. exp.pages - 1
    /\ phase \in {"init", "page", "line", "close"} =>
         \A l \in Lines : rank[l] = 0 => next[l] = Null
    /\ phase \in {"page", "line", "close"} =>
         \E lf, lo, f :
           /\ lf \in [0 .. exp.pages - 1 -> PrimeTable]
           /\ lo \in [0 .. exp.pages - 1 -> 0 .. exp.lines - 1]
           /\ phase = "line" => lf[i] = lineFactor /\ lo[i] = lineOffset
           /\ f = RandomOrder(exp, pageFactor, pageOffset, lf, lo)
           /\ Matches(f)

LEMMA StepRandomBuild ==
  ASSUME BaseInv, RandomBuild, [Next]_vars PROVE RandomBuild'
<1>1. exp' = exp /\ exp \in Geometry /\ ops \in Nat
  BY ExpKept DEF BaseInv, TypeOK
<1>2. Lines' = Lines /\ Null \notin Lines
  BY <1>1, LinesFacts DEF Lines
<1>3. SUFFICES ASSUME exp.pattern = "random" PROVE RandomBuild'
  BY <1>1 DEF RandomBuild
<1>4. DrawInv /\ DrawInv'
  BY <1>3, DrawStep DEF RandomBuild
<1>5. exp.pages \in Nat /\ exp.pages >= 1 /\ exp.lines \in Nat /\ exp.lines >= 1
  BY <1>1, GeometryFacts
<1> DEFINE Ls == [0 .. exp.pages - 1 -> PrimeTable]
           Os == [0 .. exp.pages - 1 -> 0 .. exp.lines - 1]
<1>6. CASE RandomStart
  <2>1. /\ UNCHANGED linkVars /\ ops = 0 /\ phase = "init" /\ phase' = "page"
        /\ pageFactor' \in PrimeTable /\ pageOffset' \in 0 .. exp.pages - 1
        /\ \A l \in Lines : rank[l] = 0 => next[l] = Null
    BY <1>3, <1>6 DEF RandomStart, BaseInv, CounterInv, RandomBuild
  <2>2. \A l \in Lines : next[l] = Null
    <3>1. \A l \in Lines : rank[l] \in Nat /\ rank[l] <= 0
      BY <2>1 DEF BaseInv, TypeOK, LinkInv
    <3> QED  BY <2>1, <3>1
  <2>3. PICK lf \in Ls, lo \in Os : TRUE
    <3>1. 0 \in 0 .. exp.lines - 1
      BY <1>5
    <3>2. [m \in 0 .. exp.pages - 1 |-> pageFactor'] \in Ls
      BY <2>1
    <3>3. [m \in 0 .. exp.pages - 1 |-> 0] \in Os
      BY <3>1
    <3> QED  BY <3>2, <3>3
  <2>4. PICK f : f = RandomOrder(exp, pageFactor', pageOffset', lf, lo)
    OBVIOUS
  <2>5. Matches(f)'
    BY <1>1, <2>1, <2>2, NothingLinked, MatchesSame
  <2>6. \A l \in Lines : rank'[l] = 0 => next'[l] = Null
    BY <2>1 DEF linkVars
  <2> QED  BY <1>1, <1>2, <1>4, <2>1, <2>4, <2>5, <2>6 DEF RandomBuild
<1>7. CASE RandomPage
  <2>1. /\ UNCHANGED linkVars /\ UNCHANGED <<i, pageFactor, pageOffset, ops>>
        /\ phase = "page" /\ phase' = "line"
        /\ lineFactor' \in PrimeTable /\ lineOffset' \in 0 .. exp.lines - 1
        /\ \A l \in Lines : rank[l] = 0 => next[l] = Null
        /\ pageOffset \in 0 .. exp.pages - 1
        /\ i \in 0 .. exp.pages - 1 /\ j = 0 /\ ops = i * exp.lines + j
    BY <1>3, <1>4, <1>7 DEF RandomPage, RandomBuild, linkVars, DrawInv
  <2>2. PICK lf, lo, f :
          /\ lf \in Ls /\ lo \in Os
          /\ f = RandomOrder(exp, pageFactor, pageOffset, lf, lo) /\ Matches(f)
    BY <1>3, <2>1 DEF RandomBuild
  <2>3. PICK lg \in Ls, lp \in Os :
          lg = [lf EXCEPT ![i] = lineFactor'] /\ lp = [lo EXCEPT ![i] = lineOffset']
    BY <2>1, <2>2
  <2>4. PICK g : g = RandomOrder(exp, pageFactor, pageOffset, lg, lp)
    OBVIOUS
  <2>5. ASSUME NEW n \in 0 .. ops - 1 PROVE g[n] = f[n]
    <3>1. n \in 0 .. LinesPerChain(exp) - 1 /\ n < i * exp.lines /\ i * exp.lines \in Int
      <4>1. i * exp.lines + 0 \in 0 .. LinesPerChain(exp) - 1
        <5>1. i \in 0 .. exp.pages - 1 /\ 0 \in 0 .. exp.lines - 1
          BY <1>5, <2>1
        <5> QED  BY <1>1, <5>1, PlaceOfLink, Zenon
      <4>2. i * exp.lines \in Int /\ LinesPerChain(exp) \in Nat
        BY <1>1, <1>5, <2>1, LinesFacts
      <4> QED  BY <1>1, <2>1, <4>1, <4>2
    <3>2. PICK a \in 0 .. exp.pages - 1, b \in 0 .. exp.lines - 1 :
            n = a * exp.lines + b /\ n \div exp.lines = a
      BY <1>1, <3>1, LinkOfPlace
    <3>3. a # i
      <4> SUFFICES ASSUME a = i PROVE FALSE
        OBVIOUS
      <4>1. n = i * exp.lines + b
        BY <3>2
      <4> QED  BY <1>5, <3>1, <4>1
    <3>4. lg[a] = lf[a] /\ lp[a] = lo[a]
      BY <2>2, <2>3, <3>2, <3>3
    <3> QED  BY <2>2, <2>4, <3>1, <3>2, <3>4 DEF RandomOrder
  <2>6. Matches(g)
    BY <2>2, <2>5, MatchesAgree DEF BaseInv
  <2>7. Matches(g)'
    BY <1>1, <2>1, <2>6, MatchesSame
  <2>8. lg[i] = lineFactor' /\ lp[i] = lineOffset'
    BY <2>1, <2>2, <2>3
  <2>9. \A l \in Lines : rank'[l] = 0 => next'[l] = Null
    BY <2>1 DEF linkVars
  <2> QED  BY <1>1, <1>2, <1>4, <2>1, <2>4, <2>7, <2>8, <2>9 DEF RandomBuild
<1>8. CASE RandomLine
  <2>1. /\ UNCHANGED <<pageFactor, pageOffset, lineFactor, lineOffset, page>>
        /\ phase = "line" /\ Link(LineAt(j)) /\ phase' \in {"page", "line", "close"}
        /\ phase' = "line" => i' = i
        /\ pageOffset \in 0 .. exp.pages - 1 /\ page = PageAt(i)
        /\ i \in 0 .. exp.pages - 1 /\ ops = i * exp.lines + j /\ j \in 0 .. exp.lines - 1
    BY <1>3, <1>4, <1>8 DEF RandomLine, RandomBuild, drawVars, DrawInv, LineAt, BaseInv, TypeOK
  <2>2. PICK lf, lo, f :
          /\ lf \in Ls /\ lo \in Os
          /\ lf[i] = lineFactor /\ lo[i] = lineOffset
          /\ f = RandomOrder(exp, pageFactor, pageOffset, lf, lo) /\ Matches(f)
    BY <1>3, <2>1 DEF RandomBuild
  <2>3. /\ ops \in 0 .. LinesPerChain(exp) - 1
        /\ ops \div exp.lines = i /\ ops % exp.lines = j
    BY <1>1, <2>1, PlaceOfLink
  <2>4. f[ops] = LineAt(j)
    BY <2>1, <2>2, <2>3 DEF RandomOrder, LineAt, PageAt
  <2>5. LineAt(j) \in Lines
    <3>1. lineFactor * j + lineOffset \in Int /\ page \in 0 .. exp.pages - 1
      BY <1>5, <2>1 DEF BaseInv, TypeOK
    <3>2. (lineFactor * j + lineOffset) % exp.lines \in 0 .. exp.lines - 1
      BY <1>5, <3>1
    <3> QED  BY <1>5, <3>1, <3>2, LineInChain DEF LineAt, Lines, LinesPerChain
  <2>6. PICK l \in Lines : l = LineAt(j)
    BY <2>5
  <2>7. Matches(f)'
    BY <1>1, <2>1, <2>2, <2>4, <2>6, LinkMatches DEF BaseInv
  <2>8. \A m \in Lines : rank'[m] = 0 => next'[m] = Null
    BY <1>2, <2>7 DEF Matches
  <2>9. f = RandomOrder(exp', pageFactor', pageOffset', lf, lo)
    BY <1>1, <2>1, <2>2
  <2>10. phase' = "line" => lf[i'] = lineFactor' /\ lo[i'] = lineOffset'
    BY <2>1, <2>2
  <2> QED  BY <1>1, <1>2, <1>4, <2>1, <2>2, <2>7, <2>8, <2>9, <2>10 DEF RandomBuild
<1>9. CASE Close \/ Hop
  <2>1. phase \in {"close", "chase"} /\ phase' \in {"chase", "return"} /\ UNCHANGED pageOffset
    BY <1>9 DEF Close, Hop, drawVars
  <2> QED  BY <1>1, <1>3, <1>4, <2>1 DEF RandomBuild
<1>10. CASE UNCHANGED vars
  <2>1. /\ UNCHANGED linkVars
        /\ UNCHANGED <<phase, i, pageFactor, pageOffset, lineFactor, lineOffset, rank, next>>
    BY <1>10 DEF vars, linkVars
  <2>2. \A f : Matches(f) => Matches(f)'
    BY <1>1, <2>1, MatchesSame
  <2> QED  BY <1>1, <1>2, <1>3, <1>4, <2>1, <2>2 DEF RandomBuild
<1>11. ~Strided
  BY <1>3 DEF BaseInv, CounterInv, Strided, StridedStart, Forward, Scan, Reverse
<1> QED
  BY <1>6, <1>7, <1>8, <1>9, <1>10, <1>11 DEF Next, Random, Returned

-----------------------------------------------------------------------------
(* The closed form                                                         *)

Building == BaseInv /\ StridedBuild /\ RandomBuild

LEMMA InitBuilding == Init => Building
<1> SUFFICES ASSUME Init PROVE Building
  OBVIOUS
<1>1. exp \in Geometry
  BY GeometryAssumption DEF Init
<1>2. 0 = 0 * exp.lines + 0
  BY <1>1, GeometryFacts
<1>3. DrawInv
  BY <1>2 DEF Init, DrawInv
<1>4. \A l \in Lines : next[l] = Null
  BY DEF Init
<1>5. RandomBuild
  BY <1>3, <1>4 DEF Init, RandomBuild
<1>6. StridedBuild
  BY DEF Init, StridedBuild
<1> QED  BY <1>5, <1>6, InitBase DEF Building

LEMMA StepBuilding == Building /\ [Next]_vars => Building'
BY StepBase, StepStrided, StepRandomBuild DEF Building

LEMMA StridedOrdersAre ==
  ASSUME exp.pattern = "strided" PROVE Orders(exp) = {StridedOrder}
BY Zenon DEF Orders, StridedOrders, StridedOrder, Final, Stride

LEMMA RandomOrdersAre ==
  ASSUME exp.pattern = "random", NEW f
  PROVE  f \in Orders(exp) <=>
           \E pf \in PrimeTable, po \in 0 .. exp.pages - 1,
              lf \in [0 .. exp.pages - 1 -> PrimeTable],
              lo \in [0 .. exp.pages - 1 -> 0 .. exp.lines - 1] :
             f = RandomOrder(exp, pf, po, lf, lo)
BY DEF Orders, RandomOrders, RandomOrder

(* How many links the *_mem_init functions make.                           *)
Size == IF exp.pattern = "random" THEN LinesPerChain(exp) ELSE Final + 1

LEMMA OpsAreSize ==
  ASSUME Building, phase \in {"close", "chase", "return"} PROVE ops = Size
<1>1. exp \in Geometry /\ ops \in Nat
  BY DEF Building, BaseInv, TypeOK
<1>2. CASE exp.pattern = "random"
  <2>1. ops = exp.pages * exp.lines + 0
    BY <1>2 DEF Building, RandomBuild, DrawInv
  <2>2. exp.pages * exp.lines \in Nat
    BY <1>1, GeometryFacts
  <2> QED  BY <1>2, <2>1, <2>2 DEF Size, LinesPerChain
<1>3. CASE exp.pattern = "strided"
  BY <1>3 DEF Building, StridedBuild, Size
<1> QED  BY <1>1, <1>2, <1>3, GeometryFacts

LEMMA ClosesInOrder ==
  ASSUME Building, Close PROVE [root |-> root', next |-> next'] \in BuiltChains(exp)
<1>1. phase = "close" /\ exp \in Geometry /\ BaseInv
  BY DEF Close, Building, BaseInv, TypeOK
<1>2. ops = Size
  BY <1>1, OpsAreSize
<1>3. SUFFICES \E f \in Orders(exp) : Matches(f) /\ DOMAIN f = 0 .. ops - 1
  BY <1>1, CloseBuilds DEF BuiltChains
<1>4. CASE exp.pattern = "strided"
  <2>1. Matches(StridedOrder) /\ StridedOrder \in Orders(exp)
    BY <1>1, <1>4, StridedOrdersAre DEF Building, StridedBuild
  <2>2. DOMAIN StridedOrder = 0 .. Final /\ ops - 1 = Final
    BY <1>1, <1>2, <1>4, FinalFacts DEF StridedOrder, Size
  <2> QED  BY <2>1, <2>2
<1>5. CASE exp.pattern = "random"
  <2>1. PICK lf, lo, f :
          /\ lf \in [0 .. exp.pages - 1 -> PrimeTable]
          /\ lo \in [0 .. exp.pages - 1 -> 0 .. exp.lines - 1]
          /\ f = RandomOrder(exp, pageFactor, pageOffset, lf, lo) /\ Matches(f)
    BY <1>1, <1>5 DEF Building, RandomBuild
  <2>2. pageFactor \in PrimeTable /\ pageOffset \in 0 .. exp.pages - 1
    BY <1>1, <1>5 DEF Building, RandomBuild, DrawInv
  <2>3. f \in Orders(exp)
    BY <1>5, <2>1, <2>2, RandomOrdersAre, Zenon
  <2>4. DOMAIN f = 0 .. ops - 1
    BY <1>2, <1>5, <2>1 DEF RandomOrder, Size
  <2> QED  BY <2>1, <2>3, <2>4
<1> QED  BY <1>1, <1>4, <1>5, GeometryFacts

(* The three loops compute the chain of the closed form, for chains of any *)
(* size and whatever is drawn: lines that are linked twice included.       *)
THEOREM ChainsAreAsBuilt == LoopSpec => []AsBuilt
<1> DEFINE Built == phase \in {"chase", "return"} =>
                      [root |-> root, next |-> next] \in BuiltChains(exp)
           Inv == Building /\ Built
<1>1. Init => Inv
  BY InitBuilding DEF Init
<1>2. ASSUME Inv, [Next]_vars PROVE Inv'
  <2>1. Building' /\ exp' = exp
    BY <1>2, StepBuilding, ExpKept
  <2>2. CASE Close
    <3>1. [root |-> root', next |-> next'] \in BuiltChains(exp')
      BY <1>2, <2>1, <2>2, ClosesInOrder
    <3> QED  BY <2>1, <3>1
  <2>3. CASE ~Close
    <3>1. phase' \in {"chase", "return"} =>
            phase \in {"chase", "return"} /\ root' = root /\ next' = next
      BY <1>2, <2>3 DEF Next, Random, Strided, RandomStart, RandomPage, RandomLine,
         StridedStart, Forward, Scan, Reverse, Hop, Returned, vars, linkVars
    <3> QED  BY <1>2, <2>1, <3>1
  <2> QED  BY <2>2, <2>3
<1>3. Inv => AsBuilt
  BY DEF AsBuilt
<1> QED  BY <1>1, <1>2, <1>3, LoopImplementsChain, PTL DEF Spec

-----------------------------------------------------------------------------
(* The chains that are walked beside chain 0                               *)

LEMMA WrapsAround ==
  ASSUME NEW n \in Nat \ {0}, NEW p \in Nat, NEW k \in Nat, NEW o \in Nat
  PROVE  (p * k + o) % n \in 0 .. n - 1
<1>1. PICK x \in Int : x = p * k + o
  OBVIOUS
<1>2. x % n \in 0 .. n - 1
  OBVIOUS
<1> QED  BY <1>1, <1>2

(* Every order visits lines of the chain.                                  *)
LEMMA OrderTyped ==
  ASSUME exp \in Geometry, NEW f \in Orders(exp)
  PROVE  /\ Size \in Nat /\ Size >= 1
         /\ f \in [0 .. Size - 1 -> Lines]
<1>1. /\ exp.pages \in Nat /\ exp.pages >= 1 /\ exp.lines \in Nat /\ exp.lines >= 1
      /\ Stride \in Nat /\ Stride >= 1 /\ Final \in Nat
      /\ LinesPerChain(exp) \in Nat /\ LinesPerChain(exp) >= 1
  BY GeometryFacts, LinesFacts, FinalFacts
<1>2. CASE exp.pattern = "random"
  <2>1. PICK pf \in PrimeTable, po \in 0 .. exp.pages - 1,
             lf \in [0 .. exp.pages - 1 -> PrimeTable],
             lo \in [0 .. exp.pages - 1 -> 0 .. exp.lines - 1] :
          f = RandomOrder(exp, pf, po, lf, lo)
    BY <1>2, RandomOrdersAre
  <2>2. Size = LinesPerChain(exp)
    BY <1>2 DEF Size
  <2>3. ASSUME NEW n \in 0 .. LinesPerChain(exp) - 1 PROVE f[n] \in Lines
    <3>1. PICK a \in 0 .. exp.pages - 1, b \in 0 .. exp.lines - 1 :
            n \div exp.lines = a /\ n % exp.lines = b
      BY LinkOfPlace
    <3> DEFINE x == (pf * a + po) % exp.pages
               y == (lf[a] * b + lo[a]) % exp.lines
    <3>2. f[n] = x * exp.lines + y
      BY <2>1, <3>1 DEF RandomOrder
    <3>3. /\ exp.pages \in Nat \ {0} /\ exp.lines \in Nat \ {0}
          /\ pf \in Nat /\ a \in Nat /\ po \in Nat
          /\ lf[a] \in Nat /\ b \in Nat /\ lo[a] \in Nat
      <4>1. lf[a] \in PrimeTable /\ lo[a] \in 0 .. exp.lines - 1
        BY <2>1, <3>1
      <4>2. PrimeTable \subseteq Nat /\ pf \in PrimeTable
        BY <2>1, PrimesAssumption
      <4>3. lf[a] \in Nat /\ pf \in Nat
        BY <4>1, <4>2, Zenon
      <4> QED  BY <1>1, <4>1, <4>3
    <3>4. x \in 0 .. exp.pages - 1 /\ y \in 0 .. exp.lines - 1
      BY <3>3, WrapsAround, Zenon
    <3> HIDE DEF x, y
    <3>5. x * exp.lines + y \in 0 .. LinesPerChain(exp) - 1
      BY <3>4, PlaceOfLink, Zenon
    <3> QED  BY <3>2, <3>5 DEF Lines
  <2> QED  BY <1>1, <2>1, <2>2, <2>3 DEF RandomOrder
<1>3. CASE exp.pattern = "strided"
  <2>1. f = StridedOrder /\ Size = Final + 1
    BY <1>3, StridedOrdersAre DEF Size
  <2>2. ASSUME NEW c \in 0 .. Final PROVE c * Stride \in Lines
    <3>1. c * Stride \in Nat /\ (Final - c) * Stride \in Nat /\ Final * Stride \in Nat
      BY <1>1
    <3>2. Final * Stride = c * Stride + (Final - c) * Stride
      BY <1>1
    <3>3. Final * Stride <= LinesPerChain(exp) - 1
      BY FinalFacts
    <3>4. c * Stride <= LinesPerChain(exp) - 1
      BY <1>1, <3>1, <3>2, <3>3
    <3> QED  BY <1>1, <3>1, <3>4 DEF Lines
  <2>3. ASSUME NEW n \in 0 .. Final PROVE StridedOrder[n] \in Lines
    <3>1. Final - n \in 0 .. Final
      BY <1>1
    <3> QED  BY <2>2, <3>1 DEF StridedOrder
  <2>4. Size - 1 = Final
    BY <1>1, <2>1
  <2>5. f \in [0 .. Final -> Lines]
    <3>1. StridedOrder = [n \in 0 .. Final |-> StridedOrder[n]]
      BY Zenon DEF StridedOrder
    <3> QED  BY <2>1, <2>3, <3>1
  <2> QED  BY <1>1, <2>1, <2>4, <2>5
<1> QED  BY <1>2, <1>3, GeometryFacts

(* No line is visited twice.                                               *)
Exact == exp.pattern = "strided" \/ Coprime

LEMMA OrderInjective ==
  ASSUME exp \in Geometry, Exact, NEW f \in Orders(exp),
         NEW n \in 0 .. Size - 1, NEW m \in 0 .. Size - 1, f[n] = f[m]
  PROVE  n = m
<1>1. /\ exp.pages \in Nat \ {0} /\ exp.lines \in Nat \ {0}
      /\ Stride \in Nat \ {0} /\ Final \in Nat /\ LinesPerChain(exp) \in Nat
  BY GeometryFacts, LinesFacts, FinalFacts
<1>2. CASE exp.pattern = "random"
  <2>1. PICK pf \in PrimeTable, po \in 0 .. exp.pages - 1,
             lf \in [0 .. exp.pages - 1 -> PrimeTable],
             lo \in [0 .. exp.pages - 1 -> 0 .. exp.lines - 1] :
          f = RandomOrder(exp, pf, po, lf, lo)
    BY <1>2, RandomOrdersAre
  <2>2. Coprime /\ n \in 0 .. LinesPerChain(exp) - 1 /\ m \in 0 .. LinesPerChain(exp) - 1
    BY <1>2 DEF Size, Exact
  <2>3. PICK a \in 0 .. exp.pages - 1, b \in 0 .. exp.lines - 1 :
          n = a * exp.lines + b /\ n \div exp.lines = a /\ n % exp.lines = b
    BY <2>2, LinkOfPlace
  <2>4. PICK c \in 0 .. exp.pages - 1, d \in 0 .. exp.lines - 1 :
          m = c * exp.lines + d /\ m \div exp.lines = c /\ m % exp.lines = d
    BY <2>2, LinkOfPlace
  <2> DEFINE x(k) == (pf * k + po) % exp.pages
             y(k, o) == (lf[k] * o + lo[k]) % exp.lines
  <2>5. f[n] = x(a) * exp.lines + y(a, b) /\ f[m] = x(c) * exp.lines + y(c, d)
    BY <2>1, <2>2, <2>3, <2>4 DEF RandomOrder
  <2>6. \A k \in 0 .. exp.pages - 1 : x(k) \in 0 .. exp.pages - 1
    <3>1. pf \in Nat /\ po \in Nat /\ \A k \in 0 .. exp.pages - 1 : k \in Nat
      BY <1>1, PrimesAssumption
    <3> QED  BY <1>1, <3>1, WrapsAround, Zenon
  <2>7. \A k \in 0 .. exp.pages - 1, o \in 0 .. exp.lines - 1 :
          y(k, o) \in 0 .. exp.lines - 1
    <3>1. /\ \A k \in 0 .. exp.pages - 1 : lf[k] \in Nat /\ lo[k] \in Nat
          /\ \A o \in 0 .. exp.lines - 1 : o \in Nat
      <4>1. \A k \in 0 .. exp.pages - 1 : lf[k] \in PrimeTable /\ lo[k] \in 0 .. exp.lines - 1
        BY <2>1
      <4>2. PrimeTable \subseteq Nat
        BY PrimesAssumption
      <4>3. 0 .. exp.lines - 1 \subseteq Nat
        BY <1>1
      <4> QED  BY <4>1, <4>2, <4>3, Zenon
    <3> QED  BY <1>1, <3>1, WrapsAround, Zenon
  <2>8. pf \in Nat /\ Prime(pf) /\ exp.pages % pf # 0 /\ po \in Nat
    BY <1>1, <2>2, FactorFacts
  <2>9. lf[a] \in Nat /\ Prime(lf[a]) /\ exp.lines % lf[a] # 0 /\ lo[a] \in Nat
    <3>1. lf[a] \in PrimeTable /\ lo[a] \in 0 .. exp.lines - 1
      OBVIOUS
    <3> QED  BY <1>1, <2>2, <3>1, FactorFacts
  <2>10. x(a) = x(c) /\ y(a, b) = y(c, d)
    <3>1. PICK u \in 0 .. exp.pages - 1, v \in 0 .. exp.lines - 1 : u = x(a) /\ v = y(a, b)
      BY <2>6, <2>7
    <3>2. PICK w \in 0 .. exp.pages - 1, z \in 0 .. exp.lines - 1 : w = x(c) /\ z = y(c, d)
      BY <2>6, <2>7
    <3> HIDE DEF x, y
    <3>3. u * exp.lines + v = w * exp.lines + z
      BY <2>5, <3>1, <3>2
    <3>4. (u * exp.lines + v) \div exp.lines = u /\ (u * exp.lines + v) % exp.lines = v
      BY PlaceOfLink, Zenon
    <3>5. (w * exp.lines + z) \div exp.lines = w /\ (w * exp.lines + z) % exp.lines = z
      BY PlaceOfLink, Zenon
    <3> QED  BY <3>1, <3>2, <3>3, <3>4, <3>5, Zenon
  <2>11. a = c
    BY <1>1, <2>8, <2>10, FactorPermutes
  <2>12. b = d
    <3>1. (lf[a] * b + lo[a]) % exp.lines = (lf[a] * d + lo[a]) % exp.lines
      BY <2>10, <2>11
    <3> QED  BY <1>1, <2>9, <3>1, FactorPermutes
  <2> QED  BY <2>3, <2>4, <2>11, <2>12
<1>3. CASE exp.pattern = "strided"
  <2>1. f = StridedOrder /\ n \in 0 .. Final /\ m \in 0 .. Final
    BY <1>1, <1>3, StridedOrdersAre DEF Size
  <2>2. ASSUME NEW c \in Int, NEW d \in Int, c * Stride = d * Stride PROVE c = d
    <3>1. c + 1 \in Int /\ d + 1 \in Int /\ c * Stride \in Int /\ d * Stride \in Int
          /\ (c + 1) * Stride = c * Stride + Stride /\ (d + 1) * Stride = d * Stride + Stride
      BY <1>1
    <3>2. c * Stride < (d + 1) * Stride /\ d * Stride < (c + 1) * Stride
      BY <1>1, <2>2, <3>1
    <3>3. c < d + 1 /\ d < c + 1
      BY <1>1, <3>1, <3>2, LessFactor, Zenon
    <3> QED  BY <3>3
  <2>3. CASE exp.stride > 0
    <3>1. n * Stride = m * Stride /\ n \in Int /\ m \in Int
      BY <2>1, <2>3 DEF StridedOrder
    <3> QED  BY <2>2, <3>1
  <2>4. CASE ~(exp.stride > 0)
    <3>1. (Final - n) * Stride = (Final - m) * Stride
      BY <2>1, <2>4 DEF StridedOrder
    <3>2. Final - n \in Int /\ Final - m \in Int
      BY <1>1, <2>1
    <3>3. Final - n = Final - m
      BY <2>2, <3>1, <3>2, Zenon
    <3> QED  BY <1>1, <2>1, <3>3
  <2> QED  BY <2>3, <2>4
<1> QED  BY <1>2, <1>3, GeometryFacts

(* A link leads to a line of the order: to the next one, where no line is  *)
(* visited twice.                                                          *)
LEMMA LinkedLeads ==
  ASSUME exp \in Geometry, NEW f \in Orders(exp), NEW k \in 0 .. Size - 1
  PROVE  \E q \in 0 .. Size - 1 :
           /\ Linked(exp, f).next[f[k]] = f[q]
           /\ Exact => q = IF k + 1 < Size THEN k + 1 ELSE 0
<1>1. Size \in Nat /\ Size >= 1 /\ f \in [0 .. Size - 1 -> Lines]
  BY OrderTyped
<1> DEFINE l == f[k]
           Last(n) == f[n] = l /\ \A m \in DOMAIN f : f[m] = l => m <= n
           Chosen == CHOOSE n \in DOMAIN f : Last(n)
<1>2. l \in 0 .. LinesPerChain(exp) - 1 /\ DOMAIN f = 0 .. Size - 1 /\ k \in DOMAIN f
  BY <1>1 DEF Lines
<1>3. Linked(exp, f).next[l] = IF Chosen + 1 \in DOMAIN f THEN f[Chosen + 1] ELSE f[0]
  BY <1>2 DEF Linked
<1>4. \E n \in DOMAIN f : Last(n)
  <2> DEFINE T == {Size - 1 - n : n \in {m \in DOMAIN f : f[m] = l}}
  <2>1. T \subseteq Nat /\ T # {}
    BY <1>1, <1>2
  <2>2. PICK t \in T : \A u \in T : t <= u
    <3> HIDE DEF T
    <3> QED  BY <2>1, LeastNatural
  <2>3. PICK n \in DOMAIN f : f[n] = l /\ t = Size - 1 - n
    BY <2>2
  <2>4. ASSUME NEW m \in DOMAIN f, f[m] = l PROVE m <= n
    <3>1. Size - 1 - m \in T
      BY <2>4
    <3>2. Size - 1 - n <= Size - 1 - m
      BY <2>2, <2>3, <3>1
    <3> QED  BY <1>1, <1>2, <3>2
  <2> QED  BY <2>3, <2>4
<1>5. Chosen \in DOMAIN f /\ f[Chosen] = l
  <2>1. Chosen \in DOMAIN f /\ Last(Chosen)
    <3> HIDE DEF Last
    <3> QED  BY <1>4, Zenon
  <2> HIDE DEF Chosen
  <2> QED  BY <2>1
<1> HIDE DEF Chosen
<1>6. Exact => Chosen = k
  BY <1>2, <1>5, OrderInjective
<1>7. PICK q : q = IF Chosen + 1 \in DOMAIN f THEN Chosen + 1 ELSE 0
  OBVIOUS
<1>8. q \in 0 .. Size - 1 /\ Linked(exp, f).next[l] = f[q]
  BY <1>1, <1>2, <1>3, <1>7
<1>9. Exact => q = IF k + 1 < Size THEN k + 1 ELSE 0
  BY <1>1, <1>2, <1>6, <1>7
<1> QED  BY <1>8, <1>9

(* Every other chain was linked in some order, and its position is one of  *)
(* its lines: as many lines from the root as there were hops, where no     *)
(* line is visited twice.                                                  *)
OthersInv ==
  phase \in {"chase", "return"} =>
    \A n \in OtherChains :
      \E f \in Orders(exp), k \in 0 .. Size - 1 :
        /\ others[n] = Linked(exp, f) /\ positions[n] = f[k]
        /\ Exact => k = IF phase = "return" THEN 0 ELSE hops

LEMMA SizeKept ==
  ASSUME exp' = exp
  PROVE  /\ Size' = Size /\ OtherChains' = OtherChains /\ Lines' = Lines
         /\ Exact' = Exact
BY Zenon DEF Size, Final, Stride, OtherChains, Lines, Exact, Coprime

(* A round that does not return has not made all its hops.                 *)
LEMMA HopsOfExact ==
  IInv /\ Exact => /\ phase = "chase" => hops < ops
                   /\ phase = "return" => hops = ops
<1> SUFFICES ASSUME IInv, Exact
             PROVE  /\ phase = "chase" => hops < ops
                    /\ phase = "return" => hops = ops
  OBVIOUS
<1>1. exp \in Geometry /\ BaseInv
  BY DEF IInv, BaseInv, TypeOK
<1>2. phase = "chase" => hops \in Nat /\ ops \in Nat /\ rank[pos] \in Nat /\ rank[pos] <= ops /\ hops < rank[pos]
  BY <1>1 DEF BaseInv, TypeOK, ChaseInv, LinkInv
<1>3. phase = "return" => hops = ops
  BY <1>1, GeometryFacts DEF Exact, IInv, RandomInv, WalkInv, BaseInv, StridedInv
<1> QED  BY <1>2, <1>3

LEMMA StepOthers ==
  ASSUME IInv, IInv', Building, Building', OthersInv, [LoopNext]_allVars
  PROVE  OthersInv'
<1>1. exp' = exp /\ exp \in Geometry
  BY LoopStep, ExpKept DEF Building, BaseInv, TypeOK
<1>2. Size' = Size /\ OtherChains' = OtherChains /\ Exact' = Exact
  BY <1>1, SizeKept
<1>3. CASE Begin
  <2>1. /\ phase' = "chase" /\ hops' = 0
        /\ positions' = [n \in OtherChains |-> others'[n].root]
        /\ OtherChains # {} => others' \in [OtherChains -> BuiltChains(exp)]
    BY <1>3 DEF Begin, Close, Building, BaseInv, ChaseInv
  <2>2. ASSUME NEW n \in OtherChains
        PROVE  \E f \in Orders(exp), k \in 0 .. Size - 1 :
                 /\ others'[n] = Linked(exp, f) /\ positions'[n] = f[k] /\ k = 0
    <3>1. PICK f \in Orders(exp) : others'[n] = Linked(exp, f)
      BY <2>1 DEF BuiltChains
    <3>2. positions'[n] = f[0]
      BY <2>1, <3>1 DEF Linked
    <3>3. 0 \in 0 .. Size - 1
      BY <1>1, OrderTyped
    <3> QED  BY <3>1, <3>2, <3>3
  <2> QED  BY <1>1, <1>2, <2>1, <2>2 DEF OthersInv
<1>4. CASE Loop
  <2>1. /\ phase = "chase" /\ phase' \in {"chase", "return"} /\ hops' = hops + 1
        /\ positions' = [n \in OtherChains |-> Successor(n)]
        /\ others' = others /\ ops' = ops /\ ops = Size /\ hops \in Nat /\ ops \in Nat
    BY <1>4, OpsAreSize DEF Loop, Hop, linkVars, Building, BaseInv, TypeOK
  <2>2. Exact => /\ phase' = "chase" => hops + 1 < Size
                 /\ phase' = "return" => hops + 1 = Size
    <3>1. Exact => /\ phase' = "chase" => hops' < ops'
                   /\ phase' = "return" => hops' = ops'
      <4>1. (IInv /\ Exact => /\ phase = "chase" => hops < ops
                              /\ phase = "return" => hops = ops)'
        BY HopsOfExact, PTL
      <4> QED  BY <1>2, <4>1
    <3> QED  BY <2>1, <3>1
  <2>3. ASSUME NEW n \in OtherChains
        PROVE  \E f \in Orders(exp), q \in 0 .. Size - 1 :
                 /\ others'[n] = Linked(exp, f) /\ positions'[n] = f[q]
                 /\ Exact => q = IF phase' = "return" THEN 0 ELSE hops'
    <3>1. PICK f \in Orders(exp), k \in 0 .. Size - 1 :
            /\ others[n] = Linked(exp, f) /\ positions[n] = f[k]
            /\ Exact => k = hops
      BY <2>1 DEF OthersInv
    <3>2. PICK q \in 0 .. Size - 1 :
            /\ Linked(exp, f).next[f[k]] = f[q]
            /\ Exact => q = IF k + 1 < Size THEN k + 1 ELSE 0
      BY <1>1, LinkedLeads
    <3>3. positions'[n] = f[q]
      <4>1. n # 0
        BY DEF OtherChains
      <4> QED  BY <2>1, <3>1, <3>2, <4>1 DEF Successor
    <3>4. Exact => q = IF phase' = "return" THEN 0 ELSE hops'
      BY <2>1, <2>2, <3>1, <3>2
    <3> QED  BY <2>1, <3>1, <3>3, <3>4
  <2> QED  BY <1>1, <1>2, <2>1, <2>3 DEF OthersInv
<1>5. CASE LinkStep
  <2>1. phase' \notin {"chase", "return"}
    BY <1>5 DEF LinkStep, Random, Strided, RandomStart, RandomPage, RandomLine,
       StridedStart, Forward, Scan, Reverse
  <2> QED  BY <2>1 DEF OthersInv
<1>6. CASE Fault \/ Stay \/ UNCHANGED allVars
  <2>1. UNCHANGED <<phase, hops, others, positions>>
    BY <1>6 DEF Fault, Stay, Returned, loopVars, allVars, vars
  <2> QED  BY <1>1, <1>2, <2>1 DEF OthersInv
<1> QED  BY <1>3, <1>4, <1>5, <1>6 DEF LoopNext

(* A thread with several chains, of any size: no position leaves its chain *)
(* whatever is drawn; and if no factor divides the pages or the lines, all *)
(* chains are at their roots again when the loop, which only compares      *)
(* chain 0, returns.                                                       *)
THEOREM ChainsReturnTogether == LoopSpec => []AllChainsReturn
<1> DEFINE Inv == IInv /\ Building /\ OthersInv
<1>1. LoopInit => Inv
  BY InitBase, InitRandom, InitBuilding DEF LoopInit, Init, IInv, OthersInv
<1>2. ASSUME Inv, [LoopNext]_allVars PROVE Inv'
  <2>1. [Next]_vars
    BY <1>2, LoopStep
  <2>2. IInv' /\ Building'
    BY <1>2, <2>1, StepBase, StepRandom, StepBuilding DEF IInv
  <2> QED  BY <1>2, <2>2, StepOthers
<1>3. ASSUME Inv PROVE AllChainsReturn
  <2>1. exp \in Geometry
    BY <1>3 DEF IInv, BaseInv, TypeOK
  <2>2. ASSUME NEW n \in OtherChains, phase \in {"chase", "return"}
        PROVE  /\ positions[n] \in Lines /\ others[n].next[positions[n]] # Null
               /\ phase = "return" /\ Exact => positions[n] = others[n].root
    <3>1. PICK f \in Orders(exp), k \in 0 .. Size - 1 :
            /\ others[n] = Linked(exp, f) /\ positions[n] = f[k]
            /\ Exact => k = IF phase = "return" THEN 0 ELSE hops
      BY <1>3, <2>2 DEF OthersInv
    <3>2. PICK q \in 0 .. Size - 1 : Linked(exp, f).next[f[k]] = f[q]
      BY <2>1, LinkedLeads
    <3>3. f[k] \in Lines /\ f[q] \in Lines /\ Null \notin Lines
      BY <2>1, OrderTyped, LinesFacts
    <3>4. Linked(exp, f).root = f[0]
      BY DEF Linked
    <3> QED  BY <3>1, <3>2, <3>3, <3>4
  <2>3. phase = "return" /\ Exact => hops = ops
    BY <1>3, HopsOfExact
  <2> QED  BY <2>2, <2>3 DEF AllChainsReturn, Exact
<1> QED  BY <1>1, <1>2, <1>3, PTL DEF LoopSpec

-----------------------------------------------------------------------------
(* The memory that the operations access                                   *)

(* Operand n at line l, e words more than the line apart: it is in line    *)
(* l + n, behind the pointer, as long as the drift n * e is less than h.   *)
LEMMA PlaceOfOperand ==
  ASSUME NEW h \in Nat, NEW e \in Nat, NEW l \in Nat, NEW n \in Nat, n * e + 1 < h
  PROVE  \E m \in Nat, d \in 1 .. h - 1 :
           m = l + n /\ l * h + n * (h + e) + 1 = m * h + d
<1>1. n * e \in Nat
  OBVIOUS
<1>2. PICK d : d = n * e + 1
  OBVIOUS
<1>3. d \in 1 .. h - 1
  BY <1>1, <1>2
<1>4. l * h + n * (h + e) + 1 = (l + n) * h + d
  <2>1. n * (h + e) = n * h + n * e /\ (l + n) * h = l * h + n * h
    OBVIOUS
  <2>2. l * h \in Nat /\ n * h \in Nat
    OBVIOUS
  <2> QED  BY <1>1, <1>2, <2>1, <2>2
<1> QED  BY <1>3, <1>4

(* A word behind the pointer of line m is not the pointer of a line, and   *)
(* it is in the first q lines if m is.                                     *)
LEMMA BehindPointer ==
  ASSUME NEW h \in Nat, NEW m \in Nat, NEW d \in 1 .. h - 1
  PROVE  /\ \A k \in Nat : k * h # m * h + d
         /\ \A q \in Nat : m < q => m * h + d \in 0 .. q * h - 1
<1>1. m * h \in Nat /\ d \in Nat /\ d >= 1 /\ d < h
  OBVIOUS
<1>2. ASSUME NEW k \in Nat, k >= m + 1 PROVE k * h > m * h + d
  <2>1. k - (m + 1) \in Nat
    BY <1>2
  <2>2. (k - (m + 1)) * h >= 0
    BY <2>1
  <2>3. (k - (m + 1)) * h = k * h - (m * h + h) /\ k * h \in Nat
    OBVIOUS
  <2> QED  BY <1>1, <2>2, <2>3
<1>3. ASSUME NEW k \in Nat, k <= m PROVE k * h < m * h + d
  <2>1. m - k \in Nat
    BY <1>3
  <2>2. (m - k) * h >= 0
    BY <2>1
  <2>3. (m - k) * h = m * h - k * h /\ k * h \in Nat
    OBVIOUS
  <2> QED  BY <1>1, <2>2, <2>3
<1>4. ASSUME NEW k \in Nat PROVE k * h # m * h + d
  <2>1. k * h \in Nat
    OBVIOUS
  <2>2. k <= m \/ k >= m + 1
    OBVIOUS
  <2> QED  BY <1>1, <1>2, <1>3, <2>1, <2>2
<1>5. ASSUME NEW q \in Nat, m < q PROVE m * h + d \in 0 .. q * h - 1
  <2>1. q * h > m * h + d /\ q * h \in Nat
    BY <1>2, <1>5
  <2> QED  BY <1>1, <2>1
<1> QED  BY <1>4, <1>5

LEMMA LineSizeFacts ==
  ASSUME exp \in Geometry
  PROVE  /\ LineSize \in Nat /\ LineSize >= 2 /\ Values \in Nat /\ Values <= Stride
         /\ exp.words % 2 \in {0, 1} /\ exp.words = LineSize + (exp.words % 2)
BY GeometryFacts DEF LineSize, Values

(* The operands of a line lie behind pointers, in lines from it on.        *)
LEMMA OperandsPlaced ==
  ASSUME exp \in Geometry, DriftFits, NEW l \in Lines, NEW a \in Operands(l)
  PROVE  \E m \in Nat, d \in 1 .. LineSize - 1 :
           a = m * LineSize + d /\ m < l + Values
<1>1. PICK n \in 0 .. Values - 1 : a = l * LineSize + n * exp.words + 1
  BY DEF Operands, Address
<1>2. PICK e \in {0, 1} : e = exp.words % 2
  BY LineSizeFacts
<1>3. l \in Nat /\ n \in Nat /\ e \in Nat /\ n < Values /\ LineSize \in Nat
      /\ LineSize >= 2 /\ Values \in Nat /\ Values <= Stride /\ Stride \in Nat
  BY <1>1, <1>2, LineSizeFacts, LinesFacts, GeometryFacts
<1>4. exp.words = LineSize + e
  BY <1>2, LineSizeFacts
<1>5. n * e + 1 < LineSize
  <2>1. n = 0 \/ e = 0 \/ Stride < LineSize
    BY <1>2, <1>3 DEF DriftFits
  <2>2. CASE n = 0
    BY <1>3, <2>2
  <2>3. CASE e = 0
    BY <1>3, <2>3
  <2>4. CASE Stride < LineSize /\ e = 1
    <3>1. n * e = n
      BY <1>3, <2>4
    <3> QED  BY <1>3, <2>4, <3>1
  <2> QED  BY <1>2, <2>1, <2>2, <2>3, <2>4
<1>6. PICK m \in Nat, d \in 1 .. LineSize - 1 :
        m = l + n /\ l * LineSize + n * (LineSize + e) + 1 = m * LineSize + d
  <2>1. PICK h \in Nat : h = LineSize
    BY <1>3
  <2>2. \E m \in Nat, d \in 1 .. h - 1 : m = l + n /\ l * h + n * (h + e) + 1 = m * h + d
    <3>1. l \in Nat /\ n \in Nat /\ e \in Nat /\ n * e + 1 < h
      BY <1>3, <1>5, <2>1
    <3> QED  BY <3>1, PlaceOfOperand
  <2> QED  BY <2>1, <2>2
<1>7. a = m * LineSize + d
  BY <1>1, <1>4, <1>6, Zenon
<1>8. m < l + Values
  BY <1>3, <1>6
<1> QED  BY <1>7, <1>8

(* They are no pointers.                                                   *)
LEMMA OperandsAreData ==
  ASSUME exp \in Geometry, DriftFits, NEW l \in Lines, NEW k \in Lines
  PROVE  Address(k) \notin Operands(l)
<1> SUFFICES ASSUME Address(k) \in Operands(l) PROVE FALSE
  OBVIOUS
<1>1. PICK m \in Nat, d \in 1 .. LineSize - 1 : Address(k) = m * LineSize + d
  BY OperandsPlaced
<1>2. k \in Nat /\ LineSize \in Nat
  BY LinesFacts, LineSizeFacts
<1>3. k * LineSize # m * LineSize + d
  BY <1>2, BehindPointer, Zenon
<1> QED  BY <1>1, <1>3 DEF Address

(* They are in the chain, if its stride leads to the line and divides it.  *)
LEMMA OperandsInMemory ==
  ASSUME exp \in Geometry, DriftFits, Tiled, NEW l \in Lines,
         exp.pattern = "strided" => Divides(Stride, l)
  PROVE  Operands(l) \subseteq Memory
<1> DEFINE q == LinesPerChain(exp)
<1>1. /\ q \in Nat /\ l \in Nat /\ l < q /\ LineSize \in Nat
      /\ Values \in Nat /\ Values <= Stride /\ Stride \in Nat \ {0}
  BY LinesFacts, LineSizeFacts, GeometryFacts DEF Lines
<1>2. l + Values <= q
  <2>1. CASE Values <= 1
    BY <1>1, <2>1
  <2>2. CASE exp.pattern = "strided" /\ q % Stride = 0
    <3>1. Divides(Stride, q)
      BY <1>1, <2>2, DividesRemainder
    <3>2. l \in Int /\ q \in Int
      BY <1>1
    <3>3. l + Stride <= q
      BY <1>1, <2>2, <3>1, <3>2, RoomForStride
    <3> QED  BY <1>1, <3>3
  <2> QED  BY <2>1, <2>2 DEF Tiled
<1>3. ASSUME NEW a \in Operands(l) PROVE a \in Memory
  <2>1. PICK m \in Nat, d \in 1 .. LineSize - 1 :
          a = m * LineSize + d /\ m < l + Values
    BY OperandsPlaced
  <2>2. m < q
    BY <1>1, <1>2, <2>1
  <2>3. m * LineSize + d \in 0 .. q * LineSize - 1
    BY <1>1, <2>2, BehindPointer, Zenon
  <2> QED  BY <2>1, <2>3 DEF Memory
<1> QED  BY <1>3

(* Where a chain goes: to one of its lines, a multiple of its stride.      *)
LEMMA SuccessorsLinked ==
  ASSUME BaseInv, MultipleInv, OthersInv, phase = "chase", NEW n \in Chains
  PROVE  /\ Successor(n) \in Lines
         /\ exp.pattern = "strided" => Divides(Stride, Successor(n))
<1>1. exp \in Geometry
  BY DEF BaseInv, TypeOK
<1>2. CASE n = 0
  <2>1. Successor(n) \in LinkedLines
    BY <1>2, HopLinked DEF Successor
  <2> QED  BY <2>1 DEF LinkedLines, MultipleInv
<1>3. CASE n \in OtherChains /\ n # 0
  <2>1. PICK f \in Orders(exp), k \in 0 .. Size - 1 :
          others[n] = Linked(exp, f) /\ positions[n] = f[k]
    BY <1>3 DEF OthersInv
  <2>2. PICK q \in 0 .. Size - 1 : Linked(exp, f).next[f[k]] = f[q]
    BY <1>1, LinkedLeads
  <2>3. Successor(n) = f[q] /\ f[q] \in Lines
    BY <1>1, <1>3, <2>1, <2>2, OrderTyped DEF Successor
  <2>4. ASSUME exp.pattern = "strided" PROVE Divides(Stride, f[q])
    <3>1. f = StridedOrder /\ q \in 0 .. Final
      BY <1>1, <2>4, StridedOrdersAre, FinalFacts DEF Size
    <3>2. PICK c \in Int : f[q] = c * Stride
      <4>1. q \in Int /\ Final - q \in Int
        BY <1>1, <3>1, FinalFacts
      <4> QED  BY <3>1, <4>1 DEF StridedOrder
    <3>3. f[q] = Stride * c
      BY <1>1, <3>2, GeometryFacts
    <3> QED  BY <3>3 DEF Divides
  <2> QED  BY <2>3, <2>4
<1> QED  BY <1>2, <1>3 DEF Chains, OtherChains

(* An operation on data of the chain overwrites no link.                   *)
LEMMA OverwritesNothing ==
  ASSUME exp \in Geometry, DriftFits, NEW l \in Lines, Operands(l) \subseteq Memory, NEW n
  PROVE  Overwrites(n, l) = {{}}
<1>1. {m \in Lines : Address(m) \in Operands(l)} = {}
  BY OperandsAreData
<1>2. {<<n, m>> : m \in {m \in Lines : Address(m) \in Operands(l)}} = {}
  BY <1>1
<1> QED  BY <1>2 DEF Overwrites

MemoryInv == BaseInv /\ MultipleInv /\ OthersInv /\ WithinWorkingSet /\ DataOnly

LEMMA GeometryKept ==
  ASSUME exp' = exp
  PROVE  /\ Lines' = Lines /\ Memory' = Memory /\ Tiled' = Tiled /\ DriftFits' = DriftFits
         /\ \A l : Address(l)' = Address(l)
BY Zenon DEF Lines, Memory, Tiled, DriftFits, Address, LineSize, Values, Stride

LEMMA StepMemory ==
  ASSUME MemoryInv, [LoopNext]_allVars PROVE WithinWorkingSet' /\ DataOnly'
<1>1. exp' = exp /\ exp \in Geometry
  BY LoopStep, ExpKept DEF MemoryInv, BaseInv, TypeOK
<1>2. /\ Lines' = Lines /\ Memory' = Memory /\ Tiled' = Tiled /\ DriftFits' = DriftFits
      /\ \A l : Address(l)' = Address(l)
  BY <1>1, GeometryKept
<1>3. ASSUME UNCHANGED <<accessed, broken, killed>> PROVE WithinWorkingSet' /\ DataOnly'
  BY <1>2, <1>3 DEF MemoryInv, WithinWorkingSet, DataOnly, InMemory
<1>4. ASSUME phase = "chase", DriftFits, Tiled, NEW n \in Chains
      PROVE  Operands(Successor(n)) \subseteq Memory
  BY <1>1, <1>4, SuccessorsLinked, OperandsInMemory DEF MemoryInv
<1>5. CASE Loop
  <2>1. phase = "chase" /\ killed' = killed
        /\ accessed' = accessed \cup UNION {Operands(Successor(n)) : n \in Chains}
    BY <1>5 DEF Loop, Hop
  <2>2. PICK hit \in [Chains -> UNION {Overwrites(n, Successor(n)) : n \in Chains}] :
          /\ \A n \in Chains : hit[n] \in Overwrites(n, Successor(n))
          /\ broken' = broken \cup UNION {hit[n] : n \in Chains}
    BY <1>5 DEF Loop
  <2>3. \A n \in Chains : Successor(n) \in Lines
    BY <2>1, SuccessorsLinked DEF MemoryInv
  <2>4. WithinWorkingSet'
    BY <1>2, <1>4, <2>1 DEF MemoryInv, WithinWorkingSet, InMemory
  <2>5. ASSUME DriftFits, NEW l \in Lines PROVE Address(l) \notin accessed'
    <3>1. \A n \in Chains : Address(l) \notin Operands(Successor(n))
      BY <1>1, <2>3, <2>5, OperandsAreData
    <3> QED  BY <2>1, <2>5, <3>1 DEF MemoryInv, DataOnly
  <2>6. ASSUME DriftFits, Tiled PROVE broken' = {} /\ ~killed'
    <3>1. \A n \in Chains : Overwrites(n, Successor(n)) = {{}}
      BY <1>1, <1>4, <2>1, <2>3, <2>6, OverwritesNothing
    <3>2. \A n \in Chains : hit[n] = {}
      BY <2>2, <3>1
    <3> QED  BY <2>1, <2>2, <2>6, <3>2 DEF MemoryInv, DataOnly
  <2> QED  BY <1>2, <2>4, <2>5, <2>6 DEF DataOnly
<1>6. CASE Fault
  <2>1. phase = "chase" /\ UNCHANGED <<accessed, broken>>
        /\ \E n \in Chains : <<n, At(n)>> \in broken \/ ~(Operands(Successor(n)) \subseteq Memory)
    BY <1>6 DEF Fault
  <2>2. ~(DriftFits /\ Tiled)
    BY <1>4, <2>1 DEF MemoryInv, DataOnly
  <2> QED  BY <1>2, <2>1, <2>2 DEF MemoryInv, WithinWorkingSet, DataOnly, InMemory
<1>7. CASE LinkStep \/ Begin \/ Stay \/ UNCHANGED allVars
  <2>1. UNCHANGED <<accessed, broken, killed>>
    BY <1>7, Zenon DEF LinkStep, Begin, Stay, loopVars, allVars
  <2> QED  BY <1>3, <2>1
<1> QED  BY <1>5, <1>6, <1>7 DEF LoopNext

LEMMA MemoryInvariant == LoopSpec => []MemoryInv
<1> DEFINE Inv == IInv /\ Building /\ MemoryInv
<1>1. ASSUME LoopInit PROVE Inv
  <2>1. LinkedLines = {} /\ phase = "init" /\ accessed = {} /\ broken = {} /\ ~killed
    BY <1>1 DEF LoopInit, Init, LinkedLines
  <2>2. IInv /\ Building
    BY <1>1, InitBase, InitRandom, InitBuilding DEF LoopInit, IInv
  <2> QED
    BY <2>1, <2>2 DEF MemoryInv, MultipleInv, OthersInv, WithinWorkingSet, DataOnly,
       InMemory, IInv
<1>2. ASSUME Inv, [LoopNext]_allVars PROVE Inv'
  <2>1. [Next]_vars
    BY <1>2, LoopStep
  <2>2. IInv' /\ Building'
    BY <1>2, <2>1, StepBase, StepRandom, StepBuilding DEF IInv
  <2>3. MultipleInv'
    BY <1>2, <2>1, StepMultiple DEF MemoryInv
  <2>4. OthersInv'
    BY <1>2, <2>2, StepOthers DEF MemoryInv
  <2>5. WithinWorkingSet' /\ DataOnly'
    BY <1>2, StepMemory
  <2> QED  BY <2>2, <2>3, <2>4, <2>5 DEF MemoryInv, IInv
<1> QED  BY <1>1, <1>2, PTL DEF LoopSpec

(* For chains and lines of any size, any stride and any number of chains   *)
(* that are linked alike: the operation accesses only the memory of the    *)
(* chain, if it accesses one line, or the stride divides the chain and the *)
(* operands, which are bytes_per_line apart while lines are a whole number *)
(* of links, drift by less than a line.                                    *)
THEOREM StaysWithin == LoopSpec => []WithinWorkingSet
<1>1. MemoryInv => WithinWorkingSet
  BY DEF MemoryInv
<1> QED  BY <1>1, MemoryInvariant, PTL

(* The operation never accesses a pointer, if the operands drift by less   *)
(* than a line; if they are in the chain as well, STORE and STORE_ALL      *)
(* leave every link of every chain as it was, and the loop never faults.   *)
THEOREM OperationsOnData == LoopSpec => []DataOnly
<1>1. MemoryInv => DataOnly
  BY DEF MemoryInv
<1> QED  BY <1>1, MemoryInvariant, PTL
=============================================================================
