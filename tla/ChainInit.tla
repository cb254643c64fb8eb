----------------------------- MODULE ChainInit -----------------------------
(***************************************************************************)
(* One chain: how random_mem_init, forward_mem_init or reverse_mem_init    *)
(* links its cache lines, and how the loop that chase_pointers compiles    *)
(* walks through it.                                                       *)
(*                                                                         *)
(* Only the first link of a cache line is ever used (link_within_line is   *)
(* 0), so a link is identified by the index of its line: the source's      *)
(* page * links_per_page + line * links_per_line is kept divided by        *)
(* links_per_line.                                                         *)
(***************************************************************************)
EXTENDS Integers, FiniteSets

CONSTANTS
  Geometries,  \* the experiments considered: see GeometryAssumption
  PrimeTable   \* the values of prime_table

(* pages is pages_per_chain, lines is lines_per_page, words is             *)
(* bytes_per_line in words of 8 bytes, at least one link; "none" stands    *)
(* for the mem_operation NA.                                               *)
Geometry == [pages : Nat \ {0}, lines : Nat \ {0}, words : Nat \ {0, 1},
             stride : Int \ {0}, pattern : {"random", "strided"},
             operation : {"none", "load", "store", "load_all", "store_all"}]

ASSUME GeometryAssumption == Geometries \subseteq Geometry
(* The entries of prime_table, run.cpp:216-218, are primes.                *)
ASSUME PrimesAssumption ==
  /\ PrimeTable \subseteq Nat
  /\ \A p \in PrimeTable : p > 1 /\ \A d \in 2 .. p - 1 : p % d # 0
(* The pages and lines of run.cpp:243 and 252, the index of a link, of     *)
(* which there are words \div 2 in a line, and the counters of the strided *)
(* loops fit an int.                                                       *)
ASSUME FitsInt ==
  \A g \in Geometries :
    /\ \A p \in PrimeTable : /\ p * g.pages + g.pages <= 2147483647
                             /\ p * g.lines + g.lines <= 2147483647
    /\ g.pages * g.lines * (g.words \div 2) <= 2147483647
    /\ g.pages * g.lines + g.stride <= 2147483647
    /\ g.pages * g.lines - g.stride <= 2147483647

Null == -1

VARIABLES
  exp,                                \* the experiment, never changed
  phase,                              \* where the thread is
  pageFactor, pageOffset, page, i,    \* locals of the *_mem_init functions
  lineFactor, lineOffset, j, last,
  root, prev, next,                   \* the chain; next[l] is what line l holds
  ops,                                \* local_ops_per_chain
  rank,                               \* rank[l]: which link l was when it was
                                      \* last written to, 0 for never
  pos, hops,                          \* positions[0] and the loops made
  touched                             \* lines the loop has moved to

drawVars == <<pageFactor, pageOffset, lineFactor, lineOffset, page>>
linkVars == <<root, prev, next, ops, rank>>
chaseVars == <<pos, hops, touched>>
vars == <<exp, phase, pageFactor, pageOffset, page, i, lineFactor, lineOffset,
          j, last, root, prev, next, ops, rank, pos, hops, touched>>

LinesPerChain(g) == g.pages * g.lines
Lines == 0 .. LinesPerChain(exp) - 1

(* The stride of reverse_mem_init is the negated stride of the experiment. *)
Stride == IF exp.stride > 0 THEN exp.stride ELSE -exp.stride

Init ==
  /\ exp \in Geometries
  /\ phase = "init"
  /\ pageFactor = 0 /\ pageOffset = 0 /\ page = 0
  /\ lineFactor = 0 /\ lineOffset = 0
  /\ i = 0 /\ j = 0 /\ last = 0
  /\ root = Null /\ prev = Null /\ ops = 0
  /\ next = [l \in Lines |-> Null]
  /\ rank = [l \in Lines |-> 0]
  /\ pos = Null /\ hops = 0 /\ touched = {}

-----------------------------------------------------------------------------
(* Linking                                                                 *)

(* Mutant: the first link is not counted.                                  *)
LinkFirstUncounted(l) ==
  /\ root' = IF root = Null THEN l ELSE root
  /\ next' = IF root = Null THEN next ELSE [next EXCEPT ![prev] = l]
  /\ prev' = l
  /\ ops' = IF root = Null THEN ops ELSE ops + 1
  /\ rank' = [rank EXCEPT ![l] = ops + 1]

(* The body of the three loops: line l becomes the end of the chain.       *)
Link(l) ==
  /\ root' = IF root = Null THEN l ELSE root
  /\ next' = IF root = Null THEN next ELSE [next EXCEPT ![prev] = l]
  /\ prev' = l
  /\ ops' = ops + 1
  /\ rank' = [rank EXCEPT ![l] = ops + 1]

RandomStart ==
  /\ phase = "init" /\ exp.pattern = "random"
  /\ pageFactor' \in PrimeTable
  /\ pageOffset' \in 0 .. exp.pages - 1
  /\ i' = 0
  /\ phase' = "page"
  /\ UNCHANGED <<exp, page, lineFactor, lineOffset, j, last, linkVars, chaseVars>>

(* Mutant: a page of a single line is skipped and i not advanced.          *)
RandomPageSkips ==
  /\ phase = "page"
  /\ page' = (pageFactor * i + pageOffset) % exp.pages
  /\ lineFactor' \in PrimeTable
  /\ lineOffset' \in 0 .. exp.lines - 1
  /\ j' = 0
  /\ phase' = IF 1 < exp.lines THEN "line" ELSE "page"
  /\ UNCHANGED <<exp, pageFactor, pageOffset, i, last, linkVars, chaseVars>>

(* Mutant: the page is not wrapped around.                                 *)
RandomPageUnwrapped ==
  /\ phase = "page"
  /\ page' = pageFactor * i + pageOffset
  /\ lineFactor' \in PrimeTable
  /\ lineOffset' \in 0 .. exp.lines - 1
  /\ j' = 0
  /\ phase' = "line"
  /\ UNCHANGED <<exp, pageFactor, pageOffset, i, last, linkVars, chaseVars>>

RandomPage ==
  /\ phase = "page"
  /\ page' = (pageFactor * i + pageOffset) % exp.pages
  /\ lineFactor' \in PrimeTable
  /\ lineOffset' \in 0 .. exp.lines - 1
  /\ j' = 0
  /\ phase' = "line"
  /\ UNCHANGED <<exp, pageFactor, pageOffset, i, last, linkVars, chaseVars>>

(* Mutant: the loop over the lines stops one line early.                   *)
RandomLineShort ==
  /\ phase = "line"
  /\ Link(page * exp.lines + ((lineFactor * j + lineOffset) % exp.lines))
  /\ IF j + 2 < exp.lines THEN j' = j + 1 /\ UNCHANGED <<i, phase>>
     ELSE /\ j' = 0
          /\ i' = i + 1
          /\ phase' = IF i + 1 < exp.pages THEN "page" ELSE "close"
  /\ UNCHANGED <<exp, drawVars, last, chaseVars>>

(* Mutant: the factors of page and line are exchanged.                     *)
RandomLineTransposed ==
  /\ phase = "line"
  /\ Link(page + ((lineFactor * j + lineOffset) % exp.lines) * exp.pages)
  /\ IF j + 1 < exp.lines THEN j' = j + 1 /\ UNCHANGED <<i, phase>>
     ELSE /\ j' = 0
          /\ i' = i + 1
          /\ phase' = IF i + 1 < exp.pages THEN "page" ELSE "close"
  /\ UNCHANGED <<exp, drawVars, last, chaseVars>>

(* One line; after the last line of the page the next page, if any.        *)
RandomLine ==
  /\ phase = "line"
  /\ Link(page * exp.lines + ((lineFactor * j + lineOffset) % exp.lines))
  /\ IF j + 1 < exp.lines THEN j' = j + 1 /\ UNCHANGED <<i, phase>>
     ELSE /\ j' = 0
          /\ i' = i + 1
          /\ phase' = IF i + 1 < exp.pages THEN "page" ELSE "close"
  /\ UNCHANGED <<exp, drawVars, last, chaseVars>>

StridedStart ==
  /\ phase = "init" /\ exp.pattern = "strided"
  /\ i' = 0
  /\ phase' = IF 0 < exp.stride THEN "forward" ELSE "scan"
  /\ UNCHANGED <<exp, drawVars, j, last, linkVars, chaseVars>>

(* Mutant: the loop runs while i <= lines_per_chain.                       *)
ForwardOffByOne ==
  /\ phase = "forward"
  /\ Link(i)
  /\ i' = i + Stride
  /\ phase' = IF i + Stride <= LinesPerChain(exp) THEN "forward" ELSE "close"
  /\ UNCHANGED <<exp, drawVars, j, last, chaseVars>>

Forward ==
  /\ phase = "forward"
  /\ Link(i)
  /\ i' = i + Stride
  /\ phase' = IF i + Stride < LinesPerChain(exp) THEN "forward" ELSE "close"
  /\ UNCHANGED <<exp, drawVars, j, last, chaseVars>>

(* The loop of reverse_mem_init that finds the last line of the stride.    *)
Scan ==
  /\ phase = "scan"
  /\ last' = i
  /\ IF i + Stride < LinesPerChain(exp)
     THEN i' = i + Stride /\ UNCHANGED phase
     ELSE i' = last' /\ phase' = "reverse"
  /\ UNCHANGED <<exp, drawVars, j, linkVars, chaseVars>>

(* Mutant: line 0 is left out.                                             *)
ReverseShort ==
  /\ phase = "reverse"
  /\ Link(i)
  /\ i' = i - Stride
  /\ phase' = IF 0 < i - Stride THEN "reverse" ELSE "close"
  /\ UNCHANGED <<exp, drawVars, j, last, chaseVars>>

Reverse ==
  /\ phase = "reverse"
  /\ Link(i)
  /\ i' = i - Stride
  /\ phase' = IF 0 <= i - Stride THEN "reverse" ELSE "close"
  /\ UNCHANGED <<exp, drawVars, j, last, chaseVars>>

(* Mutant: the chain is closed at the beginning of the memory.             *)
CloseAtZero ==
  /\ phase = "close"
  /\ next' = [next EXCEPT ![prev] = 0]
  /\ pos' = root
  /\ phase' = "chase"
  /\ UNCHANGED <<exp, drawVars, i, j, last, root, prev, ops, rank, hops, touched>>

(* prev->next = root; the compiled function is called with this root.      *)
Close ==
  /\ phase = "close"
  /\ next' = [next EXCEPT ![prev] = root]
  /\ pos' = root
  /\ phase' = "chase"
  /\ UNCHANGED <<exp, drawVars, i, j, last, root, prev, ops, rank, hops, touched>>

-----------------------------------------------------------------------------
(* Chasing                                                                 *)

(* One round of the compiled loop; it ends when the head is reached again. *)
(* Chase says what the memory operation does at the new position.          *)
Hop ==
  /\ phase = "chase"
  /\ pos' = next[pos]
  /\ touched' = touched \cup {next[pos]}
  /\ hops' = hops + 1
  /\ phase' = IF next[pos] = root THEN "return" ELSE "chase"
  /\ UNCHANGED <<exp, drawVars, i, j, last, linkVars>>

Returned == phase = "return" /\ UNCHANGED vars

Random == RandomStart \/ RandomPage \/ RandomLine
Strided == StridedStart \/ Forward \/ Scan \/ Reverse

Next == Random \/ Strided \/ Close \/ Hop \/ Returned

Spec == Init /\ [][Next]_vars
(* A thread that links or chases goes on doing so.                         *)
FairSpec == Spec /\ WF_vars(Next)

-----------------------------------------------------------------------------
(* Properties                                                              *)

Phases == {"init", "page", "line", "forward", "scan", "reverse", "close",
           "chase", "return"}

TypeOK ==
  /\ exp \in Geometry
  /\ phase \in Phases
  /\ pageFactor \in Nat /\ pageOffset \in Nat /\ page \in 0 .. exp.pages - 1
  /\ lineFactor \in Nat /\ lineOffset \in Nat
  /\ i \in Int /\ j \in 0 .. exp.lines - 1 /\ last \in Int
  /\ root \in Lines \cup {Null} /\ prev \in Lines \cup {Null}
  /\ next \in [Lines -> Lines \cup {Null}]
  /\ ops \in Nat
  /\ rank \in [Lines -> Nat]
  /\ pos \in Lines \cup {Null}
  /\ hops \in Nat
  /\ touched \subseteq Lines

(* The chase never makes more hops than there were links, whatever factors *)
(* and offsets were drawn: a line linked twice shortens the chain and      *)
(* never makes a cycle that misses the root.                               *)
ChaseBounded == hops <= ops

(* A call of the compiled function makes exactly the _ops_per_chain hops   *)
(* that the latency and the bandwidth of output.cpp:117-119 divide by.     *)
OpsExact == phase = "return" => hops = ops

(* A strided chain always has exactly that many links, whether or not the  *)
(* stride divides the chain.                                               *)
StridedOpsExact == exp.pattern = "strided" => OpsExact

(* One iteration walks through all lines of all pages of the chain.        *)
WholeChain == phase = "return" => Lines \subseteq touched

(* No factor that may be drawn divides the pages or the lines of a page.   *)
Coprime ==
  \A p \in PrimeTable : exp.pages % p # 0 /\ exp.lines % p # 0

(* If no factor divides the pages or the lines, every line is linked once: *)
(* a call walks through the whole chain in exactly _ops_per_chain hops.    *)
CoprimeExact == exp.pattern = "random" /\ Coprime => WholeChain /\ OpsExact

(* "Within a selected page all cache lines are referenced before the next  *)
(* page is selected": a hop leaves a page only when all of it has been     *)
(* visited.  The root, where the loop starts, is the line visited last.    *)
PageOf(l) == l \div exp.lines
PageByPage ==
  [][ exp.pattern = "random" /\ Coprime /\ Hop /\ PageOf(pos') # PageOf(pos) =>
        \A l \in Lines \ {root} : PageOf(l) = PageOf(pos) => l \in touched ]_vars

(* A strided chain leads from line to line by the stride, forward or       *)
(* reverse, and back to its first line from the last line reachable.       *)
StrideOrder ==
  phase \in {"chase", "return"} /\ exp.pattern = "strided" =>
    \A l \in Lines : next[l] # Null =>
      IF l + exp.stride \in Lines THEN next[l] = l + exp.stride
      ELSE next[l] = root

-----------------------------------------------------------------------------
(* The inductive invariant                                                 *)

(* The loop counters where they are used.                                  *)
CounterInv ==
  /\ phase \in {"page", "line"} => exp.pattern = "random"
  /\ phase \in {"forward", "scan", "reverse"} =>
       exp.pattern = "strided" /\ i \in Lines
  /\ phase = "forward" => exp.stride > 0
  /\ phase \in {"scan", "reverse"} => exp.stride < 0
  /\ phase \in {"init", "scan"} => ops = 0
  /\ phase \in {"close", "chase", "return"} => ops > 0

(* A line that was linked again leads where its last link was written to:  *)
(* every link but the end of the chain leads to a line linked later.       *)
LinkInv ==
  /\ ops = 0 => root = Null /\ prev = Null
  /\ ops > 0 =>
       root \in Lines /\ prev \in Lines /\ rank[root] >= 1 /\ rank[prev] = ops
  /\ \A l \in Lines :
       /\ rank[l] <= ops
       /\ rank[l] >= 1 /\ l # prev =>
            next[l] \in Lines /\ rank[next[l]] > rank[l]

(* The chase moves to higher ranks until it is at the end of the chain.    *)
ChaseInv ==
  /\ phase \notin {"chase", "return"} => hops = 0
  /\ phase \in {"chase", "return"} => next[prev] = root
  /\ phase = "chase" =>
       pos \in Lines /\ rank[pos] >= 1 /\ hops < rank[pos]
  /\ phase = "return" => hops <= ops

(* With a stride every line is linked once, the next rank a stride away.   *)
StridedInv ==
  exp.pattern = "strided" =>
    /\ phase \in {"forward", "reverse"} /\ ops > 0 => i = prev + exp.stride
    /\ phase \in {"close", "chase", "return"} => prev + exp.stride \notin Lines
    /\ ops > 0 => rank[root] = 1
    /\ \A l \in Lines :
         /\ rank[l] = 0 => next[l] = Null
         /\ rank[l] >= 1 /\ l # prev =>
              next[l] = l + exp.stride /\ rank[next[l]] = rank[l] + 1
         /\ rank[l] >= 1 /\ exp.stride > 0 => l <= prev
         /\ rank[l] >= 1 /\ exp.stride < 0 => l >= prev
    /\ phase = "chase" => hops = rank[pos] - 1
    /\ phase = "return" => hops = ops

(* The parts that hold whatever is drawn.                                  *)
BaseInv == TypeOK /\ CounterInv /\ LinkInv /\ ChaseInv /\ StridedInv

(* The page of the a-th round and the b-th line of the current page.       *)
PageAt(a) == (pageFactor * a + pageOffset) % exp.pages
LineAt(b) == page * exp.lines + ((lineFactor * b + lineOffset) % exp.lines)

LinkedLines == {l \in Lines : rank[l] >= 1}

(* The two loops of random_mem_init and the number of links made.          *)
DrawInv ==
  /\ phase # "init" => pageFactor \in PrimeTable
  /\ phase \in {"page", "line"} => i \in 0 .. exp.pages - 1
  /\ phase = "line" => lineFactor \in PrimeTable /\ page = PageAt(i)
  /\ phase \in {"init", "page"} => j = 0
  /\ phase = "init" => i = 0
  /\ phase \in {"close", "chase", "return"} => i = exp.pages /\ j = 0
  /\ ops = i * exp.lines + j

(* Link a * lines + b + 1 is in the page of round a: no line is linked     *)
(* twice, and the chain leads from rank to rank.                           *)
RankInv ==
  /\ Cardinality(LinkedLines) = ops
  /\ ops > 0 => rank[root] = 1
  /\ \A l \in LinkedLines :
       /\ \E a \in 0 .. i, b \in 0 .. exp.lines - 1 :
            /\ rank[l] = a * exp.lines + b + 1
            /\ PageOf(l) = PageAt(a)
            /\ a = i => b < j /\ l = LineAt(b)
       /\ l # prev => rank[next[l]] = rank[l] + 1
       /\ \A m \in LinkedLines : rank[l] = rank[m] => l = m

(* The chase has visited every rank up to its own but the root's.          *)
WalkInv ==
  /\ phase = "chase" => hops = rank[pos] - 1
  /\ phase = "chase" => \A l \in Lines :
       rank[l] \in 2 .. rank[pos] => l \in touched
  /\ phase = "return" => hops = ops /\ Lines \subseteq touched

(* If no factor that may be drawn divides the pages or the lines, a random *)
(* chain links every line once.                                            *)
RandomInv ==
  exp.pattern = "random" /\ Coprime => DrawInv /\ RankInv /\ WalkInv

(* The types and the five parts together.                                  *)
IInv == BaseInv /\ RandomInv
=============================================================================
