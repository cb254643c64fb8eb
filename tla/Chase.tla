------------------------------- MODULE Chase -------------------------------
(***************************************************************************)
(* The loop that chase_pointers compiles, for a thread with several        *)
(* chains.  Chain 0 is linked step by step and walked as ChainInit says;   *)
(* the other chains are linked in the same way and taken as a whole, and   *)
(* the loop moves all positions together until chain 0 is at its head.     *)
(*                                                                         *)
(* Memory is counted in words of 8 bytes from the beginning of a chain.  A *)
(* Chain is two words, next and data; a line begins at its first link.  A  *)
(* store that hits a pointer leaves a small number there, which is no      *)
(* address: the process is killed when the loop follows it.  An access     *)
(* beyond the memory of a chain may kill the process too, and such a store *)
(* may hit any pointer of the other chains.                                *)
(***************************************************************************)
EXTENDS ChainInit

CONSTANT PairGeometries  \* the experiments with two chains per thread

ASSUME ChaseAssumption == PairGeometries \subseteq Geometries

VARIABLES
  others,     \* others[n]: root and links of chain n, n >= 1
  positions,  \* positions[n] of the compiled loop, n >= 1
  accessed,   \* the words the operation has read or written in some chain
  broken,     \* the pointers overwritten: <<n, l>> is that of line l, chain n
  killed      \* the process has received a signal

loopVars == <<others, positions, accessed, broken, killed>>
allVars == <<vars, loopVars>>

OtherChains == IF exp \in PairGeometries THEN {1} ELSE {}
Chains == {0} \cup OtherChains

-----------------------------------------------------------------------------
(* What the *_mem_init functions compute: the lines in the order in which  *)
(* they are linked, and the chain that links them.                         *)

RandomOrders(g) ==
  {[n \in 0 .. LinesPerChain(g) - 1 |->
      LET m == n \div g.lines IN
        ((pf * m + po) % g.pages) * g.lines
          + ((lf[m] * (n % g.lines) + lo[m]) % g.lines)] :
     pf \in PrimeTable, po \in 0 .. g.pages - 1,
     lf \in [0 .. g.pages - 1 -> PrimeTable],
     lo \in [0 .. g.pages - 1 -> 0 .. g.lines - 1]}

(* Every multiple of the stride, from line 0 or down to line 0.            *)
StridedOrders(g) ==
  LET size == IF g.stride > 0 THEN g.stride ELSE -g.stride
      final == (LinesPerChain(g) - 1) \div size
  IN  {[n \in 0 .. final |-> IF g.stride > 0 THEN n * size ELSE (final - n) * size]}

Orders(g) == IF g.pattern = "random" THEN RandomOrders(g) ELSE StridedOrders(g)

(* A line linked more than once keeps the link that was written last; the  *)
(* last link leads to the root.                                            *)
Linked(g, order) ==
  [root |-> order[0],
   next |-> [l \in 0 .. LinesPerChain(g) - 1 |->
     IF \A n \in DOMAIN order : order[n] # l THEN Null
     ELSE LET n == CHOOSE n \in DOMAIN order :
                     order[n] = l /\ \A m \in DOMAIN order : order[m] = l => m <= n
          IN  IF n + 1 \in DOMAIN order THEN order[n + 1] ELSE order[0]]]

BuiltChains(g) == {Linked(g, order) : order \in Orders(g)}

-----------------------------------------------------------------------------
LoopInit ==
  /\ Init
  /\ others = << >> /\ positions = << >>
  /\ accessed = {} /\ broken = {} /\ killed = FALSE

LinkStep == (Random \/ Strided) /\ UNCHANGED loopVars

(* The remaining chains are linked and the function is called: it loads    *)
(* all roots into its registers.                                           *)
Begin ==
  /\ Close
  /\ others' \in [OtherChains -> IF OtherChains = {} THEN {} ELSE BuiltChains(exp)]
  /\ positions' = [n \in OtherChains |-> others'[n].root]
  /\ UNCHANGED <<accessed, broken, killed>>

(* The words that links_per_line links, rounded down, take; the word in    *)
(* which line l begins; the memory allocated for links_per_chain links.    *)
LineSize == (exp.words \div 2) * 2
Address(l) == l * LineSize
Memory == 0 .. LinesPerChain(exp) * LineSize - 1

(* val_num, or none for an operation that accesses nothing.                *)
Values ==
  CASE exp.operation = "none" -> 0
    [] exp.operation \in {"load", "store"} -> 1
    [] exp.operation \in {"load_all", "store_all"} -> Stride

(* Mutant: the operation takes the pointer for the data.                   *)
OperandsAtNext(l) == {Address(l) + n * exp.words : n \in 0 .. Values - 1}

(* The words the operation accesses at line l, each bytes_per_line after   *)
(* the one before and at the offset of data.                               *)
Operands(l) == {Address(l) + n * exp.words + 1 : n \in 0 .. Values - 1}

(* What the operation of chain n may overwrite at line l: the pointers of  *)
(* chain n that it writes to, and if it writes beyond the chain, any of    *)
(* the others.                                                             *)
Overwrites(n, l) ==
  IF exp.operation \notin {"store", "store_all"} THEN {{}}
  ELSE {{<<n, m>> : m \in {m \in Lines : Address(m) \in Operands(l)}} \cup stray :
          stray \in IF Operands(l) \subseteq Memory THEN {{}}
                    ELSE SUBSET ((Chains \ {n}) \X Lines)}

(* The pointers that the loop reads, and where they lead.                  *)
At(n) == IF n = 0 THEN pos ELSE positions[n]
Successor(n) == IF n = 0 THEN next[pos] ELSE others[n].next[positions[n]]

(* Mutant: every chain follows the pointer of chain 0.                     *)
LoopOfFirst ==
  /\ ~killed /\ Hop
  /\ positions' = [n \in OtherChains |-> next[pos]]
  /\ accessed' = accessed \cup UNION {Operands(next[pos]) : n \in Chains}
  /\ \E hit \in [Chains -> UNION {Overwrites(n, next[pos]) : n \in Chains}] :
       /\ \A n \in Chains : hit[n] \in Overwrites(n, next[pos])
       /\ broken' = broken \cup UNION {hit[n] : n \in Chains}
  /\ UNCHANGED <<others, killed>>

(* One round of the compiled loop: chain by chain, the pointer is read and *)
(* the operation made.  No pointer is broken when it is read, neither      *)
(* before the round nor by the operations of the chains before.            *)
Loop ==
  /\ ~killed /\ Hop
  /\ positions' = [n \in OtherChains |-> Successor(n)]
  /\ accessed' = accessed \cup UNION {Operands(Successor(n)) : n \in Chains}
  /\ \E hit \in [Chains -> UNION {Overwrites(n, Successor(n)) : n \in Chains}] :
       /\ \A n \in Chains : hit[n] \in Overwrites(n, Successor(n))
       /\ \A n \in Chains :
            <<n, At(n)>> \notin broken \cup UNION {hit[m] : m \in Chains \cap 0 .. n - 1}
       /\ broken' = broken \cup UNION {hit[n] : n \in Chains}
  /\ UNCHANGED <<others, killed>>

(* A round that ends with a signal: a broken pointer is followed, or an    *)
(* operand is beyond the chain (what a store there breaks included).       *)
Fault ==
  /\ phase = "chase" /\ ~killed
  /\ \E n \in Chains :
       <<n, At(n)>> \in broken \/ ~(Operands(Successor(n)) \subseteq Memory)
  /\ killed' = TRUE
  /\ UNCHANGED <<vars, others, positions, accessed, broken>>

Stay == (Returned \/ (killed /\ UNCHANGED vars)) /\ UNCHANGED loopVars

LoopNext == LinkStep \/ Begin \/ Loop \/ Fault \/ Stay

LoopSpec == LoopInit /\ [][LoopNext]_allVars
FairLoopSpec == LoopSpec /\ WF_allVars(LoopNext)

-----------------------------------------------------------------------------
(* Properties                                                              *)

(* The loops of random_mem_init, forward_mem_init and reverse_mem_init     *)
(* compute what the closed form above says, lines linked twice included.   *)
AsBuilt ==
  phase = "chase" /\ hops = 0 /\ exp \in PairGeometries =>
    [root |-> root, next |-> next] \in BuiltChains(exp)

(* Only chain 0 is compared with its head, and the function returns with   *)
(* every chain at its root after _ops_per_chain hops in each, if no factor *)
(* divides the pages or lines: the operations counted by output.cpp:112    *)
(* are those made.  Whatever the factors, no position leaves its chain.    *)
AllChainsReturn ==
  /\ phase \in {"chase", "return"} =>
       \A n \in OtherChains : positions[n] \in Lines /\ others[n].next[positions[n]] # Null
  /\ phase = "return" /\ (exp.pattern = "strided" \/ Coprime) =>
       hops = ops /\ \A n \in OtherChains : positions[n] = others[n].root

(* The operands are bytes_per_line apart and the lines a whole number of   *)
(* links: with an odd number of words the operands drift by a word a line. *)
(* The drift is less than a line.                                          *)
DriftFits == Values <= 1 \/ exp.words % 2 = 0 \/ Stride < LineSize

(* The lines accessed at a position end before the next position: the      *)
(* stride divides the chain.                                               *)
Tiled ==
  Values <= 1 \/ (exp.pattern = "strided" /\ LinesPerChain(exp) % Stride = 0)

(* The operation accesses only memory allocated for the chain.             *)
InMemory == accessed \subseteq Memory

(* That is so for every operation on one line, and for LOAD_ALL and        *)
(* STORE_ALL if the stride divides the chain and the operands do not drift *)
(* by a line.  chain_uneven and the note on 24-byte lines in the README    *)
(* are about the other cases.                                              *)
WithinWorkingSet == Tiled /\ DriftFits => InMemory

(* The operation accesses data and never a pointer, if the operands do not *)
(* drift by a line; if they also stay in the chain, no link of any chain   *)
(* is overwritten and nothing is fatal: the next call finds the chains as  *)
(* they were linked.                                                       *)
DataOnly ==
  DriftFits => /\ \A l \in Lines : Address(l) \notin accessed
               /\ Tiled => broken = {} /\ ~killed

(* A call of the compiled function returns, whatever was drawn; it may die *)
(* only of operands beyond the chain or on pointers.                       *)
Returns == <>(phase = "return" \/ (killed /\ ~(Tiled /\ DriftFits)))
=============================================================================
