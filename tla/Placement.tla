----------------------------- MODULE Placement -----------------------------
(***************************************************************************)
(* The NUMA domains of threads and chains: the end of                      *)
(* Experiment::parse_args and the four functions alloc_local, alloc_xor,   *)
(* alloc_add and alloc_map it calls.                                       *)
(*                                                                         *)
(* A placement map is a sequence of tokens, each a number (a run of        *)
(* digits) or one of ":" "," ";".  The pieces of a map that alloc_map      *)
(* copies are taken to fit the 64 characters of its buffer.                *)
(***************************************************************************)
EXTENDS Integers, Sequences, FiniteSets

CONSTANTS
  Requests,  \* what the options ask for: see RequestAssumption
  Domains,   \* num_numa_domains
  MaskBits,  \* bits in which a domain and a mask may differ
  MaxInt     \* the largest int, 2147483647

(* value is what parse_number makes of the digits, an int64.               *)
Token == [kind : {"num", "colon", "comma", "semicolon"}, value : Nat]

(* threads and chains are num_threads and chains_per_thread before the     *)
(* placement, operand is offset_or_mask and map is placement_map.          *)
Request == [kind : {"local", "xor", "add", "map"}, threads : Nat \ {0},
            chains : Nat \ {0}, operand : Nat, map : Seq(Token)]

ASSUME RequestAssumption == Requests \subseteq Request
ASSUME DomainsAssumption ==
  MaskBits \in Nat /\ MaxInt \in Nat /\ Domains \in 1 .. MaxInt

(* What an entry of a local array holds that has not been written: no int. *)
Unset == -(MaxInt + 2)

VARIABLES
  req,           \* the request, never changed
  phase,         \* where alloc_map is: "begin", "thread", "chains",
                 \* "install", then "done", or "exit" for exit(1)
  threads,       \* num_threads
  chains,        \* chains_per_thread
  p, t, c,       \* alloc_map's place in the map, thread and chain
  localThread,   \* the local arrays thread_domain and chain_domain
  localChain,
  threadDomain,  \* Experiment::thread_domain and chain_domain
  chainDomain,
  seeded,        \* the threads whose random_state is set up
  testSize       \* bytes_per_test divided by bytes_per_chain

walkVars == <<p, t, c, localThread, localChain>>
resultVars == <<threadDomain, chainDomain, seeded, testSize>>
vars == <<req, phase, threads, chains, p, t, c, localThread, localChain,
          threadDomain, chainDomain, seeded, testSize>>

Upto(n) == 0 .. n - 1

(* bytes_per_test has been computed from the options by then.              *)
Init ==
  /\ req \in Requests
  /\ phase = "begin"
  /\ threads = req.threads /\ chains = req.chains
  /\ p = 1 /\ t = 0 /\ c = 0
  /\ localThread = << >> /\ localChain = << >>
  /\ threadDomain = << >> /\ chainDomain = << >>
  /\ seeded = {}
  /\ testSize = threads * chains

-----------------------------------------------------------------------------
(* alloc_local, alloc_xor, alloc_add                                       *)

(* The exclusive or of a and b.                                            *)
Xor(a, b) ==
  LET low[k \in 0 .. MaskBits] ==
        IF k = 0 THEN 0
        ELSE low[k - 1]
               + 2 ^ (k - 1) * ((a \div 2 ^ (k - 1) + b \div 2 ^ (k - 1)) % 2)
  IN  low[MaskBits]

Home(i) == i % Domains

(* The arrays are allocated for the threads of the options and every       *)
(* chain of thread i is given to domain homes[i].                          *)
Alloc(kind, homes) ==
  /\ phase = "begin" /\ req.kind = kind
  /\ seeded' = Upto(threads)
  /\ threadDomain' = [i \in Upto(threads) |-> Home(i)]
  /\ chainDomain' = [i \in Upto(threads) |-> [j \in Upto(chains) |-> homes[i]]]
  /\ phase' = "done"
  /\ UNCHANGED <<req, threads, chains, walkVars, testSize>>

AllocLocal == Alloc("local", [i \in Upto(threads) |-> Home(i)])

(* Mutant: the mask is wrapped around before it is applied.                *)
XorHomeUnwrapped(i) == Xor(Home(i), req.operand % Domains)

XorHome(i) == Xor(Home(i), req.operand) % Domains

AddHome(i) == (Home(i) + req.operand) % Domains

AllocXor == Alloc("xor", [i \in Upto(threads) |-> XorHome(i)])

AllocAdd == Alloc("add", [i \in Upto(threads) |-> AddHome(i)])

-----------------------------------------------------------------------------
(* alloc_map                                                               *)

Places == 1 .. Len(req.map)
AtEnd(q) == q > Len(req.map)
(* "end" stands for the character that ends the text of the map.           *)
Kind(q) == IF AtEnd(q) THEN "end" ELSE req.map[q].kind

(* Mutant: the ";" are counted and not what they separate.                 *)
ThreadsOffByOne == Cardinality({q \in Places : Kind(q) = "semicolon"})

(* One thread more than there are ";" in the map.                          *)
Threads == 1 + Cardinality({q \in Places : Kind(q) = "semicolon"})

(* One chain more than there are "," before the first ";".                 *)
Chains ==
  1 + Cardinality({q \in Places :
        Kind(q) = "comma" /\ \A r \in 1 .. q : Kind(r) # "semicolon"})

CountDescriptors ==
  /\ phase = "begin" /\ req.kind = "map"
  /\ localThread' = [i \in Upto(Threads) |-> Unset]
  /\ localChain' = [i \in Upto(Threads) |-> [j \in Upto(Chains) |-> Unset]]
  /\ phase' = IF AtEnd(1) THEN "install" ELSE "thread"
  /\ UNCHANGED <<req, threads, chains, p, t, c, resultVars>>

(* The place of the first token from p that is of one of these kinds.      *)
First(kinds) ==
  CHOOSE q \in p .. Len(req.map) + 1 :
    /\ Kind(q) \in kinds \cup {"end"}
    /\ \A r \in p .. q - 1 : Kind(r) \notin kinds

(* parse_number of the text from p to before q: it stops at the first      *)
(* character that is not a digit.                                          *)
ParseNumber(q) == IF p < q /\ Kind(p) = "num" THEN req.map[p].value ELSE 0

(* The int64 is stored in an int, which keeps its low bits.                *)
Narrow(n) ==
  LET low == n % (2 * (MaxInt + 1)) IN
    IF low <= MaxInt THEN low ELSE low - 2 * (MaxInt + 1)

(* Everything up to ":" is the thread domain.                              *)
ReadThread ==
  /\ phase = "thread"
  /\ LET q == First({"colon"}) IN
       /\ localThread' = [localThread EXCEPT ![t] = Narrow(ParseNumber(q))]
       /\ p' = IF Kind(q) = "colon" THEN q + 1 ELSE q
  /\ c' = 0
  /\ phase' = "chains"
  /\ UNCHANGED <<req, threads, chains, t, localChain, resultVars>>

(* Mutant: c is not incremented.                                           *)
ReadChainOver ==
  /\ phase = "chains" /\ Kind(p) \notin {"end", "semicolon"}
  /\ c < Chains /\ t < Threads
  /\ LET q == First({"comma", "semicolon"}) IN
       /\ localChain' = [localChain EXCEPT ![t][c] = Narrow(ParseNumber(q))]
       /\ p' = IF Kind(q) = "comma" THEN q + 1 ELSE q
  /\ UNCHANGED <<req, phase, threads, chains, t, c, localThread, resultVars>>

(* A chain domain ends at "," or ";" or with the map.                      *)
ReadChain ==
  /\ phase = "chains" /\ Kind(p) \notin {"end", "semicolon"}
  /\ c < Chains /\ t < Threads
  /\ LET q == First({"comma", "semicolon"}) IN
       /\ localChain' = [localChain EXCEPT ![t][c] = Narrow(ParseNumber(q))]
       /\ p' = IF Kind(q) = "comma" THEN q + 1 ELSE q
  /\ c' = c + 1
  /\ UNCHANGED <<req, phase, threads, chains, t, localThread, resultVars>>

(* "Malformed map.", exit(1)                                               *)
Malformed ==
  /\ phase = "chains" /\ Kind(p) \notin {"end", "semicolon"}
  /\ Chains <= c \/ Threads <= t
  /\ phase' = "exit"
  /\ UNCHANGED <<req, threads, chains, walkVars, resultVars>>

(* Mutant: the end of the map is skipped like a ";".                       *)
NextThreadPastEnd ==
  /\ phase = "chains" /\ Kind(p) \in {"end", "semicolon"}
  /\ p' = p + 1
  /\ t' = IF AtEnd(p) THEN t ELSE t + 1
  /\ phase' = IF AtEnd(p') THEN "install" ELSE "thread"
  /\ UNCHANGED <<req, threads, chains, c, localThread, localChain, resultVars>>

(* The map ends, or goes on with another thread after the ";".             *)
NextThread ==
  /\ phase = "chains" /\ Kind(p) \in {"end", "semicolon"}
  /\ p' = IF AtEnd(p) THEN p ELSE p + 1
  /\ t' = IF AtEnd(p) THEN t ELSE t + 1
  /\ phase' = IF AtEnd(p') THEN "install" ELSE "thread"
  /\ UNCHANGED <<req, threads, chains, c, localThread, localChain, resultVars>>

(* What C's % makes of an entry: the remainder has the sign of the entry.  *)
(* Of one never written it may make anything, which stays Unset here.      *)
Wrapped(d) ==
  IF d = Unset THEN Unset ELSE IF d >= 0 THEN d % Domains ELSE -((-d) % Domains)

(* Mutant: the size of the test is the one computed from -t and -r.        *)
InstallStale ==
  /\ phase = "install"
  /\ threads' = Threads /\ chains' = Chains
  /\ threadDomain' = [i \in Upto(Threads) |-> Wrapped(localThread[i])]
  /\ chainDomain' = [i \in Upto(Threads) |->
                       [j \in Upto(Chains) |-> Wrapped(localChain[i][j])]]
  /\ seeded' = Upto(Threads)
  /\ phase' = "done"
  /\ UNCHANGED <<req, walkVars, testSize>>

(* The map overrides the numbers of threads and chains of the options.     *)
Install ==
  /\ phase = "install"
  /\ threads' = Threads /\ chains' = Chains
  /\ threadDomain' = [i \in Upto(Threads) |-> Wrapped(localThread[i])]
  /\ chainDomain' = [i \in Upto(Threads) |->
                       [j \in Upto(Chains) |-> Wrapped(localChain[i][j])]]
  /\ seeded' = Upto(Threads)
  /\ testSize' = Threads * Chains
  /\ phase' = "done"
  /\ UNCHANGED <<req, walkVars>>

-----------------------------------------------------------------------------
Finished == phase \in {"done", "exit"} /\ UNCHANGED vars

Next ==
  \/ AllocLocal \/ AllocXor \/ AllocAdd
  \/ CountDescriptors \/ ReadThread \/ ReadChain \/ Malformed \/ NextThread
  \/ Install \/ Finished

Spec == Init /\ [][Next]_vars

-----------------------------------------------------------------------------
(* Properties                                                              *)

TypeOK ==
  /\ req \in Request
  /\ phase \in {"begin", "thread", "chains", "install", "done", "exit"}
  /\ threads \in Nat \ {0} /\ chains \in Nat \ {0}
  /\ p \in 1 .. Len(req.map) + 1
  /\ t \in Nat /\ c \in 0 .. Chains
  /\ seeded \subseteq Nat
  /\ testSize \in Nat

(* The thread domain of experiment.cpp:668 is written without a look at    *)
(* the number of threads: t is always one of those counted, whatever the   *)
(* map looks like.                                                         *)
WritesInBounds ==
  phase \in {"thread", "chains"} => t \in Upto(Threads)

(* "t1:c11,c12,...,c1m;t2:c21,...,c2m;...;tn:cn1,...,cnm": every thread    *)
(* takes Width tokens, and one for the ";" after it.  The numbers "must    *)
(* all be zero or small positive integers" (experiment.cpp:461).           *)
Width == 2 * Chains + 1
Expected(k) ==
  IF k = Width THEN "semicolon" ELSE IF k = 1 THEN "colon"
  ELSE IF k % 2 = 0 THEN "num" ELSE "comma"
WellFormed ==
  /\ Len(req.map) = Threads * (Width + 1) - 1
  /\ \A q \in Places : /\ Kind(q) = Expected((q - 1) % (Width + 1))
                        /\ req.map[q].value <= MaxInt

(* A well-formed map is accepted and gives every thread and every chain    *)
(* the domain written for it, "wrapped around using a MOD function"        *)
(* (experiment.cpp:467).                                                   *)
MapExact ==
  req.kind = "map" /\ WellFormed =>
    /\ phase # "exit"
    /\ phase = "done" =>
         \A i \in Upto(Threads) :
           LET first == i * (Width + 1) + 1 IN
             /\ threadDomain[i] = req.map[first].value % Domains
             /\ \A j \in Upto(Chains) :
                  chainDomain[i][j] = req.map[first + 2 + 2 * j].value % Domains

(* Every domain is one of the machine's.  In an ill-formed map it may also *)
(* be one that was never written, or the negative remainder of a number    *)
(* that does not fit an int.                                               *)
DomainsValid ==
  phase = "done" =>
    \A i \in Upto(threads) :
      LET all == {threadDomain[i]} \cup {chainDomain[i][j] : j \in Upto(chains)}
      IN  all \subseteq IF req.kind = "map" /\ ~WellFormed
                       THEN (-(Domains - 1) .. Domains - 1) \cup {Unset}
                       ELSE Upto(Domains)

(* What the threads will index has as many entries as there will be        *)
(* threads and chains, and the size of the test that is printed is that of *)
(* these threads, also when a map has overridden -t and -r.                *)
SizesAgree ==
  phase = "done" =>
    /\ DOMAIN threadDomain = Upto(threads) /\ DOMAIN chainDomain = Upto(threads)
    /\ \A i \in Upto(threads) : DOMAIN chainDomain[i] = Upto(chains)
    /\ seeded = Upto(threads)
    /\ testSize = threads * chains

-----------------------------------------------------------------------------
(* The inductive invariant: a thread is counted on only when a ";" has     *)
(* been passed, so t never exceeds the number of those before p.           *)
Passed == {q \in 1 .. p - 1 : Kind(q) = "semicolon"}

WalkInv == phase # "exit" /\ phase # "done" => t <= Cardinality(Passed)

BeginInv ==
  /\ phase = "begin" => p = 1 /\ t = 0 /\ c = 0
  /\ phase = "thread" => ~AtEnd(p)

(* The sizes as they are before the placement.                             *)
SizeInv == testSize = threads * chains

(* Types, walk and sizes together.                                         *)
IInv == TypeOK /\ BeginInv /\ WalkInv /\ SizeInv /\ SizesAgree

(* The local arrays while alloc_map fills them.                            *)
LocalInv ==
  phase \in {"thread", "chains", "install"} =>
    /\ req.kind = "map"
    /\ localThread \in [Upto(Threads) -> Int]
    /\ localChain \in [Upto(Threads) -> [Upto(Chains) -> Int]]

(* The local arrays hold what a well-formed map says of thread i and of    *)
(* its chain j.                                                            *)
ThreadRead(i) == localThread[i] = req.map[i * (Width + 1) + 1].value
ChainRead(i, j) == localChain[i][j] = req.map[i * (Width + 1) + 1 + 2 + 2 * j].value
AllRead(i) == ThreadRead(i) /\ \A j \in Upto(Chains) : ChainRead(i, j)

(* In a well-formed map, t and c determine the place p.                    *)
MapInv ==
  req.kind = "map" /\ WellFormed =>
    /\ phase # "exit"
    /\ phase = "thread" => p = t * (Width + 1) + 1
    /\ phase = "chains" =>
         /\ p = t * (Width + 1) + 1 + IF c = Chains THEN Width ELSE 2 + 2 * c
         /\ ThreadRead(t) /\ \A j \in Upto(c) : ChainRead(t, j)
    /\ phase \in {"thread", "chains"} => \A i \in Upto(t) : AllRead(i)
    /\ phase = "install" => \A i \in Upto(Threads) : AllRead(i)
=============================================================================
