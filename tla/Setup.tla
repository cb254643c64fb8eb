------------------------------- MODULE Setup -------------------------------
(***************************************************************************)
(* What a thread does with the domains that Placement has given it: it     *)
(* pins itself to a CPU (Thread::start_routine), moves to its domain,      *)
(* allocates its chains and links them (the beginning of Run::run).        *)
(*                                                                         *)
(* CPU affinity and memory policy belong to a thread, and a thread touches *)
(* only its own chains: the threads do not interact here, and one of them, *)
(* me, stands for each.                                                    *)
(*                                                                         *)
(* A page is placed by the policy in force when it is first written, not   *)
(* when its addresses are allocated.  new Chain[n] writes no link (Chain   *)
(* has no constructor); the pages of a chain are those after the first,    *)
(* into which the allocator itself may write.                              *)
(*                                                                         *)
(* This is the program compiled with NUMA.  Without it a thread stays      *)
(* where it pinned itself, as with a domain that has no CPU, and its       *)
(* memory is bound to none.                                                *)
(***************************************************************************)
EXTENDS Placement

CONSTANTS
  Cpusets,     \* CPUs that the system may allow the program: online, cpuset
  Masks,       \* CPU affinities with which it may be started, as by taskset
  CpuSetBits,  \* CPUs that a set of CPU_ALLOC_SIZE(1) bytes holds: 64
  CpusOf       \* CpusOf[d]: the CPUs of domain d

ASSUME CpusAssumption ==
  /\ \A s \in Cpusets : s \subseteq Nat
  /\ \A m \in Masks : m \subseteq Nat /\ IsFiniteSet(m) /\ m # {}
  /\ CpuSetBits \in Nat \ {0}
  /\ CpusOf \in [Upto(Domains) -> SUBSET Nat]

VARIABLES
  me,        \* the thread's number, Unset before it runs
  step,      \* "idle", "pin", "move", "alloc", "link", "ready" or "killed"
  cpuset,    \* the CPUs a thread may ask for
  mask,      \* the CPUs the program was started on, some of these
  affinity,  \* the CPUs the thread may run on
  bound,     \* the domain the thread's memory is bound to, Unset for none
  k,         \* the chain it is at
  pages      \* pages[j]: the domain that chain j's pages are in

threadVars == <<me, step, cpuset, mask, affinity, bound, k, pages>>
setupVars == <<vars, threadVars>>

SetupInit ==
  /\ Init
  /\ me = Unset /\ step = "idle" /\ cpuset = {} /\ mask = {} /\ affinity = {}
  /\ bound = Unset /\ k = 0 /\ pages = << >>

(* pthread_create: the thread inherits the affinity of main().             *)
Launch ==
  /\ phase = "done" /\ step = "idle"
  /\ me' \in Upto(threads)
  /\ cpuset' \in Cpusets
  /\ mask' \in Masks /\ mask' \subseteq cpuset'
  /\ affinity' = mask'
  /\ step' = "pin"
  /\ UNCHANGED <<vars, bound, k, pages>>

-----------------------------------------------------------------------------
(* Thread::start_routine                                                   *)

(* Mutant: all the CPUs of the mask are counted.                           *)
CountAll == Cardinality(mask)

(* The CPUs from 0 up to the first that is not in the mask.                *)
Count == CHOOSE n \in 0 .. Cardinality(mask) : Upto(n) \subseteq mask /\ n \notin mask

(* The call may leave the mask; it fails, and nothing is changed, if the   *)
(* set has no CPU of the cpuset: a CPU beyond CpuSetBits is not added to   *)
(* the set.                                                                *)
SetAffinity(cpu) ==
  affinity' = IF cpu < CpuSetBits /\ cpu \in cpuset THEN {cpu} ELSE affinity

Pin ==
  /\ step = "pin" /\ Count > 0
  /\ SetAffinity(me % Count)
  /\ step' = "move"
  /\ UNCHANGED <<vars, me, cpuset, mask, bound, k, pages>>

(* id % 0 is undefined: a signal, or on the ARM processors that the chase  *)
(* is compiled for a quotient of 0, which leaves id.                       *)
PinModuloZero ==
  /\ step = "pin" /\ Count = 0
  /\ \/ step' = "killed" /\ UNCHANGED affinity
     \/ step' = "move" /\ SetAffinity(me)
  /\ UNCHANGED <<vars, me, cpuset, mask, bound, k, pages>>

-----------------------------------------------------------------------------
(* Run::run, compiled with NUMA                                            *)

(* What an entry of thread_domain or chain_domain may hold: one that was   *)
(* never written any domain, -1 or a number that is none (Unset).          *)
Meant(d) == IF d = Unset THEN Upto(Domains) \cup {-1, Unset} ELSE {d}

(* The CPUs of domain d that a thread may ask for; -1 means all domains.   *)
NodeCpus(d) ==
  cpuset \cap UNION {CpusOf[e] : e \in {e \in Upto(Domains) : d \in {e, -1}}}

(* numa_run_on_node puts the CPUs of the domain in the place of the CPU    *)
(* that start_routine chose; the call fails if there are none.             *)
Move ==
  /\ step = "move"
  /\ \E d \in Meant(threadDomain[me]) :
       affinity' = IF NodeCpus(d) = {} THEN affinity ELSE NodeCpus(d)
  /\ step' = "alloc"
  /\ UNCHANGED <<vars, me, cpuset, mask, bound, k, pages>>

(* numa_set_membind, which fails for what is no domain, and the memory of  *)
(* a chain allocated.                                                      *)
Bind(domain) ==
  /\ step = "alloc"
  /\ \E d \in Meant(domain) : bound' = IF d \in Upto(Domains) THEN d ELSE bound
  /\ IF k + 1 < chains THEN k' = k + 1 /\ UNCHANGED step
     ELSE k' = 0 /\ step' = "link"
  /\ UNCHANGED <<vars, me, cpuset, mask, affinity, pages>>

(* Mutant: the memory is bound to where the thread runs.                   *)
AllocChainAtHome == Bind(threadDomain[me])

AllocChain == Bind(chainDomain[me][k])

(* *_mem_init writes the first link into every page of the chain.          *)
LinkChain ==
  /\ step = "link"
  /\ pages' = [j \in 0 .. k |-> IF j = k THEN bound ELSE pages[j]]
  /\ IF k + 1 < chains THEN k' = k + 1 /\ UNCHANGED step
     ELSE k' = k /\ step' = "ready"
  /\ UNCHANGED <<vars, me, cpuset, mask, affinity, bound>>

-----------------------------------------------------------------------------
Thread == Launch \/ Pin \/ PinModuloZero \/ Move \/ AllocChain \/ LinkChain

SetupNext == (Next /\ UNCHANGED threadVars) \/ Thread

SetupSpec == SetupInit /\ [][SetupNext]_setupVars

-----------------------------------------------------------------------------
(* Properties                                                              *)

(* Where a thread runs once the NUMA calls are made, as long as it lives:  *)
(* on CPUs it may use; in its domain, on any of the CPUs there, although   *)
(* start_routine says "restrict to a single CPU" and taskset another mask; *)
(* and if the domain has no CPU for it, on a CPU of the mask, thread me on *)
(* CPU me and so alone if the mask and the set have CPUs 0 to me.          *)
RunsWhereSent ==
  step \in {"alloc", "link", "ready"} =>
    /\ affinity # {} /\ affinity \subseteq cpuset
    /\ (req.kind = "map" => WellFormed) =>
         LET node == NodeCpus(threadDomain[me]) IN
           /\ node # {} => affinity = node
           /\ node = {} /\ 0 \in mask =>
                /\ affinity \subseteq mask
                /\ Upto(me + 1) \subseteq mask /\ me < CpuSetBits => affinity = {me}

(* local, xor and add give all chains of a thread the same domain, and so  *)
(* does a map with one chain per thread: all memory of a thread is where   *)
(* the placement says, although the pages are placed only when they are    *)
(* linked.                                                                 *)
OneDomainHonoured ==
  step = "ready" /\ (req.kind = "map" => WellFormed /\ chains = 1) =>
    \A j \in Upto(chains) : pages[j] = chainDomain[me][j]

(* "first allocate all memory for the chains, making sure it is allocated  *)
(* within the intended numa domains" (run.cpp:60-62): the pages of every   *)
(* chain are in the domain written for it.                                 *)
ChainsInDomain ==
  step = "ready" /\ (req.kind = "map" => WellFormed) =>
    \A j \in Upto(chains) : pages[j] = chainDomain[me][j]
=============================================================================
