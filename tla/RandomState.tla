---------------------------- MODULE RandomState ----------------------------
(***************************************************************************)
(* Random numbers of the threads.  random() of the C library draws from    *)
(* one current state for the whole process.  Every thread has a state of   *)
(* its own, and before it draws it makes that state the current one with   *)
(* setstate(), under Run::global_mutex (run.cpp:233-248).  The number of   *)
(* operations per chain is stored under the same mutex.                    *)
(*                                                                         *)
(* A random number is modelled by where it comes from: <<s, k>> is number  *)
(* k of the stream of state s.  The streams are those of initstate() with  *)
(* the number of the thread as the seed.                                   *)
(***************************************************************************)
EXTENDS Integers, Sequences

CONSTANTS
  NumThreads,    \* exp.num_threads
  Chains,        \* exp.chains_per_thread
  Pages,         \* exp.pages_per_chain
  OpsPerChain    \* what every *_mem_init counts

ASSUME SizesAssumption ==
  /\ NumThreads \in Nat \ {0} /\ Chains \in Nat \ {0} /\ Pages \in Nat \ {0}
  /\ OpsPerChain \in Nat \ {0}

Threads == 0 .. NumThreads - 1

(* random_mem_init enters the mutex once for the page factor and offset,   *)
(* once for every page and once to store the number of operations.         *)
SectionsPerChain == Pages + 2
Sections == Chains * SectionsPerChain
StoresOps(n) == n % SectionsPerChain = Pages + 1

Nobody == -1

VARIABLES
  holder,    \* the thread that holds global_mutex, or Nobody
  current,   \* the state random() draws from
  position,  \* position[s]: how many numbers were drawn from state s
  pc,        \* pc[t]: "out" of the mutex, or the step within it
  section,   \* section[t]: critical sections t has completed
  drawn,     \* drawn[t]: the numbers that t was given
  ops        \* Run::_ops_per_chain

vars == <<holder, current, position, pc, section, drawn, ops>>

Inside == {"locked", "set", "drew", "leave"}

TypeOK ==
  /\ holder \in Threads \cup {Nobody}
  /\ current \in Threads
  /\ position \in [Threads -> Nat]
  /\ pc \in [Threads -> Inside \cup {"out"}]
  /\ section \in [Threads -> 0 .. Sections]
  /\ drawn \in [Threads -> Seq(Threads \X Nat)]
  /\ ops \in {0, OpsPerChain}

(* parse_args calls initstate() for every thread in turn, so that the      *)
(* state of the last thread is the current one.                            *)
Init ==
  /\ holder = Nobody
  /\ current = NumThreads - 1
  /\ position = [s \in Threads |-> 0]
  /\ pc = [t \in Threads |-> "out"]
  /\ section = [t \in Threads |-> 0]
  /\ drawn = [t \in Threads |-> << >>]
  /\ ops = 0

Goto(t, from, to) ==
  /\ pc[t] = from
  /\ pc' = [pc EXCEPT ![t] = to]

-----------------------------------------------------------------------------
(* Mutant: the lock is not waited for.                                     *)
LockIgnored(t) ==
  /\ Goto(t, "out", "locked")
  /\ section[t] < Sections
  /\ holder' = t
  /\ UNCHANGED <<current, position, section, drawn, ops>>

Lock(t) ==
  /\ Goto(t, "out", "locked")
  /\ section[t] < Sections
  /\ holder = Nobody /\ holder' = t
  /\ UNCHANGED <<current, position, section, drawn, ops>>

(* Mutant: the state is set by the thread's first section only.            *)
SetStateOnce(t) ==
  /\ Goto(t, "locked", "set")
  /\ ~StoresOps(section[t])
  /\ current' = IF section[t] = 0 THEN t ELSE current
  /\ UNCHANGED <<holder, position, section, drawn, ops>>

SetState(t) ==
  /\ Goto(t, "locked", "set")
  /\ ~StoresOps(section[t])
  /\ current' = t
  /\ UNCHANGED <<holder, position, section, drawn, ops>>

(* One call of random() by thread t.                                       *)
Draw(t) ==
  /\ drawn' = [drawn EXCEPT ![t] = Append(@, <<current, position[current]>>)]
  /\ position' = [position EXCEPT ![current] = @ + 1]

DrawFactor(t) ==
  /\ Goto(t, "set", "drew")
  /\ Draw(t)
  /\ UNCHANGED <<holder, current, section, ops>>

(* Mutant: the offset is not drawn.                                        *)
DrawOffsetSkipped(t) ==
  /\ Goto(t, "drew", "leave")
  /\ UNCHANGED <<holder, current, position, section, drawn, ops>>

DrawOffset(t) ==
  /\ Goto(t, "drew", "leave")
  /\ Draw(t)
  /\ UNCHANGED <<holder, current, section, ops>>

StoreOps(t) ==
  /\ Goto(t, "locked", "leave")
  /\ StoresOps(section[t])
  /\ ops' = OpsPerChain
  /\ UNCHANGED <<holder, current, position, section, drawn>>

(* Mutant: storing the operations is repeated for ever.                    *)
UnlockRepeats(t) ==
  /\ Goto(t, "leave", "out")
  /\ holder' = Nobody
  /\ section' = [section EXCEPT ![t] = IF StoresOps(@) THEN @ ELSE @ + 1]
  /\ UNCHANGED <<current, position, drawn, ops>>

Unlock(t) ==
  /\ Goto(t, "leave", "out")
  /\ holder' = Nobody
  /\ section' = [section EXCEPT ![t] = @ + 1]
  /\ UNCHANGED <<current, position, drawn, ops>>

Step(t) ==
  \/ Lock(t) \/ SetState(t) \/ DrawFactor(t) \/ DrawOffset(t)
  \/ StoreOps(t) \/ Unlock(t)

AllLinked == \A t \in Threads : section[t] = Sections /\ pc[t] = "out"

Done == AllLinked /\ UNCHANGED vars

Next == (\E t \in Threads : Step(t)) \/ Done

Spec == Init /\ [][Next]_vars
(* A thread goes on when it can.  The mutex need not be fair: the others   *)
(* enter it a bounded number of times.                                     *)
FairSpec == Spec /\ \A t \in Threads : WF_vars(Step(t))

-----------------------------------------------------------------------------
(* Properties                                                              *)

(* Each thread is given the numbers of its own stream, in order and none   *)
(* left out, however the threads interleave: the chains of a thread are    *)
(* the same in every run.                                                  *)
OwnStream ==
  \A t \in Threads : \A k \in 1 .. Len(drawn[t]) : drawn[t][k] = <<t, k - 1>>

(* No step moves the stream of a thread that does not hold the mutex, and  *)
(* the state in use is not exchanged between setstate() and the last draw. *)
StreamGuarded ==
  [][ \A t \in Threads :
        /\ position'[t] # position[t] => holder = t
        /\ current' # current => pc[t] \notin {"set", "drew"} ]_vars

(* Every thread links all its chains.                                      *)
AllFinish == <>AllLinked

(* A thread that has linked all its chains has drawn two numbers for each  *)
(* chain and two for each of its pages.                                    *)
DrawsCounted ==
  AllLinked =>
    /\ \A t \in Threads : Len(drawn[t]) = Chains * 2 * (Pages + 1)
    /\ ops = OpsPerChain

-----------------------------------------------------------------------------
(* The inductive invariant: who is inside holds the mutex, who is about to *)
(* draw has its own state selected, and a stream has advanced by exactly   *)
(* what its thread has drawn.                                              *)
MutexInv ==
  \A t \in Threads :
    /\ pc[t] \in Inside => holder = t /\ section[t] < Sections
    /\ pc[t] \in {"set", "drew"} => current = t
StreamInv ==
  \A t \in Threads : position[t] = Len(drawn[t])

(* Where a thread is in its chains, and what it has drawn so far: two      *)
(* numbers in every section but the last of a chain.                       *)
DrawnIn(t, k) ==
  IF pc[t] = "drew" THEN 1
  ELSE IF pc[t] = "leave" /\ k <= Pages THEN 2 ELSE 0
At(t, c, k) ==
  /\ section[t] = SectionsPerChain * c + k
  /\ Len(drawn[t]) = 2 * (c * (Pages + 1) + k) + DrawnIn(t, k)
  /\ pc[t] \in {"set", "drew"} => k <= Pages
  /\ c > 0 \/ (pc[t] = "leave" /\ k = Pages + 1) => ops = OpsPerChain
CountInv == \A t \in Threads : \E c \in 0 .. Chains, k \in 0 .. Pages + 1 : At(t, c, k)

IInv == TypeOK /\ MutexInv /\ StreamInv /\ OwnStream
=============================================================================
