# pChase in TLA+

pChase measures memory latency and bandwidth: every thread links the cache
lines of its memory into a chain of pointers, chases the pointers with compiled
code, and one thread reads the clock around each chase. The numbers it prints
are right only if all threads chase exactly between the two clock readings, if
the chain covers the memory it stands for, and if the number of links that was
counted is the number of links that is walked. These specifications state that
and check it. The `README`, the usage text in `experiment.cpp` and the comments
are quoted where they promise something.

Source lines below are lines of `src/src/`.

## The system

| component | state | operations | specified in |
|---|---|---|---|
| `main.cpp` main program | loop counters, results it has read | measure the resolution, start a thread, join it, print | `Run`, `Report` |
| `run.cpp` `Run::run` measuring threads | static `iters`, `elapsed`, `_ops_per_chain`, `_seconds`; `exp->iterations`; a thread's `bound`, `e`, `bench` | allocate, link, compile, calibrate, experiment, free | `Run`, `RunWindows`; the NUMA calls and the placement of pages in `Setup` |
| `spinbarrier.cpp` barrier | who waits | `barrier()` | `Run` (`Barrier`) |
| `run.cpp` `random_mem_init`, `forward_mem_init`, `reverse_mem_init` | the chain, factors and offsets, `local_ops_per_chain` | draw, link a line, close | `ChainInit` |
| `run.cpp` `chase_pointers` compiled loop | positions in the chains | one hop of every chain, the operation on the lines there | `Chase` over `ChainInit`, its failure in `Run` |
| `lock.cpp` mutex, the random states of `experiment.cpp` | holder, current state of `random()`, position in each stream | lock, `setstate`, `random`, unlock | `RandomState` |
| `thread.cpp` threads | number, handle, CPU | start, wait, pin | start and wait in `Run`, pinning in `Setup` |
| `experiment.cpp` options, geometry, placement | the fields of `Experiment` | `parse_args`, `alloc_local`, `alloc_xor`, `alloc_add`, `alloc_map` | options and sizes in `Options`, `alloc_*` in `Placement` |
| `timer.cpp` clock | none (`gettimeofday`) | `seconds`, `resolution` | `Timer` as `main` calls it; the lengths of intervals are constants of `Run` |
| `output.cpp` printing | none | `print`, `csv`, `table`, `header` | `Report` |
| `scripts/`, `meson.build`, AsmJit | | | not modelled |

How they interact. `main` parses the options into one `Experiment`, waits for the
clock to tick to learn its resolution, creates one barrier and `num_threads`
threads, starts them, joins them in order and prints
the two static results, with the iterations that thread 0 may have overwritten. The threads share the `Experiment`, the barrier,
`global_mutex`, and four kinds of static variables. `global_mutex` guards only
the random states and `_ops_per_chain`. `iters`, `elapsed` and
`exp->iterations` are guarded by nothing but the position of the barriers;
`iters` not even by that (line 122).

What is hard here: the barriers must be passed by all threads the same number of
times although every thread decides for itself when its loops end (122, 161);
`iters = iters << 1` is executed by all threads at once; thread 0 leaves the
calibration loop and uses `iters` while others may still shift it; the clock is a
wall clock that may be set back; `pthread_create` and the compiler may fail and
nobody looks; a loop counter is an `int` compared with an `int64`; the factors
of the random order may divide what they should be coprime to; the compiled loop
moves several chains and looks only at the first; a page is placed when it is
first written and not when it is allocated. `PROJECT.json`
lists these hazards at their lines with the properties that cover them.

## The modules

**`Run`**: the program counter of a thread is a label of `Run::run`. A thread at
`"bar124"`, ..., `"bar194"` waits in the call of `bp->barrier()` on that line.
One action stands for the code between two points at which another thread can
notice: reading and writing `iters` are two actions (`ShiftRead`, `ShiftWrite`),
a chase is one, because nothing it reads changes meanwhile (that is `QuietShared`,
checked and proved). Leaving the barrier is one step for all threads: a thread
that has been released but has not returned yet is where its next action starts.
Time is counted in ticks: an interval measures `PassTime` for each pass plus an
element of `Jitter`, which may be negative: a clock set back, or the part of a tick
that the clock does not show. `Measurable` says that every chase, of a single pass
even, measures a positive time; a clock that only advances need not be that fine.
`iters` is always a power of two (or
0 after 64 shifts) and is kept as its logarithm; `ItersValue` gives the 64-bit
value. When a counter overflows, which is undefined, the thread may go on or spin
for ever. A join of a thread that was never created returns or crashes. Killing
the process is `alive = FALSE`.

**`TimedWindows`** is what `Run` promises: windows between clock readings, in which
every thread chases once, from beginning to end. **`RunWindows`** maps the
program counters to windows and states that `Run` implements it.

**`ChainInit`**: one thread links one chain and chases it. Only the first link of
a line is ever used, so lines stand for links. `exp` is chosen from a set of
geometries at the beginning; factors are chosen from `PrimeTable`, offsets from
their ranges, which covers every outcome of `random()`. `rank` (the number of the
link that last wrote to a line) is not in the code; it is what the proofs
need. The steps of one thread interleave with nobody else's here: a chain is
local to its thread.

**`Chase`** extends `ChainInit` to the loop as it is compiled. Chain 0 is linked step
by step; the other chains of the thread are linked by the same code and taken as a
whole, from the closed form `BuiltChains` of what the three functions compute.
That the step-by-step loops compute just that is the invariant `AsBuilt`. One
round (`Loop`) moves every position and applies the operation at the new ones;
only chain 0 is compared with its head. Memory is counted in words of 8 bytes, so
that it shows which word of a link an operation hits, and whether it is in the
memory of the chain at all: operands are `bytes_per_line` apart (`Operands`), but
lines begin `links_per_line * 16` bytes apart (`Address`), and `links_per_line` is
rounded down. With lines of 24 bytes, say, every operand is a word further behind
its line than the one before, and with a stride of 2 the second operand is the
pointer of the line after the next. Stores are carried out: `broken` has the
pointers that were overwritten, with a small number that is no address. A round in
which such a pointer is followed kills the process (`Fault`). So may an operand
beyond the chain, and a store there may break any pointer of the other chains
(`Overwrites`). `DriftFits` is the condition under which the drift is less than a
line, `Tiled` that under which the lines accessed at a position end before the next
position; `WithinWorkingSet`, `DataOnly` and `Returns` say that only where one of
them fails can an operation leave the memory, hit a pointer or be fatal.

**`RandomState`**: `random()` draws from one state for the whole process. A number
is modelled by where it comes from, `<<stream, position>>`, which is all that
matters for "every thread draws its own stream".

**`Placement`**: how `alloc_local`, `alloc_xor`, `alloc_add` and `alloc_map` give
every thread and every chain a NUMA domain. A map such as `1:0,1;0:1,0` is a
sequence of tokens, a number (a maximal run of digits) or one of `:` `,` `;`.
`alloc_map` is a state machine over it with the loops of the source, reading
thread and chain numbers into local arrays whose entries are `Unset` until they
are written, as they are in the code. What a read of an unset entry gives is
undefined; `Install` keeps it as `Unset`. `parse_number` gives an `int64`, and storing
it in an `int` keeps the low bits (`Narrow`), so that a domain may be negative and
its remainder, too (`Wrapped`). A map with such numbers is not well-formed: the usage
text asks for "zero or small positive integers". The pieces it copies are taken to fit
the 64 characters of `buf`; the usage text says that "maps do not gracefully
handle ill-formed map specifications".

**`Setup`** extends `Placement` with what a thread does with its domains: it is started
with the affinity of `main` (`mask`, as set by `taskset`), pins itself
(`thread.cpp:47-62`), moves to its domain,
binds and allocates chain after chain (`run.cpp:66-90`) and links them. A page goes
to the domain that is bound when it is first written. Threads do not interact
here, so one thread `me`, chosen at `Launch`, stands for each. What a thread may ask
for is limited by the CPUs that are online and in the cpuset of the process
(`cpuset`), not by the mask it has inherited: a call for a CPU outside the mask
succeeds, and one for CPUs that are not allowed fails and changes nothing. A remainder by a
CPU count of 0 kills the process or, on a processor that divides by 0 without a
trap, leaves the number as it is. `numa_run_on_node` replaces the single CPU of
`start_routine` ("restrict to a single CPU") by all allowed CPUs of the domain, so
the pinning lasts only where the domain has none, or in a build without NUMA
(`meson.build:12`); `RunsWhereSent` is about what is in force while the chains are
allocated, linked and chased. Restrictions of a cpuset on memory are not modelled.

**`Timer`**: `Timer::resolution`, two waiting loops in ten rounds. The clock advances
by itself, by one tick or more; only the distance from the reading kept in `a` is
state.

**`Report`** composes `Timer` and `Run` to the whole of `main`, in this order, and adds
`Output::print`. A row holds what its quotients are computed from; a time is a
fraction, so that an average over no samples has the denominator 0; the sum of the
samples (`Total`) is added up one by one, as in the code. Which words
are printed and how numbers are formatted is left out.

**`Options`**: `parse_args` up to the placement. The command line is the
environment's choice: at every step any option, with any value of `Sizes` or
`Counts`, no value (`None`) or an unknown word (`"?"`), or the end of the options.
An argument is the number that `parse_number` or `parse_real` returns. Each option
is an action that changes the fields the code changes, also when it then reports
an error. Two peculiarities of the code are kept: `-g` tests `experiments` where it
means `loop_length` (line 236), and `-a random` leaves the stride of an earlier
`-a forward` in place. (The usage text calls the long form of `-m` `--operation`;
the code reads `--operartion`.)

**`RunProofs`, `RunWindowsProofs`, `ReportProofs`, `ChainInitProofs` (with `Chase`),
`RandomStateProofs`, `PlacementProofs` (with `Setup`) and `OptionsProofs`** hold the
theorems, **`NumberFacts`** the lemmas about numbers that they share (least elements,
quotients and remainders, primes, running sums), **`MCRun`, `MCReport`, `MCChainInit`,
`MCPlacement`** the values for TLC. A
definition whose comment begins with *Mutant* is a plausible error in the
definition after it and is used by no specification; `PROJECT.json` says which
property notices it. The runs check the inductive invariants `IInv` of `Run`,
`ChainInit` and `Placement`, and type correctness (`TypeOK`) with them; that of
`RandomState` is proved.

## What is checked

Runs that pass:

| run | what it asks | size |
|---|---|---|
| `run_calibrated` | The whole program: three threads, calibration, two experiments, a clock that may be set back by more than a round takes. `TimedChase` and `WholeWork` (a sample times exactly the work of all threads), `PredictionInput` (the race on `iters` costs at most a factor 2^(N-1)), `QuietShared` (the unguarded variables do not change under a reader), `RowsMatchWork` (iterations, hops and bytes of a row are those that every thread made), `Termination`, and the inductive invariant `IInv`. | 122,139 states |
| `run_fixed` | The whole program with `-i` and a clock that measures a positive time for every chase (`Measurable`) and advances by more than a tick when a thread is interrupted: `ResultsComplete` (what `main` prints is complete and final), `RowsDefined` (no quotient of the output divides by 0), `PrintedExactly` (which rows each mode prints), `Reported` (`main` gets to the end). | 1,979 |
| `run_degraded` | Threads 0 and 1 may not start, 1 and 2 may not compile, `int` has 2 value bits and `int64` 6, so that all counters overflow: `SamplesAreComplete`, and the refinement `ImplementsWindows`. Deadlock is not checked: with a thread missing the others wait in the barrier for ever. | 38,163 |
| `chains` | Random chains of up to 5 pages and 10 lines with factors 5 and 11 (so that both the coprime and the dividing cases occur), and strides from -4 to 4 on up to 12 lines, lines of 16, 24 and 40 bytes, every operation, some experiments with two chains: `ChaseBounded`, `CoprimeExact`, `PageByPage`, `StrideOrder`, `StridedOpsExact`, `AsBuilt`, `AllChainsReturn`, `IInv`; `WithinWorkingSet` and `DataOnly` (operations stay in the chain and off its pointers unless they drift by a line or the stride does not divide the chain), `Returns` (and a call returns, unless it dies of just that). Broken pointers, stray stores and signals do occur in it. | 160,704 |
| `random_state` | Three threads, two chains each: `OwnStream`, `StreamGuarded`, `DrawsCounted`, `AllFinish`. | 5,695 |
| `placement` | All placements of small sizes; well-formed maps of one and two threads, and every sequence of up to six tokens; numbers that do not fit an `int`; then any thread, started with all CPUs, with a gap or without CPU 0, on a machine with all CPUs or some of them allowed and a domain without CPUs, until its chains are linked: `MapExact`, `DomainsValid`, `SizesAgree`, `WritesInBounds`, `RunsWhereSent`, `OneDomainHonoured`, `IInv`. | 1,400,892 |
| `options` | Every sequence of up to three options: `OneLength` (exactly one of `-i` and `-s` counts in the end), `Usable` (nothing that the chains divide or count by is 0, and a placement by map has a map), `FewestUnits` (both roundings go up and no further than needed), `AllocationFits` (the links that are allocated take no more than the printed size). | 52,172 |

Runs that show a disagreement between the code and what is written about it:

| run | what TLC finds |
|---|---|
| `run_prediction` | Two threads: both shift `iters` before thread 0 computes the prediction (or only one does), so `PredictionExact` fails. This is the effect that the comment at `run.cpp:111` and the file `TODO` wonder about. With one thread the property follows from `PredictionInput`. |
| `run_dropped_sample` | With `-i 1` and a chain so short that one pass takes no more than a tick, a clock that only advances measures 0: the sample is dropped at line 187, and fewer samples than experiments are printed (`ResultsComplete`). If all are dropped, the average of the table is 0/0 (`output.cpp:44`). |
| `chain_not_covered` | 5 lines and factor 5: the same line is linked five times, the others never (`WholeChain`). |
| `chain_uneven` | A stride that does not divide the chain: in TLC's trace one line of 16 bytes and stride 2, where the second operand of `LOAD_ALL` or `STORE_ALL` is word 3 of a chain with words 0 and 1 (`InMemory`). |
| `first_touch` | A map gives the two chains of a thread different domains. Both are allocated, each under its own `numa_set_membind`, and then linked, under the last one: the pages of the first chain are in the domain of the second (`ChainsInDomain`). |

A smaller one needs no run: `main.cpp:51` says that the last pointer is NULL, but
every `*_mem_init` ends with `prev->next = root`, and the compiled loop depends on it.

Bounds. Three threads are the fewest with which a thread can lag behind two
others that disagree; calibration takes up to six rounds before the bound of 0.2 s
is exceeded; two experiments let a thread be one experiment ahead if a barrier
were missing. For chains, one page and several, one line and several, factors
that divide the pages, the lines, both or neither, and strides that divide, do
not divide or exceed the chain all occur. Three options are enough for one to be
set, overridden and set again, and for the sizes of line, page and chain to be
given together. Two chains per thread are enough for one to be behind the other,
and for the policy of the last to be in force for the first. A CPU set of
`CpuSetBits` = 4 stands for the 64 of the code, so that a mask of 6 CPUs exceeds it,
and `MaxInt` = 7 for the largest `int`, so that 8, 15 and 16 are narrowed to
-8, -1 (which `numa_run_on_node` takes for all domains) and 0.
The clock may run `MaxSince` ticks ahead of a reading. The proofs remove the bounds for the
properties they cover.

Fairness. `Run` assumes weak fairness of `main`, of each thread's steps and of
the opening of the barrier: every thread is pinned to a CPU and runs, and
`pthread_barrier_wait` returns once all have arrived. `Chase` is
sequential and keeps running. `RandomState` needs only weak fairness of each
thread: the mutex may be unfair, since the others enter it finitely often. `Timer`
and `Report` assume that the clock goes on, that a waiting loop reads it again, and
that `main` prints once it has joined the threads.

## What is proved

All proofs are for every value of the constants that meets the named assumptions.

*Run.* `IInv` is type correctness, `LockStep` and `SamplesInv`. None of
`TimedChase`, `WholeWork` or `PredictionInput` is inductive: that nobody chases
while the clock is read depends on everyone being between the same two barriers,
which depends on everyone having taken the same branches, which depends on the
counters and shared variables having been equal when they were read. `LockStep`
says this stretch by stretch: it is a disjunction, one disjunct for each part of
the code between two barriers, with what its branches depend on. `InShift` carries
the counting argument about the race: `iters` is at most doubled once for each
thread that has already shifted (`HaveShifted`). From it: `TypeCorrect`,
`ChaseIsTimed`, `TimedWorkIsWhole`, `PredictionBounds`, `NoPartialSample` and the
action property `SharedIsQuiet`. `RunImplementsWindows` shows that every step of
`Run` is a step of `TimedWindows` or leaves the windows alone.

The assumption that carries weight is `ResolutionAssumption`: the clock resolves
20 ms, so that every thread's own measurement gives the same bound of 0.2 s.
Without it threads could leave the calibration loop in different rounds and wait in
different barriers; nothing here covers that case (it is the first of the plan).

*Report.* `ReportImplementsRun`: seen without clock and output, the whole program
is `Run`, so everything above holds of it. `RowsAreTrue` needs, beyond `IInv`, what
becomes of the results after the last barrier: `WorkInv` (a thread that has
ended an experiment has made `exp->iterations` passes), `OpsInv` (a thread past its set-up
has stored `_ops_per_chain`), `JoinInv` (`main` is past a join only if that thread
has ended) and `PrintInv` (what was printed is what is in the static variables).
`ResultsAreComplete` adds `CountInv`, one sample for each experiment ended, from
`Measurable`: without it `run_dropped_sample` is the counterexample.
`PrintingIsExact` and `RowsAreDefined` put these together (`WholeInv`) and add that the
average of the table lies between the samples: not all of them can be above or
all below it (`SomeNotAbove`, `SomeNotBelow`, over the running sum). They assume
what makes the output meaningful at all: `Measurable`, that not every thread
may fail to start (`MayNotStart # Threads`: otherwise `main` prints no sample), and
for `RowsAreDefined` that chains have links (`OpsPerChain > 0`) and that a waiting
loop of `Timer::resolution` reads the clock before 10^9 ticks have passed
(`ClockIsRead`: the search for the least difference starts there,
`timer.cpp:158`). The run `run_fixed` is an instance of all of them.

*ChainInit and Chase.* `IInv` is `BaseInv` and `RandomInv`. `BaseInv` orders the links by
`rank`: a line that was linked leads to
a line of higher rank unless it is the end of the chain, also when lines are
linked again. Hence a chase climbs in rank and is at the end of the chain within
`ops` hops, whatever the factors (`ChaseIsBounded`). With a stride, ranks grow
by one for each stride, so the count is exact and the order is that of the stride
(`StridedIsExact`, `StridedIsOrdered`).

`RandomInv` is about random chains when no factor divides pages or lines. `DrawInv`
keeps the two loops and the number of links, `ops = i * lines + j`; `RankInv` says in
which round and at which place of it a line was linked, and that there are as many
linked lines as links; `WalkInv` what the chase has accessed. The one difficult step
is that the line about to be linked is new (`FreshLine`): two places with the same
line would have the same page and hence the same round, and in it the same place,
because multiplication by a prime that does not divide *n* permutes the residues
modulo *n* (`FactorPermutes`, from Euclid's lemma). This is where `PrimesAssumption`
counts: the entries of `prime_table` (`run.cpp:216-218`) are primes, which TLC
evaluates for the factors of the run. From it `CoprimeIsExact` (a chase accesses all
lines in exactly the counted hops) and `PagesInOrder` (page by page).

`LoopImplementsChain`: seen from chain 0 the
compiled loop is `ChainInit`, so this holds of it, too. `ChainsAreAsBuilt` compares the loops of the
three `*_mem_init` functions with the closed form, whatever is drawn. Its invariant
`Building` has an order *f* of which the lines linked so far are the beginning
(`Matches(f)`): a line that occurs twice has the rank and the link of its last
place. With a stride *f* is known from the start; a random order is chosen as it is
drawn, and `RandomBuild` says that one with the draws made so far exists.
`ChainsReturnTogether` is about the chains nobody looks at: each was linked in some
order, a link leads from one place of it to another (`LinkedLeads`), so that no
position leaves its chain; and if no line is linked twice (`OrderInjective`), the
position is as many places from the root as there were hops (`OthersInv`), and all
chains have the same number of them.

`StaysWithin` and `OperationsOnData` are about the words, for all geometries, lines
that are not whole links included, and are proved together (`MemoryInv`): that the
stores so far have broken nothing is needed for the loop to be where the links lead,
and that it is there for the next stores to break nothing. Operand *n* of line *l* is
*n* lines and, with an odd number of words, *n* words behind the data of *l*
(`OperandsPlaced`), hence in line *l + n* and not at its beginning as long as the
drift is less than a line (`OperandsAreData`). Strided chains have links at multiples
of the stride only (`MultipleInv`), so if the stride divides the chain, *l + n* is
still one of its lines (`OperandsInMemory`); `chain_uneven` is the counterexample
without that.

*RandomState.* Whoever is inside the mutex holds it, whoever is about to draw has
its own state selected, and a stream's position is the number of draws its thread
has made: `TypeCorrect`, `ThreadsDrawTheirOwn`, `StreamsAreGuarded`. `DrawsAreCounted`
counts the draws by chain and page (`CountInv`): two for each chain and two for each
of its pages.

*Placement and Setup.* `t` counts the `;` that were passed (`WalkInv`), and there is one
thread more than there are `;`, so the unchecked write of line 668 stays within
its array for every map (`MapStaysInBounds`); the test `threads <= t` of line 673
can never be true. The place at which a loop stops exists because a non-empty set
of natural numbers has a least element (`LeastNatural`). `SizesAlwaysAgree`: the
arrays, random states and sizes are those of the threads that will run.
`SetupImplementsPlacement` carries these over to `Setup`. `ThreadsRunWhereSent`: there is
a first CPU missing from any finite mask (`CountExists`), the CPUs before it are in
the mask, and `id % count` is one of them; it is `id` itself when the mask has the
CPUs up to it (`Pinned`). The domain's call then replaces it, or fails and leaves it
(`Sent`); that the domain is one of the machine's comes from `DomainsAreValid`. `MapsAreExact` follows `alloc_map` through its passes over a well-formed
map: what was read of a thread and of its chains so far is what stands at their
places in the map (`MapInv` with `ThreadRead`, `ChainRead`, `AllRead`), and the
position is where thread and chain counter say. `NumberFits`: the numbers of a well-formed map are not changed by storing them in an
`int`. `DomainsAreValid` needs only that
what is installed is a remainder or unset, and from `MapsAreExact` that a
well-formed map leaves nothing unset. `MemoryIsWhereMeant` keeps the policy in force
while the thread allocates and links: it is the domain of the last chain, which is
that of all chains if they share one (`first_touch`: if they do not).

*Options.* `Inv` says that the fields keep their types, that `parse_args`, as long
as it goes on, has left them sound (an option that is in error ends the program,
also when it has changed a field), and what the sizes are computed from. From it
`LengthIsGivenOnce`, `OptionsAreUsable`, `SizesAreFewest` and `AllocationsFit`, for
command lines of any length and any numbers. `RoundedUpFewest` is the lemma about
rounding, and it needs the sizes to be positive: that is what `OptionsAreUsable`
and `Inv` provide.

Induction. The theorems with an operator parameter cannot be used by the provers;
induction over numbers is made here with sets: a non-empty set of natural numbers
has a least element (`LeastNatural`), a set with 0 that is closed under successor
holds all (`SetInduction`). Sums are given by their partial sums (`RunningSum`).

Only model-checked: everything temporal beyond safety (`Termination`, `Returns`,
`AllFinish`, `Reported`), because fairness is out of the prover's reach. Every
invariant and every action property of the passing runs is the subject of a theorem;
`ResultsComplete`, `PrintedExactly` and `RowsDefined` under the hypotheses named above,
which the run `run_fixed` meets.

## Not modelled, and the plan

All parts of the program that change state are modelled. What is left, in this order:

1. A version of `Run` with a clock so coarse that the threads' own measurements of
   its resolution give different bounds (`ResolutionAssumption` excludes it).
2. `Options` composed with `Placement`: both are checked from every input the other
   may give, but not as one specification.
3. Theorems for what the closed form adds: how many hops a random chain has when a
   factor does divide its pages or lines.

Left out for good: code generation by AsmJit, formatting of the output, reading of
digits and units in the arguments, the RTC variant of the timer (the build defines
`GTOD`, with which `Timer::calibrate` is empty), `Thread::lock`, `unlock` and `exit`
(never called), the scripts. Lines are taken to be a multiple of 8 bytes and to hold a
link (16 bytes). Integer products and the index of a link are assumed to fit an `int`
in `ChainInit` (`FitsInt`): overflow of a signed product is undefined, and no geometry
that TLC can enumerate reaches it.
