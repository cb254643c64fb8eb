------------------------------ MODULE Options ------------------------------
(***************************************************************************)
(* Experiment::parse_args up to the placement: the options are read one    *)
(* after the other, each changing fields of the Experiment, until one of   *)
(* them is in error or there are no more; then the sizes are computed.     *)
(*                                                                         *)
(* An option is a name with the value of its argument.  Which options are  *)
(* given is up to the environment: at most MaxOptions of them, in any      *)
(* order, any of them more than once.  None stands for an argument that is *)
(* missing, "?" for a word the option does not know.  A stride is kept     *)
(* with its word: a forward or a reverse stride.                           *)
(***************************************************************************)
EXTENDS Integers

CONSTANTS
  Sizes,       \* arguments of -l, -p and -c
  Counts,      \* arguments of -r, -t, -e, -i, -s, -g, of strides and masks
  MaxOptions   \* bound on the number of options

ASSUME ArgumentsAssumption ==
  Sizes \subseteq Nat /\ Counts \subseteq Nat /\ MaxOptions \in Nat

None == -1
Amounts == Counts \cup {None}

VARIABLES
  phase,   \* "args", then "sizes" and "ready", or "error" or "usage" when
           \* parse_args returns 1
  given,   \* how many options have been read
  exp,     \* the fields of the Experiment that the options set
  asked,   \* whether -h was among the options
  geo      \* the sizes computed from exp

vars == <<phase, given, exp, asked, geo>>

(* sizeof(Chain), the DEFAULT_POINTER_SIZE.                                *)
PointerSize == 16

Defaults ==
  [line |-> 64, page |-> 4096, chain |-> 16777216, references |-> 1,
   threads |-> 1, experiments |-> 1, loop |-> 0, seconds |-> 1,
   iterations |-> 0, prefetch |-> "none", operation |-> "none",
   output |-> "table", pattern |-> "random", stride |-> 1,
   numa |-> "local", operand |-> 0, map |-> FALSE, strict |-> FALSE]

Words ==
  [prefetch |-> {"none", "nta", "t0", "t1", "t2"},
   operation |-> {"none", "load", "store", "load_all", "store_all"},
   output |-> {"table", "csv", "both", "hdr"}]

Unsized == [lines |-> 0, pages |-> 0, page |-> 0, chain |-> 0, test |-> 0,
            links |-> 0]

Init ==
  /\ phase = "args" /\ given = 0
  /\ exp = Defaults
  /\ asked = FALSE
  /\ geo = Unsized

-----------------------------------------------------------------------------
(* One option                                                              *)

(* The option leaves the fields as in new; bad says that it is in error,   *)
(* which ends the loop, with what it has changed in place.                 *)
Read(new, bad) ==
  /\ phase = "args" /\ given < MaxOptions
  /\ given' = given + 1
  /\ exp' = new
  /\ phase' = IF bad THEN "error" ELSE "args"
  /\ UNCHANGED <<asked, geo>>

Help ==
  /\ phase = "args" /\ given < MaxOptions
  /\ given' = given + 1
  /\ asked' = TRUE
  /\ UNCHANGED <<phase, exp, geo>>

(* -x is recorded; nothing in the program looks at it.                     *)
Strict == Read([exp EXCEPT !.strict = TRUE], FALSE)

(* -l, -p, -c, -r, -t and -e: a number, not 0.                             *)
Number(name, v) ==
  Read(IF v = None THEN exp ELSE [exp EXCEPT ![name] = v], v \in {None, 0})

(* Mutant: the number of iterations is left as it was.                     *)
SecondsOnly(v) ==
  Read(IF v = None THEN exp ELSE [exp EXCEPT !.seconds = v], v \in {None, 0})

(* -s: from now on the number of iterations is to be calibrated.           *)
Seconds(v) ==
  Read(IF v = None THEN exp ELSE [exp EXCEPT !.seconds = v, !.iterations = 0],
       v \in {None, 0})

(* -i: from now on the number of iterations is fixed.                      *)
Iterations(v) ==
  Read(IF v = None THEN exp ELSE [exp EXCEPT !.iterations = v, !.seconds = 0],
       v \in {None, 0})

(* -g: the code tests experiments where it means loop_length.              *)
Loop(v) ==
  Read(IF v = None THEN exp ELSE [exp EXCEPT !.loop = v],
       v = None \/ exp.experiments = 0)

(* Mutant: a word that the option does not know is taken as it is.         *)
WordUnchecked(name, w) == Read([exp EXCEPT ![name] = w], FALSE)

(* -f, -m and -o: one of the words of the option.                          *)
Word(name, w) ==
  Read(IF w \in Words[name] THEN [exp EXCEPT ![name] = w] ELSE exp,
       w \notin Words[name])

Prefetch(w) == Word("prefetch", w)
Operation(w) == Word("operation", w)
OutputMode(w) == Word("output", w)

(* -a: random leaves the stride alone.                                     *)
AccessRandom == Read([exp EXCEPT !.pattern = "random"], FALSE)
AccessUnknown == Read(exp, TRUE)

(* Mutant: a stride of 0 is accepted.                                      *)
AccessAnyStride(sign, v) ==
  Read([exp EXCEPT !.pattern = "strided",
                   !.stride = IF v = None THEN @ ELSE sign * v],
       v = None)

AccessStrided(sign, v) ==
  Read([exp EXCEPT !.pattern = "strided",
                   !.stride = IF v = None THEN @ ELSE sign * v],
       v \in {None, 0})

(* -n: the placement, with an offset, a mask or a map.                     *)
NumaLocal == Read([exp EXCEPT !.numa = "local"], FALSE)
NumaUnknown == Read(exp, TRUE)
NumaOperand(kind, v) ==
  Read([exp EXCEPT !.numa = kind, !.operand = IF v = None THEN @ ELSE v], v = None)
NumaMap(missing) ==
  Read([exp EXCEPT !.numa = "map", !.map = @ \/ ~missing], missing)

Unknown == Read(exp, TRUE)

-----------------------------------------------------------------------------
(* After the options                                                       *)

EndOfOptions ==
  /\ phase = "args"
  /\ phase' = IF asked THEN "usage" ELSE "sizes"
  /\ UNCHANGED <<given, exp, asked, geo>>

(* Mutant: the division rounds down.                                       *)
Truncated(bytes, unit) == bytes \div unit

(* The number of units that bytes take, the last one begun counted.        *)
RoundedUp(bytes, unit) == (bytes + unit - 1) \div unit

(* Mutant: a line is given a link that only begins in it.                  *)
LinksPerLineUp == RoundedUp(exp.line, PointerSize)

LinksPerLine == exp.line \div PointerSize

ComputeSizes ==
  /\ phase = "sizes"
  /\ LET lines == RoundedUp(exp.page, exp.line)
         page == exp.line * lines
         pages == RoundedUp(exp.chain, page)
     IN  geo' = [lines |-> lines, pages |-> pages, page |-> page,
                 chain |-> page * pages,
                 test |-> page * pages * exp.references * exp.threads,
                 links |-> lines * pages * LinksPerLine]
  /\ phase' = "ready"
  /\ UNCHANGED <<given, exp, asked>>

-----------------------------------------------------------------------------
OneOption ==
  \/ Help \/ Strict \/ Unknown
  \/ \E name \in {"line", "page", "chain"} : \E v \in Sizes \cup {None} : Number(name, v)
  \/ \E name \in {"references", "threads", "experiments"} : \E v \in Amounts : Number(name, v)
  \/ \E v \in Amounts : Seconds(v) \/ Iterations(v) \/ Loop(v)
  \/ \E w \in Words.prefetch \cup {"?"} : Prefetch(w)
  \/ \E w \in Words.operation \cup {"?"} : Operation(w)
  \/ \E w \in Words.output \cup {"?"} : OutputMode(w)
  \/ AccessRandom \/ AccessUnknown
  \/ \E sign \in {1, -1} : \E v \in Amounts : AccessStrided(sign, v)
  \/ NumaLocal \/ NumaUnknown
  \/ \E kind \in {"xor", "add"} : \E v \in Amounts : NumaOperand(kind, v)
  \/ \E missing \in BOOLEAN : NumaMap(missing)

Returned == phase \in {"ready", "error", "usage"} /\ UNCHANGED vars

Next == OneOption \/ EndOfOptions \/ ComputeSizes \/ Returned

Spec == Init /\ [][Next]_vars

-----------------------------------------------------------------------------
(* Properties                                                              *)

(* The type of every variable; the hint, the operation and the format are  *)
(* among those that the options name.                                      *)
TypeOK ==
  /\ phase \in {"args", "sizes", "ready", "error", "usage"}
  /\ given \in 0 .. MaxOptions
  /\ \A name \in {"line", "page", "chain", "references", "threads",
                  "experiments", "loop", "seconds", "iterations", "operand"} :
       exp[name] \in Nat
  /\ exp.stride \in Int
  /\ exp.pattern \in {"random", "strided"}
  /\ exp.numa \in {"local", "xor", "add", "map"}
  /\ \A name \in DOMAIN Words : exp[name] \in Words[name]
  /\ {asked, exp.map, exp.strict} \subseteq BOOLEAN
  /\ \A name \in DOMAIN geo : geo[name] \in Nat

(* Whatever the order of -i and -s, and however often they are given,      *)
(* exactly one of iterations and seconds is left to determine the length   *)
(* of an experiment: Run::run() calibrates if and only if iterations is 0, *)
(* and then needs a number of seconds to calibrate for.                    *)
OneLength ==
  phase \in {"args", "sizes", "ready"} => (exp.iterations = 0) # (exp.seconds = 0)

(* What random_mem_init, forward_mem_init and reverse_mem_init divide by   *)
(* and count with is positive, the stride is not 0, and there is a map for *)
(* alloc_map to read if the placement is by a map, whatever was said       *)
(* before it.                                                              *)
Usable ==
  phase = "ready" =>
    /\ geo.lines >= 1 /\ geo.pages >= 1 /\ exp.stride # 0
    /\ exp.threads >= 1 /\ exp.references >= 1 /\ exp.experiments >= 1
    /\ exp.numa = "map" => exp.map

(* "we round up page and chain sizes when needed" (experiment.cpp:483):    *)
(* a page is the fewest lines that hold what was asked for, and a chain    *)
(* the fewest of these pages.                                              *)
FewestUnits ==
  phase = "ready" =>
    /\ geo.page % exp.line = 0 /\ geo.chain % geo.page = 0
    /\ geo.page >= exp.page /\ geo.page - exp.line < exp.page
    /\ geo.chain >= exp.chain /\ geo.chain - geo.page < exp.chain

(* A thread allocates links_per_chain links: never more memory than the    *)
(* chain size that is printed, and exactly that if a line holds a whole    *)
(* number of links.                                                        *)
AllocationFits ==
  phase = "ready" =>
    /\ geo.links * PointerSize <= geo.chain
    /\ exp.line % PointerSize = 0 => geo.links * PointerSize = geo.chain
=============================================================================
