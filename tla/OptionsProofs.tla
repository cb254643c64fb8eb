--------------------------- MODULE OptionsProofs ---------------------------
(***************************************************************************)
(* Proofs about Options: for every sequence of options of any length and   *)
(* any arguments, what parse_args leaves behind is usable, and the sizes   *)
(* are rounded up to the fewest lines and pages.                           *)
(***************************************************************************)
EXTENDS Options, TLAPS

(* The fields of an Experiment.                                            *)
Fields ==
  [line : Nat, page : Nat, chain : Nat, references : Nat, threads : Nat,
   experiments : Nat, loop : Nat, seconds : Nat, iterations : Nat,
   prefetch : {"none", "nta", "t0", "t1", "t2"},
   operation : {"none", "load", "store", "load_all", "store_all"},
   output : {"table", "csv", "both", "hdr"},
   pattern : {"random", "strided"}, stride : Int,
   numa : {"local", "xor", "add", "map"}, operand : Nat, map : BOOLEAN,
   strict : BOOLEAN]

Sized == [lines : Nat, pages : Nat, page : Nat, chain : Nat, test : Nat, links : Nat]

Going == phase \in {"args", "sizes", "ready"}

(* What an option that is not in error leaves behind.                      *)
Sound(x) ==
  /\ x.line >= 1 /\ x.page >= 1 /\ x.chain >= 1
  /\ x.references >= 1 /\ x.threads >= 1 /\ x.experiments >= 1
  /\ x.stride # 0
  /\ x.numa = "map" => x.map = TRUE
  /\ (x.iterations = 0 /\ x.seconds # 0) \/ (x.iterations # 0 /\ x.seconds = 0)

TypeInv ==
  /\ phase \in {"args", "sizes", "ready", "error", "usage"}
  /\ given \in 0 .. MaxOptions
  /\ exp \in Fields /\ asked \in BOOLEAN /\ geo \in Sized

SoundInv == Going => Sound(exp)

SizesInv ==
  phase = "ready" =>
    /\ geo.lines = RoundedUp(exp.page, exp.line)
    /\ geo.page = exp.line * geo.lines
    /\ geo.pages = RoundedUp(exp.chain, geo.page)
    /\ geo.chain = geo.page * geo.pages
    /\ geo.links = geo.lines * geo.pages * LinksPerLine

Inv == TypeInv /\ SoundInv /\ SizesInv

(* A multiple leaves no remainder.                                         *)
LEMMA MultipleDivides ==
  ASSUME NEW n \in Nat, NEW unit \in Nat \ {0}
  PROVE  (unit * n) % unit = 0
<1> DEFINE y == unit * n
           q == y \div unit
           r == y % unit
<1>1. y \in Nat
  OBVIOUS
<1> HIDE DEF y
<1>2. q \in Int /\ r \in 0 .. unit - 1 /\ y = unit * q + r
  BY <1>1
<1> HIDE DEF q, r
<1>3. r = unit * (n - q)
  BY <1>2 DEF y
<1>4. n - q \in Int /\ (n - q >= 1 => unit * (n - q) >= unit)
      /\ (n - q <= -1 => unit * (n - q) <= -unit)
  BY <1>2
<1>5. n - q = 0
  BY <1>2, <1>3, <1>4
<1>6. r = 0
  BY <1>3, <1>5
<1> QED  BY <1>6 DEF r, y

(* Rounding up gives the fewest units.                                     *)
LEMMA RoundedUpFewest ==
  ASSUME NEW bytes \in Nat \ {0}, NEW unit \in Nat \ {0}
  PROVE  /\ RoundedUp(bytes, unit) \in Nat \ {0}
         /\ unit * RoundedUp(bytes, unit) \in Nat \ {0}
         /\ unit * RoundedUp(bytes, unit) >= bytes
         /\ unit * RoundedUp(bytes, unit) - unit < bytes
         /\ (unit * RoundedUp(bytes, unit)) % unit = 0
<1> DEFINE x == bytes + unit - 1
           n == x \div unit
           r == x % unit
<1>1. n \in Nat /\ r \in 0 .. unit - 1 /\ x = unit * n + r
  OBVIOUS
<1>2. RoundedUp(bytes, unit) = n
  BY DEF RoundedUp
<1>3. unit * n >= bytes /\ unit * n - unit < bytes
  BY <1>1
<1> HIDE DEF n
<1>4. n # 0
  BY <1>1, <1>3
<1>5. unit * n \in Nat
  BY <1>1
<1>6. (unit * n) % unit = 0
  BY <1>1, MultipleDivides
<1> QED  BY <1>1, <1>2, <1>3, <1>4, <1>5, <1>6

LEMMA InitInv == Init => Inv
<1> SUFFICES ASSUME Init PROVE Inv
  OBVIOUS
<1>1. exp \in Fields /\ Sound(exp)
  BY DEF Init, Defaults, Fields, Sound
<1>2. geo \in Sized /\ phase = "args" /\ given = 0 /\ asked = FALSE
  BY DEF Init, Unsized, Sized
<1>3. asked \in BOOLEAN
  BY <1>2
<1>4. TypeInv
  BY <1>1, <1>2, <1>3, ArgumentsAssumption DEF TypeInv
<1> QED  BY <1>1, <1>2, <1>4 DEF Inv, SoundInv, SizesInv

-----------------------------------------------------------------------------
(* An option may leave anything when it is in error, for parse_args then   *)
(* returns.                                                                *)
LEMMA ReadKeeps ==
  ASSUME Inv, NEW new \in Fields, NEW bad, Read(new, bad), bad \/ Sound(new)
  PROVE  Inv'
<1>1. /\ given' \in 0 .. MaxOptions /\ exp' = new /\ asked' = asked /\ geo' = geo
      /\ phase' = IF bad THEN "error" ELSE "args"
  BY ArgumentsAssumption DEF Read, Inv, TypeInv
<1>2. TypeInv'
  BY <1>1 DEF Inv, TypeInv
<1>3. SoundInv' /\ SizesInv'
  BY <1>1 DEF SoundInv, SizesInv, Going
<1> QED  BY <1>2, <1>3 DEF Inv

(* What holds when an option is read.                                      *)
LEMMA AtOption ==
  ASSUME Inv, NEW new, NEW bad, Read(new, bad)
  PROVE  exp \in Fields /\ Sound(exp)
  BY DEF Inv, TypeInv, SoundInv, Going, Read

LEMMA NumberStep ==
  ASSUME Inv, NEW v \in Nat \cup {None},
         NEW name \in {"line", "page", "chain", "references", "threads", "experiments"},
         Number(name, v)
  PROVE  Inv'
<1> DEFINE new == IF v = None THEN exp ELSE [exp EXCEPT ![name] = v]
<1>1. exp \in Fields /\ Sound(exp) /\ Read(new, v \in {None, 0})
  BY AtOption DEF Number
<1>2. new \in Fields
  BY <1>1 DEF Fields, None
<1>3. v \in {None, 0} \/ Sound(new)
  BY <1>1 DEF Fields, Sound, None
<1> QED  BY <1>1, <1>2, <1>3, ReadKeeps

LEMMA LengthStep ==
  ASSUME Inv, NEW v \in Nat \cup {None}, Seconds(v) \/ Iterations(v) \/ Loop(v)
  PROVE  Inv'
<1>1. CASE Seconds(v)
  <2> DEFINE new == IF v = None THEN exp ELSE [exp EXCEPT !.seconds = v, !.iterations = 0]
  <2>1. exp \in Fields /\ Sound(exp) /\ Read(new, v \in {None, 0})
    BY <1>1, AtOption DEF Seconds
  <2>2. new \in Fields
    <3>1. v \in Nat => [exp EXCEPT !.seconds = v] \in Fields
      BY <2>1 DEF Fields
    <3>2. \A x \in Fields : [x EXCEPT !.iterations = 0] \in Fields
      BY DEF Fields
    <3>3. [exp EXCEPT !.seconds = v, !.iterations = 0]
            = [[exp EXCEPT !.seconds = v] EXCEPT !.iterations = 0]
      BY <2>1 DEF Fields
    <3> QED  BY <2>1, <3>1, <3>2, <3>3
  <2>3. v \in {None, 0} \/ Sound(new)
    BY <2>1 DEF Fields, Sound, None
  <2> QED  BY <2>1, <2>2, <2>3, ReadKeeps
<1>2. CASE Iterations(v)
  <2> DEFINE new == IF v = None THEN exp ELSE [exp EXCEPT !.iterations = v, !.seconds = 0]
  <2>1. exp \in Fields /\ Sound(exp) /\ Read(new, v \in {None, 0})
    BY <1>2, AtOption DEF Iterations
  <2>2. new \in Fields
    <3>1. v \in Nat => [exp EXCEPT !.iterations = v] \in Fields
      BY <2>1 DEF Fields
    <3>2. \A x \in Fields : [x EXCEPT !.seconds = 0] \in Fields
      BY DEF Fields
    <3>3. [exp EXCEPT !.iterations = v, !.seconds = 0]
            = [[exp EXCEPT !.iterations = v] EXCEPT !.seconds = 0]
      BY <2>1 DEF Fields
    <3> QED  BY <2>1, <3>1, <3>2, <3>3
  <2>3. v \in {None, 0} \/ Sound(new)
    BY <2>1 DEF Fields, Sound, None
  <2> QED  BY <2>1, <2>2, <2>3, ReadKeeps
<1>3. CASE Loop(v)
  <2> DEFINE new == IF v = None THEN exp ELSE [exp EXCEPT !.loop = v]
             bad == v = None \/ exp.experiments = 0
  <2>1. exp \in Fields /\ Sound(exp) /\ Read(new, bad)
    BY <1>3, AtOption DEF Loop
  <2>2. new \in Fields /\ Sound(new)
    BY <2>1 DEF Fields, Sound, None
  <2> QED  BY <2>1, <2>2, ReadKeeps
<1> QED  BY <1>1, <1>2, <1>3

LEMMA WordStep ==
  ASSUME Inv, NEW w, NEW name \in {"prefetch", "operation", "output"}, Word(name, w)
  PROVE  Inv'
<1> DEFINE new == IF w \in Words[name] THEN [exp EXCEPT ![name] = w] ELSE exp
           bad == w \notin Words[name]
<1>1. exp \in Fields /\ Sound(exp) /\ Read(new, bad)
  BY AtOption DEF Word
<1>2. new \in Fields
  BY <1>1 DEF Fields, Words
<1>3. Sound(new)
  BY <1>1 DEF Fields, Sound
<1> QED  BY <1>1, <1>2, <1>3, ReadKeeps

LEMMA AccessStep ==
  ASSUME Inv, NEW v \in Nat \cup {None}, NEW sign \in {1, -1}, AccessStrided(sign, v)
  PROVE  Inv'
<1> DEFINE new == [exp EXCEPT !.pattern = "strided", !.stride = IF v = None THEN @ ELSE sign * v]
<1>1. exp \in Fields /\ Sound(exp) /\ Read(new, v \in {None, 0})
  BY AtOption DEF AccessStrided
<1>2. v \in Nat => sign * v \in Int /\ (v # 0 => sign * v # 0)
  OBVIOUS
<1>3. new \in Fields
  BY <1>1, <1>2 DEF Fields, None
<1>4. v \in {None, 0} \/ Sound(new)
  BY <1>1, <1>2 DEF Fields, Sound, None
<1> QED  BY <1>1, <1>3, <1>4, ReadKeeps

LEMMA NumaStep ==
  ASSUME Inv, NEW v \in Nat \cup {None}, NEW kind \in {"xor", "add"}, NumaOperand(kind, v)
  PROVE  Inv'
<1> DEFINE new == [exp EXCEPT !.numa = kind, !.operand = IF v = None THEN @ ELSE v]
<1>1. exp \in Fields /\ Sound(exp) /\ Read(new, v = None)
  BY AtOption DEF NumaOperand
<1>2. new \in Fields /\ Sound(new)
  BY <1>1 DEF Fields, Sound, None
<1> QED  BY <1>1, <1>2, ReadKeeps

LEMMA MapStep ==
  ASSUME Inv, NEW missing \in BOOLEAN, NumaMap(missing)
  PROVE  Inv'
<1> DEFINE new == [exp EXCEPT !.numa = "map", !.map = @ \/ ~missing]
<1>1. exp \in Fields /\ Sound(exp) /\ Read(new, missing)
  BY AtOption DEF NumaMap
<1>2. new \in Fields
  BY <1>1 DEF Fields
<1>3. missing \/ Sound(new)
  BY <1>1 DEF Fields, Sound
<1> QED  BY <1>1, <1>2, <1>3, ReadKeeps

(* The options without an argument, and those that are in error.           *)
LEMMA PlainStep ==
  ASSUME Inv, Strict \/ Unknown \/ AccessRandom \/ AccessUnknown \/ NumaLocal \/ NumaUnknown
  PROVE  Inv'
<1>1. CASE Unknown \/ AccessUnknown \/ NumaUnknown
  BY <1>1, AtOption, ReadKeeps DEF Unknown, AccessUnknown, NumaUnknown
<1>2. ASSUME NEW new, Read(new, FALSE),
             new \in {[exp EXCEPT !.strict = TRUE], [exp EXCEPT !.pattern = "random"],
                      [exp EXCEPT !.numa = "local"]}
      PROVE  Inv'
  <2>1. exp \in Fields /\ Sound(exp)
    BY <1>2, AtOption
  <2>2. new \in Fields /\ Sound(new)
    BY <1>2, <2>1 DEF Fields, Sound
  <2> QED  BY <1>2, <2>2, ReadKeeps
<1> QED  BY <1>1, <1>2 DEF Strict, AccessRandom, NumaLocal

-----------------------------------------------------------------------------
LEMMA ComputeSizesStep ==
  ASSUME Inv, ComputeSizes PROVE Inv'
<1> DEFINE lines == RoundedUp(exp.page, exp.line)
           page == exp.line * lines
           pages == RoundedUp(exp.chain, page)
<1>1. /\ exp \in Fields /\ Sound(exp) /\ phase' = "ready"
      /\ UNCHANGED <<given, exp, asked>>
      /\ geo' = [lines |-> lines, pages |-> pages, page |-> page, chain |-> page * pages,
                 test |-> page * pages * exp.references * exp.threads,
                 links |-> lines * pages * LinksPerLine]
  BY DEF Inv, TypeInv, SoundInv, Going, ComputeSizes
<1>2. /\ exp.page \in Nat \ {0} /\ exp.line \in Nat \ {0} /\ exp.chain \in Nat \ {0}
      /\ exp.references \in Nat /\ exp.threads \in Nat
  BY <1>1 DEF Fields, Sound
<1>3. lines \in Nat /\ page \in Nat \ {0}
  BY <1>2, RoundedUpFewest
<1> HIDE DEF lines, page
<1>4. pages \in Nat
  BY <1>2, <1>3, RoundedUpFewest
<1> HIDE DEF pages
<1>5. LinksPerLine \in Nat
  BY <1>2 DEF LinksPerLine, PointerSize
<1>6. /\ page * pages \in Nat /\ page * pages * exp.references * exp.threads \in Nat
      /\ lines * pages * LinksPerLine \in Nat
  BY <1>2, <1>3, <1>4, <1>5
<1>7. geo' \in Sized
  BY <1>1, <1>3, <1>4, <1>6 DEF Sized
<1>8. SizesInv'
  BY <1>1 DEF SizesInv, lines, page, pages, LinksPerLine
<1> QED  BY <1>1, <1>7, <1>8 DEF Inv, TypeInv, SoundInv

LEMMA StepInv == Inv /\ [Next]_vars => Inv'
<1> SUFFICES ASSUME Inv, [Next]_vars PROVE Inv'
  OBVIOUS
<1>1. Sizes \cup {None} \subseteq Nat \cup {None} /\ Amounts \subseteq Nat \cup {None}
  BY ArgumentsAssumption DEF Amounts
<1>2. CASE OneOption
  <2>1. CASE Help
    <3>1. /\ UNCHANGED <<phase, exp, geo>> /\ asked' = TRUE /\ given' \in 0 .. MaxOptions
      BY <2>1, ArgumentsAssumption DEF Help, Inv, TypeInv
    <3> QED  BY <3>1 DEF Inv, TypeInv, SoundInv, SizesInv, Going, LinksPerLine
  <2>2. CASE Strict \/ Unknown \/ AccessRandom \/ AccessUnknown \/ NumaLocal \/ NumaUnknown
    BY <2>2, PlainStep
  <2>3. CASE \/ \E name \in {"line", "page", "chain"} : \E v \in Sizes \cup {None} : Number(name, v)
             \/ \E name \in {"references", "threads", "experiments"} : \E v \in Amounts : Number(name, v)
    BY <1>1, <2>3, NumberStep
  <2>4. CASE \E v \in Amounts : Seconds(v) \/ Iterations(v) \/ Loop(v)
    BY <1>1, <2>4, LengthStep
  <2>5. CASE \/ \E w \in Words.prefetch \cup {"?"} : Prefetch(w)
             \/ \E w \in Words.operation \cup {"?"} : Operation(w)
             \/ \E w \in Words.output \cup {"?"} : OutputMode(w)
    <3>1. \E w : Word("prefetch", w) \/ Word("operation", w) \/ Word("output", w)
      BY <2>5, Zenon DEF Prefetch, Operation, OutputMode
    <3> QED  BY <3>1, WordStep
  <2>6. CASE \E sign \in {1, -1} : \E v \in Amounts : AccessStrided(sign, v)
    BY <1>1, <2>6, AccessStep
  <2>7. CASE \E kind \in {"xor", "add"} : \E v \in Amounts : NumaOperand(kind, v)
    BY <1>1, <2>7, NumaStep
  <2>8. CASE \E missing \in BOOLEAN : NumaMap(missing)
    BY <2>8, MapStep
  <2> QED
    BY <1>2, <2>1, <2>2, <2>3, <2>4, <2>5, <2>6, <2>7, <2>8, Zenon DEF OneOption
<1>3. CASE EndOfOptions
  BY <1>3 DEF EndOfOptions, Inv, TypeInv, SoundInv, SizesInv, Going
<1>4. CASE ComputeSizes
  BY <1>4, ComputeSizesStep
<1>5. CASE UNCHANGED vars
  BY <1>5 DEF vars, Inv, TypeInv, SoundInv, SizesInv, Going, LinksPerLine
<1> QED  BY <1>2, <1>3, <1>4, <1>5 DEF Next, Returned

-----------------------------------------------------------------------------
(* Theorems                                                                *)

LEMMA OptionsInvariant == Spec => []Inv
  BY InitInv, StepInv, PTL DEF Spec

(* Every field has its type after any sequence of options; the hint, the   *)
(* operation and the format are among those the options name.              *)
THEOREM TypeCorrect == Spec => []TypeOK
<1>1. ASSUME Inv PROVE TypeOK
  <2>1. TypeInv
    BY <1>1 DEF Inv
  <2>2. \A name \in {"line", "page", "chain", "references", "threads",
                     "experiments", "loop", "seconds", "iterations", "operand"} :
          exp[name] \in Nat
    BY <2>1 DEF TypeInv, Fields
  <2>3. \A name \in DOMAIN Words : exp[name] \in Words[name]
    BY <2>1 DEF TypeInv, Fields, Words
  <2>4. exp.map \in BOOLEAN /\ exp.strict \in BOOLEAN /\ asked \in BOOLEAN
    BY <2>1, Zenon DEF TypeInv, Fields
  <2>5. \A name \in DOMAIN geo : geo[name] \in Nat
    BY <2>1 DEF TypeInv, Sized
  <2>6. /\ exp.stride \in Int /\ exp.pattern \in {"random", "strided"}
        /\ exp.numa \in {"local", "xor", "add", "map"}
    BY <2>1 DEF TypeInv, Fields
  <2> QED  BY <2>1, <2>2, <2>3, <2>4, <2>5, <2>6, Zenon DEF TypeOK, TypeInv
<1> QED  BY <1>1, OptionsInvariant, PTL

(* However often and in whatever order -i and -s are given, exactly one of *)
(* them determines the length of an experiment.                            *)
THEOREM LengthIsGivenOnce == Spec => []OneLength
<1>1. Inv => OneLength
  BY DEF Inv, SoundInv, Going, Sound, OneLength
<1> QED  BY <1>1, OptionsInvariant, PTL

(* Nothing that Run::run() divides by or counts with is 0, and a placement *)
(* by map has a map.                                                       *)
THEOREM OptionsAreUsable == Spec => []Usable
<1>1. ASSUME Inv, phase = "ready"
      PROVE  /\ geo.lines >= 1 /\ geo.pages >= 1 /\ exp.stride # 0
             /\ exp.threads >= 1 /\ exp.references >= 1 /\ exp.experiments >= 1
             /\ exp.numa = "map" => exp.map
  <2>1. /\ exp.page \in Nat \ {0} /\ exp.line \in Nat \ {0} /\ exp.chain \in Nat \ {0}
        /\ Sound(exp)
    BY <1>1 DEF Inv, TypeInv, SoundInv, Going, Sound, Fields
  <2>2. geo.lines \in Nat \ {0}
    BY <1>1, <2>1, RoundedUpFewest DEF Inv, SizesInv
  <2>3. geo.page \in Nat \ {0}
    <3>1. exp.line * RoundedUp(exp.page, exp.line) \in Nat \ {0}
      <4>1. RoundedUp(exp.page, exp.line) \in Nat \ {0}
        BY <2>1, RoundedUpFewest
      <4>2. \A a, b \in Nat \ {0} : a * b \in Nat \ {0}
        OBVIOUS
      <4> QED  BY <2>1, <4>1, <4>2
    <3>2. geo.page = exp.line * RoundedUp(exp.page, exp.line)
      BY <1>1 DEF Inv, SizesInv
    <3> QED  BY <3>1, <3>2
  <2>4. geo.pages \in Nat \ {0}
    BY <1>1, <2>1, <2>3, RoundedUpFewest DEF Inv, SizesInv
  <2> QED  BY <2>1, <2>2, <2>4 DEF Sound
<1>2. Inv => Usable
  BY <1>1 DEF Usable
<1> QED  BY <1>2, OptionsInvariant, PTL

(* Page and chain are rounded up, by less than a line and less than a      *)
(* page, whatever sizes are asked for.                                     *)
THEOREM SizesAreFewest == Spec => []FewestUnits
<1>1. ASSUME Inv, phase = "ready"
      PROVE  /\ geo.page % exp.line = 0 /\ geo.chain % geo.page = 0
             /\ geo.page >= exp.page /\ geo.page - exp.line < exp.page
             /\ geo.chain >= exp.chain /\ geo.chain - geo.page < exp.chain
  <2>1. exp.page \in Nat \ {0} /\ exp.line \in Nat \ {0} /\ exp.chain \in Nat \ {0}
    BY <1>1 DEF Inv, TypeInv, SoundInv, Going, Sound, Fields
  <2>2. /\ geo.page \in Nat \ {0} /\ geo.page % exp.line = 0
        /\ geo.page >= exp.page /\ geo.page - exp.line < exp.page
    BY <1>1, <2>1, RoundedUpFewest DEF Inv, SizesInv
  <2>3. /\ geo.chain % geo.page = 0
        /\ geo.chain >= exp.chain /\ geo.chain - geo.page < exp.chain
    BY <1>1, <2>1, <2>2, RoundedUpFewest DEF Inv, SizesInv
  <2> QED  BY <2>2, <2>3
<1>2. Inv => FewestUnits
  BY <1>1 DEF FewestUnits
<1> QED  BY <1>2, OptionsInvariant, PTL

(* The memory allocated for a chain never exceeds its printed size, and is *)
(* exactly that if a line holds a whole number of links.                   *)
THEOREM AllocationsFit == Spec => []AllocationFits
<1>1. ASSUME Inv, phase = "ready"
      PROVE  /\ geo.links * PointerSize <= geo.chain
             /\ exp.line % PointerSize = 0 => geo.links * PointerSize = geo.chain
  <2> DEFINE k == exp.line \div 16
             n == geo.lines * geo.pages
  <2>1. exp.line \in Nat /\ geo.lines \in Nat /\ geo.pages \in Nat /\ geo.page \in Nat
    BY <1>1 DEF Inv, TypeInv, Fields, Sized
  <2>2. k \in Nat /\ k * 16 <= exp.line /\ (exp.line % 16 = 0 => k * 16 = exp.line)
    BY <2>1
  <2>3. geo.links = geo.lines * geo.pages * k /\ geo.chain = (exp.line * geo.lines) * geo.pages
    BY <1>1 DEF Inv, SizesInv, LinksPerLine, PointerSize
  <2>4. n \in Nat
    BY <2>1
  <2> HIDE DEF k
  <2>5. geo.links * 16 = n * (k * 16) /\ geo.chain = n * exp.line
    BY <2>1, <2>2, <2>3
  <2> HIDE DEF n
  <2>6. n * (k * 16) <= n * exp.line
    <3>1. \A a, b \in Nat : a <= b => n * a <= n * b
      BY <2>4
    <3>2. k * 16 \in Nat
      BY <2>2
    <3> QED  BY <2>1, <2>2, <3>1, <3>2
  <2> QED  BY <2>2, <2>5, <2>6 DEF PointerSize
<1>2. Inv => AllocationFits
  BY <1>1 DEF AllocationFits
<1> QED  BY <1>2, OptionsInvariant, PTL
=============================================================================
