---------------------------- MODULE MCPlacement ----------------------------
(* Requests and machines for TLC.                                          *)
EXTENDS Setup

Sep(s) == [kind |-> s, value |-> 0]
Num(n) == [kind |-> "num", value |-> n]

Formulas ==
  [kind : {"local", "xor", "add"}, threads : 1 .. 4, chains : 1 .. 2,
   operand : 0 .. 5, map : {<< >>}]

MapRequest(m) ==
  [kind |-> "map", threads |-> 3, chains |-> 1, operand |-> 0, map |-> m]

(* Well-formed maps: domains 0 .. 4 for one thread, 0 and 4 for two; and   *)
(* numbers for one thread that do not fit an int of four bits (MaxInt 7).  *)
OneThread == {<<Num(a), Sep("colon"), Num(b)>> : a, b \in (0 .. 4) \cup {7, 8, 15, 16}}
Descriptors ==
  OneThread \cup {<<Num(a), Sep("colon"), Num(b), Sep("comma"), Num(d)>> : a, b, d \in {0, 4}}
TwoThreads ==
  {<<a, b>> \in Descriptors \X Descriptors : a[1].value \in {0, 4} /\ a[3].value \in {0, 4}}

(* Every short sequence, in which two numbers are never neighbours.        *)
Tokens == {Num(4), Sep("colon"), Sep("comma"), Sep("semicolon")}
Short ==
  {m \in UNION {[1 .. n -> Tokens] : n \in 0 .. 6} :
     \A q \in 1 .. Len(m) - 1 : m[q].kind # "num" \/ m[q + 1].kind # "num"}

(* Maps of two descriptors, with the same number of chains or not.         *)
Maps == Descriptors \cup Short \cup {d[1] \o <<Sep("semicolon")>> \o d[2] : d \in TwoThreads}

(* Two CPUs in each domain but the last, which has only memory.            *)
TwoCpusEach == [d \in Upto(Domains) |-> IF d = Domains - 1 THEN {} ELSE {2 * d, 2 * d + 1}]

(* All CPUs online, and some of them; more CPUs than a small set holds, a  *)
(* gap, and no CPU 0.                                                      *)
SomeCpusets == {0 .. 5, {0, 1, 3}}
SomeMasks == {0 .. 5, {0, 1, 3}, {1, 2}}

MapRequests == {MapRequest(m) : m \in Descriptors}

AllRequests == Formulas \cup {MapRequest(m) : m \in Maps}
=============================================================================
