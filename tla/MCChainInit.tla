---------------------------- MODULE MCChainInit ----------------------------
(* Experiments for TLC.                                                    *)
EXTENDS Chase

RandomOf(Pages, LinesOf) ==
  [pages : Pages, lines : LinesOf, words : {2}, stride : {1},
   pattern : {"random"}, operation : {"none"}]
StridedOf(Pages, LinesOf, Words, Strides, Operations) ==
  [pages : Pages, lines : LinesOf, words : Words, stride : Strides,
   pattern : {"strided"}, operation : Operations]

(* No factor of the table below divides the pages or the lines.            *)
CoprimeGeometries == RandomOf(1 .. 3, 1 .. 4) \cup RandomOf({1, 2}, {6, 7})

(* Factors that share a divisor with the pages, the lines or both.         *)
AnyGeometries == RandomOf({1, 2, 5}, {1, 2}) \cup RandomOf({1, 2}, {5, 10})

(* Strides that do and do not divide the chain, and longer than it; lines  *)
(* of one link, of 24 bytes (one link and a half) and of 40 bytes, where   *)
(* three operands drift by less than a line and four by a line.            *)
StridedGeometries ==
  StridedOf(1 .. 2, 1 .. 5, {2, 3}, (-4 .. 4) \ {0}, {"load"})
    \cup StridedOf(1 .. 2, 1 .. 6, {2, 3, 5}, (-4 .. 4) \ {0}, {"load_all", "store_all"})

(* Two chains per thread, with and without factors that divide, and with   *)
(* stores that do and do not leave the chain.                              *)
Pairs ==
  RandomOf({1, 2}, {1, 2}) \cup RandomOf({1}, {4, 5}) \cup RandomOf({5}, {1})
    \cup StridedOf({1}, {2, 5}, {2}, {-2, 1, 2}, {"load"})
    \cup StridedOf({1}, {2, 3, 4}, {2, 3}, {-2, 2}, {"store", "store_all"})

(* A random chain with the stride of an earlier -a option.                 *)
RandomStores ==
  [pages : {1, 2}, lines : {2}, words : {2, 3}, stride : {2},
   pattern : {"random"}, operation : {"store", "load_all", "store_all"}]

AllGeometries ==
  CoprimeGeometries \cup AnyGeometries \cup StridedGeometries \cup Pairs \cup RandomStores

UnevenGeometries == StridedOf({1}, 1 .. 5, {2}, {-3, -2, 2, 3}, {"load_all", "store_all"})

FirstPrimes == {5, 11}
=============================================================================
