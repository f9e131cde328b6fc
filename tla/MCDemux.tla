------------------------------ MODULE MCDemux ------------------------------
(* Instances of Demux for TLC: small geometries and partition sections.     *)
EXTENDS Demux

MCNames == {"a", "b", "c", "x"}

R(s, l) == [start |-> s, length |-> l]

Part(n, pl, e, p) == [name |-> n, pipeline |-> pl, eraseblocks |-> e, pages |-> p]

Cfg(s, p, pls, ps) ==
  [sectors |-> s, pagesPerSector |-> p, pipelines |-> pls, partitions |-> ps]

EbRanges == {Absent, R(0, 1), R(0, 2), R(1, 1), R(1, 2)}
PgRanges == {Absent, R(0, 1), R(1, 1)}

(* Two partitions whose page ranges fit, on three geometries. *)
FittingPairs ==
  {Cfg(s, 2, <<"a", "b">>, <<Part("a", "a", e1, p1), Part("b", pl, e2, p2)>>) :
     s \in {2, 3}, pl \in {"a", "b"},
     e1 \in EbRanges, p1 \in PgRanges, e2 \in EbRanges, p2 \in PgRanges}

(* Sections that are refused early, whole-device partitions, and an array   *)
(* whose size is beyond the width of the arithmetic.                       *)
FittingOdd ==
  {Cfg(2, 2, <<>>, <<Part("a", "a", Absent, Absent)>>),
   Cfg(2, 2, <<"a", "b", "x">>, <<Part("a", "a", Absent, Absent)>>),
   Cfg(2, 2, <<"a", "b", "x", "c">>, <<Part("a", "c", Absent, Absent)>>),
   Cfg(2, 2, <<"a", "a">>, <<Part("a", "a", Absent, Absent)>>),
   Cfg(2, 2, <<"a", "b">>, <<>>),
   Cfg(2, 2, <<"a", "b">>, <<Part("a", "x", Absent, Absent)>>),
   Cfg(2, 2, <<"a", "b">>, <<Part("a", "b", Absent, Absent)>>),
   Cfg(2, 2, <<"a", "b">>, <<Part("a", "a", R(0, 1), Absent), Part("a", "b", R(1, 1), Absent)>>),
   Cfg(3, 2, <<"a", "b">>, <<Part("a", "a", R(0, 1), Absent), Part("b", "b", R(1, 0), Absent)>>),
   Cfg(3, 3, <<"a", "b">>, <<Part("a", "a", R(0, 2), R(0, 2)), Part("b", "b", R(0, 2), R(2, 1))>>),
   Cfg(3, 2, <<"a", "b">>,
       <<Part("a", "a", R(0, 1), R(0, 1)), Part("b", "b", R(0, 1), R(1, 1)),
         Part("x", "a", R(1, 1), Absent)>>)}

(* Partitions whose page range leaves the eraseblock. *)
LeavingConfigs ==
  {Cfg(s, 2, <<"a", "b">>, <<Part("a", "a", e1, p1), Part("b", "b", e2, p2)>>) :
     s \in {2, 3}, e1 \in {Absent, R(0, 1), R(0, 2), R(1, 1), R(2, 1)},
     p1 \in {Absent, R(0, 2), R(1, 2), R(2, 1), R(3, 1)},
     e2 \in {R(0, 1), R(1, 1), R(1, 2), R(2, 1)}, p2 \in {Absent, R(0, 1), R(1, 1), R(2, 1)}}

(***************************************************************************)
(* The ranges of configs/bch4-rs-nand-example.json, 1024 eraseblocks of 64 *)
(* pages, scaled to 4 of 3: the main image, one eraseblock of NVRAM, and a *)
(* last eraseblock that is shared between the main image and a reserved    *)
(* area.  Only the ranges are meant: with its codecs, of types that do not *)
(* exist, the file itself is refused before they are looked at.            *)
(***************************************************************************)
ExampleConfigs ==
  {Cfg(4, 3, <<"a", "b">>,
       <<Part("a", "a", R(0, 1), Absent), Part("b", "b", R(2, 1), Absent),
         Part("x", "a", R(3, 1), R(0, 1)), Part("c", "b", R(3, 1), R(2, 1))>>)}

MCConfigs == FittingPairs \cup FittingOdd \cup LeavingConfigs \cup ExampleConfigs
=============================================================================
