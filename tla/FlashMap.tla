------------------------------ MODULE FlashMap ------------------------------
(***************************************************************************)
(* Configurations of the flash and what they mean, without any state: the  *)
(* ranges of the partitions section and which partition owns which page.   *)
(* A configuration is a record of the geometry the kernel reports          *)
(* (sectors = flash_sectors_cnt, pagesPerSector), the names of the         *)
(* pipelines section in order, and the partitions section in order.        *)
(***************************************************************************)
EXTENDS Naturals, Sequences

CONSTANT UMax        \* UINT64_MAX, also the length of a range left out

ASSUME UMaxAssumption == UMax \in Nat \ {0}

(***************************************************************************)
(* What parse_bare_range_object and add_partition produce.  A JSON integer *)
(* is a signed 64-bit value and negative ones are refused, so a range that *)
(* is given has both fields at most IMax; one that is left out starts at 0 *)
(* with the length UMax.                                                   *)
(***************************************************************************)
IMax == UMax \div 2

Absent == [start |-> 0, length |-> UMax]

CfgRange == [start : 0 .. IMax, length : 0 .. IMax] \cup {Absent}

Range64 == [start : 0 .. UMax, length : 0 .. UMax]

NACK == 0            \* AUTOMATIC_NACK_PIPELINE_INDEX

(***************************************************************************)
(* A range that the configuration leaves out has the length UMax and       *)
(* stands for everything from its start to the limit.                      *)
(***************************************************************************)
Resolve(r, limit) ==
  IF r.length = UMax THEN [start |-> r.start, length |-> limit - r.start] ELSE r

Holds(r, x) == r.start <= x /\ x < r.start + r.length

Fits(r, limit) == r.length > 0 /\ r.start + r.length <= limit

Owns(c, i, e, p) ==
  /\ Holds(Resolve(c.partitions[i].eraseblocks, c.sectors), e)
  /\ Holds(Resolve(c.partitions[i].pages, c.pagesPerSector), p)

(* A pipeline's index is its 1-based position in the configuration. *)
PipelineIdx(c, name) == CHOOSE k \in DOMAIN c.pipelines : c.pipelines[k] = name

Owner(c, e, p) ==
  IF \E i \in DOMAIN c.partitions : Owns(c, i, e, p)
  THEN PipelineIdx(c, c.partitions[CHOOSE i \in DOMAIN c.partitions : Owns(c, i, e, p)].pipeline)
  ELSE NACK

Inside(c) ==
  \A i \in DOMAIN c.partitions :
    /\ Fits(Resolve(c.partitions[i].eraseblocks, c.sectors), c.sectors)
    /\ Fits(Resolve(c.partitions[i].pages, c.pagesPerSector), c.pagesPerSector)

Disjoint(c) ==
  \A e \in 0 .. c.sectors - 1, p \in 0 .. c.pagesPerSector - 1 :
    \A i, j \in DOMAIN c.partitions : Owns(c, i, e, p) /\ Owns(c, j, e, p) => i = j

(* Every page range lies inside an eraseblock; nothing in the code checks it. *)
PagesFit(c) ==
  \A i \in DOMAIN c.partitions :
    LET r == Resolve(c.partitions[i].pages, c.pagesPerSector)
    IN r.start + r.length <= c.pagesPerSector
=============================================================================
