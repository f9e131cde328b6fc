------------------------------- MODULE Demux -------------------------------
(***************************************************************************)
(* How one worker thread turns the pipelines and partitions sections of    *)
(* the configuration into its pipeline selector (scheme.c, from            *)
(* initialize_pipelines to initialize_pipeline_selector) and how requests  *)
(* are then demultiplexed (select_pipeline in queues.c).                   *)
(*                                                                         *)
(* The three hash tables appear as functions.  hashmap_scan visits every   *)
(* entry once in an order that depends on the hash of the names: todo is   *)
(* the set of names a scan has still to visit, and any of them may be next.*)
(* Arithmetic is that of uint64_t, modulo UMax + 1.                        *)
(***************************************************************************)
EXTENDS FlashMap, FiniteSets

CONSTANTS Configs,    \* the configurations the daemon may be started with
          Names,      \* the strings that name pipelines and partitions
          IdxMax,     \* UINT16_MAX, the largest pipeline_index_t
          NoRequest   \* the value of sel before the first request

Config ==
  [sectors : 1 .. UMax, pagesPerSector : 1 .. UMax,
   pipelines : Seq(Names),
   partitions : Seq([name : Names, pipeline : Names,
                     eraseblocks : CfgRange, pages : CfgRange])]

ASSUME ConfigsAssumption == Configs \subseteq Config
ASSUME IdxMaxAssumption == IdxMax \in Nat \ {0}

VARIABLES
  cfg,        \* the configuration and the geometry, never changed
  pc,         \* where initialize_nand_pipeline_scheme is
  rc,         \* the ufedmd_rc_t of a refused configuration
  idx,        \* the loop counter over the section being added
  pipelines,  \* scheme->pipelines: name -> index in demux.pipelines
  parts,      \* scheme->partitions: name -> partition_t
  todo,       \* the entries of parts that the running scan has still to visit
  strategy,   \* which function demux.select points to
  single,     \* the index of demux._single_pipeline
  arr,        \* demux.arr, all NACK when calloc returns it
  overrun,    \* an element outside of demux.arr has been written
  sel         \* the last request and the pipeline it was handed to

vars == <<cfg, pc, rc, idx, pipelines, parts, todo, strategy, single, arr, overrun, sel>>

Empty == [x \in {} |-> NACK]

PCs == {"start", "pipelines", "partitions", "validate", "select", "fill",
        "ready", "failed", "crashed"}

Strategies == {"none", "single", "eraseblock", "page"}

RCs == {"SUCCESS", "HAS_NO_PIPELINES", "PIPELINE_INDEX_OVERFLOW", "PIPELINE_REJECTED",
        "HASHTABLE_HAS_EXISTING_ENTRY", "HAS_NO_PARTITIONS", "PIPELINE_NOT_FOUND",
        "ADDITION_WOULD_OVERFLOW", "PARTITION_BOUNDARY_VIOLATION",
        "MULTIPLICATION_WOULD_OVERFLOW", "OVERLAPPING_PARTITION_RANGES",
        "MEMORY_ALLOCATION_FAILED"}

Partition == [pipeline : 0 .. IdxMax, eraseblocks : Range64, pages : Range64]

U64(x) == x % (UMax + 1)

End(r) == U64(r.start + r.length)

(* Mutated: a sum that just fits is refused. *)
addition_u64_would_overflowEarly(r) == r.length >= UMax - r.start

addition_u64_would_overflow(r) == r.length > UMax - r.start

Init ==
  /\ cfg \in Configs
  /\ pc = "start" /\ rc = "SUCCESS" /\ idx = 1
  /\ pipelines = Empty /\ parts = Empty /\ todo = {}
  /\ strategy = "none" /\ single = NACK /\ arr = Empty /\ overrun = FALSE
  /\ sel = NoRequest

(* Every "goto" to an error exit: nothing of the scheme is used afterwards. *)
Fail(code) ==
  /\ pc' = "failed" /\ rc' = code
  /\ UNCHANGED <<cfg, idx, pipelines, parts, todo, strategy, single, arr, overrun, sel>>

-----------------------------------------------------------------------------
(* initialize_pipelines *)

(* Mutated: the bound is off by two. *)
TooManyPipelinesLate(c) == Len(c.pipelines) > IdxMax + 1

TooManyPipelines(c) == Len(c.pipelines) > IdxMax - 1

StartPipelines ==
  /\ pc = "start"
  /\ IF cfg.pipelines = <<>> THEN Fail("HAS_NO_PIPELINES")
     ELSE IF TooManyPipelines(cfg) THEN Fail("PIPELINE_INDEX_OVERFLOW")
     ELSE /\ pc' = "pipelines"
          /\ UNCHANGED <<cfg, rc, idx, pipelines, parts, todo, strategy, single, arr, overrun, sel>>

(* create_pipeline_obj ends with obj->idx = idx, a pipeline_index_t. *)
AddPipeline ==
  /\ pc = "pipelines" /\ idx <= Len(cfg.pipelines)
  /\ LET name == cfg.pipelines[idx]
     IN IF name \in DOMAIN pipelines THEN Fail("HASHTABLE_HAS_EXISTING_ENTRY")
        ELSE /\ pipelines' = [n \in DOMAIN pipelines \cup {name} |->
                                IF n = name THEN idx % (IdxMax + 1) ELSE pipelines[n]]
             /\ idx' = idx + 1
             /\ UNCHANGED <<cfg, pc, rc, parts, todo, strategy, single, arr, overrun, sel>>

(* create_pipeline_obj refuses the pipeline's layout, mappings or codecs. *)
RejectPipeline ==
  /\ pc = "pipelines" /\ idx <= Len(cfg.pipelines)
  /\ Fail("PIPELINE_REJECTED")

PipelinesDone ==
  /\ pc = "pipelines" /\ idx > Len(cfg.pipelines)
  /\ pc' = "partitions" /\ idx' = 1
  /\ UNCHANGED <<cfg, rc, pipelines, parts, todo, strategy, single, arr, overrun, sel>>

-----------------------------------------------------------------------------
(* initialize_partitions *)

(***************************************************************************)
(* add_partition_details tests the ranges that its argument holds before   *)
(* it assigns the new ones.  The argument is one stack object of the       *)
(* caller's loop: uninitialised for the first partition (either outcome),  *)
(* and holding the previous partition afterwards.                          *)
(***************************************************************************)
StaleRangeOverflows(i) ==
  IF i = 1 THEN BOOLEAN
  ELSE {\/ addition_u64_would_overflow(cfg.partitions[i - 1].eraseblocks)
        \/ addition_u64_would_overflow(cfg.partitions[i - 1].pages)}

AddPartition ==
  /\ pc = "partitions" /\ idx <= Len(cfg.partitions)
  /\ LET new == cfg.partitions[idx]
     IN IF new.pipeline \notin DOMAIN pipelines THEN Fail("PIPELINE_NOT_FOUND")
        ELSE \E overflows \in StaleRangeOverflows(idx) :
          IF overflows THEN Fail("ADDITION_WOULD_OVERFLOW")
          ELSE IF new.name \in DOMAIN parts THEN Fail("HASHTABLE_HAS_EXISTING_ENTRY")
          ELSE /\ parts' = [n \in DOMAIN parts \cup {new.name} |->
                              IF n = new.name
                              THEN [pipeline |-> pipelines[new.pipeline],
                                    eraseblocks |-> new.eraseblocks,
                                    pages |-> new.pages]
                              ELSE parts[n]]
               /\ idx' = idx + 1
               /\ UNCHANGED <<cfg, pc, rc, pipelines, todo, strategy, single, arr, overrun, sel>>

(* Mutated: the scan runs over the wrong table. *)
PartitionsDoneWrongTable ==
  /\ pc = "partitions" /\ idx > Len(cfg.partitions)
  /\ IF cfg.partitions = <<>> THEN Fail("HAS_NO_PARTITIONS")
     ELSE /\ pc' = "validate" /\ todo' = DOMAIN pipelines
          /\ UNCHANGED <<cfg, rc, idx, pipelines, parts, strategy, single, arr, overrun, sel>>

PartitionsDone ==
  /\ pc = "partitions" /\ idx > Len(cfg.partitions)
  /\ IF cfg.partitions = <<>> THEN Fail("HAS_NO_PARTITIONS")
     ELSE /\ pc' = "validate" /\ todo' = DOMAIN parts
          /\ UNCHANGED <<cfg, rc, idx, pipelines, parts, strategy, single, arr, overrun, sel>>

(* partition_range_fix_iter: the length of a range that was left out ... *)
Fixed(r, limit) ==
  IF r.length = UMax THEN [r EXCEPT !.length = U64(limit + UMax + 1 - r.start)] ELSE r

FixedPartition(part) ==
  [part EXCEPT !.eraseblocks = Fixed(part.eraseblocks, cfg.sectors),
               !.pages = Fixed(part.pages, cfg.pagesPerSector)]

(* Mutated: the length instead of the end is compared. *)
WithinLimitsLength(part) ==
  /\ U64(part.eraseblocks.start + part.pages.length) <= cfg.sectors
  /\ part.eraseblocks.length <= cfg.sectors

(* ... and its two comparisons, the first of which adds the pages' length   *)
(* to the eraseblocks' start.                                              *)
WithinLimits(part) ==
  /\ U64(part.eraseblocks.start + part.pages.length) <= cfg.sectors
  /\ End(part.eraseblocks) <= cfg.sectors

(* Mutated: the entry is not passed, the scan starts over. *)
ValidatePartitionAgain(n) ==
  /\ pc = "validate" /\ n \in todo
  /\ IF ~WithinLimits(FixedPartition(parts[n])) THEN Fail("PARTITION_BOUNDARY_VIOLATION")
     ELSE /\ parts' = [parts EXCEPT ![n] = FixedPartition(parts[n])]
          /\ UNCHANGED <<cfg, pc, rc, idx, pipelines, todo, strategy, single, arr, overrun, sel>>

ValidatePartition(n) ==
  /\ pc = "validate" /\ n \in todo
  /\ IF parts[n].eraseblocks.length = 0 \/ parts[n].pages.length = 0
     THEN Fail("PARTITION_BOUNDARY_VIOLATION")
     ELSE IF ~WithinLimits(FixedPartition(parts[n]))
     THEN Fail("PARTITION_BOUNDARY_VIOLATION")
     ELSE /\ parts' = [parts EXCEPT ![n] = FixedPartition(parts[n])]
          /\ todo' = todo \ {n}
          /\ UNCHANGED <<cfg, pc, rc, idx, pipelines, strategy, single, arr, overrun, sel>>

ValidateDone ==
  /\ pc = "validate" /\ todo = {}
  /\ pc' = "select"
  /\ UNCHANGED <<cfg, rc, idx, pipelines, parts, todo, strategy, single, arr, overrun, sel>>

-----------------------------------------------------------------------------
(* initialize_pipeline_selector *)

SpansEraseblock(part) ==
  part.pages.start = 0 /\ End(part.pages) = cfg.pagesPerSector

SpansMtd(part) ==
  /\ part.eraseblocks.start = 0 /\ End(part.eraseblocks) = cfg.sectors
  /\ SpansEraseblock(part)

SingleSpanning == Cardinality(DOMAIN parts) = 1 /\ \A n \in DOMAIN parts : SpansMtd(parts[n])

(* Mutated: one partition of whole eraseblocks is enough. *)
SomePerEraseblock == \E n \in DOMAIN parts : SpansEraseblock(parts[n])

PerEraseblock == \A n \in DOMAIN parts : SpansEraseblock(parts[n])

SelectSingle ==
  /\ pc = "select" /\ SingleSpanning
  /\ pc' = "ready" /\ strategy' = "single"
  /\ single' = parts[CHOOSE n \in DOMAIN parts : TRUE].pipeline
  /\ UNCHANGED <<cfg, rc, idx, pipelines, parts, todo, arr, overrun, sel>>

SelectPerEraseblock ==
  /\ pc = "select" /\ ~SingleSpanning /\ PerEraseblock
  /\ pc' = "fill" /\ strategy' = "eraseblock" /\ todo' = DOMAIN parts
  /\ arr' = [k \in 0 .. cfg.sectors - 1 |-> NACK]
  /\ UNCHANGED <<cfg, rc, idx, pipelines, parts, single, overrun, sel>>

SelectPerPage ==
  /\ pc = "select" /\ ~SingleSpanning /\ ~PerEraseblock
  /\ IF cfg.pagesPerSector * cfg.sectors > UMax
     THEN Fail("MULTIPLICATION_WOULD_OVERFLOW")
     ELSE /\ pc' = "fill" /\ strategy' = "page" /\ todo' = DOMAIN parts
          /\ arr' = [k \in 0 .. cfg.sectors * cfg.pagesPerSector - 1 |-> NACK]
          /\ UNCHANGED <<cfg, rc, idx, pipelines, parts, single, overrun, sel>>

(* Mutated: rows and columns exchanged. *)
CellTransposed(e, p) == IF strategy = "page" THEN p * cfg.sectors + e ELSE e

(***************************************************************************)
(* The two set_partition_pipeline_on_array callbacks walk the eraseblocks  *)
(* (and, per page, the pages of each) of one partition in order, stop at   *)
(* an element that is not NACK, and write the partition's pipeline index   *)
(* to it otherwise.  Cell is the element a step of the walk looks at.      *)
(***************************************************************************)
Cell(e, p) == IF strategy = "page" THEN e * cfg.pagesPerSector + p ELSE e

(* Mutated: the walk includes the end. *)
EraseblocksInclusive(part) ==
  {e \in 0 .. UMax : part.eraseblocks.start <= e /\ e <= End(part.eraseblocks)}

Eraseblocks(part) ==
  {e \in 0 .. UMax : part.eraseblocks.start <= e /\ e < End(part.eraseblocks)}

(* Mutated: the walk includes the end. *)
PagesInclusive(part) ==
  IF strategy = "page" THEN {p \in 0 .. UMax : part.pages.start <= p /\ p <= End(part.pages)}
  ELSE {0}

Pages(part) ==
  IF strategy = "page" THEN {p \in 0 .. UMax : part.pages.start <= p /\ p < End(part.pages)}
  ELSE {0}

Walk(part) == Eraseblocks(part) \X Pages(part)

Earlier(v, w) == v[1] < w[1] \/ (v[1] = w[1] /\ v[2] < w[2])

(* Mutated: another partition of the same pipeline is not noticed. *)
ClashesOtherPipeline(part, v) ==
  /\ Cell(v[1], v[2]) \in DOMAIN arr
  /\ arr[Cell(v[1], v[2])] \notin {NACK, part.pipeline}

(* Mutated: only the first eraseblock is tested. *)
ClashesAtStart(part, v) ==
  /\ v[1] = part.eraseblocks.start /\ Cell(v[1], v[2]) \in DOMAIN arr
  /\ arr[Cell(v[1], v[2])] # NACK

(* The step v of the walk finds its element taken, by another partition or  *)
(* by an earlier step of the same walk.                                    *)
Clashes(part, v) ==
  \/ Cell(v[1], v[2]) \in DOMAIN arr /\ arr[Cell(v[1], v[2])] # NACK
  \/ \E w \in Walk(part) : Earlier(w, v) /\ Cell(w[1], w[2]) = Cell(v[1], v[2])

Stray(v) == Cell(v[1], v[2]) \notin DOMAIN arr

(* The walk leaves the array before it finds a taken element. *)
ReachesStray(part) ==
  \E v \in Walk(part) :
    /\ Stray(v)
    /\ \A w \in Walk(part) : (w = v \/ Earlier(w, v)) => ~Clashes(part, w)

FillPartition(n) ==
  /\ pc = "fill" /\ n \in todo
  /\ \A v \in Walk(parts[n]) : ~Clashes(parts[n], v)
  /\ arr' = [k \in DOMAIN arr |->
               IF \E v \in Walk(parts[n]) : Cell(v[1], v[2]) = k
               THEN parts[n].pipeline ELSE arr[k]]
  /\ todo' = todo \ {n}
  /\ overrun' = (overrun \/ ReachesStray(parts[n]))
  /\ UNCHANGED <<cfg, pc, rc, idx, pipelines, parts, strategy, single, sel>>

(* The callback returns false, and the array is freed.  Memory behind the  *)
(* array may look taken too.                                               *)
FillClash(n) ==
  /\ pc = "fill" /\ n \in todo
  /\ (\E v \in Walk(parts[n]) : Clashes(parts[n], v)) \/ ReachesStray(parts[n])
  /\ pc' = "failed" /\ rc' = "OVERLAPPING_PARTITION_RANGES"
  /\ overrun' \in {overrun, overrun \/ ReachesStray(parts[n])}
  /\ UNCHANGED <<cfg, idx, pipelines, parts, todo, strategy, single, arr, sel>>

(* The access behind the array faults. *)
FillFault(n) ==
  /\ pc = "fill" /\ n \in todo /\ ReachesStray(parts[n])
  /\ pc' = "crashed"
  /\ overrun' = TRUE
  /\ UNCHANGED <<cfg, rc, idx, pipelines, parts, todo, strategy, single, arr, sel>>

FillDone ==
  /\ pc = "fill" /\ todo = {}
  /\ pc' = "ready"
  /\ UNCHANGED <<cfg, rc, idx, pipelines, parts, todo, strategy, single, arr, overrun, sel>>

(* Any of the allocations on the way returns NULL. *)
OutOfMemory ==
  /\ \/ pc = "pipelines" /\ idx <= Len(cfg.pipelines)
     \/ pc = "partitions" /\ idx <= Len(cfg.partitions)
     \/ pc = "select" /\ ~SingleSpanning
                      /\ (PerEraseblock \/ cfg.pagesPerSector * cfg.sectors <= UMax)
  /\ Fail("MEMORY_ALLOCATION_FAILED")

-----------------------------------------------------------------------------
(* select_pipeline and the three functions demux.select may point to *)

select(e, p) == CASE strategy = "single" -> single
                  [] strategy = "eraseblock" -> arr[e]
                  [] strategy = "page" -> arr[cfg.pagesPerSector * e + p]

select_pipeline(e, p) ==
  /\ pc = "ready"
  /\ sel' = [eraseblock |-> e, page |-> p, pipeline |-> select(e, p)]
  /\ UNCHANGED <<cfg, pc, rc, idx, pipelines, parts, todo, strategy, single, arr, overrun>>

Initialize ==
  \/ StartPipelines \/ AddPipeline \/ RejectPipeline \/ PipelinesDone
  \/ AddPartition \/ PartitionsDone
  \/ \E n \in todo : ValidatePartition(n)
  \/ ValidateDone
  \/ SelectSingle \/ SelectPerEraseblock \/ SelectPerPage
  \/ \E n \in todo : FillPartition(n) \/ FillClash(n) \/ FillFault(n)
  \/ FillDone
  \/ OutOfMemory

Next ==
  \/ Initialize
  \/ \E e \in 0 .. cfg.sectors - 1, p \in 0 .. cfg.pagesPerSector - 1 : select_pipeline(e, p)

Spec == Init /\ [][Next]_vars

(* The thread that runs initialize_nand_pipeline_scheme never blocks. *)
FairSpec == Spec /\ WF_vars(Initialize)
-----------------------------------------------------------------------------
(* Properties *)

TypeOK ==
  /\ cfg \in Config
  /\ pc \in PCs /\ rc \in RCs /\ idx \in Nat \ {0}
  /\ DOMAIN pipelines \subseteq Names /\ pipelines \in [DOMAIN pipelines -> 0 .. IdxMax]
  /\ DOMAIN parts \subseteq Names /\ parts \in [DOMAIN parts -> Partition]
  /\ todo \subseteq DOMAIN parts
  /\ strategy \in Strategies /\ single \in 0 .. IdxMax
  /\ DOMAIN arr \subseteq Nat /\ arr \in [DOMAIN arr -> 0 .. IdxMax]
  /\ overrun \in BOOLEAN

Geometry == (0 .. cfg.sectors - 1) \X (0 .. cfg.pagesPerSector - 1)

(***************************************************************************)
(* "We verify that there are no overlapping partitions" (scheme.c:1882):   *)
(* whatever the order of the scans and whichever strategy was chosen, a    *)
(* thread that starts serving has partitions that share no page.           *)
(***************************************************************************)
NoSharedPage == pc = "ready" => Disjoint(cfg)

(* A serving thread hands every page that a configured partition contains  *)
(* to the pipeline that this partition names, under every strategy.        *)
OwnedPagesReachOwner ==
  pc = "ready" =>
    \A v \in Geometry : \A i \in DOMAIN cfg.partitions :
      Owns(cfg, i, v[1], v[2]) =>
        select(v[1], v[2]) = PipelineIdx(cfg, cfg.partitions[i].pipeline)

(* A page outside of every partition goes to the automatic NACK pipeline,  *)
(* provided the configured page ranges lie inside an eraseblock (nothing   *)
(* in the code establishes that, see BoundaryTestExact).                   *)
UnownedPagesNacked ==
  pc = "ready" /\ PagesFit(cfg) =>
    \A v \in Geometry :
      (\A i \in DOMAIN cfg.partitions : ~Owns(cfg, i, v[1], v[2])) =>
        select(v[1], v[2]) = NACK

(* Under the same proviso no callback leaves demux.arr. *)
NoOverrun == PagesFit(cfg) => ~overrun /\ pc # "crashed"

(* Partitions that share no page are never refused as overlapping, in      *)
(* whatever order the scan meets them.                                     *)
OverlapJustified ==
  rc = "OVERLAPPING_PARTITION_RANGES" /\ PagesFit(cfg) => ~Disjoint(cfg)

(* The overflow tests look at the ranges of the partition before, but no   *)
(* range of a configuration file wraps: only for the first partition,      *)
(* whose tests read an uninitialised object, a configuration is refused.   *)
StaleRangesHarmless == rc = "ADDITION_WOULD_OVERFLOW" => idx = 1 /\ parts = Empty

(* No configured pipeline gets the index of the NACK pipeline or the index *)
(* of another one: else its partitions would look free to the overlap test.*)
IndicesDistinct ==
  \A m, n \in DOMAIN pipelines :
    pipelines[n] # NACK /\ (pipelines[m] = pipelines[n] => m = n)

-----------------------------------------------------------------------------
(* The inductive invariant behind IndicesDistinct, NoSharedPage and        *)
(* OwnedPagesReachOwner: what every stage leaves for the next one.         *)

Serving == pc \in {"select", "fill", "ready"}

AfterPartitions == pc = "validate" \/ Serving

(* The pipelines and the partitions that have been added. *)
AddedPipelines ==
  IF pc = "pipelines" THEN 1 .. idx - 1
  ELSE IF pc = "partitions" \/ AfterPartitions THEN DOMAIN cfg.pipelines ELSE {}

AddedPartitions ==
  IF pc = "partitions" THEN 1 .. idx - 1
  ELSE IF AfterPartitions THEN DOMAIN cfg.partitions ELSE {}

PipelinesAgree ==
  /\ pc = "start" => DOMAIN pipelines = {} /\ idx = 1
  /\ pc = "pipelines" => Len(cfg.pipelines) < IdxMax /\ idx <= Len(cfg.pipelines) + 1
  /\ \A n \in DOMAIN pipelines :
       pipelines[n] \in DOMAIN cfg.pipelines /\ cfg.pipelines[pipelines[n]] = n
  /\ \A k \in AddedPipelines :
       cfg.pipelines[k] \in DOMAIN pipelines /\ pipelines[cfg.pipelines[k]] = k

(* What add_partition_details copies. *)
Copied(i) == [pipeline |-> pipelines[cfg.partitions[i].pipeline],
              eraseblocks |-> cfg.partitions[i].eraseblocks, pages |-> cfg.partitions[i].pages]

PartitionsAgree ==
  /\ pc \in {"start", "pipelines"} => DOMAIN parts = {}
  /\ pc = "partitions" => idx <= Len(cfg.partitions) + 1
  /\ pc = "partitions" \/ AfterPartitions =>
       DOMAIN parts = {cfg.partitions[i].name : i \in AddedPartitions}
  /\ \A i, j \in AddedPartitions : cfg.partitions[i].name = cfg.partitions[j].name => i = j
  /\ \A i \in AddedPartitions :
       /\ cfg.partitions[i].pipeline \in DOMAIN pipelines
       /\ parts[cfg.partitions[i].name] =
            IF Serving \/ (pc = "validate" /\ cfg.partitions[i].name \notin todo)
            THEN FixedPartition(Copied(i)) ELSE Copied(i)

(* The partitions whose callback has returned true own their elements. *)
ArrayAgrees ==
  /\ pc = "fill" => strategy \in {"eraseblock", "page"}
  /\ pc \in {"select", "ready"} => todo = {}
  /\ pc = "ready" => strategy # "none"
  /\ pc \in {"fill", "ready"} /\ strategy = "single" =>
       Cardinality(DOMAIN parts) = 1 /\ \A n \in DOMAIN parts : single = parts[n].pipeline
  /\ pc \in {"fill", "ready"} /\ strategy # "single" =>
       /\ DOMAIN arr = 0 .. (IF strategy = "page" THEN cfg.sectors * cfg.pagesPerSector
                             ELSE cfg.sectors) - 1
       /\ \A n \in DOMAIN parts \ todo : \A v \in Walk(parts[n]) :
            Cell(v[1], v[2]) \in DOMAIN arr => arr[Cell(v[1], v[2])] = parts[n].pipeline
       /\ \A m, n \in DOMAIN parts \ todo : \A v \in Walk(parts[m]), w \in Walk(parts[n]) :
            Cell(v[1], v[2]) = Cell(w[1], w[2]) /\ Cell(v[1], v[2]) \in DOMAIN arr => m = n

(* At every stage of the initialisation the tables and the array hold what *)
(* the configuration says for the entries handled so far.                  *)
SchemeAgrees == PipelinesAgree /\ PartitionsAgree /\ ArrayAgrees
-----------------------------------------------------------------------------
(* While the array is filled an element that names a pipeline keeps it. *)
ElementsWrittenOnce ==
  [][\A k \in DOMAIN arr : arr[k] # NACK => k \in DOMAIN arr' /\ arr'[k] = arr[k]]_vars

(* Initialisation ends, serving or refused or in a fault. *)
InitializationEnds == <>(pc \in {"ready", "failed", "crashed"})

(***************************************************************************)
(* The comment before validate_partitions_range_limits (scheme.c:1509): "a *)
(* non UINT64_MAX end offset that is out of range should be rejected"; and *)
(* only such a one: ranges like those of the shipped                       *)
(* configs/bch4-rs-nand-example.json end inside the flash.                 *)
(***************************************************************************)
BoundaryTestExact ==
  /\ Serving => Inside(cfg)
  /\ rc = "PARTITION_BOUNDARY_VIOLATION" => ~Inside(cfg)

(* The selector implements PageMap. *)
PM == INSTANCE PageMap WITH
        status <- CASE pc = "ready" -> "serving"
                    [] pc \in {"failed", "crashed"} -> "refused"
                    [] OTHER -> "starting"

ImplementsPageMap == PM!Spec
=============================================================================
