---------------------------- MODULE Demux_proofs ----------------------------
(***************************************************************************)
(* Proofs about Demux for every geometry, every set of configurations and  *)
(* every width of the integers.                                            *)
(***************************************************************************)
EXTENDS Demux, FiniteSetTheorems, TLAPS

-----------------------------------------------------------------------------
(* Arithmetic of uint64_t *)

(* Reduction modulo UMax + 1 stays in range and changes nothing there. *)
LEMMA U64Type == \A x \in Nat : U64(x) \in 0 .. UMax
  BY UMaxAssumption DEF U64

LEMMA U64Id == \A x \in 0 .. UMax : U64(x) = x
  BY UMaxAssumption DEF U64

LEMMA U64Wrap == \A x \in 0 .. UMax : U64(x + UMax + 1) = x
  BY UMaxAssumption DEF U64

(* The parser's ranges: two of them add up without overflow. *)
LEMMA IMaxType == IMax \in Nat /\ IMax + IMax <= UMax /\ IMax < UMax
  BY UMaxAssumption DEF IMax

(* Every range that the parser produces is a pair of uint64_t. *)
LEMMA CfgRangeType == CfgRange \subseteq Range64
  BY IMaxType, UMaxAssumption DEF CfgRange, Range64, Absent

(* What a configuration is made of. *)
LEMMA ConfigType ==
  ASSUME cfg \in Config
  PROVE  /\ cfg.sectors \in 1 .. UMax /\ cfg.pagesPerSector \in 1 .. UMax
         /\ cfg.pipelines \in Seq(Names)
         /\ Len(cfg.pipelines) \in Nat
         /\ DOMAIN cfg.pipelines = 1 .. Len(cfg.pipelines)
         /\ \A i \in 1 .. Len(cfg.pipelines) : cfg.pipelines[i] \in Names
         /\ Len(cfg.partitions) \in Nat
         /\ DOMAIN cfg.partitions = 1 .. Len(cfg.partitions)
         /\ \A i \in 1 .. Len(cfg.partitions) :
              /\ cfg.partitions[i].name \in Names /\ cfg.partitions[i].pipeline \in Names
              /\ cfg.partitions[i].eraseblocks \in CfgRange
              /\ cfg.partitions[i].pages \in CfgRange
<1> DEFINE Rec == [name : Names, pipeline : Names, eraseblocks : CfgRange, pages : CfgRange]
<1>1. cfg \in [sectors : 1 .. UMax, pagesPerSector : 1 .. UMax,
               pipelines : Seq(Names), partitions : Seq(Rec)]
  BY DEF Config
<1> HIDE DEF Rec
<1>2. /\ cfg.sectors \in 1 .. UMax /\ cfg.pagesPerSector \in 1 .. UMax
      /\ cfg.pipelines \in Seq(Names) /\ cfg.partitions \in Seq(Rec)
  BY <1>1
<1>3. /\ Len(cfg.pipelines) \in Nat
      /\ DOMAIN cfg.pipelines = 1 .. Len(cfg.pipelines)
      /\ \A i \in 1 .. Len(cfg.pipelines) : cfg.pipelines[i] \in Names
  BY <1>2
<1>4. /\ Len(cfg.partitions) \in Nat
      /\ DOMAIN cfg.partitions = 1 .. Len(cfg.partitions)
      /\ \A i \in 1 .. Len(cfg.partitions) : cfg.partitions[i] \in Rec
  BY <1>2
<1>5. \A x \in Rec : x.name \in Names /\ x.pipeline \in Names /\ x.eraseblocks \in CfgRange /\ x.pages \in CfgRange
  BY DEF Rec
<1> QED BY <1>2, <1>3, <1>4, <1>5

(* partition_range_fix_iter keeps a partition a partition_t. *)
LEMMA FixedType ==
  ASSUME cfg \in Config, NEW part \in Partition
  PROVE  FixedPartition(part) \in Partition
<1>1. \A r \in Range64, limit \in Nat : Fixed(r, limit) \in Range64
  <2> SUFFICES ASSUME NEW r \in Range64, NEW limit \in Nat PROVE Fixed(r, limit) \in Range64
      OBVIOUS
  <2>1. limit + UMax + 1 - r.start \in Nat
      BY UMaxAssumption DEF Range64
  <2>2. U64(limit + UMax + 1 - r.start) \in 0 .. UMax
      BY <2>1, U64Type
  <2> QED BY <2>2 DEF Fixed, Range64
<1>2. cfg.sectors \in Nat /\ cfg.pagesPerSector \in Nat
  BY ConfigType, UMaxAssumption
<1> QED BY <1>1, <1>2 DEF FixedPartition, Partition

-----------------------------------------------------------------------------
(* Type correctness *)

(* Every refusal leaves the scheme as it is. *)
LEMMA FailType ==
  ASSUME TypeOK, NEW code \in RCs, Fail(code)
  PROVE  TypeOK'
  BY DEF Fail, TypeOK, PCs

(* Adding a pipeline gives it an index of pipeline_index_t's width. *)
LEMMA AddPipelineType == TypeOK /\ AddPipeline => TypeOK'
<1> SUFFICES ASSUME TypeOK, AddPipeline PROVE TypeOK'
  OBVIOUS
<1> DEFINE name == cfg.pipelines[idx]
<1>1. CASE name \in DOMAIN pipelines
  <2>1. Fail("HASHTABLE_HAS_EXISTING_ENTRY")
    BY <1>1 DEF AddPipeline
  <2> QED BY <2>1, FailType DEF RCs
<1>2. CASE name \notin DOMAIN pipelines
  <2>1. /\ pipelines' = [n \in DOMAIN pipelines \cup {name} |->
                          IF n = name THEN idx % (IdxMax + 1) ELSE pipelines[n]]
        /\ idx' = idx + 1
        /\ UNCHANGED <<cfg, pc, rc, parts, todo, strategy, single, arr, overrun, sel>>
    BY <1>2 DEF AddPipeline
  <2>2. idx % (IdxMax + 1) \in 0 .. IdxMax
    BY IdxMaxAssumption DEF TypeOK
  <2>3. name \in Names
    BY ConfigType DEF AddPipeline, TypeOK
  <2>4. DOMAIN pipelines' \subseteq Names /\ pipelines' \in [DOMAIN pipelines' -> 0 .. IdxMax]
    <3> HIDE DEF name
    <3> QED BY <2>1, <2>2, <2>3 DEF TypeOK
  <2>5. idx' \in Nat \ {0}
    BY <2>1 DEF TypeOK
  <2> QED BY <2>1, <2>4, <2>5 DEF TypeOK
<1> QED BY <1>1, <1>2

(* Adding a partition copies ranges and an index that are in range. *)
LEMMA AddPartitionType == TypeOK /\ AddPartition => TypeOK'
<1> SUFFICES ASSUME TypeOK, AddPartition PROVE TypeOK'
  OBVIOUS
<1> DEFINE new == cfg.partitions[idx]
           part == [pipeline |-> pipelines[new.pipeline], eraseblocks |-> new.eraseblocks,
                    pages |-> new.pages]
           Added == /\ parts' = [n \in DOMAIN parts \cup {new.name} |->
                                   IF n = new.name THEN part ELSE parts[n]]
                    /\ idx' = idx + 1
                    /\ UNCHANGED <<cfg, pc, rc, pipelines, todo, strategy, single, arr, overrun, sel>>
<1>1. \/ \E code \in RCs : Fail(code)
      \/ new.pipeline \in DOMAIN pipelines /\ Added
  <2>1. CASE new.pipeline \notin DOMAIN pipelines
    BY <2>1 DEF AddPartition, RCs
  <2>2. CASE new.pipeline \in DOMAIN pipelines
    <3>1. PICK overflows \in StaleRangeOverflows(idx) :
            IF overflows THEN Fail("ADDITION_WOULD_OVERFLOW")
            ELSE IF new.name \in DOMAIN parts THEN Fail("HASHTABLE_HAS_EXISTING_ENTRY")
            ELSE Added
      BY <2>2 DEF AddPartition
    <3> HIDE DEF Added, new
    <3>2. Fail("ADDITION_WOULD_OVERFLOW") \/ Fail("HASHTABLE_HAS_EXISTING_ENTRY") \/ Added
      BY <3>1
    <3> QED BY <2>2, <3>2 DEF RCs
  <2> QED BY <2>1, <2>2
<1>2. CASE \E code \in RCs : Fail(code)
  BY <1>2, FailType
<1>3. CASE new.pipeline \in DOMAIN pipelines /\ Added
  <2>1. idx \in 1 .. Len(cfg.partitions)
    BY ConfigType DEF AddPartition, TypeOK
  <2>2. new.name \in Names /\ new.eraseblocks \in Range64 /\ new.pages \in Range64
    BY <2>1, ConfigType, CfgRangeType DEF TypeOK
  <2>3. part \in Partition
    BY <1>3, <2>2 DEF Partition, TypeOK
  <2>4. DOMAIN parts' \subseteq Names /\ parts' \in [DOMAIN parts' -> Partition]
        /\ todo' \subseteq DOMAIN parts'
    <3> HIDE DEF part, new
    <3> QED BY <1>3, <2>2, <2>3 DEF TypeOK, Added
  <2>5. idx' \in Nat \ {0}
    BY <1>3 DEF TypeOK
  <2> QED BY <1>3, <2>4, <2>5 DEF TypeOK
<1> QED BY <1>1, <1>2, <1>3

(* Validation replaces a partition by its fixed form. *)
LEMMA ValidateType == ASSUME TypeOK, NEW n \in todo, ValidatePartition(n) PROVE TypeOK'
<1>1. CASE Fail("PARTITION_BOUNDARY_VIOLATION")
  BY <1>1, FailType DEF RCs
<1>2. CASE ~Fail("PARTITION_BOUNDARY_VIOLATION")
  <2>1. /\ parts' = [parts EXCEPT ![n] = FixedPartition(parts[n])]
        /\ todo' = todo \ {n}
        /\ UNCHANGED <<cfg, pc, rc, idx, pipelines, strategy, single, arr, overrun, sel>>
    BY <1>2 DEF ValidatePartition
  <2>2. parts[n] \in Partition
    BY DEF TypeOK
  <2>3. FixedPartition(parts[n]) \in Partition
    BY <2>2, FixedType DEF TypeOK
  <2>4. DOMAIN parts' = DOMAIN parts /\ parts' \in [DOMAIN parts -> Partition]
    BY <2>1, <2>3 DEF TypeOK
  <2> QED BY <2>1, <2>4 DEF TypeOK
<1> QED BY <1>1, <1>2

(* The selector's array is made of NACKs and filled with partitions' indices. *)
LEMMA SelectorType ==
  TypeOK /\ (SelectSingle \/ SelectPerEraseblock \/ SelectPerPage) => TypeOK'
<1> SUFFICES ASSUME TypeOK, SelectSingle \/ SelectPerEraseblock \/ SelectPerPage PROVE TypeOK'
  OBVIOUS
<1>0. 0 \in 0 .. IdxMax
  BY IdxMaxAssumption
<1>1. CASE SelectSingle
  <2>1. DOMAIN parts # {}
    BY <1>1, FS_EmptySet DEF SelectSingle, SingleSpanning
  <2>2. (CHOOSE n \in DOMAIN parts : TRUE) \in DOMAIN parts
    BY <2>1
  <2>3. parts[CHOOSE n \in DOMAIN parts : TRUE] \in Partition
    BY <2>2 DEF TypeOK
  <2>4. single' \in 0 .. IdxMax
    BY <1>1, <2>3 DEF SelectSingle, Partition
  <2> QED BY <1>1, <2>4 DEF SelectSingle, TypeOK, PCs, Strategies
<1>2. CASE SelectPerEraseblock
  <2>1. 0 .. cfg.sectors - 1 \subseteq Nat
    BY ConfigType DEF TypeOK
  <2>2. DOMAIN arr' \subseteq Nat /\ arr' \in [DOMAIN arr' -> 0 .. IdxMax]
    BY <1>0, <1>2, <2>1 DEF SelectPerEraseblock, NACK
  <2> QED BY <1>2, <2>2 DEF SelectPerEraseblock, TypeOK, PCs, Strategies
<1>3. CASE SelectPerPage
  <2>1. CASE Fail("MULTIPLICATION_WOULD_OVERFLOW")
    BY <2>1, FailType DEF RCs
  <2>2. CASE ~Fail("MULTIPLICATION_WOULD_OVERFLOW")
    <3>1. /\ pc' = "fill" /\ strategy' = "page" /\ todo' = DOMAIN parts
          /\ arr' = [k \in 0 .. cfg.sectors * cfg.pagesPerSector - 1 |-> NACK]
          /\ UNCHANGED <<cfg, rc, idx, pipelines, parts, single, overrun, sel>>
      BY <1>3, <2>2 DEF SelectPerPage
    <3>2. DOMAIN arr' \subseteq Nat /\ arr' \in [DOMAIN arr' -> 0 .. IdxMax]
      BY <1>0, <3>1 DEF NACK
    <3> QED BY <3>1, <3>2 DEF TypeOK, PCs, Strategies
  <2> QED BY <2>1, <2>2
<1> QED BY <1>1, <1>2, <1>3

(* Filling writes partitions' indices into the array. *)
LEMMA FillType ==
  ASSUME TypeOK, NEW n \in todo, FillPartition(n) \/ FillClash(n) \/ FillFault(n)
  PROVE  TypeOK'
<1>0. parts[n] \in Partition /\ ReachesStray(parts[n]) \in BOOLEAN
  BY DEF TypeOK, ReachesStray
<1>1. CASE FillPartition(n)
  <2> DEFINE Hit(k) == \E v \in Walk(parts[n]) : Cell(v[1], v[2]) = k
  <2>1. arr' = [k \in DOMAIN arr |-> IF Hit(k) THEN parts[n].pipeline ELSE arr[k]]
    BY <1>1 DEF FillPartition
  <2>2. parts[n].pipeline \in 0 .. IdxMax
    BY <1>0 DEF Partition
  <2> HIDE DEF Hit
  <2>3. DOMAIN arr' \subseteq Nat /\ arr' \in [DOMAIN arr' -> 0 .. IdxMax]
    BY <2>1, <2>2 DEF TypeOK
  <2>4. overrun' \in BOOLEAN
    BY <1>0, <1>1 DEF FillPartition, TypeOK
  <2> QED BY <1>1, <2>3, <2>4 DEF FillPartition, TypeOK
<1>2. CASE FillClash(n)
  <2>1. overrun' \in BOOLEAN
    BY <1>0, <1>2 DEF FillClash, TypeOK
  <2> QED BY <1>2, <2>1 DEF FillClash, TypeOK, PCs, RCs
<1>3. CASE FillFault(n)
  BY <1>3 DEF FillFault, TypeOK, PCs
<1> QED BY <1>1, <1>2, <1>3

(***************************************************************************)
(* Every variable keeps its type: indices fit pipeline_index_t and ranges  *)
(* uint64_t, whatever the configuration.                                   *)
(***************************************************************************)
THEOREM TypeCorrect == Spec => []TypeOK
<1>1. Init => TypeOK
  <2> SUFFICES ASSUME Init PROVE TypeOK
    OBVIOUS
  <2>1. DOMAIN Empty = {} /\ Empty \in [DOMAIN Empty -> 0 .. IdxMax] /\ Empty \in [DOMAIN Empty -> Partition]
    BY DEF Empty
  <2>2. single \in 0 .. IdxMax /\ idx \in Nat \ {0}
    BY IdxMaxAssumption DEF NACK, Init
  <2>3. pc \in PCs /\ rc \in RCs /\ strategy \in Strategies
    BY DEF Init, PCs, RCs, Strategies
  <2>4. overrun \in BOOLEAN /\ cfg \in Config
    BY ConfigsAssumption DEF Init
  <2>5. /\ DOMAIN pipelines \subseteq Names /\ pipelines \in [DOMAIN pipelines -> 0 .. IdxMax]
        /\ DOMAIN parts \subseteq Names /\ parts \in [DOMAIN parts -> Partition]
        /\ todo \subseteq DOMAIN parts
        /\ DOMAIN arr \subseteq Nat /\ arr \in [DOMAIN arr -> 0 .. IdxMax]
    BY <2>1 DEF Init
  <2> QED BY <2>2, <2>3, <2>4, <2>5 DEF TypeOK
<1>2. TypeOK /\ [Next]_vars => TypeOK'
  <2> SUFFICES ASSUME TypeOK, [Next]_vars PROVE TypeOK'
    OBVIOUS
  <2>1. CASE StartPipelines
    <3>1. CASE \E code \in RCs : Fail(code)
      BY <3>1, FailType
    <3>2. CASE ~\E code \in RCs : Fail(code)
      BY <2>1, <3>2 DEF StartPipelines, TypeOK, PCs, RCs
    <3> QED BY <3>1, <3>2
  <2>2. CASE AddPipeline
    BY <2>2, AddPipelineType
  <2>3. CASE RejectPipeline
    BY <2>3, FailType DEF RejectPipeline, RCs
  <2>4. CASE PipelinesDone
    BY <2>4 DEF PipelinesDone, TypeOK, PCs
  <2>5. CASE AddPartition
    BY <2>5, AddPartitionType
  <2>6. CASE PartitionsDone
    <3>1. CASE Fail("HAS_NO_PARTITIONS")
      BY <3>1, FailType DEF RCs
    <3>2. CASE ~Fail("HAS_NO_PARTITIONS")
      BY <2>6, <3>2 DEF PartitionsDone, TypeOK, PCs
    <3> QED BY <3>1, <3>2
  <2>7. CASE \E n \in todo : ValidatePartition(n)
    BY <2>7, ValidateType
  <2>8. CASE ValidateDone
    BY <2>8 DEF ValidateDone, TypeOK, PCs
  <2>9. CASE SelectSingle \/ SelectPerEraseblock \/ SelectPerPage
    BY <2>9, SelectorType
  <2>10. CASE \E n \in todo : FillPartition(n) \/ FillClash(n) \/ FillFault(n)
    BY <2>10, FillType
  <2>11. CASE FillDone
    BY <2>11 DEF FillDone, TypeOK, PCs
  <2>12. CASE OutOfMemory
    BY <2>12, FailType DEF OutOfMemory, RCs
  <2>13. CASE \E e \in 0 .. cfg.sectors - 1, p \in 0 .. cfg.pagesPerSector - 1 : select_pipeline(e, p)
    BY <2>13 DEF select_pipeline, TypeOK
  <2>14. CASE UNCHANGED vars
    BY <2>14 DEF vars, TypeOK
  <2> QED BY <2>1, <2>2, <2>3, <2>4, <2>5, <2>6, <2>7, <2>8, <2>9, <2>10, <2>11, <2>12, <2>13, <2>14
          DEF Next, Initialize
<1> QED BY <1>1, <1>2, PTL DEF Spec

-----------------------------------------------------------------------------
(* The scheme agrees with the configuration *)

(* A refusal ends all claims but the one about the pipelines added. *)
LEMMA FailAgrees ==
  ASSUME SchemeAgrees, NEW code, Fail(code)
  PROVE  SchemeAgrees'
<1>1. PipelinesAgree'
  BY DEF Fail, SchemeAgrees, PipelinesAgree, AddedPipelines, AfterPartitions, Serving
<1>2. PartitionsAgree'
  BY DEF Fail, SchemeAgrees, PartitionsAgree, AddedPartitions, AfterPartitions, Serving
<1>3. ArrayAgrees'
  BY DEF Fail, SchemeAgrees, ArrayAgrees
<1> QED BY <1>1, <1>2, <1>3 DEF SchemeAgrees

(* TooManyPipelines keeps every index below IdxMax. *)
LEMMA StartAgrees == TypeOK /\ SchemeAgrees /\ StartPipelines => SchemeAgrees'
<1> SUFFICES ASSUME TypeOK, SchemeAgrees, StartPipelines PROVE SchemeAgrees'
  OBVIOUS
<1>1. CASE \E code : Fail(code)
  BY <1>1, FailAgrees
<1>2. CASE ~\E code : Fail(code)
  <2>1. /\ pc = "start" /\ pc' = "pipelines" /\ ~TooManyPipelines(cfg)
        /\ UNCHANGED <<cfg, rc, idx, pipelines, parts, todo, strategy, single, arr, overrun, sel>>
    BY <1>2 DEF StartPipelines
  <2>2. Len(cfg.pipelines) \in Nat /\ Len(cfg.pipelines) < IdxMax
    BY <2>1, ConfigType, IdxMaxAssumption DEF TooManyPipelines, TypeOK
  <2>3. PipelinesAgree'
    BY <2>1, <2>2 DEF SchemeAgrees, PipelinesAgree, AddedPipelines
  <2>4. PartitionsAgree'
    BY <2>1 DEF SchemeAgrees, PartitionsAgree, AddedPartitions, AfterPartitions, Serving
  <2>5. ArrayAgrees'
    BY <2>1 DEF SchemeAgrees, ArrayAgrees
  <2> QED BY <2>3, <2>4, <2>5 DEF SchemeAgrees
<1> QED BY <1>1, <1>2

(* The pipeline added last has its position as its index. *)
LEMMA AddPipelineAgrees == TypeOK /\ SchemeAgrees /\ AddPipeline => SchemeAgrees'
<1> SUFFICES ASSUME TypeOK, SchemeAgrees, AddPipeline PROVE SchemeAgrees'
  OBVIOUS
<1> DEFINE name == cfg.pipelines[idx]
<1>1. CASE name \in DOMAIN pipelines
  BY <1>1, FailAgrees DEF AddPipeline
<1>2. CASE name \notin DOMAIN pipelines
  <2>1. /\ pc = "pipelines" /\ idx <= Len(cfg.pipelines)
        /\ pipelines' = [n \in DOMAIN pipelines \cup {name} |->
                          IF n = name THEN idx % (IdxMax + 1) ELSE pipelines[n]]
        /\ idx' = idx + 1
        /\ UNCHANGED <<cfg, pc, rc, parts, todo, strategy, single, arr, overrun, sel>>
    BY <1>2 DEF AddPipeline
  <2>2. idx \in Nat \ {0} /\ Len(cfg.pipelines) \in Nat /\ Len(cfg.pipelines) < IdxMax
    BY <2>1, ConfigType DEF TypeOK, SchemeAgrees, PipelinesAgree
  <2>3. idx % (IdxMax + 1) = idx
    BY <2>1, <2>2, IdxMaxAssumption
  <2>4. idx \in DOMAIN cfg.pipelines
    BY <2>1, <2>2, ConfigType DEF TypeOK
  <2>5. /\ DOMAIN pipelines' = DOMAIN pipelines \cup {name}
        /\ pipelines'[name] = idx
        /\ \A n \in DOMAIN pipelines : n # name /\ pipelines'[n] = pipelines[n]
    BY <1>2, <2>1, <2>3
  <2>6. \A n \in DOMAIN pipelines' :
          pipelines'[n] \in DOMAIN cfg.pipelines /\ cfg.pipelines[pipelines'[n]] = n
    BY <2>4, <2>5 DEF SchemeAgrees, PipelinesAgree
  <2>7. \A k \in 1 .. idx : cfg.pipelines[k] \in DOMAIN pipelines' /\ pipelines'[cfg.pipelines[k]] = k
    <3> SUFFICES ASSUME NEW k \in 1 .. idx
                 PROVE  cfg.pipelines[k] \in DOMAIN pipelines' /\ pipelines'[cfg.pipelines[k]] = k
      OBVIOUS
    <3>1. CASE k = idx
      BY <2>5, <3>1
    <3>2. CASE k # idx
      <4>1. k \in 1 .. idx - 1
        BY <2>2, <3>2
      <4>2. cfg.pipelines[k] \in DOMAIN pipelines /\ pipelines[cfg.pipelines[k]] = k
        BY <2>1, <4>1 DEF SchemeAgrees, PipelinesAgree, AddedPipelines
      <4> QED BY <2>5, <4>2
    <3> QED BY <3>1, <3>2
  <2>8. PipelinesAgree'
    <3>1. AddedPipelines' = 1 .. idx
      BY <2>1, <2>2 DEF AddedPipelines
    <3>2. pc' = "pipelines" /\ cfg' = cfg /\ idx' = idx + 1
      BY <2>1
    <3>3. idx' <= Len(cfg.pipelines) + 1
      BY <2>1, <2>2, <3>2
    <3> QED BY <2>2, <2>6, <2>7, <3>1, <3>2, <3>3 DEF PipelinesAgree
  <2>9. PartitionsAgree'
    BY <2>1 DEF SchemeAgrees, PartitionsAgree, AddedPartitions, AfterPartitions, Serving
  <2>10. ArrayAgrees'
    BY <2>1 DEF SchemeAgrees, ArrayAgrees
  <2> QED BY <2>8, <2>9, <2>10 DEF SchemeAgrees
<1> QED BY <1>1, <1>2

(* All pipelines are added, and no partition yet. *)
LEMMA PipelinesDoneAgrees == TypeOK /\ SchemeAgrees /\ PipelinesDone => SchemeAgrees'
<1> SUFFICES ASSUME TypeOK, SchemeAgrees, PipelinesDone PROVE SchemeAgrees'
  OBVIOUS
<1>1. /\ pc = "pipelines" /\ pc' = "partitions" /\ idx' = 1 /\ idx > Len(cfg.pipelines)
      /\ UNCHANGED <<cfg, rc, pipelines, parts, todo, strategy, single, arr, overrun, sel>>
  BY DEF PipelinesDone
<1>2. DOMAIN cfg.pipelines = 1 .. idx - 1 /\ Len(cfg.partitions) \in Nat
  BY <1>1, ConfigType DEF TypeOK, SchemeAgrees, PipelinesAgree
<1>3. PipelinesAgree'
  BY <1>1, <1>2 DEF SchemeAgrees, PipelinesAgree, AddedPipelines
<1>4. AddedPartitions' = {}
  BY <1>1 DEF AddedPartitions
<1>5. PartitionsAgree'
  BY <1>1, <1>2, <1>4 DEF SchemeAgrees, PartitionsAgree
<1>6. ArrayAgrees'
  BY <1>1 DEF SchemeAgrees, ArrayAgrees
<1> QED BY <1>3, <1>5, <1>6 DEF SchemeAgrees

(* PipelinesAgree after a step that leaves the pipelines alone. *)
LEMMA PipelinesFrame ==
  ASSUME PipelinesAgree, UNCHANGED <<cfg, pipelines>>,
         pc = "partitions" \/ AfterPartitions, pc' = "partitions" \/ AfterPartitions'
  PROVE  PipelinesAgree'
<1>1. AddedPipelines = DOMAIN cfg.pipelines /\ AddedPipelines' = DOMAIN cfg.pipelines
  BY DEF AddedPipelines, AfterPartitions, Serving
<1>2. pc' # "start" /\ pc' # "pipelines"
  BY DEF AfterPartitions, Serving
<1> QED BY <1>1, <1>2 DEF PipelinesAgree

(* The partition added last is a copy of its section. *)
LEMMA AddPartitionAgrees == TypeOK /\ SchemeAgrees /\ AddPartition => SchemeAgrees'
<1> SUFFICES ASSUME TypeOK, SchemeAgrees, AddPartition PROVE SchemeAgrees'
  OBVIOUS
<1> DEFINE new == cfg.partitions[idx]
           Added == /\ parts' = [n \in DOMAIN parts \cup {new.name} |->
                                   IF n = new.name THEN Copied(idx) ELSE parts[n]]
                    /\ idx' = idx + 1
                    /\ UNCHANGED <<cfg, pc, rc, pipelines, todo, strategy, single, arr, overrun, sel>>
<1>1. \/ \E code : Fail(code)
      \/ new.pipeline \in DOMAIN pipelines /\ new.name \notin DOMAIN parts /\ Added
  <2>1. CASE new.pipeline \notin DOMAIN pipelines
    BY <2>1 DEF AddPartition
  <2>2. CASE new.pipeline \in DOMAIN pipelines
    <3>1. PICK overflows \in StaleRangeOverflows(idx) :
            IF overflows THEN Fail("ADDITION_WOULD_OVERFLOW")
            ELSE IF new.name \in DOMAIN parts THEN Fail("HASHTABLE_HAS_EXISTING_ENTRY")
            ELSE Added
      BY <2>2 DEF AddPartition, Copied
    <3> HIDE DEF Added, new
    <3>2. CASE new.name \in DOMAIN parts
      BY <3>1, <3>2
    <3>3. CASE new.name \notin DOMAIN parts
      BY <2>2, <3>1, <3>3
    <3> QED BY <3>2, <3>3
  <2> QED BY <2>1, <2>2
<1>2. CASE \E code : Fail(code)
  BY <1>2, FailAgrees
<1>3. CASE new.pipeline \in DOMAIN pipelines /\ new.name \notin DOMAIN parts /\ Added
  <2>1. pc = "partitions" /\ idx \in 1 .. Len(cfg.partitions)
    BY ConfigType DEF AddPartition, TypeOK
  <2>2. Len(cfg.partitions) \in Nat
    BY ConfigType DEF TypeOK
  <2>3. /\ cfg' = cfg /\ pc' = "partitions" /\ idx' = idx + 1 /\ pipelines' = pipelines /\ todo' = todo
        /\ DOMAIN parts' = DOMAIN parts \cup {new.name}
        /\ parts'[new.name] = Copied(idx)
        /\ \A n \in DOMAIN parts : n # new.name /\ parts'[n] = parts[n]
    BY <1>3, <2>1
  <2>4. AddedPartitions = 1 .. idx - 1 /\ AddedPartitions' = 1 .. idx
    BY <2>1, <2>3 DEF AddedPartitions
  <2>5. /\ DOMAIN parts = {cfg.partitions[i].name : i \in 1 .. idx - 1}
        /\ \A i, j \in 1 .. idx - 1 : cfg.partitions[i].name = cfg.partitions[j].name => i = j
        /\ \A i \in 1 .. idx - 1 : /\ cfg.partitions[i].pipeline \in DOMAIN pipelines
                                   /\ parts[cfg.partitions[i].name] = Copied(i)
    BY <2>1, <2>4 DEF SchemeAgrees, PartitionsAgree, Serving
  <2>6. \A i \in 1 .. idx : i \in 1 .. idx - 1 \/ i = idx
    BY <2>1
  <2>7. DOMAIN parts' = {cfg.partitions[i].name : i \in 1 .. idx}
    <3>1. \A i \in 1 .. idx - 1 : i \in 1 .. idx
      BY <2>1
    <3>2. idx \in 1 .. idx
      BY <2>1
    <3> QED BY <2>3, <2>5, <2>6, <3>1, <3>2
  <2>8. \A i, j \in 1 .. idx : cfg.partitions[i].name = cfg.partitions[j].name => i = j
    <3>1. \A i \in 1 .. idx - 1 : cfg.partitions[i].name # new.name
      BY <1>3, <2>5
    <3> QED BY <2>5, <2>6, <3>1
  <2>9. \A i \in 1 .. idx : /\ cfg.partitions[i].pipeline \in DOMAIN pipelines
                            /\ parts'[cfg.partitions[i].name] = Copied(i)
    BY <1>3, <2>3, <2>5, <2>6
  <2>10. \A i : Copied(i)' = Copied(i)
    BY <2>3 DEF Copied
  <2>11. PartitionsAgree'
    <3>1. idx' <= Len(cfg.partitions) + 1
      BY <2>1, <2>2, <2>3
    <3>2. ~Serving' /\ ~AfterPartitions'
      BY <2>3 DEF Serving, AfterPartitions
    <3> HIDE DEF new, Added
    <3> QED BY <2>3, <2>4, <2>7, <2>8, <2>9, <2>10, <3>1, <3>2 DEF PartitionsAgree
  <2>12. PipelinesAgree'
    BY <2>1, <2>3, PipelinesFrame DEF SchemeAgrees
  <2>13. ArrayAgrees'
    BY <2>3 DEF ArrayAgrees
  <2> QED BY <2>11, <2>12, <2>13 DEF SchemeAgrees
<1> QED BY <1>1, <1>2, <1>3

(* Before the scan every partition is still as it was copied. *)
LEMMA PartitionsDoneAgrees == TypeOK /\ SchemeAgrees /\ PartitionsDone => SchemeAgrees'
<1> SUFFICES ASSUME TypeOK, SchemeAgrees, PartitionsDone PROVE SchemeAgrees'
  OBVIOUS
<1>1. CASE Fail("HAS_NO_PARTITIONS")
  BY <1>1, FailAgrees
<1>2. CASE ~Fail("HAS_NO_PARTITIONS")
  <2>1. /\ pc = "partitions" /\ idx > Len(cfg.partitions) /\ pc' = "validate" /\ todo' = DOMAIN parts
        /\ UNCHANGED <<cfg, rc, idx, pipelines, parts, strategy, single, arr, overrun, sel>>
    BY <1>2 DEF PartitionsDone
  <2>2. DOMAIN cfg.partitions = 1 .. idx - 1
    BY <2>1, ConfigType DEF TypeOK, SchemeAgrees, PartitionsAgree
  <2>3. AddedPartitions = DOMAIN cfg.partitions /\ AddedPartitions' = DOMAIN cfg.partitions
    BY <2>1, <2>2 DEF AddedPartitions, AfterPartitions
  <2>4. ~Serving /\ ~Serving' /\ AfterPartitions'
    BY <2>1 DEF Serving, AfterPartitions
  <2>5. \A i \in DOMAIN cfg.partitions : cfg.partitions[i].name \in todo'
    BY <2>1, <2>3 DEF SchemeAgrees, PartitionsAgree
  <2>6. \A i : Copied(i)' = Copied(i)
    BY <2>1 DEF Copied
  <2>7. PartitionsAgree'
    BY <2>1, <2>3, <2>4, <2>5, <2>6 DEF SchemeAgrees, PartitionsAgree
  <2>8. PipelinesAgree'
    BY <2>1, <2>4, PipelinesFrame DEF SchemeAgrees
  <2>9. ArrayAgrees'
    BY <2>1 DEF ArrayAgrees
  <2> QED BY <2>7, <2>8, <2>9 DEF SchemeAgrees
<1> QED BY <1>1, <1>2

(* The scan replaces the partition it visits, and only that one. *)
LEMMA ValidateAgrees ==
  ASSUME TypeOK, SchemeAgrees, NEW n \in todo, ValidatePartition(n)
  PROVE  SchemeAgrees'
<1>1. CASE Fail("PARTITION_BOUNDARY_VIOLATION")
  BY <1>1, FailAgrees
<1>2. CASE ~Fail("PARTITION_BOUNDARY_VIOLATION")
  <2>1. /\ pc = "validate" /\ pc' = "validate"
        /\ parts' = [parts EXCEPT ![n] = FixedPartition(parts[n])]
        /\ todo' = todo \ {n}
        /\ UNCHANGED <<cfg, rc, idx, pipelines, strategy, single, arr, overrun, sel>>
    BY <1>2 DEF ValidatePartition
  <2>2. /\ DOMAIN parts' = DOMAIN parts /\ parts'[n] = FixedPartition(parts[n])
        /\ \A m \in DOMAIN parts : m # n => parts'[m] = parts[m]
    BY <2>1 DEF TypeOK
  <2>3. AddedPartitions = DOMAIN cfg.partitions /\ AddedPartitions' = DOMAIN cfg.partitions
    BY <2>1 DEF AddedPartitions, AfterPartitions
  <2>4. ~Serving /\ ~Serving' /\ AfterPartitions /\ AfterPartitions'
    BY <2>1 DEF Serving, AfterPartitions
  <2>5. \A i : Copied(i)' = Copied(i) /\ FixedPartition(Copied(i))' = FixedPartition(Copied(i))
    BY <2>1 DEF Copied, FixedPartition, Fixed
  <2>6. /\ DOMAIN parts = {cfg.partitions[i].name : i \in DOMAIN cfg.partitions}
        /\ \A i \in DOMAIN cfg.partitions :
             /\ cfg.partitions[i].pipeline \in DOMAIN pipelines
             /\ parts[cfg.partitions[i].name] =
                  IF cfg.partitions[i].name \notin todo THEN FixedPartition(Copied(i)) ELSE Copied(i)
    BY <2>1, <2>3, <2>4 DEF SchemeAgrees, PartitionsAgree
  <2>7. \A i \in DOMAIN cfg.partitions :
          parts'[cfg.partitions[i].name] =
            IF cfg.partitions[i].name \notin todo' THEN FixedPartition(Copied(i)) ELSE Copied(i)
    <3> SUFFICES ASSUME NEW i \in DOMAIN cfg.partitions
                 PROVE  parts'[cfg.partitions[i].name] =
                          IF cfg.partitions[i].name \notin todo' THEN FixedPartition(Copied(i)) ELSE Copied(i)
      OBVIOUS
    <3>1. CASE cfg.partitions[i].name = n
      BY <2>1, <2>2, <2>6, <3>1
    <3>2. CASE cfg.partitions[i].name # n
      <4>1. cfg.partitions[i].name \in DOMAIN parts
        BY <2>6
      <4> QED BY <2>1, <2>2, <2>6, <3>2, <4>1
    <3> QED BY <3>1, <3>2
  <2>8. PartitionsAgree'
    <3>1. pc' = "validate" /\ cfg' = cfg /\ pipelines' = pipelines
      BY <2>1
    <3>2. \A i, j \in DOMAIN cfg.partitions : cfg.partitions[i].name = cfg.partitions[j].name => i = j
      BY <2>3 DEF SchemeAgrees, PartitionsAgree
    <3> QED BY <2>2, <2>3, <2>4, <2>5, <2>6, <2>7, <3>1, <3>2 DEF PartitionsAgree
  <2>9. PipelinesAgree'
    BY <2>1, <2>4, PipelinesFrame DEF SchemeAgrees
  <2>10. ArrayAgrees'
    BY <2>1 DEF ArrayAgrees
  <2> QED BY <2>8, <2>9, <2>10 DEF SchemeAgrees
<1> QED BY <1>1, <1>2

(* From the end of the scan on the partitions stay as they are. *)
LEMMA PartitionsFrame ==
  ASSUME PartitionsAgree, UNCHANGED <<cfg, pipelines, parts>>, Serving',
         Serving \/ (pc = "validate" /\ todo = {})
  PROVE  PartitionsAgree'
<1>1. AddedPartitions = DOMAIN cfg.partitions /\ AddedPartitions' = DOMAIN cfg.partitions
  BY DEF AddedPartitions, AfterPartitions, Serving
<1>2. AfterPartitions /\ AfterPartitions'
  BY DEF AfterPartitions
<1>3. \A i : FixedPartition(Copied(i))' = FixedPartition(Copied(i))
  BY DEF Copied, FixedPartition, Fixed
<1>4. pc' \notin {"start", "pipelines", "partitions"}
  BY DEF Serving
<1> QED BY <1>1, <1>2, <1>3, <1>4 DEF PartitionsAgree

(* A partition of the selector never has the NACK pipeline's index, which   *)
(* is what the overlap test of both callbacks rests on.                    *)
LEMMA PartitionNotNacked ==
  ASSUME TypeOK, SchemeAgrees, Serving, NEW n \in DOMAIN parts
  PROVE  parts[n].pipeline # NACK
<1>1. PICK i \in DOMAIN cfg.partitions :
        /\ n = cfg.partitions[i].name
        /\ cfg.partitions[i].pipeline \in DOMAIN pipelines
        /\ parts[n] = FixedPartition(Copied(i))
  <2>1. AddedPartitions = DOMAIN cfg.partitions /\ AfterPartitions
    BY DEF AddedPartitions, AfterPartitions, Serving
  <2> QED BY <2>1 DEF SchemeAgrees, PartitionsAgree
<1>2. parts[n].pipeline = pipelines[cfg.partitions[i].pipeline]
  BY <1>1 DEF FixedPartition, Copied
<1>3. pipelines[cfg.partitions[i].pipeline] \in 1 .. Len(cfg.pipelines)
  BY <1>1, ConfigType DEF SchemeAgrees, PipelinesAgree, TypeOK
<1> QED BY <1>2, <1>3, ConfigType DEF NACK, TypeOK

(* The hash table of partitions is finite. *)
LEMMA FinitePartitions ==
  ASSUME TypeOK, SchemeAgrees, Serving
  PROVE  IsFiniteSet(DOMAIN parts)
<1>1. DOMAIN parts = {cfg.partitions[i].name : i \in 1 .. Len(cfg.partitions)}
  BY ConfigType DEF SchemeAgrees, PartitionsAgree, AddedPartitions, AfterPartitions, TypeOK, Serving
<1>2. Len(cfg.partitions) \in Int
  BY ConfigType DEF TypeOK
<1>3. IsFiniteSet(1 .. Len(cfg.partitions))
  BY <1>2, FS_Interval
<1> DEFINE f == [i \in 1 .. Len(cfg.partitions) |-> cfg.partitions[i].name]
<1>4. f \in Surjection(1 .. Len(cfg.partitions), DOMAIN parts)
  BY <1>1 DEF Surjection
<1> HIDE DEF f
<1> QED BY <1>3, <1>4, FS_Surjection

(* The strategies start from the validated partitions and an empty array. *)
LEMMA SelectorAgrees ==
  TypeOK /\ SchemeAgrees /\ (SelectSingle \/ SelectPerEraseblock \/ SelectPerPage) => SchemeAgrees'
<1> SUFFICES ASSUME TypeOK, SchemeAgrees, SelectSingle \/ SelectPerEraseblock \/ SelectPerPage
             PROVE  SchemeAgrees'
  OBVIOUS
<1>0. CASE Fail("MULTIPLICATION_WOULD_OVERFLOW")
  BY <1>0, FailAgrees
<1>1. CASE ~Fail("MULTIPLICATION_WOULD_OVERFLOW")
  <2>1. /\ pc = "select" /\ pc' \in {"fill", "ready"}
        /\ UNCHANGED <<cfg, pipelines, parts>>
    BY <1>1 DEF SelectSingle, SelectPerEraseblock, SelectPerPage
  <2>2. Serving /\ Serving' /\ AfterPartitions /\ AfterPartitions'
    BY <2>1 DEF Serving, AfterPartitions
  <2>3. PipelinesAgree' /\ PartitionsAgree'
    BY <2>1, <2>2, PipelinesFrame, PartitionsFrame DEF SchemeAgrees
  <2>4. ArrayAgrees'
    <3>1. CASE SelectSingle
      <4>1. /\ pc' = "ready" /\ strategy' = "single" /\ todo' = todo /\ todo = {}
            /\ single' = parts[CHOOSE n \in DOMAIN parts : TRUE].pipeline
        BY <2>1, <3>1 DEF SelectSingle, SchemeAgrees, ArrayAgrees
      <4>2. Cardinality(DOMAIN parts) = 1
        BY <3>1 DEF SelectSingle, SingleSpanning
      <4>3. PICK x : DOMAIN parts = {x}
        <5>1. IsFiniteSet(DOMAIN parts)
          BY <2>2, FinitePartitions
        <5> QED BY <4>2, <5>1, FS_Singleton
      <4>4. \A n \in DOMAIN parts : single' = parts[n].pipeline
        BY <4>1, <4>3
      <4> QED BY <2>1, <4>1, <4>2, <4>4 DEF ArrayAgrees
    <3>2. CASE SelectPerEraseblock
      <4>1. /\ pc' = "fill" /\ strategy' = "eraseblock" /\ todo' = DOMAIN parts
            /\ arr' = [k \in 0 .. cfg.sectors - 1 |-> NACK]
        BY <3>2 DEF SelectPerEraseblock
      <4>2. DOMAIN parts' \ todo' = {}
        BY <2>1, <4>1
      <4>3. DOMAIN arr' = 0 .. cfg'.sectors - 1
        BY <2>1, <4>1
      <4> QED BY <4>1, <4>2, <4>3 DEF ArrayAgrees
    <3>3. CASE SelectPerPage
      <4>1. /\ pc' = "fill" /\ strategy' = "page" /\ todo' = DOMAIN parts
            /\ arr' = [k \in 0 .. cfg.sectors * cfg.pagesPerSector - 1 |-> NACK]
        BY <1>1, <3>3 DEF SelectPerPage
      <4>2. DOMAIN parts' \ todo' = {}
        BY <2>1, <4>1
      <4>3. DOMAIN arr' = 0 .. cfg'.sectors * cfg'.pagesPerSector - 1
        BY <2>1, <4>1
      <4> QED BY <4>1, <4>2, <4>3 DEF ArrayAgrees
    <3> QED BY <3>1, <3>2, <3>3
  <2> QED BY <2>3, <2>4 DEF SchemeAgrees
<1> QED BY <1>0, <1>1

(***************************************************************************)
(* A callback that returns true has met only NACKs: its partition shares   *)
(* no element with the partitions before it, whose elements stay theirs.   *)
(***************************************************************************)
LEMMA FillPartitionAgrees ==
  ASSUME TypeOK, SchemeAgrees, NEW n \in todo, FillPartition(n)
  PROVE  SchemeAgrees'
<1> DEFINE Hit(k) == \E v \in Walk(parts[n]) : Cell(v[1], v[2]) = k
           Done == DOMAIN parts \ todo
<1>1. /\ pc = "fill" /\ pc' = "fill"
      /\ todo' = todo \ {n}
      /\ arr' = [k \in DOMAIN arr |-> IF Hit(k) THEN parts[n].pipeline ELSE arr[k]]
      /\ UNCHANGED <<cfg, pipelines, parts, strategy, single>>
  BY DEF FillPartition
<1>2. Serving /\ Serving' /\ AfterPartitions /\ AfterPartitions'
  BY <1>1 DEF Serving, AfterPartitions
<1>3. PipelinesAgree' /\ PartitionsAgree'
  BY <1>1, <1>2, PipelinesFrame, PartitionsFrame DEF SchemeAgrees
<1>4. /\ strategy \in {"eraseblock", "page"}
      /\ DOMAIN arr = 0 .. (IF strategy = "page" THEN cfg.sectors * cfg.pagesPerSector
                            ELSE cfg.sectors) - 1
      /\ \A m \in Done : \A v \in Walk(parts[m]) :
           Cell(v[1], v[2]) \in DOMAIN arr => arr[Cell(v[1], v[2])] = parts[m].pipeline
      /\ \A l, m \in Done : \A v \in Walk(parts[l]), w \in Walk(parts[m]) :
           Cell(v[1], v[2]) = Cell(w[1], w[2]) /\ Cell(v[1], v[2]) \in DOMAIN arr => l = m
  BY <1>1 DEF SchemeAgrees, ArrayAgrees
<1>5. \A v \in Walk(parts[n]) : Cell(v[1], v[2]) \in DOMAIN arr => arr[Cell(v[1], v[2])] = NACK
  BY DEF FillPartition, Clashes
<1>6. \A m \in Done : \A v \in Walk(parts[m]) : Cell(v[1], v[2]) \in DOMAIN arr => ~Hit(Cell(v[1], v[2]))
  <2>1. \A m \in Done : parts[m].pipeline # NACK
    BY <1>2, PartitionNotNacked
  <2> QED BY <1>4, <1>5, <2>1
<1>7. n \in DOMAIN parts /\ DOMAIN parts' \ todo' = Done \cup {n}
  BY <1>1 DEF TypeOK
<1>8. DOMAIN arr' = DOMAIN arr
  BY <1>1
<1>9. \A m \in Done \cup {n} : \A v \in Walk(parts[m]) :
        Cell(v[1], v[2]) \in DOMAIN arr => arr'[Cell(v[1], v[2])] = parts[m].pipeline
  <2> SUFFICES ASSUME NEW m \in Done \cup {n}, NEW v \in Walk(parts[m]), Cell(v[1], v[2]) \in DOMAIN arr
               PROVE  arr'[Cell(v[1], v[2])] = parts[m].pipeline
    OBVIOUS
  <2>1. CASE m = n
    BY <1>1, <2>1
  <2>2. CASE m \in Done
    <3>1. ~Hit(Cell(v[1], v[2])) /\ arr[Cell(v[1], v[2])] = parts[m].pipeline
      BY <1>4, <1>6, <2>2
    <3> HIDE DEF Hit
    <3> QED BY <1>1, <3>1
  <2> QED BY <2>1, <2>2
<1>10. \A l, m \in Done \cup {n} : \A v \in Walk(parts[l]), w \in Walk(parts[m]) :
         Cell(v[1], v[2]) = Cell(w[1], w[2]) /\ Cell(v[1], v[2]) \in DOMAIN arr => l = m
  BY <1>4, <1>6
<1>11. /\ \A part : Walk(part)' = Walk(part)
       /\ \A e, p : Cell(e, p)' = Cell(e, p)
  BY <1>1 DEF Walk, Eraseblocks, Pages, Cell, End, U64
<1>12. ArrayAgrees'
  <2> HIDE DEF Done, Hit
  <2>1. DOMAIN arr' = 0 .. (IF strategy' = "page" THEN cfg'.sectors * cfg'.pagesPerSector
                            ELSE cfg'.sectors) - 1
    BY <1>1, <1>4, <1>8
  <2>2. /\ pc' = "fill" /\ strategy' \in {"eraseblock", "page"} /\ parts' = parts
    BY <1>1, <1>4
  <2> QED BY <1>7, <1>8, <1>9, <1>10, <1>11, <2>1, <2>2 DEF ArrayAgrees
<1> QED BY <1>3, <1>12 DEF SchemeAgrees

(* Every step keeps the scheme in agreement with the configuration. *)
LEMMA SchemeAgreesStep == TypeOK /\ SchemeAgrees /\ [Next]_vars => SchemeAgrees'
<1> SUFFICES ASSUME TypeOK, SchemeAgrees, [Next]_vars PROVE SchemeAgrees'
  OBVIOUS
<1>1. CASE StartPipelines
  BY <1>1, StartAgrees
<1>2. CASE AddPipeline
  BY <1>2, AddPipelineAgrees
<1>3. CASE RejectPipeline \/ OutOfMemory
  BY <1>3, FailAgrees DEF RejectPipeline, OutOfMemory
<1>4. CASE PipelinesDone
  BY <1>4, PipelinesDoneAgrees
<1>5. CASE AddPartition
  BY <1>5, AddPartitionAgrees
<1>6. CASE PartitionsDone
  BY <1>6, PartitionsDoneAgrees
<1>7. CASE \E n \in todo : ValidatePartition(n)
  BY <1>7, ValidateAgrees
<1>8. CASE ValidateDone
  <2>1. /\ pc = "validate" /\ todo = {} /\ pc' = "select" /\ todo' = todo
        /\ UNCHANGED <<cfg, pipelines, parts>>
    BY <1>8 DEF ValidateDone
  <2>2. Serving' /\ AfterPartitions /\ AfterPartitions'
    BY <2>1 DEF Serving, AfterPartitions
  <2>3. PipelinesAgree' /\ PartitionsAgree'
    BY <2>1, <2>2, PipelinesFrame, PartitionsFrame DEF SchemeAgrees
  <2>4. ArrayAgrees'
    BY <2>1 DEF ArrayAgrees
  <2> QED BY <2>3, <2>4 DEF SchemeAgrees
<1>9. CASE SelectSingle \/ SelectPerEraseblock \/ SelectPerPage
  BY <1>9, SelectorAgrees
<1>10. CASE \E n \in todo : FillPartition(n)
  BY <1>10, FillPartitionAgrees
<1>11. CASE \E n \in todo : FillClash(n) \/ FillFault(n)
  <2>1. /\ pc' \in {"failed", "crashed"} /\ UNCHANGED <<cfg, pipelines>>
    BY <1>11 DEF FillClash, FillFault
  <2>2. PipelinesAgree'
    BY <2>1 DEF SchemeAgrees, PipelinesAgree, AddedPipelines, AfterPartitions, Serving
  <2>3. PartitionsAgree'
    BY <2>1 DEF PartitionsAgree, AddedPartitions, AfterPartitions, Serving
  <2>4. ArrayAgrees'
    BY <2>1 DEF ArrayAgrees
  <2> QED BY <2>2, <2>3, <2>4 DEF SchemeAgrees
<1>12. CASE FillDone \/ \E e \in 0 .. cfg.sectors - 1, p \in 0 .. cfg.pagesPerSector - 1 : select_pipeline(e, p)
  <2>1. /\ pc \in {"fill", "ready"} /\ pc' = "ready" /\ todo = {} /\ todo' = {}
        /\ strategy # "none"
        /\ UNCHANGED <<cfg, pipelines, parts, strategy, single, arr>>
    BY <1>12 DEF FillDone, select_pipeline, SchemeAgrees, ArrayAgrees
  <2>2. Serving /\ Serving' /\ AfterPartitions /\ AfterPartitions'
    BY <2>1 DEF Serving, AfterPartitions
  <2>3. PipelinesAgree' /\ PartitionsAgree'
    BY <2>1, <2>2, PipelinesFrame, PartitionsFrame DEF SchemeAgrees
  <2>4. /\ \A part : Walk(part)' = Walk(part)
        /\ \A e, p : Cell(e, p)' = Cell(e, p)
    BY <2>1 DEF Walk, Eraseblocks, Pages, Cell, End, U64
  <2>5. ArrayAgrees'
    BY <2>1, <2>4 DEF SchemeAgrees, ArrayAgrees
  <2> QED BY <2>3, <2>5 DEF SchemeAgrees
<1>13. CASE UNCHANGED vars
  <2>1. PipelinesAgree'
    BY <1>13 DEF vars, SchemeAgrees, PipelinesAgree, AddedPipelines, AfterPartitions, Serving
  <2>2. /\ \A part : Walk(part)' = Walk(part)
        /\ \A e, p : Cell(e, p)' = Cell(e, p)
        /\ \A i : Copied(i)' = Copied(i) /\ FixedPartition(Copied(i))' = FixedPartition(Copied(i))
        /\ Serving' = Serving /\ AfterPartitions' = AfterPartitions /\ AddedPartitions' = AddedPartitions
    BY <1>13 DEF vars, Walk, Eraseblocks, Pages, Cell, End, U64, Copied, FixedPartition, Fixed,
                 Serving, AfterPartitions, AddedPartitions
  <2>3. PartitionsAgree'
    BY <1>13, <2>2 DEF vars, SchemeAgrees, PartitionsAgree
  <2>4. ArrayAgrees'
    BY <1>13, <2>2 DEF vars, SchemeAgrees, ArrayAgrees
  <2> QED BY <2>1, <2>3, <2>4 DEF SchemeAgrees
<1> QED BY <1>1, <1>2, <1>3, <1>4, <1>5, <1>6, <1>7, <1>8, <1>9, <1>10, <1>11, <1>12, <1>13
        DEF Next, Initialize

(***************************************************************************)
(* The tables and the array agree with the configuration at every stage of *)
(* the initialisation, whatever the order of the scans.                    *)
(***************************************************************************)
THEOREM SchemeAlwaysAgrees == Spec => []SchemeAgrees
<1>1. Init => SchemeAgrees
  <2> SUFFICES ASSUME Init PROVE SchemeAgrees
    OBVIOUS
  <2>1. pc = "start" /\ DOMAIN pipelines = {} /\ DOMAIN parts = {} /\ idx = 1
    BY DEF Init, Empty
  <2> QED BY <2>1 DEF SchemeAgrees, PipelinesAgree, PartitionsAgree, ArrayAgrees,
                      AddedPipelines, AddedPartitions, AfterPartitions, Serving
<1> QED BY <1>1, SchemeAgreesStep, TypeCorrect, PTL DEF Spec

(***************************************************************************)
(* No pipeline shares its index with another one or with the NACK pipeline *)
(* (initialize_pipelines refuses more than UINT16_MAX - 1 of them).        *)
(***************************************************************************)
THEOREM PipelineIndices == Spec => []IndicesDistinct
<1>1. TypeOK /\ SchemeAgrees => IndicesDistinct
  <2> SUFFICES ASSUME TypeOK, SchemeAgrees PROVE IndicesDistinct
    OBVIOUS
  <2>1. \A n \in DOMAIN pipelines :
          pipelines[n] \in 1 .. Len(cfg.pipelines) /\ cfg.pipelines[pipelines[n]] = n
    BY ConfigType DEF SchemeAgrees, PipelinesAgree, TypeOK
  <2> QED BY <2>1, ConfigType DEF IndicesDistinct, NACK, TypeOK
<1> QED BY <1>1, TypeCorrect, SchemeAlwaysAgrees, PTL

-----------------------------------------------------------------------------
(* The selector *)

(* partition_range_fix_iter and the unsigned comparisons of the callbacks  *)
(* find every element that a configured range holds below the limit.       *)
LEMMA FixedHolds ==
  ASSUME NEW r \in CfgRange, NEW limit \in 1 .. UMax, NEW x \in 0 .. limit - 1,
         Holds(Resolve(r, limit), x)
  PROVE  Fixed(r, limit).start <= x /\ x < End(Fixed(r, limit))
<1>1. CASE r = Absent
  <2>1. r.start = 0 /\ r.length = UMax
    BY <1>1 DEF Absent
  <2>2. limit + UMax + 1 - r.start = limit + UMax + 1
    BY <2>1, UMaxAssumption
  <2>3. U64(limit + UMax + 1 - r.start) = limit
    BY <2>2, U64Wrap, UMaxAssumption
  <2>4. Fixed(r, limit) = [start |-> 0, length |-> limit]
    BY <1>1, <2>1, <2>3 DEF Fixed, Absent
  <2>5. End(Fixed(r, limit)) = limit
    BY <2>4, U64Id, UMaxAssumption DEF End
  <2> QED BY <2>4, <2>5, UMaxAssumption
<1>2. CASE r \in [start : 0 .. IMax, length : 0 .. IMax]
  <2>1. r.start \in 0 .. IMax /\ r.length \in 0 .. IMax /\ r.length # UMax
    BY <1>2, IMaxType
  <2>2. Fixed(r, limit) = r /\ Resolve(r, limit) = r
    BY <2>1 DEF Fixed, Resolve
  <2>3. r.start + r.length \in 0 .. UMax
    BY <2>1, IMaxType, UMaxAssumption
  <2>4. End(r) = r.start + r.length
    BY <2>3, U64Id DEF End
  <2> QED BY <2>2, <2>4 DEF Holds
<1> QED BY <1>1, <1>2 DEF CfgRange

(* The index of the pipeline that a partition names is the one that the     *)
(* specification's reading of the configuration gives it.                  *)
LEMMA NamedIndex ==
  ASSUME TypeOK, SchemeAgrees, Serving, NEW i \in DOMAIN cfg.partitions
  PROVE  /\ cfg.partitions[i].name \in DOMAIN parts
         /\ parts[cfg.partitions[i].name] = FixedPartition(Copied(i))
         /\ parts[cfg.partitions[i].name].pipeline = PipelineIdx(cfg, cfg.partitions[i].pipeline)
<1>1. AddedPartitions = DOMAIN cfg.partitions /\ AddedPipelines = DOMAIN cfg.pipelines /\ AfterPartitions
  BY DEF AddedPartitions, AddedPipelines, AfterPartitions, Serving
<1>2. /\ cfg.partitions[i].name \in DOMAIN parts
      /\ cfg.partitions[i].pipeline \in DOMAIN pipelines
      /\ parts[cfg.partitions[i].name] = FixedPartition(Copied(i))
  BY <1>1 DEF SchemeAgrees, PartitionsAgree
<1> DEFINE name == cfg.partitions[i].pipeline
<1>3. pipelines[name] \in DOMAIN cfg.pipelines /\ cfg.pipelines[pipelines[name]] = name
  BY <1>2 DEF SchemeAgrees, PipelinesAgree
<1>4. \A k \in DOMAIN cfg.pipelines : cfg.pipelines[k] = name => k = pipelines[name]
  BY <1>1 DEF SchemeAgrees, PipelinesAgree
<1>5. PipelineIdx(cfg, name) = pipelines[name]
  <2> HIDE DEF name
  <2> QED BY <1>3, <1>4 DEF PipelineIdx
<1>6. FixedPartition(Copied(i)).pipeline = pipelines[name]
  BY DEF FixedPartition, Copied
<1> QED BY <1>2, <1>5, <1>6

(* e * S + p numbers the pages of the flash below its size. *)
LEMMA PageNumber ==
  ASSUME NEW n \in Nat, NEW S \in Nat, NEW e \in 0 .. n - 1, NEW p \in 0 .. S - 1
  PROVE  e * S + p \in 0 .. n * S - 1
<1>1. n - 1 - e \in Nat
  OBVIOUS
<1>2. (n - 1 - e) * S \in Nat
  BY <1>1
<1>3. (n - 1 - e) * S = n * S - S - e * S
  OBVIOUS
<1>4. e * S \in Nat /\ n * S \in Nat
  OBVIOUS
<1> QED BY <1>2, <1>3, <1>4

(***************************************************************************)
(* A page that a partition of the configuration holds is met by the walk   *)
(* of that partition's callback, at the element that a request looks up.   *)
(***************************************************************************)
LEMMA OwnedIsWalked ==
  ASSUME TypeOK, SchemeAgrees, pc = "ready", strategy # "single",
         NEW e \in 0 .. cfg.sectors - 1, NEW p \in 0 .. cfg.pagesPerSector - 1,
         NEW i \in DOMAIN cfg.partitions, Owns(cfg, i, e, p)
  PROVE  \E v \in Walk(parts[cfg.partitions[i].name]) :
           /\ Cell(v[1], v[2]) = Cell(e, p)
           /\ Cell(e, p) \in DOMAIN arr
<1> DEFINE part == parts[cfg.partitions[i].name]
           r == cfg.partitions[i].eraseblocks
           s == cfg.partitions[i].pages
<1>1. Serving
  BY DEF Serving
<1>2. part.eraseblocks = Fixed(r, cfg.sectors) /\ part.pages = Fixed(s, cfg.pagesPerSector)
  BY <1>1, NamedIndex DEF FixedPartition, Copied
<1>3. /\ r \in CfgRange /\ s \in CfgRange
      /\ cfg.sectors \in 1 .. UMax /\ cfg.pagesPerSector \in 1 .. UMax
  BY ConfigType DEF TypeOK
<1>4. part.eraseblocks.start <= e /\ e < End(part.eraseblocks)
  BY <1>2, <1>3, FixedHolds DEF Owns
<1>5. part.pages.start <= p /\ p < End(part.pages)
  BY <1>2, <1>3, FixedHolds DEF Owns
<1>6. e \in 0 .. UMax /\ p \in 0 .. UMax
  BY <1>3, UMaxAssumption
<1> HIDE DEF part
<1>7. e \in Eraseblocks(part)
  BY <1>4, <1>6 DEF Eraseblocks
<1>8. DOMAIN arr = 0 .. (IF strategy = "page" THEN cfg.sectors * cfg.pagesPerSector
                         ELSE cfg.sectors) - 1
  BY DEF SchemeAgrees, ArrayAgrees
<1>9. CASE strategy = "page"
  <2>1. <<e, p>> \in Walk(part)
    BY <1>5, <1>6, <1>7, <1>9 DEF Walk, Pages
  <2>2. e * cfg.pagesPerSector + p \in DOMAIN arr
    <3>1. cfg.sectors \in Nat /\ cfg.pagesPerSector \in Nat
      BY <1>3, UMaxAssumption
    <3>2. e * cfg.pagesPerSector + p \in 0 .. cfg.sectors * cfg.pagesPerSector - 1
      BY <3>1, PageNumber
    <3>3. DOMAIN arr = 0 .. cfg.sectors * cfg.pagesPerSector - 1
      BY <1>8, <1>9, Zenon
    <3> QED BY <3>2, <3>3, Zenon
  <2>3. Cell(e, p) \in DOMAIN arr
    BY <1>9, <2>2 DEF Cell
  <2> QED BY <2>1, <2>3 DEF part
<1>10. CASE strategy # "page"
  <2>1. <<e, 0>> \in Walk(part)
    BY <1>7, <1>10 DEF Walk, Pages
  <2>2. Cell(e, 0) = e /\ Cell(e, p) = e /\ e \in DOMAIN arr
    BY <1>8, <1>10 DEF Cell
  <2> QED BY <2>1, <2>2 DEF part
<1> QED BY <1>9, <1>10

(* A page of a partition in the configuration belongs to no second one. *)
LEMMA AgreementSharesNoPage == TypeOK /\ SchemeAgrees => NoSharedPage
<1> SUFFICES ASSUME TypeOK, SchemeAgrees, pc = "ready",
                    NEW e \in 0 .. cfg.sectors - 1, NEW p \in 0 .. cfg.pagesPerSector - 1,
                    NEW i \in DOMAIN cfg.partitions, NEW j \in DOMAIN cfg.partitions,
                    Owns(cfg, i, e, p), Owns(cfg, j, e, p)
             PROVE  i = j
  BY DEF NoSharedPage, Disjoint
<1> DEFINE m == cfg.partitions[i].name
           n == cfg.partitions[j].name
<1>1. Serving /\ AddedPartitions = DOMAIN cfg.partitions
  BY DEF Serving, AddedPartitions, AfterPartitions
<1>2. m \in DOMAIN parts /\ n \in DOMAIN parts
  BY <1>1, NamedIndex
<1>3. m = n => i = j
  BY <1>1 DEF SchemeAgrees, PartitionsAgree
<1>4. CASE strategy = "single"
  <2>1. Cardinality(DOMAIN parts) = 1
    BY <1>4 DEF SchemeAgrees, ArrayAgrees
  <2>2. PICK x : DOMAIN parts = {x}
    BY <2>1, <1>1, FinitePartitions, FS_Singleton
  <2> QED BY <1>2, <1>3, <2>2
<1>5. CASE strategy # "single"
  <2>1. PICK v \in Walk(parts[m]) : Cell(v[1], v[2]) = Cell(e, p) /\ Cell(e, p) \in DOMAIN arr
    BY <1>5, OwnedIsWalked
  <2>2. PICK w \in Walk(parts[n]) : Cell(w[1], w[2]) = Cell(e, p)
    BY <1>5, OwnedIsWalked
  <2>3. todo = {}
    BY DEF SchemeAgrees, ArrayAgrees
  <2>4. m = n
    <3> HIDE DEF m, n
    <3> QED BY <1>2, <1>5, <2>1, <2>2, <2>3 DEF SchemeAgrees, ArrayAgrees
  <2> QED BY <1>3, <2>4
<1> QED BY <1>4, <1>5

(* Whichever strategy was chosen, select finds the owner's pipeline. *)
LEMMA AgreementReachesOwner == TypeOK /\ SchemeAgrees => OwnedPagesReachOwner
<1> SUFFICES ASSUME TypeOK, SchemeAgrees, pc = "ready",
                    NEW e \in 0 .. cfg.sectors - 1, NEW p \in 0 .. cfg.pagesPerSector - 1,
                    NEW i \in DOMAIN cfg.partitions, Owns(cfg, i, e, p)
             PROVE  select(e, p) = PipelineIdx(cfg, cfg.partitions[i].pipeline)
  BY DEF OwnedPagesReachOwner, Geometry
<1> DEFINE n == cfg.partitions[i].name
<1>1. Serving
  BY DEF Serving
<1>2. n \in DOMAIN parts /\ parts[n].pipeline = PipelineIdx(cfg, cfg.partitions[i].pipeline)
  BY <1>1, NamedIndex
<1>3. strategy \in {"single", "eraseblock", "page"}
  BY DEF SchemeAgrees, ArrayAgrees, TypeOK, Strategies
<1> HIDE DEF n
<1>4. CASE strategy = "single"
  <2>1. single = parts[n].pipeline
    BY <1>2, <1>4 DEF SchemeAgrees, ArrayAgrees
  <2> QED BY <1>2, <1>4, <2>1 DEF select
<1>5. CASE strategy # "single"
  <2>1. PICK v \in Walk(parts[n]) : Cell(v[1], v[2]) = Cell(e, p) /\ Cell(e, p) \in DOMAIN arr
    BY <1>5, OwnedIsWalked DEF n
  <2>2. arr[Cell(e, p)] = parts[n].pipeline
    BY <1>2, <1>5, <2>1 DEF SchemeAgrees, ArrayAgrees
  <2>3. select(e, p) = arr[Cell(e, p)]
    <3>1. CASE strategy = "eraseblock"
      BY <3>1 DEF select, Cell
    <3>2. CASE strategy = "page"
      <4>1. cfg.pagesPerSector * e + p = e * cfg.pagesPerSector + p
        BY ConfigType, UMaxAssumption DEF TypeOK
      <4> QED BY <3>2, <4>1 DEF select, Cell
    <3> QED BY <1>3, <1>5, <3>1, <3>2
  <2> QED BY <1>2, <2>2, <2>3
<1> QED BY <1>4, <1>5

(***************************************************************************)
(* "We verify that there are no overlapping partitions": for every         *)
(* geometry and configuration, a thread that serves has partitions that    *)
(* share no page.                                                          *)
(***************************************************************************)
THEOREM PartitionsShareNoPage == Spec => []NoSharedPage
  BY AgreementSharesNoPage, TypeCorrect, SchemeAlwaysAgrees, PTL

(***************************************************************************)
(* For every geometry and configuration, a serving thread hands each page  *)
(* of a configured partition to the pipeline that the partition names.     *)
(***************************************************************************)
THEOREM RequestsReachOwner == Spec => []OwnedPagesReachOwner
  BY AgreementReachesOwner, TypeCorrect, SchemeAlwaysAgrees, PTL

-----------------------------------------------------------------------------
(* The inductive invariant behind the theorems below, next to SchemeAgrees: *)
(* what validation left, what the strategies presuppose, and where every   *)
(* element of the array that is not NACK comes from.                       *)

Validated ==
  \A i \in DOMAIN cfg.partitions :
    Serving \/ (pc = "validate" /\ cfg.partitions[i].name \notin todo) =>
      /\ cfg.partitions[i].eraseblocks.length # 0 /\ cfg.partitions[i].pages.length # 0
      /\ End(Fixed(cfg.partitions[i].eraseblocks, cfg.sectors)) <= cfg.sectors

Selecting == pc \in {"fill", "ready"}

StrategyFits ==
  /\ Selecting /\ strategy = "eraseblock" => PerEraseblock
  /\ Selecting /\ strategy = "single" => \A n \in DOMAIN parts : SpansMtd(parts[n])

ElementsTraced ==
  /\ pc \notin {"fill", "ready", "failed", "crashed"} => DOMAIN arr = {}
  /\ Selecting /\ strategy # "single" =>
       \A k \in DOMAIN arr : arr[k] # NACK =>
         \E n \in DOMAIN parts \ todo : \E v \in Walk(parts[n]) : Cell(v[1], v[2]) = k

SelectorInv == Validated /\ StrategyFits /\ ElementsTraced /\ NoOverrun /\ OverlapJustified

-----------------------------------------------------------------------------
(* Ranges and walks *)

(* A range after partition_range_fix_iter, seen through the unsigned        *)
(* arithmetic of the callbacks, is the range the configuration means.      *)
LEMMA FixedResolve ==
  ASSUME NEW r \in CfgRange, NEW limit \in 1 .. UMax
  PROVE  /\ Resolve(r, limit).start \in Nat /\ Resolve(r, limit).length \in Nat
         /\ Fixed(r, limit).start = Resolve(r, limit).start
         /\ End(Fixed(r, limit)) = Resolve(r, limit).start + Resolve(r, limit).length
         /\ r.length # 0 => Resolve(r, limit).length > 0
<1>1. CASE r = Absent
  <2>1. r.start = 0 /\ r.length = UMax
    BY <1>1 DEF Absent
  <2>2. limit + UMax + 1 - r.start = limit + UMax + 1
    BY <2>1, UMaxAssumption
  <2>3. U64(limit + UMax + 1 - r.start) = limit
    BY <2>2, U64Wrap, UMaxAssumption
  <2>4. Fixed(r, limit) = [start |-> 0, length |-> limit]
    BY <1>1, <2>1, <2>3 DEF Fixed, Absent
  <2>5. End(Fixed(r, limit)) = limit
    BY <2>4, U64Id, UMaxAssumption DEF End
  <2>6. Resolve(r, limit) = [start |-> 0, length |-> limit]
    BY <2>1, UMaxAssumption DEF Resolve
  <2> QED
    BY <2>4, <2>5, <2>6, UMaxAssumption
<1>2. CASE r \in [start : 0 .. IMax, length : 0 .. IMax]
  <2>1. r.start \in 0 .. IMax /\ r.length \in 0 .. IMax /\ r.length # UMax
    BY <1>2, IMaxType
  <2>2. Fixed(r, limit) = r /\ Resolve(r, limit) = r
    BY <2>1 DEF Fixed, Resolve
  <2>3. r.start + r.length \in 0 .. UMax
    BY <2>1, IMaxType, UMaxAssumption
  <2>4. End(r) = r.start + r.length
    BY <2>3, U64Id DEF End
  <2> QED
    BY <2>1, <2>2, <2>4, IMaxType
<1> QED
  BY <1>1, <1>2 DEF CfgRange

(* Every partition of the table comes from a section of the configuration. *)
LEMMA PartitionOf ==
  ASSUME TypeOK, SchemeAgrees, Serving, NEW n \in DOMAIN parts
  PROVE  \E i \in DOMAIN cfg.partitions : n = cfg.partitions[i].name
BY DEF SchemeAgrees, PartitionsAgree, AddedPartitions, AfterPartitions, Serving

(* e * S + p determines e and p < S. *)
LEMMA PageNumberUnique ==
  ASSUME NEW S \in Nat, NEW e \in Nat, NEW f \in Nat,
         NEW p \in 0 .. S - 1, NEW q \in 0 .. S - 1, e * S + p = f * S + q
  PROVE  e = f /\ p = q
<1>1. ASSUME NEW a \in Nat, NEW b \in Nat, NEW x \in 0 .. S - 1, NEW y \in 0 .. S - 1,
             a * S + x = b * S + y
      PROVE  ~(a < b)
  <2> SUFFICES ASSUME a < b PROVE FALSE
    OBVIOUS
  <2>1. b - a - 1 \in Nat
    OBVIOUS
  <2>2. (b - a - 1) * S \in Nat
    BY <2>1
  <2>3. (b - a - 1) * S = b * S - a * S - S
    OBVIOUS
  <2>4. a * S \in Nat /\ b * S \in Nat
    OBVIOUS
  <2> QED
    BY <1>1, <2>2, <2>3, <2>4
<1>2. ~(e < f) /\ ~(f < e)
  BY <1>1
<1>3. e = f
  BY <1>2
<1>4. e * S \in Nat
  OBVIOUS
<1> QED
  BY <1>3, <1>4

(* The ranges that the callback of a configured partition walks. *)
LEMMA WalkedRanges ==
  ASSUME TypeOK, SchemeAgrees, Serving, NEW i \in DOMAIN cfg.partitions
  PROVE  LET part == parts[cfg.partitions[i].name]
             r == Resolve(cfg.partitions[i].eraseblocks, cfg.sectors)
             s == Resolve(cfg.partitions[i].pages, cfg.pagesPerSector)
         IN /\ part.eraseblocks.start = r.start /\ End(part.eraseblocks) = r.start + r.length
            /\ part.pages.start = s.start /\ End(part.pages) = s.start + s.length
            /\ r.start \in Nat /\ r.length \in Nat /\ s.start \in Nat /\ s.length \in Nat
<1>1. /\ parts[cfg.partitions[i].name].eraseblocks = Fixed(cfg.partitions[i].eraseblocks, cfg.sectors)
      /\ parts[cfg.partitions[i].name].pages = Fixed(cfg.partitions[i].pages, cfg.pagesPerSector)
  BY NamedIndex DEF FixedPartition, Copied
<1>2. /\ cfg.partitions[i].eraseblocks \in CfgRange /\ cfg.partitions[i].pages \in CfgRange
      /\ cfg.sectors \in 1 .. UMax /\ cfg.pagesPerSector \in 1 .. UMax
  BY ConfigType DEF TypeOK
<1> QED
  BY <1>1, <1>2, FixedResolve

(***************************************************************************)
(* With page ranges that fit, a walk stays inside the array and visits     *)
(* pages of its own partition only, each of them once.                     *)
(***************************************************************************)
LEMMA WalkOwns ==
  ASSUME TypeOK, SchemeAgrees, Validated, StrategyFits, PagesFit(cfg), Selecting,
         strategy \in {"eraseblock", "page"},
         NEW i \in DOMAIN cfg.partitions, NEW v \in Walk(parts[cfg.partitions[i].name])
  PROVE  /\ v[1] \in 0 .. cfg.sectors - 1
         /\ v[2] \in 0 .. cfg.pagesPerSector - 1
         /\ v = <<v[1], v[2]>>
         /\ strategy = "page" => Owns(cfg, i, v[1], v[2])
         /\ strategy = "eraseblock" =>
              v[2] = 0 /\ \A p \in 0 .. cfg.pagesPerSector - 1 : Owns(cfg, i, v[1], p)
         /\ Cell(v[1], v[2]) \in DOMAIN arr
<1> DEFINE part == parts[cfg.partitions[i].name]
           r == Resolve(cfg.partitions[i].eraseblocks, cfg.sectors)
           s == Resolve(cfg.partitions[i].pages, cfg.pagesPerSector)
<1>1. Serving
  BY DEF Selecting, Serving
<1>2. /\ part.eraseblocks.start = r.start /\ End(part.eraseblocks) = r.start + r.length
      /\ part.pages.start = s.start /\ End(part.pages) = s.start + s.length
      /\ r.start \in Nat /\ r.length \in Nat /\ s.start \in Nat /\ s.length \in Nat
  BY <1>1, WalkedRanges
<1>3. cfg.sectors \in 1 .. UMax /\ cfg.pagesPerSector \in 1 .. UMax
  BY ConfigType DEF TypeOK
<1>4. part.eraseblocks = Fixed(cfg.partitions[i].eraseblocks, cfg.sectors)
  BY <1>1, NamedIndex DEF FixedPartition, Copied
<1>5. End(part.eraseblocks) <= cfg.sectors
  BY <1>1, <1>4 DEF Validated
<1>6. s.start + s.length <= cfg.pagesPerSector
  BY DEF PagesFit
<1>7. part = parts[cfg.partitions[i].name]
  OBVIOUS
<1>8. cfg.partitions[i].name \in DOMAIN parts
  BY <1>1, NamedIndex
<1>9. Owns(cfg, i, v[1], v[2]) <=> Holds(r, v[1]) /\ Holds(s, v[2])
  BY DEF Owns
<1>10. \A p : Owns(cfg, i, v[1], p) <=> Holds(r, v[1]) /\ Holds(s, p)
  BY DEF Owns
<1>11. DOMAIN arr = 0 .. (IF strategy = "page" THEN cfg.sectors * cfg.pagesPerSector
                          ELSE cfg.sectors) - 1
  BY DEF SchemeAgrees, ArrayAgrees, Selecting
<1>12. v[1] \in Eraseblocks(part) /\ v[2] \in Pages(part) /\ v = <<v[1], v[2]>>
  BY DEF Walk
<1>13. SpansEraseblock(part) \/ strategy = "page"
  BY <1>8 DEF StrategyFits, PerEraseblock
<1> HIDE DEF part, r, s
<1>14. v[1] \in 0 .. cfg.sectors - 1 /\ Holds(r, v[1])
  BY <1>2, <1>3, <1>5, <1>12, UMaxAssumption DEF Eraseblocks, Holds
<1>15. CASE strategy = "page"
  <2>1. v[2] \in 0 .. cfg.pagesPerSector - 1 /\ Holds(s, v[2])
    BY <1>2, <1>3, <1>6, <1>12, <1>15, UMaxAssumption DEF Pages, Holds
  <2>2. v[1] * cfg.pagesPerSector + v[2] \in 0 .. cfg.sectors * cfg.pagesPerSector - 1
    <3>1. cfg.sectors \in Nat /\ cfg.pagesPerSector \in Nat
      BY <1>3, UMaxAssumption
    <3> QED
      BY <1>14, <2>1, <3>1, PageNumber
  <2>3. DOMAIN arr = 0 .. cfg.sectors * cfg.pagesPerSector - 1
    BY <1>11, <1>15, Zenon
  <2>4. Cell(v[1], v[2]) \in DOMAIN arr
    <3>1. Cell(v[1], v[2]) = v[1] * cfg.pagesPerSector + v[2]
      BY <1>15 DEF Cell
    <3> QED
      BY <2>2, <2>3, <3>1, Zenon
  <2> QED
    BY <1>9, <1>12, <1>14, <1>15, <2>1, <2>4
<1>16. CASE strategy = "eraseblock"
  <2>1. v[2] = 0
    BY <1>12, <1>16 DEF Pages
  <2>2. \A p \in 0 .. cfg.pagesPerSector - 1 : Holds(s, p)
    BY <1>2, <1>3, <1>13, <1>16, UMaxAssumption DEF SpansEraseblock, Holds
  <2>3. Cell(v[1], v[2]) = v[1] /\ v[1] \in DOMAIN arr
    BY <1>11, <1>14, <1>16 DEF Cell
  <2>4. 0 \in 0 .. cfg.pagesPerSector - 1
    BY <1>3, UMaxAssumption
  <2> QED
    BY <1>10, <1>12, <1>14, <1>16, <2>1, <2>2, <2>3, <2>4
<1> QED
  BY <1>15, <1>16

(* Two steps of walks that look at one element look at one page. *)
LEMMA SameCell ==
  ASSUME TypeOK, SchemeAgrees, Validated, StrategyFits, PagesFit(cfg), Selecting,
         strategy \in {"eraseblock", "page"},
         NEW i \in DOMAIN cfg.partitions, NEW v \in Walk(parts[cfg.partitions[i].name]),
         NEW j \in DOMAIN cfg.partitions, NEW w \in Walk(parts[cfg.partitions[j].name]),
         Cell(v[1], v[2]) = Cell(w[1], w[2])
  PROVE  v[1] = w[1] /\ v[2] = w[2]
<1>1. /\ v[1] \in 0 .. cfg.sectors - 1 /\ v[2] \in 0 .. cfg.pagesPerSector - 1
      /\ strategy = "eraseblock" => v[2] = 0
  BY WalkOwns
<1>2. /\ w[1] \in 0 .. cfg.sectors - 1 /\ w[2] \in 0 .. cfg.pagesPerSector - 1
      /\ strategy = "eraseblock" => w[2] = 0
  BY WalkOwns
<1>3. CASE strategy = "page"
  <2>1. v[1] * cfg.pagesPerSector + v[2] = w[1] * cfg.pagesPerSector + w[2]
    BY <1>3 DEF Cell
  <2>2. cfg.pagesPerSector \in Nat /\ v[1] \in Nat /\ w[1] \in Nat
    BY <1>1, <1>2, ConfigType DEF TypeOK
  <2> DEFINE S == cfg.pagesPerSector
             e == v[1]
             f == w[1]
             p == v[2]
             q == w[2]
  <2>3. S \in Nat /\ e \in Nat /\ f \in Nat /\ p \in 0 .. S - 1 /\ q \in 0 .. S - 1
    BY <1>1, <1>2, <2>2
  <2>4. e * S + p = f * S + q
    BY <2>1
  <2> HIDE DEF S, e, f, p, q
  <2>5. e = f /\ p = q
    BY <2>3, <2>4, PageNumberUnique
  <2> QED
    BY <2>5 DEF e, f, p, q
<1>4. CASE strategy = "eraseblock"
  BY <1>1, <1>2, <1>4 DEF Cell
<1> QED
  BY <1>3, <1>4

(* With page ranges that fit no walk leaves the array, and one that meets  *)
(* an element taken shares a page with another partition.                  *)
LEMMA ClashJustified ==
  ASSUME TypeOK, SchemeAgrees, Validated, StrategyFits, ElementsTraced, PagesFit(cfg),
         pc = "fill", NEW n \in todo
  PROVE  /\ ~ReachesStray(parts[n])
         /\ (\E v \in Walk(parts[n]) : Clashes(parts[n], v)) => ~Disjoint(cfg)
<1>1. Serving /\ Selecting /\ strategy \in {"eraseblock", "page"} /\ n \in DOMAIN parts
  BY DEF Serving, Selecting, SchemeAgrees, ArrayAgrees, TypeOK
<1>2. PICK i \in DOMAIN cfg.partitions : n = cfg.partitions[i].name
  BY <1>1, PartitionOf
<1>3. \A v \in Walk(parts[n]) : ~Stray(v)
  BY <1>1, <1>2, WalkOwns DEF Stray
<1>4. ASSUME NEW v \in Walk(parts[n]), Clashes(parts[n], v)
      PROVE  ~Disjoint(cfg)
  <2>1. ~\E w \in Walk(parts[n]) : Earlier(w, v) /\ Cell(w[1], w[2]) = Cell(v[1], v[2])
    <3> SUFFICES ASSUME NEW w \in Walk(parts[n]), Earlier(w, v), Cell(w[1], w[2]) = Cell(v[1], v[2])
                 PROVE  FALSE
      OBVIOUS
    <3>1. v[1] \in Nat /\ v[2] \in Nat
      BY <1>1, <1>2, WalkOwns
    <3>2. w[1] = v[1] /\ w[2] = v[2]
      BY <1>1, <1>2, SameCell
    <3> QED
      BY <3>1, <3>2 DEF Earlier
  <2>2. Cell(v[1], v[2]) \in DOMAIN arr /\ arr[Cell(v[1], v[2])] # NACK
    BY <1>4, <2>1 DEF Clashes
  <2>3. PICK m \in DOMAIN parts \ todo :
          \E w \in Walk(parts[m]) : Cell(w[1], w[2]) = Cell(v[1], v[2])
    BY <1>1, <2>2 DEF ElementsTraced
  <2> PICK w \in Walk(parts[m]) : Cell(w[1], w[2]) = Cell(v[1], v[2])
    BY <2>3
  <2>4. PICK j \in DOMAIN cfg.partitions : m = cfg.partitions[j].name
    BY <1>1, PartitionOf
  <2>5. i # j
    BY <1>2, <2>3, <2>4
  <2>6. w[1] = v[1] /\ w[2] = v[2]
    BY <1>1, <1>2, <2>3, <2>4, SameCell
  <2>7. /\ v[1] \in 0 .. cfg.sectors - 1 /\ v[2] \in 0 .. cfg.pagesPerSector - 1
        /\ Owns(cfg, i, v[1], v[2])
    BY <1>1, <1>2, WalkOwns
  <2>8. Owns(cfg, j, w[1], w[2])
    <3>1. w[2] \in 0 .. cfg.pagesPerSector - 1
      BY <2>6, <2>7
    <3> QED
      BY <1>1, <2>3, <2>4, <3>1, WalkOwns
  <2> QED
    BY <2>5, <2>6, <2>7, <2>8 DEF Disjoint
<1> QED
  BY <1>3, <1>4 DEF ReachesStray

-----------------------------------------------------------------------------
(* The invariant holds *)

(* A refusal for another reason than an overlap. *)
LEMMA FailSelector ==
  ASSUME SelectorInv, NEW code, Fail(code), code # "OVERLAPPING_PARTITION_RANGES",
         pc \notin {"fill", "ready"}
  PROVE  SelectorInv'
<1>1. pc' = "failed" /\ rc' = code /\ UNCHANGED <<cfg, overrun, arr>>
  BY DEF Fail
<1>2. Validated' /\ StrategyFits' /\ ElementsTraced'
  BY <1>1 DEF Validated, Serving, StrategyFits, Selecting, ElementsTraced
<1>3. NoOverrun' /\ OverlapJustified'
  BY <1>1 DEF SelectorInv, NoOverrun, OverlapJustified
<1> QED
  BY <1>2, <1>3 DEF SelectorInv

(* A step before the array exists. *)
LEMMA EarlySelector ==
  ASSUME SelectorInv, pc \in {"start", "pipelines", "partitions", "validate"},
         pc' \in {"pipelines", "partitions", "validate", "select"},
         UNCHANGED <<cfg, rc, arr, overrun>>, Validated'
  PROVE  SelectorInv'
<1>1. StrategyFits' /\ ElementsTraced'
  BY DEF SelectorInv, StrategyFits, Selecting, ElementsTraced
<1>2. NoOverrun' /\ OverlapJustified'
  BY DEF SelectorInv, NoOverrun, OverlapJustified
<1> QED
  BY <1>1, <1>2 DEF SelectorInv

(* partition_range_fix_iter lets a partition pass that has no empty range   *)
(* and ends inside the flash.                                              *)
LEMMA ValidateSelector ==
  ASSUME TypeOK, SchemeAgrees, SelectorInv, NEW n \in todo, ValidatePartition(n)
  PROVE  SelectorInv'
<1>0. CASE Fail("PARTITION_BOUNDARY_VIOLATION")
  BY <1>0, FailSelector DEF ValidatePartition
<1>1. CASE ~Fail("PARTITION_BOUNDARY_VIOLATION")
  <2>1. /\ pc = "validate" /\ pc' = "validate" /\ todo' = todo \ {n}
        /\ UNCHANGED <<cfg, rc, arr, overrun>>
        /\ parts[n].eraseblocks.length # 0 /\ parts[n].pages.length # 0
        /\ End(FixedPartition(parts[n]).eraseblocks) <= cfg.sectors
    BY <1>1 DEF ValidatePartition, WithinLimits
  <2>2. AddedPartitions = DOMAIN cfg.partitions /\ ~Serving
    BY <2>1 DEF AddedPartitions, AfterPartitions, Serving
  <2>3. Validated'
    <3> SUFFICES ASSUME NEW i \in DOMAIN cfg.partitions, cfg.partitions[i].name \notin todo'
                 PROVE  /\ cfg.partitions[i].eraseblocks.length # 0
                        /\ cfg.partitions[i].pages.length # 0
                        /\ End(Fixed(cfg.partitions[i].eraseblocks, cfg.sectors)) <= cfg.sectors
      BY <2>1 DEF Validated, Serving, End, Fixed, U64
    <3>1. CASE cfg.partitions[i].name = n
      <4>1. parts[n] = Copied(i)
        BY <2>1, <2>2, <3>1 DEF SchemeAgrees, PartitionsAgree
      <4>2. /\ parts[n].eraseblocks = cfg.partitions[i].eraseblocks
            /\ parts[n].pages = cfg.partitions[i].pages
            /\ FixedPartition(parts[n]).eraseblocks = Fixed(cfg.partitions[i].eraseblocks, cfg.sectors)
        BY <4>1 DEF Copied, FixedPartition
      <4> QED
        BY <2>1, <4>2
    <3>2. CASE cfg.partitions[i].name # n
      BY <2>1, <3>2 DEF SelectorInv, Validated
    <3> QED
      BY <3>1, <3>2
  <2> QED
    BY <2>1, <2>3, EarlySelector
<1> QED
  BY <1>0, <1>1

(* From the end of the scan on what it established stays. *)
LEMMA ValidatedFrame ==
  ASSUME Validated, cfg' = cfg, Serving \/ (pc = "validate" /\ todo = {})
  PROVE  Validated'
BY DEF Validated, End, Fixed, U64

LEMMA ChooseSelector ==
  TypeOK /\ SchemeAgrees /\ SelectorInv /\ (SelectSingle \/ SelectPerEraseblock \/ SelectPerPage)
    => SelectorInv'
<1> SUFFICES ASSUME TypeOK, SchemeAgrees, SelectorInv,
                    SelectSingle \/ SelectPerEraseblock \/ SelectPerPage
             PROVE  SelectorInv'
  OBVIOUS
<1>0. CASE Fail("MULTIPLICATION_WOULD_OVERFLOW")
  <2>1. pc = "select"
    BY DEF SelectSingle, SelectPerEraseblock, SelectPerPage
  <2> QED
    BY <1>0, <2>1, FailSelector
<1>1. CASE ~Fail("MULTIPLICATION_WOULD_OVERFLOW")
  <2>1. pc = "select" /\ pc' \in {"fill", "ready"} /\ UNCHANGED <<cfg, rc, parts, overrun>>
    BY <1>1 DEF SelectSingle, SelectPerEraseblock, SelectPerPage
  <2>2. Validated'
    BY <2>1, ValidatedFrame DEF SelectorInv, Serving
  <2>3. NoOverrun' /\ OverlapJustified'
    BY <2>1 DEF SelectorInv, NoOverrun, OverlapJustified
  <2>4. \A part : (SpansMtd(part)' <=> SpansMtd(part)) /\ (SpansEraseblock(part)' <=> SpansEraseblock(part))
    BY <2>1 DEF SpansMtd, SpansEraseblock, End, U64
  <2>5. StrategyFits' /\ ElementsTraced'
    <3>1. CASE SelectSingle
      <4>1. strategy' = "single" /\ (\A m \in DOMAIN parts : SpansMtd(parts[m]))'
        BY <2>1, <2>4, <3>1 DEF SelectSingle, SingleSpanning
      <4> QED
        BY <2>1, <4>1 DEF StrategyFits, ElementsTraced
    <3>2. CASE SelectPerEraseblock
      <4>1. /\ strategy' = "eraseblock" /\ (\A m \in DOMAIN parts : SpansEraseblock(parts[m]))'
            /\ \A k \in DOMAIN arr' : arr'[k] = NACK
        BY <2>1, <2>4, <3>2 DEF SelectPerEraseblock, PerEraseblock
      <4> QED
        BY <2>1, <4>1 DEF StrategyFits, PerEraseblock, ElementsTraced
    <3>3. CASE SelectPerPage
      <4>1. strategy' = "page" /\ \A k \in DOMAIN arr' : arr'[k] = NACK
        BY <1>1, <3>3 DEF SelectPerPage
      <4> QED
        BY <2>1, <4>1 DEF StrategyFits, ElementsTraced
    <3> QED
      BY <3>1, <3>2, <3>3
  <2> QED
    BY <2>2, <2>3, <2>5 DEF SelectorInv
<1> QED
  BY <1>0, <1>1

(* A callback that returns true leaves an array whose elements all have an *)
(* origin; with page ranges that fit it has not left the array.            *)
LEMMA FillSelector ==
  ASSUME TypeOK, SchemeAgrees, SelectorInv, NEW n \in todo, FillPartition(n)
  PROVE  SelectorInv'
<1> DEFINE Hit(k) == \E v \in Walk(parts[n]) : Cell(v[1], v[2]) = k
<1>1. /\ pc = "fill" /\ pc' = "fill" /\ todo' = todo \ {n}
      /\ arr' = [k \in DOMAIN arr |-> IF Hit(k) THEN parts[n].pipeline ELSE arr[k]]
      /\ overrun' = (overrun \/ ReachesStray(parts[n]))
      /\ UNCHANGED <<cfg, rc, parts, strategy>>
  BY DEF FillPartition
<1>2. Serving /\ Selecting /\ n \in DOMAIN parts
  BY <1>1 DEF Serving, Selecting, TypeOK
<1>3. Validated'
  BY <1>1, <1>2, ValidatedFrame DEF SelectorInv
<1>4. StrategyFits'
  <2>1. \A part : (SpansMtd(part)' <=> SpansMtd(part)) /\ (SpansEraseblock(part)' <=> SpansEraseblock(part))
    BY <1>1 DEF SpansMtd, SpansEraseblock, End, U64
  <2> QED
    BY <1>1, <1>2, <2>1 DEF SelectorInv, StrategyFits, PerEraseblock, Selecting
<1>5. ElementsTraced'
  <2>1. /\ \A part : Walk(part)' = Walk(part)
        /\ \A e, p : Cell(e, p)' = Cell(e, p)
    BY <1>1 DEF Walk, Eraseblocks, Pages, Cell, End, U64
  <2> SUFFICES ASSUME strategy # "single", NEW k \in DOMAIN arr, arr'[k] # NACK
               PROVE  \E m \in DOMAIN parts \ (todo \ {n}) :
                        \E v \in Walk(parts[m]) : Cell(v[1], v[2]) = k
    BY <1>1, <2>1 DEF ElementsTraced
  <2>2. CASE Hit(k)
    BY <1>2, <2>2
  <2>3. CASE ~Hit(k)
    <3>1. arr[k] # NACK
      BY <1>1, <2>3
    <3>2. \E m \in DOMAIN parts \ todo : \E v \in Walk(parts[m]) : Cell(v[1], v[2]) = k
      BY <1>2, <3>1 DEF SelectorInv, ElementsTraced
    <3> QED
      BY <3>2
  <2> QED
    BY <2>2, <2>3
<1>6. NoOverrun'
  <2>1. PagesFit(cfg) => ~ReachesStray(parts[n])
    BY <1>1, ClashJustified DEF SelectorInv
  <2> QED
    BY <1>1, <2>1 DEF SelectorInv, NoOverrun
<1>7. OverlapJustified'
  BY <1>1 DEF SelectorInv, OverlapJustified
<1> QED
  BY <1>3, <1>4, <1>5, <1>6, <1>7 DEF SelectorInv

(* A callback that returns false. *)
LEMMA ClashSelector ==
  ASSUME TypeOK, SchemeAgrees, SelectorInv, NEW n \in todo, FillClash(n) \/ FillFault(n)
  PROVE  SelectorInv'
<1>1. pc = "fill" /\ pc' \in {"failed", "crashed"} /\ cfg' = cfg
  BY DEF FillClash, FillFault
<1>2. Validated' /\ StrategyFits' /\ ElementsTraced'
  BY <1>1 DEF Validated, Serving, StrategyFits, Selecting, ElementsTraced
<1>3. PagesFit(cfg) =>
        /\ ~ReachesStray(parts[n])
        /\ (\E v \in Walk(parts[n]) : Clashes(parts[n], v)) => ~Disjoint(cfg)
  BY <1>1, ClashJustified DEF SelectorInv
<1>4. NoOverrun'
  BY <1>1, <1>3 DEF SelectorInv, NoOverrun, FillClash, FillFault
<1>5. OverlapJustified'
  BY <1>1, <1>3 DEF SelectorInv, OverlapJustified, FillClash, FillFault
<1> QED
  BY <1>2, <1>4, <1>5 DEF SelectorInv

(* A step that leaves the finished selector as it is. *)
LEMMA ReadySelector ==
  ASSUME SelectorInv, pc \in {"fill", "ready"}, pc' = "ready",
         UNCHANGED <<cfg, rc, parts, todo, strategy, arr, overrun>>
  PROVE  SelectorInv'
<1>1. Validated'
  BY ValidatedFrame DEF SelectorInv, Serving
<1>2. /\ \A part : (SpansMtd(part)' <=> SpansMtd(part)) /\ (SpansEraseblock(part)' <=> SpansEraseblock(part))
      /\ \A part : Walk(part)' = Walk(part)
      /\ \A e, p : Cell(e, p)' = Cell(e, p)
  BY DEF SpansMtd, SpansEraseblock, Walk, Eraseblocks, Pages, Cell, End, U64
<1>3. StrategyFits'
  BY <1>2 DEF SelectorInv, StrategyFits, PerEraseblock, Selecting
<1>4. ElementsTraced'
  BY <1>2 DEF SelectorInv, ElementsTraced, Selecting
<1>5. NoOverrun' /\ OverlapJustified'
  BY DEF SelectorInv, NoOverrun, OverlapJustified
<1> QED
  BY <1>1, <1>3, <1>4, <1>5 DEF SelectorInv

LEMMA SelectorStep == TypeOK /\ SchemeAgrees /\ SelectorInv /\ [Next]_vars => SelectorInv'
<1> SUFFICES ASSUME TypeOK, SchemeAgrees, SelectorInv, [Next]_vars PROVE SelectorInv'
  OBVIOUS
<1>0. CASE \E code : Fail(code) /\ code # "OVERLAPPING_PARTITION_RANGES" /\ pc \notin {"fill", "ready"}
  BY <1>0, FailSelector
<1>1. CASE StartPipelines
  <2>1. CASE Fail("HAS_NO_PIPELINES") \/ Fail("PIPELINE_INDEX_OVERFLOW")
    BY <1>0, <1>1, <2>1 DEF StartPipelines
  <2>2. CASE ~(Fail("HAS_NO_PIPELINES") \/ Fail("PIPELINE_INDEX_OVERFLOW"))
    <3>1. pc = "start" /\ pc' = "pipelines" /\ UNCHANGED <<cfg, rc, arr, overrun>>
      BY <1>1, <2>2 DEF StartPipelines
    <3> QED
      BY <3>1, EarlySelector DEF Validated, Serving
  <2> QED
    BY <2>1, <2>2
<1>2. CASE AddPipeline
  <2>1. CASE Fail("HASHTABLE_HAS_EXISTING_ENTRY")
    BY <1>0, <1>2, <2>1 DEF AddPipeline
  <2>2. CASE ~Fail("HASHTABLE_HAS_EXISTING_ENTRY")
    <3>1. pc = "pipelines" /\ pc' = "pipelines" /\ UNCHANGED <<cfg, rc, arr, overrun>>
      BY <1>2, <2>2 DEF AddPipeline
    <3> QED
      BY <3>1, EarlySelector DEF Validated, Serving
  <2> QED
    BY <2>1, <2>2
<1>3. CASE RejectPipeline \/ OutOfMemory
  BY <1>0, <1>3 DEF RejectPipeline, OutOfMemory
<1>4. CASE PipelinesDone
  <2>1. pc = "pipelines" /\ pc' = "partitions" /\ UNCHANGED <<cfg, rc, arr, overrun>>
    BY <1>4 DEF PipelinesDone
  <2> QED
    BY <2>1, EarlySelector DEF Validated, Serving
<1>5. CASE AddPartition
  <2>1. pc = "partitions"
    BY <1>5 DEF AddPartition
  <2>2. CASE Fail("PIPELINE_NOT_FOUND") \/ Fail("ADDITION_WOULD_OVERFLOW") \/ Fail("HASHTABLE_HAS_EXISTING_ENTRY")
    BY <1>0, <2>1, <2>2
  <2>3. CASE ~(Fail("PIPELINE_NOT_FOUND") \/ Fail("ADDITION_WOULD_OVERFLOW") \/ Fail("HASHTABLE_HAS_EXISTING_ENTRY"))
    <3>1. pc' = pc /\ UNCHANGED <<cfg, rc, arr, overrun>>
      BY <1>5, <2>3 DEF AddPartition
    <3> QED
      BY <2>1, <3>1, EarlySelector DEF Validated, Serving
  <2> QED
    BY <2>2, <2>3
<1>6. CASE PartitionsDone
  <2>1. CASE Fail("HAS_NO_PARTITIONS")
    BY <1>0, <1>6, <2>1 DEF PartitionsDone
  <2>2. CASE ~Fail("HAS_NO_PARTITIONS")
    <3>1. /\ pc = "partitions" /\ idx > Len(cfg.partitions) /\ pc' = "validate"
          /\ todo' = DOMAIN parts /\ UNCHANGED <<cfg, rc, arr, overrun>>
      BY <1>6, <2>2 DEF PartitionsDone
    <3>2. DOMAIN cfg.partitions \subseteq 1 .. idx - 1
      BY <3>1, ConfigType DEF TypeOK
    <3>3. \A i \in DOMAIN cfg.partitions : cfg.partitions[i].name \in todo'
      BY <3>1, <3>2 DEF SchemeAgrees, PartitionsAgree, AddedPartitions
    <3>4. Validated'
      BY <3>1, <3>3 DEF Validated, Serving
    <3> QED
      BY <3>1, <3>4, EarlySelector
  <2> QED
    BY <2>1, <2>2
<1>7. CASE \E n \in todo : ValidatePartition(n)
  BY <1>7, ValidateSelector
<1>8. CASE ValidateDone
  <2>1. pc = "validate" /\ todo = {} /\ pc' = "select" /\ UNCHANGED <<cfg, rc, arr, overrun>>
    BY <1>8 DEF ValidateDone
  <2>2. Validated'
    BY <2>1, ValidatedFrame DEF SelectorInv
  <2> QED
    BY <2>1, <2>2, EarlySelector
<1>9. CASE SelectSingle \/ SelectPerEraseblock \/ SelectPerPage
  BY <1>9, ChooseSelector
<1>10. CASE \E n \in todo : FillPartition(n)
  BY <1>10, FillSelector
<1>11. CASE \E n \in todo : FillClash(n) \/ FillFault(n)
  BY <1>11, ClashSelector
<1>12. CASE FillDone \/ \E e \in 0 .. cfg.sectors - 1, p \in 0 .. cfg.pagesPerSector - 1 : select_pipeline(e, p)
  BY <1>12, ReadySelector DEF FillDone, select_pipeline
<1>13. CASE UNCHANGED vars
  <2>1. /\ \A part : (SpansMtd(part)' <=> SpansMtd(part)) /\ (SpansEraseblock(part)' <=> SpansEraseblock(part))
        /\ \A part : Walk(part)' = Walk(part)
        /\ \A e, p : Cell(e, p)' = Cell(e, p)
        /\ (Serving' <=> Serving) /\ (Selecting' <=> Selecting)
    BY <1>13 DEF vars, SpansMtd, SpansEraseblock, Walk, Eraseblocks, Pages, Cell, End, U64,
                 Serving, Selecting
  <2>2. Validated'
    BY <1>13, <2>1 DEF vars, SelectorInv, Validated, End, Fixed, U64
  <2>3. StrategyFits' /\ ElementsTraced'
    BY <1>13, <2>1 DEF vars, SelectorInv, StrategyFits, PerEraseblock, ElementsTraced
  <2>4. NoOverrun' /\ OverlapJustified'
    BY <1>13 DEF vars, SelectorInv, NoOverrun, OverlapJustified
  <2> QED
    BY <2>2, <2>3, <2>4 DEF SelectorInv
<1> QED
  BY <1>1, <1>2, <1>3, <1>4, <1>5, <1>6, <1>7, <1>8, <1>9, <1>10, <1>11, <1>12, <1>13
  DEF Next, Initialize

LEMMA SelectorInvariant == Spec => []SelectorInv
<1>1. Init => SelectorInv
  <2> SUFFICES ASSUME Init PROVE SelectorInv
    OBVIOUS
  <2>1. pc = "start" /\ rc = "SUCCESS" /\ overrun = FALSE /\ DOMAIN arr = {}
    BY DEF Init, Empty
  <2> QED
    BY <2>1 DEF SelectorInv, Validated, Serving, StrategyFits, Selecting, ElementsTraced,
                NoOverrun, OverlapJustified
<1> QED
  BY <1>1, SelectorStep, TypeCorrect, SchemeAlwaysAgrees, PTL DEF Spec

(***************************************************************************)
(* For every configuration whose page ranges fit an eraseblock, no callback *)
(* of initialize_pipeline_selector leaves demux.arr.                       *)
(***************************************************************************)
THEOREM WalksStayInside == Spec => []NoOverrun
<1>1. SelectorInv => NoOverrun
  BY DEF SelectorInv
<1> QED
  BY <1>1, SelectorInvariant, PTL

(***************************************************************************)
(* Partitions that share no page are never refused as overlapping,         *)
(* whatever the order of hashmap_scan.                                     *)
(***************************************************************************)
THEOREM OverlapsAreReal == Spec => []OverlapJustified
<1>1. SelectorInv => OverlapJustified
  BY DEF SelectorInv
<1> QED
  BY <1>1, SelectorInvariant, PTL

-----------------------------------------------------------------------------
(* The ranges that the overflow tests look at. *)

LEMMA NoRangeWraps == \A r \in CfgRange : ~addition_u64_would_overflow(r)
<1> SUFFICES ASSUME NEW r \in CfgRange PROVE ~addition_u64_would_overflow(r)
  OBVIOUS
<1>1. CASE r = Absent
  BY <1>1, UMaxAssumption DEF Absent, addition_u64_would_overflow
<1>2. CASE r \in [start : 0 .. IMax, length : 0 .. IMax]
  BY <1>2, UMaxAssumption, IMaxType DEF addition_u64_would_overflow
<1> QED
  BY <1>1, <1>2 DEF CfgRange

(* What a refusal for such a sum leaves behind. *)
StaleInv ==
  /\ pc \in {"start", "pipelines"} => parts = Empty
  /\ pc = "partitions" /\ idx = 1 => parts = Empty
  /\ rc = "ADDITION_WOULD_OVERFLOW" => pc = "failed" /\ idx = 1 /\ parts = Empty

LEMMA StaleAdd == TypeOK /\ StaleInv /\ AddPartition => StaleInv'
<1> SUFFICES ASSUME TypeOK, StaleInv, AddPartition PROVE StaleInv'
  OBVIOUS
<1>1. pc = "partitions" /\ idx <= Len(cfg.partitions) /\ idx \in Nat \ {0} /\ rc # "ADDITION_WOULD_OVERFLOW"
  BY DEF AddPartition, TypeOK, StaleInv
<1>2. CASE Fail("ADDITION_WOULD_OVERFLOW")
  <2>1. idx = 1
    <3> SUFFICES ASSUME idx # 1 PROVE FALSE
      OBVIOUS
    <3>1. idx - 1 \in 1 .. Len(cfg.partitions)
      BY <1>1, ConfigType DEF TypeOK
    <3>2. cfg.partitions[idx - 1].eraseblocks \in CfgRange /\ cfg.partitions[idx - 1].pages \in CfgRange
      BY <3>1, ConfigType DEF TypeOK
    <3>3. StaleRangeOverflows(idx) = {FALSE}
      BY <3>2, NoRangeWraps DEF StaleRangeOverflows
    <3> QED
      BY <1>2, <3>3, Zenon DEF AddPartition, Fail
  <2> QED
    BY <1>1, <1>2, <2>1 DEF Fail, StaleInv
<1>3. CASE rc' # "ADDITION_WOULD_OVERFLOW"
  <2>1. pc' = "failed" \/ (pc' = pc /\ idx' = idx + 1)
    BY Zenon DEF AddPartition, Fail
  <2> QED
    BY <1>1, <1>3, <2>1 DEF StaleInv
<1> QED
  BY <1>1, <1>2, <1>3, Zenon DEF AddPartition, Fail

LEMMA StaleStep == TypeOK /\ StaleInv /\ [Next]_vars => StaleInv'
<1> SUFFICES ASSUME TypeOK, StaleInv, [Next]_vars PROVE StaleInv'
  OBVIOUS
<1>1. CASE StartPipelines \/ RejectPipeline
  BY <1>1 DEF StartPipelines, RejectPipeline, Fail, StaleInv
<1>2. CASE AddPipeline
  <2>1. /\ pc = "pipelines" /\ parts' = parts
        /\ (pc' = pc /\ rc' = rc) \/ (pc' = "failed" /\ rc' = "HASHTABLE_HAS_EXISTING_ENTRY")
    BY <1>2, Zenon DEF AddPipeline, Fail
  <2> QED
    BY <2>1 DEF StaleInv
<1>3. CASE PipelinesDone
  BY <1>3 DEF PipelinesDone, StaleInv
<1>4. CASE AddPartition
  BY <1>4, StaleAdd
<1>5. CASE PartitionsDone \/ ValidateDone
  BY <1>5 DEF PartitionsDone, ValidateDone, Fail, StaleInv
<1>6. ASSUME NEW n \in todo, ValidatePartition(n) PROVE StaleInv'
  <2>1. pc = "validate" /\ ((pc' = pc /\ rc' = rc) \/ (pc' = "failed" /\ rc' = "PARTITION_BOUNDARY_VIOLATION"))
    BY <1>6, Zenon DEF ValidatePartition, Fail
  <2> QED
    BY <2>1 DEF StaleInv
<1>7. CASE SelectSingle \/ SelectPerEraseblock \/ SelectPerPage
  BY <1>7 DEF SelectSingle, SelectPerEraseblock, SelectPerPage, Fail, StaleInv
<1>8. ASSUME NEW n \in todo, FillPartition(n) \/ FillClash(n) \/ FillFault(n) PROVE StaleInv'
  BY <1>8 DEF FillPartition, FillClash, FillFault, StaleInv
<1>9. CASE FillDone
  BY <1>9 DEF FillDone, StaleInv
<1>10. CASE OutOfMemory
  BY <1>10 DEF OutOfMemory, Fail, StaleInv
<1>11. ASSUME NEW e, NEW p, select_pipeline(e, p) PROVE StaleInv'
  BY <1>11 DEF select_pipeline, StaleInv
<1>12. CASE UNCHANGED vars
  BY <1>12 DEF vars, StaleInv
<1> QED
  BY <1>1, <1>2, <1>3, <1>4, <1>5, <1>6, <1>7, <1>8, <1>9, <1>10, <1>11, <1>12 DEF Next, Initialize

(***************************************************************************)
(* No configuration is refused for the ranges that an earlier partition    *)
(* left in the object whose ranges add_partition_details tests.            *)
(***************************************************************************)
THEOREM StaleRangesRefuseNothing == Spec => []StaleRangesHarmless
<1>1. Init => StaleInv
  BY DEF Init, StaleInv
<1>2. StaleInv => StaleRangesHarmless
  BY DEF StaleInv, StaleRangesHarmless
<1> QED
  BY <1>1, <1>2, StaleStep, TypeCorrect, PTL DEF Spec

-----------------------------------------------------------------------------
(* Requests *)

(* A request looks at the element that the walks name after its page. *)
LEMMA SelectIsElement ==
  ASSUME TypeOK, SchemeAgrees, pc = "ready", strategy # "single",
         NEW e \in 0 .. cfg.sectors - 1, NEW p \in 0 .. cfg.pagesPerSector - 1
  PROVE  /\ strategy \in {"eraseblock", "page"}
         /\ select(e, p) = arr[Cell(e, p)]
         /\ Cell(e, p) \in DOMAIN arr
<1>1. strategy \in {"eraseblock", "page"}
  BY DEF SchemeAgrees, ArrayAgrees, TypeOK, Strategies
<1>2. DOMAIN arr = 0 .. (IF strategy = "page" THEN cfg.sectors * cfg.pagesPerSector
                         ELSE cfg.sectors) - 1
  BY DEF SchemeAgrees, ArrayAgrees
<1>3. cfg.sectors \in Nat /\ cfg.pagesPerSector \in Nat
  BY ConfigType DEF TypeOK
<1>4. CASE strategy = "eraseblock"
  BY <1>1, <1>2, <1>4 DEF select, Cell
<1>5. CASE strategy = "page"
  <2>1. cfg.pagesPerSector * e + p = e * cfg.pagesPerSector + p
    BY <1>3
  <2>2. select(e, p) = arr[Cell(e, p)]
    BY <1>5, <2>1 DEF select, Cell
  <2>3. e * cfg.pagesPerSector + p \in 0 .. cfg.sectors * cfg.pagesPerSector - 1
    BY <1>3, PageNumber
  <2>4. DOMAIN arr = 0 .. cfg.sectors * cfg.pagesPerSector - 1
    BY <1>2, <1>5, Zenon
  <2>5. Cell(e, p) = e * cfg.pagesPerSector + p
    BY <1>5 DEF Cell
  <2>6. Cell(e, p) \in DOMAIN arr
    BY <2>3, <2>4, <2>5, Zenon
  <2> QED
    BY <1>5, <2>2, <2>6
<1> QED
  BY <1>1, <1>4, <1>5

(* The only partition of the single strategy owns every page. *)
LEMMA SingleOwns ==
  ASSUME TypeOK, SchemeAgrees, SelectorInv, pc = "ready", strategy = "single",
         NEW e \in 0 .. cfg.sectors - 1, NEW p \in 0 .. cfg.pagesPerSector - 1
  PROVE  \E i \in DOMAIN cfg.partitions : Owns(cfg, i, e, p)
<1>1. Serving /\ Selecting
  BY DEF Serving, Selecting
<1>2. Cardinality(DOMAIN parts) = 1
  BY DEF SchemeAgrees, ArrayAgrees
<1>3. DOMAIN parts # {}
  BY <1>2, FS_EmptySet
<1>4. PICK n \in DOMAIN parts : TRUE
  BY <1>3
<1>5. PICK i \in DOMAIN cfg.partitions : n = cfg.partitions[i].name
  BY <1>1, <1>4, PartitionOf
<1> DEFINE part == parts[n]
           r == Resolve(cfg.partitions[i].eraseblocks, cfg.sectors)
           s == Resolve(cfg.partitions[i].pages, cfg.pagesPerSector)
<1>6. /\ part.eraseblocks.start = r.start /\ End(part.eraseblocks) = r.start + r.length
      /\ part.pages.start = s.start /\ End(part.pages) = s.start + s.length
      /\ r.start \in Nat /\ r.length \in Nat /\ s.start \in Nat /\ s.length \in Nat
  BY <1>1, <1>5, WalkedRanges
<1>7. SpansMtd(part)
  BY <1>1 DEF SelectorInv, StrategyFits
<1>8. Holds(r, e) /\ Holds(s, p) => Owns(cfg, i, e, p)
  BY DEF Owns
<1> HIDE DEF part, r, s
<1>9. Holds(r, e) /\ Holds(s, p)
  BY <1>6, <1>7 DEF SpansMtd, SpansEraseblock, Holds
<1> QED
  BY <1>8, <1>9

(* An element that is not NACK stands for a page with an owner. *)
LEMMA AgreementNacksUnowned ==
  TypeOK /\ SchemeAgrees /\ SelectorInv => UnownedPagesNacked
<1> SUFFICES ASSUME TypeOK, SchemeAgrees, SelectorInv, pc = "ready", PagesFit(cfg),
                    NEW e \in 0 .. cfg.sectors - 1, NEW p \in 0 .. cfg.pagesPerSector - 1,
                    select(e, p) # NACK
             PROVE  \E i \in DOMAIN cfg.partitions : Owns(cfg, i, e, p)
  BY DEF UnownedPagesNacked, Geometry
<1>1. CASE strategy = "single"
  BY <1>1, SingleOwns
<1>2. CASE strategy # "single"
  <2>1. /\ strategy \in {"eraseblock", "page"} /\ select(e, p) = arr[Cell(e, p)]
        /\ Cell(e, p) \in DOMAIN arr
    BY <1>2, SelectIsElement
  <2>2. Serving /\ Selecting
    BY DEF Serving, Selecting
  <2>3. PICK n \in DOMAIN parts \ todo : \E v \in Walk(parts[n]) : Cell(v[1], v[2]) = Cell(e, p)
    BY <1>2, <2>1, <2>2 DEF SelectorInv, ElementsTraced
  <2> PICK v \in Walk(parts[n]) : Cell(v[1], v[2]) = Cell(e, p)
    BY <2>3
  <2>4. PICK i \in DOMAIN cfg.partitions : n = cfg.partitions[i].name
    BY <2>2, PartitionOf
  <2>5. /\ v[1] \in 0 .. cfg.sectors - 1 /\ v[2] \in 0 .. cfg.pagesPerSector - 1
        /\ strategy = "page" => Owns(cfg, i, v[1], v[2])
        /\ strategy = "eraseblock" => \A q \in 0 .. cfg.pagesPerSector - 1 : Owns(cfg, i, v[1], q)
    BY <2>1, <2>2, <2>4, WalkOwns DEF SelectorInv
  <2>6. CASE strategy = "page"
    <3> DEFINE S == cfg.pagesPerSector
               f == v[1]
               q == v[2]
    <3>1. S \in Nat /\ e \in Nat /\ f \in Nat /\ p \in 0 .. S - 1 /\ q \in 0 .. S - 1
      BY <2>5, ConfigType DEF TypeOK
    <3>2. e * S + p = f * S + q
      BY <2>6 DEF Cell
    <3> HIDE DEF S, f, q
    <3>3. e = f /\ p = q
      BY <3>1, <3>2, PageNumberUnique
    <3> QED
      BY <2>5, <2>6, <3>3 DEF f, q
  <2>7. CASE strategy = "eraseblock"
    BY <2>5, <2>7 DEF Cell
  <2> QED
    BY <2>1, <2>6, <2>7
<1> QED
  BY <1>1, <1>2

(***************************************************************************)
(* For every configuration whose page ranges fit an eraseblock, a page     *)
(* outside of every partition goes to the automatic NACK pipeline.         *)
(***************************************************************************)
THEOREM OtherPagesNacked == Spec => []UnownedPagesNacked
BY AgreementNacksUnowned, SelectorInvariant, TypeCorrect, SchemeAlwaysAgrees, PTL

(***************************************************************************)
(* No callback overwrites an element that another one has set.             *)
(***************************************************************************)
THEOREM NoElementOverwritten == Spec => ElementsWrittenOnce
<1> DEFINE Kept == \A k \in DOMAIN arr : arr[k] # NACK => k \in DOMAIN arr' /\ arr'[k] = arr[k]
<1>1. SelectorInv /\ [Next]_vars => [Kept]_vars
  <2> SUFFICES ASSUME SelectorInv, Next PROVE Kept
    OBVIOUS
  <2>1. CASE SelectPerEraseblock \/ SelectPerPage
    <3>1. DOMAIN arr = {}
      BY <2>1 DEF SelectPerEraseblock, SelectPerPage, SelectorInv, ElementsTraced
    <3> QED
      BY <3>1
  <2>2. CASE \E n \in todo : FillPartition(n)
    <3> PICK n \in todo : FillPartition(n)
      BY <2>2
    <3> SUFFICES ASSUME NEW k \in DOMAIN arr, arr[k] # NACK
                 PROVE  k \in DOMAIN arr' /\ arr'[k] = arr[k]
      OBVIOUS
    <3>1. ~\E v \in Walk(parts[n]) : Cell(v[1], v[2]) = k
      BY DEF FillPartition, Clashes
    <3> QED
      BY <3>1 DEF FillPartition
  <2>3. CASE ~(SelectPerEraseblock \/ SelectPerPage) /\ ~\E n \in todo : FillPartition(n)
    <3>1. arr' = arr
      <4>1. CASE StartPipelines \/ AddPipeline \/ RejectPipeline \/ PipelinesDone
        BY <4>1 DEF StartPipelines, AddPipeline, RejectPipeline, PipelinesDone, Fail
      <4>2. CASE AddPartition \/ PartitionsDone
        BY <4>2 DEF AddPartition, PartitionsDone, Fail
      <4>3. CASE (\E n \in todo : ValidatePartition(n)) \/ ValidateDone \/ SelectSingle
        BY <4>3 DEF ValidatePartition, ValidateDone, SelectSingle, Fail
      <4>4. CASE (\E n \in todo : FillClash(n) \/ FillFault(n)) \/ FillDone \/ OutOfMemory
        BY <4>4 DEF FillClash, FillFault, FillDone, OutOfMemory, Fail
      <4>5. CASE \E e \in 0 .. cfg.sectors - 1, p \in 0 .. cfg.pagesPerSector - 1 : select_pipeline(e, p)
        BY <4>5 DEF select_pipeline
      <4> QED
        BY <2>3, <4>1, <4>2, <4>3, <4>4, <4>5 DEF Next, Initialize
    <3> QED
      BY <3>1
  <2> QED
    BY <2>1, <2>2, <2>3
<1> QED
  BY <1>1, SelectorInvariant, PTL DEF Spec, ElementsWrittenOnce

-----------------------------------------------------------------------------
(* Demux implements PageMap *)

(* The status that PageMap sees. *)
Status == CASE pc = "ready" -> "serving"
            [] pc \in {"failed", "crashed"} -> "refused"
            [] OTHER -> "starting"

LEMMA StatusOf ==
  /\ pc = "ready" => Status = "serving"
  /\ pc \in {"failed", "crashed"} => Status = "refused"
  /\ pc \notin {"ready", "failed", "crashed"} => Status = "starting"
BY DEF Status

LEMMA StatusOfNext ==
  /\ pc' = "ready" => Status' = "serving"
  /\ pc' \in {"failed", "crashed"} => Status' = "refused"
  /\ pc' \notin {"ready", "failed", "crashed"} => Status' = "starting"
BY DEF Status

(* PageMap's steps in terms of Status. *)
LEMMA AbstractSteps ==
  /\ Status = "starting" /\ Status' = "refused" /\ UNCHANGED <<cfg, sel>> => PM!Refuse
  /\ /\ Status = "starting" /\ Status' = "serving" /\ UNCHANGED <<cfg, sel>>
     /\ Disjoint(cfg) /\ (PagesFit(cfg) => Inside(cfg))
     => PM!Start
  /\ \A e, p, i :
       /\ Status = "serving" /\ Status' = "serving" /\ cfg' = cfg
       /\ i \in 0 .. Len(cfg.pipelines)
       /\ Owner(cfg, e, p) # NACK \/ PagesFit(cfg) => i = Owner(cfg, e, p)
       /\ sel' = [eraseblock |-> e, page |-> p, pipeline |-> i]
       => PM!Request(e, p)
  /\ Status' = Status /\ UNCHANGED <<cfg, sel>> => UNCHANGED PM!vars
<1>1. Status = "starting" /\ Status' = "refused" /\ UNCHANGED <<cfg, sel>> => PM!Refuse
  BY DEF PM!Refuse, Status
<1>2. /\ Status = "starting" /\ Status' = "serving" /\ UNCHANGED <<cfg, sel>>
      /\ Disjoint(cfg) /\ (PagesFit(cfg) => Inside(cfg))
      => PM!Start
  <2>1. PM!Disjoint(cfg) <=> Disjoint(cfg)
    BY DEF PM!Disjoint, Disjoint, PM!Owns, Owns, PM!Holds, Holds, PM!Resolve, Resolve
  <2>2. PM!PagesFit(cfg) <=> PagesFit(cfg)
    BY DEF PM!PagesFit, PagesFit, PM!Resolve, Resolve
  <2>3. PM!Inside(cfg) <=> Inside(cfg)
    BY DEF PM!Inside, Inside, PM!Fits, Fits, PM!Resolve, Resolve
  <2> QED
    BY <2>1, <2>2, <2>3 DEF PM!Start, Status
<1>3. ASSUME NEW e, NEW p, NEW i \in 0 .. Len(cfg.pipelines),
             Status = "serving", Status' = "serving", cfg' = cfg,
             Owner(cfg, e, p) # NACK \/ PagesFit(cfg) => i = Owner(cfg, e, p),
             sel' = [eraseblock |-> e, page |-> p, pipeline |-> i]
      PROVE  PM!Request(e, p)
  <2>1. PM!Owner(cfg, e, p) = Owner(cfg, e, p)
    BY DEF PM!Owner, Owner, PM!Owns, Owns, PM!Holds, Holds, PM!Resolve, Resolve,
           PM!PipelineIdx, PipelineIdx, PM!NACK, NACK
  <2>2. PM!PagesFit(cfg) <=> PagesFit(cfg)
    BY DEF PM!PagesFit, PagesFit, PM!Resolve, Resolve
  <2>3. PM!NACK = NACK
    BY DEF PM!NACK, NACK
  <2>4. Status' = Status
    BY <1>3
  <2> QED
    BY <1>3, <2>1, <2>2, <2>3, <2>4 DEF PM!Request, Status
<1>4. Status' = Status /\ UNCHANGED <<cfg, sel>> => UNCHANGED PM!vars
  BY DEF PM!vars, Status
<1> QED
  BY <1>1, <1>2, <1>3, <1>4, Zenon

(* A configuration that is served lies inside the flash if its page ranges *)
(* fit.                                                                    *)
LEMMA ServedInside ==
  ASSUME TypeOK, SchemeAgrees, Validated, Serving, PagesFit(cfg)
  PROVE  Inside(cfg)
<1> SUFFICES ASSUME NEW i \in DOMAIN cfg.partitions
             PROVE  /\ Fits(Resolve(cfg.partitions[i].eraseblocks, cfg.sectors), cfg.sectors)
                    /\ Fits(Resolve(cfg.partitions[i].pages, cfg.pagesPerSector), cfg.pagesPerSector)
  BY DEF Inside
<1> DEFINE a == cfg.partitions[i].eraseblocks
           b == cfg.partitions[i].pages
           r == Resolve(a, cfg.sectors)
           s == Resolve(b, cfg.pagesPerSector)
<1>1. a \in CfgRange /\ b \in CfgRange /\ cfg.sectors \in 1 .. UMax /\ cfg.pagesPerSector \in 1 .. UMax
  BY ConfigType DEF TypeOK
<1>2. a.length # 0 /\ b.length # 0 /\ End(Fixed(a, cfg.sectors)) <= cfg.sectors
  BY DEF Validated
<1>3. s.start + s.length <= cfg.pagesPerSector
  BY DEF PagesFit
<1>4. r.length > 0 /\ s.length > 0 /\ End(Fixed(a, cfg.sectors)) = r.start + r.length
  BY <1>1, <1>2, FixedResolve
<1> QED
  BY <1>2, <1>3, <1>4 DEF Fits

(* A request is handed to a pipeline that exists: the owner's if the page   *)
(* has one, else the NACK pipeline if the page ranges fit.                 *)
LEMMA SelectAnswers ==
  ASSUME TypeOK, SchemeAgrees, SelectorInv, pc = "ready",
         NEW e \in 0 .. cfg.sectors - 1, NEW p \in 0 .. cfg.pagesPerSector - 1
  PROVE  /\ select(e, p) \in 0 .. Len(cfg.pipelines)
         /\ Owner(cfg, e, p) # NACK \/ PagesFit(cfg) => select(e, p) = Owner(cfg, e, p)
<1>1. Serving /\ Selecting
  BY DEF Serving, Selecting
<1>2. \A n \in DOMAIN parts : parts[n].pipeline \in 0 .. Len(cfg.pipelines)
  <2> SUFFICES ASSUME NEW n \in DOMAIN parts
               PROVE  parts[n].pipeline \in 0 .. Len(cfg.pipelines)
    OBVIOUS
  <2>1. PICK i \in DOMAIN cfg.partitions : n = cfg.partitions[i].name
    BY <1>1, PartitionOf
  <2>2. parts[n].pipeline = pipelines[cfg.partitions[i].pipeline]
    BY <1>1, <2>1, NamedIndex DEF FixedPartition, Copied
  <2>3. cfg.partitions[i].pipeline \in DOMAIN pipelines
    BY <1>1 DEF SchemeAgrees, PartitionsAgree, AddedPartitions, AfterPartitions
  <2>4. pipelines[cfg.partitions[i].pipeline] \in 1 .. Len(cfg.pipelines)
    BY <2>3, ConfigType DEF SchemeAgrees, PipelinesAgree, TypeOK
  <2> QED
    BY <2>2, <2>4, ConfigType DEF TypeOK
<1>3. select(e, p) \in 0 .. Len(cfg.pipelines)
  <2>1. CASE strategy = "single"
    <3>1. Cardinality(DOMAIN parts) = 1 /\ \A n \in DOMAIN parts : single = parts[n].pipeline
      BY <2>1 DEF SchemeAgrees, ArrayAgrees
    <3>2. DOMAIN parts # {}
      BY <3>1, FS_EmptySet
    <3>3. single \in 0 .. Len(cfg.pipelines)
      BY <1>2, <3>1, <3>2
    <3> QED
      BY <2>1, <3>3 DEF select
  <2>2. CASE strategy # "single"
    <3>1. select(e, p) = arr[Cell(e, p)] /\ Cell(e, p) \in DOMAIN arr
      BY <2>2, SelectIsElement
    <3>2. CASE arr[Cell(e, p)] = NACK
      BY <3>1, <3>2, ConfigType DEF NACK, TypeOK
    <3>3. CASE arr[Cell(e, p)] # NACK
      <4>1. PICK n \in DOMAIN parts \ todo : \E v \in Walk(parts[n]) : Cell(v[1], v[2]) = Cell(e, p)
        BY <1>1, <2>2, <3>1, <3>3 DEF SelectorInv, ElementsTraced
      <4>2. arr[Cell(e, p)] = parts[n].pipeline
        BY <1>1, <2>2, <3>1, <4>1 DEF Selecting, SchemeAgrees, ArrayAgrees
      <4> QED
        BY <1>2, <3>1, <4>2
    <3> QED
      BY <3>2, <3>3
  <2> QED
    BY <2>1, <2>2
<1>4. CASE \E i \in DOMAIN cfg.partitions : Owns(cfg, i, e, p)
  <2> DEFINE i == CHOOSE i \in DOMAIN cfg.partitions : Owns(cfg, i, e, p)
  <2>1. i \in DOMAIN cfg.partitions /\ Owns(cfg, i, e, p)
    BY <1>4
  <2>2. Owner(cfg, e, p) = PipelineIdx(cfg, cfg.partitions[i].pipeline)
    BY <1>4 DEF Owner
  <2> HIDE DEF i
  <2>3. <<e, p>> \in Geometry
    BY DEF Geometry
  <2>4. select(e, p) = PipelineIdx(cfg, cfg.partitions[i].pipeline)
    BY <2>1, <2>3, AgreementReachesOwner DEF OwnedPagesReachOwner
  <2> QED
    BY <1>3, <2>2, <2>4
<1>5. CASE ~\E i \in DOMAIN cfg.partitions : Owns(cfg, i, e, p)
  <2>1. Owner(cfg, e, p) = NACK
    BY <1>5 DEF Owner
  <2>2. PagesFit(cfg) => select(e, p) = NACK
    <3>1. <<e, p>> \in Geometry
      BY DEF Geometry
    <3> QED
      BY <1>5, <3>1, AgreementNacksUnowned DEF UnownedPagesNacked
  <2> QED
    BY <1>3, <2>1, <2>2
<1> QED
  BY <1>4, <1>5

(* What the steps of Demux look like from outside. *)
LEMMA ConcreteSteps ==
  ASSUME Initialize
  PROVE  /\ pc \notin {"ready", "failed", "crashed"}
         /\ UNCHANGED <<cfg, sel>>
<1>1. CASE StartPipelines \/ AddPipeline \/ RejectPipeline \/ PipelinesDone
  BY <1>1 DEF StartPipelines, AddPipeline, RejectPipeline, PipelinesDone, Fail
<1>2. CASE AddPartition \/ PartitionsDone
  BY <1>2 DEF AddPartition, PartitionsDone, Fail
<1>3. CASE (\E n \in todo : ValidatePartition(n)) \/ ValidateDone
  BY <1>3 DEF ValidatePartition, ValidateDone, Fail
<1>4. CASE SelectSingle \/ SelectPerEraseblock \/ SelectPerPage
  BY <1>4 DEF SelectSingle, SelectPerEraseblock, SelectPerPage, Fail
<1>5. CASE \E n \in todo : FillPartition(n) \/ FillClash(n) \/ FillFault(n)
  BY <1>5 DEF FillPartition, FillClash, FillFault
<1>6. CASE FillDone \/ OutOfMemory
  BY <1>6 DEF FillDone, OutOfMemory, Fail
<1> QED
  BY <1>1, <1>2, <1>3, <1>4, <1>5, <1>6 DEF Initialize

LEMMA RefinementStep ==
  ASSUME TypeOK, SchemeAgrees, SelectorInv, TypeOK', SchemeAgrees', SelectorInv', [Next]_vars
  PROVE  [PM!Next]_(PM!vars)
<1>1. CASE Initialize
  <2>1. pc \notin {"ready", "failed", "crashed"} /\ UNCHANGED <<cfg, sel>>
    BY <1>1, ConcreteSteps
  <2>2. CASE pc' = "ready"
    <3>1. Disjoint(cfg)
      <4>1. NoSharedPage'
        BY AgreementSharesNoPage, PTL
      <4> QED
        BY <2>1, <2>2, <4>1 DEF NoSharedPage
    <3>2. PagesFit(cfg) => Inside(cfg)
      <4>1. (Validated /\ Serving /\ PagesFit(cfg) => Inside(cfg))'
        BY ServedInside, PTL
      <4> QED
        BY <2>1, <2>2, <4>1 DEF SelectorInv, Serving
    <3>3. PM!Start
      BY <2>1, <2>2, <3>1, <3>2, StatusOf, StatusOfNext, AbstractSteps
    <3> QED
      BY <3>3 DEF PM!Next
  <2>3. CASE pc' \in {"failed", "crashed"}
    <3>1. PM!Refuse
      BY <2>1, <2>3, StatusOf, StatusOfNext, AbstractSteps
    <3> QED
      BY <3>1 DEF PM!Next
  <2>4. CASE pc' \notin {"ready", "failed", "crashed"}
    BY <2>1, <2>4, StatusOf, StatusOfNext, AbstractSteps
  <2> QED
    BY <2>2, <2>3, <2>4
<1>2. CASE \E e \in 0 .. cfg.sectors - 1, p \in 0 .. cfg.pagesPerSector - 1 : select_pipeline(e, p)
  <2> PICK e \in 0 .. cfg.sectors - 1, p \in 0 .. cfg.pagesPerSector - 1 : select_pipeline(e, p)
    BY <1>2
  <2>1. /\ pc = "ready" /\ pc' = "ready" /\ cfg' = cfg
        /\ sel' = [eraseblock |-> e, page |-> p, pipeline |-> select(e, p)]
    BY DEF select_pipeline
  <2>2. /\ select(e, p) \in 0 .. Len(cfg.pipelines)
        /\ Owner(cfg, e, p) # NACK \/ PagesFit(cfg) => select(e, p) = Owner(cfg, e, p)
    BY <2>1, SelectAnswers
  <2>3. PM!Request(e, p)
    BY <2>1, <2>2, StatusOf, StatusOfNext, AbstractSteps
  <2> QED
    BY <2>3 DEF PM!Next
<1>3. CASE UNCHANGED vars
  <2>1. pc' = pc /\ UNCHANGED <<cfg, sel>>
    BY <1>3 DEF vars
  <2>2. Status' = Status
    BY <2>1 DEF Status
  <2> QED
    BY <2>1, <2>2, AbstractSteps
<1> QED
  BY <1>1, <1>2, <1>3 DEF Next

(***************************************************************************)
(* initialize_pipeline_selector and select_pipeline implement the page map *)
(* for every geometry, configuration, order of the scans and strategy.     *)
(***************************************************************************)
THEOREM SelectorImplementsPageMap == Spec => ImplementsPageMap
<1>1. Init => PM!Init
  <2> SUFFICES ASSUME Init PROVE PM!Init
    OBVIOUS
  <2>1. Status = "starting" /\ cfg \in Configs /\ sel = NoRequest
    BY StatusOf DEF Init
  <2> QED
    BY <2>1 DEF PM!Init, Status
<1>2. /\ TypeOK /\ SchemeAgrees /\ SelectorInv /\ TypeOK' /\ SchemeAgrees' /\ SelectorInv'
      /\ [Next]_vars
      => [PM!Next]_(PM!vars)
  BY RefinementStep
<1> QED
  BY <1>1, <1>2, TypeCorrect, SchemeAlwaysAgrees, SelectorInvariant, PTL
  DEF Spec, ImplementsPageMap, PM!Spec

=============================================================================
