# A TLA+ development of ufedmd

`ufedmd` is a user-space daemon that sits behind the `ufedm` kernel module: the
kernel hands it raw NAND pages, and it turns them into data and OOB (reads) or
the other way round (writes) as a JSON configuration says. This directory holds
TLA+ modules of its core, TLC configurations that check them on small instances,
and TLAPS proofs, for every size, about the selector, the hash table, the Hamming code,
the page layout, the requests and their round trip, the daemon's life cycle and the codec parameters. `PROJECT.json`
lists the runs, the correspondence between definitions and source lines, the
hazards, the findings and the theorems. Paths below are relative to the
repository's root.

## 1. Inventory

### The parts and how they interact

```
 configuration file ──► config/ (parser) ──► g_cfg_scheme  (read by all threads)
                                                  │
 kernel queues ──► proxy library ──► worker thread: __thread_priv_create
                                                  │ initialize_nand_pipeline_scheme
                                                  ▼
        codecs ─► pipelines (page layout, spans, codec contexts) ─► partitions
                                                  │
                                                  ▼
                     demux: select ─► read_process / write_process ─► answer
```

| Part | Source | State | Operations |
|---|---|---|---|
| Configuration parser | `src/config/` | `g_cfg_scheme`: sections of codecs, pipelines, partitions | parse a section, refuse a document, destroy |
| Hash table | `src/common/hashmap.c` | bucket array, count, lower capacity, `oom` | new, set, get, delete, clear, scan, grow, shrink |
| Codecs | `src/pipeline/codec.c`, `codecs/` | parameters of a codec object | init (handle and revert parameters), size checks, `on_read`, `on_write` |
| Page layout | `src/pipeline/scheme.c` 870-1130 | parts, table of spans, span buffers | `add_pipeline_layout_parts` |
| Pipeline construction | `src/pipeline/scheme.c` 430-870, 1130-1350 | mappings, codec contexts, index | `create_pipeline_obj`, `set_request_mappings`, `add_pipeline_{read,write}_codec` |
| Selector ("demux") | `src/pipeline/scheme.c` 1350-1880 | tables of pipelines and partitions, strategy, index array | `initialize_pipelines`, `initialize_partitions`, `initialize_pipeline_selector`, `select_pipeline` |
| Request processing | `src/pipeline/queues.c` | one scheme per thread; span buffers survive a request | `read_process`, `write_process`, creation and teardown of a thread's scheme |
| Scheme of a thread | `src/pipeline/scheme.c` 240-330, 1150-1190, 1460-1880 | everything above, per thread; the static `pipeline0` and `pipeline0_initialized`, shared | `initialize_nand_pipeline_scheme`, `fixup_pipeline0_once`, `destroy_nand_pipeline_scheme` |
| Daemon | `src/main.c`, `src/params.c`, `src/pipeline/queues.c` 280-343 | `stop`, the device, the queues | arguments, handler, device, configuration, queues, polling, stop |
| Kernel module, proxy library, flash | not in this repository | – | external; modelled as `queues.c` uses them |

Every thread builds a scheme of its own from the shared, by then constant,
configuration; tables and span buffers are private to a thread. Threads meet only
on the flash, on the kernel's queues, and on the static `pipeline0`.

### What is hard here

* **Order.** Partitions are visited in hash order; whether an overlap is found may
  not depend on the names. Requests of several threads interleave codec by codec.
* **Stale state.** Parts point into hash table buckets that later insertions move;
  `add_partition_details` tests the ranges of the previous partition; span buffers
  and an uninitialised mask outlive a request.
* **Boundaries.** 64-bit ranges and `size_t`, ranges at the end of the flash, the
  16-bit pipeline index whose value 0 means "nobody", the load limit of the table.
* **Partial failure.** Any allocation may fail; errors are unwound by hand, over some
  fifty `goto` exits in parser and scheme, each with its own list of what to free.
* **Shared start-up.** Every thread fixes up the one `pipeline0` and tests a plain flag
  to see whether another one already did.
* **Signals.** SIGINT may come before the handler is installed, while the threads are
  being created, or while they are being torn down.
* **Corruption.** Bits decay between a write and a read; the Hamming code must repair
  one flip and admit two.
* **Liveness.** Initialisation must end, every request must be answered, since
  the kernel waits for it, and the daemon must end once it was asked to.

`PROJECT.json` lists each of these at the line where it bites, with the properties
that would notice.

### What makes each part correct

* Selector: partitions share no page; every owned page goes to the owner's pipeline,
  every other one to the NACK pipeline, whichever of the three strategies was chosen;
  no write leaves the array; a refusal for overlap is justified.
* Hash table: it is a dictionary; its probe loops end.
* Page layout: parts lie inside the page and do not overlap; the parts of a span tile
  the span's buffer; a part's pointer is its own span.
* Codecs: one flip is repaired, two are never hidden, erased pages read clean.
* Requests: a read returns what was last written, independent of what the thread did
  before; pages nobody owns are neither acknowledged nor changed; every request is
  answered.
* Parameters: what a serving thread works with fits the flash, although the file's
  64-bit integers pass through an `int`.
* Ownership: what is freed was allocated and is not freed again; a refused document, a
  thread that could not be created and a thread that was torn down leave behind no
  more than what is listed in section 3.
* Daemon: all queues are served or none; they are kept until SIGINT; then everything is
  torn down, the device is closed, and the exit code tells the truth.

## 2. Modules

| Module | Models | Remarks |
|---|---|---|
| `FlashMap` | the ranges of a configuration and which partition owns a page | no state; shared by the next two |
| `PageMap` | **abstract**: what the selector promises | start only with disjoint partitions, hand each page to its owner |
| `Demux` | `initialize_pipelines` … `initialize_pipeline_selector`, `select_pipeline` | one action per loop iteration, callback or exit; refines `PageMap` |
| `Demux_proofs` | theorems about `Demux` | section 5 |
| `RobinHood` | the operations of `hashmap.c` as functions of a table | used by `Hashmap` and `PageLayout`; `RobinHood_proofs` |
| `DictSpec` | **abstract**: a dictionary | |
| `Hashmap` | any sequence of calls, with failing allocations | refines `DictSpec`; `Hashmap_proofs` |
| `PageLayout` | `add_pipeline_layout_parts` with the span table, the pointers into it and the spans' arrays of parts | composes with `RobinHood`; `PageLayout_proofs` |
| `Hamming` | `ecc_sw_hamming_calculate`, `ecc_sw_hamming_correct` | parities over address bits |
| `EccBlock` | encode, decay, decode of one block | composes with `Hamming`; `EccBlock_proofs` |
| `Pipeline` | what `create_pipeline_obj` accepts and what the codecs do to buffers | composes with `Hamming` |
| `Worker` | threads, requests, span buffers, flash | composes `Pipeline` with the selector's result; `Worker_proofs`, and `RoundTrip_proofs`, which extends it |
| `Unwind` | functions that acquire one thing after the other and release by hand | a function is a sequence of steps; `Outcomes` is everything it can end with |
| `CfgParser` | `create_cfg_scheme`, `parse_config_file`, the three sections, `destroy_cfg_scheme` | extends `Unwind` |
| `CodecParams` | the tables of parsers, `parse_codec_entries`, handlers, reverts, initialisers of the codecs | extends `CfgParser`, whose dictionaries it reads |
| `SchemeBuild` | `initialize_nand_pipeline_scheme`, `destroy_nand_pipeline_scheme` and what they call, as ownership of memory | extends `CodecParams` |
| `QueueService` | **abstract**: what the daemon promises the kernel about its queues | |
| `Daemon` | `main`, `__thread_priv_create`, `__thread_priv_teardown`, `fixup_pipeline0_once`, SIGINT | composes all of the above from `CfgParser` on; refines `QueueService`; `Daemon_proofs` |
| `MCDemux`, `MCHashmap`, `MCPageLayout`, `MCWorker`, `MCDaemon` | instances for TLC | constants only |

How state and actions correspond to the code:

* **Demux.** `pipelines`, `parts` are `scheme->pipelines` and `scheme->partitions`
  (functions in place of hash tables: `Hashmap` shows that the table is a dictionary).
  `todo` is what a running `hashmap_scan` has not visited; any member may be next,
  which covers every hash function. `arr`, `strategy`, `single` are `demux.arr`,
  `demux.select` and `demux._single_pipeline`. Arithmetic is modulo `UMax + 1`. The
  uninitialised stack object that `add_partition_details` tests for the first
  partition is a choice of both outcomes. A walk that leaves `demux.arr` sets
  `overrun`; what lies behind the array may look free, look taken, or fault.
  `RejectPipeline` stands for every refusal of `create_pipeline_obj`; which pipelines
  are refused is defined in `Pipeline`.
* **RobinHood / Hashmap.** Buckets hold `dib`, key and value. A loop is a recursive
  function of the number of its iterations (`PlaceStep` is one iteration of the insertion
  loop, which `hashmap_set` and `resize0` share). A failing `malloc` in a growing resize makes `hashmap_set` fail,
  in a shrinking resize it goes unnoticed. Hash functions are arbitrary.
* **PageLayout.** A pointer to a span is a generation of the bucket array and a bucket
  number. Reading through a pointer into a freed array finds the old contents or
  faults. `InObjs` says whether the slot that `span->parts.objs` gets for a part is
  inside the array of that span: there are as many slots as the first loop counted. The
  sizes passed as `size_t` are taken modulo the build's `sizeMax`.
* **Hamming / EccBlock.** An address is the set of the positions of its 1 bits (`Addr` in
  `Pipeline` is the address of a number), a block the set of the addresses of its 1 bits. The unrolled
  loop over longwords computes, for each address bit, the parity of the two halves;
  that is the definition used. `swapped` is the `big_endian` parameter that differs
  from the host.
* **Pipeline / Worker.** A byte is scaled to one bit and a step to `2^K` of them; spans
  are buffers; each codec is a function of the buffers that ends ok, with `EBADMSG`,
  or outside of a buffer. Its loop over the steps is a recursive function whose body
  (`HammingStep` and its like) is one iteration. Tests whose result the code overwrites refuse nothing.
  `bufs` survives a request; `masks` is whatever `malloc` returned, per thread.
  The kernel programs a page on ACK of a write, once between erasures, and delivers the
  buffer on ACK of a read.
* **Unwind, CfgParser, SchemeBuild.** An object on the heap is a field of the source's
  structs with its indices. A step says what it allocates, in which ways it may fail, and
  what the labels behind that exit free, in their order; freeing something that is not
  allocated, or naming it in two labels of one exit, puts it into `bad`. A caller's labels
  follow its callee's (`Within`). A member of the document that is missing or malformed,
  and an allocation that fails, are choices; what the codec parameters and equal names
  decide is decided by the document. `hashmap_set` on a key that is there already fails
  *after* it has replaced the item, as `hashmap.c` does.
* **CodecParams.** `narrow` is the conversion of a 64-bit JSON integer to `int`,
  `SizeMax + 1` the modulus of a `size_t`. `Dangling` are the pairs that
  `append_pair_to_dict` freed although the dictionary refers to them.
* **Daemon.** `pc` is the position in `main`; each thread has `st` and a heap. Parsing and
  building work on memory that no one else sees, so they commute with all other
  steps, and each is one action with all its outcomes. `fixup_pipeline0_once` works on
  shared state: its test, `hashmap_new`, `hashmap_set`, allocation and flag are five
  actions, and a `hashmap_set` of one thread is not interleaved with another's.
  `copied[t]` is the table that the thread's copy of `pipeline0` in place 0
  refers to. `verdict` makes the threads agree where the configuration is refused: they
  all read the same one, and only the lack of memory may differ. `parallel` says whether
  the library, which is external, runs the creation callbacks one after the other or at
  the same time; both are covered. After a bad free the process may abort at any time
  or go on.

## 3. Runs

Passing runs:

| Run | Shows | Bounds, and why they are enough |
|---|---|---|
| `demux` (`MCDemux.cfg`) | every scan order and strategy yields the selector that `PageMap` specifies, or a refusal; no shared page, owner reached, others NACKed, no overrun when page ranges fit, overlap refusals justified, nothing refused for the ranges that the reused object holds from the partition before (`StaleRangesHarmless`), indices distinct, an element is written once, initialisation ends; and `SchemeAgrees`, the inductive invariant | 2 and 3 eraseblocks of 2 pages (plus 3×3, 4×3), all pairs from five eraseblock and three page ranges, three and four partitions, `UMax = 7` so that sizes and ends reach the overflow, `IdxMax = 3` so that the index limit is met. Ranges that leave the eraseblock are included: ownership and disjointness hold with them too |
| `hashmap` | the Robin Hood order, vacancy and the load limit also after a refused growth, exact count and scan, and refinement of the dictionary. The daemon itself only creates, sets, gets, scans and frees; delete, clear and shrink are called by the table's self-test alone | 4 buckets growing to 16, hash functions with all keys in one bucket, wrapping at the end, and spread; growth, two shrinks, clears and failures all happen |
| `layout` | rules of an accepted layout, tiling of spans, arrays of parts that are long enough, dense span indices, and when pointers stay valid | pages of 4 and 5 bytes, up to five parts and five spans, `MinCap = 8`: four spans fit without a collision, the fifth makes the table grow; hash functions with collisions that move spans, and without |
| `ecc` | single flips repaired, double flips not hidden | blocks of 8 bits: all 256 contents, all pairs of flips of data, parities and padding. The code treats every address bit alike |
| `worker` | reads return what was written; what an earlier request left in the buffers reaches only the bytes that a shorter one and the codecs leave undetermined; NACKed pages are sealed | 2 threads (symmetric), 2 pages (one written by the pipeline, one that nobody owns or that cannot be written), 3 requests for the whole page or half of its data, 1 decayed bit, three schemes: data split around its code, masked data under a code, bytes in no part. Three requests suffice for a long write, a short one of the same or the other thread, and a read. Nothing in the repository says what the bytes that no request determines should be |
| `worker_live` | every request is answered, in-range pipelines never leave their spans | 2 requests, 2 decayed bits so that recovery fails, schemes that leave their spans |
| `daemon` | ownership on every exit and in every teardown (`FreesExplained`, `LeaksExplained`), the shared NACK pipeline (`NackReady`, `FixupOnceUnlessParallel`), parameters (`ParametersSound`), a truthful exit (`ExitIsClean`), and refinement of `QueueService` with its liveness (`ServiceKept`) | 2 threads, which is what a race on `pipeline0` and a creation that fails half way need; 20 documents: one that everything accepts, with three codecs, a reading and a writing pipeline and two partitions, and one for each way in which parameters and names decide. `int` and `size_t` have 8 bits, the OOB area 12 bytes, steps 16 or 32: the file has numbers beyond each of these limits, and 86 steps, whose size wraps to a small one. Deadlock is checked |

What `daemon` says about memory is an exact list, since the code does not free
everything. `FreesExplained` names the only objects that are handed to `free` without
being allocated: a JSON member that should be a string (its reference is borrowed), a
codec parameter whose key occurs twice, the later of two codecs or partitions of one
name, and, at every shutdown, the static contents of `pipeline0` and its table of spans,
which each thread frees. `LeaksExplained` names what stays behind: private data and masks of
codecs, the index array, the last pipeline (`destroy_pipelines` stops one short), `priv`
and, when `pipeline0` could not be fixed up, the codecs of a failed creation; arrays and
pieces of one pipeline in the parser. It holds with the conjunct `MasksReverted`: a mask
survives only in a codec whose parameters were all accepted, so `do_revert_entries` is
right. Anything else that leaks or is freed twice violates the two.

Runs that show a disagreement between a comment or a shipped file and the code:

| Run | Property | What the code does |
|---|---|---|
| `demux_boundary` | `BoundaryTestExact` | `partition_range_fix_iter` adds the pages' length to the eraseblocks' start: page ranges are never tested, and whole eraseblocks near the end of the flash are refused. The ranges of `configs/bch4-rs-nand-example.json` are such, although that file is refused earlier, for codec types and a pipeline name |
| `layout_pointers` | `ParentIsOwnSpan` | Robin Hood insertion moves a span that an earlier part points to. `PointersHoldWithoutCollisions` (in `layout`) gives the condition under which the layout is right |
| `layout_rules` | `LayoutRules` | parts of length 0 are accepted; on a 32-bit build also parts behind the page |
| `worker_masks` | `EveryMirrorRoundTrips` | `xor_read` stays at the first byte of the mask, and masks are uninitialised per thread. `ReadReturnsWritten` (in `worker`) excludes exactly these two cases |
| `worker_spans` | `AccessesInsideSpans` | the codec range test's result is discarded, and the lengths of mapped spans are never compared with the page |

The properties of the passing runs name the precondition under which the code is right
(`PagesFit`, `Fresh`, `InRange`, `XorHarmless`), and the runs of the second table show
that the precondition is needed: nothing in the code establishes it.

`CHECK_DEADLOCK FALSE` stands where the system really stops: a refused or crashed
initialisation, a decoded block, a worker whose bound on requests is used up.
`hashmap` and `daemon` have no such state, and deadlock is checked there.

Disagreements met on the way that have no run of their own, because no behaviour of the
model depends on them or because a passing property already names them:

* `-t`, `-W` and `-R` are documented and refused; `-e` and `-E` are never read; after `-h`
  the daemon goes on and fails to open a device without a path.
* `params` of a codec is called optional, but `parse_codec_entries` counts the entries of
  a dictionary that is not there (`Crash` in `init_codec`).
* `handle_steps_entry` expects a number that is too large to fail later; it is narrowed to
  an `int` first, and may be a small one by then. `ParametersSound` speaks of the file's number
  where it fits an `int`, and of the stored one beyond.
* `ints.h:30` tests `ch > 'A' || ch <= 'F'`, which every character passes: a pattern of an even
  number of any characters is accepted as hexadecimal (`handle_mask_entry`).
* The comment in `parse_special_params` says that it can fail on a duplicate key; the result
  of `append_pair_to_dict` is ignored (`DictPairs`, `Dangling`).
* `configs/` holds a configuration whose xor codec has the key `mask`; the codec wants
  `byte_pattern`.

## 4. Fairness

* `Demux!FairSpec` has weak fairness on `Initialize`: the thread that runs
  `initialize_nand_pipeline_scheme` holds no lock and waits for nothing, so it is
  scheduled and runs on. No fairness is put on requests.
* `Worker!FairSpec` has weak fairness on `Serve(t)` for each thread: once a request is
  taken from the queue, `read_process` and `write_process` contain no blocking call.
  No fairness is put on the arrival of requests, on decay or on erasure.
* `Daemon!Spec` has weak fairness on `Main` and on `Thread(t)` for each thread. `main` waits
  only in a loop of `nanosleep` that tests `stop`, and `Poll` is enabled exactly when
  the flag is set; the threads take no lock while they build. That
  `initialize_proxy_dev_queues` returns once no creation is under way is an assumption
  about the library. There is no fairness on SIGINT or on an abort.

## 5. Proofs

All theorems hold for every value of the constants that satisfies the named assumptions.
`property` in `PROJECT.json` links a theorem to the run that checks the same formula; two plain
invariants, `ErasedReadsClean` and `NeverBelowCap`, are proved and have no run.

### Selector: `Demux_proofs`

| Theorem | States |
|---|---|
| `TypeCorrect` | `Spec => []TypeOK` |
| `SchemeAlwaysAgrees` | `Spec => []SchemeAgrees` |
| `PipelineIndices` | `Spec => []IndicesDistinct` |
| `PartitionsShareNoPage` | `Spec => []NoSharedPage` |
| `RequestsReachOwner` | `Spec => []OwnedPagesReachOwner` |
| `WalksStayInside` | `Spec => []NoOverrun` |
| `OverlapsAreReal` | `Spec => []OverlapJustified` |
| `StaleRangesRefuseNothing` | `Spec => []StaleRangesHarmless` |
| `OtherPagesNacked` | `Spec => []UnownedPagesNacked` |
| `NoElementOverwritten` | `Spec => ElementsWrittenOnce`, an action property |
| `SelectorImplementsPageMap` | `Spec => ImplementsPageMap`, the refinement of `PageMap` |

Assumptions: `UMaxAssumption` and `IdxMaxAssumption` (positive naturals) and
`ConfigsAssumption` (a configuration has a geometry of at least one page that fits the
integers, names, and ranges as the parser produces them). Nothing is assumed about
the ranges: page ranges may leave the eraseblock, partitions may overlap.

The argument. `NoSharedPage` and `OwnedPagesReachOwner` speak only of a serving thread,
and say nothing of how it got there. The inductive invariant `SchemeAgrees` says what
each stage leaves to the next:

* `PipelinesAgree`: the pipelines added so far have their 1-based position as index. This
  needs the test against `IdxMax`: the index never wraps, hence never is `NACK`.
* `PartitionsAgree`: each partition added so far is stored under its name as the
  configuration gives it, with its ranges completed once the scan has visited it.
* `ArrayAgrees`: the elements walked by a visited partition name its pipeline, and no
  two visited partitions walk the same element.

The step that matters is `FillPartition`: a callback returns true only if every element
of its walk was `NACK`; an element of an earlier partition is not, because that
partition's index is not 0. So ownership survives in whatever order the scan goes.
In the end, two partitions that own one page would have walked one element, and the
element that a request for an owned page reads is one its owner has written. For pages
of a geometry the row-major index is injective where it matters; the proof only needs
that equal pages have equal elements, so it holds with ranges that leave the row.

The theorems from `WalksStayInside` on need the converse, where an element that is not `NACK` came from, and
that no walk leaves the array. `SelectorInv` adds to `SchemeAgrees`: `Validated` (a
validated partition's eraseblocks are not empty and end inside the flash),
`StrategyFits` (each strategy was chosen for partitions it can represent) and
`ElementsTraced` (every element that is not `NACK` was walked by a visited partition). With
`PagesFit` the walk of a callback is exactly the set of pages the partition owns, because
no sum wraps (`FixedResolve`) and the row-major index is then injective; so a walk stays
inside the array, an element found taken is a page that two partitions own, and an element
nobody owns is still `NACK`. The refinement maps each step of the initialisation to a
stutter, its end to `PageMap`'s start or refusal, and a lookup to a lookup.

### Hamming code: `EccBlock_proofs`

`BlockTypeCorrect` (`TypeOK`), `OneFlipIsRepaired` (`SingleFlipRepaired`),
`TwoFlipsAreNotHidden` (`DoubleFlipNotHidden`), `ErasedBlockIsCodeWord`
(`ErasedReadsClean`), each as `Spec => []P`.

Assumptions: `KAssumption` (a positive number of address bits, finitely many unused code
bits) and `BlockAssumption`: at least 3 address bits. The code has 11 or 12. The bound is
needed: with two address bits, a flip of data and one of code can leave a syndrome of a
single bit, which the decoder takes for a flip of the code alone, and the data stays wrong.

The inductive invariant `BlockInv` says that a stored block is what was written, with its
code, except for the bits that `flips` records. The core is `ToggleCardinality`: one
inverted bit changes the parity of exactly one half for every address bit. So one flip of
data gives a syndrome with exactly one half of each pair, and the halves of value 1 are
its address; two flips of data cancel in some pair and differ in another; a flip of
data and one of code leave at least `K - 1` bits. That an erased block is a code word
rests on the halves being even: toggling another address bit pairs the addresses of a half.

### Daemon: `Daemon_proofs`

`DaemonTypeCorrect` (`TypeOK`), `MainLeavesNothingRunning` (`ExitIsClean`),
`NackPipelineIsSingleton` (`FixupOnceUnlessParallel`), `NackAnswersWhileServing`
(`NackReady`), each as `Spec => []P`, and `QueuesKeptSafe`: every initial state and step of
`Daemon` is one of `QueueService`, which is `ServiceKept` without its two liveness conjuncts.

`ServingParametersSound` (`ParametersSound`) is below.

Assumptions: `NAssumption` (at least one queue; the value that stands for a null pointer is
not a thread), `ParamsAssumption` (the widths and the OOB area are natural numbers) and
`DocsAssumption` (sections, dictionaries and codec lists are sequences; a codec is named by
its position; an integer has an integer value, a string a length).

The life cycle needs to know which codes the functions return, as their callers test
them (`Codes`). This is proved from the functions themselves: `Fn(s, C)` says that the sequence
of steps `s` ends with codes in `C` only, and is carried through concatenation, `Within`,
`When` and `Loop` (by induction on the rounds, from `Smallest`), for every function of
`CfgParser`, `CodecParams` and `SchemeBuild` in turn. What they allocate and free plays no
role here.

The inductive invariant is `DaemonInv`, a conjunction of:

* `Typed`;
* `MainInv`: what the label main is at says about the device, the exit code and the threads;
  in particular that `destroy_queues` is reached only from the polling loop with `stop` set,
  and that no thread is still building behind the labels that tear down;
* `Sequential`: if the library creates one thread after the other, at most one thread is
  inside of the fixup, the first thread makes the table and all others find it ready;
* `Counted`: as long as no creation has failed, the number of filled tables equals the
  number of threads that made a table and are past `page_layout_set_span`.

`Counted` is what the unprotected fixup needs. Threads that race each make a table and
overwrite the static pointer; a thread fills the table that the pointer names *then*, which
may be another thread's, and a thread that finds its span already there fails. So
if none has failed, each thread that made a table has filled one, and no two the same;
when all threads serve, as many tables are filled as were made, and whichever table a
thread has copied holds the span. TLC checked the four conjuncts with three threads before they were proved.

**Parameters.** `ServingParametersSound`: for every document, every width of `int` and `size_t`
and every OOB area, the Hamming codecs of a thread that serves have a positive number
of steps whose codes fit the OOB area, an XOR codec that some pipeline uses has a mask of at
least one byte, and a key that no parser knows is there only in place of an optional one
(dictionaries with a repeated key, whose pairs dangle, are excepted). The invariant
`Built` ties a thread's place in the life cycle to the functions: a thread that is past the
codecs is there because building the codecs can end with "ok" for its document, a thread that
serves because the rest can, too. So no step of these functions fails for sure (`NoneSure`),
and every test that the document alone decides has succeeded (`BuiltSound`). Two arguments
remain. `parse_codec_entries` compares the *number* of a dictionary's entries with that of
the parsers; `KeysCounted` shows by counting what this says about the keys themselves.
And the size of the codes is a product in `size_t` of an `int` that a 64-bit number was
narrowed to; `StepsFit` shows that after `handle_steps_entry` it does not wrap, so that the
test against the OOB area means what it says.

### Hash table: `RobinHood_proofs`, `Hashmap_proofs`

| Theorem | States |
|---|---|
| `TypeCorrect` | `Spec => []TypeOK` |
| `OrderKept` | `Spec => []RobinHoodOrder` |
| `VacancyKept` | `Spec => []ProbesEnd` |
| `ScanComplete` | `Spec => []ScanMeetsEachOnce` |
| `CapacityKept` | `Spec => []NeverBelowCap` |
| `DictRefined` | `Spec => ImplementsDict`, the refinement of `DictSpec` |

Assumptions: `MinCapAssumption` (the smallest table has at least two buckets),
`HashmapAssumption` (the values for "no key" and "no value" are none; hashes are
natural numbers). The sets of keys and values may be infinite; hash functions are arbitrary.

The inductive invariant `TableOK` consists of: a vacant bucket is cleared (`Cleared`); an item
is `dib - 1` buckets behind its home (`Placed`); between its home and its bucket no bucket holds
an item that is nearer to its own home (`Ordered`); no key occurs twice (`KeysOnce`); `count` is
the number of items and at most `growat` of the number of buckets; and this number is
`MinCap * 2^k` and at least the lower capacity.

* `PlaceNew` and `PlaceSame` have the loop invariant of an insertion: the buckets passed so
  far together with the entry in hand hold what the table and the new item held, and
  the entry in hand has not met its equal, nor could it further on. They are by induction on the
  iterations (`Induction`, from the least counterexample: the library's theorem takes an
  operator, which the provers cannot instantiate).
* A lookup stops at the first bucket whose item is nearer to its home than the key would be;
  `Ordered` says that the key is not behind it (the `Probe` lemmas).
* `BackShift`: a deletion moves the following items one back until one is at home.
* `RehashSound`: a resize inserts every item of the old table into a cleared one.
* `SizesApart`: two sizes differ by a factor of two, so a table that shrinks to half of its
  buckets does not go below a lower capacity that is smaller than what it had.
* `ProbesEnd`: `count` stays within `growat(n)`, also when a resize failed, and `growat(n) < n`, so
  some bucket is vacant.
* For the refinement, `Denotes` says which dictionary a table stands for.

### Page layout: `PageLayout_proofs`

| Theorem | States |
|---|---|
| `LayoutTypeCorrect` | `Spec => []TypeOK` |
| `AcceptedPartsAreApart` | `Spec => []PartsInsidePage` |
| `SpansNumberedDensely` | `Spec => []SpanIndicesDense` |
| `SpanArrays` | `Spec => []SpanArraysSuffice` |
| `PointersHold` | `Spec => []PointersHoldWithoutCollisions` |
| `PartsTile` | `Spec => []PartsTileSpans` |

Assumptions: `LayoutsAssumption` (layouts of any length, page size and `size_t` up to `UMax`),
`SpansAssumption` (finitely many span names), `MinCapAssumption`. The module extends
`RobinHood_proofs`: the table of spans is the real one, with its swaps and growth.

* `LayoutInv`, for the ranges: the test of the first loop cannot wrap because the parser's
  numbers are at most half of the unsigned range; the second loop compares neighbours only, and
  `PassedApart` carries what it found along the sorted sequence to all later parts.
* `SpanInv`, for the numbers: the table holds a span for exactly the names met so far, numbered
  0, 1, 2, …, and every part's number is that of the span with its name, wherever the
  table has moved it; every pointer leads into the current array or into a freed one.
* `FillInv`, for the arrays of parts: what the second loop has put into a span's array is the number
  of the parts of that name among those it has passed, which is less than the first loop counted.
* `HomeInv`, for the pointers: as long as no two names share a home bucket and the table need
  not grow, each span stays in its home bucket, and that is where the parts' pointers lead.
* `TileInv`, for the buffers: the parts that the second loop has passed tile the first `total_len`
  bytes of their span. The sum does not wrap because it is at most the start of
  the next part. This needs the pointers to be right and `size_t` to have 64 bits, which
  is what `PartsTileSpans` says.

### Requests: `Worker_proofs`, `RoundTrip_proofs`

| Theorem | States |
|---|---|
| `WorkerTypeCorrect` | `Spec => []TypeOK` |
| `NackedPagesStaySealed` | `Spec => []NackedPagesSealed` |
| `InRangeStaysInside` | `Spec => []InRangeNeverFaults` |
| `ReadingUndoesWriting` | `Spec => []ReadReturnsWritten` |

Assumptions: `SchemesAssumption` (pipelines as the parser gives them, in any number;
a page's owner is one of them or nobody), `RequestsAssumption` (the lengths of a request are
those that `queues.c` asserts, a user's buffers hold bytes of that number) and `StepAssumption`
(a step has at least two address bits; the code has 11 or 12). Threads and pages are
arbitrary sets.

`WorkerInv` says that a request that is being written goes to a pipeline that can write and
belongs to its page: enough for sealed pages, whatever the codecs compute. `AccessInv` adds that
every buffer has the length of its span and holds bytes. Its steps are inductions: the
parts of an accepted layout fill the spans (over positions of the page), copying fills
all of a request's buffers (over parts), a codec keeps buffers typed
(over its steps), and where `InRange` holds each step of each codec, on each thread, in each
interleaving, addresses bytes of its own spans only.

`ReadingUndoesWriting` is the statement that all of the code is for: any number of
threads, pages, parts, spans and codecs, any order of requests, any junk in the buffers, and
still a read returns what was written. `Mirrored` says of which pipelines: the read codecs
undo the write codecs in reverse order, and (`OwnSpans`) a code or a pattern goes to a span that
no user's bytes and no other codec go to, and that no earlier code was computed over. Nothing in the code tests
this; without it, a memset over the source of a code loses data. `InRange` and `XorHarmless` are
what the runs `worker_spans` and `worker_masks` show to be needed. The inductive invariant
`RoundTripInv` gives every page that was written, and every request, a history:

* a page has buffers `W[0]`, `W[1]`, …, each made from the one before by the next write codec (`Written`),
  the first of which begins with the user's bytes (`Carries`); the page is composed of the last,
  but for the bits that `flipped` records;
* a request that is being written has such a history up to its next codec;
* a read that has come to its codec number `k` has in its buffers, but for one byte at most, what
  writing left, undone back to the write codec that read codec `k - 1` undoes (`Undone`). Undone
  is not the same as `W[m]`: reading does not remove codes and patterns, so `Ideal` takes those
  spans from the end of the history. `Near` says which byte may be wrong: one
  that a codec still to come covers, or a byte of a code.

The lemmas about one step: `StepRepairs` (the Hamming code over numbered bits, through the
injectivity of `Addr`, which the proof gets from binary digits: `PowerNext` … `AddrInjective`), lifted over
the steps of a codec by `EncodeSteps` and `DecodeSteps`; `XorUndone` (the same mask twice);
`IdealKept` (a memset in between changes nothing that is compared); `ReadStep` joins them.
`PartsApart` and `PlaceStored` say that a byte of a span has one place in the page, so a decayed
bit becomes one wrong byte of one span (`ExtractedNear`).

### Only model-checked, and why

* Liveness (`InitializationEnds`, `EveryRequestAnswered`, and `Settles` and `Stops` in
  `ServiceKept`): the prover has no fairness and no `ENABLED`. The safety part of `ServiceKept` is
  proved (`QueuesKeptSafe`).
* `ImageIgnoresHistory` tells a byte that the request determines from one that it does not by setting
  one place of the buffers at a time. That is sound because the codecs are exclusive ors and constants; a proof has to
  show this of every sequence of codecs.
* `FreesExplained` and `LeaksExplained`: exact lists of what the code mishandles. A proof needs
  a contract of ownership for each of the some forty functions of parser and scheme, at each
  of their exits; TLC takes all exits of all of them, for the 20 documents.

## 6. Not modelled

* Logging, and printing except where it can fault (`print_codecs_section`): no state
  depends on it. Of the command line, only whether it is refused, asks for help or
  gives the paths.
* The text of the JSON document: `CfgParser` has its shape, `FlashMap` its ranges and
  `CodecParams` its parameters.
* A crash of the machine or a restart: the daemon keeps nothing between two starts.
* The kernel module and the proxy library are not part of the repository.
* `hashmap_probe`, `hashmap_iter` and the other functions of the table that nobody calls.
* The bodies of the hash functions, the longword unrolling of the Hamming loop, and the
  chain `next_span_part`, which is written and never read.

## 7. Plan

Done, in this order: `FlashMap`, `Demux`, `PageMap`; `Demux_proofs`; `RobinHood`,
`Hashmap`, `DictSpec`; `PageLayout`; `Hamming`, `EccBlock`; `Pipeline`, `Worker`; `Unwind`,
`CfgParser`, `CodecParams`, `SchemeBuild`; `QueueService`, `Daemon`. Every part of the
repository that keeps state has a module.

Proved: the selector and its refinement (`Demux_proofs`); the hash table and
its refinement (`RobinHood_proofs`, `Hashmap_proofs`); the Hamming code (`EccBlock_proofs`); all
properties of a layout that a passing run checks (`PageLayout_proofs`); types, sealed pages
and accesses of requests (`Worker_proofs`) and the round trip of the data (`RoundTrip_proofs`); the life cycle, the shared pipeline and the
codec parameters of the daemon (`Daemon_proofs`).

Left, proofs:

1. `FreesExplained`: a contract for a sequence of steps that says what its exits free of what
   it was given or has acquired, composed as `Fn` is for the codes.
2. `ImageIgnoresHistory`, from the linearity of the codecs.
