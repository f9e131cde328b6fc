----------------------------- MODULE PageLayout -----------------------------
(***************************************************************************)
(* add_pipeline_layout_parts (scheme.c): the parts of a page layout are    *)
(* checked against the page, attached to their spans, sorted, checked for  *)
(* overlap and given their place in the span.                              *)
(*                                                                         *)
(* The spans live inside the buckets of a hash table, and a part keeps a   *)
(* pointer to its span.  A pointer is a generation (which of the bucket    *)
(* arrays allocated so far) and a bucket number: a later insertion may     *)
(* move items between the buckets, or free the array.                      *)
(***************************************************************************)
EXTENDS RobinHood

CONSTANTS Layouts,   \* the layouts to consider, see Layout
          SpanNames, \* the valid span names
          BadName,   \* an empty name, or one with a character not allowed
          UMax       \* UINT64_MAX

IMax == UMax \div 2

(* A layout as the configuration gives it, the size of a flash page, the   *)
(* largest size_t of the build, and the hash function of the names.        *)
Layout == [parts : Seq([span : SpanNames \cup {BadName}, start : 0 .. IMax, length : 0 .. IMax]),
           page : 1 .. UMax, sizeMax : 1 .. UMax, hash : [SpanNames -> Nat]]

ASSUME LayoutsAssumption == UMax \in Nat /\ Layouts \subseteq Layout

(* A span, without its name: its number, the number of its parts, the      *)
(* length of its buffer and whether that is allocated.                     *)
Span == [idx : Nat, nparts : Nat, total : 0 .. UMax, buf : BOOLEAN]

(* Finitely many names; the values that stand for none are none of these.  *)
ASSUME SpansAssumption == IsFiniteSet(SpanNames) /\ NoKey \notin SpanNames /\ NoVal \notin Span

VARIABLES
  cfg,      \* the layout, never changed
  pc, rc,
  idx,      \* the loop counter of the two loops over the parts
  spans,    \* the table of spans
  freed,    \* the bucket arrays that resize0 has freed, oldest first
  parts,    \* layout->parts.objs
  filled    \* span_initializers[].part_idx, by span index

vars == <<cfg, pc, rc, idx, spans, freed, parts, filled>>

SizeT(x) == x % (cfg.sizeMax + 1)

Fail(code) ==
  /\ pc' = "failed" /\ rc' = code
  /\ UNCHANGED <<cfg, idx, spans, freed, parts, filled>>

(* A dangling pointer still finds the old contents, unless it faults. *)
Deref(ptr) == IF ptr.gen = Len(freed) + 1 THEN spans.buckets[ptr.bucket].val
              ELSE freed[ptr.gen][ptr.bucket].val

Assign(ptr, span) ==
  IF ptr.gen = Len(freed) + 1
  THEN /\ spans' = [spans EXCEPT !.buckets[ptr.bucket].val = span]
       /\ UNCHANGED freed
  ELSE /\ freed' = [freed EXCEPT ![ptr.gen][ptr.bucket].val = span]
       /\ UNCHANGED spans

Init ==
  /\ cfg \in Layouts
  /\ pc = "add" /\ rc = "SUCCESS" /\ idx = 1
  /\ spans = hashmap_new(0) /\ freed = <<>> /\ parts = <<>>
  /\ filled = [i \in 0 .. Cardinality(SpanNames) - 1 |-> 0]

-----------------------------------------------------------------------------
(* The first loop: create the parts and their spans. *)

(* Mutated: the length is forgotten. *)
verify_start_not_out_of_range(start, length) == SizeT(start) <= cfg.page

verify_page_layout_part_not_out_of_range(start, length) ==
  SizeT(SizeT(start) + SizeT(length)) <= cfg.page

(* Mutated: indices start at 1. *)
WithSpanFromOne(name) ==
  IF hashmap_get(spans, cfg.hash, name) # NoVal THEN spans
  ELSE hashmap_set(spans, cfg.hash, name,
                   [idx |-> spans.count + 1, nparts |-> 0, total |-> 0, buf |-> FALSE]).table

(* Mutated: all spans get the same index. *)
WithSpanAtZero(name) ==
  IF hashmap_get(spans, cfg.hash, name) # NoVal THEN spans
  ELSE hashmap_set(spans, cfg.hash, name,
                   [idx |-> 0, nparts |-> 0, total |-> 0, buf |-> FALSE]).table

(* find_or_add_new_span: the table it leaves. *)
WithSpan(name) ==
  IF hashmap_get(spans, cfg.hash, name) # NoVal THEN spans
  ELSE hashmap_set(spans, cfg.hash, name,
                   [idx |-> spans.count, nparts |-> 0, total |-> 0, buf |-> FALSE]).table

AddPart ==
  /\ pc = "add" /\ idx <= Len(cfg.parts)
  /\ LET c == cfg.parts[idx]
         table == WithSpan(c.span)
         bucket == ProbeEnd(table.buckets, cfg.hash, c.span)
         grows == NBuckets(table.buckets) # NBuckets(spans.buckets)
         gen == IF grows THEN Len(freed) + 2 ELSE Len(freed) + 1
     IN IF ~verify_page_layout_part_not_out_of_range(c.start, c.length)
        THEN Fail("PAGE_LAYOUT_PART_OUT_OF_RANGE")
        ELSE IF c.span = BadName THEN Fail("LAYOUT_PART_HAS_NO_SPAN")
        ELSE /\ spans' = [table EXCEPT !.buckets[bucket].val.nparts = @ + 1]
             /\ freed' = IF grows THEN Append(freed, spans.buckets) ELSE freed
             /\ parts' = Append(parts, [span |-> c.span, parent |-> [gen |-> gen, bucket |-> bucket],
                                        spanIdx |-> table.buckets[bucket].val.idx,
                                        start |-> c.start, length |-> c.length, inSpan |-> 0])
             /\ idx' = idx + 1
             /\ UNCHANGED <<cfg, pc, rc, filled>>

(* qsort by the start of the range; parts that start together come in any   *)
(* order.  The loop that follows starts with the span_initializers at zero. *)
SortParts ==
  /\ pc = "add" /\ idx > Len(cfg.parts)
  /\ \E perm \in [1 .. Len(parts) -> 1 .. Len(parts)] :
       /\ \A i, j \in 1 .. Len(parts) : perm[i] = perm[j] => i = j
       /\ \A i, j \in 1 .. Len(parts) : i < j => parts[perm[i]].start <= parts[perm[j]].start
       /\ parts' = [i \in 1 .. Len(parts) |-> parts[perm[i]]]
  /\ pc' = "link" /\ idx' = 1
  /\ UNCHANGED <<cfg, rc, spans, freed, filled>>

-----------------------------------------------------------------------------
(* The second loop: check for overlap and assign places in the spans. *)

check_non_overlapping_sorted(part1, part2) ==
  part2.start >= (part1.start + part1.length) % (UMax + 1)

OverlapsNext(i) == i # Len(parts) /\ ~check_non_overlapping_sorted(parts[i], parts[i + 1])

(* Mutated: the part's place is taken after its length was added. *)
LinkPartLate ==
  /\ pc = "link" /\ idx <= Len(parts) /\ ~OverlapsNext(idx)
  /\ LET part == parts[idx]
         span == Deref(part.parent)
     IN /\ Assign(part.parent, [span EXCEPT !.total = SizeT(@ + part.length)])
        /\ parts' = [parts EXCEPT ![idx].inSpan = span.total + part.length]
        /\ filled' = [filled EXCEPT ![part.spanIdx] = @ + 1]
  /\ idx' = idx + 1
  /\ UNCHANGED <<cfg, pc, rc>>

(* The array of a span's parts has room for as many parts as the span had  *)
(* counted; a part is written to the place its span_initializer has come   *)
(* to.  What is written there is never read.                               *)
InObjs(part) == filled[part.spanIdx] < Deref(part.parent).nparts

LinkPart ==
  /\ pc = "link" /\ idx <= Len(parts)
  /\ LET part == parts[idx]
         span == Deref(part.parent)
     IN IF OverlapsNext(idx) THEN Fail("OVERLAPPING_PAGE_LAYOUT_PARTS")
        ELSE /\ Assign(part.parent, [span EXCEPT !.total = SizeT(@ + part.length)])
             /\ parts' = [parts EXCEPT ![idx].inSpan = span.total]
             /\ filled' = [filled EXCEPT ![part.spanIdx] = @ + 1]
             /\ idx' = idx + 1
             /\ UNCHANGED <<cfg, pc, rc>>

(* A part's span is read or written in a bucket array that was freed, or   *)
(* the part is written behind the array of its span.                       *)
LinkFault ==
  /\ pc = "link" /\ idx <= Len(parts) /\ ~OverlapsNext(idx)
  /\ parts[idx].parent.gen # Len(freed) + 1 \/ ~InObjs(parts[idx])
  /\ pc' = "crashed"
  /\ UNCHANGED <<cfg, rc, idx, spans, freed, parts, filled>>

(* hashmap_scan with span_buf_alloc_iter, which asserts total_len > 0. *)
AllocBuffers ==
  /\ pc = "link" /\ idx > Len(parts)
  /\ LET used == Occupied(spans.buckets)
     IN IF \E b \in used : spans.buckets[b].val.total = 0
        THEN /\ pc' = "aborted"
             /\ UNCHANGED <<cfg, rc, idx, spans, freed, parts, filled>>
        ELSE /\ spans' = [spans EXCEPT !.buckets =
                            [b \in DOMAIN spans.buckets |->
                               IF b \in used THEN [spans.buckets[b] EXCEPT !.val.buf = TRUE]
                               ELSE spans.buckets[b]]]
             /\ pc' = "ready"
             /\ UNCHANGED <<cfg, rc, idx, freed, parts, filled>>

OutOfMemory ==
  /\ pc \in {"add", "link"}
  /\ Fail("MEMORY_ALLOCATION_FAILED")

Next == AddPart \/ SortParts \/ LinkPart \/ LinkFault \/ AllocBuffers \/ OutOfMemory

Spec == Init /\ [][Next]_vars

-----------------------------------------------------------------------------
(* Properties *)

TypeOK ==
  /\ cfg \in Layouts
  /\ pc \in {"add", "link", "ready", "failed", "aborted", "crashed"}
  /\ idx \in 1 .. Len(cfg.parts) + 1 /\ Len(parts) <= Len(cfg.parts)
  /\ \A i \in 1 .. Len(parts) : parts[i].spanIdx \in DOMAIN filled
  /\ \A b \in Occupied(spans.buckets) :
       spans.buckets[b].val \in [idx : DOMAIN filled, nparts : Nat, total : 0 .. UMax, buf : BOOLEAN]

(* The part's pointer is the bucket that holds its span. *)
Fresh(part) ==
  part.parent = [gen |-> Len(freed) + 1, bucket |-> ProbeEnd(spans.buckets, cfg.hash, part.span)]

(***************************************************************************)
(* The two rules of the comment at scheme.c:950, on a build whose size_t   *)
(* has 64 bits: the parts of an accepted layout lie inside the page and no *)
(* two of them share a byte, although only neighbours were compared.       *)
(***************************************************************************)
PartsInsidePage ==
  pc = "ready" /\ cfg.sizeMax = UMax =>
    /\ \A i \in 1 .. Len(parts) : parts[i].start + parts[i].length <= cfg.page
    /\ \A i, j \in 1 .. Len(parts) :
         i < j => parts[i].start + parts[i].length <= parts[j].start

(***************************************************************************)
(* The parts of a span tile its buffer in page order, without a gap, so    *)
(* that what compose and extract copy is exactly the buffer.  It rests on  *)
(* every part still pointing to its own span, and on a size_t of 64 bits:  *)
(* with a narrower one, the sum of the lengths may wrap.                   *)
(***************************************************************************)
PartsTileSpans ==
  pc = "ready" /\ cfg.sizeMax = UMax /\ (\A i \in 1 .. Len(parts) : Fresh(parts[i])) =>
    \A b \in Occupied(spans.buckets) :
      LET mine == {i \in 1 .. Len(parts) : parts[i].span = spans.buckets[b].key}
          total == spans.buckets[b].val.total
      IN /\ \A o \in 0 .. total - 1 :
              Cardinality({i \in mine : parts[i].inSpan <= o /\ o < parts[i].inSpan + parts[i].length}) = 1
         /\ \A i \in mine : parts[i].inSpan + parts[i].length <= total
         /\ \A i, j \in mine : i < j => parts[i].inSpan <= parts[j].inSpan
         /\ Cardinality(mine) = spans.buckets[b].val.nparts

(* A part that points to its own span is never written behind the array of *)
(* the span: what the first loop counted is enough for the places that the *)
(* second loop hands out by span_idx.                                      *)
SpanArraysSuffice ==
  pc = "link" /\ idx <= Len(parts) /\ Fresh(parts[idx]) => InObjs(parts[idx])

(* Spans get the indices 0, 1, 2, ... whatever the growth and the swaps of *)
(* the table: two spans never share their span_initializers entry.         *)
SpanIndicesDense ==
  /\ {spans.buckets[b].val.idx : b \in Occupied(spans.buckets)} = 0 .. spans.count - 1
  /\ \A i, j \in 1 .. Len(parts) : parts[i].spanIdx = parts[j].spanIdx <=> parts[i].span = parts[j].span

(* As long as no two names of the layout share a home bucket and the table *)
(* need not grow, the parts' pointers stay right.                          *)
PointersHoldWithoutCollisions ==
  LET used == {cfg.parts[i].span : i \in DOMAIN cfg.parts} \ {BadName}
  IN /\ \A s, t \in used : cfg.hash[s] % MinCap = cfg.hash[t] % MinCap => s = t
     /\ Cardinality(used) <= growat(MinCap)
     => \A i \in 1 .. Len(parts) : Fresh(parts[i])

(* The comment at scheme.c:1006: "we will put the pointer of the span we   *)
(* got from new/existing hashmap entry as the parent_span".                *)
ParentIsOwnSpan == pc = "link" => \A i \in 1 .. Len(parts) : Fresh(parts[i])

(***************************************************************************)
(* The rules of the comment at scheme.c:950 as they are written, on any    *)
(* build: "no part could have a length of 0", and "no layout part exists   *)
(* out-of-bounds in terms of the NAND page geometry".                      *)
(***************************************************************************)
LayoutRules ==
  pc = "ready" =>
    \A i \in 1 .. Len(parts) :
      parts[i].length > 0 /\ parts[i].start + parts[i].length <= cfg.page
=============================================================================
