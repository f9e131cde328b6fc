-------------------------- MODULE PageLayout_proofs --------------------------
(***************************************************************************)
(* Proofs about PageLayout, for every layout, page size and hash function: *)
(* the two rules about the parts of an accepted layout, which need nothing *)
(* about the table of spans, and then the table itself: the numbers of the *)
(* spans, the pointers that the parts keep into its buckets, and how the   *)
(* parts tile the buffers of their spans.                                  *)
(***************************************************************************)
EXTENDS PageLayout, RobinHood_proofs

(* The sequence of the parts, whatever else its records hold. *)
PartsTyped ==
  /\ parts \in Seq({parts[i] : i \in DOMAIN parts})
  /\ \A i \in 1 .. Len(parts) : parts[i].start \in 0 .. IMax /\ parts[i].length \in 0 .. IMax

End(part) == part.start + part.length

WideBuild == cfg.sizeMax = UMax

InsidePage == WideBuild => \A i \in 1 .. Len(parts) : End(parts[i]) <= cfg.page

Sorted ==
  pc \in {"link", "ready"} =>
    \A i, j \in 1 .. Len(parts) : i < j => parts[i].start <= parts[j].start

(* The parts that the second loop has passed end before all later ones. *)
PassedApart ==
  pc \in {"link", "ready"} =>
    \A i, j \in 1 .. Len(parts) : i < j /\ (i < idx \/ pc = "ready") => End(parts[i]) <= parts[j].start

LayoutInv ==
  /\ cfg \in Layout /\ idx \in Nat \ {0}
  /\ PartsTyped /\ InsidePage /\ Sorted /\ PassedApart

(* No sum of two numbers of the configuration file wraps in 64 bits. *)
LEMMA NoWrap ==
  ASSUME NEW a \in 0 .. IMax, NEW b \in 0 .. IMax
  PROVE  a + b <= UMax /\ (a + b) % (UMax + 1) = a + b /\ a % (UMax + 1) = a /\ b % (UMax + 1) = b
<1>1. UMax \in Nat /\ IMax \in Nat /\ 2 * IMax <= UMax
  BY LayoutsAssumption DEF IMax
<1>2. a + b \in Nat /\ a + b <= UMax /\ a \in Nat /\ b \in Nat /\ a <= UMax /\ b <= UMax
  BY <1>1
<1> HIDE DEF IMax
<1>3. \A x \in Nat : x <= UMax => x % (UMax + 1) = x
  BY <1>1
<1> QED
  BY <1>2, <1>3

LEMMA SeqExtends ==
  ASSUME NEW S, NEW s \in Seq(S), NEW e
  PROVE  /\ Append(s, e) \in Seq(S \cup {e})
         /\ Len(Append(s, e)) = Len(s) + 1 /\ Len(s) \in Nat /\ DOMAIN s = 1 .. Len(s)
         /\ \A i \in 1 .. Len(s) : Append(s, e)[i] = s[i]
         /\ Append(s, e)[Len(s) + 1] = e
<1>1. s \in Seq(S \cup {e})
  OBVIOUS
<1> QED
  BY <1>1

LEMMA IsSequence ==
  ASSUME NEW S, NEW s \in Seq(S)
  PROVE  s \in Seq({s[i] : i \in DOMAIN s})
OBVIOUS

LEMMA FunctionIsSequence ==
  ASSUME NEW n \in Nat, NEW s, DOMAIN s = 1 .. n, s = [i \in 1 .. n |-> s[i]]
  PROVE  Len(s) = n /\ s \in Seq({s[i] : i \in DOMAIN s})
<1>1. s \in [1 .. n -> {s[i] : i \in DOMAIN s}]
  OBVIOUS
<1> QED
  BY <1>1

LEMMA LayoutInvInit == Init => LayoutInv
<1> SUFFICES ASSUME Init PROVE LayoutInv
  OBVIOUS
<1>1. cfg \in Layout /\ idx \in Nat \ {0} /\ parts = <<>> /\ pc = "add"
  BY LayoutsAssumption DEF Init
<1>2. <<>> \in Seq({parts[i] : i \in DOMAIN parts}) /\ Len(<<>>) = 0
  OBVIOUS
<1> QED
  BY <1>1, <1>2 DEF LayoutInv, PartsTyped, InsidePage, Sorted, PassedApart

(* A step that leaves the ranges of the parts alone keeps what is known    *)
(* about them.                                                             *)
LEMMA SameRanges ==
  ASSUME LayoutInv, cfg' = cfg, parts' \in Seq({parts'[i] : i \in DOMAIN parts'}), Len(parts') = Len(parts),
         \A i \in 1 .. Len(parts) : parts'[i].start = parts[i].start /\ parts'[i].length = parts[i].length
  PROVE  PartsTyped' /\ InsidePage'
BY DEF LayoutInv, PartsTyped, InsidePage, WideBuild, End

LEMMA AddPartStep ==
  ASSUME LayoutInv, AddPart
  PROVE  LayoutInv'
<1>1. CASE pc' = "failed" /\ UNCHANGED <<cfg, idx, parts>>
  BY <1>1 DEF LayoutInv, PartsTyped, InsidePage, WideBuild, Sorted, PassedApart
<1>2. CASE pc' # "failed"
  <2> DEFINE c == cfg.parts[idx]
             P == [span : SpanNames \cup {BadName}, start : 0 .. IMax, length : 0 .. IMax]
  <2>0. cfg.parts \in Seq(P)
    BY DEF LayoutInv, Layout
  <2>1. pc = "add" /\ idx \in 1 .. Len(cfg.parts)
    <3>1. pc = "add" /\ idx <= Len(cfg.parts)
      BY Zenon DEF AddPart
    <3> HIDE DEF P
    <3> QED
      BY <2>0, <3>1 DEF LayoutInv
  <2>2. c.start \in 0 .. IMax /\ c.length \in 0 .. IMax
    <3>1. c \in P
      <4> HIDE DEF P
      <4> QED
        BY <2>0, <2>1
    <3> QED
      BY <3>1
  <2>3. PICK e :
          /\ parts' = Append(parts, e)
          /\ e.start = c.start /\ e.length = c.length
    <3>1. PICK parent, spanIdx :
            parts' = Append(parts, [span |-> c.span, parent |-> parent, spanIdx |-> spanIdx,
                                    start |-> c.start, length |-> c.length, inSpan |-> 0])
      BY <1>2, Zenon DEF AddPart, Fail
    <3> QED
      BY <3>1
  <2>4. /\ verify_page_layout_part_not_out_of_range(c.start, c.length)
        /\ idx' = idx + 1 /\ UNCHANGED <<cfg, pc>>
    BY <1>2 DEF AddPart, Fail
  <2> DEFINE S == {parts[i] : i \in DOMAIN parts}
  <2>5. /\ Append(parts, e) \in Seq(S \cup {e})
        /\ Len(parts') = Len(parts) + 1 /\ Len(parts) \in Nat
        /\ \A i \in 1 .. Len(parts) : parts'[i] = parts[i]
        /\ parts'[Len(parts) + 1] = e
    <3>1. parts \in Seq(S)
      BY DEF LayoutInv, PartsTyped
    <3> HIDE DEF S
    <3>2. /\ Append(parts, e) \in Seq(S \cup {e})
          /\ Len(Append(parts, e)) = Len(parts) + 1 /\ Len(parts) \in Nat
          /\ \A i \in 1 .. Len(parts) : Append(parts, e)[i] = parts[i]
          /\ Append(parts, e)[Len(parts) + 1] = e
      BY <3>1, SeqExtends
    <3> QED
      BY <2>3, <3>2, Zenon
  <2>6. PartsTyped'
    <3>1. parts' \in Seq({parts'[i] : i \in DOMAIN parts'})
      <4>1. parts' \in Seq(S \cup {e})
        BY <2>3, <2>5, Zenon
      <4> HIDE DEF S
      <4> QED
        BY <4>1, IsSequence, Zenon
    <3>2. \A i \in 1 .. Len(parts') : parts'[i].start \in 0 .. IMax /\ parts'[i].length \in 0 .. IMax
      BY <2>2, <2>3, <2>5 DEF LayoutInv, PartsTyped
    <3> QED
      BY <3>1, <3>2 DEF PartsTyped
  <2>7. InsidePage'
    <3>1. WideBuild => End(e) <= cfg.page
      BY <2>2, <2>3, <2>4, NoWrap DEF WideBuild, End, verify_page_layout_part_not_out_of_range, SizeT
    <3> QED
      BY <2>4, <2>5, <3>1 DEF LayoutInv, InsidePage, WideBuild
  <2> QED
    BY <2>1, <2>4, <2>6, <2>7 DEF LayoutInv, Sorted, PassedApart
<1> QED
  BY <1>1, <1>2 DEF AddPart, Fail

LEMMA SortPartsStep ==
  ASSUME LayoutInv, SortParts
  PROVE  LayoutInv'
<1> DEFINE n == Len(parts)
<1>1. PICK perm \in [1 .. n -> 1 .. n] :
        /\ \A i, j \in 1 .. n : i < j => parts[perm[i]].start <= parts[perm[j]].start
        /\ parts' = [i \in 1 .. n |-> parts[perm[i]]]
  BY DEF SortParts
<1>2. pc' = "link" /\ idx' = 1 /\ cfg' = cfg
  BY DEF SortParts
<1>3. n \in Nat /\ DOMAIN parts = 1 .. n
  BY DEF LayoutInv, PartsTyped
<1>4. Len(parts') = n /\ parts' \in Seq({parts'[i] : i \in DOMAIN parts'})
  BY <1>1, <1>3
<1>5. \A i \in 1 .. n : perm[i] \in 1 .. n /\ parts'[i] = parts[perm[i]]
  BY <1>1
<1>6. PartsTyped'
  BY <1>4, <1>5 DEF LayoutInv, PartsTyped
<1>7. InsidePage'
  BY <1>2, <1>4, <1>5 DEF LayoutInv, InsidePage, WideBuild
<1>8. Sorted'
  BY <1>1, <1>4, <1>5 DEF Sorted
<1>9. PassedApart'
  BY <1>2, <1>3, <1>4 DEF PassedApart
<1> QED
  BY <1>2, <1>6, <1>7, <1>8, <1>9 DEF LayoutInv

LEMMA NextOne ==
  ASSUME NEW n \in Nat, NEW a \in 1 .. n, NEW j \in 1 .. n, a < j
  PROVE  a # n /\ a + 1 \in 1 .. n /\ (a + 1 = j \/ a + 1 < j)
OBVIOUS

LEMMA LinkPartStep ==
  ASSUME LayoutInv, LinkPart
  PROVE  LayoutInv'
<1>1. CASE pc' = "failed" /\ UNCHANGED <<cfg, idx, parts>>
  BY <1>1 DEF LayoutInv, PartsTyped, InsidePage, WideBuild, Sorted, PassedApart
<1>2. CASE pc' # "failed"
  <2> DEFINE n == Len(parts)
  <2>1. /\ pc = "link" /\ idx \in 1 .. n /\ ~OverlapsNext(idx)
        /\ idx' = idx + 1 /\ UNCHANGED <<cfg, pc>>
    BY <1>2 DEF LinkPart, Fail, LayoutInv
  <2>2. PICK place : parts' = [parts EXCEPT ![idx].inSpan = place]
    BY <1>2, Zenon DEF LinkPart, Fail
  <2>3. n \in Nat /\ DOMAIN parts = 1 .. n
    BY DEF LayoutInv, PartsTyped
  <2>4. /\ Len(parts') = n /\ parts' \in Seq({parts'[i] : i \in DOMAIN parts'})
    <3>1. DOMAIN parts' = 1 .. n /\ parts' = [i \in 1 .. n |-> parts'[i]]
      BY <2>2, <2>3
    <3> QED
      BY <2>3, <3>1, FunctionIsSequence, Zenon
  <2>5. \A i \in 1 .. n : parts'[i].start = parts[i].start /\ parts'[i].length = parts[i].length
    BY <2>2, <2>3
  <2>6. PartsTyped' /\ InsidePage'
    BY <2>1, <2>4, <2>5, SameRanges
  <2>7. Sorted'
    BY <2>1, <2>4, <2>5 DEF LayoutInv, Sorted
  <2>8. idx # n => End(parts[idx]) <= parts[idx + 1].start
    <3> SUFFICES ASSUME idx # n PROVE End(parts[idx]) <= parts[idx + 1].start
      OBVIOUS
    <3>1. parts[idx].start \in 0 .. IMax /\ parts[idx].length \in 0 .. IMax
      BY <2>1 DEF LayoutInv, PartsTyped
    <3>2. parts[idx + 1].start >= (parts[idx].start + parts[idx].length) % (UMax + 1)
      BY <2>1 DEF OverlapsNext, check_non_overlapping_sorted
    <3>3. (parts[idx].start + parts[idx].length) % (UMax + 1) = End(parts[idx])
      BY <3>1, NoWrap DEF End
    <3> QED
      BY <3>1, <3>2, <3>3 DEF End
  <2>9. PassedApart'
    <3> SUFFICES ASSUME NEW i \in 1 .. n, NEW j \in 1 .. n, i < j, i < idx + 1
                 PROVE  End(parts[i]) <= parts[j].start
      BY <2>1, <2>4, <2>5 DEF PassedApart, End
    <3>1. CASE i < idx
      BY <2>1, <3>1 DEF LayoutInv, PassedApart
    <3>2. CASE i = idx
      <4>1. idx # n /\ idx + 1 \in 1 .. n /\ (idx + 1 = j \/ idx + 1 < j)
        <5>1. idx \in 1 .. n /\ idx < j
          BY <2>1, <3>2
        <5> HIDE DEF n
        <5> QED
          BY <2>3, <5>1, NextOne
      <4>2. \A k \in 1 .. n : parts[k].start \in 0 .. IMax /\ parts[k].length \in 0 .. IMax
        BY DEF LayoutInv, PartsTyped
      <4>3. End(parts[idx]) \in Int /\ parts[idx + 1].start \in Int /\ parts[j].start \in Int
        <5>1. \A k \in 1 .. n : parts[k].start \in Int /\ End(parts[k]) \in Int
          BY <4>2 DEF End
        <5> QED
          BY <2>1, <4>1, <5>1, Zenon
      <4>4. parts[idx + 1].start <= parts[j].start
        BY <2>1, <4>1, <4>3 DEF LayoutInv, Sorted
      <4>5. End(parts[idx]) <= parts[idx + 1].start
        BY <2>8, <4>1, Zenon
      <4> QED
        BY <3>2, <4>3, <4>4, <4>5
    <3> QED
      BY <2>1, <3>1, <3>2
  <2> QED
    BY <2>1, <2>6, <2>7, <2>9 DEF LayoutInv
<1> QED
  BY <1>1, <1>2 DEF LinkPart, Fail

LEMMA LayoutInvStep == LayoutInv /\ [Next]_vars => LayoutInv'
<1> SUFFICES ASSUME LayoutInv, [Next]_vars PROVE LayoutInv'
  OBVIOUS
<1>1. CASE AddPart
  BY <1>1, AddPartStep
<1>2. CASE SortParts
  BY <1>2, SortPartsStep
<1>3. CASE LinkPart
  BY <1>3, LinkPartStep
<1>4. CASE LinkFault \/ OutOfMemory
  <2>1. pc' \notin {"link", "ready"} /\ UNCHANGED <<cfg, idx, parts>>
    BY <1>4 DEF LinkFault, OutOfMemory, Fail
  <2> QED
    BY <2>1 DEF LayoutInv, PartsTyped, InsidePage, WideBuild, Sorted, PassedApart
<1>5. CASE AllocBuffers
  <2>1. pc = "link" /\ idx > Len(parts) /\ pc' \in {"ready", "aborted"} /\ UNCHANGED <<cfg, idx, parts>>
    BY <1>5 DEF AllocBuffers
  <2>2. PassedApart'
    <3>1. \A i \in 1 .. Len(parts) : i < idx
      BY <2>1 DEF LayoutInv, PartsTyped
    <3> QED
      BY <2>1, <3>1 DEF LayoutInv, PassedApart
  <2> QED
    BY <2>1, <2>2 DEF LayoutInv, PartsTyped, InsidePage, WideBuild, Sorted
<1>6. CASE UNCHANGED vars
  BY <1>6 DEF vars, LayoutInv, PartsTyped, InsidePage, WideBuild, Sorted, PassedApart
<1> QED
  BY <1>1, <1>2, <1>3, <1>4, <1>5, <1>6 DEF Next

(***************************************************************************)
(* On a build whose size_t has 64 bits, the parts of any layout that       *)
(* add_pipeline_layout_parts accepts lie inside the page and no two share  *)
(* a byte, although it compares only neighbours and its sums could wrap:   *)
(* the sort makes the neighbours enough, and the configuration's numbers   *)
(* are halves of what a uint64_t holds.                                    *)
(***************************************************************************)
THEOREM AcceptedPartsAreApart == Spec => []PartsInsidePage
<1>1. LayoutInv => PartsInsidePage
  BY DEF LayoutInv, PartsInsidePage, InsidePage, PassedApart, WideBuild, End
<1> QED
  BY <1>1, LayoutInvInit, LayoutInvStep, PTL DEF Spec

-----------------------------------------------------------------------------
(* The spans in their table. *)

(* The n spans have the numbers 0 .. n - 1. *)
Numbered(bs, n) ==
  /\ \A x, y : <<x, y>> \in Pairs(bs) => y.idx \in 0 .. n - 1
  /\ \A i \in 0 .. n - 1 : \E x, y : <<x, y>> \in Pairs(bs) /\ y.idx = i
  /\ \A x, y, w, z : <<x, y>> \in Pairs(bs) /\ <<w, z>> \in Pairs(bs) /\ y.idx = z.idx => x = w

(* Every part's span is in the table, under the number the part has. *)
PartsNumbered(ps, bs) ==
  \A i \in 1 .. Len(ps) :
    ps[i].span \in SpanNames /\ \E y : <<ps[i].span, y>> \in Pairs(bs) /\ y.idx = ps[i].spanIdx

(* A pointer into the current array is one to an occupied bucket. *)
Pointers(ps, g, bs) ==
  \A i \in 1 .. Len(ps) :
    /\ ps[i].parent.gen \in 1 .. g + 1
    /\ ps[i].parent.gen = g + 1 => ps[i].parent.bucket \in Occupied(bs)

Progress ==
  /\ pc \in {"add", "link", "ready", "failed", "aborted", "crashed"}
  /\ idx <= Len(cfg.parts) + 1 /\ Len(parts) <= Len(cfg.parts)
  /\ pc = "add" => Len(parts) = idx - 1

TableInv == cfg \in Layouts /\ TableOK(spans, cfg.hash, SpanNames, Span)

SpanInv ==
  /\ TableInv /\ Progress /\ freed \in Seq({freed[i] : i \in DOMAIN freed})
  /\ Numbered(spans.buckets, spans.count)
  /\ PartsNumbered(parts, spans.buckets) /\ Pointers(parts, Len(freed), spans.buckets)
  /\ DOMAIN filled = 0 .. Cardinality(SpanNames) - 1

LEMMA ConfigType ==
  ASSUME cfg \in Layouts
  PROVE  /\ \A x \in SpanNames : cfg.hash[x] \in Nat
         /\ cfg.sizeMax \in 1 .. UMax /\ cfg.page \in 1 .. UMax
         /\ Len(cfg.parts) \in Nat
         /\ \A i \in 1 .. Len(cfg.parts) :
              /\ cfg.parts[i].span \in SpanNames \cup {BadName}
              /\ cfg.parts[i].start \in 0 .. IMax /\ cfg.parts[i].length \in 0 .. IMax
<1> DEFINE P == [span : SpanNames \cup {BadName}, start : 0 .. IMax, length : 0 .. IMax]
<1>1. cfg.hash \in [SpanNames -> Nat] /\ cfg.sizeMax \in 1 .. UMax /\ cfg.page \in 1 .. UMax /\ cfg.parts \in Seq(P)
  BY LayoutsAssumption DEF Layout
<1>2. \A p \in P : p.span \in SpanNames \cup {BadName} /\ p.start \in 0 .. IMax /\ p.length \in 0 .. IMax
  OBVIOUS
<1> HIDE DEF P
<1>3. Len(cfg.parts) \in Nat /\ \A i \in 1 .. Len(cfg.parts) : cfg.parts[i] \in P
  BY <1>1
<1> QED
  BY <1>1, <1>2, <1>3

(* The span of find_or_add_new_span. *)
NewSpan == [idx |-> spans.count, nparts |-> 0, total |-> 0, buf |-> FALSE]

AddedSpan(table, k) ==
  /\ TableOK(table, cfg.hash, SpanNames, Span)
  /\ \/ Has(spans.buckets, k) /\ table = spans
     \/ /\ ~Has(spans.buckets, k) /\ table.count = spans.count + 1
        /\ SetPairs(table.buckets, spans.buckets, k, NewSpan)
  /\ NBuckets(table.buckets) = NBuckets(spans.buckets) =>
       Occupied(spans.buckets) \subseteq Occupied(table.buckets)
  /\ ~MustGrow(spans) => NBuckets(table.buckets) = NBuckets(spans.buckets)

LEMMA WithSpanOK ==
  ASSUME TableInv, NEW k \in SpanNames
  PROVE  LET table == WithSpan(k)
             b == ProbeEnd(table.buckets, cfg.hash, k)
         IN AddedSpan(table, k) /\ b \in Occupied(table.buckets) /\ table.buckets[b].key = k
<1> DEFINE table == WithSpan(k)
           b == ProbeEnd(table.buckets, cfg.hash, k)
           r == hashmap_get(spans, cfg.hash, k)
<1>1. TableOK(spans, cfg.hash, SpanNames, Span) /\ (\A x \in SpanNames : cfg.hash[x] \in Nat)
  BY ConfigType DEF TableInv
<1>2. NoKey \notin SpanNames /\ NoVal \notin Span
  BY SpansAssumption
<1>3. Returns(r, spans.buckets, k) /\ (r = NoVal => ~Has(spans.buckets, k))
  BY <1>1, <1>2, GetOK
<1>4. r # NoVal => Has(spans.buckets, k)
  BY <1>3 DEF Returns
<1>5. NewSpan \in Span
  BY <1>1, TableFacts, LayoutsAssumption DEF Span, NewSpan
<1>6. AddedSpan(table, k) /\ Has(table.buckets, k)
  <2>1. CASE r # NoVal
    BY <1>1, <1>4, <2>1 DEF WithSpan, AddedSpan
  <2>2. CASE r = NoVal
    <3> DEFINE s == hashmap_set(spans, cfg.hash, k, NewSpan)
    <3>1. table = s.table
      BY <2>2 DEF WithSpan, NewSpan
    <3>2. /\ TableOK(s.table, cfg.hash, SpanNames, Span) /\ SetPairs(s.table.buckets, spans.buckets, k, NewSpan)
          /\ s.table.count = IF Has(spans.buckets, k) THEN spans.count ELSE spans.count + 1
          /\ MustGrow(spans) => NBuckets(s.table.buckets) # NBuckets(spans.buckets)
          /\ ~MustGrow(spans) => /\ NBuckets(s.table.buckets) = NBuckets(spans.buckets)
                                 /\ Occupied(spans.buckets) \subseteq Occupied(s.table.buckets)
      <4>1. SetDone(s, spans, cfg.hash, SpanNames, Span, k, NewSpan)
        BY <1>1, <1>5, SetOK
      <4> HIDE DEF s
      <4> QED
        BY <4>1 DEF SetDone
    <3> HIDE DEF table, s
    <3>3. Has(table.buckets, k)
      BY <3>1, <3>2 DEF SetPairs, Has
    <3> QED
      BY <1>3, <2>2, <3>1, <3>2, <3>3 DEF AddedSpan
  <2> QED
    BY <2>1, <2>2
<1> HIDE DEF table
<1>7. TableOK(table, cfg.hash, SpanNames, Span)
  BY <1>6 DEF AddedSpan
<1>8. hashmap_get(table, cfg.hash, k) # NoVal
  BY <1>1, <1>2, <1>6, <1>7, GetOK
<1>9. b \in 0 .. NBuckets(table.buckets) - 1 /\ table.buckets[b].dib # 0 /\ table.buckets[b].key = k
  BY <1>1, <1>2, <1>7, <1>8, GetOK
<1>10. DOMAIN table.buckets = 0 .. NBuckets(table.buckets) - 1
  BY <1>7, TableFacts
<1> QED
  BY <1>6, <1>9, <1>10 DEF Occupied, table

(* The table keeps its items and their numbers. *)
KeepsNumbers(new, bs) == \A x, y : <<x, y>> \in Pairs(bs) => \E z : <<x, z>> \in Pairs(new) /\ z.idx = y.idx

LEMMA NumberedKept ==
  ASSUME NEW bs, NEW new, NEW n, Numbered(bs, n), KeepsNumbers(new, bs), KeepsNumbers(bs, new)
  PROVE  Numbered(new, n)
<1>1. \A x, y : <<x, y>> \in Pairs(new) => \E z : <<x, z>> \in Pairs(bs) /\ z.idx = y.idx
  BY DEF KeepsNumbers
<1>2. \A x, y : <<x, y>> \in Pairs(bs) => \E z : <<x, z>> \in Pairs(new) /\ z.idx = y.idx
  BY DEF KeepsNumbers
<1>3. ASSUME NEW x, NEW y, <<x, y>> \in Pairs(new) PROVE y.idx \in 0 .. n - 1
  <2>1. PICK z : <<x, z>> \in Pairs(bs) /\ z.idx = y.idx
    BY <1>1, <1>3
  <2>2. z.idx \in 0 .. n - 1
    BY <2>1 DEF Numbered
  <2> QED
    BY <2>1, <2>2
<1>4. ASSUME NEW i \in 0 .. n - 1 PROVE \E x, y : <<x, y>> \in Pairs(new) /\ y.idx = i
  <2>1. PICK x, y : <<x, y>> \in Pairs(bs) /\ y.idx = i
    BY <1>4 DEF Numbered
  <2> QED
    BY <1>2, <2>1
<1>5. ASSUME NEW x, NEW y, NEW c, NEW z, <<x, y>> \in Pairs(new), <<c, z>> \in Pairs(new), y.idx = z.idx
      PROVE  x = c
  <2>1. PICK y0 : <<x, y0>> \in Pairs(bs) /\ y0.idx = y.idx
    BY <1>1, <1>5
  <2>2. PICK z0 : <<c, z0>> \in Pairs(bs) /\ z0.idx = z.idx
    BY <1>1, <1>5
  <2>3. y0.idx = z0.idx
    BY <1>5, <2>1, <2>2
  <2> QED
    BY <2>1, <2>2, <2>3 DEF Numbered
<1> QED
  BY <1>3, <1>4, <1>5 DEF Numbered

LEMMA NumberedSame ==
  ASSUME NEW bs, NEW new, NEW n, NEW k, NEW v, NEW w, Numbered(bs, n), SetPairs(new, bs, k, v),
         <<k, w>> \in Pairs(bs), v.idx = w.idx,
         \A x, y, z : <<x, y>> \in Pairs(bs) /\ <<x, z>> \in Pairs(bs) => y = z
  PROVE  Numbered(new, n)
<1>1. \A x, y : <<x, y>> \in Pairs(new) <=> (x = k /\ y = v) \/ (x # k /\ <<x, y>> \in Pairs(bs))
  BY DEF SetPairs
<1>2. ASSUME NEW x, NEW y, <<x, y>> \in Pairs(new)
      PROVE  \E z : <<x, z>> \in Pairs(bs) /\ z.idx = y.idx
  <2>1. CASE x = k /\ y = v
    <3>1. <<x, w>> \in Pairs(bs) /\ w.idx = y.idx
      BY <2>1
    <3> QED
      BY <3>1
  <2>2. CASE <<x, y>> \in Pairs(bs)
    BY <2>2
  <2> QED
    BY <1>1, <1>2, <2>1, <2>2
<1>3. ASSUME NEW x, NEW y, <<x, y>> \in Pairs(bs)
      PROVE  \E z : <<x, z>> \in Pairs(new) /\ z.idx = y.idx
  <2>1. CASE x = k
    <3>1. y = w
      BY <1>3, <2>1
    <3>2. <<x, v>> \in Pairs(new) /\ v.idx = y.idx
      BY <1>1, <2>1, <3>1
    <3> QED
      BY <3>2
  <2>2. CASE x # k
    BY <1>1, <1>3, <2>2
  <2> QED
    BY <2>1, <2>2
<1> QED
  BY <1>2, <1>3, NumberedKept DEF KeepsNumbers

LEMMA NumberedNew ==
  ASSUME NEW bs, NEW new, NEW n \in Nat, NEW k, NEW v, Numbered(bs, n), SetPairs(new, bs, k, v),
         ~Has(bs, k), v.idx = n
  PROVE  Numbered(new, n + 1)
<1>1. \A x, y : <<x, y>> \in Pairs(new) <=> (x = k /\ y = v) \/ <<x, y>> \in Pairs(bs)
  BY DEF SetPairs, Has
<1>2. \A x, y : <<x, y>> \in Pairs(bs) => y.idx \in 0 .. n - 1 /\ y.idx # n
  BY DEF Numbered
<1>3. \A x, y : <<x, y>> \in Pairs(new) => y.idx \in 0 .. n
  BY <1>1, <1>2
<1>4. ASSUME NEW i \in 0 .. n PROVE \E x, y : <<x, y>> \in Pairs(new) /\ y.idx = i
  <2>1. CASE i = n
    <3>1. <<k, v>> \in Pairs(new) /\ v.idx = i
      BY <1>1, <2>1
    <3> QED
      BY <3>1
  <2>2. CASE i \in 0 .. n - 1
    <3>1. PICK x, y : <<x, y>> \in Pairs(bs) /\ y.idx = i
      BY <2>2 DEF Numbered
    <3>2. <<x, y>> \in Pairs(new)
      BY <1>1, <3>1
    <3> QED
      BY <3>1, <3>2
  <2>3. i = n \/ i \in 0 .. n - 1
    OBVIOUS
  <2> QED
    BY <2>1, <2>2, <2>3
<1>5. \A x, y, c, z : <<x, y>> \in Pairs(new) /\ <<c, z>> \in Pairs(new) /\ y.idx = z.idx => x = c
  BY <1>1, <1>2 DEF Numbered
<1>6. (n + 1) - 1 = n
  OBVIOUS
<1> QED
  BY <1>3, <1>4, <1>5, <1>6 DEF Numbered

LEMMA PartsKept ==
  ASSUME NEW ps, NEW bs, NEW new, PartsNumbered(ps, bs), KeepsNumbers(new, bs)
  PROVE  PartsNumbered(ps, new)
<1> SUFFICES ASSUME NEW i \in 1 .. Len(ps)
             PROVE  ps[i].span \in SpanNames /\ \E y : <<ps[i].span, y>> \in Pairs(new) /\ y.idx = ps[i].spanIdx
  BY DEF PartsNumbered
<1>1. ps[i].span \in SpanNames
  BY DEF PartsNumbered
<1>2. PICK y : <<ps[i].span, y>> \in Pairs(bs) /\ y.idx = ps[i].spanIdx
  BY DEF PartsNumbered
<1>3. PICK z : <<ps[i].span, z>> \in Pairs(new) /\ z.idx = y.idx
  BY <1>2 DEF KeepsNumbers
<1>4. z.idx = ps[i].spanIdx
  BY <1>2, <1>3
<1> QED
  BY <1>1, <1>3, <1>4

LEMMA SetKeepsNumbers ==
  ASSUME NEW bs, NEW new, NEW k, NEW v, SetPairs(new, bs, k, v),
         \A w : <<k, w>> \in Pairs(bs) => v.idx = w.idx
  PROVE  KeepsNumbers(new, bs)
<1> SUFFICES ASSUME NEW x, NEW y, <<x, y>> \in Pairs(bs)
             PROVE  \E z : <<x, z>> \in Pairs(new) /\ z.idx = y.idx
  BY DEF KeepsNumbers
<1>1. CASE x = k
  <2>1. <<x, v>> \in Pairs(new) /\ v.idx = y.idx
    BY <1>1 DEF SetPairs
  <2> QED
    BY <2>1
<1>2. CASE x # k
  BY <1>2 DEF SetPairs
<1> QED
  BY <1>1, <1>2

(* Changing a span through its bucket, but not its number. *)
LEMMA AssignSpan ==
  ASSUME TableInv, NEW t, TableOK(t, cfg.hash, SpanNames, Span), NEW n, Numbered(t.buckets, n),
         NEW b \in Occupied(t.buckets), NEW v \in Span, v.idx = t.buckets[b].val.idx
  PROVE  LET u == [t EXCEPT !.buckets[b].val = v]
         IN /\ Assigned(u, t, cfg.hash, SpanNames, Span, b, v)
            /\ Numbered(u.buckets, n) /\ KeepsNumbers(u.buckets, t.buckets)
<1> DEFINE u == [t EXCEPT !.buckets[b].val = v]
<1>1. Assigned(u, t, cfg.hash, SpanNames, Span, b, v)
  BY AssignOK
<1> HIDE DEF u
<1>2. SetPairs(u.buckets, t.buckets, t.buckets[b].key, v)
  BY <1>1 DEF Assigned
<1>3. /\ \A x, y, z : <<x, y>> \in Pairs(t.buckets) /\ <<x, z>> \in Pairs(t.buckets) => y = z
      /\ <<t.buckets[b].key, t.buckets[b].val>> \in Pairs(t.buckets)
  BY PairsOfTable DEF PairsGood
<1>4. Numbered(u.buckets, n)
  BY <1>2, <1>3, NumberedSame
<1>5. KeepsNumbers(u.buckets, t.buckets)
  BY <1>2, <1>3, SetKeepsNumbers
<1> QED
  BY <1>1, <1>4, <1>5 DEF u

-----------------------------------------------------------------------------
(* The steps. *)

AddedPart(c, g, b, n) ==
  [span |-> c.span, parent |-> [gen |-> g, bucket |-> b], spanIdx |-> n,
   start |-> c.start, length |-> c.length, inSpan |-> 0]

(* What AddPart does when it does not fail. *)
LEMMA AddPartDoes ==
  ASSUME AddPart, pc' # "failed", cfg \in Layouts, idx \in Nat \ {0}
  PROVE  LET c == cfg.parts[idx]
             table == WithSpan(c.span)
             b == ProbeEnd(table.buckets, cfg.hash, c.span)
             grows == NBuckets(table.buckets) # NBuckets(spans.buckets)
             v == [table.buckets[b].val EXCEPT !.nparts = table.buckets[b].val.nparts + 1]
         IN /\ idx \in 1 .. Len(cfg.parts) /\ pc = "add" /\ c.span \in SpanNames /\ c.span # BadName
            /\ spans' = [table EXCEPT !.buckets[b].val = v]
            /\ freed' = IF grows THEN Append(freed, spans.buckets) ELSE freed
            /\ parts' = Append(parts, AddedPart(c, IF grows THEN Len(freed) + 2 ELSE Len(freed) + 1, b,
                                                table.buckets[b].val.idx))
            /\ idx' = idx + 1 /\ UNCHANGED <<cfg, pc, rc, filled>>
<1> DEFINE c == cfg.parts[idx]
           table == WithSpan(c.span)
           b == ProbeEnd(table.buckets, cfg.hash, c.span)
           grows == NBuckets(table.buckets) # NBuckets(spans.buckets)
           v == [table.buckets[b].val EXCEPT !.nparts = table.buckets[b].val.nparts + 1]
<1>1. pc = "add" /\ idx <= Len(cfg.parts)
  BY Zenon DEF AddPart
<1>2. idx \in 1 .. Len(cfg.parts)
  BY <1>1, ConfigType
<1>3. /\ c.span # BadName
      /\ spans' = [table EXCEPT !.buckets[b].val.nparts = @ + 1]
      /\ freed' = IF grows THEN Append(freed, spans.buckets) ELSE freed
      /\ parts' = Append(parts, AddedPart(c, IF grows THEN Len(freed) + 2 ELSE Len(freed) + 1, b,
                                          table.buckets[b].val.idx))
      /\ idx' = idx + 1 /\ UNCHANGED <<cfg, pc, rc, filled>>
  BY Zenon DEF AddPart, Fail, AddedPart
<1>4. c.span \in SpanNames
  BY <1>2, <1>3, ConfigType
<1> HIDE DEF c, table, b
<1>5. spans' = [table EXCEPT !.buckets[b].val = v]
  BY <1>3
<1> QED
  BY <1>1, <1>2, <1>3, <1>4, <1>5 DEF c, table, b

(* The span of the new part is at bucket b of table, and v afterwards. *)
PartAdded(table, b, v) ==
  LET c == cfg.parts[idx]
      k == c.span
      w == table.buckets[b].val
      g == IF NBuckets(table.buckets) # NBuckets(spans.buckets) THEN Len(freed) + 2 ELSE Len(freed) + 1
  IN /\ idx \in 1 .. Len(cfg.parts) /\ pc = "add" /\ k \in SpanNames /\ k # BadName
     /\ AddedSpan(table, k) /\ b \in Occupied(table.buckets) /\ table.buckets[b].key = k
     /\ b = ProbeEnd(table.buckets, cfg.hash, k)
     /\ w \in Span /\ v = [w EXCEPT !.nparts = w.nparts + 1] /\ v \in Span /\ v.idx = w.idx
     /\ Assigned(spans', table, cfg.hash, SpanNames, Span, b, v)
     /\ freed' = IF NBuckets(table.buckets) # NBuckets(spans.buckets) THEN Append(freed, spans.buckets) ELSE freed
     /\ parts' = Append(parts, AddedPart(c, g, b, w.idx))
     /\ idx' = idx + 1 /\ UNCHANGED <<cfg, pc, rc, filled>>

LEMMA AddPartTable ==
  ASSUME TableInv, AddPart, pc' # "failed", idx \in Nat \ {0}
  PROVE  \E table, b, v : PartAdded(table, b, v)
<1> DEFINE c == cfg.parts[idx]
           table == WithSpan(c.span)
           b == ProbeEnd(table.buckets, cfg.hash, c.span)
           grows == NBuckets(table.buckets) # NBuckets(spans.buckets)
           w == table.buckets[b].val
           v == [w EXCEPT !.nparts = w.nparts + 1]
           g == IF grows THEN Len(freed) + 2 ELSE Len(freed) + 1
<1>1. cfg \in Layouts
  BY DEF TableInv
<1>2. /\ idx \in 1 .. Len(cfg.parts) /\ pc = "add" /\ c.span \in SpanNames /\ c.span # BadName
      /\ spans' = [table EXCEPT !.buckets[b].val = v]
      /\ freed' = IF grows THEN Append(freed, spans.buckets) ELSE freed
      /\ parts' = Append(parts, AddedPart(c, g, b, w.idx))
      /\ idx' = idx + 1 /\ UNCHANGED <<cfg, pc, rc, filled>>
  BY <1>1, AddPartDoes
<1>3. AddedSpan(table, c.span) /\ b \in Occupied(table.buckets) /\ table.buckets[b].key = c.span
  BY <1>2, WithSpanOK
<1>4. b = ProbeEnd(table.buckets, cfg.hash, c.span)
  OBVIOUS
<1> HIDE DEF table, b
<1>5. TableOK(table, cfg.hash, SpanNames, Span)
  BY <1>3 DEF AddedSpan
<1>6. w \in Span
  <2>1. PairsGood(table, SpanNames, Span)
    BY <1>5, PairsOfTable
  <2> QED
    BY <1>3, <2>1 DEF PairsGood
<1> HIDE DEF w
<1>7. v \in Span /\ v.idx = w.idx
  BY <1>6 DEF Span
<1> HIDE DEF v
<1>8. Assigned(spans', table, cfg.hash, SpanNames, Span, b, v)
  BY <1>2, <1>3, <1>5, <1>7, AssignOK
<1> HIDE DEF c
<1>9. v = [w EXCEPT !.nparts = w.nparts + 1]
  BY DEF v
<1>10. PartAdded(table, b, v)
  BY <1>2, <1>3, <1>4, <1>6, <1>7, <1>8, <1>9 DEF PartAdded, c, w
<1> QED
  BY <1>10

LEMMA AddPartSpans ==
  ASSUME LayoutInv, SpanInv, AddPart, pc' # "failed"
  PROVE  SpanInv'
<1>1. TableInv /\ idx \in Nat \ {0}
  BY DEF LayoutInv, SpanInv
<1>2. PICK table, b, v : PartAdded(table, b, v)
  BY <1>1, AddPartTable
<1> DEFINE c == cfg.parts[idx]
           k == c.span
           w == table.buckets[b].val
           grows == NBuckets(table.buckets) # NBuckets(spans.buckets)
           g == IF grows THEN Len(freed) + 2 ELSE Len(freed) + 1
           e == AddedPart(c, g, b, w.idx)
<1>3. /\ idx \in 1 .. Len(cfg.parts) /\ pc = "add" /\ k \in SpanNames
      /\ AddedSpan(table, k) /\ b \in Occupied(table.buckets) /\ table.buckets[b].key = k
      /\ w \in Span /\ v \in Span /\ v.idx = w.idx
      /\ Assigned(spans', table, cfg.hash, SpanNames, Span, b, v)
      /\ freed' = IF grows THEN Append(freed, spans.buckets) ELSE freed
      /\ parts' = Append(parts, e)
      /\ idx' = idx + 1 /\ UNCHANGED <<cfg, pc, rc, filled>>
  BY <1>2 DEF PartAdded
<1>4. /\ TableOK(table, cfg.hash, SpanNames, Span)
      /\ \/ Has(spans.buckets, k) /\ table = spans
         \/ /\ ~Has(spans.buckets, k) /\ table.count = spans.count + 1
            /\ SetPairs(table.buckets, spans.buckets, k, NewSpan)
      /\ ~grows => Occupied(spans.buckets) \subseteq Occupied(table.buckets)
  BY <1>3 DEF AddedSpan
<1>5. /\ TableOK(spans', cfg.hash, SpanNames, Span) /\ SetPairs(spans'.buckets, table.buckets, k, v)
      /\ Occupied(spans'.buckets) = Occupied(table.buckets) /\ spans'.count = table.count
  BY <1>3 DEF Assigned
<1>6. e.span = k /\ e.parent = [gen |-> g, bucket |-> b] /\ e.spanIdx = w.idx
  BY DEF AddedPart
<1> HIDE DEF c, k, w, grows, e
<1>7. Numbered(table.buckets, table.count) /\ KeepsNumbers(table.buckets, spans.buckets)
  <2>1. CASE table = spans
    BY <2>1 DEF SpanInv, KeepsNumbers
  <2>2. CASE /\ ~Has(spans.buckets, k) /\ table.count = spans.count + 1
             /\ SetPairs(table.buckets, spans.buckets, k, NewSpan)
    <3>1. spans.count \in Nat
      BY <1>1, TableFacts DEF TableInv
    <3>2. NewSpan.idx = spans.count
      BY DEF NewSpan
    <3>3. Numbered(table.buckets, spans.count + 1)
      BY <2>2, <3>1, <3>2, NumberedNew DEF SpanInv
    <3>4. KeepsNumbers(table.buckets, spans.buckets)
      BY <2>2, SetKeepsNumbers DEF Has
    <3> QED
      BY <2>2, <3>3, <3>4
  <2> QED
    BY <1>4, <2>1, <2>2
<1>8. /\ \A x, y, z : <<x, y>> \in Pairs(table.buckets) /\ <<x, z>> \in Pairs(table.buckets) => y = z
      /\ <<k, w>> \in Pairs(table.buckets)
  <2>1. PairsGood(table, SpanNames, Span)
    BY <1>4, PairsOfTable
  <2>2. <<table.buckets[b].key, w>> \in Pairs(table.buckets)
    BY <1>3, <2>1 DEF PairsGood, w
  <2>3. \A x, y, z : <<x, y>> \in Pairs(table.buckets) /\ <<x, z>> \in Pairs(table.buckets) => y = z
    BY <2>1 DEF PairsGood
  <2> QED
    BY <1>3, <2>2, <2>3
<1>9. Numbered(spans'.buckets, spans'.count)
  BY <1>3, <1>5, <1>7, <1>8, NumberedSame
<1>10. KeepsNumbers(spans'.buckets, table.buckets)
  BY <1>3, <1>5, <1>8, SetKeepsNumbers
<1>11. PartsNumbered(parts, spans'.buckets)
  BY <1>7, <1>10, PartsKept DEF SpanInv
<1>12. /\ Len(parts') = Len(parts) + 1 /\ Len(parts) \in Nat
       /\ \A i \in 1 .. Len(parts) : parts'[i] = parts[i]
       /\ parts'[Len(parts) + 1] = e
  BY <1>3, SeqExtends DEF LayoutInv, PartsTyped
<1>13. PartsNumbered(parts', spans'.buckets)
  <2>1. <<k, v>> \in Pairs(spans'.buckets)
    BY <1>5 DEF SetPairs
  <2>2. ASSUME NEW i \in 1 .. Len(parts) + 1
        PROVE  parts'[i].span \in SpanNames
               /\ \E y : <<parts'[i].span, y>> \in Pairs(spans'.buckets) /\ y.idx = parts'[i].spanIdx
    <3>1. CASE i \in 1 .. Len(parts)
      BY <1>11, <1>12, <3>1 DEF PartsNumbered
    <3>2. CASE i = Len(parts) + 1
      <4>1. parts'[i].span = k /\ parts'[i].spanIdx = v.idx
        BY <1>3, <1>6, <1>12, <3>2
      <4> QED
        BY <1>3, <2>1, <4>1
    <3>3. i \in 1 .. Len(parts) \/ i = Len(parts) + 1
      BY <1>12
    <3> QED
      BY <3>1, <3>2, <3>3
  <2> QED
    BY <1>12, <2>2 DEF PartsNumbered
<1>14. freed' \in Seq({freed'[i] : i \in DOMAIN freed'}) /\ Len(freed) \in Nat
       /\ Len(freed') = IF grows THEN Len(freed) + 1 ELSE Len(freed)
  <2>1. freed \in Seq({freed[i] : i \in DOMAIN freed})
    BY DEF SpanInv
  <2> DEFINE S == {freed[i] : i \in DOMAIN freed}
  <2> HIDE DEF S
  <2>2. freed \in Seq(S)
    BY <2>1 DEF S
  <2>3. CASE grows
    <3>1. Append(freed, spans.buckets) \in Seq(S \cup {spans.buckets}) /\ Len(Append(freed, spans.buckets)) = Len(freed) + 1
          /\ Len(freed) \in Nat
      BY <2>2, SeqExtends
    <3>2. freed' = Append(freed, spans.buckets)
      BY <1>3, <2>3
    <3>3. freed' \in Seq(S \cup {spans.buckets}) /\ Len(freed') = Len(freed) + 1
      BY <3>1, <3>2
    <3>4. freed' \in Seq({freed'[i] : i \in DOMAIN freed'})
      BY <3>3, IsSequence
    <3> QED
      BY <2>3, <3>1, <3>3, <3>4
  <2>4. CASE ~grows
    BY <1>3, <2>1, <2>2, <2>4
  <2> QED
    BY <2>3, <2>4
<1>15. Pointers(parts', Len(freed'), spans'.buckets)
  <2>1. ASSUME NEW i \in 1 .. Len(parts)
        PROVE  /\ parts[i].parent.gen \in 1 .. Len(freed') + 1
               /\ parts[i].parent.gen = Len(freed') + 1 => parts[i].parent.bucket \in Occupied(spans'.buckets)
    <3>1. /\ parts[i].parent.gen \in 1 .. Len(freed) + 1
          /\ parts[i].parent.gen = Len(freed) + 1 => parts[i].parent.bucket \in Occupied(spans.buckets)
      BY <2>1 DEF SpanInv, Pointers
    <3>2. CASE grows
      BY <1>14, <3>1, <3>2
    <3>3. CASE ~grows
      BY <1>4, <1>5, <1>14, <3>1, <3>3
    <3> QED
      BY <3>2, <3>3
  <2>2. e.parent.gen \in 1 .. Len(freed') + 1 /\ e.parent.bucket \in Occupied(spans'.buckets)
    BY <1>3, <1>5, <1>6, <1>14
  <2> QED
    BY <1>12, <2>1, <2>2 DEF Pointers
<1>16. TableInv' /\ DOMAIN filled' = 0 .. Cardinality(SpanNames) - 1
  BY <1>1, <1>3, <1>5 DEF TableInv, SpanInv
<1>17. Progress'
  <2>1. Len(cfg.parts) \in Nat
    BY <1>1, ConfigType DEF TableInv
  <2> QED
    BY <1>3, <1>12, <2>1 DEF SpanInv, Progress
<1> QED
  BY <1>9, <1>13, <1>14, <1>15, <1>16, <1>17 DEF SpanInv

(* The parts in another order, or with another place in their span. *)
LEMMA PartsFrom ==
  ASSUME NEW ps, NEW qs, NEW bs, NEW g, PartsNumbered(ps, bs), Pointers(ps, g, bs),
         \A i \in 1 .. Len(qs) : \E j \in 1 .. Len(ps) :
           qs[i].span = ps[j].span /\ qs[i].spanIdx = ps[j].spanIdx /\ qs[i].parent = ps[j].parent
  PROVE  PartsNumbered(qs, bs) /\ Pointers(qs, g, bs)
<1> SUFFICES ASSUME NEW i \in 1 .. Len(qs)
             PROVE  /\ qs[i].span \in SpanNames /\ \E y : <<qs[i].span, y>> \in Pairs(bs) /\ y.idx = qs[i].spanIdx
                    /\ qs[i].parent.gen \in 1 .. g + 1
                    /\ qs[i].parent.gen = g + 1 => qs[i].parent.bucket \in Occupied(bs)
  BY DEF PartsNumbered, Pointers
<1>1. PICK j \in 1 .. Len(ps) : qs[i].span = ps[j].span /\ qs[i].spanIdx = ps[j].spanIdx /\ qs[i].parent = ps[j].parent
  OBVIOUS
<1>2. ps[j].span \in SpanNames /\ \E y : <<ps[j].span, y>> \in Pairs(bs) /\ y.idx = ps[j].spanIdx
  BY DEF PartsNumbered
<1>3. ps[j].parent.gen \in 1 .. g + 1 /\ (ps[j].parent.gen = g + 1 => ps[j].parent.bucket \in Occupied(bs))
  BY DEF Pointers
<1> QED
  BY <1>1, <1>2, <1>3

LEMMA SortPartsSpans ==
  ASSUME LayoutInv, SpanInv, SortParts
  PROVE  SpanInv'
<1> DEFINE n == Len(parts)
<1>1. PICK perm \in [1 .. n -> 1 .. n] : parts' = [i \in 1 .. n |-> parts[perm[i]]]
  BY DEF SortParts
<1>2. pc' = "link" /\ idx' = 1 /\ UNCHANGED <<cfg, spans, freed, filled>>
  BY DEF SortParts
<1>3. n \in Nat
  BY DEF LayoutInv, PartsTyped
<1>4. Len(parts') = n
  BY <1>1, <1>3
<1>5. \A i \in 1 .. n : perm[i] \in 1 .. n /\ parts'[i] = parts[perm[i]]
  BY <1>1
<1> HIDE DEF n
<1>6. \A i \in 1 .. Len(parts') : \E j \in 1 .. Len(parts) :
        parts'[i].span = parts[j].span /\ parts'[i].spanIdx = parts[j].spanIdx /\ parts'[i].parent = parts[j].parent
  BY <1>4, <1>5 DEF n
<1>7. PartsNumbered(parts', spans'.buckets) /\ Pointers(parts', Len(freed'), spans'.buckets)
  BY <1>2, <1>6, PartsFrom DEF SpanInv
<1>8. Len(cfg.parts) \in Nat
  BY ConfigType DEF SpanInv, TableInv
<1>9. Progress' /\ TableInv'
  BY <1>2, <1>3, <1>4, <1>8 DEF SpanInv, Progress, TableInv, n
<1> QED
  BY <1>2, <1>7, <1>9 DEF SpanInv

(* What LinkPart does when it does not fail: it changes the span that the  *)
(* part's pointer leads to, or one in an array that is gone.               *)
LinkedSpan(b, v) ==
  LET w == spans.buckets[b].val
      part == parts[idx]
  IN /\ part.parent.gen = Len(freed) + 1 /\ b = part.parent.bucket /\ b \in Occupied(spans.buckets)
     /\ w \in Span /\ v = [w EXCEPT !.total = SizeT(w.total + part.length)] /\ v \in Span /\ v.idx = w.idx
     /\ spans' = [spans EXCEPT !.buckets[b].val = v] /\ freed' = freed
     /\ parts' = [parts EXCEPT ![idx].inSpan = w.total]

LinkedElsewhere ==
  /\ parts[idx].parent.gen # Len(freed) + 1
  /\ spans' = spans
  /\ \E g, b, v : freed' = [freed EXCEPT ![g][b].val = v]
  /\ \E place : parts' = [parts EXCEPT ![idx].inSpan = place]

LEMMA LinkPartDoes ==
  ASSUME LayoutInv, SpanInv, LinkPart, pc' # "failed"
  PROVE  /\ pc = "link" /\ idx \in 1 .. Len(parts) /\ ~OverlapsNext(idx) /\ idx' = idx + 1
         /\ UNCHANGED <<cfg, pc, rc>> /\ \E i, x : filled' = [filled EXCEPT ![i] = x]
         /\ LinkedElsewhere \/ \E b, v : LinkedSpan(b, v)
<1> DEFINE part == parts[idx]
           span == Deref(part.parent)
           v == [span EXCEPT !.total = SizeT(span.total + part.length)]
           b == part.parent.bucket
<1>1. pc = "link" /\ idx <= Len(parts) /\ ~OverlapsNext(idx) /\ idx' = idx + 1 /\ UNCHANGED <<cfg, pc, rc>>
  BY Zenon DEF LinkPart, Fail
<1>2. Assign(part.parent, [span EXCEPT !.total = SizeT(@ + part.length)])
  BY Zenon DEF LinkPart, Fail
<1>3. parts' = [parts EXCEPT ![idx].inSpan = span.total] /\ filled' = [filled EXCEPT ![part.spanIdx] = @ + 1]
  BY Zenon DEF LinkPart, Fail
<1>4. idx \in 1 .. Len(parts)
  BY <1>1 DEF LayoutInv, PartsTyped
<1>5. Assign(part.parent, v)
  BY <1>2
<1>6. \E i, x : filled' = [filled EXCEPT ![i] = x]
  BY <1>3
<1> HIDE DEF v
<1>7. CASE part.parent.gen # Len(freed) + 1
  <2>1. spans' = spans /\ freed' = [freed EXCEPT ![part.parent.gen][b].val = v]
    BY <1>5, <1>7 DEF Assign
  <2>2. LinkedElsewhere
    BY <1>3, <1>7, <2>1 DEF LinkedElsewhere
  <2> QED
    BY <1>1, <1>4, <1>6, <2>2
<1>8. CASE part.parent.gen = Len(freed) + 1
  <2> DEFINE w == spans.buckets[b].val
  <2>1. span = w
    BY <1>8 DEF Deref
  <2>2. spans' = [spans EXCEPT !.buckets[b].val = v] /\ freed' = freed
    BY <1>5, <1>8 DEF Assign
  <2>3. b \in Occupied(spans.buckets)
    BY <1>4, <1>8 DEF SpanInv, Pointers
  <2>4. w \in Span
    <3>1. PairsGood(spans, SpanNames, Span)
      BY PairsOfTable DEF SpanInv, TableInv
    <3> QED
      BY <2>3, <3>1 DEF PairsGood
  <2>5. v = [w EXCEPT !.total = SizeT(w.total + part.length)]
    BY <2>1 DEF v
  <2>6. parts' = [parts EXCEPT ![idx].inSpan = w.total]
    BY <1>3, <2>1
  <2> HIDE DEF w
  <2>7. w.total \in 0 .. UMax /\ part.length \in 0 .. IMax /\ cfg.sizeMax \in 1 .. UMax /\ UMax \in Nat
    BY <1>4, <2>4, ConfigType, LayoutsAssumption DEF Span, LayoutInv, PartsTyped, SpanInv, TableInv
  <2>8. w.total + part.length \in Nat
    <3>1. IMax \in Nat
      BY LayoutsAssumption DEF IMax
    <3> QED
      BY <2>7, <3>1
  <2>9. SizeT(w.total + part.length) \in 0 .. UMax
    <3>1. \A x \in Nat : x % (cfg.sizeMax + 1) \in 0 .. UMax
      BY <2>7
    <3> QED
      BY <2>8, <3>1 DEF SizeT
  <2>10. v \in Span /\ v.idx = w.idx
    BY <2>4, <2>5, <2>9 DEF Span
  <2> HIDE DEF b
  <2>11. LinkedSpan(b, v)
    BY <1>8, <2>2, <2>3, <2>4, <2>5, <2>6, <2>10 DEF LinkedSpan, b, w
  <2> QED
    BY <1>1, <1>4, <1>6, <2>11
<1> QED
  BY <1>7, <1>8

LEMMA LinkPartSpans ==
  ASSUME LayoutInv, SpanInv, LinkPart, pc' # "failed"
  PROVE  SpanInv'
<1> DEFINE n == Len(parts)
<1>1. /\ pc = "link" /\ idx \in 1 .. n /\ idx' = idx + 1 /\ UNCHANGED <<cfg, pc>>
      /\ \E i, x : filled' = [filled EXCEPT ![i] = x]
      /\ LinkedElsewhere \/ \E b, v : LinkedSpan(b, v)
  BY LinkPartDoes
<1>2. PICK place : parts' = [parts EXCEPT ![idx].inSpan = place]
  BY <1>1 DEF LinkedElsewhere, LinkedSpan
<1>3. n \in Nat /\ DOMAIN parts = 1 .. n
  BY DEF LayoutInv, PartsTyped
<1>4. Len(parts') = n
  BY <1>2, <1>3, FunctionIsSequence
<1>5. \A i \in 1 .. n : parts'[i].span = parts[i].span /\ parts'[i].spanIdx = parts[i].spanIdx
                        /\ parts'[i].parent = parts[i].parent
  BY <1>2, <1>3
<1>6. DOMAIN filled' = DOMAIN filled
  BY <1>1
<1>7. Len(cfg.parts) \in Nat
  BY ConfigType DEF SpanInv, TableInv
<1>8. Progress'
  BY <1>1, <1>3, <1>4, <1>7 DEF SpanInv, Progress
<1> DEFINE bs == spans.buckets
           new == spans'.buckets
<1>9. ASSUME TableOK(spans', cfg.hash, SpanNames, Span), spans'.count = spans.count, Numbered(new, spans.count),
             KeepsNumbers(new, bs), Occupied(new) = Occupied(bs),
             freed' \in Seq({freed'[i] : i \in DOMAIN freed'}), Len(freed') = Len(freed)
      PROVE  SpanInv'
  <2>1. PartsNumbered(parts, new)
    BY <1>9, PartsKept DEF SpanInv
  <2>2. Pointers(parts, Len(freed'), new)
    BY <1>9 DEF SpanInv, Pointers
  <2>3. PartsNumbered(parts', new) /\ Pointers(parts', Len(freed'), new)
    BY <1>4, <1>5, <2>1, <2>2, PartsFrom
  <2>4. TableInv'
    BY <1>1, <1>9 DEF SpanInv, TableInv
  <2> QED
    BY <1>6, <1>8, <1>9, <2>3, <2>4 DEF SpanInv
<1>10. CASE LinkedElsewhere
  <2>1. spans' = spans
    BY <1>10 DEF LinkedElsewhere
  <2>2. PICK g, b, v : freed' = [freed EXCEPT ![g][b].val = v]
    BY <1>10 DEF LinkedElsewhere
  <2>3. freed \in Seq({freed[i] : i \in DOMAIN freed})
    BY DEF SpanInv
  <2>4. Len(freed) \in Nat /\ DOMAIN freed = 1 .. Len(freed)
    BY <2>3
  <2>5. DOMAIN freed' = 1 .. Len(freed) /\ freed' = [i \in 1 .. Len(freed) |-> freed'[i]]
    BY <2>2, <2>4
  <2>6. freed' \in Seq({freed'[i] : i \in DOMAIN freed'}) /\ Len(freed') = Len(freed)
    BY <2>4, <2>5, FunctionIsSequence, Zenon
  <2> QED
    BY <1>9, <2>1, <2>6 DEF SpanInv, TableInv, KeepsNumbers
<1>11. ASSUME NEW b, NEW v, LinkedSpan(b, v) PROVE SpanInv'
  <2>1. /\ b \in Occupied(bs) /\ v \in Span /\ v.idx = bs[b].val.idx
        /\ spans' = [spans EXCEPT !.buckets[b].val = v] /\ freed' = freed
    BY <1>11 DEF LinkedSpan
  <2>2. TableInv /\ TableOK(spans, cfg.hash, SpanNames, Span) /\ Numbered(bs, spans.count)
    BY DEF SpanInv, TableInv
  <2>3. /\ Assigned(spans', spans, cfg.hash, SpanNames, Span, b, v)
        /\ Numbered(new, spans.count) /\ KeepsNumbers(new, bs)
    BY <2>1, <2>2, AssignSpan
  <2> QED
    BY <1>9, <2>1, <2>3 DEF SpanInv, Assigned
<1> QED
  BY <1>1, <1>10, <1>11

(* The buffers are allocated. *)
Buffered ==
  /\ TableOK(spans', cfg.hash, SpanNames, Span) /\ spans'.count = spans.count
  /\ NBuckets(spans'.buckets) = NBuckets(spans.buckets) /\ Occupied(spans'.buckets) = Occupied(spans.buckets)
  /\ \A b \in Occupied(spans.buckets) :
       /\ spans'.buckets[b].key = spans.buckets[b].key
       /\ spans'.buckets[b].val = [spans.buckets[b].val EXCEPT !.buf = TRUE]

LEMMA AllocBuffersDoes ==
  ASSUME TableInv, AllocBuffers, pc' # "aborted"
  PROVE  Buffered /\ pc' = "ready" /\ UNCHANGED <<cfg, idx, freed, parts, filled>>
<1> DEFINE bs == spans.buckets
           n == NBuckets(bs)
           new == [b \in DOMAIN bs |-> IF b \in Occupied(bs) THEN [bs[b] EXCEPT !.val.buf = TRUE] ELSE bs[b]]
<1>1. spans' = [spans EXCEPT !.buckets = new] /\ pc' = "ready" /\ UNCHANGED <<cfg, idx, freed, parts, filled>>
  BY DEF AllocBuffers
<1>2. /\ n \in Nat \ {0} /\ Sound(bs, n, cfg.hash, SpanNames, Span) /\ bs \in Array(n, SpanNames, Span)
      /\ DOMAIN bs = 0 .. n - 1
  BY TableFacts DEF TableInv
<1>3. /\ spans = [cap |-> spans.cap, buckets |-> bs, count |-> spans.count]
      /\ n \in Sizes /\ spans.cap \in Sizes /\ n >= spans.cap
      /\ spans.count = Cardinality(Occupied(bs)) /\ spans.count <= growat(n)
  BY DEF TableInv, TableOK
<1> HIDE DEF bs, n
<1>4. \A b : b \in Occupied(bs) <=> b \in 0 .. n - 1 /\ bs[b].dib # 0
  BY <1>2, OccupiedIs
<1>5. \A b \in 0 .. n - 1 : /\ bs[b] \in Bucket(SpanNames, Span)
                            /\ b \in Occupied(bs) => bs[b].val \in Span
  BY <1>2, <1>4 DEF Array, Sound, Placed
<1>6. \A e \in Bucket(SpanNames, Span) : e.val \in Span =>
        /\ [e EXCEPT !.val.buf = TRUE] \in Bucket(SpanNames, Span)
        /\ [e EXCEPT !.val.buf = TRUE].dib = e.dib /\ [e EXCEPT !.val.buf = TRUE].key = e.key
        /\ [e EXCEPT !.val.buf = TRUE].val = [e.val EXCEPT !.buf = TRUE]
        /\ [e.val EXCEPT !.buf = TRUE] \in Span
  BY DEF Bucket, Span
<1>7. DOMAIN new = 0 .. n - 1 /\ \A b \in 0 .. n - 1 :
        new[b] = IF b \in Occupied(bs) THEN [bs[b] EXCEPT !.val.buf = TRUE] ELSE bs[b]
  BY <1>2
<1>8. new \in Array(n, SpanNames, Span)
  <2>1. \A b \in 0 .. n - 1 : new[b] \in Bucket(SpanNames, Span)
    BY <1>5, <1>6, <1>7
  <2> QED
    BY <1>2, <2>1 DEF Array
<1> HIDE DEF new
<1>9. /\ \A b \in 0 .. n - 1 : new[b].dib = bs[b].dib /\ new[b].key = bs[b].key
      /\ \A b \in 0 .. n - 1 : bs[b].dib = 0 => new[b] = bs[b]
      /\ \A b \in 0 .. n - 1 : bs[b].dib # 0 => new[b].val \in Span
      /\ \A b \in 0 .. n - 1 : bs[b].dib # 0 => new[b].val = [bs[b].val EXCEPT !.buf = TRUE]
  BY <1>4, <1>5, <1>6, <1>7
<1>10. Sound(new, n, cfg.hash, SpanNames, Span) /\ Occupied(new) = Occupied(bs)
  BY <1>2, <1>8, <1>9, RevalueSound
<1>11. NBuckets(new) = n
  BY <1>2, <1>7, ArraySize
<1>12. spans' = [cap |-> spans.cap, buckets |-> new, count |-> spans.count]
  BY <1>1, <1>3
<1>13. /\ spans'.cap = spans.cap /\ spans'.buckets = new /\ spans'.count = spans.count
       /\ spans' = [cap |-> spans'.cap, buckets |-> spans'.buckets, count |-> spans'.count]
  BY <1>12
<1>14. TableOK(spans', cfg.hash, SpanNames, Span)
  BY <1>3, <1>10, <1>11, <1>13 DEF TableOK
<1>15. \A b \in Occupied(bs) : new[b].key = bs[b].key /\ new[b].val = [bs[b].val EXCEPT !.buf = TRUE]
  BY <1>4, <1>9
<1> QED
  BY <1>1, <1>10, <1>11, <1>13, <1>14, <1>15 DEF Buffered, bs, n

LEMMA AllocBuffersSpans ==
  ASSUME SpanInv, AllocBuffers, pc' # "aborted"
  PROVE  SpanInv'
<1> DEFINE bs == spans.buckets
           new == spans'.buckets
<1>1. Buffered /\ pc' = "ready" /\ UNCHANGED <<cfg, idx, freed, parts, filled>>
  BY AllocBuffersDoes DEF SpanInv
<1>2. /\ TableOK(spans', cfg.hash, SpanNames, Span) /\ spans'.count = spans.count /\ Occupied(new) = Occupied(bs)
      /\ \A b \in Occupied(bs) : new[b].key = bs[b].key /\ new[b].val = [bs[b].val EXCEPT !.buf = TRUE]
  BY <1>1 DEF Buffered
<1>3. PairsGood(spans, SpanNames, Span) /\ PairsGood(spans', SpanNames, Span)
  BY <1>2, PairsOfTable DEF SpanInv, TableInv
<1>4. \A b \in Occupied(bs) : new[b].val.idx = bs[b].val.idx
  <2>1. \A b \in Occupied(bs) : bs[b].val \in Span
    BY <1>3 DEF PairsGood
  <2>2. \A v \in Span : [v EXCEPT !.buf = TRUE].idx = v.idx
    BY DEF Span
  <2> QED
    BY <1>2, <2>1, <2>2
<1>5. KeepsNumbers(new, bs)
  <2> SUFFICES ASSUME NEW x, NEW y, <<x, y>> \in Pairs(bs)
               PROVE  \E z : <<x, z>> \in Pairs(new) /\ z.idx = y.idx
    BY DEF KeepsNumbers
  <2>1. PICK b \in Occupied(bs) : bs[b].key = x /\ bs[b].val = y
    BY <1>3 DEF PairsGood
  <2>2. <<new[b].key, new[b].val>> \in Pairs(new)
    BY <1>2, <1>3 DEF PairsGood
  <2> QED
    BY <1>2, <1>4, <2>1, <2>2
<1>6. KeepsNumbers(bs, new)
  <2> SUFFICES ASSUME NEW x, NEW y, <<x, y>> \in Pairs(new)
               PROVE  \E z : <<x, z>> \in Pairs(bs) /\ z.idx = y.idx
    BY DEF KeepsNumbers
  <2>1. PICK b \in Occupied(bs) : new[b].key = x /\ new[b].val = y
    BY <1>2, <1>3 DEF PairsGood
  <2>2. <<bs[b].key, bs[b].val>> \in Pairs(bs)
    BY <1>3 DEF PairsGood
  <2> QED
    BY <1>2, <1>4, <2>1, <2>2
<1>7. Numbered(new, spans'.count)
  BY <1>2, <1>5, <1>6, NumberedKept DEF SpanInv
<1>8. PartsNumbered(parts', new)
  BY <1>1, <1>5, PartsKept DEF SpanInv
<1>9. Pointers(parts', Len(freed'), new)
  BY <1>1, <1>2 DEF SpanInv, Pointers
<1> QED
  BY <1>1, <1>2, <1>7, <1>8, <1>9 DEF SpanInv, TableInv, Progress

LEMMA SpanInvInit == Init => SpanInv
<1> SUFFICES ASSUME Init PROVE SpanInv
  OBVIOUS
<1>1. cfg \in Layouts /\ pc = "add" /\ idx = 1 /\ spans = hashmap_new(0) /\ freed = <<>> /\ parts = <<>>
      /\ DOMAIN filled = 0 .. Cardinality(SpanNames) - 1
  BY DEF Init
<1>2. RoundUp(0) \in Sizes
  BY RoundUpIs
<1>3. TableOK(spans, cfg.hash, SpanNames, Span) /\ Pairs(spans.buckets) = {} /\ spans.count = 0
  BY <1>1, <1>2, NewTable DEF hashmap_new
<1>4. Numbered(spans.buckets, spans.count)
  BY <1>3 DEF Numbered
<1>5. Len(cfg.parts) \in Nat
  BY <1>1, ConfigType
<1>6. freed \in Seq({freed[i] : i \in DOMAIN freed}) /\ Len(parts) = 0
  <2>1. <<>> \in Seq({freed[i] : i \in DOMAIN freed}) /\ Len(<<>>) = 0
    OBVIOUS
  <2> QED
    BY <1>1, <2>1
<1> QED
  BY <1>1, <1>3, <1>4, <1>5, <1>6 DEF SpanInv, TableInv, Progress, PartsNumbered, Pointers

(* A step that does not touch the table and the parts. *)
LEMMA SpansUntouched ==
  ASSUME SpanInv, UNCHANGED <<cfg, idx, spans, freed, parts, filled>>, pc' \in {pc, "failed", "aborted", "crashed"}
  PROVE  SpanInv'
<1>1. Progress'
  BY DEF SpanInv, Progress
<1>2. TableInv'
  BY DEF SpanInv, TableInv
<1>3. /\ freed' \in Seq({freed'[i] : i \in DOMAIN freed'}) /\ Numbered(spans'.buckets, spans'.count)
      /\ PartsNumbered(parts', spans'.buckets) /\ Pointers(parts', Len(freed'), spans'.buckets)
      /\ DOMAIN filled' = 0 .. Cardinality(SpanNames) - 1
  BY DEF SpanInv
<1> QED
  BY <1>1, <1>2, <1>3 DEF SpanInv

LEMMA SpanInvStep == LayoutInv /\ SpanInv /\ [Next]_vars => SpanInv'
<1> SUFFICES ASSUME LayoutInv, SpanInv, [Next]_vars PROVE SpanInv'
  OBVIOUS
<1>1. CASE AddPart
  <2>1. CASE pc' # "failed"
    BY <1>1, <2>1, AddPartSpans
  <2>2. CASE pc' = "failed"
    <3>1. pc = "add"
      BY <1>1 DEF AddPart
    <3>2. UNCHANGED <<cfg, idx, spans, freed, parts, filled>>
      BY <1>1, <2>2, <3>1 DEF AddPart, Fail
    <3> QED
      BY <2>2, <3>2, SpansUntouched
  <2> QED
    BY <2>1, <2>2
<1>2. CASE SortParts
  BY <1>2, SortPartsSpans
<1>3. CASE LinkPart
  <2>1. CASE pc' # "failed"
    BY <1>3, <2>1, LinkPartSpans
  <2>2. CASE pc' = "failed"
    <3>1. pc = "link"
      BY <1>3 DEF LinkPart
    <3>2. UNCHANGED <<cfg, idx, spans, freed, parts, filled>>
      BY <1>3, <2>2, <3>1, Zenon DEF LinkPart, Fail
    <3> QED
      BY <2>2, <3>2, SpansUntouched
  <2> QED
    BY <2>1, <2>2
<1>4. CASE LinkFault \/ OutOfMemory
  BY <1>4, SpansUntouched DEF LinkFault, OutOfMemory, Fail
<1>5. CASE AllocBuffers
  <2>1. CASE pc' # "aborted"
    BY <1>5, <2>1, AllocBuffersSpans
  <2>2. CASE pc' = "aborted"
    <3>1. UNCHANGED <<cfg, idx, spans, freed, parts, filled>>
      BY <1>5, <2>2 DEF AllocBuffers
    <3> QED
      BY <2>2, <3>1, SpansUntouched
  <2> QED
    BY <2>1, <2>2
<1>6. CASE UNCHANGED vars
  BY <1>6, SpansUntouched DEF vars
<1> QED
  BY <1>1, <1>2, <1>3, <1>4, <1>5, <1>6 DEF Next

LEMMA SpanInvariance == Spec => [](LayoutInv /\ SpanInv)
BY LayoutInvInit, LayoutInvStep, SpanInvInit, SpanInvStep, PTL DEF Spec

LEMMA DenseSpans == SpanInv => SpanIndicesDense
<1>1. ASSUME SpanInv PROVE SpanIndicesDense
  <2> DEFINE bs == spans.buckets
  <2>1. PairsGood(spans, SpanNames, Span) /\ Numbered(bs, spans.count) /\ PartsNumbered(parts, bs)
    BY <1>1, PairsOfTable DEF SpanInv, TableInv
  <2>2. {bs[b].val.idx : b \in Occupied(bs)} = 0 .. spans.count - 1
    <3>1. ASSUME NEW b \in Occupied(bs) PROVE bs[b].val.idx \in 0 .. spans.count - 1
      <4>1. <<bs[b].key, bs[b].val>> \in Pairs(bs)
        BY <2>1 DEF PairsGood
      <4> QED
        BY <2>1, <4>1 DEF Numbered
    <3>2. ASSUME NEW i \in 0 .. spans.count - 1 PROVE \E b \in Occupied(bs) : bs[b].val.idx = i
      <4>1. PICK x, y : <<x, y>> \in Pairs(bs) /\ y.idx = i
        BY <2>1 DEF Numbered
      <4>2. PICK b \in Occupied(bs) : bs[b].key = x /\ bs[b].val = y
        BY <2>1, <4>1 DEF PairsGood
      <4> QED
        BY <4>1, <4>2
    <3> QED
      BY <3>1, <3>2
  <2>3. ASSUME NEW i \in 1 .. Len(parts), NEW j \in 1 .. Len(parts)
        PROVE  parts[i].spanIdx = parts[j].spanIdx <=> parts[i].span = parts[j].span
    <3>1. PICK y : <<parts[i].span, y>> \in Pairs(bs) /\ y.idx = parts[i].spanIdx
      BY <2>1 DEF PartsNumbered
    <3>2. PICK z : <<parts[j].span, z>> \in Pairs(bs) /\ z.idx = parts[j].spanIdx
      BY <2>1 DEF PartsNumbered
    <3>3. ASSUME parts[i].spanIdx = parts[j].spanIdx PROVE parts[i].span = parts[j].span
      <4>1. y.idx = z.idx
        BY <3>1, <3>2, <3>3
      <4> QED
        BY <2>1, <3>1, <3>2, <4>1 DEF Numbered
    <3>4. ASSUME parts[i].span = parts[j].span PROVE parts[i].spanIdx = parts[j].spanIdx
      <4>1. <<parts[i].span, z>> \in Pairs(bs)
        BY <3>2, <3>4
      <4>2. y = z
        BY <2>1, <3>1, <4>1 DEF PairsGood
      <4> QED
        BY <3>1, <3>2, <4>2
    <3> QED
      BY <3>3, <3>4
  <2> QED
    BY <2>2, <2>3 DEF SpanIndicesDense
<1> QED
  BY <1>1

(* Spans are numbered densely, whatever the growth and the swaps of the    *)
(* table.                                                                  *)
THEOREM SpansNumberedDensely == Spec => []SpanIndicesDense
BY DenseSpans, SpanInvariance, PTL

(* There are at most as many items as names. *)
LEMMA CountBound ==
  ASSUME NEW h, NEW K, NEW V, NEW t, TableOK(t, h, K, V), NEW N, IsFiniteSet(N),
         \A b \in Occupied(t.buckets) : t.buckets[b].key \in N
  PROVE  t.count <= Cardinality(N) /\ t.count \in Nat /\ Cardinality(N) \in Nat
<1> DEFINE f == [b \in Occupied(t.buckets) |-> t.buckets[b].key]
<1>1. \A b, c \in Occupied(t.buckets) : t.buckets[b].key = t.buckets[c].key => b = c
  BY PairsOfTable DEF PairsGood
<1>2. f \in [Occupied(t.buckets) -> N]
  OBVIOUS
<1>3. \A b, c \in Occupied(t.buckets) : f[b] = f[c] => b = c
  BY <1>1
<1> HIDE DEF f
<1>4. f \in Injection(Occupied(t.buckets), N)
  BY <1>2, <1>3 DEF Injection, IsInjective
<1>5. Cardinality(Occupied(t.buckets)) <= Cardinality(N)
  BY <1>4, FS_Injection
<1>6. t.count = Cardinality(Occupied(t.buckets)) /\ t.count \in Nat
  BY TableFacts DEF TableOK
<1> QED
  BY <1>5, <1>6, FS_CardinalityType

(* Types; every number of a span is an index into span_initializers. *)
THEOREM LayoutTypeCorrect == Spec => []TypeOK
<1>1. ASSUME LayoutInv, SpanInv PROVE TypeOK
  <2> DEFINE bs == spans.buckets
             m == Cardinality(SpanNames)
  <2>1. PairsGood(spans, SpanNames, Span) /\ Numbered(bs, spans.count) /\ PartsNumbered(parts, bs)
    BY <1>1, PairsOfTable DEF SpanInv, TableInv
  <2>2. \A b \in Occupied(bs) : bs[b].key \in SpanNames /\ bs[b].val \in Span /\ <<bs[b].key, bs[b].val>> \in Pairs(bs)
    BY <2>1 DEF PairsGood
  <2>3. spans.count <= m /\ spans.count \in Nat /\ m \in Nat
    BY <1>1, <2>2, SpansAssumption, CountBound DEF SpanInv, TableInv
  <2>4. DOMAIN filled = 0 .. m - 1
    BY <1>1 DEF SpanInv
  <2> HIDE DEF m
  <2>5. 0 .. spans.count - 1 \subseteq DOMAIN filled
    BY <2>3, <2>4
  <2>6. ASSUME NEW b \in Occupied(bs)
        PROVE  bs[b].val \in [idx : DOMAIN filled, nparts : Nat, total : 0 .. UMax, buf : BOOLEAN]
    <3>1. bs[b].val.idx \in DOMAIN filled
      <4>1. <<bs[b].key, bs[b].val>> \in Pairs(bs)
        BY <2>2
      <4>2. bs[b].val.idx \in 0 .. spans.count - 1
        BY <2>1, <4>1 DEF Numbered
      <4> QED
        BY <2>5, <4>2
    <3>2. bs[b].val \in Span
      BY <2>2
    <3> DEFINE v == bs[b].val
    <3> HIDE DEF v
    <3>3. v.idx \in DOMAIN filled /\ v \in Span
      BY <3>1, <3>2 DEF v
    <3>4. v \in [idx : DOMAIN filled, nparts : Nat, total : 0 .. UMax, buf : BOOLEAN]
      BY <3>3 DEF Span
    <3> QED
      BY <3>4 DEF v
  <2>7. ASSUME NEW i \in 1 .. Len(parts) PROVE parts[i].spanIdx \in DOMAIN filled
    <3>1. PICK y : <<parts[i].span, y>> \in Pairs(bs) /\ y.idx = parts[i].spanIdx
      BY <2>1 DEF PartsNumbered
    <3> QED
      BY <2>1, <2>5, <3>1 DEF Numbered
  <2>8. cfg \in Layouts /\ idx \in 1 .. Len(cfg.parts) + 1
    <3>1. cfg \in Layouts /\ idx \in Nat \ {0} /\ idx <= Len(cfg.parts) + 1
      BY <1>1 DEF LayoutInv, SpanInv, TableInv, Progress
    <3> QED
      BY <3>1, ConfigType
  <2>9. pc \in {"add", "link", "ready", "failed", "aborted", "crashed"} /\ Len(parts) <= Len(cfg.parts)
    BY <1>1 DEF SpanInv, Progress
  <2> QED
    BY <2>6, <2>7, <2>8, <2>9 DEF TypeOK
<1> QED
  BY <1>1, SpanInvariance, PTL

-----------------------------------------------------------------------------
(* Without collisions. *)

(* The spans that the layout names. *)
Named == {cfg.parts[i].span : i \in DOMAIN cfg.parts} \ {BadName}

NoCollisions ==
  /\ \A s, t \in Named : cfg.hash[s] % MinCap = cfg.hash[t] % MinCap => s = t
  /\ Cardinality(Named) <= growat(MinCap)

(* The table holds spans that the layout names, has not grown, and every   *)
(* part points to the home bucket of its span.                             *)
HomeInv ==
  /\ \A b \in Occupied(spans.buckets) : spans.buckets[b].key \in Named
  /\ NoCollisions =>
       /\ freed = <<>> /\ NBuckets(spans.buckets) = MinCap
       /\ \A i \in 1 .. Len(parts) :
            parts[i].parent = [gen |-> 1, bucket |-> cfg.hash[parts[i].span] % MinCap]

LEMMA NamedFinite ==
  ASSUME cfg \in Layouts
  PROVE  IsFiniteSet(Named) /\ Named \subseteq SpanNames
<1>1. Named \subseteq SpanNames
  <2>1. DOMAIN cfg.parts = 1 .. Len(cfg.parts)
    <3>1. cfg.parts \in Seq([span : SpanNames \cup {BadName}, start : 0 .. IMax, length : 0 .. IMax])
      BY LayoutsAssumption DEF Layout
    <3> QED
      BY <3>1
  <2> QED
    BY <2>1, ConfigType DEF Named
<1> QED
  BY <1>1, SpansAssumption, FS_Subset

(* In a table without collisions that has not grown, a span is at home. *)
LEMMA SpanAtHome ==
  ASSUME cfg \in Layouts, NoCollisions, NEW t, TableOK(t, cfg.hash, SpanNames, Span), NBuckets(t.buckets) = MinCap,
         \A b \in Occupied(t.buckets) : t.buckets[b].key \in Named
  PROVE  \A b \in Occupied(t.buckets) : b = cfg.hash[t.buckets[b].key] % MinCap
<1> DEFINE bs == t.buckets
<1>1. /\ MinCap \in Nat \ {0} /\ Sound(bs, MinCap, cfg.hash, SpanNames, Span) /\ Occupied(bs) # DOMAIN bs
  BY TableFacts
<1>2. \A x \in SpanNames : cfg.hash[x] \in Nat
  BY ConfigType
<1>3. \A b, c \in Occupied(bs) : bs[b].key = bs[c].key => b = c
  <2>1. PairsGood(t, SpanNames, Span)
    BY PairsOfTable
  <2> QED
    BY <2>1 DEF PairsGood
<1>4. \A b, c \in Occupied(bs) : cfg.hash[bs[b].key] % MinCap = cfg.hash[bs[c].key] % MinCap => b = c
  BY <1>3 DEF NoCollisions
<1> HIDE DEF bs
<1> DEFINE h == cfg.hash
<1> HIDE DEF h
<1>5. AtHome(bs, MinCap, h)
  <2>1. Sound(bs, MinCap, h, SpanNames, Span) /\ \A x \in SpanNames : h[x] \in Nat
    BY <1>1, <1>2 DEF h
  <2>2. Apart(bs, MinCap, h)
    BY <1>4 DEF h, Apart
  <2> QED
    BY <1>1, <2>1, <2>2, AllAtHome
<1> QED
  BY <1>5 DEF AtHome, bs, h

LEMMA HomeAdd ==
  ASSUME LayoutInv, SpanInv, HomeInv, AddPart, pc' # "failed"
  PROVE  HomeInv'
<1>1. TableInv /\ idx \in Nat \ {0} /\ cfg \in Layouts /\ TableOK(spans, cfg.hash, SpanNames, Span)
  BY DEF LayoutInv, SpanInv, TableInv
<1>2. PICK table, b, v : PartAdded(table, b, v)
  BY <1>1, AddPartTable
<1> DEFINE c == cfg.parts[idx]
           k == c.span
           w == table.buckets[b].val
           grows == NBuckets(table.buckets) # NBuckets(spans.buckets)
           g == IF grows THEN Len(freed) + 2 ELSE Len(freed) + 1
           e == AddedPart(c, g, b, w.idx)
<1>3. /\ idx \in 1 .. Len(cfg.parts) /\ k \in SpanNames /\ k # BadName
      /\ AddedSpan(table, k) /\ b \in Occupied(table.buckets) /\ table.buckets[b].key = k
      /\ Assigned(spans', table, cfg.hash, SpanNames, Span, b, v)
      /\ freed' = IF grows THEN Append(freed, spans.buckets) ELSE freed
      /\ parts' = Append(parts, e)
      /\ cfg' = cfg
  BY <1>2 DEF PartAdded
<1>4. /\ TableOK(table, cfg.hash, SpanNames, Span)
      /\ \/ Has(spans.buckets, k) /\ table = spans
         \/ ~Has(spans.buckets, k) /\ SetPairs(table.buckets, spans.buckets, k, NewSpan)
      /\ ~MustGrow(spans) => ~grows
  BY <1>3 DEF AddedSpan
<1>5. /\ Occupied(spans'.buckets) = Occupied(table.buckets) /\ NBuckets(spans'.buckets) = NBuckets(table.buckets)
      /\ \A i \in Occupied(table.buckets) : spans'.buckets[i].key = table.buckets[i].key
  BY <1>3 DEF Assigned
<1>6. e.span = k /\ e.parent = [gen |-> g, bucket |-> b]
  BY DEF AddedPart
<1>7. k \in Named
  <2>1. idx \in DOMAIN cfg.parts
    <3>1. cfg.parts \in Seq([span : SpanNames \cup {BadName}, start : 0 .. IMax, length : 0 .. IMax])
      BY <1>1, LayoutsAssumption DEF Layout
    <3> QED
      BY <1>3, <3>1
  <2> QED
    BY <1>3, <2>1 DEF Named
<1> HIDE DEF c, k, w, grows, e
<1>8. PairsGood(spans, SpanNames, Span) /\ PairsGood(table, SpanNames, Span)
  BY <1>1, <1>4, PairsOfTable
<1>9. ASSUME NEW i \in Occupied(table.buckets) PROVE table.buckets[i].key \in Named
  <2>1. CASE table = spans
    BY <1>9, <2>1 DEF HomeInv
  <2>2. CASE SetPairs(table.buckets, spans.buckets, k, NewSpan)
    <3> DEFINE x == table.buckets[i].key
               y == table.buckets[i].val
    <3>1. <<x, y>> \in Pairs(table.buckets)
      BY <1>8, <1>9 DEF PairsGood
    <3> HIDE DEF x, y
    <3>2. CASE x = k
      BY <1>7, <3>2 DEF x
    <3>3. CASE x # k
      <4>1. <<x, y>> \in Pairs(spans.buckets)
        BY <2>2, <3>1, <3>3 DEF SetPairs
      <4>2. PICK j \in Occupied(spans.buckets) : spans.buckets[j].key = x
        BY <1>8, <4>1 DEF PairsGood
      <4> QED
        BY <4>2 DEF HomeInv, x
    <3> QED
      BY <3>2, <3>3
  <2> QED
    BY <1>4, <2>1, <2>2
<1>10. Named' = Named /\ (NoCollisions' <=> NoCollisions)
  BY <1>3 DEF Named, NoCollisions
<1>11. ASSUME NoCollisions
       PROVE  /\ freed' = <<>> /\ NBuckets(spans'.buckets) = MinCap
              /\ \A i \in 1 .. Len(parts') :
                   parts'[i].parent = [gen |-> 1, bucket |-> cfg.hash[parts'[i].span] % MinCap]
  <2>1. /\ freed = <<>> /\ NBuckets(spans.buckets) = MinCap
        /\ \A i \in 1 .. Len(parts) : parts[i].parent = [gen |-> 1, bucket |-> cfg.hash[parts[i].span] % MinCap]
    BY <1>11 DEF HomeInv
  <2>2. ~grows
    <3>1. CASE table = spans
      BY <3>1 DEF grows
    <3>2. CASE ~Has(spans.buckets, k)
      <4> DEFINE N == Named \ {k}
      <4>1. \A i \in Occupied(spans.buckets) : spans.buckets[i].key \in N
        <5>1. ASSUME NEW i \in Occupied(spans.buckets) PROVE spans.buckets[i].key # k
          <6>1. <<spans.buckets[i].key, spans.buckets[i].val>> \in Pairs(spans.buckets)
            BY <1>8, <5>1 DEF PairsGood
          <6> QED
            BY <3>2, <6>1 DEF Has
        <5> QED
          BY <5>1 DEF HomeInv
      <4>2. IsFiniteSet(Named)
        BY <1>1, NamedFinite
      <4>3. IsFiniteSet(N) /\ Cardinality(N) = Cardinality(Named) - 1 /\ Cardinality(Named) \in Nat
        BY <1>7, <4>2, FS_RemoveElement, FS_CardinalityType
      <4>4. spans.count <= Cardinality(N) /\ spans.count \in Nat
        <5> HIDE DEF N
        <5> QED
          BY <1>1, <4>1, <4>3, CountBound
      <4>5. growat(MinCap) \in Nat
        BY MinCapAssumption, Limits
      <4>6. spans.count < growat(MinCap)
        BY <1>11, <4>3, <4>4, <4>5 DEF NoCollisions
      <4>7. ~MustGrow(spans)
        BY <2>1, <4>4, <4>5, <4>6 DEF MustGrow
      <4> QED
        BY <1>4, <4>7
    <3> QED
      BY <1>4, <3>1, <3>2
  <2>3. freed' = <<>> /\ NBuckets(table.buckets) = MinCap /\ NBuckets(spans'.buckets) = MinCap /\ g = 1
    <3>1. Len(<<>>) = 0
      OBVIOUS
    <3> QED
      BY <1>3, <1>5, <2>1, <2>2, <3>1 DEF grows
  <2>4. b = cfg.hash[k] % MinCap
    BY <1>1, <1>3, <1>4, <1>9, <1>11, <2>3, SpanAtHome
  <2>5. /\ Len(parts') = Len(parts) + 1 /\ Len(parts) \in Nat
        /\ \A i \in 1 .. Len(parts) : parts'[i] = parts[i]
        /\ parts'[Len(parts) + 1] = e
    BY <1>3, SeqExtends DEF LayoutInv, PartsTyped
  <2>6. e.parent = [gen |-> 1, bucket |-> cfg.hash[e.span] % MinCap]
    BY <1>6, <2>3, <2>4
  <2> QED
    BY <2>1, <2>3, <2>5, <2>6
<1>12. \A i \in Occupied(spans'.buckets) : spans'.buckets[i].key \in Named
  BY <1>5, <1>9
<1> QED
  BY <1>3, <1>10, <1>11, <1>12 DEF HomeInv

(* Steps that keep the keys of the table and the parts' spans and pointers. *)
LEMMA HomeKept ==
  ASSUME HomeInv, cfg' = cfg, freed' = freed \/ ~NoCollisions,
         NBuckets(spans'.buckets) = NBuckets(spans.buckets), Occupied(spans'.buckets) = Occupied(spans.buckets),
         \A b \in Occupied(spans.buckets) : spans'.buckets[b].key = spans.buckets[b].key,
         \A i \in 1 .. Len(parts') : \E j \in 1 .. Len(parts) :
           parts'[i].span = parts[j].span /\ parts'[i].parent = parts[j].parent
  PROVE  HomeInv'
<1>1. Named' = Named /\ (NoCollisions' <=> NoCollisions)
  BY DEF Named, NoCollisions
<1>2. \A b \in Occupied(spans'.buckets) : spans'.buckets[b].key \in Named
  BY DEF HomeInv
<1>3. ASSUME NoCollisions
      PROVE  /\ freed' = <<>> /\ NBuckets(spans'.buckets) = MinCap
             /\ \A i \in 1 .. Len(parts') :
                  parts'[i].parent = [gen |-> 1, bucket |-> cfg.hash[parts'[i].span] % MinCap]
  <2>1. /\ freed = <<>> /\ NBuckets(spans.buckets) = MinCap
        /\ \A i \in 1 .. Len(parts) : parts[i].parent = [gen |-> 1, bucket |-> cfg.hash[parts[i].span] % MinCap]
    BY <1>3 DEF HomeInv
  <2>2. ASSUME NEW i \in 1 .. Len(parts')
        PROVE  parts'[i].parent = [gen |-> 1, bucket |-> cfg.hash[parts'[i].span] % MinCap]
    <3>1. PICK j \in 1 .. Len(parts) : parts'[i].span = parts[j].span /\ parts'[i].parent = parts[j].parent
      BY <2>2
    <3> QED
      BY <2>1, <3>1
  <2> QED
    BY <1>3, <2>1, <2>2
<1> QED
  BY <1>1, <1>2, <1>3 DEF HomeInv

LEMMA HomeSort ==
  ASSUME LayoutInv, HomeInv, SortParts
  PROVE  HomeInv'
<1> DEFINE n == Len(parts)
<1>1. PICK perm \in [1 .. n -> 1 .. n] : parts' = [i \in 1 .. n |-> parts[perm[i]]]
  BY DEF SortParts
<1>2. UNCHANGED <<cfg, spans, freed>>
  BY DEF SortParts
<1>3. n \in Nat
  BY DEF LayoutInv, PartsTyped
<1>4. Len(parts') = n
  BY <1>1, <1>3
<1>5. \A i \in 1 .. n : perm[i] \in 1 .. n /\ parts'[i] = parts[perm[i]]
  BY <1>1
<1> HIDE DEF n
<1>6. \A i \in 1 .. Len(parts') : \E j \in 1 .. Len(parts) :
        parts'[i].span = parts[j].span /\ parts'[i].parent = parts[j].parent
  BY <1>4, <1>5 DEF n
<1> QED
  BY <1>2, <1>6, HomeKept

LEMMA HomeLink ==
  ASSUME LayoutInv, SpanInv, HomeInv, LinkPart, pc' # "failed"
  PROVE  HomeInv'
<1> DEFINE n == Len(parts)
<1>1. /\ idx \in 1 .. n /\ cfg' = cfg
      /\ LinkedElsewhere \/ \E b, v : LinkedSpan(b, v)
  BY LinkPartDoes
<1>2. PICK place : parts' = [parts EXCEPT ![idx].inSpan = place]
  BY <1>1 DEF LinkedElsewhere, LinkedSpan
<1>3. n \in Nat /\ DOMAIN parts = 1 .. n
  BY DEF LayoutInv, PartsTyped
<1>4. Len(parts') = n
  BY <1>2, <1>3, FunctionIsSequence
<1>5. \A i \in 1 .. n : parts'[i].span = parts[i].span /\ parts'[i].parent = parts[i].parent
  BY <1>2, <1>3
<1>6. \A i \in 1 .. Len(parts') : \E j \in 1 .. Len(parts) :
        parts'[i].span = parts[j].span /\ parts'[i].parent = parts[j].parent
  BY <1>4, <1>5
<1>7. CASE LinkedElsewhere
  <2>1. spans' = spans /\ parts[idx].parent.gen # Len(freed) + 1
    BY <1>7 DEF LinkedElsewhere
  <2>2. ASSUME NoCollisions PROVE FALSE
    <3>1. freed = <<>> /\ parts[idx].parent = [gen |-> 1, bucket |-> cfg.hash[parts[idx].span] % MinCap]
      BY <1>1, <2>2 DEF HomeInv
    <3>2. Len(<<>>) = 0
      OBVIOUS
    <3> QED
      BY <2>1, <3>1, <3>2
  <2> QED
    BY <1>1, <1>6, <2>1, <2>2, HomeKept
<1>8. ASSUME NEW b, NEW v, LinkedSpan(b, v) PROVE HomeInv'
  <2>1. /\ b \in Occupied(spans.buckets) /\ v \in Span /\ spans' = [spans EXCEPT !.buckets[b].val = v] /\ freed' = freed
    BY <1>8 DEF LinkedSpan
  <2>2. Assigned(spans', spans, cfg.hash, SpanNames, Span, b, v)
    BY <2>1, AssignOK DEF SpanInv, TableInv
  <2>3. /\ NBuckets(spans'.buckets) = NBuckets(spans.buckets) /\ Occupied(spans'.buckets) = Occupied(spans.buckets)
        /\ \A i \in Occupied(spans.buckets) : spans'.buckets[i].key = spans.buckets[i].key
    BY <2>2 DEF Assigned
  <2> QED
    BY <1>1, <1>6, <2>1, <2>3, HomeKept
<1> QED
  BY <1>1, <1>7, <1>8

LEMMA HomeAlloc ==
  ASSUME SpanInv, HomeInv, AllocBuffers, pc' # "aborted"
  PROVE  HomeInv'
<1>1. Buffered /\ UNCHANGED <<cfg, freed, parts>>
  BY AllocBuffersDoes DEF SpanInv
<1>2. /\ NBuckets(spans'.buckets) = NBuckets(spans.buckets) /\ Occupied(spans'.buckets) = Occupied(spans.buckets)
      /\ \A b \in Occupied(spans.buckets) : spans'.buckets[b].key = spans.buckets[b].key
  BY <1>1 DEF Buffered
<1> QED
  BY <1>1, <1>2, HomeKept

LEMMA HomeUntouched ==
  ASSUME HomeInv, UNCHANGED <<cfg, spans, freed, parts>>
  PROVE  HomeInv'
BY HomeKept

LEMMA HomeInit == Init => HomeInv
<1> SUFFICES ASSUME Init PROVE HomeInv
  OBVIOUS
<1>1. spans = hashmap_new(0) /\ freed = <<>> /\ parts = <<>>
  BY DEF Init
<1>2. RoundUp(0) = MinCap /\ MinCap \in Sizes
  BY RoundUpZero
<1>3. spans.buckets = VacantBuckets(MinCap)
  BY <1>1, <1>2 DEF hashmap_new
<1>4. MinCap \in Nat \ {0}
  BY <1>2, SizesAre
<1>5. NBuckets(spans.buckets) = MinCap /\ Occupied(spans.buckets) = {}
  BY <1>3, <1>4, VacantSound
<1>6. Len(parts) = 0
  BY <1>1
<1> QED
  BY <1>1, <1>5, <1>6 DEF HomeInv

LEMMA HomeStep == LayoutInv /\ SpanInv /\ HomeInv /\ [Next]_vars => HomeInv'
<1> SUFFICES ASSUME LayoutInv, SpanInv, HomeInv, [Next]_vars PROVE HomeInv'
  OBVIOUS
<1>1. CASE AddPart
  <2>1. CASE pc' # "failed"
    BY <1>1, <2>1, HomeAdd
  <2>2. CASE pc' = "failed"
    <3>1. pc = "add"
      BY <1>1 DEF AddPart
    <3>2. UNCHANGED <<cfg, spans, freed, parts>>
      BY <1>1, <2>2, <3>1 DEF AddPart, Fail
    <3> QED
      BY <3>2, HomeUntouched
  <2> QED
    BY <2>1, <2>2
<1>2. CASE SortParts
  BY <1>2, HomeSort
<1>3. CASE LinkPart
  <2>1. CASE pc' # "failed"
    BY <1>3, <2>1, HomeLink
  <2>2. CASE pc' = "failed"
    <3>1. pc = "link"
      BY <1>3 DEF LinkPart
    <3>2. UNCHANGED <<cfg, spans, freed, parts>>
      BY <1>3, <2>2, <3>1, Zenon DEF LinkPart, Fail
    <3> QED
      BY <3>2, HomeUntouched
  <2> QED
    BY <2>1, <2>2
<1>4. CASE LinkFault \/ OutOfMemory
  BY <1>4, HomeUntouched DEF LinkFault, OutOfMemory, Fail
<1>5. CASE AllocBuffers
  <2>1. CASE pc' # "aborted"
    BY <1>5, <2>1, HomeAlloc
  <2>2. CASE pc' = "aborted"
    <3>1. UNCHANGED <<cfg, spans, freed, parts>>
      BY <1>5, <2>2 DEF AllocBuffers
    <3> QED
      BY <3>1, HomeUntouched
  <2> QED
    BY <2>1, <2>2
<1>6. CASE UNCHANGED vars
  BY <1>6, HomeUntouched DEF vars
<1> QED
  BY <1>1, <1>2, <1>3, <1>4, <1>5, <1>6 DEF Next

(* The part's span has one bucket, the one where the probe for it ends. *)
LEMMA OwnBucket ==
  ASSUME SpanInv, NEW i \in 1 .. Len(parts)
  PROVE  \E b \in Occupied(spans.buckets) :
           spans.buckets[b].key = parts[i].span /\ ProbeEnd(spans.buckets, cfg.hash, parts[i].span) = b
<1>1. TableOK(spans, cfg.hash, SpanNames, Span) /\ cfg \in Layouts
  BY DEF SpanInv, TableInv
<1>2. PICK y : <<parts[i].span, y>> \in Pairs(spans.buckets)
  BY DEF SpanInv, PartsNumbered
<1>3. PairsGood(spans, SpanNames, Span)
  BY <1>1, PairsOfTable
<1>4. PICK b \in Occupied(spans.buckets) : spans.buckets[b].key = parts[i].span
  BY <1>2, <1>3 DEF PairsGood
<1>5. \A x \in SpanNames : cfg.hash[x] \in Nat
  BY <1>1, ConfigType
<1>6. ProbeEnd(spans.buckets, cfg.hash, spans.buckets[b].key) = b
  BY <1>1, <1>4, <1>5, ProbeFinds
<1> QED
  BY <1>4, <1>6

(* The pointers that the parts keep into the buckets stay right as long as *)
(* no two spans share a home bucket and the table need not grow: then no   *)
(* item is ever displaced, and no bucket array is freed.                   *)
THEOREM PointersHold == Spec => []PointersHoldWithoutCollisions
<1>1. ASSUME SpanInv, HomeInv PROVE PointersHoldWithoutCollisions
  <2>1. ASSUME NoCollisions, NEW i \in 1 .. Len(parts) PROVE Fresh(parts[i])
    <3>1. /\ freed = <<>> /\ NBuckets(spans.buckets) = MinCap
          /\ parts[i].parent = [gen |-> 1, bucket |-> cfg.hash[parts[i].span] % MinCap]
      BY <1>1, <2>1 DEF HomeInv
    <3>2. PICK b \in Occupied(spans.buckets) :
            spans.buckets[b].key = parts[i].span /\ ProbeEnd(spans.buckets, cfg.hash, parts[i].span) = b
      BY <1>1, <2>1, OwnBucket
    <3>3. b = cfg.hash[spans.buckets[b].key] % MinCap
      <4>1. cfg \in Layouts /\ TableOK(spans, cfg.hash, SpanNames, Span)
        BY <1>1 DEF SpanInv, TableInv
      <4>2. \A c \in Occupied(spans.buckets) : spans.buckets[c].key \in Named
        BY <1>1 DEF HomeInv
      <4> QED
        BY <2>1, <3>1, <4>1, <4>2, SpanAtHome
    <3>4. Len(<<>>) = 0
      OBVIOUS
    <3> QED
      BY <3>1, <3>2, <3>3, <3>4 DEF Fresh
  <2> QED
    BY <2>1 DEF PointersHoldWithoutCollisions, NoCollisions, Named
<1> QED
  BY <1>1, LayoutInvInit, LayoutInvStep, SpanInvInit, SpanInvStep, HomeInit, HomeStep, PTL DEF Spec

-----------------------------------------------------------------------------
(* The parts tile their spans. *)

Mine(ps, x) == {i \in 1 .. Len(ps) : ps[i].span = x}

(* A span counts its parts. *)
Counted(ps, bs) == \A x, y : <<x, y>> \in Pairs(bs) => y.nparts = Cardinality(Mine(ps, x))

NoTotals(bs) == \A x, y : <<x, y>> \in Pairs(bs) => y.total = 0

(* Every part points to its own span. *)
Own(ps, g, bs) ==
  \A i \in 1 .. Len(ps) : ps[i].parent.gen = g + 1 /\ bs[ps[i].parent.bucket].key = ps[i].span

(* The parts of x before the n-th follow each other in the first t bytes   *)
(* of the buffer and leave no gap; t is no further than where the n-th     *)
(* part starts in the page, so that it cannot wrap.                        *)
Tiled(ps, n, x, t) ==
  /\ \A i \in Mine(ps, x) : i < n => ps[i].inSpan \in Nat /\ ps[i].inSpan + ps[i].length <= t
  /\ \A i, j \in Mine(ps, x) : i < j /\ j < n => ps[i].inSpan + ps[i].length <= ps[j].inSpan
  /\ \A o \in 0 .. t - 1 : \E i \in Mine(ps, x) :
       i < n /\ ps[i].inSpan <= o /\ o < ps[i].inSpan + ps[i].length
  /\ \A j \in 1 .. Len(ps) : j >= n => t <= ps[j].start

AllTiled(ps, n, bs) == \A x, y : <<x, y>> \in Pairs(bs) => Tiled(ps, n, x, y.total)

TileInv ==
  /\ Counted(parts, spans.buckets)
  /\ pc = "add" => NoTotals(spans.buckets)
  /\ pc = "ready" => idx > Len(parts)
  /\ pc \in {"link", "ready"} /\ WideBuild /\ Own(parts, Len(freed), spans.buckets) =>
       AllTiled(parts, idx, spans.buckets)

LEMMA MineFinite ==
  ASSUME NEW ps, Len(ps) \in Nat, NEW x
  PROVE  IsFiniteSet(Mine(ps, x)) /\ Cardinality(Mine(ps, x)) \in Nat
<1>1. IsFiniteSet(1 .. Len(ps))
  BY FS_Interval
<1>2. Mine(ps, x) \subseteq 1 .. Len(ps)
  BY DEF Mine
<1> QED
  BY <1>1, <1>2, FS_Subset, FS_CardinalityType

(* One more part. *)
LEMMA MineAdd ==
  ASSUME NEW ps, NEW qs, Len(ps) \in Nat, Len(qs) = Len(ps) + 1, NEW k, qs[Len(ps) + 1].span = k,
         \A i \in 1 .. Len(ps) : qs[i] = ps[i]
  PROVE  /\ Cardinality(Mine(qs, k)) = Cardinality(Mine(ps, k)) + 1
         /\ \A x : x # k => Mine(qs, x) = Mine(ps, x)
<1> DEFINE n == Len(ps) + 1
<1>1. n \notin Mine(ps, k) /\ Mine(qs, k) = Mine(ps, k) \cup {n}
  BY DEF Mine
<1>2. \A x : x # k => Mine(qs, x) = Mine(ps, x)
  BY DEF Mine
<1> HIDE DEF n
<1>3. IsFiniteSet(Mine(ps, k))
  BY MineFinite
<1> DEFINE S == Mine(ps, k)
<1>4. IsFiniteSet(S) /\ n \notin S
  BY <1>1, <1>3
<1>5. Cardinality(S \cup {n}) = Cardinality(S) + 1
  <2> HIDE DEF S
  <2> QED
    BY <1>4, FS_AddElement
<1> QED
  BY <1>1, <1>2, <1>5, Zenon

(* Sorting keeps the number of parts of a span. *)
Permuted(qs, ps, n, perm) ==
  /\ Len(ps) = n /\ Len(qs) = n /\ perm \in [1 .. n -> 1 .. n]
  /\ \A i, j \in 1 .. n : perm[i] = perm[j] => i = j
  /\ \A i \in 1 .. n : qs[i] = ps[perm[i]]

LEMMA MineSorted ==
  ASSUME NEW ps, NEW qs, NEW n \in Nat, NEW perm, Permuted(qs, ps, n, perm), NEW x
  PROVE  Cardinality(Mine(qs, x)) = Cardinality(Mine(ps, x))
<1> USE DEF Permuted
<1> DEFINE S == Mine(qs, x)
           T == Mine(ps, x)
           f == [i \in S |-> perm[i]]
<1>1. S \subseteq 1 .. n /\ T \subseteq 1 .. n
  BY DEF Mine
<1>2. \A i \in S : perm[i] \in T
  BY DEF Mine
<1>3. perm \in Surjection(1 .. n, 1 .. n)
  <2>1. perm \in Injection(1 .. n, 1 .. n)
    BY DEF Injection, IsInjective
  <2>2. IsFiniteSet(1 .. n)
    BY FS_Interval
  <2> QED
    BY <2>1, <2>2, FS_Injection
<1>4. ASSUME NEW t \in T PROVE \E i \in S : perm[i] = t
  <2>1. PICK i \in 1 .. n : perm[i] = t
    BY <1>1, <1>3, <1>4 DEF Surjection
  <2> QED
    BY <1>4, <2>1 DEF Mine
<1>5. IsFiniteSet(S)
  BY MineFinite
<1> HIDE DEF S, T
<1>6. f \in Surjection(S, T)
  <2>1. f \in [S -> T]
    BY <1>2
  <2>2. \A t \in T : \E i \in S : f[i] = t
    BY <1>4
  <2> HIDE DEF f
  <2> QED
    BY <2>1, <2>2 DEF Surjection
<1>7. f \in Injection(S, T)
  <2>1. f \in [S -> T]
    BY <1>2
  <2>2. \A i, j \in S : f[i] = f[j] => i = j
    BY <1>1
  <2> HIDE DEF f
  <2> QED
    BY <2>1, <2>2 DEF Injection, IsInjective
<1> HIDE DEF f
<1>8. Cardinality(T) = Cardinality(S)
  BY <1>5, <1>6, <1>7, FS_Surjection
<1> QED
  BY <1>8 DEF S, T

(* A part is linked: its span's share grows by its length, and the other   *)
(* spans' shares stay.                                                     *)
PartsHere(ps) ==
  Len(ps) \in Nat /\ DOMAIN ps = 1 .. Len(ps) /\
  \A i \in 1 .. Len(ps) : ps[i].start \in Nat /\ ps[i].length \in Nat

Relocated(qs, ps, n, t) ==
  /\ Len(qs) = Len(ps) /\ qs[n].inSpan = t
  /\ \A i \in 1 .. Len(ps) :
       /\ qs[i].span = ps[i].span /\ qs[i].start = ps[i].start /\ qs[i].length = ps[i].length
       /\ qs[i].parent = ps[i].parent
       /\ i # n => qs[i].inSpan = ps[i].inSpan

LEMMA TileNext ==
  ASSUME NEW ps, PartsHere(ps), NEW n \in 1 .. Len(ps), NEW t \in Nat, NEW k, ps[n].span = k, Tiled(ps, n, k, t),
         \A j \in 1 .. Len(ps) : n < j => ps[n].start + ps[n].length <= ps[j].start,
         NEW qs, Relocated(qs, ps, n, t)
  PROVE  Tiled(qs, n + 1, k, t + ps[n].length)
<1> DEFINE l == ps[n].length
           M == Mine(ps, k)
<1>1. /\ l \in Nat /\ n \in Nat /\ Len(ps) \in Nat /\ ps[n].start \in Nat
      /\ \A i \in 1 .. Len(ps) : ps[i].start \in Nat /\ ps[i].length \in Nat
  BY DEF PartsHere
<1>2. Mine(qs, k) = M /\ M \subseteq 1 .. Len(ps) /\ n \in M
  BY DEF Mine, Relocated
<1>3. /\ \A i \in M : i < n => ps[i].inSpan \in Nat /\ ps[i].inSpan + ps[i].length <= t
      /\ \A i, j \in M : i < j /\ j < n => ps[i].inSpan + ps[i].length <= ps[j].inSpan
      /\ \A o \in 0 .. t - 1 : \E i \in M : i < n /\ ps[i].inSpan <= o /\ o < ps[i].inSpan + ps[i].length
      /\ \A j \in 1 .. Len(ps) : j >= n => t <= ps[j].start
  BY DEF Tiled
<1>4. /\ Len(qs) = Len(ps) /\ qs[n].inSpan = t /\ qs[n].length = l
      /\ \A i \in 1 .. Len(ps) : qs[i].start = ps[i].start /\ qs[i].length = ps[i].length
      /\ \A i \in 1 .. Len(ps) : i # n => qs[i].inSpan = ps[i].inSpan
  BY DEF Relocated
<1> HIDE DEF l, M
<1>5. ASSUME NEW i \in M, i < n + 1 PROVE qs[i].inSpan \in Nat /\ qs[i].inSpan + qs[i].length <= t + l
  <2>1. CASE i = n
    BY <1>1, <1>4, <2>1
  <2>2. CASE i # n
    <3>1. i < n /\ i \in 1 .. Len(ps)
      BY <1>1, <1>2, <1>5, <2>2
    <3>2. ps[i].inSpan \in Nat /\ ps[i].inSpan + ps[i].length <= t /\ ps[i].length \in Nat
      BY <1>1, <1>3, <1>5, <3>1
    <3> QED
      BY <1>1, <1>4, <2>2, <3>1, <3>2
  <2> QED
    BY <2>1, <2>2
<1>6. ASSUME NEW i \in M, NEW j \in M, i < j, j < n + 1 PROVE qs[i].inSpan + qs[i].length <= qs[j].inSpan
  <2>1. i < n /\ i \in 1 .. Len(ps) /\ j \in 1 .. Len(ps) /\ i # n
    BY <1>1, <1>2, <1>6
  <2>2. qs[i].inSpan = ps[i].inSpan /\ qs[i].length = ps[i].length
    BY <1>4, <2>1
  <2>3. CASE j = n
    BY <1>3, <1>4, <2>1, <2>2, <2>3
  <2>4. CASE j # n
    <3>1. j < n
      BY <1>1, <1>6, <2>1, <2>4
    <3> QED
      BY <1>3, <1>4, <1>6, <2>1, <2>2, <2>4, <3>1
  <2> QED
    BY <2>3, <2>4
<1>7. ASSUME NEW o \in 0 .. (t + l) - 1
      PROVE  \E i \in M : i < n + 1 /\ qs[i].inSpan <= o /\ o < qs[i].inSpan + qs[i].length
  <2>1. CASE o < t
    <3>1. o \in 0 .. t - 1
      BY <1>1, <1>7, <2>1
    <3>2. PICK i \in M : i < n /\ ps[i].inSpan <= o /\ o < ps[i].inSpan + ps[i].length
      BY <1>3, <3>1
    <3>3. i # n /\ i < n + 1 /\ i \in 1 .. Len(ps)
      BY <1>1, <1>2, <3>2
    <3> QED
      BY <1>4, <3>2, <3>3
  <2>2. CASE ~(o < t)
    <3>1. n < n + 1 /\ qs[n].inSpan <= o /\ o < qs[n].inSpan + qs[n].length
      BY <1>1, <1>4, <1>7, <2>2
    <3> QED
      BY <1>2, <3>1
  <2> QED
    BY <2>1, <2>2
<1>8. ASSUME NEW j \in 1 .. Len(ps), j >= n + 1 PROVE t + l <= qs[j].start
  <2>1. ps[n].start + l <= ps[j].start /\ t <= ps[n].start
    <3>1. n < j
      BY <1>1, <1>8
    <3> QED
      BY <1>1, <1>3, <3>1 DEF l
  <2> QED
    BY <1>1, <1>4, <2>1
<1>9. Tiled(qs, n + 1, k, t + l)
  <2> DEFINE m == n + 1
             r == t + l
  <2>1. /\ \A i \in M : i < m => qs[i].inSpan \in Nat /\ qs[i].inSpan + qs[i].length <= r
        /\ \A i, j \in M : i < j /\ j < m => qs[i].inSpan + qs[i].length <= qs[j].inSpan
    BY <1>5, <1>6
  <2>2. \A o \in 0 .. r - 1 : \E i \in M : i < m /\ qs[i].inSpan <= o /\ o < qs[i].inSpan + qs[i].length
    BY <1>7
  <2>3. \A j \in 1 .. Len(qs) : j >= m => r <= qs[j].start
    BY <1>4, <1>8
  <2> HIDE DEF m, r
  <2>4. Tiled(qs, m, k, r)
    BY <1>2, <2>1, <2>2, <2>3 DEF Tiled
  <2> QED
    BY <2>4 DEF m, r
<1> QED
  BY <1>9 DEF l

LEMMA TileOther ==
  ASSUME NEW ps, PartsHere(ps), NEW n \in 1 .. Len(ps), NEW t, NEW s, NEW x, ps[n].span # x, Tiled(ps, n, x, t),
         NEW qs, Relocated(qs, ps, n, s)
  PROVE  Tiled(qs, n + 1, x, t)
<1> DEFINE M == Mine(ps, x)
<1>1. n \in Nat /\ Len(ps) \in Nat
  BY DEF PartsHere
<1>2. Mine(qs, x) = M /\ M \subseteq 1 .. Len(ps) /\ n \notin M
  BY DEF Mine, Relocated
<1>3. /\ \A i \in M : i < n => ps[i].inSpan \in Nat /\ ps[i].inSpan + ps[i].length <= t
      /\ \A i, j \in M : i < j /\ j < n => ps[i].inSpan + ps[i].length <= ps[j].inSpan
      /\ \A o \in 0 .. t - 1 : \E i \in M : i < n /\ ps[i].inSpan <= o /\ o < ps[i].inSpan + ps[i].length
      /\ \A j \in 1 .. Len(ps) : j >= n => t <= ps[j].start
  BY DEF Tiled
<1>4. /\ Len(qs) = Len(ps) /\ \A i \in 1 .. Len(ps) : qs[i].start = ps[i].start
      /\ \A i \in M : qs[i].inSpan = ps[i].inSpan /\ qs[i].length = ps[i].length
  BY <1>2 DEF Relocated
<1> HIDE DEF M
<1>5. \A i \in M : i < n + 1 <=> i < n
  BY <1>1, <1>2
<1>6. \A j \in 1 .. Len(ps) : j >= n + 1 => j >= n
  BY <1>1
<1>7. /\ \A i \in M : i < n + 1 => qs[i].inSpan \in Nat /\ qs[i].inSpan + qs[i].length <= t
      /\ \A i, j \in M : i < j /\ j < n + 1 => qs[i].inSpan + qs[i].length <= qs[j].inSpan
  BY <1>3, <1>4, <1>5
<1>8. \A o \in 0 .. t - 1 : \E i \in M : i < n + 1 /\ qs[i].inSpan <= o /\ o < qs[i].inSpan + qs[i].length
  BY <1>3, <1>4, <1>5
<1>9. \A j \in 1 .. Len(qs) : j >= n + 1 => t <= qs[j].start
  BY <1>3, <1>4, <1>6
<1> QED
  BY <1>2, <1>7, <1>8, <1>9 DEF Tiled

LEMMA TileAdd ==
  ASSUME LayoutInv, SpanInv, TileInv, AddPart, pc' # "failed"
  PROVE  TileInv'
<1>1. TableInv /\ idx \in Nat \ {0} /\ cfg \in Layouts /\ TableOK(spans, cfg.hash, SpanNames, Span)
  BY DEF LayoutInv, SpanInv, TableInv
<1>2. PICK table, b, v : PartAdded(table, b, v)
  BY <1>1, AddPartTable
<1> DEFINE c == cfg.parts[idx]
           k == c.span
           w == table.buckets[b].val
           bs == spans.buckets
           new == spans'.buckets
           n == Len(parts)
           g == IF NBuckets(table.buckets) # NBuckets(spans.buckets) THEN Len(freed) + 2 ELSE Len(freed) + 1
           e == AddedPart(c, g, b, w.idx)
<1>3. /\ pc = "add" /\ pc' = "add"
      /\ AddedSpan(table, k) /\ b \in Occupied(table.buckets) /\ table.buckets[b].key = k
      /\ w \in Span /\ v = [w EXCEPT !.nparts = w.nparts + 1]
      /\ Assigned(spans', table, cfg.hash, SpanNames, Span, b, v)
      /\ parts' = Append(parts, e)
  BY <1>2 DEF PartAdded
<1>4. /\ TableOK(table, cfg.hash, SpanNames, Span)
      /\ \/ Has(bs, k) /\ table = spans
         \/ ~Has(bs, k) /\ SetPairs(table.buckets, bs, k, NewSpan)
  BY <1>3 DEF AddedSpan
<1>5. e.span = k
  BY DEF AddedPart
<1>6. Counted(parts, bs) /\ NoTotals(bs)
  BY <1>3 DEF TileInv
<1>7. n \in Nat /\ Len(parts') = n + 1 /\ (\A i \in 1 .. n : parts'[i] = parts[i]) /\ parts'[n + 1] = e
  <2> HIDE DEF e
  <2>1. parts \in Seq({parts[i] : i \in DOMAIN parts})
    BY DEF LayoutInv, PartsTyped
  <2> QED
    BY <1>3, <2>1, SeqExtends
<1> HIDE DEF c, k, e
<1>8. /\ Cardinality(Mine(parts', k)) = Cardinality(Mine(parts, k)) + 1
      /\ \A x : x # k => Mine(parts', x) = Mine(parts, x)
  BY <1>5, <1>7, MineAdd
<1>9. SetPairs(new, table.buckets, k, v)
  BY <1>3 DEF Assigned
<1>10. ASSUME NEW x, NEW y, <<x, y>> \in Pairs(table.buckets)
       PROVE  y.total = 0 /\ y.nparts = Cardinality(Mine(parts, x))
  <2>1. CASE <<x, y>> \in Pairs(bs)
    BY <1>6, <2>1 DEF Counted, NoTotals
  <2>2. CASE <<x, y>> \notin Pairs(bs)
    <3>1. ~Has(bs, k) /\ x = k /\ y = NewSpan
      BY <1>4, <1>10, <2>2 DEF SetPairs
    <3>2. NewSpan.total = 0 /\ NewSpan.nparts = 0
      BY DEF NewSpan
    <3>3. Mine(parts, k) = {}
      <4>1. PartsNumbered(parts, bs)
        BY DEF SpanInv
      <4>2. \A i \in 1 .. Len(parts) : Has(bs, parts[i].span)
        BY <4>1 DEF PartsNumbered, Has
      <4> QED
        BY <3>1, <4>2 DEF Mine
    <3> QED
      BY <3>1, <3>2, <3>3, FS_EmptySet
  <2> QED
    BY <2>1, <2>2
<1>11. <<k, w>> \in Pairs(table.buckets)
  <2>1. PairsGood(table, SpanNames, Span)
    BY <1>4, PairsOfTable
  <2> QED
    BY <1>3, <2>1 DEF PairsGood
<1>12. v.total = 0 /\ v.nparts = Cardinality(Mine(parts', k))
  <2>1. w.total = 0 /\ w.nparts = Cardinality(Mine(parts, k))
    BY <1>10, <1>11
  <2> HIDE DEF w
  <2>2. v.total = w.total /\ v.nparts = w.nparts + 1
    BY <1>3 DEF Span
  <2> QED
    BY <1>8, <2>1, <2>2
<1>13. ASSUME NEW x, NEW y, <<x, y>> \in Pairs(new)
       PROVE  y.total = 0 /\ y.nparts = Cardinality(Mine(parts', x))
  <2>1. CASE x = k
    BY <1>9, <1>12, <1>13, <2>1 DEF SetPairs
  <2>2. CASE x # k
    BY <1>8, <1>9, <1>10, <1>13, <2>2 DEF SetPairs
  <2> QED
    BY <2>1, <2>2
<1>14. Counted(parts', new) /\ NoTotals(new)
  BY <1>13 DEF Counted, NoTotals
<1> QED
  BY <1>3, <1>14 DEF TileInv

LEMMA TileSort ==
  ASSUME LayoutInv, SpanInv, TileInv, SortParts
  PROVE  TileInv'
<1> DEFINE n == Len(parts)
           bs == spans.buckets
<1>1. PICK perm \in [1 .. n -> 1 .. n] :
        /\ \A i, j \in 1 .. n : perm[i] = perm[j] => i = j
        /\ parts' = [i \in 1 .. n |-> parts[perm[i]]]
  BY DEF SortParts
<1>2. pc = "add" /\ pc' = "link" /\ idx' = 1 /\ UNCHANGED <<cfg, spans, freed>>
  BY DEF SortParts
<1>3. n \in Nat /\ \A i \in 1 .. n : parts[i].start \in Nat
  <2>1. IMax \in Nat
    BY LayoutsAssumption DEF IMax
  <2> QED
    BY <2>1 DEF LayoutInv, PartsTyped
<1>4. Len(parts') = n
  BY <1>1, <1>3
<1>5. \A i \in 1 .. n : perm[i] \in 1 .. n /\ parts'[i] = parts[perm[i]]
  BY <1>1
<1>6. \A i \in 1 .. n : parts'[i].start \in Nat
  BY <1>3, <1>5
<1>7. Counted(parts, bs) /\ NoTotals(bs)
  BY <1>2 DEF TileInv
<1>8. Counted(parts', bs)
  <2>1. ASSUME NEW x PROVE Cardinality(Mine(parts', x)) = Cardinality(Mine(parts, x))
    <3>1. Permuted(parts', parts, n, perm)
      BY <1>1, <1>4, <1>5 DEF Permuted
    <3> QED
      BY <1>3, <3>1, MineSorted
  <2> QED
    BY <1>7, <2>1 DEF Counted
<1> HIDE DEF n
<1>9. ASSUME NEW x PROVE Tiled(parts', 1, x, 0)
  <2>1. \A i \in Mine(parts', x) : ~(i < 1)
    BY <1>3, <1>4 DEF Mine
  <2>2. \A i, j \in Mine(parts', x) : ~(i < j /\ j < 1)
    BY <1>3, <1>4 DEF Mine
  <2>3. 0 .. 0 - 1 = {}
    OBVIOUS
  <2>4. \A j \in 1 .. Len(parts') : 0 <= parts'[j].start
    BY <1>4, <1>6
  <2> QED
    BY <2>1, <2>2, <2>3, <2>4 DEF Tiled
<1>10. AllTiled(parts', 1, bs)
  BY <1>7, <1>9 DEF NoTotals, AllTiled
<1> QED
  BY <1>2, <1>8, <1>10 DEF TileInv

(* A sum that stays below the end of a part does not wrap. *)
LEMMA ShareFits ==
  ASSUME LayoutInv, WideBuild, NEW i \in 1 .. Len(parts), NEW t \in Nat, t <= parts[i].start
  PROVE  SizeT(t + parts[i].length) = t + parts[i].length
<1> DEFINE s == parts[i].start
           l == parts[i].length
<1>1. s \in 0 .. IMax /\ l \in 0 .. IMax
  BY DEF LayoutInv, PartsTyped
<1> HIDE DEF s, l
<1>2. s + l <= UMax
  BY <1>1, NoWrap
<1>3. UMax \in Nat /\ IMax \in Nat
  BY LayoutsAssumption DEF IMax
<1>4. s \in Nat /\ l \in Nat /\ t <= s
  BY <1>1, <1>3 DEF s
<1>5. t + l \in Nat /\ t + l <= UMax
  BY <1>2, <1>3, <1>4
<1>6. \A x \in Nat : x <= UMax => x % (UMax + 1) = x
  BY <1>3
<1>7. SizeT(t + l) = t + l
  BY <1>5, <1>6 DEF SizeT, WideBuild
<1> QED
  BY <1>7 DEF l

LEMMA TileLink ==
  ASSUME LayoutInv, SpanInv, TileInv, LinkPart, pc' # "failed", LayoutInv'
  PROVE  TileInv'
<1> DEFINE n == Len(parts)
           bs == spans.buckets
           new == spans'.buckets
<1>1. /\ pc = "link" /\ idx \in 1 .. n /\ idx' = idx + 1 /\ UNCHANGED <<cfg, pc>>
      /\ LinkedElsewhere \/ \E b, v : LinkedSpan(b, v)
  BY LinkPartDoes
<1>2. PICK place : /\ parts' = [parts EXCEPT ![idx].inSpan = place]
                   /\ LinkedElsewhere \/ \E b, v : LinkedSpan(b, v) /\ place = bs[b].val.total
  BY <1>1 DEF LinkedElsewhere, LinkedSpan
<1>3. n \in Nat /\ DOMAIN parts = 1 .. n /\ PartsHere(parts)
  <2>1. IMax \in Nat
    BY LayoutsAssumption DEF IMax
  <2> QED
    BY <2>1 DEF LayoutInv, PartsTyped, PartsHere
<1>4. Len(parts') = n
  BY <1>2, <1>3, FunctionIsSequence
<1>5. Relocated(parts', parts, idx, place)
  <2>1. \A i \in 1 .. n : /\ parts'[i].span = parts[i].span /\ parts'[i].start = parts[i].start
                          /\ parts'[i].length = parts[i].length /\ parts'[i].parent = parts[i].parent
                          /\ i # idx => parts'[i].inSpan = parts[i].inSpan
    BY <1>2, <1>3
  <2>2. parts'[idx].inSpan = place
    BY <1>1, <1>2, <1>3
  <2> QED
    BY <1>4, <2>1, <2>2 DEF Relocated
<1>6. \A x : Mine(parts', x) = Mine(parts, x)
  BY <1>5 DEF Relocated, Mine
<1>7. Counted(parts, bs) /\ pc' = "link"
  BY <1>1 DEF TileInv
<1>8. CASE LinkedElsewhere
  <2>1. spans' = spans /\ parts[idx].parent.gen # Len(freed) + 1
    BY <1>8 DEF LinkedElsewhere
  <2>2. PICK g, b, v : freed' = [freed EXCEPT ![g][b].val = v]
    BY <1>8 DEF LinkedElsewhere
  <2>3. freed \in Seq({freed[i] : i \in DOMAIN freed})
    BY DEF SpanInv
  <2>4. Len(freed) \in Nat /\ DOMAIN freed = 1 .. Len(freed)
    BY <2>3
  <2>5. DOMAIN freed' = 1 .. Len(freed) /\ freed' = [i \in 1 .. Len(freed) |-> freed'[i]]
    BY <2>2, <2>4
  <2>6. Len(freed') = Len(freed)
    BY <2>4, <2>5, FunctionIsSequence, Zenon
  <2>7. parts'[idx].parent = parts[idx].parent
    BY <1>1, <1>5 DEF Relocated
  <2>8. ~Own(parts', Len(freed'), new)
    BY <1>1, <1>4, <2>1, <2>6, <2>7 DEF Own
  <2>9. Counted(parts', new)
    BY <1>6, <1>7, <2>1 DEF Counted
  <2> QED
    BY <1>7, <2>8, <2>9 DEF TileInv
<1>9. ASSUME NEW b, NEW v, LinkedSpan(b, v), place = bs[b].val.total PROVE TileInv'
  <2> DEFINE w == bs[b].val
             x0 == bs[b].key
  <2>1. /\ b \in Occupied(bs) /\ b = parts[idx].parent.bucket /\ parts[idx].parent.gen = Len(freed) + 1
        /\ w \in Span /\ v \in Span /\ v = [w EXCEPT !.total = SizeT(w.total + parts[idx].length)]
        /\ spans' = [spans EXCEPT !.buckets[b].val = v] /\ freed' = freed
    BY <1>9 DEF LinkedSpan
  <2>2. Assigned(spans', spans, cfg.hash, SpanNames, Span, b, v)
    BY <2>1, AssignOK DEF SpanInv, TableInv
  <2>3. SetPairs(new, bs, x0, v) /\ \A i \in Occupied(bs) : new[i].key = bs[i].key
    BY <2>2 DEF Assigned
  <2>4. <<x0, w>> \in Pairs(bs)
    <3>1. PairsGood(spans, SpanNames, Span)
      BY PairsOfTable DEF SpanInv, TableInv
    <3> QED
      BY <2>1, <3>1 DEF PairsGood
  <2>5. place = w.total
    BY <1>9
  <2> HIDE DEF w, x0
  <2>6. v.nparts = w.nparts /\ v.total = SizeT(w.total + parts[idx].length) /\ w.total \in Nat
    BY <2>1, LayoutsAssumption DEF Span
  <2>7. Counted(parts', new)
    <3> SUFFICES ASSUME NEW x, NEW y, <<x, y>> \in Pairs(new) PROVE y.nparts = Cardinality(Mine(parts, x))
      BY <1>6 DEF Counted
    <3>1. CASE x = x0
      BY <1>7, <2>3, <2>4, <2>6, <3>1 DEF SetPairs, Counted
    <3>2. CASE x # x0
      BY <1>7, <2>3, <3>2 DEF SetPairs, Counted
    <3> QED
      BY <3>1, <3>2
  <2>8. ASSUME WideBuild', Own(parts', Len(freed'), new) PROVE AllTiled(parts', idx', new)
    <3>1. WideBuild
      BY <1>1, <2>8 DEF WideBuild
    <3>2. Own(parts, Len(freed), bs)
      <4> SUFFICES ASSUME NEW i \in 1 .. n
                   PROVE  parts[i].parent.gen = Len(freed) + 1 /\ bs[parts[i].parent.bucket].key = parts[i].span
        BY DEF Own
      <4>1. parts'[i].parent = parts[i].parent /\ parts'[i].span = parts[i].span
        BY <1>5 DEF Relocated
      <4>2. parts'[i].parent.gen = Len(freed') + 1 /\ new[parts'[i].parent.bucket].key = parts'[i].span
        BY <1>4, <2>8 DEF Own
      <4>3. parts[i].parent.gen = Len(freed) + 1
        BY <2>1, <4>1, <4>2
      <4>4. parts[i].parent.bucket \in Occupied(bs)
        BY <4>3 DEF SpanInv, Pointers
      <4> QED
        BY <2>3, <4>1, <4>2, <4>3, <4>4
    <3>3. AllTiled(parts, idx, bs)
      BY <1>1, <3>1, <3>2 DEF TileInv
    <3>4. parts[idx].span = x0
      BY <1>1, <2>1, <3>2 DEF Own, x0
    <3>5. Tiled(parts, idx, x0, w.total)
      BY <2>4, <3>3 DEF AllTiled
    <3>6. idx \in Nat /\ w.total <= parts[idx].start
      BY <1>1, <3>5 DEF Tiled
    <3>7. v.total = w.total + parts[idx].length
      BY <1>1, <2>6, <3>1, <3>6, ShareFits
    <3>8. ASSUME NEW j \in 1 .. n, idx < j PROVE parts[idx].start + parts[idx].length <= parts[j].start
      <4>1. End(parts'[idx]) <= parts'[j].start
        <5>1. PassedApart' /\ pc' = "link"
          BY <1>7 DEF LayoutInv
        <5>2. idx < idx' /\ idx \in 1 .. Len(parts') /\ j \in 1 .. Len(parts')
          BY <1>1, <1>4, <3>6
        <5> QED
          BY <3>8, <5>1, <5>2 DEF PassedApart
      <4> QED
        BY <1>1, <1>5, <4>1 DEF End, Relocated
    <3>9. Tiled(parts', idx + 1, x0, w.total + parts[idx].length)
      BY <1>1, <1>3, <1>5, <2>5, <2>6, <3>4, <3>5, <3>8, TileNext
    <3>10. ASSUME NEW x, NEW y, <<x, y>> \in Pairs(new) PROVE Tiled(parts', idx', x, y.total)
      <4>1. CASE x = x0
        BY <1>1, <2>3, <3>7, <3>9, <3>10, <4>1 DEF SetPairs
      <4>2. CASE x # x0
        <5>1. <<x, y>> \in Pairs(bs)
          BY <2>3, <3>10, <4>2 DEF SetPairs
        <5>2. Tiled(parts, idx, x, y.total)
          BY <3>3, <5>1 DEF AllTiled
        <5>3. Tiled(parts', idx + 1, x, y.total)
          BY <1>1, <1>3, <1>5, <3>4, <4>2, <5>2, TileOther
        <5> QED
          BY <1>1, <5>3
      <4> QED
        BY <4>1, <4>2
    <3> QED
      BY <3>10 DEF AllTiled
  <2> QED
    BY <1>7, <2>7, <2>8 DEF TileInv
<1> QED
  BY <1>2, <1>8, <1>9

LEMMA TileAlloc ==
  ASSUME SpanInv, TileInv, AllocBuffers, pc' # "aborted"
  PROVE  TileInv'
<1> DEFINE bs == spans.buckets
           new == spans'.buckets
<1>1. Buffered /\ pc' = "ready" /\ UNCHANGED <<cfg, idx, freed, parts>>
  BY AllocBuffersDoes DEF SpanInv
<1>2. pc = "link" /\ idx > Len(parts)
  BY DEF AllocBuffers
<1>3. /\ TableOK(spans', cfg.hash, SpanNames, Span) /\ Occupied(new) = Occupied(bs)
      /\ \A b \in Occupied(bs) : new[b].key = bs[b].key /\ new[b].val = [bs[b].val EXCEPT !.buf = TRUE]
  BY <1>1 DEF Buffered
<1>4. PairsGood(spans, SpanNames, Span) /\ PairsGood(spans', SpanNames, Span)
  BY <1>3, PairsOfTable DEF SpanInv, TableInv
<1>5. ASSUME NEW x, NEW y, <<x, y>> \in Pairs(new)
      PROVE  \E z : <<x, z>> \in Pairs(bs) /\ y.total = z.total /\ y.nparts = z.nparts
  <2>1. PICK b \in Occupied(bs) : new[b].key = x /\ new[b].val = y
    BY <1>3, <1>4, <1>5 DEF PairsGood
  <2> DEFINE z == bs[b].val
  <2>2. <<x, z>> \in Pairs(bs) /\ z \in Span
    BY <1>3, <1>4, <2>1 DEF PairsGood
  <2>3. y = [z EXCEPT !.buf = TRUE]
    BY <1>3, <2>1
  <2> HIDE DEF z
  <2>4. y.total = z.total /\ y.nparts = z.nparts
    BY <2>2, <2>3 DEF Span
  <2> QED
    BY <2>2, <2>4
<1>6. Counted(parts', new)
  <2> SUFFICES ASSUME NEW x, NEW y, <<x, y>> \in Pairs(new) PROVE y.nparts = Cardinality(Mine(parts, x))
    BY <1>1 DEF Counted
  <2>1. PICK z : <<x, z>> \in Pairs(bs) /\ y.nparts = z.nparts
    BY <1>5
  <2> QED
    BY <2>1 DEF TileInv, Counted
<1>7. ASSUME WideBuild', Own(parts', Len(freed'), new) PROVE AllTiled(parts', idx', new)
  <2>1. WideBuild
    BY <1>1, <1>7 DEF WideBuild
  <2>2. Own(parts, Len(freed), bs)
    <3>1. \A i \in 1 .. Len(parts) : parts[i].parent.gen = Len(freed) + 1 /\ new[parts[i].parent.bucket].key = parts[i].span
      BY <1>1, <1>7 DEF Own
    <3>2. \A i \in 1 .. Len(parts) : parts[i].parent.bucket \in Occupied(bs)
      BY <3>1 DEF SpanInv, Pointers
    <3> QED
      BY <1>3, <3>1, <3>2 DEF Own
  <2>3. AllTiled(parts, idx, bs)
    BY <1>2, <2>1, <2>2 DEF TileInv
  <2>4. ASSUME NEW x, NEW y, <<x, y>> \in Pairs(new) PROVE Tiled(parts, idx, x, y.total)
    <3>1. PICK z : <<x, z>> \in Pairs(bs) /\ y.total = z.total
      BY <1>5, <2>4
    <3> QED
      BY <2>3, <3>1 DEF AllTiled
  <2> QED
    BY <1>1, <2>4 DEF AllTiled
<1> QED
  BY <1>1, <1>2, <1>6, <1>7 DEF TileInv

LEMMA TileUntouched ==
  ASSUME TileInv, UNCHANGED <<cfg, idx, spans, freed, parts>>, pc' \in {pc, "failed", "aborted", "crashed"}
  PROVE  TileInv'
<1>1. WideBuild' <=> WideBuild
  BY DEF WideBuild
<1> QED
  BY <1>1 DEF TileInv

LEMMA TileInit == Init => TileInv
<1> SUFFICES ASSUME Init PROVE TileInv
  OBVIOUS
<1>1. pc = "add" /\ spans = hashmap_new(0)
  BY DEF Init
<1>2. RoundUp(0) \in Sizes
  BY RoundUpIs
<1>3. Pairs(spans.buckets) = {}
  BY <1>1, <1>2, NewTable DEF hashmap_new
<1> QED
  BY <1>1, <1>3 DEF TileInv, Counted, NoTotals

LEMMA TileStep == LayoutInv /\ SpanInv /\ TileInv /\ [Next]_vars => TileInv'
<1> SUFFICES ASSUME LayoutInv, SpanInv, TileInv, [Next]_vars PROVE TileInv'
  OBVIOUS
<1>1. CASE AddPart
  <2>1. CASE pc' # "failed"
    BY <1>1, <2>1, TileAdd
  <2>2. CASE pc' = "failed"
    <3>1. pc = "add"
      BY <1>1 DEF AddPart
    <3>2. UNCHANGED <<cfg, idx, spans, freed, parts>>
      BY <1>1, <2>2, <3>1 DEF AddPart, Fail
    <3> QED
      BY <2>2, <3>2, TileUntouched
  <2> QED
    BY <2>1, <2>2
<1>2. CASE SortParts
  BY <1>2, TileSort
<1>3. CASE LinkPart
  <2>1. CASE pc' # "failed"
    <3>1. LayoutInv'
      BY LayoutInvStep
    <3> QED
      BY <1>3, <2>1, <3>1, TileLink
  <2>2. CASE pc' = "failed"
    <3>1. pc = "link"
      BY <1>3 DEF LinkPart
    <3>2. UNCHANGED <<cfg, idx, spans, freed, parts>>
      BY <1>3, <2>2, <3>1, Zenon DEF LinkPart, Fail
    <3> QED
      BY <2>2, <3>2, TileUntouched
  <2> QED
    BY <2>1, <2>2
<1>4. CASE LinkFault \/ OutOfMemory
  BY <1>4, TileUntouched DEF LinkFault, OutOfMemory, Fail
<1>5. CASE AllocBuffers
  <2>1. CASE pc' # "aborted"
    BY <1>5, <2>1, TileAlloc
  <2>2. CASE pc' = "aborted"
    <3>1. UNCHANGED <<cfg, idx, spans, freed, parts>>
      BY <1>5, <2>2 DEF AllocBuffers
    <3> QED
      BY <2>2, <3>1, TileUntouched
  <2> QED
    BY <2>1, <2>2
<1>6. CASE UNCHANGED vars
  BY <1>6, TileUntouched DEF vars
<1> QED
  BY <1>1, <1>2, <1>3, <1>4, <1>5, <1>6 DEF Next

(* A byte of the buffer belongs to exactly one part. *)
LEMMA OneCovers ==
  ASSUME NEW ps, PartsHere(ps), NEW x, NEW t \in Nat, NEW n \in Nat, n > Len(ps), Tiled(ps, n, x, t),
         NEW o \in 0 .. t - 1
  PROVE  Cardinality({i \in Mine(ps, x) : ps[i].inSpan <= o /\ o < ps[i].inSpan + ps[i].length}) = 1
<1> DEFINE M == Mine(ps, x)
           C == {i \in M : ps[i].inSpan <= o /\ o < ps[i].inSpan + ps[i].length}
<1>1. M \subseteq 1 .. Len(ps) /\ Len(ps) \in Nat
  BY DEF Mine, PartsHere
<1>2. \A i \in M : i \in Nat /\ i < n
  BY <1>1
<1>3. /\ \A i \in M : ps[i].inSpan \in Nat
      /\ \A i, j \in M : i < j => ps[i].inSpan + ps[i].length <= ps[j].inSpan
  BY <1>2 DEF Tiled
<1>4. \A i \in M : ps[i].length \in Nat
  BY <1>1 DEF PartsHere
<1>5. PICK i \in M : ps[i].inSpan <= o /\ o < ps[i].inSpan + ps[i].length
  BY DEF Tiled
<1> HIDE DEF M
<1>6. ASSUME NEW j \in M, ps[j].inSpan <= o, o < ps[j].inSpan + ps[j].length PROVE j = i
  <2>1. ~(i < j)
    BY <1>3, <1>4, <1>5, <1>6
  <2>2. ~(j < i)
    BY <1>3, <1>4, <1>5, <1>6
  <2> QED
    BY <1>2, <1>6, <2>1, <2>2
<1>7. C = {i}
  BY <1>5, <1>6
<1>8. Cardinality(C) = 1
  BY <1>7, FS_Singleton
<1> QED
  BY <1>8 DEF M

(* The parts of a span tile its buffer in page order, without a gap, when  *)
(* every part still points to its own span and size_t has 64 bits.         *)
THEOREM PartsTile == Spec => []PartsTileSpans
<1>1. ASSUME LayoutInv, SpanInv, TileInv PROVE PartsTileSpans
  <2> SUFFICES ASSUME pc = "ready", WideBuild, \A i \in 1 .. Len(parts) : Fresh(parts[i]),
                      NEW b \in Occupied(spans.buckets)
               PROVE  LET mine == {i \in 1 .. Len(parts) : parts[i].span = spans.buckets[b].key}
                          total == spans.buckets[b].val.total
                      IN /\ \A o \in 0 .. total - 1 :
                              Cardinality({i \in mine : parts[i].inSpan <= o /\ o < parts[i].inSpan + parts[i].length}) = 1
                         /\ \A i \in mine : parts[i].inSpan + parts[i].length <= total
                         /\ \A i, j \in mine : i < j => parts[i].inSpan <= parts[j].inSpan
                         /\ Cardinality(mine) = spans.buckets[b].val.nparts
    BY DEF PartsTileSpans, WideBuild
  <2> DEFINE bs == spans.buckets
             x == bs[b].key
             y == bs[b].val
             M == Mine(parts, x)
  <2>1. Own(parts, Len(freed), bs)
    <3> SUFFICES ASSUME NEW i \in 1 .. Len(parts)
                 PROVE  parts[i].parent.gen = Len(freed) + 1 /\ bs[parts[i].parent.bucket].key = parts[i].span
      BY DEF Own
    <3>1. PICK c \in Occupied(bs) : bs[c].key = parts[i].span /\ ProbeEnd(bs, cfg.hash, parts[i].span) = c
      BY <1>1, OwnBucket
    <3>2. parts[i].parent = [gen |-> Len(freed) + 1, bucket |-> c]
      BY <3>1 DEF Fresh
    <3> QED
      BY <3>1, <3>2
  <2>2. <<x, y>> \in Pairs(bs) /\ y \in Span
    <3>1. PairsGood(spans, SpanNames, Span)
      BY <1>1, PairsOfTable DEF SpanInv, TableInv
    <3> QED
      BY <3>1 DEF PairsGood
  <2>3. Tiled(parts, idx, x, y.total) /\ y.nparts = Cardinality(M) /\ idx > Len(parts) /\ idx \in Nat
    <3>1. AllTiled(parts, idx, bs) /\ Counted(parts, bs) /\ idx > Len(parts)
      BY <1>1, <2>1 DEF TileInv
    <3> QED
      BY <1>1, <2>2, <3>1 DEF AllTiled, Counted, LayoutInv
  <2>4. PartsHere(parts)
    <3>1. IMax \in Nat
      BY LayoutsAssumption DEF IMax
    <3> QED
      BY <1>1, <3>1 DEF LayoutInv, PartsTyped, PartsHere
  <2>5. y.total \in Nat
    <3> HIDE DEF y
    <3> QED
      BY <2>2, LayoutsAssumption DEF Span
  <2> HIDE DEF x, y
  <2>6. \A o \in 0 .. y.total - 1 :
          Cardinality({i \in M : parts[i].inSpan <= o /\ o < parts[i].inSpan + parts[i].length}) = 1
    BY <2>3, <2>4, <2>5, OneCovers
  <2>7. \A i \in M : i < idx /\ i \in 1 .. Len(parts)
    BY <2>3, <2>4 DEF Mine, PartsHere
  <2>8. \A i \in M : parts[i].inSpan \in Nat /\ parts[i].length \in Nat /\ parts[i].inSpan + parts[i].length <= y.total
    BY <2>3, <2>4, <2>7 DEF Tiled, PartsHere
  <2>9. \A i, j \in M : i < j => parts[i].inSpan + parts[i].length <= parts[j].inSpan
    BY <2>3, <2>7 DEF Tiled
  <2>10. \A i, j \in M : i < j => parts[i].inSpan <= parts[j].inSpan
    BY <2>8, <2>9
  <2>11. M = {i \in 1 .. Len(parts) : parts[i].span = x}
    BY DEF Mine
  <2> HIDE DEF M
  <2> QED
    BY <2>3, <2>6, <2>8, <2>10, <2>11, Zenon DEF x, y
<1> QED
  BY <1>1, LayoutInvInit, LayoutInvStep, SpanInvInit, SpanInvStep, TileInit, TileStep, PTL DEF Spec

-----------------------------------------------------------------------------
(* The arrays of the parts of the spans. *)

Linked(ps, n, s) == {i \in 1 .. Len(ps) : i < n /\ ps[i].spanIdx = s}

(* A span_initializer has come as far as the parts of its span have been   *)
(* linked.                                                                 *)
FillInv ==
  /\ pc = "add" => \A s \in DOMAIN filled : filled[s] = 0
  /\ pc = "link" => \A s \in DOMAIN filled : filled[s] = Cardinality(Linked(parts, idx, s))

LEMMA FillUntouched ==
  ASSUME FillInv, UNCHANGED <<idx, parts, filled>>, pc' = pc \/ pc' \notin {"add", "link"}
  PROVE  FillInv'
BY DEF FillInv

LEMMA FillSort ==
  ASSUME LayoutInv, SpanInv, FillInv, SortParts
  PROVE  FillInv'
<1>1. pc = "add" /\ pc' = "link" /\ idx' = 1 /\ filled' = filled
  BY DEF SortParts
<1>2. \A s : Linked(parts', 1, s) = {}
  BY DEF Linked
<1> QED
  BY <1>1, <1>2, FS_EmptySet DEF FillInv

(* The places of the parts in their spans do not matter. *)
LEMMA LinkedSame ==
  ASSUME NEW ps, NEW qs, Len(qs) = Len(ps), \A i \in 1 .. Len(ps) : qs[i].spanIdx = ps[i].spanIdx, NEW n, NEW s
  PROVE  Linked(qs, n, s) = Linked(ps, n, s)
BY DEF Linked

LEMMA LinkedNext ==
  ASSUME NEW ps, Len(ps) \in Nat, NEW n \in 1 .. Len(ps), NEW s
  PROVE  Cardinality(Linked(ps, n + 1, s)) =
           IF ps[n].spanIdx = s THEN Cardinality(Linked(ps, n, s)) + 1 ELSE Cardinality(Linked(ps, n, s))
<1> DEFINE L == Linked(ps, n, s)
<1>1. n \notin L
  BY DEF Linked
<1>2. ps[n].spanIdx = s => Linked(ps, n + 1, s) = L \cup {n}
  BY DEF Linked
<1>3. ps[n].spanIdx # s => Linked(ps, n + 1, s) = L
  BY DEF Linked
<1>4. IsFiniteSet(L)
  <2>1. L \subseteq 1 .. Len(ps)
    BY DEF Linked
  <2>2. IsFiniteSet(1 .. Len(ps))
    BY FS_Interval
  <2> HIDE DEF L
  <2> QED
    BY <2>1, <2>2, FS_Subset
<1> HIDE DEF L
<1>5. Cardinality(L \cup {n}) = Cardinality(L) + 1
  BY <1>1, <1>4, FS_AddElement
<1> QED
  BY <1>2, <1>3, <1>5 DEF L

LEMMA FillLink ==
  ASSUME LayoutInv, SpanInv, FillInv, LinkPart, pc' # "failed"
  PROVE  FillInv'
<1> DEFINE k == parts[idx].spanIdx
           place == Deref(parts[idx].parent).total
<1>1. pc = "link" /\ pc' = "link" /\ idx' = idx + 1 /\ idx \in 1 .. Len(parts)
  BY LinkPartDoes
<1>2. parts' = [parts EXCEPT ![idx].inSpan = place] /\ filled' = [filled EXCEPT ![k] = @ + 1]
  BY Zenon DEF LinkPart, Fail
<1> HIDE DEF place
<1>3. Len(parts) \in Nat /\ parts \in Seq({parts[i] : i \in DOMAIN parts})
  BY DEF LayoutInv, PartsTyped
<1>4. Len(parts') = Len(parts) /\ \A i \in 1 .. Len(parts) : parts'[i].spanIdx = parts[i].spanIdx
  BY <1>2, <1>3
<1>5. ASSUME NEW s \in DOMAIN filled
      PROVE  filled'[s] = Cardinality(Linked(parts', idx', s))
  <2>1. Linked(parts', idx', s) = Linked(parts, idx + 1, s)
    BY <1>1, <1>4, LinkedSame
  <2>2. filled[s] = Cardinality(Linked(parts, idx, s))
    BY <1>1 DEF FillInv
  <2>3. filled'[s] = IF k = s THEN filled[s] + 1 ELSE filled[s]
    BY <1>2
  <2> QED
    BY <1>1, <1>3, <2>1, <2>2, <2>3, LinkedNext
<1>6. DOMAIN filled' = DOMAIN filled
  BY <1>2
<1> QED
  BY <1>1, <1>5, <1>6 DEF FillInv

LEMMA FillStep == LayoutInv /\ SpanInv /\ FillInv /\ [Next]_vars => FillInv'
<1> SUFFICES ASSUME LayoutInv, SpanInv, FillInv, [Next]_vars PROVE FillInv'
  OBVIOUS
<1>1. CASE AddPart
  <2>1. filled' = filled /\ pc = "add" /\ pc' \in {"add", "failed"}
    BY <1>1, Zenon DEF AddPart, Fail
  <2> QED
    BY <2>1 DEF FillInv
<1>2. CASE SortParts
  BY <1>2, FillSort
<1>3. CASE LinkPart
  <2>1. CASE pc' = "failed"
    <3>1. pc = "link"
      BY <1>3 DEF LinkPart
    <3>2. UNCHANGED <<idx, parts, filled>>
      BY <1>3, <2>1, <3>1, Zenon DEF LinkPart, Fail
    <3> QED
      BY <2>1, <3>2, FillUntouched
  <2> QED
    BY <1>3, <2>1, FillLink
<1>4. CASE LinkFault \/ OutOfMemory
  BY <1>4, FillUntouched DEF LinkFault, OutOfMemory, Fail
<1>5. CASE AllocBuffers
  <2>1. UNCHANGED <<idx, parts, filled>> /\ pc' \in {"aborted", "ready"}
    BY <1>5, Zenon DEF AllocBuffers
  <2> QED
    BY <2>1, FillUntouched
<1>6. CASE UNCHANGED vars
  BY <1>6, FillUntouched DEF vars
<1> QED
  BY <1>1, <1>2, <1>3, <1>4, <1>5, <1>6 DEF Next

(* A part that still points to its own span is not written behind the      *)
(* array of the span's parts: the parts linked before it are fewer than    *)
(* the parts the span counted.                                             *)
THEOREM SpanArrays == Spec => []SpanArraysSuffice
<1>1. ASSUME TypeOK, LayoutInv, SpanInv, TileInv, FillInv PROVE SpanArraysSuffice
  <2> SUFFICES ASSUME pc = "link", idx <= Len(parts), Fresh(parts[idx]) PROVE InObjs(parts[idx])
    BY DEF SpanArraysSuffice
  <2> DEFINE bs == spans.buckets
             s == parts[idx].spanIdx
             L == Linked(parts, idx, s)
             M == Mine(parts, parts[idx].span)
  <2>1. idx \in 1 .. Len(parts) /\ Len(parts) \in Nat
    BY <1>1 DEF LayoutInv, PartsTyped
  <2>2. PICK b \in Occupied(bs) : bs[b].key = parts[idx].span /\ ProbeEnd(bs, cfg.hash, parts[idx].span) = b
    BY <1>1, <2>1, OwnBucket
  <2>3. Deref(parts[idx].parent) = bs[b].val
    BY <2>2 DEF Fresh, Deref
  <2>4. bs[b].val.nparts = Cardinality(M)
    <3>1. PairsGood(spans, SpanNames, Span)
      BY <1>1, PairsOfTable DEF SpanInv, TableInv
    <3>2. <<bs[b].key, bs[b].val>> \in Pairs(bs)
      BY <2>2, <3>1 DEF PairsGood
    <3> QED
      BY <1>1, <2>2, <3>2 DEF TileInv, Counted
  <2>5. L \subseteq M /\ idx \in M /\ idx \notin L
    <3>1. \A i, j \in 1 .. Len(parts) : parts[i].spanIdx = parts[j].spanIdx <=> parts[i].span = parts[j].span
      BY <1>1, DenseSpans DEF SpanIndicesDense
    <3> QED
      BY <2>1, <3>1 DEF Linked, Mine
  <2>6. filled[s] = Cardinality(L)
    <3>1. s \in DOMAIN filled
      BY <1>1, <2>1 DEF TypeOK
    <3> QED
      BY <1>1, <3>1 DEF FillInv
  <2>7. IsFiniteSet(M) /\ Cardinality(M) \in Nat
    BY <2>1, MineFinite
  <2> HIDE DEF L, M, s, bs
  <2>8. Cardinality(L) < Cardinality(M)
    <3>1. L # M
      BY <2>5
    <3>2. Cardinality(L) <= Cardinality(M) /\ (Cardinality(L) = Cardinality(M) => L = M)
      BY <2>5, <2>7, FS_Subset
    <3>3. Cardinality(L) \in Nat
      BY <2>5, <2>7, FS_Subset, FS_CardinalityType
    <3> QED
      BY <2>7, <3>1, <3>2, <3>3
  <2> QED
    BY <2>3, <2>4, <2>6, <2>8 DEF InObjs, s
<1>2. Init => FillInv
  BY DEF Init, FillInv
<1> QED
  BY <1>1, <1>2, LayoutInvInit, LayoutInvStep, SpanInvInit, SpanInvStep, TileInit, TileStep, FillStep,
     LayoutTypeCorrect, PTL DEF Spec
=============================================================================
