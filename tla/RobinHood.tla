----------------------------- MODULE RobinHood -----------------------------
(***************************************************************************)
(* The operations of common/hashmap.c as functions of a table: open        *)
(* addressing with Robin Hood probing.  A table is a record of its lower   *)
(* capacity, its buckets and its count; a bucket holds an item (key and    *)
(* value) and dib, its distance from its home bucket plus one, 0 when it   *)
(* is vacant.  h gives the 48-bit hash of a key, masked by the number of   *)
(* buckets, always a power of two.  A loop of the code is a recursive      *)
(* function of the number of its iterations; nothing else runs meanwhile.  *)
(***************************************************************************)
EXTENDS Naturals, FiniteSets, SequencesExt

CONSTANTS MinCap,  \* the smallest number of buckets, 16 in the code
          NoKey, NoVal

ASSUME MinCapAssumption == MinCap \in Nat /\ MinCap > 1

Vacant == [dib |-> 0, key |-> NoKey, val |-> NoVal]

NBuckets(bs) == Cardinality(DOMAIN bs)

(* Mutated: the table fills up before it grows. *)
growatFull(n) == n

growat(n) == (n * 60) \div 100

shrinkat(n) == (n * 10) \div 100

Home(h, bs, k) == h[k] % NBuckets(bs)

(* ncap after k rounds of the loop in hashmap_new_with_allocator, and the  *)
(* first of these that reaches n.                                          *)
ncap[k \in Nat] == IF k = 0 THEN MinCap ELSE 2 * ncap[k - 1]

RoundUp(n) == ncap[Min({k \in 0 .. n : ncap[k] >= n})]

VacantBuckets(n) == [i \in 0 .. n - 1 |-> Vacant]

hashmap_new(cap) ==
  [cap |-> RoundUp(cap), buckets |-> VacantBuckets(RoundUp(cap)), count |-> 0]

-----------------------------------------------------------------------------
(* Mutated: the item that gives way keeps its distance. *)
PlaceStepKeepsDib(s, i, compares) ==
  LET b == s.bs[i]
  IN IF s.found # "no" THEN s
     ELSE IF b.dib = 0 THEN [s EXCEPT !.bs[i] = s.e, !.found = "new"]
     ELSE IF compares /\ b.key = s.e.key
     THEN [s EXCEPT !.bs[i].val = s.e.val, !.found = "same", !.old = b.val]
     ELSE IF b.dib < s.e.dib THEN [s EXCEPT !.bs[i] = s.e, !.e = b]
     ELSE [s EXCEPT !.e.dib = s.e.dib + 1]

(***************************************************************************)
(* One iteration of the loop that looks for a place for the entry s.e.     *)
(* "found" says how the loop ended: "no" while it runs, "new" when it put  *)
(* the entry in a vacant bucket, "same" when it replaced an equal key.     *)
(* resize0 moves distinct keys and does not compare.                       *)
(***************************************************************************)
PlaceStep(s, i, compares) ==
  LET b == s.bs[i]
  IN IF s.found # "no" THEN s
     ELSE IF b.dib = 0 THEN [s EXCEPT !.bs[i] = s.e, !.found = "new"]
     ELSE IF compares /\ b.key = s.e.key
     THEN [s EXCEPT !.bs[i].val = s.e.val, !.found = "same", !.old = b.val]
     ELSE IF b.dib < s.e.dib
     THEN [s EXCEPT !.bs[i] = s.e, !.e = [b EXCEPT !.dib = b.dib + 1]]
     ELSE [s EXCEPT !.e.dib = s.e.dib + 1]

PlaceLoop(bs, h, k, v, compares) ==
  LET s[d \in 0 .. NBuckets(bs)] ==
        IF d = 0
        THEN [bs |-> bs, e |-> [dib |-> 1, key |-> k, val |-> v], found |-> "no", old |-> NoVal]
        ELSE PlaceStep(s[d - 1], (Home(h, bs, k) + d - 1) % NBuckets(bs), compares)
  IN s

Place(bs, h, k, v, compares) == PlaceLoop(bs, h, k, v, compares)[NBuckets(bs)]

(* resize0: every item of the old buckets, in their order, into new ones. *)
RehashLoop(bs, h, n) ==
  LET new[d \in 0 .. NBuckets(bs)] ==
        IF d = 0 THEN VacantBuckets(RoundUp(n))
        ELSE IF bs[d - 1].dib = 0 THEN new[d - 1]
        ELSE Place(new[d - 1], h, bs[d - 1].key, bs[d - 1].val, FALSE).bs
  IN new

Rehash(bs, h, n) == RehashLoop(bs, h, n)[NBuckets(bs)]

(* Mutated: one item too early. *)
MustGrowEarly(t) == t.count + 1 >= growat(NBuckets(t.buckets))

MustGrow(t) == t.count >= growat(NBuckets(t.buckets))

Grown(t, h) == [t EXCEPT !.buckets = Rehash(t.buckets, h, 2 * NBuckets(t.buckets))]

(* Mutated: a replaced item is counted again. *)
SetItemCounts(t, h, k, v) ==
  LET s == Place(t.buckets, h, k, v, TRUE)
  IN [table |-> [t EXCEPT !.buckets = s.bs, !.count = t.count + 1],
      ret |-> s.old, found |-> s.found]

(* hashmap_set after the resize it may need: the table and what it returns. *)
SetItem(t, h, k, v) ==
  LET s == Place(t.buckets, h, k, v, TRUE)
  IN [table |-> [t EXCEPT !.buckets = s.bs,
                          !.count = IF s.found = "new" THEN t.count + 1 ELSE t.count],
      ret |-> s.old, found |-> s.found]

hashmap_set(t, h, k, v) == SetItem(IF MustGrow(t) THEN Grown(t, h) ELSE t, h, k, v)

-----------------------------------------------------------------------------
(* The buckets a lookup of k passes, in order. *)
ProbeSeq(bs, h, k) == [d \in 1 .. NBuckets(bs) |-> (Home(h, bs, k) + d - 1) % NBuckets(bs)]

(* The steps at which a lookup of k stops: a vacant bucket or the key. *)
Stops(bs, h, k) ==
  {d \in 1 .. NBuckets(bs) :
     bs[ProbeSeq(bs, h, k)[d]].dib = 0 \/ bs[ProbeSeq(bs, h, k)[d]].key = k}

(* The bucket the lookup ends at; a full table without k has none. *)
ProbeEnd(bs, h, k) == ProbeSeq(bs, h, k)[Min(Stops(bs, h, k))]

(* Mutated: only the home bucket is looked at. *)
hashmap_get_home(t, h, k) ==
  IF t.buckets[Home(h, t.buckets, k)].key = k THEN t.buckets[Home(h, t.buckets, k)].val ELSE NoVal

hashmap_get(t, h, k) ==
  IF t.buckets[ProbeEnd(t.buckets, h, k)].key = k
  THEN t.buckets[ProbeEnd(t.buckets, h, k)].val ELSE NoVal

(* Mutated: the run does not end at an item in its home bucket. *)
RunToVacant(bs, i) == Min({d \in 1 .. NBuckets(bs) : bs[(i + d) % NBuckets(bs)].dib = 0})

(* The length of the run of displaced items behind bucket i. *)
Run(bs, i) ==
  Min({d \in 1 .. NBuckets(bs) : bs[(i + d) % NBuckets(bs)].dib <= 1})

(* hashmap_delete of the item at bucket i: the run moves up by one. *)
BackShift(bs, i) ==
  [j \in DOMAIN bs |->
     LET d == (j + NBuckets(bs) - i) % NBuckets(bs)
     IN IF d < Run(bs, i) - 1
        THEN [bs[(j + 1) % NBuckets(bs)] EXCEPT !.dib = @ - 1]
        ELSE IF d = Run(bs, i) - 1 THEN Vacant ELSE bs[j]]

DeleteAt(t, i) == [t EXCEPT !.buckets = BackShift(t.buckets, i), !.count = t.count - 1]

MayShrink(t) == NBuckets(t.buckets) > t.cap /\ t.count <= shrinkat(NBuckets(t.buckets))

Shrunk(t, h) == [t EXCEPT !.buckets = Rehash(t.buckets, h, NBuckets(t.buckets) \div 2)]

(* The items of a table, and the order in which hashmap_scan passes them.  *)
Occupied(bs) == {i \in DOMAIN bs : bs[i].dib # 0}

Contents(t) ==
  [k \in {t.buckets[i].key : i \in Occupied(t.buckets)} |->
     t.buckets[CHOOSE i \in Occupied(t.buckets) : t.buckets[i].key = k].val]

ScanLoop(bs) ==
  LET met[d \in 0 .. NBuckets(bs)] ==
        IF d = 0 THEN <<>>
        ELSE IF bs[d - 1].dib = 0 THEN met[d - 1] ELSE Append(met[d - 1], bs[d - 1].key)
  IN met

hashmap_scan(t) == ScanLoop(t.buckets)[NBuckets(t.buckets)]
=============================================================================
