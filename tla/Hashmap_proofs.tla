--------------------------- MODULE Hashmap_proofs ---------------------------
(***************************************************************************)
(* The hash table under any sequence of calls, for every set of keys and   *)
(* values, every hash function, every lower capacity and every MinCap: the *)
(* invariants of Hashmap and the refinement of the dictionary.             *)
(***************************************************************************)
EXTENDS Hashmap, RobinHood_proofs

(* The inductive invariant. *)
Inv ==
  /\ hash \in Hashes /\ ret \in Vals \cup {NoVal} /\ oom \in BOOLEAN
  /\ TableOK(table, hash, Keys, Vals)

-----------------------------------------------------------------------------
(* The invariant. *)

LEMMA HashType ==
  ASSUME NEW h \in Hashes
  PROVE  \A x \in Keys : h[x] \in Nat
BY HashmapAssumption

(* What a call of Delete that finds its key does. *)
LEMMA DeletesOne ==
  ASSUME Inv, NEW k \in Keys, Delete(k)
  PROVE  /\ TableOK(table', hash, Keys, Vals) /\ ret' \in Vals /\ Returns(ret', table.buckets, k)
         /\ Pairs(table'.buckets) = Pairs(table.buckets) \ {<<k, ret'>>}
<1> DEFINE bs == table.buckets
           e == ProbeEnd(bs, hash, k)
           removed == DeleteAt(table, e)
<1>1. /\ hash \in Hashes /\ TableOK(table, hash, Keys, Vals) /\ NoKey \notin Keys /\ NoVal \notin Vals
      /\ ret' = hashmap_get(table, hash, k) /\ ret' # NoVal
  BY HashmapAssumption DEF Inv, Delete
<1>2. \A x \in Keys : hash[x] \in Nat
  BY <1>1, HashType
<1>3. /\ Returns(ret', bs, k) /\ ret' \in Vals /\ e \in 0 .. NBuckets(bs) - 1 /\ bs[e].dib # 0
      /\ bs[e].key = k /\ bs[e].val = ret'
  BY <1>1, <1>2, GetOK
<1>4. TableOK(removed, hash, Keys, Vals) /\ Pairs(removed.buckets) = Pairs(bs) \ {<<k, ret'>>}
  <2> HIDE DEF e
  <2>1. Removed(DeleteAt(table, e), table, hash, Keys, Vals, e)
    BY <1>1, <1>2, <1>3, DeleteOK
  <2> QED
    BY <1>3, <2>1 DEF Removed
<1>5. table' = removed \/ (MayShrink(removed) /\ table' = Shrunk(removed, hash))
  BY DEF Delete
<1> HIDE DEF removed
<1>6. CASE table' = removed
  BY <1>3, <1>4, <1>6
<1>7. CASE MayShrink(removed) /\ table' = Shrunk(removed, hash)
  <2>1. /\ TableOK(Shrunk(removed, hash), hash, Keys, Vals)
        /\ Pairs(Shrunk(removed, hash).buckets) = Pairs(removed.buckets)
    BY <1>2, <1>4, <1>7, ShrunkOK
  <2> QED
    BY <1>3, <1>4, <1>7, <2>1
<1> QED
  BY <1>5, <1>6, <1>7

LEMMA InitInv == Init => Inv
<1> SUFFICES ASSUME Init PROVE Inv
  OBVIOUS
<1>1. PICK c \in Caps : table = hashmap_new(c)
  BY DEF Init
<1>2. RoundUp(c) \in Sizes
  BY HashmapAssumption, RoundUpIs
<1>3. TableOK(table, hash, Keys, Vals)
  BY <1>1, <1>2, NewTable DEF hashmap_new
<1> QED
  BY <1>3 DEF Init, Inv

LEMMA NextInv == Inv /\ [Next]_vars => Inv'
<1> SUFFICES ASSUME Inv, [Next]_vars PROVE Inv'
  OBVIOUS
<1>1. /\ hash \in Hashes /\ TableOK(table, hash, Keys, Vals) /\ ret \in Vals \cup {NoVal} /\ oom \in BOOLEAN
      /\ NoKey \notin Keys /\ NoVal \notin Vals
  BY HashmapAssumption DEF Inv
<1>2. \A x \in Keys : hash[x] \in Nat
  BY <1>1, HashType
<1>3. ASSUME NEW k \in Keys, NEW v \in Vals, Set(k, v) PROVE Inv'
  <2>1. /\ TableOK(hashmap_set(table, hash, k, v).table, hash, Keys, Vals)
        /\ hashmap_set(table, hash, k, v).ret \in Vals \cup {NoVal}
    <3>1. SetDone(hashmap_set(table, hash, k, v), table, hash, Keys, Vals, k, v)
      BY <1>1, <1>2, SetOK
    <3> QED
      BY <3>1 DEF SetDone
  <2> QED
    BY <1>1, <1>3, <2>1 DEF Set, Inv
<1>4. ASSUME NEW k \in Keys, NEW v \in Vals, SetFails(k, v) PROVE Inv'
  BY <1>1, <1>4 DEF SetFails, Inv
<1>5. ASSUME NEW k \in Keys, Get(k) PROVE Inv'
  <2>1. hashmap_get(table, hash, k) \in Vals \cup {NoVal}
    BY <1>1, <1>2, GetOK
  <2> QED
    BY <1>1, <1>5, <2>1 DEF Get, Inv
<1>6. ASSUME NEW k \in Keys, DeleteMissing(k) PROVE Inv'
  BY <1>1, <1>6 DEF DeleteMissing, Inv
<1>7. ASSUME NEW k \in Keys, Delete(k) PROVE Inv'
  <2>1. TableOK(table', hash, Keys, Vals) /\ ret' \in Vals
    BY <1>7, DeletesOne
  <2> QED
    BY <1>1, <1>7, <2>1 DEF Delete, Inv
<1>8. ASSUME NEW update_cap \in BOOLEAN, Clear(update_cap) PROVE Inv'
  <2> DEFINE n == IF update_cap THEN NBuckets(table.buckets) ELSE table.cap
  <2>1. n \in Sizes
    BY <1>1 DEF TableOK
  <2>2. table' = [cap |-> n, buckets |-> VacantBuckets(n), count |-> 0] /\ UNCHANGED <<hash, ret, oom>>
    BY <1>8 DEF Clear
  <2> HIDE DEF n
  <2>3. TableOK(table', hash, Keys, Vals)
    BY <2>1, <2>2, NewTable
  <2> QED
    BY <1>1, <2>2, <2>3 DEF Inv
<1>9. CASE UNCHANGED vars
  BY <1>1, <1>9 DEF vars, Inv
<1> QED
  BY <1>3, <1>4, <1>5, <1>6, <1>7, <1>8, <1>9 DEF Next

(* The array is sound, its count right and below the load limit after any  *)
(* calls, resizes that fail included.                                      *)
THEOREM Invariance == Spec => []Inv
BY InitInv, NextInv, PTL DEF Spec

-----------------------------------------------------------------------------
(* The properties of the runs. *)

LEMMA InvFacts ==
  ASSUME Inv
  PROVE  LET n == NBuckets(Buckets)
         IN /\ n \in Nat \ {0} /\ n > 1 /\ table.count \in Nat /\ table.cap \in Nat /\ n >= table.cap
            /\ Sound(Buckets, n, hash, Keys, Vals) /\ Buckets \in Array(n, Keys, Vals)
            /\ DOMAIN Buckets = 0 .. n - 1 /\ Occupied(Buckets) # DOMAIN Buckets
            /\ table.count = Cardinality(Occupied(Buckets))
            /\ hash \in Hashes /\ \A x \in Keys : hash[x] \in Nat
<1>1. TableOK(table, hash, Keys, Vals) /\ hash \in Hashes
  BY DEF Inv
<1>2. \A x \in Keys : hash[x] \in Nat
  BY <1>1, HashType
<1>3. NBuckets(table.buckets) >= table.cap /\ table.count = Cardinality(Occupied(table.buckets))
  BY <1>1 DEF TableOK
<1> QED
  BY <1>1, <1>2, <1>3, TableFacts DEF Buckets

(* Every bucket is vacant or holds an item whose dib is a distance on the  *)
(* ring plus one.                                                          *)
THEOREM TypeCorrect == Spec => []TypeOK
<1>1. ASSUME Inv PROVE TypeOK
  <2> DEFINE n == NBuckets(Buckets)
  <2>1. /\ n \in Nat \ {0} /\ table.count \in Nat /\ table.cap \in Nat
        /\ Sound(Buckets, n, hash, Keys, Vals) /\ Buckets \in Array(n, Keys, Vals)
        /\ DOMAIN Buckets = 0 .. n - 1 /\ \A x \in Keys : hash[x] \in Nat
    BY <1>1, InvFacts
  <2> HIDE DEF n
  <2>2. ASSUME NEW i \in 0 .. n - 1
        PROVE  Buckets[i] = Vacant \/ Buckets[i] \in [dib : 1 .. n, key : Keys, val : Vals]
    <3>1. CASE Buckets[i].dib = 0
      BY <2>1, <3>1 DEF Sound, Cleared
    <3>2. CASE Buckets[i].dib # 0
      <4> DEFINE b == Buckets[i]
                 a == hash[b.key] % n
      <4>1. b.key \in Keys /\ b.val \in Vals /\ b.dib = Back(i, a, n) + 1
        BY <2>1, <3>2 DEF Sound, Placed
      <4>2. a \in 0 .. n - 1
        BY <2>1, <4>1, RemainderType
      <4>3. b \in Bucket(Keys, Vals)
        BY <2>1 DEF Array
      <4> HIDE DEF a, b
      <4>4. b.dib \in 1 .. n
        <5>1. Back(i, a, n) \in 0 .. n - 1
          BY <2>1, <4>2, Reached
        <5> QED
          BY <2>1, <4>1, <5>1
      <4> QED
        BY <4>1, <4>3, <4>4 DEF Bucket, b
    <3> QED
      BY <3>1, <3>2
  <2> QED
    BY <1>1, <2>1, <2>2 DEF TypeOK, Inv, n
<1> QED
  BY <1>1, Invariance, PTL

(* The Robin Hood order holds after any calls. *)
THEOREM OrderKept == Spec => []RobinHoodOrder
<1>1. ASSUME Inv PROVE RobinHoodOrder
  <2> DEFINE n == NBuckets(Buckets)
  <2>1. /\ n \in Nat \ {0} /\ n > 1 /\ Sound(Buckets, n, hash, Keys, Vals)
        /\ DOMAIN Buckets = 0 .. n - 1 /\ \A x \in Keys : hash[x] \in Nat
    BY <1>1, InvFacts
  <2> SUFFICES ASSUME NEW i \in Occupied(Buckets)
               PROVE  /\ Buckets[i].dib = ((i + n - Home(hash, Buckets, Buckets[i].key)) % n) + 1
                      /\ Buckets[i].dib <= Buckets[(i + n - 1) % n].dib + 1
    BY DEF RobinHoodOrder
  <2> DEFINE a == hash[Buckets[i].key] % n
  <2>2. Home(hash, Buckets, Buckets[i].key) = a
    BY DEF Home
  <2> HIDE DEF n
  <2>3. i \in 0 .. n - 1 /\ Buckets[i].dib # 0
    BY <2>1 DEF Occupied
  <2>4. /\ Buckets[i].key \in Keys /\ Buckets[i].dib = Back(i, a, n) + 1
        /\ Buckets[i].dib <= Buckets[Back(i, 1, n)].dib + 1
    BY <2>1, <2>3 DEF Sound, Placed, Ordered
  <2>5. a \in 0 .. n - 1 /\ 1 \in 0 .. n - 1
    <3>1. hash[Buckets[i].key] \in Nat
      BY <2>1, <2>4
    <3>2. a \in 0 .. n - 1
      BY <2>1, <3>1, RemainderType
    <3> QED
      BY <2>1, <3>2
  <2> HIDE DEF a
  <2>6. (i + n - a) % n = Back(i, a, n)
    BY <2>1, <2>3, <2>5, Ring
  <2>7. (i + n - 1) % n = Back(i, 1, n)
    BY <2>1, <2>3, <2>5, Ring
  <2> QED
    BY <2>2, <2>4, <2>6, <2>7
<1> QED
  BY <1>1, Invariance, PTL

(* There is always a vacant bucket, so that every probe ends, because the  *)
(* table is never beyond its load limit, whatever was refused memory.      *)
THEOREM VacancyKept == Spec => []ProbesEnd
<1>1. ASSUME Inv PROVE ProbesEnd
  <2>1. table.count <= growat(NBuckets(Buckets))
    BY <1>1 DEF Inv, TableOK, Buckets
  <2>2. Occupied(Buckets) # DOMAIN Buckets
    BY <1>1, InvFacts
  <2> QED
    BY <2>1, <2>2 DEF ProbesEnd
<1> QED
  BY <1>1, Invariance, PTL

(* The count is right and a scan meets each item once. *)
THEOREM ScanComplete == Spec => []ScanMeetsEachOnce
<1>1. ASSUME Inv PROVE ScanMeetsEachOnce
  <2>1. /\ NBuckets(Buckets) \in Nat \ {0} /\ table.count = Cardinality(Occupied(Buckets))
        /\ Sound(table.buckets, NBuckets(Buckets), hash, Keys, Vals)
    BY <1>1, InvFacts DEF Buckets
  <2>2. ScanExact(table)
    BY <2>1, ScanOnce
  <2> QED
    BY <2>1, <2>2 DEF ScanExact, ScanMeetsEachOnce, Buckets
<1> QED
  BY <1>1, Invariance, PTL

(* No call makes the table smaller than its lower capacity. *)
THEOREM CapacityKept == Spec => []NeverBelowCap
<1>1. Inv => NeverBelowCap
  BY InvFacts DEF NeverBelowCap
<1> QED
  BY <1>1, Invariance, PTL

-----------------------------------------------------------------------------
(***************************************************************************)
(* The dictionary that an array stands for.                                *)
(***************************************************************************)
Denotes(f, bs) ==
  /\ f = [x \in DOMAIN f |-> f[x]]
  /\ \A x : x \in DOMAIN f <=> Has(bs, x)
  /\ \A x, y : <<x, y>> \in Pairs(bs) => f[x] = y

LEMMA ContentsDenote ==
  ASSUME NEW h, NEW K, NEW V, NEW t, TableOK(t, h, K, V)
  PROVE  Denotes(Contents(t), t.buckets)
<1> DEFINE n == NBuckets(t.buckets)
           bs == t.buckets
           f == Contents(t)
           Dom == {bs[i].key : i \in Occupied(bs)}
           At1(k) == CHOOSE i \in Occupied(bs) : bs[i].key = k
<1>1. Sound(bs, n, h, K, V) /\ DOMAIN bs = 0 .. n - 1 /\ n \in Nat
  BY TableFacts
<1>2. f = [k \in Dom |-> bs[At1(k)].val]
  BY DEF Contents
<1> HIDE DEF n, bs, f, At1
<1>3. Stored(bs, n)
  BY <1>1, PairsAre
<1>4. \A i : i \in Occupied(bs) <=> i \in 0 .. n - 1 /\ bs[i].dib # 0
  BY <1>1, OccupiedIs
<1>5. DOMAIN f = Dom
  BY <1>2
<1>6. \A x : x \in Dom <=> Has(bs, x)
  <2> SUFFICES ASSUME NEW x PROVE x \in Dom <=> Has(bs, x)
    OBVIOUS
  <2>1. ASSUME x \in Dom PROVE Has(bs, x)
    <3>1. PICK i \in Occupied(bs) : bs[i].key = x
      BY <2>1
    <3>2. <<x, bs[i].val>> \in Pairs(bs)
      BY <1>3, <1>4, <3>1 DEF Stored
    <3> QED
      BY <3>2 DEF Has
  <2>2. ASSUME Has(bs, x) PROVE x \in Dom
    <3>1. PICK y : <<x, y>> \in Pairs(bs)
      BY <2>2 DEF Has
    <3>2. PICK i \in 0 .. n - 1 : bs[i].dib # 0 /\ bs[i].key = x
      BY <1>3, <3>1 DEF Stored
    <3> QED
      BY <1>4, <3>2
  <2> QED
    BY <2>1, <2>2
<1>7. ASSUME NEW x, NEW y, <<x, y>> \in Pairs(bs) PROVE f[x] = y
  <2>1. PICK i \in 0 .. n - 1 : bs[i].dib # 0 /\ bs[i].key = x /\ bs[i].val = y
    BY <1>3, <1>7 DEF Stored
  <2>2. i \in Occupied(bs) /\ x \in Dom
    BY <1>4, <2>1
  <2>3. At1(x) \in Occupied(bs) /\ bs[At1(x)].key = x
    BY <2>1, <2>2 DEF At1
  <2>4. At1(x) = i
    BY <1>1, <1>4, <2>1, <2>3 DEF Sound, KeysOnce
  <2> QED
    BY <1>2, <2>1, <2>2, <2>4
<1> QED
  BY <1>2, <1>5, <1>6, <1>7 DEF Denotes, f, bs

LEMMA SameContents ==
  ASSUME NEW f, NEW g, NEW bs, NEW new, Denotes(f, bs), Denotes(g, new), Pairs(new) = Pairs(bs)
  PROVE  g = f
<1>1. \A x : Has(new, x) <=> Has(bs, x)
  BY DEF Has
<1>2. DOMAIN g = DOMAIN f
  BY <1>1 DEF Denotes
<1>3. ASSUME NEW x \in DOMAIN f PROVE g[x] = f[x]
  <2>1. PICK y : <<x, y>> \in Pairs(bs)
    BY DEF Denotes, Has
  <2> QED
    BY <2>1 DEF Denotes
<1> QED
  BY <1>2, <1>3 DEF Denotes

LEMMA LookupIs ==
  ASSUME NEW f, NEW bs, Denotes(f, bs), NEW k, NEW r, Returns(r, bs, k)
  PROVE  r = IF k \in DOMAIN f THEN f[k] ELSE NoVal
<1>1. CASE Has(bs, k)
  <2>1. PICK y : <<k, y>> \in Pairs(bs)
    BY <1>1 DEF Has
  <2>2. r = y /\ f[k] = y /\ k \in DOMAIN f
    BY <1>1, <2>1 DEF Returns, Denotes
  <2> QED
    BY <2>2
<1>2. CASE ~Has(bs, k)
  BY <1>2 DEF Returns, Denotes
<1> QED
  BY <1>1, <1>2

WithKey(g, f, k, v) == g = [x \in DOMAIN f \cup {k} |-> IF x = k THEN v ELSE f[x]]

WithoutKey(g, f, k) == g = [x \in DOMAIN f \ {k} |-> f[x]]

LEMMA SetContents ==
  ASSUME NEW f, NEW g, NEW bs, NEW new, Denotes(f, bs), Denotes(g, new),
         NEW k, NEW v, SetPairs(new, bs, k, v)
  PROVE  WithKey(g, f, k, v)
<1>1. ASSUME NEW x PROVE x \in DOMAIN g <=> x \in DOMAIN f \cup {k}
  <2>1. Has(new, x) <=> Has(bs, x) \/ x = k
    BY DEF Has, SetPairs
  <2> QED
    BY <2>1 DEF Denotes
<1>2. g[k] = v
  BY DEF Denotes, SetPairs
<1>3. ASSUME NEW x \in DOMAIN f, x # k PROVE g[x] = f[x]
  <2>1. PICK y : <<x, y>> \in Pairs(bs)
    BY DEF Denotes, Has
  <2>2. <<x, y>> \in Pairs(new)
    BY <1>3, <2>1 DEF SetPairs
  <2> QED
    BY <2>1, <2>2 DEF Denotes
<1>4. DOMAIN g = DOMAIN f \cup {k}
  BY <1>1
<1>5. g = [x \in DOMAIN g |-> g[x]]
  BY DEF Denotes
<1> QED
  BY <1>2, <1>3, <1>4, <1>5 DEF WithKey

LEMMA DeleteContents ==
  ASSUME NEW f, NEW g, NEW bs, NEW new, Denotes(f, bs), Denotes(g, new),
         NEW k, NEW v, Returns(v, bs, k), Pairs(new) = Pairs(bs) \ {<<k, v>>}
  PROVE  WithoutKey(g, f, k)
<1>1. \A x, y : <<x, y>> \in Pairs(new) <=> x # k /\ <<x, y>> \in Pairs(bs)
  BY DEF Returns
<1>2. ASSUME NEW x PROVE x \in DOMAIN g <=> x \in DOMAIN f \ {k}
  <2>1. Has(new, x) <=> Has(bs, x) /\ x # k
    BY <1>1 DEF Has
  <2> QED
    BY <2>1 DEF Denotes
<1>3. ASSUME NEW x \in DOMAIN f, x # k PROVE g[x] = f[x]
  <2>1. PICK y : <<x, y>> \in Pairs(bs)
    BY DEF Denotes, Has
  <2>2. <<x, y>> \in Pairs(new)
    BY <1>1, <1>3, <2>1
  <2> QED
    BY <2>1, <2>2 DEF Denotes
<1>4. DOMAIN g = DOMAIN f \ {k}
  BY <1>2
<1>5. g = [x \in DOMAIN g |-> g[x]]
  BY DEF Denotes
<1> QED
  BY <1>3, <1>4, <1>5 DEF WithoutKey

LEMMA EmptyContents ==
  ASSUME NEW f, NEW bs, Denotes(f, bs), Pairs(bs) = {}
  PROVE  f = [k \in {} |-> NoVal]
<1>1. DOMAIN f = {}
  BY DEF Denotes, Has
<1>2. f = [x \in DOMAIN f |-> f[x]]
  BY DEF Denotes
<1> QED
  BY <1>1, <1>2

LEMMA InvDenotes == Inv => Denotes(Contents(table), table.buckets)
BY ContentsDenote DEF Inv

(* Each call does to the dictionary what DictSpec says, and returns what   *)
(* it says: resizes, moved items and failed allocations do not show.       *)
LEMMA DictStep ==
  ASSUME Inv, [Next]_vars, Inv'
  PROVE  [D!Next]_(D!vars)
<1> DEFINE f == Contents(table)
           g == Contents(table')
<1>1. /\ hash \in Hashes /\ TableOK(table, hash, Keys, Vals)
      /\ NoKey \notin Keys /\ NoVal \notin Vals
  BY HashmapAssumption DEF Inv
<1>2. \A x \in Keys : hash[x] \in Nat
  BY <1>1, HashType
<1>3. Denotes(f, table.buckets)
  BY InvDenotes
<1>4. Denotes(g, table'.buckets)
  <2>1. TableOK(table', hash', Keys, Vals)
    BY DEF Inv
  <2> QED
    BY <2>1, ContentsDenote
<1>5. ASSUME NEW k \in Keys, NEW v \in Vals, Set(k, v) PROVE D!Set(k, v)
  <2>1. SetPairs(table'.buckets, table.buckets, k, v) /\ Returns(ret', table.buckets, k)
    <3>1. SetDone(hashmap_set(table, hash, k, v), table, hash, Keys, Vals, k, v)
      BY <1>1, <1>2, SetOK
    <3> QED
      BY <1>5, <3>1 DEF Set, SetDone
  <2>2. g = [x \in DOMAIN f \cup {k} |-> IF x = k THEN v ELSE f[x]]
    <3>1. WithKey(g, f, k, v)
      BY <1>3, <1>4, <2>1, SetContents
    <3> QED
      BY <3>1 DEF WithKey
  <2>3. ret' = IF k \in DOMAIN f THEN f[k] ELSE NoVal
    BY <1>3, <2>1, LookupIs
  <2> QED
    BY <1>5, <2>2, <2>3 DEF Set, D!Set, D!Lookup
<1>6. ASSUME NEW k \in Keys, NEW v \in Vals, SetFails(k, v) PROVE D!SetFails
  BY <1>6 DEF SetFails, D!SetFails
<1>7. ASSUME NEW k \in Keys, Get(k) PROVE D!Get(k)
  <2>1. Returns(ret', table.buckets, k)
    BY <1>1, <1>2, <1>7, GetOK DEF Get
  <2>2. ret' = IF k \in DOMAIN f THEN f[k] ELSE NoVal
    BY <1>3, <2>1, LookupIs
  <2> QED
    BY <1>7, <2>2 DEF Get, D!Get, D!Lookup
<1>8. ASSUME NEW k \in Keys, DeleteMissing(k) PROVE D!Delete(k)
  <2>1. ~Has(table.buckets, k)
    BY <1>1, <1>2, <1>8, GetOK DEF DeleteMissing
  <2>2. k \notin DOMAIN f /\ f = [x \in DOMAIN f |-> f[x]]
    BY <1>3, <2>1 DEF Denotes
  <2>3. f = [x \in DOMAIN f \ {k} |-> f[x]]
    <3> HIDE DEF f
    <3>1. DOMAIN f \ {k} = DOMAIN f
      BY <2>2
    <3> QED
      BY <2>2, <3>1
  <2> QED
    BY <1>8, <2>2, <2>3 DEF DeleteMissing, D!Delete, D!Lookup
<1>9. ASSUME NEW k \in Keys, Delete(k) PROVE D!Delete(k)
  <2>1. /\ Returns(ret', table.buckets, k)
        /\ Pairs(table'.buckets) = Pairs(table.buckets) \ {<<k, ret'>>}
    BY <1>9, DeletesOne
  <2>2. g = [x \in DOMAIN f \ {k} |-> f[x]]
    <3>1. WithoutKey(g, f, k)
      BY <1>3, <1>4, <2>1, DeleteContents
    <3> QED
      BY <3>1 DEF WithoutKey
  <2>3. ret' = IF k \in DOMAIN f THEN f[k] ELSE NoVal
    BY <1>3, <2>1, LookupIs
  <2> QED
    BY <1>9, <2>2, <2>3 DEF Delete, D!Delete, D!Lookup
<1>10. ASSUME NEW update_cap \in BOOLEAN, Clear(update_cap) PROVE D!Clear
  <2> DEFINE n == IF update_cap THEN NBuckets(table.buckets) ELSE table.cap
  <2>1. n \in Sizes
    BY <1>1 DEF TableOK
  <2>2. table' = [cap |-> n, buckets |-> VacantBuckets(n), count |-> 0] /\ UNCHANGED <<ret, oom>>
    BY <1>10 DEF Clear
  <2> HIDE DEF n
  <2>3. Pairs(table'.buckets) = {}
    BY <2>1, <2>2, NewTable
  <2>4. g = [k \in {} |-> NoVal]
    BY <1>4, <2>3, EmptyContents
  <2> QED
    BY <2>2, <2>4 DEF D!Clear
<1>11. CASE UNCHANGED vars
  BY <1>11 DEF vars, D!vars
<1> QED
  BY <1>5, <1>6, <1>7, <1>8, <1>9, <1>10, <1>11 DEF Next, D!Next

(* The hash table implements the dictionary. *)
THEOREM DictRefined == Spec => ImplementsDict
<1>1. Init => D!Init
  <2> SUFFICES ASSUME Init PROVE D!Init
    OBVIOUS
  <2>1. PICK c \in Caps : table = hashmap_new(c)
    BY DEF Init
  <2>2. RoundUp(c) \in Sizes
    BY HashmapAssumption, RoundUpIs
  <2>3. Pairs(table.buckets) = {}
    BY <2>1, <2>2, NewTable DEF hashmap_new
  <2>4. Denotes(Contents(table), table.buckets)
    BY InitInv, InvDenotes
  <2>5. Contents(table) = [k \in {} |-> NoVal]
    BY <2>3, <2>4, EmptyContents
  <2> QED
    BY <2>5 DEF Init, D!Init
<1>2. Inv /\ [Next]_vars /\ Inv' => [D!Next]_(D!vars)
  BY DictStep
<1> QED
  BY <1>1, <1>2, Invariance, PTL DEF Spec, D!Spec, ImplementsDict
=============================================================================
