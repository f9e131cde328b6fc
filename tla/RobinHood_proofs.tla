-------------------------- MODULE RobinHood_proofs --------------------------
(***************************************************************************)
(* What the operations of the hash table do to a sound table, for every    *)
(* number of buckets, every set of keys and values and every hash          *)
(* function.  A loop is a recursive function of the number of its rounds;  *)
(* its invariant is shown by induction on that number.                     *)
(***************************************************************************)
EXTENDS RobinHood, FiniteSetTheorems, WellFoundedInduction, TLAPS

-----------------------------------------------------------------------------
(* Induction and recursion over numbers. *)

LEMMA Least ==
  ASSUME NEW S \in SUBSET Nat, S # {}
  PROVE  \E m \in S : \A k \in S : m <= k
<1> DEFINE R == OpToRel(<, Nat)
<1>1. IsWellFoundedOn(R, Nat)
  BY NatLessThanWellFounded, Zenon
<1>2. \A x, y \in Nat : y < x => <<y, x>> \in R
  BY DEF OpToRel
<1> HIDE DEF R
<1>3. PICK m \in S : \A k \in S : ~(<<k, m>> \in R)
  BY <1>1, WFMin, Zenon
<1>4. ASSUME NEW k \in S PROVE m <= k
  <2>1. ~(k < m)
    BY <1>2, <1>3, Zenon
  <2> QED
    BY <2>1
<1> QED
  BY <1>4

(* Induction, with the set of the numbers that have the property. *)
LEMMA Induction ==
  ASSUME NEW S, 0 \in S, \A d \in Nat : d \in S => d + 1 \in S
  PROVE  \A d \in Nat : d \in S
<1> SUFFICES ASSUME Nat \ S # {} PROVE FALSE
  OBVIOUS
<1>1. PICK m \in Nat \ S : \A k \in Nat \ S : m <= k
  BY Least
<1>2. m # 0 /\ m - 1 \in Nat /\ ~(m <= m - 1)
  BY <1>1
<1>3. m - 1 \in S
  BY <1>1, <1>2
<1>4. m - 1 + 1 = m
  BY <1>1
<1> QED
  BY <1>1, <1>2, <1>3, <1>4

(* The first rounds of a loop with the body F from the state b. *)
Rounds(g, b, F, n) == g = [d \in 0 .. n |-> IF d = 0 THEN b ELSE F[d][g[d - 1]]]

(* A loop of n rounds, whose body keeps its state in S, has a run. *)
LEMMA Recursion ==
  ASSUME NEW S, NEW b \in S, NEW n \in Nat, NEW F \in [1 .. n -> [S -> S]]
  PROVE  \E g \in [0 .. n -> S] : Rounds(g, b, F, n)
<1> DEFINE Has(m) == \E g \in [0 .. m -> S] : Rounds(g, b, F, m)
           T == {m \in Nat : m <= n => Has(m)}
<1>1. Has(0)
  <2> DEFINE g == [d \in 0 .. 0 |-> b]
  <2>1. g \in [0 .. 0 -> S]
    OBVIOUS
  <2>2. g = [d \in 0 .. 0 |-> IF d = 0 THEN b ELSE F[d][g[d - 1]]]
    OBVIOUS
  <2> QED
    BY <2>1, <2>2 DEF Rounds
<1>2. ASSUME NEW m \in Nat, m \in T PROVE m + 1 \in T
  <2> SUFFICES ASSUME m + 1 <= n PROVE Has(m + 1)
    OBVIOUS
  <2>1. PICK g \in [0 .. m -> S] : Rounds(g, b, F, m)
    BY <1>2
  <2> DEFINE f == [d \in 0 .. m + 1 |-> IF d <= m THEN g[d] ELSE F[d][g[m]]]
  <2>2. F[m + 1][g[m]] \in S
    OBVIOUS
  <2>3. f \in [0 .. m + 1 -> S]
    BY <2>2
  <2>4. \A d \in 0 .. m : g[d] = IF d = 0 THEN b ELSE F[d][g[d - 1]]
    BY <2>1, Zenon DEF Rounds
  <2>5. ASSUME NEW d \in 0 .. m + 1
        PROVE  f[d] = IF d = 0 THEN b ELSE F[d][f[d - 1]]
    <3>1. CASE d = 0
      BY <2>4, <3>1
    <3>2. CASE d # 0 /\ d <= m
      <4>1. d - 1 \in 0 .. m + 1 /\ d - 1 <= m /\ d \in 0 .. m
        BY <3>2
      <4> QED
        BY <2>4, <3>2, <4>1
    <3>3. CASE d = m + 1
      <4>1. d - 1 = m /\ ~(d <= m) /\ d # 0 /\ m \in 0 .. m + 1 /\ m <= m
        BY <3>3
      <4> QED
        BY <4>1
    <3> QED
      BY <3>1, <3>2, <3>3
  <2>6. Rounds(f, b, F, m + 1)
    <3> HIDE DEF f
    <3>1. f = [d \in 0 .. m + 1 |-> f[d]]
      BY <2>3
    <3> QED
      BY <2>5, <3>1 DEF Rounds
  <2> QED
    BY <2>3, <2>6
<1>3. \A m \in Nat : m \in T
  <2>1. 0 \in T
    BY <1>1
  <2> HIDE DEF T
  <2> QED
    BY <1>2, <2>1, Induction
<1> QED
  BY <1>3

-----------------------------------------------------------------------------
(* Positions on the ring of n buckets, without the remainder. *)

At(a, d, n) == IF a + d < n THEN a + d ELSE a + d - n

Back(i, d, n) == IF i >= d THEN i - d ELSE i + n - d

LEMMA Wrap ==
  ASSUME NEW n \in Nat \ {0}, NEW a \in 0 .. n + n - 1
  PROVE  a % n = IF a < n THEN a ELSE a - n
<1>1. CASE a < n
  <2>1. a \in 0 .. n - 1
    BY <1>1
  <2> QED
    BY <1>1, <2>1
<1>2. CASE ~(a < n)
  <2>1. a - n \in 0 .. n - 1 /\ a = n * 1 + (a - n)
    BY <1>2
  <2> QED
    BY <1>2, <2>1
<1> QED
  BY <1>1, <1>2

LEMMA RemainderType ==
  ASSUME NEW n \in Nat \ {0}, NEW x \in Nat
  PROVE  x % n \in 0 .. n - 1
OBVIOUS

LEMMA Ring ==
  ASSUME NEW n \in Nat \ {0}, NEW i \in 0 .. n - 1, NEW d \in 0 .. n - 1
  PROVE  /\ At(i, d, n) \in 0 .. n - 1 /\ (i + d) % n = At(i, d, n)
         /\ Back(i, d, n) \in 0 .. n - 1 /\ (i + n - d) % n = Back(i, d, n)
<1> DEFINE x == i + d
           y == i + n - d
<1>1. x \in 0 .. n + n - 1 /\ y \in 0 .. n + n - 1
  OBVIOUS
<1> HIDE DEF x, y
<1>2. x % n = IF x < n THEN x ELSE x - n
  BY <1>1, Wrap
<1>3. y % n = IF y < n THEN y ELSE y - n
  BY <1>1, Wrap
<1> USE DEF x, y
<1> QED
  BY <1>2, <1>3 DEF At, Back

-----------------------------------------------------------------------------
(* Types. *)

Bucket(K, V) == [dib : Nat, key : K \cup {NoKey}, val : V \cup {NoVal}]

Array(n, K, V) == [0 .. n - 1 -> Bucket(K, V)]

LEMMA ArraySize ==
  ASSUME NEW n \in Nat, NEW bs, DOMAIN bs = 0 .. n - 1
  PROVE  NBuckets(bs) = n
<1>1. Cardinality(0 .. n - 1) = n
  <2>1. CASE n = 0
    <3>1. 0 .. n - 1 = {}
      BY <2>1
    <3> QED
      BY <2>1, <3>1, FS_EmptySet
  <2>2. CASE n # 0
    <3>1. 0 \in Int /\ n - 1 \in Int /\ ~(0 > n - 1) /\ n - 1 - 0 + 1 = n
      BY <2>2
    <3> QED
      BY <3>1, FS_Interval
  <2> QED
    BY <2>1, <2>2
<1> QED
  BY <1>1 DEF NBuckets

(* The state of the loop that looks for a place. *)
Search(n, K, V) ==
  [bs : Array(n, K, V), e : Bucket(K, V), found : {"no", "new", "same"}, old : V \cup {NoVal}]

LEMMA PlaceStepType ==
  ASSUME NEW n \in Nat \ {0}, NEW K, NEW V, NEW s \in Search(n, K, V), NEW i \in 0 .. n - 1, NEW compares
  PROVE  PlaceStep(s, i, compares) \in Search(n, K, V)
<1>1. /\ s.bs \in Array(n, K, V) /\ s.e \in Bucket(K, V) /\ s.bs[i] \in Bucket(K, V)
      /\ s.old \in V \cup {NoVal}
  BY DEF Search, Array
<1>2. [s EXCEPT !.bs[i] = s.e, !.found = "new"] \in Search(n, K, V)
  BY <1>1 DEF Search, Array
<1>3. [s EXCEPT !.bs[i].val = s.e.val, !.found = "same", !.old = s.bs[i].val] \in Search(n, K, V)
  <2>1. [s.bs EXCEPT ![i].val = s.e.val] \in Array(n, K, V)
    BY <1>1 DEF Array, Bucket
  <2>2. s.bs[i].val \in V \cup {NoVal}
    BY <1>1 DEF Bucket
  <2> QED
    BY <2>1, <2>2 DEF Search
<1>4. [s EXCEPT !.bs[i] = s.e, !.e = [s.bs[i] EXCEPT !.dib = s.bs[i].dib + 1]] \in Search(n, K, V)
  <2>1. [s.bs[i] EXCEPT !.dib = s.bs[i].dib + 1] \in Bucket(K, V)
    BY <1>1 DEF Bucket
  <2> QED
    BY <1>1, <2>1 DEF Search, Array
<1>5. [s EXCEPT !.e.dib = s.e.dib + 1] \in Search(n, K, V)
  <2>1. [s.e EXCEPT !.dib = s.e.dib + 1] \in Bucket(K, V)
    BY <1>1 DEF Bucket
  <2> QED
    BY <2>1 DEF Search
<1> QED
  BY <1>2, <1>3, <1>4, <1>5 DEF PlaceStep

SearchStart(bs, k, v) ==
  [bs |-> bs, e |-> [dib |-> 1, key |-> k, val |-> v], found |-> "no", old |-> NoVal]

(* The rounds of the loop of Place, one after the other. *)
LEMMA PlaceRounds ==
  ASSUME NEW n \in Nat \ {0}, NEW K, NEW V, NEW bs \in Array(n, K, V), NEW h,
         NEW k \in K, NEW v \in V, h[k] \in Nat, NEW compares
  PROVE  LET f == PlaceLoop(bs, h, k, v, compares)
         IN /\ f \in [0 .. n -> Search(n, K, V)]
            /\ f[0] = SearchStart(bs, k, v)
            /\ \A d \in 0 .. n - 1 : f[d + 1] = PlaceStep(f[d], At(h[k] % n, d, n), compares)
            /\ Place(bs, h, k, v, compares) = f[n]
<1> DEFINE f == PlaceLoop(bs, h, k, v, compares)
           S == Search(n, K, V)
           a == h[k] % n
           b == SearchStart(bs, k, v)
           F == [d \in 1 .. n |-> [s \in S |-> PlaceStep(s, (a + d - 1) % n, compares)]]
<1>1. NBuckets(bs) = n
  BY ArraySize DEF Array
<1>2. a \in 0 .. n - 1
  BY RemainderType
<1>3. b \in S
  BY DEF SearchStart, Search, Bucket
<1>4. F \in [1 .. n -> [S -> S]]
  <2> SUFFICES ASSUME NEW d \in 1 .. n, NEW s \in S
               PROVE  PlaceStep(s, (a + d - 1) % n, compares) \in S
    OBVIOUS
  <2>1. (a + d - 1) % n \in 0 .. n - 1
    BY <1>2, RemainderType
  <2> QED
    BY <2>1, PlaceStepType
<1>5. PICK g \in [0 .. n -> S] : Rounds(g, b, F, n)
  <2> HIDE DEF S, b, F
  <2> QED
    BY <1>3, <1>4, Recursion
<1> DEFINE Body(s) == [d \in 0 .. NBuckets(bs) |->
             IF d = 0 THEN b ELSE PlaceStep(s[d - 1], (Home(h, bs, k) + d - 1) % NBuckets(bs), compares)]
<1>6. \A s : Body(s) = [d \in 0 .. n |-> IF d = 0 THEN b ELSE PlaceStep(s[d - 1], (a + d - 1) % n, compares)]
  BY <1>1 DEF Home
<1>7. g = Body(g)
  <2>1. \A d \in 0 .. n : d # 0 => g[d - 1] \in S /\ F[d][g[d - 1]] = PlaceStep(g[d - 1], (a + d - 1) % n, compares)
    OBVIOUS
  <2>2. g = [d \in 0 .. n |-> IF d = 0 THEN b ELSE F[d][g[d - 1]]]
    BY <1>5 DEF Rounds
  <2> HIDE DEF F, a, b, Body
  <2> QED
    BY <1>6, <2>1, <2>2
<1>8. f = Body(f)
  <2>1. f = CHOOSE s : s = Body(s)
    BY DEF PlaceLoop, SearchStart
  <2> HIDE DEF f, Body
  <2> QED
    BY <1>7, <2>1, Zenon
<1>9. f = [d \in 0 .. n |-> IF d = 0 THEN b ELSE PlaceStep(f[d - 1], (a + d - 1) % n, compares)]
  <2> HIDE DEF f, Body, a, b
  <2> QED
    BY <1>6, <1>8, Zenon
<1> DEFINE T == {d \in Nat : d <= n => f[d] \in S}
<1>10. f[0] = b /\ \A d \in 0 .. n - 1 : f[d + 1] = PlaceStep(f[d], At(a, d, n), compares)
  <2> HIDE DEF f, a, b
  <2>1. f[0] = b
    BY <1>9
  <2>2. ASSUME NEW d \in 0 .. n - 1 PROVE f[d + 1] = PlaceStep(f[d], At(a, d, n), compares)
    <3>1. d + 1 \in 0 .. n /\ d + 1 # 0 /\ d + 1 - 1 = d /\ a + (d + 1) - 1 = a + d
      BY <1>2
    <3>2. f[d + 1] = PlaceStep(f[d], (a + d) % n, compares)
      BY <1>9, <3>1
    <3> QED
      BY <1>2, <3>2, Ring
  <2> QED
    BY <2>1, <2>2
<1>11. \A d \in Nat : d \in T
  <2> HIDE DEF f, a, b, S
  <2>1. 0 \in T
    BY <1>3, <1>10
  <2>2. ASSUME NEW d \in Nat, d \in T PROVE d + 1 \in T
    <3> SUFFICES ASSUME d + 1 <= n PROVE f[d + 1] \in S
      OBVIOUS
    <3>1. d \in 0 .. n - 1 /\ f[d] \in S
      BY <2>2
    <3>2. At(a, d, n) \in 0 .. n - 1
      BY <1>2, <3>1, Ring
    <3> QED
      BY <1>10, <3>1, <3>2, PlaceStepType DEF S
  <2> HIDE DEF T
  <2> QED
    BY <2>1, <2>2, Induction
<1>12. f \in [0 .. n -> S]
  <2> HIDE DEF f, a, b, S
  <2> QED
    BY <1>9, <1>11
<1> QED
  <2>1. Place(bs, h, k, v, compares) = f[n]
    BY <1>1 DEF Place
  <2> QED
    BY <1>10, <1>12, <2>1

-----------------------------------------------------------------------------
(***************************************************************************)
(* A sound array of n buckets: every item is as far from its home as its   *)
(* dib says, no item is more than one step further from home than the one  *)
(* before it, and no key is stored twice.                                  *)
(***************************************************************************)
Cleared(bs, n) == \A i \in 0 .. n - 1 : bs[i].dib = 0 => bs[i] = Vacant

Placed(bs, n, h, K, V) ==
  \A i \in 0 .. n - 1 : bs[i].dib # 0 =>
    bs[i].key \in K /\ bs[i].val \in V /\ bs[i].dib = Back(i, h[bs[i].key] % n, n) + 1

Ordered(bs, n) == \A i \in 0 .. n - 1 : bs[i].dib # 0 => bs[i].dib <= bs[Back(i, 1, n)].dib + 1

KeysOnce(bs, n) ==
  \A i, j \in 0 .. n - 1 : bs[i].dib # 0 /\ bs[j].dib # 0 /\ bs[i].key = bs[j].key => i = j

Sound(bs, n, h, K, V) ==
  /\ bs \in Array(n, K, V)
  /\ Cleared(bs, n) /\ Placed(bs, n, h, K, V) /\ Ordered(bs, n) /\ KeysOnce(bs, n)

Pairs(bs) == {<<bs[i].key, bs[i].val>> : i \in Occupied(bs)}

LEMMA OccupiedIs ==
  ASSUME NEW n \in Nat, NEW bs, DOMAIN bs = 0 .. n - 1
  PROVE  \A i : i \in Occupied(bs) <=> i \in 0 .. n - 1 /\ bs[i].dib # 0
BY DEF Occupied

LEMMA BackOne ==
  ASSUME NEW n \in Nat \ {0}, NEW i \in 0 .. n - 1
  PROVE  Back(i, 1, n) \in 0 .. n - 1
BY DEF Back

(* An entry takes the place of a bucket that is vacant or closer to home. *)
LEMMA PutSound ==
  ASSUME NEW n \in Nat \ {0}, NEW h, NEW K, NEW V, NEW bs, Sound(bs, n, h, K, V),
         NEW p \in 0 .. n - 1, NEW e \in Bucket(K, V), e.key \in K, e.val \in V,
         e.dib = Back(p, h[e.key] % n, n) + 1, e.dib <= bs[Back(p, 1, n)].dib + 1,
         bs[p].dib < e.dib,
         \A i \in 0 .. n - 1 : bs[i].dib # 0 /\ i # p => bs[i].key # e.key
  PROVE  Sound([bs EXCEPT ![p] = e], n, h, K, V)
<1> DEFINE new == [bs EXCEPT ![p] = e]
<1>1. bs \in Array(n, K, V) /\ \A i \in 0 .. n - 1 : bs[i].dib \in Nat
  BY DEF Sound, Array, Bucket
<1>2. new \in Array(n, K, V) /\ new[p] = e /\ \A i \in 0 .. n - 1 : i # p => new[i] = bs[i]
  BY <1>1 DEF Array
<1>3. e.dib \in Nat /\ e.dib # 0 /\ bs[p].dib \in Nat
  BY <1>1 DEF Bucket
<1> HIDE DEF new
<1>4. Cleared(new, n)
  BY <1>2, <1>3 DEF Cleared, Sound
<1>5. Placed(new, n, h, K, V)
  BY <1>2, <1>3 DEF Placed, Sound
<1>6. Ordered(new, n)
  <2> SUFFICES ASSUME NEW i \in 0 .. n - 1, new[i].dib # 0
               PROVE  new[i].dib <= new[Back(i, 1, n)].dib + 1
    BY DEF Ordered
  <2>1. Back(i, 1, n) \in 0 .. n - 1
    BY BackOne
  <2>2. CASE i = p
    BY <1>1, <1>2, <1>3, <2>1, <2>2
  <2>3. CASE i # p
    <3>1. bs[i].dib <= bs[Back(i, 1, n)].dib + 1
      BY <1>2, <2>3 DEF Ordered, Sound
    <3> QED
      BY <1>1, <1>2, <1>3, <2>1, <2>3, <3>1
  <2> QED
    BY <2>2, <2>3
<1>7. KeysOnce(new, n)
  BY <1>2, <1>3 DEF KeysOnce, Sound
<1> QED
  BY <1>2, <1>4, <1>5, <1>6, <1>7 DEF Sound, new

(* What it does to the items. *)
LEMMA PutItems ==
  ASSUME NEW n \in Nat \ {0}, NEW K, NEW V, NEW bs \in Array(n, K, V), NEW p \in 0 .. n - 1,
         NEW e \in Bucket(K, V), e.dib # 0,
         NEW new \in Array(n, K, V), new[p] = e, \A i \in 0 .. n - 1 : i # p => new[i] = bs[i]
  PROVE  /\ Occupied(new) = Occupied(bs) \cup {p}
         /\ bs[p].dib = 0 => Pairs(new) = Pairs(bs) \cup {<<e.key, e.val>>}
         /\ bs[p].dib # 0 => Pairs(new) \cup {<<bs[p].key, bs[p].val>>} = Pairs(bs) \cup {<<e.key, e.val>>}
<1>1. DOMAIN bs = 0 .. n - 1 /\ DOMAIN new = 0 .. n - 1
  BY DEF Array
<1>2. Occupied(new) = Occupied(bs) \cup {p}
  BY <1>1 DEF Occupied
<1>3. bs[p].dib = 0 => p \notin Occupied(bs)
  BY DEF Occupied
<1>4. bs[p].dib # 0 => p \in Occupied(bs)
  BY <1>1 DEF Occupied
<1>5. \A i \in Occupied(bs) : i \in 0 .. n - 1
  BY <1>1 DEF Occupied
<1>6. bs[p].dib = 0 => Pairs(new) = Pairs(bs) \cup {<<e.key, e.val>>}
  BY <1>1, <1>2, <1>3, <1>5 DEF Pairs
<1>7. bs[p].dib # 0 => Pairs(new) \cup {<<bs[p].key, bs[p].val>>} = Pairs(bs) \cup {<<e.key, e.val>>}
  BY <1>1, <1>2, <1>4, <1>5 DEF Pairs
<1> QED
  BY <1>2, <1>6, <1>7

-----------------------------------------------------------------------------
(***************************************************************************)
(* Inserting a key that is not there.  After d rounds that found no place  *)
(* the array is sound, the entry in hand is what it lacks, its dib is the  *)
(* distance of the next bucket, and the buckets passed are occupied.       *)
(***************************************************************************)
InHand(s, p, d, n, h, K, V) ==
  /\ s.e.dib \in 1 .. d + 1 /\ s.e.key \in K /\ s.e.val \in V
  /\ d < n => /\ s.e.dib = Back(p, h[s.e.key] % n, n) + 1
              /\ s.e.dib <= s.bs[Back(p, 1, n)].dib + 1
  /\ \A i \in 0 .. n - 1 : s.bs[i].dib # 0 => s.bs[i].key # s.e.key

Seeking(s, d, bs, n, h, K, V, k, v) ==
  /\ Sound(s.bs, n, h, K, V)
  /\ InHand(s, At(h[k] % n, d, n), d, n, h, K, V)
  /\ Pairs(s.bs) \cup {<<s.e.key, s.e.val>>} = Pairs(bs) \cup {<<k, v>>}
  /\ Occupied(s.bs) = Occupied(bs)
  /\ \A c \in 0 .. d - 1 : s.bs[At(h[k] % n, c, n)].dib # 0

Inserted(s, bs, n, h, K, V, k, v) ==
  /\ Sound(s.bs, n, h, K, V)
  /\ Pairs(s.bs) = Pairs(bs) \cup {<<k, v>>}
  /\ \E w \in (0 .. n - 1) \ Occupied(bs) : Occupied(s.bs) = Occupied(bs) \cup {w}

InsertInv(s, d, bs, n, h, K, V, k, v) ==
  /\ s.found \in {"no", "new"} /\ s.old = NoVal
  /\ s.found = "no" => Seeking(s, d, bs, n, h, K, V, k, v)
  /\ s.found = "new" => Inserted(s, bs, n, h, K, V, k, v)

(* The next bucket is one step further from every home but itself. *)
LEMMA StepOn ==
  ASSUME NEW n \in Nat \ {0}, NEW a \in 0 .. n - 1, NEW d \in 0 .. n - 1, d + 1 < n,
         NEW x \in 0 .. n - 1, Back(At(a, d, n), x, n) + 1 < n
  PROVE  /\ Back(At(a, d + 1, n), x, n) = Back(At(a, d, n), x, n) + 1
         /\ Back(At(a, d + 1, n), 1, n) = At(a, d, n)
BY DEF At, Back

LEMMA InsertStep ==
  ASSUME NEW n \in Nat \ {0}, NEW h, NEW K, NEW V, \A x \in K : h[x] \in Nat,
         NEW bs \in Array(n, K, V), NEW k \in K, NEW v \in V, NEW compares,
         NEW d \in 0 .. n - 1, NEW s \in Search(n, K, V),
         InsertInv(s, d, bs, n, h, K, V, k, v)
  PROVE  InsertInv(PlaceStep(s, At(h[k] % n, d, n), compares), d + 1, bs, n, h, K, V, k, v)
<1> DEFINE a == h[k] % n
           p == At(a, d, n)
           b == s.bs[p]
           r == PlaceStep(s, p, compares)
<1>1. CASE s.found # "no"
  <2>1. r = s
    BY <1>1 DEF PlaceStep
  <2> QED
    BY <1>1, <2>1 DEF InsertInv
<1>2. CASE s.found = "no"
  <2>1. a \in 0 .. n - 1 /\ p \in 0 .. n - 1
    BY RemainderType, Ring
  <2> HIDE DEF a, p
  <2>2. /\ Seeking(s, d, bs, n, h, K, V, k, v) /\ Sound(s.bs, n, h, K, V) /\ InHand(s, p, d, n, h, K, V)
        /\ s.old = NoVal
    BY <1>2 DEF InsertInv, Seeking, a, p
  <2>3. s.bs \in Array(n, K, V) /\ s.e \in Bucket(K, V) /\ b \in Bucket(K, V) /\ b.dib \in Nat /\ s.e.dib \in Nat
    BY <2>1 DEF Search, Array, Bucket
  <2>4. /\ s.e.dib >= 1 /\ s.e.dib <= d + 1 /\ s.e.key \in K /\ s.e.val \in V
        /\ s.e.dib = Back(p, h[s.e.key] % n, n) + 1
        /\ s.e.dib <= s.bs[Back(p, 1, n)].dib + 1
        /\ \A i \in 0 .. n - 1 : s.bs[i].dib # 0 => s.bs[i].key # s.e.key
    BY <2>2 DEF InHand
  <2>5. CASE b.dib = 0
    <3> DEFINE new == [s.bs EXCEPT ![p] = s.e]
    <3>1. r = [s EXCEPT !.bs = new, !.found = "new"]
      BY <1>2, <2>5 DEF PlaceStep
    <3>2. r.bs = new /\ r.found = "new" /\ r.old = NoVal
      BY <2>2, <3>1 DEF Search
    <3>3. Sound(new, n, h, K, V)
      BY <2>1, <2>2, <2>3, <2>4, <2>5, PutSound
    <3>4. Occupied(new) = Occupied(s.bs) \cup {p} /\ Pairs(new) = Pairs(s.bs) \cup {<<s.e.key, s.e.val>>}
      <4> DEFINE old == s.bs
                 x == s.e
      <4>1. old \in Array(n, K, V) /\ x \in Bucket(K, V) /\ x.dib # 0 /\ old[p].dib = 0
        BY <2>3, <2>4, <2>5
      <4> HIDE DEF old, x
      <4>2. [old EXCEPT ![p] = x] = new
        BY DEF old, x
      <4> HIDE DEF new
      <4>3. new \in Array(n, K, V) /\ new[p] = x /\ \A i \in 0 .. n - 1 : i # p => new[i] = old[i]
        BY <2>1, <4>1, <4>2 DEF Array
      <4>4. Occupied(new) = Occupied(old) \cup {p} /\ Pairs(new) = Pairs(old) \cup {<<x.key, x.val>>}
        BY <2>1, <4>1, <4>3, PutItems
      <4> QED
        BY <4>4, Zenon DEF old, x
    <3>5. p \notin Occupied(s.bs)
      BY <2>5 DEF Occupied
    <3> HIDE DEF new, r
    <3>6. Inserted(r, bs, n, h, K, V, k, v)
      BY <2>1, <2>2, <3>2, <3>3, <3>4, <3>5 DEF Inserted, Seeking
    <3> QED
      BY <3>2, <3>6 DEF InsertInv, r, p, a
  <2>6. CASE b.dib # 0 /\ b.dib < s.e.dib
    <3> DEFINE new == [s.bs EXCEPT ![p] = s.e]
               e == [b EXCEPT !.dib = b.dib + 1]
    <3>1. b.key # s.e.key
      BY <2>1, <2>4, <2>6
    <3>2. r = [s EXCEPT !.bs = new, !.e = e]
      BY <1>2, <2>6, <3>1 DEF PlaceStep
    <3>3. r.bs = new /\ r.e = e /\ r.found = "no" /\ r.old = NoVal
      BY <1>2, <2>2, <3>2 DEF Search
    <3>4. e.dib = b.dib + 1 /\ e.key = b.key /\ e.val = b.val
      BY <2>3 DEF Bucket
    <3>5. Sound(new, n, h, K, V)
      BY <2>1, <2>2, <2>3, <2>4, <2>6, PutSound
    <3>6. /\ Occupied(new) = Occupied(s.bs) \cup {p}
          /\ Pairs(new) \cup {<<b.key, b.val>>} = Pairs(s.bs) \cup {<<s.e.key, s.e.val>>}
      <4> DEFINE old == s.bs
                 x == s.e
      <4>1. old \in Array(n, K, V) /\ x \in Bucket(K, V) /\ x.dib # 0 /\ old[p].dib # 0
        BY <2>3, <2>4, <2>6
      <4> HIDE DEF old, x
      <4>2. [old EXCEPT ![p] = x] = new
        BY DEF old, x
      <4> HIDE DEF new
      <4>3. new \in Array(n, K, V) /\ new[p] = x /\ \A i \in 0 .. n - 1 : i # p => new[i] = old[i]
        BY <2>1, <4>1, <4>2 DEF Array
      <4>4. /\ Occupied(new) = Occupied(old) \cup {p}
            /\ Pairs(new) \cup {<<old[p].key, old[p].val>>} = Pairs(old) \cup {<<x.key, x.val>>}
        BY <2>1, <4>1, <4>3, PutItems
      <4> QED
        BY <4>4, Zenon DEF old, x
    <3>7. new[p] = s.e /\ \A i \in 0 .. n - 1 : i # p => new[i] = s.bs[i]
      BY <2>1, <2>3 DEF Array
    <3>8. b.key \in K /\ b.val \in V /\ b.dib = Back(p, h[b.key] % n, n) + 1
      BY <2>1, <2>2, <2>6 DEF Sound, Placed
    <3>9. \A i \in 0 .. n - 1 : i # p /\ s.bs[i].dib # 0 => s.bs[i].key # b.key
      BY <2>1, <2>2, <2>6 DEF Sound, KeysOnce
    <3> HIDE DEF new, e, r, b
    <3>10. InHand(r, At(a, d + 1, n), d + 1, n, h, K, V)
      <4>1. r.e.dib \in 1 .. d + 1 + 1 /\ r.e.key \in K /\ r.e.val \in V
        BY <2>3, <2>4, <2>6, <3>3, <3>4, <3>8
      <4>2. \A i \in 0 .. n - 1 : r.bs[i].dib # 0 => r.bs[i].key # r.e.key
        BY <3>1, <3>3, <3>4, <3>7, <3>9
      <4>3. ASSUME d + 1 < n
            PROVE  /\ r.e.dib = Back(At(a, d + 1, n), h[r.e.key] % n, n) + 1
                   /\ r.e.dib <= r.bs[Back(At(a, d + 1, n), 1, n)].dib + 1
        <5>1. h[b.key] % n \in 0 .. n - 1
          BY <3>8, RemainderType
        <5>2. Back(p, h[b.key] % n, n) + 1 < n
          BY <2>3, <2>4, <2>6, <3>8, <4>3
        <5>3. /\ Back(At(a, d + 1, n), h[b.key] % n, n) = Back(p, h[b.key] % n, n) + 1
              /\ Back(At(a, d + 1, n), 1, n) = p
          BY <2>1, <4>3, <5>1, <5>2, StepOn DEF p
        <5> QED
          BY <2>3, <2>6, <3>3, <3>4, <3>7, <3>8, <5>3
      <4> QED
        BY <4>1, <4>2, <4>3 DEF InHand
    <3>11. p \in Occupied(s.bs)
      BY <2>1, <2>3, <2>6 DEF Occupied, Array, b
    <3>12. \A c \in 0 .. d + 1 - 1 : r.bs[At(a, c, n)].dib # 0
      <4> SUFFICES ASSUME NEW c \in 0 .. d PROVE new[At(a, c, n)].dib # 0
        BY <3>3
      <4>1. At(a, c, n) \in 0 .. n - 1
        BY <2>1, Ring
      <4>2. c # d => s.bs[At(a, c, n)].dib # 0
        BY <2>2 DEF Seeking, a
      <4> QED
        BY <2>4, <3>7, <4>1, <4>2 DEF p
    <3>13. Seeking(r, d + 1, bs, n, h, K, V, k, v)
      BY <2>2, <3>3, <3>4, <3>5, <3>6, <3>10, <3>11, <3>12 DEF Seeking, a
    <3> QED
      BY <3>3, <3>13 DEF InsertInv, r, p, a
  <2>7. CASE b.dib # 0 /\ ~(b.dib < s.e.dib)
    <3> DEFINE e == [s.e EXCEPT !.dib = s.e.dib + 1]
    <3>1. b.key # s.e.key
      BY <2>1, <2>4, <2>7
    <3>2. r = [s EXCEPT !.e = e]
      BY <1>2, <2>7, <3>1 DEF PlaceStep
    <3>3. r.bs = s.bs /\ r.e = e /\ r.found = "no" /\ r.old = NoVal
      BY <1>2, <2>2, <3>2 DEF Search
    <3>4. e.dib = s.e.dib + 1 /\ e.key = s.e.key /\ e.val = s.e.val
      BY <2>3 DEF Bucket
    <3> HIDE DEF e, r
    <3>5. InHand(r, At(a, d + 1, n), d + 1, n, h, K, V)
      <4>1. r.e.dib \in 1 .. d + 1 + 1 /\ r.e.key \in K /\ r.e.val \in V
        BY <2>3, <2>4, <3>3, <3>4
      <4>2. \A i \in 0 .. n - 1 : r.bs[i].dib # 0 => r.bs[i].key # r.e.key
        BY <2>4, <3>3, <3>4
      <4>3. ASSUME d + 1 < n
            PROVE  /\ r.e.dib = Back(At(a, d + 1, n), h[r.e.key] % n, n) + 1
                   /\ r.e.dib <= r.bs[Back(At(a, d + 1, n), 1, n)].dib + 1
        <5>1. h[s.e.key] % n \in 0 .. n - 1
          BY <2>4, RemainderType
        <5>2. Back(p, h[s.e.key] % n, n) + 1 < n
          BY <2>3, <2>4, <4>3
        <5>3. /\ Back(At(a, d + 1, n), h[s.e.key] % n, n) = Back(p, h[s.e.key] % n, n) + 1
              /\ Back(At(a, d + 1, n), 1, n) = p
          BY <2>1, <4>3, <5>1, <5>2, StepOn DEF p
        <5> QED
          BY <2>3, <2>4, <2>7, <3>3, <3>4, <5>3
      <4> QED
        BY <4>1, <4>2, <4>3 DEF InHand
    <3>6. \A c \in 0 .. d + 1 - 1 : r.bs[At(a, c, n)].dib # 0
      <4> SUFFICES ASSUME NEW c \in 0 .. d PROVE s.bs[At(a, c, n)].dib # 0
        BY <3>3
      <4>1. c # d => s.bs[At(a, c, n)].dib # 0
        BY <2>2 DEF Seeking, a
      <4> QED
        BY <2>7, <4>1 DEF p
    <3>7. Seeking(r, d + 1, bs, n, h, K, V, k, v)
      BY <2>2, <3>3, <3>4, <3>5, <3>6 DEF Seeking, a
    <3> QED
      BY <3>3, <3>7 DEF InsertInv, r, p, a
  <2> QED
    BY <2>5, <2>6, <2>7
<1> QED
  BY <1>1, <1>2

LEMMA Reached ==
  ASSUME NEW n \in Nat \ {0}, NEW a \in 0 .. n - 1, NEW w \in 0 .. n - 1
  PROVE  Back(w, a, n) \in 0 .. n - 1 /\ At(a, Back(w, a, n), n) = w
BY DEF At, Back

(* A key that is not in the table: the loop ends in a vacant bucket, and   *)
(* the table has this item more.                                           *)
LEMMA PlaceNew ==
  ASSUME NEW n \in Nat \ {0}, NEW h, NEW K, NEW V, \A x \in K : h[x] \in Nat,
         NEW bs, Sound(bs, n, h, K, V), NEW k \in K, NEW v \in V, NEW compares,
         \A i \in 0 .. n - 1 : bs[i].dib # 0 => bs[i].key # k,
         Occupied(bs) # DOMAIN bs
  PROVE  LET r == Place(bs, h, k, v, compares)
         IN r.found = "new" /\ r.old = NoVal /\ Inserted(r, bs, n, h, K, V, k, v)
<1> DEFINE f == PlaceLoop(bs, h, k, v, compares)
           a == h[k] % n
           T == {d \in Nat : d <= n => InsertInv(f[d], d, bs, n, h, K, V, k, v)}
<1>1. bs \in Array(n, K, V) /\ DOMAIN bs = 0 .. n - 1
  BY DEF Sound, Array
<1>2. /\ f \in [0 .. n -> Search(n, K, V)] /\ f[0] = SearchStart(bs, k, v)
      /\ \A d \in 0 .. n - 1 : f[d + 1] = PlaceStep(f[d], At(h[k] % n, d, n), compares)
      /\ Place(bs, h, k, v, compares) = f[n]
  BY <1>1, PlaceRounds
<1>3. a \in 0 .. n - 1
  BY RemainderType
<1> HIDE DEF f
<1>4. 0 \in T
  <2> DEFINE s == SearchStart(bs, k, v)
  <2>1. /\ s.bs = bs /\ s.e.dib = 1 /\ s.e.key = k /\ s.e.val = v
        /\ s.found = "no" /\ s.old = NoVal
    BY DEF SearchStart
  <2> HIDE DEF s
  <2>2. At(a, 0, n) = a /\ Back(a, a, n) = 0 /\ Back(a, 1, n) \in 0 .. n - 1
    BY <1>3, BackOne DEF At, Back
  <2>3. bs[Back(a, 1, n)].dib \in Nat
    BY <1>1, <2>2 DEF Array, Bucket
  <2>4. InHand(s, At(a, 0, n), 0, n, h, K, V)
    BY <2>1, <2>2, <2>3 DEF InHand
  <2>5. Seeking(s, 0, bs, n, h, K, V, k, v)
    BY <2>1, <2>4 DEF Seeking
  <2> QED
    BY <1>2, <2>1, <2>5 DEF InsertInv, s
<1>5. ASSUME NEW d \in Nat, d \in T PROVE d + 1 \in T
  <2> SUFFICES ASSUME d + 1 <= n PROVE InsertInv(f[d + 1], d + 1, bs, n, h, K, V, k, v)
    OBVIOUS
  <2>1. d \in 0 .. n - 1 /\ InsertInv(f[d], d, bs, n, h, K, V, k, v) /\ f[d] \in Search(n, K, V)
    BY <1>2, <1>5
  <2>2. f[d + 1] = PlaceStep(f[d], At(h[k] % n, d, n), compares)
    BY <1>2, <2>1
  <2> DEFINE s == f[d]
             next == PlaceStep(s, At(h[k] % n, d, n), compares)
  <2>3. s \in Search(n, K, V) /\ InsertInv(s, d, bs, n, h, K, V, k, v)
    BY <2>1
  <2>4. InsertInv(next, d + 1, bs, n, h, K, V, k, v)
    <3> HIDE DEF s, a, T
    <3> QED
      BY <1>1, <2>1, <2>3, InsertStep
  <2> QED
    BY <2>2, <2>4, Zenon
<1>6. InsertInv(f[n], n, bs, n, h, K, V, k, v)
  <2>1. n \in T
    <3> HIDE DEF T
    <3> QED
      BY <1>4, <1>5, Induction
  <2> QED
    BY <2>1
<1>7. f[n].found # "no"
  <2> SUFFICES ASSUME f[n].found = "no" PROVE FALSE
    OBVIOUS
  <2>1. /\ Occupied(f[n].bs) = Occupied(bs) /\ f[n].bs \in Array(n, K, V)
        /\ \A c \in 0 .. n - 1 : f[n].bs[At(a, c, n)].dib # 0
    BY <1>6 DEF InsertInv, Seeking, Sound
  <2>2. PICK w \in 0 .. n - 1 : w \notin Occupied(bs)
    BY <1>1 DEF Occupied
  <2>3. Back(w, a, n) \in 0 .. n - 1 /\ At(a, Back(w, a, n), n) = w
    BY <1>3, Reached
  <2>4. f[n].bs[w].dib # 0
    BY <2>1, <2>3
  <2>5. w \in Occupied(f[n].bs)
    BY <2>1, <2>4 DEF Occupied, Array
  <2> QED
    BY <2>1, <2>2, <2>5
<1> QED
  BY <1>2, <1>6, <1>7 DEF InsertInv

-----------------------------------------------------------------------------
(***************************************************************************)
(* A key that is in the table: between its home and its bucket everything  *)
(* is occupied by items at least as far from their homes, so nothing gives *)
(* way before it is met.                                                   *)
(***************************************************************************)
LEMMA BackStep ==
  ASSUME NEW n \in Nat \ {0}, NEW i \in 0 .. n - 1, NEW c \in 0 .. n - 1, c + 1 < n
  PROVE  Back(Back(i, c, n), 1, n) = Back(i, c + 1, n) /\ Back(i, c, n) \in 0 .. n - 1
BY DEF Back

LEMMA Chain ==
  ASSUME NEW n \in Nat \ {0}, NEW h, NEW K, NEW V, NEW bs, Sound(bs, n, h, K, V),
         NEW i \in 0 .. n - 1, bs[i].dib <= n
  PROVE  \A c \in 0 .. n - 1 : c < bs[i].dib => bs[Back(i, c, n)].dib >= bs[i].dib - c
<1> DEFINE T == {c \in Nat : c \in 0 .. n - 1 /\ c < bs[i].dib => bs[Back(i, c, n)].dib >= bs[i].dib - c}
<1>1. \A j \in 0 .. n - 1 : bs[j].dib \in Nat
  BY DEF Sound, Array, Bucket
<1>2. 0 \in T
  <2>1. Back(i, 0, n) = i
    BY DEF Back
  <2> QED
    BY <1>1, <2>1
<1>3. ASSUME NEW c \in Nat, c \in T PROVE c + 1 \in T
  <2> SUFFICES ASSUME c + 1 \in 0 .. n - 1, c + 1 < bs[i].dib
               PROVE  bs[Back(i, c + 1, n)].dib >= bs[i].dib - (c + 1)
    OBVIOUS
  <2> DEFINE j == Back(i, c, n)
  <2>1. j \in 0 .. n - 1 /\ Back(j, 1, n) = Back(i, c + 1, n)
    BY BackStep
  <2>2. bs[j].dib >= bs[i].dib - c
    BY <1>1, <1>3
  <2>3. Back(j, 1, n) \in 0 .. n - 1
    BY <2>1, BackOne
  <2> HIDE DEF j
  <2>4. bs[j].dib <= bs[Back(j, 1, n)].dib + 1
    BY <1>1, <2>1, <2>2 DEF Sound, Ordered
  <2> QED
    BY <1>1, <2>1, <2>2, <2>3, <2>4
<1>4. \A c \in Nat : c \in T
  <2> HIDE DEF T
  <2> QED
    BY <1>2, <1>3, Induction
<1> QED
  BY <1>4

(* The buckets that a search for the key of bucket j passes before j. *)
Path(bs, n, h, j) ==
  LET a == h[bs[j].key] % n
      D == Back(j, a, n)
  IN /\ a \in 0 .. n - 1 /\ D \in 0 .. n - 1 /\ At(a, D, n) = j /\ bs[j].dib = D + 1
     /\ \A d \in 0 .. D : bs[At(a, d, n)].dib >= d + 1
     /\ \A d \in 0 .. D - 1 : bs[At(a, d, n)].key # bs[j].key

LEMMA Passed ==
  ASSUME NEW n \in Nat \ {0}, NEW h, NEW K, NEW V, \A x \in K : h[x] \in Nat,
         NEW bs, Sound(bs, n, h, K, V), NEW j \in 0 .. n - 1, bs[j].dib # 0
  PROVE  Path(bs, n, h, j)
<1> DEFINE a == h[bs[j].key] % n
           D == Back(j, a, n)
<1>1. bs[j].key \in K /\ bs[j].dib = D + 1
  BY DEF Sound, Placed
<1>2. a \in 0 .. n - 1
  BY <1>1, RemainderType
<1>3. D \in 0 .. n - 1 /\ At(a, D, n) = j
  BY <1>2, Reached
<1>4. \A i \in 0 .. n - 1 : bs[i].dib \in Nat
  BY DEF Sound, Array, Bucket
<1> HIDE DEF a
<1>5. \A d \in 0 .. D : At(a, d, n) = Back(j, D - d, n)
  BY <1>2 DEF At, Back
<1>6. \A c \in 0 .. n - 1 : c < D + 1 => bs[Back(j, c, n)].dib >= D + 1 - c
  <2>1. bs[j].dib <= n
    BY <1>1, <1>3
  <2>2. \A c \in 0 .. n - 1 : c < bs[j].dib => bs[Back(j, c, n)].dib >= bs[j].dib - c
    BY <2>1, Chain
  <2> HIDE DEF D
  <2> QED
    BY <1>1, <1>3, <2>2
<1> HIDE DEF D
<1>7. ASSUME NEW d \in 0 .. D PROVE bs[At(a, d, n)].dib >= d + 1
  <2>1. D - d \in 0 .. n - 1 /\ D - d < D + 1 /\ D + 1 - (D - d) = d + 1
    BY <1>3
  <2>2. bs[Back(j, D - d, n)].dib >= D + 1 - (D - d)
    BY <1>6, <2>1
  <2> QED
    BY <1>5, <2>1, <2>2
<1>8. ASSUME NEW d \in 0 .. D - 1, bs[At(a, d, n)].key = bs[j].key PROVE FALSE
  <2>1. At(a, d, n) \in 0 .. n - 1 /\ At(a, d, n) # At(a, D, n)
    BY <1>2, <1>3 DEF At
  <2>2. bs[At(a, d, n)].dib # 0
    <3>1. d \in 0 .. D /\ d + 1 > 0
      BY <1>3
    <3> QED
      BY <1>4, <1>7, <2>1, <3>1
  <2> QED
    BY <1>3, <1>8, <2>1, <2>2 DEF Sound, KeysOnce
<1> QED
  BY <1>1, <1>2, <1>3, <1>7, <1>8 DEF Path, a, D

(* A value is replaced where it is. *)
Replaced(new, bs, n, h, K, V, j, v) ==
  /\ Sound(new, n, h, K, V) /\ Occupied(new) = Occupied(bs)
  /\ new[j].dib = bs[j].dib /\ new[j].key = bs[j].key /\ new[j].val = v
  /\ \A i \in 0 .. n - 1 : i # j => new[i] = bs[i]

LEMMA ReplaceSound ==
  ASSUME NEW n \in Nat \ {0}, NEW h, NEW K, NEW V, NEW bs, Sound(bs, n, h, K, V),
         NEW j \in 0 .. n - 1, bs[j].dib # 0, NEW v \in V
  PROVE  Replaced([bs EXCEPT ![j].val = v], bs, n, h, K, V, j, v)
<1> DEFINE new == [bs EXCEPT ![j].val = v]
<1>1. bs \in Array(n, K, V) /\ \A i \in 0 .. n - 1 : bs[i] \in Bucket(K, V) /\ bs[i].dib \in Nat
  BY DEF Sound, Array, Bucket
<1>2. new \in Array(n, K, V)
  BY <1>1 DEF Array, Bucket
<1>3. /\ \A i \in 0 .. n - 1 : i # j => new[i] = bs[i]
      /\ new[j].dib = bs[j].dib /\ new[j].key = bs[j].key /\ new[j].val = v
  BY <1>1 DEF Array, Bucket
<1> HIDE DEF new
<1>4. \A i \in 0 .. n - 1 : new[i].dib = bs[i].dib /\ new[i].key = bs[i].key
  BY <1>3
<1>5. Cleared(new, n)
  BY <1>3 DEF Cleared, Sound
<1>6. Placed(new, n, h, K, V)
  BY <1>3 DEF Placed, Sound
<1>7. Ordered(new, n)
  BY <1>4, BackOne DEF Ordered, Sound
<1>8. KeysOnce(new, n)
  BY <1>4 DEF KeysOnce, Sound
<1>9. Occupied(new) = Occupied(bs)
  BY <1>1, <1>2, <1>4 DEF Occupied, Array
<1> QED
  BY <1>2, <1>3, <1>5, <1>6, <1>7, <1>8, <1>9 DEF Replaced, Sound, new

(* Inserting a key that is there finds it and replaces its value. *)
Renewed(r, bs, j, v) == r.found = "same" /\ r.old = bs[j].val /\ r.bs = [bs EXCEPT ![j].val = v]

LEMMA PlaceSame ==
  ASSUME NEW n \in Nat \ {0}, NEW h, NEW K, NEW V, \A x \in K : h[x] \in Nat,
         NEW bs, Sound(bs, n, h, K, V), NEW j \in 0 .. n - 1, bs[j].dib # 0, NEW v \in V
  PROVE  Renewed(Place(bs, h, bs[j].key, v, TRUE), bs, j, v)
<1> DEFINE k == bs[j].key
           yes == TRUE
           f == PlaceLoop(bs, h, k, v, yes)
           a == h[k] % n
           D == Back(j, a, n)
           Met(s) == s.found = "same" /\ s.old = bs[j].val /\ s.bs = [bs EXCEPT ![j].val = v]
           Going(s, d) == s.found = "no" /\ s.bs = bs /\ s.e = [dib |-> d + 1, key |-> k, val |-> v]
           T == {d \in Nat : d <= n => IF d <= D THEN Going(f[d], d) ELSE Met(f[d])}
<1>1. bs \in Array(n, K, V) /\ k \in K
  BY DEF Sound, Placed
<1>2. /\ f \in [0 .. n -> Search(n, K, V)] /\ f[0] = SearchStart(bs, k, v)
      /\ \A d \in 0 .. n - 1 : f[d + 1] = PlaceStep(f[d], At(a, d, n), yes)
      /\ Place(bs, h, k, v, yes) = f[n]
  <2>1. h[k] \in Nat
    BY <1>1
  <2> HIDE DEF k, yes
  <2> QED
    BY <1>1, <2>1, PlaceRounds
<1>3. /\ a \in 0 .. n - 1 /\ D \in 0 .. n - 1 /\ At(a, D, n) = j
      /\ \A d \in 0 .. D : bs[At(a, d, n)].dib >= d + 1
      /\ \A d \in 0 .. D - 1 : bs[At(a, d, n)].key # k
  <2>1. Path(bs, n, h, j)
    BY Passed
  <2> QED
    BY <2>1 DEF Path
<1> HIDE DEF f, a, D, k
<1>4. 0 \in T
  BY <1>2, <1>3 DEF SearchStart
<1>5. ASSUME NEW d \in Nat, d \in T PROVE d + 1 \in T
  <2> SUFFICES ASSUME d + 1 <= n PROVE IF d + 1 <= D THEN Going(f[d + 1], d + 1) ELSE Met(f[d + 1])
    OBVIOUS
  <2> DEFINE s == f[d]
             p == At(a, d, n)
             b == bs[p]
  <2>0. d \in 0 .. n - 1 /\ d \in 0 .. n
    OBVIOUS
  <2>1. /\ d \in 0 .. n - 1 /\ s \in Search(n, K, V) /\ f[d + 1] = PlaceStep(s, p, yes)
        /\ IF d <= D THEN Going(s, d) ELSE Met(s)
    <3>1. s \in Search(n, K, V) /\ f[d + 1] = PlaceStep(s, p, yes)
      BY <1>2, <2>0
    <3>2. IF d <= D THEN Going(s, d) ELSE Met(s)
      <4> HIDE DEF Going, Met
      <4> QED
        BY <1>5, <2>0
    <3> QED
      BY <2>0, <3>1, <3>2
  <2>2. p \in 0 .. n - 1
    BY <1>3, <2>1, Ring
  <2>3. b.dib \in Nat
    BY <1>1, <2>2 DEF Array, Bucket
  <2> HIDE DEF s, p
  <2>4. CASE d > D
    <3>1. Met(s) /\ s.found # "no"
      BY <1>3, <2>1, <2>4
    <3>2. PlaceStep(s, p, yes) = s
      BY <3>1 DEF PlaceStep
    <3>3. ~(d + 1 <= D)
      BY <1>3, <2>4
    <3> QED
      BY <2>1, <3>1, <3>2, <3>3
  <2>5. CASE d = D
    <3>1. Going(s, d) /\ s.bs[p] = b /\ p = j
      BY <1>3, <2>1, <2>5 DEF p
    <3>2. s.e.key = k /\ s.e.val = v /\ b.dib # 0 /\ b.key = k
      BY <3>1 DEF k
    <3>3. PlaceStep(s, p, yes) = [s EXCEPT !.bs[p].val = s.e.val, !.found = "same", !.old = b.val]
      BY <3>1, <3>2 DEF PlaceStep
    <3>4. Met(PlaceStep(s, p, yes))
      BY <2>1, <3>1, <3>2, <3>3 DEF Search
    <3>5. ~(d + 1 <= D)
      BY <1>3, <2>5
    <3> QED
      BY <2>1, <3>4, <3>5
  <2>6. CASE d < D
    <3>1. Going(s, d) /\ s.bs[p] = b
      BY <1>3, <2>1, <2>6
    <3>2. s.e.key = k /\ s.e.dib = d + 1 /\ b.key # k /\ b.dib >= d + 1
      <4>1. d \in 0 .. D /\ d \in 0 .. D - 1
        BY <1>3, <2>6
      <4> QED
        BY <1>3, <3>1, <4>1 DEF p
    <3>3. b.dib # 0 /\ ~(b.dib < s.e.dib)
      BY <2>3, <3>2
    <3>4. PlaceStep(s, p, yes) = [s EXCEPT !.e.dib = s.e.dib + 1]
      BY <3>1, <3>2, <3>3 DEF PlaceStep
    <3>5. Going(PlaceStep(s, p, yes), d + 1)
      <4>1. [s.e EXCEPT !.dib = s.e.dib + 1] = [dib |-> d + 1 + 1, key |-> k, val |-> v]
        BY <3>1
      <4>2. PlaceStep(s, p, yes).e = [s.e EXCEPT !.dib = s.e.dib + 1]
        BY <2>1, <3>4 DEF Search
      <4>3. PlaceStep(s, p, yes).bs = bs /\ PlaceStep(s, p, yes).found = "no"
        BY <2>1, <3>1, <3>4 DEF Search
      <4> QED
        BY <4>1, <4>2, <4>3
    <3>6. d + 1 <= D
      BY <1>3, <2>6
    <3> QED
      BY <2>1, <3>5, <3>6
  <2> QED
    BY <1>3, <2>4, <2>5, <2>6
<1>6. Met(f[n])
  <2>1. n \in T
    <3> HIDE DEF T
    <3> QED
      BY <1>4, <1>5, Induction
  <2> QED
    BY <1>3, <2>1
<1> QED
  BY <1>2, <1>6 DEF Renewed, k

-----------------------------------------------------------------------------
(* The sizes of a table. *)

Doubling(g, m) == g[0] = MinCap /\ \A d \in 0 .. m - 1 : g[d + 1] = 2 * g[d]

LEMMA DoublingExists ==
  ASSUME NEW m \in Nat
  PROVE  \E g \in [0 .. m -> Nat] : Doubling(g, m)
<1> DEFINE F == [d \in 1 .. m |-> [x \in Nat |-> 2 * x]]
<1>1. F \in [1 .. m -> [Nat -> Nat]]
  OBVIOUS
<1>2. PICK g \in [0 .. m -> Nat] : Rounds(g, MinCap, F, m)
  <2> HIDE DEF F
  <2> QED
    BY <1>1, MinCapAssumption, Recursion
<1>3. \A d \in 0 .. m : g[d] = IF d = 0 THEN MinCap ELSE F[d][g[d - 1]]
  BY <1>2, Zenon DEF Rounds
<1> HIDE DEF F
<1>4. g[0] = MinCap
  <2>1. 0 \in 0 .. m
    OBVIOUS
  <2> QED
    BY <1>3, <2>1
<1>5. ASSUME NEW d \in 0 .. m - 1 PROVE g[d + 1] = 2 * g[d]
  <2>1. d + 1 \in 0 .. m /\ d + 1 # 0 /\ d + 1 - 1 = d /\ g[d] \in Nat /\ d + 1 \in 1 .. m
    OBVIOUS
  <2>2. g[d + 1] = F[d + 1][g[d]]
    BY <1>3, <2>1
  <2>3. F[d + 1][g[d]] = 2 * g[d]
    BY <2>1 DEF F
  <2> QED
    BY <2>2, <2>3
<1> QED
  BY <1>4, <1>5 DEF Doubling

LEMMA DoublingUnique ==
  ASSUME NEW m \in Nat, NEW f, Doubling(f, m), NEW p \in Nat, m <= p, NEW g, Doubling(g, p)
  PROVE  f[m] = g[m]
<1> DEFINE T == {d \in Nat : d <= m => f[d] = g[d]}
<1>1. 0 \in T
  BY DEF Doubling
<1>2. ASSUME NEW d \in Nat, d \in T PROVE d + 1 \in T
  <2> SUFFICES ASSUME d + 1 <= m PROVE f[d + 1] = g[d + 1]
    OBVIOUS
  <2>1. d \in 0 .. m - 1 /\ d \in 0 .. p - 1 /\ f[d] = g[d]
    BY <1>2
  <2> QED
    BY <2>1 DEF Doubling
<1>3. \A d \in Nat : d \in T
  <2> HIDE DEF T
  <2> QED
    BY <1>1, <1>2, Induction
<1> QED
  BY <1>3

(* The capacities are MinCap and its doubles. *)
LEMMA Capacities ==
  /\ ncap \in [Nat -> Nat] /\ ncap[0] = MinCap
  /\ \A k \in Nat : ncap[k + 1] = 2 * ncap[k]
<1> DEFINE G == [m \in Nat |-> CHOOSE g \in [0 .. m -> Nat] : Doubling(g, m)]
           c == [m \in Nat |-> G[m][m]]
           Body(f) == [k \in Nat |-> IF k = 0 THEN MinCap ELSE 2 * f[k - 1]]
<1>1. \A m \in Nat : G[m] \in [0 .. m -> Nat] /\ Doubling(G[m], m)
  BY DoublingExists
<1>2. c \in [Nat -> Nat]
  <2> HIDE DEF G
  <2> QED
    BY <1>1
<1>3. c[0] = MinCap
  BY <1>1 DEF Doubling
<1>4. ASSUME NEW m \in Nat PROVE c[m + 1] = 2 * c[m]
  <2> HIDE DEF G
  <2>1. Doubling(G[m + 1], m + 1) /\ Doubling(G[m], m) /\ m \in 0 .. m + 1 - 1
    BY <1>1
  <2>2. G[m][m] = G[m + 1][m]
    BY <2>1, DoublingUnique
  <2> QED
    BY <2>1, <2>2 DEF Doubling
<1> HIDE DEF c
<1>5. c = Body(c)
  <2>1. ASSUME NEW k \in Nat, k # 0 PROVE c[k] = 2 * c[k - 1]
    <3>1. k - 1 \in Nat /\ k - 1 + 1 = k
      BY <2>1
    <3> QED
      BY <1>4, <3>1
  <2>2. c = [k \in Nat |-> c[k]]
    BY <1>2
  <2> QED
    BY <1>3, <2>1, <2>2
<1>6. ncap = Body(ncap)
  <2>1. ncap = CHOOSE f : f = Body(f)
    BY DEF ncap
  <2> HIDE DEF Body
  <2> QED
    BY <1>5, <2>1, Zenon
<1>7. ncap[0] = MinCap /\ \A k \in Nat : ncap[k + 1] = 2 * ncap[k]
  <2>1. ncap[0] = MinCap
    BY <1>6
  <2>2. ASSUME NEW k \in Nat PROVE ncap[k + 1] = 2 * ncap[k]
    <3>1. k + 1 \in Nat /\ k + 1 # 0 /\ k + 1 - 1 = k
      OBVIOUS
    <3> QED
      BY <1>6, <3>1
  <2> QED
    BY <2>1, <2>2
<1> DEFINE T == {k \in Nat : ncap[k] \in Nat}
<1>8. \A k \in Nat : k \in T
  <2>1. 0 \in T
    BY <1>7, MinCapAssumption
  <2>2. \A k \in Nat : k \in T => k + 1 \in T
    BY <1>7
  <2> HIDE DEF T
  <2> QED
    BY <2>1, <2>2, Induction
<1>9. ncap = [k \in Nat |-> ncap[k]]
  BY <1>6
<1> QED
  BY <1>7, <1>8, <1>9

LEMMA CapacitiesGrow ==
  \A k \in Nat : ncap[k] > k /\ ncap[k] >= MinCap /\ \A j \in 0 .. k : ncap[j] <= ncap[k]
<1> DEFINE T == {k \in Nat : ncap[k] > k /\ ncap[k] >= MinCap /\ \A j \in 0 .. k : ncap[j] <= ncap[k]}
<1>1. 0 \in T
  BY Capacities, MinCapAssumption
<1>2. ASSUME NEW k \in Nat, k \in T PROVE k + 1 \in T
  <2>1. ncap[k] \in Nat /\ ncap[k + 1] = 2 * ncap[k] /\ ncap[k + 1] \in Nat /\ \A j \in 0 .. k : ncap[j] \in Nat
    BY Capacities
  <2>2. ncap[k + 1] > k + 1 /\ ncap[k + 1] >= MinCap
    BY <1>2, <2>1, MinCapAssumption
  <2>3. ASSUME NEW j \in 0 .. k + 1 PROVE ncap[j] <= ncap[k + 1]
    <3>1. CASE j = k + 1
      BY <2>1, <3>1
    <3>2. CASE j \in 0 .. k
      BY <1>2, <2>1, <3>2
    <3> QED
      BY <3>1, <3>2
  <2> QED
    BY <2>2, <2>3
<1>3. \A k \in Nat : k \in T
  <2> HIDE DEF T
  <2> QED
    BY <1>1, <1>2, Induction
<1> QED
  BY <1>3

Sizes == {ncap[k] : k \in Nat}

LEMMA SizesAre ==
  ASSUME NEW n \in Sizes
  PROVE  n \in Nat /\ n >= MinCap /\ n \in Nat \ {0} /\ n > 1
<1>1. PICK k \in Nat : n = ncap[k]
  BY DEF Sizes
<1>2. ncap[k] \in Nat
  BY Capacities
<1>3. ncap[k] >= MinCap
  BY CapacitiesGrow
<1> QED
  BY <1>1, <1>2, <1>3, MinCapAssumption

LEMMA RoundUpIs ==
  ASSUME NEW n \in Nat
  PROVE  RoundUp(n) \in Sizes /\ RoundUp(n) >= n
<1> DEFINE S == {k \in 0 .. n : ncap[k] >= n}
<1>1. S \in SUBSET Nat /\ n \in S
  BY Capacities, CapacitiesGrow
<1>2. \E m \in S : \A k \in S : m <= k
  BY <1>1, Least
<1>3. Min(S) \in S
  BY <1>2 DEF Min
<1> QED
  BY <1>1, <1>3 DEF RoundUp, Sizes

LEMMA RoundUpZero == RoundUp(0) = MinCap /\ MinCap \in Sizes
<1>1. ncap[0] = MinCap
  BY Capacities
<1>2. MinCap \in Nat
  BY MinCapAssumption
<1>3. {k \in 0 .. 0 : ncap[k] >= 0} = {0}
  BY <1>1, <1>2
<1>4. Min({0}) = 0
  BY DEF Min
<1>5. RoundUp(0) = MinCap
  BY <1>1, <1>3, <1>4 DEF RoundUp
<1> QED
  BY <1>5, RoundUpIs


(* A size above another one is at least twice as large. *)
LEMMA SizesApart ==
  ASSUME NEW n \in Sizes, NEW c \in Sizes, n > c
  PROVE  (n \div 2) \in Nat /\ n = 2 * (n \div 2) /\ n \div 2 >= c
<1>1. PICK k \in Nat : n = ncap[k]
  BY DEF Sizes
<1>2. PICK j \in Nat : c = ncap[j]
  BY DEF Sizes
<1>3. ncap[k] \in Nat /\ ncap[j] \in Nat
  BY Capacities
<1>4. k > j
  <2> SUFFICES ASSUME k <= j PROVE FALSE
    OBVIOUS
  <2>1. k \in 0 .. j
    OBVIOUS
  <2>2. ncap[k] <= ncap[j]
    BY <2>1, CapacitiesGrow
  <2> QED
    BY <1>1, <1>2, <1>3, <2>2
<1>5. k - 1 \in Nat /\ k - 1 + 1 = k /\ j \in 0 .. k - 1
  BY <1>4
<1>6. ncap[k] = 2 * ncap[k - 1] /\ ncap[k - 1] \in Nat
  BY <1>5, Capacities
<1>7. ncap[j] <= ncap[k - 1]
  BY <1>5, CapacitiesGrow
<1>8. \A x \in Nat : (2 * x) \div 2 = x
  OBVIOUS
<1> QED
  BY <1>1, <1>2, <1>3, <1>6, <1>7, <1>8

-----------------------------------------------------------------------------
(* Moving all items to a new array. *)

LEMMA VacantSound ==
  ASSUME NEW n \in Nat \ {0}, NEW h, NEW K, NEW V
  PROVE  /\ Sound(VacantBuckets(n), n, h, K, V) /\ NBuckets(VacantBuckets(n)) = n
         /\ Occupied(VacantBuckets(n)) = {} /\ Pairs(VacantBuckets(n)) = {}
<1> DEFINE bs == VacantBuckets(n)
<1>1. bs \in Array(n, K, V) /\ \A i \in 0 .. n - 1 : bs[i] = Vacant /\ bs[i].dib = 0
  BY DEF VacantBuckets, Array, Bucket, Vacant
<1> HIDE DEF bs
<1>2. Sound(bs, n, h, K, V)
  BY <1>1 DEF Sound, Cleared, Placed, Ordered, KeysOnce
<1>3. DOMAIN bs = 0 .. n - 1
  BY <1>1 DEF Array
<1>4. Occupied(bs) = {}
  BY <1>1, <1>3 DEF Occupied
<1>5. Pairs(bs) = {}
  BY <1>4 DEF Pairs
<1>6. NBuckets(bs) = n
  BY <1>3, ArraySize
<1> QED
  BY <1>2, <1>4, <1>5, <1>6 DEF bs

LEMMA OccupiedFinite ==
  ASSUME NEW n \in Nat \ {0}, NEW K, NEW V, NEW bs \in Array(n, K, V)
  PROVE  /\ IsFiniteSet(Occupied(bs)) /\ Occupied(bs) \subseteq 0 .. n - 1
         /\ Cardinality(Occupied(bs)) \in Nat
         /\ Cardinality(Occupied(bs)) < n => Occupied(bs) # DOMAIN bs
<1>1. DOMAIN bs = 0 .. n - 1
  BY DEF Array
<1>2. IsFiniteSet(0 .. n - 1)
  BY FS_Interval
<1>3. Occupied(bs) \subseteq 0 .. n - 1
  BY <1>1 DEF Occupied
<1>4. IsFiniteSet(Occupied(bs)) /\ Cardinality(Occupied(bs)) \in Nat
  BY <1>2, <1>3, FS_Subset, FS_CardinalityType
<1>5. Cardinality(DOMAIN bs) = n
  BY <1>1, ArraySize DEF NBuckets
<1> QED
  BY <1>3, <1>4, <1>5

RehashPut(new, b, h) == IF b.dib = 0 THEN new ELSE Place(new, h, b.key, b.val, FALSE).bs

LEMMA RehashPutType ==
  ASSUME NEW n \in Nat \ {0}, NEW h, NEW K, NEW V, \A x \in K : h[x] \in Nat,
         NEW bs, Sound(bs, n, h, K, V), NEW i \in 0 .. n - 1,
         NEW m \in Nat \ {0}, NEW new \in Array(m, K, V)
  PROVE  RehashPut(new, bs[i], h) \in Array(m, K, V)
<1>1. CASE bs[i].dib = 0
  BY <1>1 DEF RehashPut
<1>2. CASE bs[i].dib # 0
  <2> DEFINE k == bs[i].key
             v == bs[i].val
             no == FALSE
  <2>1. k \in K /\ v \in V /\ h[k] \in Nat
    BY <1>2 DEF Sound, Placed
  <2> HIDE DEF k, v, no
  <2>2. /\ PlaceLoop(new, h, k, v, no) \in [0 .. m -> Search(m, K, V)]
        /\ Place(new, h, k, v, no) = PlaceLoop(new, h, k, v, no)[m]
    BY <2>1, PlaceRounds
  <2>3. Place(new, h, k, v, no) \in Search(m, K, V)
    BY <2>2
  <2>4. Place(new, h, k, v, no).bs \in Array(m, K, V)
    BY <2>3 DEF Search
  <2>5. RehashPut(new, bs[i], h) = Place(new, h, k, v, no).bs
    BY <1>2, Zenon DEF RehashPut, k, v, no
  <2> QED
    BY <2>4, <2>5
<1> QED
  BY <1>1, <1>2

LEMMA RehashRounds ==
  ASSUME NEW n \in Nat \ {0}, NEW h, NEW K, NEW V, \A x \in K : h[x] \in Nat,
         NEW bs, Sound(bs, n, h, K, V), NEW c, RoundUp(c) \in Nat \ {0}
  PROVE  LET g == RehashLoop(bs, h, c)
         IN /\ g[0] = VacantBuckets(RoundUp(c))
            /\ \A d \in 0 .. n - 1 : g[d + 1] = RehashPut(g[d], bs[d], h)
            /\ Rehash(bs, h, c) = g[n]
<1> DEFINE f == RehashLoop(bs, h, c)
           m == RoundUp(c)
           S == Array(m, K, V)
           b == VacantBuckets(m)
           F == [d \in 1 .. n |-> [s \in S |-> RehashPut(s, bs[d - 1], h)]]
           Body(s) == [d \in 0 .. NBuckets(bs) |->
                         IF d = 0 THEN VacantBuckets(RoundUp(c)) ELSE RehashPut(s[d - 1], bs[d - 1], h)]
<1>1. NBuckets(bs) = n
  BY ArraySize DEF Sound, Array
<1>2. b \in S
  BY DEF VacantBuckets, Vacant, Array, Bucket
<1>3. F \in [1 .. n -> [S -> S]]
  <2> SUFFICES ASSUME NEW d \in 1 .. n, NEW s \in S PROVE RehashPut(s, bs[d - 1], h) \in S
    OBVIOUS
  <2>1. d - 1 \in 0 .. n - 1
    OBVIOUS
  <2> QED
    BY <2>1, RehashPutType
<1>4. PICK g \in [0 .. n -> S] : Rounds(g, b, F, n)
  <2> HIDE DEF S, b, F
  <2> QED
    BY <1>2, <1>3, Recursion
<1>5. \A s : Body(s) = [d \in 0 .. n |-> IF d = 0 THEN b ELSE RehashPut(s[d - 1], bs[d - 1], h)]
  BY <1>1
<1>6. g = Body(g)
  <2>1. \A d \in 0 .. n : d # 0 => g[d - 1] \in S /\ F[d][g[d - 1]] = RehashPut(g[d - 1], bs[d - 1], h)
    OBVIOUS
  <2>2. g = [d \in 0 .. n |-> IF d = 0 THEN b ELSE F[d][g[d - 1]]]
    BY <1>4 DEF Rounds
  <2> HIDE DEF F, b, Body
  <2> QED
    BY <1>5, <2>1, <2>2
<1>7. f = Body(f)
  <2>1. f = CHOOSE s : s = Body(s)
    BY Zenon DEF RehashLoop, RehashPut
  <2> HIDE DEF f, Body
  <2> QED
    BY <1>6, <2>1, Zenon
<1>8. f = [d \in 0 .. n |-> IF d = 0 THEN b ELSE RehashPut(f[d - 1], bs[d - 1], h)]
  <2> HIDE DEF f, Body, b
  <2> QED
    BY <1>5, <1>7, Zenon
<1>9. Rehash(bs, h, c) = f[n]
  BY <1>1 DEF Rehash
<1> HIDE DEF f, b
<1>10. f[0] = b
  <2>1. 0 \in 0 .. n
    OBVIOUS
  <2> QED
    BY <1>8, <2>1
<1>11. ASSUME NEW d \in 0 .. n - 1 PROVE f[d + 1] = RehashPut(f[d], bs[d], h)
  <2>1. d + 1 \in 0 .. n /\ d + 1 # 0 /\ d + 1 - 1 = d
    OBVIOUS
  <2> QED
    BY <1>8, <2>1
<1> QED
  BY <1>9, <1>10, <1>11 DEF f, b

(* Only the items before bucket d have been moved. *)
Before(bs, d) == {i \in Occupied(bs) : i < d}

Moved(new, bs, d, m, h, K, V) ==
  /\ Sound(new, m, h, K, V)
  /\ Pairs(new) = {<<bs[i].key, bs[i].val>> : i \in Before(bs, d)}
  /\ Cardinality(Occupied(new)) = Cardinality(Before(bs, d))

LEMMA BeforeStep ==
  ASSUME NEW n \in Nat \ {0}, NEW K, NEW V, NEW bs \in Array(n, K, V), NEW d \in 0 .. n - 1
  PROVE  /\ bs[d].dib = 0 => Before(bs, d + 1) = Before(bs, d)
         /\ bs[d].dib # 0 => /\ Before(bs, d + 1) = Before(bs, d) \cup {d} /\ d \notin Before(bs, d)
                             /\ Cardinality(Before(bs, d + 1)) = Cardinality(Before(bs, d)) + 1
         /\ IsFiniteSet(Before(bs, d)) /\ Cardinality(Before(bs, d)) \in Nat
<1>1. IsFiniteSet(Occupied(bs)) /\ Occupied(bs) \subseteq 0 .. n - 1
  BY OccupiedFinite
<1>2. IsFiniteSet(Before(bs, d)) /\ Cardinality(Before(bs, d)) \in Nat
  <2>1. Before(bs, d) \subseteq Occupied(bs)
    BY DEF Before
  <2> QED
    BY <1>1, <2>1, FS_Subset, FS_CardinalityType
<1>3. d \in Occupied(bs) <=> bs[d].dib # 0
  BY DEF Occupied, Array
<1>4. d \notin Before(bs, d)
  BY DEF Before
<1>5. bs[d].dib = 0 => Before(bs, d + 1) = Before(bs, d)
  BY <1>1, <1>3 DEF Before
<1>6. bs[d].dib # 0 => Before(bs, d + 1) = Before(bs, d) \cup {d}
  BY <1>1, <1>3 DEF Before
<1> QED
  BY <1>2, <1>4, <1>5, <1>6, FS_AddElement

LEMMA BeforeAll ==
  ASSUME NEW n \in Nat \ {0}, NEW K, NEW V, NEW bs \in Array(n, K, V)
  PROVE  Before(bs, 0) = {} /\ Before(bs, n) = Occupied(bs)
<1>1. Occupied(bs) \subseteq 0 .. n - 1
  BY OccupiedFinite
<1> QED
  BY <1>1 DEF Before

LEMMA MoveStep ==
  ASSUME NEW n \in Nat \ {0}, NEW h, NEW K, NEW V, \A x \in K : h[x] \in Nat,
         NEW bs, Sound(bs, n, h, K, V), NEW m \in Nat \ {0}, Cardinality(Occupied(bs)) <= m,
         NEW d \in 0 .. n - 1, NEW new, Moved(new, bs, d, m, h, K, V)
  PROVE  Moved(RehashPut(new, bs[d], h), bs, d + 1, m, h, K, V)
<1>1. bs \in Array(n, K, V) /\ new \in Array(m, K, V) /\ Sound(new, m, h, K, V)
  BY DEF Sound, Moved
<1>2. /\ bs[d].dib = 0 => Before(bs, d + 1) = Before(bs, d)
      /\ bs[d].dib # 0 => /\ Before(bs, d + 1) = Before(bs, d) \cup {d} /\ d \notin Before(bs, d)
                          /\ Cardinality(Before(bs, d + 1)) = Cardinality(Before(bs, d)) + 1
      /\ Cardinality(Before(bs, d)) \in Nat
  BY <1>1, BeforeStep
<1>3. CASE bs[d].dib = 0
  BY <1>2, <1>3 DEF RehashPut, Moved
<1>4. CASE bs[d].dib # 0
  <2> DEFINE k == bs[d].key
             v == bs[d].val
             no == FALSE
             r == Place(new, h, k, v, no)
  <2>1. k \in K /\ v \in V
    BY <1>4 DEF Sound, Placed
  <2>2. ASSUME NEW i \in 0 .. m - 1, new[i].dib # 0, new[i].key = k PROVE FALSE
    <3>1. i \in Occupied(new)
      BY <1>1, <2>2 DEF Occupied, Array
    <3>2. <<new[i].key, new[i].val>> \in Pairs(new)
      BY <3>1 DEF Pairs
    <3>3. PICK j \in Before(bs, d) : <<new[i].key, new[i].val>> = <<bs[j].key, bs[j].val>>
      BY <3>2 DEF Moved
    <3>4. j \in 0 .. n - 1 /\ bs[j].dib # 0 /\ bs[j].key = bs[d].key /\ j # d
      BY <1>1, <1>2, <1>4, <2>2, <3>3 DEF Before, Occupied, Array
    <3> QED
      BY <1>4, <3>4 DEF Sound, KeysOnce
  <2>3. Occupied(new) # DOMAIN new
    <3>1. Cardinality(Before(bs, d + 1)) <= Cardinality(Occupied(bs))
      <4>1. Before(bs, d + 1) \subseteq Occupied(bs) /\ IsFiniteSet(Occupied(bs))
        BY <1>1, OccupiedFinite DEF Before
      <4> QED
        BY <4>1, FS_Subset
    <3>2. Cardinality(Occupied(bs)) \in Nat
      BY <1>1, OccupiedFinite
    <3>3. Cardinality(Occupied(new)) = Cardinality(Before(bs, d))
      BY DEF Moved
    <3>4. Cardinality(Occupied(new)) < m
      BY <1>2, <1>4, <3>1, <3>2, <3>3
    <3> QED
      BY <1>1, <3>4, OccupiedFinite
  <2> HIDE DEF k, v, no
  <2>4. Inserted(r, new, m, h, K, V, k, v)
    BY <1>1, <2>1, <2>2, <2>3, PlaceNew
  <2>5. RehashPut(new, bs[d], h) = r.bs
    BY <1>4, Zenon DEF RehashPut, k, v, no
  <2> HIDE DEF r
  <2>6. Sound(r.bs, m, h, K, V) /\ Pairs(r.bs) = Pairs(new) \cup {<<k, v>>}
    BY <2>4 DEF Inserted
  <2>7. Pairs(r.bs) = {<<bs[i].key, bs[i].val>> : i \in Before(bs, d + 1)}
    BY <1>2, <1>4, <2>6 DEF Moved, k, v
  <2>8. PICK w \in (0 .. m - 1) \ Occupied(new) : Occupied(r.bs) = Occupied(new) \cup {w}
    BY <2>4 DEF Inserted
  <2>9. Cardinality(Occupied(r.bs)) = Cardinality(Occupied(new)) + 1
    BY <1>1, <2>8, OccupiedFinite, FS_AddElement
  <2> QED
    BY <1>2, <1>4, <2>5, <2>6, <2>7, <2>9 DEF Moved
<1> QED
  BY <1>3, <1>4

(* A resize moves every item and makes nothing up. *)
LEMMA RehashSound ==
  ASSUME NEW n \in Nat \ {0}, NEW h, NEW K, NEW V, \A x \in K : h[x] \in Nat,
         NEW bs, Sound(bs, n, h, K, V), NEW c, NEW m \in Nat \ {0}, m = RoundUp(c),
         Cardinality(Occupied(bs)) <= m
  PROVE  LET r == Rehash(bs, h, c)
         IN /\ Sound(r, m, h, K, V) /\ Pairs(r) = Pairs(bs)
            /\ Cardinality(Occupied(r)) = Cardinality(Occupied(bs))
<1> DEFINE g == RehashLoop(bs, h, c)
           T == {d \in Nat : d <= n => Moved(g[d], bs, d, m, h, K, V)}
<1>1. /\ g[0] = VacantBuckets(m)
      /\ \A d \in 0 .. n - 1 : g[d + 1] = RehashPut(g[d], bs[d], h)
      /\ Rehash(bs, h, c) = g[n]
  <2>1. RoundUp(c) \in Nat \ {0}
    OBVIOUS
  <2>2. /\ g[0] = VacantBuckets(RoundUp(c))
        /\ \A d \in 0 .. n - 1 : g[d + 1] = RehashPut(g[d], bs[d], h)
        /\ Rehash(bs, h, c) = g[n]
    BY <2>1, RehashRounds
  <2> QED
    BY <2>2
<1>2. bs \in Array(n, K, V)
  BY DEF Sound
<1>3. Before(bs, 0) = {} /\ Before(bs, n) = Occupied(bs)
  BY <1>2, BeforeAll
<1> HIDE DEF g
<1>4. 0 \in T
  <2>1. /\ Sound(g[0], m, h, K, V) /\ Occupied(g[0]) = {} /\ Pairs(g[0]) = {}
    BY <1>1, VacantSound
  <2>2. Moved(g[0], bs, 0, m, h, K, V)
    BY <1>3, <2>1 DEF Moved
  <2> QED
    BY <2>2
<1>5. ASSUME NEW d \in Nat, d \in T PROVE d + 1 \in T
  <2> SUFFICES ASSUME d + 1 <= n PROVE Moved(g[d + 1], bs, d + 1, m, h, K, V)
    OBVIOUS
  <2>1. d \in 0 .. n - 1 /\ Moved(g[d], bs, d, m, h, K, V)
    BY <1>5
  <2>2. g[d + 1] = RehashPut(g[d], bs[d], h)
    BY <1>1, <2>1
  <2> QED
    BY <2>1, <2>2, MoveStep
<1>6. Moved(g[n], bs, n, m, h, K, V)
  <2>1. n \in T
    <3> HIDE DEF T
    <3> QED
      BY <1>4, <1>5, Induction
  <2> QED
    BY <2>1
<1> QED
  BY <1>1, <1>3, <1>6 DEF Moved, Pairs

-----------------------------------------------------------------------------
(* Looking up a key. *)

LEMMA LeastOfInterval ==
  ASSUME NEW n \in Nat, NEW S \in SUBSET (1 .. n), S # {}
  PROVE  Min(S) \in S /\ \A y \in S : Min(S) <= y
<1>1. S \in SUBSET Nat
  OBVIOUS
<1>2. \E m \in S : \A k \in S : m <= k
  BY <1>1, Least
<1> QED
  BY <1>2 DEF Min

Probed(bs, h, k, n) ==
  LET a == h[k] % n
  IN /\ Stops(bs, h, k) = {d \in 1 .. n : bs[At(a, d - 1, n)].dib = 0 \/ bs[At(a, d - 1, n)].key = k}
     /\ Stops(bs, h, k) # {} => /\ Min(Stops(bs, h, k)) \in Stops(bs, h, k)
                                /\ ProbeEnd(bs, h, k) = At(a, Min(Stops(bs, h, k)) - 1, n)

LEMMA ProbeIs ==
  ASSUME NEW n \in Nat \ {0}, NEW K, NEW V, NEW bs \in Array(n, K, V), NEW h, NEW k, h[k] \in Nat
  PROVE  Probed(bs, h, k, n)
<1> DEFINE a == h[k] % n
           P == ProbeSeq(bs, h, k)
<1>1. NBuckets(bs) = n
  BY ArraySize DEF Array
<1>2. a \in 0 .. n - 1
  BY RemainderType
<1>3. ASSUME NEW d \in 1 .. n PROVE P[d] = At(a, d - 1, n)
  <2>1. P[d] = (a + d - 1) % n
    BY <1>1 DEF ProbeSeq, Home
  <2> HIDE DEF a, P
  <2>2. d - 1 \in 0 .. n - 1 /\ a + d - 1 = a + (d - 1)
    BY <1>2
  <2> QED
    BY <1>2, <2>1, <2>2, Ring
<1> HIDE DEF a
<1>4. Stops(bs, h, k) = {d \in 1 .. n : bs[P[d]].dib = 0 \/ bs[P[d]].key = k}
  BY <1>1 DEF Stops
<1> HIDE DEF P
<1>5. Stops(bs, h, k) = {d \in 1 .. n : bs[At(a, d - 1, n)].dib = 0 \/ bs[At(a, d - 1, n)].key = k}
  BY <1>3, <1>4
<1>6. ASSUME Stops(bs, h, k) # {}
      PROVE  /\ Min(Stops(bs, h, k)) \in Stops(bs, h, k)
             /\ ProbeEnd(bs, h, k) = At(a, Min(Stops(bs, h, k)) - 1, n)
  <2>1. Stops(bs, h, k) \in SUBSET (1 .. n)
    BY <1>5
  <2>2. Min(Stops(bs, h, k)) \in Stops(bs, h, k)
    BY <1>6, <2>1, LeastOfInterval
  <2> QED
    BY <1>3, <2>1, <2>2 DEF ProbeEnd, P
<1> QED
  BY <1>5, <1>6 DEF Probed, a

(* The lookup of a stored key ends at its bucket. *)
LEMMA ProbeStored ==
  ASSUME NEW n \in Nat \ {0}, NEW h, NEW K, NEW V, \A x \in K : h[x] \in Nat,
         NEW bs, Sound(bs, n, h, K, V), NEW j \in 0 .. n - 1, bs[j].dib # 0
  PROVE  ProbeEnd(bs, h, bs[j].key) = j
<1> DEFINE k == bs[j].key
           a == h[k] % n
           D == Back(j, a, n)
<1>1. bs \in Array(n, K, V) /\ k \in K /\ h[k] \in Nat
  BY DEF Sound, Placed
<1>2. /\ a \in 0 .. n - 1 /\ D \in 0 .. n - 1 /\ At(a, D, n) = j
      /\ \A d \in 0 .. D : bs[At(a, d, n)].dib >= d + 1
      /\ \A d \in 0 .. D - 1 : bs[At(a, d, n)].key # k
  <2>1. Path(bs, n, h, j)
    BY Passed
  <2> QED
    BY <2>1 DEF Path
<1>3. bs[j].key = k
  OBVIOUS
<1> HIDE DEF k, a, D
<1> DEFINE S == Stops(bs, h, k)
<1>4. /\ S = {d \in 1 .. n : bs[At(a, d - 1, n)].dib = 0 \/ bs[At(a, d - 1, n)].key = k}
      /\ S # {} => Min(S) \in S /\ ProbeEnd(bs, h, k) = At(a, Min(S) - 1, n)
  <2>1. Probed(bs, h, k, n)
    BY <1>1, ProbeIs
  <2> QED
    BY <2>1 DEF Probed, a
<1> HIDE DEF S
<1>5. D + 1 \in S
  <2>1. D + 1 \in 1 .. n /\ D + 1 - 1 = D
    BY <1>2
  <2> QED
    BY <1>2, <1>3, <1>4, <2>1
<1>6. ~(\E d \in S : d <= D)
  <2> SUFFICES ASSUME NEW d \in S, d <= D PROVE FALSE
    OBVIOUS
  <2>0. d \in 1 .. n
    BY <1>4
  <2>1. d - 1 \in 0 .. n - 1 /\ d - 1 \in 0 .. D /\ d - 1 \in 0 .. D - 1
    BY <1>2, <2>0
  <2>2. At(a, d - 1, n) \in 0 .. n - 1
    BY <1>2, <2>1, Ring
  <2>3. bs[At(a, d - 1, n)].dib \in Nat
    BY <1>1, <2>2 DEF Array, Bucket
  <2>4. bs[At(a, d - 1, n)].dib # 0 /\ bs[At(a, d - 1, n)].key # k
    BY <1>2, <2>1, <2>3
  <2> QED
    BY <1>4, <2>4
<1>7. S \in SUBSET (1 .. n) /\ S # {}
  BY <1>4, <1>5
<1>8. Min(S) \in S /\ \A y \in S : Min(S) <= y
  BY <1>7, LeastOfInterval
<1>9. Min(S) = D + 1
  <2>1. Min(S) <= D + 1 /\ Min(S) \in Nat
    <3>1. Min(S) \in 1 .. n
      BY <1>7, <1>8
    <3> QED
      BY <1>2, <1>5, <1>8, <3>1
  <2>2. ~(Min(S) <= D)
    BY <1>6, <1>8, Zenon
  <2> QED
    BY <1>2, <2>1, <2>2
<1>10. Min(S) - 1 = D
  BY <1>2, <1>9
<1> QED
  BY <1>2, <1>4, <1>7, <1>10 DEF k

(* The lookup of a key that is not stored ends at a vacant bucket. *)
LEMMA ProbeMissing ==
  ASSUME NEW n \in Nat \ {0}, NEW h, NEW K, NEW V, \A x \in K : h[x] \in Nat,
         NEW bs, Sound(bs, n, h, K, V), NEW k \in K, NoKey \notin K, Occupied(bs) # DOMAIN bs,
         \A i \in 0 .. n - 1 : bs[i].dib # 0 => bs[i].key # k
  PROVE  bs[ProbeEnd(bs, h, k)].key # k
<1> DEFINE a == h[k] % n
           S == Stops(bs, h, k)
<1>1. bs \in Array(n, K, V) /\ h[k] \in Nat
  BY DEF Sound
<1>2. a \in 0 .. n - 1
  BY <1>1, RemainderType
<1> HIDE DEF a
<1>3. /\ S = {d \in 1 .. n : bs[At(a, d - 1, n)].dib = 0 \/ bs[At(a, d - 1, n)].key = k}
      /\ S # {} => Min(S) \in S /\ ProbeEnd(bs, h, k) = At(a, Min(S) - 1, n)
  <2>1. Probed(bs, h, k, n)
    BY <1>1, ProbeIs
  <2> QED
    BY <2>1 DEF Probed, a
<1> HIDE DEF S
<1>4. S # {}
  <2>1. PICK w \in 0 .. n - 1 : bs[w].dib = 0
    BY <1>1 DEF Occupied, Array
  <2>2. Back(w, a, n) \in 0 .. n - 1 /\ At(a, Back(w, a, n), n) = w
    BY <1>2, Reached
  <2>3. Back(w, a, n) + 1 \in 1 .. n /\ Back(w, a, n) + 1 - 1 = Back(w, a, n)
    BY <2>2
  <2>4. Back(w, a, n) + 1 \in S
    BY <1>3, <2>1, <2>2, <2>3
  <2> QED
    BY <2>4
<1>5. \A i \in 0 .. n - 1 : bs[i].dib = 0 => bs[i].key # k
  BY DEF Sound, Cleared, Vacant
<1>6. ProbeEnd(bs, h, k) \in 0 .. n - 1
  <2>1. Min(S) - 1 \in 0 .. n - 1
    BY <1>3, <1>4
  <2> QED
    BY <1>2, <1>3, <1>4, <2>1, Ring
<1> QED
  BY <1>5, <1>6

-----------------------------------------------------------------------------
(***************************************************************************)
(* Deleting the item of bucket i: the run of displaced items behind it     *)
(* moves up by one, and the last bucket of the run becomes vacant.         *)
(***************************************************************************)
LEMMA RingSteps ==
  ASSUME NEW n \in Nat \ {0}, NEW i \in 0 .. n - 1, NEW j \in 0 .. n - 1
  PROVE  /\ Back(j, i, n) = 0 <=> j = i
         /\ Back(j, i, n) + 1 < n =>
              /\ At(j, 1, n) \in 0 .. n - 1 /\ Back(At(j, 1, n), i, n) = Back(j, i, n) + 1
              /\ Back(At(j, 1, n), 1, n) = j
         /\ Back(j, i, n) > 0 =>
              /\ Back(j, 1, n) \in 0 .. n - 1 /\ Back(Back(j, 1, n), i, n) = Back(j, i, n) - 1
              /\ At(Back(j, 1, n), 1, n) = j
         /\ n > 1 /\ j = i => Back(Back(j, 1, n), i, n) = n - 1
BY DEF At, Back

LEMMA RingZero ==
  ASSUME NEW n \in Nat \ {0}, NEW i \in 0 .. n - 1
  PROVE  Back(i, i, n) = 0 /\ \A j \in 0 .. n - 1 : j # i => Back(j, i, n) \in 1 .. n - 1
BY DEF Back

LEMMA RingOnce ==
  ASSUME NEW n \in Nat \ {0}, NEW i \in 0 .. n - 1, NEW j \in 0 .. n - 1, NEW l \in 0 .. n - 1,
         Back(j, i, n) = Back(l, i, n)
  PROVE  j = l
BY DEF Back

LEMMA RunIs ==
  ASSUME NEW n \in Nat \ {0}, NEW K, NEW V, NEW bs \in Array(n, K, V),
         NEW i \in 0 .. n - 1, bs[i].dib # 0, Occupied(bs) # DOMAIN bs
  PROVE  LET R == Run(bs, i)
         IN /\ R \in 1 .. n - 1
            /\ \A j \in 0 .. n - 1 : Back(j, i, n) \in 1 .. R - 1 => bs[j].dib > 1
            /\ \A j \in 0 .. n - 1 : Back(j, i, n) = R => bs[j].dib <= 1
<1> DEFINE S == {d \in 1 .. n : bs[(i + d) % NBuckets(bs)].dib <= 1}
<1>1. NBuckets(bs) = n
  BY ArraySize DEF Array
<1>2. Run(bs, i) = Min(S)
  BY <1>1 DEF Run
<1>3. \A d \in 1 .. n - 1 : At(i, d, n) \in 0 .. n - 1 /\ (d \in S <=> bs[At(i, d, n)].dib <= 1)
  <2> SUFFICES ASSUME NEW d \in 1 .. n - 1
               PROVE  At(i, d, n) \in 0 .. n - 1 /\ (d \in S <=> bs[At(i, d, n)].dib <= 1)
    OBVIOUS
  <2>1. d \in 0 .. n - 1 /\ d \in 1 .. n
    OBVIOUS
  <2>2. (i + d) % n = At(i, d, n) /\ At(i, d, n) \in 0 .. n - 1
    BY <2>1, Ring
  <2> QED
    BY <1>1, <2>1, <2>2
<1>4. S \in SUBSET (1 .. n)
  OBVIOUS
<1> HIDE DEF S
<1>5. PICK w \in 0 .. n - 1 : bs[w].dib = 0
  BY DEF Occupied, Array
<1>6. Back(w, i, n) \in 1 .. n - 1 /\ At(i, Back(w, i, n), n) = w
  <2>1. Back(w, i, n) \in 0 .. n - 1 /\ At(i, Back(w, i, n), n) = w
    BY Reached
  <2>2. Back(w, i, n) # 0
    BY <1>5, RingSteps
  <2> QED
    BY <2>1, <2>2
<1>7. Back(w, i, n) \in S
  BY <1>3, <1>5, <1>6
<1>8. Min(S) \in S /\ \A y \in S : Min(S) <= y
  BY <1>4, <1>7, LeastOfInterval
<1>9. Min(S) \in 1 .. n - 1
  <2>1. Min(S) \in 1 .. n /\ Min(S) <= Back(w, i, n)
    BY <1>4, <1>7, <1>8
  <2> QED
    BY <1>6, <2>1
<1>10. \A j \in 0 .. n - 1 : Back(j, i, n) \in 0 .. n - 1 /\ At(i, Back(j, i, n), n) = j /\ bs[j].dib \in Nat
  BY Reached DEF Array, Bucket
<1>11. ASSUME NEW j \in 0 .. n - 1, Back(j, i, n) \in 1 .. Min(S) - 1 PROVE bs[j].dib > 1
  <2>1. Back(j, i, n) \notin S /\ Back(j, i, n) \in 1 .. n - 1
    BY <1>8, <1>9, <1>11
  <2> QED
    BY <1>3, <1>10, <2>1
<1>12. ASSUME NEW j \in 0 .. n - 1, Back(j, i, n) = Min(S) PROVE bs[j].dib <= 1
  BY <1>3, <1>8, <1>9, <1>10, <1>12
<1> QED
  BY <1>2, <1>9, <1>11, <1>12

LEMMA BackShiftIs ==
  ASSUME NEW n \in Nat \ {0}, NEW K, NEW V, NEW bs \in Array(n, K, V),
         NEW i \in 0 .. n - 1, bs[i].dib # 0, Occupied(bs) # DOMAIN bs
  PROVE  LET R == Run(bs, i)
             new == BackShift(bs, i)
         IN /\ new \in Array(n, K, V)
            /\ \A j \in 0 .. n - 1 :
                 /\ Back(j, i, n) < R - 1 =>
                      /\ new[j].dib = bs[At(j, 1, n)].dib - 1 /\ new[j].dib >= 1
                      /\ new[j].key = bs[At(j, 1, n)].key /\ new[j].val = bs[At(j, 1, n)].val
                 /\ Back(j, i, n) = R - 1 => new[j] = Vacant
                 /\ Back(j, i, n) > R - 1 => new[j] = bs[j]
<1> DEFINE R == Run(bs, i)
           new == BackShift(bs, i)
           Up(j) == [bs[At(j, 1, n)] EXCEPT !.dib = bs[At(j, 1, n)].dib - 1]
<1>1. NBuckets(bs) = n /\ DOMAIN bs = 0 .. n - 1
  BY ArraySize DEF Array
<1>2. R \in 1 .. n - 1 /\ \A j \in 0 .. n - 1 : Back(j, i, n) \in 1 .. R - 1 => bs[j].dib > 1
  BY RunIs
<1>3. new = [j \in 0 .. n - 1 |-> IF (j + n - i) % n < R - 1
               THEN [bs[(j + 1) % n] EXCEPT !.dib = bs[(j + 1) % n].dib - 1]
               ELSE IF (j + n - i) % n = R - 1 THEN Vacant ELSE bs[j]]
  BY <1>1 DEF BackShift
<1> HIDE DEF R, new
<1>4. ASSUME NEW j \in 0 .. n - 1
      PROVE  /\ Back(j, i, n) \in 0 .. n - 1
             /\ new[j] = IF Back(j, i, n) < R - 1 THEN Up(j)
                         ELSE IF Back(j, i, n) = R - 1 THEN Vacant ELSE bs[j]
  <2>1. 1 \in 0 .. n - 1
    BY <1>2
  <2>2. (j + n - i) % n = Back(j, i, n) /\ Back(j, i, n) \in 0 .. n - 1
    BY Ring
  <2>3. (j + 1) % n = At(j, 1, n)
    BY <2>1, Ring
  <2> QED
    BY <1>3, <2>2, <2>3
<1>5. ASSUME NEW j \in 0 .. n - 1, Back(j, i, n) < R - 1
      PROVE  /\ Up(j) \in Bucket(K, V) /\ Up(j).dib = bs[At(j, 1, n)].dib - 1 /\ Up(j).dib >= 1
             /\ Up(j).key = bs[At(j, 1, n)].key /\ Up(j).val = bs[At(j, 1, n)].val
  <2> DEFINE l == At(j, 1, n)
  <2>0. Back(j, i, n) \in 0 .. n - 1
    BY <1>4
  <2>1. Back(j, i, n) + 1 < n
    BY <1>2, <1>5, <2>0
  <2>2. l \in 0 .. n - 1 /\ Back(l, i, n) = Back(j, i, n) + 1
    BY <2>1, RingSteps DEF l
  <2>3. Back(l, i, n) \in 1 .. R - 1
    BY <1>2, <1>5, <2>0, <2>2
  <2>4. bs[l] \in Bucket(K, V) /\ bs[l].dib > 1 /\ bs[l].dib \in Nat
    BY <1>2, <2>2, <2>3 DEF Array, Bucket
  <2> HIDE DEF l
  <2> QED
    BY <2>4 DEF Bucket, l
<1>6. ASSUME NEW j \in 0 .. n - 1 PROVE new[j] \in Bucket(K, V)
  <2>1. Vacant \in Bucket(K, V) /\ bs[j] \in Bucket(K, V)
    BY DEF Array, Bucket, Vacant
  <2>2. Back(j, i, n) < R - 1 => Up(j) \in Bucket(K, V)
    BY <1>5
  <2> HIDE DEF Up
  <2> QED
    BY <1>4, <2>1, <2>2
<1>7. new = [j \in 0 .. n - 1 |-> new[j]]
  BY <1>3
<1>8. new \in Array(n, K, V)
  BY <1>6, <1>7 DEF Array
<1> HIDE DEF Up
<1>9. ASSUME NEW j \in 0 .. n - 1
      PROVE  /\ Back(j, i, n) < R - 1 =>
                  /\ new[j].dib = bs[At(j, 1, n)].dib - 1 /\ new[j].dib >= 1
                  /\ new[j].key = bs[At(j, 1, n)].key /\ new[j].val = bs[At(j, 1, n)].val
             /\ Back(j, i, n) = R - 1 => new[j] = Vacant
             /\ Back(j, i, n) > R - 1 => new[j] = bs[j]
  BY <1>2, <1>4, <1>5
<1> QED
  BY <1>8, <1>9 DEF R, new

(* Where an item of the new array comes from, and where an old one goes. *)
From(j, i, R, n) == IF Back(j, i, n) < R - 1 THEN At(j, 1, n) ELSE j

LEMMA ShiftFrom ==
  ASSUME NEW n \in Nat \ {0}, NEW K, NEW V, NEW bs \in Array(n, K, V),
         NEW i \in 0 .. n - 1, bs[i].dib # 0, Occupied(bs) # DOMAIN bs,
         NEW j \in 0 .. n - 1, BackShift(bs, i)[j].dib # 0
  PROVE  LET R == Run(bs, i)
             new == BackShift(bs, i)
             l == From(j, i, R, n)
         IN /\ l \in 0 .. n - 1 /\ l # i /\ bs[l].dib # 0
            /\ new[j].key = bs[l].key /\ new[j].val = bs[l].val
            /\ \/ /\ Back(j, i, n) < R - 1 /\ l = At(j, 1, n) /\ Back(l, i, n) = Back(j, i, n) + 1
                  /\ Back(l, 1, n) = j /\ new[j].dib = bs[l].dib - 1 /\ bs[l].dib > 1
               \/ Back(j, i, n) > R - 1 /\ l = j /\ new[j] = bs[j]
<1> DEFINE R == Run(bs, i)
           new == BackShift(bs, i)
           l == From(j, i, R, n)
<1>1. R \in 1 .. n - 1
  BY RunIs
<1>2. /\ Back(j, i, n) < R - 1 =>
           /\ new[j].dib = bs[At(j, 1, n)].dib - 1 /\ new[j].dib >= 1
           /\ new[j].key = bs[At(j, 1, n)].key /\ new[j].val = bs[At(j, 1, n)].val
      /\ Back(j, i, n) = R - 1 => new[j] = Vacant
      /\ Back(j, i, n) > R - 1 => new[j] = bs[j]
  BY BackShiftIs
<1>3. new[j].dib # 0
  OBVIOUS
<1> HIDE DEF R, new
<1>4. Back(j, i, n) \in 0 .. n - 1
  BY Reached
<1>5. Back(j, i, n) # R - 1
  BY <1>2, <1>3 DEF Vacant
<1>6. CASE Back(j, i, n) < R - 1
  <2>1. Back(j, i, n) + 1 < n /\ l = At(j, 1, n)
    BY <1>1, <1>4, <1>6 DEF From
  <2>2. l \in 0 .. n - 1 /\ Back(l, i, n) = Back(j, i, n) + 1 /\ Back(l, 1, n) = j
    BY <2>1, RingSteps
  <2> HIDE DEF l
  <2>3. l # i
    BY <1>4, <2>2, RingZero
  <2>4. bs[l].dib \in Nat
    BY <2>2 DEF Array, Bucket
  <2> QED
    BY <1>2, <1>6, <2>1, <2>2, <2>3, <2>4 DEF l, R, new
<1>7. CASE Back(j, i, n) > R - 1
  <2>1. l = j
    BY <1>1, <1>4, <1>7 DEF From
  <2>2. j # i
    <3>1. Back(j, i, n) # 0
      BY <1>1, <1>4, <1>7
    <3> QED
      BY <3>1, RingSteps
  <2> QED
    BY <1>2, <1>3, <1>7, <2>1, <2>2 DEF R, new
<1> QED
  BY <1>1, <1>4, <1>5, <1>6, <1>7

LEMMA ShiftTo ==
  ASSUME NEW n \in Nat \ {0}, NEW K, NEW V, NEW bs \in Array(n, K, V),
         NEW i \in 0 .. n - 1, bs[i].dib # 0, Occupied(bs) # DOMAIN bs,
         NEW l \in 0 .. n - 1, bs[l].dib # 0, l # i
  PROVE  LET new == BackShift(bs, i)
         IN \E j \in 0 .. n - 1 : new[j].dib # 0 /\ new[j].key = bs[l].key /\ new[j].val = bs[l].val
<1> DEFINE R == Run(bs, i)
           new == BackShift(bs, i)
<1>1. R \in 1 .. n - 1
  BY RunIs
<1>2. \A j \in 0 .. n - 1 :
        /\ Back(j, i, n) < R - 1 =>
             /\ new[j].dib >= 1
             /\ new[j].key = bs[At(j, 1, n)].key /\ new[j].val = bs[At(j, 1, n)].val
        /\ Back(j, i, n) > R - 1 => new[j] = bs[j]
  BY BackShiftIs
<1> HIDE DEF R, new
<1>3. Back(l, i, n) \in 1 .. n - 1
  BY RingZero
<1>4. CASE Back(l, i, n) > R - 1
  BY <1>2, <1>4 DEF new
<1>5. CASE Back(l, i, n) < R
  <2> DEFINE j == Back(l, 1, n)
  <2>1. j \in 0 .. n - 1 /\ Back(j, i, n) = Back(l, i, n) - 1 /\ At(j, 1, n) = l
    <3>1. Back(l, i, n) > 0
      BY <1>3
    <3> QED
      BY <3>1, RingSteps
  <2> HIDE DEF j
  <2>2. Back(j, i, n) < R - 1
    BY <1>1, <1>3, <1>5, <2>1
  <2>3. new[j].dib >= 1 /\ new[j].key = bs[l].key /\ new[j].val = bs[l].val
    BY <1>2, <2>1, <2>2
  <2>4. new[j].dib # 0
    BY <2>3
  <2> QED
    BY <2>1, <2>3, <2>4 DEF new
<1> QED
  BY <1>1, <1>3, <1>4, <1>5

LEMMA BackShiftSound ==
  ASSUME NEW n \in Nat \ {0}, NEW h, NEW K, NEW V, \A x \in K : h[x] \in Nat,
         NEW bs, Sound(bs, n, h, K, V), NEW i \in 0 .. n - 1, bs[i].dib # 0,
         Occupied(bs) # DOMAIN bs
  PROVE  Sound(BackShift(bs, i), n, h, K, V)
<1> DEFINE R == Run(bs, i)
           new == BackShift(bs, i)
<1>1. bs \in Array(n, K, V) /\ \A j \in 0 .. n - 1 : bs[j].dib \in Nat
  BY DEF Sound, Array, Bucket
<1>2. R \in 1 .. n - 1 /\ \A j \in 0 .. n - 1 : Back(j, i, n) = R => bs[j].dib <= 1
  BY <1>1, RunIs
<1>3. /\ new \in Array(n, K, V)
      /\ \A j \in 0 .. n - 1 :
           /\ Back(j, i, n) < R - 1 => new[j].dib = bs[At(j, 1, n)].dib - 1 /\ new[j].dib >= 1
           /\ Back(j, i, n) = R - 1 => new[j] = Vacant
           /\ Back(j, i, n) > R - 1 => new[j] = bs[j]
  BY <1>1, BackShiftIs
<1>4. ASSUME NEW j \in 0 .. n - 1, new[j].dib # 0
      PROVE  LET l == From(j, i, R, n)
             IN /\ l \in 0 .. n - 1 /\ l # i /\ bs[l].dib # 0
                /\ new[j].key = bs[l].key /\ new[j].val = bs[l].val
                /\ \/ /\ Back(j, i, n) < R - 1 /\ l = At(j, 1, n) /\ Back(l, i, n) = Back(j, i, n) + 1
                      /\ Back(l, 1, n) = j /\ new[j].dib = bs[l].dib - 1 /\ bs[l].dib > 1
                   \/ Back(j, i, n) > R - 1 /\ l = j /\ new[j] = bs[j]
  BY <1>1, <1>4, ShiftFrom
<1> HIDE DEF R, new
<1>5. \A j \in 0 .. n - 1 : Back(j, i, n) \in 0 .. n - 1 /\ new[j].dib \in Nat
  BY <1>3, Reached DEF Array, Bucket
<1>6. Cleared(new, n)
  <2> SUFFICES ASSUME NEW j \in 0 .. n - 1, new[j].dib = 0 PROVE new[j] = Vacant
    BY DEF Cleared
  <2>1. ~(Back(j, i, n) < R - 1)
    BY <1>3
  <2>2. Back(j, i, n) > R - 1 => bs[j] = Vacant
    BY <1>3 DEF Sound, Cleared
  <2>3. Back(j, i, n) < R - 1 \/ Back(j, i, n) = R - 1 \/ Back(j, i, n) > R - 1
    BY <1>2, <1>5
  <2> QED
    BY <1>3, <2>1, <2>2, <2>3, Zenon
<1>7. Placed(new, n, h, K, V)
  <2> SUFFICES ASSUME NEW j \in 0 .. n - 1, new[j].dib # 0
               PROVE  new[j].key \in K /\ new[j].val \in V /\ new[j].dib = Back(j, h[new[j].key] % n, n) + 1
    BY DEF Placed
  <2> DEFINE l == From(j, i, R, n)
             x == h[new[j].key] % n
  <2>1. /\ l \in 0 .. n - 1 /\ bs[l].dib # 0 /\ new[j].key = bs[l].key /\ new[j].val = bs[l].val
        /\ \/ Back(l, 1, n) = j /\ new[j].dib = bs[l].dib - 1 /\ bs[l].dib > 1
           \/ l = j /\ new[j] = bs[j]
    BY <1>4
  <2> HIDE DEF l
  <2>2. new[j].key \in K /\ new[j].val \in V /\ bs[l].dib = Back(l, x, n) + 1
    <3>1. \A m \in 0 .. n - 1 : bs[m].dib # 0 =>
            bs[m].key \in K /\ bs[m].val \in V /\ bs[m].dib = Back(m, h[bs[m].key] % n, n) + 1
      BY DEF Sound, Placed
    <3>2. bs[l].key \in K /\ bs[l].val \in V /\ bs[l].dib = Back(l, h[bs[l].key] % n, n) + 1
      BY <2>1, <3>1, Zenon
    <3> QED
      BY <2>1, <3>2, Zenon DEF x
  <2>3. x \in 0 .. n - 1
    BY <2>2, RemainderType
  <2> HIDE DEF x
  <2>4. CASE Back(l, 1, n) = j /\ new[j].dib = bs[l].dib - 1 /\ bs[l].dib > 1
    <3>1. Back(l, x, n) \in 0 .. n - 1
      BY <2>1, <2>3, Reached
    <3>2. Back(l, x, n) > 0
      BY <2>2, <2>4, <3>1
    <3>3. Back(j, x, n) = Back(l, x, n) - 1
      BY <2>1, <2>3, <2>4, <3>2, RingSteps
    <3> QED
      BY <2>2, <2>4, <3>1, <3>3 DEF x
  <2>5. CASE l = j /\ new[j] = bs[j]
    BY <2>2, <2>5 DEF x
  <2> QED
    BY <2>1, <2>4, <2>5
<1>8. Ordered(new, n)
  <2> SUFFICES ASSUME NEW j \in 0 .. n - 1, new[j].dib # 0
               PROVE  new[j].dib <= new[Back(j, 1, n)].dib + 1
    BY DEF Ordered
  <2> DEFINE l == From(j, i, R, n)
             b == Back(j, 1, n)
  <2>1. b \in 0 .. n - 1
    BY BackOne
  <2>2. /\ l \in 0 .. n - 1 /\ l # i /\ bs[l].dib # 0
        /\ \/ /\ Back(j, i, n) < R - 1 /\ l = At(j, 1, n) /\ Back(l, 1, n) = j
              /\ new[j].dib = bs[l].dib - 1
           \/ Back(j, i, n) > R - 1 /\ l = j /\ new[j] = bs[j]
    BY <1>4
  <2>3. bs[l].dib <= bs[Back(l, 1, n)].dib + 1
    BY <2>2 DEF Sound, Ordered
  <2>4. bs[i].dib <= bs[Back(i, 1, n)].dib + 1
    BY DEF Sound, Ordered
  <2> HIDE DEF l, b
  <2>5. CASE Back(j, i, n) < R - 1 /\ j = i
    <3>1. Back(b, i, n) = n - 1 /\ n - 1 > R - 1
      BY <1>2, <2>5, RingSteps DEF b
    <3>2. new[b] = bs[b]
      BY <1>3, <2>1, <3>1
    <3>3. new[j].dib = bs[l].dib - 1 /\ bs[l].dib <= bs[i].dib + 1 /\ bs[i].dib <= bs[b].dib + 1
      BY <1>2, <1>5, <2>2, <2>3, <2>4, <2>5 DEF b
    <3> QED
      BY <1>1, <2>1, <2>2, <3>2, <3>3 DEF b
  <2>6. CASE Back(j, i, n) < R - 1 /\ j # i
    <3>1. Back(j, i, n) > 0
      BY <2>6, RingZero
    <3>2. Back(b, i, n) = Back(j, i, n) - 1 /\ At(b, 1, n) = j
      BY <3>1, RingSteps DEF b
    <3>3. Back(b, i, n) < R - 1
      BY <1>2, <1>5, <2>6, <3>2
    <3>4. new[b].dib = bs[j].dib - 1
      BY <1>3, <2>1, <3>2, <3>3
    <3>5. new[j].dib = bs[l].dib - 1 /\ bs[l].dib <= bs[j].dib + 1
      BY <1>2, <1>5, <2>2, <2>3, <2>6
    <3> QED
      BY <1>1, <2>1, <2>2, <3>4, <3>5 DEF b
  <2>7. CASE Back(j, i, n) = R
    <3>1. new[j] = bs[j] /\ bs[j].dib <= 1
      BY <1>2, <1>3, <2>7
    <3>2. new[b].dib \in Nat
      BY <1>5, <2>1
    <3> QED
      BY <1>1, <3>1, <3>2 DEF b
  <2>8. CASE Back(j, i, n) > R
    <3>1. Back(j, i, n) > 0 /\ Back(j, i, n) > R - 1
      BY <1>2, <1>5, <2>8
    <3>2. Back(b, i, n) = Back(j, i, n) - 1
      BY <3>1, RingSteps DEF b
    <3>3. Back(b, i, n) > R - 1
      BY <1>2, <1>5, <2>8, <3>2
    <3>4. new[b] = bs[b] /\ new[j] = bs[j]
      BY <1>3, <2>1, <3>1, <3>3
    <3>5. bs[j].dib <= bs[b].dib + 1
      BY <3>4 DEF Sound, Ordered, b
    <3> QED
      BY <3>4, <3>5 DEF b
  <2>9. Back(j, i, n) # R - 1
    BY <1>3 DEF Vacant
  <2> QED
    BY <1>2, <1>5, <2>5, <2>6, <2>7, <2>8, <2>9
<1>9. KeysOnce(new, n)
  <2> SUFFICES ASSUME NEW j \in 0 .. n - 1, NEW m \in 0 .. n - 1,
                      new[j].dib # 0, new[m].dib # 0, new[j].key = new[m].key
               PROVE  j = m
    BY DEF KeysOnce
  <2> DEFINE l == From(j, i, R, n)
             o == From(m, i, R, n)
  <2>1. /\ l \in 0 .. n - 1 /\ bs[l].dib # 0 /\ new[j].key = bs[l].key
        /\ \/ Back(j, i, n) < R - 1 /\ Back(l, i, n) = Back(j, i, n) + 1
           \/ Back(j, i, n) > R - 1 /\ l = j
    BY <1>4
  <2>2. /\ o \in 0 .. n - 1 /\ bs[o].dib # 0 /\ new[m].key = bs[o].key
        /\ \/ Back(m, i, n) < R - 1 /\ Back(o, i, n) = Back(m, i, n) + 1
           \/ Back(m, i, n) > R - 1 /\ o = m
    BY <1>4
  <2> HIDE DEF l, o
  <2>3. l = o
    BY <2>1, <2>2 DEF Sound, KeysOnce
  <2>4. Back(j, i, n) = Back(m, i, n)
    BY <1>2, <1>5, <2>1, <2>2, <2>3
  <2> QED
    BY <2>4, RingOnce
<1> QED
  BY <1>3, <1>6, <1>7, <1>8, <1>9 DEF Sound, new

Shifted(new, bs, i) ==
  /\ Pairs(new) = Pairs(bs) \ {<<bs[i].key, bs[i].val>>}
  /\ Cardinality(Occupied(new)) = Cardinality(Occupied(bs)) - 1

LEMMA BackShiftItems ==
  ASSUME NEW n \in Nat \ {0}, NEW h, NEW K, NEW V, \A x \in K : h[x] \in Nat,
         NEW bs, Sound(bs, n, h, K, V), NEW i \in 0 .. n - 1, bs[i].dib # 0,
         Occupied(bs) # DOMAIN bs
  PROVE  Shifted(BackShift(bs, i), bs, i)
<1> DEFINE R == Run(bs, i)
           new == BackShift(bs, i)
<1>1. bs \in Array(n, K, V) /\ DOMAIN bs = 0 .. n - 1
  BY DEF Sound, Array
<1>2. R \in 1 .. n - 1 /\ \A j \in 0 .. n - 1 : Back(j, i, n) \in 1 .. R - 1 => bs[j].dib > 1
  BY <1>1, RunIs
<1>3. /\ new \in Array(n, K, V) /\ DOMAIN new = 0 .. n - 1
      /\ \A j \in 0 .. n - 1 :
           /\ Back(j, i, n) < R - 1 => new[j].dib >= 1
           /\ Back(j, i, n) = R - 1 => new[j] = Vacant
           /\ Back(j, i, n) > R - 1 => new[j] = bs[j]
  <2>1. /\ new \in Array(n, K, V)
        /\ \A j \in 0 .. n - 1 :
             /\ Back(j, i, n) < R - 1 => new[j].dib >= 1
             /\ Back(j, i, n) = R - 1 => new[j] = Vacant
             /\ Back(j, i, n) > R - 1 => new[j] = bs[j]
    BY <1>1, BackShiftIs
  <2> HIDE DEF new
  <2> QED
    BY <2>1 DEF Array
<1>4. ASSUME NEW j \in 0 .. n - 1, new[j].dib # 0
      PROVE  \E l \in 0 .. n - 1 : l # i /\ bs[l].dib # 0 /\ new[j].key = bs[l].key /\ new[j].val = bs[l].val
  BY <1>1, <1>4, ShiftFrom
<1>5. ASSUME NEW l \in 0 .. n - 1, bs[l].dib # 0, l # i
      PROVE  \E j \in 0 .. n - 1 : new[j].dib # 0 /\ new[j].key = bs[l].key /\ new[j].val = bs[l].val
  BY <1>1, <1>5, ShiftTo
<1> HIDE DEF R, new
<1>6. \A j : j \in Occupied(new) <=> j \in 0 .. n - 1 /\ new[j].dib # 0
  BY <1>3, OccupiedIs
<1>7. \A j : j \in Occupied(bs) <=> j \in 0 .. n - 1 /\ bs[j].dib # 0
  BY <1>1, OccupiedIs
<1>8. Pairs(new) = Pairs(bs) \ {<<bs[i].key, bs[i].val>>}
  <2>1. ASSUME NEW j \in Occupied(new)
        PROVE  <<new[j].key, new[j].val>> \in Pairs(bs) /\ <<new[j].key, new[j].val>> # <<bs[i].key, bs[i].val>>
    <3>1. PICK l \in 0 .. n - 1 : l # i /\ bs[l].dib # 0 /\ new[j].key = bs[l].key /\ new[j].val = bs[l].val
      BY <1>4, <1>6
    <3>2. bs[l].key # bs[i].key
      BY <3>1 DEF Sound, KeysOnce
    <3> QED
      BY <1>7, <3>1, <3>2 DEF Pairs
  <2>2. ASSUME NEW l \in Occupied(bs), <<bs[l].key, bs[l].val>> # <<bs[i].key, bs[i].val>>
        PROVE  <<bs[l].key, bs[l].val>> \in Pairs(new)
    <3>1. l \in 0 .. n - 1 /\ bs[l].dib # 0 /\ l # i
      BY <1>7, <2>2
    <3>2. PICK j \in 0 .. n - 1 : new[j].dib # 0 /\ new[j].key = bs[l].key /\ new[j].val = bs[l].val
      BY <1>5, <3>1
    <3> QED
      BY <1>6, <3>2 DEF Pairs
  <2> QED
    BY <2>1, <2>2 DEF Pairs
<1>9. PICK w \in 0 .. n - 1 : Back(w, i, n) = R - 1
  <2> DEFINE w == At(i, R - 1, n)
  <2>1. w \in 0 .. n - 1 /\ Back(w, i, n) = R - 1
    BY <1>2 DEF At, Back
  <2> QED
    BY <2>1
<1>10. Occupied(new) = Occupied(bs) \ {w} /\ w \in Occupied(bs)
  <2>1. /\ \A j \in 0 .. n - 1 : Back(j, i, n) \in 0 .. n - 1 /\ new[j].dib \in Nat /\ bs[j].dib \in Nat
        /\ \A j \in 0 .. n - 1 : j # i => Back(j, i, n) \in 1 .. n - 1
        /\ \A j \in 0 .. n - 1 : Back(j, i, n) = R - 1 <=> j = w
    <3>1. \A j \in 0 .. n - 1 : Back(j, i, n) \in 0 .. n - 1 /\ new[j].dib \in Nat /\ bs[j].dib \in Nat
      BY <1>1, <1>3, Reached DEF Array, Bucket
    <3>2. \A j \in 0 .. n - 1 : j # i => Back(j, i, n) \in 1 .. n - 1
      BY RingZero
    <3>3. \A j \in 0 .. n - 1 : Back(j, i, n) = Back(w, i, n) => j = w
      BY RingOnce
    <3> QED
      BY <1>9, <3>1, <3>2, <3>3
  <2>2. ASSUME NEW j \in 0 .. n - 1, Back(j, i, n) < R PROVE bs[j].dib # 0
    <3>1. CASE j = i
      BY <3>1
    <3>2. CASE j # i
      <4>1. Back(j, i, n) \in 1 .. R - 1
        BY <1>2, <2>1, <2>2, <3>2
      <4> QED
        BY <1>2, <2>1, <4>1
    <3> QED
      BY <3>1, <3>2
  <2>3. w \in Occupied(bs)
    BY <1>2, <1>7, <1>9, <2>2
  <2>4. ASSUME NEW j \in 0 .. n - 1 PROVE new[j].dib # 0 <=> bs[j].dib # 0 /\ j # w
    <3>1. CASE Back(j, i, n) < R - 1
      <4>1. new[j].dib # 0
        BY <1>3, <3>1
      <4>2. Back(j, i, n) < R /\ j # w
        BY <1>2, <1>9, <2>1, <3>1
      <4> QED
        BY <2>2, <4>1, <4>2
    <3>2. CASE Back(j, i, n) = R - 1
      BY <1>3, <2>1, <3>2 DEF Vacant
    <3>3. CASE Back(j, i, n) > R - 1
      <4>1. new[j] = bs[j]
        BY <1>3, <3>3
      <4>2. j # w
        BY <1>2, <1>9, <3>3
      <4> QED
        BY <4>1, <4>2
    <3> QED
      BY <1>2, <2>1, <3>1, <3>2, <3>3
  <2>5. \A j : j \in Occupied(new) <=> j \in Occupied(bs) \ {w}
    BY <1>6, <1>7, <2>4
  <2> QED
    BY <2>3, <2>5
<1>11. Cardinality(Occupied(new)) = Cardinality(Occupied(bs)) - 1
  <2>1. IsFiniteSet(Occupied(bs))
    BY <1>1, OccupiedFinite
  <2> QED
    BY <1>10, <2>1, FS_RemoveElement
<1> QED
  BY <1>8, <1>11 DEF Shifted, new

-----------------------------------------------------------------------------
(* A scan of the table. *)

ScanPut(met, b) == IF b.dib = 0 THEN met ELSE Append(met, b.key)

LEMMA ScanRounds ==
  ASSUME NEW n \in Nat \ {0}, NEW h, NEW K, NEW V, NEW bs, Sound(bs, n, h, K, V)
  PROVE  LET g == ScanLoop(bs)
         IN /\ g[0] = <<>> /\ NBuckets(bs) = n
            /\ \A d \in 0 .. n - 1 : g[d + 1] = ScanPut(g[d], bs[d])
<1> DEFINE f == ScanLoop(bs)
           S == Seq(K)
           b == <<>>
           F == [d \in 1 .. n |-> [s \in S |-> ScanPut(s, bs[d - 1])]]
           Body(s) == [d \in 0 .. NBuckets(bs) |-> IF d = 0 THEN <<>> ELSE ScanPut(s[d - 1], bs[d - 1])]
<1>1. NBuckets(bs) = n
  BY ArraySize DEF Sound, Array
<1>2. b \in S
  OBVIOUS
<1>3. F \in [1 .. n -> [S -> S]]
  <2> SUFFICES ASSUME NEW d \in 1 .. n, NEW s \in S PROVE ScanPut(s, bs[d - 1]) \in S
    OBVIOUS
  <2>1. d - 1 \in 0 .. n - 1
    OBVIOUS
  <2>2. bs[d - 1].dib # 0 => bs[d - 1].key \in K
    BY <2>1 DEF Sound, Placed
  <2> QED
    BY <2>2 DEF ScanPut
<1>4. PICK g \in [0 .. n -> S] : Rounds(g, b, F, n)
  <2> HIDE DEF S, b, F
  <2> QED
    BY <1>2, <1>3, Recursion
<1>5. \A s : Body(s) = [d \in 0 .. n |-> IF d = 0 THEN b ELSE ScanPut(s[d - 1], bs[d - 1])]
  BY <1>1
<1>6. g = Body(g)
  <2>1. \A d \in 0 .. n : d # 0 => g[d - 1] \in S /\ F[d][g[d - 1]] = ScanPut(g[d - 1], bs[d - 1])
    OBVIOUS
  <2>2. g = [d \in 0 .. n |-> IF d = 0 THEN b ELSE F[d][g[d - 1]]]
    BY <1>4 DEF Rounds
  <2> HIDE DEF F, b, Body
  <2> QED
    BY <1>5, <2>1, <2>2
<1>7. f = Body(f)
  <2>1. f = CHOOSE s : s = Body(s)
    BY Zenon DEF ScanLoop, ScanPut
  <2> HIDE DEF f, Body
  <2> QED
    BY <1>6, <2>1, Zenon
<1>8. f = [d \in 0 .. n |-> IF d = 0 THEN b ELSE ScanPut(f[d - 1], bs[d - 1])]
  <2> HIDE DEF f, Body, b
  <2> QED
    BY <1>5, <1>7, Zenon
<1> HIDE DEF f, b
<1>9. f[0] = b
  <2>1. 0 \in 0 .. n
    OBVIOUS
  <2> QED
    BY <1>8, <2>1
<1>10. ASSUME NEW d \in 0 .. n - 1 PROVE f[d + 1] = ScanPut(f[d], bs[d])
  <2>1. d + 1 \in 0 .. n /\ d + 1 # 0 /\ d + 1 - 1 = d
    OBVIOUS
  <2> QED
    BY <1>8, <2>1
<1> QED
  BY <1>1, <1>9, <1>10 DEF f, b

(* The keys met before bucket d: as many as there are items, all distinct. *)
Met(met, bs, d, K) ==
  /\ met \in Seq(K) /\ Len(met) = Cardinality(Before(bs, d))
  /\ \A x \in 1 .. Len(met) : \E i \in Before(bs, d) : met[x] = bs[i].key
  /\ \A x, y \in 1 .. Len(met) : met[x] = met[y] => x = y

LEMMA ScanStep ==
  ASSUME NEW n \in Nat \ {0}, NEW h, NEW K, NEW V, NEW bs, Sound(bs, n, h, K, V),
         NEW d \in 0 .. n - 1, NEW met, Met(met, bs, d, K)
  PROVE  Met(ScanPut(met, bs[d]), bs, d + 1, K)
<1>1. bs \in Array(n, K, V)
  BY DEF Sound
<1>2. /\ bs[d].dib = 0 => Before(bs, d + 1) = Before(bs, d)
      /\ bs[d].dib # 0 => /\ Before(bs, d + 1) = Before(bs, d) \cup {d} /\ d \notin Before(bs, d)
                          /\ Cardinality(Before(bs, d + 1)) = Cardinality(Before(bs, d)) + 1
      /\ Cardinality(Before(bs, d)) \in Nat
  BY <1>1, BeforeStep
<1>3. CASE bs[d].dib = 0
  <2>1. ScanPut(met, bs[d]) = met /\ Before(bs, d + 1) = Before(bs, d)
    BY <1>2, <1>3 DEF ScanPut
  <2> QED
    BY <2>1 DEF Met
<1>4. CASE bs[d].dib # 0
  <2> DEFINE k == bs[d].key
             new == Append(met, k)
  <2>1. k \in K /\ met \in Seq(K)
    BY <1>4 DEF Sound, Placed, Met
  <2>2. \A i \in Before(bs, d) : bs[i].key # k
    BY <1>1, <1>2, <1>4 DEF Before, Occupied, Array, Sound, KeysOnce
  <2> HIDE DEF k
  <2>3. /\ new \in Seq(K) /\ Len(new) = Len(met) + 1 /\ new[Len(met) + 1] = k /\ Len(met) \in Nat
        /\ \A x \in 1 .. Len(met) : new[x] = met[x]
    BY <2>1
  <2>4. ScanPut(met, bs[d]) = new
    BY <1>4 DEF ScanPut, k
  <2> HIDE DEF new
  <2>5. Len(new) = Cardinality(Before(bs, d + 1))
    BY <1>2, <1>4, <2>3 DEF Met
  <2>6. ASSUME NEW x \in 1 .. Len(new)
        PROVE  \E i \in Before(bs, d + 1) : new[x] = bs[i].key
    <3>1. CASE x = Len(met) + 1
      <4>1. new[x] = bs[d].key /\ d \in Before(bs, d + 1)
        BY <1>2, <1>4, <2>3, <3>1 DEF k
      <4> QED
        BY <4>1
    <3>2. CASE x \in 1 .. Len(met)
      <4>1. PICK i \in Before(bs, d) : met[x] = bs[i].key
        BY <3>2 DEF Met
      <4>2. i \in Before(bs, d + 1) /\ new[x] = met[x]
        BY <1>2, <1>4, <2>3, <3>2
      <4> QED
        BY <4>1, <4>2
    <3> QED
      BY <2>3, <3>1, <3>2
  <2>7. \A x \in 1 .. Len(met) : new[x] # k
    BY <2>2, <2>3 DEF Met
  <2>8. ASSUME NEW x \in 1 .. Len(new), NEW y \in 1 .. Len(new), new[x] = new[y]
        PROVE  x = y
    <3>1. CASE x \in 1 .. Len(met) /\ y \in 1 .. Len(met)
      <4>1. met[x] = met[y]
        BY <2>3, <2>8, <3>1
      <4> QED
        BY <3>1, <4>1 DEF Met
    <3>2. CASE x = Len(met) + 1 /\ y \in 1 .. Len(met)
      BY <2>3, <2>7, <2>8, <3>2
    <3>3. CASE y = Len(met) + 1 /\ x \in 1 .. Len(met)
      BY <2>3, <2>7, <2>8, <3>3
    <3> QED
      BY <2>3, <3>1, <3>2, <3>3
  <2> QED
    BY <2>3, <2>4, <2>5, <2>6, <2>8 DEF Met
<1> QED
  BY <1>3, <1>4

(* A scan meets as many keys as there are items, each of them once. *)
ScanExact(t) ==
  /\ Len(hashmap_scan(t)) = Cardinality(Occupied(t.buckets))
  /\ \A x, y \in 1 .. Len(hashmap_scan(t)) : hashmap_scan(t)[x] = hashmap_scan(t)[y] => x = y

LEMMA ScanOnce ==
  ASSUME NEW n \in Nat \ {0}, NEW h, NEW K, NEW V, NEW t, Sound(t.buckets, n, h, K, V)
  PROVE  ScanExact(t)
<1> DEFINE bs == t.buckets
           g == ScanLoop(bs)
           T == {d \in Nat : d <= n => Met(g[d], bs, d, K)}
<1>1. Sound(bs, n, h, K, V) /\ bs \in Array(n, K, V)
  BY DEF Sound
<1>2. hashmap_scan(t) = ScanLoop(bs)[NBuckets(bs)]
  BY DEF hashmap_scan
<1> HIDE DEF bs
<1>3. /\ g[0] = <<>> /\ NBuckets(bs) = n
      /\ \A d \in 0 .. n - 1 : g[d + 1] = ScanPut(g[d], bs[d])
  BY <1>1, ScanRounds
<1>4. Before(bs, 0) = {} /\ Before(bs, n) = Occupied(bs)
  BY <1>1, BeforeAll
<1> HIDE DEF g
<1>5. 0 \in T
  <2>1. Met(<<>>, bs, 0, K)
    BY <1>4, FS_EmptySet DEF Met
  <2> QED
    BY <1>3, <2>1
<1>6. ASSUME NEW d \in Nat, d \in T PROVE d + 1 \in T
  <2> SUFFICES ASSUME d + 1 <= n PROVE Met(g[d + 1], bs, d + 1, K)
    OBVIOUS
  <2>1. d \in 0 .. n - 1 /\ Met(g[d], bs, d, K)
    BY <1>6
  <2>2. g[d + 1] = ScanPut(g[d], bs[d])
    BY <1>3, <2>1
  <2> QED
    BY <1>1, <2>1, <2>2, ScanStep
<1>7. Met(g[n], bs, n, K)
  <2>1. n \in T
    <3> HIDE DEF T
    <3> QED
      BY <1>5, <1>6, Induction
  <2> QED
    BY <2>1
<1>8. hashmap_scan(t) = g[n]
  BY <1>2, <1>3 DEF g
<1> QED
  BY <1>4, <1>7, <1>8 DEF ScanExact, Met, bs

-----------------------------------------------------------------------------
(***************************************************************************)
(* What holds of a table between two calls: the array is sound, count is   *)
(* the number of the items and at most the load limit.  The load limit     *)
(* leaves a vacant bucket, which is what every loop of the code relies on. *)
(***************************************************************************)
TableOK(t, h, K, V) ==
  LET n == NBuckets(t.buckets)
  IN /\ t = [cap |-> t.cap, buckets |-> t.buckets, count |-> t.count]
     /\ n \in Sizes /\ t.cap \in Sizes /\ n >= t.cap
     /\ Sound(t.buckets, n, h, K, V)
     /\ t.count = Cardinality(Occupied(t.buckets)) /\ t.count <= growat(n)

-----------------------------------------------------------------------------
(* The load limits. *)

LEMMA Limits ==
  ASSUME NEW n \in Nat, n > 1
  PROVE  /\ growat(n) \in Nat /\ growat(n) < n
         /\ \A m \in Nat : m >= 2 * n => growat(n) + 1 <= growat(m)
<1>1. growat(n) \in Nat /\ growat(n) < n
  BY DEF growat
<1>2. ASSUME NEW m \in Nat, m >= 2 * n PROVE growat(n) + 1 <= growat(m)
  BY <1>2 DEF growat
<1> QED
  BY <1>1, <1>2

LEMMA ShrinkLimit ==
  ASSUME NEW x \in Nat, NEW m \in Nat, m >= x
  PROVE  shrinkat(2 * x) <= growat(m) /\ shrinkat(2 * x) <= m
BY DEF growat, shrinkat

LEMMA TableFacts ==
  ASSUME NEW h, NEW K, NEW V, NEW t, TableOK(t, h, K, V)
  PROVE  LET n == NBuckets(t.buckets)
         IN /\ n \in Nat \ {0} /\ n > 1 /\ t.count \in Nat /\ t.count < n /\ t.cap \in Nat
            /\ Sound(t.buckets, n, h, K, V) /\ t.buckets \in Array(n, K, V)
            /\ DOMAIN t.buckets = 0 .. n - 1
            /\ Occupied(t.buckets) # DOMAIN t.buckets
<1> DEFINE n == NBuckets(t.buckets)
           bs == t.buckets
<1>1. n \in Nat \ {0} /\ n > 1 /\ t.cap \in Nat
  BY SizesAre DEF TableOK
<1>2. Sound(bs, n, h, K, V) /\ bs \in Array(n, K, V)
  BY DEF TableOK, Sound
<1>3. t.count = Cardinality(Occupied(bs)) /\ t.count <= growat(n)
  BY DEF TableOK
<1> HIDE DEF n, bs
<1>4. DOMAIN bs = 0 .. n - 1
  BY <1>2 DEF Array
<1>5. growat(n) \in Nat /\ growat(n) < n
  BY <1>1, Limits
<1>6. t.count \in Nat
  BY <1>1, <1>2, <1>3, OccupiedFinite
<1>7. t.count < n
  BY <1>1, <1>3, <1>5, <1>6
<1>8. Occupied(bs) # DOMAIN bs
  BY <1>1, <1>2, <1>3, <1>7, OccupiedFinite
<1> QED
  BY <1>1, <1>2, <1>4, <1>6, <1>7, <1>8 DEF n, bs

LEMMA NewTable ==
  ASSUME NEW h, NEW K, NEW V, NEW n \in Sizes
  PROVE  LET t == [cap |-> n, buckets |-> VacantBuckets(n), count |-> 0]
         IN TableOK(t, h, K, V) /\ Pairs(t.buckets) = {}
<1> DEFINE bs == VacantBuckets(n)
           t == [cap |-> n, buckets |-> bs, count |-> 0]
<1>1. n \in Nat \ {0} /\ n > 1
  BY SizesAre
<1>2. Sound(bs, n, h, K, V) /\ NBuckets(bs) = n /\ Occupied(bs) = {} /\ Pairs(bs) = {}
  BY <1>1, VacantSound
<1>3. growat(n) \in Nat
  BY <1>1, Limits
<1> HIDE DEF bs
<1>4. Cardinality(Occupied(bs)) = 0
  BY <1>2, FS_EmptySet
<1>5. /\ t.cap = n /\ t.buckets = bs /\ t.count = 0
      /\ t = [cap |-> t.cap, buckets |-> t.buckets, count |-> t.count]
  OBVIOUS
<1> HIDE DEF t
<1>6. TableOK(t, h, K, V)
  BY <1>1, <1>2, <1>3, <1>4, <1>5 DEF TableOK
<1> QED
  BY <1>2, <1>5, <1>6 DEF t, bs

(* A resize to a size that the items fit into. *)
LEMMA Resized ==
  ASSUME NEW h, NEW K, NEW V, \A x \in K : h[x] \in Nat, NEW t,
         t = [cap |-> t.cap, buckets |-> t.buckets, count |-> t.count],
         NEW n \in Nat \ {0}, Sound(t.buckets, n, h, K, V), t.cap \in Sizes,
         t.count = Cardinality(Occupied(t.buckets)),
         NEW c \in Nat, c >= t.cap, t.count <= growat(RoundUp(c))
  PROVE  LET r == [t EXCEPT !.buckets = Rehash(t.buckets, h, c)]
         IN /\ TableOK(r, h, K, V) /\ Pairs(r.buckets) = Pairs(t.buckets)
            /\ r.count = t.count /\ NBuckets(r.buckets) = RoundUp(c)
<1> DEFINE m == RoundUp(c)
           bs == t.buckets
           new == Rehash(bs, h, c)
           r == [t EXCEPT !.buckets = new]
<1>1. m \in Sizes /\ m >= c
  BY RoundUpIs
<1>2. m \in Nat \ {0} /\ m > 1 /\ t.cap \in Nat
  BY <1>1, SizesAre
<1>3. growat(m) \in Nat /\ growat(m) < m
  BY <1>2, Limits
<1>4. Cardinality(Occupied(bs)) \in Nat
  <2>1. bs \in Array(n, K, V)
    BY DEF Sound
  <2> QED
    BY <2>1, OccupiedFinite
<1>5. Cardinality(Occupied(bs)) <= m
  BY <1>2, <1>3, <1>4
<1>6. /\ Sound(new, m, h, K, V) /\ Pairs(new) = Pairs(bs)
      /\ Cardinality(Occupied(new)) = Cardinality(Occupied(bs))
  <2> HIDE DEF bs
  <2>1. Sound(bs, n, h, K, V)
    BY DEF bs
  <2> QED
    BY <1>2, <1>5, <2>1, RehashSound
<1> HIDE DEF new
<1>7. NBuckets(new) = m
  BY <1>2, <1>6, ArraySize DEF Sound, Array
<1>8. r = [cap |-> t.cap, buckets |-> new, count |-> t.count]
  OBVIOUS
<1>9. r.cap = t.cap /\ r.buckets = new /\ r.count = t.count
  BY <1>8
<1> HIDE DEF r
<1>10. m >= t.cap
  BY <1>1, <1>2
<1>11. TableOK(r, h, K, V)
  BY <1>1, <1>6, <1>7, <1>8, <1>9, <1>10 DEF TableOK
<1> QED
  BY <1>6, <1>7, <1>9, <1>11 DEF r, new

LEMMA GrownOK ==
  ASSUME NEW h, NEW K, NEW V, \A x \in K : h[x] \in Nat, NEW t, TableOK(t, h, K, V)
  PROVE  LET r == Grown(t, h)
         IN /\ TableOK(r, h, K, V) /\ Pairs(r.buckets) = Pairs(t.buckets)
            /\ r.count + 1 <= growat(NBuckets(r.buckets))
            /\ r.count = t.count /\ NBuckets(r.buckets) >= 2 * NBuckets(t.buckets)
<1> DEFINE n == NBuckets(t.buckets)
           c == 2 * n
<1>1. n \in Nat \ {0} /\ n > 1 /\ Sound(t.buckets, n, h, K, V) /\ t.count \in Nat /\ t.cap \in Nat
  BY TableFacts
<1>2. /\ t = [cap |-> t.cap, buckets |-> t.buckets, count |-> t.count] /\ t.cap \in Sizes /\ n >= t.cap
      /\ t.count = Cardinality(Occupied(t.buckets)) /\ t.count <= growat(n)
  BY DEF TableOK
<1>3. Grown(t, h) = [t EXCEPT !.buckets = Rehash(t.buckets, h, c)]
  BY DEF Grown
<1> HIDE DEF n
<1>4. c \in Nat /\ c >= t.cap
  BY <1>1, <1>2
<1>5. RoundUp(c) \in Nat /\ RoundUp(c) >= c
  BY <1>4, RoundUpIs, SizesAre
<1>6. growat(n) + 1 <= growat(RoundUp(c)) /\ growat(n) \in Nat
  BY <1>1, <1>5, Limits
<1>7. growat(RoundUp(c)) \in Nat
  BY <1>5 DEF growat
<1> HIDE DEF c
<1>8. t.count <= growat(RoundUp(c)) /\ t.count + 1 <= growat(RoundUp(c))
  BY <1>1, <1>2, <1>6, <1>7
<1>9. LET r == [t EXCEPT !.buckets = Rehash(t.buckets, h, c)]
      IN /\ TableOK(r, h, K, V) /\ Pairs(r.buckets) = Pairs(t.buckets)
         /\ r.count = t.count /\ NBuckets(r.buckets) = RoundUp(c)
  BY <1>1, <1>2, <1>4, <1>8, Resized
<1>10. RoundUp(c) >= 2 * NBuckets(t.buckets)
  BY <1>5 DEF c, n
<1> QED
  BY <1>3, <1>8, <1>9, <1>10

LEMMA ShrunkOK ==
  ASSUME NEW h, NEW K, NEW V, \A x \in K : h[x] \in Nat, NEW t, TableOK(t, h, K, V), MayShrink(t)
  PROVE  TableOK(Shrunk(t, h), h, K, V) /\ Pairs(Shrunk(t, h).buckets) = Pairs(t.buckets)
<1> DEFINE n == NBuckets(t.buckets)
           c == n \div 2
<1>1. n \in Nat \ {0} /\ Sound(t.buckets, n, h, K, V) /\ t.count \in Nat
  BY TableFacts
<1>2. /\ t = [cap |-> t.cap, buckets |-> t.buckets, count |-> t.count] /\ t.cap \in Sizes /\ n \in Sizes
      /\ t.count = Cardinality(Occupied(t.buckets)) /\ n > t.cap /\ t.count <= shrinkat(n)
  BY DEF TableOK, MayShrink
<1>3. Shrunk(t, h) = [t EXCEPT !.buckets = Rehash(t.buckets, h, c)]
  BY DEF Shrunk
<1> HIDE DEF n
<1>4. c \in Nat /\ n = 2 * c /\ c >= t.cap
  BY <1>2, SizesApart
<1>5. RoundUp(c) \in Nat /\ RoundUp(c) >= c
  BY <1>4, RoundUpIs, SizesAre
<1> HIDE DEF c
<1>6. shrinkat(n) <= growat(RoundUp(c))
  BY <1>4, <1>5, ShrinkLimit
<1>7. growat(RoundUp(c)) \in Nat /\ shrinkat(n) \in Nat
  BY <1>1, <1>5 DEF growat, shrinkat
<1>8. t.count <= growat(RoundUp(c))
  BY <1>1, <1>2, <1>6, <1>7
<1>9. LET r == [t EXCEPT !.buckets = Rehash(t.buckets, h, c)]
      IN TableOK(r, h, K, V) /\ Pairs(r.buckets) = Pairs(t.buckets)
  BY <1>1, <1>2, <1>4, <1>8, Resized
<1> QED
  BY <1>3, <1>9

-----------------------------------------------------------------------------
(* The calls, on a table that satisfies the invariant. *)

Stored(bs, n) ==
  \A x, y : <<x, y>> \in Pairs(bs)
              <=> \E i \in 0 .. n - 1 : bs[i].dib # 0 /\ bs[i].key = x /\ bs[i].val = y

LEMMA PairsAre ==
  ASSUME NEW n \in Nat, NEW bs, DOMAIN bs = 0 .. n - 1
  PROVE  Stored(bs, n)
<1> SUFFICES ASSUME NEW x, NEW y
             PROVE  <<x, y>> \in Pairs(bs)
                      <=> \E i \in 0 .. n - 1 : bs[i].dib # 0 /\ bs[i].key = x /\ bs[i].val = y
  BY DEF Stored
<1>1. \A i : i \in Occupied(bs) <=> i \in 0 .. n - 1 /\ bs[i].dib # 0
  BY OccupiedIs
<1> QED
  BY <1>1 DEF Pairs

Has(bs, x) == \E y : <<x, y>> \in Pairs(bs)

(* What hashmap_set leaves behind. *)
SetPairs(new, bs, k, v) ==
  \A x, y : <<x, y>> \in Pairs(new) <=> (x = k /\ y = v) \/ (x # k /\ <<x, y>> \in Pairs(bs))

(* What a call that looks for k returns. *)
Returns(r, bs, k) == (\A y : <<k, y>> \in Pairs(bs) => r = y) /\ (~Has(bs, k) => r = NoVal)

LEMMA ReplacePairs ==
  ASSUME NEW n \in Nat \ {0}, NEW h, NEW K, NEW V, NEW bs, Sound(bs, n, h, K, V),
         NEW j \in 0 .. n - 1, bs[j].dib # 0, NEW v, NEW new, Replaced(new, bs, n, h, K, V, j, v)
  PROVE  SetPairs(new, bs, bs[j].key, v)
<1> DEFINE k == bs[j].key
<1>1. /\ new[j].dib = bs[j].dib /\ new[j].key = k /\ new[j].val = v
      /\ \A i \in 0 .. n - 1 : i # j => new[i] = bs[i]
  BY DEF Replaced
<1>2. DOMAIN new = 0 .. n - 1 /\ DOMAIN bs = 0 .. n - 1
  BY DEF Replaced, Sound, Array
<1>3. Stored(new, n) /\ Stored(bs, n)
  BY <1>2, PairsAre
<1>4. \A i \in 0 .. n - 1 : i # j /\ bs[i].dib # 0 => bs[i].key # k
  BY DEF Sound, KeysOnce
<1> SUFFICES ASSUME NEW x, NEW y
             PROVE  <<x, y>> \in Pairs(new) <=> (x = k /\ y = v) \/ (x # k /\ <<x, y>> \in Pairs(bs))
  BY DEF SetPairs
<1>5. ASSUME <<x, y>> \in Pairs(new) PROVE (x = k /\ y = v) \/ (x # k /\ <<x, y>> \in Pairs(bs))
  <2>1. PICK i \in 0 .. n - 1 : new[i].dib # 0 /\ new[i].key = x /\ new[i].val = y
    BY <1>3, <1>5 DEF Stored
  <2>2. CASE i = j
    BY <1>1, <2>1, <2>2
  <2>3. CASE i # j
    BY <1>1, <1>3, <1>4, <2>1, <2>3 DEF Stored
  <2> QED
    BY <2>2, <2>3
<1>6. ASSUME x = k, y = v PROVE <<x, y>> \in Pairs(new)
  BY <1>1, <1>3, <1>6 DEF Stored
<1>7. ASSUME x # k, <<x, y>> \in Pairs(bs) PROVE <<x, y>> \in Pairs(new)
  <2>1. PICK i \in 0 .. n - 1 : bs[i].dib # 0 /\ bs[i].key = x /\ bs[i].val = y
    BY <1>3, <1>7 DEF Stored
  <2>2. i # j
    BY <1>7, <2>1
  <2> QED
    BY <1>1, <1>3, <2>1, <2>2 DEF Stored
<1> QED
  BY <1>5, <1>6, <1>7

(* What an insertion does to the number of items and to the occupied       *)
(* buckets of an array that is large enough.                               *)
SetKeeps(u, t, k) ==
  /\ NBuckets(u.buckets) = NBuckets(t.buckets) /\ Occupied(t.buckets) \subseteq Occupied(u.buckets)
  /\ u.count = IF Has(t.buckets, k) THEN t.count ELSE t.count + 1

LEMMA SetItemOK ==
  ASSUME NEW h, NEW K, NEW V, \A x \in K : h[x] \in Nat, NEW t, TableOK(t, h, K, V),
         t.count + 1 <= growat(NBuckets(t.buckets)), NEW k \in K, NEW v \in V
  PROVE  LET r == SetItem(t, h, k, v)
         IN /\ TableOK(r.table, h, K, V) /\ SetPairs(r.table.buckets, t.buckets, k, v)
            /\ Returns(r.ret, t.buckets, k) /\ r.ret \in V \cup {NoVal}
            /\ SetKeeps(r.table, t, k)
<1> DEFINE n == NBuckets(t.buckets)
           bs == t.buckets
           yes == TRUE
           s == Place(bs, h, k, v, yes)
           r == SetItem(t, h, k, v)
           c == IF s.found = "new" THEN t.count + 1 ELSE t.count
<1>1. /\ n \in Nat \ {0} /\ n > 1 /\ t.count \in Nat /\ Sound(bs, n, h, K, V) /\ bs \in Array(n, K, V)
      /\ DOMAIN bs = 0 .. n - 1 /\ Occupied(bs) # DOMAIN bs
  BY TableFacts
<1>2. /\ t = [cap |-> t.cap, buckets |-> bs, count |-> t.count] /\ n \in Sizes /\ t.cap \in Sizes /\ n >= t.cap
      /\ t.count = Cardinality(Occupied(bs)) /\ t.count <= growat(n)
  BY DEF TableOK
<1>3. t.count + 1 <= growat(n)
  OBVIOUS
<1>4. r.table = [t EXCEPT !.buckets = s.bs, !.count = c] /\ r.ret = s.old
  BY DEF SetItem
<1> HIDE DEF n, bs, s, c, r
<1>5. r.table = [cap |-> t.cap, buckets |-> s.bs, count |-> c]
  BY <1>2, <1>4
<1> DEFINE u == r.table
<1>6. u.cap = t.cap /\ u.buckets = s.bs /\ u.count = c /\ u = [cap |-> u.cap, buckets |-> u.buckets, count |-> u.count]
  BY <1>5
<1> HIDE DEF u
<1>7. ASSUME Sound(s.bs, n, h, K, V), c = Cardinality(Occupied(s.bs)), c <= growat(n)
      PROVE  TableOK(u, h, K, V) /\ NBuckets(u.buckets) = n
  <2>1. NBuckets(s.bs) = n
    BY <1>1, <1>7, ArraySize DEF Sound, Array
  <2> QED
    BY <1>2, <1>6, <1>7, <2>1 DEF TableOK
<1>8. Stored(bs, n)
  BY <1>1, PairsAre
<1>9. CASE \A i \in 0 .. n - 1 : bs[i].dib # 0 => bs[i].key # k
  <2>1. s.found = "new" /\ s.old = NoVal /\ Inserted(s, bs, n, h, K, V, k, v)
    <3> HIDE DEF yes
    <3> QED
      BY <1>1, <1>9, PlaceNew DEF s
  <2>2. Sound(s.bs, n, h, K, V) /\ Pairs(s.bs) = Pairs(bs) \cup {<<k, v>>}
    BY <2>1 DEF Inserted
  <2>3. PICK w \in (0 .. n - 1) \ Occupied(bs) : Occupied(s.bs) = Occupied(bs) \cup {w}
    BY <2>1 DEF Inserted
  <2>4. Cardinality(Occupied(s.bs)) = Cardinality(Occupied(bs)) + 1
    BY <1>1, <2>3, OccupiedFinite, FS_AddElement
  <2>5. c = t.count + 1
    BY <2>1 DEF c
  <2>6. TableOK(u, h, K, V) /\ NBuckets(u.buckets) = n
    BY <1>2, <1>3, <1>7, <2>2, <2>4, <2>5
  <2>7. ~Has(bs, k)
    BY <1>8, <1>9 DEF Stored, Has
  <2>8. SetPairs(s.bs, bs, k, v)
    <3> SUFFICES ASSUME NEW x, NEW y
                 PROVE  <<x, y>> \in Pairs(s.bs) <=> (x = k /\ y = v) \/ (x # k /\ <<x, y>> \in Pairs(bs))
      BY DEF SetPairs
    <3>1. x = k => <<x, y>> \notin Pairs(bs)
      BY <2>7 DEF Has
    <3>2. <<x, y>> \in Pairs(s.bs) <=> <<x, y>> \in Pairs(bs) \/ <<x, y>> = <<k, v>>
      BY <2>2
    <3>3. <<x, y>> = <<k, v>> <=> x = k /\ y = v
      OBVIOUS
    <3> QED
      BY <3>1, <3>2, <3>3
  <2>9. Returns(NoVal, bs, k)
    BY <2>7 DEF Returns, Has
  <2>10. SetKeeps(u, t, k)
    BY <1>6, <2>3, <2>5, <2>6, <2>7 DEF SetKeeps, bs, n
  <2> QED
    BY <1>4, <1>6, <2>1, <2>6, <2>8, <2>9, <2>10 DEF u, r, bs
<1>10. ASSUME NEW j \in 0 .. n - 1, bs[j].dib # 0, bs[j].key = k
       PROVE  /\ TableOK(u, h, K, V) /\ SetPairs(u.buckets, bs, k, v)
              /\ Returns(r.ret, bs, k) /\ r.ret \in V \cup {NoVal} /\ SetKeeps(u, t, k)
  <2> DEFINE new == [bs EXCEPT ![j].val = v]
  <2>1. s.found = "same" /\ s.old = bs[j].val /\ s.bs = new
    <3>1. Renewed(Place(bs, h, bs[j].key, v, TRUE), bs, j, v)
      BY <1>1, <1>10, PlaceSame
    <3>2. Renewed(s, bs, j, v)
      BY <1>10, <3>1, Zenon DEF s, yes
    <3> QED
      BY <3>2 DEF Renewed
  <2>2. /\ Sound(new, n, h, K, V) /\ Occupied(new) = Occupied(bs)
        /\ new[j].dib = bs[j].dib /\ new[j].key = bs[j].key /\ new[j].val = v
        /\ \A i \in 0 .. n - 1 : i # j => new[i] = bs[i]
    <3>1. Replaced(new, bs, n, h, K, V, j, v)
      BY <1>1, <1>10, ReplaceSound
    <3> HIDE DEF new
    <3> QED
      BY <3>1 DEF Replaced
  <2> HIDE DEF new
  <2>3. c = t.count
    BY <2>1 DEF c
  <2>4. TableOK(u, h, K, V) /\ NBuckets(u.buckets) = n
    BY <1>2, <1>7, <2>1, <2>2, <2>3
  <2>7. \A i \in 0 .. n - 1 : i # j /\ bs[i].dib # 0 => bs[i].key # k
    BY <1>1, <1>10 DEF Sound, KeysOnce
  <2>8. SetPairs(new, bs, k, v)
    BY <1>1, <1>10, <2>2, ReplacePairs DEF Replaced
  <2>9. Returns(bs[j].val, bs, k)
    <3>1. <<k, bs[j].val>> \in Pairs(bs)
      BY <1>8, <1>10 DEF Stored
    <3>2. ASSUME NEW y, <<k, y>> \in Pairs(bs) PROVE bs[j].val = y
      BY <1>8, <2>7, <3>2 DEF Stored
    <3> QED
      BY <3>1, <3>2 DEF Returns, Has
  <2>10. bs[j].val \in V
    BY <1>1, <1>10 DEF Sound, Placed
  <2>11. SetKeeps(u, t, k)
    <3>1. <<k, bs[j].val>> \in Pairs(bs)
      BY <1>8, <1>10 DEF Stored
    <3>2. Has(bs, k)
      BY <3>1 DEF Has
    <3> QED
      BY <1>6, <2>1, <2>2, <2>3, <2>4, <3>2 DEF SetKeeps, bs, n
  <2> QED
    BY <1>4, <1>6, <2>1, <2>4, <2>8, <2>9, <2>10, <2>11
<1> QED
  BY <1>9, <1>10 DEF u, r, bs

(* A call of hashmap_set. *)
SetDone(r, t, h, K, V, k, v) ==
  /\ TableOK(r.table, h, K, V) /\ SetPairs(r.table.buckets, t.buckets, k, v)
  /\ Returns(r.ret, t.buckets, k) /\ r.ret \in V \cup {NoVal}
  /\ r.table.count = IF Has(t.buckets, k) THEN t.count ELSE t.count + 1
  /\ MustGrow(t) => NBuckets(r.table.buckets) # NBuckets(t.buckets)
  /\ ~MustGrow(t) => /\ NBuckets(r.table.buckets) = NBuckets(t.buckets)
                     /\ Occupied(t.buckets) \subseteq Occupied(r.table.buckets)

LEMMA SetOK ==
  ASSUME NEW h, NEW K, NEW V, \A x \in K : h[x] \in Nat, NEW t, TableOK(t, h, K, V),
         NEW k \in K, NEW v \in V
  PROVE  SetDone(hashmap_set(t, h, k, v), t, h, K, V, k, v)
<1> DEFINE s == IF MustGrow(t) THEN Grown(t, h) ELSE t
           r == hashmap_set(t, h, k, v)
<1>1. /\ TableOK(s, h, K, V) /\ Pairs(s.buckets) = Pairs(t.buckets) /\ s.count + 1 <= growat(NBuckets(s.buckets))
      /\ s.count = t.count /\ (MustGrow(t) => NBuckets(s.buckets) # NBuckets(t.buckets)) /\ (~MustGrow(t) => s = t)
  <2>1. CASE MustGrow(t)
    <3>1. NBuckets(t.buckets) \in Nat /\ NBuckets(t.buckets) > 1
      BY TableFacts
    <3>2. /\ TableOK(Grown(t, h), h, K, V) /\ Pairs(Grown(t, h).buckets) = Pairs(t.buckets)
          /\ Grown(t, h).count + 1 <= growat(NBuckets(Grown(t, h).buckets))
          /\ Grown(t, h).count = t.count /\ NBuckets(Grown(t, h).buckets) >= 2 * NBuckets(t.buckets)
      BY GrownOK
    <3>3. NBuckets(Grown(t, h).buckets) # NBuckets(t.buckets)
      BY <3>1, <3>2
    <3>4. s = Grown(t, h)
      BY <2>1
    <3> QED
      BY <2>1, <3>2, <3>3, <3>4
  <2>2. CASE ~MustGrow(t)
    <3>1. NBuckets(t.buckets) \in Nat /\ NBuckets(t.buckets) > 1 /\ t.count \in Nat
      BY TableFacts
    <3>2. growat(NBuckets(t.buckets)) \in Nat
      BY <3>1, Limits
    <3>3. t.count + 1 <= growat(NBuckets(t.buckets))
      BY <2>2, <3>1, <3>2 DEF MustGrow
    <3> QED
      BY <2>2, <3>3
  <2> QED
    BY <2>1, <2>2
<1>2. r = SetItem(s, h, k, v)
  BY DEF hashmap_set
<1> HIDE DEF s, r
<1>3. /\ TableOK(r.table, h, K, V) /\ SetPairs(r.table.buckets, s.buckets, k, v)
      /\ Returns(r.ret, s.buckets, k) /\ r.ret \in V \cup {NoVal} /\ SetKeeps(r.table, s, k)
  BY <1>1, <1>2, SetItemOK
<1>4. /\ NBuckets(r.table.buckets) = NBuckets(s.buckets) /\ Occupied(s.buckets) \subseteq Occupied(r.table.buckets)
      /\ r.table.count = IF Has(s.buckets, k) THEN s.count ELSE s.count + 1
  BY <1>3 DEF SetKeeps
<1>5. Has(s.buckets, k) = Has(t.buckets, k)
  BY <1>1 DEF Has
<1>6. SetPairs(r.table.buckets, t.buckets, k, v) /\ Returns(r.ret, t.buckets, k)
  BY <1>1, <1>3 DEF SetPairs, Returns, Has
<1>7. /\ r.table.count = IF Has(t.buckets, k) THEN t.count ELSE t.count + 1
      /\ MustGrow(t) => NBuckets(r.table.buckets) # NBuckets(t.buckets)
      /\ ~MustGrow(t) => /\ NBuckets(r.table.buckets) = NBuckets(t.buckets)
                         /\ Occupied(t.buckets) \subseteq Occupied(r.table.buckets)
  BY <1>1, <1>4, <1>5
<1> QED
  BY <1>3, <1>6, <1>7 DEF SetDone, r

LEMMA GetOK ==
  ASSUME NEW h, NEW K, NEW V, \A x \in K : h[x] \in Nat, NEW t, TableOK(t, h, K, V),
         NEW k \in K, NoKey \notin K, NoVal \notin V
  PROVE  LET n == NBuckets(t.buckets)
             e == ProbeEnd(t.buckets, h, k)
             r == hashmap_get(t, h, k)
         IN /\ Returns(r, t.buckets, k) /\ r \in V \cup {NoVal}
            /\ r # NoVal => /\ e \in 0 .. n - 1 /\ t.buckets[e].dib # 0
                            /\ t.buckets[e].key = k /\ t.buckets[e].val = r
            /\ r = NoVal => ~Has(t.buckets, k)
<1> DEFINE n == NBuckets(t.buckets)
           bs == t.buckets
           e == ProbeEnd(bs, h, k)
           r == hashmap_get(t, h, k)
<1>1. /\ n \in Nat \ {0} /\ Sound(bs, n, h, K, V) /\ DOMAIN bs = 0 .. n - 1 /\ Occupied(bs) # DOMAIN bs
  BY TableFacts
<1>2. r = IF bs[e].key = k THEN bs[e].val ELSE NoVal
  BY DEF hashmap_get
<1> HIDE DEF n, bs, r
<1>3. Stored(bs, n)
  BY <1>1, PairsAre
<1>4. CASE \A i \in 0 .. n - 1 : bs[i].dib # 0 => bs[i].key # k
  <2>1. bs[e].key # k
    BY <1>1, <1>4, ProbeMissing
  <2>2. ~Has(bs, k)
    BY <1>3, <1>4 DEF Stored, Has
  <2> HIDE DEF e
  <2> QED
    BY <1>2, <2>1, <2>2 DEF Returns, Has, e, r, bs
<1>5. ASSUME NEW j \in 0 .. n - 1, bs[j].dib # 0, bs[j].key = k
      PROVE  e = j /\ r = bs[j].val /\ bs[j].val \in V /\ Returns(r, bs, k) /\ Has(bs, k)
  <2>1. e = j
    BY <1>1, <1>5, ProbeStored
  <2> HIDE DEF e
  <2>2. r = bs[j].val /\ bs[j].val \in V
    BY <1>1, <1>2, <1>5, <2>1 DEF Sound, Placed
  <2>3. <<k, bs[j].val>> \in Pairs(bs)
    BY <1>3, <1>5 DEF Stored
  <2>4. \A i \in 0 .. n - 1 : i # j /\ bs[i].dib # 0 => bs[i].key # k
    BY <1>1, <1>5 DEF Sound, KeysOnce
  <2>5. ASSUME NEW y, <<k, y>> \in Pairs(bs) PROVE bs[j].val = y
    BY <1>3, <2>4, <2>5 DEF Stored
  <2>6. Returns(r, bs, k) /\ Has(bs, k)
    BY <2>2, <2>3, <2>5 DEF Returns, Has
  <2> QED
    BY <2>1, <2>2, <2>6
<1> HIDE DEF e
<1> QED
  BY <1>4, <1>5 DEF e, r, bs, n

Removed(r, t, h, K, V, i) ==
  /\ TableOK(r, h, K, V)
  /\ Pairs(r.buckets) = Pairs(t.buckets) \ {<<t.buckets[i].key, t.buckets[i].val>>}

LEMMA DeleteOK ==
  ASSUME NEW h, NEW K, NEW V, \A x \in K : h[x] \in Nat, NEW t, TableOK(t, h, K, V),
         NEW i \in 0 .. NBuckets(t.buckets) - 1, t.buckets[i].dib # 0
  PROVE  Removed(DeleteAt(t, i), t, h, K, V, i)
<1> DEFINE n == NBuckets(t.buckets)
           bs == t.buckets
           new == BackShift(bs, i)
           r == DeleteAt(t, i)
<1>1. /\ n \in Nat \ {0} /\ n > 1 /\ t.count \in Nat /\ Sound(bs, n, h, K, V) /\ bs \in Array(n, K, V)
      /\ DOMAIN bs = 0 .. n - 1 /\ Occupied(bs) # DOMAIN bs
  BY TableFacts
<1>2. /\ t = [cap |-> t.cap, buckets |-> bs, count |-> t.count] /\ n \in Sizes /\ t.cap \in Sizes /\ n >= t.cap
      /\ t.count = Cardinality(Occupied(bs)) /\ t.count <= growat(n)
  BY DEF TableOK
<1>3. r = [t EXCEPT !.buckets = new, !.count = t.count - 1] /\ i \in 0 .. n - 1 /\ bs[i].dib # 0
  BY DEF DeleteAt
<1> HIDE DEF n, bs, r
<1>4. Sound(new, n, h, K, V)
  BY <1>1, <1>3, BackShiftSound
<1>5. /\ Pairs(new) = Pairs(bs) \ {<<bs[i].key, bs[i].val>>}
      /\ Cardinality(Occupied(new)) = Cardinality(Occupied(bs)) - 1
  <2>1. Shifted(new, bs, i)
    BY <1>1, <1>3, BackShiftItems
  <2> QED
    BY <2>1 DEF Shifted
<1> HIDE DEF new
<1>6. NBuckets(new) = n
  BY <1>1, <1>4, ArraySize DEF Sound, Array
<1>7. growat(n) \in Nat
  BY <1>1, Limits
<1>8. r = [cap |-> t.cap, buckets |-> new, count |-> t.count - 1]
  BY <1>2, <1>3
<1>9. /\ r.cap = t.cap /\ r.buckets = new /\ r.count = t.count - 1
      /\ r = [cap |-> r.cap, buckets |-> r.buckets, count |-> r.count]
  BY <1>8
<1>10. TableOK(r, h, K, V)
  <2>1. r.count <= growat(n) /\ r.count = Cardinality(Occupied(new))
    BY <1>1, <1>2, <1>5, <1>7, <1>9
  <2> QED
    BY <1>2, <1>4, <1>6, <1>9, <2>1 DEF TableOK
<1> QED
  BY <1>5, <1>9, <1>10 DEF Removed, r, bs

(* The value of an item is changed through a pointer to it. *)
Assigned(u, t, h, K, V, j, v) ==
  /\ TableOK(u, h, K, V) /\ SetPairs(u.buckets, t.buckets, t.buckets[j].key, v)
  /\ Occupied(u.buckets) = Occupied(t.buckets) /\ NBuckets(u.buckets) = NBuckets(t.buckets)
  /\ u.count = t.count
  /\ \A i \in Occupied(t.buckets) : u.buckets[i].key = t.buckets[i].key

LEMMA AssignOK ==
  ASSUME NEW h, NEW K, NEW V, NEW t, TableOK(t, h, K, V), NEW j \in Occupied(t.buckets), NEW v \in V
  PROVE  Assigned([t EXCEPT !.buckets[j].val = v], t, h, K, V, j, v)
<1> DEFINE n == NBuckets(t.buckets)
           bs == t.buckets
           new == [bs EXCEPT ![j].val = v]
           u == [t EXCEPT !.buckets[j].val = v]
<1>1. n \in Nat \ {0} /\ Sound(bs, n, h, K, V) /\ DOMAIN bs = 0 .. n - 1
  BY TableFacts
<1>2. /\ t = [cap |-> t.cap, buckets |-> bs, count |-> t.count] /\ n \in Sizes /\ t.cap \in Sizes /\ n >= t.cap
      /\ t.count = Cardinality(Occupied(bs)) /\ t.count <= growat(n)
  BY DEF TableOK
<1>3. u = [t EXCEPT !.buckets = new]
  OBVIOUS
<1> HIDE DEF n, bs, u
<1>4. j \in 0 .. n - 1 /\ bs[j].dib # 0
  BY <1>1 DEF Occupied, bs
<1>5. Replaced(new, bs, n, h, K, V, j, v)
  BY <1>1, <1>4, ReplaceSound
<1> HIDE DEF new
<1>6. SetPairs(new, bs, bs[j].key, v)
  BY <1>1, <1>4, <1>5, ReplacePairs
<1>7. u = [cap |-> t.cap, buckets |-> new, count |-> t.count]
  BY <1>2, <1>3
<1>8. u.cap = t.cap /\ u.buckets = new /\ u.count = t.count /\ u = [cap |-> u.cap, buckets |-> u.buckets, count |-> u.count]
  BY <1>7
<1>9. NBuckets(new) = n
  BY <1>1, <1>5, ArraySize DEF Replaced, Sound, Array
<1>10. TableOK(u, h, K, V)
  BY <1>2, <1>5, <1>8, <1>9 DEF TableOK, Replaced
<1>11. \A i \in Occupied(bs) : new[i].key = bs[i].key
  BY <1>1, <1>5 DEF Replaced, Occupied
<1> QED
  BY <1>5, <1>6, <1>8, <1>9, <1>10, <1>11 DEF Assigned, Replaced, u, bs, n

(* Where no two keys share a home, every item is at home: an item behind   *)
(* one that is at home would share that home, so the displaced items would *)
(* go all the way round.                                                   *)
Apart(bs, n, h) == \A i, j \in Occupied(bs) : h[bs[i].key] % n = h[bs[j].key] % n => i = j
AtHome(bs, n, h) == \A i \in Occupied(bs) : bs[i].dib = 1 /\ h[bs[i].key] % n = i

LEMMA AllAtHome ==
  ASSUME NEW n \in Nat \ {0}, NEW h, NEW K, NEW V, \A x \in K : h[x] \in Nat,
         NEW bs, Sound(bs, n, h, K, V), Occupied(bs) # DOMAIN bs, Apart(bs, n, h)
  PROVE  AtHome(bs, n, h)
<1> USE DEF Apart, AtHome
<1>1. DOMAIN bs = 0 .. n - 1 /\ \A i \in 0 .. n - 1 : bs[i].dib \in Nat
  BY DEF Sound, Array, Bucket
<1>2. \A i : i \in Occupied(bs) <=> i \in 0 .. n - 1 /\ bs[i].dib # 0
  BY <1>1, OccupiedIs
<1>3. ASSUME NEW i \in Occupied(bs)
      PROVE  h[bs[i].key] % n \in 0 .. n - 1 /\ bs[i].dib = Back(i, h[bs[i].key] % n, n) + 1
  <2>1. bs[i].key \in K /\ bs[i].dib = Back(i, h[bs[i].key] % n, n) + 1
    BY <1>2, <1>3 DEF Sound, Placed
  <2> QED
    BY <2>1, RemainderType
<1>4. ASSUME NEW i \in 0 .. n - 1, bs[i].dib >= 2 PROVE FALSE
  <2> DEFINE T == {c \in Nat : c \in 0 .. n - 1 => bs[Back(i, c, n)].dib >= 2}
  <2>1. 0 \in T
    <3>1. Back(i, 0, n) = i
      BY DEF Back
    <3> QED
      BY <1>4, <3>1
  <2>2. ASSUME NEW c \in Nat, c \in T PROVE c + 1 \in T
    <3> SUFFICES ASSUME c + 1 \in 0 .. n - 1
                 PROVE  bs[Back(i, c + 1, n)].dib >= 2
      OBVIOUS
    <3> DEFINE j == Back(i, c, n)
               p == Back(j, 1, n)
    <3>1. j \in 0 .. n - 1 /\ p = Back(i, c + 1, n) /\ n > 1
      BY BackStep
    <3>2. bs[j].dib >= 2
      BY <2>2
    <3>3. p \in 0 .. n - 1
      BY <3>1, BackOne
    <3>4. bs[j].dib <= bs[p].dib + 1
      BY <1>1, <3>1, <3>2 DEF Sound, Ordered
    <3>5. j # p
      BY <3>1 DEF Back
    <3>6. \A a \in 0 .. n - 1 : Back(j, a, n) = 1 => a = p
      BY <3>1 DEF Back
    <3>7. \A a \in 0 .. n - 1 : Back(p, a, n) = 0 => a = p
      BY <3>1, <3>3 DEF Back
    <3> HIDE DEF j, p
    <3>8. j \in Occupied(bs) /\ p \in Occupied(bs)
      BY <1>1, <1>2, <3>1, <3>2, <3>3, <3>4
    <3>9. ASSUME bs[p].dib = 1 PROVE FALSE
      <4>1. bs[j].dib = 2
        BY <1>1, <3>1, <3>2, <3>4, <3>9
      <4>2. Back(j, h[bs[j].key] % n, n) = 1 /\ Back(p, h[bs[p].key] % n, n) = 0
        <5>1. h[bs[j].key] % n \in 0 .. n - 1 /\ bs[j].dib = Back(j, h[bs[j].key] % n, n) + 1
          BY <1>3, <3>8
        <5>2. h[bs[p].key] % n \in 0 .. n - 1 /\ bs[p].dib = Back(p, h[bs[p].key] % n, n) + 1
          BY <1>3, <3>8
        <5>3. \A a \in 0 .. n - 1 : Back(j, a, n) \in Int /\ Back(p, a, n) \in Int
          BY <3>1, <3>3 DEF Back
        <5> QED
          BY <3>9, <4>1, <5>1, <5>2, <5>3
      <4>3. h[bs[j].key] % n = p /\ h[bs[p].key] % n = p
        BY <1>3, <3>6, <3>7, <3>8, <4>2
      <4> QED
        BY <3>5, <3>8, <4>3
    <3> QED
      BY <1>1, <3>1, <3>2, <3>3, <3>4, <3>9
  <2>3. \A c \in Nat : c \in T
    <3> HIDE DEF T
    <3> QED
      BY <2>1, <2>2, Induction
  <2>4. ASSUME NEW w \in 0 .. n - 1 PROVE bs[w].dib # 0
    <3>1. Back(i, w, n) \in 0 .. n - 1 /\ Back(i, Back(i, w, n), n) = w
      BY DEF Back
    <3>2. bs[Back(i, Back(i, w, n), n)].dib >= 2
      BY <2>3, <3>1
    <3> QED
      BY <3>1, <3>2
  <2> QED
    BY <1>1, <1>2, <2>4
<1> TAKE i \in Occupied(bs)
<1>5. bs[i].dib = 1
  BY <1>1, <1>2, <1>4
<1> DEFINE a == h[bs[i].key] % n
<1>6. a \in 0 .. n - 1 /\ bs[i].dib = Back(i, a, n) + 1 /\ i \in 0 .. n - 1
  BY <1>2, <1>3
<1> HIDE DEF a
<1>7. a = i
  BY <1>5, <1>6 DEF Back
<1> QED
  BY <1>5, <1>7 DEF a

(* The items as pairs: keys and values in their sets, one value per key. *)
PairsGood(t, K, V) ==
  /\ \A x, y : <<x, y>> \in Pairs(t.buckets) => x \in K /\ y \in V
  /\ \A x, y, z : <<x, y>> \in Pairs(t.buckets) /\ <<x, z>> \in Pairs(t.buckets) => y = z
  /\ \A b \in Occupied(t.buckets) :
       /\ <<t.buckets[b].key, t.buckets[b].val>> \in Pairs(t.buckets)
       /\ t.buckets[b].key \in K /\ t.buckets[b].val \in V
  /\ \A x, y : <<x, y>> \in Pairs(t.buckets) =>
       \E b \in Occupied(t.buckets) : t.buckets[b].key = x /\ t.buckets[b].val = y
  /\ \A b, c \in Occupied(t.buckets) : t.buckets[b].key = t.buckets[c].key => b = c

LEMMA PairsOfTable ==
  ASSUME NEW h, NEW K, NEW V, NEW t, TableOK(t, h, K, V)
  PROVE  PairsGood(t, K, V)
<1> DEFINE n == NBuckets(t.buckets)
           bs == t.buckets
<1>1. n \in Nat \ {0} /\ Sound(bs, n, h, K, V) /\ DOMAIN bs = 0 .. n - 1
  BY TableFacts
<1> HIDE DEF n, bs
<1>2. \A i : i \in Occupied(bs) <=> i \in 0 .. n - 1 /\ bs[i].dib # 0
  BY <1>1, OccupiedIs
<1>3. \A b \in Occupied(bs) : <<bs[b].key, bs[b].val>> \in Pairs(bs) /\ bs[b].key \in K /\ bs[b].val \in V
  BY <1>1, <1>2 DEF Pairs, Sound, Placed
<1>4. \A x, y : <<x, y>> \in Pairs(bs) => \E b \in Occupied(bs) : bs[b].key = x /\ bs[b].val = y
  BY DEF Pairs
<1>5. \A b, c \in Occupied(bs) : bs[b].key = bs[c].key => b = c
  BY <1>1, <1>2 DEF Sound, KeysOnce
<1>6. \A x, y : <<x, y>> \in Pairs(bs) => x \in K /\ y \in V
  BY <1>3, <1>4
<1>7. \A x, y, z : <<x, y>> \in Pairs(bs) /\ <<x, z>> \in Pairs(bs) => y = z
  BY <1>4, <1>5
<1> QED
  BY <1>3, <1>4, <1>5, <1>6, <1>7 DEF PairsGood, bs

(* A lookup of a key that is there ends at its bucket. *)
LEMMA ProbeFinds ==
  ASSUME NEW h, NEW K, NEW V, \A x \in K : h[x] \in Nat, NEW t, TableOK(t, h, K, V),
         NEW b \in Occupied(t.buckets)
  PROVE  ProbeEnd(t.buckets, h, t.buckets[b].key) = b
<1> DEFINE n == NBuckets(t.buckets)
           bs == t.buckets
<1>1. n \in Nat \ {0} /\ Sound(bs, n, h, K, V) /\ DOMAIN bs = 0 .. n - 1
  BY TableFacts
<1> HIDE DEF n, bs
<1>2. b \in 0 .. n - 1 /\ bs[b].dib # 0
  BY <1>1 DEF Occupied, bs
<1>3. ProbeEnd(bs, h, bs[b].key) = b
  BY <1>1, <1>2, ProbeStored
<1> QED
  BY <1>3 DEF bs

(* Values are changed, keys and places are not. *)
LEMMA RevalueSound ==
  ASSUME NEW n \in Nat \ {0}, NEW h, NEW K, NEW V, NEW bs, Sound(bs, n, h, K, V), NEW new \in Array(n, K, V),
         \A i \in 0 .. n - 1 : new[i].dib = bs[i].dib /\ new[i].key = bs[i].key,
         \A i \in 0 .. n - 1 : bs[i].dib = 0 => new[i] = bs[i],
         \A i \in 0 .. n - 1 : bs[i].dib # 0 => new[i].val \in V
  PROVE  Sound(new, n, h, K, V) /\ Occupied(new) = Occupied(bs)
<1>1. Cleared(new, n)
  BY DEF Cleared, Sound
<1>2. Placed(new, n, h, K, V)
  BY DEF Placed, Sound
<1>3. Ordered(new, n)
  BY BackOne DEF Ordered, Sound
<1>4. KeysOnce(new, n)
  BY DEF KeysOnce, Sound
<1>5. DOMAIN bs = 0 .. n - 1 /\ DOMAIN new = 0 .. n - 1
  BY DEF Array, Sound
<1>6. Occupied(new) = Occupied(bs)
  BY <1>5 DEF Occupied
<1> QED
  BY <1>1, <1>2, <1>3, <1>4, <1>6 DEF Sound
=============================================================================
