---------------------------- MODULE Daemon_proofs ----------------------------
(***************************************************************************)
(* Proofs about Daemon, for every number of queues and every set of        *)
(* documents: the types, that main leaves nothing running, that the NACK   *)
(* pipeline is usable while the daemon serves, and that main and its       *)
(* threads take only the steps that QueueService allows.                   *)
(***************************************************************************)
EXTENDS Daemon, FiniteSetTheorems, WellFoundedInduction, TLAPS

-----------------------------------------------------------------------------
(* Functions as sequences of steps *)

(* A step whose ways to fail are among C, and a function of such steps. *)
IsStep(x, C) ==
  /\ DOMAIN x = {"get", "put", "fail", "crash", "sure"}
  /\ DOMAIN x.fail \subseteq C

Fn(s, C) == IsSeq(s) /\ \A n \in DOMAIN s : IsStep(s[n], C)

NoneSure(s) == \A n \in DOMAIN s : ~s[n].sure

LEMMA StepNeed ==
  ASSUME NEW C, "refused" \in C, NEW exit
  PROVE  IsStep(Need(exit), C) /\ ~Need(exit).sure
BY DEF IsStep, Need, Step

LEMMA StepGet ==
  ASSUME NEW C, "oom" \in C, NEW objs, NEW exit
  PROVE  IsStep(Get(objs, exit), C) /\ ~Get(objs, exit).sure
BY DEF IsStep, Get, Step

LEMMA StepRefuse ==
  ASSUME NEW C, "refused" \in C, NEW exit
  PROVE  IsStep(Refuse(exit), C) /\ Refuse(exit).sure
BY DEF IsStep, Refuse, Need, Step

LEMMA StepPut ==
  ASSUME NEW C, NEW objs
  PROVE  IsStep(Put(objs), C) /\ ~Put(objs).sure
BY DEF IsStep, Put, Step

LEMMA StepCrash ==
  ASSUME NEW C
  PROVE  IsStep(Crash, C) /\ Crash.sure
BY DEF IsStep, Crash, Step

LEMMA StepString ==
  ASSUME NEW C, "refused" \in C, "type" \in C, NEW exit
  PROVE  IsStep(get_json_string_by_key(exit), C)
BY DEF IsStep, get_json_string_by_key, Step

LEMMA StepSet ==
  ASSUME NEW C, "refused" \in C, "oom" \in C, NEW present, NEW e1, NEW e2
  PROVE  IsStep(hashmap_set(present, e1, e2), C)
BY DEF IsStep, hashmap_set, Step, Get

LEMMA SeqRange ==
  ASSUME NEW U, NEW q \in Seq(U)
  PROVE  IsSeq(q)
<1>1. q = [n \in 1 .. Len(q) |-> q[n]] /\ Len(q) \in Nat
  OBVIOUS
<1>2. \A n \in 1 .. Len(q) : q[n] \in Range(q)
  BY DEF Range
<1>3. q \in Seq(Range(q))
  BY <1>1, <1>2
<1> QED
  BY <1>3 DEF IsSeq

LEMMA FnConcat ==
  ASSUME NEW C, NEW s, NEW t, Fn(s, C), Fn(t, C)
  PROVE  Fn(s \o t, C) /\ (NoneSure(s \o t) <=> NoneSure(s) /\ NoneSure(t))
<1> DEFINE U == Range(s) \cup Range(t)
<1>1. s \in Seq(U) /\ t \in Seq(U)
  BY DEF Fn, IsSeq
<1> HIDE DEF U
<1>2. s \o t \in Seq(U) /\ DOMAIN (s \o t) = 1 .. Len(s) + Len(t)
  BY <1>1
<1>3. /\ \A n \in 1 .. Len(s) : n \in DOMAIN (s \o t) /\ (s \o t)[n] = s[n]
      /\ \A n \in 1 .. Len(t) : Len(s) + n \in DOMAIN (s \o t) /\ (s \o t)[Len(s) + n] = t[n]
  BY <1>1
<1>4. \A n \in DOMAIN (s \o t) :
        n \in 1 .. Len(s) \/ \E m \in 1 .. Len(t) : n = Len(s) + m
  <2> SUFFICES ASSUME NEW n \in 1 .. Len(s) + Len(t), n \notin 1 .. Len(s)
               PROVE  \E m \in 1 .. Len(t) : n = Len(s) + m
    BY <1>2
  <2>1. Len(s) \in Nat /\ Len(t) \in Nat
    BY <1>1
  <2>2. n - Len(s) \in 1 .. Len(t) /\ n = Len(s) + (n - Len(s))
    BY <2>1
  <2> QED
    BY <2>2
<1>5. DOMAIN s = 1 .. Len(s) /\ DOMAIN t = 1 .. Len(t)
  BY <1>1
<1>6. IsSeq(s \o t)
  BY <1>2, SeqRange
<1>7. \A n \in DOMAIN (s \o t) : IsStep((s \o t)[n], C)
  BY <1>3, <1>4, <1>5 DEF Fn
<1>8. NoneSure(s \o t) <=> NoneSure(s) /\ NoneSure(t)
  BY <1>3, <1>4, <1>5 DEF NoneSure
<1> QED
  BY <1>6, <1>7, <1>8 DEF Fn

LEMMA FnWithin ==
  ASSUME NEW C, NEW s, NEW outer, Fn(s, C)
  PROVE  Fn(Within(s, outer), C) /\ (NoneSure(Within(s, outer)) <=> NoneSure(s))
<1> DEFINE w == Within(s, outer)
           fail(n) == [k \in DOMAIN s[n].fail |-> s[n].fail[k] \o outer]
<1>1. DOMAIN w = DOMAIN s /\ \A n \in DOMAIN s : w[n] = [s[n] EXCEPT !.fail = fail(n)]
  BY DEF Within
<1>2. ASSUME NEW n \in DOMAIN s
      PROVE  IsStep(w[n], C) /\ w[n].sure = s[n].sure
  <2>1. IsStep(s[n], C)
    BY DEF Fn
  <2>2. DOMAIN fail(n) = DOMAIN s[n].fail
    OBVIOUS
  <2> HIDE DEF w, fail
  <2> QED
    BY <1>1, <2>1, <2>2 DEF IsStep
<1>3. IsSeq(w)
  <2>1. DOMAIN s = 1 .. Len(s) /\ Len(s) \in Nat
    BY DEF Fn, IsSeq
  <2>2. w = [n \in 1 .. Len(s) |-> w[n]]
    BY <2>1 DEF Within
  <2> HIDE DEF w
  <2>3. \A n \in 1 .. Len(s) : w[n] \in Range(w)
    BY <1>1, <2>1 DEF Range
  <2> QED
    BY <2>1, <2>2, <2>3 DEF IsSeq
<1>4. Fn(w, C) /\ (NoneSure(w) <=> NoneSure(s))
  <2> HIDE DEF w
  <2> QED
    BY <1>1, <1>2, <1>3 DEF Fn, NoneSure
<1> QED
  BY <1>4

LEMMA FnEmpty ==
  ASSUME NEW C
  PROVE  Fn(<<>>, C) /\ NoneSure(<<>>)
BY DEF Fn, NoneSure, IsSeq

LEMMA FnWhen ==
  ASSUME NEW C, NEW s, NEW cond, cond => Fn(s, C)
  PROVE  Fn(When(cond, s), C) /\ (NoneSure(When(cond, s)) <=> (cond => NoneSure(s)))
BY FnEmpty DEF When

LEMMA FnOne ==
  ASSUME NEW C, NEW x, IsStep(x, C)
  PROVE  Fn(<<x>>, C) /\ (NoneSure(<<x>>) <=> ~x.sure)
BY DEF Fn, NoneSure, IsSeq, Range

LEMMA FnTwo ==
  ASSUME NEW C, NEW x, NEW y, IsStep(x, C), IsStep(y, C)
  PROVE  Fn(<<x, y>>, C) /\ (NoneSure(<<x, y>>) <=> ~x.sure /\ ~y.sure)
BY DEF Fn, NoneSure, IsSeq, Range

LEMMA FnThree ==
  ASSUME NEW C, NEW x, NEW y, NEW z, IsStep(x, C), IsStep(y, C), IsStep(z, C)
  PROVE  Fn(<<x, y, z>>, C) /\ (NoneSure(<<x, y, z>>) <=> ~x.sure /\ ~y.sure /\ ~z.sure)
BY DEF Fn, NoneSure, IsSeq, Range
LEMMA FnFour ==
  ASSUME NEW C, NEW x, NEW y, NEW z, NEW w, IsStep(x, C), IsStep(y, C), IsStep(z, C), IsStep(w, C)
  PROVE  Fn(<<x, y, z, w>>, C) /\ (NoneSure(<<x, y, z, w>>) <=> ~x.sure /\ ~y.sure /\ ~z.sure /\ ~w.sure)
BY DEF Fn, NoneSure, IsSeq, Range

(* A set of numbers has a smallest one. *)
LEMMA Smallest ==
  ASSUME NEW S \in SUBSET Nat, S # {}
  PROVE  \E m \in S : \A k \in S : m <= k
<1> DEFINE R == OpToRel(<, Nat)
<1>1. IsWellFoundedOn(R, Nat)
  BY NatLessThanWellFounded, Zenon
<1>2. \A x, y \in Nat : y < x => <<y, x>> \in R
  BY DEF OpToRel
<1> HIDE DEF R
<1>3. PICK m \in S : \A k \in S : ~(<<k, m>> \in R)
  BY <1>1, WFMin, Zenon
<1>4. ASSUME NEW k \in S PROVE m <= k
  <2>1. ~(k < m)
    BY <1>2, <1>3, Zenon
  <2> QED
    BY <2>1
<1> QED
  BY <1>4

(* With the set of the numbers that have the property. *)
LEMMA Induction ==
  ASSUME NEW S, 0 \in S, \A d \in Nat : d \in S => d + 1 \in S
  PROVE  \A d \in Nat : d \in S
<1> SUFFICES ASSUME Nat \ S # {} PROVE FALSE
  OBVIOUS
<1>1. PICK m \in Nat \ S : \A k \in Nat \ S : m <= k
  BY Smallest
<1>2. m # 0 /\ m - 1 \in Nat /\ ~(m <= m - 1)
  BY <1>1
<1>3. m - 1 \in S
  BY <1>1, <1>2
<1>4. m - 1 + 1 = m
  BY <1>1
<1> QED
  BY <1>1, <1>2, <1>3, <1>4

(* The recursive function behind FlattenSeq. *)
RoundsDone(f, r) == f = [i \in 1 .. Len(r) |-> IF i = 1 THEN r[i] ELSE f[i - 1] \o r[i]]

LEMMA PrefixesExist ==
  ASSUME NEW U, NEW r \in Seq(Seq(U)), Len(r) # 0
  PROVE  \E f \in [1 .. Len(r) -> Seq(U)] : RoundsDone(f, r)
<1> DEFINE n == Len(r)
           Upto(f, m) == f = [i \in 1 .. m |-> IF i = 1 THEN r[i] ELSE f[i - 1] \o r[i]]
           Have(m) == \E f \in [1 .. m -> Seq(U)] : Upto(f, m)
           T == {m \in Nat : 1 <= m /\ m <= n => Have(m)}
<1> HIDE DEF Have
<1>1. n \in Nat /\ \A i \in 1 .. n : r[i] \in Seq(U)
  OBVIOUS
<1>2. ASSUME NEW m \in Nat, m \in T PROVE m + 1 \in T
  <2> SUFFICES ASSUME m + 1 <= n PROVE Have(m + 1)
    OBVIOUS
  <2>1. CASE m = 0
    <3> DEFINE f == [i \in 1 .. 1 |-> r[1]]
    <3>1. f \in [1 .. 1 -> Seq(U)]
      BY <1>1
    <3>2. f = [i \in 1 .. 1 |-> IF i = 1 THEN r[i] ELSE f[i - 1] \o r[i]]
      OBVIOUS
    <3>3. m + 1 = 1
      BY <2>1
    <3> HIDE DEF f
    <3>4. Have(1)
      BY <3>1, <3>2 DEF Have
    <3> QED
      BY <3>3, <3>4
  <2>2. CASE m # 0
    <3>1. 1 <= m /\ m <= n
      BY <1>1, <2>2
    <3>2. PICK f \in [1 .. m -> Seq(U)] : Upto(f, m)
      BY <1>2, <3>1 DEF Have
    <3> DEFINE g == [i \in 1 .. m + 1 |-> IF i <= m THEN f[i] ELSE f[m] \o r[m + 1]]
    <3>3. f[m] \in Seq(U) /\ r[m + 1] \in Seq(U)
      BY <1>1, <3>1
    <3>4. g \in [1 .. m + 1 -> Seq(U)]
      BY <3>3
    <3>5. \A i \in 1 .. m : f[i] = IF i = 1 THEN r[i] ELSE f[i - 1] \o r[i]
      BY <3>2, Zenon
    <3>6. ASSUME NEW i \in 1 .. m + 1
          PROVE  g[i] = IF i = 1 THEN r[i] ELSE g[i - 1] \o r[i]
      <4>1. CASE i = 1
        <5>1. 1 \in 1 .. m /\ 1 <= m /\ 1 \in 1 .. m + 1
          BY <3>1
        <5>2. f[1] = r[1]
          BY <3>5, <5>1
        <5> QED
          BY <4>1, <5>1, <5>2
      <4>2. CASE i # 1 /\ i <= m
        <5>1. i \in 1 .. m /\ i - 1 \in 1 .. m + 1 /\ i - 1 <= m
          BY <4>2
        <5> QED
          BY <3>5, <4>2, <5>1
      <4>3. CASE i = m + 1
        <5>1. i - 1 = m /\ i # 1 /\ ~(i <= m) /\ m \in 1 .. m + 1 /\ m <= m
          BY <2>2, <4>3
        <5> QED
          BY <4>3, <5>1
      <4> QED
        BY <4>1, <4>2, <4>3
    <3>7. Upto(g, m + 1)
      <4> HIDE DEF g
      <4>1. g = [i \in 1 .. m + 1 |-> g[i]]
        BY <3>4
      <4> QED
        BY <3>6, <4>1
    <3> HIDE DEF g
    <3> QED
      BY <3>4, <3>7 DEF Have
  <2> QED
    BY <2>1, <2>2
<1>3. \A m \in Nat : m \in T
  <2>1. 0 \in T
    OBVIOUS
  <2> HIDE DEF T
  <2> QED
    BY <1>2, <2>1, Induction
<1>4. Have(n)
  <2>1. 1 <= n
    BY <1>1
  <2> QED
    BY <1>1, <1>3, <2>1
<1> QED
  BY <1>4 DEF RoundsDone, Have

(* The steps of a loop are the steps of its rounds. *)
LEMMA FnLoop ==
  ASSUME NEW C, NEW n \in Nat, NEW r, DOMAIN r = 1 .. n, r = [j \in 1 .. n |-> r[j]],
         \A j \in 1 .. n : Fn(r[j], C)
  PROVE  Fn(Loop(r), C) /\ (NoneSure(Loop(r)) <=> \A j \in 1 .. n : NoneSure(r[j]))
<1> DEFINE U == UNION {Range(r[j]) : j \in 1 .. n}
<1>1. \A j \in 1 .. n : r[j] \in Seq(U)
  <2> SUFFICES ASSUME NEW j \in 1 .. n PROVE r[j] \in Seq(U)
    OBVIOUS
  <2>1. r[j] \in Seq(Range(r[j]))
    BY DEF Fn, IsSeq
  <2>2. Range(r[j]) \subseteq U
    OBVIOUS
  <2> HIDE DEF U
  <2> QED
    BY <2>1, <2>2
<1> HIDE DEF U
<1>2. r \in Seq(Seq(U)) /\ Len(r) = n
  BY <1>1
<1>3. CASE n = 0
  <2>1. Loop(r) = r
    BY <1>2, <1>3 DEF Loop, FlattenSeq
  <2>2. r = <<>>
    BY <1>2, <1>3
  <2> QED
    BY <1>3, <2>1, <2>2, FnEmpty
<1>4. CASE n # 0
  <2> DEFINE flatten == CHOOSE f : RoundsDone(f, r)
             T == {m \in Nat : 1 <= m /\ m <= n =>
                     Fn(flatten[m], C) /\ (NoneSure(flatten[m]) <=> \A j \in 1 .. m : NoneSure(r[j]))}
  <2>1. Loop(r) = flatten[n]
    BY <1>2, <1>4 DEF Loop, FlattenSeq, RoundsDone
  <2>2. RoundsDone(flatten, r)
    BY <1>2, <1>4, PrefixesExist, Zenon
  <2> HIDE DEF flatten
  <2>3. \A i \in 1 .. n : flatten[i] = IF i = 1 THEN r[i] ELSE flatten[i - 1] \o r[i]
    BY <1>2, <2>2, Zenon DEF RoundsDone
  <2>4. ASSUME NEW m \in Nat, m \in T PROVE m + 1 \in T
    <3> SUFFICES ASSUME m + 1 <= n
                 PROVE  /\ Fn(flatten[m + 1], C)
                        /\ NoneSure(flatten[m + 1]) <=> \A j \in 1 .. m + 1 : NoneSure(r[j])
      OBVIOUS
    <3>1. CASE m = 0
      <4>1. flatten[m + 1] = r[1] /\ 1 .. m + 1 = {1} /\ 1 \in 1 .. n
        BY <2>3, <3>1
      <4> QED
        BY <4>1
    <3>2. CASE m # 0
      <4>1. m + 1 \in 1 .. n /\ m + 1 # 1 /\ m + 1 - 1 = m /\ 1 <= m /\ m <= n
        BY <3>2
      <4>2. flatten[m + 1] = flatten[m] \o r[m + 1]
        <5> DEFINE k == m + 1
        <5>1. k \in 1 .. n /\ k # 1 /\ k - 1 = m
          BY <4>1
        <5> HIDE DEF k
        <5>2. flatten[k] = flatten[k - 1] \o r[k]
          BY <2>3, <5>1, Zenon
        <5> QED
          BY <5>1, <5>2 DEF k
      <4>3. /\ Fn(flatten[m], C)
            /\ NoneSure(flatten[m]) <=> \A j \in 1 .. m : NoneSure(r[j])
        BY <2>4, <4>1
      <4>4. Fn(r[m + 1], C)
        BY <4>1
      <4>5. \A j : j \in 1 .. m + 1 <=> j \in 1 .. m \/ j = m + 1
        OBVIOUS
      <4> DEFINE x == flatten[m]
                 y == r[m + 1]
      <4>6. Fn(x, C) /\ Fn(y, C)
        BY <4>3, <4>4
      <4>7. (\A j \in 1 .. m + 1 : NoneSure(r[j])) <=> NoneSure(x) /\ NoneSure(y)
        <5>1. (\A j \in 1 .. m + 1 : NoneSure(r[j])) <=> (\A j \in 1 .. m : NoneSure(r[j])) /\ NoneSure(r[m + 1])
          BY <4>5, Zenon
        <5> QED
          BY <4>3, <5>1, Zenon
      <4>8. flatten[m + 1] = x \o y
        BY <4>2
      <4> HIDE DEF x, y
      <4>9. Fn(x \o y, C) /\ (NoneSure(x \o y) <=> NoneSure(x) /\ NoneSure(y))
        BY <4>6, FnConcat
      <4> QED
        BY <4>7, <4>8, <4>9, Zenon
    <3> QED
      BY <3>1, <3>2
  <2>5. \A m \in Nat : m \in T
    <3>1. 0 \in T
      OBVIOUS
    <3> HIDE DEF T
    <3> QED
      BY <2>4, <3>1, Induction
  <2>6. 1 <= n
    BY <1>4
  <2> QED
    BY <2>1, <2>5, <2>6
<1> QED
  BY <1>3, <1>4

(* What a function returns is a way in which one of its steps fails, and   *)
(* it returns ok only if it has no step that cannot succeed.               *)
LEMMA OutcomeCodes ==
  ASSUME NEW C, "ok" \notin C, NEW h, NEW s, Fn(s, C), NEW o \in Outcomes(h, s)
  PROVE  /\ o.rc \in C \cup {"ok", "crash"}
         /\ o.rc = "ok" => NoneSure(s)
<1> DEFINE reached == {n \in 1 .. Len(s) + 1 : \A m \in 1 .. n - 1 : ~s[m].sure}
           end(n, h1, how) == [at |-> n, heap |-> h1, rc |-> how]
           failed(n) == {end(n, FreeInOrder(Before(h, s, n), s[n].fail[k]), k) : k \in DOMAIN s[n].fail}
           crashed(n) == IF s[n].crash THEN {end(n, Before(h, s, n), "crash")} ELSE {}
<1>1. DOMAIN s = 1 .. Len(s) /\ Len(s) \in Nat
  BY DEF Fn, IsSeq
<1>2. Outcomes(h, s) = (UNION {failed(n) \cup crashed(n) : n \in reached \cap DOMAIN s})
                       \cup {end(0, Before(h, s, n), "ok") : n \in reached \ DOMAIN s}
  BY DEF Outcomes
<1>3. CASE \E n \in reached \cap DOMAIN s : o \in failed(n)
  <2>1. PICK n \in DOMAIN s : o \in failed(n)
    BY <1>3
  <2>2. PICK k \in DOMAIN s[n].fail : o.rc = k
    BY <2>1
  <2>3. IsStep(s[n], C)
    BY DEF Fn
  <2>4. k \in C
    BY <2>2, <2>3 DEF IsStep
  <2> QED
    BY <2>2, <2>4
<1>4. CASE \E n \in reached \cap DOMAIN s : o \in crashed(n)
  <2>1. o.rc = "crash"
    BY <1>4
  <2> QED
    BY <2>1
<1>5. CASE \E n \in reached \ DOMAIN s : o = end(0, Before(h, s, n), "ok")
  <2>1. PICK n \in reached \ DOMAIN s : o = end(0, Before(h, s, n), "ok")
    BY <1>5
  <2>2. n = Len(s) + 1
    BY <1>1, <2>1
  <2>3. \A m \in 1 .. Len(s) : ~s[m].sure
    BY <1>1, <2>1, <2>2
  <2>4. o.rc = "ok"
    BY <2>1
  <2> QED
    BY <1>1, <2>3, <2>4 DEF NoneSure
<1> HIDE DEF failed, crashed, end, reached
<1>6. \/ \E n \in reached \cap DOMAIN s : o \in failed(n) \cup crashed(n)
      \/ \E n \in reached \ DOMAIN s : o = end(0, Before(h, s, n), "ok")
  <2> DEFINE A(n) == failed(n) \cup crashed(n)
             B(n) == end(0, Before(h, s, n), "ok")
             X == {A(n) : n \in reached \cap DOMAIN s}
             Y == {B(n) : n \in reached \ DOMAIN s}
  <2>1. Outcomes(h, s) = (UNION X) \cup Y
    BY <1>2
  <2>2. (\E x \in X : o \in x) \/ o \in Y
    <3> HIDE DEF X, Y
    <3> QED
      BY <2>1, Zenon
  <2>3. \A x \in X : \E n \in reached \cap DOMAIN s : x = A(n)
    BY Zenon
  <2>4. \A y \in Y : \E n \in reached \ DOMAIN s : y = B(n)
    BY Zenon
  <2> HIDE DEF X, Y
  <2> QED
    BY <2>2, <2>3, <2>4, Zenon
<1> QED
  BY <1>3, <1>4, <1>5, <1>6

LEMMA SeqDomain ==
  ASSUME NEW s, IsSeq(s)
  PROVE  Len(s) \in Nat /\ DOMAIN s = 1 .. Len(s)
BY DEF IsSeq

LEMMA FnConcat3 ==
  ASSUME NEW C, NEW a, NEW b, NEW c, Fn(a, C), Fn(b, C), Fn(c, C)
  PROVE  /\ Fn(a \o b \o c, C)
         /\ NoneSure(a \o b \o c) <=> NoneSure(a) /\ NoneSure(b) /\ NoneSure(c)
<1>1. Fn(a \o b, C) /\ (NoneSure(a \o b) <=> NoneSure(a) /\ NoneSure(b))
  BY FnConcat
<1> QED
  BY <1>1, FnConcat

LEMMA FnConcat4 ==
  ASSUME NEW C, NEW a, NEW b, NEW c, NEW d, Fn(a, C), Fn(b, C), Fn(c, C), Fn(d, C)
  PROVE  /\ Fn(a \o b \o c \o d, C)
         /\ NoneSure(a \o b \o c \o d) <=> NoneSure(a) /\ NoneSure(b) /\ NoneSure(c) /\ NoneSure(d)
<1>1. Fn(a \o b \o c, C) /\ (NoneSure(a \o b \o c) <=> NoneSure(a) /\ NoneSure(b) /\ NoneSure(c))
  BY FnConcat3
<1> QED
  BY <1>1, FnConcat

-----------------------------------------------------------------------------
(* What the functions of the parser return *)

ParserCodes == {"refused", "type", "oom"}

LEMMA ParserSteps ==
  /\ \A exit : IsStep(get_json_string_by_key(exit), ParserCodes)
  /\ \A exit : IsStep(Need(exit), ParserCodes)
  /\ \A objs, exit : IsStep(Get(objs, exit), ParserCodes)
  /\ \A objs : IsStep(Put(objs), ParserCodes)
  /\ \A obj : IsStep(create_string_param(obj), ParserCodes)
  /\ \A what, i, j : IsStep(Str(what, i, j), ParserCodes)
  /\ \A i, params, j : IsStep(append_pair_to_dict(i, params, j), ParserCodes)
<1>1. \A obj : IsStep(create_string_param(obj), ParserCodes)
  BY DEF IsStep, create_string_param, Step
<1>2. \A i, params, j : IsStep(append_pair_to_dict(i, params, j), ParserCodes)
  BY DEF IsStep, append_pair_to_dict, Step
<1>3. \A what, i, j : IsStep(Str(what, i, j), ParserCodes)
  BY <1>1 DEF Str
<1> QED
  BY <1>1, <1>2, <1>3, StepString, StepNeed, StepGet, StepPut DEF ParserCodes

LEMMA AddCodecFn ==
  ASSUME NEW i, NEW c, c.params # Nothing => IsSeq(c.params)
  PROVE  Fn(add_codec(i, c), ParserCodes)
<1>1. ASSUME IsSeq(c.params) PROVE Fn(parse_special_params(i, c.params), ParserCodes)
  <2> DEFINE round(j) == <<get_json_string_by_key(<<destroy_dict(i, c.params, j - 1)>>),
                           append_pair_to_dict(i, c.params, j)>>
             r == [j \in DOMAIN c.params |-> When(~c.params[j].dropped, round(j))]
             n == Len(c.params)
  <2>1. n \in Nat /\ DOMAIN c.params = 1 .. n
    BY <1>1, SeqDomain
  <2>2. ASSUME NEW j \in 1 .. n PROVE Fn(r[j], ParserCodes)
    <3>1. Fn(round(j), ParserCodes)
      BY ParserSteps, FnTwo
    <3> HIDE DEF round
    <3> QED
      BY <2>1, <3>1, FnWhen
  <2>3. DOMAIN r = 1 .. n /\ r = [j \in 1 .. n |-> r[j]]
    BY <2>1
  <2> HIDE DEF r, n
  <2>4. Fn(Loop(r), ParserCodes)
    BY <2>1, <2>2, <2>3, FnLoop
  <2>5. Fn(<<Need(<<>>), Get({dict(i)}, <<>>)>>, ParserCodes)
    BY ParserSteps, FnTwo
  <2> QED
    BY <2>4, <2>5, FnConcat DEF parse_special_params, r
<1> DEFINE head == <<get_json_string_by_key(<<>>), create_string_param(codec_name(i)),
                     create_string_param(codec_type(i))>>
           tail == Within(parse_special_params(i, c.params), <<{codec_type(i)}, {codec_name(i)}>>)
<1>2. Fn(head, ParserCodes)
  BY ParserSteps, FnThree
<1>3. Fn(When(c.params # Nothing, tail), ParserCodes)
  <2>1. c.params # Nothing => Fn(tail, ParserCodes)
    BY <1>1, FnWithin
  <2> HIDE DEF tail
  <2> QED
    BY <2>1, FnWhen
<1> HIDE DEF head, tail
<1>4. Fn(head \o When(c.params # Nothing, tail), ParserCodes)
  BY <1>2, <1>3, FnConcat
<1> QED
  BY <1>4 DEF add_codec, head, tail

LEMMA LayoutFn ==
  ASSUME NEW i, NEW p, IsSeq(p.layout)
  PROVE  Fn(create_page_layout(i, p), ParserCodes)
<1> DEFINE r == [k \in DOMAIN p.layout |->
                   <<get_json_string_by_key(<<destroy_layout_parts_below(i, k - 1), {<<"parts", i, 0>>}>>),
                     Str("part_name", i, k), Str("span_name", i, k)>>]
           n == Len(p.layout)
<1>1. n \in Nat /\ DOMAIN p.layout = 1 .. n
  BY SeqDomain
<1>2. \A k \in 1 .. n : Fn(r[k], ParserCodes)
  BY <1>1, ParserSteps, FnThree
<1>3. DOMAIN r = 1 .. n /\ r = [k \in 1 .. n |-> r[k]]
  BY <1>1
<1> HIDE DEF r, n
<1>4. Fn(Loop(r), ParserCodes)
  BY <1>1, <1>2, <1>3, FnLoop
<1>5. Fn(<<Need(<<>>), Get({<<"parts", i, 0>>}, <<>>)>>, ParserCodes)
  BY ParserSteps, FnTwo
<1> QED
  BY <1>4, <1>5, FnConcat DEF create_page_layout, r

LEMMA RangeFn ==
  ASSUME NEW what, NEW i, NEW k
  PROVE  Fn(parse_range(what, i, k), ParserCodes)
BY ParserSteps, FnTwo DEF parse_range

LEMMA ReadSpecifierFn ==
  ASSUME NEW i, NEW p, NEW k
  PROVE  Fn(parse_read_codec_specifier(i, p, k), ParserCodes)
<1> DEFINE a == <<get_json_string_by_key(<<>>)>>
           b == When(p.oob[k], parse_range("read.oob", i, k))
           c == Within(parse_range("read.data", i, k), <<read_oob(i, p, k)>>)
           d == <<Str("read.name", i, k)>>
<1>1. Fn(a, ParserCodes) /\ Fn(d, ParserCodes)
  BY ParserSteps, FnOne
<1>2. Fn(b, ParserCodes)
  BY RangeFn, FnWhen
<1>3. Fn(c, ParserCodes)
  BY RangeFn, FnWithin
<1>4. parse_read_codec_specifier(i, p, k) = a \o b \o c \o d
  BY DEF parse_read_codec_specifier
<1> HIDE DEF a, b, c, d
<1> QED
  BY <1>1, <1>2, <1>3, <1>4, FnConcat4

LEMMA ReadCodecsFn ==
  ASSUME NEW i, NEW p, IsSeq(p.reads)
  PROVE  Fn(add_read_codecs(i, p), ParserCodes)
<1> DEFINE r == [k \in DOMAIN p.reads |->
                   Within(parse_read_codec_specifier(i, p, k), <<destroy_read_codec_specifiers(i, p, k - 1)>>)]
           n == Len(p.reads)
<1>1. n \in Nat /\ DOMAIN p.reads = 1 .. n
  BY SeqDomain
<1>2. \A k \in 1 .. n : Fn(r[k], ParserCodes)
  BY <1>1, ReadSpecifierFn, FnWithin
<1>3. DOMAIN r = 1 .. n /\ r = [k \in 1 .. n |-> r[k]]
  BY <1>1
<1> HIDE DEF r, n
<1>4. Fn(Loop(r), ParserCodes)
  BY <1>1, <1>2, <1>3, FnLoop
<1>5. Fn(<<Need(<<>>), Get({<<"read.objs", i, 0>>}, <<>>)>>, ParserCodes)
  BY ParserSteps, FnTwo
<1> QED
  BY <1>4, <1>5, FnConcat DEF add_read_codecs, r

LEMMA WriteSpecifierFn ==
  ASSUME NEW i, NEW p, NEW k
  PROVE  Fn(parse_write_codec_specifier(i, p, k), ParserCodes)
<1> DEFINE a == <<get_json_string_by_key(<<>>)>>
           src == <<Get({<<"write.src", i, k>>}, <<>>)>>
                  \o Within(parse_range("write.src_span", i, k), <<{<<"write.src", i, k>>}>>)
           b == When(p.src[k], src)
           c == Within(parse_range("write.dest", i, k), <<write_src(i, p, k)>>)
           d == <<Str("write.name", i, k)>>
<1>1. Fn(a, ParserCodes) /\ Fn(d, ParserCodes)
  BY ParserSteps, FnOne
<1>2. Fn(src, ParserCodes)
  <2>1. Fn(<<Get({<<"write.src", i, k>>}, <<>>)>>, ParserCodes)
    BY ParserSteps, FnOne
  <2>2. Fn(Within(parse_range("write.src_span", i, k), <<{<<"write.src", i, k>>}>>), ParserCodes)
    BY RangeFn, FnWithin
  <2> QED
    BY <2>1, <2>2, FnConcat
<1>3. Fn(b, ParserCodes)
  <2> HIDE DEF src
  <2> QED
    BY <1>2, FnWhen
<1>4. Fn(c, ParserCodes)
  BY RangeFn, FnWithin
<1>5. parse_write_codec_specifier(i, p, k) = a \o b \o c \o d
  BY DEF parse_write_codec_specifier
<1> HIDE DEF a, b, c, d
<1> QED
  BY <1>1, <1>3, <1>4, <1>5, FnConcat4

LEMMA WriteCodecsFn ==
  ASSUME NEW i, NEW p, IsSeq(p.writes)
  PROVE  Fn(add_write_codecs(i, p), ParserCodes)
<1> DEFINE r == [k \in DOMAIN p.writes |->
                   Within(parse_write_codec_specifier(i, p, k), <<destroy_write_codec_specifiers(i, p, k - 1)>>)]
           n == Len(p.writes)
<1>1. n \in Nat /\ DOMAIN p.writes = 1 .. n
  BY SeqDomain
<1>2. \A k \in 1 .. n : Fn(r[k], ParserCodes)
  BY <1>1, WriteSpecifierFn, FnWithin
<1>3. DOMAIN r = 1 .. n /\ r = [k \in 1 .. n |-> r[k]]
  BY <1>1
<1> HIDE DEF r, n
<1>4. Fn(Loop(r), ParserCodes)
  BY <1>1, <1>2, <1>3, FnLoop
<1>5. Fn(<<Need(<<>>), Get({<<"write.objs", i, 0>>}, <<>>)>>, ParserCodes)
  BY ParserSteps, FnTwo
<1> QED
  BY <1>4, <1>5, FnConcat DEF add_write_codecs, r

LEMMA AddPipelineFn ==
  ASSUME NEW i, NEW p, IsSeq(p.layout), IsSeq(p.reads), p.writes # Nothing => IsSeq(p.writes)
  PROVE  Fn(add_pipeline(i, p), ParserCodes)
<1> DEFINE free_name == <<{<<"pipeline.name", i, 0>>}>>
           free_layout == <<destroy_page_layout(i, p)>> \o free_name
           destroy_read_codecs == <<destroy_read_codec_specifiers(i, p, Len(p.reads))>> \o free_layout
           free_write_codecs == <<{<<"write", i, 0>>}>> \o destroy_read_codecs
           destroy_write_codecs ==
             <<destroy_write_codec_specifiers(i, p, Len(p.writes))>> \o free_write_codecs
           free_write_mappings == <<{<<"mappings", i, 0>>}>> \o destroy_write_codecs
           a == <<get_json_string_by_key(<<>>), create_string_param(<<"pipeline.name", i, 0>>)>>
           b == Within(create_page_layout(i, p), free_name)
           c == Within(add_read_codecs(i, p), free_layout)
           d == Within(add_span_mappings("read.map", i), free_layout)
           e == <<Get({<<"write", i, 0>>}, destroy_read_codecs)>>
           f == Within(add_write_codecs(i, p), free_write_codecs)
           g == <<Get({<<"mappings", i, 0>>}, destroy_write_codecs)>>
           h == Within(add_span_mappings("write.map", i), free_write_mappings)
           w == e \o f \o g \o h
<1>0. add_pipeline(i, p) = a \o b \o c \o d \o When(p.writes # Nothing, w)
  BY DEF add_pipeline
<1>1. \A what : Fn(add_span_mappings(what, i), ParserCodes)
  BY ParserSteps, FnThree DEF add_span_mappings
<1> HIDE DEF free_name, free_layout, destroy_read_codecs, free_write_codecs, destroy_write_codecs,
             free_write_mappings
<1>2. Fn(a, ParserCodes)
  BY ParserSteps, FnTwo
<1>3. Fn(b, ParserCodes)
  BY LayoutFn, FnWithin
<1>4. Fn(c, ParserCodes)
  BY ReadCodecsFn, FnWithin
<1>5. Fn(d, ParserCodes) /\ Fn(h, ParserCodes)
  BY <1>1, FnWithin
<1>6. Fn(e, ParserCodes) /\ Fn(g, ParserCodes)
  BY ParserSteps, FnOne
<1>7. p.writes # Nothing => Fn(f, ParserCodes)
  BY WriteCodecsFn, FnWithin
<1> HIDE DEF a, b, c, d, e, f, g, h
<1>8. p.writes # Nothing => Fn(w, ParserCodes)
  BY <1>5, <1>6, <1>7, FnConcat4
<1> HIDE DEF w
<1>9. Fn(When(p.writes # Nothing, w), ParserCodes)
  BY <1>8, FnWhen
<1>10. Fn(a \o b \o c \o d, ParserCodes)
  BY <1>2, <1>3, <1>4, <1>5, FnConcat4
<1> QED
  BY <1>0, <1>9, <1>10, FnConcat

LEMMA SectionFn ==
  ASSUME NEW d, DocTyped(d), NEW s \in DOMAIN Sections
  PROVE  Fn(ParseSection(d, s), ParserCodes)
<1>1. s \in {1, 2, 3} /\ Items(d, s) = IF s = 1 THEN d.codecs ELSE IF s = 2 THEN d.pipelines ELSE d.partitions
  BY DEF Sections, Items
<1>2. IsSeq(Items(d, s))
  BY <1>1 DEF DocTyped
<1>3. ASSUME NEW i \in DOMAIN Items(d, s) PROVE Fn(AddItem(d, s, i), ParserCodes)
  <2>1. CASE s = 1
    <3>1. i \in DOMAIN d.codecs
      BY <1>1, <2>1
    <3>2. Fn(add_codec(i, d.codecs[i]), ParserCodes)
      BY <3>1, AddCodecFn DEF DocTyped
    <3> QED
      BY <2>1, <3>2 DEF AddItem
  <2>2. CASE s = 2
    <3> DEFINE p == d.pipelines[i]
    <3>1. i \in DOMAIN d.pipelines
      BY <1>1, <2>2
    <3>2. /\ IsSeq(p.layout) /\ p.reads \in Seq(DOMAIN d.codecs)
          /\ p.writes # Nothing => p.writes \in Seq(DOMAIN d.codecs)
      BY <3>1 DEF DocTyped
    <3> HIDE DEF p
    <3>3. IsSeq(p.reads) /\ (p.writes # Nothing => IsSeq(p.writes))
      BY <3>2, SeqRange
    <3>4. Fn(add_pipeline(i, p), ParserCodes)
      BY <3>2, <3>3, AddPipelineFn
    <3> QED
      BY <2>2, <3>4 DEF AddItem, p
  <2>3. CASE s = 3
    <3> DEFINE a == <<get_json_string_by_key(<<>>), Str("partition.name", i, 0), Str("partition.pipeline", i, 0),
                      Need(<<partition_strings(i)>>)>>
    <3>1. Fn(a, ParserCodes)
      BY ParserSteps, FnFour
    <3> QED
      BY <2>3, <3>1 DEF AddItem, add_partition
  <2> QED
    BY <1>1, <2>1, <2>2, <2>3
<1> DEFINE r == [i \in DOMAIN Items(d, s) |-> Within(AddItem(d, s, i), DestroyItems(d, s, i - 1))]
           n == Len(Items(d, s))
<1>4. n \in Nat /\ DOMAIN Items(d, s) = 1 .. n
  BY <1>2, SeqDomain
<1>5. \A i \in 1 .. n : Fn(r[i], ParserCodes)
  BY <1>3, <1>4, FnWithin
<1>6. DOMAIN r = 1 .. n /\ r = [i \in 1 .. n |-> r[i]]
  BY <1>4
<1> HIDE DEF r, n
<1>7. Fn(Loop(r), ParserCodes)
  BY <1>4, <1>5, <1>6, FnLoop
<1>8. Fn(<<Need(<<>>), Get({section_objs(s)}, <<>>)>>, ParserCodes)
  BY ParserSteps, FnTwo
<1> QED
  BY <1>7, <1>8, FnConcat DEF ParseSection, r

LEMMA CfgSchemeFn ==
  ASSUME NEW d, DocTyped(d)
  PROVE  Fn(create_cfg_scheme(d), ParserCodes)
<1>1. Fn(parse_root_document(d), ParserCodes)
  <2> DEFINE r == [s \in DOMAIN Sections |-> Within(ParseSection(d, s), deinit_scheme(d, s - 1))]
  <2>1. DOMAIN Sections = 1 .. 3
    BY DEF Sections
  <2>2. \A s \in 1 .. 3 : Fn(r[s], ParserCodes)
    BY <2>1, SectionFn, FnWithin
  <2>3. DOMAIN r = 1 .. 3 /\ r = [s \in 1 .. 3 |-> r[s]]
    BY <2>1
  <2> HIDE DEF r
  <2>4. Fn(Loop(r), ParserCodes)
    BY <2>2, <2>3, FnLoop
  <2> QED
    BY <2>4 DEF parse_root_document, r
<1>2. \A objs : IsStep([Get(objs, <<>>) EXCEPT !.fail = [k \in {"refused"} |-> <<>>]], ParserCodes)
  BY DEF IsStep, Get, Step, ParserCodes
<1>3. Fn(parse_config_file(d), ParserCodes)
  <2> DEFINE a == <<[Get({root, node}, <<>>) EXCEPT !.fail = [k \in {"refused"} |-> <<>>]], Need(<<>>)>>
             b == Within(parse_root_document(d), <<{root, node}>>)
             c == <<Put({root, node})>>
  <2>1. Fn(a, ParserCodes)
    BY <1>2, ParserSteps, FnTwo
  <2>2. Fn(b, ParserCodes)
    BY <1>1, FnWithin
  <2>3. Fn(c, ParserCodes)
    BY ParserSteps, FnOne
  <2>4. parse_config_file(d) = a \o b \o c
    BY DEF parse_config_file
  <2> HIDE DEF a, b, c
  <2> QED
    BY <2>1, <2>2, <2>3, <2>4, FnConcat3
<1> DEFINE a == <<[Get({file}, <<>>) EXCEPT !.fail = [k \in {"refused"} |-> <<>>]]>>
           b == Within(parse_config_file(d), <<{file}>>)
           e == <<Put({file})>>
<1>4. Fn(a, ParserCodes)
  BY <1>2, FnOne
<1>5. Fn(b, ParserCodes)
  BY <1>3, FnWithin
<1>6. Fn(print_codecs_section(d), ParserCodes)
  <2> DEFINE s == <<[Step EXCEPT !.crash = TRUE]>>
  <2>1. IsStep([Step EXCEPT !.crash = TRUE], ParserCodes)
    BY DEF IsStep, Step
  <2>2. Fn(s, ParserCodes)
    BY <2>1, FnOne
  <2> HIDE DEF s
  <2>3. \A cond : Fn(When(cond, s), ParserCodes)
    BY <2>2, FnWhen
  <2> QED
    BY <2>3 DEF print_codecs_section, s
<1>7. Fn(e, ParserCodes)
  BY ParserSteps, FnOne
<1>8. create_cfg_scheme(d) = a \o b \o print_codecs_section(d) \o e
  BY DEF create_cfg_scheme
<1> HIDE DEF a, b, e
<1> QED
  BY <1>4, <1>5, <1>6, <1>7, <1>8, FnConcat4

-----------------------------------------------------------------------------
(* What the functions of a thread return, and what it means that none of   *)
(* their steps is sure to fail *)

BuildCodes == {"refused", "oom"}

LEMMA BuildSteps ==
  /\ \A exit : IsStep(Need(exit), BuildCodes) /\ ~Need(exit).sure
  /\ \A exit : IsStep(Refuse(exit), BuildCodes) /\ Refuse(exit).sure
  /\ \A objs, exit : IsStep(Get(objs, exit), BuildCodes) /\ ~Get(objs, exit).sure
  /\ \A objs : IsStep(Put(objs), BuildCodes) /\ ~Put(objs).sure
  /\ IsStep(Crash, BuildCodes) /\ Crash.sure
  /\ \A present, e1, e2 : IsStep(hashmap_set(present, e1, e2), BuildCodes)
BY StepNeed, StepRefuse, StepGet, StepPut, StepCrash, StepSet DEF BuildCodes

LEMMA ParserTables ==
  /\ DOMAIN parsers = {"linux-hamming", "xor", "memset"}
  /\ parsers["linux-hamming"] = hamming_parsers
  /\ parsers["xor"] = xor_parsers
  /\ parsers["memset"] = memset_parsers
BY DEF parsers

LEMMA ParsersTyped ==
  ASSUME NEW type \in DOMAIN parsers
  PROVE  Len(parsers[type]) \in Nat /\ DOMAIN parsers[type] = 1 .. Len(parsers[type])
<1>1. /\ Len(hamming_parsers) = 4 /\ DOMAIN hamming_parsers = 1 .. 4
      /\ Len(xor_parsers) = 2 /\ DOMAIN xor_parsers = 1 .. 2
      /\ Len(memset_parsers) = 1 /\ DOMAIN memset_parsers = 1 .. 1
  BY DEF hamming_parsers, xor_parsers, memset_parsers
<1>2. CASE type = "linux-hamming"
  <2>1. parsers[type] = hamming_parsers
    BY <1>2, ParserTables
  <2>2. Len(parsers[type]) = 4 /\ DOMAIN parsers[type] = 1 .. 4
    BY <1>1, <2>1, Zenon
  <2> QED
    BY <2>2
<1>3. CASE type = "xor"
  <2>1. parsers[type] = xor_parsers
    BY <1>3, ParserTables
  <2>2. Len(parsers[type]) = 2 /\ DOMAIN parsers[type] = 1 .. 2
    BY <1>1, <2>1, Zenon
  <2> QED
    BY <2>2
<1>4. CASE type = "memset"
  <2>1. parsers[type] = memset_parsers
    BY <1>4, ParserTables
  <2>2. Len(parsers[type]) = 1 /\ DOMAIN parsers[type] = 1 .. 1
    BY <1>1, <2>1, Zenon
  <2> QED
    BY <2>2
<1> QED
  BY <1>2, <1>3, <1>4, ParserTables

(* The parameters of a codec that parse_codec_entries has accepted. *)
EntriesAccepted(c) ==
  LET ps == parsers[c.type]
  IN /\ ~(Cardinality(Table(c.params)) > Len(ps))
     /\ \A n \in DOMAIN ps : ps[n].required => Has(c.params, ps[n])
     /\ \A n \in DOMAIN ps : Has(c.params, ps[n]) => parse_value(c, ps[n])

LEMMA EntriesFn ==
  ASSUME NEW i, NEW c, c.type \in DOMAIN parsers
  PROVE  /\ Fn(parse_codec_entries(i, c), BuildCodes)
         /\ NoneSure(parse_codec_entries(i, c)) => EntriesAccepted(c)
<1> DEFINE ps == parsers[c.type]
           n == Len(ps)
           lacking == \E k \in DOMAIN ps : ps[k].required /\ ~Has(c.params, ps[k])
           entry(k) ==
             CASE ~Has(c.params, ps[k]) -> <<>>
               [] Has(c.params, ps[k]) /\ ~parse_value(c, ps[k]) ->
                    <<Refuse(<<do_revert_entries(i, c, k), {ordered_entries(i)}>>)>>
               [] Has(c.params, ps[k]) /\ parse_value(c, ps[k]) /\ OwnsMask(c, k) ->
                    <<Get({codec_mask(i)}, <<{ordered_entries(i)}>>)>>
               [] OTHER -> <<>>
           many == Cardinality(Table(c.params)) > Len(ps)
           r == [k \in DOMAIN ps |-> entry(k)]
           x == <<Refuse(<<>>)>>
           b == <<Get({ordered_entries(i)}, <<>>)>>
           y == <<Refuse(<<{ordered_entries(i)}>>)>>
           e == <<Put({ordered_entries(i)})>>
<1>1. n \in Nat /\ DOMAIN ps = 1 .. n
  BY ParsersTyped
<1>2. parse_codec_entries(i, c) = When(many, x) \o b \o When(lacking, y) \o When(~lacking, Loop(r)) \o e
  BY DEF parse_codec_entries
<1>3. ASSUME NEW k \in 1 .. n
      PROVE  /\ Fn(r[k], BuildCodes)
             /\ NoneSure(r[k]) => (Has(c.params, ps[k]) => parse_value(c, ps[k]))
  <2>1. Fn(<<>>, BuildCodes)
    BY FnEmpty
  <2>2. \A exit : Fn(<<Refuse(exit)>>, BuildCodes) /\ ~NoneSure(<<Refuse(exit)>>)
    BY BuildSteps, FnOne
  <2>3. \A objs, exit : Fn(<<Get(objs, exit)>>, BuildCodes)
    BY BuildSteps, FnOne
  <2>4. r[k] = entry(k)
    BY <1>1
  <2> HIDE DEF r, ps
  <2> QED
    BY <2>1, <2>2, <2>3, <2>4
<1>4. DOMAIN r = 1 .. n /\ r = [k \in 1 .. n |-> r[k]]
  BY <1>1
<1>5. Fn(x, BuildCodes) /\ ~NoneSure(x) /\ Fn(y, BuildCodes) /\ ~NoneSure(y)
  BY BuildSteps, FnOne
<1>6. Fn(b, BuildCodes) /\ Fn(e, BuildCodes)
  BY BuildSteps, FnOne
<1> HIDE DEF entry, r, n, x, y, b, e, lacking, many
<1>7. Fn(Loop(r), BuildCodes) /\ (NoneSure(Loop(r)) <=> \A k \in 1 .. n : NoneSure(r[k]))
  BY <1>1, <1>3, <1>4, FnLoop
<1>8. Fn(When(many, x), BuildCodes) /\ (NoneSure(When(many, x)) <=> (many => NoneSure(x)))
  BY <1>5, FnWhen
<1>9. Fn(When(lacking, y), BuildCodes) /\ (NoneSure(When(lacking, y)) <=> (lacking => NoneSure(y)))
  BY <1>5, FnWhen
<1>10. /\ Fn(When(~lacking, Loop(r)), BuildCodes)
       /\ NoneSure(When(~lacking, Loop(r))) <=> (~lacking => NoneSure(Loop(r)))
  BY <1>7, FnWhen
<1> DEFINE f == When(many, x)
           g == When(lacking, y)
           h == When(~lacking, Loop(r))
<1>11. /\ Fn(f \o b \o g \o h \o e, BuildCodes)
       /\ NoneSure(f \o b \o g \o h \o e) => NoneSure(f) /\ NoneSure(g) /\ NoneSure(h)
  <2> HIDE DEF f, g, h
  <2>1. Fn(f \o b \o g \o h, BuildCodes)
        /\ (NoneSure(f \o b \o g \o h) <=> NoneSure(f) /\ NoneSure(b) /\ NoneSure(g) /\ NoneSure(h))
    BY <1>6, <1>8, <1>9, <1>10, FnConcat4 DEF f, g, h
  <2> QED
    BY <1>6, <2>1, FnConcat
<1>12. ASSUME NoneSure(f), NoneSure(g), NoneSure(h) PROVE EntriesAccepted(c)
  <2>1. ~many /\ ~lacking /\ \A k \in 1 .. n : NoneSure(r[k])
    BY <1>5, <1>7, <1>8, <1>9, <1>10, <1>12
  <2>2. \A k \in DOMAIN ps : Has(c.params, ps[k]) => parse_value(c, ps[k])
    BY <1>1, <1>3, <2>1
  <2> QED
    BY <2>1, <2>2 DEF EntriesAccepted, many, lacking
<1> QED
  BY <1>2, <1>11, <1>12

(* A codec that its initialiser has accepted. *)
CodecSound(c) ==
  /\ c.type \in DOMAIN parsers /\ c.params # Nothing
  /\ EntriesAccepted(c)
  /\ c.type = "linux-hamming" => validate_mtd_page_size_against_ecc_steps(c)

LEMMA InternalsFn ==
  ASSUME NEW i, NEW c
  PROVE  /\ Fn(initialize_codec_internals(i, c), BuildCodes)
         /\ NoneSure(initialize_codec_internals(i, c)) => CodecSound(c)
<1>1. CASE c.type \notin DOMAIN parsers
  <2>1. Fn(<<Refuse(<<>>)>>, BuildCodes) /\ ~NoneSure(<<Refuse(<<>>)>>)
    BY BuildSteps, FnOne
  <2> QED
    BY <1>1, <2>1 DEF initialize_codec_internals
<1>2. CASE c.type \in DOMAIN parsers /\ c.params = Nothing
  <2> DEFINE s == <<Get({codec_priv(i)}, <<>>), Crash>>
  <2>1. Fn(s, BuildCodes) /\ ~NoneSure(s)
    BY BuildSteps, FnTwo
  <2> QED
    BY <1>2, <2>1 DEF initialize_codec_internals, init_codec
<1>3. CASE c.type \in DOMAIN parsers /\ c.params # Nothing
  <2> DEFINE steps == parse_codec_entries(i, c)
             refused == c.type = "linux-hamming" /\ NoneSure(steps) /\ ~validate_mtd_page_size_against_ecc_steps(c)
             dangling == Dangling(c.params) # {}
             a == <<Get({codec_priv(i)}, <<>>)>>
             x == <<[Need(<<>>) EXCEPT !.crash = TRUE]>>
             y == <<Refuse(<<>>)>>
  <2>1. initialize_codec_internals(i, c) = a \o When(dangling, x) \o steps \o When(refused, y)
    BY <1>3 DEF initialize_codec_internals, init_codec, NoneSure
  <2>2. Fn(a, BuildCodes) /\ Fn(y, BuildCodes) /\ ~NoneSure(y)
    BY BuildSteps, FnOne
  <2>3. Fn(x, BuildCodes)
    <3>1. IsStep([Need(<<>>) EXCEPT !.crash = TRUE], BuildCodes)
      BY DEF IsStep, Need, Step, BuildCodes
    <3> QED
      BY <3>1, FnOne
  <2>4. Fn(steps, BuildCodes) /\ (NoneSure(steps) => EntriesAccepted(c))
    BY <1>3, EntriesFn
  <2> HIDE DEF a, x, y, steps, dangling, refused
  <2>5. Fn(When(dangling, x), BuildCodes)
    BY <2>3, FnWhen
  <2>6. Fn(When(refused, y), BuildCodes) /\ (NoneSure(When(refused, y)) => ~refused)
    BY <2>2, FnWhen
  <2>7. /\ Fn(initialize_codec_internals(i, c), BuildCodes)
        /\ NoneSure(initialize_codec_internals(i, c)) => NoneSure(steps) /\ ~refused
    BY <2>1, <2>2, <2>4, <2>5, <2>6, FnConcat4
  <2> QED
    BY <1>3, <2>4, <2>7 DEF CodecSound, refused
<1> QED
  BY <1>1, <1>2, <1>3

LEMMA CodecsFn ==
  ASSUME NEW d, DocTyped(d)
  PROVE  /\ Fn(BuildCodecs(d), BuildCodes)
         /\ NoneSure(BuildCodecs(d)) => \A j \in DOMAIN d.codecs : CodecSound(d.codecs[j])
<1> DEFINE a(j) == <<Get({codec_name(j)}, <<free_codecs(d, j - 1)>>),
                     Get({codec_type(j)}, <<{codec_name(j)}, free_codecs(d, j - 1)>>)>>
           b(j) == Within(initialize_codec_internals(j, d.codecs[j]), <<codec_destroy(j), free_codecs(d, j - 1)>>)
           c(j) == <<hashmap_set(Occurs(Names(d.codecs), j), <<codec_destroy(j), free_codecs(d, j - 1)>>,
                                 <<codec_destroy(j), free_codecs(d, j)>>)>>
           r == [j \in DOMAIN d.codecs |-> a(j) \o b(j) \o c(j)]
           n == Len(d.codecs)
<1>1. n \in Nat /\ DOMAIN d.codecs = 1 .. n
  BY SeqDomain DEF DocTyped
<1>2. ASSUME NEW j \in 1 .. n
      PROVE  Fn(r[j], BuildCodes) /\ (NoneSure(r[j]) => CodecSound(d.codecs[j]))
  <2>1. Fn(a(j), BuildCodes)
    BY BuildSteps, FnTwo
  <2>2. Fn(b(j), BuildCodes) /\ (NoneSure(b(j)) => CodecSound(d.codecs[j]))
    BY InternalsFn, FnWithin
  <2>3. Fn(c(j), BuildCodes)
    BY BuildSteps, FnOne
  <2>4. r[j] = a(j) \o b(j) \o c(j)
    BY <1>1
  <2> HIDE DEF r, a, b, c
  <2> QED
    BY <2>1, <2>2, <2>3, <2>4, FnConcat3
<1>3. DOMAIN r = 1 .. n /\ r = [j \in 1 .. n |-> r[j]]
  BY <1>1
<1>4. Fn(<<Get({codecs_map}, <<>>)>>, BuildCodes) /\ Fn(<<Get({thread_priv}, <<>>)>>, BuildCodes)
  BY BuildSteps, FnOne
<1>5. initialize_codecs(d) = <<Get({codecs_map}, <<>>)>> \o Loop(r)
  BY DEF initialize_codecs
<1> HIDE DEF r, n
<1>6. Fn(Loop(r), BuildCodes) /\ (NoneSure(Loop(r)) <=> \A j \in 1 .. n : NoneSure(r[j]))
  BY <1>1, <1>2, <1>3, FnLoop
<1>7. Fn(initialize_codecs(d), BuildCodes) /\ (NoneSure(initialize_codecs(d)) => NoneSure(Loop(r)))
  BY <1>4, <1>5, <1>6, FnConcat
<1>8. Fn(BuildCodecs(d), BuildCodes) /\ (NoneSure(BuildCodecs(d)) => NoneSure(initialize_codecs(d)))
  BY <1>4, <1>7, FnConcat DEF BuildCodecs
<1> QED
  BY <1>1, <1>2, <1>6, <1>7, <1>8

LEMMA FiniteImage ==
  ASSUME NEW n \in Nat, NEW f
  PROVE  /\ IsFiniteSet({f[k] : k \in 1 .. n}) /\ Cardinality({f[k] : k \in 1 .. n}) \in Nat
         /\ Cardinality({f[k] : k \in 1 .. n}) <= n
<1> DEFINE S == 1 .. n
           T == {f[k] : k \in S}
           g == [k \in S |-> f[k]]
<1>1. IsFiniteSet(S) /\ Cardinality(S) = n
  BY FS_Interval
<1>2. g \in Surjection(S, T)
  BY DEF Surjection
<1> HIDE DEF S, T, g
<1>3. IsFiniteSet(T) /\ Cardinality(T) <= Cardinality(S)
  BY <1>1, <1>2, FS_Surjection
<1> QED
  BY <1>1, <1>3, FS_CardinalityType DEF S, T

LEMMA LayoutPartsFn ==
  ASSUME NEW i, NEW p, IsSeq(p.layout)
  PROVE  Fn(add_pipeline_layout_parts(i, p), BuildCodes)
<1> DEFINE n == Len(p.layout)
           all == Spans(p, n)
           card == Cardinality(all)
           initializers == {<<"span_initializers", i, 0>>}
           found(k) == <<free_spans(i, Spans(p, k), {}, {}), destroy_layout_parts(i, k)>>
           linked(k) == <<initializers, free_spans(i, all, Spans(p, k), {}), destroy_layout_parts(i, k)>>
           part(k) == <<Need(found(k - 1)),
                        Get({<<"layout.part", i, k>>}, found(k - 1)),
                        Get({<<"layout.part_name", i, k>>}, <<{<<"layout.part", i, k>>}>> \o found(k - 1))>>
           span(k) == find_or_add_new_span(i, p, k, <<layout_part(i, k)>> \o found(k - 1))
           need(k) == <<Need(linked(k - 1))>>
           link(k) == <<Get({span_parts(i, p.layout[k])}, linked(k - 1))>>
           buf(s) == <<Get({span_buf(i, s)}, <<free_spans(i, all, all, 1 .. s - 1), destroy_layout_parts(i, n)>>)>>
           q == [k \in 1 .. n |-> part(k) \o span(k)]
           r == [k \in 1 .. n |-> When(k < n, need(k)) \o When(p.layout[k] \notin Spans(p, k - 1), link(k))]
           t == [s \in 1 .. card |-> buf(s)]
           a == <<Get({layout_spans(i)}, <<>>), Get({layout_parts(i)}, <<{layout_spans(i)}>>)>>
           b == <<Get(initializers, found(n))>>
           c == <<Put(initializers)>>
<1>0. add_pipeline_layout_parts(i, p) = a \o Loop(q) \o b \o Loop(r) \o c \o Loop(t)
  BY DEF add_pipeline_layout_parts
<1>1. n \in Nat
  BY SeqDomain
<1>2. card \in Nat
  <2> HIDE DEF n
  <2> QED
    BY <1>1, FiniteImage DEF Spans
<1>3. \A k, exit : Fn(find_or_add_new_span(i, p, k, exit), BuildCodes)
  <2> SUFFICES ASSUME NEW k, NEW exit PROVE Fn(find_or_add_new_span(i, p, k, exit), BuildCodes)
    OBVIOUS
  <2> DEFINE x == <<Need(exit)>>
             y == <<Get({span_name(i, p.layout[k])}, exit), Get({}, exit)>>
  <2>1. Fn(x, BuildCodes)
    BY BuildSteps, FnOne
  <2>2. Fn(y, BuildCodes)
    BY BuildSteps, FnTwo
  <2>3. find_or_add_new_span(i, p, k, exit) = x \o When(p.layout[k] \notin Spans(p, k - 1), y)
    BY DEF find_or_add_new_span
  <2> HIDE DEF x, y
  <2>4. Fn(When(p.layout[k] \notin Spans(p, k - 1), y), BuildCodes)
    BY <2>2, FnWhen
  <2> QED
    BY <2>1, <2>3, <2>4, FnConcat
<1> HIDE DEF n, all, card, initializers, found, linked
<1>4. \A k \in 1 .. n : Fn(q[k], BuildCodes)
  <2> SUFFICES ASSUME NEW k \in 1 .. n PROVE Fn(part(k) \o span(k), BuildCodes)
    OBVIOUS
  <2>1. Fn(part(k), BuildCodes)
    BY BuildSteps, FnThree
  <2>2. Fn(span(k), BuildCodes)
    BY <1>3
  <2> HIDE DEF part, span
  <2> QED
    BY <2>1, <2>2, FnConcat
<1>5. \A k \in 1 .. n : Fn(r[k], BuildCodes)
  <2> SUFFICES ASSUME NEW k \in 1 .. n
               PROVE  Fn(When(k < n, need(k)) \o When(p.layout[k] \notin Spans(p, k - 1), link(k)), BuildCodes)
    OBVIOUS
  <2>1. Fn(need(k), BuildCodes) /\ Fn(link(k), BuildCodes)
    BY BuildSteps, FnOne
  <2> HIDE DEF need, link
  <2>2. Fn(When(k < n, need(k)), BuildCodes) /\ Fn(When(p.layout[k] \notin Spans(p, k - 1), link(k)), BuildCodes)
    BY <2>1, FnWhen
  <2> QED
    BY <2>2, FnConcat
<1>6. \A s \in 1 .. card : Fn(t[s], BuildCodes)
  BY BuildSteps, FnOne
<1>7. /\ DOMAIN q = 1 .. n /\ q = [k \in 1 .. n |-> q[k]]
      /\ DOMAIN r = 1 .. n /\ r = [k \in 1 .. n |-> r[k]]
      /\ DOMAIN t = 1 .. card /\ t = [k \in 1 .. card |-> t[k]]
  OBVIOUS
<1>8. Fn(a, BuildCodes)
  BY BuildSteps, FnTwo
<1>9. Fn(b, BuildCodes) /\ Fn(c, BuildCodes)
  BY BuildSteps, FnOne
<1> HIDE DEF q, r, t, a, b, c
<1>10. Fn(Loop(q), BuildCodes) /\ Fn(Loop(r), BuildCodes) /\ Fn(Loop(t), BuildCodes)
  BY <1>1, <1>2, <1>4, <1>5, <1>6, <1>7, FnLoop
<1>11. Fn(a \o Loop(q) \o b \o Loop(r), BuildCodes)
  BY <1>8, <1>9, <1>10, FnConcat4
<1> QED
  BY <1>0, <1>9, <1>10, <1>11, FnConcat3

LEMMA PipelineCodecsFn ==
  ASSUME NEW d, NEW what, NEW i, NEW specifiers, IsSeq(specifiers)
  PROVE  /\ Fn(add_pipeline_codecs(d, what, i, specifiers), BuildCodes)
         /\ NoneSure(add_pipeline_codecs(d, what, i, specifiers)) =>
              \A k \in DOMAIN specifiers : ~EmptyMask(d.codecs[specifiers[k]])
<1> DEFINE r == [k \in DOMAIN specifiers |-> add_pipeline_codec(d, what, i, k, specifiers[k])]
           n == Len(specifiers)
           a == <<Get({context(what, i, 0)}, <<>>)>>
<1>1. n \in Nat /\ DOMAIN specifiers = 1 .. n
  BY SeqDomain
<1>2. ASSUME NEW k \in 1 .. n
      PROVE  Fn(r[k], BuildCodes) /\ (NoneSure(r[k]) => ~EmptyMask(d.codecs[specifiers[k]]))
  <2> DEFINE c == d.codecs[specifiers[k]]
             exit == <<destroy_contexts(what, i, k - 1)>>
             w == <<Need(exit)>>
             x == <<Refuse(exit)>>
             y == <<Get({context(what, i, k)}, exit), Need(<<{context(what, i, k)}>> \o exit)>>
             z == <<Crash>>
  <2>1. r[k] = w \o When(what = "read_codecs" /\ c.type = "memset", x) \o y \o When(EmptyMask(c), z)
    BY <1>1 DEF add_pipeline_codec
  <2>2. Fn(w, BuildCodes) /\ Fn(x, BuildCodes) /\ Fn(z, BuildCodes) /\ ~NoneSure(z)
    BY BuildSteps, FnOne
  <2>3. Fn(y, BuildCodes)
    BY BuildSteps, FnTwo
  <2> HIDE DEF r, w, x, y, z, c
  <2>4. Fn(When(what = "read_codecs" /\ c.type = "memset", x), BuildCodes)
    BY <2>2, FnWhen
  <2>5. Fn(When(EmptyMask(c), z), BuildCodes) /\ (NoneSure(When(EmptyMask(c), z)) => ~EmptyMask(c))
    BY <2>2, FnWhen
  <2>6. Fn(r[k], BuildCodes) /\ (NoneSure(r[k]) => ~EmptyMask(c))
    BY <2>1, <2>2, <2>3, <2>4, <2>5, FnConcat4
  <2> QED
    BY <2>6 DEF c
<1>3. DOMAIN r = 1 .. n /\ r = [k \in 1 .. n |-> r[k]]
  BY <1>1
<1>4. Fn(a, BuildCodes)
  BY BuildSteps, FnOne
<1>5. add_pipeline_codecs(d, what, i, specifiers) = a \o Loop(r)
  BY DEF add_pipeline_codecs
<1> HIDE DEF r, n, a
<1>6. Fn(Loop(r), BuildCodes) /\ (NoneSure(Loop(r)) <=> \A k \in 1 .. n : NoneSure(r[k]))
  BY <1>1, <1>2, <1>3, FnLoop
<1>7. Fn(a \o Loop(r), BuildCodes) /\ (NoneSure(a \o Loop(r)) => NoneSure(Loop(r)))
  BY <1>4, <1>6, FnConcat
<1> QED
  BY <1>1, <1>2, <1>5, <1>6, <1>7

LEMMA PipelineObjFn ==
  ASSUME NEW d, NEW i, NEW p, IsSeq(p.layout), IsSeq(p.reads), p.writes # Nothing => IsSeq(p.writes)
  PROVE  /\ Fn(create_pipeline_obj(d, i, p), BuildCodes)
         /\ NoneSure(create_pipeline_obj(d, i, p)) => \A j \in Used(p) : ~EmptyMask(d.codecs[j])
<1> DEFINE free_layout == <<pipeline_page_layout_destroy(i, p), {name_of(i)}>>
           free_write_spans == <<write_spans(i, p)>> \o free_layout
           destroy_read_codecs == <<destroy_contexts("read_codecs", i, Len(p.reads))>> \o free_write_spans
           writes == p.writes # Nothing
           reading == add_pipeline_codecs(d, "read_codecs", i, p.reads)
           writing == add_pipeline_codecs(d, "write_codecs", i, p.writes)
           a == <<Get({name_of(i)}, <<>>)>>
           b == Within(add_pipeline_layout_parts(i, p), <<{name_of(i)}>>)
           c == <<Need(free_layout)>>
           x == <<Get(write_spans(i, p), free_layout), Need(free_write_spans)>>
           e == Within(reading, free_write_spans)
           y == Within(writing, destroy_read_codecs)
<1>0. create_pipeline_obj(d, i, p) = a \o b \o c \o When(writes, x) \o e \o When(writes, y)
  BY DEF create_pipeline_obj
<1> HIDE DEF free_layout, free_write_spans, destroy_read_codecs
<1>1. Fn(a, BuildCodes) /\ Fn(c, BuildCodes)
  BY BuildSteps, FnOne
<1>2. Fn(b, BuildCodes)
  BY LayoutPartsFn, FnWithin
<1>3. Fn(x, BuildCodes)
  BY BuildSteps, FnTwo
<1>4. Fn(reading, BuildCodes) /\ (NoneSure(reading) => \A k \in DOMAIN p.reads : ~EmptyMask(d.codecs[p.reads[k]]))
  BY PipelineCodecsFn
<1>5. writes =>
        /\ Fn(writing, BuildCodes)
        /\ NoneSure(writing) => \A k \in DOMAIN p.writes : ~EmptyMask(d.codecs[p.writes[k]])
  BY PipelineCodecsFn
<1> HIDE DEF reading, writing, writes
<1>6. Fn(e, BuildCodes) /\ (NoneSure(e) => NoneSure(reading))
  BY <1>4, FnWithin
<1>7. writes => Fn(y, BuildCodes) /\ (NoneSure(y) => NoneSure(writing))
  BY <1>5, FnWithin
<1> HIDE DEF a, b, c, x, e, y
<1>8. Fn(When(writes, x), BuildCodes)
  BY <1>3, FnWhen
<1>9. Fn(When(writes, y), BuildCodes) /\ (NoneSure(When(writes, y)) <=> (writes => NoneSure(y)))
  BY <1>7, FnWhen
<1> DEFINE f == When(writes, x)
           g == When(writes, y)
<1>10. /\ Fn(create_pipeline_obj(d, i, p), BuildCodes)
       /\ NoneSure(create_pipeline_obj(d, i, p)) => NoneSure(e) /\ NoneSure(g)
  <2> HIDE DEF f, g
  <2>1. Fn(a \o b \o c \o f, BuildCodes)
    BY <1>1, <1>2, <1>8, FnConcat4 DEF f
  <2> QED
    BY <1>0, <1>6, <1>9, <2>1, FnConcat3 DEF f, g
<1>11. ASSUME NoneSure(e), NoneSure(g), NEW j \in Used(p) PROVE ~EmptyMask(d.codecs[j])
  <2>1. j \in Range(p.reads) \/ (writes /\ j \in Range(p.writes))
    BY <1>11 DEF Used, writes
  <2> QED
    BY <1>4, <1>5, <1>6, <1>7, <1>9, <1>11, <2>1 DEF Range
<1> QED
  BY <1>10, <1>11

LEMMA PipelinesFn ==
  ASSUME NEW d, DocTyped(d)
  PROVE  /\ Fn(initialize_pipelines(d), BuildCodes)
         /\ NoneSure(initialize_pipelines(d)) =>
              \A i \in DOMAIN d.pipelines : \A j \in Used(d.pipelines[i]) : ~EmptyMask(d.codecs[j])
<1> DEFINE free_entries(i) == <<{pipelines_map}, destroy_pipelines(d, i)>>
           set_exit(i) == <<pipeline_destroy(i, d.pipelines[i])>> \o free_entries(i)
           b(i) == Within(create_pipeline_obj(d, i, d.pipelines[i]), free_entries(i))
           c(i) == <<hashmap_set(Occurs(Names(d.pipelines), i), set_exit(i), set_exit(i))>>
           r == [i \in DOMAIN d.pipelines |-> b(i) \o c(i)]
           n == Len(d.pipelines)
           a == <<Get({demux_pipelines}, <<>>), Get({pipelines_map}, <<destroy_pipelines(d, 0)>>)>>
           masked(i) == \A j \in Used(d.pipelines[i]) : ~EmptyMask(d.codecs[j])
<1>1. n \in Nat /\ DOMAIN d.pipelines = 1 .. n
  BY SeqDomain DEF DocTyped
<1>2. ASSUME NEW i \in 1 .. n
      PROVE  Fn(r[i], BuildCodes) /\ (NoneSure(r[i]) => masked(i))
  <2> DEFINE p == d.pipelines[i]
  <2>1. /\ IsSeq(p.layout) /\ p.reads \in Seq(DOMAIN d.codecs)
        /\ p.writes # Nothing => p.writes \in Seq(DOMAIN d.codecs)
    BY <1>1 DEF DocTyped
  <2>2. IsSeq(p.reads) /\ (p.writes # Nothing => IsSeq(p.writes))
    <3> HIDE DEF p
    <3> QED
      BY <2>1, SeqRange
  <2>3. /\ Fn(create_pipeline_obj(d, i, p), BuildCodes)
        /\ NoneSure(create_pipeline_obj(d, i, p)) => masked(i)
    BY <2>1, <2>2, PipelineObjFn
  <2>4. r[i] = b(i) \o c(i)
    BY <1>1
  <2> HIDE DEF r, masked, free_entries, set_exit
  <2>5. Fn(b(i), BuildCodes) /\ (NoneSure(b(i)) => masked(i))
    BY <2>3, FnWithin
  <2>6. Fn(c(i), BuildCodes)
    BY BuildSteps, FnOne
  <2> HIDE DEF b, c
  <2> QED
    BY <2>4, <2>5, <2>6, FnConcat
<1>3. DOMAIN r = 1 .. n /\ r = [i \in 1 .. n |-> r[i]]
  BY <1>1
<1>4. Fn(a, BuildCodes)
  BY BuildSteps, FnTwo
<1>5. initialize_pipelines(d) = a \o Loop(r)
  BY DEF initialize_pipelines
<1> HIDE DEF r, n, a, masked
<1>6. Fn(Loop(r), BuildCodes) /\ (NoneSure(Loop(r)) <=> \A i \in 1 .. n : NoneSure(r[i]))
  BY <1>1, <1>2, <1>3, FnLoop
<1>7. Fn(a \o Loop(r), BuildCodes) /\ (NoneSure(a \o Loop(r)) => NoneSure(Loop(r)))
  BY <1>4, <1>6, FnConcat
<1>8. NoneSure(initialize_pipelines(d)) => \A i \in DOMAIN d.pipelines : masked(i)
  BY <1>1, <1>2, <1>5, <1>6, <1>7
<1> QED
  BY <1>5, <1>7, <1>8 DEF masked

LEMMA PartitionsFn ==
  ASSUME NEW d, DocTyped(d)
  PROVE  Fn(initialize_partitions(d), BuildCodes)
<1> DEFINE exit(j, k) == <<{partition_name(j)}, free_partitions(d, k)>>
           r == [j \in DOMAIN d.partitions |->
                   <<Get({partition_name(j)}, <<free_partitions(d, j - 1)>>),
                     Need(exit(j, j - 1)),
                     hashmap_set(Occurs(Names(d.partitions), j), exit(j, j - 1), exit(j, j))>>]
           n == Len(d.partitions)
           a == <<Get({partitions_map}, <<>>)>>
           c == <<Need(<<free_partitions(d, Len(d.partitions))>>)>>
<1>1. n \in Nat /\ DOMAIN d.partitions = 1 .. n
  BY SeqDomain DEF DocTyped
<1>2. initialize_partitions(d) = a \o Loop(r) \o c
  BY DEF initialize_partitions
<1>3. \A j \in 1 .. n : Fn(r[j], BuildCodes)
  <2> HIDE DEF exit, n
  <2> QED
    BY <1>1, BuildSteps, FnThree
<1>4. DOMAIN r = 1 .. n /\ r = [j \in 1 .. n |-> r[j]]
  BY <1>1
<1>5. Fn(a, BuildCodes) /\ Fn(c, BuildCodes)
  BY BuildSteps, FnOne
<1> HIDE DEF r, n, a, c
<1>6. Fn(Loop(r), BuildCodes)
  BY <1>1, <1>3, <1>4, FnLoop
<1> QED
  BY <1>2, <1>5, <1>6, FnConcat3

LEMMA RestFn ==
  ASSUME NEW d, DocTyped(d)
  PROVE  /\ Fn(BuildRest(d), BuildCodes)
         /\ NoneSure(BuildRest(d)) =>
              \A i \in DOMAIN d.pipelines : \A j \in Used(d.pipelines[i]) : ~EmptyMask(d.codecs[j])
<1> DEFINE codecs_exit == <<free_codecs(d, Len(d.codecs))>>
           pipelines_exit == <<{pipelines_map}, destroy_pipelines(d, Len(d.pipelines))>> \o codecs_exit
           partitions_exit == <<free_partitions(d, Len(d.partitions))>> \o pipelines_exit
           a == Within(initialize_pipelines(d), codecs_exit)
           b == Within(initialize_partitions(d), pipelines_exit)
           c == Within(initialize_pipeline_selector(d), partitions_exit)
           x == <<Need(<<>>), Get({demux_arr}, <<>>), Need(<<{demux_arr}>>)>>
<1>1. BuildRest(d) = a \o b \o c
  BY DEF BuildRest
<1>2. Fn(initialize_pipeline_selector(d), BuildCodes)
  <2>1. Fn(x, BuildCodes)
    BY BuildSteps, FnThree
  <2>2. initialize_pipeline_selector(d) = When(~d.single, x)
    BY DEF initialize_pipeline_selector
  <2> HIDE DEF x
  <2> QED
    BY <2>1, <2>2, FnWhen
<1> HIDE DEF codecs_exit, pipelines_exit, partitions_exit
<1>3. Fn(a, BuildCodes) /\ (NoneSure(a) => NoneSure(initialize_pipelines(d)))
  BY PipelinesFn, FnWithin
<1>4. Fn(b, BuildCodes) /\ Fn(c, BuildCodes)
  BY <1>2, PartitionsFn, FnWithin
<1> HIDE DEF a, b, c
<1>5. Fn(BuildRest(d), BuildCodes) /\ (NoneSure(BuildRest(d)) => NoneSure(a))
  BY <1>1, <1>3, <1>4, FnConcat3
<1> QED
  BY <1>3, <1>5, PipelinesFn

(* The codes that the functions return are those that their callers test. *)
LEMMA Codes ==
  ASSUME NEW d \in Docs
  PROVE  /\ \A o \in CfgOutcomes[d] : o.rc \in {"ok", "refused", "type", "oom", "crash"}
         /\ \A o \in CodecsOutcomes[d] \cup RestOutcomes[d] : o.rc \in {"ok", "refused", "oom", "crash"}
<1>1. DocTyped(d)
  BY DocsAssumption
<1>2. CfgOutcomes[d] = Outcomes(EmptyHeap, create_cfg_scheme(d))
  BY DEF CfgOutcomes
<1>3. CodecsOutcomes[d] = Outcomes(EmptyHeap, BuildCodecs(d))
  BY DEF CodecsOutcomes
<1>4. ASSUME NEW o \in RestOutcomes[d] PROVE \E h : o \in Outcomes(h, BuildRest(d))
  BY DEF RestOutcomes
<1>5. "ok" \notin ParserCodes /\ "ok" \notin BuildCodes
  BY DEF ParserCodes, BuildCodes
<1>6. \A o \in CfgOutcomes[d] : o.rc \in ParserCodes \cup {"ok", "crash"}
  BY <1>1, <1>2, <1>5, CfgSchemeFn, OutcomeCodes
<1>7. \A o \in CodecsOutcomes[d] : o.rc \in BuildCodes \cup {"ok", "crash"}
  BY <1>1, <1>3, <1>5, CodecsFn, OutcomeCodes
<1>8. \A o \in RestOutcomes[d] : o.rc \in BuildCodes \cup {"ok", "crash"}
  BY <1>1, <1>4, <1>5, RestFn, OutcomeCodes
<1> QED
  BY <1>6, <1>7, <1>8 DEF ParserCodes, BuildCodes

-----------------------------------------------------------------------------
(* Types. *)

Labels ==
  {"params", "sigaction", "device", "config", "queues", "abandon", "polling",
   "destroy_queues", "destroy_config", "close"}

States ==
  {"none", "test", "new", "set", "alloc", "flag", "rest", "failed", "serving", "gone"}

NackObjs == {nack_spans(t) : t \in Threads} \cup {nack_buf(t) : t \in Threads}

NackType ==
  [spans : Threads \cup {Nothing}, buf : Threads \cup {Nothing}, filled : SUBSET Threads,
   ready : BOOLEAN, heap : [live : SUBSET NackObjs, bad : SUBSET NackObjs]]

(* TypeOK, and that nack and cfg are the records they look like. *)
Typed ==
  /\ TypeOK
  /\ nack \in NackType
  /\ DOMAIN cfg = {"rc", "heap"}

LEMMA TypedInit == Init => Typed
<1> SUFFICES ASSUME Init PROVE Typed
  OBVIOUS
<1>1. nack \in NackType
  BY DEF Init, NackType, EmptyHeap
<1>2. DOMAIN cfg = {"rc", "heap"} /\ cfg.rc = "none"
  BY DEF Init
<1>3. {stop, device, parallel, nack.ready} \subseteq BOOLEAN
  BY DEF Init
<1>4. TypeOK
  BY <1>1, <1>2, <1>3 DEF Init, TypeOK, NackType
<1> QED
  BY <1>1, <1>2, <1>4 DEF Typed

(* A step of main that neither creates nor destroys a queue. *)
Quiet ==
  \/ HandleParams \/ InstallHandler \/ OpenDevice \/ CreateCfgScheme \/ CreateQueues
  \/ Poll \/ QueuesDestroyed \/ DestroyCfgScheme \/ CloseDevice \/ SigInt \/ Abort \/ Done

LEMMA Steps ==
  ASSUME [Next]_vars
  PROVE  Quiet \/ DestroyQueue \/ (\E t \in Threads : Thread(t)) \/ UNCHANGED vars
BY DEF Next, Main, Quiet

(* Such a step leaves the threads and pipeline 0 alone, and main never     *)
(* leaves the labels behind which the queues are destroyed.                *)
Closing == {"abandon", "destroy_queues", "destroy_config", "close"}

Left ==
  /\ UNCHANGED <<st, rc, nack, copied, parallel, doc, args>>
  /\ pc \in Closing => pc' \in Closing

LEMMA QuietSteps == Quiet \/ UNCHANGED vars => Left
<1>1. HandleParams => Left
  BY DEF HandleParams, At, Goto, Return, MemoryUnchanged, Left, Closing
<1>2. InstallHandler => Left
  BY DEF InstallHandler, At, Goto, Return, MemoryUnchanged, Left, Closing
<1>3. OpenDevice => Left
  BY DEF OpenDevice, At, Goto, Return, MemoryUnchanged, Left, Closing
<1>4. CreateCfgScheme => Left
  BY DEF CreateCfgScheme, At, Goto, Die, Left, Closing
<1>5. CreateQueues => Left
  BY DEF CreateQueues, At, Goto, MemoryUnchanged, Left, Closing
<1>6. Poll => Left
  BY DEF Poll, At, Goto, MemoryUnchanged, Left, Closing
<1>7. QueuesDestroyed => Left
  BY DEF QueuesDestroyed, At, Goto, MemoryUnchanged, Left, Closing
<1>8. DestroyCfgScheme => Left
  BY DEF DestroyCfgScheme, At, Goto, Left, Closing
<1>9. CloseDevice => Left
  BY DEF CloseDevice, At, MemoryUnchanged, Left, Closing
<1>10. SigInt => Left
  BY DEF SigInt, Die, MemoryUnchanged, Left, Closing
<1>11. Abort => Left
  BY DEF Abort, Die, Left, Closing
<1>12. Done \/ UNCHANGED vars => Left
  BY DEF Done, vars, mainVars, Left, Closing
<1> QED
  BY <1>1, <1>2, <1>3, <1>4, <1>5, <1>6, <1>7, <1>8, <1>9, <1>10, <1>11, <1>12 DEF Quiet

(* What CreateCodecs and CreateRest do, whatever the document is. *)
Refused(t) == (\E why \in {"refused", "oom"} : Fail(t, why)) /\ UNCHANGED copied

Serves(t) ==
  /\ st' = [st EXCEPT ![t] = "serving"] /\ rc' = [rc EXCEPT ![t] = "ok"]
  /\ copied' = [copied EXCEPT ![t] = nack.spans]

LEMMA CodecsSteps ==
  ASSUME Typed, NEW t \in Threads, CreateCodecs(t)
  PROVE  \/ Die("crashed")
         \/ /\ UNCHANGED <<mainVars, cfg, nack>> /\ DOMAIN heap' = Threads
            /\ (GoOn(t, "test") /\ UNCHANGED copied) \/ Refused(t)
<1>1. PICK o \in CodecsOutcomes[doc] :
        IF o.rc = "crash"
        THEN Die("crashed")
        ELSE /\ heap' = [heap EXCEPT ![t] = o.heap]
             /\ IF o.rc = "ok"
                THEN st' = [st EXCEPT ![t] = "test"] /\ rc' = [rc EXCEPT ![t] = rc[t]]
                ELSE Fail(t, o.rc)
             /\ copied' = copied
             /\ UNCHANGED <<mainVars, cfg, nack>>
  BY DEF CreateCodecs, Run
<1>2. o.rc \in {"ok", "refused", "oom", "crash"}
  BY Codes DEF Typed, TypeOK
<1>3. [rc EXCEPT ![t] = rc[t]] = rc
  BY DEF Typed, TypeOK
<1>4. [heap EXCEPT ![t] = o.heap] = heap' => DOMAIN heap' = Threads
  BY DEF Typed, TypeOK
<1> QED
  BY <1>1, <1>2, <1>3, <1>4 DEF GoOn, Refused

LEMMA RestSteps ==
  ASSUME Typed, NEW t \in Threads, CreateRest(t)
  PROVE  \/ Die("crashed")
         \/ /\ UNCHANGED <<mainVars, cfg, nack>> /\ DOMAIN heap' = Threads
            /\ Serves(t) \/ Refused(t)
<1>1. PICK o \in RestOutcomes[doc] :
        IF o.rc = "crash"
        THEN Die("crashed")
        ELSE /\ heap' = [heap EXCEPT ![t] = o.heap]
             /\ IF o.rc = "ok"
                THEN st' = [st EXCEPT ![t] = "serving"] /\ rc' = [rc EXCEPT ![t] = "ok"]
                ELSE Fail(t, o.rc)
             /\ copied' = IF o.rc = "ok" THEN [copied EXCEPT ![t] = nack.spans] ELSE copied
             /\ UNCHANGED <<mainVars, cfg, nack>>
  BY DEF CreateRest, Run
<1>2. o.rc \in {"ok", "refused", "oom", "crash"}
  BY Codes DEF Typed, TypeOK
<1>4. [heap EXCEPT ![t] = o.heap] = heap' => DOMAIN heap' = Threads
  BY DEF Typed, TypeOK
<1> QED
  BY <1>1, <1>2, <1>4 DEF Serves, Refused

(* The heap of pipeline 0 keeps its shape. *)
LEMMA NackHeap ==
  ASSUME nack \in NackType, NEW t \in Threads
  PROVE  /\ [nack EXCEPT !.spans = t, !.heap = malloc(@, {nack_spans(t)})] \in NackType
         /\ [nack EXCEPT !.buf = t, !.heap = malloc(@, {nack_buf(t)})] \in NackType
         /\ \A T \in SUBSET Threads :
              [nack EXCEPT !.heap = free(@, {nack_spans(u) : u \in T})] \in NackType
<1>1. nack_spans(t) \in NackObjs /\ nack_buf(t) \in NackObjs
  BY DEF NackObjs
<1>2. \A T \in SUBSET Threads : {nack_spans(u) : u \in T} \subseteq NackObjs
  BY DEF NackObjs
<1>3. malloc(nack.heap, {nack_spans(t)}) \in [live : SUBSET NackObjs, bad : SUBSET NackObjs]
  BY <1>1 DEF NackType, malloc
<1>4. malloc(nack.heap, {nack_buf(t)}) \in [live : SUBSET NackObjs, bad : SUBSET NackObjs]
  BY <1>1 DEF NackType, malloc
<1>5. ASSUME NEW T \in SUBSET Threads
      PROVE  free(nack.heap, {nack_spans(u) : u \in T}) \in [live : SUBSET NackObjs, bad : SUBSET NackObjs]
  BY <1>2 DEF NackType, free
<1> QED
  BY <1>3, <1>4, <1>5 DEF NackType

(* TypeOK by who writes the variables: main, and the threads. *)
MainTyped ==
  /\ proc \in {"running", "exited", "killed", "crashed"}
  /\ pc \in Labels
  /\ ret \in {-1, 0}
  /\ stop \in BOOLEAN /\ device \in BOOLEAN
  /\ cfg.rc \in {"none", "ok", "refused", "type", "oom"} /\ DOMAIN cfg = {"rc", "heap"}

ThreadsTyped ==
  /\ st \in [Threads -> States]
  /\ rc \in [Threads -> {"none", "ok", "refused", "oom", "exists"}]
  /\ DOMAIN heap = Threads
  /\ nack \in NackType
  /\ copied \in [Threads -> Threads \cup {Nothing}]

Given == args \in {"paths", "help", "bad"} /\ doc \in Docs /\ parallel \in BOOLEAN

LEMMA TypedParts == Typed <=> MainTyped /\ ThreadsTyped /\ Given
<1>1. nack \in NackType =>
        /\ nack.spans \in Threads \cup {Nothing} /\ nack.buf \in Threads \cup {Nothing}
        /\ nack.filled \subseteq Threads /\ nack.ready \in BOOLEAN
  BY DEF NackType
<1> QED
  BY <1>1, Zenon DEF Typed, TypeOK, MainTyped, ThreadsTyped, Given, Labels, States

LEMMA MainTypedQuiet ==
  ASSUME Typed, Quiet \/ UNCHANGED vars
  PROVE  MainTyped' /\ DOMAIN heap' = Threads
<1> USE DEF Labels
<1>0. MainTyped /\ doc \in Docs /\ DOMAIN heap = Threads
  BY TypedParts DEF Given, ThreadsTyped
<1>1. CASE HandleParams
  BY <1>0, <1>1 DEF HandleParams, At, Goto, Return, MemoryUnchanged, MainTyped
<1>2. CASE InstallHandler
  BY <1>0, <1>2 DEF InstallHandler, At, Goto, Return, MemoryUnchanged, MainTyped
<1>3. CASE OpenDevice
  BY <1>0, <1>3 DEF OpenDevice, At, Goto, Return, MemoryUnchanged, MainTyped
<1>4. CASE CreateCfgScheme
  BY <1>0, <1>4, Codes DEF CreateCfgScheme, At, Goto, Die, MainTyped
<1>5. CASE CreateQueues
  BY <1>0, <1>5 DEF CreateQueues, At, Goto, MemoryUnchanged, MainTyped
<1>6. CASE Poll
  BY <1>0, <1>6 DEF Poll, At, Goto, MemoryUnchanged, MainTyped
<1>7. CASE QueuesDestroyed
  BY <1>0, <1>7 DEF QueuesDestroyed, At, Goto, MemoryUnchanged, MainTyped
<1>8. CASE DestroyCfgScheme
  BY <1>0, <1>8 DEF DestroyCfgScheme, At, Goto, MainTyped
<1>9. CASE CloseDevice
  BY <1>0, <1>9 DEF CloseDevice, At, MemoryUnchanged, MainTyped
<1>10. CASE SigInt
  BY <1>0, <1>10 DEF SigInt, Die, MemoryUnchanged, MainTyped
<1>11. CASE Abort
  BY <1>0, <1>11 DEF Abort, Die, MainTyped
<1>12. CASE Done \/ UNCHANGED vars
  BY <1>0, <1>12 DEF Done, vars, mainVars, MainTyped
<1> QED
  BY <1>1, <1>2, <1>3, <1>4, <1>5, <1>6, <1>7, <1>8, <1>9, <1>10, <1>11, <1>12 DEF Quiet

(* A thread's step leaves main's variables alone, unless it crashes. *)
LEMMA MainTypedThread ==
  ASSUME Typed, NEW t \in Threads, Thread(t)
  PROVE  /\ Die("crashed") \/ UNCHANGED <<mainVars, cfg>>
         /\ proc = "running"
<1>1. CASE CreateCodecs(t)
  BY <1>1, CodecsSteps DEF CreateCodecs, At
<1>2. CASE CreateRest(t)
  BY <1>2, RestSteps DEF CreateRest
<1>3. CASE FixupTest(t) \/ FixupNew(t) \/ FixupAlloc(t) \/ FixupFlag(t)
  BY <1>3 DEF FixupTest, FixupNew, FixupAlloc, FixupFlag
<1>4. CASE FixupSet(t)
  BY <1>4 DEF FixupSet
<1> QED
  BY <1>1, <1>2, <1>3, <1>4 DEF Thread

LEMMA ThreadsTypedStep ==
  ASSUME Typed, NEW t \in Threads, Thread(t)
  PROVE  ThreadsTyped'
<1>0. ThreadsTyped
  BY TypedParts
<1>1. ASSUME Die("crashed") PROVE ThreadsTyped'
  BY <1>0, <1>1 DEF Die, ThreadsTyped
<1>2. ASSUME NEW why \in {"refused", "oom", "exists"}, Fail(t, why)
      PROVE  (st \in [Threads -> States] /\ rc \in [Threads -> {"none", "ok", "refused", "oom", "exists"}])'
  BY <1>0, <1>2 DEF Fail, ThreadsTyped, States
<1>3. ASSUME NEW label \in States, GoOn(t, label)
      PROVE  (st \in [Threads -> States] /\ rc \in [Threads -> {"none", "ok", "refused", "oom", "exists"}])'
  BY <1>0, <1>3 DEF GoOn, ThreadsTyped
<1>4. CASE CreateCodecs(t)
  <2>1. CASE Die("crashed")
    BY <1>1, <2>1
  <2>2. CASE /\ UNCHANGED nack /\ DOMAIN heap' = Threads
             /\ (GoOn(t, "test") /\ UNCHANGED copied) \/ Refused(t)
    BY <1>0, <1>2, <1>3, <2>2 DEF Refused, ThreadsTyped, States
  <2> QED
    BY <1>4, <2>1, <2>2, CodecsSteps
<1>5. CASE CreateRest(t)
  <2>1. CASE Die("crashed")
    BY <1>1, <2>1
  <2>2. CASE UNCHANGED nack /\ DOMAIN heap' = Threads /\ Refused(t)
    BY <1>0, <1>2, <2>2 DEF Refused, ThreadsTyped
  <2>3. CASE UNCHANGED nack /\ DOMAIN heap' = Threads /\ Serves(t)
    BY <1>0, <2>3 DEF Serves, ThreadsTyped, NackType, States
  <2> QED
    BY <1>5, <2>1, <2>2, <2>3, RestSteps
<1>6. CASE FixupTest(t)
  <2>1. UNCHANGED <<heap, nack, copied>> /\ \E label \in States : GoOn(t, label)
    BY <1>6 DEF FixupTest, States
  <2> QED
    BY <1>0, <1>3, <2>1 DEF ThreadsTyped
<1>7. CASE FixupNew(t)
  <2>1. UNCHANGED <<heap, copied>> /\ (GoOn(t, "set") \/ Fail(t, "oom"))
    BY <1>7 DEF FixupNew
  <2>2. nack' \in NackType
    <3>1. [nack EXCEPT !.spans = Nothing] \in NackType
      BY <1>0 DEF ThreadsTyped, NackType
    <3>2. [nack EXCEPT !.spans = t, !.heap = malloc(@, {nack_spans(t)})] \in NackType
      BY <1>0, NackHeap, Zenon DEF ThreadsTyped
    <3>3. \/ nack' = [nack EXCEPT !.spans = t, !.heap = malloc(@, {nack_spans(t)})]
          \/ nack' = [nack EXCEPT !.spans = Nothing]
      BY <1>7, Zenon DEF FixupNew
    <3> QED
      BY <3>1, <3>2, <3>3, Zenon
  <2> QED
    BY <1>0, <1>2, <1>3, <2>1, <2>2 DEF ThreadsTyped, States
<1>8. CASE FixupSet(t)
  <2>1. CASE Die("crashed")
    BY <1>1, <2>1
  <2>2. CASE UNCHANGED <<heap, copied>> /\ (GoOn(t, "alloc") \/ Fail(t, "oom") \/ Fail(t, "exists"))
    <3>1. nack' \in NackType
      <4>1. nack' = nack \/ (nack.spans # Nothing /\ nack' = [nack EXCEPT !.filled = @ \cup {nack.spans}])
        BY <1>8 DEF FixupSet, Die
      <4> QED
        BY <1>0, <4>1 DEF ThreadsTyped, NackType
    <3> QED
      BY <1>0, <1>2, <1>3, <2>2, <3>1 DEF ThreadsTyped, States
  <2> QED
    BY <1>8, <2>1, <2>2 DEF FixupSet
<1>9. CASE FixupAlloc(t)
  <2>1. UNCHANGED <<heap, copied>> /\ (GoOn(t, "flag") \/ Fail(t, "oom"))
    BY <1>9 DEF FixupAlloc
  <2>2. nack' \in NackType
    <3>1. [nack EXCEPT !.buf = Nothing] \in NackType
      BY <1>0 DEF ThreadsTyped, NackType
    <3>2. [nack EXCEPT !.buf = t, !.heap = malloc(@, {nack_buf(t)})] \in NackType
      BY <1>0, NackHeap, Zenon DEF ThreadsTyped
    <3>3. \/ nack' = [nack EXCEPT !.buf = t, !.heap = malloc(@, {nack_buf(t)})]
          \/ nack' = [nack EXCEPT !.buf = Nothing]
      BY <1>9, Zenon DEF FixupAlloc
    <3> QED
      BY <3>1, <3>2, <3>3, Zenon
  <2> QED
    BY <1>0, <1>2, <1>3, <2>1, <2>2 DEF ThreadsTyped, States
<1>10. CASE FixupFlag(t)
  <2>1. UNCHANGED <<heap, copied>> /\ GoOn(t, "rest")
    BY <1>10 DEF FixupFlag
  <2>2. nack' \in NackType
    BY <1>0, <1>10 DEF FixupFlag, ThreadsTyped, NackType
  <2> QED
    BY <1>0, <1>3, <2>1, <2>2 DEF ThreadsTyped, States
<1> QED
  BY <1>4, <1>5, <1>6, <1>7, <1>8, <1>9, <1>10 DEF Thread

(* NextQueue is a queue that serves. *)
LEMMA NextQueueServes ==
  ASSUME InState({"serving"}) # {}
  PROVE  NextQueue \in Threads /\ st[NextQueue] = "serving"
<1> DEFINE S == InState({"serving"})
<1>1. S \in SUBSET Nat
  BY NAssumption DEF InState, Threads
<1>2. \E t \in S : \A u \in S : t <= u
  BY <1>1, Smallest, Zenon
<1>3. NextQueue \in S
  BY <1>2, Zenon DEF NextQueue
<1> QED
  BY <1>3 DEF InState

LEMMA DestroySteps ==
  ASSUME Typed, DestroyQueue
  PROVE  \E t \in Threads :
           /\ st[t] = "serving" /\ st' = [st EXCEPT ![t] = "gone"]
           /\ nack' = [nack EXCEPT !.heap = free(@, {nack_spans(u) : u \in {copied[t]} \ {Nothing}})]
           /\ DOMAIN heap' = Threads /\ UNCHANGED <<mainVars, rc, cfg, copied>>
           /\ proc = "running" /\ pc \in {"destroy_queues", "abandon"}
<1> DEFINE t == NextQueue
<1>1. t \in Threads /\ st[t] = "serving"
  BY NextQueueServes DEF DestroyQueue
<1>2. /\ st' = [st EXCEPT ![t] = "gone"]
      /\ heap' = [heap EXCEPT ![t] = FreeInOrder(@, ThreadTeardown[doc])]
      /\ nack' = [nack EXCEPT !.heap = free(@, {nack_spans(u) : u \in {copied[t]} \ {Nothing}})]
      /\ UNCHANGED <<mainVars, rc, cfg, copied>>
  BY DEF DestroyQueue
<1>3. proc = "running" /\ pc \in {"destroy_queues", "abandon"}
  BY DEF DestroyQueue, At
<1> HIDE DEF t
<1>4. DOMAIN heap' = Threads
  BY <1>2 DEF Typed, TypeOK
<1> QED
  BY <1>1, <1>2, <1>3, <1>4

LEMMA DestroyTyped ==
  ASSUME Typed, DestroyQueue
  PROVE  ThreadsTyped' /\ UNCHANGED <<mainVars, cfg>>
<1>0. ThreadsTyped
  BY TypedParts
<1>1. PICK t \in Threads :
        /\ st' = [st EXCEPT ![t] = "gone"]
        /\ nack' = [nack EXCEPT !.heap = free(@, {nack_spans(u) : u \in {copied[t]} \ {Nothing}})]
        /\ DOMAIN heap' = Threads /\ UNCHANGED <<mainVars, rc, cfg, copied>>
  BY DestroySteps, Zenon
<1>2. {copied[t]} \ {Nothing} \in SUBSET Threads
  BY <1>0 DEF ThreadsTyped
<1>3. nack' \in NackType
  BY <1>0, <1>1, <1>2, NackHeap, Zenon DEF ThreadsTyped
<1> QED
  BY <1>0, <1>1, <1>3 DEF ThreadsTyped, States

LEMMA TypedStep == Typed /\ [Next]_vars => Typed'
<1> SUFFICES ASSUME Typed, [Next]_vars PROVE Typed'
  OBVIOUS
<1>0. MainTyped /\ ThreadsTyped /\ Given
  BY TypedParts
<1>1. CASE Quiet \/ UNCHANGED vars
  <2>1. Left /\ MainTyped' /\ DOMAIN heap' = Threads
    BY <1>1, QuietSteps, MainTypedQuiet
  <2>2. ThreadsTyped' /\ Given'
    BY <1>0, <2>1 DEF Left, ThreadsTyped, Given
  <2> QED
    BY <2>1, <2>2, TypedParts, PTL
<1>2. CASE DestroyQueue
  <2>1. ThreadsTyped' /\ UNCHANGED <<mainVars, cfg>>
    BY <1>2, DestroyTyped
  <2>2. MainTyped' /\ Given'
    BY <1>0, <2>1 DEF MainTyped, Given, mainVars
  <2> QED
    BY <2>1, <2>2, TypedParts, PTL
<1>3. CASE \E t \in Threads : Thread(t)
  <2>1. PICK t \in Threads : Thread(t)
    BY <1>3
  <2>2. ThreadsTyped' /\ (Die("crashed") \/ UNCHANGED <<mainVars, cfg>>)
    BY <2>1, ThreadsTypedStep, MainTypedThread
  <2>3. MainTyped' /\ Given'
    BY <1>0, <2>2 DEF MainTyped, Given, mainVars, Die
  <2> QED
    BY <2>2, <2>3, TypedParts, PTL
<1> QED
  BY <1>1, <1>2, <1>3, Steps

(***************************************************************************)
(* Every variable of the daemon keeps its type, for any number of queues:  *)
(* in particular a thread's creation ends with one of four codes and       *)
(* pipeline0 is always some thread's, or nobody's.                         *)
(***************************************************************************)
THEOREM DaemonTypeCorrect == Spec => []TypeOK
<1>1. Typed => TypeOK
  BY DEF Typed
<1> QED
  BY <1>1, TypedInit, TypedStep, PTL DEF Spec

-----------------------------------------------------------------------------
(* Start and end. *)

BuildingStates == {"test", "new", "set", "alloc", "flag", "rest"}

(* What main's place says about the device and about the threads. *)
MainInv ==
  /\ device => proc # "exited" /\ pc \notin {"params", "sigaction", "device"}
  /\ proc = "exited" => pc = "close" \/ (ret = -1 /\ pc \in {"params", "sigaction", "device"})
  /\ pc \in {"params", "sigaction", "device", "config"} => \A t \in Threads : st[t] = "none"
  /\ pc \notin Closing => \A t \in Threads : st[t] # "gone"
  /\ pc = "polling" => \A t \in Threads : st[t] = "serving"
  /\ pc \in Closing => \A t \in Threads : st[t] \notin BuildingStates
  /\ pc = "abandon" => ret = -1
  /\ pc = "destroy_queues" => stop /\ \A t \in Threads : st[t] \in {"serving", "gone"}
  /\ pc \in {"destroy_config", "close"} => \A t \in Threads : st[t] # "serving"
  /\ pc \in {"destroy_config", "close"} /\ ret = 0 => stop /\ \A t \in Threads : st[t] = "gone"

LEMMA MainInvInit == Init => MainInv
BY DEF Init, MainInv, Closing

LEMMA InStates ==
  ASSUME NEW states
  PROVE  /\ InState(states) = Threads <=> \A t \in Threads : st[t] \in states
         /\ InState(states) = {} <=> \A t \in Threads : st[t] \notin states
BY DEF InState

LEMMA MainInvQuiet ==
  ASSUME Typed, MainInv, Quiet \/ UNCHANGED vars
  PROVE  MainInv'
<1> USE DEF Closing
<1>0. st' = st /\ MainTyped
  BY QuietSteps, TypedParts DEF Left
<1>1. CASE HandleParams
  BY <1>0, <1>1 DEF HandleParams, At, Goto, Return, MemoryUnchanged, MainInv
<1>2. CASE InstallHandler
  BY <1>0, <1>2 DEF InstallHandler, At, Goto, Return, MemoryUnchanged, MainInv
<1>3. CASE OpenDevice
  BY <1>0, <1>3 DEF OpenDevice, At, Goto, Return, MemoryUnchanged, MainInv
<1>4. CASE CreateCfgScheme
  <2>1. CASE Die("crashed")
    BY <1>0, <2>1 DEF Die, MainInv
  <2>2. CASE ret' = 0 /\ Goto("queues") /\ UNCHANGED device
    BY <1>0, <1>4, <2>2 DEF CreateCfgScheme, At, Goto, MainInv
  <2>3. CASE ret' = -1 /\ Goto("close") /\ UNCHANGED device
    <3>1. \A t \in Threads : st[t] = "none"
      BY <1>4 DEF CreateCfgScheme, At, MainInv
    <3> QED
      BY <1>0, <1>4, <2>3, <3>1 DEF CreateCfgScheme, At, Goto, MainInv, BuildingStates
  <2> QED
    BY <1>4, <2>1, <2>2, <2>3 DEF CreateCfgScheme
<1>5. CASE CreateQueues
  <2>1. CASE InState({"serving"}) = Threads /\ Goto("polling") /\ UNCHANGED <<ret, device>>
    <3>1. \A t \in Threads : st[t] = "serving"
      BY <2>1, InStates
    <3> QED
      BY <1>0, <1>5, <2>1, <3>1 DEF CreateQueues, At, Goto, MainInv
  <2>2. CASE Building = {} /\ Goto("abandon") /\ ret' = -1 /\ UNCHANGED device
    <3>1. \A t \in Threads : st[t] \notin BuildingStates
      BY <2>2 DEF Building, InState, BuildingStates
    <3> QED
      BY <1>0, <1>5, <2>2, <3>1 DEF CreateQueues, At, Goto, MainInv
  <2> QED
    BY <1>5, <2>1, <2>2 DEF CreateQueues
<1>6. CASE Poll
  BY <1>0, <1>6 DEF Poll, At, Goto, MemoryUnchanged, MainInv, BuildingStates
<1>7. CASE QueuesDestroyed
  <2>1. \A t \in Threads : st[t] # "serving"
    BY <1>7, InStates DEF QueuesDestroyed
  <2> QED
    BY <1>0, <1>7, <2>1 DEF QueuesDestroyed, At, Goto, MemoryUnchanged, MainInv
<1>8. CASE DestroyCfgScheme
  BY <1>0, <1>8 DEF DestroyCfgScheme, At, Goto, MainInv
<1>9. CASE CloseDevice
  BY <1>0, <1>9 DEF CloseDevice, At, MemoryUnchanged, MainInv
<1>10. CASE SigInt
  BY <1>0, <1>10 DEF SigInt, Die, MemoryUnchanged, MainInv
<1>11. CASE Abort
  BY <1>0, <1>11 DEF Abort, Die, MainInv
<1>12. CASE Done \/ UNCHANGED vars
  BY <1>0, <1>12 DEF Done, vars, mainVars, MainInv
<1> QED
  BY <1>1, <1>2, <1>3, <1>4, <1>5, <1>6, <1>7, <1>8, <1>9, <1>10, <1>11, <1>12 DEF Quiet

(* A thread is created only while main waits for the queues. *)
LEMMA ThreadsRunInQueues ==
  ASSUME Typed, MainInv, NEW t \in Threads, Thread(t)
  PROVE  /\ proc = "running" /\ pc = "queues"
         /\ st[t] \in {"none"} \cup BuildingStates
         /\ Die("crashed") \/ (UNCHANGED mainVars /\ \E s \in States \ {"none", "gone"} : st' = [st EXCEPT ![t] = s])
<1>1. proc = "running" /\ st[t] \in {"none"} \cup BuildingStates /\ (st[t] = "none" => pc = "queues")
  BY DEF Thread, CreateCodecs, FixupTest, FixupNew, FixupSet, FixupAlloc, FixupFlag, CreateRest, At, BuildingStates
<1>2. pc \in Labels
  BY TypedParts DEF MainTyped
<1>3. pc = "queues"
  BY <1>1, <1>2 DEF MainInv, Labels, Closing, BuildingStates
<1>4. Die("crashed") \/ \E s \in States \ {"none", "gone"} : st' = [st EXCEPT ![t] = s]
  <2> USE DEF States
  <2>1. CASE CreateCodecs(t)
    BY <2>1, CodecsSteps DEF GoOn, Refused, Fail
  <2>2. CASE CreateRest(t)
    BY <2>2, RestSteps DEF Serves, Refused, Fail
  <2>3. CASE FixupTest(t)
    BY <2>3 DEF FixupTest, GoOn
  <2>4. CASE FixupNew(t) \/ FixupAlloc(t) \/ FixupFlag(t)
    BY <2>4 DEF FixupNew, FixupAlloc, FixupFlag, GoOn, Fail
  <2>5. CASE FixupSet(t)
    BY <2>5 DEF FixupSet, GoOn, Fail
  <2> QED
    BY <2>1, <2>2, <2>3, <2>4, <2>5 DEF Thread
<1> QED
  BY <1>1, <1>3, <1>4, MainTypedThread DEF mainVars

LEMMA MainInvStep == Typed /\ MainInv /\ [Next]_vars => MainInv'
<1> SUFFICES ASSUME Typed, MainInv, [Next]_vars PROVE MainInv'
  OBVIOUS
<1>0. st \in [Threads -> States]
  BY TypedParts DEF ThreadsTyped
<1>1. CASE Quiet \/ UNCHANGED vars
  BY <1>1, MainInvQuiet
<1>2. CASE DestroyQueue
  <2>1. PICK t \in Threads :
          /\ st' = [st EXCEPT ![t] = "gone"] /\ UNCHANGED mainVars
          /\ pc \in {"destroy_queues", "abandon"} /\ proc = "running"
    BY <1>2, DestroySteps, Zenon
  <2> QED
    BY <1>0, <2>1 DEF MainInv, mainVars, Closing, BuildingStates
<1>3. CASE \E t \in Threads : Thread(t)
  <2>1. PICK t \in Threads : Thread(t)
    BY <1>3
  <2>2. CASE Die("crashed")
    BY <2>2 DEF Die, MainInv
  <2>3. CASE UNCHANGED mainVars /\ \E s \in States \ {"none", "gone"} : st' = [st EXCEPT ![t] = s]
    <3>1. proc = "running" /\ pc = "queues"
      BY <2>1, ThreadsRunInQueues
    <3> QED
      BY <1>0, <2>3, <3>1 DEF MainInv, mainVars, Closing
  <2> QED
    BY <2>1, <2>2, <2>3, ThreadsRunInQueues
<1> QED
  BY <1>1, <1>2, <1>3, Steps

LEMMA MainInvAlways == Spec => [](Typed /\ MainInv)
BY TypedInit, TypedStep, MainInvInit, MainInvStep, PTL DEF Spec

(***************************************************************************)
(* When main returns, by whichever of its exits, the device is closed and  *)
(* no thread is being created or serves; and 0 is returned only when every *)
(* queue was served, SIGINT came and every queue was destroyed.            *)
(***************************************************************************)
THEOREM MainLeavesNothingRunning == Spec => []ExitIsClean
<1>1. Typed /\ MainInv => ExitIsClean
  <2> SUFFICES ASSUME Typed, MainInv, proc = "exited"
               PROVE  /\ ~device
                      /\ Building \cup InState({"serving"}) = {}
                      /\ ret = 0 => stop /\ InState({"gone"}) = Threads
    BY DEF ExitIsClean
  <2>1. ~device
    BY DEF MainInv
  <2>2. \A t \in Threads : st[t] \notin BuildingStates /\ st[t] # "serving"
    BY DEF MainInv, BuildingStates, Closing
  <2>3. ret = 0 => stop /\ \A t \in Threads : st[t] = "gone"
    BY DEF MainInv
  <2> QED
    BY <2>1, <2>2, <2>3 DEF Building, InState, BuildingStates
<1> QED
  BY <1>1, MainInvAlways, PTL

-----------------------------------------------------------------------------
(* The safety of QueueService. *)

(* The refinement mapping of Daemon!Queues. *)
Phase ==
  CASE proc # "running" -> "ended"
    [] At("polling") -> "open"
    [] proc = "running" /\ pc \in Closing -> "closing"
    [] OTHER -> "opening"

Serving == IF proc = "running" THEN InState({"serving"}) ELSE {}

Abstract == <<Phase, Serving, stop>>

(* One of the steps that QueueService allows, or none. *)
Allowed == [Queues!Next]_Abstract

PhaseMeans ==
  /\ proc # "running" => Phase = "ended" /\ Serving = {}
  /\ proc = "running" =>
       /\ Serving = InState({"serving"})
       /\ pc = "polling" => Phase = "open"
       /\ pc \in Closing => Phase = "closing"
       /\ pc \notin Closing \cup {"polling"} => Phase = "opening"

LEMMA PhaseValues == PhaseMeans
<1>1. pc \in Closing => pc # "polling"
  BY DEF Closing
<1> QED
  BY <1>1 DEF PhaseMeans, Phase, Serving, At

(* The steps of QueueService in terms of the mapping. *)
LEMMA AbstractSteps ==
  /\ Phase = "opening" /\ Serving = Threads /\ Phase' = "open" /\ UNCHANGED <<Serving, stop>> => Allowed
  /\ (Phase = "opening" \/ (Phase = "open" /\ stop)) /\ Phase' = "closing" /\ UNCHANGED <<Serving, stop>> => Allowed
  /\ Phase # "ended" /\ Phase' = "ended" /\ Serving' = {} /\ UNCHANGED stop => Allowed
  /\ ~stop /\ Phase # "ended" /\ stop' = TRUE /\ UNCHANGED <<Phase, Serving>> => Allowed
  /\ \A t \in Threads :
       Phase = "opening" /\ t \notin Serving /\ Serving' = Serving \cup {t} /\ UNCHANGED <<Phase, stop>> => Allowed
  /\ \A t \in Threads :
       Phase = "closing" /\ t \in Serving /\ Serving' = Serving \ {t} /\ UNCHANGED <<Phase, stop>> => Allowed
  /\ UNCHANGED <<Phase, Serving, stop>> => Allowed
BY DEF Allowed, Abstract, Queues!Next, Queues!Serve, Queues!Leave, Queues!Open, Queues!Close, Queues!Ask,
       Queues!Die, Phase, Serving, Closing

LEMMA QuietAllowed ==
  ASSUME Typed, MainInv, Quiet \/ UNCHANGED vars
  PROVE  Allowed
<1> USE DEF Closing
<1>0. InState({"serving"})' = InState({"serving"})
  BY QuietSteps DEF Left, InState
<1>p. PhaseMeans /\ PhaseMeans'
  BY PhaseValues, PTL
<1>1. CASE HandleParams
  <2>1. pc = "params" /\ proc = "running" /\ InState({"serving"}) = {} /\ UNCHANGED stop
    BY <1>1 DEF HandleParams, At, Goto, Return, MainInv, InState
  <2>2. CASE proc' = "exited"
    BY <1>p, <2>1, <2>2, AbstractSteps DEF PhaseMeans
  <2>3. CASE proc' = proc /\ pc' = "sigaction"
    BY <1>0, <1>p, <2>1, <2>3, AbstractSteps DEF PhaseMeans
  <2> QED
    BY <1>1, <2>2, <2>3 DEF HandleParams, Goto, Return
<1>2. CASE InstallHandler
  <2>1. pc = "sigaction" /\ proc = "running" /\ UNCHANGED stop
    BY <1>2 DEF InstallHandler, At, Goto, Return
  <2>2. CASE proc' = "exited"
    BY <1>p, <2>1, <2>2, AbstractSteps DEF PhaseMeans
  <2>3. CASE proc' = proc /\ pc' = "device"
    BY <1>0, <1>p, <2>1, <2>3, AbstractSteps DEF PhaseMeans
  <2> QED
    BY <1>2, <2>2, <2>3 DEF InstallHandler, Goto, Return
<1>3. CASE OpenDevice
  <2>1. pc = "device" /\ proc = "running" /\ UNCHANGED stop
    BY <1>3 DEF OpenDevice, At, Goto, Return
  <2>2. CASE proc' = "exited"
    BY <1>p, <2>1, <2>2, AbstractSteps DEF PhaseMeans
  <2>3. CASE proc' = proc /\ pc' = "config"
    BY <1>0, <1>p, <2>1, <2>3, AbstractSteps DEF PhaseMeans
  <2> QED
    BY <1>3, <2>2, <2>3 DEF OpenDevice, Goto, Return
<1>4. CASE CreateCfgScheme
  <2>1. pc = "config" /\ proc = "running" /\ UNCHANGED stop
    BY <1>4 DEF CreateCfgScheme, At, Goto, Die
  <2>2. CASE proc' = "crashed"
    BY <1>p, <2>1, <2>2, AbstractSteps DEF PhaseMeans
  <2>3. CASE proc' = proc /\ pc' = "queues"
    BY <1>0, <1>p, <2>1, <2>3, AbstractSteps DEF PhaseMeans
  <2>4. CASE proc' = proc /\ pc' = "close"
    BY <1>0, <1>p, <2>1, <2>4, AbstractSteps DEF PhaseMeans
  <2> QED
    BY <1>4, <2>2, <2>3, <2>4 DEF CreateCfgScheme, Goto, Die
<1>5. CASE CreateQueues
  <2>1. pc = "queues" /\ proc = "running" /\ UNCHANGED <<stop, proc>>
    BY <1>5 DEF CreateQueues, At, Goto
  <2>2. CASE pc' = "polling" /\ InState({"serving"}) = Threads
    BY <1>0, <1>p, <2>1, <2>2, AbstractSteps DEF PhaseMeans
  <2>3. CASE pc' = "abandon"
    BY <1>0, <1>p, <2>1, <2>3, AbstractSteps DEF PhaseMeans
  <2> QED
    BY <1>5, <2>2, <2>3 DEF CreateQueues, Goto
<1>6. CASE Poll
  <2>1. pc = "polling" /\ stop /\ proc = "running" /\ pc' = "destroy_queues" /\ UNCHANGED <<stop, proc>>
    BY <1>6 DEF Poll, At, Goto
  <2> QED
    BY <1>0, <1>p, <2>1, AbstractSteps DEF PhaseMeans
<1>7. CASE QueuesDestroyed \/ DestroyCfgScheme
  <2>1. pc \in Closing /\ pc' \in Closing /\ proc = "running" /\ UNCHANGED <<stop, proc>>
    BY <1>7 DEF QueuesDestroyed, DestroyCfgScheme, At, Goto
  <2> QED
    BY <1>0, <1>p, <2>1, AbstractSteps DEF PhaseMeans
<1>8. CASE CloseDevice \/ Abort
  <2>1. proc = "running" /\ proc' # "running" /\ UNCHANGED stop
    BY <1>8 DEF CloseDevice, Abort, Die, At
  <2> QED
    BY <1>p, <2>1, AbstractSteps DEF PhaseMeans
<1>9. CASE SigInt
  <2>1. CASE proc = "running" /\ proc' = "killed" /\ UNCHANGED stop
    BY <1>p, <2>1, AbstractSteps DEF PhaseMeans
  <2>2. CASE proc = "running" /\ ~stop /\ stop' = TRUE /\ UNCHANGED <<proc, pc>>
    <3>1. UNCHANGED <<Phase, Serving>> /\ Phase # "ended"
      BY <1>0, <1>p, <2>2 DEF Phase, Serving, At
    <3> QED
      BY <2>2, <3>1, AbstractSteps
  <2> QED
    BY <1>9, <2>1, <2>2 DEF SigInt, Die
<1>10. CASE Done \/ UNCHANGED vars
  <2>1. UNCHANGED <<Phase, Serving, stop>>
    BY <1>0, <1>10 DEF Done, vars, mainVars, Phase, Serving, At
  <2> QED
    BY <2>1, AbstractSteps
<1> QED
  BY <1>1, <1>2, <1>3, <1>4, <1>5, <1>6, <1>7, <1>8, <1>9, <1>10 DEF Quiet

LEMMA StepAllowed == Typed /\ MainInv /\ [Next]_vars => Allowed
<1> SUFFICES ASSUME Typed, MainInv, [Next]_vars PROVE Allowed
  OBVIOUS
<1>0. st \in [Threads -> States]
  BY TypedParts DEF ThreadsTyped
<1>p. PhaseMeans /\ PhaseMeans'
  BY PhaseValues, PTL
<1>1. CASE Quiet \/ UNCHANGED vars
  BY <1>1, QuietAllowed
<1>2. CASE DestroyQueue
  <2>1. PICK t \in Threads :
          /\ st[t] = "serving" /\ st' = [st EXCEPT ![t] = "gone"]
          /\ UNCHANGED mainVars
          /\ proc = "running" /\ pc \in {"destroy_queues", "abandon"}
    BY <1>2, DestroySteps, Zenon
  <2>2. t \in InState({"serving"}) /\ InState({"serving"})' = InState({"serving"}) \ {t}
    BY <1>0, <2>1 DEF InState
  <2>3. Phase = "closing" /\ UNCHANGED <<Phase, stop>>
    BY <1>p, <2>1 DEF PhaseMeans, mainVars, Closing
  <2>4. Serving = InState({"serving"}) /\ Serving' = InState({"serving"})'
    BY <1>p, <2>1 DEF PhaseMeans, mainVars
  <2> QED
    BY <2>2, <2>3, <2>4, AbstractSteps
<1>3. CASE \E t \in Threads : Thread(t)
  <2>1. PICK t \in Threads : Thread(t)
    BY <1>3
  <2>2. proc = "running" /\ pc = "queues" /\ st[t] # "serving"
    BY <2>1, ThreadsRunInQueues DEF BuildingStates
  <2>3. CASE Die("crashed")
    BY <1>p, <2>2, <2>3, AbstractSteps DEF Die, PhaseMeans, Closing
  <2>4. CASE UNCHANGED mainVars /\ \E s \in States \ {"none", "gone"} : st' = [st EXCEPT ![t] = s]
    <3>1. Phase = "opening" /\ UNCHANGED <<Phase, stop>>
      BY <1>p, <2>2, <2>4 DEF PhaseMeans, mainVars, Closing
    <3>2. Serving = InState({"serving"}) /\ Serving' = InState({"serving"})'
      BY <1>p, <2>2, <2>4 DEF PhaseMeans, mainVars
    <3>3. /\ t \notin InState({"serving"})
          /\ \/ InState({"serving"})' = InState({"serving"}) \cup {t}
             \/ InState({"serving"})' = InState({"serving"})
      BY <1>0, <2>2, <2>4 DEF InState
    <3> QED
      BY <3>1, <3>2, <3>3, AbstractSteps
  <2> QED
    BY <2>1, <2>3, <2>4, ThreadsRunInQueues
<1> QED
  BY <1>1, <1>2, <1>3, Steps

(***************************************************************************)
(* The safety of the promise about the queues: with any number of queues   *)
(* and however the threads are interleaved with main and with SIGINT, the  *)
(* queues open together, the service closes only when start-up was given   *)
(* up or SIGINT came, and a queue stops being served only then or with the *)
(* process.  That closing and stopping come to an end is left to TLC.      *)
(***************************************************************************)
THEOREM QueuesKeptSafe == Spec => Queues!Init /\ [][Queues!Next]_(Queues!vars)
<1>1. Init => Queues!Init
  BY DEF Init, Queues!Init, InState, At
<1>2. Typed /\ MainInv /\ [Next]_vars => [Queues!Next]_(Queues!vars)
  <2> SUFFICES ASSUME Typed, MainInv, [Next]_vars PROVE [Queues!Next]_(Queues!vars)
    OBVIOUS
  <2>1. Allowed
    BY StepAllowed
  <2>2. (UNCHANGED Abstract) = UNCHANGED Queues!vars
    BY DEF Abstract, Queues!vars, Phase, Serving, Closing
  <2> QED
    BY <2>1, <2>2 DEF Allowed
<1> QED
  BY <1>1, <1>2, MainInvAlways, PTL DEF Spec

-----------------------------------------------------------------------------
(* Pipeline 0. *)

(* The threads whose table of spans, and whose buffer, is on the heap. *)
Made == {t \in Threads : nack_spans(t) \in nack.heap.live}

Bufs == {t \in Threads : nack_buf(t) \in nack.heap.live}

(* What the steps of fixup_pipeline0_once and of the teardown do to them. *)
LEMMA NewEffect ==
  ASSUME nack \in NackType, NEW t \in Threads,
         nack' = [nack EXCEPT !.spans = t, !.heap = malloc(@, {nack_spans(t)})]
  PROVE  /\ nack'.spans = t /\ nack'.buf = nack.buf /\ nack'.filled = nack.filled /\ nack'.ready = nack.ready
         /\ Made' = Made \cup {t} /\ Bufs' = Bufs
<1>1. nack'.heap.live = nack.heap.live \cup {nack_spans(t)}
  BY DEF NackType, malloc
<1>2. \A u \in Threads : nack_spans(u) = nack_spans(t) <=> u = t
  BY DEF nack_spans
<1>3. \A u \in Threads : nack_buf(u) # nack_spans(t)
  BY DEF nack_spans, nack_buf
<1>4. Made' = Made \cup {t} /\ Bufs' = Bufs
  BY <1>1, <1>2, <1>3 DEF Made, Bufs
<1> QED
  BY <1>4 DEF NackType

LEMMA AllocEffect ==
  ASSUME nack \in NackType, NEW t \in Threads,
         nack' = [nack EXCEPT !.buf = t, !.heap = malloc(@, {nack_buf(t)})]
  PROVE  /\ nack'.spans = nack.spans /\ nack'.buf = t /\ nack'.filled = nack.filled /\ nack'.ready = nack.ready
         /\ Made' = Made /\ Bufs' = Bufs \cup {t}
<1>1. nack'.heap.live = nack.heap.live \cup {nack_buf(t)}
  BY DEF NackType, malloc
<1>2. \A u \in Threads : nack_buf(u) = nack_buf(t) <=> u = t
  BY DEF nack_buf
<1>3. \A u \in Threads : nack_spans(u) # nack_buf(t)
  BY DEF nack_spans, nack_buf
<1>4. Made' = Made /\ Bufs' = Bufs \cup {t}
  BY <1>1, <1>2, <1>3 DEF Made, Bufs
<1> QED
  BY <1>4 DEF NackType

LEMMA FreeEffect ==
  ASSUME nack \in NackType, NEW T \in SUBSET Threads,
         nack' = [nack EXCEPT !.heap = free(@, {nack_spans(u) : u \in T})]
  PROVE  /\ nack'.spans = nack.spans /\ nack'.buf = nack.buf /\ nack'.filled = nack.filled /\ nack'.ready = nack.ready
         /\ Bufs' = Bufs
<1>1. nack'.heap.live = nack.heap.live \ {nack_spans(u) : u \in T}
  BY DEF NackType, free
<1>2. \A u \in Threads : nack_buf(u) \notin {nack_spans(v) : v \in T}
  BY DEF nack_spans, nack_buf
<1>3. Bufs' = Bufs
  BY <1>1, <1>2 DEF Bufs
<1> QED
  BY <1>3 DEF NackType

(***************************************************************************)
(* One queue after the other.  A thread starts only when those before it   *)
(* serve, and none of them could serve before the flag was set: only the   *)
(* first thread ever works on pipeline 0.                                  *)
(***************************************************************************)
Ordered == \A t \in Threads : st[t] # "none" => \A u \in 1 .. t - 1 : st[u] \in {"serving", "gone"}

InOrder ==
  /\ Ordered
  /\ \A t \in Threads : st[t] \in {"new", "set", "alloc", "flag"} => t = 1
  /\ \A t \in Threads : st[t] \in {"rest", "serving"} => nack.ready
  /\ st[1] \in {"none", "test", "new", "set", "alloc", "flag"} => ~nack.ready

FirstMakesIt ==
  /\ nack.filled \subseteq {1} /\ Bufs \subseteq {1}
  /\ \A t \in Threads : rc[t] # "exists"
  /\ st[1] \in {"none", "test", "new", "set"} => nack.filled = {}
  /\ st[1] \in {"set", "alloc", "flag"} => nack.spans = 1 /\ 1 \in Made
  /\ st[1] \in {"alloc", "flag"} => 1 \in nack.filled
  /\ st[1] = "flag" => nack.buf = 1 /\ 1 \in Bufs
  /\ nack.ready =>
       /\ nack.spans = 1 /\ nack.buf = 1 /\ 1 \in nack.filled /\ 1 \in Bufs
       /\ pc \notin Closing => 1 \in Made
  /\ \A t \in Threads : st[t] = "serving" => copied[t] = 1

Sequential == ~parallel => InOrder /\ FirstMakesIt

LEMMA SequentialInit == Init => Sequential
<1>1. 1 \in Threads
  BY NAssumption DEF Threads
<1>2. Init => Bufs = {}
  BY DEF Init, Bufs, EmptyHeap
<1> QED
  BY <1>1, <1>2 DEF Init, Sequential, InOrder, Ordered, FirstMakesIt

LEMMA OrderedStep ==
  ASSUME st \in [Threads -> States], Ordered, NEW t \in Threads, NEW s, st' = [st EXCEPT ![t] = s],
         st[t] \notin {"serving", "gone"}, \A u \in 1 .. t - 1 : st[u] \in {"serving", "gone"}
  PROVE  Ordered'
<1> SUFFICES ASSUME NEW v \in Threads, st'[v] # "none", NEW u \in 1 .. v - 1
             PROVE  st'[u] \in {"serving", "gone"}
  BY DEF Ordered
<1>0. v \in Nat /\ t \in Nat /\ u \in Threads /\ u # v
  BY NAssumption DEF Threads
<1>1. CASE v = t
  BY <1>0, <1>1
<1>2. CASE v # t
  <2>1. st[v] # "none"
    BY <1>2
  <2>2. \A w \in 1 .. v - 1 : st[w] \in {"serving", "gone"}
    BY <2>1 DEF Ordered
  <2>3. u # t
    BY <2>2
  <2> QED
    BY <1>0, <2>2, <2>3
<1> QED
  BY <1>1, <1>2

LEMMA SequentialThread ==
  ASSUME Typed, MainInv, ~parallel, InOrder, FirstMakesIt, NEW t \in Threads, Thread(t), ~Die("crashed")
  PROVE  InOrder' /\ FirstMakesIt'
<1>0. /\ st \in [Threads -> States] /\ nack \in NackType
      /\ rc \in [Threads -> {"none", "ok", "refused", "oom", "exists"}]
      /\ copied \in [Threads -> Threads \cup {Nothing}]
      /\ 1 \in Threads /\ Nothing \notin Threads
  BY TypedParts, NAssumption DEF ThreadsTyped, Threads
<1>1. pc = "queues" /\ pc' = pc /\ st[t] \in {"none"} \cup BuildingStates
  BY ThreadsRunInQueues DEF mainVars
<1>2. \A u \in Threads : st[u] # "gone"
  BY <1>1 DEF MainInv, Closing
<1>3. \A u \in 1 .. t - 1 : st[u] = "serving"
  <2>1. CASE st[t] = "none"
    BY <2>1 DEF Thread, CreateCodecs, FixupTest, FixupNew, FixupSet, FixupAlloc, FixupFlag, CreateRest
  <2>2. CASE st[t] # "none"
    BY <1>2, <2>2, NAssumption DEF InOrder, Ordered, Threads
  <2> QED
    BY <2>1, <2>2
<1>4. t # 1 => nack.ready /\ st[1] = "serving"
  <2>1. t # 1 => 1 \in 1 .. t - 1
    BY NAssumption DEF Threads
  <2> QED
    BY <1>0, <1>3, <2>1 DEF InOrder
<1>5. ASSUME NEW s, st' = [st EXCEPT ![t] = s] PROVE Ordered'
  BY <1>0, <1>1, <1>3, <1>5, OrderedStep DEF InOrder, BuildingStates
<1>6. CASE CreateCodecs(t)
  <2>1. UNCHANGED nack /\ ((GoOn(t, "test") /\ UNCHANGED copied) \/ Refused(t)) /\ st[t] = "none"
    BY <1>6, CodecsSteps DEF CreateCodecs
  <2>2. UNCHANGED copied /\ \E s \in {"test", "failed"} : st' = [st EXCEPT ![t] = s]
    BY <2>1 DEF GoOn, Refused, Fail
  <2>3. \A u \in Threads : rc'[u] # "exists"
    BY <1>0, <2>1 DEF GoOn, Refused, Fail, FirstMakesIt
  <2>4. Made' = Made /\ Bufs' = Bufs
    BY <2>1 DEF Made, Bufs
  <2>5. InOrder'
    BY <1>0, <1>5, <2>1, <2>2 DEF InOrder
  <2>6. FirstMakesIt'
    BY <1>0, <1>1, <2>1, <2>2, <2>3, <2>4 DEF FirstMakesIt
  <2> QED
    BY <2>5, <2>6
<1>7. CASE FixupTest(t)
  <2>1. /\ UNCHANGED <<nack, copied, rc>> /\ st[t] = "test"
        /\ st' = [st EXCEPT ![t] = IF nack.ready THEN "rest" ELSE "new"]
    BY <1>7 DEF FixupTest, GoOn
  <2>2. Made' = Made /\ Bufs' = Bufs
    BY <2>1 DEF Made, Bufs
  <2>3. InOrder'
    BY <1>0, <1>4, <1>5, <2>1 DEF InOrder
  <2>4. FirstMakesIt'
    BY <1>0, <1>1, <2>1, <2>2 DEF FirstMakesIt
  <2> QED
    BY <2>3, <2>4
<1>8. CASE FixupNew(t)
  <2>1. st[t] = "new" /\ UNCHANGED copied /\ t = 1 /\ ~nack.ready
    BY <1>8 DEF FixupNew, InOrder
  <2>2. CASE nack' = [nack EXCEPT !.spans = t, !.heap = malloc(@, {nack_spans(t)})] /\ GoOn(t, "set")
    <3>1. /\ nack'.spans = t /\ nack'.buf = nack.buf /\ nack'.filled = nack.filled /\ nack'.ready = nack.ready
          /\ Made' = Made \cup {t} /\ Bufs' = Bufs
      BY <1>0, <2>2, NewEffect
    <3>2. st' = [st EXCEPT ![t] = "set"] /\ rc' = rc
      BY <2>2 DEF GoOn
    <3>3. InOrder'
      BY <1>0, <1>5, <2>1, <3>1, <3>2 DEF InOrder
    <3>4. FirstMakesIt'
      BY <1>0, <1>1, <2>1, <3>1, <3>2 DEF FirstMakesIt
    <3> QED
      BY <3>3, <3>4
  <2>3. CASE nack' = [nack EXCEPT !.spans = Nothing] /\ Fail(t, "oom")
    <3>1. /\ nack'.buf = nack.buf /\ nack'.filled = nack.filled /\ nack'.ready = nack.ready
          /\ Made' = Made /\ Bufs' = Bufs
      BY <1>0, <2>3 DEF NackType, Made, Bufs
    <3>2. st' = [st EXCEPT ![t] = "failed"] /\ rc' = [rc EXCEPT ![t] = "oom"]
      BY <2>3 DEF Fail
    <3>3. InOrder'
      BY <1>0, <1>5, <2>1, <3>1, <3>2 DEF InOrder
    <3>4. FirstMakesIt'
      BY <1>0, <1>1, <2>1, <3>1, <3>2 DEF FirstMakesIt
    <3> QED
      BY <3>3, <3>4
  <2> QED
    BY <1>8, <2>2, <2>3 DEF FixupNew
<1>9. CASE FixupSet(t)
  <2>1. st[t] = "set" /\ t = 1 /\ ~nack.ready /\ nack.spans = 1 /\ nack.filled = {}
    BY <1>9 DEF FixupSet, InOrder, FirstMakesIt
  <2>2. CASE nack' = [nack EXCEPT !.filled = @ \cup {nack.spans}] /\ GoOn(t, "alloc") /\ UNCHANGED copied
    <3>1. /\ nack'.spans = nack.spans /\ nack'.buf = nack.buf /\ nack'.ready = nack.ready
          /\ nack'.filled = nack.filled \cup {nack.spans}
          /\ Made' = Made /\ Bufs' = Bufs
      BY <1>0, <2>2 DEF NackType, Made, Bufs
    <3>2. st' = [st EXCEPT ![t] = "alloc"] /\ rc' = rc
      BY <2>2 DEF GoOn
    <3>3. InOrder'
      BY <1>0, <1>5, <2>1, <3>1, <3>2 DEF InOrder
    <3>4. FirstMakesIt'
      BY <1>0, <1>1, <2>1, <2>2, <3>1, <3>2 DEF FirstMakesIt
    <3> QED
      BY <3>3, <3>4
  <2>3. CASE UNCHANGED nack /\ Fail(t, "oom") /\ UNCHANGED copied
    <3>1. Made' = Made /\ Bufs' = Bufs
      BY <2>3 DEF Made, Bufs
    <3>2. st' = [st EXCEPT ![t] = "failed"] /\ rc' = [rc EXCEPT ![t] = "oom"]
      BY <2>3 DEF Fail
    <3>3. InOrder'
      BY <1>0, <1>5, <2>1, <2>3, <3>2 DEF InOrder
    <3>4. FirstMakesIt'
      BY <1>0, <1>1, <2>1, <2>3, <3>1, <3>2 DEF FirstMakesIt
    <3> QED
      BY <3>3, <3>4
  <2> QED
    BY <1>0, <1>9, <2>1, <2>2, <2>3 DEF FixupSet
<1>10. CASE FixupAlloc(t)
  <2>1. st[t] = "alloc" /\ UNCHANGED copied /\ t = 1 /\ ~nack.ready
    BY <1>10 DEF FixupAlloc, InOrder
  <2>2. CASE nack' = [nack EXCEPT !.buf = t, !.heap = malloc(@, {nack_buf(t)})] /\ GoOn(t, "flag")
    <3>1. /\ nack'.spans = nack.spans /\ nack'.buf = t /\ nack'.filled = nack.filled /\ nack'.ready = nack.ready
          /\ Made' = Made /\ Bufs' = Bufs \cup {t}
      BY <1>0, <2>2, AllocEffect
    <3>2. st' = [st EXCEPT ![t] = "flag"] /\ rc' = rc
      BY <2>2 DEF GoOn
    <3>3. InOrder'
      BY <1>0, <1>5, <2>1, <3>1, <3>2 DEF InOrder
    <3>4. FirstMakesIt'
      BY <1>0, <1>1, <2>1, <3>1, <3>2 DEF FirstMakesIt
    <3> QED
      BY <3>3, <3>4
  <2>3. CASE nack' = [nack EXCEPT !.buf = Nothing] /\ Fail(t, "oom")
    <3>1. /\ nack'.spans = nack.spans /\ nack'.filled = nack.filled /\ nack'.ready = nack.ready
          /\ Made' = Made /\ Bufs' = Bufs
      BY <1>0, <2>3 DEF NackType, Made, Bufs
    <3>2. st' = [st EXCEPT ![t] = "failed"] /\ rc' = [rc EXCEPT ![t] = "oom"]
      BY <2>3 DEF Fail
    <3>3. InOrder'
      BY <1>0, <1>5, <2>1, <3>1, <3>2 DEF InOrder
    <3>4. FirstMakesIt'
      BY <1>0, <1>1, <2>1, <3>1, <3>2 DEF FirstMakesIt
    <3> QED
      BY <3>3, <3>4
  <2> QED
    BY <1>10, <2>2, <2>3 DEF FixupAlloc
<1>11. CASE FixupFlag(t)
  <2>1. st[t] = "flag" /\ UNCHANGED <<copied, rc>> /\ t = 1 /\ ~nack.ready /\ st' = [st EXCEPT ![t] = "rest"]
    BY <1>11 DEF FixupFlag, InOrder, GoOn
  <2>2. /\ nack'.spans = nack.spans /\ nack'.buf = nack.buf /\ nack'.filled = nack.filled /\ nack'.ready
        /\ Made' = Made /\ Bufs' = Bufs
    BY <1>0, <1>11 DEF FixupFlag, NackType, Made, Bufs
  <2>3. InOrder'
    BY <1>0, <1>5, <2>1, <2>2 DEF InOrder
  <2>4. FirstMakesIt'
    BY <1>0, <1>1, <2>1, <2>2 DEF FirstMakesIt
  <2> QED
    BY <2>3, <2>4
<1>12. CASE CreateRest(t)
  <2>1. UNCHANGED nack /\ (Serves(t) \/ Refused(t)) /\ st[t] = "rest" /\ nack.ready
    BY <1>12, RestSteps DEF CreateRest, InOrder
  <2>2. Made' = Made /\ Bufs' = Bufs
    BY <2>1 DEF Made, Bufs
  <2>3. \E s \in {"serving", "failed"} : st' = [st EXCEPT ![t] = s]
    BY <2>1 DEF Serves, Refused, Fail
  <2>4. \A u \in Threads : rc'[u] # "exists"
    BY <1>0, <2>1 DEF Serves, Refused, Fail, FirstMakesIt
  <2>5. \A u \in Threads : st'[u] = "serving" => copied'[u] = 1
    BY <1>0, <2>1 DEF Serves, Refused, Fail, FirstMakesIt
  <2>6. InOrder'
    BY <1>0, <1>5, <2>1, <2>3 DEF InOrder
  <2>7. FirstMakesIt'
    BY <1>0, <1>1, <2>1, <2>2, <2>3, <2>4, <2>5 DEF FirstMakesIt
  <2> QED
    BY <2>6, <2>7
<1> QED
  BY <1>6, <1>7, <1>8, <1>9, <1>10, <1>11, <1>12 DEF Thread

LEMMA SequentialStep == Typed /\ MainInv /\ Sequential /\ [Next]_vars => Sequential'
<1> SUFFICES ASSUME Typed, MainInv, Sequential, [Next]_vars
             PROVE  Sequential'
  OBVIOUS
<1>p. parallel' = parallel
  <2>1. CASE \E t \in Threads : Thread(t)
    BY <2>1, MainTypedThread DEF Die, mainVars
  <2>2. CASE DestroyQueue
    BY <2>2, DestroyTyped DEF mainVars
  <2> QED
    BY <2>1, <2>2, Steps, QuietSteps DEF Left
<1> SUFFICES ASSUME ~parallel PROVE (InOrder /\ FirstMakesIt)'
  BY <1>p DEF Sequential
<1>0. InOrder /\ FirstMakesIt /\ 1 \in Threads
  BY NAssumption DEF Sequential, Threads
<1>1. CASE Quiet \/ UNCHANGED vars
  <2>1. Left
    BY <1>1, QuietSteps
  <2>2. Made' = Made /\ Bufs' = Bufs
    BY <2>1 DEF Left, Made, Bufs
  <2> QED
    BY <1>0, <2>1, <2>2 DEF Left, InOrder, Ordered, FirstMakesIt
<1>2. CASE DestroyQueue
  <2>1. PICK t \in Threads :
          /\ st[t] = "serving" /\ st' = [st EXCEPT ![t] = "gone"]
          /\ nack' = [nack EXCEPT !.heap = free(@, {nack_spans(u) : u \in {copied[t]} \ {Nothing}})]
          /\ UNCHANGED <<mainVars, rc, copied>> /\ pc \in {"destroy_queues", "abandon"}
    BY <1>2, DestroySteps, Zenon
  <2>2. /\ st \in [Threads -> States] /\ nack \in NackType
        /\ {copied[t]} \ {Nothing} \in SUBSET Threads
    BY TypedParts DEF ThreadsTyped
  <2>3. /\ nack'.spans = nack.spans /\ nack'.buf = nack.buf /\ nack'.filled = nack.filled /\ nack'.ready = nack.ready
        /\ Bufs' = Bufs
    BY <2>1, <2>2, FreeEffect, Zenon
  <2>4. Ordered'
    <3> SUFFICES ASSUME NEW v \in Threads, st'[v] # "none", NEW u \in 1 .. v - 1
                 PROVE  st'[u] \in {"serving", "gone"}
      BY DEF Ordered
    <3>1. u \in Threads
      BY NAssumption DEF Threads
    <3> QED
      BY <1>0, <2>1, <2>2, <3>1 DEF InOrder, Ordered
  <2>5. InOrder'
    BY <1>0, <2>1, <2>2, <2>3, <2>4 DEF InOrder
  <2>6. pc' \in Closing
    BY <2>1 DEF mainVars, Closing
  <2>7. UNCHANGED <<rc, copied>> /\ \A u \in Threads : st'[u] = st[u] \/ (st[u] = "serving" /\ st'[u] = "gone")
    BY <2>1, <2>2
  <2>8. FirstMakesIt'
    <3>1. st[1] \notin BuildingStates
      BY <1>0, <2>1 DEF MainInv, Closing
    <3> QED
      BY <1>0, <2>3, <2>6, <2>7, <3>1 DEF FirstMakesIt, BuildingStates
  <2> QED
    BY <2>5, <2>8
<1>3. CASE \E t \in Threads : Thread(t)
  <2>1. PICK t \in Threads : Thread(t)
    BY <1>3
  <2>2. CASE Die("crashed")
    <3>1. Made' = Made /\ Bufs' = Bufs
      BY <2>2 DEF Die, Made, Bufs
    <3> QED
      BY <1>0, <2>2, <3>1 DEF Die, InOrder, Ordered, FirstMakesIt
  <2>3. CASE ~Die("crashed")
    BY <1>0, <2>1, <2>3, SequentialThread
  <2> QED
    BY <2>2, <2>3
<1> QED
  BY <1>1, <1>2, <1>3, Steps

(***************************************************************************)
(* When the library creates one queue after the other, at most one table   *)
(* of spans is ever filled, at most one buffer is made, and no thread      *)
(* finds the span in a table it has just made: pipeline0 is a singleton.   *)
(***************************************************************************)
THEOREM NackPipelineIsSingleton == Spec => []FixupOnceUnlessParallel
<1>1. Sequential => FixupOnceUnlessParallel
  <2> SUFFICES ASSUME Sequential, ~parallel
               PROVE  /\ Cardinality(Bufs) <= 1
                      /\ Cardinality(nack.filled) <= 1
                      /\ \A t \in Threads : rc[t] # "exists"
    BY DEF FixupOnceUnlessParallel, Bufs
  <2>1. IsFiniteSet({1}) /\ Cardinality({1}) = 1
    BY FS_Singleton
  <2>2. \A S \in SUBSET {1} : Cardinality(S) <= 1
    BY <2>1, FS_Subset
  <2> QED
    BY <2>2 DEF Sequential, FirstMakesIt
<1> QED
  BY <1>1, MainInvAlways, SequentialInit, SequentialStep, PTL DEF Spec

(***************************************************************************)
(* Queues created at the same time.  A thread may fill a table that        *)
(* another one made, but never one that is filled already: as long as no   *)
(* thread fails, as many tables are filled as threads have passed          *)
(* page_layout_set_span, so that none is left unfilled once all of them    *)
(* have.                                                                   *)
(***************************************************************************)
Unfailed == pc \notin Closing /\ \A t \in Threads : st[t] # "failed"

Past == {t \in Made : st[t] \in {"alloc", "flag", "rest", "serving"}}

Tables ==
  /\ \A t \in Threads : st[t] \in {"none", "test", "new"} => t \notin Made
  /\ \A t \in Threads : st[t] \in {"set", "alloc", "flag"} => t \in Made
  /\ nack.filled \subseteq Made /\ Cardinality(nack.filled) = Cardinality(Past)
  /\ nack.spans = Nothing => Made = {}
  /\ nack.spans # Nothing => nack.spans \in Made
  /\ nack.ready => nack.spans # Nothing
  /\ nack.ready \/ (\E t \in Threads : st[t] = "flag") => nack.buf \in Bufs
  /\ \A t \in Threads : st[t] \in {"rest", "serving"} => nack.ready
  /\ \A t \in Threads : st[t] = "serving" => copied[t] \in Made

Counted == Unfailed => Tables

LEMMA CountedInit == Init => Counted
<1> SUFFICES ASSUME Init PROVE Tables
  BY DEF Counted
<1>1. Made = {} /\ nack.filled = {} /\ nack.spans = Nothing /\ ~nack.ready
  BY DEF Init, Made, EmptyHeap
<1>2. Past = {}
  BY <1>1 DEF Past
<1>3. \A t \in Threads : st[t] = "none"
  BY DEF Init
<1> QED
  BY <1>1, <1>2, <1>3 DEF Tables

LEMMA FiniteThreads == \A S \in SUBSET Threads : IsFiniteSet(S)
<1>1. IsFiniteSet(Threads)
  BY NAssumption, FS_Interval DEF Threads
<1> QED
  BY <1>1, FS_Subset

LEMMA CountedThread ==
  ASSUME Typed, MainInv, Unfailed, Tables, Unfailed', NEW t \in Threads, Thread(t), ~Die("crashed")
  PROVE  Tables'
<1>0. /\ st \in [Threads -> States] /\ nack \in NackType
      /\ copied \in [Threads -> Threads \cup {Nothing}]
      /\ Nothing \notin Threads
  BY TypedParts, NAssumption DEF ThreadsTyped
<1>1. \A why : ~Fail(t, why)
  BY <1>0 DEF Unfailed, Fail
<1>2. Made \subseteq Threads /\ Past \subseteq Threads
  BY DEF Made, Past
<1>3. CASE CreateCodecs(t)
  <2>1. UNCHANGED <<nack, copied>> /\ st[t] = "none" /\ st' = [st EXCEPT ![t] = "test"]
    BY <1>1, <1>3, CodecsSteps DEF CreateCodecs, Refused, GoOn
  <2>2. Made' = Made /\ Bufs' = Bufs
    BY <2>1 DEF Made, Bufs
  <2>3. Past' = Past
    BY <1>0, <1>2, <2>1, <2>2 DEF Past
  <2> QED
    BY <1>0, <2>1, <2>2, <2>3 DEF Tables
<1>4. CASE FixupTest(t)
  <2>1. /\ UNCHANGED <<nack, copied>> /\ st[t] = "test"
        /\ st' = [st EXCEPT ![t] = IF nack.ready THEN "rest" ELSE "new"]
    BY <1>4 DEF FixupTest, GoOn
  <2>2. Made' = Made /\ Bufs' = Bufs /\ t \notin Made
    BY <2>1 DEF Made, Bufs, Tables
  <2>3. Past' = Past
    BY <1>0, <1>2, <2>1, <2>2 DEF Past
  <2> QED
    BY <1>0, <2>1, <2>2, <2>3 DEF Tables
<1>5. CASE FixupNew(t)
  <2>1. /\ nack' = [nack EXCEPT !.spans = t, !.heap = malloc(@, {nack_spans(t)})]
        /\ st' = [st EXCEPT ![t] = "set"] /\ st[t] = "new" /\ UNCHANGED copied
    BY <1>1, <1>5 DEF FixupNew, GoOn
  <2>2. /\ nack'.spans = t /\ nack'.buf = nack.buf /\ nack'.filled = nack.filled /\ nack'.ready = nack.ready
        /\ Made' = Made \cup {t} /\ Bufs' = Bufs
    BY <1>0, <2>1, NewEffect
  <2>3. Past' = Past
    BY <1>0, <1>2, <2>1, <2>2 DEF Past
  <2> QED
    BY <1>0, <2>1, <2>2, <2>3 DEF Tables
<1>6. CASE FixupSet(t)
  <2>1. /\ nack.spans # Nothing /\ nack.spans \notin nack.filled
        /\ nack' = [nack EXCEPT !.filled = @ \cup {nack.spans}]
        /\ st' = [st EXCEPT ![t] = "alloc"] /\ st[t] = "set" /\ UNCHANGED copied
    BY <1>1, <1>6 DEF FixupSet, GoOn
  <2>2. /\ nack'.spans = nack.spans /\ nack'.buf = nack.buf /\ nack'.ready = nack.ready
        /\ nack'.filled = nack.filled \cup {nack.spans}
        /\ Made' = Made /\ Bufs' = Bufs /\ t \in Made
    BY <1>0, <2>1 DEF NackType, Made, Bufs, Tables
  <2>3. Past' = Past \cup {t} /\ t \notin Past
    BY <1>0, <1>2, <2>1, <2>2 DEF Past
  <2>4. Cardinality(nack'.filled) = Cardinality(Past')
    <3>1. IsFiniteSet(nack.filled) /\ IsFiniteSet(Past)
      BY <1>0, <1>2, FiniteThreads DEF NackType
    <3>2. Cardinality(nack.filled \cup {nack.spans}) = Cardinality(nack.filled) + 1
      BY <2>1, <3>1, FS_AddElement
    <3>3. Cardinality(Past \cup {t}) = Cardinality(Past) + 1
      BY <2>3, <3>1, FS_AddElement
    <3> QED
      BY <2>2, <2>3, <3>2, <3>3 DEF Tables
  <2>5. nack'.filled \subseteq Made'
    BY <2>1, <2>2 DEF Tables
  <2> QED
    BY <1>0, <2>1, <2>2, <2>4, <2>5 DEF Tables
<1>7. CASE FixupAlloc(t)
  <2>1. /\ nack' = [nack EXCEPT !.buf = t, !.heap = malloc(@, {nack_buf(t)})]
        /\ st' = [st EXCEPT ![t] = "flag"] /\ st[t] = "alloc" /\ UNCHANGED copied
    BY <1>1, <1>7 DEF FixupAlloc, GoOn
  <2>2. /\ nack'.spans = nack.spans /\ nack'.buf = t /\ nack'.filled = nack.filled /\ nack'.ready = nack.ready
        /\ Made' = Made /\ Bufs' = Bufs \cup {t}
    BY <1>0, <2>1, AllocEffect
  <2>3. Past' = Past
    BY <1>0, <1>2, <2>1, <2>2 DEF Past
  <2> QED
    BY <1>0, <2>1, <2>2, <2>3 DEF Tables
<1>8. CASE FixupFlag(t)
  <2>1. st' = [st EXCEPT ![t] = "rest"] /\ st[t] = "flag" /\ UNCHANGED copied
    BY <1>8 DEF FixupFlag, GoOn
  <2>2. /\ nack'.spans = nack.spans /\ nack'.buf = nack.buf /\ nack'.filled = nack.filled /\ nack'.ready
        /\ Made' = Made /\ Bufs' = Bufs
    BY <1>0, <1>8 DEF FixupFlag, NackType, Made, Bufs
  <2>3. Past' = Past
    BY <1>0, <1>2, <2>1, <2>2 DEF Past
  <2>4. nack.spans # Nothing /\ nack.buf \in Bufs
    BY <2>1 DEF Tables
  <2> QED
    BY <1>0, <2>1, <2>2, <2>3, <2>4 DEF Tables
<1>9. CASE CreateRest(t)
  <2>1. UNCHANGED nack /\ Serves(t) /\ st[t] = "rest"
    BY <1>1, <1>9, RestSteps DEF CreateRest, Refused
  <2>2. Made' = Made /\ Bufs' = Bufs
    BY <2>1 DEF Made, Bufs
  <2>3. st' = [st EXCEPT ![t] = "serving"] /\ copied' = [copied EXCEPT ![t] = nack.spans]
    BY <2>1 DEF Serves
  <2>4. Past' = Past
    BY <1>0, <1>2, <2>1, <2>2, <2>3 DEF Past
  <2>5. nack.ready /\ nack.spans \in Made
    BY <2>1 DEF Tables
  <2> QED
    BY <1>0, <2>1, <2>2, <2>3, <2>4, <2>5 DEF Tables
<1> QED
  BY <1>3, <1>4, <1>5, <1>6, <1>7, <1>8, <1>9 DEF Thread

LEMMA CountedStep == Typed /\ MainInv /\ Counted /\ [Next]_vars => Counted'
<1> SUFFICES ASSUME Typed, MainInv, Counted, [Next]_vars, Unfailed'
             PROVE  Tables'
  BY DEF Counted
<1>0. st \in [Threads -> States]
  BY TypedParts DEF ThreadsTyped
<1>1. CASE Quiet \/ UNCHANGED vars
  <2>1. Left
    BY <1>1, QuietSteps
  <2>2. Unfailed
    BY <2>1 DEF Left, Unfailed
  <2>3. Made' = Made /\ Bufs' = Bufs
    BY <2>1 DEF Left, Made, Bufs
  <2>4. Past' = Past
    BY <2>1, <2>3 DEF Left, Past
  <2> QED
    BY <2>1, <2>2, <2>3, <2>4 DEF Left, Counted, Tables
<1>2. CASE DestroyQueue
  <2>1. pc' = pc /\ pc \in {"destroy_queues", "abandon"}
    BY <1>2, DestroySteps DEF mainVars
  <2> QED
    BY <2>1 DEF Unfailed, Closing
<1>3. CASE \E t \in Threads : Thread(t)
  <2>1. PICK t \in Threads : Thread(t)
    BY <1>3
  <2>2. CASE Die("crashed")
    <3>1. Unfailed
      BY <2>2 DEF Die, Unfailed
    <3>2. Made' = Made /\ Bufs' = Bufs
      BY <2>2 DEF Die, Made, Bufs
    <3>3. Past' = Past
      BY <2>2, <3>2 DEF Die, Past
    <3> QED
      BY <2>2, <3>1, <3>2, <3>3 DEF Die, Counted, Tables
  <2>3. CASE ~Die("crashed")
    <3>1. pc = "queues" /\ st[t] # "failed"
      BY <2>1, ThreadsRunInQueues DEF BuildingStates
    <3>2. \A u \in Threads : st[u] = "failed" => st'[u] = "failed"
      BY <1>0, <2>1, <2>3, <3>1, ThreadsRunInQueues
    <3>3. Unfailed
      BY <3>1, <3>2 DEF Unfailed, Closing
    <3> QED
      BY <2>1, <2>3, <3>3, CountedThread DEF Counted
  <2> QED
    BY <2>2, <2>3
<1> QED
  BY <1>1, <1>2, <1>3, Steps

(* Everything proved so far, in one inductive invariant. *)
DaemonInv == Typed /\ MainInv /\ Sequential /\ Counted

LEMMA DaemonInvAlways == Spec => []DaemonInv
<1>1. Init => DaemonInv
  BY TypedInit, MainInvInit, SequentialInit, CountedInit DEF DaemonInv
<1>2. DaemonInv /\ [Next]_vars => DaemonInv'
  BY TypedStep, MainInvStep, SequentialStep, CountedStep DEF DaemonInv
<1> QED
  BY <1>1, <1>2, PTL DEF Spec

(***************************************************************************)
(* While the daemon polls, every thread's copy of pipeline0 refers to a    *)
(* table of spans that is alive and has its span, and there is a buffer,   *)
(* for any number of threads and however their unprotected fixups were     *)
(* interleaved; and from the start when the queues are created in turn.    *)
(***************************************************************************)
THEOREM NackAnswersWhileServing == Spec => []NackReady
<1>1. DaemonInv => NackReady
  <2> SUFFICES ASSUME DaemonInv, NEW t \in Threads, st[t] = "serving",
                      pc = "polling" \/ (pc = "queues" /\ ~parallel)
               PROVE  /\ nack.ready
                      /\ copied[t] \in nack.filled /\ nack_spans(copied[t]) \in nack.heap.live
                      /\ nack.buf # Nothing /\ nack_buf(nack.buf) \in nack.heap.live
    BY DEF NackReady, InState
  <2>0. Nothing \notin Threads /\ 1 \in Threads
    BY NAssumption DEF Threads
  <2>1. CASE ~parallel
    <3>1. pc \notin Closing
      BY DEF Closing
    <3>2. /\ nack.ready /\ copied[t] = 1 /\ 1 \in nack.filled
          /\ nack.buf = 1 /\ 1 \in Bufs /\ 1 \in Made
      BY <2>1, <3>1 DEF DaemonInv, Sequential, InOrder, FirstMakesIt
    <3> QED
      BY <2>0, <3>2 DEF Made, Bufs
  <2>2. CASE pc = "polling"
    <3>1. \A u \in Threads : st[u] = "serving"
      BY <2>2 DEF DaemonInv, MainInv
    <3>2. Tables
      BY <2>2, <3>1 DEF DaemonInv, Counted, Unfailed, Closing
    <3>3. Past = Made /\ Made \subseteq Threads
      BY <3>1 DEF Past, Made
    <3>4. nack.filled = Made
      <4>1. IsFiniteSet(Made) /\ nack.filled \in SUBSET Made
        BY <3>2, <3>3, FiniteThreads DEF Tables
      <4> QED
        BY <3>2, <3>3, <4>1, FS_Subset DEF Tables
    <3>5. nack.ready /\ copied[t] \in Made /\ nack.buf \in Bufs
      BY <3>1, <3>2 DEF Tables
    <3> QED
      BY <2>0, <3>4, <3>5 DEF Made, Bufs
  <2> QED
    BY <2>1, <2>2
<1> QED
  BY <1>1, DaemonInvAlways, PTL

-----------------------------------------------------------------------------
(* The parameters of a codec that was accepted *)

LEMMA TableTyped ==
  ASSUME NEW params, IsSeq(params)
  PROVE  /\ \A p \in Table(params) : p \in Range(params)
         /\ \A p, q \in Table(params) : p.key = q.key => p = q
         /\ IsFiniteSet(Table(params)) /\ IsFiniteSet({p.key : p \in Table(params)})
         /\ Cardinality({p.key : p \in Table(params)}) <= Cardinality(Table(params))
<1> DEFINE n == Len(params)
           K == DictPairs(params, n)
           T == Table(params)
           keys == {p.key : p \in T}
<1>1. n \in Nat /\ DOMAIN params = 1 .. n
  BY SeqDomain
<1>2. T = {params[j] : j \in K} /\ K \subseteq 1 .. n
  BY DEF Table, DictPairs, Appended
<1>3. \A j, m \in K : params[j].key = params[m].key => j = m
  <2> SUFFICES ASSUME NEW j \in K, NEW m \in K, params[j].key = params[m].key, j # m PROVE FALSE
    OBVIOUS
  <2>1. j \in Appended(params, n) /\ m \in Appended(params, n)
    BY DEF DictPairs
  <2>2. ~(m > j) /\ ~(j > m)
    BY <2>1 DEF DictPairs
  <2>3. j \in Nat /\ m \in Nat
    BY <1>1, <1>2
  <2> QED
    BY <2>2, <2>3
<1> HIDE DEF n, K, T
<1>4. \A p \in T : p \in Range(params)
  BY <1>1, <1>2 DEF Range
<1>5. \A p, q \in T : p.key = q.key => p = q
  BY <1>2, <1>3
<1>6. IsFiniteSet(T)
  <2>1. IsFiniteSet({params[k] : k \in 1 .. n})
    BY <1>1, FiniteImage
  <2>2. T \subseteq {params[k] : k \in 1 .. n}
    BY <1>2
  <2> QED
    BY <2>1, <2>2, FS_Subset
<1>7. IsFiniteSet(keys) /\ Cardinality(keys) <= Cardinality(T)
  <2> DEFINE f == [p \in T |-> p.key]
  <2>1. f \in Surjection(T, keys)
    BY DEF Surjection
  <2> HIDE DEF f, keys
  <2> QED
    BY <1>6, <2>1, FS_Surjection
<1> QED
  BY <1>4, <1>5, <1>6, <1>7 DEF T

LEMMA ParserKeys ==
  ASSUME NEW type \in DOMAIN parsers
  PROVE  IsFiniteSet(Keyed(parsers[type])) /\ Cardinality(Keyed(parsers[type])) = Len(parsers[type])
<1>1. ASSUME NEW S, IsFiniteSet(S), NEW x, x \notin S
      PROVE  IsFiniteSet(S \cup {x}) /\ Cardinality(S \cup {x}) = Cardinality(S) + 1
  BY <1>1, FS_AddElement
<1>2. \A x : IsFiniteSet({x}) /\ Cardinality({x}) = 1
  BY FS_Singleton
<1>3. CASE type = "linux-hamming"
  <2> DEFINE A == {"steps"}
             B == A \cup {"step_size"}
             D == B \cup {"big_endian"}
             E == D \cup {"smart_media_order"}
  <2>1. Keyed(hamming_parsers) = E /\ Len(hamming_parsers) = 4
    BY DEF Keyed, hamming_parsers, Parser
  <2>2. "step_size" \notin A /\ "big_endian" \notin B /\ "smart_media_order" \notin D
    OBVIOUS
  <2>3. IsFiniteSet(A) /\ Cardinality(A) = 1
    BY <1>2
  <2> HIDE DEF A
  <2>4. IsFiniteSet(B) /\ Cardinality(B) = 2
    BY <1>1, <2>2, <2>3
  <2> HIDE DEF B
  <2>5. IsFiniteSet(D) /\ Cardinality(D) = 3
    BY <1>1, <2>2, <2>4
  <2> HIDE DEF D
  <2>6. IsFiniteSet(E) /\ Cardinality(E) = 4
    BY <1>1, <2>2, <2>5
  <2> QED
    BY ParserTables, <1>3, <2>1, <2>6
<1>4. CASE type = "xor"
  <2> DEFINE A == {"byte_pattern"}
             B == A \cup {"allow_partial_chunk"}
  <2>1. Keyed(xor_parsers) = B /\ Len(xor_parsers) = 2
    BY DEF Keyed, xor_parsers, Parser
  <2>2. "allow_partial_chunk" \notin A
    OBVIOUS
  <2>3. IsFiniteSet(A) /\ Cardinality(A) = 1
    BY <1>2
  <2> HIDE DEF A
  <2>4. IsFiniteSet(B) /\ Cardinality(B) = 2
    BY <1>1, <2>2, <2>3
  <2> QED
    BY ParserTables, <1>4, <2>1, <2>4
<1>5. CASE type = "memset"
  <2>1. Keyed(memset_parsers) = {"byte_pattern"} /\ Len(memset_parsers) = 1
    BY DEF Keyed, memset_parsers, Parser
  <2> QED
    BY ParserTables, <1>2, <1>5, <2>1
<1> QED
  BY ParserTables, <1>3, <1>4, <1>5

(* The keys that nobody asked for are at most as many as those that were   *)
(* asked for and are missing, which are not required ones.                 *)
LEMMA KeysCounted ==
  ASSUME NEW c, c.type \in DOMAIN parsers, IsSeq(c.params), EntriesAccepted(c)
  PROVE  LET keys == {p.key : p \in Table(c.params)}
             ps == parsers[c.type]
         IN Cardinality(keys \ Keyed(ps)) <= Cardinality(Optional(ps) \ keys)
<1> DEFINE ps == parsers[c.type]
           T == Table(c.params)
           keys == {p.key : p \in T}
           K == Keyed(ps)
           O == Optional(ps)
<1>1. IsFiniteSet(T) /\ IsFiniteSet(keys) /\ Cardinality(keys) <= Cardinality(T)
  BY TableTyped
<1>2. IsFiniteSet(K) /\ Cardinality(K) = Len(ps) /\ Len(ps) \in Nat
  BY ParserKeys, ParsersTyped
<1>3. ~(Cardinality(T) > Len(ps))
  BY DEF EntriesAccepted
<1>4. K \ keys \subseteq O
  <2> SUFFICES ASSUME NEW n \in DOMAIN ps, ps[n].key \notin keys PROVE ~ps[n].required
    BY DEF Keyed, Optional
  <2>1. ~Has(c.params, ps[n])
    BY DEF Has
  <2> QED
    BY <2>1 DEF EntriesAccepted
<1>5. O \subseteq K
  BY DEF Keyed, Optional
<1> HIDE DEF ps, T, keys, K, O
<1>6. Cardinality(T) \in Nat /\ Cardinality(keys) \in Nat /\ Cardinality(keys) <= Cardinality(K)
  BY <1>1, <1>2, <1>3, FS_CardinalityType
<1>7. /\ Cardinality(keys \ K) = Cardinality(keys) - Cardinality(keys \cap K)
      /\ Cardinality(K \ keys) = Cardinality(K) - Cardinality(K \cap keys)
  BY <1>1, <1>2, FS_Difference
<1>8. keys \cap K = K \cap keys
  OBVIOUS
<1>9. IsFiniteSet(K \cap keys) /\ Cardinality(K \cap keys) \in Nat
  BY <1>1, <1>2, FS_Intersection, FS_CardinalityType
<1>10. IsFiniteSet(O) /\ IsFiniteSet(O \ keys)
  BY <1>2, <1>5, FS_Subset
<1>11. K \ keys \subseteq O \ keys
  BY <1>4
<1>12. Cardinality(K \ keys) <= Cardinality(O \ keys)
  BY <1>10, <1>11, FS_Subset
<1>13. Cardinality(O \ keys) \in Nat /\ Cardinality(K) \in Nat
  BY <1>2, <1>10, FS_CardinalityType
<1>14. Cardinality(keys \ K) <= Cardinality(O \ keys)
  <2> DEFINE ck == Cardinality(keys)
             cK == Cardinality(K)
             both == Cardinality(K \cap keys)
             left == Cardinality(O \ keys)
             none == Cardinality(K \ keys)
             extra == Cardinality(keys \ K)
  <2>1. extra = ck - both /\ none = cK - both
    BY <1>7, <1>8
  <2>2. ck \in Nat /\ cK \in Nat /\ both \in Nat /\ left \in Nat /\ ck <= cK /\ none <= left
    BY <1>6, <1>9, <1>12, <1>13
  <2> HIDE DEF ck, cK, both, left, none, extra
  <2>3. extra <= left
    BY <2>1, <2>2
  <2> QED
    BY <2>3 DEF extra, left
<1> QED
  BY <1>14 DEF keys, T, K, O, ps

(* An integer that an int can hold stays what it is. *)
LEMMA NarrowKeeps ==
  ASSUME NEW n \in -(IntMax + 1) .. IntMax
  PROVE  narrow(n) = n
<1> DEFINE range == 2 * (IntMax + 1)
           low == n % range
<1>1. range \in Int /\ range > 0 /\ n \in Int /\ IntMax \in Nat
  BY ParamsAssumption
<1>2. CASE n >= 0
  <2>1. low = n
    BY <1>1, <1>2
  <2> QED
    BY <1>1, <2>1 DEF narrow
<1>3. CASE n < 0
  <2>1. low = n + range
    BY <1>1, <1>3
  <2> QED
    BY <1>1, <1>3, <2>1 DEF narrow
<1> QED
  BY <1>1, <1>2, <1>3

(* A value that parse_value has accepted as the number of steps. *)
LEMMA StepsFit ==
  ASSUME NEW c, CodecSound(c), c.type = "linux-hamming", IsSeq(c.params),
         \A p \in Range(c.params) : ParamTyped(p),
         NEW p \in Table(c.params), p.key = "steps"
  PROVE  StepsFitOob(p.val)
<1> DEFINE parser == hamming_parsers[1]
           v == narrow(p.val)
<1>1. /\ parsers[c.type] = hamming_parsers /\ 1 \in DOMAIN hamming_parsers
      /\ parser.key = "steps" /\ parser.type = "unsigned"
  BY ParserTables DEF hamming_parsers, Parser
<1>2. Has(c.params, parser)
  BY <1>1 DEF Has
<1>3. Pair(c.params, parser) = p
  <2> DEFINE q == Pair(c.params, parser)
  <2>1. q \in Table(c.params) /\ q.key = parser.key
    BY <1>2, Zenon DEF Has, Pair
  <2> HIDE DEF q
  <2> QED
    BY <1>1, <2>1, TableTyped DEF q
<1>4. Value(c.params, parser) = v
  BY <1>1, <1>3 DEF Value
<1>5. TypeMatches(c.params, parser) /\ Handles(c.type, parser, v)
  BY <1>1, <1>2, <1>4 DEF CodecSound, EntriesAccepted, parse_value
<1>6. p.kind = "integer" /\ v >= 0
  BY <1>1, <1>3, <1>4, <1>5 DEF TypeMatches
<1>7. handle_steps_entry(v)
  BY <1>1, <1>5 DEF Handles
<1>8. (3 * v) % (SizeMax + 1) <= OobSize
  BY <1>4 DEF CodecSound, validate_mtd_page_size_against_ecc_steps
<1>9. p.val \in Int
  BY <1>6, TableTyped DEF ParamTyped
<1>10. v \in Int
  <2> DEFINE range == 2 * (IntMax + 1)
             low == p.val % range
  <2>1. range \in Int /\ range > 0
    BY ParamsAssumption
  <2> HIDE DEF range
  <2>2. low \in Int
    BY <1>9, <2>1
  <2>3. v = IF low > IntMax THEN low - range ELSE low
    BY DEF narrow, range
  <2> HIDE DEF low, v
  <2> QED
    BY <2>1, <2>2, <2>3
<1> HIDE DEF v
<1>11. v # 0 /\ 3 * v <= SizeMax
  BY <1>7 DEF handle_steps_entry
<1>12. (3 * v) % (SizeMax + 1) = 3 * v
  BY <1>6, <1>10, <1>11, ParamsAssumption
<1>13. 3 * v <= OobSize
  BY <1>8, <1>12
<1>14. v <= OobSize \div 3
  BY <1>10, <1>13, ParamsAssumption
<1>15. v \in 1 .. OobSize \div 3
  BY <1>6, <1>10, <1>11, <1>14, ParamsAssumption
<1>16. ASSUME p.val \in -(IntMax + 1) .. IntMax
       PROVE  p.val = v
  BY <1>16, NarrowKeeps DEF v
<1> QED
  BY <1>15, <1>16 DEF StepsFitOob, v

LEMMA MaskKept ==
  ASSUME NEW c, CodecSound(c), c.type = "xor", IsSeq(c.params),
         \A p \in Range(c.params) : ParamTyped(p),
         ~EmptyMask(c), NEW p \in Table(c.params), p.key = "byte_pattern"
  PROVE  p.kind = "string" /\ p.val.len > 0
<1> DEFINE parser == xor_parsers[1]
<1>1. /\ parsers[c.type] = xor_parsers /\ 1 \in DOMAIN xor_parsers
      /\ parser.key = "byte_pattern" /\ parser.type = "string"
  BY ParserTables DEF xor_parsers, Parser
<1>2. Has(c.params, parser)
  BY <1>1 DEF Has
<1>3. Pair(c.params, parser) = p
  <2> DEFINE q == Pair(c.params, parser)
  <2>1. q \in Table(c.params) /\ q.key = parser.key
    BY <1>2, Zenon DEF Has, Pair
  <2> HIDE DEF q
  <2> QED
    BY <1>1, <2>1, TableTyped DEF q
<1>4. TypeMatches(c.params, parser)
  BY <1>1, <1>2 DEF CodecSound, EntriesAccepted, parse_value
<1>5. p.kind = "string"
  BY <1>1, <1>3, <1>4 DEF TypeMatches
<1>6. p.val.len \in Nat
  BY <1>5, TableTyped DEF ParamTyped
<1>7. p.val.len # 0
  BY <1>5 DEF EmptyMask, CodecSound
<1> QED
  BY <1>5, <1>6, <1>7

(* What ParametersSound says about a document. *)
Sound(d) ==
  \A i \in DOMAIN d.codecs :
    LET c == d.codecs[i]
        table == Table(c.params)
        keys == {p.key : p \in table}
        ps == parsers[c.type]
    IN /\ Cardinality(keys \ Keyed(ps)) <= Cardinality(Optional(ps) \ keys)
       /\ \A p \in table :
            /\ p.key = "steps" /\ c.type = "linux-hamming" => StepsFitOob(p.val)
            /\ p.key = "byte_pattern" /\ c.type = "xor" /\ (\E k \in DOMAIN d.pipelines : i \in Used(d.pipelines[k])) =>
                 p.kind = "string" /\ p.val.len > 0

CodecsBuilt(d) == \E o \in CodecsOutcomes[d] : o.rc = "ok"

RestBuilt(d) == \E o \in RestOutcomes[d] : o.rc = "ok"

(* A document that a thread has got through. *)
LEMMA BuiltSound ==
  ASSUME NEW d \in Docs, CodecsBuilt(d), RestBuilt(d)
  PROVE  Sound(d)
<1>1. DocTyped(d)
  BY DocsAssumption
<1>2. "ok" \notin BuildCodes
  BY DEF BuildCodes
<1>3. NoneSure(BuildCodecs(d))
  <2>1. CodecsOutcomes[d] = Outcomes(EmptyHeap, BuildCodecs(d))
    BY DEF CodecsOutcomes
  <2> QED
    BY <1>1, <1>2, <2>1, CodecsFn, OutcomeCodes DEF CodecsBuilt
<1>4. NoneSure(BuildRest(d))
  <2>1. PICK o \in RestOutcomes[d] : o.rc = "ok"
    BY DEF RestBuilt
  <2>2. PICK h : o \in Outcomes(h, BuildRest(d))
    BY DEF RestOutcomes
  <2> QED
    BY <1>1, <1>2, <2>1, <2>2, RestFn, OutcomeCodes
<1>5. \A i \in DOMAIN d.codecs : CodecSound(d.codecs[i])
  BY <1>1, <1>3, CodecsFn
<1>6. \A k \in DOMAIN d.pipelines : \A j \in Used(d.pipelines[k]) : ~EmptyMask(d.codecs[j])
  BY <1>1, <1>4, RestFn
<1> SUFFICES ASSUME NEW i \in DOMAIN d.codecs
             PROVE  LET c == d.codecs[i]
                        table == Table(c.params)
                        keys == {p.key : p \in table}
                        ps == parsers[c.type]
                    IN /\ Cardinality(keys \ Keyed(ps)) <= Cardinality(Optional(ps) \ keys)
                       /\ \A p \in table :
                            /\ p.key = "steps" /\ c.type = "linux-hamming" => StepsFitOob(p.val)
                            /\ p.key = "byte_pattern" /\ c.type = "xor"
                               /\ (\E k \in DOMAIN d.pipelines : i \in Used(d.pipelines[k])) =>
                                 p.kind = "string" /\ p.val.len > 0
  BY DEF Sound
<1> DEFINE c == d.codecs[i]
<1>7. CodecSound(c)
  BY <1>5
<1>8. IsSeq(c.params) /\ \A p \in Range(c.params) : ParamTyped(p)
  BY <1>1, <1>7 DEF DocTyped, CodecSound
<1>9. (\E k \in DOMAIN d.pipelines : i \in Used(d.pipelines[k])) => ~EmptyMask(c)
  BY <1>6
<1> HIDE DEF c
<1>10. LET keys == {p.key : p \in Table(c.params)}
           ps == parsers[c.type]
       IN Cardinality(keys \ Keyed(ps)) <= Cardinality(Optional(ps) \ keys)
  BY <1>7, <1>8, KeysCounted DEF CodecSound
<1>11. ASSUME NEW p \in Table(c.params), p.key = "steps", c.type = "linux-hamming"
       PROVE  StepsFitOob(p.val)
  BY <1>7, <1>8, <1>11, StepsFit
<1>12. ASSUME NEW p \in Table(c.params), p.key = "byte_pattern", c.type = "xor",
              \E k \in DOMAIN d.pipelines : i \in Used(d.pipelines[k])
       PROVE  p.kind = "string" /\ p.val.len > 0
  BY <1>7, <1>8, <1>9, <1>12, MaskKept
<1> QED
  BY <1>10, <1>11, <1>12 DEF c

(* Both depend on the document alone. *)
LEMMA CodecsBuiltSame == doc' = doc => (CodecsBuilt(doc) <=> CodecsBuilt(doc)')
BY DEF CodecsBuilt, CodecsOutcomes

LEMMA RestBuiltSame == doc' = doc => (RestBuilt(doc) <=> RestBuilt(doc)')
BY DEF RestBuilt, RestOutcomes

(* A thread that has got past its codecs, and one that serves or has       *)
(* served, got that far with this document.                                *)
Built ==
  \A t \in Threads :
    /\ st[t] \notin {"none", "failed"} => CodecsBuilt(doc)
    /\ st[t] \in {"serving", "gone"} => RestBuilt(doc)

LEMMA BuiltThread ==
  ASSUME Typed, Built, NEW t \in Threads, Thread(t)
  PROVE  Built'
<1>0. st \in [Threads -> States]
  BY DEF Typed, TypeOK, States
<1>1. ASSUME NEW label \in States, st' = [st EXCEPT ![t] = label], doc' = doc,
             label \notin {"none", "failed"} => CodecsBuilt(doc),
             label \in {"serving", "gone"} => RestBuilt(doc)
      PROVE  Built'
  <2> SUFFICES ASSUME NEW u \in Threads
               PROVE  /\ st'[u] \notin {"none", "failed"} => CodecsBuilt(doc)
                      /\ st'[u] \in {"serving", "gone"} => RestBuilt(doc)
    BY <1>1, CodecsBuiltSame, RestBuiltSame DEF Built
  <2>1. st'[u] = IF u = t THEN label ELSE st[u]
    BY <1>0, <1>1
  <2> QED
    BY <1>1, <2>1 DEF Built
<1>2. ASSUME UNCHANGED <<st, doc>> PROVE Built'
  BY <1>2, CodecsBuiltSame, RestBuiltSame DEF Built
<1>3. ASSUME NEW why, Fail(t, why), doc' = doc PROVE Built'
  BY <1>1, <1>3 DEF Fail, States
<1>4. CASE CreateCodecs(t)
  <2>1. PICK o \in CodecsOutcomes[doc] :
          \/ Die("crashed")
          \/ Fail(t, o.rc) /\ UNCHANGED mainVars
          \/ o.rc = "ok" /\ st' = [st EXCEPT ![t] = "test"] /\ UNCHANGED mainVars
    BY <1>4 DEF CreateCodecs, Run
  <2>2. CASE Die("crashed")
    BY <1>2, <2>2 DEF Die
  <2>3. CASE Fail(t, o.rc) /\ UNCHANGED mainVars
    BY <1>3, <2>3 DEF mainVars
  <2>4. CASE o.rc = "ok" /\ st' = [st EXCEPT ![t] = "test"] /\ UNCHANGED mainVars
    <3>1. CodecsBuilt(doc)
      BY <2>4 DEF CodecsBuilt
    <3> QED
      BY <1>1, <2>4, <3>1 DEF mainVars, States
  <2> QED
    BY <2>1, <2>2, <2>3, <2>4
<1>5. CASE CreateRest(t)
  <2>1. PICK o \in RestOutcomes[doc] :
          \/ Die("crashed")
          \/ Fail(t, o.rc) /\ UNCHANGED mainVars
          \/ o.rc = "ok" /\ st' = [st EXCEPT ![t] = "serving"] /\ UNCHANGED mainVars
    BY <1>5 DEF CreateRest, Run
  <2>2. CASE Die("crashed")
    BY <1>2, <2>2 DEF Die
  <2>3. CASE Fail(t, o.rc) /\ UNCHANGED mainVars
    BY <1>3, <2>3 DEF mainVars
  <2>4. CASE o.rc = "ok" /\ st' = [st EXCEPT ![t] = "serving"] /\ UNCHANGED mainVars
    <3>1. RestBuilt(doc)
      BY <2>4 DEF RestBuilt
    <3>2. CodecsBuilt(doc)
      BY <1>5 DEF CreateRest, Built
    <3> QED
      BY <1>1, <2>4, <3>1, <3>2 DEF mainVars, States
  <2> QED
    BY <2>1, <2>2, <2>3, <2>4
<1>6. ASSUME NEW label \in {"new", "set", "alloc", "flag", "rest"}, GoOn(t, label), doc' = doc,
             st[t] \notin {"none", "failed"}
      PROVE  Built'
  <2>1. CodecsBuilt(doc)
    BY <1>6 DEF Built
  <2> QED
    BY <1>1, <1>6, <2>1 DEF GoOn, States
<1>7. CASE FixupTest(t)
  BY <1>6, <1>7 DEF FixupTest, mainVars
<1>8. CASE FixupNew(t)
  BY <1>3, <1>6, <1>8 DEF FixupNew, mainVars
<1>9. CASE FixupSet(t)
  <2>1. CASE Die("crashed")
    BY <1>2, <2>1 DEF Die
  <2>2. CASE (GoOn(t, "alloc") \/ \E why : Fail(t, why)) /\ doc' = doc /\ st[t] = "set"
    BY <1>3, <1>6, <2>2
  <2> QED
    BY <1>9, <2>1, <2>2 DEF FixupSet, mainVars
<1>10. CASE FixupAlloc(t)
  BY <1>3, <1>6, <1>10 DEF FixupAlloc, mainVars
<1>11. CASE FixupFlag(t)
  BY <1>6, <1>11 DEF FixupFlag, mainVars
<1> QED
  BY <1>4, <1>5, <1>7, <1>8, <1>9, <1>10, <1>11 DEF Thread

LEMMA BuiltStep == Typed /\ Built /\ [Next]_vars => Built'
<1> SUFFICES ASSUME Typed, Built, [Next]_vars PROVE Built'
  OBVIOUS
<1>1. CASE Quiet \/ UNCHANGED vars
  BY <1>1, QuietSteps, CodecsBuiltSame, RestBuiltSame DEF Left, Built
<1>2. CASE DestroyQueue
  <2> DEFINE t == NextQueue
  <2>1. t \in Threads /\ st[t] = "serving"
    BY <1>2, NextQueueServes DEF DestroyQueue
  <2>2. st' = [st EXCEPT ![t] = "gone"] /\ doc' = doc
    BY <1>2 DEF DestroyQueue, mainVars
  <2>3. st \in [Threads -> States]
    BY DEF Typed, TypeOK, States
  <2>4. CodecsBuilt(doc) /\ RestBuilt(doc)
    BY <2>1 DEF Built
  <2> HIDE DEF t
  <2> QED
    BY <2>1, <2>2, <2>3, <2>4, CodecsBuiltSame, RestBuiltSame DEF Built
<1>3. CASE \E t \in Threads : Thread(t)
  BY <1>3, BuiltThread
<1> QED
  BY <1>1, <1>2, <1>3, Steps

(***************************************************************************)
(* A thread that serves works with parameters that fit: the number of ECC  *)
(* steps, narrowed to an int on its way, fits the OOB area, although the   *)
(* test multiplies it as a size_t; a mask that some pipeline applies is    *)
(* not empty; and a parameter that nobody asked for got in only in place   *)
(* of an optional one.  For every document, every width of the integers    *)
(* and every OOB area.                                                     *)
(***************************************************************************)
THEOREM ServingParametersSound == Spec => []ParametersSound
<1>1. Init => Built
  BY DEF Init, Built
<1>2. Typed /\ Built => ParametersSound
  <2> SUFFICES ASSUME Typed, Built, InState({"serving"}) # {} PROVE Sound(doc)
    BY DEF ParametersSound, Sound
  <2>1. PICK t \in Threads : st[t] = "serving"
    BY DEF InState
  <2>2. doc \in Docs
    BY DEF Typed, TypeOK
  <2>3. CodecsBuilt(doc) /\ RestBuilt(doc)
    BY <2>1 DEF Built
  <2> QED
    BY <2>2, <2>3, BuiltSound
<1> QED
  BY <1>1, <1>2, TypedInit, TypedStep, BuiltStep, PTL DEF Spec
=============================================================================
