-------------------------- MODULE RoundTrip_proofs --------------------------
(***************************************************************************)
(* A read returns what was written: the codecs of a mirrored pipeline undo *)
(* each other through the flash, with one decayed bit, for every number of *)
(* threads, pages, parts, spans and codecs, every order of requests and    *)
(* every contents of the span buffers.                                     *)
(***************************************************************************)
EXTENDS Worker_proofs

-----------------------------------------------------------------------------
(* The address of a bit: no two bits of a step have the same one *)

LEMMA PowerNext ==
  ASSUME NEW n \in Nat
  PROVE  2 ^ n \in Nat \ {0} /\ 2 ^ (n + 1) = 2 * 2 ^ n
<1> DEFINE I == 0 .. n - 1
           J == 0 .. (n + 1) - 1
           A == SUBSET I
           B == {a \cup {n} : a \in A}
<1>1. IsFiniteSet(I) /\ Cardinality(I) = n /\ IsFiniteSet(J) /\ Cardinality(J) = n + 1
  <2>1. ASSUME NEW k \in Nat PROVE IsFiniteSet(0 .. k - 1) /\ Cardinality(0 .. k - 1) = k
    <3> DEFINE m == k - 1
    <3>1. m \in Int /\ (IF 0 > m THEN 0 ELSE m - 0 + 1) = k
      OBVIOUS
    <3> HIDE DEF m
    <3>2. IsFiniteSet(0 .. m) /\ Cardinality(0 .. m) = k
      BY <3>1, FS_Interval
    <3> QED
      BY <3>2 DEF m
  <2> QED
    BY <2>1
<1>2. IsFiniteSet(A) /\ Cardinality(A) = 2 ^ n /\ Cardinality(SUBSET J) = 2 ^ (n + 1)
  BY <1>1, FS_SUBSET
<1>3. J = I \cup {n} /\ n \notin I
  OBVIOUS
<1>4. SUBSET J = A \cup B /\ A \cap B = {}
  <2> HIDE DEF I, J
  <2>1. ASSUME NEW x \in SUBSET J, n \in x PROVE x \in B
    <3>1. x \ {n} \in A /\ x = (x \ {n}) \cup {n}
      BY <1>3, <2>1
    <3> QED
      BY <3>1
  <2>2. ASSUME NEW x \in SUBSET J, n \notin x PROVE x \in A
    BY <1>3, <2>2
  <2>3. ASSUME NEW x \in A PROVE x \in SUBSET J /\ n \notin x
    BY <1>3
  <2>4. ASSUME NEW x \in B PROVE x \in SUBSET J /\ n \in x
    BY <1>3
  <2> QED
    BY <2>1, <2>2, <2>3, <2>4
<1> DEFINE f == [a \in A |-> a \cup {n}]
<1>5. f \in Bijection(A, B)
  <2> HIDE DEF I, J
  <2>1. f \in [A -> B]
    OBVIOUS
  <2>2. \A a, b \in A : f[a] = f[b] => a = b
    <3> SUFFICES ASSUME NEW a \in A, NEW b \in A, f[a] = f[b] PROVE a = b
      OBVIOUS
    <3>1. a \cup {n} = b \cup {n} /\ n \notin a /\ n \notin b
      BY <1>3
    <3> QED
      BY <3>1
  <2>3. \A y \in B : \E a \in A : f[a] = y
    OBVIOUS
  <2> QED
    BY <2>1, <2>2, <2>3 DEF Bijection, Injection, Surjection, IsInjective
<1>6. IsFiniteSet(B) /\ Cardinality(B) = Cardinality(A)
  BY <1>2, <1>5, FS_Bijection DEF ExistsBijection
<1> HIDE DEF A, B
<1>7. Cardinality(SUBSET J) = Cardinality(A) + Cardinality(B)
  <2>1. Cardinality(A \cup B) = Cardinality(A) + Cardinality(B) - Cardinality(A \cap B)
    BY <1>2, <1>6, FS_Union
  <2>2. Cardinality(A \cap B) = 0
    BY <1>4, FS_EmptySet
  <2>3. Cardinality(A) \in Nat /\ Cardinality(B) \in Nat
    BY <1>2, <1>6, FS_CardinalityType
  <2> DEFINE x == Cardinality(A)
             y == Cardinality(B)
             z == Cardinality(A \cap B)
  <2>4. Cardinality(SUBSET J) = x + y - z
    BY <1>4, <2>1
  <2> HIDE DEF x, y, z
  <2>5. Cardinality(SUBSET J) = x + y
    BY <2>2, <2>3, <2>4 DEF x, y, z
  <2> QED
    BY <2>5 DEF x, y
<1>8. Cardinality(A) \in Nat /\ Cardinality(A) # 0
  <2>1. A # {}
    BY DEF A
  <2> QED
    BY <1>2, <2>1, FS_CardinalityType, FS_EmptySet
<1> QED
  BY <1>2, <1>6, <1>7, <1>8

LEMMA Division ==
  ASSUME NEW a \in Nat, NEW m \in Nat \ {0}
  PROVE  a \div m \in Nat /\ a % m \in 0 .. m - 1 /\ a = m * (a \div m) + (a % m)
<1> DEFINE q == a \div m
           x == m * q
<1>1. q \in Nat /\ a % m \in 0 .. m - 1
  OBVIOUS
<1>2. a % m = a - m * (a \div m)
  OBVIOUS
<1> DEFINE r == a % m
<1>3. x \in Int /\ r \in Int /\ r = a - x
  BY <1>1, <1>2
<1> HIDE DEF x, r
<1>4. a = x + r
  BY <1>3
<1> HIDE DEF q
<1> QED
  BY <1>1, <1>4 DEF x, r, q

LEMMA DivisionUnique ==
  ASSUME NEW m \in Nat \ {0}, NEW q \in Nat, NEW r \in 0 .. m - 1,
         NEW u \in Nat, NEW v \in 0 .. m - 1, m * q + r = m * u + v
  PROVE  q = u /\ r = v
<1>1. q = u
  OBVIOUS
<1> DEFINE x == m * q
<1>2. x \in Int /\ x + r = x + v
  BY <1>1
<1> HIDE DEF x
<1>3. r = v
  BY <1>2
<1> QED
  BY <1>1, <1>3

LEMMA Remainder ==
  ASSUME NEW m \in Nat \ {0}, NEW h \in Nat, NEW r \in 0 .. m - 1
  PROVE  (m * h + r) % m = r /\ (m * h + r) \div m = h
<1> DEFINE a == m * h + r
<1>1. a \in Nat
  OBVIOUS
<1> HIDE DEF a
<1>2. a \div m \in Nat /\ a % m \in 0 .. m - 1 /\ a = m * (a \div m) + (a % m)
  BY <1>1, Division
<1> DEFINE u == a \div m
           v == a % m
<1>3. u \in Nat /\ v \in 0 .. m - 1 /\ m * h + r = m * u + v
  BY <1>2 DEF a
<1> HIDE DEF u, v
<1>4. h = u /\ r = v
  BY <1>3, DivisionUnique
<1> QED
  BY <1>4 DEF u, v, a

(* One more binary digit. *)
LEMMA Digit ==
  ASSUME NEW a \in Nat, NEW m \in Nat \ {0}
  PROVE  a % (2 * m) = m * ((a \div m) % 2) + (a % m)
<1> DEFINE q == a \div m
           r == a % m
           h == q \div 2
           b == q % 2
           n == 2 * m
<1>1. q \in Nat /\ r \in 0 .. m - 1 /\ a = m * q + r
  BY Division
<1> HIDE DEF q, r
<1>2. h \in Nat /\ b \in {0, 1} /\ q = 2 * h + b
  BY <1>1
<1> HIDE DEF h, b
<1>3. m * q = n * h + m * b
  BY <1>2
<1>4. m * b + r \in 0 .. n - 1
  <2>1. m * b \in {0, m}
    BY <1>2
  <2> QED
    BY <1>1, <2>1
<1>5. n \in Nat \ {0}
  OBVIOUS
<1> DEFINE s == m * b + r
<1>6. a = n * h + s
  <2> DEFINE x == n * h
             y == m * b
  <2>1. x \in Int /\ y \in Int /\ a = (x + y) + r /\ r \in Int
    BY <1>1, <1>2, <1>3
  <2> HIDE DEF x, y
  <2>2. a = x + (y + r)
    BY <2>1
  <2> QED
    BY <2>2 DEF x, y
<1> HIDE DEF n, s
<1>7. s \in 0 .. n - 1
  BY <1>4 DEF s
<1>8. (n * h + s) % n = s
  BY <1>2, <1>5, <1>7, Remainder
<1>9. a % n = s
  BY <1>6, <1>8
<1> QED
  BY <1>9 DEF n, s, b, q, r

SameDigits(a, b, n) == \A j \in 0 .. n - 1 : (a \div 2 ^ j) % 2 = (b \div 2 ^ j) % 2

LEMMA DigitsDetermine ==
  ASSUME NEW a \in Nat, NEW b \in Nat
  PROVE  \A n \in Nat : SameDigits(a, b, n) => a % 2 ^ n = b % 2 ^ n
<1> DEFINE T == {n \in Nat : SameDigits(a, b, n) => a % 2 ^ n = b % 2 ^ n}
<1>1. 0 \in T
  <2>1. 2 ^ 0 = 1
    <3>1. IsFiniteSet({}) /\ Cardinality({}) = 0
      BY FS_EmptySet
    <3>2. Cardinality(SUBSET {}) = 2 ^ 0
      BY <3>1, FS_SUBSET
    <3>3. SUBSET {} = {{}}
      OBVIOUS
    <3> QED
      BY <3>2, <3>3, FS_Singleton
  <2>2. \A x \in Nat : x % 1 = 0
    OBVIOUS
  <2> QED
    BY <2>1, <2>2
<1>2. ASSUME NEW n \in Nat, n \in T PROVE n + 1 \in T
  <2> SUFFICES ASSUME SameDigits(a, b, n + 1) PROVE a % 2 ^ (n + 1) = b % 2 ^ (n + 1)
    OBVIOUS
  <2> DEFINE m == 2 ^ n
  <2>1. m \in Nat \ {0} /\ 2 ^ (n + 1) = 2 * m
    BY PowerNext
  <2>2. \A j \in 0 .. n - 1 : j \in 0 .. (n + 1) - 1
    OBVIOUS
  <2>3. SameDigits(a, b, n)
    BY <2>2 DEF SameDigits
  <2>4. n \in 0 .. (n + 1) - 1
    OBVIOUS
  <2>5. (a \div m) % 2 = (b \div m) % 2
    BY <2>4 DEF SameDigits
  <2>6. a % m = b % m
    BY <1>2, <2>3
  <2> HIDE DEF m
  <2>7. a % (2 * m) = m * ((a \div m) % 2) + (a % m) /\ b % (2 * m) = m * ((b \div m) % 2) + (b % m)
    BY <2>1, Digit
  <2> QED
    BY <2>1, <2>5, <2>6, <2>7
<1> HIDE DEF T
<1>3. \A n \in Nat : n \in T
  BY <1>1, <1>2, Induction
<1> QED
  BY <1>3 DEF T

LEMMA AddrInjective ==
  ASSUME NEW i \in 0 .. STEP - 1, NEW j \in 0 .. STEP - 1, Addr(i) = Addr(j)
  PROVE  i = j
<1>1. STEP \in Nat \ {0} /\ STEP = 2 ^ K /\ K \in Nat
  BY StepPositive, KAssumption DEF STEP
<1>2. i \in Nat /\ j \in Nat /\ i < STEP /\ j < STEP
  BY <1>1
<1>3. ASSUME NEW k \in 0 .. K - 1 PROVE (i \div 2 ^ k) % 2 = (j \div 2 ^ k) % 2
  <2> DEFINE m == 2 ^ k
             x == i \div m
             y == j \div m
  <2>1. k \in Nat
    BY <1>1
  <2>2. m \in Nat \ {0}
    BY <2>1, PowerNext
  <2>3. k \in Addr(i) <=> x % 2 = 1
    BY DEF Addr
  <2>4. k \in Addr(j) <=> y % 2 = 1
    BY DEF Addr
  <2> HIDE DEF m
  <2>5. x \in Nat /\ y \in Nat
    BY <1>2, <2>2, Division
  <2> HIDE DEF x, y
  <2>6. x % 2 \in {0, 1} /\ y % 2 \in {0, 1}
    BY <2>5
  <2>7. x % 2 = y % 2
    BY <2>3, <2>4, <2>6
  <2> QED
    BY <2>7 DEF x, y, m
<1>4. SameDigits(i, j, K)
  BY <1>3 DEF SameDigits
<1>5. i % STEP = j % STEP
  BY <1>1, <1>2, <1>4, DigitsDetermine
<1> HIDE DEF STEP
<1>6. i % STEP = i /\ j % STEP = j
  BY <1>1, <1>2
<1> QED
  BY <1>5, <1>6

-----------------------------------------------------------------------------
(* One step of the decoder: it undoes one flip of data or code *)

LEMMA ToggleCardinality ==
  ASSUME NEW d, IsFiniteSet(d), NEW a
  PROVE  Cardinality(Toggle(d, a)) % 2 # Cardinality(d) % 2
<1>0. Cardinality(d) \in Nat
  BY FS_CardinalityType
<1>1. CASE a \in d
  <2>1. Toggle(d, a) = d \ {a} /\ Cardinality(d \ {a}) = Cardinality(d) - 1
    BY <1>1, FS_RemoveElement DEF Toggle
  <2> QED
    BY <1>0, <2>1
<1>2. CASE a \notin d
  <2>1. Toggle(d, a) = d \cup {a} /\ Cardinality(d \cup {a}) = Cardinality(d) + 1
    BY <1>2, FS_AddElement DEF Toggle
  <2> QED
    BY <1>0, <2>1
<1> QED
  BY <1>1, <1>2

(* A parity notices a flip exactly if it covers the flipped bit. *)
LEMMA ToggleParity ==
  ASSUME NEW d, d \subseteq Addrs, NEW a, NEW j, NEW v
  PROVE  Parity(Toggle(d, a), j, v) # Parity(d, j, v) <=> AddrBit(a, j) = v
<1> DEFINE S(x) == {b \in x : AddrBit(b, j) = v}
<1>1. CASE AddrBit(a, j) = v
  <2>1. S(Toggle(d, a)) = Toggle(S(d), a)
    BY <1>1, Zenon DEF Toggle
  <2>2. IsFiniteSet(S(d))
    <3>1. IsFiniteSet(0 .. K - 1)
      BY KAssumption, FS_Interval
    <3>2. IsFiniteSet(Addrs)
      BY <3>1, FS_SUBSET DEF Addrs
    <3> QED
      BY <3>2, FS_Subset, S(d) \subseteq Addrs
  <2> HIDE DEF S
  <2>3. Cardinality(S(Toggle(d, a))) % 2 # Cardinality(S(d)) % 2
    BY <2>1, <2>2, ToggleCardinality
  <2> QED
    BY <1>1, <2>3 DEF S, Parity
<1>2. CASE AddrBit(a, j) # v
  <2>1. S(Toggle(d, a)) = S(d)
    BY <1>2, Zenon DEF Toggle
  <2> QED
    BY <1>2, <2>1 DEF Parity
<1> QED
  BY <1>1, <1>2

LEMMA OnesMember ==
  ASSUME NEW data \in Chunk, NEW i \in 0 .. STEP - 1
  PROVE  Addr(i) \in Ones(data) <=> data[i] = 1
<1>1. DOMAIN data = 0 .. STEP - 1
  BY DEF Chunk
<1>2. ASSUME Addr(i) \in Ones(data) PROVE data[i] = 1
  <2>1. PICK k \in DOMAIN data : data[k] = 1 /\ Addr(i) = Addr(k)
    BY <1>2 DEF Ones
  <2>2. i = k
    BY <1>1, <2>1, AddrInjective
  <2> QED
    BY <2>1, <2>2
<1>3. ASSUME data[i] = 1 PROVE Addr(i) \in Ones(data)
  BY <1>1, <1>3 DEF Ones
<1> QED
  BY <1>2, <1>3

LEMMA OnesToggled ==
  ASSUME NEW x \in Chunk, NEW y \in Chunk, NEW i \in 0 .. STEP - 1, x[i] # y[i],
         \A k \in 0 .. STEP - 1 : k # i => x[k] = y[k]
  PROVE  Ones(y) = Toggle(Ones(x), Addr(i))
<1>1. DOMAIN x = 0 .. STEP - 1 /\ DOMAIN y = 0 .. STEP - 1 /\ \A k \in 0 .. STEP - 1 : x[k] \in Bit /\ y[k] \in Bit
  BY DEF Chunk
<1>2. Ones(x) = {Addr(k) : k \in {k \in 0 .. STEP - 1 : x[k] = 1}}
  BY <1>1 DEF Ones
<1>3. Ones(y) = {Addr(k) : k \in {k \in 0 .. STEP - 1 : y[k] = 1}}
  BY <1>1 DEF Ones
<1>4. (x[i] = 1) <=> (y[i] # 1)
  BY <1>1 DEF Bit
<1>5. \A k \in 0 .. STEP - 1 : Addr(k) = Addr(i) => k = i
  BY AddrInjective
<1> HIDE DEF Chunk, Ones
<1>6. ASSUME NEW a PROVE a \in Ones(y) <=> a \in Toggle(Ones(x), Addr(i))
  <2>1. CASE a = Addr(i)
    <3>1. a \in Ones(y) <=> y[i] = 1
      BY <2>1, OnesMember
    <3>2. a \in Ones(x) <=> x[i] = 1
      BY <2>1, OnesMember
    <3> QED
      BY <1>4, <2>1, <3>1, <3>2, Zenon DEF Toggle
  <2>2. CASE a # Addr(i)
    <3>1. a \in Ones(y) <=> a \in Ones(x)
      BY <1>2, <1>3, <2>2
    <3> QED
      BY <2>2, <3>1, Zenon DEF Toggle
  <2> QED
    BY <2>1, <2>2
<1> QED
  BY <1>6

(* The parities of a step, and where they are in its code. *)
LEMMA CodeBits ==
  ASSUME NEW data \in Chunk, NEW j \in 0 .. K - 1, NEW v \in Bit
  PROVE  2 * j + v \in 0 .. CODE - 1 /\ calculate[data][2 * j + v] = Flip(Parity(Ones(data), j, v))
<1> DEFINE c == ecc_sw_hamming_calculate(Ones(data), FALSE)
           i == 2 * j + v
<1>1. i \in 0 .. CODE - 1 /\ i \div 2 = j /\ i % 2 = v
  BY KAssumption DEF CODE, Bit
<1>2. c.par[j][v] = Flip(Parity(Ones(data), j, Half(j, v, FALSE)))
  BY DEF ecc_sw_hamming_calculate
<1>3. Half(j, v, FALSE) = v
  BY DEF Half
<1>4. calculate[data] = [k \in 0 .. CODE - 1 |-> c.par[k \div 2][k % 2]]
  BY DEF calculate
<1> HIDE DEF c, i
<1>5. calculate[data][i] = c.par[i \div 2][i % 2]
  BY <1>1, <1>4
<1> QED
  BY <1>1, <1>2, <1>3, <1>5 DEF i

SynOf(data, code) == ParitySyndrome(CodeFrom(code), CodeFrom(calculate[data]))

LEMMA SyndromeBits ==
  ASSUME NEW data \in Chunk, NEW code \in Code, NEW j \in 0 .. K - 1, NEW v \in Bit
  PROVE  <<j, v>> \in SynOf(data, code) <=> code[2 * j + v] # Flip(Parity(Ones(data), j, v))
<1>1. CodeFrom(code).par[j][v] = code[2 * j + v] /\ CodeFrom(calculate[data]).par[j][v] = calculate[data][2 * j + v]
  BY DEF CodeFrom
<1>2. <<j, v>> \in SynOf(data, code) <=> CodeFrom(code).par[j][v] # CodeFrom(calculate[data]).par[j][v]
  BY DEF SynOf, ParitySyndrome
<1> QED
  BY <1>1, <1>2, CodeBits

(* What the decoder makes of it. *)
LEMMA Decoded ==
  ASSUME NEW data \in Chunk, NEW code \in Code, NEW x \in Chunk,
         LET syn == SynOf(data, code)
         IN \/ syn = {} /\ x = data
            \/ syn # {} /\ SingleError(syn) /\ Ones(x) = Toggle(Ones(data), ErrorAddr(syn))
            \/ syn # {} /\ ~SingleError(syn) /\ Cardinality(syn) = 1 /\ x = data
  PROVE  correct[data][code] = [data |-> x, stat |-> "ok"]
<1> DEFINE syn == SynOf(data, code)
           pad == PadSyndrome(CodeFrom(code), CodeFrom(calculate[data]))
           r == ecc_sw_hamming_correct(Ones(data), CodeFrom(code), CodeFrom(calculate[data]))
<1>1. pad = {}
  BY DEF PadSyndrome, CodeFrom
<1>2. Cardinality(pad) = 0
  BY <1>1, FS_EmptySet
<1>3. r = IF syn = {} /\ pad = {} THEN [data |-> Ones(data), stat |-> "clean"]
          ELSE IF SingleError(syn)
          THEN [data |-> Toggle(Ones(data), ErrorAddr(syn)), stat |-> "fixed"]
          ELSE IF Cardinality(syn) + Cardinality(pad) = 1 THEN [data |-> Ones(data), stat |-> "fixed"]
          ELSE [data |-> Ones(data), stat |-> "EBADMSG"]
  BY DEF ecc_sw_hamming_correct, SynOf
<1>4. correct[data][code] = [data |-> [i \in 0 .. STEP - 1 |-> IF Addr(i) \in r.data THEN 1 ELSE 0],
                             stat |-> IF r.stat = "EBADMSG" THEN "EBADMSG" ELSE "ok"]
  BY DEF correct
<1> HIDE DEF r, pad, syn
<1>5. r.data = Ones(x) /\ r.stat # "EBADMSG"
  <2>1. CASE syn = {} /\ x = data
    BY <1>1, <1>3, <2>1
  <2>2. CASE syn # {} /\ SingleError(syn) /\ Ones(x) = Toggle(Ones(data), ErrorAddr(syn))
    BY <1>3, <2>2
  <2>3. CASE syn # {} /\ ~SingleError(syn) /\ Cardinality(syn) = 1 /\ x = data
    BY <1>2, <1>3, <2>3
  <2> QED
    BY <2>1, <2>2, <2>3 DEF syn
<1>6. [i \in 0 .. STEP - 1 |-> IF Addr(i) \in r.data THEN 1 ELSE 0] = x
  <2>1. \A i \in 0 .. STEP - 1 : x[i] = IF Addr(i) \in r.data THEN 1 ELSE 0
    <3>1. \A i \in 0 .. STEP - 1 : x[i] \in {0, 1}
      BY DEF Chunk, Bit
    <3>2. \A i \in 0 .. STEP - 1 : Addr(i) \in r.data <=> x[i] = 1
      BY <1>5, OnesMember
    <3> QED
      BY <3>1, <3>2
  <2> QED
    BY <2>1 DEF Chunk
<1> QED
  BY <1>4, <1>5, <1>6

LEMMA ParityIsBit ==
  ASSUME NEW d, d \subseteq Addrs, NEW j, NEW v
  PROVE  Parity(d, j, v) \in Bit
<1> DEFINE S == {a \in d : AddrBit(a, j) = v}
<1>1. IsFiniteSet(0 .. K - 1)
  BY KAssumption, FS_Interval
<1>2. IsFiniteSet(Addrs)
  BY <1>1, FS_SUBSET DEF Addrs
<1>3. Cardinality(S) \in Nat
  BY <1>2, FS_Subset, FS_CardinalityType, S \subseteq Addrs
<1>4. \A n \in Nat : n % 2 \in {0, 1}
  OBVIOUS
<1> QED
  BY <1>3, <1>4 DEF Parity, Bit

(* Data and code differ from what was encoded in at most one bit. *)
OneBitOff(f, g, I) == \E i \in I : f[i] # g[i] /\ \A k \in I : k # i => f[k] = g[k]

StepNear(x, y, code) ==
  \/ y = x /\ (code = calculate[x] \/ OneBitOff(code, calculate[x], 0 .. CODE - 1))
  \/ code = calculate[x] /\ OneBitOff(x, y, 0 .. STEP - 1)

LEMMA StepRepairs ==
  ASSUME NEW x \in Chunk, NEW y \in Chunk, NEW code \in Code, StepNear(x, y, code)
  PROVE  correct[y][code] = [data |-> x, stat |-> "ok"]
<1> DEFINE syn == SynOf(y, code)
<1>1. \A s \in syn : \E j \in 0 .. K - 1, v \in Bit : s = <<j, v>>
  BY DEF SynOf, ParitySyndrome
<1>2. \A j \in 0 .. K - 1, v \in Bit : <<j, v>> \in syn <=> code[2 * j + v] # Flip(Parity(Ones(y), j, v))
  BY SyndromeBits
<1>3. \A j \in 0 .. K - 1, v \in Bit :
        2 * j + v \in 0 .. CODE - 1 /\ calculate[x][2 * j + v] = Flip(Parity(Ones(x), j, v))
  BY CodeBits
<1>4. 0 \in 0 .. K - 1 /\ 1 \in 0 .. K - 1 /\ 0 \in Bit /\ 1 \in Bit
  BY KAssumption, StepAssumption DEF Bit
<1> HIDE DEF syn
<1>5. CASE y = x /\ code = calculate[x]
  <2>1. syn = {}
    BY <1>1, <1>2, <1>3, <1>5
  <2> QED
    BY <1>5, <2>1, Decoded DEF syn
<1>6. CASE y = x /\ OneBitOff(code, calculate[x], 0 .. CODE - 1)
  <2>1. PICK i \in 0 .. CODE - 1 : /\ code[i] # calculate[x][i]
                                   /\ \A k \in 0 .. CODE - 1 : k # i => code[k] = calculate[x][k]
    BY <1>6 DEF OneBitOff
  <2>2. \A j \in 0 .. K - 1, v \in Bit : <<j, v>> \in syn <=> 2 * j + v = i
    BY <1>2, <1>3, <1>6, <2>1
  <2>3. i \div 2 \in 0 .. K - 1 /\ i % 2 \in Bit /\ 2 * (i \div 2) + (i % 2) = i
    BY KAssumption DEF CODE, Bit
  <2> DEFINE s == <<i \div 2, i % 2>>
  <2>4. \A j \in 0 .. K - 1, v \in Bit : 2 * j + v = i => j = i \div 2 /\ v = i % 2
    BY KAssumption DEF Bit, CODE
  <2>5. syn = {s}
    <3>1. s \in syn
      BY <2>2, <2>3
    <3>2. ASSUME NEW z \in syn PROVE z = s
      BY <1>1, <2>2, <2>4
    <3> QED
      BY <3>1, <3>2
  <2>6. Cardinality(syn) = 1
    BY <2>5, FS_Singleton
  <2>7. PICK j \in 0 .. K - 1 : j # i \div 2
    BY <1>4
  <2>8. <<j, 0>> \notin syn /\ <<j, 1>> \notin syn
    BY <1>4, <2>2, <2>4, <2>7
  <2>9. ~SingleError(syn)
    BY <2>8 DEF SingleError
  <2> QED
    BY <1>6, <2>5, <2>6, <2>9, Decoded DEF syn
<1>7. CASE code = calculate[x] /\ OneBitOff(x, y, 0 .. STEP - 1)
  <2>1. PICK i \in 0 .. STEP - 1 : x[i] # y[i] /\ \A k \in 0 .. STEP - 1 : k # i => x[k] = y[k]
    BY <1>7 DEF OneBitOff
  <2> DEFINE a == Addr(i)
  <2>2. Ones(y) = Toggle(Ones(x), a)
    BY <2>1, OnesToggled
  <2>3. Ones(x) \subseteq Addrs /\ Ones(y) \subseteq Addrs /\ a \subseteq 0 .. K - 1
    BY DEF Ones, Addr, Addrs
  <2> HIDE DEF a
  <2>4. ASSUME NEW j \in 0 .. K - 1, NEW v \in Bit
        PROVE  <<j, v>> \in syn <=> AddrBit(a, j) = v
    <3> DEFINE P == Parity(Ones(x), j, v)
               Q == Parity(Ones(y), j, v)
    <3>1. P \in Bit /\ Q \in Bit
      BY <2>3, ParityIsBit
    <3>2. Q # P <=> AddrBit(a, j) = v
      BY <2>2, <2>3, ToggleParity
    <3>3. <<j, v>> \in syn <=> Flip(P) # Flip(Q)
      BY <1>2, <1>3, <1>7
    <3> HIDE DEF P, Q
    <3>4. Flip(P) # Flip(Q) <=> P # Q
      BY <3>1 DEF Flip, Bit
    <3> QED
      BY <3>2, <3>3, <3>4
  <2>5. \A j \in 0 .. K - 1 : (<<j, 0>> \in syn <=> j \notin a) /\ (<<j, 1>> \in syn <=> j \in a)
    <3>1. \A j \in 0 .. K - 1 : (<<j, 0>> \in syn <=> AddrBit(a, j) = 0) /\ (<<j, 1>> \in syn <=> AddrBit(a, j) = 1)
      BY <1>4, <2>4
    <3>2. \A j : (AddrBit(a, j) = 0 <=> j \notin a) /\ (AddrBit(a, j) = 1 <=> j \in a)
      BY DEF AddrBit
    <3> QED
      BY <3>1, <3>2
  <2>6. SingleError(syn)
    BY <2>5 DEF SingleError
  <2>7. ErrorAddr(syn) = a
    BY <2>3, <2>5, Zenon DEF ErrorAddr
  <2>8. syn # {}
    BY <1>4, <2>5
  <2>9. Ones(x) = Toggle(Ones(y), a)
    BY <2>2, Zenon DEF Toggle
  <2> QED
    BY <2>6, <2>7, <2>8, <2>9, Decoded DEF syn
<1> QED
  BY <1>5, <1>6, <1>7 DEF StepNear

-----------------------------------------------------------------------------
(* The loop over the steps *)

Trace(f, op, spans, data, oob, n) ==
  /\ f[0] = [spans |-> spans, stat |-> "ok"]
  /\ \A s \in Nat : s + 1 <= n => f[s + 1] = Round(op, f[s], data, oob, s)
  /\ Steps(op, spans, data, oob, n) = f[n]

LEMMA StepsTrace ==
  ASSUME NEW op, NEW spans, NEW data, NEW oob, NEW n \in Nat
  PROVE  \E f : Trace(f, op, spans, data, oob, n)
<1> DEFINE f == CHOOSE f : StepsRun(f, op, spans, data, oob, n)
           b == [spans |-> spans, stat |-> "ok"]
<1>1. Steps(op, spans, data, oob, n) = f[n]
  BY Zenon DEF Steps, StepsRun
<1>2. StepsRun(f, op, spans, data, oob, n)
  <2>1. \E g : StepsRun(g, op, spans, data, oob, n)
    BY StepsRunExists
  <2> QED
    BY <2>1, Zenon
<1> HIDE DEF f
<1>3. \A s \in 0 .. n : f[s] = IF s = 0 THEN b ELSE Round(op, f[s - 1], data, oob, s - 1)
  BY <1>2, Zenon DEF StepsRun
<1>4. f[0] = b
  BY <1>3
<1> HIDE DEF b
<1>5. ASSUME NEW s \in Nat, s + 1 <= n PROVE f[s + 1] = Round(op, f[s], data, oob, s)
  <2>1. s + 1 \in 0 .. n /\ s + 1 # 0 /\ s + 1 - 1 = s
    BY <1>5
  <2> QED
    BY <1>3, <2>1
<1>6. Trace(f, op, spans, data, oob, n)
  BY <1>1, <1>4, <1>5 DEF b, Trace
<1> QED
  BY <1>6

LEMMA StepsInsideFewer ==
  ASSUME NEW p, Filled(p), NEW data, NEW oob, Ranges(p, data, oob), NEW n \in Nat, NEW s \in Nat, s <= n,
         StepsInside(p, data, oob, n)
  PROVE  StepsInside(p, data, oob, s)
<1>1. /\ STEP \in Nat /\ CODE \in Nat
      /\ SpanLen(p, data.span) \in Nat /\ SpanLen(p, oob.span) \in Nat
      /\ data.start \in Nat /\ oob.start \in Nat
  BY StepPositive DEF Ranges, RangeTyped, Filled
<1>2. PICK k \in Nat : n = s + k
  BY n = s + (n - s) /\ n - s \in Nat
<1>3. /\ STEP * n = STEP * s + STEP * k /\ CODE * n = CODE * s + CODE * k
      /\ STEP * s \in Nat /\ CODE * s \in Nat /\ STEP * k \in Nat /\ CODE * k \in Nat
  BY <1>1, <1>2
<1> QED
  BY <1>1, <1>3 DEF StepsInside

(* What a step that stays inside does. *)
RoundDone(p, op, acc, new, data, oob, s) ==
  LET d == data.start + s * STEP
      o == oob.start + s * CODE
      x == Slice(acc.spans[data.span], d, STEP)
      y == Slice(acc.spans[oob.span], o, CODE)
      r == HammingStep(op, x, y)
  IN /\ x \in Chunk /\ y \in Code
     /\ d \in Nat /\ o \in Nat /\ d + STEP <= SpanLen(p, data.span) /\ o + CODE <= SpanLen(p, oob.span)
     /\ new.stat = r.stat
     /\ new.spans[data.span] = Paste(acc.spans[data.span], d, r.data)
     /\ new.spans[oob.span] = Paste(acc.spans[oob.span], o, r.code)
     /\ \A z \in Spans(p) : z \notin {data.span, oob.span} => new.spans[z] = acc.spans[z]

LEMMA RoundRuns ==
  ASSUME NEW p, Filled(p), NEW op, NEW acc, CodecResult(p, acc), acc.stat = "ok", NEW data, NEW oob,
         Ranges(p, data, oob), data.span # oob.span, NEW s \in Nat, StepsInside(p, data, oob, s + 1)
  PROVE  RoundDone(p, op, acc, Round(op, acc, data, oob, s), data, oob, s)
<1> DEFINE d == data.start + s * STEP
           o == oob.start + s * CODE
           D == acc.spans[data.span]
           O == acc.spans[oob.span]
           nd == SpanLen(p, data.span)
           no == SpanLen(p, oob.span)
           x == Slice(D, d, STEP)
           y == Slice(O, o, CODE)
           r == HammingStep(op, x, y)
           fixed == [acc.spans EXCEPT ![data.span] = Paste(@, d, r.data)]
           both == [fixed EXCEPT ![oob.span] = Paste(@, o, r.code)]
<1>1. STEP \in Nat /\ CODE \in Nat
  BY StepPositive
<1>2. s * STEP \in Nat /\ s * CODE \in Nat /\ d \in Nat /\ o \in Nat
  BY <1>1 DEF Ranges, RangeTyped
<1>3. nd \in Nat /\ no \in Nat /\ D \in Buffer(nd) /\ O \in Buffer(no)
  BY DEF Ranges, Filled, CodecResult, Buffers
<1>4. d + STEP <= nd /\ o + CODE <= no
  <2>1. STEP * (s + 1) = s * STEP + STEP /\ CODE * (s + 1) = s * CODE + CODE
    BY <1>1
  <2>2. data.start \in Nat /\ oob.start \in Nat
    BY DEF Ranges, RangeTyped
  <2> QED
    BY <1>1, <1>2, <1>3, <2>1, <2>2 DEF StepsInside
<1>5. ~Outside(D, d, STEP) /\ ~Outside(O, o, CODE)
  <2> HIDE DEF D, O, d, o, nd, no
  <2> QED
    BY <1>1, <1>2, <1>3, <1>4, InsideBuffer
<1>6. Round(op, acc, data, oob, s) = [spans |-> both, stat |-> r.stat]
  BY <1>5 DEF Round
<1>7. data.span \in DOMAIN acc.spans /\ oob.span \in DOMAIN acc.spans /\ DOMAIN acc.spans = Spans(p)
  BY DEF CodecResult, Buffers, Ranges
<1>8. x \in Chunk /\ y \in Code
  <2> HIDE DEF D, O, d, o, nd, no
  <2> QED
    BY <1>1, <1>2, <1>3, <1>5, SliceType DEF Chunk, Code, Buffer
<1> HIDE DEF r, nd, no, x, y, d, o
<1>9. /\ both[data.span] = Paste(D, d, r.data) /\ both[oob.span] = Paste(O, o, r.code)
      /\ \A z \in Spans(p) : z \notin {data.span, oob.span} => both[z] = acc.spans[z]
  BY <1>7
<1> HIDE DEF both
<1> QED
  BY <1>2, <1>4, <1>6, <1>8, <1>9 DEF RoundDone, r, nd, no, x, y, d, o

LEMMA SameChunk ==
  ASSUME NEW x \in Chunk, NEW y \in Chunk, \A i \in 0 .. STEP - 1 : x[i] = y[i]
  PROVE  x = y
<1> DEFINE I == 0 .. STEP - 1
<1>1. x = [i \in I |-> x[i]] /\ y = [i \in I |-> y[i]]
  BY DEF Chunk
<1>2. [i \in I |-> x[i]] = [i \in I |-> y[i]]
  BY Zenon
<1> QED
  BY <1>1, <1>2, Zenon

LEMMA SameCode ==
  ASSUME NEW x \in Code, NEW y \in Code, \A i \in 0 .. CODE - 1 : x[i] = y[i]
  PROVE  x = y
<1> DEFINE I == 0 .. CODE - 1
<1>1. x = [i \in I |-> x[i]] /\ y = [i \in I |-> y[i]]
  BY DEF Code
<1>2. [i \in I |-> x[i]] = [i \in I |-> y[i]]
  BY Zenon
<1> QED
  BY <1>1, <1>2, Zenon

LEMMA Multiples ==
  ASSUME NEW m \in Nat, NEW k \in Nat, NEW s \in Nat, k < s
  PROVE  k * m \in Nat /\ s * m \in Nat /\ k * m + m <= s * m
<1>1. PICK e \in Nat : s = (k + 1) + e
  BY s = (k + 1) + (s - (k + 1)) /\ s - (k + 1) \in Nat
<1>2. s * m = (k * m + m) + e * m /\ e * m \in Nat /\ k * m \in Nat
  BY <1>1
<1> QED
  BY <1>2

LEMMA KeepPasted ==
  ASSUME NEW n, NEW buf \in Buffer(n), NEW start
  PROVE  Paste(buf, start, Keep) = buf
<1>1. DOMAIN Keep = {}
  BY DEF Keep
<1> QED
  BY <1>1 DEF Paste, Buffer

(* The bytes of a paste. *)
LEMMA PastedByte ==
  ASSUME NEW n \in Nat, NEW buf \in Buffer(n), NEW start \in Nat, NEW len \in Nat, NEW bytes,
         DOMAIN bytes = 0 .. len - 1, NEW i \in 0 .. n - 1
  PROVE  Paste(buf, start, bytes)[i] =
           IF start <= i /\ i < start + len THEN bytes[i - start] ELSE buf[i]
<1>1. i \in DOMAIN buf
  BY DEF Buffer
<1>2. Paste(buf, start, bytes)[i] =
        IF i >= start /\ i - start \in DOMAIN bytes THEN bytes[i - start] ELSE buf[i]
  BY <1>1 DEF Paste
<1>3. (i >= start /\ i - start \in DOMAIN bytes) <=> (start <= i /\ i < start + len)
  OBVIOUS
<1> QED
  BY <1>2, <1>3

(* Every step's code is the one that its data has. *)
StepCoded(T, data, oob, s) ==
  \A x \in 0 .. CODE - 1 :
    T[oob.span][oob.start + s * CODE + x] = calculate[Slice(T[data.span], data.start + s * STEP, STEP)][x]

Coded(T, data, oob, n) == \A s \in Nat : s < n => StepCoded(T, data, oob, s)

LEMMA EncodeSteps ==
  ASSUME NEW p, Filled(p), NEW spans, Buffers(p, spans), NEW data, NEW oob, Ranges(p, data, oob),
         data.span # oob.span, NEW n \in Nat, StepsInside(p, data, oob, n)
  PROVE  LET r == Steps("encode", spans, data, oob, n)
         IN /\ CodecResult(p, r) /\ r.stat = "ok"
            /\ \A z \in Spans(p) : z # oob.span => r.spans[z] = spans[z]
            /\ Coded(r.spans, data, oob, n)
<1>10. PICK f : Trace(f, "encode", spans, data, oob, n)
  BY StepsTrace
<1>1. /\ f[0] = [spans |-> spans, stat |-> "ok"]
      /\ \A s \in Nat : s + 1 <= n => f[s + 1] = Round("encode", f[s], data, oob, s)
      /\ Steps("encode", spans, data, oob, n) = f[n]
  BY <1>10 DEF Trace
<1> DEFINE Same(s) == \A z \in Spans(p) : z # oob.span => f[s].spans[z] = spans[z]
           Good(s) == CodecResult(p, f[s]) /\ f[s].stat = "ok" /\ Same(s) /\ Coded(f[s].spans, data, oob, s)
           T == {s \in Nat : s <= n => Good(s)}
<1>2. Good(0)
  BY <1>1 DEF CodecResult, Coded
<1>3. ASSUME NEW s \in Nat, s + 1 <= n, Good(s) PROVE Good(s + 1)
  <2> DEFINE d == data.start + s * STEP
             o == oob.start + s * CODE
             old == f[s].spans
             new == f[s + 1].spans
             x == Slice(old[data.span], d, STEP)
             y == Slice(old[oob.span], o, CODE)
             no == SpanLen(p, oob.span)
             r == HammingStep("encode", x, y)
  <2>1. f[s + 1] = Round("encode", f[s], data, oob, s)
    BY <1>1, <1>3
  <2>2. StepsInside(p, data, oob, s + 1)
    BY <1>3, StepsInsideFewer
  <2>3. r.data = Keep /\ r.code = calculate[x] /\ r.stat = "ok"
    BY DEF HammingStep
  <2>4. CodecResult(p, f[s]) /\ f[s].stat = "ok"
    BY <1>3
  <2> HIDE DEF Good
  <2>5. /\ x \in Chunk /\ y \in Code
        /\ d \in Nat /\ o \in Nat /\ d + STEP <= SpanLen(p, data.span) /\ o + CODE <= no
        /\ f[s + 1].stat = "ok"
        /\ new[data.span] = Paste(old[data.span], d, Keep)
        /\ new[oob.span] = Paste(old[oob.span], o, calculate[x])
        /\ \A z \in Spans(p) : z \notin {data.span, oob.span} => new[z] = old[z]
    <3>0. RoundDone(p, "encode", f[s], f[s + 1], data, oob, s)
      BY <2>1, <2>2, <2>4, RoundRuns
    <3>1. /\ x \in Chunk /\ y \in Code
          /\ d \in Nat /\ o \in Nat /\ d + STEP <= SpanLen(p, data.span) /\ o + CODE <= no
          /\ f[s + 1].stat = r.stat
          /\ new[data.span] = Paste(old[data.span], d, r.data)
          /\ new[oob.span] = Paste(old[oob.span], o, r.code)
          /\ \A z \in Spans(p) : z \notin {data.span, oob.span} => new[z] = old[z]
      BY <3>0 DEF RoundDone
    <3> HIDE DEF r
    <3> QED
      BY <2>3, <3>1
  <2>6. CodecResult(p, f[s + 1])
    BY <2>1, <2>4, RoundType
  <2>7. old[data.span] \in Buffer(SpanLen(p, data.span)) /\ old[oob.span] \in Buffer(no) /\ no \in Nat
    BY <2>4 DEF CodecResult, Buffers, Ranges, Filled
  <2>8. new[data.span] = old[data.span]
    BY <2>5, <2>7, KeepPasted
  <2>9. Same(s + 1)
    <3>1. Same(s)
      BY <1>3 DEF Good
    <3> QED
      BY <2>5, <2>8, <3>1
  <2>10. CODE \in Nat /\ DOMAIN calculate[x] = 0 .. CODE - 1 /\ oob.start \in Nat
    BY <2>5, StepPositive, CalculateType DEF Code, Ranges, RangeTyped
  <2> HIDE DEF x, d
  <2>11. \A i \in 0 .. no - 1 : new[oob.span][i] = IF o <= i /\ i < o + CODE THEN calculate[x][i - o] ELSE old[oob.span][i]
    <3> HIDE DEF no, old, new, o
    <3> QED
      BY <2>5, <2>7, <2>10, PastedByte
  <2>12. Coded(new, data, oob, s + 1)
    <3> SUFFICES ASSUME NEW k \in Nat, k < s + 1, NEW i \in 0 .. CODE - 1
                 PROVE  new[oob.span][oob.start + k * CODE + i]
                          = calculate[Slice(new[data.span], data.start + k * STEP, STEP)][i]
      BY DEF Coded, StepCoded
    <3> DEFINE a == oob.start + k * CODE + i
    <3>1. CASE k = s
      <4>1. a = o + i /\ a \in 0 .. no - 1 /\ o <= a /\ a < o + CODE /\ a - o = i
        BY <2>5, <2>7, <2>10, <3>1
      <4>2. new[oob.span][a] = calculate[x][i]
        BY <2>11, <4>1
      <4> QED
        BY <2>8, <3>1, <4>2 DEF x, d
    <3>2. CASE k # s
      <4>1. k < s
        BY <3>2
      <4>2. k * CODE \in Nat /\ s * CODE \in Nat /\ k * CODE + CODE <= s * CODE
        BY <2>10, <4>1, Multiples
      <4>3. a \in Nat /\ a < o /\ a < no
        <5> DEFINE kc == k * CODE
                   sc == s * CODE
        <5>1. kc \in Nat /\ sc \in Nat /\ kc + CODE <= sc /\ a = oob.start + kc + i /\ o = oob.start + sc
          BY <4>2
        <5>2. no \in Nat /\ CODE \in Nat /\ oob.start \in Nat /\ o + CODE <= no
          BY <2>5, <2>7, <2>10
        <5> HIDE DEF a, o, kc, sc, no
        <5> QED
          BY <5>1, <5>2
      <4> HIDE DEF a, no, o
      <4>4. new[oob.span][a] = old[oob.span][a]
        BY <2>5, <2>7, <2>10, <2>11, <4>3
      <4> USE DEF a
      <4>5. StepCoded(old, data, oob, k)
        BY <1>3, <4>1 DEF Good, Coded
      <4> QED
        BY <2>8, <4>4, <4>5 DEF StepCoded
    <3> QED
      BY <3>1, <3>2
  <2> QED
    BY <2>5, <2>6, <2>9, <2>12 DEF Good
<1>4. \A s \in Nat : s \in T
  <2>1. 0 \in T
    BY <1>2
  <2>2. ASSUME NEW s \in Nat, s \in T PROVE s + 1 \in T
    <3> SUFFICES ASSUME s + 1 <= n PROVE Good(s + 1)
      OBVIOUS
    <3>1. s <= n
      OBVIOUS
    <3>2. Good(s)
      BY <2>2, <3>1
    <3> HIDE DEF Good
    <3> QED
      BY <1>3, <3>2
  <2> HIDE DEF T
  <2> QED
    BY <2>1, <2>2, Induction
<1>5. Good(n)
  <2> HIDE DEF Good
  <2> QED
    BY <1>4
<1> QED
  BY <1>1, <1>5

(* A byte of the buffers R that is not the one of T. *)
Wrong(p, R, T, z, x) == z \in Spans(p) /\ x \in 0 .. SpanLen(p, z) - 1 /\ R[z][x] # T[z][x]

OneWrong(p, R, T) ==
  \A y, z : \A w, x : Wrong(p, R, T, y, w) /\ Wrong(p, R, T, z, x) => y = z /\ w = x

(* What is read of a step differs from what was encoded in at most one bit. *)
LEMMA NearStep ==
  ASSUME NEW p, Filled(p), NEW R, NEW T, Buffers(p, R), Buffers(p, T), OneWrong(p, R, T),
         NEW data, NEW oob, Ranges(p, data, oob), data.span # oob.span, NEW s \in Nat, StepCoded(T, data, oob, s),
         NEW d \in Nat, NEW o \in Nat, d = data.start + s * STEP, o = oob.start + s * CODE,
         d + STEP <= SpanLen(p, data.span), o + CODE <= SpanLen(p, oob.span)
  PROVE  /\ Slice(T[data.span], d, STEP) \in Chunk
         /\ StepNear(Slice(T[data.span], d, STEP), Slice(R[data.span], d, STEP), Slice(R[oob.span], o, CODE))
<1> DEFINE x == Slice(T[data.span], d, STEP)
           y == Slice(R[data.span], d, STEP)
           c == Slice(R[oob.span], o, CODE)
           e == Slice(T[oob.span], o, CODE)
           nd == SpanLen(p, data.span)
           no == SpanLen(p, oob.span)
<1>1. STEP \in Nat /\ CODE \in Nat /\ nd \in Nat /\ no \in Nat /\ data.span \in Spans(p) /\ oob.span \in Spans(p)
  BY StepPositive DEF Ranges, Filled
<1>2. /\ T[data.span] \in Buffer(nd) /\ R[data.span] \in Buffer(nd)
      /\ T[oob.span] \in Buffer(no) /\ R[oob.span] \in Buffer(no)
  BY <1>1 DEF Buffers
<1>3. x \in Chunk /\ y \in Chunk /\ c \in Code /\ e \in Code
  <2>1. ~Outside(T[data.span], d, STEP) /\ ~Outside(R[data.span], d, STEP)
    <3> HIDE DEF nd, no
    <3> QED
      BY <1>1, <1>2, InsideBuffer DEF nd
  <2>2. ~Outside(T[oob.span], o, CODE) /\ ~Outside(R[oob.span], o, CODE)
    <3> HIDE DEF nd, no
    <3> QED
      BY <1>1, <1>2, InsideBuffer DEF no
  <2>3. x \in Buffer(STEP) /\ y \in Buffer(STEP)
    BY <1>1, <1>2, <2>1, SliceType
  <2>4. c \in Buffer(CODE) /\ e \in Buffer(CODE)
    BY <1>1, <1>2, <2>2, SliceType
  <2> QED
    BY <2>3, <2>4 DEF Chunk, Code, Buffer
<1>4. e = calculate[x]
  <2>1. calculate[x] \in Code
    BY <1>3, CalculateType
  <2>2. \A i \in 0 .. CODE - 1 : e[i] = calculate[x][i]
    <3> HIDE DEF x
    <3> SUFFICES ASSUME NEW i \in 0 .. CODE - 1 PROVE e[i] = calculate[x][i]
      OBVIOUS
    <3>1. e[i] = T[oob.span][o + i]
      BY DEF Slice
    <3> QED
      BY <3>1 DEF StepCoded, x
  <2> QED
    BY <1>3, <2>1, <2>2, SameCode
<1>5. ASSUME NEW i \in 0 .. STEP - 1, x[i] # y[i]
      PROVE  d + i \in Nat /\ Wrong(p, R, T, data.span, d + i)
  <2>1. x[i] = T[data.span][d + i] /\ y[i] = R[data.span][d + i]
    BY DEF Slice
  <2>2. d + i \in 0 .. SpanLen(p, data.span) - 1
    BY <1>1
  <2> QED
    BY <1>1, <1>5, <2>1, <2>2 DEF Wrong
<1>6. ASSUME NEW i \in 0 .. CODE - 1, c[i] # e[i]
      PROVE  o + i \in Nat /\ Wrong(p, R, T, oob.span, o + i)
  <2>1. e[i] = T[oob.span][o + i] /\ c[i] = R[oob.span][o + i]
    BY DEF Slice
  <2>2. o + i \in 0 .. SpanLen(p, oob.span) - 1
    BY <1>1
  <2> QED
    BY <1>1, <1>6, <2>1, <2>2 DEF Wrong
<1> HIDE DEF x, y, c, e
<1>7. CASE \E i \in 0 .. STEP - 1 : x[i] # y[i]
  <2>1. PICK i \in 0 .. STEP - 1 : x[i] # y[i]
    BY <1>7
  <2>2. Wrong(p, R, T, data.span, d + i)
    BY <1>5, <2>1
  <2>3. ASSUME NEW k \in 0 .. STEP - 1, k # i PROVE x[k] = y[k]
    <3>1. Wrong(p, R, T, data.span, d + k) => d + k = d + i
      BY <2>2, Zenon DEF OneWrong
    <3> QED
      BY <1>1, <1>5, <2>3, <3>1
  <2>4. ASSUME NEW k \in 0 .. CODE - 1 PROVE c[k] = e[k]
    <3>1. Wrong(p, R, T, oob.span, o + k) => data.span = oob.span
      BY <2>2, Zenon DEF OneWrong
    <3> QED
      BY <1>6, <3>1
  <2>5. c = e
    BY <1>3, <2>4, SameCode
  <2> QED
    BY <1>3, <1>4, <2>1, <2>3, <2>5 DEF StepNear, OneBitOff, x, y, c
<1>8. CASE \A i \in 0 .. STEP - 1 : x[i] = y[i]
  <2>1. x = y
    BY <1>3, <1>8, SameChunk
  <2>2. CASE \A i \in 0 .. CODE - 1 : c[i] = e[i]
    <3>1. c = e
      BY <1>3, <2>2, SameCode
    <3> QED
      BY <1>3, <1>4, <2>1, <3>1 DEF StepNear, x, y, c
  <2>3. CASE \E i \in 0 .. CODE - 1 : c[i] # e[i]
    <3>1. PICK i \in 0 .. CODE - 1 : c[i] # e[i]
      BY <2>3
    <3>2. Wrong(p, R, T, oob.span, o + i)
      BY <1>6, <3>1
    <3>3. ASSUME NEW k \in 0 .. CODE - 1, k # i PROVE c[k] = e[k]
      <4>1. Wrong(p, R, T, oob.span, o + k) => o + k = o + i
        BY <3>2, Zenon DEF OneWrong
      <4> QED
        BY <1>1, <1>6, <3>3, <4>1
    <3> QED
      BY <1>3, <1>4, <2>1, <3>1, <3>3 DEF StepNear, OneBitOff, x, y, c
  <2> QED
    BY <2>2, <2>3
<1> QED
  BY <1>7, <1>8

LEMMA FewerWrong ==
  ASSUME NEW p, NEW R, NEW T, NEW S, NEW U, OneWrong(p, R, T),
         \A z : \A x : Wrong(p, S, U, z, x) => Wrong(p, R, T, z, x)
  PROVE  OneWrong(p, S, U)
<1> SUFFICES ASSUME NEW y, NEW z, NEW w, NEW x, Wrong(p, S, U, y, w), Wrong(p, S, U, z, x)
             PROVE  y = z /\ w = x
  BY Zenon DEF OneWrong
<1>1. Wrong(p, R, T, y, w) /\ Wrong(p, R, T, z, x)
  OBVIOUS
<1> QED
  BY <1>1, Zenon DEF OneWrong

(* The buffers S are as right as R, and right from a up to b in one span.   *)
Mends(p, R, S, T, span, a, b) ==
  \A z : \A x : Wrong(p, S, T, z, x) => Wrong(p, R, T, z, x) /\ (z = span => x < a \/ b <= x)

(* One step of hamming_decode: nothing gets wrong, and its data is right. *)
LEMMA DecodeStep ==
  ASSUME NEW p, Filled(p), NEW acc, CodecResult(p, acc), NEW T, Buffers(p, T), OneWrong(p, acc.spans, T),
         NEW data, NEW oob, Ranges(p, data, oob), data.span # oob.span, NEW s \in Nat, StepCoded(T, data, oob, s),
         NEW new, RoundDone(p, "decode", acc, new, data, oob, s), NEW d, d = data.start + s * STEP
  PROVE  new.stat = "ok" /\ Mends(p, acc.spans, new.spans, T, data.span, d, d + STEP)
<1> DEFINE o == oob.start + s * CODE
           D == acc.spans[data.span]
           O == acc.spans[oob.span]
           nd == SpanLen(p, data.span)
           no == SpanLen(p, oob.span)
           y == Slice(D, d, STEP)
           c == Slice(O, o, CODE)
           r == HammingStep("decode", y, c)
           t == Slice(T[data.span], d, STEP)
<1>1. /\ y \in Chunk /\ c \in Code
      /\ d \in Nat /\ o \in Nat /\ d + STEP <= nd /\ o + CODE <= no
      /\ new.stat = r.stat
      /\ new.spans[data.span] = Paste(D, d, r.data)
      /\ new.spans[oob.span] = Paste(O, o, r.code)
      /\ \A z \in Spans(p) : z \notin {data.span, oob.span} => new.spans[z] = acc.spans[z]
  BY DEF RoundDone
<1>2. /\ STEP \in Nat /\ CODE \in Nat /\ nd \in Nat /\ no \in Nat /\ data.span \in Spans(p) /\ oob.span \in Spans(p)
      /\ Buffers(p, acc.spans) /\ D \in Buffer(nd) /\ O \in Buffer(no)
  BY StepPositive DEF Ranges, Filled, CodecResult, Buffers
<1>3. t \in Chunk /\ StepNear(t, y, c)
  <2> DEFINE R == acc.spans
  <2>1. d \in Nat /\ o \in Nat /\ d + STEP <= SpanLen(p, data.span) /\ o + CODE <= SpanLen(p, oob.span)
    BY <1>1
  <2>2. Buffers(p, R) /\ OneWrong(p, R, T) /\ d = data.start + s * STEP /\ o = oob.start + s * CODE
    BY <1>2
  <2> HIDE DEF o, R
  <2>3. t \in Chunk /\ StepNear(t, Slice(R[data.span], d, STEP), Slice(R[oob.span], o, CODE))
    BY <2>1, <2>2, NearStep
  <2> QED
    BY <2>3 DEF R
<1>4. r.data = t /\ r.code = Keep /\ r.stat = "ok"
  <2> HIDE DEF t, y, c
  <2>1. correct[y][c] = [data |-> t, stat |-> "ok"]
    BY <1>1, <1>3, StepRepairs
  <2> QED
    BY <2>1 DEF HammingStep
<1> HIDE DEF r
<1>5. new.spans[oob.span] = O
  BY <1>1, <1>2, <1>4, KeepPasted
<1>6. ASSUME NEW i \in 0 .. nd - 1
      PROVE  new.spans[data.span][i] = IF d <= i /\ i < d + STEP THEN T[data.span][i] ELSE D[i]
  <2>1. DOMAIN t = 0 .. STEP - 1
    BY DEF Slice
  <2>2. d \in Nat /\ STEP \in Nat /\ nd \in Nat /\ D \in Buffer(nd) /\ new.spans[data.span] = Paste(D, d, t)
    BY <1>1, <1>2, <1>4
  <2>3. d <= i /\ i < d + STEP => t[i - d] = T[data.span][i]
    <3> HIDE DEF nd
    <3>1. d <= i /\ i < d + STEP => i - d \in 0 .. STEP - 1 /\ d + (i - d) = i
      BY <2>2
    <3> QED
      BY <3>1 DEF Slice
  <2> HIDE DEF nd, D, t
  <2>4. Paste(D, d, t)[i] = IF d <= i /\ i < d + STEP THEN t[i - d] ELSE D[i]
    <3>1. d \in Nat /\ STEP \in Nat /\ nd \in Nat /\ D \in Buffer(nd)
      BY <2>2
    <3>2. i \in DOMAIN D
      BY <3>1 DEF Buffer
    <3>3. Paste(D, d, t)[i] = IF i >= d /\ i - d \in DOMAIN t THEN t[i - d] ELSE D[i]
      BY <3>2 DEF Paste
    <3>4. (i >= d /\ i - d \in DOMAIN t) <=> (d <= i /\ i < d + STEP)
      BY <2>1, <3>1
    <3> QED
      BY <3>3, <3>4, Zenon
  <2>5. new.spans[data.span][i] = Paste(D, d, t)[i]
    BY <2>2, Zenon
  <2> QED
    BY <2>3, <2>4, <2>5, Zenon
<1>7. ASSUME NEW z, NEW x, Wrong(p, new.spans, T, z, x)
      PROVE  Wrong(p, acc.spans, T, z, x) /\ (z = data.span => x < d \/ d + STEP <= x)
  <2>1. z \in Spans(p) /\ x \in 0 .. SpanLen(p, z) - 1 /\ new.spans[z][x] # T[z][x]
    BY <1>7 DEF Wrong
  <2>2. CASE z = data.span
    <3>0. d \in Nat /\ STEP \in Nat /\ nd \in Nat /\ x \in 0 .. nd - 1
      BY <1>1, <1>2, <2>1, <2>2
    <3> HIDE DEF nd
    <3>1. ~(d <= x /\ x < d + STEP) /\ D[x] # T[data.span][x]
      BY <1>6, <2>1, <2>2, <3>0
    <3>2. x < d \/ d + STEP <= x
      BY <3>0, <3>1
    <3> QED
      BY <2>1, <2>2, <3>1, <3>2 DEF Wrong
  <2>3. CASE z # data.span
    <3>1. new.spans[z] = acc.spans[z]
      BY <1>1, <1>5, <2>1, <2>3
    <3> QED
      BY <2>1, <2>3, <3>1 DEF Wrong
  <2> QED
    BY <2>2, <2>3
<1>8. new.stat = "ok"
  BY <1>1, <1>4
<1> QED
  BY <1>7, <1>8 DEF Mends

(* The loop of hamming_decode, over buffers whose code is right but for one *)
(* byte of data or code.                                                   *)
LEMMA DecodeSteps ==
  ASSUME NEW p, Filled(p), NEW spans, Buffers(p, spans), NEW T, Buffers(p, T), OneWrong(p, spans, T),
         NEW data, NEW oob, Ranges(p, data, oob), data.span # oob.span, NEW n \in Nat,
         StepsInside(p, data, oob, n), Coded(T, data, oob, n)
  PROVE  LET r == Steps("decode", spans, data, oob, n)
         IN r.stat = "ok" /\ CodecResult(p, r) /\ Mends(p, spans, r.spans, T, data.span, data.start, data.start + n * STEP)
<1>10. PICK f : Trace(f, "decode", spans, data, oob, n)
  BY StepsTrace
<1>1. /\ f[0] = [spans |-> spans, stat |-> "ok"]
      /\ \A s \in Nat : s + 1 <= n => f[s + 1] = Round("decode", f[s], data, oob, s)
      /\ Steps("decode", spans, data, oob, n) = f[n]
  BY <1>10 DEF Trace
<1>0. STEP \in Nat /\ data.start \in Nat
  BY StepPositive DEF Ranges, RangeTyped
<1> DEFINE Right(s) == \A z : \A x : Wrong(p, f[s].spans, T, z, x) =>
                         /\ Wrong(p, spans, T, z, x)
                         /\ z = data.span => x < data.start \/ data.start + s * STEP <= x
           Good(s) == CodecResult(p, f[s]) /\ f[s].stat = "ok" /\ Right(s)
           S == {s \in Nat : s <= n => Good(s)}
<1>2. Good(0)
  <2>1. CodecResult(p, f[0]) /\ f[0].stat = "ok" /\ f[0].spans = spans
    BY <1>1 DEF CodecResult
  <2>2. \A z : \A x : Wrong(p, spans, T, z, x) => (z = data.span => x < data.start \/ data.start + 0 * STEP <= x)
    <3> SUFFICES ASSUME NEW z, NEW x, Wrong(p, spans, T, z, x), z = data.span
                 PROVE  x < data.start \/ data.start + 0 * STEP <= x
      OBVIOUS
    <3>1. x \in Nat
      BY DEF Wrong, Ranges, Filled
    <3> QED
      BY <1>0, <3>1
  <2> QED
    BY <2>1, <2>2
<1>3. ASSUME NEW s \in Nat, s + 1 <= n, Good(s) PROVE Good(s + 1)
  <2>1. f[s + 1] = Round("decode", f[s], data, oob, s)
    BY <1>1, <1>3
  <2>2. StepsInside(p, data, oob, s + 1)
    BY <1>3, StepsInsideFewer
  <2>3. CodecResult(p, f[s]) /\ f[s].stat = "ok" /\ Right(s)
    BY <1>3
  <2> HIDE DEF Good
  <2>4. RoundDone(p, "decode", f[s], f[s + 1], data, oob, s)
    BY <2>1, <2>2, <2>3, RoundRuns
  <2>5. CodecResult(p, f[s + 1])
    BY <2>1, <2>3, RoundType
  <2>6. \A z : \A x : Wrong(p, f[s].spans, T, z, x) => Wrong(p, spans, T, z, x)
    BY <2>3
  <2>7. OneWrong(p, f[s].spans, T)
    BY <2>6, FewerWrong
  <2>8. StepCoded(T, data, oob, s)
    BY <1>3 DEF Coded
  <2> DEFINE a == data.start
             b == s * STEP
  <2>9. /\ f[s + 1].stat = "ok"
        /\ \A z : \A x : Wrong(p, f[s + 1].spans, T, z, x) =>
              /\ Wrong(p, f[s].spans, T, z, x)
              /\ z = data.span => x < a + b \/ a + b + STEP <= x
    <3> DEFINE d == a + b
    <3>1. d = data.start + s * STEP
      OBVIOUS
    <3> HIDE DEF d
    <3>2. f[s + 1].stat = "ok" /\ Mends(p, f[s].spans, f[s + 1].spans, T, data.span, d, d + STEP)
      BY <2>3, <2>4, <2>7, <2>8, <3>1, DecodeStep
    <3> QED
      BY <3>2 DEF Mends, d
  <2>10. Right(s + 1)
    <3> SUFFICES ASSUME NEW z, NEW x, Wrong(p, f[s + 1].spans, T, z, x)
                 PROVE  Wrong(p, spans, T, z, x) /\ (z = data.span => x < a \/ a + (s + 1) * STEP <= x)
      OBVIOUS
    <3>1. Wrong(p, f[s].spans, T, z, x) /\ (z = data.span => x < a + b \/ a + b + STEP <= x)
      BY <2>9
    <3>2. Wrong(p, spans, T, z, x) /\ (z = data.span => x < a \/ a + b <= x)
      BY <2>3, <3>1
    <3>3. a \in Nat /\ b \in Nat /\ (s + 1) * STEP = b + STEP /\ (z = data.span => x \in Nat)
      BY <1>0, <3>1 DEF Wrong, Ranges, Filled
    <3> DEFINE e == (s + 1) * STEP
    <3> HIDE DEF a, b, e
    <3>4. z = data.span => x < a \/ a + e <= x
      BY <1>0, <3>1, <3>2, <3>3 DEF e
    <3> QED
      BY <3>2, <3>4 DEF e
  <2> QED
    BY <2>5, <2>9, <2>10 DEF Good
<1>4. \A s \in Nat : s \in S
  <2>1. 0 \in S
    BY <1>2
  <2>2. ASSUME NEW s \in Nat, s \in S PROVE s + 1 \in S
    <3> SUFFICES ASSUME s + 1 <= n PROVE Good(s + 1)
      OBVIOUS
    <3>1. s <= n
      OBVIOUS
    <3>2. Good(s)
      BY <2>2, <3>1
    <3> HIDE DEF Good
    <3> QED
      BY <1>3, <3>2
  <2> HIDE DEF S
  <2> QED
    BY <2>1, <2>2, Induction
<1>5. Good(n)
  <2> HIDE DEF Good
  <2> QED
    BY <1>4
<1> QED
  BY <1>1, <1>5 DEF Mends

-----------------------------------------------------------------------------
(* What one codec does *)

LEMMA DivRoundUp ==
  ASSUME NEW n \in Nat
  PROVE  div_round_up(STEP * n, STEP) = n
<1>1. STEP \in Nat \ {0}
  BY StepPositive
<1> DEFINE m == STEP
<1>2. m \in Nat \ {0} /\ m - 1 \in 0 .. m - 1
  BY <1>1
<1> HIDE DEF m
<1>3. (m * n + (m - 1)) \div m = n
  BY <1>2, Remainder
<1>4. m * n + (m - 1) = m * n + m - 1
  BY <1>2
<1> QED
  BY <1>3, <1>4 DEF div_round_up, m

LEMMA BytewiseRuns ==
  ASSUME NEW p, Filled(p), NEW spans, Buffers(p, spans), NEW at, RangeTyped(at), at.span \in Spans(p),
         Inside(p, at, at.length), NEW bytes
  PROVE  LET r == Bytewise(spans, at, bytes)
         IN /\ r.stat = "ok"
            /\ \A z \in Spans(p) : z # at.span => r.spans[z] = spans[z]
            /\ r.spans[at.span] = Paste(spans[at.span], at.start, bytes)
<1> DEFINE n == SpanLen(p, at.span)
           buf == spans[at.span]
<1>1. n \in Nat /\ buf \in Buffer(n) /\ at.start \in Nat /\ at.length \in Nat /\ at.start + at.length <= n
  BY DEF Filled, Buffers, RangeTyped, Inside
<1>2. ~Outside(buf, at.start, at.length)
  <2> HIDE DEF n, buf
  <2> QED
    BY <1>1, InsideBuffer
<1>3. DOMAIN spans = Spans(p)
  BY DEF Buffers
<1> QED
  BY <1>2, <1>3 DEF Bytewise

(* new is old with the bytes of a range exclusive-ored with one bit. *)
XorAt(new, old, at, bit, n) ==
  \A x \in 0 .. n - 1 :
    new[x] = IF at.start <= x /\ x < at.start + at.length THEN XorBit(old[x], bit) ELSE old[x]

XorDone(p, spans, r, at, bit) ==
  /\ r.stat = "ok"
  /\ \A z \in Spans(p) : z # at.span => r.spans[z] = spans[z]
  /\ XorAt(r.spans[at.span], spans[at.span], at, bit, SpanLen(p, at.span))

LEMMA XorRuns ==
  ASSUME NEW p, Filled(p), NEW spans, Buffers(p, spans), NEW at, RangeTyped(at), at.span \in Spans(p),
         Inside(p, at, at.length), NEW bytes, NEW bit, DOMAIN bytes = 0 .. at.length - 1,
         \A i \in 0 .. at.length - 1 : bytes[i] = XorBit(spans[at.span][at.start + i], bit)
  PROVE  XorDone(p, spans, Bytewise(spans, at, bytes), at, bit)
<1> DEFINE n == SpanLen(p, at.span)
           buf == spans[at.span]
           r == Bytewise(spans, at, bytes)
           a == at.start
           l == at.length
<1>1. n \in Nat /\ buf \in Buffer(n) /\ a \in Nat /\ l \in Nat
  BY DEF Filled, Buffers, RangeTyped
<1>2. r.stat = "ok" /\ (\A z \in Spans(p) : z # at.span => r.spans[z] = spans[z]) /\ r.spans[at.span] = Paste(buf, a, bytes)
  BY BytewiseRuns
<1> HIDE DEF r
<1>3. ASSUME NEW x \in 0 .. n - 1
      PROVE  r.spans[at.span][x] = IF a <= x /\ x < a + l THEN XorBit(buf[x], bit) ELSE buf[x]
  <2>1. DOMAIN bytes = 0 .. l - 1 /\ x \in 0 .. n - 1
    BY <1>3
  <2>2. a <= x /\ x < a + l => bytes[x - a] = XorBit(buf[x], bit)
    <3>1. a <= x /\ x < a + l => x - a \in 0 .. l - 1 /\ a + (x - a) = x
      <4> HIDE DEF a, l, n
      <4> QED
        BY <1>1
    <3> QED
      BY <3>1
  <2> HIDE DEF n, buf, a, l
  <2>3. Paste(buf, a, bytes)[x] = IF a <= x /\ x < a + l THEN bytes[x - a] ELSE buf[x]
    <3>1. x \in DOMAIN buf
      BY <1>1, <2>1 DEF Buffer
    <3>2. Paste(buf, a, bytes)[x] = IF x >= a /\ x - a \in DOMAIN bytes THEN bytes[x - a] ELSE buf[x]
      BY <3>1 DEF Paste
    <3>3. x \in Int /\ a \in Int /\ l \in Int
      BY <1>1, <2>1
    <3>4. (x >= a /\ x - a \in 0 .. l - 1) <=> (a <= x /\ x < a + l)
      BY <3>3
    <3> QED
      BY <2>1, <3>2, <3>4
  <2> QED
    BY <1>2, <2>2, <2>3
<1>4. XorAt(r.spans[at.span], buf, at, bit, n)
  BY <1>3 DEF XorAt
<1> QED
  BY <1>2, <1>4 DEF r, XorDone

(* The byte of a one-byte mask. *)
MaskBit(c, mask) == mask[c.codec.name][1]

LEMMA XorWriteRuns ==
  ASSUME NEW p, Filled(p), NEW spans, Buffers(p, spans), NEW c, WriteReady(p, c), c.codec.type = "xor",
         NEW mask, MaskFor(c, mask), c.codec.size = 1, WriteInside(p, c)
  PROVE  XorDone(p, spans, on_write(spans, c, mask), c.dest, MaskBit(c, mask))
<1> DEFINE m == mask[c.codec.name]
           old == Slice(spans[c.dest.span], c.dest.start, c.dest.length)
           bytes == [i \in DOMAIN old |-> XorBit(old[i], m[(i % Len(m)) + 1])]
<1>1. on_write(spans, c, mask) = Bytewise(spans, c.dest, bytes)
  BY DEF on_write, xor_write
<1>2. RangeTyped(c.dest) /\ c.dest.span \in Spans(p) /\ Inside(p, c.dest, c.dest.length) /\ c.dest.length \in Nat
  BY DEF WriteReady, add_pipeline_write_codec, WriteInside, RangeTyped
<1>3. Len(m) = 1
  <2>1. m \in [1 .. 1 -> Bit]
    BY DEF MaskFor
  <2> HIDE DEF m
  <2> QED
    BY <2>1
<1>4. DOMAIN old = 0 .. c.dest.length - 1
  BY DEF Slice
<1>5. ASSUME NEW i \in 0 .. c.dest.length - 1
      PROVE  bytes[i] = XorBit(spans[c.dest.span][c.dest.start + i], MaskBit(c, mask))
  <2>1. i \in Nat /\ (i % 1) + 1 = 1
    BY <1>2
  <2>2. old[i] = spans[c.dest.span][c.dest.start + i]
    BY DEF Slice
  <2> QED
    BY <1>3, <1>4, <2>1, <2>2 DEF MaskBit
<1>6. DOMAIN bytes = 0 .. c.dest.length - 1
  BY <1>4
<1> HIDE DEF bytes
<1> QED
  BY <1>1, <1>2, <1>5, <1>6, XorRuns

LEMMA XorReadRuns ==
  ASSUME NEW p, Filled(p), NEW spans, Buffers(p, spans), NEW c, ReadReady(p, c), c.codec.type = "xor",
         NEW mask, ReadInside(p, c)
  PROVE  XorDone(p, spans, on_read(spans, c, mask), c.data, MaskBit(c, mask))
<1> DEFINE old == Slice(spans[c.data.span], c.data.start, c.data.length)
           bytes == [i \in DOMAIN old |-> XorBit(old[i], mask[c.codec.name][1])]
<1>1. on_read(spans, c, mask) = Bytewise(spans, c.data, bytes)
  BY DEF on_read, xor_read
<1>2. RangeTyped(c.data) /\ c.data.span \in Spans(p) /\ Inside(p, c.data, c.data.length)
  BY DEF ReadReady, add_pipeline_read_codec, ReadInside
<1>4. DOMAIN old = 0 .. c.data.length - 1
  BY DEF Slice
<1>5. ASSUME NEW i \in 0 .. c.data.length - 1
      PROVE  bytes[i] = XorBit(spans[c.data.span][c.data.start + i], MaskBit(c, mask))
  <2>1. old[i] = spans[c.data.span][c.data.start + i]
    BY DEF Slice
  <2> QED
    BY <1>4, <2>1 DEF MaskBit
<1>6. DOMAIN bytes = 0 .. c.data.length - 1
  BY <1>4
<1> HIDE DEF bytes
<1> QED
  BY <1>1, <1>2, <1>5, <1>6, XorRuns

(* A write codec changes nothing but the span of its destination. *)
LEMMA WriteRuns ==
  ASSUME NEW p, Filled(p), NEW spans, Buffers(p, spans), NEW c, WriteReady(p, c), NEW mask, MaskFor(c, mask),
         WriteInside(p, c), c.codec.type = "hamming" => c.src.span # c.dest.span
  PROVE  \A z \in Spans(p) : z # c.dest.span => on_write(spans, c, mask).spans[z] = spans[z]
<1>1. RangeTyped(c.dest) /\ c.dest.span \in Spans(p)
  BY DEF WriteReady, add_pipeline_write_codec
<1>2. ASSUME NEW bytes, c.codec.type # "hamming"
      PROVE  \A z \in Spans(p) : z # c.dest.span => Bytewise(spans, c.dest, bytes).spans[z] = spans[z]
  <2>1. Inside(p, c.dest, c.dest.length)
    BY <1>2 DEF WriteInside
  <2> QED
    BY <1>1, <2>1, BytewiseRuns
<1>3. CASE c.codec.type = "xor"
  <2> DEFINE m == mask[c.codec.name]
             old == Slice(spans[c.dest.span], c.dest.start, c.dest.length)
             bytes == [i \in DOMAIN old |-> XorBit(old[i], m[(i % Len(m)) + 1])]
  <2>1. on_write(spans, c, mask) = Bytewise(spans, c.dest, bytes)
    BY <1>3 DEF on_write, xor_write
  <2> HIDE DEF bytes
  <2> QED
    BY <1>2, <1>3, <2>1
<1>4. CASE c.codec.type = "memset"
  <2> DEFINE bytes == [i \in 0 .. c.dest.length - 1 |-> c.codec.byte_pattern]
  <2>1. on_write(spans, c, mask) = Bytewise(spans, c.dest, bytes)
    BY <1>4 DEF on_write, memset_write
  <2> HIDE DEF bytes
  <2> QED
    BY <1>2, <1>4, <2>1
<1>5. CASE c.codec.type = "hamming"
  <2> DEFINE n == div_round_up(c.src.length, STEP)
  <2>1. Ranges(p, c.src, c.dest)
    BY <1>1, <1>5 DEF WriteReady, add_pipeline_write_codec, needs_source_span, Ranges
  <2>2. n \in Nat
    BY <2>1, RoundedUp DEF Ranges, RangeTyped
  <2>3. on_write(spans, c, mask) = Steps("encode", spans, c.src, c.dest, n)
    BY <1>5 DEF on_write, hamming_encode
  <2>4. StepsInside(p, c.src, c.dest, n) /\ c.src.span # c.dest.span
    BY <1>5 DEF WriteInside, Inside, StepsInside
  <2> HIDE DEF n
  <2> QED
    BY <2>1, <2>2, <2>3, <2>4, EncodeSteps
<1>6. c.codec.type \in {"xor", "memset", "hamming"}
  BY DEF WriteReady, CodecTyped
<1> QED
  BY <1>3, <1>4, <1>5, <1>6

-----------------------------------------------------------------------------
(* What writing leaves behind *)

(* The buffers before, between and after the write codecs. *)
Written(p, W, mask, n) ==
  /\ \A k \in 0 .. n : Buffers(p, W[k])
  /\ \A k \in 1 .. n : W[k] = on_write(W[k - 1], p.writeCodecs[k], mask).spans

History(p, W, mask) ==
  /\ Ready(p) /\ InRange(p) /\ OwnSpans(p)
  /\ \A k \in DOMAIN p.writeCodecs : MaskFor(p.writeCodecs[k], mask)
  /\ Written(p, W, mask, Len(p.writeCodecs))

LEMMA HistoryStep ==
  ASSUME NEW p, NEW W, NEW mask, History(p, W, mask), NEW k \in 1 .. Len(p.writeCodecs)
  PROVE  LET c == p.writeCodecs[k]
         IN /\ k \in DOMAIN p.writeCodecs /\ k - 1 \in 0 .. Len(p.writeCodecs)
            /\ Buffers(p, W[k - 1]) /\ Buffers(p, W[k]) /\ W[k] = on_write(W[k - 1], c, mask).spans
            /\ Filled(p) /\ WriteReady(p, c) /\ MaskFor(c, mask) /\ WriteInside(p, c)
            /\ c.codec.type = "hamming" => c.src.span # c.dest.span
            /\ \A z \in Spans(p) : z # c.dest.span => W[k][z] = W[k - 1][z]
<1> DEFINE c == p.writeCodecs[k]
<1>1. /\ Len(p.writeCodecs) \in Nat /\ k \in DOMAIN p.writeCodecs
      /\ Filled(p) /\ WriteReady(p, c) /\ MaskFor(c, mask)
  BY DEF History, Ready
<1>2. k \in 0 .. Len(p.writeCodecs) /\ k - 1 \in 0 .. Len(p.writeCodecs)
  BY <1>1
<1>3. Buffers(p, W[k - 1]) /\ Buffers(p, W[k]) /\ W[k] = on_write(W[k - 1], c, mask).spans
  BY <1>2 DEF History, Written
<1>4. c \in Range(p.writeCodecs)
  BY <1>1 DEF Range
<1>5. WriteInside(p, c)
  BY <1>4 DEF History, InRange, WriteInside
<1>6. c.codec.type = "hamming" => c.src.span # c.dest.span
  <2>1. c.codec.type = "hamming" => c.codec.type # "xor" /\ k <= k
    BY <1>2
  <2> QED
    BY <1>1, <2>1 DEF History, OwnSpans
<1> HIDE DEF c
<1>7. \A z \in Spans(p) : z # c.dest.span => W[k][z] = W[k - 1][z]
  BY <1>1, <1>3, <1>5, <1>6, WriteRuns
<1> QED
  BY <1>1, <1>2, <1>3, <1>5, <1>6, <1>7 DEF c

(* A span that no codec between two writes to keeps its contents. *)
LEMMA Unwritten ==
  ASSUME NEW p, NEW W, NEW mask, History(p, W, mask), NEW z \in Spans(p), NEW a \in Nat
  PROVE  \A b \in Nat :
           a <= b /\ b <= Len(p.writeCodecs) /\ (\A j \in 1 .. b : j > a => p.writeCodecs[j].dest.span # z)
             => W[b][z] = W[a][z]
<1> DEFINE N == Len(p.writeCodecs)
           Free(b) == \A j \in 1 .. b : j > a => p.writeCodecs[j].dest.span # z
           S == {b \in Nat : a <= b /\ b <= N /\ Free(b) => W[b][z] = W[a][z]}
<1>0. N \in Nat
  BY DEF History, Ready
<1> HIDE DEF N
<1>1. 0 \in S
  <2>1. a <= 0 => a = 0
    OBVIOUS
  <2> QED
    BY <2>1
<1>2. ASSUME NEW b \in Nat, b \in S PROVE b + 1 \in S
  <2> SUFFICES ASSUME a <= b + 1, b + 1 <= N, Free(b + 1) PROVE W[b + 1][z] = W[a][z]
    OBVIOUS
  <2>1. CASE a = b + 1
    BY <2>1
  <2>2. CASE a # b + 1
    <3>1. a <= b /\ b <= N /\ b + 1 \in 1 .. N /\ b + 1 > a /\ b + 1 \in 1 .. b + 1 /\ (b + 1) - 1 = b
      BY <1>0, <2>2
    <3>2. Free(b)
      BY \A j \in 1 .. b : j \in 1 .. b + 1
    <3>3. p.writeCodecs[b + 1].dest.span # z
      BY <3>1
    <3>4. W[b + 1][z] = W[b][z]
      <4> DEFINE k == b + 1
      <4>1. k \in 1 .. N /\ k - 1 = b /\ p.writeCodecs[k].dest.span # z
        BY <3>1, <3>3
      <4> HIDE DEF k
      <4>2. W[k][z] = W[k - 1][z]
        BY <4>1, HistoryStep DEF N
      <4> QED
        BY <4>1, <4>2 DEF k
    <3> QED
      BY <1>2, <3>1, <3>2, <3>4
  <2> QED
    BY <2>1, <2>2
<1> HIDE DEF S
<1>3. \A b \in Nat : b \in S
  BY <1>1, <1>2, Induction
<1> QED
  BY <1>3 DEF S, N

(* The spans that hold a code or a pattern of a write codec after number m. *)
Touched(p, m) ==
  {p.writeCodecs[j].dest.span : j \in {j \in DOMAIN p.writeCodecs : j > m /\ p.writeCodecs[j].codec.type # "xor"}}

(* What reading makes of the page that was programmed, once it has undone   *)
(* the write codecs after number m: codes and patterns stay.               *)
Ideal(p, W, m) ==
  [z \in Spans(p) |-> IF z \in Touched(p, m) THEN W[Len(p.writeCodecs)][z] ELSE W[m][z]]

LEMMA TouchedMember ==
  ASSUME NEW p, NEW m, NEW z
  PROVE  z \in Touched(p, m) <=>
           \E j \in DOMAIN p.writeCodecs :
             j > m /\ p.writeCodecs[j].codec.type # "xor" /\ p.writeCodecs[j].dest.span = z
BY DEF Touched

LEMMA OwnSpan ==
  ASSUME NEW p, OwnSpans(p), NEW i \in DOMAIN p.writeCodecs, NEW j \in DOMAIN p.writeCodecs,
         p.writeCodecs[i].codec.type # "xor"
  PROVE  /\ p.writeCodecs[i].dest.span \notin {p.read.data, p.read.oob}
         /\ i # j => p.writeCodecs[i].dest.span # p.writeCodecs[j].dest.span
         /\ j <= i /\ p.writeCodecs[j].codec.type = "hamming" =>
              p.writeCodecs[i].dest.span # p.writeCodecs[j].src.span
BY DEF OwnSpans

LEMMA IdealType ==
  ASSUME NEW p, NEW W, NEW mask, History(p, W, mask), NEW m \in 0 .. Len(p.writeCodecs)
  PROVE  Buffers(p, Ideal(p, W, m))
<1>1. Len(p.writeCodecs) \in 0 .. Len(p.writeCodecs)
  BY DEF History, Ready
<1>2. Buffers(p, W[Len(p.writeCodecs)]) /\ Buffers(p, W[m])
  BY <1>1 DEF History, Written
<1> QED
  BY <1>2 DEF Buffers, Ideal

(* Undoing a code or a pattern: there is nothing to do. *)
LEMMA IdealKept ==
  ASSUME NEW p, NEW W, NEW mask, History(p, W, mask), NEW m \in 0 .. Len(p.writeCodecs), NEW i \in 0 .. m,
         \A j \in 1 .. m : j > i => p.writeCodecs[j].codec.type # "xor"
  PROVE  Ideal(p, W, m) = Ideal(p, W, i)
<1> DEFINE N == Len(p.writeCodecs)
           c == p.writeCodecs
<1>1. N \in Nat /\ m \in Nat /\ i \in Nat /\ i <= m /\ m <= N /\ N <= N /\ DOMAIN c = 1 .. N /\ OwnSpans(p)
  BY DEF History, Ready
<1>2. ASSUME NEW z \in Spans(p)
      PROVE  (IF z \in Touched(p, m) THEN W[N][z] ELSE W[m][z]) = (IF z \in Touched(p, i) THEN W[N][z] ELSE W[i][z])
  <2>1. CASE z \in Touched(p, m)
    <3>1. z \in Touched(p, i)
      <4>1. PICK j \in DOMAIN c : j > m /\ c[j].codec.type # "xor" /\ c[j].dest.span = z
        BY <2>1, TouchedMember
      <4>2. j > i
        BY <1>1, <4>1
      <4> QED
        BY <4>1, <4>2, TouchedMember
    <3> QED
      BY <2>1, <3>1
  <2>2. CASE z \notin Touched(p, m) /\ z \in Touched(p, i)
    <3>1. PICK j \in DOMAIN c : j > i /\ c[j].codec.type # "xor" /\ c[j].dest.span = z
      BY <2>2, TouchedMember
    <3>2. ~(j > m)
      BY <2>2, <3>1, TouchedMember
    <3>3. ASSUME NEW k \in 1 .. N, k > m PROVE c[k].dest.span # z
      <4>1. k # j /\ k \in DOMAIN c
        BY <1>1, <3>2, <3>3
      <4> QED
        BY <1>1, <3>1, <4>1, OwnSpan
    <3>4. W[N][z] = W[m][z]
      <4> HIDE DEF c
      <4> QED
        BY <1>1, <3>3, Unwritten DEF N, c
    <3> QED
      BY <2>2, <3>4
  <2>3. CASE z \notin Touched(p, m) /\ z \notin Touched(p, i)
    <3>1. ASSUME NEW j \in 1 .. m, j > i PROVE c[j].dest.span # z
      <4>1. j \in DOMAIN c
        BY <1>1
      <4> QED
        BY <2>3, <3>1, <4>1, TouchedMember
    <3>2. W[m][z] = W[i][z]
      <4> HIDE DEF c
      <4> QED
        BY <1>1, <3>1, Unwritten DEF N, c
    <3> QED
      BY <2>3, <3>2
  <2> QED
    BY <2>1, <2>2, <2>3
<1> QED
  BY <1>2, Zenon DEF Ideal

(* Nothing is undone yet. *)
LEMMA IdealLast ==
  ASSUME NEW p, NEW W, NEW mask, History(p, W, mask), NEW z \in Spans(p)
  PROVE  Ideal(p, W, Len(p.writeCodecs))[z] = W[Len(p.writeCodecs)][z]
BY DEF Ideal

(* The code of a Hamming codec is valid when reading comes to it. *)
LEMMA IdealCoded ==
  ASSUME NEW p, NEW W, NEW mask, History(p, W, mask), NEW i \in 1 .. Len(p.writeCodecs), NEW n \in Nat,
         p.writeCodecs[i].codec.type = "hamming", p.writeCodecs[i].src.length = STEP * n
  PROVE  LET c == p.writeCodecs[i] IN Coded(Ideal(p, W, i), c.src, c.dest, n)
<1> DEFINE c == p.writeCodecs[i]
           T == Ideal(p, W, i)
<1>1. /\ i \in DOMAIN p.writeCodecs
      /\ Buffers(p, W[i - 1]) /\ Buffers(p, W[i]) /\ W[i] = on_write(W[i - 1], c, mask).spans
      /\ Filled(p) /\ WriteReady(p, c) /\ WriteInside(p, c) /\ c.src.span # c.dest.span
  BY HistoryStep
<1>2. Ranges(p, c.src, c.dest)
  BY <1>1 DEF WriteReady, add_pipeline_write_codec, needs_source_span, Ranges
<1>3. div_round_up(c.src.length, STEP) = n
  BY DivRoundUp
<1>4. on_write(W[i - 1], c, mask) = Steps("encode", W[i - 1], c.src, c.dest, n)
  BY <1>3 DEF on_write, hamming_encode
<1>5. StepsInside(p, c.src, c.dest, n)
  BY <1>1, <1>3 DEF WriteInside, Inside, StepsInside
<1>6. Coded(W[i], c.src, c.dest, n)
  <2> HIDE DEF c
  <2>1. Coded(Steps("encode", W[i - 1], c.src, c.dest, n).spans, c.src, c.dest, n)
    BY <1>1, <1>2, <1>5, EncodeSteps
  <2> QED
    BY <1>1, <1>4, <2>1
<1>7. c.src.span \notin Touched(p, i) /\ c.dest.span \notin Touched(p, i)
  <2> SUFFICES ASSUME NEW j \in DOMAIN p.writeCodecs, j > i, p.writeCodecs[j].codec.type # "xor"
               PROVE  p.writeCodecs[j].dest.span # c.src.span /\ p.writeCodecs[j].dest.span # c.dest.span
    BY TouchedMember
  <2>1. i <= j /\ i # j /\ OwnSpans(p)
    BY DEF History, Ready
  <2> QED
    BY <1>1, <2>1, OwnSpan
<1>8. T[c.src.span] = W[i][c.src.span] /\ T[c.dest.span] = W[i][c.dest.span]
  BY <1>2, <1>7 DEF Ideal, Ranges
<1> HIDE DEF T, c
<1>9. Coded(T, c.src, c.dest, n)
  BY <1>6, <1>8 DEF Coded, StepCoded
<1> QED
  BY <1>9 DEF T, c

-----------------------------------------------------------------------------
(* What reading undoes *)

(* How many write codecs are still to be undone before read codec number k. *)
Level(p, u, k) == IF k = 1 THEN Len(p.writeCodecs) ELSE u[k - 1] - 1

Pairing(p, u) == u \in [DOMAIN p.readCodecs -> DOMAIN p.writeCodecs] /\ InReverse(u, p)

LEMMA LevelType ==
  ASSUME NEW p, Ready(p), NEW u, Pairing(p, u), NEW k \in 1 .. Len(p.readCodecs) + 1
  PROVE  Level(p, u, k) \in 0 .. Len(p.writeCodecs)
<1>1. /\ Len(p.readCodecs) \in Nat /\ DOMAIN p.readCodecs = 1 .. Len(p.readCodecs)
      /\ Len(p.writeCodecs) \in Nat /\ DOMAIN p.writeCodecs = 1 .. Len(p.writeCodecs)
  BY DEF Ready
<1>2. CASE k = 1
  BY <1>1, <1>2 DEF Level
<1>3. CASE k # 1
  <2>1. k - 1 \in DOMAIN p.readCodecs
    BY <1>1, <1>3
  <2>2. u[k - 1] \in 1 .. Len(p.writeCodecs)
    BY <1>1, <2>1 DEF Pairing
  <2> QED
    BY <1>1, <1>3, <2>2 DEF Level
<1> QED
  BY <1>2, <1>3

(* The codecs that reading passes over are memset codecs. *)
LEMMA Between ==
  ASSUME NEW p, Ready(p), NEW u, Pairing(p, u), NEW k \in 1 .. Len(p.readCodecs) + 1,
         NEW j \in 1 .. Level(p, u, k), k \in DOMAIN u => u[k] < j
  PROVE  p.writeCodecs[j].codec.type = "memset"
<1>1. /\ Len(p.readCodecs) \in Nat /\ DOMAIN p.readCodecs = 1 .. Len(p.readCodecs)
      /\ Len(p.writeCodecs) \in Nat /\ DOMAIN p.writeCodecs = 1 .. Len(p.writeCodecs)
      /\ u \in [DOMAIN p.readCodecs -> DOMAIN p.writeCodecs] /\ InReverse(u, p)
  BY DEF Ready, Pairing
<1>2. Level(p, u, k) \in 0 .. Len(p.writeCodecs)
  BY LevelType
<1>3. j \in DOMAIN p.writeCodecs /\ j \in Nat
  BY <1>1, <1>2
<1> SUFFICES ASSUME p.writeCodecs[j].codec.type # "memset" PROVE FALSE
  OBVIOUS
<1>4. PICK l \in DOMAIN u : u[l] = j
  BY <1>1, <1>3 DEF InReverse
<1>5. l \in 1 .. Len(p.readCodecs) /\ DOMAIN u = 1 .. Len(p.readCodecs)
  BY <1>1
<1>6. CASE l < k
  <2>1. k # 1 /\ k - 1 \in DOMAIN u /\ Level(p, u, k) = u[k - 1] - 1 /\ u[k - 1] \in 1 .. Len(p.writeCodecs)
    BY <1>1, <1>5, <1>6 DEF Level
  <2>2. u[k - 1] <= u[l]
    <3>1. l = k - 1 \/ l < k - 1
      <4>1. l \in Int /\ k \in Int /\ l < k
        BY <1>1, <1>5, <1>6
      <4> QED
        BY <4>1
    <3>2. l < k - 1 => u[k - 1] < u[l]
      BY <1>1, <2>1 DEF InReverse
    <3> QED
      BY <1>3, <1>4, <2>1, <3>1, <3>2
  <2> QED
    BY <1>1, <1>3, <1>4, <2>1, <2>2
<1>7. CASE l >= k
  <2>1. k \in DOMAIN u /\ u[k] \in 1 .. Len(p.writeCodecs)
    BY <1>1, <1>5, <1>7
  <2>2. u[l] <= u[k]
    <3>1. l = k \/ k < l
      BY <1>1, <1>5, <1>7
    <3>2. k < l => u[l] < u[k]
      BY <1>1, <2>1 DEF InReverse
    <3> QED
      BY <1>3, <1>4, <2>1, <3>1, <3>2
  <2> QED
    BY <1>1, <1>3, <1>4, <2>1, <2>2
<1> QED
  BY <1>1, <1>5, <1>6, <1>7

LEMMA LevelNext ==
  ASSUME NEW p, Ready(p), NEW u, Pairing(p, u), NEW k \in 1 .. Len(p.readCodecs)
  PROVE  /\ k \in DOMAIN p.readCodecs /\ u[k] \in 1 .. Len(p.writeCodecs) /\ u[k] <= Level(p, u, k)
         /\ Level(p, u, k + 1) = u[k] - 1 /\ k + 1 \in 1 .. Len(p.readCodecs) + 1
         /\ Undoes(p.readCodecs[k], p.writeCodecs[u[k]])
<1>1. /\ Len(p.readCodecs) \in Nat /\ DOMAIN p.readCodecs = 1 .. Len(p.readCodecs)
      /\ Len(p.writeCodecs) \in Nat /\ DOMAIN p.writeCodecs = 1 .. Len(p.writeCodecs)
      /\ u \in [DOMAIN p.readCodecs -> DOMAIN p.writeCodecs] /\ InReverse(u, p)
  BY DEF Ready, Pairing
<1>2. k \in DOMAIN p.readCodecs /\ k \in DOMAIN u /\ u[k] \in 1 .. Len(p.writeCodecs)
  BY <1>1
<1>3. k + 1 # 1 /\ (k + 1) - 1 = k /\ k + 1 \in 1 .. Len(p.readCodecs) + 1
  BY <1>1
<1>4. u[k] <= Level(p, u, k)
  <2>1. CASE k = 1
    BY <1>2, <2>1 DEF Level
  <2>2. CASE k # 1
    <3>1. k - 1 \in DOMAIN u /\ k - 1 < k
      BY <1>1, <2>2
    <3>2. u[k] < u[k - 1] /\ u[k - 1] \in 1 .. Len(p.writeCodecs)
      BY <1>1, <1>2, <3>1 DEF InReverse
    <3> QED
      BY <1>1, <1>2, <2>2, <3>2 DEF Level
  <2> QED
    BY <2>1, <2>2
<1>5. Level(p, u, k + 1) = u[k] - 1
  BY <1>3 DEF Level
<1>6. Undoes(p.readCodecs[k], p.writeCodecs[u[k]])
  BY <1>1, <1>2 DEF InReverse
<1> QED
  BY <1>2, <1>3, <1>4, <1>5, <1>6

LEMMA XorTwice ==
  ASSUME NEW a \in Bit, NEW b \in Bit
  PROVE  XorBit(XorBit(a, b), b) = a
BY DEF XorBit, Bit

(* xor_read undoes xor_write, with a wrong byte where there was one. *)
LEMMA XorUndone ==
  ASSUME NEW p, NEW W, NEW mask, History(p, W, mask), NEW i \in 1 .. Len(p.writeCodecs),
         p.writeCodecs[i].codec.type = "xor", p.writeCodecs[i].codec.size = 1, NEW R, NEW new,
         XorDone(p, R, new, p.writeCodecs[i].dest, MaskBit(p.writeCodecs[i], mask)),
         NEW z, NEW x, Wrong(p, new.spans, Ideal(p, W, i - 1), z, x)
  PROVE  Wrong(p, R, Ideal(p, W, i), z, x)
<1> DEFINE c == p.writeCodecs[i]
           bit == MaskBit(c, mask)
           N == Len(p.writeCodecs)
           s == c.dest.span
<1>1. /\ i \in DOMAIN p.writeCodecs /\ i - 1 \in 0 .. N
      /\ Buffers(p, W[i - 1]) /\ Buffers(p, W[i]) /\ W[i] = on_write(W[i - 1], c, mask).spans
      /\ Filled(p) /\ WriteReady(p, c) /\ MaskFor(c, mask) /\ WriteInside(p, c)
      /\ \A y \in Spans(p) : y # s => W[i][y] = W[i - 1][y]
  BY HistoryStep
<1>2. N \in Nat /\ DOMAIN p.writeCodecs = 1 .. N /\ OwnSpans(p)
  BY DEF History, Ready
<1>3. bit \in Bit
  <2>1. mask[c.codec.name] \in [1 .. 1 -> Bit]
    BY <1>1, Zenon DEF MaskFor
  <2>2. 1 \in 1 .. 1
    OBVIOUS
  <2> QED
    BY <2>1, <2>2, Zenon DEF MaskBit
<1>4. XorAt(W[i][s], W[i - 1][s], c.dest, bit, SpanLen(p, s))
  <2> HIDE DEF c
  <2>1. XorDone(p, W[i - 1], on_write(W[i - 1], c, mask), c.dest, bit)
    BY <1>1, XorWriteRuns DEF c
  <2> QED
    BY <1>1, <2>1 DEF XorDone
<1>5. (\A y \in Spans(p) : y # s => new.spans[y] = R[y]) /\ XorAt(new.spans[s], R[s], c.dest, bit, SpanLen(p, s))
  BY DEF XorDone
<1>6. ASSUME NEW y PROVE y \in Touched(p, i - 1) <=> y \in Touched(p, i)
  <2>1. ASSUME NEW j \in DOMAIN p.writeCodecs, p.writeCodecs[j].codec.type # "xor"
        PROVE  j > i - 1 <=> j > i
    BY <1>2, <2>1
  <2> QED
    BY <2>1, TouchedMember
<1>7. s \notin Touched(p, i)
  <2> SUFFICES ASSUME NEW j \in DOMAIN p.writeCodecs, j > i, p.writeCodecs[j].codec.type # "xor"
               PROVE  p.writeCodecs[j].dest.span # s
    BY TouchedMember
  <2>1. i # j
    BY <1>2
  <2> QED
    BY <1>1, <1>2, <2>1, OwnSpan
<1>8. z \in Spans(p) /\ x \in 0 .. SpanLen(p, z) - 1 /\ new.spans[z][x] # Ideal(p, W, i - 1)[z][x]
  BY DEF Wrong
<1>9. CASE z # s
  <2>1. Ideal(p, W, i - 1)[z] = Ideal(p, W, i)[z]
    BY <1>1, <1>6, <1>8, <1>9 DEF Ideal
  <2> QED
    BY <1>5, <1>8, <1>9, <2>1 DEF Wrong
<1>10. CASE z = s
  <2>1. Ideal(p, W, i - 1)[z] = W[i - 1][s] /\ Ideal(p, W, i)[z] = W[i][s]
    BY <1>6, <1>7, <1>8, <1>10 DEF Ideal
  <2>2. x \in 0 .. SpanLen(p, s) - 1
    BY <1>8, <1>10
  <2>3. W[i - 1][s][x] \in Bit
    BY <1>1, <1>8, <1>10 DEF Buffers, Buffer
  <2>4. R[s][x] # W[i][s][x]
    <3> DEFINE in == c.dest.start <= x /\ x < c.dest.start + c.dest.length
    <3>1. new.spans[s][x] = (IF in THEN XorBit(R[s][x], bit) ELSE R[s][x])
          /\ W[i][s][x] = (IF in THEN XorBit(W[i - 1][s][x], bit) ELSE W[i - 1][s][x])
      BY <1>4, <1>5, <2>2 DEF XorAt
    <3>2. XorBit(XorBit(W[i - 1][s][x], bit), bit) = W[i - 1][s][x]
      BY <1>3, <2>3, XorTwice
    <3>3. new.spans[s][x] # W[i - 1][s][x]
      BY <1>8, <1>10, <2>1
    <3> HIDE DEF in, bit, s
    <3> QED
      BY <3>1, <3>2, <3>3
  <2> QED
    BY <1>8, <1>10, <2>1, <2>4 DEF Wrong
<1> QED
  BY <1>9, <1>10

(* A byte that a Hamming codec will repair, or that no codec needs. *)
Mendable(p, z, x, k) ==
  \E l \in DOMAIN p.readCodecs :
    LET c == p.readCodecs[l]
    IN /\ c.codec.type = "hamming"
       /\ \/ z = c.oob.span
          \/ l >= k /\ z = c.data.span /\ c.data.start <= x /\ x < c.data.start + c.data.length

(* R is T but for one byte at most. *)
Near(p, R, T, k) ==
  OneWrong(p, R, T) /\ \A z : \A x : Wrong(p, R, T, z, x) => Mendable(p, z, x, k)

(* The buffers after a read codec. *)
LEMMA NearNext ==
  ASSUME NEW p, NEW R, NEW T, NEW S, NEW U, NEW k \in Nat, Near(p, R, T, k), DOMAIN p.readCodecs \subseteq Nat,
         \A z : \A x : Wrong(p, S, U, z, x) =>
           /\ Wrong(p, R, T, z, x)
           /\ p.readCodecs[k].codec.type = "hamming" /\ z = p.readCodecs[k].data.span =>
                ~(p.readCodecs[k].data.start <= x /\ x < p.readCodecs[k].data.start + p.readCodecs[k].data.length)
  PROVE  Near(p, S, U, k + 1)
<1>1. OneWrong(p, S, U)
  BY FewerWrong DEF Near
<1>2. ASSUME NEW z, NEW x, Wrong(p, S, U, z, x) PROVE Mendable(p, z, x, k + 1)
  <2>1. Mendable(p, z, x, k)
    BY <1>2 DEF Near
  <2>2. PICK l \in DOMAIN p.readCodecs :
          /\ p.readCodecs[l].codec.type = "hamming"
          /\ \/ z = p.readCodecs[l].oob.span
             \/ /\ l >= k /\ z = p.readCodecs[l].data.span /\ p.readCodecs[l].data.start <= x
                /\ x < p.readCodecs[l].data.start + p.readCodecs[l].data.length
    BY <2>1 DEF Mendable
  <2>3. CASE z = p.readCodecs[l].oob.span
    BY <2>2, <2>3 DEF Mendable
  <2>4. CASE z # p.readCodecs[l].oob.span
    <3>1. l # k
      BY <1>2, <2>2, <2>4
    <3>2. l >= k + 1
      BY <2>2, <2>4, <3>1
    <3> QED
      BY <2>2, <2>4, <3>2 DEF Mendable
  <2> QED
    BY <2>3, <2>4
<1> QED
  BY <1>1, <1>2 DEF Near

(* A codec that reads what a mirrored pipeline wrote. *)
LEMMA ReadStep ==
  ASSUME NEW p, NEW W, NEW mask, History(p, W, mask), NEW u, Pairing(p, u), NEW k \in 1 .. Len(p.readCodecs),
         NEW R, Buffers(p, R), Near(p, R, Ideal(p, W, Level(p, u, k)), k), NEW m,
         p.readCodecs[k].codec.type = "xor" =>
           p.readCodecs[k].codec.size = 1 /\ MaskBit(p.readCodecs[k], m) = MaskBit(p.readCodecs[k], mask)
  PROVE  LET r == on_read(R, p.readCodecs[k], m)
         IN r.stat = "ok" /\ Near(p, r.spans, Ideal(p, W, Level(p, u, k + 1)), k + 1)
<1> DEFINE N == Len(p.writeCodecs)
           c == p.readCodecs[k]
           i == u[k]
           w == p.writeCodecs[i]
           L == Level(p, u, k)
           r == on_read(R, c, m)
<1>1. /\ Ready(p) /\ InRange(p) /\ Filled(p) /\ N \in Nat /\ DOMAIN p.writeCodecs = 1 .. N
      /\ Len(p.readCodecs) \in Nat /\ DOMAIN p.readCodecs = 1 .. Len(p.readCodecs)
  BY DEF History, Ready
<1>2. k \in DOMAIN p.readCodecs /\ i \in 1 .. N /\ i <= L /\ Level(p, u, k + 1) = i - 1 /\ Undoes(c, w)
  BY <1>1, LevelNext
<1>3. L \in 0 .. N
  <2>1. k \in 1 .. Len(p.readCodecs) + 1
    BY <1>1
  <2> QED
    BY <1>1, <2>1, LevelType
<1>4. \A j \in 1 .. L : j > i => p.writeCodecs[j].codec.type = "memset"
  <2>1. k \in 1 .. Len(p.readCodecs) + 1
    BY <1>1
  <2> SUFFICES ASSUME NEW j \in 1 .. L, j > i PROVE p.writeCodecs[j].codec.type = "memset"
    OBVIOUS
  <2>2. i < j
    BY <1>2, <1>3
  <2> QED
    BY <1>1, <2>1, <2>2, Between
<1>5. c \in Range(p.readCodecs) /\ ReadReady(p, c)
  BY <1>1, <1>2 DEF Range, Ready
<1>6. ReadInside(p, c)
  BY <1>1, <1>5 DEF InRange, ReadInside
<1>7. i \in 0 .. L /\ i - 1 \in 0 .. L /\ k \in Nat /\ DOMAIN p.readCodecs \subseteq Nat
  BY <1>1, <1>2, <1>3
<1> HIDE DEF N, c, i, w, L, r
<1>8. CASE c.codec.type = "xor"
  <2>1. w.codec.type = "xor" /\ w.codec.size = 1 /\ c.data = w.dest /\ w.codec = c.codec
    BY <1>2, <1>8 DEF Undoes, c
  <2>2. MaskBit(c, m) = MaskBit(w, mask)
    BY <1>8, <2>1 DEF MaskBit, c
  <2>3. XorDone(p, R, r, w.dest, MaskBit(w, mask))
    <3>1. XorDone(p, R, on_read(R, c, m), c.data, MaskBit(c, m))
      BY <1>1, <1>5, <1>6, <1>8, XorReadRuns
    <3> QED
      BY <2>1, <2>2, <3>1 DEF r
  <2>4. Ideal(p, W, L) = Ideal(p, W, i)
    <3>1. \A j \in 1 .. L : j > i => p.writeCodecs[j].codec.type # "xor"
      BY <1>4
    <3> QED
      BY <1>3, <1>7, <3>1, IdealKept DEF N
  <2>5. ASSUME NEW z, NEW x, Wrong(p, r.spans, Ideal(p, W, i - 1), z, x)
        PROVE  Wrong(p, R, Ideal(p, W, L), z, x)
    <3>1. Wrong(p, R, Ideal(p, W, i), z, x)
      BY <1>2, <2>1, <2>3, <2>5, XorUndone DEF w, N
    <3> QED
      BY <2>4, <3>1
  <2>6. Near(p, r.spans, Ideal(p, W, i - 1), k + 1)
    <3>1. p.readCodecs[k].codec.type # "hamming"
      BY <1>8 DEF c
    <3>2. Near(p, R, Ideal(p, W, L), k)
      BY DEF L
    <3> QED
      BY <1>7, <2>5, <3>1, <3>2, NearNext
  <2>7. r.stat = "ok"
    BY <2>3 DEF XorDone
  <2> QED
    BY <1>2, <2>6, <2>7 DEF r, c
<1>9. CASE c.codec.type # "xor"
  <2> DEFINE n == c.codec.steps
             T == Ideal(p, W, L)
  <2>1. c.codec.type = "hamming" /\ n \in Nat
    BY <1>5, <1>9 DEF ReadReady, CodecTyped, add_pipeline_read_codec, HasReadOps
  <2>2. Ranges(p, c.data, c.oob)
    BY <1>5, <2>1 DEF ReadReady, add_pipeline_read_codec, needs_oob_span, Ranges
  <2>3. w.codec.type = "hamming" /\ c.data = w.src /\ c.oob = w.dest /\ c.data.length = STEP * n /\ w.src.length = STEP * n
    BY <1>2, <1>9, <2>1 DEF Undoes
  <2>4. c.data.span # c.oob.span
    <3>1. w.codec.type = "hamming" => w.src.span # w.dest.span
      BY <1>2, HistoryStep DEF w, N
    <3> QED
      BY <2>3, <3>1
  <2>5. T = Ideal(p, W, i) /\ T = Ideal(p, W, i - 1)
    <3>1. \A j \in 1 .. L : j > i => p.writeCodecs[j].codec.type # "xor"
      BY <1>4
    <3>2. \A j \in 1 .. L : j > i - 1 => p.writeCodecs[j].codec.type # "xor"
      <4> SUFFICES ASSUME NEW j \in 1 .. L, j > i - 1 PROVE p.writeCodecs[j].codec.type # "xor"
        OBVIOUS
      <4>1. j > i \/ j = i
        BY <1>2, <1>3
      <4> QED
        BY <2>3, <3>1, <4>1 DEF w
    <3>3. T = Ideal(p, W, i)
      BY <1>3, <1>7, <3>1, IdealKept DEF N
    <3>4. T = Ideal(p, W, i - 1)
      <4> DEFINE h == i - 1
      <4>1. h \in 0 .. L /\ \A j \in 1 .. L : j > h => p.writeCodecs[j].codec.type # "xor"
        BY <1>7, <3>2
      <4> HIDE DEF h
      <4>2. T = Ideal(p, W, h)
        BY <1>3, <4>1, IdealKept DEF N
      <4> QED
        BY <4>2 DEF h
    <3> QED
      BY <3>3, <3>4
  <2>6. Coded(T, c.data, c.oob, n)
    <3> HIDE DEF n
    <3>1. Coded(Ideal(p, W, i), w.src, w.dest, n)
      BY <1>2, <2>1, <2>3, IdealCoded DEF w, N
    <3> QED
      BY <2>3, <2>5, <3>1
  <2>7. Buffers(p, T) /\ OneWrong(p, R, T)
    <3>1. Buffers(p, T)
      BY <1>3, IdealType DEF N
    <3>2. Near(p, R, T, k)
      BY DEF L
    <3> QED
      BY <3>1, <3>2 DEF Near
  <2>8. r = Steps("decode", R, c.data, c.oob, n)
    BY <1>9 DEF r, on_read, hamming_decode
  <2>9. StepsInside(p, c.data, c.oob, n)
    BY <1>6, <2>1 DEF ReadInside, Inside, StepsInside
  <2> HIDE DEF T, n
  <2>10. r.stat = "ok" /\ Mends(p, R, r.spans, T, c.data.span, c.data.start, c.data.start + n * STEP)
    BY <1>1, <2>1, <2>2, <2>4, <2>6, <2>7, <2>8, <2>9, DecodeSteps
  <2>11. n * STEP = c.data.length /\ c.data.start \in Nat /\ c.data.length \in Nat
    <3>1. STEP \in Nat
      BY StepPositive
    <3> QED
      BY <2>1, <2>2, <2>3, <3>1 DEF Ranges, RangeTyped
  <2>12. ASSUME NEW z, NEW x, Wrong(p, r.spans, T, z, x)
         PROVE  /\ Wrong(p, R, T, z, x)
                /\ z = c.data.span => ~(c.data.start <= x /\ x < c.data.start + c.data.length)
    <3>1. Wrong(p, R, T, z, x) /\ (z = c.data.span => x < c.data.start \/ c.data.start + c.data.length <= x)
      BY <2>10, <2>11, <2>12 DEF Mends
    <3>2. z = c.data.span => x \in Nat
      BY <1>1, <2>2, <2>12 DEF Wrong, Ranges, Filled
    <3> QED
      BY <2>11, <3>1, <3>2
  <2>13. Near(p, r.spans, T, k + 1)
    <3>1. Near(p, R, T, k)
      BY DEF L, T
    <3> QED
      BY <1>7, <2>12, <3>1, NearNext DEF c
  <2> QED
    BY <1>2, <2>5, <2>10, <2>13 DEF r, c
<1> QED
  BY <1>8, <1>9

-----------------------------------------------------------------------------
(* From the spans to the page and back *)

At(q, b) == q.start <= b /\ b < q.start + q.length

Apart(p) == \A q, r \in Range(p.parts) : \A b \in Nat : At(q, b) /\ At(r, b) => q = r

LEMMA PartsApart ==
  ASSUME NEW p, Filled(p), LayoutAccepted(p)
  PROVE  Apart(p)
<1> SUFFICES ASSUME NEW q \in Range(p.parts), NEW r \in Range(p.parts), NEW b \in Nat, At(q, b), At(r, b)
             PROVE  q = r
  BY DEF Apart
<1>1. PICK i \in DOMAIN p.parts : q = p.parts[i]
  BY DEF Range
<1>2. PICK j \in DOMAIN p.parts : r = p.parts[j]
  BY DEF Range
<1>3. i = j \/ q.start + q.length <= r.start \/ r.start + r.length <= q.start
  BY <1>1, <1>2 DEF LayoutAccepted
<1>4. q.start \in Nat /\ q.length \in Nat /\ r.start \in Nat /\ r.length \in Nat
  BY DEF Filled, PartInside
<1> QED
  BY <1>1, <1>2, <1>3, <1>4 DEF At

(* Where a byte of a span is in the page. *)
InPage(q, x) == q.start + x - q.inspan

LEMMA PlaceStored ==
  ASSUME NEW p, Filled(p), Apart(p), NEW z \in Spans(p), NEW x \in 0 .. SpanLen(p, z) - 1
  PROVE  \E q \in Range(p.parts) :
           /\ Holds(q, z, x) /\ InPage(q, x) \in 0 .. PageSize - 1 /\ At(q, InPage(q, x))
           /\ \A raw : extract_raw_page_to_pipeline_page_layout(p, raw)[z][x] = raw[InPage(q, x)]
           /\ \A X : compose_raw_page_from_pipeline_page_layout(p, X)[InPage(q, x)] = X[z][x]
<1> DEFINE q == Holding(p, z, x)
           b == InPage(q, x)
<1>1. SpanLen(p, z) \in Nat /\ x \in Nat /\ x < SpanLen(p, z) /\ PageSize \in Nat
  BY RequestsAssumption DEF Filled
<1>2. q \in Range(p.parts) /\ Holds(q, z, x)
  <2>1. \E r \in Range(p.parts) : r.span = z /\ r.inspan <= x /\ x < r.inspan + r.length
    BY <1>1 DEF Filled, Holds
  <2> QED
    BY <2>1, Zenon DEF Holding, Holds
<1>3. /\ q.start \in Nat /\ q.length \in Nat /\ q.inspan \in Nat
      /\ q.start + q.length <= PageSize
  BY <1>2 DEF Filled, PartInside
<1>4. \A raw : extract_raw_page_to_pipeline_page_layout(p, raw)[z][x] = raw[b]
  BY DEF extract_raw_page_to_pipeline_page_layout, InPage
<1> HIDE DEF q
<1>5. q.span = z /\ b \in Nat /\ b \in 0 .. PageSize - 1 /\ At(q, b) /\ q.inspan + b - q.start = x
  BY <1>1, <1>2, <1>3 DEF Holds, At, InPage
<1> HIDE DEF b
<1>6. \A X : compose_raw_page_from_pipeline_page_layout(p, X)[b] = X[z][x]
  <2> DEFINE s == CHOOSE r \in Range(p.parts) : r.start <= b /\ b < r.start + r.length
  <2>1. \E r \in Range(p.parts) : r.start <= b /\ b < r.start + r.length
    BY <1>2, <1>5 DEF At
  <2>2. s \in Range(p.parts) /\ At(s, b)
    BY <2>1, Zenon DEF At
  <2>3. \A X : compose_raw_page_from_pipeline_page_layout(p, X)[b] = X[s.span][s.inspan + b - s.start]
    BY <1>5, <2>1 DEF compose_raw_page_from_pipeline_page_layout
  <2> HIDE DEF s
  <2>4. s = q
    BY <1>2, <1>5, <2>2 DEF Apart
  <2> QED
    BY <1>5, <2>3, <2>4
<1> QED
  BY <1>2, <1>4, <1>5, <1>6 DEF b

(* The spans that read_process extracts from a page with a decayed bit. *)
LEMMA ExtractedNear ==
  ASSUME NEW p, Ready(p), Apart(p), NEW X, NEW T, \A z \in Spans(p) : T[z] = X[z],
         NEW raw, NEW flipped \in SUBSET (0 .. PageSize - 1), Recoverable(p, flipped),
         \A b \in 0 .. PageSize - 1 :
           b \notin flipped => raw[b] = compose_raw_page_from_pipeline_page_layout(p, X)[b]
  PROVE  Near(p, extract_raw_page_to_pipeline_page_layout(p, raw), T, 1)
<1> DEFINE R == extract_raw_page_to_pipeline_page_layout(p, raw)
<1>1. Filled(p) /\ DOMAIN p.readCodecs = 1 .. Len(p.readCodecs) /\ Len(p.readCodecs) \in Nat /\ PageSize \in Nat
  BY RequestsAssumption DEF Ready
<1>2. ASSUME NEW z, NEW x, Wrong(p, R, T, z, x)
      PROVE  \E q \in Range(p.parts) :
               Holds(q, z, x) /\ InPage(q, x) \in flipped /\ At(q, InPage(q, x)) /\ x \in Nat
  <2>1. z \in Spans(p) /\ x \in 0 .. SpanLen(p, z) - 1 /\ R[z][x] # X[z][x] /\ SpanLen(p, z) \in Nat
    BY <1>1, <1>2 DEF Wrong, Filled
  <2>2. PICK q \in Range(p.parts) :
           /\ Holds(q, z, x) /\ InPage(q, x) \in 0 .. PageSize - 1 /\ At(q, InPage(q, x))
           /\ \A r : extract_raw_page_to_pipeline_page_layout(p, r)[z][x] = r[InPage(q, x)]
           /\ \A Y : compose_raw_page_from_pipeline_page_layout(p, Y)[InPage(q, x)] = Y[z][x]
    BY <1>1, <2>1, PlaceStored
  <2>3. R[z][x] = raw[InPage(q, x)] /\ compose_raw_page_from_pipeline_page_layout(p, X)[InPage(q, x)] = X[z][x]
    BY <2>2
  <2>4. InPage(q, x) \in flipped
    BY <2>1, <2>2, <2>3
  <2> QED
    BY <2>1, <2>2, <2>4
<1> HIDE DEF R
<1>9. \A b \in flipped : b \in Nat
  BY <1>1
<1>3. \A a, b \in flipped : a = b
  <2>1. CASE flipped = {}
    BY <2>1
  <2>2. CASE Cardinality(flipped) = 1
    <3>1. IsFiniteSet(flipped)
      <4>1. IsFiniteSet(0 .. PageSize - 1)
        BY <1>1, FS_Interval
      <4> QED
        BY <4>1, FS_Subset
    <3>2. \E e : flipped = {e}
      BY <2>2, <3>1, FS_Singleton
    <3> QED
      BY <3>2
  <2> QED
    BY <2>1, <2>2 DEF Recoverable
<1>4. \A b \in flipped : Protected(p, b)
  BY DEF Recoverable
<1>5. \A q \in Range(p.parts) : q.start \in Nat /\ q.length \in Nat /\ q.inspan \in Nat
  BY <1>1 DEF Filled, PartInside
<1>6. OneWrong(p, R, T)
  <2> SUFFICES ASSUME NEW y, NEW z, NEW w, NEW x, Wrong(p, R, T, y, w), Wrong(p, R, T, z, x)
               PROVE  y = z /\ w = x
    BY Zenon DEF OneWrong
  <2>1. PICK q \in Range(p.parts) : Holds(q, y, w) /\ InPage(q, w) \in flipped /\ At(q, InPage(q, w)) /\ w \in Nat
    BY <1>2
  <2>2. PICK r \in Range(p.parts) : Holds(r, z, x) /\ InPage(r, x) \in flipped /\ At(r, InPage(r, x)) /\ x \in Nat
    BY <1>2
  <2>3. InPage(q, w) = InPage(r, x) /\ InPage(q, w) \in Nat
    <3>1. InPage(q, w) = InPage(r, x)
      BY <1>3, <2>1, <2>2
    <3> QED
      BY <1>9, <2>1, <3>1
  <2>4. q = r
    BY <2>1, <2>2, <2>3 DEF Apart
  <2> QED
    BY <1>5, <2>1, <2>2, <2>3, <2>4 DEF Holds, InPage
<1>7. ASSUME NEW z, NEW x, Wrong(p, R, T, z, x) PROVE Mendable(p, z, x, 1)
  <2>1. PICK q \in Range(p.parts) : Holds(q, z, x) /\ InPage(q, x) \in flipped /\ At(q, InPage(q, x)) /\ x \in Nat
    BY <1>2, <1>7
  <2> DEFINE b == InPage(q, x)
  <2>2. PICK c \in Range(p.readCodecs) : c.codec.type = "hamming" /\ b \in StoredAt(p, c.data) \cup StoredAt(p, c.oob)
    BY <1>4, <2>1 DEF Protected
  <2>3. PICK l \in DOMAIN p.readCodecs : c = p.readCodecs[l]
    BY DEF Range
  <2>4. ASSUME NEW at, b \in StoredAt(p, at)
        PROVE  z = at.span /\ x \in at.start .. at.start + at.length - 1
    <3>1. PICK r \in Range(p.parts) :
            /\ r.span = at.span /\ r.start <= b /\ b < r.start + r.length
            /\ r.inspan + b - r.start \in at.start .. at.start + at.length - 1
      BY <2>4 DEF StoredAt
    <3>2. b \in Nat
      BY <1>9, <2>1
    <3>3. r = q
      BY <2>1, <3>1, <3>2 DEF Apart, At
    <3>4. q.inspan + b - q.start = x /\ q.span = z
      BY <1>5, <2>1 DEF InPage, Holds
    <3> QED
      BY <3>1, <3>3, <3>4
  <2> HIDE DEF b
  <2>5. ReadReady(p, c) /\ RangeTyped(c.data)
    BY <2>3 DEF Ready, ReadReady
  <2>6. l >= 1
    BY <1>1
  <2>7. CASE b \in StoredAt(p, c.data)
    <3>1. z = c.data.span /\ x \in c.data.start .. c.data.start + c.data.length - 1
      BY <2>4, <2>7
    <3>2. c.data.start <= x /\ x < c.data.start + c.data.length
      BY <2>5, <3>1 DEF RangeTyped
    <3> QED
      BY <2>2, <2>3, <2>6, <3>1, <3>2 DEF Mendable
  <2>8. CASE b \in StoredAt(p, c.oob)
    <3>1. z = c.oob.span
      BY <2>4, <2>8
    <3> QED
      BY <2>2, <2>3, <3>1 DEF Mendable
  <2> QED
    BY <2>2, <2>7, <2>8
<1>8. Near(p, R, T, 1)
  BY <1>6, <1>7 DEF Near
<1> QED
  BY <1>8 DEF R

-----------------------------------------------------------------------------
(* From the user's buffers to the spans and back *)

(* The mapped spans begin with what was asked to be written. *)
Carries(S, map, asked) ==
  /\ \A b \in 0 .. asked.size.datalen - 1 : S[map.data][b] = asked.data[b]
  /\ \A b \in 0 .. asked.size.ooblen - 1 : S[map.oob][b] = asked.oob[b]

LEMMA PastedAtStart ==
  ASSUME NEW n \in Nat, NEW buf \in Buffer(n), NEW len \in Nat, ~Outside(buf, 0, len), NEW src,
         NEW b \in 0 .. len - 1
  PROVE  Paste(buf, 0, Slice(src, 0, len))[b] = src[b]
<1>1. DOMAIN buf = 0 .. n - 1 /\ len > 0
  BY DEF Buffer
<1>2. b \in DOMAIN buf
  BY <1>1 DEF Outside
<1>3. b >= 0 /\ b - 0 = b /\ 0 + b = b
  OBVIOUS
<1>4. DOMAIN Slice(src, 0, len) = 0 .. len - 1 /\ Slice(src, 0, len)[b] = src[b]
  BY <1>3 DEF Slice
<1> QED
  BY <1>2, <1>3, <1>4 DEF Paste

LEMMA CopyCarries ==
  ASSUME NEW p, Filled(p), NEW spans, Buffers(p, spans), NEW map, set_request_mappings(p, map),
         map.data # map.oob, NEW pay, NEW size \in Sizes, ~CopyOutside(spans, map, size),
         NEW asked, asked.data = pay.data, asked.oob = pay.oob, asked.size = size
  PROVE  Carries(copy_write_data_and_oob_spans(spans, map, pay, size), map, asked)
<1> DEFINE x == Slice(pay.data, 0, size.datalen)
           y == Slice(pay.oob, 0, size.ooblen)
           d == [spans EXCEPT ![map.data] = Paste(@, 0, x)]
           new == copy_write_data_and_oob_spans(spans, map, pay, size)
<1>1. new = [d EXCEPT ![map.oob] = Paste(@, 0, y)]
  BY DEF copy_write_data_and_oob_spans
<1>2. map.data \in DOMAIN spans /\ map.oob \in DOMAIN spans
  BY DEF set_request_mappings, Buffers
<1> HIDE DEF x, y, new
<1>3. new[map.data] = Paste(spans[map.data], 0, x) /\ new[map.oob] = Paste(spans[map.oob], 0, y)
  BY <1>1, <1>2
<1>4. /\ SpanLen(p, map.data) \in Nat /\ spans[map.data] \in Buffer(SpanLen(p, map.data))
      /\ SpanLen(p, map.oob) \in Nat /\ spans[map.oob] \in Buffer(SpanLen(p, map.oob))
  BY DEF set_request_mappings, Filled, Buffers
<1>5. size.datalen \in Nat /\ size.ooblen \in Nat
  <2>1. size.datalen \in 0 .. oob_offset /\ size.ooblen \in 0 .. OobSize
    BY RequestsAssumption
  <2>2. oob_offset \in Int /\ OobSize \in Int
    BY RequestsAssumption DEF oob_offset
  <2> HIDE DEF oob_offset
  <2> QED
    BY <2>1, <2>2
<1>6. ~Outside(spans[map.data], 0, size.datalen) /\ ~Outside(spans[map.oob], 0, size.ooblen)
  BY DEF CopyOutside
<1>7. \A b \in 0 .. size.datalen - 1 : Paste(spans[map.data], 0, x)[b] = pay.data[b]
  BY <1>4, <1>5, <1>6, PastedAtStart DEF x
<1>8. \A b \in 0 .. size.ooblen - 1 : Paste(spans[map.oob], 0, y)[b] = pay.oob[b]
  BY <1>4, <1>5, <1>6, PastedAtStart DEF y
<1>9. Carries(new, map, asked)
  BY <1>3, <1>7, <1>8 DEF Carries
<1> QED
  BY <1>9 DEF new

(* The buffers after the last read codec. *)
LEMMA ReadDone ==
  ASSUME NEW p, NEW W, NEW mask, History(p, W, mask), NEW u, Pairing(p, u),
         NEW R, Near(p, R, Ideal(p, W, Level(p, u, Len(p.readCodecs) + 1)), Len(p.readCodecs) + 1),
         NEW z \in {p.read.data, p.read.oob}, NEW x \in 0 .. SpanLen(p, z) - 1
  PROVE  R[z][x] = W[0][z][x]
<1> DEFINE k == Len(p.readCodecs) + 1
           L == Level(p, u, k)
           N == Len(p.writeCodecs)
<1>1. /\ Ready(p) /\ OwnSpans(p) /\ N \in Nat /\ DOMAIN p.writeCodecs = 1 .. N /\ z \in Spans(p)
      /\ Len(p.readCodecs) \in Nat /\ DOMAIN p.readCodecs = 1 .. Len(p.readCodecs)
      /\ u \in [DOMAIN p.readCodecs -> DOMAIN p.writeCodecs] /\ InReverse(u, p)
  BY DEF History, Ready, set_request_mappings, Pairing
<1>2. k \in 1 .. Len(p.readCodecs) + 1 /\ k \notin DOMAIN u /\ k \in Nat
  BY <1>1
<1>3. L \in 0 .. N
  BY <1>1, <1>2, LevelType
<1>4. \A j \in 1 .. L : p.writeCodecs[j].codec.type = "memset"
  BY <1>1, <1>2, Between
<1> HIDE DEF L, k
<1>5. \A j \in DOMAIN p.writeCodecs : p.writeCodecs[j].codec.type # "xor" => p.writeCodecs[j].dest.span # z
  BY <1>1, OwnSpan
<1>6. W[L][z] = W[0][z]
  <2>1. 0 <= L /\ L <= N /\ L \in Nat /\ 0 \in Nat
    BY <1>1, <1>3
  <2>2. ASSUME NEW j \in 1 .. L, j > 0 PROVE p.writeCodecs[j].dest.span # z
    <3>1. j \in DOMAIN p.writeCodecs
      BY <1>1, <2>1
    <3> QED
      BY <1>4, <1>5, <3>1
  <2> HIDE DEF N
  <2> QED
    BY <1>1, <2>1, <2>2, Unwritten DEF N
<1>7. Ideal(p, W, L)[z] = W[L][z]
  <2>1. z \notin Touched(p, L)
    BY <1>5, TouchedMember
  <2> QED
    BY <1>1, <2>1 DEF Ideal
<1>8. ~Wrong(p, R, Ideal(p, W, L), z, x)
  <2> SUFFICES ASSUME Wrong(p, R, Ideal(p, W, L), z, x) PROVE FALSE
    OBVIOUS
  <2>1. Mendable(p, z, x, k)
    BY DEF Near, L, k
  <2>2. PICK l \in DOMAIN p.readCodecs :
          p.readCodecs[l].codec.type = "hamming" /\ (z = p.readCodecs[l].oob.span \/ l >= k)
    BY <2>1 DEF Mendable
  <2>3. ~(l >= k)
    BY <1>1 DEF k
  <2>4. Undoes(p.readCodecs[l], p.writeCodecs[u[l]]) /\ u[l] \in DOMAIN p.writeCodecs
    BY <1>1 DEF InReverse
  <2>5. p.writeCodecs[u[l]].codec.type = "hamming" /\ p.writeCodecs[u[l]].dest = p.readCodecs[l].oob
    BY <2>2, <2>4 DEF Undoes
  <2> QED
    BY <1>5, <2>2, <2>3, <2>4, <2>5
<1> QED
  BY <1>1, <1>6, <1>7, <1>8 DEF Wrong

(* What the user gets. *)
Gives(raw, size, asked) ==
  /\ \A b \in 0 .. size.datalen - 1 : b < asked.size.datalen => raw[b] = asked.data[b]
  /\ \A b \in 0 .. size.ooblen - 1 : b < asked.size.ooblen => raw[oob_offset + b] = asked.oob[b]

LEMMA ResultCarries ==
  ASSUME NEW p, Filled(p), InRange(p), set_request_mappings(p, p.read), p.read # Nothing, NEW R, NEW S, NEW asked,
         Carries(S, p.read, asked), asked.size \in Sizes, NEW size \in Sizes,
         \A z \in {p.read.data, p.read.oob} : \A x \in 0 .. SpanLen(p, z) - 1 : R[z][x] = S[z][x]
  PROVE  Gives(copy_result_data_and_oob_spans(R, p.read, size), size, asked)
<1> DEFINE raw == copy_result_data_and_oob_spans(R, p.read, size)
           D == p.read.data
           O == p.read.oob
           dl == size.datalen
           ol == size.ooblen
<1>1. size.datalen <= SpanLen(p, p.read.data) /\ size.ooblen <= SpanLen(p, p.read.oob)
  BY DEF InRange
<1>2. SpanLen(p, p.read.data) \in Nat /\ SpanLen(p, p.read.oob) \in Nat
  BY DEF Filled, set_request_mappings
<1>3. PageSize \in Nat /\ OobSize \in 0 .. PageSize /\ dl \in 0 .. oob_offset /\ ol \in 0 .. OobSize /\ oob_offset = PageSize - OobSize
  BY RequestsAssumption DEF oob_offset
<1>6. asked.size.datalen \in Int /\ asked.size.ooblen \in Int
  <2>1. asked.size.datalen \in 0 .. oob_offset /\ asked.size.ooblen \in 0 .. OobSize
    BY RequestsAssumption
  <2> QED
    BY <1>3, <2>1
<1> HIDE DEF dl, ol
<1>4. ASSUME NEW b \in 0 .. dl - 1, b < asked.size.datalen PROVE raw[b] = asked.data[b]
  <2>1. b \in 0 .. PageSize - 1 /\ b < dl /\ ~(b >= oob_offset) /\ b \in 0 .. SpanLen(p, D) - 1
    BY <1>1, <1>2, <1>3 DEF dl
  <2>2. raw[b] = R[D][b]
    BY <2>1 DEF copy_result_data_and_oob_spans, dl
  <2>3. R[D][b] = S[D][b]
    BY <2>1
  <2>4. b \in 0 .. asked.size.datalen - 1
    BY <1>3, <1>4, <1>6
  <2> QED
    BY <2>2, <2>3, <2>4 DEF Carries
<1>5. ASSUME NEW b \in 0 .. ol - 1, b < asked.size.ooblen PROVE raw[oob_offset + b] = asked.oob[b]
  <2> DEFINE a == oob_offset + b
  <2>1. a \in 0 .. PageSize - 1 /\ ~(a < dl) /\ a >= oob_offset /\ a - oob_offset < ol /\ a - oob_offset = b
        /\ b \in 0 .. SpanLen(p, O) - 1
    BY <1>1, <1>2, <1>3 DEF ol
  <2> HIDE DEF a
  <2>2. raw[a] = R[O][a - oob_offset]
    BY <2>1 DEF copy_result_data_and_oob_spans, dl, ol
  <2>3. R[O][b] = S[O][b]
    BY <2>1
  <2>4. b \in 0 .. asked.size.ooblen - 1
    BY <1>3, <1>5, <1>6
  <2> QED
    BY <2>1, <2>2, <2>3, <2>4 DEF Carries, a
<1>7. Gives(raw, size, asked)
  BY <1>4, <1>5 DEF dl, ol, Gives
<1> QED
  BY <1>7 DEF raw

-----------------------------------------------------------------------------
(* The invariant: every request and every page has a history *)

(* What ReadReturnsWritten asks of a pipeline, a page and a reader. *)
Promised(p, want, t) ==
  /\ InRange(p) /\ Mirrored(p) /\ Recoverable(p, want.flipped)
  /\ \A c \in Range(p.readCodecs) : c.codec.type = "xor" => c.codec.size = 1 /\ want.asked.by = t

Asked(a) == a.size \in Sizes /\ a.by \in Threads

(* W are the buffers of the thread that wrote, up to codec number n. *)
Journal(p, W, asked, ms, n) ==
  /\ Written(p, W, ms[asked.by], n)
  /\ p.write.data # p.write.oob => Carries(W[0], p.write, asked)

LoggedWrite(p, ms, r, spans, t) ==
  /\ r.op = "write" /\ Asked(r.want) /\ r.want.by = t /\ r.next \in 1 .. Len(p.writeCodecs) + 1
  /\ \E W : Journal(p, W, r.want, ms, r.next - 1) /\ W[r.next - 1] = spans

(* The buffers are what writing left, undone up to the next codec, but for *)
(* a decayed bit.                                                          *)
Undone(p, ms, want, spans, k) ==
  \E W : \E u :
    /\ Journal(p, W, want.asked, ms, Len(p.writeCodecs)) /\ Pairing(p, u)
    /\ Near(p, spans, Ideal(p, W, Level(p, u, k)), k)

LoggedRead(p, ms, r, spans, t) ==
  /\ Asked(r.want.asked) /\ r.next \in 1 .. Len(p.readCodecs) + 1
  /\ Promised(p, r.want, t) => Undone(p, ms, r.want, spans, r.next)

LoggedRequest(pipes, ms, r, b, t) ==
  /\ r.phase = "idle" => r.ans = "none"
  /\ r.phase = "write" => LoggedWrite(pipes[r.pipe], ms, r, b[r.pipe], t)
  /\ r.phase = "read" =>
       r.op = "read" /\ (r.want # Nothing => r.pipe # 0 /\ LoggedRead(pipes[r.pipe], ms, r, b[r.pipe], t))
  /\ r.phase = "answered" =>
       (r.op = "read" /\ r.want # Nothing /\ Promised(pipes[r.pipe], r.want, t) => Returned(r))

LoggedPage(p, ms, s, raw) ==
  s # Nothing =>
    /\ DOMAIN s = {"asked", "image", "flipped"}
    /\ Asked(s.asked) /\ s.flipped \in SUBSET (0 .. PageSize - 1)
    /\ \E W : /\ Journal(p, W, s.asked, ms, Len(p.writeCodecs))
              /\ \A b \in 0 .. PageSize - 1 :
                   b \notin s.flipped =>
                     raw[b] = compose_raw_page_from_pipeline_page_layout(p, W[Len(p.writeCodecs)])[b]

RoundTripInv ==
  /\ \A t \in Threads : LoggedRequest(scheme.pipes, masks, req[t], bufs[t], t)
  /\ \A pg \in Pages : LoggedPage(scheme.pipes[scheme.owner[pg]], masks, stored[pg], flash[pg])

LEMMA RoundTripInvInit == Init => RoundTripInv
<1> SUFFICES ASSUME Init PROVE RoundTripInv
  OBVIOUS
<1>1. /\ stored = [pg \in Pages |-> Nothing] /\ req = [t \in Threads |-> Idle]
  BY DEF Init
<1>2. \A b, t : LoggedRequest(scheme.pipes, masks, Idle, b, t)
  BY DEF LoggedRequest, Idle
<1>3. \A p, raw : LoggedPage(p, masks, Nothing, raw)
  BY DEF LoggedPage
<1> QED
  BY <1>1, <1>2, <1>3 DEF RoundTripInv

LEMMA NothingLogged ==
  ASSUME RoundTripInv, UNCHANGED <<scheme, masks, req, bufs, stored, flash>>
  PROVE  RoundTripInv'
BY DEF RoundTripInv

(* One thread goes on, and the flash stays. *)
LEMMA ThreadLogged ==
  ASSUME RoundTripInv, DOMAIN req = Threads, UNCHANGED <<scheme, masks, stored, flash>>, NEW t \in Threads, NEW r,
         req' = [req EXCEPT ![t] = r], \A u \in Threads : u # t => bufs'[u] = bufs[u],
         LoggedRequest(scheme.pipes, masks, r, bufs'[t], t)
  PROVE  RoundTripInv'
<1>1. \A u \in Threads : req'[u] = IF u = t THEN r ELSE req[u]
  OBVIOUS
<1>2. \A u \in Threads : LoggedRequest(scheme.pipes, masks, req'[u], bufs'[u], u)
  BY <1>1 DEF RoundTripInv
<1> QED
  BY <1>2 DEF RoundTripInv

(* An answer: only a read of a page that was written promises anything. *)
LEMMA AnswerLogged ==
  ASSUME WorkerInv, RoundTripInv, UNCHANGED <<scheme, masks, stored, flash>>, NEW t \in Threads, Busy(req[t]),
         NEW ans, NEW raw, req' = Answered(t, ans, raw), \A u \in Threads : u # t => bufs'[u] = bufs[u],
         NEW r, r = [req[t] EXCEPT !.phase = "answered", !.ans = ans, !.raw = raw],
         r.op = "read" /\ r.want # Nothing /\ Promised(scheme.pipes[r.pipe], r.want, t) => Returned(r)
  PROVE  RoundTripInv'
<1>1. DOMAIN req = Threads /\ DOMAIN req[t] = Fields
  BY DEF WorkerInv, SoundRequest
<1>2. r.phase = "answered" /\ req' = [req EXCEPT ![t] = r]
  BY <1>1 DEF Answered, Fields
<1>3. LoggedRequest(scheme.pipes, masks, r, bufs'[t], t)
  BY <1>2 DEF LoggedRequest
<1> QED
  BY <1>1, <1>2, <1>3, ThreadLogged

LEMMA HistoryKnown ==
  ASSUME AccessInv, NEW i \in DOMAIN scheme.pipes, NEW a \in Threads, InRange(scheme.pipes[i]),
         Mirrored(scheme.pipes[i]), NEW W, Written(scheme.pipes[i], W, masks[a], Len(scheme.pipes[i].writeCodecs))
  PROVE  History(scheme.pipes[i], W, masks[a])
<1> DEFINE p == scheme.pipes[i]
<1>1. Ready(p)
  BY SchemeIsReady DEF AccessInv
<1>2. ASSUME NEW k \in DOMAIN p.writeCodecs PROVE MaskFor(p.writeCodecs[k], masks[a])
  <2>1. p.writeCodecs[k] \in Range(p.writeCodecs) /\ WriteReady(p, p.writeCodecs[k])
    BY <1>1 DEF Ready, Range
  <2> QED
    BY <2>1, MasksFor DEF AccessInv
<1>3. OwnSpans(p)
  BY DEF Mirrored
<1> QED
  BY <1>1, <1>2, <1>3 DEF History

(* A read codec undoes one more of the write codecs. *)
LEMMA UndoneNext ==
  ASSUME AccessInv, NEW t \in Threads, NEW i \in DOMAIN scheme.pipes, NEW want, Asked(want.asked),
         NEW k \in 1 .. Len(scheme.pipes[i].readCodecs), NEW R, Buffers(scheme.pipes[i], R),
         Promised(scheme.pipes[i], want, t), Undone(scheme.pipes[i], masks, want, R, k)
  PROVE  LET res == on_read(R, scheme.pipes[i].readCodecs[k], masks[t])
         IN res.stat = "ok" /\ Undone(scheme.pipes[i], masks, want, res.spans, k + 1)
<1> DEFINE p == scheme.pipes[i]
           c == p.readCodecs[k]
           a == want.asked.by
           res == on_read(R, c, masks[t])
<1>1. PICK W : \E u : /\ Journal(p, W, want.asked, masks, Len(p.writeCodecs)) /\ Pairing(p, u)
                      /\ Near(p, R, Ideal(p, W, Level(p, u, k)), k)
  BY DEF Undone
<1>2. PICK u : /\ Journal(p, W, want.asked, masks, Len(p.writeCodecs)) /\ Pairing(p, u)
               /\ Near(p, R, Ideal(p, W, Level(p, u, k)), k)
  BY <1>1
<1>3. a \in Threads /\ Written(p, W, masks[a], Len(p.writeCodecs)) /\ InRange(p) /\ Mirrored(p)
  BY <1>2 DEF Asked, Journal, Promised
<1>4. History(p, W, masks[a])
  BY <1>3, HistoryKnown
<1>5. c \in Range(p.readCodecs)
  <2>1. DOMAIN p.readCodecs = 1 .. Len(p.readCodecs)
    BY <1>4 DEF History, Ready
  <2> QED
    BY <2>1 DEF Range
<1>6. c.codec.type = "xor" => c.codec.size = 1 /\ a = t
  BY <1>5 DEF Promised
<1>7. c.codec.type = "xor" => c.codec.size = 1 /\ MaskBit(c, masks[t]) = MaskBit(c, masks[a])
  BY <1>6
<1> HIDE DEF a, p
<1>8. res.stat = "ok" /\ Near(p, res.spans, Ideal(p, W, Level(p, u, k + 1)), k + 1)
  BY <1>2, <1>4, <1>7, ReadStep DEF p
<1> HIDE DEF res
<1>9. Undone(p, masks, want, res.spans, k + 1)
  BY <1>2, <1>8, Zenon DEF Undone
<1> QED
  BY <1>8, <1>9 DEF p, res

(* A codec that went well; the next one is due. *)
LEMMA AdvanceLogged ==
  ASSUME AccessInv, RoundTripInv, NEW t \in Threads, Busy(req[t]), req[t].pipe \in DOMAIN scheme.pipes, NEW new,
         req' = [req EXCEPT ![t].next = @ + 1], bufs' = [bufs EXCEPT ![t][req[t].pipe] = new],
         UNCHANGED <<scheme, flash, masks, stored>>,
         NEW r, r = [req[t] EXCEPT !.next = @ + 1],
         LET p == scheme.pipes[req[t].pipe]
         IN /\ r.phase = "write" => LoggedWrite(p, masks, r, new, t)
            /\ r.phase = "read" => r.op = "read" /\ (r.want # Nothing => LoggedRead(p, masks, r, new, t))
  PROVE  RoundTripInv'
<1> DEFINE i == req[t].pipe
           p == scheme.pipes[i]
<1>1. DOMAIN req = Threads /\ DOMAIN req[t] = Fields /\ DOMAIN bufs = Threads /\ i \in DOMAIN bufs[t]
  BY DEF AccessInv, WorkerInv, SoundRequest, BuffersReady
<1>2. req' = [req EXCEPT ![t] = r] /\ r.pipe = i /\ r.phase = req[t].phase /\ r.op = req[t].op /\ r.want = req[t].want
  BY <1>1 DEF Fields
<1>3. bufs'[t][i] = new /\ \A u \in Threads : u # t => bufs'[u] = bufs[u]
  BY <1>1
<1>4. r.phase = "read" /\ r.want # Nothing => r.pipe # 0
  BY <1>2 DEF RoundTripInv, LoggedRequest
<1>5. r.phase \notin {"idle", "answered"}
  BY <1>2 DEF Busy
<1>6. LoggedRequest(scheme.pipes, masks, r, bufs'[t], t)
  BY <1>2, <1>3, <1>4, <1>5 DEF LoggedRequest
<1>7. UNCHANGED <<scheme, masks, stored, flash>> /\ DOMAIN req = Threads
  BY <1>1
<1>8. req' = [req EXCEPT ![t] = r] /\ \A u \in Threads : u # t => bufs'[u] = bufs[u]
  BY <1>2, <1>3
<1>9. ASSUME NEW u \in Threads
      PROVE  LoggedRequest(scheme.pipes, masks, req'[u], bufs'[u], u)
  <2>1. CASE u = t
    BY <1>6, <1>7, <1>8, <2>1
  <2>2. CASE u # t
    BY <1>7, <1>8, <2>2 DEF RoundTripInv
  <2> QED
    BY <2>1, <2>2
<1> QED
  BY <1>7, <1>9 DEF RoundTripInv

LEMMA ReadCodecLogged ==
  ASSUME AccessInv, RoundTripInv, NEW t \in Threads, RunReadCodec(t)
  PROVE  RoundTripInv'
<1> DEFINE i == req[t].pipe
           p == scheme.pipes[i]
           k == req[t].next
           want == req[t].want
           R == bufs[t][i]
           res == on_read(R, p.readCodecs[k], masks[t])
<1>1. /\ Busy(req[t]) /\ req[t].phase = "read" /\ i # 0 /\ k <= Len(p.readCodecs) /\ RunCodec(t, res)
  BY DEF RunReadCodec, Serving, Busy, Pipe
<1>2. /\ i \in DOMAIN scheme.pipes /\ k \in Nat \ {0} /\ DOMAIN req[t] = Fields
  BY <1>1 DEF AccessInv, RequestReady, WorkerInv, SoundRequest
<1>3. Ready(p) /\ Buffers(p, R) /\ Len(p.readCodecs) \in Nat
  BY <1>2, SchemeIsReady DEF AccessInv, BuffersReady, Ready
<1>4. k \in 1 .. Len(p.readCodecs) /\ k + 1 \in 1 .. Len(p.readCodecs) + 1
  <2> DEFINE len == Len(p.readCodecs)
  <2> HIDE DEF len, k
  <2>1. len \in Nat /\ k \in Nat \ {0} /\ k <= len
    BY <1>1, <1>2, <1>3 DEF len, k
  <2> QED
    BY <2>1 DEF len
<1>5. req[t].op = "read" /\ (want # Nothing => LoggedRead(p, masks, req[t], R, t))
  BY <1>1 DEF RoundTripInv, LoggedRequest
<1>6. want # Nothing => Asked(want.asked) /\ (Promised(p, want, t) => Undone(p, masks, want, R, k))
  BY <1>5 DEF LoggedRead
<1>7. want # Nothing /\ Promised(p, want, t) => res.stat = "ok" /\ Undone(p, masks, want, res.spans, k + 1)
  BY <1>2, <1>3, <1>4, <1>6, UndoneNext
<1> HIDE DEF res
<1>8. CASE res.stat = "outside"
  <2>1. UNCHANGED <<scheme, masks, req, bufs, stored, flash>>
    BY <1>1, <1>8 DEF RunCodec, Fault
  <2> QED
    BY <2>1, NothingLogged
<1>9. CASE res.stat = "ok"
  <2> DEFINE r == [req[t] EXCEPT !.next = @ + 1]
  <2>1. /\ req' = [req EXCEPT ![t].next = @ + 1] /\ bufs' = [bufs EXCEPT ![t][i] = res.spans]
        /\ UNCHANGED <<scheme, flash, masks, stored>>
    BY <1>1, <1>9 DEF RunCodec
  <2>2. r.phase = "read" /\ r.op = "read" /\ r.want = want /\ r.next = k + 1
    BY <1>1, <1>2, <1>5 DEF Fields
  <2> HIDE DEF r
  <2>3. want # Nothing => LoggedRead(p, masks, r, res.spans, t)
    BY <1>4, <1>6, <1>7, <2>2 DEF LoggedRead
  <2>4. /\ r.phase = "write" => LoggedWrite(p, masks, r, res.spans, t)
        /\ r.phase = "read" => r.op = "read" /\ (r.want # Nothing => LoggedRead(p, masks, r, res.spans, t))
    BY <2>2, <2>3
  <2> QED
    BY <1>1, <1>2, <2>1, <2>4, AdvanceLogged DEF r
<1>10. CASE res.stat \notin {"outside", "ok"}
  <2> DEFINE r == [req[t] EXCEPT !.phase = "answered", !.ans = "DATA_RECOVERY_FAILED", !.raw = Nothing]
  <2>1. /\ req' = Answered(t, "DATA_RECOVERY_FAILED", Nothing) /\ bufs' = [bufs EXCEPT ![t][i] = res.spans]
        /\ UNCHANGED <<scheme, flash, masks, stored>>
    BY <1>1, <1>10 DEF RunCodec
  <2>2. r.want = want /\ r.pipe = i
    BY <1>2 DEF Fields
  <2> HIDE DEF r
  <2>3. r.op = "read" /\ r.want # Nothing /\ Promised(scheme.pipes[r.pipe], r.want, t) => Returned(r)
    BY <1>7, <1>10, <2>2
  <2>4. \A u \in Threads : u # t => bufs'[u] = bufs[u]
    BY <2>1 DEF AccessInv, BuffersReady
  <2> QED
    BY <1>1, <2>1, <2>3, <2>4, AnswerLogged DEF r, AccessInv
<1> QED
  BY <1>8, <1>9, <1>10

(* The buffers after one more write codec. *)
LEMMA JournalNext ==
  ASSUME NEW p, NEW W, NEW asked, NEW ms, NEW k \in Nat \ {0}, Journal(p, W, asked, ms, k - 1), NEW new,
         Buffers(p, new), new = on_write(W[k - 1], p.writeCodecs[k], ms[asked.by]).spans
  PROVE  \E V : Journal(p, V, asked, ms, k) /\ V[k] = new
<1> DEFINE V == [j \in 0 .. k |-> IF j = k THEN new ELSE W[j]]
           mask == ms[asked.by]
<1>1. V[k] = new /\ V[0] = W[0] /\ \A j \in 0 .. k - 1 : V[j] = W[j]
  OBVIOUS
<1> HIDE DEF V
<1>2. ASSUME NEW j \in 0 .. k PROVE Buffers(p, V[j])
  <2>1. CASE j = k
    BY <1>1, <2>1
  <2>2. CASE j # k
    <3>1. j \in 0 .. k - 1
      BY <2>2
    <3> QED
      BY <1>1, <3>1 DEF Journal, Written
  <2> QED
    BY <2>1, <2>2
<1>3. ASSUME NEW j \in 1 .. k PROVE V[j] = on_write(V[j - 1], p.writeCodecs[j], mask).spans
  <2>1. j - 1 \in 0 .. k - 1
    OBVIOUS
  <2>2. CASE j = k
    BY <1>1, <2>1, <2>2
  <2>3. CASE j # k
    <3>1. j \in 1 .. k - 1 /\ j \in 0 .. k - 1
      BY <2>3
    <3>2. W[j] = on_write(W[j - 1], p.writeCodecs[j], mask).spans
      BY <3>1 DEF Journal, Written
    <3> QED
      BY <1>1, <2>1, <3>1, <3>2
  <2> QED
    BY <2>2, <2>3
<1>4. Journal(p, V, asked, ms, k)
  BY <1>1, <1>2, <1>3 DEF Journal, Written
<1> QED
  BY <1>1, <1>4

LEMMA WriteCodecLogged ==
  ASSUME AccessInv, RoundTripInv, NEW t \in Threads, RunWriteCodec(t)
  PROVE  RoundTripInv'
<1> DEFINE i == req[t].pipe
           p == scheme.pipes[i]
           k == req[t].next
           c == p.writeCodecs[k]
           want == req[t].want
           S == bufs[t][i]
           res == on_write(S, c, masks[t])
<1>1. /\ Busy(req[t]) /\ req[t].phase = "write" /\ k <= Len(p.writeCodecs) /\ RunCodec(t, res)
  BY DEF RunWriteCodec, Serving, Busy, Pipe
<1>2. i # 0 /\ k \in Nat \ {0} /\ DOMAIN req[t] = Fields
  BY <1>1 DEF AccessInv, WorkerInv, SoundRequest, WritesWhereAllowed, HasWriteSpans, RequestReady
<1>3. i \in DOMAIN scheme.pipes
  BY <1>1, <1>2 DEF AccessInv, RequestReady
<1>4. Ready(p) /\ Filled(p) /\ Buffers(p, S) /\ Len(p.writeCodecs) \in Nat
  BY <1>3, SchemeIsReady DEF AccessInv, BuffersReady, Ready
<1>5. k \in 1 .. Len(p.writeCodecs) /\ k + 1 \in 1 .. Len(p.writeCodecs) + 1 /\ k + 1 - 1 = k
  <2> DEFINE len == Len(p.writeCodecs)
  <2> HIDE DEF len, k
  <2>1. len \in Nat /\ k \in Nat \ {0} /\ k <= len
    BY <1>1, <1>2, <1>4 DEF len, k
  <2> QED
    BY <2>1 DEF len
<1>6. WriteReady(p, c) /\ c \in Range(p.writeCodecs)
  BY <1>4, <1>5 DEF Ready, Range
<1>7. MaskFor(c, masks[t])
  BY <1>3, <1>6, MasksFor DEF AccessInv
<1>8. CodecResult(p, res)
  BY <1>4, <1>6, <1>7, OnWriteType
<1>9. LoggedWrite(p, masks, req[t], S, t)
  BY <1>1 DEF RoundTripInv, LoggedRequest
<1>10. /\ req[t].op = "write" /\ Asked(want) /\ want.by = t
       /\ \E W : Journal(p, W, want, masks, k - 1) /\ W[k - 1] = S
  BY <1>9 DEF LoggedWrite
<1>11. \E V : Journal(p, V, want, masks, k) /\ V[k] = res.spans
  <2>1. PICK W : Journal(p, W, want, masks, k - 1) /\ W[k - 1] = S
    BY <1>10
  <2>2. Buffers(p, res.spans) /\ res.spans = on_write(W[k - 1], c, masks[want.by]).spans
    BY <1>8, <1>10, <2>1 DEF CodecResult
  <2>3. k \in Nat \ {0}
    BY <1>2
  <2> DEFINE new == res.spans
  <2>4. Buffers(p, new) /\ new = on_write(W[k - 1], p.writeCodecs[k], masks[want.by]).spans
    BY <2>2
  <2> HIDE DEF new, p, k, want
  <2>5. \E V : Journal(p, V, want, masks, k) /\ V[k] = new
    BY <2>1, <2>3, <2>4, JournalNext
  <2> QED
    BY <2>5 DEF new
<1> HIDE DEF res
<1>12. CASE res.stat = "outside"
  <2>1. UNCHANGED <<scheme, masks, req, bufs, stored, flash>>
    BY <1>1, <1>12 DEF RunCodec, Fault
  <2> QED
    BY <2>1, NothingLogged
<1>13. CASE res.stat = "ok"
  <2> DEFINE r == [req[t] EXCEPT !.next = @ + 1]
  <2>1. /\ req' = [req EXCEPT ![t].next = @ + 1] /\ bufs' = [bufs EXCEPT ![t][i] = res.spans]
        /\ UNCHANGED <<scheme, flash, masks, stored>>
    BY <1>1, <1>13 DEF RunCodec
  <2>2. r.phase = "write" /\ r.op = "write" /\ r.want = want /\ r.next = k + 1
    BY <1>1, <1>2, <1>10 DEF Fields
  <2> HIDE DEF r
  <2>3. LoggedWrite(p, masks, r, res.spans, t)
    <3>1. \E V : Journal(p, V, r.want, masks, r.next - 1) /\ V[r.next - 1] = res.spans
      BY <1>5, <1>11, <2>2
    <3> QED
      BY <1>5, <1>10, <2>2, <3>1 DEF LoggedWrite
  <2>4. /\ r.phase = "write" => LoggedWrite(p, masks, r, res.spans, t)
        /\ r.phase = "read" => r.op = "read" /\ (r.want # Nothing => LoggedRead(p, masks, r, res.spans, t))
    BY <2>2, <2>3
  <2> QED
    BY <1>1, <1>3, <2>1, <2>4, AdvanceLogged DEF r
<1>14. CASE res.stat \notin {"outside", "ok"}
  <2> DEFINE r == [req[t] EXCEPT !.phase = "answered", !.ans = "DATA_RECOVERY_FAILED", !.raw = Nothing]
  <2>1. /\ req' = Answered(t, "DATA_RECOVERY_FAILED", Nothing) /\ bufs' = [bufs EXCEPT ![t][i] = res.spans]
        /\ UNCHANGED <<scheme, flash, masks, stored>>
    BY <1>1, <1>14 DEF RunCodec
  <2>2. r.op = "write"
    BY <1>2, <1>10 DEF Fields
  <2>3. \A u \in Threads : u # t => bufs'[u] = bufs[u]
    BY <2>1 DEF AccessInv, BuffersReady
  <2> HIDE DEF r
  <2> QED
    BY <1>1, <2>1, <2>2, <2>3, AnswerLogged DEF r, AccessInv
<1> QED
  BY <1>12, <1>13, <1>14

(* There is nothing to read where there is no pipeline. *)
LEMMA NackLogged ==
  ASSUME AccessInv, RoundTripInv, NEW t \in Threads, nack_codec_read(t)
  PROVE  RoundTripInv'
<1> DEFINE r == [req[t] EXCEPT !.phase = "answered", !.ans = "UNKNOWN_ALGORITHM", !.raw = Nothing]
<1>1. /\ Busy(req[t]) /\ req[t].phase = "read" /\ req[t].pipe = 0
      /\ req' = Answered(t, "UNKNOWN_ALGORITHM", Nothing) /\ UNCHANGED <<scheme, flash, bufs, masks, stored>>
  BY DEF nack_codec_read, Serving, Busy
<1>2. DOMAIN req[t] = Fields
  BY <1>1 DEF AccessInv, WorkerInv, SoundRequest
<1>3. req[t].want = Nothing
  BY <1>1 DEF RoundTripInv, LoggedRequest
<1>4. r.want = Nothing
  BY <1>2, <1>3 DEF Fields
<1>5. WorkerInv /\ \A u \in Threads : u # t => bufs'[u] = bufs[u]
  BY <1>1 DEF AccessInv
<1> HIDE DEF r
<1>6. r.op = "read" /\ r.want # Nothing /\ Promised(scheme.pipes[r.pipe], r.want, t) => Returned(r)
  BY <1>4
<1> QED
  BY <1>1, <1>5, <1>6, AnswerLogged DEF r

(* The codecs are through: the user gets what was written. *)
LEMMA FinishReadLogged ==
  ASSUME AccessInv, RoundTripInv, NEW t \in Threads, FinishRead(t)
  PROVE  RoundTripInv'
<1> DEFINE i == req[t].pipe
           p == scheme.pipes[i]
           k == req[t].next
           want == req[t].want
           asked == want.asked
           size == req[t].size
           R == bufs[t][i]
           raw == copy_result_data_and_oob_spans(R, p.read, size)
           r == [req[t] EXCEPT !.phase = "answered", !.ans = "ACK", !.raw = raw]
<1>1. Busy(req[t]) /\ req[t].phase = "read" /\ i # 0 /\ k > Len(p.readCodecs)
  BY DEF FinishRead, Serving, Busy, Pipe
<1>2. i \in DOMAIN scheme.pipes /\ size \in Sizes /\ k \in Nat /\ DOMAIN req[t] = Fields
  BY <1>1 DEF AccessInv, RequestReady, WorkerInv, SoundRequest
<1>3. /\ Ready(p) /\ Filled(p) /\ Len(p.readCodecs) \in Nat
      /\ p.read # Nothing /\ set_request_mappings(p, p.read)
  BY <1>2, SchemeIsReady DEF AccessInv, Ready
<1>4. /\ r.phase = "answered" /\ r.ans = "ACK" /\ r.raw = raw /\ r.want = want /\ r.pipe = i /\ r.size = size
  BY <1>2 DEF Fields
<1>5. req[t].op = "read" /\ (want # Nothing => LoggedRead(p, masks, req[t], R, t))
  BY <1>1 DEF RoundTripInv, LoggedRequest
<1>6. ASSUME want # Nothing, Promised(p, want, t) PROVE Returned(r)
  <2>1. Asked(asked) /\ k \in 1 .. Len(p.readCodecs) + 1 /\ Undone(p, masks, want, R, k)
    BY <1>5, <1>6 DEF LoggedRead
  <2>2. k = Len(p.readCodecs) + 1
    <3> DEFINE len == Len(p.readCodecs)
    <3> HIDE DEF len, k
    <3>1. len \in Nat /\ k \in 1 .. len + 1 /\ k > len
      BY <1>1, <1>3, <2>1 DEF len
    <3> QED
      BY <3>1 DEF len
  <2>3. PICK W : \E u : /\ Journal(p, W, asked, masks, Len(p.writeCodecs)) /\ Pairing(p, u)
                        /\ Near(p, R, Ideal(p, W, Level(p, u, k)), k)
    BY <2>1 DEF Undone
  <2>4. PICK u : /\ Journal(p, W, asked, masks, Len(p.writeCodecs)) /\ Pairing(p, u)
                 /\ Near(p, R, Ideal(p, W, Level(p, u, k)), k)
    BY <2>3
  <2>5. InRange(p) /\ Mirrored(p) /\ p.read = p.write /\ p.write.data # p.write.oob
    BY <1>6 DEF Promised, Mirrored
  <2>6. /\ asked.by \in Threads /\ asked.size \in Sizes /\ Written(p, W, masks[asked.by], Len(p.writeCodecs))
        /\ Carries(W[0], p.read, asked)
    BY <2>1, <2>4, <2>5 DEF Asked, Journal
  <2>7. History(p, W, masks[asked.by])
    BY <1>2, <2>5, <2>6, HistoryKnown
  <2>8. Near(p, R, Ideal(p, W, Level(p, u, Len(p.readCodecs) + 1)), Len(p.readCodecs) + 1)
    BY <2>2, <2>4
  <2> HIDE DEF p, R, raw, k, asked, size, r
  <2>9. \A z \in {p.read.data, p.read.oob} : \A x \in 0 .. SpanLen(p, z) - 1 : R[z][x] = W[0][z][x]
    BY <2>4, <2>7, <2>8, ReadDone
  <2> DEFINE S == W[0]
  <2>10. Gives(raw, size, asked)
    <3>1. /\ size \in Sizes /\ asked.size \in Sizes /\ Carries(S, p.read, asked)
          /\ \A z \in {p.read.data, p.read.oob} : \A x \in 0 .. SpanLen(p, z) - 1 : R[z][x] = S[z][x]
      BY <1>2, <2>6, <2>9
    <3> HIDE DEF S
    <3>2. Gives(copy_result_data_and_oob_spans(R, p.read, size), size, asked)
      BY <1>3, <2>5, <3>1, ResultCarries
    <3> QED
      BY <3>2 DEF raw
  <2>11. r.want.asked = asked
    BY <1>4 DEF asked
  <2> QED
    BY <1>4, <2>10, <2>11 DEF Returned, Gives
<1>7. CASE CopyOutside(R, p.read, size) /\ Fault("copy")
  <2>1. UNCHANGED <<scheme, masks, req, bufs, stored, flash>>
    BY <1>7 DEF Fault
  <2> QED
    BY <2>1, NothingLogged
<1>8. CASE req' = Answered(t, "ACK", raw) /\ UNCHANGED <<scheme, flash, bufs, masks, stored, fault, requests, flips>>
  <2>1. r.op = "read" /\ r.want # Nothing /\ Promised(scheme.pipes[r.pipe], r.want, t) => Returned(r)
    BY <1>4, <1>6
  <2> HIDE DEF raw
  <2> QED
    BY <1>1, <1>8, <2>1, AnswerLogged DEF AccessInv
<1> HIDE DEF raw
<1> QED
  BY <1>7, <1>8, Zenon DEF FinishRead, Pipe, raw

(* The page that was programmed has the history of its request. *)
LEMMA FinishWriteLogged ==
  ASSUME AccessInv, RoundTripInv, NEW t \in Threads, FinishWrite(t)
  PROVE  RoundTripInv'
<1> DEFINE i == req[t].pipe
           p == scheme.pipes[i]
           k == req[t].next
           N == Len(p.writeCodecs)
           want == req[t].want
           S == bufs[t][i]
           pg == req[t].page
           raw == compose_raw_page_from_pipeline_page_layout(p, S)
           new == [asked |-> want, image |-> raw, flipped |-> {}]
           r == [req[t] EXCEPT !.phase = "answered", !.ans = "ACK", !.raw = Nothing]
<1>1. /\ Busy(req[t]) /\ req[t].phase = "write" /\ k > N
      /\ req' = Answered(t, "ACK", Nothing) /\ flash' = [flash EXCEPT ![pg] = raw]
      /\ stored' = [stored EXCEPT ![pg] = new] /\ UNCHANGED <<scheme, bufs, masks, fault, requests, flips>>
  BY DEF FinishWrite, Serving, Busy, Pipe
<1>2. /\ pg \in Pages /\ i = scheme.owner[pg] /\ i # 0 /\ k \in Nat /\ DOMAIN req[t] = Fields
      /\ DOMAIN req = Threads /\ DOMAIN flash = Pages /\ DOMAIN stored = Pages
  BY <1>1 DEF AccessInv, WorkerInv, SoundRequest, WritesWhereAllowed, HasWriteSpans, RequestReady
<1>3. i \in DOMAIN scheme.pipes
  BY <1>1, <1>2 DEF AccessInv, RequestReady
<1>4. N \in Nat
  BY <1>3, SchemeIsReady DEF AccessInv, Ready
<1>5. LoggedWrite(p, masks, req[t], S, t)
  BY <1>1 DEF RoundTripInv, LoggedRequest
<1>6. /\ req[t].op = "write" /\ Asked(want) /\ k \in 1 .. N + 1
      /\ \E W : Journal(p, W, want, masks, k - 1) /\ W[k - 1] = S
  BY <1>5 DEF LoggedWrite
<1>7. k - 1 = N
  <2>1. k > N /\ k \in 1 .. N + 1
    BY <1>1, <1>6, Zenon
  <2> HIDE DEF k, N
  <2> QED
    BY <1>4, <2>1
<1>8. PICK W : Journal(p, W, want, masks, N) /\ W[N] = S
  BY <1>6, <1>7
<1>9. LoggedPage(p, masks, new, raw)
  <2>1. new.asked = want /\ new.flipped = {} /\ DOMAIN new = {"asked", "image", "flipped"} /\ {} \in SUBSET (0 .. PageSize - 1)
    OBVIOUS
  <2>2. raw = compose_raw_page_from_pipeline_page_layout(p, W[N])
    BY <1>8
  <2> HIDE DEF new, raw
  <2>3. /\ Journal(p, W, new.asked, masks, N)
        /\ \A b \in 0 .. PageSize - 1 :
             b \notin new.flipped => raw[b] = compose_raw_page_from_pipeline_page_layout(p, W[N])[b]
    BY <1>8, <2>1, <2>2
  <2> QED
    BY <1>6, <2>1, <2>3 DEF LoggedPage
<1>10. r.phase = "answered" /\ r.op = "write"
  BY <1>2, <1>6 DEF Fields
<1>11. req' = [req EXCEPT ![t] = r]
  BY <1>1 DEF Answered
<1> HIDE DEF r, new, raw
<1>12. LoggedRequest(scheme.pipes, masks, r, bufs[t], t)
  BY <1>10 DEF LoggedRequest
<1>13. \A u \in Threads : LoggedRequest(scheme.pipes, masks, req'[u], bufs[u], u)
  <2>1. \A u \in Threads : req'[u] = IF u = t THEN r ELSE req[u]
    BY <1>2, <1>11
  <2> QED
    BY <1>12, <2>1 DEF RoundTripInv
<1>14. \A q \in Pages : LoggedPage(scheme.pipes[scheme.owner[q]], masks, stored'[q], flash'[q])
  <2>1. \A q \in Pages : /\ stored'[q] = IF q = pg THEN new ELSE stored[q]
                         /\ flash'[q] = IF q = pg THEN raw ELSE flash[q]
    BY <1>1, <1>2
  <2>2. LoggedPage(scheme.pipes[scheme.owner[pg]], masks, new, raw)
    BY <1>2, <1>9
  <2> HIDE DEF pg
  <2> QED
    BY <2>1, <2>2 DEF RoundTripInv
<1> QED
  BY <1>1, <1>13, <1>14 DEF RoundTripInv

(* A new request of a thread. *)
LEMMA ArrivalLogged ==
  ASSUME AccessInv, RoundTripInv, UNCHANGED <<scheme, masks, stored, flash>>, NEW t \in Threads,
         NEW op, NEW pg, NEW size, NEW want, Arrives(t, op, pg, size, want),
         \A u \in Threads : u # t => bufs'[u] = bufs[u],
         NEW r, r = [phase |-> op, op |-> op, page |-> pg, pipe |-> scheme.owner[pg], size |-> size,
                     next |-> 1, ans |-> "none", raw |-> Nothing, want |-> want],
         LoggedRequest(scheme.pipes, masks, r, bufs'[t], t)
  PROVE  RoundTripInv'
<1>1. DOMAIN req = Threads /\ req' = [req EXCEPT ![t] = r]
  BY DEF AccessInv, WorkerInv, Arrives
<1> QED
  BY <1>1, ThreadLogged

(* The spans that read_process extracts: nothing is undone yet. *)
LEMMA UndoneFirst ==
  ASSUME AccessInv, NEW t \in Threads, NEW i \in DOMAIN scheme.pipes, NEW s, s # Nothing, NEW raw,
         LoggedPage(scheme.pipes[i], masks, s, raw), Promised(scheme.pipes[i], s, t)
  PROVE  Undone(scheme.pipes[i], masks, s, extract_raw_page_to_pipeline_page_layout(scheme.pipes[i], raw), 1)
<1> DEFINE p == scheme.pipes[i]
           N == Len(p.writeCodecs)
           R == extract_raw_page_to_pipeline_page_layout(p, raw)
<1>1. Asked(s.asked) /\ s.flipped \in SUBSET (0 .. PageSize - 1)
  BY DEF LoggedPage
<1>2. PICK W : /\ Journal(p, W, s.asked, masks, N)
               /\ \A b \in 0 .. PageSize - 1 :
                    b \notin s.flipped => raw[b] = compose_raw_page_from_pipeline_page_layout(p, W[N])[b]
  BY DEF LoggedPage
<1>3. InRange(p) /\ Mirrored(p) /\ Recoverable(p, s.flipped)
  BY DEF Promised
<1>4. PICK u : Pairing(p, u)
  BY <1>3 DEF Mirrored, Pairing
<1>5. Ready(p) /\ Filled(p) /\ LayoutAccepted(p)
  <2>1. Ready(p)
    BY SchemeIsReady DEF AccessInv
  <2>2. create_pipeline_obj(p)
    BY DEF AccessInv, SchemeReady
  <2> QED
    BY <2>1, <2>2 DEF Ready, create_pipeline_obj
<1>6. Apart(p)
  BY <1>5, PartsApart
<1>7. History(p, W, masks[s.asked.by])
  BY <1>1, <1>2, <1>3, HistoryKnown DEF Asked, Journal
<1> DEFINE X == W[N]
           T == Ideal(p, W, N)
           F == s.flipped
<1>8. \A z \in Spans(p) : T[z] = X[z]
  BY <1>7, IdealLast
<1>9. Level(p, u, 1) = N
  BY DEF Level
<1> HIDE DEF R, p
<1>10. Near(p, R, T, 1)
  <2>1. /\ F \in SUBSET (0 .. PageSize - 1) /\ Recoverable(p, F)
        /\ \A b \in 0 .. PageSize - 1 : b \notin F => raw[b] = compose_raw_page_from_pipeline_page_layout(p, X)[b]
    BY <1>1, <1>2, <1>3
  <2> HIDE DEF X, T, F
  <2>2. Near(p, extract_raw_page_to_pipeline_page_layout(p, raw), T, 1)
    BY <1>5, <1>6, <1>8, <2>1, ExtractedNear
  <2> QED
    BY <2>2 DEF R
<1>11. Near(p, R, Ideal(p, W, Level(p, u, 1)), 1)
  BY <1>9, <1>10
<1>12. Undone(p, masks, s, R, 1)
  BY <1>2, <1>4, <1>11, Zenon DEF Undone
<1> QED
  BY <1>12 DEF R, p

LEMMA StartReadLogged ==
  ASSUME AccessInv, RoundTripInv, NEW t \in Threads, NEW pg \in Pages, NEW size \in Sizes, StartRead(t, pg, size)
  PROVE  RoundTripInv'
<1> DEFINE i == scheme.owner[pg]
           p == scheme.pipes[i]
           s == stored[pg]
           new == extract_raw_page_to_pipeline_page_layout(p, flash[pg])
           r == [phase |-> "read", op |-> "read", page |-> pg, pipe |-> i, size |-> size,
                 next |-> 1, ans |-> "none", raw |-> Nothing, want |-> s]
<1>1. /\ Arrives(t, "read", pg, size, s) /\ UNCHANGED <<scheme, flash, masks, stored>>
      /\ bufs' = IF i = 0 THEN bufs ELSE [bufs EXCEPT ![t][i] = new]
  BY DEF StartRead, Pipe
<1>2. DOMAIN bufs = Threads /\ (i # 0 => i \in DOMAIN scheme.pipes /\ i \in DOMAIN bufs[t])
  BY SchemeIsReady DEF AccessInv, BuffersReady
<1>3. s # Nothing => i # 0
  BY DEF AccessInv, WorkerInv, SealedPage, HasWriteSpans
<1>4. LoggedPage(p, masks, s, flash[pg])
  BY DEF RoundTripInv
<1>5. s # Nothing /\ Promised(p, s, t) => Undone(p, masks, s, new, 1)
  BY <1>2, <1>3, <1>4, UndoneFirst
<1>6. s # Nothing => Asked(s.asked) /\ 1 \in 1 .. Len(p.readCodecs) + 1
  <2>1. s # Nothing => Len(p.readCodecs) \in Nat
    BY <1>2, <1>3, SchemeIsReady DEF AccessInv, Ready
  <2>2. \A len \in Nat : 1 \in 1 .. len + 1
    OBVIOUS
  <2>3. s # Nothing => 1 \in 1 .. Len(p.readCodecs) + 1
    BY <2>1, <2>2
  <2> QED
    BY <1>4, <2>3 DEF LoggedPage
<1> HIDE DEF new
<1>7. (\A u \in Threads : u # t => bufs'[u] = bufs[u]) /\ (i # 0 => bufs'[t][i] = new)
  BY <1>1, <1>2
<1>8. r.phase = "read" /\ r.op = "read" /\ r.want = s /\ r.next = 1 /\ r.pipe = i
  OBVIOUS
<1>9. r = [phase |-> "read", op |-> "read", page |-> pg, pipe |-> scheme.owner[pg], size |-> size,
           next |-> 1, ans |-> "none", raw |-> Nothing, want |-> s]
  OBVIOUS
<1> HIDE DEF r
<1>10. s # Nothing => LoggedRead(p, masks, r, new, t)
  BY <1>5, <1>6, <1>8 DEF LoggedRead
<1>11. LoggedRequest(scheme.pipes, masks, r, bufs'[t], t)
  BY <1>3, <1>7, <1>8, <1>10 DEF LoggedRequest
<1> QED
  BY <1>1, <1>7, <1>9, <1>11, ArrivalLogged

LEMMA StartWriteLogged ==
  ASSUME AccessInv, RoundTripInv, NEW t \in Threads, NEW pg \in Pages, NEW size \in Sizes, NEW pay \in Payloads,
         StartWrite(t, pg, pay, size)
  PROVE  RoundTripInv'
<1> DEFINE i == scheme.owner[pg]
           p == scheme.pipes[i]
           S == bufs[t][i]
           new == copy_write_data_and_oob_spans(S, p.write, pay, size)
           want == [data |-> pay.data, oob |-> pay.oob, size |-> size, by |-> t]
           r == [phase |-> "write", op |-> "write", page |-> pg, pipe |-> i, size |-> size,
                 next |-> 1, ans |-> "none", raw |-> Nothing, want |-> want]
<1>1. /\ Arrives(t, "write", pg, size, want) /\ i # 0 /\ p.write # Nothing
      /\ ~CopyOutside(S, p.write, size) /\ UNCHANGED <<scheme, flash, masks, stored>>
  BY DEF StartWrite, HasWriteSpans, Pipe
<1>2. i \in DOMAIN scheme.pipes
  BY <1>1, SchemeIsReady DEF AccessInv
<1>3. bufs' = [bufs EXCEPT ![t][i] = new] /\ DOMAIN bufs = Threads /\ i \in DOMAIN bufs[t]
  <2>1. bufs' = [bufs EXCEPT ![t][i] = copy_write_data_and_oob_spans(@, p.write, pay, size)]
    BY DEF StartWrite, Pipe
  <2> QED
    BY <1>2, <2>1 DEF AccessInv, BuffersReady
<1>4. Filled(p) /\ Len(p.writeCodecs) \in Nat /\ Buffers(p, S) /\ set_request_mappings(p, p.write)
  BY <1>1, <1>2, SchemeIsReady DEF AccessInv, BuffersReady, Ready
<1>5. Buffers(p, new)
  BY <1>4, CopyWriteType
<1>6. want.data = pay.data /\ want.oob = pay.oob /\ want.size = size /\ want.by = t
  OBVIOUS
<1>7. r.phase = "write" /\ r.op = "write" /\ r.want = want /\ r.next = 1 /\ r.pipe = i
  OBVIOUS
<1>8. r = [phase |-> "write", op |-> "write", page |-> pg, pipe |-> scheme.owner[pg], size |-> size,
           next |-> 1, ans |-> "none", raw |-> Nothing, want |-> want]
  OBVIOUS
<1> HIDE DEF r, want
<1>9. p.write.data # p.write.oob => Carries(new, p.write, want)
  BY <1>1, <1>4, <1>6, CopyCarries
<1> HIDE DEF new
<1>10. (\A u \in Threads : u # t => bufs'[u] = bufs[u]) /\ bufs'[t][i] = new
  BY <1>3
<1> DEFINE W == [j \in 0 .. 0 |-> new]
<1>11. Journal(p, W, want, masks, 0) /\ W[0] = new
  <2>1. W[0] = new /\ (\A j \in 0 .. 0 : j = 0) /\ 1 .. 0 = {}
    OBVIOUS
  <2> HIDE DEF W
  <2>2. Written(p, W, masks[want.by], 0)
    BY <1>5, <2>1 DEF Written
  <2> QED
    BY <1>9, <2>1, <2>2 DEF Journal
<1>12. LoggedWrite(p, masks, r, new, t)
  <2>0. (1 - 1 = 0) /\ \A len \in Nat : 1 \in 1 .. len + 1
    OBVIOUS
  <2>1. r.next - 1 = 0 /\ r.next \in 1 .. Len(p.writeCodecs) + 1
    BY <1>4, <1>7, <2>0
  <2>2. Asked(r.want)
    BY <1>6, <1>7 DEF Asked
  <2> HIDE DEF W
  <2> QED
    BY <1>6, <1>7, <1>11, <2>1, <2>2 DEF LoggedWrite
<1>13. LoggedRequest(scheme.pipes, masks, r, bufs'[t], t)
  BY <1>7, <1>10, <1>12 DEF LoggedRequest
<1> QED
  BY <1>1, <1>8, <1>10, <1>13, ArrivalLogged

LEMMA RefuseLogged ==
  ASSUME AccessInv, RoundTripInv, NEW t \in Threads, NEW pg \in Pages, NEW size \in Sizes, RefuseWrite(t, pg, size)
  PROVE  RoundTripInv'
<1> DEFINE r == [phase |-> "answered", op |-> "write", page |-> pg, pipe |-> scheme.owner[pg], size |-> size,
                 next |-> 1, ans |-> "EIO", raw |-> Nothing, want |-> Nothing]
<1>1. req' = [req EXCEPT ![t] = r] /\ UNCHANGED <<scheme, flash, bufs, masks, stored>> /\ DOMAIN req = Threads
  BY DEF RefuseWrite, AccessInv, WorkerInv
<1>2. LoggedRequest(scheme.pipes, masks, r, bufs'[t], t)
  BY DEF LoggedRequest
<1> HIDE DEF r
<1> QED
  BY <1>1, <1>2, ThreadLogged

(* A bit decays: its place is noted. *)
LEMMA DecayLogged ==
  ASSUME AccessInv, RoundTripInv, NEW pg \in Pages, NEW b \in 0 .. PageSize - 1, Decay(pg, b)
  PROVE  RoundTripInv'
<1> DEFINE s == stored[pg]
           new == [s EXCEPT !.flipped = @ \cup {b}]
           raw == [flash[pg] EXCEPT ![b] = Flip(@)]
           p == scheme.pipes[scheme.owner[pg]]
<1>1. /\ s # Nothing /\ flash' = [flash EXCEPT ![pg][b] = Flip(@)]
      /\ stored' = [stored EXCEPT ![pg].flipped = @ \cup {b}] /\ UNCHANGED <<scheme, bufs, masks, req>>
  BY DEF Decay
<1>2. DOMAIN flash = Pages /\ DOMAIN stored = Pages
  BY DEF AccessInv, WorkerInv
<1>3. \A q \in Pages : stored'[q] = IF q = pg THEN new ELSE stored[q]
  BY <1>1, <1>2
<1>4. \A q \in Pages : flash'[q] = IF q = pg THEN raw ELSE flash[q]
  BY <1>1, <1>2
<1>5. LoggedPage(p, masks, s, flash[pg])
  BY DEF RoundTripInv
<1>6. DOMAIN s = {"asked", "image", "flipped"} /\ Asked(s.asked) /\ s.flipped \in SUBSET (0 .. PageSize - 1)
  BY <1>1, <1>5 DEF LoggedPage
<1>7. PICK W : /\ Journal(p, W, s.asked, masks, Len(p.writeCodecs))
               /\ \A x \in 0 .. PageSize - 1 :
                    x \notin s.flipped =>
                      flash[pg][x] = compose_raw_page_from_pipeline_page_layout(p, W[Len(p.writeCodecs)])[x]
  BY <1>1, <1>5 DEF LoggedPage
<1>8. /\ new.asked = s.asked /\ new.flipped = s.flipped \cup {b}
      /\ DOMAIN new = {"asked", "image", "flipped"}
  BY <1>6
<1>9. \A x : x # b => raw[x] = flash[pg][x]
  <2>1. flash[pg] \in [0 .. PageSize - 1 -> Bit]
    BY DEF AccessInv, FlashReady, Buffer
  <2> QED
    BY <2>1
<1> HIDE DEF new, raw
<1>10. LoggedPage(p, masks, new, raw)
  <2>1. \A x \in 0 .. PageSize - 1 :
          x \notin new.flipped =>
            raw[x] = compose_raw_page_from_pipeline_page_layout(p, W[Len(p.writeCodecs)])[x]
    BY <1>7, <1>8, <1>9
  <2>2. new.flipped \in SUBSET (0 .. PageSize - 1)
    BY <1>6, <1>8
  <2>3. Journal(p, W, new.asked, masks, Len(p.writeCodecs))
    BY <1>7, <1>8
  <2> QED
    BY <1>6, <1>8, <2>1, <2>2, <2>3 DEF LoggedPage
<1>11. ASSUME NEW q \in Pages
       PROVE  LoggedPage(scheme.pipes[scheme.owner[q]], masks, stored'[q], flash'[q])
  <2>1. CASE q = pg
    BY <1>3, <1>4, <1>10, <2>1
  <2>2. CASE q # pg
    <3>1. LoggedPage(scheme.pipes[scheme.owner[q]], masks, stored[q], flash[q])
      BY Zenon DEF RoundTripInv
    <3> QED
      BY <1>3, <1>4, <2>2, <3>1
  <2> QED
    BY <2>1, <2>2, Zenon
<1> QED
  BY <1>1, <1>11 DEF RoundTripInv

LEMMA EraseLogged ==
  ASSUME AccessInv, RoundTripInv, NEW pg \in Pages, Erase(pg)
  PROVE  RoundTripInv'
<1>1. /\ UNCHANGED <<scheme, bufs, masks, req>>
      /\ flash' = [flash EXCEPT ![pg] = Erased] /\ stored' = [stored EXCEPT ![pg] = Nothing]
  BY DEF Erase
<1>2. \A q \in Pages : stored'[q] = (IF q = pg THEN Nothing ELSE stored[q]) /\ (q # pg => flash'[q] = flash[q])
  <2>1. DOMAIN flash = Pages /\ DOMAIN stored = Pages
    BY DEF AccessInv, WorkerInv
  <2> QED
    BY <1>1, <2>1
<1>3. ASSUME NEW q \in Pages
      PROVE  LoggedPage(scheme.pipes[scheme.owner[q]], masks, stored'[q], flash'[q])
  <2>1. CASE q = pg
    <3>1. stored'[q] = Nothing
      BY <1>2, <2>1
    <3> QED
      BY <3>1, Zenon DEF LoggedPage
  <2>2. CASE q # pg
    <3>1. LoggedPage(scheme.pipes[scheme.owner[q]], masks, stored[q], flash[q])
      BY Zenon DEF RoundTripInv
    <3> QED
      BY <1>2, <2>2, <3>1
  <2> QED
    BY <2>1, <2>2, Zenon
<1> QED
  BY <1>1, <1>3 DEF RoundTripInv

LEMMA RoundTripInvStep == AccessInv /\ RoundTripInv /\ [Next]_vars => RoundTripInv'
<1> SUFFICES ASSUME AccessInv, RoundTripInv, [Next]_vars PROVE RoundTripInv'
  OBVIOUS
<1>1. CASE \E t \in Threads : Serve(t)
  BY <1>1, ReadCodecLogged, WriteCodecLogged, NackLogged, FinishReadLogged, FinishWriteLogged DEF Serve
<1>2. CASE \E t \in Threads, pg \in Pages, size \in Sizes :
             StartRead(t, pg, size) \/ StartWriteOutside(t, pg, size) \/ RefuseWrite(t, pg, size)
  <2>1. ASSUME NEW t, NEW pg, NEW size, StartWriteOutside(t, pg, size) PROVE RoundTripInv'
    BY <2>1, NothingLogged DEF StartWriteOutside, Fault
  <2> QED
    BY <1>2, <2>1, StartReadLogged, RefuseLogged
<1>3. CASE \E t \in Threads, pg \in Pages, size \in Sizes, pay \in Payloads : StartWrite(t, pg, pay, size)
  BY <1>3, StartWriteLogged
<1>4. CASE \E pg \in Pages, b \in 0 .. PageSize - 1 : Decay(pg, b)
  BY <1>4, DecayLogged
<1>5. CASE \E pg \in Pages : Erase(pg)
  BY <1>5, EraseLogged
<1>6. CASE UNCHANGED vars
  BY <1>6, NothingLogged DEF vars
<1> QED
  BY <1>1, <1>2, <1>3, <1>4, <1>5, <1>6 DEF Next

(***************************************************************************)
(* The round trip of queues.c and the codecs, for every number of threads, *)
(* pages, parts, spans and codecs and every order of requests: where the   *)
(* read codecs undo the write codecs, all lies inside of the spans and xor *)
(* masks have one byte and are those of the thread that wrote (xor_read    *)
(* uses the first byte only, and masks are what malloc returned), a        *)
(* read that follows an acknowledged write is acknowledged and returns the *)
(* data and OOB that were written, also after one bit that a Hamming code  *)
(* protects has decayed, and whatever the span buffers held before.        *)
(***************************************************************************)
THEOREM ReadingUndoesWriting == Spec => []ReadReturnsWritten
<1>1. AccessInv /\ RoundTripInv => ReadReturnsWritten
  <2> SUFFICES ASSUME AccessInv, RoundTripInv, NEW t \in Threads,
                      req[t].ans # "none", req[t].op = "read", req[t].want # Nothing, XorHarmless(t),
                      InRange(Pipe(req[t].pipe)), Mirrored(Pipe(req[t].pipe)),
                      Recoverable(Pipe(req[t].pipe), req[t].want.flipped)
               PROVE  Returned(req[t])
    BY DEF ReadReturnsWritten, RoundTrip
  <2>1. LoggedRequest(scheme.pipes, masks, req[t], bufs[t], t)
    BY DEF RoundTripInv
  <2>2. req[t].phase = "answered"
    <3>1. req[t].phase \in Phases /\ (Busy(req[t]) => req[t].ans = "none")
      BY DEF AccessInv, RequestReady, WorkerInv, SoundRequest
    <3>2. req[t].phase # "idle"
      BY <2>1 DEF LoggedRequest
    <3> QED
      BY <3>1, <3>2 DEF Phases, Busy
  <2>3. Promised(scheme.pipes[req[t].pipe], req[t].want, t)
    BY DEF Promised, XorHarmless, Pipe
  <2> QED
    BY <2>1, <2>2, <2>3 DEF LoggedRequest
<1> QED
  BY <1>1, AccessInvInit, AccessInvStep, RoundTripInvInit, RoundTripInvStep, PTL DEF Spec
=============================================================================
