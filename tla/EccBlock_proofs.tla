-------------------------- MODULE EccBlock_proofs --------------------------
(***************************************************************************)
(* What the Hamming codec promises about flipped bits, for every block     *)
(* size, every set of unused code bits and every number of flips.          *)
(***************************************************************************)
EXTENDS EccBlock, FiniteSetTheorems, FunctionTheorems, TLAPS

(***************************************************************************)
(* The inductive invariant: until the decoder runs, data and code are what *)
(* was written and its code, except for the bits that flips records.       *)
(***************************************************************************)
DataRecorded ==
  data = {a \in Addrs : ~(a \in written <=> <<"data", a>> \in flips)}

ParRecorded ==
  LET fresh == ecc_sw_hamming_calculate(written, swapped)
  IN \A j \in 0 .. K - 1, v \in Bit :
       (code.par[j][v] = fresh.par[j][v]) <=> <<"code", j, v>> \notin flips

PadRecorded == \A p \in Pads : (code.pad[p] = 1) <=> <<"pad", p>> \notin flips

FlipKnown(f) ==
  \/ \E a \in Addrs : f = <<"data", a>>
  \/ \E j \in 0 .. K - 1, v \in Bit : f = <<"code", j, v>>
  \/ \E p \in Pads : f = <<"pad", p>>

BlockInv ==
  /\ TypeOK /\ IsFiniteSet(flips) /\ \A f \in flips : FlipKnown(f)
  /\ stat = "new" => flips = {} /\ data = written
  /\ stat = "stored" => DataRecorded /\ ParRecorded /\ PadRecorded
  /\ SingleFlipRepaired /\ DoubleFlipNotHidden

-----------------------------------------------------------------------------
(* Parities *)

LEMMA AddrsFinite == IsFiniteSet(Addrs)
<1>1. IsFiniteSet(0 .. K - 1)
  BY KAssumption, FS_Interval
<1> QED
  BY <1>1, FS_SUBSET DEF Addrs

(* A set of addresses is finite, as are its halves. *)
LEMMA DataFinite ==
  ASSUME NEW d, d \subseteq Addrs
  PROVE  IsFiniteSet(d)
BY AddrsFinite, FS_Subset

LEMMA ParityType ==
  ASSUME NEW d, d \subseteq Addrs, NEW j, NEW v
  PROVE  Parity(d, j, v) \in Bit
<1> DEFINE S == {a \in d : AddrBit(a, j) = v}
<1>1. Cardinality(S) \in Nat
  BY DataFinite, FS_CardinalityType, S \subseteq Addrs
<1>2. \A n \in Nat : n % 2 \in {0, 1}
  OBVIOUS
<1> QED
  BY <1>1, <1>2 DEF Parity, Bit

(* Adding or removing one element changes the parity of the cardinality. *)
LEMMA ToggleCardinality ==
  ASSUME NEW d, IsFiniteSet(d), NEW a
  PROVE  Cardinality(Toggle(d, a)) % 2 # Cardinality(d) % 2
<1>0. Cardinality(d) \in Nat
  BY FS_CardinalityType
<1>1. CASE a \in d
  <2>1. Toggle(d, a) = d \ {a}
    BY <1>1 DEF Toggle
  <2>2. Cardinality(d \ {a}) = Cardinality(d) - 1
    BY <1>1, FS_RemoveElement
  <2> QED
    BY <1>0, <2>1, <2>2
<1>2. CASE a \notin d
  <2>1. Toggle(d, a) = d \cup {a}
    BY <1>2 DEF Toggle
  <2>2. Cardinality(d \cup {a}) = Cardinality(d) + 1
    BY <1>2, FS_AddElement
  <2> QED
    BY <1>0, <2>1, <2>2
<1> QED
  BY <1>1, <1>2

(* Inverting the bit at an address changes the parities that cover it, and *)
(* no others.                                                              *)
LEMMA ToggleParity ==
  ASSUME NEW d, d \subseteq Addrs, NEW a, NEW j, NEW v
  PROVE  (Parity(Toggle(d, a), j, v) = Parity(d, j, v)) <=> AddrBit(a, j) # v
<1> DEFINE S(x) == {b \in x : AddrBit(b, j) = v}
<1>1. CASE AddrBit(a, j) = v
  <2>1. S(Toggle(d, a)) = Toggle(S(d), a)
    BY <1>1, Zenon DEF Toggle
  <2>2. IsFiniteSet(S(d))
    BY DataFinite, S(d) \subseteq Addrs
  <2> HIDE DEF S
  <2>3. Cardinality(S(Toggle(d, a))) % 2 # Cardinality(S(d)) % 2
    BY <2>1, <2>2, ToggleCardinality
  <2> QED
    BY <1>1, <2>3 DEF S, Parity
<1>2. CASE AddrBit(a, j) # v
  <2>1. S(Toggle(d, a)) = S(d)
    BY <1>2, Zenon DEF Toggle
  <2> QED
    BY <1>2, <2>1 DEF Parity
<1> QED
  BY <1>1, <1>2

LEMMA AddrBitType ==
  ASSUME NEW a, NEW j
  PROVE  AddrBit(a, j) \in Bit
BY DEF AddrBit, Bit

LEMMA ToggleType ==
  ASSUME NEW d, d \subseteq Addrs, NEW a \in Addrs
  PROVE  Toggle(d, a) \subseteq Addrs
BY DEF Toggle

LEMMA ToggleTwice ==
  ASSUME NEW d, NEW a
  PROVE  Toggle(Toggle(d, a), a) = d
BY Zenon DEF Toggle

LEMMA CalculateType ==
  ASSUME NEW d, d \subseteq Addrs, NEW s \in BOOLEAN
  PROVE  ecc_sw_hamming_calculate(d, s) \in
           [par : [0 .. K - 1 -> [Bit -> Bit]], pad : [Pads -> Bit]]
<1>1. \A j, v : Flip(Parity(d, j, v)) \in Bit
  BY ParityType DEF Flip, Bit
<1> QED
  BY <1>1 DEF ecc_sw_hamming_calculate, Bit

-----------------------------------------------------------------------------
(* Cardinalities *)

LEMMA OneElement ==
  ASSUME NEW S, IsFiniteSet(S), Cardinality(S) <= 1, S # {}
  PROVE  \E x : S = {x}
<1> PICK x \in S : TRUE
  OBVIOUS
<1>1. IsFiniteSet(S \ {x}) /\ Cardinality(S \ {x}) = Cardinality(S) - 1
  BY FS_RemoveElement
<1>2. Cardinality(S) \in Nat /\ Cardinality(S \ {x}) \in Nat
  BY <1>1, FS_CardinalityType
<1>3. Cardinality(S \ {x}) = 0
  BY <1>1, <1>2
<1>4. S \ {x} = {}
  BY <1>1, <1>3, FS_EmptySet
<1> QED
  BY <1>4

LEMMA TwoElements ==
  ASSUME NEW S, IsFiniteSet(S), Cardinality(S) = 2
  PROVE  \E x, y : x # y /\ S = {x, y}
<1>1. S # {}
  BY FS_EmptySet
<1> PICK x \in S : TRUE
  BY <1>1
<1> DEFINE R == S \ {x}
<1>2. IsFiniteSet(R) /\ Cardinality(R) = 1
  BY FS_RemoveElement
<1>3. R # {}
  BY <1>2, FS_EmptySet
<1>4. \E y : R = {y}
  <2> HIDE DEF R
  <2>1. Cardinality(R) <= 1
    BY <1>2
  <2> QED
    BY <1>2, <1>3, <2>1, OneElement
<1> QED
  BY <1>4

LEMMA AtLeastTwo ==
  ASSUME NEW S, IsFiniteSet(S), NEW x \in S, NEW y \in S, x # y
  PROVE  Cardinality(S) \in Nat /\ Cardinality(S) >= 2
<1>1. IsFiniteSet(S \ {x}) /\ Cardinality(S \ {x}) = Cardinality(S) - 1
  BY FS_RemoveElement
<1>2. Cardinality(S) \in Nat /\ Cardinality(S \ {x}) \in Nat
  BY <1>1, FS_CardinalityType
<1>3. Cardinality(S \ {x}) # 0
  BY <1>1, FS_EmptySet
<1> QED
  BY <1>1, <1>2, <1>3

-----------------------------------------------------------------------------
(* The decoder.  All of these lemmas are about a stored block, read in the *)
(* byte order in which it was written.                                     *)

Stored == BlockInv /\ stat = "stored" /\ ~swapped

Calc == ecc_sw_hamming_calculate(data, swapped)

Syn == ParitySyndrome(code, Calc)

Pad == PadSyndrome(code, Calc)

Result == ecc_sw_hamming_correct(data, code, Calc)

LEMMA SyndromesFinite == IsFiniteSet(Syn) /\ IsFiniteSet(Pad)
<1>1. IsFiniteSet(0 .. K - 1)
  BY KAssumption, FS_Interval
<1>2. IsFiniteSet(Bit)
  <2>1. Bit = {0} \cup {1}
    BY DEF Bit
  <2>2. IsFiniteSet({0} \cup {1})
    BY FS_Singleton, FS_AddElement
  <2> QED
    BY <2>1, <2>2, Zenon
<1>3. IsFiniteSet((0 .. K - 1) \X Bit)
  BY <1>1, <1>2, FS_Product
<1>4. Syn \subseteq (0 .. K - 1) \X Bit /\ Pad \subseteq Pads
  BY DEF Syn, Pad, ParitySyndrome, PadSyndrome
<1> QED
  BY <1>3, <1>4, KAssumption, FS_Subset

(* A parity differs when its code bit flipped or the data it covers changed *)
(* its parity, and not when both did.                                      *)
LEMMA SyndromeMembers ==
  ASSUME Stored, NEW j \in 0 .. K - 1, NEW v \in Bit
  PROVE  <<j, v>> \in Syn
           <=> ~(<<"code", j, v>> \in flips <=> Parity(data, j, v) # Parity(written, j, v))
<1>1. Parity(data, j, v) \in Bit /\ Parity(written, j, v) \in Bit
  BY ParityType DEF Stored, BlockInv, TypeOK
<1>2. /\ Calc.par[j][v] = Flip(Parity(data, j, v))
      /\ ecc_sw_hamming_calculate(written, swapped).par[j][v] = Flip(Parity(written, j, v))
  BY DEF Stored, Calc, ecc_sw_hamming_calculate, Half
<1>3. code.par[j][v] \in Bit
  <2>1. code.par \in [0 .. K - 1 -> [Bit -> Bit]]
    BY DEF Stored, BlockInv, TypeOK
  <2> QED
    BY <2>1
<1>4. (code.par[j][v] = ecc_sw_hamming_calculate(written, swapped).par[j][v])
        <=> <<"code", j, v>> \notin flips
  BY DEF Stored, BlockInv, ParRecorded
<1>5. <<j, v>> \in Syn <=> code.par[j][v] # Calc.par[j][v]
  BY DEF Syn, ParitySyndrome
<1> QED
  BY <1>1, <1>2, <1>3, <1>4, <1>5 DEF Flip, Bit

LEMMA SyndromePairs ==
  ASSUME NEW s \in Syn
  PROVE  \E j \in 0 .. K - 1, v \in Bit : s = <<j, v>>
BY DEF Syn, ParitySyndrome

LEMMA PadMembers ==
  ASSUME Stored
  PROVE  Pad = {p \in Pads : <<"pad", p>> \in flips}
<1>1. \A p \in Pads : Calc.pad[p] = 1
  BY DEF Calc, ecc_sw_hamming_calculate
<1> QED
  BY <1>1 DEF Pad, PadSyndrome, Stored, BlockInv, PadRecorded

(* What the decoder answers, by the shape of the two syndromes. *)
LEMMA Answers ==
  /\ Syn = {} /\ Pad = {} => Result.data = data /\ Result.stat = "clean"
  /\ Syn # {} /\ SingleError(Syn) =>
       Result.data = Toggle(data, ErrorAddr(Syn)) /\ Result.stat = "fixed"
  /\ ~SingleError(Syn) /\ (Syn # {} \/ Pad # {}) =>
       /\ Result.data = data
       /\ Result.stat = IF Cardinality(Syn) + Cardinality(Pad) = 1 THEN "fixed" ELSE "EBADMSG"
  /\ Result.stat \in {"clean", "fixed", "EBADMSG"}
  /\ Result.data \in {data, Toggle(data, ErrorAddr(Syn))}
BY DEF Result, ecc_sw_hamming_correct, Syn, Pad

LEMMA NoDataFlip ==
  ASSUME Stored, \A a \in Addrs : <<"data", a>> \notin flips
  PROVE  /\ data = written
         /\ \A j \in 0 .. K - 1, v \in Bit : <<j, v>> \in Syn <=> <<"code", j, v>> \in flips
<1>1. data = written
  BY DEF Stored, BlockInv, TypeOK, DataRecorded
<1> QED
  BY <1>1, SyndromeMembers

(* One data flip: a parity differs when it covers the flipped bit or its   *)
(* own bit flipped.                                                        *)
LEMMA OneDataFlip ==
  ASSUME Stored, NEW a \in Addrs,
         \A b \in Addrs : <<"data", b>> \in flips <=> b = a
  PROVE  /\ data = Toggle(written, a)
         /\ \A j \in 0 .. K - 1, v \in Bit :
              <<j, v>> \in Syn <=> ~(<<"code", j, v>> \in flips <=> AddrBit(a, j) = v)
<1>1. data = Toggle(written, a)
  BY DEF Stored, BlockInv, TypeOK, DataRecorded, Toggle
<1>2. written \subseteq Addrs
  BY DEF Stored, BlockInv, TypeOK
<1>3. \A j, v : (Parity(data, j, v) = Parity(written, j, v)) <=> AddrBit(a, j) # v
  BY <1>1, <1>2, ToggleParity
<1> QED
  BY <1>1, <1>3, SyndromeMembers

(* Without a flip of the code, one data flip is found and undone. *)
LEMMA OneDataFlipRepaired ==
  ASSUME Stored, NEW a \in Addrs,
         \A b \in Addrs : <<"data", b>> \in flips <=> b = a,
         \A j \in 0 .. K - 1, v \in Bit : <<"code", j, v>> \notin flips
  PROVE  Result.data = written /\ Result.stat = "fixed"
<1>1. \A j \in 0 .. K - 1, v \in Bit : <<j, v>> \in Syn <=> AddrBit(a, j) = v
  BY OneDataFlip
<1>2. SingleError(Syn)
  <2> SUFFICES ASSUME NEW j \in 0 .. K - 1
               PROVE  <<j, 0>> \in Syn <=> <<j, 1>> \notin Syn
    BY DEF SingleError
  <2>1. (<<j, 0>> \in Syn <=> AddrBit(a, j) = 0) /\ (<<j, 1>> \in Syn <=> AddrBit(a, j) = 1)
    BY <1>1 DEF Bit
  <2> QED
    BY <2>1 DEF AddrBit
<1>3. ErrorAddr(Syn) = a
  <2>1. \A j \in 0 .. K - 1 : <<j, 1>> \in Syn <=> j \in a
    <3>1. \A j \in 0 .. K - 1 : <<j, 1>> \in Syn <=> AddrBit(a, j) = 1
      BY <1>1 DEF Bit
    <3>2. \A j : AddrBit(a, j) = 1 <=> j \in a
      BY DEF AddrBit
    <3> QED
      BY <3>1, <3>2
  <2>2. a \subseteq 0 .. K - 1
    BY DEF Addrs
  <2> QED
    BY <2>1, <2>2, Zenon DEF ErrorAddr
<1>4. Syn # {}
  <2>1. 0 \in 0 .. K - 1 /\ AddrBit(a, 0) \in Bit
    BY KAssumption, AddrBitType
  <2> QED
    BY <1>1, <2>1
<1> QED
  BY <1>2, <1>3, <1>4, Answers, OneDataFlip, ToggleTwice

(* Two data flips: the addresses differ in some bit, whose parities both   *)
(* differ.                                                                 *)
LEMMA TwoDataFlipsRefused ==
  ASSUME Stored, NEW a \in Addrs, NEW b \in Addrs, a # b,
         \A c \in Addrs : <<"data", c>> \in flips <=> c \in {a, b},
         \A j \in 0 .. K - 1, v \in Bit : <<"code", j, v>> \notin flips
  PROVE  Result.stat = "EBADMSG"
<1>1. data = Toggle(Toggle(written, a), b)
  BY Zenon DEF Stored, BlockInv, TypeOK, DataRecorded, Toggle
<1>2. written \subseteq Addrs /\ Toggle(written, a) \subseteq Addrs
  BY ToggleType DEF Stored, BlockInv, TypeOK
<1>3. PICK j \in 0 .. K - 1 : AddrBit(a, j) # AddrBit(b, j)
  <2>1. a \subseteq 0 .. K - 1 /\ b \subseteq 0 .. K - 1
    BY DEF Addrs
  <2>2. PICK j \in 0 .. K - 1 : ~(j \in a <=> j \in b)
    BY <2>1, a # b
  <2> QED
    BY <2>2 DEF AddrBit
<1>4. \A v : /\ (Parity(data, j, v) = Parity(Toggle(written, a), j, v)) <=> AddrBit(b, j) # v
             /\ (Parity(Toggle(written, a), j, v) = Parity(written, j, v)) <=> AddrBit(a, j) # v
  BY <1>1, <1>2, ToggleParity
<1>5. \A v \in Bit : <<j, v>> \in Syn
  BY <1>3, <1>4, SyndromeMembers, AddrBitType DEF Bit
<1>6. <<j, 0>> \in Syn /\ <<j, 1>> \in Syn /\ <<j, 0>> # <<j, 1>>
  BY <1>5 DEF Bit
<1>7. ~SingleError(Syn)
  BY <1>6 DEF SingleError
<1>8. Cardinality(Syn) \in Nat /\ Cardinality(Syn) >= 2
  BY <1>6, AtLeastTwo, SyndromesFinite
<1>9. Cardinality(Pad) \in Nat
  BY SyndromesFinite, FS_CardinalityType
<1> QED
  BY <1>6, <1>7, <1>8, <1>9, Answers

(* A data flip and a code flip: the pair of the flipped code bit differs in *)
(* both halves or in none, and two other pairs differ in one.              *)
LEMMA DataAndCodeFlipRefused ==
  ASSUME Stored, NEW a \in Addrs, NEW k \in 0 .. K - 1, NEW u \in Bit,
         \A b \in Addrs : <<"data", b>> \in flips <=> b = a,
         \A j \in 0 .. K - 1, v \in Bit : <<"code", j, v>> \in flips <=> (j = k /\ v = u)
  PROVE  Result.stat = "EBADMSG"
<1>1. \A j \in 0 .. K - 1, v \in Bit :
        <<j, v>> \in Syn <=> ~((j = k /\ v = u) <=> AddrBit(a, j) = v)
  BY OneDataFlip
<1>2. ~SingleError(Syn)
  <2>1. <<k, 0>> \in Syn <=> <<k, 1>> \in Syn
    BY <1>1, AddrBitType DEF Bit
  <2> QED
    BY <2>1 DEF SingleError
<1>3. PICK j, i \in 0 .. K - 1 : j # k /\ i # k /\ i # j
  <2>1. {0, 1, 2} \subseteq 0 .. K - 1
    BY KAssumption, BlockAssumption
  <2> QED
    BY <2>1
<1>4. <<j, AddrBit(a, j)>> \in Syn /\ <<i, AddrBit(a, i)>> \in Syn
  BY <1>1, <1>3, AddrBitType
<1>5. <<j, AddrBit(a, j)>> # <<i, AddrBit(a, i)>>
  BY <1>3
<1>6. Cardinality(Syn) \in Nat /\ Cardinality(Syn) >= 2
  BY <1>4, <1>5, AtLeastTwo, SyndromesFinite
<1>7. Cardinality(Pad) \in Nat
  BY SyndromesFinite, FS_CardinalityType
<1> QED
  BY <1>2, <1>4, <1>6, <1>7, Answers

(* Without a flip of the data the decoder leaves the data alone, as long as *)
(* some parity pair is untouched.                                          *)
LEMMA CodeFlipsHarmless ==
  ASSUME Stored, \A a \in Addrs : <<"data", a>> \notin flips,
         NEW i \in 0 .. K - 1, \A v \in Bit : <<"code", i, v>> \notin flips
  PROVE  Result.data = written /\ ~SingleError(Syn)
<1>1. <<i, 0>> \notin Syn /\ <<i, 1>> \notin Syn
  BY NoDataFlip DEF Bit
<1>2. ~SingleError(Syn)
  BY <1>1 DEF SingleError
<1> QED
  BY <1>2, NoDataFlip, Answers

-----------------------------------------------------------------------------
(* At most one flip: nothing to repair, or the flip is found. *)
LEMMA DecodeSingle ==
  ASSUME Stored, Cardinality(flips) <= 1
  PROVE  Result.data = written /\ Result.stat = IF flips = {} THEN "clean" ELSE "fixed"
<1>0. IsFiniteSet(flips) /\ 0 \in 0 .. K - 1 /\ 1 \in 0 .. K - 1
  BY KAssumption, BlockAssumption DEF Stored, BlockInv
<1>1. CASE flips = {}
  <2>1. data = written /\ Pad = {}
    BY <1>1, NoDataFlip, PadMembers
  <2>2. Syn = {}
    BY <1>1, NoDataFlip, SyndromePairs
  <2> QED
    BY <1>1, <2>1, <2>2, Answers
<1>2. CASE flips # {}
  <2>1. PICK f : flips = {f}
    BY <1>0, <1>2, OneElement
  <2>2. FlipKnown(f)
    BY <2>1 DEF Stored, BlockInv
  <2>3. CASE \E a \in Addrs : f = <<"data", a>>
    <3> PICK a \in Addrs : f = <<"data", a>>
      BY <2>3
    <3>1. \A b \in Addrs : <<"data", b>> \in flips <=> b = a
      BY <2>1
    <3>2. \A j \in 0 .. K - 1, v \in Bit : <<"code", j, v>> \notin flips
      BY <2>1
    <3> QED
      BY <1>2, <3>1, <3>2, OneDataFlipRepaired
  <2>4. CASE \E j \in 0 .. K - 1, v \in Bit : f = <<"code", j, v>>
    <3> PICK k \in 0 .. K - 1, u \in Bit : f = <<"code", k, u>>
      BY <2>4
    <3>1. /\ \A a \in Addrs : <<"data", a>> \notin flips
          /\ \A j \in 0 .. K - 1, v \in Bit : <<"code", j, v>> \in flips <=> (j = k /\ v = u)
          /\ \A p \in Pads : <<"pad", p>> \notin flips
      BY <2>1
    <3>2. Syn = {<<k, u>>}
      <4>1. \A j \in 0 .. K - 1, v \in Bit : <<j, v>> \in Syn <=> (j = k /\ v = u)
        BY <3>1, NoDataFlip
      <4> QED
        BY <4>1, SyndromePairs
    <3>3. Pad = {}
      BY <3>1, PadMembers
    <3>4. \E i \in 0 .. K - 1 : i # k
      BY <1>0
    <3>5. Result.data = written /\ ~SingleError(Syn)
      BY <3>1, <3>4, CodeFlipsHarmless
    <3>6. Cardinality(Syn) + Cardinality(Pad) = 1
      <4>1. Cardinality(Syn) = 1
        BY <3>2, FS_Singleton
      <4>2. Cardinality(Pad) = 0
        BY <3>3, FS_EmptySet
      <4> QED
        BY <4>1, <4>2
    <3> QED
      BY <1>2, <3>2, <3>5, <3>6, Answers
  <2>5. CASE \E p \in Pads : f = <<"pad", p>>
    <3> PICK p \in Pads : f = <<"pad", p>>
      BY <2>5
    <3>1. /\ \A a \in Addrs : <<"data", a>> \notin flips
          /\ \A j \in 0 .. K - 1, v \in Bit : <<"code", j, v>> \notin flips
          /\ \A q \in Pads : <<"pad", q>> \in flips <=> q = p
      BY <2>1
    <3>2. Syn = {}
      <4>1. \A j \in 0 .. K - 1, v \in Bit : <<j, v>> \notin Syn
        BY <3>1, NoDataFlip
      <4> QED
        BY <4>1, SyndromePairs
    <3>3. Pad = {p}
      BY <3>1, PadMembers
    <3>4. Result.data = written /\ ~SingleError(Syn)
      BY <1>0, <3>1, CodeFlipsHarmless
    <3>5. Cardinality(Syn) + Cardinality(Pad) = 1
      <4>1. Cardinality(Syn) = 0
        BY <3>2, FS_EmptySet
      <4>2. Cardinality(Pad) = 1
        BY <3>3, FS_Singleton
      <4> QED
        BY <4>1, <4>2
    <3> QED
      BY <1>2, <3>3, <3>4, <3>5, Answers
  <2> QED
    BY <2>2, <2>3, <2>4, <2>5 DEF FlipKnown
<1> QED
  BY <1>1, <1>2

(* Two flips: a repair that happens is right. *)
LEMMA DecodeDouble ==
  ASSUME Stored, Cardinality(flips) = 2
  PROVE  Result.stat = "EBADMSG" \/ Result.data = written
<1>1. PICK f, g : f # g /\ flips = {f, g}
  BY TwoElements DEF Stored, BlockInv
<1>2. FlipKnown(f) /\ FlipKnown(g)
  BY <1>1 DEF Stored, BlockInv
<1> DEFINE IsData(x) == \E a \in Addrs : x = <<"data", a>>
           IsCode(x) == \E j \in 0 .. K - 1, v \in Bit : x = <<"code", j, v>>
           IsPad(x) == \E p \in Pads : x = <<"pad", p>>
<1>3. ASSUME NEW x, NEW y, flips = {x, y}, x # y, IsData(x), FlipKnown(y)
      PROVE  Result.stat = "EBADMSG" \/ Result.data = written
  <2> PICK a \in Addrs : x = <<"data", a>>
    BY <1>3
  <2>1. CASE IsData(y)
    <3> PICK b \in Addrs : y = <<"data", b>>
      BY <2>1
    <3>1. a # b
      BY <1>3
    <3>2. \A c \in Addrs : <<"data", c>> \in flips <=> c \in {a, b}
      BY <1>3
    <3>3. \A j \in 0 .. K - 1, v \in Bit : <<"code", j, v>> \notin flips
      BY <1>3
    <3> QED
      BY <3>1, <3>2, <3>3, TwoDataFlipsRefused
  <2>2. CASE IsCode(y)
    <3> PICK k \in 0 .. K - 1, u \in Bit : y = <<"code", k, u>>
      BY <2>2
    <3>1. \A b \in Addrs : <<"data", b>> \in flips <=> b = a
      BY <1>3
    <3>2. \A j \in 0 .. K - 1, v \in Bit : <<"code", j, v>> \in flips <=> (j = k /\ v = u)
      BY <1>3
    <3> QED
      BY <3>1, <3>2, DataAndCodeFlipRefused
  <2>3. CASE IsPad(y)
    <3>1. \A b \in Addrs : <<"data", b>> \in flips <=> b = a
      BY <1>3, <2>3
    <3>2. \A j \in 0 .. K - 1, v \in Bit : <<"code", j, v>> \notin flips
      BY <1>3, <2>3
    <3> QED
      BY <3>1, <3>2, OneDataFlipRepaired
  <2> QED
    BY <1>3, <2>1, <2>2, <2>3 DEF FlipKnown
<1>4. CASE ~IsData(f) /\ ~IsData(g)
  <2>1. \A a \in Addrs : <<"data", a>> \notin flips
    BY <1>1, <1>4
  <2>2. \E i \in 0 .. K - 1 : \A v \in Bit : <<"code", i, v>> \notin flips
    <3>1. {0, 1, 2} \subseteq 0 .. K - 1
      BY KAssumption, BlockAssumption
    <3>2. PICK j : \A i, v : f = <<"code", i, v>> => i = j
      OBVIOUS
    <3>3. PICK k : \A i, v : g = <<"code", i, v>> => i = k
      OBVIOUS
    <3>4. PICK i \in {0, 1, 2} : i # j /\ i # k
      OBVIOUS
    <3> QED
      BY <1>1, <3>1, <3>2, <3>3, <3>4
  <2> QED
    BY <2>1, <2>2, CodeFlipsHarmless
<1> HIDE DEF IsData, IsCode, IsPad
<1> QED
  BY <1>1, <1>2, <1>3, <1>4

-----------------------------------------------------------------------------
(* The invariant holds *)

LEMMA DecodeType ==
  ASSUME TypeOK, Decode
  PROVE  TypeOK'
<1>1. data' = Result.data /\ stat' = Result.stat
  BY DEF Decode, Result, Calc
<1>2. ErrorAddr(Syn) \in Addrs
  BY DEF ErrorAddr, Addrs
<1>3. Toggle(data, ErrorAddr(Syn)) \subseteq Addrs
  BY <1>2, ToggleType DEF TypeOK
<1>4. Result.data \subseteq Addrs /\ Result.stat \in {"clean", "fixed", "EBADMSG"}
  BY <1>3, Answers DEF TypeOK
<1>5. swapped' = swapped /\ written' = written /\ code' = code
  BY DEF Decode
<1> QED
  BY <1>1, <1>4, <1>5 DEF TypeOK

(* A new bit in flips, and the data or the code changed there. *)
LEMMA FlipInv ==
  ASSUME BlockInv, stat = "stored", NEW f, FlipKnown(f), f \notin flips,
         flips' = flips \cup {f}, UNCHANGED <<swapped, written, stat>>,
         TypeOK', DataRecorded', ParRecorded', PadRecorded'
  PROVE  BlockInv'
<1>1. IsFiniteSet(flips')
  BY FS_AddElement DEF BlockInv
<1>2. \A g \in flips' : FlipKnown(g)
  BY DEF BlockInv
<1>3. \A g : FlipKnown(g)' <=> FlipKnown(g)
  BY DEF FlipKnown
<1> QED
  BY <1>1, <1>2, <1>3 DEF BlockInv, SingleFlipRepaired, DoubleFlipNotHidden, Decoded

LEMMA InitInv == Init => BlockInv
<1> SUFFICES ASSUME Init PROVE BlockInv
  OBVIOUS
<1>1. {} \subseteq Addrs /\ written \subseteq Addrs /\ FALSE \in BOOLEAN
  BY DEF Init
<1>2. code \in [par : [0 .. K - 1 -> [Bit -> Bit]], pad : [Pads -> Bit]]
  BY <1>1, CalculateType DEF Init
<1>3. IsFiniteSet(flips)
  BY FS_EmptySet DEF Init
<1> QED
  BY <1>1, <1>2, <1>3
  DEF Init, BlockInv, TypeOK, SingleFlipRepaired, DoubleFlipNotHidden, Decoded

LEMMA EncodeInv == BlockInv /\ Encode => BlockInv'
<1> SUFFICES ASSUME BlockInv, Encode PROVE BlockInv'
  OBVIOUS
<1>0. /\ flips = {} /\ data = written /\ stat' = "stored" /\ flips' = {}
      /\ data' = written /\ written' = written /\ swapped' = swapped
      /\ code' = ecc_sw_hamming_calculate(written, swapped)
      /\ TypeOK
  BY DEF Encode, BlockInv
<1>1. code' \in [par : [0 .. K - 1 -> [Bit -> Bit]], pad : [Pads -> Bit]]
  BY <1>0, CalculateType DEF TypeOK
<1>2. TypeOK'
  BY <1>0, <1>1 DEF TypeOK
<1>3. DataRecorded'
  BY <1>0 DEF DataRecorded, TypeOK
<1>4. ParRecorded'
  BY <1>0, Zenon DEF ParRecorded
<1>5. PadRecorded'
  BY <1>0 DEF PadRecorded, ecc_sw_hamming_calculate
<1>6. IsFiniteSet(flips')
  BY <1>0, FS_EmptySet
<1> QED
  BY <1>0, <1>2, <1>3, <1>4, <1>5, <1>6
  DEF BlockInv, SingleFlipRepaired, DoubleFlipNotHidden, Decoded

LEMMA FlipDataInv ==
  ASSUME BlockInv, NEW a \in Addrs, FlipData(a)
  PROVE  BlockInv'
<1>0. /\ stat = "stored" /\ <<"data", a>> \notin flips /\ data' = Toggle(data, a)
      /\ flips' = flips \cup {<<"data", a>>} /\ UNCHANGED <<swapped, written, code, stat>>
      /\ TypeOK /\ DataRecorded /\ ParRecorded /\ PadRecorded
  BY DEF FlipData, CanFlip, BlockInv
<1>1. TypeOK'
  BY <1>0, ToggleType DEF TypeOK
<1>2. DataRecorded'
  <2>1. \A b \in Addrs : <<"data", b>> \in flips' <=> (<<"data", b>> \in flips \/ b = a)
    BY <1>0
  <2>2. \A b \in Addrs : b \in data <=> ~(b \in written <=> <<"data", b>> \in flips)
    BY <1>0 DEF DataRecorded
  <2>3. \A b \in Addrs : b \in data' <=> ~(b \in written <=> <<"data", b>> \in flips')
    BY <1>0, <2>1, <2>2 DEF Toggle
  <2> QED
    BY <1>0, <1>1, <2>3 DEF DataRecorded, TypeOK
<1>3. ParRecorded'
  <2>1. \A j, v : <<"code", j, v>> \in flips' <=> <<"code", j, v>> \in flips
    BY <1>0
  <2> QED
    BY <1>0, <2>1 DEF ParRecorded
<1>4. PadRecorded'
  <2>1. \A p : <<"pad", p>> \in flips' <=> <<"pad", p>> \in flips
    BY <1>0
  <2> QED
    BY <1>0, <2>1 DEF PadRecorded
<1>5. FlipKnown(<<"data", a>>)
  BY DEF FlipKnown
<1> QED
  BY <1>0, <1>1, <1>2, <1>3, <1>4, <1>5, FlipInv

LEMMA FlipCodeInv ==
  ASSUME BlockInv, NEW k \in 0 .. K - 1, NEW u \in Bit, FlipCode(k, u)
  PROVE  BlockInv'
<1>0. /\ stat = "stored" /\ <<"code", k, u>> \notin flips
      /\ code' = [code EXCEPT !.par[k][u] = Flip(@)]
      /\ flips' = flips \cup {<<"code", k, u>>} /\ UNCHANGED <<swapped, written, data, stat>>
      /\ TypeOK /\ DataRecorded /\ ParRecorded /\ PadRecorded
  BY DEF FlipCode, CanFlip, BlockInv
<1>1. \A b \in Bit : Flip(b) \in Bit /\ Flip(b) # b
  BY DEF Flip, Bit
<1>2. code.par \in [0 .. K - 1 -> [Bit -> Bit]] /\ code.pad \in [Pads -> Bit]
  BY <1>0 DEF TypeOK
<1>3. /\ code' = [par |-> [code.par EXCEPT ![k] = [code.par[k] EXCEPT ![u] = Flip(code.par[k][u])]],
                  pad |-> code.pad]
  BY <1>0 DEF TypeOK
<1>4. code.par[k] \in [Bit -> Bit] /\ Flip(code.par[k][u]) \in Bit
  BY <1>1, <1>2
<1>5. TypeOK'
  <2>1. [code.par[k] EXCEPT ![u] = Flip(code.par[k][u])] \in [Bit -> Bit]
    BY <1>4
  <2>2. [code.par EXCEPT ![k] = [code.par[k] EXCEPT ![u] = Flip(code.par[k][u])]]
          \in [0 .. K - 1 -> [Bit -> Bit]]
    BY <1>2, <2>1
  <2> QED
    BY <1>0, <1>2, <1>3, <2>2 DEF TypeOK
<1>6. ParRecorded'
  <2> DEFINE fresh == ecc_sw_hamming_calculate(written, swapped)
  <2>1. fresh \in [par : [0 .. K - 1 -> [Bit -> Bit]], pad : [Pads -> Bit]]
    BY <1>0, CalculateType DEF TypeOK
  <2>2. fresh.par \in [0 .. K - 1 -> [Bit -> Bit]] /\ fresh' = fresh
    BY <1>0, <2>1
  <2> HIDE DEF fresh
  <2> SUFFICES ASSUME NEW j \in 0 .. K - 1, NEW v \in Bit
               PROVE  (code'.par[j][v] = fresh.par[j][v]) <=> <<"code", j, v>> \notin flips'
    BY <2>2 DEF ParRecorded, fresh
  <2>3. (code.par[j][v] = fresh.par[j][v]) <=> <<"code", j, v>> \notin flips
    BY <1>0 DEF ParRecorded, fresh
  <2>4. code'.par[j][v] = IF j = k /\ v = u THEN Flip(code.par[j][v]) ELSE code.par[j][v]
    BY <1>2, <1>3, <1>4
  <2>5. <<"code", j, v>> \in flips' <=> (<<"code", j, v>> \in flips \/ (j = k /\ v = u))
    BY <1>0
  <2>6. code.par[j][v] \in Bit /\ fresh.par[j][v] \in Bit
    BY <1>2, <2>2
  <2> QED
    BY <1>0, <2>3, <2>4, <2>5, <2>6 DEF Flip, Bit
<1>7. DataRecorded'
  <2>1. \A b : <<"data", b>> \in flips' <=> <<"data", b>> \in flips
    BY <1>0
  <2> QED
    BY <1>0, <2>1 DEF DataRecorded
<1>8. PadRecorded'
  <2>1. \A p : <<"pad", p>> \in flips' <=> <<"pad", p>> \in flips
    BY <1>0
  <2>2. code'.pad = code.pad
    BY <1>3
  <2> QED
    BY <1>0, <2>1, <2>2 DEF PadRecorded
<1>9. FlipKnown(<<"code", k, u>>)
  BY DEF FlipKnown
<1> QED
  BY <1>0, <1>5, <1>6, <1>7, <1>8, <1>9, FlipInv

LEMMA FlipPadInv ==
  ASSUME BlockInv, NEW q \in Pads, FlipPad(q)
  PROVE  BlockInv'
<1>0. /\ stat = "stored" /\ <<"pad", q>> \notin flips
      /\ code' = [code EXCEPT !.pad[q] = Flip(@)]
      /\ flips' = flips \cup {<<"pad", q>>} /\ UNCHANGED <<swapped, written, data, stat>>
      /\ TypeOK /\ DataRecorded /\ ParRecorded /\ PadRecorded
  BY DEF FlipPad, CanFlip, BlockInv
<1>1. code.par \in [0 .. K - 1 -> [Bit -> Bit]] /\ code.pad \in [Pads -> Bit]
  BY <1>0 DEF TypeOK
<1>2. code' = [par |-> code.par, pad |-> [code.pad EXCEPT ![q] = Flip(code.pad[q])]]
  BY <1>0 DEF TypeOK
<1>3. code.pad[q] = 1 /\ Flip(code.pad[q]) = 0 /\ 0 \in Bit
  BY <1>0 DEF PadRecorded, Flip, Bit
<1>4. TypeOK'
  BY <1>0, <1>1, <1>2, <1>3 DEF TypeOK
<1>5. PadRecorded'
  <2> SUFFICES ASSUME NEW p \in Pads
               PROVE  (code'.pad[p] = 1) <=> <<"pad", p>> \notin flips'
    BY DEF PadRecorded
  <2>1. (code.pad[p] = 1) <=> <<"pad", p>> \notin flips
    BY <1>0 DEF PadRecorded
  <2>2. code'.pad[p] = IF p = q THEN 0 ELSE code.pad[p]
    BY <1>1, <1>2, <1>3
  <2>3. <<"pad", p>> \in flips' <=> (<<"pad", p>> \in flips \/ p = q)
    BY <1>0
  <2> QED
    BY <2>1, <2>2, <2>3
<1>6. DataRecorded'
  <2>1. \A b : <<"data", b>> \in flips' <=> <<"data", b>> \in flips
    BY <1>0
  <2> QED
    BY <1>0, <2>1 DEF DataRecorded
<1>7. ParRecorded'
  <2>1. \A j, v : <<"code", j, v>> \in flips' <=> <<"code", j, v>> \in flips
    BY <1>0
  <2>2. code'.par = code.par
    BY <1>2
  <2> DEFINE fresh == ecc_sw_hamming_calculate(written, swapped)
  <2>3. fresh' = fresh
    BY <1>0
  <2>4. \A j \in 0 .. K - 1, v \in Bit :
          (code.par[j][v] = fresh.par[j][v]) <=> <<"code", j, v>> \notin flips
    BY <1>0 DEF ParRecorded
  <2> HIDE DEF fresh
  <2>5. ASSUME NEW j \in 0 .. K - 1, NEW v \in Bit
        PROVE  (code'.par[j][v] = fresh'.par[j][v]) <=> <<"code", j, v>> \notin flips'
    <3>1. code'.par[j][v] = code.par[j][v] /\ fresh'.par[j][v] = fresh.par[j][v]
      BY <2>2, <2>3, Zenon
    <3>2. <<"code", j, v>> \in flips' <=> <<"code", j, v>> \in flips
      BY <2>1, Zenon
    <3>3. (code.par[j][v] = fresh.par[j][v]) <=> <<"code", j, v>> \notin flips
      BY <2>4, Zenon
    <3> QED
      BY <3>1, <3>2, <3>3, Zenon
  <2> QED
    BY <2>5 DEF ParRecorded, fresh
<1>8. FlipKnown(<<"pad", q>>)
  BY DEF FlipKnown
<1> QED
  BY <1>0, <1>4, <1>5, <1>6, <1>7, <1>8, FlipInv

LEMMA DecodeInv == BlockInv /\ Decode => BlockInv'
<1> SUFFICES ASSUME BlockInv, Decode PROVE BlockInv'
  OBVIOUS
<1>1. /\ stat = "stored" /\ data' = Result.data /\ stat' = Result.stat
      /\ UNCHANGED <<swapped, written, code, flips>>
  BY DEF Decode, Result, Calc
<1>2. TypeOK'
  BY DecodeType DEF BlockInv
<1>3. stat' # "stored" /\ stat' # "new"
  BY <1>1, Answers
<1>4. SingleFlipRepaired'
  <2> SUFFICES ASSUME Cardinality(flips) <= 1, ~swapped
               PROVE  data' = written /\ stat' = IF flips = {} THEN "clean" ELSE "fixed"
    BY <1>1 DEF SingleFlipRepaired
  <2> QED
    BY <1>1, DecodeSingle DEF Stored
<1>5. DoubleFlipNotHidden'
  <2> SUFFICES ASSUME Cardinality(flips) = 2, ~swapped
               PROVE  stat' = "EBADMSG" \/ data' = written
    BY <1>1 DEF DoubleFlipNotHidden
  <2> QED
    BY <1>1, DecodeDouble DEF Stored
<1>6. IsFiniteSet(flips') /\ \A f \in flips' : FlipKnown(f)'
  BY <1>1 DEF BlockInv, FlipKnown
<1> QED
  BY <1>2, <1>3, <1>4, <1>5, <1>6 DEF BlockInv

LEMMA NextInv == BlockInv /\ [Next]_vars => BlockInv'
<1> SUFFICES ASSUME BlockInv, [Next]_vars PROVE BlockInv'
  OBVIOUS
<1>1. CASE Encode
  BY <1>1, EncodeInv
<1>2. CASE Decode
  BY <1>2, DecodeInv
<1>3. CASE \E a \in Addrs : FlipData(a)
  BY <1>3, FlipDataInv
<1>4. CASE \E j \in 0 .. K - 1, v \in Bit : FlipCode(j, v)
  BY <1>4, FlipCodeInv
<1>5. CASE \E p \in Pads : FlipPad(p)
  BY <1>5, FlipPadInv
<1>6. CASE UNCHANGED vars
  BY <1>6 DEF vars, BlockInv, TypeOK, FlipKnown, DataRecorded, ParRecorded, PadRecorded,
              SingleFlipRepaired, DoubleFlipNotHidden, Decoded
<1> QED
  BY <1>1, <1>2, <1>3, <1>4, <1>5, <1>6 DEF Next

LEMMA BlockInvariant == Spec => []BlockInv
BY InitInv, NextInv, PTL DEF Spec

(* The codec's data, code and answer keep their types. *)
THEOREM BlockTypeCorrect == Spec => []TypeOK
<1>1. BlockInv => TypeOK
  BY DEF BlockInv
<1> QED
  BY <1>1, BlockInvariant, PTL

(* ecc_sw_hamming_correct repairs any one flipped bit of data, parities or *)
(* unused code bits, and reports it, for every size of the block.          *)
THEOREM OneFlipIsRepaired == Spec => []SingleFlipRepaired
<1>1. BlockInv => SingleFlipRepaired
  BY DEF BlockInv
<1> QED
  BY <1>1, BlockInvariant, PTL

(* ecc_sw_hamming_correct never hands out wrong data as repaired after two *)
(* flipped bits, wherever they are.                                        *)
THEOREM TwoFlipsAreNotHidden == Spec => []DoubleFlipNotHidden
<1>1. BlockInv => DoubleFlipNotHidden
  BY DEF BlockInv
<1> QED
  BY <1>1, BlockInvariant, PTL

-----------------------------------------------------------------------------
(* The erased block *)

(* Half of the addresses have a given value at an address bit, an even     *)
(* number of them: with and without another address bit.                   *)
LEMMA AllOnesParity ==
  ASSUME NEW j \in 0 .. K - 1, NEW v \in Bit
  PROVE  Parity(Addrs, j, v) = 0
<1>1. PICK i \in 0 .. K - 1 : i # j
  <2>1. 0 \in 0 .. K - 1 /\ 1 \in 0 .. K - 1
    BY KAssumption, BlockAssumption
  <2> QED
    BY <2>1
<1> DEFINE S == {a \in Addrs : AddrBit(a, j) = v}
           T == {a \in S : i \in a}
           R == {a \in S : i \notin a}
           F == [a \in R |-> a \cup {i}]
<1>2. IsFiniteSet(S) /\ IsFiniteSet(T) /\ IsFiniteSet(R)
  BY AddrsFinite, FS_Subset, S \subseteq Addrs, T \subseteq Addrs, R \subseteq Addrs
<1>3. F \in [R -> T]
  <2> SUFFICES ASSUME NEW a \in R PROVE a \cup {i} \in T
    OBVIOUS
  <2> QED
    BY <1>1 DEF Addrs, AddrBit
<1>4. \A a, b \in R : F[a] = F[b] => a = b
  <2> SUFFICES ASSUME NEW a \in R, NEW b \in R, a \cup {i} = b \cup {i} PROVE a = b
    OBVIOUS
  <2>1. i \notin a /\ i \notin b
    OBVIOUS
  <2>2. a = (a \cup {i}) \ {i} /\ b = (b \cup {i}) \ {i}
    BY <2>1
  <2> QED
    BY <2>2
<1>5. \A t \in T : \E a \in R : F[a] = t
  <2> SUFFICES ASSUME NEW t \in T PROVE t \ {i} \in R /\ (t \ {i}) \cup {i} = t
    OBVIOUS
  <2>1. t \ {i} \in R
    BY <1>1 DEF Addrs, AddrBit
  <2> QED
    BY <2>1
<1>6. F \in Bijection(R, T)
  <2> HIDE DEF F, R, T
  <2> QED
    BY <1>3, <1>4, <1>5, Fun_IsBij
<1>7. Cardinality(T) = Cardinality(R)
  <2> HIDE DEF F, R, T
  <2>1. ExistsBijection(R, T)
    BY <1>6, Fun_ExistsBij
  <2> QED
    BY <1>2, <2>1, FS_Bijection
<1>8. Cardinality(S) = Cardinality(R) + Cardinality(T)
  <2>1. S = R \cup T /\ R \cap T = {}
    OBVIOUS
  <2> HIDE DEF R, S, T
  <2>2. Cardinality(R \cup T) = Cardinality(R) + Cardinality(T) - Cardinality(R \cap T)
    BY <1>2, FS_Union
  <2>3. Cardinality(R \cap T) = 0
    BY <2>1, FS_EmptySet
  <2>4. Cardinality(R) \in Nat /\ Cardinality(T) \in Nat
    BY <1>2, FS_CardinalityType
  <2> QED
    BY <2>1, <2>2, <2>3, <2>4
<1>9. Cardinality(S) % 2 = 0
  <2> HIDE DEF R, S, T
  <2>1. Cardinality(R) \in Nat
    BY <1>2, FS_CardinalityType
  <2>2. \A n \in Nat : (n + n) % 2 = 0
    OBVIOUS
  <2> QED
    BY <1>7, <1>8, <2>1, <2>2
<1> QED
  BY <1>9 DEF Parity

(* The code that hamming_encode stores for an erased block is erased: a    *)
(* page that was never written is a code word, for every size of block and *)
(* in either byte order.                                                   *)
THEOREM ErasedBlockIsCodeWord == Spec => []ErasedReadsClean
<1>1. BlockInv => ErasedReadsClean
  <2> DEFINE all == [par |-> [j \in 0 .. K - 1 |-> [v \in Bit |-> 1]], pad |-> [p \in Pads |-> 1]]
  <2> SUFFICES ASSUME BlockInv, stat = "stored", written = Addrs, flips = {}
               PROVE  code = all
    BY DEF ErasedReadsClean
  <2>1. ASSUME NEW j \in 0 .. K - 1, NEW v \in Bit
        PROVE  code.par[j][v] = 1
    <3>1. Half(j, v, swapped) \in Bit
      BY DEF Half, Flip, Bit
    <3>2. Parity(Addrs, j, Half(j, v, swapped)) = 0
      BY <3>1, AllOnesParity
    <3>3. ecc_sw_hamming_calculate(written, swapped).par[j][v] = 1
      BY <3>2 DEF ecc_sw_hamming_calculate, Flip
    <3> QED
      BY <3>3 DEF BlockInv, ParRecorded
  <2>2. \A p \in Pads : code.pad[p] = 1
    BY DEF BlockInv, PadRecorded
  <2>3. /\ code \in [par : [0 .. K - 1 -> [Bit -> Bit]], pad : [Pads -> Bit]]
        /\ code.par \in [0 .. K - 1 -> [Bit -> Bit]] /\ code.pad \in [Pads -> Bit]
    BY DEF BlockInv, TypeOK
  <2>4. code.pad = [p \in Pads |-> 1]
    BY <2>2, <2>3
  <2>5. \A j \in 0 .. K - 1 : code.par[j] = [v \in Bit |-> 1]
    <3> SUFFICES ASSUME NEW j \in 0 .. K - 1 PROVE code.par[j] = [v \in Bit |-> 1]
      OBVIOUS
    <3>1. code.par[j] \in [Bit -> Bit]
      BY <2>3
    <3> QED
      BY <2>1, <3>1
  <2>6. code.par = [j \in 0 .. K - 1 |-> [v \in Bit |-> 1]]
    BY <2>3, <2>5
  <2> QED
    BY <2>3, <2>4, <2>6
<1> QED
  BY <1>1, BlockInvariant, PTL

=============================================================================
