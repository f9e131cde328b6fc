------------------------------ MODULE Hamming ------------------------------
(***************************************************************************)
(* The Hamming code of codecs/linux-ecc-hamming.c for a block of 2^K bits. *)
(* A bit of the block is known by its address, the K bits of its byte's    *)
(* number and of its position in the byte (K is 11 for a step of 256 bytes *)
(* and 12 for 512): the set of those that are 1.  For every address bit    *)
(* the code stores two parities, of the data whose address has a 0 there   *)
(* and of the data whose address has a 1 (rp0/rp1, rp2/rp3, ..., and the   *)
(* column parities of "par"), each inverted (invparity) so that an erased  *)
(* block has an erased code.  The unrolled loop over longwords accumulates *)
(* exactly these parities; the tables invparity, bitsperbyte and           *)
(* addressbits are their definitions.                                      *)
(***************************************************************************)
EXTENDS Naturals, FiniteSets

CONSTANTS K,      \* the number of address bits
          Pads,   \* the unused bits of code[2]: {0, 1} for 256 bytes, {} for 512
          Lanes   \* the address bits that number the bytes of a longword (rp0 .. rp3)

ASSUME KAssumption == K \in Nat \ {0} /\ Lanes \subseteq 0 .. K - 1 /\ IsFiniteSet(Pads)

Addrs == SUBSET (0 .. K - 1)

Bit == {0, 1}

Flip(b) == 1 - b

AddrBit(a, j) == IF j \in a THEN 1 ELSE 0

(* Mutated: a sum instead of a parity. *)
ParitySum(data, j, v) == Cardinality({a \in data : AddrBit(a, j) = v})

(* data is the set of the addresses whose bit is 1. *)
Parity(data, j, v) == Cardinality({a \in data : AddrBit(a, j) = v}) % 2

(* Which half of a pair the code calls the one for address bit v: the two   *)
(* are exchanged for the byte lanes when the codec's big_endian parameter  *)
(* is not the byte order of the host.                                      *)
Half(j, v, swapped) == IF swapped /\ j \in Lanes THEN Flip(v) ELSE v

ecc_sw_hamming_calculate(data, swapped) ==
  [par |-> [j \in 0 .. K - 1 |-> [v \in Bit |-> Flip(Parity(data, j, Half(j, v, swapped)))]],
   pad |-> [p \in Pads |-> 1]]

(* The bits in which the stored and the calculated code differ: b0, b1, b2. *)
ParitySyndrome(read, calc) ==
  {s \in (0 .. K - 1) \X Bit : read.par[s[1]][s[2]] # calc.par[s[1]][s[2]]}

PadSyndrome(read, calc) == {p \in Pads : read.pad[p] # calc.pad[p]}

(* Mutated: one half at least, OR in place of XOR. *)
SomeHalfDiffers(syn) == \A j \in 0 .. K - 1 : <<j, 0>> \in syn \/ <<j, 1>> \in syn

(* Exactly one half of every pair differs. *)
SingleError(syn) == \A j \in 0 .. K - 1 : <<j, 0>> \in syn <=> <<j, 1>> \notin syn

(* Mutated: the even instead of the odd bits of the syndrome. *)
ErrorAddrFromEvenBits(syn) == {j \in 0 .. K - 1 : <<j, 0>> \in syn}

(* addressbits: the address bit is 1 where the half for 1 differs. *)
ErrorAddr(syn) == {j \in 0 .. K - 1 : <<j, 1>> \in syn}

(* The data with the bit at one address inverted. *)
Toggle(data, a) == (data \cup {a}) \ (data \cap {a})

(* The repaired data and the number returned; "EBADMSG" when it gives up. *)
ecc_sw_hamming_correct(data, read, calc) ==
  LET syn == ParitySyndrome(read, calc)
      pad == PadSyndrome(read, calc)
  IN IF syn = {} /\ pad = {} THEN [data |-> data, stat |-> "clean"]
     ELSE IF SingleError(syn)
     THEN [data |-> Toggle(data, ErrorAddr(syn)), stat |-> "fixed"]
     ELSE IF Cardinality(syn) + Cardinality(pad) = 1 THEN [data |-> data, stat |-> "fixed"]
     ELSE [data |-> data, stat |-> "EBADMSG"]
=============================================================================
