------------------------------ MODULE EccBlock ------------------------------
(***************************************************************************)
(* One step of hamming_encode, some time on the flash, and one step of     *)
(* hamming_decode: the codec calculates a code, data and code are stored,  *)
(* bits of either flip, and the codec calculates the code of what it read  *)
(* and compares it with the stored one.                                    *)
(***************************************************************************)
EXTENDS Hamming

CONSTANT MaxFlips   \* the largest number of bits that flip

(* A block of 256 bytes has 11 address bits; with fewer than 3 a flip of    *)
(* data and one of code could look like a flip of the code alone.          *)
ASSUME BlockAssumption == K >= 3

VARIABLES swapped,  \* the big_endian parameter is not the host's byte order
          written,  \* the data that was encoded, as the set of its 1 bits
          data,     \* the data as it is stored, read and repaired
          code,     \* the code as it is stored
          flips,    \* the bits that have flipped, of data and of code
          stat      \* "new", "stored", or what the decoder answered

vars == <<swapped, written, data, code, flips, stat>>

Init ==
  /\ swapped \in BOOLEAN
  /\ written \in SUBSET Addrs /\ data = written
  /\ code = ecc_sw_hamming_calculate({}, FALSE)
  /\ flips = {} /\ stat = "new"

Encode ==
  /\ stat = "new"
  /\ code' = ecc_sw_hamming_calculate(data, swapped)
  /\ stat' = "stored"
  /\ UNCHANGED <<swapped, written, data, flips>>

CanFlip(f) == stat = "stored" /\ Cardinality(flips) < MaxFlips /\ f \notin flips

FlipData(a) ==
  /\ CanFlip(<<"data", a>>)
  /\ data' = Toggle(data, a)
  /\ flips' = flips \cup {<<"data", a>>}
  /\ UNCHANGED <<swapped, written, code, stat>>

FlipCode(j, v) ==
  /\ CanFlip(<<"code", j, v>>)
  /\ code' = [code EXCEPT !.par[j][v] = Flip(@)]
  /\ flips' = flips \cup {<<"code", j, v>>}
  /\ UNCHANGED <<swapped, written, data, stat>>

FlipPad(p) ==
  /\ CanFlip(<<"pad", p>>)
  /\ code' = [code EXCEPT !.pad[p] = Flip(@)]
  /\ flips' = flips \cup {<<"pad", p>>}
  /\ UNCHANGED <<swapped, written, data, stat>>

Decode ==
  /\ stat = "stored"
  /\ LET r == ecc_sw_hamming_correct(data, code, ecc_sw_hamming_calculate(data, swapped))
     IN data' = r.data /\ stat' = r.stat
  /\ UNCHANGED <<swapped, written, code, flips>>

Next ==
  \/ Encode \/ Decode
  \/ \E a \in Addrs : FlipData(a)
  \/ \E j \in 0 .. K - 1, v \in Bit : FlipCode(j, v)
  \/ \E p \in Pads : FlipPad(p)

Spec == Init /\ [][Next]_vars

-----------------------------------------------------------------------------
(* Properties *)

TypeOK ==
  /\ swapped \in BOOLEAN /\ written \subseteq Addrs /\ data \subseteq Addrs
  /\ code \in [par : [0 .. K - 1 -> [Bit -> Bit]], pad : [Pads -> Bit]]
  /\ stat \in {"new", "stored", "clean", "fixed", "EBADMSG"}

Decoded == stat \in {"clean", "fixed", "EBADMSG"}

(* At most one flipped bit, wherever it is, is repaired, and the decoder    *)
(* says so exactly when there was one.  The byte order must be the host's. *)
SingleFlipRepaired ==
  Decoded /\ Cardinality(flips) <= 1 /\ ~swapped =>
    data = written /\ stat = (IF flips = {} THEN "clean" ELSE "fixed")

(* Two flipped bits are never passed off as good data: the decoder gives up *)
(* unless the data it hands out is what was written.                       *)
DoubleFlipNotHidden ==
  Decoded /\ Cardinality(flips) = 2 /\ ~swapped => stat = "EBADMSG" \/ data = written

(* The code of an all-ones block is all ones: an erased page, data and OOB, *)
(* is a valid code word, so reading a page never written is not refused.   *)
ErasedReadsClean ==
  LET all == [par |-> [j \in 0 .. K - 1 |-> [v \in Bit |-> 1]], pad |-> [p \in Pads |-> 1]]
  IN stat = "stored" /\ written = Addrs /\ flips = {} => code = all
=============================================================================
