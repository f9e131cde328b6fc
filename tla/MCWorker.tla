------------------------------ MODULE MCWorker ------------------------------
(* Instances of Worker: a page of 9 bytes, the last 5 of them OOB. *)
EXTENDS Worker, TLC

Map == [data |-> "data", oob |-> "oob"]

Part(s, start, length) == [span |-> s, start |-> start, length |-> length]

At(s, start, length) == [span |-> s, start |-> start, length |-> length]

ecc == [type |-> "hamming", steps |-> 1]

Xor(size) == [type |-> "xor", name |-> "mask", size |-> size, partial |-> FALSE]

Pattern == [type |-> "memset", byte_pattern |-> 0]

Encode == [codec |-> ecc, src |-> At("data", 0, 4), dest |-> At("ecc", 0, 4)]
Decode == [codec |-> ecc, data |-> At("data", 0, 4), oob |-> At("ecc", 0, 4)]
Mask(size) == [codec |-> Xor(size), src |-> Nothing, dest |-> At("data", 0, 4)]
Unmask(size) == [codec |-> Xor(size), data |-> At("data", 0, 4), oob |-> Nothing]
Mark == [codec |-> Pattern, src |-> Nothing, dest |-> At("bbm", 0, 1)]

(* The data in two parts with the code between them. *)
EccParts == <<Part("data", 0, 2), Part("ecc", 2, 4), Part("data", 6, 2), Part("oob", 8, 1)>>

EccPipe == [parts |-> EccParts, read |-> Map, write |-> Map,
            readCodecs |-> <<Decode>>, writeCodecs |-> <<Encode>>]

ReadOnly == [EccPipe EXCEPT !.write = Nothing, !.writeCodecs = <<>>]

(* Masked data under the code. *)
XorEcc(size) == [EccPipe EXCEPT !.readCodecs = <<Decode, Unmask(size)>>,
                                !.writeCodecs = <<Mask(size), Encode>>]

(* Some bytes of the page in no part, one set by memset. *)
XorPipe(size) == [parts |-> <<Part("oob", 4, 1), Part("data", 0, 4), Part("bbm", 6, 1)>>,
                  read |-> Map, write |-> Map,
                  readCodecs |-> <<Unmask(size)>>, writeCodecs |-> <<Mark, Mask(size)>>]

CONSTANTS pa, pb

MCPages == {pa, pb}

Two(p, q) == [pipes |-> <<p, q>>, owner |-> (pa :> 1 @@ pb :> 2)]
One(p) == [pipes |-> <<p>>, owner |-> (pa :> 1 @@ pb :> 0)]

ThreadSymmetry == Permutations(Threads)

SoundSchemes == {Two(EccPipe, ReadOnly), One(XorEcc(1)), Two(XorPipe(1), ReadOnly)}

XorSchemes == {One(XorPipe(1)), One(XorPipe(2))}

(* Codec contexts that end behind their span. *)
BeyondSpan == {One([EccPipe EXCEPT
  !.parts = <<Part("data", 0, 1), Part("ecc", 1, 4), Part("oob", 5, 1)>>])}

(* A data span that is shorter than the data of a page. *)
ShortSpan == {One([XorPipe(1) EXCEPT
  !.parts = <<Part("oob", 3, 1), Part("data", 0, 2), Part("bbm", 6, 1)>>,
  !.readCodecs = <<>>, !.writeCodecs = <<>>])}

LeavingSchemes == BeyondSpan \cup ShortSpan

LiveSchemes == {One(EccPipe)} \cup LeavingSchemes

MCPayloads == {[data |-> (0 :> 1 @@ 1 :> 0 @@ 2 :> 0 @@ 3 :> 1), oob |-> (0 :> 0)],
               [data |-> (0 :> 0 @@ 1 :> 0 @@ 2 :> 1 @@ 3 :> 0), oob |-> (0 :> 1)]}

Full == {[datalen |-> 4, ooblen |-> 1]}

(* Also half of the data without the OOB. *)
AlsoShort == Full \cup {[datalen |-> 2, ooblen |-> 0]}
=============================================================================
