------------------------------ MODULE Pipeline ------------------------------
(***************************************************************************)
(* What a pipeline is made of once create_pipeline_obj (scheme.c) accepts  *)
(* it, and what its codecs do to span buffers.  Sizes are scaled: a "byte" *)
(* is one bit, 0xFF is 1, and a Hamming step is 2^K of them with a code of *)
(* 2 * K (256 bytes and 3 bytes in the code).  Buffers are functions from  *)
(* 0 .. n - 1.  The layout is in the state that PageLayout leaves it in    *)
(* when every part still points to its own span.                           *)
(***************************************************************************)
EXTENDS Hamming, SequencesExt

CONSTANTS PageSize,  \* flash_page_size, data and OOB
          OobSize,   \* flash_oob_size
          Nothing    \* an optional part of the configuration that is left out

oob_offset == PageSize - OobSize

(* A configured pipeline's spans; the sum of the lengths of a span's parts  *)
(* that start before a position.                                           *)
CfgSpans(p) == {p.parts[i].span : i \in DOMAIN p.parts}

LengthBefore(p, s, pos) ==
  LET sum[n \in 0 .. Len(p.parts)] ==
        IF n = 0 THEN 0
        ELSE IF p.parts[n].span = s /\ p.parts[n].start < pos THEN sum[n - 1] + p.parts[n].length
        ELSE sum[n - 1]
  IN sum[Len(p.parts)]

(* The pipeline_t made from it: every part knows where it starts in its     *)
(* span (in_span_range.start) and every span has its total_len.            *)
Built(p) ==
  [parts |-> [i \in DOMAIN p.parts |->
                [span |-> p.parts[i].span, start |-> p.parts[i].start, length |-> p.parts[i].length,
                 inspan |-> LengthBefore(p, p.parts[i].span, p.parts[i].start)]],
   total_len |-> [s \in CfgSpans(p) |-> LengthBefore(p, s, PageSize)],
   read |-> p.read, write |-> p.write, readCodecs |-> p.readCodecs, writeCodecs |-> p.writeCodecs]

Spans(p) == DOMAIN p.total_len

SpanLen(p, s) == p.total_len[s]

(* add_pipeline_layout_parts succeeds. *)
LayoutAccepted(p) ==
  /\ \A i \in DOMAIN p.parts : p.parts[i].start + p.parts[i].length <= PageSize
  /\ \A i, j \in DOMAIN p.parts :
       LET q == p.parts[i]
           r == p.parts[j]
       IN i = j \/ q.start + q.length <= r.start \/ r.start + r.length <= q.start
  /\ \A s \in Spans(p) : SpanLen(p, s) > 0

set_request_mappings(p, m) == m.data \in Spans(p) /\ m.oob \in Spans(p)

-----------------------------------------------------------------------------
(* The codecs: which spans they need and which lengths they accept. *)

STEP == 2 ^ K
CODE == 2 * K

div_round_up(a, b) == (a + b - 1) \div b

verify_has_enough_oob_storage_for_hamming_ecc(datalen, ooblen) ==
  div_round_up(datalen, STEP) <= ooblen \div CODE

(* What init_hamming_codec and init_xor_codec let through: the size of a    *)
(* mask is half the length of its string, and an empty one divides by 0.   *)
CodecAccepted(codec) ==
  CASE codec.type = "hamming" -> codec.steps > 0 /\ CODE * codec.steps <= OobSize
    [] codec.type = "xor" -> codec.size > 0
    [] codec.type = "memset" -> TRUE

needs_oob_span(codec) == codec.type = "hamming"
needs_source_span(codec) == codec.type = "hamming"

(* memset has no read_ops. *)
HasReadOps(codec) == codec.type # "memset"

ReadSizesAccepted(codec, datalen, ooblen) ==
  IF codec.type = "xor" THEN datalen % codec.size = 0 \/ codec.partial
  ELSE verify_has_enough_oob_storage_for_hamming_ecc(datalen, ooblen)

(* The caller passes the destination's length first and the source's last,  *)
(* the callee names them the other way round: xor looks at the source       *)
(* length, which is 0; hamming exchanges them once more.                    *)
WriteSizesAccepted(codec, destlen, srclen) ==
  CASE codec.type = "xor" -> srclen % codec.size = 0 \/ codec.partial
    [] codec.type = "memset" -> TRUE
    [] codec.type = "hamming" -> verify_has_enough_oob_storage_for_hamming_ecc(srclen, destlen)

LenOf(spec) == IF spec = Nothing THEN 0 ELSE spec.length

(***************************************************************************)
(* add_pipeline_read_codec and add_pipeline_write_codec.  Their tests with *)
(* validate_range_length_within_span only set a return code that is        *)
(* overwritten, so they refuse nothing and do not appear here.             *)
(***************************************************************************)
add_pipeline_read_codec(p, c) ==
  /\ CodecAccepted(c.codec) /\ HasReadOps(c.codec)
  /\ needs_oob_span(c.codec) => c.oob # Nothing /\ c.oob.span \in Spans(p)
  /\ c.data.span \in Spans(p)
  /\ ReadSizesAccepted(c.codec, c.data.length, IF needs_oob_span(c.codec) THEN LenOf(c.oob) ELSE 0)

add_pipeline_write_codec(p, c) ==
  /\ CodecAccepted(c.codec)
  /\ needs_source_span(c.codec) => c.src # Nothing /\ c.src.span \in Spans(p)
  /\ c.dest.span \in Spans(p)
  /\ WriteSizesAccepted(c.codec, c.dest.length, IF needs_source_span(c.codec) THEN LenOf(c.src) ELSE 0)

create_pipeline_obj(p) ==
  /\ LayoutAccepted(p)
  /\ set_request_mappings(p, p.read)
  /\ p.write # Nothing => set_request_mappings(p, p.write)
  /\ \A i \in DOMAIN p.readCodecs : add_pipeline_read_codec(p, p.readCodecs[i])
  /\ \A i \in DOMAIN p.writeCodecs : add_pipeline_write_codec(p, p.writeCodecs[i])

-----------------------------------------------------------------------------
(***************************************************************************)
(* The codecs at work.  Each takes the pipeline's span buffers and its     *)
(* context and returns the buffers and how it ended: "ok", "EBADMSG", or   *)
(* "outside" when it reaches a byte that is not in the span's buffer.      *)
(***************************************************************************)
Outside(buf, start, len) == len > 0 /\ start + len - 1 \notin DOMAIN buf

Slice(buf, start, len) == [i \in 0 .. len - 1 |-> buf[start + i]]

Paste(buf, start, bytes) ==
  [i \in DOMAIN buf |-> IF i >= start /\ i - start \in DOMAIN bytes THEN bytes[i - start] ELSE buf[i]]

(* A codec that works byte by byte, and replaces its range by bytes. *)
Bytewise(spans, at, bytes) ==
  IF Outside(spans[at.span], at.start, at.length) THEN [spans |-> spans, stat |-> "outside"]
  ELSE [spans |-> [spans EXCEPT ![at.span] = Paste(@, at.start, bytes)], stat |-> "ok"]

(* Mutated: an addition in place of the exclusive or. *)
XorBitAdds(a, b) == a + b

XorBit(a, b) == (a + b) % 2

(* byte_mask_idx advances and rolls over when writing ... *)
xor_write(spans, c, mask) ==
  LET old == Slice(spans[c.dest.span], c.dest.start, c.dest.length)
  IN Bytewise(spans, c.dest, [i \in DOMAIN old |-> XorBit(old[i], mask[(i % Len(mask)) + 1])])

(* ... and stays at the first byte of the mask when reading. *)
xor_read(spans, c, mask) ==
  LET old == Slice(spans[c.data.span], c.data.start, c.data.length)
  IN Bytewise(spans, c.data, [i \in DOMAIN old |-> XorBit(old[i], mask[1])])

memset_write(spans, c) ==
  Bytewise(spans, c.dest, [i \in 0 .. c.dest.length - 1 |-> c.codec.byte_pattern])

(* The address of the bit number i of a step. *)
Addr(i) == {j \in 0 .. K - 1 : (i \div 2 ^ j) % 2 = 1}

Ones(bytes) == {Addr(i) : i \in {i \in DOMAIN bytes : bytes[i] = 1}}

Chunk == [0 .. STEP - 1 -> Bit]
Code == [0 .. CODE - 1 -> Bit]

(* ecc_sw_hamming_calculate and ecc_sw_hamming_correct, between buffers and *)
(* what Hamming works on.                                                  *)
CodeFrom(bytes) ==
  [par |-> [j \in 0 .. K - 1 |-> [v \in Bit |-> bytes[2 * j + v]]], pad |-> [q \in Pads |-> 1]]

calculate ==
 [data \in Chunk |->
  LET code == ecc_sw_hamming_calculate(Ones(data), FALSE)
  IN [i \in 0 .. CODE - 1 |-> code.par[i \div 2][i % 2]]]

correct ==
 [data \in Chunk |-> [code \in Code |->
  LET r == ecc_sw_hamming_correct(Ones(data), CodeFrom(code), CodeFrom(calculate[data]))
  IN [data |-> [i \in 0 .. STEP - 1 |-> IF Addr(i) \in r.data THEN 1 ELSE 0],
      stat |-> IF r.stat = "EBADMSG" THEN "EBADMSG" ELSE "ok"]]]

Keep == <<>>   \* pasted, it changes nothing

(* Mutated: the repaired data is not copied back. *)
HammingStepDiscards(op, data, code) ==
  IF op = "encode" THEN [data |-> Keep, code |-> calculate[data], stat |-> "ok"]
  ELSE [data |-> Keep, code |-> Keep, stat |-> correct[data][code].stat]

(* The loop body of hamming_encode and of hamming_decode: what is stored    *)
(* for the data and the code, and how the step ended.                      *)
HammingStep(op, data, code) ==
  IF op = "encode" THEN [data |-> Keep, code |-> calculate[data], stat |-> "ok"]
  ELSE [data |-> correct[data][code].data, code |-> Keep, stat |-> correct[data][code].stat]

(* Step number s works on the data at d and the code at o; after a step     *)
(* that does not end ok, nothing more is done.                             *)
Round(op, acc, data, oob, s) ==
  LET d == data.start + s * STEP
      o == oob.start + s * CODE
  IN IF acc.stat # "ok" THEN acc
     ELSE IF Outside(acc.spans[data.span], d, STEP) \/ Outside(acc.spans[oob.span], o, CODE)
     THEN [acc EXCEPT !.stat = "outside"]
     ELSE LET r == HammingStep(op, Slice(acc.spans[data.span], d, STEP), Slice(acc.spans[oob.span], o, CODE))
              fixed == [acc.spans EXCEPT ![data.span] = Paste(@, d, r.data)]
          IN [spans |-> [fixed EXCEPT ![oob.span] = Paste(@, o, r.code)], stat |-> r.stat]

Steps(op, spans, data, oob, n) ==
  LET after[s \in 0 .. n] ==
        IF s = 0 THEN [spans |-> spans, stat |-> "ok"] ELSE Round(op, after[s - 1], data, oob, s - 1)
  IN after[n]

hamming_encode(spans, c) == Steps("encode", spans, c.src, c.dest, div_round_up(c.src.length, STEP))

(* Mutated: one step too many. *)
hamming_decode_once_more(spans, c) == Steps("decode", spans, c.data, c.oob, c.codec.steps + 1)

(* The number of steps is the codec's parameter, whatever the lengths are. *)
hamming_decode(spans, c) == Steps("decode", spans, c.data, c.oob, c.codec.steps)

on_write(spans, c, mask) ==
  CASE c.codec.type = "xor" -> xor_write(spans, c, mask[c.codec.name])
    [] c.codec.type = "memset" -> memset_write(spans, c)
    [] c.codec.type = "hamming" -> hamming_encode(spans, c)

on_read(spans, c, mask) ==
  IF c.codec.type = "xor" THEN xor_read(spans, c, mask[c.codec.name]) ELSE hamming_decode(spans, c)
=============================================================================
