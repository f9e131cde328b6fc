------------------------------- MODULE Worker -------------------------------
(***************************************************************************)
(* The worker threads at work (queues.c): the kernel hands a thread the    *)
(* raw buffer of one page, write_process or read_process moves it through  *)
(* the spans and codecs of the page's pipeline, and on ANSWER_ACK the      *)
(* kernel programs the buffer (write) or returns it to the user (read).    *)
(* Every thread has a scheme of its own, so span buffers and codecs are    *)
(* per thread; threads interleave between the codecs of a request.  Span   *)
(* buffers come from malloc and keep what the last request left in them.   *)
(*                                                                         *)
(* The kernel, the flash and its decay are external, as the code uses      *)
(* them.  The NACK pipeline's span is written by extraction and never      *)
(* read, so it is not part of the state.                                   *)
(***************************************************************************)
EXTENDS Pipeline

CONSTANTS Threads,      \* the queues' threads
          Pages,        \* page addresses
          Schemes,      \* [pipes: pipelines in order, owner: Pages -> index or 0]
          Sizes,        \* the [datalen, ooblen] pairs that the kernel asks for
          Payloads,     \* the [data, oob] buffers that users write
          MaxRequests,  \* bound on the number of requests
          MaxFlips      \* bound on the bits that decay

(***************************************************************************)
(* What the configuration parser and the kernel hand over: numbers are     *)
(* unsigned, a codec is of one of the three types, the spans of a read are *)
(* always given, a page is owned by a pipeline or by none, and a user's    *)
(* buffers are as long as asked for.                                       *)
(***************************************************************************)
RangeTyped(at) == at.start \in Nat /\ at.length \in Nat

CodecTyped(codec) ==
  \/ codec.type = "hamming" /\ codec.steps \in Nat
  \/ codec.type = "xor" /\ codec.size \in Nat
  \/ codec.type = "memset" /\ codec.byte_pattern \in Bit

PipeTyped(p) ==
  /\ p.read # Nothing
  /\ p.parts \in Seq(Range(p.parts)) /\ \A q \in Range(p.parts) : RangeTyped(q)
  /\ p.readCodecs \in Seq(Range(p.readCodecs)) /\ p.writeCodecs \in Seq(Range(p.writeCodecs))
  /\ \A c \in Range(p.readCodecs) :
       CodecTyped(c.codec) /\ RangeTyped(c.data) /\ (c.oob # Nothing => RangeTyped(c.oob))
  /\ \A c \in Range(p.writeCodecs) :
       CodecTyped(c.codec) /\ RangeTyped(c.dest) /\ (c.src # Nothing => RangeTyped(c.src))

ASSUME SchemesAssumption ==
  \A c \in Schemes :
    /\ DOMAIN c = {"pipes", "owner"}
    /\ \A pg \in Pages : c.owner[pg] \in {0} \cup DOMAIN c.pipes
    /\ \A i \in DOMAIN c.pipes : PipeTyped(c.pipes[i])

(* The lengths are those that queues.c asserts. *)
ASSUME RequestsAssumption ==
  /\ PageSize \in Nat /\ OobSize \in 0 .. PageSize /\ MaxRequests \in Nat /\ MaxFlips \in Nat
  /\ \A size \in Sizes :
       /\ size.datalen \in 0 .. oob_offset /\ size.ooblen \in 0 .. OobSize
       /\ \A pay \in Payloads :
            /\ \A b \in 0 .. size.datalen - 1 : pay.data[b] \in Bit
            /\ \A b \in 0 .. size.ooblen - 1 : pay.oob[b] \in Bit

(* A step has 11 or 12 address bits; with one, no flip could be located. *)
ASSUME StepAssumption == K >= 2

VARIABLES
  scheme,   \* the accepted configuration and the selector it produces
  flash,    \* the raw pages
  bufs,     \* thread -> pipeline -> span -> the span's buffer
  masks,    \* thread -> name of a xor codec -> its byte_mask_buf
  req,      \* the request that each thread serves, or its last answer
  stored,   \* what the last acknowledged write of a page asked for
  fault,    \* the first access outside of a span buffer
  requests, \* how many requests have been made
  flips     \* how many bits have decayed

vars == <<scheme, flash, bufs, masks, req, stored, fault, requests, flips>>

Erased == [i \in 0 .. PageSize - 1 |-> 1]

Idle == [phase |-> "idle", ans |-> "none"]

Pipe(i) == scheme.pipes[i]

XorCodecs(s) ==
  UNION {{c.codec : c \in {d \in Range(s.pipes[i].readCodecs) \cup Range(s.pipes[i].writeCodecs) :
                             d.codec.type = "xor"}} : i \in DOMAIN s.pipes}

WithPipelines(c) == [c EXCEPT !.pipes = [i \in DOMAIN c.pipes |-> Built(c.pipes[i])]]

(***************************************************************************)
(* span_buf_alloc_iter uses malloc; junk is what it returned.              *)
(* convert_hex_string_to_byte_array never stores a byte (its buf_idx stays *)
(* 0, which is even), so the mask is what malloc returned, in each thread. *)
(***************************************************************************)
Init ==
  /\ scheme \in {s \in {WithPipelines(c) : c \in Schemes} :
                     \A i \in DOMAIN s.pipes : create_pipeline_obj(s.pipes[i])}
  /\ flash = [pg \in Pages |-> Erased]
  /\ \E junk \in Bit :
       bufs = [t \in Threads |-> [i \in DOMAIN scheme.pipes |->
                [s \in Spans(Pipe(i)) |-> [b \in 0 .. SpanLen(Pipe(i), s) - 1 |-> junk]]]]
  /\ masks \in [Threads -> {m \in [{c.name : c \in XorCodecs(scheme)} -> UNION {[1 .. c.size -> Bit] : c \in XorCodecs(scheme)}] :
                              \A c \in XorCodecs(scheme) : DOMAIN m[c.name] = 1 .. c.size}]
  /\ req = [t \in Threads |-> Idle]
  /\ stored = [pg \in Pages |-> Nothing]
  /\ fault = "none" /\ requests = 0 /\ flips = 0

(* From an access outside of a buffer on, C promises nothing: we stop.      *)
Fault(what) ==
  /\ fault' = what
  /\ UNCHANGED <<scheme, flash, bufs, masks, req, stored, requests, flips>>

Serving(t, phase) == fault = "none" /\ req[t].phase = phase

(* The transform_answer_t and errno_rc of the request, and its raw buffer. *)
Answered(t, ans, raw) == [req EXCEPT ![t] = [@ EXCEPT !.phase = "answered", !.ans = ans, !.raw = raw]]

-----------------------------------------------------------------------------
(* Between a raw page and the spans, part by part *)

Holding(p, s, b) ==
  CHOOSE q \in Range(p.parts) : q.span = s /\ q.inspan <= b /\ b < q.inspan + q.length

extract_raw_page_to_pipeline_page_layout(p, raw) ==
  [s \in Spans(p) |-> [b \in 0 .. SpanLen(p, s) - 1 |->
     LET q == Holding(p, s, b) IN raw[q.start + b - q.inspan]]]

compose_raw_page_from_pipeline_page_layout(p, spans) ==
  [b \in 0 .. PageSize - 1 |->
     IF \E q \in Range(p.parts) : q.start <= b /\ b < q.start + q.length
     THEN LET q == CHOOSE q \in Range(p.parts) : q.start <= b /\ b < q.start + q.length
          IN spans[q.span][q.inspan + b - q.start]
     ELSE 1]

(* The data is copied before the OOB. *)
copy_write_data_and_oob_spans(spans, map, pay, size) ==
  LET d == [spans EXCEPT ![map.data] = Paste(@, 0, Slice(pay.data, 0, size.datalen))]
  IN [d EXCEPT ![map.oob] = Paste(@, 0, Slice(pay.oob, 0, size.ooblen))]

(* ... and what is behind the two sections of the result is zero. *)
copy_result_data_and_oob_spans(spans, map, size) ==
  [b \in 0 .. PageSize - 1 |->
     CASE b < size.datalen -> spans[map.data][b]
       [] b >= oob_offset /\ b - oob_offset < size.ooblen -> spans[map.oob][b - oob_offset]
       [] OTHER -> 0]

CopyOutside(spans, map, size) ==
  Outside(spans[map.data], 0, size.datalen) \/ Outside(spans[map.oob], 0, size.ooblen)

-----------------------------------------------------------------------------
(* A request arrives *)

Arrives(t, op, pg, size, want) ==
  /\ fault = "none" /\ req[t].phase \in {"idle", "answered"} /\ requests < MaxRequests
  /\ requests' = requests + 1
  /\ req' = [req EXCEPT ![t] =
       [phase |-> op, op |-> op, page |-> pg, pipe |-> scheme.owner[pg], size |-> size,
        next |-> 1, ans |-> "none", raw |-> Nothing, want |-> want]]

(* read_process up to its loop *)
StartRead(t, pg, size) ==
  /\ Arrives(t, "read", pg, size, stored[pg])
  /\ LET i == scheme.owner[pg]
     IN bufs' = IF i = 0 THEN bufs
                ELSE [bufs EXCEPT ![t][i] = extract_raw_page_to_pipeline_page_layout(Pipe(i), flash[pg])]
  /\ UNCHANGED <<scheme, flash, masks, stored, fault, flips>>

(* The kernel programs a page once between erasures, one request at a time. *)
Writable(pg) == flash[pg] = Erased /\ \A t \in Threads : req[t].phase = "write" => req[t].page # pg

(* The NACK pipeline has no write_spans either. *)
HasWriteSpans(i) == i # 0 /\ Pipe(i).write # Nothing

(* write_process up to its loop *)
StartWrite(t, pg, pay, size) ==
  LET i == scheme.owner[pg]
  IN /\ Writable(pg) /\ HasWriteSpans(i)
     /\ ~CopyOutside(bufs[t][i], Pipe(i).write, size)
     /\ Arrives(t, "write", pg, size, [data |-> pay.data, oob |-> pay.oob, size |-> size, by |-> t])
     /\ bufs' = [bufs EXCEPT ![t][i] = copy_write_data_and_oob_spans(@, Pipe(i).write, pay, size)]
     /\ UNCHANGED <<scheme, flash, masks, stored, fault, flips>>

StartWriteOutside(t, pg, size) ==
  LET i == scheme.owner[pg]
  IN /\ fault = "none" /\ req[t].phase \in {"idle", "answered"} /\ requests < MaxRequests
     /\ Writable(pg) /\ HasWriteSpans(i)
     /\ CopyOutside(bufs[t][i], Pipe(i).write, size)
     /\ Fault("copy")

RefuseWrite(t, pg, size) ==
  /\ Writable(pg) /\ ~HasWriteSpans(scheme.owner[pg])
  /\ fault = "none" /\ req[t].phase \in {"idle", "answered"} /\ requests < MaxRequests
  /\ requests' = requests + 1
  /\ req' = [req EXCEPT ![t] =
       [phase |-> "answered", op |-> "write", page |-> pg, pipe |-> scheme.owner[pg], size |-> size,
        next |-> 1, ans |-> "EIO", raw |-> Nothing, want |-> Nothing]]
  /\ UNCHANGED <<scheme, flash, bufs, masks, stored, fault, flips>>

-----------------------------------------------------------------------------
(* One round of the loop over the codecs *)

(* Mutated: the codec's output is not what the next codec gets. *)
RunCodecOnCopy(t, result) ==
  /\ req' = [req EXCEPT ![t].next = @ + 1]
  /\ UNCHANGED <<scheme, flash, bufs, masks, stored, fault, requests, flips>>

(* Mutated: a codec that fails is tried again. *)
RunCodecRetries(t, result) ==
  /\ req' = IF result.stat = "ok" THEN [req EXCEPT ![t].next = @ + 1] ELSE req
  /\ bufs' = [bufs EXCEPT ![t][req[t].pipe] = result.spans]
  /\ UNCHANGED <<scheme, flash, masks, stored, fault, requests, flips>>

RunCodec(t, result) ==
  LET i == req[t].pipe
  IN CASE result.stat = "outside" -> Fault("codec")
       [] result.stat = "ok" ->
            /\ req' = [req EXCEPT ![t].next = @ + 1]
            /\ bufs' = [bufs EXCEPT ![t][i] = result.spans]
            /\ UNCHANGED <<scheme, flash, masks, stored, fault, requests, flips>>
       [] OTHER ->
            /\ req' = Answered(t, "DATA_RECOVERY_FAILED", Nothing)
            /\ bufs' = [bufs EXCEPT ![t][i] = result.spans]
            /\ UNCHANGED <<scheme, flash, masks, stored, fault, requests, flips>>

RunReadCodec(t) ==
  /\ Serving(t, "read") /\ req[t].pipe # 0
  /\ LET cs == Pipe(req[t].pipe).readCodecs
     IN /\ req[t].next <= Len(cs)
        /\ \E result \in {on_read(bufs[t][req[t].pipe], cs[req[t].next], masks[t])} : RunCodec(t, result)

RunWriteCodec(t) ==
  /\ Serving(t, "write")
  /\ LET cs == Pipe(req[t].pipe).writeCodecs
     IN /\ req[t].next <= Len(cs)
        /\ \E result \in {on_write(bufs[t][req[t].pipe], cs[req[t].next], masks[t])} : RunCodec(t, result)

(* Mutated: the answer is left at its default. *)
nack_codec_read_acks(t) ==
  /\ Serving(t, "read") /\ req[t].pipe = 0
  /\ req' = Answered(t, "ACK", Nothing)
  /\ UNCHANGED <<scheme, flash, bufs, masks, stored, fault, requests, flips>>

nack_codec_read(t) ==
  /\ Serving(t, "read") /\ req[t].pipe = 0
  /\ req' = Answered(t, "UNKNOWN_ALGORITHM", Nothing)
  /\ UNCHANGED <<scheme, flash, bufs, masks, stored, fault, requests, flips>>

-----------------------------------------------------------------------------
(* After the loop *)

FinishRead(t) ==
  /\ Serving(t, "read") /\ req[t].pipe # 0
  /\ LET p == Pipe(req[t].pipe)
         spans == bufs[t][req[t].pipe]
     IN /\ req[t].next > Len(p.readCodecs)
        /\ IF CopyOutside(spans, p.read, req[t].size) THEN Fault("copy")
           ELSE /\ req' = Answered(t, "ACK", copy_result_data_and_oob_spans(spans, p.read, req[t].size))
                /\ UNCHANGED <<scheme, flash, bufs, masks, stored, fault, requests, flips>>

(* The kernel programs the acknowledged buffer. *)
FinishWrite(t) ==
  /\ Serving(t, "write")
  /\ LET p == Pipe(req[t].pipe)
         raw == compose_raw_page_from_pipeline_page_layout(p, bufs[t][req[t].pipe])
     IN /\ req[t].next > Len(p.writeCodecs)
        /\ req' = Answered(t, "ACK", Nothing)
        /\ flash' = [flash EXCEPT ![req[t].page] = raw]
        /\ stored' = [stored EXCEPT ![req[t].page] =
                        [asked |-> req[t].want, image |-> raw, flipped |-> {}]]
  /\ UNCHANGED <<scheme, bufs, masks, fault, requests, flips>>

-----------------------------------------------------------------------------
(* The flash *)

Decay(pg, b) ==
  /\ fault = "none" /\ flips < MaxFlips /\ stored[pg] # Nothing
  /\ flash' = [flash EXCEPT ![pg][b] = Flip(@)]
  /\ stored' = [stored EXCEPT ![pg].flipped = @ \cup {b}]
  /\ flips' = flips + 1
  /\ UNCHANGED <<scheme, bufs, masks, req, fault, requests>>

Erase(pg) ==
  /\ fault = "none" /\ stored[pg] # Nothing
  /\ flash' = [flash EXCEPT ![pg] = Erased]
  /\ stored' = [stored EXCEPT ![pg] = Nothing]
  /\ UNCHANGED <<scheme, bufs, masks, req, fault, requests, flips>>

(* The loop of a thread between two requests *)
Serve(t) ==
  RunReadCodec(t) \/ RunWriteCodec(t) \/ nack_codec_read(t) \/ FinishRead(t) \/ FinishWrite(t)

Next ==
  \/ \E t \in Threads : Serve(t)
  \/ \E t \in Threads, pg \in Pages, size \in Sizes :
       StartRead(t, pg, size) \/ StartWriteOutside(t, pg, size) \/ RefuseWrite(t, pg, size)
  \/ \E t \in Threads, pg \in Pages, size \in Sizes, pay \in Payloads : StartWrite(t, pg, pay, size)
  \/ \E pg \in Pages, b \in 0 .. PageSize - 1 : Decay(pg, b)
  \/ \E pg \in Pages : Erase(pg)

Spec == Init /\ [][Next]_vars

(* A thread that has a request runs on: nothing in a handler blocks. *)
FairSpec == Spec /\ \A t \in Threads : WF_vars(Serve(t))
-----------------------------------------------------------------------------
(* Properties *)

Phases == {"idle", "read", "write", "answered"}

Answers == {"none", "ACK", "EIO", "UNKNOWN_ALGORITHM", "DATA_RECOVERY_FAILED"}

TypeOK ==
  /\ \E c \in Schemes : scheme = WithPipelines(c)
  /\ flash \in [Pages -> [0 .. PageSize - 1 -> Bit]]
  /\ \A t \in Threads : \A i \in DOMAIN scheme.pipes : \A s \in Spans(Pipe(i)) :
       bufs[t][i][s] \in [0 .. SpanLen(Pipe(i), s) - 1 -> Bit]
  /\ \A t \in Threads : req[t].phase \in Phases /\ req[t].ans \in Answers
  /\ fault \in {"none", "copy", "codec"}
  /\ requests \in 0 .. MaxRequests /\ flips \in 0 .. MaxFlips

(* A range of a codec lies inside its span. *)
Inside(p, at, len) == at.span \in Spans(p) /\ at.start + len <= SpanLen(p, at.span)

(***************************************************************************)
(* What scheme.c's discarded tests and queues.c's unchecked copies need:   *)
(* every codec context lies inside its spans for all the steps it runs,    *)
(* and the mapped spans are as long as the requests.                       *)
(***************************************************************************)
InRange(p) ==
  /\ \A c \in Range(p.readCodecs) :
       IF c.codec.type = "hamming"
       THEN Inside(p, c.data, STEP * c.codec.steps) /\ Inside(p, c.oob, CODE * c.codec.steps)
       ELSE Inside(p, c.data, c.data.length)
  /\ \A c \in Range(p.writeCodecs) :
       IF c.codec.type = "hamming"
       THEN LET n == div_round_up(c.src.length, STEP)
            IN Inside(p, c.src, STEP * n) /\ Inside(p, c.dest, CODE * n)
       ELSE Inside(p, c.dest, c.dest.length)
  /\ \A map \in {p.read, p.write} \ {Nothing} : \A size \in Sizes :
       size.datalen <= SpanLen(p, map.data) /\ size.ooblen <= SpanLen(p, map.oob)

(* The read codec undoes the write codec. *)
Undoes(r, w) ==
  /\ r.codec = w.codec
  /\ IF r.codec.type = "xor" THEN r.data = w.dest
     ELSE r.data = w.src /\ r.oob = w.dest /\ r.data.length = STEP * r.codec.steps

(* The read codecs undo the write codecs in reverse order; read codec      *)
(* number k undoes number u[k].  There is nothing to undo for memset.      *)
InReverse(u, p) ==
  /\ \A k \in DOMAIN u : Undoes(p.readCodecs[k], p.writeCodecs[u[k]])
  /\ \A k, l \in DOMAIN u : k < l => u[l] < u[k]
  /\ \A i \in DOMAIN p.writeCodecs : p.writeCodecs[i].codec.type # "memset" => \E k \in DOMAIN u : u[k] = i

(* Codes and patterns go to spans that nobody else writes, and not after a *)
(* code was computed over them.                                            *)
OwnSpans(p) ==
  \A i, j \in DOMAIN p.writeCodecs :
    LET w == p.writeCodecs[i]
        v == p.writeCodecs[j]
    IN w.codec.type # "xor" =>
         /\ w.dest.span \notin {p.read.data, p.read.oob}
         /\ i # j => w.dest.span # v.dest.span
         /\ j <= i /\ v.codec.type = "hamming" => w.dest.span # v.src.span

(* A configuration whose reading is meant to undo its writing. *)
Mirrored(p) ==
  /\ p.write # Nothing /\ p.read = p.write /\ p.read.data # p.read.oob
  /\ \E u \in [DOMAIN p.readCodecs -> DOMAIN p.writeCodecs] : InReverse(u, p)
  /\ OwnSpans(p)

(* The bytes of the page that a range of a span is stored in. *)
StoredAt(p, at) ==
  {b \in 0 .. PageSize - 1 :
     \E q \in Range(p.parts) :
       /\ q.span = at.span /\ q.start <= b /\ b < q.start + q.length
       /\ q.inspan + b - q.start \in at.start .. at.start + at.length - 1}

(* A decayed bit that a Hamming code of the pipeline protects. *)
Protected(p, b) ==
  \E c \in Range(p.readCodecs) :
    c.codec.type = "hamming" /\ b \in StoredAt(p, c.data) \cup StoredAt(p, c.oob)

Recoverable(p, flipped) ==
  flipped = {} \/ (Cardinality(flipped) = 1 /\ \A b \in flipped : Protected(p, b))

(* The answer is the data and OOB that the last write of the page asked for. *)
Returned(r) ==
  LET asked == r.want.asked
  IN /\ r.ans = "ACK"
     /\ \A b \in 0 .. r.size.datalen - 1 : b < asked.size.datalen => r.raw[b] = asked.data[b]
     /\ \A b \in 0 .. r.size.ooblen - 1 : b < asked.size.ooblen => r.raw[oob_offset + b] = asked.oob[b]

RoundTrip(r) ==
  /\ r.op = "read" /\ r.want # Nothing
  /\ InRange(Pipe(r.pipe)) /\ Mirrored(Pipe(r.pipe)) /\ Recoverable(Pipe(r.pipe), r.want.flipped)
  => Returned(r)

(* The codecs for which xor_read undoes xor_write: one-byte masks, read by *)
(* the thread that wrote.                                                  *)
XorHarmless(t) ==
  \A c \in Range(Pipe(req[t].pipe).readCodecs) :
    c.codec.type = "xor" => c.codec.size = 1 /\ req[t].want.asked.by = t

(***************************************************************************)
(* write_process, the flash and read_process together: whatever other      *)
(* requests the threads serve in between and whatever they left in the     *)
(* span buffers, a read returns what was last written, with one decayed    *)
(* bit repaired where the pipeline has a code over it.                     *)
(***************************************************************************)
ReadReturnsWritten ==
  \A t \in Threads :
    (req[t].ans # "none" /\ req[t].op = "read" /\ req[t].want # Nothing /\ XorHarmless(t)) =>
      RoundTrip(req[t])

(* The same for every mirrored pipeline; the comment in both loops of xor.c *)
(* says "Roll back to the first byte in the mask if needed".               *)
EveryMirrorRoundTrips == \A t \in Threads : req[t].ans # "none" => RoundTrip(req[t])

(* No request reaches a byte outside of a span buffer when the pipelines   *)
(* are as InRange says, under every order of requests.                     *)
InRangeNeverFaults == (\A i \in DOMAIN scheme.pipes : InRange(Pipe(i))) => fault = "none"

(* What the configuration's write pipeline makes of a request in buffers   *)
(* that held junk.                                                         *)
Reference(p, asked, mask, junk) ==
  compose_raw_page_from_pipeline_page_layout(
    p, FoldLeft(LAMBDA spans, c : on_write(spans, c, mask).spans,
                copy_write_data_and_oob_spans(junk, p.write, asked, asked.size), p.writeCodecs))

(* Buffers that hold a 1 in the places at and a 0 everywhere else. *)
Held(p, at) ==
  [s \in Spans(p) |-> [b \in 0 .. SpanLen(p, s) - 1 |-> IF <<s, b>> \in at THEN 1 ELSE 0]]

Places(p) == UNION {{<<s, b>> : b \in 0 .. SpanLen(p, s) - 1} : s \in Spans(p)}

(* Every byte of the page that the request and the codecs determine is     *)
(* programmed as they say, whatever the thread served before: what an      *)
(* earlier request left in the buffers stays in the bytes that a shorter   *)
(* one does not cover and in the codes over them.  A byte is determined    *)
(* when no place of the buffers has an influence on it; the codecs are     *)
(* exclusive ors and constants, so one place at a time tells.              *)
ImageIgnoresHistory ==
  \A pg \in {q \in Pages : stored[q] # Nothing} :
    LET a == stored[pg].asked
        p == Pipe(scheme.owner[pg])
        Image(at) == Reference(p, a, masks[a.by], Held(p, at))
        clean == Image({})
        images == {Image({place}) : place \in Places(p)}
    IN \A b \in 0 .. PageSize - 1 :
         stored[pg].image[b] # clean[b] => \E image \in images : image[b] # clean[b]

(***************************************************************************)
(* queues.c says of its copies that lengths were "already verified in the  *)
(* the scheme initialization from the configuration file", and the Hamming *)
(* codec that "Actual strong validation is taken place during pipeline     *)
(* execution (or pipeline construction, if possible)": no accepted         *)
(* pipeline makes a copy or a codec leave a span's buffer.                 *)
(***************************************************************************)
AccessesInsideSpans == fault = "none"

(* Pages without a partition are never answered with ACK, and pages whose  *)
(* pipeline cannot write keep their contents.                              *)
NackedPagesSealed ==
  /\ \A t \in Threads : req[t].ans = "ACK" => req[t].pipe # 0
  /\ \A pg \in Pages : ~HasWriteSpans(scheme.owner[pg]) => flash[pg] = Erased

(* Every request is answered: the kernel waits for it. *)
EveryRequestAnswered ==
  \A t \in Threads :
    req[t].phase \in {"read", "write"} ~> (req[t].phase = "answered" \/ fault # "none")
=============================================================================
