---------------------------- MODULE Worker_proofs ----------------------------
(***************************************************************************)
(* Proofs about Worker, for every set of threads, pages, schemes and       *)
(* requests: a page without a pipeline that can write is never programmed, *)
(* and a page without a partition is never acknowledged; pages and buffers *)
(* keep their types; and no access leaves a span where InRange holds.      *)
(***************************************************************************)
EXTENDS Worker, FiniteSetTheorems, WellFoundedInduction, TLAPS

Fields == {"phase", "op", "page", "pipe", "size", "next", "ans", "raw", "want"}

(* A thread between StartRead or StartWrite and its answer. *)
Busy(r) == r.phase \in {"read", "write"}

(* A request that is being written goes to the pipeline of its page, which *)
(* can write.                                                              *)
WritesWhereAllowed(r) ==
  r.phase = "write" => r.page \in Pages /\ r.pipe = scheme.owner[r.page] /\ HasWriteSpans(r.pipe)

SoundRequest(r) ==
  /\ Busy(r) => DOMAIN r = Fields /\ r.ans = "none"
  /\ WritesWhereAllowed(r)
  /\ r.ans = "ACK" => r.pipe # 0

SealedPage(pg) ==
  ~HasWriteSpans(scheme.owner[pg]) => flash[pg] = Erased /\ stored[pg] = Nothing

WorkerInv ==
  /\ DOMAIN req = Threads /\ DOMAIN flash = Pages /\ DOMAIN stored = Pages
  /\ \A t \in Threads : SoundRequest(req[t])
  /\ \A pg \in Pages : SealedPage(pg)

LEMMA WorkerInvInit == Init => WorkerInv
<1> SUFFICES ASSUME Init PROVE WorkerInv
  OBVIOUS
<1>1. /\ flash = [pg \in Pages |-> Erased] /\ stored = [pg \in Pages |-> Nothing]
      /\ req = [t \in Threads |-> Idle]
  BY DEF Init
<1>2. SoundRequest(Idle)
  BY DEF SoundRequest, Idle, Busy, WritesWhereAllowed
<1> QED
  BY <1>1, <1>2 DEF WorkerInv, SealedPage

(* The request of one thread changes, and the flash does not. *)
LEMMA RequestStep ==
  ASSUME WorkerInv, UNCHANGED <<scheme, flash, stored>>, NEW t \in Threads, NEW r,
         req' = [req EXCEPT ![t] = r], SoundRequest(r)
  PROVE  WorkerInv'
<1>1. \A i : HasWriteSpans(i)' <=> HasWriteSpans(i)
  BY DEF HasWriteSpans, Pipe
<1>2. \A q : SoundRequest(q)' <=> SoundRequest(q)
  BY <1>1 DEF SoundRequest, WritesWhereAllowed
<1> QED
  BY <1>1, <1>2 DEF WorkerInv, SealedPage

(* An access outside of a span stops everything else. *)
LEMMA NothingStep ==
  ASSUME WorkerInv, UNCHANGED <<scheme, flash, stored, req>>
  PROVE  WorkerInv'
<1>1. \A i : HasWriteSpans(i)' <=> HasWriteSpans(i)
  BY DEF HasWriteSpans, Pipe
<1> QED
  BY <1>1 DEF WorkerInv, SealedPage, SoundRequest, WritesWhereAllowed

LEMMA ArrivalStep ==
  ASSUME WorkerInv, NEW t \in Threads, NEW pg \in Pages, NEW size, NEW want, NEW op \in {"read", "write"},
         Arrives(t, op, pg, size, want), op = "write" => HasWriteSpans(scheme.owner[pg]),
         UNCHANGED <<scheme, flash, stored>>
  PROVE  WorkerInv'
<1> DEFINE r == [phase |-> op, op |-> op, page |-> pg, pipe |-> scheme.owner[pg], size |-> size,
                 next |-> 1, ans |-> "none", raw |-> Nothing, want |-> want]
<1>1. req' = [req EXCEPT ![t] = r]
  BY DEF Arrives
<1>2. SoundRequest(r)
  BY DEF SoundRequest, Busy, WritesWhereAllowed, Fields
<1> HIDE DEF r
<1> QED
  BY <1>1, <1>2, RequestStep

(* The answers of the codecs are never ACK. *)
LEMMA AnswerStep ==
  ASSUME WorkerInv, NEW t \in Threads, Busy(req[t]), NEW ans, NEW raw, req' = Answered(t, ans, raw),
         ans = "ACK" => req[t].pipe # 0, UNCHANGED <<scheme, flash, stored>>
  PROVE  WorkerInv'
<1> DEFINE r == [req[t] EXCEPT !.phase = "answered", !.ans = ans, !.raw = raw]
<1>1. req' = [req EXCEPT ![t] = r]
  BY DEF Answered, WorkerInv
<1>2. SoundRequest(r)
  <2>1. DOMAIN req[t] = Fields
    BY DEF WorkerInv, SoundRequest
  <2>2. r.phase = "answered" /\ r.ans = ans /\ r.pipe = req[t].pipe
    BY <2>1 DEF Fields
  <2> QED
    BY <2>2 DEF SoundRequest, Busy, WritesWhereAllowed
<1> HIDE DEF r
<1> QED
  BY <1>1, <1>2, RequestStep

LEMMA CodecStep ==
  ASSUME WorkerInv, NEW t \in Threads, Busy(req[t]), NEW result, RunCodec(t, result)
  PROVE  WorkerInv'
<1>1. CASE Fault("codec")
  BY <1>1, NothingStep DEF Fault
<1>2. CASE req' = Answered(t, "DATA_RECOVERY_FAILED", Nothing) /\ UNCHANGED <<scheme, flash, stored>>
  BY <1>2, AnswerStep
<1>3. CASE req' = [req EXCEPT ![t].next = @ + 1] /\ UNCHANGED <<scheme, flash, stored>>
  <2> DEFINE r == [req[t] EXCEPT !.next = @ + 1]
  <2>1. req' = [req EXCEPT ![t] = r]
    BY <1>3 DEF WorkerInv
  <2>2. SoundRequest(r)
    <3>1. DOMAIN req[t] = Fields /\ SoundRequest(req[t])
      BY DEF WorkerInv, SoundRequest
    <3>2. /\ DOMAIN r = Fields
          /\ r.phase = req[t].phase /\ r.ans = req[t].ans /\ r.pipe = req[t].pipe /\ r.page = req[t].page
      BY <3>1 DEF Fields
    <3> HIDE DEF r
    <3> QED
      BY <3>1, <3>2 DEF SoundRequest, Busy, WritesWhereAllowed
  <2> HIDE DEF r
  <2> QED
    BY <1>3, <2>1, <2>2, RequestStep
<1>4. Fault("codec")
      \/ (req' = Answered(t, "DATA_RECOVERY_FAILED", Nothing) /\ UNCHANGED <<scheme, flash, stored>>)
      \/ (req' = [req EXCEPT ![t].next = @ + 1] /\ UNCHANGED <<scheme, flash, stored>>)
  BY DEF RunCodec
<1> QED
  BY <1>1, <1>2, <1>3, <1>4

LEMMA ProgramStep ==
  ASSUME WorkerInv, NEW t \in Threads, FinishWrite(t)
  PROVE  WorkerInv'
<1> DEFINE r == [req[t] EXCEPT !.phase = "answered", !.ans = "ACK", !.raw = Nothing]
           pg == req[t].page
<1>1. SoundRequest(req[t]) /\ req[t].phase = "write" /\ DOMAIN req[t] = Fields
  BY DEF FinishWrite, Serving, WorkerInv, SoundRequest, Busy
<1>2. pg \in Pages /\ HasWriteSpans(scheme.owner[pg]) /\ req[t].pipe # 0
  BY <1>1 DEF SoundRequest, WritesWhereAllowed, HasWriteSpans
<1>3. PICK raw, what :
        /\ flash' = [flash EXCEPT ![pg] = raw] /\ stored' = [stored EXCEPT ![pg] = what]
        /\ req' = [req EXCEPT ![t] = r] /\ UNCHANGED scheme
  BY Zenon DEF FinishWrite, Answered
<1>4. \A i : HasWriteSpans(i)' <=> HasWriteSpans(i)
  BY <1>3 DEF HasWriteSpans, Pipe
<1>5. SoundRequest(r)
  <2>1. r.phase = "answered" /\ r.ans = "ACK" /\ r.pipe = req[t].pipe
    BY <1>1 DEF Fields
  <2> QED
    BY <1>2, <2>1 DEF SoundRequest, Busy, WritesWhereAllowed
<1>6. \A q : SoundRequest(q)' <=> SoundRequest(q)
  BY <1>3, <1>4 DEF SoundRequest, WritesWhereAllowed
<1> HIDE DEF r, pg
<1>7. \A u \in Threads : SoundRequest(req'[u])
  BY <1>3, <1>5 DEF WorkerInv
<1>8. (\A q \in Pages : SealedPage(q))'
  BY <1>2, <1>3, <1>4 DEF WorkerInv, SealedPage
<1> QED
  BY <1>3, <1>6, <1>7, <1>8 DEF WorkerInv

LEMMA FlashStep ==
  ASSUME WorkerInv, NEW pg \in Pages, Erase(pg) \/ \E b \in 0 .. PageSize - 1 : Decay(pg, b)
  PROVE  WorkerInv'
<1>1. HasWriteSpans(scheme.owner[pg]) /\ UNCHANGED <<scheme, req>>
  BY DEF Erase, Decay, WorkerInv, SealedPage
<1>2. PICK page, what : flash' = [flash EXCEPT ![pg] = page] /\ stored' = [stored EXCEPT ![pg] = what]
  <2>1. CASE Erase(pg)
    BY <2>1 DEF Erase
  <2>2. CASE \E b \in 0 .. PageSize - 1 : Decay(pg, b)
    <3>1. PICK b \in 0 .. PageSize - 1 : Decay(pg, b)
      BY <2>2
    <3>2. flash' = [flash EXCEPT ![pg] = [flash[pg] EXCEPT ![b] = Flip(@)]]
      BY <3>1 DEF Decay, WorkerInv
    <3>3. stored' = [stored EXCEPT ![pg] = [stored[pg] EXCEPT !.flipped = @ \cup {b}]]
      BY <3>1 DEF Decay, WorkerInv
    <3> QED
      BY <3>2, <3>3
  <2> QED
    BY <2>1, <2>2
<1>3. \A i : HasWriteSpans(i)' <=> HasWriteSpans(i)
  BY <1>1 DEF HasWriteSpans, Pipe
<1>4. \A q : SoundRequest(q)' <=> SoundRequest(q)
  BY <1>1, <1>3 DEF SoundRequest, WritesWhereAllowed
<1>5. (\A q \in Pages : SealedPage(q))'
  BY <1>1, <1>2, <1>3 DEF WorkerInv, SealedPage
<1> QED
  BY <1>1, <1>2, <1>4, <1>5 DEF WorkerInv

LEMMA ServeStep ==
  ASSUME WorkerInv, NEW t \in Threads, Serve(t)
  PROVE  WorkerInv'
<1>1. CASE RunReadCodec(t)
  <2>1. Busy(req[t]) /\ \E result : RunCodec(t, result)
    BY <1>1 DEF RunReadCodec, Serving, Busy
  <2> QED
    BY <2>1, CodecStep
<1>2. CASE RunWriteCodec(t)
  <2>1. Busy(req[t]) /\ \E result : RunCodec(t, result)
    BY <1>2 DEF RunWriteCodec, Serving, Busy
  <2> QED
    BY <2>1, CodecStep
<1>3. CASE nack_codec_read(t)
  <2>1. /\ Busy(req[t]) /\ req' = Answered(t, "UNKNOWN_ALGORITHM", Nothing)
        /\ UNCHANGED <<scheme, flash, stored>>
    BY <1>3 DEF nack_codec_read, Serving, Busy
  <2> QED
    BY <2>1, AnswerStep
<1>4. CASE FinishRead(t)
  <2>1. CASE Fault("copy")
    BY <2>1, NothingStep DEF Fault
  <2>2. CASE (\E raw : req' = Answered(t, "ACK", raw)) /\ UNCHANGED <<scheme, flash, stored>>
    <3>1. Busy(req[t]) /\ req[t].pipe # 0
      BY <1>4 DEF FinishRead, Serving, Busy
    <3> QED
      BY <2>2, <3>1, AnswerStep
  <2> QED
    BY <1>4, <2>1, <2>2, Zenon DEF FinishRead
<1>5. CASE FinishWrite(t)
  BY <1>5, ProgramStep
<1> QED
  BY <1>1, <1>2, <1>3, <1>4, <1>5 DEF Serve

LEMMA RefuseStep ==
  ASSUME WorkerInv, NEW t \in Threads, NEW pg, NEW size, RefuseWrite(t, pg, size)
  PROVE  WorkerInv'
<1> DEFINE r == [phase |-> "answered", op |-> "write", page |-> pg, pipe |-> scheme.owner[pg], size |-> size,
                 next |-> 1, ans |-> "EIO", raw |-> Nothing, want |-> Nothing]
<1>1. req' = [req EXCEPT ![t] = r] /\ UNCHANGED <<scheme, flash, stored>>
  BY DEF RefuseWrite
<1>2. SoundRequest(r)
  BY DEF SoundRequest, Busy, WritesWhereAllowed
<1> HIDE DEF r
<1> QED
  BY <1>1, <1>2, RequestStep

LEMMA WorkerInvStep == WorkerInv /\ [Next]_vars => WorkerInv'
<1> SUFFICES ASSUME WorkerInv, [Next]_vars PROVE WorkerInv'
  OBVIOUS
<1>1. CASE \E t \in Threads : Serve(t)
  BY <1>1, ServeStep
<1>2. ASSUME NEW t \in Threads, NEW pg \in Pages, NEW size \in Sizes, StartRead(t, pg, size)
      PROVE  WorkerInv'
  <2>1. Arrives(t, "read", pg, size, stored[pg]) /\ UNCHANGED <<scheme, flash, stored>>
    BY <1>2 DEF StartRead
  <2> QED
    BY <2>1, ArrivalStep
<1>3. ASSUME NEW t \in Threads, NEW pg \in Pages, NEW size \in Sizes, StartWriteOutside(t, pg, size)
      PROVE  WorkerInv'
  BY <1>3, NothingStep DEF StartWriteOutside, Fault
<1>4. ASSUME NEW t \in Threads, NEW pg \in Pages, NEW size \in Sizes, RefuseWrite(t, pg, size)
      PROVE  WorkerInv'
  BY <1>4, RefuseStep
<1>5. ASSUME NEW t \in Threads, NEW pg \in Pages, NEW size \in Sizes, NEW pay \in Payloads,
             StartWrite(t, pg, pay, size)
      PROVE  WorkerInv'
  <2>1. /\ \E want : Arrives(t, "write", pg, size, want)
        /\ HasWriteSpans(scheme.owner[pg]) /\ UNCHANGED <<scheme, flash, stored>>
    BY <1>5 DEF StartWrite
  <2> QED
    BY <2>1, ArrivalStep
<1>6. CASE \E pg \in Pages, b \in 0 .. PageSize - 1 : Decay(pg, b)
  BY <1>6, FlashStep
<1>7. CASE \E pg \in Pages : Erase(pg)
  BY <1>7, FlashStep
<1>8. CASE UNCHANGED vars
  BY <1>8, NothingStep DEF vars
<1> QED
  BY <1>1, <1>2, <1>3, <1>4, <1>5, <1>6, <1>7, <1>8 DEF Next

(***************************************************************************)
(* For any number of threads and any interleaving of their requests with   *)
(* decay and erasure: ACK is answered only for a page that a partition     *)
(* gives a pipeline, and a page whose pipeline cannot write is never       *)
(* programmed, not even by a request that was started for another page.    *)
(***************************************************************************)
THEOREM NackedPagesStaySealed == Spec => []NackedPagesSealed
<1>1. WorkerInv => NackedPagesSealed
  BY DEF WorkerInv, NackedPagesSealed, SoundRequest, SealedPage
<1> QED
  BY <1>1, WorkerInvInit, WorkerInvStep, PTL DEF Spec

-----------------------------------------------------------------------------
(* Induction over numbers *)

LEMMA Least ==
  ASSUME NEW S \in SUBSET Nat, S # {}
  PROVE  \E m \in S : \A k \in S : m <= k
<1> DEFINE R == OpToRel(<, Nat)
<1>1. IsWellFoundedOn(R, Nat)
  BY NatLessThanWellFounded, Zenon
<1>2. \A x, y \in Nat : y < x => <<y, x>> \in R
  BY DEF OpToRel
<1> HIDE DEF R
<1>3. PICK m \in S : \A k \in S : ~(<<k, m>> \in R)
  BY <1>1, WFMin, Zenon
<1>4. ASSUME NEW k \in S PROVE m <= k
  <2>1. ~(k < m)
    BY <1>2, <1>3, Zenon
  <2> QED
    BY <2>1
<1> QED
  BY <1>4

(* With the set of the numbers that have the property. *)
LEMMA Induction ==
  ASSUME NEW S, 0 \in S, \A d \in Nat : d \in S => d + 1 \in S
  PROVE  \A d \in Nat : d \in S
<1> SUFFICES ASSUME Nat \ S # {} PROVE FALSE
  OBVIOUS
<1>1. PICK m \in Nat \ S : \A k \in Nat \ S : m <= k
  BY Least
<1>2. m # 0 /\ m - 1 \in Nat /\ ~(m <= m - 1)
  BY <1>1
<1>3. m - 1 \in S
  BY <1>1, <1>2
<1>4. m - 1 + 1 = m
  BY <1>1
<1> QED
  BY <1>1, <1>2, <1>3, <1>4

-----------------------------------------------------------------------------
(* The parts of a span: where they start in it, and that they fill it *)

(* What part number n adds to the length of the parts before pos. *)
Adds(p, s, pos, n) ==
  IF p.parts[n].span = s /\ p.parts[n].start < pos THEN p.parts[n].length ELSE 0

Sums(f, p, s, pos, m) ==
  f = [n \in 0 .. m |-> IF n = 0 THEN 0
         ELSE IF p.parts[n].span = s /\ p.parts[n].start < pos THEN f[n - 1] + p.parts[n].length
         ELSE f[n - 1]]

LEMMA SumsExist ==
  ASSUME NEW p, NEW s, NEW pos
  PROVE  \A m \in Nat : \E f : Sums(f, p, s, pos, m)
<1> DEFINE T == {m \in Nat : \E f : Sums(f, p, s, pos, m)}
<1>1. 0 \in T
  <2> DEFINE f == [n \in 0 .. 0 |-> 0]
  <2>1. Sums(f, p, s, pos, 0)
    BY DEF Sums
  <2> QED
    BY <2>1
<1>2. ASSUME NEW m \in Nat, m \in T PROVE m + 1 \in T
  <2>1. PICK g : Sums(g, p, s, pos, m)
    BY <1>2
  <2> DEFINE Body(h, n) == IF n = 0 THEN 0
               ELSE IF p.parts[n].span = s /\ p.parts[n].start < pos THEN h[n - 1] + p.parts[n].length
               ELSE h[n - 1]
             f == [n \in 0 .. m + 1 |-> IF n <= m THEN g[n] ELSE Body(g, n)]
  <2>2. \A n \in 0 .. m : g[n] = Body(g, n)
    BY <2>1, Zenon DEF Sums
  <2>3. \A n \in 0 .. m : f[n] = g[n]
    OBVIOUS
  <2>4. f[m + 1] = Body(g, m + 1)
    OBVIOUS
  <2>5. DOMAIN f = 0 .. m + 1 /\ f = [n \in 0 .. m + 1 |-> f[n]]
    OBVIOUS
  <2> HIDE DEF f
  <2>6. ASSUME NEW n \in 0 .. m + 1 PROVE f[n] = Body(f, n)
    <3>1. CASE n = 0
      BY <2>2, <2>3, <3>1
    <3>2. CASE n # 0
      <4>1. n - 1 \in 0 .. m
        BY <3>2
      <4>2. f[n - 1] = g[n - 1]
        BY <2>3, <4>1
      <4>3. n \in 0 .. m \/ n = m + 1
        OBVIOUS
      <4> QED
        BY <2>2, <2>3, <2>4, <3>2, <4>2, <4>3
    <3> QED
      BY <3>1, <3>2
  <2>7. Sums(f, p, s, pos, m + 1)
    BY <2>5, <2>6, Zenon DEF Sums
  <2> QED
    BY <2>7
<1> HIDE DEF T
<1>3. \A m \in Nat : m \in T
  BY <1>1, <1>2, Induction
<1> QED
  BY <1>3 DEF T

PartsTyped(p) == p.parts \in Seq(Range(p.parts)) /\ \A q \in Range(p.parts) : RangeTyped(q)

LEMMA PartTyped ==
  ASSUME NEW p, PartsTyped(p)
  PROVE  /\ Len(p.parts) \in Nat /\ DOMAIN p.parts = 1 .. Len(p.parts)
         /\ \A n \in 1 .. Len(p.parts) : p.parts[n].start \in Nat /\ p.parts[n].length \in Nat
<1>1. Len(p.parts) \in Nat /\ DOMAIN p.parts = 1 .. Len(p.parts)
  BY DEF PartsTyped
<1>2. \A n \in DOMAIN p.parts : p.parts[n] \in Range(p.parts)
  BY DEF Range
<1> QED
  BY <1>1, <1>2 DEF PartsTyped, RangeTyped

SumRun(f, p, s, pos) ==
  /\ f[0] = 0 /\ LengthBefore(p, s, pos) = f[Len(p.parts)]
  /\ \A n \in 0 .. Len(p.parts) : f[n] \in Nat
  /\ \A n \in 1 .. Len(p.parts) : Adds(p, s, pos, n) \in Nat /\ f[n] = f[n - 1] + Adds(p, s, pos, n)

LEMMA LengthSums ==
  ASSUME NEW p, PartsTyped(p), NEW s, NEW pos
  PROVE  \E f : SumRun(f, p, s, pos)
<1> DEFINE L == Len(p.parts)
           f == CHOOSE f : Sums(f, p, s, pos, L)
<1>1. L \in Nat /\ \A n \in 1 .. L : p.parts[n].length \in Nat
  BY PartTyped
<1>2. LengthBefore(p, s, pos) = f[L]
  BY Zenon DEF LengthBefore, Sums
<1>3. Sums(f, p, s, pos, L)
  <2>1. \E g : Sums(g, p, s, pos, L)
    BY <1>1, SumsExist
  <2> QED
    BY <2>1, Zenon
<1> HIDE DEF f, L
<1>4. \A n \in 0 .. L : f[n] = IF n = 0 THEN 0
               ELSE IF p.parts[n].span = s /\ p.parts[n].start < pos THEN f[n - 1] + p.parts[n].length
               ELSE f[n - 1]
  BY <1>3, Zenon DEF Sums
<1>5. \A n \in 1 .. L : Adds(p, s, pos, n) \in Nat
  BY <1>1 DEF Adds
<1>6. f[0] = 0
  BY <1>1, <1>4
<1>7. ASSUME NEW n \in 1 .. L, f[n - 1] \in Nat
      PROVE  f[n] = f[n - 1] + Adds(p, s, pos, n)
  <2>1. n \in 0 .. L /\ n # 0
    BY <1>1
  <2> QED
    BY <1>1, <1>4, <1>7, <2>1 DEF Adds
<1> DEFINE T == {n \in Nat : n <= L => f[n] \in Nat}
<1>8. \A n \in Nat : n \in T
  <2>1. 0 \in T
    BY <1>6
  <2>2. ASSUME NEW n \in Nat, n \in T PROVE n + 1 \in T
    <3> SUFFICES ASSUME n + 1 <= L PROVE f[n + 1] \in Nat
      OBVIOUS
    <3>1. n + 1 \in 1 .. L /\ n + 1 - 1 = n /\ f[n] \in Nat
      BY <1>1, <2>2
    <3> QED
      BY <1>5, <1>7, <3>1
  <2> HIDE DEF T
  <2> QED
    BY <2>1, <2>2, Induction
<1>9. \A n \in 0 .. L : f[n] \in Nat
  BY <1>1, <1>8
<1>10. \A n \in 1 .. L : n - 1 \in 0 .. L
  BY <1>1
<1>11. \A n \in 1 .. L : f[n] = f[n - 1] + Adds(p, s, pos, n)
  BY <1>7, <1>9, <1>10
<1> QED
  BY <1>2, <1>5, <1>6, <1>9, <1>11, Zenon DEF SumRun, L

LEMMA LengthType ==
  ASSUME NEW p, PartsTyped(p), NEW s, NEW pos
  PROVE  LengthBefore(p, s, pos) \in Nat
<1>1. PICK f : SumRun(f, p, s, pos)
  BY LengthSums
<1> QED
  BY <1>1, PartTyped DEF SumRun

(* A sum that gains l on another one at part k, and nothing elsewhere.      *)
LEMMA SumsCompare ==
  ASSUME NEW p, PartsTyped(p), NEW s, NEW a, NEW b, NEW k \in 1 .. Len(p.parts), NEW l \in Int,
         \A n \in 1 .. Len(p.parts) :
           Adds(p, s, b, n) >= Adds(p, s, a, n) + (IF n = k THEN l ELSE 0)
  PROVE  LengthBefore(p, s, b) >= LengthBefore(p, s, a) + l
<1> DEFINE L == Len(p.parts)
<1>0. L \in Nat
  BY PartTyped
<1>1. PICK f : SumRun(f, p, s, a)
  BY LengthSums
<1>2. PICK g : SumRun(g, p, s, b)
  BY LengthSums
<1> DEFINE Less(n) == g[n] >= f[n] + (IF n >= k THEN l ELSE 0)
           T == {n \in Nat : n <= L => Less(n)}
<1>3. Less(0)
  BY <1>1, <1>2 DEF SumRun
<1>4. ASSUME NEW n \in Nat, n + 1 <= L, Less(n) PROVE Less(n + 1)
  <2>1. n + 1 \in 1 .. L /\ n \in 0 .. L /\ n + 1 \in 0 .. L /\ n + 1 - 1 = n
    BY <1>0, <1>4
  <2>2. /\ f[n] \in Nat /\ g[n] \in Nat /\ Adds(p, s, a, n + 1) \in Nat /\ Adds(p, s, b, n + 1) \in Nat
        /\ f[n + 1] = f[n] + Adds(p, s, a, n + 1)
        /\ g[n + 1] = g[n] + Adds(p, s, b, n + 1)
    BY <1>1, <1>2, <2>1 DEF SumRun
  <2>3. Adds(p, s, b, n + 1) >= Adds(p, s, a, n + 1) + (IF n + 1 = k THEN l ELSE 0)
    BY <2>1
  <2> QED
    BY <1>4, <2>2, <2>3
<1>5. \A n \in Nat : n \in T
  <2>1. 0 \in T
    BY <1>3
  <2>2. ASSUME NEW n \in Nat, n \in T PROVE n + 1 \in T
    <3> SUFFICES ASSUME n + 1 <= L PROVE Less(n + 1)
      OBVIOUS
    <3>1. n <= L
      BY <1>0
    <3>2. Less(n)
      BY <2>2, <3>1
    <3> HIDE DEF Less
    <3> QED
      BY <1>4, <3>2
  <2> HIDE DEF T
  <2> QED
    BY <2>1, <2>2, Induction
<1>6. Less(L)
  <2> HIDE DEF Less
  <2> QED
    BY <1>0, <1>5
<1> QED
  BY <1>0, <1>1, <1>2, <1>6 DEF SumRun

LEMMA LengthGrows ==
  ASSUME NEW p, PartsTyped(p), NEW i \in DOMAIN p.parts, NEW pos \in Nat, p.parts[i].start < pos
  PROVE  LengthBefore(p, p.parts[i].span, p.parts[i].start) + p.parts[i].length
           <= LengthBefore(p, p.parts[i].span, pos)
<1> DEFINE s == p.parts[i].span
           a == p.parts[i].start
           l == p.parts[i].length
<1>1. i \in 1 .. Len(p.parts) /\ a \in Nat /\ l \in Nat
      /\ \A n \in 1 .. Len(p.parts) : p.parts[n].start \in Nat /\ p.parts[n].length \in Nat
  BY PartTyped
<1>2. LengthBefore(p, s, a) \in Nat /\ LengthBefore(p, s, pos) \in Nat
  BY LengthType
<1>3. \A n \in 1 .. Len(p.parts) : Adds(p, s, pos, n) >= Adds(p, s, a, n) + (IF n = i THEN l ELSE 0)
  BY <1>1 DEF Adds
<1> HIDE DEF s, a, l
<1>4. l \in Int
  BY <1>1
<1>5. LengthBefore(p, s, pos) >= LengthBefore(p, s, a) + l
  BY <1>1, <1>3, <1>4, SumsCompare
<1>6. LengthBefore(p, s, a) + l <= LengthBefore(p, s, pos)
  BY <1>1, <1>2, <1>5
<1> QED
  BY <1>6 DEF s, a, l

Disjoint(p) ==
  \A i, j \in DOMAIN p.parts :
    \/ i = j
    \/ p.parts[i].start + p.parts[i].length <= p.parts[j].start
    \/ p.parts[j].start + p.parts[j].length <= p.parts[i].start

(* One position on, a span is longer by the part that starts there, if any. *)
LEMMA LengthNext ==
  ASSUME NEW p, PartsTyped(p), Disjoint(p), NEW s \in CfgSpans(p), NEW pos \in Nat
  PROVE  \/ LengthBefore(p, s, pos + 1) <= LengthBefore(p, s, pos)
         \/ \E i \in DOMAIN p.parts :
              /\ p.parts[i].span = s /\ p.parts[i].start = pos
              /\ LengthBefore(p, s, pos + 1) <= LengthBefore(p, s, pos) + p.parts[i].length
<1> DEFINE L == Len(p.parts)
           Here(i) == p.parts[i].span = s /\ p.parts[i].start = pos /\ p.parts[i].length > 0
<1>1. L \in Nat /\ DOMAIN p.parts = 1 .. L
      /\ \A n \in 1 .. L : p.parts[n].start \in Nat /\ p.parts[n].length \in Nat
  BY PartTyped
<1>2. LengthBefore(p, s, pos) \in Nat /\ LengthBefore(p, s, pos + 1) \in Nat
  BY LengthType
<1>3. CASE \E i \in 1 .. L : Here(i)
  <2>1. PICK i \in 1 .. L : Here(i)
    BY <1>3
  <2> DEFINE l == p.parts[i].length
             m == 0 - l
  <2>2. \A n \in 1 .. L : Adds(p, s, pos, n) >= Adds(p, s, pos + 1, n) + (IF n = i THEN m ELSE 0)
    <3> SUFFICES ASSUME NEW n \in 1 .. L
                 PROVE  Adds(p, s, pos, n) >= Adds(p, s, pos + 1, n) + (IF n = i THEN m ELSE 0)
      OBVIOUS
    <3>1. \/ n = i
          \/ p.parts[n].start + p.parts[n].length <= pos
          \/ pos + l <= p.parts[n].start
      BY <1>1, <2>1 DEF Disjoint
    <3>2. p.parts[n].start \in Nat /\ p.parts[n].length \in Nat /\ l \in Nat /\ l > 0
      BY <1>1, <2>1
    <3>3. n = i => p.parts[n].span = s /\ p.parts[n].start = pos /\ p.parts[n].length = l
      BY <2>1
    <3> HIDE DEF l
    <3> QED
      BY <3>1, <3>2, <3>3 DEF Adds
  <2>3. m \in Int /\ l \in Nat
    BY <1>1, <2>1
  <2> HIDE DEF m
  <2>4. LengthBefore(p, s, pos) >= LengthBefore(p, s, pos + 1) + m
    BY <2>1, <2>2, <2>3, SumsCompare
  <2>5. LengthBefore(p, s, pos + 1) <= LengthBefore(p, s, pos) + l
    BY <1>2, <2>3, <2>4 DEF m
  <2> QED
    BY <1>1, <2>1, <2>5
<1>4. CASE ~ \E i \in 1 .. L : Here(i)
  <2>1. PICK k \in 1 .. L : p.parts[k].span = s
    BY <1>1 DEF CfgSpans
  <2>2. \A n \in 1 .. L : Adds(p, s, pos, n) >= Adds(p, s, pos + 1, n) + (IF n = k THEN 0 ELSE 0)
    BY <1>1, <1>4 DEF Adds
  <2>3. LengthBefore(p, s, pos) >= LengthBefore(p, s, pos + 1) + 0
    BY <2>1, <2>2, SumsCompare
  <2> QED
    BY <1>2, <2>3
<1> QED
  BY <1>3, <1>4

(* A byte of a span, and the part that holds it. *)
Covers(p, i, s, b) ==
  /\ p.parts[i].span = s
  /\ LengthBefore(p, s, p.parts[i].start) <= b
  /\ b < LengthBefore(p, s, p.parts[i].start) + p.parts[i].length

LEMMA SpanCovered ==
  ASSUME NEW p, PartsTyped(p), Disjoint(p), NEW s \in CfgSpans(p)
  PROVE  \A pos \in Nat : \A b \in Nat :
           b < LengthBefore(p, s, pos) => \E i \in DOMAIN p.parts : Covers(p, i, s, b)
<1> DEFINE Full(pos) == \A b \in Nat : b < LengthBefore(p, s, pos) => \E i \in DOMAIN p.parts : Covers(p, i, s, b)
           T == {pos \in Nat : Full(pos)}
<1>0. \A pos : LengthBefore(p, s, pos) \in Nat
  BY LengthType
<1>1. LengthBefore(p, s, 0) = 0
  <2>1. PICK f : SumRun(f, p, s, 0)
    BY LengthSums
  <2> DEFINE L == Len(p.parts)
             Z == {n \in Nat : n <= L => f[n] = 0}
  <2>2. L \in Nat /\ \A n \in 1 .. L : p.parts[n].start \in Nat
    BY PartTyped
  <2>3. \A n \in 1 .. L : Adds(p, s, 0, n) = 0
    BY <2>2 DEF Adds
  <2>4. 0 \in Z
    BY <2>1 DEF SumRun
  <2>5. ASSUME NEW n \in Nat, n \in Z PROVE n + 1 \in Z
    <3> SUFFICES ASSUME n + 1 <= L PROVE f[n + 1] = 0
      OBVIOUS
    <3>1. n + 1 \in 1 .. L /\ (n + 1) - 1 = n /\ f[n] = 0
      BY <2>2, <2>5
    <3>2. f[n + 1] = f[n] + Adds(p, s, 0, n + 1)
      BY <2>1, <3>1 DEF SumRun
    <3> QED
      BY <2>3, <3>1, <3>2
  <2>6. \A n \in Nat : n \in Z
    <3> HIDE DEF Z
    <3> QED
      BY <2>4, <2>5, Induction
  <2> QED
    BY <2>1, <2>2, <2>6 DEF SumRun
<1>2. 0 \in T
  BY <1>1
<1>3. ASSUME NEW pos \in Nat, pos \in T PROVE pos + 1 \in T
  <2> SUFFICES ASSUME NEW b \in Nat, b < LengthBefore(p, s, pos + 1)
               PROVE  \E i \in DOMAIN p.parts : Covers(p, i, s, b)
    OBVIOUS
  <2>1. CASE b < LengthBefore(p, s, pos)
    BY <1>3, <2>1
  <2>2. CASE LengthBefore(p, s, pos) <= b
    <3>1. ~(LengthBefore(p, s, pos + 1) <= LengthBefore(p, s, pos))
      BY <1>0, <2>2
    <3>2. PICK i \in DOMAIN p.parts :
              /\ p.parts[i].span = s /\ p.parts[i].start = pos
              /\ LengthBefore(p, s, pos + 1) <= LengthBefore(p, s, pos) + p.parts[i].length
      BY <3>1, LengthNext
    <3>3. p.parts[i].length \in Nat
      BY PartTyped
    <3>4. b < LengthBefore(p, s, pos) + p.parts[i].length
      BY <1>0, <3>2, <3>3
    <3> QED
      BY <2>2, <3>2, <3>4 DEF Covers
  <2> QED
    BY <1>0, <2>1, <2>2
<1>4. \A pos \in Nat : pos \in T
  <2> HIDE DEF T
  <2> QED
    BY <1>2, <1>3, Induction
<1> QED
  BY <1>4

-----------------------------------------------------------------------------
(* What an accepted pipeline is *)

(* The parts lie in the page and in their spans, and fill the spans. *)
PartInside(p, q) ==
  /\ q.start \in Nat /\ q.length \in Nat /\ q.inspan \in Nat
  /\ q.span \in Spans(p) /\ q.start + q.length <= PageSize
  /\ q.length > 0 => q.inspan + q.length <= SpanLen(p, q.span)

Holds(q, s, b) == q.span = s /\ q.inspan <= b /\ b < q.inspan + q.length

Filled(p) ==
  /\ \A s \in Spans(p) : SpanLen(p, s) \in Nat
  /\ \A q \in Range(p.parts) : PartInside(p, q)
  /\ \A s \in Spans(p) : \A b \in Nat :
       b < SpanLen(p, s) => \E q \in Range(p.parts) : Holds(q, s, b)

LEMMA BuiltFilled ==
  ASSUME NEW c, PartsTyped(c), LayoutAccepted(Built(c)), PageSize \in Nat
  PROVE  Filled(Built(c))
<1> DEFINE p == Built(c)
           L == Len(c.parts)
<1>1. L \in Nat /\ DOMAIN c.parts = 1 .. L
      /\ \A n \in 1 .. L : c.parts[n].start \in Nat /\ c.parts[n].length \in Nat
  BY PartTyped
<1>2. DOMAIN p.parts = 1 .. L
      /\ \A i \in 1 .. L : /\ p.parts[i].span = c.parts[i].span /\ p.parts[i].start = c.parts[i].start
                           /\ p.parts[i].length = c.parts[i].length
                           /\ p.parts[i].inspan = LengthBefore(c, c.parts[i].span, c.parts[i].start)
  BY <1>1 DEF Built
<1>3. Spans(p) = CfgSpans(c) /\ \A s \in CfgSpans(c) : SpanLen(p, s) = LengthBefore(c, s, PageSize)
  BY DEF Built, Spans, SpanLen
<1>4. \A s, pos : LengthBefore(c, s, pos) \in Nat
  BY LengthType
<1>5. \A i \in 1 .. L : c.parts[i].start + c.parts[i].length <= PageSize
  <2>1. \A i \in DOMAIN p.parts : p.parts[i].start + p.parts[i].length <= PageSize
    BY DEF LayoutAccepted
  <2> HIDE DEF p
  <2> QED
    BY <1>2, <2>1
<1>6. Disjoint(c)
  <2>1. \A i, j \in DOMAIN p.parts :
           \/ i = j \/ p.parts[i].start + p.parts[i].length <= p.parts[j].start
           \/ p.parts[j].start + p.parts[j].length <= p.parts[i].start
    BY DEF LayoutAccepted
  <2> HIDE DEF p
  <2> QED
    BY <1>1, <1>2, <2>1 DEF Disjoint
<1> HIDE DEF p, L
<1>7. ASSUME NEW i \in 1 .. L PROVE PartInside(p, p.parts[i])
  <2> DEFINE s == c.parts[i].span
             a == c.parts[i].start
             l == c.parts[i].length
  <2>1. s \in CfgSpans(c)
    BY <1>1 DEF CfgSpans
  <2>2. a \in Nat /\ l \in Nat /\ a + l <= PageSize
    BY <1>1, <1>5
  <2>3. l > 0 => a < PageSize
    BY <2>2
  <2>4. l > 0 => LengthBefore(c, s, a) + l <= LengthBefore(c, s, PageSize)
    <3> HIDE DEF s, a, l
    <3>1. i \in DOMAIN c.parts
      BY <1>1
    <3> QED
      BY <2>3, <3>1, LengthGrows DEF s, a, l
  <2>5. LengthBefore(c, s, a) \in Nat
    BY <1>4
  <2> QED
    BY <1>2, <1>3, <2>1, <2>2, <2>4, <2>5 DEF PartInside
<1>8. \A q \in Range(p.parts) : PartInside(p, q)
  BY <1>2, <1>7 DEF Range
<1>9. ASSUME NEW s \in CfgSpans(c), NEW b \in Nat, b < LengthBefore(c, s, PageSize)
      PROVE  \E q \in Range(p.parts) : Holds(q, s, b)
  <2>1. PICK i \in DOMAIN c.parts : Covers(c, i, s, b)
    BY <1>6, <1>9, SpanCovered
  <2>2. i \in 1 .. L /\ p.parts[i] \in Range(p.parts)
    BY <1>1, <1>2 DEF Range
  <2>3. Holds(p.parts[i], s, b)
    BY <1>2, <2>1, <2>2 DEF Covers, Holds
  <2> QED
    BY <2>2, <2>3
<1>10. Filled(p)
  BY <1>3, <1>4, <1>8, <1>9 DEF Filled
<1> QED
  BY <1>10 DEF p

ReadReady(p, c) ==
  /\ add_pipeline_read_codec(p, c)
  /\ CodecTyped(c.codec) /\ RangeTyped(c.data) /\ (c.oob # Nothing => RangeTyped(c.oob))

WriteReady(p, c) ==
  /\ add_pipeline_write_codec(p, c)
  /\ CodecTyped(c.codec) /\ RangeTyped(c.dest) /\ (c.src # Nothing => RangeTyped(c.src))

Ready(p) ==
  /\ Filled(p)
  /\ Len(p.readCodecs) \in Nat /\ DOMAIN p.readCodecs = 1 .. Len(p.readCodecs)
  /\ Len(p.writeCodecs) \in Nat /\ DOMAIN p.writeCodecs = 1 .. Len(p.writeCodecs)
  /\ \A i \in DOMAIN p.readCodecs : ReadReady(p, p.readCodecs[i])
  /\ \A i \in DOMAIN p.writeCodecs : WriteReady(p, p.writeCodecs[i])
  /\ p.read # Nothing /\ set_request_mappings(p, p.read)
  /\ p.write # Nothing => set_request_mappings(p, p.write)

LEMMA BuiltReady ==
  ASSUME NEW c, PipeTyped(c), create_pipeline_obj(Built(c)), PageSize \in Nat
  PROVE  Ready(Built(c))
<1> DEFINE p == Built(c)
<1>1. p.readCodecs = c.readCodecs /\ p.writeCodecs = c.writeCodecs /\ p.read # Nothing
  BY DEF Built, PipeTyped
<1>2. PartsTyped(c)
  BY DEF PipeTyped, PartsTyped
<1>3. Filled(p)
  BY <1>2, BuiltFilled DEF create_pipeline_obj
<1>4. /\ \A i \in DOMAIN p.readCodecs : add_pipeline_read_codec(p, p.readCodecs[i])
      /\ \A i \in DOMAIN p.writeCodecs : add_pipeline_write_codec(p, p.writeCodecs[i])
      /\ set_request_mappings(p, p.read) /\ (p.write # Nothing => set_request_mappings(p, p.write))
  BY DEF create_pipeline_obj
<1> HIDE DEF p
<1>5. /\ Len(c.readCodecs) \in Nat /\ DOMAIN c.readCodecs = 1 .. Len(c.readCodecs)
      /\ Len(c.writeCodecs) \in Nat /\ DOMAIN c.writeCodecs = 1 .. Len(c.writeCodecs)
  BY DEF PipeTyped
<1>6. \A i \in DOMAIN c.readCodecs : c.readCodecs[i] \in Range(c.readCodecs)
  BY DEF Range
<1>7. \A i \in DOMAIN c.writeCodecs : c.writeCodecs[i] \in Range(c.writeCodecs)
  BY DEF Range
<1>8. \A i \in DOMAIN p.readCodecs : ReadReady(p, p.readCodecs[i])
  BY <1>1, <1>4, <1>6 DEF ReadReady, PipeTyped
<1>9. \A i \in DOMAIN p.writeCodecs : WriteReady(p, p.writeCodecs[i])
  BY <1>1, <1>4, <1>7 DEF WriteReady, PipeTyped
<1>10. Ready(p)
  BY <1>1, <1>3, <1>4, <1>5, <1>8, <1>9 DEF Ready
<1> QED
  BY <1>10 DEF p

-----------------------------------------------------------------------------
(* What the codecs return *)

Buffer(n) == [0 .. n - 1 -> Bit]

Bits(f) == \A x \in DOMAIN f : f[x] \in Bit

(* The span buffers of a pipeline. *)
Buffers(p, spans) ==
  DOMAIN spans = Spans(p) /\ \A s \in Spans(p) : spans[s] \in Buffer(SpanLen(p, s))

CodecResult(p, r) ==
  /\ DOMAIN r = {"spans", "stat"}
  /\ r.stat \in {"ok", "EBADMSG", "outside"} /\ Buffers(p, r.spans)

LEMMA PasteType ==
  ASSUME NEW n, NEW buf \in Buffer(n), NEW start, NEW bytes, Bits(bytes)
  PROVE  Paste(buf, start, bytes) \in Buffer(n)
BY DEF Paste, Buffer, Bits

LEMMA SliceType ==
  ASSUME NEW n \in Nat, NEW buf \in Buffer(n), NEW start \in Nat, NEW len \in Nat,
         ~Outside(buf, start, len)
  PROVE  Slice(buf, start, len) \in Buffer(len) /\ Bits(Slice(buf, start, len))
<1>1. len > 0 => start + len - 1 \in 0 .. n - 1
  BY DEF Outside, Buffer
<1>2. \A i \in 0 .. len - 1 : start + i \in 0 .. n - 1
  BY <1>1
<1> QED
  BY <1>2 DEF Slice, Buffer, Bits

LEMMA InsideBuffer ==
  ASSUME NEW n \in Nat, NEW buf \in Buffer(n), NEW start \in Nat, NEW len \in Nat, start + len <= n
  PROVE  ~Outside(buf, start, len)
BY DEF Outside, Buffer

LEMMA PasteSpans ==
  ASSUME NEW p, NEW spans, Buffers(p, spans), NEW s \in Spans(p), NEW start, NEW bytes, Bits(bytes)
  PROVE  Buffers(p, [spans EXCEPT ![s] = Paste(@, start, bytes)])
<1>1. Paste(spans[s], start, bytes) \in Buffer(SpanLen(p, s))
  BY PasteType DEF Buffers
<1> DEFINE new == Paste(spans[s], start, bytes)
<1>2. [spans EXCEPT ![s] = Paste(@, start, bytes)] = [spans EXCEPT ![s] = new]
  OBVIOUS
<1> HIDE DEF new
<1>3. Buffers(p, [spans EXCEPT ![s] = new])
  <2>1. new \in Buffer(SpanLen(p, s))
    BY <1>1 DEF new
  <2> QED
    BY <2>1 DEF Buffers
<1> QED
  BY <1>2, <1>3

LEMMA BytewiseType ==
  ASSUME NEW p, Filled(p), NEW spans, Buffers(p, spans), NEW at, RangeTyped(at), at.span \in Spans(p),
         NEW bytes, ~Outside(spans[at.span], at.start, at.length) => Bits(bytes)
  PROVE  /\ CodecResult(p, Bytewise(spans, at, bytes))
         /\ at.start + at.length <= SpanLen(p, at.span) => Bytewise(spans, at, bytes).stat # "outside"
<1> DEFINE out == Outside(spans[at.span], at.start, at.length)
<1>1. CASE out
  <2>1. Bytewise(spans, at, bytes) = [spans |-> spans, stat |-> "outside"]
    BY <1>1 DEF Bytewise
  <2>2. SpanLen(p, at.span) \in Nat /\ spans[at.span] \in Buffer(SpanLen(p, at.span))
    BY DEF Filled, Buffers
  <2>3. ~(at.start + at.length <= SpanLen(p, at.span))
    BY <1>1, <2>2, InsideBuffer DEF RangeTyped
  <2> QED
    BY <2>1, <2>3 DEF CodecResult
<1>2. CASE ~out
  <2> DEFINE new == [spans EXCEPT ![at.span] = Paste(@, at.start, bytes)]
  <2>1. Bytewise(spans, at, bytes) = [spans |-> new, stat |-> "ok"]
    BY <1>2 DEF Bytewise
  <2>2. Buffers(p, new)
    BY <1>2, PasteSpans
  <2> HIDE DEF new
  <2> QED
    BY <2>1, <2>2 DEF CodecResult
<1> QED
  BY <1>1, <1>2

LEMMA StepPositive == STEP \in Nat \ {0} /\ CODE \in Nat \ {0}
<1> DEFINE I == 0 .. K - 1
<1>1. K \in Nat \ {0}
  BY KAssumption
<1>2. IsFiniteSet(I) /\ Cardinality(I) = K
  BY <1>1, FS_Interval
<1>3. IsFiniteSet(SUBSET I) /\ Cardinality(SUBSET I) = 2 ^ K
  BY <1>2, FS_SUBSET
<1>4. Cardinality(SUBSET I) \in Nat
  BY <1>3, FS_CardinalityType
<1>5. SUBSET I # {}
  OBVIOUS
<1>6. Cardinality(SUBSET I) # 0
  BY <1>3, <1>5, FS_EmptySet
<1> QED
  BY <1>1, <1>3, <1>4, <1>6 DEF STEP, CODE

LEMMA ParityBit ==
  ASSUME NEW d, d \subseteq SUBSET (0 .. K - 1), NEW j, NEW v
  PROVE  Flip(Parity(d, j, v)) \in Bit
<1> DEFINE S == {a \in d : AddrBit(a, j) = v}
<1>0. IsFiniteSet(0 .. K - 1)
  BY KAssumption, FS_Interval
<1>1. IsFiniteSet(SUBSET (0 .. K - 1))
  BY <1>0, FS_SUBSET
<1>2. IsFiniteSet(S)
  BY <1>1, FS_Subset, S \subseteq SUBSET (0 .. K - 1)
<1>3. Cardinality(S) \in Nat
  BY <1>2, FS_CardinalityType
<1>4. \A n \in Nat : n % 2 \in {0, 1}
  OBVIOUS
<1> QED
  BY <1>3, <1>4 DEF Parity, Bit, Flip

LEMMA OnesAddresses ==
  ASSUME NEW data
  PROVE  Ones(data) \subseteq SUBSET (0 .. K - 1)
BY DEF Ones, Addr

LEMMA CalculateType == calculate \in [Chunk -> Code]
<1> SUFFICES ASSUME NEW data \in Chunk PROVE calculate[data] \in Code
  BY DEF calculate
<1> DEFINE c == ecc_sw_hamming_calculate(Ones(data), FALSE)
<1>1. ASSUME NEW j \in 0 .. K - 1, NEW v \in Bit PROVE c.par[j][v] \in Bit
  <2> DEFINE h == Half(j, v, FALSE)
  <2>1. c.par[j][v] = Flip(Parity(Ones(data), j, h))
    BY DEF ecc_sw_hamming_calculate
  <2> HIDE DEF h, c
  <2>2. Flip(Parity(Ones(data), j, h)) \in Bit
    BY OnesAddresses, ParityBit
  <2> QED
    BY <2>1, <2>2
<1> HIDE DEF c
<1>2. ASSUME NEW i \in 0 .. CODE - 1 PROVE i \div 2 \in 0 .. K - 1 /\ i % 2 \in Bit
  BY KAssumption DEF CODE, Bit
<1>3. calculate[data] = [i \in 0 .. CODE - 1 |-> c.par[i \div 2][i % 2]]
  BY DEF calculate, c
<1> QED
  BY <1>1, <1>2, <1>3 DEF Code

LEMMA CorrectType ==
  ASSUME NEW data \in Chunk, NEW code \in Code
  PROVE  correct[data][code].data \in Chunk /\ correct[data][code].stat \in {"ok", "EBADMSG"}
<1> DEFINE r == ecc_sw_hamming_correct(Ones(data), CodeFrom(code), CodeFrom(calculate[data]))
<1>1. correct[data][code] = [data |-> [i \in 0 .. STEP - 1 |-> IF Addr(i) \in r.data THEN 1 ELSE 0],
                             stat |-> IF r.stat = "EBADMSG" THEN "EBADMSG" ELSE "ok"]
  BY DEF correct
<1> HIDE DEF r
<1> QED
  BY <1>1 DEF Chunk, Bit

LEMMA HammingStepType ==
  ASSUME NEW op, NEW data \in Chunk, NEW code \in Code
  PROVE  LET r == HammingStep(op, data, code)
         IN Bits(r.data) /\ Bits(r.code) /\ r.stat \in {"ok", "EBADMSG"}
<1>1. Bits(Keep)
  BY DEF Bits, Keep
<1>2. Bits(calculate[data])
  BY CalculateType DEF Bits, Code
<1>3. Bits(correct[data][code].data) /\ correct[data][code].stat \in {"ok", "EBADMSG"}
  BY CorrectType DEF Bits, Chunk
<1> QED
  BY <1>1, <1>2, <1>3 DEF HammingStep

(* Where the two ranges of a Hamming codec are. *)
Ranges(p, data, oob) ==
  /\ RangeTyped(data) /\ data.span \in Spans(p)
  /\ RangeTyped(oob) /\ oob.span \in Spans(p)

(* The first n steps stay inside of the spans. *)
StepsInside(p, data, oob, n) ==
  data.start + STEP * n <= SpanLen(p, data.span) /\ oob.start + CODE * n <= SpanLen(p, oob.span)

LEMMA RoundType ==
  ASSUME NEW p, Filled(p), NEW op, NEW acc, CodecResult(p, acc), NEW data, NEW oob, Ranges(p, data, oob),
         NEW s \in Nat
  PROVE  /\ CodecResult(p, Round(op, acc, data, oob, s))
         /\ acc.stat # "outside" /\ StepsInside(p, data, oob, s + 1)
              => Round(op, acc, data, oob, s).stat # "outside"
<1> DEFINE d == data.start + s * STEP
           o == oob.start + s * CODE
           D == acc.spans[data.span]
           O == acc.spans[oob.span]
           nd == SpanLen(p, data.span)
           no == SpanLen(p, oob.span)
           out == Outside(D, d, STEP) \/ Outside(O, o, CODE)
<1>1. STEP \in Nat /\ CODE \in Nat
  BY StepPositive
<1>2. s * STEP \in Nat /\ s * CODE \in Nat /\ d \in Nat /\ o \in Nat
  BY <1>1 DEF Ranges, RangeTyped
<1>3. nd \in Nat /\ no \in Nat /\ D \in Buffer(nd) /\ O \in Buffer(no)
  BY DEF Ranges, Filled, CodecResult, Buffers
<1>4. CASE acc.stat # "ok"
  <2>1. Round(op, acc, data, oob, s) = acc
    BY <1>4 DEF Round
  <2> QED
    BY <2>1
<1>5. CASE acc.stat = "ok" /\ out
  <2>1. Round(op, acc, data, oob, s) = [acc EXCEPT !.stat = "outside"]
    BY <1>5 DEF Round
  <2>2. CodecResult(p, [acc EXCEPT !.stat = "outside"])
    BY DEF CodecResult
  <2>3. StepsInside(p, data, oob, s + 1) => d + STEP <= nd /\ o + CODE <= no
    <3>1. STEP * (s + 1) = s * STEP + STEP /\ CODE * (s + 1) = s * CODE + CODE
      BY <1>1
    <3>2. data.start \in Nat /\ oob.start \in Nat
      BY DEF Ranges, RangeTyped
    <3> QED
      BY <1>1, <1>2, <1>3, <3>1, <3>2 DEF StepsInside
  <2> HIDE DEF d, o, D, O, nd, no
  <2>4. ~StepsInside(p, data, oob, s + 1)
    BY <1>1, <1>2, <1>3, <1>5, <2>3, InsideBuffer
  <2> QED
    BY <2>1, <2>2, <2>4
<1>6. CASE acc.stat = "ok" /\ ~out
  <2> DEFINE x == Slice(D, d, STEP)
             y == Slice(O, o, CODE)
             r == HammingStep(op, x, y)
             fixed == [acc.spans EXCEPT ![data.span] = Paste(@, d, r.data)]
             both == [fixed EXCEPT ![oob.span] = Paste(@, o, r.code)]
  <2>1. x \in Chunk
    <3> HIDE DEF D, d, nd
    <3> QED
      BY <1>1, <1>2, <1>3, <1>6, SliceType DEF Chunk, Buffer
  <2>2. y \in Code
    <3> HIDE DEF O, o, no
    <3> QED
      BY <1>1, <1>2, <1>3, <1>6, SliceType DEF Code, Buffer
  <2>3. Round(op, acc, data, oob, s) = [spans |-> both, stat |-> r.stat]
    BY <1>6 DEF Round
  <2> HIDE DEF D, d, nd, O, o, no, x, y
  <2>4. Bits(r.data) /\ Bits(r.code) /\ r.stat \in {"ok", "EBADMSG"}
    BY <2>1, <2>2, HammingStepType
  <2> HIDE DEF r
  <2>5. Buffers(p, fixed)
    BY <2>4, PasteSpans DEF CodecResult, Ranges
  <2> HIDE DEF fixed
  <2>6. Buffers(p, both)
    BY <2>4, <2>5, PasteSpans DEF Ranges
  <2> HIDE DEF both
  <2> QED
    BY <2>3, <2>4, <2>6 DEF CodecResult
<1> QED
  BY <1>4, <1>5, <1>6

StepsRun(f, op, spans, data, oob, m) ==
  f = [s \in 0 .. m |->
         IF s = 0 THEN [spans |-> spans, stat |-> "ok"] ELSE Round(op, f[s - 1], data, oob, s - 1)]

LEMMA StepsRunExists ==
  ASSUME NEW op, NEW spans, NEW data, NEW oob
  PROVE  \A m \in Nat : \E f : StepsRun(f, op, spans, data, oob, m)
<1> DEFINE b == [spans |-> spans, stat |-> "ok"]
           T == {m \in Nat : \E f : StepsRun(f, op, spans, data, oob, m)}
           Body(h, n) == IF n = 0 THEN b ELSE Round(op, h[n - 1], data, oob, n - 1)
<1>0. \A f, m : StepsRun(f, op, spans, data, oob, m) <=> f = [n \in 0 .. m |-> Body(f, n)]
  BY DEF StepsRun
<1> HIDE DEF b
<1>1. 0 \in T
  <2> DEFINE f == [n \in 0 .. 0 |-> b]
  <2>1. f = [n \in 0 .. 0 |-> Body(f, n)]
    OBVIOUS
  <2> HIDE DEF Body
  <2>2. StepsRun(f, op, spans, data, oob, 0)
    BY <1>0, <2>1
  <2> QED
    BY <2>2
<1>2. ASSUME NEW m \in Nat, m \in T PROVE m + 1 \in T
  <2>1. PICK g : StepsRun(g, op, spans, data, oob, m)
    BY <1>2
  <2> DEFINE f == [n \in 0 .. m + 1 |-> IF n <= m THEN g[n] ELSE Body(g, n)]
  <2>2. g = [n \in 0 .. m |-> Body(g, n)]
    BY <1>0, <2>1
  <2>3. \A n \in 0 .. m : g[n] = Body(g, n)
    BY <2>2, Zenon
  <2>4. \A n \in 0 .. m : f[n] = g[n]
    OBVIOUS
  <2>5. f[m + 1] = Body(g, m + 1)
    OBVIOUS
  <2>6. f = [n \in 0 .. m + 1 |-> f[n]]
    OBVIOUS
  <2> HIDE DEF f
  <2>7. ASSUME NEW n \in 0 .. m + 1 PROVE f[n] = Body(f, n)
    <3>1. CASE n = 0
      BY <2>3, <2>4, <3>1
    <3>2. CASE n # 0
      <4>1. n - 1 \in 0 .. m
        BY <3>2
      <4>2. f[n - 1] = g[n - 1]
        BY <2>4, <4>1
      <4>3. n \in 0 .. m \/ n = m + 1
        OBVIOUS
      <4> QED
        BY <2>3, <2>4, <2>5, <3>2, <4>2, <4>3
    <3> QED
      BY <3>1, <3>2
  <2> HIDE DEF Body
  <2>8. f = [n \in 0 .. m + 1 |-> Body(f, n)]
    BY <2>6, <2>7, Zenon
  <2>9. StepsRun(f, op, spans, data, oob, m + 1)
    BY <1>0, <2>8
  <2> QED
    BY <2>9
<1> HIDE DEF T
<1>3. \A m \in Nat : m \in T
  BY <1>1, <1>2, Induction
<1> QED
  BY <1>3 DEF T

LEMMA StepsType ==
  ASSUME NEW p, Filled(p), NEW op, NEW spans, Buffers(p, spans), NEW data, NEW oob, Ranges(p, data, oob),
         NEW n \in Nat
  PROVE  /\ CodecResult(p, Steps(op, spans, data, oob, n))
         /\ StepsInside(p, data, oob, n) => Steps(op, spans, data, oob, n).stat # "outside"
<1> DEFINE f == CHOOSE f : StepsRun(f, op, spans, data, oob, n)
           b == [spans |-> spans, stat |-> "ok"]
           Good(s) == CodecResult(p, f[s]) /\ (StepsInside(p, data, oob, s) => f[s].stat # "outside")
           T == {s \in Nat : s <= n => Good(s)}
<1>1. Steps(op, spans, data, oob, n) = f[n]
  BY Zenon DEF Steps, StepsRun
<1>2. StepsRun(f, op, spans, data, oob, n)
  <2>1. \E g : StepsRun(g, op, spans, data, oob, n)
    BY StepsRunExists
  <2> QED
    BY <2>1, Zenon
<1> HIDE DEF f
<1>3. \A s \in 0 .. n : f[s] = IF s = 0 THEN b ELSE Round(op, f[s - 1], data, oob, s - 1)
  BY <1>2, Zenon DEF StepsRun
<1>4. Good(0)
  <2>1. f[0] = b
    BY <1>3
  <2> QED
    BY <2>1 DEF CodecResult
<1> HIDE DEF b
<1>5. ASSUME NEW s \in Nat, s + 1 <= n, Good(s) PROVE Good(s + 1)
  <2>1. s + 1 \in 0 .. n /\ s + 1 # 0 /\ s + 1 - 1 = s
    BY <1>5
  <2>2. f[s + 1] = Round(op, f[s], data, oob, s)
    BY <1>3, <2>1
  <2>3. StepsInside(p, data, oob, s + 1) => StepsInside(p, data, oob, s)
    <3>1. /\ STEP \in Nat /\ CODE \in Nat
          /\ SpanLen(p, data.span) \in Nat /\ SpanLen(p, oob.span) \in Nat
          /\ data.start \in Nat /\ oob.start \in Nat
      BY StepPositive DEF Ranges, RangeTyped, Filled
    <3>2. STEP * (s + 1) = STEP * s + STEP /\ CODE * (s + 1) = CODE * s + CODE
          /\ STEP * s \in Nat /\ CODE * s \in Nat
      BY <3>1
    <3> QED
      BY <3>1, <3>2 DEF StepsInside
  <2>4. CodecResult(p, f[s])
    BY <1>5
  <2>5. /\ CodecResult(p, Round(op, f[s], data, oob, s))
        /\ f[s].stat # "outside" /\ StepsInside(p, data, oob, s + 1)
              => Round(op, f[s], data, oob, s).stat # "outside"
    BY <2>4, RoundType
  <2> QED
    BY <1>5, <2>2, <2>3, <2>5
<1>6. \A s \in Nat : s \in T
  <2>1. 0 \in T
    BY <1>4
  <2>2. ASSUME NEW s \in Nat, s \in T PROVE s + 1 \in T
    <3> SUFFICES ASSUME s + 1 <= n PROVE Good(s + 1)
      OBVIOUS
    <3>1. s <= n
      OBVIOUS
    <3>2. Good(s)
      BY <2>2, <3>1
    <3> HIDE DEF Good
    <3> QED
      BY <1>5, <3>2
  <2> HIDE DEF T
  <2> QED
    BY <2>1, <2>2, Induction
<1>7. Good(n)
  <2> HIDE DEF Good
  <2> QED
    BY <1>6
<1> QED
  BY <1>1, <1>7

LEMMA RoundedUp ==
  ASSUME NEW a \in Nat
  PROVE  div_round_up(a, STEP) \in Nat
<1>1. STEP \in Nat \ {0}
  BY StepPositive
<1> HIDE DEF STEP
<1> QED
  BY <1>1 DEF div_round_up

LEMMA XorBitType ==
  ASSUME NEW a \in Bit, NEW b \in Bit
  PROVE  XorBit(a, b) \in Bit
BY DEF XorBit, Bit

(* The mask of a context's codec. *)
MaskFor(c, mask) ==
  c.codec.type = "xor" => c.codec.size \in Nat \ {0} /\ mask[c.codec.name] \in [1 .. c.codec.size -> Bit]

(* The bytes that a range holds, if it is inside. *)
LEMMA OldBytes ==
  ASSUME NEW p, Filled(p), NEW spans, Buffers(p, spans), NEW at, RangeTyped(at), at.span \in Spans(p),
         ~Outside(spans[at.span], at.start, at.length)
  PROVE  LET old == Slice(spans[at.span], at.start, at.length)
         IN Bits(old) /\ DOMAIN old = 0 .. at.length - 1
<1>1. SpanLen(p, at.span) \in Nat /\ spans[at.span] \in Buffer(SpanLen(p, at.span))
  BY DEF Filled, Buffers
<1>2. Bits(Slice(spans[at.span], at.start, at.length))
  BY <1>1, SliceType DEF RangeTyped
<1> QED
  BY <1>2 DEF Slice

ReadInside(p, c) ==
  IF c.codec.type = "hamming"
  THEN Inside(p, c.data, STEP * c.codec.steps) /\ Inside(p, c.oob, CODE * c.codec.steps)
  ELSE Inside(p, c.data, c.data.length)

WriteInside(p, c) ==
  IF c.codec.type = "hamming"
  THEN LET n == div_round_up(c.src.length, STEP)
       IN Inside(p, c.src, STEP * n) /\ Inside(p, c.dest, CODE * n)
  ELSE Inside(p, c.dest, c.dest.length)

LEMMA OnReadType ==
  ASSUME NEW p, Filled(p), NEW spans, Buffers(p, spans), NEW c, ReadReady(p, c), NEW mask, MaskFor(c, mask)
  PROVE  /\ CodecResult(p, on_read(spans, c, mask))
         /\ ReadInside(p, c) => on_read(spans, c, mask).stat # "outside"
<1>1. RangeTyped(c.data) /\ c.data.span \in Spans(p)
  BY DEF ReadReady, add_pipeline_read_codec
<1>2. CASE c.codec.type = "xor"
  <2> DEFINE m == mask[c.codec.name]
             old == Slice(spans[c.data.span], c.data.start, c.data.length)
             bytes == [i \in DOMAIN old |-> XorBit(old[i], m[1])]
  <2>1. m[1] \in Bit
    BY <1>2 DEF MaskFor
  <2>2. on_read(spans, c, mask) = Bytewise(spans, c.data, bytes)
    BY <1>2 DEF on_read, xor_read
  <2> HIDE DEF m
  <2>3. ASSUME ~Outside(spans[c.data.span], c.data.start, c.data.length) PROVE Bits(bytes)
    <3>1. Bits(old)
      BY <1>1, <2>3, OldBytes
    <3> HIDE DEF old
    <3> QED
      BY <2>1, <3>1, XorBitType DEF Bits
  <2> HIDE DEF bytes
  <2>4. /\ CodecResult(p, Bytewise(spans, c.data, bytes))
        /\ c.data.start + c.data.length <= SpanLen(p, c.data.span) =>
             Bytewise(spans, c.data, bytes).stat # "outside"
    BY <1>1, <2>3, BytewiseType
  <2>5. ReadInside(p, c) => c.data.start + c.data.length <= SpanLen(p, c.data.span)
    BY <1>2 DEF ReadInside, Inside
  <2> QED
    BY <2>2, <2>4, <2>5
<1>3. CASE c.codec.type # "xor"
  <2>1. c.codec.type = "hamming" /\ c.codec.steps \in Nat
    BY <1>3 DEF ReadReady, CodecTyped, add_pipeline_read_codec, HasReadOps
  <2>2. Ranges(p, c.data, c.oob)
    BY <1>1, <2>1 DEF ReadReady, add_pipeline_read_codec, needs_oob_span, Ranges
  <2>3. on_read(spans, c, mask) = Steps("decode", spans, c.data, c.oob, c.codec.steps)
    BY <1>3 DEF on_read, hamming_decode
  <2>4. ReadInside(p, c) => StepsInside(p, c.data, c.oob, c.codec.steps)
    BY <2>1 DEF ReadInside, Inside, StepsInside
  <2> QED
    BY <2>1, <2>2, <2>3, <2>4, StepsType
<1> QED
  BY <1>2, <1>3

LEMMA OnWriteType ==
  ASSUME NEW p, Filled(p), NEW spans, Buffers(p, spans), NEW c, WriteReady(p, c), NEW mask, MaskFor(c, mask)
  PROVE  /\ CodecResult(p, on_write(spans, c, mask))
         /\ WriteInside(p, c) => on_write(spans, c, mask).stat # "outside"
<1>1. RangeTyped(c.dest) /\ c.dest.span \in Spans(p)
  BY DEF WriteReady, add_pipeline_write_codec
<1> DEFINE Good(r) == CodecResult(p, r) /\ (WriteInside(p, c) => r.stat # "outside")
<1>2. ASSUME NEW bytes, c.codec.type # "hamming",
             ~Outside(spans[c.dest.span], c.dest.start, c.dest.length) => Bits(bytes)
      PROVE  Good(Bytewise(spans, c.dest, bytes))
  <2>1. /\ CodecResult(p, Bytewise(spans, c.dest, bytes))
        /\ c.dest.start + c.dest.length <= SpanLen(p, c.dest.span) =>
             Bytewise(spans, c.dest, bytes).stat # "outside"
    BY <1>1, <1>2, BytewiseType
  <2>2. WriteInside(p, c) => c.dest.start + c.dest.length <= SpanLen(p, c.dest.span)
    BY <1>2 DEF WriteInside, Inside
  <2> QED
    BY <2>1, <2>2
<1>3. CASE c.codec.type = "xor"
  <2> DEFINE m == mask[c.codec.name]
             old == Slice(spans[c.dest.span], c.dest.start, c.dest.length)
             bytes == [i \in DOMAIN old |-> XorBit(old[i], m[(i % Len(m)) + 1])]
  <2>1. m \in [1 .. c.codec.size -> Bit] /\ c.codec.size \in Nat \ {0}
    BY <1>3 DEF MaskFor
  <2>2. on_write(spans, c, mask) = Bytewise(spans, c.dest, bytes)
    BY <1>3 DEF on_write, xor_write
  <2> HIDE DEF m
  <2>3. Len(m) = c.codec.size
    BY <2>1
  <2>4. \A i \in Nat : m[(i % Len(m)) + 1] \in Bit
    <3>1. \A i \in Nat : (i % Len(m)) + 1 \in 1 .. c.codec.size
      BY <2>1, <2>3
    <3> QED
      BY <2>1, <3>1
  <2>5. ASSUME ~Outside(spans[c.dest.span], c.dest.start, c.dest.length) PROVE Bits(bytes)
    <3>1. Bits(old) /\ DOMAIN old = 0 .. c.dest.length - 1
      BY <1>1, <2>5, OldBytes
    <3>2. DOMAIN old \subseteq Nat
      BY <1>1, <3>1 DEF RangeTyped
    <3> HIDE DEF old
    <3>3. \A i \in DOMAIN old : old[i] \in Bit /\ m[(i % Len(m)) + 1] \in Bit
      BY <2>4, <3>1, <3>2 DEF Bits
    <3> QED
      BY <3>3, XorBitType DEF Bits
  <2> HIDE DEF bytes, Good
  <2>6. Good(Bytewise(spans, c.dest, bytes))
    BY <1>2, <1>3, <2>5
  <2> QED
    BY <2>2, <2>6 DEF Good
<1>4. CASE c.codec.type = "memset"
  <2> DEFINE bytes == [i \in 0 .. c.dest.length - 1 |-> c.codec.byte_pattern]
  <2>1. on_write(spans, c, mask) = Bytewise(spans, c.dest, bytes)
    BY <1>4 DEF on_write, memset_write
  <2>2. Bits(bytes)
    BY <1>4 DEF WriteReady, CodecTyped, Bits
  <2> HIDE DEF bytes, Good
  <2>3. Good(Bytewise(spans, c.dest, bytes))
    BY <1>2, <1>4, <2>2
  <2> QED
    BY <2>1, <2>3 DEF Good
<1>5. CASE c.codec.type = "hamming"
  <2> DEFINE n == div_round_up(c.src.length, STEP)
  <2>1. Ranges(p, c.src, c.dest)
    BY <1>1, <1>5 DEF WriteReady, add_pipeline_write_codec, needs_source_span, Ranges
  <2>2. n \in Nat
    BY <2>1, RoundedUp DEF Ranges, RangeTyped
  <2>3. on_write(spans, c, mask) = Steps("encode", spans, c.src, c.dest, n)
    BY <1>5 DEF on_write, hamming_encode
  <2>4. WriteInside(p, c) => StepsInside(p, c.src, c.dest, n)
    BY <1>5 DEF WriteInside, Inside, StepsInside
  <2> HIDE DEF n
  <2> QED
    BY <2>1, <2>2, <2>3, <2>4, StepsType
<1>6. c.codec.type \in {"xor", "memset", "hamming"}
  BY DEF WriteReady, CodecTyped
<1> QED
  BY <1>3, <1>4, <1>5, <1>6

-----------------------------------------------------------------------------
(* Between pages and spans *)

LEMMA ExtractType ==
  ASSUME NEW p, Filled(p), NEW raw \in Buffer(PageSize), PageSize \in Nat
  PROVE  Buffers(p, extract_raw_page_to_pipeline_page_layout(p, raw))
<1> DEFINE x == extract_raw_page_to_pipeline_page_layout(p, raw)
<1>1. ASSUME NEW s \in Spans(p), NEW b \in 0 .. SpanLen(p, s) - 1 PROVE x[s][b] \in Bit
  <2> DEFINE q == Holding(p, s, b)
  <2>1. x[s][b] = raw[q.start + b - q.inspan]
    BY DEF extract_raw_page_to_pipeline_page_layout
  <2>2. SpanLen(p, s) \in Nat /\ b \in Nat /\ b < SpanLen(p, s)
    BY DEF Filled
  <2>3. \E r \in Range(p.parts) : Holds(r, s, b)
    BY <2>2 DEF Filled
  <2>4. q \in Range(p.parts) /\ Holds(q, s, b)
    BY <2>3, Zenon DEF Holding, Holds
  <2> HIDE DEF q
  <2>5. PartInside(p, q)
    BY <2>4 DEF Filled
  <2>6. q.start + b - q.inspan \in 0 .. PageSize - 1
    BY <2>2, <2>4, <2>5 DEF Holds, PartInside
  <2> QED
    BY <2>1, <2>6 DEF Buffer
<1>2. DOMAIN x = Spans(p) /\ \A s \in Spans(p) : x[s] = [b \in 0 .. SpanLen(p, s) - 1 |-> x[s][b]]
  BY DEF extract_raw_page_to_pipeline_page_layout
<1> HIDE DEF x
<1>3. Buffers(p, x)
  BY <1>1, <1>2 DEF Buffers, Buffer
<1> QED
  BY <1>3 DEF x

LEMMA ComposeType ==
  ASSUME NEW p, Filled(p), NEW spans, Buffers(p, spans)
  PROVE  compose_raw_page_from_pipeline_page_layout(p, spans) \in Buffer(PageSize)
<1> DEFINE x == compose_raw_page_from_pipeline_page_layout(p, spans)
           At(q, b) == q.start <= b /\ b < q.start + q.length
<1>1. ASSUME NEW b \in 0 .. PageSize - 1 PROVE x[b] \in Bit
  <2>1. CASE \E q \in Range(p.parts) : At(q, b)
    <3> DEFINE q == CHOOSE q \in Range(p.parts) : At(q, b)
    <3>1. x[b] = spans[q.span][q.inspan + b - q.start]
      BY <2>1 DEF compose_raw_page_from_pipeline_page_layout
    <3>2. q \in Range(p.parts) /\ At(q, b)
      BY <2>1, Zenon
    <3> HIDE DEF q
    <3>3. PartInside(p, q)
      BY <3>2 DEF Filled
    <3>4. SpanLen(p, q.span) \in Nat /\ spans[q.span] \in Buffer(SpanLen(p, q.span))
      BY <3>3 DEF PartInside, Filled, Buffers
    <3>5. q.inspan + b - q.start \in 0 .. SpanLen(p, q.span) - 1
      BY <3>2, <3>3, <3>4 DEF PartInside
    <3> QED
      BY <3>1, <3>4, <3>5 DEF Buffer
  <2>2. CASE ~ \E q \in Range(p.parts) : At(q, b)
    <3>1. x[b] = 1
      BY <2>2 DEF compose_raw_page_from_pipeline_page_layout
    <3> QED
      BY <3>1 DEF Bit
  <2> QED
    BY <2>1, <2>2
<1>2. x = [b \in 0 .. PageSize - 1 |-> x[b]]
  BY DEF compose_raw_page_from_pipeline_page_layout
<1> HIDE DEF x
<1>3. x \in Buffer(PageSize)
  BY <1>1, <1>2 DEF Buffer
<1> QED
  BY <1>3 DEF x

LEMMA CopyWriteType ==
  ASSUME NEW p, NEW spans, Buffers(p, spans), NEW map, set_request_mappings(p, map),
         NEW pay \in Payloads, NEW size \in Sizes
  PROVE  Buffers(p, copy_write_data_and_oob_spans(spans, map, pay, size))
<1> DEFINE x == Slice(pay.data, 0, size.datalen)
           y == Slice(pay.oob, 0, size.ooblen)
           d == [spans EXCEPT ![map.data] = Paste(@, 0, x)]
<1>1. Bits(x) /\ Bits(y)
  BY RequestsAssumption DEF Bits, Slice
<1>2. copy_write_data_and_oob_spans(spans, map, pay, size) = [d EXCEPT ![map.oob] = Paste(@, 0, y)]
  BY DEF copy_write_data_and_oob_spans
<1>3. map.data \in Spans(p) /\ map.oob \in Spans(p)
  BY DEF set_request_mappings
<1> HIDE DEF x, y
<1>4. Buffers(p, d)
  BY <1>1, <1>3, PasteSpans
<1> HIDE DEF d
<1>5. Buffers(p, [d EXCEPT ![map.oob] = Paste(@, 0, y)])
  BY <1>1, <1>3, <1>4, PasteSpans
<1> QED
  BY <1>2, <1>5

(* The mapped spans are as long as the requests. *)
MapInside(p, map, size) == size.datalen <= SpanLen(p, map.data) /\ size.ooblen <= SpanLen(p, map.oob)

LEMMA CopyInside ==
  ASSUME NEW p, Filled(p), NEW spans, Buffers(p, spans), NEW map, set_request_mappings(p, map),
         NEW size \in Sizes, MapInside(p, map, size)
  PROVE  ~CopyOutside(spans, map, size)
<1>1. /\ SpanLen(p, map.data) \in Nat /\ spans[map.data] \in Buffer(SpanLen(p, map.data))
      /\ SpanLen(p, map.oob) \in Nat /\ spans[map.oob] \in Buffer(SpanLen(p, map.oob))
  BY DEF set_request_mappings, Filled, Buffers
<1>2. size.datalen \in Nat /\ size.ooblen \in Nat
  BY RequestsAssumption
<1>3. 0 + size.datalen <= SpanLen(p, map.data) /\ 0 + size.ooblen <= SpanLen(p, map.oob)
  BY <1>1, <1>2 DEF MapInside
<1>4. ~Outside(spans[map.data], 0, size.datalen)
  BY <1>1, <1>2, <1>3, InsideBuffer
<1>5. ~Outside(spans[map.oob], 0, size.ooblen)
  BY <1>1, <1>2, <1>3, InsideBuffer
<1> QED
  BY <1>4, <1>5 DEF CopyOutside

-----------------------------------------------------------------------------
(* The invariant that keeps the accesses inside *)

(* Every pipeline was accepted. *)
SchemeReady ==
  /\ \E c \in Schemes : scheme = WithPipelines(c)
  /\ \A i \in DOMAIN scheme.pipes : create_pipeline_obj(scheme.pipes[i])

BuffersReady ==
  /\ DOMAIN bufs = Threads
  /\ \A t \in Threads :
       /\ DOMAIN bufs[t] = DOMAIN scheme.pipes
       /\ \A i \in DOMAIN scheme.pipes : Buffers(scheme.pipes[i], bufs[t][i])

MasksReady ==
  \A t \in Threads : \A c \in XorCodecs(scheme) : masks[t][c.name] \in [1 .. c.size -> Bit]

FlashReady == flash \in [Pages -> Buffer(PageSize)]

RequestReady(r) ==
  /\ r.phase \in Phases /\ r.ans \in Answers
  /\ Busy(r) => r.pipe \in {0} \cup DOMAIN scheme.pipes /\ r.next \in Nat \ {0} /\ r.size \in Sizes

Counted == fault \in {"none", "copy", "codec"} /\ requests \in 0 .. MaxRequests /\ flips \in 0 .. MaxFlips

AccessInv ==
  /\ WorkerInv /\ SchemeReady /\ BuffersReady /\ MasksReady /\ FlashReady
  /\ \A t \in Threads : RequestReady(req[t])
  /\ Counted /\ InRangeNeverFaults

LEMMA SchemeIsReady ==
  ASSUME SchemeReady
  PROVE  /\ \A i \in DOMAIN scheme.pipes : Ready(scheme.pipes[i])
         /\ \A pg \in Pages : scheme.owner[pg] \in {0} \cup DOMAIN scheme.pipes
<1>1. PICK c \in Schemes : scheme = WithPipelines(c)
  BY DEF SchemeReady
<1>2. /\ DOMAIN c = {"pipes", "owner"}
      /\ \A pg \in Pages : c.owner[pg] \in {0} \cup DOMAIN c.pipes
      /\ \A i \in DOMAIN c.pipes : PipeTyped(c.pipes[i])
  BY SchemesAssumption
<1>3. scheme.pipes = [i \in DOMAIN c.pipes |-> Built(c.pipes[i])] /\ scheme.owner = c.owner
  BY <1>1, <1>2 DEF WithPipelines
<1>4. PageSize \in Nat
  BY RequestsAssumption
<1>5. ASSUME NEW i \in DOMAIN c.pipes PROVE Ready(Built(c.pipes[i]))
  <2>1. create_pipeline_obj(Built(c.pipes[i]))
    BY <1>3 DEF SchemeReady
  <2> QED
    BY <1>2, <1>4, <2>1, BuiltReady
<1> QED
  BY <1>2, <1>3, <1>5

LEMMA AccessInvInit == Init => AccessInv
<1> SUFFICES ASSUME Init PROVE AccessInv
  OBVIOUS
<1>1. WorkerInv
  BY WorkerInvInit
<1>2. SchemeReady
  BY DEF Init, SchemeReady
<1>3. BuffersReady
  <2>1. PICK junk \in Bit :
          bufs = [t \in Threads |-> [i \in DOMAIN scheme.pipes |->
                   [s \in Spans(Pipe(i)) |-> [b \in 0 .. SpanLen(Pipe(i), s) - 1 |-> junk]]]]
    BY DEF Init
  <2> QED
    BY <2>1 DEF BuffersReady, Buffers, Buffer, Pipe
<1>4. MasksReady
  <2> DEFINE X == XorCodecs(scheme)
             All == UNION {[1 .. c.size -> Bit] : c \in X}
  <2>1. masks \in [Threads -> {m \in [{c.name : c \in X} -> All] : \A c \in X : DOMAIN m[c.name] = 1 .. c.size}]
    BY DEF Init
  <2> HIDE DEF X
  <2>2. ASSUME NEW t \in Threads, NEW c \in X PROVE masks[t][c.name] \in [1 .. c.size -> Bit]
    <3>1. masks[t] \in [{d.name : d \in X} -> All] /\ DOMAIN masks[t][c.name] = 1 .. c.size
      BY <2>1
    <3>2. masks[t][c.name] \in All
      BY <3>1
    <3>3. PICK d \in X : masks[t][c.name] \in [1 .. d.size -> Bit]
      BY <3>2
    <3> QED
      BY <3>1, <3>3
  <2> QED
    BY <2>2 DEF X, MasksReady
<1>5. FlashReady
  BY DEF Init, FlashReady, Erased, Buffer, Bit
<1>6. \A t \in Threads : RequestReady(req[t])
  BY DEF Init, RequestReady, Idle, Busy, Phases, Answers
<1>7. Counted /\ InRangeNeverFaults
  BY RequestsAssumption DEF Init, Counted, InRangeNeverFaults
<1> QED
  BY <1>1, <1>2, <1>3, <1>4, <1>5, <1>6, <1>7 DEF AccessInv

AllInRange == \A i \in DOMAIN scheme.pipes : InRange(scheme.pipes[i])

LEMMA AccessKept ==
  ASSUME AccessInv, WorkerInv', UNCHANGED <<scheme, masks>>, BuffersReady', FlashReady',
         \A t \in Threads : RequestReady(req'[t]), Counted', fault' = fault \/ ~AllInRange
  PROVE  AccessInv'
<1>1. SchemeReady' /\ MasksReady'
  BY DEF AccessInv, SchemeReady, MasksReady
<1>2. (\A t \in Threads : RequestReady(req[t]))'
  BY DEF RequestReady
<1>3. InRangeNeverFaults'
  BY DEF AccessInv, InRangeNeverFaults, AllInRange, Pipe
<1> QED
  BY <1>1, <1>2, <1>3 DEF AccessInv

LEMMA BuffersStep ==
  ASSUME BuffersReady, scheme' = scheme, NEW t \in Threads, NEW i \in DOMAIN scheme.pipes, NEW new,
         Buffers(scheme.pipes[i], new), bufs' = [bufs EXCEPT ![t][i] = new]
  PROVE  BuffersReady'
<1>1. DOMAIN bufs' = Threads
  BY DEF BuffersReady
<1>2. ASSUME NEW u \in Threads
      PROVE  DOMAIN bufs'[u] = DOMAIN scheme.pipes
             /\ \A j \in DOMAIN scheme.pipes : bufs'[u][j] = IF u = t /\ j = i THEN new ELSE bufs[u][j]
  BY DEF BuffersReady
<1> QED
  BY <1>1, <1>2 DEF BuffersReady

(* The request of one thread changes. *)
LEMMA RequestsStep ==
  ASSUME \A u \in Threads : RequestReady(req[u]), DOMAIN req = Threads, NEW t \in Threads, NEW r,
         RequestReady(r), req' = [req EXCEPT ![t] = r]
  PROVE  \A u \in Threads : RequestReady(req'[u])
<1>1. \A u \in Threads : req'[u] = IF u = t THEN r ELSE req[u]
  OBVIOUS
<1> QED
  BY <1>1

LEMMA AnswersReady ==
  ASSUME WorkerInv, \A u \in Threads : RequestReady(req[u]), NEW t \in Threads, Busy(req[t]),
         NEW ans \in Answers, NEW raw, req' = Answered(t, ans, raw)
  PROVE  \A u \in Threads : RequestReady(req'[u])
<1> DEFINE r == [req[t] EXCEPT !.phase = "answered", !.ans = ans, !.raw = raw]
<1>1. req' = [req EXCEPT ![t] = r] /\ DOMAIN req = Threads
  BY DEF Answered, WorkerInv
<1>2. RequestReady(r)
  <2>1. DOMAIN req[t] = Fields
    BY DEF WorkerInv, SoundRequest
  <2>2. r.phase = "answered" /\ r.ans = ans
    BY <2>1 DEF Fields
  <2> HIDE DEF r
  <2> QED
    BY <2>2 DEF RequestReady, Busy, Phases
<1> HIDE DEF r
<1> QED
  BY <1>1, <1>2, RequestsStep

LEMMA FaultKept ==
  ASSUME AccessInv, WorkerInv', NEW what \in {"copy", "codec"}, Fault(what), ~AllInRange
  PROVE  AccessInv'
<1>1. BuffersReady' /\ FlashReady' /\ \A t \in Threads : RequestReady(req'[t])
  BY DEF Fault, AccessInv, BuffersReady, FlashReady
<1>2. Counted'
  BY DEF Fault, AccessInv, Counted
<1> QED
  BY <1>1, <1>2, AccessKept DEF Fault

LEMMA CodecKept ==
  ASSUME AccessInv, WorkerInv', NEW t \in Threads, Busy(req[t]), req[t].pipe \in DOMAIN scheme.pipes,
         NEW result, CodecResult(scheme.pipes[req[t].pipe], result),
         AllInRange => result.stat # "outside", RunCodec(t, result)
  PROVE  AccessInv'
<1> DEFINE i == req[t].pipe
<1>1. CASE result.stat = "outside"
  <2>1. Fault("codec")
    BY <1>1 DEF RunCodec
  <2> QED
    BY <1>1, <2>1, FaultKept
<1>2. CASE result.stat # "outside"
  <2>1. bufs' = [bufs EXCEPT ![t][i] = result.spans]
        /\ UNCHANGED <<scheme, flash, masks, stored, fault, requests, flips>>
    BY <1>2 DEF RunCodec, CodecResult
  <2>2. BuffersReady'
    BY <2>1, BuffersStep DEF AccessInv, CodecResult
  <2>3. FlashReady' /\ Counted'
    BY <2>1 DEF AccessInv, FlashReady, Counted
  <2>4. CASE result.stat = "ok"
    <3> DEFINE r == [req[t] EXCEPT !.next = @ + 1]
    <3>1. req' = [req EXCEPT ![t].next = @ + 1]
      BY <2>4 DEF RunCodec
    <3>2. DOMAIN req = Threads /\ DOMAIN req[t] = Fields /\ RequestReady(req[t])
      BY DEF AccessInv, WorkerInv, SoundRequest
    <3>3. req' = [req EXCEPT ![t] = r]
      BY <3>1, <3>2
    <3>4. RequestReady(r)
      <4>1. /\ r.phase = req[t].phase /\ r.ans = req[t].ans /\ r.pipe = req[t].pipe
            /\ r.size = req[t].size /\ r.next = req[t].next + 1
        BY <3>2 DEF Fields
      <4> HIDE DEF r
      <4> QED
        BY <3>2, <4>1 DEF RequestReady, Busy
    <3> HIDE DEF r
    <3>5. \A u \in Threads : RequestReady(req'[u])
      BY <3>2, <3>3, <3>4, RequestsStep DEF AccessInv
    <3> QED
      BY <2>1, <2>2, <2>3, <3>5, AccessKept
  <2>5. CASE result.stat # "ok"
    <3>1. req' = Answered(t, "DATA_RECOVERY_FAILED", Nothing)
      BY <1>2, <2>5 DEF RunCodec
    <3>2. "DATA_RECOVERY_FAILED" \in Answers
      BY DEF Answers
    <3>3. \A u \in Threads : RequestReady(req'[u])
      BY <3>1, <3>2, AnswersReady DEF AccessInv
    <3> QED
      BY <2>1, <2>2, <2>3, <3>3, AccessKept
  <2> QED
    BY <2>4, <2>5
<1> QED
  BY <1>1, <1>2

LEMMA MasksFor ==
  ASSUME MasksReady, NEW t \in Threads, NEW i \in DOMAIN scheme.pipes, NEW c,
         \/ c \in Range(scheme.pipes[i].readCodecs) /\ ReadReady(scheme.pipes[i], c)
         \/ c \in Range(scheme.pipes[i].writeCodecs) /\ WriteReady(scheme.pipes[i], c)
  PROVE  MaskFor(c, masks[t])
<1> SUFFICES ASSUME c.codec.type = "xor"
             PROVE  c.codec.size \in Nat \ {0} /\ masks[t][c.codec.name] \in [1 .. c.codec.size -> Bit]
  BY DEF MaskFor
<1>1. c.codec \in XorCodecs(scheme)
  <2> DEFINE D(j) == {d \in Range(scheme.pipes[j].readCodecs) \cup Range(scheme.pipes[j].writeCodecs) :
                        d.codec.type = "xor"}
             S(j) == {d.codec : d \in D(j)}
  <2>1. c \in D(i)
    OBVIOUS
  <2> HIDE DEF D
  <2>2. c.codec \in S(i)
    BY <2>1
  <2> HIDE DEF S
  <2>3. c.codec \in UNION {S(j) : j \in DOMAIN scheme.pipes}
    BY <2>2
  <2> QED
    BY <2>3 DEF XorCodecs, S, D
<1>2. CodecAccepted(c.codec) /\ CodecTyped(c.codec)
  BY DEF ReadReady, WriteReady, add_pipeline_read_codec, add_pipeline_write_codec
<1>3. c.codec.size \in Nat \ {0}
  BY <1>2 DEF CodecAccepted, CodecTyped
<1> QED
  BY <1>1, <1>3 DEF MasksReady

LEMMA ReadCodecKept ==
  ASSUME AccessInv, WorkerInv', NEW t \in Threads, RunReadCodec(t)
  PROVE  AccessInv'
<1> DEFINE i == req[t].pipe
           p == scheme.pipes[i]
           c == p.readCodecs[req[t].next]
           result == on_read(bufs[t][i], c, masks[t])
<1>1. Busy(req[t]) /\ i # 0 /\ req[t].next <= Len(p.readCodecs) /\ RunCodec(t, result)
  BY DEF RunReadCodec, Serving, Busy, Pipe
<1>2. i \in DOMAIN scheme.pipes /\ req[t].next \in Nat \ {0}
  BY <1>1 DEF AccessInv, RequestReady
<1>3. Ready(p) /\ Filled(p)
  BY <1>2, SchemeIsReady DEF AccessInv, Ready
<1>4. req[t].next \in DOMAIN p.readCodecs
  <2> DEFINE len == Len(p.readCodecs)
             next == req[t].next
  <2>1. DOMAIN p.readCodecs = 1 .. len /\ len \in Nat
    BY <1>3 DEF Ready
  <2>2. next \in Nat \ {0} /\ next <= len
    BY <1>1, <1>2
  <2> HIDE DEF len, next
  <2>3. next \in 1 .. len
    BY <2>1, <2>2
  <2> QED
    BY <2>1, <2>3 DEF next
<1>5. ReadReady(p, c) /\ c \in Range(p.readCodecs)
  BY <1>3, <1>4 DEF Ready, Range
<1>6. MaskFor(c, masks[t])
  BY <1>2, <1>5, MasksFor DEF AccessInv
<1>7. Buffers(p, bufs[t][i])
  BY <1>2 DEF AccessInv, BuffersReady
<1>8. AllInRange => ReadInside(p, c)
  BY <1>2, <1>5 DEF AllInRange, InRange, ReadInside
<1> HIDE DEF c
<1>9. CodecResult(p, result) /\ (AllInRange => result.stat # "outside")
  BY <1>3, <1>5, <1>6, <1>7, <1>8, OnReadType
<1> HIDE DEF result
<1> QED
  BY <1>1, <1>2, <1>9, CodecKept

LEMMA WriteCodecKept ==
  ASSUME AccessInv, WorkerInv', NEW t \in Threads, RunWriteCodec(t)
  PROVE  AccessInv'
<1> DEFINE i == req[t].pipe
           p == scheme.pipes[i]
           c == p.writeCodecs[req[t].next]
           result == on_write(bufs[t][i], c, masks[t])
<1>1. /\ Busy(req[t]) /\ req[t].phase = "write"
      /\ req[t].next <= Len(p.writeCodecs) /\ RunCodec(t, result)
  BY DEF RunWriteCodec, Serving, Busy, Pipe
<1>2. i # 0
  BY <1>1 DEF AccessInv, WorkerInv, SoundRequest, WritesWhereAllowed, HasWriteSpans
<1>3. i \in DOMAIN scheme.pipes /\ req[t].next \in Nat \ {0}
  BY <1>1, <1>2 DEF AccessInv, RequestReady
<1>4. Ready(p) /\ Filled(p)
  BY <1>3, SchemeIsReady DEF AccessInv, Ready
<1>5. req[t].next \in DOMAIN p.writeCodecs
  <2> DEFINE len == Len(p.writeCodecs)
             next == req[t].next
  <2>1. DOMAIN p.writeCodecs = 1 .. len /\ len \in Nat
    BY <1>4 DEF Ready
  <2>2. next \in Nat \ {0} /\ next <= len
    BY <1>1, <1>3
  <2> HIDE DEF len, next
  <2>3. next \in 1 .. len
    BY <2>1, <2>2
  <2> QED
    BY <2>1, <2>3 DEF next
<1>6. WriteReady(p, c) /\ c \in Range(p.writeCodecs)
  BY <1>4, <1>5 DEF Ready, Range
<1>7. MaskFor(c, masks[t])
  BY <1>3, <1>6, MasksFor DEF AccessInv
<1>8. Buffers(p, bufs[t][i])
  BY <1>3 DEF AccessInv, BuffersReady
<1>9. AllInRange => WriteInside(p, c)
  BY <1>3, <1>6 DEF AllInRange, InRange, WriteInside
<1> HIDE DEF c
<1>10. CodecResult(p, result) /\ (AllInRange => result.stat # "outside")
  BY <1>4, <1>6, <1>7, <1>8, <1>9, OnWriteType
<1> HIDE DEF result
<1> QED
  BY <1>1, <1>3, <1>10, CodecKept

(* Only the requests change. *)
LEMMA AnswerKept ==
  ASSUME AccessInv, WorkerInv', NEW t \in Threads, Busy(req[t]), NEW ans \in Answers, NEW raw,
         req' = Answered(t, ans, raw), UNCHANGED <<scheme, flash, bufs, masks, stored, fault, requests, flips>>
  PROVE  AccessInv'
<1>1. BuffersReady' /\ FlashReady' /\ Counted'
  BY DEF AccessInv, BuffersReady, FlashReady, Counted
<1>2. \A u \in Threads : RequestReady(req'[u])
  BY AnswersReady DEF AccessInv
<1> QED
  BY <1>1, <1>2, AccessKept

LEMMA FinishReadKept ==
  ASSUME AccessInv, WorkerInv', NEW t \in Threads, FinishRead(t)
  PROVE  AccessInv'
<1> DEFINE i == req[t].pipe
           p == scheme.pipes[i]
           spans == bufs[t][i]
<1>1. Busy(req[t]) /\ i # 0
  BY DEF FinishRead, Serving, Busy
<1>2. i \in DOMAIN scheme.pipes /\ req[t].size \in Sizes
  BY <1>1 DEF AccessInv, RequestReady
<1>3. CASE CopyOutside(spans, p.read, req[t].size) /\ Fault("copy")
  <2>1. Filled(p) /\ set_request_mappings(p, p.read) /\ Buffers(p, spans)
    BY <1>2, SchemeIsReady DEF AccessInv, Ready, BuffersReady
  <2>2. ~MapInside(p, p.read, req[t].size)
    BY <1>2, <1>3, <2>1, CopyInside
  <2>3. ~AllInRange
    <3> SUFFICES ASSUME AllInRange PROVE FALSE
      OBVIOUS
    <3>1. \A map \in {p.read, p.write} \ {Nothing} : \A size \in Sizes : MapInside(p, map, size)
      BY <1>2 DEF AllInRange, InRange, MapInside
    <3>2. p.read # Nothing
      BY <1>2, SchemeIsReady DEF AccessInv, Ready
    <3> QED
      BY <1>2, <2>2, <3>1, <3>2
  <2> QED
    BY <1>3, <2>3, FaultKept
<1>4. CASE \E raw : /\ req' = Answered(t, "ACK", raw)
                    /\ UNCHANGED <<scheme, flash, bufs, masks, stored, fault, requests, flips>>
  <2>1. "ACK" \in Answers
    BY DEF Answers
  <2> QED
    BY <1>1, <1>4, <2>1, AnswerKept
<1> QED
  BY <1>3, <1>4, Zenon DEF FinishRead, Pipe

LEMMA FinishWriteKept ==
  ASSUME AccessInv, WorkerInv', NEW t \in Threads, FinishWrite(t)
  PROVE  AccessInv'
<1> DEFINE i == req[t].pipe
           p == scheme.pipes[i]
           raw == compose_raw_page_from_pipeline_page_layout(p, bufs[t][i])
<1>1. Busy(req[t]) /\ req[t].phase = "write"
  BY DEF FinishWrite, Serving, Busy
<1>2. i # 0
  BY <1>1 DEF AccessInv, WorkerInv, SoundRequest, WritesWhereAllowed, HasWriteSpans
<1>3. i \in DOMAIN scheme.pipes
  BY <1>1, <1>2 DEF AccessInv, RequestReady
<1>4. Filled(p) /\ Buffers(p, bufs[t][i])
  BY <1>3, SchemeIsReady DEF AccessInv, Ready, BuffersReady
<1>5. raw \in Buffer(PageSize)
  BY <1>4, ComposeType
<1>6. /\ req' = Answered(t, "ACK", Nothing) /\ flash' = [flash EXCEPT ![req[t].page] = raw]
      /\ UNCHANGED <<scheme, bufs, masks, fault, requests, flips>>
  BY DEF FinishWrite, Pipe
<1> HIDE DEF raw
<1>7. FlashReady'
  BY <1>5, <1>6 DEF AccessInv, FlashReady
<1>8. BuffersReady' /\ Counted'
  BY <1>6 DEF AccessInv, BuffersReady, Counted
<1>9. "ACK" \in Answers
  BY DEF Answers
<1>10. \A u \in Threads : RequestReady(req'[u])
  BY <1>1, <1>6, <1>9, AnswersReady DEF AccessInv
<1> QED
  BY <1>6, <1>7, <1>8, <1>10, AccessKept

LEMMA ServeKept ==
  ASSUME AccessInv, WorkerInv', NEW t \in Threads, Serve(t)
  PROVE  AccessInv'
<1>1. CASE nack_codec_read(t)
  <2>1. /\ Busy(req[t]) /\ "UNKNOWN_ALGORITHM" \in Answers
        /\ req' = Answered(t, "UNKNOWN_ALGORITHM", Nothing)
        /\ UNCHANGED <<scheme, flash, bufs, masks, stored, fault, requests, flips>>
    BY <1>1 DEF nack_codec_read, Serving, Busy, Answers
  <2> QED
    BY <2>1, AnswerKept
<1> QED
  BY <1>1, ReadCodecKept, WriteCodecKept, FinishReadKept, FinishWriteKept DEF Serve

(* A new request, and the counter of them. *)
LEMMA ArrivesReady ==
  ASSUME AccessInv, NEW t \in Threads, NEW op \in {"read", "write"}, NEW pg \in Pages, NEW size \in Sizes,
         NEW want, Arrives(t, op, pg, size, want), UNCHANGED <<fault, flips>>
  PROVE  Counted' /\ \A u \in Threads : RequestReady(req'[u])
<1> DEFINE r == [phase |-> op, op |-> op, page |-> pg, pipe |-> scheme.owner[pg], size |-> size,
                 next |-> 1, ans |-> "none", raw |-> Nothing, want |-> want]
<1>1. req' = [req EXCEPT ![t] = r] /\ requests < MaxRequests /\ requests' = requests + 1
  BY DEF Arrives
<1>2. scheme.owner[pg] \in {0} \cup DOMAIN scheme.pipes
  BY SchemeIsReady DEF AccessInv
<1>3. RequestReady(r)
  BY <1>2 DEF RequestReady, Busy, Phases, Answers
<1> HIDE DEF r
<1>4. \A u \in Threads : RequestReady(req'[u])
  BY <1>1, <1>3, RequestsStep DEF AccessInv, WorkerInv
<1>5. Counted'
  BY <1>1, RequestsAssumption DEF AccessInv, Counted
<1> QED
  BY <1>4, <1>5

LEMMA StartReadKept ==
  ASSUME AccessInv, WorkerInv', NEW t \in Threads, NEW pg \in Pages, NEW size \in Sizes, StartRead(t, pg, size)
  PROVE  AccessInv'
<1> DEFINE i == scheme.owner[pg]
           new == extract_raw_page_to_pipeline_page_layout(scheme.pipes[i], flash[pg])
<1>1. Arrives(t, "read", pg, size, stored[pg]) /\ UNCHANGED <<scheme, flash, masks, stored, fault, flips>>
  BY DEF StartRead
<1>2. Counted' /\ \A u \in Threads : RequestReady(req'[u])
  BY <1>1, ArrivesReady
<1>3. BuffersReady'
  <2>1. CASE i = 0
    <3>1. bufs' = bufs
      BY <2>1 DEF StartRead
    <3> QED
      BY <1>1, <3>1 DEF AccessInv, BuffersReady
  <2>2. CASE i # 0
    <3>1. bufs' = [bufs EXCEPT ![t][i] = new]
      BY <2>2 DEF StartRead, Pipe
    <3>2. i \in DOMAIN scheme.pipes
      BY <2>2, SchemeIsReady DEF AccessInv
    <3>3. Filled(scheme.pipes[i]) /\ flash[pg] \in Buffer(PageSize) /\ PageSize \in Nat
      BY <3>2, SchemeIsReady, RequestsAssumption DEF AccessInv, Ready, FlashReady
    <3>4. Buffers(scheme.pipes[i], new)
      BY <3>3, ExtractType
    <3> HIDE DEF new
    <3> QED
      BY <1>1, <3>1, <3>2, <3>4, BuffersStep DEF AccessInv
  <2> QED
    BY <2>1, <2>2
<1>4. FlashReady'
  BY <1>1 DEF AccessInv, FlashReady
<1> QED
  BY <1>1, <1>2, <1>3, <1>4, AccessKept

LEMMA StartWriteKept ==
  ASSUME AccessInv, WorkerInv', NEW t \in Threads, NEW pg \in Pages, NEW size \in Sizes, NEW pay \in Payloads,
         StartWrite(t, pg, pay, size)
  PROVE  AccessInv'
<1> DEFINE i == scheme.owner[pg]
           p == scheme.pipes[i]
           new == copy_write_data_and_oob_spans(bufs[t][i], p.write, pay, size)
<1>1. /\ \E want : Arrives(t, "write", pg, size, want)
      /\ i # 0 /\ p.write # Nothing
      /\ UNCHANGED <<scheme, flash, masks, stored, fault, flips>>
  BY DEF StartWrite, HasWriteSpans, Pipe
<1>2. Counted' /\ \A u \in Threads : RequestReady(req'[u])
  BY <1>1, ArrivesReady
<1>3. i \in DOMAIN scheme.pipes
  BY <1>1, SchemeIsReady DEF AccessInv
<1>4. bufs' = [bufs EXCEPT ![t][i] = new]
  <2>1. bufs' = [bufs EXCEPT ![t][i] = copy_write_data_and_oob_spans(@, p.write, pay, size)]
    BY DEF StartWrite, Pipe
  <2> QED
    BY <1>3, <2>1 DEF AccessInv, BuffersReady
<1>5. Buffers(p, bufs[t][i]) /\ set_request_mappings(p, p.write)
  BY <1>1, <1>3, SchemeIsReady DEF AccessInv, BuffersReady, Ready
<1>6. Buffers(p, new)
  BY <1>5, CopyWriteType
<1> HIDE DEF new
<1>7. BuffersReady'
  BY <1>1, <1>3, <1>4, <1>6, BuffersStep DEF AccessInv
<1>8. FlashReady'
  BY <1>1 DEF AccessInv, FlashReady
<1> QED
  BY <1>1, <1>2, <1>7, <1>8, AccessKept

LEMMA StartWriteOutsideKept ==
  ASSUME AccessInv, WorkerInv', NEW t \in Threads, NEW pg \in Pages, NEW size \in Sizes,
         StartWriteOutside(t, pg, size)
  PROVE  AccessInv'
<1> DEFINE i == scheme.owner[pg]
           p == scheme.pipes[i]
<1>1. i # 0 /\ p.write # Nothing /\ CopyOutside(bufs[t][i], p.write, size) /\ Fault("copy")
  BY DEF StartWriteOutside, HasWriteSpans, Pipe
<1>2. i \in DOMAIN scheme.pipes
  BY <1>1, SchemeIsReady DEF AccessInv
<1>3. Filled(p) /\ set_request_mappings(p, p.write) /\ Buffers(p, bufs[t][i])
  BY <1>1, <1>2, SchemeIsReady DEF AccessInv, Ready, BuffersReady
<1>4. ~MapInside(p, p.write, size)
  BY <1>1, <1>3, CopyInside
<1>5. ~AllInRange
  <2> SUFFICES ASSUME AllInRange PROVE FALSE
    OBVIOUS
  <2>1. \A map \in {p.read, p.write} \ {Nothing} : \A sz \in Sizes : MapInside(p, map, sz)
    BY <1>2 DEF AllInRange, InRange, MapInside
  <2> QED
    BY <1>1, <1>4, <2>1
<1> QED
  BY <1>1, <1>5, FaultKept

LEMMA RefuseKept ==
  ASSUME AccessInv, WorkerInv', NEW t \in Threads, NEW pg \in Pages, NEW size \in Sizes,
         RefuseWrite(t, pg, size)
  PROVE  AccessInv'
<1> DEFINE r == [phase |-> "answered", op |-> "write", page |-> pg, pipe |-> scheme.owner[pg], size |-> size,
                 next |-> 1, ans |-> "EIO", raw |-> Nothing, want |-> Nothing]
<1>1. /\ req' = [req EXCEPT ![t] = r] /\ requests < MaxRequests /\ requests' = requests + 1
      /\ UNCHANGED <<scheme, flash, bufs, masks, stored, fault, flips>>
  BY DEF RefuseWrite
<1>2. RequestReady(r)
  BY DEF RequestReady, Busy, Phases, Answers
<1> HIDE DEF r
<1>3. \A u \in Threads : RequestReady(req'[u])
  BY <1>1, <1>2, RequestsStep DEF AccessInv, WorkerInv
<1>4. BuffersReady' /\ FlashReady' /\ Counted'
  BY <1>1, RequestsAssumption DEF AccessInv, BuffersReady, FlashReady, Counted
<1> QED
  BY <1>1, <1>3, <1>4, AccessKept

LEMMA FlashKept ==
  ASSUME AccessInv, WorkerInv', NEW pg \in Pages, Erase(pg) \/ \E b \in 0 .. PageSize - 1 : Decay(pg, b)
  PROVE  AccessInv'
<1>1. UNCHANGED <<scheme, bufs, masks, req, fault, requests>>
  BY DEF Erase, Decay
<1>2. Counted'
  BY <1>1, RequestsAssumption DEF Erase, Decay, AccessInv, Counted
<1>3. FlashReady'
  <2>1. CASE Erase(pg)
    BY <2>1 DEF Erase, AccessInv, FlashReady, Erased, Buffer, Bit
  <2>2. ASSUME NEW b \in 0 .. PageSize - 1, Decay(pg, b) PROVE FlashReady'
    <3> DEFINE new == [flash[pg] EXCEPT ![b] = Flip(@)]
    <3>1. flash \in [Pages -> Buffer(PageSize)]
      BY DEF AccessInv, FlashReady
    <3>2. flash' = [flash EXCEPT ![pg] = new]
      BY <2>2, <3>1 DEF Decay
    <3>3. new \in Buffer(PageSize)
      <4>1. flash[pg] \in [0 .. PageSize - 1 -> Bit]
        BY <3>1 DEF Buffer
      <4>2. Flip(flash[pg][b]) \in Bit
        <5>1. \A v \in Bit : Flip(v) \in Bit
          BY DEF Bit, Flip
        <5>2. flash[pg][b] \in Bit
          BY <4>1
        <5> QED
          BY <5>1, <5>2, Zenon
      <4> DEFINE f == flash[pg]
                 x == Flip(flash[pg][b])
      <4>3. new = [f EXCEPT ![b] = x]
        OBVIOUS
      <4> HIDE DEF f, x, new
      <4>4. [f EXCEPT ![b] = x] \in [0 .. PageSize - 1 -> Bit]
        BY <4>1, <4>2 DEF f, x
      <4> QED
        BY <4>3, <4>4 DEF Buffer
    <3> HIDE DEF new
    <3> QED
      BY <3>1, <3>2, <3>3 DEF FlashReady
  <2> QED
    BY <2>1, <2>2
<1>4. BuffersReady' /\ \A u \in Threads : RequestReady(req'[u])
  BY <1>1 DEF AccessInv, BuffersReady
<1> QED
  BY <1>1, <1>2, <1>3, <1>4, AccessKept

LEMMA AccessInvStep == AccessInv /\ [Next]_vars => AccessInv'
<1> SUFFICES ASSUME AccessInv, [Next]_vars PROVE AccessInv'
  OBVIOUS
<1>0. WorkerInv'
  BY WorkerInvStep DEF AccessInv
<1>1. CASE \E t \in Threads : Serve(t)
  BY <1>0, <1>1, ServeKept
<1>2. CASE \E t \in Threads, pg \in Pages, size \in Sizes :
             StartRead(t, pg, size) \/ StartWriteOutside(t, pg, size) \/ RefuseWrite(t, pg, size)
  BY <1>0, <1>2, StartReadKept, StartWriteOutsideKept, RefuseKept
<1>3. CASE \E t \in Threads, pg \in Pages, size \in Sizes, pay \in Payloads : StartWrite(t, pg, pay, size)
  BY <1>0, <1>3, StartWriteKept
<1>4. CASE \E pg \in Pages, b \in 0 .. PageSize - 1 : Decay(pg, b)
  BY <1>0, <1>4, FlashKept
<1>5. CASE \E pg \in Pages : Erase(pg)
  BY <1>0, <1>5, FlashKept
<1>6. CASE UNCHANGED vars
  <2>1. UNCHANGED <<scheme, flash, bufs, masks, req, stored, fault, requests, flips>>
    BY <1>6 DEF vars
  <2>2. BuffersReady' /\ FlashReady' /\ Counted' /\ \A u \in Threads : RequestReady(req'[u])
    BY <2>1 DEF AccessInv, BuffersReady, FlashReady, Counted
  <2> QED
    BY <1>0, <2>1, <2>2, AccessKept
<1> QED
  BY <1>1, <1>2, <1>3, <1>4, <1>5, <1>6 DEF Next

(***************************************************************************)
(* For every configuration that scheme.c accepts and any number of         *)
(* threads: pages and span buffers hold bytes of the expected number after *)
(* any sequence of copies, codecs and faults.  That rests on the parts of  *)
(* a span filling it without a gap, since extraction would leave one, and  *)
(* on every codec writing back what fits.                                  *)
(***************************************************************************)
THEOREM WorkerTypeCorrect == Spec => []TypeOK
<1>1. AccessInv => TypeOK
  <2> SUFFICES ASSUME AccessInv PROVE TypeOK
    OBVIOUS
  <2>1. \E c \in Schemes : scheme = WithPipelines(c)
    BY DEF AccessInv, SchemeReady
  <2>2. flash \in [Pages -> [0 .. PageSize - 1 -> Bit]]
    BY DEF AccessInv, FlashReady, Buffer
  <2>3. \A t \in Threads : \A i \in DOMAIN scheme.pipes : \A s \in Spans(Pipe(i)) :
          bufs[t][i][s] \in [0 .. SpanLen(Pipe(i), s) - 1 -> Bit]
    BY DEF AccessInv, BuffersReady, Buffers, Buffer, Pipe
  <2>4. \A t \in Threads : req[t].phase \in Phases /\ req[t].ans \in Answers
    BY DEF AccessInv, RequestReady
  <2> QED
    BY <2>1, <2>2, <2>3, <2>4 DEF TypeOK, AccessInv, Counted
<1> QED
  BY <1>1, AccessInvInit, AccessInvStep, PTL DEF Spec

(***************************************************************************)
(* The tests that scheme.c makes and discards would be enough: where every *)
(* codec context lies inside of its spans for all of its steps and the     *)
(* mapped spans are as long as the requests, no request of any thread ever *)
(* reaches a byte outside of a span's buffer.                              *)
(***************************************************************************)
THEOREM InRangeStaysInside == Spec => []InRangeNeverFaults
<1>1. AccessInv => InRangeNeverFaults
  BY DEF AccessInv
<1> QED
  BY <1>1, AccessInvInit, AccessInvStep, PTL DEF Spec
=============================================================================
