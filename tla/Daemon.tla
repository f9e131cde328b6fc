------------------------------- MODULE Daemon -------------------------------
(***************************************************************************)
(* The life of the daemon: main.c from the arguments to the exit code,     *)
(* __thread_priv_create and __thread_priv_teardown of every queue thread,  *)
(* fixup_pipeline0_once on the state they share, and SIGINT at any time.   *)
(*                                                                         *)
(* What a thread or main does on its own memory commutes with everything   *)
(* else, so CfgParser's and SchemeBuild's functions are one action each,   *)
(* with every outcome they can have; the steps of fixup_pipeline0_once     *)
(* are actions of their own.                                               *)
(***************************************************************************)
EXTENDS SchemeBuild

CONSTANTS N,     \* number of queues
          Docs   \* shapes of configuration files

Threads == 1 .. N

ASSUME NAssumption == N \in Nat \ {0} /\ Nothing \notin Threads

(* Parameters as the parser stores them: an integer, a string that is      *)
(* known by its length, or something else.                                 *)
ParamTyped(p) ==
  /\ p.kind = "integer" => p.val \in Int
  /\ p.kind = "string" => p.val.len \in Nat

IsSeq(s) == s \in Seq(Range(s))

(* A document has sections of codecs, pipelines and partitions; codec      *)
(* specifiers name codecs by their position.                               *)
DocTyped(d) ==
  /\ IsSeq(d.codecs) /\ IsSeq(d.pipelines) /\ IsSeq(d.partitions)
  /\ \A i \in DOMAIN d.codecs :
       d.codecs[i].params # Nothing =>
         IsSeq(d.codecs[i].params) /\ \A p \in Range(d.codecs[i].params) : ParamTyped(p)
  /\ \A i \in DOMAIN d.pipelines :
       LET p == d.pipelines[i]
       IN /\ IsSeq(p.layout)
          /\ p.reads \in Seq(DOMAIN d.codecs)
          /\ p.writes # Nothing => p.writes \in Seq(DOMAIN d.codecs)

ASSUME DocsAssumption == \A d \in Docs : DocTyped(d)

VARIABLES proc,      \* "running", "exited", "killed" or "crashed"
          pc,        \* where main is
          args,      \* what the command line is: "paths", "help" or "bad"
          ret,       \* the variable of that name in main; < 0 is -1
          stop,      \* the flag of the signal handler
          device,    \* the device is open
          doc,       \* the shape of the configuration file
          st,        \* where each thread is
          rc,        \* how each thread's creation ended
          heap,      \* what each thread has allocated
          cfg,       \* g_cfg_scheme: how parsing ended, what it has allocated
          verdict,   \* where the configuration is refused by the threads
          parallel,  \* the library creates its queues at the same time
          nack,      \* pipeline0, pipeline0_initialized and their memory
          copied     \* the table of spans in each thread's copy of pipeline0

mainVars == <<proc, pc, args, ret, stop, device, doc, parallel>>
vars == <<mainVars, st, rc, heap, cfg, verdict, nack, copied>>

(* The table of spans and the buffer of pipeline0 that thread t made. *)
nack_spans(t) == <<"nack.spans", t, 0>>
nack_buf(t) == <<"nack.buf", t, 0>>

(* What the functions can end with, per document. *)
CfgOutcomes == [d \in Docs |-> Outcomes(EmptyHeap, create_cfg_scheme(d))]

CodecsOutcomes == [d \in Docs |-> Outcomes(EmptyHeap, BuildCodecs(d))]

RestOutcomes ==
  [d \in Docs |->
     UNION {Outcomes(o.heap, BuildRest(d)) : o \in {o \in CodecsOutcomes[d] : o.rc = "ok"}}]

CfgTeardown == [d \in Docs |-> destroy_cfg_scheme(d)]

ThreadTeardown == [d \in Docs |-> thread_priv_teardown(d)]

TypeOK ==
  /\ proc \in {"running", "exited", "killed", "crashed"}
  /\ pc \in {"params", "sigaction", "device", "config", "queues", "abandon", "polling",
             "destroy_queues", "destroy_config", "close"}
  /\ args \in {"paths", "help", "bad"}
  /\ ret \in {-1, 0}
  /\ {stop, device, parallel, nack.ready} \subseteq BOOLEAN
  /\ doc \in Docs
  /\ st \in [Threads -> {"none", "test", "new", "set", "alloc", "flag", "rest", "failed", "serving", "gone"}]
  /\ rc \in [Threads -> {"none", "ok", "refused", "oom", "exists"}]
  /\ cfg.rc \in {"none", "ok", "refused", "type", "oom"}
  /\ DOMAIN heap = Threads
  /\ nack.spans \in Threads \cup {Nothing} /\ nack.buf \in Threads \cup {Nothing}
  /\ nack.filled \subseteq Threads
  /\ copied \in [Threads -> Threads \cup {Nothing}]

Init ==
  /\ proc = "running" /\ pc = "params" /\ ret = 0
  /\ args \in {"paths", "help", "bad"}
  /\ stop = FALSE /\ device = FALSE
  /\ doc \in Docs /\ parallel \in BOOLEAN
  /\ st = [t \in Threads |-> "none"]
  /\ rc = [t \in Threads |-> "none"]
  /\ heap = [t \in Threads |-> EmptyHeap]
  /\ cfg = [rc |-> "none", heap |-> EmptyHeap]
  /\ verdict = [part \in {"codecs", "rest"} |-> Nothing]
  /\ nack = [spans |-> Nothing, buf |-> Nothing, filled |-> {}, ready |-> FALSE, heap |-> EmptyHeap]
  /\ copied = [t \in Threads |-> Nothing]

-----------------------------------------------------------------------------
(* main. *)

At(label) == proc = "running" /\ pc = label

Goto(label) == pc' = label /\ UNCHANGED <<proc, args, stop, doc, parallel>>

Return(code) == proc' = "exited" /\ ret' = code /\ UNCHANGED <<pc, args, stop, device, doc, parallel>>

Die(how) == proc' = how /\ UNCHANGED <<pc, args, ret, stop, device, doc, st, rc, heap, cfg, verdict, parallel, nack, copied>>

MemoryUnchanged == UNCHANGED <<st, rc, heap, cfg, verdict, nack, copied>>

(* Asking for help is a success, and main goes on without paths. *)
HandleParams ==
  /\ At("params")
  /\ IF args = "bad" THEN Return(-1) ELSE Goto("sigaction") /\ UNCHANGED <<ret, device>>
  /\ MemoryUnchanged

InstallHandler ==
  /\ At("sigaction")
  /\ \/ Goto("device") /\ UNCHANGED <<ret, device>>
     \/ Return(-1)
  /\ MemoryUnchanged

OpenDevice ==
  /\ At("device")
  /\ \/ args = "paths" /\ Goto("config") /\ device' = TRUE /\ UNCHANGED ret
     \/ Return(-1)
  /\ MemoryUnchanged

(* Mutated: a failure returns its error number as it is. *)
CreateCfgSchemePositive ==
  /\ At("config")
  /\ \E o \in CfgOutcomes[doc] :
       IF o.rc = "crash"
       THEN Die("crashed")
       ELSE /\ cfg' = [rc |-> o.rc, heap |-> o.heap]
            /\ ret' = IF o.rc = "ok" THEN 0 ELSE 1
            /\ Goto(IF o.rc = "ok" THEN "queues" ELSE "close")
            /\ UNCHANGED <<device, st, rc, heap, verdict, nack, copied>>

(* Mutated: a failure returns without closing the device. *)
CreateCfgSchemeReturns ==
  /\ At("config")
  /\ \E o \in CfgOutcomes[doc] :
       CASE o.rc = "crash" -> Die("crashed")
         [] o.rc = "ok" ->
              /\ cfg' = [rc |-> o.rc, heap |-> o.heap] /\ ret' = 0 /\ Goto("queues")
              /\ UNCHANGED <<device, st, rc, heap, verdict, nack, copied>>
         [] OTHER ->
              /\ cfg' = [rc |-> o.rc, heap |-> o.heap] /\ Return(-1)
              /\ UNCHANGED <<st, rc, heap, verdict, nack, copied>>

CreateCfgScheme ==
  /\ At("config")
  /\ \E o \in CfgOutcomes[doc] :
       IF o.rc = "crash"
       THEN Die("crashed")
       ELSE /\ cfg' = [rc |-> o.rc, heap |-> o.heap]
            /\ ret' = IF o.rc = "ok" THEN 0 ELSE -1
            /\ Goto(IF o.rc = "ok" THEN "queues" ELSE "close")
            /\ UNCHANGED <<device, st, rc, heap, verdict, nack, copied>>

InState(states) == {t \in Threads : st[t] \in states}

Building == InState({"test", "new", "set", "alloc", "flag", "rest"})

(* initialize_proxy_dev_queues returns when every queue is served, or      *)
(* when one could not be created and no creation is under way.             *)
CreateQueues ==
  /\ At("queues")
  /\ \/ InState({"serving"}) = Threads /\ Goto("polling") /\ UNCHANGED ret
     \/ /\ InState({"failed"}) # {} /\ Building = {}
        /\ parallel => InState({"none"}) = {}
        /\ Goto("abandon") /\ ret' = -1
  /\ UNCHANGED device /\ MemoryUnchanged

(* Mutated: the loop ends without looking at the flag. *)
PollOnce ==
  /\ At("polling")
  /\ Goto("destroy_queues")
  /\ UNCHANGED <<ret, device>> /\ MemoryUnchanged

Poll ==
  /\ At("polling") /\ stop
  /\ Goto("destroy_queues")
  /\ UNCHANGED <<ret, device>> /\ MemoryUnchanged

(* The queues are destroyed in their order; the library does the same      *)
(* when it gives up.                                                       *)
NextQueue == CHOOSE t \in InState({"serving"}) : \A u \in InState({"serving"}) : t <= u

DestroyQueue ==
  /\ At("destroy_queues") \/ At("abandon")
  /\ InState({"serving"}) # {}
  /\ LET t == NextQueue
     IN /\ st' = [st EXCEPT ![t] = "gone"]
        /\ heap' = [heap EXCEPT ![t] = FreeInOrder(@, ThreadTeardown[doc])]
        /\ nack' = [nack EXCEPT !.heap = free(@, {nack_spans(u) : u \in {copied[t]} \ {Nothing}})]
  /\ UNCHANGED <<mainVars, rc, cfg, verdict, copied>>

QueuesDestroyed ==
  /\ At("destroy_queues") \/ At("abandon")
  /\ InState({"serving"}) = {}
  /\ Goto("destroy_config")
  /\ UNCHANGED <<ret, device>> /\ MemoryUnchanged

DestroyCfgScheme ==
  /\ At("destroy_config")
  /\ cfg' = [cfg EXCEPT !.heap = FreeInOrder(@, CfgTeardown[doc])]
  /\ Goto("close")
  /\ UNCHANGED <<ret, device, st, rc, heap, verdict, nack, copied>>

CloseDevice ==
  /\ At("close")
  /\ device' = FALSE /\ proc' = "exited"
  /\ UNCHANGED <<pc, args, ret, stop, doc, parallel>> /\ MemoryUnchanged

Main ==
  \/ HandleParams \/ InstallHandler \/ OpenDevice \/ CreateCfgScheme \/ CreateQueues
  \/ Poll \/ DestroyQueue \/ QueuesDestroyed \/ DestroyCfgScheme \/ CloseDevice

-----------------------------------------------------------------------------
(* __thread_priv_create of thread t. *)

Fail(t, why) == st' = [st EXCEPT ![t] = "failed"] /\ rc' = [rc EXCEPT ![t] = why]

GoOn(t, label) == st' = [st EXCEPT ![t] = label] /\ UNCHANGED rc

(* Thread t runs a function that has these outcomes.  A configuration that *)
(* one thread accepts or refuses is the same for the next.                 *)
Run(t, part, outcomes, next) ==
  \E o \in outcomes :
    /\ o.rc \in {"ok", "refused"} => verdict[part] \in {Nothing, o.at}
    /\ IF o.rc = "crash"
       THEN Die("crashed")
       ELSE /\ heap' = [heap EXCEPT ![t] = o.heap]
            /\ verdict' = IF o.rc = "oom" THEN verdict ELSE [verdict EXCEPT ![part] = o.at]
            /\ IF o.rc = "ok"
               THEN st' = [st EXCEPT ![t] = next] /\ rc' = [rc EXCEPT ![t] = IF next = "serving" THEN "ok" ELSE @]
               ELSE Fail(t, o.rc)
            /\ copied' = IF o.rc = "ok" /\ next = "serving" THEN [copied EXCEPT ![t] = nack.spans] ELSE copied
            /\ UNCHANGED <<mainVars, cfg, nack>>

CreateCodecs(t) ==
  /\ At("queues") /\ st[t] = "none"
  /\ parallel \/ \A u \in 1 .. t - 1 : st[u] = "serving"
  /\ Run(t, "codecs", CodecsOutcomes[doc], "test")

(* Mutated: the flag is not tested. *)
FixupTestIgnored(t) ==
  /\ proc = "running" /\ st[t] = "test"
  /\ GoOn(t, "new")
  /\ UNCHANGED <<mainVars, heap, cfg, verdict, nack, copied>>

(* fixup_pipeline0_once: the flag is tested, and set only at the end. *)
FixupTest(t) ==
  /\ proc = "running" /\ st[t] = "test"
  /\ GoOn(t, IF nack.ready THEN "rest" ELSE "new")
  /\ UNCHANGED <<mainVars, heap, cfg, verdict, nack, copied>>

FixupNew(t) ==
  /\ proc = "running" /\ st[t] = "new"
  /\ \/ nack' = [nack EXCEPT !.spans = t, !.heap = malloc(@, {nack_spans(t)})] /\ GoOn(t, "set")
     \/ nack' = [nack EXCEPT !.spans = Nothing] /\ Fail(t, "oom")
  /\ UNCHANGED <<mainVars, heap, cfg, verdict, copied>>

(* Mutated: a thread that finds the span there tries again. *)
FixupSetRetries(t) ==
  /\ proc = "running" /\ st[t] = "set"
  /\ \/ nack.spans = Nothing /\ Die("crashed")
     \/ /\ nack.spans # Nothing
        /\ \/ nack.spans \in nack.filled /\ GoOn(t, "set") /\ UNCHANGED nack
           \/ /\ nack.spans \notin nack.filled
              /\ \/ nack' = [nack EXCEPT !.filled = @ \cup {nack.spans}] /\ GoOn(t, "alloc")
                 \/ Fail(t, "oom") /\ UNCHANGED nack
        /\ UNCHANGED <<mainVars, heap, cfg, verdict, copied>>

(* The table may be another thread's by now, and may have the span. *)
FixupSet(t) ==
  /\ proc = "running" /\ st[t] = "set"
  /\ \/ nack.spans = Nothing /\ Die("crashed")
     \/ /\ nack.spans # Nothing
        /\ \/ nack.spans \in nack.filled /\ Fail(t, "exists") /\ UNCHANGED nack
           \/ /\ nack.spans \notin nack.filled
              /\ \/ nack' = [nack EXCEPT !.filled = @ \cup {nack.spans}] /\ GoOn(t, "alloc")
                 \/ Fail(t, "oom") /\ UNCHANGED nack
        /\ UNCHANGED <<mainVars, heap, cfg, verdict, copied>>

(* Mutated: the buffer is not tested for NULL. *)
FixupAllocUntested(t) ==
  /\ proc = "running" /\ st[t] = "alloc"
  /\ \/ nack' = [nack EXCEPT !.buf = t, !.heap = malloc(@, {nack_buf(t)})]
     \/ nack' = [nack EXCEPT !.buf = Nothing]
  /\ GoOn(t, "flag")
  /\ UNCHANGED <<mainVars, heap, cfg, verdict, copied>>

FixupAlloc(t) ==
  /\ proc = "running" /\ st[t] = "alloc"
  /\ \/ nack' = [nack EXCEPT !.buf = t, !.heap = malloc(@, {nack_buf(t)})] /\ GoOn(t, "flag")
     \/ nack' = [nack EXCEPT !.buf = Nothing] /\ Fail(t, "oom")
  /\ UNCHANGED <<mainVars, heap, cfg, verdict, copied>>

(* The lengths of the part and of the span, and the flag. *)
FixupFlag(t) ==
  /\ proc = "running" /\ st[t] = "flag"
  /\ nack' = [nack EXCEPT !.ready = TRUE]
  /\ GoOn(t, "rest")
  /\ UNCHANGED <<mainVars, heap, cfg, verdict, copied>>

(* At its end pipeline0 is copied to place 0. *)
CreateRest(t) ==
  /\ proc = "running" /\ st[t] = "rest"
  /\ Run(t, "rest", RestOutcomes[doc], "serving")

Thread(t) ==
  \/ CreateCodecs(t) \/ FixupTest(t) \/ FixupNew(t) \/ FixupSet(t)
  \/ FixupAlloc(t) \/ FixupFlag(t) \/ CreateRest(t)

-----------------------------------------------------------------------------
(* Without a handler the signal ends the process. *)
SigInt ==
  /\ proc = "running"
  /\ IF pc \in {"params", "sigaction"}
     THEN Die("killed")
     ELSE /\ ~stop /\ stop' = TRUE
          /\ UNCHANGED <<proc, pc, args, ret, device, doc, parallel>> /\ MemoryUnchanged

(* The allocator may notice a pointer that it did not hand out, or not. *)
Abort ==
  /\ proc = "running"
  /\ cfg.heap.bad # {} \/ nack.heap.bad # {} \/ \E t \in Threads : heap[t].bad # {}
  /\ Die("crashed")

Done == proc # "running" /\ UNCHANGED vars

Next == Main \/ (\E t \in Threads : Thread(t)) \/ SigInt \/ Abort \/ Done

Fairness == WF_vars(Main) /\ \A t \in Threads : WF_vars(Thread(t))

Spec == Init /\ [][Next]_vars /\ Fairness

-----------------------------------------------------------------------------
(* Ownership. *)

Duplicates(items) == \E n \in DOMAIN items : Occurs(Names(items), n)

DanglingPairs ==
  UNION {{pair(i, j) : j \in Dangling(doc.codecs[i].params)} :
           i \in {i \in DOMAIN doc.codecs : doc.codecs[i].params # Nothing}}

(* Nothing is handed to free that is not on the heap, except: a member of  *)
(* the document that should have been a string (get_json_string_by_key     *)
(* drops a reference it does not own), a parameter whose key occurs twice, *)
(* the later of two codecs or partitions with one name, and, when a thread *)
(* is torn down, the static pipeline0 and its table of spans, which every  *)
(* thread frees.                                                           *)
FreesExplained ==
  /\ \A o \in cfg.heap.bad : (o = node /\ cfg.rc = "type") \/ o \in DanglingPairs
  /\ \A t \in Threads :
       \A o \in heap[t].bad :
         \/ o \in pipeline0_statics /\ st[t] = "gone"
         \/ o[1] \in {"codec.name", "codec.type"} /\ Occurs(Names(doc.codecs), o[2])
         \/ o[1] = "partition.name" /\ Occurs(Names(doc.partitions), o[2])
  /\ \A t \in Threads :
       nack_spans(t) \in nack.heap.bad => \E u, v \in InState({"gone"}) : u # v /\ copied[u] = t /\ copied[v] = t

PipelineKinds ==
  {"pipeline.name", "read_codecs", "write_codecs", "write_spans", "spans", "span.name", "span.parts",
   "span.buf", "layout.parts", "layout.part", "layout.part_name"}

(* A mask that a thread still holds belongs to a codec all of whose        *)
(* parameters were accepted: when a later parameter is refused,            *)
(* do_revert_entries gives the mask back.                                  *)
MasksReverted ==
  \A t \in Threads :
    \A i \in {i \in DOMAIN doc.codecs : codec_mask(i) \in heap[t].live} :
      LET c == doc.codecs[i]
      IN \A n \in DOMAIN parsers[c.type] :
           Has(c.params, parsers[c.type][n]) => parse_value(c, parsers[c.type][n])

(* What a thread that could not be created leaves behind: its priv, the    *)
(* private data of its codecs, the whole table of codecs when pipeline0    *)
(* could not be fixed up, and otherwise pieces of one pipeline at most.    *)
(* What one that was torn down leaves behind: the private data, the array  *)
(* of the demultiplexer and the last pipeline.  The parser leaves arrays,  *)
(* and on an error what it had of one pipeline.  A mask is left behind     *)
(* only by a codec whose parameters were all accepted.                     *)
LeaksExplained ==
  /\ MasksReverted
  /\ cfg.rc \notin {"none", "ok"} \/ (cfg.rc = "ok" /\ pc = "close") =>
       \E i \in DOMAIN doc.pipelines :
         \A o \in cfg.heap.live :
           \/ o[1] \in {"parts", "read.objs", "write.objs", "write", "mappings"}
           \/ o[1] = "pair" /\ DanglingPairs # {}
           \/ o \in {root, node} /\ cfg.rc = "refused" /\ cfg.heap.live = {root, node}
           \/ o[1] \in {"read.data", "read.oob", "read.name", "read.map"} /\ o[2] = i /\ cfg.rc # "ok"
  /\ \A t \in InState({"failed", "gone"}) :
       LET left == heap[t].live
           of == {o \in left : o[1] \in PipelineKinds}
           last == Len(doc.pipelines)
       IN /\ \A o \in left \ of : o[1] \in {"codec.priv", "codec.mask", "thread_priv", "demux.arr", "codecs",
                                          "codec.name", "codec.type", "partition.name"}
          /\ thread_priv \in left => st[t] = "failed"
          /\ demux_arr \in left => st[t] = "gone"
          /\ codecs_map \in left => rc[t] \in {"oom", "exists"} /\ of = {}
          /\ \A o \in left : o[1] = "codec.name" => codecs_map \in left \/ Duplicates(doc.codecs)
          /\ \A o \in left : o[1] = "partition.name" => Duplicates(doc.partitions)
          /\ \A o, p \in of : o[2] = p[2]
          /\ st[t] = "gone" => of = pipeline_destroy(last, doc.pipelines[last])

-----------------------------------------------------------------------------
(* Pipeline 0. *)

(* While the daemon polls, every thread's copy of pipeline0 refers to a    *)
(* table that is alive and has the span, and there is a buffer, however    *)
(* the threads' fixups were interleaved.  When the library creates one     *)
(* queue after the other, this is so for each thread from the start.       *)
NackReady ==
  \A t \in InState({"serving"}) :
    pc = "polling" \/ (pc = "queues" /\ ~parallel) =>
      /\ nack.ready
      /\ copied[t] \in nack.filled /\ nack_spans(copied[t]) \in nack.heap.live
      /\ nack.buf # Nothing /\ nack_buf(nack.buf) \in nack.heap.live

(* The NACK pipeline is a singleton, and a thread never finds the span in  *)
(* a table it has just made, unless the library creates its queues at the  *)
(* same time.                                                              *)
FixupOnceUnlessParallel ==
  ~parallel =>
    /\ Cardinality({t \in Threads : nack_buf(t) \in nack.heap.live}) <= 1
    /\ Cardinality(nack.filled) <= 1
    /\ \A t \in Threads : rc[t] # "exists"

-----------------------------------------------------------------------------
(* Parameters. *)

Keyed(ps) == {ps[n].key : n \in DOMAIN ps}

Optional(ps) == {ps[n].key : n \in {n \in DOMAIN ps : ~ps[n].required}}

Used(p) == Range(p.reads) \cup (IF p.writes = Nothing THEN {} ELSE Range(p.writes))

(* The number of steps in the file, unless it does not fit an int, is one  *)
(* that the OOB area has room for; the int it was stored in always is.     *)
StepsFitOob(v) ==
  /\ narrow(v) \in 1 .. OobSize \div 3
  /\ v \in -(IntMax + 1) .. IntMax => v \in 1 .. OobSize \div 3

(* What a thread that serves knows about its codecs: the ECC steps have    *)
(* room in the OOB area, as stored and, within the range of an int, as the *)
(* file has them (beyond it a number may have become a small one, although *)
(* handle_steps_entry expects it to "fail later"); a mask that some        *)
(* pipeline applies is not empty; and a parameter that nobody asked for    *)
(* got in only in place of an optional one that is missing.                *)
ParametersSound ==
  InState({"serving"}) # {} =>
    \A i \in DOMAIN doc.codecs :
      LET c == doc.codecs[i]
          table == Table(c.params)
          keys == {p.key : p \in table}
          ps == parsers[c.type]
      IN \/ Dangling(c.params) # {}
         \/ /\ Cardinality(keys \ Keyed(ps)) <= Cardinality(Optional(ps) \ keys)
            /\ \A p \in table :
                 /\ p.key = "steps" /\ c.type = "linux-hamming" => StepsFitOob(p.val)
                 /\ p.key = "byte_pattern" /\ c.type = "xor" /\ (\E k \in DOMAIN doc.pipelines : i \in Used(doc.pipelines[k])) =>
                      p.kind = "string" /\ p.val.len > 0

-----------------------------------------------------------------------------
(* Start and end. *)

(* When main returns, the device is closed, no thread is left, and the     *)
(* exit code says success only when every queue was served and SIGINT      *)
(* ended it.                                                               *)
ExitIsClean ==
  proc = "exited" =>
    /\ ~device
    /\ Building \cup InState({"serving"}) = {}
    /\ ret = 0 => stop /\ InState({"gone"}) = Threads

Queues ==
  INSTANCE QueueService WITH
    Queues <- Threads,
    phase <- CASE proc # "running" -> "ended"
               [] At("polling") -> "open"
               [] proc = "running" /\ pc \in {"abandon", "destroy_queues", "destroy_config", "close"} -> "closing"
               [] OTHER -> "opening",
    serving <- IF proc = "running" THEN InState({"serving"}) ELSE {},
    asked <- stop

(* The daemon keeps the promise of QueueService: the queues are opened     *)
(* together and closed only after SIGINT; whatever fails, start-up ends in *)
(* the polling loop or with the process; and SIGINT at any time after the  *)
(* handler is installed, also while the threads are being created, ends    *)
(* the daemon.                                                             *)
ServiceKept == Queues!Spec
=============================================================================
