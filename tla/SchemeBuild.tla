---------------------------- MODULE SchemeBuild ----------------------------
(***************************************************************************)
(* initialize_nand_pipeline_scheme and destroy_nand_pipeline_scheme: what  *)
(* a thread allocates for its own copy of the scheme, what each error exit *)
(* gives back, and what the teardown gives back.  fixup_pipeline0_once,    *)
(* between the codecs and the pipelines, works on shared state: its steps  *)
(* are actions of Daemon.                                                  *)
(*                                                                         *)
(* The document is the one of CfgParser; a layout lists its parts in page  *)
(* order and numbers its spans in the order in which they occur, and a     *)
(* codec specifier names its codec by the codec's position.                *)
(***************************************************************************)
EXTENDS CodecParams

Names(items) == [j \in DOMAIN items |-> items[j].name]

(* hashmap_set fails without memory, and when the key is there already: by *)
(* then the table has the new item.                                        *)
hashmap_set(present, oom_exit, existing_exit) ==
  IF present
  THEN [Step EXCEPT !.fail = [k \in {"oom", "refused"} |-> IF k = "oom" THEN oom_exit ELSE existing_exit],
                    !.sure = TRUE]
  ELSE Get({}, oom_exit)

-----------------------------------------------------------------------------
(* Codecs. *)

codecs_map == <<"codecs", 0, 0>>

codec_destroy(j) == {codec_name(j), codec_type(j)}

(* hashmap_free of the table of the first n codecs. *)
free_codecs(d, n) == {codecs_map} \cup UNION {codec_destroy(j) : j \in InTable(Names(d.codecs), n)}

(* When the name is there already, the table has the new codec when both   *)
(* codec_destroy and hashmap_free get to it.                               *)
initialize_codecs(d) ==
  <<Get({codecs_map}, <<>>)>>
  \o Loop([j \in DOMAIN d.codecs |->
       <<Get({codec_name(j)}, <<free_codecs(d, j - 1)>>),
         Get({codec_type(j)}, <<{codec_name(j)}, free_codecs(d, j - 1)>>)>>
       \o Within(initialize_codec_internals(j, d.codecs[j]), <<codec_destroy(j), free_codecs(d, j - 1)>>)
       \o <<hashmap_set(Occurs(Names(d.codecs), j), <<codec_destroy(j), free_codecs(d, j - 1)>>,
                        <<codec_destroy(j), free_codecs(d, j)>>)>>])

-----------------------------------------------------------------------------
(* The page layout of pipeline i. *)

layout_spans(i) == <<"spans", i, 0>>
layout_parts(i) == <<"layout.parts", i, 0>>
layout_part(i, k) == {<<"layout.part", i, k>>, <<"layout.part_name", i, k>>}
span_name(i, s) == <<"span.name", i, s>>
span_parts(i, s) == <<"span.parts", i, s>>
span_buf(i, s) == <<"span.buf", i, s>>

(* The spans of the first n parts. *)
Spans(p, n) == {p.layout[k] : k \in 1 .. n}

(* hashmap_free of the table of spans, of which some have their array of   *)
(* parts and some their buffer.                                            *)
free_spans(i, known, linked, buffered) ==
  {layout_spans(i)} \cup {span_name(i, s) : s \in known}
  \cup {span_parts(i, s) : s \in linked} \cup {span_buf(i, s) : s \in buffered}

destroy_layout_parts(i, n) == {layout_parts(i)} \cup UNION {layout_part(i, k) : k \in 1 .. n}

pipeline_page_layout_destroy(i, p) ==
  LET all == Spans(p, Len(p.layout))
  IN free_spans(i, all, all, all) \cup destroy_layout_parts(i, Len(p.layout))

(* The name of a new span is not given back when the table has no room.    *)
find_or_add_new_span(i, p, k, exit) ==
  <<Need(exit)>>
  \o When(p.layout[k] \notin Spans(p, k - 1),
          <<Get({span_name(i, p.layout[k])}, exit), Get({}, exit)>>)

(* The second loop counts with part_idx too: an exit in it gives back only *)
(* the parts before the one that it has reached.                           *)
add_pipeline_layout_parts(i, p) ==
  LET n == Len(p.layout)
      all == Spans(p, n)
      initializers == {<<"span_initializers", i, 0>>}
      found(k) == <<free_spans(i, Spans(p, k), {}, {}), destroy_layout_parts(i, k)>>
      linked(k) == <<initializers, free_spans(i, all, Spans(p, k), {}), destroy_layout_parts(i, k)>>
  IN <<Get({layout_spans(i)}, <<>>), Get({layout_parts(i)}, <<{layout_spans(i)}>>)>>
     \o Loop([k \in 1 .. n |->
          <<Need(found(k - 1)),
            Get({<<"layout.part", i, k>>}, found(k - 1)),
            Get({<<"layout.part_name", i, k>>}, <<{<<"layout.part", i, k>>}>> \o found(k - 1))>>
          \o find_or_add_new_span(i, p, k, <<layout_part(i, k)>> \o found(k - 1))])
     \o <<Get(initializers, found(n))>>
     \o Loop([k \in 1 .. n |->
          When(k < n, <<Need(linked(k - 1))>>)
          \o When(p.layout[k] \notin Spans(p, k - 1),
                  <<Get({span_parts(i, p.layout[k])}, linked(k - 1))>>)])
     \o <<Put(initializers)>>
     \o Loop([s \in 1 .. Cardinality(all) |->
          <<Get({span_buf(i, s)}, <<free_spans(i, all, all, 1 .. s - 1), destroy_layout_parts(i, n)>>)>>])

-----------------------------------------------------------------------------
(* The codec contexts of pipeline i; what is "read_codecs" or              *)
(* "write_codecs", and context 0 is the array.                             *)

context(what, i, k) == <<what, i, k>>

destroy_contexts(what, i, n) == {context(what, i, k) : k \in 0 .. n}

EmptyMask(c) ==
  /\ c.type = "xor" /\ c.params # Nothing
  /\ \E p \in Table(c.params) : p.key = "byte_pattern" /\ p.kind = "string" /\ p.val.len = 0

(* memset has no read_ops, and validate_spans_size_sufficient of xor       *)
(* divides by the size of the mask.                                        *)
add_pipeline_codec(d, what, i, k, codec) ==
  LET c == d.codecs[codec]
      exit == <<destroy_contexts(what, i, k - 1)>>
  IN <<Need(exit)>>
     \o When(what = "read_codecs" /\ c.type = "memset", <<Refuse(exit)>>)
     \o <<Get({context(what, i, k)}, exit), Need(<<{context(what, i, k)}>> \o exit)>>
     \o When(EmptyMask(c), <<Crash>>)

add_pipeline_codecs(d, what, i, specifiers) ==
  <<Get({context(what, i, 0)}, <<>>)>>
  \o Loop([k \in DOMAIN specifiers |-> add_pipeline_codec(d, what, i, k, specifiers[k])])

-----------------------------------------------------------------------------
(* Pipelines. *)

demux_pipelines == <<"demux.pipelines", 0, 0>>
pipelines_map == <<"pipelines", 0, 0>>
name_of(i) == <<"pipeline.name", i, 0>>

write_spans(i, p) == IF p.writes = Nothing THEN {} ELSE {<<"write_spans", i, 0>>}

pipeline_destroy(i, p) ==
  {name_of(i)} \cup destroy_contexts("read_codecs", i, Len(p.reads))
  \cup (IF p.writes = Nothing THEN {} ELSE destroy_contexts("write_codecs", i, Len(p.writes)))
  \cup write_spans(i, p) \cup pipeline_page_layout_destroy(i, p)

create_pipeline_obj(d, i, p) ==
  LET free_layout == <<pipeline_page_layout_destroy(i, p), {name_of(i)}>>
      free_write_spans == <<write_spans(i, p)>> \o free_layout
      destroy_read_codecs == <<destroy_contexts("read_codecs", i, Len(p.reads))>> \o free_write_spans
  IN <<Get({name_of(i)}, <<>>)>>
     \o Within(add_pipeline_layout_parts(i, p), <<{name_of(i)}>>)
     \o <<Need(free_layout)>>
     \o When(p.writes # Nothing, <<Get(write_spans(i, p), free_layout), Need(free_write_spans)>>)
     \o Within(add_pipeline_codecs(d, "read_codecs", i, p.reads), free_write_spans)
     \o When(p.writes # Nothing,
             Within(add_pipeline_codecs(d, "write_codecs", i, p.writes), destroy_read_codecs))

(* Mutated: the place that is being filled is visited too. *)
destroy_pipelinesOneMore(d, n) ==
  {demux_pipelines} \cup UNION {pipeline_destroy(i, d.pipelines[i]) : i \in (1 .. n) \cap DOMAIN d.pipelines}

(* The array's places 0 to n - 1; the configuration's pipelines are in     *)
(* places 1 and up, and place 0 is empty until pipeline0 is copied there.  *)
destroy_pipelines(d, n) ==
  {demux_pipelines} \cup UNION {pipeline_destroy(i, d.pipelines[i]) : i \in 1 .. n - 1}

(* Mutated: free_entries does not free the table. *)
initialize_pipelinesKeepsTable(d) ==
  <<Get({demux_pipelines}, <<>>), Get({pipelines_map}, <<destroy_pipelines(d, 0)>>)>>
  \o Loop([i \in DOMAIN d.pipelines |->
       LET free_entries == <<destroy_pipelines(d, i)>>
           set_exit == <<pipeline_destroy(i, d.pipelines[i])>> \o free_entries
       IN Within(create_pipeline_obj(d, i, d.pipelines[i]), free_entries)
          \o <<hashmap_set(Occurs(Names(d.pipelines), i), set_exit, set_exit)>>])

initialize_pipelines(d) ==
  <<Get({demux_pipelines}, <<>>), Get({pipelines_map}, <<destroy_pipelines(d, 0)>>)>>
  \o Loop([i \in DOMAIN d.pipelines |->
       LET free_entries == <<{pipelines_map}, destroy_pipelines(d, i)>>
           set_exit == <<pipeline_destroy(i, d.pipelines[i])>> \o free_entries
       IN Within(create_pipeline_obj(d, i, d.pipelines[i]), free_entries)
          \o <<hashmap_set(Occurs(Names(d.pipelines), i), set_exit, set_exit)>>])

-----------------------------------------------------------------------------
(* Partitions and the selector. *)

partitions_map == <<"partitions", 0, 0>>
partition_name(j) == <<"partition.name", j, 0>>
demux_arr == <<"demux.arr", 0, 0>>

free_partitions(d, n) ==
  {partitions_map} \cup {partition_name(j) : j \in InTable(Names(d.partitions), n)}

initialize_partitions(d) ==
  <<Get({partitions_map}, <<>>)>>
  \o Loop([j \in DOMAIN d.partitions |->
       LET exit(n) == <<{partition_name(j)}, free_partitions(d, n)>>
       IN <<Get({partition_name(j)}, <<free_partitions(d, j - 1)>>),
            Need(exit(j - 1)),
            hashmap_set(Occurs(Names(d.partitions), j), exit(j - 1), exit(j))>>])
  \o <<Need(<<free_partitions(d, Len(d.partitions))>>)>>

(* The array of the demultiplexer, unless one partition is everything. *)
initialize_pipeline_selector(d) ==
  When(~d.single, <<Need(<<>>), Get({demux_arr}, <<>>), Need(<<{demux_arr}>>)>>)

-----------------------------------------------------------------------------
thread_priv == <<"thread_priv", 0, 0>>

(* __thread_priv_create up to fixup_pipeline0_once; nobody frees priv.     *)
BuildCodecs(d) == <<Get({thread_priv}, <<>>)>> \o initialize_codecs(d)

(* initialize_nand_pipeline_scheme after fixup_pipeline0_once. *)
BuildRest(d) ==
  LET codecs_exit == <<free_codecs(d, Len(d.codecs))>>
      pipelines_exit == <<{pipelines_map}, destroy_pipelines(d, Len(d.pipelines))>> \o codecs_exit
      partitions_exit == <<free_partitions(d, Len(d.partitions))>> \o pipelines_exit
  IN Within(initialize_pipelines(d), codecs_exit)
     \o Within(initialize_partitions(d), pipelines_exit)
     \o Within(initialize_pipeline_selector(d), partitions_exit)

(* What place 0 of the array owns once pipeline0 is there: the names, the  *)
(* contexts, the part and the arrays of a structure that is not on the     *)
(* heap.  Its table of spans is Daemon's.                                  *)
pipeline0_statics == {<<"pipeline0", 0, k>> : k \in 1 .. 8}

destroy_nand_pipeline_scheme(d) ==
  <<free_partitions(d, Len(d.partitions)), {pipelines_map},
    pipeline0_statics \cup destroy_pipelines(d, Len(d.pipelines)),
    free_codecs(d, Len(d.codecs))>>

thread_priv_teardown(d) == destroy_nand_pipeline_scheme(d) \o <<{thread_priv}>>
=============================================================================
