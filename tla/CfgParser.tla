----------------------------- MODULE CfgParser -----------------------------
(***************************************************************************)
(* parse_config_file and destroy_cfg_scheme: how the JSON document becomes *)
(* g_cfg_scheme, and what each of the many error exits of file_parser.c,   *)
(* objs/codec.c, objs/pipeline.c and objs/partition.c frees.               *)
(*                                                                         *)
(* A document is known by its shape: the parameters of its codecs, the     *)
(* number of layout parts and codec specifiers of its pipelines, which     *)
(* optional members are there.  A member that is missing, malformed or of  *)
(* the wrong type is a step that fails.                                    *)
(***************************************************************************)
EXTENDS Unwind

CONSTANT Nothing   \* an optional member that is left out

(* json_decref deletes the whole tree.  node is the value of a member that *)
(* should have been a string.                                              *)
root == <<"json.root", 0, 0>>
node == <<"json.node", 0, 0>>

(* get_json_string_by_key gives back a borrowed reference when the member  *)
(* is not a string.                                                        *)
get_json_string_by_key(exit) ==
  [Step EXCEPT !.fail = [k \in {"refused", "type"} |-> IF k = "type" THEN <<{node}>> \o exit ELSE exit]]

(* strdup's result is used before it is tested. *)
create_string_param(obj) == [Step EXCEPT !.get = {obj}, !.crash = TRUE]

-----------------------------------------------------------------------------
(* Codecs.  A parameter is [key, kind, val, dropped]; dropped are those     *)
(* that append_pair_to_dict refuses or has no memory for, which            *)
(* parse_special_params does not notice.                                   *)

codec_name(i) == <<"codec.name", i, 0>>
codec_type(i) == <<"codec.type", i, 0>>
dict(i) == <<"dict", i, 0>>
pair(i, j) == <<"pair", i, j>>

(* Those of the first n parameters that are appended. *)
Appended(params, n) == {j \in 1 .. n : ~params[j].dropped}

KeyTaken(params, j) == \E m \in Appended(params, j - 1) : params[m].key = params[j].key

(* The pairs in the dictionary after the first n parameters, and those     *)
(* among them that were freed because their key was there already.         *)
DictPairs(params, n) ==
  {j \in Appended(params, n) : \A m \in Appended(params, n) : m > j => params[m].key # params[j].key}

Dangling(params) == {j \in DictPairs(params, Len(params)) : KeyTaken(params, j)}

destroy_dict(i, params, n) ==
  {dict(i)} \cup {pair(i, j) : j \in DictPairs(params, n)}

(* A pair whose key was there already is freed although it is in the table *)
(* now, and the one it replaced is lost.                                   *)
append_pair_to_dict(i, params, j) ==
  [Step EXCEPT !.get = IF KeyTaken(params, j) THEN {} ELSE {pair(i, j)}, !.crash = TRUE]

parse_special_params(i, params) ==
  <<Need(<<>>), Get({dict(i)}, <<>>)>>
  \o Loop([j \in DOMAIN params |->
       When(~params[j].dropped,
            <<get_json_string_by_key(<<destroy_dict(i, params, j - 1)>>),
              append_pair_to_dict(i, params, j)>>)])

add_codec(i, c) ==
  <<get_json_string_by_key(<<>>),
    create_string_param(codec_name(i)),
    create_string_param(codec_type(i))>>
  \o When(c.params # Nothing,
          Within(parse_special_params(i, c.params), <<{codec_type(i)}, {codec_name(i)}>>))

cfg_codec_destroy(i, c) ==
  <<{codec_name(i)}, {codec_type(i)}>>
  \o When(c.params # Nothing, <<destroy_dict(i, c.params, Len(c.params))>>)

-----------------------------------------------------------------------------
(* Pipelines.  p.layout is the sequence of the spans of its parts, p.reads  *)
(* and p.writes name the codecs of its specifiers; a pipeline that cannot   *)
(* write has Nothing for p.writes.  p.oob and p.src say which specifiers    *)
(* have their optional range.                                              *)

Str(what, i, j) == create_string_param(<<what, i, j>>)

parse_range(what, i, j) == <<get_json_string_by_key(<<>>), Str(what, i, j)>>

destroy_layout_part(i, k) == {<<"part_name", i, k>>, <<"span_name", i, k>>}

destroy_layout_parts_below(i, n) == UNION {destroy_layout_part(i, k) : k \in 1 .. n}

create_page_layout(i, p) ==
  <<Need(<<>>), Get({<<"parts", i, 0>>}, <<>>)>>
  \o Loop([k \in DOMAIN p.layout |->
       <<get_json_string_by_key(<<destroy_layout_parts_below(i, k - 1), {<<"parts", i, 0>>}>>),
         Str("part_name", i, k), Str("span_name", i, k)>>])

(* The array of the parts stays behind. *)
destroy_page_layout(i, p) == destroy_layout_parts_below(i, Len(p.layout))

read_oob(i, p, k) == IF p.oob[k] THEN {<<"read.oob", i, k>>} ELSE {}

parse_read_codec_specifier(i, p, k) ==
  <<get_json_string_by_key(<<>>)>>
  \o When(p.oob[k], parse_range("read.oob", i, k))
  \o Within(parse_range("read.data", i, k), <<read_oob(i, p, k)>>)
  \o <<Str("read.name", i, k)>>

destroy_read_codec_specifiers(i, p, n) ==
  UNION {{<<"read.data", i, k>>, <<"read.name", i, k>>} \cup read_oob(i, p, k) : k \in 1 .. n}

add_read_codecs(i, p) ==
  <<Need(<<>>), Get({<<"read.objs", i, 0>>}, <<>>)>>
  \o Loop([k \in DOMAIN p.reads |->
       Within(parse_read_codec_specifier(i, p, k), <<destroy_read_codec_specifiers(i, p, k - 1)>>)])

write_src(i, p, k) == IF p.src[k] THEN {<<"write.src", i, k>>, <<"write.src_span", i, k>>} ELSE {}

parse_write_codec_specifier(i, p, k) ==
  <<get_json_string_by_key(<<>>)>>
  \o When(p.src[k], <<Get({<<"write.src", i, k>>}, <<>>)>>
                    \o Within(parse_range("write.src_span", i, k), <<{<<"write.src", i, k>>}>>))
  \o Within(parse_range("write.dest", i, k), <<write_src(i, p, k)>>)
  \o <<Str("write.name", i, k)>>

destroy_write_codec_specifiers(i, p, n) ==
  UNION {{<<"write.dest", i, k>>, <<"write.name", i, k>>} \cup write_src(i, p, k) : k \in 1 .. n}

add_write_codecs(i, p) ==
  <<Need(<<>>), Get({<<"write.objs", i, 0>>}, <<>>)>>
  \o Loop([k \in DOMAIN p.writes |->
       Within(parse_write_codec_specifier(i, p, k), <<destroy_write_codec_specifiers(i, p, k - 1)>>)])

mapping_strings(what, i) == {<<what, i, 1>>, <<what, i, 2>>}

add_span_mappings(what, i) == <<get_json_string_by_key(<<>>), Str(what, i, 1), Str(what, i, 2)>>

(* The labels of add_pipeline, from the last to the first.  free_layout is *)
(* also where a failure in the read mappings goes.                         *)
add_pipeline(i, p) ==
  LET free_name == <<{<<"pipeline.name", i, 0>>}>>
      free_layout == <<destroy_page_layout(i, p)>> \o free_name
      destroy_read_codecs == <<destroy_read_codec_specifiers(i, p, Len(p.reads))>> \o free_layout
      free_write_codecs == <<{<<"write", i, 0>>}>> \o destroy_read_codecs
      destroy_write_codecs ==
        <<destroy_write_codec_specifiers(i, p, Len(p.writes))>> \o free_write_codecs
      free_write_mappings == <<{<<"mappings", i, 0>>}>> \o destroy_write_codecs
  IN <<get_json_string_by_key(<<>>), create_string_param(<<"pipeline.name", i, 0>>)>>
     \o Within(create_page_layout(i, p), free_name)
     \o Within(add_read_codecs(i, p), free_layout)
     \o Within(add_span_mappings("read.map", i), free_layout)
     \o When(p.writes # Nothing,
             <<Get({<<"write", i, 0>>}, destroy_read_codecs)>>
             \o Within(add_write_codecs(i, p), free_write_codecs)
             \o <<Get({<<"mappings", i, 0>>}, destroy_write_codecs)>>
             \o Within(add_span_mappings("write.map", i), free_write_mappings))

(* None of the arrays and neither of the two structs for writing. *)
cfg_pipeline_destroy(i, p) ==
  <<{<<"pipeline.name", i, 0>>}>>
  \o When(p.writes # Nothing, <<destroy_write_codec_specifiers(i, p, Len(p.writes))>>)
  \o <<destroy_read_codec_specifiers(i, p, Len(p.reads))>>
  \o When(p.writes # Nothing, <<mapping_strings("write.map", i)>>)
  \o <<mapping_strings("read.map", i), destroy_page_layout(i, p)>>

-----------------------------------------------------------------------------
(* Partitions, and the three sections in their order. *)

partition_strings(i) == {<<"partition.name", i, 0>>, <<"partition.pipeline", i, 0>>}

add_partition(i) ==
  <<get_json_string_by_key(<<>>), Str("partition.name", i, 0), Str("partition.pipeline", i, 0),
    Need(<<partition_strings(i)>>)>>

Sections == <<"codecs", "pipelines", "partitions">>

Items(d, s) == d[Sections[s]]

AddItem(d, s, i) ==
  CASE s = 1 -> add_codec(i, d.codecs[i])
    [] s = 2 -> add_pipeline(i, d.pipelines[i])
    [] s = 3 -> add_partition(i)

DestroyItem(d, s, i) ==
  CASE s = 1 -> cfg_codec_destroy(i, d.codecs[i])
    [] s = 2 -> cfg_pipeline_destroy(i, d.pipelines[i])
    [] s = 3 -> <<partition_strings(i)>>

section_objs(s) == <<"objs", s, 0>>

(* __cfg_*_destroy(objs, n) and the free behind it. *)
DestroyItems(d, s, n) == Loop([i \in 1 .. n |-> DestroyItem(d, s, i)]) \o <<{section_objs(s)}>>

ParseSection(d, s) ==
  <<Need(<<>>), Get({section_objs(s)}, <<>>)>>
  \o Loop([i \in DOMAIN Items(d, s) |-> Within(AddItem(d, s, i), DestroyItems(d, s, i - 1))])

deinit_scheme(d, n) == Loop([s \in 1 .. n |-> DestroyItems(d, s, Len(Items(d, s)))])

parse_root_document(d) == Loop([s \in DOMAIN Sections |-> Within(ParseSection(d, s), deinit_scheme(d, s - 1))])

destroy_cfg_scheme(d) == deinit_scheme(d, Len(Sections))

(* A root that is not an object is not given back. *)
parse_config_file(d) ==
  <<[Get({root, node}, <<>>) EXCEPT !.fail = [k \in {"refused"} |-> <<>>]], Need(<<>>)>>
  \o Within(parse_root_document(d), <<{root, node}>>)
  \o <<Put({root, node})>>

file == <<"file", 0, 0>>

(* With -v the dictionaries are printed, also one that is not there and    *)
(* pairs that were freed.                                                  *)
print_codecs_section(d) ==
  LET unprintable == \E i \in DOMAIN d.codecs : d.codecs[i].params = Nothing \/ Dangling(d.codecs[i].params) # {}
  IN When(unprintable, <<[Step EXCEPT !.crash = TRUE]>>)

create_cfg_scheme(d) ==
  <<[Get({file}, <<>>) EXCEPT !.fail = [k \in {"refused"} |-> <<>>]]>>
  \o Within(parse_config_file(d), <<{file}>>)
  \o print_codecs_section(d)
  \o <<Put({file})>>
=============================================================================
