---------------------------- MODULE CodecParams ----------------------------
(***************************************************************************)
(* How a codec's parameters are taken from its dictionary: the tables of   *)
(* parsers of the three codecs, parse_codec_entries with its array of      *)
(* handlers and its revert, and the checks behind it.  The steps that do   *)
(* not depend on memory alone are decided by the parameters themselves.    *)
(***************************************************************************)
EXTENDS CfgParser, Integers, FiniteSets

CONSTANTS IntMax,     \* largest int
          SizeMax,    \* largest size_t
          ByteMax,    \* largest byte
          StepSizes,  \* sizes of an ECC step
          OobSize     \* flash_oob_size

ASSUME ParamsAssumption ==
  /\ IntMax \in Nat
  /\ SizeMax \in Nat
  /\ ByteMax \in Nat
  /\ StepSizes \subseteq Nat
  /\ OobSize \in Nat

Parser(key, required, type) == [key |-> key, required |-> required, type |-> type]

hamming_parsers ==
  <<Parser("steps", TRUE, "unsigned"), Parser("step_size", FALSE, "unsigned"),
    Parser("big_endian", FALSE, "bool"), Parser("smart_media_order", FALSE, "bool")>>

xor_parsers == <<Parser("byte_pattern", TRUE, "string"), Parser("allow_partial_chunk", FALSE, "bool")>>

memset_parsers == <<Parser("byte_pattern", TRUE, "unsigned")>>

(* s_initializers: a type that is not there is not found. *)
parsers ==
  [type \in {"linux-hamming", "xor", "memset"} |->
     CASE type = "linux-hamming" -> hamming_parsers
       [] type = "xor" -> xor_parsers
       [] type = "memset" -> memset_parsers]

(* json_integer_value is 64 bits wide, the field it is stored in is an int. *)
narrow(v) ==
  LET range == 2 * (IntMax + 1)
      low == v % range
  IN IF low > IntMax THEN low - range ELSE low

-----------------------------------------------------------------------------
(* The dictionary as the codec finds it. *)

Table(params) == {params[j] : j \in DictPairs(params, Len(params))}

Has(params, parser) == \E p \in Table(params) : p.key = parser.key

Pair(params, parser) == CHOOSE p \in Table(params) : p.key = parser.key

(* The value a handler is given.  Of a string only the length matters: the *)
(* test of convert_hex_char_nibble_to_number joins its bounds with ||, so  *)
(* that every character passes for a hexadecimal digit.                    *)
Value(params, parser) ==
  IF parser.type = "unsigned" THEN narrow(Pair(params, parser).val) ELSE Pair(params, parser).val

(* parse_value: an unsigned parameter is an integer that is not negative   *)
(* once it is stored.                                                      *)
TypeMatches(params, parser) ==
  IF parser.type = "unsigned"
  THEN Pair(params, parser).kind = "integer" /\ Value(params, parser) >= 0
  ELSE Pair(params, parser).kind = parser.type

(* Mutated: no steps are steps enough. *)
handle_steps_entryAcceptsZero(steps) == 3 * steps <= SizeMax

handle_steps_entry(steps) == steps # 0 /\ 3 * steps <= SizeMax

handle_step_size_entry(step_size) == step_size \in StepSizes

handle_mask_entry(str) == str.len % 2 = 0

handle_byte_pattern_entry(byte) == byte <= ByteMax

Handles(type, parser, v) ==
  CASE parser.key = "steps" -> handle_steps_entry(v)
    [] parser.key = "step_size" -> handle_step_size_entry(v)
    [] parser.key = "byte_pattern" /\ type = "xor" -> handle_mask_entry(v)
    [] parser.key = "byte_pattern" /\ type = "memset" -> handle_byte_pattern_entry(v)
    [] OTHER -> TRUE

parse_value(c, parser) ==
  /\ TypeMatches(c.params, parser)
  /\ Handles(c.type, parser, Value(c.params, parser))

-----------------------------------------------------------------------------
codec_priv(i) == <<"codec.priv", i, 0>>
codec_mask(i) == <<"codec.mask", i, 0>>
ordered_entries(i) == <<"ordered_entries", i, 0>>

(* Only the mask of the xor codec has something to revert. *)
OwnsMask(c, n) == c.type = "xor" /\ n = 1

(* Mutated: the loop starts behind the first entry. *)
do_revert_entriesOffByOne(i, c, n) ==
  {codec_mask(i) : m \in {m \in 2 .. n - 1 : OwnsMask(c, m) /\ Has(c.params, parsers[c.type][m])}}

do_revert_entries(i, c, n) ==
  {codec_mask(i) : m \in {m \in 1 .. n - 1 : OwnsMask(c, m) /\ Has(c.params, parsers[c.type][m])}}

(* A dictionary is counted, not searched, for parameters nobody asks for. *)
parse_codec_entries(i, c) ==
  LET ps == parsers[c.type]
      lacking == \E n \in DOMAIN ps : ps[n].required /\ ~Has(c.params, ps[n])
      entry(n) ==
        CASE ~Has(c.params, ps[n]) -> <<>>
          [] Has(c.params, ps[n]) /\ ~parse_value(c, ps[n]) ->
               <<Refuse(<<do_revert_entries(i, c, n), {ordered_entries(i)}>>)>>
          [] Has(c.params, ps[n]) /\ parse_value(c, ps[n]) /\ OwnsMask(c, n) ->
               <<Get({codec_mask(i)}, <<{ordered_entries(i)}>>)>>
          [] OTHER -> <<>>
  IN When(Cardinality(Table(c.params)) > Len(ps), <<Refuse(<<>>)>>)
     \o <<Get({ordered_entries(i)}, <<>>)>>
     \o When(lacking, <<Refuse(<<{ordered_entries(i)}>>)>>)
     \o When(~lacking, Loop([n \in DOMAIN ps |-> entry(n)]))
     \o <<Put({ordered_entries(i)})>>

(* The product is a size_t. *)
validate_mtd_page_size_against_ecc_steps(c) ==
  (3 * Value(c.params, hamming_parsers[1])) % (SizeMax + 1) <= OobSize

(* init_hamming_codec, init_xor_codec and init_memset_codec.  No exit      *)
(* frees the private data.  Without params there is no table to count;     *)
(* keys that were freed are compared all the same.                         *)
init_codec(i, c) ==
  IF c.params = Nothing
  THEN <<Get({codec_priv(i)}, <<>>), Crash>>
  ELSE LET steps == parse_codec_entries(i, c)
           accepted == \A n \in DOMAIN steps : ~steps[n].sure
       IN <<Get({codec_priv(i)}, <<>>)>>
          \o When(Dangling(c.params) # {}, <<[Need(<<>>) EXCEPT !.crash = TRUE]>>)
          \o steps
          \o When(c.type = "linux-hamming" /\ accepted /\ ~validate_mtd_page_size_against_ecc_steps(c),
                  <<Refuse(<<>>)>>)

initialize_codec_internals(i, c) ==
  IF c.type \in DOMAIN parsers THEN init_codec(i, c) ELSE <<Refuse(<<>>)>>
=============================================================================
