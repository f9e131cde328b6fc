------------------------------ MODULE MCDaemon ------------------------------
(***************************************************************************)
(* Configuration files for Daemon: one that every part accepts, and one    *)
(* for each way in which the parameters of the codecs and the names of the *)
(* objects decide what happens.  Everything else that can be wrong with a  *)
(* file is a choice of the model.                                          *)
(***************************************************************************)
EXTENDS Daemon

Param(key, kind, val) == [key |-> key, kind |-> kind, val |-> val, dropped |-> FALSE]

Steps(n) == Param("steps", "integer", n)
StepSize(n) == Param("step_size", "integer", n)
Mask(n) == Param("byte_pattern", "string", [len |-> n])
Partial(kind, val) == Param("allow_partial_chunk", kind, val)
Byte(n) == Param("byte_pattern", "integer", n)

ham(params) == [name |-> "ecc", type |-> "linux-hamming", params |-> params]
xor(params) == [name |-> "xor", type |-> "xor", params |-> params]
fill(params) == [name |-> "fill", type |-> "memset", params |-> params]

Reader(name, codec) ==
  [name |-> name, layout |-> <<1, 2>>, reads |-> <<codec>>, oob |-> <<TRUE>>,
   writes |-> Nothing, src |-> <<>>]

Writer(name, codecs) ==
  [name |-> name, layout |-> <<1, 2, 1>>, reads |-> <<codecs[1]>>, oob |-> <<FALSE>>,
   writes |-> codecs, src |-> [k \in DOMAIN codecs |-> k = 1]]

Doc(codecs, pipelines, partitions) ==
  [codecs |-> codecs, pipelines |-> pipelines,
   partitions |-> [j \in DOMAIN partitions |-> [name |-> partitions[j]]], single |-> Len(partitions) = 1]

OneCodec(codec) == Doc(<<codec>>, <<Reader("r", 1)>>, <<"all">>)

MCDocs ==
  {Doc(<<ham(<<Steps(2), StepSize(16)>>), xor(<<Mask(4), Partial("bool", TRUE)>>), fill(<<Byte(7)>>)>>,
       <<Reader("r", 1), Writer("w", <<2, 3>>)>>, <<"a", "b">>),
   \* names that occur twice
   Doc(<<ham(<<Steps(1)>>), ham(<<Steps(1)>>)>>, <<Reader("r", 1)>>, <<"all">>),
   Doc(<<xor(<<Mask(2)>>)>>, <<Reader("r", 1), Reader("r", 1)>>, <<"all">>),
   Doc(<<xor(<<Mask(2)>>)>>, <<Reader("r", 1)>>, <<"a", "a">>),
   \* a parameter that occurs twice, one that is dropped, one nobody asks for
   OneCodec(ham(<<Steps(1), Steps(2)>>)),
   OneCodec(ham(<<Steps(4), [StepSize(16) EXCEPT !.dropped = TRUE], Param("stepsize", "integer", 9)>>)),
   OneCodec(fill(<<Byte(7), Param("big_endian", "bool", TRUE)>>)),
   \* no parameters, a type that is not known, a required parameter missing
   OneCodec(xor(Nothing)),
   OneCodec([name |-> "ecc", type |-> "bch", params |-> <<Steps(1)>>]),
   OneCodec(ham(<<StepSize(16)>>)),
   \* numbers at the limits of the OOB area, of a size_t and of an int
   OneCodec(ham(<<Steps(5)>>)), OneCodec(ham(<<Steps(86)>>)),
   OneCodec(ham(<<Steps(2 * IntMax + 3)>>)), OneCodec(ham(<<Steps(IntMax + 1)>>)),
   OneCodec(ham(<<Steps(0)>>)), OneCodec(ham(<<Steps(1), StepSize(17)>>)),
   \* masks: empty, of an odd length, followed by a parameter of the wrong type
   OneCodec(xor(<<Mask(0)>>)), OneCodec(xor(<<Mask(3)>>)), OneCodec(xor(<<Mask(2), Partial("integer", 1)>>)),
   \* a codec that cannot read
   OneCodec(fill(<<Byte(7)>>))}
=============================================================================
