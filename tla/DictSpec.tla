------------------------------ MODULE DictSpec ------------------------------
(***************************************************************************)
(* What a hash table promises its callers: a dictionary.  An insertion or  *)
(* a deletion returns the value it replaced or removed, an insertion may   *)
(* report that memory ran out and then changes nothing, and no operation   *)
(* has a visible effect on another key.                                    *)
(***************************************************************************)
EXTENDS Naturals

CONSTANTS Keys, Vals, NoVal

VARIABLES dict,  \* the dictionary, a function from some keys to values
          ret,   \* what the last operation returned
          oom    \* the last insertion ran out of memory

vars == <<dict, ret, oom>>

Lookup(k) == IF k \in DOMAIN dict THEN dict[k] ELSE NoVal

Init == dict = [k \in {} |-> NoVal] /\ ret = NoVal /\ oom = FALSE

Set(k, v) ==
  /\ dict' = [x \in DOMAIN dict \cup {k} |-> IF x = k THEN v ELSE dict[x]]
  /\ ret' = Lookup(k) /\ oom' = FALSE

SetFails == ret' = NoVal /\ oom' = TRUE /\ UNCHANGED dict

Get(k) == ret' = Lookup(k) /\ UNCHANGED <<dict, oom>>

Delete(k) ==
  /\ dict' = [x \in DOMAIN dict \ {k} |-> dict[x]]
  /\ ret' = Lookup(k) /\ oom' = FALSE

Clear == dict' = [k \in {} |-> NoVal] /\ UNCHANGED <<ret, oom>>

Next == \/ \E k \in Keys, v \in Vals : Set(k, v)
        \/ SetFails
        \/ \E k \in Keys : Get(k) \/ Delete(k)
        \/ Clear

Spec == Init /\ [][Next]_vars
=============================================================================
