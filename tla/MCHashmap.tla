----------------------------- MODULE MCHashmap -----------------------------
(* Instances of Hashmap for TLC: four keys, so that a table of four buckets *)
(* grows twice, and hash functions from all-equal to spread out.            *)
EXTENDS Hashmap

MCKeys == {"a", "b", "c", "d"}

H(a, b, c, d) == "a" :> a @@ "b" :> b @@ "c" :> c @@ "d" :> d

MCHashes == {H(3, 3, 3, 3), H(7, 3, 4, 12), H(0, 1, 0, 9)}
=============================================================================
