------------------------------ MODULE Hashmap ------------------------------
(***************************************************************************)
(* The hash table of common/hashmap.c under any sequence of calls, with    *)
(* allocations that may fail.  Every component of the daemon keeps its     *)
(* objects in such tables (codecs, pipelines, partitions, spans, codec     *)
(* parameters).  Tables are private to a thread: a call is one step.       *)
(***************************************************************************)
EXTENDS RobinHood

CONSTANTS Keys, Vals,
          Hashes,    \* the hash functions to consider: SipHash of the names
          Caps       \* the values of hashmap_new's cap to consider

(* No item is the one that marks a vacant bucket or stands for NULL, and a  *)
(* hash is a natural number.                                                *)
ASSUME HashmapAssumption ==
  /\ NoKey \notin Keys /\ NoVal \notin Vals
  /\ \A h \in Hashes : h \in [Keys -> Nat]
  /\ \A c \in Caps : c \in Nat

VARIABLES hash,      \* the hash function, never changed
          table,
          ret,       \* what the last call returned, NoVal for NULL
          oom        \* map->oom

vars == <<hash, table, ret, oom>>

Init ==
  /\ hash \in Hashes
  /\ \E c \in Caps : table = hashmap_new(c)
  /\ ret = NoVal /\ oom = FALSE

Set(k, v) ==
  /\ table' = hashmap_set(table, hash, k, v).table
  /\ ret' = hashmap_set(table, hash, k, v).ret
  /\ oom' = FALSE
  /\ UNCHANGED hash

(* The table must grow first and resize0 gets no memory. *)
SetFails(k, v) ==
  /\ MustGrow(table)
  /\ ret' = NoVal /\ oom' = TRUE
  /\ UNCHANGED <<hash, table>>

Get(k) ==
  /\ ret' = hashmap_get(table, hash, k)
  /\ UNCHANGED <<hash, table, oom>>

DeleteMissing(k) ==
  /\ hashmap_get(table, hash, k) = NoVal
  /\ ret' = NoVal /\ oom' = FALSE
  /\ UNCHANGED <<hash, table>>

(* A shrinking resize may fail without notice. *)
Delete(k) ==
  /\ hashmap_get(table, hash, k) # NoVal
  /\ LET removed == DeleteAt(table, ProbeEnd(table.buckets, hash, k))
     IN \/ ~MayShrink(removed) /\ table' = removed
        \/ MayShrink(removed) /\ table' \in {removed, Shrunk(removed, hash)}
  /\ ret' = hashmap_get(table, hash, k) /\ oom' = FALSE
  /\ UNCHANGED hash

(* With update_cap the lower capacity becomes the current one, otherwise   *)
(* the table returns to its lower capacity (also when malloc fails: the    *)
(* old, larger array is then used as one of that size).                    *)
Clear(update_cap) ==
  /\ LET n == IF update_cap THEN NBuckets(table.buckets) ELSE table.cap
     IN table' = [cap |-> n, buckets |-> VacantBuckets(n), count |-> 0]
  /\ UNCHANGED <<hash, ret, oom>>

Next ==
  \/ \E k \in Keys, v \in Vals : Set(k, v) \/ SetFails(k, v)
  \/ \E k \in Keys : Get(k) \/ DeleteMissing(k) \/ Delete(k)
  \/ \E update_cap \in BOOLEAN : Clear(update_cap)

Spec == Init /\ [][Next]_vars

-----------------------------------------------------------------------------
(* Properties *)

Buckets == table.buckets

TypeOK ==
  /\ hash \in Hashes
  /\ ret \in Vals \cup {NoVal} /\ oom \in BOOLEAN
  /\ table.cap \in Nat /\ table.count \in Nat
  /\ \A i \in DOMAIN Buckets :
       Buckets[i] = Vacant
         \/ Buckets[i] \in [dib : 1 .. NBuckets(Buckets), key : Keys, val : Vals]

(***************************************************************************)
(* The Robin Hood invariant: dib is the distance from the home bucket, and *)
(* no item is more than one step further from home than the item before    *)
(* it.  All lookups rest on it: a lookup of a stored key meets no vacancy. *)
(***************************************************************************)
RobinHoodOrder ==
  \A i \in Occupied(Buckets) :
    LET n == NBuckets(Buckets)
        before == Buckets[(i + n - 1) % n]
    IN /\ Buckets[i].dib = ((i + n - Home(hash, Buckets, Buckets[i].key)) % n) + 1
       /\ Buckets[i].dib <= before.dib + 1

(* The "while (1)" loops end: there is always a vacant bucket, because the *)
(* table is never beyond its load limit, also when it was refused memory   *)
(* to grow or has shrunk.                                                  *)
ProbesEnd ==
  /\ Occupied(Buckets) # DOMAIN Buckets
  /\ table.count <= growat(NBuckets(Buckets))

(* hashmap_count counts the items, each key is stored once, and a scan     *)
(* passes every item exactly once.                                         *)
ScanMeetsEachOnce ==
  /\ table.count = Cardinality(Occupied(Buckets))
  /\ table.count = Len(hashmap_scan(table))
  /\ \A d, f \in 1 .. Len(hashmap_scan(table)) :
       hashmap_scan(table)[d] = hashmap_scan(table)[f] => d = f

(* Deletions never shrink the table below the lower capacity that the      *)
(* caller asked for or that a clear with update_cap has fixed.             *)
NeverBelowCap == NBuckets(Buckets) >= table.cap

(* The table behaves as a dictionary through growth, shrinking, clearing   *)
(* and allocations that fail.                                              *)
D == INSTANCE DictSpec WITH dict <- Contents(table)

ImplementsDict == D!Spec
=============================================================================
