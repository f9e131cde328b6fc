------------------------------- MODULE Unwind -------------------------------
(***************************************************************************)
(* Functions that acquire things one after the other and, when one step    *)
(* fails, release by hand what the goto labels behind the exit say.  Such  *)
(* a function is a sequence of steps; a caller's steps contain its         *)
(* callee's, with the caller's own labels behind every exit.               *)
(*                                                                         *)
(* An object on the heap is <<what, i, j>>: a field of the source's        *)
(* structs and up to two indices.                                          *)
(***************************************************************************)
EXTENDS Naturals, SequencesExt

(* The heap of one owner: what is allocated, and what was handed to free   *)
(* without being allocated (freed before, or never on the heap).           *)
EmptyHeap == [live |-> {}, bad |-> {}]

malloc(h, objs) == [h EXCEPT !.live = @ \cup objs]

free(h, objs) == [live |-> h.live \ objs, bad |-> h.bad \cup (objs \ h.live)]

(* The labels of an exit, in the order in which they are fallen through;   *)
(* what two of them free is freed twice.                                   *)
FreeInOrder(h, exit) ==
  LET all == UNION {exit[n] : n \in DOMAIN exit}
      again == UNION {IF n < m THEN exit[n] \cap exit[m] ELSE {} : n \in DOMAIN exit, m \in DOMAIN exit}
  IN [live |-> h.live \ all, bad |-> h.bad \cup (all \ h.live) \cup again]

(***************************************************************************)
(* A step: get is allocated and put is freed when it succeeds; every       *)
(* element of DOMAIN fail is a way to fail, and fail says what is freed    *)
(* then; crash says that it may dereference NULL, divide by 0 or read      *)
(* freed memory; sure says that it cannot succeed.                         *)
(***************************************************************************)
Step == [get |-> {}, put |-> {}, fail |-> [k \in {} |-> <<>>], crash |-> FALSE, sure |-> FALSE]

Get(objs, exit) == [Step EXCEPT !.get = objs, !.fail = [k \in {"oom"} |-> exit]]

Need(exit) == [Step EXCEPT !.fail = [k \in {"refused"} |-> exit]]

Refuse(exit) == [Need(exit) EXCEPT !.sure = TRUE]

Put(objs) == [Step EXCEPT !.put = objs]

Crash == [Step EXCEPT !.crash = TRUE, !.sure = TRUE]

(* The steps of a function whose caller has the labels of outer. *)
Within(steps, outer) ==
  [n \in DOMAIN steps |->
     [steps[n] EXCEPT !.fail = [k \in DOMAIN steps[n].fail |-> steps[n].fail[k] \o outer]]]

(* The steps of a loop, one sequence per iteration. *)
Loop(rounds) == FlattenSeq(rounds)

When(cond, steps) == IF cond THEN steps ELSE <<>>

(* The heap before step n of a function that is called with heap h; no     *)
(* object is acquired twice on the way.                                    *)
Before(h, steps, n) ==
  free(malloc(h, UNION {steps[m].get : m \in 1 .. n - 1}), UNION {steps[m].put : m \in 1 .. n - 1})

(* Everything that running the steps from heap h can end with: rc "ok", a  *)
(* way to fail or "crash", and the step at which it was decided.           *)
Outcomes(h, steps) ==
  LET reached == {n \in 1 .. Len(steps) + 1 : \A m \in 1 .. n - 1 : ~steps[m].sure}
      end(n, h1, how) == [at |-> n, heap |-> h1, rc |-> how]
      failed(n) ==
        {end(n, FreeInOrder(Before(h, steps, n), steps[n].fail[k]), k) : k \in DOMAIN steps[n].fail}
      crashed(n) == IF steps[n].crash THEN {end(n, Before(h, steps, n), "crash")} ELSE {}
  IN (UNION {failed(n) \cup crashed(n) : n \in reached \cap DOMAIN steps})
     \cup {end(0, Before(h, steps, n), "ok") : n \in reached \ DOMAIN steps}

(* The items a hash table refers to after the first n insertions of items  *)
(* with these keys: hashmap_set replaces an item with the same key.        *)
InTable(keys, n) == {j \in 1 .. n : \A m \in j + 1 .. n : keys[m] # keys[j]}

Occurs(keys, n) == \E m \in 1 .. n - 1 : keys[m] = keys[n]
=============================================================================
