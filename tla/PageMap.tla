------------------------------ MODULE PageMap ------------------------------
(***************************************************************************)
(* What the pipeline selector promises (the comment at scheme.c:1877 calls *)
(* it "the heart of the program"): a daemon that starts serving has a      *)
(* configuration whose partitions share no page, and it hands every        *)
(* request for a page to the pipeline of the partition that owns the page. *)
(* With page ranges that fit an eraseblock the partitions also lie inside  *)
(* the flash, and a page without an owner goes to the NACK pipeline.  The  *)
(* daemon may refuse to start.  Nothing is said about arrays, strategies,  *)
(* the hash table's order or how many scans it takes.                      *)
(***************************************************************************)
EXTENDS FlashMap

CONSTANTS Configs,   \* the configurations the daemon may be started with
          NoRequest  \* the value of sel before the first request

VARIABLES cfg,       \* the configuration, never changed
          status,    \* "starting", "serving" or "refused"
          sel        \* the last request and the pipeline it was handed to

vars == <<cfg, status, sel>>

Init == /\ cfg \in Configs
        /\ status = "starting"
        /\ sel = NoRequest

Start == /\ status = "starting"
         /\ Disjoint(cfg) /\ (PagesFit(cfg) => Inside(cfg))
         /\ status' = "serving"
         /\ UNCHANGED <<cfg, sel>>

Refuse == /\ status = "starting"
          /\ status' = "refused"
          /\ UNCHANGED <<cfg, sel>>

Request(e, p) ==
  /\ status = "serving"
  /\ \E i \in 0 .. Len(cfg.pipelines) :
       /\ Owner(cfg, e, p) # NACK \/ PagesFit(cfg) => i = Owner(cfg, e, p)
       /\ sel' = [eraseblock |-> e, page |-> p, pipeline |-> i]
  /\ UNCHANGED <<cfg, status>>

Next == \/ Start
        \/ Refuse
        \/ \E e \in 0 .. cfg.sectors - 1, p \in 0 .. cfg.pagesPerSector - 1 : Request(e, p)

Spec == Init /\ [][Next]_vars
=============================================================================
