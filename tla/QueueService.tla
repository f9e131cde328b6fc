---------------------------- MODULE QueueService ----------------------------
(***************************************************************************)
(* What the daemon promises the kernel module about its request queues:    *)
(* they are opened together, none is closed before somebody asked the      *)
(* daemon to stop, and the service ends once it was asked to.              *)
(***************************************************************************)
CONSTANT Queues

VARIABLES phase,    \* "opening", "open", "closing" or "ended"
          serving,  \* the queues that are being served
          asked     \* somebody asked the daemon to stop

vars == <<phase, serving, asked>>

Init == phase = "opening" /\ serving = {} /\ asked = FALSE

Serve(q) == phase = "opening" /\ q \notin serving /\ serving' = serving \cup {q} /\ UNCHANGED <<phase, asked>>

Open == phase = "opening" /\ serving = Queues /\ phase' = "open" /\ UNCHANGED <<serving, asked>>

(* Starting can be given up at any time. *)
Close == (phase = "opening" \/ (phase = "open" /\ asked)) /\ phase' = "closing" /\ UNCHANGED <<serving, asked>>

Leave(q) == phase = "closing" /\ q \in serving /\ serving' = serving \ {q} /\ UNCHANGED <<phase, asked>>

Ask == ~asked /\ phase # "ended" /\ asked' = TRUE /\ UNCHANGED <<phase, serving>>

End == phase \in {"opening", "closing"} /\ serving = {} /\ phase' = "ended" /\ UNCHANGED <<serving, asked>>

(* The process is gone, and its queues with it. *)
Die == phase # "ended" /\ phase' = "ended" /\ serving' = {} /\ UNCHANGED asked

Next ==
  \/ \E q \in Queues : Serve(q) \/ Leave(q)
  \/ Open \/ Close \/ Ask \/ End \/ Die

(* Opening and closing come to an end, and so does the service once asked. *)
Settles == phase \in {"opening", "closing"} ~> phase \in {"open", "ended"}

Stops == asked ~> phase = "ended"

Spec == Init /\ [][Next]_vars /\ Settles /\ Stops
=============================================================================
