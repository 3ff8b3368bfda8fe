-------------------------------- MODULE EventLog --------------------------------
(***************************************************************************)
(* What the outbox promises to everybody who announces facts through it,   *)
(* with no polls, claims, batches or replicas in sight: a fact is written  *)
(* once, arrives at the broker after it was written, is done with only     *)
(* after it arrived, and is deleted only while it is done with.  That it   *)
(* is done with may be taken back (a late failure of another claimant),    *)
(* that it arrived or was deleted may not.  Outbox implements this module. *)
(***************************************************************************)
EXTENDS Naturals, Sequences

CONSTANT Streams  \* the partition keys

VARIABLES
  written,  \* the stream of each fact, in the order they were written
  arrived,  \* facts in the order of their first arrival at the broker
  done,     \* facts nobody intends to send any more
  gone      \* facts that were deleted

lvars == <<written, arrived, done, gone>>

Received == {arrived[n] : n \in DOMAIN arrived}

Init ==
  /\ written = <<>>
  /\ arrived = <<>>
  /\ done = {}
  /\ gone = {}

Write(k) ==
  /\ written' = Append(written, k)
  /\ UNCHANGED <<arrived, done, gone>>

Deliver(i) ==
  /\ i \notin Received
  /\ arrived' = Append(arrived, i)
  /\ UNCHANGED <<written, done, gone>>

Settle(i) ==
  /\ i \in Received \ done
  /\ done' = done \cup {i}
  /\ UNCHANGED <<written, arrived, gone>>

Reopen(i) ==
  /\ i \in done \ gone
  /\ done' = done \ {i}
  /\ UNCHANGED <<written, arrived, gone>>

Forget(old) ==
  /\ old \subseteq done
  /\ gone' = gone \cup old
  /\ UNCHANGED <<written, arrived, done>>

Next ==
  \/ \E k \in Streams : Write(k)
  \/ \E i \in DOMAIN written : Deliver(i) \/ Settle(i) \/ Reopen(i)
  \/ \E old \in SUBSET done : Forget(old)

Spec == Init /\ [][Next]_lvars
=================================================================================
