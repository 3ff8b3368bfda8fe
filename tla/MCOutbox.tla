------------------------------- MODULE MCOutbox -------------------------------
(***************************************************************************)
(* Batches of two, two rows in all, so that a row can stand behind another *)
(* in a batch or be appended while one is out; two replicas; two instants, *)
(* so that two rows can be stamped as they commit, against it, or alike.   *)
(***************************************************************************)
EXTENDS Outbox
===============================================================================
