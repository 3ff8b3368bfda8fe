-------------------------- MODULE MCSagaCompensation --------------------------
(***************************************************************************)
(* Two replicas, two failed compensations, two attempts each and one       *)
(* fault: a replica may lose its claim while the other works, or a fault   *)
(* may hit the row being marked with another one behind it.                *)
(***************************************************************************)
EXTENDS SagaCompensation
===============================================================================
