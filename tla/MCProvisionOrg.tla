---------------------------- MODULE MCProvisionOrg ----------------------------
(***************************************************************************)
(* A request and its retry with the same key, both compensations of each,  *)
(* two interchangeable replicas and two faults: the reply of CreateOrg is  *)
(* lost, an attempt dies before its retry or succeeds and is sent again    *)
(* when its key has expired, a compensation fails and runs again from its  *)
(* row, by two replicas if one is slow, behind the retry.                  *)
(***************************************************************************)
EXTENDS ProvisionOrg, TLC

MCRows == Attempts \X Undoings

Symmetry == Permutations(Reapers)
================================================================================
