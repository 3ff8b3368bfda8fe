----------------------------- MODULE MCIdempotency -----------------------------
(***************************************************************************)
(* Three requests under one key that hash alike or not - a request, its    *)
(* retry, another caller's, a different one - all of them free to overlap, *)
(* with two faults.                                                        *)
(***************************************************************************)
EXTENDS Idempotency
================================================================================
