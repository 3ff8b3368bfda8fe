------------------------------- MODULE MCAiQuota -------------------------------
(***************************************************************************)
(* Three connections share a bucket of two tokens that refills one in two  *)
(* ticks, over five ticks: enough to drain it, to refill part of a token,  *)
(* to hit the brim, and for one UPDATE to overtake another by several      *)
(* ticks with a third one in between.                                      *)
(***************************************************************************)
EXTENDS AiQuota
================================================================================
