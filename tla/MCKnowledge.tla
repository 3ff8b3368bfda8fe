----------------------------- MODULE MCKnowledge -----------------------------
(***************************************************************************)
(* Two overlapping commands and three edits: a snapshot can be two         *)
(* versions behind the one that its client names.                          *)
(***************************************************************************)
EXTENDS Knowledge
===============================================================================
