------------------------------ MODULE MCAskAiSaga ------------------------------
(***************************************************************************)
(* One question on a wallet that can or cannot pay for it, while direct    *)
(* spends eat into it, and two replicas: one may sweep the hold, or run    *)
(* its compensation from a claim it has lost, while the saga or the other  *)
(* replica settles it.                                                     *)
(***************************************************************************)
EXTENDS AskAiSaga
================================================================================
