------------------------------ MODULE MCEngagement ------------------------------
(***************************************************************************)
(* Two users, two items and two connections, three commands: two rows to   *)
(* page through and a third command that moves them; a follow and an       *)
(* unfollow that overlap after a first follow; votes of both users that    *)
(* come, change and go between the statements of a summary.  Users, items  *)
(* and connections are interchangeable.                                    *)
(***************************************************************************)
EXTENDS Engagement

Symmetry == Permutations(Users) \cup Permutations(Items) \cup Permutations(Connections)
================================================================================
