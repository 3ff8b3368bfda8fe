----------------------------- MODULE MCMemberships -----------------------------
(***************************************************************************)
(* The founder and two other users, two invites, two connections, three    *)
(* requests after a start with any members and invites: a role change and  *)
(* a change of permissions between the two reads of a guard; two accepts   *)
(* of one invite, or of one user with a role change in between; the        *)
(* demotion of the founder and what can be done after it.                  *)
(***************************************************************************)
EXTENDS Memberships, TLC

Symmetry == Permutations(Tokens) \cup Permutations(Users \ {Founder})
================================================================================
