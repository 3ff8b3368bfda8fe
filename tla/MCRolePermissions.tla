-------------------------- MODULE MCRolePermissions --------------------------
(***************************************************************************)
(* Two editors and two readers over two permissions: overlapping edits can *)
(* grant disjoint sets, and one reader can fill over what another filled.  *)
(***************************************************************************)
EXTENDS RolePermissions
===============================================================================
