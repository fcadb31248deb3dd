----------------------------- MODULE MCOrgMembership -----------------------------
(***************************************************************************)
(* TLC instances of OrgMembership.  Nothing tells one id, user, call or    *)
(* organization from another.                                              *)
(***************************************************************************)
EXTENDS OrgMembership, TLC

Symmetric == Permutations(Orgs) \union Permutations(Users) \union Permutations(Ids) \union Permutations(Calls)
==================================================================================
