----------------------- MODULE MCAdministratorSecurity -----------------------
(* Two administrators, each with a session and a request, one of them or a    *)
(* third party signing in, and a configuration call.  Two changes are an      *)
(* account disabled and enabled again, two administrators who change each     *)
(* other, or a token issued and withdrawn.                                    *)
EXTENDS AdministratorSecurity, TLC

Symmetry ==
  Permutations(Administrators) \union Permutations(Sessions) \union Permutations(Requests)
=============================================================================
