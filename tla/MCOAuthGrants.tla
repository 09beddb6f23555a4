--------------------------- MODULE MCOAuthGrants ---------------------------
(* Model values and symmetry for the runs of OAuthGrants. *)
EXTENDS OAuthGrants, TLC

CONSTANTS g1, g2, u1, u2

Symmetry == Permutations(Grants) \union Permutations(Redirects)
=============================================================================
