--------------------------- MODULE MCRefreshTokens ---------------------------
(* A small instance of RefreshTokens for TLC. *)
EXTENDS RefreshTokens, TLC

CONSTANTS u1, u2, f1, f2

\* Two logins, of one user each.
MCOwnerOf == f1 :> u1 @@ f2 :> u2

Symmetry == Permutations(Token) \cup Permutations(Request)
=============================================================================
