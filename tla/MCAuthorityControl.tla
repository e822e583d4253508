------------------------- MODULE MCAuthorityControl --------------------------
(***************************************************************************)
(* Instances of AuthorityControl for TLC: two or three handlers.  Handlers *)
(* are interchangeable, so safety runs use their symmetry.                 *)
(***************************************************************************)
EXTENDS AuthorityControl, TLC

CallerSymmetry == Permutations(Callers)

=============================================================================
