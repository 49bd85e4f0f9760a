------------------------------ MODULE MCCache ------------------------------
(***************************************************************************)
(* Instances of Cache for TLC.                                             *)
(***************************************************************************)
EXTENDS Cache, TLC

BothKinds == {"redis", "local"}
LocalOnly == {"local"}
AllModes == {"never", "always", "limited"}
NeverOnly == {"never"}

Symmetry == Permutations(Callers) \union Permutations(Keys)

=============================================================================
