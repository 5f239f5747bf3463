------------------------------- MODULE MCKeys -------------------------------
(* A small instance of KeyAcl beside two editors. *)
EXTENDS KeyProperties, TLC

Symmetric == Permutations(Editors) \cup Permutations(Secrets)
=============================================================================
