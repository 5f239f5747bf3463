------------------------------ MODULE MCAdmin ------------------------------
(* Small instances of AdminModels. *)
EXTENDS AdminProperties, TLC

Symmetric == Permutations(ModelIds) \cup Permutations(Editors)
=============================================================================
