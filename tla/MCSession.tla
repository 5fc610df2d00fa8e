----------------------------- MODULE MCSession -----------------------------
(* Symmetry for model checking Session.                                     *)
EXTENDS Session, TLC

Symmetry == Permutations(Programs) \cup Permutations(Factions)
=============================================================================
