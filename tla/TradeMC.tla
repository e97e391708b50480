------------------------------ MODULE TradeMC ------------------------------
(* An instance of Trade: three players, two bags and a gem.                *)
EXTENDS Trade, TLC

CONSTANTS p1, p2, p3, bag, pouch, gem

Symmetry == Permutations({p1, p2, p3}) \cup Permutations({bag, pouch})
=============================================================================
