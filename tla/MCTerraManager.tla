--------------------------- MODULE MCTerraManager ---------------------------
(* Instances of TerraManager for TLC: model values for the chains and the  *)
(* contracts, what a strategy may come to refuse, and the symmetry of      *)
(* Terra's accounts, which no action or property tells apart.              *)
EXTENDS TerraManager, TLC

CONSTANTS terra, eth, bsc, alice, bob, anchor, delta, manager, former

OpensRefused == {<<anchor, "open", 1>>}

AccountSymmetry == Permutations(Accounts)

=============================================================================
