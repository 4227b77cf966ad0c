------------------------- MODULE MCAnchorEarnProxy -------------------------
(* Constants for model checking AnchorEarnProxy with TLC.                  *)
EXTENDS AnchorEarnProxy, TLC

MCProportions == {<<1, 3>>, <<1, 2>>, <<1, 1>>}
MCSymmetry == Permutations(Positions)
=============================================================================
