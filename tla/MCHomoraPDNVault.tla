-------------------------- MODULE MCHomoraPDNVault --------------------------
(* An instance of HomoraPDNVault for TLC with two positions, which no      *)
(* action or property tells apart.                                         *)
EXTENDS HomoraPDNVault, TLC

CONSTANTS p1, p2

(* A gain; a loss with interest.                                          *)
MCMoves == {<<2, 0>>, <<-1, 1>>}

PositionSymmetry == Permutations(Positions)

=============================================================================
