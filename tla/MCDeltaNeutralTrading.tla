------------------------ MODULE MCDeltaNeutralTrading ------------------------
(* Instances of DeltaNeutralTrading for TLC.                               *)
EXTENDS DeltaNeutralTrading

Pool(a, u, lp) == [asset |-> a, uusd |-> u, supply |-> lp]

Range18to22 == [min |-> 18000, max |-> 22000]

Markets ==
  {[terraswap |-> Pool(200, 450, 300), astroport |-> [asset |-> 100, uusd |-> 230],
    spectrum |-> [lp |-> 100, shares |-> 71, staked |-> 15]]}

=============================================================================
