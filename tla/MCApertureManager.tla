------------------------- MODULE MCApertureManager -------------------------
(* Instances of ApertureManager for TLC: model values for the chains, the  *)
(* contracts and the tokens, and the small sets the owner and the users    *)
(* choose from.                                                            *)
EXTENDS ApertureManager, TLC

CONSTANTS eth, avax, manager, vault, alice, usdc

MCAssets == {Asset(usdc, 4), Asset(weth, 4)}
MCUsdc == {Asset(usdc, 4)}
MCWhitelistable == {<<eth, 0, weth>>}
MCRoutable == {<<usdc, weth>>}

=============================================================================
