----------------------- MODULE MCDeltaNeutralPosition -----------------------
(* Instances of DeltaNeutralPosition for TLC.                              *)
EXTENDS DeltaNeutralPosition

CONSTANT p1

=============================================================================
