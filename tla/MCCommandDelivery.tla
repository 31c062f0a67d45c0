------------------------- MODULE MCCommandDelivery --------------------------
(***************************************************************************)
(* Finite instances of CommandDelivery for TLC.                            *)
(***************************************************************************)
EXTENDS CommandDelivery

CommandsMC == {1, 2}
=============================================================================
