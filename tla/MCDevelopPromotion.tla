------------------------- MODULE MCDevelopPromotion -------------------------
(* Small instances of DevelopPromotion; the bounds are in the .cfg files. *)
EXTENDS DevelopPromotion
=============================================================================
