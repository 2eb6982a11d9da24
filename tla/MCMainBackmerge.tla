--------------------------- MODULE MCMainBackmerge ---------------------------
(* MainBackmerge needs no definitions of its own to be checked. *)
EXTENDS MainBackmerge
=============================================================================
