------------------------- MODULE MCBackgroundIndex -------------------------
(* Model-checking instances of BackgroundIndex. *)
EXTENDS BackgroundIndex
=============================================================================
