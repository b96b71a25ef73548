--------------------------- MODULE MCScreenStream ---------------------------
(* Model-checking instances of ScreenStream. *)
EXTENDS ScreenStream
=============================================================================
