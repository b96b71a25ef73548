-------------------------- MODULE MCLaunchMarkers --------------------------
(* Model-checking instances of LaunchMarkers. *)
EXTENDS LaunchMarkers, TLC
\* No order is defined on the panes.
OwnerSymmetry == Permutations(Owners)
=============================================================================
