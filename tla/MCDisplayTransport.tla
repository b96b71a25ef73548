------------------------- MODULE MCDisplayTransport -------------------------
(* Model-checking instances of DisplayTransport. *)
EXTENDS DisplayTransport, TLC
\* Agents and slots are interchangeable: nothing in the model orders them.
Symmetry == Permutations(Agents) \cup Permutations(Slots)
=============================================================================
