-------------------------- MODULE MCSharedBindings --------------------------
EXTENDS SharedBindings, TLC

TokenSymmetry == Permutations(Tokens)

\* Each pane in a window of its own, or all but one in the same window.
Apart == [p \in Railmuxes |-> p]
Together == LET a == CHOOSE q \in Railmuxes : TRUE
                b == CHOOSE q \in Railmuxes \ {a} : TRUE
            IN  [p \in Railmuxes |-> IF p = a THEN a ELSE b]
=============================================================================
