------------------------- MODULE MCWorkspaceLayout -------------------------
EXTENDS WorkspaceLayout, TLC
CONSTANTS a1, a2
Few == {<<70, 30>>, <<100, 40>>, <<160, 40>>}
Same == Permutations(Agents)
=============================================================================
