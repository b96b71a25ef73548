---------------------------- MODULE MCRestartState ----------------------------
(* Two panes of the managed session, one after the other, and a pane in which *)
(* the user starts Railmux directly.                                         *)
EXTENDS RestartState, TLC

CONSTANTS m1, m2, d, a

Bounds(st, sh, as, cr, cl, en, wk, fa) ==
    ("start" :> st) @@ ("show" :> sh) @@ ("ask" :> as) @@ ("crash" :> cr)
    @@ ("close" :> cl) @@ ("end" :> en) @@ ("week" :> wk) @@ ("fault" :> fa)
Few == Bounds(2, 1, 2, 1, 1, 1, 1, 1)
\* One quit is enough where a run checks liveness.
Fewer == Bounds(2, 1, 1, 1, 1, 1, 1, 1)

Dual == ("primary" :> Empty) @@ ("secondary" :> Transcript(a))
Earlier == Instance(Dual, Transcript(a), {a}, FALSE)
Nobody == [p \in Panes |-> None]
Found == {<<Nobody, None, {}>>, <<[Nobody EXCEPT ![d] = Earlier], Portable(None, TRUE), {a}>>,
    <<[Nobody EXCEPT ![d] = Instance(Shut, Empty, {}, TRUE)], None, {}>>}
Same == Permutations(Managed)
=============================================================================
