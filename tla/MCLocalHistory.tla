---------------------------- MODULE MCLocalHistory ----------------------------
(* Two agent panes that share two places, and dialogs without panes. *)
EXTENDS LocalHistory

CONSTANTS p1, p2, left, right, t1, t2, t3, t4, t5

Lay(x, y, cur, compact) ==
    [place |-> (p1 :> x) @@ (p2 :> y), cursor |-> cur, bar |-> compact]
Both == Lay(left, right, left, FALSE)
Pages == {Both, Lay(None, left, Side, TRUE), Lay(None, None, Side, FALSE)}

\* One pane with text that differs everywhere, one that repeats itself.
Various == {(p1 :> <<t1, t2, t3, t4, Blank, t2>>) @@ (p2 :> <<t1, t2, t1, t2, t1, t2>>)}
Bounds(w, b, k, r, l, o, f) ==
    ("wheel" :> w) @@ ("button" :> b) @@ ("key" :> k) @@ ("resize" :> r)
    @@ ("layout" :> l) @@ ("output" :> o) @@ ("fault" :> f)
Few == Bounds(2, 2, 1, 1, 1, 1, 1)
=============================================================================
