--------------------------- MODULE MCRemoteDisplay ---------------------------
EXTENDS RemoteDisplay

CONSTANTS h1, h2, h3, c1, c2

Pkg(h, v, p, r, t) ==
    [hello |-> h, ver |-> v, proto |-> p, ready |-> r, tmux |-> t]
Same == Pkg(TRUE, 1, 1, TRUE, TRUE)
\* Absent, older without a handshake, of an older and of a newer protocol
\* (newer or not), newer without its dependency, without tmux.
Unfit ==
    {Pkg(FALSE, 0, 0, FALSE, TRUE), Pkg(FALSE, 0, 0, FALSE, FALSE),
     Pkg(TRUE, 0, 0, TRUE, TRUE), Pkg(TRUE, 2, 2, TRUE, TRUE),
     Pkg(TRUE, 1, 2, TRUE, TRUE), Pkg(TRUE, 2, 1, FALSE, TRUE),
     Pkg(TRUE, 1, 1, TRUE, FALSE)}
\* Newer and older, but compatible.
Compatible ==
    {Same, Pkg(TRUE, 2, 1, TRUE, TRUE), Pkg(TRUE, 0, 1, TRUE, TRUE)}
\* One of each that the set-up distinguishes.
Typical ==
    {Same, Pkg(FALSE, 0, 0, FALSE, TRUE), Pkg(TRUE, 1, 2, TRUE, TRUE),
     Pkg(TRUE, 2, 1, FALSE, TRUE), Pkg(TRUE, 1, 1, TRUE, FALSE)}
OnlySame == {Same}
AllPackages == Compatible \cup Unfit

First(o, w) == [others |-> o, who |-> w]
Alone == {First(FALSE, {}), First(TRUE, {})}
Accompanied == {First(FALSE, {"legacy"}), First(TRUE, {"local"})}
=============================================================================
