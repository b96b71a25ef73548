------------------------------- MODULE PaneView -------------------------------
(***************************************************************************)
(* What a user of railmux ssh may rely on when he scrolls back in agent     *)
(* panes: a pane shows live output, or it stands still.  A pane that stands *)
(* still moves by the wheel only.  Everything else, an answer that arrives, *)
(* output, a new layout, may put it back to live, leave its rows as they    *)
(* are, or leave the reader his place: of the rows that tell one place from *)
(* another most stay, and two at least.                                     *)
(*                                                                         *)
(* This is the abstract specification; LocalHistory implements it.          *)
(***************************************************************************)
EXTENDS Naturals, FiniteSets

CONSTANTS
    Panes,
    Live,       \* what a pane shows that does not stand still
    Texts,      \* what a row may say
    Blank,      \* what an empty row says
    Height      \* the rows of a pane

VARIABLES
    view,       \* what each pane shows: Live, or its rows
    turns       \* how often the user has turned the wheel

vars == <<view, turns>>

Rows == [1..Height -> Texts]

Init == view = [p \in Panes |-> Live] /\ turns = 0

\* A turn of the wheel starts, moves or ends the view of one pane.
Turn ==
    /\ turns' = turns + 1
    /\ \E p \in Panes :
         /\ view'[p] = Live \/ view'[p] \in Rows
         /\ \A q \in Panes \ {p} : view'[q] = view[q]
    /\ DOMAIN view' = Panes

\* The rows that say something no other row says.
Landmarks(rows) ==
    {i \in 1..Height : rows[i] # Blank
                       /\ \A j \in 1..Height : rows[j] = rows[i] => j = i}
Staying(old, new) == {i \in Landmarks(old) : new[i] = old[i]}
Kept(old, new) ==
    \/ new = old
    \/ /\ Cardinality(Staying(old, new)) >= 2
       /\ 2 * Cardinality(Staying(old, new)) >= Cardinality(Landmarks(old))

\* Anything else leaves what a pane shows, or puts the pane back to live.
Other ==
    /\ turns' = turns
    /\ DOMAIN view' = Panes
    /\ \A p \in Panes :
         \/ view'[p] = Live
         \/ view[p] # Live /\ view'[p] \in Rows /\ Kept(view[p], view'[p])

Next == Turn \/ Other

Spec == Init /\ [][Next]_vars

=============================================================================
