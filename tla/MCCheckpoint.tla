----------------------------- MODULE MCCheckpoint -----------------------------
(* Values for TLC *)
EXTENDS Checkpoint

CONSTANTS f1, f2, x, y

\* Only a file with the very same contents is taken for a renamed one
Same == {<<c, c>> : c \in Contents}

\* The files are alike, and so are the contents
Swap(S, a, b) == {[e \in S |-> e], [e \in S |-> IF e = a THEN b ELSE a]}
Symmetry == Swap(Files, f1, f2) \cup Swap(Contents, x, y)

=============================================================================
