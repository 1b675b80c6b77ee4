------------------------------- MODULE MCAttach -------------------------------
(* Values for TLC *)
EXTENDS Attach

CONSTANTS c1, c2

\* The first role writes two chunks, a role that joins later none
TwoThenNone == <<2, 0>>
NoOutput == <<0>>

\* The two connections are alike
Symmetry == {[c \in Clients |-> c], [c \in Clients |-> IF c = c1 THEN c2 ELSE c1]}

=============================================================================
