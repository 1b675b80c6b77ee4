------------------------------ MODULE MCSession ------------------------------
(* Values for TLC: two configuration files and two names. *)
EXTENDS Session

CONSTANTS qa, scout, main, other

\* One file has a tester, the other a scout too
Teams == [p \in Paths |-> IF p = main THEN <<qa>> ELSE <<scout, qa>>]

\* Proposals need approval under one file only
ApproveInMain == [p \in Paths |-> p = main]

\* The user edits one file
TesterInMain == {<<main, qa>>}

=============================================================================
