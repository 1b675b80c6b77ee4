------------------------------- MODULE MCTiling -------------------------------
(* Values for TLC *)
EXTENDS Tiling

\* A run of "h" or "k" that takes a divider past its end stop
FarBack == {-16}

\* A large terminal with its sidebar, and one too small for two tiles
LargeAndSmall == {Dims(240, 90, TRUE), Dims(20, 3, FALSE)}

=============================================================================
