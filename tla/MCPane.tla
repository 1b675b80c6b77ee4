-------------------------------- MODULE MCPane --------------------------------
(* The module TLC runs: the bounds are in the .cfg files. *)
EXTENDS Pane
=============================================================================
