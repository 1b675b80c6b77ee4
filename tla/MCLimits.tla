------------------------------- MODULE MCLimits -------------------------------
(* Values for TLC: a builder that is paused over its budget, and a helper. *)
EXTENDS Limits

CONSTANTS coder, helper

TwoTicks == [r \in Roles |-> 2]

=============================================================================
