-------------------------- MODULE MCMutationLocks --------------------------
(* MutationLocks on small instances; see the README for the bounds.        *)
EXTENDS MutationLocks
=============================================================================
