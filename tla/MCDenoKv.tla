------------------------------ MODULE MCDenoKv ------------------------------
(* The partitioned Deno KV file on a small instance. *)
EXTENDS DenoKvAtomic, TLC

TwoParts == {0, 1}

Symmetry == Permutations(Writers) \cup Permutations(Readers)
=============================================================================
