---------------------------- MODULE DenoKvAtomic ----------------------------
(***************************************************************************)
(* The partitioned file implements the atomic file it is offered as: the   *)
(* driver is defined with replacement "atomic".  An incomplete visible     *)
(* body is no content at all.                                              *)
(***************************************************************************)
EXTENDS DenoKv

Torn == "torn"

contentBar ==
  IF entry = Absent \/ wr[entry].op = "inline" \/ PartsOf(entry) = Parts THEN entry ELSE Torn

writeBar ==
  [w \in Writers |->
    [pc |-> CASE wr[w].pc \in {"writing", "committing"} -> "open"
              [] wr[w].pc \in {"cleaning", "failed", "stopped"} -> "failed"
              [] OTHER -> wr[w].pc,
     saw |-> wr[w].saw]]

readBar == [r \in Readers |-> [pc |-> rd[r].pc, gen |-> rd[r].gen]]

A == INSTANCE AtomicFile WITH content <- contentBar, write <- writeBar, read <- readBar

\* Whatever interleaving of writers, readers, failures and collections, the
\* file behaves as if written and read in one piece.
ImplementsAtomicFile == A!Spec
=============================================================================
