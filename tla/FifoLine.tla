----------------------------- MODULE FifoLine ------------------------------
(***************************************************************************)
(* The line of a lock of src/lock.ts: all who asked for a name and have    *)
(* neither released nor given up, in the order they asked.  An exclusive   *)
(* request owns the lock when it is first in the line, a shared one when   *)
(* no exclusive one is ahead of it.                                        *)
(***************************************************************************)
EXTENDS Integers, SequencesExt

\* Mutant: a shared request passes the exclusive ones that wait.
OwnsAtBarging(l, i) ==
  IF l[i].mode = "exclusive" THEN i = 1 ELSE l[1].mode = "shared"

OwnsAt(l, i) ==
  IF l[i].mode = "exclusive" THEN i = 1
  ELSE \A j \in 1 .. i : l[j].mode = "shared"

OwnersOf(l) == {l[i].caller : i \in {j \in DOMAIN l : OwnsAt(l, j)}}

InLine(c, l) == \E i \in DOMAIN l : l[i].caller = c

\* Where c stands in a line it is in; nobody stands in a line twice.
PlaceOf(c, l) == CHOOSE i \in DOMAIN l : l[i].caller = c

JoinLine(l, c, mode) == Append(l, [caller |-> c, mode |-> mode])

LeaveLine(l, c) == RemoveAt(l, PlaceOf(c, l))
=============================================================================
