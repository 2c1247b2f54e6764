----------------------------- MODULE FifoLock ------------------------------
(***************************************************************************)
(* What a lock coordinator of src/lock.ts promises, in one rule: at every  *)
(* moment the owners of a name are those whom its line (see FifoLine)      *)
(* entitles.  Mutual exclusion, FIFO order and no lost wake-up all follow. *)
(***************************************************************************)
EXTENDS FifoLine

CONSTANTS Names, Callers

VARIABLES
  line,   \* name -> sequence of [caller, mode] in the order of the requests
  owners  \* name -> the callers that own the lock

Modes == {"shared", "exclusive"}

Init ==
  /\ line = [n \in Names |-> <<>>]
  /\ owners = [n \in Names |-> {}]

\* The line of n becomes l, and its owners are those the rule says.
SetLine(n, l) ==
  /\ line' = [line EXCEPT ![n] = l]
  /\ owners' = [owners EXCEPT ![n] = OwnersOf(l)]

\* acquire(n, mode): join the line, owning at once if nobody is in the way.
Join(c, n, mode) == ~InLine(c, line[n]) /\ SetLine(n, JoinLine(line[n], c, mode))

\* release() of an owner, or cancellation of a waiter: leave the line.
Leave(c, n) == InLine(c, line[n]) /\ SetLine(n, LeaveLine(line[n], c))

Next == \E c \in Callers, n \in Names :
          (\E mode \in Modes : Join(c, n, mode)) \/ Leave(c, n)

Spec == Init /\ [][Next]_<<line, owners>>
=============================================================================
