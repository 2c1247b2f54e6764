--------------------------- MODULE LocalLockFifo ---------------------------
(***************************************************************************)
(* LocalLock implements FifoLock.  The history variable line records, for  *)
(* each name, who asked for the lock and has not left yet, in the order of *)
(* the requests; the owners of the abstract lock are the callers with an   *)
(* unreleased token.                                                       *)
(***************************************************************************)
EXTENDS LocalLock, FifoLine

VARIABLE line

F == INSTANCE FifoLock WITH
       line <- line,
       owners <- [n \in Names |-> {c \in Callers : Holds(c) /\ token[c].name = n}]

HInit == Init /\ line = [n \in Names |-> <<>>]

Leaves(c, n) == line' = [line EXCEPT ![n] = LeaveLine(@, c)]

HNext ==
  \E c \in Callers :
    \/ \E n \in Names, mode \in Modes :
         /\ Acquire(c, n, mode)
         /\ line' = [line EXCEPT ![n] = JoinLine(@, c, mode)]
    \/ Release(c) /\ Leaves(c, token[c].name)
    \/ ReleaseAgain(c) /\ UNCHANGED line
    \/ Cancel(c) /\ Leaves(c, pending[c].name)

HSpec == HInit /\ [][HNext]_<<vars, line>>

HFairSpec == HSpec /\ Fairness

\* The lock of lock.ts is the abstract FIFO reader/writer lock: at every step
\* its owners are exactly the ones arrival order entitles, so a reader never
\* bypasses an earlier writer, and a release or a cancellation passes the lock
\* on at once to everyone it entitles.
ImplementsFifoLock == F!Spec
=============================================================================
