--------------------------- MODULE MutationLocks ---------------------------
(***************************************************************************)
(* MutationLocks of src/lock.ts over any coordinator that keeps the rule   *)
(* of FifoLock (the local one does: LocalLockFifo).  A file operation      *)
(* takes the shared tree gate and then the exclusive lock of its path; a   *)
(* tree operation takes the gate exclusively.  Each await is a step        *)
(* boundary: a lock granted by another operation's release is owned at     *)
(* once, and its caller only resumes later.                                *)
(***************************************************************************)
EXTENDS FifoLine

CONSTANTS
  Ops,     \* concurrent facade operations
  Paths,   \* file paths that are locked
  Tree     \* the name of the tree lock, also the target of a tree operation

ASSUME MutationLocksAssumption == Tree \notin Paths

VARIABLES
  line,    \* lock name -> line of requests, see FifoLine
  stage,   \* operation -> where its acquisition stands
  target,  \* operation -> the path it locks, or Tree
  aborted  \* operation -> its AbortSignal has fired

lockVars == <<line, stage, target, aborted>>

LockNames == Paths \cup {Tree}

Stages == {"idle",      \* owns nothing, waits for nothing
           "tree",      \* awaits the tree lock
           "file",      \* awaits the file lock
           "rejected",  \* acquireFile is about to run its catch block
           "held"}      \* acquireFile or acquireTree returned

Owns(p, n) == p \in OwnersOf(line[n])

Queued(p, n) == InLine(p, line[n])

Become(p, s) == stage' = [stage EXCEPT ![p] = s]

----------------------------------------------------------------------------
LockInit ==
  /\ line = [n \in LockNames |-> <<>>]
  /\ stage = [p \in Ops |-> "idle"]
  /\ target = [p \in Ops |-> Tree]
  /\ aborted = [p \in Ops |-> FALSE]

\* Mutant: tree operations share the gate too.
AskTreeShared(p, t) ==
  /\ stage[p] = "idle"
  /\ line' = [line EXCEPT ![Tree] = JoinLine(@, p, "shared")]
  /\ target' = [target EXCEPT ![p] = t]
  /\ aborted' = [aborted EXCEPT ![p] = FALSE]
  /\ Become(p, "tree")

\* The first await of acquireFile(t) or the only one of acquireTree (t = Tree).
\* A signal that has fired already throws instead and changes nothing.
AskTree(p, t) ==
  /\ stage[p] = "idle"
  /\ line' = [line EXCEPT ![Tree] =
                JoinLine(@, p, IF t = Tree THEN "exclusive" ELSE "shared")]
  /\ target' = [target EXCEPT ![p] = t]
  /\ aborted' = [aborted EXCEPT ![p] = FALSE]
  /\ Become(p, "tree")

\* acquireTree resumes with its lock.
TreeHeld(p) ==
  /\ stage[p] = "tree" /\ Owns(p, Tree) /\ target[p] = Tree
  /\ Become(p, "held")
  /\ UNCHANGED <<line, target, aborted>>

\* acquireFile resumes with the tree gate and asks for the path; a signal that
\* fired meanwhile makes the second acquire throw.
AskFile(p) ==
  /\ stage[p] = "tree" /\ Owns(p, Tree) /\ target[p] # Tree
  /\ \/ /\ ~aborted[p]
        /\ line' = [line EXCEPT ![target[p]] = JoinLine(@, p, "exclusive")]
        /\ Become(p, "file")
     \/ aborted[p] /\ Become(p, "rejected") /\ UNCHANGED line
  /\ UNCHANGED <<target, aborted>>

\* acquireFile resumes with both locks.
FileHeld(p) ==
  /\ stage[p] = "file" /\ Owns(p, target[p])
  /\ Become(p, "held")
  /\ UNCHANGED <<line, target, aborted>>

\* Mutant: no catch block.
GiveBackNothing(p) ==
  /\ stage[p] = "rejected"
  /\ Become(p, "idle")
  /\ UNCHANGED <<line, target, aborted>>

\* The catch block of acquireFile gives the gate back and rethrows.
GiveBackTree(p) ==
  /\ stage[p] = "rejected"
  /\ line' = [line EXCEPT ![Tree] = LeaveLine(@, p)]
  /\ Become(p, "idle")
  /\ UNCHANGED <<target, aborted>>

\* The AbortSignal fires: it removes a request that still waits and leaves an
\* owner alone.
AbortSignal(p) ==
  /\ stage[p] \in {"tree", "file", "held"} /\ ~aborted[p]
  /\ aborted' = [aborted EXCEPT ![p] = TRUE]
  /\ \/ /\ stage[p] = "tree" /\ ~Owns(p, Tree)
        /\ line' = [line EXCEPT ![Tree] = LeaveLine(@, p)]
        /\ Become(p, "idle")
     \/ /\ stage[p] = "file" /\ ~Owns(p, target[p])
        /\ line' = [line EXCEPT ![target[p]] = LeaveLine(@, p)]
        /\ Become(p, "rejected")
     \/ /\ stage[p] = "held" \/ Owns(p, IF stage[p] = "tree" THEN Tree ELSE target[p])
        /\ UNCHANGED <<line, stage>>
  /\ UNCHANGED target

\* Mutant: the file lock is not released.
ReleaseGateOnly(p) ==
  /\ stage[p] = "held"
  /\ line' = [line EXCEPT ![Tree] = LeaveLine(@, p)]
  /\ Become(p, "idle")
  /\ target' = [target EXCEPT ![p] = Tree]
  /\ UNCHANGED aborted

\* FileHeldLock.release, or release of the tree lock: the operation leaves
\* every line it stands in, in one synchronous call.
ReleaseLocks(p) ==
  /\ stage[p] = "held"
  /\ line' = [n \in LockNames |->
                IF n \in {Tree, target[p]} THEN LeaveLine(line[n], p) ELSE line[n]]
  /\ Become(p, "idle")
  /\ target' = [target EXCEPT ![p] = Tree]
  /\ UNCHANGED aborted

\* What an acquisition does on its own once it has been asked for.
LockStep(p) == TreeHeld(p) \/ AskFile(p) \/ FileHeld(p) \/ GiveBackTree(p)

LockNext ==
  \E p \in Ops :
    \/ \E t \in LockNames : AskTree(p, t)
    \/ LockStep(p)
    \/ AbortSignal(p)
    \/ ReleaseLocks(p)

LockSpec == LockInit /\ [][LockNext]_lockVars

\* Resumed callers run (the event loop), and every operation releases what it
\* was given (finally blocks); nobody has to start or to abort.
LockFairSpec ==
  /\ LockSpec
  /\ \A p \in Ops : WF_lockVars(LockStep(p)) /\ WF_lockVars(ReleaseLocks(p))

----------------------------------------------------------------------------
(* Properties.                                                             *)

\* acquireFile: two operations never hold the same path, and no file operation
\* holds its locks while a tree operation does ("preventing recursive remove,
\* copy, or move from racing them").
OperationsExclude ==
  \A p, q \in Ops :
    p # q /\ stage[p] = "held" /\ stage[q] = "held"
      => target[p] # target[q] /\ target[p] # Tree

\* A failed, aborted or finished operation keeps no lock and no place in a line.
NothingLeaked ==
  \A p \in Ops : stage[p] = "idle" => \A n \in LockNames : ~Queued(p, n)

\* A waiting tree operation is overtaken by nobody: whoever gets its locks while
\* it waits asked for the gate before it did.
TreeNotOvertaken ==
  [][\A p, q \in Ops :
       /\ stage[p] = "tree" /\ target[p] = Tree /\ stage'[p] = "tree"
       /\ stage[q] # "held" /\ stage'[q] = "held"
       => PlaceOf(q, line[Tree]) < PlaceOf(p, line[Tree])]_lockVars

\* Two locks per operation never deadlock: every acquisition ends.
EveryAcquireEnds ==
  \A p \in Ops : stage[p] \in {"tree", "file", "rejected"} ~> stage[p] \in {"held", "idle"}
=============================================================================
