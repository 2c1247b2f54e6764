------------------------ MODULE MutationLocksProofs -------------------------
(***************************************************************************)
(* Proofs about MutationLocks, for any number of operations and paths.     *)
(***************************************************************************)
EXTENDS MutationLocks, FifoLineProofs

----------------------------------------------------------------------------
(* The inductive invariant: where an operation stands is where its stage    *)
(* says, and what it was given it keeps until it releases.                  *)

Types ==
  /\ line \in [LockNames -> Seq(Entry(Ops))]
  /\ \A n \in LockNames : IsLine(line[n], Ops)
  /\ stage \in [Ops -> Stages]
  /\ target \in [Ops -> LockNames]
  /\ aborted \in [Ops -> BOOLEAN]

\* An operation stands in the line of the gate from its first acquire on, and
\* in the line of its path from its second on, and in no other.
Stands(p, n) ==
  \/ n = Tree /\ stage[p] # "idle"
  \/ n = target[p] /\ stage[p] \in {"file", "held"}

Standing == \A p \in Ops, n \in LockNames : Queued(p, n) <=> Stands(p, n)

\* Tree operations ask for the gate exclusively, and every path is asked for
\* exclusively.
Exclusive ==
  \A p \in Ops :
    /\ target[p] = Tree => HasMode(p, line[Tree], "exclusive")
    /\ \A n \in Paths : HasMode(p, line[n], "exclusive")

\* A file operation past its first await has the gate; who holds has all it
\* asked for.
Granted ==
  \A p \in Ops :
    /\ stage[p] \in {"file", "rejected"} => target[p] # Tree
    /\ stage[p] \in {"file", "rejected", "held"} => Owns(p, Tree)
    /\ stage[p] = "held" => Owns(p, target[p])

IInv == Types /\ Standing /\ Exclusive /\ Granted

----------------------------------------------------------------------------
\* A request that joins a line disturbs nobody.
LEMMA JoinLines ==
  ASSUME Types, NEW p \in Ops, NEW n \in LockNames, NEW mode \in EntryModes, ~Queued(p, n),
         line' = [line EXCEPT ![n] = JoinLine(@, p, mode)]
  PROVE  /\ line' \in [LockNames -> Seq(Entry(Ops))]
         /\ \A m \in LockNames : IsLine(line'[m], Ops)
         /\ \A q \in Ops, m \in LockNames :
              /\ Queued(q, m)' <=> Queued(q, m) \/ (q = p /\ m = n)
              /\ Owns(q, m) => Owns(q, m)'
              /\ \A x : (q # p \/ m # n) /\ HasMode(q, line[m], x) => HasMode(q, line'[m], x)
         /\ HasMode(p, line'[n], mode)
<1>1. IsLine(line[n], Ops) /\ ~InLine(p, line[n])
  BY DEF Types, Queued
<1>2. line'[n] = JoinLine(line[n], p, mode) /\ \A m \in LockNames : m # n => line'[m] = line[m]
  BY DEF Types
<1>3. /\ IsLine(line'[n], Ops)
      /\ \A d : InLine(d, line'[n]) <=> d = p \/ InLine(d, line[n])
      /\ \A d : d \in OwnersOf(line[n]) => d \in OwnersOf(line'[n])
      /\ HasMode(p, line'[n], mode)
      /\ \A d, x : d # p /\ HasMode(d, line[n], x) => HasMode(d, line'[n], x)
  BY <1>1, <1>2, JoinKeeps
<1>4. \A m \in LockNames : IsLine(line'[m], Ops)
  BY <1>2, <1>3 DEF Types
<1>5. line' \in [LockNames -> Seq(Entry(Ops))]
  <2>1. line'[n] \in Seq(Entry(Ops))
    BY <1>3 DEF IsLine
  <2> QED
    BY <1>2, <2>1 DEF Types
<1>6. ASSUME NEW q \in Ops, NEW m \in LockNames
      PROVE  /\ Queued(q, m)' <=> Queued(q, m) \/ (q = p /\ m = n)
             /\ Owns(q, m) => Owns(q, m)'
             /\ \A x : (q # p \/ m # n) /\ HasMode(q, line[m], x) => HasMode(q, line'[m], x)
  BY <1>2, <1>3 DEF Queued, Owns
<1> QED
  BY <1>3, <1>4, <1>5, <1>6

\* Leaving lines disturbs nobody else.
LEMMA LeaveLines ==
  ASSUME Types, NEW p \in Ops, NEW N \in SUBSET LockNames, \A n \in N : Queued(p, n),
         line' = [n \in LockNames |-> IF n \in N THEN LeaveLine(line[n], p) ELSE line[n]]
  PROVE  /\ line' \in [LockNames -> Seq(Entry(Ops))]
         /\ \A m \in LockNames : IsLine(line'[m], Ops)
         /\ \A q \in Ops, m \in LockNames :
              /\ Queued(q, m)' <=> Queued(q, m) /\ ~(q = p /\ m \in N)
              /\ (q # p \/ m \notin N) /\ Owns(q, m) => Owns(q, m)'
              /\ \A x : HasMode(q, line[m], x) => HasMode(q, line'[m], x)
<1>1. ASSUME NEW m \in N
      PROVE  /\ IsLine(line'[m], Ops)
             /\ \A d : InLine(d, line'[m]) <=> d # p /\ InLine(d, line[m])
             /\ \A d : d # p /\ d \in OwnersOf(line[m]) => d \in OwnersOf(line'[m])
             /\ \A d, x : HasMode(d, line[m], x) => HasMode(d, line'[m], x)
  <2>1. IsLine(line[m], Ops) /\ InLine(p, line[m]) /\ line'[m] = LeaveLine(line[m], p)
    BY DEF Types, Queued
  <2> QED
    BY <2>1, LeaveKeeps
<1>2. \A m \in LockNames : m \notin N => line'[m] = line[m]
  OBVIOUS
<1>3. \A m \in LockNames : IsLine(line'[m], Ops)
  BY <1>1, <1>2 DEF Types
<1>4. line' \in [LockNames -> Seq(Entry(Ops))]
  <2>1. \A m \in LockNames : line'[m] \in Seq(Entry(Ops))
    BY <1>3 DEF IsLine
  <2> QED
    BY <2>1
<1>5. ASSUME NEW q \in Ops, NEW m \in LockNames
      PROVE  /\ Queued(q, m)' <=> Queued(q, m) /\ ~(q = p /\ m \in N)
             /\ (q # p \/ m \notin N) /\ Owns(q, m) => Owns(q, m)'
             /\ \A x : HasMode(q, line[m], x) => HasMode(q, line'[m], x)
  BY <1>1, <1>2 DEF Queued, Owns
<1> QED
  BY <1>3, <1>4, <1>5

\* The same for the one line of an EXCEPT.
LEMMA LeaveOneLine ==
  ASSUME Types, NEW p \in Ops, NEW n \in LockNames,
         line' = [line EXCEPT ![n] = LeaveLine(@, p)]
  PROVE  line' = [m \in LockNames |-> IF m \in {n} THEN LeaveLine(line[m], p) ELSE line[m]]
BY DEF Types

----------------------------------------------------------------------------
(* Each step keeps the invariant.                                          *)

LEMMA AskTreeKeeps ==
  ASSUME IInv, NEW p \in Ops, NEW t \in LockNames, AskTree(p, t)
  PROVE  IInv'
<1> DEFINE mode == IF t = Tree THEN "exclusive" ELSE "shared"
<1>1. Tree \in LockNames /\ Tree \notin Paths /\ mode \in EntryModes /\ Types /\ Standing
  BY MutationLocksAssumption DEF LockNames, EntryModes, IInv
<1>2. /\ line' = [line EXCEPT ![Tree] = JoinLine(@, p, mode)]
      /\ stage[p] = "idle" /\ stage' = [stage EXCEPT ![p] = "tree"]
      /\ target' = [target EXCEPT ![p] = t] /\ aborted' = [aborted EXCEPT ![p] = FALSE]
  BY DEF AskTree, Become
<1>3. \A n \in LockNames : ~Queued(p, n)
  BY <1>1, <1>2 DEF Standing, Stands
<1> HIDE DEF mode
<1>4. /\ line' \in [LockNames -> Seq(Entry(Ops))]
      /\ \A m \in LockNames : IsLine(line'[m], Ops)
      /\ \A q \in Ops, m \in LockNames :
           /\ Queued(q, m)' <=> Queued(q, m) \/ (q = p /\ m = Tree)
           /\ Owns(q, m) => Owns(q, m)'
           /\ \A x : (q # p \/ m # Tree) /\ HasMode(q, line[m], x) => HasMode(q, line'[m], x)
      /\ HasMode(p, line'[Tree], mode)
  BY <1>1, <1>2, <1>3, JoinLines
<1>5. /\ stage' \in [Ops -> Stages] /\ stage'[p] = "tree"
      /\ target' \in [Ops -> LockNames] /\ target'[p] = t
      /\ aborted' \in [Ops -> BOOLEAN]
      /\ \A q \in Ops : q # p => stage'[q] = stage[q] /\ target'[q] = target[q]
  BY <1>1, <1>2 DEF Types, Stages
<1>6. Types'
  BY <1>4, <1>5 DEF Types
<1>7. Standing'
  <2> SUFFICES ASSUME NEW q \in Ops, NEW n \in LockNames
               PROVE  Queued(q, n)' <=> Stands(q, n)'
    BY DEF Standing
  <2>1. CASE q = p
    BY <1>3, <1>4, <1>5, <2>1 DEF Stands
  <2>2. CASE q # p
    <3>1. Stands(q, n)' <=> Stands(q, n)
      BY <1>5, <2>2 DEF Stands
    <3> QED
      BY <1>1, <1>4, <2>2, <3>1 DEF Standing
  <2> QED
    BY <2>1, <2>2
<1>8. Exclusive'
  BY <1>1, <1>4, <1>5 DEF Exclusive, IInv, LockNames, mode
<1>9. Granted'
  BY <1>1, <1>4, <1>5 DEF Granted, IInv, Types
<1> QED
  BY <1>6, <1>7, <1>8, <1>9 DEF IInv

\* An operation on the tree starts once it owns the tree.
LEMMA TreeHeldKeeps ==
  ASSUME IInv, NEW p \in Ops, TreeHeld(p)
  PROVE  IInv'
<1>1. /\ stage[p] = "tree" /\ Owns(p, Tree) /\ target[p] = Tree
      /\ stage' = [stage EXCEPT ![p] = "held"]
      /\ line' = line /\ target' = target /\ aborted' = aborted
  BY DEF TreeHeld, Become
<1>2. \A q \in Ops, n \in LockNames : /\ Queued(q, n)' <=> Queued(q, n)
                                      /\ Owns(q, n)' <=> Owns(q, n)
  BY <1>1 DEF Queued, Owns
<1>3. Types'
  BY <1>1 DEF Types, Stages, IInv
<1>4. Standing'
  BY <1>1, <1>2 DEF Standing, Stands, IInv, Types
<1>5. Exclusive'
  BY <1>1 DEF Exclusive, IInv
<1>6. Granted'
  BY <1>1, <1>2 DEF Granted, IInv, Types, LockNames
<1> QED
  BY <1>3, <1>4, <1>5, <1>6 DEF IInv

\* An operation on a file starts once it owns the file.
LEMMA FileHeldKeeps ==
  ASSUME IInv, NEW p \in Ops, FileHeld(p)
  PROVE  IInv'
<1>1. /\ stage[p] = "file" /\ Owns(p, target[p])
      /\ stage' = [stage EXCEPT ![p] = "held"]
      /\ line' = line /\ target' = target /\ aborted' = aborted
  BY DEF FileHeld, Become
<1>2. \A q \in Ops, n \in LockNames : /\ Queued(q, n)' <=> Queued(q, n)
                                      /\ Owns(q, n)' <=> Owns(q, n)
  BY <1>1 DEF Queued, Owns
<1>3. Types'
  BY <1>1 DEF Types, Stages, IInv
<1>4. Standing'
  BY <1>1, <1>2 DEF Standing, Stands, IInv, Types
<1>5. Exclusive'
  BY <1>1 DEF Exclusive, IInv
<1>6. Granted'
  BY <1>1, <1>2 DEF Granted, IInv, Types, LockNames
<1> QED
  BY <1>3, <1>4, <1>5, <1>6 DEF IInv

\* The tree in hand, an operation asks for its file or gives up.
LEMMA AskFileKeeps ==
  ASSUME IInv, NEW p \in Ops, AskFile(p)
  PROVE  IInv'
<1>1. /\ stage[p] = "tree" /\ Owns(p, Tree) /\ target[p] # Tree
      /\ target' = target /\ aborted' = aborted
      /\ Types /\ Standing /\ p \in Ops /\ target[p] \in LockNames /\ target[p] \in Paths
  BY DEF AskFile, IInv, Types, LockNames
<1>2. CASE /\ line' = [line EXCEPT ![target[p]] = JoinLine(@, p, "exclusive")]
           /\ Become(p, "file")
  <2>1. ~Queued(p, target[p]) /\ "exclusive" \in EntryModes
    BY <1>1 DEF Standing, Stands, EntryModes
  <2>2. /\ line' \in [LockNames -> Seq(Entry(Ops))]
        /\ \A m \in LockNames : IsLine(line'[m], Ops)
        /\ \A q \in Ops, m \in LockNames :
             /\ Queued(q, m)' <=> Queued(q, m) \/ (q = p /\ m = target[p])
             /\ Owns(q, m) => Owns(q, m)'
             /\ \A x : (q # p \/ m # target[p]) /\ HasMode(q, line[m], x)
                         => HasMode(q, line'[m], x)
        /\ HasMode(p, line'[target[p]], "exclusive")
    BY <1>1, <1>2, <2>1, JoinLines
  <2>3. /\ stage' \in [Ops -> Stages] /\ stage'[p] = "file"
        /\ \A q \in Ops : q # p => stage'[q] = stage[q]
    BY <1>1, <1>2 DEF Types, Stages, Become
  <2>4. Types'
    BY <1>1, <2>2, <2>3 DEF Types
  <2>5. Standing'
    BY <1>1, <2>2, <2>3 DEF Standing, Stands
  <2>6. Exclusive'
    BY <1>1, <2>2 DEF Exclusive, IInv, LockNames
  <2>7. Granted'
    BY <1>1, <2>2, <2>3 DEF Granted, IInv, LockNames, Types
  <2> QED
    BY <2>4, <2>5, <2>6, <2>7 DEF IInv
<1>3. CASE Become(p, "rejected") /\ UNCHANGED line
  <2>1. /\ stage' \in [Ops -> Stages] /\ stage'[p] = "rejected"
        /\ \A q \in Ops : q # p => stage'[q] = stage[q]
    BY <1>1, <1>3 DEF Types, Stages, Become
  <2>2. \A q \in Ops, n \in LockNames : /\ Queued(q, n)' <=> Queued(q, n)
                                        /\ Owns(q, n)' <=> Owns(q, n)
    BY <1>3 DEF Queued, Owns
  <2>3. Types'
    BY <1>1, <1>3, <2>1 DEF Types
  <2>4. Standing'
    BY <1>1, <2>1, <2>2 DEF Standing, Stands
  <2>5. Exclusive'
    BY <1>1, <1>3 DEF Exclusive, IInv
  <2>6. Granted'
    BY <1>1, <2>1, <2>2 DEF Granted, IInv, LockNames, Types
  <2> QED
    BY <2>3, <2>4, <2>5, <2>6 DEF IInv
<1> QED
  BY <1>2, <1>3 DEF AskFile

\* An operation that leaves the lines N and no other keeps the invariant if
\* its next stage says that it stands in no line of N and lost nothing it needs.
LEMMA LeavingKeeps ==
  ASSUME IInv, NEW p \in Ops, NEW N \in SUBSET LockNames, \A n \in N : Queued(p, n),
         line' = [n \in LockNames |-> IF n \in N THEN LeaveLine(line[n], p) ELSE line[n]],
         stage' \in [Ops -> Stages], target' \in [Ops -> LockNames],
         aborted' \in [Ops -> BOOLEAN],
         \A q \in Ops : q # p => stage'[q] = stage[q] /\ target'[q] = target[q],
         target'[p] = target[p] \/ (target'[p] = Tree /\ ~Queued(p, Tree)'),
         \A n \in LockNames : Stands(p, n)' <=> Stands(p, n) /\ n \notin N,
         \/ stage'[p] = "idle"
         \/ stage'[p] = "rejected" /\ target'[p] # Tree /\ Owns(p, Tree) /\ Tree \notin N
  PROVE  IInv'
<1>1. /\ line' \in [LockNames -> Seq(Entry(Ops))]
      /\ \A m \in LockNames : IsLine(line'[m], Ops)
      /\ \A q \in Ops, m \in LockNames :
           /\ Queued(q, m)' <=> Queued(q, m) /\ ~(q = p /\ m \in N)
           /\ (q # p \/ m \notin N) /\ Owns(q, m) => Owns(q, m)'
           /\ \A x : HasMode(q, line[m], x) => HasMode(q, line'[m], x)
  BY LeaveLines DEF IInv
<1>2. Tree \in LockNames /\ Types /\ Standing
  BY DEF LockNames, IInv
<1>3. Types'
  BY <1>1 DEF Types
<1>4. Standing'
  <2> SUFFICES ASSUME NEW q \in Ops, NEW n \in LockNames
               PROVE  Queued(q, n)' <=> Stands(q, n)'
    BY DEF Standing
  <2>1. CASE q = p
    BY <1>1, <1>2, <2>1 DEF Standing
  <2>2. CASE q # p
    <3>1. Stands(q, n)' <=> Stands(q, n)
      BY <2>2 DEF Stands
    <3> QED
      BY <1>1, <1>2, <2>2, <3>1 DEF Standing
  <2> QED
    BY <2>1, <2>2
<1>5. Exclusive'
  <2>1. \A q \in Ops, n \in Paths : HasMode(q, line'[n], "exclusive")
    BY <1>1 DEF Exclusive, IInv, LockNames
  <2>2. ASSUME NEW q \in Ops, target'[q] = Tree
        PROVE  HasMode(q, line'[Tree], "exclusive")
    <3>1. CASE target[q] = Tree
      BY <1>1, <1>2, <3>1 DEF Exclusive, IInv
    <3>2. CASE target[q] # Tree
      <4>1. ~InLine(q, line'[Tree])
        BY <2>2, <3>2 DEF Queued
      <4> QED
        BY <4>1 DEF HasMode, InLine
    <3> QED
      BY <3>1, <3>2
  <2> QED
    BY <2>1, <2>2 DEF Exclusive
<1>6. Granted'
  BY <1>1, <1>2 DEF Granted, IInv, Types
<1> QED
  BY <1>3, <1>4, <1>5, <1>6 DEF IInv

\* A rejected operation gives back the tree.
LEMMA GiveBackTreeKeeps ==
  ASSUME IInv, NEW p \in Ops, GiveBackTree(p)
  PROVE  IInv'
<1>1. /\ stage[p] = "rejected" /\ stage' = [stage EXCEPT ![p] = "idle"]
      /\ line' = [line EXCEPT ![Tree] = LeaveLine(@, p)]
      /\ target' = target /\ aborted' = aborted
      /\ Types /\ Standing /\ Tree \in LockNames
  BY DEF GiveBackTree, Become, IInv, LockNames
<1>2. Queued(p, Tree) /\ target[p] # Tree
  BY <1>1 DEF Standing, Stands, Granted, IInv
<1>3. line' = [m \in LockNames |-> IF m \in {Tree} THEN LeaveLine(line[m], p) ELSE line[m]]
  BY <1>1, LeaveOneLine
<1>4. /\ stage' \in [Ops -> Stages] /\ stage'[p] = "idle"
      /\ \A q \in Ops : q # p => stage'[q] = stage[q]
  BY <1>1 DEF Types, Stages
<1>5. \A n \in LockNames : Stands(p, n)' <=> Stands(p, n) /\ n \notin {Tree}
  BY <1>1, <1>2, <1>4 DEF Stands
<1>6. {Tree} \in SUBSET LockNames /\ \A n \in {Tree} : Queued(p, n)
  BY <1>1, <1>2
<1> QED
  BY <1>1, <1>3, <1>4, <1>5, <1>6, LeavingKeeps DEF Types

\* An abort takes a waiting operation out of the line it stands in.
LEMMA AbortSignalKeeps ==
  ASSUME IInv, NEW p \in Ops, AbortSignal(p)
  PROVE  IInv'
<1>1. /\ target' = target /\ aborted' \in [Ops -> BOOLEAN]
      /\ Types /\ Standing /\ Tree \in LockNames
  BY DEF AbortSignal, IInv, LockNames, Types
<1>2. CASE /\ stage[p] = "tree" /\ ~Owns(p, Tree)
           /\ line' = [line EXCEPT ![Tree] = LeaveLine(@, p)]
           /\ Become(p, "idle")
  <2>1. Queued(p, Tree)
    BY <1>1, <1>2 DEF Standing, Stands
  <2>2. line' = [m \in LockNames |-> IF m \in {Tree} THEN LeaveLine(line[m], p) ELSE line[m]]
    BY <1>1, <1>2, LeaveOneLine
  <2>3. /\ stage' \in [Ops -> Stages] /\ stage'[p] = "idle"
        /\ \A q \in Ops : q # p => stage'[q] = stage[q]
    BY <1>1, <1>2 DEF Types, Stages, Become
  <2>4. \A n \in LockNames : Stands(p, n)' <=> Stands(p, n) /\ n \notin {Tree}
    BY <1>1, <1>2, <2>3 DEF Stands
  <2>5. {Tree} \in SUBSET LockNames /\ \A n \in {Tree} : Queued(p, n)
    BY <1>1, <2>1
  <2> QED
    BY <1>1, <2>2, <2>3, <2>4, <2>5, LeavingKeeps DEF Types
<1>3. CASE /\ stage[p] = "file" /\ ~Owns(p, target[p])
           /\ line' = [line EXCEPT ![target[p]] = LeaveLine(@, p)]
           /\ Become(p, "rejected")
  <2> DEFINE t == target[p]
  <2>1. Queued(p, t) /\ t \in LockNames /\ t # Tree /\ Owns(p, Tree)
    BY <1>1, <1>3 DEF Standing, Stands, Granted, IInv, Types
  <2>2. line' = [m \in LockNames |-> IF m \in {t} THEN LeaveLine(line[m], p) ELSE line[m]]
    BY <1>1, <1>3, <2>1, LeaveOneLine
  <2>3. /\ stage' \in [Ops -> Stages] /\ stage'[p] = "rejected"
        /\ \A q \in Ops : q # p => stage'[q] = stage[q]
    BY <1>1, <1>3 DEF Types, Stages, Become
  <2>4. \A n \in LockNames : Stands(p, n)' <=> Stands(p, n) /\ n \notin {t}
    BY <1>1, <1>3, <2>1, <2>3 DEF Stands
  <2>5. {t} \in SUBSET LockNames /\ (\A n \in {t} : Queued(p, n)) /\ Tree \notin {t}
    BY <2>1
  <2>6. target'[p] = t
    BY <1>1
  <2>7. target' \in [Ops -> LockNames] /\ \A q \in Ops : target'[q] = target[q]
    BY <1>1 DEF Types
  <2> HIDE DEF t
  <2> QED
    BY <1>1, <2>1, <2>2, <2>3, <2>4, <2>5, <2>6, <2>7, LeavingKeeps DEF t
<1>4. CASE UNCHANGED <<line, stage>>
  <2>1. \A q \in Ops, n \in LockNames : /\ Queued(q, n)' <=> Queued(q, n)
                                        /\ Owns(q, n)' <=> Owns(q, n)
                                        /\ Stands(q, n)' <=> Stands(q, n)
    BY <1>1, <1>4 DEF Queued, Owns, Stands
  <2>2. Types' /\ Standing' /\ Exclusive'
    BY <1>1, <1>4, <2>1 DEF Types, Standing, Exclusive, IInv
  <2>3. Granted'
    BY <1>1, <1>4, <2>1 DEF Granted, IInv, Types
  <2> QED
    BY <2>2, <2>3 DEF IInv
<1> QED
  BY <1>2, <1>3, <1>4 DEF AbortSignal

\* An operation gives back all it holds.
LEMMA ReleaseLocksKeeps ==
  ASSUME IInv, NEW p \in Ops, ReleaseLocks(p)
  PROVE  IInv'
<1> DEFINE N == {Tree, target[p]}
<1>1. /\ stage[p] = "held" /\ stage' = [stage EXCEPT ![p] = "idle"]
      /\ line' = [n \in LockNames |-> IF n \in N THEN LeaveLine(line[n], p) ELSE line[n]]
      /\ target' = [target EXCEPT ![p] = Tree] /\ aborted' = aborted
  BY DEF ReleaseLocks, Become
<1>2. Types /\ Standing /\ Tree \in LockNames /\ target[p] \in LockNames
  BY DEF IInv, LockNames, Types
<1>3. N \in SUBSET LockNames /\ (\A n \in N : Queued(p, n)) /\ Tree \in N
  BY <1>1, <1>2 DEF Standing, Stands
<1>4. /\ stage' \in [Ops -> Stages] /\ stage'[p] = "idle"
      /\ target' \in [Ops -> LockNames] /\ target'[p] = Tree
      /\ aborted' \in [Ops -> BOOLEAN]
      /\ \A q \in Ops : q # p => stage'[q] = stage[q] /\ target'[q] = target[q]
  BY <1>1, <1>2 DEF Types, Stages
<1>5. \A n \in LockNames : Stands(p, n)' <=> Stands(p, n) /\ n \notin N
  BY <1>1, <1>4 DEF Stands
<1> HIDE DEF N
<1>6. ~Queued(p, Tree)'
  BY <1>1, <1>2, <1>3, LeaveLines
<1> QED
  BY <1>1, <1>3, <1>4, <1>5, <1>6, LeavingKeeps

\* Every step keeps the invariant.
LEMMA NextKeeps == IInv /\ [LockNext]_lockVars => IInv'
<1> SUFFICES ASSUME IInv, [LockNext]_lockVars
             PROVE  IInv'
  OBVIOUS
<1>1. ASSUME NEW p \in Ops, NEW t \in LockNames, AskTree(p, t)
      PROVE  IInv'
  BY <1>1, AskTreeKeeps
<1>2. ASSUME NEW p \in Ops, LockStep(p)
      PROVE  IInv'
  BY <1>2, TreeHeldKeeps, AskFileKeeps, FileHeldKeeps, GiveBackTreeKeeps DEF LockStep
<1>3. ASSUME NEW p \in Ops, AbortSignal(p)
      PROVE  IInv'
  BY <1>3, AbortSignalKeeps
<1>4. ASSUME NEW p \in Ops, ReleaseLocks(p)
      PROVE  IInv'
  BY <1>4, ReleaseLocksKeeps
<1>5. CASE UNCHANGED lockVars
  <2>1. line' = line /\ stage' = stage /\ target' = target /\ aborted' = aborted
    BY <1>5 DEF lockVars
  <2> QED
    BY <2>1 DEF IInv, Types, Standing, Stands, Exclusive, Granted, Queued, Owns
<1> QED
  BY <1>1, <1>2, <1>3, <1>4, <1>5 DEF LockNext

\* Nobody stands in any line at the start.
LEMMA InitHolds == LockInit => IInv
<1> SUFFICES ASSUME LockInit
             PROVE  IInv
  OBVIOUS
<1>1. Tree \in LockNames /\ Paths \subseteq LockNames
  BY DEF LockNames
<1>2. \A n \in LockNames : line[n] = <<>> /\ DOMAIN line[n] = {}
  BY DEF LockInit
<1>3. <<>> \in Seq(Entry(Ops)) /\ Len(<<>>) = 0
  BY EmptySeq
<1>4. ASSUME NEW n \in LockNames
      PROVE  IsLine(line[n], Ops)
  <2>1. line[n] \in Seq(Entry(Ops))
    BY <1>2, <1>3
  <2>2. 1 .. Len(line[n]) = {}
    BY <1>2, <1>3
  <2> QED
    BY <2>1, <2>2 DEF IsLine
<1>5. Types
  BY <1>1, <1>3, <1>4 DEF Types, LockInit, Stages
<1>6. Standing
  BY <1>2 DEF Standing, Stands, Queued, InLine, LockInit
<1>7. Exclusive
  BY <1>1, <1>2 DEF Exclusive, HasMode
<1>8. Granted
  BY DEF Granted, LockInit
<1> QED
  BY <1>5, <1>6, <1>7, <1>8 DEF IInv

----------------------------------------------------------------------------
(* The theorems.                                                           *)

\* The invariant holds of every reachable state, whatever is granted, refused,
\* cancelled or released.
THEOREM InvariantHolds == LockSpec => []IInv
<1> QED
  BY InitHolds, NextKeeps, PTL DEF LockSpec

\* Owning the gate exclusively, or one path, leaves no room for another holder.
LEMMA HoldersExclude == IInv => OperationsExclude
<1> SUFFICES ASSUME IInv, NEW p \in Ops, NEW q \in Ops, p # q,
                    stage[p] = "held", stage[q] = "held"
             PROVE  target[p] # target[q] /\ target[p] # Tree
  BY DEF OperationsExclude
<1>1. /\ Owns(p, Tree) /\ Owns(q, Tree)
      /\ Owns(p, target[p]) /\ Owns(q, target[q])
      /\ Tree \in LockNames /\ target[p] \in LockNames /\ target[q] \in LockNames
  BY DEF IInv, Granted, Types, LockNames
<1>2. \A n \in LockNames : IsLine(line[n], Ops)
  BY DEF IInv, Types
<1>3. ASSUME NEW n \in LockNames, HasMode(p, line[n], "exclusive"), Owns(p, n), Owns(q, n)
      PROVE  FALSE
  <2>1. IsLine(line[n], Ops) /\ p \in OwnersOf(line[n]) /\ q \in OwnersOf(line[n])
    BY <1>2, <1>3 DEF Owns
  <2>2. InLine(p, line[n])
    BY <2>1, OwnersStand
  <2> QED
    BY <1>3, <2>1, <2>2, OwnersShare
<1>4. target[p] # Tree
  BY <1>1, <1>3 DEF IInv, Exclusive
<1>5. target[p] # target[q]
  BY <1>1, <1>3, <1>4 DEF IInv, Exclusive, LockNames
<1> QED
  BY <1>4, <1>5

\* Two operations of MutationLocks never hold the same path, and none holds a
\* path while a tree operation holds the tree.
THEOREM OperationsAreExclusive == LockSpec => []OperationsExclude
<1> QED
  BY HoldersExclude, InvariantHolds, PTL

\* acquireFile and acquireTree leave nothing behind: an operation that failed,
\* was aborted or has released stands in no line.
THEOREM NothingIsLeaked == LockSpec => []NothingLeaked
<1>1. IInv => NothingLeaked
  BY MutationLocksAssumption DEF IInv, Standing, Stands, NothingLeaked
<1> QED
  BY <1>1, InvariantHolds, PTL

\* Nobody who asked for the gate after a waiting tree operation gets its locks
\* before it.
THEOREM TreeIsNotOvertaken == LockSpec => TreeNotOvertaken
<1>1. ASSUME IInv, [LockNext]_lockVars,
             NEW p \in Ops, NEW q \in Ops,
             stage[p] = "tree", target[p] = Tree, stage'[p] = "tree",
             stage[q] # "held", stage'[q] = "held"
      PROVE  PlaceOf(q, line[Tree]) < PlaceOf(p, line[Tree])
  <2>1. p # q
    BY <1>1
  <2>2. Owns(q, Tree)
    <3>1. CASE UNCHANGED lockVars
      BY <1>1, <3>1 DEF lockVars
    <3>2. ASSUME NEW r \in Ops, TreeHeld(r)
          PROVE  Owns(q, Tree)
      BY <1>1, <3>2 DEF TreeHeld, Become, IInv, Types
    <3>3. ASSUME NEW r \in Ops, FileHeld(r)
          PROVE  Owns(q, Tree)
      <4>1. r = q /\ stage[q] = "file"
        BY <1>1, <3>3 DEF FileHeld, Become, IInv, Types
      <4> QED
        BY <1>1, <4>1 DEF IInv, Granted
    <3>4. ASSUME NEW r \in Ops,
                 \/ \E t \in LockNames : AskTree(r, t)
                 \/ AskFile(r) \/ GiveBackTree(r) \/ AbortSignal(r) \/ ReleaseLocks(r)
          PROVE  FALSE
      BY <1>1, <3>4
         DEF AskTree, AskFile, GiveBackTree, AbortSignal, ReleaseLocks, Become, IInv, Types
    <3> QED
      BY <1>1, <3>1, <3>2, <3>3, <3>4 DEF LockNext, LockStep
  <2>3. Queued(p, Tree) /\ HasMode(p, line[Tree], "exclusive") /\ IsLine(line[Tree], Ops)
    BY <1>1 DEF IInv, Standing, Stands, Exclusive, Types, LockNames
  <2> QED
    BY <2>1, <2>2, <2>3, OwnersShare DEF Queued, Owns
<1>2. IInv /\ [LockNext]_lockVars =>
        [\A p, q \in Ops :
           /\ stage[p] = "tree" /\ target[p] = Tree /\ stage'[p] = "tree"
           /\ stage[q] # "held" /\ stage'[q] = "held"
           => PlaceOf(q, line[Tree]) < PlaceOf(p, line[Tree])]_lockVars
  BY <1>1
<1> QED
  BY <1>2, InvariantHolds, PTL DEF LockSpec, TreeNotOvertaken
=============================================================================
