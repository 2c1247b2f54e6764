------------------------------- MODULE Facade -------------------------------
(***************************************************************************)
(* The mutating calls of FileSystemFacade (src/filesystem.ts) over the     *)
(* record adapter (src/adapter/record.ts), interleaved by the event loop   *)
(* and coordinated by MutationLocks.                                       *)
(*                                                                         *)
(* An async method is a program: the sequence of the awaits it has left.   *)
(* One step runs one await together with the synchronous code up to the    *)
(* next one, so between two steps of a call any other call may run.  The   *)
(* children that copy and emptyDir run concurrently are programs of their  *)
(* own.  Paths are sequences of names; a node is absent, a directory, or   *)
(* the content of a file, named by the call that wrote it.                 *)
(***************************************************************************)
EXTENDS MutationLocks

CONSTANTS
  Calls,       \* the calls an operation may make
  InitialTrees,\* the trees the storage may start with
  Concurrency, \* bound of the concurrent children
  MayFail,     \* whether the storage itself may fail
  NoCall       \* the operation runs no call

Nodes == Paths \cup {<<>>}

Content == Ops \cup {"old", "empty"}

FileCalls == {"writeFile", "getFileHandle"}

TreeCalls == {"mkdir", "getDirectoryHandle", "remove", "copy", "move", "emptyDir"}

Below(f) == {c \in Nodes : IsPrefix(f, c)}

\* Where copy(from, to) puts a descendant c of from.
Target(c, from, to) == to \o SubSeq(c, Len(from) + 1, Len(c))

\* A tree of records: nothing lies below anything but a directory.
WellFormed(t) ==
  /\ t[<<>>] = "dir"
  /\ \A f \in Paths : t[f] # "absent" => \A k \in 0 .. Len(f) - 1 : t[SubSeq(f, 1, k)] = "dir"

\* A call has a path that its method accepts: copy and move refuse paths that
\* overlap, and only emptyDir has something to do at the root.  The paths of an
\* instance are closed: under ancestors, and under what a copy would create.
ASSUME FacadeAssumption ==
  /\ IsFiniteSet(Paths) /\ Paths \subseteq Seq(STRING) \ {<<>>}
  /\ \A f \in Paths : \A k \in 0 .. Len(f) - 1 : SubSeq(f, 1, k) \in Nodes
  /\ Content \cap {"absent", "dir"} = {}
  /\ InitialTrees \subseteq [Nodes -> Content \cup {"absent", "dir"}]
  /\ \A t \in InitialTrees : WellFormed(t)
  /\ Calls \subseteq [op : FileCalls \cup TreeCalls, path : Nodes, to : Nodes, flag : BOOLEAN]
  /\ \A c \in Calls :
       /\ c.op # "emptyDir" => c.path \in Paths
       /\ c.op \in {"copy", "move"} =>
            /\ ~IsPrefix(c.path, c.to) /\ ~IsPrefix(c.to, c.path)
            /\ \A f \in Below(c.path) : Target(f, c.path, c.to) \in Nodes
  /\ Concurrency \in Nat \ {0}
  /\ MayFail \in BOOLEAN
  /\ NoCall \notin Calls

VARIABLES
  node,   \* path -> what the record driver stores under it
  call,   \* operation -> the call it runs
  todo,   \* operation -> the awaits its call has left
  kids,   \* operation -> the programs of its active children
  failed  \* operation -> its call threw or one of its children did

facadeVars == <<lockVars, node, call, todo, kids, failed>>

IsFile(f) == node[f] \in Content

IsDirectory(f) == node[f] = "dir"

IsAbsent(f) == node[f] = "absent"

dirname(f) == Front(f)

Children(f) == {c \in Paths : dirname(c) = f /\ ~IsAbsent(c)}

----------------------------------------------------------------------------
(* Programs.                                                               *)

I(do, f) == [do |-> do, path |-> f, to |-> f, flag |-> FALSE, data |-> "old"]

If(b, prog) == IF b THEN prog ELSE <<>>

\* ensureParents(f): every component from the root to f itself.
EnsureParents(f) == [i \in 1 .. Len(f) |-> I("ensure", SubSeq(f, 1, i))]

\* Mutant: the parent is not checked.
WriteProgramAnywhere(c, p) ==
  <<I("lock", c.path)>> \o If(c.flag, EnsureParents(dirname(c.path))) \o
  <<I("notDir", c.path), [I("write", c.path) EXCEPT !.data = p], I("unlock", c.path)>>

WriteProgram(c, p) ==
  <<I("lock", c.path)>> \o If(c.flag, EnsureParents(dirname(c.path))) \o
  <<I("parentDir", c.path), I("notDir", c.path),
    [I("write", c.path) EXCEPT !.data = p], I("unlock", c.path)>>

GetFileHandleProgram(c) ==
  <<I("lookup", c.path), I("lock", c.path)>> \o
  If(c.flag, EnsureParents(dirname(c.path))) \o
  <<I("parentDir", c.path), I("createFile", c.path), I("unlock", c.path)>>

MkdirProgram(c) ==
  <<I("lock", Tree)>> \o
  (IF c.flag THEN EnsureParents(c.path)
   ELSE <<I("missing", c.path), I("parentDir", c.path), I("createDir", c.path)>>) \o
  <<I("unlock", Tree)>>

GetDirectoryHandleProgram(c) ==
  <<I("lock", Tree)>> \o
  (IF c.flag THEN EnsureParents(c.path)
   ELSE <<I("parentDir", c.path), I("ensure", c.path)>>) \o
  <<I("unlock", Tree)>>

\* Mutant: only the lock of the path is taken.
RemoveProgramOfFile(f, recursive) ==
  <<I("lock", f), [I("remove", f) EXCEPT !.flag = recursive], I("unlock", f)>>

RemoveProgram(f, recursive) ==
  <<I("lock", Tree), [I("remove", f) EXCEPT !.flag = recursive], I("unlock", Tree)>>

CopyProgram(c) ==
  <<I("lock", Tree), [I("source", c.path) EXCEPT !.to = c.to, !.flag = c.flag],
    I("unlock", Tree)>>

\* Without a native rename: copy, then remove, each with its own tree lock.
MoveProgram(c) == CopyProgram(c) \o RemoveProgram(c.path, TRUE)

EmptyDirProgram(c) ==
  <<I("isDir", c.path), I("lock", Tree), I("empty", c.path), I("unlock", Tree)>>

Program(c, p) ==
  CASE c.op = "writeFile" -> WriteProgram(c, p)
    [] c.op = "getFileHandle" -> GetFileHandleProgram(c)
    [] c.op = "mkdir" -> MkdirProgram(c)
    [] c.op = "getDirectoryHandle" -> GetDirectoryHandleProgram(c)
    [] c.op = "remove" -> RemoveProgram(c.path, c.flag)
    [] c.op = "copy" -> CopyProgram(c)
    [] c.op = "move" -> MoveProgram(c)
    [] c.op = "emptyDir" -> EmptyDirProgram(c)

----------------------------------------------------------------------------
(* One await of a program: the head i is replaced by what the await leaves *)
(* to do in its place.                                                     *)

\* The head throws instead: what it finds is not what it needs.
Refuses(i) ==
  \/ i.do \in {"ensure", "createDir"} /\ IsFile(i.path)
  \/ i.do = "parentDir" /\ ~IsDirectory(dirname(i.path))
  \/ i.do \in {"notDir", "write", "lookup"} /\ IsDirectory(i.path)
  \/ i.do = "missing" /\ ~IsAbsent(i.path)
  \/ i.do = "source" /\ IsAbsent(i.path)
  \/ i.do = "destination" /\ ~IsAbsent(i.path) /\ ~i.flag
  \/ i.do = "isDir" /\ ~IsDirectory(i.path)
  \/ i.do \in {"copyFile", "read"} /\ ~IsFile(i.path)
  \/ i.do = "list" /\ Children(i.path) # {} /\ ~i.flag

\* One component of ensureParents.
Ensure(i) == If(IsAbsent(i.path), <<I("createDir", i.path)>>)

\* RecordAdapter.createDir reads the record first ...
CreateDir(i) == If(IsAbsent(i.path), <<I("setDir", i.path)>>)

\* ... and RecordAdapter.writeFile too; driver.set is a second await.
WriteFile(i) == <<[i EXCEPT !.do = "setFile"]>>

\* The recheck of getFileHandle under the lock.
CreateFile(i) == If(IsAbsent(i.path), <<[I("write", i.path) EXCEPT !.data = "empty"]>>)

\* #removeUnlocked: stat, then the listing of a directory, then its children
\* one by one, then the entry itself.
RemoveUnlocked(i) ==
  IF IsAbsent(i.path) THEN <<>>
  ELSE IF IsFile(i.path) THEN <<I("delete", i.path)>>
  ELSE <<[i EXCEPT !.do = "list"]>>

RemoveAll(S) ==
  LET q == SetToSeq(S) IN [k \in 1 .. Len(q) |-> [I("remove", q[k]) EXCEPT !.flag = TRUE]]

\* Mutant: the children are left where they are.
ListShallow(i) == <<I("delete", i.path)>>

List(i) == RemoveAll(Children(i.path)) \o <<I("delete", i.path)>>

\* #copyFileUnlocked without native copy: stat, read, write.
CopyFile(i) == <<[i EXCEPT !.do = "read"]>>

ReadFile(i) == <<[I("write", i.to) EXCEPT !.data = node[i.path]]>>

\* copy: the stat of the source decides what is done once the destination is
\* cleared and its parents exist.
CopyInto(i) ==
  EnsureParents(dirname(i.to)) \o
  (IF IsFile(i.path) THEN <<[i EXCEPT !.do = "copyFile"]>>
   ELSE <<I("createDir", i.to), [i EXCEPT !.do = "walk"]>>)

\* Mutant: the source is cleared in place of the destination.
SourceCleared(i) == <<[I("destination", i.path) EXCEPT !.flag = i.flag]>> \o CopyInto(i)

Source(i) == <<[I("destination", i.to) EXCEPT !.flag = i.flag]>> \o CopyInto(i)

\* Mutant: an existing destination is merged into.
DestinationMerged(i) == <<>>

Destination(i) == If(~IsAbsent(i.path), <<[I("remove", i.path) EXCEPT !.flag = TRUE]>>)

\* One directory of #walkAdapter: a file becomes a child, a directory is
\* created at once and walked in turn.
Walk(i) ==
  LET q == SetToSeq(Children(i.path)) IN
  [k \in 1 .. Len(q) |->
     [I(IF IsFile(q[k]) THEN "spawnCopy" ELSE "entryDir", q[k])
        EXCEPT !.to = Target(q[k], i.path, i.to)]]

\* emptyDir lists the directory and removes every entry as a child.
Empty(i) ==
  LET q == SetToSeq(Children(i.path)) IN [k \in 1 .. Len(q) |-> I("spawnRemove", q[k])]

\* What a read of the storage leaves to do; a check that passes leaves nothing.
After(i) ==
  CASE i.do = "ensure" -> Ensure(i)
    [] i.do = "createDir" -> CreateDir(i)
    [] i.do = "write" -> WriteFile(i)
    [] i.do = "createFile" -> CreateFile(i)
    [] i.do = "remove" -> RemoveUnlocked(i)
    [] i.do = "list" -> List(i)
    [] i.do = "copyFile" -> CopyFile(i)
    [] i.do = "read" -> ReadFile(i)
    [] i.do = "source" -> Source(i)
    [] i.do = "destination" -> Destination(i)
    [] i.do = "walk" -> Walk(i)
    [] i.do = "empty" -> Empty(i)
    [] OTHER -> <<>>

Reads ==
  {"parentDir", "notDir", "missing", "isDir", "ensure", "createDir", "write", "createFile",
   "remove", "list", "copyFile", "read", "source", "destination", "walk", "empty"}

Read(i) == i.do \in Reads /\ UNCHANGED node

\* driver.set of a directory or of a whole file.
SetRecord(i) ==
  /\ i.do \in {"setDir", "setFile"}
  /\ node' = [node EXCEPT ![i.path] = IF i.do = "setDir" THEN "dir" ELSE i.data]

Delete(i) == i.do = "delete" /\ node' = [node EXCEPT ![i.path] = "absent"]

Await(i) == ~Refuses(i) /\ (Read(i) \/ SetRecord(i) \/ Delete(i))

----------------------------------------------------------------------------
(* The steps of a call.                                                    *)

At(p, dos) == todo[p] # <<>> /\ Head(todo[p]).do \in dos

Proceed(p, new) == todo' = [todo EXCEPT ![p] = new \o Tail(@)]

\* The call returns or throws when nothing is left of its program.
MayEnd(p) ==
  /\ call' = [call EXCEPT ![p] = IF todo'[p] = <<>> THEN NoCall ELSE @]
  /\ failed' = [failed EXCEPT ![p] = @ /\ todo'[p] # <<>>]

FacadeInit ==
  /\ LockInit
  /\ node \in InitialTrees
  /\ call = [p \in Ops |-> NoCall]
  /\ todo = [p \in Ops |-> <<>>]
  /\ kids = [p \in Ops |-> {}]
  /\ failed = [p \in Ops |-> FALSE]

Start(p, c) ==
  /\ todo[p] = <<>>
  /\ call' = [call EXCEPT ![p] = c]
  /\ todo' = [todo EXCEPT ![p] = Program(c, p)]
  /\ failed' = [failed EXCEPT ![p] = FALSE]
  /\ UNCHANGED <<lockVars, node, kids>>

\* The call asks for its lock, and later resumes with it.
AskLock(p) ==
  /\ At(p, {"lock"}) /\ AskTree(p, Head(todo[p]).path)
  /\ UNCHANGED <<node, call, todo, kids, failed>>

ResumeLocking(p) ==
  /\ At(p, {"lock"})
  /\ \/ (TreeHeld(p) \/ FileHeld(p)) /\ Proceed(p, <<>>)
     \/ AskFile(p) /\ UNCHANGED todo
  /\ UNCHANGED <<node, call, kids, failed>>

\* Mutant: the lock is released while children are still running.
UnlockEarly(p) ==
  /\ At(p, {"unlock"})
  /\ ReleaseLocks(p)
  /\ todo' = [todo EXCEPT ![p] = IF failed[p] THEN <<>> ELSE Tail(@)]
  /\ MayEnd(p)
  /\ UNCHANGED <<node, kids>>

\* The finally block, once every started child has settled.
Unlock(p) ==
  /\ At(p, {"unlock"}) /\ kids[p] = {}
  /\ ReleaseLocks(p)
  /\ todo' = [todo EXCEPT ![p] = IF failed[p] THEN <<>> ELSE Tail(@)]
  /\ MayEnd(p)
  /\ UNCHANGED <<node, kids>>

\* The first stat of getFileHandle: an existing file needs no creation.
Lookup(p) ==
  LET f == Head(todo[p]).path IN
  /\ At(p, {"lookup"}) /\ ~IsDirectory(f)
  /\ todo' = [todo EXCEPT ![p] = IF IsFile(f) THEN <<>> ELSE Tail(@)]
  /\ MayEnd(p)
  /\ UNCHANGED <<lockVars, node, kids>>

MainAwait(p) ==
  /\ todo[p] # <<>>
  /\ Await(Head(todo[p])) /\ Proceed(p, After(Head(todo[p])))
  /\ UNCHANGED <<lockVars, call, kids, failed>>

\* Mutant: an exception skips the release.
UnwindWithoutFinally(p) == todo' = [todo EXCEPT ![p] = <<>>]

Unwind(p) == todo' = [todo EXCEPT ![p] = If(stage[p] = "held", <<I("unlock", target[p])>>)]

\* The method throws: the rest of the call is skipped up to its finally block.
Throw(p) ==
  /\ todo[p] # <<>> /\ ~At(p, {"lock", "unlock", "spawnCopy", "spawnRemove", "entryDir"})
  /\ Refuses(Head(todo[p])) \/ MayFail
  /\ Unwind(p)
  /\ call' = [call EXCEPT ![p] = IF stage[p] = "held" THEN @ ELSE NoCall]
  /\ failed' = [failed EXCEPT ![p] = stage[p] = "held"]
  /\ UNCHANGED <<lockVars, node, kids>>

\* The next entry of a copy's walk is taken only if no child has failed.
EntryDir(p) ==
  /\ At(p, {"entryDir"}) /\ ~failed[p]
  /\ Proceed(p, <<I("createDir", Head(todo[p]).to), [Head(todo[p]) EXCEPT !.do = "walk"]>>)
  /\ UNCHANGED <<lockVars, node, call, kids, failed>>

BreakWalk(p) ==
  /\ At(p, {"entryDir", "spawnCopy"}) /\ failed[p]
  /\ Unwind(p)
  /\ UNCHANGED <<lockVars, node, call, kids, failed>>

\* trackConcurrent starts a child while fewer than Concurrency are active.
Spawn(p) ==
  LET i == Head(todo[p]) IN
  /\ At(p, {"spawnCopy", "spawnRemove"}) /\ (i.do = "spawnCopy" => ~failed[p])
  /\ Cardinality(kids[p]) < Concurrency
  /\ kids' = [kids EXCEPT ![p] = @ \cup
       {<<IF i.do = "spawnCopy" THEN [i EXCEPT !.do = "copyFile"]
          ELSE [i EXCEPT !.do = "remove", !.flag = TRUE]>>}]
  /\ Proceed(p, <<>>)
  /\ UNCHANGED <<lockVars, node, call, failed>>

KidAwait(p, k) ==
  /\ k \in kids[p]
  /\ Await(Head(k))
  /\ kids' = [kids EXCEPT ![p] = (@ \ {k}) \cup ({After(Head(k)) \o Tail(k)} \ {<<>>})]
  /\ UNCHANGED <<lockVars, call, todo, failed>>

\* A child fails.  A loop that awaits Promise.race for a free place throws.
KidThrow(p, k) ==
  /\ k \in kids[p]
  /\ Refuses(Head(k)) \/ MayFail
  /\ kids' = [kids EXCEPT ![p] = @ \ {k}]
  /\ failed' = [failed EXCEPT ![p] = TRUE]
  /\ IF At(p, {"spawnCopy", "spawnRemove"}) /\ Cardinality(kids[p]) >= Concurrency
     THEN Unwind(p) ELSE UNCHANGED todo
  /\ UNCHANGED <<lockVars, node, call>>

CallStep(p) ==
  \/ AskLock(p) \/ ResumeLocking(p) \/ Unlock(p) \/ Lookup(p) \/ MainAwait(p)
  \/ Throw(p) \/ EntryDir(p) \/ BreakWalk(p) \/ Spawn(p)

KidStep(p) == \E k \in kids[p] : KidAwait(p, k) \/ KidThrow(p, k)

FacadeNext ==
  \E p \in Ops :
    (\E c \in Calls : Start(p, c)) \/ CallStep(p) \/ KidStep(p)

FacadeSpec == FacadeInit /\ [][FacadeNext]_facadeVars

\* A started call and its children keep running: the event loop resumes every
\* settled promise and the storage answers, with a result or a failure.
FacadeFairSpec ==
  /\ FacadeSpec
  /\ \A p \in Ops : WF_facadeVars(CallStep(p)) /\ WF_facadeVars(KidStep(p))

----------------------------------------------------------------------------
(* Properties.                                                             *)

\* The call p has done all its work without an error and is about to release.
Succeeding(p, ops) ==
  At(p, {"unlock"}) /\ kids[p] = {} /\ ~failed[p] /\ call[p].op \in ops

\* A file in the middle of a path: nothing exists below anything but a
\* directory.  ensureParents and the parent checks are there for this.
ParentIsDirectory ==
  \A f \in Paths : ~IsAbsent(f) => IsDirectory(dirname(f))

\* writeFile returns only when its content is in place, whatever other writes,
\* copies and removals the event loop ran between its checks and its set.
WriteTakesEffect ==
  \A p \in Ops : Succeeding(p, {"writeFile"}) => node[call[p].path] = p

\* A copy that returns left the destination equal to the source, entry by
\* entry and with nothing else below it.
CopyIsExact ==
  \A p \in Ops : Succeeding(p, {"copy"}) =>
    LET c == call[p] IN
    /\ \A f \in Below(c.path) : ~IsAbsent(f) => node[Target(f, c.path, c.to)] = node[f]
    /\ \A f \in Below(c.to) : ~IsAbsent(f) => ~IsAbsent(Target(f, c.to, c.path))

\* A call that clears, removes or replaces leaves no descendant behind.
RemoveIsComplete ==
  \A p \in Ops :
    /\ Succeeding(p, {"remove"}) => \A f \in Below(call[p].path) : IsAbsent(f)
    /\ Succeeding(p, {"emptyDir"}) => Children(call[p].path) = {}

\* No child of copy or emptyDir is still writing once the tree lock is gone,
\* "even when one sibling has already failed" (settleConcurrent).
NoStragglers ==
  \A p \in Ops : kids[p] # {} => stage[p] = "held" /\ target[p] = Tree

\* While a copy holds the tree nobody, itself included, changes its source.
CopySourceIsStable ==
  [][\A p \in Ops :
       stage[p] = "held" /\ stage'[p] = "held" /\ call[p].op = "copy"
       => \A f \in Below(call[p].path) : node'[f] = node[f]]_facadeVars

\* Every call returns: no interleaving of locks, children and failures leaves
\* a call waiting for ever.
EveryCallReturns == \A p \in Ops : todo[p] # <<>> ~> todo[p] = <<>>
=============================================================================
