------------------------------ MODULE MCFacade ------------------------------
(* Facade on small instances; see the README for the bounds.               *)
EXTENDS Facade

a == <<"a">>
b == <<"b">>
ax == <<"a", "x">>
bx == <<"b", "x">>

MCPaths == {a, b, ax, bx}

Tidy(t) == \A f \in MCPaths : t[f] # "absent" => t[Front(f)] = "dir"

\* Every well-formed tree over MCPaths.
AllTrees ==
  {t \in [MCPaths \cup {<<>>} -> {"absent", "dir", "old"}] :
     t[<<>>] = "dir" /\ Tidy(t)}

EmptyTree == {[f \in MCPaths \cup {<<>>} |-> IF f = <<>> THEN "dir" ELSE "absent"]}

C(op, path, to, flag) == [op |-> op, path |-> path, to |-> to, flag |-> flag]

SomeFileCalls ==
  {C("writeFile", f, f, FALSE) : f \in {a, ax, bx}} \cup
  {C("getFileHandle", ax, ax, FALSE), C("getFileHandle", b, b, FALSE)}

DirectoryCalls ==
  {C("mkdir", a, a, FALSE), C("mkdir", bx, bx, TRUE),
   C("getDirectoryHandle", ax, ax, FALSE), C("getDirectoryHandle", bx, bx, TRUE)}

SomeTreeCalls ==
  {C("remove", a, a, TRUE), C("remove", b, b, FALSE), C("copy", a, b, FALSE),
   C("copy", a, b, TRUE), C("copy", ax, bx, TRUE), C("move", b, a, TRUE),
   C("emptyDir", <<>>, <<>>, FALSE), C("emptyDir", a, a, FALSE)}

AllCalls == SomeFileCalls \cup DirectoryCalls \cup SomeTreeCalls

ParentsCalls == {C("writeFile", a, a, FALSE), C("writeFile", ax, ax, TRUE)}

(* Directories of three entries, for two concurrent children and a third   *)
(* that has to wait.                                                       *)
names == {"x", "y", "z"}

WidePaths == {a, b} \cup {<<d, n>> : d \in {"a", "b"}, n \in names}

WideTree(kind, bIsThere) ==
  [f \in WidePaths \cup {<<>>} |->
     IF f \in {<<>>, a} THEN "dir"
     ELSE IF f = b THEN (IF bIsThere THEN "dir" ELSE "absent")
     ELSE IF f[1] = "a" THEN kind[f[2]]
     ELSE IF bIsThere /\ f[2] = "x" THEN "old" ELSE "absent"]

\* At most one of the entries of a is a directory.
WideTrees ==
  {WideTree([n \in names |-> IF n = d THEN "dir" ELSE "old"], t) :
     d \in {"x", "y", "none"}, t \in BOOLEAN}

WideCalls ==
  {C("copy", a, b, TRUE), C("emptyDir", a, a, FALSE), C("writeFile", ax, ax, FALSE)}

Symmetry == Permutations(Ops)
=============================================================================
