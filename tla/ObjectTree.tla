----------------------------- MODULE ObjectTree -----------------------------
(***************************************************************************)
(* The tree that the object adapter (src/adapter/object.ts) reads in the   *)
(* keys of a bucket: files, markers of directories, and directories that   *)
(* only the keys below them imply.  A key is [path, slash]; one that ends  *)
(* with a slash marks its directory.  A listing comes in pages and by one  *)
(* level, as the list requests of src/s3.ts and src/azure.ts ask for it.   *)
(***************************************************************************)
EXTENDS Integers, SequencesExt

CONSTANT Names  \* names of entries, numbered in the order of their keys

ObjectRoot == <<>>

FileKey(p) == [path |-> p, slash |-> FALSE]

DirectoryKey(p) == [path |-> p, slash |-> TRUE]

\* The keys with the prefix of directory p, its own marker among them.
KeysIn(keys, p) ==
  {k \in keys : IsStrictPrefix(p, k.path) \/ k = DirectoryKey(p)}

\* The entry of a listing of p that stands for a key: the key itself, or the
\* prefix it has in common with others.
EntryOf(p, k) ==
  IF k.path = p THEN [name |-> 0, kind |-> "self"]
  ELSE [name |-> k.path[Len(p) + 1],
        kind |-> IF k.slash \/ Len(k.path) > Len(p) + 1 THEN "prefix" ELSE "object"]

Before(a, b) == a.name < b.name \/ (a.name = b.name /\ a.kind = "object" /\ b.kind # "object")

\* The entries of p in the order of their keys.
List(keys, p) == SetToSortSeq({EntryOf(p, k) : k \in KeysIn(keys, p)}, Before)

\* One page of it, from the cursor on.
Page(list, cursor, limit) ==
  SubSeq(list, cursor + 1, IF cursor + limit < Len(list) THEN cursor + limit ELSE Len(list))

Pages(list, limit) ==
  [n \in 1 .. (Len(list) + limit - 1) \div limit |-> Page(list, (n - 1) * limit, limit)]

----------------------------------------------------------------------------
(* ObjectAdapter.                                                          *)

GetFile(keys, p) == FileKey(p) \in keys

\* The marker, or one entry below.
GetDirectory(keys, p) ==
  p = ObjectRoot \/ DirectoryKey(p) \in keys \/ Page(List(keys, p), 0, 1) # <<>>

Stat(keys, p) ==
  IF p # ObjectRoot /\ GetFile(keys, p) THEN "file"
  ELSE IF GetDirectory(keys, p) THEN "directory" ELSE "none"

\* A page gives its prefixes first; its own marker is no child.
EntriesOf(page) ==
  SelectSeq(page, LAMBDA e : e.kind = "prefix") \o SelectSeq(page, LAMBDA e : e.kind = "object")

Seen(entries, name) == \E i \in DOMAIN entries : entries[i].name = name

\* Every page, and each name once.
ReadDir(keys, p, limit) ==
  FoldLeft(LAMBDA out, e : IF Seen(out, e.name) THEN out ELSE Append(out, e),
           <<>>, FlattenSeq([n \in DOMAIN Pages(List(keys, p), limit) |->
                               EntriesOf(Pages(List(keys, p), limit)[n])]))

Done(keys) == [keys |-> keys, ok |-> TRUE]

Refused(keys) == [keys |-> keys, ok |-> FALSE]

WriteFile(keys, p) ==
  IF ~GetFile(keys, p) /\ GetDirectory(keys, p) THEN Refused(keys)
  ELSE Done(keys \cup {FileKey(p)})

CreateDir(keys, p) ==
  IF GetFile(keys, p) THEN Refused(keys)
  ELSE IF GetDirectory(keys, p) THEN Done(keys)
  ELSE Done(keys \cup {DirectoryKey(p)})

\* Mutant: one entry is looked at, which may be the marker.
HasChildrenInOne(keys, p) ==
  \E i \in DOMAIN Page(List(keys, p), 0, 1) : List(keys, p)[i].kind # "self"

\* Two entries show a child beside the marker.
HasChildren(keys, p) ==
  \E i \in DOMAIN Page(List(keys, p), 0, 2) : List(keys, p)[i].kind # "self"

RemoveEntry(keys, p) ==
  IF GetFile(keys, p) THEN Done(keys \ {FileKey(p)})
  ELSE IF ~GetDirectory(keys, p) THEN Done(keys)
  ELSE IF HasChildren(keys, p) THEN Refused(keys)
  ELSE Done(keys \ {DirectoryKey(p)})

----------------------------------------------------------------------------
(* Properties of a set of keys.                                            *)

PathsOf(depth) == UNION {[1 .. n -> Names] : n \in 1 .. depth}

\* No path is a file and a directory at once: a listing would call it what the
\* page shows first, and stat a file.
Unambiguous(keys) == \A k \in keys : ~k.slash => KeysIn(keys, k.path) = {}

\* A listing gives each child once, of the kind that stat gives it, wherever
\* the pages end.
ListsItsChildren(keys, p, limit) ==
  LET entries == ReadDir(keys, p, limit)
      child(n) == Append(p, n)
      kind(e) == IF e.kind = "prefix" THEN "directory" ELSE "file"
  IN  /\ \A n \in Names : Stat(keys, child(n)) # "none" <=> Seen(entries, n)
      /\ \A i \in DOMAIN entries :
           /\ kind(entries[i]) = Stat(keys, child(entries[i].name))
           /\ \A j \in DOMAIN entries : entries[i].name = entries[j].name => i = j

\* What a change of p does not touch: whatever is neither p nor a directory
\* above it that has no marker and lives by the keys below.
Untouched(keys, p, q) == q # p /\ ~(IsStrictPrefix(q, p) /\ DirectoryKey(q) \notin keys)

ChangesOnly(keys, p, r, stat, depth) ==
  /\ r.ok => Stat(r.keys, p) = stat
  /\ ~r.ok => r.keys = keys
  /\ \A q \in PathsOf(depth) : Untouched(keys, p, q) => Stat(r.keys, q) = Stat(keys, q)

\* The adapter never removes a directory with something in it, never takes a
\* file for a directory, and changes nothing but the path it is given.
TreeExact(keys, depth) ==
  Unambiguous(keys) =>
    /\ \A p \in PathsOf(depth - 1) \cup {ObjectRoot}, limit \in 1 .. 3 :
         Stat(keys, p) = "directory" => ListsItsChildren(keys, p, limit)
    /\ \A p \in PathsOf(depth) :
         /\ ChangesOnly(keys, p, RemoveEntry(keys, p), "none", depth)
         /\ RemoveEntry(keys, p).ok <=>
              ~(Stat(keys, p) = "directory" /\ \E k \in KeysIn(keys, p) : k # DirectoryKey(p))
         /\ ChangesOnly(keys, p, WriteFile(keys, p), "file", depth)
         /\ WriteFile(keys, p).ok <=> Stat(keys, p) # "directory"
         /\ ChangesOnly(keys, p, CreateDir(keys, p), "directory", depth)
         /\ CreateDir(keys, p).ok <=> Stat(keys, p) # "file"
=============================================================================
