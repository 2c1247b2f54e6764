---------------------------- MODULE FacadeProofs ----------------------------
(***************************************************************************)
(* Proofs about Facade, for any number of calls, any tree of paths and any *)
(* bound of the concurrent children.                                       *)
(***************************************************************************)
EXTENDS Facade, MutationLocksProofs, FiniteSetTheorems

Names == Seq(STRING)

----------------------------------------------------------------------------
(* Paths.                                                                  *)

\* One path is a prefix of another if they agree name by name.
LEMMA PrefixByName ==
  ASSUME NEW f \in Names, NEW g \in Names
  PROVE  IsPrefix(f, g) <=> Len(f) <= Len(g) /\ \A k \in 1 .. Len(f) : f[k] = g[k]
<1>1. Len(f) \in Nat /\ Len(g) \in Nat
  BY LenProperties DEF Names
<1>2. CASE Len(f) <= Len(g)
  <2>1. /\ SubSeq(f, 1, Len(f)) \in Names /\ Len(SubSeq(f, 1, Len(f))) = Len(f)
        /\ \A k \in 1 .. Len(f) : SubSeq(f, 1, Len(f))[k] = f[k]
    <3>1. \A k \in 1 .. Len(f) : f[k] \in STRING
      BY ElementOfSeq DEF Names
    <3> QED
      BY <1>1, <3>1, SubSeqProperties DEF Names
  <2>2. /\ SubSeq(g, 1, Len(f)) \in Names /\ Len(SubSeq(g, 1, Len(f))) = Len(f)
        /\ \A k \in 1 .. Len(f) : SubSeq(g, 1, Len(f))[k] = g[k]
    <3>1. \A k \in 1 .. Len(f) : g[k] \in STRING
      BY <1>1, <1>2, ElementOfSeq DEF Names
    <3> QED
      BY <1>1, <3>1, SubSeqProperties DEF Names
  <2>3. SubSeq(f, 1, Len(f)) = SubSeq(g, 1, Len(f)) <=> \A k \in 1 .. Len(f) : f[k] = g[k]
    <3> DEFINE u == SubSeq(f, 1, Len(f))
               v == SubSeq(g, 1, Len(f))
    <3>1. u \in Seq(STRING) /\ v \in Seq(STRING) /\ Len(u) = Len(v) /\ Len(u) = Len(f)
      BY <2>1, <2>2 DEF Names
    <3>2. \A k \in 1 .. Len(f) : u[k] = f[k] /\ v[k] = g[k]
      BY <2>1, <2>2
    <3> HIDE DEF u, v
    <3>3. (\A k \in 1 .. Len(u) : u[k] = v[k]) => u = v
      BY <3>1, SeqEqual
    <3> QED
      BY <3>1, <3>2, <3>3 DEF u, v
  <2> QED
    BY <1>2, <2>3 DEF IsPrefix
<1>3. CASE ~(Len(f) <= Len(g))
  BY <1>3 DEF IsPrefix
<1> QED
  BY <1>2, <1>3

\* Prefixes of prefixes, and two prefixes of one path.
LEMMA PrefixOrder ==
  ASSUME NEW f \in Names, NEW g \in Names, NEW h \in Names, IsPrefix(g, h)
  PROVE  /\ IsPrefix(f, g) => IsPrefix(f, h)
         /\ IsPrefix(f, h) => IsPrefix(f, g) \/ IsPrefix(g, f)
<1>1. Len(f) \in Nat /\ Len(g) \in Nat /\ Len(h) \in Nat
  BY LenProperties DEF Names
<1>2. /\ IsPrefix(f, g) <=> Len(f) <= Len(g) /\ \A k \in 1 .. Len(f) : f[k] = g[k]
      /\ IsPrefix(g, f) <=> Len(g) <= Len(f) /\ \A k \in 1 .. Len(g) : g[k] = f[k]
      /\ IsPrefix(f, h) <=> Len(f) <= Len(h) /\ \A k \in 1 .. Len(f) : f[k] = h[k]
      /\ Len(g) <= Len(h) /\ \A k \in 1 .. Len(g) : g[k] = h[k]
  BY PrefixByName
<1>3. IsPrefix(f, g) => IsPrefix(f, h)
  BY <1>1, <1>2
<1>4. ASSUME IsPrefix(f, h)
      PROVE  IsPrefix(f, g) \/ IsPrefix(g, f)
  <2>1. CASE Len(f) <= Len(g)
    BY <1>1, <1>2, <1>4, <2>1
  <2>2. CASE Len(g) <= Len(f)
    BY <1>1, <1>2, <1>4, <2>2
  <2> QED
    BY <1>1, <2>1, <2>2
<1> QED
  BY <1>3, <1>4

\* The ancestors of a path, the path itself among them.
LEMMA Ancestors ==
  ASSUME NEW f \in Names, NEW k \in 0 .. Len(f)
  PROVE  /\ SubSeq(f, 1, k) \in Names /\ Len(SubSeq(f, 1, k)) = k
         /\ IsPrefix(SubSeq(f, 1, k), f)
<1> DEFINE a == SubSeq(f, 1, k)
<1>1. Len(f) \in Nat
  BY LenProperties DEF Names
<1>2. \A j \in 1 .. k : f[j] \in STRING
  BY <1>1, ElementOfSeq DEF Names
<1>3. a \in Names /\ Len(a) = k /\ \A j \in 1 .. k : a[j] = f[j]
  BY <1>1, <1>2, SubSeqProperties DEF Names
<1> HIDE DEF a
<1>4. IsPrefix(a, f)
  BY <1>1, <1>3, PrefixByName
<1> QED
  BY <1>3, <1>4 DEF a

\* What lies in a directory extends its path by one name.
LEMMA InDirectory ==
  ASSUME NEW f \in Names, NEW c \in Names \ {<<>>}, dirname(c) = f
  PROVE  Len(c) = Len(f) + 1 /\ IsPrefix(f, c)
<1>1. Len(c) \in Nat \ {0}
  BY EmptySeq DEF Names
<1>2. Len(c) - 1 \in 0 .. Len(c)
  BY <1>1
<1>3. f = SubSeq(c, 1, Len(c) - 1)
  BY DEF dirname, Front
<1>4. Len(f) = Len(c) - 1 /\ IsPrefix(f, c)
  BY <1>2, <1>3, Ancestors
<1> QED
  BY <1>1, <1>4

\* The place of a copy extends the place its directory is copied to.
LEMMA TargetExtends ==
  ASSUME NEW c \in Names, NEW f \in Names, NEW t \in Names, Len(f) <= Len(c)
  PROVE  Target(c, f, t) \in Names /\ IsPrefix(t, Target(c, f, t))
<1> DEFINE s == SubSeq(c, Len(f) + 1, Len(c))
<1>1. Len(f) \in Nat /\ Len(c) \in Nat /\ Len(t) \in Nat
  BY LenProperties DEF Names
<1>2. \A k \in Len(f) + 1 .. Len(c) : c[k] \in STRING
  BY <1>1, ElementOfSeq DEF Names
<1>3. s \in Names
  BY <1>1, <1>2, SubSeqProperties DEF Names
<1> HIDE DEF s
<1>4. Len(s) \in Nat
  BY <1>3, LenProperties DEF Names
<1>5. /\ t \o s \in Names /\ Len(t \o s) = Len(t) + Len(s)
      /\ \A k \in 1 .. Len(t) + Len(s) : (t \o s)[k] = IF k <= Len(t) THEN t[k] ELSE s[k - Len(t)]
  BY <1>3, ConcatProperties DEF Names
<1> DEFINE u == t \o s
<1>6. u \in Names /\ Len(u) = Len(t) + Len(s) /\ \A k \in 1 .. Len(t) : u[k] = t[k]
  BY <1>1, <1>4, <1>5
<1> HIDE DEF u
<1>7. IsPrefix(t, u)
  BY <1>1, <1>4, <1>6, PrefixByName
<1> QED
  BY <1>6, <1>7 DEF Target, s, u

\* The entries of a directory in the order the driver lists them.
LEMMA Listing ==
  ASSUME NEW f
  PROVE  /\ Children(f) \subseteq Paths
         /\ SetToSeq(Children(f)) \in Seq(Children(f))
<1>1. IsFiniteSet(Paths) /\ Children(f) \in SUBSET Paths
  BY FacadeAssumption DEF Children
<1>2. IsFiniteSet(Children(f))
  BY <1>1, FS_Subset
<1>3. PICK n \in Nat : n = Cardinality(Children(f)) /\ ExistsBijection(1 .. n, Children(f))
  BY <1>2, FS_CardinalityType
<1>4. PICK q \in [1 .. n -> Children(f)] : IsInjective(q)
  BY <1>3 DEF ExistsBijection, Bijection, Injection, Surjection, IsInjective
<1>5. SetToSeq(Children(f)) \in [1 .. n -> Children(f)]
  BY <1>3, <1>4 DEF SetToSeq
<1> QED
  BY <1>1, <1>3, <1>5

----------------------------------------------------------------------------
(* What a program may do: it creates, checks and writes at the paths of Z,  *)
(* and clears and copies below those of D.                                 *)

Makes == {"ensure", "createDir", "setDir", "write", "setFile", "createFile", "delete",
          "missing", "parentDir", "notDir"}

Clears == {"remove", "list", "destination", "spawnRemove", "empty"}

Copies == {"copyFile", "read", "spawnCopy", "walk", "entryDir"}

Deeds == Makes \cup Clears \cup Copies \cup {"source"}

Work(Z, D) ==
  {i \in [do : Deeds, path : Names, to : Names, flag : BOOLEAN, data : Content] :
     \/ i.do \in Makes /\ i.path \in Z
     \/ i.do \in Clears /\ i.path \in D
     \/ i.do \in Copies /\ i.to \in D
     \/ /\ i.do = "source" /\ i.to \in D /\ i.to # <<>>
        /\ \A k \in 1 .. Len(i.to) : SubSeq(i.to, 1, k) \in Z}

\* A call that clears a directory may clear all that lies below it.
Ground(Z, D) ==
  /\ Z \subseteq Names /\ D \subseteq Z
  /\ \A f \in D, g \in Names : IsPrefix(f, g) => g \in D

\* The same await with another name, on the same paths.
LEMMA RenamedWork ==
  ASSUME NEW Z, NEW D, Ground(Z, D), NEW i \in Work(Z, D), NEW do \in Deeds,
         \/ do \in Makes /\ i.path \in Z
         \/ do \in Clears /\ i.path \in D
         \/ do \in Copies /\ i.to \in D
  PROVE  [i EXCEPT !.do = do] \in Work(Z, D)
BY DEF Work

\* A program of one await, of two, and one after the other.
LEMMA Programs ==
  ASSUME NEW S
  PROVE  /\ <<>> \in Seq(S)
         /\ \A x \in S : <<x>> \in Seq(S)
         /\ \A x, y \in S : <<x, y>> \in Seq(S)
         /\ \A q, r \in Seq(S) : q \o r \in Seq(S)
         /\ \A n \in Nat : \A q \in [1 .. n -> S] : q \in Seq(S)
         /\ \A b \in BOOLEAN, q \in Seq(S) : If(b, q) \in Seq(S)
BY DEF If

\* ensureParents stays at the ancestors of its path.
LEMMA EnsureWork ==
  ASSUME NEW Z, NEW D, Ground(Z, D), NEW f \in Names,
         \A k \in 1 .. Len(f) : SubSeq(f, 1, k) \in Z
  PROVE  EnsureParents(f) \in Seq(Work(Z, D))
<1>1. Len(f) \in Nat
  BY LenProperties DEF Names
<1>2. ASSUME NEW k \in 1 .. Len(f)
      PROVE  I("ensure", SubSeq(f, 1, k)) \in Work(Z, D)
  <2> DEFINE g == SubSeq(f, 1, k)
  <2>1. g \in Z /\ g \in Names /\ "ensure" \in Makes
    BY DEF Ground, Makes
  <2> HIDE DEF g
  <2>2. TRUE \in BOOLEAN /\ "old" \in Content
    BY DEF Content
  <2>3. I("ensure", g) \in Work(Z, D)
    BY <2>1, <2>2 DEF I, Work, Deeds
  <2> QED
    BY <2>3 DEF g
<1>3. EnsureParents(f) \in [1 .. Len(f) -> Work(Z, D)]
  BY <1>2 DEF EnsureParents
<1> QED
  BY <1>1, <1>3, Programs

\* Removing, listing and copying the entries of a directory.
LEMMA EntriesWork ==
  ASSUME NEW Z, NEW D, Ground(Z, D), NEW f \in Names
  PROVE  /\ f \in D => /\ RemoveAll(Children(f)) \in Seq(Work(Z, D))
                       /\ Empty(I("empty", f)) \in Seq(Work(Z, D))
         /\ \A i \in Work(Z, D) : i.path = f /\ i.do = "walk" => Walk(i) \in Seq(Work(Z, D))
<1> DEFINE q == SetToSeq(Children(f))
<1>1. q \in Seq(Children(f)) /\ Len(q) \in Nat /\ \A k \in 1 .. Len(q) : q[k] \in Children(f)
  BY Listing, LenProperties, ElementOfSeq
<1>2. ASSUME NEW c \in Children(f)
      PROVE  c \in Names /\ Len(f) <= Len(c) /\ IsPrefix(f, c)
  <2>1. c \in Names \ {<<>>} /\ dirname(c) = f
    BY FacadeAssumption DEF Children, Names
  <2>2. Len(c) = Len(f) + 1 /\ IsPrefix(f, c) /\ Len(f) \in Nat
    BY <2>1, InDirectory, LenProperties DEF Names
  <2> QED
    BY <2>1, <2>2
<1>3. TRUE \in BOOLEAN /\ "old" \in Content
  BY DEF Content
<1>4. ASSUME f \in D
      PROVE  /\ RemoveAll(Children(f)) \in Seq(Work(Z, D))
             /\ Empty(I("empty", f)) \in Seq(Work(Z, D))
  <2>1. ASSUME NEW c \in Children(f)
        PROVE  /\ [I("remove", c) EXCEPT !.flag = TRUE] \in Work(Z, D)
               /\ I("spawnRemove", c) \in Work(Z, D)
    <3>1. c \in Names /\ c \in D
      BY <1>2, <1>4 DEF Ground
    <3>2. "remove" \in Clears /\ "spawnRemove" \in Clears
      BY DEF Clears
    <3>3. [I("remove", c) EXCEPT !.flag = TRUE] \in Work(Z, D)
      BY <1>3, <3>1, <3>2 DEF I, Work, Deeds
    <3>4. I("spawnRemove", c) \in Work(Z, D)
      BY <1>3, <3>1, <3>2 DEF I, Work, Deeds
    <3> QED
      BY <3>3, <3>4
  <2>2. [k \in 1 .. Len(q) |-> [I("remove", q[k]) EXCEPT !.flag = TRUE]]
           \in [1 .. Len(q) -> Work(Z, D)]
    BY <1>1, <2>1
  <2>3. [k \in 1 .. Len(q) |-> I("spawnRemove", q[k])] \in [1 .. Len(q) -> Work(Z, D)]
    BY <1>1, <2>1
  <2>4. I("empty", f).path = f
    BY DEF I
  <2> QED
    BY <1>1, <2>2, <2>3, <2>4, Programs DEF RemoveAll, Empty
<1>5. ASSUME NEW i \in Work(Z, D), i.path = f, i.do = "walk"
      PROVE  Walk(i) \in Seq(Work(Z, D))
  <2>1. i.to \in D /\ i.to \in Names
    BY <1>5 DEF Work, Makes, Clears
  <2>2. ASSUME NEW c \in Children(f), NEW do \in {"spawnCopy", "entryDir"}
        PROVE  [I(do, c) EXCEPT !.to = Target(c, f, i.to)] \in Work(Z, D)
    <3> DEFINE t == Target(c, f, i.to)
    <3>1. t \in Names /\ IsPrefix(i.to, t)
      BY <1>2, <2>1, TargetExtends
    <3>2. t \in D
      BY <2>1, <3>1 DEF Ground
    <3>3. do \in Copies /\ c \in Names
      BY <1>2 DEF Copies
    <3> HIDE DEF t
    <3>4. [I(do, c) EXCEPT !.to = t] \in Work(Z, D)
      <4>1. CASE do = "spawnCopy"
        BY <1>3, <2>1, <3>1, <3>2, <3>3, <4>1 DEF I, Work, Deeds
      <4>2. CASE do = "entryDir"
        BY <1>3, <2>1, <3>1, <3>2, <3>3, <4>2 DEF I, Work, Deeds
      <4> QED
        BY <4>1, <4>2
    <3> QED
      BY <3>4 DEF t
  <2>3. [k \in 1 .. Len(q) |->
           [I(IF IsFile(q[k]) THEN "spawnCopy" ELSE "entryDir", q[k])
              EXCEPT !.to = Target(q[k], f, i.to)]] \in [1 .. Len(q) -> Work(Z, D)]
    BY <1>1, <2>2
  <2> QED
    BY <1>1, <1>5, <2>3, Programs DEF Walk
<1> QED
  BY <1>4, <1>5

\* Copying starts by clearing its destination, whose parents it then makes.
LEMMA SourceWork ==
  ASSUME NEW Z, NEW D, Ground(Z, D), NEW i \in Work(Z, D), i.do = "source"
  PROVE  /\ Source(i) \in Seq(Work(Z, D)) /\ CopyInto(i) \in Seq(Work(Z, D))
         /\ EnsureParents(dirname(i.to)) \in Seq(Work(Z, D))
         /\ {[I("destination", i.to) EXCEPT !.flag = i.flag], I("createDir", i.to),
              [i EXCEPT !.do = "copyFile"], [i EXCEPT !.do = "walk"]} \subseteq Work(Z, D)
<1> DEFINE t == i.to
           W == Work(Z, D)
<1>1. /\ t \in Names /\ t \in D /\ t \in Z /\ t # <<>> /\ i.path \in Names
      /\ i.flag \in BOOLEAN /\ i.data \in Content
      /\ \A k \in 1 .. Len(t) : SubSeq(t, 1, k) \in Z
  BY DEF Work, Makes, Clears, Copies, Ground
<1>2. Len(t) \in Nat \ {0}
  BY <1>1, EmptySeq DEF Names
<1>3. [I("destination", t) EXCEPT !.flag = i.flag] \in W
  <2>1. "destination" \in Clears /\ "old" \in Content
    BY DEF Clears, Content
  <2> HIDE DEF t
  <2> QED
    BY <1>1, <2>1 DEF I, Work, Deeds
<1>4. EnsureParents(dirname(t)) \in Seq(W)
  <2>1. Len(t) - 1 \in 0 .. Len(t) /\ dirname(t) = SubSeq(t, 1, Len(t) - 1)
    BY <1>2 DEF dirname, Front
  <2>2. dirname(t) \in Names /\ Len(dirname(t)) = Len(t) - 1
    BY <1>1, <2>1, Ancestors
  <2>3. ASSUME NEW k \in 1 .. Len(dirname(t))
        PROVE  SubSeq(dirname(t), 1, k) \in Z
    <3>1. k \in 1 .. Len(t) /\ 1 \in 1 .. Len(t) /\ Len(t) - 1 \in 1 .. Len(t)
      BY <1>2, <2>2
    <3>2. SubSeq(SubSeq(t, 1, Len(t) - 1), 1, k) = SubSeq(t, 1, k)
      <4>1. k \in 1 .. (Len(t) - 1) - 1 + 1 /\ 1 \in 1 .. (Len(t) - 1) - 1 + 1
        BY <1>2, <2>2
      <4> HIDE DEF t
      <4>2. SubSeq(SubSeq(t, 1, Len(t) - 1), 1, k) = SubSeq(t, 1 + 1 - 1, 1 + k - 1)
        BY <1>1, <3>1, <4>1, SubSeqOfSubSeq DEF Names
      <4>3. 1 + 1 - 1 = 1 /\ 1 + k - 1 = k
        BY <3>1
      <4> QED
        BY <4>2, <4>3
    <3> QED
      BY <1>1, <2>1, <3>1, <3>2
  <2> HIDE DEF t
  <2> QED
    BY <2>2, <2>3, EnsureWork
<1>5. I("createDir", t) \in W
  <2>1. "createDir" \in Makes /\ "old" \in Content
    BY DEF Makes, Content
  <2> HIDE DEF t
  <2> QED
    BY <1>1, <2>1 DEF I, Work, Deeds
<1>6. [i EXCEPT !.do = "copyFile"] \in W /\ [i EXCEPT !.do = "walk"] \in W
  <2>1. "copyFile" \in Copies /\ "walk" \in Copies
    BY DEF Copies
  <2> QED
    BY <1>1, <2>1, RenamedWork DEF Deeds
<1> HIDE DEF t, W
<1>7. /\ <<[I("destination", t) EXCEPT !.flag = i.flag]>> \in Seq(W)
      /\ <<[i EXCEPT !.do = "copyFile"]>> \in Seq(W)
      /\ <<I("createDir", t), [i EXCEPT !.do = "walk"]>> \in Seq(W)
  BY <1>3, <1>5, <1>6, Programs
<1>8. CopyInto(i) \in Seq(W)
  BY <1>4, <1>7, Programs DEF CopyInto, t
<1>9. Source(i) \in Seq(W)
  BY <1>7, <1>8, Programs DEF Source, t
<1> QED
  BY <1>3, <1>4, <1>5, <1>6, <1>8, <1>9 DEF t, W

\* What an await leaves to do stays on the ground of its call.
LEMMA AfterWork ==
  ASSUME NEW Z, NEW D, Ground(Z, D), NEW i \in Work(Z, D), ~Refuses(i)
  PROVE  After(i) \in Seq(Work(Z, D))
<1> DEFINE W == Work(Z, D)
           f == i.path
<1>1. /\ f \in Names /\ i.to \in Names /\ i.flag \in BOOLEAN /\ i.data \in Content
      /\ "old" \in Content /\ "empty" \in Content /\ D \subseteq Z
  BY DEF Work, Content, Ground
<1>2. /\ i.do \in Makes => f \in Z
      /\ i.do \in Clears => f \in D
      /\ i.do \in Copies => i.to \in D
  BY DEF Work, Makes, Clears, Copies
<1>3. /\ f \in Z => /\ I("createDir", f) \in W /\ I("setDir", f) \in W /\ I("delete", f) \in W
                    /\ [I("write", f) EXCEPT !.data = "empty"] \in W
      /\ f \in D => [I("remove", f) EXCEPT !.flag = TRUE] \in W
  <2>1. /\ "createDir" \in Makes /\ "setDir" \in Makes /\ "delete" \in Makes /\ "write" \in Makes
        /\ "remove" \in Clears
    BY DEF Makes, Clears
  <2> HIDE DEF f
  <2> QED
    BY <1>1, <2>1 DEF I, Work, Deeds
<1>4. /\ f \in Z => [i EXCEPT !.do = "setFile"] \in W
      /\ f \in D => [i EXCEPT !.do = "list"] \in W
      /\ i.to \in D => [i EXCEPT !.do = "read"] \in W
  <2>1. "setFile" \in Makes /\ "list" \in Clears /\ "read" \in Copies
    BY DEF Makes, Clears, Copies
  <2> QED
    BY <1>1, <2>1, RenamedWork DEF Deeds
<1>5. i.do = "ensure" => Ensure(i) \in Seq(W)
  <2> HIDE DEF W
  <2> QED
    BY <1>2, <1>3, Programs DEF Ensure, Makes, If
<1>6. i.do = "createDir" => CreateDir(i) \in Seq(W)
  BY <1>2, <1>3, Programs DEF CreateDir, Makes, If
<1>7. i.do = "write" => WriteFile(i) \in Seq(W)
  BY <1>2, <1>4, Programs DEF WriteFile, Makes
<1>8. i.do = "createFile" => CreateFile(i) \in Seq(W)
  BY <1>2, <1>3, Programs DEF CreateFile, Makes, If
<1>9. i.do = "remove" => RemoveUnlocked(i) \in Seq(W)
  <2>1. i.do = "remove" => f \in D /\ f \in Z
    BY <1>1, <1>2 DEF Clears
  <2> QED
    BY <2>1, <1>3, <1>4, Programs DEF RemoveUnlocked
<1>10. i.do = "list" => List(i) \in Seq(W)
  <2>1. i.do = "list" => f \in D /\ f \in Z
    BY <1>1, <1>2 DEF Clears
  <2>2. f \in D => RemoveAll(Children(f)) \in Seq(W)
    BY <1>1, EntriesWork
  <2> QED
    BY <2>1, <2>2, <1>3, Programs DEF List
<1>11. i.do = "copyFile" => CopyFile(i) \in Seq(W)
  BY <1>2, <1>4, Programs DEF CopyFile, Copies
<1>12. i.do = "read" => ReadFile(i) \in Seq(W)
  <2>1. i.do = "read" => node[i.path] \in Content /\ i.to \in Z
    BY <1>1, <1>2 DEF Refuses, IsFile, Copies
  <2>2. "write" \in Makes
    BY DEF Makes
  <2>3. i.do = "read" => [I("write", i.to) EXCEPT !.data = node[i.path]] \in W
    BY <1>1, <2>1, <2>2 DEF I, Work, Deeds
  <2> QED
    BY <2>3, Programs DEF ReadFile
<1>13. i.do = "source" => Source(i) \in Seq(W)
  BY SourceWork
<1>14. i.do = "destination" => Destination(i) \in Seq(W)
  BY <1>2, <1>3, Programs DEF Destination, Clears
<1>15. i.do = "walk" => Walk(i) \in Seq(W)
  BY <1>1, EntriesWork
<1>16. i.do = "empty" => Empty(i) \in Seq(W)
  <2>1. i.do = "empty" => f \in D
    BY <1>2 DEF Clears
  <2>2. Empty(i) = Empty(I("empty", f))
    BY DEF Empty, I
  <2>3. f \in D => Empty(I("empty", f)) \in Seq(W)
    BY <1>1, EntriesWork
  <2> QED
    BY <2>1, <2>2, <2>3
<1>17. <<>> \in Seq(W)
  BY Programs
<1> HIDE DEF W, f
<1>18. After(i) \in Seq(W)
  BY <1>5, <1>6, <1>7, <1>8, <1>9, <1>10, <1>11, <1>12, <1>13, <1>14, <1>15, <1>16, <1>17 DEF After
<1> QED
  BY <1>18 DEF W

----------------------------------------------------------------------------
(* The shape of a program: what it asks before its lock, its work under    *)
(* the lock, the release, and for a move the same once more.               *)

LockOf(c) == IF c.op \in FileCalls THEN c.path ELSE Tree

\* Where a call may create or write, and where it may clear and copy: a file
\* call that makes no parents touches its own path only, and a copy nothing
\* but the ancestors of its destination and what lies below it.
Zone(c) ==
  IF c.op = "copy" THEN {f \in Names : IsPrefix(f, c.to) \/ IsPrefix(c.to, f)}
  ELSE IF c.op \in FileCalls /\ ~c.flag THEN {c.path} ELSE Names

DeepZone(c) ==
  IF c.op = "copy" THEN {f \in Names : IsPrefix(c.to, f)}
  ELSE IF c.op \in FileCalls THEN {} ELSE Names

Doing(c) == Work(Zone(c), DeepZone(c))

Body(c) == Seq(Doing(c))

Asks(c) == {I("lookup", c.path), I("isDir", c.path)}

\* All awaits of a call.
Steps(c) ==
  Doing(c) \cup Asks(c) \cup {I("lock", LockOf(c)), I("unlock", LockOf(c))}

Frame(c, b, r) == b \o (<<I("unlock", LockOf(c))>> \o r)

\* What a move does after its copy.
Rests(c) ==
  {r \in Seq(Steps(c)) :
     r = <<>> \/ (c.op = "move" /\ \E b \in Body(c) : r = <<I("lock", LockOf(c))>> \o Frame(c, b, <<>>))}

Running(c) == {q \in Seq(Steps(c)) : \E b \in Body(c), r \in Rests(c) : q = Frame(c, b, r)}

Locking(c) == {q \in Seq(Steps(c)) : \E w \in Running(c) : q = <<I("lock", LockOf(c))>> \o w}

Asking(c) ==
  Locking(c) \cup
  {q \in Seq(Steps(c)) : \E x \in Asks(c), w \in Locking(c) : q = <<x>> \o w}

\* The paths of a call are names, and those of a copy are apart.
LEMMA CallPaths ==
  ASSUME NEW c \in Calls
  PROVE  /\ c.op \in FileCalls \cup TreeCalls /\ c.flag \in BOOLEAN
         /\ c.path \in Names /\ c.to \in Names
         /\ c.op \in FileCalls => c.path \in Paths /\ c.path # Tree /\ LockOf(c) = c.path
         /\ c.op \in TreeCalls => LockOf(c) = Tree /\ c.op \notin FileCalls
         /\ LockOf(c) \in LockNames
         /\ c.op \in {"copy", "move"} =>
              ~IsPrefix(c.path, c.to) /\ ~IsPrefix(c.to, c.path) /\ c.to # <<>>
<1>1. /\ c \in [op : FileCalls \cup TreeCalls, path : Nodes, to : Nodes, flag : BOOLEAN]
      /\ c.op \in FileCalls => c.path \in Paths
      /\ c.op \in {"copy", "move"} => ~IsPrefix(c.path, c.to) /\ ~IsPrefix(c.to, c.path)
      /\ Paths \subseteq Names
  BY FacadeAssumption DEF Names, FileCalls
<1>2. <<>> \in Names /\ Len(<<>>) = 0
  BY EmptySeq DEF Names
<1>3. c.path \in Names /\ c.to \in Names
  BY <1>1, <1>2 DEF Nodes
<1>4. IsPrefix(<<>>, c.path)
  <2>1. Len(<<>>) <= Len(c.path) /\ \A k \in 1 .. Len(<<>>) : <<>>[k] = c.path[k]
    BY <1>2, <1>3, LenProperties DEF Names
  <2> QED
    BY <1>2, <1>3, <2>1, PrefixByName
<1>5. c.op \in TreeCalls => c.op \notin FileCalls
  BY DEF TreeCalls, FileCalls
<1> QED
  BY <1>1, <1>3, <1>4, <1>5, MutationLocksAssumption DEF LockOf, LockNames

\* A call stays on its ground.
LEMMA Grounds ==
  ASSUME NEW c \in Calls
  PROVE  Ground(Zone(c), DeepZone(c))
<1>1. c.path \in Names /\ c.to \in Names
  BY CallPaths
<1>2. CASE c.op = "copy"
  <2>1. ASSUME NEW f \in DeepZone(c), NEW g \in Names, IsPrefix(f, g)
        PROVE  g \in DeepZone(c)
    <3>1. f \in Names /\ IsPrefix(c.to, f)
      BY <1>2, <2>1 DEF DeepZone
    <3>2. IsPrefix(c.to, g)
      BY <1>1, <2>1, <3>1, PrefixOrder
    <3> QED
      BY <1>2, <3>2 DEF DeepZone
  <2>2. Zone(c) \subseteq Names /\ DeepZone(c) \subseteq Zone(c)
    BY <1>2 DEF Zone, DeepZone
  <2> QED
    BY <2>1, <2>2 DEF Ground
<1>3. CASE c.op # "copy"
  BY <1>1, <1>3 DEF Ground, Zone, DeepZone
<1> QED
  BY <1>2, <1>3

\* How the shapes are put together.
LEMMA Shapes ==
  ASSUME NEW c \in Calls
  PROVE  /\ Body(c) \subseteq Seq(Steps(c)) /\ Rests(c) \subseteq Seq(Steps(c))
         /\ Running(c) \subseteq Seq(Steps(c)) /\ Locking(c) \subseteq Seq(Steps(c))
         /\ Asking(c) \subseteq Seq(Steps(c))
         /\ \A b \in Body(c), r \in Rests(c) : Frame(c, b, r) \in Running(c)
         /\ \A w \in Running(c) : <<I("lock", LockOf(c))>> \o w \in Locking(c)
         /\ \A x \in Asks(c), w \in Locking(c) : <<x>> \o w \in Asking(c)
         /\ Locking(c) \subseteq Asking(c)
         /\ <<>> \in Rests(c) /\ Rests(c) \subseteq {<<>>} \cup Locking(c)
         /\ c.op = "move" => \A b \in Body(c) :
              <<I("lock", LockOf(c))>> \o Frame(c, b, <<>>) \in Rests(c)
<1> DEFINE S == Steps(c)
           u == I("lock", LockOf(c))
           v == I("unlock", LockOf(c))
<1>1. u \in S /\ v \in S /\ Doing(c) \subseteq S /\ Asks(c) \subseteq S
  BY DEF Steps
<1> HIDE DEF S
<1>2. /\ Rests(c) \subseteq Seq(S) /\ Running(c) \subseteq Seq(S)
      /\ Locking(c) \subseteq Seq(S) /\ Asking(c) \subseteq Seq(S)
      /\ Locking(c) \subseteq Asking(c)
  BY DEF Rests, Running, Locking, Asking, S
<1>3. Body(c) \subseteq Seq(S)
  BY <1>1, SeqMonotonic DEF Body
<1> HIDE DEF u, v
<1>4. <<>> \in Seq(S) /\ <<u>> \in Seq(S) /\ <<v>> \in Seq(S)
      /\ \A q, r \in Seq(S) : q \o r \in Seq(S)
  BY <1>1, Programs
<1>5. ASSUME NEW b \in Body(c), NEW r \in Seq(S)
      PROVE  Frame(c, b, r) \in Seq(S)
  <2>1. <<v>> \o r \in Seq(S)
    BY <1>4
  <2>2. b \o (<<v>> \o r) \in Seq(S)
    BY <1>3, <1>4, <2>1
  <2> QED
    BY <2>2 DEF Frame, v
<1>6. \A b \in Body(c), r \in Rests(c) : Frame(c, b, r) \in Running(c)
  BY <1>2, <1>5 DEF Running, S
<1>7. \A w \in Running(c) : <<u>> \o w \in Locking(c)
  BY <1>2, <1>4 DEF Locking, S, u
<1>8. \A x \in Asks(c), w \in Locking(c) : <<x>> \o w \in Asking(c)
  <2>1. \A x \in Asks(c), w \in Locking(c) : <<x>> \o w \in Seq(S)
    <3>1. \A x \in Asks(c) : <<x>> \in Seq(S)
      BY <1>1, Programs
    <3> QED
      BY <1>2, <1>4, <3>1
  <2> QED
    BY <2>1 DEF Asking, S
<1>9. <<>> \in Rests(c)
  BY <1>4 DEF Rests, S
<1>10. \A b \in Body(c) : Frame(c, b, <<>>) \in Running(c)
  <2> DEFINE e == <<>>
  <2>1. e \in Rests(c)
    BY <1>9
  <2> HIDE DEF e
  <2>2. \A b \in Body(c) : Frame(c, b, e) \in Running(c)
    BY <1>6, <2>1
  <2> QED
    BY <2>2 DEF e
<1>11. Rests(c) \subseteq {<<>>} \cup Locking(c)
  BY <1>7, <1>10 DEF Rests, u
<1>12. c.op = "move" => \A b \in Body(c) : <<u>> \o Frame(c, b, <<>>) \in Rests(c)
  <2>1. \A b \in Body(c) : <<u>> \o Frame(c, b, <<>>) \in Seq(S)
    BY <1>2, <1>7, <1>10
  <2> QED
    BY <2>1 DEF Rests, S, u
<1> QED
  BY <1>2, <1>3, <1>6, <1>7, <1>8, <1>9, <1>11, <1>12 DEF S, u

\* The head and the tail of what is put together.
LEMMA Peel ==
  ASSUME NEW S, NEW q \in Seq(S)
  PROVE  /\ \A x \in S : /\ <<x>> \o q # <<>>
                         /\ Head(<<x>> \o q) = x /\ Tail(<<x>> \o q) = q
         /\ \A b \in Seq(S) : b # <<>> =>
              /\ b \o q # <<>>
              /\ Head(b \o q) = Head(b) /\ Tail(b \o q) = Tail(b) \o q
         /\ <<>> \o q = q
<1>1. ASSUME NEW b \in Seq(S), b # <<>>
      PROVE  /\ b \o q # <<>>
             /\ Head(b \o q) = Head(b) /\ Tail(b \o q) = Tail(b) \o q
  <2>1. Len(b) \in Nat \ {0} /\ Len(q) \in Nat
    BY <1>1, EmptySeq, LenProperties
  <2> DEFINE m == Len(b)
             n == Len(q)
             z == b \o q
  <2>2. /\ z \in Seq(S) /\ Len(z) = m + n
        /\ \A k \in 1 .. m + n : z[k] = IF k <= m THEN b[k] ELSE q[k - m]
    BY ConcatProperties
  <2> HIDE DEF z
  <2>3. z # <<>>
    BY <2>1, <2>2, EmptySeq
  <2>4. /\ Tail(z) \in Seq(S) /\ Len(Tail(z)) = m + n - 1
        /\ \A k \in 1 .. m + n - 1 : Tail(z)[k] = z[k + 1]
    <3>1. Tail(z) \in Seq(S) /\ Len(Tail(z)) = Len(z) - 1
          /\ \A k \in 1 .. Len(Tail(z)) : Tail(z)[k] = z[k + 1]
      BY <2>2, <2>3, HeadTailProperties
    <3> QED
      BY <2>2, <3>1
  <2>5. /\ Tail(b) \in Seq(S) /\ Len(Tail(b)) = m - 1
        /\ \A k \in 1 .. m - 1 : Tail(b)[k] = b[k + 1]
    <3>1. Tail(b) \in Seq(S) /\ Len(Tail(b)) = Len(b) - 1
          /\ \A k \in 1 .. Len(Tail(b)) : Tail(b)[k] = b[k + 1]
      BY <1>1, HeadTailProperties
    <3> QED
      BY <3>1
  <2> DEFINE y == Tail(b) \o q
             t == Tail(b)
  <2>6. /\ y \in Seq(S) /\ Len(y) = m - 1 + n
        /\ \A k \in 1 .. m - 1 + n : y[k] = IF k <= m - 1 THEN t[k] ELSE q[k - (m - 1)]
    BY <2>5, ConcatProperties
  <2>7. Head(z) = Head(b)
    <3>1. Head(z) = z[1] /\ Head(b) = b[1]
      OBVIOUS
    <3> QED
      BY <2>1, <2>2, <3>1
  <2> HIDE DEF y, m, n
  <2>8. m \in Nat \ {0} /\ n \in Nat
    BY <2>1 DEF m, n
  <2>9. ASSUME NEW k \in 1 .. m + n - 1
        PROVE  Tail(z)[k] = y[k]
    <3>1. k \in 1 .. m - 1 + n /\ k + 1 \in 1 .. m + n
      BY <2>8
    <3>2. CASE k <= m - 1
      <4>1. k \in 1 .. m - 1 /\ k + 1 <= m
        BY <2>8, <3>2
      <4> QED
        <5>1. Tail(z)[k] = b[k + 1]
          BY <2>2, <2>4, <3>1, <4>1
        <5>2. y[k] = Tail(b)[k] /\ Tail(b)[k] = b[k + 1]
          BY <2>5, <2>6, <3>1, <3>2, <4>1
        <5> QED
          BY <5>1, <5>2
    <3>3. CASE ~(k <= m - 1)
      <4>1. ~(k + 1 <= m) /\ (k + 1) - m = k - (m - 1)
        BY <2>8, <3>3
      <4> QED
        <5>1. Tail(z)[k] = q[(k + 1) - m]
          <6> DEFINE j == k + 1
          <6>1. j \in 1 .. m + n /\ ~(j <= m)
            BY <3>1, <4>1
          <6>2. Tail(z)[k] = z[j]
            BY <2>4
          <6> HIDE DEF j
          <6>3. z[j] = q[j - m]
            BY <2>2, <6>1
          <6> QED
            BY <6>2, <6>3 DEF j
        <5>2. y[k] = q[k - (m - 1)]
          BY <2>6, <3>1, <3>3
        <5> QED
          BY <4>1, <5>1, <5>2
    <3> QED
      BY <3>2, <3>3
  <2>10. Tail(z) = y
    <3>1. Len(Tail(z)) = Len(y) /\ Len(y) = m + n - 1
      BY <2>4, <2>6, <2>8
    <3> QED
      BY <2>4, <2>6, <2>9, <3>1, SeqEqual
  <2> QED
    BY <2>3, <2>7, <2>10 DEF z, y
<1>2. <<>> \o q = q
  BY ConcatEmptySeq
<1>3. ASSUME NEW x \in S
      PROVE  /\ <<x>> \o q # <<>>
             /\ Head(<<x>> \o q) = x /\ Tail(<<x>> \o q) = q
  <2>1. <<x>> \in Seq(S) /\ <<x>> # <<>> /\ Head(<<x>>) = x /\ Tail(<<x>>) = <<>>
    OBVIOUS
  <2> DEFINE b == <<x>>
  <2> HIDE DEF b
  <2>2. b \in Seq(S) /\ b # <<>> /\ Head(b) = x /\ Tail(b) = <<>>
    BY <2>1 DEF b
  <2>3. b \o q # <<>> /\ Head(b \o q) = x /\ Tail(b \o q) = <<>> \o q
    BY <1>1, <2>2
  <2> QED
    BY <1>2, <2>3 DEF b
<1> QED
  BY <1>1, <1>2, <1>3

\* The names of the awaits that are not work.
LEMMA OtherSteps ==
  ASSUME NEW c
  PROVE  /\ \A i \in Doing(c) : i.do \in Deeds
         /\ \A f : I("lock", f).do = "lock" /\ I("unlock", f).do = "unlock"
         /\ \A f : I("lock", f).path = f /\ I("unlock", f).path = f
         /\ \A x \in Asks(c) : x.do \in {"lookup", "isDir"}
         /\ {"lock", "unlock", "lookup", "isDir"} \cap Deeds = {}
BY DEF Doing, Work, I, Asks, Deeds, Makes, Clears, Copies

\* What a call under its lock is about to do: its work, or the release.
LEMMA RunningSteps ==
  ASSUME NEW c \in Calls, NEW q \in Running(c)
  PROVE  /\ q # <<>>
         /\ \/ Head(q) = I("unlock", LockOf(c)) /\ Tail(q) \in {<<>>} \cup Locking(c)
            \/ Head(q) \in Doing(c) /\ \A w \in Body(c) : w \o Tail(q) \in Running(c)
<1> DEFINE S == Steps(c)
           v == I("unlock", LockOf(c))
<1>1. v \in S
  BY DEF Steps
<1>2. PICK b \in Body(c), r \in Rests(c) : q = Frame(c, b, r)
  BY DEF Running
<1>3. /\ Body(c) \subseteq Seq(S) /\ b \in Seq(S) /\ r \in Seq(S)
      /\ Rests(c) \subseteq {<<>>} \cup Locking(c)
      /\ \A d \in Body(c) : Frame(c, d, r) \in Running(c)
  BY Shapes
<1> HIDE DEF S, v
<1>4. q = b \o (<<v>> \o r)
  BY <1>2 DEF Frame, v
<1> DEFINE e == <<v>> \o r
<1>5. /\ e \in Seq(S) /\ e # <<>> /\ Head(e) = v /\ Tail(e) = r
  BY <1>1, <1>3, Peel, Programs
<1> HIDE DEF e
<1>6. CASE b = <<>>
  <2>1. q = e
    <3>1. q = b \o e
      BY <1>4 DEF e
    <3> QED
      BY <1>5, <1>6, <3>1, ConcatEmptySeq
  <2> QED
    BY <1>3, <1>5, <2>1 DEF v
<1>7. CASE b # <<>>
  <2>1. q = b \o e
    BY <1>4 DEF e
  <2>2. q # <<>> /\ Head(q) = Head(b) /\ Tail(q) = Tail(b) \o e
    BY <1>3, <1>5, <1>7, <2>1, Peel
  <2>3. Head(b) \in Doing(c) /\ Tail(b) \in Body(c)
    BY <1>2, <1>7, HeadTailProperties DEF Body
  <2>4. ASSUME NEW w \in Body(c)
        PROVE  w \o Tail(q) \in Running(c)
    <3>1. w \in Seq(S) /\ Tail(b) \in Seq(S) /\ w \o Tail(b) \in Body(c)
      BY <1>3, <2>3, Programs DEF Body
    <3>2. w \o (Tail(b) \o e) = (w \o Tail(b)) \o e
      <4> DEFINE t == Tail(b)
      <4>1. w \in Seq(S) /\ t \in Seq(S) /\ e \in Seq(S)
        BY <1>5, <3>1
      <4> HIDE DEF t
      <4>2. (w \o t) \o e = w \o (t \o e)
        BY <4>1, ConcatAssociative
      <4> QED
        BY <4>2 DEF t
    <3>3. Frame(c, w \o Tail(b), r) = (w \o Tail(b)) \o e
      BY DEF Frame, e, v
    <3>4. Frame(c, w \o Tail(b), r) \in Running(c)
      BY <1>3, <3>1
    <3> QED
      BY <2>2, <3>2, <3>3, <3>4
  <2> QED
    BY <2>2, <2>3, <2>4
<1> QED
  BY <1>6, <1>7

\* A call that waits for its lock runs once it has it.
LEMMA LockingSteps ==
  ASSUME NEW c \in Calls, NEW q \in Locking(c)
  PROVE  /\ q # <<>> /\ Head(q) = I("lock", LockOf(c)) /\ Tail(q) \in Running(c)
         /\ <<>> \o Tail(q) = Tail(q)
<1>1. PICK w \in Running(c) : q = <<I("lock", LockOf(c))>> \o w
  BY DEF Locking
<1>2. w \in Seq(Steps(c)) /\ I("lock", LockOf(c)) \in Steps(c)
  BY Shapes DEF Steps
<1>3. q # <<>> /\ Head(q) = I("lock", LockOf(c)) /\ Tail(q) = w
  BY <1>1, <1>2, Peel
<1> QED
  BY <1>2, <1>3, Peel

\* A call that holds nothing asks, or asks for its lock.
LEMMA AskingSteps ==
  ASSUME NEW c \in Calls, NEW q \in Asking(c)
  PROVE  /\ q # <<>>
         /\ \/ q \in Locking(c)
            \/ Head(q) \in Asks(c) /\ Tail(q) \in Locking(c) /\ <<>> \o Tail(q) = Tail(q)
<1>1. CASE q \in Locking(c)
  BY <1>1, LockingSteps
<1>2. CASE q \notin Locking(c)
  <2>1. PICK x \in Asks(c), w \in Locking(c) : q = <<x>> \o w
    BY <1>2 DEF Asking
  <2>2. x \in Steps(c) /\ w \in Seq(Steps(c))
    BY Shapes DEF Steps
  <2>3. q # <<>> /\ Head(q) = x /\ Tail(q) = w
    BY <2>1, <2>2, Peel
  <2> QED
    BY <2>2, <2>3, Peel
<1> QED
  BY <1>1, <1>2

\* A call that has thrown releases.
LEMMA ReleasingShape ==
  ASSUME NEW c \in Calls
  PROVE  <<I("unlock", LockOf(c))>> \in Running(c)
<1> DEFINE v == I("unlock", LockOf(c))
           e == <<>>
<1>1. e \in Rests(c) /\ e \in Body(c) /\ v \in Steps(c)
  BY Shapes, Programs DEF Body, Steps
<1> HIDE DEF v
<1>2. <<v>> \in Seq(Steps(c)) /\ e \in Seq(Steps(c))
  BY <1>1, Programs
<1>3. <<>> \o (<<v>> \o <<>>) = <<v>>
  BY <1>2, ConcatEmptySeq
<1> HIDE DEF e
<1>4. Frame(c, e, e) \in Running(c)
  BY <1>1, Shapes
<1> QED
  BY <1>3, <1>4 DEF Frame, e, v

\* A lock, what is done under it in two parts, and its release.
LEMMA Assembled ==
  ASSUME NEW S, NEW u \in S, NEW v \in S, NEW x \in Seq(S), NEW m \in Seq(S)
  PROVE  /\ (<<u>> \o x) \o (m \o <<v>>) = <<u>> \o ((x \o m) \o (<<v>> \o <<>>))
         /\ (<<u>> \o x) \o <<v>> = <<u>> \o (x \o (<<v>> \o <<>>))
<1>1. /\ <<u>> \in Seq(S) /\ <<v>> \in Seq(S) /\ <<v>> \o <<>> = <<v>>
      /\ x \o m \in Seq(S) /\ m \o <<v>> \in Seq(S)
  BY Programs, ConcatEmptySeq
<1>2. (<<u>> \o x) \o (m \o <<v>>) = <<u>> \o (x \o (m \o <<v>>))
  BY <1>1, ConcatAssociative
<1>3. x \o (m \o <<v>>) = (x \o m) \o <<v>>
  BY <1>1, ConcatAssociative
<1>4. (<<u>> \o x) \o <<v>> = <<u>> \o (x \o <<v>>)
  BY <1>1, ConcatAssociative
<1> QED
  BY <1>1, <1>2, <1>3, <1>4

\* A program that takes its lock once.
LEMMA OneLock ==
  ASSUME NEW c \in Calls, NEW x \in Body(c)
  PROVE  /\ \A m \in Body(c) :
              (<<I("lock", LockOf(c))>> \o x) \o (m \o <<I("unlock", LockOf(c))>>) \in Locking(c)
         /\ (<<I("lock", LockOf(c))>> \o x) \o <<I("unlock", LockOf(c))>> \in Locking(c)
<1> DEFINE u == I("lock", LockOf(c))
           v == I("unlock", LockOf(c))
           S == Steps(c)
           e == <<>>
<1>1. u \in S /\ v \in S /\ Body(c) \subseteq Seq(S) /\ e \in Rests(c)
  BY Shapes DEF Steps
<1> HIDE DEF S, e
<1>2. \A b \in Body(c) : <<u>> \o (b \o (<<v>> \o e)) \in Locking(c)
  <2>1. \A b \in Body(c) : Frame(c, b, e) \in Running(c)
    BY <1>1, Shapes
  <2>2. \A b \in Body(c) : <<u>> \o Frame(c, b, e) \in Locking(c)
    BY <2>1, Shapes
  <2> QED
    BY <2>2 DEF Frame
<1> HIDE DEF u, v
<1>3. (<<u>> \o x) \o <<v>> \in Locking(c)
  <2>1. (<<u>> \o x) \o <<v>> = <<u>> \o (x \o (<<v>> \o e))
    BY <1>1, Assembled DEF e
  <2> QED
    BY <1>2, <2>1
<1>4. ASSUME NEW m \in Body(c)
      PROVE  (<<u>> \o x) \o (m \o <<v>>) \in Locking(c)
  <2>1. (<<u>> \o x) \o (m \o <<v>>) = <<u>> \o ((x \o m) \o (<<v>> \o e))
    BY <1>1, Assembled DEF e
  <2>2. x \o m \in Body(c)
    BY Programs DEF Body
  <2> QED
    BY <1>2, <2>1, <2>2
<1> QED
  BY <1>3, <1>4 DEF u, v

\* The awaits a method is written with are its work.
LEMMA WorkAt ==
  ASSUME NEW c \in Calls, NEW f \in Zone(c), NEW do \in Makes, NEW p \in Ops
  PROVE  I(do, f) \in Doing(c) /\ [I(do, f) EXCEPT !.data = p] \in Doing(c)
<1>1. f \in Names /\ do \in Deeds /\ "old" \in Content /\ p \in Content
  BY Grounds DEF Ground, Deeds, Content
<1>2. I(do, f) \in Doing(c)
  BY <1>1 DEF I, Doing, Work
<1>3. [I(do, f) EXCEPT !.data = p] \in Doing(c)
  BY <1>1 DEF I, Doing, Work
<1> QED
  BY <1>2, <1>3

\* ensureParents is work of a call that may create anywhere.
LEMMA ParentsAt ==
  ASSUME NEW c \in Calls, Zone(c) = Names, NEW f \in Names
  PROVE  EnsureParents(f) \in Body(c)
<1>1. ASSUME NEW k \in 1 .. Len(f)
      PROVE  SubSeq(f, 1, k) \in Zone(c)
  <2>1. k \in 0 .. Len(f)
    OBVIOUS
  <2> QED
    BY <2>1, Ancestors
<1> QED
  BY <1>1, Grounds, EnsureWork DEF Body, Doing

\* A file call.
LEMMA FileShape ==
  ASSUME NEW c \in Calls, NEW p \in Ops, c.op \in FileCalls
  PROVE  WriteProgram(c, p) \in Asking(c) /\ GetFileHandleProgram(c) \in Asking(c)
<1> DEFINE f == c.path
           x == If(c.flag, EnsureParents(dirname(f)))
           u == I("lock", LockOf(c))
           v == I("unlock", LockOf(c))
           S == Steps(c)
           w == [I("write", f) EXCEPT !.data = p]
<1>1. /\ f \in Names \ {<<>>} /\ LockOf(c) = f /\ c.flag \in BOOLEAN /\ c.op # "copy"
      /\ c.op \in FileCalls
  <2>1. c.path \in Paths /\ Paths \subseteq Names \ {<<>>}
    BY CallPaths, FacadeAssumption DEF Names
  <2>2. c.op # "copy"
    BY DEF FileCalls
  <2> QED
    BY <2>1, <2>2, CallPaths
<1>2. f \in Zone(c) /\ (c.flag => Zone(c) = Names)
  BY <1>1 DEF Zone
<1>3. dirname(f) \in Names
  <2>1. Len(f) - 1 \in 0 .. Len(f) /\ dirname(f) = SubSeq(f, 1, Len(f) - 1)
    BY <1>1, EmptySeq DEF dirname, Front, Names
  <2> QED
    BY <1>1, <2>1, Ancestors
<1>4. x \in Body(c)
  <2>1. c.flag => EnsureParents(dirname(f)) \in Body(c)
    BY <1>2, <1>3, ParentsAt
  <2>2. <<>> \in Body(c)
    BY Programs DEF Body
  <2> QED
    BY <2>1, <2>2 DEF If
<1>5. /\ I("parentDir", f) \in Doing(c) /\ I("notDir", f) \in Doing(c) /\ w \in Doing(c)
      /\ I("createFile", f) \in Doing(c)
  <2>1. "parentDir" \in Makes /\ "notDir" \in Makes /\ "write" \in Makes /\ "createFile" \in Makes
    BY DEF Makes
  <2> HIDE DEF f
  <2> QED
    BY <1>2, <2>1, WorkAt
<1>6. Doing(c) \subseteq S /\ u \in S /\ v \in S /\ Body(c) \subseteq Seq(S)
      /\ I("lookup", f) \in Asks(c) /\ I("lookup", f) \in S
  BY Shapes DEF Steps, Asks
<1>7. WriteProgram(c, p) = (<<u>> \o x) \o <<I("parentDir", f), I("notDir", f), w, v>>
  BY <1>1 DEF WriteProgram
<1>8. GetFileHandleProgram(c) =
        (<<I("lookup", f), u>> \o x) \o <<I("parentDir", f), I("createFile", f), v>>
  BY <1>1 DEF GetFileHandleProgram
<1> DEFINE a1 == I("parentDir", f)
           a2 == I("notDir", f)
           a3 == I("createFile", f)
           a0 == I("lookup", f)
<1>9. a1 \in Doing(c) /\ a2 \in Doing(c) /\ a3 \in Doing(c) /\ a0 \in Asks(c) /\ a0 \in S
      /\ a1 \in S /\ a2 \in S /\ a3 \in S /\ w \in S
  BY <1>5, <1>6
<1> HIDE DEF a0, a1, a2, a3, w, x, S
<1>10. (<<u>> \o x) \o <<a1, a2, w, v>> \in Locking(c)
  <2>1. <<a1, a2, w>> \in Body(c)
    BY <1>5, <1>9 DEF Body
  <2>2. <<a1, a2, w, v>> = <<a1, a2, w>> \o <<v>>
    <3> HIDE DEF v
    <3> QED
      OBVIOUS
  <2> QED
    BY <1>4, <2>1, <2>2, OneLock
<1>11. (<<a0, u>> \o x) \o <<a1, a3, v>> \in Asking(c)
  <2>1. <<a1, a3>> \in Body(c)
    BY <1>9, Programs DEF Body
  <2>2. <<a1, a3, v>> = <<a1, a3>> \o <<v>>
    <3> HIDE DEF v
    <3> QED
      OBVIOUS
  <2>3. (<<u>> \o x) \o <<a1, a3, v>> \in Locking(c)
    BY <1>4, <2>1, <2>2, OneLock
  <2> DEFINE y == <<u>> \o x
             z == <<a1, a3, v>>
  <2>4. (<<a0, u>> \o x) = <<a0>> \o y
    <3>1. <<a0>> \in Seq(S) /\ <<u>> \in Seq(S) /\ x \in Seq(S) /\ <<a0, u>> = <<a0>> \o <<u>>
      BY <1>4, <1>6, <1>9, Programs
    <3> HIDE DEF u
    <3> QED
      BY <3>1, ConcatAssociative
  <2>5. y \in Seq(S) /\ z \in Seq(S) /\ <<a0>> \in Seq(S)
    <3>1. <<u>> \in Seq(S) /\ x \in Seq(S) /\ <<a1, a3>> \in Seq(S) /\ <<v>> \in Seq(S)
      BY <1>4, <1>6, <1>9, Programs
    <3> HIDE DEF u, v
    <3> QED
      BY <1>9, <2>2, <3>1, Programs
  <2> HIDE DEF y, z
  <2>6. (<<a0>> \o y) \o z = <<a0>> \o (y \o z)
    BY <2>5, ConcatAssociative
  <2>7. y \o z \in Locking(c)
    BY <2>3 DEF y, z
  <2> QED
    BY <1>9, <2>4, <2>6, <2>7, Shapes DEF z
<1>12. Locking(c) \subseteq Asking(c)
  BY DEF Asking
<1> QED
  BY <1>7, <1>8, <1>10, <1>11, <1>12 DEF a0, a1, a2, a3

\* Two and three awaits in a row.
LEMMA Rows ==
  ASSUME NEW S, NEW u \in S, NEW a \in S, NEW v \in S
  PROVE  <<a, v>> = <<a>> \o <<v>> /\ <<u, a, v>> = <<u>> \o (<<a>> \o <<v>>)
<1> DEFINE x == <<a>>
           y == <<v>>
           z == <<u>>
           xy == <<a, v>>
           zxy == <<u, a, v>>
<1>1. /\ x \in Seq(S) /\ Len(x) = 1 /\ x[1] = a
      /\ y \in Seq(S) /\ Len(y) = 1 /\ y[1] = v
      /\ z \in Seq(S) /\ Len(z) = 1 /\ z[1] = u
      /\ xy \in Seq(S) /\ Len(xy) = 2 /\ xy[1] = a /\ xy[2] = v
      /\ zxy \in Seq(S) /\ Len(zxy) = 3 /\ zxy[1] = u /\ zxy[2] = a /\ zxy[3] = v
  OBVIOUS
<1> HIDE DEF x, y, z, xy, zxy
<1>2. /\ x \o y \in Seq(S) /\ Len(x \o y) = 2
      /\ \A k \in 1 .. 2 : (x \o y)[k] = IF k <= 1 THEN x[k] ELSE y[k - 1]
  <2>1. /\ x \o y \in Seq(S) /\ Len(x \o y) = Len(x) + Len(y)
        /\ \A k \in 1 .. Len(x) + Len(y) :
             (x \o y)[k] = IF k <= Len(x) THEN x[k] ELSE y[k - Len(x)]
    BY <1>1, ConcatProperties
  <2> QED
    BY <1>1, <2>1
<1>3. xy = x \o y
  <2>1. \A k \in 1 .. 2 : xy[k] = (x \o y)[k]
    BY <1>1, <1>2
  <2> QED
    BY <1>1, <1>2, <2>1, SeqEqual
<1>4. /\ z \o xy \in Seq(S) /\ Len(z \o xy) = 3
      /\ \A k \in 1 .. 3 : (z \o xy)[k] = IF k <= 1 THEN z[k] ELSE xy[k - 1]
  <2>1. /\ z \o xy \in Seq(S) /\ Len(z \o xy) = Len(z) + Len(xy)
        /\ \A k \in 1 .. Len(z) + Len(xy) :
             (z \o xy)[k] = IF k <= Len(z) THEN z[k] ELSE xy[k - Len(z)]
    BY <1>1, ConcatProperties
  <2> QED
    BY <1>1, <2>1
<1>5. zxy = z \o xy
  <2>1. \A k \in 1 .. 3 : zxy[k] = (z \o xy)[k]
    BY <1>1, <1>4
  <2> QED
    BY <1>1, <1>4, <2>1, SeqEqual
<1> QED
  BY <1>3, <1>5 DEF x, y, z, xy, zxy

\* One await under the lock, and what follows the release.
LEMMA OneAwait ==
  ASSUME NEW c \in Calls, NEW a \in Doing(c)
  PROVE  /\ <<a>> \in Body(c)
         /\ <<I("lock", LockOf(c)), a, I("unlock", LockOf(c))>>
              = <<I("lock", LockOf(c))>> \o Frame(c, <<a>>, <<>>)
         /\ \A r \in Rests(c) : <<I("lock", LockOf(c)), a, I("unlock", LockOf(c))>> \o r
              = <<I("lock", LockOf(c))>> \o Frame(c, <<a>>, r)
<1> DEFINE u == I("lock", LockOf(c))
           v == I("unlock", LockOf(c))
           S == Steps(c)
<1>1. u \in S /\ v \in S /\ a \in S /\ Rests(c) \subseteq Seq(S)
  BY Shapes DEF Steps
<1>2. <<a>> \in Body(c)
  BY Programs DEF Body
<1> HIDE DEF u, v, S
<1>3. /\ <<u>> \in Seq(S) /\ <<a>> \in Seq(S) /\ <<v>> \in Seq(S)
      /\ <<a>> \o <<v>> \in Seq(S) /\ <<v>> \o <<>> = <<v>>
  BY <1>1, Programs, ConcatEmptySeq
<1>4. <<u, a, v>> = <<u>> \o (<<a>> \o <<v>>)
  BY <1>1, Rows
<1>5. ASSUME NEW r \in Rests(c)
      PROVE  <<u, a, v>> \o r = <<u>> \o (<<a>> \o (<<v>> \o r))
  <2>1. (<<u>> \o (<<a>> \o <<v>>)) \o r = <<u>> \o ((<<a>> \o <<v>>) \o r)
    BY <1>1, <1>3, ConcatAssociative
  <2>2. (<<a>> \o <<v>>) \o r = <<a>> \o (<<v>> \o r)
    BY <1>1, <1>3, ConcatAssociative
  <2> QED
    BY <1>4, <2>1, <2>2
<1> QED
  BY <1>2, <1>3, <1>4, <1>5 DEF Frame, u, v

\* A call of one await under the tree lock.
LEMMA SingleShape ==
  ASSUME NEW c \in Calls, NEW a \in Doing(c), c.op \in TreeCalls
  PROVE  <<I("lock", Tree), a, I("unlock", Tree)>> \in Locking(c)
<1> DEFINE x == <<a>>
           e == <<>>
<1>1. LockOf(c) = Tree
  BY CallPaths
<1>2. /\ x \in Body(c) /\ e \in Rests(c)
      /\ <<I("lock", LockOf(c)), a, I("unlock", LockOf(c))>> = <<I("lock", LockOf(c))>> \o Frame(c, x, e)
  BY OneAwait, Shapes
<1> HIDE DEF x, e
<1>3. Frame(c, x, e) \in Running(c)
  BY <1>2, Shapes
<1>4. <<I("lock", LockOf(c))>> \o Frame(c, x, e) \in Locking(c)
  BY <1>3, Shapes
<1> QED
  BY <1>1, <1>2, <1>4

\* The clearing and copying awaits a method is written with.
LEMMA ClearsAt ==
  ASSUME NEW c \in Calls
  PROVE  /\ c.op \in {"remove", "move"} => \A b \in BOOLEAN :
              [I("remove", c.path) EXCEPT !.flag = b] \in Doing(c)
         /\ c.op = "emptyDir" => I("empty", c.path) \in Doing(c)
         /\ c.op \in {"copy", "move"} =>
              [I("source", c.path) EXCEPT !.to = c.to, !.flag = c.flag] \in Doing(c)
<1>1. c.path \in Names /\ c.to \in Names /\ c.flag \in BOOLEAN /\ "old" \in Content
  BY CallPaths DEF Content
<1>2. c.op \in {"remove", "move", "emptyDir"} => c.path \in DeepZone(c)
  BY <1>1 DEF DeepZone, FileCalls
<1>3. "remove" \in Clears /\ "empty" \in Clears
  BY DEF Clears
<1>4. c.op \in {"remove", "move"} => \A b \in BOOLEAN :
        [I("remove", c.path) EXCEPT !.flag = b] \in Doing(c)
  BY <1>1, <1>2, <1>3 DEF I, Doing, Work, Deeds
<1>5. c.op = "emptyDir" => I("empty", c.path) \in Doing(c)
  BY <1>1, <1>2, <1>3 DEF I, Doing, Work, Deeds
<1>6. ASSUME c.op \in {"copy", "move"}
      PROVE  [I("source", c.path) EXCEPT !.to = c.to, !.flag = c.flag] \in Doing(c)
  <2>1. c.to # <<>>
    BY <1>6, CallPaths
  <2>2. c.to \in DeepZone(c)
    <3>1. IsPrefix(c.to, c.to)
      BY <1>1, PrefixByName, LenProperties DEF Names
    <3> QED
      BY <1>1, <1>6, <3>1 DEF DeepZone, FileCalls
  <2>3. ASSUME NEW k \in 1 .. Len(c.to)
        PROVE  SubSeq(c.to, 1, k) \in Zone(c)
    <3> DEFINE t == c.to
               g == SubSeq(t, 1, k)
    <3>1. k \in 0 .. Len(t) /\ t \in Names
      BY <1>1
    <3> HIDE DEF t
    <3>2. g \in Names /\ IsPrefix(g, t)
      BY <3>1, Ancestors
    <3> HIDE DEF g
    <3>3. g \in Zone(c)
      BY <1>6, <3>2 DEF Zone, FileCalls, t
    <3> QED
      BY <3>3 DEF g, t
  <2> QED
    BY <1>1, <2>1, <2>2, <2>3 DEF I, Doing, Work, Deeds
<1> QED
  BY <1>4, <1>5, <1>6

\* A call that makes directories.
LEMMA DirectoryShape ==
  ASSUME NEW c \in Calls, c.op \in {"mkdir", "getDirectoryHandle"}
  PROVE  /\ c.op = "mkdir" => MkdirProgram(c) \in Locking(c)
         /\ c.op = "getDirectoryHandle" => GetDirectoryHandleProgram(c) \in Locking(c)
<1> DEFINE f == c.path
           x == IF c.flag THEN EnsureParents(f)
                ELSE <<I("missing", f), I("parentDir", f), I("createDir", f)>>
           y == IF c.flag THEN EnsureParents(f) ELSE <<I("parentDir", f), I("ensure", f)>>
<1>1. /\ f \in Names /\ LockOf(c) = Tree /\ Zone(c) = Names
  BY CallPaths DEF Zone, FileCalls, TreeCalls
<1>2. EnsureParents(f) \in Body(c)
  BY <1>1, ParentsAt
<1>3. /\ I("missing", f) \in Doing(c) /\ I("parentDir", f) \in Doing(c)
      /\ I("createDir", f) \in Doing(c) /\ I("ensure", f) \in Doing(c)
  <2>1. /\ "missing" \in Makes /\ "parentDir" \in Makes /\ "createDir" \in Makes
        /\ "ensure" \in Makes /\ "old" \in Content
    BY DEF Makes, Content
  <2> HIDE DEF f
  <2> QED
    BY <1>1, <2>1 DEF I, Doing, Work, Deeds
<1>4. <<I("missing", f), I("parentDir", f), I("createDir", f)>> \in Body(c)
      /\ <<I("parentDir", f), I("ensure", f)>> \in Body(c)
  BY <1>3 DEF Body
<1>5. x \in Body(c) /\ y \in Body(c)
  BY <1>2, <1>4
<1>6. MkdirProgram(c) = (<<I("lock", Tree)>> \o x) \o <<I("unlock", Tree)>>
  BY DEF MkdirProgram
<1>7. GetDirectoryHandleProgram(c) = (<<I("lock", Tree)>> \o y) \o <<I("unlock", Tree)>>
  BY DEF GetDirectoryHandleProgram
<1> HIDE DEF x, y
<1> QED
  BY <1>1, <1>5, <1>6, <1>7, OneLock

\* A move takes the lock twice.
LEMMA MoveShape ==
  ASSUME NEW c \in Calls, c.op = "move"
  PROVE  MoveProgram(c) \in Locking(c)
<1> DEFINE u == I("lock", LockOf(c))
           v == I("unlock", LockOf(c))
           a == [I("source", c.path) EXCEPT !.to = c.to, !.flag = c.flag]
           d == [I("remove", c.path) EXCEPT !.flag = TRUE]
           x == <<a>>
           r == <<u, d, v>>
<1>1. LockOf(c) = Tree
  BY CallPaths DEF TreeCalls
<1>2. a \in Doing(c) /\ d \in Doing(c)
  BY ClearsAt
<1>3. MoveProgram(c) = <<u, a, v>> \o r
  BY <1>1 DEF MoveProgram, CopyProgram, RemoveProgram
<1> HIDE DEF a, d
<1>4. r \in Rests(c)
  <2>1. <<d>> \in Body(c) /\ r = <<I("lock", LockOf(c))>> \o Frame(c, <<d>>, <<>>)
    BY <1>2, OneAwait
  <2> QED
    BY <2>1, Shapes
<1> HIDE DEF r
<1>5. x \in Body(c) /\ <<u, a, v>> \o r = <<I("lock", LockOf(c))>> \o Frame(c, x, r)
  BY <1>2, <1>4, OneAwait
<1> HIDE DEF x
<1>6. Frame(c, x, r) \in Running(c)
  BY <1>4, <1>5, Shapes
<1>7. <<I("lock", LockOf(c))>> \o Frame(c, x, r) \in Locking(c)
  BY <1>6, Shapes
<1> QED
  BY <1>3, <1>5, <1>7

\* Every call starts a program of one of these shapes.
LEMMA ProgramShape ==
  ASSUME NEW c \in Calls, NEW p \in Ops
  PROVE  Program(c, p) \in Asking(c)
<1>1. c.op \in FileCalls \cup TreeCalls /\ Locking(c) \subseteq Asking(c) /\ c.flag \in BOOLEAN
  BY CallPaths, Shapes
<1>2. CASE c.op \in FileCalls
  BY <1>2, FileShape DEF Program, FileCalls
<1>3. CASE c.op \in {"mkdir", "getDirectoryHandle"}
  BY <1>1, <1>3, DirectoryShape DEF Program
<1>4. CASE c.op = "remove"
  <2>1. [I("remove", c.path) EXCEPT !.flag = c.flag] \in Doing(c) /\ c.op \in TreeCalls
    BY <1>1, <1>4, ClearsAt DEF TreeCalls
  <2>2. Program(c, p) = RemoveProgram(c.path, c.flag)
    BY <1>4 DEF Program
  <2> QED
    BY <1>1, <2>1, <2>2, SingleShape DEF RemoveProgram
<1>5. CASE c.op = "copy"
  <2>1. /\ [I("source", c.path) EXCEPT !.to = c.to, !.flag = c.flag] \in Doing(c)
        /\ c.op \in TreeCalls
    BY <1>5, ClearsAt DEF TreeCalls
  <2>2. Program(c, p) = CopyProgram(c)
    BY <1>5 DEF Program
  <2> QED
    BY <1>1, <2>1, <2>2, SingleShape DEF CopyProgram
<1>6. CASE c.op = "move"
  <2>1. Program(c, p) = MoveProgram(c)
    BY <1>6 DEF Program
  <2> QED
    BY <1>1, <1>6, <2>1, MoveShape
<1>7. CASE c.op = "emptyDir"
  <2> DEFINE a == I("empty", c.path)
             d == I("isDir", c.path)
             u == I("lock", Tree)
             v == I("unlock", Tree)
  <2>1. a \in Doing(c) /\ c.op \in TreeCalls /\ d \in Asks(c) /\ LockOf(c) = Tree
    BY <1>7, ClearsAt, CallPaths DEF TreeCalls, Asks
  <2>2. Program(c, p) = <<d, u, a, v>>
    BY <1>7 DEF Program, EmptyDirProgram
  <2>3. <<u, a, v>> \in Locking(c)
    BY <2>1, SingleShape
  <2> HIDE DEF a, d, u, v
  <2>4. <<d, u, a, v>> = <<d>> \o <<u, a, v>>
    OBVIOUS
  <2> QED
    BY <2>1, <2>2, <2>3, <2>4, Shapes
<1> QED
  BY <1>1, <1>2, <1>3, <1>4, <1>5, <1>6, <1>7 DEF TreeCalls

----------------------------------------------------------------------------
(* The inductive invariant: a call is where its program says, it works      *)
(* only under its lock and on its own ground, and only a call that holds    *)
(* the tree has children.                                                   *)

\* A call c with the awaits t left, the children k, in stage s, with lock g.
Fits(c, t, k, s, g) ==
  /\ s \in {"idle", "tree", "file", "held"}
  /\ t = <<>> => s = "idle"
  /\ t # <<>> => c \in Calls
  /\ s = "idle" /\ t # <<>> => t \in Asking(c)
  /\ s \in {"tree", "file"} => t \in Locking(c) /\ g = LockOf(c)
  /\ s = "held" => t \in Running(c) /\ g = LockOf(c)
  /\ k # {} => s = "held" /\ g = Tree
  /\ \A b \in k : b \in Body(c) \ {<<>>}

Shaped(p) == Fits(call[p], todo[p], kids[p], stage[p], target[p])

Forms ==
  /\ node \in [Nodes -> Content \cup {"absent", "dir"}]
  /\ DOMAIN call = Ops /\ DOMAIN todo = Ops /\ DOMAIN kids = Ops /\ DOMAIN failed = Ops
  /\ \A p \in Ops : ~aborted[p]

FacadeInv == IInv /\ Forms /\ \A p \in Ops : Shaped(p)

\* What a call is about to do.
LEMMA HeadOf ==
  ASSUME NEW c, NEW t, NEW k, NEW s, NEW g, Fits(c, t, k, s, g), t # <<>>
  PROVE  /\ c \in Calls
         /\ \/ /\ s = "held" /\ g = LockOf(c) /\ t \in Running(c) /\ Head(t) \in Doing(c)
               /\ \A w \in Body(c) : w \o Tail(t) \in Running(c)
            \/ /\ s = "held" /\ g = LockOf(c) /\ t \in Running(c)
               /\ Head(t) = I("unlock", LockOf(c)) /\ Tail(t) \in {<<>>} \cup Locking(c)
            \/ /\ s \in {"idle", "tree", "file"} /\ t \in Locking(c)
               /\ s # "idle" => g = LockOf(c)
               /\ Head(t) = I("lock", LockOf(c)) /\ Tail(t) \in Running(c)
               /\ <<>> \o Tail(t) = Tail(t)
            \/ /\ s = "idle" /\ Head(t) \in Asks(c) /\ Tail(t) \in Locking(c)
               /\ <<>> \o Tail(t) = Tail(t)
<1>1. c \in Calls
  BY DEF Fits
<1>2. CASE s = "held"
  <2>1. t \in Running(c) /\ g = LockOf(c)
    BY <1>2 DEF Fits
  <2> QED
    BY <1>1, <1>2, <2>1, RunningSteps
<1>3. CASE s \in {"tree", "file"}
  <2>1. t \in Locking(c) /\ g = LockOf(c)
    BY <1>3 DEF Fits
  <2> QED
    BY <1>1, <1>3, <2>1, LockingSteps
<1>4. CASE s = "idle"
  <2>1. t \in Asking(c)
    BY <1>4 DEF Fits
  <2>2. t \in Locking(c) \/ (Head(t) \in Asks(c) /\ Tail(t) \in Locking(c) /\ <<>> \o Tail(t) = Tail(t))
    BY <1>1, <2>1, AskingSteps
  <2> QED
    BY <1>1, <1>4, <2>2, LockingSteps
<1> QED
  BY <1>1, <1>2, <1>3, <1>4 DEF Fits

\* A step of one call keeps the invariant if that call still fits.
LEMMA OneCallMoves ==
  ASSUME FacadeInv, IInv', NEW p \in Ops,
         node' \in [Nodes -> Content \cup {"absent", "dir"}],
         DOMAIN call' = Ops, DOMAIN todo' = Ops, DOMAIN kids' = Ops, DOMAIN failed' = Ops,
         \A q \in Ops : ~aborted'[q],
         \A q \in Ops : q # p =>
           /\ call'[q] = call[q] /\ todo'[q] = todo[q] /\ kids'[q] = kids[q]
           /\ stage'[q] = stage[q] /\ target'[q] = target[q],
         Fits(call'[p], todo'[p], kids'[p], stage'[p], target'[p])
  PROVE  FacadeInv'
<1>1. Forms'
  BY DEF Forms
<1>2. ASSUME NEW q \in Ops, q # p
      PROVE  Shaped(q)'
  <2>1. Fits(call[q], todo[q], kids[q], stage[q], target[q])
    BY DEF FacadeInv, Shaped
  <2>2. Fits(call'[q], todo'[q], kids'[q], stage'[q], target'[q])
    BY <1>2, <2>1
  <2> QED
    BY <2>2 DEF Shaped
<1>3. Shaped(p)'
  BY DEF Shaped
<1> QED
  BY <1>1, <1>2, <1>3 DEF FacadeInv

\* What one step of a call or a child does to the records.
LEMMA AwaitKeeps ==
  ASSUME NEW c \in Calls, NEW i \in Doing(c), Await(i),
         node \in [Nodes -> Content \cup {"absent", "dir"}]
  PROVE  /\ node' \in [Nodes -> Content \cup {"absent", "dir"}]
         /\ \A f \in Nodes \ Zone(c) : node'[f] = node[f]
         /\ After(i) \in Body(c)
<1>1. After(i) \in Body(c)
  BY Grounds, AfterWork DEF Await, Doing, Body
<1>2. i.data \in Content /\ (i.do \in Makes => i.path \in Zone(c))
  BY DEF Doing, Work, Clears, Copies, Makes
<1>3. CASE Read(i)
  BY <1>1, <1>3 DEF Read
<1>4. CASE SetRecord(i)
  <2>1. i.path \in Zone(c)
    BY <1>2, <1>4 DEF SetRecord, Makes
  <2> QED
    BY <1>1, <1>2, <1>4, <2>1 DEF SetRecord
<1>5. CASE Delete(i)
  <2>1. i.path \in Zone(c)
    BY <1>2, <1>5 DEF Delete, Makes
  <2> QED
    BY <1>1, <1>5, <2>1 DEF Delete
<1> QED
  BY <1>3, <1>4, <1>5 DEF Await

----------------------------------------------------------------------------
(* Each step keeps the invariant.                                          *)

\* What the invariant says of a call.
LEMMA CallFits ==
  ASSUME FacadeInv, NEW p \in Ops
  PROVE  /\ Fits(call[p], todo[p], kids[p], stage[p], target[p]) /\ ~aborted[p]
         /\ stage[p] # "held" => kids[p] = {}
         /\ todo[p] = <<>> => stage[p] = "idle"
         /\ node \in [Nodes -> Content \cup {"absent", "dir"}]
         /\ DOMAIN call = Ops /\ DOMAIN todo = Ops /\ DOMAIN kids = Ops /\ DOMAIN failed = Ops
         /\ stage \in [Ops -> Stages] /\ target \in [Ops -> LockNames]
         /\ aborted \in [Ops -> BOOLEAN] /\ \A q \in Ops : ~aborted[q]
BY DEF FacadeInv, Shaped, Fits, Forms, IInv, Types

\* The lock steps of a call are steps of MutationLocks.
LEMMA LocksKeep ==
  ASSUME FacadeInv, NEW p \in Ops,
         \/ UNCHANGED lockVars
         \/ \E t \in LockNames : AskTree(p, t)
         \/ TreeHeld(p) \/ AskFile(p) \/ FileHeld(p)
         \/ ReleaseLocks(p)
  PROVE  IInv'
<1>1. [LockNext]_lockVars
  BY DEF LockNext, LockStep
<1> QED
  BY <1>1, NextKeeps DEF FacadeInv

\* A call starts with the program of its method.
LEMMA StartKeeps ==
  ASSUME FacadeInv, NEW p \in Ops, NEW c \in Calls, Start(p, c)
  PROVE  FacadeInv'
<1>1. /\ todo[p] = <<>> /\ stage[p] = "idle" /\ kids[p] = {}
      /\ call' = [call EXCEPT ![p] = c] /\ todo' = [todo EXCEPT ![p] = Program(c, p)]
      /\ failed' = [failed EXCEPT ![p] = FALSE]
      /\ UNCHANGED lockVars /\ node' = node /\ kids' = kids
      /\ stage' = stage /\ target' = target /\ aborted' = aborted
  BY CallFits DEF Start, lockVars
<1>2. Program(c, p) \in Asking(c)
  BY ProgramShape
<1>3. Fits(c, Program(c, p), kids[p], stage[p], target[p])
  <2>1. Program(c, p) # <<>>
    BY <1>2, AskingSteps
  <2> QED
    BY <1>1, <1>2, <2>1 DEF Fits
<1>4. IInv'
  BY <1>1, LocksKeep
<1>5. /\ call'[p] = c /\ todo'[p] = Program(c, p) /\ kids'[p] = kids[p]
      /\ stage'[p] = stage[p] /\ target'[p] = target[p]
      /\ DOMAIN call' = Ops /\ DOMAIN todo' = Ops /\ DOMAIN kids' = Ops /\ DOMAIN failed' = Ops
      /\ \A q \in Ops : ~aborted'[q]
      /\ node' \in [Nodes -> Content \cup {"absent", "dir"}]
      /\ \A q \in Ops : q # p =>
           /\ call'[q] = call[q] /\ todo'[q] = todo[q] /\ kids'[q] = kids[q]
           /\ stage'[q] = stage[q] /\ target'[q] = target[q]
  BY <1>1, CallFits
<1>6. Fits(call'[p], todo'[p], kids'[p], stage'[p], target'[p])
  BY <1>3, <1>5
<1> QED
  BY <1>4, <1>5, <1>6, OneCallMoves

\* A call asks for the lock its program starts with.
LEMMA AskLockKeeps ==
  ASSUME FacadeInv, NEW p \in Ops, AskLock(p)
  PROVE  FacadeInv'
<1> DEFINE c == call[p]
           t == todo[p]
<1>1. /\ t # <<>> /\ Head(t).do = "lock" /\ AskTree(p, Head(t).path)
      /\ node' = node /\ call' = call /\ todo' = todo /\ kids' = kids /\ failed' = failed
  BY DEF AskLock, At
<1>2. Fits(c, t, kids[p], stage[p], target[p])
  BY CallFits
<1> HIDE DEF c, t
<1>3. c \in Calls /\ Head(t) = I("lock", LockOf(c)) /\ t \in Locking(c) /\ Head(t).path = LockOf(c)
  BY <1>1, <1>2, HeadOf, OtherSteps
<1>4. /\ stage[p] = "idle" /\ stage' = [stage EXCEPT ![p] = "tree"]
      /\ target' = [target EXCEPT ![p] = LockOf(c)] /\ aborted' = [aborted EXCEPT ![p] = FALSE]
  BY <1>1, <1>3 DEF AskTree, Become
<1>5. LockOf(c) \in LockNames
  BY <1>3, CallPaths
<1>6. IInv'
  BY <1>1, <1>3, <1>5, LocksKeep
<1>7. kids[p] = {}
  BY <1>4, CallFits
<1>8. Fits(c, t, kids[p], "tree", LockOf(c))
  BY <1>1, <1>3, <1>7 DEF Fits
<1>9. /\ call'[p] = c /\ todo'[p] = t /\ kids'[p] = kids[p]
      /\ stage'[p] = "tree" /\ target'[p] = LockOf(c)
      /\ DOMAIN call' = Ops /\ DOMAIN todo' = Ops /\ DOMAIN kids' = Ops /\ DOMAIN failed' = Ops
      /\ \A q \in Ops : ~aborted'[q]
      /\ node' \in [Nodes -> Content \cup {"absent", "dir"}]
      /\ \A q \in Ops : q # p =>
           /\ call'[q] = call[q] /\ todo'[q] = todo[q] /\ kids'[q] = kids[q]
           /\ stage'[q] = stage[q] /\ target'[q] = target[q]
  BY <1>1, <1>4, CallFits DEF c, t
<1>10. Fits(call'[p], todo'[p], kids'[p], stage'[p], target'[p])
  BY <1>8, <1>9
<1> QED
  BY <1>6, <1>9, <1>10, OneCallMoves

\* A call resumes with a lock.
LEMMA ResumeLockingKeeps ==
  ASSUME FacadeInv, NEW p \in Ops, ResumeLocking(p)
  PROVE  FacadeInv'
<1> DEFINE c == call[p]
           t == todo[p]
<1>1. /\ t # <<>> /\ Head(t).do = "lock"
      /\ node' = node /\ call' = call /\ kids' = kids /\ failed' = failed
  BY DEF ResumeLocking, At
<1>2. Fits(c, t, kids[p], stage[p], target[p])
  BY CallFits
<1>3. /\ TreeHeld(p) \/ FileHeld(p) \/ AskFile(p)
      /\ stage[p] \in {"tree", "file"} /\ target' = target /\ aborted' = aborted
  BY DEF ResumeLocking, TreeHeld, FileHeld, AskFile
<1>4. IInv'
  BY <1>3, LocksKeep
<1> HIDE DEF c, t
<1>5. /\ c \in Calls /\ t \in Locking(c) /\ Tail(t) \in Running(c) /\ <<>> \o Tail(t) = Tail(t)
      /\ target[p] = LockOf(c) /\ kids[p] = {}
  <2>1. Head(t) = I("lock", LockOf(c)) /\ t \in Locking(c) /\ c \in Calls
    BY <1>1, <1>2, HeadOf, OtherSteps
  <2>2. kids[p] = {} /\ target[p] = LockOf(c)
    BY <1>2, <1>3 DEF Fits
  <2> QED
    BY <2>1, <2>2, LockingSteps
<1>6. CASE (TreeHeld(p) \/ FileHeld(p)) /\ Proceed(p, <<>>)
  <2>1. stage' = [stage EXCEPT ![p] = "held"] /\ todo' = [todo EXCEPT ![p] = <<>> \o Tail(t)]
    BY <1>6 DEF TreeHeld, FileHeld, Become, Proceed, t
  <2>2. Fits(c, Tail(t), kids[p], "held", target[p])
    <3>1. Tail(t) # <<>>
      BY <1>5, RunningSteps
    <3> QED
      BY <1>5, <3>1 DEF Fits
  <2>3. /\ call'[p] = c /\ todo'[p] = Tail(t) /\ kids'[p] = kids[p]
        /\ stage'[p] = "held" /\ target'[p] = target[p]
        /\ DOMAIN call' = Ops /\ DOMAIN todo' = Ops /\ DOMAIN kids' = Ops /\ DOMAIN failed' = Ops
        /\ \A q \in Ops : ~aborted'[q]
        /\ node' \in [Nodes -> Content \cup {"absent", "dir"}]
        /\ \A q \in Ops : q # p =>
             /\ call'[q] = call[q] /\ todo'[q] = todo[q] /\ kids'[q] = kids[q]
             /\ stage'[q] = stage[q] /\ target'[q] = target[q]
    BY <1>1, <1>3, <1>5, <2>1, CallFits DEF c
  <2>4. Fits(call'[p], todo'[p], kids'[p], stage'[p], target'[p])
    BY <2>2, <2>3
  <2> QED
    BY <1>4, <2>3, <2>4, OneCallMoves
<1>7. CASE AskFile(p) /\ UNCHANGED todo
  <2>1. stage' = [stage EXCEPT ![p] = "file"] /\ todo' = todo
    BY <1>7, CallFits DEF AskFile, Become
  <2>2. Fits(c, t, kids[p], "file", target[p])
    BY <1>1, <1>5 DEF Fits
  <2>3. /\ call'[p] = c /\ todo'[p] = t /\ kids'[p] = kids[p]
        /\ stage'[p] = "file" /\ target'[p] = target[p]
        /\ DOMAIN call' = Ops /\ DOMAIN todo' = Ops /\ DOMAIN kids' = Ops /\ DOMAIN failed' = Ops
        /\ \A q \in Ops : ~aborted'[q]
        /\ node' \in [Nodes -> Content \cup {"absent", "dir"}]
        /\ \A q \in Ops : q # p =>
             /\ call'[q] = call[q] /\ todo'[q] = todo[q] /\ kids'[q] = kids[q]
             /\ stage'[q] = stage[q] /\ target'[q] = target[q]
    BY <1>1, <1>3, <2>1, CallFits DEF c, t
  <2>4. Fits(call'[p], todo'[p], kids'[p], stage'[p], target'[p])
    BY <2>2, <2>3
  <2> QED
    BY <1>4, <2>3, <2>4, OneCallMoves
<1> QED
  BY <1>6, <1>7 DEF ResumeLocking

\* A call releases; a move goes on with its second half, unless a child failed.
LEMMA UnlockKeeps ==
  ASSUME FacadeInv, NEW p \in Ops, Unlock(p)
  PROVE  FacadeInv'
<1> DEFINE c == call[p]
           t == todo[p]
<1>1. /\ t # <<>> /\ Head(t).do = "unlock" /\ kids[p] = {} /\ ReleaseLocks(p)
      /\ todo' = [todo EXCEPT ![p] = IF failed[p] THEN <<>> ELSE Tail(t)]
      /\ call' = [call EXCEPT ![p] = IF todo'[p] = <<>> THEN NoCall ELSE @]
      /\ failed' = [failed EXCEPT ![p] = @ /\ todo'[p] # <<>>]
      /\ node' = node /\ kids' = kids
  BY DEF Unlock, At, MayEnd
<1>2. Fits(c, t, kids[p], stage[p], target[p])
  BY CallFits
<1>3. /\ stage' = [stage EXCEPT ![p] = "idle"] /\ target' = [target EXCEPT ![p] = Tree]
      /\ aborted' = aborted
  BY <1>1 DEF ReleaseLocks, Become
<1>4. IInv'
  BY <1>1, LocksKeep
<1> HIDE DEF t
<1>5. c \in Calls /\ Tail(t) \in {<<>>} \cup Locking(c)
  BY <1>1, <1>2, HeadOf, OtherSteps
<1>6. todo'[p] \in {<<>>} \cup Locking(c)
  BY <1>1, <1>5, CallFits
<1>7. call'[p] = IF todo'[p] = <<>> THEN NoCall ELSE c
  BY <1>1, CallFits
<1> HIDE DEF c
<1>8. Fits(call'[p], todo'[p], kids[p], "idle", Tree)
  <2>1. Locking(c) \subseteq Asking(c)
    BY <1>5, Shapes
  <2> DEFINE r == todo'[p]
             d == call'[p]
  <2>2. r \in {<<>>} \cup Asking(c) /\ d = IF r = <<>> THEN NoCall ELSE c
    BY <1>6, <1>7, <2>1
  <2> HIDE DEF r, d
  <2>3. Fits(d, r, kids[p], "idle", Tree)
    BY <1>1, <1>5, <2>2 DEF Fits
  <2> QED
    BY <2>3 DEF r, d
<1>9. /\ kids'[p] = kids[p] /\ stage'[p] = "idle" /\ target'[p] = Tree
      /\ DOMAIN call' = Ops /\ DOMAIN todo' = Ops /\ DOMAIN kids' = Ops /\ DOMAIN failed' = Ops
      /\ \A q \in Ops : ~aborted'[q]
      /\ node' \in [Nodes -> Content \cup {"absent", "dir"}]
      /\ \A q \in Ops : q # p =>
           /\ call'[q] = call[q] /\ todo'[q] = todo[q] /\ kids'[q] = kids[q]
           /\ stage'[q] = stage[q] /\ target'[q] = target[q]
  BY <1>1, <1>3, CallFits
<1>10. Fits(call'[p], todo'[p], kids'[p], stage'[p], target'[p])
  BY <1>8, <1>9
<1> QED
  BY <1>4, <1>9, <1>10, OneCallMoves

\* getFileHandle finds the file, or goes on to create it.
LEMMA LookupKeeps ==
  ASSUME FacadeInv, NEW p \in Ops, Lookup(p)
  PROVE  FacadeInv'
<1> DEFINE c == call[p]
           t == todo[p]
<1>1. /\ t # <<>> /\ Head(t).do = "lookup"
      /\ todo' = [todo EXCEPT ![p] = IF IsFile(Head(t).path) THEN <<>> ELSE Tail(t)]
      /\ call' = [call EXCEPT ![p] = IF todo'[p] = <<>> THEN NoCall ELSE @]
      /\ failed' = [failed EXCEPT ![p] = @ /\ todo'[p] # <<>>]
      /\ node' = node /\ kids' = kids /\ UNCHANGED lockVars
      /\ stage' = stage /\ target' = target /\ aborted' = aborted
  BY DEF Lookup, At, MayEnd, lockVars
<1>2. Fits(c, t, kids[p], stage[p], target[p])
  BY CallFits
<1>3. IInv'
  BY <1>1, LocksKeep
<1> HIDE DEF t
<1>4. c \in Calls /\ stage[p] = "idle" /\ Tail(t) \in Locking(c)
  BY <1>1, <1>2, HeadOf, OtherSteps
<1>5. todo'[p] \in {<<>>} \cup Locking(c) /\ call'[p] = IF todo'[p] = <<>> THEN NoCall ELSE c
  BY <1>1, <1>4, CallFits
<1>6. kids[p] = {}
  BY <1>4, CallFits
<1> HIDE DEF c
<1>7. Fits(call'[p], todo'[p], kids[p], stage[p], target[p])
  <2>1. Locking(c) \subseteq Asking(c)
    BY <1>4, Shapes
  <2> DEFINE r == todo'[p]
             d == call'[p]
  <2>2. r \in {<<>>} \cup Asking(c) /\ d = IF r = <<>> THEN NoCall ELSE c
    BY <1>5, <2>1
  <2> HIDE DEF r, d
  <2>3. Fits(d, r, kids[p], stage[p], target[p])
    BY <1>4, <1>6, <2>2 DEF Fits
  <2> QED
    BY <2>3 DEF r, d
<1>8. /\ kids'[p] = kids[p] /\ stage'[p] = stage[p] /\ target'[p] = target[p]
      /\ DOMAIN call' = Ops /\ DOMAIN todo' = Ops /\ DOMAIN kids' = Ops /\ DOMAIN failed' = Ops
      /\ \A q \in Ops : ~aborted'[q]
      /\ node' \in [Nodes -> Content \cup {"absent", "dir"}]
      /\ \A q \in Ops : q # p =>
           /\ call'[q] = call[q] /\ todo'[q] = todo[q] /\ kids'[q] = kids[q]
           /\ stage'[q] = stage[q] /\ target'[q] = target[q]
  BY <1>1, CallFits
<1>9. Fits(call'[p], todo'[p], kids'[p], stage'[p], target'[p])
  BY <1>7, <1>8
<1> QED
  BY <1>3, <1>8, <1>9, OneCallMoves

\* A step that only puts other awaits in the place of the first.
LEMMA ProceedKeeps ==
  ASSUME FacadeInv, NEW p \in Ops, NEW w \in Body(call[p]),
         todo[p] # <<>>, stage[p] = "held", Head(todo[p]) \in Doing(call[p]),
         Proceed(p, w), UNCHANGED <<lockVars, call, failed>>,
         node' \in [Nodes -> Content \cup {"absent", "dir"}],
         DOMAIN kids' = Ops, \A q \in Ops : q # p => kids'[q] = kids[q],
         kids'[p] # {} => target[p] = Tree,
         \A b \in kids'[p] : b \in kids[p] \/ b \in Body(call[p]) \ {<<>>}
  PROVE  FacadeInv'
<1> DEFINE c == call[p]
           t == todo[p]
           s == stage[p]
           g == target[p]
           k == kids'[p]
<1>1. Fits(c, t, kids[p], s, g)
  BY CallFits
<1>2. c \in Calls /\ g = LockOf(c)
  BY <1>1, HeadOf
<1>3. \A v \in Body(c) : v \o Tail(t) \in Running(c)
  <2> HIDE DEF c, t, s, g
  <2>1. Head(t) \in Doing(c) /\ t # <<>>
    BY DEF c, t
  <2> QED
    BY <1>1, <2>1, HeadOf, OtherSteps
<1>4. /\ todo' = [todo EXCEPT ![p] = w \o Tail(t)] /\ call' = call /\ failed' = failed
      /\ stage' = stage /\ target' = target /\ aborted' = aborted /\ UNCHANGED lockVars
  BY DEF Proceed, lockVars
<1>5. IInv'
  BY <1>4, LocksKeep
<1>6. w \o Tail(t) \in Running(c)
  BY <1>3
<1> DEFINE r == w \o Tail(t)
<1>7. \A b \in k : b \in Body(c) \ {<<>>}
  BY <1>1 DEF Fits
<1>8. s = "held" /\ (k # {} => g = Tree)
  OBVIOUS
<1>9. r \in Running(c) /\ r # <<>>
  BY <1>2, <1>6, RunningSteps
<1>10. /\ call'[p] = c /\ todo'[p] = r /\ kids'[p] = k /\ stage'[p] = s /\ target'[p] = g
       /\ DOMAIN call' = Ops /\ DOMAIN todo' = Ops /\ DOMAIN kids' = Ops /\ DOMAIN failed' = Ops
       /\ \A q \in Ops : ~aborted'[q]
       /\ node' \in [Nodes -> Content \cup {"absent", "dir"}]
       /\ \A q \in Ops : q # p =>
            /\ call'[q] = call[q] /\ todo'[q] = todo[q] /\ kids'[q] = kids[q]
            /\ stage'[q] = stage[q] /\ target'[q] = target[q]
  BY <1>4, CallFits
<1> HIDE DEF c, t, s, g, k, r
<1>11. Fits(c, r, k, s, g)
  BY <1>2, <1>7, <1>8, <1>9 DEF Fits
<1>12. Fits(call'[p], todo'[p], kids'[p], stage'[p], target'[p])
  BY <1>10, <1>11
<1> QED
  BY <1>5, <1>10, <1>12, OneCallMoves

\* Work is done only under the lock.
LEMMA WorkIsHeld ==
  ASSUME FacadeInv, NEW p \in Ops, todo[p] # <<>>, Head(todo[p]).do \in Deeds
  PROVE  /\ stage[p] = "held" /\ call[p] \in Calls /\ Head(todo[p]) \in Doing(call[p])
         /\ target[p] = LockOf(call[p])
<1> DEFINE c == call[p]
           t == todo[p]
           s == stage[p]
           g == target[p]
<1>1. Fits(c, t, kids[p], s, g) /\ t # <<>> /\ Head(t).do \in Deeds
  BY CallFits
<1> HIDE DEF c, t, s, g
<1>2. c \in Calls /\ s = "held" /\ Head(t) \in Doing(c) /\ g = LockOf(c)
  BY <1>1, HeadOf, OtherSteps
<1> QED
  BY <1>2 DEF c, t, s, g

\* The awaits of the storage.
LEMMA MainAwaitKeeps ==
  ASSUME FacadeInv, NEW p \in Ops, MainAwait(p)
  PROVE  FacadeInv'
<1> DEFINE c == call[p]
           t == todo[p]
           i == Head(t)
           s == stage[p]
           g == target[p]
<1>1. /\ t # <<>> /\ Await(i) /\ Proceed(p, After(i))
      /\ UNCHANGED <<lockVars, call, failed>> /\ kids' = kids
  BY DEF MainAwait
<1>2. Fits(c, t, kids[p], s, g)
  BY CallFits
<1>3. CASE i.do \in Deeds
  <2>1. s = "held" /\ c \in Calls /\ i \in Doing(c) /\ g = LockOf(c)
    BY <1>1, <1>3, WorkIsHeld
  <2>2. node' \in [Nodes -> Content \cup {"absent", "dir"}] /\ After(i) \in Body(c)
    BY <1>1, <2>1, AwaitKeeps, CallFits
  <2>3. kids[p] # {} => g = Tree
    BY <1>2 DEF Fits
  <2>4. \A b \in kids'[p] : b \in kids[p] \/ b \in Body(c) \ {<<>>}
    BY <1>1
  <2>5. DOMAIN kids' = Ops
    BY <1>1, CallFits
  <2> QED
    BY <1>1, <2>1, <2>2, <2>3, <2>4, <2>5, ProceedKeeps
<1>4. CASE i.do \notin Deeds
  <2>1. i.do \in Reads \cup {"setDir", "setFile", "delete"}
    BY <1>1 DEF Await, Read, SetRecord, Delete
  <2>2. i.do = "isDir"
    BY <1>4, <2>1 DEF Deeds, Makes, Clears, Copies, Reads
  <2> HIDE DEF t
  <2>3. c \in Calls /\ s = "idle" /\ Tail(t) \in Locking(c) /\ <<>> \o Tail(t) = Tail(t)
    BY <1>1, <1>2, <2>2, HeadOf, OtherSteps
  <2>4. node' = node /\ After(i) = <<>>
    BY <1>1, <2>2 DEF Await, Read, SetRecord, Delete, After
  <2>5. /\ todo' = [todo EXCEPT ![p] = Tail(t)] /\ call' = call /\ failed' = failed
        /\ stage' = stage /\ target' = target /\ aborted' = aborted /\ UNCHANGED lockVars
    BY <1>1, <2>3, <2>4 DEF Proceed, lockVars, t
  <2>6. IInv'
    BY <2>5, LocksKeep
  <2>7. Tail(t) \in Asking(c) /\ Tail(t) # <<>> /\ kids[p] = {}
    BY <2>3, Shapes, AskingSteps, CallFits
  <2>8. Fits(c, Tail(t), kids[p], s, g)
    BY <2>3, <2>7 DEF Fits
  <2>9. /\ call'[p] = c /\ todo'[p] = Tail(t) /\ kids'[p] = kids[p] /\ stage'[p] = s /\ target'[p] = g
        /\ DOMAIN call' = Ops /\ DOMAIN todo' = Ops /\ DOMAIN kids' = Ops /\ DOMAIN failed' = Ops
        /\ \A q \in Ops : ~aborted'[q]
        /\ node' \in [Nodes -> Content \cup {"absent", "dir"}]
        /\ \A q \in Ops : q # p =>
             /\ call'[q] = call[q] /\ todo'[q] = todo[q] /\ kids'[q] = kids[q]
             /\ stage'[q] = stage[q] /\ target'[q] = target[q]
    BY <1>1, <2>4, <2>5, CallFits
  <2>10. Fits(call'[p], todo'[p], kids'[p], stage'[p], target'[p])
    BY <2>8, <2>9
  <2> QED
    BY <2>6, <2>9, <2>10, OneCallMoves
<1> QED
  BY <1>3, <1>4

\* A call that gives up goes to its release, or ends if it has no lock.
LEMMA UnwindKeeps ==
  ASSUME FacadeInv, NEW p \in Ops, Unwind(p), stage[p] \in {"held", "idle"},
         call[p] \in Calls \/ stage[p] # "held",
         stage[p] = "held" => call'[p] = call[p],
         UNCHANGED <<lockVars, node>>,
         DOMAIN call' = Ops, DOMAIN kids' = Ops, DOMAIN failed' = Ops,
         \A q \in Ops : q # p => call'[q] = call[q] /\ kids'[q] = kids[q],
         kids'[p] \subseteq kids[p]
  PROVE  FacadeInv'
<1> DEFINE c == call[p]
           s == stage[p]
           g == target[p]
           k == kids'[p]
           u == I("unlock", target[p])
           r == If(s = "held", <<u>>)
           d == call'[p]
<1>1. Fits(c, todo[p], kids[p], s, g) /\ k \subseteq kids[p]
  BY CallFits
<1>2. /\ stage' = stage /\ target' = target /\ aborted' = aborted /\ UNCHANGED lockVars
      /\ node' = node /\ todo' = [todo EXCEPT ![p] = r]
  BY DEF lockVars, Unwind
<1>3. IInv'
  BY <1>2, LocksKeep
<1>4. (s = "held" => r = <<u>>) /\ (s # "held" => r = <<>>)
  BY DEF If
<1>5. s = "held" => g = LockOf(c) /\ c \in Calls /\ d = c
  BY <1>1 DEF Fits
<1>6. s = "held" => r \in Running(c) /\ r # <<>>
  <2> HIDE DEF r, c, s
  <2>1. s = "held" => r = <<I("unlock", LockOf(c))>>
    BY <1>4, <1>5
  <2> QED
    BY <1>5, <2>1, ReleasingShape, RunningSteps
<1>7. s \in {"held", "idle"}
  OBVIOUS
<1> HIDE DEF c, s, g, k, r, d
<1>8. Fits(d, r, k, s, g)
  <2>1. CASE s = "held"
    BY <1>1, <1>5, <1>6, <2>1 DEF Fits
  <2>2. CASE s = "idle"
    BY <1>1, <1>4, <2>2 DEF Fits
  <2> QED
    BY <1>7, <2>1, <2>2
<1>9. /\ call'[p] = d /\ todo'[p] = r /\ kids'[p] = k /\ stage'[p] = s /\ target'[p] = g
      /\ DOMAIN call' = Ops /\ DOMAIN todo' = Ops /\ DOMAIN kids' = Ops /\ DOMAIN failed' = Ops
      /\ \A q \in Ops : ~aborted'[q]
      /\ node' \in [Nodes -> Content \cup {"absent", "dir"}]
      /\ \A q \in Ops : q # p =>
           /\ call'[q] = call[q] /\ todo'[q] = todo[q] /\ kids'[q] = kids[q]
           /\ stage'[q] = stage[q] /\ target'[q] = target[q]
  BY <1>2, CallFits DEF d, k, s, g
<1>10. Fits(call'[p], todo'[p], kids'[p], stage'[p], target'[p])
  BY <1>8, <1>9
<1> QED
  BY <1>3, <1>9, <1>10, OneCallMoves

\* The method throws.
LEMMA ThrowKeeps ==
  ASSUME FacadeInv, NEW p \in Ops, Throw(p)
  PROVE  FacadeInv'
<1> DEFINE c == call[p]
           t == todo[p]
           s == stage[p]
<1>1. /\ t # <<>> /\ Head(t).do # "lock" /\ Unwind(p)
      /\ call' = [call EXCEPT ![p] = IF stage[p] = "held" THEN @ ELSE NoCall]
      /\ failed' = [failed EXCEPT ![p] = stage[p] = "held"]
      /\ UNCHANGED <<lockVars, node>> /\ kids' = kids
  BY DEF Throw, At
<1>2. Fits(c, t, kids[p], s, target[p])
  BY CallFits
<1> HIDE DEF c, t, s
<1>3. s \in {"held", "idle"} /\ c \in Calls
  BY <1>1, <1>2, HeadOf, OtherSteps
<1>4. /\ DOMAIN call' = Ops /\ DOMAIN kids' = Ops /\ DOMAIN failed' = Ops
      /\ s = "held" => call'[p] = call[p]
      /\ \A q \in Ops : q # p => call'[q] = call[q] /\ kids'[q] = kids[q]
      /\ kids'[p] \subseteq kids[p]
  BY <1>1, CallFits DEF s
<1> QED
  BY <1>1, <1>3, <1>4, UnwindKeeps DEF c, s

\* A copy stops walking once a child has failed.
LEMMA BreakWalkKeeps ==
  ASSUME FacadeInv, NEW p \in Ops, BreakWalk(p)
  PROVE  FacadeInv'
<1>1. /\ todo[p] # <<>> /\ Head(todo[p]).do \in {"entryDir", "spawnCopy"} /\ Unwind(p)
      /\ UNCHANGED <<lockVars, node>> /\ call' = call /\ kids' = kids /\ failed' = failed
  BY DEF BreakWalk, At
<1>2. Head(todo[p]).do \in Deeds
  BY <1>1 DEF Deeds, Copies
<1>3. stage[p] = "held" /\ call[p] \in Calls
  BY <1>1, <1>2, WorkIsHeld
<1>4. DOMAIN call' = Ops /\ DOMAIN kids' = Ops /\ DOMAIN failed' = Ops
  BY <1>1, CallFits
<1> QED
  BY <1>1, <1>3, <1>4, UnwindKeeps

\* A copy makes the directory it has found, then walks it.
LEMMA EntryDirKeeps ==
  ASSUME FacadeInv, NEW p \in Ops, EntryDir(p)
  PROVE  FacadeInv'
<1> DEFINE c == call[p]
           i == Head(todo[p])
           w == <<I("createDir", i.to), [i EXCEPT !.do = "walk"]>>
<1>1. /\ todo[p] # <<>> /\ i.do = "entryDir" /\ Proceed(p, w)
      /\ UNCHANGED <<lockVars, call, failed>> /\ node' = node /\ kids' = kids
  BY DEF EntryDir, At
<1>2. i.do \in Deeds
  BY <1>1 DEF Deeds, Copies
<1>3. stage[p] = "held" /\ c \in Calls /\ i \in Doing(c)
  BY <1>1, <1>2, WorkIsHeld
<1>4. Ground(Zone(c), DeepZone(c)) /\ i \in Work(Zone(c), DeepZone(c))
  BY <1>3, Grounds DEF Doing
<1> HIDE DEF c, i
<1>5. i.to \in DeepZone(c) /\ i.to \in Names /\ i.to \in Zone(c)
  BY <1>1, <1>4 DEF Work, Ground, Makes, Clears
<1>6. [i EXCEPT !.do = "walk"] \in Work(Zone(c), DeepZone(c))
  <2>1. "walk" \in Copies /\ "walk" \in Deeds
    BY DEF Copies, Deeds
  <2> QED
    BY <1>4, <1>5, <2>1, RenamedWork
<1>7. I("createDir", i.to) \in Work(Zone(c), DeepZone(c))
  <2> DEFINE t == i.to
  <2>1. t \in Zone(c) /\ t \in Names /\ "createDir" \in Makes /\ "old" \in Content
    BY <1>5 DEF Makes, Content
  <2> HIDE DEF t
  <2>2. I("createDir", t) \in Work(Zone(c), DeepZone(c))
    BY <2>1 DEF I, Work, Deeds
  <2> QED
    BY <2>2 DEF t
<1>8. w \in Body(c)
  BY <1>6, <1>7, Programs DEF Body, Doing
<1>9. /\ kids[p] # {} => target[p] = Tree
      /\ \A b \in kids[p] : b \in Body(c) \ {<<>>}
      /\ DOMAIN kids' = Ops /\ node' \in [Nodes -> Content \cup {"absent", "dir"}]
      /\ kids'[p] = kids[p]
  <2>1. Fits(c, todo[p], kids[p], stage[p], target[p])
    BY CallFits DEF c
  <2>2. /\ kids[p] # {} => target[p] = Tree
        /\ \A b \in kids[p] : b \in Body(c) \ {<<>>}
    BY <2>1 DEF Fits
  <2>3. DOMAIN kids' = Ops /\ node' \in [Nodes -> Content \cup {"absent", "dir"}]
    BY <1>1 DEF FacadeInv, Forms
  <2> QED
    BY <1>1, <2>2, <2>3
<1> HIDE DEF w
<1> QED
  BY <1>1, <1>3, <1>8, <1>9, ProceedKeeps DEF c, i

\* A child starts only under the tree lock.
LEMMA SpawnKeeps ==
  ASSUME FacadeInv, NEW p \in Ops, Spawn(p)
  PROVE  FacadeInv'
<1> DEFINE c == call[p]
           i == Head(todo[p])
           x == IF i.do = "spawnCopy" THEN [i EXCEPT !.do = "copyFile"]
                ELSE [i EXCEPT !.do = "remove", !.flag = TRUE]
<1>1. /\ todo[p] # <<>> /\ i.do \in {"spawnCopy", "spawnRemove"} /\ Proceed(p, <<>>)
      /\ kids' = [kids EXCEPT ![p] = @ \cup {<<x>>}]
      /\ UNCHANGED <<lockVars, call, failed>> /\ node' = node
  BY DEF Spawn, At
<1>2. i.do \in Deeds
  BY <1>1 DEF Deeds, Copies, Clears
<1>3. stage[p] = "held" /\ c \in Calls /\ i \in Doing(c) /\ target[p] = LockOf(c)
  BY <1>1, <1>2, WorkIsHeld
<1>4. Ground(Zone(c), DeepZone(c)) /\ i \in Work(Zone(c), DeepZone(c))
  BY <1>3, Grounds DEF Doing
<1> HIDE DEF c
<1>5. /\ i.do = "spawnCopy" => i.to \in DeepZone(c)
      /\ i.do = "spawnRemove" => i.path \in DeepZone(c)
  BY <1>4 DEF Work, Makes, Clears, Copies
<1>6. target[p] = Tree
  <2>1. c.op \notin FileCalls
    <3>1. DeepZone(c) # {}
      BY <1>1, <1>5
    <3> QED
      BY <3>1 DEF DeepZone, FileCalls
  <2> QED
    BY <1>3, <2>1 DEF LockOf
<1>7. x \in Work(Zone(c), DeepZone(c))
  <2>1. CASE i.do = "spawnCopy"
    <3>1. "copyFile" \in Copies /\ "copyFile" \in Deeds /\ x = [i EXCEPT !.do = "copyFile"]
      BY <2>1 DEF Copies, Deeds
    <3> HIDE DEF i, x
    <3> QED
      BY <1>4, <1>5, <2>1, <3>1, RenamedWork DEF i
  <2>2. CASE i.do = "spawnRemove"
    <3>1. "remove" \in Clears /\ "remove" \in Deeds /\ x = [i EXCEPT !.do = "remove", !.flag = TRUE]
      BY <2>2 DEF Clears, Deeds
    <3> HIDE DEF i, x
    <3> QED
      BY <1>4, <1>5, <2>2, <3>1 DEF Work
  <2> QED
    BY <1>1, <2>1, <2>2
<1> HIDE DEF x
<1>8. <<x>> \in Body(c) /\ <<x>> # <<>> /\ <<>> \in Body(c)
  BY <1>7, Programs DEF Body, Doing
<1>9. /\ DOMAIN kids' = Ops /\ kids'[p] = kids[p] \cup {<<x>>}
      /\ \A q \in Ops : q # p => kids'[q] = kids[q]
      /\ node' \in [Nodes -> Content \cup {"absent", "dir"}]
  BY <1>1, CallFits
<1>10. \A b \in kids'[p] : b \in kids[p] \/ b \in Body(c) \ {<<>>}
  BY <1>8, <1>9
<1> HIDE DEF i
<1> QED
  BY <1>1, <1>3, <1>6, <1>8, <1>9, <1>10, ProceedKeeps DEF c, i

\* A child works only while its call holds the tree.
LEMMA KidsWork ==
  ASSUME FacadeInv, NEW p \in Ops, NEW k \in kids[p]
  PROVE  /\ stage[p] = "held" /\ target[p] = Tree /\ call[p] \in Calls
         /\ target[p] = LockOf(call[p]) /\ todo[p] \in Running(call[p])
         /\ k \in Body(call[p]) /\ k # <<>> /\ Head(k) \in Doing(call[p])
         /\ Tail(k) \in Body(call[p])
<1>1. /\ stage[p] = "held" /\ target[p] = Tree /\ k \in Body(call[p]) \ {<<>>}
      /\ target[p] = LockOf(call[p]) /\ todo[p] \in Running(call[p])
  BY CallFits DEF Fits
<1>2. call[p] \in Calls
  <2>1. todo[p] # <<>>
    BY <1>1, CallFits
  <2> QED
    BY <2>1, CallFits DEF Fits
<1>3. Head(k) \in Doing(call[p]) /\ Tail(k) \in Body(call[p])
  BY <1>1, HeadTailProperties DEF Body
<1> QED
  BY <1>1, <1>2, <1>3

\* A step of a child.
LEMMA KidAwaitKeeps ==
  ASSUME FacadeInv, NEW p \in Ops, NEW k \in kids[p], KidAwait(p, k)
  PROVE  FacadeInv'
<1> DEFINE c == call[p]
           r == After(Head(k)) \o Tail(k)
           K == (kids[p] \ {k}) \cup ({r} \ {<<>>})
<1>1. /\ Await(Head(k)) /\ kids' = [kids EXCEPT ![p] = K]
      /\ call' = call /\ todo' = todo /\ failed' = failed /\ UNCHANGED lockVars
      /\ stage' = stage /\ target' = target /\ aborted' = aborted
  BY DEF KidAwait, lockVars
<1>2. /\ stage[p] = "held" /\ target[p] = Tree /\ c \in Calls /\ Head(k) \in Doing(c)
      /\ Tail(k) \in Body(c)
  BY KidsWork
<1>3. node' \in [Nodes -> Content \cup {"absent", "dir"}] /\ After(Head(k)) \in Body(c)
  BY <1>1, <1>2, AwaitKeeps, CallFits
<1>4. r \in Body(c)
  BY <1>2, <1>3, Programs DEF Body
<1>5. IInv'
  BY <1>1, LocksKeep
<1>6. Fits(c, todo[p], kids[p], stage[p], target[p])
  BY CallFits
<1> HIDE DEF c, r
<1>7. \A b \in K : b \in Body(c) \ {<<>>}
  BY <1>4, <1>6 DEF Fits
<1> HIDE DEF K
<1>8. Fits(c, todo[p], K, stage[p], target[p])
  BY <1>2, <1>6, <1>7 DEF Fits
<1>9. /\ call'[p] = c /\ todo'[p] = todo[p] /\ kids'[p] = K
      /\ stage'[p] = stage[p] /\ target'[p] = target[p]
      /\ DOMAIN call' = Ops /\ DOMAIN todo' = Ops /\ DOMAIN kids' = Ops /\ DOMAIN failed' = Ops
      /\ \A q \in Ops : ~aborted'[q]
      /\ \A q \in Ops : q # p =>
           /\ call'[q] = call[q] /\ todo'[q] = todo[q] /\ kids'[q] = kids[q]
           /\ stage'[q] = stage[q] /\ target'[q] = target[q]
  BY <1>1, CallFits DEF c
<1>10. Fits(call'[p], todo'[p], kids'[p], stage'[p], target'[p])
  BY <1>8, <1>9
<1> QED
  BY <1>3, <1>5, <1>9, <1>10, OneCallMoves

\* A child fails.
LEMMA KidThrowKeeps ==
  ASSUME FacadeInv, NEW p \in Ops, NEW k \in kids[p], KidThrow(p, k)
  PROVE  FacadeInv'
<1>1. /\ kids' = [kids EXCEPT ![p] = kids[p] \ {k}] /\ failed' = [failed EXCEPT ![p] = TRUE]
      /\ call' = call /\ node' = node /\ UNCHANGED lockVars
      /\ stage' = stage /\ target' = target /\ aborted' = aborted
      /\ Unwind(p) \/ todo' = todo
  BY DEF KidThrow, lockVars
<1>2. stage[p] = "held" /\ target[p] = Tree /\ call[p] \in Calls
  BY KidsWork
<1>3. /\ DOMAIN call' = Ops /\ DOMAIN kids' = Ops /\ DOMAIN failed' = Ops
      /\ kids'[p] = kids[p] \ {k}
      /\ \A q \in Ops : q # p => call'[q] = call[q] /\ kids'[q] = kids[q]
  BY <1>1, CallFits
<1>4. CASE Unwind(p)
  <2>1. kids'[p] \subseteq kids[p] /\ call'[p] = call[p]
    BY <1>1, <1>3
  <2> QED
    BY <1>1, <1>2, <1>3, <1>4, <2>1, UnwindKeeps
<1>5. CASE todo' = todo
  <2> DEFINE K == kids[p] \ {k}
  <2>1. Fits(call[p], todo[p], kids[p], stage[p], target[p])
    BY CallFits
  <2>2. Fits(call[p], todo[p], K, stage[p], target[p])
    BY <2>1, <1>2 DEF Fits
  <2>3. IInv'
    BY <1>1, LocksKeep
  <2>4. /\ call'[p] = call[p] /\ todo'[p] = todo[p] /\ kids'[p] = K
        /\ stage'[p] = stage[p] /\ target'[p] = target[p]
        /\ DOMAIN todo' = Ops /\ \A q \in Ops : ~aborted'[q]
        /\ node' \in [Nodes -> Content \cup {"absent", "dir"}]
        /\ \A q \in Ops : q # p =>
             /\ call'[q] = call[q] /\ todo'[q] = todo[q] /\ kids'[q] = kids[q]
             /\ stage'[q] = stage[q] /\ target'[q] = target[q]
    BY <1>1, <1>3, <1>5, CallFits
  <2>5. Fits(call'[p], todo'[p], kids'[p], stage'[p], target'[p])
    BY <2>2, <2>4
  <2> QED
    BY <1>3, <2>3, <2>4, <2>5, OneCallMoves
<1> QED
  BY <1>1, <1>4, <1>5

\* Every step keeps the invariant.
LEMMA FacadeNextKeeps == FacadeInv /\ [FacadeNext]_facadeVars => FacadeInv'
<1> SUFFICES ASSUME FacadeInv, [FacadeNext]_facadeVars
             PROVE  FacadeInv'
  OBVIOUS
<1>1. ASSUME NEW p \in Ops, NEW c \in Calls, Start(p, c)
      PROVE  FacadeInv'
  BY <1>1, StartKeeps
<1>2. ASSUME NEW p \in Ops, CallStep(p)
      PROVE  FacadeInv'
  BY <1>2, AskLockKeeps, ResumeLockingKeeps, UnlockKeeps, LookupKeeps, MainAwaitKeeps,
     ThrowKeeps, EntryDirKeeps, BreakWalkKeeps, SpawnKeeps DEF CallStep
<1>3. ASSUME NEW p \in Ops, KidStep(p)
      PROVE  FacadeInv'
  BY <1>3, KidAwaitKeeps, KidThrowKeeps DEF KidStep
<1>4. CASE UNCHANGED facadeVars
  <2>1. /\ UNCHANGED lockVars /\ node' = node /\ call' = call /\ todo' = todo /\ kids' = kids
        /\ failed' = failed /\ stage' = stage /\ target' = target /\ aborted' = aborted
    BY <1>4 DEF facadeVars, lockVars
  <2>2. IInv'
    BY <2>1, NextKeeps DEF FacadeInv
  <2>3. Forms' /\ \A p \in Ops : Shaped(p)'
    BY <2>1 DEF FacadeInv, Forms, Shaped
  <2> QED
    BY <2>2, <2>3 DEF FacadeInv
<1> QED
  BY <1>1, <1>2, <1>3, <1>4 DEF FacadeNext

\* Nothing runs at the start.
LEMMA FacadeInitHolds == FacadeInit => FacadeInv
<1> SUFFICES ASSUME FacadeInit
             PROVE  FacadeInv
  OBVIOUS
<1>1. IInv
  BY InitHolds DEF FacadeInit
<1>2. Forms
  <2>1. node \in [Nodes -> Content \cup {"absent", "dir"}]
    BY FacadeAssumption DEF FacadeInit
  <2> QED
    BY <2>1 DEF Forms, FacadeInit, LockInit
<1>3. ASSUME NEW p \in Ops
      PROVE  Shaped(p)
  BY DEF Shaped, Fits, FacadeInit, LockInit
<1> QED
  BY <1>1, <1>2, <1>3 DEF FacadeInv

----------------------------------------------------------------------------
(* The theorems.                                                           *)

\* The invariant holds of every reachable state, whatever the calls, the tree
\* they start with and the failures.
THEOREM CallsKeepTheirShape == FacadeSpec => []FacadeInv
<1> QED
  BY FacadeInitHolds, FacadeNextKeeps, PTL DEF FacadeSpec

\* settleConcurrent: a child of copy or emptyDir runs only while its call holds
\* the tree, also after a sibling has failed.
THEOREM ChildrenEndUnderTheLock == FacadeSpec => []NoStragglers
<1>1. FacadeInv => NoStragglers
  BY DEF FacadeInv, Shaped, Fits, NoStragglers
<1> QED
  BY <1>1, CallsKeepTheirShape, PTL

----------------------------------------------------------------------------
(* Who changes the records.                                                *)

\* Only a call that holds its lock changes a record, and only on its ground.
LEMMA WriterOf ==
  ASSUME FacadeInv, NEW q \in Ops, node' # node,
         (\E c \in Calls : Start(q, c)) \/ CallStep(q) \/ KidStep(q)
  PROVE  /\ stage[q] = "held" /\ call[q] \in Calls /\ target[q] = LockOf(call[q])
         /\ \A f \in Nodes \ Zone(call[q]) : node'[f] = node[f]
<1>1. MainAwait(q) \/ \E k \in kids[q] : KidAwait(q, k)
  <2>1. ~(\E c \in Calls : Start(q, c))
    BY DEF Start
  <2>2. CallStep(q) => MainAwait(q)
    BY DEF CallStep, AskLock, ResumeLocking, Unlock, Lookup, Throw, EntryDir, BreakWalk, Spawn
  <2>3. \A k \in kids[q] : ~KidThrow(q, k)
    BY DEF KidThrow
  <2> QED
    BY <2>1, <2>2, <2>3 DEF KidStep
<1>2. CASE MainAwait(q)
  <2> DEFINE i == Head(todo[q])
  <2>1. todo[q] # <<>> /\ Await(i)
    BY <1>2 DEF MainAwait
  <2>2. i.do \in Deeds
    BY <2>1 DEF Await, Read, SetRecord, Delete, Deeds, Makes
  <2>3. stage[q] = "held" /\ call[q] \in Calls /\ i \in Doing(call[q]) /\ target[q] = LockOf(call[q])
    BY <2>1, <2>2, WorkIsHeld
  <2> QED
    BY <2>1, <2>3, AwaitKeeps, CallFits
<1>3. ASSUME NEW k \in kids[q], KidAwait(q, k)
      PROVE  /\ stage[q] = "held" /\ call[q] \in Calls /\ target[q] = LockOf(call[q])
             /\ \A f \in Nodes \ Zone(call[q]) : node'[f] = node[f]
  <2>1. Await(Head(k))
    BY <1>3 DEF KidAwait
  <2> QED
    BY <2>1, KidsWork, AwaitKeeps, CallFits
<1> QED
  BY <1>1, <1>2, <1>3

\* The source of a copy and the ground it works on have no path in common.
LEMMA SourceIsApart ==
  ASSUME NEW c \in Calls, c.op = "copy", NEW f \in Below(c.path), f \in Names
  PROVE  f \notin Zone(c)
<1>1. /\ c.path \in Names /\ c.to \in Names
      /\ ~IsPrefix(c.path, c.to) /\ ~IsPrefix(c.to, c.path)
  BY CallPaths
<1>2. IsPrefix(c.path, f)
  BY DEF Below
<1>3. ~IsPrefix(f, c.to)
  BY <1>1, <1>2, PrefixOrder
<1>4. ~IsPrefix(c.to, f)
  BY <1>1, <1>2, PrefixOrder
<1> QED
  BY <1>3, <1>4 DEF Zone

\* copy: from the moment it holds the tree until it gives it back, no step of
\* any call, its own included, changes what it copies.
THEOREM CopiesReadAStableSource == FacadeSpec => CopySourceIsStable
<1>1. ASSUME FacadeInv, [FacadeNext]_facadeVars, NEW p \in Ops,
             stage[p] = "held", call[p].op = "copy", NEW f \in Below(call[p].path)
      PROVE  node'[f] = node[f]
  <2>1. call[p] \in Calls /\ target[p] = LockOf(call[p])
    BY <1>1, CallFits DEF Fits
  <2>2. target[p] = Tree
    BY <1>1, <2>1, CallPaths DEF TreeCalls
  <2>3. f \in Nodes /\ f \in Names
    <3>1. Paths \subseteq Names /\ <<>> \in Names
      BY FacadeAssumption DEF Names
    <3> QED
      BY <3>1 DEF Below, Nodes
  <2>4. f \notin Zone(call[p])
    BY <1>1, <2>1, <2>3, SourceIsApart
  <2>5. CASE node' # node
    <3>1. PICK q \in Ops : /\ stage[q] = "held"
                           /\ \A g \in Nodes \ Zone(call[q]) : node'[g] = node[g]
      <4>1. FacadeNext
        BY <1>1, <2>5 DEF facadeVars
      <4>2. PICK q \in Ops : (\E c \in Calls : Start(q, c)) \/ CallStep(q) \/ KidStep(q)
        BY <4>1 DEF FacadeNext
      <4> QED
        BY <1>1, <2>5, <4>2, WriterOf
    <3>2. q = p
      BY <1>1, <2>2, <3>1, HoldersExclude DEF FacadeInv, OperationsExclude
    <3> QED
      BY <2>3, <2>4, <3>1, <3>2
  <2> QED
    BY <2>5
<1>2. FacadeInv /\ [FacadeNext]_facadeVars =>
        [\A p \in Ops :
           stage[p] = "held" /\ stage'[p] = "held" /\ call[p].op = "copy"
           => \A f \in Below(call[p].path) : node'[f] = node[f]]_facadeVars
  BY <1>1
<1> QED
  BY <1>2, CallsKeepTheirShape, PTL DEF FacadeSpec, CopySourceIsStable

----------------------------------------------------------------------------
(* What writeFile has written when it releases its lock.  A file call that  *)
(* makes parents may create a directory at the path of another one, as the  *)
(* run MCFacadeParents shows, so the theorem is about the others.           *)

NoParents == \A c \in Calls : c.op \in FileCalls => ~c.flag

\* Only the release is left.
Releasing(f) == <<I("unlock", f)>>

\* What writeFile(f) of p has left under its lock before its record is set.
Writing(f, p) ==
  LET w == [I("write", f) EXCEPT !.data = p]
      u == I("unlock", f) IN
  {<<I("parentDir", f), I("notDir", f), w, u>>, <<I("notDir", f), w, u>>, <<w, u>>,
   <<[w EXCEPT !.do = "setFile"], u>>}

\* A call c of p with the awaits t left, in stage s, failed if e, where the
\* record of its path is v.
WriteFits(p, c, t, s, e, v) ==
  t # <<>> /\ c.op = "writeFile" =>
    \/ s # "held" /\ t = WriteProgram(c, p)
    \/ s = "held" /\ t \in Writing(c.path, p)
    \/ s = "held" /\ t = Releasing(c.path) /\ (e \/ v = p)

WriteForm(p) ==
  WriteFits(p, call[p], todo[p], stage[p], failed[p], node[call[p].path])

\* The program of a write that makes no parents.
LEMMA WriteStarts ==
  ASSUME NEW c, ~c.flag, NEW p
  PROVE  /\ WriteProgram(c, p) # <<>>
         /\ Head(WriteProgram(c, p)).do = "lock"
         /\ <<>> \o Tail(WriteProgram(c, p)) \in Writing(c.path, p)
<1> DEFINE f == c.path
           a == I("parentDir", f)
           b == I("notDir", f)
           w == [I("write", f) EXCEPT !.data = p]
           u == I("unlock", f)
           l == I("lock", f)
<1>1. WriteProgram(c, p) = (<<l>> \o <<>>) \o <<a, b, w, u>>
  BY DEF WriteProgram, If
<1>2. <<a, b, w, u>> \in Writing(f, p)
  BY DEF Writing
<1>3. l.do = "lock"
  BY DEF I
<1> HIDE DEF a, b, w, u, l
<1>4. (<<l>> \o <<>>) \o <<a, b, w, u>> = <<l, a, b, w, u>>
  <2> DEFINE S == {l, a, b, w, u}
             x == <<l>>
             y == <<a, b, w, u>>
             z == <<l, a, b, w, u>>
  <2>1. /\ x \in Seq(S) /\ Len(x) = 1 /\ x[1] = l
        /\ y \in Seq(S) /\ Len(y) = 4 /\ y[1] = a /\ y[2] = b /\ y[3] = w /\ y[4] = u
        /\ z \in Seq(S) /\ Len(z) = 5 /\ z[1] = l /\ z[2] = a /\ z[3] = b /\ z[4] = w /\ z[5] = u
    OBVIOUS
  <2> HIDE DEF S, x, y, z
  <2>2. x \o <<>> = x
    BY <2>1, ConcatEmptySeq
  <2>3. /\ x \o y \in Seq(S) /\ Len(x \o y) = 5
        /\ \A k \in 1 .. 5 : (x \o y)[k] = IF k <= 1 THEN x[k] ELSE y[k - 1]
    <3>1. /\ x \o y \in Seq(S) /\ Len(x \o y) = Len(x) + Len(y)
          /\ \A k \in 1 .. Len(x) + Len(y) :
               (x \o y)[k] = IF k <= Len(x) THEN x[k] ELSE y[k - Len(x)]
      BY <2>1, ConcatProperties
    <3> QED
      BY <2>1, <3>1
  <2>4. \A k \in 1 .. 5 : z[k] = (x \o y)[k]
    BY <2>1, <2>3
  <2>5. z = x \o y
    BY <2>1, <2>3, <2>4, SeqEqual
  <2> QED
    BY <2>2, <2>5 DEF x, y, z
<1>5. Head(<<l, a, b, w, u>>) = l /\ Tail(<<l, a, b, w, u>>) = <<a, b, w, u>>
  OBVIOUS
<1>6. <<>> \o <<a, b, w, u>> = <<a, b, w, u>>
  <2> DEFINE S == {a, b, w, u}
             y == <<a, b, w, u>>
  <2>1. y \in Seq(S)
    OBVIOUS
  <2> HIDE DEF S, y
  <2>2. <<>> \o y = y
    BY <2>1, ConcatEmptySeq
  <2> QED
    BY <2>2 DEF y
<1>7. <<l, a, b, w, u>> # <<>>
  OBVIOUS
<1> QED
  BY <1>1, <1>2, <1>3, <1>4, <1>5, <1>6, <1>7

\* An await i of a write: it leaves q of the program.
WriteAwait(i, q, f, p) ==
  /\ i.path = f /\ i.do \in {"parentDir", "notDir", "write", "setFile"}
  /\ \/ i.do # "setFile" /\ q \in Writing(f, p)
     \/ i.do = "setFile" /\ i.data = p /\ q = Releasing(f)

\* One await of a write.
LEMMA WriteSteps ==
  ASSUME NEW f, NEW p, NEW t \in Writing(f, p)
  PROVE  t # <<>> /\ WriteAwait(Head(t), After(Head(t)) \o Tail(t), f, p)
<1> DEFINE a == I("parentDir", f)
           b == I("notDir", f)
           w == [I("write", f) EXCEPT !.data = p]
           s == [w EXCEPT !.do = "setFile"]
           u == I("unlock", f)
<1>1. /\ a.do = "parentDir" /\ a.path = f
      /\ b.do = "notDir" /\ b.path = f
      /\ w.do = "write" /\ w.path = f
      /\ s.do = "setFile" /\ s.path = f /\ s.data = p
  BY DEF I
<1>2. Writing(f, p) = {<<a, b, w, u>>, <<b, w, u>>, <<w, u>>, <<s, u>>}
  BY DEF Writing
<1>3. After(a) = <<>> /\ After(b) = <<>> /\ After(s) = <<>> /\ After(w) = <<s>>
  <2>1. After(a) = <<>> /\ After(b) = <<>> /\ After(s) = <<>>
    <3> HIDE DEF a, b, s, w
    <3> QED
      BY <1>1 DEF After
  <2>2. After(w) = WriteFile(w)
    <3> HIDE DEF w
    <3> QED
      BY <1>1 DEF After
  <2> QED
    BY <2>1, <2>2 DEF WriteFile
<1> HIDE DEF a, b, w, s
<1>4. Releasing(f) = <<u>>
  BY DEF Releasing
<1> HIDE DEF u
<1>5. /\ Head(<<a, b, w, u>>) = a /\ Tail(<<a, b, w, u>>) = <<b, w, u>> /\ <<a, b, w, u>> # <<>>
      /\ Head(<<b, w, u>>) = b /\ Tail(<<b, w, u>>) = <<w, u>> /\ <<b, w, u>> # <<>>
      /\ Head(<<w, u>>) = w /\ Tail(<<w, u>>) = <<u>> /\ <<w, u>> # <<>>
      /\ Head(<<s, u>>) = s /\ Tail(<<s, u>>) = <<u>> /\ <<s, u>> # <<>>
  OBVIOUS
<1>6. <<>> \o <<b, w, u>> = <<b, w, u>> /\ <<>> \o <<w, u>> = <<w, u>> /\ <<>> \o <<u>> = <<u>>
  <2> DEFINE S == {b, w, u}
             x == <<b, w, u>>
             y == <<w, u>>
             z == <<u>>
  <2>1. x \in Seq(S) /\ y \in Seq(S) /\ z \in Seq(S)
    OBVIOUS
  <2> HIDE DEF S, x, y, z
  <2>2. <<>> \o x = x /\ <<>> \o y = y /\ <<>> \o z = z
    BY <2>1, ConcatEmptySeq
  <2> QED
    BY <2>2 DEF x, y, z
<1>7. <<s>> \o <<u>> = <<s, u>>
  <2> DEFINE S == {s, u}
  <2>1. s \in S /\ u \in S
    OBVIOUS
  <2> HIDE DEF S
  <2> QED
    BY <2>1, Rows
<1>8. CASE t = <<a, b, w, u>>
  BY <1>1, <1>2, <1>3, <1>5, <1>6, <1>8 DEF WriteAwait
<1>9. CASE t = <<b, w, u>>
  BY <1>1, <1>2, <1>3, <1>5, <1>6, <1>9 DEF WriteAwait
<1>10. CASE t = <<w, u>>
  BY <1>1, <1>2, <1>3, <1>5, <1>7, <1>10 DEF WriteAwait
<1>11. CASE t = <<s, u>>
  BY <1>1, <1>2, <1>3, <1>4, <1>5, <1>6, <1>11 DEF WriteAwait
<1> QED
  BY <1>2, <1>8, <1>9, <1>10, <1>11

\* A step of one operation leaves the others where they are.
LEMMA OthersStay ==
  ASSUME FacadeInv, NEW q \in Ops, NEW p \in Ops, p # q,
         (\E c \in Calls : Start(q, c)) \/ CallStep(q) \/ KidStep(q)
  PROVE  /\ call'[p] = call[p] /\ todo'[p] = todo[p] /\ failed'[p] = failed[p]
         /\ stage'[p] = stage[p] /\ kids'[p] = kids[p]
<1>1. /\ DOMAIN call = Ops /\ DOMAIN todo = Ops /\ DOMAIN kids = Ops /\ DOMAIN failed = Ops
      /\ DOMAIN stage = Ops
  BY CallFits
<1>2. CASE \E c \in Calls : Start(q, c)
  BY <1>1, <1>2 DEF Start, lockVars
<1>3. CASE AskLock(q)
  BY <1>1, <1>3 DEF AskLock, AskTree, Become
<1>4. CASE ResumeLocking(q)
  BY <1>1, <1>4 DEF ResumeLocking, TreeHeld, FileHeld, AskFile, Become, Proceed
<1>5. CASE Unlock(q)
  BY <1>1, <1>5 DEF Unlock, ReleaseLocks, Become, MayEnd
<1>6. CASE Lookup(q)
  BY <1>1, <1>6 DEF Lookup, MayEnd, lockVars
<1>7. CASE MainAwait(q)
  BY <1>1, <1>7 DEF MainAwait, Proceed, lockVars
<1>8. CASE Throw(q)
  BY <1>1, <1>8 DEF Throw, Unwind, lockVars
<1>9. CASE EntryDir(q) \/ BreakWalk(q)
  BY <1>1, <1>9 DEF EntryDir, BreakWalk, Unwind, Proceed, lockVars
<1>10. CASE Spawn(q)
  BY <1>1, <1>10 DEF Spawn, Proceed, lockVars
<1>11. CASE KidStep(q)
  BY <1>1, <1>11 DEF KidStep, KidAwait, KidThrow, Unwind, lockVars
<1> QED
  BY <1>2, <1>3, <1>4, <1>5, <1>6, <1>7, <1>8, <1>9, <1>10, <1>11 DEF CallStep

\* A step of an operation goes on with its call or ends it.
LEMMA SameCall ==
  ASSUME FacadeInv, NEW p \in Ops, CallStep(p) \/ KidStep(p)
  PROVE  todo[p] # <<>> /\ (todo'[p] # <<>> => call'[p] = call[p])
<1>1. /\ DOMAIN call = Ops /\ DOMAIN todo = Ops /\ DOMAIN kids = Ops /\ DOMAIN failed = Ops
  BY CallFits
<1>2. CASE AskLock(p) \/ ResumeLocking(p) \/ MainAwait(p) \/ EntryDir(p) \/ BreakWalk(p) \/ Spawn(p)
  BY <1>1, <1>2 DEF AskLock, ResumeLocking, MainAwait, EntryDir, BreakWalk, Spawn, At
<1>3. CASE Unlock(p) \/ Lookup(p)
  BY <1>1, <1>3 DEF Unlock, Lookup, At, MayEnd
<1>4. CASE Throw(p)
  BY <1>1, <1>4 DEF Throw, Unwind, If
<1>5. CASE KidStep(p)
  <2>1. PICK k \in kids[p] : KidAwait(p, k) \/ KidThrow(p, k)
    BY <1>5 DEF KidStep
  <2>2. todo[p] # <<>>
    BY KidsWork, CallFits
  <2> QED
    BY <2>1, <2>2 DEF KidAwait, KidThrow
<1> QED
  BY <1>2, <1>3, <1>4, <1>5 DEF CallStep

\* Where a write stands, and that it has no children.
LEMMA WriteStands ==
  ASSUME NoParents, FacadeInv, NEW p \in Ops, WriteForm(p), todo[p] # <<>>, call[p].op = "writeFile"
  PROVE  /\ call[p] \in Calls /\ ~call[p].flag /\ call[p].path \in Nodes /\ call[p].path # Tree
         /\ kids[p] = {} /\ (stage[p] # "idle" => target[p] = call[p].path)
         /\ \/ /\ stage[p] # "held" /\ todo[p] = WriteProgram(call[p], p)
               /\ Head(todo[p]).do = "lock"
            \/ /\ stage[p] = "held" /\ todo[p] \in Writing(call[p].path, p)
            \/ /\ stage[p] = "held" /\ todo[p] = Releasing(call[p].path)
               /\ Head(todo[p]).do = "unlock" /\ Tail(todo[p]) = <<>>
               /\ failed[p] \/ node[call[p].path] = p
<1>1. Fits(call[p], todo[p], kids[p], stage[p], target[p])
  BY CallFits
<1>2. call[p] \in Calls /\ call[p].op \in FileCalls
  BY <1>1 DEF Fits, FileCalls
<1>3. /\ ~call[p].flag /\ call[p].path \in Nodes /\ call[p].path # Tree
      /\ LockOf(call[p]) = call[p].path
  BY <1>2, CallPaths DEF NoParents, Nodes
<1>4. stage[p] # "idle" => target[p] = call[p].path
  BY <1>1, <1>3 DEF Fits
<1>5. kids[p] = {}
  BY <1>1, <1>3, <1>4 DEF Fits
<1>6. Head(WriteProgram(call[p], p)).do = "lock"
  BY <1>3, WriteStarts
<1>7. ASSUME NEW u, u = I("unlock", call[p].path)
      PROVE  Head(<<u>>).do = "unlock" /\ Tail(<<u>>) = <<>>
  <2>1. u.do = "unlock"
    BY <1>7 DEF I
  <2> QED
    BY <2>1
<1>8. /\ Head(Releasing(call[p].path)).do = "unlock"
      /\ Tail(Releasing(call[p].path)) = <<>>
  BY <1>7 DEF Releasing
<1>9. \/ stage[p] # "held" /\ todo[p] = WriteProgram(call[p], p)
      \/ stage[p] = "held" /\ todo[p] \in Writing(call[p].path, p)
      \/ /\ stage[p] = "held" /\ todo[p] = Releasing(call[p].path)
         /\ failed[p] \/ node[call[p].path] = p
  BY DEF WriteForm, WriteFits
<1> QED
  BY <1>2, <1>3, <1>4, <1>5, <1>6, <1>8, <1>9

\* A write goes on as it should.
LEMMA WriteGoesOn ==
  ASSUME NoParents, FacadeInv, NEW p \in Ops, WriteForm(p), CallStep(p) \/ KidStep(p)
  PROVE  WriteForm(p)'
<1> DEFINE c == call[p]
           f == c.path
           t == todo[p]
           s == stage[p]
<1>1. t # <<>> /\ (todo'[p] # <<>> => call'[p] = c)
  BY SameCall
<1> SUFFICES ASSUME todo'[p] # <<>>, c.op = "writeFile"
             PROVE  \/ stage'[p] # "held" /\ todo'[p] = WriteProgram(c, p)
                    \/ stage'[p] = "held" /\ todo'[p] \in Writing(f, p)
                    \/ stage'[p] = "held" /\ todo'[p] = Releasing(f) /\ (failed'[p] \/ node'[f] = p)
  <2>1. WriteFits(p, call'[p], todo'[p], stage'[p], failed'[p], node'[call'[p].path])
    BY <1>1 DEF WriteFits
  <2> QED
    BY <2>1 DEF WriteForm
<1>2. /\ c \in Calls /\ ~c.flag /\ f \in Nodes /\ f # Tree
      /\ kids[p] = {} /\ (s # "idle" => target[p] = f)
      /\ \/ s # "held" /\ t = WriteProgram(c, p) /\ Head(t).do = "lock"
         \/ s = "held" /\ t \in Writing(f, p)
         \/ /\ s = "held" /\ t = Releasing(f) /\ Head(t).do = "unlock" /\ Tail(t) = <<>>
            /\ failed[p] \/ node[f] = p
  BY <1>1, WriteStands
<1>4. /\ DOMAIN call = Ops /\ DOMAIN todo = Ops /\ DOMAIN failed = Ops /\ DOMAIN stage = Ops
      /\ DOMAIN node = Nodes
  BY CallFits
<1> HIDE DEF c, f, t, s
<1>3. ASSUME t \in Writing(f, p)
      PROVE  WriteAwait(Head(t), After(Head(t)) \o Tail(t), f, p)
  BY <1>3, WriteSteps
<1>5. CASE AskLock(p)
  <2>1. Head(t).do = "lock" /\ stage'[p] = "tree" /\ todo' = todo
    BY <1>4, <1>5 DEF AskLock, At, AskTree, Become, t
  <2> QED
    BY <1>2, <1>3, <2>1 DEF WriteAwait, t
<1>6. CASE ResumeLocking(p)
  <2>1. Head(t).do = "lock" /\ s \in {"tree", "file"}
    BY <1>6 DEF ResumeLocking, At, TreeHeld, FileHeld, AskFile, t, s
  <2>2. t = WriteProgram(c, p) /\ target[p] = f
    BY <1>2, <1>3, <2>1 DEF WriteAwait
  <2>3. CASE FileHeld(p) /\ Proceed(p, <<>>)
    <3>1. stage'[p] = "held" /\ todo'[p] = <<>> \o Tail(t)
      BY <1>4, <2>3 DEF FileHeld, Become, Proceed, t
    <3> QED
      BY <1>2, <2>2, <3>1, WriteStarts DEF f
  <2>4. CASE AskFile(p) /\ UNCHANGED todo
    <3>1. stage'[p] # "held" /\ todo'[p] = t
      BY <1>4, <2>4 DEF AskFile, Become, t
    <3> QED
      BY <2>2, <3>1
  <2>5. ~TreeHeld(p)
    BY <1>2, <2>2 DEF TreeHeld
  <2> QED
    BY <1>6, <2>3, <2>4, <2>5 DEF ResumeLocking
<1>7. CASE Unlock(p)
  <2>1. Head(t).do = "unlock" /\ todo'[p] \in {<<>>, Tail(t)}
    BY <1>4, <1>7 DEF Unlock, At, t
  <2>2. Tail(t) = <<>>
    BY <1>2, <1>3, <2>1 DEF WriteAwait
  <2> QED
    BY <2>1, <2>2
<1>8. CASE Lookup(p)
  <2>1. Head(t).do = "lookup"
    BY <1>8 DEF Lookup, At, t
  <2> QED
    BY <1>2, <1>3, <2>1 DEF WriteAwait
<1>9. CASE MainAwait(p)
  <2> DEFINE i == Head(t)
             n == After(i)
  <2>1. /\ Await(i) /\ todo'[p] = n \o Tail(t) /\ stage'[p] = s
    BY <1>4, <1>9 DEF MainAwait, Proceed, lockVars, t, s
  <2>2. i.do \notin {"lock", "unlock"}
    BY <2>1 DEF Await, Read, Reads, SetRecord, Delete
  <2>3. s = "held" /\ t \in Writing(f, p)
    BY <1>2, <2>2
  <2>4. /\ i.path = f /\ i.do \in {"parentDir", "notDir", "write", "setFile"}
        /\ i.do # "setFile" => n \o Tail(t) \in Writing(f, p)
        /\ i.do = "setFile" => i.data = p /\ n \o Tail(t) = Releasing(f)
    BY <1>3, <2>3 DEF WriteAwait
  <2> HIDE DEF i, n
  <2>5. i.do = "setFile" => node'[f] = p
    BY <1>2, <1>4, <2>1, <2>4 DEF Await, Read, Reads, SetRecord, Delete
  <2> QED
    BY <2>1, <2>3, <2>4, <2>5
<1>10. CASE Throw(p)
  <2>1. /\ Head(t).do \notin {"lock", "unlock"} /\ stage'[p] = s
        /\ todo'[p] = If(s = "held", <<I("unlock", target[p])>>)
        /\ failed'[p] = (s = "held")
    BY <1>1, <1>4, <1>10 DEF Throw, At, Unwind, lockVars, t, s
  <2>2. s = "held" /\ target[p] = f
    BY <1>2, <2>1
  <2> QED
    BY <2>1, <2>2 DEF If, Releasing
<1>11. CASE EntryDir(p) \/ BreakWalk(p) \/ Spawn(p)
  <2>1. Head(t).do \in {"entryDir", "spawnCopy", "spawnRemove"}
    BY <1>11 DEF EntryDir, BreakWalk, Spawn, At, t
  <2> QED
    BY <1>2, <1>3, <2>1 DEF WriteAwait
<1>12. ~KidStep(p)
  BY <1>2 DEF KidStep
<1> QED
  BY <1>5, <1>6, <1>7, <1>8, <1>9, <1>10, <1>11, <1>12 DEF CallStep

\* The record of a write that is in place stays, whatever another call does.
LEMMA WriteIsAlone ==
  ASSUME NoParents, FacadeInv, NEW p \in Ops, NEW q \in Ops, q # p,
         (\E c \in Calls : Start(q, c)) \/ CallStep(q) \/ KidStep(q),
         stage[p] = "held", target[p] # Tree, target[p] \in Nodes
  PROVE  node'[target[p]] = node[target[p]]
<1>1. CASE node' = node
  BY <1>1
<1>2. CASE node' # node
  <2>1. /\ stage[q] = "held" /\ call[q] \in Calls /\ target[q] = LockOf(call[q])
        /\ \A f \in Nodes \ Zone(call[q]) : node'[f] = node[f]
    BY <1>2, WriterOf
  <2>2. target[q] # target[p] /\ target[q] # Tree
    BY <2>1, HoldersExclude DEF FacadeInv, OperationsExclude
  <2>3. call[q].op \in FileCalls /\ ~call[q].flag /\ target[q] = call[q].path /\ call[q].op # "copy"
    <3>1. call[q].op \in FileCalls
      BY <2>1, <2>2 DEF LockOf
    <3> QED
      BY <2>1, <3>1 DEF NoParents, LockOf, FileCalls
  <2>4. Zone(call[q]) = {target[q]}
    BY <2>3 DEF Zone
  <2> QED
    BY <2>1, <2>2, <2>4
<1> QED
  BY <1>1, <1>2

\* Every step keeps every write on its way.
LEMMA WritesKeep ==
  ASSUME NoParents, FacadeInv, \A p \in Ops : WriteForm(p), [FacadeNext]_facadeVars
  PROVE  \A p \in Ops : WriteForm(p)'
<1> SUFFICES ASSUME NEW p \in Ops
             PROVE  WriteForm(p)'
  OBVIOUS
<1>1. CASE UNCHANGED facadeVars
  <2>1. /\ node' = node /\ call' = call /\ todo' = todo /\ failed' = failed /\ stage' = stage
    BY <1>1 DEF facadeVars, lockVars
  <2>2. WriteFits(p, call[p], todo[p], stage[p], failed[p], node[call[p].path])
    BY DEF WriteForm
  <2> QED
    BY <2>1, <2>2 DEF WriteForm
<1>2. CASE CallStep(p) \/ KidStep(p)
  BY <1>2, WriteGoesOn
<1>3. ASSUME NEW c \in Calls, Start(p, c)
      PROVE  WriteForm(p)'
  <2>1. /\ todo[p] = <<>> /\ call'[p] = c /\ todo'[p] = Program(c, p) /\ stage'[p] = stage[p]
    BY <1>3, CallFits DEF Start, lockVars
  <2>2. stage'[p] # "held"
    BY <2>1, CallFits
  <2>3. c.op = "writeFile" => Program(c, p) = WriteProgram(c, p)
    BY DEF Program
  <2>4. WriteFits(p, call'[p], todo'[p], stage'[p], failed'[p], node'[call'[p].path])
    BY <2>1, <2>2, <2>3 DEF WriteFits
  <2> QED
    BY <2>4 DEF WriteForm
<1>4. ASSUME NEW q \in Ops, q # p,
             (\E c \in Calls : Start(q, c)) \/ CallStep(q) \/ KidStep(q)
      PROVE  WriteForm(p)'
  <2>1. /\ call'[p] = call[p] /\ todo'[p] = todo[p] /\ failed'[p] = failed[p]
        /\ stage'[p] = stage[p]
    BY <1>4, OthersStay
  <2>2. WriteFits(p, call[p], todo[p], stage[p], failed[p], node[call[p].path])
    BY DEF WriteForm
  <2>3. ASSUME todo[p] # <<>>, call[p].op = "writeFile", stage[p] = "held"
        PROVE  node'[call[p].path] = node[call[p].path]
    <3>1. /\ call[p].path \in Nodes /\ call[p].path # Tree
          /\ stage[p] # "idle" => target[p] = call[p].path
      BY <2>3, WriteStands
    <3> QED
      BY <1>4, <2>3, <3>1, WriteIsAlone
  <2>4. WriteFits(p, call[p], todo[p], stage[p], failed[p], node'[call[p].path])
    BY <2>2, <2>3 DEF WriteFits
  <2> QED
    BY <2>1, <2>4 DEF WriteForm
<1> QED
  BY <1>1, <1>2, <1>3, <1>4 DEF FacadeNext

\* writeFile: a write that is about to return has its content in place, whatever
\* other writes, copies and removals ran between its checks and its set, if no
\* file call makes parents.
THEOREM WritesTakeEffect == ASSUME NoParents PROVE FacadeSpec => []WriteTakesEffect
<1>1. FacadeInit => \A p \in Ops : WriteForm(p)
  BY DEF FacadeInit, WriteForm, WriteFits
<1>2. FacadeInv /\ (\A p \in Ops : WriteForm(p)) /\ [FacadeNext]_facadeVars
        => (\A p \in Ops : WriteForm(p))'
  BY WritesKeep
<1>3. FacadeInv /\ (\A p \in Ops : WriteForm(p)) => WriteTakesEffect
  <2> SUFFICES ASSUME FacadeInv, NEW p \in Ops, WriteForm(p), Succeeding(p, {"writeFile"})
               PROVE  node[call[p].path] = p
    BY DEF WriteTakesEffect
  <2>1. /\ todo[p] # <<>> /\ Head(todo[p]).do = "unlock" /\ ~failed[p] /\ call[p].op = "writeFile"
    BY DEF Succeeding, At
  <2>2. \/ Head(todo[p]).do = "lock"
        \/ todo[p] \in Writing(call[p].path, p)
        \/ failed[p] \/ node[call[p].path] = p
    BY <2>1, WriteStands
  <2>3. ASSUME todo[p] \in Writing(call[p].path, p)
        PROVE  FALSE
    <3> DEFINE t == todo[p]
               f == call[p].path
    <3> HIDE DEF t, f
    <3>1. t \in Writing(f, p)
      BY <2>3 DEF t, f
    <3>2. WriteAwait(Head(t), After(Head(t)) \o Tail(t), f, p)
      BY <3>1, WriteSteps
    <3> QED
      BY <2>1, <3>2 DEF WriteAwait, t
  <2> QED
    BY <2>1, <2>2, <2>3
<1> QED
  BY <1>1, <1>2, <1>3, CallsKeepTheirShape, PTL DEF FacadeSpec

----------------------------------------------------------------------------
(* Trees of records, and what a step does to their form.                   *)

Trees == [Nodes -> Content \cup {"absent", "dir"}]

\* Nodes are names; the directory of a path is a node, one name shorter.
LEMMA NodePaths ==
  /\ Nodes \subseteq Names /\ Paths \subseteq Nodes \ {<<>>} /\ <<>> \in Nodes
  /\ Nodes = Paths \cup {<<>>} /\ <<>> \in Names /\ Len(<<>>) = 0
  /\ \A f \in Paths : /\ Len(f) \in Nat \ {0} /\ dirname(f) \in Nodes /\ IsPrefix(dirname(f), f)
                      /\ Len(f) = Len(dirname(f)) + 1
                      /\ dirname(f) = SubSeq(f, 1, Len(f) - 1)
<1>1. Paths \subseteq Names \ {<<>>} /\ <<>> \in Names /\ Len(<<>>) = 0
  BY FacadeAssumption DEF Names
<1>2. ASSUME NEW f \in Paths
      PROVE  /\ Len(f) \in Nat \ {0} /\ dirname(f) \in Nodes /\ IsPrefix(dirname(f), f)
             /\ Len(f) = Len(dirname(f)) + 1 /\ dirname(f) = SubSeq(f, 1, Len(f) - 1)
  <2>1. f \in Names \ {<<>>} /\ Len(f) \in Nat \ {0}
    BY <1>1, EmptySeq DEF Names
  <2>2. dirname(f) = SubSeq(f, 1, Len(f) - 1)
    BY DEF dirname, Front
  <2>3. Len(f) - 1 \in 0 .. Len(f) - 1 /\ Len(f) - 1 \in 0 .. Len(f)
    BY <2>1
  <2>4. dirname(f) \in Nodes
    BY <2>2, <2>3, FacadeAssumption
  <2>5. dirname(f) \in Names
    BY <1>1, <2>4 DEF Nodes
  <2> QED
    BY <2>1, <2>2, <2>4, <2>5, InDirectory
<1> QED
  BY <1>1, <1>2 DEF Nodes

\* On the way from a directory down to a path lies an entry of that directory.
LEMMA WayDown ==
  ASSUME NEW f \in Nodes, NEW g \in Nodes, IsPrefix(f, g), f # g
  PROVE  /\ g \in Paths /\ Len(f) \in 0 .. Len(g) - 1 /\ SubSeq(g, 1, Len(f)) = f
         /\ \E h \in Paths :
              /\ dirname(h) = f /\ IsPrefix(h, g)
              /\ h = g \/ (Len(h) \in 0 .. Len(g) - 1 /\ SubSeq(g, 1, Len(h)) = h)
<1>1. f \in Names /\ g \in Names /\ Len(f) \in Nat /\ Len(g) \in Nat
  BY NodePaths, LenProperties DEF Names
<1>2. Len(f) <= Len(g) /\ \A k \in 1 .. Len(f) : f[k] = g[k]
  BY <1>1, PrefixByName
<1>3. ASSUME NEW h \in Names, NEW k \in 0 .. Len(g), Len(h) = k, \A j \in 1 .. k : h[j] = g[j]
      PROVE  h = SubSeq(g, 1, k)
  <2> DEFINE s == SubSeq(g, 1, k)
  <2>1. s \in Names
    BY <1>1, Ancestors
  <2>2. Len(s) = k /\ \A j \in 1 .. k : s[j] = g[j]
    <3>1. IsPrefix(s, g) /\ Len(s) = k
      BY <1>1, Ancestors
    <3> QED
      BY <1>1, <2>1, <3>1, PrefixByName
  <2> HIDE DEF s
  <2>3. h = s
    BY <1>1, <1>3, <2>1, <2>2, SeqEqual DEF Names
  <2> QED
    BY <2>3 DEF s
<1>4. SubSeq(g, 1, Len(f)) = f
  BY <1>1, <1>2, <1>3
<1>5. Len(f) # Len(g)
  BY <1>1, <1>2, SeqEqual DEF Names
<1>6. Len(f) \in 0 .. Len(g) - 1 /\ Len(f) + 1 \in 0 .. Len(g)
  BY <1>1, <1>2, <1>5
<1>7. g \in Paths
  <2>1. g # <<>>
    BY <1>1, <1>6
  <2> QED
    BY <2>1, NodePaths
<1> DEFINE h == SubSeq(g, 1, Len(f) + 1)
<1>8. h \in Names /\ Len(h) = Len(f) + 1 /\ IsPrefix(h, g)
  BY <1>1, <1>6, Ancestors
<1>9. h \in Nodes /\ (h = g \/ Len(h) \in 0 .. Len(g) - 1)
  <2>1. CASE Len(f) + 1 = Len(g)
    <3>1. g = SubSeq(g, 1, Len(g))
      BY <1>1, <1>3
    <3> QED
      BY <2>1, <3>1
  <2>2. CASE Len(f) + 1 # Len(g)
    <3>1. Len(f) + 1 \in 0 .. Len(g) - 1
      BY <1>1, <1>6, <2>2
    <3>2. h \in Nodes
      BY <1>7, <3>1, FacadeAssumption
    <3> QED
      BY <1>8, <3>1, <3>2
  <2> QED
    BY <2>1, <2>2
<1>10. h = SubSeq(g, 1, Len(h))
  BY <1>8
<1> HIDE DEF h
<1>11. h \in Paths
  <2>1. h # <<>>
    BY <1>1, <1>8, NodePaths
  <2> QED
    BY <1>9, <2>1, NodePaths
<1>12. dirname(h) = f
  <2>1. /\ dirname(h) \in Names /\ IsPrefix(dirname(h), h) /\ Len(h) = Len(dirname(h)) + 1
        /\ Len(dirname(h)) \in Nat
    BY <1>11, NodePaths, LenProperties DEF Names
  <2>2. Len(dirname(h)) = Len(f)
    BY <1>1, <1>8, <2>1
  <2>3. IsPrefix(dirname(h), g)
    BY <1>1, <1>8, <2>1, PrefixOrder
  <2>4. \A k \in 1 .. Len(dirname(h)) : dirname(h)[k] = g[k]
    BY <1>1, <2>1, <2>3, PrefixByName
  <2> QED
    BY <1>1, <1>2, <2>1, <2>2, <2>4, SeqEqual DEF Names
<1> QED
  BY <1>4, <1>6, <1>7, <1>8, <1>9, <1>10, <1>11, <1>12

\* In a well-formed tree everything on the way to a record is a directory.
LEMMA FormBelow ==
  ASSUME NEW t \in Trees, WellFormed(t), NEW f \in Nodes, NEW g \in Nodes,
         IsPrefix(f, g), f # g, t[g] # "absent"
  PROVE  t[f] = "dir"
<1>1. g \in Paths /\ Len(f) \in 0 .. Len(g) - 1 /\ SubSeq(g, 1, Len(f)) = f
  BY WayDown
<1>2. t[SubSeq(g, 1, Len(f))] = "dir"
  BY <1>1 DEF WellFormed
<1> QED
  BY <1>1, <1>2

\* A record is set where there is no directory, or as a directory, in a directory.
LEMMA SettingKeepsForm ==
  ASSUME NEW t \in Trees, WellFormed(t), NEW f \in Paths, t[dirname(f)] = "dir", NEW v,
         v = "dir" \/ t[f] # "dir"
  PROVE  WellFormed([t EXCEPT ![f] = v])
<1> DEFINE u == [t EXCEPT ![f] = v]
<1>1. /\ f \in Nodes /\ f # <<>> /\ dirname(f) \in Nodes
      /\ DOMAIN t = Nodes
  BY NodePaths DEF Trees
<1>2. u[f] = v /\ \A g \in Nodes : g # f => u[g] = t[g]
  BY <1>1
<1> HIDE DEF u
<1>3. ASSUME NEW g \in Paths, u[g] # "absent", NEW k \in 0 .. Len(g) - 1
      PROVE  u[SubSeq(g, 1, k)] = "dir"
  <2> DEFINE h == SubSeq(g, 1, k)
  <2>1. h \in Nodes /\ g \in Nodes /\ Len(g) \in Nat \ {0}
    BY FacadeAssumption, NodePaths
  <2>2. IsPrefix(h, g) /\ Len(h) = k
    BY <2>1, Ancestors, NodePaths
  <2>3. h # g
    BY <2>1, <2>2
  <2> HIDE DEF h
  <2>4. CASE g = f
    <3>1. t[h] = "dir"
      <4>1. CASE h = dirname(f)
        BY <4>1
      <4>2. CASE h # dirname(f)
        <5>1. IsPrefix(h, dirname(f))
          <6>1. /\ h \in Names /\ dirname(f) \in Names /\ f \in Names /\ IsPrefix(dirname(f), f)
                /\ Len(dirname(f)) = Len(f) - 1
            BY <1>1, <2>1, NodePaths
          <6>2. Len(h) <= Len(dirname(f))
            BY <2>1, <2>2, <2>4, <6>1
          <6>3. /\ \A j \in 1 .. Len(h) : h[j] = f[j]
                /\ \A j \in 1 .. Len(dirname(f)) : dirname(f)[j] = f[j]
            BY <2>2, <2>4, <6>1, PrefixByName
          <6>4. \A j \in 1 .. Len(h) : j \in 1 .. Len(dirname(f))
            BY <6>1, <6>2, <2>1, <2>2, <2>4
          <6> QED
            BY <6>1, <6>2, <6>3, <6>4, PrefixByName
        <5> QED
          BY <1>1, <2>1, <4>2, <5>1, FormBelow
      <4> QED
        BY <4>1, <4>2
    <3> QED
      BY <1>2, <2>1, <2>3, <2>4, <3>1 DEF h
  <2>5. CASE g # f
    <3>1. t[g] # "absent" /\ t[h] = "dir"
      BY <1>2, <1>3, <2>1, <2>2, <2>3, <2>5, FormBelow
    <3> QED
      BY <1>2, <2>1, <2>5, <3>1 DEF h
  <2> QED
    BY <2>4, <2>5
<1>4. u[<<>>] = "dir"
  BY <1>1, <1>2, NodePaths DEF WellFormed
<1> QED
  BY <1>3, <1>4 DEF WellFormed, u

\* An entry is deleted when nothing is left in it.
LEMMA DeletingKeepsForm ==
  ASSUME NEW t \in Trees, WellFormed(t), NEW f \in Paths,
         \A g \in Paths : dirname(g) = f => t[g] = "absent"
  PROVE  WellFormed([t EXCEPT ![f] = "absent"])
<1> DEFINE u == [t EXCEPT ![f] = "absent"]
<1>1. f \in Nodes /\ f # <<>> /\ DOMAIN t = Nodes
  BY NodePaths DEF Trees
<1>2. u[f] = "absent" /\ \A g \in Nodes : g # f => u[g] = t[g]
  BY <1>1
<1> HIDE DEF u
<1>3. ASSUME NEW g \in Paths, u[g] # "absent", NEW k \in 0 .. Len(g) - 1
      PROVE  u[SubSeq(g, 1, k)] = "dir"
  <2> DEFINE h == SubSeq(g, 1, k)
  <2>1. h \in Nodes /\ g \in Nodes /\ Len(g) \in Nat \ {0}
    BY FacadeAssumption, NodePaths
  <2>2. IsPrefix(h, g) /\ Len(h) = k
    BY <2>1, Ancestors, NodePaths
  <2>3. h # g /\ g # f /\ t[g] # "absent"
    BY <1>2, <1>3, <2>1, <2>2
  <2> HIDE DEF h
  <2>4. t[h] = "dir"
    BY <2>1, <2>2, <2>3, FormBelow
  <2>5. h # f
    <3> SUFFICES ASSUME h = f
                 PROVE  FALSE
      OBVIOUS
    <3>1. PICK e \in Paths :
            /\ dirname(e) = f /\ IsPrefix(e, g)
            /\ e = g \/ (Len(e) \in 0 .. Len(g) - 1 /\ SubSeq(g, 1, Len(e)) = e)
      BY <2>1, <2>2, <2>3, WayDown
    <3>2. t[e] = "absent"
      BY <3>1
    <3>3. e = g \/ t[e] = "dir"
      BY <2>1, <2>3, <3>1, FormBelow, NodePaths
    <3> QED
      BY <2>3, <3>2, <3>3
  <2> QED
    BY <1>2, <2>1, <2>4, <2>5 DEF h
<1>4. u[<<>>] = "dir"
  BY <1>1, <1>2, NodePaths DEF WellFormed
<1> QED
  BY <1>3, <1>4 DEF WellFormed, u

----------------------------------------------------------------------------
(* Programs that sweep: what removes an entry, and in which order.         *)

Removes == {"destination", "remove", "list", "delete"}

Sweeps == Removes \cup {"spawnRemove", "empty"}

\* The program q has yet to remove f, or does so before its await j.
Before(q, j, f) == \E m \in 1 .. j - 1 : q[m].do \in Removes /\ q[m].path = f

Due(q, f) == \E m \in 1 .. Len(q) : q[m].do \in Removes /\ q[m].path = f

\* q clears only, never the root, and deletes an entry of the tree t when what
\* is in it has been removed.
Sweeping(t, q) ==
  \A j \in 1 .. Len(q) :
    /\ q[j].do \in Sweeps /\ q[j].path \in Nodes
    /\ q[j].do # "empty" => q[j].path # <<>>
    /\ q[j].do = "delete" =>
         \A g \in Paths : dirname(g) = q[j].path /\ t[g] # "absent" => Before(q, j, g)

\* What the await i of such a program leaves to do, w, in the tree t.
Leaves(t, i, w) ==
  /\ \A j \in 1 .. Len(w) :
       /\ w[j].path \in Nodes \ {<<>>}
       /\ w[j].path = i.path \/ dirname(w[j].path) = i.path
       /\ \/ i.do \in Removes /\ w[j].do \in Removes
          \/ i.do = "empty" /\ w[j].do = "spawnRemove"
       /\ w[j].do = "delete" =>
            \A g \in Paths : dirname(g) = w[j].path /\ t[g] # "absent" => Before(w, j, g)
  /\ i.do \in Removes => t[i.path] = "absent" \/ Due(w, i.path)
  /\ i.do = "empty" => \A g \in Paths : dirname(g) = i.path /\ t[g] # "absent" =>
       \E j \in 1 .. Len(w) : w[j].do = "spawnRemove" /\ w[j].path = g

\* Every entry of a directory is listed.
LEMMA ListedAll ==
  ASSUME NEW f, NEW q, q = SetToSeq(Children(f))
  PROVE  /\ q \in Seq(Children(f)) /\ Len(q) \in Nat
         /\ \A k \in 1 .. Len(q) : q[k] \in Children(f)
         /\ \A g \in Children(f) : \E k \in 1 .. Len(q) : q[k] = g
<1> DEFINE S == Children(f)
           n == Cardinality(S)
<1>1. IsFiniteSet(S)
  <2>1. IsFiniteSet(Paths) /\ S \in SUBSET Paths
    BY FacadeAssumption DEF Children
  <2> QED
    BY <2>1, FS_Subset
<1> HIDE DEF S
<1>2. n \in Nat /\ ExistsBijection(1 .. n, S)
  BY <1>1, FS_CardinalityType
<1>3. PICK e : e \in Bijection(1 .. n, S)
  BY <1>2 DEF ExistsBijection
<1>4. e \in [1 .. n -> S] /\ IsInjective(e)
  BY <1>3 DEF Bijection, Injection, IsInjective
<1>5. q \in [1 .. n -> S] /\ IsInjective(q)
  BY <1>4 DEF SetToSeq, S
<1>6. IsFiniteSet(1 .. n) /\ Cardinality(1 .. n) = n
  BY <1>2, FS_Interval
<1>7. q \in Injection(1 .. n, S)
  BY <1>5 DEF Injection, IsInjective
<1>8. q \in Surjection(1 .. n, S)
  BY <1>1, <1>6, <1>7, FS_Injection
<1>9. \A g \in S : \E k \in 1 .. n : q[k] = g
  BY <1>8 DEF Surjection
<1>10. q \in Seq(S) /\ Len(q) = n
  BY <1>2, <1>5
<1> QED
  BY <1>2, <1>5, <1>9, <1>10 DEF S

\* A program whose first await is replaced by what it leaves to do.
LEMMA Spliced ==
  ASSUME NEW S, NEW q \in Seq(S), q # <<>>, NEW w \in Seq(S), NEW r, r = w \o Tail(q)
  PROVE  /\ r \in Seq(S) /\ Len(w) \in Nat /\ Len(q) \in Nat \ {0}
         /\ Len(r) = Len(w) + (Len(q) - 1) /\ Head(q) = q[1]
         /\ \A j \in 1 .. Len(w) : j \in 1 .. Len(r) /\ r[j] = w[j]
         /\ \A j \in 2 .. Len(q) : Len(w) + (j - 1) \in 1 .. Len(r) /\ r[Len(w) + (j - 1)] = q[j]
         /\ \A j \in 1 .. Len(r) : j > Len(w) => j - Len(w) + 1 \in 2 .. Len(q)
                                                /\ r[j] = q[j - Len(w) + 1]
<1> DEFINE v == Tail(q)
           m == Len(w)
           n == Len(q)
<1>1. n \in Nat \ {0} /\ m \in Nat
  BY EmptySeq, LenProperties
<1>2. v \in Seq(S) /\ Len(v) = n - 1 /\ \A j \in 1 .. n - 1 : v[j] = q[j + 1]
  BY HeadTailProperties
<1> HIDE DEF v
<1>3. /\ r \in Seq(S) /\ Len(r) = m + (n - 1)
      /\ \A j \in 1 .. m + (n - 1) : r[j] = IF j <= m THEN w[j] ELSE v[j - m]
  <2>1. w \o v \in Seq(S) /\ Len(w \o v) = Len(w) + Len(v)
        /\ \A j \in 1 .. Len(w) + Len(v) : (w \o v)[j] = IF j <= Len(w) THEN w[j] ELSE v[j - Len(w)]
    BY <1>2, ConcatProperties
  <2> QED
    BY <1>2, <2>1 DEF v
<1>4. Head(q) = q[1]
  OBVIOUS
<1> HIDE DEF m, n
<1>5. \A j \in 1 .. m : j \in 1 .. m + (n - 1) /\ r[j] = w[j]
  BY <1>1, <1>3
<1>6. \A j \in 2 .. n : m + (j - 1) \in 1 .. m + (n - 1) /\ r[m + (j - 1)] = q[j]
  <2> TAKE j \in 2 .. n
  <2>1. m + (j - 1) \in 1 .. m + (n - 1) /\ ~(m + (j - 1) <= m) /\ j - 1 \in 1 .. n - 1
        /\ (m + (j - 1)) - m = j - 1 /\ (j - 1) + 1 = j
    BY <1>1
  <2>2. r[m + (j - 1)] = v[j - 1]
    BY <1>3, <2>1
  <2>3. v[j - 1] = q[j]
    BY <1>2, <2>1
  <2> QED
    BY <2>1, <2>2, <2>3
<1>7. \A j \in 1 .. m + (n - 1) : j > m => j - m + 1 \in 2 .. n /\ r[j] = q[j - m + 1]
  <2> SUFFICES ASSUME NEW j \in 1 .. m + (n - 1), j > m
               PROVE  j - m + 1 \in 2 .. n /\ r[j] = q[j - m + 1]
    OBVIOUS
  <2>1. ~(j <= m) /\ j - m \in 1 .. n - 1 /\ j - m + 1 \in 2 .. n
    BY <1>1
  <2>2. r[j] = v[j - m]
    BY <1>3, <2>1
  <2>3. v[j - m] = q[(j - m) + 1]
    BY <1>2, <2>1
  <2> QED
    BY <2>1, <2>2, <2>3
<1> QED
  BY <1>1, <1>3, <1>4, <1>5, <1>6, <1>7 DEF m, n

\* A step of a sweeping program.
LEMMA SweepGoesOn ==
  ASSUME NEW S, NEW t, NEW u, NEW q \in Seq(S), q # <<>>, NEW w \in Seq(S),
         Sweeping(t, q), Leaves(u, Head(q), w),
         \A g \in Nodes : u[g] # "absent" => t[g] # "absent"
  PROVE  /\ Sweeping(u, w \o Tail(q))
         /\ \A f : Due(q, f) => u[f] = "absent" \/ Due(w \o Tail(q), f)
<1> DEFINE i == Head(q)
           r == w \o Tail(q)
           m == Len(w)
           n == Len(q)
<1>1. /\ m \in Nat /\ n \in Nat \ {0} /\ i = q[1]
      /\ \A j \in 1 .. m : j \in 1 .. Len(r) /\ r[j] = w[j]
      /\ \A j \in 2 .. n : m + (j - 1) \in 1 .. Len(r) /\ r[m + (j - 1)] = q[j]
      /\ \A j \in 1 .. Len(r) : j > m => j - m + 1 \in 2 .. n /\ r[j] = q[j - m + 1]
      /\ Len(r) = m + (n - 1)
  BY Spliced
<1> HIDE DEF i, r, m, n
<1>2. ASSUME NEW f, NEW j \in 1 .. n, q[j].do \in Removes, q[j].path = f, u[f] # "absent"
      PROVE  \E k \in 1 .. m + (j - 1) : k \in 1 .. Len(r) /\ r[k].do \in Removes /\ r[k].path = f
  <2>1. CASE j = 1
    <3>1. Due(w, f)
      BY <1>1, <1>2, <2>1 DEF Leaves, i
    <3>2. PICK k \in 1 .. m : w[k].do \in Removes /\ w[k].path = f
      BY <3>1 DEF Due, m
    <3>3. k \in 1 .. m + (j - 1)
      BY <1>1, <2>1
    <3> QED
      BY <1>1, <3>2, <3>3
  <2>2. CASE j # 1
    <3>1. j \in 2 .. n /\ m + (j - 1) \in 1 .. m + (j - 1)
      BY <1>1, <2>2
    <3> QED
      BY <1>1, <1>2, <3>1
  <2> QED
    BY <2>1, <2>2
<1>3. ASSUME NEW f, Due(q, f)
      PROVE  u[f] = "absent" \/ Due(r, f)
  <2>1. PICK j \in 1 .. n : q[j].do \in Removes /\ q[j].path = f
    BY <1>3 DEF Due, n
  <2> QED
    BY <1>2, <2>1 DEF Due
<1>4. ASSUME NEW j \in 1 .. Len(r)
      PROVE  /\ r[j].do \in Sweeps /\ r[j].path \in Nodes
             /\ r[j].do # "empty" => r[j].path # <<>>
             /\ r[j].do = "delete" =>
                  \A g \in Paths : dirname(g) = r[j].path /\ u[g] # "absent" => Before(r, j, g)
  <2>1. CASE j <= m
    <3>1. j \in 1 .. m /\ r[j] = w[j]
      BY <1>1, <2>1
    <3>2. /\ w[j].path \in Nodes \ {<<>>}
          /\ w[j].do \in Sweeps
          /\ w[j].do = "delete" =>
               \A g \in Paths : dirname(g) = w[j].path /\ u[g] # "absent" => Before(w, j, g)
      BY <3>1 DEF Leaves, Sweeps, m
    <3>3. ASSUME NEW g, Before(w, j, g)
          PROVE  Before(r, j, g)
      <4>1. \A k \in 1 .. j - 1 : k \in 1 .. m
        BY <1>1, <3>1
      <4> QED
        BY <1>1, <3>3, <4>1 DEF Before
    <3> QED
      BY <3>1, <3>2, <3>3
  <2>2. CASE j > m
    <3> DEFINE k == j - m + 1
    <3>1. k \in 2 .. n /\ r[j] = q[k] /\ m + (k - 1) = j /\ k \in 1 .. n
      <4>1. k \in 2 .. n /\ r[j] = q[k]
        BY <1>1, <2>2
      <4>2. j \in Int
        BY <1>1
      <4>3. m + (k - 1) = j
        BY <1>1, <4>2
      <4> QED
        BY <1>1, <4>1, <4>3
    <3> HIDE DEF k
    <3>2. /\ q[k].do \in Sweeps /\ q[k].path \in Nodes
          /\ q[k].do # "empty" => q[k].path # <<>>
          /\ q[k].do = "delete" =>
               \A g \in Paths : dirname(g) = q[k].path /\ t[g] # "absent" => Before(q, k, g)
      BY <3>1 DEF Sweeping, n
    <3>3. ASSUME NEW g \in Paths, u[g] # "absent", Before(q, k, g)
          PROVE  Before(r, j, g)
      <4>1. PICK e \in 1 .. k - 1 : q[e].do \in Removes /\ q[e].path = g
        BY <3>3 DEF Before
      <4>2. e \in 1 .. n
        BY <1>1, <3>1
      <4>3. PICK h \in 1 .. m + (e - 1) : r[h].do \in Removes /\ r[h].path = g
        BY <1>2, <3>3, <4>1, <4>2
      <4>4. h \in 1 .. j - 1
        BY <1>1, <3>1, <4>1, <4>3
      <4> QED
        BY <4>3, <4>4 DEF Before
    <3>4. \A g \in Paths : u[g] # "absent" => t[g] # "absent"
      BY NodePaths
    <3> QED
      BY <3>1, <3>2, <3>3, <3>4
  <2> QED
    BY <1>1, <2>1, <2>2
<1> QED
  BY <1>3, <1>4 DEF Sweeping, r

\* What a sweeping await does to the tree, and what it leaves to do.
LEMMA SweepLeaves ==
  ASSUME node \in Trees, WellFormed(node), NEW c \in Calls, NEW i \in Doing(c),
         i.do \in Sweeps, i.path \in Nodes, i.do # "empty" => i.path # <<>>,
         i.do = "delete" =>
           \A g \in Paths : dirname(g) = i.path => node[g] = "absent",
         Await(i)
  PROVE  /\ Leaves(node', i, After(i)) /\ WellFormed(node')
         /\ \A g \in Nodes : /\ node'[g] # "absent" => node[g] # "absent"
                             /\ node'[g] = node[g] \/ (i.do = "delete" /\ g = i.path)
<1> DEFINE f == i.path
           w == After(i)
<1>1. f \in Nodes /\ DOMAIN node = Nodes /\ (i.do # "empty" => f \in Paths)
  BY NodePaths DEF Trees
<1>2. i.do # "delete" => node' = node /\ i.do \in Reads
  BY DEF Await, Read, SetRecord, Delete, Sweeps, Removes
<1>3. i.do = "delete" => node' = [node EXCEPT ![f] = "absent"] /\ w = <<>>
  BY DEF Await, Read, SetRecord, Delete, Reads, After
<1>4. [i EXCEPT !.do = "list"].do = "list" /\ [i EXCEPT !.do = "list"].path = f
  BY DEF Doing, Work
<1>5. ASSUME NEW x, w = <<x>>, x.do \in Removes, x.path = f, i.do \in Removes, f \in Paths,
             x.do = "delete" => \A g \in Paths : dirname(g) = f => node'[g] = "absent"
      PROVE  Leaves(node', i, w)
  <2>1. Len(w) = 1 /\ w[1] = x
    BY <1>5
  <2> HIDE DEF w
  <2>2. Due(w, f)
    BY <1>5, <2>1 DEF Due
  <2>3. f \in Nodes \ {<<>>} /\ i.do # "empty"
    BY <1>5, NodePaths DEF Removes
  <2> QED
    BY <1>5, <2>1, <2>2, <2>3 DEF Leaves
<1>6. ASSUME w = <<>>, i.do \in Removes, node'[f] = "absent"
      PROVE  Leaves(node', i, w)
  <2>1. Len(w) = 0 /\ i.do # "empty"
    BY <1>6 DEF Removes
  <2> HIDE DEF w
  <2> QED
    BY <1>6, <2>1 DEF Leaves
<1>7. CASE i.do = "delete"
  <2>1. WellFormed(node')
    BY <1>1, <1>3, <1>7, DeletingKeepsForm
  <2>2. node'[f] = "absent" /\ \A g \in Nodes : g # f => node'[g] = node[g]
    BY <1>1, <1>3, <1>7
  <2>3. Leaves(node', i, w)
    BY <1>3, <1>6, <1>7, <2>2 DEF Removes
  <2> QED
    BY <1>7, <2>1, <2>2, <2>3
<1>8. CASE i.do = "remove"
  <2>1. w = RemoveUnlocked(i) /\ f \in Paths /\ node' = node
    BY <1>1, <1>2, <1>8 DEF After
  <2>2. CASE IsAbsent(f)
    BY <1>6, <1>8, <2>1, <2>2 DEF RemoveUnlocked, IsAbsent, Removes
  <2>3. CASE IsFile(f) /\ ~IsAbsent(f)
    <3>1. w = <<I("delete", f)>> /\ I("delete", f).do = "delete" /\ I("delete", f).path = f
      BY <2>1, <2>3 DEF RemoveUnlocked, I
    <3>2. node[f] # "dir"
      BY <2>3, FacadeAssumption DEF IsFile
    <3>3. \A g \in Paths : dirname(g) = f => node'[g] = "absent"
      <4> SUFFICES ASSUME NEW g \in Paths, dirname(g) = f, node[g] # "absent"
                   PROVE  FALSE
        BY <2>1
      <4>1. IsPrefix(f, g) /\ f # g /\ g \in Nodes
        BY <1>1, NodePaths
      <4> QED
        BY <1>1, <3>2, <4>1, FormBelow
    <3> QED
      BY <1>5, <1>8, <2>1, <3>1, <3>3 DEF Removes
  <2>4. CASE ~IsFile(f) /\ ~IsAbsent(f)
    <3>1. w = <<[i EXCEPT !.do = "list"]>>
      BY <2>1, <2>4 DEF RemoveUnlocked
    <3> QED
      BY <1>4, <1>5, <1>8, <2>1, <3>1 DEF Removes
  <2>5. Leaves(node', i, w)
    BY <2>2, <2>3, <2>4
  <2> QED
    BY <1>8, <2>1, <2>5
<1>9. CASE i.do = "destination"
  <2>1. w = Destination(i) /\ f \in Paths /\ node' = node
    BY <1>1, <1>2, <1>9 DEF After
  <2>2. CASE IsAbsent(f)
    BY <1>6, <1>9, <2>1, <2>2 DEF Destination, If, IsAbsent, Removes
  <2>3. CASE ~IsAbsent(f)
    <3> DEFINE x == [I("remove", f) EXCEPT !.flag = TRUE]
    <3>1. w = <<x>> /\ x.do = "remove" /\ x.path = f
      BY <2>1, <2>3 DEF Destination, If, I
    <3> HIDE DEF x
    <3> QED
      BY <1>5, <1>9, <2>1, <3>1 DEF Removes
  <2> QED
    BY <1>9, <2>1, <2>2, <2>3
<1> DEFINE q == SetToSeq(Children(f))
           m == Len(q)
<1>10. /\ m \in Nat /\ \A k \in 1 .. m : q[k] \in Children(f)
       /\ \A g \in Children(f) : \E k \in 1 .. m : q[k] = g
  BY ListedAll
<1>11. Children(f) \subseteq Paths /\ \A g \in Children(f) : dirname(g) = f
  BY DEF Children
<1>12. CASE i.do = "list"
  <2> DEFINE d == I("delete", f)
             a == RemoveAll(Children(f))
  <2>1. w = a \o <<d>> /\ f \in Paths /\ node' = node
    BY <1>1, <1>2, <1>12 DEF After, List
  <2>2. d.do = "delete" /\ d.path = f
    BY DEF I
  <2>3. a = [k \in 1 .. m |-> [I("remove", q[k]) EXCEPT !.flag = TRUE]]
    BY DEF RemoveAll
  <2> HIDE DEF q, m
  <2>4. Len(a) = m /\ \A k \in 1 .. m : a[k].do = "remove" /\ a[k].path = q[k]
    BY <1>10, <2>3 DEF I
  <2>5. \E S : a \in Seq(S) /\ <<d>> \in Seq(S)
    <3> DEFINE S == {a[k] : k \in 1 .. m} \cup {d}
    <3>1. a \in [1 .. m -> S]
      BY <2>3
    <3>2. d \in S
      OBVIOUS
    <3> HIDE DEF S, a, d
    <3>3. a \in Seq(S) /\ <<d>> \in Seq(S)
      BY <1>10, <3>1, <3>2, Programs
    <3> QED
      BY <3>3
  <2> HIDE DEF a, d
  <2>6. Len(w) = m + 1 /\ w[m + 1] = d /\ \A k \in 1 .. m : w[k] = a[k]
    <3>1. Len(<<d>>) = 1 /\ <<d>>[1] = d
      OBVIOUS
    <3> DEFINE e == <<d>>
    <3>2. Len(e) = 1 /\ e[1] = d /\ w = a \o e
      BY <2>1, <3>1
    <3>3. PICK S : a \in Seq(S) /\ e \in Seq(S)
      BY <2>5
    <3> HIDE DEF e, w
    <3>4. Len(w) = m + 1 /\ \A k \in 1 .. m + 1 : w[k] = IF k <= m THEN a[k] ELSE e[k - m]
      <4>1. /\ Len(a \o e) = Len(a) + Len(e)
            /\ \A k \in 1 .. Len(a) + Len(e) : (a \o e)[k] = IF k <= Len(a) THEN a[k] ELSE e[k - Len(a)]
        BY <3>3, ConcatProperties
      <4> QED
        BY <2>4, <3>2, <4>1
    <3>5. w[m + 1] = e[1]
      BY <1>10, <3>4
    <3>6. \A k \in 1 .. m : w[k] = a[k]
      BY <1>10, <3>4
    <3> QED
      BY <3>2, <3>4, <3>5, <3>6
  <2> HIDE DEF w
  <2>7. ASSUME NEW g \in Paths, dirname(g) = f, node[g] # "absent"
        PROVE  Before(w, m + 1, g)
    <3>1. g \in Children(f)
      BY <2>7 DEF Children, IsAbsent
    <3>2. PICK k \in 1 .. m : q[k] = g
      BY <1>10, <3>1
    <3>3. k \in 1 .. (m + 1) - 1 /\ w[k].do \in Removes /\ w[k].path = g
      BY <1>10, <2>4, <2>6, <3>2 DEF Removes
    <3> QED
      BY <3>3 DEF Before
  <2>8. ASSUME NEW j \in 1 .. Len(w)
        PROVE  /\ w[j].path \in Nodes \ {<<>>}
               /\ w[j].path = f \/ dirname(w[j].path) = f
               /\ w[j].do \in Removes
               /\ w[j].do = "delete" =>
                    \A g \in Paths : dirname(g) = w[j].path /\ node[g] # "absent" => Before(w, j, g)
    <3>1. CASE j \in 1 .. m
      <4>1. w[j].do = "remove" /\ w[j].path \in Children(f)
        BY <1>10, <2>4, <2>6, <3>1
      <4> QED
        BY <1>11, <4>1, NodePaths DEF Removes
    <3>2. CASE j \notin 1 .. m
      <4>1. j = m + 1
        BY <1>10, <2>6, <3>2
      <4> QED
        BY <1>1, <2>1, <2>2, <2>6, <2>7, <4>1, NodePaths DEF Removes
    <3> QED
      BY <3>1, <3>2
  <2>9. Due(w, f)
    <3>1. m + 1 \in 1 .. Len(w)
      BY <1>10, <2>6
    <3> QED
      BY <2>2, <2>6, <3>1 DEF Due, Removes
  <2>10. Leaves(node', i, w)
    BY <1>12, <2>1, <2>8, <2>9 DEF Leaves, Removes
  <2> QED
    BY <1>12, <2>1, <2>10 DEF w
<1>13. CASE i.do = "empty"
  <2>1. w = [k \in 1 .. m |-> I("spawnRemove", q[k])] /\ node' = node
    BY <1>2, <1>13 DEF After, Empty
  <2> HIDE DEF q, m
  <2>2. Len(w) = m /\ \A k \in 1 .. m : w[k].do = "spawnRemove" /\ w[k].path = q[k]
    BY <1>10, <2>1 DEF I
  <2> HIDE DEF w
  <2>3. \A k \in 1 .. m : w[k].path \in Nodes \ {<<>>} /\ dirname(w[k].path) = f
    BY <1>10, <1>11, <2>2, NodePaths
  <2>4. ASSUME NEW g \in Paths, dirname(g) = f, node[g] # "absent"
        PROVE  \E k \in 1 .. m : w[k].do = "spawnRemove" /\ w[k].path = g
    <3>1. g \in Children(f)
      BY <2>4 DEF Children, IsAbsent
    <3> QED
      BY <1>10, <2>2, <3>1
  <2>5. Leaves(node', i, w)
    <3>1. i.do \notin Removes
      BY <1>13 DEF Removes
    <3>2. ASSUME NEW j \in 1 .. Len(w)
          PROVE  /\ w[j].path \in Nodes \ {<<>>} /\ dirname(w[j].path) = i.path
                 /\ w[j].do = "spawnRemove"
      BY <2>2, <2>3
    <3>3. \A j \in 1 .. Len(w) : w[j].do # "delete"
      BY <3>2
    <3>4. \A g \in Paths : dirname(g) = i.path /\ node'[g] # "absent" =>
            \E j \in 1 .. Len(w) : w[j].do = "spawnRemove" /\ w[j].path = g
      BY <2>1, <2>2, <2>4
    <3> QED
      BY <1>13, <3>1, <3>2, <3>3, <3>4 DEF Leaves
  <2> QED
    BY <1>13, <2>1, <2>5 DEF w
<1>14. i.do # "spawnRemove"
  BY DEF Await, Read, Reads, SetRecord, Delete
<1>15. i.do \in {"delete", "remove", "destination", "list", "empty"}
  BY <1>14 DEF Sweeps, Removes
<1> QED
  BY <1>7, <1>8, <1>9, <1>12, <1>13, <1>15

----------------------------------------------------------------------------
(* Where a copy puts things.                                               *)

\* The target of a path, name by name.
LEMMA TargetByName ==
  ASSUME NEW f \in Names, NEW t \in Names, NEW c \in Names, Len(f) <= Len(c)
  PROVE  /\ Target(c, f, t) \in Names /\ Len(Target(c, f, t)) = Len(t) + (Len(c) - Len(f))
         /\ \A k \in 1 .. Len(t) : Target(c, f, t)[k] = t[k]
         /\ \A k \in 1 .. Len(c) - Len(f) : Target(c, f, t)[Len(t) + k] = c[Len(f) + k]
<1> DEFINE s == SubSeq(c, Len(f) + 1, Len(c))
           l == Len(f)
           m == Len(c)
           n == Len(t)
<1>1. l \in Nat /\ m \in Nat /\ n \in Nat
  BY LenProperties DEF Names
<1>2. \A k \in l + 1 .. m : c[k] \in STRING
  BY <1>1, ElementOfSeq DEF Names
<1>3. s \in Names /\ Len(s) = m - l /\ \A k \in 1 .. m - l : s[k] = c[l + k]
  <2>1. /\ s \in Seq(STRING)
        /\ Len(s) = IF l + 1 <= m THEN m - (l + 1) + 1 ELSE 0
        /\ \A k \in 1 .. m - (l + 1) + 1 : s[k] = c[(l + 1) + k - 1]
    BY <1>1, <1>2, SubSeqProperties
  <2>2. Len(s) = m - l
    BY <1>1, <2>1
  <2>3. \A k \in 1 .. m - l : k \in 1 .. m - (l + 1) + 1 /\ (l + 1) + k - 1 = l + k
    BY <1>1
  <2> HIDE DEF s
  <2>4. ASSUME NEW k \in 1 .. m - l
        PROVE  s[k] = c[l + k]
    <3>1. s[k] = c[(l + 1) + k - 1]
      BY <2>1, <2>3
    <3> QED
      BY <2>3, <3>1
  <2> QED
    BY <2>1, <2>2, <2>4 DEF Names
<1> HIDE DEF s
<1>4. /\ t \o s \in Names /\ Len(t \o s) = n + Len(s)
      /\ \A k \in 1 .. n + Len(s) : (t \o s)[k] = IF k <= n THEN t[k] ELSE s[k - n]
  BY <1>3, ConcatProperties DEF Names
<1> DEFINE u == t \o s
<1>5. /\ u \in Names /\ Len(u) = n + (m - l)
      /\ \A k \in 1 .. n + (m - l) : u[k] = IF k <= n THEN t[k] ELSE s[k - n]
  BY <1>3, <1>4
<1>6. u = Target(c, f, t)
  BY DEF Target, s
<1> HIDE DEF u, l, m, n
<1>7. \A k \in 1 .. n : u[k] = t[k]
  BY <1>1, <1>5 DEF l, m
<1>8. ASSUME NEW k \in 1 .. m - l
      PROVE  u[n + k] = c[l + k]
  <2>1. n + k \in 1 .. n + (m - l) /\ ~(n + k <= n) /\ (n + k) - n = k
    BY <1>1
  <2>2. u[n + k] = s[k]
    BY <1>5, <2>1
  <2> QED
    BY <1>3, <2>2
<1> QED
  BY <1>5, <1>6, <1>7, <1>8 DEF l, m, n

\* A copy keeps what is below its source apart, and the way back is another copy.
LEMMA Targets ==
  ASSUME NEW f \in Names, NEW t \in Names
  PROVE  /\ Target(f, f, t) = t
         /\ \A c \in Names : IsPrefix(f, c) =>
              /\ Target(c, f, t) \in Names /\ IsPrefix(t, Target(c, f, t))
              /\ Target(Target(c, f, t), t, f) = c
              /\ Len(Target(c, f, t)) = Len(t) + (Len(c) - Len(f))
         /\ \A c, d \in Names :
              IsPrefix(f, c) /\ IsPrefix(f, d) /\ Target(c, f, t) = Target(d, f, t) => c = d
<1>1. Len(f) \in Nat /\ Len(t) \in Nat
  BY LenProperties DEF Names
<1>2. ASSUME NEW c \in Names, IsPrefix(f, c)
      PROVE  /\ Target(c, f, t) \in Names /\ IsPrefix(t, Target(c, f, t))
             /\ Target(Target(c, f, t), t, f) = c
             /\ Len(Target(c, f, t)) = Len(t) + (Len(c) - Len(f))
  <2> DEFINE g == Target(c, f, t)
             h == Target(g, t, f)
  <2>1. Len(c) \in Nat /\ Len(f) <= Len(c) /\ \A k \in 1 .. Len(f) : f[k] = c[k]
    BY <1>1, <1>2, PrefixByName, LenProperties DEF Names
  <2>2. /\ g \in Names /\ Len(g) = Len(t) + (Len(c) - Len(f))
        /\ \A k \in 1 .. Len(t) : g[k] = t[k]
        /\ \A k \in 1 .. Len(c) - Len(f) : g[Len(t) + k] = c[Len(f) + k]
    BY <2>1, TargetByName
  <2> HIDE DEF g
  <2>3. Len(t) <= Len(g) /\ Len(g) - Len(t) = Len(c) - Len(f)
    BY <1>1, <2>1, <2>2
  <2>4. IsPrefix(t, g)
    BY <2>2, <2>3, PrefixByName
  <2>5. /\ h \in Names /\ Len(h) = Len(f) + (Len(g) - Len(t))
        /\ \A k \in 1 .. Len(f) : h[k] = f[k]
        /\ \A k \in 1 .. Len(g) - Len(t) : h[Len(f) + k] = g[Len(t) + k]
    BY <2>2, <2>3, TargetByName
  <2> HIDE DEF h
  <2>6. Len(h) = Len(c)
    BY <1>1, <2>1, <2>3, <2>5
  <2>7. ASSUME NEW k \in 1 .. Len(h)
        PROVE  h[k] = c[k]
    <3>1. CASE k <= Len(f)
      BY <1>1, <2>1, <2>5, <3>1
    <3>2. CASE k > Len(f)
      <4>1. k - Len(f) \in 1 .. Len(c) - Len(f) /\ Len(f) + (k - Len(f)) = k
        BY <1>1, <2>1, <2>6, <3>2
      <4>2. h[Len(f) + (k - Len(f))] = c[Len(f) + (k - Len(f))]
        BY <2>2, <2>3, <2>5, <4>1
      <4> QED
        BY <4>1, <4>2
    <3> QED
      BY <1>1, <2>1, <2>6, <3>1, <3>2
  <2>8. h = c
    BY <2>5, <2>6, <2>7, SeqEqual DEF Names
  <2> QED
    BY <2>2, <2>4, <2>8 DEF g, h
<1>3. Target(f, f, t) = t
  <2> DEFINE g == Target(f, f, t)
  <2>1. g \in Names /\ Len(g) = Len(t) + (Len(f) - Len(f)) /\ \A k \in 1 .. Len(t) : g[k] = t[k]
    BY <1>1, TargetByName
  <2> HIDE DEF g
  <2>2. Len(g) = Len(t)
    BY <1>1, <2>1
  <2>3. g = t
    BY <2>1, <2>2, SeqEqual DEF Names
  <2> QED
    BY <2>3 DEF g
<1>4. ASSUME NEW c \in Names, NEW d \in Names, IsPrefix(f, c), IsPrefix(f, d),
             Target(c, f, t) = Target(d, f, t)
      PROVE  c = d
  <2>1. Target(Target(c, f, t), t, f) = c /\ Target(Target(d, f, t), t, f) = d
    BY <1>2, <1>4
  <2> QED
    BY <1>4, <2>1
<1>5. \A c \in Names : IsPrefix(f, c) =>
        /\ Target(c, f, t) \in Names /\ IsPrefix(t, Target(c, f, t))
        /\ Target(Target(c, f, t), t, f) = c
        /\ Len(Target(c, f, t)) = Len(t) + (Len(c) - Len(f))
  BY <1>2
<1>6. \A c, d \in Names :
        IsPrefix(f, c) /\ IsPrefix(f, d) /\ Target(c, f, t) = Target(d, f, t) => c = d
  BY <1>4
<1> QED
  BY <1>3, <1>5, <1>6

\* The target of a path one name longer.
LEMMA TargetOfNext ==
  ASSUME NEW e \in Names, NEW s \in Names, NEW c \in Names, Len(c) = Len(e) + 1
  PROVE  /\ Target(c, e, s) \in Names /\ Len(Target(c, e, s)) = Len(s) + 1
         /\ \A k \in 1 .. Len(s) : Target(c, e, s)[k] = s[k]
         /\ Target(c, e, s)[Len(s) + 1] = c[Len(e) + 1]
<1> DEFINE g == Target(c, e, s)
<1>1. Len(c) \in Nat /\ Len(e) \in Nat /\ Len(s) \in Nat
  BY LenProperties DEF Names
<1>2. Len(e) <= Len(c)
  BY <1>1
<1>3. /\ g \in Names /\ Len(g) = Len(s) + (Len(c) - Len(e))
      /\ \A k \in 1 .. Len(s) : g[k] = s[k]
      /\ \A k \in 1 .. Len(c) - Len(e) : g[Len(s) + k] = c[Len(e) + k]
  BY <1>2, TargetByName
<1> HIDE DEF g
<1>4. Len(c) - Len(e) = 1 /\ 1 \in 1 .. Len(c) - Len(e)
  BY <1>1
<1> QED
  BY <1>3, <1>4 DEF g

\* The targets of the entries of a directory are the entries of its target.
LEMMA TargetOfEntry ==
  ASSUME NEW c \in Names, c # <<>>, NEW e \in Names, NEW f \in Names, NEW t \in Names,
         dirname(c) = e, IsPrefix(f, e)
  PROVE  /\ dirname(Target(c, e, t)) = t
         /\ Target(c, e, Target(e, f, t)) = Target(c, f, t) /\ IsPrefix(f, c)
<1>1. Len(c) = Len(e) + 1 /\ IsPrefix(e, c) /\ IsPrefix(f, c)
  BY InDirectory, PrefixOrder
<1>2. Len(c) \in Nat /\ Len(e) \in Nat /\ Len(f) \in Nat /\ Len(t) \in Nat
      /\ Len(e) <= Len(c) /\ Len(f) <= Len(e) /\ Len(f) <= Len(c)
  BY <1>1, PrefixByName, LenProperties DEF Names
<1>3. ASSUME NEW s \in Names
      PROVE  /\ Target(c, e, s) \in Names /\ Len(Target(c, e, s)) = Len(s) + 1
             /\ \A k \in 1 .. Len(s) : Target(c, e, s)[k] = s[k]
             /\ Target(c, e, s)[Len(s) + 1] = c[Len(e) + 1]
  BY <1>1, TargetOfNext
<1>4. dirname(Target(c, e, t)) = t
  <2> DEFINE g == Target(c, e, t)
             h == dirname(g)
  <2>1. g \in Names /\ Len(g) = Len(t) + 1 /\ \A k \in 1 .. Len(t) : g[k] = t[k]
    BY <1>3
  <2> HIDE DEF g
  <2>2. h = SubSeq(g, 1, Len(g) - 1) /\ Len(g) - 1 = Len(t) /\ Len(t) \in 0 .. Len(g)
    BY <1>2, <2>1 DEF dirname, Front
  <2>3. h \in Names /\ Len(h) = Len(t) /\ IsPrefix(h, g)
    BY <2>1, <2>2, Ancestors
  <2> HIDE DEF h
  <2>4. \A k \in 1 .. Len(h) : h[k] = t[k]
    BY <2>1, <2>3, PrefixByName
  <2>5. h = t
    BY <2>3, <2>4, SeqEqual DEF Names
  <2> QED
    BY <2>5 DEF g, h
<1>5. ASSUME NEW a \in Names, Len(f) <= Len(a)
      PROVE  /\ Target(a, f, t) \in Names /\ Len(Target(a, f, t)) = Len(t) + (Len(a) - Len(f))
             /\ \A k \in 1 .. Len(t) : Target(a, f, t)[k] = t[k]
             /\ \A k \in 1 .. Len(a) - Len(f) : Target(a, f, t)[Len(t) + k] = a[Len(f) + k]
  BY ZenonT(60), <1>5, TargetByName
<1>6. Target(c, e, Target(e, f, t)) = Target(c, f, t)
  <2> DEFINE s == Target(e, f, t)
             x == Target(c, e, s)
             y == Target(c, f, t)
  <2>1. /\ s \in Names /\ Len(s) = Len(t) + (Len(e) - Len(f))
        /\ \A k \in 1 .. Len(t) : s[k] = t[k]
        /\ \A k \in 1 .. Len(e) - Len(f) : s[Len(t) + k] = e[Len(f) + k]
    BY <1>2, <1>5
  <2> HIDE DEF s
  <2>2. /\ x \in Names /\ Len(x) = Len(s) + 1
        /\ \A k \in 1 .. Len(s) : x[k] = s[k]
        /\ x[Len(s) + 1] = c[Len(e) + 1]
    BY <1>3, <2>1
  <2>3. /\ y \in Names /\ Len(y) = Len(t) + (Len(c) - Len(f))
        /\ \A k \in 1 .. Len(t) : y[k] = t[k]
        /\ \A k \in 1 .. Len(c) - Len(f) : y[Len(t) + k] = c[Len(f) + k]
    BY <1>2, <1>5
  <2>4. \A k \in 1 .. Len(e) : e[k] = c[k]
    BY <1>1, PrefixByName
  <2> HIDE DEF x, y
  <2>5. Len(x) = Len(y)
    BY <1>1, <1>2, <2>1, <2>2, <2>3
  <2>6. ASSUME NEW k \in 1 .. Len(x)
        PROVE  x[k] = y[k]
    <3> DEFINE j == k - Len(t)
    <3>1. CASE k <= Len(t)
      <4>1. k \in 1 .. Len(t) /\ k \in 1 .. Len(s)
        BY <1>2, <2>1, <3>1
      <4> QED
        BY <2>1, <2>2, <2>3, <4>1
    <3>2. CASE k > Len(t) /\ k <= Len(s)
      <4>1. /\ j \in 1 .. Len(e) - Len(f) /\ Len(t) + j = k /\ k \in 1 .. Len(s)
            /\ j \in 1 .. Len(c) - Len(f) /\ Len(f) + j \in 1 .. Len(e)
        BY <1>1, <1>2, <2>1, <3>2
      <4> HIDE DEF j
      <4>2. x[k] = e[Len(f) + j] /\ y[k] = c[Len(f) + j]
        BY <2>1, <2>2, <2>3, <4>1
      <4> QED
        BY <2>4, <4>1, <4>2
    <3>3. CASE k > Len(s)
      <4>1. /\ k = Len(s) + 1 /\ j \in 1 .. Len(c) - Len(f) /\ Len(t) + j = k
            /\ Len(f) + j = Len(e) + 1
        BY <1>1, <1>2, <2>1, <2>2, <3>3
      <4> HIDE DEF j
      <4>2. y[k] = c[Len(f) + j]
        BY <2>3, <4>1
      <4> QED
        BY <2>2, <4>1, <4>2
    <3> QED
      BY <1>2, <2>1, <3>1, <3>2, <3>3
  <2>7. x = y
    BY <2>2, <2>3, <2>5, <2>6, SeqEqual DEF Names
  <2> QED
    BY <2>7 DEF s, x, y
<1> QED
  BY <1>1, <1>4, <1>6

----------------------------------------------------------------------------
(* Programs that build: what creates a directory before it is written in.  *)

Builds ==
  {"ensure", "createDir", "setDir", "write", "setFile", "createFile", "copyFile", "read",
   "walk", "entryDir", "spawnCopy", "parentDir", "notDir", "missing"}

\* The directory that has to be there when the await i is run.
Place(i) ==
  CASE i.do \in {"ensure", "createDir", "setDir", "write", "setFile", "createFile"} -> dirname(i.path)
    [] i.do \in {"copyFile", "read", "entryDir", "spawnCopy"} -> dirname(i.to)
    [] i.do = "walk" -> i.to
    [] OTHER -> <<>>

\* After the await i, f is a directory.
Gives(i, f) ==
  \/ i.do \in {"ensure", "createDir", "setDir"} /\ i.path = f
  \/ i.do = "parentDir" /\ dirname(i.path) = f

\* q clears nothing, and makes or checks every directory before it uses it; a
\* file is set by the first await only, and not over a directory.
Building(t, q) ==
  \A j \in 1 .. Len(q) :
    /\ q[j].do \in Builds
    /\ Place(q[j]) \in Nodes =>
         t[Place(q[j])] = "dir" \/ \E m \in 1 .. j - 1 : Gives(q[m], Place(q[j]))
    /\ q[j].do = "setFile" => j = 1 /\ (q[j].path \in Nodes => t[q[j].path] # "dir")

\* No directory goes away.
DirsStay(t, u) == \A f \in Nodes : t[f] = "dir" => u[f] = "dir"

\* A step of a building program: its first await is replaced by w.
LEMMA BuildGoesOn ==
  ASSUME NEW S, NEW t, NEW u, NEW q \in Seq(S), q # <<>>, NEW w \in Seq(S),
         Building(t, q), Building(u, w), DirsStay(t, u),
         \A f \in Nodes : Gives(Head(q), f) => u[f] = "dir" \/ \E m \in 1 .. Len(w) : Gives(w[m], f)
  PROVE  Building(u, w \o Tail(q))
<1> DEFINE r == w \o Tail(q)
           m == Len(w)
           n == Len(q)
<1>1. /\ m \in Nat /\ n \in Nat \ {0} /\ Head(q) = q[1]
      /\ \A j \in 1 .. m : j \in 1 .. Len(r) /\ r[j] = w[j]
      /\ \A j \in 2 .. n : m + (j - 1) \in 1 .. Len(r) /\ r[m + (j - 1)] = q[j]
      /\ \A j \in 1 .. Len(r) : j > m => j - m + 1 \in 2 .. n /\ r[j] = q[j - m + 1]
      /\ Len(r) = m + (n - 1)
  BY Spliced
<1> HIDE DEF r, m, n
<1>2. ASSUME NEW j \in 1 .. Len(r)
      PROVE  /\ r[j].do \in Builds
             /\ Place(r[j]) \in Nodes =>
                  u[Place(r[j])] = "dir" \/ \E e \in 1 .. j - 1 : Gives(r[e], Place(r[j]))
             /\ r[j].do = "setFile" => j = 1 /\ (r[j].path \in Nodes => u[r[j].path] # "dir")
  <2>0. j \in Int
    BY <1>1
  <2>1. CASE j <= m
    <3>1. j \in 1 .. m /\ r[j] = w[j] /\ \A e \in 1 .. j - 1 : r[e] = w[e]
      BY <1>1, <2>1
    <3>2. /\ w[j].do \in Builds
          /\ Place(w[j]) \in Nodes =>
               u[Place(w[j])] = "dir" \/ \E e \in 1 .. j - 1 : Gives(w[e], Place(w[j]))
          /\ w[j].do = "setFile" => j = 1 /\ (w[j].path \in Nodes => u[w[j].path] # "dir")
      BY <3>1 DEF Building, m
    <3> QED
      BY <3>1, <3>2
  <2>2. CASE j > m
    <3> DEFINE k == j - m + 1
    <3>1. k \in 2 .. n /\ r[j] = q[k]
      BY <1>1, <2>2
    <3>2. m + (k - 1) = j /\ k \in 1 .. n
      BY <1>1, <2>0, <3>1
    <3> HIDE DEF k
    <3>3. /\ q[k].do \in Builds
          /\ Place(q[k]) \in Nodes =>
               t[Place(q[k])] = "dir" \/ \E e \in 1 .. k - 1 : Gives(q[e], Place(q[k]))
          /\ q[k].do = "setFile" => k = 1 /\ (q[k].path \in Nodes => t[q[k].path] # "dir")
      BY <3>2 DEF Building, n
    <3>4. q[k].do # "setFile"
      BY <3>1, <3>3
    <3>5. ASSUME NEW f \in Nodes, NEW e \in 1 .. k - 1, Gives(q[e], f), u[f] # "dir"
          PROVE  \E h \in 1 .. j - 1 : Gives(r[h], f)
      <4>1. CASE e = 1
        <5>1. PICK h \in 1 .. m : Gives(w[h], f)
          BY <1>1, <3>5, <4>1 DEF m
        <5>2. h \in 1 .. j - 1 /\ r[h] = w[h]
          BY <1>1, <2>0, <2>2, <5>1
        <5> QED
          BY <5>1, <5>2
      <4>2. CASE e # 1
        <5>1. e \in 2 .. n /\ r[m + (e - 1)] = q[e]
          BY <1>1, <3>1, <3>5, <4>2
        <5>2. m + (e - 1) \in 1 .. j - 1
          BY <1>1, <3>1, <3>2, <5>1
        <5> QED
          BY <3>5, <5>1, <5>2
      <4> QED
        BY <4>1, <4>2
    <3>6. ASSUME Place(q[k]) \in Nodes, u[Place(q[k])] # "dir"
          PROVE  \E h \in 1 .. j - 1 : Gives(r[h], Place(q[k]))
      <4>1. t[Place(q[k])] # "dir"
        BY <3>6 DEF DirsStay
      <4>2. PICK e \in 1 .. k - 1 : Gives(q[e], Place(q[k]))
        BY <3>3, <3>6, <4>1
      <4> QED
        BY <3>5, <3>6, <4>2
    <3> QED
      BY <3>1, <3>3, <3>4, <3>6
  <2> QED
    BY <1>1, <2>0, <2>1, <2>2
<1> QED
  BY <1>2 DEF Building, r

\* A step of somebody else that removes no directory.
LEMMA BuildStays ==
  ASSUME NEW t, NEW u, NEW q, Building(t, q), DirsStay(t, u),
         \A j \in 1 .. Len(q) : q[j].do = "setFile" /\ q[j].path \in Nodes => u[q[j].path] # "dir"
  PROVE  Building(u, q)
<1>1. ASSUME NEW j \in 1 .. Len(q)
      PROVE  /\ q[j].do \in Builds
             /\ Place(q[j]) \in Nodes =>
                  u[Place(q[j])] = "dir" \/ \E m \in 1 .. j - 1 : Gives(q[m], Place(q[j]))
             /\ q[j].do = "setFile" => j = 1 /\ (q[j].path \in Nodes => u[q[j].path] # "dir")
  BY DEF Building, DirsStay
<1> QED
  BY <1>1 DEF Building

\* A building program of one await.
LEMMA BuildOne ==
  ASSUME NEW t, NEW x, x.do \in Builds,
         Place(x) \in Nodes => t[Place(x)] = "dir",
         x.do = "setFile" => (x.path \in Nodes => t[x.path] # "dir")
  PROVE  Building(t, <<x>>)
<1> DEFINE q == <<x>>
<1>1. Len(q) = 1 /\ q[1] = x
  OBVIOUS
<1> HIDE DEF q
<1>2. Building(t, q)
  BY <1>1 DEF Building
<1> QED
  BY <1>2 DEF q

\* A program with nothing left builds.
LEMMA BuildNone ==
  ASSUME NEW t
  PROVE  Building(t, <<>>)
<1>1. Len(<<>>) = 0
  BY EmptySeq
<1> QED
  BY <1>1 DEF Building

\* What a building await does to the tree, and what it leaves to do.
LEMMA BuildLeaves ==
  ASSUME node \in Trees, WellFormed(node), NEW c \in Calls, NEW i \in Doing(c), i.do \in Builds,
         Place(i) \in Nodes => node[Place(i)] = "dir",
         i.do = "setFile" => (i.path \in Nodes => node[i.path] # "dir"),
         Await(i)
  PROVE  /\ Building(node', After(i)) /\ WellFormed(node') /\ DirsStay(node, node')
         /\ \A f \in Nodes : Gives(i, f) =>
              node'[f] = "dir" \/ \E m \in 1 .. Len(After(i)) : Gives(After(i)[m], f)
<1> DEFINE f == i.path
           w == After(i)
<1>1. /\ DOMAIN node = Nodes /\ i.data \in Content /\ i.path \in Names /\ i.to \in Names
      /\ "dir" \notin Content /\ "absent" \notin Content /\ node[<<>>] = "dir" /\ <<>> \in Nodes
      /\ \A g \in Nodes : node[g] \in Content \cup {"absent", "dir"}
  BY FacadeAssumption, NodePaths DEF Trees, Doing, Work, WellFormed
<1>2. ~Refuses(i)
  BY DEF Await
<1>3. CASE i.do \in {"setDir", "setFile"}
  <2> DEFINE v == IF i.do = "setDir" THEN "dir" ELSE i.data
  <2>1. node' = [node EXCEPT ![f] = v] /\ w = <<>> /\ Place(i) = dirname(f)
    BY <1>3 DEF Await, Read, Reads, SetRecord, Delete, After, Place
  <2>2. v = "dir" \/ (f \in Nodes => node[f] # "dir")
    BY <1>3
  <2> HIDE DEF v
  <2>3. \A g \in Nodes : node'[g] = IF g = f THEN v ELSE node[g]
    BY <1>1, <2>1
  <2>4. WellFormed(node')
    <3>1. CASE f \in Paths
      <4>1. node[dirname(f)] = "dir"
        BY <2>1, <3>1, NodePaths
      <4>2. f \in Nodes
        BY <3>1, NodePaths
      <4> QED
        BY <2>1, <2>2, <3>1, <4>1, <4>2, SettingKeepsForm
    <3>2. CASE f = <<>>
      <4>1. v = "dir"
        BY <1>1, <2>2, <3>2
      <4>2. \A g \in Nodes : node'[g] = node[g]
        BY <1>1, <2>3, <3>2, <4>1
      <4>3. \A g \in Paths : \A k \in 0 .. Len(g) - 1 : SubSeq(g, 1, k) \in Nodes
        BY FacadeAssumption
      <4> QED
        BY <1>1, <4>2, <4>3, NodePaths DEF WellFormed
    <3>3. CASE f \notin Nodes
      <4>1. \A g \in Nodes : node'[g] = node[g]
        BY <2>3, <3>3
      <4>2. \A g \in Paths : \A k \in 0 .. Len(g) - 1 : SubSeq(g, 1, k) \in Nodes
        BY FacadeAssumption
      <4> QED
        BY <1>1, <4>1, <4>2, NodePaths DEF WellFormed
    <3> QED
      BY <3>1, <3>2, <3>3, NodePaths
  <2>5. DirsStay(node, node')
    BY <2>2, <2>3 DEF DirsStay
  <2>6. \A g \in Nodes : Gives(i, g) => node'[g] = "dir"
    <3>1. i.do = "setDir" => v = "dir"
      BY DEF v
    <3> QED
      BY <1>3, <2>3, <3>1 DEF Gives
  <2>7. Building(node', w)
    BY <2>1, BuildNone
  <2> QED
    BY <2>4, <2>5, <2>6, <2>7
<1>4. ASSUME i.do \notin {"setDir", "setFile"}
      PROVE  node' = node /\ DirsStay(node, node') /\ WellFormed(node')
  <2>1. node' = node
    BY <1>4 DEF Await, Read, SetRecord, Delete, Builds
  <2> QED
    BY <2>1 DEF DirsStay
<1>5. ASSUME NEW x, w = <<x>>, x.do \in Builds, i.do \notin {"setDir", "setFile"},
             Place(x) = Place(i),
             x.do = "setFile" => (x.path \in Nodes => node[x.path] # "dir")
      PROVE  Building(node', w)
  BY <1>4, <1>5, BuildOne
<1>6. ASSUME w = <<>>, i.do \notin {"setDir", "setFile"}
      PROVE  Building(node', w)
  BY <1>6, BuildNone
<1>7. CASE i.do \in {"ensure", "createDir"}
  <2>1. w = IF i.do = "ensure" THEN If(IsAbsent(f), <<I("createDir", f)>>)
            ELSE If(IsAbsent(f), <<I("setDir", f)>>)
    BY <1>7 DEF After, Ensure, CreateDir
  <2>2. ~IsFile(f) /\ Place(i) = dirname(f)
    BY <1>2, <1>7 DEF Refuses, Place
  <2>3. CASE IsAbsent(f)
    <3> DEFINE x == IF i.do = "ensure" THEN I("createDir", f) ELSE I("setDir", f)
    <3>1. w = <<x>>
      BY <2>1, <2>3 DEF If
    <3>2. x.do \in {"createDir", "setDir"} /\ x.path = f
      BY DEF I
    <3> HIDE DEF x
    <3>3. Place(x) = Place(i) /\ x.do \in Builds /\ x.do # "setFile"
      BY <2>2, <3>2 DEF Place, Builds
    <3>4. Building(node', w)
      BY <1>5, <1>7, <3>1, <3>3
    <3>5. \A g : Gives(i, g) => Gives(x, g)
      BY <1>7, <3>2 DEF Gives
    <3>6. Len(w) = 1 /\ w[1] = x
      BY <3>1
    <3> HIDE DEF w
    <3>7. \A g \in Nodes : Gives(i, g) => \E m \in 1 .. Len(w) : Gives(w[m], g)
      BY <3>5, <3>6
    <3> QED
      BY <1>4, <1>7, <3>4, <3>7 DEF w
  <2>4. CASE ~IsAbsent(f)
    <3>1. w = <<>>
      BY <2>1, <2>4 DEF If
    <3>2. \A g \in Nodes : Gives(i, g) => node[g] = "dir"
      BY <1>1, <1>7, <2>2, <2>4 DEF Gives, IsFile, IsAbsent
    <3> QED
      BY <1>4, <1>6, <1>7, <3>1, <3>2
  <2> QED
    BY <2>3, <2>4
<1>8. CASE i.do = "parentDir"
  <2>1. w = <<>> /\ node[dirname(f)] = "dir"
    BY <1>2, <1>8 DEF After, Refuses, IsDirectory
  <2>2. \A g \in Nodes : Gives(i, g) => node[g] = "dir"
    BY <1>8, <2>1 DEF Gives
  <2> QED
    BY <1>4, <1>6, <1>8, <2>1, <2>2
<1>9. ASSUME i.do \notin {"ensure", "createDir", "setDir", "parentDir"}
      PROVE  \A g : ~Gives(i, g)
  BY <1>9 DEF Gives
<1>10. CASE i.do \in {"notDir", "missing"}
  <2>1. w = <<>>
    BY <1>10 DEF After
  <2> QED
    BY <1>4, <1>6, <1>9, <1>10, <2>1
<1>11. CASE i.do = "write"
  <2> DEFINE x == [i EXCEPT !.do = "setFile"]
  <2>1. w = <<x>>
    BY <1>11 DEF After, WriteFile
  <2>2. x.do = "setFile" /\ x.path = f
    BY DEF Doing, Work
  <2>3. node[f] # "dir"
    BY <1>2, <1>11 DEF Refuses, IsDirectory
  <2> HIDE DEF x
  <2>4. Place(x) = Place(i) /\ x.do \in Builds
    BY <1>11, <2>2 DEF Place, Builds
  <2>5. Building(node', w)
    BY <1>5, <1>11, <2>1, <2>2, <2>3, <2>4
  <2> QED
    BY <1>4, <1>9, <1>11, <2>5
<1>12. CASE i.do = "createFile"
  <2> DEFINE x == [I("write", f) EXCEPT !.data = "empty"]
  <2>1. w = If(IsAbsent(f), <<x>>)
    BY <1>12 DEF After, CreateFile
  <2>2. x.do = "write" /\ x.path = f
    BY DEF I
  <2> HIDE DEF x
  <2>3. Place(x) = Place(i) /\ x.do \in Builds /\ x.do # "setFile"
    BY <1>12, <2>2 DEF Place, Builds
  <2>4. Building(node', w)
    <3>1. w = <<x>> \/ w = <<>>
      BY <2>1 DEF If
    <3> QED
      BY <1>5, <1>6, <1>12, <2>3, <3>1
  <2> QED
    BY <1>4, <1>9, <1>12, <2>4
<1>13. CASE i.do = "copyFile"
  <2> DEFINE x == [i EXCEPT !.do = "read"]
  <2>1. w = <<x>>
    BY <1>13 DEF After, CopyFile
  <2>2. x.do = "read" /\ x.to = i.to
    BY DEF Doing, Work
  <2> HIDE DEF x
  <2>3. Place(x) = Place(i) /\ x.do \in Builds /\ x.do # "setFile"
    BY <1>13, <2>2 DEF Place, Builds
  <2>4. Building(node', w)
    BY <1>5, <1>13, <2>1, <2>3
  <2> QED
    BY <1>4, <1>9, <1>13, <2>4
<1>14. CASE i.do = "read"
  <2> DEFINE x == [I("write", i.to) EXCEPT !.data = node[i.path]]
  <2>1. w = <<x>>
    BY <1>14 DEF After, ReadFile
  <2>2. x.do = "write" /\ x.path = i.to
    BY DEF I
  <2> HIDE DEF x
  <2>3. Place(x) = Place(i) /\ x.do \in Builds /\ x.do # "setFile"
    BY <1>14, <2>2 DEF Place, Builds
  <2>4. Building(node', w)
    BY <1>5, <1>14, <2>1, <2>3
  <2> QED
    BY <1>4, <1>9, <1>14, <2>4
<1>15. CASE i.do = "walk"
  <2> DEFINE q == SetToSeq(Children(f))
             m == Len(q)
  <2>1. m \in Nat /\ \A k \in 1 .. m : q[k] \in Children(f)
    BY ListedAll
  <2>2. w = [k \in 1 .. m |-> [I(IF IsFile(q[k]) THEN "spawnCopy" ELSE "entryDir", q[k])
                                 EXCEPT !.to = Target(q[k], f, i.to)]]
    BY <1>15 DEF After, Walk
  <2> HIDE DEF q, m
  <2>3. Len(w) = m /\ \A k \in 1 .. m : /\ w[k].do \in {"spawnCopy", "entryDir"}
                                        /\ w[k].to = Target(q[k], f, i.to)
    BY <2>1, <2>2 DEF I
  <2> HIDE DEF w
  <2>4. ASSUME NEW k \in 1 .. m
        PROVE  Place(w[k]) = i.to
    <3>1. q[k] \in Names /\ q[k] # <<>> /\ dirname(q[k]) = f
      BY <2>1, FacadeAssumption DEF Children, Names
    <3>2. IsPrefix(f, f)
      BY <1>1, PrefixByName, LenProperties DEF Names
    <3>3. dirname(Target(q[k], f, i.to)) = i.to
      <4> DEFINE h == q[k]
                 d == i.to
                 e == i.path
      <4>1. h \in Names /\ h # <<>> /\ dirname(h) = e /\ e \in Names /\ d \in Names /\ IsPrefix(e, e)
        BY <1>1, <3>1, <3>2
      <4> HIDE DEF h, d, e
      <4>2. dirname(Target(h, e, d)) = d
        BY <4>1, TargetOfEntry
      <4> QED
        BY <4>2 DEF h, d, e
    <3> QED
      BY <2>3, <3>3 DEF Place
  <2>5. Place(i) = i.to
    BY <1>15 DEF Place
  <2>6. Building(node, w)
    BY <2>3, <2>4, <2>5 DEF Building, Builds
  <2> QED
    BY <1>4, <1>9, <1>15, <2>6 DEF w
<1>16. i.do \notin {"entryDir", "spawnCopy"}
  BY DEF Await, Read, Reads, SetRecord, Delete
<1>17. \/ i.do \in {"setDir", "setFile"} \/ i.do \in {"ensure", "createDir"} \/ i.do = "parentDir"
       \/ i.do \in {"notDir", "missing"} \/ i.do = "write" \/ i.do = "createFile"
       \/ i.do = "copyFile" \/ i.do = "read" \/ i.do = "walk"
  BY <1>16 DEF Builds
<1> QED
  BY <1>3, <1>7, <1>8, <1>10, <1>11, <1>12, <1>13, <1>14, <1>15, <1>17

\* Building goes on with what the program has made so far.
LEMMA BuildThen ==
  ASSUME NEW S, NEW t, NEW p \in Seq(S), NEW q \in Seq(S), Building(t, p),
         \A j \in 1 .. Len(q) :
           /\ q[j].do \in Builds \ {"setFile"}
           /\ Place(q[j]) \in Nodes =>
                \/ t[Place(q[j])] = "dir"
                \/ \E m \in 1 .. Len(p) : Gives(p[m], Place(q[j]))
                \/ \E m \in 1 .. j - 1 : Gives(q[m], Place(q[j]))
  PROVE  Building(t, p \o q)
<1> DEFINE r == p \o q
           m == Len(p)
           n == Len(q)
<1>1. m \in Nat /\ n \in Nat
  BY LenProperties
<1>2. Len(r) = m + n /\ \A j \in 1 .. m + n : r[j] = IF j <= m THEN p[j] ELSE q[j - m]
  BY ConcatProperties
<1> HIDE DEF r, m, n
<1>3. \A j \in 1 .. m : r[j] = p[j] /\ j \in 1 .. m + n
  BY <1>1, <1>2
<1>4. \A j \in 1 .. n : r[m + j] = q[j] /\ m + j \in 1 .. m + n
  <2> TAKE j \in 1 .. n
  <2>1. m + j \in 1 .. m + n /\ ~(m + j <= m) /\ (m + j) - m = j
    BY <1>1
  <2> QED
    BY <1>2, <2>1
<1>5. ASSUME NEW j \in 1 .. m + n
      PROVE  /\ r[j].do \in Builds
             /\ Place(r[j]) \in Nodes =>
                  t[Place(r[j])] = "dir" \/ \E e \in 1 .. j - 1 : Gives(r[e], Place(r[j]))
             /\ r[j].do = "setFile" => j = 1 /\ (r[j].path \in Nodes => t[r[j].path] # "dir")
  <2>1. CASE j <= m
    <3>1. j \in 1 .. m /\ \A e \in 1 .. j - 1 : e \in 1 .. m
      BY <1>1, <2>1
    <3>2. r[j] = p[j] /\ \A e \in 1 .. j - 1 : r[e] = p[e]
      BY <1>3, <3>1
    <3>3. /\ p[j].do \in Builds
          /\ Place(p[j]) \in Nodes =>
               t[Place(p[j])] = "dir" \/ \E e \in 1 .. j - 1 : Gives(p[e], Place(p[j]))
          /\ p[j].do = "setFile" => j = 1 /\ (p[j].path \in Nodes => t[p[j].path] # "dir")
      BY <3>1 DEF Building, m
    <3> QED
      BY <3>2, <3>3
  <2>2. CASE j > m
    <3> DEFINE k == j - m
    <3>1. k \in 1 .. n /\ j = m + k
      BY <1>1, <2>2
    <3> HIDE DEF k
    <3>2. r[j] = q[k]
      BY <1>4, <3>1
    <3>3. /\ q[k].do \in Builds \ {"setFile"}
          /\ Place(q[k]) \in Nodes =>
               \/ t[Place(q[k])] = "dir"
               \/ \E e \in 1 .. m : Gives(p[e], Place(q[k]))
               \/ \E e \in 1 .. k - 1 : Gives(q[e], Place(q[k]))
      BY <3>1 DEF m, n
    <3>4. ASSUME NEW e \in 1 .. m
          PROVE  e \in 1 .. j - 1 /\ r[e] = p[e]
      BY <1>1, <1>3, <3>1
    <3>5. ASSUME NEW e \in 1 .. k - 1
          PROVE  m + e \in 1 .. j - 1 /\ r[m + e] = q[e]
      <4>1. e \in 1 .. n /\ m + e \in 1 .. j - 1
        BY <1>1, <3>1
      <4> QED
        BY <1>4, <4>1
    <3>6. ASSUME NEW f, \E e \in 1 .. m : Gives(p[e], f)
          PROVE  \E e \in 1 .. j - 1 : Gives(r[e], f)
      BY <3>4, <3>6
    <3>7. ASSUME NEW f, \E e \in 1 .. k - 1 : Gives(q[e], f)
          PROVE  \E e \in 1 .. j - 1 : Gives(r[e], f)
      BY <3>5, <3>7
    <3> QED
      BY <3>2, <3>3, <3>6, <3>7
  <2> QED
    BY <1>1, <2>1, <2>2
<1> QED
  BY <1>2, <1>5 DEF Building, r

\* ensureParents makes its directories from the root down.
LEMMA EnsureBuilds ==
  ASSUME NEW t, t[<<>>] = "dir", NEW f \in Names
  PROVE  /\ Building(t, EnsureParents(f)) /\ Len(EnsureParents(f)) = Len(f)
         /\ f # <<>> => /\ Len(f) \in 1 .. Len(EnsureParents(f))
                        /\ Gives(EnsureParents(f)[Len(f)], f)
         /\ \A k \in 1 .. Len(f) : /\ EnsureParents(f)[k] = I("ensure", SubSeq(f, 1, k))
                                   /\ SubSeq(f, 1, k) \in Names /\ IsPrefix(SubSeq(f, 1, k), f)
                                   /\ Len(SubSeq(f, 1, k)) = k
<1> DEFINE n == Len(f)
           q == EnsureParents(f)
           a(k) == SubSeq(f, 1, k)
<1>1. n \in Nat
  BY LenProperties DEF Names
<1>2. Len(q) = n /\ \A k \in 1 .. n : q[k] = I("ensure", a(k))
  BY <1>1 DEF EnsureParents
<1> HIDE DEF q
<1>3. ASSUME NEW k \in 0 .. n
      PROVE  /\ a(k) \in Names /\ Len(a(k)) = k /\ IsPrefix(a(k), f)
             /\ \A j \in 1 .. k : a(k)[j] = f[j]
  <2>1. a(k) \in Names /\ Len(a(k)) = k /\ IsPrefix(a(k), f)
    BY Ancestors
  <2> QED
    BY <2>1, PrefixByName
<1>4. a(0) = <<>>
  <2>1. a(0) \in Seq(STRING) /\ Len(a(0)) = 0
    BY <1>1, <1>3 DEF Names
  <2> QED
    BY <2>1, EmptySeq
<1>5. ASSUME NEW k \in 1 .. n
      PROVE  dirname(a(k)) = a(k - 1)
  <2> DEFINE g == a(k)
             h == a(k - 1)
             d == dirname(g)
  <2>1. k \in 0 .. n /\ k - 1 \in 0 .. n /\ k - 1 \in 0 .. k
    BY <1>1
  <2>2. g \in Names /\ Len(g) = k /\ \A j \in 1 .. k : g[j] = f[j]
    BY <1>3, <2>1
  <2>3. h \in Names /\ Len(h) = k - 1 /\ \A j \in 1 .. k - 1 : h[j] = f[j]
    BY <1>3, <2>1
  <2> HIDE DEF g, h
  <2>4. d = SubSeq(g, 1, k - 1)
    BY <2>2 DEF dirname, Front
  <2>5. d \in Names /\ Len(d) = k - 1 /\ IsPrefix(d, g)
    BY <2>1, <2>2, <2>4, Ancestors
  <2> HIDE DEF d
  <2>6. \A j \in 1 .. k - 1 : d[j] = g[j]
    BY <2>2, <2>5, PrefixByName
  <2>7. \A j \in 1 .. k - 1 : d[j] = h[j]
    <3>1. \A j \in 1 .. k - 1 : j \in 1 .. k
      BY <1>1
    <3> QED
      BY <2>2, <2>3, <2>6, <3>1
  <2>8. d = h
    BY <2>3, <2>5, <2>7, SeqEqual DEF Names
  <2> QED
    BY <2>8 DEF d, g, h
<1>6. a(n) = f
  <2> DEFINE g == a(n)
  <2>1. g \in Names /\ Len(g) = n /\ \A j \in 1 .. n : g[j] = f[j]
    BY <1>1, <1>3
  <2> HIDE DEF g
  <2>2. g = f
    BY <2>1, SeqEqual DEF Names
  <2> QED
    BY <2>2 DEF g
<1>7. \A k \in 0 .. n : a(k) \in Names /\ Len(a(k)) = k /\ IsPrefix(a(k), f)
  BY <1>3
<1> HIDE DEF a, n
<1>8. ASSUME NEW k \in 1 .. n
      PROVE  /\ q[k].do = "ensure" /\ q[k].path = a(k) /\ Place(q[k]) = a(k - 1) /\ Gives(q[k], a(k))
  <2>1. q[k].do = "ensure" /\ q[k].path = a(k)
    BY <1>2 DEF I
  <2> QED
    BY <1>5, <2>1 DEF Place, Gives
<1>9. ASSUME NEW k \in 1 .. n
      PROVE  t[Place(q[k])] = "dir" \/ \E m \in 1 .. k - 1 : Gives(q[m], Place(q[k]))
  <2>1. CASE k = 1
    BY <1>4, <1>8, <2>1
  <2>2. CASE k # 1
    <3>1. k - 1 \in 1 .. n /\ k - 1 \in 1 .. k - 1
      BY <1>1, <2>2
    <3> QED
      BY <1>8, <3>1
  <2> QED
    BY <2>1, <2>2
<1>10. Building(t, q)
  BY <1>2, <1>8, <1>9 DEF Building, Builds
<1>11. ASSUME f # <<>>
       PROVE  n \in 1 .. Len(q) /\ Gives(q[n], f)
  <2>1. n # 0
    BY <1>11, EmptySeq DEF n, Names
  <2>2. n \in 1 .. n
    BY <1>1, <2>1
  <2> QED
    BY <1>2, <1>6, <1>8, <2>2
<1>12. \A k \in 1 .. n : k \in 0 .. n
  BY <1>1
<1> QED
  BY <1>2, <1>7, <1>10, <1>11, <1>12 DEF q, a, n

----------------------------------------------------------------------------
(* What a copy is about to do, and for which entry of its source.          *)

\* The await i is about the entry f of the source of the call c.
Mirrors(t, c, i, f) ==
  /\ IsPrefix(c.path, f)
  /\ \/ /\ i.do \in {"walk", "entryDir"} /\ t[f] = "dir"
        /\ i.path = f /\ i.to = Target(f, c.path, c.to)
     \/ /\ i.do \in {"createDir", "setDir"} /\ t[f] = "dir"
        /\ i.path = Target(f, c.path, c.to)
     \/ /\ i.do \in {"copyFile", "read", "spawnCopy"} /\ t[f] \in Content
        /\ i.path = f /\ i.to = Target(f, c.path, c.to)
     \/ /\ i.do \in {"write", "setFile"} /\ t[f] \in Content /\ i.data = t[f]
        /\ i.path = Target(f, c.path, c.to)

\* The await i makes a directory above the destination.
Prepares(c, i) ==
  i.do \in {"ensure", "createDir", "setDir"} /\ IsPrefix(i.path, c.to) /\ i.path # c.to

Errands(t, c) ==
  {i \in Doing(c) : Prepares(c, i) \/ \E f \in Nodes : Mirrors(t, c, i, f)}

\* The await i will have f copied.
Leads(c, i, f) ==
  \/ i.do = "walk" /\ IsPrefix(i.path, f) /\ i.path # f
  \/ i.do = "entryDir" /\ IsPrefix(i.path, f)
  \/ i.do \in {"spawnCopy", "copyFile", "read"} /\ i.path = f
  \/ i.do \in {"createDir", "setDir", "write", "setFile"} /\ i.path = Target(f, c.path, c.to)

\* Nobody touches the source.
SourceStays(c, t, u) == \A f \in Nodes : IsPrefix(c.path, f) => u[f] = t[f]

\* The errands are those of the source alone.
LEMMA ErrandsStay ==
  ASSUME NEW c, NEW t, NEW u, SourceStays(c, t, u)
  PROVE  Errands(t, c) = Errands(u, c)
<1>1. ASSUME NEW i, NEW f \in Nodes
      PROVE  Mirrors(t, c, i, f) <=> Mirrors(u, c, i, f)
  BY DEF Mirrors, SourceStays
<1> QED
  BY <1>1 DEF Errands

\* An errand builds; it writes beside the source, and what is above the
\* destination is not in it.
LEMMA ErrandPaths ==
  ASSUME NEW c \in Calls, c.op \in {"copy", "move"}, NEW t
  PROVE  /\ c.path \in Names /\ c.to \in Names /\ c.path \in Nodes
         /\ \A f \in Nodes : IsPrefix(c.path, f) =>
              /\ f \in Names /\ Target(f, c.path, c.to) \in Names
              /\ IsPrefix(c.to, Target(f, c.path, c.to))
              /\ ~IsPrefix(c.path, Target(f, c.path, c.to))
         /\ \A f, g \in Nodes :
              IsPrefix(c.path, f) /\ IsPrefix(c.path, g)
                /\ Target(f, c.path, c.to) = Target(g, c.path, c.to) => f = g
         /\ \A i \in Errands(t, c) :
              /\ i \in Doing(c) /\ i.do \in Builds /\ i.path \in Names /\ i.to \in Names
              /\ i.do \in {"ensure", "createDir", "setDir", "write", "setFile"} =>
                   /\ ~IsPrefix(c.path, i.path)
                   /\ \A f \in Nodes : IsPrefix(c.path, f) => i.path # f
         /\ \A i : Prepares(c, i) => \A f \in Nodes :
              IsPrefix(c.path, f) => i.path # Target(f, c.path, c.to)
<1>1. /\ c.path \in Names /\ c.to \in Names /\ c.path \in Nodes
      /\ ~IsPrefix(c.path, c.to) /\ ~IsPrefix(c.to, c.path)
  BY CallPaths, FacadeAssumption
<1>2. ASSUME NEW f \in Nodes, IsPrefix(c.path, f)
      PROVE  /\ f \in Names /\ Target(f, c.path, c.to) \in Names
             /\ IsPrefix(c.to, Target(f, c.path, c.to))
             /\ ~IsPrefix(c.path, Target(f, c.path, c.to))
  <2>1. f \in Names
    BY NodePaths
  <2>2. Target(f, c.path, c.to) \in Names /\ IsPrefix(c.to, Target(f, c.path, c.to))
    BY <1>1, <1>2, <2>1, Targets
  <2> QED
    BY <1>1, <2>1, <2>2, PrefixOrder
<1>3. ASSUME NEW f \in Nodes, NEW g \in Nodes, IsPrefix(c.path, f), IsPrefix(c.path, g),
             Target(f, c.path, c.to) = Target(g, c.path, c.to)
      PROVE  f = g
  BY <1>1, <1>2, <1>3, Targets
<1>4. ASSUME NEW i \in Errands(t, c)
      PROVE  i \in Doing(c) /\ i.do \in Builds /\ i.path \in Names /\ i.to \in Names
  BY DEF Errands, Mirrors, Prepares, Builds, Doing, Work
<1>5. ASSUME NEW i \in Errands(t, c), i.do \in {"ensure", "createDir", "setDir", "write", "setFile"}
      PROVE  ~IsPrefix(c.path, i.path)
  <2>1. CASE Prepares(c, i)
    <3>1. IsPrefix(i.path, c.to)
      BY <2>1 DEF Prepares
    <3> QED
      BY <1>1, <1>4, <3>1, PrefixOrder
  <2>2. CASE ~Prepares(c, i)
    <3>1. PICK f \in Nodes : Mirrors(t, c, i, f)
      BY <2>2 DEF Errands
    <3>2. IsPrefix(c.path, f) /\ i.path = Target(f, c.path, c.to)
      BY <1>5, <3>1 DEF Mirrors
    <3> QED
      BY <1>2, <3>2
  <2> QED
    BY <2>1, <2>2
<1>6. ASSUME NEW i, Prepares(c, i), NEW f \in Nodes, IsPrefix(c.path, f)
      PROVE  i.path # Target(f, c.path, c.to)
  <2> SUFFICES ASSUME i.path = Target(f, c.path, c.to)
               PROVE  FALSE
    OBVIOUS
  <2>1. i.path \in Names /\ IsPrefix(c.to, i.path)
    BY <1>2, <1>6
  <2>2. IsPrefix(i.path, c.to) /\ i.path # c.to
    BY <1>6 DEF Prepares
  <2>3. /\ Len(i.path) <= Len(c.to) /\ Len(c.to) <= Len(i.path)
        /\ \A k \in 1 .. Len(i.path) : i.path[k] = c.to[k]
    BY <1>1, <2>1, <2>2, PrefixByName
  <2>4. Len(i.path) = Len(c.to)
    BY <1>1, <2>1, <2>3, LenProperties DEF Names
  <2> QED
    BY <1>1, <2>1, <2>2, <2>3, <2>4, SeqEqual DEF Names
<1>7. \A i \in Errands(t, c) :
        /\ i \in Doing(c) /\ i.do \in Builds /\ i.path \in Names /\ i.to \in Names
        /\ i.do \in {"ensure", "createDir", "setDir", "write", "setFile"} =>
             /\ ~IsPrefix(c.path, i.path)
             /\ \A f \in Nodes : IsPrefix(c.path, f) => i.path # f
  BY <1>4, <1>5
<1> QED
  BY <1>1, <1>2, <1>3, <1>6, <1>7

\* The await i changes its own path only.
SetsOne(t, u, i) ==
  \A g \in Nodes :
    \/ u[g] = t[g]
    \/ g = i.path /\ i.do = "setDir" /\ u[g] = "dir"
    \/ g = i.path /\ i.do = "setFile" /\ u[g] = i.data

\* What the await i leads to is done, or some of the awaits Y lead to it.
LedOn(t, u, c, i, Y) ==
  \A f \in Nodes :
    IsPrefix(c.path, f) /\ t[f] # "absent" /\ Target(f, c.path, c.to) \in Nodes /\ Leads(c, i, f)
    => u[Target(f, c.path, c.to)] = t[f] \/ \E y \in Y : Leads(c, y, f)

\* What an errand changes.
LEMMA ErrandSets ==
  ASSUME node \in Trees, NEW c \in Calls, c.op \in {"copy", "move"},
         NEW i \in Errands(node, c), Await(i)
  PROVE  /\ SourceStays(c, node, node')
         /\ i.do \notin {"setDir", "setFile"} => node' = node
         /\ SetsOne(node, node', i)
         /\ i.path \in Nodes => /\ i.do = "setDir" => node'[i.path] = "dir"
                                /\ i.do = "setFile" => node'[i.path] = i.data
<1>1. /\ i.do \in Builds /\ DOMAIN node = Nodes
      /\ i.do \in {"setDir", "setFile"} => \A f \in Nodes : IsPrefix(c.path, f) => i.path # f
  BY ErrandPaths DEF Trees
<1>2. CASE i.do \in {"setDir", "setFile"}
  <2>1. node' = [node EXCEPT ![i.path] = IF i.do = "setDir" THEN "dir" ELSE i.data]
    BY <1>2 DEF Await, Read, Reads, SetRecord, Delete
  <2>2. \A g \in Nodes :
          node'[g] = IF g = i.path THEN IF i.do = "setDir" THEN "dir" ELSE i.data ELSE node[g]
    BY <1>1, <2>1
  <2> QED
    BY <1>1, <1>2, <2>2 DEF SourceStays, SetsOne
<1>3. CASE i.do \notin {"setDir", "setFile"}
  <2>1. node' = node
    BY <1>1, <1>3 DEF Await, Read, SetRecord, Delete, Builds
  <2> QED
    BY <1>3, <2>1 DEF SourceStays, SetsOne
<1> QED
  BY <1>2, <1>3

Filing == {"copyFile", "read", "write", "setFile"}

\* An errand that makes a directory or sets a record.
LEMMA MakingLeaves ==
  ASSUME node \in Trees, NEW c \in Calls, c.op \in {"copy", "move"},
         NEW i \in Errands(node, c), i.do \in {"ensure", "createDir", "setDir", "setFile"}, Await(i)
  PROVE  /\ After(i) \in Seq(Errands(node, c))
         /\ i.do = "setFile" => After(i) = <<>>
         /\ \A f \in Nodes :
              IsPrefix(c.path, f) /\ Target(f, c.path, c.to) \in Nodes /\ Leads(c, i, f)
              => \/ node'[Target(f, c.path, c.to)] = node[f]
                 \/ \E m \in 1 .. Len(After(i)) : Leads(c, After(i)[m], f)
<1> DEFINE w == After(i)
           E == Errands(node, c)
<1>1. /\ i \in Doing(c) /\ w \in Seq(Doing(c)) /\ ~Refuses(i)
      /\ \A g \in Nodes : node[g] \in Content \cup {"absent", "dir"}
  BY AwaitKeeps, ErrandPaths DEF Body, Trees, Await
<1>2. <<>> \in Seq(E) /\ \A x \in E : <<x>> \in Seq(E)
  BY Programs
<1>3. CASE i.do \in {"setDir", "setFile"}
  <2>1. w = <<>>
    BY <1>3 DEF After
  <2>2. ASSUME NEW f \in Nodes, IsPrefix(c.path, f), Target(f, c.path, c.to) \in Nodes, Leads(c, i, f)
        PROVE  node'[Target(f, c.path, c.to)] = node[f]
    <3>1. i.path = Target(f, c.path, c.to)
      BY <1>3, <2>2 DEF Leads
    <3>2. ~Prepares(c, i)
      BY <2>2, <3>1, ErrandPaths
    <3>3. PICK g \in Nodes : Mirrors(node, c, i, g)
      BY <3>2 DEF Errands
    <3>4. g = f
      BY <1>3, <2>2, <3>1, <3>3, ErrandPaths DEF Mirrors
    <3>5. IF i.do = "setDir" THEN node[f] = "dir" ELSE node[f] = i.data
      BY <1>3, <3>3, <3>4 DEF Mirrors
    <3> QED
      BY <1>3, <2>2, <3>1, <3>5, ErrandSets
  <2> QED
    BY <1>2, <2>1, <2>2
<1>4. CASE i.do \in {"ensure", "createDir"}
  <2> DEFINE x == IF i.do = "ensure" THEN I("createDir", i.path) ELSE I("setDir", i.path)
  <2>1. /\ w = If(IsAbsent(i.path), <<x>>) /\ node' = node /\ ~IsFile(i.path)
    <3>1. w = If(IsAbsent(i.path), <<x>>)
      BY <1>4 DEF After, Ensure, CreateDir
    <3>2. ~IsFile(i.path)
      BY <1>1, <1>4 DEF Refuses
    <3> QED
      BY <1>4, <3>1, <3>2, ErrandSets
  <2>2. x.do = (IF i.do = "ensure" THEN "createDir" ELSE "setDir") /\ x.path = i.path
    <3>1. /\ I("createDir", i.path).do = "createDir" /\ I("createDir", i.path).path = i.path
          /\ I("setDir", i.path).do = "setDir" /\ I("setDir", i.path).path = i.path
      BY DEF I
    <3>2. CASE i.do = "ensure"
      BY <3>1, <3>2
    <3>3. CASE i.do # "ensure"
      BY <3>1, <3>3
    <3> QED
      BY <3>2, <3>3
  <2> HIDE DEF x
  <2>3. ASSUME w = <<x>>
        PROVE  w \in Seq(E)
    <3>1. Len(w) = 1 /\ w[1] = x
      BY <2>3
    <3> HIDE DEF w
    <3>2. x \in Doing(c)
      BY SMTT(60), <1>1, <3>1
    <3>3. Prepares(c, i) => Prepares(c, x)
      BY <1>4, <2>2 DEF Prepares
    <3>4. \A f \in Nodes : Mirrors(node, c, i, f) => Mirrors(node, c, x, f)
      BY <1>4, <2>2 DEF Mirrors
    <3>5. x \in E
      BY <3>2, <3>3, <3>4 DEF Errands
    <3> QED
      BY <1>2, <2>3, <3>5
  <2>4. CASE IsAbsent(i.path)
    <3>1. w = <<x>> /\ Len(w) = 1 /\ w[1] = x
      BY <2>1, <2>4 DEF If
    <3>2. \A f : Leads(c, i, f) => Leads(c, x, f)
      BY <1>4, <2>2 DEF Leads
    <3>3. w \in Seq(E)
      BY <2>3, <3>1
    <3> HIDE DEF w
    <3>4. \A f : Leads(c, i, f) => \E m \in 1 .. Len(w) : Leads(c, w[m], f)
      BY <3>1, <3>2
    <3> QED
      BY <1>4, <3>3, <3>4 DEF w
  <2>5. CASE ~IsAbsent(i.path)
    <3>1. w = <<>>
      BY <2>1, <2>5 DEF If
    <3>2. ASSUME NEW f \in Nodes, IsPrefix(c.path, f), Target(f, c.path, c.to) \in Nodes, Leads(c, i, f)
          PROVE  node'[Target(f, c.path, c.to)] = node[f]
      <4>1. i.do = "createDir" /\ i.path = Target(f, c.path, c.to)
        BY <1>4, <3>2 DEF Leads
      <4>2. ~Prepares(c, i)
        BY <3>2, <4>1, ErrandPaths
      <4>3. PICK g \in Nodes : Mirrors(node, c, i, g)
        BY <4>2 DEF Errands
      <4>4. g = f
        BY <3>2, <4>1, <4>3, ErrandPaths DEF Mirrors
      <4>5. node[f] = "dir"
        BY <4>1, <4>3, <4>4 DEF Mirrors
      <4>6. node[i.path] = "dir"
        BY <1>1, <2>1, <2>5, <3>2, <4>1 DEF IsAbsent, IsFile
      <4> QED
        BY <2>1, <4>1, <4>5, <4>6
    <3> QED
      BY <1>2, <1>4, <3>1, <3>2
  <2> QED
    BY <2>4, <2>5
<1> QED
  BY <1>3, <1>4

\* An errand that copies a file goes on with the file.
LEMMA FilingLeaves ==
  ASSUME node \in Trees, NEW c \in Calls, c.op \in {"copy", "move"},
         NEW i \in Errands(node, c), i.do \in {"copyFile", "read", "write"}, Await(i)
  PROVE  /\ After(i) \in Seq(Errands(node, c)) /\ node' = node
         /\ \E x \in Errands(node, c) : /\ After(i) = <<x>> /\ x.do \in Filing
                                        /\ \A f \in Nodes : IsPrefix(c.path, f) /\ Leads(c, i, f) => Leads(c, x, f)
<1> DEFINE w == After(i)
           E == Errands(node, c)
           x == CASE i.do = "copyFile" -> [i EXCEPT !.do = "read"]
                  [] i.do = "read" -> [I("write", i.to) EXCEPT !.data = node[i.path]]
                  [] i.do = "write" -> [i EXCEPT !.do = "setFile"]
<1>1. i \in Doing(c) /\ w \in Seq(Doing(c)) /\ node' = node
  BY AwaitKeeps, ErrandPaths, ErrandSets DEF Body, Trees
<1>2. <<>> \in Seq(E) /\ \A y \in E : <<y>> \in Seq(E)
  BY Programs
<1>3. w = <<x>>
  BY DEF After, CopyFile, ReadFile, WriteFile
<1>4. /\ i.do = "copyFile" => x.do = "read" /\ x.path = i.path /\ x.to = i.to
      /\ i.do = "read" => x.do = "write" /\ x.path = i.to /\ x.data = node[i.path]
      /\ i.do = "write" => x.do = "setFile" /\ x.path = i.path /\ x.data = i.data
  BY <1>1 DEF I, Doing, Work
<1> HIDE DEF x
<1>5. x \in Doing(c)
  <2>1. Len(w) = 1 /\ w[1] = x
    BY <1>3
  <2>2. 1 \in 1 .. Len(w)
    BY <2>1
  <2> DEFINE D == Doing(c)
  <2>3. w \in Seq(D)
    BY <1>1
  <2> HIDE DEF w, D
  <2>4. w[1] \in D
    BY <2>2, <2>3, ElementOfSeq
  <2> QED
    BY <2>1, <2>4 DEF D
<1>6. PICK g \in Nodes : Mirrors(node, c, i, g)
  BY DEF Errands, Prepares
<1>7. Mirrors(node, c, x, g)
  BY <1>4, <1>6 DEF Mirrors
<1>8. x \in E
  BY <1>5, <1>7 DEF Errands
<1>9. ASSUME NEW f \in Nodes, IsPrefix(c.path, f), Leads(c, i, f)
      PROVE  Leads(c, x, f)
  <2>1. CASE i.do = "copyFile"
    BY <1>4, <1>9, <2>1 DEF Leads
  <2>2. CASE i.do = "read"
    <3>1. f = g /\ i.to = Target(g, c.path, c.to)
      BY <1>6, <1>9, <2>2 DEF Leads, Mirrors
    <3> QED
      BY <1>4, <2>2, <3>1 DEF Leads
  <2>3. CASE i.do = "write"
    BY <1>4, <1>9, <2>3 DEF Leads
  <2> QED
    BY <2>1, <2>2, <2>3
<1> QED
  BY <1>1, <1>2, <1>3, <1>4, <1>8, <1>9 DEF Filing

\* The walk of a directory goes on with every entry it has.
LEMMA WalkLeaves ==
  ASSUME node \in Trees, WellFormed(node), NEW c \in Calls, c.op \in {"copy", "move"},
         NEW i \in Errands(node, c), i.do = "walk", Await(i)
  PROVE  /\ After(i) \in Seq(Errands(node, c)) /\ node' = node
         /\ \A f \in Nodes :
              IsPrefix(c.path, f) /\ node[f] # "absent" /\ Leads(c, i, f)
              => \E m \in 1 .. Len(After(i)) : Leads(c, After(i)[m], f)
<1> DEFINE w == After(i)
           E == Errands(node, c)
           q == SetToSeq(Children(i.path))
           n == Len(q)
           to(h) == Target(h, c.path, c.to)
<1>1. i \in Doing(c) /\ w \in Seq(Doing(c)) /\ node' = node
  BY AwaitKeeps, ErrandPaths, ErrandSets DEF Body, Trees
<1>2. /\ n \in Nat /\ \A k \in 1 .. n : q[k] \in Children(i.path)
      /\ \A g \in Children(i.path) : \E k \in 1 .. n : q[k] = g
  BY ListedAll
<1>3. PICK g \in Nodes : Mirrors(node, c, i, g)
  BY DEF Errands, Prepares
<1>4. i.path = g /\ i.to = to(g) /\ IsPrefix(c.path, g) /\ g \in Names
  BY <1>3, NodePaths DEF Mirrors
<1>5. w = [k \in 1 .. n |-> [I(IF IsFile(q[k]) THEN "spawnCopy" ELSE "entryDir", q[k])
                               EXCEPT !.to = Target(q[k], i.path, i.to)]]
  BY DEF After, Walk
<1> HIDE DEF q, n
<1>6. Len(w) = n /\ \A k \in 1 .. n : /\ w[k].do = (IF IsFile(q[k]) THEN "spawnCopy" ELSE "entryDir")
                                      /\ w[k].path = q[k] /\ w[k].to = Target(q[k], i.path, i.to)
  BY <1>2, <1>5 DEF I
<1> HIDE DEF w
<1>7. ASSUME NEW h \in Children(i.path)
      PROVE  /\ h \in Paths /\ h \in Nodes /\ dirname(h) = g /\ IsPrefix(c.path, h)
             /\ Target(h, i.path, i.to) = to(h)
             /\ node[h] # "absent" /\ (~IsFile(h) => node[h] = "dir")
  <2>1. h \in Paths /\ h \in Nodes /\ dirname(h) = g /\ node[h] # "absent"
    BY <1>4, NodePaths DEF Children, IsAbsent
  <2>2. node[h] \in Content \cup {"absent", "dir"}
    BY <2>1 DEF Trees
  <2>3. h \in Names /\ h # <<>> /\ g \in Names /\ c.path \in Names /\ c.to \in Names
    BY <1>4, <2>1, NodePaths, ErrandPaths
  <2>4. Target(h, g, Target(g, c.path, c.to)) = Target(h, c.path, c.to) /\ IsPrefix(c.path, h)
    BY <1>4, <2>1, <2>3, TargetOfEntry
  <2> QED
    BY <1>4, <2>1, <2>2, <2>4 DEF IsFile
<1>8. ASSUME NEW k \in 1 .. n
      PROVE  w[k] \in E
  <2>1. w[k] \in Doing(c)
    <3> DEFINE D == Doing(c)
    <3>1. w \in Seq(D) /\ k \in 1 .. Len(w)
      BY <1>1, <1>6
    <3> HIDE DEF D
    <3>2. w[k] \in D
      BY <3>1, ElementOfSeq
    <3> QED
      BY <3>2 DEF D
  <2>2. q[k] \in Children(i.path)
    BY <1>2
  <2>3. Mirrors(node, c, w[k], q[k])
    <3>1. CASE IsFile(q[k])
      BY <1>6, <1>7, <2>2, <3>1 DEF Mirrors, IsFile
    <3>2. CASE ~IsFile(q[k])
      BY <1>6, <1>7, <2>2, <3>2 DEF Mirrors
    <3> QED
      BY <3>1, <3>2
  <2> QED
    BY <1>7, <2>1, <2>2, <2>3 DEF Errands
<1>9. w \in Seq(E)
  <2> HIDE DEF E
  <2>1. w = [k \in 1 .. n |-> w[k]]
    BY <1>5 DEF w
  <2>2. w \in [1 .. n -> E]
    BY <1>8, <2>1
  <2> QED
    BY <1>2, <2>2, Programs
<1>10. ASSUME NEW f \in Nodes, IsPrefix(c.path, f), node[f] # "absent", Leads(c, i, f)
       PROVE  \E m \in 1 .. Len(w) : Leads(c, w[m], f)
  <2>1. IsPrefix(g, f) /\ g # f
    BY <1>4, <1>10 DEF Leads
  <2>2. PICK h \in Paths : dirname(h) = g /\ IsPrefix(h, f)
    BY <2>1, WayDown
  <2>3. h \in Nodes /\ (h # f => node[h] = "dir")
    BY <1>10, <2>2, FormBelow, NodePaths
  <2>4. h \in Children(i.path)
    <3>1. node[h] # "absent"
      BY <1>10, <2>3
    <3> QED
      BY <1>4, <2>2, <3>1 DEF Children, IsAbsent
  <2>5. PICK k \in 1 .. n : q[k] = h
    BY <1>2, <2>4
  <2>6. Leads(c, w[k], f)
    <3>1. CASE IsFile(h)
      <4>1. h = f
        BY <2>3, <3>1, FacadeAssumption DEF IsFile
      <4> QED
        BY <1>6, <2>5, <3>1, <4>1 DEF Leads
    <3>2. CASE ~IsFile(h)
      BY <1>6, <2>2, <2>5, <3>2 DEF Leads
    <3> QED
      BY <3>1, <3>2
  <2> QED
    BY <1>6, <2>6
<1> QED
  BY <1>1, <1>9, <1>10 DEF w

\* An await of a copy goes on with errands, and leaves nothing of its own uncopied.
LEMMA ErrandLeaves ==
  ASSUME node \in Trees, WellFormed(node), NEW c \in Calls, c.op \in {"copy", "move"},
         NEW i \in Errands(node, c), Await(i)
  PROVE  /\ After(i) \in Seq(Errands(node, c))
         /\ i.do \in Filing => \/ After(i) = <<>>
                               \/ \E x \in Errands(node, c) : After(i) = <<x>> /\ x.do \in Filing
         /\ \A f \in Nodes :
              /\ IsPrefix(c.path, f) /\ node[f] # "absent" /\ Target(f, c.path, c.to) \in Nodes
              /\ Leads(c, i, f)
              => \/ node'[Target(f, c.path, c.to)] = node[f]
                 \/ \E m \in 1 .. Len(After(i)) : Leads(c, After(i)[m], f)
<1>1. CASE i.do \in {"ensure", "createDir", "setDir", "setFile"}
  BY <1>1, MakingLeaves DEF Filing
<1>2. CASE i.do \in {"copyFile", "read", "write"}
  <2>1. /\ After(i) \in Seq(Errands(node, c))
        /\ \E x \in Errands(node, c) : /\ After(i) = <<x>> /\ x.do \in Filing
                                       /\ \A f \in Nodes : IsPrefix(c.path, f) /\ Leads(c, i, f) => Leads(c, x, f)
    BY <1>2, FilingLeaves
  <2>2. PICK x \in Errands(node, c) :
          /\ After(i) = <<x>> /\ x.do \in Filing
          /\ \A f \in Nodes : IsPrefix(c.path, f) /\ Leads(c, i, f) => Leads(c, x, f)
    BY <2>1
  <2>3. Len(After(i)) = 1 /\ After(i)[1] = x
    BY <2>2
  <2>4. 1 \in 1 .. Len(After(i))
    BY <2>3
  <2>5. ASSUME NEW f \in Nodes, IsPrefix(c.path, f), Leads(c, i, f)
        PROVE  \E m \in 1 .. Len(After(i)) : Leads(c, After(i)[m], f)
    BY <2>2, <2>3, <2>4, <2>5
  <2> QED
    BY <2>1, <2>2, <2>5
<1>3. CASE i.do = "walk"
  <2>1. i.do \notin Filing
    BY <1>3 DEF Filing
  <2> QED
    BY <1>3, <2>1, WalkLeaves
<1>4. i.do \in {"ensure", "createDir", "setDir", "setFile", "copyFile", "read", "write", "walk"}
  <2>1. i.do \notin {"entryDir", "spawnCopy"}
    BY DEF Await, Read, Reads, SetRecord, Delete
  <2> QED
    BY <2>1 DEF Errands, Prepares, Mirrors
<1> QED
  BY <1>1, <1>2, <1>3, <1>4

----------------------------------------------------------------------------
(* A copy that has cleared its destination: its own program and those of   *)
(* its children, side by side.                                             *)

\* The awaits a call and its children are about to run, or will later.
Jobs(b, k) == {b[j] : j \in 1 .. Len(b)} \cup {x[1] : x \in k}

\* Every entry of the source is copied or has an await that leads to it, and
\* nothing else lies at the destination.
Copied(t, c, b, k) ==
  /\ \A f \in Nodes :
       IsPrefix(c.path, f) /\ t[f] # "absent" /\ Target(f, c.path, c.to) \in Nodes
       => t[Target(f, c.path, c.to)] = t[f] \/ \E i \in Jobs(b, k) : Leads(c, i, f)
  /\ \A g \in Nodes :
       IsPrefix(c.to, g) /\ t[g] # "absent"
       => \E f \in Nodes : IsPrefix(c.path, f) /\ t[f] # "absent" /\ g = Target(f, c.path, c.to)

\* e: the copy has failed, and only has to leave a well-formed tree.
CopyWorks(t, c, b, k, e) ==
  /\ b \in Seq(Errands(t, c)) /\ Building(t, b)
  /\ \A x \in k : \E i \in Errands(t, c) : x = <<i>> /\ i.do \in Filing /\ Building(t, x)
  /\ e \/ Copied(t, c, b, k)

\* What is left to do when the first await of b is replaced by w.
LEMMA JobsMove ==
  ASSUME NEW S, NEW b \in Seq(S), b # <<>>, NEW w \in Seq(S), NEW k
  PROVE  /\ Jobs(b, k) \subseteq {Head(b)} \cup Jobs(w \o Tail(b), k)
         /\ \A m \in 1 .. Len(w) : w[m] \in Jobs(w \o Tail(b), k)
<1> DEFINE r == w \o Tail(b)
           m == Len(w)
           n == Len(b)
<1>1. /\ m \in Nat /\ n \in Nat \ {0} /\ Head(b) = b[1]
      /\ \A j \in 1 .. m : j \in 1 .. Len(r) /\ r[j] = w[j]
      /\ \A j \in 2 .. n : m + (j - 1) \in 1 .. Len(r) /\ r[m + (j - 1)] = b[j]
  BY Spliced
<1> HIDE DEF r, m, n
<1>2. ASSUME NEW j \in 1 .. n
      PROVE  b[j] \in {Head(b)} \cup Jobs(r, k)
  <2>1. CASE j = 1
    BY <1>1, <2>1
  <2>2. CASE j # 1
    <3>1. j \in 2 .. n
      BY <1>1, <2>2
    <3> QED
      BY <1>1, <3>1 DEF Jobs
  <2> QED
    BY <2>1, <2>2
<1>3. \A j \in 1 .. m : w[j] \in Jobs(r, k)
  BY <1>1 DEF Jobs
<1>4. Jobs(b, k) \subseteq {Head(b)} \cup Jobs(r, k)
  BY <1>2 DEF Jobs, n
<1> QED
  BY <1>3, <1>4 DEF r, m

\* What the step of an errand does for the entries it does not lead to.
LEMMA CopiedGoesOn ==
  ASSUME NEW t, NEW u, NEW c \in Calls, c.op \in {"copy", "move"}, NEW i \in Errands(t, c),
         NEW b, NEW k, NEW v, NEW l, Copied(t, c, b, k), SourceStays(c, t, u),
         Jobs(b, k) \subseteq {i} \cup Jobs(v, l),
         SetsOne(t, u, i), LedOn(t, u, c, i, Jobs(v, l)),
         "dir" # "absent", "absent" \notin Content
  PROVE  Copied(u, c, v, l)
<1> DEFINE to(f) == Target(f, c.path, c.to)
<1>1. \A f \in Nodes : IsPrefix(c.path, f) => u[f] = t[f]
  BY DEF SourceStays
<1>2. ASSUME NEW g \in Nodes, u[g] # t[g]
      PROVE  \/ Prepares(c, i) /\ g = i.path
             \/ \E f \in Nodes : IsPrefix(c.path, f) /\ t[f] # "absent" /\ g = to(f) /\ u[g] = t[f]
  <2>1. /\ g = i.path
        /\ (i.do = "setDir" /\ u[g] = "dir") \/ (i.do = "setFile" /\ u[g] = i.data)
    BY <1>2 DEF SetsOne
  <2>2. CASE ~Prepares(c, i)
    <3>1. PICK f \in Nodes : Mirrors(t, c, i, f)
      BY <2>2 DEF Errands
    <3>2. IsPrefix(c.path, f) /\ g = to(f) /\ u[g] = t[f] /\ t[f] # "absent"
      BY <2>1, <3>1 DEF Mirrors
    <3> QED
      BY <3>2
  <2> QED
    BY <2>1, <2>2
<1>3. ASSUME NEW f \in Nodes, IsPrefix(c.path, f), u[f] # "absent", to(f) \in Nodes
      PROVE  u[to(f)] = u[f] \/ \E y \in Jobs(v, l) : Leads(c, y, f)
  <2>1. u[f] = t[f] /\ t[f] # "absent"
    BY <1>1, <1>3
  <2>2. t[to(f)] = t[f] \/ \E y \in Jobs(b, k) : Leads(c, y, f)
    BY <1>3, <2>1 DEF Copied
  <2>3. CASE t[to(f)] = t[f] /\ u[to(f)] # t[to(f)]
    <3>1. ~(Prepares(c, i) /\ to(f) = i.path)
      BY <1>3, ErrandPaths
    <3>2. PICK h \in Nodes : IsPrefix(c.path, h) /\ to(f) = to(h) /\ u[to(f)] = t[h]
      BY <1>2, <1>3, <2>3, <3>1
    <3>3. h = f
      BY <1>3, <3>2, ErrandPaths
    <3> QED
      BY <2>1, <3>2, <3>3
  <2>4. CASE t[to(f)] = t[f] /\ u[to(f)] = t[to(f)]
    BY <2>1, <2>4
  <2>5. CASE \E y \in Jobs(b, k) : Leads(c, y, f)
    <3>1. PICK y \in Jobs(b, k) : Leads(c, y, f)
      BY <2>5
    <3>2. CASE y \in Jobs(v, l)
      BY <3>1, <3>2
    <3>3. CASE y = i
      BY <1>3, <2>1, <3>1, <3>3 DEF LedOn
    <3> QED
      BY <3>2, <3>3
  <2> QED
    BY <2>2, <2>3, <2>4, <2>5
<1>4. ASSUME NEW g \in Nodes, IsPrefix(c.to, g), u[g] # "absent"
      PROVE  \E f \in Nodes : IsPrefix(c.path, f) /\ u[f] # "absent" /\ g = to(f)
  <2>1. CASE u[g] = t[g]
    <3>1. PICK f \in Nodes : IsPrefix(c.path, f) /\ t[f] # "absent" /\ g = to(f)
      BY <1>4, <2>1 DEF Copied
    <3> QED
      BY <1>1, <3>1
  <2>2. CASE u[g] # t[g]
    <3>1. ~(Prepares(c, i) /\ g = i.path)
      <4> SUFFICES ASSUME Prepares(c, i), g = i.path
                   PROVE  FALSE
        OBVIOUS
      <4>1. c.path \in Nodes /\ c.path \in Names /\ IsPrefix(c.path, c.path) /\ to(c.path) = c.to
            /\ c.to \in Names /\ g \in Names
        <5>1. c.path \in Nodes /\ c.path \in Names /\ c.to \in Names /\ g \in Names
          BY ErrandPaths, NodePaths
        <5>2. IsPrefix(c.path, c.path)
          BY <5>1, PrefixByName, LenProperties DEF Names
        <5> QED
          BY <5>1, <5>2, Targets
      <4>2. IsPrefix(g, c.to) /\ g # c.to
        BY DEF Prepares
      <4>3. /\ Len(g) <= Len(c.to) /\ Len(c.to) <= Len(g)
            /\ \A j \in 1 .. Len(g) : g[j] = c.to[j]
        BY <1>4, <4>1, <4>2, PrefixByName
      <4>4. Len(g) = Len(c.to)
        BY <4>1, <4>3, LenProperties DEF Names
      <4> QED
        BY <4>1, <4>2, <4>3, <4>4, SeqEqual DEF Names
    <3>2. PICK f \in Nodes : IsPrefix(c.path, f) /\ t[f] # "absent" /\ g = to(f)
      BY <1>2, <2>2, <3>1
    <3> QED
      BY <1>1, <3>2
  <2> QED
    BY <2>1, <2>2
<1> HIDE DEF to
<1> QED
  BY <1>3, <1>4 DEF Copied, to

\* The first await of a building program has its directory.
LEMMA BuildHead ==
  ASSUME NEW S, NEW t, NEW q \in Seq(S), q # <<>>, Building(t, q)
  PROVE  /\ Head(q) \in S /\ Tail(q) \in Seq(S) /\ Head(q).do \in Builds
         /\ Place(Head(q)) \in Nodes => t[Place(Head(q))] = "dir"
         /\ Head(q).do = "setFile" => (Head(q).path \in Nodes => t[Head(q).path] # "dir")
<1>1. Len(q) \in Nat \ {0} /\ Head(q) = q[1] /\ Head(q) \in S /\ Tail(q) \in Seq(S)
  BY EmptySeq, LenProperties, HeadTailProperties
<1>2. 1 \in 1 .. Len(q) /\ ~\E m \in 1 .. 1 - 1 : Gives(q[m], Place(q[1]))
  BY <1>1
<1> QED
  BY <1>1, <1>2 DEF Building

\* No errand makes a directory where another one is about to set a file.
LEMMA FilesStay ==
  ASSUME node \in Trees, NEW c \in Calls, c.op \in {"copy", "move"},
         NEW i \in Errands(node, c), Await(i), NEW y \in Errands(node, c), y.do = "setFile",
         y.path \in Nodes, node[y.path] # "dir"
  PROVE  node'[y.path] # "dir"
<1> SUFFICES ASSUME node'[y.path] = "dir"
             PROVE  FALSE
  OBVIOUS
<1>1. i.data \in Content /\ "dir" \notin Content
  BY FacadeAssumption DEF Errands, Doing, Work
<1>2. y.path = i.path /\ i.do = "setDir"
  BY <1>1, ErrandSets DEF SetsOne
<1>3. PICK f \in Nodes : Mirrors(node, c, y, f)
  BY DEF Errands, Prepares
<1>4. y.path = Target(f, c.path, c.to) /\ node[f] \in Content /\ IsPrefix(c.path, f)
  BY <1>3 DEF Mirrors
<1>5. ~Prepares(c, i)
  BY <1>2, <1>4, ErrandPaths
<1>6. PICK h \in Nodes : Mirrors(node, c, i, h)
  BY <1>5 DEF Errands
<1>7. i.path = Target(h, c.path, c.to) /\ node[h] = "dir" /\ IsPrefix(c.path, h)
  BY <1>2, <1>6 DEF Mirrors
<1>8. h = f
  BY <1>2, <1>4, <1>7, ErrandPaths
<1> QED
  BY <1>1, <1>4, <1>7, <1>8

\* Whoever runs an errand, the programs beside it still build.
LEMMA BesideBuilds ==
  ASSUME node \in Trees, NEW c \in Calls, c.op \in {"copy", "move"},
         NEW i \in Errands(node, c), Await(i), DirsStay(node, node'),
         NEW q \in Seq(Errands(node, c)), Building(node, q)
  PROVE  Building(node', q)
<1>1. ASSUME NEW j \in 1 .. Len(q), q[j].do = "setFile", q[j].path \in Nodes
      PROVE  node'[q[j].path] # "dir"
  <2>1. q[j] \in Errands(node, c)
    <3> DEFINE E == Errands(node, c)
    <3>1. q \in Seq(E)
      OBVIOUS
    <3> HIDE DEF E
    <3>2. q[j] \in E
      BY <3>1, ElementOfSeq
    <3> QED
      BY <3>2 DEF E
  <2>2. node[q[j].path] # "dir"
    BY <1>1 DEF Building
  <2> QED
    BY <1>1, <2>1, <2>2, FilesStay
<1> QED
  BY <1>1, BuildStays

\* The method of the copy runs an await.
LEMMA CopyMain ==
  ASSUME node \in Trees, WellFormed(node), NEW c \in Calls, c.op \in {"copy", "move"},
         NEW b, NEW k, NEW e, CopyWorks(node, c, b, k, e), b # <<>>, Await(Head(b))
  PROVE  WellFormed(node') /\ CopyWorks(node', c, After(Head(b)) \o Tail(b), k, e)
<1> DEFINE E == Errands(node, c)
           i == Head(b)
           w == After(i)
           r == w \o Tail(b)
<1>1. b \in Seq(E) /\ Building(node, b)
  BY DEF CopyWorks
<1>2. /\ i \in E /\ Tail(b) \in Seq(E) /\ i.do \in Builds
      /\ Place(i) \in Nodes => node[Place(i)] = "dir"
      /\ i.do = "setFile" => (i.path \in Nodes => node[i.path] # "dir")
  BY <1>1, BuildHead
<1>3. i \in Doing(c)
  BY <1>2, ErrandPaths
<1>4. /\ Building(node', w) /\ WellFormed(node') /\ DirsStay(node, node')
      /\ \A f \in Nodes : Gives(i, f) => node'[f] = "dir" \/ \E m \in 1 .. Len(w) : Gives(w[m], f)
  BY <1>2, <1>3, BuildLeaves
<1>5. /\ w \in Seq(E)
      /\ \A f \in Nodes :
           /\ IsPrefix(c.path, f) /\ node[f] # "absent" /\ Target(f, c.path, c.to) \in Nodes
           /\ Leads(c, i, f)
           => \/ node'[Target(f, c.path, c.to)] = node[f]
              \/ \E m \in 1 .. Len(w) : Leads(c, w[m], f)
  BY <1>2, ErrandLeaves
<1>6. /\ SourceStays(c, node, node')
      /\ SetsOne(node, node', i)
  BY <1>2, ErrandSets
<1>7. Errands(node', c) = E
  BY <1>6, ErrandsStay
<1>8. \A x \in k : \E y \in E : x = <<y>> /\ y.do \in Filing /\ Building(node', x)
  <2> SUFFICES ASSUME NEW x \in k
               PROVE  \E y \in E : x = <<y>> /\ y.do \in Filing /\ Building(node', x)
    OBVIOUS
  <2>1. PICK y \in E : x = <<y>> /\ y.do \in Filing /\ Building(node, x)
    BY DEF CopyWorks
  <2>2. x \in Seq(E)
    BY <2>1, Programs
  <2>3. Building(node', x)
    BY <1>2, <1>4, <2>1, <2>2, BesideBuilds
  <2> QED
    BY <2>1, <2>3
<1> HIDE DEF E, w, i
<1>9. Building(node', r) /\ r \in Seq(E)
  <2>1. Building(node', r)
    BY <1>1, <1>4, <1>5, BuildGoesOn DEF i
  <2> QED
    BY <1>2, <1>5, <2>1, Programs
<1>10. Jobs(b, k) \subseteq {i} \cup Jobs(r, k) /\ \A m \in 1 .. Len(w) : w[m] \in Jobs(r, k)
  BY <1>1, <1>5, JobsMove DEF i
<1>11. ASSUME ~e
       PROVE  Copied(node', c, r, k)
  <2>1. Copied(node, c, b, k)
    BY <1>11 DEF CopyWorks
  <2>2. "dir" # "absent" /\ "absent" \notin Content
    BY FacadeAssumption
  <2>3. LedOn(node, node', c, i, Jobs(r, k))
    BY <1>5, <1>10 DEF LedOn
  <2>4. i \in Errands(node, c)
    BY <1>2 DEF E
  <2> HIDE DEF r
  <2> QED
    BY <1>6, <1>10, <2>1, <2>2, <2>3, <2>4, CopiedGoesOn
<1> HIDE DEF r
<1>12. CopyWorks(node', c, r, k, e)
  BY <1>7, <1>8, <1>9, <1>11 DEF CopyWorks
<1> QED
  BY <1>4, <1>12 DEF r, w, i

\* A child of the copy runs an await.
LEMMA CopyKid ==
  ASSUME node \in Trees, WellFormed(node), NEW c \in Calls, c.op \in {"copy", "move"},
         NEW b, NEW k, NEW e, CopyWorks(node, c, b, k, e), NEW x \in k, Await(Head(x)),
         NEW l, l = (k \ {x}) \cup ({After(Head(x)) \o Tail(x)} \ {<<>>})
  PROVE  WellFormed(node') /\ CopyWorks(node', c, b, l, e)
<1> DEFINE E == Errands(node, c)
<1>1. PICK i \in E : x = <<i>> /\ i.do \in Filing /\ Building(node, x)
  BY DEF CopyWorks
<1> DEFINE w == After(i)
<1>2. Head(x) = i /\ Tail(x) = <<>> /\ x # <<>> /\ x \in Seq(E) /\ x[1] = i
  BY <1>1
<1>3. /\ i.do \in Builds /\ (Place(i) \in Nodes => node[Place(i)] = "dir")
      /\ i.do = "setFile" => (i.path \in Nodes => node[i.path] # "dir")
  <2> HIDE DEF E
  <2> QED
    BY <1>1, <1>2, BuildHead
<1>4. i \in Doing(c) /\ Await(i)
  BY <1>2, ErrandPaths
<1>5. Building(node', w) /\ WellFormed(node') /\ DirsStay(node, node')
  BY <1>3, <1>4, BuildLeaves
<1>6. /\ w = <<>> \/ \E y \in E : w = <<y>> /\ y.do \in Filing
      /\ \A f \in Nodes :
           /\ IsPrefix(c.path, f) /\ node[f] # "absent" /\ Target(f, c.path, c.to) \in Nodes
           /\ Leads(c, i, f)
           => \/ node'[Target(f, c.path, c.to)] = node[f]
              \/ \E m \in 1 .. Len(w) : Leads(c, w[m], f)
  BY <1>1, <1>4, ErrandLeaves
<1>7. /\ SourceStays(c, node, node')
      /\ SetsOne(node, node', i)
  BY <1>4, ErrandSets
<1>8. Errands(node', c) = E
  BY <1>7, ErrandsStay
<1>9. w \o Tail(x) = w
  <2>1. w \in Seq(E)
    BY <1>6, Programs
  <2> HIDE DEF w, E
  <2>2. w \o <<>> = w
    BY <2>1, ConcatEmptySeq
  <2> QED
    BY <1>2, <2>2
<1>10. l = (k \ {x}) \cup ({w} \ {<<>>})
  BY <1>2, <1>9
<1>11. \A z \in l : \E y \in E : z = <<y>> /\ y.do \in Filing /\ Building(node', z)
  <2> SUFFICES ASSUME NEW z \in l
               PROVE  \E y \in E : z = <<y>> /\ y.do \in Filing /\ Building(node', z)
    OBVIOUS
  <2>1. CASE z \in k
    <3>1. PICK y \in E : z = <<y>> /\ y.do \in Filing /\ Building(node, z)
      BY <2>1 DEF CopyWorks
    <3>2. z \in Seq(E)
      BY <3>1, Programs
    <3>3. Building(node', z)
      BY <1>4, <1>5, <3>1, <3>2, BesideBuilds
    <3> QED
      BY <3>1, <3>3
  <2>2. CASE z = w /\ w # <<>>
    BY <1>5, <1>6, <2>2
  <2> QED
    BY <1>10, <2>1, <2>2
<1>12. b \in Seq(E) /\ Building(node', b)
  <2>1. b \in Seq(E) /\ Building(node, b)
    BY DEF CopyWorks
  <2> QED
    BY <1>4, <1>5, <2>1, BesideBuilds
<1>13. Jobs(b, k) \subseteq {i} \cup Jobs(b, l)
  BY <1>2, <1>10 DEF Jobs
<1>14. \A m \in 1 .. Len(w) : w[m] \in Jobs(b, l)
  <2>1. CASE w = <<>>
    BY <2>1, EmptySeq
  <2>2. CASE w # <<>>
    <3>1. PICK y \in E : w = <<y>>
      BY <1>6, <2>2
    <3>2. Len(w) = 1 /\ \A m \in 1 .. 1 : m = 1
      BY <3>1
    <3> HIDE DEF w
    <3>3. w \in l
      BY <1>10, <2>2
    <3> QED
      BY <3>2, <3>3 DEF Jobs
  <2> QED
    BY <2>1, <2>2
<1> HIDE DEF w, E
<1>15. ASSUME ~e
       PROVE  Copied(node', c, b, l)
  <2>1. Copied(node, c, b, k)
    BY <1>15 DEF CopyWorks
  <2>2. "dir" # "absent" /\ "absent" \notin Content
    BY FacadeAssumption
  <2>3. LedOn(node, node', c, i, Jobs(b, l))
    BY <1>6, <1>14 DEF LedOn
  <2>4. i \in Errands(node, c)
    BY <1>1 DEF E
  <2> QED
    BY <1>7, <1>13, <2>1, <2>2, <2>3, <2>4, CopiedGoesOn
<1>16. CopyWorks(node', c, b, l, e)
  BY <1>8, <1>11, <1>12, <1>15 DEF CopyWorks
<1> QED
  BY <1>5, <1>16

\* The copy starts a child for a file.
LEMMA CopySpawns ==
  ASSUME NEW t, NEW c \in Calls, c.op \in {"copy", "move"},
         NEW b, NEW k, NEW e, CopyWorks(t, c, b, k, e), b # <<>>, Head(b).do = "spawnCopy"
  PROVE  CopyWorks(t, c, <<>> \o Tail(b), k \cup {<<[Head(b) EXCEPT !.do = "copyFile"]>>}, e)
<1> DEFINE E == Errands(t, c)
           i == Head(b)
           x == [i EXCEPT !.do = "copyFile"]
           w == <<>>
           r == w \o Tail(b)
           l == k \cup {<<x>>}
<1>1. b \in Seq(E) /\ Building(t, b)
  BY DEF CopyWorks
<1>2. /\ i \in E /\ Tail(b) \in Seq(E) /\ (Place(i) \in Nodes => t[Place(i)] = "dir")
  <2> HIDE DEF E
  <2> QED
    BY <1>1, BuildHead
<1>3. i \in Doing(c) /\ i.do = "spawnCopy"
  BY <1>2, ErrandPaths
<1>4. x \in E /\ x.do = "copyFile" /\ x.path = i.path /\ x.to = i.to
  <2>1. x.do = "copyFile" /\ x.path = i.path /\ x.to = i.to
    BY <1>3 DEF Doing, Work
  <2>2. x \in Doing(c)
    <3>1. Ground(Zone(c), DeepZone(c)) /\ "copyFile" \in Copies /\ "spawnCopy" \in Copies
          /\ "spawnCopy" \notin Makes /\ "spawnCopy" \notin Clears /\ "copyFile" \in Deeds
      BY Grounds DEF Copies, Makes, Clears, Deeds
    <3>2. i.to \in DeepZone(c)
      BY <1>3, <3>1 DEF Doing, Work
    <3> QED
      BY <1>3, <3>1, <3>2, RenamedWork DEF Doing
  <2>3. PICK f \in Nodes : Mirrors(t, c, i, f)
    BY <1>2, <1>3 DEF Errands, Prepares
  <2> HIDE DEF x
  <2>4. Mirrors(t, c, x, f)
    BY <1>3, <2>1, <2>3 DEF Mirrors
  <2> QED
    BY <2>1, <2>2, <2>4 DEF Errands
<1> HIDE DEF x
<1>5. Place(x) = Place(i) /\ x.do \in Builds /\ x.do # "setFile"
  BY <1>3, <1>4 DEF Place, Builds
<1>6. Building(t, <<x>>)
  BY <1>2, <1>5, BuildOne
<1>7. w \in Seq(E) /\ Len(w) = 0 /\ Building(t, w) /\ DirsStay(t, t)
  BY Programs, BuildNone DEF DirsStay
<1>8. \A f : ~Gives(i, f)
  BY <1>3 DEF Gives
<1> HIDE DEF E, w
<1>9. Building(t, r) /\ r \in Seq(E)
  <2>1. Building(t, r)
    BY <1>1, <1>7, <1>8, BuildGoesOn
  <2> QED
    BY <1>2, <1>7, <2>1, Programs
<1>10. l = k \cup {<<x>>}
  OBVIOUS
<1>11. \A z \in l : \E y \in E : z = <<y>> /\ y.do \in Filing /\ Building(t, z)
  BY <1>4, <1>6, <1>10 DEF CopyWorks, Filing, E
<1>12. Jobs(b, k) \subseteq {i} \cup Jobs(r, k)
  BY <1>1, <1>7, JobsMove
<1>13. Jobs(r, k) \subseteq Jobs(r, l) /\ x \in Jobs(r, l)
  <2>1. <<x>>[1] = x /\ <<x>> \in l
    BY <1>10
  <2> DEFINE z == <<x>>
  <2>2. z[1] = x /\ z \in l
    BY <2>1
  <2> HIDE DEF z
  <2>3. x \in Jobs(r, l)
    BY <2>2 DEF Jobs
  <2> QED
    BY <1>10, <2>3 DEF Jobs
<1> HIDE DEF i, r, l
<1>14. ASSUME ~e
       PROVE  Copied(t, c, r, l)
  <2>1. Copied(t, c, b, k) /\ i \in Errands(t, c)
    BY <1>2, <1>14 DEF CopyWorks, E
  <2>2. "dir" # "absent" /\ "absent" \notin Content
    BY FacadeAssumption
  <2>3. \A f : Leads(c, i, f) => Leads(c, x, f)
    BY <1>3, <1>4 DEF Leads
  <2>4. LedOn(t, t, c, i, Jobs(r, l)) /\ SetsOne(t, t, i) /\ SourceStays(c, t, t)
    BY <1>13, <2>3 DEF LedOn, SetsOne, SourceStays
  <2>5. Jobs(b, k) \subseteq {i} \cup Jobs(r, l)
    BY <1>12, <1>13
  <2> QED
    BY <2>1, <2>2, <2>4, <2>5, CopiedGoesOn
<1>15. CopyWorks(t, c, r, l, e)
  BY <1>9, <1>11, <1>14 DEF CopyWorks, E
<1> QED
  BY <1>15 DEF r, w, l, x, i

\* The walk takes a directory: it is created, and walked in turn.
LEMMA CopyEnters ==
  ASSUME NEW t, NEW c \in Calls, c.op \in {"copy", "move"},
         NEW b, NEW k, NEW e, CopyWorks(t, c, b, k, e), b # <<>>, Head(b).do = "entryDir"
  PROVE  CopyWorks(t, c, <<I("createDir", Head(b).to), [Head(b) EXCEPT !.do = "walk"]>> \o Tail(b), k, e)
<1> DEFINE E == Errands(t, c)
           i == Head(b)
           x == I("createDir", i.to)
           y == [i EXCEPT !.do = "walk"]
           w == <<x, y>>
           r == w \o Tail(b)
<1>1. b \in Seq(E) /\ Building(t, b)
  BY DEF CopyWorks
<1>2. /\ i \in E /\ Tail(b) \in Seq(E) /\ (Place(i) \in Nodes => t[Place(i)] = "dir")
  <2> HIDE DEF E
  <2> QED
    BY <1>1, BuildHead
<1>3. i \in Doing(c) /\ i.do = "entryDir"
  BY <1>2, ErrandPaths
<1>4. /\ x.do = "createDir" /\ x.path = i.to
      /\ y.do = "walk" /\ y.path = i.path /\ y.to = i.to
  BY <1>3 DEF Doing, Work, I
<1>5. x \in Doing(c) /\ y \in Doing(c)
  <2>1. /\ Ground(Zone(c), DeepZone(c)) /\ "walk" \in Copies /\ "entryDir" \in Copies
        /\ "entryDir" \notin Makes /\ "entryDir" \notin Clears /\ "walk" \in Deeds
        /\ "createDir" \in Makes
    BY Grounds DEF Copies, Makes, Clears, Deeds
  <2>2. i.to \in DeepZone(c)
    BY <1>3, <2>1 DEF Doing, Work
  <2>3. y \in Doing(c)
    BY <1>3, <2>1, <2>2, RenamedWork DEF Doing
  <2>4. i.to \in Zone(c)
    BY <2>1, <2>2 DEF Ground
  <2>5. x \in Doing(c)
    <3>1. i.to \in Names /\ "createDir" \in Deeds /\ "old" \in Content
      BY <2>1, <2>2, <2>4 DEF Ground, Deeds, Content
    <3> QED
      BY <1>4, <2>1, <2>4, <3>1 DEF Doing, Work, I
  <2> QED
    BY <2>3, <2>5
<1> HIDE DEF x, y
<1>6. x \in E /\ y \in E
  <2>1. PICK f \in Nodes : Mirrors(t, c, i, f)
    BY <1>2, <1>3 DEF Errands, Prepares
  <2>2. Mirrors(t, c, x, f) /\ Mirrors(t, c, y, f)
    BY <1>3, <1>4, <2>1 DEF Mirrors
  <2> QED
    BY <1>5, <2>2 DEF Errands
<1>7. w \in Seq(E) /\ Len(w) = 2 /\ w[1] = x /\ w[2] = y
  <2> HIDE DEF E
  <2> QED
    BY <1>6, Programs
<1> HIDE DEF E, w, i
<1>8. Place(x) = Place(i) /\ Place(y) = i.to /\ Gives(x, i.to) /\ x.do \in Builds /\ y.do \in Builds
      /\ x.do # "setFile" /\ y.do # "setFile"
  BY <1>3, <1>4 DEF Place, Gives, Builds
<1>9. Building(t, w) /\ DirsStay(t, t)
  <2>1. ASSUME NEW j \in 1 .. Len(w)
        PROVE  /\ w[j].do \in Builds
               /\ Place(w[j]) \in Nodes =>
                    t[Place(w[j])] = "dir" \/ \E m \in 1 .. j - 1 : Gives(w[m], Place(w[j]))
               /\ w[j].do # "setFile"
    <3>1. j = 1 \/ j = 2
      BY <1>7
    <3>2. j = 2 => 1 \in 1 .. j - 1
      OBVIOUS
    <3> QED
      BY <1>2, <1>7, <1>8, <3>1, <3>2
  <2> QED
    BY <2>1 DEF Building, DirsStay
<1>10. \A f : ~Gives(i, f)
  BY <1>3 DEF Gives
<1>11. Building(t, r) /\ r \in Seq(E)
  <2>1. Building(t, r)
    BY <1>1, <1>7, <1>9, <1>10, BuildGoesOn DEF i
  <2> QED
    BY <1>2, <1>7, <2>1, Programs
<1>12. Jobs(b, k) \subseteq {i} \cup Jobs(r, k) /\ \A m \in 1 .. Len(w) : w[m] \in Jobs(r, k)
  BY <1>1, <1>7, JobsMove DEF i
<1>13. x \in Jobs(r, k) /\ y \in Jobs(r, k)
  <2>1. 1 \in 1 .. Len(w) /\ 2 \in 1 .. Len(w)
    BY <1>7
  <2> QED
    BY <1>7, <1>12, <2>1
<1> HIDE DEF r
<1>14. ASSUME ~e
       PROVE  Copied(t, c, r, k)
  <2>1. Copied(t, c, b, k) /\ i \in Errands(t, c)
    BY <1>2, <1>14 DEF CopyWorks, E
  <2>2. "dir" # "absent" /\ "absent" \notin Content
    BY FacadeAssumption
  <2>3. PICK g \in Nodes : Mirrors(t, c, i, g)
    BY <1>3, <2>1 DEF Errands, Prepares
  <2>4. i.path = g /\ i.to = Target(g, c.path, c.to)
    BY <1>3, <2>3 DEF Mirrors
  <2>5. \A f : Leads(c, i, f) => Leads(c, x, f) \/ Leads(c, y, f)
    BY <1>3, <1>4, <2>4 DEF Leads
  <2>6. LedOn(t, t, c, i, Jobs(r, k)) /\ SetsOne(t, t, i) /\ SourceStays(c, t, t)
    BY <1>13, <2>5 DEF LedOn, SetsOne, SourceStays
  <2> QED
    BY <1>12, <2>1, <2>2, <2>6, CopiedGoesOn
<1>15. \A z \in k : \E v \in E : z = <<v>> /\ v.do \in Filing /\ Building(t, z)
  BY DEF CopyWorks, E
<1>16. CopyWorks(t, c, r, k, e)
  BY <1>11, <1>14, <1>15 DEF CopyWorks, E
<1> QED
  BY <1>16 DEF r, w, x, y, i

\* A copy that has failed waits for the children that are left.
LEMMA CopyEnds ==
  ASSUME NEW t, NEW c, NEW b, NEW k, NEW e, CopyWorks(t, c, b, k, e), NEW l \in SUBSET k
  PROVE  CopyWorks(t, c, b, l, TRUE) /\ CopyWorks(t, c, <<>>, l, TRUE)
BY Programs, BuildNone DEF CopyWorks

\* What copy(from, to) does first, and what it does once the destination is cleared.
SourceOf(c) == [I("source", c.path) EXCEPT !.to = c.to, !.flag = c.flag]

Into(t, c) ==
  EnsureParents(dirname(c.to)) \o
  (IF t[c.path] \in Content THEN <<[SourceOf(c) EXCEPT !.do = "copyFile"]>>
   ELSE <<I("createDir", c.to), [SourceOf(c) EXCEPT !.do = "walk"]>>)

\* The parts of the second half of a copy.
LEMMA IntoParts ==
  ASSUME NEW t, NEW c \in Calls, c.op \in {"copy", "move"}
  PROVE  /\ SourceOf(c) \in Doing(c) /\ SourceOf(c).do = "source"
         /\ SourceOf(c).path = c.path /\ SourceOf(c).to = c.to
         /\ EnsureParents(dirname(c.to)) \in Seq(Doing(c)) /\ I("createDir", c.to) \in Doing(c)
         /\ [SourceOf(c) EXCEPT !.do = "copyFile"] \in Doing(c)
         /\ [SourceOf(c) EXCEPT !.do = "walk"] \in Doing(c)
         /\ [I("destination", c.to) EXCEPT !.flag = SourceOf(c).flag] \in Doing(c)
         /\ Into(t, c) \in Seq(Doing(c))
         /\ Into(node, c) = CopyInto(SourceOf(c))
<1> DEFINE i == SourceOf(c)
<1>1. i \in Doing(c)
  BY ClearsAt DEF SourceOf
<1>2. i.do = "source" /\ i.path = c.path /\ i.to = c.to
  BY DEF SourceOf, I
<1> HIDE DEF i
<1>3. Ground(Zone(c), DeepZone(c))
  BY Grounds
<1>4. /\ EnsureParents(dirname(i.to)) \in Seq(Doing(c))
      /\ {[I("destination", i.to) EXCEPT !.flag = i.flag], I("createDir", i.to),
          [i EXCEPT !.do = "copyFile"], [i EXCEPT !.do = "walk"]} \subseteq Doing(c)
  BY <1>1, <1>2, <1>3, SourceWork DEF Doing
<1>5. /\ EnsureParents(dirname(c.to)) \in Seq(Doing(c)) /\ I("createDir", c.to) \in Doing(c)
      /\ [i EXCEPT !.do = "copyFile"] \in Doing(c) /\ [i EXCEPT !.do = "walk"] \in Doing(c)
      /\ [I("destination", c.to) EXCEPT !.flag = i.flag] \in Doing(c)
  BY <1>2, <1>4
<1>6. Into(t, c) \in Seq(Doing(c))
  <2> DEFINE D == Doing(c)
             p == EnsureParents(dirname(c.to))
             x == [i EXCEPT !.do = "copyFile"]
             y == I("createDir", c.to)
             z == [i EXCEPT !.do = "walk"]
  <2>1. p \in Seq(D) /\ x \in D /\ y \in D /\ z \in D
    BY <1>5
  <2>2. Into(t, c) = p \o (IF t[c.path] \in Content THEN <<x>> ELSE <<y, z>>)
    BY DEF Into, i
  <2> HIDE DEF D, p, x, y, z
  <2>3. <<x>> \in Seq(D) /\ <<y, z>> \in Seq(D)
    BY <2>1, Programs
  <2>4. p \o (IF t[c.path] \in Content THEN <<x>> ELSE <<y, z>>) \in Seq(D)
    BY <2>1, <2>3, Programs
  <2> QED
    BY <2>2, <2>4 DEF D
<1>7. Into(node, c) = CopyInto(i)
  BY <1>2 DEF Into, CopyInto, IsFile, i
<1> QED
  BY <1>1, <1>2, <1>5, <1>6, <1>7 DEF i

\* A cleared destination: the rest of the copy makes what it needs and leads to
\* every entry of the source.
LEMMA IntoWorks ==
  ASSUME NEW t \in Trees, WellFormed(t), NEW c \in Calls, c.op \in {"copy", "move"},
         t[c.path] # "absent", t[c.to] = "absent", NEW e
  PROVE  CopyWorks(t, c, Into(t, c), {}, e)
<1> DEFINE E == Errands(t, c)
           S == SourceOf(c)
           d == dirname(c.to)
           p == EnsureParents(d)
           x == [S EXCEPT !.do = "copyFile"]
           y == I("createDir", c.to)
           z == [S EXCEPT !.do = "walk"]
           to(f) == Target(f, c.path, c.to)
<1>1. /\ c.path \in Names /\ c.to \in Names /\ c.path \in Nodes /\ c.to \in Nodes /\ c.to # <<>>
      /\ "dir" # "absent" /\ "absent" \notin Content /\ "dir" \notin Content
      /\ \A f \in Nodes : t[f] \in Content \cup {"absent", "dir"}
  BY CallPaths, FacadeAssumption, NodePaths DEF Trees
<1>2. d \in Nodes /\ d \in Names /\ IsPrefix(d, c.to) /\ Len(c.to) = Len(d) + 1 /\ Len(d) \in Nat
  <2>1. c.to \in Paths
    BY <1>1, NodePaths
  <2> QED
    BY <2>1, NodePaths, LenProperties DEF Names
<1>3. /\ p \in Seq(Doing(c)) /\ x \in Doing(c) /\ y \in Doing(c) /\ z \in Doing(c)
      /\ S.do = "source" /\ S.path = c.path /\ S.to = c.to /\ S \in Doing(c)
  BY IntoParts
<1>4. /\ x.do = "copyFile" /\ x.path = c.path /\ x.to = c.to
      /\ y.do = "createDir" /\ y.path = c.to
      /\ z.do = "walk" /\ z.path = c.path /\ z.to = c.to
  BY <1>3 DEF I, Doing, Work
<1>5. IsPrefix(c.path, c.path) /\ IsPrefix(c.to, c.to) /\ to(c.path) = c.to
  <2>1. IsPrefix(c.path, c.path) /\ IsPrefix(c.to, c.to)
    BY <1>1, PrefixByName, LenProperties DEF Names
  <2> QED
    BY <1>1, <2>1, Targets
<1>6. t[<<>>] = "dir"
  BY DEF WellFormed
<1>7. /\ Building(t, p) /\ Len(p) = Len(d)
      /\ d # <<>> => Len(d) \in 1 .. Len(p) /\ Gives(p[Len(d)], d)
      /\ \A k \in 1 .. Len(d) : /\ p[k] = I("ensure", SubSeq(d, 1, k))
                                /\ SubSeq(d, 1, k) \in Names /\ IsPrefix(SubSeq(d, 1, k), d)
                                /\ Len(SubSeq(d, 1, k)) = k
  BY <1>2, <1>6, EnsureBuilds
<1>8. ASSUME NEW k \in 1 .. Len(p)
      PROVE  p[k] \in E
  <2> DEFINE a == SubSeq(d, 1, k)
  <2>1. p[k] = I("ensure", a) /\ a \in Names /\ IsPrefix(a, d) /\ Len(a) = k
    BY <1>7
  <2> HIDE DEF a
  <2>2. p[k].do = "ensure" /\ p[k].path = a
    BY <2>1 DEF I
  <2>3. IsPrefix(a, c.to)
    BY <1>1, <1>2, <2>1, PrefixOrder
  <2>4. a # c.to
    BY <1>2, <1>7, <2>1
  <2>5. Prepares(c, p[k])
    BY <2>2, <2>3, <2>4 DEF Prepares
  <2>6. p[k] \in Doing(c)
    <3> DEFINE D == Doing(c)
    <3>1. p \in Seq(D)
      BY <1>3
    <3> HIDE DEF D, p
    <3>2. p[k] \in D
      BY <3>1, ElementOfSeq
    <3> QED
      BY <3>2 DEF D
  <2> QED
    BY <2>5, <2>6 DEF Errands
<1>9. p \in Seq(E)
  <2> HIDE DEF E
  <2>1. p = [k \in 1 .. Len(d) |-> p[k]]
    BY <1>7 DEF EnsureParents
  <2>2. p \in [1 .. Len(d) -> E]
    BY <1>7, <1>8, <2>1
  <2> QED
    BY <1>2, <2>2, Programs
<1> HIDE DEF p, x, y, z, S, d
<1> DEFINE q == IF t[c.path] \in Content THEN <<x>> ELSE <<y, z>>
           v == p \o q
<1>10. Into(t, c) = v
  BY DEF Into, p, x, y, z, S, d
<1>11. ASSUME t[c.path] \in Content
       PROVE  /\ Building(t, v) /\ v \in Seq(E)
              /\ \A f \in Nodes : IsPrefix(c.path, f) /\ t[f] # "absent" => \E i \in Jobs(v, {}) : Leads(c, i, f)
  <2>1. q = <<x>> /\ Len(<<x>>) = 1 /\ <<x>>[1] = x
    BY <1>11
  <2>2. Mirrors(t, c, x, c.path)
    BY <1>4, <1>5, <1>11 DEF Mirrors
  <2>3. x \in E
    BY <1>1, <1>3, <2>2 DEF Errands
  <2>4. q \in Seq(E) /\ Len(q) = 1 /\ q[1] = x
    <3> HIDE DEF E
    <3> QED
      BY <2>1, <2>3, Programs
  <2> HIDE DEF q, E
  <2>5. x.do \in Builds \ {"setFile"} /\ Place(x) = d
    BY <1>4 DEF Builds, Place, d
  <2>6. t[d] = "dir" \/ \E m \in 1 .. Len(p) : Gives(p[m], d)
    BY <1>6, <1>7
  <2>7. Building(t, v)
    BY <1>7, <1>9, <2>4, <2>5, <2>6, BuildThen
  <2>8. v \in Seq(E)
    BY <1>9, <2>4, Programs
  <2>9. x \in Jobs(v, {})
    <3>1. Len(v) = Len(p) + Len(q) /\ \A j \in 1 .. Len(p) + Len(q) : v[j] = IF j <= Len(p) THEN p[j] ELSE q[j - Len(p)]
      BY <1>9, <2>4, ConcatProperties
    <3>2. Len(p) + 1 \in 1 .. Len(v) /\ v[Len(p) + 1] = q[1]
      BY <1>2, <1>7, <2>4, <3>1
    <3> QED
      BY <2>4, <3>2 DEF Jobs
  <2>10. \A f \in Nodes : IsPrefix(c.path, f) /\ t[f] # "absent" => Leads(c, x, f)
    <3> TAKE f \in Nodes
    <3> HAVE IsPrefix(c.path, f) /\ t[f] # "absent"
    <3>1. f = c.path
      BY <1>1, <1>11, FormBelow
    <3> QED
      BY <1>4, <3>1 DEF Leads
  <2> QED
    BY <2>7, <2>8, <2>9, <2>10
<1>12. ASSUME t[c.path] \notin Content
       PROVE  /\ Building(t, v) /\ v \in Seq(E)
              /\ \A f \in Nodes : IsPrefix(c.path, f) /\ t[f] # "absent" => \E i \in Jobs(v, {}) : Leads(c, i, f)
  <2>1. q = <<y, z>> /\ Len(<<y, z>>) = 2 /\ <<y, z>>[1] = y /\ <<y, z>>[2] = z
    BY <1>12
  <2>2. t[c.path] = "dir"
    BY <1>1, <1>12
  <2>3. Mirrors(t, c, y, c.path) /\ Mirrors(t, c, z, c.path)
    BY <1>4, <1>5, <2>2 DEF Mirrors
  <2>4. y \in E /\ z \in E
    BY <1>1, <1>3, <2>3 DEF Errands
  <2>5. q \in Seq(E) /\ Len(q) = 2 /\ q[1] = y /\ q[2] = z
    <3> HIDE DEF E
    <3> QED
      BY <2>1, <2>4, Programs
  <2> HIDE DEF q, E
  <2>6. /\ y.do \in Builds \ {"setFile"} /\ Place(y) = d /\ Gives(y, c.to)
        /\ z.do \in Builds \ {"setFile"} /\ Place(z) = c.to
    BY <1>4 DEF Builds, Place, Gives, d
  <2>7. t[d] = "dir" \/ \E m \in 1 .. Len(p) : Gives(p[m], d)
    BY <1>6, <1>7
  <2>8. Building(t, v)
    <3>1. ASSUME NEW j \in 1 .. Len(q)
          PROVE  /\ q[j].do \in Builds \ {"setFile"}
                 /\ Place(q[j]) \in Nodes =>
                      \/ t[Place(q[j])] = "dir"
                      \/ \E m \in 1 .. Len(p) : Gives(p[m], Place(q[j]))
                      \/ \E m \in 1 .. j - 1 : Gives(q[m], Place(q[j]))
      <4>1. j = 1 \/ j = 2
        BY <2>5
      <4>2. j = 2 => 1 \in 1 .. j - 1
        OBVIOUS
      <4> QED
        BY <2>5, <2>6, <2>7, <4>1, <4>2
    <3> QED
      BY <1>7, <1>9, <2>5, <3>1, BuildThen
  <2>9. v \in Seq(E)
    BY <1>9, <2>5, Programs
  <2>10. y \in Jobs(v, {}) /\ z \in Jobs(v, {})
    <3>1. Len(v) = Len(p) + Len(q) /\ \A j \in 1 .. Len(p) + Len(q) : v[j] = IF j <= Len(p) THEN p[j] ELSE q[j - Len(p)]
      BY <1>9, <2>5, ConcatProperties
    <3>2. /\ Len(p) + 1 \in 1 .. Len(v) /\ v[Len(p) + 1] = q[1]
          /\ Len(p) + 2 \in 1 .. Len(v) /\ v[Len(p) + 2] = q[2]
      BY <1>2, <1>7, <2>5, <3>1
    <3> QED
      BY <2>5, <3>2 DEF Jobs
  <2>11. \A f \in Nodes : IsPrefix(c.path, f) => Leads(c, y, f) \/ Leads(c, z, f)
    BY <1>4, <1>5 DEF Leads
  <2> QED
    BY <2>8, <2>9, <2>10, <2>11
<1>13. /\ Building(t, v) /\ v \in Seq(E)
       /\ \A f \in Nodes : IsPrefix(c.path, f) /\ t[f] # "absent" => \E i \in Jobs(v, {}) : Leads(c, i, f)
  BY <1>11, <1>12
<1>14. \A g \in Nodes : IsPrefix(c.to, g) => t[g] = "absent"
  BY <1>1, FormBelow
<1> HIDE DEF v, E
<1>15. Copied(t, c, v, {})
  BY <1>13, <1>14 DEF Copied
<1>16. CopyWorks(t, c, v, {}, e)
  BY <1>13, <1>15 DEF CopyWorks, E
<1> QED
  BY <1>10, <1>16

\* A copy that clears its destination first: s is what is left of the clearing.
CopyClears(t, c, b, k) ==
  /\ k = {} /\ t[c.path] # "absent"
  /\ \E s, v \in Seq(Doing(c)) :
       /\ s # <<>> /\ b = s \o v /\ v = Into(t, c) /\ Sweeping(t, s)
       /\ \A j \in 1 .. Len(s) : s[j].do \in Removes /\ IsPrefix(c.to, s[j].path)
       /\ t[c.to] = "absent" \/ Due(s, c.to)

\* Where a copy stands, in the tree t, with b left to do and the children k.
Copying(t, c, b, k, e) ==
  \/ k = {} /\ b = <<SourceOf(c)>>
  \/ CopyClears(t, c, b, k)
  \/ CopyWorks(t, c, b, k, e)

\* The stat of the source starts the clearing.
LEMMA CopyStarts ==
  ASSUME node \in Trees, NEW c \in Calls, c.op \in {"copy", "move"}, Await(SourceOf(c))
  PROVE  node' = node /\ CopyClears(node', c, After(SourceOf(c)) \o <<>>, {})
<1> DEFINE i == SourceOf(c)
           x == [I("destination", c.to) EXCEPT !.flag = SourceOf(c).flag]
           D == Doing(c)
           s == <<x>>
           v == Into(node, c)
<1>1. /\ i.do = "source" /\ i.path = c.path /\ i.to = c.to
      /\ x \in D /\ v \in Seq(D) /\ v = CopyInto(i)
  BY IntoParts
<1>2. node' = node
  BY <1>1 DEF Await, Read, SetRecord, Delete
<1>3. After(i) = s \o v
  BY <1>1 DEF After, Source
<1>4. node[c.path] # "absent"
  BY <1>1 DEF Await, Refuses, IsAbsent
<1>5. x.do = "destination" /\ x.path = c.to
  BY DEF I
<1>6. c.to \in Nodes \ {<<>>} /\ c.to \in Names /\ IsPrefix(c.to, c.to)
  <2>1. c.to \in Nodes /\ c.to \in Names /\ c.to # <<>>
    BY CallPaths, FacadeAssumption
  <2> QED
    BY <2>1, PrefixByName, LenProperties DEF Names
<1> HIDE DEF i, x, v, D
<1>7. s \in Seq(D) /\ s # <<>> /\ Len(s) = 1 /\ s[1] = x
  BY <1>1, Programs
<1> HIDE DEF s
<1>8. Sweeping(node, s) /\ Due(s, c.to)
      /\ \A j \in 1 .. Len(s) : s[j].do \in Removes /\ IsPrefix(c.to, s[j].path)
  BY <1>5, <1>6, <1>7 DEF Sweeping, Due, Sweeps, Removes
<1>9. (s \o v) \o <<>> = s \o v
  <2>1. s \o v \in Seq(D)
    BY <1>1, <1>7, Programs
  <2> QED
    BY <2>1, ConcatEmptySeq
<1>10. CopyClears(node, c, s \o v, {})
  BY <1>1, <1>4, <1>7, <1>8 DEF CopyClears, D, v
<1>11. After(SourceOf(c)) \o <<>> = s \o v
  BY <1>3, <1>9 DEF i
<1> QED
  BY <1>2, <1>10, <1>11

\* The clearing of the destination leaves the source alone, and ends where the
\* copying starts.
LEMMA CopySweeps ==
  ASSUME node \in Trees, WellFormed(node), NEW c \in Calls, c.op \in {"copy", "move"},
         NEW b, CopyClears(node, c, b, {}), Await(Head(b)), NEW e
  PROVE  /\ b # <<>> /\ WellFormed(node')
         /\ CopyClears(node', c, After(Head(b)) \o Tail(b), {}) \/ CopyWorks(node', c, After(Head(b)) \o Tail(b), {}, e)
<1> DEFINE D == Doing(c)
<1>1. PICK s \in Seq(D), v \in Seq(D) :
        /\ s # <<>> /\ b = s \o v /\ v = Into(node, c) /\ Sweeping(node, s)
        /\ \A j \in 1 .. Len(s) : s[j].do \in Removes /\ IsPrefix(c.to, s[j].path)
        /\ node[c.to] = "absent" \/ Due(s, c.to)
  BY DEF CopyClears
<1> DEFINE i == Head(s)
           w == After(i)
           r == w \o Tail(s)
<1>2. /\ b # <<>> /\ Head(b) = i /\ Tail(b) = Tail(s) \o v
      /\ i \in D /\ Tail(s) \in Seq(D) /\ Len(s) \in Nat \ {0} /\ i = s[1]
  <2> HIDE DEF D
  <2>1. b # <<>> /\ Head(b) = i /\ Tail(b) = Tail(s) \o v
    BY <1>1, Peel
  <2> QED
    BY <1>1, <2>1, EmptySeq, LenProperties, HeadTailProperties
<1>3. /\ i.do \in Removes /\ IsPrefix(c.to, i.path) /\ i.do \in Sweeps /\ i.path \in Nodes
      /\ i.path # <<>>
      /\ i.do = "delete" => \A g \in Paths : dirname(g) = i.path => node[g] = "absent"
  <2>1. 1 \in 1 .. Len(s)
    BY <1>2
  <2>2. /\ s[1].do \in Removes /\ IsPrefix(c.to, s[1].path) /\ s[1].do \in Sweeps
        /\ s[1].path \in Nodes /\ (s[1].do # "empty" => s[1].path # <<>>)
        /\ s[1].do = "delete" =>
             \A g \in Paths : dirname(g) = s[1].path /\ node[g] # "absent" => Before(s, 1, g)
    BY <1>1, <2>1 DEF Sweeping
  <2>3. \A g : ~Before(s, 1, g)
    BY DEF Before
  <2> QED
    BY <1>2, <2>2, <2>3 DEF Removes
<1>4. Await(i) /\ i \in Doing(c)
  BY <1>2
<1> HIDE DEF i
<1>5. /\ Leaves(node', i, w) /\ WellFormed(node')
      /\ \A g \in Nodes : /\ node'[g] # "absent" => node[g] # "absent"
                          /\ node'[g] = node[g] \/ (i.do = "delete" /\ g = i.path)
  BY <1>3, <1>4, SweepLeaves
<1>6. w \in Seq(D) /\ node' \in Trees
  BY <1>4, AwaitKeeps DEF Body, Trees
<1>7. SourceStays(c, node, node') /\ c.path \in Nodes /\ node'[c.path] = node[c.path]
  <2>1. /\ c.path \in Names /\ c.to \in Names /\ c.path \in Nodes /\ i.path \in Names
        /\ ~IsPrefix(c.path, c.to) /\ ~IsPrefix(c.to, c.path)
    BY <1>3, CallPaths, FacadeAssumption, NodePaths
  <2>2. ASSUME NEW f \in Nodes, IsPrefix(c.path, f), f = i.path
        PROVE  FALSE
    BY <1>3, <2>1, <2>2, PrefixOrder
  <2>3. IsPrefix(c.path, c.path)
    <3> DEFINE h == c.path
    <3>1. h \in Names
      BY <2>1
    <3> HIDE DEF h
    <3>2. IsPrefix(h, h)
      BY <3>1, PrefixByName, LenProperties DEF Names
    <3> QED
      BY <3>2 DEF h
  <2>4. SourceStays(c, node, node')
    BY <1>5, <2>2 DEF SourceStays
  <2> QED
    BY <2>1, <2>3, <2>4 DEF SourceStays
<1>8. v = Into(node', c) /\ node'[c.path] # "absent"
  BY <1>1, <1>7 DEF CopyClears, Into
<1> HIDE DEF D, w
<1>9. w \o Tail(b) = r \o v /\ r \in Seq(D)
  <2>1. (w \o Tail(s)) \o v = w \o (Tail(s) \o v)
    BY SMTT(60), <1>1, <1>2, <1>6, ConcatAssociative
  <2>2. r \in Seq(D)
    BY <1>2, <1>6, Programs
  <2> QED
    BY <1>2, <2>1, <2>2
<1>10. Sweeping(node', r) /\ \A f : Due(s, f) => node'[f] = "absent" \/ Due(r, f)
  BY <1>1, <1>5, <1>6, SweepGoesOn DEF i
<1>11. node'[c.to] = "absent" \/ Due(r, c.to)
  <2>1. c.to \in Nodes
    BY FacadeAssumption
  <2> QED
    BY <1>1, <1>5, <1>10, <2>1
<1>12. ASSUME NEW j \in 1 .. Len(r)
       PROVE  r[j].do \in Removes /\ IsPrefix(c.to, r[j].path)
  <2>1. /\ Len(w) \in Nat /\ Len(s) \in Nat \ {0}
        /\ \A h \in 1 .. Len(w) : h \in 1 .. Len(r) /\ r[h] = w[h]
        /\ \A h \in 1 .. Len(r) : h > Len(w) => h - Len(w) + 1 \in 2 .. Len(s)
                                               /\ r[h] = s[h - Len(w) + 1]
        /\ Len(r) \in Nat
    BY <1>1, <1>6, Spliced
  <2> HIDE DEF r
  <2>2. CASE j <= Len(w)
    <3>1. j \in 1 .. Len(w) /\ r[j] = w[j]
      BY <2>1, <2>2
    <3>2. /\ w[j].path \in Nodes \ {<<>>}
          /\ w[j].path = i.path \/ dirname(w[j].path) = i.path
          /\ w[j].do \in Removes
      BY <1>3, <1>5, <3>1 DEF Leaves, Removes
    <3>3. IsPrefix(i.path, w[j].path)
      <4>1. i.path \in Names /\ w[j].path \in Paths /\ w[j].path \in Names
        BY <1>3, <3>2, NodePaths
      <4>2. IsPrefix(i.path, i.path)
        BY <4>1, PrefixByName, LenProperties DEF Names
      <4>3. IsPrefix(dirname(w[j].path), w[j].path)
        BY <4>1, NodePaths
      <4> QED
        BY <3>2, <4>2, <4>3
    <3>4. IsPrefix(c.to, w[j].path)
      <4>1. c.to \in Names /\ i.path \in Names /\ w[j].path \in Names
        BY <1>3, <3>2, NodePaths, CallPaths
      <4> QED
        BY <1>3, <3>3, <4>1, PrefixOrder
    <3> QED
      BY <3>1, <3>2, <3>4
  <2>3. CASE j > Len(w)
    <3>1. j - Len(w) + 1 \in 2 .. Len(s) /\ r[j] = s[j - Len(w) + 1]
      BY <2>1, <2>3
    <3>2. j - Len(w) + 1 \in 1 .. Len(s)
      BY <2>1, <3>1
    <3> QED
      BY <1>1, <3>1, <3>2
  <2> QED
    BY <2>1, <2>2, <2>3
<1> HIDE DEF r
<1>13. CASE r # <<>>
  <2>1. CopyClears(node', c, r \o v, {})
    BY <1>1, <1>8, <1>9, <1>10, <1>11, <1>12, <1>13 DEF CopyClears, D
  <2> QED
    BY <1>2, <1>5, <1>9, <2>1 DEF w
<1>14. CASE r = <<>>
  <2>1. node'[c.to] = "absent"
    <3>1. ~Due(r, c.to)
      BY <1>14, EmptySeq DEF Due
    <3> QED
      BY <1>11, <3>1
  <2>2. CopyWorks(node', c, v, {}, e)
    BY <1>5, <1>6, <1>8, <2>1, IntoWorks
  <2>3. r \o v = v
    BY <1>1, <1>14, Peel
  <2> QED
    BY <1>2, <1>5, <1>9, <2>2, <2>3 DEF w
<1> QED
  BY <1>13, <1>14

----------------------------------------------------------------------------
(* The calls that remove, and where any call stands under its lock.        *)

\* q removes only.
Removing(t, q) == Sweeping(t, q) /\ \A j \in 1 .. Len(q) : q[j].do \in Removes

\* Nothing is added.
Shrinks(t, u) == \A g \in Nodes : u[g] # "absent" => t[g] # "absent"

\* A step of a program that removes.
LEMMA RemovingGoesOn ==
  ASSUME node \in Trees, WellFormed(node), NEW c \in Calls, NEW q \in Body(c), q # <<>>,
         Removing(node, q), Await(Head(q))
  PROVE  /\ WellFormed(node') /\ Shrinks(node, node')
         /\ Removing(node', After(Head(q)) \o Tail(q))
         /\ \A f : Due(q, f) => node'[f] = "absent" \/ Due(After(Head(q)) \o Tail(q), f)
<1> DEFINE D == Doing(c)
           i == Head(q)
           w == After(i)
           r == w \o Tail(q)
<1>1. q \in Seq(D) /\ Sweeping(node, q) /\ \A j \in 1 .. Len(q) : q[j].do \in Removes
  BY DEF Removing, Body
<1>2. i \in D /\ Tail(q) \in Seq(D) /\ Len(q) \in Nat \ {0} /\ i = q[1]
  <2> HIDE DEF D
  <2> QED
    BY <1>1, EmptySeq, LenProperties, HeadTailProperties
<1>3. /\ i.do \in Removes /\ i.do \in Sweeps /\ i.path \in Nodes /\ i.path # <<>>
      /\ i.do = "delete" => \A g \in Paths : dirname(g) = i.path => node[g] = "absent"
  <2>1. 1 \in 1 .. Len(q)
    BY <1>2
  <2>2. /\ q[1].do \in Removes /\ q[1].do \in Sweeps
        /\ q[1].path \in Nodes /\ (q[1].do # "empty" => q[1].path # <<>>)
        /\ q[1].do = "delete" =>
             \A g \in Paths : dirname(g) = q[1].path /\ node[g] # "absent" => Before(q, 1, g)
    BY <1>1, <2>1 DEF Sweeping
  <2>3. \A g : ~Before(q, 1, g)
    BY DEF Before
  <2> QED
    BY <1>2, <2>2, <2>3 DEF Removes
<1>4. Await(i) /\ i \in Doing(c)
  BY <1>2
<1> HIDE DEF i
<1>5. /\ Leaves(node', i, w) /\ WellFormed(node')
      /\ \A g \in Nodes : /\ node'[g] # "absent" => node[g] # "absent"
                          /\ node'[g] = node[g] \/ (i.do = "delete" /\ g = i.path)
  BY <1>3, <1>4, SweepLeaves
<1>6. w \in Seq(D)
  BY <1>4, AwaitKeeps DEF Body, Trees
<1> HIDE DEF D, w
<1>7. Sweeping(node', r) /\ \A f : Due(q, f) => node'[f] = "absent" \/ Due(r, f)
  BY <1>1, <1>5, <1>6, SweepGoesOn DEF i
<1>8. ASSUME NEW j \in 1 .. Len(r)
      PROVE  r[j].do \in Removes
  <2>1. /\ Len(w) \in Nat /\ Len(q) \in Nat \ {0}
        /\ \A h \in 1 .. Len(w) : h \in 1 .. Len(r) /\ r[h] = w[h]
        /\ \A h \in 1 .. Len(r) : h > Len(w) => h - Len(w) + 1 \in 2 .. Len(q)
                                               /\ r[h] = q[h - Len(w) + 1]
        /\ Len(r) \in Nat
    BY <1>1, <1>6, Spliced
  <2> HIDE DEF r
  <2>2. CASE j <= Len(w)
    <3>1. j \in 1 .. Len(w) /\ r[j] = w[j]
      BY <2>1, <2>2
    <3> QED
      BY <1>3, <1>5, <3>1 DEF Leaves, Removes
  <2>3. CASE j > Len(w)
    <3>1. j - Len(w) + 1 \in 2 .. Len(q) /\ r[j] = q[j - Len(w) + 1]
      BY <2>1, <2>3
    <3>2. j - Len(w) + 1 \in 1 .. Len(q)
      BY <2>1, <3>1
    <3> QED
      BY <1>1, <3>1, <3>2
  <2> QED
    BY <2>1, <2>2, <2>3
<1> QED
  BY <1>5, <1>7, <1>8 DEF Removing, Shrinks, r, w, i

\* A step of somebody else that only removes.
LEMMA RemovingStays ==
  ASSUME NEW t, NEW u, NEW q, Removing(t, q), Shrinks(t, u)
  PROVE  Removing(u, q)
<1>1. \A g \in Paths : u[g] # "absent" => t[g] # "absent"
  BY NodePaths DEF Shrinks
<1> QED
  BY <1>1 DEF Removing, Sweeping

\* emptyDir: the listing, then a child for every entry.  e: a child has failed.
Empties(t, c, b, k, e) ==
  /\ \/ b = <<I("empty", c.path)>>
     \/ \A j \in 1 .. Len(b) : b[j].do = "spawnRemove" /\ b[j].path \in Nodes \ {<<>>}
  /\ \A x \in k : Removing(t, x)
  /\ e \/ \A g \in Paths : dirname(g) = c.path /\ t[g] # "absent" =>
       \/ b = <<I("empty", c.path)>>
       \/ \E j \in 1 .. Len(b) : b[j].path = g
       \/ \E x \in k : Due(x, g)

\* The listing of emptyDir.
LEMMA EmptyLists ==
  ASSUME node \in Trees, WellFormed(node), NEW c \in Calls, NEW b \in Body(c), b # <<>>, NEW k, NEW e,
         Empties(node, c, b, k, e), Await(Head(b)), c.op = "emptyDir"
  PROVE  WellFormed(node') /\ Empties(node', c, After(Head(b)) \o Tail(b), k, e)
<1> DEFINE i == I("empty", c.path)
           w == After(i)
<1>1. b = <<i>>
  <2> SUFFICES ASSUME \A j \in 1 .. Len(b) : b[j].do = "spawnRemove"
               PROVE  FALSE
    BY DEF Empties
  <2>1. Head(b) = b[1] /\ Len(b) \in Nat \ {0}
    BY EmptySeq, LenProperties DEF Body
  <2>2. Head(b).do = "spawnRemove"
    BY <2>1
  <2> QED
    BY <2>2 DEF Await, Read, Reads, SetRecord, Delete
<1>2. /\ i.do = "empty" /\ i.path = c.path /\ i \in Doing(c) /\ c.path \in Nodes
      /\ i.do \in Sweeps /\ i.do \notin Removes
  BY ClearsAt, FacadeAssumption DEF I, Sweeps, Removes
<1>3. Await(i) /\ Head(b) = i /\ Tail(b) = <<>>
  BY <1>1
<1> HIDE DEF i
<1>4. Leaves(node', i, w) /\ WellFormed(node')
  BY <1>2, <1>3, SweepLeaves
<1>5. w \in Body(c) /\ w \o <<>> = w
  <2>1. w \in Seq(Doing(c))
    BY <1>2, <1>3, AwaitKeeps DEF Body, Trees
  <2> QED
    BY <2>1, ConcatEmptySeq DEF Body
<1>6. node' = node
  BY <1>2, <1>3 DEF Await, Read, SetRecord, Delete
<1> HIDE DEF w
<1>7. Empties(node', c, w, k, e)
  <2>1. \A j \in 1 .. Len(w) : w[j].do = "spawnRemove" /\ w[j].path \in Nodes \ {<<>>}
    BY <1>2, <1>4 DEF Leaves
  <2>2. \A g \in Paths : dirname(g) = c.path /\ node'[g] # "absent" => \E j \in 1 .. Len(w) : w[j].path = g
    BY <1>2, <1>4 DEF Leaves
  <2>3. \A x \in k : Removing(node', x)
    BY <1>6 DEF Empties
  <2> QED
    BY <2>1, <2>2, <2>3 DEF Empties
<1> QED
  BY <1>3, <1>4, <1>5, <1>7 DEF w

\* emptyDir starts a child for an entry.
LEMMA EmptySpawns ==
  ASSUME NEW t, NEW c \in Calls, NEW b \in Body(c), b # <<>>, NEW k, NEW e,
         Empties(t, c, b, k, e), Head(b).do = "spawnRemove"
  PROVE  Empties(t, c, <<>> \o Tail(b), k \cup {<<[Head(b) EXCEPT !.do = "remove", !.flag = TRUE]>>}, e)
<1> DEFINE D == Doing(c)
           i == Head(b)
           x == [i EXCEPT !.do = "remove", !.flag = TRUE]
           z == <<x>>
           l == k \cup {z}
           w == <<>>
           r == w \o Tail(b)
<1>1. b \in Seq(D) /\ w \in Seq(D) /\ Len(w) = 0
  BY Programs DEF Body
<1>2. i \in D /\ i = b[1] /\ Len(b) \in Nat \ {0}
  <2> HIDE DEF D
  <2> QED
    BY <1>1, EmptySeq, LenProperties, HeadTailProperties
<1>3. x.do = "remove" /\ x.path = i.path
  BY <1>2 DEF Doing, Work
<1>4. b # <<I("empty", c.path)>>
  <2> SUFFICES ASSUME b = <<I("empty", c.path)>>
               PROVE  FALSE
    OBVIOUS
  <2>1. i = I("empty", c.path)
    OBVIOUS
  <2> QED
    BY <2>1 DEF I
<1>5. \A j \in 1 .. Len(b) : b[j].do = "spawnRemove" /\ b[j].path \in Nodes \ {<<>>}
  BY <1>4 DEF Empties
<1>6. x.path \in Nodes \ {<<>>}
  <2>1. 1 \in 1 .. Len(b)
    BY <1>2
  <2> QED
    BY <1>2, <1>3, <1>5, <2>1
<1> HIDE DEF x
<1>7. Len(z) = 1 /\ z[1] = x
  OBVIOUS
<1> HIDE DEF z, D, w, i
<1>8. Removing(t, z) /\ Due(z, i.path)
  BY <1>3, <1>6, <1>7 DEF Removing, Sweeping, Sweeps, Removes, Due
<1>9. /\ Len(r) = 0 + (Len(b) - 1)
      /\ \A j \in 2 .. Len(b) : 0 + (j - 1) \in 1 .. Len(r) /\ r[0 + (j - 1)] = b[j]
      /\ \A j \in 1 .. Len(r) : j > 0 => j - 0 + 1 \in 2 .. Len(b) /\ r[j] = b[j - 0 + 1]
  BY <1>1, Spliced
<1> HIDE DEF r
<1>10. \A j \in 1 .. Len(r) : r[j].do = "spawnRemove" /\ r[j].path \in Nodes \ {<<>>}
  <2> TAKE j \in 1 .. Len(r)
  <2>1. j > 0
    BY <1>2, <1>9
  <2>2. j - 0 + 1 \in 2 .. Len(b) /\ r[j] = b[j - 0 + 1]
    BY <1>9, <2>1
  <2>3. j - 0 + 1 \in 1 .. Len(b)
    BY <1>2, <2>2
  <2> QED
    BY <1>5, <2>2, <2>3
<1>11. ASSUME NEW g, NEW j \in 1 .. Len(b), b[j].path = g
       PROVE  (\E h \in 1 .. Len(r) : r[h].path = g) \/ \E y \in l : Due(y, g)
  <2>1. CASE j = 1
    BY <1>2, <1>8, <1>11, <2>1
  <2>2. CASE j # 1
    <3>1. j \in 2 .. Len(b)
      BY <1>2, <2>2
    <3> QED
      BY <1>9, <1>11, <3>1
  <2> QED
    BY <2>1, <2>2
<1>12. \A y \in l : Removing(t, y)
  BY <1>8 DEF Empties
<1>13. ASSUME ~e
       PROVE  \A g \in Paths : dirname(g) = c.path /\ t[g] # "absent" =>
                (\E j \in 1 .. Len(r) : r[j].path = g) \/ \E y \in l : Due(y, g)
  <2> TAKE g \in Paths
  <2> HAVE dirname(g) = c.path /\ t[g] # "absent"
  <2>1. (\E j \in 1 .. Len(b) : b[j].path = g) \/ \E y \in k : Due(y, g)
    BY <1>4, <1>13 DEF Empties
  <2> QED
    BY <1>11, <2>1
<1> HIDE DEF l
<1>14. Empties(t, c, r, l, e)
  BY <1>10, <1>12, <1>13 DEF Empties
<1> QED
  BY <1>14 DEF r, l, w, z, x, i

\* A child of emptyDir runs an await.
LEMMA EmptyKid ==
  ASSUME node \in Trees, WellFormed(node), NEW c \in Calls, NEW b, NEW k, NEW e,
         Empties(node, c, b, k, e), NEW x \in k, x \in Body(c), x # <<>>, Await(Head(x))
  PROVE  /\ WellFormed(node')
         /\ Empties(node', c, b, (k \ {x}) \cup ({After(Head(x)) \o Tail(x)} \ {<<>>}), e)
<1> DEFINE r == After(Head(x)) \o Tail(x)
           l == (k \ {x}) \cup ({r} \ {<<>>})
<1>1. /\ WellFormed(node') /\ Shrinks(node, node') /\ Removing(node', r)
      /\ \A f : Due(x, f) => node'[f] = "absent" \/ Due(r, f)
  <2>1. Removing(node, x)
    BY DEF Empties
  <2> QED
    BY <2>1, RemovingGoesOn
<1> HIDE DEF r
<1>2. \A y \in l : Removing(node', y)
  <2>1. \A y \in k : Removing(node', y)
    BY <1>1, RemovingStays DEF Empties
  <2> QED
    BY <1>1, <2>1
<1>3. \A f : Due(r, f) => r # <<>>
  BY EmptySeq DEF Due
<1>4. ASSUME NEW g \in Paths, dirname(g) = c.path, node'[g] # "absent", ~e
      PROVE  \/ b = <<I("empty", c.path)>>
             \/ \E j \in 1 .. Len(b) : b[j].path = g
             \/ \E y \in l : Due(y, g)
  <2>1. node[g] # "absent"
    BY <1>1, <1>4, NodePaths DEF Shrinks
  <2>2. \/ b = <<I("empty", c.path)>>
        \/ \E j \in 1 .. Len(b) : b[j].path = g
        \/ \E y \in k : Due(y, g)
    BY <1>4, <2>1 DEF Empties
  <2>3. ASSUME NEW y \in k, Due(y, g)
        PROVE  \E v \in l : Due(v, g)
    <3>1. CASE y = x
      <4>1. Due(r, g) /\ r \in l
        BY <1>1, <1>3, <1>4, <2>3, <3>1
      <4> QED
        BY <4>1
    <3>2. CASE y # x
      BY <2>3, <3>2
    <3> QED
      BY <3>1, <3>2
  <2> QED
    BY <2>2, <2>3
<1> HIDE DEF l
<1>5. Empties(node', c, b, l, e)
  BY <1>2, <1>4 DEF Empties
<1> QED
  BY <1>1, <1>5 DEF l, r

\* The awaits of a call that only checks and makes.
Making(c) == {i \in Doing(c) : i.do \in Makes}

\* Where the call c stands under its lock, in the tree t: b is left to do of the
\* method before its finally block, k are its children, e whether it has failed.
Good(t, c, b, k, e) ==
  \/ /\ c.op \in FileCalls \cup {"mkdir", "getDirectoryHandle"}
     /\ k = {} /\ b \in Seq(Making(c)) /\ Building(t, b)
  \/ /\ c.op \in {"remove", "move"} /\ k = {} /\ Removing(t, b)
     /\ c.op # "remove" \/ e \/ t[c.path] = "absent" \/ Due(b, c.path)
  \/ c.op = "emptyDir" /\ Empties(t, c, b, k, e)
  \/ c.op \in {"copy", "move"} /\ Copying(t, c, b, k, e)

\* A call that only checks and makes goes on like that.
LEMMA BuildingGoesOn ==
  ASSUME node \in Trees, WellFormed(node), NEW c \in Calls, NEW b \in Seq(Making(c)), b # <<>>,
         Building(node, b), Await(Head(b))
  PROVE  /\ WellFormed(node') /\ DirsStay(node, node')
         /\ After(Head(b)) \o Tail(b) \in Seq(Making(c))
         /\ Building(node', After(Head(b)) \o Tail(b))
<1> DEFINE M == Making(c)
           i == Head(b)
           w == After(i)
<1>1. /\ i \in M /\ Tail(b) \in Seq(M) /\ i.do \in Builds
      /\ Place(i) \in Nodes => node[Place(i)] = "dir"
      /\ i.do = "setFile" => (i.path \in Nodes => node[i.path] # "dir")
  <2> HIDE DEF M
  <2>1. b \in Seq(M)
    BY DEF M
  <2> QED
    BY <2>1, BuildHead
<1>2. i \in Doing(c) /\ i.do \in Makes /\ Await(i)
  BY <1>1 DEF Making
<1> HIDE DEF i
<1>3. /\ Building(node', w) /\ WellFormed(node') /\ DirsStay(node, node')
      /\ \A f \in Nodes : Gives(i, f) =>
           node'[f] = "dir" \/ \E m \in 1 .. Len(w) : Gives(w[m], f)
  BY <1>1, <1>2, BuildLeaves
<1>4. w \in Seq(Doing(c))
  BY <1>2, AwaitKeeps DEF Body, Trees
<1>5. w = <<>> \/ \E x : w = <<x>> /\ x.do \in Makes
  <2>1. i.do \in {"ensure", "createDir", "setDir", "write", "setFile", "createFile",
                  "parentDir", "notDir", "missing"}
    BY <1>1, <1>2 DEF Makes, Builds
  <2>2. /\ I("createDir", i.path).do \in Makes /\ I("setDir", i.path).do \in Makes
        /\ [i EXCEPT !.do = "setFile"].do \in Makes
        /\ [I("write", i.path) EXCEPT !.data = "empty"].do \in Makes
    BY <1>2 DEF I, Makes, Doing, Work
  <2>3. CASE i.do = "ensure"
    BY <2>2, <2>3 DEF After, Ensure, If
  <2>4. CASE i.do = "createDir"
    BY <2>2, <2>4 DEF After, CreateDir, If
  <2>5. CASE i.do = "write"
    BY <2>2, <2>5 DEF After, WriteFile
  <2>6. CASE i.do = "createFile"
    BY <2>2, <2>6 DEF After, CreateFile, If
  <2>7. CASE i.do \in {"setDir", "setFile", "parentDir", "notDir", "missing"}
    BY <2>7 DEF After
  <2> QED
    BY <2>1, <2>3, <2>4, <2>5, <2>6, <2>7
<1> HIDE DEF w
<1>6. w \in Seq(M)
  <2>1. CASE w = <<>>
    BY <2>1
  <2>2. CASE w # <<>>
    <3>1. PICK x : w = <<x>> /\ x.do \in Makes
      BY <1>5, <2>2
    <3>2. 1 \in 1 .. Len(w) /\ w[1] = x
      BY <3>1
    <3> DEFINE D == Doing(c)
    <3>3. w \in Seq(D)
      BY <1>4
    <3> HIDE DEF D
    <3>4. x \in D
      BY <3>2, <3>3, ElementOfSeq
    <3>5. x \in M
      BY <3>1, <3>4 DEF D, Making
    <3> HIDE DEF M
    <3> QED
      BY <3>1, <3>5, Programs
  <2> QED
    BY <2>1, <2>2
<1>7. w \o Tail(b) \in Seq(M) /\ Building(node', w \o Tail(b))
  <2>1. b \in Seq(M)
    OBVIOUS
  <2> HIDE DEF M
  <2>2. w \o Tail(b) \in Seq(M)
    BY <1>1, <1>6, Programs
  <2>3. Building(node', w \o Tail(b))
    BY <1>3, <1>6, <2>1, BuildGoesOn DEF i
  <2> QED
    BY <2>2, <2>3
<1> QED
  BY <1>3, <1>7 DEF w, i

\* A copy is never about to do anything but its three phases.
LEMMA CopyHeads ==
  ASSUME NEW t, NEW c \in Calls, c.op \in {"copy", "move"}, NEW b, NEW k, NEW e, Copying(t, c, b, k, e)
  PROVE  /\ k # {} => CopyWorks(t, c, b, k, e)
         /\ b # <<>> => /\ Head(b).do # "spawnRemove"
                        /\ Head(b).do \in {"spawnCopy", "entryDir"} => CopyWorks(t, c, b, k, e)
         /\ b = <<>> => CopyWorks(t, c, b, k, e)
<1>1. CASE k = {} /\ b = <<SourceOf(c)>>
  <2>1. Head(b) = SourceOf(c) /\ b # <<>>
    BY <1>1
  <2> QED
    BY <1>1, <2>1 DEF SourceOf, I
<1>2. CASE CopyClears(t, c, b, k)
  <2> DEFINE D == Doing(c)
  <2>1. PICK s \in Seq(D), v \in Seq(D) :
          s # <<>> /\ b = s \o v /\ \A j \in 1 .. Len(s) : s[j].do \in Removes
    BY <1>2 DEF CopyClears
  <2> HIDE DEF D
  <2>2. b # <<>> /\ Head(b) = Head(s) /\ Head(s) = s[1] /\ 1 \in 1 .. Len(s)
    <3>1. b # <<>> /\ Head(b) = Head(s)
      BY <2>1, Peel
    <3>2. Len(s) \in Nat \ {0} /\ Head(s) = s[1]
      BY <2>1, EmptySeq, LenProperties
    <3> QED
      BY <3>1, <3>2
  <2>3. Head(b).do \in Removes /\ k = {}
    BY <1>2, <2>1, <2>2 DEF CopyClears
  <2> QED
    BY <2>2, <2>3 DEF Removes
<1>3. CASE CopyWorks(t, c, b, k, e)
  <2>1. ASSUME b # <<>>
        PROVE  Head(b).do # "spawnRemove"
    <3> DEFINE E == Errands(t, c)
    <3>1. b \in Seq(E)
      BY <1>3 DEF CopyWorks
    <3> HIDE DEF E
    <3>2. Head(b) \in E
      BY <2>1, <3>1, HeadTailProperties
    <3>3. Head(b).do \in Builds
      BY <3>2, ErrandPaths DEF E
    <3> QED
      BY <3>3 DEF Builds
  <2> QED
    BY <1>3, <2>1
<1> QED
  BY <1>1, <1>2, <1>3 DEF Copying

\* The method of a call runs an await under its lock.
LEMMA GoodAwait ==
  ASSUME node \in Trees, WellFormed(node), NEW c \in Calls, NEW b \in Body(c), b # <<>>, NEW k, NEW e,
         Good(node, c, b, k, e), Await(Head(b))
  PROVE  /\ WellFormed(node') /\ Good(node', c, After(Head(b)) \o Tail(b), k, e)
         /\ c.op \in FileCalls => DirsStay(node, node')
<1> DEFINE r == After(Head(b)) \o Tail(b)
<1>0. FileCalls \cap {"remove", "move", "copy", "emptyDir"} = {}
  BY DEF FileCalls
<1>1. CASE /\ c.op \in FileCalls \cup {"mkdir", "getDirectoryHandle"}
           /\ k = {} /\ b \in Seq(Making(c)) /\ Building(node, b)
  BY <1>1, BuildingGoesOn DEF Good
<1>2. CASE /\ c.op \in {"remove", "move"} /\ k = {} /\ Removing(node, b)
           /\ c.op # "remove" \/ e \/ node[c.path] = "absent" \/ Due(b, c.path)
  <2>1. /\ WellFormed(node') /\ Shrinks(node, node') /\ Removing(node', r)
        /\ \A f : Due(b, f) => node'[f] = "absent" \/ Due(r, f)
    BY <1>2, RemovingGoesOn
  <2>2. c.path \in Nodes
    BY FacadeAssumption
  <2>3. node[c.path] = "absent" => node'[c.path] = "absent"
    BY <2>1, <2>2 DEF Shrinks
  <2> HIDE DEF r
  <2>4. c.op # "remove" \/ e \/ node'[c.path] = "absent" \/ Due(r, c.path)
    BY <1>2, <2>1, <2>3
  <2> QED
    BY <1>0, <1>2, <2>1, <2>4 DEF Good, r
<1>3. CASE c.op = "emptyDir" /\ Empties(node, c, b, k, e)
  BY <1>0, <1>3, EmptyLists DEF Good
<1>4. CASE c.op \in {"copy", "move"} /\ Copying(node, c, b, k, e)
  <2>1. CASE k = {} /\ b = <<SourceOf(c)>>
    <3>1. Head(b) = SourceOf(c) /\ Tail(b) = <<>>
      BY <2>1
    <3>2. node' = node /\ CopyClears(node', c, r, {})
      BY <1>4, <3>1, CopyStarts
    <3> QED
      BY <1>0, <1>4, <2>1, <3>2 DEF Good, Copying
  <2>2. CASE CopyClears(node, c, b, k)
    <3>1. k = {}
      BY <2>2 DEF CopyClears
    <3>2. WellFormed(node') /\ (CopyClears(node', c, r, {}) \/ CopyWorks(node', c, r, {}, e))
      BY <1>4, <2>2, <3>1, CopySweeps
    <3> QED
      BY <1>0, <1>4, <3>1, <3>2 DEF Good, Copying
  <2>3. CASE CopyWorks(node, c, b, k, e)
    BY <1>0, <1>4, <2>3, CopyMain DEF Good, Copying
  <2> QED
    BY <1>4, <2>1, <2>2, <2>3 DEF Copying
<1> QED
  BY <1>1, <1>2, <1>3, <1>4 DEF Good

\* A child runs an await.
LEMMA GoodKid ==
  ASSUME node \in Trees, WellFormed(node), NEW c \in Calls, NEW b, NEW k, NEW e,
         Good(node, c, b, k, e), NEW x \in k, x \in Body(c), x # <<>>, Await(Head(x))
  PROVE  /\ WellFormed(node') /\ c.op \notin FileCalls
         /\ Good(node', c, b, (k \ {x}) \cup ({After(Head(x)) \o Tail(x)} \ {<<>>}), e)
<1> DEFINE l == (k \ {x}) \cup ({After(Head(x)) \o Tail(x)} \ {<<>>})
<1>1. k # {}
  OBVIOUS
<1>2. CASE c.op = "emptyDir" /\ Empties(node, c, b, k, e)
  BY <1>2, EmptyKid DEF Good, FileCalls
<1>3. CASE c.op \in {"copy", "move"} /\ Copying(node, c, b, k, e)
  <2>1. CopyWorks(node, c, b, k, e)
    BY <1>1, <1>3, CopyHeads
  <2>2. WellFormed(node') /\ CopyWorks(node', c, b, l, e)
    BY <1>3, <2>1, CopyKid
  <2> QED
    BY <1>3, <2>2 DEF Good, Copying, FileCalls
<1> QED
  BY <1>1, <1>2, <1>3 DEF Good

\* The method starts a child.
LEMMA GoodSpawn ==
  ASSUME NEW t, NEW c \in Calls, NEW b \in Body(c), b # <<>>, NEW k, NEW e,
         Good(t, c, b, k, e), Head(b).do \in {"spawnCopy", "spawnRemove"}
  PROVE  Good(t, c, <<>> \o Tail(b),
              k \cup {<<IF Head(b).do = "spawnCopy" THEN [Head(b) EXCEPT !.do = "copyFile"]
                        ELSE [Head(b) EXCEPT !.do = "remove", !.flag = TRUE]>>}, e)
<1>1. /\ {"spawnCopy", "spawnRemove"} \cap Makes = {} /\ {"spawnCopy", "spawnRemove"} \cap Removes = {}
      /\ Head(b) = b[1] /\ 1 \in 1 .. Len(b)
  <2>1. Len(b) \in Nat \ {0}
    BY EmptySeq, LenProperties DEF Body
  <2> QED
    BY <2>1 DEF Makes, Removes, Body
<1>2. b \notin Seq(Making(c))
  <2> SUFFICES ASSUME b \in Seq(Making(c))
               PROVE  FALSE
    OBVIOUS
  <2> DEFINE M == Making(c)
  <2>1. b \in Seq(M)
    OBVIOUS
  <2> HIDE DEF M
  <2>2. b[1] \in M
    BY <1>1, <2>1, ElementOfSeq
  <2> QED
    BY <1>1, <2>2 DEF M, Making
<1>3. ~Removing(t, b)
  BY <1>1 DEF Removing
<1>4. CASE c.op = "emptyDir" /\ Empties(t, c, b, k, e)
  <2>1. Head(b).do = "spawnRemove" /\ Head(b).do # "spawnCopy"
    <3>1. CASE b = <<I("empty", c.path)>>
      <4>1. Head(b).do = "empty"
        BY <3>1 DEF I
      <4> QED
        BY <4>1
    <3>2. CASE \A j \in 1 .. Len(b) : b[j].do = "spawnRemove"
      BY <1>1, <3>2
    <3> QED
      BY <1>4, <3>1, <3>2 DEF Empties
  <2> QED
    BY <1>4, <2>1, EmptySpawns DEF Good
<1>5. CASE c.op \in {"copy", "move"} /\ Copying(t, c, b, k, e)
  <2>1. Head(b).do = "spawnCopy" /\ CopyWorks(t, c, b, k, e)
    BY <1>5, CopyHeads
  <2> QED
    BY <1>5, <2>1, CopySpawns DEF Good, Copying
<1> QED
  BY <1>2, <1>3, <1>4, <1>5 DEF Good

\* The walk of a copy enters a directory.
LEMMA GoodEnters ==
  ASSUME NEW t, NEW c \in Calls, NEW b \in Body(c), b # <<>>, NEW k, NEW e,
         Good(t, c, b, k, e), Head(b).do = "entryDir"
  PROVE  Good(t, c, <<I("createDir", Head(b).to), [Head(b) EXCEPT !.do = "walk"]>> \o Tail(b), k, e)
<1>1. /\ "entryDir" \notin Makes /\ "entryDir" \notin Removes
      /\ Head(b) = b[1] /\ 1 \in 1 .. Len(b)
  <2>1. Len(b) \in Nat \ {0}
    BY EmptySeq, LenProperties DEF Body
  <2> QED
    BY <2>1 DEF Makes, Removes, Body
<1>2. b \notin Seq(Making(c))
  <2> SUFFICES ASSUME b \in Seq(Making(c))
               PROVE  FALSE
    OBVIOUS
  <2> DEFINE M == Making(c)
  <2>1. b \in Seq(M)
    OBVIOUS
  <2> HIDE DEF M
  <2>2. b[1] \in M
    BY <1>1, <2>1, ElementOfSeq
  <2> QED
    BY <1>1, <2>2 DEF M, Making
<1>3. ~Removing(t, b)
  BY <1>1 DEF Removing
<1>4. ~Empties(t, c, b, k, e)
  <2>1. b # <<I("empty", c.path)>>
    <3> SUFFICES ASSUME b = <<I("empty", c.path)>>
                 PROVE  FALSE
      OBVIOUS
    <3>1. Head(b).do = "empty"
      BY DEF I
    <3> QED
      BY <3>1
  <2> QED
    BY <1>1, <2>1 DEF Empties
<1>5. CASE c.op \in {"copy", "move"} /\ Copying(t, c, b, k, e)
  <2>1. CopyWorks(t, c, b, k, e)
    BY <1>5, CopyHeads
  <2> QED
    BY <1>5, <2>1, CopyEnters DEF Good, Copying
<1> QED
  BY <1>2, <1>3, <1>4, <1>5 DEF Good

\* A call that has failed gives up what it has left, and waits for its children.
LEMMA GoodEnds ==
  ASSUME NEW t, NEW c \in Calls, NEW b, NEW k, NEW e, Good(t, c, b, k, e), NEW l \in SUBSET k
  PROVE  Good(t, c, b, l, TRUE) /\ Good(t, c, <<>>, l, TRUE)
<1>1. Len(<<>>) = 0 /\ \A j \in 1 .. Len(<<>>) : FALSE
  BY EmptySeq
<1>2. CASE /\ c.op \in FileCalls \cup {"mkdir", "getDirectoryHandle"}
           /\ k = {} /\ b \in Seq(Making(c)) /\ Building(t, b)
  BY <1>2, BuildNone, Programs DEF Good
<1>3. CASE c.op \in {"remove", "move"} /\ k = {} /\ Removing(t, b)
  BY <1>1, <1>3 DEF Good, Removing, Sweeping
<1>4. CASE c.op = "emptyDir" /\ Empties(t, c, b, k, e)
  BY <1>1, <1>4 DEF Good, Empties
<1>5. CASE c.op \in {"copy", "move"} /\ Copying(t, c, b, k, e)
  <2>1. CASE CopyWorks(t, c, b, k, e)
    BY <1>5, <2>1, CopyEnds DEF Good, Copying
  <2>2. CASE k = {} /\ (b = <<SourceOf(c)>> \/ CopyClears(t, c, b, k))
    <3>1. CopyWorks(t, c, <<>>, {}, TRUE)
      BY Programs, BuildNone DEF CopyWorks
    <3>2. l = {}
      BY <2>2
    <3> QED
      BY <1>5, <2>2, <3>1, <3>2 DEF Good, Copying
  <2> QED
    BY <1>5, <2>1, <2>2 DEF Copying, CopyClears
<1> QED
  BY <1>2, <1>3, <1>4, <1>5 DEF Good

----------------------------------------------------------------------------
(* How a call begins.                                                      *)

\* b can be run under the lock in any well-formed tree.
Ready(c, b) == \A t \in Trees : WellFormed(t) => Good(t, c, b, {}, FALSE)

\* What is left after the release: nothing, or the second half of a move.
Later(c, r) ==
  \/ r = <<>>
  \/ /\ c.op = "move"
     /\ \E b \in Body(c) : r = <<I("lock", LockOf(c))>> \o Frame(c, b, <<>>) /\ Ready(c, b)

\* t takes the lock, does what is ready to be done, and releases.
Waits(c, t) ==
  \E b \in Body(c), r \in Rests(c) :
    t = <<I("lock", LockOf(c))>> \o Frame(c, b, r) /\ Ready(c, b) /\ Later(c, r)

\* t may look before it takes the lock.
Begins(c, t) == Waits(c, t) \/ \E x \in Asks(c), w \in Locking(c) : t = <<x>> \o w /\ Waits(c, w)

\* Without a failure a call has more to keep.
LEMMA GoodAlso ==
  ASSUME NEW t, NEW c, NEW b, NEW k, NEW e, Good(t, c, b, k, FALSE)
  PROVE  Good(t, c, b, k, e)
<1>1. Empties(t, c, b, k, FALSE) => Empties(t, c, b, k, e)
  BY DEF Empties
<1>2. Copying(t, c, b, k, FALSE) => Copying(t, c, b, k, e)
  BY DEF Copying, CopyWorks
<1> QED
  BY <1>1, <1>2 DEF Good

\* One section under the lock.
LEMMA OneSection ==
  ASSUME NEW c \in Calls, NEW b \in Body(c), Ready(c, b)
  PROVE  Waits(c, <<I("lock", LockOf(c))>> \o Frame(c, b, <<>>))
<1> DEFINE e == <<>>
<1>1. e \in Rests(c) /\ Later(c, e)
  BY Shapes DEF Later
<1> HIDE DEF e
<1>2. Waits(c, <<I("lock", LockOf(c))>> \o Frame(c, b, e))
  BY <1>1 DEF Waits
<1> QED
  BY <1>2 DEF e

\* A file call that makes no parents checks its directory before it writes.
LEMMA ReadyFile ==
  ASSUME NEW c \in Calls, c.op \in FileCalls, NEW p \in Ops
  PROVE  /\ Ready(c, <<I("parentDir", c.path), I("notDir", c.path),
                       [I("write", c.path) EXCEPT !.data = p]>>)
         /\ Ready(c, <<I("parentDir", c.path), I("createFile", c.path)>>)
         /\ <<I("parentDir", c.path), I("notDir", c.path),
              [I("write", c.path) EXCEPT !.data = p]>> \in Body(c)
         /\ <<I("parentDir", c.path), I("createFile", c.path)>> \in Body(c)
<1> DEFINE f == c.path
           x == I("parentDir", f)
           y == I("notDir", f)
           z == [I("write", f) EXCEPT !.data = p]
           h == I("createFile", f)
           M == Making(c)
<1>1. /\ x.do = "parentDir" /\ x.path = f /\ y.do = "notDir" /\ y.path = f
      /\ z.do = "write" /\ z.path = f /\ h.do = "createFile" /\ h.path = f
  BY DEF I
<1>2. f \in Zone(c)
  <2>1. c.path \in Names /\ c.op # "copy"
    BY CallPaths DEF FileCalls
  <2> QED
    BY <2>1 DEF Zone
<1>3. x \in Doing(c) /\ y \in Doing(c) /\ z \in Doing(c) /\ h \in Doing(c)
  <2>1. "parentDir" \in Makes /\ "notDir" \in Makes /\ "write" \in Makes /\ "createFile" \in Makes
    BY DEF Makes
  <2> HIDE DEF f
  <2> QED
    BY <1>2, <2>1, WorkAt
<1> HIDE DEF x, y, z, h
<1>4. x \in M /\ y \in M /\ z \in M /\ h \in M
  BY <1>1, <1>3 DEF Making, Makes
<1> DEFINE q == <<x, y, z>>
           r == <<x, h>>
<1>5. /\ Len(q) = 3 /\ q[1] = x /\ q[2] = y /\ q[3] = z
      /\ Len(r) = 2 /\ r[1] = x /\ r[2] = h
  OBVIOUS
<1>6. q \in Seq(M) /\ r \in Seq(M) /\ q \in Body(c) /\ r \in Body(c)
  <2>1. q \in Body(c) /\ r \in Body(c)
    BY <1>3 DEF Body
  <2> HIDE DEF M
  <2>2. q \in Seq(M) /\ r \in Seq(M)
    BY <1>4
  <2> QED
    BY <2>1, <2>2
<1> HIDE DEF q, r
<1>7. ASSUME NEW t \in Trees, WellFormed(t)
      PROVE  Building(t, q) /\ Building(t, r)
  <2>1. /\ Place(x) = <<>> /\ Place(y) = <<>> /\ Place(z) = dirname(f) /\ Place(h) = dirname(f)
        /\ Gives(x, dirname(f)) /\ t[<<>>] = "dir"
        /\ x.do \in Builds /\ y.do \in Builds /\ z.do \in Builds /\ h.do \in Builds
    BY <1>1, <1>7 DEF Place, Gives, WellFormed, Builds
  <2>2. Building(t, q)
    <3>1. ASSUME NEW j \in 1 .. 3
          PROVE  /\ q[j].do \in Builds /\ q[j].do # "setFile"
                 /\ t[Place(q[j])] = "dir" \/ \E m \in 1 .. j - 1 : Gives(q[m], Place(q[j]))
      <4>1. CASE j = 1
        BY <1>1, <1>5, <2>1, <4>1
      <4>2. CASE j = 2
        BY <1>1, <1>5, <2>1, <4>2
      <4>3. CASE j = 3
        <5>1. 1 \in 1 .. j - 1
          BY <4>3
        <5> QED
          BY <1>1, <1>5, <2>1, <4>3, <5>1
      <4> QED
        BY <4>1, <4>2, <4>3
    <3> QED
      BY <1>5, <3>1 DEF Building
  <2>3. Building(t, r)
    <3>1. ASSUME NEW j \in 1 .. 2
          PROVE  /\ r[j].do \in Builds /\ r[j].do # "setFile"
                 /\ t[Place(r[j])] = "dir" \/ \E m \in 1 .. j - 1 : Gives(r[m], Place(r[j]))
      <4>1. CASE j = 1
        BY <1>1, <1>5, <2>1, <4>1
      <4>2. CASE j = 2
        <5>1. 1 \in 1 .. j - 1
          BY <4>2
        <5> QED
          BY <1>1, <1>5, <2>1, <4>2, <5>1
      <4> QED
        BY <4>1, <4>2
    <3> QED
      BY <1>5, <3>1 DEF Building
  <2> QED
    BY <2>2, <2>3
<1>8. Ready(c, q) /\ Ready(c, r)
  BY <1>6, <1>7 DEF Ready, Good
<1> QED
  BY <1>6, <1>8 DEF q, r, x, y, z, h

\* A call that makes directories makes or checks them from the root down.
LEMMA ReadyDirectory ==
  ASSUME NEW c \in Calls, c.op \in {"mkdir", "getDirectoryHandle"}
  PROVE  /\ Ready(c, EnsureParents(c.path)) /\ EnsureParents(c.path) \in Body(c)
         /\ Ready(c, <<I("missing", c.path), I("parentDir", c.path), I("createDir", c.path)>>)
         /\ Ready(c, <<I("parentDir", c.path), I("ensure", c.path)>>)
         /\ <<I("missing", c.path), I("parentDir", c.path), I("createDir", c.path)>> \in Body(c)
         /\ <<I("parentDir", c.path), I("ensure", c.path)>> \in Body(c)
<1> DEFINE f == c.path
           x == I("missing", f)
           y == I("parentDir", f)
           z == I("createDir", f)
           h == I("ensure", f)
           M == Making(c)
           l == EnsureParents(f)
<1>1. /\ x.do = "missing" /\ y.do = "parentDir" /\ y.path = f
      /\ z.do = "createDir" /\ z.path = f /\ h.do = "ensure" /\ h.path = f
  BY DEF I
<1>2. f \in Names /\ Zone(c) = Names
  BY CallPaths DEF Zone, FileCalls
<1>3. x \in Doing(c) /\ y \in Doing(c) /\ z \in Doing(c) /\ h \in Doing(c)
  <2>1. /\ "missing" \in Makes /\ "parentDir" \in Makes /\ "createDir" \in Makes
        /\ "ensure" \in Makes /\ "old" \in Content
    BY DEF Makes, Content
  <2> HIDE DEF f
  <2> QED
    BY <1>2, <2>1 DEF I, Doing, Work, Deeds
<1> HIDE DEF x, y, z, h
<1>4. x \in M /\ y \in M /\ z \in M /\ h \in M
  BY <1>1, <1>3 DEF Making, Makes
<1> DEFINE q == <<x, y, z>>
           r == <<y, h>>
<1>5. /\ Len(q) = 3 /\ q[1] = x /\ q[2] = y /\ q[3] = z
      /\ Len(r) = 2 /\ r[1] = y /\ r[2] = h
  OBVIOUS
<1>6. q \in Seq(M) /\ r \in Seq(M) /\ q \in Body(c) /\ r \in Body(c)
  <2>1. q \in Body(c) /\ r \in Body(c)
    BY <1>3 DEF Body
  <2> HIDE DEF M
  <2>2. q \in Seq(M) /\ r \in Seq(M)
    BY <1>4
  <2> QED
    BY <2>1, <2>2
<1> HIDE DEF q, r
<1>7. ASSUME NEW t \in Trees, WellFormed(t)
      PROVE  Building(t, q) /\ Building(t, r) /\ Building(t, l)
  <2>1. /\ Place(x) = <<>> /\ Place(y) = <<>> /\ Place(z) = dirname(f) /\ Place(h) = dirname(f)
        /\ Gives(y, dirname(f)) /\ t[<<>>] = "dir"
        /\ x.do \in Builds /\ y.do \in Builds /\ z.do \in Builds /\ h.do \in Builds
    BY <1>1, <1>7 DEF Place, Gives, WellFormed, Builds
  <2>2. Building(t, q)
    <3>1. ASSUME NEW j \in 1 .. 3
          PROVE  /\ q[j].do \in Builds /\ q[j].do # "setFile"
                 /\ t[Place(q[j])] = "dir" \/ \E m \in 1 .. j - 1 : Gives(q[m], Place(q[j]))
      <4>1. CASE j = 1
        BY <1>1, <1>5, <2>1, <4>1
      <4>2. CASE j = 2
        BY <1>1, <1>5, <2>1, <4>2
      <4>3. CASE j = 3
        <5>1. 2 \in 1 .. j - 1
          BY <4>3
        <5> QED
          BY <1>1, <1>5, <2>1, <4>3, <5>1
      <4> QED
        BY <4>1, <4>2, <4>3
    <3> QED
      BY <1>5, <3>1 DEF Building
  <2>3. Building(t, r)
    <3>1. ASSUME NEW j \in 1 .. 2
          PROVE  /\ r[j].do \in Builds /\ r[j].do # "setFile"
                 /\ t[Place(r[j])] = "dir" \/ \E m \in 1 .. j - 1 : Gives(r[m], Place(r[j]))
      <4>1. CASE j = 1
        BY <1>1, <1>5, <2>1, <4>1
      <4>2. CASE j = 2
        <5>1. 1 \in 1 .. j - 1
          BY <4>2
        <5> QED
          BY <1>1, <1>5, <2>1, <4>2, <5>1
      <4> QED
        BY <4>1, <4>2
    <3> QED
      BY <1>5, <3>1 DEF Building
  <2>4. Building(t, l)
    BY <1>2, <2>1, EnsureBuilds
  <2> QED
    BY <2>2, <2>3, <2>4
<1>8. l \in Body(c) /\ l \in Seq(M)
  <2>1. l \in Body(c)
    BY <1>2, ParentsAt
  <2>2. Len(l) = Len(f) /\ Len(l) \in Nat /\ \A k \in 1 .. Len(f) : l[k] = I("ensure", SubSeq(f, 1, k))
    BY <1>2, LenProperties DEF EnsureParents, Names
  <2>3. ASSUME NEW k \in 1 .. Len(f)
        PROVE  l[k] \in M
    <3>1. l[k] \in Doing(c)
      <4> DEFINE D == Doing(c)
      <4>1. l \in Seq(D) /\ k \in 1 .. Len(l)
        BY <2>1, <2>2 DEF Body
      <4> HIDE DEF D, l
      <4>2. l[k] \in D
        BY <4>1, ElementOfSeq
      <4> QED
        BY <4>2 DEF D
    <3>2. l[k].do = "ensure"
      <4>1. \A g : I("ensure", g).do = "ensure"
        BY DEF I
      <4> HIDE DEF l
      <4> QED
        BY <2>2, <4>1
    <3> QED
      BY <3>1, <3>2 DEF Making, Makes
  <2>4. l \in [1 .. Len(f) -> M]
    BY <2>3 DEF EnsureParents
  <2> HIDE DEF M, l
  <2> QED
    BY <2>1, <2>2, <2>4, Programs
<1>9. Ready(c, q) /\ Ready(c, r) /\ Ready(c, l)
  <2> HIDE DEF l
  <2> QED
    BY <1>6, <1>7, <1>8 DEF Ready, Good
<1> QED
  BY <1>6, <1>8, <1>9 DEF q, r, x, y, z, h, l

\* A call that removes, copies or empties.
LEMMA ReadyTree ==
  ASSUME NEW c \in Calls
  PROVE  /\ c.op \in {"remove", "move"} => \A b \in BOOLEAN :
              Ready(c, <<[I("remove", c.path) EXCEPT !.flag = b]>>)
         /\ c.op = "emptyDir" => Ready(c, <<I("empty", c.path)>>)
         /\ c.op \in {"copy", "move"} => Ready(c, <<SourceOf(c)>>)
<1>1. ASSUME c.op \in {"remove", "move"}, NEW b \in BOOLEAN
      PROVE  Ready(c, <<[I("remove", c.path) EXCEPT !.flag = b]>>)
  <2> DEFINE x == [I("remove", c.path) EXCEPT !.flag = b]
             q == <<x>>
  <2>1. x.do = "remove" /\ x.path = c.path
    BY DEF I
  <2> HIDE DEF x
  <2>2. Len(q) = 1 /\ q[1] = x
    OBVIOUS
  <2> HIDE DEF q
  <2>3. c.path \in Nodes /\ c.path # <<>>
    BY <1>1, FacadeAssumption
  <2>4. \A t : Removing(t, q) /\ Due(q, c.path)
    BY <2>1, <2>2, <2>3 DEF Removing, Sweeping, Sweeps, Removes, Due
  <2> QED
    BY <1>1, <2>4 DEF Ready, Good, q, x
<1>2. ASSUME c.op = "emptyDir"
      PROVE  Ready(c, <<I("empty", c.path)>>)
  BY <1>2 DEF Ready, Good, Empties
<1>3. ASSUME c.op \in {"copy", "move"}
      PROVE  Ready(c, <<SourceOf(c)>>)
  BY <1>3 DEF Ready, Good, Copying
<1> QED
  BY <1>1, <1>2, <1>3

\* A section, written with what comes before it and after it.
LEMMA Written ==
  ASSUME NEW S, NEW u \in S, NEW v \in S, NEW m \in Seq(S)
  PROVE  /\ (<<u>> \o <<>>) \o (m \o <<v>>) = <<u>> \o (m \o (<<v>> \o <<>>))
         /\ (<<u>> \o m) \o <<v>> = <<u>> \o (m \o (<<v>> \o <<>>))
<1>1. /\ <<u>> \in Seq(S) /\ <<v>> \in Seq(S) /\ <<v>> \o <<>> = <<v>>
      /\ m \o <<v>> \in Seq(S) /\ <<u>> \o <<>> = <<u>>
  BY Programs, ConcatEmptySeq
<1>2. (<<u>> \o m) \o <<v>> = <<u>> \o (m \o <<v>>)
  BY <1>1, ConcatAssociative
<1> QED
  BY <1>1, <1>2

\* The same after an await without the lock.
LEMMA WrittenAfter ==
  ASSUME NEW S, NEW a \in S, NEW u \in S, NEW v \in S, NEW m \in Seq(S)
  PROVE  (<<a, u>> \o <<>>) \o (m \o <<v>>) = <<a>> \o (<<u>> \o (m \o (<<v>> \o <<>>)))
<1>1. /\ <<u>> \in Seq(S) /\ <<v>> \in Seq(S) /\ <<a>> \in Seq(S) /\ <<v>> \o <<>> = <<v>>
      /\ m \o <<v>> \in Seq(S)
  BY Programs, ConcatEmptySeq
<1>3. <<a, u>> = <<a>> \o <<u>>
  BY Rows
<1>6. <<a>> \o <<u>> \in Seq(S)
  BY <1>1, Programs
<1>4. <<a, u>> \o <<>> = <<a>> \o <<u>>
  BY <1>3, <1>6, ConcatEmptySeq
<1>5. (<<a>> \o <<u>>) \o (m \o <<v>>) = <<a>> \o (<<u>> \o (m \o <<v>>))
  BY <1>1, ConcatAssociative
<1> QED
  BY <1>1, <1>4, <1>5

\* A file call that makes no parents begins so.
LEMMA FileBegins ==
  ASSUME NEW c \in Calls, NEW p \in Ops, c.op \in FileCalls, ~c.flag
  PROVE  Begins(c, WriteProgram(c, p)) /\ Begins(c, GetFileHandleProgram(c))
<1> DEFINE f == c.path
           u == I("lock", LockOf(c))
           v == I("unlock", LockOf(c))
           S == Steps(c)
           a0 == I("lookup", f)
           a1 == I("parentDir", f)
           a2 == I("notDir", f)
           a3 == I("createFile", f)
           w == [I("write", f) EXCEPT !.data = p]
           x == <<a1, a2, w>>
           y == <<a1, a3>>
<1>1. LockOf(c) = f
  BY CallPaths
<1>2. /\ Ready(c, x) /\ Ready(c, y) /\ x \in Body(c) /\ y \in Body(c)
  BY ReadyFile
<1>3. u \in S /\ v \in S /\ a0 \in S /\ a0 \in Asks(c) /\ x \in Seq(S) /\ y \in Seq(S)
  BY <1>2, Shapes DEF Steps, Asks
<1>4. WriteProgram(c, p) = (<<u>> \o <<>>) \o <<a1, a2, w, v>>
  BY <1>1 DEF WriteProgram, If
<1>5. GetFileHandleProgram(c) = (<<a0, u>> \o <<>>) \o <<a1, a3, v>>
  BY <1>1 DEF GetFileHandleProgram, If
<1>6. <<a1, a2, w, v>> = x \o <<v>> /\ <<a1, a3, v>> = y \o <<v>>
  <2> HIDE DEF a1, a2, a3, w, v
  <2> QED
    OBVIOUS
<1> HIDE DEF S, a0, x, y
<1>7. Waits(c, <<u>> \o Frame(c, x, <<>>)) /\ Waits(c, <<u>> \o Frame(c, y, <<>>))
  BY <1>2, OneSection
<1>8. <<u>> \o Frame(c, y, <<>>) \in Locking(c)
  <2> DEFINE e == <<>>
  <2>1. e \in Rests(c)
    BY Shapes
  <2> HIDE DEF e
  <2>2. Frame(c, y, e) \in Running(c)
    BY <1>2, <2>1, Shapes
  <2>3. <<u>> \o Frame(c, y, e) \in Locking(c)
    BY <2>2, Shapes
  <2> QED
    BY <2>3 DEF e
<1>9. /\ Frame(c, x, <<>>) = x \o (<<v>> \o <<>>) /\ Frame(c, y, <<>>) = y \o (<<v>> \o <<>>)
  BY DEF Frame
<1> HIDE DEF u, v, a1, a2, a3, w
<1>10. WriteProgram(c, p) = <<u>> \o Frame(c, x, <<>>)
  <2>1. (<<u>> \o <<>>) \o (x \o <<v>>) = <<u>> \o (x \o (<<v>> \o <<>>))
    BY <1>3, Written
  <2> QED
    BY <1>4, <1>6, <1>9, <2>1
<1>11. GetFileHandleProgram(c) = <<a0>> \o (<<u>> \o Frame(c, y, <<>>))
  <2> DEFINE all(z) == (<<a0, u>> \o <<>>) \o (z \o <<v>>) = <<a0>> \o (<<u>> \o (z \o (<<v>> \o <<>>)))
  <2>1. a0 \in S /\ u \in S /\ v \in S
    BY <1>3
  <2>2. ASSUME NEW z \in Seq(S)
        PROVE  all(z)
    BY ZenonT(60), <2>1, WrittenAfter
  <2> HIDE DEF all
  <2>3. all(y)
    BY <1>3, <2>2
  <2>4. (<<a0, u>> \o <<>>) \o (y \o <<v>>) = <<a0>> \o (<<u>> \o (y \o (<<v>> \o <<>>)))
    BY <2>3 DEF all
  <2> QED
    BY <1>5, <1>6, <1>9, <2>4
<1> QED
  BY <1>3, <1>7, <1>8, <1>10, <1>11 DEF Begins

\* Every call begins with what is ready to be done, if no file call makes parents.
LEMMA ProgramBegins ==
  ASSUME NoParents, NEW c \in Calls, NEW p \in Ops
  PROVE  Begins(c, Program(c, p))
<1> DEFINE u == I("lock", LockOf(c))
           v == I("unlock", LockOf(c))
<1>1. c.op \in FileCalls \cup TreeCalls /\ c.flag \in BOOLEAN
  BY CallPaths
<1>2. CASE c.op \in FileCalls
  BY <1>2, FileBegins DEF Program, FileCalls, NoParents
<1>3. c.op \in TreeCalls => LockOf(c) = Tree
  BY CallPaths
<1>4. ASSUME NEW a \in Doing(c), Ready(c, <<a>>)
      PROVE  Waits(c, <<u, a, v>>)
  <2>1. <<a>> \in Body(c) /\ <<u, a, v>> = <<u>> \o Frame(c, <<a>>, <<>>)
    BY OneAwait
  <2> DEFINE x == <<a>>
  <2>2. x \in Body(c) /\ Ready(c, x)
    BY <1>4, <2>1
  <2> HIDE DEF x
  <2>3. Waits(c, <<u>> \o Frame(c, x, <<>>))
    BY <2>2, OneSection
  <2> QED
    BY <2>1, <2>3 DEF x
<1>5. ASSUME NEW x \in Body(c), Ready(c, x)
      PROVE  Waits(c, (<<u>> \o x) \o <<v>>)
  <2> DEFINE S == Steps(c)
  <2>1. u \in S /\ v \in S /\ x \in Seq(S)
    BY Shapes DEF Steps
  <2> HIDE DEF S
  <2>2. Frame(c, x, <<>>) = x \o (<<v>> \o <<>>) /\ Waits(c, <<u>> \o Frame(c, x, <<>>))
    BY <1>5, OneSection DEF Frame
  <2> HIDE DEF u, v
  <2>3. (<<u>> \o x) \o <<v>> = <<u>> \o (x \o (<<v>> \o <<>>))
    BY <2>1, Written
  <2> QED
    BY <2>2, <2>3
<1>6. CASE c.op \in {"mkdir", "getDirectoryHandle"}
  <2> DEFINE x == IF c.flag THEN EnsureParents(c.path)
                  ELSE <<I("missing", c.path), I("parentDir", c.path), I("createDir", c.path)>>
             y == IF c.flag THEN EnsureParents(c.path)
                  ELSE <<I("parentDir", c.path), I("ensure", c.path)>>
  <2>1. x \in Body(c) /\ Ready(c, x) /\ y \in Body(c) /\ Ready(c, y)
    BY <1>6, ReadyDirectory
  <2>2. /\ MkdirProgram(c) = (<<u>> \o x) \o <<v>>
        /\ GetDirectoryHandleProgram(c) = (<<u>> \o y) \o <<v>>
    BY <1>3, <1>6 DEF MkdirProgram, GetDirectoryHandleProgram, TreeCalls
  <2> HIDE DEF x, y
  <2>3. Waits(c, MkdirProgram(c)) /\ Waits(c, GetDirectoryHandleProgram(c))
    BY <1>5, <2>1, <2>2
  <2> QED
    BY <1>6, <2>3 DEF Program, Begins
<1>7. CASE c.op = "remove"
  <2> DEFINE a == [I("remove", c.path) EXCEPT !.flag = c.flag]
  <2>1. a \in Doing(c) /\ Ready(c, <<a>>) /\ Program(c, p) = <<u, a, v>>
    BY <1>1, <1>3, <1>7, ClearsAt, ReadyTree DEF Program, RemoveProgram, TreeCalls
  <2> HIDE DEF a
  <2> QED
    BY <1>4, <2>1 DEF Begins
<1>8. CASE c.op = "copy"
  <2> DEFINE a == SourceOf(c)
  <2>1. a \in Doing(c) /\ Ready(c, <<a>>) /\ Program(c, p) = <<u, a, v>>
    BY <1>3, <1>8, ClearsAt, ReadyTree DEF Program, CopyProgram, SourceOf, TreeCalls
  <2> HIDE DEF a
  <2> QED
    BY <1>4, <2>1 DEF Begins
<1>9. CASE c.op = "move"
  <2> DEFINE a == SourceOf(c)
             d == [I("remove", c.path) EXCEPT !.flag = TRUE]
             r == <<u, d, v>>
  <2>1. /\ a \in Doing(c) /\ Ready(c, <<a>>) /\ Program(c, p) = <<u, a, v>> \o r
        /\ d \in Doing(c) /\ Ready(c, <<d>>)
    BY <1>3, <1>9, ClearsAt, ReadyTree
       DEF Program, MoveProgram, CopyProgram, RemoveProgram, SourceOf, TreeCalls
  <2> HIDE DEF a, d
  <2> DEFINE x == <<a>>
             y == <<d>>
  <2>2. r = <<u>> \o Frame(c, y, <<>>) /\ x \in Body(c) /\ y \in Body(c)
    BY <2>1, OneAwait
  <2>3. r \in Rests(c)
    <3> HIDE DEF y
    <3> QED
      BY <1>9, <2>2, Shapes
  <2>4. Later(c, r)
    BY <1>9, <2>1, <2>2 DEF Later
  <2>5. <<u, a, v>> \o r = <<u>> \o Frame(c, x, r)
    <3> HIDE DEF r
    <3> QED
      BY <2>1, <2>3, OneAwait
  <2>6. Waits(c, <<u>> \o Frame(c, x, r))
    <3>1. Ready(c, x)
      BY <2>1
    <3> HIDE DEF x, r
    <3> QED
      BY <2>2, <2>3, <2>4, <3>1 DEF Waits
  <2> QED
    BY <2>1, <2>5, <2>6 DEF Begins
<1>10. CASE c.op = "emptyDir"
  <2> DEFINE a == I("empty", c.path)
             d == I("isDir", c.path)
  <2>1. /\ a \in Doing(c) /\ Ready(c, <<a>>) /\ Program(c, p) = <<d, u, a, v>> /\ d \in Asks(c)
        /\ c.op \in TreeCalls /\ LockOf(c) = Tree
    BY <1>3, <1>10, ClearsAt, ReadyTree DEF Program, EmptyDirProgram, Asks, TreeCalls
  <2>2. <<u, a, v>> \in Locking(c)
    <3> HIDE DEF a
    <3> QED
      BY <2>1, SingleShape
  <2> HIDE DEF a, d
  <2>3. Waits(c, <<u, a, v>>)
    BY <1>4, <2>1
  <2>4. <<d, u, a, v>> = <<d>> \o <<u, a, v>>
    <3> HIDE DEF u, v
    <3> QED
      OBVIOUS
  <2> QED
    BY <2>1, <2>2, <2>3, <2>4 DEF Begins
<1> QED
  BY <1>1, <1>2, <1>6, <1>7, <1>8, <1>9, <1>10 DEF TreeCalls

----------------------------------------------------------------------------
(* The invariant of the trees: the records form a tree, and every call is  *)
(* about to do what its program still has to do in it.                     *)

\* A call c with the awaits t left, the children k, in stage s, failed if e, in the tree v.
InTree(v, c, t, k, s, e) ==
  /\ s # "held" /\ t # <<>> => Begins(c, t)
  /\ s = "held" => \E b \in Body(c), r \in Rests(c) :
       t = Frame(c, b, r) /\ Later(c, r) /\ Good(v, c, b, k, e)

InPlace(p) == InTree(node, call[p], todo[p], kids[p], stage[p], failed[p])

TreeInv == WellFormed(node) /\ \A p \in Ops : InPlace(p)

\* The first await of a section, and what takes its place.
LEMMA FrameSteps ==
  ASSUME NEW c \in Calls, NEW b \in Body(c), NEW r \in Rests(c)
  PROVE  /\ Frame(c, b, r) # <<>>
         /\ b = <<>> => /\ Head(Frame(c, b, r)) = I("unlock", LockOf(c))
                        /\ Tail(Frame(c, b, r)) = r
         /\ b # <<>> => /\ Head(Frame(c, b, r)) = Head(b) /\ Head(b) \in Doing(c)
                        /\ \A w \in Body(c) :
                             /\ w \o Tail(Frame(c, b, r)) = Frame(c, w \o Tail(b), r)
                             /\ w \o Tail(b) \in Body(c)
<1> DEFINE S == Steps(c)
           v == I("unlock", LockOf(c))
           e == <<v>> \o r
           q == Frame(c, b, r)
<1>1. v \in S /\ Body(c) \subseteq Seq(S) /\ b \in Seq(S) /\ r \in Seq(S)
  BY Shapes DEF Steps
<1> HIDE DEF S, v
<1>2. q = b \o e
  BY DEF Frame, v
<1>3. /\ e \in Seq(S) /\ e # <<>> /\ Head(e) = v /\ Tail(e) = r
  BY <1>1, Peel, Programs
<1> HIDE DEF e, q
<1>4. CASE b = <<>>
  <2>1. q = e
    BY <1>2, <1>3, <1>4, ConcatEmptySeq
  <2> QED
    BY <1>3, <1>4, <2>1 DEF v, q
<1>5. CASE b # <<>>
  <2>1. q # <<>> /\ Head(q) = Head(b) /\ Tail(q) = Tail(b) \o e
    BY <1>1, <1>2, <1>3, <1>5, Peel
  <2>2. Head(b) \in Doing(c) /\ Tail(b) \in Body(c)
    BY <1>5, HeadTailProperties DEF Body
  <2>3. ASSUME NEW w \in Body(c)
        PROVE  w \o Tail(q) = Frame(c, w \o Tail(b), r) /\ w \o Tail(b) \in Body(c)
    <3> DEFINE z == Tail(b)
    <3>1. w \in Seq(S) /\ z \in Seq(S)
      BY <1>1, <2>2
    <3>2. w \o z \in Body(c)
      BY <2>2, Programs DEF Body
    <3> HIDE DEF z
    <3>3. w \o (z \o e) = (w \o z) \o e
      <4>1. e \in Seq(S)
        BY <1>3
      <4> QED
        BY <3>1, <4>1, ConcatAssociative
    <3>4. Frame(c, w \o z, r) = (w \o z) \o e
      BY DEF Frame, e, v
    <3> QED
      BY <2>1, <3>2, <3>3, <3>4 DEF z
  <2> QED
    BY <1>5, <2>1, <2>2, <2>3 DEF q
<1> QED
  BY <1>4, <1>5

\* A call that has given up what it had left releases.
LEMMA FrameOfNothing ==
  ASSUME NEW c \in Calls
  PROVE  /\ <<I("unlock", LockOf(c))>> = Frame(c, <<>>, <<>>)
         /\ <<>> \in Body(c) /\ <<>> \in Rests(c) /\ Later(c, <<>>)
<1> DEFINE v == I("unlock", LockOf(c))
           S == {v}
<1>1. <<v>> \in Seq(S)
  OBVIOUS
<1> HIDE DEF v, S
<1>2. <<>> \o (<<v>> \o <<>>) = <<v>>
  BY <1>1, ConcatEmptySeq
<1>3. <<>> \in Body(c) /\ <<>> \in Rests(c) /\ Later(c, <<>>)
  BY Shapes, Programs DEF Later, Body
<1> QED
  BY <1>2, <1>3 DEF Frame, v

\* A call that waits for its lock has its section before it.
LEMMA WaitSteps ==
  ASSUME NEW c \in Calls, NEW t, Waits(c, t)
  PROVE  /\ t # <<>> /\ Head(t).do = "lock"
         /\ \E b \in Body(c), r \in Rests(c) :
              <<>> \o Tail(t) = Frame(c, b, r) /\ Ready(c, b) /\ Later(c, r)
<1>1. PICK b \in Body(c), r \in Rests(c) :
        t = <<I("lock", LockOf(c))>> \o Frame(c, b, r) /\ Ready(c, b) /\ Later(c, r)
  BY DEF Waits
<1> DEFINE w == Frame(c, b, r)
<1>2. w \in Running(c)
  BY Shapes
<1> HIDE DEF w
<1>3. <<I("lock", LockOf(c))>> \o w \in Locking(c) /\ w \in Seq(Steps(c))
  BY <1>2, Shapes
<1>4. t # <<>> /\ Head(t) = I("lock", LockOf(c)) /\ Tail(t) = w /\ <<>> \o w = w
  BY <1>1, <1>3, Peel DEF Steps, w
<1>5. Head(t).do = "lock"
  BY <1>4, OtherSteps
<1> QED
  BY <1>1, <1>4, <1>5 DEF w

\* A call that holds nothing waits for its lock, or looks before it does.
LEMMA BeginSteps ==
  ASSUME NEW c \in Calls, NEW t, Begins(c, t)
  PROVE  /\ t # <<>>
         /\ \/ Head(t).do = "lock" /\ Waits(c, t)
            \/ Head(t).do \in {"lookup", "isDir"} /\ Waits(c, Tail(t)) /\ <<>> \o Tail(t) = Tail(t)
<1>1. CASE Waits(c, t)
  BY <1>1, WaitSteps
<1>2. ASSUME NEW x \in Asks(c), NEW w \in Locking(c), t = <<x>> \o w, Waits(c, w)
      PROVE  /\ t # <<>> /\ Head(t).do \in {"lookup", "isDir"} /\ Waits(c, Tail(t))
             /\ <<>> \o Tail(t) = Tail(t)
  <2>1. x \in Steps(c) /\ w \in Seq(Steps(c))
    BY Shapes DEF Steps
  <2>2. t # <<>> /\ Head(t) = x /\ Tail(t) = w /\ <<>> \o w = w
    BY <1>2, <2>1, Peel
  <2> QED
    BY <1>2, <2>2, OtherSteps
<1> QED
  BY <1>1, <1>2 DEF Begins

\* After its copy a move begins again.
LEMMA LaterBegins ==
  ASSUME NEW c \in Calls, NEW r, Later(c, r), r # <<>>
  PROVE  Begins(c, r)
<1>1. PICK b \in Body(c) : r = <<I("lock", LockOf(c))>> \o Frame(c, b, <<>>) /\ Ready(c, b)
  BY DEF Later
<1>2. Waits(c, <<I("lock", LockOf(c))>> \o Frame(c, b, <<>>))
  BY <1>1, OneSection
<1> QED
  BY <1>1, <1>2 DEF Begins

\* What the invariant says of a call that has its next await.
LEMMA StandsAt ==
  ASSUME FacadeInv, NEW p \in Ops, InPlace(p), todo[p] # <<>>
  PROVE  /\ call[p] \in Calls /\ node \in Trees
         /\ stage[p] # "held" =>
              /\ kids[p] = {} /\ Begins(call[p], todo[p])
         /\ stage[p] = "held" =>
              /\ target[p] = LockOf(call[p])
              /\ \E b \in Body(call[p]), r \in Rests(call[p]) :
                   /\ todo[p] = Frame(call[p], b, r) /\ Later(call[p], r)
                   /\ Good(node, call[p], b, kids[p], failed[p])
         /\ \A x \in kids[p] : x \in Body(call[p]) /\ x # <<>>
<1>1. Fits(call[p], todo[p], kids[p], stage[p], target[p]) /\ node \in Trees
  BY CallFits DEF Trees
<1>2. InTree(node, call[p], todo[p], kids[p], stage[p], failed[p])
  BY DEF InPlace
<1>3. call[p] \in Calls
  BY <1>1 DEF Fits
<1>4. stage[p] = "held" => target[p] = LockOf(call[p])
  BY <1>1 DEF Fits
<1>5. stage[p] # "held" => kids[p] = {}
  BY <1>1 DEF Fits
<1>6. \A x \in kids[p] : x \in Body(call[p]) /\ x # <<>>
  BY <1>1 DEF Fits
<1> QED
  BY <1>1, <1>2, <1>3, <1>4, <1>5, <1>6 DEF InTree

\* A failed call is one that has failed.
LEMMA GoodFailed ==
  ASSUME NEW t, NEW c, NEW b, NEW k, NEW e, e, Good(t, c, b, k, TRUE)
  PROVE  Good(t, c, b, k, e)
<1>1. Empties(t, c, b, k, TRUE) => Empties(t, c, b, k, e)
  BY DEF Empties
<1>2. Copying(t, c, b, k, TRUE) => Copying(t, c, b, k, e)
  BY DEF Copying, CopyWorks
<1> QED
  BY <1>1, <1>2 DEF Good

\* What a step of p keeps: its tree, its own standing and, if it is a file call,
\* the directories that others have made or checked.
Advances(p) ==
  /\ WellFormed(node') /\ InPlace(p)'
  /\ call[p].op \in FileCalls => DirsStay(node, node')

\* A call starts with its program.
LEMMA StartStands ==
  ASSUME NoParents, FacadeInv, NEW p \in Ops, NEW c \in Calls, Start(p, c)
  PROVE  InPlace(p)'
<1>1. /\ todo[p] = <<>> /\ stage[p] = "idle"
      /\ call'[p] = c /\ todo'[p] = Program(c, p) /\ stage'[p] = stage[p]
  BY CallFits DEF Start, lockVars
<1>2. Begins(c, Program(c, p))
  BY ProgramBegins
<1>3. InTree(node', call'[p], todo'[p], kids'[p], stage'[p], failed'[p])
  BY <1>1, <1>2 DEF InTree
<1> QED
  BY <1>3 DEF InPlace

\* A call asks for its lock, or resumes with it and does what is ready.
LEMMA LockStands ==
  ASSUME FacadeInv, WellFormed(node), NEW p \in Ops, InPlace(p), AskLock(p) \/ ResumeLocking(p)
  PROVE  Advances(p)
<1> DEFINE c == call[p]
           t == todo[p]
<1>1. /\ t # <<>> /\ Head(t).do = "lock"
      /\ node' = node /\ call' = call /\ kids' = kids /\ failed' = failed
      /\ stage[p] # "held" /\ DOMAIN stage = Ops /\ DOMAIN todo = Ops
  BY CallFits DEF AskLock, ResumeLocking, At, AskTree, TreeHeld, FileHeld, AskFile
<1>2. c \in Calls /\ node \in Trees /\ kids[p] = {} /\ Begins(c, t)
  BY <1>1, StandsAt
<1>3. WellFormed(node') /\ DirsStay(node, node')
  BY <1>1 DEF DirsStay
<1>4. CASE todo'[p] = t /\ stage'[p] # "held"
  <2> HIDE DEF c, t
  <2>1. InTree(node', c, t, kids'[p], stage'[p], failed'[p])
    BY <1>2, <1>4 DEF InTree
  <2> QED
    BY <1>1, <1>3, <1>4, <2>1 DEF Advances, InPlace, c, t
<1>5. CASE todo'[p] = <<>> \o Tail(t) /\ stage'[p] = "held"
  <2> HIDE DEF c, t
  <2>1. Waits(c, t)
    BY <1>1, <1>2, BeginSteps
  <2>2. PICK b \in Body(c), r \in Rests(c) :
          <<>> \o Tail(t) = Frame(c, b, r) /\ Ready(c, b) /\ Later(c, r)
    BY <1>2, <2>1, WaitSteps
  <2>3. Good(node, c, b, {}, FALSE)
    BY <1>2, <2>2 DEF Ready
  <2>4. Good(node, c, b, {}, failed[p])
    BY <2>3, GoodAlso
  <2>5. InTree(node, c, Frame(c, b, r), {}, "held", failed[p])
    BY <2>2, <2>4 DEF InTree
  <2> QED
    BY <1>1, <1>2, <1>3, <1>5, <2>2, <2>5 DEF Advances, InPlace, c, t
<1>6. CASE AskLock(p)
  BY <1>1, <1>4, <1>6 DEF AskLock, AskTree, Become
<1>7. CASE ResumeLocking(p)
  <2>1. CASE (TreeHeld(p) \/ FileHeld(p)) /\ Proceed(p, <<>>)
    BY <1>1, <1>5, <2>1 DEF TreeHeld, FileHeld, Become, Proceed
  <2>2. CASE AskFile(p) /\ UNCHANGED todo
    BY <1>1, <1>4, <2>2 DEF AskFile, Become
  <2> QED
    BY <1>7, <2>1, <2>2 DEF ResumeLocking
<1> QED
  BY <1>6, <1>7

\* What the invariant says of a call under its lock.
LEMMA HeldAt ==
  ASSUME FacadeInv, NEW p \in Ops, InPlace(p), todo[p] # <<>>,
         Head(todo[p]).do \notin {"lock", "lookup", "isDir"}
  PROVE  /\ stage[p] = "held" /\ call[p] \in Calls /\ node \in Trees /\ target[p] = LockOf(call[p])
         /\ \E b \in Body(call[p]), r \in Rests(call[p]) :
              /\ todo[p] = Frame(call[p], b, r) /\ Later(call[p], r)
              /\ Good(node, call[p], b, kids[p], failed[p])
              /\ Head(todo[p]).do = "unlock" => b = <<>> /\ Tail(todo[p]) = r
              /\ Head(todo[p]).do # "unlock" => b # <<>> /\ Head(todo[p]) = Head(b)
<1> DEFINE c == call[p]
           t == todo[p]
<1>1. c \in Calls /\ node \in Trees
  BY StandsAt
<1>2. stage[p] = "held"
  <2> SUFFICES ASSUME stage[p] # "held"
               PROVE  FALSE
    OBVIOUS
  <2>1. Begins(c, t)
    BY StandsAt
  <2> HIDE DEF c, t
  <2>2. Head(t).do \in {"lock", "lookup", "isDir"}
    BY <1>1, <2>1, BeginSteps
  <2> QED
    BY <2>2 DEF t
<1>3. PICK b \in Body(c), r \in Rests(c) :
        t = Frame(c, b, r) /\ Later(c, r) /\ Good(node, c, b, kids[p], failed[p])
  BY <1>2, StandsAt
<1>4. target[p] = LockOf(c)
  BY <1>2, StandsAt
<1> HIDE DEF c, t
<1>5. CASE b = <<>>
  <2>1. Head(t) = I("unlock", LockOf(c)) /\ Tail(t) = r
    BY <1>1, <1>3, <1>5, FrameSteps
  <2>2. Head(t).do = "unlock"
    BY <2>1, OtherSteps
  <2> QED
    BY <1>1, <1>2, <1>3, <1>4, <1>5, <2>1, <2>2 DEF c, t
<1>6. CASE b # <<>>
  <2>1. Head(t) = Head(b) /\ Head(b) \in Doing(c)
    BY <1>1, <1>3, <1>6, FrameSteps
  <2>2. Head(t).do # "unlock"
    BY <2>1, OtherSteps
  <2> QED
    BY <1>1, <1>2, <1>3, <1>4, <1>6, <2>1, <2>2 DEF c, t
<1> QED
  BY <1>5, <1>6

\* A call releases, and a move begins its second half.
LEMMA UnlockStands ==
  ASSUME FacadeInv, WellFormed(node), NEW p \in Ops, InPlace(p), Unlock(p)
  PROVE  Advances(p)
<1> DEFINE c == call[p]
           t == todo[p]
<1>1. /\ t # <<>> /\ Head(t).do = "unlock" /\ node' = node /\ stage'[p] = "idle"
      /\ todo'[p] \in {<<>>, Tail(t)} /\ (todo'[p] # <<>> => call'[p] = c)
  BY CallFits DEF Unlock, At, MayEnd, ReleaseLocks, Become
<1>2. PICK r : Later(c, r) /\ Tail(t) = r
  BY <1>1, HeldAt
<1>3. c \in Calls
  BY <1>1, StandsAt
<1>4. WellFormed(node') /\ DirsStay(node, node')
  BY <1>1 DEF DirsStay
<1> HIDE DEF c, t
<1>5. todo'[p] # <<>> => Begins(c, todo'[p])
  BY <1>1, <1>2, <1>3, LaterBegins
<1>6. InTree(node', call'[p], todo'[p], kids'[p], stage'[p], failed'[p])
  BY <1>1, <1>5 DEF InTree
<1> QED
  BY <1>4, <1>6 DEF Advances, InPlace

\* A call looks before it takes its lock.
LEMMA LookStands ==
  ASSUME FacadeInv, WellFormed(node), NEW p \in Ops, InPlace(p), todo[p] # <<>>,
         Head(todo[p]).do \in {"lookup", "isDir"},
         node' = node, stage'[p] = stage[p],
         todo'[p] \in {<<>>, Tail(todo[p])}, todo'[p] # <<>> => call'[p] = call[p]
  PROVE  Advances(p)
<1> DEFINE c == call[p]
           t == todo[p]
<1>1. c \in Calls
  BY StandsAt
<1>2. stage[p] # "held"
  <2> SUFFICES ASSUME stage[p] = "held"
               PROVE  FALSE
    OBVIOUS
  <2>1. PICK b \in Body(c), r \in Rests(c) : t = Frame(c, b, r)
    BY StandsAt
  <2> HIDE DEF c, t
  <2>2. Head(t) = I("unlock", LockOf(c)) \/ Head(t) \in Doing(c)
    BY <1>1, <2>1, FrameSteps
  <2>3. Head(t).do = "unlock" \/ Head(t).do \in Deeds
    BY <2>2, OtherSteps
  <2>4. Head(t).do \in {"lookup", "isDir"}
    BY DEF t
  <2> QED
    BY <2>3, <2>4, OtherSteps
<1>3. Begins(c, t)
  BY <1>2, StandsAt
<1> HIDE DEF c, t
<1>4. Waits(c, Tail(t))
  <2>1. Head(t).do \in {"lookup", "isDir"}
    BY DEF t
  <2> QED
    BY <1>1, <1>3, <2>1, BeginSteps
<1>5. todo'[p] # <<>> => Begins(call'[p], todo'[p])
  BY <1>4 DEF Begins, c, t
<1>6. InTree(node', call'[p], todo'[p], kids'[p], stage'[p], failed'[p])
  BY <1>2, <1>5 DEF InTree
<1> QED
  BY <1>6 DEF Advances, InPlace, DirsStay

\* The method of a call runs an await.
LEMMA MainAwaitStands ==
  ASSUME FacadeInv, WellFormed(node), NEW p \in Ops, InPlace(p), MainAwait(p)
  PROVE  Advances(p)
<1> DEFINE c == call[p]
           t == todo[p]
           i == Head(t)
           w == After(i)
           k == kids[p]
           e == failed[p]
<1>1. /\ t # <<>> /\ Await(i) /\ todo'[p] = w \o Tail(t) /\ stage'[p] = stage[p]
      /\ call'[p] = c /\ kids'[p] = k /\ failed'[p] = e
  BY CallFits DEF MainAwait, Proceed, lockVars
<1>2. i.do \in Reads \cup {"setDir", "setFile", "delete"}
  BY <1>1 DEF Await, Read, SetRecord, Delete
<1>3. i.do \notin {"lock", "unlock", "lookup"}
  BY <1>2 DEF Reads
<1>4. CASE i.do = "isDir"
  <2>1. node' = node /\ w = <<>>
    BY <1>1, <1>4 DEF Await, Read, SetRecord, Delete, After
  <2>2. <<>> \o Tail(t) = Tail(t)
    <3>1. c \in Calls /\ (stage[p] # "held" => Begins(c, t))
      BY <1>1, StandsAt
    <3>2. stage[p] # "held"
      <4>1. Fits(c, t, k, stage[p], target[p])
        BY CallFits
      <4> HIDE DEF c, t, k
      <4> QED
        BY <1>1, <1>4, <4>1, HeadOf, OtherSteps DEF t
    <3> HIDE DEF c, t
    <3> QED
      BY <1>3, <3>1, <3>2, <1>4, BeginSteps
  <2>3. todo'[p] = Tail(t)
    BY <1>1, <2>1, <2>2
  <2> QED
    BY <1>1, <1>4, <2>1, <2>3, LookStands
<1>5. CASE i.do # "isDir"
  <2>1. /\ stage[p] = "held" /\ c \in Calls /\ node \in Trees
        /\ \E b \in Body(c), r \in Rests(c) :
             /\ t = Frame(c, b, r) /\ Later(c, r) /\ Good(node, c, b, k, e)
             /\ b # <<>> /\ i = Head(b)
    BY <1>1, <1>3, <1>5, HeldAt
  <2>2. PICK b \in Body(c), r \in Rests(c) :
             /\ t = Frame(c, b, r) /\ Later(c, r) /\ Good(node, c, b, k, e)
             /\ b # <<>> /\ i = Head(b)
    BY <2>1
  <2> HIDE DEF c, t, i, w, k, e
  <2>3. /\ WellFormed(node') /\ Good(node', c, After(Head(b)) \o Tail(b), k, e)
        /\ c.op \in FileCalls => DirsStay(node, node')
    BY <1>1, <2>1, <2>2, GoodAwait
  <2>4. Head(b) \in Doing(c)
    BY <2>1, <2>2, FrameSteps
  <2>5. w \in Body(c)
    BY <1>1, <2>1, <2>2, <2>4, AwaitKeeps DEF Trees, w
  <2>6. w \o Tail(t) = Frame(c, w \o Tail(b), r) /\ w \o Tail(b) \in Body(c)
    BY <2>1, <2>2, <2>5, FrameSteps
  <2>7. Good(node', c, w \o Tail(b), k, e)
    BY <2>2, <2>3 DEF w
  <2> DEFINE v == w \o Tail(b)
  <2>8. v \in Body(c) /\ w \o Tail(t) = Frame(c, v, r) /\ Good(node', c, v, k, e)
    BY <2>6, <2>7
  <2> HIDE DEF v
  <2>9. InTree(node', c, w \o Tail(t), k, "held", e)
    BY <2>2, <2>8 DEF InTree
  <2> QED
    BY <1>1, <2>1, <2>3, <2>9 DEF Advances, InPlace, c, t, k, e
<1> QED
  BY <1>4, <1>5

\* A call gives up what it has left, and waits for its children l.
LEMMA UnwindStands ==
  ASSUME FacadeInv, WellFormed(node), NEW p \in Ops, InPlace(p), Unwind(p), todo[p] # <<>>,
         node' = node, stage'[p] = stage[p],
         stage[p] = "held" =>
           failed'[p] /\ call'[p] = call[p] /\ Head(todo[p]).do \notin {"lock", "lookup", "isDir"},
         kids'[p] \subseteq kids[p]
  PROVE  Advances(p)
<1> DEFINE c == call[p]
           l == kids'[p]
<1>1. WellFormed(node') /\ DirsStay(node, node')
  BY DEF DirsStay
<1>2. todo'[p] = If(stage[p] = "held", <<I("unlock", target[p])>>)
  BY CallFits DEF Unwind
<1>3. CASE stage[p] # "held"
  <2>1. todo'[p] = <<>>
    BY <1>2, <1>3 DEF If
  <2>2. InTree(node', call'[p], todo'[p], kids'[p], stage'[p], failed'[p])
    BY <1>3, <2>1 DEF InTree
  <2> QED
    BY <1>1, <2>2 DEF Advances, InPlace
<1>4. CASE stage[p] = "held"
  <2>1. PICK b \in Body(c) : Good(node, c, b, kids[p], failed[p])
    BY <1>4, HeldAt
  <2>2. c \in Calls /\ target[p] = LockOf(c)
    BY <1>4, HeldAt
  <2>3. todo'[p] = <<I("unlock", LockOf(c))>>
    BY <1>2, <1>4, <2>2 DEF If
  <2>4. l \in SUBSET kids[p]
    OBVIOUS
  <2> HIDE DEF c, l
  <2>5. Good(node, c, <<>>, l, TRUE)
    BY <2>1, <2>2, <2>4, GoodEnds
  <2>6. Good(node, c, <<>>, l, failed'[p])
    BY <1>4, <2>5, GoodFailed
  <2>7. todo'[p] = Frame(c, <<>>, <<>>)
    BY <2>2, <2>3, FrameOfNothing
  <2> DEFINE x == <<>>
  <2>8. x \in Body(c) /\ x \in Rests(c) /\ Later(c, x) /\ todo'[p] = Frame(c, x, x)
        /\ Good(node, c, x, l, failed'[p])
    BY <2>2, <2>6, <2>7, FrameOfNothing
  <2> HIDE DEF x
  <2>9. InTree(node, c, todo'[p], l, "held", failed'[p])
    BY <2>8 DEF InTree
  <2> QED
    BY <1>1, <1>4, <2>9 DEF Advances, InPlace, c, l
<1> QED
  BY <1>3, <1>4

\* A method throws, or a copy stops walking.
LEMMA ThrowStands ==
  ASSUME FacadeInv, WellFormed(node), NEW p \in Ops, InPlace(p), Throw(p) \/ BreakWalk(p)
  PROVE  Advances(p)
<1>1. CASE Throw(p)
  <2>1. /\ todo[p] # <<>> /\ Head(todo[p]).do # "lock" /\ Unwind(p)
        /\ node' = node /\ stage'[p] = stage[p] /\ kids'[p] \subseteq kids[p]
        /\ stage[p] = "held" => failed'[p] /\ call'[p] = call[p]
    BY <1>1, CallFits DEF Throw, At, lockVars
  <2>2. stage[p] = "held" => Head(todo[p]).do \notin {"lookup", "isDir"}
    <3>1. Fits(call[p], todo[p], kids[p], stage[p], target[p])
      BY CallFits
    <3> QED
      BY <2>1, <3>1, HeadOf, OtherSteps
  <2> QED
    BY <2>1, <2>2, UnwindStands
<1>2. CASE BreakWalk(p)
  <2>1. /\ todo[p] # <<>> /\ Head(todo[p]).do \in {"entryDir", "spawnCopy"} /\ Unwind(p)
        /\ node' = node /\ stage'[p] = stage[p] /\ kids'[p] \subseteq kids[p]
        /\ failed'[p] /\ call'[p] = call[p]
    BY <1>2 DEF BreakWalk, At, lockVars
  <2> QED
    BY <2>1, UnwindStands
<1> QED
  BY <1>1, <1>2

\* The walk of a copy enters a directory, or a child starts.
LEMMA WalkStands ==
  ASSUME FacadeInv, WellFormed(node), NEW p \in Ops, InPlace(p), EntryDir(p) \/ Spawn(p)
  PROVE  Advances(p)
<1> DEFINE c == call[p]
           t == todo[p]
           i == Head(t)
           e == failed[p]
           x == IF i.do = "spawnCopy" THEN [i EXCEPT !.do = "copyFile"]
                ELSE [i EXCEPT !.do = "remove", !.flag = TRUE]
           y == <<I("createDir", i.to), [i EXCEPT !.do = "walk"]>>
<1>1. /\ t # <<>> /\ i.do \in {"entryDir", "spawnCopy", "spawnRemove"}
      /\ node' = node /\ stage'[p] = stage[p] /\ call'[p] = c /\ failed'[p] = e
  BY DEF EntryDir, Spawn, At, lockVars
<1>2. i.do \in Deeds /\ i.do \notin {"lock", "unlock", "lookup", "isDir"}
  BY <1>1 DEF Deeds, Copies, Clears
<1>3. /\ stage[p] = "held" /\ c \in Calls
      /\ \E b \in Body(c), r \in Rests(c) :
           /\ t = Frame(c, b, r) /\ Later(c, r) /\ Good(node, c, b, kids[p], e)
           /\ b # <<>> /\ i = Head(b)
  BY <1>1, <1>2, HeldAt
<1>4. PICK b \in Body(c), r \in Rests(c) :
           /\ t = Frame(c, b, r) /\ Later(c, r) /\ Good(node, c, b, kids[p], e)
           /\ b # <<>> /\ i = Head(b)
  BY <1>3
<1>5. WellFormed(node') /\ DirsStay(node, node')
  BY <1>1 DEF DirsStay
<1>6. ASSUME NEW w \in Body(c), NEW k, todo'[p] = w \o Tail(t), kids'[p] = k,
             Good(node, c, w \o Tail(b), k, e)
      PROVE  Advances(p)
  <2> HIDE DEF c, t, i, e
  <2>1. w \o Tail(t) = Frame(c, w \o Tail(b), r) /\ w \o Tail(b) \in Body(c)
    BY <1>3, <1>4, FrameSteps
  <2> DEFINE v == w \o Tail(b)
  <2>2. v \in Body(c) /\ w \o Tail(t) = Frame(c, v, r) /\ Good(node, c, v, k, e)
    BY <1>6, <2>1
  <2> HIDE DEF v
  <2>3. InTree(node, c, w \o Tail(t), k, "held", e)
    BY <1>4, <2>2 DEF InTree
  <2> QED
    BY <1>1, <1>3, <1>5, <1>6, <2>3 DEF Advances, InPlace, c, e
<1>7. CASE EntryDir(p)
  <2>1. i.do = "entryDir" /\ todo'[p] = y \o Tail(t) /\ kids'[p] = kids[p]
    BY <1>7, CallFits DEF EntryDir, At, Proceed
  <2>2. y \in Body(c)
    <3>1. i \in Doing(c)
      BY <1>1, <1>2, WorkIsHeld
    <3>2. Ground(Zone(c), DeepZone(c)) /\ i \in Work(Zone(c), DeepZone(c))
      BY <1>3, <3>1, Grounds DEF Doing
    <3> HIDE DEF c, i
    <3>3. i.to \in DeepZone(c) /\ i.to \in Names /\ i.to \in Zone(c)
      BY <2>1, <3>2 DEF Work, Ground, Makes, Clears
    <3>4. [i EXCEPT !.do = "walk"] \in Work(Zone(c), DeepZone(c))
      <4>1. "walk" \in Copies /\ "walk" \in Deeds
        BY DEF Copies, Deeds
      <4> QED
        BY <3>2, <3>3, <4>1, RenamedWork
    <3>5. I("createDir", i.to) \in Work(Zone(c), DeepZone(c))
      <4> DEFINE z == i.to
      <4>1. z \in Zone(c) /\ z \in Names /\ "createDir" \in Makes /\ "old" \in Content
        BY <3>3 DEF Makes, Content
      <4> HIDE DEF z
      <4>2. I("createDir", z) \in Work(Zone(c), DeepZone(c))
        BY <4>1 DEF I, Work, Deeds
      <4> QED
        BY <4>2 DEF z
    <3> QED
      BY <3>4, <3>5, Programs DEF Body, Doing
  <2>3. Good(node, c, y \o Tail(b), kids[p], e)
    <3> HIDE DEF c, t, i, e
    <3>1. Head(b).do = "entryDir"
      BY <1>4, <2>1
    <3>2. Good(node, c, <<I("createDir", Head(b).to), [Head(b) EXCEPT !.do = "walk"]>> \o Tail(b), kids[p], e)
      BY <1>3, <1>4, <3>1, GoodEnters
    <3> QED
      BY <1>4, <3>2
  <2> HIDE DEF c, t, i, e, y
  <2> QED
    BY <1>6, <2>1, <2>2, <2>3
<1>8. CASE Spawn(p)
  <2> DEFINE k == kids[p] \cup {<<x>>}
  <2>1. i.do \in {"spawnCopy", "spawnRemove"} /\ todo'[p] = <<>> \o Tail(t) /\ kids'[p] = k
    BY <1>8, CallFits DEF Spawn, At, Proceed
  <2>2. Good(node, c, <<>> \o Tail(b), k, e)
    <3> HIDE DEF c, t, i, e
    <3>1. Head(b).do \in {"spawnCopy", "spawnRemove"}
      BY <1>4, <2>1
    <3>2. Good(node, c, <<>> \o Tail(b),
              kids[p] \cup {<<IF Head(b).do = "spawnCopy" THEN [Head(b) EXCEPT !.do = "copyFile"]
                        ELSE [Head(b) EXCEPT !.do = "remove", !.flag = TRUE]>>}, e)
      BY <1>3, <1>4, <3>1, GoodSpawn
    <3> QED
      BY <1>4, <3>2
  <2> DEFINE w == <<>>
  <2>3. w \in Body(c) /\ todo'[p] = w \o Tail(t) /\ Good(node, c, w \o Tail(b), k, e)
    BY <1>3, <2>1, <2>2, FrameOfNothing
  <2> HIDE DEF c, t, i, e, x, k, w
  <2> QED
    BY <1>6, <2>1, <2>3
<1> QED
  BY <1>7, <1>8

\* A child runs an await, or fails.
LEMMA KidStands ==
  ASSUME FacadeInv, WellFormed(node), NEW p \in Ops, InPlace(p), KidStep(p)
  PROVE  Advances(p)
<1>1. PICK x \in kids[p] : KidAwait(p, x) \/ KidThrow(p, x)
  BY DEF KidStep
<1> DEFINE c == call[p]
           k == kids[p]
           e == failed[p]
<1>2. /\ stage[p] = "held" /\ c \in Calls /\ todo[p] # <<>> /\ node \in Trees
      /\ x \in Body(c) /\ x # <<>>
  BY KidsWork, CallFits DEF Trees
<1>3. PICK b \in Body(c), r \in Rests(c) :
        todo[p] = Frame(c, b, r) /\ Later(c, r) /\ Good(node, c, b, k, e)
  BY <1>2, StandsAt
<1>4. CASE KidAwait(p, x)
  <2> DEFINE l == (k \ {x}) \cup ({After(Head(x)) \o Tail(x)} \ {<<>>})
  <2>1. /\ Await(Head(x)) /\ kids'[p] = l /\ todo'[p] = todo[p] /\ stage'[p] = "held"
        /\ call'[p] = c /\ failed'[p] = e
    BY <1>2, <1>4, CallFits DEF KidAwait, lockVars
  <2> HIDE DEF c, k, e
  <2>2. /\ WellFormed(node') /\ c.op \notin FileCalls /\ Good(node', c, b, l, e)
    BY <1>1, <1>2, <1>3, <2>1, GoodKid DEF k
  <2> HIDE DEF l
  <2>3. InTree(node', c, todo[p], l, "held", e)
    BY <1>3, <2>2 DEF InTree
  <2> QED
    BY <2>1, <2>2, <2>3 DEF Advances, InPlace, c, e
<1>5. CASE KidThrow(p, x)
  <2> DEFINE l == k \ {x}
  <2>1. /\ kids'[p] = l /\ stage'[p] = "held" /\ call'[p] = c /\ failed'[p] = TRUE /\ node' = node
        /\ \/ todo'[p] = todo[p]
           \/ Unwind(p) /\ Head(todo[p]).do \in {"spawnCopy", "spawnRemove"}
    BY <1>2, <1>5, CallFits DEF KidThrow, At, lockVars
  <2>2. CASE todo'[p] = todo[p]
    <3> HIDE DEF c, k, e
    <3>1. l \in SUBSET k
      OBVIOUS
    <3> HIDE DEF l
    <3>2. Good(node, c, b, l, TRUE)
      BY <1>2, <1>3, <3>1, GoodEnds
    <3>3. InTree(node, c, todo[p], l, "held", TRUE)
      BY <1>3, <3>2 DEF InTree
    <3>4. WellFormed(node') /\ DirsStay(node, node')
      BY <2>1 DEF DirsStay
    <3> QED
      BY <2>1, <2>2, <3>3, <3>4 DEF Advances, InPlace, c
  <2>3. CASE Unwind(p) /\ Head(todo[p]).do \in {"spawnCopy", "spawnRemove"}
    BY <1>2, <2>1, <2>3, UnwindStands
  <2> QED
    BY <2>1, <2>2, <2>3
<1> QED
  BY <1>1, <1>4, <1>5

\* While a file call works under its lock, another holder keeps the directories
\* it has made or checked, and the record of its path.
LEMMA BuildsBeside ==
  ASSUME NoParents, FacadeInv, NEW p \in Ops, NEW q \in Ops, q # p,
         (\E c \in Calls : Start(q, c)) \/ CallStep(q) \/ KidStep(q),
         call[q].op \in FileCalls => DirsStay(node, node'), node' # node,
         stage[p] = "held", call[p] \in Calls, target[p] = LockOf(call[p]),
         NEW b, Good(node, call[p], b, kids[p], failed[p])
  PROVE  Good(node', call[p], b, kids[p], failed[p])
<1> DEFINE c == call[p]
           f == c.path
           M == Making(c)
<1>1. stage[q] = "held" /\ call[q] \in Calls /\ target[q] = LockOf(call[q])
  BY WriterOf
<1>2. target[p] # Tree /\ target[q] # Tree
  BY <1>1, HoldersExclude DEF FacadeInv, OperationsExclude
<1>3. c.op \in FileCalls /\ call[q].op \in FileCalls
  BY <1>1, <1>2 DEF LockOf
<1>4. target[p] = f /\ f \in Nodes /\ Zone(c) = {f}
  <2>1. ~c.flag /\ c.op # "copy"
    BY <1>3 DEF NoParents, FileCalls
  <2> QED
    BY <1>3, <2>1, CallPaths DEF LockOf, Zone, Nodes
<1>5. node'[f] = node[f]
  BY <1>2, <1>4, WriteIsAlone
<1>6. DirsStay(node, node')
  BY <1>3
<1>7. kids[p] = {} /\ b \in Seq(M) /\ Building(node, b)
  <2>1. c.op \notin {"remove", "move", "copy", "emptyDir"}
    BY <1>3 DEF FileCalls
  <2> QED
    BY <2>1 DEF Good
<1>8. ASSUME NEW j \in 1 .. Len(b), b[j].do = "setFile"
      PROVE  b[j].path = f
  <2> HIDE DEF M
  <2>1. b[j] \in M
    BY <1>7, ElementOfSeq
  <2>2. b[j].path \in Zone(c)
    BY <2>1 DEF M, Making, Doing, Work, Makes, Clears, Copies
  <2> QED
    BY <1>4, <2>2
<1>9. \A j \in 1 .. Len(b) : b[j].do = "setFile" /\ b[j].path \in Nodes => node'[b[j].path] # "dir"
  <2>1. ASSUME NEW j \in 1 .. Len(b), b[j].do = "setFile"
        PROVE  node[f] # "dir"
    BY <1>4, <1>7, <1>8, <2>1 DEF Building
  <2> QED
    BY <1>5, <1>8, <2>1
<1>10. Building(node', b)
  BY <1>6, <1>7, <1>9, BuildStays
<1> QED
  BY <1>3, <1>7, <1>10 DEF Good

\* A step of one call leaves the others standing.
LEMMA OthersStand ==
  ASSUME NoParents, FacadeInv, NEW p \in Ops, InPlace(p), NEW q \in Ops, q # p,
         (\E c \in Calls : Start(q, c)) \/ CallStep(q) \/ KidStep(q),
         call[q].op \in FileCalls => DirsStay(node, node')
  PROVE  InPlace(p)'
<1> DEFINE c == call[p]
           t == todo[p]
           k == kids[p]
           s == stage[p]
           e == failed[p]
<1>1. call'[p] = c /\ todo'[p] = t /\ kids'[p] = k /\ stage'[p] = s /\ failed'[p] = e
  BY OthersStay
<1>2. InTree(node, c, t, k, s, e)
  BY DEF InPlace
<1>3. InTree(node', c, t, k, s, e)
  <2>1. CASE node' = node
    BY <1>2, <2>1
  <2>2. CASE node' # node /\ s = "held"
    <3>1. PICK b \in Body(c), r \in Rests(c) : t = Frame(c, b, r) /\ Later(c, r) /\ Good(node, c, b, k, e)
      BY <1>2, <2>2 DEF InTree
    <3>2. t # <<>>
      BY <2>2, CallFits
    <3>3. c \in Calls /\ target[p] = LockOf(c)
      BY <2>2, <3>2, StandsAt
    <3>4. Good(node', c, b, k, e)
      BY <2>2, <3>1, <3>3, BuildsBeside
    <3> HIDE DEF c, t, k, e
    <3> QED
      BY <2>2, <3>1, <3>4 DEF InTree
  <2>3. CASE s # "held"
    <3> HIDE DEF c, t, k, e
    <3> QED
      BY <1>2, <2>3 DEF InTree
  <2> QED
    BY <2>1, <2>2, <2>3
<1> HIDE DEF c, t, k, s, e
<1> QED
  BY <1>1, <1>3 DEF InPlace

\* Every step of a call keeps the tree and its standing.
LEMMA StepsAdvance ==
  ASSUME FacadeInv, WellFormed(node), NEW p \in Ops, InPlace(p), CallStep(p) \/ KidStep(p)
  PROVE  Advances(p)
<1>1. CASE Lookup(p)
  <2>1. /\ todo[p] # <<>> /\ Head(todo[p]).do \in {"lookup", "isDir"}
        /\ node' = node /\ stage'[p] = stage[p]
        /\ todo'[p] \in {<<>>, Tail(todo[p])} /\ (todo'[p] # <<>> => call'[p] = call[p])
    BY <1>1, CallFits DEF Lookup, At, MayEnd, lockVars
  <2> QED
    BY <2>1, LookStands
<1>2. CASE CallStep(p) /\ ~Lookup(p)
  BY <1>2, LockStands, UnlockStands, MainAwaitStands, ThrowStands, WalkStands DEF CallStep
<1>3. CASE KidStep(p)
  BY <1>3, KidStands
<1> QED
  BY <1>1, <1>2, <1>3

\* Every step keeps the invariant of the trees, if no file call makes parents.
LEMMA TreeInvKeeps ==
  ASSUME NoParents, FacadeInv, TreeInv, [FacadeNext]_facadeVars
  PROVE  TreeInv'
<1>1. CASE UNCHANGED facadeVars
  <2>1. /\ node' = node /\ call' = call /\ todo' = todo /\ kids' = kids /\ failed' = failed
        /\ stage' = stage
    BY <1>1 DEF facadeVars, lockVars
  <2> QED
    BY <2>1 DEF TreeInv, InPlace
<1>2. ASSUME NEW q \in Ops, NEW c \in Calls, Start(q, c)
      PROVE  TreeInv'
  <2>1. node' = node
    BY <1>2 DEF Start
  <2>2. WellFormed(node') /\ DirsStay(node, node')
    BY <2>1 DEF TreeInv, DirsStay
  <2>3. InPlace(q)'
    BY <1>2, StartStands
  <2>4. ASSUME NEW p \in Ops, p # q
        PROVE  InPlace(p)'
    BY <1>2, <2>2, <2>4, OthersStand DEF TreeInv
  <2> QED
    BY <2>2, <2>3, <2>4 DEF TreeInv
<1>3. ASSUME NEW q \in Ops, CallStep(q) \/ KidStep(q)
      PROVE  TreeInv'
  <2>1. Advances(q)
    BY <1>3, StepsAdvance DEF TreeInv
  <2>2. ASSUME NEW p \in Ops, p # q
        PROVE  InPlace(p)'
    BY <1>3, <2>1, <2>2, OthersStand DEF TreeInv, Advances
  <2> QED
    BY <2>1, <2>2 DEF TreeInv, Advances
<1> QED
  BY <1>1, <1>2, <1>3 DEF FacadeNext

\* The storage starts with a tree, and no call with any await.
LEMMA TreeInvStarts == FacadeInit => TreeInv
<1> SUFFICES ASSUME FacadeInit
             PROVE  TreeInv
  OBVIOUS
<1>1. WellFormed(node)
  BY FacadeAssumption DEF FacadeInit
<1>2. ASSUME NEW p \in Ops
      PROVE  InPlace(p)
  <2>1. todo[p] = <<>> /\ stage[p] = "idle"
    BY <1>2 DEF FacadeInit, LockInit
  <2> QED
    BY <2>1 DEF InPlace, InTree
<1> QED
  BY <1>1, <1>2 DEF TreeInv

\* The records form a tree and every call stands in it, whatever calls run side
\* by side and fail, if no file call makes parents.
THEOREM CallsKeepTheTree == ASSUME NoParents PROVE FacadeSpec => []TreeInv
<1>1. FacadeInv /\ TreeInv /\ [FacadeNext]_facadeVars => TreeInv'
  BY TreeInvKeeps
<1> QED
  BY <1>1, TreeInvStarts, CallsKeepTheirShape, PTL DEF FacadeSpec

\* ensureParents and the parent checks: nothing ever lies below a file or below
\* what is not there, whatever removals, moves and copies run beside the writes,
\* if no file call makes parents.
THEOREM ParentsAreDirectories == ASSUME NoParents PROVE FacadeSpec => []ParentIsDirectory
<1>1. TreeInv => ParentIsDirectory
  <2> SUFFICES ASSUME WellFormed(node), NEW f \in Paths, node[f] # "absent"
               PROVE  node[dirname(f)] = "dir"
    BY DEF TreeInv, ParentIsDirectory, IsAbsent, IsDirectory
  <2>1. Len(f) - 1 \in 0 .. Len(f) - 1 /\ dirname(f) = SubSeq(f, 1, Len(f) - 1)
    BY NodePaths
  <2> QED
    BY <2>1 DEF WellFormed
<1> QED
  BY <1>1, CallsKeepTheTree, PTL

\* A call that has done its work has nothing left to do.
LEMMA DoneAt ==
  ASSUME FacadeInv, TreeInv, NEW p \in Ops, NEW ops, Succeeding(p, ops)
  PROVE  /\ call[p] \in Calls /\ call[p].op \in ops /\ ~failed[p] /\ node \in Trees /\ WellFormed(node)
         /\ Good(node, call[p], <<>>, {}, FALSE)
<1> DEFINE c == call[p]
<1>1. /\ todo[p] # <<>> /\ Head(todo[p]).do = "unlock" /\ kids[p] = {} /\ ~failed[p]
      /\ c.op \in ops
  BY DEF Succeeding, At
<1>2. WellFormed(node) /\ InPlace(p)
  BY DEF TreeInv
<1>3. c \in Calls /\ node \in Trees /\ Good(node, c, <<>>, {}, failed[p])
  BY <1>1, <1>2, HeldAt
<1> HIDE DEF c
<1>4. Good(node, c, <<>>, {}, FALSE)
  <2>1. /\ Empties(node, c, <<>>, {}, failed[p]) => Empties(node, c, <<>>, {}, FALSE)
        /\ Copying(node, c, <<>>, {}, failed[p]) => Copying(node, c, <<>>, {}, FALSE)
    BY <1>1 DEF Empties, Copying, CopyWorks
  <2> QED
    BY <1>1, <1>3, <2>1 DEF Good
<1> QED
  BY <1>1, <1>2, <1>3, <1>4 DEF c

\* In a tree, nothing lies below what is not there.
LEMMA NothingBelow ==
  ASSUME NEW t, WellFormed(t), NEW f \in Nodes, NEW g \in Nodes, IsPrefix(f, g),
         t[f] = "absent"
  PROVE  t[g] = "absent"
<1>1. CASE f = g
  BY <1>1
<1>2. CASE f # g
  <2>1. g \in Paths /\ Len(f) \in 0 .. Len(g) - 1 /\ SubSeq(g, 1, Len(f)) = f
    BY <1>2, WayDown
  <2> QED
    BY <2>1 DEF WellFormed
<1> QED
  BY <1>1, <1>2

\* remove and emptyDir: a call that is about to return has left nothing below
\* its path, if no file call makes parents.
THEOREM RemovalsAreComplete == ASSUME NoParents PROVE FacadeSpec => []RemoveIsComplete
<1>1. FacadeInv /\ TreeInv => RemoveIsComplete
  <2> SUFFICES ASSUME FacadeInv, TreeInv, NEW p \in Ops
               PROVE  /\ Succeeding(p, {"remove"}) => \A f \in Below(call[p].path) : IsAbsent(f)
                      /\ Succeeding(p, {"emptyDir"}) => Children(call[p].path) = {}
    BY DEF RemoveIsComplete
  <2> DEFINE c == call[p]
  <2>0. Len(<<>>) = 0 /\ \A j \in 1 .. Len(<<>>) : FALSE
    BY EmptySeq
  <2>1. ASSUME Succeeding(p, {"remove"}), NEW f \in Below(c.path)
        PROVE  node[f] = "absent"
    <3> DEFINE o == {"remove"}
    <3>5. Succeeding(p, o)
      BY <2>1
    <3> HIDE DEF o
    <3>6. c \in Calls /\ c.op \in o /\ WellFormed(node) /\ Good(node, c, <<>>, {}, FALSE)
      BY <3>5, DoneAt
    <3>1. c \in Calls /\ c.op = "remove" /\ WellFormed(node) /\ Good(node, c, <<>>, {}, FALSE)
      BY <3>6 DEF o
    <3>2. c.path \in Nodes
      BY <3>1, FacadeAssumption
    <3>3. f \in Nodes /\ IsPrefix(c.path, f)
      BY <2>1 DEF Below
    <3> HIDE DEF c
    <3>4. node[c.path] = "absent"
      BY <2>0, <3>1 DEF Good, Due, FileCalls
    <3> QED
      BY <3>1, <3>2, <3>3, <3>4, NothingBelow
  <2>2. ASSUME Succeeding(p, {"emptyDir"})
        PROVE  Children(c.path) = {}
    <3> DEFINE o == {"emptyDir"}
    <3>5. Succeeding(p, o)
      BY <2>2
    <3> HIDE DEF o
    <3>6. c \in Calls /\ c.op \in o /\ Good(node, c, <<>>, {}, FALSE)
      BY <3>5, DoneAt
    <3>1. c \in Calls /\ c.op = "emptyDir" /\ Good(node, c, <<>>, {}, FALSE)
      BY <3>6 DEF o
    <3> HIDE DEF c
    <3>2. Empties(node, c, <<>>, {}, FALSE)
      BY <3>1 DEF Good, FileCalls
    <3>3. <<>> # <<I("empty", c.path)>>
      OBVIOUS
    <3>4. \A g \in Paths : dirname(g) = c.path => node[g] = "absent"
      BY <2>0, <3>2, <3>3 DEF Empties
    <3> QED
      BY <3>4 DEF Children, IsAbsent
  <2> QED
    BY <2>1, <2>2 DEF IsAbsent
<1> QED
  BY <1>1, CallsKeepTheTree, CallsKeepTheirShape, PTL

\* copy: a copy that is about to return has left the destination equal to the
\* source, entry by entry and with nothing else below it, whatever its children
\* did side by side, if no file call makes parents.
THEOREM CopiesAreExact == ASSUME NoParents PROVE FacadeSpec => []CopyIsExact
<1>1. FacadeInv /\ TreeInv => CopyIsExact
  <2> SUFFICES ASSUME FacadeInv, TreeInv, NEW p \in Ops, Succeeding(p, {"copy"})
               PROVE  LET c == call[p] IN
                      /\ \A f \in Below(c.path) : node[f] # "absent" => node[Target(f, c.path, c.to)] = node[f]
                      /\ \A f \in Below(c.to) : node[f] # "absent" => node[Target(f, c.to, c.path)] # "absent"
    BY DEF CopyIsExact, IsAbsent
  <2> DEFINE c == call[p]
             o == {"copy"}
  <2>1. Succeeding(p, o)
    OBVIOUS
  <2> HIDE DEF o
  <2>2. c \in Calls /\ c.op \in o /\ Good(node, c, <<>>, {}, FALSE)
    BY <2>1, DoneAt
  <2> HIDE DEF c
  <2>3. c.op = "copy"
    BY <2>2 DEF o
  <2>4. Copying(node, c, <<>>, {}, FALSE)
    BY <2>2, <2>3 DEF Good, FileCalls
  <2>5. Copied(node, c, <<>>, {})
    BY <2>2, <2>3, <2>4, CopyHeads DEF CopyWorks
  <2>6. Jobs(<<>>, {}) = {}
    BY EmptySeq DEF Jobs
  <2>7. ASSUME NEW f \in Below(c.path), node[f] # "absent"
        PROVE  node[Target(f, c.path, c.to)] = node[f]
    <3>1. f \in Nodes /\ IsPrefix(c.path, f)
      BY DEF Below
    <3>2. Target(f, c.path, c.to) \in Nodes
      BY <2>2, <2>3, FacadeAssumption
    <3> QED
      BY <2>5, <2>6, <2>7, <3>1, <3>2 DEF Copied
  <2>8. ASSUME NEW g \in Below(c.to), node[g] # "absent"
        PROVE  node[Target(g, c.to, c.path)] # "absent"
    <3>1. g \in Nodes /\ IsPrefix(c.to, g)
      BY DEF Below
    <3>2. PICK f \in Nodes : IsPrefix(c.path, f) /\ node[f] # "absent" /\ g = Target(f, c.path, c.to)
      BY <2>5, <2>8, <3>1 DEF Copied
    <3>3. f \in Names /\ c.path \in Names /\ c.to \in Names
      BY <2>2, CallPaths, NodePaths
    <3> DEFINE x == c.path
               y == c.to
    <3>4. x \in Names /\ y \in Names /\ IsPrefix(x, f) /\ g = Target(f, x, y)
      BY <3>2, <3>3
    <3>5. SUFFICES Target(g, y, x) = f
      BY <3>2
    <3> HIDE DEF x, y
    <3>6. Target(Target(f, x, y), y, x) = f
      BY <3>3, <3>4, Targets
    <3> QED
      BY <3>4, <3>6
  <2> QED
    BY <2>7, <2>8 DEF c
<1> QED
  BY <1>1, CallsKeepTheTree, CallsKeepTheirShape, PTL
=============================================================================
