--------------------------- MODULE RecordsProofs ---------------------------
(***************************************************************************)
(* Proofs about Records, for any clients, keys, bytes and drivers.         *)
(***************************************************************************)
EXTENDS Records, SequenceTheorems, FiniteSetTheorems, TLAPS

----------------------------------------------------------------------------
(* What a call does, by its operation.                                     *)

Removals == {"remove", "emptyDir", "clear"}

Dos ==
  {"lock", "unlock", "ensure", "createDir", "parent", "write", "transact", "put", "insert",
   "deleteRow", "remove", "collect", "find", "delete", "list", "next", "read"}

Deeds ==
  [set |-> {"lock", "unlock", "ensure", "createDir", "parent", "write", "transact", "put", "insert",
            "deleteRow"},
   write |-> {"lock", "unlock", "parent", "write", "transact", "put", "insert", "deleteRow"},
   remove |-> {"lock", "unlock", "remove", "collect", "find", "delete"},
   emptyDir |-> {"lock", "unlock", "list", "next", "remove", "collect", "find", "delete"},
   clear |-> {"lock", "unlock", "list", "next", "remove", "collect", "find", "delete"},
   keys |-> {"list", "next"},
   get |-> {"read"}]

Instr ==
  [do : Dos, path : Paths \cup {Root}, data : Seq(Byte) \cup {Directory}, rest : Seq(Paths), at : Nat]

Dirs == {Dir(k) : k \in Keys}

Files == {File(k) : k \in Keys}

Fits(c, i) ==
  /\ i \in Instr /\ i.do \in Deeds[job[c].op]
  /\ i.do = "deleteRow" => Driver.replacement # "atomic"
  /\ i.do \in {"ensure", "createDir"} => i.path \in Dirs
  /\ i.do = "list" => i.at = 0
  /\ i.do \in {"parent", "write", "transact"} => i.path \in Files
  /\ i.do \in {"put", "insert"} => i.path \in Paths /\ (i.data = Directory <=> i.path \in Dirs)
  /\ i.do \in {"remove", "collect", "find", "delete", "deleteRow"} => i.path \in Paths

Local ==
  [todo : Seq(Instr), held : SUBSET (Paths \cup {Root}), seen : SUBSET Keys, watch : SUBSET Keys,
   outcome : {"none", "done", "failed", "crashed"}]

Record(f) == IF f \in Dirs THEN {Directory, NoRecord} ELSE Seq(Byte) \cup {NoRecord}

Typed ==
  /\ backend \in Backends /\ shared \in BOOLEAN /\ job \in Jobs
  /\ DOMAIN store = Paths /\ \A f \in Paths : store[f] \in Record(f)
  /\ order \in Seq(Paths)
  /\ client \in [Clients -> Local]

Programs ==
  /\ \A c \in Clients : \A n \in 1 .. Len(client[c].todo) : Fits(c, client[c].todo[n])
  /\ \A c \in Clients : Running(c) <=> client[c].todo # <<>>
----------------------------------------------------------------------------
(* What keys() has ahead of it.                                            *)

Ahead(i, f) ==
  IF Driver.list = "index" THEN \E n \in i.at + 1 .. Len(order) : order[n] = f
  ELSE \E n \in 1 .. Len(i.rest) : i.rest[n] = f

\* The await by which keys() comes to the value of k.
LeadsTo(i, k) ==
  \/ i.do = "list" /\ i.path \in {Root, Dir(k)}
  \/ i.do = "next" /\ i.path = Root /\ Ahead(i, Dir(k))
  \/ i.do = "next" /\ i.path = Dir(k) /\ Ahead(i, File(k))

WillSee(c, k) == \E n \in 1 .. Len(client[c].todo) : LeadsTo(client[c].todo[n], k)

\* A directory that keys() goes into is there, or one has gone.
Opens(i) ==
  /\ i.do = "list" => IsDir(i.path)
  /\ i.do = "next" => \A n \in 1 .. Len(i.rest) : i.rest[n] \in Dirs => IsDir(i.rest[n])

Listing ==
  \A c \in Clients : job[c].op = "keys" =>
    /\ Running(c) => client[c].watch = {} \/ \A n \in 1 .. Len(client[c].todo) : Opens(client[c].todo[n])
    /\ \A k \in client[c].watch :
         /\ store[File(k)] # NoRecord /\ store[Dir(k)] # NoRecord
         /\ Driver.list = "index" => {Dir(k), File(k)} \subseteq ToSet(order)
         /\ Running(c) => k \in client[c].seen \/ WillSee(c, k)

----------------------------------------------------------------------------
(* What a removal has ahead of it.                                         *)

Takes(i, k) == i.do \in {"remove", "find", "delete"} /\ i.path = File(k)

\* The await by which a removal comes to the value of k.
EndsIn(i, k) ==
  \/ i.do = "list" /\ i.path = Root
  \/ i.do = "next" /\ i.path = Root /\ Ahead(i, Dir(k))
  \/ i.do \in {"remove", "collect"} /\ i.path = Dir(k)
  \/ Takes(i, k)

WillClear(c, k) == \E n \in 1 .. Len(client[c].todo) : EndsIn(client[c].todo[n], k)

\* Nobody touches the directory of k before its value: the await at place n of
\* program t leaves it alone until the value is removed.
Careful(t, n, k) ==
  /\ ~(t[n].do \in {"createDir", "deleteRow"} /\ t[n].path = Dir(k))
  /\ t[n].do \in {"find", "delete"} /\ t[n].path = Dir(k) => \E m \in 1 .. n - 1 : Takes(t[m], k)

Spares(c, k) == \A n \in 1 .. Len(client[c].todo) : Careful(client[c].todo, n, k)

Clearing ==
  Driver.list # "index" =>
    \A c \in Clients : job[c].op \in {"emptyDir", "clear"} =>
      \A k \in client[c].watch : store[File(k)] # NoRecord =>
        /\ store[Dir(k)] # NoRecord
        /\ \A d \in Clients : Spares(d, k)
        /\ client[c].outcome # "done"
        /\ Running(c) => WillClear(c, k)

----------------------------------------------------------------------------
(* Where the bytes of a write stand.                                       *)

\* Two clients that share a coordinator hold no lock together.
Exclusive ==
  shared => \A c, d \in Clients : \A g \in client[c].held, h \in client[d].held :
    c # d => g # h /\ g # Root /\ h # Root

Doing(c, do) == client[c].todo # <<>> /\ client[c].todo[1].do = do

With(do, f, data) == [I(do, f) EXCEPT !.data = data]

\* The programs that a write passes through under its lock.
Locked(c, f, t) ==
  \/ t = <<I("parent", f), I("write", f), I("unlock", Root)>>
  \/ t = <<I("write", f), I("unlock", Root)>>
  \/ Driver.transact /\ t = <<I("transact", f), I("unlock", Root)>>
  \/ /\ ~Driver.transact /\ Driver.set = <<"put">>
     /\ t = <<With("put", f, t[1].data), I("unlock", Root)>>
  \/ /\ ~Driver.transact /\ Driver.set # <<"put">>
     /\ \/ t = <<With("deleteRow", f, t[1].data), With("insert", f, t[1].data), I("unlock", Root)>>
        \/ t = <<With("insert", f, t[1].data), I("unlock", Root)>>
  \/ t = <<I("unlock", Root)>>

Writing ==
  \A c \in Clients : job[c].op = "write" =>
    LET f == File(job[c].key) IN
    \/ ~Running(c) /\ client[c].todo = <<>>
    \/ Running(c) /\ client[c].todo = WriteProgram(job[c].key)
    \/ Running(c) /\ client[c].held = {f} /\ Locked(c, f, client[c].todo)

\* Only reads and writes, none of which has left the file in pieces.
Calm ==
  /\ shared \/ Driver.transact
  /\ \A d \in Clients :
       \/ job[d].op \in {"keys", "get"}
       \/ job[d].op = "write" /\ (Driver.replacement = "atomic" \/ client[d].outcome \in {"none", "done"})

Applied(c) ==
  /\ job[c].op = "write"
  /\ \/ client[c].outcome = "done"
     \/ Running(c) /\ Doing(c, "unlock")

Places(data, at, b) ==
  at + Len(data) <= Len(b) /\ \A n \in 1 .. Len(data) : b[at + n] = data[n]

Stands(base, j, b) ==
  IF j.mode = "append" THEN \E at \in base .. Len(b) : Places(j.data, at, b)
  ELSE Places(j.data, j.at, b)

Sound(base, k, b) ==
  /\ b \in Seq(Byte) /\ base[k] <= Len(b)
  /\ \A c \in Clients : Applied(c) /\ job[c].key = k => Stands(base[k], job[c], b)

\* A write under way has read what is there, and the bytes of the others stand
\* in the file of k, or in what a write that has deleted it is about to insert.
Held(base, k) ==
  /\ \A c \in Clients : job[c].op = "write" /\ job[c].key = k =>
       /\ Doing(c, "put") \/ Doing(c, "deleteRow") =>
            client[c].todo[1].data = Written(c, File(k))
       /\ Doing(c, "insert") =>
            /\ Sound(base, k, client[c].todo[1].data)
            /\ Stands(base[k], job[c], client[c].todo[1].data)
  /\ (\A c \in Clients : ~(job[c].op = "write" /\ job[c].key = k /\ Doing(c, "insert")))
       => Sound(base, k, Existing(File(k)))

Updating(base) == Calm => \A k \in Keys : Held(base, k)

----------------------------------------------------------------------------
(* Paths, sequences and records.                                           *)

\* The paths of two keys, and their parents.
LEMMA PathFacts ==
  ASSUME NEW k \in Keys
  PROVE  /\ Dir(k) \in Paths /\ Dir(k) \in Dirs /\ File(k) \in Paths /\ File(k) \in Files
         /\ Dir(k) # Root /\ File(k) # Root
         /\ Len(Dir(k)) = 1 /\ Len(File(k)) = 2 /\ Head(File(k)) = k /\ Head(Dir(k)) = k
         /\ Front(Dir(k)) = Root /\ Front(File(k)) = Dir(k)
<1>1. Front(Dir(k)) = Root
  BY DEF Front, Dir, Root
<1>2. Front(File(k)) = Dir(k)
  <2> DEFINE S == {k, "value"}
             f == File(k)
             g == SubSeq(f, 1, 1)
  <2>1. f \in Seq(S) /\ Len(f) = 2 /\ f[1] = k
    BY DEF File
  <2>2. Front(f) = g
    BY <2>1 DEF Front
  <2> HIDE DEF f, S
  <2>3. g \in Seq(S) /\ Len(g) = 1 /\ g[1] = f[1]
    BY <2>1, SubSeqProperties
  <2> HIDE DEF g
  <2>4. <<k>> \in Seq(S) /\ Len(<<k>>) = 1 /\ <<k>>[1] = k
    BY DEF S
  <2>5. g = <<k>>
    BY <2>1, <2>3, <2>4, SeqEqual
  <2> QED
    BY <2>2, <2>5 DEF Dir, f
<1> QED
  BY <1>1, <1>2 DEF Dir, File, Root, Paths, Dirs, Files

\* No directory is a file, and no two keys share one.
LEMMA PathsApart ==
  ASSUME NEW j \in Keys, NEW k \in Keys
  PROVE  /\ Dir(k) # File(j)
         /\ Dir(j) = Dir(k) => j = k
         /\ File(j) = File(k) => j = k
BY DEF Dir, File

\* Every path is a directory or a file, and the root is none.
LEMMA PathKinds ==
  /\ Paths = Dirs \cup Files /\ Dirs \cap Files = {}
  /\ Root \notin Paths
  /\ \A f \in Dirs : \E k \in Keys : f = Dir(k)
  /\ \A f \in Files : \E k \in Keys : f = File(k)
BY DEF Paths, Dirs, Files, Dir, File, Root

\* What the drivers have in common.
LEMMA DriverFacts ==
  ASSUME backend \in Backends
  PROVE  /\ \/ Driver.set = <<"put">>
            \/ Driver.set = <<"deleteRow", "insert">> /\ Driver.replacement # "atomic" /\ ~Driver.transact
         /\ Driver.delete \in {"find", "delete"}
         /\ Driver.list \in {"records", "keys", "index"}
         /\ Driver.transact \in BOOLEAN
         /\ Driver.transact => Driver.replacement = "atomic" /\ Driver.set = <<"put">>
<1>1. backend \in
        {"indexeddb", "localstorage", "cache", "unstorage", "rxdb", "drizzle", "db0", "sqlite"}
  BY RecordsAssumption
<1>2. Driver \in {IndexedDb, LocalStorage, Cache, Unstorage, RxDb, Drizzle, Db0}
  BY <1>1 DEF Driver, Drivers, Sqlite
<1>3. CASE Driver = IndexedDb
  BY <1>3 DEF IndexedDb
<1>4. CASE Driver = LocalStorage
  BY <1>4 DEF LocalStorage
<1>5. CASE Driver = Cache
  BY <1>5 DEF Cache
<1>6. CASE Driver = Unstorage
  BY <1>6 DEF Unstorage
<1>7. CASE Driver = RxDb
  BY <1>7 DEF RxDb
<1>8. CASE Driver = Drizzle
  BY <1>8 DEF Drizzle
<1>9. CASE Driver = Db0
  BY <1>9 DEF Db0
<1> QED
  BY <1>2, <1>3, <1>4, <1>5, <1>6, <1>7, <1>8, <1>9

\* A sequence in the place of the head of another.
LEMMA InPlaceOfHead ==
  ASSUME NEW S, NEW a \in Seq(S), NEW b \in Seq(S), b # <<>>
  PROVE  /\ a \o Tail(b) \in Seq(S) /\ Len(a) \in Nat /\ Len(b) \in Nat \ {0} /\ Head(b) = b[1]
         /\ Len(a \o Tail(b)) = Len(a) + Len(b) - 1
         /\ \A n \in 1 .. Len(a) : (a \o Tail(b))[n] = a[n]
         /\ \A n \in 2 .. Len(b) : (a \o Tail(b))[n + Len(a) - 1] = b[n]
         /\ \A n \in 1 .. Len(a \o Tail(b)) :
              n \in 1 .. Len(a) \/ (n - Len(a) + 1 \in 2 .. Len(b) /\ n > Len(a))
<1> DEFINE r == Tail(b)
<1>1. /\ r \in Seq(S) /\ Len(r) = Len(b) - 1 /\ \A n \in 1 .. Len(r) : r[n] = b[n + 1]
      /\ Len(a) \in Nat /\ Len(b) \in Nat \ {0} /\ Head(b) = b[1]
  BY HeadTailProperties, EmptySeq, LenProperties
<1> HIDE DEF r
<1>2. /\ a \o r \in Seq(S) /\ Len(a \o r) = Len(a) + Len(r)
      /\ \A n \in 1 .. Len(a) + Len(r) :
           (a \o r)[n] = IF n <= Len(a) THEN a[n] ELSE r[n - Len(a)]
  BY <1>1, ConcatProperties
<1>3. \A n \in 1 .. Len(a) : (a \o r)[n] = a[n]
  BY <1>1, <1>2
<1>4. ASSUME NEW n \in 2 .. Len(b)
      PROVE  (a \o r)[n + Len(a) - 1] = b[n]
  <2>1. n + Len(a) - 1 \in 1 .. Len(a) + Len(r) /\ n - 1 \in 1 .. Len(r) /\ r[n - 1] = b[n]
    BY <1>1
  <2>2. ~(n + Len(a) - 1 <= Len(a)) /\ (n + Len(a) - 1) - Len(a) = n - 1
    BY <1>1
  <2> QED
    BY <1>2, <2>1, <2>2
<1>5. \A n \in 1 .. Len(a \o r) :
        n \in 1 .. Len(a) \/ (n - Len(a) + 1 \in 2 .. Len(b) /\ n > Len(a))
  BY <1>1, <1>2
<1> QED
  BY <1>1, <1>2, <1>3, <1>4, <1>5 DEF r

\* As many places as elements, none twice: every element has a place.
LEMMA EveryElementHasAPlace ==
  ASSUME NEW S, IsFiniteSet(S), NEW q \in [1 .. Cardinality(S) -> S], IsInjective(q)
  PROVE  /\ q \in Seq(S)
         /\ \A x \in S : \E n \in 1 .. Len(q) : q[n] = x
<1> DEFINE n == Cardinality(S)
           D == 1 .. n
<1>1. n \in Nat
  BY FS_CardinalityType
<1>2. q \in Injection(D, S)
  BY DEF Injection
<1>3. q \in Seq(S) /\ Len(q) = n
  <2>1. q \in [1 .. n -> S]
    OBVIOUS
  <2> HIDE DEF n
  <2> QED
    BY <1>1, <2>1
<1>4. IsFiniteSet(D) /\ Cardinality(D) = Cardinality(S)
  BY <1>1, FS_Interval
<1> HIDE DEF D
<1>5. q \in Surjection(D, S)
  BY <1>2, <1>4, FS_Injection
<1>6. \A x \in S : \E m \in D : q[m] = x
  BY <1>5 DEF Surjection
<1> QED
  BY <1>3, <1>6 DEF D

\* The sequence of a finite set.
LEMMA SetInSequence ==
  ASSUME NEW S, IsFiniteSet(S)
  PROVE  /\ SetToSeq(S) \in Seq(S)
         /\ \A x \in S : \E n \in 1 .. Len(SetToSeq(S)) : SetToSeq(S)[n] = x
<1> DEFINE D == 1 .. Cardinality(S)
           q == SetToSeq(S)
<1>1. PICK f : f \in Bijection(D, S)
  BY FS_CardinalityType DEF ExistsBijection
<1>2. f \in [D -> S] /\ IsInjective(f)
  BY <1>1 DEF Bijection, Injection
<1>3. q \in [D -> S] /\ IsInjective(q)
  BY <1>2 DEF SetToSeq
<1> HIDE DEF q
<1> QED
  BY <1>3, EveryElementHasAPlace DEF q

----------------------------------------------------------------------------
(* What a step leaves to do is a program of its call.                      *)

Made(c, a) == a \in Seq(Instr) /\ \A n \in 1 .. Len(a) : Fits(c, a[n])

\* Nothing, one await, and one program after another.
LEMMA MadeOfParts ==
  ASSUME NEW c
  PROVE  /\ Made(c, <<>>)
         /\ \A i : Fits(c, i) => Made(c, <<i>>)
         /\ \A i, j : Fits(c, i) /\ Fits(c, j) => Made(c, <<i, j>>)
         /\ \A a, b : Made(c, a) /\ Made(c, b) => Made(c, a \o b)
<1>1. Made(c, <<>>)
  BY DEF Made
<1>2. ASSUME NEW i, Fits(c, i)
      PROVE  Made(c, <<i>>)
  BY <1>2 DEF Made, Fits
<1>3. ASSUME NEW a, NEW b, Made(c, a), Made(c, b)
      PROVE  Made(c, a \o b)
  <2>1. /\ a \in Seq(Instr) /\ b \in Seq(Instr) /\ Len(a) \in Nat /\ Len(b) \in Nat
        /\ \A n \in 1 .. Len(a) : Fits(c, a[n])
        /\ \A n \in 1 .. Len(b) : Fits(c, b[n])
    BY <1>3, LenProperties DEF Made
  <2>2. /\ a \o b \in Seq(Instr) /\ Len(a \o b) = Len(a) + Len(b)
        /\ \A n \in 1 .. Len(a) + Len(b) :
             (a \o b)[n] = IF n <= Len(a) THEN a[n] ELSE b[n - Len(a)]
    BY <2>1, ConcatProperties
  <2>3. ASSUME NEW n \in 1 .. Len(a) + Len(b)
        PROVE  Fits(c, (a \o b)[n])
    <3>1. CASE n <= Len(a)
      <4>1. n \in 1 .. Len(a) /\ (a \o b)[n] = a[n]
        BY <2>1, <2>2, <3>1
      <4> QED
        BY <2>1, <4>1
    <3>2. CASE ~(n <= Len(a))
      <4>1. n - Len(a) \in 1 .. Len(b) /\ (a \o b)[n] = b[n - Len(a)]
        BY <2>1, <2>2, <3>2
      <4> QED
        BY <2>1, <4>1
    <3> QED
      BY <3>1, <3>2
  <2> QED
    BY <2>2, <2>3 DEF Made
<1>4. ASSUME NEW i, NEW j, Fits(c, i), Fits(c, j)
      PROVE  Made(c, <<i, j>>)
  <2> DEFINE s == <<i, j>>
  <2>1. s \in Seq(Instr) /\ Len(s) = 2 /\ s[1] = i /\ s[2] = j
    BY <1>4 DEF Fits
  <2> HIDE DEF s
  <2>2. \A n \in 1 .. Len(s) : n = 1 \/ n = 2
    BY <2>1
  <2> QED
    BY <1>4, <2>1, <2>2 DEF Made, s
<1> QED
  BY <1>1, <1>2, <1>3, <1>4

\* A program whose first await is done, with what that await left to do.
LEMMA MadeOn ==
  ASSUME NEW c, NEW a, NEW b, Made(c, a), Made(c, b), b # <<>>
  PROVE  Made(c, a \o Tail(b)) /\ Made(c, Tail(b)) /\ Fits(c, Head(b)) /\ Head(b) = b[1]
<1>1. /\ Tail(b) \in Seq(Instr) /\ Len(Tail(b)) = Len(b) - 1
      /\ \A n \in 1 .. Len(Tail(b)) : Tail(b)[n] = b[n + 1]
      /\ Len(b) \in Nat \ {0} /\ Head(b) = b[1]
  BY HeadTailProperties, EmptySeq DEF Made
<1>2. Made(c, Tail(b))
  BY <1>1 DEF Made
<1> QED
  BY <1>1, <1>2, MadeOfParts DEF Made

\* The fields of an await.
LEMMA InstrFields ==
  ASSUME NEW do \in Dos, NEW f \in Paths \cup {Root}
  PROVE  /\ I(do, f) \in Instr
         /\ I(do, f).do = do /\ I(do, f).path = f /\ I(do, f).data = <<>>
         /\ I(do, f).rest = <<>> /\ I(do, f).at = 0
BY DEF I, Instr

\* An empty value is not a directory.
LEMMA DataFacts ==
  <<>> \in Seq(Byte) /\ <<>> # Directory /\ <<>> # NoRecord
BY RecordsAssumption, EmptySeq

\* The jobs.
LEMMA JobTyped ==
  ASSUME Typed, NEW c \in Clients
  PROVE  job[c] \in Call /\ job[c].key \in Keys /\ job[c].op \in Ops /\ job[c].data \in Seq(Byte)
         /\ job[c].at \in Nat /\ job[c].mode \in {"replace", "append", "update"}
BY RecordsAssumption DEF Typed, Call

\* An await that is issued under another name.
LEMMA Renamed ==
  ASSUME NEW i \in Instr, NEW do \in Dos
  PROVE  /\ [i EXCEPT !.do = do] \in Instr /\ [i EXCEPT !.do = do].do = do
         /\ [i EXCEPT !.do = do].path = i.path /\ [i EXCEPT !.do = do].data = i.data
         /\ [i EXCEPT !.do = do].rest = i.rest /\ [i EXCEPT !.do = do].at = i.at
BY DEF Instr

\* A set is one put, or a deletion and an insertion.
LEMMA SetIs ==
  ASSUME backend \in Backends, NEW i \in Instr
  PROVE  \/ Driver.set = <<"put">> /\ Set(i) = <<[i EXCEPT !.do = "put"]>>
         \/ /\ Driver.set # <<"put">> /\ Driver.replacement # "atomic" /\ ~Driver.transact
            /\ Set(i) = <<[i EXCEPT !.do = "deleteRow"], [i EXCEPT !.do = "insert"]>>
<1>1. CASE Driver.set = <<"put">>
  BY <1>1 DEF Set
<1>2. CASE Driver.set = <<"deleteRow", "insert">> /\ Driver.replacement # "atomic" /\ ~Driver.transact
  BY <1>2 DEF Set
<1> QED
  BY <1>1, <1>2, DriverFacts

\* A set puts what belongs at the path.
LEMMA SetMade ==
  ASSUME Typed, NEW c \in Clients, NEW i \in Instr, i.path \in Paths,
         i.data = Directory <=> i.path \in Dirs, job[c].op \in {"set", "write"}
  PROVE  Made(c, Set(i))
<1> DEFINE put == [i EXCEPT !.do = "put"]
           del == [i EXCEPT !.do = "deleteRow"]
           ins == [i EXCEPT !.do = "insert"]
<1>1. /\ put \in Instr /\ put.do = "put" /\ put.path = i.path /\ put.data = i.data
      /\ del \in Instr /\ del.do = "deleteRow" /\ del.path = i.path /\ del.data = i.data
      /\ ins \in Instr /\ ins.do = "insert" /\ ins.path = i.path /\ ins.data = i.data
  <2>1. "put" \in Dos /\ "deleteRow" \in Dos /\ "insert" \in Dos
    BY DEF Dos
  <2>2. put \in Instr /\ put.do = "put" /\ put.path = i.path /\ put.data = i.data
    BY <2>1, Renamed
  <2>3. del \in Instr /\ del.do = "deleteRow" /\ del.path = i.path /\ del.data = i.data
    BY <2>1, Renamed
  <2>4. ins \in Instr /\ ins.do = "insert" /\ ins.path = i.path /\ ins.data = i.data
    BY <2>1, Renamed
  <2> HIDE DEF put, del, ins
  <2> QED
    BY <2>2, <2>3, <2>4
<1>2. \/ Set(i) = <<put>>
      \/ Driver.replacement # "atomic" /\ Set(i) = <<del, ins>>
  BY SetIs DEF Typed
<1> HIDE DEF put, del, ins
<1>3. {"put", "deleteRow", "insert"} \subseteq Deeds[job[c].op]
  BY DEF Deeds
<1>4. Fits(c, put) /\ Fits(c, ins)
  BY <1>1, <1>3 DEF Fits
<1>5. Driver.replacement # "atomic" => Fits(c, del)
  BY <1>1, <1>3 DEF Fits
<1>6. Made(c, <<put>>)
  BY <1>4, MadeOfParts
<1>7. CASE Driver.replacement # "atomic"
  BY <1>2, <1>4, <1>5, <1>6, <1>7, MadeOfParts
<1> QED
  BY <1>2, <1>6, <1>7

\* A deletion.
LEMMA DeleteMade ==
  ASSUME Typed, NEW c \in Clients, NEW f \in Paths, job[c].op \in Removals
  PROVE  /\ Made(c, Delete(f)) /\ Delete(f) = <<I(Driver.delete, f)>>
         /\ Fits(c, I(Driver.delete, f)) /\ Driver.delete \in {"find", "delete"}
<1>1. Driver.delete \in {"find", "delete"}
  BY DriverFacts DEF Typed
<1>2. I(Driver.delete, f) \in Instr /\ I(Driver.delete, f).do = Driver.delete
      /\ I(Driver.delete, f).path = f
  BY <1>1, InstrFields DEF Dos
<1>3. {"find", "delete"} \subseteq Deeds[job[c].op]
  BY DEF Deeds, Removals
<1>4. Fits(c, I(Driver.delete, f))
  BY <1>1, <1>2, <1>3 DEF Fits
<1> QED
  BY <1>1, <1>4, MadeOfParts DEF Delete

\* Bytes written into others: they stand at their position, and what stood
\* beside them stands.
LEMMA WriteAtIs ==
  ASSUME NEW e \in Seq(Byte), NEW p \in Nat, NEW d \in Seq(Byte)
  PROVE  /\ WriteAt(e, p, d) \in Seq(Byte)
         /\ Len(WriteAt(e, p, d)) \in Nat
         /\ Len(e) <= Len(WriteAt(e, p, d)) /\ p + Len(d) <= Len(WriteAt(e, p, d))
         /\ \A n \in 1 .. Len(d) : WriteAt(e, p, d)[p + n] = d[n]
         /\ \A n \in 1 .. Len(e) : n <= p \/ p + Len(d) < n => WriteAt(e, p, d)[n] = e[n]
<1> DEFINE l == Larger(Len(e), p + Len(d))
           b == WriteAt(e, p, d)
<1>1. /\ Len(e) \in Nat /\ Len(d) \in Nat /\ 0 \in Byte
      /\ \A n \in 1 .. Len(e) : e[n] \in Byte
      /\ \A n \in 1 .. Len(d) : d[n] \in Byte
  BY LenProperties, ElementOfSeq, RecordsAssumption
<1>2. l \in Nat /\ Len(e) <= l /\ p + Len(d) <= l
  BY <1>1 DEF Larger
<1>3. b = [n \in 1 .. l |-> IF n \in p + 1 .. p + Len(d) THEN d[n - p]
                            ELSE IF n <= Len(e) THEN e[n] ELSE 0]
  BY DEF WriteAt
<1> HIDE DEF l, b
<1>4. ASSUME NEW n \in 1 .. l
      PROVE  b[n] \in Byte
  <2>1. CASE n \in p + 1 .. p + Len(d)
    <3>1. n - p \in 1 .. Len(d)
      BY <1>1, <2>1
    <3> QED
      BY <1>1, <1>3, <2>1, <3>1
  <2>2. CASE n \notin p + 1 .. p + Len(d) /\ n <= Len(e)
    <3>1. n \in 1 .. Len(e)
      BY <1>1, <1>2, <2>2
    <3> QED
      BY <1>1, <1>3, <2>2, <3>1
  <2>3. CASE n \notin p + 1 .. p + Len(d) /\ ~(n <= Len(e))
    BY <1>1, <1>3, <2>3
  <2> QED
    BY <2>1, <2>2, <2>3
<1>5. b \in Seq(Byte) /\ Len(b) = l
  <2>1. b \in [1 .. l -> Byte]
    BY <1>3, <1>4
  <2> QED
    BY <1>2, <2>1
<1>6. ASSUME NEW n \in 1 .. Len(d)
      PROVE  b[p + n] = d[n]
  <2>1. p + n \in 1 .. l /\ p + n \in p + 1 .. p + Len(d) /\ (p + n) - p = n
    BY <1>1, <1>2
  <2> QED
    BY <1>3, <2>1
<1>7. ASSUME NEW n \in 1 .. Len(e), n <= p \/ p + Len(d) < n
      PROVE  b[n] = e[n]
  <2>1. n \in 1 .. l /\ n \notin p + 1 .. p + Len(d) /\ n <= Len(e)
    BY <1>1, <1>2, <1>7
  <2> QED
    BY <1>3, <2>1
<1> QED
  BY <1>2, <1>5, <1>6, <1>7 DEF b

\* What a write leaves is bytes.
LEMMA WrittenTyped ==
  ASSUME Typed, NEW c \in Clients, NEW f \in Files
  PROVE  /\ Existing(f) \in Seq(Byte) /\ Written(c, f) \in Seq(Byte)
         /\ Written(c, f) # NoRecord /\ Written(c, f) # Directory
<1>1. f \in Paths /\ f \notin Dirs
  BY PathKinds
<1>2. store[f] \in Seq(Byte) \cup {NoRecord}
  BY <1>1 DEF Typed, Record
<1>3. Existing(f) \in Seq(Byte)
  BY <1>2, DataFacts DEF Existing
<1> DEFINE e == Existing(f)
           p == WritePosition(Len(e), job[c].mode, job[c].at)
<1>4. /\ job[c].data \in Seq(Byte) /\ job[c].at \in Nat
      /\ job[c].mode \in {"replace", "append", "update"}
  BY JobTyped
<1>5. Written(c, f) = IF job[c].mode = "replace" THEN job[c].data ELSE WriteAt(e, p, job[c].data)
  BY DEF Written, ApplyWrite
<1>6. p \in Nat
  <2> HIDE DEF e
  <2>1. Len(e) \in Nat
    BY <1>3, LenProperties DEF e
  <2> QED
    BY <1>4, <2>1 DEF WritePosition
<1> HIDE DEF e, p
<1>7. WriteAt(e, p, job[c].data) \in Seq(Byte)
  BY <1>3, <1>4, <1>6, WriteAtIs DEF e
<1>8. Written(c, f) \in Seq(Byte)
  BY <1>4, <1>5, <1>7
<1> QED
  BY <1>3, <1>8, RecordsAssumption

\* What each await leaves.
LEMMA AfterIs ==
  ASSUME NEW c, NEW i
  PROVE  /\ i.do = "ensure" => After(c, i) = IF store[i.path] = NoRecord
                                             THEN <<[i EXCEPT !.do = "createDir"]>> ELSE <<>>
         /\ i.do = "createDir" => After(c, i) = CreateDir(i)
         /\ i.do = "write" => After(c, i) = WriteFile(c, i)
         /\ i.do = "remove" => After(c, i) = RemoveUnlocked(i)
         /\ i.do = "collect" => After(c, i) = Collect(i)
         /\ i.do = "find" => After(c, i) = IF store[i.path] = NoRecord THEN <<>>
                                           ELSE <<I("delete", i.path)>>
         /\ i.do = "list" => After(c, i) = OpenList(i)
         /\ i.do = "next" => After(c, i) = NextEntry(c, i)
         /\ i.do \in {"lock", "unlock", "parent", "transact", "put", "insert", "deleteRow", "delete",
                      "read"} => After(c, i) = <<>>
BY DEF After

\* There are finitely many paths.
LEMMA PathsFinite == IsFiniteSet(Paths)
<1> DEFINE d == [k \in Keys |-> Dir(k)]
           v == [k \in Keys |-> File(k)]
<1>1. d \in Surjection(Keys, Dirs) /\ v \in Surjection(Keys, Files)
  BY DEF Surjection, Dirs, Files
<1>2. IsFiniteSet(Dirs) /\ IsFiniteSet(Files)
  BY <1>1, FS_Surjection, RecordsAssumption
<1> QED
  BY <1>2, FS_Union, PathKinds

\* The children of a directory, one after the other.
LEMMA ChildrenInSequence ==
  ASSUME NEW f
  PROVE  /\ SetToSeq(Children(f)) \in Seq(Paths)
         /\ Len(SetToSeq(Children(f))) \in Nat
         /\ \A n \in 1 .. Len(SetToSeq(Children(f))) : SetToSeq(Children(f))[n] \in Children(f)
         /\ \A g \in Children(f) :
              \E n \in 1 .. Len(SetToSeq(Children(f))) : SetToSeq(Children(f))[n] = g
<1> DEFINE S == Children(f)
           q == SetToSeq(S)
<1>1. S \subseteq Paths
  BY DEF Children
<1>2. IsFiniteSet(S)
  BY <1>1, PathsFinite, FS_Subset
<1> HIDE DEF S
<1>3. q \in Seq(S) /\ \A g \in S : \E n \in 1 .. Len(q) : q[n] = g
  BY <1>2, SetInSequence
<1> HIDE DEF q
<1>4. q \in Seq(Paths) /\ Len(q) \in Nat /\ \A n \in 1 .. Len(q) : q[n] \in S
  BY <1>1, <1>3, SeqMonotonic, ElementOfSeq, LenProperties
<1> QED
  BY <1>3, <1>4 DEF S, q

\* The listing goes on behind the entry it has come to.
On(i) ==
  IF Driver.list = "index" THEN [i EXCEPT !.at = @ + 1] ELSE [i EXCEPT !.rest = Tail(@)]

Comes(i, f) ==
  /\ f \in Paths /\ Current(i) = <<f>>
  /\ IF Driver.list = "index" THEN i.at + 1 \in 1 .. Len(order) /\ order[i.at + 1] = f
     ELSE i.rest # <<>> /\ 1 \in 1 .. Len(i.rest) /\ i.rest[1] = f

\* Whether a listing is at its end, and what it does if it is not.
LEMMA NextIs ==
  ASSUME Typed, NEW c, NEW i \in Instr
  PROVE  \/ /\ Current(i) = <<>> /\ NextEntry(c, i) = <<>>
            /\ IF Driver.list = "index" THEN ~(i.at + 1 \in 1 .. Len(order)) ELSE i.rest = <<>>
         \/ \E f \in Paths : /\ Comes(i, f)
                             /\ NextEntry(c, i) = (IF Yields(i, f) THEN Use(c, f) ELSE <<>>) \o <<On(i)>>
<1> DEFINE q == IF Driver.list = "index" THEN order ELSE i.rest
           n == IF Driver.list = "index" THEN i.at + 1 ELSE 1
<1>1. q \in Seq(Paths) /\ DOMAIN q = 1 .. Len(q) /\ Len(q) \in Nat /\ n \in Nat
  <2>1. order \in Seq(Paths) /\ i.rest \in Seq(Paths) /\ i.at \in Nat
    BY DEF Typed, Instr
  <2> QED
    BY <2>1, LenProperties
<1>2. Current(i) = IF n \in DOMAIN q THEN <<q[n]>> ELSE <<>>
  BY DEF Current
<1>3. CASE n \notin DOMAIN q
  <2>1. Current(i) = <<>>
    BY <1>2, <1>3
  <2>2. NextEntry(c, i) = <<>>
    BY <2>1 DEF NextEntry
  <2>3. Driver.list # "index" => Len(q) = 0
    BY <1>1, <1>3
  <2>4. Driver.list # "index" => i.rest = <<>>
    BY <1>1, <2>3, EmptySeq
  <2> QED
    BY <1>1, <1>3, <2>1, <2>2, <2>4
<1>4. CASE n \in DOMAIN q
  <2> DEFINE f == q[n]
  <2>1. f \in Paths
    <3> HIDE DEF q, n
    <3> QED
      BY <1>1, <1>4, ElementOfSeq
  <2>2. Current(i) = <<f>>
    BY <1>2, <1>4
  <2>3. Comes(i, f)
    <3>1. Driver.list # "index" => i.rest # <<>>
      BY <1>1, <1>4, EmptySeq
    <3> QED
      BY <1>1, <1>4, <2>1, <2>2, <3>1 DEF Comes
  <2>4. NextEntry(c, i) = (IF Yields(i, f) THEN Use(c, f) ELSE <<>>) \o <<On(i)>>
    <3> HIDE DEF f
    <3>1. Current(i) # <<>> /\ Head(Current(i)) = f
      BY <2>2
    <3> QED
      BY <3>1 DEF NextEntry, On
  <2> QED
    BY <2>1, <2>3, <2>4
<1> QED
  BY <1>3, <1>4

\* The listing that goes on is the same, one entry further.
LEMMA OnIs ==
  ASSUME NEW i \in Instr, NEW f, Comes(i, f)
  PROVE  /\ On(i) \in Instr /\ On(i).do = i.do /\ On(i).path = i.path /\ On(i).data = i.data
         /\ Driver.list = "index" => On(i).at = i.at + 1 /\ On(i).rest = i.rest
         /\ Driver.list # "index" => On(i).at = i.at /\ On(i).rest = Tail(i.rest)
<1>1. i.at + 1 \in Nat
  BY DEF Instr
<1>2. Driver.list # "index" => Tail(i.rest) \in Seq(Paths)
  BY HeadTailProperties DEF Comes, Instr
<1>3. CASE Driver.list = "index"
  BY <1>1, <1>3 DEF On, Instr
<1>4. CASE Driver.list # "index"
  <2> DEFINE r == Tail(i.rest)
  <2>1. On(i) = [i EXCEPT !.rest = r] /\ r \in Seq(Paths)
    BY <1>2, <1>4 DEF On
  <2> HIDE DEF r
  <2>2. On(i) \in Instr /\ On(i).do = i.do /\ On(i).path = i.path /\ On(i).data = i.data
        /\ On(i).at = i.at /\ On(i).rest = r
    BY <2>1 DEF Instr
  <2> QED
    BY <1>4, <2>2 DEF r
<1> QED
  BY <1>3, <1>4

\* What a caller does with an entry.
LEMMA UseMade ==
  ASSUME Typed, NEW c \in Clients, job[c].op \in {"keys", "emptyDir", "clear"}, NEW f \in Paths
  PROVE  /\ Made(c, Use(c, f))
         /\ job[c].op = "keys" => Use(c, f) = IF Len(f) = 1 THEN <<I("list", f)>> ELSE <<>>
         /\ job[c].op = "emptyDir" => Use(c, f) = <<I("remove", f)>>
         /\ job[c].op = "clear" => Use(c, f) = RemoveProgram(f)
<1>1. /\ job[c].op = "keys" => Use(c, f) = IF Len(f) = 1 THEN <<I("list", f)>> ELSE <<>>
      /\ job[c].op = "emptyDir" => Use(c, f) = <<I("remove", f)>>
      /\ job[c].op = "clear" => Use(c, f) = RemoveProgram(f)
  BY DEF Use
<1>2. job[c].op = "keys" => Fits(c, I("list", f))
  BY InstrFields DEF Fits, Deeds, Dos
<1>3. job[c].op \in {"emptyDir", "clear"} => Fits(c, I("remove", f))
  BY InstrFields DEF Fits, Deeds, Dos
<1>4. job[c].op = "clear" => Fits(c, I("lock", Root)) /\ Fits(c, I("unlock", Root))
  BY InstrFields DEF Fits, Deeds, Dos
<1>5. CASE job[c].op = "keys"
  BY <1>1, <1>2, <1>5, MadeOfParts
<1>6. CASE job[c].op = "emptyDir"
  BY <1>1, <1>3, <1>6, MadeOfParts
<1>7. CASE job[c].op = "clear"
  <2> DEFINE a == I("lock", Root)
             b == I("remove", f)
             d == I("unlock", Root)
             s == <<a, b, d>>
  <2>1. Fits(c, a) /\ Fits(c, b) /\ Fits(c, d)
    BY <1>3, <1>4, <1>7
  <2>2. Use(c, f) = s
    BY <1>1, <1>7 DEF RemoveProgram
  <2> HIDE DEF a, b, d
  <2>3. s \in Seq(Instr) /\ Len(s) = 3 /\ s[1] = a /\ s[2] = b /\ s[3] = d
    BY <2>1 DEF Fits
  <2> HIDE DEF s
  <2>4. \A n \in 1 .. Len(s) : n = 1 \/ n = 2 \/ n = 3
    BY <2>3
  <2>5. Made(c, s)
    BY <2>1, <2>3, <2>4 DEF Made
  <2> QED
    BY <1>1, <1>7, <2>2, <2>5
<1> QED
  BY <1>1, <1>5, <1>6, <1>7

\* A step of a listing.
LEMMA NextMade ==
  ASSUME Typed, NEW c \in Clients, NEW i, Fits(c, i), i.do = "next"
  PROVE  Made(c, NextEntry(c, i))
<1>1. i \in Instr /\ job[c].op \in {"keys", "emptyDir", "clear"} /\ job[c].op \in Ops
  BY JobTyped DEF Fits, Deeds, Ops
<1>2. CASE NextEntry(c, i) = <<>>
  BY <1>2, MadeOfParts
<1>3. CASE \E f \in Paths : /\ Comes(i, f)
                            /\ NextEntry(c, i) = (IF Yields(i, f) THEN Use(c, f) ELSE <<>>) \o <<On(i)>>
  <2>1. PICK f \in Paths : /\ Comes(i, f)
                           /\ NextEntry(c, i) = (IF Yields(i, f) THEN Use(c, f) ELSE <<>>) \o <<On(i)>>
    BY <1>3
  <2>2. On(i) \in Instr /\ On(i).do = "next" /\ On(i).path = i.path
    BY <1>1, <2>1, OnIs
  <2>3. Fits(c, On(i))
    BY <2>2 DEF Fits
  <2>4. Made(c, IF Yields(i, f) THEN Use(c, f) ELSE <<>>)
    BY <1>1, UseMade, MadeOfParts
  <2> QED
    BY <2>1, <2>3, <2>4, MadeOfParts
<1> QED
  BY <1>1, <1>2, <1>3, NextIs

\* A directory is removed behind its entries.
LEMMA CollectMade ==
  ASSUME Typed, NEW c \in Clients, NEW i, Fits(c, i), i.do = "collect"
  PROVE  Made(c, Collect(i))
<1>1. i.path \in Paths /\ job[c].op \in Removals /\ job[c].op \in Ops
  BY JobTyped DEF Fits, Deeds, Ops, Removals
<1> DEFINE q == SetToSeq(Children(i.path))
           r == [n \in DOMAIN q |-> I("remove", q[n])]
<1>2. q \in Seq(Paths) /\ Len(q) \in Nat /\ DOMAIN q = 1 .. Len(q)
      /\ \A n \in 1 .. Len(q) : q[n] \in Paths
  BY ChildrenInSequence, LenProperties, ElementOfSeq
<1> HIDE DEF q
<1>3. \A f \in Paths : I("remove", f) \in Instr /\ Fits(c, I("remove", f))
  BY <1>1, InstrFields DEF Fits, Deeds, Dos, Removals
<1>4. Made(c, r)
  BY <1>2, <1>3 DEF Made
<1> HIDE DEF r
<1>5. Made(c, Delete(i.path))
  BY <1>1, DeleteMade
<1>6. Collect(i) = r \o Delete(i.path)
  BY DEF Collect, q, r
<1> QED
  BY <1>4, <1>5, <1>6, MadeOfParts

\* A listing opens on the entries that are there.
LEMMA OpenListIs ==
  ASSUME Typed, NEW i \in Instr
  PROVE  /\ OpenList(i) = <<[i EXCEPT !.do = "next", !.rest = IF Driver.list = "index" THEN <<>>
                                                            ELSE SetToSeq(Children(i.path))]>>
         /\ OpenList(i) \in Seq(Instr) /\ Len(OpenList(i)) = 1 /\ OpenList(i)[1] \in Instr
         /\ OpenList(i) = <<OpenList(i)[1]>>
         /\ OpenList(i)[1].do = "next" /\ OpenList(i)[1].path = i.path /\ OpenList(i)[1].at = i.at
         /\ OpenList(i)[1].data = i.data
         /\ OpenList(i)[1].rest = IF Driver.list = "index" THEN <<>> ELSE SetToSeq(Children(i.path))
<1> DEFINE r == IF Driver.list = "index" THEN <<>> ELSE SetToSeq(Children(i.path))
           j == [i EXCEPT !.do = "next", !.rest = r]
<1>1. r \in Seq(Paths)
  BY ChildrenInSequence, EmptySeq
<1>2. OpenList(i) = <<j>>
  BY DEF OpenList
<1> HIDE DEF r
<1>3. j \in Instr /\ j.do = "next" /\ j.path = i.path /\ j.at = i.at /\ j.rest = r /\ j.data = i.data
  BY <1>1 DEF Instr, Dos
<1>4. <<j>> \in Seq(Instr) /\ Len(<<j>>) = 1 /\ <<j>>[1] = j /\ <<j>> = <<<<j>>[1]>>
  BY <1>3
<1> QED
  BY <1>2, <1>3, <1>4 DEF r

\* Whatever an await leaves is a program of its call.
LEMMA AfterMade ==
  ASSUME Typed, NEW c \in Clients, NEW i, Fits(c, i)
  PROVE  Made(c, After(c, i))
<1>1. i \in Instr /\ i.do \in Deeds[job[c].op] /\ job[c].op \in Ops
  BY JobTyped DEF Fits
<1>2. i.do \in Dos
  BY <1>1 DEF Instr
<1>3. CASE i.do = "ensure"
  <2> DEFINE j == [i EXCEPT !.do = "createDir"]
  <2>1. j \in Instr /\ j.do = "createDir" /\ j.path = i.path
    BY <1>1, Renamed DEF Dos
  <2>2. After(c, i) = IF store[i.path] = NoRecord THEN <<j>> ELSE <<>>
    BY <1>3, AfterIs
  <2>3. job[c].op = "set"
    BY <1>1, <1>3 DEF Deeds, Ops
  <2> HIDE DEF j
  <2>4. Fits(c, j)
    BY <1>3, <2>1, <2>3 DEF Fits, Deeds
  <2> QED
    BY <2>2, <2>4, MadeOfParts
<1>4. CASE i.do = "createDir"
  <2> DEFINE j == [i EXCEPT !.data = Directory]
  <2>1. j \in Instr /\ j.path = i.path /\ j.data = Directory
    BY <1>1 DEF Instr
  <2>2. job[c].op = "set" /\ i.path \in Dirs /\ i.path \in Paths
    BY <1>1, <1>4, PathKinds DEF Deeds, Ops, Fits
  <2>3. After(c, i) = IF store[i.path] = NoRecord THEN Set(j) ELSE <<>>
    BY <1>4, AfterIs DEF CreateDir
  <2> HIDE DEF j
  <2>4. Made(c, Set(j))
    BY <2>1, <2>2, SetMade
  <2> QED
    BY <2>3, <2>4, MadeOfParts
<1>5. CASE i.do = "write"
  <2>1. job[c].op \in {"set", "write"} /\ i.path \in Files /\ i.path \in Paths /\ i.path \notin Dirs
    BY <1>1, <1>5, PathKinds DEF Deeds, Ops, Fits
  <2> DEFINE w == Written(c, i.path)
             j == [i EXCEPT !.data = w]
             t == [i EXCEPT !.do = "transact"]
  <2>2. w \in Seq(Byte) /\ w # Directory
    BY <2>1, WrittenTyped
  <2>3. After(c, i) = IF Driver.transact THEN <<t>> ELSE Set(j)
    BY <1>5, AfterIs DEF WriteFile
  <2>4. t \in Instr /\ t.do = "transact" /\ t.path = i.path
    BY <1>1, Renamed DEF Dos
  <2> HIDE DEF w, t
  <2>5. j \in Instr /\ j.path = i.path /\ j.data = w
    BY <1>1, <2>2 DEF Instr
  <2> HIDE DEF j
  <2>6. Made(c, Set(j))
    BY <2>1, <2>2, <2>5, SetMade
  <2>7. Fits(c, t)
    BY <2>1, <2>4 DEF Fits, Deeds
  <2> QED
    BY <2>3, <2>6, <2>7, MadeOfParts
<1>6. CASE i.do = "remove"
  <2>1. job[c].op \in Removals /\ i.path \in Paths
    BY <1>1, <1>6 DEF Deeds, Ops, Fits, Removals
  <2> DEFINE j == [i EXCEPT !.do = "collect"]
  <2>2. j \in Instr /\ j.do = "collect" /\ j.path = i.path
    BY <1>1, Renamed DEF Dos
  <2>3. After(c, i) \in {<<>>, Delete(i.path), <<j>>}
    BY <1>6, AfterIs DEF RemoveUnlocked
  <2> HIDE DEF j
  <2>4. Fits(c, j)
    BY <2>1, <2>2 DEF Fits, Deeds, Removals
  <2>5. Made(c, Delete(i.path))
    BY <2>1, DeleteMade
  <2> QED
    BY <2>3, <2>4, <2>5, MadeOfParts
<1>7. CASE i.do = "collect"
  BY <1>7, AfterIs, CollectMade
<1>8. CASE i.do = "find"
  <2>1. job[c].op \in Removals /\ i.path \in Paths
    BY <1>1, <1>8 DEF Deeds, Ops, Fits, Removals
  <2>2. Fits(c, I("delete", i.path))
    BY <2>1, InstrFields DEF Fits, Deeds, Removals, Dos
  <2> QED
    BY <1>8, <2>2, AfterIs, MadeOfParts
<1>9. CASE i.do = "list"
  <2>0. After(c, i) = OpenList(i)
    BY <1>9, AfterIs
  <2>1. After(c, i) = <<After(c, i)[1]>> /\ After(c, i)[1] \in Instr /\ After(c, i)[1].do = "next"
    BY <1>1, <2>0, OpenListIs
  <2>2. job[c].op \in {"keys", "emptyDir", "clear"}
    BY <1>1, <1>9 DEF Deeds, Ops
  <2>3. Fits(c, After(c, i)[1])
    BY <2>1, <2>2 DEF Fits, Deeds
  <2> QED
    BY <2>1, <2>3, MadeOfParts
<1>10. CASE i.do = "next"
  BY <1>10, AfterIs, NextMade
<1>11. CASE i.do \in {"lock", "unlock", "parent", "transact", "put", "insert", "deleteRow", "delete",
                      "read"}
  BY <1>11, AfterIs, MadeOfParts
<1> QED
  BY <1>2, <1>3, <1>4, <1>5, <1>6, <1>7, <1>8, <1>9, <1>10, <1>11 DEF Dos

----------------------------------------------------------------------------
(* The steps of a call, and the types.                                     *)

Outcomes == {"none", "done", "failed", "crashed"}

Same == UNCHANGED <<backend, shared, job>>

\* One client has moved, and no watch has grown.
Moved(p, todo, held, seen, outcome) ==
  /\ client' \in [Clients -> Local]
  /\ \A d \in Clients : client'[d].watch = StillWatched(p, d) /\ client'[d].watch \subseteq client[d].watch
  /\ \A d \in Clients \ {p} :
       /\ client'[d].todo = client[d].todo /\ client'[d].held = client[d].held
       /\ client'[d].seen = client[d].seen /\ client'[d].outcome = client[d].outcome
  /\ client'[p].todo = todo /\ client'[p].held = held
  /\ client'[p].seen = client[p].seen \cup seen /\ client'[p].outcome = outcome

\* The fields of the clients after a step.
LEMMA StepEffect ==
  ASSUME Typed, NEW p \in Clients, NEW todo \in Seq(Instr), NEW held \in SUBSET (Paths \cup {Root}),
         NEW seen \in SUBSET Keys, NEW outcome \in Outcomes, Step(p, todo, held, seen, outcome)
  PROVE  Moved(p, todo, held, seen, outcome)
<1> DEFINE N(d) == [client[d] EXCEPT
                      !.watch = StillWatched(p, d),
                      !.todo = IF d = p THEN todo ELSE client[d].todo,
                      !.held = IF d = p THEN held ELSE client[d].held,
                      !.seen = IF d = p THEN client[d].seen \cup seen ELSE client[d].seen,
                      !.outcome = IF d = p THEN outcome ELSE client[d].outcome]
<1>1. client' = [d \in Clients |-> N(d)]
  BY DEF Step
<1>2. ASSUME NEW d \in Clients
      PROVE  /\ N(d) \in Local
             /\ N(d).watch = StillWatched(p, d) /\ N(d).watch \subseteq client[d].watch
             /\ N(d).todo = IF d = p THEN todo ELSE client[d].todo
             /\ N(d).held = IF d = p THEN held ELSE client[d].held
             /\ N(d).seen = IF d = p THEN client[d].seen \cup seen ELSE client[d].seen
             /\ N(d).outcome = IF d = p THEN outcome ELSE client[d].outcome
  <2> DEFINE w == StillWatched(p, d)
             t == IF d = p THEN todo ELSE client[d].todo
             h == IF d = p THEN held ELSE client[d].held
             s == IF d = p THEN client[d].seen \cup seen ELSE client[d].seen
             o == IF d = p THEN outcome ELSE client[d].outcome
  <2>1. client[d] \in Local
    BY DEF Typed
  <2>2. w \subseteq client[d].watch
    BY DEF StillWatched
  <2>3. client[d].watch \in SUBSET Keys
    BY <2>1 DEF Local
  <2>4. /\ t \in Seq(Instr) /\ h \in SUBSET (Paths \cup {Root}) /\ s \in SUBSET Keys
        /\ o \in {"none", "done", "failed", "crashed"}
    BY <2>1 DEF Local, Outcomes
  <2>5. N(d) = [client[d] EXCEPT !.watch = w, !.todo = t, !.held = h, !.seen = s, !.outcome = o]
    OBVIOUS
  <2> HIDE DEF w, t, h, s, o, N
  <2>6. N(d) \in Local
    BY <2>1, <2>2, <2>3, <2>4, <2>5 DEF Local
  <2>7. /\ N(d).watch = w /\ N(d).todo = t /\ N(d).held = h /\ N(d).seen = s /\ N(d).outcome = o
    BY <2>1, <2>5 DEF Local
  <2> QED
    BY <2>2, <2>6, <2>7 DEF w, t, h, s, o
<1> HIDE DEF N
<1>3. \A d \in Clients : client'[d] = N(d)
  BY <1>1
<1>4. client' \in [Clients -> Local]
  BY <1>1, <1>2
<1> QED
  BY <1>2, <1>3, <1>4 DEF Moved

\* Types and programs are kept by a client that has a program of its call.
LEMMA MovedKeeps ==
  ASSUME Typed, Programs, Same, NEW p \in Clients, NEW todo, NEW held, NEW seen, NEW outcome,
         Moved(p, todo, held, seen, outcome), Made(p, todo), outcome = "none" <=> todo # <<>>,
         DOMAIN store' = Paths, \A f \in Paths : store'[f] \in Record(f), order' \in Seq(Paths)
  PROVE  Typed' /\ Programs'
<1>1. Typed'
  BY DEF Typed, Same, Moved, Record
<1>2. ASSUME NEW c \in Clients
      PROVE  /\ \A n \in 1 .. Len(client'[c].todo) : Fits(c, client'[c].todo[n])
             /\ client'[c].outcome = "none" <=> client'[c].todo # <<>>
  <2>1. CASE c = p
    BY <2>1 DEF Moved, Made
  <2>2. CASE c # p
    <3>1. client'[c].todo = client[c].todo /\ client'[c].outcome = client[c].outcome
      BY <2>2 DEF Moved
    <3> QED
      BY <3>1 DEF Programs, Running
  <2> QED
    BY <2>1, <2>2
<1>3. \A c \in Clients : \A i : Fits(c, i) => Fits(c, i)'
  BY DEF Fits, Same, Driver
<1>4. Programs'
  BY <1>2, <1>3 DEF Programs, Running
<1> QED
  BY <1>1, <1>4

\* The order stays one of paths.
LEMMA OrderTyped ==
  ASSUME Typed, NEW f \in Paths
  PROVE  Inserted(f) \subseteq Seq(Paths) /\ Without(f) \in Seq(Paths)
<1>1. order \in Seq(Paths) /\ Len(order) \in Nat /\ DOMAIN order = 1 .. Len(order)
      /\ \A n \in 1 .. Len(order) : order[n] \in Paths
  BY LenProperties, ElementOfSeq DEF Typed
<1>2. \A m, n \in Int : 1 <= m /\ n <= Len(order) => SubSeq(order, m, n) \in Seq(Paths)
  BY <1>1, SubSeqProperties
<1>3. ASSUME NEW n \in 1 .. Len(order) + 1
      PROVE  InsertAt(order, n, f) \in Seq(Paths)
  <2> DEFINE a == SubSeq(order, 1, n - 1)
             b == SubSeq(order, n, Len(order))
  <2>1. a \in Seq(Paths) /\ b \in Seq(Paths) /\ <<f>> \in Seq(Paths)
    BY <1>1, <1>2
  <2>2. InsertAt(order, n, f) = a \o <<f>> \o b
    BY DEF InsertAt
  <2> HIDE DEF a, b
  <2> QED
    BY <2>1, <2>2, ConcatProperties
<1>4. Inserted(f) \subseteq Seq(Paths)
  BY <1>1, <1>3 DEF Inserted
<1>5. ASSUME NEW n \in 1 .. Len(order)
      PROVE  RemoveAt(order, n) \in Seq(Paths)
  <2> DEFINE a == SubSeq(order, 1, n - 1)
             b == SubSeq(order, n + 1, Len(order))
  <2>1. a \in Seq(Paths) /\ b \in Seq(Paths)
    BY <1>1, <1>2
  <2>2. RemoveAt(order, n) = a \o b
    BY DEF RemoveAt
  <2> HIDE DEF a, b
  <2> QED
    BY <2>1, <2>2, ConcatProperties
<1>6. Without(f) \in Seq(Paths)
  <2>1. CASE f \in ToSet(order)
    <3> DEFINE n == CHOOSE m \in DOMAIN order : order[m] = f
    <3>1. n \in DOMAIN order
      BY <2>1 DEF ToSet
    <3>2. Without(f) = RemoveAt(order, n)
      BY <2>1 DEF Without
    <3> HIDE DEF n
    <3> QED
      BY <1>1, <1>5, <3>1, <3>2
  <2>2. CASE f \notin ToSet(order)
    BY <1>1, <2>2 DEF Without
  <2> QED
    BY <2>1, <2>2
<1> QED
  BY <1>4, <1>6

\* What an await does to the storage.
Changes(c, i) ==
  \/ i.do \notin {"put", "insert", "transact", "delete", "deleteRow", "lock", "unlock"} /\ Keep
  \/ i.do \in {"put", "insert"} /\ store'[i.path] = i.data /\ i.data # NoRecord
  \/ i.do = "transact" /\ store'[i.path] = Written(c, i.path) /\ store'[i.path] # NoRecord
  \/ i.do \in {"delete", "deleteRow"} /\ store'[i.path] = NoRecord

StoreTyped == DOMAIN store' = Paths /\ (\A f \in Paths : store'[f] \in Record(f)) /\ order' \in Seq(Paths)

\* An await changes the record of its own path, and only to one that belongs
\* there.
LEMMA StorageEffect ==
  ASSUME Typed, NEW c \in Clients, NEW i, Fits(c, i), Storage(c, i)
  PROVE  /\ StoreTyped /\ Changes(c, i)
         /\ \A f \in Paths : store'[f] = store[f] \/ f = i.path
<1>1. DOMAIN store = Paths /\ (\A f \in Paths : store[f] \in Record(f)) /\ order \in Seq(Paths)
  BY DEF Typed
<1>2. ASSUME NEW record, Put(i.path, record), i.path \in Paths, record \in Record(i.path)
      PROVE  StoreTyped /\ store'[i.path] = record
             /\ \A f \in Paths : store'[f] = store[f] \/ f = i.path
  BY <1>1, <1>2, OrderTyped DEF Put, StoreTyped
<1>3. CASE i.do \in {"put", "insert"} /\ Put(i.path, i.data)
  <2>1. i.path \in Paths /\ (i.data = Directory <=> i.path \in Dirs)
        /\ i.data \in Seq(Byte) \cup {Directory}
    BY <1>3 DEF Fits, Instr
  <2>2. i.data \in Record(i.path) /\ i.data # NoRecord
    BY <2>1, RecordsAssumption DEF Record
  <2> QED
    BY <1>2, <1>3, <2>1, <2>2 DEF Changes
<1>4. CASE i.do = "transact" /\ Put(i.path, Written(c, i.path))
  <2>1. i.path \in Files /\ i.path \in Paths /\ i.path \notin Dirs
    BY <1>4, PathKinds DEF Fits
  <2>2. Written(c, i.path) \in Record(i.path) /\ Written(c, i.path) # NoRecord
    BY <2>1, WrittenTyped DEF Record
  <2> QED
    BY <1>2, <1>4, <2>1, <2>2 DEF Changes
<1>5. CASE i.do \in {"delete", "deleteRow"} /\ Erase(i.path)
  <2>1. i.path \in Paths
    BY <1>5 DEF Fits
  <2>2. order' \in Seq(Paths)
    BY <1>5, <2>1, OrderTyped DEF Erase
  <2> QED
    BY <1>1, <1>5, <2>1, <2>2 DEF Erase, StoreTyped, Changes, Record
<1>6. CASE i.do \notin {"put", "insert", "transact", "delete", "deleteRow", "lock", "unlock"} /\ Keep
  BY <1>1, <1>6 DEF Keep, StoreTyped, Changes
<1> QED
  BY <1>3, <1>4, <1>5, <1>6 DEF Storage

----------------------------------------------------------------------------
(* A step, as the properties see it.                                       *)

First(c) == client[c].todo[1]

Ends(todo) == IF todo = <<>> THEN "done" ELSE "none"

Locks(c) ==
  /\ First(c).do = "lock" /\ MayHold(c, First(c).path) /\ Keep
  /\ Moved(c, Tail(client[c].todo), {First(c).path}, {}, Ends(Tail(client[c].todo)))

Unlocks(c) ==
  /\ First(c).do = "unlock" /\ Keep
  /\ Moved(c, Tail(client[c].todo), {}, {}, Ends(Tail(client[c].todo)))

GoesOn(c) ==
  /\ First(c).do \notin {"lock", "unlock"} /\ ~Refuses(First(c)) /\ Storage(c, First(c))
  /\ Moved(c, After(c, First(c)) \o Tail(client[c].todo), client[c].held, Sees(First(c)),
           Ends(After(c, First(c)) \o Tail(client[c].todo)))

Stops(c) ==
  \E outcome \in {"done", "failed", "crashed"} :
    /\ Moved(c, <<>>, {}, {}, outcome)
    /\ outcome = "done" => job[c].op = "keys" /\ Refuses(First(c))
    /\ \/ Keep
       \/ outcome = "failed" /\ First(c).do \notin {"lock", "unlock", "next"} /\ ~Refuses(First(c))
          /\ Storage(c, First(c))

Steps(c) ==
  /\ Same /\ Running(c) /\ client[c].todo # <<>> /\ Made(c, client[c].todo)
  /\ Fits(c, First(c)) /\ Head(client[c].todo) = First(c)
  /\ Locks(c) \/ Unlocks(c) \/ GoesOn(c) \/ Stops(c)

\* The keys that a listing shows are those of the files it yields.
LEMMA SeesIs ==
  ASSUME Typed, NEW i \in Instr
  PROVE  /\ Sees(i) \in SUBSET Keys
         /\ \A k \in Keys : i.do = "next" /\ Comes(i, File(k)) /\ Yields(i, File(k)) => k \in Sees(i)
<1>1. Current(i) = <<>> \/ \E f \in Paths : Current(i) = <<f>>
  BY NextIs DEF Comes
<1>2. ToSet(<<>>) = {} /\ \A f : ToSet(<<f>>) = {f}
  BY DEF ToSet
<1>3. ToSet(Current(i)) \subseteq Paths
  BY <1>1, <1>2
<1>4. \A f \in Paths : Head(f) \in Keys
  BY PathKinds, PathFacts
<1>5. Sees(i) \in SUBSET Keys
  BY <1>3, <1>4 DEF Sees
<1>6. ASSUME NEW k \in Keys, i.do = "next", Comes(i, File(k)), Yields(i, File(k))
      PROVE  k \in Sees(i)
  <2>1. ToSet(Current(i)) = {File(k)}
    BY <1>2, <1>6 DEF Comes
  <2>2. Len(File(k)) = 2 /\ Head(File(k)) = k
    BY PathFacts
  <2> QED
    BY <1>6, <2>1, <2>2 DEF Sees
<1> QED
  BY <1>5, <1>6

\* Every step is one of those.
LEMMA NextSteps ==
  ASSUME Typed, Programs, Next
  PROVE  \E c \in Clients : Steps(c)
<1>1. PICK c \in Clients :
        /\ Lock(c) \/ Unlock(c) \/ Await(c) \/ Throw(c) \/ Fail(c) \/ Crash(c)
        /\ Same
  BY DEF Next, Same
<1>2. Running(c)
  BY <1>1 DEF Lock, Unlock, Await, Throw, Fail, Crash
<1>3. client[c].todo # <<>> /\ client[c] \in Local
  BY <1>2 DEF Programs, Typed
<1> DEFINE todo == client[c].todo
           i == First(c)
<1>4. Made(c, todo) /\ client[c].held \in SUBSET (Paths \cup {Root})
  BY <1>3 DEF Made, Programs, Local
<1>5. Fits(c, i) /\ Head(todo) = i /\ Made(c, Tail(todo)) /\ i \in Instr
  <2>1. todo # <<>>
    BY <1>3
  <2> HIDE DEF todo
  <2>2. Made(c, <<>>)
    BY MadeOfParts
  <2>3. Made(c, Tail(todo)) /\ Fits(c, Head(todo)) /\ Head(todo) = todo[1]
    BY <1>4, <2>1, <2>2, MadeOn
  <2> QED
    BY <2>3 DEF First, todo, Fits
<1> DEFINE a == After(c, i)
           rest == Tail(todo)
<1>6. Made(c, a \o rest)
  <2>1. Made(c, a)
    BY <1>5, AfterMade
  <2> HIDE DEF a, todo
  <2> QED
    BY <1>5, <2>1, MadeOfParts
<1>7. rest \in Seq(Instr) /\ a \o rest \in Seq(Instr) /\ <<>> \in Seq(Instr)
  BY <1>5, <1>6, MadeOfParts DEF Made
<1>8. \A t : Ends(t) \in Outcomes
  BY DEF Ends, Outcomes
<1>9. i.path \in Paths \cup {Root} /\ Sees(i) \in SUBSET Keys
  BY <1>5, SeesIs DEF Instr
<1> HIDE DEF i, a, rest, todo
<1>10. CASE Lock(c)
  <2>1. i.do = "lock" /\ MayHold(c, i.path) /\ Keep /\ Step(c, rest, {i.path}, {}, Ends(rest))
    BY <1>3, <1>5, <1>10 DEF Lock, At, Continue, Ends, todo, rest
  <2>2. Moved(c, rest, {i.path}, {}, Ends(rest))
    BY <1>7, <1>8, <1>9, <2>1, StepEffect
  <2> QED
    BY <2>1, <2>2, <1>1, <1>2, <1>3, <1>4, <1>5 DEF Steps, Locks, i, rest, todo
<1>11. CASE Unlock(c)
  <2>1. i.do = "unlock" /\ Keep /\ Step(c, rest, {}, {}, Ends(rest))
    BY <1>3, <1>5, <1>11 DEF Unlock, At, Continue, Ends, todo, rest
  <2>2. Moved(c, rest, {}, {}, Ends(rest))
    BY <1>7, <1>8, <2>1, StepEffect
  <2> QED
    BY <2>1, <2>2, <1>1, <1>2, <1>3, <1>4, <1>5 DEF Steps, Unlocks, i, rest, todo
<1>12. CASE Await(c)
  <2>1. /\ ~Refuses(i) /\ Storage(c, i)
        /\ Step(c, a \o rest, client[c].held, Sees(i), Ends(a \o rest))
    BY <1>3, <1>5, <1>12 DEF Await, Continue, Ends, todo, rest, a
  <2>2. Moved(c, a \o rest, client[c].held, Sees(i), Ends(a \o rest))
    BY <1>4, <1>7, <1>8, <1>9, <2>1, StepEffect
  <2>3. i.do \notin {"lock", "unlock"}
    BY <2>1 DEF Storage
  <2> QED
    BY <2>1, <2>2, <2>3, <1>1, <1>2, <1>3, <1>4, <1>5 DEF Steps, GoesOn, i, a, rest, todo
<1>13. ASSUME NEW outcome \in {"done", "failed", "crashed"}, Leave(c, outcome),
              outcome = "done" => job[c].op = "keys" /\ Refuses(i),
              \/ Keep
              \/ outcome = "failed" /\ i.do \notin {"lock", "unlock", "next"} /\ ~Refuses(i)
                 /\ Storage(c, i)
       PROVE  Steps(c)
  <2>1. Step(c, <<>>, {}, {}, outcome) /\ outcome \in Outcomes
    BY <1>13 DEF Leave, Outcomes
  <2>2. Moved(c, <<>>, {}, {}, outcome)
    BY <1>7, <2>1, StepEffect
  <2>3. Stops(c)
    BY <1>13, <2>2 DEF Stops, i
  <2> QED
    BY <2>3, <1>1, <1>2, <1>3, <1>4, <1>5 DEF Steps, i, todo
<1>14. CASE Throw(c)
  <2>1. Keep /\ Refuses(i) /\ \E outcome \in {"done", "failed"} :
          Leave(c, outcome) /\ (outcome = "done" => job[c].op = "keys")
    BY <1>5, <1>14 DEF Throw, todo
  <2> QED
    BY <1>13, <2>1
<1>15. CASE Fail(c)
  <2>1. /\ i.do \notin {"lock", "unlock", "next"} /\ ~Refuses(i)
        /\ Storage(c, i) \/ Keep
        /\ Leave(c, "failed")
    BY <1>3, <1>5, <1>15 DEF Fail, At, todo
  <2> QED
    BY <1>13, <2>1
<1>16. CASE Crash(c)
  BY <1>13, <1>16 DEF Crash
<1> QED
  BY <1>1, <1>10, <1>11, <1>12, <1>14, <1>15, <1>16

\* A step that leaves a program of its call keeps the types.
LEMMA StepsTyped ==
  ASSUME Typed, Programs, NEW c \in Clients, Steps(c)
  PROVE  Typed' /\ Programs' /\ StoreTyped
<1>1. StoreTyped
  <2>1. CASE Keep
    BY <2>1 DEF Typed, Keep, StoreTyped
  <2>2. CASE Storage(c, First(c))
    BY <2>2, StorageEffect DEF Steps
  <2> QED
    BY <2>1, <2>2 DEF Steps, Locks, Unlocks, GoesOn, Stops
<1>2. ASSUME NEW todo, NEW held, NEW seen, NEW outcome, Moved(c, todo, held, seen, outcome),
             Made(c, todo), outcome = "none" <=> todo # <<>>
      PROVE  Typed' /\ Programs'
  BY <1>1, <1>2, MovedKeeps DEF StoreTyped, Steps
<1> DEFINE rest == Tail(client[c].todo)
           a == After(c, First(c))
<1>3. Made(c, rest) /\ Made(c, a \o rest) /\ Made(c, <<>>)
  <2>1. Made(c, a)
    BY AfterMade DEF Steps
  <2>2. Made(c, <<>>)
    BY MadeOfParts
  <2> HIDE DEF a
  <2>3. Made(c, rest)
    BY <2>2, MadeOn DEF Steps
  <2> HIDE DEF rest
  <2> QED
    BY <2>1, <2>2, <2>3, MadeOfParts
<1>4. \A t : Ends(t) = "none" <=> t # <<>>
  BY DEF Ends
<1> HIDE DEF a, rest
<1>5. CASE Locks(c)
  BY <1>1, <1>2, <1>3, <1>4, <1>5 DEF Locks, rest
<1>6. CASE Unlocks(c)
  BY <1>1, <1>2, <1>3, <1>4, <1>6 DEF Unlocks, rest
<1>7. CASE GoesOn(c)
  BY <1>1, <1>2, <1>3, <1>4, <1>7 DEF GoesOn, a, rest
<1>8. CASE Stops(c)
  <2>1. PICK outcome \in {"done", "failed", "crashed"} : Moved(c, <<>>, {}, {}, outcome)
    BY <1>8 DEF Stops
  <2> QED
    BY <1>1, <1>2, <1>3, <2>1
<1> QED
  BY <1>1, <1>5, <1>6, <1>7, <1>8 DEF Steps

\* Every call begins with a program of its own.
LEMMA ProgramMade ==
  ASSUME job \in Jobs, NEW c \in Clients
  PROVE  Made(c, Program(job[c])) /\ Program(job[c]) # <<>>
<1> DEFINE k == job[c].key
           o == job[c].op
           d == Dir(k)
           f == File(k)
<1>1. /\ k \in Keys /\ o \in Ops
  BY RecordsAssumption DEF Call
<1>2. /\ d \in Paths /\ d \in Dirs /\ f \in Paths /\ f \in Files
  BY <1>1, PathFacts
<1>3. /\ o \in {"set", "write"} => /\ Fits(c, I("lock", f)) /\ Fits(c, I("parent", f))
                                   /\ Fits(c, I("write", f)) /\ Fits(c, I("unlock", Root))
      /\ o = "set" => Fits(c, I("ensure", d))
      /\ o \in Removals => Fits(c, I("lock", Root)) /\ Fits(c, I("unlock", Root)) /\ Fits(c, I("remove", f))
      /\ o \in {"emptyDir", "clear", "keys"} => Fits(c, I("list", Root))
      /\ o = "get" => Fits(c, I("read", f))
  <2> HIDE DEF d, f
  <2> QED
    BY <1>1, <1>2, InstrFields DEF Fits, Deeds, Dos, Removals, Ops, o
<1> DEFINE p == Program(job[c])
<1>4. /\ o = "set" => p = <<I("lock", f), I("ensure", d), I("parent", f), I("write", f), I("unlock", Root)>>
      /\ o = "write" => p = <<I("lock", f), I("parent", f), I("write", f), I("unlock", Root)>>
      /\ o = "remove" => p = <<I("lock", Root), I("remove", f), I("unlock", Root)>>
      /\ o = "emptyDir" => p = <<I("lock", Root), I("list", Root), I("unlock", Root)>>
      /\ o \in {"clear", "keys"} => p = <<I("list", Root)>>
      /\ o = "get" => p = <<I("read", f)>>
  BY DEF Program, SetProgram, WriteProgram, RemoveProgram, EmptyProgram, ClearProgram, KeysProgram
<1> HIDE DEF p, o, k, d, f
<1>5. ASSUME NEW s1, NEW s2, NEW s3, Fits(c, s1), Fits(c, s2), Fits(c, s3)
      PROVE  Made(c, <<s1, s2, s3>>)
  <2> DEFINE s == <<s1, s2, s3>>
  <2>1. s \in Seq(Instr) /\ Len(s) = 3 /\ s[1] = s1 /\ s[2] = s2 /\ s[3] = s3
    BY <1>5 DEF Fits
  <2> HIDE DEF s
  <2>2. \A n \in 1 .. Len(s) : n = 1 \/ n = 2 \/ n = 3
    BY <2>1
  <2> QED
    BY <1>5, <2>1, <2>2 DEF Made, s
<1>6. CASE o = "set"
  <2> DEFINE s1 == I("lock", f)
             s2 == I("ensure", d)
             s3 == I("parent", f)
             s4 == I("write", f)
             s5 == I("unlock", Root)
  <2>1. p = <<s1, s2, s3, s4, s5>> /\ Fits(c, s1) /\ Fits(c, s2) /\ Fits(c, s3) /\ Fits(c, s4) /\ Fits(c, s5)
    BY <1>3, <1>4, <1>6
  <2> HIDE DEF s1, s2, s3, s4, s5
  <2>2. p \in Seq(Instr) /\ Len(p) = 5 /\ p[1] = s1 /\ p[2] = s2 /\ p[3] = s3 /\ p[4] = s4 /\ p[5] = s5
    BY <2>1 DEF Fits
  <2>3. \A n \in 1 .. Len(p) : n = 1 \/ n = 2 \/ n = 3 \/ n = 4 \/ n = 5
    BY <2>2
  <2> QED
    BY <2>1, <2>2, <2>3 DEF Made, p
<1>7. CASE o = "write"
  <2> DEFINE s1 == I("lock", f)
             s3 == I("parent", f)
             s4 == I("write", f)
             s5 == I("unlock", Root)
  <2>1. p = <<s1, s3, s4, s5>> /\ Fits(c, s1) /\ Fits(c, s3) /\ Fits(c, s4) /\ Fits(c, s5)
    BY <1>3, <1>4, <1>7
  <2> HIDE DEF s1, s3, s4, s5
  <2>2. p \in Seq(Instr) /\ Len(p) = 4 /\ p[1] = s1 /\ p[2] = s3 /\ p[3] = s4 /\ p[4] = s5
    BY <2>1 DEF Fits
  <2>3. \A n \in 1 .. Len(p) : n = 1 \/ n = 2 \/ n = 3 \/ n = 4
    BY <2>2
  <2> QED
    BY <2>1, <2>2, <2>3 DEF Made, p
<1>8. CASE o \in {"remove", "emptyDir"}
  <2>1. Made(c, p)
    BY <1>3, <1>4, <1>5, <1>8 DEF Removals
  <2>2. p # <<>>
    BY <1>4, <1>8
  <2> QED
    BY <2>1, <2>2 DEF p
<1>9. CASE o \in {"clear", "keys", "get"}
  <2>1. Made(c, p)
    BY <1>3, <1>4, <1>9, MadeOfParts
  <2>2. p # <<>>
    BY <1>4, <1>9
  <2> QED
    BY <2>1, <2>2 DEF p
<1> QED
  BY <1>1, <1>6, <1>7, <1>8, <1>9 DEF Ops

\* The calls begin typed.
LEMMA InitTyped == Init => Typed /\ Programs
<1> SUFFICES ASSUME Init
             PROVE  Typed /\ Programs
  OBVIOUS
<1>1. IsTree(store) /\ job \in Jobs /\ backend \in Backends /\ shared \in BOOLEAN
  BY RecordsAssumption DEF Init
<1>2. DOMAIN store = Paths /\ \A f \in Paths : store[f] \in Record(f)
  <2>1. DOMAIN store = Paths /\ \A f \in Paths : store[f] \in {Directory, NoRecord} \cup Seq(Byte)
    BY <1>1 DEF IsTree
  <2>2. ASSUME NEW k \in Keys
        PROVE  store[Dir(k)] \in Record(Dir(k)) /\ store[File(k)] \in Record(File(k))
    BY <1>1, <2>1, PathFacts, PathKinds DEF IsTree, Record
  <2> QED
    BY <2>1, <2>2 DEF Paths
<1>3. order \in Seq(Paths)
  <2> DEFINE S == {f \in Paths : store[f] # NoRecord}
  <2>1. IsFiniteSet(S)
    BY PathsFinite, FS_Subset
  <2>2. order \in Orders(S)
    BY DEF Init
  <2>3. S \subseteq Paths
    OBVIOUS
  <2> HIDE DEF S
  <2>4. CASE order \in [1 .. Cardinality(S) -> S] /\ IsInjective(order)
    BY <2>1, <2>3, <2>4, EveryElementHasAPlace
  <2>5. order = <<>> \/ (order \in [1 .. Cardinality(S) -> S] /\ IsInjective(order))
    BY <2>2 DEF Orders, SetToSeqs, IsInjective
  <2> QED
    BY <2>4, <2>5, EmptySeq
<1>4. ASSUME NEW c \in Clients
      PROVE  /\ client[c] \in Local /\ client[c].todo = Program(job[c]) /\ client[c].outcome = "none"
  <2> DEFINE p == Program(job[c])
             w == {k \in Keys : store[File(k)] # NoRecord}
  <2>1. p \in Seq(Instr)
    BY <1>1, ProgramMade DEF Made
  <2>2. client[c] = [todo |-> p, held |-> {}, seen |-> {}, outcome |-> "none", watch |-> w]
    BY DEF Init
  <2>3. w \in SUBSET Keys
    OBVIOUS
  <2> HIDE DEF p, w
  <2>4. client[c] \in Local /\ client[c].todo = p /\ client[c].outcome = "none"
    BY <2>1, <2>2, <2>3 DEF Local
  <2> QED
    BY <2>4 DEF p
<1>5. client \in [Clients -> Local]
  <2>1. \E g : client = [c \in Clients |-> g[c]]
    <3> DEFINE g == client
    <3>1. DOMAIN client = Clients /\ client = [c \in Clients |-> client[c]]
      BY DEF Init
    <3> QED
      BY <3>1
  <2> QED
    BY <1>4, <2>1
<1>6. Programs
  BY <1>1, <1>4, ProgramMade DEF Programs, Running, Made
<1> QED
  BY <1>1, <1>2, <1>3, <1>5, <1>6 DEF Typed

\* A step that changes nothing.
LEMMA StutterTyped == Typed /\ Programs /\ UNCHANGED vars => Typed' /\ Programs'
BY DEF Typed, Programs, Record, Fits, Driver, Running, vars

\* Every state holds what its type says, and every client is left with the
\* awaits that its call and its driver can issue: one that runs has some left,
\* and only a driver that does not replace atomically deletes before it writes.
THEOREM TypeCorrect == Spec => [](Typed /\ Programs)
<1>1. Typed /\ Programs /\ [Next]_vars => (Typed /\ Programs)'
  BY NextSteps, StepsTyped, StutterTyped
<1> QED
  BY <1>1, InitTyped, PTL DEF Spec

\* What a step does to the record of a path: a record goes by a removal, or by
\* the first half of a replacement that is not atomic.
LEMMA RecordGoes ==
  ASSUME Typed, Programs, NEW c \in Clients, Steps(c), NEW f \in Paths,
         store[f] # NoRecord, store'[f] = NoRecord
  PROVE  /\ First(c).path = f /\ First(c).do \in {"delete", "deleteRow"}
         /\ First(c).do = "delete" => job[c].op \in Removals
         /\ First(c).do = "deleteRow" => Driver.replacement # "atomic"
<1>1. Fits(c, First(c)) /\ job[c].op \in Ops
  BY JobTyped DEF Steps
<1>2. ~Keep
  BY DEF Keep
<1>3. Storage(c, First(c))
  BY <1>2 DEF Steps, Locks, Unlocks, GoesOn, Stops
<1>4. Changes(c, First(c)) /\ f = First(c).path
  BY <1>1, <1>3, StorageEffect
<1>5. First(c).do \in {"delete", "deleteRow"}
  BY <1>2, <1>3, <1>4 DEF Changes, Storage
<1> QED
  BY <1>1, <1>4, <1>5 DEF Fits, Deeds, Ops, Removals

\* A driver that declares atomic replacement never shows the moment between the
\* old record and the new one: no step of a call that is not a removal takes a
\* record away.
THEOREM ReplacementIsDeclared == Spec => DeclaredReplacement
<1> DEFINE A == Driver.replacement = "atomic" =>
                  \A f \in Paths : store[f] # NoRecord /\ store'[f] = NoRecord =>
                    \E c \in Clients : job[c].op \in {"remove", "emptyDir", "clear"}
<1>1. ASSUME Typed, Programs, Next
      PROVE  A
  <2>1. PICK c \in Clients : Steps(c)
    BY <1>1, NextSteps
  <2> QED
    BY <1>1, <2>1, RecordGoes DEF Removals
<1>2. Typed /\ Programs /\ [Next]_vars => [A]_vars
  BY <1>1
<1> QED
  BY <1>2, TypeCorrect, PTL DEF Spec, DeclaredReplacement

----------------------------------------------------------------------------
(* Listings.                                                               *)

\* One more at the end of a sequence.
LEMMA AtTheEnd ==
  ASSUME NEW S, NEW u \in Seq(S), NEW x \in S
  PROVE  /\ Len(u) \in Nat /\ Len(u \o <<x>>) = Len(u) + 1 /\ (u \o <<x>>)[Len(u) + 1] = x
         /\ \A n \in 1 .. Len(u) : (u \o <<x>>)[n] = u[n]
<1> DEFINE v == <<x>>
<1>1. v \in Seq(S) /\ Len(v) = 1 /\ v[1] = x /\ Len(u) \in Nat
  BY LenProperties
<1> HIDE DEF v
<1>2. /\ Len(u \o v) = Len(u) + Len(v)
      /\ \A n \in 1 .. Len(u) + Len(v) : (u \o v)[n] = IF n <= Len(u) THEN u[n] ELSE v[n - Len(u)]
  BY <1>1, ConcatProperties
<1>3. (u \o v)[Len(u) + 1] = x /\ \A n \in 1 .. Len(u) : (u \o v)[n] = u[n]
  BY <1>1, <1>2
<1> QED
  BY <1>1, <1>2, <1>3 DEF v

\* A listing that opens has every child ahead of it.
LEMMA OpensAhead ==
  ASSUME Typed, NEW i \in Instr, i.at = 0, NEW g \in Children(i.path),
         Driver.list = "index" => g \in ToSet(order)
  PROVE  Ahead(OpenList(i)[1], g)
<1> DEFINE j == OpenList(i)[1]
<1>1. j.at = 0 /\ j.rest = IF Driver.list = "index" THEN <<>> ELSE SetToSeq(Children(i.path))
  BY OpenListIs
<1> HIDE DEF j
<1>2. CASE Driver.list = "index"
  <2>1. DOMAIN order = 1 .. Len(order)
    BY DEF Typed
  <2>2. PICK n \in 1 .. Len(order) : order[n] = g
    BY <1>2, <2>1 DEF ToSet
  <2>3. n \in j.at + 1 .. Len(order)
    BY <1>1
  <2> QED
    BY <1>2, <2>2, <2>3 DEF Ahead, j
<1>3. CASE Driver.list # "index"
  <2>1. \E n \in 1 .. Len(j.rest) : j.rest[n] = g
    BY <1>1, <1>3, ChildrenInSequence
  <2> QED
    BY <1>3, <2>1 DEF Ahead, j
<1> QED
  BY <1>2, <1>3

\* A listing comes to what is ahead of it.
LEMMA ComesTo ==
  ASSUME Typed, NEW c, NEW i \in Instr, NEW g, Ahead(i, g)
  PROVE  \E f \in Paths :
           /\ Comes(i, f)
           /\ NextEntry(c, i) = (IF Yields(i, f) THEN Use(c, f) ELSE <<>>) \o <<On(i)>>
           /\ f = g \/ Ahead(On(i), g)
<1>0. i.at \in Nat /\ Len(order) \in Nat /\ i.rest \in Seq(Paths) /\ Len(i.rest) \in Nat
  BY LenProperties DEF Instr, Typed
<1>1. PICK f \in Paths : /\ Comes(i, f)
                         /\ NextEntry(c, i) = (IF Yields(i, f) THEN Use(c, f) ELSE <<>>) \o <<On(i)>>
  <2>1. CASE Driver.list = "index" /\ ~(i.at + 1 \in 1 .. Len(order))
    BY <1>0, <2>1 DEF Ahead
  <2>2. CASE Driver.list # "index" /\ i.rest = <<>>
    <3>1. Len(i.rest) = 0
      BY <2>2
    <3> QED
      BY <2>2, <3>1 DEF Ahead
  <2> QED
    BY <2>1, <2>2, NextIs
<1>2. /\ Driver.list = "index" => On(i).at = i.at + 1
      /\ Driver.list # "index" => On(i).rest = Tail(i.rest)
  BY <1>1, OnIs
<1>3. CASE Driver.list = "index"
  <2>1. PICK n \in i.at + 1 .. Len(order) : order[n] = g
    BY <1>3 DEF Ahead
  <2>2. order[i.at + 1] = f
    BY <1>1, <1>3 DEF Comes
  <2>3. CASE n = i.at + 1
    BY <1>1, <2>1, <2>2, <2>3
  <2>4. CASE n # i.at + 1
    <3>1. n \in On(i).at + 1 .. Len(order)
      BY <1>0, <1>2, <1>3, <2>4
    <3>2. Ahead(On(i), g)
      BY <1>3, <2>1, <3>1 DEF Ahead
    <3> QED
      BY <1>1, <3>2
  <2> QED
    BY <2>3, <2>4
<1>4. CASE Driver.list # "index"
  <2>1. PICK n \in 1 .. Len(i.rest) : i.rest[n] = g
    BY <1>4 DEF Ahead
  <2>2. i.rest[1] = f /\ i.rest # <<>>
    BY <1>1, <1>4 DEF Comes
  <2>3. CASE n = 1
    BY <1>1, <2>1, <2>2, <2>3
  <2>4. CASE n # 1
    <3> DEFINE r == Tail(i.rest)
    <3>1. Len(r) = Len(i.rest) - 1 /\ \A m \in 1 .. Len(r) : r[m] = i.rest[m + 1]
      BY <1>0, <2>2, HeadTailProperties
    <3> HIDE DEF r
    <3>2. n - 1 \in 1 .. Len(r) /\ r[n - 1] = i.rest[n]
      BY <1>0, <2>4, <3>1
    <3>3. Ahead(On(i), g)
      BY <1>2, <1>4, <2>1, <3>2 DEF Ahead, r
    <3> QED
      BY <1>1, <3>3
  <2> QED
    BY <2>3, <2>4
<1> QED
  BY <1>3, <1>4

\* An await by which keys() comes to a value shows it, or leaves another that
\* comes to it.
LEMMA LeadsOn ==
  ASSUME Typed, NEW c \in Clients, job[c].op = "keys", NEW i, Fits(c, i), NEW k \in Keys, LeadsTo(i, k),
         store[File(k)] # NoRecord, store[Dir(k)] # NoRecord,
         Driver.list = "index" => {Dir(k), File(k)} \subseteq ToSet(order)
  PROVE  k \in Sees(i) \/ \E n \in 1 .. Len(After(c, i)) : LeadsTo(After(c, i)[n], k)
<1>1. i \in Instr /\ (i.do = "list" => i.at = 0)
  BY DEF Fits
<1>2. Dir(k) \in Children(Root) /\ File(k) \in Children(Dir(k))
  BY PathFacts DEF Children
<1>3. CASE i.do = "list"
  <2>1. After(c, i) = OpenList(i)
    BY <1>3, AfterIs
  <2>2. Len(OpenList(i)) = 1 /\ OpenList(i)[1].do = "next" /\ OpenList(i)[1].path = i.path
    BY <1>1, OpenListIs
  <2>3. CASE i.path = Root
    <3>1. Ahead(OpenList(i)[1], Dir(k))
      BY <1>1, <1>2, <1>3, <2>3, OpensAhead
    <3>2. LeadsTo(OpenList(i)[1], k)
      BY <2>2, <2>3, <3>1 DEF LeadsTo
    <3> QED
      BY <2>1, <2>2, <3>2
  <2>4. CASE i.path = Dir(k)
    <3>1. Ahead(OpenList(i)[1], File(k))
      BY <1>1, <1>2, <1>3, <2>4, OpensAhead
    <3>2. LeadsTo(OpenList(i)[1], k)
      BY <2>2, <2>4, <3>1 DEF LeadsTo
    <3> QED
      BY <2>1, <2>2, <3>2
  <2> QED
    BY <1>3, <2>3, <2>4 DEF LeadsTo
<1>4. ASSUME i.do = "next", NEW g \in {Dir(k), File(k)}, Ahead(i, g),
             i.path = Front(g), g = Dir(k) => i.path = Root, g = File(k) => i.path = Dir(k)
      PROVE  k \in Sees(i) \/ \E n \in 1 .. Len(After(c, i)) : LeadsTo(After(c, i)[n], k)
  <2>1. PICK f \in Paths : /\ Comes(i, f)
                           /\ NextEntry(c, i) = (IF Yields(i, f) THEN Use(c, f) ELSE <<>>) \o <<On(i)>>
                           /\ f = g \/ Ahead(On(i), g)
    BY <1>1, <1>4, ComesTo
  <2> DEFINE u == IF Yields(i, f) THEN Use(c, f) ELSE <<>>
             x == On(i)
  <2>2. u \in Seq(Instr) /\ (Yields(i, f) /\ Len(f) = 1 => u = <<I("list", f)>>)
    BY UseMade, EmptySeq DEF Made
  <2>3. x \in Instr /\ x.do = "next" /\ x.path = i.path
    BY <1>1, <1>4, <2>1, OnIs
  <2>4. After(c, i) = u \o <<x>>
    BY <1>4, <2>1, AfterIs
  <2> HIDE DEF u, x
  <2>5. /\ Len(u) \in Nat /\ Len(u \o <<x>>) = Len(u) + 1 /\ (u \o <<x>>)[Len(u) + 1] = x
        /\ \A n \in 1 .. Len(u) : (u \o <<x>>)[n] = u[n]
    BY <2>2, <2>3, AtTheEnd
  <2>6. CASE Ahead(x, g)
    <3>1. LeadsTo(x, k)
      BY <1>4, <2>3, <2>6 DEF LeadsTo
    <3>2. Len(u) + 1 \in 1 .. Len(u) + 1
      BY <2>5
    <3> QED
      BY <2>4, <2>5, <3>1, <3>2
  <2>7. CASE f = g
    <3>1. Yields(i, f)
      BY <1>4, <2>7 DEF Yields
    <3>2. CASE g = File(k)
      BY <1>1, <1>4, <2>1, <2>7, <3>1, <3>2, SeesIs
    <3>3. CASE g = Dir(k)
      <4>1. u = <<I("list", f)>> /\ f = Dir(k)
        BY <2>2, <2>7, <3>1, <3>3, PathFacts
      <4>2. Len(u) = 1 /\ u[1] = I("list", Dir(k))
        BY <4>1
      <4>3. LeadsTo(u[1], k)
        BY <4>2 DEF LeadsTo, I
      <4>4. 1 \in 1 .. Len(u) + 1 /\ 1 \in 1 .. Len(u)
        BY <4>2
      <4> QED
        BY <2>4, <2>5, <4>3, <4>4
    <3> QED
      BY <3>2, <3>3
  <2> QED
    BY <2>1, <2>6, <2>7 DEF x
<1> QED
  <2>1. CASE i.do = "next" /\ i.path = Root /\ Ahead(i, Dir(k))
    BY <1>4, <2>1, PathFacts, PathsApart
  <2>2. CASE i.do = "next" /\ i.path = Dir(k) /\ Ahead(i, File(k))
    BY <1>4, <2>2, PathFacts, PathsApart
  <2> QED
    BY <1>3, <2>1, <2>2 DEF LeadsTo

\* A listing only leads to directories that are there.
LEMMA OpensOn ==
  ASSUME Typed, NEW c \in Clients, job[c].op = "keys", NEW i, Fits(c, i), Opens(i)
  PROVE  \A n \in 1 .. Len(After(c, i)) : Opens(After(c, i)[n])
<1>1. i \in Instr /\ i.do \in {"list", "next"}
  BY DEF Fits, Deeds
<1>2. CASE i.do = "list"
  <2>1. After(c, i) = OpenList(i)
    BY <1>2, AfterIs
  <2>2. /\ Len(OpenList(i)) = 1 /\ OpenList(i)[1].do = "next"
        /\ OpenList(i)[1].rest = IF Driver.list = "index" THEN <<>> ELSE SetToSeq(Children(i.path))
    BY <1>1, OpenListIs
  <2> DEFINE r == OpenList(i)[1].rest
  <2>3. ASSUME NEW n \in 1 .. Len(r), r[n] \in Dirs
        PROVE  IsDir(r[n])
    <3>1. Driver.list # "index" /\ r = SetToSeq(Children(i.path))
      BY <2>2, <2>3
    <3>2. r[n] \in Children(i.path)
      BY <2>3, <3>1, ChildrenInSequence
    <3>3. r[n] \in Paths /\ store[r[n]] # NoRecord
      BY <3>2 DEF Children
    <3> QED
      BY <2>3, <3>3 DEF Typed, Record, IsDir
  <2> QED
    BY <2>1, <2>2, <2>3 DEF Opens
<1>3. CASE i.do = "next"
  <2>1. After(c, i) = NextEntry(c, i)
    BY <1>3, AfterIs
  <2>2. CASE NextEntry(c, i) = <<>>
    <3>1. Len(<<>>) = 0
      OBVIOUS
    <3> QED
      BY <2>1, <2>2, <3>1
  <2>3. CASE \E f \in Paths : /\ Comes(i, f)
                              /\ NextEntry(c, i) = (IF Yields(i, f) THEN Use(c, f) ELSE <<>>) \o <<On(i)>>
    <3>1. PICK f \in Paths : /\ Comes(i, f)
                             /\ NextEntry(c, i) = (IF Yields(i, f) THEN Use(c, f) ELSE <<>>) \o <<On(i)>>
      BY <2>3
    <3> DEFINE u == IF Yields(i, f) THEN Use(c, f) ELSE <<>>
               x == On(i)
    <3>2. u \in Seq(Instr) /\ (u = <<>> \/ (u = <<I("list", f)>> /\ Yields(i, f) /\ Len(f) = 1))
      BY UseMade, EmptySeq DEF Made
    <3>3. /\ x \in Instr /\ x.do = "next"
          /\ Driver.list = "index" => x.rest = i.rest
          /\ Driver.list # "index" => x.rest = Tail(i.rest)
      BY <1>1, <1>3, <3>1, OnIs
    <3>4. Opens(x)
      <4>0. \A n \in 1 .. Len(i.rest) : i.rest[n] \in Dirs => IsDir(i.rest[n])
        BY <1>3 DEF Opens
      <4>1. CASE Driver.list = "index"
        BY <3>3, <4>0, <4>1 DEF Opens
      <4>2. CASE Driver.list # "index"
        <5>1. i.rest \in Seq(Paths) /\ i.rest # <<>>
          BY <1>1, <3>1, <4>2 DEF Instr, Comes
        <5> DEFINE r == Tail(i.rest)
        <5>2. /\ Len(i.rest) \in Nat /\ Len(r) = Len(i.rest) - 1
              /\ \A m \in 1 .. Len(r) : r[m] = i.rest[m + 1]
          BY <5>1, HeadTailProperties, LenProperties
        <5> HIDE DEF r
        <5>3. \A m \in 1 .. Len(r) : m + 1 \in 1 .. Len(i.rest)
          BY <5>2
        <5>4. \A m \in 1 .. Len(r) : r[m] \in Dirs => IsDir(r[m])
          BY <4>0, <5>2, <5>3
        <5>5. x.rest = r
          BY <3>3, <4>2 DEF r
        <5> QED
          BY <3>3, <5>4, <5>5 DEF Opens
      <4> QED
        BY <4>1, <4>2
    <3>5. Yields(i, f) /\ Len(f) = 1 => IsDir(f)
      <4>1. SUFFICES ASSUME Yields(i, f), Len(f) = 1
                     PROVE  IsDir(f)
        OBVIOUS
      <4>2. f \in Dirs
        BY <4>1, PathKinds, PathFacts
      <4>3. CASE store[f] # NoRecord
        BY <4>2, <4>3 DEF Typed, Record, IsDir
      <4>4. CASE Driver.list = "records"
        BY <1>3, <3>1, <4>2, <4>4 DEF Opens, Comes
      <4> QED
        BY <4>1, <4>3, <4>4 DEF Yields
    <3>6. After(c, i) = u \o <<x>>
      BY <2>1, <3>1
    <3>7. \A n \in 1 .. Len(u) : Opens(u[n])
      <4>1. CASE u = <<>>
        <5>1. Len(u) = 0
          BY <4>1
        <5> QED
          BY <5>1
      <4>2. CASE u = <<I("list", f)>> /\ Yields(i, f) /\ Len(f) = 1
        <5>1. Opens(I("list", f))
          BY <3>5, <4>2 DEF Opens, I
        <5>2. Len(u) = 1 /\ u[1] = I("list", f)
          BY <4>2
        <5> HIDE DEF u
        <5> QED
          BY <5>1, <5>2
      <4> QED
        BY <3>2, <4>1, <4>2
    <3> HIDE DEF u, x
    <3>8. /\ Len(u) \in Nat /\ Len(u \o <<x>>) = Len(u) + 1 /\ (u \o <<x>>)[Len(u) + 1] = x
          /\ \A n \in 1 .. Len(u) : (u \o <<x>>)[n] = u[n]
      BY <3>2, <3>3, AtTheEnd
    <3>9. \A n \in 1 .. Len(u) + 1 : n \in 1 .. Len(u) \/ n = Len(u) + 1
      BY <3>8
    <3> QED
      BY <3>4, <3>6, <3>7, <3>8, <3>9
  <2> QED
    BY <1>1, <2>2, <2>3, NextIs
<1> QED
  BY <1>1, <1>2, <1>3

\* What may still be watched after a step is as it was.
LEMMA StillListed ==
  ASSUME Typed, Programs, NEW c \in Clients, Steps(c), NEW d \in Clients, job[d].op = "keys"
  PROVE  /\ client'[d].watch \subseteq client[d].watch
         /\ client'[d].watch # {} =>
              /\ \A k \in Keys : store[Dir(k)] # NoRecord => store'[Dir(k)] # NoRecord
              /\ Driver.list = "index" => order' = order
         /\ \A k \in client'[d].watch : store'[File(k)] # NoRecord
<1>1. client'[d].watch = StillWatched(c, d) /\ client'[d].watch \subseteq client[d].watch
  BY DEF Steps, Locks, Unlocks, GoesOn, Stops, Moved
<1> QED
  BY <1>1 DEF StillWatched

\* A directory that is there stays one, unless a directory goes.
LEMMA StaysOpen ==
  ASSUME Typed, Programs, NEW c \in Clients, Steps(c), NEW i \in Instr, Opens(i),
         \A k \in Keys : store[Dir(k)] # NoRecord => store'[Dir(k)] # NoRecord
  PROVE  Opens(i)'
<1>1. Typed'
  BY StepsTyped
<1>2. ASSUME NEW f \in Paths \cup {Root}, IsDir(f)
      PROVE  IsDir(f)'
  <2>1. CASE f = Root
    BY <2>1 DEF IsDir
  <2>2. CASE f # Root
    <3>1. f \in Paths /\ store[f] = Directory
      BY <1>2, <2>2 DEF IsDir
    <3>2. f \in Dirs
      BY <3>1, RecordsAssumption DEF Typed, Record
    <3>3. store'[f] # NoRecord
      BY <3>1, <3>2, RecordsAssumption, PathKinds
    <3>4. store'[f] \in {Directory, NoRecord}
      BY <1>1, <3>1, <3>2 DEF Typed, Record
    <3> QED
      BY <3>3, <3>4 DEF IsDir
  <2> QED
    BY <2>1, <2>2
<1>3. i.path \in Paths \cup {Root} /\ i.rest \in Seq(Paths)
  BY DEF Instr
<1>4. \A n \in 1 .. Len(i.rest) : i.rest[n] \in Paths
  BY <1>3, ElementOfSeq
<1> QED
  BY <1>2, <1>3, <1>4 DEF Opens

\* Program t is b with e in the place of its head.
Instead(b, e, t) ==
  /\ Len(e) \in Nat /\ Len(b) \in Nat \ {0} /\ Len(t) = Len(e) + Len(b) - 1
  /\ \A n \in 1 .. Len(e) : n \in 1 .. Len(t) /\ t[n] = e[n]
  /\ \A n \in 2 .. Len(b) : n + Len(e) - 1 \in 1 .. Len(t) /\ t[n + Len(e) - 1] = b[n]
  /\ \A n \in 1 .. Len(t) :
       \/ n \in 1 .. Len(e) /\ t[n] = e[n]
       \/ n - Len(e) + 1 \in 2 .. Len(b) /\ n > Len(e) /\ t[n] = b[n - Len(e) + 1]

\* The awaits that are left after one is done: what it left, and the others.
LEMMA LeftOver ==
  ASSUME Typed, NEW c \in Clients, Steps(c)
  PROVE  /\ Instead(client[c].todo, After(c, First(c)), After(c, First(c)) \o Tail(client[c].todo))
         /\ Instead(client[c].todo, <<>>, Tail(client[c].todo))
         /\ client[c].todo \in Seq(Instr) /\ 1 \in 1 .. Len(client[c].todo)
<1> DEFINE a == After(c, First(c))
           b == client[c].todo
<1>1. a \in Seq(Instr) /\ b \in Seq(Instr) /\ b # <<>> /\ <<>> \in Seq(Instr)
  BY AfterMade, EmptySeq DEF Steps, Made
<1> HIDE DEF a, b
<1>2. ASSUME NEW e \in Seq(Instr)
      PROVE  Instead(b, e, e \o Tail(b))
  <2> DEFINE t == e \o Tail(b)
  <2>1. /\ Len(e) \in Nat /\ Len(b) \in Nat \ {0} /\ Len(t) = Len(e) + Len(b) - 1
        /\ \A n \in 1 .. Len(e) : t[n] = e[n]
        /\ \A n \in 2 .. Len(b) : t[n + Len(e) - 1] = b[n]
        /\ \A n \in 1 .. Len(t) :
             n \in 1 .. Len(e) \/ (n - Len(e) + 1 \in 2 .. Len(b) /\ n > Len(e))
    BY <1>1, <1>2, InPlaceOfHead
  <2> HIDE DEF t
  <2>2. \A n \in 1 .. Len(t) :
          n - Len(e) + 1 \in 2 .. Len(b) => t[n] = b[n - Len(e) + 1]
    <3>1. SUFFICES ASSUME NEW n \in 1 .. Len(t), n - Len(e) + 1 \in 2 .. Len(b)
                   PROVE  t[n] = b[n - Len(e) + 1]
      OBVIOUS
    <3> DEFINE m == n - Len(e) + 1
    <3>2. m \in 2 .. Len(b) /\ m + Len(e) - 1 = n
      BY <2>1, <3>1
    <3> HIDE DEF m
    <3>3. t[n] = b[m]
      BY <2>1, <3>2
    <3> QED
      BY <3>3 DEF m
  <2>3. /\ \A n \in 1 .. Len(e) : n \in 1 .. Len(t)
        /\ \A n \in 2 .. Len(b) : n + Len(e) - 1 \in 1 .. Len(t)
    BY <2>1
  <2>4. Instead(b, e, t)
    BY <2>1, <2>2, <2>3 DEF Instead
  <2> QED
    BY <2>4 DEF t
<1>3. Instead(b, <<>>, <<>> \o Tail(b))
  BY <1>1, <1>2
<1>4. <<>> \o Tail(b) = Tail(b)
  BY <1>1, HeadTailProperties, ConcatEmptySeq
<1>5. Instead(b, a, a \o Tail(b))
  BY <1>1, <1>2
<1>6. 1 \in 1 .. Len(b)
  BY <1>1, EmptySeq, LenProperties
<1> QED
  BY <1>1, <1>3, <1>4, <1>5, <1>6 DEF a, b

\* Where the awaits of a program are that has something in the place of its head.
LEMMA InsteadIs ==
  ASSUME NEW b, NEW e, NEW t, Instead(b, e, t)
  PROVE  /\ \A n \in 1 .. Len(t) :
              (\E m \in 2 .. Len(b) : t[n] = b[m]) \/ (\E m \in 1 .. Len(e) : t[n] = e[m])
         /\ \A m \in 2 .. Len(b) : \E n \in 1 .. Len(t) : t[n] = b[m]
         /\ \A m \in 1 .. Len(e) : m \in 1 .. Len(t) /\ t[m] = e[m]
<1>1. ASSUME NEW n \in 1 .. Len(t)
      PROVE  (\E m \in 2 .. Len(b) : t[n] = b[m]) \/ (\E m \in 1 .. Len(e) : t[n] = e[m])
  <2>1. CASE n \in 1 .. Len(e) /\ t[n] = e[n]
    BY <2>1
  <2>2. CASE n - Len(e) + 1 \in 2 .. Len(b) /\ t[n] = b[n - Len(e) + 1]
    BY <2>2
  <2> QED
    BY <2>1, <2>2 DEF Instead
<1>2. ASSUME NEW m \in 2 .. Len(b)
      PROVE  \E n \in 1 .. Len(t) : t[n] = b[m]
  BY DEF Instead
<1> QED
  BY <1>1, <1>2 DEF Instead

\* A step keeps what a listing has ahead of it.
LEMMA ListingKept ==
  ASSUME Typed, Programs, Listing, ListIsComplete, NEW c \in Clients, Steps(c)
  PROVE  Listing' /\ ListIsComplete'
<1>1. \A i, k : (Driver.list = "index" => order' = order) /\ LeadsTo(i, k) => LeadsTo(i, k)'
  BY DEF Steps, Same, LeadsTo, Ahead, Driver
<1>2. Driver' = Driver /\ job' = job
  BY DEF Steps, Same, Driver
<1>3. ASSUME NEW d \in Clients, job[d].op = "keys"
      PROVE  /\ client'[d].watch \subseteq client[d].watch
             /\ client'[d].watch # {} =>
                  /\ \A k \in Keys : store[Dir(k)] # NoRecord => store'[Dir(k)] # NoRecord
                  /\ Driver.list = "index" => order' = order
             /\ \A k \in client'[d].watch : store'[File(k)] # NoRecord
             /\ client[d].watch \subseteq Keys
  BY <1>3, StillListed DEF Typed, Local
<1>4. ASSUME NEW d \in Clients, job[d].op = "keys", client'[d].watch # {}, d # c
      PROVE  /\ client'[d].outcome = "none" => \A n \in 1 .. Len(client'[d].todo) : \E j : j = client'[d].todo[n] /\ Opens(j)'
             /\ \A k \in client'[d].watch :
                  /\ client'[d].outcome = "none" => k \in client'[d].seen
                       \/ \E n \in 1 .. Len(client'[d].todo) : \E j : j = client'[d].todo[n] /\ LeadsTo(j, k)'
                  /\ client'[d].outcome = "done" => k \in client'[d].seen
  <2>1. /\ client'[d].todo = client[d].todo /\ client'[d].seen = client[d].seen
        /\ client'[d].outcome = client[d].outcome
    BY <1>4 DEF Steps, Locks, Unlocks, GoesOn, Stops, Moved
  <2>2. client[d].watch # {}
    BY <1>3, <1>4
  <2>3. client[d].todo \in Seq(Instr)
    BY DEF Typed, Local
  <2>4. client[d].outcome = "none" => \A n \in 1 .. Len(client[d].todo) : Opens(client[d].todo[n])
    BY <1>4, <2>2 DEF Listing, Running
  <2>5. ASSUME NEW n \in 1 .. Len(client[d].todo), client[d].outcome = "none"
        PROVE  \E j : j = client[d].todo[n] /\ Opens(j)'
    <3>1. client[d].todo[n] \in Instr /\ Opens(client[d].todo[n])
      BY <2>3, <2>4, <2>5, ElementOfSeq
    <3>2. PICK i \in Instr : i = client[d].todo[n]
      BY <3>1
    <3>3. Opens(i)'
      BY <1>3, <1>4, <3>1, <3>2, StaysOpen
    <3> QED
      BY <2>1, <3>2, <3>3
  <2>6. ASSUME NEW k \in client'[d].watch
        PROVE  /\ client[d].outcome = "none" => k \in client[d].seen
                    \/ \E n \in 1 .. Len(client[d].todo) : LeadsTo(client[d].todo[n], k)
               /\ client[d].outcome = "done" => k \in client[d].seen
    BY <1>3, <1>4, <2>6 DEF Listing, ListIsComplete, Done, Running, WillSee
  <2> QED
    BY <1>1, <1>3, <1>4, <2>1, <2>5, <2>6
<1> DEFINE i == First(c)
           b == client[c].todo
           t == client'[c].todo
<1>5. ASSUME job[c].op = "keys", client'[c].watch # {}
      PROVE  /\ client'[c].outcome = "none" => \A n \in 1 .. Len(t) : \E j : j = t[n] /\ Opens(j)'
             /\ \A k \in client'[c].watch :
                  /\ client'[c].outcome = "none" => k \in client'[c].seen
                       \/ \E n \in 1 .. Len(t) : \E j : j = t[n] /\ LeadsTo(j, k)'
                  /\ client'[c].outcome = "done" => k \in client'[c].seen
  <2>1. client[c].watch # {} /\ Running(c) /\ Fits(c, i) /\ i \in Instr /\ b \in Seq(Instr) /\ b # <<>>
    BY <1>3, <1>5 DEF Steps, Fits, Typed, Local
  <2>2. 1 \in 1 .. Len(b) /\ b[1] = i
    BY LeftOver DEF First
  <2>3. i.do \in {"list", "next"} /\ \A n \in 1 .. Len(b) : Opens(b[n])
    BY <1>5, <2>1 DEF Fits, Deeds, Listing
  <2>4. Opens(i)
    BY <2>2, <2>3
  <2>5. CASE Stops(c)
    <3>1. PICK outcome \in {"done", "failed", "crashed"} :
            Moved(c, <<>>, {}, {}, outcome) /\ (outcome = "done" => Refuses(i))
      BY <2>5 DEF Stops
    <3>2. client'[c].outcome = outcome
      BY <3>1 DEF Moved
    <3>3. ~Refuses(i)
      BY <2>3, <2>4 DEF Opens, Refuses
    <3> QED
      BY <3>1, <3>2, <3>3
  <2>6. CASE GoesOn(c)
    <3>1. /\ t = After(c, i) \o Tail(b) /\ client'[c].seen = client[c].seen \cup Sees(i)
          /\ client'[c].outcome = IF t = <<>> THEN "done" ELSE "none"
      BY <2>6 DEF GoesOn, Moved, Ends
    <3>2. store' = store /\ order' = order
      BY <2>3, <2>6 DEF GoesOn, Storage, Keep
    <3>3. /\ \A n \in 1 .. Len(t) :
              \/ \E m \in 2 .. Len(b) : t[n] = b[m]
              \/ \E m \in 1 .. Len(After(c, i)) : t[n] = After(c, i)[m]
          /\ \A m \in 2 .. Len(b) : \E n \in 1 .. Len(t) : t[n] = b[m]
          /\ \A m \in 1 .. Len(After(c, i)) : m \in 1 .. Len(t) /\ t[m] = After(c, i)[m]
      <4> DEFINE e == After(c, i)
      <4>1. Instead(b, e, t)
        BY <3>1, LeftOver
      <4> HIDE DEF b, e, t
      <4>2. /\ \A n \in 1 .. Len(t) :
                 (\E m \in 2 .. Len(b) : t[n] = b[m]) \/ (\E m \in 1 .. Len(e) : t[n] = e[m])
            /\ \A m \in 2 .. Len(b) : \E n \in 1 .. Len(t) : t[n] = b[m]
            /\ \A m \in 1 .. Len(e) : m \in 1 .. Len(t) /\ t[m] = e[m]
        BY <4>1, InsteadIs
      <4> QED
        BY <4>2 DEF e
    <3>4. \A j : Opens(j) => Opens(j)'
      BY <3>2 DEF Opens, IsDir
    <3>5. \A m \in 1 .. Len(After(c, i)) : Opens(After(c, i)[m])
      BY <1>5, <2>1, <2>4, OpensOn
    <3> HIDE DEF b, t, i
    <3>6. \A m \in 2 .. Len(b) : m \in 1 .. Len(b)
      OBVIOUS
    <3>7. \A n \in 1 .. Len(t) : \E j : j = t[n] /\ Opens(j)'
      BY <2>3, <3>3, <3>4, <3>5, <3>6
    <3>8. ASSUME NEW k \in client'[c].watch
          PROVE  k \in client'[c].seen \/ \E n \in 1 .. Len(t) : \E j : j = t[n] /\ LeadsTo(j, k)'
      <4>1. /\ k \in Keys /\ k \in client[c].watch
            /\ store[File(k)] # NoRecord /\ store[Dir(k)] # NoRecord
            /\ Driver.list = "index" => {Dir(k), File(k)} \subseteq ToSet(order)
            /\ k \in client[c].seen \/ \E n \in 1 .. Len(b) : LeadsTo(b[n], k)
        BY <1>3, <1>5, <2>1 DEF Listing, WillSee, b
      <4>2. CASE k \in client[c].seen
        BY <3>1, <4>2
      <4>3. ASSUME NEW n \in 1 .. Len(b), LeadsTo(b[n], k), n # 1
            PROVE  \E m \in 1 .. Len(t) : \E j : j = t[m] /\ LeadsTo(j, k)'
        <5>1. n \in 2 .. Len(b)
          BY <4>3
        <5> QED
          BY <1>1, <3>2, <3>3, <4>3, <5>1
      <4>4. CASE LeadsTo(b[1], k)
        <5>1. LeadsTo(i, k)
          BY <2>2, <4>4
        <5>2. k \in Sees(i) \/ \E m \in 1 .. Len(After(c, i)) : LeadsTo(After(c, i)[m], k)
          BY <1>5, <2>1, <4>1, <5>1, LeadsOn
        <5> QED
          BY <1>1, <3>1, <3>2, <3>3, <5>2
      <4> QED
        BY <4>1, <4>2, <4>3, <4>4
    <3>9. t = <<>> => ~\E n \in 1 .. Len(t) : TRUE
      OBVIOUS
    <3> QED
      BY <3>1, <3>7, <3>8, <3>9
  <2> QED
    BY <2>3, <2>5, <2>6 DEF Steps, Locks, Unlocks
<1> HIDE DEF i, b, t
<1>6. ASSUME NEW d \in Clients, job[d].op = "keys", NEW k \in client'[d].watch
      PROVE  /\ store'[Dir(k)] # NoRecord
             /\ Driver.list = "index" => {Dir(k), File(k)} \subseteq ToSet(order')
  BY <1>3, <1>6 DEF Listing
<1>7. ASSUME NEW d \in Clients, job[d].op = "keys"
      PROVE  /\ client'[d].outcome = "none" => client'[d].watch = {}
                  \/ \A n \in 1 .. Len(client'[d].todo) : \E j : j = client'[d].todo[n] /\ Opens(j)'
             /\ \A k \in client'[d].watch :
                  /\ client'[d].outcome = "none" => k \in client'[d].seen
                       \/ \E n \in 1 .. Len(client'[d].todo) : \E j : j = client'[d].todo[n] /\ LeadsTo(j, k)'
                  /\ client'[d].outcome = "done" => k \in client'[d].seen
  BY <1>4, <1>5, <1>7 DEF t
<1>8. Listing'
  BY <1>2, <1>3, <1>6, <1>7 DEF Listing, Running, WillSee
<1>9. ListIsComplete'
  BY <1>2, <1>7 DEF ListIsComplete, Done
<1> QED
  BY <1>8, <1>9

\* Nothing is listed yet, and everything is ahead.
LEMMA InitListing == Init => Listing /\ ListIsComplete
<1> SUFFICES ASSUME Init
             PROVE  Listing /\ ListIsComplete
  OBVIOUS
<1>1. Typed /\ Programs /\ IsTree(store)
  BY InitTyped, RecordsAssumption DEF Init
<1>2. \A c \in Clients : /\ client[c].outcome = "none" /\ client[c].todo = Program(job[c])
                         /\ client[c].watch = {k \in Keys : store[File(k)] # NoRecord}
  BY DEF Init
<1>3. ASSUME NEW k \in Keys, store[File(k)] # NoRecord
      PROVE  /\ store[Dir(k)] # NoRecord
             /\ Driver.list = "index" => {Dir(k), File(k)} \subseteq ToSet(order)
  <2>1. store[Dir(k)] # NoRecord
    BY <1>1, <1>3, RecordsAssumption DEF IsTree
  <2> DEFINE S == {f \in Paths : store[f] # NoRecord}
  <2>2. {Dir(k), File(k)} \subseteq S
    BY <1>3, <2>1, PathFacts
  <2>3. IsFiniteSet(S) /\ order \in Orders(S)
    BY PathsFinite, FS_Subset DEF Init
  <2> HIDE DEF S
  <2>4. Driver.list = "index" => \A f \in S : \E n \in 1 .. Len(order) : order[n] = f
    <3>1. SUFFICES ASSUME Driver.list = "index"
                   PROVE  \A f \in S : \E n \in 1 .. Len(order) : order[n] = f
      OBVIOUS
    <3>2. order \in [1 .. Cardinality(S) -> S] /\ IsInjective(order)
      BY <2>3, <3>1 DEF Orders, SetToSeqs, IsInjective
    <3> QED
      BY <2>3, <3>2, EveryElementHasAPlace
  <2>5. DOMAIN order = 1 .. Len(order)
    BY <1>1 DEF Typed
  <2> QED
    BY <2>1, <2>2, <2>4, <2>5 DEF ToSet
<1>4. ASSUME NEW c \in Clients, job[c].op = "keys"
      PROVE  /\ \A n \in 1 .. Len(client[c].todo) : Opens(client[c].todo[n])
             /\ \A k \in Keys : WillSee(c, k)
  <2>1. client[c].todo = <<I("list", Root)>>
    BY <1>2, <1>4 DEF Program, KeysProgram
  <2>2. Opens(I("list", Root)) /\ \A k : LeadsTo(I("list", Root), k)
    BY DEF Opens, LeadsTo, IsDir, I
  <2>3. Len(client[c].todo) = 1 /\ client[c].todo[1] = I("list", Root)
    BY <2>1
  <2> QED
    BY <2>2, <2>3 DEF WillSee
<1>5. Listing
  BY <1>2, <1>3, <1>4 DEF Listing
<1> QED
  BY <1>2, <1>5 DEF ListIsComplete, Done

\* What a listing still has to show does not change while nothing does.
LEMMA StutterListing == Listing /\ ListIsComplete /\ UNCHANGED vars => Listing' /\ ListIsComplete'
<1> SUFFICES ASSUME Listing, ListIsComplete, UNCHANGED vars
             PROVE  Listing' /\ ListIsComplete'
  OBVIOUS
<1>1. /\ Driver' = Driver /\ job' = job /\ store' = store /\ order' = order /\ client' = client
  BY DEF vars, Driver
<1>2. ASSUME NEW i
      PROVE  /\ Opens(i) <=> Opens(i)'
             /\ \A k : LeadsTo(i, k) <=> LeadsTo(i, k)'
  BY <1>1 DEF Opens, IsDir, LeadsTo, Ahead
<1>3. \A c, k : WillSee(c, k) <=> WillSee(c, k)'
  BY <1>1, <1>2 DEF WillSee
<1>4. \A c : (\A n \in 1 .. Len(client[c].todo) : Opens(client[c].todo[n])) =>
               (\A n \in 1 .. Len(client'[c].todo) : Opens(client[c].todo[n])')
  BY <1>1, <1>2
<1>5. Listing'
  BY <1>1, <1>3, <1>4 DEF Listing, Running
<1> QED
  BY <1>1, <1>5 DEF ListIsComplete, Done

\* keys() returns every key that was there from its first step to its last,
\* while others set, append and remove values: the await that comes to a key
\* leaves another that does, until the key is shown.
THEOREM ListingIsComplete == Spec => []ListIsComplete
<1>1. Init => Listing /\ ListIsComplete
  BY InitListing
<1>2. Typed /\ Programs /\ Listing /\ ListIsComplete /\ [Next]_vars => (Listing /\ ListIsComplete)'
  BY NextSteps, ListingKept, StutterListing
<1> QED
  BY <1>1, <1>2, TypeCorrect, PTL DEF Spec

----------------------------------------------------------------------------
(* Removals.                                                               *)

\* A directory that is collected: every entry is removed, the directory last.
LEMMA CollectIs ==
  ASSUME Typed, NEW c \in Clients, NEW i, Fits(c, i), i.do = "collect"
  PROVE  /\ Collect(i) \in Seq(Instr) /\ Len(Collect(i)) \in Nat \ {0}
         /\ \A n \in 1 .. Len(Collect(i)) - 1 : Collect(i)[n].do = "remove"
         /\ Collect(i)[Len(Collect(i))] = I(Driver.delete, i.path)
         /\ \A g \in Children(i.path) :
              \E n \in 1 .. Len(Collect(i)) - 1 : Collect(i)[n] = I("remove", g)
<1> DEFINE q == SetToSeq(Children(i.path))
           r == [n \in DOMAIN q |-> I("remove", q[n])]
           x == I(Driver.delete, i.path)
<1>1. i.path \in Paths /\ job[c].op \in Removals
  BY JobTyped DEF Fits, Deeds, Ops, Removals
<1>2. q \in Seq(Paths) /\ Len(q) \in Nat /\ DOMAIN q = 1 .. Len(q)
      /\ \A g \in Children(i.path) : \E n \in 1 .. Len(q) : q[n] = g
  BY ChildrenInSequence
<1>3. Delete(i.path) = <<x>> /\ x \in Instr
  BY <1>1, DeleteMade DEF Fits
<1>4. r \in Seq(Instr) /\ Len(r) = Len(q) /\ \A n \in 1 .. Len(q) : r[n] = I("remove", q[n])
  <2> HIDE DEF q
  <2>1. \A n \in 1 .. Len(q) : I("remove", q[n]) \in Instr
    BY <1>2, ElementOfSeq, InstrFields DEF Dos
  <2> QED
    BY <1>2, <2>1
<1>5. Collect(i) = r \o <<x>>
  BY <1>3 DEF Collect
<1> HIDE DEF q, r, x
<1>6. /\ Len(r \o <<x>>) = Len(r) + 1 /\ (r \o <<x>>)[Len(r) + 1] = x
      /\ \A n \in 1 .. Len(r) : (r \o <<x>>)[n] = r[n]
  BY <1>3, <1>4, AtTheEnd
<1>7. r \o <<x>> \in Seq(Instr)
  BY <1>3, <1>4, ConcatProperties
<1>8. \A f : I("remove", f).do = "remove"
  BY DEF I
<1>9. \A g \in Children(i.path) : \E n \in 1 .. Len(r) : r[n] = I("remove", g)
  BY <1>2, <1>4
<1>10. Len(r) \in Nat /\ Len(r) + 1 - 1 = Len(r)
  BY <1>2, <1>4
<1> QED
  BY <1>4, <1>5, <1>6, <1>7, <1>8, <1>9, <1>10 DEF x

\* What an await that removes the value of k leaves, if there is one.
LEMMA TakesOn ==
  ASSUME Typed, NEW c \in Clients, NEW i, Fits(c, i), NEW k \in Keys, Takes(i, k), i.do # "delete",
         store[File(k)] # NoRecord
  PROVE  Len(After(c, i)) = 1 /\ Takes(After(c, i)[1], k)
<1>1. File(k) \in Paths /\ File(k) \notin Dirs /\ File(k) # Root
  BY PathFacts, PathKinds
<1>2. store[File(k)] \in Seq(Byte)
  BY <1>1 DEF Typed, Record
<1>3. IsFile(File(k))
  BY <1>1, <1>2, RecordsAssumption DEF IsFile
<1>4. job[c].op \in Removals
  BY JobTyped DEF Takes, Fits, Deeds, Ops, Removals
<1>5. CASE i.do = "remove"
  <2>1. After(c, i) = Delete(File(k))
    BY <1>3, <1>5, AfterIs DEF RemoveUnlocked, Takes
  <2>2. Delete(File(k)) = <<I(Driver.delete, File(k))>> /\ Driver.delete \in {"find", "delete"}
    BY <1>1, <1>4, DeleteMade
  <2>3. Takes(I(Driver.delete, File(k)), k)
    BY <2>2 DEF Takes, I
  <2> QED
    BY <2>1, <2>2, <2>3
<1>6. CASE i.do = "find"
  <2>1. After(c, i) = <<I("delete", File(k))>>
    BY <1>6, AfterIs DEF Takes
  <2>2. Takes(I("delete", File(k)), k)
    BY DEF Takes, I
  <2> QED
    BY <2>1, <2>2
<1> QED
  BY <1>5, <1>6 DEF Takes

\* An await by which a removal comes to a value leaves another that does, until
\* the value is gone.
LEMMA EndsOn ==
  ASSUME Typed, NEW c \in Clients, job[c].op \in {"emptyDir", "clear"}, NEW i, Fits(c, i),
         NEW k \in Keys, EndsIn(i, k), ~(Takes(i, k) /\ i.do = "delete"), Driver.list # "index",
         store[File(k)] # NoRecord, store[Dir(k)] # NoRecord
  PROVE  \E n \in 1 .. Len(After(c, i)) : EndsIn(After(c, i)[n], k)
<1>1. i \in Instr /\ (i.do = "list" => i.at = 0)
  BY DEF Fits
<1>2. Dir(k) \in Children(Root) /\ File(k) \in Children(Dir(k)) /\ Dir(k) \in Paths /\ Dir(k) \in Dirs
      /\ Dir(k) # Root
  BY PathFacts DEF Children
<1>3. store[Dir(k)] = Directory
  BY <1>2 DEF Typed, Record
<1>4. CASE i.do = "list" /\ i.path = Root
  <2>1. After(c, i) = OpenList(i)
    BY <1>4, AfterIs
  <2>2. Len(OpenList(i)) = 1 /\ OpenList(i)[1].do = "next" /\ OpenList(i)[1].path = i.path
    BY <1>1, OpenListIs
  <2>3. Ahead(OpenList(i)[1], Dir(k))
    BY <1>1, <1>2, <1>4, OpensAhead
  <2>4. EndsIn(OpenList(i)[1], k)
    BY <1>4, <2>2, <2>3 DEF EndsIn
  <2> QED
    BY <2>1, <2>2, <2>4
<1>5. CASE i.do = "next" /\ i.path = Root /\ Ahead(i, Dir(k))
  <2>1. PICK f \in Paths : /\ Comes(i, f)
                           /\ NextEntry(c, i) = (IF Yields(i, f) THEN Use(c, f) ELSE <<>>) \o <<On(i)>>
                           /\ f = Dir(k) \/ Ahead(On(i), Dir(k))
    BY <1>1, <1>5, ComesTo
  <2> DEFINE u == IF Yields(i, f) THEN Use(c, f) ELSE <<>>
             x == On(i)
  <2>2. u \in Seq(Instr)
    BY UseMade, EmptySeq DEF Made
  <2>3. x \in Instr /\ x.do = "next" /\ x.path = i.path
    BY <1>1, <1>5, <2>1, OnIs
  <2>4. After(c, i) = u \o <<x>>
    BY <1>5, <2>1, AfterIs
  <2>5. f = Dir(k) => \E n \in 1 .. Len(u) : u[n] = I("remove", f)
    <3>1. SUFFICES ASSUME f = Dir(k)
                   PROVE  \E n \in 1 .. Len(u) : u[n] = I("remove", f)
      OBVIOUS
    <3>2. Yields(i, f)
      BY <1>2, <1>5, <3>1 DEF Yields, Children
    <3>3. CASE job[c].op = "emptyDir"
      <4>1. u = <<I("remove", f)>>
        BY <3>2, <3>3, UseMade
      <4> QED
        BY <4>1
    <3>4. CASE job[c].op = "clear"
      <4> DEFINE s1 == I("lock", Root)
                 s2 == I("remove", f)
                 s3 == I("unlock", Root)
      <4>1. u = <<s1, s2, s3>>
        BY <3>2, <3>4, UseMade DEF RemoveProgram
      <4> HIDE DEF u, s1, s2, s3
      <4>2. Len(u) = 3 /\ u[2] = s2 /\ 2 \in 1 .. 3
        BY <4>1
      <4> QED
        BY <4>2 DEF s2
    <3> QED
      BY <3>3, <3>4
  <2> HIDE DEF u, x
  <2>6. /\ Len(u) \in Nat /\ Len(u \o <<x>>) = Len(u) + 1 /\ (u \o <<x>>)[Len(u) + 1] = x
        /\ \A n \in 1 .. Len(u) : (u \o <<x>>)[n] = u[n]
    BY <2>2, <2>3, AtTheEnd
  <2>7. Len(u) + 1 \in 1 .. Len(u) + 1 /\ \A n \in 1 .. Len(u) : n \in 1 .. Len(u) + 1
    BY <2>6
  <2>8. CASE Ahead(x, Dir(k))
    <3>1. EndsIn(x, k)
      BY <1>5, <2>3, <2>8 DEF EndsIn
    <3> QED
      BY <2>4, <2>6, <2>7, <3>1
  <2>9. CASE f = Dir(k)
    <3>1. EndsIn(I("remove", f), k)
      BY <2>9 DEF EndsIn, I
    <3> QED
      BY <2>4, <2>5, <2>6, <2>7, <2>9, <3>1
  <2> QED
    BY <2>1, <2>8, <2>9 DEF x
<1>6. CASE i.do = "remove" /\ i.path = Dir(k)
  <2> DEFINE j == [i EXCEPT !.do = "collect"]
  <2>1. j.do = "collect" /\ j.path = i.path
    BY <1>1, Renamed DEF Dos
  <2>2. ~IsFile(i.path) /\ store[i.path] # NoRecord
    BY <1>3, <1>6, RecordsAssumption DEF IsFile
  <2>3. After(c, i) = <<j>>
    BY <1>6, <2>2, AfterIs DEF RemoveUnlocked
  <2> HIDE DEF j
  <2>4. EndsIn(j, k)
    BY <1>6, <2>1 DEF EndsIn
  <2>5. Len(<<j>>) = 1 /\ <<j>>[1] = j
    OBVIOUS
  <2> QED
    BY <2>3, <2>4, <2>5
<1>7. CASE i.do = "collect" /\ i.path = Dir(k)
  <2>1. After(c, i) = Collect(i)
    BY <1>7, AfterIs
  <2>2. PICK n \in 1 .. Len(Collect(i)) - 1 : Collect(i)[n] = I("remove", File(k))
    BY <1>2, <1>7, CollectIs
  <2>3. n \in 1 .. Len(Collect(i))
    BY <1>7, <2>2, CollectIs
  <2>4. EndsIn(I("remove", File(k)), k)
    BY DEF EndsIn, Takes, I
  <2> QED
    BY <2>1, <2>2, <2>3, <2>4
<1>8. CASE Takes(i, k)
  <2>1. Len(After(c, i)) = 1 /\ Takes(After(c, i)[1], k)
    BY <1>8, TakesOn
  <2>2. EndsIn(After(c, i)[1], k)
    BY <2>1 DEF EndsIn
  <2> QED
    BY <2>1, <2>2
<1> QED
  BY <1>4, <1>5, <1>6, <1>7, <1>8 DEF EndsIn

\* No await leaves one that touches the directory of k before its value.
LEMMA CarefulOn ==
  ASSUME Typed, NEW c \in Clients, NEW i, Fits(c, i), NEW k \in Keys,
         ~(i.do \in {"createDir", "deleteRow", "find", "delete"} /\ i.path = Dir(k)),
         store[File(k)] # NoRecord, store[Dir(k)] # NoRecord
  PROVE  \A n \in 1 .. Len(After(c, i)) : Careful(After(c, i), n, k)
<1>1. i \in Instr /\ Dir(k) \in Dirs /\ Dir(k) \in Paths /\ Dir(k) # Root
      /\ File(k) \in Children(Dir(k)) /\ job[c].op \in Ops /\ i.do \in Dos
  BY PathFacts, JobTyped DEF Children, Fits, Instr
<1>2. store[Dir(k)] = Directory
  BY <1>1 DEF Typed, Record
<1>3. ASSUME \A n \in 1 .. Len(After(c, i)) :
               \/ After(c, i)[n].do \notin {"createDir", "deleteRow", "find", "delete"}
               \/ After(c, i)[n].path # Dir(k)
      PROVE  \A n \in 1 .. Len(After(c, i)) : Careful(After(c, i), n, k)
  BY <1>3 DEF Careful
<1>4. ASSUME NEW x, After(c, i) = <<x>>,
             x.do \notin {"createDir", "deleteRow", "find", "delete"} \/ x.path # Dir(k)
      PROVE  \A n \in 1 .. Len(After(c, i)) : Careful(After(c, i), n, k)
  <2>1. Len(After(c, i)) = 1 /\ After(c, i)[1] = x /\ \A n \in 1 .. 1 : n = 1
    BY <1>4
  <2> QED
    BY <1>3, <1>4, <2>1
<1>5. ASSUME After(c, i) = <<>>
      PROVE  \A n \in 1 .. Len(After(c, i)) : Careful(After(c, i), n, k)
  <2>1. Len(After(c, i)) = 0
    BY <1>5
  <2> QED
    BY <2>1
<1>6. ASSUME NEW j \in Instr, After(c, i) = Set(j), j.path # Dir(k)
      PROVE  \A n \in 1 .. Len(After(c, i)) : Careful(After(c, i), n, k)
  <2> DEFINE put == [j EXCEPT !.do = "put"]
             del == [j EXCEPT !.do = "deleteRow"]
             ins == [j EXCEPT !.do = "insert"]
  <2>1. put.path = j.path /\ del.path = j.path /\ ins.path = j.path
    BY Renamed DEF Dos
  <2>2. Set(j) = <<put>> \/ Set(j) = <<del, ins>>
    BY SetIs DEF Typed
  <2> HIDE DEF put, del, ins
  <2>3. CASE Set(j) = <<put>>
    BY <1>4, <1>6, <2>1, <2>3
  <2>4. CASE Set(j) = <<del, ins>>
    <3>1. /\ Len(After(c, i)) = 2 /\ After(c, i)[1] = del /\ After(c, i)[2] = ins
          /\ \A n \in 1 .. 2 : n = 1 \/ n = 2
      BY <1>6, <2>4
    <3> QED
      BY <1>3, <1>6, <2>1, <3>1
  <2> QED
    BY <2>2, <2>3, <2>4
<1>7. CASE i.do = "ensure"
  <2>1. CASE i.path = Dir(k)
    BY <1>5, <1>7, <2>1, AfterIs
  <2>2. CASE i.path # Dir(k)
    <3> DEFINE j == [i EXCEPT !.do = "createDir"]
    <3>1. j.path = i.path
      BY <1>1, Renamed DEF Dos
    <3>2. After(c, i) = <<j>> \/ After(c, i) = <<>>
      BY <1>7, AfterIs
    <3> HIDE DEF j
    <3> QED
      BY <1>4, <1>5, <2>2, <3>1, <3>2
  <2> QED
    BY <2>1, <2>2
<1>8. CASE i.do = "createDir"
  <2> DEFINE j == [i EXCEPT !.data = Directory]
  <2>1. j \in Instr /\ j.path = i.path
    BY <1>1 DEF Instr
  <2>2. After(c, i) = Set(j) \/ After(c, i) = <<>>
    BY <1>8, AfterIs DEF CreateDir
  <2> HIDE DEF j
  <2> QED
    BY <1>5, <1>6, <1>8, <2>1, <2>2
<1>9. CASE i.do = "write"
  <2>1. i.path \in Files /\ i.path # Dir(k)
    BY <1>1, <1>9, PathKinds DEF Fits
  <2> DEFINE w == Written(c, i.path)
             j == [i EXCEPT !.data = w]
             t == [i EXCEPT !.do = "transact"]
  <2>2. w \in Seq(Byte) /\ t.path = i.path
    BY <1>1, <2>1, WrittenTyped, Renamed DEF Dos
  <2>3. After(c, i) = <<t>> \/ After(c, i) = Set(j)
    BY <1>9, AfterIs DEF WriteFile
  <2> HIDE DEF w, t
  <2>4. j \in Instr /\ j.path = i.path
    BY <1>1, <2>2 DEF Instr
  <2> HIDE DEF j
  <2> QED
    BY <1>4, <1>6, <2>1, <2>2, <2>3, <2>4
<1>10. CASE i.do = "remove"
  <2> DEFINE j == [i EXCEPT !.do = "collect"]
  <2>1. j.do = "collect"
    BY <1>1, Renamed DEF Dos
  <2>2. \/ After(c, i) = <<>> \/ After(c, i) = <<j>>
        \/ IsFile(i.path) /\ After(c, i) = Delete(i.path)
    BY <1>10, AfterIs DEF RemoveUnlocked
  <2> HIDE DEF j
  <2>3. CASE IsFile(i.path) /\ After(c, i) = Delete(i.path)
    <3>1. i.path # Dir(k)
      BY <1>2, <2>3 DEF IsFile
    <3>2. Delete(i.path) = <<I(Driver.delete, i.path)>> /\ I(Driver.delete, i.path).path = i.path
      BY DEF Delete, I
    <3> QED
      BY <1>4, <2>3, <3>1, <3>2
  <2> QED
    BY <1>4, <1>5, <2>1, <2>2, <2>3
<1>11. CASE i.do = "collect"
  <2>1. After(c, i) = Collect(i)
    BY <1>11, AfterIs
  <2> DEFINE t == Collect(i)
  <2>2. /\ Len(t) \in Nat \ {0}
        /\ \A n \in 1 .. Len(t) - 1 : t[n].do = "remove"
        /\ t[Len(t)] = I(Driver.delete, i.path)
        /\ \A g \in Children(i.path) : \E n \in 1 .. Len(t) - 1 : t[n] = I("remove", g)
    BY <1>11, CollectIs
  <2> HIDE DEF t
  <2>3. I(Driver.delete, i.path).path = i.path /\ I(Driver.delete, i.path).do = Driver.delete
        /\ Driver.delete \in {"find", "delete"}
    BY DriverFacts DEF I, Typed
  <2>4. Takes(I("remove", File(k)), k)
    BY DEF Takes, I
  <2>5. i.path = Dir(k) => \E m \in 1 .. Len(t) - 1 : Takes(t[m], k)
    BY <1>1, <2>2, <2>4
  <2>6. \A n \in 1 .. Len(t) : n \in 1 .. Len(t) - 1 \/ n = Len(t)
    BY <2>2
  <2>7. \A n \in 1 .. Len(t) : Careful(t, n, k)
    BY <2>2, <2>3, <2>5, <2>6 DEF Careful
  <2> QED
    BY <2>1, <2>7 DEF t
<1>12. CASE i.do = "find"
  <2>1. After(c, i) = <<>> \/ After(c, i) = <<I("delete", i.path)>>
    BY <1>12, AfterIs
  <2>2. I("delete", i.path).path = i.path
    BY DEF I
  <2> QED
    BY <1>4, <1>5, <1>12, <2>1, <2>2
<1>13. CASE i.do = "list"
  <2>1. After(c, i) = OpenList(i)
    BY <1>13, AfterIs
  <2>2. OpenList(i) = <<OpenList(i)[1]>> /\ OpenList(i)[1].do = "next"
    BY <1>1, OpenListIs
  <2> QED
    BY <1>4, <2>1, <2>2
<1>14. CASE i.do = "next"
  <2>1. After(c, i) = NextEntry(c, i) /\ job[c].op \in {"keys", "emptyDir", "clear"}
    BY <1>1, <1>14, AfterIs DEF Fits, Deeds, Ops
  <2>2. CASE \E f \in Paths : /\ Comes(i, f)
                              /\ NextEntry(c, i) = (IF Yields(i, f) THEN Use(c, f) ELSE <<>>) \o <<On(i)>>
    <3>1. PICK f \in Paths : /\ Comes(i, f)
                             /\ NextEntry(c, i) = (IF Yields(i, f) THEN Use(c, f) ELSE <<>>) \o <<On(i)>>
      BY <2>2
    <3> DEFINE u == IF Yields(i, f) THEN Use(c, f) ELSE <<>>
               x == On(i)
    <3>2. u \in Seq(Instr) /\ x \in Instr /\ x.do = "next"
      BY <1>1, <1>14, <2>1, <3>1, UseMade, EmptySeq, OnIs DEF Made
    <3>3. \A n \in 1 .. Len(u) : u[n].do \in {"list", "remove", "lock", "unlock"}
      <4> DEFINE s1 == I("lock", Root)
                 s2 == I("remove", f)
                 s3 == I("unlock", Root)
                 s4 == I("list", f)
      <4>1. s1.do = "lock" /\ s2.do = "remove" /\ s3.do = "unlock" /\ s4.do = "list"
        BY DEF I
      <4>2. u \in {<<>>, <<s4>>, <<s2>>, <<s1, s2, s3>>}
        BY <2>1, UseMade DEF RemoveProgram
      <4> HIDE DEF u, s1, s2, s3, s4
      <4>3. CASE u = <<>>
        <5>1. Len(u) = 0
          BY <4>3
        <5> QED
          BY <5>1
      <4>4. CASE u = <<s4>>
        <5>1. Len(u) = 1 /\ u[1] = s4 /\ \A n \in 1 .. 1 : n = 1
          BY <4>4
        <5> QED
          BY <4>1, <5>1
      <4>5. CASE u = <<s2>>
        <5>1. Len(u) = 1 /\ u[1] = s2 /\ \A n \in 1 .. 1 : n = 1
          BY <4>5
        <5> QED
          BY <4>1, <5>1
      <4>6. CASE u = <<s1, s2, s3>>
        <5>1. /\ Len(u) = 3 /\ u[1] = s1 /\ u[2] = s2 /\ u[3] = s3
              /\ \A n \in 1 .. 3 : n = 1 \/ n = 2 \/ n = 3
          BY <4>6
        <5> QED
          BY <4>1, <5>1
      <4> QED
        BY <4>2, <4>3, <4>4, <4>5, <4>6
    <3>4. After(c, i) = u \o <<x>>
      BY <2>1, <3>1
    <3> HIDE DEF u, x
    <3>5. /\ Len(u) \in Nat /\ Len(u \o <<x>>) = Len(u) + 1 /\ (u \o <<x>>)[Len(u) + 1] = x
          /\ \A n \in 1 .. Len(u) : (u \o <<x>>)[n] = u[n]
      BY <3>2, AtTheEnd
    <3>6. \A n \in 1 .. Len(u) + 1 : n \in 1 .. Len(u) \/ n = Len(u) + 1
      BY <3>5
    <3>7. \A n \in 1 .. Len(After(c, i)) :
            After(c, i)[n].do \notin {"createDir", "deleteRow", "find", "delete"}
      BY <3>2, <3>3, <3>4, <3>5, <3>6
    <3> QED
      BY <1>3, <3>7
  <2> QED
    BY <1>1, <1>5, <2>1, <2>2, NextIs
<1>15. CASE i.do \in {"lock", "unlock", "parent", "transact", "put", "insert", "deleteRow", "delete",
                      "read"}
  BY <1>5, <1>15, AfterIs
<1> QED
  BY <1>1, <1>7, <1>8, <1>9, <1>10, <1>11, <1>12, <1>13, <1>14, <1>15 DEF Dos

\* A program that is careful of k stays so behind what its first await leaves.
LEMMA StaysCareful ==
  ASSUME NEW b, NEW e, NEW t, NEW k, Instead(b, e, t), 1 \in 1 .. Len(b),
         \A n \in 1 .. Len(b) : Careful(b, n, k), \A n \in 1 .. Len(e) : Careful(e, n, k),
         Takes(b[1], k) => Len(e) = 1 /\ Takes(e[1], k)
  PROVE  \A n \in 1 .. Len(t) : Careful(t, n, k)
<1>1. /\ Len(e) \in Nat /\ Len(b) \in Nat \ {0} /\ Len(t) = Len(e) + Len(b) - 1
      /\ \A n \in 1 .. Len(e) : n \in 1 .. Len(t) /\ t[n] = e[n]
      /\ \A n \in 2 .. Len(b) : n + Len(e) - 1 \in 1 .. Len(t) /\ t[n + Len(e) - 1] = b[n]
      /\ \A n \in 1 .. Len(t) :
           \/ n \in 1 .. Len(e) /\ t[n] = e[n]
           \/ n - Len(e) + 1 \in 2 .. Len(b) /\ n > Len(e) /\ t[n] = b[n - Len(e) + 1]
  BY DEF Instead
<1> SUFFICES ASSUME NEW n \in 1 .. Len(t)
             PROVE  Careful(t, n, k)
  OBVIOUS
<1>2. CASE n \in 1 .. Len(e) /\ t[n] = e[n]
  <2>1. Careful(e, n, k)
    BY <1>2
  <2>2. ASSUME NEW m \in 1 .. n - 1, Takes(e[m], k)
        PROVE  Takes(t[m], k)
    <3>1. m \in 1 .. Len(e)
      BY <1>1, <1>2
    <3> QED
      BY <1>1, <2>2, <3>1
  <2> QED
    BY <1>2, <2>1, <2>2 DEF Careful
<1>3. CASE n - Len(e) + 1 \in 2 .. Len(b) /\ n > Len(e) /\ t[n] = b[n - Len(e) + 1]
  <2> DEFINE m == n - Len(e) + 1
  <2>1. m \in 2 .. Len(b) /\ m \in 1 .. Len(b) /\ t[n] = b[m] /\ n = m + Len(e) - 1
    <3>1. m \in 2 .. Len(b) /\ t[n] = b[m]
      BY <1>3
    <3>2. Len(e) \in Nat /\ Len(b) \in Nat /\ n \in Nat
      BY <1>1
    <3> QED
      BY <3>1, <3>2
  <2> HIDE DEF m
  <2>2. Careful(b, m, k)
    BY <2>1
  <2>3. ASSUME NEW l \in 1 .. m - 1, Takes(b[l], k)
        PROVE  \E o \in 1 .. n - 1 : Takes(t[o], k)
    <3>1. CASE l = 1
      <4>1. Len(e) = 1 /\ Takes(e[1], k)
        BY <2>3, <3>1
      <4>2. 1 \in 1 .. n - 1 /\ t[1] = e[1]
        BY <1>1, <2>1, <4>1
      <4> QED
        BY <4>1, <4>2
    <3>2. CASE l # 1
      <4>1. l \in 2 .. Len(b) /\ l + Len(e) - 1 \in 1 .. n - 1
        BY <1>1, <2>1, <2>3, <3>2
      <4>2. t[l + Len(e) - 1] = b[l]
        BY <1>1, <4>1
      <4> QED
        BY <2>3, <4>1, <4>2
    <3> QED
      BY <3>1, <3>2
  <2> QED
    BY <2>1, <2>2, <2>3 DEF Careful
<1> QED
  BY <1>1, <1>2, <1>3

\* A step keeps what a removal has ahead of it.
LEMMA ClearingKept ==
  ASSUME Typed, Programs, Clearing, NEW p \in Clients, Steps(p)
  PROVE  Clearing'
<1>1. Driver' = Driver /\ job' = job
  BY DEF Steps, Same, Driver
<1> SUFFICES ASSUME Driver.list # "index", NEW c \in Clients, job[c].op \in {"emptyDir", "clear"},
                    NEW k \in client'[c].watch, store'[File(k)] # NoRecord
             PROVE  /\ store'[Dir(k)] # NoRecord
                    /\ \A d \in Clients : Spares(d, k)'
                    /\ client'[c].outcome # "done"
                    /\ client'[c].outcome = "none" => WillClear(c, k)'
  BY <1>1 DEF Clearing, Running
<1> DEFINE i == First(p)
           b == client[p].todo
           t == client'[p].todo
<1>2. k \in client[c].watch /\ k \in Keys /\ (p = c \/ store'[File(k)] = store[File(k)])
  <2>1. client'[c].watch = StillWatched(p, c)
    BY DEF Steps, Locks, Unlocks, GoesOn, Stops, Moved
  <2>2. client[c].watch \subseteq Keys
    BY DEF Typed, Local
  <2> QED
    BY <2>1, <2>2 DEF StillWatched
<1>3. Fits(p, i) /\ i \in Instr /\ job[p].op \in Ops /\ Running(p)
  BY JobTyped DEF Steps, Fits
<1>4. File(k) \in Paths /\ Dir(k) \in Paths /\ Dir(k) # File(k)
  BY <1>2, PathFacts, PathsApart
<1>5. Keep \/ (Storage(p, i) /\ i.do \notin {"lock", "unlock"})
  BY DEF Steps, Locks, Unlocks, GoesOn, Stops, Storage
<1>6. store[File(k)] # NoRecord
  <2>1. CASE Keep
    BY <2>1 DEF Keep
  <2>2. CASE p = c /\ Storage(p, i)
    <3>1. i.do \notin {"put", "insert", "transact", "deleteRow"}
      BY <1>3, <2>2 DEF Fits, Deeds
    <3>2. Changes(p, i) /\ (store'[File(k)] = store[File(k)] \/ File(k) = i.path)
      BY <1>3, <1>4, <2>2, StorageEffect
    <3> QED
      BY <3>1, <3>2 DEF Changes, Keep
  <2> QED
    BY <1>2, <1>5, <2>1, <2>2
<1>7. /\ store[Dir(k)] # NoRecord
      /\ \A d \in Clients : Spares(d, k)
      /\ client[c].outcome # "done"
      /\ Running(c) => WillClear(c, k)
  BY <1>2, <1>6 DEF Clearing
<1>8. 1 \in 1 .. Len(b) /\ b[1] = i /\ ~\E m \in 1 .. 1 - 1 : TRUE
  BY LeftOver DEF First
<1>9. ~(i.do \in {"createDir", "deleteRow", "find", "delete"} /\ i.path = Dir(k))
  <2>1. Careful(b, 1, k)
    BY <1>7, <1>8 DEF Spares
  <2> HIDE DEF b
  <2> QED
    BY <1>8, <2>1 DEF Careful
<1>10. store'[Dir(k)] # NoRecord
  <2>1. CASE store'[Dir(k)] = NoRecord
    <3>1. i.path = Dir(k) /\ i.do \in {"delete", "deleteRow"}
      BY <1>4, <1>7, <2>1, RecordGoes
    <3> QED
      BY <1>9, <3>1
  <2> QED
    BY <2>1
<1>11. Storage(p, i) => ~(Takes(i, k) /\ i.do = "delete")
  <2>1. SUFFICES ASSUME Storage(p, i), Takes(i, k), i.do = "delete"
                 PROVE  FALSE
    OBVIOUS
  <2>2. Changes(p, i)
    BY <1>3, <2>1, StorageEffect
  <2> QED
    BY <2>1, <2>2 DEF Changes, Takes
<1>12. /\ Instead(b, After(p, i), After(p, i) \o Tail(b))
       /\ Instead(b, <<>>, Tail(b))
  BY LeftOver
<1>13. \/ (Locks(p) \/ Unlocks(p)) /\ t = Tail(b)
       \/ GoesOn(p) /\ t = After(p, i) \o Tail(b)
       \/ Stops(p) /\ t = <<>>
  BY DEF Steps, Locks, Unlocks, GoesOn, Stops, Moved
<1>14. i.do \in {"lock", "unlock"} => ~EndsIn(i, k) /\ ~Takes(i, k)
  BY DEF EndsIn, Takes
<1>15. Locks(p) \/ Unlocks(p) => i.do \in {"lock", "unlock"}
  BY DEF Locks, Unlocks
<1>16. GoesOn(p) => Storage(p, i)
  BY DEF GoesOn
<1>17. ~\E n \in 1 .. Len(<<>>) : TRUE
  OBVIOUS
<1>18. \A n \in 1 .. Len(b) : Careful(b, n, k)
  BY <1>7 DEF Spares
<1> HIDE DEF i, b
<1>19. \A n \in 1 .. Len(t) : Careful(t, n, k)
  <2>1. CASE i.do \in {"lock", "unlock"} /\ t = Tail(b)
    <3>1. ~Takes(b[1], k)
      BY <1>8, <1>14, <2>1
    <3> DEFINE e == <<>>
    <3>2. Instead(b, e, t)
      BY <1>12, <2>1
    <3>3. \A n \in 1 .. Len(e) : Careful(e, n, k)
      BY <1>17
    <3> HIDE DEF t, e
    <3> QED
      BY <1>8, <1>18, <3>1, <3>2, <3>3, StaysCareful
  <2>2. CASE Storage(p, i) /\ t = After(p, i) \o Tail(b)
    <3>1. \A n \in 1 .. Len(After(p, i)) : Careful(After(p, i), n, k)
      BY <1>2, <1>3, <1>6, <1>7, <1>9, CarefulOn
    <3>2. Takes(b[1], k) => Len(After(p, i)) = 1 /\ Takes(After(p, i)[1], k)
      BY <1>2, <1>3, <1>6, <1>8, <1>11, <2>2, TakesOn
    <3> DEFINE e == After(p, i)
    <3>3. Instead(b, e, t)
      BY <1>12, <2>2
    <3> HIDE DEF t, e
    <3> QED
      BY <1>8, <1>18, <3>1, <3>2, <3>3, StaysCareful DEF e
  <2> QED
    BY <1>13, <1>15, <1>16, <1>17, <2>1, <2>2
<1>20. p = c => client'[c].outcome # "done"
                /\ (client'[c].outcome = "none" => \E n \in 1 .. Len(t) : EndsIn(t[n], k))
  <2>1. SUFFICES ASSUME p = c
                 PROVE  /\ client'[c].outcome # "done"
                        /\ client'[c].outcome = "none" => \E n \in 1 .. Len(t) : EndsIn(t[n], k)
    OBVIOUS
  <2>2. PICK n \in 1 .. Len(b) : EndsIn(b[n], k)
    BY <1>3, <1>7, <2>1 DEF WillClear, b
  <2>3. n = 1 \/ n \in 2 .. Len(b)
    OBVIOUS
  <2>4. ASSUME NEW e, Instead(b, e, t), EndsIn(i, k) => \E m \in 1 .. Len(e) : EndsIn(e[m], k)
        PROVE  \E m \in 1 .. Len(t) : EndsIn(t[m], k)
    <3> HIDE DEF t
    <3>1. /\ \A m \in 2 .. Len(b) : \E l \in 1 .. Len(t) : t[l] = b[m]
          /\ \A m \in 1 .. Len(e) : m \in 1 .. Len(t) /\ t[m] = e[m]
      BY <2>4, InsteadIs
    <3> QED
      BY <1>8, <2>2, <2>3, <2>4, <3>1
  <2>5. t # <<>> => client'[c].outcome # "done"
    <3>1. CASE Stops(p)
      BY <2>1, <3>1 DEF Stops, Moved
    <3>2. CASE Locks(p) \/ Unlocks(p) \/ GoesOn(p)
      BY <2>1, <3>2 DEF Locks, Unlocks, GoesOn, Moved, Ends
    <3> QED
      BY <3>1, <3>2 DEF Steps
  <2>6. (\E m \in 1 .. Len(t) : TRUE) => t # <<>>
    OBVIOUS
  <2>7. CASE i.do \in {"lock", "unlock"} /\ t = Tail(b)
    <3> DEFINE e == <<>>
    <3>1. Instead(b, e, t)
      BY <1>12, <2>7
    <3> HIDE DEF t, e
    <3> QED
      BY <1>14, <2>4, <2>5, <2>6, <2>7, <3>1
  <2>8. CASE Storage(p, i) /\ t = After(p, i) \o Tail(b)
    <3>1. EndsIn(i, k) => \E m \in 1 .. Len(After(p, i)) : EndsIn(After(p, i)[m], k)
      BY <1>2, <1>3, <1>6, <1>7, <1>11, <2>1, <2>8, EndsOn
    <3> HIDE DEF t
    <3> QED
      BY <1>12, <2>4, <2>5, <2>6, <2>8, <3>1
  <2>9. CASE Stops(p)
    <3>1. client'[c].outcome \in {"failed", "crashed"}
      BY <2>1, <2>9 DEF Stops, Moved
    <3> QED
      BY <3>1
  <2> QED
    BY <1>13, <1>15, <1>16, <2>7, <2>8, <2>9
<1>21. \A j : EndsIn(j, k) <=> EndsIn(j, k)'
  BY <1>1 DEF EndsIn, Takes, Ahead
<1>22. ASSUME NEW d \in Clients
       PROVE  Spares(d, k)'
  <2>1. CASE d = p
    BY <1>19, <2>1 DEF Spares, t
  <2>2. CASE d # p
    <3>1. client'[d].todo = client[d].todo
      BY <2>2 DEF Steps, Locks, Unlocks, GoesOn, Stops, Moved
    <3> QED
      BY <1>7, <3>1 DEF Spares
  <2> QED
    BY <2>1, <2>2
<1>23. CASE p # c
  <2>1. client'[c].todo = client[c].todo /\ client'[c].outcome = client[c].outcome
    BY <1>23 DEF Steps, Locks, Unlocks, GoesOn, Stops, Moved
  <2>2. client[c].outcome = "none" => \E n \in 1 .. Len(client[c].todo) : EndsIn(client[c].todo[n], k)
    BY <1>7 DEF WillClear, Running
  <2> QED
    BY <1>7, <1>10, <1>21, <1>22, <2>1, <2>2 DEF WillClear
<1>24. CASE p = c
  <2> HIDE DEF t
  <2>1. client'[c].outcome = "none" => WillClear(c, k)'
    BY <1>20, <1>21, <1>24 DEF WillClear, t
  <2> QED
    BY <1>10, <1>20, <1>22, <1>24, <2>1
<1> QED
  BY <1>23, <1>24

\* The awaits that a call begins with.
LEMMA ProgramBegins ==
  ASSUME job \in Jobs, NEW c \in Clients
  PROVE  \A n \in 1 .. Len(Program(job[c])) :
           Program(job[c])[n].do \in {"lock", "unlock", "ensure", "parent", "write", "remove", "list", "read"}
<1> DEFINE f == File(job[c].key)
           p == Program(job[c])
           S == {"lock", "unlock", "ensure", "parent", "write", "remove", "list", "read"}
           l == I("lock", f)
           e == I("ensure", Dir(job[c].key))
           a == I("parent", f)
           w == I("write", f)
           u == I("unlock", Root)
           t == I("lock", Root)
           r == I("remove", f)
           o == I("list", Root)
           g == I("read", f)
<1>1. job[c].op \in Ops
  BY RecordsAssumption DEF Call
<1>2. \/ p = <<l, e, a, w, u>>
      \/ p = <<l, a, w, u>>
      \/ p = <<t, r, u>>
      \/ p = <<t, o, u>>
      \/ p = <<o>>
      \/ p = <<g>>
  BY <1>1 DEF Program, SetProgram, WriteProgram, RemoveProgram, EmptyProgram, ClearProgram, KeysProgram, Ops
<1>3. /\ l.do \in S /\ e.do \in S /\ a.do \in S /\ w.do \in S /\ u.do \in S /\ t.do \in S
      /\ r.do \in S /\ o.do \in S /\ g.do \in S
  BY DEF I
<1> HIDE DEF p, l, e, a, w, u, t, r, o, g, S
<1>4. CASE p = <<l, e, a, w, u>>
  <2>1. /\ Len(p) = 5 /\ p[1] = l /\ p[2] = e /\ p[3] = a /\ p[4] = w /\ p[5] = u
        /\ \A n \in 1 .. 5 : n = 1 \/ n = 2 \/ n = 3 \/ n = 4 \/ n = 5
    BY <1>4
  <2> QED
    BY <1>3, <2>1 DEF p, S
<1>5. CASE p = <<l, a, w, u>>
  <2>1. /\ Len(p) = 4 /\ p[1] = l /\ p[2] = a /\ p[3] = w /\ p[4] = u
        /\ \A n \in 1 .. 4 : n = 1 \/ n = 2 \/ n = 3 \/ n = 4
    BY <1>5
  <2> QED
    BY <1>3, <2>1 DEF p, S
<1>6. CASE p = <<t, r, u>> \/ p = <<t, o, u>>
  <2>1. /\ Len(p) = 3 /\ p[1] = t /\ (p[2] = r \/ p[2] = o) /\ p[3] = u
        /\ \A n \in 1 .. 3 : n = 1 \/ n = 2 \/ n = 3
    BY <1>6
  <2> QED
    BY <1>3, <2>1 DEF p, S
<1>7. CASE p = <<o>> \/ p = <<g>>
  <2>1. Len(p) = 1 /\ (p[1] = o \/ p[1] = g) /\ \A n \in 1 .. 1 : n = 1
    BY <1>7
  <2> QED
    BY <1>3, <2>1 DEF p, S
<1> QED
  BY <1>2, <1>4, <1>5, <1>6, <1>7 DEF p

\* A removal has every directory ahead of it.
LEMMA InitClearing == Init => Clearing
<1> SUFFICES ASSUME Init
             PROVE  Clearing
  OBVIOUS
<1>1. Typed /\ Programs /\ IsTree(store)
  BY InitTyped, RecordsAssumption DEF Init
<1>2. \A c \in Clients : /\ client[c].outcome = "none" /\ client[c].todo = Program(job[c])
                         /\ client[c].watch \subseteq Keys
  BY DEF Init
<1>3. ASSUME NEW k \in Keys, store[File(k)] # NoRecord
      PROVE  store[Dir(k)] # NoRecord
  BY <1>1, <1>3, RecordsAssumption DEF IsTree
<1>4. ASSUME NEW c \in Clients, NEW k \in Keys
      PROVE  Spares(c, k)
  <2>1. \A n \in 1 .. Len(client[c].todo) :
          client[c].todo[n].do \in {"lock", "unlock", "ensure", "parent", "write", "remove", "list", "read"}
    BY <1>1, <1>2, ProgramBegins DEF Typed
  <2> QED
    BY <2>1 DEF Spares, Careful
<1>5. ASSUME NEW c \in Clients, job[c].op \in {"emptyDir", "clear"}, NEW k \in Keys
      PROVE  WillClear(c, k)
  <2> DEFINE s1 == I("lock", Root)
             s2 == I("list", Root)
             s3 == I("unlock", Root)
  <2>1. EndsIn(s2, k)
    BY DEF EndsIn, I
  <2>2. client[c].todo = <<s1, s2, s3>> \/ client[c].todo = <<s2>>
    BY <1>2, <1>5 DEF Program, EmptyProgram, ClearProgram
  <2> HIDE DEF s1, s2, s3
  <2>3. CASE client[c].todo = <<s1, s2, s3>>
    <3>1. Len(client[c].todo) = 3 /\ client[c].todo[2] = s2 /\ 2 \in 1 .. 3
      BY <2>3
    <3> QED
      BY <2>1, <3>1 DEF WillClear
  <2>4. CASE client[c].todo = <<s2>>
    <3>1. Len(client[c].todo) = 1 /\ client[c].todo[1] = s2
      BY <2>4
    <3> QED
      BY <2>1, <3>1 DEF WillClear
  <2> QED
    BY <2>2, <2>3, <2>4
<1> QED
  BY <1>2, <1>3, <1>4, <1>5 DEF Clearing, Typed, Local

\* What a removal still has to come to does not change while nothing does.
LEMMA StutterClearing == Clearing /\ UNCHANGED vars => Clearing'
<1> SUFFICES ASSUME Clearing, UNCHANGED vars
             PROVE  Clearing'
  OBVIOUS
<1>1. /\ Driver' = Driver /\ job' = job /\ store' = store /\ order' = order /\ client' = client
  BY DEF vars, Driver
<1>2. \A i, k : EndsIn(i, k) <=> EndsIn(i, k)'
  BY <1>1 DEF EndsIn, Ahead, Takes
<1>3. \A c, k : WillClear(c, k) <=> WillClear(c, k)'
  BY <1>1, <1>2 DEF WillClear
<1>4. \A c, k : Spares(c, k) <=> Spares(c, k)'
  BY <1>1 DEF Spares, Careful, Takes
<1> QED
  BY <1>1, <1>3, <1>4 DEF Clearing, Running

\* emptyDir and clear leave nothing of what they found, except what others wrote
\* meanwhile: the await that comes to a value leaves another that does, and no
\* one takes a directory away before the value in it.
THEOREM ClearingIsComplete == Spec => []ClearIsComplete
<1>1. Typed /\ Programs /\ Clearing /\ [Next]_vars => Clearing'
  BY NextSteps, ClearingKept, StutterClearing
<1>2. Clearing => ClearIsComplete
  BY DEF Clearing, ClearIsComplete, Done
<1> QED
  BY <1>1, <1>2, InitClearing, TypeCorrect, PTL DEF Spec

----------------------------------------------------------------------------
(* Writes under their locks.                                               *)

\* A short program without its first await.
LEMMA TailIs ==
  ASSUME NEW S, NEW s \in Seq(S)
  PROVE  /\ Len(s) = 1 => Tail(s) = <<>>
         /\ Len(s) = 2 => Tail(s) = <<s[2]>>
         /\ Len(s) = 3 => Tail(s) = <<s[2], s[3]>>
         /\ Len(s) = 4 => Tail(s) = <<s[2], s[3], s[4]>>
<1> DEFINE t == Tail(s)
<1>1. Len(s) \in Nat /\ (Len(s) # 0 => s # <<>>)
  BY LenProperties
<1>2. Len(s) # 0 => t \in Seq(S) /\ Len(t) = Len(s) - 1 /\ \A n \in 1 .. Len(t) : t[n] = s[n + 1]
  BY <1>1, HeadTailProperties
<1> HIDE DEF t
<1>3. Len(s) = 1 => t = <<>>
  BY <1>2, EmptySeq
<1>4. Len(s) = 2 => t = <<s[2]>>
  <2>1. Len(s) = 2 => t \in Seq(S) /\ Len(t) = 1 /\ t[1] = s[2]
    BY <1>2
  <2> QED
    BY <2>1
<1>5. Len(s) = 3 => t = <<s[2], s[3]>>
  <2>1. SUFFICES ASSUME Len(s) = 3
                 PROVE  t = <<s[2], s[3]>>
    OBVIOUS
  <2>2. t \in Seq(S) /\ Len(t) = 2 /\ \A n \in 1 .. Len(t) : t[n] = s[n + 1]
    BY <1>2, <2>1
  <2>3. t[1] = s[2] /\ t[2] = s[3]
    BY <2>2
  <2> QED
    BY <2>2, <2>3
<1>6. Len(s) = 4 => t = <<s[2], s[3], s[4]>>
  <2>1. SUFFICES ASSUME Len(s) = 4
                 PROVE  t = <<s[2], s[3], s[4]>>
    OBVIOUS
  <2>2. t \in Seq(S) /\ Len(t) = 3 /\ \A n \in 1 .. Len(t) : t[n] = s[n + 1]
    BY <1>2, <2>1
  <2>3. t[1] = s[2] /\ t[2] = s[3] /\ t[3] = s[4]
    BY <2>2
  <2> QED
    BY <2>2, <2>3
<1> QED
  BY <1>3, <1>4, <1>5, <1>6 DEF t

\* Short programs, one behind the other, and without their first await.
LEMMA Tuples ==
  ASSUME NEW a, NEW b, NEW c, NEW d
  PROVE  /\ Tail(<<a>>) = <<>> /\ Tail(<<a, b>>) = <<b>> /\ Tail(<<a, b, c>>) = <<b, c>>
         /\ Tail(<<a, b, c, d>>) = <<b, c, d>>
         /\ <<a>> \o <<b>> = <<a, b>>
<1> DEFINE S == {a, b, c, d}
<1>1. Tail(<<a>>) = <<>>
  <2> DEFINE s == <<a>>
  <2>1. s \in Seq(S) /\ Len(s) = 1
    OBVIOUS
  <2> HIDE DEF s, S
  <2>2. Tail(s) = <<>>
    BY <2>1, TailIs
  <2> QED
    BY <2>2 DEF s
<1>2. Tail(<<a, b>>) = <<b>>
  <2> DEFINE s == <<a, b>>
  <2>1. s \in Seq(S) /\ Len(s) = 2 /\ s[2] = b
    OBVIOUS
  <2> HIDE DEF s, S
  <2>2. Tail(s) = <<s[2]>>
    BY <2>1, TailIs
  <2> QED
    BY <2>1, <2>2 DEF s
<1>3. Tail(<<a, b, c>>) = <<b, c>>
  <2> DEFINE s == <<a, b, c>>
  <2>1. s \in Seq(S) /\ Len(s) = 3 /\ s[2] = b /\ s[3] = c
    OBVIOUS
  <2> HIDE DEF s, S
  <2>2. Tail(s) = <<s[2], s[3]>>
    BY <2>1, TailIs
  <2> QED
    BY <2>1, <2>2 DEF s
<1>4. Tail(<<a, b, c, d>>) = <<b, c, d>>
  <2> DEFINE s == <<a, b, c, d>>
  <2>1. s \in Seq(S) /\ Len(s) = 4 /\ s[2] = b /\ s[3] = c /\ s[4] = d
    OBVIOUS
  <2> HIDE DEF s, S
  <2>2. Tail(s) = <<s[2], s[3], s[4]>>
    BY <2>1, TailIs
  <2> QED
    BY <2>1, <2>2 DEF s
<1>5. <<a>> \o <<b>> = <<a, b>>
  <2> DEFINE s == <<a>>
             t == <<b>>
             r == s \o t
  <2>1. s \in Seq(S) /\ Len(s) = 1 /\ s[1] = a /\ t \in Seq(S) /\ Len(t) = 1 /\ t[1] = b
    OBVIOUS
  <2> HIDE DEF s, t, S
  <2>2. /\ r \in Seq(S) /\ Len(r) = Len(s) + Len(t)
        /\ \A n \in 1 .. Len(s) + Len(t) : r[n] = IF n <= Len(s) THEN s[n] ELSE t[n - Len(s)]
    BY <2>1, ConcatProperties
  <2> HIDE DEF r
  <2>3. r \in Seq(S) /\ Len(r) = 2 /\ r[1] = a /\ r[2] = b
    BY <2>1, <2>2
  <2>4. r = <<a, b>>
    BY <2>3
  <2> QED
    BY <2>4 DEF r, s, t
<1> QED
  BY <1>1, <1>2, <1>3, <1>4, <1>5

\* One await behind two others.
LEMMA Joined ==
  ASSUME NEW a, NEW b, NEW c, NEW s, NEW t, s = <<a, b>>, t = <<c>>
  PROVE  s \o t = <<a, b, c>>
<1> DEFINE S == {a, b, c}
           r == s \o t
<1>1. s \in Seq(S) /\ Len(s) = 2 /\ s[1] = a /\ s[2] = b
  OBVIOUS
<1>2. t \in Seq(S) /\ Len(t) = 1 /\ t[1] = c
  OBVIOUS
<1> HIDE DEF S
<1>3. /\ r \in Seq(S) /\ Len(r) = Len(s) + Len(t)
      /\ \A n \in 1 .. Len(s) + Len(t) : r[n] = IF n <= Len(s) THEN s[n] ELSE t[n - Len(s)]
  BY <1>1, <1>2, ConcatProperties
<1> HIDE DEF r
<1>4. r \in Seq(S) /\ Len(r) = 3 /\ r[1] = a /\ r[2] = b /\ r[3] = c
  BY <1>1, <1>2, <1>3
<1>5. r = <<a, b, c>>
  BY <1>4
<1> QED
  BY <1>5 DEF r

\* Two clients that share a coordinator hold no lock together.
LEMMA ExclusiveKept ==
  ASSUME Typed, Exclusive, NEW p \in Clients, Steps(p)
  PROVE  Exclusive'
<1>1. shared' = shared
  BY DEF Steps, Same
<1>2. \A d \in Clients : d # p => client'[d].held = client[d].held
  BY DEF Steps, Locks, Unlocks, GoesOn, Stops, Moved
<1>3. CASE Locks(p)
  <2>1. client'[p].held = {First(p).path} /\ MayHold(p, First(p).path)
    BY <1>3 DEF Locks, Moved
  <2> QED
    BY <1>1, <1>2, <2>1 DEF Exclusive, MayHold
<1>4. CASE ~Locks(p)
  <2>1. client'[p].held \subseteq client[p].held
    BY <1>4 DEF Steps, Unlocks, GoesOn, Stops, Moved
  <2> QED
    BY <1>1, <1>2, <2>1 DEF Exclusive
<1> QED
  BY <1>3, <1>4

\* What a write is at when it changes the storage.
LEMMA AtTheStorage ==
  ASSUME Typed, Writing, NEW c \in Clients, job[c].op = "write",
         NEW do \in {"transact", "put", "deleteRow", "insert"}, Doing(c, do)
  PROVE  /\ client[c].held = {File(job[c].key)} /\ First(c).path = File(job[c].key) /\ Running(c)
         /\ do = "transact" <=> Driver.transact
         /\ do \in {"deleteRow", "insert"} => Driver.replacement # "atomic"
<1> DEFINE f == File(job[c].key)
           t == client[c].todo
<1>1. t # <<>> /\ t[1].do = do
  BY DEF Doing
<1>2. \A e, g : I(e, g).do = e /\ I(e, g).path = g
  BY DEF I
<1>3. \A e, g, data : With(e, g, data).do = e /\ With(e, g, data).path = g
  BY DEF With, I
<1> HIDE DEF t, f
<1>4. t # WriteProgram(job[c].key)
  <2> DEFINE x == I("lock", File(job[c].key))
             y == I("parent", File(job[c].key))
             z == I("write", File(job[c].key))
             u == I("unlock", Root)
  <2>1. WriteProgram(job[c].key) = <<x, y, z, u>> /\ x.do = "lock"
    BY <1>2 DEF WriteProgram
  <2> HIDE DEF x, y, z, u
  <2>2. <<x, y, z, u>>[1] = x
    OBVIOUS
  <2> QED
    BY <1>1, <2>1, <2>2
<1>5. Running(c) /\ client[c].held = {f} /\ Locked(c, f, t)
  BY <1>1, <1>4 DEF Writing, t, f
<1> DEFINE y == I("parent", f)
           z == I("write", f)
           a == I("transact", f)
           u == I("unlock", Root)
           q == With("put", f, t[1].data)
           r == With("deleteRow", f, t[1].data)
           s == With("insert", f, t[1].data)
<1>6. /\ y.do = "parent" /\ z.do = "write" /\ a.do = "transact" /\ u.do = "unlock"
      /\ q.do = "put" /\ r.do = "deleteRow" /\ s.do = "insert"
      /\ a.path = f /\ q.path = f /\ r.path = f /\ s.path = f
  BY <1>2, <1>3
<1>7. \/ t \in {<<y, z, u>>, <<z, u>>, <<u>>}
      \/ Driver.transact /\ t = <<a, u>>
      \/ ~Driver.transact /\ t = <<q, u>>
      \/ ~Driver.transact /\ Driver.set # <<"put">> /\ (t = <<r, s, u>> \/ t = <<s, u>>)
  BY <1>5 DEF Locked
<1> HIDE DEF y, z, a, u, q, r, s
<1>8. \/ t[1] \in {y, z, u}
      \/ Driver.transact /\ t[1] = a
      \/ ~Driver.transact /\ t[1] = q
      \/ ~Driver.transact /\ Driver.set # <<"put">> /\ t[1] \in {r, s}
  BY <1>7
<1>9. Driver.set # <<"put">> => Driver.replacement # "atomic"
  BY DriverFacts DEF Typed
<1> QED
  BY <1>1, <1>5, <1>6, <1>8, <1>9 DEF First, t, f

\* The steps of a write that runs to its end, by the await it was at.
Progress(p) ==
  LET i == First(p)
      t == client'[p].todo
  IN  \/ i.do \in {"lock", "parent"} /\ Keep /\ t # <<>> /\ t[1].do \in {"parent", "write"}
      \/ /\ i.do = "write" /\ Keep /\ t # <<>>
         /\ \/ t[1].do = "transact"
            \/ t[1].do \in {"put", "deleteRow"} /\ t[1].data = Written(p, File(job[p].key))
      \/ i.do \in {"transact", "put", "insert"} /\ Storage(p, i) /\ t # <<>> /\ t[1].do = "unlock"
      \/ i.do = "deleteRow" /\ Storage(p, i) /\ t # <<>> /\ t[1].do = "insert" /\ t[1].data = i.data

\* A write goes on under its lock, comes to its end, or is left.
LEMMA WriteSteps ==
  ASSUME Typed, Programs, Writing, NEW p \in Clients, job[p].op = "write", Steps(p)
  PROVE  \/ Stops(p)
         \/ First(p).do = "unlock" /\ Keep /\ client'[p].todo = <<>> /\ client'[p].outcome = "done"
         \/ /\ client'[p].outcome = "none" /\ client'[p].held = {File(job[p].key)}
            /\ Locked(p, File(job[p].key), client'[p].todo) /\ Progress(p)
<1> DEFINE f == File(job[p].key)
           b == client[p].todo
           t == client'[p].todo
           i == First(p)
           l == I("lock", f)
           y == I("parent", f)
           z == I("write", f)
           a == I("transact", f)
           u == I("unlock", Root)
           w == Written(p, f)
           G == \/ Stops(p)
                \/ i.do = "unlock" /\ Keep /\ t = <<>> /\ client'[p].outcome = "done"
                \/ /\ client'[p].outcome = "none" /\ client'[p].held = {f}
                   /\ Locked(p, f, t) /\ Progress(p)
<1>1. Running(p) /\ b # <<>> /\ i = b[1] /\ Made(p, b)
  BY DEF Steps, First
<1>2. i.do = "lock" => Stops(p) \/ (Keep /\ t = Tail(b) /\ client'[p].held = {i.path}
                                    /\ client'[p].outcome = Ends(t))
  BY DEF Steps, Locks, Unlocks, GoesOn, Moved
<1>3. i.do = "unlock" => Stops(p) \/ (Keep /\ t = Tail(b) /\ client'[p].outcome = Ends(t))
  BY DEF Steps, Locks, Unlocks, GoesOn, Moved
<1>4. i.do \notin {"lock", "unlock"} =>
        Stops(p) \/ (/\ Storage(p, i) /\ t = After(p, i) \o Tail(b) /\ client'[p].held = client[p].held
                     /\ client'[p].outcome = Ends(t))
  BY DEF Steps, Locks, Unlocks, GoesOn, Moved
<1>5. /\ l.do = "lock" /\ y.do = "parent" /\ z.do = "write" /\ a.do = "transact" /\ u.do = "unlock"
      /\ l.path = f /\ z.path = f
  BY DEF I
<1>6. \A do, data : With(do, f, data).do = do /\ With(do, f, data).data = data
  BY DEF I, With
<1>7. Tail(b) \in Seq(Instr)
  <2> HIDE DEF b
  <2> QED
    BY <1>1, HeadTailProperties DEF Made
<1>8. i.do \in {"parent", "transact", "put", "insert", "deleteRow"} => After(p, i) \o Tail(b) = Tail(b)
  <2>1. i.do \in {"parent", "transact", "put", "insert", "deleteRow"} => After(p, i) = <<>>
    BY AfterIs
  <2> HIDE DEF b
  <2>2. <<>> \o Tail(b) = Tail(b)
    BY <1>7, ConcatEmptySeq
  <2> QED
    BY <2>1, <2>2
<1>9. Storage(p, i) /\ i.do \in {"parent", "write"} => Keep
  BY DEF Storage
<1> SUFFICES G
  OBVIOUS
<1>10. CASE b = WriteProgram(job[p].key)
  <2>1. b = <<l, y, z, u>>
    BY <1>10 DEF WriteProgram
  <2> HIDE DEF l, y, z, u, b, t, i, f
  <2>2. i = l /\ Tail(b) = <<y, z, u>>
    BY <1>1, <2>1, Tuples
  <2>3. Stops(p) \/ (Keep /\ t = <<y, z, u>> /\ client'[p].held = {f} /\ client'[p].outcome = Ends(t))
    BY <1>2, <1>5, <2>2
  <2>4. t = <<y, z, u>> => t # <<>> /\ t[1] = y
    OBVIOUS
  <2>5. t = <<y, z, u>> => Locked(p, f, t)
    BY DEF Locked, y, z, u
  <2>6. Keep /\ t = <<y, z, u>> => Progress(p)
    BY <1>5, <2>2, <2>4 DEF Progress, i, t
  <2> QED
    BY <2>3, <2>4, <2>5, <2>6 DEF Ends
<1>11. CASE client[p].held = {f} /\ Locked(p, f, b)
  <2> DEFINE q == With("put", f, b[1].data)
             r == With("deleteRow", f, b[1].data)
             s == With("insert", f, b[1].data)
  <2>1. \/ b = <<y, z, u>> \/ b = <<z, u>> \/ b = <<u>>
        \/ Driver.transact /\ b = <<a, u>>
        \/ ~Driver.transact /\ Driver.set = <<"put">> /\ b = <<q, u>>
        \/ ~Driver.transact /\ Driver.set # <<"put">> /\ (b = <<r, s, u>> \/ b = <<s, u>>)
    BY <1>11 DEF Locked
  <2>2. /\ q.do = "put" /\ r.do = "deleteRow" /\ s.do = "insert" /\ s.data = b[1].data
        /\ q.data = b[1].data /\ r.data = b[1].data
    BY <1>6
  <2>3. ASSUME NEW x, t = <<x, u>>, client'[p].held = {f}, client'[p].outcome = Ends(t), Locked(p, f, t)
        PROVE  t # <<>> /\ t[1] = x /\ client'[p].outcome = "none"
    BY <2>3 DEF Ends
  <2> HIDE DEF l, y, z, u, a, b, t, i, f, q, r, s, w
  <2>4. CASE b = <<y, z, u>>
    <3>1. i = y /\ Tail(b) = <<z, u>>
      BY <1>1, <2>4, Tuples
    <3>2. Stops(p) \/ (Keep /\ t = <<z, u>> /\ client'[p].held = {f} /\ client'[p].outcome = Ends(t))
      BY <1>4, <1>5, <1>8, <1>9, <1>11, <3>1
    <3>3. t = <<z, u>> => Locked(p, f, t)
      BY DEF Locked, z, u
    <3>4. t = <<z, u>> => t # <<>> /\ t[1] = z
      OBVIOUS
    <3>5. Keep /\ t = <<z, u>> => Progress(p)
      BY <1>5, <3>1, <3>4 DEF Progress, i, t
    <3> QED
      BY <3>2, <3>3, <3>4, <3>5 DEF Ends
  <2>5. CASE b = <<u>>
    <3>1. i = u /\ Tail(b) = <<>>
      BY <1>1, <2>5, Tuples
    <3> QED
      BY <1>3, <1>5, <3>1 DEF Ends
  <2>6. ASSUME i.do \in {"transact", "put", "insert"}, Tail(b) = <<u>>
        PROVE  G
    <3>1. Stops(p) \/ (/\ Storage(p, i) /\ t = <<u>> /\ client'[p].held = {f}
                       /\ client'[p].outcome = Ends(t))
      BY <1>4, <1>8, <1>11, <2>6
    <3>2. t = <<u>> => Locked(p, f, t)
      BY DEF Locked, u
    <3>3. t = <<u>> => t # <<>> /\ t[1] = u
      OBVIOUS
    <3>4. Storage(p, i) /\ t = <<u>> => Progress(p)
      BY <1>5, <2>6, <3>3 DEF Progress, i, t
    <3> QED
      BY <3>1, <3>2, <3>3, <3>4 DEF Ends
  <2>7. CASE b = <<a, u>> \/ b = <<q, u>> \/ b = <<s, u>>
    <3>1. i \in {a, q, s} /\ Tail(b) = <<u>>
      <4>1. CASE b = <<a, u>>
        BY <1>1, <4>1, Tuples
      <4>2. CASE b = <<q, u>>
        BY <1>1, <4>2, Tuples
      <4>3. CASE b = <<s, u>>
        BY <1>1, <4>3, Tuples
      <4> QED
        BY <2>7, <4>1, <4>2, <4>3
    <3> QED
      BY <1>5, <2>2, <2>6, <3>1
  <2>8. CASE ~Driver.transact /\ Driver.set # <<"put">> /\ b = <<r, s, u>>
    <3>1. i = r /\ Tail(b) = <<s, u>>
      BY <1>1, <2>8, Tuples
    <3>2. Stops(p) \/ (/\ Storage(p, i) /\ t = <<s, u>> /\ client'[p].held = {f}
                       /\ client'[p].outcome = Ends(t))
      BY <1>4, <1>8, <1>11, <2>2, <3>1
    <3>3. t = <<s, u>> => t # <<>> /\ t[1] = s
      OBVIOUS
    <3>4. t = <<s, u>> => s = With("insert", f, t[1].data)
      BY <2>2, <3>3 DEF s
    <3>5. t = <<s, u>> => Locked(p, f, t)
      BY <2>8, <3>4 DEF Locked, u
    <3>6. Storage(p, i) /\ t = <<s, u>> => Progress(p)
      BY <1>1, <2>2, <3>1, <3>3 DEF Progress, i, t
    <3> QED
      BY <3>2, <3>3, <3>5, <3>6 DEF Ends
  <2>9. CASE b = <<z, u>>
    <3> DEFINE x == [z EXCEPT !.data = w]
               q1 == With("put", f, w)
               r1 == With("deleteRow", f, w)
               s1 == With("insert", f, w)
    <3>1. i = z /\ Tail(b) = <<u>>
      BY <1>1, <2>9, Tuples
    <3>2. Stops(p) \/ (/\ Keep /\ t = After(p, i) \o <<u>> /\ client'[p].held = {f}
                       /\ client'[p].outcome = Ends(t))
      BY <1>4, <1>5, <1>9, <1>11, <3>1
    <3>3. After(p, i) = IF Driver.transact THEN <<a>> ELSE Set(x)
      <4>1. After(p, i) = WriteFile(p, z)
        BY <1>5, <3>1, AfterIs
      <4>2. [z EXCEPT !.do = "transact"] = a
        BY DEF z, a, I
      <4> QED
        BY <1>5, <4>1, <4>2 DEF WriteFile, w
    <3>4. x \in Instr
      <4>1. z \in Instr
        BY <1>1, <2>9, ElementOfSeq, LeftOver, <3>1 DEF Steps, Fits, i
      <4>2. w \in Seq(Byte)
        BY WrittenTyped, JobTyped, PathFacts DEF w, f
      <4> QED
        BY <4>1, <4>2 DEF Instr
    <3>5. /\ [x EXCEPT !.do = "put"] = q1 /\ [x EXCEPT !.do = "deleteRow"] = r1
          /\ [x EXCEPT !.do = "insert"] = s1
      <4>1. x = [do |-> "write", path |-> f, data |-> w, rest |-> <<>>, at |-> 0]
        BY DEF z, I
      <4>2. \A do : With(do, f, w) = [do |-> do, path |-> f, data |-> w, rest |-> <<>>, at |-> 0]
        BY DEF I, With
      <4> HIDE DEF x
      <4>3. \A do : [x EXCEPT !.do = do] = [do |-> do, path |-> f, data |-> w, rest |-> <<>>, at |-> 0]
        BY <4>1
      <4> QED
        BY <4>2, <4>3
    <3>6. Set(x) = IF Driver.set = <<"put">> THEN <<q1>> ELSE <<r1, s1>>
      <4> HIDE DEF x
      <4> QED
        BY <3>4, <3>5, SetIs DEF Typed
    <3>7. /\ q1.do = "put" /\ q1.data = w /\ r1.do = "deleteRow" /\ r1.data = w
          /\ s1.do = "insert" /\ s1.data = w
      BY <1>6
    <3> HIDE DEF x, q1, r1, s1
    <3>8. \/ Driver.transact /\ After(p, i) \o <<u>> = <<a, u>>
          \/ ~Driver.transact /\ Driver.set = <<"put">> /\ After(p, i) \o <<u>> = <<q1, u>>
          \/ ~Driver.transact /\ Driver.set # <<"put">> /\ After(p, i) \o <<u>> = <<r1, s1, u>>
      <4>1. <<a>> \o <<u>> = <<a, u>> /\ <<q1>> \o <<u>> = <<q1, u>>
        BY Tuples
      <4>2. <<r1, s1>> \o <<u>> = <<r1, s1, u>>
        BY Joined
      <4>3. CASE Driver.transact
        BY <3>3, <4>1, <4>3, Zenon
      <4>4. CASE ~Driver.transact /\ Driver.set = <<"put">>
        BY <3>3, <3>6, <4>1, <4>4, Zenon
      <4>5. CASE ~Driver.transact /\ Driver.set # <<"put">>
        BY <3>3, <3>6, <4>2, <4>5, Zenon
      <4> QED
        BY <4>3, <4>4, <4>5
    <3>9. CASE Driver.transact /\ t = <<a, u>> /\ Keep
      <4>1. t # <<>> /\ t[1] = a
        BY <3>9
      <4>2. Locked(p, f, t)
        BY <3>9 DEF Locked, a, u
      <4>3. Progress(p)
        BY <1>5, <3>1, <3>9, <4>1 DEF Progress, i, t
      <4> QED
        BY <3>2, <4>1, <4>2, <4>3 DEF Ends
    <3>10. CASE ~Driver.transact /\ Driver.set = <<"put">> /\ t = <<q1, u>> /\ Keep
      <4>1. t # <<>> /\ t[1] = q1
        BY <3>10
      <4>2. q1 = With("put", f, t[1].data)
        BY <3>7, <4>1 DEF q1
      <4>3. Locked(p, f, t)
        BY <3>10, <4>2 DEF Locked, u
      <4>4. Progress(p)
        BY <1>5, <3>1, <3>7, <3>10, <4>1 DEF Progress, i, t, w, f
      <4> QED
        BY <3>2, <4>1, <4>3, <4>4 DEF Ends
    <3>11. CASE ~Driver.transact /\ Driver.set # <<"put">> /\ t = <<r1, s1, u>> /\ Keep
      <4>1. t # <<>> /\ t[1] = r1
        BY <3>11
      <4>2. r1 = With("deleteRow", f, t[1].data) /\ s1 = With("insert", f, t[1].data)
        BY <3>7, <4>1 DEF r1, s1
      <4>3. Locked(p, f, t)
        BY <3>11, <4>2 DEF Locked, u
      <4>4. Progress(p)
        BY <1>5, <3>1, <3>7, <3>11, <4>1 DEF Progress, i, t, w, f
      <4> QED
        BY <3>2, <4>1, <4>3, <4>4 DEF Ends
    <3> QED
      BY <3>2, <3>8, <3>9, <3>10, <3>11
  <2> QED
    BY <2>1, <2>4, <2>5, <2>7, <2>8, <2>9
<1>12. b = WriteProgram(job[p].key) \/ (client[p].held = {f} /\ Locked(p, f, b))
  BY <1>1 DEF Writing
<1> QED
  BY <1>10, <1>11, <1>12

\* Every write is at one of its steps.
LEMMA WritingKept ==
  ASSUME Typed, Programs, Writing, NEW p \in Clients, Steps(p)
  PROVE  Writing'
<1>1. Driver' = Driver /\ job' = job
  BY DEF Steps, Same, Driver
<1> SUFFICES ASSUME NEW c \in Clients, job[c].op = "write"
             PROVE  LET f == File(job[c].key) IN
                    \/ client'[c].outcome # "none" /\ client'[c].todo = <<>>
                    \/ client'[c].outcome = "none" /\ client'[c].todo = WriteProgram(job[c].key)
                    \/ /\ client'[c].outcome = "none" /\ client'[c].held = {f}
                       /\ Locked(c, f, client'[c].todo)
  BY <1>1 DEF Writing, Running, Locked
<1>2. CASE c # p
  <2>1. /\ client'[c].todo = client[c].todo /\ client'[c].held = client[c].held
        /\ client'[c].outcome = client[c].outcome
    BY <1>2 DEF Steps, Locks, Unlocks, GoesOn, Stops, Moved
  <2> QED
    BY <2>1 DEF Writing, Running
<1>3. CASE c = p
  <2>1. Stops(c) => client'[c].outcome # "none" /\ client'[c].todo = <<>>
    BY <1>3 DEF Stops, Moved
  <2> QED
    BY <1>3, <2>1, WriteSteps
<1> QED
  BY <1>2, <1>3

\* Writes begin with their lock, and nothing is held.
LEMMA InitWriting == Init => Exclusive /\ Writing
<1> SUFFICES ASSUME Init
             PROVE  Exclusive /\ Writing
  OBVIOUS
<1>1. \A c \in Clients : /\ client[c].outcome = "none" /\ client[c].todo = Program(job[c])
                         /\ client[c].held = {}
  BY DEF Init
<1>2. Exclusive
  BY <1>1 DEF Exclusive
<1>3. \A c \in Clients : job[c].op = "write" => Program(job[c]) = WriteProgram(job[c].key)
  BY DEF Program
<1>4. Writing
  BY <1>1, <1>3 DEF Writing, Running
<1> QED
  BY <1>2, <1>4

----------------------------------------------------------------------------
(* What writes leave of each other.                                        *)

\* What a write applies to a file: its bytes stand, and those of the others
\* still do.
LEMMA WriteStands ==
  ASSUME Typed, NEW base \in [Keys -> Nat], Apart(base), NEW p \in Clients, job[p].op = "write",
         NEW b \in Seq(Byte), base[job[p].key] <= Len(b)
  PROVE  LET w == ApplyWrite(b, job[p].data, job[p].mode, job[p].at, FALSE) IN
         /\ w \in Seq(Byte) /\ base[job[p].key] <= Len(w)
         /\ Stands(base[job[p].key], job[p], w)
         /\ \A c \in Clients \ {p} :
              job[c].op = "write" /\ job[c].key = job[p].key /\ Stands(base[job[p].key], job[c], b)
                => Stands(base[job[p].key], job[c], w)
<1> DEFINE k == job[p].key
           s == base[k]
           data == job[p].data
           at == job[p].at
           pos == IF job[p].mode = "append" THEN Len(b) ELSE at
           w == WriteAt(b, pos, data)
<1>1. k \in Keys /\ data \in Seq(Byte) /\ at \in Nat /\ s \in Nat /\ Len(b) \in Nat /\ Len(data) \in Nat
  BY JobTyped, LenProperties
<1>2. job \in Jobs
  BY DEF Typed
<1>3. \A c \in Clients : job[c].op = "write" =>
        \/ job[c].mode = "append"
        \/ /\ Updates(job, c, job[c].key)
           /\ job[c].at + Len(job[c].data) <= base[job[c].key]
           /\ \A d \in Clients \ {c} : Updates(job, d, job[c].key) =>
                \/ job[c].at + Len(job[c].data) <= job[d].at
                \/ job[d].at + Len(job[d].data) <= job[c].at
  BY <1>2 DEF Apart
<1>4. job[p].mode = "append" \/ (job[p].mode = "update" /\ at + Len(data) <= s)
  BY <1>3 DEF Updates
<1>5. ApplyWrite(b, data, job[p].mode, at, FALSE) = w
  BY <1>4 DEF ApplyWrite, WritePosition
<1>6. pos \in Nat
  BY <1>1
<1>7. job[p].mode = "append" => pos = Len(b)
  OBVIOUS
<1>8. job[p].mode = "update" => pos = at
  OBVIOUS
<1> HIDE DEF pos
<1>9. /\ w \in Seq(Byte) /\ Len(w) \in Nat
      /\ Len(b) <= Len(w) /\ pos + Len(data) <= Len(w)
      /\ \A n \in 1 .. Len(data) : w[pos + n] = data[n]
      /\ \A n \in 1 .. Len(b) : n <= pos \/ pos + Len(data) < n => w[n] = b[n]
  BY <1>1, <1>6, WriteAtIs
<1> HIDE DEF w, data, at, s, k
<1>10. Places(data, pos, w)
  BY <1>9 DEF Places
<1>11. Stands(s, job[p], w)
  <2>1. CASE job[p].mode = "append"
    <3>1. pos \in s .. Len(w)
      BY <1>1, <1>6, <1>7, <1>9, <2>1 DEF s, k
    <3> QED
      BY <1>10, <2>1, <3>1 DEF Stands, data
  <2>2. CASE job[p].mode = "update"
    BY <1>8, <1>10, <2>2 DEF Stands, data, at
  <2> QED
    BY <1>4, <2>1, <2>2
<1>12. ASSUME NEW c \in Clients, c # p, job[c].op = "write", job[c].key = k, Stands(s, job[c], b)
       PROVE  Stands(s, job[c], w)
  <2> DEFINE e == job[c].data
             o == job[c].at
  <2>1. e \in Seq(Byte) /\ o \in Nat /\ Len(e) \in Nat
    BY JobTyped, LenProperties
  <2> HIDE DEF e, o
  <2>2. ASSUME NEW q \in Nat, Places(e, q, b),
               \/ job[p].mode = "append"
               \/ q + Len(e) <= pos
               \/ pos + Len(data) <= q
        PROVE  Places(e, q, w)
    <3>1. q + Len(e) <= Len(w) /\ q + Len(e) <= Len(b)
      BY <1>1, <1>9, <2>1, <2>2 DEF Places
    <3>2. ASSUME NEW n \in 1 .. Len(e)
          PROVE  w[q + n] = e[n]
      <4>1. q + n \in 1 .. Len(b)
        BY <1>1, <2>1, <3>1
      <4>2. q + n <= pos \/ pos + Len(data) < q + n
        BY <1>1, <1>6, <1>7, <2>1, <2>2, <3>1
      <4>3. b[q + n] = e[n]
        BY <2>2 DEF Places
      <4> QED
        BY <1>9, <4>1, <4>2, <4>3
    <3> QED
      BY <3>1, <3>2 DEF Places
  <2>3. CASE job[c].mode = "append"
    <3>1. PICK q \in s .. Len(b) : Places(e, q, b)
      BY <1>12, <2>3 DEF Stands, e
    <3>2. q \in Nat /\ q \in s .. Len(w)
      BY <1>1, <1>9
    <3>3. job[p].mode = "append" \/ pos + Len(data) <= q
      BY <1>1, <1>4, <1>8, <3>2
    <3>4. Places(e, q, w)
      BY <2>2, <3>1, <3>2, <3>3
    <3> QED
      BY <2>3, <3>2, <3>4 DEF Stands, e
  <2>4. CASE job[c].mode # "append"
    <3>1. Places(e, o, b)
      BY <1>12, <2>4 DEF Stands, e, o
    <3>2. job[p].mode = "append" \/ o + Len(e) <= pos \/ pos + Len(data) <= o
      <4>1. CASE job[p].mode = "update"
        <5>1. Updates(job, p, k) /\ Updates(job, c, k)
          BY <1>3, <1>12, <2>4, <4>1 DEF Updates, k
        <5>2. at + Len(data) <= o \/ o + Len(e) <= at
          BY <1>3, <1>12, <4>1, <5>1 DEF k, at, data, o, e
        <5> QED
          BY <1>8, <4>1, <5>2
      <4> QED
        BY <1>4, <4>1
    <3>3. Places(e, o, w)
      BY <2>1, <2>2, <3>1, <3>2
    <3> QED
      BY <2>4, <3>3 DEF Stands, e, o
  <2> QED
    BY <2>3, <2>4
<1>13. s <= Len(w)
  BY <1>1, <1>9 DEF s, k
<1> QED
  BY <1>5, <1>9, <1>11, <1>12, <1>13 DEF s, k, data, at

\* While one write changes a file no other is about to, if the two share a lock
\* or the driver writes in a transaction.
LEMMA AloneAtTheFile ==
  ASSUME Typed, Exclusive, Writing, shared \/ Driver.transact,
         NEW p \in Clients, NEW c \in Clients, c # p,
         job[p].op = "write", job[c].op = "write", job[p].key = job[c].key,
         NEW e \in {"transact", "put", "deleteRow", "insert"}, Doing(p, e)
  PROVE  \A g \in {"put", "deleteRow", "insert"} : ~Doing(c, g)
<1> SUFFICES ASSUME NEW g \in {"put", "deleteRow", "insert"}, Doing(c, g)
             PROVE  FALSE
  OBVIOUS
<1>1. client[p].held = {File(job[p].key)}
  BY AtTheStorage
<1>2. client[c].held = {File(job[p].key)} /\ ~Driver.transact
  BY AtTheStorage
<1> QED
  BY <1>1, <1>2 DEF Exclusive

\* Calls that stay calm were calm before.
LEMMA CalmBefore ==
  ASSUME Typed, NEW p \in Clients, Steps(p), Calm'
  PROVE  Calm
<1>1. job' = job /\ shared' = shared /\ Driver' = Driver
  BY DEF Steps, Same, Driver
<1>2. \A d \in Clients : client[d].outcome = client'[d].outcome \/ client[d].outcome = "none"
  BY DEF Steps, Running, Locks, Unlocks, GoesOn, Stops, Moved
<1> QED
  BY <1>1, <1>2 DEF Calm

\* A step that leaves the file of k as it was keeps what stands in it, if the
\* writes that have been applied are the same and the one that moved is not in
\* the middle of a replacement.
LEMMA FileUntouched ==
  ASSUME Typed, NEW base \in [Keys -> Nat], Updating(base), Calm, NEW p \in Clients, Steps(p),
         NEW k \in Keys, store'[File(k)] = store[File(k)],
         job[p].op = "write" /\ job[p].key = k =>
           /\ ~Doing(p, "insert")
           /\ Applied(p)' => Applied(p)
           /\ client'[p].todo # <<>> =>
                \/ client'[p].todo[1].do \notin {"put", "deleteRow", "insert"}
                \/ /\ client'[p].todo[1].do # "insert"
                   /\ client'[p].todo[1].data = Written(p, File(k))
  PROVE  Held(base, k)'
<1>1. job' = job
  BY DEF Steps, Same
<1>2. \A c \in Clients \ {p} :
        client'[c].todo = client[c].todo /\ client'[c].outcome = client[c].outcome
  BY DEF Steps, Locks, Unlocks, GoesOn, Stops, Moved
<1>3. Existing(File(k))' = Existing(File(k)) /\ \A c : Written(c, File(k))' = Written(c, File(k))
  BY <1>1 DEF Existing, Written
<1>4. \A c \in Clients \ {p} : Applied(c)' => Applied(c)
  BY <1>1, <1>2 DEF Applied, Running, Doing
<1>5. \A c \in Clients : job[c].key = k /\ Applied(c)' => Applied(c)
  BY <1>1, <1>4 DEF Applied
<1>6. \A b : Sound(base, k, b) => Sound(base, k, b)'
  BY <1>1, <1>5 DEF Sound
<1>7. /\ \A c \in Clients : job[c].op = "write" /\ job[c].key = k =>
           /\ Doing(c, "put") \/ Doing(c, "deleteRow") => client[c].todo[1].data = Written(c, File(k))
           /\ Doing(c, "insert") =>
                /\ Sound(base, k, client[c].todo[1].data)
                /\ Stands(base[k], job[c], client[c].todo[1].data)
      /\ (\A c \in Clients : ~(job[c].op = "write" /\ job[c].key = k /\ Doing(c, "insert")))
           => Sound(base, k, Existing(File(k)))
  BY DEF Updating, Held
<1>8. ASSUME NEW c \in Clients, job[c].op = "write", job[c].key = k
      PROVE  /\ Doing(c, "put")' \/ Doing(c, "deleteRow")' =>
                  client'[c].todo[1].data = Written(c, File(k))'
             /\ Doing(c, "insert")' => Doing(c, "insert") /\ c # p
  <2>1. CASE c = p
    BY <1>3, <1>8, <2>1 DEF Doing
  <2>2. CASE c # p
    BY <1>2, <1>3, <1>7, <1>8, <2>2 DEF Doing
  <2> QED
    BY <2>1, <2>2
<1>9. ASSUME NEW c \in Clients, job[c].op = "write", job[c].key = k, Doing(c, "insert")'
      PROVE  /\ Sound(base, k, client[c].todo[1].data)'
             /\ Stands(base[k], job[c], client'[c].todo[1].data)
  <2>1. Doing(c, "insert") /\ client'[c].todo = client[c].todo
    BY <1>2, <1>8, <1>9
  <2>2. PICK b : b = client[c].todo[1].data
    OBVIOUS
  <2>3. Sound(base, k, b)' /\ Stands(base[k], job[c], b)
    BY <1>6, <1>7, <1>9, <2>1, <2>2
  <2>4. client'[c].todo[1].data = b
    BY <2>1, <2>2
  <2> QED
    BY <2>3, <2>4
<1>10. ASSUME \A c \in Clients : ~(job[c].op = "write" /\ job[c].key = k /\ Doing(c, "insert")')
       PROVE  Sound(base, k, Existing(File(k)))'
  <2>1. ASSUME NEW c \in Clients, job[c].op = "write", job[c].key = k, Doing(c, "insert")
        PROVE  FALSE
    <3>1. c # p
      BY <2>1
    <3>2. Doing(c, "insert")'
      BY <1>2, <2>1, <3>1 DEF Doing
    <3> QED
      BY <1>10, <2>1, <3>2
  <2>2. PICK b : b = Existing(File(k))
    OBVIOUS
  <2>3. Sound(base, k, b)'
    BY <1>6, <1>7, <2>1, <2>2
  <2>4. Existing(File(k))' = b
    BY <1>3, <2>2
  <2> QED
    BY <2>3, <2>4
<1> QED
  BY <1>1, <1>8, <1>9, <1>10 DEF Held

\* What a write computes from a sound file is sound, with its own bytes in it.
LEMMA WrittenSound ==
  ASSUME Typed, NEW base \in [Keys -> Nat], Apart(base), NEW p \in Clients, job[p].op = "write",
         NEW k \in Keys, job[p].key = k, Sound(base, k, Existing(File(k)))
  PROVE  /\ Sound(base, k, Written(p, File(k)))
         /\ Stands(base[k], job[p], Written(p, File(k)))
<1> DEFINE b == Existing(File(k))
           w == Written(p, File(k))
<1>1. w = ApplyWrite(b, job[p].data, job[p].mode, job[p].at, FALSE)
  BY DEF Written
<1>2. /\ b \in Seq(Byte) /\ base[k] <= Len(b)
      /\ \A c \in Clients : Applied(c) /\ job[c].key = k => Stands(base[k], job[c], b)
  BY DEF Sound
<1> HIDE DEF b, w
<1>3. /\ w \in Seq(Byte) /\ base[k] <= Len(w) /\ Stands(base[k], job[p], w)
      /\ \A c \in Clients \ {p} :
           job[c].op = "write" /\ job[c].key = k /\ Stands(base[k], job[c], b)
             => Stands(base[k], job[c], w)
  BY <1>1, <1>2, WriteStands
<1>4. \A c \in Clients : Applied(c) /\ job[c].key = k => Stands(base[k], job[c], w)
  BY <1>2, <1>3 DEF Applied
<1> QED
  BY <1>3, <1>4 DEF Sound, w

\* What is sound stays so when the write whose bytes are in it has been applied.
LEMMA SoundAfter ==
  ASSUME NEW base \in [Keys -> Nat], NEW p \in Clients, Steps(p), NEW k \in Keys,
         NEW b, Sound(base, k, b), Stands(base[k], job[p], b)
  PROVE  Sound(base, k, b)'
<1>1. job' = job
  BY DEF Steps, Same
<1>2. \A c \in Clients \ {p} :
        client'[c].todo = client[c].todo /\ client'[c].outcome = client[c].outcome
  BY DEF Steps, Locks, Unlocks, GoesOn, Stops, Moved
<1>3. \A c \in Clients \ {p} : Applied(c)' => Applied(c)
  BY <1>1, <1>2 DEF Applied, Running, Doing
<1> QED
  BY <1>1, <1>3 DEF Sound

\* A write puts its bytes into the file: they stand there beside the others.
LEMMA WriteLands ==
  ASSUME Typed, Exclusive, Writing, NEW base \in [Keys -> Nat], Apart(base), Updating(base), Calm,
         NEW p \in Clients, Steps(p), Storage(p, First(p)), job[p].op = "write",
         NEW k \in Keys, job[p].key = k,
         NEW e \in {"transact", "put", "insert"}, Doing(p, e),
         client'[p].todo # <<>> => client'[p].todo[1].do = "unlock"
  PROVE  Held(base, k)'
<1>1. job' = job
  BY DEF Steps, Same
<1>2. \A c \in Clients \ {p} :
        client'[c].todo = client[c].todo /\ client'[c].outcome = client[c].outcome
  BY DEF Steps, Locks, Unlocks, GoesOn, Stops, Moved
<1>3. \A c \in Clients \ {p} : job[c].op = "write" /\ job[c].key = k =>
        \A g \in {"put", "deleteRow", "insert"} : ~Doing(c, g)
  BY AloneAtTheFile DEF Calm
<1>4. ASSUME NEW c \in Clients, job[c].op = "write", job[c].key = k,
             NEW g \in {"put", "deleteRow", "insert"}
      PROVE  ~Doing(c, g)'
  <2>1. CASE c = p
    BY <2>1 DEF Doing
  <2>2. CASE c # p
    BY <1>2, <1>3, <1>4, <2>2 DEF Doing
  <2> QED
    BY <2>1, <2>2
<1>5. First(p).path = File(k) /\ First(p).do = e /\ Fits(p, First(p)) /\ File(k) \in Files
  BY AtTheStorage, PathFacts DEF Doing, First, Steps
<1>6. PICK w : store'[File(k)] = w
  OBVIOUS
<1>7. w # NoRecord /\ Changes(p, First(p))
  BY <1>5, <1>6, StorageEffect DEF Changes
<1>8. Held(base, k)
  BY DEF Updating
<1>9. Sound(base, k, w) /\ Stands(base[k], job[p], w)
  <2>1. CASE e = "insert"
    <3>1. w = First(p).data
      BY <1>5, <1>6, <1>7, <2>1 DEF Changes
    <3> QED
      BY <1>8, <2>1, <3>1 DEF Held, First
  <2>2. CASE e # "insert"
    <3>1. ~Doing(p, "insert")
      BY <2>2 DEF Doing
    <3>2. Sound(base, k, Existing(File(k)))
      BY <1>3, <1>8, <3>1 DEF Held
    <3>3. e = "put" => First(p).data = Written(p, File(k))
      BY <1>8 DEF Held, First
    <3>4. w = Written(p, File(k))
      BY <1>5, <1>6, <1>7, <2>2, <3>3 DEF Changes
    <3> QED
      BY <3>2, <3>4, WrittenSound
  <2> QED
    BY <2>1, <2>2
<1>10. Sound(base, k, w)'
  BY <1>9, SoundAfter
<1>11. Existing(File(k))' = w
  BY <1>6, <1>7 DEF Existing
<1> QED
  BY <1>1, <1>4, <1>10, <1>11 DEF Held

\* A write that has deleted its row has what it is about to insert.
LEMMA WriteDeletes ==
  ASSUME Typed, Exclusive, Writing, NEW base \in [Keys -> Nat], Apart(base), Updating(base), Calm,
         NEW p \in Clients, Steps(p), job[p].op = "write", NEW k \in Keys, job[p].key = k,
         Doing(p, "deleteRow"), client'[p].todo # <<>>, client'[p].todo[1].do = "insert",
         client'[p].todo[1].data = First(p).data
  PROVE  Held(base, k)'
<1>1. job' = job
  BY DEF Steps, Same
<1>2. \A c \in Clients \ {p} :
        client'[c].todo = client[c].todo /\ client'[c].outcome = client[c].outcome
  BY DEF Steps, Locks, Unlocks, GoesOn, Stops, Moved
<1>3. \A c \in Clients \ {p} : job[c].op = "write" /\ job[c].key = k =>
        \A g \in {"put", "deleteRow", "insert"} : ~Doing(c, g)
  BY AloneAtTheFile DEF Calm
<1>4. ASSUME NEW c \in Clients \ {p}, job[c].op = "write", job[c].key = k,
             NEW g \in {"put", "deleteRow", "insert"}
      PROVE  ~Doing(c, g)'
  BY <1>2, <1>3, <1>4 DEF Doing
<1>5. Doing(p, "insert")' /\ ~Doing(p, "put")' /\ ~Doing(p, "deleteRow")' /\ ~Doing(p, "insert")
  BY DEF Doing
<1>6. Held(base, k)
  BY DEF Updating
<1>7. PICK w : w = First(p).data
  OBVIOUS
<1>8. Sound(base, k, Existing(File(k))) /\ w = Written(p, File(k))
  BY <1>3, <1>5, <1>6, <1>7 DEF Held, First
<1>9. Sound(base, k, w) /\ Stands(base[k], job[p], w)
  BY <1>8, WrittenSound
<1>10. Sound(base, k, w)'
  BY <1>9, SoundAfter
<1>11. client'[p].todo[1].data = w
  BY <1>7
<1> QED
  BY <1>1, <1>4, <1>5, <1>9, <1>10, <1>11 DEF Held

\* Every step of a write keeps what stands in its own file.
LEMMA OwnFileKept ==
  ASSUME Typed, Programs, Exclusive, Writing, NEW base \in [Keys -> Nat], Apart(base),
         Updating(base), Calm, Calm', NEW p \in Clients, Steps(p), job[p].op = "write",
         NEW k \in Keys, job[p].key = k
  PROVE  Held(base, k)'
<1>1. job' = job /\ Driver' = Driver
  BY DEF Steps, Same, Driver
<1>2. Running(p) /\ client[p].todo # <<>> /\ First(p) = client[p].todo[1]
  BY DEF Steps, First
<1>3. \A e : Doing(p, e) <=> First(p).do = e
  BY <1>2 DEF Doing
<1>4. File(k) \in Files /\ File(k) \in Paths
  BY PathFacts
<1>5. CASE Keep /\ ~Doing(p, "insert") /\ client'[p].todo = <<>>
           /\ (client'[p].outcome = "done" => First(p).do = "unlock")
  <2>1. store'[File(k)] = store[File(k)]
    BY <1>5 DEF Keep
  <2>2. Applied(p)' => Applied(p)
    BY <1>1, <1>2, <1>3, <1>5 DEF Applied, Doing
  <2> QED
    BY <1>5, <2>1, <2>2, FileUntouched
<1>6. CASE Stops(p)
  <2>1. PICK outcome \in {"done", "failed", "crashed"} :
          /\ Moved(p, <<>>, {}, {}, outcome)
          /\ outcome = "done" => job[p].op = "keys"
          /\ \/ Keep
             \/ First(p).do \notin {"lock", "unlock", "next"} /\ Storage(p, First(p))
    BY <1>6 DEF Stops
  <2>2. client'[p].todo = <<>> /\ client'[p].outcome = outcome /\ outcome \in {"failed", "crashed"}
    BY <2>1 DEF Moved
  <2>3. Driver.replacement = "atomic"
    BY <1>1, <2>2 DEF Calm
  <2>4. ~Doing(p, "insert") /\ ~Doing(p, "deleteRow")
    BY <2>3, AtTheStorage
  <2>5. CASE Keep
    BY <1>5, <2>2, <2>4, <2>5
  <2>6. CASE Storage(p, First(p)) /\ ~Keep
    <3>1. First(p).do \in {"put", "transact", "insert", "delete", "deleteRow"}
      BY <2>6 DEF Storage
    <3>2. First(p).do # "delete"
      <4>1. First(p).do \in Deeds.write
        BY DEF Steps, Fits
      <4> QED
        BY <4>1 DEF Deeds
    <3>3. First(p).do \in {"put", "transact"}
      BY <1>3, <2>4, <3>1, <3>2
    <3>4. PICK e \in {"put", "transact"} : Doing(p, e)
      BY <1>3, <3>3
    <3> QED
      BY <2>2, <2>6, <3>4, WriteLands
  <2> QED
    BY <2>1, <2>5, <2>6
<1>7. CASE First(p).do = "unlock" /\ Keep /\ client'[p].todo = <<>> /\ client'[p].outcome = "done"
  BY <1>3, <1>5, <1>7
<1>8. CASE client'[p].outcome = "none" /\ Progress(p)
  <2> DEFINE t == client'[p].todo
             i == First(p)
  <2>1. CASE i.do \in {"lock", "parent"} /\ Keep /\ t # <<>> /\ t[1].do \in {"parent", "write"}
    <3>1. store'[File(k)] = store[File(k)] /\ ~Doing(p, "insert")
      BY <1>3, <2>1 DEF Keep
    <3>2. ~Applied(p)'
      BY <1>8, <2>1 DEF Applied, Doing
    <3>3. t[1].do \notin {"put", "deleteRow", "insert"}
      BY <2>1
    <3> QED
      BY <3>1, <3>2, <3>3, FileUntouched
  <2>2. CASE /\ i.do = "write" /\ Keep /\ t # <<>>
             /\ \/ t[1].do = "transact"
                \/ t[1].do \in {"put", "deleteRow"} /\ t[1].data = Written(p, File(k))
    <3>1. store'[File(k)] = store[File(k)] /\ ~Doing(p, "insert")
      BY <1>3, <2>2 DEF Keep
    <3>2. ~Applied(p)'
      BY <1>8, <2>2 DEF Applied, Doing
    <3>3. \/ t[1].do \notin {"put", "deleteRow", "insert"}
          \/ t[1].do # "insert" /\ t[1].data = Written(p, File(k))
      BY <2>2
    <3> QED
      BY <3>1, <3>2, <3>3, FileUntouched
  <2>3. CASE i.do \in {"transact", "put", "insert"} /\ Storage(p, i) /\ t # <<>> /\ t[1].do = "unlock"
    <3>1. PICK e \in {"transact", "put", "insert"} : Doing(p, e)
      BY <1>3, <2>3
    <3> QED
      BY <2>3, <3>1, WriteLands
  <2>4. CASE i.do = "deleteRow" /\ t # <<>> /\ t[1].do = "insert" /\ t[1].data = i.data
    BY <1>3, <2>4, WriteDeletes
  <2> QED
    BY <1>8, <2>1, <2>2, <2>3, <2>4 DEF Progress
<1> QED
  BY <1>6, <1>7, <1>8, WriteSteps

\* Every step keeps what stands in the files.
LEMMA UpdatingKept ==
  ASSUME Typed, Programs, Exclusive, Writing, NEW base \in [Keys -> Nat], Apart(base),
         Updating(base), NEW p \in Clients, Steps(p)
  PROVE  Updating(base)'
<1> SUFFICES ASSUME Calm', NEW k \in Keys
             PROVE  Held(base, k)'
  BY DEF Updating
<1>1. Calm
  BY CalmBefore
<1>2. CASE job[p].op = "write" /\ job[p].key = k
  BY <1>1, <1>2, OwnFileKept
<1>3. CASE ~(job[p].op = "write" /\ job[p].key = k)
  <2>1. store'[File(k)] = store[File(k)]
    <3>1. CASE Keep
      BY <3>1 DEF Keep
    <3>2. CASE ~Keep
      <4>1. Storage(p, First(p)) /\ Fits(p, First(p))
        BY <3>2 DEF Steps, Locks, Unlocks, GoesOn, Stops
      <4>2. First(p).do \in {"put", "insert", "transact", "delete", "deleteRow"}
        BY <3>2, <4>1 DEF Storage
      <4>3. job[p].op = "write"
        <5>1. First(p).do \in Deeds[job[p].op] /\ job[p].op \in {"keys", "get", "write"}
          BY <1>1, <4>1 DEF Fits, Calm
        <5> QED
          BY <4>2, <5>1 DEF Deeds
      <4>4. First(p).do \in {"put", "insert", "transact", "deleteRow"}
        <5>1. First(p).do \in Deeds.write
          BY <4>1, <4>3 DEF Fits
        <5> QED
          BY <4>2, <5>1 DEF Deeds
      <4>5. PICK e \in {"put", "insert", "transact", "deleteRow"} : Doing(p, e)
        BY <4>4 DEF Doing, First, Steps
      <4>6. First(p).path = File(job[p].key)
        BY <4>3, <4>5, AtTheStorage
      <4>7. job[p].key # k /\ job[p].key \in Keys
        BY <1>3, <4>3, JobTyped
      <4>8. File(job[p].key) # File(k) /\ File(k) \in Paths
        BY <4>7, PathFacts, PathsApart
      <4> QED
        BY <4>1, <4>6, <4>8, StorageEffect
    <3> QED
      BY <3>1, <3>2
  <2> QED
    BY <1>1, <1>3, <2>1, FileUntouched
<1> QED
  BY <1>2, <1>3

\* At first no write has been applied, and the base is within what is stored.
LEMMA InitUpdating ==
  ASSUME NEW base \in [Keys -> Nat], Apart(base)
  PROVE  Init => Updating(base)
<1> SUFFICES ASSUME Init, NEW k \in Keys
             PROVE  Held(base, k)
  BY DEF Updating
<1>1. Typed
  BY InitTyped
<1>2. \A c \in Clients : client[c].outcome = "none" /\ client[c].todo = Program(job[c])
  BY DEF Init
<1>3. ASSUME NEW c \in Clients, job[c].op = "write"
      PROVE  /\ \A e \in {"put", "deleteRow", "insert"} : ~Doing(c, e)
             /\ ~Applied(c)
  <2> DEFINE f == File(job[c].key)
             x == I("lock", f)
             y == I("parent", f)
             z == I("write", f)
             u == I("unlock", Root)
  <2>1. client[c].todo = <<x, y, z, u>> /\ x.do = "lock"
    BY <1>2, <1>3 DEF Program, WriteProgram, I
  <2> HIDE DEF x, y, z, u
  <2>2. <<x, y, z, u>>[1] = x
    OBVIOUS
  <2>3. client[c].todo[1].do = "lock"
    BY <2>1, <2>2
  <2> QED
    BY <1>2, <2>3 DEF Doing, Applied
<1>4. Existing(File(k)) \in Seq(Byte)
  <2>1. File(k) \in Paths /\ File(k) \notin Dirs
    BY PathFacts, PathKinds
  <2>2. store[File(k)] \in Seq(Byte) \cup {NoRecord}
    BY <1>1, <2>1 DEF Typed, Record
  <2> QED
    BY <2>2, DataFacts DEF Existing
<1>5. base[k] <= Len(Existing(File(k)))
  <2>1. base[k] <= IF store[File(k)] = NoRecord THEN 0 ELSE Len(store[File(k)])
    BY DEF Init, Apart
  <2>2. Len(<<>>) = 0
    OBVIOUS
  <2> QED
    BY <2>1, <2>2 DEF Existing
<1> QED
  BY <1>3, <1>4, <1>5 DEF Held, Sound, Applied

\* Nothing of it changes in a stutter.
LEMMA StutterUpdating ==
  ASSUME NEW base \in [Keys -> Nat], Exclusive, Writing, Updating(base), UNCHANGED vars
  PROVE  Exclusive' /\ Writing' /\ Updating(base)'
<1>1. Exclusive'
  BY DEF Exclusive, vars
<1>2. Writing'
  BY DEF Writing, Running, Locked, Driver, vars
<1>3. Updating(base)'
  <2>1. /\ Driver' = Driver /\ shared' = shared /\ job' = job /\ store' = store /\ client' = client
    BY DEF vars, Driver
  <2>2. Calm' => Calm
    BY <2>1 DEF Calm
  <2>3. ASSUME NEW k \in Keys, Held(base, k)
        PROVE  Held(base, k)'
    <3>1. \A c : Applied(c)' => Applied(c)
      BY <2>1 DEF Applied, Running, Doing
    <3>2. \A b : Sound(base, k, b) => Sound(base, k, b)'
      BY <2>1, <3>1 DEF Sound
    <3>3. PICK b : b = Existing(File(k))
      OBVIOUS
    <3>4. Existing(File(k))' = b /\ \A c : Written(c, File(k))' = Written(c, File(k))
      BY <2>1, <3>3 DEF Existing, Written
    <3>5. Sound(base, k, b) => Sound(base, k, Existing(File(k)))'
      BY <3>2, <3>4
    <3>6. \A c, e : Doing(c, e)' <=> Doing(c, e)
      BY <2>1 DEF Doing
    <3> QED
      BY <2>1, <2>3, <3>2, <3>3, <3>4, <3>5, <3>6 DEF Held
  <2> QED
    BY <2>2, <2>3 DEF Updating
<1> QED
  BY <1>1, <1>2, <1>3

\* What stands in a file is among its bytes.
LEMMA UpdatesStand ==
  ASSUME Typed, Programs, NEW base \in [Keys -> Nat], Updating(base)
  PROVE  NoLostUpdate
<1> SUFFICES ASSUME NEW c \in Clients, Done(c, {"write"}), shared \/ Driver.transact,
                    \A d \in Clients :
                      \/ job[d].op \in {"keys", "get"}
                      \/ Done(d, {"write"})
                      \/ job[d].op = "write" /\ ~Running(d) /\ Driver.replacement = "atomic"
             PROVE  ToSet(job[c].data) \subseteq ToSet(Existing(File(job[c].key)))
  BY DEF NoLostUpdate
<1> DEFINE k == job[c].key
           data == job[c].data
           b == Existing(File(k))
<1>1. Calm
  BY DEF Calm, Done
<1>2. k \in Keys /\ data \in Seq(Byte) /\ job[c].at \in Nat /\ Len(data) \in Nat /\ base[k] \in Nat
  BY JobTyped, LenProperties
<1>3. \A d \in Clients : job[d].op = "write" => ~Doing(d, "insert")
  BY DEF Doing, Done, Running, Programs
<1>4. Sound(base, k, b) /\ Applied(c)
  BY <1>1, <1>2, <1>3 DEF Updating, Held, Applied, Done
<1>5. b \in Seq(Byte) /\ Len(b) \in Nat /\ Stands(base[k], job[c], b)
  BY <1>4, LenProperties DEF Sound
<1> HIDE DEF b, k, data
<1>6. PICK at \in Nat : Places(data, at, b)
  BY <1>2, <1>5 DEF Stands, data
<1>7. ASSUME NEW n \in 1 .. Len(data)
      PROVE  data[n] \in ToSet(b)
  <2>1. at + n \in 1 .. Len(b) /\ b[at + n] = data[n]
    BY <1>2, <1>5, <1>6 DEF Places
  <2>2. \A m \in 1 .. Len(b) : b[m] \in ToSet(b)
    BY <1>5 DEF ToSet
  <2> QED
    BY <2>1, <2>2
<1>8. ToSet(data) = {data[n] : n \in 1 .. Len(data)}
  BY <1>2 DEF ToSet
<1> QED
  BY <1>7, <1>8 DEF data, b, k

\* NoLostUpdate (RecordAdapter.writeFile): whatever bytes the files begin with
\* and wherever in them the updates go, as long as they are apart, an append or
\* update that has returned is in its file after any other appends and updates,
\* under one lock coordinator or in one transaction each.
THEOREM UpdatesAreKept ==
  ASSUME NEW base \in [Keys -> Nat], Apart(base)
  PROVE  Spec => []NoLostUpdate
<1> DEFINE IInv == Exclusive /\ Writing /\ Updating(base)
<1>1. Init => IInv
  BY InitWriting, InitUpdating
<1>2. Typed /\ Programs /\ IInv /\ [Next]_vars => IInv'
  <2> SUFFICES ASSUME Typed, Programs, IInv, [Next]_vars
               PROVE  IInv'
    OBVIOUS
  <2>1. CASE Next
    <3>1. PICK p \in Clients : Steps(p)
      BY <2>1, NextSteps
    <3> QED
      BY <3>1, ExclusiveKept, WritingKept, UpdatingKept
  <2>2. CASE UNCHANGED vars
    BY <2>2, StutterUpdating
  <2> QED
    BY <2>1, <2>2
<1>3. Typed /\ Programs /\ IInv => NoLostUpdate
  BY UpdatesStand
<1> QED
  BY <1>1, <1>2, <1>3, TypeCorrect, PTL DEF Spec
=============================================================================
