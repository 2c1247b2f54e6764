------------------------------ MODULE Records ------------------------------
(***************************************************************************)
(* The record drivers (src/driver/indexeddb.ts, localstorage.ts, cache.ts, *)
(* unstorage.ts, rxdb.ts, drizzle.ts, db0.ts, sqlite.ts) under the record  *)
(* adapter, and the key-value bridge (src/bridge/kv.ts) over them.  What   *)
(* tells the drivers apart is what of a call is one step of the storage:   *)
(* whether a set replaces in place, whether a read-modify-write is one     *)
(* transaction, and whether a listing is a snapshot.                       *)
(*                                                                         *)
(* A key is a directory with a file in it.  As in Facade a call is a       *)
(* program, the awaits it has left; the locks are those of MutationLocks,  *)
(* which two clients share only if they have one coordinator.              *)
(***************************************************************************)
EXTENDS ByteFiles, FiniteSets, SequencesExt

CONSTANTS
  Clients,
  Keys,      \* keys of the bridge
  Byte,      \* what a file is made of
  Backends,  \* drivers to choose from
  Jobs,      \* the calls the clients make: functions from Clients
  Stores,    \* what the storage may hold at first: path -> record
  Directory, \* the record of a directory
  NoRecord

VARIABLES
  backend,  \* the driver
  shared,   \* whether the clients share a lock coordinator
  job,      \* client -> the call it makes
  store,    \* path -> Directory, the bytes of a file, or NoRecord
  order,    \* of localStorage: the stored paths in the order of its keys
  client    \* client -> its program and what it has seen

vars == <<backend, shared, job, store, order, client>>

Root == <<>>

Dir(k) == <<k>>

File(k) == <<k, "value">>

Paths == {Dir(k) : k \in Keys} \cup {File(k) : k \in Keys}

Ops == {"set", "write", "remove", "emptyDir", "clear", "keys", "get"}

Call ==
  [op : Ops, key : Keys, data : Seq(Byte), mode : {"replace", "append", "update"}, at : Nat]

\* The bridge keeps each value in a directory of its own.
IsTree(s) ==
  /\ s \in [Paths -> {Directory, NoRecord} \cup Seq(Byte)]
  /\ \A k \in Keys :
       /\ s[Dir(k)] \in {Directory, NoRecord} /\ s[File(k)] # Directory
       /\ s[File(k)] # NoRecord => s[Dir(k)] = Directory

ASSUME RecordsAssumption ==
  /\ Backends \subseteq
       {"indexeddb", "localstorage", "cache", "unstorage", "rxdb", "drizzle", "db0", "sqlite"}
  /\ IsFiniteSet(Keys)
  /\ 0 \in Byte
  /\ Directory # NoRecord /\ Directory \notin Seq(Byte) /\ NoRecord \notin Seq(Byte)
  /\ Jobs \subseteq [Clients -> Call]
  /\ \A s \in Stores : IsTree(s)

IsDir(f) == f = Root \/ store[f] = Directory

IsFile(f) == f # Root /\ store[f] \notin {Directory, NoRecord}

Children(f) == {g \in Paths : store[g] # NoRecord /\ Front(g) = f}

----------------------------------------------------------------------------
(* The drivers: what they declare of a replacement, the steps of a set and *)
(* of a delete, whether they have a writeFile of their own, and a listing, *)
(* which yields the records as they were ("records"), every key that was   *)
(* there if it still is ("keys"), or what key(index) gives ("index").      *)

IndexedDb ==
  [replacement |-> "atomic", set |-> <<"put">>, delete |-> "delete", list |-> "records",
   transact |-> TRUE]

LocalStorage ==
  [replacement |-> "atomic", set |-> <<"put">>, delete |-> "delete", list |-> "index",
   transact |-> FALSE]

Cache ==
  [replacement |-> "atomic", set |-> <<"put">>, delete |-> "delete", list |-> "keys",
   transact |-> FALSE]

Unstorage ==
  [replacement |-> "best-effort", set |-> <<"put">>, delete |-> "delete", list |-> "keys",
   transact |-> FALSE]

\* The document is looked for before it is removed.
RxDb ==
  [replacement |-> "atomic", set |-> <<"put">>, delete |-> "find", list |-> "records",
   transact |-> FALSE]

Drizzle ==
  [replacement |-> "best-effort", set |-> <<"deleteRow", "insert">>, delete |-> "delete",
   list |-> "records", transact |-> FALSE]

Db0 ==
  [replacement |-> "atomic", set |-> <<"put">>, delete |-> "delete", list |-> "records",
   transact |-> FALSE]

Sqlite == Db0

Drivers ==
  [indexeddb |-> IndexedDb, localstorage |-> LocalStorage, cache |-> Cache,
   unstorage |-> Unstorage, rxdb |-> RxDb, drizzle |-> Drizzle, db0 |-> Db0, sqlite |-> Sqlite]

Driver == Drivers[backend]

----------------------------------------------------------------------------
(* Programs.                                                               *)

I(do, f) == [do |-> do, path |-> f, data |-> <<>>, rest |-> <<>>, at |-> 0]

\* facade.writeFile with parents, in replace mode, of a bridge value.
SetProgram(k) ==
  <<I("lock", File(k)), I("ensure", Dir(k)), I("parent", File(k)), I("write", File(k)),
    I("unlock", Root)>>

WriteProgram(k) ==
  <<I("lock", File(k)), I("parent", File(k)), I("write", File(k)), I("unlock", Root)>>

\* facade.remove, each with a tree lock of its own.
RemoveProgram(f) == <<I("lock", Root), I("remove", f), I("unlock", Root)>>

\* emptyDir, one removal at a time.
EmptyProgram == <<I("lock", Root), I("list", Root), I("unlock", Root)>>

\* clear with preserveExact lists without a lock; keys walks.
ClearProgram == <<I("list", Root)>>

KeysProgram == <<I("list", Root)>>

Program(j) ==
  CASE j.op = "set" -> SetProgram(j.key)
    [] j.op = "write" -> WriteProgram(j.key)
    [] j.op = "remove" -> RemoveProgram(File(j.key))
    [] j.op = "emptyDir" -> EmptyProgram
    [] j.op = "clear" -> ClearProgram
    [] j.op = "keys" -> KeysProgram
    [] j.op = "get" -> <<I("read", File(j.key))>>

----------------------------------------------------------------------------
(* One await: what it leaves to do.                                        *)

Refuses(i) ==
  \/ i.do = "parent" /\ ~IsDir(Front(i.path))
  \/ i.do \in {"ensure", "createDir"} /\ IsFile(i.path)
  \/ i.do \in {"write", "transact"} /\ store[i.path] = Directory
  \/ i.do = "insert" /\ store[i.path] # NoRecord
  \/ i.do = "list" /\ ~IsDir(i.path)

\* Mutant: every driver replaces in two steps.
SetInTwo(i) == <<[i EXCEPT !.do = "deleteRow"], [i EXCEPT !.do = "insert"]>>

Set(i) == [n \in DOMAIN Driver.set |-> [i EXCEPT !.do = Driver.set[n]]]

Delete(f) == <<I(Driver.delete, f)>>

Existing(f) == IF store[f] = NoRecord THEN <<>> ELSE store[f]

Written(c, f) == ApplyWrite(Existing(f), job[c].data, job[c].mode, job[c].at, FALSE)

\* Mutant: IndexedDB reads in a transaction of its own.
WriteInTwo(c, i) == Set([i EXCEPT !.data = Written(c, i.path)])

\* RecordAdapter.writeFile: the driver's own writeFile, or get, apply, set.
WriteFile(c, i) ==
  IF Driver.transact THEN <<[i EXCEPT !.do = "transact"]>>
  ELSE Set([i EXCEPT !.data = Written(c, i.path)])

\* RecordAdapter.createDir looks again before it sets.
CreateDir(i) == IF store[i.path] = NoRecord THEN Set([i EXCEPT !.data = Directory]) ELSE <<>>

\* #removeUnlocked: a listing is collected before its entries are removed.
RemoveUnlocked(i) ==
  IF store[i.path] = NoRecord THEN <<>>
  ELSE IF IsFile(i.path) THEN Delete(i.path)
  ELSE <<[i EXCEPT !.do = "collect"]>>

\* Mutant: a directory goes without its entries.
CollectNothing(i) == Delete(i.path)

Collect(i) ==
  LET q == SetToSeq(Children(i.path)) IN
  [n \in DOMAIN q |-> I("remove", q[n])] \o Delete(i.path)

\* A listing opens: a snapshot, or the first index of localStorage.
OpenList(i) ==
  <<[i EXCEPT !.do = "next",
              !.rest = IF Driver.list = "index" THEN <<>> ELSE SetToSeq(Children(i.path))]>>

\* What the caller does with an entry before it asks for the next.
Use(c, f) ==
  CASE job[c].op = "keys" -> IF Len(f) = 1 THEN <<I("list", f)>> ELSE <<>>
    [] job[c].op = "emptyDir" -> <<I("remove", f)>>
    [] job[c].op = "clear" -> RemoveProgram(f)

\* Whether the listing yields the path it has come to.
Yields(i, f) == Driver.list = "records" \/ (store[f] # NoRecord /\ Front(f) = i.path)

\* The path that a listing has come to.
Current(i) ==
  LET q == IF Driver.list = "index" THEN order ELSE i.rest
      n == IF Driver.list = "index" THEN i.at + 1 ELSE 1
  IN  IF n \in DOMAIN q THEN <<q[n]>> ELSE <<>>

\* Mutant: a listing of keys ends at a record that has gone.
NextUntilGone(c, i) ==
  IF Current(i) = <<>> \/ ~Yields(i, Head(Current(i))) THEN <<>>
  ELSE Use(c, Head(Current(i))) \o
       <<IF Driver.list = "index" THEN [i EXCEPT !.at = @ + 1]
         ELSE [i EXCEPT !.rest = Tail(@)]>>

\* The entry goes to the caller, which uses it before it asks for the next.
NextEntry(c, i) ==
  LET f == Head(Current(i)) IN
  IF Current(i) = <<>> THEN <<>>
  ELSE (IF Yields(i, f) THEN Use(c, f) ELSE <<>>) \o
       <<IF Driver.list = "index" THEN [i EXCEPT !.at = @ + 1]
         ELSE [i EXCEPT !.rest = Tail(@)]>>

After(c, i) ==
  CASE i.do = "ensure" -> IF store[i.path] = NoRecord THEN <<[i EXCEPT !.do = "createDir"]>> ELSE <<>>
    [] i.do = "createDir" -> CreateDir(i)
    [] i.do = "write" -> WriteFile(c, i)
    [] i.do = "remove" -> RemoveUnlocked(i)
    [] i.do = "collect" -> Collect(i)
    [] i.do = "find" -> IF store[i.path] = NoRecord THEN <<>> ELSE <<I("delete", i.path)>>
    [] i.do = "list" -> OpenList(i)
    [] i.do = "next" -> NextEntry(c, i)
    [] OTHER -> <<>>

\* The keys that a step of a listing lets its caller see.
Sees(i) ==
  IF i.do # "next" THEN {}
  ELSE {Head(f) : f \in {g \in ToSet(Current(i)) : Yields(i, g) /\ Len(g) = 2}}

----------------------------------------------------------------------------
(* The storage.                                                            *)

\* A new key may come anywhere in the order of the user agent.
Inserted(f) ==
  IF Driver.list # "index" \/ f \in ToSet(order) THEN {order}
  ELSE {InsertAt(order, n, f) : n \in 1 .. Len(order) + 1}

Keep == UNCHANGED <<store, order>>

Put(f, record) == store' = [store EXCEPT ![f] = record] /\ order' \in Inserted(f)

Without(f) ==
  IF f \in ToSet(order) THEN RemoveAt(order, CHOOSE n \in DOMAIN order : order[n] = f) ELSE order

Erase(f) == store' = [store EXCEPT ![f] = NoRecord] /\ order' = Without(f)

Storage(c, i) ==
  \/ i.do \in {"put", "insert"} /\ Put(i.path, i.data)
  \/ i.do = "transact" /\ Put(i.path, Written(c, i.path))
  \/ i.do \in {"delete", "deleteRow"} /\ Erase(i.path)
  \/ i.do \notin {"put", "insert", "transact", "delete", "deleteRow", "lock", "unlock"} /\ Keep

----------------------------------------------------------------------------
(* The steps of a call.                                                    *)

At(c, dos) == client[c].todo # <<>> /\ Head(client[c].todo).do \in dos

Running(c) == client[c].outcome = "none"

\* Readers and writers of one path, and whoever holds the tree, exclude.
MayHold(c, f) ==
  shared => \A d \in Clients \ {c} :
    ~\E g \in client[d].held : g \in {Root, f} \/ f = Root

\* What changed under a call that lists or clears: a listing misses nothing
\* that stays, unless a directory goes or localStorage is reordered; a removal
\* answers only for what others left alone.
StillWatched(p, d) ==
  IF job[d].op = "keys"
  THEN IF \/ \E k \in Keys : store[Dir(k)] # NoRecord /\ store'[Dir(k)] = NoRecord
          \/ Driver.list = "index" /\ order' # order
       THEN {} ELSE {k \in client[d].watch : store'[File(k)] # NoRecord}
  ELSE {k \in client[d].watch : p = d \/ store'[File(k)] = store[File(k)]}

\* Client p has done a step: the program todo is left, and the locks held.
Step(p, todo, held, seen, outcome) ==
  client' = [d \in Clients |->
    [client[d] EXCEPT
       !.watch = StillWatched(p, d),
       !.todo = IF d = p THEN todo ELSE @,
       !.held = IF d = p THEN held ELSE @,
       !.seen = IF d = p THEN @ \cup seen ELSE @,
       !.outcome = IF d = p THEN outcome ELSE @]]

Continue(p, todo, held, seen) ==
  Step(p, todo, held, seen, IF todo = <<>> THEN "done" ELSE "none")

\* The call is left through its finally.
Leave(p, outcome) == Step(p, <<>>, {}, {}, outcome)

\* localStorage lists its keys in some order; the others have none.
Orders(S) == IF Driver.list = "index" THEN SetToSeqs(S) ELSE {<<>>}

Init ==
  /\ backend \in Backends
  /\ shared \in BOOLEAN
  /\ job \in Jobs
  /\ store \in Stores
  /\ order \in Orders({f \in Paths : store[f] # NoRecord})
  /\ client = [c \in Clients |->
       [todo |-> Program(job[c]), held |-> {}, seen |-> {}, outcome |-> "none",
        watch |-> {k \in Keys : store[File(k)] # NoRecord}]]

Lock(c) ==
  /\ Running(c) /\ At(c, {"lock"}) /\ MayHold(c, Head(client[c].todo).path)
  /\ Keep
  /\ Continue(c, Tail(client[c].todo), {Head(client[c].todo).path}, {})

Unlock(c) ==
  /\ Running(c) /\ At(c, {"unlock"})
  /\ Keep
  /\ Continue(c, Tail(client[c].todo), {}, {})

Await(c) ==
  LET i == Head(client[c].todo) IN
  /\ Running(c) /\ client[c].todo # <<>> /\ ~Refuses(i)
  /\ Storage(c, i)
  /\ Continue(c, After(c, i) \o Tail(client[c].todo), client[c].held, Sees(i))

\* The call throws and leaves through its finally; keys swallows a directory
\* that has gone and returns what it has.
Throw(c) ==
  /\ Running(c) /\ client[c].todo # <<>> /\ ~At(c, {"lock", "unlock"})
  /\ Refuses(Head(client[c].todo))
  /\ Keep
  /\ Leave(c, IF job[c].op = "keys" THEN "done" ELSE "failed")

\* The storage fails the step, done or not: an aborted transaction, a statement
\* that is not confirmed, a quota.
Fail(c) ==
  LET i == Head(client[c].todo) IN
  /\ Running(c) /\ client[c].todo # <<>> /\ ~At(c, {"lock", "unlock", "next"})
  /\ ~Refuses(i)
  /\ Storage(c, i) \/ Keep
  /\ Leave(c, "failed")

\* The process of a client ends.
Crash(c) ==
  /\ ~shared /\ Running(c)
  /\ Keep
  /\ Leave(c, "crashed")

Next ==
  \E c \in Clients :
    /\ Lock(c) \/ Unlock(c) \/ Await(c) \/ Throw(c) \/ Fail(c) \/ Crash(c)
    /\ UNCHANGED <<backend, shared, job>>

Spec == Init /\ [][Next]_vars

----------------------------------------------------------------------------
(* Properties.                                                             *)

Done(c, ops) == client[c].outcome = "done" /\ job[c].op \in ops

\* base[k] bytes of the value of k are there from the start; updates stay
\* within them and apart from each other, and the other writes append.
Updates(j, c, k) == j[c].op = "write" /\ j[c].key = k /\ j[c].mode = "update"

Apart(base) ==
  /\ \A s \in Stores, k \in Keys :
       base[k] <= IF s[File(k)] = NoRecord THEN 0 ELSE Len(s[File(k)])
  /\ \A j \in Jobs, c \in Clients : j[c].op = "write" =>
       \/ j[c].mode = "append"
       \/ /\ Updates(j, c, j[c].key)
          /\ j[c].at + Len(j[c].data) <= base[j[c].key]
          /\ \A d \in Clients \ {c} : Updates(j, d, j[c].key) =>
               \/ j[c].at + Len(j[c].data) <= j[d].at
               \/ j[d].at + Len(j[d].data) <= j[c].at

\* RecordAdapter.writeFile reads, applies and sets: an append or update that
\* returned is in the file, whatever other appends and updates ran, if the
\* owners share the lock or the driver's write is one transaction; one that
\* failed takes nothing away either, where replacement is atomic.
NoLostUpdate ==
  \A c \in Clients :
    /\ Done(c, {"write"}) /\ (shared \/ Driver.transact)
    /\ \A d \in Clients :
         \/ job[d].op \in {"keys", "get"}
         \/ Done(d, {"write"})
         \/ job[d].op = "write" /\ ~Running(d) /\ Driver.replacement = "atomic"
    => ToSet(job[c].data) \subseteq ToSet(Existing(File(job[c].key)))

\* A driver that declares atomic replacement never shows the moment between
\* the old record and the new one, not even when the writer dies in it.
DeclaredReplacement ==
  [][Driver.replacement = "atomic" =>
       \A f \in Paths : store[f] # NoRecord /\ store'[f] = NoRecord =>
         \E c \in Clients : job[c].op \in {"remove", "emptyDir", "clear"}]_vars

\* keys() returns every key that was there from its first step to its last,
\* while others set, append and remove values.
ListIsComplete == \A c \in Clients : Done(c, {"keys"}) => client[c].watch \subseteq client[c].seen

\* emptyDir and clear leave nothing of what they found, except what others
\* wrote meanwhile; where a listing moves with its removals see EmptiesAll.
ClearIsComplete ==
  Driver.list # "index" =>
    \A c \in Clients : Done(c, {"emptyDir", "clear"}) =>
      \A k \in client[c].watch : store[File(k)] = NoRecord

\* "Removes every child while preserving the requested directory."
EmptiesAll ==
  \A c \in Clients : Done(c, {"emptyDir"}) =>
    \A k \in client[c].watch : store[File(k)] = NoRecord
=============================================================================
