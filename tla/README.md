# opfs: verification models

This directory holds the TLA+ models of `@okikio/opfs`: what its concurrent and
failure-prone parts do, what they promise, and the checks and proofs that they
keep the promise. Everything is translated from the sources under `src/src`.

## The system

`FileSystemFacade` (`filesystem.ts`) gives an application an OPFS-shaped file
system over an *adapter*, which normalizes a *driver* of one kind of storage.
Mutating calls first take locks (`lock.ts`), then make a sequence of awaited
adapter calls. The parts, what they keep, and where they are hard:

| part | state | operations | what is hard |
|---|---|---|---|
| local locks, `lock.ts` | a registry of lock states by name: readers, writer, FIFO queue; one token per owner | `acquire`, `release`, abort of a queued request | registry entries deleted by name while objects are referenced; wake-ups after release and cancellation; fairness |
| mutation locks, `lock.ts` | a shared or exclusive tree gate, an exclusive lock per path | `acquireFile`, `acquireTree`, `release` | two locks per operation, failure between them |
| facade, `filesystem.ts` | none but its locks, adapter and a closed flag | `writeFile`, `copy`, `move`, `remove`, `emptyDir`, `mkdir`, handles, streams, sinks | every await is a point where other calls run; concurrent children; failures in the middle |
| record adapter, `adapter/record.ts` | records by path in a driver | read-modify-write of whole records | get and set are two awaits |
| object adapter, S3 and Azure, `adapter/object.ts`, `s3.ts`, `azure.ts`, `request.ts` | objects by key, ETags, multipart uploads | conditional puts, uploads of parts, retries, timeouts | lost replies, retries, clean-up of uploads |
| file adapter and drivers, `adapter/file.ts`, `driver/{file,node,deno,bun,opfs}.ts` | the platform's files | replace, append, update, positional and synchronous files | partial native writes; what a write that fails half-way leaves |
| record drivers, `driver/{indexeddb,localstorage,cache,db0,drizzle,sqlite,rxdb,unstorage}.ts` | the platform's records | get, set, delete, list | what of a call is one step of the storage; listings whose records change under them |
| Deno KV driver, `driver/deno-kv.ts` | entries with versionstamps, immutable generations of parts, retirement markers | writes, reads, explicit `collect()` | writers, readers and collections of several processes |
| managed files, `writable.ts`, `sync.ts`, `handle.ts` | an open sink and its lock | `write`, `truncate`, `close`, `abort` | the lock's lifetime; operations under way at a close |
| streams, `stream.ts`, `chunk.ts` | a reader and a buffer | collect, abort, re-chunk | the borders of chunks |
| bridges, `bridge/` | a facade directory | a key-value store | several facade calls per operation |
| plans and capabilities, `plan.ts`, `capability.ts` | none | what a request will do, decided in advance | agreeing with what the facade then does |
| schemas, metrics, probes, integrations | little or none | conversions and descriptions | little |

Nothing runs in parallel inside one JavaScript realm: a handler runs to its next
`await`, and every `await` is a point where any other call may run. Processes
that share a database are truly concurrent. Both are interleavings of actions
here; an action is one uninterrupted stretch of code with the one provider
request it waits for.

Every model file explains its own abstraction in the comment at its head, every
action names the method it stands for, and `PROJECT.json` maps each definition to
its source lines.

## Modules

```
FifoLine            the line of requests of one lock, and whom it entitles
  FifoLineProofs      lemmas about joining and leaving a line
FifoLock            what a lock coordinator promises, in one rule over FifoLine
LocalLock           lock.ts: registry, queue, drain, tokens
  LocalLockFifo       LocalLock implements FifoLock (refinement)
    LocalLockProofs     theorems about LocalLock, and that it does
MutationLocks       lock.ts: the two-level locks, over FifoLine
  MutationLocksProofs theorems about MutationLocks
  Facade              filesystem.ts over adapter/record.ts, under MutationLocks
    FacadeProofs        theorems about Facade
ByteFiles           the arithmetic of a write, a truncation, a range
  HostFiles           driver/{node,deno,bun,opfs}.ts, writable.ts, sync.ts, handle.ts
    HostFilesProofs     theorems about HostFiles
  Records             the record drivers, adapter/record.ts, bridge/kv.ts
    RecordsProofs       theorems about Records
  Ranges              parts, blocks and ranges: chunk.ts, s3.ts, azure.ts, deno-kv.ts
AtomicFile          what a driver with replacement "atomic" promises
DenoKv              driver/deno-kv.ts: generations, markers, collect()
  DenoKvProofs        theorems about DenoKv, and that it implements AtomicFile
  DenoKvAtomic        DenoKv implements AtomicFile (refinement)
Requests            request.ts: attempts of one request, lost and late answers
  ObjectStore         adapter/object.ts, s3.ts, azure.ts: one object, over Requests
    ObjectStoreProofs   theorems about ObjectStore
ObjectTree          adapter/object.ts: the tree in the keys of a bucket
Plans               plan.ts, capability.ts, the planners, and the facade's routes
MC*                 small instances for TLC
```

The layers are stacked: `Facade` uses the locks of `MutationLocks`, which uses
only the line of `FifoLine`, whose rule `FifoLock` states and the code's
`LocalLockCoordinator` is proved to implement. A definition that precedes another with a comment "Mutant: ..." is a
plausible bug of it; no specification uses it.

### LocalLock

| model | code |
|---|---|
| `localStates` | the module-level map `localStates`, a name's registered state or none |
| `cell` | the `LocalLockState` objects: `readers`, `writer`, `queue`; a member of `Cells` is the identity of an object |
| `pending` | the `PendingLock` of a caller that waits |
| `token` | the last `LocalHeldLock` a caller was given, with its `released` flag |
| `Acquire` | `acquire()`: `getState`, then `GrantNow` or `Enqueue` |
| `Release`, `ReleaseAgain` | `release()` and its early return; with `drain()` and `removeEmptyState()` in the same step |
| `Cancel` | `cancelPending()`, the abort listener of a queued request |

Callers hold references to objects while the registry is keyed by name, so that
an object could be dropped from the registry while someone still refers to it.
Objects are therefore identities, and `RegistryExact` is checked rather than assumed.

### MutationLocks

`line` is the one line of requests per lock name; `stage`, `target` and `aborted`
are what a call of `acquireFile` or `acquireTree` knows. Between a grant and the
resumption of the granted caller other steps happen, hence the separate `TreeHeld`,
`AskFile` and `FileHeld`. A failing second acquisition goes through `GiveBackTree`,
the catch block.

### Facade

An async method is a *program*: the sequence of awaits it has left (`todo`). One
step executes the first, and may put further awaits in its place (`After`): a
`stat` that finds a directory is followed by a listing, a listing by one removal
per entry. Children that `copy` and `emptyDir` run through `trackConcurrent` are
programs of their own (`kids`). Throwing skips to the `finally` block (`Unwind`),
which waits for the children (`settleConcurrent`) and releases. Calls modelled:
`writeFile`, `getFileHandle` with `create`, `mkdir`, `getDirectoryHandle` with
`create`, `remove`, `copy`, `move` without native rename, `emptyDir`; those that
only read are left out. The record adapter reads a record and sets it in two
awaits, and so does the model (`write` then `setFile`). Data are the identity of the
call that wrote them. Aborting signals while waiting for a lock are in
`MutationLocks`; here any await may fail (`MayFail`), before it has an effect.
`copy` and `move` reject overlapping paths at once, and all but `emptyDir` reject or
ignore the root: `Calls` has no such call.

### DenoKv

| model | code |
|---|---|
| `entry` | the entry of one path; the member of `Writers` that wrote it is its versionstamp, and whether it is an inline record or a manifest is the call's `op` |
| `part` | the stored part keys, (generation, index) |
| `retired` | the retirement markers, with their `retiredAt` |
| `wr` | a write call: the version its `#entry` read saw, the time in its generation, the `retiredAt` it will commit, the parts left to store or delete |
| `rd` | a reader between reading the manifest and its last part |
| `gc` | one pass of `collect()`: cutoff, what the listing still has to yield, the current generation and what was decided of it, the deletion count |

One action per provider request. Two writers and a collection may belong to
different processes and share the database only. A listing is fetched in batches
(`NextBatch` lets it see what was stored or deleted since), is in key order
inside a generation, and takes generations in any order, as they are random
identifiers of one millisecond. The checks that run before a write has any effect
(type of the existing record, size limits) are left out. `Fail` covers every error
that lands nothing; `LostReplies` adds the error that arrives although the commit
landed.

The time bounds are the assumptions under which age-based collection is sound:
`MaxWrite` (creation of a generation to its commit), `MaxCommit` (retirement stamp
to its commit) and `MaxRead` (manifest to last part). The code does not enforce
any of them; the comment of `collect()` makes the application account for in-flight
readers, and says nothing of in-flight writers and commits. `Timely`
(`MaxWrite < MinAge`) and `Patient` (no lost replies and `MaxCommit + MaxRead < MinAge`)
name what the theorems need.

### Requests and ObjectStore

| model | code |
|---|---|
| `req`, `net` | what a place in the code awaits, with the number of its last attempt; the attempts the service may still act on |
| `Send`, `Resend`, `GiveUp` | `sendRequest`: the first attempt, the next one after a timeout, transport error or retryable status, and the error that escapes |
| `call`, `cl` | a call of the object adapter: `replace` and `append` (`writeFile`), `stream` (`writeStream`), `remove`; and its locals: position, tag of the head, chunks taken from the stream, failed chunks |
| `ReadHead`, `Get` | `driver.head` and what follows it, `driver.get` |
| `Admit` .. `PoolIsEmpty` | the `for await` over `pooledMap` in `put` (S3) and `#putBlocks` (Azure) |
| `Cleanup` | the `catch` block of S3's `put` |
| `obj`, `upload`, `staged`, `committed` | the service (external): the object, multipart uploads, uncommitted and committed blocks |

A service request is sent, acted on and answered in three steps, and each of
`Unanswered`, `Refuse`, `Retry` and `RequestFails` may come between. `setup.late` says whether an
attempt that the client abandoned may still reach the service: S3 gives no bound,
so `UploadsReleased` claims an empty aborted upload only where it may not, which is all that waiting
for the started parts can achieve. A pooled part that failed keeps its place in the
pool, as in `pooledMap`, so the pool stops taking chunks only when failures and
running parts fill it or the stream ends. An entity tag stands for one state of the object.

A copy is a call with one or two ranges of a source that somebody may replace or
remove meanwhile (`ChangeSource`): each range is there once and in its place,
of one version or the other, since neither client conditions its range
requests.

The setups: S3 with late requests and every kind of call on whole bodies; S3 with
streams of two processes at once; S3 with delayed multipart and with an empty
stream; Azure with streams of one process at a time, which is what the path lock
of the facade provides; copies against removals and replacements on both. A
directory marker is another key, see `ObjectTree`; no size is declared because
`writeStream` declares none.

### HostFiles

| model | code |
|---|---|
| `disk` | the file as readers see it |
| `client[c].staged`, `cursor`, `open` | the copy of an OPFS writable or of a write session, the position of the native file, whether it is open |
| `client[c].call` | the calls issued on a positional or synchronous file, and how far each is |
| `owner` | the lock of the file, as `MutationLocks` gives it |
| `NodeWriteFile` .. `OpfsWriteToNative`, `Pull`, `WritePiece`, `FinishWrite`, `CloseWrite` | `writeFile` and `writeStream` of the drivers |
| `Issue`, `NodeWrite`, `DenoSeek`, `DenoWrite`, `OpfsWrite`, `TruncateFile`, `End` | `ManagedWritableFile` over the driver's positional file |
| `SyncWriteAll`, `SyncTruncate`, `SyncClose` | `ManagedSyncFile` |
| `StartSession` .. `AbortSession` | `WriteSession`: a copy in memory, replaced at `close` |
| `StartRead`, `NodeRead` .. `OpfsRead` | a ranged read: size first, bytes later |

A step is one native operation, and the host chooses how many bytes of a write
it takes. `writeAll`, `write` and the stream loops go on after a short write; the
model shows that they go on at the right place. Native calls of one positional
file may overlap, since nothing in `ManagedWritableFile` queues them.

### Records

As in `Facade`, a call is the sequence of awaits it has left. A driver is what
tells it from the others: the steps of its `set` (Drizzle has two), whether its
`writeFile` is one transaction (IndexedDB), what its `delete` does first (RxDB),
and what its `list` does when records change meanwhile: a snapshot (`records`),
keys that are looked up later (`keys`) or indexes into a changing array (`index`).
The clients share a lock coordinator or do not; those that do not are processes that
may crash. A key of the bridge is a directory with a file in it. `order` is the
order of the keys of localStorage, which the user agent chooses. The stores a run
begins with are those the bridge makes (`IsTree`): a value is below a directory of
its own. The provider's
calls are atomic where its documentation makes them so, and may fail before or
after they took effect (`Fail`).

### Plans, Ranges, ObjectTree

These hold operators and no state. `Plans` translates what a filesystem says it
will do (`GetSupport`, `CreatePlan`, the planners of the drivers) and, separately,
what its calls do (`Execute`), with the guards in the order of the code: the facade
asks an adapter for its methods and a few capabilities, and hands `readFile` and `writeFile`
on whatever was declared; the adapter's method may then throw (`refuses`), as `copy()` of
the object adapter does if the driver declares a copy that it does not have. A plan is
asked for with everything known and with sizes left out (`Asked`). `Honest` compares the
two and names every case in which they differ.
`Ranges` translates every way the code cuts bytes: `split`, part and block sizes,
copy ranges, and the reading, streaming and rewriting of Deno KV parts; the
reference is the arithmetic of `ByteFiles`. `ObjectTree` reads a tree in a set of
keys, page by page. Their questions are initial states of `MCRecords`
(`question`), one for each input.

## Runs

| run | instance | question |
|---|---|---|
| `local_lock` | 3 callers, 2 names, 4 state objects, with the history `line` | exclusion; occupancy; the registry; wake-ups; implements the FIFO lock; every request ends |
| `mutation_locks` | 3 operations, 2 paths and the tree | exclusion of operations; nothing leaks; a tree operation is not overtaken; no deadlock |
| `facade` | 2 operations, 17 calls on 4 paths in 2 levels, every well-formed tree, failures | the tree stays a tree; writes take effect; removal is complete; a copy's source stands still |
| `facade_wide` | directories of 3 entries, 2 concurrent children, failures | copies are exact; no child outlives the lock; every call returns |
| `facade_parents` | the smallest pair of calls | disagreement 1 |
| `deno_kv` | 2 writes of 2 parts, 1 reader, 1 collection, a clock of 4 values, batches, aborts, crashes | visible bodies complete; readers complete; superseded generations dated; implements the atomic file |
| `deno_kv_live` | 2 writes, lost replies, repeated collections | acknowledged bodies survive lost replies of others; garbage goes away |
| `deno_kv_lost` | `deno_kv` with lost replies | disagreement 2 |
| `object_store` | 2 calls by 2 processes, 2 attempts, streams of up to 3 chunks, copies of up to 2 ranges, pool of 2, seven setups | bodies whole and once; appends extend the current body; a return means the body landed; uploads released and nothing left in them; every call ends |
| `host_files` | 2 clients on one file of 3 bytes or none, 4 drivers, 14 kinds of jobs against a replacement or an overlapping positional file; short writes, failures, signals | success is exact; damage is confined; native work under the lock; OPFS publishes at close; every client returns; Deno with overlapping calls is an exception in the first three |
| `records` | 2 clients, 2 keys, 7 drivers, 30 pairs of calls, shared coordinator or none, failures, crashes; and the questions: adapters of five kinds with combinations of what they declare and have, under four sets of optimizations and two buffer limits, planned for 60 requests with and without their sizes, bodies of up to 5 bytes in parts of up to 3, every set of keys over 5 paths | no lost update; atomic replacement; listings and clears complete; plans honest; parts and ranges exact; the object tree exact |
| `empty_dir` | two `emptyDir` over full directories | disagreement 3 |

Why the bounds suffice. *Locks*: with three callers there are an owner, a waiter
and one more that could overtake; two readers and a writer; and a waiter to cancel
between two others. Four cells leave a fresh object available whenever each caller
refers to another. *Facade*: two operations, because all exclusion is pairwise;
two levels, because a node and its parent are what the properties relate; three
entries with two children give one that has to wait for `Promise.race`. *Deno KV*: a
second write is what supersedes, conflicts or cleans up against the first; two
parts are the least for which a body can be torn, a listing split and a deletion
budget (`MaxDeletes` 1) exhausted in the middle of a generation; three ticks are
enough for a write, the grace period of two and one more. *Object store*: one call
per client, as calls of one client follow each other and share nothing but the
object; two attempts show a retry of what was done; three chunks in a pool of two
are the least with one that waits for a place; two ranges are the least that may
come from two versions of a source. *Host files*: a second client is the
one who waits for the lock or reads without it; pieces of two bytes are the least
a host can cut; three calls have one issued while another runs and one after. On Deno only the
second client makes overlapping calls (`MCInit`): the properties that speak of what is written
say nothing there.
*Records*: two keys give a listing one entry behind the other; the update writes
the byte that was there and the appends go behind it, so that all of them should
be seen in the end. *Parts*: bodies of up to five bytes in parts of up to three have
an empty, a full and a partial last part, and reads that begin and end in any of
them. *Keys*: five paths over three levels have a parent, a child, a sibling and a
grandchild; pages of one to three entries end between any two of them.

The type invariants `TypeOK` of `LocalLock` and `DenoKv` are proved rather than run.

Where a cfg names symmetry, only safety is checked with it.

### Fairness

* Locks: `Release` by every owner. The facade releases in `finally`, and a sink in
  `close` or `abort`; a user who never closes a sink is outside the claim.
* Mutation locks: a granted caller resumes (`LockStep`), and releases.
* Facade: a started call and its children go on (`CallStep`, `KidStep`): promises settle
  and storage answers, with a result or a failure.
* Deno KV: started calls go on, the clock moves, and the application calls
  `collect()` again and again, which is how the driver's documentation says to use it.
  Nothing is assumed of beginning calls, failing, aborting or crashing.

* Object store: a client goes on (`ClientStep`), and a request that is neither answered nor
  repeated fails in the end (`RequestFails`), by the deadline of the policy or of
  Fetch itself. The service need not answer, and a source stream need not fail.

* Host files: each client goes on (`Step`): native operations settle, and whoever opened a
  resource ends it. A signal need not fire (`Fire`).

`Records` has safety properties only and no fairness. Deadlock is checked in every
run except `object_store`, `records` and `empty_dir`, where the system stops when
each client has made its one call.

## Disagreements with the documentation

Each is a run that TLC finds violated; `findings` in `PROJECT.json` quotes the text.

1. `facade_parents`: `writeFile` with `parents` creates directories under the shared gate
   and its own path lock only; a concurrent write may put a file where the
   directory goes, and be overwritten or end up a file with children.
2. `deno_kv_lost`: a commit that was applied but reported as failed is followed by
   the deletion of the parts of the visible generation.
3. `empty_dir`: the listing of localStorage counts through the indexes of its keys
   while `emptyDir` removes what it has been given, so the entry behind a
   removed one is skipped and stays.

The other runs stay clear of these: `Calls` of `facade` has no write with
`parents`; `deno_kv` runs under `Timely` and `Patient`; `ClearIsComplete` leaves out
localStorage and `ListIsComplete` a localStorage whose keys move.

The two inequalities of `Timely` and `Patient` are needed as well. With `MaxWrite = 2` in
`MCDenoKv.cfg` (a write as slow as the grace period) the collection, which looks at
the entry once per generation, deletes parts of a body that is published after the
look. With `MaxCommit = 1` the retirement time, which is taken before the commit is
sent, shortens the grace period of readers. The comment of `collect()` mentions
in-flight readers only.

### Weaknesses without a run

Behaviour met while modelling that no run shows, because no text of the repository
promises otherwise or the instances leave the case out:

* An emulated `move` gives the tree lock away between its copy and its removal
  (`filesystem.ts:1192`), and a write in between is removed without having been moved;
  the code says that they are separate commits.
* `copy` with `overwrite` clears the destination (`filesystem.ts:1034`), and a native
  `move` with `overwrite` removes it (`filesystem.ts:1178`), before the source is read.
* `getFileHandle` with `create` that waited for the lock does not look at the kind of what
  it finds afterwards (`filesystem.ts:632`), and may return a file handle for a directory.
* Azure block IDs are block numbers and the commit lists them as `Latest`
  (`azure.ts:478`): of two overlapping uploads of one blob one commits blocks of the
  other. The path lock prevents it within one process, or one origin with Web Locks.
* Writes that overlap on one positional file of Deno share its cursor (`driver/deno.ts:184`),
  and `close()` does not wait for them, although a comment says that a write is at "one
  explicit position" (`driver/deno.ts:180`). The properties of `host_files` say where they make an
  exception for it: `CallersWait` in `SuccessIsExact` and `DamageIsConfined`, `Unwaited` in
  `NativeWorkUnderLock`. `MCHostFiles` does run such calls.
* `update` of Node opens with `r+` and, if the file is missing, with `w+`
  (`driver/node.ts:42-53`), which empties a file that another process created in between.
* `writeStream` of Node and Deno has truncated the file before the signal is looked at for
  the first time.
* A failed first write over OPFS leaves the empty file that `getFileHandle` created.
* An update of no bytes beyond the end extends the file in the record and object
  adapters, and leaves it alone on native hosts (`NativeWrite`).
* `get()` of S3 and Azure with `length` 0 asks for one byte, and one at the end of the object
  is refused; `ReadsExact` claims the object clients only for ranges with a byte in them.
* The set of Drizzle is a deletion and an insertion (`driver/drizzle.ts:199`), which it
  declares as `best-effort`; `DeclaredReplacement` is about the others.
* In `ObjectTree`, a key set where a path is a file and a directory at once is read
  differently by a listing and by `stat`, and a directory without a marker vanishes with
  its last child; `TreeExact` excludes the first and allows the second.
* A supported plan is refused in two cases. The object adapter declares `nativeCopy` for a
  driver that declares a copy (`adapter/object.ts:127`) and refuses it if the driver has no such
  method (342-349), which neither `defineObjectDriver` nor `defineAdapter` looks at (`CopyIsMissing`).
  Deno KV plans parts for writes of bytes that it is told the size of, not for a copy, and a stream
  is partitioned even where the same bytes would go inline (`PartsAreFull`).
* A plan is stricter than the call in four cases, named in `Stricter`: a size limit that the
  driver is told and nobody enforces, keys that only the provider would refuse, a read or a write that
  a file or custom adapter does not declare and the facade asks it for all the same, and a move
  emulated by a copy inside the provider.

## Proofs

`tlapm` checks every obligation of the proof modules. Each theorem holds for any values
of the constants that satisfy the assumption its module's `ASSUME` names.

### FifoLineProofs

Lemmas about the operators on a line of requests: in a line where nobody stands twice
(`IsLine`), a request that joins takes nobody's entitlement (`JoinKeeps`), and one that
leaves takes only its own (`LeaveKeeps`). Both locks below rest on them.

### LocalLockProofs

Assumption: `LocalLockAssumption` (callers are finite, the null values are not
values). For any number of names, callers and objects:

* `TypeCorrect`: `Spec => []TypeOK`;
* `OwnersExclude`: `Spec => []MutualExclusion`;
* `OccupancyIsExact`: `Spec => []OccupancyExact`;
* `NoWakeupIsLost`: `Spec => []NoLostWakeup`;
* `RegistryIsExact`: `Spec => []RegistryExact`.

None is inductive alone. A second exclusive grant is impossible because the reader
count and writer flag of the object are exact, which needs that every owner of the
name refers to the *same* object, which needs that a registered object is not
dropped while someone refers to it, which depends on the queue. `IInv` is
this chain: `Types`; `Registered` (an object belongs to one name, and the name of
every owner or waiter leads to its object); `Queued` (a queue holds exactly the
callers that wait there, once); `WaitersHoldNothing`; `Occupied` (the counts are
exact and a writer is alone). It is stated as an operator `Good` of the
variables, so that the common part of `Release` and `Cancel` (`DrainAndClean`) is one
lemma about `drain` on any state that is `Good` after the handler's own change.
The last two theorems need `Settled` as well: between two handlers every queue is
blocked at its head and every registered object is in use. It does not hold in the
middle of a handler, hence it is not part of `Good`.

The refinement is `ImplementsTheFifoLock`: `HSpec => ImplementsFifoLock`.
`HInv` adds to `IInv` and `Settled` what the history has to do with the code: the line
of a name holds exactly its owners and its waiters, with their modes (`Lined`), the
owners stand before the waiters, and the waiters as in the queue of the state object
(`Ordered`). From this `LineEntitlesOwners` shows that the rule of `FifoLock` entitles
exactly the owners: a blocked head of the queue has an owner before it that excludes
it. Draining then needs no step-by-step mapping, since the rule holds in every state
and one handler adds or removes one request of the line.

### MutationLocksProofs

* `OperationsAreExclusive`: `LockSpec => []OperationsExclude`;
* `NothingIsLeaked`: `LockSpec => []NothingLeaked`;
* `TreeIsNotOvertaken`: `LockSpec => TreeNotOvertaken`, an action property.

Assumption: `Tree` is not a path (`MutationLocksAssumption`). Owning is a fact about a line that others join
and leave, so that "who holds still owns" is not kept by a step for a reason of its
own. `IInv` says where everybody stands: in the line of the gate from the
first acquire on and in that of its path from the second on, and nowhere else (`Standing`);
with which mode (`Exclusive`); and that what was granted stays granted (`Granted`),
which is where the lemmas of `FifoLineProofs` come in.

### FacadeProofs

Assumptions: `FacadeAssumption` (paths are finitely many sequences of names, closed under
ancestors and under what a copy or move would create; a call has a path that its method accepts,
so that the two of a copy or a move do not overlap; the initial trees are well formed) and that of
`MutationLocks`. The closure is the price of finitely many paths, and excludes instances
whose copies feed each other ever deeper names, such as `a` into `b/x` and `b` into `a/x`. For
any operations, calls, initial trees and bound of the children, with failing storage or
without:

* `CallsKeepTheirShape`: `FacadeSpec => []FacadeInv`;
* `ChildrenEndUnderTheLock`: `FacadeSpec => []NoStragglers`;
* `CopiesReadAStableSource`: `FacadeSpec => CopySourceIsStable`, an action property;
* `WritesTakeEffect`: `NoParents` implies `FacadeSpec => []WriteTakesEffect`;
* `CallsKeepTheTree`: `NoParents` implies `FacadeSpec => []TreeInv`;
* `ParentsAreDirectories`: `NoParents` implies `FacadeSpec => []ParentIsDirectory`;
* `RemovalsAreComplete`: `NoParents` implies `FacadeSpec => []RemoveIsComplete`;
* `CopiesAreExact`: `NoParents` implies `FacadeSpec => []CopyIsExact`.

`NoParents` says that no `writeFile` or `getFileHandle` is called with `parents`. It is
needed: such a call makes directories at paths whose lock another call may hold
(first of the disagreements above), also where that call has just written its file, and may
leave a file with children, as `facade_parents` shows. `mkdir` and `getDirectoryHandle` may
make parents, since they hold the tree.

A program is data, so the invariant says what it may look like. `Work(Z, D)` is the
set of awaits that create and write in the paths `Z` and clear and copy in `D`; `Ground` that
`D` contains what lies below its members. `AfterWork` is the heart of it: whatever an await
finds, what it leaves to do is work on the same ground; a listing leads to entries of its
directory, a walk to places below its destination. `Zone` and `DeepZone` give each call its
ground: all paths for most, only the paths above and below the destination for a copy, and only
its own path for a file call without parents. `Fits` then says where a call stands: it asks
before its lock, works between lock and release (`Running`), a move does it twice, and
children belong to a holder of the tree. `FacadeInv` adds the invariant of the locks, whose
steps are those of `MutationLocks`, and types.

From it `WriterOf` follows: a record is changed only by who holds its lock, and only on its
ground. A copy holds the tree, hence is alone, and its source and its ground are apart. For
a write `WriteForm` adds where its program stands, and that its record is in place once only
the release is left; it stays because others who hold a lock at that time work on
their own path.

`TreeInv` is about the tree: the records are well formed (`WellFormed`: above whatever is
there are directories only), and each call that holds its lock stands where what it has
left fits them (`Good`). What is left of a file call, of `mkdir` or of the writing half of a copy
is `Building`: every directory it uses is there or made or checked by an earlier await. What
is left of a removal or of the clearing half is `Sweeping`: a directory is deleted when each entry
that is there has its own removal before. Neither is kept by a step on its own: a file call
keeps its directories because others who hold a lock then are file calls too, which remove
nothing (`DirsStay`), and a sweep finds no new entries because its call holds the tree. The
children of `emptyDir` sweep disjoint entries side by side (`Empties`). For a copy `CopyWorks` says
that each entry of the source is at its target or has an await, in the call or in a child, that
leads to it (`Leads`), and that the destination holds nothing else; children of a copy
write files, so they cannot undo each other, and `Target` is injective. A child that fails
suspends these promises for its call only (`failed`), and never `WellFormed`. Before a call has
its lock nothing may be assumed of the tree it will find, so `Ready` asks that its section fits
every well-formed tree; a move has a second section, which has to be ready too (`Later`). `TreeInv`
quantifies over sequences of awaits and is not run; the three properties that follow from it are.

### DenoKvProofs

For any writers, readers and parts:

* `TypeCorrect`: `Spec => []TypeOK`;
* `AcknowledgedComplete`: `Timely` implies `Spec => []AcknowledgedBodyComplete`, lost replies or not;
* `BodyComplete`: `Timely` and no lost replies imply `Spec => []VisibleBodyComplete`;
* `ReadsComplete`: `Timely` and `Patient` imply `Spec => []ReadersComplete`;
* `SupersededStaysMarked`: `Timely` implies `Spec => []SupersededIsMarked`.

`IInv`: the entry is a call's that is over, and acknowledged unless replies are lost
(`EntryDone`); a call that has not begun has no
parts (`Started`); a call about to commit has stored all its parts, a visible one
that was acknowledged still has them (`PartsStored`); what has a marker is not visible and cannot become
so (`MarkersDead`); calls are within their time bounds (`InTime`); a pass that decided to
reclaim a generation looked at one that was out of sight for good or too old to
commit any more, and whoever reads it began too late to find it visible
(`PassSafe`); a reader's generation has the parts it still needs, and if it was
superseded, its marker is younger than the reader's start plus what a commit may
take (`ReadersSafe`). `Timely` is used for what a pass finds invisible, `Patient` for
what a reader still needs.

That a marker stays to the end needs more, `MInv`: times are in the order of what
happened (`Chronicle`), and the listing of a pass has every part of each generation it
may still reclaim, or that generation is younger than the cutoff (`ListingWhole`).
Otherwise a pass could delete the parts it knows of, drop the marker, and
leave the parts it does not know of without one.

Last, the refinement, `ImplementsTheAtomicFile`: `Timely` and `Patient` imply
`Spec => ImplementsAtomicFile`. The mapping reads the content of the file off the entry and the parts it names. With
`IInv` the parts of the entry are all there, so the content is the entry (`ContentIsEntry`, which
needs that a deletion leaves no entry: `EntryKept`), and
each action is a step of the atomic file or none: `Begin` begins, `Commit` publishes,
an error or a crash before it fails, the clean-up and the whole of `collect()`
stutter, a reader answers with the content of the moment it opened.

### HostFilesProofs

Assumption: `HostAssumption` (positional files alone have overlapping calls, and
whoever writes closes). For any jobs, drivers and contents:

* `WorkIsUnderLock`: `Spec => []NativeWorkUnderLock`. Nothing is assumed of callers: on Deno, where
  `close()` does not wait for operations under way (see *Weaknesses*), it says of a client whose
  calls may overlap that its file is open under the lock only, and of all the others that no
  native operation is under way without it;
* `OpfsPublishesAtClose`: `Spec => PublishedAtClose`, an action property.

`HostInv` says for each client at which points of its job it owns the lock, and at which
its file may be open (`OpenAt`) and calls under way (`FlightAt`); the latter depends on
the kind of the job (`KindAt`) and on how it ends (`SessionAt`). The action property
needs it because a step that changes the file on OPFS is recognized by where its client
stands, and the staged copy by the kind of its job.

### ObjectStoreProofs

Assumption: `ObjectStoreAssumption` (slots are clients and numbers, the null values are no
values, setups are typed). For any clients, chunks, attempts, places in the pool and setups:

* `CallsFit`: `ObjectSpec => []Fitting`, type correctness and where calls are;
* `UploadsAreReleased`: `ObjectSpec => []UploadsReleased`;
* `AppendsExtend`: `ObjectSpec => AppendExtends`, an action property.

The others assume `AzureAlone` as well: on Azure streams and copies of one blob are one
process's, whose path lock puts them one after the other, and a request that its client has
abandoned is dead. Azure numbers the blocks of every upload alike, so that overlapping
uploads do mix; S3 needs no such condition.

* `BlocksAreKept`: an upload finds its own block under each of its numbers, or none;
* `ReturnsHaveLanded`: `ObjectSpec => []ReturnedHasLanded`;
* `WritesAreWhole`: `ObjectSpec => []WrittenWholeOnce`.

The common part, `Fitting`, says that every message under way is one its call makes
(`Fits`), that a call makes one body and posts it when it leaves the places named `Early`
(`SentAt`), which requests it awaits at each place (`Awaiting`) and which calls get where
(`Placed`). `StepMoves` then reduces the steps to a few kinds (a call stays, goes on, fails or
succeeds; a message is sent, sent again, given up or acted on), and each property adds its own part:

* `Closed` and `Current`, for the uploads: an upload is created once, by an attempt that
  is not repeated; where no request outlives its client, the parts have settled when
  the abort is sent;
* `TagsOnce` and `Extending`, for the appends: a tag that somebody has seen is given by
  no attempt that is still to come, so that a condition that holds again means that
  the object never changed;
* `BlocksKept`, for Azure: a chunk that was sent, answered and has not failed is stored, or
  nothing is under its number, in which case the commit is refused;
* `Landing`: who goes on after its body's request is in `landed`;
* `WholeBodies`: in the object and in every body under way the chunks of a call are whole or
  absent, and absent before the call sends its own; `Get` may carry the chunks of
  others along, which is why it speaks of messages too.

### RecordsProofs

Assumption: `RecordsAssumption` (drivers are those of the code, keys are finitely many, `Directory`
and `NoRecord` are no values, jobs and initial stores are typed, and the stores are trees). For any
clients, keys, bytes, drivers, jobs and stores, with a shared coordinator or without, and
with failures and crashes:

* `TypeCorrect`: `Spec => [](Typed /\ Programs)`;
* `ReplacementIsDeclared`: `Spec => DeclaredReplacement`, an action property;
* `ListingIsComplete`: `Spec => []ListIsComplete`;
* `ClearingIsComplete`: `Spec => []ClearIsComplete`;
* `UpdatesAreKept`: for every `base` with `Apart(base)`, `Spec => []NoLostUpdate`.

A program is data here as well: `Fits` says which awaits a call of each kind may have before it,
and at which paths; only a driver whose replacement is not atomic has a `deleteRow`.
`Steps` then reduces a step to four kinds (lock, unlock, go on, stop), over which the invariants are
proved.

`Listing` follows one key through a walk: what `keys()` will come to (`LeadsTo`) is the
listing of the root that has not begun, the listing of the root that still has the directory ahead,
the listing of the directory, or that one with the file ahead. Each await that comes to the key
leaves another that does, or shows it. For localStorage "ahead" is an index into the order of
the keys, hence `watch` of the model gives up when that order changes.

`Clearing` does the same for a removal, and must moreover say that nobody takes the
directory away before its value (`Careful`): a program that still has the deletion of the directory
has an await before it that takes the value, and a clear that found the value has not returned.
This is what fails where a listing counts by index, the third disagreement above.

For lost updates the invariant says of a program that writes exactly where it is
(`Writing`, one of the programs of `Locked`), that locks exclude (`Exclusive`), and of the
bytes (`Held`): what a put or a deletion is about to write was computed from the record as it is
*now*, and every write that has been applied stands in the file (`Stands`), or, while somebody has
deleted the row, in what they are about to insert. An update stands at its position, an append
somewhere behind the base; `WriteStands` shows that a further write leaves both where they
are. `Apart` is about the callers: updates stay within the bytes that were there at first, apart from
each other, and whoever does not update appends; a replacement would of course remove what it
replaces. The run's jobs satisfy it (`WritesAreApart`). It does not follow that the order of appends is
that of their calls.

### Only model-checked

Liveness (`EveryRequestSettles`, `EveryAcquireEnds`, `EveryCallReturns`,
`GarbageIsReclaimed`, `EveryWriteReturns`, `EveryClientReturns`), which is out of the
prover's reach. `SuccessIsExact` and `DamageIsConfined` of `HostFiles` fold over sequences of
writes, and what `Ranges` computes for every size is defined by recursion: both need
induction over data, which is out of reach as well. `Plans` and `ObjectTree` are checked on
the inputs named above.

## Not modelled, and why

* Signing, XML, URL building, schemas, error wording, metrics, probes, integrations,
  codecs of the bridges: formatting and counting without control of their own.
* `close()` of the facade, which sets a flag and disposes an adapter that drivers
  release in ways of their own; `openReadStream` and `AbortByteSource`, whose state is a
  platform reader that nothing else shares.
* Directory operations of the native drivers, and Web Locks: one platform call each.
* The opening of the IndexedDB database with its version changes.
* Cross-process use of one file without a shared lock in `HostFiles`: the native drivers
  promise nothing there.
* Warnings and messages of plans; only support, parts, buffers and refusals are compared.

## Plan

1. *Refinement*: `HostFiles` restricted to OPFS, and the atomic drivers of `Records`,
   implement `AtomicFile`.
2. *IndexedDB*: lazy opening, blocked upgrades and closed connections.
