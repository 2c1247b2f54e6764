----------------------------- MODULE HostFiles -----------------------------
(***************************************************************************)
(* One file of a file-backed driver (src/driver/node.ts, deno.ts, bun.ts,  *)
(* opfs.ts) and the calls that change it through the facade: writeFile     *)
(* with bytes or a stream, the positional file (src/writable.ts), the      *)
(* synchronous file (src/sync.ts), the write session of createWritable     *)
(* (src/handle.ts), and range reads.                                       *)
(*                                                                         *)
(* A step is one native operation; a host may write fewer bytes than it    *)
(* was given.  Node, Deno and Bun change the file in place.  OPFS changes  *)
(* a copy that its close publishes, except through a sync handle.          *)
(* Mutations run under the facade's lock on the file (MutationLocks).      *)
(***************************************************************************)
EXTENDS ByteFiles, FiniteSets, SequencesExt

CONSTANTS
  Clients,   \* concurrent callers
  Drivers,   \* the drivers to choose from
  Jobs,      \* the jobs the clients may have: functions from Clients
  Contents,  \* what the file may hold at first
  MayFail,   \* whether native operations may fail
  NoFile,    \* the file does not exist
  NoClient,  \* nobody holds the lock
  Here       \* a sync or session call without a position

ASSUME HostAssumption ==
  /\ Drivers \subseteq {"node", "deno", "bun", "opfs"}
  /\ MayFail \in BOOLEAN
  /\ NoClient \notin Clients
  /\ \A j \in Jobs, c \in Clients :
       /\ j[c].concurrent => j[c].kind = "positional"
       /\ j[c].kind = "write" => j[c].ends = "close"

VARIABLES
  driver,  \* the driver of this run
  job,     \* client -> what it does
  disk,    \* the bytes of the file
  owner,   \* the client that holds the file lock
  client   \* client -> how far its job is

vars == <<driver, job, disk, owner, client>>

\* pc, the open native file (open, cursor, the staged copy, how it ends), the
\* chunks and the piece of the source, the state of each call on a resource,
\* the signal, and what the job started from, returned and read.
NewClient(j) ==
  [pc |-> IF j.kind \in {"session", "read"} THEN "start" ELSE "lock",
   open |-> FALSE, cursor |-> 0, staged |-> <<>>, end |-> "no",
   chunks |-> j.chunks, piece |-> <<>>,
   call |-> [i \in DOMAIN j.calls |-> [state |-> "idle", offset |-> 0]],
   signal |-> FALSE, outcome |-> "none", base |-> <<>>, got |-> <<>>]

Content(d) == IF d = NoFile THEN <<>> ELSE d

Calls(c) == DOMAIN job[c].calls

At(c, place) == client[c].pc = place

Kind(c, kinds) == job[c].kind \in kinds

\* The bytes a client changes are its own copy until they are published.
Staged(c) == At(c, "editing") \/ (driver = "opfs" /\ ~Kind(c, {"sync"}))

Image(c) == IF Staged(c) THEN client[c].staged ELSE disk

\* The disk, and the client's copy, after the client has changed its image.
DiskWith(c, bytes) == IF Staged(c) THEN disk ELSE bytes

CopyWith(c, bytes) == IF Staged(c) THEN bytes ELSE client[c].staged

InFlight(c) == {i \in Calls(c) : client[c].call[i].state \in {"seek", "run"}}

\* Mutant: the exception skips the release of the lock.
LeaveWithLock(c, result) ==
  client' = [client EXCEPT ![c].outcome = result, ![c].open = FALSE,
                           ![c].pc = IF result = "failed" THEN "done" ELSE "release"]

\* The native file is closed and the call leaves through its finally.
LeaveWith(c, result) ==
  client' = [client EXCEPT ![c].outcome = result, ![c].open = FALSE, ![c].pc = "release"]

\* A job that needs no lock is over.
Return(c, result) ==
  client' = [client EXCEPT ![c].outcome = result, ![c].pc = "done"]

Init ==
  /\ driver \in Drivers
  /\ job \in Jobs
  /\ disk \in Contents
  /\ owner = NoClient
  /\ client = [c \in Clients |-> NewClient(job[c])]

----------------------------------------------------------------------------
(* The facade around a job: lock, existence, release.                      *)

Abort(c) ==
  /\ job[c].abortable /\ ~At(c, "done") /\ ~client[c].signal
  /\ client' = [client EXCEPT ![c].signal = TRUE]
  /\ UNCHANGED <<disk, owner>>

Lock(c) ==
  /\ At(c, "lock") /\ owner = NoClient /\ ~client[c].signal
  /\ owner' = c
  /\ client' = [client EXCEPT ![c].pc = "opening",
                  ![c].base = IF Kind(c, {"session"}) THEN @ ELSE Content(disk)]
  /\ UNCHANGED disk

LockAborted(c) ==
  /\ At(c, "lock") /\ client[c].signal
  /\ Return(c, "failed")
  /\ UNCHANGED <<disk, owner>>

Release(c) ==
  /\ At(c, "release")
  /\ owner' = NoClient
  /\ client' = [client EXCEPT ![c].pc = "done"]
  /\ UNCHANGED disk

\* A look at the signal, a missing file, or the host refuses the opening.
RefuseOpen(c) ==
  /\ At(c, "opening")
  /\ \/ MayFail \/ client[c].signal
     \/ Kind(c, {"positional", "sync"}) /\ disk = NoFile /\ ~job[c].create
  /\ LeaveWith(c, "failed")
  /\ UNCHANGED <<disk, owner>>

----------------------------------------------------------------------------
(* writeFile and writeStream.  A driver opens the file, asks its source    *)
(* for chunks, writes each at its position and truncates where asked.      *)

Host == driver \in {"node", "deno", "bun"}

\* A write that the driver, with a source of the kind, has to start now.
Writes(c, drivers, source) ==
  /\ At(c, "opening") /\ Kind(c, {"write", "session"})
  /\ driver \in drivers /\ job[c].source = source

Replaces(c) == job[c].mode = "replace"

\* w+ truncates; a+, r+ and keepExistingData keep.
Kept(c) == IF Replaces(c) THEN <<>> ELSE Content(disk)

\* The file is open where the mode says; bytes in memory need no source.
Opened(c, inMemory) ==
  /\ client' = [client EXCEPT
       ![c].open = TRUE, ![c].end = "no", ![c].pc = "writing",
       ![c].staged = Kept(c),
       ![c].cursor = WritePosition(Len(Content(disk)), job[c].mode, job[c].at),
       ![c].piece = IF inMemory THEN FlattenSeq(client[c].chunks) ELSE <<>>,
       ![c].chunks = IF inMemory THEN <<>> ELSE @]
  /\ UNCHANGED owner

NodeWriteFile(c) ==
  /\ Writes(c, {"node", "bun"}, "bytes") /\ (driver = "bun" => ~Replaces(c))
  /\ disk' = Kept(c) /\ Opened(c, TRUE)

NodeWriteStream(c) ==
  /\ Writes(c, {"node", "bun"}, "stream") /\ (driver = "bun" => ~Replaces(c))
  /\ disk' = Kept(c) /\ Opened(c, FALSE)

DenoWriteFile(c) ==
  Writes(c, {"deno"}, "bytes") /\ disk' = Kept(c) /\ Opened(c, TRUE)

DenoWriteStream(c) ==
  Writes(c, {"deno"}, "stream") /\ disk' = Kept(c) /\ Opened(c, FALSE)

\* Bun.write replaces in place; the other modes are Node's.
BunReplace(c) ==
  \E source \in {"bytes", "stream"} :
    /\ Writes(c, {"bun"}, source) /\ Replaces(c)
    /\ disk' = <<>> /\ Opened(c, source = "bytes")

\* getFileHandle creates the file; createWritable copies what it keeps.
OpfsWriteToNative(c) ==
  \E source \in {"bytes", "stream"} :
    Writes(c, {"opfs"}, source) /\ disk' = Content(disk) /\ Opened(c, FALSE)

\* Streams, and every write of OPFS, look at the signal before each read.
ChecksSignal(c) == job[c].source = "stream" \/ driver = "opfs"

Pull(c) ==
  /\ At(c, "writing") /\ client[c].piece = <<>> /\ client[c].chunks # <<>>
  /\ ~client[c].signal
  /\ client' = [client EXCEPT ![c].piece = Head(client[c].chunks), ![c].chunks = Tail(@)]
  /\ UNCHANGED <<disk, owner>>

\* n bytes of the piece reach the image at the position, which moves on.
WritePiece(c, n) ==
  LET piece == client[c].piece
      next  == NativeWrite(Image(c), client[c].cursor, SubSeq(piece, 1, n))
  IN  /\ At(c, "writing") /\ piece # <<>>
      /\ disk' = DiskWith(c, next)
      /\ client' = [client EXCEPT ![c].staged = CopyWith(c, next), ![c].cursor = @ + n,
                                  ![c].piece = SubSeq(piece, n + 1, Len(piece))]
      /\ UNCHANGED owner

\* A host takes as much as it likes, and the loop goes on.
HostWritePiece(c) == Host /\ \E n \in 1 .. Len(client[c].piece) : WritePiece(c, n)

\* The writable of OPFS takes whole chunks.
OpfsWritePiece(c) == driver = "opfs" /\ WritePiece(c, Len(client[c].piece))

SourceIsDone(c) ==
  /\ At(c, "writing") /\ client[c].piece = <<>> /\ client[c].chunks = <<>>
  /\ ~(ChecksSignal(c) /\ client[c].signal)

Cut(c, next) ==
  /\ SourceIsDone(c)
  /\ disk' = DiskWith(c, next)
  /\ client' = [client EXCEPT ![c].staged = CopyWith(c, next), ![c].pc = "closing"]
  /\ UNCHANGED owner

\* Mutant: the file is always cut where the write ends.
FinishWriteTruncating(c) == Cut(c, Truncate(Image(c), client[c].cursor))

FinishWrite(c) ==
  Cut(c, IF job[c].truncate THEN Truncate(Image(c), client[c].cursor) ELSE Image(c))

\* Close, which publishes the copy of OPFS.
CloseWrite(c) ==
  /\ At(c, "closing") /\ Kind(c, {"write", "session"})
  /\ disk' = Image(c)
  /\ LeaveWith(c, "ok")
  /\ UNCHANGED owner

\* A native error, a failing source, or the signal between two chunks.
WriteStops(c) ==
  /\ At(c, "writing") \/ At(c, "closing")
  /\ Kind(c, {"write", "session"})
  /\ \/ MayFail
     \/ At(c, "writing") /\ client[c].piece = <<>> /\ ChecksSignal(c) /\ client[c].signal

\* Mutant: the copy is closed in place of aborted.
FailWriteByClosing(c) ==
  WriteStops(c) /\ disk' = Image(c) /\ LeaveWith(c, "failed") /\ UNCHANGED owner

\* The copy of OPFS is aborted; what the others have written stays.
FailWrite(c) ==
  WriteStops(c) /\ LeaveWith(c, "failed") /\ UNCHANGED <<disk, owner>>

----------------------------------------------------------------------------
(* openWritableFile and openSyncFile, and the calls on what they return.   *)

\* The facade writes an empty file before it opens a missing one.
CreateEmpty(c) ==
  /\ At(c, "opening") /\ Kind(c, {"positional", "sync"})
  /\ disk = NoFile /\ job[c].create
  /\ disk' = <<>>
  /\ UNCHANGED <<owner, client>>

OpenResource(c, kind) ==
  /\ At(c, "opening") /\ Kind(c, {kind}) /\ disk # NoFile
  /\ client' = [client EXCEPT ![c].open = TRUE, ![c].staged = disk, ![c].pc = "using"]
  /\ UNCHANGED <<disk, owner>>

OpenWritableFile(c) == OpenResource(c, "positional")

OpenSyncFile(c) == OpenResource(c, "sync")

\* A call on a positional file starts while it is attached and the signal has
\* not fired; a caller may start the next one without waiting.
Issue(c, i) ==
  /\ At(c, "using") /\ Kind(c, {"positional"}) /\ client[c].end = "no"
  /\ client[c].call[i].state = "idle"
  /\ \A j \in 1 .. i - 1 : client[c].call[j].state # "idle"
  /\ InFlight(c) = {} \/ job[c].concurrent
  /\ client' = [client EXCEPT ![c].call[i].state =
                  IF client[c].signal THEN "failed"
                  ELSE IF driver = "deno" /\ job[c].calls[i].do = "write" THEN "seek"
                  ELSE "run"]
  /\ UNCHANGED <<disk, owner>>

\* The facade looks at the signal once more when the native call is over.
Settled(c) == IF client[c].signal THEN "failed" ELSE "ok"

Running(c, i, kind, do) ==
  client[c].call[i].state = "run" /\ Kind(c, {kind}) /\ job[c].calls[i].do = do

Data(c, i) == job[c].calls[i].data

Offset(c, i) == client[c].call[i].offset

Rest(c, i) == Len(Data(c, i)) - Offset(c, i)

\* n bytes of a call reach the image at a position; the cursor ends there.  A
\* loop that finds its file detached throws.
WriteSome(c, i, at, n, settled) ==
  LET end  == Offset(c, i) + n
      next == NativeWrite(Image(c), at, SubSeq(Data(c, i), Offset(c, i) + 1, end))
  IN  /\ disk' = DiskWith(c, next)
      /\ client' = [client EXCEPT
           ![c].staged = CopyWith(c, next), ![c].cursor = at + n,
           ![c].call[i] = [offset |-> end,
                           state  |-> IF end = Len(Data(c, i)) THEN settled
                                      ELSE IF client[c].end = "no" THEN "run"
                                      ELSE "failed"]]
      /\ UNCHANGED owner

\* Mutant: every native write of a call goes to its first position.
NodeWriteFixed(c, i) ==
  /\ driver \in {"node", "bun"} /\ Running(c, i, "positional", "write")
  /\ \E n \in 1 .. Rest(c, i) : WriteSome(c, i, job[c].calls[i].at, n, Settled(c))

\* Node, and Bun through it: every native write names its position.
NodeWrite(c, i) ==
  /\ driver \in {"node", "bun"} /\ Running(c, i, "positional", "write")
  /\ \E n \in 1 .. Rest(c, i) :
       WriteSome(c, i, job[c].calls[i].at + Offset(c, i), n, Settled(c))

\* Deno moves the one cursor of the file, and writes there afterwards.
DenoSeek(c, i) ==
  /\ driver = "deno" /\ client[c].call[i].state = "seek"
  /\ client' = IF client[c].open
               THEN [client EXCEPT ![c].cursor = job[c].calls[i].at,
                                   ![c].call[i].state = "run"]
               ELSE [client EXCEPT ![c].call[i].state = "failed"]
  /\ UNCHANGED <<disk, owner>>

DenoWrite(c, i) ==
  /\ driver = "deno" /\ Running(c, i, "positional", "write")
  /\ \E n \in 1 .. Rest(c, i) : WriteSome(c, i, client[c].cursor, n, Settled(c))

\* OPFS queues its writes in the order of the calls, each with its position.
OpfsWrite(c, i) ==
  /\ driver = "opfs" /\ Running(c, i, "positional", "write")
  /\ \A j \in InFlight(c) : i <= j
  /\ WriteSome(c, i, job[c].calls[i].at, Rest(c, i), Settled(c))

TruncateImage(c, i, cursor, settled) ==
  LET next == Truncate(Image(c), job[c].calls[i].at) IN
  /\ disk' = DiskWith(c, next)
  /\ client' = [client EXCEPT ![c].staged = CopyWith(c, next), ![c].cursor = cursor,
                              ![c].call[i].state = settled]
  /\ UNCHANGED owner

TruncateFile(c, i) ==
  /\ Running(c, i, "positional", "truncate")
  /\ TruncateImage(c, i, client[c].cursor, Settled(c))

FailCall(c, i) ==
  /\ i \in InFlight(c) /\ MayFail /\ ~Kind(c, {"session"})
  /\ client' = [client EXCEPT ![c].call[i].state = "failed"]
  /\ UNCHANGED <<disk, owner>>

\* The next call of a synchronous file or of a session: one after the other.
Sequential(c, i) ==
  /\ Kind(c, {"sync", "session"}) /\ (At(c, "using") \/ At(c, "editing"))
  /\ client[c].call[i].state = "idle"
  /\ \A j \in 1 .. i - 1 : client[c].call[j].state \in {"ok", "failed"}
  /\ client' = [client EXCEPT ![c].call[i].state = "run"]
  /\ UNCHANGED <<disk, owner>>

\* writeAll repeats write until the host has taken every byte: from a position
\* of its own, or from the cursor the wrapper keeps.
SyncWriteAll(c, i) ==
  LET at == job[c].calls[i].at IN
  /\ Running(c, i, "sync", "write")
  /\ \E n \in 1 .. Rest(c, i) :
       WriteSome(c, i, IF at = Here THEN client[c].cursor ELSE at + Offset(c, i), n, "ok")

\* A truncation takes the cursor back to the new end.
SyncTruncate(c, i) ==
  /\ Running(c, i, "sync", "truncate")
  /\ TruncateImage(c, i, Smaller(client[c].cursor, job[c].calls[i].at), "ok")

\* close() and abort() detach the native file before they close it.
End(c) ==
  /\ At(c, "using")
  /\ \/ \A i \in Calls(c) : client[c].call[i].state \in {"ok", "failed"}
     \/ job[c].concurrent
  /\ client' = [client EXCEPT ![c].end = job[c].ends, ![c].open = driver # "deno",
                              ![c].pc = "closing"]
  /\ UNCHANGED <<disk, owner>>

EndsNow(c, kind) == At(c, "closing") /\ Kind(c, {kind})

Closed(c, bytes) == disk' = bytes /\ LeaveWith(c, "ok") /\ UNCHANGED owner

\* Mutant: operations under way are not waited for.
NodeCloseAtOnce(c) ==
  driver \in {"node", "bun"} /\ EndsNow(c, "positional") /\ Closed(c, disk)

\* The handle of Node closes after the operations under way; its abort is a
\* close.
NodeClose(c) ==
  /\ driver \in {"node", "bun"} /\ EndsNow(c, "positional") /\ InFlight(c) = {}
  /\ Closed(c, disk)

\* The file of Deno has been closed at once; so is its abort.
DenoClose(c) == driver = "deno" /\ EndsNow(c, "positional") /\ Closed(c, disk)

\* OPFS publishes its copy, or drops it.
OpfsClose(c) ==
  /\ driver = "opfs" /\ EndsNow(c, "positional") /\ InFlight(c) = {}
  /\ Closed(c, IF job[c].ends = "close" THEN client[c].staged ELSE disk)

SyncClose(c) == EndsNow(c, "sync") /\ Closed(c, disk)

\* The native close throws: the lock is given back all the same.
FailClose(c) ==
  /\ EndsNow(c, "positional") \/ EndsNow(c, "sync")
  /\ MayFail /\ InFlight(c) = {}
  /\ LeaveWith(c, "failed")
  /\ UNCHANGED <<disk, owner>>

----------------------------------------------------------------------------
(* Sessions and reads.                                                     *)

\* createWritable reads the file, without the lock, if it keeps the data.
StartSession(c) ==
  LET kept == IF job[c].keep THEN Content(disk) ELSE <<>> IN
  /\ At(c, "start") /\ Kind(c, {"session"})
  /\ IF job[c].keep /\ disk = NoFile THEN Return(c, "failed")
     ELSE client' = [client EXCEPT ![c].staged = kept, ![c].base = kept, ![c].pc = "editing"]
  /\ UNCHANGED <<disk, owner>>

SessionWrite(c, i) ==
  LET at == job[c].calls[i].at IN
  /\ Running(c, i, "session", "write")
  /\ WriteSome(c, i, IF at = Here THEN client[c].cursor ELSE at, Rest(c, i), "ok")

SessionTruncate(c, i) ==
  /\ Running(c, i, "session", "truncate")
  /\ TruncateImage(c, i, Smaller(client[c].cursor, job[c].calls[i].at), "ok")

SessionIsOver(c) ==
  At(c, "editing") /\ \A i \in Calls(c) : client[c].call[i].state = "ok"

\* close() replaces the file with the bytes of the session.
CloseSession(c) ==
  /\ SessionIsOver(c) /\ job[c].ends = "close"
  /\ client' = [client EXCEPT ![c].chunks = <<client[c].staged>>, ![c].pc = "lock"]
  /\ UNCHANGED <<disk, owner>>

AbortSession(c) ==
  /\ SessionIsOver(c) /\ job[c].ends = "abort"
  /\ Return(c, "aborted")
  /\ UNCHANGED <<disk, owner>>

\* The size is looked at first, and the bytes are read afterwards.
StartRead(c) ==
  /\ At(c, "start") /\ Kind(c, {"read"})
  /\ IF disk = NoFile THEN Return(c, "failed")
     ELSE client' = [client EXCEPT ![c].base = disk, ![c].pc = "reading"]
  /\ UNCHANGED <<disk, owner>>

\* The bytes of a file from a position on, however many of them there are.
ReadDone(c, bytes, at, length) ==
  /\ At(c, "reading")
  /\ client' = [client EXCEPT ![c].outcome = "ok", ![c].pc = "done",
       ![c].got = [i \in 1 .. Smaller(length, Larger(0, Len(bytes) - at)) |-> bytes[at + i]]]
  /\ UNCHANGED <<disk, owner>>

NodeRead(c) ==
  LET rest == Len(client[c].base) - job[c].at IN
  driver = "node" /\ ReadDone(c, disk, job[c].at, Smaller(job[c].length, rest))

DenoRead(c) ==
  LET rest == Len(client[c].base) - job[c].at IN
  driver = "deno" /\ ReadDone(c, disk, job[c].at, Smaller(job[c].length, rest))

\* slice(start, end) of the size that was seen first.
BunRead(c) ==
  LET end == Smaller(Len(client[c].base), job[c].at + job[c].length) IN
  driver = "bun" /\ ReadDone(c, disk, job[c].at, end - job[c].at)

\* A File of OPFS is a snapshot.
OpfsRead(c) ==
  LET end == Smaller(Len(client[c].base), job[c].at + job[c].length) IN
  driver = "opfs" /\ ReadDone(c, client[c].base, job[c].at, end - job[c].at)

----------------------------------------------------------------------------

CallStep(c) ==
  \E i \in Calls(c) :
    \/ Issue(c, i) \/ NodeWrite(c, i) \/ DenoSeek(c, i) \/ DenoWrite(c, i)
    \/ OpfsWrite(c, i) \/ TruncateFile(c, i) \/ FailCall(c, i)
    \/ Sequential(c, i) \/ SyncWriteAll(c, i) \/ SyncTruncate(c, i)
    \/ SessionWrite(c, i) \/ SessionTruncate(c, i)

Step(c) ==
  /\ \/ Lock(c) \/ LockAborted(c) \/ Release(c) \/ RefuseOpen(c)
     \/ NodeWriteFile(c) \/ NodeWriteStream(c) \/ DenoWriteFile(c)
     \/ DenoWriteStream(c) \/ BunReplace(c) \/ OpfsWriteToNative(c)
     \/ Pull(c) \/ HostWritePiece(c) \/ OpfsWritePiece(c) \/ FinishWrite(c)
     \/ CloseWrite(c) \/ FailWrite(c)
     \/ CreateEmpty(c) \/ OpenWritableFile(c) \/ OpenSyncFile(c) \/ CallStep(c)
     \/ End(c) \/ NodeClose(c) \/ DenoClose(c) \/ OpfsClose(c) \/ SyncClose(c)
     \/ FailClose(c)
     \/ StartSession(c) \/ CloseSession(c) \/ AbortSession(c)
     \/ StartRead(c) \/ NodeRead(c) \/ DenoRead(c) \/ BunRead(c) \/ OpfsRead(c)
  /\ UNCHANGED <<driver, job>>

Fire(c) == Abort(c) /\ UNCHANGED <<driver, job>>

Finished == \A c \in Clients : At(c, "done") /\ InFlight(c) = {}

Stop == Finished /\ UNCHANGED vars

Next == (\E c \in Clients : Step(c) \/ Fire(c)) \/ Stop

\* Native operations settle, and the holder of a resource closes it.
Fairness == \A c \in Clients : WF_vars(Step(c))

Spec == Init /\ [][Next]_vars /\ Fairness

----------------------------------------------------------------------------
(* Properties.                                                             *)

\* A positional file of Deno has one cursor, which a write moves and uses in two
\* steps (deno.ts:181-190), and a close that waits for nothing (204-209).  No
\* code makes its caller wait for a call to end before it makes the next one or
\* closes: where the caller does not, the properties below make an exception.
Unwaited(c) == driver = "deno" /\ job[c].concurrent

CallersWait == \A c \in Clients : ~Unwaited(c)

\* What the calls of a resource make of a content, in the order of issue, and
\* the positions they may touch.
ApplyCall(acc, k) ==
  LET at == IF k.at = Here THEN acc.cursor ELSE k.at IN
  IF k.do = "truncate"
  THEN [bytes   |-> Truncate(acc.bytes, at),
        cursor  |-> Smaller(acc.cursor, at),
        touched |-> acc.touched \cup (at + 1 .. Len(acc.bytes))]
  ELSE [bytes   |-> WriteAt(acc.bytes, at, k.data),
        cursor  |-> at + Len(k.data),
        touched |-> acc.touched \cup (at + 1 .. at + Len(k.data))]

Applied(c) ==
  FoldLeft(ApplyCall, [bytes |-> client[c].base, cursor |-> 0, touched |-> {}], job[c].calls)

Discards(c) == driver = "opfs" /\ job[c].kind = "positional" /\ job[c].ends = "abort"

Want(c) ==
  LET j == job[c] IN
  CASE j.kind = "write" -> ApplyWrite(client[c].base, FlattenSeq(j.chunks), j.mode, j.at, j.truncate)
    [] Discards(c) -> client[c].base
    [] OTHER -> Applied(c).bytes

\* A job that returns with success leaves exactly the bytes that the shared
\* definition of a write gives, whatever the number of bytes the host takes at a
\* time, and however the calls of one resource overlap on Node, Bun and OPFS; on
\* Deno if they do not overlap (CallersWait).  An aborted positional file of OPFS
\* leaves what was there; a read that nothing overlaps returns the range.
SuccessIsExact ==
  CallersWait => \A c \in Clients :
    /\ At(c, "release") /\ client[c].outcome = "ok"
       /\ (\A i \in Calls(c) : client[c].call[i].state = "ok")
         => disk = Want(c)
    /\ job[c].kind = "read" /\ client[c].outcome = "ok" /\ disk = client[c].base
         => client[c].got = ByteRange(disk, job[c].at, job[c].length)

\* Where a write that fails half-way may leave its traces.
Touched(c) ==
  LET j    == job[c]
      from == IF j.mode = "append" THEN Len(client[c].base) ELSE j.at
      size == Len(FlattenSeq(j.chunks))
  IN  CASE j.kind = "session" \/ (j.kind = "write" /\ j.mode = "replace") -> 1 .. Len(client[c].base)
        [] j.kind = "write" ->
             from + 1 .. (IF j.truncate THEN Larger(Len(client[c].base), from + size) ELSE from + size)
        [] OTHER -> Applied(c).touched

\* The drivers that write in place may leave a half-written file when a native
\* operation, the source or the signal stops them, but never outside the bytes
\* the caller asked to write; on Deno if calls do not overlap (CallersWait).
DamageIsConfined ==
  CallersWait => \A c \in Clients :
    owner = c /\ ~At(c, "opening") =>
      \A p \in DOMAIN client[c].base \ Touched(c) : p \in DOMAIN disk /\ disk[p] = client[c].base[p]

\* A native file is open only while its client holds the lock of the file: the
\* lock is given back last, after every kind of failure too.  So are native
\* operations under way only under the lock, because close() waits for them;
\* except those of a positional file of Deno whose caller did not wait (Unwaited).
NativeWorkUnderLock ==
  \A c \in Clients :
    /\ client[c].open => owner = c
    /\ InFlight(c) # {} /\ ~At(c, "editing") => owner = c \/ Unwaited(c)

\* OPFS shows nothing of a write before a close that succeeds: a write that
\* fails, is aborted or is abandoned leaves the file as it was (or empty, if
\* opening it had to create it).  Only a sync handle writes in place.
PublishedAtClose ==
  [][driver = "opfs" /\ disk' # disk =>
       \/ disk = NoFile /\ disk' = <<>>
       \/ \E c \in Clients :
            /\ owner = c
            /\ \/ job[c].kind = "sync"
               \/ At(c, "closing") /\ client'[c].outcome = "ok" /\ job[c].ends # "abort"]_vars

\* Every call comes back and gives its lock back, if native operations end
\* and callers close what they opened.
EveryClientReturns == \A c \in Clients : <>(At(c, "done"))
=============================================================================
