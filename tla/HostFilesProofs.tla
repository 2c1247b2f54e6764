--------------------------- MODULE HostFilesProofs ---------------------------
(***************************************************************************)
(* Proofs about HostFiles: native work happens under the lock of the file, *)
(* and OPFS publishes only at a successful close.                          *)
(***************************************************************************)
EXTENDS HostFiles, TLAPS

Fields ==
  {"pc", "open", "cursor", "staged", "end", "chunks", "piece", "call", "signal", "outcome",
   "base", "got"}

\* The locals of a client are those of its job.
Shape ==
  /\ DOMAIN client = Clients
  /\ \A c \in Clients :
       /\ DOMAIN client[c] = Fields
       /\ DOMAIN client[c].call = Calls(c)
       /\ \A i \in Calls(c) : DOMAIN client[c].call[i] = {"state", "offset"}

\* Where a client holds the lock, and where its native file is open.
Holding == {"opening", "writing", "using", "closing", "release"}

OpenAt(c) == client[c].open => client[c].pc \in {"writing", "using", "closing"}

\* Calls are under way in a session, or in a resource until its close, which
\* only a positional file begins over calls that overlap.  Those of Deno stay
\* under way when the file is closed and the lock given back.
FlightAt(c) ==
  InFlight(c) # {} =>
    \/ At(c, "editing") /\ Kind(c, {"session"})
    \/ At(c, "using") /\ Kind(c, {"positional", "sync"})
    \/ At(c, "closing") /\ Kind(c, {"positional"}) /\ job[c].concurrent
    \/ client[c].pc \in {"release", "done"} /\ Kind(c, {"positional"}) /\ Unwaited(c)

KindAt(c) ==
  /\ At(c, "writing") => Kind(c, {"write", "session"})
  /\ At(c, "using") => Kind(c, {"positional", "sync"})
  /\ At(c, "editing") => Kind(c, {"session"})

\* A session that asks for the lock has been closed.
SessionAt(c) ==
  Kind(c, {"session"}) /\ client[c].pc \notin {"start", "editing", "done"} =>
    job[c].ends = "close"

Sound(c) == OpenAt(c) /\ FlightAt(c) /\ KindAt(c) /\ SessionAt(c)

HostInv ==
  /\ job \in Jobs
  /\ Shape
  /\ \A c \in Clients : Sound(c) /\ (owner = c <=> client[c].pc \in Holding)
----------------------------------------------------------------------------
(* What the actions do to the locals.                                      *)

Alone(c) == \A d \in Clients \ {c} : client'[d] = client[d]

\* The client moves, and its calls stand where they stood.
Quiet(c) == Shape' /\ Alone(c) /\ client'[c].call = client[c].call

Keeps(c) == client'[c].pc = client[c].pc /\ client'[c].open = client[c].open

Leaves(c, result) ==
  /\ Quiet(c)
  /\ client'[c].pc = "release" /\ client'[c].open = FALSE /\ client'[c].outcome = result

\* The call leaves through its finally.
LEMMA LeaveEffect ==
  ASSUME Shape, job' = job, NEW c \in Clients, NEW result, LeaveWith(c, result)
  PROVE  Leaves(c, result)
BY DEF LeaveWith, Leaves, Quiet, Shape, Fields, Calls, Alone

\* A job without a lock is over.
LEMMA ReturnEffect ==
  ASSUME Shape, job' = job, NEW c \in Clients, NEW result, Return(c, result)
  PROVE  /\ Quiet(c) /\ client'[c].pc = "done" /\ client'[c].open = client[c].open
BY DEF Return, Quiet, Shape, Fields, Calls, Alone

\* The facade's steps around a job.
LEMMA FacadeEffect ==
  ASSUME Shape, job' = job, NEW c \in Clients, Abort(c) \/ Lock(c) \/ Release(c)
  PROVE  /\ Quiet(c) /\ client'[c].open = client[c].open
         /\ Abort(c) => client'[c].pc = client[c].pc
         /\ Lock(c) => client'[c].pc = "opening"
         /\ Release(c) => client'[c].pc = "done"
<1>1. CASE Abort(c)
  BY <1>1 DEF Abort, Lock, Release, At, Quiet, Shape, Fields, Calls, Alone
<1>2. CASE Lock(c)
  BY <1>2 DEF Abort, Lock, Release, At, Quiet, Shape, Fields, Calls, Alone
<1>3. CASE Release(c)
  BY <1>3 DEF Abort, Lock, Release, At, Quiet, Shape, Fields, Calls, Alone
<1> QED
  BY <1>1, <1>2, <1>3

WriteOpens(c) ==
  \/ NodeWriteFile(c) \/ NodeWriteStream(c) \/ DenoWriteFile(c) \/ DenoWriteStream(c)
  \/ BunReplace(c) \/ OpfsWriteToNative(c)

\* Whoever opens a file for writing goes on to write.
LEMMA OpenEffect ==
  ASSUME Shape, job' = job, NEW c \in Clients, NEW inMemory, Opened(c, inMemory)
  PROVE  Quiet(c) /\ client'[c].pc = "writing" /\ owner' = owner
<1> DEFINE staged == Kept(c)
           cursor == WritePosition(Len(Content(disk)), job[c].mode, job[c].at)
           piece == IF inMemory THEN FlattenSeq(client[c].chunks) ELSE <<>>
           chunks == IF inMemory THEN <<>> ELSE client[c].chunks
           moved == [client[c] EXCEPT !.open = TRUE, !.end = "no", !.pc = "writing",
                                      !.staged = staged, !.cursor = cursor,
                                      !.piece = piece, !.chunks = chunks]
<1>1. client' = [client EXCEPT ![c] = moved] /\ owner' = owner
  BY DEF Opened
<1> HIDE DEF staged, cursor, piece, chunks
<1>2. DOMAIN client[c] = Fields /\ DOMAIN client = Clients
  BY DEF Shape
<1>3. /\ DOMAIN moved = Fields /\ moved.call = client[c].call /\ moved.pc = "writing"
  BY <1>2 DEF Fields
<1> HIDE DEF moved
<1>4. /\ client'[c] = moved /\ DOMAIN client' = Clients
      /\ \A d \in Clients : d # c => client'[d] = client[d]
  BY <1>1, <1>2
<1> QED
  BY <1>1, <1>3, <1>4 DEF Quiet, Shape, Calls, Alone

\* Only a write or a session that holds the lock opens a file for writing.
LEMMA WriteOpensEffect ==
  ASSUME Shape, job' = job, NEW c \in Clients, WriteOpens(c)
  PROVE  /\ At(c, "opening") /\ Kind(c, {"write", "session"})
         /\ Quiet(c) /\ client'[c].pc = "writing" /\ owner' = owner
<1>1. /\ At(c, "opening") /\ Kind(c, {"write", "session"})
      /\ \E inMemory : Opened(c, inMemory)
  BY DEF WriteOpens, NodeWriteFile, NodeWriteStream, DenoWriteFile, DenoWriteStream, BunReplace,
     OpfsWriteToNative, Writes
<1> QED
  BY <1>1, OpenEffect

\* The pieces of a write, and its last cut.
LEMMA PullEffect ==
  ASSUME Shape, job' = job, NEW c \in Clients, Pull(c)
  PROVE  Quiet(c) /\ Keeps(c)
BY DEF Pull, Quiet, Keeps, Shape, Fields, Calls, Alone

\* Writing a piece moves no one else and nothing of the lock.
LEMMA PieceEffect ==
  ASSUME Shape, job' = job, NEW c \in Clients, NEW n, WritePiece(c, n)
  PROVE  Quiet(c) /\ Keeps(c)
BY DEF WritePiece, Quiet, Keeps, Shape, Fields, Calls, Alone

\* After the last cut the file is closed.
LEMMA CutEffect ==
  ASSUME Shape, job' = job, NEW c \in Clients, NEW next, Cut(c, next)
  PROVE  Quiet(c) /\ client'[c].pc = "closing" /\ client'[c].open = client[c].open
BY DEF Cut, Quiet, Shape, Fields, Calls, Alone

\* Opening and closing a resource.
LEMMA ResourceEffect ==
  ASSUME Shape, job' = job, NEW c \in Clients, NEW kind, OpenResource(c, kind)
  PROVE  Quiet(c) /\ client'[c].pc = "using"
BY DEF OpenResource, Quiet, Shape, Fields, Calls, Alone

\* Once its calls are made the resource is closed.
LEMMA EndEffect ==
  ASSUME Shape, job' = job, NEW c \in Clients, End(c)
  PROVE  Quiet(c) /\ client'[c].pc = "closing"
BY ZenonT(40) DEF End, Quiet, Shape, Fields, Calls, Alone

\* Sessions and reads before they ask for the lock.
LEMMA StartEffect ==
  ASSUME Shape, job' = job, NEW c \in Clients, StartSession(c) \/ CloseSession(c) \/ StartRead(c)
  PROVE  /\ Quiet(c) /\ client'[c].open = client[c].open
         /\ StartSession(c) => client'[c].pc \in {"editing", "done"}
         /\ CloseSession(c) => client'[c].pc = "lock"
         /\ StartRead(c) => client'[c].pc \in {"reading", "done"}
<1>1. CASE StartSession(c)
  BY <1>1 DEF StartSession, CloseSession, StartRead, Return, At, Quiet, Shape, Fields, Calls, Alone
<1>2. CASE CloseSession(c)
  BY <1>2 DEF StartSession, CloseSession, StartRead, SessionIsOver, At, Quiet, Shape, Fields,
     Calls, Alone
<1>3. CASE StartRead(c)
  BY <1>3 DEF StartSession, CloseSession, StartRead, Return, SessionIsOver, At, Quiet, Shape,
     Fields, Calls, Alone
<1> QED
  BY <1>1, <1>2, <1>3

\* A read takes its snapshot and returns, without touching the file.
LEMMA ReadEffect ==
  ASSUME Shape, job' = job, NEW c \in Clients,
         NodeRead(c) \/ DenoRead(c) \/ BunRead(c) \/ OpfsRead(c)
  PROVE  /\ At(c, "reading") /\ UNCHANGED <<disk, owner>>
         /\ Quiet(c) /\ client'[c].pc = "done" /\ client'[c].open = client[c].open
<1>1. PICK bytes, at, length : ReadDone(c, bytes, at, length)
  BY DEF NodeRead, DenoRead, BunRead, OpfsRead
<1> QED
  BY <1>1 DEF ReadDone, Quiet, Shape, Fields, Calls, Alone

\* A step of one call of a resource or a session.
Progress(c, i) ==
  /\ Shape' /\ Alone(c) /\ Keeps(c)
  /\ \A j \in Calls(c) \ {i} : client'[c].call[j] = client[c].call[j]

\* A call is issued on its own.
LEMMA IssueEffect ==
  ASSUME Shape, job' = job, NEW c \in Clients, NEW i \in Calls(c), Issue(c, i) \/ Sequential(c, i)
  PROVE  Progress(c, i)
BY DEF Issue, Sequential, Progress, Keeps, Shape, Fields, Calls, Alone

\* A native write settles its own call only.
LEMMA WriteSomeEffect ==
  ASSUME Shape, job' = job, NEW c \in Clients, NEW i \in Calls(c),
         NEW at, NEW n, NEW settled, WriteSome(c, i, at, n, settled)
  PROVE  Progress(c, i) /\ owner' = owner
BY DEF WriteSome, Progress, Keeps, Shape, Fields, Calls, Alone

\* A native truncation settles its own call only.
LEMMA TruncateEffect ==
  ASSUME Shape, job' = job, NEW c \in Clients, NEW i \in Calls(c),
         NEW cursor, NEW settled, TruncateImage(c, i, cursor, settled)
  PROVE  Progress(c, i) /\ owner' = owner
<1> DEFINE copy == CopyWith(c, Truncate(Image(c), job[c].calls[i].at))
           one == [client[c].call[i] EXCEPT !.state = settled]
           calls == [client[c].call EXCEPT ![i] = one]
           moved == [client[c] EXCEPT !.staged = copy, !.cursor = cursor, !.call = calls]
<1>1. client' = [client EXCEPT ![c] = moved] /\ owner' = owner
  BY DEF TruncateImage
<1> HIDE DEF copy
<1>2. /\ DOMAIN client = Clients /\ DOMAIN client[c] = Fields
      /\ DOMAIN client[c].call = Calls(c)
      /\ \A j \in Calls(c) : DOMAIN client[c].call[j] = {"state", "offset"}
  BY DEF Shape
<1>3. DOMAIN one = {"state", "offset"}
  BY <1>2
<1> HIDE DEF one
<1>4. /\ DOMAIN calls = Calls(c) /\ calls[i] = one
      /\ \A j \in Calls(c) \ {i} : calls[j] = client[c].call[j]
  BY <1>2
<1> HIDE DEF calls
<1>5. /\ DOMAIN moved = Fields /\ moved.call = calls
      /\ moved.pc = client[c].pc /\ moved.open = client[c].open
  BY <1>2 DEF Fields
<1> HIDE DEF moved
<1>6. /\ client'[c] = moved /\ DOMAIN client' = Clients
      /\ \A d \in Clients : d # c => client'[d] = client[d]
  BY <1>1, <1>2
<1>7. \A j \in Calls(c) : DOMAIN calls[j] = {"state", "offset"}
  BY <1>2, <1>3, <1>4
<1>8. Shape'
  BY <1>4, <1>5, <1>6, <1>7 DEF Shape, Calls
<1> QED
  BY <1>1, <1>4, <1>5, <1>6, <1>8 DEF Progress, Keeps, Alone

\* A native seek settles its own call only.
LEMMA SeekEffect ==
  ASSUME Shape, job' = job, NEW c \in Clients, NEW i \in Calls(c), DenoSeek(c, i)
  PROVE  Progress(c, i) /\ owner' = owner
BY ZenonT(40) DEF DenoSeek, Progress, Keeps, Shape, Fields, Calls, Alone

\* A native failure settles its own call only.
LEMMA FailCallEffect ==
  ASSUME Shape, job' = job, NEW c \in Clients, NEW i \in Calls(c), FailCall(c, i)
  PROVE  Progress(c, i) /\ owner' = owner
BY DEF FailCall, Progress, Keeps, Shape, Fields, Calls, Alone

Native(c, i) ==
  \/ NodeWrite(c, i) \/ DenoSeek(c, i) \/ DenoWrite(c, i) \/ OpfsWrite(c, i)
  \/ TruncateFile(c, i) \/ FailCall(c, i) \/ SyncWriteAll(c, i) \/ SyncTruncate(c, i)
  \/ SessionWrite(c, i) \/ SessionTruncate(c, i)

\* A native operation belongs to a call that is under way.
LEMMA NativeEffect ==
  ASSUME Shape, job' = job, NEW c \in Clients, NEW i \in Calls(c), Native(c, i)
  PROVE  i \in InFlight(c) /\ Progress(c, i) /\ owner' = owner
<1>1. i \in InFlight(c)
  BY DEF Native, NodeWrite, DenoSeek, DenoWrite, OpfsWrite, TruncateFile, FailCall, SyncWriteAll,
     SyncTruncate, SessionWrite, SessionTruncate, Running, InFlight
<1>2. \/ \E at, n, settled : WriteSome(c, i, at, n, settled)
      \/ \E cursor, settled : TruncateImage(c, i, cursor, settled)
      \/ DenoSeek(c, i) \/ FailCall(c, i)
  BY DEF Native, NodeWrite, DenoWrite, OpfsWrite, TruncateFile, SyncWriteAll, SyncTruncate,
     SessionWrite, SessionTruncate
<1> QED
  BY <1>1, <1>2, WriteSomeEffect, TruncateEffect, SeekEffect, FailCallEffect

----------------------------------------------------------------------------
(* The invariant.                                                          *)

OwnerMoves(c) ==
  \/ owner' = owner /\ (client'[c].pc \in Holding <=> client[c].pc \in Holding)
  \/ owner = NoClient /\ owner' = c /\ client'[c].pc \in Holding
  \/ owner = c /\ owner' = NoClient /\ client'[c].pc \notin Holding

\* A step to where the file is closed.
Gone(c) == client'[c].pc \in {"release", "done"}

\* A step of one client leaves the others as they were.
LEMMA OthersStay ==
  ASSUME HostInv, UNCHANGED <<driver, job>>, NEW c \in Clients,
         Shape', Alone(c), Sound(c)', OwnerMoves(c)
  PROVE  HostInv'
<1>1. ASSUME NEW d \in Clients \ {c}
      PROVE  Sound(d)' /\ (owner' = d <=> client'[d].pc \in Holding)
  <2>1. client'[d] = client[d]
    BY DEF Alone
  <2>2. Sound(d) /\ (owner = d <=> client[d].pc \in Holding)
    BY DEF HostInv
  <2>3. Sound(d)'
    BY <2>1, <2>2
       DEF Sound, OpenAt, FlightAt, KindAt, SessionAt, At, Kind, InFlight, Calls, Unwaited
  <2>4. owner' = d <=> owner = d
    BY HostAssumption DEF OwnerMoves
  <2> QED
    BY <2>1, <2>2, <2>3, <2>4
<1>2. owner' = c <=> client'[c].pc \in Holding
  BY HostAssumption DEF OwnerMoves, HostInv
<1> QED
  BY <1>1, <1>2 DEF HostInv

\* A quiet step keeps what is under way.
LEMMA QuietFlight ==
  ASSUME job' = job, NEW c \in Clients, Quiet(c)
  PROVE  InFlight(c)' = InFlight(c)
BY DEF Quiet, InFlight, Calls

\* A quiet step with nothing under way, or past the close of a file of Deno.
LEMMA QuietStep ==
  ASSUME HostInv, UNCHANGED <<driver, job>>, NEW c \in Clients, Quiet(c), OwnerMoves(c),
         InFlight(c) = {} \/ (Gone(c) /\ Unwaited(c) /\ Kind(c, {"positional"})),
         OpenAt(c)', KindAt(c)', SessionAt(c)'
  PROVE  HostInv'
<1>1. Sound(c)'
  BY QuietFlight DEF Sound, FlightAt, Gone, Unwaited, Kind
<1> QED
  BY <1>1, OthersStay DEF Quiet

\* Nothing is under way outside sessions and resources.
LEMMA NothingUnderWay ==
  ASSUME HostInv, NEW c \in Clients,
         client[c].pc \notin {"editing", "using", "closing", "release", "done"}
  PROVE  InFlight(c) = {}
BY DEF HostInv, Sound, FlightAt, At

\* The lock is taken free, and given back with nothing open.
LEMMA FacadeStep ==
  ASSUME HostInv, UNCHANGED <<driver, job>>, NEW c \in Clients,
         Abort(c) \/ Lock(c) \/ LockAborted(c) \/ Release(c) \/ RefuseOpen(c)
  PROVE  HostInv'
<1>1. Shape /\ Sound(c) /\ (owner = c <=> client[c].pc \in Holding)
  BY DEF HostInv
<1>2. CASE Abort(c)
  <2>1. Quiet(c) /\ Keeps(c) /\ owner' = owner
    BY <1>1, <1>2, FacadeEffect DEF Abort, Keeps
  <2>2. Sound(c)'
    BY <1>1, <2>1, QuietFlight
       DEF Sound, OpenAt, FlightAt, KindAt, SessionAt, Keeps, At, Kind, Unwaited
  <2> QED
    BY <2>1, <2>2, OthersStay DEF Quiet, Keeps, OwnerMoves
<1>3. CASE Lock(c)
  <2>1. /\ Quiet(c) /\ client'[c].open = client[c].open /\ client'[c].pc = "opening"
        /\ client[c].pc = "lock" /\ owner = NoClient /\ owner' = c
    BY <1>1, <1>3, FacadeEffect DEF Lock, At
  <2> QED
    BY <1>1, <2>1, NothingUnderWay, QuietStep
       DEF OwnerMoves, Holding, Sound, OpenAt, KindAt, SessionAt, At, Kind
<1>4. CASE LockAborted(c)
  <2>1. /\ Quiet(c) /\ client'[c].open = client[c].open /\ client'[c].pc = "done"
        /\ client[c].pc = "lock" /\ owner' = owner
    BY <1>1, <1>4, ReturnEffect DEF LockAborted, At
  <2> QED
    BY <1>1, <2>1, NothingUnderWay, QuietStep
       DEF OwnerMoves, Holding, Sound, OpenAt, KindAt, SessionAt, At, Kind
<1>5. CASE Release(c)
  <2>1. /\ Quiet(c) /\ client'[c].open = client[c].open /\ client'[c].pc = "done"
        /\ client[c].pc = "release" /\ owner' = NoClient
    BY <1>1, <1>5, FacadeEffect DEF Release, At
  <2>2. InFlight(c) = {} \/ (Gone(c) /\ Unwaited(c) /\ Kind(c, {"positional"}))
    BY <1>1, <2>1 DEF Sound, FlightAt, At, Gone
  <2> QED
    BY <1>1, <2>1, <2>2, QuietStep
       DEF OwnerMoves, Holding, Sound, OpenAt, KindAt, SessionAt, At, Kind
<1>6. CASE RefuseOpen(c)
  <2>1. Leaves(c, "failed") /\ client[c].pc = "opening" /\ owner' = owner
    BY <1>1, <1>6, LeaveEffect DEF RefuseOpen, At
  <2> QED
    BY <1>1, <2>1, NothingUnderWay, QuietStep
       DEF Leaves, OwnerMoves, Holding, Sound, OpenAt, KindAt, SessionAt, At, Kind
<1> QED
  BY <1>2, <1>3, <1>4, <1>5, <1>6

\* A write or the close of a session, from the opening to the close.
LEMMA WriteFileStep ==
  ASSUME HostInv, UNCHANGED <<driver, job>>, NEW c \in Clients,
         WriteOpens(c) \/ Pull(c) \/ HostWritePiece(c) \/ OpfsWritePiece(c) \/ FinishWrite(c)
         \/ CloseWrite(c) \/ FailWrite(c)
  PROVE  HostInv'
<1>1. Shape /\ Sound(c) /\ (owner = c <=> client[c].pc \in Holding)
  BY DEF HostInv
<1>2. Kind(c, {"write", "session"}) /\ ~At(c, "editing") => InFlight(c) = {}
  BY <1>1 DEF Sound, FlightAt, At, Kind
<1>3. CASE WriteOpens(c)
  <2>1. /\ client[c].pc = "opening" /\ Kind(c, {"write", "session"})
        /\ Quiet(c) /\ client'[c].pc = "writing" /\ owner' = owner
    BY <1>1, <1>3, WriteOpensEffect DEF At
  <2> QED
    BY <1>1, <1>2, <2>1, QuietStep
       DEF OwnerMoves, Holding, Sound, OpenAt, KindAt, SessionAt, At, Kind
<1>4. CASE Pull(c) \/ HostWritePiece(c) \/ OpfsWritePiece(c)
  <2>1. client[c].pc = "writing" /\ Quiet(c) /\ Keeps(c) /\ owner' = owner
    BY <1>1, <1>4, PullEffect, PieceEffect
       DEF Pull, HostWritePiece, OpfsWritePiece, WritePiece, At
  <2> QED
    BY <1>1, <2>1, NothingUnderWay, QuietStep
       DEF Keeps, OwnerMoves, Holding, Sound, OpenAt, KindAt, SessionAt, At, Kind
<1>5. CASE FinishWrite(c)
  <2>1. /\ client[c].pc = "writing" /\ Quiet(c) /\ owner' = owner
        /\ client'[c].pc = "closing" /\ client'[c].open = client[c].open
    BY <1>1, <1>5, CutEffect DEF FinishWrite, Cut, SourceIsDone, At
  <2> QED
    BY <1>1, <2>1, NothingUnderWay, QuietStep
       DEF OwnerMoves, Holding, Sound, OpenAt, KindAt, SessionAt, At, Kind
<1>6. CASE CloseWrite(c) \/ FailWrite(c)
  <2>1. /\ client[c].pc \in {"writing", "closing"} /\ Kind(c, {"write", "session"})
        /\ owner' = owner /\ \E result : Leaves(c, result)
    BY <1>1, <1>6, LeaveEffect DEF CloseWrite, FailWrite, WriteStops, At
  <2> QED
    BY <1>1, <1>2, <2>1, QuietStep
       DEF Leaves, Quiet, OwnerMoves, Holding, Sound, OpenAt, KindAt, SessionAt, At, Kind
<1> QED
  BY <1>3, <1>4, <1>5, <1>6

\* The resource is closed when nothing is under way any more, or on Deno.
LEMMA CloseWaits ==
  ASSUME HostInv, NEW c \in Clients,
         NodeClose(c) \/ DenoClose(c) \/ OpfsClose(c) \/ SyncClose(c) \/ FailClose(c)
  PROVE  /\ client[c].pc = "closing" /\ owner' = owner
         /\ InFlight(c) = {} \/ (Unwaited(c) /\ Kind(c, {"positional"}))
         /\ \E result : LeaveWith(c, result)
<1>1. FlightAt(c)
  BY DEF HostInv, Sound
<1>2. CASE DenoClose(c)
  BY <1>1, <1>2 DEF DenoClose, EndsNow, Closed, FlightAt, Unwaited, At, Kind
<1>3. CASE SyncClose(c)
  BY <1>1, <1>3 DEF SyncClose, EndsNow, Closed, FlightAt, Kind, At
<1> QED
  BY <1>2, <1>3 DEF NodeClose, OpfsClose, FailClose, EndsNow, Closed, At

\* A resource is opened and closed under the lock of its file.
LEMMA ResourceStep ==
  ASSUME HostInv, UNCHANGED <<driver, job>>, NEW c \in Clients,
         CreateEmpty(c) \/ OpenWritableFile(c) \/ OpenSyncFile(c) \/ End(c)
         \/ NodeClose(c) \/ DenoClose(c) \/ OpfsClose(c) \/ SyncClose(c) \/ FailClose(c)
  PROVE  HostInv'
<1>1. Shape /\ Sound(c) /\ (owner = c <=> client[c].pc \in Holding)
  BY DEF HostInv
<1>2. CASE CreateEmpty(c)
  BY <1>2 DEF CreateEmpty, HostInv, Shape, Sound, OpenAt, FlightAt, KindAt, SessionAt, At, Kind,
     InFlight, Calls, Unwaited
<1>3. CASE OpenWritableFile(c) \/ OpenSyncFile(c)
  <2>1. /\ client[c].pc = "opening" /\ Kind(c, {"positional", "sync"})
        /\ Quiet(c) /\ client'[c].pc = "using" /\ owner' = owner
    BY <1>1, <1>3, ResourceEffect DEF OpenWritableFile, OpenSyncFile, OpenResource, At, Kind
  <2> QED
    BY <1>1, <2>1, NothingUnderWay, QuietStep
       DEF OwnerMoves, Holding, Sound, OpenAt, KindAt, SessionAt, At, Kind
<1>4. CASE End(c)
  <2>1. client[c].pc = "using" /\ Quiet(c) /\ client'[c].pc = "closing" /\ owner' = owner
    BY <1>1, <1>4, EndEffect DEF End, At
  <2>2. InFlight(c) # {} => Kind(c, {"positional"}) /\ job[c].concurrent
    <3>1. job[c].concurrent => Kind(c, {"positional"})
      BY HostAssumption DEF HostInv, Kind
    <3> QED
      BY <1>4, <3>1 DEF End, InFlight
  <2>3. FlightAt(c)'
    BY <2>1, <2>2, QuietFlight DEF FlightAt, At, Kind
  <2>4. OpenAt(c)' /\ KindAt(c)' /\ SessionAt(c)'
    BY <1>1, <2>1 DEF Sound, OpenAt, KindAt, SessionAt, At, Kind
  <2> QED
    BY <2>1, <2>3, <2>4, OthersStay DEF Quiet, Sound, OwnerMoves, Holding
<1>5. CASE NodeClose(c) \/ DenoClose(c) \/ OpfsClose(c) \/ SyncClose(c) \/ FailClose(c)
  <2>1. /\ client[c].pc = "closing" /\ owner' = owner
        /\ InFlight(c) = {} \/ (Unwaited(c) /\ Kind(c, {"positional"}))
        /\ \E result : Leaves(c, result)
    BY <1>1, <1>5, CloseWaits, LeaveEffect
  <2> QED
    BY <1>1, <2>1, QuietStep
       DEF Leaves, Gone, OwnerMoves, Holding, Sound, OpenAt, KindAt, SessionAt, At, Kind
<1> QED
  BY <1>2, <1>3, <1>4, <1>5

\* A step of a call under way, or the start of one where calls may start.
LEMMA CallsStep ==
  ASSUME HostInv, UNCHANGED <<driver, job>>, NEW c \in Clients, CallStep(c)
  PROVE  HostInv'
<1>1. Shape /\ Sound(c)
  BY DEF HostInv
<1>2. PICK i \in Calls(c) : Issue(c, i) \/ Sequential(c, i) \/ Native(c, i)
  BY DEF CallStep, Native
<1>3. Progress(c, i) /\ owner' = owner
  BY <1>1, <1>2, IssueEffect, NativeEffect DEF Issue, Sequential
<1>4. /\ InFlight(c)' \subseteq InFlight(c) \cup {i}
      /\ InFlight(c) # {} \/ At(c, "using") \/ At(c, "editing")
  <2>1. InFlight(c)' \subseteq InFlight(c) \cup {i}
    BY <1>3 DEF Progress, InFlight, Calls
  <2> QED
    BY <1>1, <1>2, <2>1, NativeEffect DEF Issue, Sequential
<1>5. FlightAt(c)'
  BY <1>1, <1>3, <1>4 DEF Sound, FlightAt, KindAt, Progress, Keeps, At, Kind, Unwaited
<1>6. OpenAt(c)' /\ KindAt(c)' /\ SessionAt(c)'
  BY <1>1, <1>3 DEF Sound, OpenAt, KindAt, SessionAt, Progress, Keeps, At, Kind
<1> QED
  BY <1>3, <1>5, <1>6, OthersStay DEF Progress, Keeps, Sound, OwnerMoves

\* Sessions and reads work without the lock and leave it alone.
LEMMA SessionStep ==
  ASSUME HostInv, UNCHANGED <<driver, job>>, NEW c \in Clients,
         StartSession(c) \/ CloseSession(c) \/ AbortSession(c) \/ StartRead(c)
         \/ NodeRead(c) \/ DenoRead(c) \/ BunRead(c) \/ OpfsRead(c)
  PROVE  HostInv'
<1>1. Shape /\ Sound(c) /\ (owner = c <=> client[c].pc \in Holding)
  BY DEF HostInv
<1>2. CASE StartSession(c) \/ StartRead(c)
  <2>1. /\ client[c].pc = "start" /\ Quiet(c) /\ client'[c].open = client[c].open
        /\ owner' = owner /\ client'[c].pc \in {"editing", "reading", "done"}
        /\ client'[c].pc = "editing" => Kind(c, {"session"})
        /\ client'[c].pc = "reading" => Kind(c, {"read"})
    <3>1. CASE StartSession(c)
      BY <1>1, <3>1, StartEffect DEF StartSession, At
    <3>2. CASE StartRead(c)
      BY <1>1, <3>2, StartEffect DEF StartRead, At
    <3> QED
      BY <1>2, <3>1, <3>2
  <2> QED
    BY <1>1, <2>1, NothingUnderWay, QuietStep
       DEF OwnerMoves, Holding, Sound, OpenAt, KindAt, SessionAt, At, Kind
<1>3. CASE CloseSession(c) \/ AbortSession(c)
  <2>1. client[c].pc = "editing" /\ InFlight(c) = {} /\ owner' = owner
    BY <1>3 DEF CloseSession, AbortSession, SessionIsOver, InFlight, At
  <2>2. /\ Quiet(c) /\ client'[c].open = client[c].open
        /\ \/ client'[c].pc = "lock" /\ job[c].ends = "close"
           \/ client'[c].pc = "done"
    BY <1>1, <1>3, StartEffect, ReturnEffect DEF CloseSession, AbortSession
  <2> QED
    BY <1>1, <2>1, <2>2, QuietStep
       DEF OwnerMoves, Holding, Sound, OpenAt, KindAt, SessionAt, At, Kind
<1>4. CASE NodeRead(c) \/ DenoRead(c) \/ BunRead(c) \/ OpfsRead(c)
  <2>1. /\ client[c].pc = "reading" /\ Quiet(c) /\ client'[c].pc = "done"
        /\ client'[c].open = client[c].open /\ owner' = owner
    BY <1>1, <1>4, ReadEffect DEF At
  <2> QED
    BY <1>1, <2>1, NothingUnderWay, QuietStep
       DEF OwnerMoves, Holding, Sound, OpenAt, KindAt, SessionAt, At, Kind
<1> QED
  BY <1>2, <1>3, <1>4

\* Every step keeps the invariant.
LEMMA NextHost ==
  ASSUME HostInv, [Next]_vars
  PROVE  HostInv'
<1>1. ASSUME NEW c \in Clients, Step(c) PROVE HostInv'
  BY <1>1, FacadeStep, WriteFileStep, ResourceStep, CallsStep, SessionStep DEF Step, WriteOpens
<1>2. ASSUME NEW c \in Clients, Fire(c) PROVE HostInv'
  BY <1>2, FacadeStep DEF Fire
<1>3. CASE UNCHANGED vars
  BY <1>3 DEF vars, HostInv, Shape, Sound, OpenAt, FlightAt, KindAt, SessionAt, At, Kind,
     InFlight, Calls, Unwaited
<1> QED
  BY <1>1, <1>2, <1>3 DEF Next, Stop

\* Before any job starts nothing is open and the lock is free.
LEMMA InitHost == Init => HostInv
<1> SUFFICES ASSUME Init PROVE HostInv
  OBVIOUS
<1>1. Shape
  BY DEF Init, NewClient, Shape, Fields, Calls
<1>2. ASSUME NEW c \in Clients
      PROVE  /\ client[c].pc \in {"start", "lock"} /\ client[c].open = FALSE
             /\ client[c].pc = "lock" => ~Kind(c, {"session"})
             /\ InFlight(c) = {}
  <2>1. client[c] = NewClient(job[c])
    BY DEF Init
  <2> QED
    BY <2>1 DEF NewClient, InFlight, Calls, Kind
<1>3. \A c \in Clients : Sound(c) /\ (owner = c <=> client[c].pc \in Holding)
  BY <1>2, HostAssumption DEF Init, Sound, OpenAt, FlightAt, KindAt, SessionAt, At, Kind, Holding
<1> QED
  BY <1>1, <1>3 DEF Init, HostInv

\* Locks, open files and calls under way agree in every state.
THEOREM HostInvariant == Spec => []HostInv
<1>1. Init => HostInv
  BY InitHost
<1>2. HostInv /\ [Next]_vars => HostInv'
  BY NextHost
<1> QED
  BY <1>1, <1>2, PTL DEF Spec

\* Whatever fails, is aborted or overlaps, a native file is open only under the
\* lock of the file, for any driver, jobs and clients.  Native operations are
\* under way only under it too, except where the close of Deno left them behind.
THEOREM WorkIsUnderLock == Spec => []NativeWorkUnderLock
<1>1. HostInv => NativeWorkUnderLock
  BY DEF HostInv, Sound, OpenAt, FlightAt, Holding, At, NativeWorkUnderLock
<1> QED
  BY <1>1, HostInvariant, PTL

----------------------------------------------------------------------------
(* OPFS publishes at a close.                                              *)

Publishes(c) ==
  /\ owner = c
  /\ \/ job[c].kind = "sync"
     \/ At(c, "closing") /\ client'[c].outcome = "ok" /\ job[c].ends # "abort"

\* The steps of a write change the copy, and its close the file.
LEMMA WritePublishes ==
  ASSUME HostInv, UNCHANGED job, driver = "opfs", NEW c \in Clients,
         WriteOpens(c) \/ Pull(c) \/ HostWritePiece(c) \/ OpfsWritePiece(c) \/ FinishWrite(c)
         \/ CloseWrite(c) \/ FailWrite(c)
  PROVE  disk' = disk \/ (disk = NoFile /\ disk' = <<>>) \/ Publishes(c)
<1>1. Shape /\ Sound(c) /\ (owner = c <=> client[c].pc \in Holding)
  BY DEF HostInv
<1>2. Kind(c, {"write", "session"}) => Staged(c)
  BY DEF Staged, Kind
<1>3. CASE WriteOpens(c)
  <2>1. OpfsWriteToNative(c)
    BY <1>3 DEF WriteOpens, NodeWriteFile, NodeWriteStream, DenoWriteFile, DenoWriteStream,
       BunReplace, Writes
  <2> QED
    BY <2>1 DEF OpfsWriteToNative, Content
<1>4. CASE Pull(c) \/ HostWritePiece(c) \/ OpfsWritePiece(c) \/ FinishWrite(c)
  <2>1. client[c].pc = "writing"
    BY <1>4 DEF Pull, HostWritePiece, OpfsWritePiece, WritePiece, FinishWrite, Cut, SourceIsDone, At
  <2>2. Staged(c)
    BY <1>1, <1>2, <2>1 DEF Sound, KindAt, At
  <2> QED
    BY <1>4, <2>2 DEF Pull, HostWritePiece, OpfsWritePiece, WritePiece, FinishWrite, Cut, DiskWith
<1>5. CASE CloseWrite(c)
  <2>1. client[c].pc = "closing" /\ Kind(c, {"write", "session"}) /\ client'[c].outcome = "ok"
    BY <1>1, <1>5, LeaveEffect DEF CloseWrite, Leaves, At
  <2>2. job[c].ends = "close"
    BY <1>1, <2>1, HostAssumption DEF HostInv, Sound, SessionAt, Kind
  <2>3. owner = c
    BY <1>1, <2>1 DEF Holding
  <2> QED
    BY <2>1, <2>2, <2>3 DEF Publishes, At
<1>6. CASE FailWrite(c)
  BY <1>6 DEF FailWrite
<1> QED
  BY <1>3, <1>4, <1>5, <1>6

\* So do the calls of a positional file; those of a sync handle are in place.
LEMMA ResourcePublishes ==
  ASSUME HostInv, UNCHANGED job, driver = "opfs", NEW c \in Clients,
         CreateEmpty(c) \/ OpenWritableFile(c) \/ OpenSyncFile(c) \/ End(c)
         \/ NodeClose(c) \/ DenoClose(c) \/ OpfsClose(c) \/ SyncClose(c) \/ FailClose(c)
  PROVE  disk' = disk \/ (disk = NoFile /\ disk' = <<>>) \/ Publishes(c)
<1>1. Shape /\ (owner = c <=> client[c].pc \in Holding)
  BY DEF HostInv
<1>2. CASE OpfsClose(c)
  <2>1. client[c].pc = "closing" /\ owner = c
    BY <1>1, <1>2 DEF OpfsClose, EndsNow, At, Holding
  <2>2. client'[c].outcome = "ok"
    BY <1>1, <1>2, LeaveEffect DEF OpfsClose, Closed, Leaves
  <2>3. disk' = disk \/ job[c].ends = "close"
    BY <1>2 DEF OpfsClose, Closed
  <2> QED
    BY <2>1, <2>2, <2>3 DEF Publishes, At
<1> QED
  BY <1>2 DEF CreateEmpty, OpenWritableFile, OpenSyncFile, OpenResource, End, NodeClose, DenoClose,
     SyncClose, FailClose, Closed

\* Under OPFS the calls of a session or a positional file stay staged; a sync handle writes through.
LEMMA CallPublishes ==
  ASSUME HostInv, UNCHANGED job, driver = "opfs", NEW c \in Clients, CallStep(c)
  PROVE  disk' = disk \/ Publishes(c)
<1>1. Shape /\ Sound(c) /\ (owner = c <=> client[c].pc \in Holding)
  BY DEF HostInv
<1>2. PICK i \in Calls(c) : Issue(c, i) \/ Sequential(c, i) \/ Native(c, i)
  BY DEF CallStep, Native
<1>3. CASE job[c].kind # "sync"
  <2>1. Staged(c)
    BY <1>3 DEF Staged, Kind
  <2> QED
    BY <1>2, <2>1 DEF Issue, Sequential, Native, NodeWrite, DenoSeek, DenoWrite, OpfsWrite,
       TruncateFile, FailCall, SyncWriteAll, SyncTruncate, SessionWrite, SessionTruncate,
       WriteSome, TruncateImage, DiskWith
<1>4. CASE job[c].kind = "sync" /\ Native(c, i)
  <2>1. client[c].pc = "using"
    BY <1>1, <1>4, NativeEffect DEF Sound, FlightAt, At, Kind, Unwaited
  <2> QED
    BY <1>1, <1>4, <2>1 DEF Publishes, Holding
<1>5. CASE Issue(c, i) \/ Sequential(c, i)
  BY <1>5 DEF Issue, Sequential
<1> QED
  BY <1>2, <1>3, <1>4, <1>5

\* Under OPFS whatever changes the file creates it empty or publishes.
LEMMA StepPublishes ==
  ASSUME HostInv, Next, driver = "opfs", disk' # disk
  PROVE  (disk = NoFile /\ disk' = <<>>) \/ \E c \in Clients : Publishes(c)
<1>1. ASSUME NEW c \in Clients, Step(c)
      PROVE  (disk = NoFile /\ disk' = <<>>) \/ Publishes(c)
  <2>1. CASE WriteOpens(c) \/ Pull(c) \/ HostWritePiece(c) \/ OpfsWritePiece(c)
             \/ FinishWrite(c) \/ CloseWrite(c) \/ FailWrite(c)
    BY <1>1, <2>1, WritePublishes DEF Step
  <2>2. CASE CreateEmpty(c) \/ OpenWritableFile(c) \/ OpenSyncFile(c) \/ End(c)
             \/ NodeClose(c) \/ DenoClose(c) \/ OpfsClose(c) \/ SyncClose(c) \/ FailClose(c)
    BY <1>1, <2>2, ResourcePublishes DEF Step
  <2>3. CASE CallStep(c)
    BY <1>1, <2>3, CallPublishes DEF Step
  <2>4. CASE Lock(c) \/ LockAborted(c) \/ Release(c) \/ RefuseOpen(c)
             \/ StartSession(c) \/ CloseSession(c) \/ AbortSession(c) \/ StartRead(c)
             \/ NodeRead(c) \/ DenoRead(c) \/ BunRead(c) \/ OpfsRead(c)
    BY <2>4 DEF Lock, LockAborted, Release, RefuseOpen, StartSession, CloseSession, AbortSession,
       StartRead, NodeRead, DenoRead, BunRead, OpfsRead, ReadDone
  <2> QED
    BY <1>1, <2>1, <2>2, <2>3, <2>4 DEF Step, WriteOpens
<1>2. ASSUME NEW c \in Clients, Fire(c) PROVE FALSE
  BY <1>2 DEF Fire, Abort
<1> QED
  BY <1>1, <1>2 DEF Next, Stop, vars

\* On OPFS nothing of a write is seen before a close that succeeds, except
\* through a sync handle: a write that fails, is aborted or is abandoned leaves
\* the file as it was, or empty if opening it had to create it.
THEOREM OpfsPublishesAtClose == Spec => PublishedAtClose
<1>1. HostInv /\ [Next]_vars =>
        [driver = "opfs" /\ disk' # disk =>
           \/ disk = NoFile /\ disk' = <<>>
           \/ \E c \in Clients :
                /\ owner = c
                /\ \/ job[c].kind = "sync"
                   \/ At(c, "closing") /\ client'[c].outcome = "ok" /\ job[c].ends # "abort"]_vars
  BY StepPublishes DEF Publishes, vars
<1> QED
  BY <1>1, HostInvariant, PTL DEF Spec, PublishedAtClose
=============================================================================
