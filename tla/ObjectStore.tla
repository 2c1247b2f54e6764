----------------------------- MODULE ObjectStore -----------------------------
(***************************************************************************)
(* One object of an object store, written by the object adapter            *)
(* (src/adapter/object.ts) of several clients through the S3 client        *)
(* (src/s3.ts) or the Azure client (src/azure.ts): conditional             *)
(* replacement and append, removal, the streamed upload of a body in parts *)
(* or blocks with a bounded pool, and the copy of another object in one    *)
(* request or range by range.                                              *)
(*                                                                         *)
(* A read is one action; a request that changes the service is sent,       *)
(* acted on and answered in separate steps (Requests).  A body is the      *)
(* sequence of its chunks, <<client, number>>, a copied chunk with the     *)
(* version of the source it was read from.  An entity tag names one state  *)
(* of the object.  The service is external and taken as its clients use it.*)
(***************************************************************************)
EXTENDS Requests, SequencesExt

CONSTANTS
  Clients,     \* calls of the adapter, each in a process of its own
  Absent,      \* no object, no block, no tag
  MaxChunks,   \* bound of the chunks of a streamed body
  Concurrency, \* S3ClientOptions.concurrency, AzureClientOptions.concurrency
  Setups       \* [service, delayed, shared, late, calls], see the variable setup

Ops == {"append", "replace", "remove", "stream", "copy"}

\* The first object's, and one for each attempt of a client.
Tags == {<<Absent, 0>>} \cup (Clients \X (Nat \ {0}))

ChunkNames == ((Clients \cup {Absent}) \X Nat) \cup (Clients \X Nat \X {0, 1})

Bodies == Seq(ChunkNames)

\* What the service is asked to do; a completion has a list of numbers as body.
Messages ==
  [do : {"put", "copy", "delete", "create", "part", "complete", "abort", "block", "commit"},
   by : Clients, part : 0 .. MaxChunks, cond : Tags \cup ({"always", "none"} \X {0}),
   body : Bodies \cup Seq(1 .. MaxChunks), retry : BOOLEAN]

Objects == [tag : Tags, body : Bodies]

ASSUME ObjectStoreAssumption ==
  /\ Slots = Clients \X (0 .. MaxChunks)
  /\ Absent \notin Clients \cup {"always", "none"} \cup Objects \cup ChunkNames
  /\ NoRequest \notin [try : Nat, msg : Messages]
  /\ MaxChunks \in Nat /\ Concurrency \in Nat \ {0}
  /\ \A s \in Setups :
       /\ s.service \in {"s3", "azure"} /\ {s.delayed, s.shared, s.late} \subseteq BOOLEAN
       /\ s.calls \subseteq [op : Ops, chunks : 0 .. MaxChunks]

VARIABLES
  setup,     \* service, delayed multipart, streams of several processes at a time,
             \* late requests, and the calls clients make
  call,      \* client -> the call it makes
  cl,        \* client -> the locals of its call
  obj,       \* the object: its tag and body
  source,    \* the version of the object that copies read, or Absent
  upload,    \* client -> its multipart upload on S3
  staged,    \* chunk number -> uncommitted block on Azure
  committed, \* chunk number -> block of the committed block list
  landed     \* history: the calls whose body was the object's at some time

storeVars == <<obj, source, upload, staged, committed, landed>>

objectVars == <<requestVars, setup, call, cl, storeVars>>

Chunks == 1 .. MaxChunks

\* The slot of a client's own request, and of its part or block i.
Main(c) == <<c, 0>>

Part(c, i) == <<c, i>>

Parts(c) == {i \in Chunks : Awaits(Part(c, i))}

\* Chunk i of a call that writes several: of its stream, or of the source as it
\* is now.
Piece(c, i) == IF call[c].op = "copy" THEN <<c, i, source>> ELSE <<c, i>>

Pieces(c) == [i \in 1 .. call[c].chunks |-> Piece(c, i)]

InPieces(c) == call[c].op \in {"stream", "copy"}

\* The chunks a call writes.
DataOf(c) == IF InPieces(c) THEN Pieces(c) ELSE <<<<c, 0>>>>

\* Preconditions beside a tag: none, and ifNoneMatch "*".
Always == <<"always", 0>>

IfNone == <<"none", 0>>

Message(do, c) ==
  [do |-> do, by |-> c, part |-> 0, cond |-> Always, body |-> <<>>,
   retry |-> do \notin {"create", "complete"}]

Become(c, pc) == cl' = [cl EXCEPT ![c].pc = pc]

----------------------------------------------------------------------------
ObjectInit ==
  /\ RequestInit
  /\ setup \in Setups
  /\ call = [c \in Clients |-> [op |-> "none", chunks |-> 0]]
  /\ cl = [c \in Clients |-> [pc |-> "idle", tag |-> Absent, next |-> 0, bad |-> {},
                              stop |-> FALSE, known |-> FALSE]]
  /\ obj \in {Absent, [tag |-> <<Absent, 0>>, body |-> <<<<Absent, 0>>>>]}
  /\ source = 0
  /\ upload = [c \in Clients |-> [state |-> "none", parts |-> {}]]
  /\ staged = [i \in Chunks |-> Absent]
  /\ committed = [i \in Chunks |-> Absent]
  /\ landed = {}

Ended(c) == cl[c].pc \in {"idle", "done", "failed", "unclean"}

\* Clients of one process queue for the path's lock; setup.shared is FALSE
\* where streamed writes and copies come from one process only.
Start(c, k) ==
  /\ cl[c].pc = "idle"
  /\ k.op \in {"stream", "copy"} /\ ~setup.shared => \A d \in Clients : ~Ended(d) => ~InPieces(d)
  /\ call' = [call EXCEPT ![c] = k]
  /\ Become(c, "head")
  /\ UNCHANGED <<requestVars, setup, storeVars>>

----------------------------------------------------------------------------
(* ObjectAdapter.writeFile and remove.                                     *)

SendMain(c, pc, msg) == Send(Main(c), msg) /\ Become(c, pc)

Put(c, cond, body) == [Message("put", c) EXCEPT !.cond = cond, !.body = body]

\* append of an existing object: the tag is kept, the body is read next.
HeadForAppend(c) ==
  /\ call[c].op = "append" /\ obj # Absent
  /\ cl' = [cl EXCEPT ![c].pc = "get", ![c].tag = obj.tag]
  /\ UNCHANGED requestVars

\* append of nothing: ifNoneMatch "*".
HeadForCreate(c) ==
  /\ call[c].op = "append" /\ obj = Absent
  /\ SendMain(c, "put", Put(c, IfNone, DataOf(c)))

\* replace: ifMatch if the object exists.
HeadForReplace(c) ==
  /\ call[c].op = "replace"
  /\ SendMain(c, "put", Put(c, IF obj = Absent THEN Always ELSE obj.tag, DataOf(c)))

HeadForRemove(c) ==
  /\ call[c].op = "remove"
  /\ IF obj = Absent THEN Become(c, "done") /\ UNCHANGED requestVars
                     ELSE SendMain(c, "delete", Message("delete", c))

\* S3Client.put of a stream: delayed multipart looks at two chunks first.
HeadForUpload(c) ==
  /\ call[c].op = "stream" /\ setup.service = "s3"
  /\ IF setup.delayed /\ call[c].chunks <= 1
     THEN SendMain(c, "put", Put(c, Always, DataOf(c)))
     ELSE SendMain(c, "create", Message("create", c))

HeadForBlocks(c) ==
  /\ call[c].op = "stream" /\ setup.service = "azure"
  /\ Become(c, "pool") /\ UNCHANGED requestVars

\* copy() looks at the source: one request, or a range for each piece.
HeadForCopy(c) ==
  /\ call[c].op = "copy" /\ source # Absent
  /\ IF call[c].chunks = 1 THEN SendMain(c, "copy", Message("copy", c))
     ELSE IF setup.service = "s3" THEN SendMain(c, "create", Message("create", c))
     ELSE Become(c, "pool") /\ UNCHANGED requestVars

\* The adapter's head, and the request it sends next.
ReadHead(c) ==
  /\ cl[c].pc = "head"
  /\ \/ HeadForAppend(c) \/ HeadForCreate(c) \/ HeadForReplace(c)
     \/ HeadForRemove(c) \/ HeadForUpload(c) \/ HeadForBlocks(c) \/ HeadForCopy(c)
  /\ UNCHANGED <<setup, call, storeVars>>

\* Mutant: the tag is forgotten.
GetUnconditionally(c) ==
  /\ cl[c].pc = "get" /\ obj # Absent
  /\ SendMain(c, "put", Put(c, Always, obj.body \o DataOf(c)))
  /\ UNCHANGED <<setup, call, storeVars>>

\* The body as it is now, the tag as it was.
Get(c) ==
  /\ cl[c].pc = "get" /\ obj # Absent
  /\ SendMain(c, "put", Put(c, cl[c].tag, obj.body \o DataOf(c)))
  /\ UNCHANGED <<setup, call, storeVars>>

\* The last head of a put.
Confirm(c) ==
  /\ cl[c].pc = "confirm"
  /\ Become(c, "done")
  /\ UNCHANGED <<requestVars, setup, call, storeVars>>

\* A read fails, or finds nothing to append to or to copy.  put() of S3 cleans
\* up after every error once it has an upload.
FailRead(c) ==
  /\ cl[c].pc \in {"head", "get", "confirm"}
  /\ Become(c, IF cl[c].known THEN "cleanup" ELSE "failed")
  /\ UNCHANGED <<requestVars, setup, call, storeVars>>

----------------------------------------------------------------------------
(* The pool of part requests (pooledMap) of putBlocks and put.             *)

Busy(c) == Cardinality(Parts(c)) + Cardinality(cl[c].bad)

PartMessage(c, i) ==
  [Message(IF setup.service = "s3" THEN "part" ELSE "block", c) EXCEPT !.part = i]

\* The next chunk.  A failed part keeps its place, so that a full pool with a
\* failure in it takes no further chunk.
Admit(c) ==
  LET i == cl[c].next + 1 IN
  /\ cl[c].pc = "pool" /\ ~cl[c].stop /\ i <= call[c].chunks /\ Busy(c) < Concurrency
  /\ Send(Part(c, i), PartMessage(c, i))
  /\ cl' = [cl EXCEPT ![c].next = i,
                      ![c].stop = cl[c].bad # {} /\ Busy(c) + 1 = Concurrency]
  /\ UNCHANGED <<setup, call, storeVars>>

\* The source stream fails before its end, which the pool learns when it has
\* a place; delayed multipart holds two chunks by then.
SourceFails(c) ==
  /\ cl[c].pc = "pool" /\ call[c].op = "stream" /\ ~cl[c].stop /\ Busy(c) < Concurrency
  /\ setup.service = "s3" /\ setup.delayed => cl[c].next >= 2
  /\ cl' = [cl EXCEPT ![c].bad = @ \cup {0}, ![c].stop = TRUE]
  /\ UNCHANGED <<requestVars, setup, call, storeVars>>

\* Mutant: the pool goes on waiting for a place.
PartFailedUnnoticed(c, i) == [cl[c] EXCEPT !.bad = @ \cup {i}]

PartFailed(c, i) ==
  [cl[c] EXCEPT !.bad = @ \cup {i}, !.stop = @ \/ Busy(c) >= Concurrency]

\* Mutant: the failure of one part ends the pool at once.
PoolFailsEarly(c) ==
  /\ cl[c].pc = "pool" /\ cl[c].bad # {}
  /\ IF setup.service = "s3" THEN Become(c, "cleanup") ELSE Become(c, "failed")
  /\ UNCHANGED <<requestVars, setup, call, storeVars>>

\* Every started part has settled and one has failed.
PoolFails(c) ==
  /\ cl[c].pc = "pool" /\ cl[c].bad # {} /\ Parts(c) = {}
  /\ cl[c].stop \/ cl[c].next = call[c].chunks
  /\ IF setup.service = "s3" THEN Become(c, "cleanup") ELSE Become(c, "failed")
  /\ UNCHANGED <<requestVars, setup, call, storeVars>>

\* Mutant: the list holds what is stored when the stream ends.
Stored(c) == {i \in 1 .. cl[c].next : i \notin Parts(c) \cup cl[c].bad}

PoolEndsEarly(c) ==
  /\ cl[c].pc = "pool" /\ cl[c].bad = {} /\ cl[c].next = call[c].chunks
  /\ call[c].chunks > 0
  /\ IF setup.service = "s3"
     THEN SendMain(c, "complete", [Message("complete", c) EXCEPT !.body = SetToSeq(Stored(c))])
     ELSE SendMain(c, "commit", [Message("commit", c) EXCEPT !.body = SetToSeq(Stored(c))])
  /\ UNCHANGED <<setup, call, storeVars>>

\* All parts are stored: complete the upload, or commit the block list.
PoolEnds(c) ==
  LET list == [i \in 1 .. call[c].chunks |-> i] IN
  /\ cl[c].pc = "pool" /\ cl[c].bad = {} /\ cl[c].next = call[c].chunks /\ Parts(c) = {}
  /\ call[c].chunks > 0
  /\ IF setup.service = "s3"
     THEN SendMain(c, "complete", [Message("complete", c) EXCEPT !.body = list])
     ELSE SendMain(c, "commit", [Message("commit", c) EXCEPT !.body = list])
  /\ UNCHANGED <<setup, call, storeVars>>

\* The stream had no bytes: S3 aborts its upload before putBytes.
PoolIsEmpty(c) ==
  /\ cl[c].pc = "pool" /\ call[c].chunks = 0 /\ cl[c].bad = {}
  /\ IF setup.service = "s3" THEN SendMain(c, "discard", Message("abort", c))
                             ELSE SendMain(c, "put", Put(c, Always, <<>>))
  /\ UNCHANGED <<setup, call, storeVars>>

PutEmpty(c) ==
  /\ cl[c].pc = "empty"
  /\ SendMain(c, "put", Put(c, Always, <<>>))
  /\ UNCHANGED <<setup, call, storeVars>>

\* The catch block of put() on S3.
Cleanup(c) ==
  /\ cl[c].pc = "cleanup"
  /\ SendMain(c, "abort", Message("abort", c))
  /\ UNCHANGED <<setup, call, storeVars>>

----------------------------------------------------------------------------
(* How a call goes on after its own request was answered or failed.        *)

Succeeded(pc) ==
  CASE pc \in {"put", "copy", "complete", "commit"} -> "confirm"
    [] pc = "create" -> "pool"
    [] pc = "delete" -> "done"
    [] pc = "discard" -> "empty"
    [] pc = "abort" -> "failed"

\* Mutant: a failed completion is not cleaned up.
FailedUncleaned(c) ==
  CASE cl[c].pc = "abort" -> "unclean"
    [] cl[c].pc # "abort" -> "failed"

Failed(c) ==
  CASE cl[c].pc = "abort" -> "unclean"
    [] cl[c].pc # "abort" /\ cl[c].known -> "cleanup"
    [] OTHER -> "failed"

Resumed(s, ok) ==
  LET c == s[1] IN
  IF s # Main(c) THEN IF ok THEN cl[c] ELSE PartFailed(c, s[2])
  ELSE IF ~ok THEN [cl[c] EXCEPT !.pc = Failed(c)]
  ELSE [cl[c] EXCEPT !.pc = Succeeded(@), !.known = @ \/ cl[c].pc = "create"]

Resume(s, ok) == cl' = [cl EXCEPT ![s[1]] = Resumed(s, ok)]

----------------------------------------------------------------------------
(* The service (external).                                                 *)

\* Every range of the source once and in its order, of whichever version.
IsCopy(c, body) ==
  /\ Len(body) = call[c].chunks
  /\ \A i \in 1 .. Len(body) : body[i][1] = c /\ body[i][2] = i

Holds(c, o) ==
  CASE call[c].op = "remove" -> o = Absent
    [] call[c].op = "append" -> o # Absent /\ <<c, 0>> \in ToSet(o.body)
    [] call[c].op = "copy" -> o # Absent /\ IsCopy(c, o.body)
    [] OTHER -> o # Absent /\ o.body = DataOf(c)

SetObject(o) == obj' = o /\ landed' = landed \cup {c \in Clients : Holds(c, o)}

Latest(i) == IF staged[i] # Absent THEN staged[i] ELSE committed[i]

\* The service has what a piece is read from: the request, or the source.
CanRead(c) == call[c].op = "copy" => source # Absent

\* Whether the service does what a message asks for.
Accepts(m) ==
  CASE m.do = "put" ->
         \/ m.cond = Always
         \/ m.cond = IfNone /\ obj = Absent
         \/ obj # Absent /\ obj.tag = m.cond
    [] m.do = "part" -> upload[m.by].state \in {"open", "aborted"} /\ CanRead(m.by)
    [] m.do \in {"block", "copy"} -> CanRead(m.by)
    [] m.do = "complete" ->
         upload[m.by].state = "open" /\ ToSet(m.body) \subseteq {p[2] : p \in upload[m.by].parts}
    [] m.do = "commit" -> \A i \in ToSet(m.body) : Latest(i) # Absent
    [] OTHER -> TRUE

NewTag(a) == <<a.msg.by, a.try>>

\* A whole blob replaces the committed blocks; staged ones may be dropped.
PutObject(a) ==
  /\ a.msg.do = "put"
  /\ SetObject([tag |-> NewTag(a), body |-> a.msg.body])
  /\ committed' = [i \in Chunks |-> Absent]
  /\ staged' \in {staged, [i \in Chunks |-> Absent]}
  /\ UNCHANGED <<source, upload>>

\* Copy Blob From URL, CopyObject: the source as it is.
CopyObject(a) ==
  /\ a.msg.do = "copy"
  /\ SetObject([tag |-> NewTag(a), body |-> Pieces(a.msg.by)])
  /\ committed' = [i \in Chunks |-> Absent]
  /\ staged' \in {staged, [i \in Chunks |-> Absent]}
  /\ UNCHANGED <<source, upload>>

DeleteObject(a) ==
  /\ a.msg.do = "delete"
  /\ SetObject(Absent)
  /\ committed' = [i \in Chunks |-> Absent]
  /\ UNCHANGED <<source, upload, staged>>

CreateUpload(a) ==
  /\ a.msg.do = "create"
  /\ upload' = [upload EXCEPT ![a.msg.by].state = "open"]
  /\ UNCHANGED <<obj, source, staged, committed, landed>>

\* A part takes the place of an earlier one of its number; one that comes after
\* the abort may be stored and stay.
UploadPart(a) ==
  /\ a.msg.do = "part"
  /\ upload' = [upload EXCEPT ![a.msg.by].parts =
       {p \in @ : p[2] # a.msg.part} \cup {Piece(a.msg.by, a.msg.part)}]
  /\ UNCHANGED <<obj, source, staged, committed, landed>>

PartOf(c, i) == CHOOSE p \in upload[c].parts : p[2] = i

CompleteUpload(a) ==
  /\ a.msg.do = "complete"
  /\ SetObject([tag |-> NewTag(a),
                body |-> [k \in 1 .. Len(a.msg.body) |-> PartOf(a.msg.by, a.msg.body[k])]])
  /\ upload' = [upload EXCEPT ![a.msg.by] = [state |-> "done", parts |-> {}]]
  /\ UNCHANGED <<source, staged, committed>>

\* An upload that is done or aborted is not found.
AbortUpload(a) ==
  /\ a.msg.do = "abort"
  /\ upload' = [upload EXCEPT ![a.msg.by] =
       IF @.state = "open" THEN [state |-> "aborted", parts |-> {}] ELSE @]
  /\ UNCHANGED <<obj, source, staged, committed, landed>>

PutBlock(a) ==
  /\ a.msg.do = "block"
  /\ staged' = [staged EXCEPT ![a.msg.part] = Piece(a.msg.by, a.msg.part)]
  /\ UNCHANGED <<obj, source, upload, committed, landed>>

\* "Latest": the staged block of that ID, else the committed one.
PutBlockList(a) ==
  /\ a.msg.do = "commit"
  /\ SetObject([tag |-> NewTag(a), body |-> [k \in 1 .. Len(a.msg.body) |-> Latest(a.msg.body[k])]])
  /\ committed' = [i \in Chunks |-> IF i \in ToSet(a.msg.body) THEN Latest(i) ELSE Absent]
  /\ staged' = [i \in Chunks |-> Absent]
  /\ UNCHANGED <<source, upload>>

Perform(a) ==
  IF Accepts(a.msg)
  THEN \/ PutObject(a) \/ CopyObject(a) \/ DeleteObject(a) \/ CreateUpload(a) \/ UploadPart(a)
       \/ CompleteUpload(a) \/ AbortUpload(a) \/ PutBlock(a) \/ PutBlockList(a)
  ELSE UNCHANGED storeVars

\* The service acts on an attempt, and its client may learn of it.
Serve(a) ==
  /\ Perform(a)
  /\ \/ Answer(a) /\ Resume(a.slot, Accepts(a.msg))
     \/ Unanswered(a) /\ UNCHANGED cl
  /\ UNCHANGED <<setup, call>>

\* Mutant: a status of 200 is trusted.
RefuseUnread(a) ==
  /\ Answer(a) /\ Resume(a.slot, a.msg.do = "complete")
  /\ UNCHANGED <<setup, call, storeVars>>

\* The service refuses; CompleteMultipartUpload even with status 200 and an
\* error in the body.
Refuse(a) ==
  /\ Answer(a) /\ Resume(a.slot, FALSE)
  /\ UNCHANGED <<setup, call, storeVars>>

Retry(s) == Resend(s, setup.late) /\ UNCHANGED <<setup, call, cl, storeVars>>

RequestFails(s) ==
  /\ GiveUp(s, setup.late) /\ Resume(s, FALSE)
  /\ UNCHANGED <<setup, call, storeVars>>

\* Somebody replaces or removes the source of the copies (external).
ChangeSource ==
  /\ source = 0 /\ \E k \in setup.calls : k.op = "copy"
  /\ source' \in {1, Absent}
  /\ UNCHANGED <<requestVars, setup, call, cl, obj, upload, staged, committed, landed>>

----------------------------------------------------------------------------
ClientStep(c) ==
  \/ ReadHead(c) \/ Get(c) \/ Confirm(c) \/ FailRead(c)
  \/ Admit(c) \/ PoolFails(c) \/ PoolEnds(c) \/ PoolIsEmpty(c) \/ PutEmpty(c) \/ Cleanup(c)

ObjectNext ==
  \/ \E c \in Clients : (\E k \in setup.calls : Start(c, k)) \/ ClientStep(c) \/ SourceFails(c)
  \/ \E a \in net : Serve(a) \/ Refuse(a)
  \/ \E s \in Slots : Retry(s) \/ RequestFails(s)
  \/ ChangeSource

ObjectSpec == ObjectInit /\ [][ObjectNext]_objectVars

\* Clients go on, and a request that is neither answered nor sent again fails:
\* its deadline, or Fetch's own.
ObjectFairSpec ==
  /\ ObjectSpec
  /\ \A c \in Clients : WF_objectVars(ClientStep(c))
  /\ \A s \in Slots : WF_objectVars(RequestFails(s))

----------------------------------------------------------------------------
(* Properties.                                                             *)

\* The chunks of c are those of the body behind a place, and a whole body of c.
StandsWhole(c, body, at) ==
  LET own == [i \in 1 .. Len(DataOf(c)) |-> body[at + i]] IN
  /\ IF call[c].op = "copy" THEN IsCopy(c, own) ELSE own = DataOf(c)
  /\ \A p \in DOMAIN body : body[p][1] = c <=> p - at \in DOMAIN own

\* Whatever is retried, lost or late, what one call writes is in the object
\* whole, in its order, together and once, or not at all: no torn upload, no
\* double append, no range of a copy missing or twice.
WrittenWholeOnce ==
  obj # Absent =>
    \A c \in Clients :
      \/ \A p \in DOMAIN obj.body : obj.body[p][1] # c
      \/ \E at \in 0 .. Len(obj.body) - Len(DataOf(c)) : StandsWhole(c, obj.body, at)

\* "conditional read-modify-write cycle": an append that lands extends the
\* object as it is at that moment, though head, get and put are three requests.
AppendExtends ==
  [][\A c \in Clients :
       /\ call[c].op = "append" /\ obj' # obj /\ obj' # Absent /\ obj'.tag[1] = c
       => obj'.body = (IF obj = Absent THEN <<>> ELSE obj.body) \o DataOf(c)]_objectVars

\* A call that returns has written its body: neither an error inside a
\* successful status nor a retry hides that it did not.
ReturnedHasLanded ==
  \A c \in Clients :
    cl[c].pc = "done" /\ call[c].op # "remove" => c \in landed

\* put() and copy() leave no multipart upload open that they know of, unless the
\* abort itself went unanswered; and "prevents a late part from arriving after
\* the abort request": no part is left in an aborted upload, provided that an
\* abandoned request is dead.
UploadsReleased ==
  \A c \in Clients :
    /\ cl[c].pc \in {"done", "failed"} /\ cl[c].known => upload[c].state # "open"
    /\ upload[c].state = "aborted" /\ ~setup.late => upload[c].parts = {}

\* Every call of the adapter returns, with a result or an error: the pool never
\* waits for a place that no request will free.
EveryWriteReturns == \A c \in Clients : cl[c].pc # "idle" ~> Ended(c)
=============================================================================
