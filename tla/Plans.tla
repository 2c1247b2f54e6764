------------------------------- MODULE Plans -------------------------------
(***************************************************************************)
(* What a filesystem says it can do before it does it: the capabilities    *)
(* that adapters derive from their drivers, getSupport (src/capability.ts),*)
(* createPlan (src/plan.ts), and beside them the route that a call of the  *)
(* facade really takes (src/filesystem.ts).                                *)
(*                                                                         *)
(* A driver d is [kind, caps, modes, methods, readOnly, fileBytes, parts], *)
(* where modes are its streamWriteModes, fileBytes its limit or Unlimited, *)
(* and parts = [mode, inline, bytes, max] how Deno KV partitions, or Whole.*)
(* An adapter is [caps, modes, methods, refuses, driver]: the methods that *)
(* it has, and those of them that throw on every call.  A context x is     *)
(* [adapter, optimizations, maxBufferedWriteBytes].  A request r is        *)
(* [operation, range, source, mode, size, inputBytes, longKey], where the  *)
(* size of a write is that of the file it leaves, and longKey says that    *)
(* the planner estimates the keys of its path above the provider's limit.  *)
(***************************************************************************)
EXTENDS Integers, FiniteSets

CONSTANT Requests  \* the calls to plan, with everything about them known

Unlimited == -1

\* A size that the caller does not tell the planner.
Unknown == -1

If(b, S) == IF b THEN S ELSE {}

Whole == [mode |-> "never", inline |-> 0, bytes |-> 1, max |-> 1]

----------------------------------------------------------------------------
(* Drivers and adapters.                                                   *)

\* A read-only record driver offers no write methods.
DefineRecordDriver(d) ==
  [d EXCEPT !.caps = IF d.readOnly THEN @ \ {"write"} ELSE @ \cup {"write"},
            !.methods = IF d.readOnly THEN @ \ {"writeFile", "writeStream"} ELSE @]

DefineDriver(d) == IF d.kind = "record" THEN DefineRecordDriver(d) ELSE d

RecordAdapter(d, readOnly) ==
  LET writable == ~readOnly /\ "write" \in d.caps IN
  [driver |-> d, methods |-> {"openReadStream", "writeStream"},
   refuses |-> If(~writable, {"writeFile", "writeStream"}),
   modes |-> If(writable /\ "writeStream" \in d.methods, d.modes),
   caps |-> {"read"} \cup If(writable, {"write"})
            \cup If({"streamRead"} \subseteq d.caps /\ "openReadStream" \in d.methods, {"streamRead"})
            \cup If({"rangeRead"} \subseteq d.caps /\ "readFile" \in d.methods, {"rangeRead"})]

\* The class has every method, and throws where the driver has none; it hands
\* readFile and writeFile on whatever the driver declares.
FileAdapter(d) ==
  [driver |-> d,
   methods |-> {"openReadStream", "writeStream", "copy", "move"},
   refuses |-> {"openReadStream", "writeStream", "copy", "move"} \ d.methods,
   modes |-> If("writeStream" \in d.methods, d.modes),
   caps |-> (d.caps \cap {"read", "write", "rangeRead"})
            \cup If("openReadStream" \in d.methods, d.caps \cap {"streamRead"})
            \cup If("copy" \in d.caps \cap d.methods, {"nativeCopy"})
            \cup If("move" \in d.caps \cap d.methods, {"nativeMove"})]

\* nativeCopy is what the driver declares; copy() also asks for its method.
ObjectAdapter(d) ==
  [driver |-> d,
   methods |-> {"openReadStream", "writeStream", "copy"},
   refuses |-> If("copy" \notin d.caps \cap d.methods, {"copy"}),
   modes |-> If("streamWrite" \in d.caps, {"replace"}),
   caps |-> {"read", "write"} \cup (d.caps \cap {"streamRead", "rangeRead"})
            \cup If("copy" \in d.caps, {"nativeCopy"})]

\* Deno KV: an inline limit that parts can hold, streams only in parts.
DenoKvDriver(parts, readOnly) ==
  DefineRecordDriver([kind |-> "record", caps |-> {"streamRead", "rangeRead"},
    modes |-> IF parts.mode = "never" THEN {} ELSE {"replace"},
    methods |-> {"readFile", "openReadStream", "writeFile", "writeStream"},
    readOnly |-> readOnly, fileBytes |-> Unlimited, parts |-> parts])

\* What defineAdapter demands of an adapter, its own and those of callers.
DefineAdapter(a) ==
  /\ "streamRead" \in a.caps => "openReadStream" \in a.methods
  /\ "nativeCopy" \in a.caps => "copy" \in a.methods
  /\ "nativeMove" \in a.caps => "move" \in a.methods
  /\ a.modes # {} => "writeStream" \in a.methods

----------------------------------------------------------------------------
(* getSupport.                                                             *)

Native(enabled, fallback) ==
  IF enabled THEN "native" ELSE IF fallback THEN "emulated" ELSE "unsupported"

Has(x, capability, method) == capability \in x.adapter.caps /\ method \in x.adapter.methods

ReadsStreams(x) ==
  "streamRead" \in x.optimizations /\ Has(x, "streamRead", "openReadStream")

WritesStreams(x, mode) ==
  /\ "streamWrite" \in x.optimizations /\ mode \in x.adapter.modes
  /\ "writeStream" \in x.adapter.methods

Readable(x) == "read" \in x.adapter.caps

Writable(x) == "write" \in x.adapter.caps

StreamWrite(x, mode) ==
  IF WritesStreams(x, mode) /\ x.adapter.driver.parts.mode # "never" THEN "partitioned"
  ELSE Native(WritesStreams(x, mode), Writable(x))

RangeRead(x) ==
  Native("rangeRead" \in x.optimizations /\ "rangeRead" \in x.adapter.caps, Readable(x))

Transfer(x, capability, method) ==
  Native(capability \in x.optimizations /\ Has(x, capability, method), Readable(x) /\ Writable(x))

GetSupport(x) ==
  [read        |-> Native(Readable(x), FALSE),
   write       |-> Native(Writable(x), FALSE),
   streamRead  |-> Native(ReadsStreams(x), Readable(x)),
   streamWrite |-> [mode \in {"replace", "append", "update"} |-> StreamWrite(x, mode)],
   rangeRead   |-> RangeRead(x),
   copy        |-> Transfer(x, "nativeCopy", "copy"),
   move        |-> Transfer(x, "nativeMove", "move")]

----------------------------------------------------------------------------
(* createPlan.                                                             *)

Mutates(operation) == operation \in {"write", "copy", "move", "remove"}

TooLargeFor(d, r) == d.fileBytes # Unlimited /\ r.size > d.fileBytes

\* The driver's own plan: its errors, and the parts it will write.
DriverPlanOf(problems, parts) == [problems |-> problems, parts |-> parts]

CreateFilePlan == DriverPlanOf({}, 0)

CreateRecordPlan(d, r) == DriverPlanOf(If(TooLargeFor(d, r), {"file-too-large"}), 0)

CreateObjectPlan(d, r) == DriverPlanOf(If(TooLargeFor(d, r), {"object-too-large"}), 0)

ReadOnlyPlan == DriverPlanOf({"read-only"}, 0)

\* Math.max(1, Math.ceil(size / partBytes))
PartCount(parts, size) == IF size = 0 THEN 1 ELSE (size + parts.bytes - 1) \div parts.bytes

UsesParts(parts, size) == parts.mode = "always" \/ (parts.mode = "auto" /\ size > parts.inline)

\* The keys of any operation, and the parts of a write whose size is known.
CreateDenoKvPlan(d, r) ==
  LET keys  == If(r.longKey, {"key-too-large"})
      sized == r.operation = "write" /\ r.size # Unknown
      count == PartCount(d.parts, r.size)
  IN  IF sized /\ d.parts.mode = "never" /\ r.size > d.parts.inline
      THEN DriverPlanOf(keys \cup {"partition-disabled"}, 0)
      ELSE IF sized /\ UsesParts(d.parts, r.size)
      THEN DriverPlanOf(keys \cup If(count > d.parts.max, {"too-many-parts"}), count)
      ELSE DriverPlanOf(keys, 0)

DriverPlan(d, r) ==
  CASE d.kind = "file" -> CreateFilePlan
    [] d.kind = "object" -> CreateObjectPlan(d, r)
    [] d.kind = "record" ->
         IF d.readOnly /\ Mutates(r.operation) THEN ReadOnlyPlan
         ELSE IF d.parts = Whole THEN CreateRecordPlan(d, r) ELSE CreateDenoKvPlan(d, r)

PlanRead(x, r) == IF r.range THEN GetSupport(x).rangeRead ELSE GetSupport(x).read

Buffers(x, r) == r.source = "stream" /\ GetSupport(x).streamWrite[r.mode] = "emulated"

\* The bytes that come in, if the request tells them: a replacement may tell
\* them as its size.
InputBytes(r) ==
  IF r.inputBytes = Unknown /\ r.mode = "replace" THEN r.size ELSE r.inputBytes

PlanWrite(x, r) ==
  IF Buffers(x, r) /\ InputBytes(r) > x.maxBufferedWriteBytes THEN "unsupported"
  ELSE IF r.source = "stream" THEN GetSupport(x).streamWrite[r.mode] ELSE GetSupport(x).write

CanStream(x) ==
  /\ GetSupport(x).streamRead = "native"
  /\ GetSupport(x).streamWrite["replace"] \in {"native", "partitioned"}

\* Mutant: a stream on the reading side is taken for a streamed copy.
PlanTransferReading(x, r) ==
  LET route == GetSupport(x)[r.operation] IN
  IF route = "emulated" /\ r.size > x.maxBufferedWriteBytes /\ GetSupport(x).streamRead # "native"
  THEN "unsupported" ELSE route

PlanTransfer(x, r) ==
  LET route == GetSupport(x)[r.operation] IN
  IF route = "emulated" /\ r.size > x.maxBufferedWriteBytes /\ ~CanStream(x)
  THEN "unsupported" ELSE route

\* A write that the driver partitions is planned as partitioned, even when the
\* facade collects its stream first.
CreatePlan(x, r) ==
  LET route == CASE r.operation = "read" -> PlanRead(x, r)
                 [] r.operation = "write" -> PlanWrite(x, r)
                 [] OTHER -> PlanTransfer(x, r)
      driver == DriverPlan(x.adapter.driver, r)
      supported == route # "unsupported" /\ driver.problems = {}
  IN  [supported |-> supported,
       support |-> IF ~supported THEN "unsupported"
                   ELSE IF driver.parts > 0 THEN "partitioned" ELSE route,
       parts |-> driver.parts,
       bufferBytes |-> IF r.operation = "write" /\ Buffers(x, r) /\ route # "unsupported"
                       THEN InputBytes(r) ELSE 0]

----------------------------------------------------------------------------
(* What the facade and its adapter do with the same request on a file of   *)
(* that size: the route that the metrics record, the bytes buffered for it *)
(* and the parts written, or a refusal.                                    *)

Refused == [done |-> FALSE, route |-> "unsupported", buffered |-> 0, parts |-> 0]

Taken(route, buffered) == [done |-> TRUE, route |-> route, buffered |-> buffered, parts |-> 0]

\* The facade looks at no capability here; only the adapter's method may throw.
Refuses(x, method) == method \in x.adapter.refuses

ExecuteRead(x, r) == Taken(IF r.range THEN GetSupport(x).rangeRead ELSE "native", 0)

\* #support: the label of a route that was not emulated.
Support(x, route, size) ==
  IF route # "emulated" /\ UsesParts(x.adapter.driver.parts, size) THEN "partitioned" ELSE route

\* writeFile of the adapter; Deno KV writes bytes inline or in parts, if it may.
DriverWriteFile(x, size, taken) ==
  LET parts == x.adapter.driver.parts
      count == IF UsesParts(parts, size) THEN PartCount(parts, size) ELSE 0
  IN  IF \/ Refuses(x, "writeFile")
         \/ parts # Whole /\ parts.mode = "never" /\ size > parts.inline
         \/ count > parts.max
      THEN Refused ELSE [taken EXCEPT !.parts = count]

\* writeStream of the adapter; Deno KV makes parts of it whatever its size.
DriverWriteStream(x, size, taken) ==
  LET parts == x.adapter.driver.parts
      count == IF parts.mode = "never" THEN 0 ELSE PartCount(parts, size)
  IN  IF Refuses(x, "writeStream") \/ count > parts.max
      THEN Refused ELSE [taken EXCEPT !.parts = count]

\* writeFile streams, collects a stream up to the limit, or has the bytes.
ExecuteWrite(x, r) ==
  IF r.source = "stream" /\ WritesStreams(x, r.mode)
  THEN DriverWriteStream(x, r.size, Taken(GetSupport(x).streamWrite[r.mode], 0))
  ELSE IF r.source = "bytes"
  THEN DriverWriteFile(x, r.size, Taken(Support(x, "native", r.size), 0))
  ELSE IF r.inputBytes > x.maxBufferedWriteBytes THEN Refused
  ELSE DriverWriteFile(x, r.size, Taken("emulated", r.inputBytes))

\* #copyFileUnlocked: provider copy, then streams, then a bounded buffer that
\* is filled from a stream or by readFile.
CopyFileUnlocked(x, r) ==
  IF "nativeCopy" \in x.optimizations /\ Has(x, "nativeCopy", "copy")
  THEN IF Refuses(x, "copy") THEN Refused ELSE Taken("native", 0)
  ELSE IF ReadsStreams(x) /\ Refuses(x, "openReadStream") THEN Refused
  ELSE IF ReadsStreams(x) /\ WritesStreams(x, "replace")
  THEN DriverWriteStream(x, r.size, Taken("emulated", 0))
  ELSE IF r.size > x.maxBufferedWriteBytes THEN Refused
  ELSE DriverWriteFile(x, r.size, Taken("emulated", r.size))

ExecuteCopy(x, r) ==
  LET copied == CopyFileUnlocked(x, r) IN
  IF copied.done THEN [copied EXCEPT !.route = GetSupport(x).copy] ELSE Refused

\* Without a native rename the file is copied, by whatever route, and removed.
ExecuteMove(x, r) ==
  IF "nativeMove" \in x.optimizations /\ Has(x, "nativeMove", "move")
  THEN IF Refuses(x, "move") THEN Refused ELSE Taken("native", 0)
  ELSE LET copied == CopyFileUnlocked(x, r) IN
       IF copied.done THEN [copied EXCEPT !.route = GetSupport(x).move] ELSE Refused

Execute(x, r) ==
  CASE r.operation = "read" -> ExecuteRead(x, r)
    [] r.operation = "write" -> ExecuteWrite(x, r)
    [] r.operation = "copy" -> ExecuteCopy(x, r)
    [] r.operation = "move" -> ExecuteMove(x, r)

----------------------------------------------------------------------------
(* Properties.                                                             *)

\* What a caller may ask the planner about a call: all of it, or without the
\* sizes that it does not know.
Asked(r) ==
  {[r EXCEPT !.size = size, !.inputBytes = bytes] :
     size \in {r.size, Unknown}, bytes \in {r.inputBytes, Unknown}}

\* The object driver declares a copy that it does not have: defineObjectDriver
\* lets it, and nativeCopy (adapter/object.ts:127) believes it.
CopyIsMissing(x, r) ==
  r.operation \in {"copy", "move"} /\ "nativeCopy" \in x.adapter.caps /\ Refuses(x, "copy")

\* Deno KV takes no more bytes than its parts hold for a copy, which its
\* planner does not look at, or for a stream that would have fitted inline.
PartsAreFull(x, r) ==
  LET parts == x.adapter.driver.parts IN
  /\ parts # Whole
  /\ r.operation \in {"copy", "move"} \/ (r.operation = "write" /\ r.source = "stream")
  /\ r.size > parts.bytes * parts.max \/ (parts.mode = "never" /\ r.size > parts.inline)

\* A file adapter or one of a caller does not declare what the facade asks of it
\* all the same; a record adapter refuses it itself.
Undeclared(x, operation) ==
  /\ x.adapter.driver.kind = "file"
  /\ CASE operation = "read" -> ~Readable(x)
       [] operation = "write" -> ~Writable(x)
       [] OTHER -> ~Readable(x) \/ ~Writable(x)

\* Where the plan is stricter than the call: a size the driver is told never to
\* accept, keys that only the provider may refuse, what was not declared, and a
\* rename emulated with a copy inside the provider.
Stricter(x, r) ==
  \/ TooLargeFor(x.adapter.driver, r)
  \/ r.longKey /\ x.adapter.driver.parts # Whole
  \/ Undeclared(x, r.operation)
  \/ r.operation = "move" /\ "nativeCopy" \in x.optimizations /\ Has(x, "nativeCopy", "copy")

\* The plan p of q told the route, the buffer and the parts of what was done.
Told(x, q, p, run) ==
  /\ \/ run.route = IF q.operation = "write" /\ Buffers(x, q) THEN "emulated" ELSE p.support
     \/ q.size = Unknown /\ run.route = "partitioned"
  /\ q.operation = "write" =>
       /\ p.bufferBytes \in {run.buffered, Unknown}
       /\ p.support = "partitioned" => run.parts > 0
       /\ q.size # Unknown => (run.parts > 0 => p.support = "partitioned")
       /\ p.parts \in {0, run.parts}

\* A call that was asked about as q: a supported one is done as it was told,
\* and refused only for a size that the planner did not know or in the two
\* cases named above; one planned as unsupported is refused.
Honest(x, q, r) ==
  LET plan == CreatePlan(x, q)
      run  == Execute(x, r)
  IN  /\ plan.supported /\ run.done => Told(x, q, plan, run)
      /\ plan.supported /\ ~run.done =>
           \/ CopyIsMissing(x, r) \/ PartsAreFull(x, r)
           \/ q # r /\ ~CreatePlan(x, r).supported
      /\ ~plan.supported => ~run.done \/ Stricter(x, q)

\* No route holds more than maxBufferedWriteBytes.
PlansHonestly(x) ==
  DefineAdapter(x.adapter) =>
    \A r \in Requests :
      /\ Execute(x, r).buffered <= x.maxBufferedWriteBytes
      /\ \A q \in Asked(r) : Honest(x, q, r)
=============================================================================
