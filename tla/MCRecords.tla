----------------------------- MODULE MCRecords -----------------------------
(* Records on small instances, and beside its behaviours one initial state *)
(* for each question that the modules without a state (Plans, Ranges,      *)
(* ObjectTree) are asked; see the README for the bounds.                   *)
EXTENDS Records

CONSTANTS
  c1, c2, k1, k2,
  NoQuestion,
  Subjects  \* of the questions

VARIABLE question

mcVars == <<vars, question>>

Paths2 == {<<1>>, <<2>>, <<1, 1>>, <<1, 2>>, <<1, 1, 1>>}

AllBackends == {"indexeddb", "localstorage", "cache", "unstorage", "rxdb", "drizzle", "db0"}

\* The byte that is there, those of two writes, and that of a set.
MCBytes == 0 .. 4

J(op, k) == [op |-> op, key |-> k, data |-> <<4>>, mode |-> "replace", at |-> 0]

\* An update of the byte that is there and appends behind it never overlap.
W(k, mode, byte) == [op |-> "write", key |-> k, data |-> <<byte>>, mode |-> mode, at |-> 0]

First ==
  {W(k1, "append", 2), W(k1, "update", 2), J("keys", k1), J("emptyDir", k1), J("clear", k1)}

Second ==
  {W(k1, "append", 3), J("set", k1), J("set", k2), J("remove", k2), J("get", k1), J("emptyDir", k1)}

MCJobs == {[c \in Clients |-> IF c = c1 THEN j ELSE k] : j \in First, k \in Second}

\* Both directories are there; each may hold its value.
MCStores ==
  {[f \in Paths |-> IF Len(f) = 1 THEN (IF f[1] = k1 \/ there THEN Directory ELSE NoRecord)
                    ELSE IF f[1] = k1 \/ (there /\ full) THEN <<1>> ELSE NoRecord] :
     there \in BOOLEAN, full \in BOOLEAN}

EmptyJobs == {[c \in Clients |-> J("emptyDir", k1)]}

FullStores == {[f \in Paths |-> IF Len(f) = 1 THEN Directory ELSE <<1>>]}

\* The writes of the runs are apart, as RecordsProofs needs them.
ASSUME WritesAreApart == Apart([k \in Keys |-> IF k = k1 THEN 1 ELSE 0])

Request(op, range, source, mode, size, bytes, long) ==
  [operation |-> op, range |-> range, source |-> source, mode |-> mode, size |-> size,
   inputBytes |-> bytes, longKey |-> long]

\* A read takes bytes of a file, a copy all of them; an append leaves at least
\* the bytes it brought, and so does an update.
MCRequests ==
  {Request("read", range, "bytes", "replace", n, n, long) : range, long \in BOOLEAN, n \in 0 .. 2} \cup
  {Request(op, FALSE, "bytes", "replace", n, n, long) :
     op \in {"copy", "move"}, n \in 0 .. 2, long \in BOOLEAN} \cup
  {Request("write", FALSE, source, "replace", n, n, n = 1) : source \in {"bytes", "stream"}, n \in 0 .. 5} \cup
  {Request("write", FALSE, source, mode, s[1], s[2], FALSE) :
     source \in {"bytes", "stream"}, mode \in {"append", "update"},
     s \in {<<0, 0>>, <<1, 1>>, <<2, 2>>, <<3, 0>>, <<3, 2>>, <<5, 1>>}}

P == INSTANCE Plans WITH Requests <- MCRequests

(* Plans: drivers of the three kinds with every combination of what they   *)
(* declare and what they have, adapters of callers, and the policies.      *)
DriverOf(kind, caps, modes, methods, readOnly, fileBytes) ==
  [kind |-> kind, caps |-> caps, modes |-> modes, methods |-> methods,
   readOnly |-> readOnly, fileBytes |-> fileBytes, parts |-> P!Whole]

RecordAdapters ==
  {P!RecordAdapter(P!DefineDriver(DriverOf("record", caps, modes, methods, readOnly, limit)), ro) :
     caps \in SUBSET {"streamRead", "rangeRead"}, modes \in {{}, {"replace", "append"}},
     methods \in SUBSET {"openReadStream", "writeStream", "readFile"},
     readOnly \in BOOLEAN, limit \in {P!Unlimited, 1}, ro \in BOOLEAN}

DenoKvAdapters ==
  {P!RecordAdapter(P!DenoKvDriver([mode |-> mode, inline |-> n, bytes |-> size, max |-> max], ro), FALSE) :
     mode \in {"auto", "always", "never"}, n \in 1 .. 2, size \in 1 .. 2, max \in 1 .. 2, ro \in BOOLEAN}

FileAdapters ==
  {P!FileAdapter(P!DefineDriver(DriverOf("file", caps, modes, methods, FALSE, P!Unlimited))) :
     caps \in {{"read", "write", "streamRead", "rangeRead", "copy", "move"}, {"read", "write", "copy"},
               {"read", "copy"}, {"write", "streamRead"}, {}},
     modes \in {{}, {"replace", "append", "update"}},
     methods \in SUBSET {"openReadStream", "writeStream", "copy", "move"}}

ObjectAdapters ==
  {P!ObjectAdapter(P!DefineDriver(DriverOf("object", caps, {}, methods, FALSE, limit))) :
     caps \in SUBSET {"streamRead", "streamWrite", "rangeRead", "copy"}, methods \in SUBSET {"copy"},
     limit \in {P!Unlimited, 1}}

CustomAdapters ==
  {[driver |-> DriverOf("file", {}, {}, {}, FALSE, P!Unlimited),
    caps |-> caps, modes |-> modes, methods |-> methods, refuses |-> {}] :
     caps \in SUBSET {"read", "write", "streamRead", "nativeCopy", "nativeMove"},
     modes \in {{}, {"update"}},
     methods \in SUBSET {"openReadStream", "writeStream", "copy", "move"}}

AllOptimizations == {"streamRead", "streamWrite", "rangeRead", "nativeCopy", "nativeMove"}

Contexts ==
  {[adapter |-> a, optimizations |-> o, maxBufferedWriteBytes |-> limit] :
     a \in RecordAdapters \cup DenoKvAdapters \cup FileAdapters \cup ObjectAdapters \cup CustomAdapters,
     o \in {{}, AllOptimizations, AllOptimizations \ {"streamRead"}, AllOptimizations \ {"nativeMove"}},
     limit \in 1 .. 2}

R == INSTANCE Ranges

T == INSTANCE ObjectTree WITH Names <- {1, 2}

KeySets == SUBSET [path : Paths2, slash : BOOLEAN]

Bodies == [size : 0 .. 5, part : 1 .. 3]

\* The storage rests while a question is asked.
Rest ==
  /\ backend = "db0" /\ shared = FALSE /\ order = <<>>
  /\ job = [c \in Clients |-> J("get", k1)]
  /\ store = [f \in Paths |-> NoRecord]
  /\ client = [c \in Clients |->
       [todo |-> <<>>, held |-> {}, seen |-> {}, outcome |-> "none", watch |-> {}]]

Ask(subject, S) ==
  /\ subject \in Subjects
  /\ \E x \in S : question = [about |-> subject, is |-> x]

MCInit ==
  \/ Init /\ question = NoQuestion
  \/ Rest /\ (Ask("plan", Contexts) \/ Ask("bytes", Bodies) \/ Ask("keys", KeySets))

MCNext == Next /\ UNCHANGED question

MCSpec == MCInit /\ [][MCNext]_mcVars

About(subject) == question # NoQuestion /\ question.about = subject

\* getPlan and the call agree for every adapter that defineAdapter lets pass: a
\* supported plan tells the route, the buffer and the parts of the call, and
\* what is planned as unsupported is refused.  A supported call may still be
\* refused in two cases, an object driver without the copy it declares and
\* parts of Deno KV that do not hold the bytes of a copy or a stream, and for
\* sizes that were not told; and the plan is stricter where Stricter says.
PlanIsHonest == About("plan") => P!PlansHonestly(question.is)

\* Bytes cut into parts, blocks or ranges by split, the S3, the Azure and the
\* Deno KV code come back as they were, whole, by range and rewritten.
PartsAndRangesExact == About("bytes") => R!PartsAndRangesExact(question.is.size, question.is.part)

\* The object adapter's listing, stat, createDir, writeFile and remove agree on
\* one tree, whatever keys there are and wherever the pages of a listing end.
TreeExact == About("keys") => T!TreeExact(question.is, 3)
=============================================================================
