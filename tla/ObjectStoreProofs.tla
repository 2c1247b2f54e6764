-------------------------- MODULE ObjectStoreProofs --------------------------
(***************************************************************************)
(* Proofs about ObjectStore, for any number of clients, chunks, attempts   *)
(* and places in the pool, and for every setup.                            *)
(***************************************************************************)
EXTENDS ObjectStore, SequenceTheorems, TLAPS

\* Azure numbers the blocks of every upload alike, so that its uploads must not
\* overlap, nor leave requests behind: the path lock of the facade sees to the
\* first, an abandoned request that is dead to the second.
AzureAlone == \A s \in Setups : s.service = "azure" => ~s.shared /\ ~s.late

OnS3 == setup.service = "s3"

----------------------------------------------------------------------------
(* What is under way.                                                      *)

Requested == [try : Nat \ {0}, msg : Messages]

Attempts == [slot : Slots, try : Nat \ {0}, msg : Messages]

Wires ==
  /\ req \in [Slots -> Requested \cup {NoRequest}]
  /\ net \in SUBSET Attempts

\* The messages of a slot that the service may still get.
Posted(s) ==
  {a.msg : a \in {b \in net : b.slot = s}} \cup (IF Awaits(s) THEN {req[s].msg} ELSE {})

\* Requests whose effect is to give the object a body.
Makers == {"put", "copy", "complete", "commit"}

Waiting == Makers \cup {"create", "delete", "discard", "abort"}

\* A call that has not yet sent the request that makes its body the object's.
Early == {"idle", "head", "get", "create", "pool", "discard", "empty"}

Pcs == Early \cup Waiting \cup {"confirm", "cleanup", "done", "failed", "unclean"}

DeedOf(pc) == IF pc = "discard" THEN "abort" ELSE pc

Numbers(c) == [i \in 1 .. call[c].chunks |-> i]

\* What a call puts in one piece.
PutSuits(c, m) ==
  /\ m = Put(c, m.cond, m.body) /\ m.body \in Bodies
  /\ call[c].op \in {"append", "replace", "stream", "copy"}
  /\ call[c].op = "append" =>
       \/ m.cond = IfNone /\ m.body = DataOf(c)
       \/ /\ m.cond \in Tags
          /\ m.body # <<>> /\ m.body[Len(m.body)] = <<c, 0>>
  /\ call[c].op \in {"replace", "stream"} => m.body = DataOf(c)
  /\ call[c].op = "copy" => m.body = <<>> /\ call[c].chunks = 0

\* What a call sends beside its parts.
Suits(c, m) ==
  \/ m.do \in {"create", "abort"} /\ m = Message(m.do, c) /\ InPieces(c) /\ OnS3
  \/ m.do = "delete" /\ m = Message("delete", c) /\ call[c].op = "remove"
  \/ m.do = "copy" /\ m = Message("copy", c) /\ call[c].op = "copy"
  \/ /\ m.do = (IF OnS3 THEN "complete" ELSE "commit") /\ InPieces(c)
     /\ m = [Message(m.do, c) EXCEPT !.body = Numbers(c)]
  \/ m.do = "put" /\ PutSuits(c, m)

Fits(s, m) ==
  /\ m \in Messages
  /\ IF s[2] = 0 THEN Suits(s[1], m) ELSE m = PartMessage(s[1], s[2]) /\ InPieces(s[1])

\* Every message is one its call makes, and a call makes one body.
SentAt(c) ==
  /\ \A s \in Slots : s[1] = c => \A m \in Posted(s) : Fits(s, m)
  /\ cl[c].pc \in {"idle", "head"} => \A s \in Slots : s[1] = c => Posted(s) = {}
  /\ cl[c].pc \in Early => \A m \in Posted(Main(c)) : m.do \notin Makers
  /\ \A m, n \in Posted(Main(c)) : m.do \in Makers /\ n.do \in Makers => m = n

\* Attempts are numbered in their order.
CountedAt(c) ==
  cl[c].pc \in Makers =>
    \A a \in net : a.slot = Main(c) /\ a.msg.do \in Makers => a.try <= req[Main(c)].try

----------------------------------------------------------------------------
(* Where the calls are.                                                    *)

Locals ==
  [pc : Pcs, tag : Tags \cup {Absent}, next : Nat, bad : SUBSET Nat, stop : BOOLEAN,
   known : BOOLEAN]

\* A call awaits what its place says, and its parts in the pool only.
Awaiting(c) ==
  /\ Awaits(Main(c)) <=> cl[c].pc \in Waiting
  /\ Awaits(Main(c)) => req[Main(c)].msg.do = DeedOf(cl[c].pc)
  /\ \A i \in Chunks : Awaits(Part(c, i)) => cl[c].pc = "pool" /\ i <= cl[c].next

\* Which calls get where.
Placed(c) ==
  /\ cl[c].pc # "idle" => call[c].op \in Ops
  /\ cl[c].pc \in {"create", "pool", "complete", "commit", "discard", "empty"} => InPieces(c)
  /\ cl[c].pc \in {"create", "complete", "discard", "empty"} => OnS3
  /\ cl[c].pc = "commit" => ~OnS3
  /\ cl[c].pc \in {"discard", "empty"} => call[c].chunks = 0
  /\ cl[c].pc = "get" => call[c].op = "append" /\ cl[c].tag # Absent
  /\ cl[c].pc = "copy" => call[c].op = "copy"
  /\ cl[c].pc = "delete" => call[c].op = "remove"
  /\ cl[c].pc \in {"idle", "head", "get", "create"} => cl[c].next = 0
  /\ cl[c].pc = "pool" => cl[c].next <= call[c].chunks
  /\ cl[c].pc = "pool" /\ OnS3 => cl[c].known
  /\ cl[c].pc \in {"complete", "discard", "empty", "cleanup", "abort", "unclean"} => cl[c].known
  /\ cl[c].known => InPieces(c) /\ OnS3 /\ cl[c].pc \notin {"idle", "head", "get", "create", "copy"}

Calls == [op : Ops \cup {"none"}, chunks : 0 .. MaxChunks]

\* A piece of c as it may be stored.
IsPiece(c, i, x) ==
  /\ x \in ChunkNames /\ x[1] = c /\ x[2] = i
  /\ call[c].op # "copy" => x = <<c, i>>

StoreTypes ==
  /\ obj \in Objects \cup {Absent}
  /\ source \in {0, 1, Absent}
  /\ upload \in [Clients -> [state : {"none", "open", "aborted", "done"}, parts : SUBSET ChunkNames]]
  /\ staged \in [Chunks -> ChunkNames \cup {Absent}]
  /\ committed \in [Chunks -> ChunkNames \cup {Absent}]
  /\ landed \in SUBSET Clients
  /\ \A c \in Clients :
       /\ cl[c].pc = "idle" => upload[c].parts = {}
       /\ \A p \in upload[c].parts : p[2] \in Chunks /\ IsPiece(c, p[2], p)

Settings == setup \in Setups /\ call \in [Clients -> Calls] /\ cl \in [Clients -> Locals]

Sound(c) == SentAt(c) /\ CountedAt(c) /\ Awaiting(c) /\ Placed(c)

CallInv == Wires /\ Settings /\ \A c \in Clients : Sound(c)

----------------------------------------------------------------------------
(* What the properties rest on.                                            *)

\* Unless requests outlive their client's patience, only awaited ones are
\* under way.
Current == ~setup.late => \A a \in net : Awaits(a.slot) /\ a = LastAttempt(a.slot)

\* An upload is created once, and closed before its call goes on.
Closed ==
  /\ \A a \in net : a.msg.do = "create" =>
       a.try = 1 /\ ~cl[a.slot[1]].known /\ upload[a.slot[1]].state = "none"
  /\ \A c \in Clients :
       /\ cl[c].pc \in {"idle", "head"} => upload[c].state = "none"
       /\ cl[c].known /\ cl[c].pc \in {"empty", "put", "confirm", "done", "failed"} =>
            upload[c].state # "open"
       /\ ~setup.late /\ upload[c].state = "aborted" =>
            /\ upload[c].parts = {}
            /\ cl[c].pc \in {"discard", "abort", "empty", "put", "confirm", "cleanup", "done",
                             "failed", "unclean"}

\* The tags that somebody has seen or may compare.
KnownTags ==
  {cl[c].tag : c \in Clients} \cup (IF obj = Absent THEN {} ELSE {obj.tag})
    \cup {m.cond : m \in UNION {Posted(s) : s \in Slots}}

\* A tag that is known has been given, and is given once.
TagsOnce ==
  \A t \in KnownTags \ {Absent} : t[1] \in Clients /\ t[2] # 0 =>
    /\ cl[t[1]].pc \notin Early
    /\ cl[t[1]].pc \in Makers => t[2] <= req[Main(t[1])].try
    /\ \A a \in net : a.slot[1] = t[1] /\ a.msg.do \in Makers => a.try # t[2]

\* A conditional append that would be accepted extends the object.
Extending ==
  \A c \in Clients :
    call[c].op = "append" =>
      \A m \in Posted(Main(c)) :
        m.do = "put" /\ m.cond # IfNone /\ obj # Absent /\ obj.tag = m.cond =>
          m.body = obj.body \o DataOf(c)

NoneOf(c, body) == \A p \in DOMAIN body : body[p][1] # c

\* How many chunks a call writes, and whether x is the one with number i.
Size(c) == IF InPieces(c) THEN call[c].chunks ELSE 1

Own(c, i, x) ==
  CASE call[c].op = "copy" -> x[1] = c /\ x[2] = i
    [] call[c].op = "stream" -> x = <<c, i>>
    [] OTHER -> x = <<c, 0>>

\* The chunks of a call in a body, whole and once, or none of them; unlike
\* StandsWhole, whatever the source of the copies is by now.
Whole(c, body) ==
  \/ NoneOf(c, body)
  \/ \E at \in 0 .. Len(body) - Size(c) :
       /\ \A i \in 1 .. Size(c) : Own(c, i, body[at + i])
       /\ \A p \in DOMAIN body : body[p][1] = c <=> p - at \in 1 .. Size(c)

WholeIn(c, body) == Whole(c, body) /\ (cl[c].pc \in Early => NoneOf(c, body))

\* A call is in no body before it sends its own, and whole in all of them.
WholeBodies ==
  \A c \in Clients :
    /\ obj # Absent => WholeIn(c, obj.body)
    /\ \A s \in Slots : \A m \in Posted(s) : m.do = "put" => WholeIn(c, m.body)

\* A chunk of a call that has been sent and answered, and has not failed.
Settled(c, i) ==
  /\ cl[c].pc \in {"pool", "commit"} /\ i \in 1 .. cl[c].next /\ i \notin cl[c].bad
  /\ ~Awaits(Part(c, i))

\* The service has chunk i of c, or none of that number.
Kept(c, i) ==
  \/ IsPiece(c, i, staged[i])
  \/ staged[i] = Absent /\ (committed[i] = Absent \/ IsPiece(c, i, committed[i]))

\* Uploads of Azure follow each other, and a stored block gives place to no
\* block of another upload.
UploadsApart ==
  \A c, d \in Clients : c # d /\ InPieces(c) /\ InPieces(d) => Ended(c) \/ Ended(d)

BlocksKept ==
  ~OnS3 =>
    /\ UploadsApart
    /\ \A c \in Clients :
         /\ cl[c].pc = "commit" => cl[c].next = call[c].chunks /\ cl[c].bad = {}
         /\ \A i \in Chunks : Settled(c, i) => Kept(c, i)

Landing == \A c \in Clients :
  cl[c].pc \in {"confirm", "done"} /\ call[c].op # "remove" => c \in landed
----------------------------------------------------------------------------
(* Slots, messages and requests.                                           *)

\* A slot is a client's own request or one of its parts.
LEMMA SlotOf ==
  /\ \A c \in Clients : Main(c) \in Slots /\ Main(c)[1] = c /\ Main(c)[2] = 0
  /\ \A c \in Clients, i \in Chunks :
       Part(c, i) \in Slots /\ Part(c, i)[1] = c /\ Part(c, i)[2] = i /\ Part(c, i) # Main(c)
  /\ \A s \in Slots : /\ s[1] \in Clients
                      /\ s = Main(s[1]) \/ (s[2] \in Chunks /\ s = Part(s[1], s[2]))
                      /\ s[2] = 0 <=> s = Main(s[1])
BY ObjectStoreAssumption DEF Main, Part, Chunks

\* The fields of a message without a body.
LEMMA MessageFields ==
  ASSUME NEW do, NEW c
  PROVE  /\ Message(do, c).do = do /\ Message(do, c).by = c /\ Message(do, c).part = 0
         /\ Message(do, c).cond = Always /\ Message(do, c).body = <<>>
         /\ Message(do, c).retry = (do \notin {"create", "complete"})
BY DEF Message

\* What says nothing but what to do is a message.
LEMMA MessageTyped ==
  ASSUME NEW c \in Clients,
         NEW do \in {"put", "copy", "delete", "create", "complete", "abort", "commit"}
  PROVE  Message(do, c) \in Messages
BY ObjectStoreAssumption DEF Message, Messages, Always, Bodies

\* What is put is a message.
LEMMA PutTyped ==
  ASSUME NEW c \in Clients, NEW cond \in Tags \cup {Always, IfNone}, NEW body \in Bodies
  PROVE  Put(c, cond, body) \in Messages
<1> DEFINE n == Message("put", c)
           t == [n EXCEPT !.cond = cond]
<1>1. cond \in Tags \cup ({"always", "none"} \X {0})
  BY DEF Always, IfNone
<1>2. n \in Messages
  BY MessageTyped
<1> HIDE DEF n
<1>3. t \in Messages
  BY <1>1, <1>2 DEF Messages
<1>4. [t EXCEPT !.body = body] \in Messages
  BY <1>3 DEF Messages
<1> QED
  BY <1>4 DEF Put, n

\* A list of chunk numbers is a message.
LEMMA ListTyped ==
  ASSUME NEW c \in Clients, NEW do \in {"complete", "commit"}, call \in [Clients -> Calls]
  PROVE  /\ [Message(do, c) EXCEPT !.body = Numbers(c)] \in Messages
         /\ [Message(do, c) EXCEPT !.body = Numbers(c)].do = do
         /\ [Message(do, c) EXCEPT !.body = Numbers(c)].cond = Always
         /\ [Message(do, c) EXCEPT !.body = Numbers(c)].by = c
<1>1. call[c].chunks \in 0 .. MaxChunks /\ MaxChunks \in Nat
  BY ObjectStoreAssumption DEF Calls
<1> DEFINE n == Message(do, c)
           list == Numbers(c)
<1>2. list \in Seq(1 .. MaxChunks)
  BY <1>1 DEF Numbers
<1>3. n \in Messages
  BY MessageTyped
<1>4. n.do = do /\ n.cond = Always /\ n.by = c
  BY MessageFields
<1> HIDE DEF n, list
<1>5. [n EXCEPT !.body = list] \in Messages
  BY <1>2, <1>3 DEF Messages
<1>6. /\ [n EXCEPT !.body = list].do = n.do /\ [n EXCEPT !.body = list].cond = n.cond
      /\ [n EXCEPT !.body = list].by = n.by
  BY <1>3 DEF Messages
<1> QED
  BY <1>4, <1>5, <1>6 DEF n, list

\* So is a part.
LEMMA PartTyped ==
  ASSUME NEW c \in Clients, NEW i \in Chunks
  PROVE  /\ PartMessage(c, i) \in Messages
         /\ PartMessage(c, i).do = (IF OnS3 THEN "part" ELSE "block")
         /\ PartMessage(c, i).by = c /\ PartMessage(c, i).part = i
         /\ PartMessage(c, i).cond = Always
<1> DEFINE d == IF OnS3 THEN "part" ELSE "block"
<1>1. i \in 0 .. MaxChunks
  BY ObjectStoreAssumption DEF Chunks
<1>2. PartMessage(c, i) =
        [do |-> d, by |-> c, part |-> i, cond |-> Always, body |-> <<>>,
         retry |-> d \notin {"create", "complete"}]
  BY DEF PartMessage, Message, OnS3
<1>3. Always \in Tags \cup ({"always", "none"} \X {0}) /\ <<>> \in Bodies
  BY DEF Always, Bodies
<1> QED
  BY <1>1, <1>2, <1>3 DEF Messages

\* A request is sent: its slot awaits it and the service may get it.
LEMMA SendEffect ==
  ASSUME Wires, NEW s \in Slots, NEW m \in Messages, Send(s, m)
  PROVE  /\ Wires' /\ ~Awaits(s) /\ Awaits(s)' /\ req'[s].msg = m /\ req'[s].try = 1
         /\ Posted(s)' = Posted(s) \cup {m}
         /\ \A t \in Slots \ {s} : Posted(t)' = Posted(t) /\ req'[t] = req[t]
         /\ net' = net \cup {[slot |-> s, try |-> 1, msg |-> m]}
<1> DEFINE r == [try |-> 1, msg |-> m]
           a == [slot |-> s, try |-> 1, msg |-> m]
<1>1. r \in Requested /\ a \in Attempts /\ r # NoRequest
  BY ObjectStoreAssumption DEF Requested, Attempts
<1>2. req' = [req EXCEPT ![s] = r] /\ net' = net \cup {a} /\ ~Awaits(s)
  BY DEF Send
<1>3. Wires'
  BY <1>1, <1>2 DEF Wires
<1>4. req'[s] = r /\ r.msg = m /\ r.try = 1 /\ a.slot = s /\ a.msg = m
  BY <1>2 DEF Wires
<1>5. \A t \in Slots \ {s} : req'[t] = req[t]
  BY <1>2 DEF Wires
<1>6. Awaits(s)'
  BY <1>1, <1>4 DEF Awaits
<1> HIDE DEF r, a
<1>7. Posted(s)' = Posted(s) \cup {m}
  BY <1>2, <1>4, <1>6 DEF Posted, Awaits
<1>8. \A t \in Slots \ {s} : Posted(t)' = Posted(t)
  BY <1>2, <1>4, <1>5 DEF Posted, Awaits
<1> QED
  BY <1>2, <1>3, <1>4, <1>5, <1>6, <1>7, <1>8 DEF a

\* What a step may leave of the messages under way: nothing new, and attempts
\* of the same requests.
Subsides(s) ==
  /\ \A t \in Slots \ {s} : req'[t] = req[t]
  /\ \A t \in Slots : Posted(t)' \subseteq Posted(t)

\* An attempt belongs to a slot and is posted there.
LEMMA AttemptPosted ==
  ASSUME Wires, NEW a \in net
  PROVE  a.slot \in Slots /\ a.msg \in Posted(a.slot) /\ a.try \in Nat \ {0} /\ a.msg \in Messages
BY DEF Wires, Attempts, Posted

\* The answer to an attempt ends its request.
LEMMA AnswerEffect ==
  ASSUME Wires, NEW a, Answer(a)
  PROVE  /\ a \in net /\ a.slot \in Slots /\ Awaits(a.slot) /\ ~Awaits(a.slot)'
         /\ a = LastAttempt(a.slot) /\ a.msg = req[a.slot].msg /\ a.try = req[a.slot].try
         /\ Wires' /\ net' = net \ {a} /\ Subsides(a.slot)
<1>1. a \in net /\ a.slot \in Slots
  BY AttemptPosted DEF Answer
<1>2. /\ req' = [req EXCEPT ![a.slot] = NoRequest] /\ net' = net \ {a}
      /\ Awaits(a.slot) /\ a = LastAttempt(a.slot)
  BY DEF Answer
<1>3. a.msg = req[a.slot].msg /\ a.try = req[a.slot].try
  BY <1>2 DEF LastAttempt
<1>4. Wires'
  BY <1>2 DEF Wires
<1>5. req'[a.slot] = NoRequest /\ \A t \in Slots \ {a.slot} : req'[t] = req[t]
  BY <1>1, <1>2 DEF Wires
<1>6. \A t \in Slots : Posted(t)' \subseteq Posted(t)
  BY <1>2, <1>5 DEF Posted, Awaits
<1> QED
  BY <1>1, <1>2, <1>3, <1>4, <1>5, <1>6 DEF Subsides, Awaits

\* An attempt that nobody learns of leaves its request waiting.
LEMMA UnansweredEffect ==
  ASSUME Wires, NEW a, Unanswered(a)
  PROVE  /\ a \in net /\ a.slot \in Slots /\ Wires' /\ net' = net \ {a} /\ req' = req
         /\ \A t \in Slots : Posted(t)' \subseteq Posted(t)
<1>1. a \in net /\ a.slot \in Slots /\ req' = req /\ net' = net \ {a}
  BY AttemptPosted DEF Unanswered
<1> QED
  BY <1>1 DEF Wires, Posted, Awaits

\* Another attempt of a request has its message and the next number.
LEMMA ResendEffect ==
  ASSUME Wires, NEW s \in Slots, NEW late, Resend(s, late)
  PROVE  /\ Awaits(s) /\ req[s].msg.retry /\ Wires' /\ Subsides(s)
         /\ Awaits(s)' /\ req'[s].msg = req[s].msg /\ req'[s].try = req[s].try + 1
         /\ net' = Abandoned(s, late)
                     \cup {[slot |-> s, try |-> req[s].try + 1, msg |-> req[s].msg]}
<1> DEFINE n == req[s].try + 1
           r == [req[s] EXCEPT !.try = n]
           a == [slot |-> s, try |-> n, msg |-> req[s].msg]
<1>1. Awaits(s) /\ req[s].msg.retry /\ req[s] \in Requested
  BY DEF Resend, Wires, Awaits
<1>2. req[s].try \in Nat /\ n \in Nat \ {0} /\ req[s].msg \in Messages
  BY <1>1 DEF Requested
<1>3. r \in Requested /\ r.msg = req[s].msg /\ r.try = n /\ r # NoRequest
  BY <1>1, <1>2, ObjectStoreAssumption DEF Requested
<1>4. a \in Attempts /\ a.slot = s /\ a.msg = req[s].msg
  BY <1>2 DEF Attempts
<1>5. req' = [req EXCEPT ![s] = r] /\ net' = Abandoned(s, late) \cup {a}
  BY DEF Resend, LastAttempt
<1> HIDE DEF r, a
<1>6. Wires' /\ req'[s] = r /\ \A t \in Slots \ {s} : req'[t] = req[t]
  BY <1>3, <1>4, <1>5 DEF Wires, Abandoned
<1>7. \A t \in Slots : Posted(t)' \subseteq Posted(t)
  BY <1>1, <1>3, <1>4, <1>5, <1>6 DEF Posted, Awaits, Abandoned
<1> QED
  BY <1>1, <1>3, <1>5, <1>6, <1>7 DEF Subsides, Awaits, a

\* A request that is given up is awaited no more.
LEMMA GiveUpEffect ==
  ASSUME Wires, NEW s \in Slots, NEW late, GiveUp(s, late)
  PROVE  /\ Awaits(s) /\ ~Awaits(s)' /\ Wires' /\ Subsides(s) /\ net' = Abandoned(s, late)
<1>1. Awaits(s) /\ req' = [req EXCEPT ![s] = NoRequest] /\ net' = Abandoned(s, late)
  BY DEF GiveUp
<1>2. Wires' /\ req'[s] = NoRequest /\ \A t \in Slots \ {s} : req'[t] = req[t]
  BY <1>1 DEF Wires, Abandoned
<1>3. \A t \in Slots : Posted(t)' \subseteq Posted(t)
  BY <1>1, <1>2 DEF Posted, Awaits, Abandoned
<1> QED
  BY <1>1, <1>2, <1>3 DEF Subsides, Awaits

----------------------------------------------------------------------------
(* The locals.                                                             *)

Alone(c) == \A d \in Clients \ {c} : cl'[d] = cl[d]

\* The client moves, and remembers what it knew.
Moved(c, pc) ==
  /\ cl' \in [Clients -> Locals] /\ Alone(c)
  /\ cl'[c].pc = pc /\ cl'[c].tag = cl[c].tag /\ cl'[c].next = cl[c].next
  /\ cl'[c].bad = cl[c].bad /\ cl'[c].known = cl[c].known

\* The client stays where it is.
Stayed(c) ==
  /\ cl' \in [Clients -> Locals] /\ Alone(c)
  /\ cl'[c].pc = cl[c].pc /\ cl'[c].tag = cl[c].tag /\ cl'[c].known = cl[c].known

\* What Become does.
LEMMA BecomeEffect ==
  ASSUME cl \in [Clients -> Locals], NEW c \in Clients, NEW pc \in Pcs, Become(c, pc)
  PROVE  Moved(c, pc)
<1> DEFINE u == [cl[c] EXCEPT !.pc = pc]
<1>1. cl[c] \in Locals
  OBVIOUS
<1>2. /\ u \in Locals /\ u.pc = pc /\ u.tag = cl[c].tag /\ u.next = cl[c].next
      /\ u.bad = cl[c].bad /\ u.known = cl[c].known
  BY <1>1 DEF Locals
<1>3. cl' = [cl EXCEPT ![c] = u]
  BY DEF Become
<1> HIDE DEF u
<1> QED
  BY <1>2, <1>3 DEF Moved, Alone

\* A head that finds something to append to keeps its tag.
LEMMA HeadEffect ==
  ASSUME cl \in [Clients -> Locals], NEW c \in Clients, obj \in Objects, HeadForAppend(c)
  PROVE  /\ cl' \in [Clients -> Locals] /\ Alone(c) /\ cl'[c].pc = "get" /\ cl'[c].tag = obj.tag
         /\ cl'[c].next = cl[c].next /\ cl'[c].bad = cl[c].bad /\ cl'[c].known = cl[c].known
<1> DEFINE v == [cl[c] EXCEPT !.pc = "get"]
           u == [v EXCEPT !.tag = obj.tag]
<1>1. cl[c] \in Locals /\ obj.tag \in Tags
  BY DEF Objects
<1>2. /\ v \in Locals /\ v.pc = "get" /\ v.next = cl[c].next
      /\ v.bad = cl[c].bad /\ v.known = cl[c].known
  BY <1>1 DEF Locals, Pcs, Early
<1> HIDE DEF v
<1>3. /\ u \in Locals /\ u.pc = "get" /\ u.tag = obj.tag /\ u.next = cl[c].next
      /\ u.bad = cl[c].bad /\ u.known = cl[c].known
  BY <1>1, <1>2 DEF Locals
<1>4. cl' = [cl EXCEPT ![c] = u]
  BY DEF HeadForAppend, v
<1> HIDE DEF u
<1> QED
  BY <1>3, <1>4 DEF Alone

\* The pool takes a chunk, or learns that there is none to come.
LEMMA PoolEffect ==
  ASSUME cl \in [Clients -> Locals], NEW c \in Clients, Admit(c) \/ SourceFails(c)
  PROVE  /\ Stayed(c)
         /\ Admit(c) => cl'[c].next = cl[c].next + 1 /\ cl'[c].bad = cl[c].bad
         /\ SourceFails(c) => cl'[c].next = cl[c].next /\ cl'[c].bad = cl[c].bad \cup {0}
<1> DEFINE n == cl[c].next + 1
           b == cl[c].bad \cup {0}
           f == cl[c].bad # {} /\ Busy(c) + 1 = Concurrency
           v == [cl[c] EXCEPT !.next = n]
           u == [v EXCEPT !.stop = f]
           w == [cl[c] EXCEPT !.bad = b]
           x == [w EXCEPT !.stop = TRUE]
<1>1. cl[c] \in Locals /\ n \in Nat /\ b \in SUBSET Nat /\ f \in BOOLEAN
  BY DEF Locals
<1> HIDE DEF n, b, f
<1>2. v \in Locals /\ v.pc = cl[c].pc /\ v.tag = cl[c].tag /\ v.known = cl[c].known
      /\ v.next = n /\ v.bad = cl[c].bad
  BY <1>1 DEF Locals
<1>3. w \in Locals /\ w.pc = cl[c].pc /\ w.tag = cl[c].tag /\ w.known = cl[c].known
      /\ w.next = cl[c].next /\ w.bad = b
  BY <1>1 DEF Locals
<1> HIDE DEF v, w
<1>4. u \in Locals /\ u.pc = cl[c].pc /\ u.tag = cl[c].tag /\ u.known = cl[c].known
      /\ u.next = n /\ u.bad = cl[c].bad
  BY <1>1, <1>2 DEF Locals
<1>5. x \in Locals /\ x.pc = cl[c].pc /\ x.tag = cl[c].tag /\ x.known = cl[c].known
      /\ x.next = cl[c].next /\ x.bad = b
  BY <1>1, <1>3 DEF Locals
<1>6. Admit(c) => cl' = [cl EXCEPT ![c] = u]
  BY DEF Admit, u, v, n, f
<1>7. SourceFails(c) => cl' = [cl EXCEPT ![c] = x]
  BY DEF SourceFails, x, w, b
<1> HIDE DEF u, x
<1>8. Admit(c) => Stayed(c) /\ cl'[c].next = n /\ cl'[c].bad = cl[c].bad
  BY <1>4, <1>6 DEF Stayed, Alone
<1>9. SourceFails(c) => Stayed(c) /\ cl'[c].next = cl[c].next /\ cl'[c].bad = b
  BY <1>5, <1>7 DEF Stayed, Alone
<1> QED
  BY <1>8, <1>9 DEF n, b

\* Where a call goes after its own request was answered.
LEMMA ResumeMain ==
  ASSUME cl \in [Clients -> Locals], NEW c \in Clients, cl[c].pc \in Waiting,
         NEW ok \in BOOLEAN, Resume(Main(c), ok)
  PROVE  /\ cl' \in [Clients -> Locals] /\ Alone(c)
         /\ cl'[c].tag = cl[c].tag /\ cl'[c].next = cl[c].next /\ cl'[c].bad = cl[c].bad
         /\ cl'[c].pc = IF ok THEN Succeeded(cl[c].pc) ELSE Failed(c)
         /\ cl'[c].known <=> cl[c].known \/ (ok /\ cl[c].pc = "create")
<1> DEFINE p == Succeeded(cl[c].pc)
           q == Failed(c)
           k == cl[c].known \/ cl[c].pc = "create"
           v == [cl[c] EXCEPT !.pc = p]
           u == [v EXCEPT !.known = k]
           w == [cl[c] EXCEPT !.pc = q]
<1>1. cl[c] \in Locals /\ k \in BOOLEAN
  BY DEF Locals
<1>2. p \in Pcs
  BY DEF Succeeded, Waiting, Makers, Pcs, Early
<1>3. q \in Pcs
  BY DEF Failed, Pcs
<1> HIDE DEF p, q, k
<1>4. /\ v \in Locals /\ v.pc = p /\ v.tag = cl[c].tag /\ v.next = cl[c].next
      /\ v.bad = cl[c].bad
  BY <1>1, <1>2 DEF Locals
<1>5. /\ w \in Locals /\ w.pc = q /\ w.tag = cl[c].tag /\ w.next = cl[c].next
      /\ w.bad = cl[c].bad /\ w.known = cl[c].known
  BY <1>1, <1>3 DEF Locals
<1> HIDE DEF v, w
<1>6. /\ u \in Locals /\ u.pc = p /\ u.tag = cl[c].tag /\ u.next = cl[c].next
      /\ u.bad = cl[c].bad /\ u.known = k
  BY <1>1, <1>4 DEF Locals
<1>7. Main(c)[1] = c
  BY DEF Main
<1>8. ok => cl' = [cl EXCEPT ![c] = u]
  BY <1>7 DEF Resume, Resumed, u, v, p, k
<1>9. ~ok => cl' = [cl EXCEPT ![c] = w]
  BY <1>7 DEF Resume, Resumed, w, q
<1> HIDE DEF u
<1>10. CASE ok
  BY <1>6, <1>8, <1>10 DEF Alone, p, k
<1>11. CASE ~ok
  BY <1>5, <1>9, <1>11 DEF Alone, q
<1> QED
  BY <1>10, <1>11

\* A part that was answered leaves its call in the pool.
LEMMA ResumePart ==
  ASSUME cl \in [Clients -> Locals], NEW c \in Clients, NEW i \in Chunks,
         NEW ok \in BOOLEAN, Resume(Part(c, i), ok)
  PROVE  /\ Stayed(c) /\ cl'[c].next = cl[c].next
         /\ cl'[c].bad = IF ok THEN cl[c].bad ELSE cl[c].bad \cup {i}
<1> DEFINE b == cl[c].bad \cup {i}
           f == cl[c].stop \/ Busy(c) >= Concurrency
           v == [cl[c] EXCEPT !.bad = b]
           u == [v EXCEPT !.stop = f]
<1>1. cl[c] \in Locals /\ b \in SUBSET Nat /\ f \in BOOLEAN
  BY DEF Locals, Chunks
<1> HIDE DEF b, f
<1>2. /\ v \in Locals /\ v.pc = cl[c].pc /\ v.tag = cl[c].tag /\ v.next = cl[c].next
      /\ v.bad = b /\ v.known = cl[c].known
  BY <1>1 DEF Locals
<1> HIDE DEF v
<1>3. /\ u \in Locals /\ u.pc = cl[c].pc /\ u.tag = cl[c].tag /\ u.next = cl[c].next
      /\ u.bad = b /\ u.known = cl[c].known
  BY <1>1, <1>2 DEF Locals
<1>4. Part(c, i)[1] = c /\ Part(c, i)[2] = i /\ Part(c, i) # Main(c)
  BY DEF Part, Main, Chunks
<1>5. ok => cl' = [cl EXCEPT ![c] = cl[c]]
  BY <1>4 DEF Resume, Resumed
<1>6. ~ok => cl' = [cl EXCEPT ![c] = u]
  BY <1>4 DEF Resume, Resumed, PartFailed, u, v, b, f
<1> HIDE DEF u
<1>7. CASE ok
  BY <1>1, <1>5, <1>7 DEF Stayed, Alone
<1>8. CASE ~ok
  BY <1>3, <1>6, <1>8 DEF Stayed, Alone, b
<1> QED
  BY <1>7, <1>8

----------------------------------------------------------------------------
(* Calls and their messages fit at every step.                             *)

\* What a call writes in one piece does not change under way.
LEMMA DataStays ==
  ASSUME NEW c \in Clients, call'[c] = call[c], call[c].op # "copy"
  PROVE  DataOf(c)' = DataOf(c)
BY DEF DataOf, InPieces, Pieces, Piece

\* A message goes on to fit its call.
LEMMA FitsStays ==
  ASSUME NEW c \in Clients, NEW s, NEW m, s[1] = c, call'[c] = call[c], setup' = setup, Fits(s, m)
  PROVE  Fits(s, m)'
<1>1. InPieces(c)' = InPieces(c) /\ OnS3' = OnS3 /\ Numbers(c)' = Numbers(c)
  BY DEF InPieces, OnS3, Numbers
<1>2. PutSuits(c, m) => PutSuits(c, m)'
  BY DataStays DEF PutSuits
<1>3. Suits(c, m) => Suits(c, m)'
  BY <1>1, <1>2 DEF Suits
<1>4. PartMessage(c, s[2])' = PartMessage(c, s[2])
  BY DEF PartMessage
<1> QED
  BY <1>1, <1>3, <1>4 DEF Fits

\* A step of one client's calls leaves the others as they were.
LEMMA OthersSound ==
  ASSUME CallInv, NEW c \in Clients, Alone(c), Wires', Settings', setup' = setup,
         \A d \in Clients \ {c} : call'[d] = call[d],
         \A s \in Slots : s[1] # c => req'[s] = req[s] /\ Posted(s)' \subseteq Posted(s),
         \A a \in net' : a.slot[1] # c => a \in net,
         Sound(c)'
  PROVE  CallInv'
<1> SUFFICES ASSUME NEW d \in Clients \ {c}
             PROVE  Sound(d)'
  BY DEF CallInv
<1>1. Sound(d) /\ cl'[d] = cl[d] /\ call'[d] = call[d]
  BY DEF CallInv, Alone
<1>2. /\ Main(d) \in Slots /\ Main(d)[1] = d
      /\ \A i \in Chunks : Part(d, i) \in Slots /\ Part(d, i)[1] = d
  BY SlotOf
<1>3. \A s \in Slots : s[1] = d => Posted(s)' \subseteq Posted(s) /\ req'[s] = req[s]
  OBVIOUS
<1>4. SentAt(d)'
  <2>1. \A s \in Slots : s[1] = d => \A m \in Posted(s)' : Fits(s, m)'
    BY <1>1, <1>3, FitsStays DEF Sound, SentAt
  <2>2. Posted(Main(d))' \subseteq Posted(Main(d))
    BY <1>2, <1>3
  <2> QED
    BY <1>1, <1>3, <2>1, <2>2 DEF Sound, SentAt
<1>5. CountedAt(d)'
  BY <1>1, <1>2, <1>3 DEF Sound, CountedAt
<1>6. Awaiting(d)'
  BY <1>1, <1>2, <1>3 DEF Sound, Awaiting, Awaits
<1>7. Placed(d)'
  BY <1>1 DEF Sound, Placed, InPieces, OnS3
<1> QED
  BY <1>4, <1>5, <1>6, <1>7 DEF Sound

\* A step without a request of a client that awaits none.
LEMMA QuietSound ==
  ASSUME CallInv, NEW c \in Clients, Alone(c), cl' \in [Clients -> Locals],
         UNCHANGED <<requestVars, setup, call>>,
         cl[c].pc \notin Waiting, cl'[c].pc \notin Waiting, cl'[c].pc \notin {"idle", "head"},
         cl'[c].pc \in Early => cl[c].pc \in Early,
         \A i \in Chunks : Awaits(Part(c, i)) =>
           cl'[c].pc = "pool" /\ cl'[c].next >= cl[c].next,
         Placed(c)'
  PROVE  CallInv'
<1>1. Sound(c) /\ Wires /\ Settings
  BY DEF CallInv
<1>2. req' = req /\ net' = net /\ call' = call /\ setup' = setup
  BY DEF requestVars
<1>3. \A s \in Slots : Posted(s)' = Posted(s)
  BY <1>2 DEF Posted, Awaits
<1>4. Wires' /\ Settings'
  BY <1>1, <1>2 DEF Wires, Settings
<1>5. Main(c) \in Slots
  BY SlotOf
<1>6. SentAt(c)'
  <2>1. \A s \in Slots : s[1] = c => \A m \in Posted(s)' : Fits(s, m)'
    BY <1>1, <1>2, <1>3, FitsStays DEF Sound, SentAt
  <2> QED
    BY <1>1, <1>3, <1>5, <2>1 DEF Sound, SentAt
<1>7. CountedAt(c)'
  BY DEF CountedAt, Waiting
<1>8. Awaiting(c)'
  <2>1. ~Awaits(Main(c))
    BY <1>1 DEF Sound, Awaiting
  <2>2. \A i \in Chunks : Awaits(Part(c, i)) => cl[c].next \in Nat /\ cl'[c].next \in Nat
    BY <1>1 DEF Settings, Locals
  <2>3. \A i \in Chunks : Awaits(Part(c, i)) => i <= cl'[c].next
    BY <1>1, <2>2 DEF Sound, Awaiting, Chunks
  <2> QED
    BY <1>1, <1>2, <2>1, <2>3 DEF Awaiting, Awaits
<1> QED
  BY <1>2, <1>3, <1>4, <1>6, <1>7, <1>8, OthersSound DEF Sound

\* A client sends its own request.
LEMMA MainSent ==
  ASSUME CallInv, NEW c \in Clients, NEW pc \in Waiting, NEW m, SendMain(c, pc, m),
         UNCHANGED <<setup, call>>, Fits(Main(c), m), m.do = DeedOf(pc),
         cl[c].pc \in (Early \cup {"cleanup"}) \ {"idle"},
         cl[c].pc = "cleanup" => pc = "abort",
         \A i \in Chunks : ~Awaits(Part(c, i)),
         Placed(c)'
  PROVE  CallInv'
<1>1. Sound(c) /\ Wires /\ Settings
  BY DEF CallInv
<1>2. /\ Main(c) \in Slots /\ Main(c)[1] = c
      /\ \A i \in Chunks : Part(c, i) \in Slots \ {Main(c)}
  BY SlotOf
<1>3. m \in Messages /\ Send(Main(c), m) /\ Become(c, pc)
  BY DEF SendMain, Fits
<1>4. Moved(c, pc)
  BY <1>1, <1>3, BecomeEffect DEF Settings, Pcs
<1>5. /\ Wires' /\ ~Awaits(Main(c)) /\ Awaits(Main(c))'
      /\ req'[Main(c)].msg = m /\ req'[Main(c)].try = 1
      /\ Posted(Main(c))' = Posted(Main(c)) \cup {m}
      /\ \A t \in Slots \ {Main(c)} : Posted(t)' = Posted(t) /\ req'[t] = req[t]
      /\ net' = net \cup {[slot |-> Main(c), try |-> 1, msg |-> m]}
  BY <1>1, <1>2, <1>3, SendEffect
<1>6. Settings'
  BY <1>1, <1>4 DEF Moved, Settings
<1>7. m.do \in Makers => cl[c].pc \in Early /\ pc \notin Early
  BY DEF DeedOf, Makers, Waiting, Early
<1>8. SentAt(c)'
  <2>1. ASSUME NEW s \in Slots, s[1] = c, NEW n \in Posted(s)'
        PROVE  Fits(s, n)'
    <3>1. n \in Posted(s) \/ (s = Main(c) /\ n = m)
      BY <1>5
    <3>2. Fits(s, n)
      BY <1>1, <2>1, <3>1 DEF Sound, SentAt
    <3> QED
      BY <2>1, <3>2, FitsStays
  <2>2. cl'[c].pc \in Early => \A n \in Posted(Main(c))' : n.do \notin Makers
    <3>1. cl'[c].pc \in Early => cl[c].pc \in Early /\ m.do \notin Makers
      BY <1>4, <1>7 DEF Moved, Early
    <3> QED
      BY <1>1, <1>5, <3>1 DEF Sound, SentAt
  <2>3. \A n, o \in Posted(Main(c))' : n.do \in Makers /\ o.do \in Makers => n = o
    BY <1>1, <1>5, <1>7 DEF Sound, SentAt
  <2>4. cl'[c].pc \notin {"idle", "head"}
    BY <1>4 DEF Moved, Waiting, Makers
  <2> QED
    BY <2>1, <2>2, <2>3, <2>4 DEF SentAt
<1>9. CountedAt(c)'
  <2> SUFFICES ASSUME pc \in Makers, NEW a \in net', a.slot = Main(c), a.msg.do \in Makers
               PROVE  a.try <= 1
    BY <1>4, <1>5 DEF CountedAt, Moved
  <2>1. cl[c].pc \in Early
    BY DEF Makers
  <2>2. a \notin net
    BY <1>1, <2>1, AttemptPosted DEF Sound, SentAt
  <2> QED
    BY <1>5, <2>2
<1>10. Awaiting(c)'
  BY <1>2, <1>4, <1>5 DEF Awaiting, Moved, Awaits
<1>11. Alone(c)
  BY <1>4 DEF Moved
<1>12. \A a \in net' : a.slot[1] # c => a \in net
  BY <1>2, <1>5
<1> QED
  BY <1>2, <1>5, <1>6, <1>8, <1>9, <1>10, <1>11, <1>12, OthersSound DEF Sound

\* What a call writes in one piece is a body.
LEMMA DataTyped ==
  ASSUME call \in [Clients -> Calls], NEW c \in Clients
  PROVE  /\ call[c].chunks \in Nat /\ call[c].chunks <= MaxChunks
         /\ call[c].op # "copy" => DataOf(c) \in Bodies
         /\ ~InPieces(c) => DataOf(c) = <<<<c, 0>>>>
<1>1. call[c].chunks \in 0 .. MaxChunks /\ MaxChunks \in Nat
  BY ObjectStoreAssumption DEF Calls
<1>2. <<c, 0>> \in ChunkNames /\ \A i \in 1 .. MaxChunks : <<c, i>> \in ChunkNames
  BY ObjectStoreAssumption DEF ChunkNames
<1>3. call[c].op # "copy" => Pieces(c) \in Seq(ChunkNames)
  BY <1>1, <1>2 DEF Pieces, Piece
<1>4. <<<<c, 0>>>> \in Seq(ChunkNames)
  BY <1>2
<1> QED
  BY <1>1, <1>3, <1>4 DEF DataOf, Bodies, InPieces

\* The adapter's head leaves calls and messages fitting.
LEMMA ReadHeadSound ==
  ASSUME CallInv, StoreTypes, NEW c \in Clients, ReadHead(c)
  PROVE  CallInv'
<1>1. /\ Sound(c) /\ cl \in [Clients -> Locals] /\ cl[c].pc = "head" /\ UNCHANGED <<setup, call>>
      /\ obj # Absent => obj \in Objects
  BY DEF CallInv, Settings, ReadHead, StoreTypes
<1>2. /\ call[c].op \in Ops /\ cl[c].next = 0 /\ ~cl[c].known
      /\ \A i \in Chunks : ~Awaits(Part(c, i))
  BY <1>1 DEF Sound, Placed, Awaiting
<1>3. DataOf(c) \in Bodies \/ call[c].op = "copy"
  BY DataTyped DEF CallInv, Settings
<1>4. Main(c)[1] = c /\ Main(c)[2] = 0
  BY DEF Main
<1>5. ASSUME NEW pc \in Pcs, Moved(c, pc),
             pc \in {"create", "pool", "copy", "delete", "put", "done"},
             pc \in {"create", "pool"} => InPieces(c), pc = "create" => OnS3,
             pc = "pool" => ~OnS3, pc = "copy" => call[c].op = "copy",
             pc = "delete" => call[c].op = "remove"
      PROVE  Placed(c)'
  <2>1. call[c].chunks \in Nat
    BY DataTyped DEF CallInv, Settings
  <2> QED
    BY <1>1, <1>2, <1>5, <2>1 DEF Moved, Placed, OnS3, InPieces
<1>6. ASSUME NEW pc \in {"create", "copy", "delete", "put"}, NEW m, SendMain(c, pc, m),
             Fits(Main(c), m), m.do = pc, Placed(c)'
      PROVE  CallInv'
  <2>1. pc \in Waiting /\ DeedOf(pc) = pc /\ cl[c].pc \in (Early \cup {"cleanup"}) \ {"idle"}
        /\ cl[c].pc # "cleanup"
    BY <1>1 DEF Waiting, Makers, DeedOf, Early
  <2> QED
    BY <1>1, <1>2, <1>6, <2>1, MainSent
<1>7. ASSUME NEW pc \in {"create", "copy", "delete", "put"}, NEW m, SendMain(c, pc, m),
             pc = "create" => InPieces(c) /\ OnS3, pc = "copy" => call[c].op = "copy",
             pc = "delete" => call[c].op = "remove"
      PROVE  Placed(c)'
  <2>1. pc \in Pcs
    BY DEF Pcs, Waiting, Makers
  <2>2. Moved(c, pc)
    BY <1>1, <1>7, <2>1, BecomeEffect DEF SendMain
  <2> QED
    BY <1>5, <1>7, <2>1, <2>2
<1>8. ASSUME NEW cond \in Tags \cup {Always, IfNone}, call[c].op \in {"append", "replace", "stream"},
             call[c].op = "append" => cond = IfNone
      PROVE  Fits(Main(c), Put(c, cond, DataOf(c))) /\ Put(c, cond, DataOf(c)).do = "put"
  <2> DEFINE m == Put(c, cond, DataOf(c))
  <2>1. DataOf(c) \in Bodies
    BY <1>3, <1>8
  <2>2. m \in Messages
    BY <2>1, PutTyped
  <2>3. m.do = "put" /\ m.cond = cond /\ m.body = DataOf(c) /\ m = Put(c, m.cond, m.body)
    BY DEF Message, Put
  <2> HIDE DEF m
  <2>4. PutSuits(c, m)
    BY <1>8, <2>1, <2>3 DEF PutSuits
  <2> QED
    BY <1>4, <2>2, <2>3, <2>4 DEF Fits, Suits, m
<1>9. CASE HeadForAppend(c)
  <2>1. obj \in Objects /\ call[c].op = "append" /\ UNCHANGED requestVars
    BY <1>1, <1>9 DEF HeadForAppend
  <2>2. /\ cl' \in [Clients -> Locals] /\ Alone(c) /\ cl'[c].pc = "get" /\ cl'[c].tag = obj.tag
        /\ cl'[c].next = cl[c].next /\ cl'[c].known = cl[c].known
    BY <1>1, <1>9, <2>1, HeadEffect
  <2>3. obj.tag # Absent
    BY <2>1, <2>2, ObjectStoreAssumption DEF Objects, Locals, Tags, ChunkNames
  <2>4. Placed(c)'
    BY <1>1, <1>2, <2>1, <2>2, <2>3 DEF Placed, OnS3, InPieces
  <2> QED
    BY <1>1, <1>2, <2>1, <2>2, <2>4, QuietSound DEF Waiting, Makers, Early
<1>10. CASE HeadForCreate(c)
  BY <1>6, <1>7, <1>8, <1>10 DEF HeadForCreate
<1>11. CASE HeadForReplace(c)
  <2>1. (IF obj = Absent THEN Always ELSE obj.tag) \in Tags \cup {Always, IfNone}
    BY <1>1 DEF Objects
  <2> QED
    BY <1>6, <1>7, <1>8, <1>11, <2>1 DEF HeadForReplace
<1>12. CASE HeadForRemove(c)
  <2>1. CASE obj = Absent
    <3>1. Become(c, "done") /\ UNCHANGED requestVars
      BY <1>12, <2>1 DEF HeadForRemove
    <3>2. Moved(c, "done")
      BY <1>1, <3>1, BecomeEffect DEF Pcs
    <3>3. Placed(c)'
      BY <1>5, <3>2 DEF Pcs
    <3> QED
      BY <1>1, <1>2, <3>1, <3>2, <3>3, QuietSound DEF Waiting, Makers, Early, Moved
  <2>2. CASE obj # Absent
    <3>1. SendMain(c, "delete", Message("delete", c)) /\ call[c].op = "remove"
      BY <1>12, <2>2 DEF HeadForRemove
    <3>2. Fits(Main(c), Message("delete", c)) /\ Message("delete", c).do = "delete"
      BY <1>4, <3>1, MessageTyped, MessageFields DEF Fits, Suits
    <3> QED
      BY <1>6, <1>7, <3>1, <3>2
  <2> QED
    BY <2>1, <2>2
<1>13. InPieces(c) /\ OnS3 =>
         Fits(Main(c), Message("create", c)) /\ Message("create", c).do = "create"
  BY <1>4, MessageTyped, MessageFields DEF Fits, Suits
<1>14. CASE HeadForUpload(c)
  <2>1. call[c].op = "stream" /\ InPieces(c) /\ OnS3
    BY <1>14 DEF HeadForUpload, InPieces, OnS3
  <2>2. \/ SendMain(c, "put", Put(c, Always, DataOf(c)))
        \/ SendMain(c, "create", Message("create", c))
    BY <1>14 DEF HeadForUpload
  <2> QED
    BY <1>6, <1>7, <1>8, <1>13, <2>1, <2>2
<1>15. ASSUME Become(c, "pool"), UNCHANGED requestVars, InPieces(c), ~OnS3
       PROVE  CallInv'
  <2>1. Moved(c, "pool")
    BY <1>1, <1>15, BecomeEffect DEF Pcs, Early
  <2>2. Placed(c)'
    BY <1>5, <1>15, <2>1 DEF Pcs, Early
  <2> QED
    BY <1>1, <1>2, <1>15, <2>1, <2>2, QuietSound DEF Waiting, Makers, Early, Moved
<1>16. CASE HeadForBlocks(c)
  BY <1>15, <1>16 DEF HeadForBlocks, InPieces, OnS3
<1>17. CASE HeadForCopy(c)
  <2>1. call[c].op = "copy" /\ InPieces(c)
    BY <1>17 DEF HeadForCopy, InPieces
  <2>2. \/ SendMain(c, "copy", Message("copy", c))
        \/ OnS3 /\ SendMain(c, "create", Message("create", c))
        \/ ~OnS3 /\ Become(c, "pool") /\ UNCHANGED requestVars
    BY <1>17 DEF HeadForCopy, OnS3
  <2>3. Fits(Main(c), Message("copy", c)) /\ Message("copy", c).do = "copy"
    BY <1>4, <2>1, MessageTyped, MessageFields DEF Fits, Suits
  <2> QED
    BY <1>6, <1>7, <1>13, <1>15, <2>1, <2>2, <2>3
<1> QED
  BY <1>9, <1>10, <1>11, <1>12, <1>14, <1>16, <1>17 DEF ReadHead

\* The pool sends a part.
LEMMA AdmitSound ==
  ASSUME CallInv, NEW c \in Clients, Admit(c)
  PROVE  CallInv'
<1>0. PICK i, m : i = cl[c].next + 1 /\ m = PartMessage(c, i)
  OBVIOUS
<1>1. Sound(c) /\ Wires /\ Settings
  BY DEF CallInv
<1>2. /\ cl[c].pc = "pool" /\ i <= call[c].chunks /\ Send(Part(c, i), m)
      /\ UNCHANGED <<setup, call>>
  BY <1>0 DEF Admit
<1>3. i \in Chunks /\ InPieces(c) /\ cl[c].next \in Nat
  BY <1>0, <1>1, <1>2, DataTyped, ObjectStoreAssumption DEF Settings, Locals, Chunks, Sound, Placed
<1>4. Stayed(c) /\ cl'[c].next = i
  BY <1>0, <1>1, PoolEffect DEF Settings
<1>5. /\ Main(c) \in Slots \ {Part(c, i)} /\ Part(c, i) \in Slots /\ Part(c, i)[1] = c
      /\ Part(c, i)[2] = i
      /\ \A j \in Chunks : Part(c, j) \in Slots /\ (Part(c, j) = Part(c, i) => j = i)
  BY <1>3, SlotOf
<1>6. m \in Messages /\ Fits(Part(c, i), m)
  BY <1>0, <1>3, <1>5, PartTyped DEF Fits, Chunks
<1>7. /\ Wires' /\ Awaits(Part(c, i))'
      /\ Posted(Part(c, i))' = Posted(Part(c, i)) \cup {m}
      /\ \A t \in Slots \ {Part(c, i)} : Posted(t)' = Posted(t) /\ req'[t] = req[t]
      /\ net' = net \cup {[slot |-> Part(c, i), try |-> 1, msg |-> m]}
  BY <1>1, <1>2, <1>5, <1>6, SendEffect
<1>8. SentAt(c)'
  <2>1. ASSUME NEW s \in Slots, s[1] = c, NEW n \in Posted(s)'
        PROVE  Fits(s, n)'
    <3>1. n \in Posted(s) \/ (s = Part(c, i) /\ n = m)
      BY <1>7
    <3>2. Fits(s, n)
      BY <1>1, <1>6, <2>1, <3>1 DEF Sound, SentAt
    <3> QED
      BY <1>2, <2>1, <3>2, FitsStays
  <2> QED
    BY <1>1, <1>2, <1>4, <1>5, <1>7, <2>1 DEF Sound, SentAt, Stayed
<1>9. CountedAt(c)' /\ Awaiting(c)'
  <2>1. CountedAt(c)'
    BY <1>2, <1>4 DEF CountedAt, Stayed, Makers
  <2>2. Awaits(Main(c))' = Awaits(Main(c)) /\ ~Awaits(Main(c))
    BY <1>1, <1>2, <1>5, <1>7 DEF Awaits, Sound, Awaiting, Waiting, Makers
  <2>3. \A j \in Chunks : Awaits(Part(c, j))' => j <= i
    BY <1>0, <1>1, <1>3, <1>5, <1>7 DEF Awaits, Sound, Awaiting, Chunks
  <2> QED
    BY <1>2, <1>4, <2>1, <2>2, <2>3 DEF Awaiting, Stayed, Waiting, Makers
<1>10. Placed(c)'
  BY <1>1, <1>2, <1>4 DEF Sound, Placed, Stayed, OnS3, InPieces
<1>11. Settings' /\ Alone(c)
  BY <1>1, <1>2, <1>4 DEF Settings, Stayed
<1>12. \A a \in net' : a.slot[1] # c => a \in net
  BY <1>5, <1>7
<1>13. \A s \in Slots : s[1] # c => req'[s] = req[s] /\ Posted(s)' \subseteq Posted(s)
  BY <1>5, <1>7
<1> QED
  BY <1>2, <1>7, <1>8, <1>9, <1>10, <1>11, <1>12, <1>13, OthersSound DEF Sound

\* So does every other step of a client.
LEMMA ClientSound ==
  ASSUME CallInv, StoreTypes, NEW c \in Clients, ClientStep(c) \/ SourceFails(c)
  PROVE  CallInv'
<1>1. Sound(c) /\ cl \in [Clients -> Locals] /\ call \in [Clients -> Calls]
  BY DEF CallInv, Settings
<1>2. call[c].chunks \in Nat /\ cl[c].next \in Nat
  BY <1>1, DataTyped DEF Locals
<1>3. Main(c)[1] = c /\ Main(c)[2] = 0
  BY DEF Main
<1>4. cl[c].pc # "pool" => \A i \in Chunks : ~Awaits(Part(c, i))
  BY <1>1 DEF Sound, Awaiting
<1>5. ASSUME NEW pc \in Waiting, NEW m, SendMain(c, pc, m), UNCHANGED <<setup, call>>,
             Fits(Main(c), m), m.do = DeedOf(pc),
             cl[c].pc \in {"get", "pool", "empty", "cleanup"},
             cl[c].pc = "cleanup" => pc = "abort",
             \A i \in Chunks : ~Awaits(Part(c, i)),
             pc \in {"put", "complete", "commit", "discard", "abort"},
             pc \in {"complete", "commit", "discard"} => cl[c].pc = "pool",
             pc \in {"complete", "discard"} => OnS3, pc = "commit" => ~OnS3,
             pc = "discard" => call[c].chunks = 0, pc = "abort" => cl[c].pc = "cleanup"
      PROVE  CallInv'
  <2>1. Moved(c, pc)
    BY <1>1, <1>5, BecomeEffect DEF SendMain, Pcs
  <2>2. Placed(c)'
    BY <1>1, <1>5, <2>1 DEF Moved, Sound, Placed, OnS3, InPieces
  <2>3. cl[c].pc \in (Early \cup {"cleanup"}) \ {"idle"}
    BY <1>5 DEF Early
  <2> QED
    BY <1>5, <2>2, <2>3, MainSent
<1>6. ASSUME NEW pc \in {"done", "failed", "cleanup"}, Become(c, pc),
             UNCHANGED <<requestVars, setup, call>>, cl[c].pc \in {"head", "get", "confirm", "pool"},
             pc = "cleanup" => cl[c].known, \A i \in Chunks : ~Awaits(Part(c, i))
      PROVE  CallInv'
  <2>1. Moved(c, pc)
    BY <1>1, <1>6, BecomeEffect DEF Pcs
  <2>2. Placed(c)'
    BY <1>1, <1>6, <2>1 DEF Moved, Sound, Placed, OnS3, InPieces
  <2> QED
    BY <1>6, <2>1, <2>2, QuietSound DEF Moved, Waiting, Makers, Early
<1>7. CASE ReadHead(c)
  BY <1>7, ReadHeadSound
<1>8. CASE Get(c)
  <2> DEFINE b == obj.body \o DataOf(c)
             m == Put(c, cl[c].tag, b)
  <2>1. /\ cl[c].pc = "get" /\ obj \in Objects /\ SendMain(c, "put", m)
        /\ UNCHANGED <<setup, call>>
    BY <1>8 DEF Get, StoreTypes
  <2>2. call[c].op = "append" /\ cl[c].tag \in Tags
    BY <1>1, <2>1 DEF Sound, Placed, Locals
  <2>3. DataOf(c) = <<<<c, 0>>>> /\ <<c, 0>> \in ChunkNames /\ obj.body \in Seq(ChunkNames)
    BY <1>1, <2>1, <2>2, DataTyped DEF InPieces, ChunkNames, Objects, Bodies
  <2>4. b \in Bodies /\ b # <<>> /\ b[Len(b)] = <<c, 0>>
    BY <2>3 DEF Bodies
  <2>5. m \in Messages /\ m.do = "put" /\ m.cond = cl[c].tag /\ m.body = b
    BY <2>2, <2>4, PutTyped DEF Put, Message
  <2>6. m = Put(c, m.cond, m.body)
    BY <2>5
  <2> HIDE DEF b, m
  <2>7. Fits(Main(c), m)
    BY <1>3, <2>2, <2>4, <2>5, <2>6 DEF Fits, Suits, PutSuits
  <2> QED
    BY <1>4, <1>5, <2>1, <2>5, <2>7 DEF Waiting, Makers, DeedOf
<1>9. CASE Confirm(c)
  BY <1>4, <1>6, <1>9 DEF Confirm
<1>10. CASE FailRead(c)
  BY <1>4, <1>6, <1>10 DEF FailRead
<1>11. CASE Admit(c)
  BY <1>11, AdmitSound
<1>12. CASE PoolFails(c)
  <2>1. \A i \in Chunks : ~Awaits(Part(c, i))
    BY <1>12 DEF PoolFails, Parts
  <2>2. OnS3 => cl[c].known
    BY <1>1, <1>12 DEF Sound, Placed, PoolFails
  <2> QED
    BY <1>6, <1>12, <2>1, <2>2 DEF PoolFails, OnS3
<1>13. CASE PoolEnds(c)
  <2> DEFINE do == IF OnS3 THEN "complete" ELSE "commit"
             m == [Message(do, c) EXCEPT !.body = Numbers(c)]
  <2>1. \A i \in Chunks : ~Awaits(Part(c, i))
    BY <1>13 DEF PoolEnds, Parts
  <2>2. /\ cl[c].pc = "pool" /\ SendMain(c, do, m) /\ UNCHANGED <<setup, call>>
    BY <1>13 DEF PoolEnds, OnS3, Numbers
  <2>3. m \in Messages /\ m.do = do /\ InPieces(c)
    <3>1. do \in {"complete", "commit"} /\ call \in [Clients -> Calls]
      BY <1>1
    <3> HIDE DEF do
    <3>2. m \in Messages /\ m.do = do
      BY <3>1, ListTyped
    <3>3. InPieces(c)
      BY <1>1, <2>2 DEF Sound, Placed
    <3> QED
      BY <3>2, <3>3
  <2>4. m = [Message(m.do, c) EXCEPT !.body = Numbers(c)]
    BY <2>3
  <2> HIDE DEF m
  <2>5. Fits(Main(c), m)
    BY <1>3, <2>3, <2>4 DEF Fits, Suits
  <2> QED
    BY <1>5, <2>1, <2>2, <2>3, <2>5 DEF Waiting, Makers, DeedOf
<1>14. ASSUME InPieces(c), call[c].chunks = 0
       PROVE  /\ Fits(Main(c), Put(c, Always, <<>>)) /\ Put(c, Always, <<>>).do = "put"
              /\ OnS3 => Fits(Main(c), Message("abort", c)) /\ Message("abort", c).do = "abort"
  <2> DEFINE m == Put(c, Always, <<>>)
  <2>1. DataOf(c) = <<>>
    BY <1>14 DEF DataOf, Pieces
  <2>2. m \in Messages /\ m.do = "put" /\ m.cond = Always /\ m.body = <<>>
    <3>1. <<>> \in Bodies
      BY DEF Bodies
    <3>2. m \in Messages
      BY <3>1, PutTyped
    <3> QED
      BY <3>2 DEF Put, Message
  <2>3. m = Put(c, m.cond, m.body) /\ <<>> \in Bodies
    BY <2>2 DEF Bodies
  <2> HIDE DEF m
  <2>4. Fits(Main(c), m)
    BY <1>3, <1>14, <2>1, <2>2, <2>3 DEF Fits, Suits, PutSuits, InPieces
  <2> QED
    BY <1>3, <1>14, <2>2, <2>4, MessageTyped, MessageFields DEF Fits, Suits, m
<1>15. CASE PoolIsEmpty(c)
  <2>1. cl[c].pc = "pool" /\ call[c].chunks = 0 /\ InPieces(c) /\ UNCHANGED <<setup, call>>
    BY <1>1, <1>15 DEF PoolIsEmpty, Sound, Placed
  <2>2. \A i \in Chunks : ~Awaits(Part(c, i))
    BY <1>1, <1>2, <2>1 DEF Sound, Placed, Awaiting, Chunks
  <2>3. \/ OnS3 /\ SendMain(c, "discard", Message("abort", c))
        \/ SendMain(c, "put", Put(c, Always, <<>>))
    BY <1>15 DEF PoolIsEmpty, OnS3
  <2> QED
    BY <1>5, <1>14, <2>1, <2>2, <2>3 DEF Waiting, Makers, DeedOf
<1>16. CASE PutEmpty(c)
  <2>1. /\ cl[c].pc = "empty" /\ call[c].chunks = 0 /\ InPieces(c) /\ UNCHANGED <<setup, call>>
        /\ SendMain(c, "put", Put(c, Always, <<>>))
    BY <1>1, <1>16 DEF PutEmpty, Sound, Placed
  <2> QED
    BY <1>4, <1>5, <1>14, <2>1 DEF Waiting, Makers, DeedOf
<1>17. CASE Cleanup(c)
  <2>1. /\ cl[c].pc = "cleanup" /\ OnS3 /\ InPieces(c) /\ UNCHANGED <<setup, call>>
        /\ SendMain(c, "abort", Message("abort", c))
    BY <1>1, <1>17 DEF Cleanup, Sound, Placed
  <2>2. Fits(Main(c), Message("abort", c)) /\ Message("abort", c).do = "abort"
    BY <1>3, <2>1, MessageTyped, MessageFields DEF Fits, Suits
  <2> QED
    BY <1>4, <1>5, <2>1, <2>2 DEF Waiting, Makers, DeedOf
<1>18. CASE SourceFails(c)
  <2>1. cl[c].pc = "pool" /\ UNCHANGED <<requestVars, setup, call>>
    BY <1>18 DEF SourceFails
  <2>2. Stayed(c) /\ cl'[c].next = cl[c].next
    BY <1>1, <1>18, PoolEffect
  <2>3. Placed(c)'
    BY <1>1, <2>1, <2>2 DEF Stayed, Sound, Placed, OnS3, InPieces
  <2> QED
    BY <1>2, <2>1, <2>2, <2>3, QuietSound DEF Stayed, Waiting, Makers, Early
<1> QED
  BY <1>7, <1>8, <1>9, <1>10, <1>11, <1>12, <1>13, <1>15, <1>16, <1>17, <1>18 DEF ClientStep

\* A call goes on after one of its requests has ended.
LEMMA ResumeSound ==
  ASSUME CallInv, NEW s \in Slots, NEW ok \in BOOLEAN, Awaits(s), ~Awaits(s)', Wires', Subsides(s),
         net' \subseteq net, Resume(s, ok), UNCHANGED <<setup, call>>
  PROVE  CallInv'
<1> DEFINE c == s[1]
<1>1. /\ c \in Clients /\ Sound(c) /\ Settings /\ cl \in [Clients -> Locals]
      /\ s = Main(c) \/ (s[2] \in Chunks /\ s = Part(c, s[2]))
  BY SlotOf DEF CallInv, Settings
<1>2. /\ Main(c) \in Slots /\ Main(c)[1] = c
      /\ \A i \in Chunks : Part(c, i) \in Slots \ {Main(c)} /\ Part(c, i)[1] = c
  BY <1>1, SlotOf
<1>3. /\ \A t \in Slots \ {s} : req'[t] = req[t]
      /\ \A t \in Slots : Posted(t)' \subseteq Posted(t)
  BY DEF Subsides
<1> HIDE DEF c
<1>4. ASSUME cl' \in [Clients -> Locals], Alone(c), cl'[c].pc \notin {"idle", "head"},
             cl'[c].pc \in Early => cl[c].pc \in Early, cl'[c].pc \notin Makers,
             Awaiting(c)', Placed(c)'
      PROVE  CallInv'
  <2>1. SentAt(c)'
    <3>1. \A t \in Slots : t[1] = c => \A m \in Posted(t)' : Fits(t, m)'
      BY <1>1, <1>3, FitsStays DEF Sound, SentAt
    <3>2. Posted(Main(c))' \subseteq Posted(Main(c))
      BY <1>2, <1>3
    <3> QED
      BY <1>1, <1>4, <3>1, <3>2 DEF Sound, SentAt
  <2>2. CountedAt(c)'
    BY <1>4 DEF CountedAt
  <2>3. Settings'
    BY <1>1, <1>4 DEF Settings
  <2>4. s[1] = c
    BY DEF c
  <2> QED
    BY <1>1, <1>3, <1>4, <2>1, <2>2, <2>3, <2>4, OthersSound DEF Sound
<1>5. CASE s = Main(c)
  <2>1. cl[c].pc \in Waiting /\ \A i \in Chunks : ~Awaits(Part(c, i))'
    BY <1>1, <1>2, <1>3, <1>5 DEF Sound, Awaiting, Awaits, Waiting, Makers
  <2>2. /\ cl' \in [Clients -> Locals] /\ Alone(c)
        /\ cl'[c].tag = cl[c].tag /\ cl'[c].next = cl[c].next
        /\ cl'[c].pc = IF ok THEN Succeeded(cl[c].pc) ELSE Failed(c)
        /\ cl'[c].known <=> cl[c].known \/ (ok /\ cl[c].pc = "create")
    BY <1>1, <1>5, <2>1, ResumeMain
  <2>3. \/ cl'[c].pc \in {"failed", "unclean", "cleanup"}
        \/ cl'[c].pc = "confirm" /\ cl[c].pc \in Makers
        \/ cl'[c].pc = "pool" /\ cl[c].pc = "create" /\ cl'[c].known
        \/ cl'[c].pc = "done" /\ cl[c].pc = "delete"
        \/ cl'[c].pc = "empty" /\ cl[c].pc = "discard"
    BY <2>1, <2>2 DEF Succeeded, Failed, Waiting, Makers
  <2>4. cl'[c].pc = "cleanup" => cl[c].known
    BY <2>1, <2>2 DEF Succeeded, Failed, Waiting, Makers
  <2>5. cl'[c].pc = "unclean" => cl[c].pc = "abort"
    BY <2>1, <2>2 DEF Succeeded, Failed, Waiting, Makers
  <2>6. Placed(c)'
    <3>1. call[c].chunks \in Nat
      BY <1>1, DataTyped DEF Settings
    <3> QED
      BY <1>1, <2>1, <2>2, <2>3, <2>4, <2>5, <3>1
      DEF Sound, Placed, OnS3, InPieces, Waiting, Makers
  <2>7. Awaiting(c)'
    BY <1>5, <2>1, <2>3 DEF Awaiting, Waiting, Makers
  <2> QED
    BY <1>4, <2>2, <2>3, <2>6, <2>7 DEF Early, Makers
<1>6. CASE s[2] \in Chunks /\ s = Part(c, s[2])
  <2>1. Stayed(c) /\ cl'[c].next = cl[c].next
    BY <1>1, <1>6, ResumePart
  <2>2. cl[c].pc = "pool"
    BY <1>1, <1>6 DEF Sound, Awaiting
  <2>3. Placed(c)'
    BY <1>1, <2>1, <2>2 DEF Stayed, Sound, Placed, OnS3, InPieces
  <2>4. Awaiting(c)'
    <3>1. ~Awaits(Main(c)) /\ req'[Main(c)] = req[Main(c)]
      BY <1>1, <1>2, <1>3, <1>6, <2>2 DEF Sound, Awaiting, Waiting, Makers
    <3>2. \A i \in Chunks : Awaits(Part(c, i))' => Awaits(Part(c, i))
      BY <1>2, <1>3 DEF Awaits
    <3> QED
      BY <1>1, <2>1, <2>2, <3>1, <3>2 DEF Stayed, Sound, Awaiting, Awaits, Waiting, Makers
  <2> QED
    BY <1>4, <2>1, <2>2, <2>3, <2>4 DEF Stayed, Makers
<1> QED
  BY <1>1, <1>5, <1>6

\* An attempt that is made again, or that nobody learns of.
LEMMA ResendSound ==
  ASSUME CallInv, UNCHANGED <<setup, call, cl>>,
         \/ \E s \in Slots : Resend(s, setup.late)
         \/ \E a \in net : Unanswered(a)
         \/ UNCHANGED requestVars
  PROVE  CallInv'
<1>1. Wires /\ Settings /\ \A c \in Clients : Sound(c)
  BY DEF CallInv
<1>2. /\ Wires' /\ \A s \in Slots : Posted(s)' \subseteq Posted(s)
      /\ \A s \in Slots : Awaits(s)' = Awaits(s)
      /\ \A s \in Slots : Awaits(s) => req'[s].msg = req[s].msg /\ req'[s].try >= req[s].try
      /\ \A a \in net' : a \in net \/ a.try = req'[a.slot].try
      /\ \A s \in Slots : Awaits(s) => req[s].try \in Nat
  <2>0. \A s \in Slots : Awaits(s) => req[s].try \in Nat
    BY <1>1 DEF Wires, Awaits, Requested
  <2>1. CASE \E s \in Slots : Resend(s, setup.late)
    <3>1. PICK s \in Slots : Resend(s, setup.late)
      BY <2>1
    <3>2. /\ Awaits(s) /\ Wires' /\ Subsides(s)
          /\ Awaits(s)' /\ req'[s].msg = req[s].msg /\ req'[s].try = req[s].try + 1
          /\ net' = Abandoned(s, setup.late)
                      \cup {[slot |-> s, try |-> req[s].try + 1, msg |-> req[s].msg]}
      BY <1>1, <3>1, ResendEffect
    <3>3. Abandoned(s, setup.late) \subseteq net
      BY DEF Abandoned
    <3>4. \A t \in Slots \ {s} : req'[t] = req[t]
      BY <3>2 DEF Subsides
    <3>5. \A t \in Slots : Awaits(t)' = Awaits(t)
      BY <3>2, <3>4 DEF Awaits
    <3>6. \A t \in Slots : Awaits(t) => req'[t].msg = req[t].msg /\ req'[t].try >= req[t].try
      BY <2>0, <3>2, <3>4
    <3>7. \A t \in Slots : Posted(t)' \subseteq Posted(t)
      BY <3>2 DEF Subsides
    <3>8. \A a \in net' : a \in net \/ a.try = req'[a.slot].try
      BY <3>2, <3>3
    <3> QED
      BY <2>0, <3>2, <3>5, <3>6, <3>7, <3>8
  <2>2. CASE \E a \in net : Unanswered(a)
    <3>1. /\ Wires' /\ req' = req /\ net' \subseteq net
          /\ \A t \in Slots : Posted(t)' \subseteq Posted(t)
      BY <1>1, <2>2, UnansweredEffect
    <3> QED
      BY <2>0, <3>1 DEF Awaits
  <2>3. CASE UNCHANGED requestVars
    <3>1. req' = req /\ net' = net
      BY <2>3 DEF requestVars
    <3>2. \A s \in Slots : Posted(s)' = Posted(s)
      BY <3>1 DEF Posted, Awaits
    <3> QED
      BY <1>1, <2>0, <3>1, <3>2 DEF Wires, Awaits
  <2> QED
    BY <2>1, <2>2, <2>3
<1>3. Settings'
  BY <1>1 DEF Settings
<1>4. ASSUME NEW c \in Clients PROVE Sound(c)'
  <2>1. /\ Main(c) \in Slots /\ Main(c)[1] = c
        /\ \A i \in Chunks : Part(c, i) \in Slots \ {Main(c)} /\ Part(c, i)[1] = c
    BY SlotOf
  <2>2. SentAt(c)'
    <3>1. \A t \in Slots : t[1] = c => \A m \in Posted(t)' : Fits(t, m)'
      BY <1>1, <1>2, FitsStays DEF Sound, SentAt
    <3>2. Posted(Main(c))' \subseteq Posted(Main(c))
      BY <1>2, <2>1
    <3> QED
      BY <1>1, <1>2, <3>1, <3>2 DEF Sound, SentAt
  <2>3. CountedAt(c)'
    <3> SUFFICES ASSUME cl[c].pc \in Makers, NEW a \in net', a.slot = Main(c), a.msg.do \in Makers
                 PROVE  a.try <= req'[Main(c)].try
      BY DEF CountedAt
    <3>1. Awaits(Main(c))
      BY <1>1 DEF Sound, Awaiting, Waiting
    <3>2. CASE a \in net
      <4>1. a.try <= req[Main(c)].try /\ a.try \in Nat
        BY <1>1, <3>2, AttemptPosted DEF Sound, CountedAt
      <4>2. req'[Main(c)].try \in Nat
        BY <1>2, <2>1, <3>1 DEF Wires, Awaits, Requested
      <4> QED
        BY <1>2, <2>1, <3>1, <4>1, <4>2
    <3>3. CASE a.try = req'[a.slot].try
      <4>1. a.try \in Nat
        BY <1>2 DEF Wires, Attempts
      <4> QED
        BY <3>3, <4>1
    <3> QED
      BY <1>2, <3>2, <3>3
  <2>4. Awaiting(c)'
    BY <1>1, <1>2, <2>1 DEF Sound, Awaiting
  <2>5. Placed(c)'
    BY <1>1 DEF Sound, Placed, OnS3, InPieces
  <2> QED
    BY <2>2, <2>3, <2>4, <2>5 DEF Sound
<1> QED
  BY <1>2, <1>3, <1>4 DEF CallInv

\* A call starts with nothing under way.
LEMMA StartSound ==
  ASSUME CallInv, NEW c \in Clients, NEW k \in setup.calls, Start(c, k)
  PROVE  CallInv'
<1>1. Wires /\ Settings /\ Sound(c)
  BY DEF CallInv
<1>2. /\ cl[c].pc = "idle" /\ Become(c, "head") /\ call' = [call EXCEPT ![c] = k]
      /\ req' = req /\ net' = net /\ setup' = setup
  BY DEF Start, requestVars
<1>3. k \in Calls /\ k.op \in Ops
  BY <1>1, ObjectStoreAssumption DEF Settings, Calls
<1>4. Moved(c, "head")
  BY <1>1, <1>2, BecomeEffect DEF Settings, Pcs, Early
<1>5. call'[c] = k /\ \A d \in Clients \ {c} : call'[d] = call[d]
  BY <1>1, <1>2 DEF Settings
<1>6. Wires' /\ Settings'
  BY <1>1, <1>2, <1>3, <1>4 DEF Wires, Settings, Moved
<1>7. \A s \in Slots : Posted(s)' = Posted(s) /\ Awaits(s)' = Awaits(s)
  BY <1>2 DEF Posted, Awaits
<1>8. Main(c) \in Slots /\ Main(c)[1] = c
      /\ \A i \in Chunks : Part(c, i) \in Slots \ {Main(c)} /\ Part(c, i)[1] = c
  BY SlotOf
<1>9. SentAt(c)'
  BY <1>1, <1>2, <1>4, <1>7, <1>8 DEF Sound, SentAt, Moved
<1>10. CountedAt(c)'
  BY <1>4 DEF CountedAt, Moved, Makers
<1>11. Awaiting(c)'
  BY <1>1, <1>2, <1>4, <1>7, <1>8 DEF Sound, Awaiting, Moved, Waiting, Makers
<1>12. Placed(c)'
  BY <1>1, <1>2, <1>3, <1>4, <1>5 DEF Sound, Placed, Moved, OnS3, InPieces
<1> QED
  BY <1>2, <1>4, <1>5, <1>6, <1>7, <1>9, <1>10, <1>11, <1>12, OthersSound DEF Sound, Moved

\* Calls and messages fit from the start.
LEMMA CallsStart == ObjectInit => CallInv
<1> SUFFICES ASSUME ObjectInit PROVE CallInv
  OBVIOUS
<1>1. req = [s \in Slots |-> NoRequest] /\ net = {} /\ setup \in Setups
  BY DEF ObjectInit, RequestInit
<1>2. \A s \in Slots : ~Awaits(s) /\ Posted(s) = {}
  BY <1>1 DEF Awaits, Posted
<1>3. Wires
  BY <1>1 DEF Wires
<1>4. \A c \in Clients : /\ cl[c].pc = "idle" /\ cl[c].next = 0 /\ ~cl[c].known
                         /\ cl[c] \in Locals
  BY DEF ObjectInit, Locals, Pcs, Early
<1>5. Settings
  BY <1>1, <1>4, ObjectStoreAssumption DEF ObjectInit, Settings, Calls, Locals, Pcs, Early
<1>6. ASSUME NEW c \in Clients PROVE Sound(c)
  <2>1. Main(c) \in Slots /\ \A i \in Chunks : Part(c, i) \in Slots
    BY SlotOf
  <2>2. SentAt(c) /\ CountedAt(c)
    BY <1>1, <1>2, <2>1 DEF SentAt, CountedAt
  <2>3. Awaiting(c)
    BY <1>2, <1>4, <2>1 DEF Awaiting, Waiting, Makers
  <2>4. Placed(c)
    BY <1>4 DEF Placed
  <2> QED
    BY <2>2, <2>3, <2>4 DEF Sound
<1> QED
  BY <1>3, <1>5, <1>6 DEF CallInv

\* The service does what it is asked for, or not.
LEMMA AcceptsIsBoolean == ASSUME NEW m PROVE Accepts(m) \in BOOLEAN
<1>1. CASE m.do = "put"
  BY <1>1 DEF Accepts
<1>2. CASE m.do = "part"
  BY <1>2 DEF Accepts
<1>3. CASE m.do \in {"block", "copy"}
  <2>1. Accepts(m) <=> CanRead(m.by)
    BY <1>3 DEF Accepts
  <2> QED
    BY <2>1, <1>3 DEF Accepts, CanRead
<1>4. CASE m.do = "complete"
  BY <1>4 DEF Accepts
<1>5. CASE m.do = "commit"
  BY <1>5 DEF Accepts
<1> QED
  BY <1>1, <1>2, <1>3, <1>4, <1>5 DEF Accepts

\* Calls and messages fit after every step.
LEMMA CallsStep ==
  ASSUME CallInv, StoreTypes, [ObjectNext]_objectVars
  PROVE  CallInv'
<1>1. CASE \E c \in Clients : \E k \in setup.calls : Start(c, k)
  BY <1>1, StartSound
<1>2. CASE \E c \in Clients : ClientStep(c) \/ SourceFails(c)
  BY <1>2, ClientSound
<1>3. ASSUME NEW a, Answer(a), NEW ok \in BOOLEAN, Resume(a.slot, ok), UNCHANGED <<setup, call>>
      PROVE  CallInv'
  BY <1>3, AnswerEffect, ResumeSound DEF CallInv
<1>4. CASE \E a \in net : Serve(a)
  <2>1. PICK a \in net : Serve(a)
    BY <1>4
  <2>2. CASE Answer(a) /\ Resume(a.slot, Accepts(a.msg))
    <3>1. Accepts(a.msg) \in BOOLEAN
      BY AcceptsIsBoolean
    <3> QED
      BY <1>3, <2>1, <2>2, <3>1 DEF Serve
  <2>3. CASE Unanswered(a) /\ UNCHANGED cl
    BY <2>1, <2>3, ResendSound DEF Serve
  <2> QED
    BY <2>1, <2>2, <2>3 DEF Serve
<1>5. CASE \E a \in net : Refuse(a)
  BY <1>3, <1>5 DEF Refuse
<1>6. CASE \E s \in Slots : Retry(s)
  BY <1>6, ResendSound DEF Retry
<1>7. CASE \E s \in Slots : RequestFails(s)
  <2>1. PICK s \in Slots : GiveUp(s, setup.late) /\ Resume(s, FALSE) /\ UNCHANGED <<setup, call>>
    BY <1>7 DEF RequestFails
  <2>2. Awaits(s) /\ ~Awaits(s)' /\ Wires' /\ Subsides(s) /\ net' = Abandoned(s, setup.late)
    BY <2>1, GiveUpEffect DEF CallInv
  <2> QED
    BY <2>1, <2>2, ResumeSound DEF Abandoned
<1>8. CASE ChangeSource \/ UNCHANGED objectVars
  BY <1>8, ResendSound DEF ChangeSource, objectVars
<1> QED
  BY <1>1, <1>2, <1>4, <1>5, <1>6, <1>7, <1>8 DEF ObjectNext

----------------------------------------------------------------------------
(* What a step does, for the invariants that follow.                       *)

\* Where a call goes by itself.
Onward(pc) ==
  CASE pc = "idle" -> {"head"}
    [] pc = "head" -> {"get", "put", "copy", "create", "delete", "pool", "done", "failed"}
    [] pc = "get" -> {"put", "failed"}
    [] pc = "pool" -> {"complete", "commit", "discard", "put", "cleanup", "failed"}
    [] pc = "empty" -> {"put"}
    [] pc = "confirm" -> {"done", "failed", "cleanup"}
    [] pc = "cleanup" -> {"abort"}
    [] OTHER -> {}

Stays(c) ==
  cl'[c].pc = cl[c].pc /\ cl'[c].tag = cl[c].tag /\ cl'[c].known = cl[c].known

\* It goes on by itself.
Goes(c) ==
  /\ cl[c].pc \notin Waiting /\ cl'[c].pc \in Onward(cl[c].pc) /\ cl'[c].known = cl[c].known
  /\ \/ cl'[c].tag = cl[c].tag
     \/ cl[c].pc = "head" /\ cl'[c].pc = "get" /\ obj # Absent /\ cl'[c].tag = obj.tag
  /\ cl[c].pc = "head" /\ cl'[c].pc = "done" => call[c].op = "remove"
  /\ cl'[c].pc = "failed" => ~cl[c].known
  /\ cl[c].pc = "pool" /\ cl'[c].pc = "put" => ~cl[c].known
  /\ cl'[c].next = cl[c].next /\ cl'[c].bad = cl[c].bad
  /\ cl'[c].pc = "commit" =>
       cl[c].next = call[c].chunks /\ cl[c].bad = {} /\ \A i \in Chunks : ~Awaits(Part(c, i))
  /\ cl[c].pc = "head" /\ cl'[c].pc \in {"get", "pool"} => UNCHANGED requestVars
  /\ UNCHANGED storeVars

\* Its own request has failed.
Fails(c) ==
  /\ cl[c].pc \in Waiting /\ cl'[c].pc = Failed(c) /\ cl'[c].known = cl[c].known
  /\ cl'[c].tag = cl[c].tag

\* Its own request has done what it asked for.
Succeeds(c) ==
  /\ cl[c].pc \in Waiting /\ cl'[c].pc = Succeeded(cl[c].pc) /\ cl'[c].tag = cl[c].tag
  /\ cl'[c].known <=> cl[c].known \/ cl[c].pc = "create"
  /\ cl'[c].next = cl[c].next /\ cl'[c].bad = cl[c].bad
  /\ \E a \in net :
       /\ a.slot = Main(c) /\ a.msg.do = DeedOf(cl[c].pc) /\ Accepts(a.msg) /\ Perform(a)
       /\ net' = net \ {a}

\* A client sends m from slot s.
Sends(c, s, m) ==
  /\ s \in Slots /\ m \in Messages /\ Send(s, m) /\ s[1] = c
  /\ m.do = "create" => cl[c].pc = "head"
  /\ m.do \in Makers => cl[c].pc \in Early \ {"idle"} /\ cl'[c].pc \notin Early /\ s = Main(c)
  /\ m.do # "put" => m.cond = Always
  /\ m.do = "put" =>
       \/ /\ m.cond \in {Always, IfNone} \/ (obj # Absent /\ m.cond = obj.tag)
          /\ (m.body = DataOf(c) /\ call[c].op # "copy") \/ m.body = <<>>
          /\ call[c].op = "append" => m.cond = IfNone
       \/ /\ cl[c].pc = "get" /\ call[c].op = "append" /\ obj # Absent
          /\ m.cond = cl[c].tag /\ m.body = obj.body \o DataOf(c)

\* A client by itself goes on or not, and sends one message or none.
LEMMA ClientMoves ==
  ASSUME CallInv, StoreTypes, NEW c \in Clients, ClientStep(c) \/ SourceFails(c)
  PROVE  /\ UNCHANGED <<setup, call, storeVars>> /\ Alone(c)
         /\ \/ Stays(c) /\ (Admit(c) \/ SourceFails(c))
            \/ Goes(c) /\ (UNCHANGED requestVars \/ \E m : Sends(c, Main(c), m))
         /\ UNCHANGED requestVars \/ \E s, m : Sends(c, s, m)
<1>1. Sound(c) /\ cl \in [Clients -> Locals] /\ call \in [Clients -> Calls]
  BY DEF CallInv, Settings
<1>2. Main(c) \in Slots /\ Main(c)[1] = c
  BY SlotOf
<1>3. UNCHANGED <<setup, call, storeVars>>
  BY DEF ClientStep, SourceFails, ReadHead, Get, Confirm, FailRead, Admit, PoolFails, PoolEnds,
         PoolIsEmpty, PutEmpty, Cleanup
<1>4. ASSUME NEW pc \in Pcs, Become(c, pc), pc \in Onward(cl[c].pc), cl[c].pc \notin Waiting,
             cl[c].pc = "head" /\ pc = "done" => call[c].op = "remove",
             pc = "failed" => ~cl[c].known,
             cl[c].pc = "pool" /\ pc = "put" => ~cl[c].known,
             pc = "commit" => /\ cl[c].next = call[c].chunks /\ cl[c].bad = {}
                              /\ \A i \in Chunks : ~Awaits(Part(c, i)),
             cl[c].pc = "head" /\ pc \in {"get", "pool"} => UNCHANGED requestVars
      PROVE  Alone(c) /\ Goes(c) /\ cl'[c].pc = pc
  <2>1. Moved(c, pc)
    BY <1>1, <1>4, BecomeEffect
  <2> QED
    BY <1>3, <1>4, <2>1 DEF Moved, Goes
<1>5. ASSUME NEW pc \in Waiting, NEW m, SendMain(c, pc, m), m \in Messages, m.do = DeedOf(pc),
             pc \in Onward(cl[c].pc),
             pc = "commit" => /\ cl[c].next = call[c].chunks /\ cl[c].bad = {}
                              /\ \A i \in Chunks : ~Awaits(Part(c, i)),
             cl[c].pc \in {"head", "get", "pool", "empty", "cleanup"},
             cl[c].pc = "pool" /\ pc = "put" => ~OnS3,
             m.do # "put" => m.cond = Always,
             m.do = "put" =>
               \/ /\ m.cond \in {Always, IfNone} \/ (obj # Absent /\ m.cond = obj.tag)
                  /\ (m.body = DataOf(c) /\ call[c].op # "copy") \/ m.body = <<>>
                  /\ call[c].op = "append" => m.cond = IfNone
               \/ /\ cl[c].pc = "get" /\ call[c].op = "append" /\ obj # Absent
                  /\ m.cond = cl[c].tag /\ m.body = obj.body \o DataOf(c)
      PROVE  Alone(c) /\ Goes(c) /\ Sends(c, Main(c), m)
  <2>1. cl[c].known => OnS3
    BY <1>1 DEF Sound, Placed
  <2>2. Alone(c) /\ Goes(c) /\ cl'[c].pc = pc
    BY <1>4, <1>5, <2>1 DEF SendMain, Pcs, Waiting, Makers
  <2>3. m.do = "create" => cl[c].pc = "head"
    BY <1>5 DEF DeedOf, Waiting, Makers, Onward
  <2>4. m.do \in Makers => cl[c].pc \in Early \ {"idle"} /\ pc \notin Early
    BY <1>5 DEF DeedOf, Waiting, Makers, Early, Onward
  <2> QED
    BY <1>2, <1>5, <2>2, <2>3, <2>4 DEF Sends, SendMain
<1>6. CASE ReadHead(c)
  <2>1. cl[c].pc = "head" /\ ~cl[c].known
    BY <1>1, <1>6 DEF ReadHead, Sound, Placed
  <2>2. ASSUME NEW pc \in {"create", "copy", "delete"}, SendMain(c, pc, Message(pc, c))
        PROVE  Alone(c) /\ Goes(c) /\ Sends(c, Main(c), Message(pc, c))
    <3>1. Message(pc, c) \in Messages /\ Message(pc, c).do = pc /\ Message(pc, c).cond = Always
      BY MessageTyped, MessageFields
    <3> QED
      BY <1>5, <2>1, <2>2, <3>1 DEF Waiting, Makers, DeedOf, Onward
  <2>3. ASSUME NEW cond \in {Always, IfNone} \cup (IF obj = Absent THEN {} ELSE {obj.tag}),
               SendMain(c, "put", Put(c, cond, DataOf(c))), call[c].op # "copy",
               call[c].op = "append" => cond = IfNone
        PROVE  Alone(c) /\ Goes(c) /\ Sends(c, Main(c), Put(c, cond, DataOf(c)))
    <3>1. cond \in Tags \cup {Always, IfNone} /\ DataOf(c) \in Bodies
      BY <1>1, <2>3, DataTyped DEF StoreTypes, Objects
    <3> DEFINE m == Put(c, cond, DataOf(c))
    <3>2. m \in Messages
      BY <3>1, PutTyped
    <3>3. m.do = "put" /\ m.cond = cond /\ m.body = DataOf(c)
      BY DEF Put, Message
    <3> HIDE DEF m
    <3>4. Alone(c) /\ Goes(c) /\ Sends(c, Main(c), m)
      BY <1>5, <2>1, <2>3, <3>2, <3>3 DEF Waiting, Makers, DeedOf, Onward, m
    <3> QED
      BY <3>4 DEF m
  <2>4. ASSUME NEW pc \in {"pool", "done"}, Become(c, pc), UNCHANGED requestVars,
               pc = "done" => call[c].op = "remove"
        PROVE  Alone(c) /\ Goes(c)
    BY <1>4, <2>1, <2>4 DEF Pcs, Early, Onward, Waiting, Makers
  <2>5. CASE HeadForAppend(c)
    <3>1. obj \in Objects /\ obj # Absent /\ UNCHANGED requestVars
      BY <2>5 DEF HeadForAppend, StoreTypes
    <3>2. /\ Alone(c) /\ cl'[c].pc = "get" /\ cl'[c].tag = obj.tag /\ cl'[c].next = cl[c].next
          /\ cl'[c].bad = cl[c].bad /\ cl'[c].known = cl[c].known
      BY <1>1, <2>5, <3>1, HeadEffect
    <3> QED
      BY <1>3, <2>1, <3>1, <3>2 DEF Goes, Onward, Waiting, Makers
  <2>6. CASE HeadForCreate(c) \/ HeadForReplace(c)
    BY <1>3, <2>3, <2>6 DEF HeadForCreate, HeadForReplace
  <2>7. CASE HeadForRemove(c)
    BY <1>3, <2>2, <2>4, <2>7 DEF HeadForRemove
  <2>8. CASE HeadForUpload(c)
    BY <1>3, <2>2, <2>3, <2>8 DEF HeadForUpload
  <2>9. CASE HeadForBlocks(c)
    BY <1>3, <2>4, <2>9 DEF HeadForBlocks
  <2>10. CASE HeadForCopy(c)
    BY <1>3, <2>2, <2>4, <2>10 DEF HeadForCopy
  <2> QED
    BY <1>3, <1>6, <2>5, <2>6, <2>7, <2>8, <2>9, <2>10 DEF ReadHead
<1>7. CASE Get(c)
  <2> DEFINE b == obj.body \o DataOf(c)
             m == Put(c, cl[c].tag, b)
  <2>1. /\ cl[c].pc = "get" /\ obj # Absent /\ obj \in Objects /\ SendMain(c, "put", m)
    BY <1>7 DEF Get, StoreTypes
  <2>2. call[c].op = "append" /\ cl[c].tag \in Tags
    BY <1>1, <2>1 DEF Sound, Placed, Locals
  <2>3. DataOf(c) \in Seq(ChunkNames) /\ obj.body \in Seq(ChunkNames)
    BY <1>1, <2>1, <2>2, DataTyped DEF Objects, Bodies
  <2>4. b \in Bodies
    BY <2>3 DEF Bodies
  <2>5. m \in Messages
    BY <2>2, <2>4, PutTyped
  <2>6. m.do = "put" /\ m.cond = cl[c].tag /\ m.body = b
    BY DEF Put, Message
  <2> HIDE DEF m
  <2>7. Alone(c) /\ Goes(c) /\ Sends(c, Main(c), m)
    BY <1>5, <2>1, <2>2, <2>5, <2>6 DEF Waiting, Makers, DeedOf, Onward
  <2> QED
    BY <1>3, <2>7
<1>8. CASE Confirm(c) \/ FailRead(c)
  <2>1. PICK pc \in {"done", "failed", "cleanup"} :
          /\ Become(c, pc) /\ UNCHANGED requestVars
          /\ \/ cl[c].pc = "confirm"
             \/ cl[c].pc \in {"head", "get"} /\ pc # "done" /\ (pc = "cleanup" => cl[c].known)
          /\ pc = "failed" => ~cl[c].known
    BY <1>8 DEF Confirm, FailRead
  <2>2. cl[c].known => cl[c].pc \notin {"head", "get"}
    BY <1>1 DEF Sound, Placed
  <2>3. pc \in Onward(cl[c].pc)
    BY <2>1, <2>2 DEF Onward
  <2> QED
    BY <1>3, <1>4, <2>1, <2>3 DEF Pcs, Waiting, Makers
<1>9. CASE Admit(c) \/ SourceFails(c)
  <2>1. Stays(c) /\ Alone(c)
    BY <1>1, <1>9, PoolEffect DEF Stays, Stayed
  <2>2. CASE SourceFails(c)
    BY <1>3, <2>1, <2>2 DEF SourceFails
  <2>3. CASE Admit(c)
    <3>1. PICK i : i = cl[c].next + 1
      OBVIOUS
    <3>2. i \in Chunks /\ Send(Part(c, i), PartMessage(c, i))
      BY <1>1, <2>3, <3>1, DataTyped, ObjectStoreAssumption DEF Admit, Locals, Chunks
    <3>3. /\ Part(c, i) \in Slots /\ Part(c, i)[1] = c
          /\ PartMessage(c, i) \in Messages
          /\ PartMessage(c, i).do \in {"part", "block"} /\ PartMessage(c, i).cond = Always
      BY <3>2, SlotOf, PartTyped
    <3>4. Sends(c, Part(c, i), PartMessage(c, i))
      BY <3>2, <3>3 DEF Sends, Makers
    <3> QED
      BY <1>3, <2>1, <2>3, <3>4
  <2> QED
    BY <1>9, <2>2, <2>3
<1>10. CASE PoolFails(c)
  <2>1. PICK pc \in {"cleanup", "failed"} :
          /\ Become(c, pc) /\ UNCHANGED requestVars /\ cl[c].pc = "pool"
          /\ pc = "failed" => ~OnS3
    BY <1>10 DEF PoolFails, OnS3
  <2>2. cl[c].known => OnS3
    BY <1>1 DEF Sound, Placed
  <2> QED
    BY <1>3, <1>4, <2>1, <2>2 DEF Pcs, Waiting, Makers, Onward
<1>11. CASE PoolEnds(c)
  <2> DEFINE do == IF OnS3 THEN "complete" ELSE "commit"
             m == [Message(do, c) EXCEPT !.body = Numbers(c)]
  <2>1. /\ cl[c].pc = "pool" /\ SendMain(c, do, m) /\ cl[c].next = call[c].chunks
        /\ cl[c].bad = {} /\ \A i \in Chunks : ~Awaits(Part(c, i))
    BY <1>11 DEF PoolEnds, OnS3, Numbers, Parts
  <2>2. m \in Messages /\ m.do = do /\ m.cond = Always
    BY <1>1, ListTyped
  <2> HIDE DEF m
  <2>3. Alone(c) /\ Goes(c) /\ Sends(c, Main(c), m)
    BY <1>5, <2>1, <2>2 DEF Waiting, Makers, DeedOf, Onward
  <2> QED
    BY <1>3, <2>3
<1>12. ASSUME SendMain(c, "put", Put(c, Always, <<>>)), cl[c].pc \in {"pool", "empty"},
              cl[c].pc = "pool" => ~OnS3
       PROVE  Alone(c) /\ Goes(c) /\ Sends(c, Main(c), Put(c, Always, <<>>))
  <2> DEFINE m == Put(c, Always, <<>>)
  <2>1. <<>> \in Bodies
    BY DEF Bodies
  <2>2. m \in Messages
    BY <2>1, PutTyped
  <2>3. m.do = "put" /\ m.cond = Always /\ m.body = <<>>
    BY DEF Put, Message
  <2>4. call[c].op # "append"
    BY <1>1, <1>12 DEF Sound, Placed, InPieces
  <2> HIDE DEF m
  <2>5. Alone(c) /\ Goes(c) /\ Sends(c, Main(c), m)
    BY <1>5, <1>12, <2>2, <2>3, <2>4 DEF Waiting, Makers, DeedOf, Onward, m
  <2> QED
    BY <2>5 DEF m
<1>13. ASSUME NEW pc \in {"discard", "abort"}, SendMain(c, pc, Message("abort", c)),
              cl[c].pc = IF pc = "discard" THEN "pool" ELSE "cleanup"
       PROVE  Alone(c) /\ Goes(c) /\ Sends(c, Main(c), Message("abort", c))
  <2>1. Message("abort", c) \in Messages /\ Message("abort", c).do = "abort"
        /\ Message("abort", c).cond = Always
    BY MessageTyped, MessageFields
  <2> QED
    BY <1>5, <1>13, <2>1 DEF Waiting, Makers, DeedOf, Onward
<1>14. CASE PoolIsEmpty(c)
  BY <1>3, <1>12, <1>13, <1>14 DEF PoolIsEmpty, OnS3
<1>15. CASE PutEmpty(c) \/ Cleanup(c)
  BY <1>3, <1>12, <1>13, <1>15 DEF PutEmpty, Cleanup
<1> QED
  BY <1>6, <1>7, <1>8, <1>9, <1>10, <1>11, <1>14, <1>15 DEF ClientStep

\* What happens to the wires and the store at a step.
Happens ==
  \/ UNCHANGED <<requestVars, obj, upload, staged, committed, landed>>
  \/ UNCHANGED storeVars /\ \E c \in Clients : \E s, m : Sends(c, s, m)
  \/ UNCHANGED storeVars /\ \E s \in Slots : Resend(s, setup.late) \/ GiveUp(s, setup.late)
  \/ \E a \in net : /\ Answer(a) \/ Unanswered(a)
                    /\ UNCHANGED storeVars \/ (Accepts(a.msg) /\ Perform(a))

\* A call whose request was answered or failed goes on, and the others stay.
LEMMA ResumeMoves ==
  ASSUME CallInv, NEW s \in Slots, Awaits(s), NEW ok \in BOOLEAN, Resume(s, ok), NEW c \in Clients,
         ok => \E a \in net : a.slot = s /\ a.msg = req[s].msg /\ Accepts(a.msg) /\ Perform(a)
                              /\ net' = net \ {a}
  PROVE  /\ Stays(c) \/ Fails(c) \/ Succeeds(c)
         /\ cl[c].pc = "idle" => Stays(c)
<1> DEFINE d == s[1]
<1>1. /\ d \in Clients /\ Sound(d) /\ cl \in [Clients -> Locals]
      /\ s = Main(d) \/ (s[2] \in Chunks /\ s = Part(d, s[2]))
  BY SlotOf DEF CallInv, Settings
<1>2. CASE s[2] \in Chunks /\ s = Part(d, s[2])
  <2>1. Alone(d) /\ Stayed(d)
    <3> HIDE DEF d
    <3>1. PICK i \in Chunks : s = Part(d, i)
      BY <1>2
    <3>2. Resume(Part(d, i), ok)
      BY <3>1
    <3> QED
      BY <1>1, <3>2, ResumePart DEF Stayed
  <2>2. CASE c = d
    BY <2>1, <2>2 DEF Stays, Stayed
  <2>3. CASE c # d
    BY <2>1, <2>3 DEF Stays, Alone
  <2> QED
    BY <2>2, <2>3
<1>3. CASE s = Main(d)
  <2>1. cl[d].pc \in Waiting /\ req[Main(d)].msg.do = DeedOf(cl[d].pc)
    BY <1>1, <1>3 DEF Sound, Awaiting
  <2>2. /\ Alone(d) /\ cl'[d].tag = cl[d].tag /\ cl'[d].next = cl[d].next /\ cl'[d].bad = cl[d].bad
        /\ cl'[d].pc = IF ok THEN Succeeded(cl[d].pc) ELSE Failed(d)
        /\ cl'[d].known <=> cl[d].known \/ (ok /\ cl[d].pc = "create")
    BY <1>1, <1>3, <2>1, ResumeMain
  <2>3. cl[d].known \in BOOLEAN /\ (~ok => cl'[d].known = cl[d].known)
    <3>1. cl'[d].known \in BOOLEAN
      BY <1>1, <1>3, <2>1, ResumeMain DEF Locals
    <3> QED
      BY <1>1, <2>2, <3>1 DEF Locals
  <2>4. CASE c # d
    BY <2>2, <2>4 DEF Stays, Alone
  <2>5. CASE c = d /\ ~ok
    BY <2>1, <2>2, <2>3, <2>5 DEF Fails, Waiting, Makers
  <2>6. CASE c = d /\ ok
    BY <1>3, <2>1, <2>2, <2>6 DEF Succeeds, Waiting, Makers
  <2> QED
    BY <2>4, <2>5, <2>6
<1> QED
  BY <1>1, <1>2, <1>3

\* Every step moves the calls so.
LEMMA StepMoves ==
  ASSUME CallInv, StoreTypes, [ObjectNext]_objectVars
  PROVE  /\ setup' = setup
         /\ \A c \in Clients : /\ cl[c].pc # "idle" => call'[c] = call[c]
                               /\ Stays(c) \/ Goes(c) \/ Fails(c) \/ Succeeds(c)
                               /\ cl[c].pc = "idle" =>
                                    \/ Stays(c) /\ call'[c] = call[c]
                                    \/ \E k \in setup.calls : Start(c, k)
         /\ Happens
<1>1. Wires /\ cl \in [Clients -> Locals] /\ call \in [Clients -> Calls]
  BY DEF CallInv, Settings
<1>2. CASE \E c \in Clients : \E k \in setup.calls : Start(c, k)
  <2>1. PICK c \in Clients, k \in setup.calls : Start(c, k)
    BY <1>2
  <2>2. /\ cl[c].pc = "idle" /\ Become(c, "head") /\ call' = [call EXCEPT ![c] = k]
        /\ UNCHANGED <<requestVars, setup, storeVars>>
    BY <2>1 DEF Start
  <2>3. Moved(c, "head")
    BY <1>1, <2>2, BecomeEffect DEF Pcs, Early
  <2>4. Goes(c)
    BY <2>2, <2>3 DEF Goes, Moved, Onward, Waiting, Makers
  <2>5. \A d \in Clients \ {c} : Stays(d) /\ call'[d] = call[d]
    BY <1>1, <2>2, <2>3 DEF Stays, Moved, Alone
  <2>6. Happens
    BY <2>2 DEF Happens, storeVars
  <2> QED
    BY <2>1, <2>2, <2>4, <2>5, <2>6
<1>3. CASE \E c \in Clients : ClientStep(c) \/ SourceFails(c)
  <2>1. PICK c \in Clients : ClientStep(c) \/ SourceFails(c)
    BY <1>3
  <2>2. /\ UNCHANGED <<setup, call, storeVars>> /\ Alone(c)
        /\ Stays(c) \/ Goes(c)
        /\ UNCHANGED requestVars \/ \E s, m : Sends(c, s, m)
    BY <2>1, ClientMoves
  <2>3. \A d \in Clients \ {c} : Stays(d)
    BY <2>2 DEF Stays, Alone
  <2>4. Happens
    BY <2>2 DEF Happens, storeVars
  <2>5. cl[c].pc # "idle"
    BY <2>1 DEF ClientStep, SourceFails, ReadHead, Get, Confirm, FailRead, Admit, PoolFails,
                PoolEnds, PoolIsEmpty, PutEmpty, Cleanup
  <2> QED
    BY <2>1, <2>2, <2>3, <2>4, <2>5
<1>4. CASE \E a \in net : Serve(a)
  <2>1. PICK a \in net : Serve(a)
    BY <1>4
  <2>2. UNCHANGED <<setup, call>> /\ Perform(a)
    BY <2>1 DEF Serve
  <2>3. UNCHANGED storeVars \/ (Accepts(a.msg) /\ Perform(a))
    BY <2>2 DEF Perform
  <2>4. CASE Answer(a) /\ Resume(a.slot, Accepts(a.msg))
    <3>1. Happens
      BY <2>3, <2>4 DEF Happens
    <3>2. a.slot \in Slots /\ Awaits(a.slot) /\ a.msg = req[a.slot].msg /\ net' = net \ {a}
      BY <1>1, <2>4, AnswerEffect
    <3>3. Accepts(a.msg) \in BOOLEAN
      BY AcceptsIsBoolean
    <3>4. \A c \in Clients : /\ Stays(c) \/ Fails(c) \/ Succeeds(c)
                             /\ cl[c].pc = "idle" => Stays(c)
      BY <2>1, <2>2, <2>4, <3>2, <3>3, ResumeMoves
    <3> QED
      BY <2>2, <3>1, <3>4
  <2>5. CASE Unanswered(a) /\ UNCHANGED cl
    BY <2>2, <2>3, <2>5 DEF Happens, Stays
  <2> QED
    BY <2>1, <2>4, <2>5 DEF Serve
<1>5. CASE \E a \in net : Refuse(a)
  <2>1. PICK a \in net : Answer(a) /\ Resume(a.slot, FALSE) /\ UNCHANGED <<setup, call, storeVars>>
    BY <1>5 DEF Refuse
  <2>2. a.slot \in Slots /\ Awaits(a.slot)
    BY <1>1, <2>1, AnswerEffect
  <2>3. \A c \in Clients : /\ Stays(c) \/ Fails(c) \/ Succeeds(c)
                           /\ cl[c].pc = "idle" => Stays(c)
    BY <2>1, <2>2, ResumeMoves
  <2>4. Happens
    BY <2>1 DEF Happens
  <2> QED
    BY <2>1, <2>3, <2>4
<1>6. CASE \E s \in Slots : Retry(s)
  BY <1>6 DEF Retry, Stays, Happens
<1>7. CASE \E s \in Slots : RequestFails(s)
  <2>1. PICK s \in Slots : /\ GiveUp(s, setup.late) /\ Resume(s, FALSE)
                           /\ UNCHANGED <<setup, call, storeVars>>
    BY <1>7 DEF RequestFails
  <2>2. Awaits(s)
    BY <2>1 DEF GiveUp
  <2>3. \A c \in Clients : /\ Stays(c) \/ Fails(c) \/ Succeeds(c)
                           /\ cl[c].pc = "idle" => Stays(c)
    BY <2>1, <2>2, ResumeMoves
  <2>4. Happens
    BY <2>1 DEF Happens
  <2> QED
    BY <2>1, <2>3, <2>4
<1>8. CASE ChangeSource \/ UNCHANGED objectVars
  BY <1>8 DEF ChangeSource, objectVars, storeVars, Stays, Happens
<1> QED
  BY <1>2, <1>3, <1>4, <1>5, <1>6, <1>7, <1>8 DEF ObjectNext

\* A call that has left the places before its body's request does not return.
LEMMA NeverBack ==
  ASSUME NEW c, Stays(c) \/ Goes(c) \/ Fails(c) \/ Succeeds(c)
  PROVE  /\ cl'[c].pc \in Early => cl[c].pc \in Early
         /\ cl'[c].pc = "idle" => cl[c].pc = "idle"
         /\ cl'[c].pc \in Waiting => Stays(c) \/ Goes(c)
         /\ cl'[c].pc \in Makers => cl[c].pc = cl'[c].pc \/ cl[c].pc \in Early
         /\ Ended(c) => Stays(c) \/ Goes(c)
         /\ Ended(c) /\ cl[c].pc # "idle" => Stays(c) /\ Ended(c)'
<1>1. CASE Stays(c)
  BY <1>1 DEF Stays, Ended
<1>2. CASE Goes(c)
  BY <1>2 DEF Goes, Onward, Early, Makers, Ended
<1>3. CASE Fails(c)
  BY <1>3 DEF Fails, Failed, Early, Waiting, Makers, Ended
<1>4. CASE Succeeds(c)
  BY <1>4 DEF Succeeds, Succeeded, Early, Waiting, Makers, Ended
<1> QED
  BY <1>1, <1>2, <1>3, <1>4

\* What an attempt asks for is what its client sent.
LEMMA AttemptFits ==
  ASSUME CallInv, NEW a \in net
  PROVE  /\ a.slot \in Slots /\ a.slot[1] \in Clients /\ a.msg.by = a.slot[1]
         /\ a.msg \in Messages /\ a.try \in Nat \ {0} /\ a.msg \in Posted(a.slot)
         /\ cl[a.msg.by].pc \notin {"idle", "head"}
         /\ a.msg.do \notin {"part", "block"} => a.slot = Main(a.msg.by) /\ Suits(a.msg.by, a.msg)
         /\ a.msg.do \in {"part", "block"} =>
              /\ a.msg.part \in Chunks /\ a.slot = Part(a.msg.by, a.msg.part)
              /\ InPieces(a.msg.by) /\ a.msg.do = (IF OnS3 THEN "part" ELSE "block")
         /\ a.msg.do \in Makers => cl[a.msg.by].pc \notin Early
<1> DEFINE c == a.slot[1]
           m == a.msg
<1>1. /\ a.slot \in Slots /\ a.try \in Nat \ {0} /\ m \in Posted(a.slot) /\ m \in Messages
  BY AttemptPosted DEF CallInv
<1>2. /\ c \in Clients /\ Main(c) \in Slots /\ Main(c)[1] = c
      /\ a.slot = Main(c) \/ (a.slot[2] \in Chunks /\ a.slot = Part(c, a.slot[2]))
      /\ a.slot[2] = 0 <=> a.slot = Main(c)
  BY <1>1, SlotOf
<1>3. Fits(a.slot, m) /\ cl[c].pc \notin {"idle", "head"} /\ SentAt(c)
  BY <1>1, <1>2 DEF CallInv, Sound, SentAt
<1>4. CASE a.slot = Main(c)
  <2>1. Suits(c, m)
    BY <1>2, <1>3, <1>4 DEF Fits
  <2>2. m.by = c /\ m.do \notin {"part", "block"}
    <3>1. m.do \notin {"part", "block"}
      BY <2>1 DEF Suits
    <3>2. CASE m = Message(m.do, c)
      BY <3>1, <3>2, MessageFields
    <3>3. CASE m = [Message(m.do, c) EXCEPT !.body = Numbers(c)]
      BY <3>1, <3>3 DEF Message
    <3>4. CASE m = Put(c, m.cond, m.body)
      BY <3>1, <3>4 DEF Put, Message
    <3> HIDE DEF m
    <3> QED
      BY <2>1, <3>2, <3>3, <3>4 DEF Suits, PutSuits
  <2>3. m.do \in Makers => cl[c].pc \notin Early
    BY <1>1, <1>3, <1>4 DEF SentAt
  <2> QED
    BY <1>1, <1>2, <1>3, <1>4, <2>1, <2>2, <2>3
<1>5. CASE a.slot[2] \in Chunks /\ a.slot = Part(c, a.slot[2])
  <2>1. m = PartMessage(c, a.slot[2]) /\ InPieces(c)
    BY <1>2, <1>3, <1>5, SlotOf DEF Fits
  <2>2. m.by = c /\ m.part = a.slot[2] /\ m.do = (IF OnS3 THEN "part" ELSE "block")
    BY <1>2, <1>5, <2>1, PartTyped
  <2> QED
    BY <1>1, <1>2, <1>3, <1>5, <2>1, <2>2 DEF Makers
<1> QED
  BY <1>2, <1>4, <1>5

\* What is read from the source, or from the stream, is a piece.
LEMMA PieceRead ==
  ASSUME NEW c \in Clients, NEW i \in Chunks, source \in {0, 1, Absent}, CanRead(c)
  PROVE  IsPiece(c, i, Piece(c, i))
<1>1. i \in Nat
  BY DEF Chunks
<1>2. CASE call[c].op = "copy"
  BY <1>1, <1>2 DEF IsPiece, Piece, CanRead, ChunkNames
<1>3. CASE call[c].op # "copy"
  BY <1>1, <1>3 DEF IsPiece, Piece, ChunkNames
<1> QED
  BY <1>2, <1>3

\* The pieces of a call, one after the other.
MadeOf(c, body) ==
  /\ body \in Bodies /\ Len(body) = call[c].chunks
  /\ \A k \in 1 .. Len(body) : IsPiece(c, k, body[k])

\* A list of pieces is a body.
LEMMA Assembled ==
  ASSUME call \in [Clients -> Calls], NEW c \in Clients, NEW body,
         body = [k \in 1 .. call[c].chunks |-> body[k]],
         \A k \in 1 .. call[c].chunks : IsPiece(c, k, body[k])
  PROVE  MadeOf(c, body)
<1>1. call[c].chunks \in Nat
  BY DataTyped
<1>2. body \in [1 .. call[c].chunks -> ChunkNames]
  BY DEF IsPiece
<1>3. body \in Seq(ChunkNames) /\ Len(body) = call[c].chunks
  BY <1>1, <1>2
<1> QED
  BY <1>1, <1>3 DEF MadeOf, Bodies

\* A copy in one request, and a completion, give the object its caller's pieces.
LEMMA MadeWhole ==
  ASSUME CallInv, StoreTypes, NEW a \in net, Accepts(a.msg), a.msg.do \in {"copy", "complete"},
         CopyObject(a) \/ CompleteUpload(a)
  PROVE  MadeOf(a.msg.by, obj'.body)
<1> DEFINE c == a.msg.by
           n == call[c].chunks
<1>1. c \in Clients /\ Suits(c, a.msg) /\ call \in [Clients -> Calls]
  BY AttemptFits DEF CallInv, Settings
<1>2. n \in Nat /\ n <= MaxChunks
  BY <1>1, DataTyped
<1>3. CASE a.msg.do = "copy"
  <2>1. CanRead(c)
    BY <1>3 DEF Accepts
  <2>2. \A k \in 1 .. n : IsPiece(c, k, Piece(c, k))
    BY <1>1, <1>2, <2>1, PieceRead, ObjectStoreAssumption DEF StoreTypes, Chunks
  <2>3. obj'.body = [k \in 1 .. n |-> Piece(c, k)]
    BY <1>3 DEF CopyObject, CompleteUpload, SetObject, Pieces
  <2>4. \A k \in 1 .. n : IsPiece(c, k, obj'.body[k])
    BY <2>2, <2>3
  <2>5. obj'.body = [k \in 1 .. n |-> obj'.body[k]]
    BY <2>3
  <2> QED
    BY <1>1, <2>4, <2>5, Assembled
<1>4. CASE a.msg.do = "complete"
  <2>1. a.msg.body = Numbers(c)
    BY <1>1, <1>4 DEF Suits, Message, PutSuits, Put
  <2>2. Len(Numbers(c)) = n /\ \A k \in 1 .. n : Numbers(c)[k] = k /\ k \in ToSet(Numbers(c))
    BY <1>2 DEF Numbers, ToSet
  <2>3. \A k \in 1 .. n : \E p \in upload[c].parts : p[2] = k
    BY <1>4, <2>1, <2>2 DEF Accepts
  <2>4. \A k \in 1 .. n : PartOf(c, k) \in upload[c].parts /\ PartOf(c, k)[2] = k
    BY <2>3 DEF PartOf
  <2>5. \A k \in 1 .. n : IsPiece(c, k, PartOf(c, k))
    BY <1>1, <2>4 DEF StoreTypes
  <2>6. obj'.body = [k \in 1 .. n |-> PartOf(c, k)]
    <3>1. obj'.body = [k \in 1 .. Len(a.msg.body) |-> PartOf(c, a.msg.body[k])]
      BY <1>4 DEF CopyObject, CompleteUpload, SetObject
    <3> QED
      BY <2>1, <2>2, <3>1
  <2>7. \A k \in 1 .. n : IsPiece(c, k, obj'.body[k])
    BY <2>5, <2>6
  <2>8. obj'.body = [k \in 1 .. n |-> obj'.body[k]]
    BY <2>6
  <2> QED
    BY <1>1, <2>7, <2>8, Assembled
<1> QED
  BY <1>3, <1>4

\* What the service keeps is typed from the start.
LEMMA TypesStart == ObjectInit => StoreTypes
<1> SUFFICES ASSUME ObjectInit PROVE StoreTypes
  OBVIOUS
<1>1. <<Absent, 0>> \in Tags /\ <<<<Absent, 0>>>> \in Bodies
  BY DEF Tags, Bodies, ChunkNames
<1>2. obj \in Objects \cup {Absent}
  <2>1. \A t \in Tags, b \in Bodies : [tag |-> t, body |-> b] \in Objects
    BY DEF Objects
  <2>2. [tag |-> <<Absent, 0>>, body |-> <<<<Absent, 0>>>>] \in Objects
    BY <1>1, <2>1, Zenon
  <2> QED
    BY <2>2 DEF ObjectInit
<1>3. \A c \in Clients : upload[c].parts = {}
  BY DEF ObjectInit
<1> QED
  BY <1>2, <1>3 DEF ObjectInit, StoreTypes

\* What the service does is typed.
LEMMA PerformTyped ==
  ASSUME CallInv, StoreTypes, NEW a \in net, Accepts(a.msg), Perform(a)
  PROVE  /\ obj' \in Objects \cup {Absent} /\ source' = source /\ landed' \in SUBSET Clients
         /\ upload' \in [Clients -> [state : {"none", "open", "aborted", "done"}, parts : SUBSET ChunkNames]]
         /\ staged' \in [Chunks -> ChunkNames \cup {Absent}]
         /\ committed' \in [Chunks -> ChunkNames \cup {Absent}]
         /\ \A c \in Clients : \A p \in upload'[c].parts :
              p \in upload[c].parts \/ (p[2] \in Chunks /\ IsPiece(c, p[2], p) /\ cl[c].pc # "idle")
<1> DEFINE c == a.msg.by
           US == [state : {"none", "open", "aborted", "done"}, parts : SUBSET ChunkNames]
<1>1. /\ c \in Clients /\ a.msg \in Messages /\ a.try \in Nat \ {0} /\ cl[c].pc # "idle"
      /\ a.msg.do \notin {"part", "block"} => Suits(c, a.msg)
      /\ a.msg.do \in {"part", "block"} => a.msg.part \in Chunks
      /\ call \in [Clients -> Calls]
  BY AttemptFits DEF CallInv, Settings
<1>2. NewTag(a) \in Tags
  BY <1>1 DEF NewTag, Tags
<1>3. ASSUME NEW body \in Bodies, SetObject([tag |-> NewTag(a), body |-> body])
      PROVE  obj' \in Objects /\ landed' \in SUBSET Clients
  BY <1>2, <1>3 DEF SetObject, Objects, StoreTypes
<1>4. [i \in Chunks |-> Absent] \in [Chunks -> ChunkNames \cup {Absent}]
  OBVIOUS
<1>5. upload[c] \in US
  BY <1>1 DEF StoreTypes
<1> HIDE DEF c
<1>6. CASE PutObject(a)
  <2>1. a.msg.body \in Bodies
    BY <1>1, <1>6 DEF PutObject, Suits, PutSuits
  <2> QED
    BY <1>3, <1>4, <1>6, <2>1 DEF PutObject, StoreTypes
<1>7. CASE CopyObject(a)
  <2>1. a.msg.do = "copy" /\ obj' = [tag |-> NewTag(a), body |-> Pieces(a.msg.by)]
    BY <1>7 DEF CopyObject, SetObject
  <2>2. Pieces(a.msg.by) \in Bodies
    BY <1>7, <2>1, MadeWhole DEF MadeOf
  <2> QED
    BY <1>3, <1>4, <1>7, <2>2 DEF CopyObject, StoreTypes
<1>8. CASE DeleteObject(a)
  BY <1>4, <1>8 DEF DeleteObject, SetObject, StoreTypes
<1>9. CASE CreateUpload(a)
  <2>1. upload' = [upload EXCEPT ![c].state = "open"]
    BY <1>9 DEF CreateUpload, c
  <2>2. [upload[c] EXCEPT !.state = "open"] \in US
        /\ [upload[c] EXCEPT !.state = "open"].parts = upload[c].parts
    BY <1>5
  <2>3. upload' \in [Clients -> US] /\ \A d \in Clients : upload'[d].parts = upload[d].parts
    BY <1>1, <2>1, <2>2 DEF StoreTypes
  <2> QED
    BY <1>9, <2>3 DEF CreateUpload, StoreTypes
<1>10. CASE UploadPart(a)
  <2> DEFINE i == a.msg.part
             n == {p \in upload[c].parts : p[2] # i} \cup {Piece(c, i)}
             u == [upload[c] EXCEPT !.parts = n]
  <2>1. i \in Chunks /\ CanRead(c)
    BY <1>1, <1>10 DEF UploadPart, Accepts, c
  <2>2. IsPiece(c, i, Piece(c, i))
    BY <1>1, <2>1, PieceRead DEF StoreTypes
  <2>3. n \in SUBSET ChunkNames
    BY <1>5, <2>2 DEF IsPiece
  <2>4. upload' = [upload EXCEPT ![c] = u]
    BY <1>10 DEF UploadPart, c
  <2> HIDE DEF n
  <2>5. u \in US /\ u.parts = n
    BY <1>5, <2>3
  <2> HIDE DEF u
  <2>6. upload' \in [Clients -> US] /\ upload'[c].parts = n
        /\ \A d \in Clients \ {c} : upload'[d] = upload[d]
    BY <1>1, <2>4, <2>5 DEF StoreTypes
  <2>7. \A p \in n : p \in upload[c].parts \/ (p = Piece(c, i) /\ p[2] = i)
    BY <2>2 DEF n, IsPiece
  <2>8. UNCHANGED <<obj, source, staged, committed, landed>>
    BY <1>10 DEF UploadPart
  <2>9. cl[c].pc # "idle"
    BY <1>1 DEF c
  <2> QED
    BY <2>1, <2>2, <2>6, <2>7, <2>8, <2>9 DEF StoreTypes
<1>11. CASE CompleteUpload(a)
  <2>1. a.msg.do = "complete"
    BY <1>11 DEF CompleteUpload
  <2>2. obj'.body \in Bodies
    BY <1>11, <2>1, MadeWhole DEF MadeOf
  <2>3. obj' \in Objects /\ landed' \in SUBSET Clients
    BY <1>3, <1>11, <2>2 DEF CompleteUpload, SetObject
  <2>4. upload' \in [Clients -> US] /\ upload'[c].parts = {}
        /\ \A d \in Clients \ {c} : upload'[d] = upload[d]
    BY <1>1, <1>11 DEF CompleteUpload, StoreTypes, c
  <2> QED
    BY <1>11, <2>3, <2>4 DEF CompleteUpload, StoreTypes
<1>12. CASE AbortUpload(a)
  <2> DEFINE u == IF upload[c].state = "open" THEN [state |-> "aborted", parts |-> {}]
                                             ELSE upload[c]
  <2>1. upload' = [upload EXCEPT ![c] = u]
    BY <1>12 DEF AbortUpload, c
  <2>2. u \in US /\ u.parts \subseteq upload[c].parts
    BY <1>5
  <2> HIDE DEF u
  <2>3. upload' \in [Clients -> US] /\ \A d \in Clients : upload'[d].parts \subseteq upload[d].parts
    BY <1>1, <2>1, <2>2 DEF StoreTypes
  <2> QED
    BY <1>12, <2>3 DEF AbortUpload, StoreTypes
<1>13. CASE PutBlock(a)
  <2> DEFINE i == a.msg.part
  <2>1. i \in Chunks /\ CanRead(c)
    BY <1>1, <1>13 DEF PutBlock, Accepts, c
  <2>2. Piece(c, i) \in ChunkNames
    BY <1>1, <2>1, PieceRead DEF StoreTypes, IsPiece
  <2>3. staged' = [staged EXCEPT ![i] = Piece(c, i)]
    BY <1>13 DEF PutBlock, c
  <2> QED
    BY <1>13, <2>2, <2>3 DEF PutBlock, StoreTypes
<1>14. CASE PutBlockList(a)
  <2>1. a.msg.do = "commit" /\ a.msg.body = Numbers(c)
    BY <1>1, <1>14 DEF PutBlockList, Suits, Message, PutSuits, Put, c
  <2>2. call[c].chunks \in Nat /\ call[c].chunks <= MaxChunks
    BY <1>1, DataTyped
  <2>3. a.msg.body \in Seq(Chunks)
    BY <2>1, <2>2, ObjectStoreAssumption DEF Numbers, Chunks
  <2>4. \A i \in Chunks : Latest(i) \in ChunkNames \cup {Absent}
    BY DEF Latest, StoreTypes
  <2>5. \A i \in ToSet(a.msg.body) : Latest(i) \in ChunkNames
    BY <2>1, <2>3, <2>4 DEF Accepts, ToSet
  <2>6. \A k \in 1 .. Len(a.msg.body) : Latest(a.msg.body[k]) \in ChunkNames
    BY <2>3, <2>5 DEF ToSet
  <2>7. [k \in 1 .. Len(a.msg.body) |-> Latest(a.msg.body[k])] \in Bodies
    BY <2>3, <2>6 DEF Bodies
  <2> QED
    BY <1>3, <1>4, <1>14, <2>4, <2>7 DEF PutBlockList, StoreTypes
<1> QED
  BY <1>6, <1>7, <1>8, <1>9, <1>10, <1>11, <1>12, <1>13, <1>14 DEF Perform

\* What the service keeps stays typed.
LEMMA TypesStep ==
  ASSUME CallInv, StoreTypes, [ObjectNext]_objectVars
  PROVE  StoreTypes'
<1>1. /\ \A c \in Clients : /\ cl'[c].pc = "idle" => cl[c].pc = "idle"
                            /\ cl[c].pc # "idle" => call'[c] = call[c]
      /\ Happens
  BY StepMoves, NeverBack
<1>2. source' \in {0, 1, Absent}
  <2>1. ASSUME NEW a \in net, Perform(a)
        PROVE  source' = source
    BY <2>1 DEF Perform, storeVars, PutObject, CopyObject, DeleteObject, CreateUpload, UploadPart,
                CompleteUpload, AbortUpload, PutBlock, PutBlockList
  <2>2. \/ source' = source \/ ChangeSource
    BY <2>1 DEF ObjectNext, objectVars, storeVars, Start, ClientStep, SourceFails, ReadHead, Get,
                Confirm, FailRead, Admit, PoolFails, PoolEnds, PoolIsEmpty, PutEmpty, Cleanup,
                Serve, Refuse, Retry, RequestFails
  <2> QED
    BY <2>2 DEF ChangeSource, StoreTypes
<1>3. \/ UNCHANGED <<obj, upload, staged, committed, landed>>
      \/ \E a \in net : Accepts(a.msg) /\ Perform(a)
  BY <1>1 DEF Happens, storeVars
<1>4. /\ obj' \in Objects \cup {Absent} /\ landed' \in SUBSET Clients
      /\ upload' \in [Clients -> [state : {"none", "open", "aborted", "done"}, parts : SUBSET ChunkNames]]
      /\ staged' \in [Chunks -> ChunkNames \cup {Absent}]
      /\ committed' \in [Chunks -> ChunkNames \cup {Absent}]
      /\ \A c \in Clients : \A p \in upload'[c].parts :
           p \in upload[c].parts \/ (p[2] \in Chunks /\ IsPiece(c, p[2], p) /\ cl[c].pc # "idle")
  <2>1. CASE UNCHANGED <<obj, upload, staged, committed, landed>>
    BY <2>1 DEF StoreTypes
  <2>2. CASE \E a \in net : Accepts(a.msg) /\ Perform(a)
    BY <2>2, PerformTyped
  <2> QED
    BY <1>3, <2>1, <2>2
<1>5. ASSUME NEW c \in Clients
      PROVE  /\ cl'[c].pc = "idle" => upload'[c].parts = {}
             /\ \A p \in upload'[c].parts : p[2] \in Chunks /\ IsPiece(c, p[2], p)'
  <2>1. CASE cl[c].pc = "idle"
    <3>1. upload'[c].parts = {}
      BY <1>4, <2>1 DEF StoreTypes
    <3> QED
      BY <3>1
  <2>2. CASE cl[c].pc # "idle"
    BY <1>1, <1>4, <2>2 DEF StoreTypes, IsPiece
  <2> QED
    BY <2>1, <2>2
<1> QED
  BY <1>2, <1>4, <1>5 DEF StoreTypes

----------------------------------------------------------------------------
(* Uploads are released.                                                   *)

\* Unless requests outlive their clients' patience, only awaited ones are under
\* way.
LEMMA CurrentStep ==
  ASSUME CallInv, Current, Happens, setup' = setup
  PROVE  Current'
<1> SUFFICES ASSUME ~setup.late, NEW a \in net'
             PROVE  Awaits(a.slot)' /\ a = LastAttempt(a.slot)'
  BY DEF Current
<1>1. Wires /\ \A b \in net : b.slot \in Slots /\ Awaits(b.slot) /\ b = LastAttempt(b.slot)
  BY AttemptPosted DEF CallInv, Current
<1>2. ASSUME NEW s \in Slots, \A t \in Slots \ {s} : req'[t] = req[t], a \in net, a.slot # s
      PROVE  Awaits(a.slot)' /\ a = LastAttempt(a.slot)'
  BY <1>1, <1>2 DEF Awaits, LastAttempt
<1>3. CASE UNCHANGED requestVars
  BY <1>1, <1>3 DEF requestVars, Awaits, LastAttempt
<1>4. CASE \E c \in Clients : \E s, m : Sends(c, s, m)
  <2>1. PICK s \in Slots, m \in Messages : Send(s, m)
    BY <1>4 DEF Sends
  <2>2. /\ ~Awaits(s) /\ Awaits(s)' /\ req'[s].msg = m /\ req'[s].try = 1
        /\ \A t \in Slots \ {s} : req'[t] = req[t]
        /\ net' = net \cup {[slot |-> s, try |-> 1, msg |-> m]}
    BY <1>1, <2>1, SendEffect
  <2>3. CASE a \in net
    BY <1>1, <1>2, <2>2, <2>3
  <2>4. CASE a = [slot |-> s, try |-> 1, msg |-> m]
    BY <2>2, <2>4 DEF LastAttempt
  <2> QED
    BY <2>2, <2>3, <2>4
<1>5. CASE \E s \in Slots : Resend(s, setup.late)
  <2>1. PICK s \in Slots : Resend(s, setup.late)
    BY <1>5
  <2>2. /\ Awaits(s)' /\ req'[s].msg = req[s].msg /\ req'[s].try = req[s].try + 1
        /\ \A t \in Slots \ {s} : req'[t] = req[t]
        /\ net' = Abandoned(s, setup.late)
                    \cup {[slot |-> s, try |-> req[s].try + 1, msg |-> req[s].msg]}
    BY <1>1, <2>1, ResendEffect DEF Subsides
  <2>3. CASE a \in net \ {LastAttempt(s)}
    BY <1>1, <1>2, <2>2, <2>3
  <2>4. CASE a = [slot |-> s, try |-> req[s].try + 1, msg |-> req[s].msg]
    BY <2>2, <2>4 DEF LastAttempt
  <2> QED
    BY <2>2, <2>3, <2>4 DEF Abandoned
<1>6. CASE \E s \in Slots : GiveUp(s, setup.late)
  <2>1. PICK s \in Slots : GiveUp(s, setup.late)
    BY <1>6
  <2>2. net' = Abandoned(s, setup.late) /\ \A t \in Slots \ {s} : req'[t] = req[t]
    BY <1>1, <2>1, GiveUpEffect DEF Subsides
  <2> QED
    BY <1>1, <1>2, <2>2 DEF Abandoned
<1>7. CASE \E b \in net : Answer(b)
  <2>1. PICK b \in net : Answer(b)
    BY <1>7
  <2>2. /\ net' = net \ {b} /\ b = LastAttempt(b.slot) /\ b.slot \in Slots
        /\ \A t \in Slots \ {b.slot} : req'[t] = req[t]
    BY <1>1, <2>1, AnswerEffect DEF Subsides
  <2> QED
    BY <1>1, <1>2, <2>2
<1>8. CASE \E b \in net : Unanswered(b)
  <2>1. req' = req /\ net' \subseteq net
    BY <1>1, <1>8, UnansweredEffect
  <2> QED
    BY <1>1, <2>1 DEF Awaits, LastAttempt
<1> QED
  BY <1>3, <1>4, <1>5, <1>6, <1>7, <1>8 DEF Happens

\* What happens to the upload of a client.
LEMMA UploadMoves ==
  ASSUME CallInv, StoreTypes, Happens, NEW c \in Clients
  PROVE  \/ upload'[c] = upload[c]
         \/ \E a \in net :
              /\ a.msg.by = c /\ net' = net \ {a}
              /\ \/ a.msg.do = "create" /\ upload'[c].state = "open"
                 \/ /\ a.msg.do = "part" /\ upload'[c].state = upload[c].state
                    /\ upload[c].state # "none"
                 \/ /\ a.msg.do = "complete" /\ upload'[c].state = "done"
                    /\ upload[c].state = "open"
                 \/ /\ a.msg.do = "abort"
                    /\ upload'[c] = IF upload[c].state = "open"
                                    THEN [state |-> "aborted", parts |-> {}] ELSE upload[c]
<1>1. CASE UNCHANGED upload
  BY <1>1
<1>2. ASSUME NEW a \in net, net' = net \ {a}, Accepts(a.msg), Perform(a)
      PROVE  \/ upload'[c] = upload[c]
             \/ /\ a.msg.by = c
                /\ \/ a.msg.do = "create" /\ upload'[c].state = "open"
                   \/ /\ a.msg.do = "part" /\ upload'[c].state = upload[c].state
                      /\ upload[c].state # "none"
                   \/ /\ a.msg.do = "complete" /\ upload'[c].state = "done"
                      /\ upload[c].state = "open"
                   \/ /\ a.msg.do = "abort"
                      /\ upload'[c] = IF upload[c].state = "open"
                                      THEN [state |-> "aborted", parts |-> {}] ELSE upload[c]
  <2> DEFINE d == a.msg.by
  <2>1. d \in Clients /\ \A e \in Clients : upload[e] \in
          [state : {"none", "open", "aborted", "done"}, parts : SUBSET ChunkNames]
    BY AttemptFits DEF StoreTypes
  <2>2. DOMAIN upload = Clients
    BY DEF StoreTypes
  <2> HIDE DEF d
  <2>3. CASE PutObject(a) \/ CopyObject(a) \/ DeleteObject(a) \/ PutBlock(a) \/ PutBlockList(a)
    BY <2>3 DEF PutObject, CopyObject, DeleteObject, PutBlock, PutBlockList
  <2>4. CASE CreateUpload(a)
    <3> DEFINE u == [upload[d] EXCEPT !.state = "open"]
    <3>1. upload' = [upload EXCEPT ![d] = u] /\ a.msg.do = "create"
      BY <2>4 DEF CreateUpload, d
    <3>2. u.state = "open"
      BY <2>1
    <3> QED
      BY <2>2, <3>1, <3>2 DEF d
  <2>5. CASE UploadPart(a)
    <3> DEFINE n == {p \in upload[d].parts : p[2] # a.msg.part} \cup {Piece(d, a.msg.part)}
               u == [upload[d] EXCEPT !.parts = n]
    <3>1. upload' = [upload EXCEPT ![d] = u] /\ a.msg.do = "part"
      BY <2>5 DEF UploadPart, d
    <3>2. upload[d].state # "none"
      BY <1>2, <3>1 DEF Accepts, d
    <3> HIDE DEF n
    <3>3. u.state = upload[d].state
      BY <2>1
    <3> QED
      BY <2>2, <3>1, <3>2, <3>3 DEF d
  <2>6. CASE CompleteUpload(a)
    <3>1. upload' = [upload EXCEPT ![d] = [state |-> "done", parts |-> {}]]
          /\ a.msg.do = "complete"
      BY <2>6 DEF CompleteUpload, d
    <3>2. upload[d].state = "open"
      BY <1>2, <3>1 DEF Accepts, d
    <3> QED
      BY <2>2, <3>1, <3>2 DEF d
  <2>7. CASE AbortUpload(a)
    <3> DEFINE u == IF upload[d].state = "open" THEN [state |-> "aborted", parts |-> {}]
                                                ELSE upload[d]
    <3>1. upload' = [upload EXCEPT ![d] = u] /\ a.msg.do = "abort"
      BY <2>7 DEF AbortUpload, d
    <3> QED
      BY <2>2, <3>1 DEF d
  <2> QED
    BY <1>2, <2>3, <2>4, <2>5, <2>6, <2>7 DEF Perform
<1>3. ASSUME NEW a \in net, Answer(a) \/ Unanswered(a)
      PROVE  net' = net \ {a}
  BY <1>3, AnswerEffect, UnansweredEffect DEF CallInv
<1> QED
  BY <1>1, <1>2, <1>3 DEF Happens, storeVars

\* Which attempts and messages are new.
LEMMA WireMoves ==
  ASSUME CallInv, Happens
  PROVE  /\ \A a \in net' :
              \/ a \in net
              \/ \E c \in Clients : \E s, m :
                   Sends(c, s, m) /\ a = [slot |-> s, try |-> 1, msg |-> m]
              \/ \E s \in Slots :
                   /\ Awaits(s) /\ req[s].msg.retry
                   /\ a = [slot |-> s, try |-> req[s].try + 1, msg |-> req[s].msg]
         /\ \A s \in Slots : \A m \in Posted(s)' :
              m \in Posted(s) \/ (UNCHANGED storeVars /\ \E c \in Clients : Sends(c, s, m))
<1>1. Wires
  BY DEF CallInv
<1>2. CASE UNCHANGED requestVars
  BY <1>2 DEF requestVars, Posted, Awaits
<1>3. CASE UNCHANGED storeVars /\ \E c \in Clients : \E s, m : Sends(c, s, m)
  <2>1. PICK c, s, m : c \in Clients /\ Sends(c, s, m)
    BY <1>3
  <2>2. s \in Slots /\ m \in Messages /\ Send(s, m)
    BY <2>1 DEF Sends
  <2>3. /\ Posted(s)' = Posted(s) \cup {m}
        /\ \A t \in Slots \ {s} : Posted(t)' = Posted(t)
        /\ net' = net \cup {[slot |-> s, try |-> 1, msg |-> m]}
    BY <1>1, <2>2, SendEffect
  <2> QED
    BY <1>3, <2>1, <2>3
<1>4. CASE \E s \in Slots : Resend(s, setup.late)
  <2>1. PICK s \in Slots : Resend(s, setup.late)
    BY <1>4
  <2>2. /\ Awaits(s) /\ req[s].msg.retry /\ Subsides(s)
        /\ net' = Abandoned(s, setup.late)
                    \cup {[slot |-> s, try |-> req[s].try + 1, msg |-> req[s].msg]}
    BY <1>1, <2>1, ResendEffect
  <2> QED
    BY <2>2 DEF Abandoned, Subsides
<1>5. CASE \E s \in Slots : GiveUp(s, setup.late)
  BY <1>1, <1>5, GiveUpEffect DEF Abandoned, Subsides
<1>6. CASE \E a \in net : Answer(a)
  BY <1>1, <1>6, AnswerEffect DEF Subsides
<1>7. CASE \E a \in net : Unanswered(a)
  BY <1>1, <1>7, UnansweredEffect
<1> QED
  BY <1>2, <1>3, <1>4, <1>5, <1>6, <1>7 DEF Happens

\* An upload is created once, and is closed before its call goes on.
LEMMA ClosedStep ==
  ASSUME CallInv, StoreTypes, Current, Closed, Happens, setup' = setup,
         \A c \in Clients : Stays(c) \/ Goes(c) \/ Fails(c) \/ Succeeds(c)
  PROVE  Closed'
<1>1. \A c \in Clients : Sound(c)
  BY DEF CallInv
<1>2. ASSUME NEW c \in Clients, Succeeds(c)
      PROVE  \E a \in net : /\ a.slot = Main(c) /\ a.msg.by = c /\ a.msg.do = DeedOf(cl[c].pc)
                            /\ Accepts(a.msg) /\ Perform(a) /\ net' = net \ {a}
  BY <1>2, AttemptFits, SlotOf DEF Succeeds
<1>3. ASSUME NEW a \in net, a.msg.do = "create"
      PROVE  /\ a = [slot |-> Main(a.msg.by), try |-> 1, msg |-> Message("create", a.msg.by)]
             /\ a.msg.by \in Clients /\ a.slot[1] = a.msg.by
             /\ ~cl[a.msg.by].known /\ upload[a.msg.by].state = "none"
  <2>1. /\ a.msg.by \in Clients /\ a.slot[1] = a.msg.by /\ a.slot = Main(a.msg.by)
        /\ Suits(a.msg.by, a.msg) /\ a \in Attempts
    BY <1>3, AttemptFits DEF CallInv, Wires
  <2>2. a.msg = Message("create", a.msg.by)
    BY <1>3, <2>1 DEF Suits
  <2> QED
    BY <1>3, <2>1, <2>2 DEF Closed, Attempts
<1>4. ASSUME NEW a \in net', a.msg.do = "create"
      PROVE  a.try = 1 /\ ~cl'[a.slot[1]].known /\ upload'[a.slot[1]].state = "none"
  <2>1. \/ a \in net
        \/ \E c \in Clients : \E s, m : Sends(c, s, m) /\ a = [slot |-> s, try |-> 1, msg |-> m]
        \/ \E s \in Slots : Awaits(s) /\ req[s].msg.retry /\ a.slot = s /\ a.msg = req[s].msg
    BY WireMoves
  <2>2. CASE a \in net
    <3> DEFINE c == a.msg.by
    <3>1. /\ a = [slot |-> Main(c), try |-> 1, msg |-> Message("create", c)]
          /\ c \in Clients /\ a.slot[1] = c /\ ~cl[c].known /\ upload[c].state = "none"
      BY <1>3, <1>4, <2>2
    <3>2. \A b \in net : b.msg.by = c /\ b.msg.do = "create" => b = a
      BY <1>3, <3>1
    <3> HIDE DEF c
    <3>3. ~cl'[c].known
      <4>1. ~Succeeds(c) \/ cl[c].pc # "create"
        <5> SUFFICES ASSUME Succeeds(c), cl[c].pc = "create" PROVE FALSE
          OBVIOUS
        <5>1. PICK b \in net : b.msg.by = c /\ b.msg.do = "create" /\ net' = net \ {b}
          BY <1>2, <3>1 DEF DeedOf
        <5> QED
          BY <3>2, <5>1
      <4> QED
        BY <3>1, <4>1 DEF Stays, Goes, Fails, Succeeds
    <3>4. upload'[c].state = "none"
      <4>1. CASE upload'[c] = upload[c]
        BY <3>1, <4>1
      <4>2. CASE upload'[c] # upload[c]
        <5>1. PICK b \in net :
                /\ b.msg.by = c /\ net' = net \ {b}
                /\ \/ b.msg.do = "create"
                   \/ b.msg.do = "part" /\ upload[c].state # "none"
                   \/ b.msg.do = "complete" /\ upload[c].state = "open"
                   \/ b.msg.do = "abort" /\ (upload[c].state = "open" \/ upload'[c] = upload[c])
          BY <3>1, <4>2, UploadMoves
        <5> QED
          BY <3>1, <3>2, <4>2, <5>1
      <4> QED
        BY <4>1, <4>2
    <3> QED
      BY <3>1, <3>3, <3>4
  <2>3. CASE \E c \in Clients : \E s, m : Sends(c, s, m) /\ a = [slot |-> s, try |-> 1, msg |-> m]
    <3>1. PICK c, s, m : c \in Clients /\ Sends(c, s, m) /\ a = [slot |-> s, try |-> 1, msg |-> m]
      BY <2>3
    <3>2. c \in Clients /\ cl[c].pc = "head" /\ a.slot[1] = c /\ a.try = 1
      BY <1>4, <3>1 DEF Sends
    <3>3. ~cl[c].known
      BY <1>1, <3>2 DEF Sound, Placed
    <3>4. ~cl'[c].known
      BY <3>2, <3>3 DEF Stays, Goes, Fails, Succeeds, Waiting, Makers
    <3>5. ~\E b \in net : b.msg.by = c
      BY <3>2, AttemptFits
    <3>6. upload'[c] = upload[c]
      BY <3>2, <3>5, UploadMoves
    <3> QED
      BY <3>2, <3>4, <3>6 DEF Closed
  <2>4. CASE \E s \in Slots : Awaits(s) /\ req[s].msg.retry /\ a.slot = s /\ a.msg = req[s].msg
    <3>1. PICK s \in Slots : Awaits(s) /\ req[s].msg.retry /\ a.msg = req[s].msg
      BY <2>4
    <3>2. s[1] \in Clients /\ a.msg \in Posted(s) /\ s[2] # 0 => s[2] \in Chunks
      BY <3>1, SlotOf DEF Posted
    <3>3. Fits(s, a.msg)
      BY <1>1, <3>1, <3>2, SlotOf DEF Sound, SentAt, Posted
    <3>4. CASE s[2] = 0
      <4>1. a.msg = Message("create", s[1])
        BY <1>4, <3>3, <3>4 DEF Fits, Suits
      <4>2. ~Message("create", s[1]).retry
        BY DEF Message
      <4> QED
        BY <3>1, <4>1, <4>2
    <3>5. CASE s[2] # 0
      <4>1. s[1] \in Clients /\ s[2] \in Chunks
        BY <3>5, SlotOf
      <4> QED
        BY <1>4, <3>3, <3>5, <4>1, PartTyped DEF Fits
    <3> QED
      BY <3>4, <3>5
  <2> QED
    BY <2>1, <2>2, <2>3, <2>4
<1>5. ASSUME NEW c \in Clients, cl'[c].pc \in {"idle", "head"}
      PROVE  upload'[c].state = "none"
  <2>1. cl[c].pc \in {"idle", "head"}
    BY <1>5 DEF Stays, Goes, Fails, Succeeds, Onward, Failed, Succeeded, Waiting, Makers
  <2>2. ~\E b \in net : b.msg.by = c
    BY <2>1, AttemptFits
  <2> QED
    BY <2>1, <2>2, UploadMoves DEF Closed
<1>6. ASSUME NEW c \in Clients, cl'[c].known,
             cl'[c].pc \in {"empty", "put", "confirm", "done", "failed"}
      PROVE  upload'[c].state # "open"
  <2>1. ASSUME upload[c].state # "open", cl[c].known
        PROVE  upload'[c].state # "open"
    BY <1>3, <2>1, UploadMoves
  <2>2. CASE Stays(c)
    BY <1>6, <2>1, <2>2 DEF Stays, Closed
  <2>3. CASE Goes(c)
    <3>1. cl[c].known /\ cl[c].pc \notin {"idle", "head", "get", "create"}
      BY <1>1, <1>6, <2>3 DEF Goes, Sound, Placed
    <3>2. cl[c].pc \in {"empty", "confirm"}
      BY <1>6, <2>3, <3>1 DEF Goes, Onward
    <3> QED
      BY <2>1, <3>1, <3>2 DEF Closed
  <2>4. CASE Fails(c)
    BY <1>6, <2>4 DEF Fails, Failed
  <2>5. CASE Succeeds(c)
    <3>1. PICK a \in net : /\ a.msg.by = c /\ a.msg.do = DeedOf(cl[c].pc)
                           /\ Accepts(a.msg) /\ Perform(a)
      BY <1>2, <2>5
    <3>2. upload \in [Clients -> [state : {"none", "open", "aborted", "done"}, parts : SUBSET ChunkNames]]
      BY DEF StoreTypes
    <3>3. cl[c].pc \in {"put", "complete", "discard", "abort"} /\ cl[c].known
      BY <1>1, <1>6, <2>5 DEF Succeeds, Succeeded, Waiting, Makers, Sound, Placed, InPieces
    <3>4. CASE cl[c].pc = "put"
      BY <2>1, <3>3, <3>4 DEF Closed
    <3>5. CASE cl[c].pc = "complete"
      <4>1. CompleteUpload(a)
        BY <3>1, <3>5 DEF DeedOf, Perform, PutObject, CopyObject, DeleteObject, CreateUpload,
                          UploadPart, AbortUpload, PutBlock, PutBlockList
      <4> QED
        BY <3>1, <3>2, <4>1 DEF CompleteUpload
    <3>6. CASE cl[c].pc \in {"discard", "abort"}
      <4>1. AbortUpload(a)
        BY <3>1, <3>6 DEF DeedOf, Perform, PutObject, CopyObject, DeleteObject, CreateUpload,
                          UploadPart, CompleteUpload, PutBlock, PutBlockList
      <4>2. upload'[c] = IF upload[c].state = "open" THEN [state |-> "aborted", parts |-> {}]
                                                     ELSE upload[c]
        BY <3>1, <3>2, <4>1 DEF AbortUpload
      <4> QED
        BY <4>2
    <3> QED
      BY <3>3, <3>4, <3>5, <3>6
  <2> QED
    BY <2>2, <2>3, <2>4, <2>5
<1> DEFINE D == {"discard", "abort", "empty", "put", "confirm", "cleanup", "done", "failed",
                 "unclean"}
<1>7. ASSUME NEW c \in Clients, ~setup.late, upload'[c].state = "aborted"
      PROVE  upload'[c].parts = {} /\ cl'[c].pc \in D
  <2>1. upload'[c].parts = {} /\ cl[c].pc \in D
    <3>1. CASE upload'[c] = upload[c]
      BY <1>7, <3>1 DEF Closed
    <3>2. CASE upload'[c] # upload[c]
      <4>1. PICK a \in net :
              /\ a.msg.by = c
              /\ \/ a.msg.do = "part" /\ upload[c].state = "aborted"
                 \/ a.msg.do = "abort" /\ upload'[c].parts = {}
        BY <1>7, <3>2, UploadMoves
      <4>2. Awaits(a.slot) /\ a.msg = req[a.slot].msg
        BY <1>7, <4>1 DEF Current, LastAttempt
      <4>3. CASE a.msg.do = "part"
        <5>1. a.slot = Part(c, a.msg.part) /\ a.msg.part \in Chunks
          BY <4>1, <4>3, AttemptFits
        <5>2. cl[c].pc = "pool"
          BY <1>1, <4>2, <5>1 DEF Sound, Awaiting
        <5> QED
          BY <1>7, <4>1, <4>3, <5>2 DEF Closed
      <4>4. CASE a.msg.do = "abort"
        <5>1. a.slot = Main(c)
          BY <4>1, <4>4, AttemptFits
        <5>2. DeedOf(cl[c].pc) = "abort"
          BY <1>1, <4>2, <4>4, <5>1 DEF Sound, Awaiting
        <5> QED
          BY <4>1, <4>4, <5>2 DEF DeedOf
      <4> QED
        BY <4>1, <4>3, <4>4
    <3> QED
      BY <3>1, <3>2
  <2>2. cl'[c].pc \in D
    <3>1. CASE Stays(c)
      BY <2>1, <3>1 DEF Stays
    <3>2. CASE Goes(c)
      BY <2>1, <3>2 DEF Goes, Onward
    <3>3. CASE Fails(c)
      BY <2>1, <3>3 DEF Fails, Failed
    <3>4. CASE Succeeds(c)
      BY <2>1, <3>4 DEF Succeeds, Succeeded, Waiting, Makers
    <3> QED
      BY <3>1, <3>2, <3>3, <3>4
  <2> QED
    BY <2>1, <2>2
<1> QED
  BY <1>4, <1>5, <1>6, <1>7 DEF Closed

\* Calls, messages and what is stored fit together.
Fitting == CallInv /\ StoreTypes

\* They do always: type correctness, and no call in two places.
THEOREM CallsFit == ObjectSpec => []Fitting
<1>1. ObjectInit => Fitting
  BY CallsStart, TypesStart DEF Fitting
<1>2. Fitting /\ [ObjectNext]_objectVars => Fitting'
  BY CallsStep, TypesStep DEF Fitting
<1> QED
  BY <1>1, <1>2, PTL DEF ObjectSpec

\* put() and copy() leave no upload open that they know of, and no part in an
\* aborted one, whatever is lost, repeated or late.
THEOREM UploadsAreReleased == ObjectSpec => []UploadsReleased
<1>1. ObjectInit => Current /\ Closed
  BY DEF ObjectInit, RequestInit, Current, Closed
<1>2. Fitting /\ Current /\ Closed /\ [ObjectNext]_objectVars => (Current /\ Closed)'
  BY StepMoves, CurrentStep, ClosedStep DEF Fitting
<1>3. Current /\ Closed => UploadsReleased
  BY DEF Closed, UploadsReleased
<1> QED
  BY <1>1, <1>2, <1>3, CallsFit, PTL DEF ObjectSpec

----------------------------------------------------------------------------
(* A conditional append extends the object.                                *)

\* Only the requests of Makers give the object a body.
LEMMA ObjectMoves ==
  ASSUME CallInv, Happens
  PROVE  \/ obj' = obj
         \/ obj' = Absent
         \/ \E a \in net :
              /\ a.msg.do \in Makers /\ net' = net \ {a} /\ Accepts(a.msg) /\ Perform(a)
              /\ obj'.tag = NewTag(a)
              /\ a.msg.do = "put" => obj' = [tag |-> NewTag(a), body |-> a.msg.body]
<1>1. ASSUME NEW a \in net, Answer(a) \/ Unanswered(a), Accepts(a.msg), Perform(a), obj' # obj,
             obj' # Absent
      PROVE  /\ a.msg.do \in Makers /\ net' = net \ {a} /\ obj'.tag = NewTag(a)
             /\ a.msg.do = "put" => obj' = [tag |-> NewTag(a), body |-> a.msg.body]
  <2>1. net' = net \ {a}
    BY <1>1, AnswerEffect, UnansweredEffect DEF CallInv
  <2>2. PutObject(a) \/ CopyObject(a) \/ CompleteUpload(a) \/ PutBlockList(a)
    BY <1>1 DEF Perform, DeleteObject, CreateUpload, UploadPart, AbortUpload, PutBlock, SetObject
  <2> QED
    BY <2>1, <2>2 DEF PutObject, CopyObject, CompleteUpload, PutBlockList, SetObject, Makers
<1> QED
  BY <1>1 DEF Happens, storeVars

\* A request that goes on being awaited is the same, if with more attempts.
LEMMA TriesGrow ==
  ASSUME CallInv, Happens, NEW s \in Slots, Awaits(s), Awaits(s)'
  PROVE  req[s].try \in Nat /\ req'[s].try \in Nat /\ req'[s].try >= req[s].try
<1>1. Wires /\ req[s].try \in Nat
  BY DEF CallInv, Wires, Awaits, Requested
<1>2. CASE UNCHANGED requestVars
  BY <1>1, <1>2 DEF requestVars
<1>3. CASE \E c \in Clients : \E t, m : Sends(c, t, m)
  <2>1. PICK t \in Slots, m \in Messages : Send(t, m)
    BY <1>3 DEF Sends
  <2>2. t # s /\ req'[s] = req[s]
    BY <1>1, <2>1, SendEffect
  <2> QED
    BY <1>1, <2>2
<1>4. CASE \E t \in Slots : Resend(t, setup.late)
  <2>1. PICK t \in Slots : Resend(t, setup.late)
    BY <1>4
  <2>2. req'[t].try = req[t].try + 1 /\ \A u \in Slots \ {t} : req'[u] = req[u]
    BY <1>1, <2>1, ResendEffect DEF Subsides
  <2> QED
    BY <1>1, <2>2
<1>5. CASE \E t \in Slots : GiveUp(t, setup.late)
  <2>1. PICK t \in Slots : GiveUp(t, setup.late)
    BY <1>5
  <2>2. ~Awaits(t)' /\ \A u \in Slots \ {t} : req'[u] = req[u]
    BY <1>1, <2>1, GiveUpEffect DEF Subsides
  <2> QED
    BY <1>1, <2>2
<1>6. CASE \E a \in net : Answer(a)
  <2>1. PICK a \in net : Answer(a)
    BY <1>6
  <2>2. ~Awaits(a.slot)' /\ \A u \in Slots \ {a.slot} : req'[u] = req[u]
    BY <1>1, <2>1, AnswerEffect DEF Subsides
  <2> QED
    BY <1>1, <2>2
<1>7. CASE \E a \in net : Unanswered(a)
  BY <1>1, <1>7, UnansweredEffect
<1> QED
  BY <1>2, <1>3, <1>4, <1>5, <1>6, <1>7 DEF Happens

\* What is known is a tag, or none.
LEMMA KnownTyped ==
  ASSUME CallInv, StoreTypes, NEW t \in KnownTags
  PROVE  t \in Tags \cup {Always, IfNone, Absent}
<1>1. \A c \in Clients : cl[c].tag \in Tags \cup {Absent}
  BY DEF CallInv, Settings, Locals
<1>2. obj # Absent => obj.tag \in Tags
  BY DEF StoreTypes, Objects
<1>3. \A s \in Slots : \A m \in Posted(s) : m.cond \in Tags \cup {Always, IfNone}
  <2>1. \A s \in Slots : \A m \in Posted(s) : m \in Messages
    BY SlotOf DEF CallInv, Sound, SentAt, Fits
  <2> QED
    BY <2>1 DEF Messages, Always, IfNone
<1> QED
  BY <1>1, <1>2, <1>3 DEF KnownTags

\* A tag that somebody knows has been given, and no attempt will give it again.
LEMMA TagsStep ==
  ASSUME CallInv, CallInv', StoreTypes, TagsOnce, Happens,
         \A c \in Clients : Stays(c) \/ Goes(c) \/ Fails(c) \/ Succeeds(c)
  PROVE  TagsOnce'
<1> SUFFICES ASSUME NEW t \in KnownTags', t # Absent, t[1] \in Clients, t[2] # 0
             PROVE  /\ cl'[t[1]].pc \notin Early
                    /\ cl'[t[1]].pc \in Makers => t[2] <= req'[Main(t[1])].try
                    /\ \A a \in net' : a.slot[1] = t[1] /\ a.msg.do \in Makers => a.try # t[2]
  BY DEF TagsOnce
<1> DEFINE d == t[1]
<1>1. /\ Main(d) \in Slots /\ Main(d)[1] = d /\ Sound(d) /\ Sound(d)'
      /\ Stays(d) \/ Goes(d) \/ Fails(d) \/ Succeeds(d)
  BY SlotOf DEF CallInv
<1>2. t \in KnownTags \cup {Always, IfNone}
      \/ (obj' # Absent /\ obj' # obj /\ t = obj'.tag)
  <2>1. CASE \E c \in Clients : t = cl'[c].tag
    <3>1. PICK c \in Clients : t = cl'[c].tag
      BY <2>1
    <3>2. t = cl[c].tag \/ (obj # Absent /\ t = obj.tag)
      BY <3>1 DEF Stays, Goes, Fails, Succeeds
    <3> QED
      BY <3>2 DEF KnownTags
  <2>2. CASE obj' # Absent /\ t = obj'.tag
    BY <2>2 DEF KnownTags
  <2>3. CASE \E s \in Slots : \E m \in Posted(s)' : t = m.cond
    <3>1. PICK s, m : s \in Slots /\ m \in Posted(s)' /\ t = m.cond
      BY <2>3
    <3>2. CASE m \in Posted(s)
      BY <3>1, <3>2 DEF KnownTags
    <3>3. CASE \E c \in Clients : Sends(c, s, m)
      <4>1. PICK c \in Clients : Sends(c, s, m)
        BY <3>3
      <4>2. m.cond \in {Always, IfNone, cl[c].tag} \/ (obj # Absent /\ m.cond = obj.tag)
        BY <4>1 DEF Sends
      <4> QED
        BY <3>1, <4>2 DEF KnownTags
    <3> QED
      BY <3>1, <3>2, <3>3, WireMoves
  <2> QED
    BY <2>1, <2>2, <2>3 DEF KnownTags
<1>3. t \notin {Always, IfNone}
  BY DEF Always, IfNone
<1>4. CASE t \in KnownTags
  <2>1. /\ cl[d].pc \notin Early
        /\ cl[d].pc \in Makers => t[2] <= req[Main(d)].try
        /\ \A a \in net : a.slot[1] = d /\ a.msg.do \in Makers => a.try # t[2]
    BY <1>4 DEF TagsOnce
  <2>2. cl'[d].pc \notin Early /\ (cl'[d].pc \in Makers => cl[d].pc = cl'[d].pc)
    BY <1>1, <2>1, NeverBack
  <2>3. cl[d].pc \in Makers => req[Main(d)].try \in Nat
    <3>1. cl[d].pc \in Makers => Awaits(Main(d))
      BY <1>1 DEF Sound, Awaiting, Waiting
    <3> QED
      BY <1>1, <3>1 DEF CallInv, Wires, Awaits, Requested
  <2>4. d \in Clients /\ t \in Tags /\ t[2] \in Nat
    BY <1>3, <1>4, KnownTyped DEF Tags
  <2>5. cl'[d].pc \in Makers => t[2] <= req'[Main(d)].try
    <3>1. cl'[d].pc \in Makers => Awaits(Main(d)) /\ Awaits(Main(d))'
      BY <1>1, <2>2 DEF Sound, Awaiting, Waiting
    <3> QED
      BY <1>1, <2>1, <2>2, <2>4, <3>1, TriesGrow
  <2>6. ASSUME NEW a \in net', a.slot[1] = d, a.msg.do \in Makers
        PROVE  a.try # t[2]
    <3>1. CASE a \in net
      BY <2>1, <2>6, <3>1
    <3>2. CASE \E c \in Clients : \E s, m :
                 Sends(c, s, m) /\ a = [slot |-> s, try |-> 1, msg |-> m]
      BY <2>1, <2>6, <3>2 DEF Sends
    <3>3. CASE \E s \in Slots : /\ Awaits(s)
                               /\ a = [slot |-> s, try |-> req[s].try + 1, msg |-> req[s].msg]
      <4>1. PICK s \in Slots : Awaits(s) /\ s[1] = d /\ req[s].msg.do \in Makers
                               /\ a.try = req[s].try + 1
        BY <2>6, <3>3
      <4>2. req[s].msg \in Posted(s)
        BY <4>1 DEF Posted
      <4>3. Fits(s, req[s].msg)
        BY <1>1, <4>1, <4>2 DEF Sound, SentAt
      <4>4. s = Main(d)
        <5>1. s[2] \in Chunks => PartMessage(d, s[2]).do \notin Makers
          BY <2>4, PartTyped DEF Makers
        <5> QED
          BY <4>1, <4>3, <5>1, SlotOf DEF Fits
      <4>5. cl[d].pc \in Makers
        BY <1>1, <4>1, <4>4 DEF Sound, Awaiting, DeedOf, Makers
      <4> QED
        BY <2>1, <2>3, <2>4, <4>1, <4>4, <4>5
    <3> QED
      BY <3>1, <3>2, <3>3, WireMoves
  <2> QED
    BY <2>2, <2>5, <2>6
<1>5. CASE obj' # Absent /\ obj' # obj /\ t = obj'.tag
  <2>1. PICK a \in net : /\ a.msg.do \in Makers /\ net' = net \ {a} /\ obj'.tag = NewTag(a)
    BY <1>5, ObjectMoves
  <2>2. a.msg.by = d /\ a.try = t[2]
    BY <1>5, <2>1 DEF NewTag
  <2>3. /\ a.slot = Main(d) /\ a.msg \in Posted(Main(d)) /\ cl[d].pc \notin Early
        /\ a.try \in Nat
    BY <2>1, <2>2, AttemptFits DEF Makers
  <2>4. cl'[d].pc \notin Early /\ (cl'[d].pc \in Makers => cl[d].pc = cl'[d].pc)
    BY <1>1, <2>3, NeverBack
  <2>5. cl'[d].pc \in Makers => t[2] <= req'[Main(d)].try
    <3>1. cl'[d].pc \in Makers => Awaits(Main(d)) /\ Awaits(Main(d))'
      BY <1>1, <2>4 DEF Sound, Awaiting, Waiting
    <3>2. cl'[d].pc \in Makers => a.try <= req[Main(d)].try
      BY <1>1, <2>1, <2>3, <2>4 DEF Sound, CountedAt
    <3> QED
      BY <1>1, <2>2, <2>3, <3>1, <3>2, TriesGrow
  <2>6. ASSUME NEW b \in net', b.slot[1] = d, b.msg.do \in Makers
        PROVE  b.try # t[2]
    <3>1. b \in net /\ b # a
      BY <2>1
    <3>2. b.slot = Main(d) /\ b.msg \in Posted(Main(d))
      BY <2>6, <3>1, AttemptFits DEF Makers
    <3>3. b.msg = a.msg
      BY <1>1, <2>1, <2>3, <2>6, <3>2 DEF Sound, SentAt
    <3>4. a \in Attempts /\ b \in Attempts
      BY <3>1 DEF CallInv, Wires
    <3> QED
      BY <2>2, <2>3, <3>1, <3>2, <3>3, <3>4 DEF Attempts
  <2> QED
    BY <2>4, <2>5, <2>6
<1> QED
  BY <1>2, <1>3, <1>4, <1>5

\* An append that is accepted finds the body it was read with.
LEMMA ExtendingStep ==
  ASSUME CallInv, StoreTypes, TagsOnce, Extending, Happens,
         \A c \in Clients : cl[c].pc # "idle" => call'[c] = call[c]
  PROVE  Extending'
<1> SUFFICES ASSUME NEW c \in Clients, call'[c].op = "append", NEW m \in Posted(Main(c))',
                    m.do = "put", m.cond # IfNone, obj' # Absent, obj'.tag = m.cond
             PROVE  m.body = obj'.body \o DataOf(c)'
  BY DEF Extending, Main
<1>1. Main(c) \in Slots /\ Main(c)[1] = c /\ Sound(c)
  BY SlotOf DEF CallInv
<1>2. m \in Posted(Main(c)) \/ (UNCHANGED storeVars /\ Sends(c, Main(c), m))
  <2>1. m \in Posted(Main(c))
        \/ (UNCHANGED storeVars /\ \E d \in Clients : Sends(d, Main(c), m))
    BY <1>1, WireMoves
  <2> QED
    BY <1>1, <2>1 DEF Sends
<1>3. cl[c].pc # "idle"
  <2>1. m \in Posted(Main(c)) => cl[c].pc # "idle"
    BY <1>1 DEF Sound, SentAt
  <2>2. Sends(c, Main(c), m) => cl[c].pc # "idle"
    BY DEF Sends, Makers
  <2> QED
    BY <1>2, <2>1, <2>2
<1>4. call[c].op = "append" /\ DataOf(c)' = DataOf(c)
  BY <1>3, DataStays
<1>5. CASE UNCHANGED storeVars /\ Sends(c, Main(c), m)
  <2>1. m.body = obj.body \o DataOf(c)
    BY <1>4, <1>5 DEF Sends
  <2> QED
    BY <1>4, <1>5, <2>1 DEF storeVars
<1>6. CASE m \in Posted(Main(c)) /\ obj' = obj
  BY <1>4, <1>6 DEF Extending
<1>7. CASE m \in Posted(Main(c)) /\ obj' # obj
  <2>1. PICK a \in net : a.msg.do \in Makers /\ obj'.tag = NewTag(a)
    BY <1>7, ObjectMoves
  <2>2. a.slot[1] = a.msg.by /\ a.msg.by \in Clients /\ a.try \in Nat \ {0}
    BY AttemptFits
  <2>3. m.cond \in KnownTags /\ m.cond = <<a.msg.by, a.try>>
    BY <1>1, <1>7, <2>1 DEF KnownTags, NewTag
  <2>4. m.cond # Absent
    BY <2>2, <2>3, ObjectStoreAssumption DEF ChunkNames
  <2>5. m.cond[1] = a.msg.by /\ m.cond[2] = a.try
    BY <2>3
  <2>6. a.try # m.cond[2]
    BY <2>1, <2>2, <2>3, <2>4, <2>5 DEF TagsOnce
  <2> QED
    BY <2>5, <2>6
<1> QED
  BY <1>2, <1>5, <1>6, <1>7

\* What an append changes.
LEMMA AppendStep ==
  ASSUME CallInv, StoreTypes, Extending, Happens, NEW c \in Clients,
         call[c].op = "append", obj' # obj, obj' # Absent, obj'.tag[1] = c
  PROVE  obj'.body = (IF obj = Absent THEN <<>> ELSE obj.body) \o DataOf(c)
<1>1. PICK a \in net : /\ a.msg.do \in Makers /\ Accepts(a.msg) /\ obj'.tag = NewTag(a)
                       /\ a.msg.do = "put" => obj'.body = a.msg.body
  <2>1. PICK a \in net : /\ a.msg.do \in Makers /\ Accepts(a.msg) /\ obj'.tag = NewTag(a)
                         /\ a.msg.do = "put" => obj' = [tag |-> NewTag(a), body |-> a.msg.body]
    BY ObjectMoves
  <2> QED
    BY <2>1
<1>2. a.msg.by = c
  BY <1>1 DEF NewTag
<1>3. a.msg \in Posted(Main(c)) /\ Suits(c, a.msg)
  BY <1>1, <1>2, AttemptFits DEF Makers
<1>4. a.msg.do = "put" /\ PutSuits(c, a.msg)
  BY <1>1, <1>3 DEF Suits, Makers, InPieces
<1>5. obj # Absent => obj.tag \in Tags
  BY DEF StoreTypes, Objects
<1>6. Always \notin Tags /\ IfNone \notin Tags /\ Always # IfNone
  BY ObjectStoreAssumption DEF Always, IfNone, Tags
<1>7. a.msg.cond = IfNone \/ a.msg.cond \in Tags
  BY <1>4 DEF PutSuits
<1>8. (a.msg.cond = IfNone /\ obj = Absent) \/ (obj # Absent /\ obj.tag = a.msg.cond)
  BY <1>1, <1>4, <1>6, <1>7 DEF Accepts
<1>9. CASE a.msg.cond = IfNone /\ obj = Absent
  <2>1. a.msg.body = DataOf(c)
    BY <1>4, <1>6, <1>9 DEF PutSuits
  <2>2. DataOf(c) = <<<<c, 0>>>> /\ <<c, 0>> \in ChunkNames
    BY DataTyped DEF CallInv, Settings, InPieces, ChunkNames
  <2>3. <<>> \o DataOf(c) = DataOf(c)
    BY <2>2, ConcatEmptySeq, \A x \in ChunkNames : <<x>> \in Seq(ChunkNames)
  <2> QED
    BY <1>1, <1>4, <1>9, <2>1, <2>3
<1>10. CASE obj # Absent /\ obj.tag = a.msg.cond
  <2>1. a.msg.body = obj.body \o DataOf(c)
    BY <1>3, <1>4, <1>5, <1>6, <1>10 DEF Extending
  <2> QED
    BY <1>1, <1>4, <1>10, <2>1
<1> QED
  BY <1>8, <1>9, <1>10

\* An append that lands extends the object as it is at that moment, whoever
\* else writes between its head, its get and its put.
THEOREM AppendsExtend == ObjectSpec => AppendExtends
<1> DEFINE Inv == TagsOnce /\ Extending
           A == \A c \in Clients :
                  /\ call[c].op = "append" /\ obj' # obj /\ obj' # Absent /\ obj'.tag[1] = c
                  => obj'.body = (IF obj = Absent THEN <<>> ELSE obj.body) \o DataOf(c)
<1>1. ObjectInit => Inv
  <2> SUFFICES ASSUME ObjectInit PROVE Inv
    OBVIOUS
  <2>1. \A s \in Slots : Posted(s) = {}
    BY DEF ObjectInit, RequestInit, Posted, Awaits
  <2>2. \A t \in KnownTags : t \in {Absent, <<Absent, 0>>}
    BY <2>1 DEF ObjectInit, KnownTags
  <2>3. TagsOnce
    BY <2>2 DEF TagsOnce
  <2>4. Extending
    BY <2>1, SlotOf DEF Extending
  <2> QED
    BY <2>3, <2>4
<1>2. Fitting /\ Fitting' /\ Inv /\ [ObjectNext]_objectVars => Inv'
  BY StepMoves, TagsStep, ExtendingStep DEF Fitting
<1>3. Fitting /\ Inv /\ [ObjectNext]_objectVars => A
  BY StepMoves, AppendStep DEF Fitting
<1>4. [A]_objectVars <=> A
  BY DEF objectVars, storeVars
<1> QED
  BY <1>1, <1>2, <1>3, <1>4, CallsFit, PTL DEF ObjectSpec, AppendExtends

----------------------------------------------------------------------------
(* The blocks of an upload on Azure.                                       *)

\* A chunk settles when its request is answered, by a service that has done it.
LEMMA PoolMoves ==
  ASSUME CallInv, StoreTypes, ~OnS3, [ObjectNext]_objectVars, NEW c \in Clients
  PROVE  /\ cl[c].pc = "commit" /\ cl'[c].pc = "commit" =>
              cl'[c].next = cl[c].next /\ cl'[c].bad = cl[c].bad
         /\ \A i \in Chunks : Settled(c, i)' =>
              Settled(c, i) \/ \E a \in net : a.slot = Part(c, i) /\ Accepts(a.msg) /\ Perform(a)
<1>1. /\ Wires /\ cl \in [Clients -> Locals] /\ call \in [Clients -> Calls] /\ Sound(c)
      /\ Main(c) \in Slots /\ Main(c)[1] = c
      /\ \A i \in Chunks : Part(c, i) \in Slots \ {Main(c)} /\ Part(c, i)[1] = c
      /\ \A i, j \in Chunks : Part(c, i) = Part(c, j) => i = j
  BY SlotOf DEF CallInv, Settings
<1>2. ASSUME \A i \in Chunks : Awaits(Part(c, i))' = Awaits(Part(c, i)),
             \/ cl'[c] = cl[c]
             \/ /\ cl'[c].next = cl[c].next
                /\ cl'[c].bad = cl[c].bad \/ (cl[c].pc = "pool" /\ cl[c].bad \subseteq cl'[c].bad)
                /\ cl[c].pc \in {"pool", "commit"} \/ cl[c].next = 0
                   \/ cl'[c].pc \notin {"pool", "commit"}
      PROVE  /\ cl[c].pc = "commit" /\ cl'[c].pc = "commit" =>
                  cl'[c].next = cl[c].next /\ cl'[c].bad = cl[c].bad
             /\ \A i \in Chunks : Settled(c, i)' => Settled(c, i)
  BY <1>2 DEF Settled, Chunks
<1>3. ASSUME UNCHANGED requestVars
      PROVE  \A i \in Chunks : Awaits(Part(c, i))' = Awaits(Part(c, i))
  BY <1>3 DEF requestVars, Awaits
<1>4. CASE \E d \in Clients : \E k \in setup.calls : Start(d, k)
  <2>1. PICK d \in Clients : cl[d].pc = "idle" /\ Become(d, "head") /\ UNCHANGED requestVars
    BY <1>4 DEF Start
  <2>2. Moved(d, "head")
    BY <1>1, <2>1, BecomeEffect DEF Pcs, Early
  <2> QED
    BY <1>2, <1>3, <2>1, <2>2 DEF Moved, Alone
<1>5. CASE \E d \in Clients : ClientStep(d) \/ SourceFails(d)
  <2>1. PICK d \in Clients : ClientStep(d) \/ SourceFails(d)
    BY <1>5
  <2>2. /\ Alone(d)
        /\ \/ Admit(d) \/ SourceFails(d)
           \/ Goes(d) /\ (UNCHANGED requestVars \/ \E m : Sends(d, Main(d), m))
        /\ UNCHANGED requestVars \/ \E s, m : Sends(d, s, m)
    BY <2>1, ClientMoves
  <2>3. ASSUME NEW s, NEW m, Sends(d, s, m)
        PROVE  \A i \in Chunks : Awaits(Part(c, i))' = Awaits(Part(c, i)) \/ s = Part(c, i)
    <3>1. \A t \in Slots \ {s} : req'[t] = req[t]
      BY <1>1, <2>3, SendEffect DEF Sends
    <3> QED
      BY <1>1, <3>1 DEF Awaits
  <2>4. CASE c # d
    <3>1. \A i \in Chunks : Awaits(Part(c, i))' = Awaits(Part(c, i))
      BY <1>1, <1>3, <2>2, <2>3, <2>4 DEF Sends
    <3> QED
      BY <1>2, <2>2, <2>4, <3>1 DEF Alone
  <2>5. CASE c = d /\ SourceFails(d)
    <3>1. cl[c].pc = "pool" /\ UNCHANGED requestVars
      BY <2>5 DEF SourceFails
    <3>2. cl'[c].next = cl[c].next /\ cl'[c].bad = cl[c].bad \cup {0}
      BY <1>1, <2>5, PoolEffect
    <3> QED
      BY <1>2, <1>3, <3>1, <3>2
  <2>6. CASE c = d /\ Admit(d)
    <3>1. PICK i : i = cl[c].next + 1
      OBVIOUS
    <3>2. i \in Chunks /\ cl[c].pc = "pool" /\ Send(Part(c, i), PartMessage(c, i))
          /\ cl[c].next \in Nat
      BY <1>1, <2>6, <3>1, DataTyped, ObjectStoreAssumption DEF Admit, Locals, Chunks
    <3>3. Stays(c) /\ cl'[c].next = i /\ cl'[c].bad = cl[c].bad
      BY <1>1, <2>6, <3>1, PoolEffect DEF Stays, Stayed
    <3>4. PICK m \in Messages : Send(Part(c, i), m)
      BY <3>2, PartTyped
    <3>5. Awaits(Part(c, i))' /\ \A t \in Slots \ {Part(c, i)} : req'[t] = req[t]
      BY <1>1, <3>2, <3>4, SendEffect
    <3>6. \A j \in Chunks : Settled(c, j)' => Settled(c, j)
      <4> SUFFICES ASSUME NEW j \in Chunks, Settled(c, j)' PROVE Settled(c, j)
        OBVIOUS
      <4>1. j # i /\ j \in 1 .. cl'[c].next /\ j \notin cl'[c].bad /\ ~Awaits(Part(c, j))'
        BY <3>5 DEF Settled
      <4>2. ~Awaits(Part(c, j))
        BY <1>1, <3>2, <3>5, <4>1 DEF Awaits
      <4>3. j \in 1 .. cl[c].next
        BY <3>1, <3>2, <3>3, <4>1 DEF Chunks
      <4> QED
        BY <3>2, <3>3, <4>1, <4>2, <4>3 DEF Settled
    <3> QED
      BY <3>2, <3>6
  <2>7. CASE c = d /\ Goes(d) /\ (UNCHANGED requestVars \/ \E m : Sends(d, Main(d), m))
    <3>1. \A i \in Chunks : Awaits(Part(c, i))' = Awaits(Part(c, i))
      BY <1>1, <1>3, <2>3, <2>7
    <3>2. cl'[c].pc = "pool" => cl[c].pc = "head" /\ cl[c].next = 0
      BY <1>1, <2>7 DEF Goes, Onward, Sound, Placed
    <3>3. cl'[c].pc = "commit" => cl[c].pc = "pool"
      BY <2>7 DEF Goes, Onward
    <3> QED
      BY <1>2, <2>7, <3>1, <3>2, <3>3 DEF Goes
  <2> QED
    BY <2>1, <2>2, <2>4, <2>5, <2>6, <2>7
<1>6. ASSUME NEW s \in Slots, Awaits(s), NEW ok \in BOOLEAN, Resume(s, ok), Subsides(s),
             ~Awaits(s)',
             ok => \E a \in net : a.slot = s /\ Accepts(a.msg) /\ Perform(a)
      PROVE  /\ cl[c].pc = "commit" /\ cl'[c].pc = "commit" =>
                  cl'[c].next = cl[c].next /\ cl'[c].bad = cl[c].bad
             /\ \A i \in Chunks : Settled(c, i)' =>
                  Settled(c, i) \/ \E a \in net : a.slot = Part(c, i) /\ Accepts(a.msg) /\ Perform(a)
  <2>0. PICK d \in Clients : d = s[1]
    BY SlotOf
  <2>1. /\ Sound(d)
        /\ s = Main(d) \/ (s[2] \in Chunks /\ s = Part(d, s[2]))
        /\ \A t \in Slots \ {s} : req'[t] = req[t]
    BY <1>6, <2>0, SlotOf DEF CallInv, Subsides
  <2>2. \A i \in Chunks : s # Part(c, i) => Awaits(Part(c, i))' = Awaits(Part(c, i))
    BY <1>1, <2>1 DEF Awaits
  <2>3. CASE s = Main(d)
    <3>1. \A i \in Chunks : Awaits(Part(c, i))' = Awaits(Part(c, i))
      BY <2>1, <2>2, <2>3, SlotOf
    <3>2. cl[d].pc \in Waiting
      BY <1>6, <2>1, <2>3 DEF Sound, Awaiting
    <3>3. /\ Alone(d) /\ cl'[d].next = cl[d].next /\ cl'[d].bad = cl[d].bad
          /\ cl'[d].pc = IF ok THEN Succeeded(cl[d].pc) ELSE Failed(d)
      BY <1>1, <1>6, <2>1, <2>3, <3>2, ResumeMain
    <3>4. cl[d].pc # "create"
      BY <2>1 DEF Sound, Placed
    <3>5. cl'[d].pc \notin {"pool", "commit"}
      BY <3>2, <3>3, <3>4 DEF Succeeded, Failed, Waiting, Makers
    <3> QED
      BY <1>2, <3>1, <3>3, <3>5 DEF Alone
  <2>4. CASE s[2] \in Chunks /\ s = Part(d, s[2])
    <3>1. PICK j \in Chunks : s = Part(d, j)
      BY <2>4
    <3>2. /\ Stayed(d) /\ cl'[d].next = cl[d].next
          /\ cl'[d].bad = IF ok THEN cl[d].bad ELSE cl[d].bad \cup {j}
      <4>1. Resume(Part(d, j), ok) /\ d \in Clients
        BY <1>6, <2>0, <3>1, SlotOf
      <4>2. cl \in [Clients -> Locals]
        BY <1>1
      <4> QED
        BY <4>1, <4>2, ResumePart
    <3>3. cl[d].pc = "pool"
      BY <1>6, <2>1, <3>1 DEF Sound, Awaiting
    <3>4. CASE c # d
      BY <1>2, <2>1, <2>2, <3>1, <3>2, <3>4, SlotOf DEF Stayed, Alone
    <3>5. CASE c = d
      <4> SUFFICES ASSUME NEW i \in Chunks, Settled(c, i)'
                   PROVE  Settled(c, i)
                          \/ \E a \in net : a.slot = Part(c, i) /\ Accepts(a.msg) /\ Perform(a)
        BY <3>3, <3>5
      <4>1. CASE i = j
        <5>1. ok
          BY <3>2, <3>5, <4>1 DEF Settled
        <5> QED
          BY <1>6, <3>1, <3>5, <4>1, <5>1
      <4>2. CASE i # j
        <5>1. ~Awaits(Part(c, i))
          BY <1>1, <2>2, <3>1, <3>5, <4>2 DEF Settled
        <5> QED
          BY <3>2, <3>3, <3>5, <5>1 DEF Settled
      <4> QED
        BY <4>1, <4>2
    <3> QED
      BY <3>4, <3>5
  <2> QED
    BY <2>1, <2>3, <2>4
<1>7. ASSUME UNCHANGED cl, \A s \in Slots : Awaits(s)' = Awaits(s)
      PROVE  /\ cl[c].pc = "commit" /\ cl'[c].pc = "commit" =>
                  cl'[c].next = cl[c].next /\ cl'[c].bad = cl[c].bad
             /\ \A i \in Chunks : Settled(c, i)' => Settled(c, i)
  BY <1>1, <1>2, <1>7
<1>8. CASE \E a \in net : Serve(a)
  <2>1. PICK a \in net : Serve(a)
    BY <1>8
  <2>2. CASE Answer(a) /\ Resume(a.slot, Accepts(a.msg))
    <3>1. Accepts(a.msg) \in BOOLEAN
      BY AcceptsIsBoolean
    <3>2. a.slot \in Slots /\ Awaits(a.slot) /\ ~Awaits(a.slot)' /\ Subsides(a.slot)
      BY <1>1, <2>2, AnswerEffect
    <3> QED
      BY <1>6, <2>1, <2>2, <3>1, <3>2 DEF Serve
  <2>3. CASE Unanswered(a) /\ UNCHANGED cl
    <3>1. \A s \in Slots : Awaits(s)' = Awaits(s)
      BY <2>3 DEF Unanswered, Awaits
    <3> QED
      BY <1>7, <2>3, <3>1
  <2> QED
    BY <2>1, <2>2, <2>3 DEF Serve
<1>9. CASE \E a \in net : Refuse(a)
  <2>1. PICK a \in net : Answer(a) /\ Resume(a.slot, FALSE)
    BY <1>9 DEF Refuse
  <2>2. a.slot \in Slots /\ Awaits(a.slot) /\ ~Awaits(a.slot)' /\ Subsides(a.slot)
    BY <1>1, <2>1, AnswerEffect
  <2> QED
    BY <1>6, <2>1, <2>2
<1>10. CASE \E s \in Slots : Retry(s)
  <2>1. PICK s \in Slots : Resend(s, setup.late) /\ UNCHANGED cl
    BY <1>10 DEF Retry
  <2>2. Awaits(s) /\ Awaits(s)' /\ \A t \in Slots \ {s} : req'[t] = req[t]
    BY <1>1, <2>1, ResendEffect DEF Subsides
  <2>3. \A t \in Slots : Awaits(t)' = Awaits(t)
    BY <2>2 DEF Awaits
  <2> QED
    BY <1>7, <2>1, <2>3
<1>11. CASE \E s \in Slots : RequestFails(s)
  <2>1. PICK s \in Slots : GiveUp(s, setup.late) /\ Resume(s, FALSE)
    BY <1>11 DEF RequestFails
  <2>2. Awaits(s) /\ ~Awaits(s)' /\ Subsides(s)
    BY <1>1, <2>1, GiveUpEffect
  <2> QED
    BY <1>6, <2>1, <2>2
<1>12. CASE ChangeSource \/ UNCHANGED objectVars
  <2>1. UNCHANGED <<requestVars, cl>>
    BY <1>12 DEF ChangeSource, objectVars
  <2>2. \A s \in Slots : Awaits(s)' = Awaits(s)
    BY <2>1 DEF requestVars, Awaits
  <2> QED
    BY <1>7, <2>1, <2>2
<1> QED
  BY <1>4, <1>5, <1>8, <1>9, <1>10, <1>11, <1>12 DEF ObjectNext

\* Uploads go on following each other.
LEMMA ApartStep ==
  ASSUME CallInv, ~setup.shared, UploadsApart,
         \A c \in Clients : /\ cl[c].pc # "idle" => call'[c] = call[c]
                            /\ Stays(c) \/ Goes(c) \/ Fails(c) \/ Succeeds(c)
                            /\ cl[c].pc = "idle" =>
                                 \/ Stays(c) /\ call'[c] = call[c]
                                 \/ \E k \in setup.calls : Start(c, k)
  PROVE  UploadsApart'
<1>1. cl \in [Clients -> Locals] /\ call \in [Clients -> Calls]
  BY DEF CallInv, Settings
<1>2. ASSUME NEW c \in Clients, NEW d \in Clients, c # d, NEW k, Start(c, k)
      PROVE  InPieces(c)' /\ InPieces(d)' => Ended(d)'
  <2>1. call'[d] = call[d] /\ cl'[d] = cl[d] /\ call'[c] = k
    BY <1>1, <1>2 DEF Start, Become
  <2>2. k.op \in {"stream", "copy"} => (~Ended(d) => ~InPieces(d))
    BY <1>2 DEF Start
  <2> QED
    BY <2>1, <2>2 DEF InPieces, Ended
<1>3. ASSUME NEW c \in Clients, NEW d \in Clients, c # d, InPieces(c)', InPieces(d)',
             ~(\E k \in setup.calls : Start(c, k)), ~(\E k \in setup.calls : Start(d, k))
      PROVE  Ended(c)' \/ Ended(d)'
  <2>1. InPieces(c) /\ InPieces(d)
    BY <1>3 DEF InPieces
  <2>2. Ended(c) \/ Ended(d)
    BY <1>3, <2>1 DEF UploadsApart
  <2>3. \A e \in {c, d} : Ended(e) => Ended(e)'
    BY <1>3, NeverBack DEF Stays, Ended
  <2> QED
    BY <2>2, <2>3
<1> QED
  BY <1>2, <1>3 DEF UploadsApart

\* A block that is stored for a chunk is given up to no other upload.
LEMMA KeptStep ==
  ASSUME CallInv, StoreTypes, Current, BlocksKept, ~OnS3, ~setup.late,
         NEW c \in Clients, NEW i \in Chunks, Settled(c, i), Kept(c, i),
         NEW a \in net, Accepts(a.msg), Perform(a)
  PROVE  \/ IsPiece(c, i, staged'[i])
         \/ staged'[i] = Absent /\ (committed'[i] = Absent \/ IsPiece(c, i, committed'[i]))
<1> DEFINE d == a.msg.by
<1>1. /\ ~Ended(c) /\ InPieces(c) /\ ~Awaits(Part(c, i))
      /\ d \in Clients /\ Sound(d) /\ Sound(c)
      /\ call \in [Clients -> Calls]
  BY AttemptFits DEF CallInv, Settings, Settled, Ended, Sound, Placed
<1>2. staged \in [Chunks -> ChunkNames \cup {Absent}] /\ committed \in [Chunks -> ChunkNames \cup {Absent}]
      /\ source \in {0, 1, Absent} /\ Absent \notin ChunkNames
  BY ObjectStoreAssumption DEF StoreTypes
<1>3. Awaits(a.slot) /\ req[a.slot].msg = a.msg
  <2>1. Awaits(a.slot) /\ a = LastAttempt(a.slot)
    BY DEF Current
  <2> QED
    BY <2>1 DEF LastAttempt
<1>4. CASE PutObject(a) \/ CopyObject(a)
  BY <1>2, <1>4 DEF PutObject, CopyObject, Kept
<1>5. CASE DeleteObject(a)
  BY <1>2, <1>5 DEF DeleteObject, Kept
<1>6. CASE CreateUpload(a) \/ UploadPart(a) \/ CompleteUpload(a) \/ AbortUpload(a)
  <2>1. staged' = staged /\ committed' = committed
    BY <1>6 DEF CreateUpload, UploadPart, CompleteUpload, AbortUpload
  <2> QED
    BY <2>1 DEF Kept
<1>7. CASE PutBlock(a)
  <2>1. /\ a.msg.do = "block" /\ a.msg.part \in Chunks /\ a.slot = Part(d, a.msg.part)
        /\ InPieces(d) /\ CanRead(d)
        /\ staged' = [staged EXCEPT ![a.msg.part] = Piece(d, a.msg.part)] /\ committed' = committed
    BY <1>7, AttemptFits DEF PutBlock, Accepts
  <2>2. cl[d].pc = "pool"
    BY <1>1, <1>3, <2>1 DEF Sound, Awaiting
  <2>3. d = c
    BY <1>1, <2>1, <2>2 DEF BlocksKept, UploadsApart, Ended
  <2>4. a.msg.part # i
    BY <1>1, <1>3, <2>1, <2>3
  <2>5. staged'[i] = staged[i] /\ committed'[i] = committed[i]
    BY <1>2, <2>1, <2>4
  <2> QED
    BY <2>5 DEF Kept
<1>8. CASE PutBlockList(a)
  <2>1. /\ a.msg.do = "commit" /\ a.slot = Main(d) /\ InPieces(d)
        /\ a.msg.body = Numbers(d)
    BY <1>8, AttemptFits DEF PutBlockList, Suits, Message, PutSuits, Put
  <2>2. cl[d].pc = "commit"
    BY <1>1, <1>3, <2>1 DEF Sound, Awaiting, DeedOf
  <2>3. d = c
    BY <1>1, <2>1, <2>2 DEF BlocksKept, UploadsApart, Ended
  <2>4. staged'[i] = Absent /\ (committed'[i] = Absent \/ committed'[i] = Latest(i))
    BY <1>8 DEF PutBlockList
  <2>5. Latest(i) = Absent \/ IsPiece(c, i, Latest(i))
    BY <1>2 DEF Kept, Latest, IsPiece
  <2> QED
    BY <2>4, <2>5
<1> QED
  BY <1>4, <1>5, <1>6, <1>7, <1>8 DEF Perform

\* What a call finds stored for its chunks remains so.
LEMMA BlocksStep ==
  ASSUME CallInv, StoreTypes, StoreTypes', Current, BlocksKept, [ObjectNext]_objectVars,
         ~OnS3 => ~setup.shared /\ ~setup.late
  PROVE  BlocksKept'
<1>1. /\ setup' = setup
      /\ \A c \in Clients : /\ cl[c].pc # "idle" => call'[c] = call[c]
                            /\ Stays(c) \/ Goes(c) \/ Fails(c) \/ Succeeds(c)
                            /\ cl[c].pc = "idle" =>
                                 \/ Stays(c) /\ call'[c] = call[c]
                                 \/ \E k \in setup.calls : Start(c, k)
      /\ Happens
  BY StepMoves
<1> SUFFICES ASSUME ~OnS3
             PROVE  BlocksKept'
  BY <1>1 DEF BlocksKept, OnS3
<1>2. UploadsApart'
  BY <1>1, ApartStep DEF BlocksKept
<1>3. ASSUME NEW c \in Clients, cl'[c].pc = "commit"
      PROVE  cl'[c].next = call'[c].chunks /\ cl'[c].bad = {}
  <2>1. cl[c].pc = "commit" \/ Goes(c)
    BY <1>1, <1>3, NeverBack DEF Waiting, Makers, Stays
  <2>2. CASE cl[c].pc = "commit"
    <3>1. cl'[c].next = cl[c].next /\ cl'[c].bad = cl[c].bad
      BY <1>3, <2>2, PoolMoves
    <3> QED
      BY <1>1, <2>2, <3>1 DEF BlocksKept
  <2>3. CASE Goes(c)
    <3>1. cl[c].pc # "idle"
      BY <1>3, <2>3 DEF Goes, Onward
    <3> QED
      BY <1>1, <1>3, <2>3, <3>1 DEF Goes
  <2> QED
    BY <2>1, <2>2, <2>3
<1>4. ASSUME NEW c \in Clients, NEW i \in Chunks, Settled(c, i)'
      PROVE  Kept(c, i)'
  <2>1. Settled(c, i) \/ \E a \in net : a.slot = Part(c, i) /\ Accepts(a.msg) /\ Perform(a)
    BY <1>4, PoolMoves
  <2>2. ASSUME NEW x PROVE cl[c].pc # "idle" /\ IsPiece(c, i, x) => IsPiece(c, i, x)'
    BY <1>1 DEF IsPiece
  <2>3. ASSUME NEW a \in net, a.slot = Part(c, i), Accepts(a.msg), Perform(a)
        PROVE  Kept(c, i)'
    <3>1. /\ a.msg.by = c /\ a.msg.do = "block" /\ a.msg.part = i /\ cl[c].pc # "idle"
      BY <2>3, SlotOf, AttemptFits
    <3>2. CanRead(c) /\ PutBlock(a)
      BY <2>3, <3>1 DEF Accepts, Perform, PutObject, CopyObject, DeleteObject, CreateUpload,
                        UploadPart, CompleteUpload, AbortUpload, PutBlockList
    <3>3. staged'[i] = Piece(c, i)
      BY <3>1, <3>2 DEF PutBlock, StoreTypes
    <3>4. IsPiece(c, i, Piece(c, i))
      BY <3>2, PieceRead DEF StoreTypes
    <3>5. PICK x : x = staged'[i]
      OBVIOUS
    <3>6. IsPiece(c, i, x)'
      BY <2>2, <3>1, <3>3, <3>4, <3>5
    <3> QED
      BY <3>5, <3>6 DEF Kept, IsPiece
  <2>4. CASE Settled(c, i)
    <3>1. Kept(c, i) /\ cl[c].pc # "idle"
      BY <2>4 DEF BlocksKept, Settled
    <3>2. \/ IsPiece(c, i, staged'[i])
          \/ staged'[i] = Absent /\ (committed'[i] = Absent \/ IsPiece(c, i, committed'[i]))
      <4>1. CASE UNCHANGED <<staged, committed>>
        BY <3>1, <4>1 DEF Kept
      <4>2. ASSUME NEW a \in net, Accepts(a.msg), Perform(a)
            PROVE  \/ IsPiece(c, i, staged'[i])
                   \/ staged'[i] = Absent
                      /\ (committed'[i] = Absent \/ IsPiece(c, i, committed'[i]))
        BY <2>4, <3>1, <4>2, KeptStep
      <4> QED
        BY <1>1, <4>1, <4>2 DEF Happens, storeVars
    <3>3. PICK x, y : x = staged'[i] /\ y = committed'[i]
      OBVIOUS
    <3>4. IsPiece(c, i, x)' \/ (x = Absent /\ (y = Absent \/ IsPiece(c, i, y)'))
      BY <2>2, <3>1, <3>2, <3>3
    <3> QED
      BY <3>3, <3>4 DEF Kept, IsPiece
  <2> QED
    BY <2>1, <2>3, <2>4
<1> QED
  BY <1>2, <1>3, <1>4 DEF BlocksKept

\* A block list that is committed gives the object its caller's pieces.
LEMMA CommitWhole ==
  ASSUME CallInv, StoreTypes, Current, BlocksKept, ~OnS3, ~setup.late,
         NEW a \in net, Accepts(a.msg), PutBlockList(a)
  PROVE  MadeOf(a.msg.by, obj'.body)
<1> DEFINE c == a.msg.by
           n == call[c].chunks
<1>1. /\ c \in Clients /\ call \in [Clients -> Calls] /\ Sound(c)
      /\ a.slot = Main(c) /\ a.msg.do = "commit" /\ a.msg.body = Numbers(c)
  BY AttemptFits DEF CallInv, Settings, PutBlockList, Suits, Message, PutSuits, Put
<1>2. n \in Nat /\ n <= MaxChunks /\ MaxChunks \in Nat
  BY <1>1, DataTyped, ObjectStoreAssumption
<1>3. Awaits(a.slot) /\ a = LastAttempt(a.slot)
  BY DEF Current
<1>4. cl[c].pc = "commit"
  BY <1>1, <1>3 DEF Sound, Awaiting, DeedOf, LastAttempt
<1>5. \A k \in 1 .. n : k \in Chunks /\ Settled(c, k)
  BY <1>1, <1>2, <1>4 DEF Chunks, BlocksKept, Settled, Sound, Awaiting
<1>6. Len(Numbers(c)) = n /\ \A k \in 1 .. n : Numbers(c)[k] = k /\ k \in ToSet(Numbers(c))
  BY <1>2 DEF Numbers, ToSet
<1>7. \A k \in 1 .. n : Latest(k) # Absent
  BY <1>1, <1>6 DEF Accepts
<1>8. \A k \in 1 .. n : IsPiece(c, k, Latest(k))
  BY <1>1, <1>5, <1>7, ObjectStoreAssumption DEF BlocksKept, Kept, Latest, IsPiece
<1>9. obj'.body = [k \in 1 .. n |-> Latest(k)]
  <2>1. obj'.body = [k \in 1 .. Len(a.msg.body) |-> Latest(a.msg.body[k])]
    BY DEF PutBlockList, SetObject
  <2> QED
    BY <1>1, <1>6, <2>1
<1>10. \A k \in 1 .. n : IsPiece(c, k, obj'.body[k])
  BY <1>8, <1>9
<1>11. obj'.body = [k \in 1 .. n |-> obj'.body[k]]
  BY <1>9
<1> QED
  BY <1>1, <1>10, <1>11, Assembled

----------------------------------------------------------------------------
(* What returns has been the object's.                                     *)

\* A request of Makers gives the object what it carries, or its caller's pieces.
LEMMA Delivered ==
  ASSUME CallInv, StoreTypes, Current, BlocksKept, ~OnS3 => ~setup.late,
         NEW a \in net, Accepts(a.msg), Perform(a), a.msg.do \in Makers
  PROVE  /\ obj' \in Objects /\ obj' # Absent
         /\ landed' = landed \cup {c \in Clients : Holds(c, obj')}
         /\ a.msg.do = "put" => obj'.body = a.msg.body
         /\ a.msg.do # "put" => MadeOf(a.msg.by, obj'.body) /\ InPieces(a.msg.by)
<1> DEFINE c == a.msg.by
<1>1. c \in Clients /\ Suits(c, a.msg) /\ a.try \in Nat \ {0}
  BY AttemptFits DEF Makers
<1>2. NewTag(a) \in Tags
  BY <1>1 DEF NewTag, Tags
<1>3. ASSUME NEW body \in Bodies, SetObject([tag |-> NewTag(a), body |-> body])
      PROVE  /\ obj' \in Objects /\ obj' # Absent /\ obj'.body = body
             /\ landed' = landed \cup {d \in Clients : Holds(d, obj')}
  <2>1. obj' \in Objects /\ obj'.body = body
    BY <1>2, <1>3 DEF SetObject, Objects
  <2>2. obj' # Absent
    BY <2>1, ObjectStoreAssumption
  <2> QED
    BY <1>3, <2>1, <2>2 DEF SetObject
<1>4. CASE PutObject(a)
  <2>1. a.msg.body \in Bodies /\ a.msg.do = "put"
    BY <1>1, <1>4 DEF PutObject, Suits, PutSuits
  <2> QED
    BY <1>3, <1>4, <2>1 DEF PutObject
<1>5. CASE CopyObject(a) \/ CompleteUpload(a) \/ PutBlockList(a)
  <2>1. a.msg.do \in {"copy", "complete", "commit"} /\ (a.msg.do = "commit" => PutBlockList(a))
    BY <1>5 DEF CopyObject, CompleteUpload, PutBlockList
  <2>2. MadeOf(c, obj'.body)
    <3>1. CASE PutBlockList(a)
      <4>1. ~OnS3
        BY <1>1, <3>1 DEF PutBlockList, Suits
      <4> QED
        BY <3>1, <4>1, CommitWhole
    <3>2. CASE CopyObject(a) \/ CompleteUpload(a)
      <4>1. a.msg.do \in {"copy", "complete"}
        BY <3>2 DEF CopyObject, CompleteUpload
      <4> QED
        BY <3>2, <4>1, MadeWhole
    <3> QED
      BY <1>5, <3>1, <3>2
  <2>3. InPieces(c)
    BY <1>1, <2>1 DEF Suits, InPieces
  <2>4. PICK body : SetObject([tag |-> NewTag(a), body |-> body])
    BY <1>5 DEF CopyObject, CompleteUpload, PutBlockList
  <2>5. obj'.body = body
    BY <2>4 DEF SetObject
  <2>6. body \in Bodies
    BY <2>2, <2>5 DEF MadeOf
  <2> QED
    BY <1>3, <2>1, <2>2, <2>3, <2>4, <2>6
<1>6. a.msg.do \notin {"delete", "create", "part", "abort", "block"}
  BY DEF Makers
<1> QED
  BY <1>4, <1>5, <1>6 DEF Perform, DeleteObject, CreateUpload, UploadPart, AbortUpload, PutBlock

\* A call whose own request has been answered is in the object at that moment.
LEMMA HoldsThen ==
  ASSUME CallInv, StoreTypes, Current, BlocksKept, ~OnS3 => ~setup.late,
         NEW a \in net, Accepts(a.msg), Perform(a), a.msg.do \in Makers
  PROVE  a.msg.by \in landed'
<1>1. PICK c \in Clients : c = a.msg.by
  BY AttemptFits
<1>2. PICK o : o = obj'
  OBVIOUS
<1>3. /\ o \in Objects /\ o # Absent
      /\ a.msg.do = "put" => o.body = a.msg.body
      /\ a.msg.do # "put" => MadeOf(c, o.body) /\ InPieces(c)
      /\ c \in landed' <=> c \in landed \/ Holds(c, o)
  BY <1>1, <1>2, Delivered
<1>4. call \in [Clients -> Calls] /\ Suits(c, a.msg) /\ call[c].chunks \in Nat
  BY <1>1, AttemptFits, DataTyped DEF Makers, CallInv, Settings
<1>5. CASE a.msg.do = "put"
  <2>1. PutSuits(c, a.msg) /\ o.body = a.msg.body
    BY <1>3, <1>4, <1>5 DEF Suits
  <2>2. CASE call[c].op = "append"
    <3>1. \E p \in DOMAIN o.body : o.body[p] = <<c, 0>>
      <4>1. CASE o.body = DataOf(c)
        BY <2>2, <4>1 DEF DataOf, InPieces
      <4>2. CASE o.body # <<>> /\ o.body[Len(o.body)] = <<c, 0>>
        <5>1. o.body \in Seq(ChunkNames)
          BY <2>1 DEF PutSuits, Bodies
        <5>2. Len(o.body) \in DOMAIN o.body
          BY <4>2, <5>1
        <5> QED
          BY <4>2, <5>2
      <4> QED
        BY <2>1, <2>2, <4>1, <4>2 DEF PutSuits
    <3>2. <<c, 0>> \in ToSet(o.body)
      BY <3>1 DEF ToSet
    <3> QED
      BY <1>1, <1>3, <2>2, <3>2 DEF Holds
  <2>3. CASE call[c].op \in {"replace", "stream"}
    BY <1>1, <1>3, <2>1, <2>3 DEF Holds, PutSuits
  <2>4. CASE call[c].op = "copy"
    BY <1>1, <1>3, <2>1, <2>4 DEF Holds, PutSuits, IsCopy
  <2> QED
    BY <2>1, <2>2, <2>3, <2>4 DEF PutSuits
<1>6. CASE a.msg.do # "put"
  <2>1. MadeOf(c, o.body) /\ InPieces(c)
    BY <1>3, <1>6
  <2>2. CASE call[c].op = "copy"
    BY <1>1, <1>3, <2>1, <2>2 DEF Holds, IsCopy, MadeOf, IsPiece
  <2>3. CASE call[c].op # "copy"
    <3>1. o.body \in Seq(ChunkNames) /\ Len(o.body) = call[c].chunks
          /\ \A k \in 1 .. Len(o.body) : o.body[k] = <<c, k>>
      BY <2>1, <2>3 DEF MadeOf, Bodies, IsPiece
    <3>2. o.body = [k \in 1 .. call[c].chunks |-> <<c, k>>]
      <4>1. PICK b : b = o.body
        OBVIOUS
      <4>2. PICK n \in Nat : n = call[c].chunks
        BY <1>4
      <4>3. b \in Seq(ChunkNames) /\ Len(b) = n /\ \A k \in 1 .. n : b[k] = <<c, k>>
        BY <3>1, <4>1, <4>2
      <4>4. b = [k \in 1 .. n |-> b[k]]
        BY <4>3
      <4>5. b = [k \in 1 .. n |-> <<c, k>>]
        BY <4>3, <4>4
      <4> QED
        BY <4>1, <4>2, <4>5
    <3>3. DataOf(c) = [k \in 1 .. call[c].chunks |-> <<c, k>>]
      BY <2>1, <2>3 DEF DataOf, Pieces, Piece
    <3> QED
      BY <1>1, <1>3, <2>1, <2>3, <3>2, <3>3 DEF Holds, InPieces
  <2> QED
    BY <2>2, <2>3
<1> QED
  BY <1>5, <1>6

\* A call that goes on after its body's request has landed.
LEMMA LandingStep ==
  ASSUME CallInv, StoreTypes, Current, BlocksKept, ~OnS3 => ~setup.late, Landing, Happens,
         \A c \in Clients : /\ cl[c].pc # "idle" => call'[c] = call[c]
                            /\ Stays(c) \/ Goes(c) \/ Fails(c) \/ Succeeds(c)
  PROVE  Landing'
<1>1. landed \subseteq landed'
  <2>1. ASSUME NEW a \in net, Perform(a), Accepts(a.msg)
        PROVE  landed \subseteq landed'
    BY <2>1 DEF Perform, PutObject, CopyObject, DeleteObject, CreateUpload, UploadPart,
                CompleteUpload, AbortUpload, PutBlock, PutBlockList, SetObject
  <2> QED
    BY <2>1 DEF Happens, storeVars
<1> SUFFICES ASSUME NEW c \in Clients, cl'[c].pc \in {"confirm", "done"}, call'[c].op # "remove"
             PROVE  c \in landed'
  BY DEF Landing
<1>2. Placed(c) /\ (cl[c].pc # "idle" => call'[c] = call[c])
  BY DEF CallInv, Sound
<1>3. CASE Stays(c)
  BY <1>1, <1>2, <1>3 DEF Landing, Stays
<1>4. CASE Goes(c)
  <2>1. cl[c].pc = "confirm" \/ (cl[c].pc = "head" /\ call[c].op = "remove")
    BY <1>4 DEF Goes, Onward
  <2> QED
    BY <1>1, <1>2, <2>1 DEF Landing
<1>5. CASE Fails(c)
  BY <1>5 DEF Fails, Failed
<1>6. CASE Succeeds(c)
  <2>1. cl[c].pc \in Makers
    BY <1>2, <1>6 DEF Succeeds, Succeeded, Waiting, Makers, Placed
  <2>2. PICK a \in net : a.slot = Main(c) /\ a.msg.do \in Makers /\ Accepts(a.msg) /\ Perform(a)
    BY <1>6, <2>1 DEF Succeeds, DeedOf, Makers
  <2>3. a.msg.by = c
    BY <2>2, AttemptFits, SlotOf
  <2> QED
    BY <2>2, <2>3, HoldsThen
<1> QED
  BY <1>3, <1>4, <1>5, <1>6

BlocksInv == Fitting /\ Current /\ BlocksKept

\* A call of Azure finds its own blocks, or none: an upload that overlaps no
\* other and leaves no request behind shares its block numbers with nobody.
THEOREM BlocksAreKept == ASSUME AzureAlone PROVE ObjectSpec => []BlocksInv
<1>1. ObjectInit => Current /\ BlocksKept
  <2>1. SUFFICES ASSUME ObjectInit PROVE Current /\ BlocksKept
    OBVIOUS
  <2>2. \A c \in Clients : cl[c].pc = "idle" /\ Ended(c)
    BY <2>1 DEF ObjectInit, Ended
  <2> QED
    BY <2>1, <2>2 DEF ObjectInit, RequestInit, Current, BlocksKept, UploadsApart, Settled
<1>2. Fitting /\ Fitting' /\ Current /\ BlocksKept /\ [ObjectNext]_objectVars
      => Current' /\ BlocksKept'
  <2>1. SUFFICES ASSUME Fitting, Fitting', Current, BlocksKept, [ObjectNext]_objectVars
                 PROVE  Current' /\ BlocksKept'
    OBVIOUS
  <2>2. ~OnS3 => ~setup.shared /\ ~setup.late
    BY <2>1, ObjectStoreAssumption DEF Fitting, CallInv, Settings, OnS3, AzureAlone
  <2> QED
    BY <2>1, <2>2, StepMoves, CurrentStep, BlocksStep DEF Fitting
<1> QED
  BY <1>1, <1>2, CallsFit, PTL DEF ObjectSpec, BlocksInv

\* A call that returns has written its body, provided that streamed writes of
\* one Azure blob are one process's and that none of their requests outlives it.
THEOREM ReturnsHaveLanded == ASSUME AzureAlone PROVE ObjectSpec => []ReturnedHasLanded
<1>1. ObjectInit => Landing
  BY DEF ObjectInit, Landing
<1>2. BlocksInv /\ Landing /\ [ObjectNext]_objectVars => Landing'
  <2>1. SUFFICES ASSUME BlocksInv, Landing, [ObjectNext]_objectVars PROVE Landing'
    OBVIOUS
  <2>2. ~OnS3 => ~setup.late
    BY <2>1, ObjectStoreAssumption DEF BlocksInv, Fitting, CallInv, Settings, OnS3, AzureAlone
  <2> QED
    BY <2>1, <2>2, StepMoves, LandingStep DEF BlocksInv, Fitting
<1>3. Landing => ReturnedHasLanded
  BY DEF Landing, ReturnedHasLanded
<1> QED
  BY <1>1, <1>2, <1>3, BlocksAreKept, PTL DEF ObjectSpec

----------------------------------------------------------------------------
(* What a call writes is in the object whole and once.                     *)

\* A body that names a call's chunks whole goes on doing so.
LEMMA WholeStays ==
  ASSUME NEW c \in Clients, NEW body, Stays(c) \/ Goes(c) \/ Fails(c) \/ Succeeds(c),
         cl[c].pc # "idle" => call'[c] = call[c], WholeIn(c, body)
  PROVE  WholeIn(c, body)'
<1>1. cl'[c].pc \in Early => cl[c].pc \in Early
  BY NeverBack
<1>2. CASE cl[c].pc = "idle"
  BY <1>1, <1>2 DEF WholeIn, Whole, NoneOf, Early
<1>3. CASE cl[c].pc # "idle"
  <2>1. Whole(c, body) => Whole(c, body)'
    BY <1>3 DEF Whole, NoneOf, Size, Own, InPieces
  <2> QED
    BY <1>1, <2>1 DEF WholeIn, NoneOf
<1> QED
  BY <1>2, <1>3

\* The chunks of another call that follow leave a call as whole as it was.
LEMMA WholeBefore ==
  ASSUME NEW c \in Clients, NEW s \in Bodies, NEW t \in Bodies, NoneOf(c, t), Whole(c, s),
         Size(c) \in Nat
  PROVE  Whole(c, s \o t) /\ (NoneOf(c, s) => NoneOf(c, s \o t))
<1> DEFINE u == s \o t
<1>1. /\ u \in Seq(ChunkNames) /\ Len(u) = Len(s) + Len(t) /\ DOMAIN u = 1 .. Len(u)
      /\ Len(s) \in Nat /\ Len(t) \in Nat /\ DOMAIN s = 1 .. Len(s) /\ DOMAIN t = 1 .. Len(t)
      /\ \A p \in 1 .. Len(s) : u[p] = s[p]
      /\ \A p \in Len(s) + 1 .. Len(u) : u[p] = t[p - Len(s)] /\ p - Len(s) \in 1 .. Len(t)
  BY DEF Bodies
<1> HIDE DEF u
<1>2. \A p \in Len(s) + 1 .. Len(u) : u[p][1] # c
  BY <1>1 DEF NoneOf
<1>3. NoneOf(c, s) => NoneOf(c, u)
  BY <1>1, <1>2 DEF NoneOf
<1>4. ASSUME NEW at \in 0 .. Len(s) - Size(c),
             \A i \in 1 .. Size(c) : Own(c, i, s[at + i]),
             \A p \in DOMAIN s : s[p][1] = c <=> p - at \in 1 .. Size(c)
      PROVE  Whole(c, u)
  <2>1. at \in 0 .. Len(u) - Size(c)
    BY <1>1
  <2>2. \A i \in 1 .. Size(c) : u[at + i] = s[at + i]
    BY <1>1
  <2>3. \A i \in 1 .. Size(c) : Own(c, i, u[at + i])
    BY <1>4, <2>2
  <2>4. \A p \in DOMAIN u : u[p][1] = c <=> p - at \in 1 .. Size(c)
    <3> SUFFICES ASSUME NEW p \in 1 .. Len(u) PROVE u[p][1] = c <=> p - at \in 1 .. Size(c)
      BY <1>1
    <3>1. CASE p \in 1 .. Len(s)
      BY <1>1, <1>4, <3>1
    <3>2. CASE p \in Len(s) + 1 .. Len(u)
      BY <1>1, <1>2, <3>2
    <3> QED
      BY <1>1, <3>1, <3>2
  <2> QED
    BY <2>1, <2>3, <2>4 DEF Whole
<1>5. Whole(c, u)
  BY <1>3, <1>4 DEF Whole
<1> QED
  BY <1>3, <1>5 DEF u

\* A body that ends in all the chunks of a call and has no others is whole.
LEMMA WholeAfter ==
  ASSUME NEW c \in Clients, NEW s \in Bodies, NoneOf(c, s), call \in [Clients -> Calls],
         call[c].op # "copy"
  PROVE  Whole(c, s \o DataOf(c))
<1> DEFINE t == DataOf(c)
           u == s \o t
<1>1. t \in Bodies /\ call[c].chunks \in Nat
  BY DataTyped
<1>2. /\ Len(t) = Size(c) /\ Size(c) \in Nat
      /\ \A i \in 1 .. Len(t) : Own(c, i, t[i]) /\ t[i][1] = c
  <2>1. CASE InPieces(c)
    <3>1. t = [i \in 1 .. call[c].chunks |-> <<c, i>>] /\ call[c].op = "stream"
      BY <2>1 DEF DataOf, Pieces, Piece, InPieces
    <3> QED
      BY <1>1, <2>1, <3>1 DEF Size, Own
  <2>2. CASE ~InPieces(c)
    <3>1. t = <<<<c, 0>>>>
      BY <2>2, DataTyped
    <3>2. Len(t) = 1 /\ t[1] = <<c, 0>>
      BY <3>1
    <3>3. \A i \in 1 .. Len(t) : t[i] = <<c, 0>>
      BY <3>2
    <3> QED
      BY <2>2, <3>2, <3>3 DEF Size, Own, InPieces
  <2> QED
    BY <2>1, <2>2
<1> HIDE DEF t
<1>3. /\ u \in Seq(ChunkNames) /\ Len(u) = Len(s) + Len(t) /\ DOMAIN u = 1 .. Len(u)
      /\ Len(s) \in Nat /\ Len(t) \in Nat /\ DOMAIN s = 1 .. Len(s)
      /\ \A p \in 1 .. Len(s) : u[p] = s[p]
      /\ \A p \in Len(s) + 1 .. Len(u) : u[p] = t[p - Len(s)] /\ p - Len(s) \in 1 .. Len(t)
  BY <1>1 DEF Bodies
<1> HIDE DEF u
<1>4. \A p \in 1 .. Len(s) : u[p][1] # c
  BY <1>3 DEF NoneOf
<1>5. \A i \in 1 .. Size(c) : u[Len(s) + i] = t[i]
  BY <1>2, <1>3
<1>6. \A i \in 1 .. Size(c) : Own(c, i, u[Len(s) + i])
  BY <1>2, <1>5
<1>7. \A p \in DOMAIN u : u[p][1] = c <=> p - Len(s) \in 1 .. Size(c)
  BY <1>2, <1>3, <1>4
<1>8. Len(s) \in 0 .. Len(u) - Size(c)
  BY <1>2, <1>3
<1>9. Whole(c, u)
  BY <1>6, <1>7, <1>8 DEF Whole
<1> QED
  BY <1>9 DEF u, t

\* So is a body of its own, and nobody else is in it.
LEMMA WholeAlone ==
  ASSUME NEW c \in Clients, NEW body, MadeOf(c, body), InPieces(c), call \in [Clients -> Calls]
  PROVE  Whole(c, body) /\ \A d \in Clients \ {c} : NoneOf(d, body)
<1>1. /\ body \in Seq(ChunkNames) /\ Len(body) = Size(c) /\ Size(c) \in Nat
      /\ DOMAIN body = 1 .. Len(body)
      /\ \A k \in 1 .. Len(body) : body[k][1] = c /\ Own(c, k, body[k])
  BY DataTyped DEF MadeOf, Bodies, Size, IsPiece, Own, InPieces
<1>2. \A d \in Clients \ {c} : NoneOf(d, body)
  BY <1>1 DEF NoneOf
<1>3. 0 \in 0 .. Len(body) - Size(c)
  BY <1>1
<1>4. \A i \in 1 .. Size(c) : Own(c, i, body[0 + i])
  BY <1>1
<1>5. \A p \in DOMAIN body : body[p][1] = c <=> p - 0 \in 1 .. Size(c)
  BY <1>1
<1> QED
  BY <1>2, <1>3, <1>4, <1>5 DEF Whole

\* Whole bodies are extended, put, completed and replaced as wholes.
LEMMA WholeStep ==
  ASSUME CallInv, StoreTypes, Current, BlocksKept, ~OnS3 => ~setup.late, WholeBodies, Happens,
         \A c \in Clients : /\ cl[c].pc # "idle" => call'[c] = call[c]
                            /\ Stays(c) \/ Goes(c) \/ Fails(c) \/ Succeeds(c)
  PROVE  WholeBodies'
<1> SUFFICES ASSUME NEW c \in Clients
             PROVE  /\ obj' # Absent => WholeIn(c, obj.body)'
                    /\ \A s \in Slots : \A m \in Posted(s)' : m.do = "put" => WholeIn(c, m.body)'
  BY DEF WholeBodies
<1>1. call \in [Clients -> Calls] /\ Size(c) \in Nat
  BY DataTyped DEF CallInv, Settings, Size
<1>2. ASSUME NEW body, WholeIn(c, body) PROVE WholeIn(c, body)'
  BY <1>2, WholeStays
<1>3. ASSUME NEW a \in net, a.msg.do \in Makers, Accepts(a.msg), Perform(a)
      PROVE  WholeIn(c, obj'.body)
  <2>1. PICK d \in Clients : d = a.msg.by
    BY AttemptFits
  <2>2. CASE a.msg.do = "put"
    <3>1. a.slot \in Slots /\ a.msg \in Posted(a.slot)
      BY AttemptFits
    <3>2. WholeIn(c, a.msg.body)
      BY <2>2, <3>1 DEF WholeBodies
    <3>3. obj'.body = a.msg.body
      BY <1>3, <2>2, Delivered
    <3> QED
      BY <3>2, <3>3
  <2>3. CASE a.msg.do # "put"
    <3>1. PICK b : b = obj'.body
      OBVIOUS
    <3>2. MadeOf(d, b) /\ InPieces(d)
      BY <1>3, <2>1, <2>3, <3>1, Delivered
    <3>3. Whole(d, b) /\ \A e \in Clients \ {d} : NoneOf(e, b)
      BY <1>1, <3>2, WholeAlone
    <3>4. cl[d].pc \notin Early
      BY <1>3, <2>1, AttemptFits
    <3>5. WholeIn(c, b)
      BY <3>3, <3>4 DEF WholeIn, Whole
    <3> QED
      BY <3>1, <3>5
  <2> QED
    BY <2>2, <2>3
<1>4. ASSUME obj' # Absent
      PROVE  WholeIn(c, obj.body)'
  <2>1. PICK b : b = obj'.body
    OBVIOUS
  <2>2. WholeIn(c, b)
    <3>1. CASE obj' = obj
      BY <1>4, <2>1, <3>1 DEF WholeBodies
    <3>2. CASE \E a \in net : a.msg.do \in Makers /\ Accepts(a.msg) /\ Perform(a)
      BY <1>3, <2>1, <3>2
    <3> QED
      BY <1>4, <3>1, <3>2, ObjectMoves
  <2>3. WholeIn(c, b)'
    BY <1>2, <2>2
  <2> QED
    BY <2>1, <2>3 DEF WholeIn, Whole, NoneOf
<1>5. ASSUME NEW d \in Clients, NEW s, NEW m, Sends(d, s, m), m.do = "put"
      PROVE  WholeIn(c, m.body)'
  <2>1. /\ cl[d].pc \in Early \ {"idle"} /\ cl'[d].pc \notin Early
        /\ \/ m.body = <<>>
           \/ m.body = DataOf(d) /\ call[d].op # "copy"
           \/ obj # Absent /\ m.body = obj.body \o DataOf(d) /\ call[d].op = "append"
    BY <1>5 DEF Sends, Makers
  <2>2. PICK b : b = m.body
    OBVIOUS
  <2>3. CASE m.body = <<>>
    <3>1. NoneOf(c, b)
      BY <2>2, <2>3 DEF NoneOf
    <3> QED
      BY <1>2, <2>2, <3>1 DEF WholeIn, Whole
  <2>4. ASSUME NEW t \in Bodies, WholeIn(c, t), WholeIn(d, t), b = t \o DataOf(d),
               call[d].op # "copy"
        PROVE  WholeIn(c, b)'
    <3>1. CASE c = d
      <4>1. Whole(c, b)
        BY <1>1, <2>1, <2>4, <3>1, WholeAfter DEF WholeIn
      <4>2. Whole(c, b)'
        BY <2>1, <3>1, <4>1 DEF Whole, NoneOf, Size, Own, InPieces, Early
      <4> QED
        BY <2>1, <3>1, <4>2 DEF WholeIn
    <3>2. CASE c # d
      <4>1. DataOf(d) \in Bodies
        BY <1>1, <2>4, DataTyped
      <4>2. NoneOf(c, DataOf(d))
        <5>1. CASE InPieces(d)
          BY <2>4, <3>2, <5>1 DEF DataOf, Pieces, Piece, NoneOf
        <5>2. CASE ~InPieces(d)
          BY <1>1, <3>2, <5>2, DataTyped DEF NoneOf
        <5> QED
          BY <5>1, <5>2
      <4>3. WholeIn(c, b)
        BY <1>1, <2>4, <4>1, <4>2, WholeBefore DEF WholeIn
      <4> QED
        BY <1>2, <4>3
    <3> QED
      BY <3>1, <3>2
  <2>5. CASE m.body = DataOf(d) /\ call[d].op # "copy"
    <3>1. DataOf(d) \in Seq(ChunkNames) /\ <<>> \in Bodies
      BY <1>1, <2>5, DataTyped DEF Bodies
    <3>2. b = <<>> \o DataOf(d)
      BY <2>2, <2>5, <3>1
    <3>3. \A e \in Clients : WholeIn(e, <<>>)
      BY DEF WholeIn, Whole, NoneOf
    <3>4. WholeIn(c, b)'
      BY <2>4, <2>5, <3>1, <3>2, <3>3
    <3> QED
      BY <2>2, <3>4 DEF WholeIn, Whole, NoneOf
  <2>6. CASE obj # Absent /\ m.body = obj.body \o DataOf(d) /\ call[d].op = "append"
    <3>1. obj.body \in Bodies
      BY <2>6 DEF StoreTypes, Objects
    <3>2. WholeIn(c, obj.body) /\ WholeIn(d, obj.body)
      BY <2>6 DEF WholeBodies
    <3>3. WholeIn(c, b)'
      BY <2>2, <2>4, <2>6, <3>1, <3>2
    <3> QED
      BY <2>2, <3>3 DEF WholeIn, Whole, NoneOf
  <2> QED
    BY <2>1, <2>3, <2>5, <2>6
<1>6. ASSUME NEW s \in Slots, NEW m \in Posted(s)', m.do = "put"
      PROVE  WholeIn(c, m.body)'
  <2>1. CASE m \in Posted(s)
    <3>1. PICK b : b = m.body
      OBVIOUS
    <3>2. WholeIn(c, b)
      BY <1>6, <2>1, <3>1 DEF WholeBodies
    <3>3. WholeIn(c, b)'
      BY <1>2, <3>2
    <3> QED
      BY <3>1, <3>3 DEF WholeIn, Whole, NoneOf
  <2>2. CASE \E d \in Clients : Sends(d, s, m)
    BY <1>5, <1>6, <2>2
  <2> QED
    BY <2>1, <2>2, WireMoves
<1> QED
  BY <1>4, <1>6

\* What Whole says of a body, StandsWhole says as well.
LEMMA WholeStands ==
  ASSUME call \in [Clients -> Calls], NEW c \in Clients, NEW body \in Bodies, Whole(c, body)
  PROVE  \/ \A p \in DOMAIN body : body[p][1] # c
         \/ \E at \in 0 .. Len(body) - Len(DataOf(c)) : StandsWhole(c, body, at)
<1>1. PICK n : n = Size(c)
  OBVIOUS
<1>2. /\ n \in Nat /\ Len(DataOf(c)) = n
      /\ call[c].op # "copy" => /\ DataOf(c) = [i \in 1 .. n |-> DataOf(c)[i]]
                                /\ \A i \in 1 .. n : \A x : Own(c, i, x) => x = DataOf(c)[i]
      /\ call[c].op = "copy" => call[c].chunks = n
  <2>0. call[c].chunks \in Nat
    BY DataTyped
  <2>1. CASE InPieces(c)
    <3>1. DataOf(c) = [i \in 1 .. n |-> Piece(c, i)] /\ n \in Nat /\ n = call[c].chunks
      BY <1>1, <2>0, <2>1 DEF DataOf, Pieces, Size
    <3>2. Len(DataOf(c)) = n
      BY <3>1
    <3>3. call[c].op # "copy" => \A i \in 1 .. n : DataOf(c)[i] = <<c, i>>
      BY <3>1 DEF Piece
    <3> QED
      BY <2>1, <3>1, <3>2, <3>3 DEF Own, InPieces
  <2>2. CASE ~InPieces(c)
    <3>1. DataOf(c) = <<<<c, 0>>>> /\ n = 1
      BY <1>1, <2>2, DataTyped DEF Size
    <3>2. Len(DataOf(c)) = 1 /\ DataOf(c) = [i \in 1 .. 1 |-> <<c, 0>>]
      BY <3>1
    <3> QED
      BY <2>2, <3>1, <3>2 DEF Own, InPieces
  <2> QED
    BY <2>1, <2>2
<1>3. ASSUME NEW at \in 0 .. Len(body) - n,
             \A i \in 1 .. n : Own(c, i, body[at + i]),
             \A p \in DOMAIN body : body[p][1] = c <=> p - at \in 1 .. n
      PROVE  StandsWhole(c, body, at)
  <2> DEFINE own == [i \in 1 .. n |-> body[at + i]]
  <2>1. DOMAIN own = 1 .. n /\ Len(own) = n
    BY <1>2
  <2>2. call[c].op = "copy" => IsCopy(c, own)
    <3>1. call[c].op = "copy" => \A i \in 1 .. n : own[i][1] = c /\ own[i][2] = i
      BY <1>3 DEF Own
    <3> QED
      BY <1>2, <2>1, <3>1 DEF IsCopy
  <2>3. call[c].op # "copy" => own = DataOf(c)
    BY <1>2, <1>3
  <2>4. own = [i \in 1 .. Len(DataOf(c)) |-> body[at + i]]
    BY <1>2
  <2> HIDE DEF own
  <2> QED
    BY <1>3, <2>1, <2>2, <2>3, <2>4 DEF StandsWhole
<1>4. CASE NoneOf(c, body)
  BY <1>4 DEF NoneOf
<1>5. CASE ~NoneOf(c, body)
  BY <1>1, <1>2, <1>3, <1>5 DEF Whole
<1> QED
  BY <1>4, <1>5

\* What one call writes is in the object whole, in its order, together and
\* once, or not at all, whatever is retried, lost or, on S3, late.
THEOREM WritesAreWhole == ASSUME AzureAlone PROVE ObjectSpec => []WrittenWholeOnce
<1>1. ObjectInit => WholeBodies
  <2> SUFFICES ASSUME ObjectInit, NEW c \in Clients
               PROVE  /\ obj # Absent => WholeIn(c, obj.body)
                      /\ \A s \in Slots : Posted(s) = {}
    BY DEF WholeBodies
  <2>1. \A s \in Slots : Posted(s) = {}
    BY DEF ObjectInit, RequestInit, Posted, Awaits
  <2>2. obj # Absent => NoneOf(c, obj.body)
    BY ObjectStoreAssumption DEF ObjectInit, NoneOf
  <2> QED
    BY <2>1, <2>2 DEF WholeIn, Whole
<1>2. BlocksInv /\ WholeBodies /\ [ObjectNext]_objectVars => WholeBodies'
  <2>1. SUFFICES ASSUME BlocksInv, WholeBodies, [ObjectNext]_objectVars PROVE WholeBodies'
    OBVIOUS
  <2>2. ~OnS3 => ~setup.late
    BY <2>1, ObjectStoreAssumption DEF BlocksInv, Fitting, CallInv, Settings, OnS3, AzureAlone
  <2> QED
    BY <2>1, <2>2, StepMoves, WholeStep DEF BlocksInv, Fitting
<1>3. BlocksInv /\ WholeBodies => WrittenWholeOnce
  <2> SUFFICES ASSUME BlocksInv, WholeBodies, obj # Absent, NEW c \in Clients
               PROVE  \/ \A p \in DOMAIN obj.body : obj.body[p][1] # c
                      \/ \E at \in 0 .. Len(obj.body) - Len(DataOf(c)) : StandsWhole(c, obj.body, at)
    BY DEF WrittenWholeOnce
  <2>1. obj.body \in Bodies /\ call \in [Clients -> Calls] /\ Whole(c, obj.body)
    BY DEF BlocksInv, Fitting, StoreTypes, Objects, CallInv, Settings, WholeBodies, WholeIn
  <2> QED
    BY <2>1, WholeStands
<1> QED
  BY <1>1, <1>2, <1>3, BlocksAreKept, PTL DEF ObjectSpec
=============================================================================
