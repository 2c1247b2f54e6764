------------------------------- MODULE DenoKv -------------------------------
(***************************************************************************)
(* The partitioned file of src/driver/deno-kv.ts: one logical path, its    *)
(* entry with a versionstamp, the immutable generations of parts, their    *)
(* retirement markers, and the explicit collection of old generations.     *)
(*                                                                         *)
(* Writers are write calls of any number of processes that share the       *)
(* database; each makes one generation, so a call also names its           *)
(* generation.  Every provider request is one action.  Deno KV itself is   *)
(* taken as the driver uses it: linearizable gets, sets and checked        *)
(* commits, and a listing fetched in batches.  All clocks agree.           *)
(***************************************************************************)
EXTENDS Integers, FiniteSets

CONSTANTS
  Writers,        \* write calls, and the generations they create
  Readers,        \* readers of the path
  Parts,          \* part numbers of a generation
  Absent,         \* the path has no entry
  MinAge,         \* CollectOptions.minAgeMs
  MaxDeletes,     \* CollectOptions.maxDeletes
  MaxWrite,       \* bound of the time from a generation to its commit
  MaxCommit,      \* bound of the time from a retirement stamp to its commit
  MaxRead,        \* bound of the time a reader takes
  MaxTime,        \* bound of the clock
  Batched,        \* whether a listing takes more than one batch
  LostReplies,    \* whether an applied commit may be reported as a failure
  Aborts,         \* whether the signal of a collection may fire
  Crashes         \* whether a collection may break off anywhere

ASSUME DenoKvAssumption ==
  /\ Absent \notin Writers
  /\ Parts # {} /\ IsFiniteSet(Parts) /\ Parts \subseteq Nat
  /\ MinAge \in Nat /\ MaxDeletes \in Nat \ {0} /\ MaxTime \in Nat
  /\ MaxWrite \in Nat /\ MaxCommit \in Nat /\ MaxRead \in Nat
  /\ Batched \in BOOLEAN /\ LostReplies \in BOOLEAN
  /\ Aborts \in BOOLEAN /\ Crashes \in BOOLEAN

VARIABLES
  now,     \* Date.now()
  entry,   \* the call whose record or manifest the entry holds: its versionstamp
  part,    \* the stored parts, <<generation, index>>
  retired, \* generation -> the time in its retirement marker
  wr,      \* write call -> its local state
  rd,      \* reader -> its local state
  gc       \* the collection

vars == <<now, entry, part, retired, wr, rd, gc>>

Unmarked == -1

Ops == {"parts",   \* a body above inlineBytes or a stream
        "inline",  \* a small body or a directory record
        "delete"}

\* Generation g is the one the entry's manifest names.
Visible(g) == entry = g /\ wr[g].op = "parts"

PartsOf(g) == {i \in Parts : <<g, i>> \in part}

NoPass == [pc |-> "idle", cutoff |-> 0, listed |-> {}, seen |-> {}, gen |-> Absent,
           reclaim |-> FALSE, marked |-> FALSE, deleted |-> 0]

Init ==
  /\ now = 0
  /\ entry = Absent
  /\ part = {}
  /\ retired = [g \in Writers |-> Unmarked]
  /\ wr = [w \in Writers |-> [pc |-> "idle", op |-> "parts", saw |-> Absent,
                              born |-> 0, stamp |-> 0, left |-> {}]]
  /\ rd = [r \in Readers |-> [pc |-> "idle", gen |-> Absent, since |-> 0, left |-> {}]]
  /\ gc = NoPass

----------------------------------------------------------------------------
(* Writing.                                                                *)

\* #entry, then generation(); a write without parts builds its transaction at
\* once, see Prepare.
Begin(w, op) ==
  /\ wr[w].pc = "idle"
  /\ wr' = [wr EXCEPT ![w] =
       [pc |-> IF op = "parts" THEN "writing" ELSE "committing", op |-> op,
        saw |-> entry, born |-> now, stamp |-> IF op = "parts" THEN 0 ELSE now,
        left |-> IF op = "parts" THEN Parts ELSE {}]]
  /\ UNCHANGED <<now, entry, part, retired, rd, gc>>

\* pooledMap stores the parts concurrently, in any order.
PutPart(w, i) ==
  /\ wr[w].pc = "writing" /\ i \in wr[w].left
  /\ part' = part \cup {<<w, i>>}
  /\ wr' = [wr EXCEPT ![w].left = @ \ {i}]
  /\ UNCHANGED <<now, entry, retired, rd, gc>>

\* Mutant: the manifest does not wait for the parts.
PrepareEarly(w) ==
  /\ wr[w].pc = "writing"
  /\ wr' = [wr EXCEPT ![w].pc = "committing", ![w].stamp = now]
  /\ UNCHANGED <<now, entry, part, retired, rd, gc>>

\* #commit builds the transaction: the retirement time is taken here.
Prepare(w) ==
  /\ wr[w].pc = "writing" /\ wr[w].left = {}
  /\ wr' = [wr EXCEPT ![w].pc = "committing", ![w].stamp = now]
  /\ UNCHANGED <<now, entry, part, retired, rd, gc>>

\* The call is over, or has only its parts left to delete: its locals are gone,
\* the time in its generation stays.
Settled(w, pc, left) ==
  [pc |-> pc, op |-> wr[w].op, saw |-> Absent, born |-> wr[w].born, stamp |-> 0,
   left |-> left]

\* The catch block deletes the parts of the call's own generation.
Undone(w) ==
  IF wr[w].op = "parts" THEN Settled(w, "cleaning", Parts) ELSE Settled(w, "failed", {})

\* Mutant: the commit does not check the versionstamp.
CommitUnchecked(w) ==
  /\ wr[w].pc = "committing"
  /\ entry' = IF wr[w].op = "delete" THEN Absent ELSE w
  /\ retired' = [g \in Writers |-> IF Visible(g) THEN wr[w].stamp ELSE retired[g]]
  /\ wr' = [wr EXCEPT ![w] = Settled(w, "done", {})]
  /\ UNCHANGED <<now, part, rd, gc>>

\* The transaction is applied: the entry, and the marker of the generation it
\* supersedes.
Commit(w) ==
  /\ wr[w].pc = "committing" /\ entry = wr[w].saw
  /\ entry' = IF wr[w].op = "delete" THEN Absent ELSE w
  /\ retired' = [g \in Writers |-> IF Visible(g) THEN wr[w].stamp ELSE retired[g]]
  /\ \/ wr' = [wr EXCEPT ![w] = Settled(w, "done", {})]
     \/ LostReplies /\ wr' = [wr EXCEPT ![w] = Undone(w)]
  /\ UNCHANGED <<now, part, rd, gc>>

\* The version check fails: another call has committed since #entry.
Reject(w) ==
  /\ wr[w].pc = "committing" /\ entry # wr[w].saw
  /\ wr' = [wr EXCEPT ![w] = Undone(w)]
  /\ UNCHANGED <<now, entry, part, retired, rd, gc>>

\* A part cannot be stored, the source fails, the signal fires, or the commit
\* fails without being applied.
Fail(w) ==
  /\ wr[w].pc \in {"writing", "committing"}
  /\ wr' = [wr EXCEPT ![w] = Undone(w)]
  /\ UNCHANGED <<now, entry, part, retired, rd, gc>>

\* #deleteGeneration, in any order.
Clean(w, i) ==
  /\ wr[w].pc = "cleaning" /\ i \in wr[w].left
  /\ part' = part \ {<<w, i>>}
  /\ wr' = [wr EXCEPT ![w].left = @ \ {i},
                      ![w].pc = IF wr[w].left = {i} THEN "failed" ELSE @]
  /\ UNCHANGED <<now, entry, retired, rd, gc>>

\* The process ends, or #deleteGeneration fails, which nobody is told of.
Stop(w) ==
  /\ wr[w].pc \in {"writing", "committing", "cleaning"}
  /\ wr' = [wr EXCEPT ![w] = Settled(w, "stopped", {})]
  /\ UNCHANGED <<now, entry, part, retired, rd, gc>>

----------------------------------------------------------------------------
(* Reading.                                                                *)

\* get, readFile and openReadStream resolve the entry first.
Open(r) ==
  /\ rd[r].pc \in {"idle", "read"}
  /\ rd' = [rd EXCEPT ![r] =
       IF entry # Absent /\ Visible(entry)
       THEN [pc |-> "reading", gen |-> entry, since |-> now, left |-> Parts]
       ELSE [pc |-> "read", gen |-> entry, since |-> 0, left |-> {}]]
  /\ UNCHANGED <<now, entry, part, retired, wr, gc>>

\* A missing part fails the read.
ReadPart(r, i) ==
  /\ rd[r].pc = "reading" /\ i \in rd[r].left
  /\ rd' = [rd EXCEPT ![r] =
       IF <<rd[r].gen, i>> \notin part THEN [@ EXCEPT !.pc = "broken"]
       ELSE IF rd[r].left = {i} THEN [@ EXCEPT !.pc = "read", !.since = 0, !.left = {}]
       ELSE [@ EXCEPT !.left = rd[r].left \ {i}]]
  /\ UNCHANGED <<now, entry, part, retired, wr, gc>>

----------------------------------------------------------------------------
(* collect().                                                              *)

CollectStart ==
  /\ gc.pc = "idle"
  /\ gc' = [NoPass EXCEPT !.pc = "scan", !.cutoff = now - MinAge, !.listed = part]
  /\ UNCHANGED <<now, entry, part, retired, wr, rd>>

\* The next batch of the listing: what is stored now after the key just seen.
NextBatch ==
  /\ Batched /\ gc.pc = "scan"
  /\ gc' = [gc EXCEPT !.listed =
       {k \in part : \/ k[1] \notin gc.seen
                     \/ k[1] = gc.gen /\ \E j \in gc.listed : j[1] = gc.gen /\ j[2] <= k[2]}]
  /\ UNCHANGED <<now, entry, part, retired, wr, rd>>

Group == {k \in gc.listed : k[1] = gc.gen}

\* Mutant: the marker of a group that was kept is removed too.
ClearRetiredAlways ==
  retired' = [g \in Writers |-> IF g = gc.gen /\ gc.marked THEN Unmarked ELSE retired[g]]

\* #clearRetired: every listed part of the finished group was deleted.
ClearRetired ==
  retired' = [g \in Writers |->
    IF g = gc.gen /\ gc.marked /\ gc.reclaim THEN Unmarked ELSE retired[g]]

\* A key of another generation opens a new group.
NextGroup(g) ==
  /\ gc.pc = "scan" /\ Group = {}
  /\ \E k \in gc.listed : k[1] = g
  /\ ClearRetired
  /\ gc' = [gc EXCEPT !.pc = "visible", !.gen = g, !.seen = @ \cup {g},
                      !.marked = FALSE, !.reclaim = FALSE]
  /\ UNCHANGED <<now, entry, part, wr, rd>>

\* Mutant: the published generation is not looked at.
CheckVisibleSkipped ==
  /\ gc.pc = "visible"
  /\ gc' = [gc EXCEPT !.pc = "marker"]
  /\ UNCHANGED <<now, entry, part, retired, wr, rd>>

CheckVisible ==
  /\ gc.pc = "visible"
  /\ gc' = [gc EXCEPT !.pc = IF Visible(gc.gen) THEN "scan" ELSE "marker"]
  /\ UNCHANGED <<now, entry, part, retired, wr, rd>>

\* Mutant: a superseded generation is dated by its creation.
CheckBirth ==
  LET g == gc.gen IN
  /\ gc.pc = "marker"
  /\ gc' = [gc EXCEPT !.pc = "scan", !.marked = retired[g] # Unmarked,
              !.reclaim = wr[g].born <= gc.cutoff]
  /\ UNCHANGED <<now, entry, part, retired, wr, rd>>

\* Mutant: only what has a marker is reclaimed.
CheckMarkerOnly ==
  LET g == gc.gen
      marked == retired[g] # Unmarked IN
  /\ gc.pc = "marker"
  /\ gc' = [gc EXCEPT !.pc = "scan", !.marked = marked,
              !.reclaim = marked /\ retired[g] <= gc.cutoff]
  /\ UNCHANGED <<now, entry, part, retired, wr, rd>>

\* The age of a group is that of its marker, or of its generation without one.
CheckMarker ==
  LET g == gc.gen
      marked == retired[g] # Unmarked IN
  /\ gc.pc = "marker"
  /\ gc' = [gc EXCEPT !.pc = "scan", !.marked = marked,
              !.reclaim = (IF marked THEN retired[g] ELSE wr[g].born) <= gc.cutoff]
  /\ UNCHANGED <<now, entry, part, retired, wr, rd>>

\* The listed keys of a group come in the order of their part numbers.
NextKey(i) ==
  /\ gc.pc = "scan" /\ <<gc.gen, i>> \in Group
  /\ \A k \in Group : i <= k[2]

Retain(i) ==
  /\ NextKey(i) /\ ~gc.reclaim
  /\ gc' = [gc EXCEPT !.listed = @ \ {<<gc.gen, i>>}]
  /\ UNCHANGED <<now, entry, part, retired, wr, rd>>

DeletePart(i) ==
  /\ NextKey(i) /\ gc.reclaim /\ gc.deleted < MaxDeletes
  /\ part' = part \ {<<gc.gen, i>>}
  /\ gc' = [gc EXCEPT !.listed = @ \ {<<gc.gen, i>>}, !.deleted = @ + 1]
  /\ UNCHANGED <<now, entry, retired, wr, rd>>

\* The pass is over: out of keys, or truncated in front of a deletion.
CollectEnd ==
  /\ gc.pc = "scan"
  /\ \/ gc.listed = {} /\ ClearRetired
     \/ /\ Group # {} /\ gc.reclaim /\ gc.deleted = MaxDeletes
        /\ UNCHANGED retired
  /\ gc' = NoPass
  /\ UNCHANGED <<now, entry, part, wr, rd>>

\* throwIfAborted at the next key.
CollectAbort ==
  /\ Aborts /\ gc.pc = "scan" /\ gc.listed # {}
  /\ gc' = NoPass
  /\ UNCHANGED <<now, entry, part, retired, wr, rd>>

\* A request of the pass fails, or its process ends.
CollectCrash ==
  /\ Crashes /\ gc.pc # "idle"
  /\ gc' = NoPass
  /\ UNCHANGED <<now, entry, part, retired, wr, rd>>

----------------------------------------------------------------------------
(* Time passes within the bounds assumed of writers and readers.           *)
Tick ==
  /\ now < MaxTime
  /\ \A w \in Writers :
       /\ wr[w].pc \in {"writing", "committing"} => now - wr[w].born < MaxWrite
       /\ wr[w].pc = "committing" => now - wr[w].stamp < MaxCommit
  /\ \A r \in Readers : rd[r].pc = "reading" => now - rd[r].since < MaxRead
  /\ now' = now + 1
  /\ UNCHANGED <<entry, part, retired, wr, rd, gc>>

WriteStep(w) ==
  \/ \E i \in Parts : PutPart(w, i) \/ Clean(w, i)
  \/ Prepare(w) \/ Commit(w) \/ Reject(w)

ReadStep(r) == \E i \in Parts : ReadPart(r, i)

CollectStep ==
  \/ CollectStart \/ CheckVisible \/ CheckMarker \/ CollectEnd
  \/ \E g \in Writers : NextGroup(g)
  \/ \E i \in Parts : Retain(i) \/ DeletePart(i)

Next ==
  \/ \E w \in Writers :
       \/ \E op \in Ops : Begin(w, op)
       \/ WriteStep(w) \/ Fail(w) \/ Stop(w)
  \/ \E r \in Readers : Open(r) \/ ReadStep(r)
  \/ CollectStep \/ NextBatch \/ CollectAbort \/ CollectCrash
  \/ Tick

Spec == Init /\ [][Next]_vars

\* Started calls go on, the application calls collect() again and again, and
\* the clock advances.
FairSpec ==
  /\ Spec
  /\ \A w \in Writers : WF_vars(WriteStep(w))
  /\ \A r \in Readers : WF_vars(ReadStep(r))
  /\ WF_vars(CollectStep) /\ WF_vars(Tick)

----------------------------------------------------------------------------
(* Properties.                                                             *)

Keys == Writers \X Parts

WriterState ==
  [pc : {"idle", "writing", "committing", "cleaning", "done", "failed", "stopped"},
   op : Ops, saw : Writers \cup {Absent}, born : Nat, stamp : Nat, left : SUBSET Parts]

ReaderState ==
  [pc : {"idle", "reading", "read", "broken"},
   gen : Writers \cup {Absent}, since : Nat, left : SUBSET Parts]

PassState ==
  [pc : {"idle", "scan", "visible", "marker"}, cutoff : Int,
   listed : SUBSET Keys, seen : SUBSET Writers, gen : Writers \cup {Absent},
   reclaim : BOOLEAN, marked : BOOLEAN, deleted : Nat]

\* The shape of the stored state and of the locals.
TypeOK ==
  /\ now \in Nat
  /\ entry \in Writers \cup {Absent}
  /\ part \subseteq Keys
  /\ retired \in [Writers -> Nat \cup {Unmarked}]
  /\ wr \in [Writers -> WriterState]
  /\ rd \in [Readers -> ReaderState]
  /\ gc \in PassState

\* "manifest-last replacement": the body of the visible manifest is complete
\* whatever writers fail, lose the race or die, and whatever is collected.
VisibleBodyComplete == \A g \in Writers : Visible(g) => PartsOf(g) = Parts

\* A reader that finishes within MaxRead never misses a part, although its
\* generation may be superseded and collected while it reads.
ReadersComplete == \A r \in Readers : rd[r].pc # "broken"

\* So is the body of a visible write that was acknowledged, even where other
\* writes only seem to have failed.
AcknowledgedBodyComplete ==
  \A g \in Writers : Visible(g) /\ wr[g].pc = "done" => PartsOf(g) = Parts

\* A generation that was visible once is dated by its retirement as long as
\* any part of it is left, also between two truncated or broken passes; what is
\* visible has no marker.
Superseded(g) == wr[g].pc = "done" /\ wr[g].op = "parts" /\ entry # g

SupersededIsMarked ==
  \A g \in Writers :
    /\ Superseded(g) /\ PartsOf(g) # {} => retired[g] # Unmarked
    /\ retired[g] # Unmarked => ~Visible(g)

\* Parts nobody can reach do not stay: what failed, died or was superseded is
\* collected once it is old enough.
Dated(g) == IF retired[g] = Unmarked THEN wr[g].born ELSE retired[g]

Garbage(g) ==
  /\ wr[g].pc \in {"failed", "stopped"} \/ Superseded(g)
  /\ entry # g
  /\ Dated(g) + MinAge <= MaxTime
  /\ PartsOf(g) # {}

GarbageIsReclaimed == \A g \in Writers : Garbage(g) ~> PartsOf(g) = {}
=============================================================================
