---------------------------- MODULE DenoKvProofs ----------------------------
(***************************************************************************)
(* Proofs about DenoKv: what the grace period of collect() has to cover,   *)
(* and that under it the partitioned file implements the atomic file.      *)
(***************************************************************************)
EXTENDS DenoKvAtomic, TLAPS

\* The grace period is longer than a write takes.
Timely == MaxWrite < MinAge

\* Replies are not lost, and the grace period is longer than a reader and the
\* commit that supersedes its generation take.
Patient == ~LostReplies /\ MaxCommit + MaxRead < MinAge

Active(w) == wr[w].pc \in {"writing", "committing"}

Over(w) == wr[w].pc \in {"cleaning", "done", "failed", "stopped"}

\* Nobody will ever find the parts of this generation through the entry.
Dead(g) == Over(g) /\ ~Visible(g)

\* The entry names a call that has committed, acknowledged unless replies are
\* lost; a part belongs to a started one.
EntryDone == entry # Absent => Over(entry) /\ (~LostReplies => wr[entry].pc = "done")

Started == \A k \in part \cup gc.listed : wr[k[1]].pc # "idle"

\* A generation is complete when its manifest is committed, and while it is
\* visible, unless its own call takes it for failed.
PartsStored ==
  \A w \in Writers :
    /\ wr[w].pc = "writing" => wr[w].op = "parts" /\ Parts \ wr[w].left \subseteq PartsOf(w)
    /\ wr[w].pc = "committing" /\ wr[w].op = "parts" => PartsOf(w) = Parts
    /\ Visible(w) /\ wr[w].pc = "done" => PartsOf(w) = Parts

MarkersDead == \A g \in Writers : retired[g] # Unmarked => Dead(g)

InTime ==
  /\ \A w \in Writers :
       /\ Active(w) => now - wr[w].born <= MaxWrite
       /\ wr[w].pc = "committing" => now - wr[w].stamp <= MaxCommit
  /\ \A r \in Readers :
       rd[r].pc = "reading" => now - rd[r].since <= MaxRead /\ rd[r].since <= now

\* What a pass reclaims is dead, and what it may still find to be visible is
\* too young for it.
PassSafe ==
  /\ gc.pc # "idle" => gc.cutoff <= now - MinAge
  /\ gc.pc \in {"visible", "marker"} =>
       gc.gen \in Writers /\ wr[gc.gen].pc # "idle" /\ ~gc.reclaim
  /\ gc.pc = "marker" => Dead(gc.gen) \/ wr[gc.gen].born > gc.cutoff
  /\ gc.reclaim => gc.pc = "scan" /\ gc.gen \in Writers /\ Dead(gc.gen)

\* A generation that is being read is whole, out of the pass's reach, and
\* dated no earlier than the reader's start by more than a commit takes.
ReadersSafe ==
  Patient => \A r \in Readers :
    /\ rd[r].pc # "broken"
    /\ rd[r].pc = "reading" =>
         /\ rd[r].gen \in Writers /\ wr[rd[r].gen].pc = "done" /\ wr[rd[r].gen].op = "parts"
         /\ PartsOf(rd[r].gen) = Parts
         /\ ~(gc.reclaim /\ gc.gen = rd[r].gen)
         /\ \/ Visible(rd[r].gen)
            \/ /\ retired[rd[r].gen] # Unmarked
               /\ rd[r].since <= retired[rd[r].gen] + MaxCommit

IInv ==
  TypeOK /\ EntryDone /\ Started /\ PartsStored /\ MarkersDead /\ InTime /\ PassSafe /\ ReadersSafe
----------------------------------------------------------------------------
(* What the actions do to the local states, field by field.                *)

Others(w) == \A v \in Writers \ {w} : wr'[v] = wr[v]

\* The call keeps what it is about.
Same(w) == wr'[w].op = wr[w].op /\ wr'[w].born = wr[w].born

\* A put takes one part off those left and keeps what the call saw.
LEMMA PutPartEffect ==
  ASSUME TypeOK, NEW w \in Writers, NEW i \in Parts, PutPart(w, i)
  PROVE  /\ wr' \in [Writers -> WriterState] /\ Others(w) /\ Same(w)
         /\ wr'[w].pc = "writing"
         /\ wr'[w].left = wr[w].left \ {i} /\ wr'[w].saw = wr[w].saw
<1> DEFINE u == [wr[w] EXCEPT !.left = @ \ {i}]
<1>1. wr[w] \in WriterState /\ wr[w].pc = "writing"
  BY DEF TypeOK, PutPart
<1>2. u \in WriterState
  BY <1>1 DEF WriterState
<1>3. /\ u.pc = "writing"
      /\ u.op = wr[w].op
      /\ u.born = wr[w].born
      /\ u.left = wr[w].left \ {i}
      /\ u.saw = wr[w].saw
  BY <1>1 DEF WriterState
<1>4. wr' = [wr EXCEPT ![w] = u]
  BY DEF PutPart
<1> HIDE DEF u
<1>5. wr'[w] = u /\ wr' \in [Writers -> WriterState] /\ Others(w)
  BY <1>2, <1>4 DEF TypeOK, Others
<1> QED
  BY <1>3, <1>5 DEF Same

\* The transaction is stamped when it is built.
LEMMA PrepareEffect ==
  ASSUME TypeOK, NEW w \in Writers, Prepare(w)
  PROVE  /\ wr' \in [Writers -> WriterState] /\ Others(w) /\ Same(w)
         /\ wr'[w].pc = "committing"
         /\ wr'[w].stamp = now /\ wr'[w].saw = wr[w].saw
<1> DEFINE s == [wr[w] EXCEPT !.pc = "committing"]
           u == [s EXCEPT !.stamp = now]
<1>1. wr[w] \in WriterState /\ now \in Nat
  BY DEF TypeOK
<1>2. s \in WriterState
  BY <1>1 DEF WriterState
<1>3. s.pc = "committing" /\ s.op = wr[w].op /\ s.born = wr[w].born /\ s.saw = wr[w].saw
  BY <1>1 DEF WriterState
<1>4. wr' = [wr EXCEPT ![w] = u]
  BY DEF Prepare
<1> HIDE DEF s
<1>5. u \in WriterState
  BY <1>1, <1>2 DEF WriterState
<1>6. u.pc = s.pc /\ u.op = s.op /\ u.born = s.born /\ u.stamp = now /\ u.saw = s.saw
  BY <1>1, <1>2 DEF WriterState
<1> HIDE DEF u
<1>7. wr'[w] = u /\ wr' \in [Writers -> WriterState] /\ Others(w)
  BY <1>4, <1>5 DEF TypeOK, Others
<1> QED
  BY <1>3, <1>6, <1>7 DEF Same

\* A cleanup goes on, or ends in failure.
LEMMA CleanEffect ==
  ASSUME TypeOK, NEW w \in Writers, NEW i \in Parts, Clean(w, i)
  PROVE  /\ wr' \in [Writers -> WriterState] /\ Others(w) /\ Same(w)
         /\ wr'[w].pc \in {"cleaning", "failed"} /\ wr'[w].saw = wr[w].saw
<1> DEFINE p == IF wr[w].left = {i} THEN "failed" ELSE wr[w].pc
           s == [wr[w] EXCEPT !.left = @ \ {i}]
           u == [s EXCEPT !.pc = p]
<1>1. wr[w] \in WriterState /\ p \in {"cleaning", "failed"}
  BY DEF TypeOK, Clean
<1>2. s \in WriterState
  BY <1>1 DEF WriterState
<1>3. s.op = wr[w].op /\ s.born = wr[w].born /\ s.saw = wr[w].saw
  BY <1>1 DEF WriterState
<1>4. wr' = [wr EXCEPT ![w] = u]
  BY DEF Clean
<1> HIDE DEF s, p
<1>5. u \in WriterState
  BY <1>1, <1>2 DEF WriterState
<1>6. u.pc = p /\ u.op = s.op /\ u.born = s.born /\ u.saw = s.saw
  BY <1>1, <1>2 DEF WriterState
<1> HIDE DEF u
<1>7. wr'[w] = u /\ wr' \in [Writers -> WriterState] /\ Others(w)
  BY <1>4, <1>5 DEF TypeOK, Others
<1> QED
  BY <1>1, <1>3, <1>6, <1>7 DEF Same

\* A call that commits, loses, fails or stops is over.
LEMMA SettledEffect ==
  ASSUME TypeOK, NEW w \in Writers, Commit(w) \/ Reject(w) \/ Fail(w) \/ Stop(w)
  PROVE  /\ wr' \in [Writers -> WriterState] /\ Others(w) /\ Same(w)
         /\ wr'[w].pc \in {"cleaning", "done", "failed", "stopped"} /\ wr'[w].saw = Absent
         /\ Commit(w) /\ ~LostReplies => wr'[w].pc = "done"
<1>1. PICK u \in {Settled(w, "done", {}), Settled(w, "stopped", {}), Undone(w)} :
        /\ wr' = [wr EXCEPT ![w] = u]
        /\ Commit(w) /\ ~LostReplies => u = Settled(w, "done", {})
  BY DEF Commit, Reject, Fail, Stop
<1>2. wr[w] \in WriterState
  BY DEF TypeOK
<1>3. /\ u \in WriterState
      /\ u.pc \in {"cleaning", "done", "failed", "stopped"}
      /\ u.op = wr[w].op
      /\ u.born = wr[w].born
      /\ u.saw = Absent
  BY <1>2 DEF WriterState, Settled, Undone
<1>4. wr'[w] = u /\ wr' \in [Writers -> WriterState] /\ Others(w)
  BY <1>1, <1>3 DEF TypeOK, Others
<1>5. Commit(w) /\ ~LostReplies => u.pc = "done"
  BY <1>1 DEF Settled
<1> QED
  BY <1>3, <1>4, <1>5 DEF Same

\* Without a commit a call does not end as done.
LEMMA EndEffect ==
  ASSUME TypeOK, NEW w \in Writers, Reject(w) \/ Fail(w) \/ Stop(w)
  PROVE  wr'[w].pc # "done"
<1>1. PICK u \in {Settled(w, "stopped", {}), Undone(w)} : wr' = [wr EXCEPT ![w] = u]
  BY DEF Reject, Fail, Stop
<1>2. u.pc # "done"
  BY <1>1 DEF Settled, Undone
<1> QED
  BY <1>1, <1>2 DEF TypeOK

\* A read that breaks has missed its part; no read changes its generation.
LEMMA ReadPartEffect ==
  ASSUME TypeOK, NEW r \in Readers, NEW i \in Parts, ReadPart(r, i)
  PROVE  /\ rd' \in [Readers -> ReaderState]
         /\ \A q \in Readers \ {r} : rd'[q] = rd[q]
         /\ rd'[r].pc = "broken" => <<rd[r].gen, i>> \notin part
         /\ rd'[r].pc = "reading" => rd'[r].since = rd[r].since
         /\ rd'[r].gen = rd[r].gen /\ rd'[r].pc \in {"reading", "read", "broken"}
<1> DEFINE b == [rd[r] EXCEPT !.pc = "broken"]
           p == [rd[r] EXCEPT !.pc = "read"]
           s == [p EXCEPT !.since = 0]
           e == [s EXCEPT !.left = {}]
           c == [rd[r] EXCEPT !.left = rd[r].left \ {i}]
<1>1. rd[r] \in ReaderState /\ rd[r].pc = "reading"
  BY DEF TypeOK, ReadPart
<1>2. b \in ReaderState /\ b.pc = "broken" /\ b.gen = rd[r].gen
  BY <1>1 DEF ReaderState
<1>3. c \in ReaderState /\ c.gen = rd[r].gen /\ c.since = rd[r].since /\ c.pc = "reading"
  BY <1>1 DEF ReaderState
<1>4. p \in ReaderState /\ p.pc = "read" /\ p.gen = rd[r].gen
  BY <1>1 DEF ReaderState
<1>5. PICK u : /\ rd' = [rd EXCEPT ![r] = u]
               /\ \/ u = b /\ <<rd[r].gen, i>> \notin part
                  \/ u = e
                  \/ u = c
  BY DEF ReadPart
<1> HIDE DEF p
<1>6. s \in ReaderState /\ s.pc = "read" /\ s.gen = rd[r].gen
  BY <1>4 DEF ReaderState
<1> HIDE DEF s
<1>7. e \in ReaderState /\ e.pc = "read" /\ e.gen = rd[r].gen
  BY <1>6 DEF ReaderState
<1> HIDE DEF b, e, c
<1>8. u \in ReaderState
  BY <1>2, <1>3, <1>5, <1>7
<1>9. rd' \in [Readers -> ReaderState] /\ rd'[r] = u /\ \A q \in Readers \ {r} : rd'[q] = rd[q]
  BY <1>5, <1>8 DEF TypeOK
<1> QED
  BY <1>2, <1>3, <1>5, <1>7, <1>9

\* The pass that is not running has listed and decided nothing.
LEMMA NoPassEffect ==
  ASSUME DenoKvAssumption
  PROVE  /\ NoPass \in PassState
         /\ NoPass.pc = "idle" /\ NoPass.listed = {} /\ NoPass.reclaim = FALSE
         /\ NoPass.gen = Absent /\ NoPass.seen = {}
BY DEF NoPass, PassState

\* A pass dates its cutoff from now and lists every stored part.
LEMMA CollectStartEffect ==
  ASSUME TypeOK, CollectStart
  PROVE  /\ gc' \in PassState
         /\ gc'.pc = "scan" /\ gc'.cutoff = now - MinAge /\ gc'.listed = part
         /\ gc'.reclaim = FALSE /\ gc'.gen = Absent /\ gc'.seen = {}
<1> DEFINE s == [NoPass EXCEPT !.pc = "scan"]
           c == now - MinAge
           t == [s EXCEPT !.cutoff = c]
           u == [t EXCEPT !.listed = part]
<1>1. c \in Int /\ part \in SUBSET Keys
  BY DenoKvAssumption DEF TypeOK
<1>0. /\ NoPass \in PassState /\ NoPass.reclaim = FALSE
      /\ NoPass.gen = Absent /\ NoPass.seen = {}
  BY DenoKvAssumption, NoPassEffect
<1>2. /\ s \in PassState /\ s.pc = "scan" /\ s.reclaim = NoPass.reclaim
      /\ s.gen = NoPass.gen /\ s.seen = NoPass.seen
  BY <1>0 DEF PassState
<1>3. gc' = u
  BY DEF CollectStart
<1> HIDE DEF s, c
<1>4. t \in PassState
  BY <1>1, <1>2 DEF PassState
<1>5. /\ t.pc = s.pc /\ t.cutoff = c /\ t.reclaim = s.reclaim
      /\ t.gen = s.gen /\ t.seen = s.seen
  BY <1>1, <1>2 DEF PassState
<1> HIDE DEF t
<1>6. u \in PassState
  BY <1>1, <1>4 DEF PassState
<1>7. /\ u.pc = t.pc /\ u.cutoff = t.cutoff /\ u.reclaim = t.reclaim /\ u.listed = part
      /\ u.gen = t.gen /\ u.seen = t.seen
  BY <1>1, <1>4 DEF PassState
<1> HIDE DEF u
<1>8. c = now - MinAge
  BY DEF c
<1> QED
  BY <1>0, <1>2, <1>3, <1>5, <1>6, <1>7, <1>8

\* The pass goes on with the same group and other keys.
LEMMA ListedEffect ==
  ASSUME TypeOK, NEW L \in SUBSET Keys
  PROVE  /\ [gc EXCEPT !.listed = L] \in PassState
         /\ [gc EXCEPT !.listed = L].pc = gc.pc
         /\ [gc EXCEPT !.listed = L].cutoff = gc.cutoff
         /\ [gc EXCEPT !.listed = L].gen = gc.gen
         /\ [gc EXCEPT !.listed = L].reclaim = gc.reclaim
         /\ [gc EXCEPT !.listed = L].listed = L
         /\ [gc EXCEPT !.listed = L].seen = gc.seen
<1> DEFINE u == [gc EXCEPT !.listed = L]
<1>1. gc \in PassState
  BY DEF TypeOK
<1>2. u \in PassState
  BY <1>1 DEF PassState
<1>3. u.pc = gc.pc /\ u.cutoff = gc.cutoff
  BY <1>1 DEF PassState
<1>4. u.gen = gc.gen /\ u.reclaim = gc.reclaim /\ u.listed = L /\ u.seen = gc.seen
  BY <1>1 DEF PassState
<1> QED
  BY <1>2, <1>3, <1>4

\* The next batch lists the groups not yet seen and the rest of the current one.
LEMMA NextBatchEffect ==
  ASSUME TypeOK, NextBatch
  PROVE  /\ gc' \in PassState
         /\ gc'.pc = gc.pc /\ gc'.cutoff = gc.cutoff /\ gc'.gen = gc.gen
         /\ gc'.reclaim = gc.reclaim /\ gc'.seen = gc.seen /\ gc'.listed \subseteq part
         /\ \A k \in part : k \in gc'.listed <=>
              \/ k[1] \notin gc.seen
              \/ k[1] = gc.gen /\ \E j \in gc.listed : j[1] = gc.gen /\ j[2] <= k[2]
<1> DEFINE L == {k \in part :
                  \/ k[1] \notin gc.seen
                  \/ k[1] = gc.gen /\ \E j \in gc.listed : j[1] = gc.gen /\ j[2] <= k[2]}
<1>1. gc' = [gc EXCEPT !.listed = L]
  BY DEF NextBatch
<1>2. L \in SUBSET part /\ L \in SUBSET Keys
  BY DEF TypeOK
<1>3. \A k \in part : k \in L <=>
        \/ k[1] \notin gc.seen
        \/ k[1] = gc.gen /\ \E j \in gc.listed : j[1] = gc.gen /\ j[2] <= k[2]
  OBVIOUS
<1> HIDE DEF L
<1> QED
  BY <1>1, <1>2, <1>3, ListedEffect

\* Retain and DeletePart take one key off the listing.
LEMMA TakeKeyEffect ==
  ASSUME TypeOK, NEW i \in Parts, Retain(i) \/ DeletePart(i)
  PROVE  /\ gc' \in PassState
         /\ gc'.pc = gc.pc /\ gc'.cutoff = gc.cutoff /\ gc'.gen = gc.gen
         /\ gc'.reclaim = gc.reclaim /\ gc'.seen = gc.seen
         /\ gc'.listed = gc.listed \ {<<gc.gen, i>>}
<1> DEFINE L == gc.listed \ {<<gc.gen, i>>}
           s == [gc EXCEPT !.listed = L]
           d == gc.deleted + 1
           t == [s EXCEPT !.deleted = d]
<1>1. gc \in PassState /\ L \in SUBSET Keys /\ d \in Nat
  BY DEF TypeOK, PassState
<1>2. gc' = s \/ gc' = t
  BY DEF Retain, DeletePart
<1>3. s \in PassState
  BY <1>1 DEF PassState
<1>4. s.pc = gc.pc /\ s.cutoff = gc.cutoff /\ s.gen = gc.gen /\ s.reclaim = gc.reclaim
  BY <1>1, ListedEffect
<1>5. s.listed = L /\ s.seen = gc.seen
  BY <1>1, ListedEffect
<1> HIDE DEF s, d
<1>6. t \in PassState
  BY <1>1, <1>3 DEF PassState
<1>7. t.pc = s.pc /\ t.cutoff = s.cutoff /\ t.gen = s.gen
  BY <1>1, <1>3 DEF PassState
<1>8. t.reclaim = s.reclaim /\ t.listed = s.listed /\ t.seen = s.seen
  BY <1>1, <1>3 DEF PassState
<1> HIDE DEF t
<1> QED
  BY <1>2, <1>3, <1>4, <1>5, <1>6, <1>7, <1>8

\* The next group starts undecided and counts as seen.
LEMMA NextGroupEffect ==
  ASSUME TypeOK, NEW g \in Writers, NextGroup(g)
  PROVE  /\ gc' \in PassState
         /\ gc'.pc = "visible" /\ gc'.cutoff = gc.cutoff /\ gc'.gen = g
         /\ gc'.reclaim = FALSE /\ gc'.listed = gc.listed /\ gc'.seen = gc.seen \cup {g}
<1>1. gc \in PassState
  BY DEF TypeOK
<1>2. gc' \in PassState
  BY <1>1 DEF PassState, NextGroup
<1>3. gc'.pc = "visible" /\ gc'.gen = g
  BY <1>1 DEF PassState, NextGroup
<1>4. gc'.cutoff = gc.cutoff /\ gc'.reclaim = FALSE /\ gc'.listed = gc.listed
  BY <1>1 DEF PassState, NextGroup
<1>5. gc'.seen = gc.seen \cup {g}
  BY <1>1 DEF PassState, NextGroup
<1> QED
  BY <1>2, <1>3, <1>4, <1>5

\* Only a group that is not visible goes on to its marker.
LEMMA CheckVisibleEffect ==
  ASSUME TypeOK, CheckVisible
  PROVE  /\ gc' \in PassState
         /\ gc'.pc = IF Visible(gc.gen) THEN "scan" ELSE "marker"
         /\ gc'.cutoff = gc.cutoff /\ gc'.gen = gc.gen
         /\ gc'.reclaim = gc.reclaim /\ gc'.listed = gc.listed /\ gc'.seen = gc.seen
<1> DEFINE p == IF Visible(gc.gen) THEN "scan" ELSE "marker"
           u == [gc EXCEPT !.pc = p]
<1>1. gc \in PassState /\ p \in {"scan", "marker"}
  BY DEF TypeOK
<1>2. gc' = u
  BY DEF CheckVisible
<1> HIDE DEF p
<1>3. u \in PassState
  BY <1>1 DEF PassState
<1>4. u.pc = p /\ u.cutoff = gc.cutoff /\ u.gen = gc.gen
  BY <1>1 DEF PassState
<1>5. u.reclaim = gc.reclaim /\ u.listed = gc.listed /\ u.seen = gc.seen
  BY <1>1 DEF PassState
<1> HIDE DEF u
<1> QED
  BY <1>2, <1>3, <1>4, <1>5 DEF p

\* A group is reclaimed for the age of its marker, or of its birth without one.
LEMMA CheckMarkerEffect ==
  ASSUME TypeOK, CheckMarker
  PROVE  /\ gc' \in PassState
         /\ gc'.pc = "scan" /\ gc'.cutoff = gc.cutoff /\ gc'.gen = gc.gen
         /\ gc'.listed = gc.listed /\ gc'.seen = gc.seen
         /\ gc'.reclaim /\ retired[gc.gen] # Unmarked => retired[gc.gen] <= gc.cutoff
         /\ gc'.reclaim /\ retired[gc.gen] = Unmarked => wr[gc.gen].born <= gc.cutoff
<1> DEFINE m == retired[gc.gen] # Unmarked
           r == (IF m THEN retired[gc.gen] ELSE wr[gc.gen].born) <= gc.cutoff
           s == [gc EXCEPT !.pc = "scan"]
           t == [s EXCEPT !.marked = m]
           u == [t EXCEPT !.reclaim = r]
<1>1. gc \in PassState /\ m \in BOOLEAN /\ r \in BOOLEAN
  BY DEF TypeOK
<1>2. gc' = u
  BY DEF CheckMarker
<1>3. s \in PassState
  BY <1>1 DEF PassState
<1>4. /\ s.pc = "scan" /\ s.cutoff = gc.cutoff /\ s.gen = gc.gen /\ s.listed = gc.listed
      /\ s.seen = gc.seen
  BY <1>1 DEF PassState
<1> HIDE DEF s, m, r
<1>5. t \in PassState
  BY <1>1, <1>3 DEF PassState
<1>6. /\ t.pc = s.pc /\ t.cutoff = s.cutoff /\ t.gen = s.gen /\ t.listed = s.listed
      /\ t.seen = s.seen
  BY <1>1, <1>3 DEF PassState
<1> HIDE DEF t
<1>7. u \in PassState
  BY <1>1, <1>5 DEF PassState
<1>8. /\ u.pc = t.pc /\ u.cutoff = t.cutoff /\ u.gen = t.gen /\ u.listed = t.listed
      /\ u.seen = t.seen
  BY <1>1, <1>5 DEF PassState
<1>9. u.reclaim = r
  BY <1>1, <1>5 DEF PassState
<1> HIDE DEF u, t
<1>10. /\ r /\ retired[gc.gen] # Unmarked => retired[gc.gen] <= gc.cutoff
       /\ r /\ retired[gc.gen] = Unmarked => wr[gc.gen].born <= gc.cutoff
  BY DEF m, r
<1> QED
  BY <1>2, <1>4, <1>6, <1>7, <1>8, <1>9, <1>10

----------------------------------------------------------------------------
(* Type correctness.                                                       *)

LEMMA TypeInit ==
  ASSUME Init
  PROVE  TypeOK
<1>1. gc \in PassState
  BY DenoKvAssumption, NoPassEffect DEF Init
<1>2. wr \in [Writers -> WriterState]
  BY DEF Init, WriterState, Ops
<1>3. rd \in [Readers -> ReaderState]
  BY DEF Init, ReaderState
<1> QED
  BY <1>1, <1>2, <1>3 DEF Init, TypeOK, Unmarked

\* Every step keeps the types.
LEMMA TypeStep ==
  ASSUME TypeOK, [Next]_vars
  PROVE  TypeOK'
<1> USE DenoKvAssumption
<1>1. ASSUME NEW w \in Writers, NEW op \in Ops, Begin(w, op) PROVE TypeOK'
  BY <1>1 DEF Begin, TypeOK, WriterState
<1>2. ASSUME NEW w \in Writers, NEW i \in Parts, PutPart(w, i) PROVE TypeOK'
  <2>1. part' \subseteq Keys
    BY <1>2 DEF PutPart, TypeOK, Keys
  <2>2. UNCHANGED <<now, entry, retired, rd, gc>>
    BY <1>2 DEF PutPart
  <2> QED
    BY <1>2, <2>1, <2>2, PutPartEffect DEF TypeOK
<1>3. ASSUME NEW w \in Writers, Prepare(w) PROVE TypeOK'
  BY <1>3, PrepareEffect DEF Prepare, TypeOK
<1>4. ASSUME NEW w \in Writers, Commit(w) PROVE TypeOK'
  <2>1. wr[w].stamp \in Nat
    BY DEF TypeOK, WriterState
  <2>2. retired' \in [Writers -> Nat \cup {Unmarked}]
    BY <1>4, <2>1 DEF Commit, TypeOK
  <2> QED
    BY <1>4, <2>2, SettledEffect DEF Commit, TypeOK
<1>5. ASSUME NEW w \in Writers, Reject(w) PROVE TypeOK'
  BY <1>5, SettledEffect DEF Reject, TypeOK
<1>6. ASSUME NEW w \in Writers, Fail(w) PROVE TypeOK'
  BY <1>6, SettledEffect DEF Fail, TypeOK
<1>7. ASSUME NEW w \in Writers, NEW i \in Parts, Clean(w, i) PROVE TypeOK'
  BY <1>7, CleanEffect DEF Clean, TypeOK
<1>8. ASSUME NEW w \in Writers, Stop(w) PROVE TypeOK'
  BY <1>8, SettledEffect DEF Stop, TypeOK
<1>9. ASSUME NEW r \in Readers, Open(r) PROVE TypeOK'
  BY <1>9 DEF Open, TypeOK, ReaderState
<1>10. ASSUME NEW r \in Readers, NEW i \in Parts, ReadPart(r, i) PROVE TypeOK'
  BY <1>10, ReadPartEffect DEF ReadPart, TypeOK
<1>11. CASE CollectStart
  BY <1>11, CollectStartEffect DEF CollectStart, TypeOK
<1>12. CASE NextBatch
  BY <1>12, NextBatchEffect DEF NextBatch, TypeOK
<1>13. ASSUME NEW g \in Writers, NextGroup(g) PROVE TypeOK'
  BY <1>13, NextGroupEffect DEF NextGroup, ClearRetired, TypeOK
<1>14. CASE CheckVisible
  BY <1>14, CheckVisibleEffect DEF CheckVisible, TypeOK
<1>15. CASE CheckMarker
  BY <1>15, CheckMarkerEffect DEF CheckMarker, TypeOK
<1>16. ASSUME NEW i \in Parts, Retain(i) PROVE TypeOK'
  BY <1>16, TakeKeyEffect DEF Retain, TypeOK
<1>17. ASSUME NEW i \in Parts, DeletePart(i) PROVE TypeOK'
  BY <1>17, TakeKeyEffect DEF DeletePart, TypeOK
<1>18. CASE CollectEnd \/ CollectAbort \/ CollectCrash
  BY <1>18, NoPassEffect DEF CollectEnd, CollectAbort, CollectCrash, ClearRetired, TypeOK
<1>19. CASE Tick
  BY <1>19 DEF Tick, TypeOK
<1>20. CASE UNCHANGED vars
  BY <1>20 DEF vars, TypeOK
<1> QED
  BY <1>1, <1>2, <1>3, <1>4, <1>5, <1>6, <1>7, <1>8, <1>9, <1>10, <1>11, <1>12, <1>13,
     <1>14, <1>15, <1>16, <1>17, <1>18, <1>19, <1>20
     DEF Next, WriteStep, ReadStep, CollectStep

\* The stored state and the locals have their types, whatever fails.
THEOREM TypeCorrect == Spec => []TypeOK
<1>1. Init => TypeOK
  BY TypeInit
<1>2. TypeOK /\ [Next]_vars => TypeOK'
  BY TypeStep
<1> QED
  BY <1>1, <1>2, PTL DEF Spec

----------------------------------------------------------------------------
(* The steps of a writer.                                                  *)

\* A step of a call that has not returned leaves the rest as it was: what is
\* dead, marked or being read stays so.
LEMMA WriterKeeps ==
  ASSUME IInv, NEW w \in Writers, Others(w),
         wr[w].pc # "done", wr'[w].pc # "idle",
         wr[w].pc # "idle" => Same(w),
         Over(w) => Over(w)',
         UNCHANGED <<now, entry, retired, rd, gc>>,
         \A v \in Writers \ {w} : PartsOf(v)' = PartsOf(v)
  PROVE  EntryDone' /\ MarkersDead' /\ PassSafe' /\ ReadersSafe'
<1>1. /\ entry \in Writers \cup {Absent}
      /\ entry = w => Over(w) /\ LostReplies
  BY DenoKvAssumption DEF IInv, EntryDone, TypeOK
<1>2. \A v \in Writers : Visible(v)' <=> Visible(v)
  BY <1>1 DEF Visible, Others, Over, Same
<1>3. \A v \in Writers : Dead(v) => Dead(v)'
  BY <1>2 DEF Dead, Over, Others
<1>4. EntryDone'
  BY <1>1 DEF IInv, EntryDone, Others, Over
<1>5. MarkersDead'
  BY <1>3 DEF IInv, MarkersDead
<1>6. \A v \in Writers : wr[v].pc # "idle" => wr'[v].pc # "idle" /\ wr'[v].born = wr[v].born
  BY DEF Others, Same
<1>7. PassSafe'
  BY <1>3, <1>6 DEF IInv, PassSafe
<1>8. ReadersSafe'
  <2>1. \A v \in Writers : wr[v].pc = "done" =>
          wr'[v] = wr[v] /\ PartsOf(v)' = PartsOf(v)
    BY DEF Others
  <2> QED
    BY <1>2, <2>1 DEF IInv, ReadersSafe
<1> QED
  BY <1>4, <1>5, <1>7, <1>8

\* Nobody else's time runs, and nobody else's parts change.
LEMMA WriterKeepsOthers ==
  ASSUME IInv, NEW w \in Writers, Others(w),
         UNCHANGED <<now, entry, rd, gc>>,
         \A v \in Writers \ {w} : PartsOf(v)' = PartsOf(v)
  PROVE  /\ \A v \in Writers \ {w} :
              /\ wr'[v].pc = "writing" => wr'[v].op = "parts" /\ Parts \ wr'[v].left \subseteq PartsOf(v)'
              /\ wr'[v].pc = "committing" /\ wr'[v].op = "parts" => PartsOf(v)' = Parts
              /\ Visible(v)' /\ wr'[v].pc = "done" => PartsOf(v)' = Parts
         /\ \A v \in Writers \ {w} :
              /\ Active(v)' => now' - wr'[v].born <= MaxWrite
              /\ wr'[v].pc = "committing" => now' - wr'[v].stamp <= MaxCommit
         /\ \A r \in Readers :
              rd'[r].pc = "reading" => now' - rd'[r].since <= MaxRead /\ rd'[r].since <= now'
<1>1. \A v \in Writers \ {w} : wr'[v] = wr[v] /\ (Visible(v)' <=> Visible(v))
  BY DEF Others, Visible
<1> QED
  BY <1>1 DEF IInv, PartsStored, InTime, Active

\* A call begins with nothing stored and nothing published.
LEMMA BeginStep ==
  ASSUME IInv, NEW w \in Writers, NEW op \in Ops, Begin(w, op)
  PROVE  IInv'
<1>1. TypeOK'
  BY TypeStep DEF IInv, Next
<1>2. /\ wr[w].pc = "idle" /\ Others(w)
      /\ UNCHANGED <<now, entry, part, retired, rd, gc>>
  BY DEF Begin, Others, IInv, TypeOK
<1>3. /\ wr'[w].pc = IF op = "parts" THEN "writing" ELSE "committing"
      /\ wr'[w].op = op /\ wr'[w].born = now
      /\ wr'[w].stamp = IF op = "parts" THEN 0 ELSE now
      /\ wr'[w].left = IF op = "parts" THEN Parts ELSE {}
  BY DEF Begin, IInv, TypeOK
<1>4. wr'[w].pc # "idle" /\ wr[w].pc # "done" /\ ~Over(w) /\ entry # w
  BY <1>2, <1>3, DenoKvAssumption DEF Over, IInv, EntryDone
<1>5. \A v \in Writers \ {w} : PartsOf(v)' = PartsOf(v)
  BY <1>2 DEF PartsOf
<1>6. EntryDone' /\ MarkersDead' /\ PassSafe' /\ ReadersSafe'
  BY <1>2, <1>4, <1>5, WriterKeeps
<1>7. Started'
  BY <1>2, <1>4 DEF IInv, Started, TypeOK, Keys, Others, PassState
<1>8. PartsStored'
  <2>1. ~Visible(w)'
    BY <1>2, <1>4 DEF Visible
  <2> QED
    BY <1>2, <1>3, <1>4, <1>5, <2>1, WriterKeepsOthers DEF PartsStored
<1>9. InTime'
  <2>1. now \in Nat /\ MaxWrite \in Nat /\ MaxCommit \in Nat
    BY DenoKvAssumption DEF IInv, TypeOK
  <2>2. now' - wr'[w].born <= MaxWrite
    BY <1>2, <1>3, <2>1
  <2>3. wr'[w].pc = "committing" => now' - wr'[w].stamp <= MaxCommit
    BY <1>2, <1>3, <2>1
  <2> QED
    BY <1>2, <1>4, <1>5, <2>2, <2>3, WriterKeepsOthers DEF InTime
<1> QED
  BY <1>1, <1>6, <1>7, <1>8, <1>9 DEF IInv

\* A put stores a part of a generation that nobody can see yet.
LEMMA PutPartStep ==
  ASSUME IInv, NEW w \in Writers, NEW i \in Parts, PutPart(w, i)
  PROVE  IInv'
<1>1. TypeOK'
  BY TypeStep DEF IInv, Next, WriteStep
<1>2. /\ wr[w].pc = "writing" /\ part' = part \cup {<<w, i>>}
      /\ UNCHANGED <<now, entry, retired, rd, gc>>
  BY DEF PutPart
<1>3. Others(w) /\ Same(w) /\ wr'[w].pc = "writing" /\ wr'[w].left = wr[w].left \ {i}
  BY PutPartEffect DEF IInv
<1>4. wr'[w].pc # "idle" /\ wr[w].pc # "done" /\ ~Over(w) /\ entry # w
  BY <1>2, <1>3, DenoKvAssumption DEF Over, IInv, EntryDone
<1>5. /\ \A v \in Writers \ {w} : PartsOf(v)' = PartsOf(v)
      /\ PartsOf(w)' = PartsOf(w) \cup {i}
  BY <1>2 DEF PartsOf
<1>6. EntryDone' /\ MarkersDead' /\ PassSafe' /\ ReadersSafe'
  BY <1>2, <1>3, <1>4, <1>5, WriterKeeps
<1>7. Started'
  BY <1>2, <1>3, <1>4 DEF IInv, Started, TypeOK, Keys, Others, PassState
<1>8. PartsStored'
  <2>1. ~Visible(w)'
    BY <1>2, <1>4 DEF Visible
  <2>2. wr'[w].op = "parts" /\ Parts \ wr'[w].left \subseteq PartsOf(w)'
    BY <1>2, <1>3, <1>5 DEF IInv, PartsStored, Same
  <2> QED
    BY <1>2, <1>3, <1>4, <1>5, <2>1, <2>2, WriterKeepsOthers DEF PartsStored
<1>9. InTime'
  <2>1. now' - wr'[w].born <= MaxWrite
    BY <1>2, <1>3 DEF IInv, InTime, Active, Same
  <2> QED
    BY <1>2, <1>3, <1>4, <1>5, <2>1, WriterKeepsOthers DEF InTime
<1> QED
  BY <1>1, <1>6, <1>7, <1>8, <1>9 DEF IInv

\* A transaction is built only when every part of its generation is stored.
LEMMA PrepareStep ==
  ASSUME IInv, NEW w \in Writers, Prepare(w)
  PROVE  IInv'
<1>1. TypeOK'
  BY TypeStep DEF IInv, Next, WriteStep
<1>2. /\ wr[w].pc = "writing" /\ wr[w].left = {}
      /\ UNCHANGED <<now, entry, part, retired, rd, gc>>
  BY DEF Prepare
<1>3. Others(w) /\ Same(w) /\ wr'[w].pc = "committing" /\ wr'[w].stamp = now
  BY PrepareEffect DEF IInv
<1>4. wr'[w].pc # "idle" /\ wr[w].pc # "done" /\ ~Over(w) /\ entry # w
  BY <1>2, <1>3, DenoKvAssumption DEF Over, IInv, EntryDone
<1>5. \A v \in Writers : PartsOf(v)' = PartsOf(v)
  BY <1>2 DEF PartsOf
<1>6. EntryDone' /\ MarkersDead' /\ PassSafe' /\ ReadersSafe'
  BY <1>2, <1>3, <1>4, <1>5, WriterKeeps
<1>7. Started'
  BY <1>2, <1>3, <1>4 DEF IInv, Started, TypeOK, Keys, Others, PassState
<1>8. PartsStored'
  <2>1. ~Visible(w)'
    BY <1>2, <1>4 DEF Visible
  <2>2. PartsOf(w)' = Parts
    BY <1>2, <1>5 DEF IInv, PartsStored, PartsOf
  <2> QED
    BY <1>2, <1>3, <1>4, <1>5, <2>1, <2>2, WriterKeepsOthers DEF PartsStored
<1>9. InTime'
  <2>1. now' - wr'[w].born <= MaxWrite
    BY <1>2, <1>3 DEF IInv, InTime, Active, Same
  <2>2. now' - wr'[w].stamp <= MaxCommit
    BY <1>2, <1>3, DenoKvAssumption DEF IInv, TypeOK
  <2> QED
    BY <1>2, <1>3, <1>4, <1>5, <2>1, <2>2, WriterKeepsOthers DEF InTime
<1> QED
  BY <1>1, <1>6, <1>7, <1>8, <1>9 DEF IInv

\* The call ends without being applied, or goes on cleaning up after itself.
LEMMA EndStep ==
  ASSUME IInv, NEW w \in Writers,
         Reject(w) \/ Fail(w) \/ Stop(w) \/ \E i \in Parts : Clean(w, i)
  PROVE  IInv'
<1>1. TypeOK'
  BY TypeStep DEF IInv, Next, WriteStep
<1>2. /\ wr[w].pc \in {"writing", "committing", "cleaning"}
      /\ part' \subseteq part
      /\ \A v \in Writers \ {w} : PartsOf(v)' = PartsOf(v)
      /\ UNCHANGED <<now, entry, retired, rd, gc>>
  BY DEF Reject, Fail, Stop, Clean, PartsOf
<1>3. Others(w) /\ Same(w) /\ wr'[w].pc \in {"cleaning", "failed", "stopped"}
  BY EndEffect, SettledEffect, CleanEffect DEF IInv
<1>4. wr'[w].pc # "idle" /\ wr[w].pc # "done"
  BY <1>2, <1>3
<1>5. Over(w)' /\ ~Active(w)'
  BY <1>3 DEF Over, Active
<1>6. EntryDone' /\ MarkersDead' /\ PassSafe' /\ ReadersSafe'
  BY <1>2, <1>3, <1>4, <1>5, WriterKeeps
<1>7. Started'
  BY <1>2, <1>3, <1>4 DEF IInv, Started, TypeOK, Keys, Others, PassState
<1>8. PartsStored'
  BY <1>2, <1>3, WriterKeepsOthers DEF PartsStored
<1>9. InTime'
  BY <1>2, <1>3, <1>4, <1>5, WriterKeepsOthers DEF InTime
<1> QED
  BY <1>1, <1>6, <1>7, <1>8, <1>9 DEF IInv

\* The transaction is applied: the generation it supersedes is dead and dated.
LEMMA CommitStep ==
  ASSUME IInv, NEW w \in Writers, Commit(w)
  PROVE  IInv'
<1>1. TypeOK'
  BY TypeStep DEF IInv, Next, WriteStep
<1>2. /\ wr[w].pc = "committing" /\ entry' \in {w, Absent}
      /\ wr[w].op = "parts" => PartsOf(w) = Parts
      /\ \A g \in Writers : retired'[g] = IF Visible(g) THEN wr[w].stamp ELSE retired[g]
      /\ UNCHANGED <<now, part, rd, gc>>
  BY DEF Commit, IInv, PartsStored
<1>3. /\ Others(w) /\ Same(w) /\ Over(w)' /\ ~Active(w)' /\ wr'[w].pc # "idle"
      /\ ~LostReplies => wr'[w].pc = "done"
  BY SettledEffect DEF IInv, Over, Active
<1>4. entry # w /\ ~Over(w)
  BY <1>2, DenoKvAssumption DEF IInv, EntryDone, Over
<1>5. \A v \in Writers : PartsOf(v)' = PartsOf(v)
  BY <1>2 DEF PartsOf
<1>6. \A v \in Writers \ {w} : ~Visible(v)'
  BY <1>2, DenoKvAssumption DEF Visible
<1>7. \A v \in Writers : Dead(v) => Dead(v)' /\ v # w
  BY <1>3, <1>4, <1>6 DEF Dead, Over, Others
<1>8. \A v \in Writers : Visible(v) => Over(v) /\ v # w
  BY <1>4, DenoKvAssumption DEF Visible, IInv, EntryDone, Over
<1>9. EntryDone'
  BY <1>2, <1>3 DEF EntryDone
<1>10. Started'
  BY <1>2, <1>3 DEF IInv, Started, TypeOK, Keys, Others, PassState
<1>11. PartsStored'
  <2>1. wr'[w].op = "parts" => PartsOf(w)' = Parts
    BY <1>2, <1>3, <1>5 DEF Same
  <2>2. Visible(w)' => PartsOf(w)' = Parts
    BY <2>1 DEF Visible
  <2>3. \A v \in Writers \ {w} : wr'[v] = wr[v] /\ PartsOf(v)' = PartsOf(v)
    BY <1>3, <1>5 DEF Others
  <2> QED
    BY <1>3, <1>6, <2>2, <2>3 DEF IInv, PartsStored, Active
<1>12. MarkersDead'
  <2>1. \A v \in Writers : Visible(v) => Dead(v)'
    BY <1>3, <1>6, <1>8 DEF Dead, Over, Others
  <2> QED
    BY <1>2, <1>7, <2>1 DEF IInv, MarkersDead
<1>13. InTime'
  BY <1>2, <1>3 DEF IInv, InTime, Active, Others
<1>14. PassSafe'
  <2>1. \A v \in Writers : wr[v].pc # "idle" => wr'[v].pc # "idle" /\ wr'[v].born = wr[v].born
    BY <1>2, <1>3 DEF Others, Same
  <2> QED
    BY <1>2, <1>7, <2>1 DEF IInv, PassSafe
<1>15. ReadersSafe'
  <2> SUFFICES ASSUME Patient, NEW r \in Readers, rd[r].pc = "reading"
               PROVE  LET g == rd[r].gen IN
                      \/ Visible(g)'
                      \/ retired'[g] # Unmarked /\ rd[r].since <= retired'[g] + MaxCommit
    <3>1. \A v \in Writers : wr[v].pc = "done" => wr'[v] = wr[v]
      BY <1>2, <1>3 DEF Others
    <3> QED
      BY <1>2, <1>5, <3>1 DEF IInv, ReadersSafe
  <2> DEFINE g == rd[r].gen
  <2>1. g \in Writers
    BY DEF IInv, ReadersSafe
  <2>2. CASE Visible(g)
    <3>1. retired'[g] = wr[w].stamp
      BY <1>2, <2>1, <2>2
    <3>2. wr[w].stamp \in Nat
      BY DEF IInv, TypeOK, WriterState
    <3>3. now - wr[w].stamp <= MaxCommit /\ rd[r].since <= now
      BY <1>2 DEF IInv, InTime
    <3>4. rd[r].since \in Nat /\ now \in Nat /\ MaxCommit \in Nat
      BY DenoKvAssumption DEF IInv, TypeOK, ReaderState
    <3>5. rd[r].since <= wr[w].stamp + MaxCommit /\ wr[w].stamp # Unmarked
      BY <3>2, <3>3, <3>4 DEF Unmarked
    <3> QED
      BY <3>1, <3>5
  <2>3. CASE ~Visible(g)
    BY <1>2, <2>1, <2>3 DEF IInv, ReadersSafe
  <2> QED
    BY <2>2, <2>3
<1> QED
  BY <1>1, <1>9, <1>10, <1>11, <1>12, <1>13, <1>14, <1>15 DEF IInv

----------------------------------------------------------------------------
(* The steps of a reader.                                                  *)

LEMMA ReaderStep ==
  ASSUME IInv, NEW r \in Readers, Open(r) \/ \E i \in Parts : ReadPart(r, i)
  PROVE  IInv'
<1>1. TypeOK'
  BY TypeStep DEF IInv, Next, ReadStep
<1>2. UNCHANGED <<now, entry, part, retired, wr, gc>>
  BY DEF Open, ReadPart
<1>3. \A v \in Writers : /\ PartsOf(v)' = PartsOf(v)
                         /\ Visible(v)' <=> Visible(v)
                         /\ Dead(v)' <=> Dead(v)
                         /\ Active(v)' <=> Active(v)
  BY <1>2 DEF PartsOf, Visible, Dead, Over, Active
<1>4. EntryDone' /\ Started'
  BY <1>2 DEF IInv, EntryDone, Started, Over
<1>5. PartsStored' /\ MarkersDead' /\ PassSafe'
  BY <1>2, <1>3 DEF IInv, PartsStored, MarkersDead, PassSafe
<1>6. \A q \in Readers \ {r} : rd'[q] = rd[q]
  BY ReadPartEffect DEF Open, IInv, TypeOK
<1>7. /\ Patient => rd'[r].pc # "broken"
      /\ rd'[r].pc = "reading" =>
           \/ rd[r].pc = "reading" /\ rd'[r].gen = rd[r].gen /\ rd'[r].since = rd[r].since
           \/ rd'[r].gen = entry /\ entry # Absent /\ Visible(entry) /\ rd'[r].since = now
  <2>1. CASE Open(r)
    BY <2>1 DEF Open, IInv, TypeOK
  <2>2. ASSUME NEW i \in Parts, ReadPart(r, i)
        PROVE  /\ Patient => rd'[r].pc # "broken"
               /\ rd[r].pc = "reading"
               /\ rd'[r].pc = "reading" => rd'[r].gen = rd[r].gen /\ rd'[r].since = rd[r].since
    <3>1. rd[r].pc = "reading" /\ (Patient => <<rd[r].gen, i>> \in part)
      BY <2>2 DEF ReadPart, IInv, ReadersSafe, PartsOf
    <3> QED
      BY <2>2, <3>1, ReadPartEffect DEF IInv
  <2> QED
    BY <2>1, <2>2
<1>8. InTime'
  <2>1. /\ rd'[r].pc = "reading" => now' - rd'[r].since <= MaxRead
        /\ rd'[r].pc = "reading" => rd'[r].since <= now'
    BY <1>2, <1>7, DenoKvAssumption DEF IInv, InTime, TypeOK
  <2> QED
    BY <1>2, <1>3, <1>6, <2>1 DEF IInv, InTime
<1>9. ReadersSafe'
  <2>1. Patient /\ entry # Absent /\ Visible(entry) =>
          /\ entry \in Writers /\ wr[entry].pc = "done" /\ wr[entry].op = "parts"
          /\ PartsOf(entry) = Parts
          /\ ~(gc.reclaim /\ gc.gen = entry)
    BY DEF IInv, TypeOK, EntryDone, PartsStored, PassSafe, Dead, Visible, Patient
  <2> QED
    BY <1>2, <1>3, <1>6, <1>7, <2>1 DEF IInv, ReadersSafe
<1> QED
  BY <1>1, <1>4, <1>5, <1>8, <1>9 DEF IInv

----------------------------------------------------------------------------
(* The steps of a pass.                                                    *)

\* A pass only takes away: markers, and the parts of dead generations.
LEMMA PassKeeps ==
  ASSUME IInv, UNCHANGED <<now, entry, wr, rd>>,
         part' \subseteq part, gc'.listed \subseteq part \cup gc.listed,
         \A g \in Writers : retired'[g] \in {retired[g], Unmarked},
         \A g \in Writers : ~Dead(g) => PartsOf(g)' = PartsOf(g)
  PROVE  /\ EntryDone' /\ Started' /\ PartsStored' /\ MarkersDead' /\ InTime'
         /\ \A v \in Writers : (Visible(v)' <=> Visible(v)) /\ (Dead(v)' <=> Dead(v))
<1>1. \A v \in Writers : /\ Visible(v)' <=> Visible(v)
                         /\ Dead(v)' <=> Dead(v)
                         /\ Active(v)' <=> Active(v)
  BY DEF Visible, Dead, Over, Active
<1>2. EntryDone' /\ Started'
  BY DEF IInv, EntryDone, Started, Over
<1>3. PartsStored'
  <2>1. \A v \in Writers : wr[v].pc \in {"writing", "committing"} \/ Visible(v) => ~Dead(v)
    BY DEF Dead, Over
  <2> QED
    BY <1>1, <2>1 DEF IInv, PartsStored
<1>4. MarkersDead'
  BY <1>1 DEF IInv, MarkersDead
<1>5. InTime'
  BY <1>1 DEF IInv, InTime
<1> QED
  BY <1>1, <1>2, <1>3, <1>4, <1>5

\* What is being read is not reclaimed, so it keeps its parts and its marker.
LEMMA PassKeepsReaders ==
  ASSUME IInv, UNCHANGED <<now, entry, wr, rd>>,
         \A g \in Writers : ~(gc.reclaim /\ gc.gen = g) =>
           retired'[g] = retired[g] /\ PartsOf(g)' = PartsOf(g),
         \/ ~gc'.reclaim
         \/ gc'.reclaim = gc.reclaim /\ gc'.gen = gc.gen
  PROVE  ReadersSafe'
<1>1. \A v \in Writers : Visible(v)' <=> Visible(v)
  BY DEF Visible
<1> QED
  BY <1>1 DEF IInv, ReadersSafe

\* Steps that neither reclaim anything nor decide to.
LEMMA PassMoves ==
  ASSUME Timely, IInv, NextBatch \/ CollectStart \/ CheckVisible \/ \E i \in Parts : Retain(i)
  PROVE  IInv'
<1>1. TypeOK'
  BY TypeStep DEF IInv, Next, CollectStep
<1>2. UNCHANGED <<now, entry, part, retired, wr, rd>>
  BY DEF NextBatch, CollectStart, CheckVisible, Retain
<1>3. \A g \in Writers : PartsOf(g)' = PartsOf(g)
  BY <1>2 DEF PartsOf
<1>4. CASE NextBatch \/ \E i \in Parts : Retain(i)
  <2>1. /\ gc.pc = "scan" /\ gc'.pc = gc.pc /\ gc'.cutoff = gc.cutoff /\ gc'.gen = gc.gen
        /\ gc'.reclaim = gc.reclaim /\ gc'.listed \subseteq part \cup gc.listed
    BY <1>4, NextBatchEffect, TakeKeyEffect DEF IInv, NextBatch, Retain, NextKey
  <2>2. /\ EntryDone' /\ Started' /\ PartsStored' /\ MarkersDead' /\ InTime'
        /\ \A v \in Writers : Dead(v)' <=> Dead(v)
    BY <1>2, <1>3, <2>1, PassKeeps
  <2>3. PassSafe'
    BY <1>2, <2>1, <2>2 DEF IInv, PassSafe
  <2>4. ReadersSafe'
    BY <1>2, <1>3, <2>1, PassKeepsReaders
  <2> QED
    BY <1>1, <2>2, <2>3, <2>4 DEF IInv
<1>5. CASE CollectStart
  <2>1. /\ gc'.pc = "scan" /\ gc'.cutoff = now - MinAge /\ gc'.listed = part
        /\ gc'.reclaim = FALSE
    BY <1>5, CollectStartEffect DEF IInv
  <2>2. EntryDone' /\ Started' /\ PartsStored' /\ MarkersDead' /\ InTime'
    BY <1>2, <1>3, <2>1, PassKeeps
  <2>3. PassSafe'
    BY <1>2, <2>1, DenoKvAssumption DEF IInv, PassSafe, TypeOK
  <2>4. ReadersSafe'
    BY <1>2, <1>3, <2>1, PassKeepsReaders
  <2> QED
    BY <1>1, <2>2, <2>3, <2>4 DEF IInv
<1>6. CASE CheckVisible
  <2>1. /\ gc.pc = "visible" /\ gc'.pc = IF Visible(gc.gen) THEN "scan" ELSE "marker"
        /\ gc'.cutoff = gc.cutoff /\ gc'.gen = gc.gen
        /\ gc'.reclaim = gc.reclaim /\ gc'.listed = gc.listed
    BY <1>6, CheckVisibleEffect DEF IInv, CheckVisible
  <2>2. /\ EntryDone' /\ Started' /\ PartsStored' /\ MarkersDead' /\ InTime'
        /\ \A v \in Writers : Dead(v)' <=> Dead(v)
    BY <1>2, <1>3, <2>1, PassKeeps
  <2>3. /\ gc.gen \in Writers /\ wr[gc.gen].pc # "idle" /\ ~gc.reclaim
        /\ gc.cutoff <= now - MinAge
    BY <2>1 DEF IInv, PassSafe
  <2>4. ASSUME ~Visible(gc.gen)
        PROVE  Dead(gc.gen) \/ wr[gc.gen].born > gc.cutoff
    <3>1. CASE Active(gc.gen)
      <4>1. now - wr[gc.gen].born <= MaxWrite
        BY <2>3, <3>1 DEF IInv, InTime
      <4>2. /\ now \in Nat /\ wr[gc.gen].born \in Nat /\ gc.cutoff \in Int
            /\ MaxWrite \in Nat /\ MinAge \in Nat /\ MaxWrite < MinAge
        BY <2>3, DenoKvAssumption DEF IInv, TypeOK, WriterState, PassState, Timely
      <4> QED
        BY <2>3, <4>1, <4>2
    <3>2. CASE ~Active(gc.gen)
      BY <2>3, <2>4, <3>2 DEF Dead, Over, Active, IInv, TypeOK, WriterState
    <3> QED
      BY <3>1, <3>2
  <2>5. PassSafe'
    BY <1>2, <2>1, <2>2, <2>3, <2>4 DEF PassSafe
  <2>6. ReadersSafe'
    BY <1>2, <1>3, <2>1, PassKeepsReaders
  <2> QED
    BY <1>1, <2>2, <2>5, <2>6 DEF IInv
<1> QED
  BY <1>4, <1>5, <1>6

\* A group is reclaimed for its age, which no generation reaches that a writer
\* may yet publish or a reader may still need.
LEMMA CheckMarkerStep ==
  ASSUME IInv, CheckMarker
  PROVE  IInv'
<1>1. TypeOK'
  BY TypeStep DEF IInv, Next, CollectStep
<1>2. gc.pc = "marker" /\ UNCHANGED <<now, entry, part, retired, wr, rd>>
  BY DEF CheckMarker
<1>3. \A g \in Writers : PartsOf(g)' = PartsOf(g)
  BY <1>2 DEF PartsOf
<1>4. /\ gc'.pc = "scan" /\ gc'.cutoff = gc.cutoff /\ gc'.gen = gc.gen
      /\ gc'.listed = gc.listed
      /\ gc'.reclaim /\ retired[gc.gen] # Unmarked => retired[gc.gen] <= gc.cutoff
      /\ gc'.reclaim /\ retired[gc.gen] = Unmarked => wr[gc.gen].born <= gc.cutoff
  BY CheckMarkerEffect DEF IInv
<1>5. /\ EntryDone' /\ Started' /\ PartsStored' /\ MarkersDead' /\ InTime'
      /\ \A v \in Writers : (Visible(v)' <=> Visible(v)) /\ (Dead(v)' <=> Dead(v))
  BY <1>2, <1>3, <1>4, PassKeeps
<1>6. /\ gc.gen \in Writers
      /\ Dead(gc.gen) \/ wr[gc.gen].born > gc.cutoff
      /\ ~gc.reclaim /\ gc.cutoff <= now - MinAge
  BY <1>2 DEF IInv, PassSafe
<1>7. /\ gc.gen \in Writers /\ gc.cutoff \in Int /\ now \in Nat /\ wr[gc.gen].born \in Nat
      /\ MinAge \in Nat /\ MaxCommit \in Nat /\ MaxRead \in Nat
      /\ Patient => MaxCommit + MaxRead < MinAge
  BY <1>2, DenoKvAssumption DEF IInv, PassSafe, TypeOK, WriterState, PassState, Patient
<1>8. gc'.reclaim => Dead(gc.gen)
  <2>1. CASE retired[gc.gen] # Unmarked
    BY <1>7, <2>1 DEF IInv, MarkersDead
  <2>2. CASE retired[gc.gen] = Unmarked
    BY <1>4, <1>6, <1>7, <2>2
  <2> QED
    BY <2>1, <2>2
<1>9. PassSafe'
  BY <1>2, <1>4, <1>5, <1>6, <1>7, <1>8 DEF PassSafe
<1>10. ReadersSafe'
  <2>1. ASSUME Patient, NEW r \in Readers, rd[r].pc = "reading", rd[r].gen = gc.gen
        PROVE  gc'.reclaim => FALSE
    <3>1. CASE Visible(gc.gen)
      BY <1>8, <3>1 DEF Dead
    <3>2. CASE ~Visible(gc.gen)
      <4>1. retired[gc.gen] # Unmarked /\ rd[r].since <= retired[gc.gen] + MaxCommit
        BY <2>1, <3>2 DEF IInv, ReadersSafe
      <4>2. now - rd[r].since <= MaxRead
        BY <2>1 DEF IInv, InTime
      <4>3. rd[r].since \in Nat /\ retired[gc.gen] \in Int
        BY <1>7 DEF IInv, TypeOK, ReaderState, Unmarked
      <4>4. retired[gc.gen] > gc.cutoff
        BY <1>6, <1>7, <2>1, <4>1, <4>2, <4>3
      <4> QED
        BY <1>4, <1>7, <4>1, <4>3, <4>4
    <3> QED
      BY <3>1, <3>2
  <2> QED
    BY <1>2, <1>3, <1>4, <1>5, <2>1 DEF IInv, ReadersSafe
<1> QED
  BY <1>1, <1>5, <1>9, <1>10 DEF IInv

\* Going to the next group drops the marker of a reclaimed one only.
LEMMA NextGroupStep ==
  ASSUME IInv, NEW g \in Writers, NextGroup(g)
  PROVE  IInv'
<1>1. TypeOK'
  BY TypeStep DEF IInv, Next, CollectStep
<1>2. /\ gc.pc = "scan" /\ \E k \in gc.listed : k[1] = g
      /\ UNCHANGED <<now, entry, part, wr, rd>>
      /\ \A v \in Writers : \/ retired'[v] = retired[v]
                            \/ v = gc.gen /\ gc.reclaim /\ retired'[v] = Unmarked
  BY DEF NextGroup, ClearRetired
<1>3. \A v \in Writers : PartsOf(v)' = PartsOf(v)
  BY <1>2 DEF PartsOf
<1>4. /\ gc'.pc = "visible" /\ gc'.cutoff = gc.cutoff /\ gc'.gen = g
      /\ gc'.reclaim = FALSE /\ gc'.listed = gc.listed
  BY NextGroupEffect DEF IInv
<1>5. EntryDone' /\ Started' /\ PartsStored' /\ MarkersDead' /\ InTime'
  BY <1>2, <1>3, <1>4, PassKeeps
<1>6. PassSafe'
  BY <1>2, <1>4 DEF IInv, PassSafe, Started
<1>7. ReadersSafe'
  BY <1>2, <1>3, <1>4, PassKeepsReaders
<1> QED
  BY <1>1, <1>5, <1>6, <1>7 DEF IInv

\* A part is deleted only of a group found dead and old enough.
LEMMA DeletePartStep ==
  ASSUME IInv, NEW i \in Parts, DeletePart(i)
  PROVE  IInv'
<1>1. TypeOK'
  BY TypeStep DEF IInv, Next, CollectStep
<1>2. /\ gc.pc = "scan" /\ gc.reclaim /\ part' = part \ {<<gc.gen, i>>}
      /\ UNCHANGED <<now, entry, retired, wr, rd>>
  BY DEF DeletePart, NextKey
<1>3. gc.gen \in Writers /\ Dead(gc.gen)
  BY <1>2 DEF IInv, PassSafe
<1>4. \A v \in Writers : v # gc.gen => PartsOf(v)' = PartsOf(v)
  BY <1>2 DEF PartsOf
<1>5. /\ gc'.pc = gc.pc /\ gc'.cutoff = gc.cutoff /\ gc'.gen = gc.gen
      /\ gc'.reclaim = gc.reclaim /\ gc'.listed \subseteq gc.listed
  BY TakeKeyEffect DEF IInv
<1>6. /\ EntryDone' /\ Started' /\ PartsStored' /\ MarkersDead' /\ InTime'
      /\ \A v \in Writers : Dead(v)' <=> Dead(v)
  BY <1>2, <1>3, <1>4, <1>5, PassKeeps
<1>7. PassSafe'
  BY <1>2, <1>5, <1>6 DEF IInv, PassSafe
<1>8. ReadersSafe'
  BY <1>2, <1>4, <1>5, PassKeepsReaders
<1> QED
  BY <1>1, <1>6, <1>7, <1>8 DEF IInv

\* The pass is over, however it ends.
LEMMA PassEndStep ==
  ASSUME IInv, CollectEnd \/ CollectAbort \/ CollectCrash
  PROVE  IInv'
<1>1. TypeOK'
  BY TypeStep DEF IInv, Next, CollectStep
<1>2. /\ UNCHANGED <<now, entry, part, wr, rd>>
      /\ \A v \in Writers : \/ retired'[v] = retired[v]
                            \/ v = gc.gen /\ gc.reclaim /\ retired'[v] = Unmarked
  BY DEF CollectEnd, CollectAbort, CollectCrash, ClearRetired, IInv, TypeOK
<1>3. \A v \in Writers : PartsOf(v)' = PartsOf(v)
  BY <1>2 DEF PartsOf
<1>4. gc'.pc = "idle" /\ gc'.listed = {} /\ gc'.reclaim = FALSE
  BY DenoKvAssumption, NoPassEffect DEF CollectEnd, CollectAbort, CollectCrash
<1>5. EntryDone' /\ Started' /\ PartsStored' /\ MarkersDead' /\ InTime'
  BY <1>2, <1>3, <1>4, PassKeeps
<1>6. PassSafe'
  BY <1>4 DEF PassSafe
<1>7. ReadersSafe'
  BY <1>2, <1>3, <1>4, PassKeepsReaders
<1> QED
  BY <1>1, <1>5, <1>6, <1>7 DEF IInv

----------------------------------------------------------------------------
(* The invariant.                                                          *)

LEMMA TickStep ==
  ASSUME IInv, Tick
  PROVE  IInv'
<1>1. TypeOK'
  BY TypeStep DEF IInv, Next
<1>2. now' = now + 1 /\ now \in Nat /\ UNCHANGED <<entry, part, retired, wr, rd, gc>>
  BY DEF Tick, IInv, TypeOK
<1>3. \A v \in Writers : /\ PartsOf(v)' = PartsOf(v)
                         /\ Visible(v)' <=> Visible(v)
                         /\ Dead(v)' <=> Dead(v)
                         /\ Active(v)' <=> Active(v)
  BY <1>2 DEF PartsOf, Visible, Dead, Over, Active
<1>4. EntryDone' /\ Started'
  BY <1>2 DEF IInv, EntryDone, Started, Over
<1>5. PartsStored' /\ MarkersDead' /\ ReadersSafe'
  BY <1>2, <1>3 DEF IInv, PartsStored, MarkersDead, ReadersSafe
<1>6. InTime'
  <2>1. /\ \A w \in Writers : wr[w].born \in Nat /\ wr[w].stamp \in Nat
        /\ \A r \in Readers : rd[r].since \in Nat
        /\ MaxWrite \in Nat /\ MaxCommit \in Nat /\ MaxRead \in Nat
    BY DenoKvAssumption DEF IInv, TypeOK, WriterState, ReaderState
  <2>2. ASSUME NEW w \in Writers
        PROVE  /\ Active(w)' => now' - wr'[w].born <= MaxWrite
               /\ wr'[w].pc = "committing" => now' - wr'[w].stamp <= MaxCommit
    BY <1>2, <2>1 DEF Tick, Active
  <2>3. ASSUME NEW r \in Readers
        PROVE  rd'[r].pc = "reading" => now' - rd'[r].since <= MaxRead /\ rd'[r].since <= now'
    BY <1>2, <2>1 DEF Tick, IInv, InTime
  <2> QED
    BY <2>2, <2>3 DEF InTime
<1>7. PassSafe'
  <2>1. gc.cutoff \in Int /\ MinAge \in Nat
    BY DenoKvAssumption DEF IInv, TypeOK, PassState
  <2>2. gc.pc # "idle" => gc.cutoff <= now' - MinAge
    BY <1>2, <2>1 DEF IInv, PassSafe
  <2> QED
    BY <1>2, <1>3, <2>2 DEF IInv, PassSafe
<1> QED
  BY <1>1, <1>4, <1>5, <1>6, <1>7 DEF IInv

\* A step that changes nothing keeps the invariant.
LEMMA StutterStep ==
  ASSUME IInv, UNCHANGED vars
  PROVE  IInv'
BY DEF vars, IInv, TypeOK, EntryDone, Started, PartsStored, MarkersDead, InTime, PassSafe,
       ReadersSafe, Active, Dead, Over, Visible, PartsOf

\* The empty database satisfies the invariant.
LEMMA InitInv ==
  ASSUME Init
  PROVE  IInv
<1>1. TypeOK
  BY TypeInit
<1>2. EntryDone /\ Started /\ PartsStored /\ MarkersDead
  BY DenoKvAssumption DEF Init, NoPass, EntryDone, Started, PartsStored, MarkersDead, Visible
<1>3. InTime /\ PassSafe /\ ReadersSafe
  BY DEF Init, NoPass, InTime, Active, PassSafe, ReadersSafe
<1> QED
  BY <1>1, <1>2, <1>3 DEF IInv

\* Every step keeps the invariant, if the grace period outlives a write.
LEMMA NextInv ==
  ASSUME Timely, IInv, [Next]_vars
  PROVE  IInv'
<1>1. ASSUME NEW w \in Writers, \E op \in Ops : Begin(w, op) PROVE IInv'
  BY <1>1, BeginStep
<1>2. ASSUME NEW w \in Writers, WriteStep(w) PROVE IInv'
  BY <1>2, PutPartStep, PrepareStep, CommitStep, EndStep DEF WriteStep
<1>3. ASSUME NEW w \in Writers, Fail(w) \/ Stop(w) PROVE IInv'
  BY <1>3, EndStep
<1>4. ASSUME NEW r \in Readers, Open(r) \/ ReadStep(r) PROVE IInv'
  BY <1>4, ReaderStep DEF ReadStep
<1>5. CASE CollectStep \/ NextBatch \/ CollectAbort \/ CollectCrash
  BY <1>5, PassMoves, CheckMarkerStep, NextGroupStep, DeletePartStep, PassEndStep DEF CollectStep
<1> QED
  BY <1>1, <1>2, <1>3, <1>4, <1>5, TickStep, StutterStep DEF Next

\* If no write outlasts the grace period, the invariant holds, whatever fails,
\* is aborted or crashes and whichever replies are lost.
THEOREM InvariantHolds == ASSUME Timely PROVE Spec => []IInv
<1>1. Init => IInv
  BY InitInv
<1>2. IInv /\ [Next]_vars => IInv'
  BY NextInv
<1> QED
  BY <1>1, <1>2, PTL DEF Spec

\* With a grace period longer than any write, the body of a visible write that
\* was acknowledged is complete, also where replies are lost and other calls
\* delete what they have published.
THEOREM AcknowledgedComplete == ASSUME Timely PROVE Spec => []AcknowledgedBodyComplete
<1>1. IInv => AcknowledgedBodyComplete
  BY DEF IInv, PartsStored, AcknowledgedBodyComplete
<1> QED
  BY <1>1, InvariantHolds, PTL

\* If replies moreover arrive, the body of the visible manifest is complete in
\* every state, for any number of writers, parts and passes.
THEOREM BodyComplete == ASSUME Timely, ~LostReplies PROVE Spec => []VisibleBodyComplete
<1>1. IInv => VisibleBodyComplete
  BY DenoKvAssumption DEF IInv, PartsStored, EntryDone, Visible, VisibleBodyComplete
<1> QED
  BY <1>1, InvariantHolds, PTL

\* If the grace period is also longer than a read and the commit that
\* supersedes its generation, no reader misses a part.
THEOREM ReadsComplete == ASSUME Timely, Patient PROVE Spec => []ReadersComplete
<1>1. IInv => ReadersComplete
  BY DEF IInv, ReadersSafe, ReadersComplete
<1> QED
  BY <1>1, InvariantHolds, PTL

----------------------------------------------------------------------------
(* Markers are kept as long as there is anything left to collect.          *)

\* Times are in the order of what happened: a call begins after what it saw
\* was written, and a generation is retired after it was begun.
Chronicle ==
  \A w \in Writers :
    /\ wr[w].pc # "idle" => wr[w].born <= now
    /\ wr[w].pc = "committing" => wr[w].born <= wr[w].stamp
    /\ Active(w) /\ wr[w].saw # Absent =>
         wr[wr[w].saw].pc # "idle" /\ wr[wr[w].saw].born <= wr[w].born
    /\ retired[w] # Unmarked => wr[w].born <= retired[w]

Listed(g) == \A i \in PartsOf(g) : <<g, i>> \in gc.listed

\* The pass has still to decide about the generation, or is deleting it.
Pending(g) ==
  \/ g \notin gc.seen
  \/ g = gc.gen /\ (gc.pc \in {"visible", "marker"} \/ gc.reclaim)

\* The pass has before it every part of a generation it may reclaim: parts it
\* does not know of are younger than its cutoff.
ListingWhole ==
  gc.pc # "idle" =>
    /\ gc.gen # Absent => gc.gen \in gc.seen
    /\ \A k \in gc.listed : k[1] \notin gc.seen \/ k[1] = gc.gen
    /\ \A g \in Writers : Pending(g) => Listed(g) \/ wr[g].born > gc.cutoff
    /\ gc.reclaim => wr[gc.gen].born <= gc.cutoff

\* What was visible once is marked until its last part is gone.
MarkedToTheEnd ==
  \A g \in Writers : Superseded(g) /\ PartsOf(g) # {} => retired[g] # Unmarked

MInv == Chronicle /\ ListingWhole /\ MarkedToTheEnd

\* A writer's step keeps the chronicle if its own times are in order.
LEMMA ChronicleWriter ==
  ASSUME IInv, Chronicle, NEW w \in Writers, Others(w), now' = now,
         wr'[w].pc # "idle", wr'[w].born <= now,
         wr[w].pc # "idle" => wr'[w].born = wr[w].born,
         wr'[w].pc = "committing" => wr'[w].born <= wr'[w].stamp,
         Active(w)' /\ wr'[w].saw # Absent =>
           /\ wr'[w].saw \in Writers /\ wr[wr'[w].saw].pc # "idle"
           /\ wr[wr'[w].saw].born <= wr'[w].born,
         \A g \in Writers : retired'[g] # retired[g] =>
           wr[g].pc # "idle" /\ wr[g].born <= retired'[g]
  PROVE  Chronicle'
<1>1. \A v \in Writers : wr[v].pc # "idle" => wr'[v].pc # "idle" /\ wr'[v].born = wr[v].born
  BY DEF Others
<1>2. \A v \in Writers : Active(v) => wr[v].saw \in Writers \cup {Absent}
  BY DEF IInv, TypeOK, WriterState
<1>3. \A v \in Writers : retired[v] # Unmarked => wr[v].pc # "idle"
  BY DEF IInv, MarkersDead, Dead, Over
<1>4. ASSUME NEW v \in Writers
      PROVE  /\ wr'[v].pc # "idle" => wr'[v].born <= now'
             /\ wr'[v].pc = "committing" => wr'[v].born <= wr'[v].stamp
             /\ retired'[v] # Unmarked => wr'[v].born <= retired'[v]
  BY <1>1, <1>3 DEF Chronicle, Others
<1>5. ASSUME NEW v \in Writers, Active(v)', wr'[v].saw # Absent
      PROVE  wr'[wr'[v].saw].pc # "idle" /\ wr'[wr'[v].saw].born <= wr'[v].born
  <2>1. CASE v = w
    BY <1>1, <1>5, <2>1
  <2>2. CASE v # w
    <3>1. wr'[v] = wr[v] /\ Active(v) /\ wr[v].saw \in Writers
      BY <1>2, <1>5, <2>2 DEF Others, Active
    <3>2. wr[wr[v].saw].pc # "idle" /\ wr[wr[v].saw].born <= wr[v].born
      BY <1>5, <3>1 DEF Chronicle
    <3> QED
      BY <1>1, <3>1, <3>2
  <2> QED
    BY <2>1, <2>2
<1> QED
  BY <1>4, <1>5 DEF Chronicle

\* A writer adds parts only to a generation the pass is too old for.
LEMMA ListingWriter ==
  ASSUME IInv, ListingWhole, NEW w \in Writers, Others(w), gc' = gc,
         wr[w].pc # "idle" => wr'[w].born = wr[w].born,
         \A v \in Writers \ {w} : PartsOf(v)' = PartsOf(v),
         \/ PartsOf(w)' \subseteq PartsOf(w)
         \/ gc.pc # "idle" => wr'[w].born > gc.cutoff
  PROVE  ListingWhole'
<1>1. wr[w].pc = "idle" => PartsOf(w) = {} /\ ~(gc.reclaim /\ gc.gen = w)
  BY DEF IInv, Started, PartsOf, PassSafe, Dead, Over
<1>2. ASSUME gc.pc # "idle", NEW g \in Writers, Pending(g)'
      PROVE  Listed(g)' \/ wr'[g].born > gc.cutoff
  <2>1. Listed(g) \/ wr[g].born > gc.cutoff
    BY <1>2 DEF ListingWhole, Pending
  <2> QED
    BY <1>1, <1>2, <2>1 DEF Listed, Others
<1>3. gc.pc # "idle" /\ gc.reclaim => wr'[gc.gen].born <= gc.cutoff
  BY <1>1 DEF ListingWhole, Others, IInv, PassSafe
<1> QED
  BY <1>2, <1>3 DEF ListingWhole

\* A call that does not commit supersedes nothing.
LEMMA MarkedWriter ==
  ASSUME MarkedToTheEnd, NEW w \in Writers, Others(w), wr'[w].pc # "done",
         UNCHANGED <<entry, retired>>,
         \A v \in Writers \ {w} : PartsOf(v)' = PartsOf(v)
  PROVE  MarkedToTheEnd'
BY DEF MarkedToTheEnd, Superseded, Others

\* A call begins over the entry of the moment, which has no marker.
LEMMA BeginMarks ==
  ASSUME IInv, MInv, NEW w \in Writers, NEW op \in Ops, Begin(w, op)
  PROVE  MInv'
<1>1. /\ wr[w].pc = "idle" /\ Others(w)
      /\ UNCHANGED <<now, entry, part, retired, rd, gc>>
  BY DEF Begin, Others, IInv, TypeOK
<1>2. /\ wr'[w].pc \in {"writing", "committing"}
      /\ wr'[w].born = now /\ wr'[w].saw = entry
      /\ wr'[w].pc = "committing" => wr'[w].stamp = now
  BY DEF Begin, IInv, TypeOK
<1>3. \A v \in Writers : PartsOf(v)' = PartsOf(v)
  BY <1>1 DEF PartsOf
<1>4. now \in Nat
  BY DEF IInv, TypeOK
<1>5. entry # Absent =>
        entry \in Writers /\ wr[entry].pc # "idle" /\ wr[entry].born <= now
  BY DEF IInv, TypeOK, EntryDone, Over, MInv, Chronicle
<1>6. Chronicle'
  BY <1>1, <1>2, <1>4, <1>5, ChronicleWriter DEF MInv
<1>7. ListingWhole' /\ MarkedToTheEnd'
  BY <1>1, <1>2, <1>3, ListingWriter, MarkedWriter DEF MInv
<1> QED
  BY <1>6, <1>7 DEF MInv

\* Parts are put while the call is younger than the grace period.
LEMMA PutPartMarks ==
  ASSUME Timely, IInv, MInv, NEW w \in Writers, NEW i \in Parts, PutPart(w, i)
  PROVE  MInv'
<1>1. /\ wr[w].pc = "writing" /\ part' = part \cup {<<w, i>>}
      /\ UNCHANGED <<now, entry, retired, rd, gc>>
  BY DEF PutPart
<1>2. Others(w) /\ Same(w) /\ wr'[w].pc = "writing" /\ wr'[w].saw = wr[w].saw
  BY PutPartEffect DEF IInv
<1>3. \A v \in Writers \ {w} : PartsOf(v)' = PartsOf(v)
  BY <1>1 DEF PartsOf
<1>4. Active(w) /\ wr[w].pc # "idle" /\ wr[w].saw \in Writers \cup {Absent}
  BY <1>1 DEF Active, IInv, TypeOK, WriterState
<1>5. gc.pc # "idle" => wr[w].born > gc.cutoff
  <2>1. now - wr[w].born <= MaxWrite
    BY <1>4 DEF IInv, InTime
  <2>2. gc.pc # "idle" => gc.cutoff <= now - MinAge
    BY DEF IInv, PassSafe
  <2>3. now \in Nat /\ wr[w].born \in Nat /\ gc.cutoff \in Int
    BY DEF IInv, TypeOK, WriterState, PassState
  <2> QED
    BY <2>1, <2>2, <2>3, DenoKvAssumption DEF Timely
<1>6. Chronicle'
  BY <1>1, <1>2, <1>4, ChronicleWriter DEF MInv, Chronicle, Same
<1>7. ListingWhole' /\ MarkedToTheEnd'
  BY <1>1, <1>2, <1>3, <1>5, ListingWriter, MarkedWriter DEF MInv, Same
<1> QED
  BY <1>6, <1>7 DEF MInv

\* The retirement time is taken after the call has begun.
LEMMA PrepareMarks ==
  ASSUME IInv, MInv, NEW w \in Writers, Prepare(w)
  PROVE  MInv'
<1>1. wr[w].pc = "writing" /\ UNCHANGED <<now, entry, part, retired, rd, gc>>
  BY DEF Prepare
<1>2. /\ Others(w) /\ Same(w) /\ wr'[w].pc = "committing"
      /\ wr'[w].stamp = now /\ wr'[w].saw = wr[w].saw
  BY PrepareEffect DEF IInv
<1>3. \A v \in Writers : PartsOf(v)' = PartsOf(v)
  BY <1>1 DEF PartsOf
<1>4. Active(w) /\ wr[w].pc # "idle" /\ wr[w].saw \in Writers \cup {Absent}
  BY <1>1 DEF Active, IInv, TypeOK, WriterState
<1>5. Chronicle'
  BY <1>1, <1>2, <1>4, ChronicleWriter DEF MInv, Chronicle, Same
<1>6. ListingWhole' /\ MarkedToTheEnd'
  BY <1>1, <1>2, <1>3, ListingWriter, MarkedWriter DEF MInv, Same
<1> QED
  BY <1>5, <1>6 DEF MInv

\* A call that ends unapplied supersedes nothing.
LEMMA EndMarks ==
  ASSUME IInv, MInv, NEW w \in Writers,
         Reject(w) \/ Fail(w) \/ Stop(w) \/ \E i \in Parts : Clean(w, i)
  PROVE  MInv'
<1>1. /\ wr[w].pc \in {"writing", "committing", "cleaning"}
      /\ PartsOf(w)' \subseteq PartsOf(w)
      /\ \A v \in Writers \ {w} : PartsOf(v)' = PartsOf(v)
      /\ UNCHANGED <<now, entry, retired, rd, gc>>
  BY DEF Reject, Fail, Stop, Clean, PartsOf
<1>2. Others(w) /\ Same(w) /\ wr'[w].pc \in {"cleaning", "failed", "stopped"}
  BY EndEffect, SettledEffect, CleanEffect DEF IInv
<1>3. Chronicle'
  BY <1>1, <1>2, ChronicleWriter DEF MInv, Chronicle, Same, Active
<1>4. ListingWhole' /\ MarkedToTheEnd'
  BY <1>1, <1>2, ListingWriter, MarkedWriter DEF MInv, Same
<1> QED
  BY <1>3, <1>4 DEF MInv

\* What a commit supersedes was begun before the call that commits.
LEMMA CommitMarks ==
  ASSUME IInv, MInv, NEW w \in Writers, Commit(w)
  PROVE  MInv'
<1>1. /\ wr[w].pc = "committing" /\ entry = wr[w].saw
      /\ entry' = IF wr[w].op = "delete" THEN Absent ELSE w
      /\ \A g \in Writers : retired'[g] = IF Visible(g) THEN wr[w].stamp ELSE retired[g]
      /\ UNCHANGED <<now, part, rd, gc>>
  BY DEF Commit
<1>2. Others(w) /\ Same(w) /\ Over(w)' /\ ~Active(w)' /\ wr'[w].pc \notin {"idle", "committing"}
  BY SettledEffect DEF IInv, Over, Active
<1>3. \A v \in Writers : PartsOf(v)' = PartsOf(v)
  BY <1>1 DEF PartsOf
<1>4. \A g \in Writers : Visible(g) => wr[g].pc # "idle" /\ wr[g].born <= wr[w].stamp
  <2>1. ASSUME NEW g \in Writers, Visible(g)
        PROVE  wr[g].pc # "idle" /\ wr[g].born <= wr[w].stamp
    <3>1. Active(w) /\ wr[w].saw = g /\ g # Absent
      BY <1>1, <2>1, DenoKvAssumption DEF Active, Visible
    <3>2. wr[g].pc # "idle" /\ wr[g].born <= wr[w].born /\ wr[w].born <= wr[w].stamp
      BY <1>1, <3>1 DEF MInv, Chronicle
    <3>3. wr[g].born \in Nat /\ wr[w].born \in Nat /\ wr[w].stamp \in Nat
      BY DEF IInv, TypeOK, WriterState
    <3> QED
      BY <3>2, <3>3
  <2> QED
    BY <2>1
<1>5. Chronicle'
  <2>1. wr'[w].born = wr[w].born /\ wr[w].born <= now
    BY <1>1, <1>2 DEF Same, MInv, Chronicle
  <2> QED
    BY <1>1, <1>2, <1>4, <2>1, ChronicleWriter DEF MInv
<1>6. ListingWhole'
  BY <1>1, <1>2, <1>3, ListingWriter DEF MInv, Same
<1>7. MarkedToTheEnd'
  <2>1. ASSUME NEW g \in Writers, Superseded(g)', PartsOf(g)' # {}
        PROVE  retired'[g] # Unmarked
    <3>1. wr[w].stamp \in Nat
      BY DEF IInv, TypeOK, WriterState
    <3>2. g # w
      BY <1>1, <1>2, <2>1 DEF Superseded, Same, Ops
    <3>3. wr'[g] = wr[g] /\ PartsOf(g) # {}
      BY <1>2, <1>3, <2>1, <3>2 DEF Others
    <3> QED
      BY <1>1, <2>1, <3>1, <3>3 DEF Superseded, Visible, MInv, MarkedToTheEnd, Unmarked
  <2> QED
    BY <2>1 DEF MarkedToTheEnd
<1> QED
  BY <1>5, <1>6, <1>7 DEF MInv

\* When the marker of a reclaimed generation goes, its last part has gone.
LEMMA ReclaimedIsGone ==
  ASSUME IInv, ListingWhole, gc.reclaim, Group = {} \/ gc.listed = {}
  PROVE  gc.gen \in Writers /\ PartsOf(gc.gen) = {}
<1>1. gc.pc = "scan" /\ gc.gen \in Writers
  BY DEF IInv, PassSafe
<1>2. wr[gc.gen].born \in Nat /\ gc.cutoff \in Int
  BY <1>1 DEF IInv, TypeOK, WriterState, PassState
<1>3. Listed(gc.gen)
  BY <1>1, <1>2 DEF ListingWhole, Pending
<1>4. \A i \in PartsOf(gc.gen) : <<gc.gen, i>> \in Group
  BY <1>3 DEF Listed, Group
<1> QED
  BY <1>1, <1>4 DEF Group

\* A pass takes away the markers only of what it has deleted.
LEMMA PassMarks ==
  ASSUME IInv, MInv, UNCHANGED <<now, entry, wr, rd>>,
         \A g \in Writers : PartsOf(g)' \subseteq PartsOf(g),
         \A g \in Writers : retired'[g] # retired[g] =>
           retired'[g] = Unmarked /\ PartsOf(g) = {}
  PROVE  Chronicle' /\ MarkedToTheEnd'
<1>1. \A w \in Writers : Active(w)' <=> Active(w)
  BY DEF Active
<1>2. Chronicle'
  BY <1>1 DEF MInv, Chronicle
<1>3. MarkedToTheEnd'
  BY DEF MInv, MarkedToTheEnd, Superseded
<1> QED
  BY <1>2, <1>3

\* Whatever batch comes next, nothing is missing that is left to decide about.
LEMMA NextBatchLists ==
  ASSUME IInv, ListingWhole, NextBatch
  PROVE  ListingWhole'
<1>1. gc.pc = "scan" /\ UNCHANGED <<part, wr>>
  BY DEF NextBatch
<1>2. /\ gc'.pc = gc.pc /\ gc'.cutoff = gc.cutoff /\ gc'.gen = gc.gen
      /\ gc'.reclaim = gc.reclaim /\ gc'.seen = gc.seen /\ gc'.listed \subseteq part
      /\ \A k \in part : k \in gc'.listed <=>
           \/ k[1] \notin gc.seen
           \/ k[1] = gc.gen /\ \E j \in gc.listed : j[1] = gc.gen /\ j[2] <= k[2]
  BY NextBatchEffect DEF IInv
<1>3. ASSUME NEW g \in Writers, Pending(g), Listed(g)
      PROVE  Listed(g)'
  <2>1. ASSUME NEW i \in Parts, <<g, i>> \in part
        PROVE  <<g, i>> \in gc'.listed
    <3>1. <<g, i>> \in gc.listed /\ i <= i
      BY <1>3, <2>1, DenoKvAssumption DEF Listed, PartsOf
    <3>2. g \notin gc.seen \/ g = gc.gen
      BY <1>3 DEF Pending
    <3> QED
      BY <1>2, <2>1, <3>1, <3>2
  <2> QED
    BY <1>1, <2>1 DEF Listed, PartsOf
<1>4. \A g \in Writers : Pending(g)' => Pending(g)
  BY <1>2 DEF Pending
<1> QED
  BY <1>1, <1>2, <1>3, <1>4 DEF ListingWhole

\* Retain and DeletePart go on with the group.
LEMMA TakeKeyLists ==
  ASSUME IInv, ListingWhole, NEW i \in Parts, Retain(i) \/ DeletePart(i)
  PROVE  ListingWhole'
<1>1. /\ gc.pc = "scan" /\ <<gc.gen, i>> \in Group /\ UNCHANGED wr
      /\ \/ ~gc.reclaim /\ part' = part
         \/ part' = part \ {<<gc.gen, i>>}
  BY DEF Retain, DeletePart, NextKey
<1>2. /\ gc'.pc = gc.pc /\ gc'.cutoff = gc.cutoff /\ gc'.gen = gc.gen
      /\ gc'.reclaim = gc.reclaim /\ gc'.seen = gc.seen
      /\ gc'.listed = gc.listed \ {<<gc.gen, i>>}
  BY TakeKeyEffect DEF IInv
<1>3. gc.gen \in Writers /\ gc.gen \in gc.seen
  <2>1. gc.listed \subseteq Keys
    BY DEF IInv, TypeOK, PassState
  <2>2. gc.gen \in Writers
    BY <1>1, <2>1 DEF Group, Keys
  <2> QED
    BY <1>1, <2>2, DenoKvAssumption DEF ListingWhole
<1>4. ASSUME NEW g \in Writers, Pending(g)', Listed(g)
      PROVE  Listed(g)'
  <2>1. g # gc.gen \/ gc.reclaim
    BY <1>1, <1>2, <1>3, <1>4 DEF Pending
  <2> QED
    BY <1>1, <1>2, <1>4, <2>1 DEF Listed, PartsOf
<1>5. \A g \in Writers : Pending(g)' => Pending(g)
  BY <1>2 DEF Pending
<1> QED
  BY <1>1, <1>2, <1>4, <1>5 DEF ListingWhole

\* Opening a group, and the two looks at it.
LEMMA DecisionLists ==
  ASSUME IInv, MInv, CheckVisible \/ CheckMarker \/ \E g \in Writers : NextGroup(g)
  PROVE  ListingWhole'
<1>1. UNCHANGED <<part, wr>> /\ gc.pc # "idle"
  BY DEF CheckVisible, CheckMarker, NextGroup
<1>2. ASSUME gc'.listed = gc.listed, NEW g \in Writers, Listed(g) \/ wr[g].born > gc.cutoff,
             gc'.cutoff = gc.cutoff
      PROVE  Listed(g)' \/ wr'[g].born > gc'.cutoff
  BY <1>1, <1>2 DEF Listed, PartsOf
<1>3. ListingWhole
  BY DEF MInv
<1>4. CASE CheckVisible
  <2>1. /\ gc.pc = "visible" /\ gc'.pc \in {"scan", "marker"}
        /\ gc'.cutoff = gc.cutoff /\ gc'.gen = gc.gen
        /\ gc'.reclaim = gc.reclaim /\ gc'.listed = gc.listed /\ gc'.seen = gc.seen
    BY <1>4, CheckVisibleEffect DEF CheckVisible, IInv
  <2>2. \A g \in Writers : Pending(g)' => Pending(g)
    BY <2>1 DEF Pending
  <2> QED
    BY <1>1, <1>2, <1>3, <2>1, <2>2 DEF ListingWhole
<1>5. CASE CheckMarker
  <2>1. /\ gc.pc = "marker" /\ gc'.pc = "scan"
        /\ gc'.cutoff = gc.cutoff /\ gc'.gen = gc.gen
        /\ gc'.listed = gc.listed /\ gc'.seen = gc.seen
        /\ gc'.reclaim /\ retired[gc.gen] # Unmarked => retired[gc.gen] <= gc.cutoff
        /\ gc'.reclaim /\ retired[gc.gen] = Unmarked => wr[gc.gen].born <= gc.cutoff
    BY <1>5, CheckMarkerEffect DEF CheckMarker, IInv
  <2>2. \A g \in Writers : Pending(g)' => Pending(g)
    BY <2>1 DEF Pending
  <2>3. gc'.reclaim => wr[gc.gen].born <= gc.cutoff
    <3>1. gc.gen \in Writers
      BY <2>1 DEF IInv, PassSafe
    <3>2. retired[gc.gen] # Unmarked => wr[gc.gen].born <= retired[gc.gen]
      BY <3>1 DEF MInv, Chronicle
    <3>3. wr[gc.gen].born \in Nat /\ gc.cutoff \in Int /\ retired[gc.gen] \in Int
      BY <3>1 DEF IInv, TypeOK, WriterState, PassState, Unmarked
    <3> QED
      BY <2>1, <3>2, <3>3
  <2> QED
    BY <1>1, <1>2, <1>3, <2>1, <2>2, <2>3 DEF ListingWhole
<1>6. ASSUME NEW g \in Writers, NextGroup(g)
      PROVE  ListingWhole'
  <2>1. /\ gc.pc = "scan" /\ Group = {} /\ \E k \in gc.listed : k[1] = g
        /\ gc'.pc = "visible" /\ gc'.cutoff = gc.cutoff /\ gc'.gen = g
        /\ gc'.reclaim = FALSE /\ gc'.listed = gc.listed /\ gc'.seen = gc.seen \cup {g}
    BY <1>6, NextGroupEffect DEF NextGroup, IInv
  <2>2. \A k \in gc.listed : k[1] \notin gc.seen
    BY <1>3, <2>1 DEF ListingWhole, Group
  <2>3. Pending(g) /\ \A h \in Writers : Pending(h)' => Pending(h)
    BY <2>1, <2>2 DEF Pending
  <2>4. \A k \in gc'.listed : k[1] \notin gc'.seen \/ k[1] = gc'.gen
    BY <2>1, <2>2
  <2> QED
    BY <1>1, <1>2, <1>3, <2>1, <2>3, <2>4 DEF ListingWhole
<1> QED
  BY <1>4, <1>5, <1>6

\* A pass drops a marker only when it has deleted the last part of its group.
LEMMA CollectMarks ==
  ASSUME IInv, MInv, CollectStep \/ NextBatch \/ CollectAbort \/ CollectCrash
  PROVE  MInv'
<1>1. /\ UNCHANGED <<now, entry, wr, rd>>
      /\ \A g \in Writers : PartsOf(g)' \subseteq PartsOf(g)
  BY DEF CollectStep, CollectStart, CheckVisible, CheckMarker, CollectEnd, NextGroup, Retain,
         DeletePart, NextBatch, CollectAbort, CollectCrash, PartsOf
<1>2. \A g \in Writers : retired'[g] # retired[g] =>
        retired'[g] = Unmarked /\ PartsOf(g) = {}
  <2>1. CASE UNCHANGED retired
    BY <2>1
  <2>2. CASE ClearRetired /\ (Group = {} \/ gc.listed = {})
    BY <2>2, ReclaimedIsGone DEF ClearRetired, MInv
  <2> QED
    BY <2>1, <2>2 DEF CollectStep, CollectStart, CheckVisible, CheckMarker, CollectEnd,
       NextGroup, Retain, DeletePart, NextBatch, CollectAbort, CollectCrash
<1>3. Chronicle' /\ MarkedToTheEnd'
  BY <1>1, <1>2, PassMarks
<1>4. ListingWhole'
  <2>1. CASE CollectStart
    <3>1. /\ gc'.listed = part /\ part' = part
          /\ gc'.reclaim = FALSE /\ gc'.gen = Absent /\ gc'.seen = {}
      BY <2>1, CollectStartEffect DEF IInv, CollectStart
    <3> QED
      BY <3>1 DEF ListingWhole, Listed, PartsOf
  <2>2. CASE CollectEnd \/ CollectAbort \/ CollectCrash
    <3>1. gc'.pc = "idle"
      BY <2>2, NoPassEffect, DenoKvAssumption DEF CollectEnd, CollectAbort, CollectCrash
    <3> QED
      BY <3>1 DEF ListingWhole
  <2> QED
    BY <2>1, <2>2, NextBatchLists, TakeKeyLists, DecisionLists DEF MInv, CollectStep
<1> QED
  BY <1>3, <1>4 DEF MInv

\* Every step keeps what the markers promise, if the grace period outlives a write.
LEMMA NextMarks ==
  ASSUME Timely, IInv, MInv, [Next]_vars
  PROVE  MInv'
<1>1. ASSUME NEW w \in Writers, \E op \in Ops : Begin(w, op) PROVE MInv'
  BY <1>1, BeginMarks
<1>2. ASSUME NEW w \in Writers, WriteStep(w) \/ Fail(w) \/ Stop(w) PROVE MInv'
  BY <1>2, PutPartMarks, PrepareMarks, CommitMarks, EndMarks DEF WriteStep
<1>3. CASE CollectStep \/ NextBatch \/ CollectAbort \/ CollectCrash
  BY <1>3, CollectMarks
<1>4. ASSUME UNCHANGED <<entry, part, retired, wr, gc>>, now' \in Nat, now <= now'
      PROVE  MInv'
  <2>1. now \in Nat /\ \A w \in Writers : wr[w].born \in Nat
    BY DEF IInv, TypeOK, WriterState
  <2>2. Chronicle'
    BY <1>4, <2>1 DEF MInv, Chronicle, Active
  <2>3. ListingWhole' /\ MarkedToTheEnd'
    BY <1>4 DEF MInv, ListingWhole, Listed, Pending, PartsOf, MarkedToTheEnd, Superseded
  <2> QED
    BY <2>2, <2>3 DEF MInv
<1>5. now \in Nat
  BY DEF IInv, TypeOK
<1>6. ASSUME NEW r \in Readers, Open(r) \/ ReadStep(r) PROVE MInv'
  <2>1. UNCHANGED <<now, entry, part, retired, wr, gc>>
    BY <1>6 DEF Open, ReadStep, ReadPart
  <2> QED
    BY <1>4, <1>5, <2>1
<1>7. CASE Tick \/ UNCHANGED vars
  BY <1>4, <1>5, <1>7 DEF Tick, vars
<1> QED
  BY <1>1, <1>2, <1>3, <1>6, <1>7 DEF Next

\* The empty database needs no marker.
LEMMA InitMarks == Init => MInv
<1> SUFFICES ASSUME Init PROVE MInv
  OBVIOUS
<1>1. \A w \in Writers : wr[w].pc = "idle" /\ retired[w] = Unmarked
  BY DEF Init
<1>2. gc.pc = "idle"
  BY NoPassEffect, DenoKvAssumption DEF Init
<1> QED
  BY <1>1, <1>2 DEF MInv, Chronicle, Active, ListingWhole, MarkedToTheEnd, Superseded

\* If no write outlasts the grace period, a superseded generation keeps its
\* marker until its last part is deleted, through any number of passes that are
\* truncated, aborted or broken off, and what is visible has none.
THEOREM SupersededStaysMarked == ASSUME Timely PROVE Spec => []SupersededIsMarked
<1>1. Init => IInv /\ MInv
  BY InitInv, InitMarks
<1>2. IInv /\ MInv /\ [Next]_vars => (IInv /\ MInv)'
  BY NextInv, NextMarks
<1>3. IInv /\ MInv => SupersededIsMarked
  BY DEF IInv, MInv, MarkedToTheEnd, MarkersDead, Dead, SupersededIsMarked
<1> QED
  BY <1>1, <1>2, <1>3, PTL DEF Spec

----------------------------------------------------------------------------
(* The partitioned file implements the atomic file.                        *)

\* A deletion leaves no entry behind.
EntryKept == entry # Absent => wr[entry].op # "delete"

\* Whoever is over has forgotten what it saw.
CleansBlind == \A w \in Writers : Over(w) => wr[w].saw = Absent

FileInv == IInv /\ EntryKept /\ CleansBlind

BarPc(pc) ==
  CASE pc \in {"writing", "committing"} -> "open"
    [] pc \in {"cleaning", "failed", "stopped"} -> "failed"
    [] OTHER -> pc

BarOf(w) == [pc |-> BarPc(wr[w].pc), saw |-> wr[w].saw]

\* The content of the file is what its entry names.
ContentCurrent == LostReplies \/ contentBar = entry

\* What the entry names is whole, so the content of the file is the entry.
LEMMA ContentIsEntry == FileInv => ContentCurrent
<1> SUFFICES ASSUME IInv, EntryKept, ~LostReplies
             PROVE  contentBar = entry
  BY DEF FileInv, ContentCurrent
<1>1. CASE entry = Absent
  BY <1>1 DEF contentBar
<1>2. CASE entry # Absent
  <2>1. entry \in Writers /\ wr[entry].op \in {"parts", "inline"} /\ wr[entry].pc = "done"
    BY <1>2 DEF IInv, TypeOK, WriterState, Ops, EntryDone, EntryKept
  <2>2. wr[entry].op = "parts" => PartsOf(entry) = Parts
    BY <2>1 DEF IInv, PartsStored, Visible
  <2> QED
    BY <2>1, <2>2 DEF contentBar
<1> QED
  BY <1>1, <1>2

\* A step of one call moves its part of the mapped state only.
LEMMA WriteBarMoves ==
  ASSUME NEW w \in Writers, Others(w)
  PROVE  writeBar' = [writeBar EXCEPT ![w] = BarOf(w)']
<1>1. writeBar = [v \in Writers |-> BarOf(v)]
  BY DEF writeBar, BarOf, BarPc
<1>2. writeBar' = [v \in Writers |-> BarOf(v)']
  BY DEF writeBar, BarOf, BarPc
<1>3. \A v \in Writers \ {w} : BarOf(v)' = BarOf(v)
  BY DEF Others, BarOf
<1> QED
  BY <1>1, <1>2, <1>3

\* The mapped call of a writer is its place and what it saw.
LEMMA WriteBarAt ==
  ASSUME NEW w \in Writers
  PROVE  /\ writeBar[w] = BarOf(w)
         /\ writeBar[w].pc = BarPc(wr[w].pc) /\ writeBar[w].saw = wr[w].saw
BY DEF writeBar, BarOf, BarPc

\* A step that does not move the mapped call of its writer moves none.
LEMMA WriteBarStays ==
  ASSUME NEW w \in Writers, Others(w), BarOf(w)' = BarOf(w)
  PROVE  writeBar' = writeBar
<1>1. writeBar' = [writeBar EXCEPT ![w] = BarOf(w)]
  BY WriteBarMoves
<1>2. writeBar = [v \in Writers |-> BarOf(v)]
  BY DEF writeBar, BarOf, BarPc
<1> QED
  BY <1>1, <1>2

\* A step of one reader moves its mapped call only.
LEMMA ReadBarMoves ==
  ASSUME NEW r \in Readers, \A q \in Readers \ {r} : rd'[q] = rd[q]
  PROVE  /\ readBar' = [readBar EXCEPT ![r] = [pc |-> rd'[r].pc, gen |-> rd'[r].gen]]
         /\ readBar[r] = [pc |-> rd[r].pc, gen |-> rd[r].gen]
BY DEF readBar

----------------------------------------------------------------------------
(* Every step of the code is one of the atomic file, or none.              *)

\* A call starts from the content it saw.
LEMMA BeginMaps ==
  ASSUME IInv, contentBar = entry, contentBar' = entry',
         NEW w \in Writers, NEW op \in Ops, Begin(w, op)
  PROVE  A!Begin(w)
<1>1. /\ wr[w].pc = "idle" /\ Others(w)
      /\ wr'[w].pc \in {"writing", "committing"} /\ wr'[w].saw = entry
      /\ UNCHANGED <<entry, rd>>
  BY DEF Begin, Others, IInv, TypeOK
<1>2. writeBar[w].pc = "idle"
  BY <1>1, WriteBarAt DEF BarPc
<1>3. BarOf(w)' = [pc |-> "open", saw |-> contentBar]
  BY <1>1 DEF BarOf, BarPc
<1>4. writeBar' = [writeBar EXCEPT ![w] = [pc |-> "open", saw |-> contentBar]]
  BY <1>1, <1>3, WriteBarMoves
<1>5. readBar' = readBar /\ contentBar' = contentBar
  BY <1>1 DEF readBar
<1> QED
  BY <1>2, <1>4, <1>5 DEF A!Begin

\* An applied transaction publishes all or nothing over what its call saw.
LEMMA CommitMaps ==
  ASSUME IInv, contentBar = entry, contentBar' = entry', ~LostReplies,
         NEW w \in Writers, Commit(w)
  PROVE  A!Publish(w)
<1>1. /\ wr[w].pc = "committing" /\ entry = wr[w].saw /\ entry' \in {w, Absent}
      /\ rd' = rd
  BY DEF Commit
<1>2. Others(w) /\ wr'[w].pc = "done" /\ wr'[w].saw = Absent
  BY SettledEffect DEF IInv
<1>3. writeBar[w].pc = "open" /\ writeBar[w].saw = entry
  BY <1>1, WriteBarAt DEF BarPc
<1>4. BarOf(w)' = [pc |-> "done", saw |-> Absent]
  BY <1>2 DEF BarOf, BarPc
<1>5. writeBar' = [writeBar EXCEPT ![w] = [pc |-> "done", saw |-> Absent]]
  BY <1>2, <1>4, WriteBarMoves
<1>6. readBar' = readBar
  BY <1>1 DEF readBar
<1> QED
  BY <1>1, <1>3, <1>5, <1>6 DEF A!Publish

\* A call that ends without a commit fails, and cleans up unnoticed.
LEMMA EndMaps ==
  ASSUME IInv, contentBar = entry, contentBar' = entry',
         CleansBlind, NEW w \in Writers,
         Reject(w) \/ Fail(w) \/ Stop(w) \/ \E i \in Parts : Clean(w, i)
  PROVE  A!Fail(w) \/ UNCHANGED <<contentBar, writeBar, readBar>>
<1>1. UNCHANGED <<entry, rd>>
  BY DEF Reject, Fail, Stop, Clean
<1>2. contentBar' = contentBar /\ readBar' = readBar
  BY <1>1 DEF readBar
<1>3. CASE wr[w].pc \in {"writing", "committing"}
  <2>1. Reject(w) \/ Fail(w) \/ Stop(w)
    BY <1>3 DEF Clean
  <2>2. /\ Others(w) /\ wr'[w].pc \in {"cleaning", "failed", "stopped"}
        /\ wr'[w].saw = Absent
    BY <2>1, EndEffect, SettledEffect DEF IInv
  <2>3. writeBar[w].pc = "open"
    BY <1>3, WriteBarAt DEF BarPc
  <2>4. BarOf(w)' = [pc |-> "failed", saw |-> Absent]
    BY <2>2 DEF BarOf, BarPc
  <2>5. writeBar' = [writeBar EXCEPT ![w] = [pc |-> "failed", saw |-> Absent]]
    BY <2>2, <2>4, WriteBarMoves
  <2> QED
    BY <1>2, <2>3, <2>5 DEF A!Fail
<1>4. CASE wr[w].pc = "cleaning"
  <2>1. Stop(w) \/ \E i \in Parts : Clean(w, i)
    BY <1>4 DEF Reject, Fail
  <2>2. wr[w].saw = Absent
    BY <1>4 DEF CleansBlind, Over
  <2>3. /\ Others(w) /\ wr'[w].pc \in {"cleaning", "failed", "stopped"}
        /\ wr'[w].saw = Absent
    BY <2>1, <2>2, EndEffect, SettledEffect, CleanEffect DEF IInv
  <2>4. BarOf(w)' = BarOf(w)
    BY <1>4, <2>2, <2>3 DEF BarOf, BarPc
  <2> QED
    BY <1>2, <2>3, <2>4, WriteBarStays
<1> QED
  BY <1>3, <1>4 DEF Reject, Fail, Stop, Clean

\* Parts are put and the transaction is built unnoticed.
LEMMA PreparationMaps ==
  ASSUME IInv, contentBar = entry, contentBar' = entry',
         NEW w \in Writers, Prepare(w) \/ \E i \in Parts : PutPart(w, i)
  PROVE  UNCHANGED <<contentBar, writeBar, readBar>>
<1>1. UNCHANGED <<entry, rd>> /\ wr[w].pc = "writing"
  BY DEF Prepare, PutPart
<1>2. /\ Others(w) /\ wr'[w].pc \in {"writing", "committing"}
      /\ wr'[w].saw = wr[w].saw
  BY PrepareEffect, PutPartEffect DEF IInv
<1>3. BarOf(w)' = BarOf(w)
  BY <1>1, <1>2 DEF BarOf, BarPc
<1> QED
  BY <1>1, <1>2, <1>3, WriteBarStays DEF readBar

\* A reader gets the content of the moment it resolved the entry.
LEMMA ReaderMaps ==
  ASSUME IInv, ReadersSafe', Patient, contentBar = entry, contentBar' = entry',
         NEW r \in Readers, Open(r) \/ \E i \in Parts : ReadPart(r, i)
  PROVE  A!Open(r) \/ A!Answer(r) \/ UNCHANGED <<contentBar, writeBar, readBar>>
<1>1. UNCHANGED <<entry, part, wr>>
  BY DEF Open, ReadPart
<1>2. contentBar' = contentBar /\ writeBar' = writeBar
  BY <1>1 DEF writeBar
<1>3. \A q \in Readers \ {r} : rd'[q] = rd[q]
  BY ReadPartEffect DEF Open, IInv, TypeOK
<1>4. /\ readBar' = [readBar EXCEPT ![r] = [pc |-> rd'[r].pc, gen |-> rd'[r].gen]]
      /\ readBar[r] = [pc |-> rd[r].pc, gen |-> rd[r].gen]
  BY <1>3, ReadBarMoves
<1>5. CASE Open(r)
  <2>1. /\ rd[r].pc \in {"idle", "read"} /\ rd'[r].pc \in {"reading", "read"}
        /\ rd'[r].gen = entry
    BY <1>5 DEF Open, IInv, TypeOK
  <2>2. readBar[r].pc \in {"idle", "read"}
    BY <1>4, <2>1
  <2>3. readBar' = [readBar EXCEPT ![r] = [pc |-> rd'[r].pc, gen |-> contentBar]]
    BY <1>4, <2>1
  <2> QED
    BY <1>2, <2>1, <2>2, <2>3 DEF A!Open
<1>6. ASSUME NEW i \in Parts, ReadPart(r, i)
      PROVE  A!Answer(r) \/ UNCHANGED <<contentBar, writeBar, readBar>>
  <2>1. /\ rd[r].pc = "reading" /\ rd'[r].pc \in {"reading", "read"}
        /\ rd'[r].gen = rd[r].gen
    BY <1>6, ReadPartEffect DEF ReadPart, IInv, ReadersSafe
  <2>2. CASE rd'[r].pc = "reading"
    <3>1. readBar' = [readBar EXCEPT ![r] = readBar[r]]
      BY <1>4, <2>1, <2>2
    <3> QED
      BY <1>2, <3>1 DEF readBar
  <2>3. CASE rd'[r].pc = "read"
    <3>1. readBar[r].pc = "reading"
      BY <1>4, <2>1
    <3>2. readBar' = [readBar EXCEPT ![r].pc = "read"]
      <4> DEFINE x == readBar[r]
      <4>1. x = [pc |-> "reading", gen |-> rd[r].gen]
        BY <1>4, <2>1
      <4>2. [x EXCEPT !.pc = "read"] = [pc |-> "read", gen |-> rd[r].gen]
        BY <4>1
      <4> QED
        BY <1>4, <2>1, <2>3, <4>2
    <3> QED
      BY <1>2, <3>1, <3>2 DEF A!Answer
  <2> QED
    BY <2>1, <2>2, <2>3
<1> QED
  BY <1>5, <1>6

\* The entry never comes to name a deletion.
LEMMA EntryKeptStep ==
  ASSUME IInv, EntryKept, [Next]_vars
  PROVE  EntryKept'
<1>1. ASSUME NEW w \in Writers, Commit(w) PROVE EntryKept'
  <2>1. Same(w) /\ entry' = IF wr[w].op = "delete" THEN Absent ELSE w
    BY <1>1, SettledEffect DEF Commit, IInv
  <2> QED
    BY <2>1, DenoKvAssumption DEF EntryKept, Same
<1>2. ASSUME NEW w \in Writers, Others(w), Same(w) \/ wr[w].pc = "idle", entry' = entry
      PROVE  EntryKept'
  <2>1. entry # Absent => entry \in Writers /\ wr[entry].pc # "idle"
    BY DEF IInv, TypeOK, EntryDone, Over
  <2> QED
    BY <1>2, <2>1 DEF EntryKept, Others, Same
<1>3. ASSUME NEW w \in Writers, \E op \in Ops : Begin(w, op) PROVE EntryKept'
  BY <1>2, <1>3 DEF Begin, Others, IInv, TypeOK
<1>4. ASSUME NEW w \in Writers, WriteStep(w) \/ Fail(w) \/ Stop(w) PROVE EntryKept'
  <2>1. CASE Commit(w)
    BY <1>1, <2>1
  <2>2. CASE Prepare(w) \/ \E i \in Parts : PutPart(w, i) \/ Clean(w, i)
    BY <1>2, <2>2, PrepareEffect, PutPartEffect, CleanEffect
       DEF IInv, Prepare, PutPart, Clean
  <2>3. CASE Reject(w) \/ Fail(w) \/ Stop(w)
    BY <1>2, <2>3, SettledEffect DEF IInv, Reject, Fail, Stop
  <2> QED
    BY <1>4, <2>1, <2>2, <2>3 DEF WriteStep
<1>5. CASE UNCHANGED <<entry, wr>>
  BY <1>5 DEF EntryKept
<1>6. ASSUME CollectStep \/ NextBatch \/ CollectAbort \/ CollectCrash \/ Tick \/ UNCHANGED vars
      PROVE  UNCHANGED <<entry, wr>>
  BY <1>6 DEF CollectStep, CollectStart, CheckVisible, CheckMarker, CollectEnd, NextGroup, Retain,
     DeletePart, NextBatch, CollectAbort, CollectCrash, Tick, vars
<1>7. ASSUME NEW r \in Readers, Open(r) \/ ReadStep(r)
      PROVE  UNCHANGED <<entry, wr>>
  BY <1>7 DEF Open, ReadStep, ReadPart
<1> QED
  BY <1>3, <1>4, <1>5, <1>6, <1>7 DEF Next

\* Whoever ends forgets what it saw, and stays so while it cleans up.
LEMMA CleansBlindStep ==
  ASSUME IInv, CleansBlind, [Next]_vars
  PROVE  CleansBlind'
<1>1. ASSUME NEW w \in Writers, Others(w), Over(w)' => wr'[w].saw = Absent
      PROVE  CleansBlind'
  BY <1>1 DEF CleansBlind, Over, Others
<1>2. ASSUME NEW w \in Writers, \E op \in Ops : Begin(w, op) PROVE CleansBlind'
  <2>1. Others(w) /\ ~Over(w)'
    BY <1>2 DEF Begin, Over, Others, IInv, TypeOK
  <2> QED
    BY <1>1, <2>1
<1>3. ASSUME NEW w \in Writers, Prepare(w) \/ \E i \in Parts : PutPart(w, i) PROVE CleansBlind'
  <2>1. Others(w) /\ ~Over(w)'
    BY <1>3, PrepareEffect, PutPartEffect DEF Over, IInv
  <2> QED
    BY <1>1, <2>1
<1>4. ASSUME NEW w \in Writers, NEW i \in Parts, Clean(w, i) PROVE CleansBlind'
  <2>1. Over(w)
    BY <1>4 DEF Clean, Over
  <2>2. Others(w) /\ wr'[w].saw = Absent
    BY <1>4, <2>1, CleanEffect DEF CleansBlind, IInv
  <2> QED
    BY <1>1, <2>2
<1>5. ASSUME NEW w \in Writers, Commit(w) \/ Reject(w) \/ Fail(w) \/ Stop(w) PROVE CleansBlind'
  BY <1>1, <1>5, SettledEffect DEF IInv
<1>6. ASSUME CollectStep \/ NextBatch \/ CollectAbort \/ CollectCrash \/ Tick \/ UNCHANGED vars
      PROVE  UNCHANGED wr
  BY <1>6 DEF CollectStep, CollectStart, CheckVisible, CheckMarker, CollectEnd, NextGroup, Retain,
     DeletePart, NextBatch, CollectAbort, CollectCrash, Tick, vars
<1>7. ASSUME NEW r \in Readers, Open(r) \/ ReadStep(r)
      PROVE  UNCHANGED wr
  BY <1>7 DEF Open, ReadStep, ReadPart
<1>8. CASE UNCHANGED wr
  BY <1>8 DEF CleansBlind, Over
<1> QED
  BY <1>2, <1>3, <1>4, <1>5, <1>6, <1>7, <1>8 DEF Next, WriteStep

\* Both sides of a step have the entry as their content.
LEMMA ContentStep ==
  ASSUME Patient
  PROVE  FileInv /\ FileInv' => contentBar = entry /\ contentBar' = entry'
<1>1. FileInv => ContentCurrent
  BY ContentIsEntry
<1>2. FileInv' => ContentCurrent'
  BY <1>1, PTL
<1> QED
  BY <1>1, <1>2 DEF ContentCurrent, Patient

\* Any step of the driver is one of the atomic file, or none.
LEMMA StepsMap ==
  ASSUME Patient, FileInv, FileInv', [Next]_vars
  PROVE  [A!Next]_<<contentBar, writeBar, readBar>>
<1> DEFINE Stays == UNCHANGED <<contentBar, writeBar, readBar>>
<1>1. /\ contentBar = entry /\ contentBar' = entry'
      /\ IInv /\ ReadersSafe' /\ CleansBlind /\ ~LostReplies
  BY ContentStep DEF FileInv, IInv, Patient
<1>2. ASSUME NEW w \in Writers, \E op \in Ops : Begin(w, op) PROVE A!Begin(w)
  BY <1>1, <1>2, BeginMaps
<1>3. ASSUME NEW w \in Writers, WriteStep(w) \/ Fail(w) \/ Stop(w)
      PROVE  A!Publish(w) \/ A!Fail(w) \/ Stays
  BY <1>1, <1>3, CommitMaps, EndMaps, PreparationMaps DEF WriteStep
<1>4. ASSUME NEW r \in Readers, Open(r) \/ ReadStep(r)
      PROVE  A!Open(r) \/ A!Answer(r) \/ Stays
  BY <1>1, <1>4, ReaderMaps DEF ReadStep
<1>5. ASSUME CollectStep \/ NextBatch \/ CollectAbort \/ CollectCrash \/ Tick \/ UNCHANGED vars
      PROVE  Stays
  <2>1. UNCHANGED <<entry, wr, rd>>
    BY <1>5 DEF CollectStep, CollectStart, CheckVisible, CheckMarker, CollectEnd, NextGroup,
       Retain, DeletePart, NextBatch, CollectAbort, CollectCrash, Tick, vars
  <2> QED
    BY <1>1, <2>1 DEF writeBar, readBar
<1> HIDE DEF Stays
<1>6. \/ \E w \in Writers : A!Begin(w) \/ A!Publish(w) \/ A!Fail(w)
      \/ \E r \in Readers : A!Open(r) \/ A!Answer(r)
      \/ Stays
  BY <1>2, <1>3, <1>4, <1>5 DEF Next
<1> QED
  BY <1>6 DEF A!Next, Stays

\* If replies arrive and the grace period is longer than a write, and than a
\* read and the commit that supersedes what it reads, the partitioned file
\* behaves as one that is written and read in one piece: every operation of
\* the driver, its failures, crashes and collections included, is a step of
\* the atomic file or none.
THEOREM ImplementsTheAtomicFile == ASSUME Timely, Patient PROVE Spec => ImplementsAtomicFile
<1>1. Init => FileInv /\ A!Init
  <2> SUFFICES ASSUME Init PROVE FileInv /\ A!Init
    OBVIOUS
  <2>1. IInv /\ EntryKept /\ CleansBlind
    BY InitInv DEF Init, EntryKept, CleansBlind, Over
  <2>2. contentBar = Absent
    BY DEF Init, contentBar
  <2>3. writeBar = [w \in Writers |-> [pc |-> "idle", saw |-> Absent]]
    BY DEF Init, writeBar
  <2>4. readBar = [r \in Readers |-> [pc |-> "idle", gen |-> Absent]]
    BY DEF Init, readBar
  <2> QED
    BY <2>1, <2>2, <2>3, <2>4 DEF FileInv, A!Init
<1>2. FileInv /\ [Next]_vars => FileInv'
  BY NextInv, EntryKeptStep, CleansBlindStep DEF FileInv
<1>3. FileInv /\ FileInv' /\ [Next]_vars => [A!Next]_<<contentBar, writeBar, readBar>>
  BY StepsMap
<1> QED
  BY <1>1, <1>2, <1>3, PTL DEF Spec, ImplementsAtomicFile, A!Spec, A!fileVars
=============================================================================
