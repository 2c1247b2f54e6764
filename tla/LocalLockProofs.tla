-------------------------- MODULE LocalLockProofs --------------------------
(***************************************************************************)
(* Proofs about LocalLock, and that it implements FifoLock, for any number *)
(* of names, callers and state objects.                                    *)
(***************************************************************************)
EXTENDS LocalLockFifo, FifoLineProofs, FiniteSetTheorems

----------------------------------------------------------------------------
(* The inductive invariant, over the components of a state: the handlers    *)
(* pass through states of this kind before they drain.                      *)

Held(to, c) == to[c] # NoToken /\ ~to[c].released

HeldShared(to, s) ==
  {c \in Callers : Held(to, c) /\ to[c].state = s /\ to[c].mode = "shared"}

HeldExclusive(to, s) ==
  {c \in Callers : Held(to, c) /\ to[c].state = s /\ to[c].mode = "exclusive"}

Types(ls, ce, pe, to) ==
  /\ ls \in [Names -> Cells \cup {NoCell}]
  /\ ce \in [Cells -> LockState]
  /\ pe \in [Callers -> Request \cup {NoRequest}]
  /\ to \in [Callers -> Token \cup {NoToken}]

\* A state object belongs to one name, and a caller's name leads to its object.
Registered(ls, pe, to) ==
  /\ \A m, n \in Names : ls[m] = ls[n] /\ ls[m] # NoCell => m = n
  /\ \A c \in Callers :
       /\ Held(to, c) => ls[to[c].name] = to[c].state
       /\ pe[c] # NoRequest => ls[pe[c].name] = pe[c].state

\* A queue holds the waiting callers of its object, each once.
Queued(ce, pe) ==
  /\ \A s \in Cells : \A i \in 1 .. Len(ce[s].queue) :
       /\ pe[ce[s].queue[i]] # NoRequest
       /\ pe[ce[s].queue[i]].state = s
       /\ \A j \in 1 .. Len(ce[s].queue) : ce[s].queue[i] = ce[s].queue[j] => i = j
  /\ \A c \in Callers : pe[c] # NoRequest =>
       \E i \in 1 .. Len(ce[pe[c].state].queue) : ce[pe[c].state].queue[i] = c

WaitersHoldNothing(pe, to) == \A c \in Callers : pe[c] # NoRequest => ~Held(to, c)

Occupied(ce, to) ==
  \A s \in Cells :
    /\ ce[s].readers = Cardinality(HeldShared(to, s))
    /\ ce[s].writer => ce[s].readers = 0 /\ \E c \in Callers : HeldExclusive(to, s) = {c}
    /\ ~ce[s].writer => HeldExclusive(to, s) = {}

Good(ls, ce, pe, to) ==
  /\ Types(ls, ce, pe, to)
  /\ Registered(ls, pe, to)
  /\ Queued(ce, pe)
  /\ WaitersHoldNothing(pe, to)
  /\ Occupied(ce, to)

IInv == Good(localStates, cell, pending, token)

----------------------------------------------------------------------------
(* Lemmas about the operators of the handlers.                             *)

\* A state object with another reader count.
LEMMA WithReaders ==
  ASSUME NEW st \in LockState, NEW v \in Nat
  PROVE  /\ [st EXCEPT !.readers = v] \in LockState
         /\ [st EXCEPT !.readers = v].readers = v
         /\ [st EXCEPT !.readers = v].writer = st.writer
         /\ [st EXCEPT !.readers = v].queue = st.queue
<1>1. [st EXCEPT !.readers = v] \in LockState
  BY DEF LockState
<1>2. [st EXCEPT !.readers = v].readers = v
  BY DEF LockState
<1>3. [st EXCEPT !.readers = v].writer = st.writer
  BY DEF LockState
<1>4. [st EXCEPT !.readers = v].queue = st.queue
  BY DEF LockState
<1> QED
  BY <1>1, <1>2, <1>3, <1>4

\* A state object with another writer flag.
LEMMA WithWriter ==
  ASSUME NEW st \in LockState, NEW v \in BOOLEAN
  PROVE  /\ [st EXCEPT !.writer = v] \in LockState
         /\ [st EXCEPT !.writer = v].readers = st.readers
         /\ [st EXCEPT !.writer = v].writer = v
         /\ [st EXCEPT !.writer = v].queue = st.queue
<1>1. [st EXCEPT !.writer = v] \in LockState
  BY DEF LockState
<1>2. [st EXCEPT !.writer = v].readers = st.readers
  BY DEF LockState
<1>3. [st EXCEPT !.writer = v].writer = v
  BY DEF LockState
<1>4. [st EXCEPT !.writer = v].queue = st.queue
  BY DEF LockState
<1> QED
  BY <1>1, <1>2, <1>3, <1>4

\* A state object with another queue.
LEMMA WithQueue ==
  ASSUME NEW st \in LockState, NEW v \in Seq(Callers)
  PROVE  /\ [st EXCEPT !.queue = v] \in LockState
         /\ [st EXCEPT !.queue = v].readers = st.readers
         /\ [st EXCEPT !.queue = v].writer = st.writer
         /\ [st EXCEPT !.queue = v].queue = v
<1>1. [st EXCEPT !.queue = v] \in LockState
  BY DEF LockState
<1>2. [st EXCEPT !.queue = v].readers = st.readers
  BY DEF LockState
<1>3. [st EXCEPT !.queue = v].writer = st.writer
  BY DEF LockState
<1>4. [st EXCEPT !.queue = v].queue = v
  BY DEF LockState
<1> QED
  BY <1>1, <1>2, <1>3, <1>4

\* The leading shared requests are a prefix of the queue.
LEMMA LeadingSharedPrefix ==
  ASSUME NEW q \in Seq(Callers)
  PROVE  /\ LeadingShared(q) \in 0 .. Len(q)
         /\ \A i \in 1 .. LeadingShared(q) : pending[q[i]].mode = "shared"
<1> DEFINE S == {k \in 1 .. Len(q) : \A i \in 1 .. k : pending[q[i]].mode = "shared"}
<1>1. Len(q) \in Nat
  BY LenProperties
<1>2. IsFiniteSet(1 .. Len(q)) /\ Cardinality(1 .. Len(q)) = Len(q)
  BY <1>1, FS_Interval
<1>3. S \in SUBSET (1 .. Len(q))
  OBVIOUS
<1>4. IsFiniteSet(S) /\ Cardinality(S) <= Len(q)
  BY <1>2, <1>3, FS_Subset
<1>5. Cardinality(S) \in Nat
  BY <1>4, FS_CardinalityType
<1>6. ASSUME NEW i \in 1 .. Cardinality(S)
      PROVE  i \in S
  <2>1. SUFFICES ASSUME i \notin S PROVE FALSE
    OBVIOUS
  <2>2. i \in 1 .. Len(q)
    BY <1>1, <1>4, <1>5
  <2>3. \A m \in S : m < i
    BY <1>1, <2>1, <2>2
  <2>4. S \in SUBSET (1 .. i - 1)
    BY <1>1, <2>2, <2>3
  <2>5. IsFiniteSet(1 .. i - 1) /\ Cardinality(1 .. i - 1) = i - 1
    BY <2>2, FS_Interval
  <2>6. Cardinality(S) <= i - 1
    BY <2>4, <2>5, FS_Subset
  <2> QED
    BY <1>5, <2>6
<1>7. \A i \in 1 .. Cardinality(S) : pending[q[i]].mode = "shared"
  BY <1>1, <1>6
<1> QED
  BY <1>1, <1>4, <1>5, <1>7 DEF LeadingShared

\* Where the leading shared requests end stands an exclusive one.
LEMMA LeadingSharedStops ==
  ASSUME NEW q \in Seq(Callers), LeadingShared(q) < Len(q)
  PROVE  pending[q[LeadingShared(q) + 1]].mode # "shared"
<1> DEFINE S == {k \in 1 .. Len(q) : \A i \in 1 .. k : pending[q[i]].mode = "shared"}
           g == LeadingShared(q)
<1>1. Len(q) \in Nat /\ g \in 0 .. Len(q) /\ \A i \in 1 .. g : pending[q[i]].mode = "shared"
  BY LeadingSharedPrefix, LenProperties
<1>2. g = Cardinality(S)
  BY DEF LeadingShared
<1>3. IsFiniteSet(S)
  <2>1. IsFiniteSet(1 .. Len(q)) /\ S \in SUBSET (1 .. Len(q))
    BY <1>1, FS_Interval
  <2> QED
    BY <2>1, FS_Subset
<1> HIDE DEF g
<1>4. ASSUME pending[q[g + 1]].mode = "shared"
      PROVE  FALSE
  <2>1. g \in Nat /\ g + 1 \in 1 .. Len(q)
    BY <1>1 DEF g
  <2>2. ASSUME NEW k \in 1 .. g + 1
        PROVE  k \in S
    <3>1. k \in 1 .. Len(q)
      BY <1>1, <2>1
    <3>2. \A i \in 1 .. k : i \in 1 .. g \/ i = g + 1
      BY <2>1, <2>2
    <3> QED
      BY <1>1, <1>4, <3>1, <3>2
  <2>3. 1 .. g + 1 \in SUBSET S
    BY <2>2
  <2>4. Cardinality(1 .. g + 1) = g + 1
    BY <2>1, FS_Interval
  <2>5. Cardinality(1 .. g + 1) <= Cardinality(S)
    BY <1>3, <2>3, FS_Subset
  <2> QED
    BY <1>2, <2>1, <2>4, <2>5
<1> QED
  BY <1>4 DEF g

\* What drain() grants: nothing under a writer, an exclusive head alone and
\* only without readers, shared requests otherwise.
LEMMA GrantsPrefix ==
  ASSUME NEW st \in LockState
  PROVE  /\ Grants(st) \in 0 .. Len(st.queue)
         /\ Grants(st) > 0 => ~st.writer
         /\ HeadIsExclusive(st.queue) /\ Grants(st) > 0
              => Grants(st) = 1 /\ st.readers = 0 /\ pending[st.queue[1]].mode = "exclusive"
         /\ ~HeadIsExclusive(st.queue)
              => \A i \in 1 .. Grants(st) : pending[st.queue[i]].mode = "shared"
<1>1. st.queue \in Seq(Callers)
  BY DEF LockState
<1>2. Len(st.queue) \in Nat /\ (st.queue # <<>> => Len(st.queue) > 0)
  BY <1>1, LenProperties, EmptySeq
<1> QED
  BY <1>1, <1>2, LeadingSharedPrefix DEF Grants, HeadIsExclusive

\* Callers queued once each are as many as their places.
LEMMA PlacesCount ==
  ASSUME NEW q \in Seq(Callers), NEW n \in 0 .. Len(q),
         \A i, j \in 1 .. Len(q) : q[i] = q[j] => i = j
  PROVE  /\ IsFiniteSet({q[i] : i \in 1 .. n})
         /\ Cardinality({q[i] : i \in 1 .. n}) = n
<1> DEFINE T == {q[i] : i \in 1 .. n}
           f == [i \in 1 .. n |-> q[i]]
<1>1. n \in Nat /\ Len(q) \in Nat
  BY LenProperties
<1>2. f \in [1 .. n -> T]
  OBVIOUS
<1>3. \A t \in T : \E i \in 1 .. n : f[i] = t
  OBVIOUS
<1>4. \A i, j \in 1 .. n : f[i] = f[j] => i = j
  BY <1>1
<1>5. f \in Bijection(1 .. n, T)
  BY <1>2, <1>3, <1>4, Zenon DEF Bijection, Injection, Surjection, IsInjective
<1>6. ExistsBijection(1 .. n, T)
  BY <1>5 DEF ExistsBijection
<1> QED
  BY <1>1, <1>6, FS_CountingElements, FS_NatBijection

----------------------------------------------------------------------------
(* The drain and the clean-up a release or a cancellation ends in.          *)

\* What the common end of the two handlers does to those it grants, to everybody
\* else and to the queue.
Drained(n, s, st, toks, pends) ==
  /\ st \in LockState /\ st.queue \in Seq(Callers) /\ Len(st.queue) \in Nat
  /\ Grants(st) \in 0 .. Len(st.queue)
  /\ \A i \in 1 .. Len(st.queue) :
       /\ st.queue[i] \in Callers
       /\ pends[st.queue[i]] \in Request
       /\ pends[st.queue[i]].state = s
       /\ pends[st.queue[i]].name = n
       /\ pends[st.queue[i]] = pending[st.queue[i]]
       /\ ~Held(toks, st.queue[i])
       /\ \A j \in 1 .. Len(st.queue) : st.queue[i] = st.queue[j] => i = j
  /\ Granted(st) \subseteq Callers
  /\ \A c \in Granted(st) :
       /\ \E i \in 1 .. Grants(st) : c = st.queue[i]
       /\ pends[c] \in Request /\ pends[c] = pending[c]
       /\ pends[c].state = s /\ pends[c].name = n
       /\ ~Held(toks, c)
       /\ token'[c] = NewToken(n, s, pending[c].mode) /\ pending'[c] = NoRequest
       /\ Held(token', c) /\ token'[c].state = s /\ token'[c].name = n
       /\ token'[c].mode = pending[c].mode
  /\ \A i \in 1 .. Grants(st) : st.queue[i] \in Granted(st)
  /\ \A c \in Callers \ Granted(st) : token'[c] = toks[c] /\ pending'[c] = pends[c]
  /\ DOMAIN token' = Callers /\ DOMAIN pending' = Callers
  /\ cell' = [cell EXCEPT ![s] = drain(st)]
  /\ localStates' = [localStates EXCEPT ![n] = IF IsEmpty(drain(st)) THEN NoCell ELSE @]
  /\ drain(st).queue \in Seq(Callers)
  /\ Len(drain(st).queue) = Len(st.queue) - Grants(st)
  /\ \A i \in 1 .. Len(st.queue) - Grants(st) :
       drain(st).queue[i] = st.queue[Grants(st) + i]

\* So does every drain of a state that is good before it.
LEMMA DrainEffect ==
  ASSUME NEW n \in Names, NEW s \in Cells, NEW st, NEW toks, NEW pends,
         cell \in [Cells -> LockState],
         Good(localStates, [cell EXCEPT ![s] = st], pends, toks),
         localStates[n] = s,
         \A i \in 1 .. Len(st.queue) : pends[st.queue[i]] = pending[st.queue[i]],
         DrainAndClean(n, s, st, toks, pends)
  PROVE  Drained(n, s, st, toks, pends)
<1> DEFINE q == st.queue
           g == Grants(st)
           G == Granted(st)
           d == drain(st)
           mid == [cell EXCEPT ![s] = st]
<1>1. /\ Types(localStates, mid, pends, toks)
      /\ Registered(localStates, pends, toks)
      /\ Queued(mid, pends)
      /\ WaitersHoldNothing(pends, toks)
      /\ Occupied(mid, toks)
  BY DEF Good
<1>2. mid[s] = st /\ \A x \in Cells : x # s => mid[x] = cell[x]
  OBVIOUS
<1>3. st \in LockState /\ q \in Seq(Callers) /\ Len(q) \in Nat
  <2>1. st \in LockState
    BY <1>1, <1>2 DEF Types
  <2> QED
    BY <2>1, LenProperties DEF LockState
<1>4. /\ g \in 0 .. Len(q)
      /\ g > 0 => ~st.writer
      /\ HeadIsExclusive(q) /\ g > 0
           => g = 1 /\ st.readers = 0 /\ pending[q[1]].mode = "exclusive"
      /\ ~HeadIsExclusive(q) => \A i \in 1 .. g : pending[q[i]].mode = "shared"
  BY <1>3, GrantsPrefix
<1>5. \A i \in 1 .. Len(q) :
        /\ q[i] \in Callers
        /\ pends[q[i]] \in Request
        /\ pends[q[i]].state = s
        /\ pends[q[i]].name = n
        /\ pends[q[i]] = pending[q[i]]
        /\ ~Held(toks, q[i])
        /\ \A j \in 1 .. Len(q) : q[i] = q[j] => i = j
  <2> SUFFICES ASSUME NEW i \in 1 .. Len(q)
               PROVE  /\ q[i] \in Callers
                      /\ pends[q[i]] \in Request
                      /\ pends[q[i]].state = s
                      /\ pends[q[i]].name = n
                      /\ pends[q[i]] = pending[q[i]]
                      /\ ~Held(toks, q[i])
                      /\ \A j \in 1 .. Len(q) : q[i] = q[j] => i = j
    OBVIOUS
  <2>1. q[i] \in Callers
    BY <1>3, ElementOfSeq
  <2>2. /\ pends[q[i]] # NoRequest /\ pends[q[i]].state = s
        /\ \A j \in 1 .. Len(q) : q[i] = q[j] => i = j
    BY <1>1, <1>2 DEF Queued
  <2>3. pends[q[i]] \in Request
    BY <1>1, <2>1, <2>2 DEF Types
  <2>4. pends[q[i]].name = n
    <3>1. localStates[pends[q[i]].name] = s /\ pends[q[i]].name \in Names
      BY <1>1, <2>1, <2>2, <2>3 DEF Registered, Request
    <3> QED
      BY <1>1, <3>1, LocalLockAssumption DEF Registered
  <2> QED
    BY <1>1, <2>1, <2>2, <2>3, <2>4 DEF WaitersHoldNothing
<1>6. /\ G \subseteq Callers
      /\ \A c \in G : \E i \in 1 .. g : c = q[i]
      /\ \A i \in 1 .. g : q[i] \in G
      /\ \A c \in G : /\ pends[c] \in Request /\ pends[c] = pending[c]
                      /\ pends[c].state = s /\ pends[c].name = n
                      /\ ~Held(toks, c)
  BY <1>3, <1>4, <1>5 DEF Granted
<1>7. /\ cell' = [cell EXCEPT ![s] = d]
      /\ localStates' = [localStates EXCEPT ![n] = IF IsEmpty(d) THEN NoCell ELSE @]
      /\ \A c \in G : token'[c] = NewToken(n, s, pending[c].mode) /\ pending'[c] = NoRequest
      /\ \A c \in Callers \ G : token'[c] = toks[c] /\ pending'[c] = pends[c]
      /\ DOMAIN token' = Callers /\ DOMAIN pending' = Callers
  BY <1>6 DEF DrainAndClean, removeEmptyState
<1>8. /\ d.queue \in Seq(Callers)
      /\ Len(d.queue) = Len(q) - g
      /\ \A i \in 1 .. Len(q) - g : d.queue[i] = q[g + i]
  <2>1. d.queue = SubSeq(q, g + 1, Len(q))
    BY DEF drain
  <2>2. \A i \in g + 1 .. Len(q) : q[i] \in Callers
    BY <1>4, <1>3, <1>5
  <2>3. g + 1 \in Int /\ Len(q) \in Int
    BY <1>3, <1>4
  <2>4. /\ SubSeq(q, g + 1, Len(q)) \in Seq(Callers)
        /\ Len(SubSeq(q, g + 1, Len(q)))
             = IF g + 1 <= Len(q) THEN Len(q) - (g + 1) + 1 ELSE 0
        /\ \A i \in 1 .. Len(q) - (g + 1) + 1 :
             SubSeq(q, g + 1, Len(q))[i] = q[g + 1 + i - 1]
    <3> HIDE DEF q, g
    <3> QED
      BY <2>2, <2>3, SubSeqProperties
  <2> HIDE DEF q, g, d
  <2> QED
    BY <1>3, <1>4, <2>1, <2>4
<1>9. /\ \A c \in G : Held(token', c) /\ token'[c].state = s /\ token'[c].name = n
                      /\ token'[c].mode = pending[c].mode
      /\ \A c \in Callers \ G : token'[c] = toks[c]
  <2> SUFFICES ASSUME NEW c \in G
               PROVE  /\ Held(token', c) /\ token'[c].state = s /\ token'[c].name = n
                      /\ token'[c].mode = pending[c].mode
    BY <1>7
  <2>1. token'[c] = [name |-> n, state |-> s, mode |-> pending[c].mode, released |-> FALSE]
    BY <1>7 DEF NewToken
  <2>2. pending[c].mode \in Modes
    BY <1>6 DEF Request
  <2>3. token'[c] \in Token
    BY <2>1, <2>2 DEF Token
  <2>4. /\ token'[c].state = s /\ token'[c].name = n
        /\ token'[c].mode = pending[c].mode
        /\ ~token'[c].released
    BY <2>1
  <2>5. token'[c] # NoToken
    BY <2>3, LocalLockAssumption
  <2> QED
    BY <2>4, <2>5, Zenon DEF Held
<1> QED
  BY <1>3, <1>4, <1>5, <1>6, <1>7, <1>8, <1>9 DEF Drained

\* A state that is good once a request or an occupancy is taken away stays
\* good when its state object is drained and its registration cleaned up.
LEMMA DrainKeepsGood ==
  ASSUME NEW n \in Names, NEW s \in Cells, NEW st, NEW toks, NEW pends,
         cell \in [Cells -> LockState],
         Good(localStates, [cell EXCEPT ![s] = st], pends, toks),
         localStates[n] = s,
         \A i \in 1 .. Len(st.queue) : pends[st.queue[i]] = pending[st.queue[i]],
         DrainAndClean(n, s, st, toks, pends)
  PROVE  IInv'
<1> DEFINE q == st.queue
           g == Grants(st)
           G == Granted(st)
           d == drain(st)
           mid == [cell EXCEPT ![s] = st]
<1>1. /\ Types(localStates, mid, pends, toks)
      /\ Registered(localStates, pends, toks)
      /\ Queued(mid, pends)
      /\ WaitersHoldNothing(pends, toks)
      /\ Occupied(mid, toks)
  BY DEF Good
<1>2. mid[s] = st /\ \A x \in Cells : x # s => mid[x] = cell[x]
  OBVIOUS
<1>20. Drained(n, s, st, toks, pends)
  BY DrainEffect
<1>3. st \in LockState /\ q \in Seq(Callers) /\ Len(q) \in Nat
  BY <1>20 DEF Drained
<1>4. /\ g \in 0 .. Len(q)
      /\ g > 0 => ~st.writer
      /\ HeadIsExclusive(q) /\ g > 0
           => g = 1 /\ st.readers = 0 /\ pending[q[1]].mode = "exclusive"
      /\ ~HeadIsExclusive(q) => \A i \in 1 .. g : pending[q[i]].mode = "shared"
  BY <1>3, GrantsPrefix
<1>5. \A i \in 1 .. Len(q) :
        /\ q[i] \in Callers
        /\ pends[q[i]] \in Request
        /\ pends[q[i]].state = s
        /\ pends[q[i]].name = n
        /\ pends[q[i]] = pending[q[i]]
        /\ ~Held(toks, q[i])
        /\ \A j \in 1 .. Len(q) : q[i] = q[j] => i = j
  BY <1>20 DEF Drained
<1>6. /\ G \subseteq Callers
      /\ \A c \in G : \E i \in 1 .. g : c = q[i]
      /\ \A i \in 1 .. g : q[i] \in G
      /\ \A c \in G : /\ pends[c] \in Request /\ pends[c] = pending[c]
                      /\ pends[c].state = s /\ pends[c].name = n
                      /\ ~Held(toks, c)
  BY <1>20 DEF Drained
<1>7. /\ cell' = [cell EXCEPT ![s] = d]
      /\ localStates' = [localStates EXCEPT ![n] = IF IsEmpty(d) THEN NoCell ELSE @]
      /\ \A c \in G : token'[c] = NewToken(n, s, pending[c].mode) /\ pending'[c] = NoRequest
      /\ \A c \in Callers \ G : token'[c] = toks[c] /\ pending'[c] = pends[c]
      /\ DOMAIN token' = Callers /\ DOMAIN pending' = Callers
  BY <1>20 DEF Drained
<1>8. /\ d.queue \in Seq(Callers)
      /\ Len(d.queue) = Len(q) - g
      /\ \A i \in 1 .. Len(q) - g : d.queue[i] = q[g + i]
  BY <1>20 DEF Drained
<1>9. d \in LockState
  BY <1>3, <1>4, <1>8 DEF drain, LockState
<1>10. Types(localStates', cell', pending', token')
  <2>1. localStates' \in [Names -> Cells \cup {NoCell}]
    BY <1>1, <1>7 DEF Types
  <2>2. cell' \in [Cells -> LockState]
    BY <1>7, <1>9
  <2>3. pending' \in [Callers -> Request \cup {NoRequest}]
    BY <1>1, <1>6, <1>7 DEF Types, DrainAndClean
  <2>4. \A c \in G : NewToken(n, s, pending[c].mode) \in Token
    BY <1>6 DEF NewToken, Token, Request
  <2>5. token' \in [Callers -> Token \cup {NoToken}]
    BY <1>1, <1>6, <1>7, <2>4 DEF Types, DrainAndClean
  <2> QED
    BY <2>1, <2>2, <2>3, <2>5 DEF Types
<1>11. /\ \A c \in G : Held(token', c) /\ token'[c].state = s /\ token'[c].name = n
                       /\ token'[c].mode = pending[c].mode
       /\ \A c \in Callers \ G : token'[c] = toks[c]
  BY <1>20 DEF Drained
<1>12. WaitersHoldNothing(pending', token')
  BY <1>1, <1>6, <1>7 DEF WaitersHoldNothing, Held
<1>13. Queued(cell', pending')
  <2>1. ASSUME NEW x \in Cells, x # s, NEW i \in 1 .. Len(cell'[x].queue)
        PROVE  /\ pending'[cell'[x].queue[i]] # NoRequest
               /\ pending'[cell'[x].queue[i]].state = x
               /\ \A j \in 1 .. Len(cell'[x].queue) :
                    cell'[x].queue[i] = cell'[x].queue[j] => i = j
    <3>1. cell'[x] = mid[x] /\ mid[x].queue \in Seq(Callers)
      BY <1>1, <1>7, <2>1 DEF Types, LockState
    <3>2. mid[x].queue[i] \in Callers
      BY <3>1, <2>1, ElementOfSeq
    <3>3. /\ pends[mid[x].queue[i]].state = x /\ pends[mid[x].queue[i]] # NoRequest
          /\ \A j \in 1 .. Len(mid[x].queue) :
                    mid[x].queue[i] = mid[x].queue[j] => i = j
      BY <1>1, <3>1, <2>1 DEF Queued
    <3>4. mid[x].queue[i] \notin G
      BY <1>6, <3>3, <2>1
    <3> QED
      BY <1>7, <3>1, <3>2, <3>3, <3>4
  <2>2. cell'[s] = d
    BY <1>1, <1>7 DEF Types
  <2>3. ASSUME NEW i \in 1 .. Len(d.queue)
        PROVE  /\ pending'[d.queue[i]] # NoRequest
               /\ pending'[d.queue[i]].state = s
               /\ \A j \in 1 .. Len(d.queue) : d.queue[i] = d.queue[j] => i = j
    <3> HIDE DEF q, g, G, d, mid
    <3>1. g + i \in 1 .. Len(q) /\ d.queue[i] = q[g + i] /\ g < g + i
      BY <1>3, <1>4, <1>8
    <3>2. q[g + i] \notin G
      <4> SUFFICES ASSUME q[g + i] \in G
                   PROVE  FALSE
        OBVIOUS
      <4>1. PICK k \in 1 .. g : q[g + i] = q[k]
        BY <1>6
      <4>2. k \in 1 .. Len(q) /\ k < g + i
        BY <1>3, <1>4, <3>1, <4>1
      <4> QED
        BY <1>5, <3>1, <4>1, <4>2
    <3>3. pending'[d.queue[i]] = pends[q[g + i]] /\ pends[q[g + i]] \in Request
      BY <1>5, <1>7, <3>1, <3>2
    <3>4. ASSUME NEW j \in 1 .. Len(d.queue), d.queue[i] = d.queue[j]
          PROVE  i = j
      <4>1. g + j \in 1 .. Len(q) /\ d.queue[j] = q[g + j]
        BY <1>3, <1>4, <1>8
      <4>2. q[g + i] = q[g + j]
        BY <3>1, <3>4, <4>1
      <4>3. g + i = g + j
        BY <1>5, <3>1, <4>1, <4>2
      <4> QED
        BY <1>4, <1>8, <4>3
    <3> QED
      BY <1>5, <3>1, <3>3, <3>4, LocalLockAssumption
  <2>4. ASSUME NEW c \in Callers, pending'[c] # NoRequest
        PROVE  \E i \in 1 .. Len(cell'[pending'[c].state].queue) :
                 cell'[pending'[c].state].queue[i] = c
    <3>1. c \notin G /\ pending'[c] = pends[c] /\ pends[c] # NoRequest
      BY <1>7, <2>4
    <3>2. pends[c].state \in Cells
      BY <1>1, <3>1 DEF Types, Request
    <3>3. PICK i \in 1 .. Len(mid[pends[c].state].queue) : mid[pends[c].state].queue[i] = c
      BY <1>1, <3>1 DEF Queued
    <3>4. CASE pends[c].state # s
      BY <1>7, <3>1, <3>2, <3>3, <3>4
    <3>5. CASE pends[c].state = s
      <4>1. i \in 1 .. Len(q) /\ q[i] = c
        BY <1>2, <3>3, <3>5
      <4>2. i > g
        BY <1>3, <1>4, <1>6, <3>1, <4>1
      <4>3. i - g \in 1 .. Len(d.queue) /\ d.queue[i - g] = c
        <5> HIDE DEF q, g, G, d, mid
        <5>1. i - g \in 1 .. Len(q) - g /\ g + (i - g) = i
          BY <1>3, <1>4, <4>1, <4>2
        <5> QED
          BY <1>8, <4>1, <5>1
      <4> QED
        BY <2>2, <3>1, <3>5, <4>3
    <3> QED
      BY <3>4, <3>5
  <2> QED
    BY <2>1, <2>2, <2>3, <2>4 DEF Queued
<1>14. Occupied(cell', token')
  <2>1. ASSUME NEW x \in Cells, x # s
        PROVE  /\ HeldShared(token', x) = HeldShared(toks, x)
               /\ HeldExclusive(token', x) = HeldExclusive(toks, x)
               /\ cell'[x] = mid[x]
    BY <1>6, <1>7, <1>11, <2>1 DEF HeldShared, HeldExclusive, Held
  <2>2. cell'[s] = d /\ mid[s] = st
    BY <1>1, <1>2, <1>7 DEF Types
  <2>3. /\ st.readers = Cardinality(HeldShared(toks, s))
        /\ st.writer => st.readers = 0 /\ \E c \in Callers : HeldExclusive(toks, s) = {c}
        /\ ~st.writer => HeldExclusive(toks, s) = {}
    BY <1>1, <2>2 DEF Occupied
  <2>4. IsFiniteSet(HeldShared(toks, s))
    BY FS_Subset, LocalLockAssumption DEF HeldShared
  <2>5. IsFiniteSet(G) /\ Cardinality(G) = g
    BY <1>3, <1>4, <1>5, PlacesCount, ZenonT(40) DEF Granted
  <2>6. /\ d.readers = Cardinality(HeldShared(token', s))
        /\ d.writer => d.readers = 0 /\ \E c \in Callers : HeldExclusive(token', s) = {c}
        /\ ~d.writer => HeldExclusive(token', s) = {}
    <3>1. CASE g = 0
      <4>1. G = {}
        BY <1>6, <3>1
      <4>2. /\ HeldShared(token', s) = HeldShared(toks, s)
            /\ HeldExclusive(token', s) = HeldExclusive(toks, s)
        BY <1>11, <4>1 DEF HeldShared, HeldExclusive, Held
      <4>3. d.readers = st.readers /\ d.writer = st.writer
        BY <1>3, <3>1 DEF drain, LockState
      <4> QED
        BY <2>3, <4>2, <4>3
    <3>2. CASE g > 0 /\ HeadIsExclusive(q)
      <4>1. G = {q[1]} /\ ~st.writer /\ st.readers = 0
        BY <1>4, <1>6, <3>2
      <4>2. q[1] \in Callers /\ token'[q[1]].mode = "exclusive"
        BY <1>4, <1>6, <1>11, <3>2, <4>1
      <4>3. HeldShared(token', s) = HeldShared(toks, s)
        BY <1>6, <1>11, <4>1, <4>2 DEF HeldShared, Held
      <4>4. HeldExclusive(token', s) = {q[1]}
        BY <1>11, <2>3, <4>1, <4>2 DEF HeldExclusive, Held
      <4>5. d.readers = 0 /\ d.writer
        <5>1. g = 1 /\ st.readers = 0
          BY <1>4, <3>2
        <5>2. d.readers = st.readers + 0
          BY <3>2 DEF drain
        <5>3. d.writer = (st.writer \/ (HeadIsExclusive(q) /\ g = 1))
          BY Zenon DEF drain
        <5>4. d.readers = 0
          BY <5>1, <5>2
        <5> QED
          BY <3>2, <5>1, <5>3, <5>4, Zenon
      <4> QED
        BY <2>3, <4>1, <4>2, <4>3, <4>4, <4>5
    <3>3. CASE g > 0 /\ ~HeadIsExclusive(q)
      <4>1. ~st.writer /\ \A c \in G : token'[c].mode = "shared"
        BY <1>4, <1>6, <1>11, <3>3
      <4>2. HeldShared(token', s) = HeldShared(toks, s) \cup G
        BY <1>6, <1>11, <4>1 DEF HeldShared, Held
      <4>3. HeldShared(toks, s) \cap G = {}
        BY <1>6 DEF HeldShared
      <4>4. Cardinality(HeldShared(token', s)) = st.readers + g
        <5>1. Cardinality(HeldShared(toks, s) \cup G)
                = Cardinality(HeldShared(toks, s)) + Cardinality(G)
                    - Cardinality(HeldShared(toks, s) \cap G)
          <6> HIDE DEF G
          <6> QED
            BY <2>4, <2>5, FS_Union
        <5>2. Cardinality(HeldShared(toks, s) \cap G) = 0
          BY <4>3, FS_EmptySet
        <5>3. st.readers \in Nat /\ g \in Nat
          BY <1>3, <1>4 DEF LockState
        <5> QED
          BY <2>3, <2>5, <4>2, <5>1, <5>2, <5>3
      <4>5. HeldExclusive(token', s) = {}
        BY <1>6, <1>11, <2>3, <4>1 DEF HeldExclusive, Held
      <4>6. d.readers = st.readers + g /\ ~d.writer
        BY <1>3, <3>3, <4>1 DEF drain, LockState
      <4> QED
        BY <4>4, <4>5, <4>6
    <3> QED
      BY <1>3, <1>4, <3>1, <3>2, <3>3
  <2> QED
    BY <1>1, <2>1, <2>2, <2>6 DEF Occupied
<1>15. Registered(localStates', pending', token')
  <2>1. ASSUME IsEmpty(d), NEW c \in Callers
        PROVE  /\ Held(token', c) => token'[c].state # s
               /\ pending'[c] # NoRequest => pending'[c].state # s
    <3>1. cell'[s] = d /\ d.readers = 0 /\ ~d.writer /\ d.queue = <<>>
      BY <1>1, <1>7, <2>1 DEF Types, IsEmpty
    <3>2. HeldExclusive(token', s) = {} /\ Cardinality(HeldShared(token', s)) = 0
      BY <1>14, <3>1 DEF Occupied
    <3>3. HeldShared(token', s) = {}
      BY <3>2, FS_Subset, FS_EmptySet, LocalLockAssumption DEF HeldShared
    <3>4. Held(token', c) => token'[c] \in Token
      BY <1>10 DEF Types, Held
    <3>5. Held(token', c) => token'[c].state # s
      BY <3>2, <3>3, <3>4 DEF HeldShared, HeldExclusive, Token, Modes
    <3>6. pending'[c] # NoRequest => pending'[c].state # s
      BY <1>13, <3>1, EmptySeq DEF Queued
    <3> QED
      BY <3>5, <3>6
  <2>2. \A m \in Names : m # n => localStates'[m] = localStates[m]
    BY <1>1, <1>7 DEF Types
  <2>3. localStates'[n] = IF IsEmpty(d) THEN NoCell ELSE s
    BY <1>1, <1>7 DEF Types
  <2>4. ASSUME NEW c \in Callers, Held(token', c)
        PROVE  localStates'[token'[c].name] = token'[c].state
    <3>1. localStates[token'[c].name] = token'[c].state /\ token'[c].name \in Names
      <4>1. CASE c \in G
        BY <1>11, <4>1
      <4>2. CASE c \notin G
        BY <1>1, <1>11, <2>4, <4>2 DEF Registered, Types, Held, Token
      <4> QED
        BY <4>1, <4>2
    <3> QED
      BY <2>1, <2>2, <2>3, <2>4, <3>1
  <2>5. ASSUME NEW c \in Callers, pending'[c] # NoRequest
        PROVE  localStates'[pending'[c].name] = pending'[c].state
    <3>1. localStates[pending'[c].name] = pending'[c].state /\ pending'[c].name \in Names
      BY <1>1, <1>7, <2>5 DEF Registered, Types, Request
    <3> QED
      BY <2>1, <2>2, <2>3, <2>5, <3>1
  <2>6. \A m, k \in Names :
          localStates'[m] = localStates'[k] /\ localStates'[m] # NoCell => m = k
    BY <1>1, <2>2, <2>3 DEF Registered
  <2> QED
    BY <2>4, <2>5, <2>6 DEF Registered
<1> QED
  BY <1>10, <1>12, <1>13, <1>14, <1>15 DEF IInv, Good

----------------------------------------------------------------------------
(* What each handler does before it drains keeps a state good.              *)

\* The object getState returns, a new one included, fits the owners and the
\* waiters of its name.
LEMMA OpenKeepsGood ==
  ASSUME IInv, NEW n \in Names, NEW s \in Cells, StateFor(n, s)
  PROVE  Good([localStates EXCEPT ![n] = s], [cell EXCEPT ![s] = stateBefore(n, s)],
              pending, token)
<1> DEFINE ls == [localStates EXCEPT ![n] = s]
           ce == [cell EXCEPT ![s] = stateBefore(n, s)]
<1>1. /\ Types(localStates, cell, pending, token)
      /\ Registered(localStates, pending, token)
      /\ Queued(cell, pending)
      /\ WaitersHoldNothing(pending, token)
      /\ Occupied(cell, token)
  BY DEF IInv, Good
<1>2. CASE localStates[n] # NoCell
  <2>1. localStates[n] = s /\ stateBefore(n, s) = cell[s]
    BY <1>2 DEF StateFor, stateBefore
  <2>2. ls = localStates /\ ce = cell
    BY <1>1, <2>1 DEF Types
  <2> QED
    BY <1>1, <2>2 DEF Good
<1>3. CASE localStates[n] = NoCell
  <2>1. /\ stateBefore(n, s) = EmptyState
        /\ \A m \in Names : localStates[m] # s
        /\ \A c \in Callers : /\ pending[c] # NoRequest => pending[c].state # s
                              /\ Held(token, c) => token[c].state # s
    BY <1>3 DEF StateFor, stateBefore, Refers, Waiting, Held
  <2>2. EmptyState \in LockState
    BY EmptySeq DEF EmptyState, LockState
  <2>3. ls[n] = s /\ \A m \in Names : m # n => ls[m] = localStates[m]
    BY <1>1 DEF Types
  <2>4. ce[s] = EmptyState /\ \A x \in Cells : x # s => ce[x] = cell[x]
    BY <1>1, <2>1 DEF Types
  <2>5. Types(ls, ce, pending, token)
    BY <1>1, <2>1, <2>2 DEF Types
  <2>6. Registered(ls, pending, token)
    <3>1. \A m, k \in Names : ls[m] = ls[k] /\ ls[m] # NoCell => m = k
      BY <1>1, <2>1, <2>3 DEF Registered
    <3>2. ASSUME NEW c \in Callers, Held(token, c)
          PROVE  ls[token[c].name] = token[c].state
      <4>1. token[c].name \in Names /\ token[c].state \in Cells
        BY <1>1, <3>2 DEF Types, Held, Token
      <4> QED
        BY <1>1, <1>3, <2>3, <3>2, <4>1, LocalLockAssumption DEF Registered
    <3>3. ASSUME NEW c \in Callers, pending[c] # NoRequest
          PROVE  ls[pending[c].name] = pending[c].state
      <4>1. pending[c].name \in Names /\ pending[c].state \in Cells
        BY <1>1, <3>3 DEF Types, Request
      <4> QED
        BY <1>1, <1>3, <2>3, <3>3, <4>1, LocalLockAssumption DEF Registered
    <3> QED
      BY <3>1, <3>2, <3>3 DEF Registered
  <2>7. Queued(ce, pending)
    <3>1. Len(ce[s].queue) = 0
      BY <2>4, EmptySeq DEF EmptyState
    <3>2. \A c \in Callers : pending[c] # NoRequest => pending[c].state \in Cells
      BY <1>1 DEF Types, Request
    <3> QED
      BY <1>1, <2>1, <2>4, <3>1, <3>2 DEF Queued
  <2>8. Occupied(ce, token)
    <3>1. HeldShared(token, s) = {} /\ HeldExclusive(token, s) = {}
      BY <2>1 DEF HeldShared, HeldExclusive
    <3>2. ce[s].readers = 0 /\ ~ce[s].writer
      BY <2>4 DEF EmptyState
    <3> QED
      BY <1>1, <2>4, <3>1, <3>2, FS_EmptySet DEF Occupied
  <2> QED
    BY <1>1, <2>5, <2>6, <2>7, <2>8 DEF Good
<1> QED
  BY <1>2, <1>3

\* An immediate grant to a caller that neither owns nor waits.
LEMMA GrantKeepsGood ==
  ASSUME NEW ls, NEW ce, NEW pe, NEW to, Good(ls, ce, pe, to),
         NEW c \in Callers, pe[c] = NoRequest, ~Held(to, c),
         NEW n \in Names, NEW s \in Cells, ls[n] = s,
         NEW mode \in Modes, canGrant(ce[s], mode)
  PROVE  Good(ls,
              [ce EXCEPT ![s] = IF mode = "exclusive" THEN [ce[s] EXCEPT !.writer = TRUE]
                                ELSE [ce[s] EXCEPT !.readers = @ + 1]],
              pe, [to EXCEPT ![c] = NewToken(n, s, mode)])
<1> DEFINE st == IF mode = "exclusive" THEN [ce[s] EXCEPT !.writer = TRUE]
                 ELSE [ce[s] EXCEPT !.readers = @ + 1]
           ce1 == [ce EXCEPT ![s] = st]
           to1 == [to EXCEPT ![c] = NewToken(n, s, mode)]
<1>1. /\ Types(ls, ce, pe, to)
      /\ Registered(ls, pe, to)
      /\ Queued(ce, pe)
      /\ WaitersHoldNothing(pe, to)
      /\ Occupied(ce, to)
  BY DEF Good
<1>2. ce[s] \in LockState /\ ce \in [Cells -> LockState]
  BY <1>1 DEF Types
<1>3. /\ st \in LockState /\ st.queue = ce[s].queue
      /\ mode = "exclusive" => st.writer /\ st.readers = ce[s].readers
      /\ mode # "exclusive" => ~st.writer /\ st.readers = ce[s].readers + 1
  <2>1. CASE mode = "exclusive"
    <3>1. st = [ce[s] EXCEPT !.writer = TRUE]
      BY <2>1
    <3>2. /\ st \in LockState /\ st.queue = ce[s].queue
          /\ st.readers = ce[s].readers /\ st.writer = TRUE
      BY <1>2, <3>1, WithWriter
    <3> HIDE DEF st
    <3> QED
      BY <2>1, <3>2
  <2>2. CASE mode # "exclusive"
    <3>1. st = [ce[s] EXCEPT !.readers = @ + 1]
      BY <2>2
    <3>2. /\ st \in LockState /\ st.queue = ce[s].queue
          /\ st.readers = ce[s].readers + 1 /\ st.writer = ce[s].writer
      <4>1. ce[s].readers + 1 \in Nat
        BY <1>2 DEF LockState
      <4> HIDE DEF st
      <4> QED
        BY <1>2, <3>1, <4>1, WithReaders
    <3>3. ~ce[s].writer
      BY DEF canGrant
    <3> HIDE DEF st
    <3> QED
      BY <2>2, <3>2, <3>3
  <2> QED
    BY <2>1, <2>2
<1>4. /\ to1[c] = NewToken(n, s, mode) /\ to1[c] \in Token
      /\ \A d \in Callers : d # c => to1[d] = to[d]
  BY <1>1 DEF Types, NewToken, Token
<1>5. to1[c].state = s /\ to1[c].name = n /\ to1[c].mode = mode /\ ~to1[c].released
  BY <1>4 DEF NewToken
<1>6. Held(to1, c)
  BY <1>4, <1>5, LocalLockAssumption DEF Held
<1>7. ce1[s] = st /\ \A x \in Cells : x # s => ce1[x] = ce[x]
  BY <1>2
<1>8. Types(ls, ce1, pe, to1)
  BY <1>1, <1>2, <1>3, <1>4 DEF Types
<1>9. Registered(ls, pe, to1)
  BY <1>1, <1>4, <1>5 DEF Registered, Held
<1>10. Queued(ce1, pe)
  <2>1. \A x \in Cells : ce1[x].queue = ce[x].queue
    BY <1>3, <1>7
  <2>2. \A d \in Callers : pe[d] # NoRequest => pe[d].state \in Cells
    BY <1>1 DEF Types, Request
  <2> QED
    BY <1>1, <2>1, <2>2 DEF Queued
<1>11. WaitersHoldNothing(pe, to1)
  BY <1>1, <1>4 DEF WaitersHoldNothing, Held
<1>12. Occupied(ce1, to1)
  <2>1. \A x \in Cells : x # s => HeldShared(to1, x) = HeldShared(to, x)
                                /\ HeldExclusive(to1, x) = HeldExclusive(to, x)
    BY <1>4, <1>5 DEF HeldShared, HeldExclusive, Held
  <2>2. CASE mode = "exclusive"
    <3>1. HeldShared(to1, s) = HeldShared(to, s)
      BY <1>4, <1>5, <2>2 DEF HeldShared, Held
    <3>2. HeldExclusive(to, s) = {} /\ ce[s].readers = 0
      BY <1>1, <2>2 DEF Occupied, canGrant
    <3>3. HeldExclusive(to1, s) = {c}
      BY <1>4, <1>5, <1>6, <2>2, <3>2 DEF HeldExclusive, Held
    <3> HIDE DEF st, ce1, to1
    <3> QED
      BY <1>1, <1>3, <1>7, <2>1, <2>2, <3>1, <3>2, <3>3 DEF Occupied
  <2>3. CASE mode = "shared"
    <3>1. HeldShared(to1, s) = HeldShared(to, s) \cup {c} /\ c \notin HeldShared(to, s)
      BY <1>4, <1>5, <1>6, <2>3 DEF HeldShared, Held
    <3>2. HeldExclusive(to1, s) = {}
      BY <1>1, <1>4, <1>5, <2>3 DEF HeldExclusive, Held, Occupied, canGrant
    <3>3. IsFiniteSet(HeldShared(to, s))
      BY FS_Subset, LocalLockAssumption DEF HeldShared
    <3>4. Cardinality(HeldShared(to1, s)) = Cardinality(HeldShared(to, s)) + 1
      BY <3>1, <3>3, FS_AddElement
    <3> HIDE DEF st, ce1, to1
    <3> QED
      BY <1>1, <1>3, <1>7, <2>1, <2>3, <3>2, <3>4 DEF Occupied
  <2> QED
    BY <2>2, <2>3 DEF Modes
<1> QED
  BY <1>8, <1>9, <1>10, <1>11, <1>12 DEF Good

\* A caller that has to wait joins the queue.
LEMMA EnqueueKeepsGood ==
  ASSUME NEW ls, NEW ce, NEW pe, NEW to, Good(ls, ce, pe, to),
         NEW c \in Callers, pe[c] = NoRequest, ~Held(to, c),
         NEW n \in Names, NEW s \in Cells, ls[n] = s, NEW mode \in Modes
  PROVE  Good(ls, [ce EXCEPT ![s] = [ce[s] EXCEPT !.queue = Append(@, c)]],
              [pe EXCEPT ![c] = [name |-> n, state |-> s, mode |-> mode]], to)
<1> DEFINE q == ce[s].queue
           st == [ce[s] EXCEPT !.queue = Append(@, c)]
           ce1 == [ce EXCEPT ![s] = st]
           r == [name |-> n, state |-> s, mode |-> mode]
           pe1 == [pe EXCEPT ![c] = r]
<1>1. /\ Types(ls, ce, pe, to)
      /\ Registered(ls, pe, to)
      /\ Queued(ce, pe)
      /\ WaitersHoldNothing(pe, to)
      /\ Occupied(ce, to)
  BY DEF Good
<1>2. ce[s] \in LockState /\ ce \in [Cells -> LockState]
  BY <1>1 DEF Types
<1>3. q \in Seq(Callers) /\ Len(q) \in Nat
  BY <1>2, LenProperties DEF LockState
<1>4. /\ st \in LockState /\ st.queue = Append(q, c)
      /\ st.readers = ce[s].readers /\ st.writer = ce[s].writer
  <2>1. Append(q, c) \in Seq(Callers)
    BY <1>3
  <2> HIDE DEF q
  <2>2. st = [ce[s] EXCEPT !.queue = Append(q, c)]
    BY DEF q
  <2> QED
    BY <1>2, <2>1, <2>2 DEF LockState
<1>5. /\ Len(st.queue) = Len(q) + 1
      /\ st.queue[Len(q) + 1] = c
      /\ \A i \in 1 .. Len(q) : st.queue[i] = q[i]
  BY <1>3, <1>4
<1>6. /\ r \in Request /\ r # NoRequest
      /\ pe1[c] = r
      /\ \A d \in Callers : d # c => pe1[d] = pe[d]
  BY <1>1, LocalLockAssumption DEF Types, Request
<1>7. ce1[s] = st /\ \A x \in Cells : x # s => ce1[x] = ce[x]
  BY <1>2
<1>8. Types(ls, ce1, pe1, to)
  BY <1>1, <1>2, <1>4, <1>6 DEF Types
<1>9. Registered(ls, pe1, to)
  BY <1>1, <1>6 DEF Registered
<1>10. Queued(ce1, pe1)
  <2>1. \A x \in Cells : \A i \in 1 .. Len(ce[x].queue) :
          ce[x].queue[i] # c /\ ce[x].queue[i] \in Callers
    BY <1>1, ElementOfSeq DEF Queued, Types, LockState
  <2>2. ASSUME NEW x \in Cells, NEW i \in 1 .. Len(ce1[x].queue)
        PROVE  /\ pe1[ce1[x].queue[i]] # NoRequest
               /\ pe1[ce1[x].queue[i]].state = x
               /\ \A j \in 1 .. Len(ce1[x].queue) : ce1[x].queue[i] = ce1[x].queue[j] => i = j
    <3>1. CASE x # s
      BY <1>1, <1>6, <1>7, <2>1, <2>2, <3>1 DEF Queued
    <3>2. CASE x = s /\ i <= Len(q)
      <4>1. i \in 1 .. Len(q) /\ st.queue[i] = q[i]
        BY <1>3, <1>5, <1>7, <2>2, <3>2
      <4>2. /\ pe[q[i]] # NoRequest /\ pe[q[i]].state = s
            /\ \A j \in 1 .. Len(q) : q[i] = q[j] => i = j
        BY <1>1, <4>1 DEF Queued
      <4>3. q[i] # c /\ q[i] \in Callers
        BY <2>1, <4>1
      <4> HIDE DEF q, st
      <4> QED
        BY <1>3, <1>5, <1>6, <1>7, <3>2, <4>1, <4>2, <4>3
    <3>3. CASE x = s /\ i = Len(q) + 1
      <4> HIDE DEF st
      <4> QED
        BY <1>3, <1>5, <1>6, <1>7, <2>1, <3>3
    <3> QED
      <4> HIDE DEF q, st, pe1, ce1
      <4>1. CASE x = s
        <5>1. i \in 1 .. Len(q) + 1
          BY <1>5, <1>7, <2>2, <4>1
        <5>2. i <= Len(q) \/ i = Len(q) + 1
          BY <1>3, <5>1
        <5> QED
          BY <3>2, <3>3, <4>1, <5>2
      <4> QED
        BY <3>1, <4>1
  <2>3. ASSUME NEW d \in Callers, pe1[d] # NoRequest
        PROVE  \E i \in 1 .. Len(ce1[pe1[d].state].queue) : ce1[pe1[d].state].queue[i] = d
    <3>1. CASE d = c
      <4> HIDE DEF pe1, st, q, ce1
      <4>1. pe1[d].state = s /\ Len(q) + 1 \in 1 .. Len(st.queue)
        BY <1>3, <1>5, <1>6, <3>1
      <4> QED
        BY <1>5, <1>7, <3>1, <4>1
    <3>2. CASE d # c
      <4>1. pe1[d] = pe[d] /\ pe[d] # NoRequest /\ pe[d].state \in Cells
        BY <1>1, <1>6, <2>3, <3>2 DEF Types, Request
      <4>2. PICK i \in 1 .. Len(ce[pe[d].state].queue) : ce[pe[d].state].queue[i] = d
        BY <1>1, <4>1 DEF Queued
      <4>3. CASE pe[d].state # s
        BY <1>7, <4>1, <4>2, <4>3
      <4>4. CASE pe[d].state = s
        <5>1. i \in 1 .. Len(st.queue) /\ st.queue[i] = d
          BY <1>3, <1>5, <4>2, <4>4
        <5> QED
          BY <1>7, <4>1, <4>4, <5>1
      <4> QED
        BY <4>3, <4>4
    <3> QED
      BY <3>1, <3>2
  <2> QED
    BY <2>2, <2>3 DEF Queued
<1>11. WaitersHoldNothing(pe1, to)
  BY <1>1, <1>6 DEF WaitersHoldNothing
<1>12. Occupied(ce1, to)
  BY <1>1, <1>4, <1>7 DEF Occupied
<1> QED
  BY <1>8, <1>9, <1>10, <1>11, <1>12 DEF Good

\* A release takes its owner away.
LEMMA ReleaseKeepsGood ==
  ASSUME NEW ls, NEW ce, NEW pe, NEW to, Good(ls, ce, pe, to),
         NEW c \in Callers, Held(to, c)
  PROVE  Good(ls,
              [ce EXCEPT ![to[c].state] =
                 IF to[c].mode = "exclusive" THEN [ce[to[c].state] EXCEPT !.writer = FALSE]
                 ELSE [ce[to[c].state] EXCEPT !.readers = @ - 1]],
              pe, [to EXCEPT ![c].released = TRUE])
<1> DEFINE s == to[c].state
           st == IF to[c].mode = "exclusive" THEN [ce[s] EXCEPT !.writer = FALSE]
                 ELSE [ce[s] EXCEPT !.readers = @ - 1]
           ce1 == [ce EXCEPT ![s] = st]
           to1 == [to EXCEPT ![c].released = TRUE]
<1>1. /\ Types(ls, ce, pe, to)
      /\ Registered(ls, pe, to)
      /\ Queued(ce, pe)
      /\ WaitersHoldNothing(pe, to)
      /\ Occupied(ce, to)
  BY DEF Good
<1>2. to[c] \in Token /\ s \in Cells /\ to[c].mode \in Modes
  BY <1>1 DEF Types, Held, Token
<1>3. ce[s] \in LockState /\ ce \in [Cells -> LockState]
  BY <1>1, <1>2 DEF Types
<1>4. /\ to1[c] = [to[c] EXCEPT !.released = TRUE] /\ to1[c] \in Token
      /\ \A d \in Callers : d # c => to1[d] = to[d]
  BY <1>1, <1>2 DEF Types, Token
<1>5. to1[c].released
  BY <1>2, <1>4 DEF Token
<1>6. ~Held(to1, c) /\ \A d \in Callers : d # c => (Held(to1, d) <=> Held(to, d))
  BY <1>4, <1>5 DEF Held
<1>7. IsFiniteSet(HeldShared(to, s))
  BY FS_Subset, LocalLockAssumption DEF HeldShared
<1>8. Cardinality(HeldShared(to, s)) \in Nat
  BY <1>7, FS_CardinalityType
<1>9. \A x \in Cells : /\ HeldShared(to1, x) = HeldShared(to, x) \ {c}
                       /\ HeldExclusive(to1, x) = HeldExclusive(to, x) \ {c}
  BY <1>4, <1>6 DEF HeldShared, HeldExclusive
<1>10. /\ st \in LockState /\ st.queue = ce[s].queue
       /\ st.readers = Cardinality(HeldShared(to1, s))
       /\ ~st.writer /\ HeldExclusive(to1, s) = {}
  <2>1. CASE to[c].mode = "exclusive"
    <3>1. c \in HeldExclusive(to, s)
      BY <2>1 DEF HeldExclusive
    <3>2. HeldExclusive(to, s) = {c} /\ ce[s].readers = Cardinality(HeldShared(to, s))
      BY <1>1, <1>2, <3>1 DEF Occupied
    <3>3. HeldExclusive(to1, s) = {} /\ HeldShared(to1, s) = HeldShared(to, s)
      BY <1>2, <1>9, <2>1, <3>2 DEF HeldShared
    <3>4. st = [ce[s] EXCEPT !.writer = FALSE]
      BY <2>1
    <3>5. /\ st \in LockState /\ st.queue = ce[s].queue
          /\ st.readers = ce[s].readers /\ st.writer = FALSE
      BY <1>3, <3>4, WithWriter
    <3> HIDE DEF st, s, to1
    <3> QED
      BY <3>2, <3>3, <3>5
  <2>2. CASE to[c].mode = "shared"
    <3>1. c \in HeldShared(to, s)
      BY <2>2 DEF HeldShared
    <3>2. Cardinality(HeldShared(to1, s)) = Cardinality(HeldShared(to, s)) - 1
      <4>1. HeldShared(to1, s) = HeldShared(to, s) \ {c}
        BY <1>2, <1>9
      <4> HIDE DEF s, to1
      <4> QED
        BY <1>7, <3>1, <4>1, FS_RemoveElement
    <3>3. HeldShared(to, s) # {} /\ Cardinality(HeldShared(to, s)) # 0
      BY <1>7, <3>1, FS_EmptySet
    <3>4. ce[s].readers = Cardinality(HeldShared(to, s))
      BY <1>1, <1>2 DEF Occupied
    <3>5. ~ce[s].writer
      BY <1>1, <1>2, <3>3, <3>4 DEF Occupied
    <3>6. HeldExclusive(to1, s) = {}
      BY <1>1, <1>2, <1>9, <3>5 DEF Occupied
    <3>7. st = [ce[s] EXCEPT !.readers = @ - 1]
      BY <2>2
    <3>8. /\ st \in LockState /\ st.queue = ce[s].queue
          /\ st.readers = ce[s].readers - 1 /\ st.writer = ce[s].writer
      <4>1. ce[s].readers - 1 \in Nat
        BY <1>8, <3>3, <3>4
      <4> HIDE DEF st, s
      <4> QED
        BY <1>3, <3>7, <4>1, WithReaders
    <3> HIDE DEF st, s, to1
    <3> QED
      BY <3>2, <3>4, <3>5, <3>6, <3>8
  <2> QED
    BY <1>2, <2>1, <2>2 DEF Modes
<1>11. ce1[s] = st /\ \A x \in Cells : x # s => ce1[x] = ce[x]
  BY <1>2, <1>3
<1>12. Types(ls, ce1, pe, to1)
  BY <1>1, <1>3, <1>4, <1>10 DEF Types
<1>13. Registered(ls, pe, to1)
  BY <1>1, <1>4, <1>6 DEF Registered
<1>14. Queued(ce1, pe)
  <2>1. \A x \in Cells : ce1[x].queue = ce[x].queue
    BY <1>10, <1>11
  <2>2. \A d \in Callers : pe[d] # NoRequest => pe[d].state \in Cells
    BY <1>1 DEF Types, Request
  <2> HIDE DEF ce1, st, s, to1
  <2>3. ASSUME NEW x \in Cells, NEW i \in 1 .. Len(ce1[x].queue)
        PROVE  /\ pe[ce1[x].queue[i]] # NoRequest
               /\ pe[ce1[x].queue[i]].state = x
               /\ \A j \in 1 .. Len(ce1[x].queue) : ce1[x].queue[i] = ce1[x].queue[j] => i = j
    <3>1. ce1[x].queue = ce[x].queue /\ i \in 1 .. Len(ce[x].queue)
      BY <2>1, <2>3
    <3> QED
      BY <1>1, <3>1 DEF Queued
  <2>4. ASSUME NEW d \in Callers, pe[d] # NoRequest
        PROVE  \E i \in 1 .. Len(ce1[pe[d].state].queue) : ce1[pe[d].state].queue[i] = d
    <3>1. ce1[pe[d].state].queue = ce[pe[d].state].queue
      BY <2>1, <2>2, <2>4
    <3> QED
      BY <1>1, <2>4, <3>1 DEF Queued
  <2> QED
    BY <2>3, <2>4 DEF Queued
<1>15. WaitersHoldNothing(pe, to1)
  BY <1>1, <1>6 DEF WaitersHoldNothing
<1>16. Occupied(ce1, to1)
  <2>1. ASSUME NEW x \in Cells, x # s
        PROVE  HeldShared(to1, x) = HeldShared(to, x) /\ HeldExclusive(to1, x) = HeldExclusive(to, x)
    BY <1>9, <2>1 DEF HeldShared, HeldExclusive
  <2> HIDE DEF st, s, to1, ce1
  <2> QED
    BY <1>1, <1>10, <1>11, <2>1 DEF Occupied
<1> QED
  BY <1>12, <1>13, <1>14, <1>15, <1>16 DEF Good

\* A cancellation takes a waiter and its place away.
LEMMA CancelKeepsGood ==
  ASSUME NEW ls, NEW ce, NEW pe, NEW to, Good(ls, ce, pe, to),
         NEW c \in Callers, pe[c] # NoRequest,
         NEW i \in 1 .. Len(ce[pe[c].state].queue), ce[pe[c].state].queue[i] = c
  PROVE  Good(ls, [ce EXCEPT ![pe[c].state] = [ce[pe[c].state] EXCEPT !.queue = RemoveAt(@, i)]],
              [pe EXCEPT ![c] = NoRequest], to)
<1> DEFINE s == pe[c].state
           q == ce[s].queue
           r == RemoveAt(q, i)
           st == [ce[s] EXCEPT !.queue = r]
           ce1 == [ce EXCEPT ![s] = st]
           pe1 == [pe EXCEPT ![c] = NoRequest]
<1>1. /\ Types(ls, ce, pe, to)
      /\ Registered(ls, pe, to)
      /\ Queued(ce, pe)
      /\ WaitersHoldNothing(pe, to)
      /\ Occupied(ce, to)
  BY DEF Good
<1>2. pe[c] \in Request /\ s \in Cells
  BY <1>1 DEF Types, Request
<1>3. ce[s] \in LockState /\ ce \in [Cells -> LockState]
  BY <1>1, <1>2 DEF Types
<1>4. q \in Seq(Callers) /\ Len(q) \in Nat /\ i \in 1 .. Len(q)
  BY <1>3, LenProperties DEF LockState
<1>5. /\ r \in Seq(Callers) /\ Len(r) = Len(q) - 1
      /\ \A j \in 1 .. Len(q) - 1 : r[j] = IF j < i THEN q[j] ELSE q[j + 1]
  <2> HIDE DEF q
  <2> QED
    BY <1>4, RemoveAtPlaces DEF q
<1>6. /\ st \in LockState /\ st.queue = r
      /\ st.readers = ce[s].readers /\ st.writer = ce[s].writer
  <2> HIDE DEF r
  <2> QED
    BY <1>3, <1>5 DEF LockState
<1>7. ce1[s] = st /\ \A x \in Cells : x # s => ce1[x] = ce[x]
  BY <1>2, <1>3
<1>8. pe1[c] = NoRequest /\ \A d \in Callers : d # c => pe1[d] = pe[d]
  BY <1>1 DEF Types
<1>9. Types(ls, ce1, pe1, to)
  BY <1>1, <1>3, <1>6, <1>8 DEF Types
<1>10. Registered(ls, pe1, to)
  BY <1>1, <1>8 DEF Registered
<1>11. Queued(ce1, pe1)
  <2>1. \A j \in 1 .. Len(q) : /\ pe[q[j]] # NoRequest /\ pe[q[j]].state = s
                               /\ q[j] \in Callers /\ (q[j] = c => j = i)
                               /\ \A k \in 1 .. Len(q) : q[j] = q[k] => j = k
    <3>1. \A j \in 1 .. Len(q) : /\ pe[q[j]] # NoRequest /\ pe[q[j]].state = s
                                 /\ \A k \in 1 .. Len(q) : q[j] = q[k] => j = k
      BY <1>1, <1>2 DEF Queued
    <3>2. \A j \in 1 .. Len(q) : q[j] \in Callers
      BY <1>4, ElementOfSeq
    <3>3. q[i] = c
      OBVIOUS
    <3> HIDE DEF q, s
    <3> QED
      BY <1>4, <3>1, <3>2, <3>3
  <2>2. ASSUME NEW x \in Cells, NEW j \in 1 .. Len(ce1[x].queue)
        PROVE  /\ pe1[ce1[x].queue[j]] # NoRequest
               /\ pe1[ce1[x].queue[j]].state = x
               /\ \A k \in 1 .. Len(ce1[x].queue) : ce1[x].queue[j] = ce1[x].queue[k] => j = k
    <3>1. CASE x # s
      <4>1. ce1[x] = ce[x] /\ ce[x].queue \in Seq(Callers)
        BY <1>1, <1>7, <3>1 DEF Types, LockState
      <4>2. ce[x].queue[j] \in Callers /\ pe[ce[x].queue[j]].state = x
        BY <1>1, <2>2, <4>1, ElementOfSeq DEF Queued
      <4> QED
        BY <1>1, <1>8, <2>2, <3>1, <4>1, <4>2 DEF Queued
    <3>2. CASE x = s
      <4> HIDE DEF s, q, r, st, ce1, pe1
      <4>1. ce1[x].queue = r /\ j \in 1 .. Len(q) - 1
        BY <1>5, <1>6, <1>7, <2>2, <3>2
      <4> DEFINE jj == IF j < i THEN j ELSE j + 1
      <4>2. jj \in 1 .. Len(q) /\ jj # i /\ r[j] = q[jj]
        BY <1>4, <1>5, <4>1
      <4>3. pe1[r[j]] = pe[q[jj]]
        BY <1>8, <2>1, <4>2
      <4>4. ASSUME NEW k \in 1 .. Len(q) - 1, r[j] = r[k]
            PROVE  j = k
        <5> DEFINE kk == IF k < i THEN k ELSE k + 1
        <5>1. kk \in 1 .. Len(q) /\ kk # i /\ r[k] = q[kk]
          BY <1>4, <1>5, <4>1, <4>4
        <5>2. jj = kk
          BY <2>1, <4>2, <4>4, <5>1
        <5> QED
          BY <1>4, <4>1, <4>4, <5>2
      <4> HIDE DEF jj
      <4> QED
        BY <1>5, <2>1, <3>2, <4>1, <4>2, <4>3, <4>4
    <3> QED
      BY <3>1, <3>2
  <2>3. ASSUME NEW d \in Callers, pe1[d] # NoRequest
        PROVE  \E j \in 1 .. Len(ce1[pe1[d].state].queue) : ce1[pe1[d].state].queue[j] = d
    <3>1. d # c /\ pe1[d] = pe[d] /\ pe[d] # NoRequest /\ pe[d].state \in Cells
      BY <1>1, <1>8, <2>3 DEF Types, Request
    <3>2. PICK j \in 1 .. Len(ce[pe[d].state].queue) : ce[pe[d].state].queue[j] = d
      BY <1>1, <3>1 DEF Queued
    <3>3. CASE pe[d].state # s
      BY <1>7, <3>1, <3>2, <3>3
    <3>4. CASE pe[d].state = s
      <4>1. j \in 1 .. Len(q) /\ q[j] = d /\ j # i
        BY <3>1, <3>2, <3>4
      <4> HIDE DEF s, q, r, st, ce1, pe1
      <4>2. \E k \in 1 .. Len(r) : r[k] = d
        <5>1. CASE j < i
          <6>1. j \in 1 .. Len(q) - 1
            BY <1>4, <4>1, <5>1
          <6>2. r[j] = q[j]
            BY <1>5, <5>1, <6>1
          <6> QED
            BY <1>5, <4>1, <6>1, <6>2
        <5>2. CASE j > i
          <6>1. j - 1 \in 1 .. Len(q) - 1 /\ ~(j - 1 < i) /\ j - 1 + 1 = j
            BY <1>4, <4>1, <5>2
          <6>2. r[j - 1] = q[j]
            BY <1>5, <6>1
          <6> QED
            BY <1>5, <4>1, <6>1, <6>2
        <5> QED
          BY <1>4, <4>1, <5>1, <5>2
      <4> QED
        BY <1>6, <1>7, <3>1, <3>4, <4>2
    <3> QED
      BY <3>3, <3>4
  <2> QED
    BY <2>2, <2>3 DEF Queued
<1>12. WaitersHoldNothing(pe1, to)
  BY <1>1, <1>8 DEF WaitersHoldNothing
<1>13. Occupied(ce1, to)
  <2> HIDE DEF st, ce1
  <2> QED
    BY <1>1, <1>6, <1>7 DEF Occupied
<1> QED
  BY <1>9, <1>10, <1>11, <1>12, <1>13 DEF Good

----------------------------------------------------------------------------
(* What the queues and the registry look like between two handlers.         *)

\* No unused object stays registered.
Used(ls, ce) == \A n \in Names : ls[n] # NoCell => ~IsEmpty(ce[ls[n]])

\* The head of a queue could not be granted.
Blocked(ce, pe) ==
  \A s \in Cells : ce[s].queue # <<>> => ~canGrant(ce[s], pe[ce[s].queue[1]].mode)

Settled == Used(localStates, cell) /\ Blocked(cell, pending)

\* drain() stops at a head it cannot grant.
LEMMA DrainBlocks ==
  ASSUME NEW st \in LockState, drain(st).queue # <<>>,
         \A i \in 1 .. Len(st.queue) : pending[st.queue[i]].mode \in Modes
  PROVE  /\ Grants(st) + 1 \in 1 .. Len(st.queue)
         /\ drain(st).queue[1] = st.queue[Grants(st) + 1]
         /\ ~canGrant(drain(st), pending[st.queue[Grants(st) + 1]].mode)
<1> DEFINE q == st.queue
           g == Grants(st)
           d == drain(st)
<1>1. q \in Seq(Callers) /\ Len(q) \in Nat /\ st.readers \in Nat /\ st.writer \in BOOLEAN
  BY LenProperties DEF LockState
<1>2. \A i \in 1 .. Len(q) : q[i] \in Callers
  BY <1>1, ElementOfSeq
<1>3. g \in 0 .. Len(q)
  BY GrantsPrefix
<1>4. d.queue = SubSeq(q, g + 1, Len(q))
  BY DEF drain
<1>5. d.readers = st.readers + (IF HeadIsExclusive(q) THEN 0 ELSE g)
  BY DEF drain
<1>6. d.writer = (st.writer \/ (HeadIsExclusive(q) /\ g = 1))
  BY Zenon DEF drain
<1>7. /\ d.queue \in Seq(Callers) /\ Len(d.queue) = Len(q) - g
      /\ \A i \in 1 .. Len(q) - g : d.queue[i] = q[g + i]
  <2>1. \A i \in g + 1 .. Len(q) : q[i] \in Callers
    BY <1>1, <1>2, <1>3
  <2>2. /\ SubSeq(q, g + 1, Len(q)) \in Seq(Callers)
        /\ Len(SubSeq(q, g + 1, Len(q)))
             = IF g + 1 <= Len(q) THEN Len(q) - (g + 1) + 1 ELSE 0
        /\ \A i \in 1 .. Len(q) - (g + 1) + 1 :
             SubSeq(q, g + 1, Len(q))[i] = q[g + 1 + i - 1]
    <3> HIDE DEF q, g
    <3> QED
      BY <1>1, <1>3, <2>1, SubSeqProperties
  <2> HIDE DEF q, g, d
  <2> QED
    BY <1>1, <1>3, <1>4, <2>2
<1>8. Len(d.queue) > 0
  BY <1>7, EmptySeq
<1>9. g + 1 \in 1 .. Len(q) /\ d.queue[1] = q[g + 1]
  BY <1>1, <1>3, <1>7, <1>8
<1>10. ~canGrant(d, pending[q[g + 1]].mode)
  <2>1. CASE st.writer
    BY <1>6, <2>1 DEF canGrant
  <2>2. CASE ~st.writer /\ HeadIsExclusive(q)
    <3>1. CASE st.readers = 0
      <4>1. g = 1
        BY <2>2, <3>1 DEF Grants
      <4> QED
        BY <1>6, <2>2, <4>1 DEF canGrant
    <3>2. CASE st.readers # 0
      <4>1. g = 0 /\ pending[q[1]].mode = "exclusive"
        BY <2>2, <3>2 DEF Grants, HeadIsExclusive
      <4>2. d.readers = st.readers
        BY <1>1, <1>5, <2>2
      <4> QED
        BY <3>2, <4>1, <4>2 DEF canGrant
    <3> QED
      BY <3>1, <3>2
  <2>3. CASE ~st.writer /\ ~HeadIsExclusive(q)
    <3>1. g = LeadingShared(q)
      BY <2>3 DEF Grants
    <3>2. pending[q[g + 1]].mode # "shared"
      BY <1>1, <1>3, <1>9, <3>1, LeadingSharedStops
    <3>3. pending[q[g + 1]].mode = "exclusive"
      BY <1>9, <3>2 DEF Modes
    <3>4. g # 0
      BY <1>9, <2>3, <3>3 DEF HeadIsExclusive
    <3>5. d.readers # 0
      BY <1>1, <1>3, <1>5, <2>3, <3>4
    <3> QED
      BY <3>3, <3>5 DEF canGrant
  <2> QED
    BY <1>1, <2>1, <2>2, <2>3
<1> QED
  BY <1>9, <1>10

\* The drain and the clean-up settle the object and its name.
LEMMA DrainSettles ==
  ASSUME NEW n \in Names, NEW s \in Cells, NEW st, NEW toks, NEW pends, IInv, Settled,
         Good(localStates, [cell EXCEPT ![s] = st], pends, toks),
         localStates[n] = s,
         \A c \in Callers : pends[c] # NoRequest => pends[c] = pending[c],
         DrainAndClean(n, s, st, toks, pends)
  PROVE  Settled'
<1> DEFINE q == st.queue
           g == Grants(st)
           d == drain(st)
           mid == [cell EXCEPT ![s] = st]
<1>1. /\ Types(localStates, cell, pending, token)
      /\ Registered(localStates, pending, token)
      /\ Types(localStates, mid, pends, toks)
      /\ Queued(mid, pends)
  BY DEF Good, IInv
<1>2. /\ cell \in [Cells -> LockState] /\ localStates \in [Names -> Cells \cup {NoCell}]
      /\ mid[s] = st /\ \A x \in Cells : x # s => mid[x] = cell[x]
  BY <1>1 DEF Types
<1>3. st \in LockState /\ q \in Seq(Callers) /\ Len(q) \in Nat
  <2>1. st \in LockState
    BY <1>1, <1>2 DEF Types
  <2> QED
    BY <2>1, LenProperties DEF LockState
<1>4. /\ cell'[s] = d /\ \A x \in Cells : x # s => cell'[x] = cell[x]
      /\ localStates'[n] = (IF IsEmpty(d) THEN NoCell ELSE s)
      /\ \A m \in Names : m # n => localStates'[m] = localStates[m] /\ localStates[m] # s
  <2>1. s # NoCell
    BY LocalLockAssumption
  <2> QED
    BY <1>1, <1>2, <2>1 DEF DrainAndClean, removeEmptyState, Registered
<1>5. \A i \in 1 .. Len(q) :
        /\ q[i] \in Callers /\ pends[q[i]] = pending[q[i]] /\ pending[q[i]] \in Request
        /\ pending[q[i]].state = s /\ pending[q[i]].mode \in Modes
        /\ \A j \in 1 .. Len(q) : q[i] = q[j] => i = j
  <2> SUFFICES ASSUME NEW i \in 1 .. Len(q)
               PROVE  /\ q[i] \in Callers /\ pends[q[i]] = pending[q[i]]
                      /\ pending[q[i]] \in Request
                      /\ pending[q[i]].state = s /\ pending[q[i]].mode \in Modes
                      /\ \A j \in 1 .. Len(q) : q[i] = q[j] => i = j
    OBVIOUS
  <2>1. q[i] \in Callers
    BY <1>3, ElementOfSeq
  <2>2. /\ pends[q[i]] # NoRequest /\ pends[q[i]].state = s
        /\ \A j \in 1 .. Len(q) : q[i] = q[j] => i = j
    BY <1>1, <1>2 DEF Queued
  <2>3. pends[q[i]] = pending[q[i]] /\ pending[q[i]] \in Request
    BY <1>1, <2>1, <2>2 DEF Types
  <2> QED
    BY <2>1, <2>2, <2>3 DEF Request
<1>6. Used(localStates', cell')
  <2>1. \A m \in Names : m # n /\ localStates'[m] # NoCell =>
          localStates[m] \in Cells /\ localStates[m] # s /\ ~IsEmpty(cell[localStates[m]])
    BY <1>2, <1>4 DEF Settled, Used
  <2> HIDE DEF d
  <2> QED
    BY <1>4, <2>1 DEF Used
<1>7. Blocked(cell', pending')
  <2>1. ASSUME NEW x \in Cells, x # s, cell'[x].queue # <<>>
        PROVE  ~canGrant(cell'[x], pending'[cell'[x].queue[1]].mode)
    <3> DEFINE h == cell[x].queue[1]
    <3>1. cell'[x] = cell[x] /\ mid[x] = cell[x] /\ cell[x].queue \in Seq(Callers)
      BY <1>2, <1>4, <2>1 DEF LockState
    <3>2. 1 \in 1 .. Len(cell[x].queue) /\ h \in Callers
      BY <2>1, <3>1, EmptySeq, ElementOfSeq
    <3>3. pends[h] # NoRequest /\ pends[h].state = x
      BY <1>1, <3>1, <3>2 DEF Queued
    <3>4. h \notin Granted(st)
      <4>1. \A i \in 1 .. g : i \in 1 .. Len(q)
        BY <1>3, GrantsPrefix
      <4>2. \A i \in 1 .. g : pending[q[i]].state = s
        BY <1>5, <4>1
      <4>3. pending[h].state = x
        BY <3>2, <3>3
      <4> QED
        BY <2>1, <4>2, <4>3 DEF Granted
    <3>5. pending'[h] = pending[h]
      BY <3>2, <3>3, <3>4 DEF DrainAndClean
    <3> QED
      BY <2>1, <3>1, <3>5 DEF Settled, Blocked
  <2>2. ASSUME d.queue # <<>>
        PROVE  ~canGrant(d, pending'[d.queue[1]].mode)
    <3>1. /\ g + 1 \in 1 .. Len(q) /\ d.queue[1] = q[g + 1]
          /\ ~canGrant(d, pending[q[g + 1]].mode)
      BY <1>3, <1>5, <2>2, DrainBlocks
    <3>2. q[g + 1] \notin Granted(st)
      <4>1. g \in Nat /\ \A i \in 1 .. g : i \in 1 .. Len(q) /\ i # g + 1
        BY <1>3, GrantsPrefix
      <4> QED
        BY <1>5, <3>1, <4>1 DEF Granted
    <3>3. pending'[q[g + 1]] = pending[q[g + 1]]
      BY <1>5, <3>1, <3>2 DEF DrainAndClean
    <3> QED
      BY <3>1, <3>3
  <2> HIDE DEF d
  <2> QED
    BY <1>4, <2>1, <2>2 DEF Blocked
<1> QED
  BY <1>6, <1>7 DEF Settled

\* The empty registry is settled.
LEMMA InitSettled == Init => Settled
<1> SUFFICES ASSUME Init PROVE Settled
  OBVIOUS
<1>1. \A s \in Cells : cell[s].queue = <<>>
  BY DEF Init, EmptyState
<1>2. \A n \in Names : localStates[n] = NoCell
  BY DEF Init
<1> QED
  BY <1>1, <1>2 DEF Settled, Used, Blocked

\* A request that is granted at once leaves no queue, and one that is queued
\* has somebody to wait for.
LEMMA AcquireSettles ==
  ASSUME IInv, Settled, NEW c \in Callers, NEW n \in Names, NEW mode \in Modes,
         Acquire(c, n, mode)
  PROVE  Settled'
<1>1. pending[c] = NoRequest
  BY DEF Acquire, Waiting
<1>2. PICK s \in Cells :
        /\ StateFor(n, s)
        /\ localStates' = [localStates EXCEPT ![n] = s]
        /\ GrantNow(c, n, s, mode) \/ Enqueue(c, n, s, mode)
  BY DEF Acquire
<1> DEFINE st == stateBefore(n, s)
<1>3. /\ Types(localStates, cell, pending, token)
      /\ Registered(localStates, pending, token)
      /\ Queued(cell, pending)
  BY DEF IInv, Good
<1>4. /\ st \in LockState
      /\ st.queue # <<>> => st = cell[s]
  <2>1. EmptyState \in LockState /\ EmptyState.queue = <<>>
    BY EmptySeq DEF EmptyState, LockState
  <2> QED
    BY <1>3, <2>1 DEF stateBefore, Types
<1>5. /\ localStates'[n] = s
      /\ \A m \in Names : m # n => localStates'[m] = localStates[m] /\ localStates[m] # s
  <2>1. s # NoCell
    BY LocalLockAssumption
  <2>2. \A m \in Names : m # n => localStates[m] # s
    BY <1>2, <1>3, <2>1 DEF StateFor, Registered
  <2> QED
    BY <1>2, <1>3, <2>2 DEF Types
<1>6. ASSUME NEW x \in Cells, cell[x].queue # <<>>
      PROVE  cell[x].queue[1] \in Callers /\ cell[x].queue[1] # c
  <2>1. cell[x].queue \in Seq(Callers)
    BY <1>3 DEF Types, LockState
  <2>2. 1 \in 1 .. Len(cell[x].queue)
    BY <1>6, <2>1, EmptySeq
  <2>3. cell[x].queue[1] \in Callers
    BY <2>1, <2>2, ElementOfSeq
  <2>4. pending[cell[x].queue[1]] # NoRequest
    BY <1>3, <2>2 DEF Queued
  <2> QED
    BY <1>1, <2>3, <2>4
<1> HIDE DEF st
<1>7. CASE GrantNow(c, n, s, mode)
  <2> DEFINE new == IF mode = "exclusive" THEN [st EXCEPT !.writer = TRUE]
                    ELSE [st EXCEPT !.readers = @ + 1]
  <2>1. st.queue = <<>> /\ cell' = [cell EXCEPT ![s] = new] /\ pending' = pending
    BY <1>7 DEF GrantNow, st
  <2>2. new.queue = <<>> /\ ~IsEmpty(new)
    <3>1. CASE mode = "exclusive"
      BY <1>4, <2>1, <3>1, WithWriter DEF IsEmpty
    <3>2. CASE mode # "exclusive"
      <4>1. st.readers + 1 \in Nat /\ st.readers + 1 # 0
        BY <1>4 DEF LockState
      <4> QED
        BY <1>4, <2>1, <3>2, <4>1, WithReaders DEF IsEmpty
    <3> QED
      BY <3>1, <3>2
  <2>3. cell'[s] = new /\ \A x \in Cells : x # s => cell'[x] = cell[x]
    BY <1>3, <2>1 DEF Types
  <2> HIDE DEF new
  <2>4. Used(localStates', cell')
    <3>1. \A m \in Names : m # n /\ localStates[m] # NoCell =>
            localStates[m] \in Cells /\ ~IsEmpty(cell[localStates[m]])
      BY <1>3 DEF Settled, Used, Types
    <3> QED
      BY <1>5, <2>2, <2>3, <3>1 DEF Used
  <2>5. Blocked(cell', pending')
    BY <2>1, <2>2, <2>3 DEF Settled, Blocked
  <2> QED
    BY <2>4, <2>5 DEF Settled
<1>8. CASE Enqueue(c, n, s, mode)
  <2> DEFINE new == [st EXCEPT !.queue = Append(@, c)]
  <2>1. /\ ~(st.queue = <<>> /\ canGrant(st, mode)) /\ cell' = [cell EXCEPT ![s] = new]
        /\ pending' = [pending EXCEPT ![c] = [name |-> n, state |-> s, mode |-> mode]]
    BY <1>8 DEF Enqueue, st
  <2>2. st.queue \in Seq(Callers) /\ Len(st.queue) \in Nat
    BY <1>4, LenProperties DEF LockState
  <2>3. /\ Append(st.queue, c) \in Seq(Callers)
        /\ Len(Append(st.queue, c)) = Len(st.queue) + 1
        /\ Append(st.queue, c)[1] = IF st.queue = <<>> THEN c ELSE st.queue[1]
    <3>1. st.queue # <<>> => 1 \in 1 .. Len(st.queue)
      BY <2>2, EmptySeq
    <3>2. st.queue = <<>> => Len(st.queue) + 1 = 1
      BY EmptySeq
    <3> QED
      BY <2>2, <3>1, <3>2, AppendProperties
  <2>4. /\ new.queue = Append(st.queue, c) /\ new.queue # <<>>
        /\ new.readers = st.readers /\ new.writer = st.writer
    <3>1. Append(st.queue, c) # <<>>
      <4>1. Len(<<>>) = 0
        BY EmptySeq
      <4>2. Len(Append(st.queue, c)) # 0
        BY <2>2, <2>3
      <4> QED
        BY <4>1, <4>2
    <3> QED
      BY <1>4, <2>3, <3>1, WithQueue
  <2>5. cell'[s] = new /\ \A x \in Cells : x # s => cell'[x] = cell[x]
    BY <1>3, <2>1 DEF Types
  <2> HIDE DEF new
  <2>6. /\ pending'[c].mode = mode
        /\ \A d \in Callers : d # c => pending'[d] = pending[d]
    BY <1>3, <2>1 DEF Types
  <2>7. Used(localStates', cell')
    <3>1. \A m \in Names : m # n /\ localStates[m] # NoCell =>
            localStates[m] \in Cells /\ ~IsEmpty(cell[localStates[m]])
      BY <1>3 DEF Settled, Used, Types
    <3>2. ~IsEmpty(new)
      BY <2>4 DEF IsEmpty
    <3> QED
      BY <1>5, <2>5, <3>1, <3>2 DEF Used
  <2>8. Blocked(cell', pending')
    <3>1. ASSUME NEW x \in Cells, x # s, cell'[x].queue # <<>>
          PROVE  ~canGrant(cell'[x], pending'[cell'[x].queue[1]].mode)
      BY <1>6, <2>5, <2>6, <3>1 DEF Settled, Blocked
    <3>2. ~canGrant(new, pending'[new.queue[1]].mode)
      <4>1. CASE st.queue = <<>>
        BY <2>1, <2>3, <2>4, <2>6, <4>1 DEF canGrant
      <4>2. CASE st.queue # <<>>
        <5>1. /\ st = cell[s] /\ new.queue[1] = cell[s].queue[1]
              /\ pending'[cell[s].queue[1]] = pending[cell[s].queue[1]]
          BY <1>4, <1>6, <2>3, <2>4, <2>6, <4>2
        <5>2. ~canGrant(st, pending[cell[s].queue[1]].mode)
          BY <4>2, <5>1 DEF Settled, Blocked
        <5> QED
          BY <2>4, <5>1, <5>2 DEF canGrant
      <4> QED
        BY <4>1, <4>2
    <3> QED
      BY <2>5, <3>1, <3>2 DEF Blocked
  <2> QED
    BY <2>7, <2>8 DEF Settled
<1> QED
  BY <1>2, <1>7, <1>8

\* A release wakes whom it entitles.
LEMMA ReleaseSettles ==
  ASSUME IInv, Settled, NEW c \in Callers, Release(c)
  PROVE  Settled'
<1>1. /\ Types(localStates, cell, pending, token)
      /\ Registered(localStates, pending, token)
      /\ Held(token, c)
  BY DEF IInv, Good, Release, Holds, Held
<1>2. /\ token[c].name \in Names /\ token[c].state \in Cells
      /\ localStates[token[c].name] = token[c].state
  BY <1>1 DEF Types, Registered, Held, Token
<1>3. PICK n, s, st, toks :
        /\ n = token[c].name /\ s = token[c].state
        /\ st = IF token[c].mode = "exclusive" THEN [cell[s] EXCEPT !.writer = FALSE]
                ELSE [cell[s] EXCEPT !.readers = @ - 1]
        /\ toks = [token EXCEPT ![c].released = TRUE]
  OBVIOUS
<1>4. Good(localStates, [cell EXCEPT ![s] = st], pending, toks)
  BY <1>1, <1>3, ReleaseKeepsGood DEF IInv
<1>5. DrainAndClean(n, s, st, toks, pending)
  BY <1>3 DEF Release
<1> QED
  BY <1>2, <1>3, <1>4, <1>5, DrainSettles

\* So does a cancellation, of a waiter anywhere in the queue.
LEMMA CancelSettles ==
  ASSUME IInv, Settled, NEW c \in Callers, Cancel(c)
  PROVE  Settled'
<1>1. /\ Types(localStates, cell, pending, token)
      /\ Registered(localStates, pending, token)
      /\ pending[c] # NoRequest
  BY DEF IInv, Good, Cancel, Waiting
<1>2. /\ pending[c].name \in Names /\ pending[c].state \in Cells
      /\ localStates[pending[c].name] = pending[c].state
  BY <1>1 DEF Types, Registered, Request
<1>3. PICK i \in 1 .. Len(cell[pending[c].state].queue) :
        /\ cell[pending[c].state].queue[i] = c
        /\ DrainAndClean(pending[c].name, pending[c].state,
             [cell[pending[c].state] EXCEPT !.queue = RemoveAt(@, i)],
             token, [pending EXCEPT ![c] = NoRequest])
  BY DEF Cancel
<1>4. PICK n, s, st, pends :
        /\ n = pending[c].name /\ s = pending[c].state
        /\ st = [cell[s] EXCEPT !.queue = RemoveAt(@, i)]
        /\ pends = [pending EXCEPT ![c] = NoRequest]
  OBVIOUS
<1>5. Good(localStates, [cell EXCEPT ![s] = st], pends, token)
  BY <1>1, <1>3, <1>4, CancelKeepsGood DEF IInv
<1>6. DrainAndClean(n, s, st, token, pends)
  BY <1>3, <1>4
<1>7. \A d \in Callers : pends[d] # NoRequest => pends[d] = pending[d]
  BY <1>1, <1>4 DEF Types
<1>8. n \in Names /\ s \in Cells /\ localStates[n] = s
  BY <1>2, <1>4
<1> QED
  BY <1>5, <1>6, <1>7, <1>8, DrainSettles

\* Every step keeps the queues and the registry settled.
LEMMA NextSettles == IInv /\ Settled /\ [Next]_vars => Settled'
<1> SUFFICES ASSUME IInv, Settled, [Next]_vars PROVE Settled'
  OBVIOUS
<1>1. ASSUME NEW c \in Callers, NEW n \in Names, NEW mode \in Modes, Acquire(c, n, mode)
      PROVE  Settled'
  BY <1>1, AcquireSettles
<1>2. ASSUME NEW c \in Callers, Release(c)
      PROVE  Settled'
  BY <1>2, ReleaseSettles
<1>3. ASSUME NEW c \in Callers, Cancel(c)
      PROVE  Settled'
  BY <1>3, CancelSettles
<1>4. CASE UNCHANGED vars
  BY <1>4 DEF vars, Settled
<1>5. ASSUME NEW c \in Callers, ReleaseAgain(c)
      PROVE  Settled'
  BY <1>4, <1>5 DEF ReleaseAgain
<1> QED
  BY <1>1, <1>2, <1>3, <1>4, <1>5 DEF Next

----------------------------------------------------------------------------
(* The theorems.                                                           *)

\* The invariant holds of the empty registry.
LEMMA InitGood == Init => IInv
<1> SUFFICES ASSUME Init PROVE IInv
  OBVIOUS
<1>1. Types(localStates, cell, pending, token)
  BY EmptySeq DEF Init, Types, EmptyState, LockState
<1>2. /\ \A c \in Callers : pending[c] = NoRequest /\ ~Held(token, c)
      /\ \A n \in Names : localStates[n] = NoCell
      /\ \A s \in Cells : cell[s] = EmptyState
  BY DEF Init, Held
<1>3. \A s \in Cells : Len(cell[s].queue) = 0
  BY <1>2, EmptySeq DEF EmptyState
<1>4. Registered(localStates, pending, token)
  BY <1>2 DEF Registered
<1>5. Queued(cell, pending)
  BY <1>2, <1>3 DEF Queued
<1>6. WaitersHoldNothing(pending, token)
  BY <1>2 DEF WaitersHoldNothing
<1>7. Occupied(cell, token)
  <2>1. \A s \in Cells : HeldShared(token, s) = {} /\ HeldExclusive(token, s) = {}
    BY <1>2 DEF HeldShared, HeldExclusive
  <2>2. \A s \in Cells : cell[s].readers = 0 /\ ~cell[s].writer
    BY <1>2 DEF EmptyState
  <2> QED
    BY <2>1, <2>2, FS_EmptySet DEF Occupied
<1> QED
  BY <1>1, <1>4, <1>5, <1>6, <1>7 DEF IInv, Good

\* An acquisition, granted at once or queued.
LEMMA AcquireGood ==
  ASSUME IInv, NEW c \in Callers, NEW n \in Names, NEW mode \in Modes, Acquire(c, n, mode)
  PROVE  IInv'
<1>1. pending[c] = NoRequest /\ ~Held(token, c)
  BY DEF Acquire, Waiting, Holds, Held
<1>2. PICK s \in Cells :
        /\ StateFor(n, s)
        /\ localStates' = [localStates EXCEPT ![n] = s]
        /\ GrantNow(c, n, s, mode) \/ Enqueue(c, n, s, mode)
  BY DEF Acquire
<1> DEFINE st == stateBefore(n, s)
           mid == [cell EXCEPT ![s] = st]
<1>3. Good(localStates', mid, pending, token)
  BY <1>2, OpenKeepsGood
<1>4. /\ localStates \in [Names -> Cells \cup {NoCell}]
      /\ cell \in [Cells -> LockState]
  BY DEF IInv, Good, Types
<1>5. localStates'[n] = s /\ mid[s] = st
  BY <1>2, <1>4
<1>6. CASE GrantNow(c, n, s, mode)
  <2> DEFINE new == IF mode = "exclusive" THEN [mid[s] EXCEPT !.writer = TRUE]
                    ELSE [mid[s] EXCEPT !.readers = @ + 1]
  <2>1. canGrant(mid[s], mode)
    BY <1>5, <1>6 DEF GrantNow
  <2>2. Good(localStates', [mid EXCEPT ![s] = new], pending,
             [token EXCEPT ![c] = NewToken(n, s, mode)])
    <3> HIDE DEF mid, new
    <3> QED
      BY <1>1, <1>3, <1>5, <2>1, GrantKeepsGood DEF new
  <2>3. cell' = [mid EXCEPT ![s] = new]
    BY <1>4, <1>5, <1>6 DEF GrantNow
  <2>4. pending' = pending /\ token' = [token EXCEPT ![c] = NewToken(n, s, mode)]
    BY <1>6 DEF GrantNow
  <2> QED
    BY <2>2, <2>3, <2>4 DEF IInv
<1>7. CASE Enqueue(c, n, s, mode)
  <2> DEFINE new == [mid[s] EXCEPT !.queue = Append(@, c)]
  <2>1. Good(localStates', [mid EXCEPT ![s] = new],
             [pending EXCEPT ![c] = [name |-> n, state |-> s, mode |-> mode]], token)
    <3> HIDE DEF mid, new
    <3> QED
      BY <1>1, <1>3, <1>5, EnqueueKeepsGood DEF new
  <2>2. cell' = [mid EXCEPT ![s] = new]
    BY <1>4, <1>5, <1>7 DEF Enqueue
  <2>3. /\ pending' = [pending EXCEPT ![c] = [name |-> n, state |-> s, mode |-> mode]]
        /\ token' = token
    BY <1>7 DEF Enqueue
  <2> QED
    BY <2>1, <2>2, <2>3 DEF IInv
<1> QED
  BY <1>2, <1>6, <1>7

\* A release, with its drain.
LEMMA ReleaseGood ==
  ASSUME IInv, NEW c \in Callers, Release(c)
  PROVE  IInv'
<1>1. /\ Types(localStates, cell, pending, token)
      /\ Registered(localStates, pending, token)
      /\ Held(token, c)
      /\ Queued(cell, pending)
  BY DEF IInv, Good, Release, Holds, Held
<1>2. /\ token[c].name \in Names /\ token[c].state \in Cells
      /\ localStates[token[c].name] = token[c].state
      /\ cell[token[c].state] \in LockState
      /\ cell \in [Cells -> LockState]
  BY <1>1 DEF Types, Registered, Held, Token
<1>3. PICK n, s, st, toks, pends :
        /\ n = token[c].name /\ s = token[c].state
        /\ st = IF token[c].mode = "exclusive" THEN [cell[s] EXCEPT !.writer = FALSE]
                ELSE [cell[s] EXCEPT !.readers = @ - 1]
        /\ toks = [token EXCEPT ![c].released = TRUE]
        /\ pends = pending
  OBVIOUS
<1>4. Good(localStates, [cell EXCEPT ![s] = st], pends, toks)
  BY <1>1, <1>3, ReleaseKeepsGood DEF IInv
<1>5. DrainAndClean(n, s, st, toks, pends)
  BY <1>3 DEF Release
<1> QED
  BY <1>2, <1>3, <1>4, <1>5, DrainKeepsGood

\* A cancellation, with its drain.
LEMMA CancelGood ==
  ASSUME IInv, NEW c \in Callers, Cancel(c)
  PROVE  IInv'
<1>1. /\ Types(localStates, cell, pending, token)
      /\ Registered(localStates, pending, token)
      /\ Queued(cell, pending)
      /\ pending[c] # NoRequest
  BY DEF IInv, Good, Cancel, Waiting
<1>2. /\ pending[c].name \in Names /\ pending[c].state \in Cells
      /\ localStates[pending[c].name] = pending[c].state
      /\ cell[pending[c].state] \in LockState
      /\ cell \in [Cells -> LockState]
  BY <1>1 DEF Types, Registered, Request
<1>3. PICK i \in 1 .. Len(cell[pending[c].state].queue) :
        /\ cell[pending[c].state].queue[i] = c
        /\ DrainAndClean(pending[c].name, pending[c].state,
             [cell[pending[c].state] EXCEPT !.queue = RemoveAt(@, i)],
             token, [pending EXCEPT ![c] = NoRequest])
  BY DEF Cancel
<1>4. PICK n, s, st, toks, pends :
        /\ n = pending[c].name /\ s = pending[c].state
        /\ st = [cell[s] EXCEPT !.queue = RemoveAt(@, i)]
        /\ toks = token
        /\ pends = [pending EXCEPT ![c] = NoRequest]
  OBVIOUS
<1>5. Good(localStates, [cell EXCEPT ![s] = st], pends, toks)
  BY <1>1, <1>3, <1>4, CancelKeepsGood DEF IInv
<1>6. DrainAndClean(n, s, st, toks, pends)
  BY <1>3, <1>4
<1>7. \A j \in 1 .. Len(st.queue) : pends[st.queue[j]] = pending[st.queue[j]]
  <2> SUFFICES ASSUME NEW j \in 1 .. Len(st.queue)
               PROVE  pends[st.queue[j]] = pending[st.queue[j]]
    OBVIOUS
  <2>1. st \in LockState /\ [cell EXCEPT ![s] = st][s] = st /\ s \in Cells
    BY <1>2, <1>4, <1>5 DEF Good, Types
  <2>2. pends[st.queue[j]] # NoRequest /\ st.queue[j] \in Callers
    BY <1>5, <2>1, ElementOfSeq DEF Good, Queued, LockState
  <2> QED
    BY <1>1, <1>4, <2>2 DEF Types
<1>8. n \in Names /\ s \in Cells /\ localStates[n] = s
  BY <1>2, <1>4
<1> QED
  BY <1>2, <1>5, <1>6, <1>7, <1>8, DrainKeepsGood

\* Every step keeps the invariant.
LEMMA NextGood == IInv /\ [Next]_vars => IInv'
<1> SUFFICES ASSUME IInv, [Next]_vars PROVE IInv'
  OBVIOUS
<1>1. ASSUME NEW c \in Callers, NEW n \in Names, NEW mode \in Modes, Acquire(c, n, mode)
      PROVE  IInv'
  BY <1>1, AcquireGood
<1>2. ASSUME NEW c \in Callers, Release(c)
      PROVE  IInv'
  BY <1>2, ReleaseGood
<1>3. ASSUME NEW c \in Callers, Cancel(c)
      PROVE  IInv'
  BY <1>3, CancelGood
<1>4. CASE UNCHANGED vars
  BY <1>4 DEF vars, IInv
<1>5. ASSUME NEW c \in Callers, ReleaseAgain(c)
      PROVE  IInv'
  BY <1>4, <1>5 DEF ReleaseAgain
<1> QED
  BY <1>1, <1>2, <1>3, <1>4, <1>5 DEF Next

\* The inductive invariant holds in every reachable state.
THEOREM InvariantHolds == Spec => []IInv
  BY InitGood, NextGood, PTL DEF Spec

\* Every variable of the lock keeps its type.
THEOREM TypeCorrect == Spec => []TypeOK
<1>1. IInv => TypeOK
  BY DEF IInv, Good, Types, TypeOK
<1> QED
  BY <1>1, InvariantHolds, PTL

\* The reader count and the writer flag of every state object are exactly its
\* owners', for any number of callers, names and objects.
THEOREM OccupancyIsExact == Spec => []OccupancyExact
<1>1. ASSUME IInv PROVE OccupancyExact
  <2>1. Occupied(cell, token)
    BY <1>1 DEF IInv, Good
  <2>2. \A s \in Cells : /\ SharedOwners(s) = HeldShared(token, s)
                         /\ ExclusiveOwners(s) = HeldExclusive(token, s)
    BY DEF SharedOwners, ExclusiveOwners, HeldShared, HeldExclusive, Held, Holds
  <2> SUFFICES ASSUME NEW s \in Cells
               PROVE  /\ cell[s].readers = Cardinality(SharedOwners(s))
                      /\ Cardinality(ExclusiveOwners(s)) = IF cell[s].writer THEN 1 ELSE 0
    BY DEF OccupancyExact
  <2>3. CASE cell[s].writer
    <3>1. PICK c \in Callers : HeldExclusive(token, s) = {c}
      BY <2>1, <2>3 DEF Occupied
    <3>2. Cardinality(HeldExclusive(token, s)) = 1
      BY <3>1, FS_Singleton
    <3> QED
      BY <2>1, <2>2, <2>3, <3>2 DEF Occupied
  <2>4. CASE ~cell[s].writer
    BY <2>1, <2>2, <2>4, FS_EmptySet DEF Occupied
  <2> QED
    BY <2>3, <2>4
<1> QED
  BY <1>1, InvariantHolds, PTL

\* One exclusive owner of a state object is the only owner of its name.
LEMMA IInvExcludes == IInv => MutualExclusion
<1> SUFFICES ASSUME IInv PROVE MutualExclusion
  OBVIOUS
<1> SUFFICES ASSUME NEW c \in Callers, NEW d \in Callers, Holds(c), Holds(d), c # d,
                    token[c].name = token[d].name
             PROVE  token[c].mode = "shared" /\ token[d].mode = "shared"
  BY DEF MutualExclusion
<1>1. /\ Types(localStates, cell, pending, token)
      /\ Registered(localStates, pending, token)
      /\ Occupied(cell, token)
      /\ Held(token, c) /\ Held(token, d)
  BY DEF IInv, Good, Holds, Held
<1> DEFINE s == token[c].state
<1>2. /\ token[d].state = s /\ s \in Cells
      /\ token[c].mode \in Modes /\ token[d].mode \in Modes
  BY <1>1 DEF Types, Registered, Held, Token
<1>3. \A x \in Callers : IsFiniteSet(HeldShared(token, s))
  BY FS_Subset, LocalLockAssumption DEF HeldShared
<1>4. ASSUME NEW x \in {c, d}, token[x].mode = "exclusive"
      PROVE  FALSE
  <2>1. x \in HeldExclusive(token, s)
    BY <1>1, <1>2, <1>4 DEF HeldExclusive
  <2>2. HeldExclusive(token, s) = {x} /\ Cardinality(HeldShared(token, s)) = 0
    BY <1>1, <1>2, <2>1 DEF Occupied
  <2>3. HeldShared(token, s) = {}
    BY <1>3, <2>2, FS_EmptySet
  <2> QED
    BY <1>1, <1>2, <2>2, <2>3 DEF HeldShared, HeldExclusive, Modes
<1> QED
  BY <1>2, <1>4 DEF Modes

\* An exclusive owner of a name is its only owner, whatever state objects were
\* created, dropped and created again under the name meanwhile.
THEOREM OwnersExclude == Spec => []MutualExclusion
  BY IInvExcludes, InvariantHolds, PTL

\* Between two handlers every queue is blocked and every registered object used.
THEOREM StaysSettled == Spec => []Settled
  BY InvariantHolds, InitSettled, NextSettles, PTL DEF Spec

\* No wake-up is lost: after any release or cancellation the head of a queue is
\* one that cannot be granted yet.
THEOREM NoWakeupIsLost == Spec => []NoLostWakeup
<1>1. Settled => NoLostWakeup
  BY DEF Settled, Blocked, NoLostWakeup
<1> QED
  BY <1>1, StaysSettled, PTL

\* Deleting a state object by its name never drops one in use, and no unused
\* object stays registered, for any number of names, callers and objects.
THEOREM RegistryIsExact == Spec => []RegistryExact
<1>1. IInv /\ Settled => RegistryExact
  <2> SUFFICES ASSUME IInv, Settled
               PROVE  RegistryExact
    OBVIOUS
  <2>1. /\ Types(localStates, cell, pending, token)
        /\ Registered(localStates, pending, token)
        /\ Queued(cell, pending)
        /\ Occupied(cell, token)
        /\ \A c \in Callers : Holds(c) <=> Held(token, c)
    BY DEF IInv, Good, Held, Holds
  <2>2. ASSUME NEW n \in Names, localStates[n] # NoCell
        PROVE  \E c \in Callers : \/ Holds(c) /\ token[c].name = n
                                  \/ Waiting(c) /\ pending[c].name = n
    <3> DEFINE s == localStates[n]
    <3>1. s \in Cells /\ cell[s] \in LockState
      BY <2>1, <2>2 DEF Types
    <3>2. cell[s].writer \/ cell[s].readers # 0 \/ cell[s].queue # <<>>
      BY <2>2 DEF Settled, Used, IsEmpty
    <3>3. ASSUME NEW c \in Callers, Held(token, c), token[c].state = s
          PROVE  token[c].name = n
      <4>1. token[c].name \in Names /\ localStates[token[c].name] = s
        BY <2>1, <3>3 DEF Types, Registered, Held, Token
      <4> QED
        BY <2>1, <2>2, <4>1 DEF Registered
    <3>4. CASE cell[s].writer
      <4>1. PICK c \in Callers : HeldExclusive(token, s) = {c}
        BY <2>1, <3>1, <3>4 DEF Occupied
      <4>2. Held(token, c) /\ token[c].state = s
        BY <4>1 DEF HeldExclusive
      <4> QED
        BY <2>1, <3>3, <4>2
    <3>5. CASE cell[s].readers # 0
      <4>1. HeldShared(token, s) # {}
        BY <2>1, <3>1, <3>5, FS_EmptySet DEF Occupied
      <4>2. PICK c \in Callers : Held(token, c) /\ token[c].state = s
        BY <4>1 DEF HeldShared
      <4> QED
        BY <2>1, <3>3, <4>2
    <3>6. CASE cell[s].queue # <<>>
      <4> DEFINE c == cell[s].queue[1]
      <4>1. cell[s].queue \in Seq(Callers)
        BY <3>1 DEF LockState
      <4>2. 1 \in 1 .. Len(cell[s].queue) /\ c \in Callers
        BY <3>6, <4>1, EmptySeq, ElementOfSeq
      <4>3. pending[c] # NoRequest /\ pending[c].state = s
        BY <2>1, <3>1, <4>2 DEF Queued
      <4>4. pending[c].name \in Names /\ localStates[pending[c].name] = s
        BY <2>1, <4>2, <4>3 DEF Types, Registered, Request
      <4>5. pending[c].name = n
        BY <2>1, <2>2, <4>4 DEF Registered
      <4> QED
        BY <4>2, <4>3, <4>5 DEF Waiting
    <3> QED
      BY <3>2, <3>4, <3>5, <3>6
  <2> QED
    BY <2>1, <2>2 DEF RegistryExact, Registered, Waiting
<1> QED
  BY <1>1, InvariantHolds, StaysSettled, PTL

----------------------------------------------------------------------------
(* The inductive invariant: how the line of a name, the owners and the      *)
(* queue of its state object fit together.                                  *)

\* c owns the lock n or waits for it.
Stands(pe, to, c, n) ==
  \/ Held(to, c) /\ to[c].name = n
  \/ pe[c] # NoRequest /\ pe[c].name = n

ModeOf(pe, to, c) == IF Held(to, c) THEN to[c].mode ELSE pe[c].mode

\* A line holds the owners and the waiters of its name, with their modes.
Lined(li, pe, to) ==
  /\ li \in [Names -> Seq(Entry(Callers))]
  /\ \A n \in Names : IsLine(li[n], Callers)
  /\ \A n \in Names, c \in Callers : InLine(c, li[n]) <=> Stands(pe, to, c, n)
  /\ \A n \in Names, c \in Callers :
       Stands(pe, to, c, n) => HasMode(c, li[n], ModeOf(pe, to, c))

\* The owners stand before the waiters, and the waiters as in the queue.
Ordered(li, ce, pe, to) ==
  /\ \A c, d \in Callers :
       Held(to, c) /\ pe[d] # NoRequest /\ to[c].name = pe[d].name
         => PlaceOf(c, li[pe[d].name]) < PlaceOf(d, li[pe[d].name])
  /\ \A s \in Cells : \A i, j \in 1 .. Len(ce[s].queue) :
       i < j => PlaceOf(ce[s].queue[i], li[pe[ce[s].queue[j]].name])
                  < PlaceOf(ce[s].queue[j], li[pe[ce[s].queue[j]].name])

HInv ==
  /\ IInv /\ Settled
  /\ Lined(line, pending, token)
  /\ Ordered(line, cell, pending, token)

----------------------------------------------------------------------------
(* The line entitles exactly the owners.                                    *)

Holders(n) == {c \in Callers : Holds(c) /\ token[c].name = n}

\* Owners of one name share it, or there is only one.
LEMMA OwnersOfName ==
  ASSUME IInv, NEW c \in Callers, NEW d \in Callers, Holds(c), Holds(d), c # d,
         token[c].name = token[d].name
  PROVE  token[c].mode = "shared" /\ token[d].mode = "shared"
BY IInvExcludes DEF MutualExclusion

\* The heart of the refinement: whom the line entitles owns the lock, and
\* nobody else does.
LEMMA LineEntitlesOwners ==
  ASSUME HInv, NEW n \in Names
  PROVE  Holders(n) = OwnersOf(line[n])
<1> DEFINE l == line[n]
<1>1. /\ Types(localStates, cell, pending, token)
      /\ Registered(localStates, pending, token)
      /\ Queued(cell, pending)
      /\ WaitersHoldNothing(pending, token)
      /\ Occupied(cell, token)
      /\ Blocked(cell, pending)
      /\ Lined(line, pending, token) /\ Ordered(line, cell, pending, token)
  BY DEF HInv, IInv, Good, Settled
<1>2. /\ IsLine(l, Callers) /\ Len(l) \in Nat /\ DOMAIN l = 1 .. Len(l)
      /\ \A i \in 1 .. Len(l) : l[i].caller \in Callers /\ l[i].mode \in EntryModes
  BY <1>1, LinePlaces DEF Lined, IsLine
<1>3. \A c \in Callers : Holds(c) <=> Held(token, c)
  BY DEF Holds, Held
<1> HIDE DEF l
<1>4. ASSUME NEW c \in Holders(n)
      PROVE  c \in OwnersOf(l)
  <2> DEFINE i == PlaceOf(c, l)
  <2>1. c \in Callers /\ Held(token, c) /\ token[c].name = n /\ Stands(pending, token, c, n)
    BY <1>3 DEF Holders, Stands
  <2>2. InLine(c, l) /\ HasMode(c, l, token[c].mode)
    BY <1>1, <2>1 DEF Lined, ModeOf, l
  <2>3. i \in 1 .. Len(l) /\ l[i].caller = c /\ l[i].mode = token[c].mode
    BY <1>2, <2>2, PlaceOfInLine DEF HasMode
  <2>4. ASSUME NEW j \in 1 .. Len(l), j < i
        PROVE  l[j].mode = "shared" /\ l[i].mode = "shared"
    <3> DEFINE d == l[j].caller
    <3>1. d \in Callers /\ InLine(d, l) /\ PlaceOf(d, l) = j
      <4>1. d \in Callers /\ InLine(d, l)
        BY <1>2 DEF InLine
      <4> QED
        BY <1>2, <4>1, PlaceOfInLine
    <3>2. Stands(pending, token, d, n) /\ d # c
      BY <1>1, <2>3, <2>4, <3>1 DEF Lined, l
    <3>3. Held(token, d) /\ token[d].name = n
      <4>1. ASSUME pending[d] # NoRequest, pending[d].name = n
            PROVE  FALSE
        <5>1. PlaceOf(c, l) < PlaceOf(d, l)
          BY <1>1, <2>1, <3>1, <4>1 DEF Ordered, l
        <5> QED
          BY <1>2, <2>3, <2>4, <3>1, <5>1
      <4> QED
        BY <3>2, <4>1 DEF Stands
    <3>4. token[d].mode = "shared" /\ token[c].mode = "shared"
      BY <1>3, <2>1, <3>1, <3>2, <3>3, OwnersOfName DEF HInv
    <3>5. l[j].mode = "shared"
      BY <1>1, <1>2, <3>1, <3>2, <3>3, <3>4 DEF Lined, ModeOf, HasMode, l
    <3> QED
      BY <2>3, <3>4, <3>5
  <2>5. OwnsAt(l, i)
    <3>1. CASE l[i].mode = "exclusive"
      <4>1. ~(1 < i)
        BY <1>2, <2>3, <2>4, <3>1
      <4> QED
        BY <1>2, <2>3, <3>1, <4>1 DEF OwnsAt
    <3>2. CASE l[i].mode # "exclusive"
      <4>1. l[i].mode = "shared"
        BY <1>2, <2>3, <3>2 DEF EntryModes
      <4>2. \A j \in 1 .. i : l[j].mode = "shared"
        BY <1>2, <2>3, <2>4, <4>1
      <4> QED
        BY <3>2, <4>2 DEF OwnsAt
    <3> QED
      BY <3>1, <3>2
  <2> QED
    BY <1>2, <2>2, <2>5, OwnersStand
<1>5. ASSUME NEW d \in OwnersOf(l)
      PROVE  d \in Holders(n)
  <2> DEFINE i == PlaceOf(d, l)
  <2>1. InLine(d, l) /\ OwnsAt(l, i)
    BY <1>2, OwnersStand
  <2>2. i \in 1 .. Len(l) /\ l[i].caller = d /\ d \in Callers
    BY <1>2, <2>1, PlaceOfInLine
  <2>3. Stands(pending, token, d, n)
    BY <1>1, <2>1, <2>2 DEF Lined, l
  <2>4. ASSUME pending[d] # NoRequest, pending[d].name = n
        PROVE  FALSE
    <3> DEFINE s == pending[d].state
               h == cell[s].queue[1]
    <3>1. pending[d] \in Request /\ s \in Cells /\ cell[s] \in LockState
      BY <1>1, <2>2, <2>4 DEF Types, Request
    <3>2. PICK k \in 1 .. Len(cell[s].queue) : cell[s].queue[k] = d
      BY <1>1, <2>2, <2>4 DEF Queued
    <3>3. /\ cell[s].queue \in Seq(Callers) /\ Len(cell[s].queue) \in Nat
          /\ cell[s].queue # <<>> /\ 1 \in 1 .. Len(cell[s].queue) /\ h \in Callers
      <4>1. cell[s].queue \in Seq(Callers)
        BY <3>1 DEF LockState
      <4>2. Len(cell[s].queue) \in Nat /\ 1 \in 1 .. Len(cell[s].queue)
        BY <3>2, <4>1, LenProperties
      <4> QED
        BY <4>1, <4>2, EmptySeq, ElementOfSeq
    <3>4. /\ pending[h] # NoRequest /\ pending[h].state = s
          /\ pending[h] \in Request /\ pending[h].name = n
      <4>1. pending[h] # NoRequest /\ pending[h].state = s
        BY <1>1, <3>1, <3>3 DEF Queued
      <4>2. pending[h] \in Request
        BY <1>1, <3>3, <4>1 DEF Types
      <4>3. localStates[pending[h].name] = s /\ localStates[n] = s
        BY <1>1, <2>2, <2>4, <3>3, <4>1 DEF Registered
      <4>4. pending[h].name = n
        BY <1>1, <3>1, <4>2, <4>3, LocalLockAssumption DEF Registered, Request
      <4> QED
        BY <4>1, <4>2, <4>4
    <3>5. k = 1 \/ PlaceOf(h, l) < i
      BY <1>1, <2>4, <3>1, <3>2, <3>3 DEF Ordered, l
    <3>6. ~canGrant(cell[s], pending[h].mode)
      BY <1>1, <3>1, <3>3 DEF Blocked
    <3>7. \A e \in Callers : Held(token, e) /\ token[e].state = s
            => /\ token[e].name = n /\ InLine(e, l) /\ HasMode(e, l, token[e].mode)
               /\ PlaceOf(e, l) \in 1 .. Len(l) /\ l[PlaceOf(e, l)].mode = token[e].mode
               /\ PlaceOf(e, l) < i
      <4> SUFFICES ASSUME NEW e \in Callers, Held(token, e), token[e].state = s
                   PROVE  /\ token[e].name = n /\ InLine(e, l) /\ HasMode(e, l, token[e].mode)
                          /\ PlaceOf(e, l) \in 1 .. Len(l)
                          /\ l[PlaceOf(e, l)].mode = token[e].mode
                          /\ PlaceOf(e, l) < i
        OBVIOUS
      <4>1. token[e].name \in Names /\ localStates[token[e].name] = s /\ localStates[n] = s
        BY <1>1, <2>2, <2>4 DEF Types, Registered, Held, Token
      <4>2. token[e].name = n
        BY <1>1, <3>1, <4>1, LocalLockAssumption DEF Registered
      <4>3. InLine(e, l) /\ HasMode(e, l, token[e].mode)
        BY <1>1, <4>2 DEF Lined, Stands, ModeOf, l
      <4>4. PlaceOf(e, l) \in 1 .. Len(l) /\ l[PlaceOf(e, l)].mode = token[e].mode
        BY <1>2, <4>3, PlaceOfInLine DEF HasMode
      <4>5. PlaceOf(e, l) < i
        BY <1>1, <2>2, <2>4, <4>2 DEF Ordered, l
      <4> QED
        BY <4>2, <4>3, <4>4, <4>5
    <3>8. \E e \in Callers : Held(token, e) /\ token[e].state = s
                             /\ (cell[s].writer => token[e].mode = "exclusive")
      <4>1. CASE cell[s].writer
        <5>1. PICK e \in Callers : HeldExclusive(token, s) = {e}
          BY <1>1, <3>1, <4>1 DEF Occupied
        <5> QED
          BY <5>1 DEF HeldExclusive
      <4>2. CASE ~cell[s].writer
        <5>1. cell[s].readers # 0
          BY <3>6, <4>2 DEF canGrant
        <5>2. HeldShared(token, s) # {}
          BY <1>1, <3>1, <5>1, FS_EmptySet DEF Occupied
        <5> QED
          BY <4>2, <5>2 DEF HeldShared
      <4> QED
        BY <4>1, <4>2
    <3>9. PICK e \in Callers : Held(token, e) /\ token[e].state = s
                               /\ (cell[s].writer => token[e].mode = "exclusive")
      BY <3>8
    <3>10. l[i].mode = "shared" /\ \A j \in 1 .. i : l[j].mode = "shared"
      <4>1. i # 1
        BY <1>2, <2>2, <3>7, <3>9
      <4>2. l[i].mode # "exclusive"
        BY <2>1, <4>1 DEF OwnsAt
      <4> QED
        BY <1>2, <2>1, <2>2, <4>2 DEF OwnsAt
    <3>11. CASE cell[s].writer
      <4>1. PlaceOf(e, l) \in 1 .. i
        BY <1>2, <2>2, <3>7, <3>9
      <4> QED
        BY <3>7, <3>9, <3>10, <3>11, <4>1
    <3>12. CASE ~cell[s].writer
      <4>1. pending[h].mode = "exclusive"
        BY <3>6, <3>12 DEF canGrant
      <4>2. InLine(h, l) /\ HasMode(h, l, "exclusive")
        <5>1. ~Held(token, h)
          BY <1>1, <3>3, <3>4 DEF WaitersHoldNothing
        <5> QED
          <6>1. Stands(pending, token, h, n) /\ ModeOf(pending, token, h) = "exclusive"
            BY <3>4, <4>1, <5>1 DEF Stands, ModeOf
          <6> QED
            BY <1>1, <3>3, <6>1 DEF Lined, l
      <4>3. /\ PlaceOf(h, l) \in 1 .. Len(l)
            /\ l[PlaceOf(h, l)].mode = "exclusive"
        <5> HIDE DEF h, s, i
        <5>1. /\ PlaceOf(h, l) \in 1 .. Len(l) /\ l[PlaceOf(h, l)].caller = h
          BY <1>2, <4>2, PlaceOfInLine
        <5> QED
          BY <1>2, <4>2, <5>1 DEF HasMode
      <4>4. PlaceOf(h, l) \in 1 .. i
        <5>1. k = 1 => h = d
          BY <3>2
        <5> QED
          BY <1>2, <2>2, <3>5, <4>3, <5>1
      <4> QED
        BY <3>10, <4>3, <4>4
    <3> QED
      BY <3>11, <3>12
  <2> QED
    BY <1>3, <2>2, <2>3, <2>4 DEF Stands, Holders
<1> QED
  BY <1>4, <1>5 DEF l

----------------------------------------------------------------------------
(* How a line changes.                                                      *)

\* A newcomer that waits for nothing and owns nothing stands in no line.
LEMMA NewcomerStandsNowhere ==
  ASSUME HInv, NEW c \in Callers, ~Waiting(c), ~Holds(c), NEW n \in Names
  PROVE  ~InLine(c, line[n])
BY DEF HInv, Lined, Stands, Waiting, Holds, Held

\* A newcomer goes last in the line, as in the queue if it has to wait.
LEMMA AcquireKeepsLine ==
  ASSUME HInv, NEW c \in Callers, NEW n \in Names, NEW mode \in Modes,
         Acquire(c, n, mode), line' = [line EXCEPT ![n] = JoinLine(@, c, mode)]
  PROVE  Lined(line', pending', token') /\ Ordered(line', cell', pending', token')
<1>1. /\ Types(localStates, cell, pending, token)
      /\ Registered(localStates, pending, token)
      /\ Queued(cell, pending)
      /\ Lined(line, pending, token) /\ Ordered(line, cell, pending, token)
      /\ pending[c] = NoRequest /\ ~Held(token, c)
  BY DEF HInv, IInv, Good, Acquire, Waiting, Holds, Held
<1>2. PICK s \in Cells :
        /\ StateFor(n, s)
        /\ GrantNow(c, n, s, mode) \/ Enqueue(c, n, s, mode)
  BY DEF Acquire
<1> DEFINE l == line[n]
           r == JoinLine(l, c, mode)
           st == stateBefore(n, s)
<1>3. /\ IsLine(l, Callers) /\ ~InLine(c, l) /\ mode \in EntryModes
      /\ line'[n] = r /\ \A m \in Names : m # n => line'[m] = line[m]
      /\ line \in [Names -> Seq(Entry(Callers))]
  BY <1>1, NewcomerStandsNowhere DEF Acquire, Lined, Modes, EntryModes
<1>4. /\ IsLine(r, Callers)
      /\ \A d : InLine(d, r) <=> d = c \/ InLine(d, l)
      /\ \A d : InLine(d, l) => /\ PlaceOf(d, r) = PlaceOf(d, l)
                                /\ PlaceOf(d, l) < PlaceOf(c, r)
      /\ HasMode(c, r, mode)
      /\ \A d, m : d # c /\ HasMode(d, l, m) => HasMode(d, r, m)
  BY <1>3, JoinKeeps
<1> HIDE DEF r
<1>5. /\ st.queue = <<>> \/ (st = cell[s] /\ localStates[n] = s)
      /\ cell[s] \in LockState /\ cell \in [Cells -> LockState]
      /\ localStates[n] # NoCell => s = localStates[n] /\ st = cell[s]
      /\ st \in LockState
  <2>1. EmptyState \in LockState /\ EmptyState.queue = <<>>
    BY EmptySeq DEF EmptyState, LockState
  <2> QED
    BY <1>1, <1>2, <2>1 DEF stateBefore, StateFor, Types
<1> HIDE DEF st
<1>6. \A d \in Callers : d # c => /\ pending'[d] = pending[d]
                                  /\ token'[d] = token[d]
                                  /\ Held(token', d) <=> Held(token, d)
  BY <1>1, <1>2 DEF Types, GrantNow, Enqueue, Held
<1>7. /\ \A m \in Names : Stands(pending', token', c, m) <=> m = n
      /\ ModeOf(pending', token', c) = mode
  <2>1. CASE GrantNow(c, n, s, mode)
    <3>1. /\ token'[c] = NewToken(n, s, mode) /\ pending'[c] = NoRequest
          /\ NewToken(n, s, mode) \in Token
      BY <1>1, <2>1 DEF GrantNow, Types, NewToken, Token
    <3>2. token'[c] # NoToken
      BY <3>1, LocalLockAssumption
    <3>3. token'[c].name = n /\ token'[c].mode = mode /\ ~token'[c].released
      BY <3>1 DEF NewToken
    <3> QED
      BY <3>1, <3>2, <3>3 DEF Held, Stands, ModeOf
  <2>2. CASE Enqueue(c, n, s, mode)
    <3>1. /\ pending'[c] = [name |-> n, state |-> s, mode |-> mode]
          /\ pending'[c] \in Request /\ token' = token
      BY <1>1, <2>2 DEF Enqueue, Types, Request
    <3> QED
      BY <1>1, <3>1, LocalLockAssumption DEF Stands, ModeOf
  <2> QED
    BY <1>2, <2>1, <2>2
<1>8. \A d \in Callers : d # c =>
        /\ \A m \in Names : Stands(pending', token', d, m) <=> Stands(pending, token, d, m)
        /\ ModeOf(pending', token', d) = ModeOf(pending, token, d)
  BY <1>6 DEF Stands, ModeOf
<1>9. Lined(line', pending', token')
  <2>1. /\ line' \in [Names -> Seq(Entry(Callers))]
        /\ \A m \in Names : IsLine(line'[m], Callers)
    <3>1. r \in Seq(Entry(Callers))
      BY <1>4 DEF IsLine
    <3>2. line' = [line EXCEPT ![n] = r]
      BY DEF r
    <3> QED
      BY <1>1, <1>3, <1>4, <3>1, <3>2 DEF Lined
  <2>2. ASSUME NEW m \in Names, NEW d \in Callers
        PROVE  /\ InLine(d, line'[m]) <=> Stands(pending', token', d, m)
               /\ Stands(pending', token', d, m)
                    => HasMode(d, line'[m], ModeOf(pending', token', d))
    <3>1. CASE d = c /\ m = n
      BY <1>3, <1>4, <1>7, <3>1
    <3>2. CASE d = c /\ m # n
      BY <1>3, <1>7, <3>2, NewcomerStandsNowhere DEF Acquire
    <3>3. CASE d # c
      <4>1. /\ InLine(d, line[m]) <=> Stands(pending, token, d, m)
            /\ Stands(pending, token, d, m) => HasMode(d, line[m], ModeOf(pending, token, d))
        BY <1>1 DEF Lined
      <4>2. /\ InLine(d, line'[m]) <=> InLine(d, line[m])
            /\ HasMode(d, line[m], ModeOf(pending, token, d))
                 => HasMode(d, line'[m], ModeOf(pending, token, d))
        BY <1>3, <1>4, <3>3
      <4> QED
        BY <1>8, <3>3, <4>1, <4>2
    <3> QED
      BY <3>1, <3>2, <3>3
  <2> QED
    BY <2>1, <2>2 DEF Lined
<1>10. \A m \in Names, d \in Callers : d # c /\ Stands(pending, token, d, m)
         => /\ PlaceOf(d, line'[m]) = PlaceOf(d, line[m])
            /\ m = n => PlaceOf(d, line'[m]) < PlaceOf(c, line'[m])
  BY <1>1, <1>3, <1>4 DEF Lined
<1>11. ASSUME NEW a \in Callers, NEW d \in Callers,
              Held(token', a), pending'[d] # NoRequest, token'[a].name = pending'[d].name
       PROVE  PlaceOf(a, line'[pending'[d].name]) < PlaceOf(d, line'[pending'[d].name])
  <2> DEFINE m == pending'[d].name
  <2>1. CASE a # c /\ d # c
    <3>1. /\ Held(token, a) /\ pending[d] # NoRequest /\ token[a].name = m /\ pending[d].name = m
          /\ pending[d] \in Request /\ m \in Names
      BY <1>1, <1>6, <1>11, <2>1 DEF Types, Request
    <3>2. PlaceOf(a, line[m]) < PlaceOf(d, line[m])
      BY <1>1, <3>1 DEF Ordered
    <3> HIDE DEF m
    <3> QED
      BY <1>10, <2>1, <3>1, <3>2 DEF Stands, m
  <2>2. CASE a = c
    <3>1. GrantNow(c, n, s, mode)
      BY <1>1, <1>2, <1>11, <2>2 DEF Enqueue
    <3>2. token'[c].name = n /\ pending' = pending /\ st.queue = <<>>
      BY <1>1, <3>1 DEF GrantNow, NewToken, Types, st
    <3>3. /\ pending[d] # NoRequest /\ pending[d].name = n /\ pending[d] \in Request
          /\ localStates[n] = pending[d].state /\ pending[d].state \in Cells
      BY <1>1, <1>11, <2>2, <3>2 DEF Types, Request, Registered
    <3>4. pending[d].state = s /\ st = cell[s]
      BY <1>5, <3>3, LocalLockAssumption
    <3>5. PICK i \in 1 .. Len(cell[s].queue) : cell[s].queue[i] = d
      BY <1>1, <3>3, <3>4 DEF Queued
    <3> QED
      BY <3>2, <3>4, <3>5, EmptySeq
  <2>3. CASE d = c /\ a # c
    <3>1. Enqueue(c, n, s, mode)
      BY <1>1, <1>2, <1>11, <2>3 DEF GrantNow
    <3>2. m = n
      BY <1>1, <2>3, <3>1 DEF Enqueue, Types
    <3>3. Held(token, a) /\ token[a].name = n
      BY <1>6, <1>11, <2>3, <3>2
    <3> HIDE DEF m
    <3> QED
      BY <1>10, <2>3, <3>2, <3>3 DEF Stands, m
  <2> QED
    BY <2>1, <2>2, <2>3
<1>12. \A x \in Cells : \A i \in 1 .. Len(cell[x].queue) :
         /\ cell[x].queue[i] \in Callers /\ cell[x].queue[i] # c
         /\ pending[cell[x].queue[i]] \in Request
         /\ pending[cell[x].queue[i]].name \in Names
         /\ pending[cell[x].queue[i]].state = x
         /\ localStates[pending[cell[x].queue[i]].name] = x
         /\ Stands(pending, token, cell[x].queue[i], pending[cell[x].queue[i]].name)
  <2> SUFFICES ASSUME NEW x \in Cells, NEW i \in 1 .. Len(cell[x].queue)
               PROVE  /\ cell[x].queue[i] \in Callers /\ cell[x].queue[i] # c
                      /\ pending[cell[x].queue[i]] \in Request
                      /\ pending[cell[x].queue[i]].name \in Names
                      /\ pending[cell[x].queue[i]].state = x
                      /\ localStates[pending[cell[x].queue[i]].name] = x
                      /\ Stands(pending, token, cell[x].queue[i],
                                pending[cell[x].queue[i]].name)
    OBVIOUS
  <2>1. cell[x].queue[i] \in Callers
    BY <1>1, ElementOfSeq DEF Types, LockState
  <2>2. pending[cell[x].queue[i]] # NoRequest /\ pending[cell[x].queue[i]].state = x
    BY <1>1 DEF Queued
  <2> QED
    BY <1>1, <2>1, <2>2 DEF Types, Request, Registered, Stands
<1>13. ASSUME NEW x \in Cells, NEW i \in 1 .. Len(cell[x].queue),
              NEW j \in 1 .. Len(cell[x].queue), i < j
       PROVE  PlaceOf(cell[x].queue[i], line'[pending'[cell[x].queue[j]].name])
                < PlaceOf(cell[x].queue[j], line'[pending'[cell[x].queue[j]].name])
  <2> DEFINE a == cell[x].queue[i]
             b == cell[x].queue[j]
             m == pending[b].name
  <2>1. PlaceOf(a, line[m]) < PlaceOf(b, line[m])
    BY <1>1, <1>13 DEF Ordered
  <2>2. a \in Callers /\ a # c /\ b \in Callers /\ b # c /\ pending[a].name = m /\ m \in Names
    BY <1>1, <1>12, LocalLockAssumption DEF Registered
  <2>3. Stands(pending, token, a, m) /\ Stands(pending, token, b, m)
    BY <1>12, <2>2
  <2>4. pending'[b].name = m
    BY <1>6, <2>2
  <2> HIDE DEF a, b, m
  <2>5. PlaceOf(a, line'[m]) < PlaceOf(b, line'[m])
    BY <1>10, <2>1, <2>2, <2>3
  <2> QED
    BY <2>4, <2>5 DEF a, b
<1>14. ASSUME NEW x \in Cells, NEW i \in 1 .. Len(cell'[x].queue),
              NEW j \in 1 .. Len(cell'[x].queue), i < j
       PROVE  PlaceOf(cell'[x].queue[i], line'[pending'[cell'[x].queue[j]].name])
                < PlaceOf(cell'[x].queue[j], line'[pending'[cell'[x].queue[j]].name])
  <2>1. CASE x # s
    <3>1. cell'[x] = cell[x]
      BY <1>2, <1>5, <2>1 DEF GrantNow, Enqueue
    <3> QED
      BY <1>13, <1>14, <3>1
  <2>2. CASE x = s /\ GrantNow(c, n, s, mode)
    <3>1. cell'[s].queue = <<>>
      <4>1. CASE mode = "exclusive"
        BY <1>5, <2>2, <4>1, WithWriter DEF GrantNow, st
      <4>2. CASE mode # "exclusive"
        <5>1. st.readers + 1 \in Nat
          BY <1>5 DEF LockState
        <5>2. cell'[s] = [st EXCEPT !.readers = st.readers + 1] /\ st.queue = <<>>
          BY <1>5, <2>2, <4>2 DEF GrantNow, st
        <5> QED
          BY <1>5, <5>1, <5>2, WithReaders
      <4> QED
        BY <4>1, <4>2
    <3> QED
      BY <1>14, <2>2, <3>1, EmptySeq
  <2>3. CASE x = s /\ Enqueue(c, n, s, mode)
    <3> DEFINE q == st.queue
    <3>1. q \in Seq(Callers) /\ Len(q) \in Nat
      BY <1>5, LenProperties DEF LockState
    <3>2. cell'[s].queue = Append(q, c)
      <4>1. cell'[s] = [st EXCEPT !.queue = Append(q, c)]
        BY <1>5, <2>3 DEF Enqueue, st
      <4>2. Append(q, c) \in Seq(Callers)
        BY <3>1, AppendProperties
      <4> HIDE DEF q
      <4> QED
        BY <1>5, <4>1, <4>2, WithQueue
    <3>3. /\ Len(cell'[s].queue) = Len(q) + 1
          /\ \A k \in 1 .. Len(q) : cell'[s].queue[k] = q[k]
          /\ cell'[s].queue[Len(q) + 1] = c
      <4> HIDE DEF q
      <4> QED
        BY <3>1, <3>2, AppendProperties
    <3>4. i \in 1 .. Len(q)
      <4> HIDE DEF q
      <4> QED
        BY <1>14, <2>3, <3>1, <3>3
    <3>5. st = cell[s] /\ localStates[n] = s
      BY <1>5, <3>4, EmptySeq
    <3>6. CASE j \in 1 .. Len(q)
      BY <1>13, <1>14, <2>3, <3>3, <3>4, <3>5, <3>6
    <3>7. CASE j = Len(q) + 1
      <4>1. cell'[x].queue[j] = c /\ pending'[c].name = n /\ cell'[x].queue[i] = cell[s].queue[i]
        BY <1>1, <2>3, <3>3, <3>4, <3>5, <3>7 DEF Enqueue, Types
      <4>2. /\ cell[s].queue[i] \in Callers /\ cell[s].queue[i] # c
            /\ pending[cell[s].queue[i]].name = n
        <5>1. /\ cell[s].queue[i] \in Callers /\ cell[s].queue[i] # c
              /\ pending[cell[s].queue[i]].name \in Names
              /\ localStates[pending[cell[s].queue[i]].name] = s
          BY <1>12, <3>4, <3>5
        <5> QED
          BY <1>1, <3>5, <5>1, LocalLockAssumption DEF Registered
      <4>3. Stands(pending, token, cell[s].queue[i], n)
        BY <1>12, <3>4, <3>5, <4>2
      <4> QED
        BY <1>10, <4>1, <4>2, <4>3
    <3> QED
      <4>1. j \in 1 .. Len(q) \/ j = Len(q) + 1
        <5> HIDE DEF q
        <5> QED
          BY <1>14, <2>3, <3>1, <3>3
      <4> QED
        BY <3>6, <3>7, <4>1
  <2> QED
    BY <1>2, <2>1, <2>2, <2>3
<1> QED
  BY <1>9, <1>11, <1>14 DEF Ordered

\* The queues of ce1 are those of ce, or parts of them in the same order, of
\* waiters for one name, without c.
StoodInOrder(q, q1, pe, c, i, j) ==
  \E k, m \in 1 .. Len(q) :
    /\ k < m /\ q1[i] = q[k] /\ q1[j] = q[m]
    /\ q[k] \in Callers \ {c} /\ q[m] \in Callers \ {c}
    /\ pe[q[k]] \in Request /\ pe[q[m]] \in Request
    /\ pe[q[k]].name = pe[q[m]].name

InOrder(ce, pe, ce1, c) ==
  \A s \in Cells : \A i, j \in 1 .. Len(ce1[s].queue) :
    i < j => StoodInOrder(ce[s].queue, ce1[s].queue, pe, c, i, j)

\* c, who owned n or waited for it, leaves: what changes and what does not.
Departs(li, ce, pe, to, li1, ce1, pe1, to1, c, n) ==
  /\ Stands(pe, to, c, n)
  /\ pe1[c] = NoRequest /\ ~Held(to1, c)
  /\ \A d \in Callers : d # c => pe1[d] = pe[d] /\ to1[d] = to[d]
  /\ InOrder(ce, pe, ce1, c)
  /\ li1 = [li EXCEPT ![n] = LeaveLine(@, c)]

\* Who leaves a line leaves the order of the others.
LEMMA DepartureKeepsLine ==
  ASSUME NEW li, NEW ce, NEW pe, NEW to, NEW li1, NEW ce1, NEW pe1, NEW to1,
         Lined(li, pe, to), Ordered(li, ce, pe, to), WaitersHoldNothing(pe, to),
         \A d \in Callers : pe[d] \in Request \cup {NoRequest},
         NEW c \in Callers, NEW n \in Names,
         Departs(li, ce, pe, to, li1, ce1, pe1, to1, c, n)
  PROVE  Lined(li1, pe1, to1) /\ Ordered(li1, ce1, pe1, to1)
<1> DEFINE l == li[n]
           r == LeaveLine(l, c)
<1>1. /\ Stands(pe, to, c, n)
      /\ pe1[c] = NoRequest /\ ~Held(to1, c)
      /\ \A d \in Callers : d # c => pe1[d] = pe[d] /\ to1[d] = to[d]
      /\ InOrder(ce, pe, ce1, c)
      /\ li1 = [li EXCEPT ![n] = r]
  BY DEF Departs
<1>2. /\ IsLine(l, Callers) /\ InLine(c, l)
      /\ li \in [Names -> Seq(Entry(Callers))]
      /\ \A m \in Names : IsLine(li[m], Callers)
  BY <1>1 DEF Lined
<1>3. /\ IsLine(r, Callers)
      /\ \A d : InLine(d, r) <=> d # c /\ InLine(d, l)
      /\ \A d, e : /\ d # c /\ e # c /\ InLine(d, l) /\ InLine(e, l)
                   /\ PlaceOf(d, l) < PlaceOf(e, l)
                   => PlaceOf(d, r) < PlaceOf(e, r)
      /\ \A d, m : HasMode(d, l, m) => HasMode(d, r, m)
  <2> HIDE DEF l
  <2> QED
    BY <1>2, LeaveKeeps
<1> HIDE DEF r
<1>4. /\ li1 \in [Names -> Seq(Entry(Callers))]
      /\ li1[n] = r /\ \A m \in Names : m # n => li1[m] = li[m]
  BY <1>1, <1>2, <1>3 DEF IsLine
<1>5. \A m \in Names : ~Stands(pe1, to1, c, m) /\ (Stands(pe, to, c, m) => m = n)
  BY <1>1 DEF Stands, WaitersHoldNothing
<1>6. \A d \in Callers : d # c =>
        /\ Held(to1, d) <=> Held(to, d)
        /\ \A m \in Names : Stands(pe1, to1, d, m) <=> Stands(pe, to, d, m)
        /\ ModeOf(pe1, to1, d) = ModeOf(pe, to, d)
  BY <1>1 DEF Stands, ModeOf, Held
<1>7. Lined(li1, pe1, to1)
  <2>1. \A m \in Names : IsLine(li1[m], Callers)
    BY <1>2, <1>3, <1>4
  <2>2. ASSUME NEW m \in Names, NEW d \in Callers
        PROVE  /\ InLine(d, li1[m]) <=> Stands(pe1, to1, d, m)
               /\ Stands(pe1, to1, d, m) => HasMode(d, li1[m], ModeOf(pe1, to1, d))
    <3>1. /\ InLine(d, li[m]) <=> Stands(pe, to, d, m)
          /\ Stands(pe, to, d, m) => HasMode(d, li[m], ModeOf(pe, to, d))
      BY DEF Lined
    <3>2. CASE d = c
      BY <1>3, <1>4, <1>5, <3>1, <3>2
    <3>3. CASE d # c
      BY <1>3, <1>4, <1>6, <3>1, <3>3
    <3> QED
      BY <3>2, <3>3
  <2> QED
    BY <1>4, <2>1, <2>2 DEF Lined
<1>8. \A m \in Names, d, e \in Callers \ {c} :
        /\ Stands(pe, to, d, m) /\ Stands(pe, to, e, m)
        /\ PlaceOf(d, li[m]) < PlaceOf(e, li[m])
        => PlaceOf(d, li1[m]) < PlaceOf(e, li1[m])
  BY <1>3, <1>4 DEF Lined
<1>9. ASSUME NEW a \in Callers, NEW d \in Callers,
             Held(to1, a), pe1[d] # NoRequest, to1[a].name = pe1[d].name, pe1[d].name \in Names
      PROVE  PlaceOf(a, li1[pe1[d].name]) < PlaceOf(d, li1[pe1[d].name])
  <2>1. a # c /\ d # c
    BY <1>1, <1>9
  <2>2. Held(to, a) /\ pe[d] # NoRequest /\ to[a].name = pe[d].name /\ pe1[d] = pe[d]
    BY <1>1, <1>6, <1>9, <2>1
  <2>3. PlaceOf(a, li[pe[d].name]) < PlaceOf(d, li[pe[d].name])
    BY <2>2 DEF Ordered
  <2> QED
    BY <1>8, <1>9, <2>1, <2>2, <2>3 DEF Stands
<1>10. ASSUME NEW s \in Cells, NEW i \in 1 .. Len(ce1[s].queue),
             NEW j \in 1 .. Len(ce1[s].queue), i < j
      PROVE  PlaceOf(ce1[s].queue[i], li1[pe1[ce1[s].queue[j]].name])
               < PlaceOf(ce1[s].queue[j], li1[pe1[ce1[s].queue[j]].name])
  <2>1. PICK k, m \in 1 .. Len(ce[s].queue) :
          /\ k < m /\ ce1[s].queue[i] = ce[s].queue[k] /\ ce1[s].queue[j] = ce[s].queue[m]
          /\ ce[s].queue[k] \in Callers \ {c} /\ ce[s].queue[m] \in Callers \ {c}
          /\ pe[ce[s].queue[k]] \in Request /\ pe[ce[s].queue[m]] \in Request
          /\ pe[ce[s].queue[k]].name = pe[ce[s].queue[m]].name
    <3>1. StoodInOrder(ce[s].queue, ce1[s].queue, pe, c, i, j)
      BY <1>1, <1>10 DEF InOrder
    <3> QED
      BY <3>1 DEF StoodInOrder
  <2> DEFINE a == ce[s].queue[k]
             b == ce[s].queue[m]
  <2>2. PlaceOf(a, li[pe[b].name]) < PlaceOf(b, li[pe[b].name])
    BY <2>1 DEF Ordered
  <2>3. /\ pe[a] # NoRequest /\ pe[b] # NoRequest /\ pe[b].name \in Names
        /\ pe1[b] = pe[b]
    BY <1>1, <2>1, LocalLockAssumption DEF Request
  <2>4. Stands(pe, to, a, pe[b].name) /\ Stands(pe, to, b, pe[b].name)
    BY <2>1, <2>3 DEF Stands
  <2> QED
    BY <1>8, <2>1, <2>2, <2>3, <2>4
<1>11. \A d \in Callers : pe1[d] # NoRequest => pe1[d].name \in Names
  BY <1>1 DEF Request
<1> QED
  BY <1>7, <1>9, <1>10, <1>11 DEF Ordered

\* The drain moves the head of the queue to the owners, and leaves the line alone.
LEMMA DrainKeepsLine ==
  ASSUME NEW li, NEW n \in Names, NEW s \in Cells, NEW st, NEW toks, NEW pends,
         cell \in [Cells -> LockState],
         Good(localStates, [cell EXCEPT ![s] = st], pends, toks),
         localStates[n] = s,
         Lined(li, pends, toks), Ordered(li, [cell EXCEPT ![s] = st], pends, toks),
         Drained(n, s, st, toks, pends)
  PROVE  Lined(li, pending', token') /\ Ordered(li, cell', pending', token')
<1> DEFINE q == st.queue
           g == Grants(st)
           G == Granted(st)
           d == drain(st)
           mid == [cell EXCEPT ![s] = st]
<1>1. /\ Types(localStates, mid, pends, toks)
      /\ Registered(localStates, pends, toks)
      /\ Queued(mid, pends)
      /\ WaitersHoldNothing(pends, toks)
  BY DEF Good
<1>2. mid[s] = st /\ \A x \in Cells : x # s => mid[x] = cell[x]
  OBVIOUS
<1>3. /\ Len(q) \in Nat /\ g \in 0 .. Len(q)
      /\ \A i \in 1 .. Len(q) :
           /\ q[i] \in Callers /\ pends[q[i]] \in Request /\ pends[q[i]].name = n
           /\ \A j \in 1 .. Len(q) : q[i] = q[j] => i = j
      /\ \A i \in 1 .. g : q[i] \in G
  BY DEF Drained
<1>4. /\ G \subseteq Callers
      /\ \A c \in G : /\ \E i \in 1 .. g : c = q[i]
                      /\ pends[c] \in Request /\ pends[c] = pending[c]
                      /\ pends[c].state = s /\ pends[c].name = n /\ ~Held(toks, c)
                      /\ pending'[c] = NoRequest /\ Held(token', c)
                      /\ token'[c].name = n /\ token'[c].mode = pends[c].mode
  BY DEF Drained
<1>5. \A c \in Callers \ G : token'[c] = toks[c] /\ pending'[c] = pends[c]
  BY DEF Drained
<1>6. /\ cell'[s] = d /\ \A x \in Cells : x # s => cell'[x] = cell[x]
      /\ Len(d.queue) = Len(q) - g
      /\ \A i \in 1 .. Len(q) - g : d.queue[i] = q[g + i]
  BY DEF Drained
<1> HIDE DEF mid, d, G, g, q
<1>7. \A c \in Callers : /\ \A m \in Names :
                              Stands(pending', token', c, m) <=> Stands(pends, toks, c, m)
                         /\ ModeOf(pending', token', c) = ModeOf(pends, toks, c)
  <2> SUFFICES ASSUME NEW c \in Callers
               PROVE  /\ \A m \in Names :
                           Stands(pending', token', c, m) <=> Stands(pends, toks, c, m)
                      /\ ModeOf(pending', token', c) = ModeOf(pends, toks, c)
    OBVIOUS
  <2>1. CASE c \in G
    BY <1>4, <2>1, LocalLockAssumption DEF Stands, ModeOf
  <2>2. CASE c \notin G
    BY <1>5, <2>2 DEF Stands, ModeOf, Held
  <2> QED
    BY <2>1, <2>2
<1>8. Lined(li, pending', token')
  BY <1>7 DEF Lined
<1>9. ASSUME NEW a \in Callers, NEW b \in Callers,
             Held(token', a), pending'[b] # NoRequest, token'[a].name = pending'[b].name
      PROVE  PlaceOf(a, li[pending'[b].name]) < PlaceOf(b, li[pending'[b].name])
  <2>1. b \notin G /\ pending'[b] = pends[b] /\ pends[b] # NoRequest /\ pends[b] \in Request
    BY <1>1, <1>4, <1>5, <1>9 DEF Types
  <2>2. CASE a \notin G
    BY <1>5, <1>9, <2>1, <2>2 DEF Ordered, Held
  <2>3. CASE a \in G
    <3>1. pends[b].name = n /\ pends[b].state = s
      BY <1>1, <1>4, <1>9, <2>1, <2>3 DEF Registered
    <3>2. PICK k \in 1 .. Len(q) : q[k] = b
      BY <1>1, <1>2, <2>1, <3>1 DEF Queued, q
    <3>3. PICK i \in 1 .. g : a = q[i]
      BY <1>4, <2>3
    <3>4. i \in 1 .. Len(q) /\ i < k
      BY <1>3, <2>1, <3>2, <3>3
    <3>5. PlaceOf(mid[s].queue[i], li[pends[mid[s].queue[k]].name])
            < PlaceOf(mid[s].queue[k], li[pends[mid[s].queue[k]].name])
      BY <1>2, <3>4 DEF Ordered, mid, q
    <3> QED
      BY <1>2, <2>1, <3>2, <3>3, <3>5 DEF q
  <2> QED
    BY <2>2, <2>3
<1>10. ASSUME NEW x \in Cells, NEW i \in 1 .. Len(cell'[x].queue),
              NEW j \in 1 .. Len(cell'[x].queue), i < j
       PROVE  PlaceOf(cell'[x].queue[i], li[pending'[cell'[x].queue[j]].name])
                < PlaceOf(cell'[x].queue[j], li[pending'[cell'[x].queue[j]].name])
  <2>1. CASE x # s
    <3> DEFINE b == cell[x].queue[j]
    <3>1. cell'[x] = cell[x] /\ mid[x] = cell[x] /\ mid[x].queue \in Seq(Callers)
      BY <1>1, <1>2, <1>6, <2>1 DEF Types, LockState
    <3>2. b \in Callers /\ pends[b].state = x
      BY <1>1, <1>10, <3>1, ElementOfSeq DEF Queued
    <3>3. pending'[b] = pends[b]
      BY <1>4, <1>5, <2>1, <3>2
    <3>4. PlaceOf(cell[x].queue[i], li[pends[b].name]) < PlaceOf(b, li[pends[b].name])
      BY <1>10, <3>1 DEF Ordered, mid
    <3> QED
      BY <3>1, <3>3, <3>4
  <2>2. CASE x = s
    <3>1. /\ cell'[x].queue = d.queue /\ i \in 1 .. Len(q) - g /\ j \in 1 .. Len(q) - g
      BY <1>3, <1>6, <1>10, <2>2
    <3>2. /\ d.queue[i] = q[g + i] /\ d.queue[j] = q[g + j]
          /\ g + i \in 1 .. Len(q) /\ g + j \in 1 .. Len(q) /\ g + i < g + j
      BY <1>3, <1>6, <1>10, <3>1
    <3>3. q[g + j] \notin G
      <4>1. \A k \in 1 .. g : k \in 1 .. Len(q) /\ k # g + j
        BY <1>3, <3>1
      <4> QED
        BY <1>3, <1>4, <3>2, <4>1
    <3>4. pending'[q[g + j]] = pends[q[g + j]]
      BY <1>3, <1>5, <3>2, <3>3
    <3>5. PlaceOf(q[g + i], li[pends[q[g + j]].name])
            < PlaceOf(q[g + j], li[pends[q[g + j]].name])
      <4>1. g + i \in 1 .. Len(mid[s].queue) /\ g + j \in 1 .. Len(mid[s].queue)
        BY <1>2, <3>2 DEF q
      <4>2. PlaceOf(mid[s].queue[g + i], li[pends[mid[s].queue[g + j]].name])
              < PlaceOf(mid[s].queue[g + j], li[pends[mid[s].queue[g + j]].name])
        BY <3>2, <4>1 DEF Ordered, mid
      <4> QED
        BY <1>2, <4>2 DEF q
    <3> QED
      BY <3>1, <3>2, <3>4, <3>5
  <2> QED
    BY <2>1, <2>2
<1> QED
  BY <1>8, <1>9, <1>10 DEF Ordered

\* The requests in one queue are for one name.
LEMMA QueueOfOneName ==
  ASSUME IInv, NEW x \in Cells, NEW i \in 1 .. Len(cell[x].queue),
         NEW j \in 1 .. Len(cell[x].queue)
  PROVE  /\ cell[x].queue[i] \in Callers /\ pending[cell[x].queue[i]] \in Request
         /\ pending[cell[x].queue[i]].name = pending[cell[x].queue[j]].name
<1>1. /\ Types(localStates, cell, pending, token)
      /\ Registered(localStates, pending, token)
      /\ Queued(cell, pending)
  BY DEF IInv, Good
<1>2. \A k \in 1 .. Len(cell[x].queue) :
        /\ cell[x].queue[k] \in Callers /\ pending[cell[x].queue[k]] \in Request
        /\ localStates[pending[cell[x].queue[k]].name] = x
        /\ pending[cell[x].queue[k]].name \in Names
  <2> SUFFICES ASSUME NEW k \in 1 .. Len(cell[x].queue)
               PROVE  /\ cell[x].queue[k] \in Callers /\ pending[cell[x].queue[k]] \in Request
                      /\ localStates[pending[cell[x].queue[k]].name] = x
                      /\ pending[cell[x].queue[k]].name \in Names
    OBVIOUS
  <2>1. cell[x].queue[k] \in Callers
    BY <1>1, ElementOfSeq DEF Types, LockState
  <2>2. pending[cell[x].queue[k]] # NoRequest /\ pending[cell[x].queue[k]].state = x
    BY <1>1 DEF Queued
  <2> QED
    BY <1>1, <2>1, <2>2 DEF Types, Request, Registered
<1> QED
  BY <1>1, <1>2, LocalLockAssumption DEF Registered

\* A release leaves the line and lets in whom it held up.
LEMMA ReleaseKeepsLine ==
  ASSUME HInv, NEW c \in Callers, Release(c), Leaves(c, token[c].name)
  PROVE  Lined(line', pending', token') /\ Ordered(line', cell', pending', token')
<1>1. /\ IInv
      /\ Types(localStates, cell, pending, token)
      /\ Registered(localStates, pending, token)
      /\ Queued(cell, pending)
      /\ WaitersHoldNothing(pending, token)
      /\ Lined(line, pending, token) /\ Ordered(line, cell, pending, token)
      /\ Held(token, c) /\ pending[c] = NoRequest
  BY DEF HInv, IInv, Good, Release, Holds, Held, WaitersHoldNothing
<1>2. /\ token[c] \in Token /\ token[c].name \in Names /\ token[c].state \in Cells
      /\ localStates[token[c].name] = token[c].state
      /\ cell[token[c].state] \in LockState
      /\ cell \in [Cells -> LockState]
  BY <1>1 DEF Types, Registered, Held, Token
<1>3. PICK n, s, st, toks, mid, li :
        /\ n = token[c].name /\ s = token[c].state
        /\ st = IF token[c].mode = "exclusive" THEN [cell[s] EXCEPT !.writer = FALSE]
                ELSE [cell[s] EXCEPT !.readers = @ - 1]
        /\ toks = [token EXCEPT ![c].released = TRUE]
        /\ mid = [cell EXCEPT ![s] = st]
        /\ li = [line EXCEPT ![n] = LeaveLine(@, c)]
  OBVIOUS
<1>4. Good(localStates, mid, pending, toks)
  BY <1>1, <1>3, ReleaseKeepsGood DEF IInv
<1>5. DrainAndClean(n, s, st, toks, pending)
  BY <1>3 DEF Release
<1>6. n \in Names /\ s \in Cells /\ localStates[n] = s
  BY <1>2, <1>3
<1>7. Drained(n, s, st, toks, pending)
  BY <1>2, <1>3, <1>4, <1>5, <1>6, DrainEffect
<1>8. ~Held(toks, c) /\ \A d \in Callers : d # c => toks[d] = token[d]
  BY <1>1, <1>2, <1>3 DEF Types, Held, Token
<1>9. \A x \in Cells : mid[x].queue = cell[x].queue
  <2>1. st.queue = cell[s].queue
    BY <1>2, <1>3 DEF LockState
  <2> QED
    BY <1>2, <1>3, <2>1
<1>10. ASSUME NEW x \in Cells, NEW i \in 1 .. Len(mid[x].queue),
              NEW j \in 1 .. Len(mid[x].queue), i < j
       PROVE  StoodInOrder(cell[x].queue, mid[x].queue, pending, c, i, j)
  <2>1. i \in 1 .. Len(cell[x].queue) /\ j \in 1 .. Len(cell[x].queue)
    BY <1>9, <1>10
  <2>2. /\ cell[x].queue[i] \in Callers /\ pending[cell[x].queue[i]] \in Request
        /\ cell[x].queue[j] \in Callers /\ pending[cell[x].queue[j]] \in Request
        /\ pending[cell[x].queue[i]].name = pending[cell[x].queue[j]].name
    BY <1>1, <2>1, QueueOfOneName
  <2>3. cell[x].queue[i] # c /\ cell[x].queue[j] # c
    BY <1>1, <2>2, LocalLockAssumption
  <2> QED
    BY <1>9, <1>10, <2>1, <2>2, <2>3 DEF StoodInOrder
<1>11. /\ Stands(pending, token, c, n)
       /\ \A d \in Callers : pending[d] \in Request \cup {NoRequest}
  BY <1>1, <1>3 DEF Stands, Types
<1>12. Lined(li, pending, toks) /\ Ordered(li, mid, pending, toks)
  <2>1. InOrder(cell, pending, mid, c)
    BY <1>10 DEF InOrder
  <2>2. li = [line EXCEPT ![n] = LeaveLine(@, c)]
    BY <1>3
  <2>3. Departs(line, cell, pending, token, li, mid, pending, toks, c, n)
    BY <1>1, <1>8, <1>11, <2>1, <2>2 DEF Departs
  <2> QED
    BY <1>1, <1>6, <1>11, <2>3, DepartureKeepsLine
<1>13. line' = li
  BY <1>3 DEF Leaves
<1> QED
  BY <1>2, <1>3, <1>4, <1>6, <1>7, <1>12, <1>13, DrainKeepsLine

\* So does a cancellation, from anywhere in the queue.
LEMMA CancelKeepsLine ==
  ASSUME HInv, NEW c \in Callers, Cancel(c), Leaves(c, pending[c].name)
  PROVE  Lined(line', pending', token') /\ Ordered(line', cell', pending', token')
<1>1. /\ IInv
      /\ Types(localStates, cell, pending, token)
      /\ Registered(localStates, pending, token)
      /\ Queued(cell, pending)
      /\ WaitersHoldNothing(pending, token)
      /\ Lined(line, pending, token) /\ Ordered(line, cell, pending, token)
      /\ pending[c] # NoRequest /\ ~Held(token, c)
  BY DEF HInv, IInv, Good, Cancel, Waiting, WaitersHoldNothing
<1>2. /\ pending[c].name \in Names /\ pending[c].state \in Cells
      /\ localStates[pending[c].name] = pending[c].state
      /\ cell[pending[c].state] \in LockState
      /\ cell \in [Cells -> LockState]
  BY <1>1 DEF Types, Registered, Request
<1>3. PICK at \in 1 .. Len(cell[pending[c].state].queue) :
        /\ cell[pending[c].state].queue[at] = c
        /\ DrainAndClean(pending[c].name, pending[c].state,
             [cell[pending[c].state] EXCEPT !.queue = RemoveAt(@, at)],
             token, [pending EXCEPT ![c] = NoRequest])
  BY DEF Cancel
<1>4. PICK n, s, st, pends, mid, li :
        /\ n = pending[c].name /\ s = pending[c].state
        /\ st = [cell[s] EXCEPT !.queue = RemoveAt(@, at)]
        /\ pends = [pending EXCEPT ![c] = NoRequest]
        /\ mid = [cell EXCEPT ![s] = st]
        /\ li = [line EXCEPT ![n] = LeaveLine(@, c)]
  OBVIOUS
<1>5. Good(localStates, mid, pends, token)
  BY <1>1, <1>3, <1>4, CancelKeepsGood DEF IInv
<1>6. DrainAndClean(n, s, st, token, pends)
  BY <1>3, <1>4
<1>7. n \in Names /\ s \in Cells /\ localStates[n] = s
  BY <1>2, <1>4
<1>8. pends[c] = NoRequest /\ \A d \in Callers : d # c => pends[d] = pending[d]
  BY <1>1, <1>4 DEF Types
<1> DEFINE q == cell[s].queue
<1>9. /\ q \in Seq(Callers) /\ Len(q) \in Nat /\ at \in 1 .. Len(q) /\ q[at] = c
      /\ st \in LockState /\ st.queue = RemoveAt(q, at)
      /\ mid[s] = st /\ \A x \in Cells : x # s => mid[x] = cell[x]
  <2>1. q \in Seq(Callers) /\ Len(q) \in Nat /\ at \in 1 .. Len(q) /\ q[at] = c
    BY <1>2, <1>3, <1>4, LenProperties DEF LockState
  <2>2. RemoveAt(q, at) \in Seq(Callers)
    <3> HIDE DEF q
    <3> QED
      BY <2>1, RemoveAtPlaces
  <2>3. st = [cell[s] EXCEPT !.queue = RemoveAt(q, at)]
    BY <1>4
  <2>4. cell[s] \in LockState
    BY <1>2, <1>4
  <2>5. st \in LockState /\ st.queue = RemoveAt(q, at)
    <3> HIDE DEF q
    <3> QED
      BY <2>2, <2>3, <2>4, WithQueue
  <2> QED
    BY <1>2, <1>4, <1>7, <2>1, <2>5
<1>10. /\ Len(st.queue) = Len(q) - 1
       /\ \A i \in 1 .. Len(q) - 1 : st.queue[i] = IF i < at THEN q[i] ELSE q[i + 1]
  <2> HIDE DEF q
  <2> QED
    BY <1>9, RemoveAtPlaces
<1>11. ASSUME NEW x \in Cells, NEW i \in 1 .. Len(cell[x].queue)
       PROVE  cell[x].queue[i] = c => x = s /\ i = at
  <2>1. /\ pending[cell[x].queue[i]].state = x
        /\ \A j \in 1 .. Len(cell[x].queue) : cell[x].queue[i] = cell[x].queue[j] => i = j
    BY <1>1 DEF Queued
  <2> QED
    BY <1>4, <1>9, <2>1
<1>12. ASSUME NEW x \in Cells, NEW i \in 1 .. Len(mid[x].queue)
       PROVE  \E k \in 1 .. Len(cell[x].queue) :
                /\ mid[x].queue[i] = cell[x].queue[k] /\ cell[x].queue[k] # c
                /\ k = IF x # s \/ i < at THEN i ELSE i + 1
  <2>1. CASE x # s
    BY <1>9, <1>11, <1>12, <2>1
  <2>2. CASE x = s
    <3> DEFINE k == IF i < at THEN i ELSE i + 1
    <3>1. i \in 1 .. Len(q) - 1
      <4> HIDE DEF q
      <4> QED
        BY <1>9, <1>10, <1>12, <2>2
    <3>2. k \in 1 .. Len(q) /\ st.queue[i] = q[k] /\ k # at
      <4> HIDE DEF q
      <4> QED
        BY <1>9, <1>10, <3>1
    <3>3. q[k] # c
      BY <1>7, <1>11, <3>2
    <3> QED
      BY <1>9, <2>2, <3>2, <3>3
  <2> QED
    BY <2>1, <2>2
<1>13. ASSUME NEW x \in Cells, NEW i \in 1 .. Len(mid[x].queue),
              NEW j \in 1 .. Len(mid[x].queue), i < j
       PROVE  StoodInOrder(cell[x].queue, mid[x].queue, pending, c, i, j)
  <2>1. PICK k \in 1 .. Len(cell[x].queue) :
          /\ mid[x].queue[i] = cell[x].queue[k] /\ cell[x].queue[k] # c
          /\ k = IF x # s \/ i < at THEN i ELSE i + 1
    BY <1>12
  <2>2. PICK m \in 1 .. Len(cell[x].queue) :
          /\ mid[x].queue[j] = cell[x].queue[m] /\ cell[x].queue[m] # c
          /\ m = IF x # s \/ j < at THEN j ELSE j + 1
    BY <1>12
  <2>3. k < m
    BY <1>9, <1>13, <2>1, <2>2
  <2>4. /\ cell[x].queue[k] \in Callers /\ pending[cell[x].queue[k]] \in Request
        /\ cell[x].queue[m] \in Callers /\ pending[cell[x].queue[m]] \in Request
        /\ pending[cell[x].queue[k]].name = pending[cell[x].queue[m]].name
    BY <1>1, QueueOfOneName
  <2> QED
    BY <2>1, <2>2, <2>3, <2>4 DEF StoodInOrder
<1>14. /\ Stands(pending, token, c, n)
       /\ \A d \in Callers : pending[d] \in Request \cup {NoRequest}
  BY <1>1, <1>4 DEF Stands, Types
<1>15. Lined(li, pends, token) /\ Ordered(li, mid, pends, token)
  <2>1. InOrder(cell, pending, mid, c)
    BY <1>13 DEF InOrder
  <2>2. li = [line EXCEPT ![n] = LeaveLine(@, c)]
    BY <1>4
  <2>3. Departs(line, cell, pending, token, li, mid, pends, token, c, n)
    BY <1>1, <1>8, <1>14, <2>1, <2>2 DEF Departs
  <2> QED
    BY <1>1, <1>7, <1>14, <2>3, DepartureKeepsLine
<1>16. \A i \in 1 .. Len(st.queue) : pends[st.queue[i]] = pending[st.queue[i]]
  <2> SUFFICES ASSUME NEW i \in 1 .. Len(st.queue)
               PROVE  pends[st.queue[i]] = pending[st.queue[i]]
    OBVIOUS
  <2>1. st.queue[i] # c
    <3>1. s \in Cells /\ mid[s] = st
      BY <1>7, <1>9
    <3>2. i \in 1 .. Len(mid[s].queue) /\ mid[s].queue[i] = st.queue[i]
      BY <3>1
    <3>3. \E k \in 1 .. Len(cell[s].queue) :
            mid[s].queue[i] = cell[s].queue[k] /\ cell[s].queue[k] # c
      BY <1>12, <3>1, <3>2
    <3> QED
      BY <3>2, <3>3
  <2>2. st.queue[i] \in Callers
    BY <1>9, ElementOfSeq DEF LockState
  <2> QED
    BY <1>8, <2>1, <2>2
<1>17. Drained(n, s, st, token, pends)
  <2>1. Good(localStates, [cell EXCEPT ![s] = st], pends, token)
    BY <1>4, <1>5
  <2> QED
    BY <1>2, <1>6, <1>7, <1>16, <2>1, DrainEffect
<1>18. line' = li
  BY <1>4 DEF Leaves
<1> QED
  BY <1>2, <1>4, <1>5, <1>7, <1>15, <1>17, <1>18, DrainKeepsLine

----------------------------------------------------------------------------
(* The theorems.                                                           *)

\* Nobody has asked: all lines are empty.
LEMMA InitHInv == HInit => HInv
<1> SUFFICES ASSUME HInit PROVE HInv
  OBVIOUS
<1>1. IInv /\ Settled
  BY InitGood, InitSettled DEF HInit
<1>2. /\ \A c \in Callers : pending[c] = NoRequest /\ ~Held(token, c)
      /\ \A s \in Cells : cell[s].queue = <<>>
      /\ line = [n \in Names |-> <<>>]
  BY DEF HInit, Init, EmptyState, Held
<1>3. Lined(line, pending, token)
  <2>1. <<>> \in Seq(Entry(Callers)) /\ Len(<<>>) = 0 /\ DOMAIN <<>> = {}
    BY EmptySeq
  <2> QED
    BY <1>2, <2>1 DEF Lined, IsLine, InLine, HasMode, Stands
<1>4. Ordered(line, cell, pending, token)
  BY <1>2, EmptySeq DEF Ordered
<1> QED
  BY <1>1, <1>3, <1>4 DEF HInv

\* Every step keeps the lines, the owners and the queues together.
LEMMA NextHInv == HInv /\ [HNext]_<<vars, line>> => HInv'
<1> SUFFICES ASSUME HInv, [HNext]_<<vars, line>> PROVE HInv'
  OBVIOUS
<1>1. [Next]_vars
  BY DEF HNext, Next
<1>2. IInv' /\ Settled'
  BY <1>1, NextGood, NextSettles DEF HInv
<1>3. Lined(line', pending', token') /\ Ordered(line', cell', pending', token')
  <2>1. ASSUME NEW c \in Callers, NEW n \in Names, NEW mode \in Modes, Acquire(c, n, mode),
               line' = [line EXCEPT ![n] = JoinLine(@, c, mode)]
        PROVE  Lined(line', pending', token') /\ Ordered(line', cell', pending', token')
    BY <2>1, AcquireKeepsLine
  <2>2. ASSUME NEW c \in Callers, Release(c), Leaves(c, token[c].name)
        PROVE  Lined(line', pending', token') /\ Ordered(line', cell', pending', token')
    BY <2>2, ReleaseKeepsLine
  <2>3. ASSUME NEW c \in Callers, Cancel(c), Leaves(c, pending[c].name)
        PROVE  Lined(line', pending', token') /\ Ordered(line', cell', pending', token')
    BY <2>3, CancelKeepsLine
  <2>4. CASE UNCHANGED <<vars, line>>
    BY <2>4 DEF HInv, vars
  <2>5. ASSUME NEW c \in Callers, ReleaseAgain(c), UNCHANGED line
        PROVE  Lined(line', pending', token') /\ Ordered(line', cell', pending', token')
    BY <2>5 DEF ReleaseAgain, HInv, vars
  <2> QED
    BY <2>1, <2>2, <2>3, <2>4, <2>5 DEF HNext
<1> QED
  BY <1>2, <1>3 DEF HInv

\* Owners, waiters and lines fit together in every reachable state.
THEOREM LinesAreExact == HSpec => []HInv
  BY InitHInv, NextHInv, PTL DEF HSpec

\* The owners the abstract lock sees.
Owners == [n \in Names |-> Holders(n)]

\* They are the ones the lines entitle.
Entitled == Owners = [n \in Names |-> OwnersOf(line[n])]

\* In the states of the invariant nobody else owns a lock.
LEMMA OwnersAreEntitled == HInv => Entitled
BY LineEntitlesOwners DEF Owners, Entitled

\* Where only the line of n changes, only the owners of n change, by the rule.
LEMMA SetsLine ==
  ASSUME NEW n \in Names, NEW l, line \in [Names -> Seq(Entry(Callers))],
         Entitled, Entitled', line' = [line EXCEPT ![n] = l]
  PROVE  Owners' = [Owners EXCEPT ![n] = F!OwnersOf(l)]
<1>1. F!OwnersOf(l) = OwnersOf(l)
  BY DEF F!OwnersOf, F!OwnsAt, OwnersOf, OwnsAt
<1> QED
  BY <1>1 DEF Entitled

\* Every step of the lock is a step of the abstract lock, or changes nothing of it.
LEMMA StepsMap ==
  ASSUME HInv, HInv', [HNext]_<<vars, line>>
  PROVE  [F!Next]_<<line, Owners>>
<1>1. /\ Lined(line, pending, token)
      /\ line \in [Names -> Seq(Entry(Callers))]
      /\ Entitled
  BY OwnersAreEntitled DEF HInv, Lined
<1>2. Entitled'
  BY OwnersAreEntitled, PTL
<1>3. ASSUME NEW c \in Callers, NEW n \in Names, NEW mode \in Modes, Acquire(c, n, mode),
             line' = [line EXCEPT ![n] = JoinLine(@, c, mode)]
      PROVE  F!Next
  <2>1. ~F!InLine(c, line[n])
    BY <1>3, NewcomerStandsNowhere DEF F!InLine, InLine, Acquire
  <2> DEFINE l == JoinLine(line[n], c, mode)
  <2>2. line' = [line EXCEPT ![n] = l] /\ l = F!JoinLine(line[n], c, mode)
    BY <1>3 DEF F!JoinLine, JoinLine
  <2> HIDE DEF l
  <2>3. Owners' = [Owners EXCEPT ![n] = F!OwnersOf(l)]
    BY <1>1, <1>2, <2>2, SetsLine
  <2>4. F!Join(c, n, mode)
    BY <2>1, <2>2, <2>3 DEF F!Join, F!SetLine, Owners, Holders
  <2> QED
    BY <2>4 DEF F!Next, F!Modes, Modes
<1>4. ASSUME NEW c \in Callers, NEW n \in Names, Stands(pending, token, c, n), Leaves(c, n)
      PROVE  F!Next
  <2>1. F!InLine(c, line[n])
    BY <1>1, <1>4 DEF Lined, F!InLine, InLine
  <2> DEFINE l == LeaveLine(line[n], c)
  <2>2. line' = [line EXCEPT ![n] = l] /\ l = F!LeaveLine(line[n], c)
    BY <1>4 DEF Leaves, F!LeaveLine, F!PlaceOf, F!RemoveAt, LeaveLine, PlaceOf, RemoveAt
  <2> HIDE DEF l
  <2>3. Owners' = [Owners EXCEPT ![n] = F!OwnersOf(l)]
    BY <1>1, <1>2, <2>2, SetsLine
  <2>4. F!Leave(c, n)
    BY <2>1, <2>2, <2>3 DEF F!Leave, F!SetLine, Owners, Holders
  <2> QED
    BY <2>4 DEF F!Next
<1>5. Types(localStates, cell, pending, token)
  BY DEF HInv, IInv, Good
<1>6. ASSUME NEW c \in Callers, Release(c), Leaves(c, token[c].name)
      PROVE  F!Next
  <2>1. token[c].name \in Names /\ Stands(pending, token, c, token[c].name)
    BY <1>5, <1>6 DEF Release, Holds, Held, Stands, Types, Token
  <2> QED
    BY <1>4, <1>6, <2>1
<1>7. ASSUME NEW c \in Callers, Cancel(c), Leaves(c, pending[c].name)
      PROVE  F!Next
  <2>1. pending[c].name \in Names /\ Stands(pending, token, c, pending[c].name)
    BY <1>5, <1>7 DEF Cancel, Waiting, Stands, Types, Request
  <2> QED
    BY <1>4, <1>7, <2>1
<1>8. CASE UNCHANGED <<vars, line>>
  BY <1>8 DEF vars, Owners, Holders, Holds
<1>9. ASSUME NEW c \in Callers, ReleaseAgain(c), UNCHANGED line
      PROVE  UNCHANGED <<line, Owners>>
  BY <1>9 DEF ReleaseAgain, vars, Owners, Holders, Holds
<1> QED
  BY <1>3, <1>6, <1>7, <1>8, <1>9 DEF HNext

\* The lock of lock.ts is the abstract FIFO reader/writer lock: its owners are
\* at every step exactly those whom arrival order entitles.
THEOREM ImplementsTheFifoLock == HSpec => ImplementsFifoLock
<1>1. HInit => F!Init
  <2> SUFFICES ASSUME HInit PROVE F!Init
    OBVIOUS
  <2>1. \A n \in Names : {c \in Callers : Holds(c) /\ token[c].name = n} = {}
    BY DEF HInit, Init, Holds
  <2> QED
    BY <2>1 DEF HInit, F!Init
<1>2. HInv /\ HInv' /\ [HNext]_<<vars, line>>
        => [F!Next]_<<line, [n \in Names |-> {c \in Callers : Holds(c) /\ token[c].name = n}]>>
  BY StepsMap DEF Owners, Holders
<1> QED
  BY <1>1, <1>2, LinesAreExact, PTL DEF HSpec, ImplementsFifoLock, F!Spec
=============================================================================
