----------------------------- MODULE LocalLock -----------------------------
(***************************************************************************)
(* The in-realm reader/writer lock of src/lock.ts: the registry of named   *)
(* lock states shared by every LocalLockCoordinator, the FIFO queue of     *)
(* each state, and the release tokens handed to granted callers.           *)
(*                                                                         *)
(* JavaScript runs each handler (acquire, release, an abort listener) to   *)
(* completion, so each is one action, with the drain and the registry      *)
(* clean-up it ends in.  A state object is a member of Cells: callers keep *)
(* a reference to the object, not to its name, so whether the registry and *)
(* the references agree is a property and not an assumption.               *)
(***************************************************************************)
EXTENDS Integers, FiniteSets, SequencesExt

CONSTANTS
  Names,     \* lock names
  Callers,   \* acquire call sites; each has one request or lock at a time
  Cells,     \* identities of the lock state objects
  NoCell,    \* the registry has no entry
  NoRequest, \* the caller waits in no queue
  NoToken    \* the caller was never granted a lock

VARIABLES
  localStates, \* registry: name -> the state object registered under it
  cell,        \* state object -> readers, writer, queue
  pending,     \* caller -> its queued PendingLock
  token        \* caller -> the last LocalHeldLock it received

vars == <<localStates, cell, pending, token>>

Modes == {"shared", "exclusive"}

Request == [name : Names, state : Cells, mode : Modes]

Token == [name : Names, state : Cells, mode : Modes, released : BOOLEAN]

ASSUME LocalLockAssumption ==
  /\ IsFiniteSet(Callers)
  /\ NoCell \notin Cells
  /\ NoRequest \notin Request
  /\ NoToken \notin Token

LockState == [readers : Nat, writer : BOOLEAN, queue : Seq(Callers)]

EmptyState == [readers |-> 0, writer |-> FALSE, queue |-> <<>>]

----------------------------------------------------------------------------
(* What a caller has.                                                      *)

Waiting(c) == pending[c] # NoRequest

Holds(c) == token[c] # NoToken /\ ~token[c].released

\* A live caller's state object; a released token also keeps its object alive.
Refers(c, s) ==
  \/ Waiting(c) /\ pending[c].state = s
  \/ token[c] # NoToken /\ token[c].state = s

----------------------------------------------------------------------------
(* The helpers of the handlers, on a state object st.                      *)

\* Mutant: readers are forgotten.
canGrantOverReaders(st, mode) == ~st.writer

canGrant(st, mode) ==
  ~st.writer /\ (mode = "exclusive" => st.readers = 0)

\* Mutant: a state with readers counts as unused.
IsEmptyOfWriters(st) == ~st.writer /\ st.queue = <<>>

IsEmpty(st) == ~st.writer /\ st.readers = 0 /\ st.queue = <<>>

\* How many shared requests a queue has before its first exclusive one.
LeadingShared(q) ==
  Cardinality({k \in 1 .. Len(q) : \A i \in 1 .. k : pending[q[i]].mode = "shared"})

HeadIsExclusive(q) == q # <<>> /\ pending[q[1]].mode = "exclusive"

\* Mutant: only the first of the leading shared requests is granted.
GrantsOne(st) ==
  IF st.writer \/ st.queue = <<>> THEN 0
  ELSE IF HeadIsExclusive(st.queue) /\ st.readers > 0 THEN 0 ELSE 1

\* How many requests drain() grants: an exclusive head alone and only without
\* readers, else every leading shared request; nothing under a writer.
Grants(st) ==
  IF st.writer THEN 0
  ELSE IF ~HeadIsExclusive(st.queue) THEN LeadingShared(st.queue)
  ELSE IF st.readers = 0 THEN 1 ELSE 0

\* Mutant: a batch of readers is counted as one.
drainCountsBatch(st) ==
  [ readers |-> st.readers + (IF HeadIsExclusive(st.queue) \/ Grants(st) = 0 THEN 0 ELSE 1),
    writer  |-> st.writer \/ (HeadIsExclusive(st.queue) /\ Grants(st) = 1),
    queue   |-> SubSeq(st.queue, Grants(st) + 1, Len(st.queue)) ]

drain(st) ==
  [ readers |-> st.readers + (IF HeadIsExclusive(st.queue) THEN 0 ELSE Grants(st)),
    writer  |-> st.writer \/ (HeadIsExclusive(st.queue) /\ Grants(st) = 1),
    queue   |-> SubSeq(st.queue, Grants(st) + 1, Len(st.queue)) ]

Granted(st) == {st.queue[i] : i \in 1 .. Grants(st)}

\* getState: the registered object, or a new one no caller refers to.
StateFor(n, s) ==
  IF localStates[n] # NoCell THEN s = localStates[n]
  ELSE (\A m \in Names : localStates[m] # s) /\ (\A c \in Callers : ~Refers(c, s))

stateBefore(n, s) == IF localStates[n] = NoCell THEN EmptyState ELSE cell[s]

NewToken(n, s, mode) == [name |-> n, state |-> s, mode |-> mode, released |-> FALSE]

removeEmptyState(n, st) ==
  localStates' = [localStates EXCEPT ![n] = IF IsEmpty(st) THEN NoCell ELSE @]

\* The common end of release() and cancelPending(): st is state object s after
\* the handler's own change, toks and pends the tokens and the requests after it.
DrainAndClean(n, s, st, toks, pends) ==
  /\ cell' = [cell EXCEPT ![s] = drain(st)]
  /\ removeEmptyState(n, drain(st))
  /\ token' = [c \in Callers |->
                 IF c \in Granted(st) THEN NewToken(n, s, pending[c].mode) ELSE toks[c]]
  /\ pending' = [c \in Callers |-> IF c \in Granted(st) THEN NoRequest ELSE pends[c]]

----------------------------------------------------------------------------
Init ==
  /\ localStates = [n \in Names |-> NoCell]
  /\ cell = [s \in Cells |-> EmptyState]
  /\ pending = [c \in Callers |-> NoRequest]
  /\ token = [c \in Callers |-> NoToken]

\* Mutant: a request that could be granted passes the queue.
GrantNowBarging(c, n, s, mode) ==
  LET st == stateBefore(n, s) IN
  /\ canGrant(st, mode)
  /\ cell' = [cell EXCEPT ![s] =
       IF mode = "exclusive" THEN [st EXCEPT !.writer = TRUE]
                             ELSE [st EXCEPT !.readers = @ + 1]]
  /\ token' = [token EXCEPT ![c] = NewToken(n, s, mode)]
  /\ UNCHANGED pending

\* grant() for a request that did not have to wait.
GrantNow(c, n, s, mode) ==
  LET st == stateBefore(n, s) IN
  /\ st.queue = <<>> /\ canGrant(st, mode)
  /\ cell' = [cell EXCEPT ![s] =
       IF mode = "exclusive" THEN [st EXCEPT !.writer = TRUE]
                             ELSE [st EXCEPT !.readers = @ + 1]]
  /\ token' = [token EXCEPT ![c] = NewToken(n, s, mode)]
  /\ UNCHANGED pending

\* Mutant: the last request is served first.
EnqueueFirst(c, n, s, mode) ==
  LET st == stateBefore(n, s) IN
  /\ ~(st.queue = <<>> /\ canGrant(st, mode))
  /\ cell' = [cell EXCEPT ![s] = [st EXCEPT !.queue = <<c>> \o @]]
  /\ pending' = [pending EXCEPT ![c] = [name |-> n, state |-> s, mode |-> mode]]
  /\ UNCHANGED token

\* A request that has to wait joins the tail of the queue.
Enqueue(c, n, s, mode) ==
  LET st == stateBefore(n, s) IN
  /\ ~(st.queue = <<>> /\ canGrant(st, mode))
  /\ cell' = [cell EXCEPT ![s] = [st EXCEPT !.queue = Append(@, c)]]
  /\ pending' = [pending EXCEPT ![c] = [name |-> n, state |-> s, mode |-> mode]]
  /\ UNCHANGED token

\* LocalLockCoordinator.acquire with a signal that has not fired: a fired one
\* throws before getState and changes nothing.
Acquire(c, n, mode) ==
  /\ ~Waiting(c) /\ ~Holds(c)
  /\ \E s \in Cells :
       /\ StateFor(n, s)
       /\ localStates' = [localStates EXCEPT ![n] = s]
       /\ GrantNow(c, n, s, mode) \/ Enqueue(c, n, s, mode)

\* LocalHeldLock.release on an unreleased token.
Release(c) ==
  /\ Holds(c)
  /\ LET t == token[c] IN
     DrainAndClean(t.name, t.state,
       IF t.mode = "exclusive" THEN [cell[t.state] EXCEPT !.writer = FALSE]
                               ELSE [cell[t.state] EXCEPT !.readers = @ - 1],
       [token EXCEPT ![c].released = TRUE], pending)

\* release() called again on a released token: the early return.
ReleaseAgain(c) ==
  /\ token[c] # NoToken /\ token[c].released
  /\ UNCHANGED vars

\* cancelPending: the signal of a queued request fires.  The listener of a
\* granted request is gone, and a request no longer queued is left alone.
Cancel(c) ==
  /\ Waiting(c)
  /\ LET r == pending[c]
         st == cell[r.state] IN
     \E i \in 1 .. Len(st.queue) :
       /\ st.queue[i] = c
       /\ DrainAndClean(r.name, r.state, [st EXCEPT !.queue = RemoveAt(@, i)],
                        token, [pending EXCEPT ![c] = NoRequest])

Next ==
  \E c \in Callers :
    \/ \E n \in Names, mode \in Modes : Acquire(c, n, mode)
    \/ Release(c)
    \/ ReleaseAgain(c)
    \/ Cancel(c)

\* Every owner releases: the facade releases each lock in a finally block or
\* in close()/abort() of the sink that owns it.
Fairness == \A c \in Callers : WF_vars(Release(c))

Spec == Init /\ [][Next]_vars

FairSpec == Spec /\ Fairness

----------------------------------------------------------------------------
(* Properties.                                                             *)

\* Every variable has its type (the shape of lock.ts's records).
TypeOK ==
  /\ localStates \in [Names -> Cells \cup {NoCell}]
  /\ cell \in [Cells -> LockState]
  /\ pending \in [Callers -> Request \cup {NoRequest}]
  /\ token \in [Callers -> Token \cup {NoToken}]

\* An exclusive owner of a name (not merely of a state object) is its only
\* owner, whatever objects were registered under the name since.
MutualExclusion ==
  \A c, d \in Callers :
    Holds(c) /\ Holds(d) /\ c # d /\ token[c].name = token[d].name
      => token[c].mode = "shared" /\ token[d].mode = "shared"

\* The occupancy a state object records is the occupancy of its tokens:
\* release() never leaves a reader count or writer flag behind.
SharedOwners(s) ==
  {c \in Callers : Holds(c) /\ token[c].state = s /\ token[c].mode = "shared"}

ExclusiveOwners(s) ==
  {c \in Callers : Holds(c) /\ token[c].state = s /\ token[c].mode = "exclusive"}

OccupancyExact ==
  \A s \in Cells :
    /\ cell[s].readers = Cardinality(SharedOwners(s))
    /\ Cardinality(ExclusiveOwners(s)) = IF cell[s].writer THEN 1 ELSE 0

\* removeEmptyState deletes by name: it never drops an object that an owner
\* or a waiter still refers to, so that a new caller cannot get a second one;
\* and no unused object stays registered ("cannot grow ... without limit").
RegistryExact ==
  /\ \A c \in Callers :
       /\ Holds(c) => localStates[token[c].name] = token[c].state
       /\ Waiting(c) => localStates[pending[c].name] = pending[c].state
  /\ \A n \in Names : localStates[n] # NoCell =>
       \E c \in Callers : \/ Holds(c) /\ token[c].name = n
                          \/ Waiting(c) /\ pending[c].name = n

\* No lost wake-up: after a release or a cancellation no queue is left with a
\* head that could be granted.
NoLostWakeup ==
  \A s \in Cells : cell[s].queue # <<>> =>
    ~canGrant(cell[s], pending[cell[s].queue[1]].mode)

\* Every request is granted or cancelled although readers keep arriving
\* ("a writer cannot starve").
EveryRequestSettles == \A c \in Callers : Waiting(c) ~> ~Waiting(c)
=============================================================================
