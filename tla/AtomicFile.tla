----------------------------- MODULE AtomicFile -----------------------------
(***************************************************************************)
(* What a driver with replacement "atomic" promises of one path: a write   *)
(* takes effect at once and as a whole or not at all, never over a state   *)
(* its caller has not seen, and a reader gets the whole content of one     *)
(* moment.                                                                 *)
(***************************************************************************)
CONSTANTS Writers, Readers, Absent

VARIABLES
  content, \* the write whose content the file has, or Absent
  write,   \* write call -> where it stands and the content it started from
  read     \* reader -> where it stands and the content it gets

fileVars == <<content, write, read>>

Init ==
  /\ content = Absent
  /\ write = [w \in Writers |-> [pc |-> "idle", saw |-> Absent]]
  /\ read = [r \in Readers |-> [pc |-> "idle", gen |-> Absent]]

Begin(w) ==
  /\ write[w].pc = "idle"
  /\ write' = [write EXCEPT ![w] = [pc |-> "open", saw |-> content]]
  /\ UNCHANGED <<content, read>>

\* A write or a removal takes effect over the content it started from.
Publish(w) ==
  /\ write[w].pc = "open" /\ content = write[w].saw
  /\ content' \in {w, Absent}
  /\ write' = [write EXCEPT ![w] = [pc |-> "done", saw |-> Absent]]
  /\ UNCHANGED read

\* A write that fails, conflicts or dies has no effect.
Fail(w) ==
  /\ write[w].pc = "open"
  /\ write' = [write EXCEPT ![w] = [pc |-> "failed", saw |-> Absent]]
  /\ UNCHANGED <<content, read>>

Open(r) ==
  /\ read[r].pc \in {"idle", "read"}
  /\ \E pc \in {"reading", "read"} :
       read' = [read EXCEPT ![r] = [pc |-> pc, gen |-> content]]
  /\ UNCHANGED <<content, write>>

Answer(r) ==
  /\ read[r].pc = "reading"
  /\ read' = [read EXCEPT ![r].pc = "read"]
  /\ UNCHANGED <<content, write>>

Next ==
  \/ \E w \in Writers : Begin(w) \/ Publish(w) \/ Fail(w)
  \/ \E r \in Readers : Open(r) \/ Answer(r)

Spec == Init /\ [][Next]_fileVars
=============================================================================
