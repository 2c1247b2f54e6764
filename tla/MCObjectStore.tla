---------------------------- MODULE MCObjectStore ----------------------------
(* ObjectStore on small instances; see the README for the bounds.          *)
EXTENDS ObjectStore

MCSlots == Clients \X (0 .. MaxChunks)

Setup(service, delayed, shared, late, calls) ==
  [service |-> service, delayed |-> delayed, shared |-> shared, late |-> late,
   calls |-> calls]

Call(op) == [op |-> op, chunks |-> 0]

Stream(chunks) == [op |-> "stream", chunks |-> chunks]

Copy(chunks) == [op |-> "copy", chunks |-> chunks]

ManySetups ==
  {Setup("s3", TRUE, TRUE, TRUE, {Call("append"), Call("replace"), Call("remove"), Stream(1)}),
   Setup("s3", FALSE, TRUE, FALSE, {Stream(2)}),
   Setup("s3", TRUE, FALSE, FALSE, {Call("append"), Stream(3)}),
   Setup("s3", FALSE, FALSE, FALSE, {Call("replace"), Stream(0)}),
   Setup("azure", FALSE, FALSE, FALSE, {Call("append"), Stream(0), Stream(2)}),
   Setup("s3", FALSE, FALSE, FALSE, {Call("remove"), Copy(1), Copy(2)}),
   Setup("azure", FALSE, FALSE, FALSE, {Call("replace"), Copy(1), Copy(2)})}
=============================================================================
