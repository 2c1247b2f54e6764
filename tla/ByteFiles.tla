----------------------------- MODULE ByteFiles -----------------------------
(***************************************************************************)
(* What a write, a truncation and a range read do to the bytes of a file:  *)
(* the arithmetic that the record adapter, the object adapter, the         *)
(* IndexedDB driver, the write session and the facade each have a copy of. *)
(* A file is a sequence of bytes, a position counts from zero, and bytes   *)
(* that nobody wrote are zero.                                             *)
(***************************************************************************)
EXTENDS Integers, Sequences

Larger(a, b) == IF a > b THEN a ELSE b

Smaller(a, b) == IF a < b THEN a ELSE b

\* next.set(existing); next.set(data, position)
WriteAt(existing, position, data) ==
  [i \in 1 .. Larger(Len(existing), position + Len(data)) |->
     IF i \in position + 1 .. position + Len(data) THEN data[i - position]
     ELSE IF i <= Len(existing) THEN existing[i] ELSE 0]

\* A host write of no bytes does not grow a file that ends before it.
NativeWrite(existing, position, data) ==
  IF data = <<>> THEN existing ELSE WriteAt(existing, position, data)

Truncate(existing, size) ==
  [i \in 1 .. size |-> IF i <= Len(existing) THEN existing[i] ELSE 0]

\* Where a write of the mode begins in a file of the given size.
WritePosition(size, mode, at) ==
  CASE mode = "replace" -> 0 [] mode = "append" -> size [] OTHER -> at

ApplyWrite(existing, data, mode, at, truncate) ==
  LET position == WritePosition(Len(existing), mode, at)
      next     == WriteAt(existing, position, data)
  IN  IF mode = "replace" THEN data
      ELSE IF truncate THEN Truncate(next, position + Len(data)) ELSE next

\* The size the facade checks against the limits before it writes.
GetWriteSize(current, input, mode, at, truncate) ==
  LET end == WritePosition(current, mode, at) + input
  IN  IF mode = "replace" THEN input
      ELSE IF truncate THEN end ELSE Larger(current, end)

\* Bytes from position at, at most length of them.
ByteRange(bytes, at, length) ==
  SubSeq(bytes, at + 1, Smaller(Len(bytes), at + length))
=============================================================================
