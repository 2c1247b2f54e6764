------------------------------- MODULE Ranges -------------------------------
(***************************************************************************)
(* How bytes are cut into parts and ranges and put together again: split   *)
(* (src/chunk.ts), the part and copy-range sizes of the S3 and the Azure   *)
(* client, and the parts that the Deno KV driver reads, streams and        *)
(* rewrites.  A stored file f of Deno KV is [size, partBytes, parts]; one  *)
(* with partBytes = 0 is inline.                                           *)
(***************************************************************************)
EXTENDS ByteFiles, SequencesExt

Ceil(n, size) == (n + size - 1) \div size

\* A size that no parts can hold.
TooLarge == 0

----------------------------------------------------------------------------
(* Streams into chunks.                                                    *)

\* One piece of the source: chunks of exactly size, and what is left of them.
Fill(s, piece, size) ==
  LET all  == s.rest \o piece
      full == Len(all) \div size
  IN  [out |-> s.out \o [k \in 1 .. full |-> SubSeq(all, (k - 1) * size + 1, k * size)],
       rest |-> SubSeq(all, full * size + 1, Len(all))]

Split(pieces, size) ==
  LET s == FoldLeft(LAMBDA t, piece : Fill(t, piece, size), [out |-> <<>>, rest |-> <<>>], pieces)
  IN  IF s.rest = <<>> THEN s.out ELSE Append(s.out, s.rest)

\* parts() of the Deno KV driver: an empty file has one empty part.
PartsOf(bytes, partBytes) ==
  IF bytes = <<>> THEN <<<<>>>>
  ELSE [k \in 1 .. Ceil(Len(bytes), partBytes) |->
          SubSeq(bytes, (k - 1) * partBytes + 1, Smaller(Len(bytes), k * partBytes))]

----------------------------------------------------------------------------
(* Part sizes: the configured one, or what the limit of parts requires.    *)

Enlarged(size, preferred, maxParts, maxPart) ==
  LET chosen == Larger(preferred, Ceil(size, maxParts)) IN
  IF chosen > maxPart THEN TooLarge ELSE chosen

GetPartSize(size, partSize, maxParts, maxPart) ==
  IF size > maxParts * maxPart THEN TooLarge ELSE Enlarged(size, partSize, maxParts, maxPart)

CopyPartSize(size, copyPartSize, maxParts, maxPart) ==
  Enlarged(size, copyPartSize, maxParts, maxPart)

GetBlockSize(size, blockSize, maxBlocks, blockLimit) ==
  IF size > maxBlocks * blockLimit THEN TooLarge ELSE Enlarged(size, blockSize, maxBlocks, blockLimit)

CopyBlockSize(size, blockSize, maxBlocks, copyLimit) ==
  LET chosen == Enlarged(size, blockSize, maxBlocks, copyLimit) IN
  IF chosen # TooLarge /\ Ceil(size, chosen) > maxBlocks THEN TooLarge ELSE chosen

\* Mutant: the last range is not cut at the end of the source.
GetCopyRangesWhole(size, partSize) ==
  [k \in 1 .. Ceil(size, partSize) |-> [start |-> (k - 1) * partSize, end |-> k * partSize - 1]]

\* Both ends of a range are included, as in the header of the request.
GetCopyRanges(size, partSize) ==
  [k \in 1 .. Ceil(size, partSize) |->
     [start |-> (k - 1) * partSize, end |-> Smaller(size, k * partSize) - 1]]

GetCopyBlocks(size, blockSize) == GetCopyRanges(size, blockSize)

----------------------------------------------------------------------------
(* Ranged reads.                                                           *)

\* get() of both clients asks for a range of at least one byte.
RangeHeader(at, length) == [start |-> at, end |-> at + Larger(0, length - 1)]

\* The service (external) refuses a range that begins behind the object.
GetRange(bytes, range) ==
  IF range.start >= Len(bytes) THEN "refused"
  ELSE SubSeq(bytes, range.start + 1, Smaller(Len(bytes), range.end + 1))

Get(bytes, at, length) == GetRange(bytes, RangeHeader(at, length))

Stored(bytes, partBytes) ==
  [size |-> Len(bytes), partBytes |-> partBytes,
   parts |-> IF partBytes = 0 THEN <<bytes>> ELSE PartsOf(bytes, partBytes)]

StartOf(f, at) == Smaller(at, f.size)

EndOf(f, at, length) == Smaller(f.size, StartOf(f, at) + length)

FirstPart(f, at) == StartOf(f, at) \div f.partBytes

EndPart(f, at, length) == Ceil(EndOf(f, at, length), f.partBytes)

\* The parts from index first up to last, first counting from zero.
Joined(f, first, last) == FlattenSeq(SubSeq(f.parts, first + 1, last))

ReadParts(f, at, length) ==
  LET offset == FirstPart(f, at) * f.partBytes IN
  IF StartOf(f, at) = EndOf(f, at, length) THEN <<>>
  ELSE SubSeq(Joined(f, FirstPart(f, at), EndPart(f, at, length)),
              StartOf(f, at) - offset + 1, EndOf(f, at, length) - offset)

\* readFile of the Deno KV driver.
ReadFile(f, at, length) ==
  IF f.partBytes = 0 THEN ByteRange(f.parts[1], StartOf(f, at), length) ELSE ReadParts(f, at, length)

\* #readRange reads its parts one after the other.
ReadRange(f, at, length) ==
  IF length = 0 THEN <<>>
  ELSE IF f.partBytes = 0 THEN ByteRange(f.parts[1], at, length) ELSE ReadParts(f, at, length)

\* What the stream makes of the part of that index: the ends are cut.
Streamed(f, at, length, index) ==
  LET part  == f.parts[index + 1]
      from  == IF index = FirstPart(f, at) THEN StartOf(f, at) - index * f.partBytes ELSE 0
      until == IF index = EndPart(f, at, length) - 1
               THEN Smaller(Len(part), EndOf(f, at, length) - index * f.partBytes) ELSE Len(part)
  IN  SubSeq(part, from + 1, until)

OpenReadStream(f, at, length) ==
  IF f.partBytes = 0 THEN <<ReadFile(f, at, length)>>
  ELSE IF StartOf(f, at) = EndOf(f, at, length) THEN <<>>
  ELSE [k \in 1 .. EndPart(f, at, length) - FirstPart(f, at) |->
          Streamed(f, at, length, FirstPart(f, at) + k - 1)]

\* The facade reads the whole file when ranges are not to be used.
ReadWhole(bytes, at, length) ==
  SubSeq(bytes, Smaller(at, Len(bytes)) + 1, Smaller(Len(bytes), at + length))

----------------------------------------------------------------------------
(* writeFile of the Deno KV driver with append or update: each part is     *)
(* made of what it preserves and what the data patches.                    *)

\* Mutant: what is preserved begins at the start of the file.
RewrittenPartFromZero(f, size, data, position, partBytes, index) ==
  LET start     == index * partBytes
      end       == Smaller(size, start + partBytes)
      preserved == IF Smaller(end, f.size) > start
                   THEN ReadRange(f, 0, Smaller(end, f.size) - start) ELSE <<>>
      patch     == {i \in start .. end - 1 : i >= position /\ i < position + Len(data)}
  IN  [k \in 1 .. end - start |->
         LET i == start + k - 1 IN
         IF i \in patch THEN data[i - position + 1]
         ELSE IF k <= Len(preserved) THEN preserved[k] ELSE 0]

RewrittenPart(f, size, data, position, partBytes, index) ==
  LET start     == index * partBytes
      end       == Smaller(size, start + partBytes)
      preserved == IF Smaller(end, f.size) > start
                   THEN ReadRange(f, start, Smaller(end, f.size) - start) ELSE <<>>
      patch     == {i \in start .. end - 1 : i >= position /\ i < position + Len(data)}
  IN  [k \in 1 .. end - start |->
         LET i == start + k - 1 IN
         IF i \in patch THEN data[i - position + 1]
         ELSE IF k <= Len(preserved) THEN preserved[k] ELSE 0]

Rewritten(f, data, mode, at, truncate, partBytes) ==
  LET size == GetWriteSize(f.size, Len(data), mode, at, truncate) IN
  [k \in 1 .. Larger(1, Ceil(size, partBytes)) |->
     RewrittenPart(f, size, data, WritePosition(f.size, mode, at), partBytes, k - 1)]

----------------------------------------------------------------------------
(* Properties of a body of that size cut into parts of that many bytes.    *)

Body(size) == [i \in 1 .. size |-> i]

InParts(parts, bytes, partBytes) ==
  /\ FlattenSeq(parts) = bytes
  /\ \A k \in 1 .. Len(parts) - 1 : Len(parts[k]) = partBytes
  /\ parts # <<>> => Len(Last(parts)) <= partBytes

\* However the source cuts its bytes, and though some pieces may be empty.
SplitExact(size, partBytes) ==
  \A i \in 0 .. size : \A j \in i .. size :
    LET body == Body(size)
        cut  == Split(<<SubSeq(body, 1, i), SubSeq(body, i + 1, j), SubSeq(body, j + 1, size)>>, partBytes)
    IN  InParts(cut, body, partBytes) /\ (size > 0 => cut = PartsOf(body, partBytes))

\* The ranges in their order are the bytes of the source, each once.
Covers(ranges, size) ==
  FlattenSeq([k \in DOMAIN ranges |->
    [i \in 1 .. ranges[k].end - ranges[k].start + 1 |-> ranges[k].start + i]]) = Body(size)

\* A size that the limits allow gets parts that keep to them.
SizesExact(size, partBytes) ==
  \A maxParts \in 1 .. 3, maxPart \in partBytes .. partBytes + 2 :
    \A chosen \in {GetPartSize(size, partBytes, maxParts, maxPart),
                    CopyPartSize(size, partBytes, maxParts, maxPart),
                    GetBlockSize(size, partBytes, maxParts, maxPart),
                    CopyBlockSize(size, partBytes, maxParts, maxPart)} :
      /\ chosen = TooLarge <=> size > maxParts * maxPart
      /\ chosen # TooLarge =>
           /\ chosen \in partBytes .. maxPart
           /\ Len(GetCopyRanges(size, chosen)) <= maxParts
           /\ Covers(GetCopyRanges(size, chosen), size) /\ Covers(GetCopyBlocks(size, chosen), size)

\* Every way to read a range gives the same bytes, empty and overlong ranges
\* included; the object clients only where there is a byte to give.
ReadsExact(size, partBytes) ==
  LET body == Body(size) IN
  \A f \in {Stored(body, 0), Stored(body, partBytes)} :
    \A at \in 0 .. size + 1, length \in 0 .. size + 1 :
      LET range == ByteRange(body, at, length) IN
      /\ ReadFile(f, at, length) = range /\ ReadRange(f, at, length) = range
      /\ FlattenSeq(OpenReadStream(f, at, length)) = range
      /\ ReadWhole(body, at, length) = range
      /\ range # <<>> => Get(body, at, length) = range

\* A file of other parts, or inline, is rewritten into the parts of the bytes
\* that the reference arithmetic gives.
RewritesExact(size, partBytes) ==
  LET body == Body(size) IN
  \A old \in 0 .. 3, mode \in {"append", "update"}, at \in 0 .. size + 1,
     n \in 0 .. 2, truncate \in BOOLEAN :
    LET data == [i \in 1 .. n |-> 100 + i]
        next == ApplyWrite(body, data, mode, at, truncate)
    IN  Rewritten(Stored(body, old), data, mode, at, truncate, partBytes) = PartsOf(next, partBytes)

PartsAndRangesExact(size, partBytes) ==
  /\ SplitExact(size, partBytes) /\ SizesExact(size, partBytes)
  /\ ReadsExact(size, partBytes) /\ RewritesExact(size, partBytes)
=============================================================================
