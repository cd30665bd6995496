------------------------------ MODULE Buffers ------------------------------
(***************************************************************************)
(* The buffers every packet goes through (buffer.h): a list of chunks of   *)
(* memory, an input cursor that fills the last of them, and output cursors *)
(* that read from a place of the list on and can be copied.  Chunks count  *)
(* the cursors that may still need them, and are deleted from the front.   *)
(*                                                                         *)
(* The bytes put into a buffer are numbered 1, 2, 3, ...: what a cursor    *)
(* should read next is then a number too.  Chunks are called by their      *)
(* place in the list; the placemark in front of it is chunk 0.             *)
(***************************************************************************)
EXTENDS Integers, Sequences, SequencesExt

CONSTANTS RoundedSize,  \* kRoundedSize: the size of a chunk, at least
          IovecSize,    \* kIovecSize: how many chunks one write may take
          MaxBytes,     \* bound on the bytes put into the buffer
          MaxRequest    \* bound on the size of a request

ASSUME BufferAssumption ==
  /\ RoundedSize \in Nat \ {0} /\ IovecSize \in Nat \ {0}
  /\ MaxBytes \in Nat /\ MaxRequest \in Nat

\* Buffer's own output cursor, and a copy of it that a caller may make.
Cursors == {"output", "copy"}

VARIABLES
  buffer,   \* the chunks, the placemark's refcount_, and per cursor its
            \* previous_ and offset_
  live,     \* the cursors there are
  gapped,   \* whether a chunk ever stayed empty between two others (history)
  put,      \* how many bytes have been put in (history)
  taken     \* taken[c]: how many of them cursor c has moved past (history)

bufferVars == <<buffer, live, gapped, put, taken>>

Smaller(a, b) == IF a < b THEN a ELSE b

-----------------------------------------------------------------------------
(* Queries of a cursor, on a buffer b.                                     *)

Chunk(b, c) == b.chunks[b.previous[c] + 1]
HasChunk(b, c) == b.previous[c] < Len(b.chunks)
Used(chunk) == Len(chunk.bytes)
Available(chunk) == chunk.size - Used(chunk)

CurrentSize(b, c) == IF HasChunk(b, c) THEN Used(Chunk(b, c)) - b.offset[c] ELSE 0

\* LeftSize subtracts absolute offsets and never adds chunks up.
LeftSize(b, c) ==
  IF HasChunk(b, c)
  THEN (Last(b.chunks).absolute - Chunk(b, c).absolute)
         - b.offset[c] + Used(Last(b.chunks))
  ELSE 0

\* ContiguousSize and Data look one chunk ahead, and no further.
NextChunk(b, c) == b.previous[c] + 2
LooksAhead(b, c) == CurrentSize(b, c) = 0 /\ NextChunk(b, c) <= Len(b.chunks)
ContiguousSize(b, c) ==
  IF LooksAhead(b, c) THEN Used(b.chunks[NextChunk(b, c)]) ELSE CurrentSize(b, c)
Data(b, c) ==
  IF LooksAhead(b, c) THEN b.chunks[NextChunk(b, c)].bytes
  ELSE IF HasChunk(b, c)
       THEN SubSeq(Chunk(b, c).bytes, b.offset[c] + 1, Used(Chunk(b, c)))
       ELSE <<>>

\* Get, for all there is.
Get(b, c) ==
  IF HasChunk(b, c)
  THEN SubSeq(Chunk(b, c).bytes, b.offset[c] + 1, Used(Chunk(b, c)))
         \o FoldLeft(LAMBDA bytes, chunk : bytes \o chunk.bytes, <<>>,
                     SubSeq(b.chunks, NextChunk(b, c), Len(b.chunks)))
  ELSE <<>>

\* GetIovec, as the bytes it describes.  The chunk the cursor is in takes an
\* entry only if it has something left.
GetIovec(b, c) ==
  LET first == IF CurrentSize(b, c) > 0 THEN 1 ELSE 0
      last  == b.previous[c] + 1 + IovecSize - first
  IN IF LeftSize(b, c) = 0 THEN <<>>
     ELSE FoldLeft(LAMBDA bytes, chunk : bytes \o chunk.bytes,
                   SubSeq(Chunk(b, c).bytes, b.offset[c] + 1, Used(Chunk(b, c))),
                   SubSeq(b.chunks, NextChunk(b, c), Smaller(last, Len(b.chunks))))

-----------------------------------------------------------------------------
(* Changes of a buffer.                                                    *)

\* ChunkSet::Append.
AbsoluteOfSize(chunks) ==  \* mutation: what is allocated is counted, not used
  IF chunks = <<>> THEN 0 ELSE Last(chunks).absolute + Last(chunks).size
AbsoluteOffset(chunks) ==
  IF chunks = <<>> THEN 0 ELSE Last(chunks).absolute + Used(Last(chunks))
ChunkSize(n) == IF n < RoundedSize THEN RoundedSize ELSE n
AppendChunk(b, n) ==
  [b EXCEPT !.chunks = Append(@,
     [size |-> ChunkSize(n), bytes |-> <<>>, refs |-> b.cursors,
      absolute |-> AbsoluteOffset(b.chunks)])]

ReserveIn(b, n) ==
  IF b.chunks = <<>> \/ Available(Last(b.chunks)) < n THEN AppendChunk(b, n) ELSE b

\* InputCursor::Increment, of bytes written to Data().
Filled(b, first, n) ==
  [b EXCEPT !.chunks[Len(b.chunks)].bytes = @ \o [i \in 1..n |-> first + i - 1]]

\* ChunkSet::Unreference of chunk k, and the chunk that comes after it then:
\* at 0 references it is deleted, and must be the first of the list.
RefsOf(b, k) == IF k = 0 THEN b.placemark ELSE b.chunks[k].refs
Delete(b, k) ==
  [b EXCEPT !.chunks = Tail(@),
            !.previous = [c \in Cursors |-> IF @[c] = 0 THEN 0 ELSE @[c] - 1],
            !.fault = @ \/ k # 1]
Unreference(b, k) ==
  IF k = 0 THEN [b EXCEPT !.placemark = @ - 1, !.fault = @ \/ b.placemark = 1]
  ELSE IF b.chunks[k].refs > 1 THEN [b EXCEPT !.chunks[k].refs = @ - 1]
  ELSE Delete(b, k)
After(b, k) == IF RefsOf(b, k) > 1 \/ k = 0 THEN k + 1 ELSE 1

MoveToNextChunk(b, c) ==
  LET k == b.previous[c]
  IN [Unreference(b, k) EXCEPT !.previous[c] = After(b, k), !.offset[c] = 0]

\* One turn of OutputCursor::Increment's loop, with the amount left.
IncrementTurn(s, c) ==
  LET b == s.b
      m == CurrentSize(b, c)
  IN IF s.done THEN s
     ELSE IF m >= s.amount
     THEN [b |-> [b EXCEPT !.offset[c] = @ + s.amount], amount |-> 0, done |-> TRUE]
     ELSE LET moved == IF b.previous[c] + 1 < Len(b.chunks)
                       THEN MoveToNextChunk(b, c) ELSE b
          IN [b |-> moved, amount |-> s.amount - m,
              done |-> CurrentSize(moved, c) = 0]

\* A turn ends the loop or moves to the next chunk.
IncrementIn(b, c, n) ==
  FoldLeft(LAMBDA s, i : IncrementTurn(s, c),
           [b |-> b, amount |-> n, done |-> FALSE],
           [i \in 1..(Len(b.chunks) + 1) |-> i]).b

\* Consume and ConsumeString copy what is contiguous and move past it, again
\* and again: the bytes they return and the buffer they leave.
ConsumeIn(b, c, n) ==
  FoldLeft(LAMBDA s, i :
             LET count == Smaller(n - Len(s.bytes), ContiguousSize(s.b, c))
             IN IF Len(s.bytes) = n \/ LeftSize(s.b, c) = 0 THEN s
                ELSE [b |-> IncrementIn(s.b, c, count),
                      bytes |-> s.bytes \o SubSeq(Data(s.b, c), 1, count)],
           [b |-> b, bytes |-> <<>>],
           [i \in 1..(Len(b.chunks) + 1) |-> i])

\* ReferenceFrom, for a copy that starts where the output cursor is.
Referenced(chunk) == [chunk EXCEPT !.refs = @ + 1]
CopyForgetsFollowing(b) ==  \* mutation: only previous_ itself is referenced
  LET k == b.previous["output"]
  IN [b EXCEPT !.cursors = 2,
               !.previous["copy"] = k, !.offset["copy"] = b.offset["output"],
               !.placemark = IF k = 0 THEN @ + 1 ELSE @,
               !.chunks = [i \in 1..Len(@) |-> IF i = k THEN Referenced(@[i]) ELSE @[i]]]
ReferenceFrom(b) ==
  LET k == b.previous["output"]
  IN [b EXCEPT !.cursors = 2,
               !.previous["copy"] = k, !.offset["copy"] = b.offset["output"],
               !.placemark = IF k = 0 THEN @ + 1 ELSE @,
               !.chunks = [i \in 1..Len(@) |-> IF i >= k THEN Referenced(@[i]) ELSE @[i]]]

\* UnreferenceFrom: every chunk from previous_ on.
UnreferenceFrom(b) ==
  FoldLeft(LAMBDA s, i :
             IF s.k > Len(s.b.chunks) THEN s
             ELSE [b |-> Unreference(s.b, s.k), k |-> After(s.b, s.k)],
           [b |-> [b EXCEPT !.cursors = 1], k |-> b.previous["copy"]],
           [i \in 1..(Len(b.chunks) + 1) |-> i]).b

-----------------------------------------------------------------------------
\* An empty buffer, which only its own output cursor references.
BufferInit ==
  /\ buffer = [chunks |-> <<>>, placemark |-> 2, cursors |-> 1, fault |-> FALSE,
               previous |-> [c \in Cursors |-> 0],
               offset |-> [c \in Cursors |-> 0]]
  /\ live = {"output"}
  /\ gapped = FALSE /\ put = 0
  /\ taken = [c \in Cursors |-> 0]

\* A chunk was reserved, nothing was put in it, and then more was reserved than
\* it could hold.
Gap(b) == \E k \in 2..(Len(b.chunks) - 1) : b.chunks[k].bytes = <<>>

\* n bytes come in at the end of buffer b.
PutIn(b, n) ==
  /\ put + n <= MaxBytes
  /\ buffer' = Filled(b, put + 1, n)
  /\ gapped' = (gapped \/ Gap(buffer'))
  /\ put' = put + n
  /\ UNCHANGED <<live, taken>>

\* Reserve, then n bytes written into what was reserved: Add, a cipher.
Input(reserved, n) ==
  /\ n <= reserved
  /\ Len(buffer.chunks) < MaxBytes
  /\ PutIn(ReserveIn(buffer, reserved), n)

\* A socket fills what is left of the last chunk, and asserts there is some.
SocketRead(n) ==
  /\ buffer.chunks # <<>>
  /\ n <= Available(Last(buffer.chunks))
  /\ PutIn(buffer, n)

\* A device reserves first, and may then fill more than that.
DeviceRead(size, n) ==
  /\ Len(buffer.chunks) < MaxBytes
  /\ LET b == ReserveIn(buffer, size)
     IN n <= Available(Last(b.chunks)) /\ PutIn(b, n)

Increment(c, n) ==
  /\ c \in live /\ n <= LeftSize(buffer, c)
  /\ buffer' = IncrementIn(buffer, c, n)
  /\ taken' = [taken EXCEPT ![c] = @ + n]
  /\ UNCHANGED <<live, gapped, put>>

Consume(c, n) ==
  /\ c \in live /\ n <= LeftSize(buffer, c)
  /\ buffer' = ConsumeIn(buffer, c, n).b
  /\ taken' = [taken EXCEPT ![c] = @ + n]
  /\ UNCHANGED <<live, gapped, put>>

\* What GetIovec describes is written to a device or a socket in one call, and
\* the cursor moves past all of it, however much the kernel took.
WriteOut ==
  LET n == Len(GetIovec(buffer, "output"))
  IN Increment("output", n)

CopyCursor ==
  /\ "copy" \notin live
  /\ live' = Cursors
  /\ buffer' = ReferenceFrom(buffer)
  /\ taken' = [taken EXCEPT !["copy"] = taken["output"]]
  /\ UNCHANGED <<gapped, put>>

DropCopy ==
  /\ "copy" \in live
  /\ live' = {"output"}
  /\ buffer' = [UnreferenceFrom(buffer) EXCEPT !.previous["copy"] = 0,
                                               !.offset["copy"] = 0]
  /\ taken' = [taken EXCEPT !["copy"] = 0]
  /\ UNCHANGED <<gapped, put>>

BufferNext ==
  \/ \E reserved \in 1..MaxRequest, n \in 0..MaxRequest : Input(reserved, n)
  \/ \E n \in 1..MaxBytes : SocketRead(n)
  \/ \E size \in 1..MaxRequest, n \in 0..MaxBytes : DeviceRead(size, n)
  \/ \E c \in Cursors, n \in 1..MaxBytes : Increment(c, n) \/ Consume(c, n)
  \/ WriteOut
  \/ CopyCursor \/ DropCopy

BufferSpec == BufferInit /\ [][BufferNext]_bufferVars

-----------------------------------------------------------------------------
\* Every cursor reads the bytes it has not yet moved past, all of them and in
\* order, whichever way it is asked, wherever chunks end, and whatever the
\* other cursor has done meanwhile; unless there was a gap: Increment stops at
\* an empty chunk (buffer.h:383), and ContiguousSize sees nothing behind it.
ReadsStream ==
  ~gapped => \A c \in live :
    LET unread == [i \in 1..(put - taken[c]) |-> taken[c] + i]
    IN /\ LeftSize(buffer, c) = Len(unread)
       /\ Get(buffer, c) = unread
       /\ IsPrefix(GetIovec(buffer, c), unread)
       /\ IsPrefix(Data(buffer, c), unread)
       /\ unread # <<>> => ContiguousSize(buffer, c) > 0 /\ GetIovec(buffer, c) # <<>>
       /\ ConsumeIn(buffer, c, Len(unread)).bytes = unread

\* A chunk is kept exactly as long as a cursor is positioned at it or before
\* it, and the deletions only ever take the first.
ChunksCounted ==
  /\ ~buffer.fault
  /\ \A k \in 1..Len(buffer.chunks) :
       /\ buffer.chunks[k].refs =
            (IF buffer.previous["output"] <= k THEN 1 ELSE 0)
              + IF "copy" \in live /\ buffer.previous["copy"] <= k THEN 1 ELSE 0
       /\ buffer.chunks[k].refs > 0
=============================================================================
