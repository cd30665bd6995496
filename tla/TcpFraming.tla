----------------------------- MODULE TcpFraming -----------------------------
(***************************************************************************)
(* How packets are cut out of a TCP stream: the encoding and the read loop *)
(* of a connection (client-tcp-transcoder.cc; server-tcp-transcoder.cc has *)
(* the same code), over the block ciphers of openssl-protector.cc.         *)
(*                                                                         *)
(* The stream is a sequence of bytes that know what they are; a ciphertext *)
(* byte stands for the plaintext byte at its place.  What has arrived lies *)
(* in chunks of memory, of which the decoder is shown one after the other. *)
(***************************************************************************)
EXTENDS Integers, Sequences, SequencesExt

CONSTANTS BlockSize,   \* of the cipher
          IVLength,    \* bytes that Start puts before a packet
          PacketSizes, \* sizes of the packets sent
          MaxSent      \* bound on the packets sent

\* Lengths: a cipher has blocks, but perhaps no IV.
ASSUME TcpAssumption == /\ BlockSize \in Nat \ {0} /\ IVLength \in Nat
                        /\ PacketSizes \subseteq Nat

VARIABLES
  wire,       \* every byte sent, in order
  sent,       \* the sizes of the packets sent
  arrived,    \* how many bytes of the wire have been read from the socket
  chunkEnd,   \* where the one chunk of from_server_encrypted_ ends and the
              \* next begins, or 0
  reading,    \* whether the loop of HandleRead is running
  started,    \* decoder_ is set: Start has read the packet's IV
  pos,        \* bytes taken from from_server_encrypted_
  held,       \* ctx_.buf_len: those of them the cipher context holds
  clear,      \* from_server_cleartext_
  delivered,  \* the packets HandlePacket was given, as bytes (history)
  fault       \* how the process ended: "none", "decrypt final", "limit"

tcpVars == <<wire, sent, arrived, chunkEnd, reading, started, pos, held, clear,
             delivered, fault>>

Byte(n, field, i) == [packet |-> n, field |-> field, at |-> i]
Bytes(n, field, count) == [i \in 1..count |-> Byte(n, field, i)]

\* The size in front of a packet is a uint16_t.
SizeLength == 2

\* What AddPadding adds and RemovePadding takes away: 1 to BlockSize bytes.
Padding(size) == BlockSize - ((size + SizeLength) % BlockSize)

\* The encoder's Start draws an IV and puts it in front, not encrypted.
EncoderStart(n) == Bytes(n, "iv", IVLength)

\* What SendMessage makes of a packet, in the order it encodes it.
Encoded(n, size) ==
  EncoderStart(n) \o Bytes(n, "size", SizeLength)
    \o Bytes(n, "pad", Padding(size)) \o Bytes(n, "data", size)

-----------------------------------------------------------------------------
(* The receiver's decoder works on a record of what it has taken.          *)

Left(d) == arrived - d.pos

\* OutputCursor::ContiguousSize of from_server_encrypted_.
Contiguous(d) == IF d.pos < chunkEnd THEN chunkEnd - d.pos ELSE Left(d)

RoundUp(n) == ((n + BlockSize - 1) \div BlockSize) * BlockSize

\* One turn of the loop of OpensslDecoder::Continue: whole blocks come out of
\* the context, and only they are counted.
ContinueTurn(d, until) ==
  IF Left(d) = 0 \/ d.decoded >= until THEN d
  ELSE LET n == IF until - d.decoded < Contiguous(d) THEN until - d.decoded
                ELSE Contiguous(d)
           blocks == ((d.held + n) \div BlockSize) * BlockSize
       IN [pos |-> d.pos + n, held |-> (d.held + n) % BlockSize,
           clear |-> d.clear \o SubSeq(wire, d.pos - d.held + 1,
                                       d.pos - d.held + blocks),
           decoded |-> d.decoded + blocks]

\* OpensslDecoder::Continue.  What the context holds counts as decoded, and a
\* turn takes at least a byte.
ContinueFromZero(d, until) ==  \* mutation: what the context holds is not counted
  FoldLeft(LAMBDA e, i : ContinueTurn(e, RoundUp(until)),
           [d EXCEPT !.decoded = 0], [i \in 1..Left(d) |-> i])
ContinueUnrounded(d, until) ==  \* mutation: until is not rounded up
  FoldLeft(LAMBDA e, i : ContinueTurn(e, until),
           [d EXCEPT !.decoded = d.held], [i \in 1..Left(d) |-> i])
Continue(d, until) ==
  FoldLeft(LAMBDA e, i : ContinueTurn(e, RoundUp(until)),
           [d EXCEPT !.decoded = d.held], [i \in 1..Left(d) |-> i])

Taken == [pos |-> pos, held |-> held, clear |-> clear, decoded |-> 0]

\* The decoder's Start reads the IV from a copy of the cursor, so it takes
\* nothing unless all of it has come.
CanStart == started \/ Left(Taken) >= IVLength
\* The cipher context is begun anew.
DecoderStart(d) == [d EXCEPT !.pos = @ + IVLength, !.held = 0]
AfterStart == IF started THEN Taken ELSE DecoderStart(Taken)

\* The size is asked for unless it has come already.
WithSize == IF Len(clear) < SizeLength
            THEN Continue(AfterStart, SizeLength - Len(clear)) ELSE AfterStart

PacketSize == sent[WithSize.clear[1].packet]
Have(d) == Len(d.clear) - SizeLength

\* ... and then the rest of the packet.
WithData == IF Have(WithSize) < PacketSize
            THEN Continue(WithSize, PacketSize - Have(WithSize)) ELSE WithSize

\* The decoder could not be started, or not decode enough: everything it took
\* is kept for the next read.
KeepsEarly == [d |-> Taken, started |-> FALSE]
Keeps == IF ~CanStart THEN KeepsEarly
         ELSE IF Len(WithSize.clear) < SizeLength
              THEN [d |-> WithSize, started |-> TRUE]
         ELSE [d |-> WithData, started |-> TRUE]

DataComplete == /\ CanStart
                /\ Len(WithSize.clear) >= SizeLength
                /\ Have(WithData) >= PacketSize
PaddingComplete == Have(WithData) >= Padding(PacketSize)

-----------------------------------------------------------------------------
TcpInit == /\ wire = <<>> /\ sent = <<>>
           /\ arrived = 0 /\ chunkEnd = 0 /\ pos = 0 /\ held = 0
           /\ reading = FALSE /\ started = FALSE
           /\ clear = <<>> /\ delivered = <<>>
           /\ fault = "none"

\* The other side's SendMessage and HandleWrite.
SendMessage(size) ==
  /\ fault = "none" /\ ~reading
  /\ Len(sent) < MaxSent
  /\ sent' = Append(sent, size)
  /\ wire' = wire \o Encoded(Len(sent) + 1, size)
  /\ UNCHANGED <<arrived, chunkEnd, reading, started, pos, held, clear,
                 delivered, fault>>

\* A socket may return any beginning of what is on its way.  Reserve begins a
\* new chunk when less than kReadSize is left of the last one; chunks are
\* longer than the streams of this model, so at most one ends in it.
Read(n, newChunk) ==
  /\ fault = "none" /\ ~reading
  /\ arrived + n <= Len(wire)
  /\ newChunk => chunkEnd = 0 /\ arrived > 0
  /\ chunkEnd' = IF newChunk THEN arrived ELSE chunkEnd
  /\ arrived' = arrived + n
  /\ reading' = TRUE
  /\ UNCHANGED <<wire, sent, started, pos, held, clear, delivered, fault>>

\* The loop ends when nothing is left to decode.
LoopEnds ==
  /\ reading /\ pos = arrived
  /\ reading' = FALSE
  /\ UNCHANGED <<wire, sent, arrived, chunkEnd, started, pos, held, clear,
                 delivered, fault>>

\* HandleRead returns MORE.
NeedsMore ==
  /\ reading /\ pos < arrived
  /\ ~(DataComplete /\ PaddingComplete)
  /\ pos' = Keeps.d.pos /\ held' = Keeps.d.held /\ clear' = Keeps.d.clear
  /\ started' = Keeps.started
  /\ reading' = FALSE
  /\ UNCHANGED <<wire, sent, arrived, chunkEnd, delivered, fault>>

\* How OpensslDecoder::End and LimitLeftSize abort the process.
Aborts(d, size) ==
  IF d.held # 0 THEN "decrypt final"
  ELSE IF Have(d) - Padding(size) < size THEN "limit"
  ELSE "none"

\* A whole packet: its padding and its size are skipped, the context is
\* closed, and HandlePacket is given what follows.
PayloadUnskipped(d, size) ==  \* mutation: the padding is taken for data
  SubSeq(d.clear, SizeLength + 1, SizeLength + size)
Payload(d, size) ==
  SubSeq(d.clear, SizeLength + Padding(size) + 1,
         SizeLength + Padding(size) + size)
Rest(d, size) ==
  SubSeq(d.clear, SizeLength + Padding(size) + size + 1, Len(d.clear))

HandlePacket ==
  /\ reading /\ pos < arrived
  /\ DataComplete /\ PaddingComplete
  /\ fault' = Aborts(WithData, PacketSize)
  /\ IF fault' = "none"
     THEN /\ delivered' = Append(delivered, Payload(WithData, PacketSize))
          /\ clear' = Rest(WithData, PacketSize)
          /\ pos' = WithData.pos /\ held' = 0
          /\ started' = FALSE
          /\ UNCHANGED reading
     ELSE /\ reading' = FALSE
          /\ UNCHANGED <<delivered, clear, pos, held, started>>
  /\ UNCHANGED <<wire, sent, arrived, chunkEnd>>

TcpNext == \/ \E size \in PacketSizes : SendMessage(size)
           \/ \E n \in 1..(Len(wire) - arrived), new \in BOOLEAN : Read(n, new)
           \/ LoopEnds \/ NeedsMore \/ HandlePacket

TcpSpec == TcpInit /\ [][TcpNext]_tcpVars

-----------------------------------------------------------------------------
\* HandlePacket is given the packets that were sent, whole and in order, and
\* nothing else, however the stream was cut into reads and chunks: no padding,
\* no byte of a neighbour, no packet twice (HandleRead,
\* client-tcp-transcoder.cc:144-262).
Intact ==
  \A n \in 1..Len(delivered) : delivered[n] = Bytes(n, "data", sent[n])

\* The padding is a whole block that holds nothing else.
FullPadding(n) == Padding(sent[n]) = BlockSize

\* A packet whose last byte has been read has been delivered when HandleRead
\* returns: none waits for the bytes of the next one.  Packets that
\* AddPadding gives a whole block are excepted.
Prompt ==
  arrived = Len(wire) /\ ~reading /\ fault = "none" =>
    Len(delivered) = Len(sent) \/ FullPadding(Len(delivered) + 1)

\* The receiver aborts for one reason only, a block of padding it never
\* decoded.  It never closes the cipher context with half a block in it:
\* Continue miscounts where a block lies in two chunks, but a new chunk is only
\* begun when all that came before it, an incomplete IV excepted, is decoded.
OnlyPaddingAborts ==
  fault # "none" => fault = "limit" /\ FullPadding(Len(delivered) + 1)

\* "Pad the buffer now, so we never end up with leftover data"
\* (client-tcp-transcoder.cc:74): whatever the size of a packet, once all of
\* it has come nothing of it stays behind.
NoLeftover ==
  arrived = Len(wire) /\ ~reading => Len(delivered) = Len(sent)
=============================================================================
