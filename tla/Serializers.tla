---------------------------- MODULE Serializers ----------------------------
(***************************************************************************)
(* How values are put into a buffer and taken out again (serializers.h,    *)
(* and the big numbers of openssl-helpers.cc).  Every message of the       *)
(* handshake and of the IPC is made of these, and a reader is handed any   *)
(* beginning of one: it must say that more is needed, or fail.             *)
(*                                                                         *)
(* A value is a number of a given width, a string, which big numbers are   *)
(* too, a pair of those or a vector of those.                              *)
(***************************************************************************)
EXTENDS Integers, Sequences, SequencesExt

CONSTANTS Base,       \* the number of values of a byte: 256
          Numbers,    \* the numbers that are encoded
          Characters, \* what strings are made of
          MaxLength   \* bound on the length of strings and vectors

\* What is longer than the 16 bits of its length tell is not encoded
\* (EncodeToBuffer).
ASSUME SerializersAssumption ==
  /\ Base \in Nat \ {0} /\ Numbers \subseteq Nat /\ Characters \subseteq 0..(Base - 1)
  /\ MaxLength \in Nat /\ MaxLength < Base * Base

VARIABLE message  \* what is being received: a value, and how many bytes of it

serializerVars == <<message>>

Width == [uint8 |-> 1, uint16 |-> 2, uint32 |-> 4]
Widths == DOMAIN Width

Simple == Widths \union {"string"}

\* What a byte counts with k bytes behind it: the powers of Base.
Weight[k \in 0..4] == IF k = 0 THEN 1 ELSE Base * Weight[k - 1]

Strings == UNION {[1..n -> Characters] : n \in 0..MaxLength}
Values(type) == IF type = "string" THEN Strings
                ELSE {n \in Numbers : n < Weight[Width[type]]}

-----------------------------------------------------------------------------
(* EncodeToBuffer, by type.                                                *)

\* htons, htonl: the most significant byte first.
NumberBytes(n, width) == [i \in 1..width |-> (n \div Weight[width - i]) % Base]

EncodeNumber(type, n) == NumberBytes(n, Width[type])

EncodeString(s) == EncodeNumber("uint16", Len(s)) \o s

EncodeSimple(type, v) ==
  IF type = "string" THEN EncodeString(v) ELSE EncodeNumber(type, v)

\* The results of the parts are not looked at.
EncodePair(types, v) == EncodeSimple(types[1], v[1]) \o EncodeSimple(types[2], v[2])

EncodeVector(type, v) ==
  FoldLeft(LAMBDA bytes, e : bytes \o EncodeSimple(type, e),
           EncodeNumber("uint16", Len(v)), v)

-----------------------------------------------------------------------------
(* DecodeFromBuffer: a status, 0 or the number of bytes that are missing,  *)
(* the value, and what the cursor has not consumed.                        *)

Number(bytes) == FoldLeft(LAMBDA n, b : n * Base + b, 0, bytes)

\* OutputCursor::Consume takes what there is.
Take(bytes, n) == SubSeq(bytes, 1, IF n < Len(bytes) THEN n ELSE Len(bytes))
Drop(bytes, n) == SubSeq(bytes, n + 1, Len(bytes))

DecodeNumber(bytes, type) ==
  LET got == Take(bytes, Width[type])
  IN [status |-> Width[type] - Len(got), value |-> Number(got),
      rest |-> Drop(bytes, Len(got))]

\* What ConsumeString leaves uncopied is what is missing.
Missing(size, got) == size - Len(got)
DecodeString(bytes) ==
  LET size == DecodeNumber(bytes, "uint16")
      got == Take(size.rest, size.value)
  IN IF size.status # 0 THEN [size EXCEPT !.value = <<>>]
     ELSE [status |-> Missing(size.value, got), value |-> got,
           rest |-> Drop(size.rest, Len(got))]

DecodeSimple(bytes, type) ==
  IF type = "string" THEN DecodeString(bytes) ELSE DecodeNumber(bytes, type)

DecodePairAgain(bytes, types) ==  \* mutation: each decodes from a copy of the cursor
  LET first == DecodeSimple(bytes, types[1])
      second == DecodeSimple(bytes, types[2])
  IN IF first.status # 0 THEN [first EXCEPT !.value = <<>>]
     ELSE [second EXCEPT !.value = <<first.value, second.value>>]
DecodePair(bytes, types) ==
  LET first == DecodeSimple(bytes, types[1])
      second == DecodeSimple(first.rest, types[2])
  IN IF first.status # 0 THEN [first EXCEPT !.value = <<>>]
     ELSE [second EXCEPT !.value = <<first.value, second.value>>]

\* An element that is cut adds one for itself and each one behind it to the
\* status.
StillExpected(size, i) == size - i
DecodeElement(s, type, size, i) ==
  LET e == DecodeSimple(s.rest, type)
  IN IF s.status # 0 THEN s
     ELSE IF e.status # 0
     THEN [s EXCEPT !.status = e.status + StillExpected(size, i), !.rest = e.rest]
     ELSE [s EXCEPT !.value = Append(@, e.value), !.rest = e.rest]
DecodeVector(bytes, type) ==
  LET size == DecodeNumber(bytes, "uint16")
  IN IF size.status # 0 THEN [size EXCEPT !.value = <<>>]
     ELSE FoldLeft(LAMBDA s, i : DecodeElement(s, type, size.value, i - 1),
                   [size EXCEPT !.value = <<>>], [i \in 1..size.value |-> i])

-----------------------------------------------------------------------------
\* A message of every shape, and the bytes of it that have come so far.
Pairs == [shape : {"pair"}, types : Simple \X Simple]
Vectors == [shape : {"vector"}, types : {<<t>> : t \in Simple}]
ValuesOf(kind) ==
  IF kind.shape = "pair" THEN Values(kind.types[1]) \X Values(kind.types[2])
  ELSE UNION {[1..n -> Values(kind.types[1])] : n \in 0..MaxLength}

Encode(kind, v) == IF kind.shape = "pair" THEN EncodePair(kind.types, v)
                   ELSE EncodeVector(kind.types[1], v)
Decode(bytes, kind) == IF kind.shape = "pair" THEN DecodePair(bytes, kind.types)
                       ELSE DecodeVector(bytes, kind.types[1])

NoMessage == [kind |-> [shape |-> "none", types |-> <<>>], value |-> <<>>, have |-> 0]

SerializerInit == message = NoMessage

Send(kind, v) == /\ message = NoMessage
                 /\ message' = [kind |-> kind, value |-> v, have |-> 0]

Arrive == /\ message # NoMessage
          /\ message.have < Len(Encode(message.kind, message.value))
          /\ message' = [message EXCEPT !.have = @ + 1]

SerializerNext ==
  \/ \E kind \in Pairs \union Vectors : \E v \in ValuesOf(kind) : Send(kind, v)
  \/ Arrive

SerializerSpec == SerializerInit /\ [][SerializerNext]_serializerVars

-----------------------------------------------------------------------------
Sent == Encode(message.kind, message.value)
Received == Decode(Take(Sent, message.have), message.kind)
Lacking == Len(Sent) - message.have

\* A message decodes to the value it was made of, and takes exactly its own
\* bytes, once all of them are there; before that decoding asks for more.
RoundTrip ==
  message # NoMessage =>
    IF Lacking = 0
    THEN /\ Received.status = 0 /\ Received.value = message.value
         /\ Decode(Sent \o Sent, message.kind).rest = Sent
    ELSE Received.status > 0

\* The status of a message that is cut never asks for more than is missing:
\* it "is guaranteed to be <= the number of additional bytes actually needed"
\* (serializers.h:57-59).  The code counts the cut element of a vector once
\* more.
HintsFit == message # NoMessage /\ Lacking > 0 => Received.status <= Lacking
=============================================================================
