----------------------------- MODULE WireProofs -----------------------------
(***************************************************************************)
(* What goes over the wire comes out as it went in: packets out of a TCP   *)
(* stream (TcpFraming), for any block cipher, any sizes of packets and any *)
(* cut into reads and chunks, and then values out of the bytes they were   *)
(* encoded to (Serializers), for any number of values of a byte, any       *)
(* numbers and any lengths of strings and vectors.                         *)
(*                                                                         *)
(* Packets.  Where a packet lies in the wire is a sequence of offsets      *)
(* (Layout).  The receiver is at the offset of the packet it waits for, or *)
(* its decoder was started there and has decoded whole blocks of it, no    *)
(* more than it asked for (Reader).  Continue is a loop, but one turn of   *)
(* it is enough: no chunk ends in what it takes (ChunkEnds), because a new *)
(* chunk begins only where nothing waits to be decoded (Quiet).  The       *)
(* exceptions are an IV that is not whole, which is left where it is, and  *)
(* a packet whose block of padding was not decoded, for which nothing is   *)
(* decoded again.                                                          *)
(*                                                                         *)
(* Values.  A decoder that is given the bytes of a value and more takes    *)
(* those and no others (Reads), and asks for more when it is given less    *)
(* (Asks).  Pairs have this from their parts, and vectors by going over    *)
(* what lies behind each element (Tails).                                  *)
(*                                                                         *)
(* Keys.  The two ends of an SRP exchange compute the same key (Srp), for  *)
(* any primes, generators and digests: both have a power of g, and the     *)
(* exponents agree because those of the code stay below the prime that it  *)
(* reduces them by.  What a prime does not divide has powers it does not   *)
(* divide, so no key is made of 0.                                         *)
(*                                                                         *)
(* Calls.  However the stream between daemon and uvpn-ctl is cut, what is  *)
(* unparsed and what is still in the stream lie behind the calls that were *)
(* handled (Behind, Cut), and of the next one not all is there: a turn of  *)
(* HandleRead's loop given a whole call takes exactly that, given less     *)
(* asks for more, and never goes on without taking a byte.  What uvpn-ctl  *)
(* has written and what waits in its buffer are the codes of its requests. *)
(***************************************************************************)
EXTENDS TcpFraming, IPC, Srp, SequenceTheorems, FoldLemmas

Total(size) == SizeLength + Padding(size) + size
Length(size) == IVLength + Total(size)
Target(size) == RoundUp(SizeLength + size)

\* A number of bytes that is a number of blocks.
Blocks == {k * BlockSize : k \in Nat}

StreamBytes == [packet : Nat, field : {"iv", "size", "pad", "data"}, at : Nat]

\* Every packet lies in the wire, from offset[n] on, and after it the next.
Layout(offset) ==
  /\ offset \in [1..(Len(sent) + 1) -> Nat]
  /\ offset[1] = 0 /\ offset[Len(sent) + 1] = Len(wire)
  /\ \A n \in 1..Len(sent) :
       /\ offset[n + 1] = offset[n] + Length(sent[n])
       /\ offset[n + 1] <= Len(wire)
       /\ \A i \in 1..Length(sent[n]) :
            wire[offset[n] + i] = Encoded(n, sent[n])[i]

\* The packet the receiver is busy with, or waits for.
Current == Len(delivered) + 1

\* What a decoder that was started at offset o has made of what it took.
Within(d, o) ==
  /\ d.pos = o + IVLength + Len(d.clear) + d.held /\ d.pos <= arrived
  /\ Len(d.clear) \in Blocks /\ d.held \in 0..(BlockSize - 1)
  /\ \A i \in 1..Len(d.clear) : d.clear[i] = wire[o + IVLength + i]

\* Size and data were decoded, but not the block of padding.  Continue will not
\* be called again for this packet.
Stuck == /\ started /\ held = 0
         /\ Len(clear) = Target(sent[Current])
         /\ FullPadding(Current)

Reader(offset) ==
  /\ Current <= Len(sent) + 1
  /\ IF started
       THEN /\ Current <= Len(sent)
            /\ Within(Taken, offset[Current])
            /\ Stuck \/ Len(clear) + held < Target(sent[Current])
       ELSE pos = offset[Current] /\ clear = <<>> /\ held = 0 /\ pos <= arrived

\* Nothing waits to be taken that has come, but the beginning of an IV.
Quiet == \/ pos = arrived
         \/ ~started /\ arrived - pos < IVLength
         \/ Stuck

\* A chunk that ends in what is not yet taken ends in an IV.
ChunkEnds == \/ chunkEnd <= pos
             \/ ~started /\ chunkEnd - pos < IVLength
             \/ Stuck

StateTypeOK == /\ sent \in Seq(Nat) /\ wire \in Seq(StreamBytes)
               /\ arrived \in 0..Len(wire) /\ chunkEnd \in 0..arrived
               /\ reading \in BOOLEAN /\ started \in BOOLEAN
               /\ pos \in Nat /\ held \in Nat
               /\ clear \in Seq(StreamBytes)
               /\ delivered \in Seq(Seq(StreamBytes))

IInv == /\ StateTypeOK
        /\ \E offset : Layout(offset) /\ Reader(offset)
        /\ Intact
        /\ ChunkEnds
        /\ ~reading /\ fault = "none" => Quiet
        /\ fault # "none" => ~reading /\ fault = "limit" /\ FullPadding(Current)

-----------------------------------------------------------------------------
(* Blocks.                                                                 *)

LEMMA DivMod ==
  ASSUME NEW x \in Nat
  PROVE  /\ x \div BlockSize \in Nat /\ x % BlockSize \in 0..(BlockSize - 1)
         /\ x = (x \div BlockSize) * BlockSize + (x % BlockSize)
BY TcpAssumption

LEMMA BlockFacts ==
  /\ Blocks \subseteq Nat /\ 0 \in Blocks
  /\ \A a, b \in Blocks : /\ a + b \in Blocks
                          /\ a < b => a + BlockSize <= b /\ b - a \in Blocks
<1>1. 0 = 0 * BlockSize
  BY TcpAssumption
<1>2. Blocks \subseteq Nat /\ 0 \in Blocks
  BY <1>1, TcpAssumption DEF Blocks
<1>3. ASSUME NEW j \in Nat, NEW k \in Nat
      PROVE  /\ j * BlockSize + k * BlockSize = (j + k) * BlockSize
             /\ j * BlockSize < k * BlockSize =>
                  /\ j * BlockSize + BlockSize <= k * BlockSize
                  /\ k - j \in Nat /\ k * BlockSize - j * BlockSize = (k - j) * BlockSize
  BY TcpAssumption
<1>4. ASSUME NEW a \in Blocks, NEW b \in Blocks
      PROVE /\ a + b \in Blocks
            /\ a < b => a + BlockSize <= b /\ b - a \in Blocks
  <2>1. PICK j \in Nat : a = j * BlockSize
    BY DEF Blocks
  <2>2. PICK k \in Nat : b = k * BlockSize
    BY DEF Blocks
  <2>3. a + b = (j + k) * BlockSize /\ j + k \in Nat
    BY <1>3, <2>1, <2>2
  <2>4. a < b => /\ a + BlockSize <= b
                 /\ k - j \in Nat /\ b - a = (k - j) * BlockSize
    BY <1>3, <2>1, <2>2
  <2>5. a + b \in Blocks
    BY <2>3 DEF Blocks
  <2>6. ASSUME a < b PROVE b - a \in Blocks
    BY <2>4, <2>6 DEF Blocks
  <2> QED BY <2>4, <2>5, <2>6
<1> QED BY <1>2, <1>4

\* The block that x lies in, and what x has of it.
LEMMA Floor ==
  ASSUME NEW x \in Nat
  PROVE  /\ (x \div BlockSize) * BlockSize \in Blocks
         /\ (x \div BlockSize) * BlockSize <= x
         /\ x % BlockSize \in 0..(BlockSize - 1)
         /\ x - (x \div BlockSize) * BlockSize = x % BlockSize
         /\ x \in Blocks => x % BlockSize = 0 /\ (x \div BlockSize) * BlockSize = x
<1> DEFINE q == (x \div BlockSize) * BlockSize
<1>1. q \in Blocks /\ x % BlockSize \in 0..(BlockSize - 1) /\ x = q + (x % BlockSize)
  BY DivMod DEF Blocks
<1> HIDE DEF q
<1>2. q \in Nat /\ BlockSize \in Nat
  BY <1>1, BlockFacts, TcpAssumption
<1>3. ASSUME x \in Blocks PROVE q = x
  <2>1. q < x => q + BlockSize <= x
    BY <1>1, <1>3, BlockFacts
  <2> QED BY <1>1, <1>2, <2>1
<1> QED BY <1>1, <1>2, <1>3 DEF q

\* RoundUp is the least number of blocks.
LEMMA RoundUpIsLeast ==
  ASSUME NEW x \in Nat
  PROVE  /\ RoundUp(x) \in Blocks /\ RoundUp(x) \in Nat
         /\ x <= RoundUp(x) /\ RoundUp(x) < x + BlockSize
         /\ \A b \in Blocks : x <= b => RoundUp(x) <= b
<1> DEFINE y == x + BlockSize - 1
<1>1. y \in Nat /\ BlockSize \in Nat \ {0}
  BY TcpAssumption
<1>2. RoundUp(x) = (y \div BlockSize) * BlockSize
  BY DEF RoundUp
<1>3. y = x + BlockSize - 1
  OBVIOUS
<1> HIDE DEF y
<1>4. /\ RoundUp(x) \in Blocks /\ RoundUp(x) <= y /\ y - RoundUp(x) < BlockSize
      /\ RoundUp(x) \in Nat
  <2>1. /\ (y \div BlockSize) * BlockSize \in Blocks
        /\ (y \div BlockSize) * BlockSize <= y
        /\ y % BlockSize \in 0..(BlockSize - 1)
        /\ y - (y \div BlockSize) * BlockSize = y % BlockSize
    BY <1>1, Floor
  <2> DEFINE q == (y \div BlockSize) * BlockSize
             m == y % BlockSize
  <2>2. q \in Nat
    BY <2>1, BlockFacts
  <2> HIDE DEF q, m
  <2>3. q \in Blocks /\ q <= y /\ m \in 0..(BlockSize - 1) /\ y - q = m /\ RoundUp(x) = q
    BY <1>2, <2>1 DEF q, m
  <2> QED BY <1>1, <2>2, <2>3
<1>5. x <= RoundUp(x) /\ RoundUp(x) < x + BlockSize
  BY <1>1, <1>3, <1>4
<1>6. ASSUME NEW b \in Blocks, x <= b PROVE RoundUp(x) <= b
  <2>1. b \in Nat
    BY BlockFacts
  <2>2. b < RoundUp(x) => b + BlockSize <= RoundUp(x)
    BY <1>4, BlockFacts
  <2> QED BY <1>1, <1>4, <1>5, <1>6, <2>1, <2>2
<1> QED BY <1>4, <1>5, <1>6

\* What is left after some blocks is rounded up as the whole is.
LEMMA RoundUpRest ==
  ASSUME NEW x \in Nat, NEW b \in Blocks, b < x
  PROVE  x - b \in Nat \ {0} /\ b + RoundUp(x - b) = RoundUp(x)
<1>1. b \in Nat /\ x - b \in Nat \ {0}
  BY BlockFacts
<1>2. /\ RoundUp(x - b) \in Nat /\ b + RoundUp(x - b) \in Blocks
      /\ x <= b + RoundUp(x - b)
  <2>1. /\ RoundUp(x - b) \in Blocks /\ RoundUp(x - b) \in Nat
        /\ x - b <= RoundUp(x - b)
    BY <1>1, RoundUpIsLeast
  <2>2. b + RoundUp(x - b) \in Blocks
    BY <2>1, BlockFacts
  <2> QED BY <1>1, <2>1, <2>2
<1>3. /\ RoundUp(x) \in Nat /\ RoundUp(x) <= b + RoundUp(x - b)
  BY <1>2, RoundUpIsLeast
<1>4. RoundUp(x) - b \in Blocks /\ x - b <= RoundUp(x) - b
  <2>1. RoundUp(x) \in Blocks /\ RoundUp(x) \in Nat /\ x <= RoundUp(x)
    BY RoundUpIsLeast
  <2>2. b < RoundUp(x)
    BY <1>1, <2>1
  <2>3. RoundUp(x) - b \in Blocks
    BY <2>1, <2>2, BlockFacts
  <2> QED BY <1>1, <2>1, <2>3
<1>5. RoundUp(x - b) <= RoundUp(x) - b
  BY <1>1, <1>4, RoundUpIsLeast
<1> QED BY <1>1, <1>2, <1>3, <1>5

\* A packet with its padding ends at the end of a block; it is what Continue is
\* asked for unless the padding is a block that holds nothing else.
LEMMA Sizes ==
  ASSUME NEW size \in Nat
  PROVE  /\ Padding(size) \in 1..BlockSize /\ Padding(size) \in Nat
         /\ Target(size) \in Blocks /\ Target(size) \in Nat
         /\ Total(size) \in Nat /\ Length(size) \in Nat \ {0}
         /\ SizeLength + size <= Target(size)
         /\ RoundUp(SizeLength) <= Target(size)
         /\ Target(size) <= Total(size)
         /\ Padding(size) # BlockSize => Target(size) = Total(size)
         /\ Target(size) # Total(size) => Padding(size) = BlockSize
         /\ Padding(size) = BlockSize => Target(size) < Total(size)
<1> DEFINE x == size + SizeLength
           m == x % BlockSize
           q == (x \div BlockSize) * BlockSize
<1>1. x \in Nat /\ SizeLength \in Nat /\ SizeLength = 2 /\ BlockSize \in Nat \ {0}
      /\ x = SizeLength + size
  BY TcpAssumption DEF SizeLength
<1>2. Padding(size) = BlockSize - m
  BY DEF Padding
<1>3. Target(size) = RoundUp(x)
  BY <1>1 DEF Target
<1> HIDE DEF x
<1>4. /\ q \in Blocks /\ q <= x /\ m \in 0..(BlockSize - 1) /\ x - q = m
      /\ x \in Blocks => m = 0
  BY <1>1, Floor
<1>5. BlockSize \in Blocks
  <2>1. BlockSize = 1 * BlockSize
    BY <1>1
  <2> QED BY <2>1 DEF Blocks
<1> HIDE DEF m, q
<1>6. q + BlockSize \in Blocks /\ q \in Nat
  BY <1>4, <1>5, BlockFacts
<1>7. /\ RoundUp(x) \in Blocks /\ RoundUp(x) \in Nat /\ x <= RoundUp(x)
      /\ RoundUp(x) < x + BlockSize
      /\ \A b \in Blocks : x <= b => RoundUp(x) <= b
  BY <1>1, RoundUpIsLeast
<1>8. Total(size) = q + BlockSize /\ Total(size) = x + Padding(size)
  BY <1>1, <1>2, <1>4, <1>6 DEF Total
<1>9. RoundUp(SizeLength) <= RoundUp(x)
  <2>1. SizeLength <= RoundUp(x)
    BY <1>1, <1>7
  <2> QED BY <1>1, <1>7, <2>1, RoundUpIsLeast
<1>10. RoundUp(x) <= Total(size)
  BY <1>1, <1>4, <1>6, <1>7, <1>8
<1>11. CASE m = 0
  <2>1. x \in Blocks /\ x = q
    BY <1>1, <1>4, <1>6, <1>11
  <2>2. RoundUp(x) = x
    BY <1>1, <1>7, <2>1
  <2> QED BY <1>1, <1>2, <1>3, <1>4, <1>6, <1>7, <1>8, <1>9, <1>10, <1>11, <2>2, TcpAssumption
          DEF Length
<1>12. CASE m # 0
  <2>1. q < RoundUp(x) => q + BlockSize <= RoundUp(x)
    BY <1>4, <1>7, BlockFacts
  <2>2. RoundUp(x) = Total(size)
    BY <1>1, <1>4, <1>6, <1>7, <1>8, <1>10, <1>12, <2>1
  <2> QED BY <1>1, <1>2, <1>3, <1>4, <1>6, <1>7, <1>8, <1>9, <1>10, <1>12, <2>2, TcpAssumption
          DEF Length
<1> QED BY <1>11, <1>12

-----------------------------------------------------------------------------
(* Decoding.                                                               *)

Decoders == [pos : Nat, held : Nat, clear : Seq(StreamBytes), decoded : Nat]

LEMMA ConcatKeeps ==
  ASSUME NEW T, NEW a \in Seq(T), NEW b \in Seq(T)
  PROVE  /\ a \o b \in Seq(T) /\ Len(a \o b) = Len(a) + Len(b)
         /\ \A i \in 1..Len(a) : (a \o b)[i] = a[i]
         /\ \A i \in 1..Len(b) : (a \o b)[Len(a) + i] = b[i]
OBVIOUS

LEMMA SubSeqKeeps ==
  ASSUME NEW T, NEW q \in Seq(T), NEW first \in Nat, NEW count \in Nat,
         first + count <= Len(q)
  PROVE  /\ SubSeq(q, first + 1, first + count) \in Seq(T)
         /\ Len(SubSeq(q, first + 1, first + count)) = count
         /\ \A i \in 1..count : SubSeq(q, first + 1, first + count)[i] = q[first + i]
OBVIOUS

\* A loop that is over after a turn, whatever the number of turns it may take.
LEMMA OneTurn ==
  ASSUME NEW m, NEW d, NEW n \in Nat,
         ContinueTurn(ContinueTurn(d, m), m) = ContinueTurn(d, m)
  PROVE  FoldLeft(LAMBDA e, i : ContinueTurn(e, m), d, [i \in 1..n |-> i])
           = IF n = 0 THEN d ELSE ContinueTurn(d, m)
<1> DEFINE seq == [i \in 1..n |-> i]
           Turns(h) == h = [s \in SUBSET (1..n) |->
                              IF s = {} THEN d ELSE ContinueTurn(h[s \ {Max(s)}], m)]
           iter == CHOOSE h : Turns(h)
<1>1. FoldLeft(LAMBDA e, i : ContinueTurn(e, m), d, seq) = iter[1..n]
  BY DEF FoldLeft, MapThenFoldSet
<1>2. \E h : Turns(h)
  <2> DEFINE h == [s \in SUBSET (1..n) |-> IF s = {} THEN d ELSE ContinueTurn(d, m)]
  <2>1. ASSUME NEW s \in SUBSET (1..n), s # {}
        PROVE  h[s] = ContinueTurn(h[s \ {Max(s)}], m)
    BY <2>1
  <2>2. Turns(h)
    BY <2>1
  <2> QED BY <2>2
<1>3. Turns(iter)
  BY <1>2
<1> HIDE DEF iter
<1> DEFINE S == {k \in Nat : k <= n => iter[1..k] = IF k = 0 THEN d ELSE ContinueTurn(d, m)}
<1>4. 0 \in S
  BY <1>3
<1>5. ASSUME NEW k \in Nat, k \in S PROVE k + 1 \in S
  <2> SUFFICES ASSUME k + 1 <= n PROVE iter[1..(k + 1)] = ContinueTurn(d, m)
    OBVIOUS
  <2>1. 1..(k + 1) \in SUBSET (1..n)
    OBVIOUS
  <2>2. /\ Max(1..(k + 1)) = k + 1
        /\ 1..(k + 1) # {} /\ (1..(k + 1)) \ {k + 1} = 1..k
    BY LastOfInterval
  <2>3. iter[1..(k + 1)] = ContinueTurn(iter[1..k], m)
    BY <1>3, <2>1, <2>2
  <2> QED BY <1>5, <2>3
<1>6. n \in S
  <2> HIDE DEF S
  <2> QED BY <1>4, <1>5, NatSet
<1>7. iter[1..n] = IF n = 0 THEN d ELSE ContinueTurn(d, m)
  BY <1>6
<1> HIDE DEF S
<1> QED BY <1>1, <1>7, Zenon

\* A turn where no chunk ends within what is left.
LEMMA TurnIs ==
  ASSUME NEW d \in Decoders, NEW m \in Nat, Left(d) # 0, d.decoded < m,
         StateTypeOK, chunkEnd <= d.pos
  PROVE  LET n == IF m - d.decoded < Left(d) THEN m - d.decoded ELSE Left(d)
             blocks == ((d.held + n) \div BlockSize) * BlockSize
             r == ContinueTurn(d, m)
         IN  /\ r.pos = d.pos + n /\ r.held = (d.held + n) % BlockSize
             /\ r.clear = d.clear \o SubSeq(wire, d.pos - d.held + 1,
                                            d.pos - d.held + blocks)
             /\ r.decoded = d.decoded + blocks
             /\ r = [pos |-> r.pos, held |-> r.held, clear |-> r.clear,
                     decoded |-> r.decoded]
<1>1. ~(d.pos < chunkEnd) /\ ~(d.decoded >= m)
  BY DEF Decoders, StateTypeOK
<1>2. Contiguous(d) = Left(d)
  BY <1>1 DEF Contiguous
<1> QED BY <1>1, <1>2 DEF ContinueTurn

\* Continue takes what there is, or what makes up the blocks asked for.
LEMMA ContinueTakes ==
  ASSUME StateTypeOK, NEW o \in Nat, NEW d \in Decoders, Within(d, o),
         chunkEnd <= d.pos, NEW u \in Nat \ {0}
  PROVE  LET r == Continue(d, u)
         IN  /\ r \in Decoders /\ Within(r, o) /\ d.pos <= r.pos
             /\ Len(r.clear) + r.held <= Len(d.clear) + RoundUp(u)
             /\ \/ r.pos = arrived
                \/ Len(r.clear) = Len(d.clear) + RoundUp(u) /\ r.held = 0
<1> DEFINE m == RoundUp(u)
           d0 == [d EXCEPT !.decoded = d.held]
           t == ContinueTurn(d0, m)
           left == Left(d)
<1>1. /\ d0 \in Decoders /\ d0.pos = d.pos /\ d0.held = d.held /\ d0.clear = d.clear
      /\ d0.decoded = d.held /\ Left(d0) = left
  BY DEF Decoders, Left
<1> DEFINE len == Len(d.clear)
           end == Len(wire)
<1>2. d.pos \in Nat /\ d.pos <= arrived /\ arrived \in Nat
  BY DEF Within, Decoders, StateTypeOK
<1>e. end \in Nat /\ arrived <= end
  BY DEF StateTypeOK
<1>l. len \in Nat /\ d.held \in Nat /\ d.pos = o + IVLength + len + d.held
  BY DEF Within, Decoders
<1>b. len \in Blocks /\ d.held \in 0..(BlockSize - 1)
  BY DEF Within
<1>c. /\ d.clear \in Seq(StreamBytes)
      /\ \A i \in 1..len : d.clear[i] = wire[o + IVLength + i]
  BY DEF Within, Decoders
<1>i. IVLength \in Nat /\ BlockSize \in Nat \ {0}
  BY TcpAssumption
<1>3. left \in Nat /\ left = arrived - d.pos
  BY <1>2 DEF Left
<1>4. m \in Nat /\ m \in Blocks /\ d.held < m
  <2>1. m \in Nat /\ m \in Blocks /\ 0 < m
    BY RoundUpIsLeast
  <2>2. BlockSize <= m
    BY <1>i, <2>1, BlockFacts
  <2> QED BY <1>i, <1>b, <2>1, <2>2
<1> HIDE DEF len, end
<1>5. Continue(d, u) = FoldLeft(LAMBDA e, i : ContinueTurn(e, m), d0, [i \in 1..left |-> i])
  BY DEF Continue
<1>6. CASE left = 0
  <2>1. t = d0
    BY <1>1, <1>6 DEF ContinueTurn
  <2>2. Continue(d, u) = d0
    <3> HIDE DEF d0, m, left, t
    <3>1. ContinueTurn(d0, m) = d0
      BY <2>1 DEF t
    <3> QED BY <1>3, <1>5, <1>6, <3>1, OneTurn
  <2>3. Within(d0, o)
    BY <1>1 DEF Within
  <2>4. d.pos = arrived
    BY <1>2, <1>3, <1>6
  <2> QED BY <1>1, <1>2, <1>l, <1>4, <2>2, <2>3, <2>4 DEF len
<1>7. CASE left # 0
  <2> DEFINE n == IF m - d.held < left THEN m - d.held ELSE left
             x == d.held + n
             blocks == (x \div BlockSize) * BlockSize
             first == d.pos - d.held
             new == SubSeq(wire, first + 1, first + blocks)
  <2>1. /\ t.pos = d.pos + n /\ t.held = x % BlockSize
        /\ t.clear = d.clear \o new /\ t.decoded = d.held + blocks
        /\ t = [pos |-> t.pos, held |-> t.held, clear |-> t.clear, decoded |-> t.decoded]
    <3> HIDE DEF d0, m, left
    <3> QED BY <1>1, <1>4, <1>7, TurnIs
  <2> HIDE DEF m, left, d0, t
  <2>2. n \in Nat /\ n <= left /\ n <= m - d.held /\ (n = left \/ n = m - d.held)
    BY <1>l, <1>3, <1>4
  <2> HIDE DEF n
  <2>3. x \in Nat /\ x <= m /\ (n = left \/ x = m)
    BY <1>l, <1>4, <2>2
  <2>4. /\ blocks \in Blocks /\ blocks <= x
        /\ x % BlockSize \in 0..(BlockSize - 1) /\ x - blocks = x % BlockSize
        /\ x \in Blocks => x % BlockSize = 0 /\ blocks = x
    <3> HIDE DEF x
    <3> QED BY <2>3, Floor
  <2>5. blocks \in Nat
    BY <2>4, BlockFacts
  <2> HIDE DEF blocks
  <2>6. /\ t.held \in 0..(BlockSize - 1) /\ x = blocks + t.held
        /\ x = m => blocks = m /\ t.held = 0
    BY <1>4, <2>1, <2>3, <2>4, <2>5
  <2>7. first \in Nat /\ first = o + IVLength + len /\ first + blocks <= end
    <3>1. first = o + IVLength + len
      BY <1>l, <1>i
    <3>2. first + blocks <= d.pos + n
      BY <1>2, <1>l, <2>2, <2>4, <2>5
    <3>3. d.pos + n <= end
      BY <1>2, <1>e, <1>3, <2>2
    <3>4. d.pos + n \in Nat /\ first + blocks \in Nat
      BY <1>2, <1>l, <1>i, <2>2, <2>5, <3>1
    <3> QED BY <1>e, <1>l, <1>i, <3>1, <3>2, <3>3, <3>4
  <2> HIDE DEF first
  <2>8. /\ new \in Seq(StreamBytes) /\ Len(new) = blocks
        /\ \A i \in 1..blocks : new[i] = wire[first + i]
    <3>1. wire \in Seq(StreamBytes)
      BY DEF StateTypeOK
    <3>2. first \in Nat /\ blocks \in Nat /\ first + blocks <= Len(wire)
      BY <2>5, <2>7 DEF end
    <3> QED BY <3>1, <3>2, SubSeqKeeps
  <2> HIDE DEF new
  <2>9. /\ t.clear \in Seq(StreamBytes) /\ Len(t.clear) = len + blocks
        /\ \A i \in 1..len : t.clear[i] = d.clear[i]
        /\ \A i \in 1..blocks : t.clear[len + i] = new[i]
    <3>1. d.clear \in Seq(StreamBytes) /\ new \in Seq(StreamBytes)
      BY <1>c, <2>8
    <3>2. /\ d.clear \o new \in Seq(StreamBytes)
          /\ Len(d.clear \o new) = Len(d.clear) + Len(new)
          /\ \A i \in 1..Len(d.clear) : (d.clear \o new)[i] = d.clear[i]
          /\ \A i \in 1..Len(new) : (d.clear \o new)[Len(d.clear) + i] = new[i]
      BY <3>1, ConcatKeeps
    <3>3. t.clear = d.clear \o new /\ Len(new) = blocks /\ Len(d.clear) = len
      BY <2>1, <2>8 DEF len
    <3> QED BY <3>2, <3>3
  <2>10. ASSUME NEW i \in 1..Len(t.clear)
         PROVE  t.clear[i] = wire[o + IVLength + i]
    <3>1. CASE i <= len
      BY <1>l, <1>c, <2>9, <3>1
    <3>2. CASE i > len
      <4>1. i - len \in 1..blocks /\ i = len + (i - len)
        BY <1>l, <2>5, <2>9, <3>2
      <4>2. t.clear[i] = wire[first + (i - len)]
        BY <2>8, <2>9, <4>1
      <4>3. first + (i - len) = o + IVLength + i
        BY <1>l, <1>i, <2>7, <4>1
      <4> QED BY <4>2, <4>3
    <3> QED BY <1>l, <2>5, <2>9, <3>1, <3>2
  <2>11. t.pos \in Nat /\ t.held \in Nat /\ t.decoded \in Nat
    <3>1. t.held \in Nat
      BY <1>i, <2>6
    <3>2. t.pos \in Nat
      BY <1>2, <2>1, <2>2
    <3>3. t.decoded \in Nat
      BY <1>l, <2>1, <2>5
    <3> QED BY <3>1, <3>2, <3>3
  <2>12. t \in Decoders
    BY <2>1, <2>9, <2>11 DEF Decoders
  <2>13. Len(t.clear) \in Blocks
    BY <1>b, <2>4, <2>9, BlockFacts
  <2>14. t.pos = o + IVLength + Len(t.clear) + t.held /\ t.pos <= arrived
    <3>1. t.pos <= arrived
      BY <1>2, <1>3, <2>1, <2>2
    <3>2. t.pos = o + IVLength + len + x
      BY <1>l, <1>i, <2>1, <2>2
    <3>3. Len(t.clear) = len + blocks /\ x = blocks + t.held
      BY <2>6, <2>9
    <3> HIDE DEF x
    <3> QED BY <1>l, <1>i, <2>5, <2>11, <3>1, <3>2, <3>3
  <2>15. Within(t, o)
    BY <2>6, <2>10, <2>13, <2>14 DEF Within
  <2>16. \/ t.pos = arrived
         \/ Len(t.clear) = len + m /\ t.held = 0 /\ t.decoded >= m
    <3>1. CASE n = left
      BY <1>2, <1>3, <2>1, <3>1
    <3>2. CASE x = m
      <4>1. blocks = m /\ t.held = 0
        BY <2>6, <3>2
      <4>2. t.decoded >= m
        BY <1>l, <1>4, <2>1, <4>1
      <4> QED BY <2>9, <4>1, <4>2
    <3> QED BY <2>3, <3>1, <3>2
  <2>17. ContinueTurn(t, m) = t
    <3>1. Left(t) = 0 \/ t.decoded >= m
      BY <1>2, <2>16 DEF Left
    <3> QED BY <3>1 DEF ContinueTurn
  <2>18. Continue(d, u) = t
    BY <1>3, <1>5, <1>7, <2>17, OneTurn DEF t
  <2>19. Len(t.clear) + t.held <= len + m /\ d.pos <= t.pos
    <3>1. Len(t.clear) + t.held = len + x
      BY <1>l, <2>5, <2>6, <2>9
    <3>2. len + x <= len + m
      BY <1>l, <1>4, <2>3
    <3>3. d.pos <= t.pos
      BY <1>2, <2>1, <2>2
    <3> QED BY <3>1, <3>2, <3>3
  <2> QED BY <2>12, <2>15, <2>16, <2>18, <2>19 DEF m, len
<1> QED BY <1>6, <1>7

-----------------------------------------------------------------------------
(* Packets in the wire.                                                    *)

LEMMA BytesAre ==
  ASSUME NEW n \in Nat, NEW field \in {"iv", "size", "pad", "data"}, NEW count \in Nat
  PROVE  /\ Bytes(n, field, count) \in Seq(StreamBytes)
         /\ Len(Bytes(n, field, count)) = count
         /\ \A i \in 1..count : Bytes(n, field, count)[i] = Byte(n, field, i)
<1>1. \A i \in 1..count : Byte(n, field, i) \in StreamBytes
  BY DEF Byte, StreamBytes
<1> QED BY <1>1 DEF Bytes

LEMMA EncodedIs ==
  ASSUME NEW n \in Nat, NEW size \in Nat
  PROVE  /\ Encoded(n, size) \in Seq(StreamBytes)
         /\ Len(Encoded(n, size)) = Length(size)
         /\ Encoded(n, size)[IVLength + 1] = Byte(n, "size", 1)
         /\ \A i \in 1..size :
              Encoded(n, size)[IVLength + SizeLength + Padding(size) + i] = Byte(n, "data", i)
<1> DEFINE iv == EncoderStart(n)
           number == Bytes(n, "size", SizeLength)
           pad == Bytes(n, "pad", Padding(size))
           data == Bytes(n, "data", size)
           p == Padding(size)
<1>1. p \in Nat /\ SizeLength \in Nat /\ SizeLength = 2 /\ IVLength \in Nat
  BY Sizes, TcpAssumption DEF SizeLength
<1>2. iv \in Seq(StreamBytes) /\ Len(iv) = IVLength
  BY <1>1, BytesAre DEF EncoderStart
<1>3. number \in Seq(StreamBytes) /\ Len(number) = SizeLength /\ number[1] = Byte(n, "size", 1)
  <2>1. 1 \in 1..SizeLength
    BY <1>1
  <2>2. /\ number \in Seq(StreamBytes) /\ Len(number) = SizeLength
        /\ \A i \in 1..SizeLength : number[i] = Byte(n, "size", i)
    <3>1. PICK k \in Nat : k = SizeLength
      BY <1>1
    <3>2. /\ Bytes(n, "size", k) \in Seq(StreamBytes) /\ Len(Bytes(n, "size", k)) = k
          /\ \A i \in 1..k : Bytes(n, "size", k)[i] = Byte(n, "size", i)
      BY BytesAre
    <3> QED BY <3>1, <3>2
  <2> HIDE DEF number
  <2> QED BY <2>1, <2>2
<1>4. pad \in Seq(StreamBytes) /\ Len(pad) = p
  BY <1>1, BytesAre
<1>5. /\ data \in Seq(StreamBytes) /\ Len(data) = size
      /\ \A i \in 1..size : data[i] = Byte(n, "data", i)
  BY BytesAre
<1>6. Encoded(n, size) = ((iv \o number) \o pad) \o data
  BY DEF Encoded
<1>7. Length(size) = IVLength + (SizeLength + p + size)
  BY DEF Length, Total
<1> HIDE DEF iv, number, pad, data, p
<1> DEFINE a == iv \o number
           b == a \o pad
<1>8. /\ a \in Seq(StreamBytes) /\ Len(a) = IVLength + SizeLength
      /\ a[IVLength + 1] = Byte(n, "size", 1)
  <2>1. /\ a \in Seq(StreamBytes) /\ Len(a) = Len(iv) + Len(number)
        /\ \A i \in 1..Len(number) : a[Len(iv) + i] = number[i]
    <3>1. iv \in Seq(StreamBytes) /\ number \in Seq(StreamBytes)
      BY <1>2, <1>3
    <3> QED BY <3>1, ConcatKeeps
  <2>2. 1 \in 1..Len(number)
    BY <1>1, <1>3
  <2> QED BY <1>2, <1>3, <2>1, <2>2
<1> HIDE DEF a
<1>9. /\ b \in Seq(StreamBytes) /\ Len(b) = IVLength + SizeLength + p
      /\ b[IVLength + 1] = Byte(n, "size", 1)
  <2>1. /\ b \in Seq(StreamBytes) /\ Len(b) = Len(a) + Len(pad)
        /\ \A i \in 1..Len(a) : b[i] = a[i]
    BY <1>4, <1>8, ConcatKeeps
  <2>2. IVLength + 1 \in 1..Len(a)
    BY <1>1, <1>8
  <2> QED BY <1>4, <1>8, <2>1, <2>2
<1> HIDE DEF b
<1>10. /\ b \o data \in Seq(StreamBytes) /\ Len(b \o data) = Len(b) + Len(data)
       /\ \A i \in 1..Len(b) : (b \o data)[i] = b[i]
       /\ \A i \in 1..Len(data) : (b \o data)[Len(b) + i] = data[i]
  <2>1. b \in Seq(StreamBytes) /\ data \in Seq(StreamBytes)
    BY <1>5, <1>9
  <2> QED BY <2>1, ConcatKeeps
<1>11. IVLength + 1 \in 1..Len(b)
  BY <1>1, <1>9
<1>12. Encoded(n, size) = b \o data
  BY <1>6 DEF a, b
<1>13. Len(b) + Len(data) = Length(size)
  BY <1>1, <1>5, <1>7, <1>9
<1> QED BY <1>5, <1>9, <1>10, <1>11, <1>12, <1>13 DEF p

\* What a decoder has of a packet tells which it is, and is its data in the end.
LEMMA WithinKnows ==
  ASSUME StateTypeOK, NEW offset, Layout(offset), NEW n \in 1..Len(sent),
         NEW d \in Decoders, Within(d, offset[n])
  PROVE  /\ sent[n] \in Nat /\ offset[n] \in Nat
         /\ Len(d.clear) > 0 => d.clear[1].packet = n
         /\ Len(d.clear) = Total(sent[n]) => /\ Payload(d, sent[n]) = Bytes(n, "data", sent[n])
                                             /\ Rest(d, sent[n]) = <<>>
<1> DEFINE size == sent[n]
           o == offset[n]
           p == Padding(size)
<1>1. size \in Nat /\ o \in Nat /\ n \in Nat
  <2>1. sent \in Seq(Nat) /\ Len(sent) \in Nat
    BY DEF StateTypeOK
  <2>2. n \in 1..(Len(sent) + 1)
    BY <2>1
  <2> QED BY <2>1, <2>2 DEF Layout
<1>2. \A i \in 1..Length(size) : wire[o + i] = Encoded(n, size)[i]
  BY DEF Layout
<1>3. \A i \in 1..Len(d.clear) : d.clear[i] = wire[o + IVLength + i]
  BY DEF Within
<1>4. d.clear \in Seq(StreamBytes) /\ Len(d.clear) \in Nat
  BY DEF Decoders
<1> HIDE DEF size, o
<1>5. /\ p \in Nat /\ IVLength \in Nat /\ SizeLength \in Nat /\ SizeLength = 2
      /\ Total(size) = SizeLength + p + size /\ Length(size) = IVLength + Total(size)
      /\ Total(size) \in Nat
  BY <1>1, Sizes, TcpAssumption DEF Total, Length, SizeLength
<1> HIDE DEF p
<1>6. ASSUME Len(d.clear) > 0 PROVE d.clear[1].packet = n
  <2>1. 1 \in 1..Len(d.clear) /\ IVLength + 1 \in 1..Length(size)
    BY <1>1, <1>4, <1>5, <1>6
  <2>2. d.clear[1] = wire[o + IVLength + 1]
    BY <1>3, <2>1
  <2>4. Encoded(n, size)[IVLength + 1] = Byte(n, "size", 1)
    BY <1>1, EncodedIs
  <2>5. wire[o + (IVLength + 1)] = Byte(n, "size", 1)
    BY <1>2, <2>1, <2>4
  <2>3. o + IVLength + 1 = o + (IVLength + 1)
    BY <1>1, <1>5
  <2> QED BY <2>2, <2>3, <2>5 DEF Byte
<1>7. ASSUME Len(d.clear) = Total(size)
      PROVE  Payload(d, size) = Bytes(n, "data", size) /\ Rest(d, size) = <<>>
  <2> DEFINE first == SizeLength + p
  <2>1. first \in Nat /\ first + size = Len(d.clear)
    BY <1>1, <1>5, <1>7
  <2>2. /\ Payload(d, size) = SubSeq(d.clear, first + 1, first + size)
        /\ Rest(d, size) = SubSeq(d.clear, first + size + 1, Len(d.clear))
    BY DEF Payload, Rest, p
  <2>3. ASSUME NEW i \in 1..size PROVE d.clear[first + i] = Byte(n, "data", i)
    <3>1. first + i \in 1..Len(d.clear) /\ IVLength + (first + i) \in 1..Length(size)
      BY <1>1, <1>5, <1>7, <2>1
    <3>2. /\ d.clear[first + i] = wire[o + IVLength + (first + i)]
          /\ wire[o + (IVLength + (first + i))] = Encoded(n, size)[IVLength + (first + i)]
      BY <1>2, <1>3, <3>1
    <3>3. o + IVLength + (first + i) = o + (IVLength + (first + i))
          /\ IVLength + (first + i) = IVLength + SizeLength + p + i
      BY <1>1, <1>5
    <3>4. Encoded(n, size)[IVLength + SizeLength + p + i] = Byte(n, "data", i)
      BY <1>1, EncodedIs DEF p
    <3> QED BY <3>2, <3>3, <3>4
  <2> HIDE DEF first
  <2>4. \A q \in Seq(StreamBytes) : \A k \in Nat : k + size = Len(q) =>
          /\ SubSeq(q, k + 1, k + size) = [i \in 1..size |-> q[k + i]]
          /\ SubSeq(q, k + size + 1, Len(q)) = <<>>
    BY <1>1
  <2>5. Payload(d, size) = [i \in 1..size |-> d.clear[first + i]] /\ Rest(d, size) = <<>>
    BY <1>4, <2>1, <2>2, <2>4
  <2> QED BY <2>3, <2>5 DEF Bytes
<1> QED BY <1>1, <1>6, <1>7 DEF size, o

-----------------------------------------------------------------------------
(* What HandleRead decodes of the current packet.                          *)

\* What is short of a number of blocks stays short of it when less than a block
\* is added.
LEMMA Incomplete ==
  ASSUME NEW b \in Blocks, NEW t \in Blocks, NEW h \in 0..(BlockSize - 1), b < t
  PROVE  b + h < t
<1>1. b + BlockSize <= t /\ b \in Nat /\ t \in Nat
  BY BlockFacts
<1> QED BY <1>1, TcpAssumption

\* What the loop of HandleRead knows when it has the decoder.
Reading(offset) == /\ StateTypeOK /\ Layout(offset) /\ Reader(offset) /\ ChunkEnds
                   /\ pos < arrived /\ CanStart

LEMMA TakenTyped ==
  ASSUME StateTypeOK
  PROVE  /\ Taken \in Decoders /\ Taken.pos = pos /\ Taken.held = held
         /\ Taken.clear = clear /\ Left(Taken) = arrived - pos
         /\ pos \in Nat /\ held \in Nat /\ arrived \in Nat /\ Len(wire) \in Nat
         /\ arrived <= Len(wire) /\ Len(sent) \in Nat /\ Len(clear) \in Nat
         /\ chunkEnd \in Nat /\ Len(delivered) \in Nat /\ Current \in Nat \ {0}
BY DEF StateTypeOK, Taken, Decoders, Left, Current

LEMMA StartReads ==
  ASSUME NEW offset, Reading(offset)
  PROVE  /\ Current \in 1..Len(sent)
         /\ AfterStart \in Decoders /\ Within(AfterStart, offset[Current])
         /\ pos <= AfterStart.pos
         /\ started => AfterStart = Taken
         /\ \/ Stuck
            \/ /\ Len(AfterStart.clear) + AfterStart.held < Target(sent[Current])
               /\ chunkEnd <= AfterStart.pos
<1>1. /\ StateTypeOK /\ Layout(offset) /\ Reader(offset) /\ ChunkEnds
      /\ pos < arrived /\ CanStart
  BY DEF Reading
<1> DEFINE o == offset[Current]
<1>2. CASE started
  <2>1. AfterStart = Taken /\ Current <= Len(sent)
    BY <1>1, <1>2 DEF AfterStart, Reader
  <2>2. Within(Taken, o) /\ (Stuck \/ Len(clear) + held < Target(sent[Current]))
    BY <1>1, <1>2 DEF Reader
  <2>3. Stuck \/ chunkEnd <= pos
    BY <1>1, <1>2 DEF ChunkEnds
  <2>4. Current \in 1..Len(sent) /\ pos <= Taken.pos
    BY <1>1, <2>1, TakenTyped
  <2> QED BY <1>1, <2>1, <2>2, <2>3, <2>4, TakenTyped
<1>3. CASE ~started
  <2>1. pos = o /\ clear = <<>> /\ held = 0 /\ Current <= Len(sent) + 1
    BY <1>1, <1>3 DEF Reader
  <2>2. Current # Len(sent) + 1
    <3>1. offset[Len(sent) + 1] = Len(wire)
      BY <1>1 DEF Layout
    <3> QED BY <1>1, <2>1, <3>1, TakenTyped
  <2>3. Current \in 1..Len(sent)
    BY <1>1, <2>1, <2>2, TakenTyped
  <2>4. AfterStart = [Taken EXCEPT !.pos = @ + IVLength, !.held = 0]
    BY <1>3 DEF AfterStart, DecoderStart
  <2>5. /\ AfterStart \in Decoders /\ AfterStart.pos = pos + IVLength
        /\ AfterStart.held = 0 /\ AfterStart.clear = clear
    <3>1. AfterStart = [pos |-> pos + IVLength, held |-> 0, clear |-> clear, decoded |-> 0]
      BY <2>4 DEF Taken
    <3>2. pos + IVLength \in Nat /\ clear \in Seq(StreamBytes)
      BY <1>1, TcpAssumption DEF StateTypeOK
    <3> QED BY <3>1, <3>2 DEF Decoders
  <2>6. IVLength \in Nat /\ arrived - pos >= IVLength /\ BlockSize \in Nat \ {0}
    BY <1>1, <1>3, TakenTyped, TcpAssumption DEF CanStart
  <2>7. AfterStart.pos <= arrived /\ pos <= AfterStart.pos
    BY <1>1, <2>5, <2>6, TakenTyped
  <2>8. Len(AfterStart.clear) = 0
    BY <2>1, <2>5
  <2>9. AfterStart.pos = o + IVLength + Len(AfterStart.clear) + AfterStart.held
    BY <1>1, <2>1, <2>5, <2>6, <2>8, TakenTyped
  <2>10. Len(AfterStart.clear) \in Blocks /\ AfterStart.held \in 0..(BlockSize - 1)
    BY <2>5, <2>6, <2>8, BlockFacts
  <2>11. Within(AfterStart, o)
    <3>1. \A i \in 1..Len(AfterStart.clear) : FALSE
      BY <2>8
    <3> QED BY <2>7, <2>9, <2>10, <3>1 DEF Within
  <2>12. chunkEnd <= AfterStart.pos
    <3>1. chunkEnd <= pos \/ chunkEnd - pos < IVLength
      BY <1>1, <1>3 DEF ChunkEnds, Stuck
    <3> QED BY <1>1, <2>5, <2>6, <3>1, TakenTyped
  <2>13. sent[Current] \in Nat
    BY <1>1, <2>3 DEF StateTypeOK
  <2>14. Len(AfterStart.clear) + AfterStart.held < Target(sent[Current])
    <3>1. Target(sent[Current]) \in Nat /\ SizeLength + sent[Current] <= Target(sent[Current])
      BY <2>13, Sizes
    <3> QED BY <2>5, <2>8, <2>13, <3>1 DEF SizeLength
  <2> QED BY <1>3, <2>3, <2>5, <2>7, <2>11, <2>12, <2>14
<1> QED BY <1>2, <1>3

LEMMA SizeReads ==
  ASSUME NEW offset, Reading(offset)
  PROVE  /\ WithSize \in Decoders /\ Within(WithSize, offset[Current])
         /\ pos <= WithSize.pos
         /\ Len(WithSize.clear) + WithSize.held <= Target(sent[Current])
         /\ IF Len(WithSize.clear) < SizeLength
              THEN /\ WithSize.pos = arrived
                   /\ Len(WithSize.clear) + WithSize.held < Target(sent[Current])
              ELSE PacketSize = sent[Current]
         /\ \/ Stuck /\ WithSize = Taken
            \/ ~Stuck /\ chunkEnd <= WithSize.pos
<1> DEFINE n == Current
           o == offset[n]
           size == sent[n]
           t == Target(size)
           b == Len(AfterStart.clear)
<1>1. StateTypeOK /\ Layout(offset)
  BY DEF Reading
<1>2. /\ n \in 1..Len(sent)
      /\ AfterStart \in Decoders /\ Within(AfterStart, o) /\ pos <= AfterStart.pos
      /\ started => AfterStart = Taken
      /\ Stuck \/ (Len(AfterStart.clear) + AfterStart.held < t /\ chunkEnd <= AfterStart.pos)
  BY StartReads
<1>3. /\ size \in Nat /\ o \in Nat
  BY <1>1, <1>2, WithinKnows
<1>4. /\ t \in Nat /\ t \in Blocks /\ SizeLength + size <= t /\ RoundUp(SizeLength) <= t
      /\ SizeLength \in Nat /\ SizeLength = 2
  BY <1>3, Sizes DEF SizeLength
<1>5. /\ b \in Nat /\ b \in Blocks /\ AfterStart.held \in 0..(BlockSize - 1)
      /\ AfterStart.pos \in Nat
  BY <1>2 DEF Within, Decoders
<1>6. pos \in Nat /\ chunkEnd \in Nat
  BY <1>1, TakenTyped
<1>7. ASSUME WithSize \in Decoders, Within(WithSize, o), Len(WithSize.clear) >= SizeLength
      PROVE  PacketSize = size
  <2>1. WithSize.clear[1].packet = n
    <3>1. Len(WithSize.clear) > 0
      BY <1>4, <1>7 DEF Decoders
    <3> QED BY <1>1, <1>2, <1>7, <3>1, WithinKnows
  <2> QED BY <2>1 DEF PacketSize
<1>8. CASE Stuck
  <2>1. started /\ AfterStart = Taken /\ Len(clear) = t /\ held = 0
    BY <1>2, <1>8 DEF Stuck
  <2>2. ~(Len(clear) < SizeLength)
    BY <1>3, <1>4, <2>1
  <2>3. WithSize = Taken
    BY <2>1, <2>2 DEF WithSize
  <2>4. Len(Taken.clear) = t /\ Taken.held = 0 /\ Taken.pos = pos
    BY <1>1, <2>1, TakenTyped
  <2> HIDE DEF t, o, size, n
  <2>5. Len(WithSize.clear) + WithSize.held <= t /\ pos <= WithSize.pos
    BY <1>4, <1>6, <2>3, <2>4
  <2>6. ~(Len(WithSize.clear) < SizeLength)
    BY <1>1, <2>2, <2>3, TakenTyped
  <2>7. Len(WithSize.clear) >= SizeLength
    BY <1>3, <1>4, <2>3, <2>4
  <2>8. WithSize \in Decoders /\ Within(WithSize, o)
    BY <1>2, <2>1, <2>3
  <2> QED BY <1>7, <1>8, <2>3, <2>5, <2>6, <2>7, <2>8 DEF t, o, size, n
<1>9. CASE ~Stuck /\ ~(Len(clear) < SizeLength)
  <2>1. started
    <3>1. Reader(offset)
      BY DEF Reading
    <3> QED BY <1>4, <1>9, <3>1 DEF Reader
  <2>2. WithSize = AfterStart /\ AfterStart = Taken
    BY <1>2, <1>9, <2>1 DEF WithSize
  <2>3. ~(Len(WithSize.clear) < SizeLength)
    BY <1>1, <1>9, <2>2, TakenTyped
  <2>4. Len(WithSize.clear) >= SizeLength
    BY <1>4, <1>5, <2>2, <2>3
  <2>5. Len(WithSize.clear) + WithSize.held <= t
    <3> HIDE DEF t
    <3> QED BY <1>2, <1>4, <1>5, <1>9, <2>2
  <2> QED BY <1>2, <1>7, <1>9, <2>2, <2>3, <2>4, <2>5
<1>10. CASE ~Stuck /\ Len(clear) < SizeLength
  <2> DEFINE u == SizeLength - Len(clear)
  <2>1. WithSize = Continue(AfterStart, u)
    BY <1>10 DEF WithSize
  <2>2. AfterStart.clear = clear
    <3>1. CASE started
      BY <1>1, <1>2, <3>1, TakenTyped
    <3>2. CASE ~started
      <4>1. AfterStart = [Taken EXCEPT !.pos = @ + IVLength, !.held = 0]
        BY <3>2 DEF AfterStart, DecoderStart
      <4> QED BY <4>1 DEF Taken
    <3> QED BY <3>1, <3>2
  <2>3. u \in Nat \ {0} /\ b + RoundUp(u) = RoundUp(SizeLength)
    BY <1>4, <1>5, <1>10, <2>2, RoundUpRest
  <2> HIDE DEF u
  <2>4. /\ WithSize \in Decoders /\ Within(WithSize, o) /\ AfterStart.pos <= WithSize.pos
        /\ Len(WithSize.clear) + WithSize.held <= b + RoundUp(u)
        /\ \/ WithSize.pos = arrived
           \/ Len(WithSize.clear) = b + RoundUp(u) /\ WithSize.held = 0
    <3> HIDE DEF o, t
    <3> QED BY <1>1, <1>2, <1>3, <1>10, <2>1, <2>3, ContinueTakes
  <2>5. /\ Len(WithSize.clear) \in Nat /\ Len(WithSize.clear) \in Blocks
        /\ WithSize.held \in 0..(BlockSize - 1) /\ WithSize.pos \in Nat
        /\ WithSize.held \in Nat
    BY <2>4 DEF Within, Decoders
  <2>6. RoundUp(SizeLength) \in Nat /\ SizeLength <= RoundUp(SizeLength)
    BY <1>4, RoundUpIsLeast
  <2> HIDE DEF t, o, size, n, b
  <2>7. Len(WithSize.clear) + WithSize.held <= t
    BY <1>4, <2>3, <2>4, <2>5, <2>6
  <2>8. pos <= WithSize.pos /\ chunkEnd <= WithSize.pos
    BY <1>2, <1>5, <1>6, <1>10, <2>4, <2>5
  <2>9. ASSUME Len(WithSize.clear) < SizeLength
        PROVE  WithSize.pos = arrived /\ Len(WithSize.clear) + WithSize.held < t
    <3>1. WithSize.pos = arrived
      BY <1>4, <2>3, <2>4, <2>5, <2>6, <2>9
    <3>2. Len(WithSize.clear) < t
      BY <1>3, <1>4, <2>5, <2>9
    <3> QED BY <1>4, <2>5, <3>1, <3>2, Incomplete
  <2>10. ~(Len(WithSize.clear) < SizeLength) => Len(WithSize.clear) >= SizeLength
    BY <1>4, <2>5
  <2> QED BY <1>7, <1>10, <2>4, <2>7, <2>8, <2>9, <2>10 DEF t, o, size, n
<1> QED BY <1>8, <1>9, <1>10

LEMMA DataReads ==
  ASSUME NEW offset, Reading(offset), Len(WithSize.clear) >= SizeLength
  PROVE  /\ PacketSize = sent[Current]
         /\ WithData \in Decoders /\ Within(WithData, offset[Current])
         /\ pos <= WithData.pos /\ WithSize.pos <= WithData.pos
         /\ IF Have(WithData) < PacketSize
              THEN /\ WithData.pos = arrived
                   /\ Len(WithData.clear) + WithData.held < Target(sent[Current])
              ELSE Len(WithData.clear) = Target(sent[Current]) /\ WithData.held = 0
<1> DEFINE n == Current
           o == offset[n]
           size == sent[n]
           t == Target(size)
           b == Len(WithSize.clear)
           have == Len(WithData.clear)
<1>1. StateTypeOK /\ Layout(offset)
  BY DEF Reading
<1>2. /\ n \in 1..Len(sent)
      /\ Stuck \/ Len(AfterStart.clear) + AfterStart.held < t
  BY StartReads
<1>3. size \in Nat /\ o \in Nat
  <2>1. AfterStart \in Decoders /\ Within(AfterStart, o)
    BY StartReads
  <2> QED BY <1>1, <1>2, <2>1, WithinKnows
<1>4. /\ t \in Nat /\ t \in Blocks /\ SizeLength + size <= t /\ t = RoundUp(SizeLength + size)
      /\ SizeLength \in Nat /\ SizeLength = 2 /\ SizeLength + size \in Nat
  <2>1. t \in Nat /\ t \in Blocks /\ SizeLength + size <= t
    BY <1>3, Sizes
  <2>2. t = RoundUp(SizeLength + size)
    BY DEF Target
  <2>3. SizeLength \in Nat /\ SizeLength = 2 /\ SizeLength + size \in Nat
    BY <1>3 DEF SizeLength
  <2> QED BY <2>1, <2>2, <2>3
<1>5. /\ WithSize \in Decoders /\ Within(WithSize, o)
      /\ pos <= WithSize.pos /\ b + WithSize.held <= t
      /\ \/ Stuck /\ WithSize = Taken
         \/ ~Stuck /\ chunkEnd <= WithSize.pos
  BY SizeReads
<1>6. /\ b \in Nat /\ b \in Blocks /\ WithSize.held \in 0..(BlockSize - 1)
      /\ WithSize.held \in Nat /\ WithSize.pos \in Nat /\ pos \in Nat
  BY <1>1, <1>5, TakenTyped DEF Within, Decoders
<1>7. PacketSize = size
  <2>1. ~(b < SizeLength)
    BY <1>4, <1>6
  <2> QED BY <2>1, SizeReads
<1> HIDE DEF o, t, b, have, n
<1>8. Have(WithSize) = b - SizeLength /\ Have(WithData) = have - SizeLength
  BY DEF Have, b, have
<1>9. ASSUME NEW d \in Decoders, Within(d, o), Len(d.clear) + d.held <= t,
             ~(Len(d.clear) - SizeLength < size)
      PROVE  Len(d.clear) = t /\ d.held = 0
  <2>1. /\ Len(d.clear) \in Nat /\ Len(d.clear) \in Blocks /\ d.held \in Nat
    BY <1>9 DEF Within, Decoders
  <2>2. SizeLength + size <= Len(d.clear)
    BY <1>3, <1>4, <1>9, <2>1
  <2>3. t <= Len(d.clear)
    BY <1>4, <2>1, <2>2, RoundUpIsLeast
  <2> QED BY <1>4, <1>9, <2>1, <2>3
<1>10. CASE ~(Have(WithSize) < PacketSize)
  <2>1. WithData = WithSize
    BY <1>10 DEF WithData
  <2>2. have = b /\ ~(b - SizeLength < size)
    BY <1>7, <1>8, <1>10, <2>1 DEF b, have
  <2>3. Len(WithSize.clear) = t /\ WithSize.held = 0
    BY <1>5, <1>9, <2>2 DEF b
  <2> QED BY <1>5, <1>6, <1>7, <1>10, <2>1, <2>3 DEF n, o, t
<1>11. CASE Have(WithSize) < PacketSize
  <2> DEFINE u == PacketSize - Have(WithSize)
             x == SizeLength + size
  <2>1. WithData = Continue(WithSize, u)
    BY <1>11 DEF WithData
  <2>2. b < x
    BY <1>3, <1>4, <1>6, <1>7, <1>8, <1>11
  <2>3. u = x - b
    BY <1>3, <1>4, <1>6, <1>7, <1>8
  <2>4. u \in Nat \ {0} /\ b + RoundUp(u) = t
    <3>1. x \in Nat
      BY <1>4
    <3> HIDE DEF x
    <3>2. x - b \in Nat \ {0} /\ b + RoundUp(x - b) = RoundUp(x)
      BY <1>6, <2>2, <3>1, RoundUpRest
    <3> QED BY <1>4, <2>3, <3>2 DEF x
  <2> HIDE DEF u, x
  <2>5. ~Stuck
    <3>1. ASSUME Stuck PROVE FALSE
      <4>1. WithSize = Taken /\ Len(clear) = t
        BY <1>5, <3>1 DEF Stuck, t, n
      <4>2. b = t
        BY <1>1, <4>1, TakenTyped DEF b
      <4> QED BY <1>3, <1>4, <2>2, <4>2 DEF x
    <3> QED BY <3>1
  <2>6. /\ WithData \in Decoders /\ Within(WithData, o) /\ WithSize.pos <= WithData.pos
        /\ have + WithData.held <= b + RoundUp(u)
        /\ \/ WithData.pos = arrived
           \/ have = b + RoundUp(u) /\ WithData.held = 0
    BY <1>1, <1>3, <1>5, <2>1, <2>4, <2>5, ContinueTakes DEF b, have
  <2>7. /\ have \in Nat /\ have \in Blocks /\ WithData.held \in 0..(BlockSize - 1)
        /\ WithData.pos \in Nat
    BY <2>6 DEF Within, Decoders, have
  <2>8. pos <= WithData.pos
    BY <1>5, <1>6, <2>6, <2>7
  <2>9. ASSUME Have(WithData) < PacketSize
        PROVE  WithData.pos = arrived /\ have + WithData.held < t
    <3>1. have < t
      BY <1>3, <1>4, <1>7, <1>8, <2>7, <2>9
    <3>2. WithData.pos = arrived
      BY <1>4, <2>4, <2>6, <2>7, <3>1
    <3> QED BY <1>4, <2>7, <3>1, <3>2, Incomplete
  <2>10. ASSUME ~(Have(WithData) < PacketSize)
         PROVE  have = t /\ WithData.held = 0
    <3>1. ~(Len(WithData.clear) - SizeLength < size)
      BY <1>7, <1>8, <2>10 DEF have
    <3> QED BY <1>9, <2>4, <2>6, <3>1 DEF have
  <2> QED BY <1>7, <2>6, <2>8, <2>9, <2>10 DEF n, o, t, have
<1> QED BY <1>10, <1>11

-----------------------------------------------------------------------------
(* The steps.                                                              *)

LEMMA LayoutStays ==
  ASSUME NEW offset, Layout(offset), UNCHANGED <<wire, sent>>
  PROVE  Layout(offset)'
BY DEF Layout

\* What is left to the receiver when HandlePacket is not called.
LEMMA ReaderTakes ==
  ASSUME NEW offset, NEW d \in Decoders, Current <= Len(sent),
         Within(d, offset[Current]),
         pos' = d.pos, held' = d.held, clear' = d.clear, started' = TRUE,
         UNCHANGED <<wire, sent, arrived, delivered>>,
         \/ Stuck'
         \/ Len(d.clear) + d.held < Target(sent[Current]),
         Current <= Len(sent) + 1
  PROVE  Reader(offset)'
<1>1. Current' = Current /\ sent' = sent /\ wire' = wire /\ arrived' = arrived
  BY DEF Current
<1>2. Taken'.pos = d.pos /\ Taken'.held = d.held /\ Taken'.clear = d.clear
  BY DEF Taken
<1>3. Within(Taken, offset[Current])'
  BY <1>1, <1>2 DEF Within
<1> QED BY <1>1, <1>3 DEF Reader

LEMMA StartIInv == TcpInit => IInv
<1> SUFFICES ASSUME TcpInit PROVE IInv
  OBVIOUS
<1> DEFINE offset == [i \in 1..1 |-> 0]
<1>1. /\ sent = <<>> /\ wire = <<>> /\ arrived = 0 /\ chunkEnd = 0 /\ pos = 0 /\ held = 0
      /\ reading = FALSE /\ started = FALSE /\ clear = <<>> /\ delivered = <<>>
      /\ fault = "none"
  BY DEF TcpInit
<1>2. StateTypeOK
  <2>1. arrived \in 0..Len(wire) /\ chunkEnd \in 0..arrived
    BY <1>1
  <2>2. /\ sent \in Seq(Nat) /\ wire \in Seq(StreamBytes) /\ clear \in Seq(StreamBytes)
        /\ delivered \in Seq(Seq(StreamBytes))
    BY <1>1
  <2> QED BY <1>1, <2>1, <2>2 DEF StateTypeOK
<1>3. Len(sent) = 0 /\ Len(wire) = 0 /\ Len(delivered) = 0 /\ Current = 1
  BY <1>1 DEF Current
<1>4. Layout(offset)
  BY <1>3 DEF Layout
<1>5. Reader(offset)
  BY <1>1, <1>3 DEF Reader
<1>6. Intact /\ ChunkEnds /\ Quiet
  BY <1>1, <1>3 DEF Intact, ChunkEnds, Quiet
<1> QED BY <1>1, <1>2, <1>4, <1>5, <1>6 DEF IInv

LEMMA SendMessageIInv ==
  ASSUME IInv, NEW size \in PacketSizes, SendMessage(size)
  PROVE  IInv'
<1> DEFINE packets == Len(sent)
           end == Len(wire)
           enc == Encoded(packets + 1, size)
<1>1. /\ StateTypeOK /\ Intact /\ ChunkEnds /\ Quiet /\ fault = "none" /\ ~reading
  BY DEF IInv, SendMessage
<1>2. PICK offset : Layout(offset) /\ Reader(offset)
  BY DEF IInv
<1>3. /\ sent' = Append(sent, size) /\ wire' = wire \o enc
      /\ UNCHANGED <<arrived, chunkEnd, reading, started, pos, held, clear,
                     delivered, fault>>
  BY DEF SendMessage
<1>4. /\ size \in Nat /\ packets \in Nat /\ end \in Nat /\ sent \in Seq(Nat)
      /\ wire \in Seq(StreamBytes)
  BY <1>1, TcpAssumption DEF StateTypeOK
<1>5. /\ enc \in Seq(StreamBytes) /\ Len(enc) = Length(size) /\ Length(size) \in Nat
  <2>1. packets + 1 \in Nat
    BY <1>4
  <2> QED BY <1>4, <2>1, EncodedIs, Sizes
<1>6. /\ sent' \in Seq(Nat) /\ Len(sent') = packets + 1 /\ sent'[packets + 1] = size
      /\ \A n \in 1..packets : sent'[n] = sent[n]
  BY <1>3, <1>4
<1>7. /\ wire' \in Seq(StreamBytes) /\ Len(wire') = end + Length(size)
      /\ \A i \in 1..end : wire'[i] = wire[i]
      /\ \A i \in 1..Length(size) : wire'[end + i] = enc[i]
  <2> HIDE DEF enc
  <2>1. /\ wire \o enc \in Seq(StreamBytes) /\ Len(wire \o enc) = Len(wire) + Len(enc)
        /\ \A i \in 1..Len(wire) : (wire \o enc)[i] = wire[i]
        /\ \A i \in 1..Len(enc) : (wire \o enc)[Len(wire) + i] = enc[i]
    <3>1. wire \in Seq(StreamBytes) /\ enc \in Seq(StreamBytes)
      BY <1>4, <1>5
    <3> QED BY <3>1, ConcatKeeps
  <2> QED BY <1>3, <1>5, <2>1 DEF end
<1>8. Current' = Current /\ Current \in Nat /\ Len(delivered) \in Nat
      /\ Current = Len(delivered) + 1
  BY <1>1, <1>3, TakenTyped DEF Current
<1>9. /\ offset \in [1..(packets + 1) -> Nat] /\ offset[1] = 0 /\ offset[packets + 1] = end
      /\ \A n \in 1..packets :
           /\ offset[n + 1] = offset[n] + Length(sent[n])
           /\ offset[n + 1] <= end
           /\ \A i \in 1..Length(sent[n]) :
                wire[offset[n] + i] = Encoded(n, sent[n])[i]
  BY <1>2 DEF Layout
<1>10. Current <= packets + 1 /\ (started => Current <= packets)
  BY <1>2 DEF Reader
<1> HIDE DEF packets, end, enc
<1>11. StateTypeOK'
  <2>1. arrived \in 0..end /\ end + Length(size) \in Nat /\ arrived \in 0..(end + Length(size))
    BY <1>1, <1>4, <1>5 DEF StateTypeOK, end
  <2> QED BY <1>1, <1>3, <1>6, <1>7, <2>1 DEF StateTypeOK
<1>12. PICK next : /\ next \in [1..(packets + 2) -> Nat]
                   /\ next[packets + 2] = end + Length(size)
                   /\ \A i \in 1..(packets + 1) : next[i] = offset[i]
  <2> DEFINE f == [i \in 1..(packets + 2) |->
                     IF i <= packets + 1 THEN offset[i] ELSE end + Length(size)]
  <2>1. /\ f \in [1..(packets + 2) -> Nat]
        /\ f[packets + 2] = end + Length(size)
        /\ \A i \in 1..(packets + 1) : f[i] = offset[i]
    BY <1>4, <1>5, <1>9
  <2> QED BY <2>1
<1>13. Layout(next)'
  <2>1. Len(sent') + 1 = packets + 2 /\ next[1] = 0
    BY <1>4, <1>6, <1>9, <1>12
  <2>2. ASSUME NEW n \in 1..packets
        PROVE  /\ next[n + 1] = next[n] + Length(sent'[n])
               /\ next[n + 1] <= Len(wire')
               /\ \A i \in 1..Length(sent'[n]) : wire'[next[n] + i] = Encoded(n, sent'[n])[i]
    <3>1. next[n] = offset[n] /\ next[n + 1] = offset[n + 1] /\ sent'[n] = sent[n]
      BY <1>4, <1>6, <1>12
    <3>2. /\ offset[n + 1] = offset[n] + Length(sent[n])
          /\ offset[n + 1] <= end
          /\ \A i \in 1..Length(sent[n]) : wire[offset[n] + i] = Encoded(n, sent[n])[i]
      BY <1>9
    <3>3. offset[n] \in Nat /\ offset[n + 1] \in Nat /\ Length(sent[n]) \in Nat
      <4>1. n \in 1..(packets + 1) /\ n + 1 \in 1..(packets + 1)
        BY <1>4
      <4>2. sent[n] \in Nat
        BY <1>4 DEF packets
      <4> QED BY <1>9, <4>1, <4>2, Sizes
    <3>4. next[n + 1] <= Len(wire')
      BY <1>4, <1>5, <1>7, <3>1, <3>2, <3>3
    <3>5. ASSUME NEW i \in 1..Length(sent[n])
          PROVE  wire'[next[n] + i] = Encoded(n, sent'[n])[i]
      <4>1. offset[n] + i \in 1..end
        <5>1. end \in Nat
          BY <1>4
        <5> QED BY <3>2, <3>3, <5>1
      <4>2. wire'[offset[n] + i] = wire[offset[n] + i]
        BY <1>7, <4>1
      <4> QED BY <3>1, <3>2, <4>2
    <3> QED BY <3>1, <3>2, <3>4, <3>5
  <2>3. /\ next[packets + 1 + 1] = next[packets + 1] + Length(sent'[packets + 1])
        /\ next[packets + 1 + 1] <= Len(wire')
        /\ \A i \in 1..Length(sent'[packets + 1]) :
             wire'[next[packets + 1] + i] = Encoded(packets + 1, sent'[packets + 1])[i]
    <3>1. packets + 1 + 1 = packets + 2 /\ packets + 1 \in 1..(packets + 1)
      BY <1>4
    <3>2. next[packets + 1] = end
      BY <1>9, <1>12, <3>1
    <3>3. end + Length(size) <= Len(wire')
      BY <1>4, <1>5, <1>7
    <3> QED BY <1>6, <1>7, <1>12, <3>1, <3>2, <3>3 DEF enc
  <2>4. \A n \in 1..Len(sent') : n \in 1..packets \/ n = packets + 1
    BY <1>4, <1>6
  <2>5. /\ next \in [1..(Len(sent') + 1) -> Nat]
        /\ next[1] = 0 /\ next[Len(sent') + 1] = Len(wire')
    BY <1>7, <1>12, <2>1
  <2>6. ASSUME NEW n \in 1..Len(sent')
        PROVE  /\ next[n + 1] = next[n] + Length(sent'[n])
               /\ next[n + 1] <= Len(wire')
               /\ \A i \in 1..Length(sent'[n]) : wire'[next[n] + i] = Encoded(n, sent'[n])[i]
    BY <2>2, <2>3, <2>4
  <2> QED BY <2>5, <2>6 DEF Layout
<1>14. next[Current] = offset[Current] /\ Current <= Len(sent') + 1
  BY <1>4, <1>6, <1>8, <1>10, <1>12
<1>15. ASSUME started PROVE sent'[Current] = sent[Current] /\ Current <= Len(sent')
  BY <1>4, <1>6, <1>8, <1>10, <1>15
<1>16. Stuck => Stuck'
  BY <1>3, <1>8, <1>15 DEF Stuck, FullPadding
<1>17. Reader(next)'
  <2>1. CASE started
    <3>1. Within(Taken, offset[Current]) /\ (Stuck \/ Len(clear) + held < Target(sent[Current]))
      BY <1>2, <2>1 DEF Reader
    <3>2. Taken' = Taken /\ arrived' = arrived
      BY <1>3 DEF Taken
    <3>3. offset[Current] \in Nat
      BY <1>4, <1>8, <1>9, <1>10
    <3>4. ASSUME NEW i \in 1..Len(clear)
          PROVE  clear[i] = wire'[offset[Current] + IVLength + i]
      <4>1. /\ clear[i] = wire[offset[Current] + IVLength + i]
            /\ pos = offset[Current] + IVLength + Len(clear) + held
            /\ pos <= arrived
        BY <3>1, <1>1, TakenTyped DEF Within
      <4>2. offset[Current] + IVLength + i \in 1..end
        <5>1. arrived \in Nat /\ arrived <= end /\ Len(clear) \in Nat /\ held \in Nat
              /\ IVLength \in Nat
          BY <1>1, TakenTyped, TcpAssumption DEF end
        <5>2. end \in Nat
          BY <1>4
        <5>3. PICK x \in Nat, l \in Nat : x = offset[Current] /\ l = Len(clear)
          BY <3>3, <5>1
        <5>4. x + IVLength + l + held <= end /\ i \in 1..l
          BY <4>1, <5>1, <5>2, <5>3
        <5>5. x + IVLength + i \in 1..end
          BY <5>1, <5>2, <5>4
        <5> QED BY <5>3, <5>5
      <4> QED BY <1>7, <4>1, <4>2
    <3>5. Within(Taken, offset[Current])'
      <4>1. Taken.clear = clear /\ (offset[Current])' = offset[Current]
        BY <1>1, <1>8, TakenTyped
      <4> QED BY <3>1, <3>2, <3>4, <4>1 DEF Within
    <3>6. (Within(Taken, next[Current]))'
      BY <1>8, <1>14, <3>5
    <3>7. Stuck' \/ Len(clear) + held < Target(sent'[Current])
      BY <1>15, <1>16, <2>1, <3>1
    <3> QED BY <1>3, <1>8, <1>14, <1>15, <2>1, <3>6, <3>7 DEF Reader
  <2>2. CASE ~started
    BY <1>2, <1>3, <1>8, <1>14, <2>2 DEF Reader
  <2> QED BY <2>1, <2>2
<1>18. Intact'
  <2>1. ASSUME NEW n \in 1..Len(delivered) PROVE sent'[n] = sent[n]
    BY <1>4, <1>6, <1>8, <1>10
  <2> QED BY <1>1, <1>3, <2>1 DEF Intact
<1>19. ChunkEnds' /\ Quiet'
  BY <1>1, <1>3, <1>16 DEF ChunkEnds, Quiet
<1> QED BY <1>1, <1>3, <1>11, <1>13, <1>17, <1>18, <1>19 DEF IInv

LEMMA ReadIInv ==
  ASSUME IInv, NEW n \in 1..(Len(wire) - arrived), NEW new \in BOOLEAN, Read(n, new)
  PROVE  IInv'
<1>1. /\ StateTypeOK /\ Intact /\ ChunkEnds /\ Quiet /\ fault = "none" /\ ~reading
  BY DEF IInv, Read
<1>2. PICK offset : Layout(offset) /\ Reader(offset)
  BY DEF IInv
<1>3. /\ chunkEnd' = IF new THEN arrived ELSE chunkEnd
      /\ arrived' = arrived + n /\ reading' = TRUE /\ arrived + n <= Len(wire)
      /\ UNCHANGED <<wire, sent, started, pos, held, clear, delivered, fault>>
  BY DEF Read
<1>4. /\ arrived \in Nat /\ Len(wire) \in Nat /\ pos \in Nat /\ chunkEnd \in 0..arrived
      /\ n \in Nat
  BY <1>1, TakenTyped DEF StateTypeOK
<1>5. arrived' \in 0..Len(wire) /\ chunkEnd' \in 0..arrived' /\ arrived <= arrived'
  BY <1>3, <1>4
<1>6. StateTypeOK'
  BY <1>1, <1>3, <1>5 DEF StateTypeOK
<1>7. Layout(offset)'
  BY <1>2, <1>3, LayoutStays
<1>8. Current' = Current /\ Stuck' = Stuck /\ Taken' = Taken
  BY <1>3 DEF Current, Stuck, FullPadding, Taken
<1>9. Reader(offset)'
  <2>1. ASSUME NEW d \in Decoders, NEW o, Within(d, o)
        PROVE  /\ d.pos = o + IVLength + Len(d.clear) + d.held /\ d.pos <= arrived'
               /\ Len(d.clear) \in Blocks /\ d.held \in 0..(BlockSize - 1)
               /\ \A i \in 1..Len(d.clear) : d.clear[i] = wire'[o + IVLength + i]
    <3>1. d.pos \in Nat /\ d.pos <= arrived /\ arrived' \in Nat /\ wire' = wire
      BY <1>3, <1>4, <1>5, <2>1 DEF Within, Decoders
    <3>2. d.pos <= arrived'
      BY <1>4, <1>5, <3>1
    <3> QED BY <2>1, <3>1, <3>2 DEF Within
  <2>2. Within(Taken, offset[Current]) => Within(Taken, offset[Current])'
    <3>1. Taken \in Decoders
      BY <1>1, TakenTyped
    <3>2. ASSUME Within(Taken, offset[Current]) PROVE Within(Taken, offset[Current])'
      <4>1. (offset[Current])' = offset[Current]
        BY <1>8
      <4>2. /\ Taken.pos = offset[Current] + IVLength + Len(Taken.clear) + Taken.held
            /\ Taken.pos <= arrived'
            /\ Len(Taken.clear) \in Blocks /\ Taken.held \in 0..(BlockSize - 1)
            /\ \A i \in 1..Len(Taken.clear) : Taken.clear[i] = wire'[offset[Current] + IVLength + i]
        BY <2>1, <3>1, <3>2
      <4> QED BY <1>8, <4>1, <4>2 DEF Within
    <3> QED BY <3>2
  <2>3. pos <= arrived => pos <= arrived'
    BY <1>4, <1>5
  <2> QED BY <1>2, <1>3, <1>8, <2>2, <2>3 DEF Reader
<1>10. Intact'
  BY <1>1, <1>3 DEF Intact
<1>11. ChunkEnds'
  <2>1. CASE new
    BY <1>1, <1>3, <1>4, <1>8, <2>1 DEF Quiet, ChunkEnds
  <2>2. CASE ~new
    BY <1>1, <1>3, <1>8, <2>2 DEF ChunkEnds
  <2> QED BY <2>1, <2>2
<1> QED BY <1>1, <1>3, <1>6, <1>7, <1>9, <1>10, <1>11 DEF IInv

LEMMA LoopEndsIInv ==
  ASSUME IInv, LoopEnds
  PROVE  IInv'
<1>1. /\ StateTypeOK /\ Intact /\ ChunkEnds /\ pos = arrived /\ reading' = FALSE
      /\ fault = "none"
      /\ UNCHANGED <<wire, sent, arrived, chunkEnd, started, pos, held, clear,
                     delivered, fault>>
  BY DEF IInv, LoopEnds
<1>2. PICK offset : Layout(offset) /\ Reader(offset)
  BY DEF IInv
<1>3. Layout(offset)'
  BY <1>1, <1>2, LayoutStays
<1>4. Current' = Current /\ Stuck' = Stuck /\ Taken' = Taken
  BY <1>1 DEF Current, Stuck, FullPadding, Taken
<1>5. Reader(offset)'
  BY <1>1, <1>2, <1>4 DEF Reader, Within
<1>6. StateTypeOK' /\ Intact' /\ ChunkEnds' /\ Quiet'
  BY <1>1, <1>4 DEF StateTypeOK, Intact, ChunkEnds, Quiet
<1> QED BY <1>1, <1>3, <1>5, <1>6 DEF IInv

LEMMA NeedsMoreIInv ==
  ASSUME IInv, NeedsMore
  PROVE  IInv'
<1>1. /\ StateTypeOK /\ Intact /\ ChunkEnds /\ pos < arrived /\ reading /\ fault = "none"
      /\ ~(DataComplete /\ PaddingComplete)
      /\ pos' = Keeps.d.pos /\ held' = Keeps.d.held /\ clear' = Keeps.d.clear
      /\ started' = Keeps.started /\ reading' = FALSE
      /\ UNCHANGED <<wire, sent, arrived, chunkEnd, delivered, fault>>
  BY DEF IInv, NeedsMore
<1>2. PICK offset : Layout(offset) /\ Reader(offset)
  BY DEF IInv
<1>3. Layout(offset)'
  BY <1>1, <1>2, LayoutStays
<1>4. Current' = Current /\ Intact'
  BY <1>1 DEF Current, Intact
<1>5. SUFFICES /\ Reader(offset)' /\ ChunkEnds' /\ Quiet'
               /\ pos' \in Nat /\ held' \in Nat /\ clear' \in Seq(StreamBytes)
               /\ started' \in BOOLEAN
  <2>1. ASSUME pos' \in Nat, held' \in Nat, clear' \in Seq(StreamBytes), started' \in BOOLEAN
        PROVE  StateTypeOK'
    BY <1>1, <2>1 DEF StateTypeOK
  <2> QED BY <1>1, <1>3, <1>4, <2>1 DEF IInv
<1>6. pos \in Nat /\ arrived \in Nat /\ chunkEnd \in Nat /\ chunkEnd <= arrived
  BY <1>1, TakenTyped DEF StateTypeOK
<1>7. CASE ~CanStart
  <2>1. ~started /\ arrived - pos < IVLength
    BY <1>1, <1>6, <1>7, TakenTyped, TcpAssumption DEF CanStart
  <2>2. Keeps = [d |-> Taken, started |-> FALSE]
    BY <1>7 DEF Keeps, KeepsEarly
  <2>3. started' = FALSE /\ pos' = pos /\ held' = held /\ clear' = clear
    BY <1>1, <2>2, TakenTyped
  <2>4. Reader(offset)'
    BY <1>1, <1>2, <1>4, <2>1, <2>3 DEF Reader
  <2>5. Quiet' /\ ChunkEnds'
    <3>1. chunkEnd <= pos \/ chunkEnd - pos < IVLength
      BY <1>1, <2>1 DEF ChunkEnds, Stuck
    <3> QED BY <1>1, <2>1, <2>3, <3>1 DEF Quiet, ChunkEnds
  <2> QED BY <1>1, <2>3, <2>4, <2>5 DEF StateTypeOK
<1>8. CASE CanStart
  <2>1. Reading(offset)
    BY <1>1, <1>2, <1>8 DEF Reading
  <2>2. Current \in 1..Len(sent) /\ Current <= Len(sent) + 1 /\ Current <= Len(sent)
        /\ sent[Current] \in Nat
    <3>1. Current \in 1..Len(sent) /\ Len(sent) \in Nat
      BY <1>1, <2>1, StartReads, TakenTyped
    <3> QED BY <1>1, <3>1 DEF StateTypeOK
  <2>3. CASE Len(WithSize.clear) < SizeLength
    <3>1. /\ WithSize \in Decoders /\ Within(WithSize, offset[Current])
          /\ WithSize.pos = arrived
          /\ Len(WithSize.clear) + WithSize.held < Target(sent[Current])
      BY <2>1, <2>3, SizeReads
    <3>2. Keeps = [d |-> WithSize, started |-> TRUE]
      BY <1>8, <2>3 DEF Keeps
    <3>3. /\ started' = TRUE /\ pos' = WithSize.pos /\ held' = WithSize.held
          /\ clear' = WithSize.clear
      BY <1>1, <3>2
    <3>4. Reader(offset)'
      BY <1>1, <2>2, <3>1, <3>3, ReaderTakes
    <3>5. Quiet' /\ ChunkEnds'
      BY <1>1, <1>6, <3>1, <3>3 DEF Quiet, ChunkEnds
    <3> QED BY <3>1, <3>3, <3>4, <3>5 DEF Decoders
  <2>4. CASE ~(Len(WithSize.clear) < SizeLength)
    <3> DEFINE size == sent[Current]
               t == Target(size)
               have == Len(WithData.clear)
    <3>1. Len(WithSize.clear) >= SizeLength
      BY <2>1, <2>4, SizeReads DEF Decoders, SizeLength
    <3>2. /\ PacketSize = size
          /\ WithData \in Decoders /\ Within(WithData, offset[Current])
          /\ IF Have(WithData) < PacketSize
               THEN WithData.pos = arrived /\ have + WithData.held < t
               ELSE have = t /\ WithData.held = 0
      BY <2>1, <3>1, DataReads
    <3>3. Keeps = [d |-> WithData, started |-> TRUE]
      BY <1>8, <2>4 DEF Keeps
    <3>4. /\ started' = TRUE /\ pos' = WithData.pos /\ held' = WithData.held
          /\ clear' = WithData.clear
      BY <1>1, <3>3
    <3>5. CASE Have(WithData) < PacketSize
      <4>1. Reader(offset)'
        BY <1>1, <2>2, <3>2, <3>4, <3>5, ReaderTakes
      <4>2. Quiet' /\ ChunkEnds'
        BY <1>1, <1>6, <3>2, <3>4, <3>5 DEF Quiet, ChunkEnds
      <4> QED BY <3>2, <3>4, <4>1, <4>2 DEF Decoders
    <3>6. CASE ~(Have(WithData) < PacketSize)
      <4>1. have = t /\ WithData.held = 0
        BY <3>2, <3>6
      <4>2. DataComplete
        <5>1. Have(WithData) >= size
          <6>1. Have(WithData) \in Int
            BY <3>2 DEF Have, Decoders, SizeLength
          <6> QED BY <2>2, <3>2, <3>6, <6>1
        <5> QED BY <1>8, <3>1, <3>2, <5>1 DEF DataComplete
      <4>3. ~(Have(WithData) >= Padding(PacketSize))
        BY <1>1, <4>2 DEF PaddingComplete
      <4>4. Padding(size) = BlockSize
        <5>1. /\ t \in Nat /\ Padding(size) \in Nat /\ SizeLength = 2
              /\ t # Total(size) => Padding(size) = BlockSize
          BY <2>2, Sizes DEF SizeLength
        <5>2. Have(WithData) = t - SizeLength
          BY <4>1 DEF Have
        <5>3. t = Total(size) => t = SizeLength + Padding(size) + size
          BY DEF Total
        <5> HIDE DEF t, size
        <5>4. size \in Nat
          BY <2>2 DEF size
        <5> QED BY <3>2, <4>3, <5>1, <5>2, <5>3, <5>4
      <4>5. Stuck'
        BY <1>1, <1>4, <3>4, <4>1, <4>4 DEF Stuck, FullPadding
      <4>6. Reader(offset)'
        BY <1>1, <2>2, <3>2, <3>4, <4>5, ReaderTakes
      <4> QED BY <3>2, <3>4, <4>5, <4>6 DEF Quiet, ChunkEnds, Decoders
    <3> QED BY <3>5, <3>6
  <2> QED BY <2>3, <2>4
<1> QED BY <1>7, <1>8

LEMMA HandlePacketIInv ==
  ASSUME IInv, HandlePacket
  PROVE  IInv'
<1> DEFINE n == Current
           size == sent[n]
           t == Target(size)
<1>1. /\ StateTypeOK /\ Intact /\ ChunkEnds /\ pos < arrived /\ reading /\ fault = "none"
      /\ DataComplete /\ PaddingComplete
      /\ fault' = Aborts(WithData, PacketSize)
      /\ UNCHANGED <<wire, sent, arrived, chunkEnd>>
  BY DEF IInv, HandlePacket
<1>2. PICK offset : Layout(offset) /\ Reader(offset)
  BY DEF IInv
<1>3. Layout(offset)'
  BY <1>1, <1>2, LayoutStays
<1>4. Reading(offset) /\ Len(WithSize.clear) >= SizeLength
  BY <1>1, <1>2 DEF Reading, DataComplete
<1>5. /\ PacketSize = size
      /\ WithData \in Decoders /\ Within(WithData, offset[n])
      /\ WithSize.pos <= WithData.pos
      /\ Have(WithData) < PacketSize \/ (Len(WithData.clear) = t /\ WithData.held = 0)
  BY <1>4, DataReads
<1>6. n \in 1..Len(sent) /\ n \in Nat /\ Len(sent) \in Nat /\ n = Len(delivered) + 1
      /\ Len(delivered) \in Nat
  BY <1>1, <1>4, StartReads, TakenTyped DEF Current
<1>7. size \in Nat /\ offset[n] \in Nat
  BY <1>1, <1>2, <1>5, <1>6, WithinKnows
<1> HIDE DEF n, size, t
<1>8. Len(WithData.clear) = t /\ WithData.held = 0
  <2>1. Have(WithData) >= PacketSize /\ Have(WithData) = Len(WithData.clear) - SizeLength
    BY <1>1 DEF DataComplete, Have
  <2>2. ~(Have(WithData) < PacketSize)
    BY <1>5, <1>7, <2>1 DEF Decoders, SizeLength
  <2> QED BY <1>5, <2>2
<1>9. /\ t \in Nat /\ t <= Total(size) /\ Total(size) \in Nat /\ Padding(size) \in Nat
      /\ Padding(size) # BlockSize => t = Total(size)
      /\ Padding(size) = BlockSize => t < Total(size)
  BY <1>7, Sizes DEF t
<1>10. /\ t < Total(size) => fault' = "limit"
       /\ t = Total(size) => fault' = "none"
  <2>1. fault' = IF t - SizeLength - Padding(size) < size THEN "limit" ELSE "none"
    BY <1>1, <1>5, <1>8 DEF Aborts, Have
  <2>2. Total(size) = 2 + Padding(size) + size /\ SizeLength = 2
    BY DEF Total, SizeLength
  <2> QED BY <1>7, <1>9, <2>1, <2>2
<1>11. CASE t < Total(size)
  <2>1. fault' = "limit" /\ fault' # "none" /\ FullPadding(n)
    BY <1>9, <1>10, <1>11 DEF FullPadding, size
  <2>2. reading' = FALSE /\ UNCHANGED <<delivered, clear, pos, held, started>>
    BY <2>1 DEF HandlePacket
  <2>3. Current' = Current /\ Stuck' = Stuck /\ Taken' = Taken
    BY <1>1, <2>2 DEF Current, Stuck, FullPadding, Taken
  <2>4. Reader(offset)'
    BY <1>1, <1>2, <2>2, <2>3 DEF Reader, Within
  <2>5. StateTypeOK' /\ Intact' /\ ChunkEnds'
    BY <1>1, <2>2, <2>3 DEF StateTypeOK, Intact, ChunkEnds
  <2>6. FullPadding(Current)'
    BY <1>1, <2>1, <2>3 DEF FullPadding, n
  <2> QED BY <1>3, <2>1, <2>2, <2>4, <2>5, <2>6 DEF IInv
<1>12. CASE t = Total(size)
  <2>1. fault' = "none"
    BY <1>10, <1>12
  <2>2. /\ delivered' = Append(delivered, Payload(WithData, size))
        /\ clear' = Rest(WithData, size)
        /\ pos' = WithData.pos /\ held' = 0 /\ started' = FALSE /\ reading' = reading
    BY <1>5, <2>1 DEF HandlePacket
  <2>3. /\ Payload(WithData, size) = Bytes(n, "data", size)
        /\ Rest(WithData, size) = <<>>
    BY <1>1, <1>2, <1>5, <1>6, <1>8, <1>12, WithinKnows DEF size
  <2>4. Bytes(n, "data", size) \in Seq(StreamBytes)
    BY <1>6, <1>7, BytesAre
  <2>5. /\ delivered' \in Seq(Seq(StreamBytes)) /\ Len(delivered') = n
        /\ delivered'[n] = Bytes(n, "data", size)
        /\ \A k \in 1..Len(delivered) : delivered'[k] = delivered[k]
    <3>1. delivered \in Seq(Seq(StreamBytes))
      BY <1>1 DEF StateTypeOK
    <3> QED BY <1>6, <2>2, <2>3, <2>4, <3>1
  <2>6. clear' = <<>> /\ pos' \in Nat /\ pos' <= arrived
    BY <1>5, <2>2, <2>3 DEF Within, Decoders
  <2>7. StateTypeOK'
    <3>1. held' \in Nat /\ started' \in BOOLEAN
      BY <2>2
    <3>2. clear' \in Seq(StreamBytes)
      BY <2>6
    <3> QED BY <1>1, <2>2, <2>5, <2>6, <3>1, <3>2 DEF StateTypeOK
  <2>8. Current' = n + 1 /\ n + 1 <= Len(sent') + 1
    BY <1>1, <1>6, <2>5 DEF Current
  <2>9. pos' = offset[n + 1]
    <3>1. pos' = offset[n] + IVLength + Total(size)
      BY <1>5, <1>7, <1>8, <1>9, <1>12, <2>2, TcpAssumption DEF Within
    <3>2. offset[n + 1] = offset[n] + Length(size)
      BY <1>2, <1>6 DEF Layout, size
    <3>3. Length(size) = IVLength + Total(size)
      BY DEF Length
    <3> QED BY <1>7, <1>9, <3>1, <3>2, <3>3, TcpAssumption
  <2>10. Reader(offset)'
    BY <1>1, <2>2, <2>6, <2>8, <2>9 DEF Reader
  <2>11. Intact'
    <3>1. ASSUME NEW k \in 1..n
          PROVE  delivered'[k] = Bytes(k, "data", sent[k])
      <4>1. CASE k = n
        BY <2>5, <4>1 DEF size
      <4>2. CASE k # n
        <5>1. k \in 1..Len(delivered)
          BY <1>6, <4>2
        <5> QED BY <1>1, <2>5, <5>1 DEF Intact
      <4> QED BY <4>1, <4>2
    <3> QED BY <1>1, <2>5, <3>1 DEF Intact
  <2>12. ChunkEnds'
    <3>1. ~Stuck
      BY <1>9, <1>12 DEF Stuck, FullPadding, size, n
    <3>2. chunkEnd <= WithSize.pos /\ WithSize \in Decoders
      BY <1>4, <3>1, SizeReads
    <3>3. chunkEnd \in Nat /\ WithSize.pos \in Nat /\ WithData.pos \in Nat
      BY <1>1, <1>5, <3>2, TakenTyped DEF Decoders
    <3>4. chunkEnd' <= pos'
      BY <1>1, <1>5, <2>2, <3>2, <3>3
    <3> QED BY <3>4 DEF ChunkEnds
  <2> QED BY <1>1, <1>3, <2>1, <2>2, <2>7, <2>10, <2>11, <2>12 DEF IInv
<1> QED BY <1>9, <1>11, <1>12

LEMMA NextIInv == IInv /\ [TcpNext]_tcpVars => IInv'
<1> SUFFICES ASSUME IInv, [TcpNext]_tcpVars PROVE IInv'
  OBVIOUS
<1>1. ASSUME NEW size \in PacketSizes, SendMessage(size) PROVE IInv'
  BY <1>1, SendMessageIInv
<1>2. ASSUME NEW n \in 1..(Len(wire) - arrived), NEW new \in BOOLEAN, Read(n, new)
      PROVE  IInv'
  BY <1>2, ReadIInv
<1>3. CASE LoopEnds
  BY <1>3, LoopEndsIInv
<1>4. CASE NeedsMore
  BY <1>4, NeedsMoreIInv
<1>5. CASE HandlePacket
  BY <1>5, HandlePacketIInv
<1>6. CASE UNCHANGED tcpVars
  <2>1. UNCHANGED <<wire, sent, arrived, chunkEnd, reading, started, pos, held, clear,
                    delivered, fault>>
    BY <1>6 DEF tcpVars
  <2>2. PICK offset : Layout(offset) /\ Reader(offset)
    BY DEF IInv
  <2>3. Layout(offset)'
    BY <2>1, <2>2, LayoutStays
  <2>4. Current' = Current /\ Stuck' = Stuck /\ Taken' = Taken
    BY <2>1 DEF Current, Stuck, FullPadding, Taken
  <2>5. Reader(offset)'
    BY <2>1, <2>2, <2>4 DEF Reader, Within
  <2>6. StateTypeOK' /\ Intact' /\ ChunkEnds' /\ Quiet' = Quiet /\ fault' = fault
        /\ reading' = reading /\ FullPadding(Current)' = FullPadding(Current)
    BY <2>1, <2>4 DEF IInv, StateTypeOK, Intact, ChunkEnds, Quiet, FullPadding
  <2> QED BY <2>3, <2>5, <2>6 DEF IInv
<1> QED BY <1>1, <1>2, <1>3, <1>4, <1>5, <1>6 DEF TcpNext

\* The receiver is always within the packet it waits for, wherever reads and
\* chunks end (HandleRead and OpensslDecoder::Continue).
THEOREM Invariance == TcpSpec => []IInv
<1> QED BY StartIInv, NextIInv, PTL DEF TcpSpec

-----------------------------------------------------------------------------
\* HandlePacket is given the packets that were sent, whole, in order and once,
\* whatever their sizes, the cipher's block and IV, and the way the stream was
\* cut into reads and chunks (HandleRead, client-tcp-transcoder.cc:144-262).
THEOREM WholePackets == TcpSpec => []Intact
<1>1. IInv => Intact
  BY DEF IInv
<1> QED BY <1>1, Invariance, PTL

\* When all that was sent has been read, and HandleRead has returned, every
\* packet was delivered, but one that AddPadding gave a whole block may wait.
THEOREM NothingWaits == TcpSpec => []Prompt
<1>1. IInv => Prompt
  <2> SUFFICES ASSUME IInv, arrived = Len(wire), ~reading, fault = "none"
               PROVE  Len(delivered) = Len(sent) \/ FullPadding(Len(delivered) + 1)
    BY DEF Prompt
  <2>1. StateTypeOK /\ Quiet
    BY DEF IInv
  <2>2. PICK offset : Layout(offset) /\ Reader(offset)
    BY DEF IInv
  <2>3. SUFFICES ASSUME Current \in 1..Len(sent), ~Stuck PROVE FALSE
    <3>1. Current <= Len(sent) + 1
      BY <2>2 DEF Reader
    <3>2. Len(sent) \in Nat /\ Len(delivered) \in Nat /\ Current = Len(delivered) + 1
      BY <2>1, TakenTyped DEF Current
    <3>3. Stuck => FullPadding(Len(delivered) + 1)
      BY <3>2 DEF Stuck
    <3> QED BY <3>1, <3>2, <3>3
  <2> DEFINE size == sent[Current]
             o == offset[Current]
  <2>4. size \in Nat /\ o \in Nat
    <3>1. sent \in Seq(Nat) /\ Current \in 1..(Len(sent) + 1)
      BY <2>1, <2>3, TakenTyped DEF StateTypeOK
    <3> QED BY <2>2, <2>3, <3>1 DEF Layout
  <2>5. o + Length(size) <= arrived
    BY <2>2, <2>3 DEF Layout
  <2>6. /\ Length(size) = IVLength + Total(size) /\ Total(size) \in Nat /\ IVLength \in Nat
        /\ Target(size) <= Total(size) /\ Target(size) \in Nat /\ Total(size) > 0
    <3>1. /\ Total(size) \in Nat /\ Target(size) <= Total(size) /\ Target(size) \in Nat
          /\ Padding(size) \in Nat
      BY <2>4, Sizes
    <3>2. Total(size) = 2 + Padding(size) + size
      BY DEF Total, SizeLength
    <3> QED BY <2>4, <3>1, <3>2, TcpAssumption DEF Length
  <2> HIDE DEF size, o
  <2>7. arrived \in Nat /\ pos \in Nat /\ held \in Nat /\ Len(clear) \in Nat
    BY <2>1, TakenTyped
  <2>8. CASE started
    <3>1. pos = arrived
      BY <2>1, <2>3, <2>8 DEF Quiet
    <3>2. pos = o + IVLength + Len(clear) + held /\ Len(clear) + held < Target(size)
      BY <2>1, <2>2, <2>3, <2>8, TakenTyped DEF Reader, Within, o, size
    <3> QED BY <2>4, <2>5, <2>6, <2>7, <3>1, <3>2
  <2>9. CASE ~started
    <3>1. pos = o
      BY <2>2, <2>9 DEF Reader, o
    <3>2. pos = arrived \/ arrived - pos < IVLength
      BY <2>1, <2>3, <2>9 DEF Quiet
    <3> QED BY <2>4, <2>5, <2>6, <2>7, <3>1, <3>2
  <2> QED BY <2>8, <2>9
<1> QED BY <1>1, Invariance, PTL

\* OpensslDecoder::End never finds half a block in the cipher context, and
\* LimitLeftSize never less than the packet, but where the packet is followed
\* by a block of padding that was not decoded.
THEOREM AbortsForPadding == TcpSpec => []OnlyPaddingAborts
<1>1. IInv => OnlyPaddingAborts
  BY DEF IInv, OnlyPaddingAborts, Current
<1> QED BY <1>1, Invariance, PTL

-----------------------------------------------------------------------------
(* Values: the weights of bytes, and division by them.                     *)

\* The powers of Base, multiplied out.
LEMMA WeightValues ==
  /\ Weight[0] = 1 /\ Weight[1] = Base /\ Weight[2] = Base * Base
  /\ Weight[3] = Base * (Base * Base) /\ Weight[4] = Base * (Base * (Base * Base))
<1> DEFINE Powers(w) == w = [k \in 0..4 |-> IF k = 0 THEN 1 ELSE Base * w[k - 1]]
           f == [k \in 0..4 |-> CASE k = 0 -> 1 [] k = 1 -> Base [] k = 2 -> Base * Base
                                  [] k = 3 -> Base * (Base * Base)
                                  [] k = 4 -> Base * (Base * (Base * Base))]
<1>1. Powers(f)
  <2>1. Base * 1 = Base
    BY SerializersAssumption
  <2>2. ASSUME NEW k \in 0..4 PROVE f[k] = IF k = 0 THEN 1 ELSE Base * f[k - 1]
    <3>1. k \in {0, 1, 2, 3, 4}
      OBVIOUS
    <3> QED BY <3>1, <2>1
  <2> HIDE DEF f
  <2>3. f = [k \in 0..4 |-> f[k]]
    BY DEF f
  <2> QED BY <2>2, <2>3
<1>2. Powers(Weight)
  BY <1>1 DEF Weight
<1> QED
  <2>1. Weight[0] = 1
    BY <1>2
  <2>2. Weight[1] = Base * Weight[0]
    BY <1>2
  <2>3. Weight[2] = Base * Weight[1]
    BY <1>2
  <2>4. Weight[3] = Base * Weight[2]
    BY <1>2
  <2>5. Weight[4] = Base * Weight[3]
    BY <1>2
  <2>6. Base * 1 = Base
    BY SerializersAssumption
  <2> QED BY <2>1, <2>2, <2>3, <2>4, <2>5, <2>6

-----------------------------------------------------------------------------
\* The turns of Number are the values of a function.
NumberRuns(h, q) ==
  /\ h[0] = 0 /\ \A k \in 0..(Len(q) - 1) : h[k + 1] = h[k] * Base + q[k + 1]
  /\ Number(q) = h[Len(q)]

\* The fold by which Number reads bytes, turn by turn.
LEMMA NumberTurns ==
  ASSUME NEW q \in Seq(Nat)
  PROVE  \E h \in [0..Len(q) -> Nat] : NumberRuns(h, q)
<1> DEFINE n == Len(q)
           Turns(h) == h = [s \in SUBSET (1..n) |->
                              IF s = {} THEN 0 ELSE h[s \ {Max(s)}] * Base + q[Max(s)]]
           iter == CHOOSE h : Turns(h)
           f == [i \in Nat |-> [s \in Nat |-> IF i \in 1..n THEN s * Base + q[i] ELSE s]]
<1>0. /\ Base \in Nat /\ DOMAIN q = 1..Len(q) /\ Len(q) \in Nat
      /\ \A s \in Nat, i \in 1..Len(q) : s * Base + q[i] \in Nat
  BY SerializersAssumption
<1>1. Number(q) = iter[1..n]
  BY <1>0 DEF Number, FoldLeft, MapThenFoldSet
<1>2. \E h : Turns(h)
  <2>1. f \in [Nat -> [Nat -> Nat]] /\ n \in Nat
    BY <1>0
  <2>2. PICK h \in [SUBSET (1..n) -> Nat] : FromLast(h, f, 0, n)
    <3> HIDE DEF f, n
    <3> QED BY <2>1, Iterates
  <2>3. ASSUME NEW s \in SUBSET (1..n)
        PROVE  h[s] = IF s = {} THEN 0 ELSE h[s \ {Max(s)}] * Base + q[Max(s)]
    <3>1. CASE s = {}
      BY <2>2, <3>1 DEF FromLast
    <3>2. CASE s # {}
      <4>1. h[s \ {Max(s)}] \in Nat
        OBVIOUS
      <4>2. Max(s) \in s /\ Max(s) \in 1..n /\ Max(s) \in Nat
        BY <2>1, <3>2, MaxIsOne
      <4> QED BY <2>2, <3>2, <4>1, <4>2 DEF FromLast
    <3> QED BY <3>1, <3>2
  <2>4. Turns(h)
    BY <2>3
  <2> QED BY <2>4
<1>3. Turns(iter)
  BY <1>2
<1> HIDE DEF iter
<1> DEFINE g == [k \in 0..n |-> iter[1..k]]
<1>4. g[0] = 0
  <2>1. 1..0 = {}
    OBVIOUS
  <2> QED BY <1>3, <2>1
<1>5. ASSUME NEW k \in 0..(n - 1) PROVE g[k + 1] = g[k] * Base + q[k + 1]
  <2>1. 1..(k + 1) \in SUBSET (1..n) /\ k \in 0..n /\ k + 1 \in 0..n /\ k \in Nat
    OBVIOUS
  <2>2. /\ Max(1..(k + 1)) = k + 1
        /\ 1..(k + 1) # {} /\ (1..(k + 1)) \ {k + 1} = 1..k
    BY <2>1, LastOfInterval
  <2> QED BY <1>3, <2>1, <2>2
<1>6. g[n] = iter[1..n]
  OBVIOUS
<1> DEFINE S == {k \in 0..n : g[k] \in Nat}
<1> HIDE DEF g
<1>7. \A k \in 0..n : k \in S
  <2>1. 0 \in S
    BY <1>0, <1>4
  <2>2. ASSUME NEW k \in 0..(n - 1), k \in S PROVE k + 1 \in S
    <3>1. g[k] \in Nat /\ k + 1 \in 0..n /\ k + 1 \in 1..n
      BY <2>2
    <3> QED BY <1>0, <1>5, <3>1
  <2> HIDE DEF S
  <2> QED BY <1>0, <2>1, <2>2, UpTo
<1>8. g \in [0..n -> Nat]
  <2>1. \A k \in 0..n : g[k] \in Nat
    BY <1>7
  <2> QED BY <2>1 DEF g
<1>9. NumberRuns(g, q)
  BY <1>1, <1>4, <1>5, <1>6 DEF NumberRuns
<1> QED BY <1>8, <1>9

\* The integers the code encodes have 1, 2 or 4 bytes.
LEMMA WidthValues ==
  /\ Width["uint8"] = 1 /\ Width["uint16"] = 2 /\ Width["uint32"] = 4
  /\ Widths = {"uint8", "uint16", "uint32"}
BY DEF Width, Widths

\* Bytes are read to a natural number.
LEMMA NumberIsNat == ASSUME NEW q \in Seq(Nat) PROVE Number(q) \in Nat
<1>1. PICK h \in [0..Len(q) -> Nat] : NumberRuns(h, q)
  BY NumberTurns
<1>2. Len(q) \in 0..Len(q)
  OBVIOUS
<1> QED BY <1>1, <1>2 DEF NumberRuns

\* What Number reads from 1, 2 and 4 bytes.
LEMMA NumberOfFew ==
  ASSUME NEW q \in Seq(Nat)
  PROVE  /\ Len(q) = 1 => Number(q) = q[1]
         /\ Len(q) = 2 => Number(q) = q[1] * Base + q[2]
         /\ Len(q) = 4 =>
              Number(q) = ((q[1] * Base + q[2]) * Base + q[3]) * Base + q[4]
<1>1. PICK h \in [0..Len(q) -> Nat] : NumberRuns(h, q)
  BY NumberTurns
<1>2. ASSUME NEW k \in 0..(Len(q) - 1) PROVE h[k + 1] = h[k] * Base + q[k + 1]
  BY <1>1 DEF NumberRuns
<1>3. h[0] = 0 /\ Number(q) = h[Len(q)] /\ Base \in Nat /\ 0 * Base = 0
  BY <1>1, SerializersAssumption DEF NumberRuns
<1>4. \A k \in 1..Len(q) : q[k] \in Nat
  OBVIOUS
<1>5. Len(q) >= 1 => h[1] = q[1]
  <2>1. Len(q) >= 1 => 0 \in 0..(Len(q) - 1) /\ 1 \in 1..Len(q) /\ 0 + 1 = 1
    OBVIOUS
  <2> QED BY <1>2, <1>3, <1>4, <2>1
<1>6. Len(q) >= 2 => h[2] = q[1] * Base + q[2]
  <2>1. Len(q) >= 2 => 1 \in 0..(Len(q) - 1) /\ 1 + 1 = 2
    OBVIOUS
  <2> QED BY <1>2, <1>5, <2>1
<1>7. Len(q) >= 3 => h[3] = (q[1] * Base + q[2]) * Base + q[3]
  <2>1. Len(q) >= 3 => 2 \in 0..(Len(q) - 1) /\ 2 + 1 = 3
    OBVIOUS
  <2> QED BY <1>2, <1>6, <2>1
<1>8. Len(q) >= 4 => h[4] = ((q[1] * Base + q[2]) * Base + q[3]) * Base + q[4]
  <2>1. Len(q) >= 4 => 3 \in 0..(Len(q) - 1) /\ 3 + 1 = 4
    OBVIOUS
  <2> QED BY <1>2, <1>7, <2>1
<1>9. ASSUME NEW n \in Nat, Len(q) = n PROVE Number(q) = h[n] /\ Len(q) >= n
  BY <1>3, <1>9
<1> QED BY <1>5, <1>6, <1>8, <1>9

\* htons and ntohs, htonl and ntohl: a number that fits comes back.
LEMMA NumberReturns ==
  ASSUME NEW type \in Widths, NEW n \in Nat, n < Weight[Width[type]]
  PROVE  /\ EncodeNumber(type, n) \in Seq(Nat)
         /\ Len(EncodeNumber(type, n)) = Width[type]
         /\ Number(EncodeNumber(type, n)) = n
<1> DEFINE w == Width[type]  e == EncodeNumber(type, n)
<1>1. Base \in Nat \ {0}
  BY SerializersAssumption
<1>2. w \in {1, 2, 4} /\ Weight[0] \in Nat \ {0} /\ Weight[1] \in Nat \ {0}
      /\ Weight[2] \in Nat \ {0} /\ Weight[3] \in Nat \ {0}
  BY <1>1, WidthValues, WeightValues
<1> DEFINE digit(k) == (n \div Weight[k]) % Base
<1>3. e = [i \in 1..w |-> digit(w - i)]
  BY DEF EncodeNumber, NumberBytes
<1>4. ASSUME NEW k \in {0, 1, 2, 3} PROVE digit(k) \in Nat
  <2>1. Weight[k] \in Nat \ {0}
    BY <1>2
  <2>2. n \div Weight[k] \in Nat
    BY <2>1, Division
  <2> QED BY <1>1, <2>2, Division
<1> HIDE DEF digit, e
<1>5. ASSUME NEW i \in 1..w PROVE digit(w - i) \in Nat
  <2>1. w - i \in {0, 1, 2, 3}
    BY <1>2
  <2> QED BY <1>4, <2>1
<1>6. e \in Seq(Nat) /\ Len(e) = w /\ \A i \in 1..w : e[i] = digit(w - i)
  <2>1. w \in Nat
    BY <1>2
  <2> QED BY <1>3, <1>5, <2>1
<1> DEFINE q1 == n \div Base  q2 == q1 \div Base  q3 == q2 \div Base
<1>7. /\ n \div Weight[0] = n /\ n \div Weight[1] = q1
      /\ n \div Weight[2] = q2 /\ n \div Weight[3] = q3
  <2>1. n \div 1 = n
    OBVIOUS
  <2>2. q2 = n \div (Base * Base)
    BY <1>1, QuotientTwice
  <2>3. Base * Base \in Nat \ {0} /\ (Base * Base) * Base = Base * (Base * Base)
    BY <1>1
  <2>4. q3 = n \div ((Base * Base) * Base)
    <3>1. PICK c \in Nat \ {0} : c = Base * Base
      BY <2>3
    <3>2. (n \div c) \div Base = n \div (c * Base)
      BY <1>1, QuotientTwice
    <3> QED BY <2>2, <3>1, <3>2
  <2> QED BY <2>1, <2>2, <2>3, <2>4, WeightValues
<1>8. /\ n = Base * q1 + (n % Base) /\ q1 \in Nat
      /\ q1 = Base * q2 + (q1 % Base) /\ q2 \in Nat
      /\ q2 = Base * q3 + (q2 % Base) /\ q3 \in Nat
  BY <1>1, Division
<1>9. /\ digit(0) = n % Base /\ digit(1) = q1 % Base
      /\ digit(2) = q2 % Base /\ digit(3) = q3 % Base
  BY <1>7 DEF digit
<1> HIDE DEF q1, q2, q3
<1>10. ASSUME NEW m \in Nat, m < Base PROVE m % Base = m
  BY <1>1, <1>10
<1>11. CASE w = 1
  <2>1. n < Base
    BY <1>11, WeightValues
  <2>2. e[1] = digit(0)
    BY <1>6, <1>11
  <2>3. n % Base = n
    BY <2>1, <1>10
  <2> QED BY <1>6, <1>9, <1>11, <2>2, <2>3, NumberOfFew DEF e
<1>12. CASE w = 2
  <2>1. n < Base * Base
    BY <1>12, WeightValues
  <2>2. q1 < Base
    BY <1>1, <2>1, QuotientBelow DEF q1
  <2>3. q1 % Base = q1
    BY <1>8, <1>10, <2>2
  <2>4. e[1] = digit(1) /\ e[2] = digit(0)
    BY <1>6, <1>12
  <2>5. q1 * Base = Base * q1
    BY <1>1, <1>8
  <2>6. Number(e) = e[1] * Base + e[2]
    BY <1>6, <1>12, NumberOfFew
  <2>7. Number(e) = n
    BY <1>8, <1>9, <2>3, <2>4, <2>5, <2>6
  <2> QED BY <1>6, <2>7 DEF e
<1>13. CASE w = 4
  <2>1. n < (Base * (Base * Base)) * Base /\ Base * (Base * Base) \in Nat \ {0}
    <3>1. (Base * (Base * Base)) * Base = Base * (Base * (Base * Base))
      BY <1>1
    <3> QED BY <1>1, <1>13, <3>1, WeightValues
  <2>2. q3 < Base
    BY <1>1, <1>7, <2>1, QuotientBelow, WeightValues
  <2>3. q3 % Base = q3
    BY <1>8, <1>10, <2>2
  <2>4. e[1] = digit(3) /\ e[2] = digit(2) /\ e[3] = digit(1) /\ e[4] = digit(0)
    BY <1>6, <1>13
  <2>5. q3 * Base = Base * q3 /\ q2 * Base = Base * q2 /\ q1 * Base = Base * q1
    BY <1>1, <1>8
  <2>6. Number(e) = ((e[1] * Base + e[2]) * Base + e[3]) * Base + e[4]
    BY <1>6, <1>13, NumberOfFew
  <2>7. e[1] * Base + e[2] = q2
    BY <1>8, <1>9, <2>3, <2>4, <2>5
  <2>8. q2 * Base + e[3] = q1
    BY <1>8, <1>9, <2>4, <2>5
  <2>9. q1 * Base + e[4] = n
    BY <1>8, <1>9, <2>4, <2>5
  <2>10. Number(e) = n
    BY <2>6, <2>7, <2>8, <2>9
  <2> QED BY <1>6, <2>10 DEF e
<1> QED BY <1>2, <1>11, <1>12, <1>13

-----------------------------------------------------------------------------
(* Beginnings of bytes.                                                    *)

\* Sequences of one length with the same elements are one.
LEMMA SameSeq ==
  ASSUME NEW T, NEW a \in Seq(T), NEW b \in Seq(T), Len(a) = Len(b),
         \A i \in 1..Len(a) : a[i] = b[i]
  PROVE  a = b
OBVIOUS

\* A beginning no shorter than the sequence is the sequence.
LEMMA TakeAll ==
  ASSUME NEW a \in Seq(Nat), NEW n \in Nat, n >= Len(a)
  PROVE  Take(a, n) = a
<1>1. Len(a) \in Nat
  OBVIOUS
<1>2. Take(a, n) = SubSeq(a, 1, Len(a))
  BY <1>1 DEF Take
<1> QED BY <1>2, SameSeq

\* Two sequences put together are taken apart where they meet.
LEMMA TakeFirst ==
  ASSUME NEW a \in Seq(Nat), NEW b \in Seq(Nat)
  PROVE  Take(a \o b, Len(a)) = a /\ Drop(a \o b, Len(a)) = b
<1>1. a \o b \in Seq(Nat) /\ Len(a \o b) = Len(a) + Len(b)
  OBVIOUS
<1>2. Take(a \o b, Len(a)) = SubSeq(a \o b, 1, Len(a))
  BY <1>1 DEF Take
<1>3. SubSeq(a \o b, 1, Len(a)) = a
  <2>1. SubSeq(a \o b, 1, Len(a)) \in Seq(Nat)
    BY <1>1
  <2>2. Len(SubSeq(a \o b, 1, Len(a))) = Len(a)
    BY <1>1
  <2>3. \A i \in 1..Len(a) : SubSeq(a \o b, 1, Len(a))[i] = a[i]
    BY <1>1
  <2> QED BY <2>1, <2>2, <2>3, SameSeq
<1> DEFINE c == SubSeq(a \o b, Len(a) + 1, Len(a) + Len(b))
<1>4. c = b
  <2>1. c \in Seq(Nat) /\ Len(c) = Len(b)
    BY <1>1
  <2>2. \A i \in 1..Len(b) : c[i] = b[i]
    BY <1>1
  <2> HIDE DEF c
  <2> QED BY <2>1, <2>2, SameSeq
<1> QED BY <1>1, <1>2, <1>3, <1>4 DEF Drop

\* What the beginning of a sequence is.
LEMMA TakeKeeps ==
  ASSUME NEW a \in Seq(Nat), NEW k \in Nat
  PROVE  /\ Take(a, k) \in Seq(Nat)
         /\ k < Len(a) => Len(Take(a, k)) = k
         /\ k >= Len(a) => Len(Take(a, k)) = Len(a)
         /\ \A i \in 1..Len(Take(a, k)) : Take(a, k)[i] = a[i]
BY DEF Take

\* What two sequences are put together.
LEMMA Joined ==
  ASSUME NEW a \in Seq(Nat), NEW b \in Seq(Nat)
  PROVE  /\ a \o b \in Seq(Nat) /\ Len(a \o b) = Len(a) + Len(b)
         /\ Len(a) \in Nat /\ Len(b) \in Nat
         /\ \A i \in 1..Len(a) : (a \o b)[i] = a[i]
         /\ \A i \in 1..Len(b) : (a \o b)[Len(a) + i] = b[i]
OBVIOUS

\* The beginnings of two sequences put together: one that ends in the first
\* and one that ends in the second.
LEMMA TakeBefore ==
  ASSUME NEW a \in Seq(Nat), NEW b \in Seq(Nat), NEW k \in Nat, k <= Len(a)
  PROVE  Take(a \o b, k) = Take(a, k) /\ Len(Take(a, k)) = k
<1> DEFINE j == a \o b  c == Take(a, k)  d == Take(j, k)
<1>1. /\ j \in Seq(Nat) /\ Len(j) = Len(a) + Len(b)
      /\ Len(a) \in Nat /\ Len(b) \in Nat
      /\ \A i \in 1..Len(a) : j[i] = a[i]
  BY Joined
<1> HIDE DEF j
<1>2. c \in Seq(Nat) /\ Len(c) = k /\ \A i \in 1..k : c[i] = a[i]
  <2>1. k < Len(a) \/ (k >= Len(a) /\ k = Len(a))
    BY <1>1
  <2>2. /\ c \in Seq(Nat) /\ \A i \in 1..Len(c) : c[i] = a[i]
        /\ k < Len(a) => Len(c) = k
        /\ k >= Len(a) => Len(c) = Len(a)
    BY TakeKeeps
  <2> HIDE DEF c
  <2> QED BY <2>1, <2>2
<1>3. d \in Seq(Nat) /\ Len(d) = k /\ \A i \in 1..k : d[i] = j[i]
  <2>1. k < Len(j) \/ (k >= Len(j) /\ k = Len(j))
    BY <1>1
  <2>2. /\ d \in Seq(Nat) /\ \A i \in 1..Len(d) : d[i] = j[i]
        /\ k < Len(j) => Len(d) = k
        /\ k >= Len(j) => Len(d) = Len(j)
    BY <1>1, TakeKeeps
  <2> HIDE DEF d
  <2> QED BY <2>1, <2>2
<1> HIDE DEF c, d
<1>4. \A i \in 1..k : i \in 1..Len(a)
  BY <1>1
<1>5. d = c
  BY <1>1, <1>2, <1>3, <1>4, SameSeq
<1> QED BY <1>2, <1>5 DEF c, d, j

\* A beginning that ends in the second of two sequences.
LEMMA TakeBehind ==
  ASSUME NEW a \in Seq(Nat), NEW b \in Seq(Nat), NEW m \in Nat
  PROVE  Take(a \o b, Len(a) + m) = a \o Take(b, m)
<1> DEFINE j == a \o b  k == Len(a) + m  c == Take(b, m)  d == Take(j, k)  e == a \o c
<1>1. /\ j \in Seq(Nat) /\ Len(j) = Len(a) + Len(b)
      /\ Len(a) \in Nat /\ Len(b) \in Nat /\ k \in Nat
      /\ \A i \in 1..Len(a) : j[i] = a[i]
      /\ \A i \in 1..Len(b) : j[Len(a) + i] = b[i]
  BY Joined
<1>2. /\ c \in Seq(Nat) /\ \A i \in 1..Len(c) : c[i] = b[i]
      /\ m < Len(b) => Len(c) = m
      /\ m >= Len(b) => Len(c) = Len(b)
  BY <1>1, TakeKeeps
<1> HIDE DEF j, c
<1>3. /\ d \in Seq(Nat) /\ \A i \in 1..Len(d) : d[i] = j[i]
      /\ k < Len(j) => Len(d) = k
      /\ k >= Len(j) => Len(d) = Len(j)
  BY <1>1, TakeKeeps
<1>4. /\ e \in Seq(Nat) /\ Len(e) = Len(a) + Len(c) /\ Len(c) \in Nat
      /\ \A i \in 1..Len(a) : e[i] = a[i]
      /\ \A i \in 1..Len(c) : e[Len(a) + i] = c[i]
  BY <1>2, Joined
<1> HIDE DEF d, e
<1>5. Len(d) = Len(e) /\ Len(c) <= Len(b)
  <2>1. CASE m < Len(b)
    <3>1. k < Len(j) /\ Len(c) = m
      BY <1>1, <1>2, <2>1
    <3> QED BY <1>3, <1>4, <2>1, <3>1
  <2>2. CASE m >= Len(b)
    <3>1. k >= Len(j) /\ Len(c) = Len(b)
      BY <1>1, <1>2, <2>2
    <3>2. Len(d) = Len(j)
      BY <1>3, <3>1
    <3> QED BY <1>1, <1>4, <3>1, <3>2
  <2> QED BY <1>1, <2>1, <2>2
<1>6. ASSUME NEW i \in 1..Len(d) PROVE d[i] = e[i]
  <2>1. CASE i \in 1..Len(a)
    BY <1>1, <1>3, <1>4, <2>1
  <2>2. CASE i \notin 1..Len(a)
    <3> DEFINE x == i - Len(a)
    <3>1. x \in 1..Len(c) /\ i = Len(a) + x
      BY <1>1, <1>4, <1>5, <2>2
    <3>2. x \in 1..Len(b)
      BY <1>1, <1>4, <1>5, <3>1
    <3> HIDE DEF x
    <3>3. e[i] = c[x] /\ c[x] = b[x]
      BY <1>2, <1>4, <3>1
    <3>4. d[i] = j[i] /\ j[i] = b[x]
      BY <1>1, <1>3, <3>1, <3>2
    <3> QED BY <3>3, <3>4
  <2> QED BY <2>1, <2>2
<1>7. d = e
  BY <1>3, <1>4, <1>5, <1>6, SameSeq
<1> QED BY <1>7 DEF c, d, e, j

Grouped(a, b, c) == (a \o b) \o c = a \o (b \o c) /\ b \o c \in Seq(Nat)

\* It is all the same which of three sequences are put together first.
LEMMA JoinedTwice ==
  ASSUME NEW a \in Seq(Nat), NEW b \in Seq(Nat), NEW c \in Seq(Nat)
  PROVE  Grouped(a, b, c)
BY DEF Grouped

-----------------------------------------------------------------------------
(* The decoders give back what was encoded.                                *)

\* Given e and more, the decoder takes e and gives v; given less, it asks for
\* more, but never for more than is missing.
Reads(type, e, v) ==
  \A t \in Seq(Nat) :
    DecodeSimple(e \o t, type) = [status |-> 0, value |-> v, rest |-> t]
Asks(type, e) ==
  \A k \in Nat : k < Len(e) =>
    DecodeSimple(Take(e, k), type).status \in 1..(Len(e) - k)

\* DecodeFromBuffer of an integer takes the bytes EncodeToBuffer wrote.
LEMMA NumberRead ==
  ASSUME NEW type \in Widths, NEW n \in Nat, n < Weight[Width[type]],
         NEW t \in Seq(Nat)
  PROVE  DecodeNumber(EncodeNumber(type, n) \o t, type)
           = [status |-> 0, value |-> n, rest |-> t]
<1> DEFINE e == EncodeNumber(type, n)
<1>1. e \in Seq(Nat) /\ Len(e) = Width[type] /\ Number(e) = n
  BY NumberReturns
<1> HIDE DEF e
<1>2. Take(e \o t, Width[type]) = e /\ Drop(e \o t, Len(e)) = t
  BY <1>1, TakeFirst
<1>3. Width[type] - Len(e) = 0
  BY <1>1
<1>4. DecodeNumber(e \o t, type) = [status |-> 0, value |-> n, rest |-> t]
  BY <1>1, <1>2, <1>3 DEF DecodeNumber
<1> QED BY <1>4 DEF e

\* Of fewer bytes it asks for those that are missing.
LEMMA NumberCut ==
  ASSUME NEW type \in Widths, NEW a \in Seq(Nat), Len(a) < Width[type]
  PROVE  DecodeNumber(a, type).status = Width[type] - Len(a)
<1>1. Width[type] \in Nat
  BY WidthValues
<1>2. Take(a, Width[type]) = a
  BY <1>1, TakeAll
<1> QED BY <1>2 DEF DecodeNumber

\* A string has a length that its 16 bits can tell.
LEMMA StringsAre ==
  ASSUME NEW s \in Strings
  PROVE  /\ s \in Seq(Nat) /\ Len(s) \in Nat /\ Len(s) < Weight[Width["uint16"]]
<1>1. PICK n \in 0..MaxLength : s \in [1..n -> Characters]
  BY DEF Strings
<1>2. n \in Nat /\ n < Base * Base
  BY SerializersAssumption
<1>3. \A i \in 1..n : s[i] \in Nat
  <2>1. \A c \in Characters : c \in Nat
    BY SerializersAssumption
  <2> QED BY <1>1, <2>1
<1>4. s \in Seq(Nat) /\ Len(s) = n
  BY <1>1, <1>2, <1>3
<1> QED BY <1>2, <1>4, WeightValues, WidthValues

\* Strings: the length, then as many characters.
LEMMA StringReturns ==
  ASSUME NEW s \in Strings
  PROVE  LET e == EncodeSimple("string", s)
         IN e \in Seq(Nat) /\ Len(e) >= 1 /\ Reads("string", e, s) /\ Asks("string", e)
<1>1. s \in Seq(Nat) /\ Len(s) \in Nat
  BY StringsAre
<1>2. Len(s) < Weight[Width["uint16"]] /\ "uint16" \in Widths
  BY StringsAre, WidthValues
<1>11. PICK w \in Nat : w = Width["uint16"] /\ w >= 1
  BY WidthValues
<1>3. PICK h \in Seq(Nat) : Len(h) = w /\ h = EncodeNumber("uint16", Len(s))
  BY <1>1, <1>2, <1>11, NumberReturns
<1>4. ASSUME NEW t \in Seq(Nat)
      PROVE  DecodeNumber(h \o t, "uint16") = [status |-> 0, value |-> Len(s), rest |-> t]
  BY <1>1, <1>2, <1>3, NumberRead
<1>5. PICK e \in Seq(Nat) : e = h \o s /\ Len(e) = w + Len(s)
  BY <1>1, <1>3, Joined
<1>0. EncodeSimple("string", s) = e
  BY <1>3, <1>5 DEF EncodeSimple, EncodeString
<1>6. ASSUME NEW a PROVE DecodeSimple(a, "string") = DecodeString(a)
  BY DEF DecodeSimple
<1>7. ASSUME NEW t \in Seq(Nat)
      PROVE  DecodeString(e \o t) = [status |-> 0, value |-> s, rest |-> t]
  <2>1. e \o t = h \o (s \o t) /\ s \o t \in Seq(Nat)
    <3>1. Grouped(h, s, t)
      BY <1>1, JoinedTwice
    <3> QED BY <1>5, <3>1, Zenon DEF Grouped
  <2>2. DecodeNumber(e \o t, "uint16") = [status |-> 0, value |-> Len(s), rest |-> s \o t]
    BY <1>4, <2>1
  <2>3. Take(s \o t, Len(s)) = s /\ Drop(s \o t, Len(s)) = t
    BY <1>1, TakeFirst
  <2>4. Missing(Len(s), s) = 0
    BY <1>1 DEF Missing
  <2> DEFINE size == DecodeNumber(e \o t, "uint16")
  <2>5. size.status = 0 /\ size.value = Len(s) /\ size.rest = s \o t
    BY <2>2
  <2>6. DecodeString(e \o t) =
          [status |-> Missing(size.value, Take(size.rest, size.value)),
           value |-> Take(size.rest, size.value),
           rest |-> Drop(size.rest, Len(Take(size.rest, size.value)))]
    BY <2>5 DEF DecodeString
  <2> HIDE DEF size
  <2> QED BY <2>3, <2>4, <2>5, <2>6
<1>8. Reads("string", e, s)
  BY <1>6, <1>7 DEF Reads
<1>9. ASSUME NEW k \in Nat, k < Len(e)
      PROVE  DecodeString(Take(e, k)).status \in 1..(Len(e) - k)
  <2>1. CASE k < w
    <3>1. Take(e, k) = Take(h, k) /\ Len(Take(h, k)) = k /\ Take(h, k) \in Seq(Nat)
      BY <1>1, <1>3, <1>5, <2>1, TakeBefore, TakeKeeps
    <3> DEFINE a == Take(h, k)
    <3>2. DecodeNumber(a, "uint16").status = w - k
      BY <1>2, <1>11, <2>1, <3>1, NumberCut
    <3>3. DecodeString(a).status = w - k
      <4>1. DecodeNumber(a, "uint16").status # 0
        BY <2>1, <3>2
      <4>2. DecodeString(a) = [DecodeNumber(a, "uint16") EXCEPT !.value = <<>>]
        BY <4>1 DEF DecodeString
      <4> QED BY <3>2, <4>2 DEF DecodeNumber
    <3> HIDE DEF a
    <3>4. w - k \in 1..(Len(e) - k)
      BY <1>1, <1>5, <2>1
    <3> QED BY <3>1, <3>3, <3>4 DEF a
  <2>2. CASE k >= w
    <3> DEFINE m == k - w  a == Take(s, m)
    <3>1. m \in Nat /\ m < Len(s) /\ k = w + m
      BY <1>1, <1>5, <1>9, <2>2
    <3>2. Take(e, k) = h \o a
      <4>1. Take(h \o s, Len(h) + m) = h \o Take(s, m)
        BY <1>1, <3>1, TakeBehind
      <4> QED BY <1>3, <1>5, <3>1, <4>1
    <3>3. a \in Seq(Nat) /\ Len(a) = m
      BY <1>1, <3>1, TakeKeeps
    <3> HIDE DEF a, m
    <3>4. DecodeNumber(Take(e, k), "uint16") = [status |-> 0, value |-> Len(s), rest |-> a]
      BY <1>4, <3>2, <3>3
    <3>5. Take(a, Len(s)) = a
      BY <1>1, <3>1, <3>3, TakeAll
    <3>6. DecodeString(Take(e, k)).status = Missing(Len(s), a)
      BY <3>4, <3>5 DEF DecodeString
    <3>7. Missing(Len(s), a) \in 1..(Len(e) - k)
      BY <1>1, <1>5, <3>1, <3>3 DEF Missing
    <3> QED BY <3>6, <3>7
  <2> QED BY <2>1, <2>2
<1>10. Asks("string", e)
  BY <1>6, <1>9 DEF Asks
<1>12. Len(e) >= 1
  BY <1>1, <1>5, <1>11
<1> QED BY <1>0, <1>8, <1>10, <1>12

\* Numbers and strings, as the elements of vectors and pairs.
LEMMA SimpleReturns ==
  ASSUME NEW type \in Simple, NEW v \in Values(type)
  PROVE  LET e == EncodeSimple(type, v)
         IN e \in Seq(Nat) /\ Len(e) >= 1 /\ Reads(type, e, v) /\ Asks(type, e)
<1>1. CASE type = "string"
  BY <1>1, StringReturns DEF Values
<1>2. CASE type # "string"
  <2> DEFINE e == EncodeNumber(type, v)  w == Width[type]
  <2>1. type \in Widths /\ v \in Nat /\ v < Weight[w]
    BY <1>2, SerializersAssumption DEF Simple, Values
  <2>2. e \in Seq(Nat) /\ Len(e) = w
    BY <2>1, NumberReturns
  <2>3. w \in Nat /\ w >= 1
    BY <2>1, WidthValues
  <2>4. ASSUME NEW t \in Seq(Nat)
        PROVE  DecodeNumber(e \o t, type) = [status |-> 0, value |-> v, rest |-> t]
    BY <2>1, NumberRead
  <2>5. ASSUME NEW a PROVE DecodeSimple(a, type) = DecodeNumber(a, type)
    BY <1>2 DEF DecodeSimple
  <2> HIDE DEF e
  <2>6. Reads(type, e, v)
    BY <2>4, <2>5 DEF Reads
  <2>7. ASSUME NEW k \in Nat, k < Len(e)
        PROVE  DecodeNumber(Take(e, k), type).status \in 1..(Len(e) - k)
    <3>1. Take(e, k) \in Seq(Nat) /\ Len(Take(e, k)) = k
      BY <2>2, <2>7, TakeKeeps
    <3>2. DecodeNumber(Take(e, k), type).status = w - k
      BY <2>1, <2>2, <2>7, <3>1, NumberCut
    <3> QED BY <2>2, <2>3, <2>7, <3>2
  <2>8. Asks(type, e)
    BY <2>5, <2>7 DEF Asks
  <2>9. EncodeSimple(type, v) = e
    BY <1>2 DEF EncodeSimple, e
  <2> QED BY <2>2, <2>3, <2>6, <2>8, <2>9
<1> QED BY <1>1, <1>2

\* Whatever the decoders answer is a record of these three fields.
LEMMA DecodedIs ==
  ASSUME NEW a, NEW type, NEW x
  PROVE  LET d == DecodeSimple(a, type)
         IN [d EXCEPT !.value = x] = [status |-> d.status, value |-> x, rest |-> d.rest]
<1>1. ASSUME NEW d, NEW s, NEW v, NEW r, d = [status |-> s, value |-> v, rest |-> r]
      PROVE  [d EXCEPT !.value = x] = [status |-> d.status, value |-> x, rest |-> d.rest]
  BY <1>1
<1>2. ASSUME NEW t
      PROVE  \E s, v, r : DecodeNumber(a, t) = [status |-> s, value |-> v, rest |-> r]
  BY DEF DecodeNumber
<1>3. \E s, v, r : DecodeString(a) = [status |-> s, value |-> v, rest |-> r]
  <2>1. PICK s, v, r : DecodeNumber(a, "uint16") = [status |-> s, value |-> v, rest |-> r]
    BY <1>2
  <2> DEFINE size == DecodeNumber(a, "uint16")
  <2>2. [size EXCEPT !.value = <<>>] = [status |-> s, value |-> <<>>, rest |-> r]
    BY <2>1
  <2> HIDE DEF size
  <2>3. CASE size.status # 0
    <3>1. DecodeString(a) = [size EXCEPT !.value = <<>>]
      BY <2>3 DEF DecodeString, size
    <3> QED BY <2>2, <3>1
  <2>4. CASE size.status = 0
    BY <2>4 DEF DecodeString, size
  <2> QED BY <2>3, <2>4
<1>4. \E s, v, r : DecodeSimple(a, type) = [status |-> s, value |-> v, rest |-> r]
  BY <1>2, <1>3 DEF DecodeSimple
<1> QED BY <1>1, <1>4

Revalued(r, z, new) == [r EXCEPT !.value = z] = new

\* Another value in the place of a decoded one.
LEMMA ValueReplaced ==
  ASSUME NEW y, NEW z, NEW a, NEW r, r = [status |-> 0, value |-> y, rest |-> a]
  PROVE  Revalued(r, z, [status |-> 0, value |-> z, rest |-> a])
<1>1. [[status |-> 0, value |-> y, rest |-> a] EXCEPT !.value = z]
        = [status |-> 0, value |-> z, rest |-> a]
  OBVIOUS
<1> QED BY <1>1 DEF Revalued

\* Pairs: the one, then the other.
LEMMA PairReturns ==
  ASSUME NEW types \in Simple \X Simple, NEW v \in Values(types[1]) \X Values(types[2])
  PROVE  LET e == EncodePair(types, v)
         IN /\ e \in Seq(Nat) /\ Len(e) >= 1
            /\ \A t \in Seq(Nat) :
                 DecodePair(e \o t, types) = [status |-> 0, value |-> v, rest |-> t]
            /\ \A k \in Nat : k < Len(e) =>
                 DecodePair(Take(e, k), types).status \in 1..(Len(e) - k)
<1>1. /\ types[1] \in Simple /\ types[2] \in Simple
      /\ v[1] \in Values(types[1]) /\ v[2] \in Values(types[2]) /\ v = <<v[1], v[2]>>
  OBVIOUS
<1>2. PICK p \in Seq(Nat) : /\ p = EncodeSimple(types[1], v[1]) /\ Len(p) >= 1
                            /\ Reads(types[1], p, v[1]) /\ Asks(types[1], p)
  BY <1>1, SimpleReturns
<1>3. PICK q \in Seq(Nat) : /\ q = EncodeSimple(types[2], v[2]) /\ Len(q) >= 1
                            /\ Reads(types[2], q, v[2]) /\ Asks(types[2], q)
  BY <1>1, SimpleReturns
<1>4. PICK e \in Seq(Nat) : e = p \o q /\ Len(e) = Len(p) + Len(q)
  BY Joined
<1>5. EncodePair(types, v) = e
  BY <1>2, <1>3, <1>4 DEF EncodePair
<1>6. Len(p) \in Nat /\ Len(q) \in Nat
  OBVIOUS
<1>7. ASSUME NEW t \in Seq(Nat)
      PROVE  DecodePair(e \o t, types) = [status |-> 0, value |-> v, rest |-> t]
  <2>1. e \o t = p \o (q \o t) /\ q \o t \in Seq(Nat)
    <3>1. Grouped(p, q, t)
      BY JoinedTwice
    <3> QED BY <1>4, <3>1, Zenon DEF Grouped
  <2>2. DecodeSimple(e \o t, types[1]) = [status |-> 0, value |-> v[1], rest |-> q \o t]
    BY <1>2, <2>1 DEF Reads
  <2>3. DecodeSimple(q \o t, types[2]) = [status |-> 0, value |-> v[2], rest |-> t]
    BY <1>3 DEF Reads
  <2> DEFINE first == DecodeSimple(e \o t, types[1])
             second == DecodeSimple(q \o t, types[2])
  <2>4. [second EXCEPT !.value = v] = [status |-> 0, value |-> v, rest |-> t]
    <3>1. second = [status |-> 0, value |-> v[2], rest |-> t]
      BY <2>2, <2>3
    <3> HIDE DEF second
    <3>2. Revalued(second, v, [status |-> 0, value |-> v, rest |-> t])
      BY <3>1, ValueReplaced
    <3> QED BY <3>2, Zenon DEF Revalued
  <2>5. first.status = 0 /\ first.rest = q \o t /\ <<first.value, second.value>> = v
    BY <1>1, <2>2, <2>3
  <2>6. DecodePair(e \o t, types) = [second EXCEPT !.value = <<first.value, second.value>>]
    BY <2>5 DEF DecodePair
  <2> HIDE DEF first, second
  <2> QED BY <2>4, <2>5, <2>6
<1>8. ASSUME NEW k \in Nat, k < Len(e)
      PROVE  DecodePair(Take(e, k), types).status \in 1..(Len(e) - k)
  <2> DEFINE first == DecodeSimple(Take(e, k), types[1])
             second == DecodeSimple(first.rest, types[2])
  <2>1. CASE k < Len(p)
    <3>1. Take(e, k) = Take(p, k)
      BY <1>4, <1>6, <2>1, TakeBefore
    <3>2. first.status \in 1..(Len(p) - k)
      BY <1>2, <2>1, <3>1 DEF Asks
    <3>3. DecodePair(Take(e, k), types) =
            [status |-> first.status, value |-> <<>>, rest |-> first.rest]
      <4>1. [first EXCEPT !.value = <<>>] =
              [status |-> first.status, value |-> <<>>, rest |-> first.rest]
        BY DecodedIs
      <4>2. first.status # 0
        BY <1>6, <3>2
      <4>3. DecodePair(Take(e, k), types) = [first EXCEPT !.value = <<>>]
        BY <4>2 DEF DecodePair
      <4> HIDE DEF first
      <4> QED BY <4>1, <4>3
    <3> HIDE DEF first
    <3>4. DecodePair(Take(e, k), types).status = first.status
      BY <3>3
    <3> QED BY <1>4, <1>6, <3>2, <3>4
  <2>2. CASE k >= Len(p)
    <3> DEFINE m == k - Len(p)
    <3>1. m \in Nat /\ m < Len(q) /\ k = Len(p) + m
      BY <1>4, <1>6, <1>8, <2>2
    <3>2. Take(e, k) = p \o Take(q, m) /\ Take(q, m) \in Seq(Nat)
      <4>1. Take(p \o q, Len(p) + m) = p \o Take(q, m)
        BY <3>1, TakeBehind
      <4> QED BY <1>4, <3>1, <4>1, TakeKeeps
    <3>3. first = [status |-> 0, value |-> v[1], rest |-> Take(q, m)]
      BY <1>2, <3>2 DEF Reads
    <3>4. second.status \in 1..(Len(q) - m)
      <4>1. second = DecodeSimple(Take(q, m), types[2])
        BY <3>3
      <4> HIDE DEF second
      <4> QED BY <1>3, <3>1, <4>1 DEF Asks
    <3>5. DecodePair(Take(e, k), types).status = second.status
      <4> DEFINE x == <<first.value, second.value>>
      <4>1. [second EXCEPT !.value = x] =
              [status |-> second.status, value |-> x, rest |-> second.rest]
        <5> HIDE DEF first, x
        <5> QED BY DecodedIs
      <4>2. first.status = 0
        BY <3>3
      <4>3. DecodePair(Take(e, k), types) = [second EXCEPT !.value = x]
        BY <4>2 DEF DecodePair
      <4> HIDE DEF second, x
      <4> QED BY <4>1, <4>3
    <3> HIDE DEF second, m
    <3> QED BY <1>4, <1>6, <3>1, <3>4, <3>5
  <2> QED BY <1>6, <2>1, <2>2
<1>9. Len(e) >= 1
  BY <1>2, <1>4, <1>6
<1> QED BY <1>5, <1>7, <1>8, <1>9

-----------------------------------------------------------------------------
(* Vectors: the loops over the elements, and what lies behind each.        *)

\* The 16 bits before the elements of a vector.
LEMMA HeaderTyped ==
  ASSUME NEW n \in Nat
  PROVE  EncodeNumber("uint16", n) \in Seq(Nat)
<1>1. Base \in Nat \ {0}
  BY SerializersAssumption
<1>2. ASSUME NEW i \in 1..2 PROVE (n \div Weight[2 - i]) % Base \in Nat
  <2>1. i \in {1, 2} /\ Weight[0] \in Nat \ {0} /\ Weight[1] \in Nat \ {0}
    BY <1>1, WeightValues
  <2>2. Weight[2 - i] \in Nat \ {0}
    BY <2>1
  <2>3. n \div Weight[2 - i] \in Nat
    BY <2>2, Division
  <2> QED BY <1>1, <2>3, Division
<1>3. ASSUME NEW w \in Nat, w = 2 PROVE NumberBytes(n, w) \in Seq(Nat)
  <2>1. \A i \in 1..w : (n \div Weight[w - i]) % Base \in Nat
    BY <1>2, <1>3
  <2> QED BY <2>1 DEF NumberBytes
<1> QED BY <1>3, WidthValues DEF EncodeNumber

EncodeRuns(h, type, v) ==
  /\ h[0] = EncodeNumber("uint16", Len(v))
  /\ \A k \in 0..(Len(v) - 1) : h[k + 1] = h[k] \o EncodeSimple(type, v[k + 1])
  /\ EncodeVector(type, v) = h[Len(v)]

\* EncodeToBuffer of a vector, element by element.
LEMMA EncodeTurns ==
  ASSUME NEW type \in Simple, NEW v \in Seq(Values(type))
  PROVE  \E h \in [0..Len(v) -> Seq(Nat)] : EncodeRuns(h, type, v)
<1> DEFINE n == Len(v)  d == EncodeNumber("uint16", n)
           Turns(h) ==
             h = [s \in SUBSET (1..n) |->
                    IF s = {} THEN d
                    ELSE h[s \ {Max(s)}] \o EncodeSimple(type, v[Max(s)])]
           iter == CHOOSE h : Turns(h)
           f == [i \in Nat |->
                   [s \in Seq(Nat) |->
                      IF i \in 1..n THEN s \o EncodeSimple(type, v[i]) ELSE s]]
<1>0. /\ EncodeNumber("uint16", Len(v)) \in Seq(Nat)
      /\ DOMAIN v = 1..Len(v) /\ Len(v) \in Nat
      /\ \A s \in Seq(Nat), i \in 1..Len(v) : s \o EncodeSimple(type, v[i]) \in Seq(Nat)
  <2>1. DOMAIN v = 1..Len(v) /\ Len(v) \in Nat
    OBVIOUS
  <2>2. EncodeNumber("uint16", Len(v)) \in Seq(Nat)
    BY <2>1, HeaderTyped
  <2>3. ASSUME NEW s \in Seq(Nat), NEW i \in 1..Len(v)
        PROVE  s \o EncodeSimple(type, v[i]) \in Seq(Nat)
    <3>1. v[i] \in Values(type)
      OBVIOUS
    <3>2. EncodeSimple(type, v[i]) \in Seq(Nat)
      BY <3>1, SimpleReturns
    <3> QED BY <3>2, Joined
  <2> QED BY <2>1, <2>2, <2>3
<1>1. EncodeVector(type, v) = iter[1..n]
  BY <1>0 DEF EncodeVector, FoldLeft, MapThenFoldSet
<1>2. \E h : Turns(h)
  <2>1. f \in [Nat -> [Seq(Nat) -> Seq(Nat)]] /\ n \in Nat
    BY <1>0
  <2>2. PICK h \in [SUBSET (1..n) -> Seq(Nat)] : FromLast(h, f, d, n)
    <3>1. d \in Seq(Nat)
      BY <1>0
    <3> HIDE DEF f, n, d
    <3> QED BY <2>1, <3>1, Iterates
  <2>3. ASSUME NEW s \in SUBSET (1..n)
        PROVE  h[s] = IF s = {} THEN d ELSE h[s \ {Max(s)}] \o EncodeSimple(type, v[Max(s)])
    <3>1. CASE s = {}
      BY <2>2, <3>1 DEF FromLast
    <3>2. CASE s # {}
      <4>1. h[s \ {Max(s)}] \in Seq(Nat)
        OBVIOUS
      <4>2. Max(s) \in s /\ Max(s) \in 1..n /\ Max(s) \in Nat
        BY <2>1, <3>2, MaxIsOne
      <4> QED BY <2>2, <3>2, <4>1, <4>2 DEF FromLast
    <3> QED BY <3>1, <3>2
  <2>4. Turns(h)
    BY <2>3
  <2> QED BY <2>4
<1>3. Turns(iter)
  BY <1>2
<1> HIDE DEF iter
<1> DEFINE g == [k \in 0..n |-> iter[1..k]]
<1>4. g[0] = d
  <2>1. 1..0 = {}
    OBVIOUS
  <2> QED BY <1>3, <2>1
<1>5. ASSUME NEW k \in 0..(n - 1) PROVE g[k + 1] = g[k] \o EncodeSimple(type, v[k + 1])
  <2>1. 1..(k + 1) \in SUBSET (1..n) /\ k \in 0..n /\ k + 1 \in 0..n /\ k \in Nat
    OBVIOUS
  <2>2. /\ Max(1..(k + 1)) = k + 1
        /\ 1..(k + 1) # {} /\ (1..(k + 1)) \ {k + 1} = 1..k
    BY <2>1, LastOfInterval
  <2> QED BY <1>3, <2>1, <2>2
<1>6. g[n] = iter[1..n]
  OBVIOUS
<1> DEFINE S == {k \in 0..n : g[k] \in Seq(Nat)}
<1> HIDE DEF g
<1>7. \A k \in 0..n : k \in S
  <2>1. 0 \in S
    BY <1>0, <1>4
  <2>2. ASSUME NEW k \in 0..(n - 1), k \in S PROVE k + 1 \in S
    <3>1. g[k] \in Seq(Nat) /\ k + 1 \in 0..n /\ k + 1 \in 1..n
      BY <2>2
    <3> QED BY <1>0, <1>5, <3>1
  <2> HIDE DEF S
  <2> QED BY <1>0, <2>1, <2>2, UpTo
<1>8. g \in [0..n -> Seq(Nat)]
  <2>1. \A k \in 0..n : g[k] \in Seq(Nat)
    BY <1>7
  <2> QED BY <2>1 DEF g
<1>9. EncodeRuns(g, type, v)
  BY <1>1, <1>4, <1>5, <1>6 DEF EncodeRuns
<1> QED BY <1>8, <1>9

Anything == Nat \union Seq(Nat)
Decodings == [status : Int, value : Seq(Anything), rest : Seq(Nat)]

\* Whatever bytes a number or a string is decoded from, the outcome has a
\* status, a value and a rest.
LEMMA DecodedTyped ==
  ASSUME NEW a \in Seq(Nat), NEW type \in Simple
  PROVE  LET d == DecodeSimple(a, type)
         IN d.status \in Int /\ d.value \in Anything /\ d.rest \in Seq(Nat)
<1>1. ASSUME NEW b \in Seq(Nat), NEW n \in Nat
      PROVE  Take(b, n) \in Seq(Nat) /\ Drop(b, Len(Take(b, n))) \in Seq(Nat)
             /\ Len(Take(b, n)) \in Nat
  <2>1. Take(b, n) \in Seq(Nat)
    BY TakeKeeps
  <2>2. ASSUME NEW m \in Nat PROVE Drop(b, m) \in Seq(Nat)
    BY DEF Drop
  <2>3. Len(Take(b, n)) \in Nat
    BY <2>1
  <2> QED BY <2>1, <2>2, <2>3
<1>2. ASSUME NEW t \in Widths
      PROVE  LET d == DecodeNumber(a, t)
             IN d.status \in Int /\ d.value \in Nat /\ d.rest \in Seq(Nat)
  <2> DEFINE got == Take(a, Width[t])
  <2>1. Width[t] \in Nat
    BY WidthValues
  <2>2. got \in Seq(Nat) /\ Drop(a, Len(got)) \in Seq(Nat) /\ Len(got) \in Nat
    BY <1>1, <2>1
  <2>3. DecodeNumber(a, t) =
          [status |-> Width[t] - Len(got), value |-> Number(got), rest |-> Drop(a, Len(got))]
    BY DEF DecodeNumber
  <2> HIDE DEF got
  <2>4. Number(got) \in Nat
    BY <2>2, NumberIsNat
  <2> QED BY <2>1, <2>2, <2>3, <2>4
<1>3. CASE type # "string"
  <2>1. type \in Widths /\ DecodeSimple(a, type) = DecodeNumber(a, type)
    BY <1>3 DEF Simple, DecodeSimple
  <2> QED BY <1>2, <2>1 DEF Anything
<1>4. CASE type = "string"
  <2> DEFINE size == DecodeNumber(a, "uint16")  got == Take(size.rest, size.value)
  <2>1. size.status \in Int /\ size.value \in Nat /\ size.rest \in Seq(Nat)
    BY <1>2, WidthValues
  <2>2. DecodeSimple(a, type) = DecodeString(a)
    BY <1>4 DEF DecodeSimple
  <2>3. CASE size.status # 0
    <3>1. DecodeString(a) = [size EXCEPT !.value = <<>>]
      BY <2>3 DEF DecodeString
    <3>2. [size EXCEPT !.value = <<>>] =
            [status |-> size.status, value |-> <<>>, rest |-> size.rest]
      BY DEF DecodeNumber
    <3>3. <<>> \in Seq(Nat)
      OBVIOUS
    <3> HIDE DEF size
    <3> QED BY <2>1, <2>2, <3>1, <3>2, <3>3 DEF Anything
  <2>4. CASE size.status = 0
    <3>1. DecodeString(a) = [status |-> Missing(size.value, got), value |-> got,
                             rest |-> Drop(size.rest, Len(got))]
      BY <2>4 DEF DecodeString
    <3> HIDE DEF size
    <3>2. got \in Seq(Nat) /\ Drop(size.rest, Len(got)) \in Seq(Nat) /\ Len(got) \in Nat
      BY <1>1, <2>1
    <3> HIDE DEF got
    <3>3. Missing(size.value, got) \in Int
      BY <2>1, <3>2 DEF Missing
    <3> QED BY <2>2, <3>1, <3>2, <3>3 DEF Anything
  <2> QED BY <2>3, <2>4
<1> QED BY <1>3, <1>4

\* So it has after each element of a vector.
LEMMA ElementTyped ==
  ASSUME NEW type \in Simple, NEW n \in Nat, NEW s \in Decodings, NEW i \in Int
  PROVE  DecodeElement(s, type, n, i) \in Decodings
<1> DEFINE e == DecodeSimple(s.rest, type)
<1>1. e.status \in Int /\ e.value \in Anything /\ e.rest \in Seq(Nat)
  BY DecodedTyped DEF Decodings
<1>2. s.value \in Seq(Anything)
  BY DEF Decodings
<1> HIDE DEF e
<1>3. Append(s.value, e.value) \in Seq(Anything)
  BY <1>1, <1>2
<1>4. e.status + StillExpected(n, i) \in Int
  BY <1>1 DEF StillExpected
<1> QED
  <2>1. CASE s.status # 0
    BY <2>1 DEF DecodeElement
  <2>2. CASE s.status = 0 /\ e.status # 0
    <3>1. DecodeElement(s, type, n, i) =
            [s EXCEPT !.status = e.status + StillExpected(n, i), !.rest = e.rest]
      BY <2>2 DEF DecodeElement, e
    <3> QED BY <1>1, <1>4, <3>1 DEF Decodings
  <2>3. CASE s.status = 0 /\ e.status = 0
    <3>1. DecodeElement(s, type, n, i) =
            [s EXCEPT !.value = Append(s.value, e.value), !.rest = e.rest]
      BY <2>3 DEF DecodeElement, e
    <3> QED BY <1>1, <1>3, <3>1 DEF Decodings
  <2> QED BY <2>1, <2>2, <2>3

DecodeLoop(d, type, n) ==
  FoldLeft(LAMBDA s, i : DecodeElement(s, type, n, i - 1), d, [i \in 1..n |-> i])
DecodeRuns(h, d, type, n) ==
  /\ h[0] = d /\ \A k \in 0..(n - 1) : h[k + 1] = DecodeElement(h[k], type, n, k)
  /\ DecodeLoop(d, type, n) = h[n]

\* DecodeFromBuffer of a vector, element by element.
LEMMA DecodeTurns ==
  ASSUME NEW type \in Simple, NEW n \in Nat, NEW d \in Decodings
  PROVE  \E h \in [0..n -> Decodings] : DecodeRuns(h, d, type, n)
<1> DEFINE at == [i \in 1..n |-> i]
           Turns(h) ==
             h = [s \in SUBSET (1..n) |->
                    IF s = {} THEN d
                    ELSE DecodeElement(h[s \ {Max(s)}], type, n, at[Max(s)] - 1)]
           iter == CHOOSE h : Turns(h)
           f == [i \in Nat |-> [s \in Decodings |-> DecodeElement(s, type, n, i - 1)]]
<1>0. \A s \in Decodings, i \in Nat : DecodeElement(s, type, n, i - 1) \in Decodings
  <2>1. ASSUME NEW i \in Nat PROVE i - 1 \in Int
    OBVIOUS
  <2> QED BY <2>1, ElementTyped
<1>1. DecodeLoop(d, type, n) = iter[1..n]
  BY DEF DecodeLoop, FoldLeft, MapThenFoldSet
<1>2. \E h : Turns(h)
  <2>1. f \in [Nat -> [Decodings -> Decodings]]
    BY <1>0
  <2>2. PICK h \in [SUBSET (1..n) -> Decodings] : FromLast(h, f, d, n)
    <3> HIDE DEF f
    <3> QED BY <2>1, Iterates
  <2>3. ASSUME NEW s \in SUBSET (1..n)
        PROVE  h[s] = IF s = {} THEN d ELSE DecodeElement(h[s \ {Max(s)}], type, n, at[Max(s)] - 1)
    <3>1. CASE s = {}
      BY <2>2, <3>1 DEF FromLast
    <3>2. CASE s # {}
      <4>1. h[s \ {Max(s)}] \in Decodings
        OBVIOUS
      <4>2. Max(s) \in s /\ Max(s) \in 1..n /\ Max(s) \in Nat
        BY <2>1, <3>2, MaxIsOne
      <4>3. at[Max(s)] = Max(s)
        BY <4>2
      <4> QED BY <2>2, <3>2, <4>1, <4>2, <4>3 DEF FromLast
    <3> QED BY <3>1, <3>2
  <2>4. Turns(h)
    BY <2>3
  <2> QED BY <2>4
<1>3. Turns(iter)
  BY <1>2
<1> HIDE DEF iter
<1> DEFINE g == [k \in 0..n |-> iter[1..k]]
<1>4. g[0] = d
  <2>1. 1..0 = {}
    OBVIOUS
  <2> QED BY <1>3, <2>1
<1>5. ASSUME NEW k \in 0..(n - 1) PROVE g[k + 1] = DecodeElement(g[k], type, n, k)
  <2>1. 1..(k + 1) \in SUBSET (1..n) /\ k \in 0..n /\ k + 1 \in 0..n /\ k \in Nat
    OBVIOUS
  <2>2. /\ Max(1..(k + 1)) = k + 1
        /\ 1..(k + 1) # {} /\ (1..(k + 1)) \ {k + 1} = 1..k
    BY <2>1, LastOfInterval
  <2>3. at[k + 1] - 1 = k
    BY <2>1
  <2> HIDE DEF at
  <2> QED BY <1>3, <2>1, <2>2, <2>3
<1>6. g[n] = iter[1..n]
  OBVIOUS
<1> DEFINE S == {k \in 0..n : g[k] \in Decodings}
<1> HIDE DEF g
<1>7. \A k \in 0..n : k \in S
  <2>1. 0 \in S
    BY <1>4
  <2>2. ASSUME NEW k \in 0..(n - 1), k \in S PROVE k + 1 \in S
    <3>1. g[k] \in Decodings /\ k + 1 \in 0..n /\ k + 1 \in 1..n
      BY <2>2
    <3>2. DecodeElement(g[k], type, n, k) \in Decodings
      BY <3>1, ElementTyped
    <3> QED BY <1>5, <3>1, <3>2
  <2> HIDE DEF S
  <2> QED BY <2>1, <2>2, UpTo
<1>8. g \in [0..n -> Decodings]
  <2>1. \A k \in 0..n : g[k] \in Decodings
    BY <1>7
  <2> QED BY <2>1 DEF g
<1>9. DecodeRuns(g, d, type, n)
  BY <1>1, <1>4, <1>5, <1>6 DEF DecodeRuns
<1> QED BY <1>8, <1>9

\* What lies behind each element of an encoded vector: the next element and
\* what lies behind that.
Tails(tail, type, v) ==
  /\ tail[Len(v)] = <<>>
  /\ \A k \in 0..(Len(v) - 1) : tail[k] = EncodeSimple(type, v[k + 1]) \o tail[k + 1]
  /\ \A k \in 0..Len(v) : Len(tail[k]) >= Len(v) - k
  /\ EncodeVector(type, v) = EncodeNumber("uint16", Len(v)) \o tail[0]

\* What lies behind the elements of an encoded vector.
LEMMA VectorTails ==
  ASSUME NEW type \in Simple, NEW v \in Seq(Values(type))
  PROVE  \E tail \in [0..Len(v) -> Seq(Nat)] : Tails(tail, type, v)
<1>1. PICK h \in [0..Len(v) -> Seq(Nat)] : EncodeRuns(h, type, v)
  BY EncodeTurns
<1> DEFINE E(k) == EncodeSimple(type, v[k + 1])
<1>2. PICK n \in Nat : n = Len(v)
  OBVIOUS
<1>3. ASSUME NEW k \in 0..(n - 1) PROVE E(k) \in Seq(Nat) /\ Len(E(k)) >= 1
  <2>1. v[k + 1] \in Values(type)
    BY <1>2
  <2> QED BY <2>1, SimpleReturns
<1> HIDE DEF E
<1>4. ASSUME NEW k \in 0..(n - 1) PROVE h[k + 1] = h[k] \o E(k)
  BY <1>1, <1>2 DEF EncodeRuns, E
<1>5. ASSUME NEW k \in 0..n PROVE h[k] \in Seq(Nat)
  BY <1>2
<1> DEFINE Behind(k, u) == h[n] = h[k] \o u /\ Len(u) >= n - k
           S == {j \in 0..n : \E u \in Seq(Nat) : Behind(n - j, u)}
<1>6. \A j \in 0..n : j \in S
  <2>1. 0 \in S
    <3>1. Behind(n, <<>>) /\ <<>> \in Seq(Nat)
      <4>1. h[n] \in Seq(Nat)
        BY <1>5
      <4>2. h[n] \o <<>> = h[n]
        BY <4>1
      <4> QED BY <4>2
    <3>2. n - 0 = n /\ 0 \in 0..n
      OBVIOUS
    <3> HIDE DEF Behind
    <3> QED BY <3>1, <3>2
  <2>2. ASSUME NEW j \in 0..(n - 1), j \in S PROVE j + 1 \in S
    <3> DEFINE k == n - (j + 1)
    <3>1. k \in 0..(n - 1) /\ k \in 0..n /\ n - j = k + 1 /\ j + 1 \in 0..n
      OBVIOUS
    <3>2. PICK u \in Seq(Nat) : Behind(k + 1, u)
      <4> HIDE DEF Behind, k
      <4> QED BY <2>2, <3>1
    <3> HIDE DEF k
    <3>3. E(k) \in Seq(Nat) /\ Len(E(k)) >= 1 /\ h[k] \in Seq(Nat)
      BY <1>3, <1>5, <3>1
    <3>4. h[n] = h[k] \o (E(k) \o u)
      <4>1. h[n] = (h[k] \o E(k)) \o u
        BY <1>4, <3>1, <3>2
      <4> QED BY <3>3, <4>1, JoinedTwice DEF Grouped
    <3>5. E(k) \o u \in Seq(Nat) /\ Len(E(k) \o u) >= n - k
      <4>1. Len(E(k) \o u) = Len(E(k)) + Len(u) /\ Len(E(k)) \in Nat /\ Len(u) \in Nat
            /\ E(k) \o u \in Seq(Nat)
        BY <3>3, Joined
      <4>2. Len(u) >= n - (k + 1)
        BY <3>2
      <4> QED BY <3>1, <3>3, <4>1, <4>2
    <3>6. Behind(k, E(k) \o u)
      BY <3>4, <3>5
    <3> HIDE DEF Behind
    <3> QED BY <3>1, <3>5, <3>6 DEF k
  <2> HIDE DEF S
  <2> QED BY <2>1, <2>2, UpTo
<1> DEFINE tail == [k \in 0..n |-> Drop(h[n], Len(h[k]))]
<1>7. ASSUME NEW k \in 0..n
      PROVE  tail[k] \in Seq(Nat) /\ h[n] = h[k] \o tail[k] /\ Len(tail[k]) >= n - k
  <2>1. n - k \in 0..n /\ n - (n - k) = k
    OBVIOUS
  <2>2. PICK u \in Seq(Nat) : Behind(k, u)
    <3> HIDE DEF Behind
    <3> QED BY <1>6, <2>1
  <2>3. tail[k] = u
    BY <1>5, <2>2, TakeFirst
  <2> HIDE DEF tail
  <2> QED BY <2>2, <2>3
<1>8. \A k \in 0..n : tail[k] = Drop(h[n], Len(h[k]))
  OBVIOUS
<1>9. tail \in [0..n -> Seq(Nat)]
  BY <1>7
<1> HIDE DEF tail
<1>10. ASSUME NEW k \in 0..(n - 1) PROVE tail[k] = E(k) \o tail[k + 1]
  <2>1. k \in 0..n /\ k + 1 \in 0..n
    OBVIOUS
  <2>2. E(k) \in Seq(Nat) /\ h[k] \in Seq(Nat) /\ tail[k + 1] \in Seq(Nat)
    BY <1>3, <1>5, <1>7, <2>1
  <2>3. h[n] = (h[k] \o E(k)) \o tail[k + 1]
    BY <1>4, <1>7, <2>1
  <2>4. PICK a \in Seq(Nat), b \in Seq(Nat), c \in Seq(Nat) :
          a = h[k] /\ b = E(k) /\ c = tail[k + 1]
    BY <2>2
  <2>5. Grouped(a, b, c)
    BY JoinedTwice
  <2>6. PICK d \in Seq(Nat) : d = b \o c
    BY <2>5 DEF Grouped
  <2>7. Drop(a \o d, Len(a)) = d
    BY TakeFirst
  <2>8. h[n] = a \o d
    BY <2>3, <2>4, <2>5, <2>6 DEF Grouped
  <2>9. tail[k] = Drop(h[n], Len(h[k]))
    BY <1>8, <2>1
  <2> HIDE DEF E
  <2> QED BY <2>4, <2>6, <2>7, <2>8, <2>9
<1>11. tail[n] = <<>>
  <2>1. ASSUME NEW a \in Seq(Nat) PROVE Drop(a, Len(a)) = <<>>
    BY DEF Drop
  <2> QED BY <1>5, <1>8, <2>1
<1>12. EncodeVector(type, v) = EncodeNumber("uint16", n) \o tail[0]
  BY <1>1, <1>2, <1>7 DEF EncodeRuns
<1>13. Tails(tail, type, v)
  BY <1>2, <1>7, <1>10, <1>11, <1>12 DEF Tails, E
<1> QED BY <1>2, <1>9, <1>13

\* Numbers and strings are among the values a decoder may give.
LEMMA ValuesAre ==
  ASSUME NEW type \in Simple
  PROVE  \A x \in Values(type) : x \in Anything
<1>1. ASSUME type = "string", NEW x \in Values(type) PROVE x \in Anything
  BY <1>1, StringsAre DEF Values, Anything
<1>2. ASSUME type # "string", NEW x \in Values(type) PROVE x \in Anything
  BY <1>2, SerializersAssumption DEF Values, Anything
<1> QED BY <1>1, <1>2

\* DecodeElement on what is left of the bytes: all of the element, or less.
HeadIs(s, type, x, t) == s.status = 0 /\ s.rest = EncodeSimple(type, x) \o t

\* One turn of the loop takes this element, and nothing behind it.
TakesHead(s, type, n, x, t) ==
  \A i : DecodeElement(s, type, n, i)
          = [status |-> 0, value |-> Append(s.value, x), rest |-> t]

LEMMA ElementRead ==
  ASSUME NEW type \in Simple, NEW x \in Values(type), NEW n \in Nat,
         NEW t \in Seq(Nat), NEW s \in Decodings, HeadIs(s, type, x, t)
  PROVE  TakesHead(s, type, n, x, t)
<1>8. s.status = 0 /\ s.rest = EncodeSimple(type, x) \o t
  BY DEF HeadIs
<1> SUFFICES ASSUME NEW i
             PROVE  DecodeElement(s, type, n, i)
                      = [status |-> 0, value |-> Append(s.value, x), rest |-> t]
  BY DEF TakesHead
<1> DEFINE e == DecodeSimple(s.rest, type)
<1>1. e = [status |-> 0, value |-> x, rest |-> t]
  BY <1>8, SimpleReturns DEF Reads
<1>2. e.status = 0 /\ e.value = x /\ e.rest = t
  BY <1>1
<1>3. DecodeElement(s, type, n, i) = [s EXCEPT !.value = Append(s.value, e.value), !.rest = e.rest]
  BY <1>2, <1>8 DEF DecodeElement
<1> HIDE DEF e
<1> DEFINE w == Append(s.value, x)  r == [s EXCEPT !.value = w, !.rest = t]
<1>4. w \in Seq(Anything)
  BY ValuesAre DEF Decodings
<1> HIDE DEF w
<1>5. r \in Decodings /\ r.status = 0 /\ r.value = w /\ r.rest = t
  BY <1>4, <1>8 DEF Decodings
<1> HIDE DEF r
<1>6. r = [status |-> r.status, value |-> r.value, rest |-> r.rest]
  BY <1>5 DEF Decodings
<1>7. r = [status |-> 0, value |-> w, rest |-> t]
  BY <1>5, <1>6
<1> QED BY <1>2, <1>3, <1>7 DEF r, w

\* An element that is cut leaves a status, and the elements after it the rest
\* of the hint.
LEMMA ElementCut ==
  ASSUME NEW type \in Simple, NEW x \in Values(type), NEW n \in Nat, NEW i \in Nat, i < n,
         NEW c \in Nat, c < Len(EncodeSimple(type, x)), NEW s \in Decodings,
         s.status = 0, s.rest = Take(EncodeSimple(type, x), c)
  PROVE  DecodeElement(s, type, n, i).status \in 1..(Len(EncodeSimple(type, x)) - c + n - i)
<1>1. PICK p \in Seq(Nat) : p = EncodeSimple(type, x) /\ Asks(type, p)
  BY SimpleReturns
<1> DEFINE e == DecodeSimple(s.rest, type)
<1>2. e.status \in 1..(Len(p) - c)
  BY <1>1 DEF Asks
<1>3. Len(p) \in Nat
  OBVIOUS
<1> HIDE DEF e
<1>4. DecodeElement(s, type, n, i) =
        [s EXCEPT !.status = e.status + StillExpected(n, i), !.rest = e.rest]
  BY <1>2, <1>3 DEF DecodeElement, e
<1>5. DecodeElement(s, type, n, i).status = e.status + (n - i)
  BY <1>4 DEF Decodings, StillExpected
<1> QED BY <1>1, <1>2, <1>3, <1>5

\* The bound of the status of a vector is one byte more than is missing.
LEMMA VectorReturns ==
  ASSUME NEW type \in Simple, NEW v \in Seq(Values(type)),
         Len(v) < Weight[Width["uint16"]]
  PROVE  LET e == EncodeVector(type, v)
         IN /\ e \in Seq(Nat) /\ Len(e) >= 1
            /\ \A t \in Seq(Nat) :
                 DecodeVector(e \o t, type) = [status |-> 0, value |-> v, rest |-> t]
            /\ \A k \in Nat : k < Len(e) =>
                 DecodeVector(Take(e, k), type).status \in 1..(Len(e) - k + 1)
<1>1. PICK tail \in [0..Len(v) -> Seq(Nat)] : Tails(tail, type, v)
  BY VectorTails
<1>2. PICK n \in Nat : n = Len(v)
  OBVIOUS
<1>3. PICK w \in Nat : w = Width["uint16"] /\ w >= 1 /\ "uint16" \in Widths
  BY WidthValues
<1>4. PICK h \in Seq(Nat) : h = EncodeNumber("uint16", n) /\ Len(h) = w
  BY <1>2, <1>3, NumberReturns
<1>5. ASSUME NEW t \in Seq(Nat)
      PROVE  DecodeNumber(h \o t, "uint16") = [status |-> 0, value |-> n, rest |-> t]
  BY <1>2, <1>3, <1>4, NumberRead
<1>6. tail[0] \in Seq(Nat) /\ Len(tail[0]) \in Nat
  <2>1. 0 \in 0..Len(v)
    BY <1>2
  <2> QED BY <2>1
<1>7. PICK e \in Seq(Nat) : /\ e = h \o tail[0] /\ e = EncodeVector(type, v)
                            /\ Len(e) = w + Len(tail[0])
  <2>1. PICK c \in Seq(Nat) : c = tail[0]
    BY <1>6
  <2>2. PICK a \in Seq(Nat) : a = h \o c /\ Len(a) = Len(h) + Len(c)
    BY Joined
  <2>3. EncodeVector(type, v) = EncodeNumber("uint16", n) \o tail[0]
    BY <1>1, <1>2 DEF Tails
  <2>4. EncodeVector(type, v) = a
    BY <1>4, <2>1, <2>2, <2>3
  <2> QED BY <1>4, <2>1, <2>2, <2>4
<1>8. ASSUME NEW k \in 0..(n - 1)
      PROVE  /\ k \in 0..n /\ k + 1 \in 0..n /\ v[k + 1] \in Values(type)
             /\ tail[k] = EncodeSimple(type, v[k + 1]) \o tail[k + 1]
             /\ tail[k] \in Seq(Nat) /\ tail[k + 1] \in Seq(Nat)
             /\ Len(tail[k + 1]) >= n - k - 1
  <2>1. k \in 0..n /\ k + 1 \in 0..n /\ k + 1 \in 1..n /\ n - (k + 1) = n - k - 1
    OBVIOUS
  <2>2. v[k + 1] \in Values(type)
    BY <1>2, <2>1
  <2>3. tail[k] \in Seq(Nat) /\ tail[k + 1] \in Seq(Nat)
    BY <1>2, <2>1
  <2>4. /\ tail[k] = EncodeSimple(type, v[k + 1]) \o tail[k + 1]
        /\ Len(tail[k + 1]) >= n - (k + 1)
    BY <1>1, <1>2, <2>1 DEF Tails
  <2> QED BY <2>1, <2>2, <2>3, <2>4
<1>9. ASSUME NEW a, DecodeNumber(a, "uint16").status = 0
      PROVE  DecodeVector(a, type) =
               DecodeLoop([DecodeNumber(a, "uint16") EXCEPT !.value = <<>>], type,
                          DecodeNumber(a, "uint16").value)
  BY <1>9 DEF DecodeVector, DecodeLoop
<1>10. ASSUME NEW t \in Seq(Nat)
       PROVE  DecodeVector(h \o t, type) =
                DecodeLoop([status |-> 0, value |-> <<>>, rest |-> t], type, n)
  <2> DEFINE size == DecodeNumber(h \o t, "uint16")
  <2>1. size = [status |-> 0, value |-> n, rest |-> t]
    BY <1>5
  <2>2. size.status = 0 /\ size.value = n
        /\ [size EXCEPT !.value = <<>>] = [status |-> 0, value |-> <<>>, rest |-> t]
    <3> HIDE DEF size
    <3> QED BY <2>1
  <2>3. DecodeVector(h \o t, type) = DecodeLoop([size EXCEPT !.value = <<>>], type, size.value)
    BY <1>9, <2>2
  <2> HIDE DEF size
  <2> QED BY <2>2, <2>3
<1>11. \A x \in Values(type) : x \in Anything
  BY ValuesAre
<1> DEFINE part(k) == [i \in 1..k |-> v[i]]
<1>12. ASSUME NEW k \in 0..n
       PROVE  part(k) \in Seq(Anything) /\ Len(part(k)) = k
  <2>1. \A i \in 1..k : v[i] \in Values(type)
    BY <1>2
  <2> QED BY <1>11, <2>1
<1>13. ASSUME NEW k \in 0..(n - 1) PROVE Append(part(k), v[k + 1]) = part(k + 1)
  <2>1. k \in Nat
    OBVIOUS
  <2> QED BY <2>1
<1>14. part(n) = v /\ part(0) = <<>>
  <2>1. part(n) = v
    BY <1>2
  <2>2. part(0) = <<>>
    OBVIOUS
  <2> QED BY <2>1, <2>2
<1> HIDE DEF part
<1>15. ASSUME NEW t \in Seq(Nat)
       PROVE  DecodeVector(e \o t, type) = [status |-> 0, value |-> v, rest |-> t]
  <2> DEFINE d(k) == [status |-> 0, value |-> part(k), rest |-> tail[k] \o t]
  <2>1. e \o t = h \o (tail[0] \o t) /\ tail[0] \o t \in Seq(Nat)
    <3>1. PICK c \in Seq(Nat) : c = tail[0]
      BY <1>6
    <3>2. Grouped(h, c, t)
      BY JoinedTwice
    <3>3. e = h \o c
      BY <1>7, <3>1
    <3> QED BY <3>1, <3>2, <3>3, Zenon DEF Grouped
  <2>2. DecodeVector(e \o t, type) = DecodeLoop(d(0), type, n)
    BY <1>10, <1>14, <2>1
  <2>3. d(0) \in Decodings
    <3>1. 0 \in 0..n
      OBVIOUS
    <3> QED BY <1>12, <2>1, <3>1 DEF Decodings
  <2>4. PICK g \in [0..n -> Decodings] : DecodeRuns(g, d(0), type, n)
    <3> HIDE DEF d
    <3> QED BY <2>3, DecodeTurns
  <2> DEFINE S == {k \in 0..n : g[k] = d(k)}
  <2>5. ASSUME NEW k \in 0..(n - 1) PROVE DecodeElement(d(k), type, n, k) = d(k + 1)
    <3>1. tail[k] \o t = EncodeSimple(type, v[k + 1]) \o (tail[k + 1] \o t)
          /\ tail[k + 1] \o t \in Seq(Nat)
      <4>1. PICK a \in Seq(Nat) : a = EncodeSimple(type, v[k + 1])
        BY <1>8, SimpleReturns
      <4>2. PICK c \in Seq(Nat) : c = tail[k + 1] /\ tail[k] = a \o c
        BY <1>8, <4>1
      <4>3. Grouped(a, c, t)
        BY JoinedTwice
      <4> QED BY <4>1, <4>2, <4>3, Zenon DEF Grouped
    <3>4. tail[k] \o t \in Seq(Nat)
      BY <1>8, Joined
    <3>2. part(k) \in Seq(Anything) /\ k \in Int
      <4>1. k \in 0..n /\ k \in Int
        OBVIOUS
      <4> QED BY <1>12, <4>1
    <3>3. PICK s \in Decodings : s = d(k)
      <4>1. d(k) \in Decodings
        BY <3>2, <3>4 DEF Decodings
      <4> HIDE DEF d
      <4> QED BY <4>1
    <3>5. s.status = 0 /\ s.value = part(k)
          /\ s.rest = EncodeSimple(type, v[k + 1]) \o (tail[k + 1] \o t)
      BY <3>1, <3>3
    <3>6. PICK c \in Seq(Nat) : c = tail[k + 1] \o t
      BY <3>1
    <3>7. PICK x \in Values(type) : x = v[k + 1]
      BY <1>8
    <3>8. s.rest = EncodeSimple(type, x) \o c
      BY <3>5, <3>6, <3>7
    <3>9. DecodeElement(s, type, n, k) = [status |-> 0, value |-> Append(s.value, x), rest |-> c]
      <4>1. HeadIs(s, type, x, c)
        BY <3>5, <3>8 DEF HeadIs
      <4>2. TakesHead(s, type, n, x, c)
        BY <4>1, ElementRead
      <4> QED BY <4>2, Zenon DEF TakesHead
    <3> QED BY <1>13, <3>3, <3>5, <3>6, <3>7, <3>9
  <2>6. \A k \in 0..n : k \in S
    <3>1. 0 \in S
      BY <2>4 DEF DecodeRuns
    <3>2. ASSUME NEW k \in 0..(n - 1), k \in S PROVE k + 1 \in S
      <4>1. k + 1 \in 0..n /\ g[k + 1] = DecodeElement(g[k], type, n, k) /\ g[k] = d(k)
        BY <1>8, <2>4, <3>2 DEF DecodeRuns
      <4>2. DecodeElement(d(k), type, n, k) = d(k + 1)
        BY <2>5
      <4> HIDE DEF d
      <4> QED BY <4>1, <4>2
    <3> HIDE DEF S
    <3> QED BY <3>1, <3>2, UpTo
  <2>7. g[n] = d(n) /\ DecodeLoop(d(0), type, n) = g[n]
    <3>1. n \in 0..n
      OBVIOUS
    <3> QED BY <2>4, <2>6, <3>1 DEF DecodeRuns
  <2>8. d(n) = [status |-> 0, value |-> v, rest |-> t]
    <3>1. tail[n] \o t = t
      BY <1>1, <1>2 DEF Tails
    <3> QED BY <1>14, <3>1
  <2> HIDE DEF d
  <2> QED BY <2>2, <2>7, <2>8
<1>16. ASSUME NEW k \in Nat, k < Len(e)
       PROVE  DecodeVector(Take(e, k), type).status \in 1..(Len(e) - k + 1)
  <2>1. CASE k < w
    <3> DEFINE a == Take(h, k)  size == DecodeNumber(a, "uint16")
    <3>1. Take(e, k) = a /\ Len(a) = k /\ a \in Seq(Nat)
      BY <1>4, <1>6, <1>7, <2>1, TakeBefore, TakeKeeps
    <3>2. size.status = w - k
      BY <1>3, <2>1, <3>1, NumberCut
    <3>3. DecodeVector(a, type) = [size EXCEPT !.value = <<>>]
      <4>1. size.status # 0
        BY <1>3, <2>1, <3>2
      <4> QED BY <4>1 DEF DecodeVector
    <3>4. [size EXCEPT !.value = <<>>].status = size.status
      BY DEF DecodeNumber
    <3>5. DecodeVector(a, type).status = w - k
      <4> HIDE DEF size
      <4> QED BY <3>2, <3>3, <3>4
    <3>6. w - k \in 1..(Len(e) - k + 1)
      BY <1>6, <1>7, <2>1
    <3> QED BY <3>1, <3>5, <3>6
  <2>2. CASE k >= w
    <3> DEFINE m == k - w  d == [status |-> 0, value |-> <<>>, rest |-> Take(tail[0], m)]
               L == Len(tail[0]) - m
    <3>1. m \in Nat /\ m < Len(tail[0]) /\ k = w + m /\ L \in Nat /\ L = Len(e) - k
      BY <1>6, <1>7, <1>16, <2>2
    <3>2. Take(e, k) = h \o Take(tail[0], m) /\ Take(tail[0], m) \in Seq(Nat)
      <4>1. Take(h \o tail[0], Len(h) + m) = h \o Take(tail[0], m)
        BY <1>6, <3>1, TakeBehind
      <4> QED BY <1>4, <1>6, <1>7, <3>1, <4>1, TakeKeeps
    <3>3. DecodeVector(Take(e, k), type) = DecodeLoop(d, type, n)
      BY <1>10, <3>2
    <3>4. d \in Decodings
      BY <3>2 DEF Decodings
    <3>5. PICK g \in [0..n -> Decodings] : DecodeRuns(g, d, type, n)
      <4> HIDE DEF d
      <4> QED BY <3>4, DecodeTurns
    <3> HIDE DEF m, L
    <3> DEFINE Waits(s) == s.status \in 1..(L + 1)
               Goes(s, j, c) == /\ s.status = 0 /\ s.rest = Take(tail[j], c)
                                /\ c < Len(tail[j]) /\ Len(tail[j]) - c = L
               S == {j \in 0..n : Waits(g[j]) \/ \E c \in Nat : Goes(g[j], j, c)}
    <3>6. 0 \in S
      <4>1. g[0] = d /\ 0 \in 0..n
        BY <3>5 DEF DecodeRuns
      <4>2. Goes(d, 0, m)
        BY <1>6, <3>1 DEF L
      <4> HIDE DEF Goes, Waits, d
      <4> QED BY <3>1, <4>1, <4>2
    <3>7. ASSUME NEW j \in 0..(n - 1), j \in S PROVE j + 1 \in S
      <4>1. /\ j \in 0..n /\ j + 1 \in 0..n /\ j \in Nat /\ j < n
            /\ g[j + 1] = DecodeElement(g[j], type, n, j) /\ g[j] \in Decodings
        <5>1. j \in 0..n /\ j + 1 \in 0..n /\ j \in Nat /\ j < n
          OBVIOUS
        <5>2. g[j + 1] = DecodeElement(g[j], type, n, j)
          BY <3>5 DEF DecodeRuns
        <5>3. g[j] \in Decodings
          BY <3>5, <5>1
        <5> QED BY <5>1, <5>2, <5>3
      <4>2. CASE Waits(g[j])
        <5>1. g[j].status # 0
          BY <3>1, <4>2
        <5>2. g[j + 1] = g[j]
          BY <4>1, <5>1 DEF DecodeElement
        <5> HIDE DEF Waits, Goes
        <5> QED BY <4>1, <4>2, <5>2
      <4>3. CASE \E c \in Nat : Goes(g[j], j, c)
        <5>1. PICK c \in Nat : Goes(g[j], j, c)
          BY <4>3
        <5>2. PICK x \in Values(type) : x = v[j + 1]
          BY <1>8
        <5>3. PICK a \in Seq(Nat) : a = EncodeSimple(type, x) /\ Len(a) >= 1
          BY SimpleReturns
        <5>4. PICK b \in Seq(Nat) : b = tail[j + 1] /\ tail[j] = a \o b /\ Len(b) >= n - j - 1
          BY <1>8, <5>2, <5>3
        <5>5. Len(tail[j]) = Len(a) + Len(b) /\ Len(a) \in Nat /\ Len(b) \in Nat
          BY <5>4, Joined
        <5>6. g[j].status = 0 /\ g[j].rest = Take(a \o b, c)
              /\ c < Len(a) + Len(b) /\ (Len(a) + Len(b)) - c = L
          BY <5>1, <5>4, <5>5
        <5>7. CASE c < Len(a)
          <6>1. g[j].rest = Take(a, c)
            BY <5>5, <5>6, <5>7, TakeBefore
          <6>2. DecodeElement(g[j], type, n, j).status \in 1..(Len(a) - c + n - j)
            BY <4>1, <5>3, <5>6, <5>7, <6>1, ElementCut
          <6>3. g[j + 1].status \in 1..(Len(a) - c + n - j)
            BY <4>1, <6>2
          <6>4. Len(a) - c + n - j <= L + 1
            <7>1. n - j <= Len(b) + 1
              BY <4>1, <5>4, <5>5
            <7> QED BY <4>1, <5>5, <5>6, <7>1
          <6>5. Waits(g[j + 1])
            <7>5. PICK x1 \in Nat : x1 = Len(a)
              BY <5>5
            <7>6. ASSUME NEW p \in Nat, NEW q \in Nat
                  PROVE  p - c + n - q \in Int
              OBVIOUS
            <7>7. x1 - c + n - j \in Int
              BY <4>1, <7>6, Zenon
            <7>1. PICK y \in Int : y = Len(a) - c + n - j
              BY <7>5, <7>7, Zenon
            <7>4. L + 1 \in Int /\ y <= L + 1
              BY <3>1, <6>4, <7>1
            <7>2. y <= L + 1 /\ g[j + 1].status \in 1..y /\ L + 1 \in Int
              BY <6>3, <7>1, <7>4
            <7>3. ASSUME NEW l \in Int, y <= l, NEW i \in 1..y PROVE i \in 1..l
              BY <7>3
            <7> QED BY <7>2, <7>3
          <6> HIDE DEF Waits, Goes
          <6> QED BY <4>1, <6>5
        <5>8. CASE c >= Len(a)
          <6> DEFINE u == c - Len(a)
          <6>1. u \in Nat /\ c = Len(a) + u /\ u < Len(b) /\ Len(b) - u = L
            <7>1. PICK x1 \in Nat, x2 \in Nat : x1 = Len(a) /\ x2 = Len(b)
              BY <5>5
            <7>2. c < x1 + x2 /\ (x1 + x2) - c = L /\ c >= x1
              BY <5>6, <5>8, <7>1
            <7>3. c - x1 \in Nat /\ c = x1 + (c - x1) /\ c - x1 < x2 /\ x2 - (c - x1) = L
              BY <3>1, <7>2
            <7> QED BY <7>1, <7>3
          <6> HIDE DEF u
          <6>2. g[j].rest = a \o Take(b, u) /\ Take(b, u) \in Seq(Nat)
            <7>1. Take(a \o b, Len(a) + u) = a \o Take(b, u)
              BY <6>1, TakeBehind
            <7> QED BY <5>6, <6>1, <7>1, TakeKeeps
          <6>3. DecodeElement(g[j], type, n, j)
                  = [status |-> 0, value |-> Append(g[j].value, x), rest |-> Take(b, u)]
            <7>1. PICK t \in Seq(Nat) : t = Take(b, u)
              BY <6>2
            <7>2. g[j].rest = EncodeSimple(type, x) \o t
              BY <4>1, <5>3, <6>2, <7>1
            <7>3. PICK s \in Decodings : s = g[j] /\ HeadIs(s, type, x, t)
              <8> HIDE DEF Goes, Waits
              <8> QED BY <4>1, <5>6, <7>2 DEF HeadIs
            <7>4. TakesHead(s, type, n, x, t)
              BY <7>3, ElementRead
            <7>5. DecodeElement(s, type, n, j)
                    = [status |-> 0, value |-> Append(s.value, x), rest |-> t]
              BY <7>4, Zenon DEF TakesHead
            <7> QED BY <7>1, <7>3, <7>5
          <6>4. g[j + 1].status = 0 /\ g[j + 1].rest = Take(b, u)
            BY <4>1, <6>3
          <6>5. Goes(g[j + 1], j + 1, u)
            BY <5>4, <6>1, <6>4
          <6> HIDE DEF Waits, Goes
          <6> QED BY <4>1, <6>1, <6>5
        <5> QED BY <5>5, <5>7, <5>8
      <4> HIDE DEF Waits, Goes
      <4> QED BY <3>7, <4>2, <4>3
    <3>8. n \in 0..n /\ n \in S
      <4>1. \A j \in 0..n : j \in S
        <5> HIDE DEF S
        <5> QED BY <3>6, <3>7, UpTo
      <4> HIDE DEF S
      <4> QED BY <4>1
    <3>9. Waits(g[n])
      <4>1. tail[n] = <<>>
        BY <1>1, <1>2 DEF Tails
      <4>2. ASSUME NEW c \in Nat, Goes(g[n], n, c) PROVE FALSE
        <5>1. c < Len(tail[n])
          BY <4>2
        <5>2. Len(tail[n]) = 0
          BY <4>1
        <5> QED BY <5>1, <5>2
      <4> HIDE DEF Waits, Goes
      <4> QED BY <3>8, <4>2
    <3>10. DecodeLoop(d, type, n) = g[n]
      BY <3>5 DEF DecodeRuns
    <3> HIDE DEF d
    <3>11. DecodeVector(Take(e, k), type).status \in 1..(L + 1)
      BY <3>3, <3>9, <3>10
    <3> QED BY <3>1, <3>11
  <2> QED BY <2>1, <2>2
<1>17. Len(e) >= 1
  BY <1>3, <1>6, <1>7
<1> QED BY <1>7, <1>15, <1>16, <1>17

-----------------------------------------------------------------------------
(* Messages.                                                               *)

\* The byte that a cut vector counts twice (serializers.h:197).
More(kind) == IF kind.shape = "vector" THEN 1 ELSE 0

\* All that is sent is a pair or a vector: decoded whole, and asked for when cut.
LEMMA MessageReturns ==
  ASSUME NEW kind \in Pairs \union Vectors, NEW v \in ValuesOf(kind)
  PROVE  LET e == Encode(kind, v)
         IN /\ e \in Seq(Nat) /\ Len(e) >= 1
            /\ \A t \in Seq(Nat) :
                 Decode(e \o t, kind) = [status |-> 0, value |-> v, rest |-> t]
            /\ \A k \in Nat : k < Len(e) =>
                 Decode(Take(e, k), kind).status \in 1..(Len(e) - k + More(kind))
<1>1. CASE kind \in Pairs
  <2>1. /\ kind.types \in Simple \X Simple /\ kind.shape = "pair"
        /\ v \in Values(kind.types[1]) \X Values(kind.types[2])
    BY <1>1 DEF Pairs, ValuesOf
  <2>2. Encode(kind, v) = EncodePair(kind.types, v) /\ More(kind) = 0
    BY <2>1 DEF Encode, More
  <2>3. \A a : Decode(a, kind) = DecodePair(a, kind.types)
    BY <2>1 DEF Decode
  <2>4. PICK e \in Seq(Nat) :
          /\ e = EncodePair(kind.types, v) /\ Len(e) >= 1
          /\ \A t \in Seq(Nat) :
               DecodePair(e \o t, kind.types) = [status |-> 0, value |-> v, rest |-> t]
          /\ \A k \in Nat : k < Len(e) =>
               DecodePair(Take(e, k), kind.types).status \in 1..(Len(e) - k)
    BY <2>1, PairReturns
  <2>5. ASSUME NEW k \in Nat, k < Len(e)
        PROVE  Decode(Take(e, k), kind).status \in 1..(Len(e) - k + More(kind))
    <3>1. Len(e) - k + More(kind) = Len(e) - k
      BY <2>2, <2>4
    <3> QED BY <2>3, <2>4, <2>5, <3>1
  <2>6. \A t \in Seq(Nat) : Decode(e \o t, kind) = [status |-> 0, value |-> v, rest |-> t]
    BY <2>3, <2>4
  <2> QED BY <2>2, <2>4, <2>5, <2>6
<1>2. CASE kind \in Vectors
  <2>1. PICK type \in Simple : kind.types[1] = type /\ kind.shape = "vector"
    BY <1>2 DEF Vectors
  <2>2. v \in UNION {[1..n -> Values(type)] : n \in 0..MaxLength}
    BY <2>1 DEF ValuesOf
  <2>3. v \in Seq(Values(type)) /\ Len(v) < Weight[Width["uint16"]]
    <3>1. PICK n \in 0..MaxLength : v \in [1..n -> Values(type)]
      BY <2>2
    <3>2. n \in Nat /\ n < Base * Base
      BY SerializersAssumption
    <3>3. v \in Seq(Values(type)) /\ Len(v) = n
      BY <3>1, <3>2
    <3> QED BY <3>2, <3>3, WeightValues, WidthValues
  <2>4. Encode(kind, v) = EncodeVector(type, v) /\ More(kind) = 1
    BY <2>1 DEF Encode, More
  <2>5. \A a : Decode(a, kind) = DecodeVector(a, type)
    BY <2>1 DEF Decode
  <2>6. PICK e \in Seq(Nat) :
          /\ e = EncodeVector(type, v) /\ Len(e) >= 1
          /\ \A t \in Seq(Nat) :
               DecodeVector(e \o t, type) = [status |-> 0, value |-> v, rest |-> t]
          /\ \A k \in Nat : k < Len(e) =>
               DecodeVector(Take(e, k), type).status \in 1..(Len(e) - k + 1)
    BY <2>3, VectorReturns
  <2>7. \A t \in Seq(Nat) : Decode(e \o t, kind) = [status |-> 0, value |-> v, rest |-> t]
    BY <2>5, <2>6
  <2>8. \A k \in Nat : k < Len(e) =>
          Decode(Take(e, k), kind).status \in 1..(Len(e) - k + More(kind))
    BY <2>4, <2>5, <2>6
  <2> QED BY <2>4, <2>6, <2>7, <2>8
<1> QED BY <1>1, <1>2

\* A message on its way: some of the bytes of an encoded value.
OnItsWay(kind, v, have) ==
  /\ message = [kind |-> kind, value |-> v, have |-> have]
  /\ have <= Len(Encode(kind, v))

MessageIInv ==
  message = NoMessage \/
    \E kind \in Pairs \union Vectors : \E v \in ValuesOf(kind) : \E have \in Nat :
      OnItsWay(kind, v, have)

\* Send begins with no byte of the message, Arrive adds one that is left.
LEMMA MessageStep == MessageIInv /\ [SerializerNext]_serializerVars => MessageIInv'
<1> SUFFICES ASSUME MessageIInv, [SerializerNext]_serializerVars PROVE MessageIInv'
  OBVIOUS
<1>1. ASSUME NEW kind \in Pairs \union Vectors, NEW v \in ValuesOf(kind), Send(kind, v)
      PROVE  MessageIInv'
  <2>1. Encode(kind, v) \in Seq(Nat) /\ Len(Encode(kind, v)) >= 1
    BY MessageReturns
  <2>2. OnItsWay(kind, v, 0)'
    BY <1>1, <2>1 DEF Send, OnItsWay
  <2> HIDE DEF OnItsWay
  <2> QED BY <2>2 DEF MessageIInv
<1>2. CASE Arrive
  <2>1. PICK kind \in Pairs \union Vectors : \E v \in ValuesOf(kind) : \E have \in Nat :
          OnItsWay(kind, v, have)
    BY <1>2 DEF Arrive, MessageIInv
  <2>2. PICK v \in ValuesOf(kind) : \E have \in Nat : OnItsWay(kind, v, have)
    BY <2>1
  <2>3. PICK have \in Nat : OnItsWay(kind, v, have)
    BY <2>2
  <2>4. Encode(kind, v) \in Seq(Nat)
    BY MessageReturns
  <2>5. have < Len(Encode(kind, v))
    BY <1>2, <2>3 DEF Arrive, OnItsWay
  <2>6. message' = [kind |-> kind, value |-> v, have |-> have + 1]
    BY <1>2, <2>3 DEF Arrive, OnItsWay
  <2>7. OnItsWay(kind, v, have + 1)' /\ have + 1 \in Nat
    BY <2>4, <2>5, <2>6 DEF OnItsWay
  <2> HIDE DEF OnItsWay
  <2> QED BY <2>7 DEF MessageIInv
<1>3. CASE UNCHANGED serializerVars
  BY <1>3 DEF MessageIInv, OnItsWay, serializerVars
<1> QED BY <1>1, <1>2, <1>3 DEF SerializerNext

\* What the invariant says of a message: what the decoder makes of it.
LEMMA MessageFacts ==
  ASSUME MessageIInv, message # NoMessage
  PROVE  /\ Lacking = 0 => /\ Received.status = 0 /\ Received.value = message.value
                           /\ Decode(Sent \o Sent, message.kind).rest = Sent
         /\ Lacking # 0 => Received.status \in 1..(Lacking + More(message.kind))
         /\ Lacking \in Nat
<1>1. PICK kind \in Pairs \union Vectors : \E v \in ValuesOf(kind) : \E have \in Nat :
        OnItsWay(kind, v, have)
  BY DEF MessageIInv
<1>2. PICK v \in ValuesOf(kind) : \E have \in Nat : OnItsWay(kind, v, have)
  BY <1>1
<1>3. PICK have \in Nat : OnItsWay(kind, v, have)
  BY <1>2
<1>4. message.kind = kind /\ message.value = v /\ message.have = have
  BY <1>3 DEF OnItsWay
<1>5. PICK e \in Seq(Nat) :
        /\ e = Encode(kind, v)
        /\ \A t \in Seq(Nat) : Decode(e \o t, kind) = [status |-> 0, value |-> v, rest |-> t]
        /\ \A k \in Nat : k < Len(e) =>
             Decode(Take(e, k), kind).status \in 1..(Len(e) - k + More(kind))
  BY MessageReturns
<1>6. Sent = e /\ Lacking = Len(e) - have /\ Received = Decode(Take(e, have), kind)
  BY <1>4, <1>5 DEF Sent, Lacking, Received
<1>7. have <= Len(e) /\ Len(e) \in Nat
  BY <1>3, <1>5 DEF OnItsWay
<1>8. CASE have = Len(e)
  <2>1. e \o <<>> = e /\ <<>> \in Seq(Nat) /\ Lacking = 0
    BY <1>6, <1>7, <1>8
  <2>2. Take(e, have) = e
    BY <1>8, TakeAll
  <2>3. Received = [status |-> 0, value |-> v, rest |-> <<>>]
    BY <1>5, <1>6, <2>1, <2>2
  <2>4. Decode(e \o e, kind) = [status |-> 0, value |-> v, rest |-> e]
    BY <1>5
  <2> QED BY <1>4, <1>6, <2>1, <2>3, <2>4
<1>9. CASE have < Len(e)
  <2>1. Received.status \in 1..(Len(e) - have + More(kind))
    BY <1>5, <1>6, <1>9
  <2>2. Lacking \in Nat /\ Lacking # 0
    BY <1>6, <1>7, <1>9
  <2> QED BY <1>4, <1>6, <2>1, <2>2
<1> QED BY <1>7, <1>8, <1>9

\* Only messages that are on their way are received.
LEMMA MessageInvariance == SerializerSpec => []MessageIInv
<1>1. SerializerInit => MessageIInv
  BY DEF SerializerInit, MessageIInv
<1> QED BY <1>1, MessageStep, PTL DEF SerializerSpec

\* Every value comes back as it was encoded, out of exactly its own bytes, and
\* never out of a beginning of them.
THEOREM ValuesReturn == SerializerSpec => []RoundTrip
<1>1. MessageIInv => RoundTrip
  <2> SUFFICES ASSUME MessageIInv, message # NoMessage
               PROVE  IF Lacking = 0
                      THEN /\ Received.status = 0 /\ Received.value = message.value
                           /\ Decode(Sent \o Sent, message.kind).rest = Sent
                      ELSE Received.status > 0
    BY DEF RoundTrip
  <2>1. Lacking # 0 => Received.status > 0
    <3>1. Lacking # 0 => Received.status \in 1..(Lacking + More(message.kind))
      BY MessageFacts
    <3>2. Lacking + More(message.kind) \in Int
      BY MessageFacts DEF More
    <3> QED BY <3>1, <3>2
  <2> QED BY <2>1, MessageFacts
<1> QED BY <1>1, MessageInvariance, PTL

\* What a decoder asks for is never more than is missing of a pair, and for a
\* vector at most one byte more: the promise of serializers.h:57-59 that
\* HintsFit states is broken by one byte and by vectors only.
THEOREM HintsBounded ==
  SerializerSpec =>
    [](message # NoMessage /\ Lacking > 0 =>
         Received.status <= Lacking + More(message.kind))
<1>1. MessageIInv =>
        (message # NoMessage /\ Lacking > 0 =>
           Received.status <= Lacking + More(message.kind))
  <2> SUFFICES ASSUME MessageIInv, message # NoMessage, Lacking > 0
               PROVE  Received.status <= Lacking + More(message.kind)
    OBVIOUS
  <2>1. /\ Lacking \in Nat /\ More(message.kind) \in Nat
        /\ Received.status \in 1..(Lacking + More(message.kind))
    BY MessageFacts DEF More
  <2> QED BY <2>1
<1> QED BY <1>1, MessageInvariance, PTL

-----------------------------------------------------------------------------
(* The arithmetic of the handshake.                                        *)

\* A remainder stays what it is when so many times the divisor are added.
LEMMA RemainderOfSum ==
  ASSUME NEW n \in Nat \ {0}, NEW q \in Nat, NEW r \in Nat
  PROVE  (n * q + r) % n = r % n
<1> DEFINE s == n * q + r
           a == s \div n  b == r \div n
           c == s % n     d == r % n
<1>1. s \in Nat /\ n * q \in Nat
  OBVIOUS
<1>2. s = n * a + c /\ c \in 0..(n - 1) /\ a \in Nat
  <2> HIDE DEF s
  <2> QED BY <1>1, Division
<1>3. r = n * b + d /\ d \in 0..(n - 1) /\ b \in Nat
  BY Division
<1>4. n * q + r = s
  OBVIOUS
<1> HIDE DEF a, b, c, d, s
<1>5. n * (q + b) = n * q + n * b /\ q + b \in Nat
  BY <1>3
<1>6. n * a + c = n * (q + b) + d
  BY <1>1, <1>2, <1>3, <1>4, <1>5
<1>7. a = q + b
  BY <1>2, <1>3, <1>5, <1>6, OneQuotient
<1>8. c = d
  <2>1. n * a = n * (q + b)
    BY <1>7
  <2>2. PICK m \in Nat : m = n * a
    BY <1>2
  <2> QED BY <1>2, <1>3, <1>6, <2>1, <2>2
<1> QED BY <1>8 DEF c, d, s

\* A factor may be reduced first.
LEMMA RemainderOfProduct ==
  ASSUME NEW n \in Nat \ {0}, NEW x \in Nat, NEW y \in Nat
  PROVE  ((x % n) * y) % n = (x * y) % n /\ (y * (x % n)) % n = (x * y) % n
<1> DEFINE q == x \div n  r == x % n
<1>1. x = n * q + r /\ r \in 0..(n - 1) /\ q \in Nat
  BY Division
<1> HIDE DEF q, r
<1>2. r \in Nat /\ q * y \in Nat /\ r * y \in Nat /\ y * r = r * y
  BY <1>1
<1>3. (n * q + r) * y = (n * q) * y + r * y
  BY <1>1, <1>2
<1>4. (n * q) * y = n * (q * y)
  BY <1>1
<1>5. x * y = n * (q * y) + r * y
  BY <1>1, <1>3, <1>4
<1>6. (n * (q * y) + r * y) % n = (r * y) % n
  BY <1>2, RemainderOfSum
<1> QED BY <1>2, <1>5, <1>6 DEF r

\* What was added modulo n can be taken away again.
LEMMA TakenAway ==
  ASSUME NEW n \in Nat \ {0}, NEW x \in 0..(n - 1), NEW y \in 0..(n - 1)
  PROVE  ModSub(ModAdd(x, y, n), y, n) = x
<1>1. x + y < n => (x + y) % n = x + y
  OBVIOUS
<1>2. x + y >= n => (x + y) % n = x + y - n
  OBVIOUS
<1>3. x % n = x
  OBVIOUS
<1>4. (x - n) % n = x
  OBVIOUS
<1>5. CASE x + y < n
  BY <1>1, <1>3, <1>5 DEF ModSub, ModAdd
<1>6. CASE x + y >= n
  <2>1. ((x + y) % n) - y = x - n
    BY <1>2, <1>6
  <2> QED BY <1>4, <2>1 DEF ModSub, ModAdd
<1> QED BY <1>5, <1>6

\* The turns of ModExp are the values of a function.
PowerRuns(h, base, exp, n) ==
  /\ h[0] = 1 % n /\ \A k \in 0..(exp - 1) : h[k + 1] = (h[k] * base) % n
  /\ ModExp(base, exp, n) = h[exp]

\* The turns of ModExp.
LEMMA PowerTurns ==
  ASSUME NEW base \in Nat, NEW exp \in Nat, NEW n \in Nat \ {0}
  PROVE  \E h \in [0..exp -> Nat] : PowerRuns(h, base, exp, n)
<1> DEFINE q == [i \in 1..exp |-> i]
           Turns(h) == h = [s \in SUBSET (1..exp) |->
                              IF s = {} THEN 1 % n ELSE (h[s \ {Max(s)}] * base) % n]
           iter == CHOOSE h : Turns(h)
           f == [i \in Nat |-> [r \in Nat |-> (r * base) % n]]
<1>0. \A r \in Nat : (r * base) % n \in Nat
  <2>1. \A r \in Nat : r * base \in Nat
    OBVIOUS
  <2> QED BY <2>1, Division
<1>1. ModExp(base, exp, n) = iter[1..exp]
  BY DEF ModExp, FoldLeft, MapThenFoldSet
<1>2. \E h : Turns(h)
  <2>1. f \in [Nat -> [Nat -> Nat]] /\ 1 % n \in Nat
    BY <1>0, Division
  <2>2. PICK h \in [SUBSET (1..exp) -> Nat] : FromLast(h, f, 1 % n, exp)
    <3> HIDE DEF f
    <3> QED BY <2>1, Iterates
  <2>3. ASSUME NEW s \in SUBSET (1..exp)
        PROVE  h[s] = IF s = {} THEN 1 % n ELSE (h[s \ {Max(s)}] * base) % n
    <3>1. CASE s = {}
      BY <2>2, <3>1 DEF FromLast
    <3>2. CASE s # {}
      <4>1. h[s \ {Max(s)}] \in Nat
        OBVIOUS
      <4>2. Max(s) \in s /\ Max(s) \in 1..exp /\ Max(s) \in Nat
        BY <3>2, MaxIsOne
      <4> QED BY <2>2, <3>2, <4>1, <4>2 DEF FromLast
    <3> QED BY <3>1, <3>2
  <2>4. Turns(h)
    BY <2>3
  <2> QED BY <2>4
<1>3. Turns(iter)
  BY <1>2
<1> HIDE DEF iter
<1> DEFINE g == [k \in 0..exp |-> iter[1..k]]
<1>4. g[0] = 1 % n
  <2>1. 1..0 = {}
    OBVIOUS
  <2> QED BY <1>3, <2>1
<1>5. ASSUME NEW k \in 0..(exp - 1) PROVE g[k + 1] = (g[k] * base) % n
  <2>1. 1..(k + 1) \in SUBSET (1..exp) /\ k \in 0..exp /\ k + 1 \in 0..exp /\ k \in Nat
    OBVIOUS
  <2>2. /\ Max(1..(k + 1)) = k + 1
        /\ 1..(k + 1) # {} /\ (1..(k + 1)) \ {k + 1} = 1..k
    BY <2>1, LastOfInterval
  <2> QED BY <1>3, <2>1, <2>2
<1>6. g[exp] = iter[1..exp]
  OBVIOUS
<1> DEFINE S == {k \in 0..exp : g[k] \in Nat}
<1> HIDE DEF g
<1>7. \A k \in 0..exp : k \in S
  <2>1. 0 \in S
    BY <1>4, Division
  <2>2. ASSUME NEW k \in 0..(exp - 1), k \in S PROVE k + 1 \in S
    <3>1. PICK r \in Nat : r = g[k]
      BY <2>2
    <3>2. g[k + 1] = (r * base) % n
      BY <1>5, <3>1
    <3>3. g[k + 1] \in Nat
      BY <1>0, <3>2
    <3> QED BY <3>3
  <2> HIDE DEF S
  <2> QED BY <2>1, <2>2, UpTo
<1>8. g \in [0..exp -> Nat]
  <2>1. \A k \in 0..exp : g[k] \in Nat
    BY <1>7
  <2> QED BY <2>1 DEF g
<1>9. PowerRuns(g, base, exp, n)
  BY <1>1, <1>4, <1>5, <1>6 DEF PowerRuns
<1> QED BY <1>8, <1>9

\* ModExp by its last turn.
LEMMA NextPower ==
  ASSUME NEW base \in Nat, NEW exp \in Nat, NEW n \in Nat \ {0}
  PROVE  /\ ModExp(base, 0, n) = 1 % n
         /\ ModExp(base, exp, n) \in Nat
         /\ ModExp(base, exp + 1, n) = (ModExp(base, exp, n) * base) % n
<1>1. ModExp(base, 0, n) = 1 % n
  <2>1. PICK h \in [0..0 -> Nat] : PowerRuns(h, base, 0, n)
    BY PowerTurns
  <2> QED BY <2>1 DEF PowerRuns
<1>2. PICK h \in [0..exp -> Nat] : PowerRuns(h, base, exp, n)
  BY PowerTurns
<1>3. exp + 1 \in Nat /\ 0..exp \subseteq 0..(exp + 1)
  OBVIOUS
<1>4. PICK g \in [0..(exp + 1) -> Nat] : PowerRuns(g, base, exp + 1, n)
  BY <1>3, PowerTurns
<1> DEFINE S == {k \in 0..exp : g[k] = h[k]}
<1>5. \A k \in 0..exp : k \in S
  <2>1. 0 \in S
    BY <1>2, <1>4 DEF PowerRuns
  <2>2. ASSUME NEW k \in 0..(exp - 1), k \in S PROVE k + 1 \in S
    <3>1. k \in 0..((exp + 1) - 1) /\ k + 1 \in 0..exp /\ g[k] = h[k]
      BY <2>2
    <3> QED BY <1>2, <1>4, <3>1 DEF PowerRuns
  <2> HIDE DEF S
  <2> QED BY <2>1, <2>2, UpTo
<1>6. exp \in 0..exp /\ exp \in 0..((exp + 1) - 1)
  OBVIOUS
<1> QED BY <1>1, <1>2, <1>4, <1>5, <1>6 DEF PowerRuns

\* A power is a remainder.
LEMMA PowerIsRemainder ==
  ASSUME NEW base \in Nat, NEW exp \in Nat, NEW n \in Nat \ {0}
  PROVE  ModExp(base, exp, n) \in 0..(n - 1)
<1>1. CASE exp = 0
  BY <1>1, NextPower, Division
<1>2. CASE exp # 0
  <2>1. PICK e \in Nat : exp = e + 1
    <3>1. exp - 1 \in Nat /\ exp = (exp - 1) + 1
      BY <1>2
    <3> QED BY <3>1
  <2>2. PICK p \in Nat : p = ModExp(base, e, n)
    BY NextPower
  <2>3. p * base \in Nat
    OBVIOUS
  <2> QED BY <2>1, <2>2, <2>3, NextPower, Division
<1> QED BY <1>1, <1>2

\* The laws of powers.
LEMMA PowerOfSum ==
  ASSUME NEW base \in Nat, NEW e \in Nat, NEW f \in Nat, NEW n \in Nat \ {0}
  PROVE  ModExp(base, e + f, n) = (ModExp(base, e, n) * ModExp(base, f, n)) % n
<1> DEFINE P(i) == ModExp(base, i, n)
           S == {i \in Nat : P(e + i) = (P(e) * P(i)) % n}
<1>1. \A i \in Nat : P(i) \in Nat /\ P(i) \in 0..(n - 1) /\ P(i + 1) = (P(i) * base) % n
  BY NextPower, PowerIsRemainder
<1>2. P(0) = 1 % n
  BY NextPower
<1> HIDE DEF P
<1>3. 0 \in S
  <2>1. PICK p \in 0..(n - 1) : p = P(e)
    BY <1>1
  <2>2. (p * (1 % n)) % n = (1 * p) % n
    BY RemainderOfProduct
  <2>3. 1 * p = p /\ p % n = p
    OBVIOUS
  <2>4. e + 0 = e
    OBVIOUS
  <2> QED BY <1>2, <2>1, <2>2, <2>3, <2>4
<1>4. ASSUME NEW i \in Nat, i \in S PROVE i + 1 \in S
  <2>1. PICK p \in Nat : p = P(e)
    BY <1>1
  <2>2. PICK r \in Nat : r = P(i)
    BY <1>1
  <2>3. e + i \in Nat /\ e + (i + 1) = (e + i) + 1 /\ i + 1 \in Nat
    OBVIOUS
  <2>4. P(e + i) = (p * r) % n
    BY <1>4, <2>1, <2>2
  <2>5. P(e + (i + 1)) = (((p * r) % n) * base) % n
    BY <1>1, <2>3, <2>4
  <2>6. (((p * r) % n) * base) % n = ((p * r) * base) % n
    <3>1. p * r \in Nat
      OBVIOUS
    <3> QED BY <3>1, RemainderOfProduct
  <2>7. (p * ((r * base) % n)) % n = ((r * base) * p) % n
    <3>1. r * base \in Nat
      OBVIOUS
    <3> QED BY <3>1, RemainderOfProduct
  <2>8. (p * r) * base = (r * base) * p
    OBVIOUS
  <2>9. P(i + 1) = (r * base) % n
    BY <1>1, <2>2
  <2> QED BY <2>1, <2>3, <2>5, <2>6, <2>7, <2>8, <2>9
<1>5. \A i \in Nat : i \in S
  <2> HIDE DEF S
  <2> QED BY <1>3, <1>4, NatSet
<1>6. P(e + f) = (P(e) * P(f)) % n
  BY <1>5
<1> QED BY <1>6 DEF P

\* A power of a power is one of the product of the exponents.
LEMMA PowerOfPower ==
  ASSUME NEW base \in Nat, NEW e \in Nat, NEW f \in Nat, NEW n \in Nat \ {0}
  PROVE  ModExp(ModExp(base, e, n), f, n) = ModExp(base, e * f, n)
<1> DEFINE P(i) == ModExp(base, i, n)
           Q(i) == ModExp(P(e), i, n)
           S == {i \in Nat : Q(i) = P(e * i)}
<1>1. P(e) \in Nat /\ P(0) = 1 % n
  BY NextPower
<1>2. Q(0) = 1 % n /\ \A i \in Nat : Q(i + 1) = (Q(i) * P(e)) % n
  <2> HIDE DEF P
  <2> QED BY <1>1, NextPower
<1>3. \A i \in Nat : P(i + e) = (P(i) * P(e)) % n
  BY PowerOfSum
<1> HIDE DEF P, Q
<1>4. 0 \in S
  <2>1. e * 0 = 0
    OBVIOUS
  <2> QED BY <1>1, <1>2, <2>1
<1>5. ASSUME NEW i \in Nat, i \in S PROVE i + 1 \in S
  <2>1. e * i \in Nat /\ e * (i + 1) = e * i + e /\ i + 1 \in Nat
    OBVIOUS
  <2>2. Q(i) = P(e * i)
    BY <1>5
  <2> QED BY <1>2, <1>3, <2>1, <2>2
<1>6. \A i \in Nat : i \in S
  <2> HIDE DEF S
  <2> QED BY <1>4, <1>5, NatSet
<1>7. Q(f) = P(e * f)
  BY <1>6
<1> QED BY <1>7 DEF P, Q

\* What a prime does not divide has no power that it divides.
LEMMA PowerIsNotZero ==
  ASSUME NEW n \in Nat, IsPrime(n), NEW base \in 1..(n - 1), NEW exp \in Nat
  PROVE  ModExp(base, exp, n) \in 1..(n - 1)
<1> DEFINE P(i) == ModExp(base, i, n)
           S == {i \in Nat : P(i) \in 1..(n - 1)}
<1>1. n \in Nat \ {0} /\ n > 1 /\ base \in Nat
  BY DEF IsPrime
<1>2. P(0) = 1 % n /\ \A i \in Nat : P(i + 1) = (P(i) * base) % n
  BY <1>1, NextPower
<1> HIDE DEF P
<1>3. 0 \in S
  <2>1. 1 % n = 1
    BY <1>1
  <2> QED BY <1>1, <1>2, <2>1
<1>4. ASSUME NEW i \in Nat, i \in S PROVE i + 1 \in S
  <2>1. PICK p \in 1..(n - 1) : p = P(i)
    BY <1>4
  <2>2. (p * base) % n # 0
    BY DEF IsPrime
  <2>3. p * base \in Nat
    BY <1>1
  <2>4. (p * base) % n \in 0..(n - 1)
    BY <1>1, <2>3, Division
  <2>5. (p * base) % n \in 1..(n - 1)
    BY <1>1, <2>2, <2>4
  <2> QED BY <1>2, <2>1, <2>5
<1>5. \A i \in Nat : i \in S
  <2> HIDE DEF S
  <2> QED BY <1>3, <1>4, NatSet
<1>6. P(exp) \in 1..(n - 1)
  BY <1>5
<1> QED BY <1>6 DEF P

-----------------------------------------------------------------------------
(* Both sides' keys.                                                       *)

\* What is known of the prime and the generator of an index.
Group(n, g) == n \in Nat /\ IsPrime(n) /\ g \in 1..(n - 1)

\* What an index that both sides take for valid stands for.
LEMMA ValidGroup ==
  ASSUME NEW index, ValidIndex(index)
  PROVE  Group(GetPrime(index), GetGenerator(index))
BY PrimesAssumption DEF ValidIndex, GetPrime, GetGenerator, Group

\* What a client that has drawn a and a server that has drawn b compute, x being
\* the digest of the password, u that of the public keys and k the multiplier.
ServerNumber(g, n, k, v, b) == ModAdd(ModExp(g, b, n), ModMul(k, v, n), n)
ClientSecret(g, n, k, v, x, u, a, B) ==
  ModExp(ModSub(B, ModMul(k, v, n), n), ModAdd(a, ModMul(u, x, n), n), n)
ServerSecret(n, v, u, A, b) == ModExp(ModMul(A, ModExp(v, u, n), n), b, n)

\* Both have g ^ (b * (a + u * x)).
LEMMA SecretsAgree ==
  ASSUME NEW n, NEW g, Group(n, g), NEW k \in Nat, NEW x \in Nat, NEW u \in Nat,
         NEW a \in Nat, NEW b \in Nat, a + u * x < n, NEW v, v = ModExp(g, x, n)
  PROVE  ClientSecret(g, n, k, v, x, u, a, ServerNumber(g, n, k, v, b))
           = ServerSecret(n, v, u, ModExp(g, a, n), b)
<1>1. n \in Nat \ {0} /\ g \in Nat
  BY DEF Group, IsPrime
<1> DEFINE P(i) == ModExp(g, i, n)
<1>2. \A i \in Nat : P(i) \in 0..(n - 1) /\ P(i) \in Nat
  <2>1. \A i \in Nat : P(i) \in 0..(n - 1)
    BY <1>1, PowerIsRemainder
  <2> HIDE DEF P
  <2> QED BY <1>1, <2>1
<1>3. ModMul(k, v, n) \in 0..(n - 1)
  <2>1. v \in Nat
    BY <1>2
  <2>2. k * v \in Nat
    BY <2>1
  <2> QED BY <1>1, <2>2, Division DEF ModMul
<1>4. ModSub(ServerNumber(g, n, k, v, b), ModMul(k, v, n), n) = P(b)
  BY <1>1, <1>2, <1>3, TakenAway DEF ServerNumber
<1>5. ModAdd(a, ModMul(u, x, n), n) = a + u * x /\ a + u * x \in Nat /\ u * x \in Nat
  <2>1. PICK p \in Nat : p = u * x
    OBVIOUS
  <2>2. p % n = p
    BY <1>1, <2>1
  <2>3. (a + p) % n = a + p
    BY <1>1, <2>1
  <2> QED BY <2>1, <2>2, <2>3 DEF ModAdd, ModMul
<1>6. ClientSecret(g, n, k, v, x, u, a, ServerNumber(g, n, k, v, b)) = P(b * (a + u * x))
  <2>1. PICK e \in Nat : e = a + u * x
    BY <1>5
  <2>2. ModExp(P(b), e, n) = P(b * e)
    BY <1>1, PowerOfPower
  <2> QED BY <1>4, <1>5, <2>1, <2>2 DEF ClientSecret
<1>7. ModMul(P(a), ModExp(v, u, n), n) = P(a + u * x)
  <2>1. ModExp(v, u, n) = P(x * u)
    BY <1>1, PowerOfPower
  <2>2. PICK e \in Nat : e = u * x /\ e = x * u
    OBVIOUS
  <2>3. P(a + e) = (P(a) * P(e)) % n
    BY <1>1, PowerOfSum
  <2> QED BY <2>1, <2>2, <2>3 DEF ModMul
<1>8. ServerSecret(n, v, u, P(a), b) = P((a + u * x) * b)
  <2>1. PICK e \in Nat : e = a + u * x
    BY <1>5
  <2>2. ModExp(P(e), b, n) = P(e * b)
    BY <1>1, PowerOfPower
  <2> QED BY <1>7, <2>1, <2>2 DEF ServerSecret
<1>9. b * (a + u * x) = (a + u * x) * b
  <2>1. PICK e \in Nat : e = a + u * x
    BY <1>5
  <2>2. b * e = e * b
    OBVIOUS
  <2> QED BY <2>1, <2>2
<1> HIDE DEF P
<1>10. ClientSecret(g, n, k, v, x, u, a, ServerNumber(g, n, k, v, b))
         = ServerSecret(n, v, u, P(a), b)
  BY <1>6, <1>8, <1>9
<1> QED BY <1>10 DEF P

\* No public key that the prime does not divide makes a secret of 0.
LEMMA SecretIsNotZero ==
  ASSUME NEW n, NEW g, Group(n, g), NEW x \in Nat, NEW u \in Nat, NEW b \in Nat,
         NEW A \in Nat, ~IsDivisibleBy(A, n), NEW v, v = ModExp(g, x, n)
  PROVE  ServerSecret(n, v, u, A, b) # 0
<1>1. n \in Nat /\ IsPrime(n) /\ n \in Nat \ {0} /\ g \in 1..(n - 1)
  BY DEF Group, IsPrime
<1>2. v \in 1..(n - 1)
  BY <1>1, PowerIsNotZero
<1>3. PICK w \in 1..(n - 1) : w = ModExp(v, u, n)
  BY <1>1, <1>2, PowerIsNotZero
<1>4. PICK r \in 1..(n - 1) : r = A % n
  <2>1. A % n \in 0..(n - 1) /\ A % n # 0
    BY <1>1, Division DEF IsDivisibleBy
  <2> QED BY <1>1, <2>1
<1>5. (A * w) % n = (r * w) % n
  <2>1. w \in Nat
    BY <1>1
  <2>2. ((A % n) * w) % n = (A * w) % n
    BY <1>1, <2>1, RemainderOfProduct
  <2> QED BY <1>4, <2>2
<1>6. (r * w) % n # 0
  BY <1>1 DEF IsPrime
<1>7. (r * w) % n \in 0..(n - 1)
  <2>1. r * w \in Nat
    BY <1>1
  <2> QED BY <1>1, <2>1, Division
<1>8. PICK m \in 1..(n - 1) : m = ModMul(A, w, n)
  BY <1>1, <1>5, <1>6, <1>7 DEF ModMul
<1>9. ModExp(m, b, n) \in 1..(n - 1)
  BY <1>1, PowerIsNotZero
<1> QED BY <1>1, <1>3, <1>8, <1>9 DEF ServerSecret

-----------------------------------------------------------------------------
(* The exchange.                                                           *)

Indexes == 0..(Len(Primes) - 1)

\* The database has what AddSecret has made of a password.
IsStored(index, salt, password) ==
  stored = [secret |-> ToSecret(FromPassword(index, salt, password)), password |-> password]
SecretKept ==
  stored # NoSecret =>
    \E index \in Indexes, salt \in Salts, password \in Passwords :
      IsStored(index, salt, password)

\* A side goes by the prime and the salt of that secret.
GoesBy(side) ==
  /\ stored # NoSecret
  /\ side.index = stored.secret.index
  /\ side.salt = stored.secret.salt

IsSide(s) ==
  s = [stage |-> s.stage, index |-> s.index, salt |-> s.salt, secret |-> s.secret,
       A |-> s.A, B |-> s.B, key |-> s.key, password |-> s.password]

HelloKept ==
  toClient.kind = "hello" =>
    /\ stored # NoSecret
    /\ toClient.index = stored.secret.index /\ toClient.salt = stored.secret.salt

\* What a server takes for a public key.
IsPublic(A) ==
  A \in Forged \/ (stored # NoSecret /\ A \in 0..(GetPrime(stored.secret.index) - 1))
PublicKept == toServer.kind = "key" => IsPublic(toServer.number)

ClientKept ==
  /\ IsSide(client)
  /\ client.stage \in {"key", "done"} =>
       /\ GoesBy(client)
       /\ client.secret \in Randoms
       /\ client.A = ModExp(GetGenerator(client.index), client.secret, GetPrime(client.index))
  /\ client.stage = "done" =>
       /\ toClient.kind = "key"
       /\ client.B = toClient.number
       /\ client.password \in Passwords
       /\ client.key = SetupKey(ClientPrivateKey(client, client.B, client.password),
                                RecvSalt(toClient))

ServerKept ==
  /\ IsSide(server)
  /\ server.stage \in {"hello", "done"} => GoesBy(server)
  /\ toClient.kind = "key" => server.stage = "done"
  /\ server.stage = "done" =>
       /\ server.secret \in Randoms
       /\ IsPublic(server.A) /\ ~IsDivisibleBy(server.A, GetPrime(server.index))
       /\ server.B = FillServerPublicKey(server.index, stored.secret.v, server.secret)
       /\ \E salt \in KeySalts :
            /\ toClient = SendSalt(server.B, salt)
            /\ server.key = SetupKey(ServerPrivateKey(server.index, stored.secret.v, server.A,
                                                      server.B, server.secret), salt)

SrpInv == SecretKept /\ HelloKept /\ PublicKept /\ ClientKept /\ ServerKept

\* What is known of a secret in the database.
LEMMA StoredSecret ==
  ASSUME NEW index \in Indexes, NEW salt \in Salts, NEW password \in Passwords,
         IsStored(index, salt, password)
  PROVE  /\ stored.secret.index = index /\ stored.secret.salt = salt
         /\ stored.password = password
         /\ ValidIndex(index)
         /\ CalculateX(salt, password) \in 0..MaxDigest
         /\ stored.secret.v = ModExp(GetGenerator(index), CalculateX(salt, password),
                                     GetPrime(index))
<1>1. ValidIndex(index)
  BY PrimesAssumption DEF ValidIndex, Indexes
<1>2. CalculateX(salt, password) \in 0..MaxDigest
  BY DigestsAssumption DEF CalculateX
<1> QED BY <1>1, <1>2 DEF IsStored, ToSecret, FromPassword

\* The secret that the server computes, and the client with the same public keys
\* and the password the secret is made of.
LEMMA KeysOfSecret ==
  ASSUME NEW index \in Indexes, NEW salt \in Salts, NEW password \in Passwords,
         IsStored(index, salt, password),
         NEW b \in Randoms, NEW A, IsPublic(A), ~IsDivisibleBy(A, GetPrime(index)),
         NEW B, B = FillServerPublicKey(index, stored.secret.v, b)
  PROVE  /\ ServerPrivateKey(index, stored.secret.v, A, B, b) # 0
         /\ \A side : /\ side.index = index /\ side.salt = salt /\ side.A = A
                      /\ side.secret \in Randoms
                      /\ A = ModExp(GetGenerator(index), side.secret, GetPrime(index))
                      => ClientPrivateKey(side, B, password)
                           = ServerPrivateKey(index, stored.secret.v, A, B, b)
<1> DEFINE n == GetPrime(index)
           g == GetGenerator(index)
           k == CalculateK(index)
           x == CalculateX(salt, password)
           v == stored.secret.v
           u == CalculateU(A, B)
<1>1. /\ ValidIndex(index) /\ x \in 0..MaxDigest /\ v = ModExp(g, x, n)
      /\ stored.secret.index = index
  BY StoredSecret
<1>2. Group(n, g)
  BY <1>1, ValidGroup
<1>3. n \in Nat \ {0} /\ g \in Nat /\ index + 1 \in DOMAIN Primes /\ n = Primes[index + 1][1]
  BY <1>1, <1>2 DEF Group, IsPrime, ValidIndex, GetPrime
<1>4. b \in Nat /\ MaxDigest \in Nat /\ x \in Nat /\ k \in Nat
  BY <1>1, <1>3, NumbersAssumption, DigestsAssumption DEF CalculateK
<1>5. A \in Nat /\ A \in Forged \union 0..(n - 1)
  <2>1. A \in Forged \/ A \in 0..(n - 1)
    BY <1>1 DEF IsPublic
  <2>2. Forged \subseteq Nat
    BY NumbersAssumption
  <2> HIDE DEF n
  <2>3. n \in Nat
    BY <1>3
  <2>4. \A m \in 0..(n - 1) : m \in Nat
    BY <2>3
  <2>5. A \in Nat
    BY <2>1, <2>2, <2>4, Zenon
  <2> QED BY <2>1, <2>5
<1>6. B = ServerNumber(g, n, k, v, b)
  BY DEF FillServerPublicKey, ServerNumber
<1> HIDE DEF n, g, k, x, v
<1>7. B \in 0..(n - 1)
  <2>1. v \in Nat
    BY <1>1, <1>3, <1>4, NextPower
  <2>2. k * v \in Nat
    BY <1>4, <2>1
  <2>3. PICK p \in Nat : p = ModMul(k, v, n)
    <3>1. PICK m \in Nat : m = k * v
      BY <2>2
    <3>2. m % n \in Nat
      BY <1>3, Division
    <3> QED BY <3>1, <3>2 DEF ModMul
  <2>4. PICK q \in Nat : q = ModExp(g, b, n)
    BY <1>3, <1>4, NextPower
  <2>5. q + p \in Nat
    OBVIOUS
  <2> QED BY <1>3, <1>6, <2>3, <2>4, <2>5, Division DEF ServerNumber, ModAdd
<1>8. u \in 0..MaxDigest /\ u \in Nat
  BY <1>3, <1>4, <1>5, <1>7, DigestsAssumption DEF CalculateU
<1>9. ServerPrivateKey(index, v, A, B, b) = ServerSecret(n, v, u, A, b)
  BY DEF ServerPrivateKey, ServerSecret, n
<1>10. ServerPrivateKey(index, v, A, B, b) # 0
  <2> HIDE DEF u
  <2>1. ~IsDivisibleBy(A, n)
    BY DEF n
  <2> QED BY <1>1, <1>2, <1>4, <1>5, <1>8, <1>9, <2>1, SecretIsNotZero
<1>11. ASSUME NEW side, side.index = index, side.salt = salt, side.A = A,
              side.secret \in Randoms, A = ModExp(g, side.secret, n)
       PROVE  ClientPrivateKey(side, B, password) = ServerPrivateKey(index, v, A, B, b)
  <2>1. PICK a \in Randoms : a = side.secret
    BY <1>11
  <2>2. FromPassword(index, salt, password).x = x /\ FromPassword(index, salt, password).v = v
    BY <1>1 DEF FromPassword, x, v, g, n
  <2>3. ClientPrivateKey(side, B, password) = ClientSecret(g, n, k, v, x, u, a, B)
    BY <1>11, <2>1, <2>2 DEF ClientPrivateKey, ClientSecret, n, k
  <2>4. a \in Nat /\ a + u * x < n
    <3>1. a + MaxDigest * MaxDigest < n /\ a \in Nat
      BY <1>3, NumbersAssumption
    <3> HIDE DEF u
    <3>2. u * x <= MaxDigest * MaxDigest
      <4>1. u * x <= u * MaxDigest
        BY <1>1, <1>4, <1>8
      <4>2. u * MaxDigest <= MaxDigest * MaxDigest
        BY <1>4, <1>8
      <4>3. u * x \in Nat /\ u * MaxDigest \in Nat /\ MaxDigest * MaxDigest \in Nat
        BY <1>4, <1>8
      <4> QED BY <4>1, <4>2, <4>3
    <3>3. u * x \in Nat /\ MaxDigest * MaxDigest \in Nat
      BY <1>4, <1>8
    <3> QED BY <1>3, <3>1, <3>2, <3>3
  <2> HIDE DEF u
  <2>5. ClientSecret(g, n, k, v, x, u, a, ServerNumber(g, n, k, v, b))
          = ServerSecret(n, v, u, ModExp(g, a, n), b)
    BY <1>1, <1>2, <1>4, <1>8, <2>4, SecretsAgree
  <2> QED BY <1>6, <1>9, <1>11, <2>1, <2>3, <2>5
<1> QED BY <1>10, <1>11 DEF v, n, g

\* The invariant has the property.
LEMMA InvSharedKey == SrpInv => SharedKey
<1> SUFFICES ASSUME SrpInv, server.stage = "done" PROVE SharedKey
  BY DEF SharedKey
<1>1. /\ server.index = stored.secret.index /\ server.salt = stored.secret.salt
      /\ server.secret \in Randoms /\ stored # NoSecret
      /\ IsPublic(server.A) /\ ~IsDivisibleBy(server.A, GetPrime(server.index))
      /\ server.B = FillServerPublicKey(server.index, stored.secret.v, server.secret)
  BY DEF SrpInv, ServerKept, GoesBy
<1>2. PICK index \in Indexes, salt \in Salts, password \in Passwords :
        IsStored(index, salt, password)
  BY <1>1 DEF SrpInv, SecretKept
<1>3. /\ server.index = index /\ server.salt = salt /\ stored.password = password
      /\ stored.secret.index = index /\ stored.secret.salt = salt
  BY <1>1, <1>2, StoredSecret
<1> DEFINE v == stored.secret.v
           K == ServerPrivateKey(index, v, server.A, server.B, server.secret)
<1>4. PICK A : A = server.A
  OBVIOUS
<1>5. PICK B : B = server.B
  OBVIOUS
<1>6. PICK b \in Randoms : b = server.secret
  BY <1>1
<1>7. /\ K # 0
      /\ \A side : /\ side.index = index /\ side.salt = salt /\ side.A = A
                   /\ side.secret \in Randoms
                   /\ A = ModExp(GetGenerator(index), side.secret, GetPrime(index))
                   => ClientPrivateKey(side, B, password) = K
  BY <1>1, <1>2, <1>3, <1>4, <1>5, <1>6, KeysOfSecret
<1>8. PICK r \in KeySalts : /\ toClient = SendSalt(server.B, r)
                            /\ server.key = SetupKey(K, r)
  BY <1>3 DEF SrpInv, ServerKept
<1> HIDE DEF K
<1>9. ASSUME NEW s \in KeySalts PROVE server.key # SetupKey(0, s)
  BY <1>7, <1>8 DEF SetupKey, ComputeKey
<1>10. ASSUME client.stage = "done", client.A = server.A, client.B = server.B,
              client.password = stored.password
       PROVE  client.key = server.key
  <2>1. /\ client.index = index /\ client.salt = salt /\ client.secret \in Randoms
        /\ client.A = ModExp(GetGenerator(index), client.secret, GetPrime(index))
        /\ client.key = SetupKey(ClientPrivateKey(client, client.B, client.password),
                                 RecvSalt(toClient))
    BY <1>3, <1>10 DEF SrpInv, ClientKept, GoesBy
  <2>2. ClientPrivateKey(client, B, password) = K
    BY <1>4, <1>7, <1>10, <2>1
  <2>3. RecvSalt(toClient) = r
    BY <1>8 DEF RecvSalt, SendSalt
  <2> QED BY <1>3, <1>5, <1>8, <1>10, <2>1, <2>2, <2>3
<1> QED BY <1>9, <1>10 DEF SharedKey

-----------------------------------------------------------------------------
\* The invariant holds of the initial state, and after each step.
LEMMA SrpInitInv == SrpInit => SrpInv
BY DEF SrpInit, SrpInv, SecretKept, HelloKept, PublicKept, ClientKept, ServerKept,
       Silence, Fresh, IsSide

\* A secret is added once.
LEMMA AddSecretKeeps ==
  ASSUME SrpInv, NEW index \in Indexes, NEW salt \in Salts, NEW password \in Passwords,
         AddSecret(index, salt, password)
  PROVE  SrpInv'
<1>1. /\ stored = NoSecret /\ UNCHANGED <<client, server, toServer, toClient>>
      /\ IsStored(index, salt, password)'
  BY DEF AddSecret, IsStored
<1>2. SecretKept'
  BY <1>1 DEF SecretKept
<1>3. /\ toClient.kind # "hello" /\ client.stage \notin {"key", "done"}
      /\ server.stage \notin {"hello", "done"} /\ toClient.kind # "key"
  BY <1>1 DEF SrpInv, HelloKept, ClientKept, ServerKept, GoesBy
<1>4. HelloKept' /\ ClientKept' /\ ServerKept'
  BY <1>1, <1>3 DEF SrpInv, HelloKept, ClientKept, ServerKept, IsSide
<1>5. PublicKept'
  BY <1>1 DEF SrpInv, PublicKept, IsPublic
<1> QED BY <1>2, <1>4, <1>5 DEF SrpInv

LEMMA FillClientHelloKeeps == ASSUME SrpInv, FillClientHello PROVE SrpInv'
<1>1. /\ UNCHANGED <<stored, server, toClient>> /\ toServer' = [kind |-> "hello"]
      /\ client.stage = "start" /\ client' = [client EXCEPT !.stage = "hello"]
  BY DEF FillClientHello
<1>2. IsSide(client') /\ client'.stage = "hello"
  BY <1>1 DEF SrpInv, ClientKept, IsSide
<1>3. ClientKept'
  BY <1>2 DEF ClientKept
<1> QED BY <1>1, <1>3 DEF SrpInv, SecretKept, IsStored, HelloKept, PublicKept,
                          ServerKept, GoesBy, IsPublic

LEMMA ParseServerHelloKeeps ==
  ASSUME SrpInv, NEW index \in Indexes, NEW salt \in Salts, ParseServerHello(index, salt)
  PROVE  SrpInv'
<1>1. /\ UNCHANGED <<stored, server, toClient>> /\ client.stage = "hello"
      /\ toClient = [kind |-> "hello", index |-> index, salt |-> salt]
  BY DEF ParseServerHello
<1>2. SecretKept' /\ HelloKept' /\ ServerKept'
  BY <1>1 DEF SrpInv, SecretKept, IsStored, HelloKept, ServerKept, GoesBy, IsPublic
<1>3. stored # NoSecret /\ stored.secret.index = index /\ stored.secret.salt = salt
  BY <1>1 DEF SrpInv, HelloKept
<1>4. CASE ~ValidIndex(index) \/ salt[1] < 8
  <2>1. client' = Failed(client) /\ UNCHANGED toServer
    BY <1>4 DEF ParseServerHello
  <2>2. IsSide(client') /\ client'.stage = "failed"
    BY <2>1 DEF SrpInv, ClientKept, IsSide, Failed
  <2>3. ClientKept'
    BY <2>2 DEF ClientKept
  <2>4. PublicKept'
    BY <1>1, <2>1 DEF SrpInv, PublicKept, IsPublic
  <2> QED BY <1>2, <2>3, <2>4 DEF SrpInv
<1>5. CASE ~(~ValidIndex(index) \/ salt[1] < 8)
  <2> DEFINE side == [client EXCEPT !.index = index, !.salt = salt]
             C(a) == FillClientPublicKey(side, a)
  <2>1. PICK a \in Randoms \ {0} :
          /\ client' = [C(a) EXCEPT !.stage = "key"]
          /\ toServer' = [kind |-> "key", number |-> C(a).A]
    BY <1>5 DEF ParseServerHello
  <2>2. IsSide(side) /\ side.index = index /\ side.salt = salt
    <3>1. IsSide(client)
      BY DEF SrpInv, ClientKept
    <3>2. PICK r : r = [client EXCEPT !.index = index]
      OBVIOUS
    <3>3. IsSide(r) /\ r.index = index
      BY <3>1, <3>2 DEF IsSide
    <3>4. side = [r EXCEPT !.salt = salt]
      BY <3>2
    <3> HIDE DEF side
    <3> QED BY <3>3, <3>4 DEF IsSide
  <2>3. PICK A : A = ModExp(GetGenerator(index), a, GetPrime(index))
    OBVIOUS
  <2> HIDE DEF side
  <2>4. /\ IsSide(C(a)) /\ C(a).index = index /\ C(a).salt = salt
        /\ C(a).secret = a /\ C(a).A = A
    <3>1. C(a) = [side EXCEPT !.secret = a, !.A = A]
      BY <2>2, <2>3 DEF FillClientPublicKey
    <3> HIDE DEF C
    <3> QED BY <2>2, <3>1 DEF IsSide
  <2> HIDE DEF C
  <2>5. /\ IsSide(client') /\ client'.stage = "key" /\ client'.index = index
        /\ client'.salt = salt /\ client'.secret = a /\ client'.A = A
        /\ toServer' = [kind |-> "key", number |-> A]
    BY <2>1, <2>4 DEF IsSide
  <2>6. ClientKept'
    BY <1>1, <1>3, <2>3, <2>5 DEF ClientKept, GoesBy
  <2>7. A \in 0..(GetPrime(index) - 1)
    <3>1. Group(GetPrime(index), GetGenerator(index)) /\ a \in Nat
      BY <1>5, ValidGroup, NumbersAssumption
    <3>2. GetPrime(index) \in Nat \ {0} /\ GetGenerator(index) \in Nat
      BY <3>1 DEF Group, IsPrime
    <3> QED BY <2>3, <3>1, <3>2, PowerIsRemainder
  <2>8. PublicKept'
    BY <1>1, <1>3, <2>5, <2>7 DEF PublicKept, IsPublic
  <2> QED BY <1>2, <2>6, <2>8 DEF SrpInv
<1> QED BY <1>4, <1>5

LEMMA ServerHelloKeeps == ASSUME SrpInv, ServerHello PROVE SrpInv'
<1>1. /\ UNCHANGED <<stored, client, toServer>> /\ server.stage = "start"
  BY DEF ServerHello
<1>2. toClient.kind # "key" /\ client.stage # "done" /\ IsSide(server)
  BY <1>1 DEF SrpInv, ClientKept, ServerKept
<1>3. SecretKept' /\ PublicKept' /\ ClientKept'
  BY <1>1, <1>2 DEF SrpInv, SecretKept, IsStored, PublicKept, IsPublic, ClientKept, GoesBy
<1>4. CASE FromSecretFails(stored.secret)
  <2>1. server' = Failed(server) /\ UNCHANGED toClient
    BY <1>4 DEF ServerHello
  <2>2. IsSide(server') /\ server'.stage = "failed"
    BY <1>2, <2>1 DEF IsSide, Failed
  <2>3. ServerKept'
    BY <1>2, <2>1, <2>2 DEF ServerKept
  <2>4. HelloKept'
    BY <1>1, <2>1 DEF SrpInv, HelloKept
  <2> QED BY <1>3, <2>3, <2>4 DEF SrpInv
<1>5. CASE ~FromSecretFails(stored.secret)
  <2>1. /\ server' = [server EXCEPT !.stage = "hello", !.index = stored.secret.index,
                                    !.salt = stored.secret.salt]
        /\ toClient' = [kind |-> "hello", index |-> stored.secret.index,
                        salt |-> stored.secret.salt]
    BY <1>5 DEF ServerHello
  <2>2. stored # NoSecret
    <3>1. ~ValidIndex(Unset)
      BY PrimesAssumption DEF ValidIndex, Unset
    <3> QED BY <1>5, <3>1 DEF FromSecretFails, NoSecret
  <2>3. /\ IsSide(server') /\ server'.stage = "hello"
        /\ server'.index = stored.secret.index /\ server'.salt = stored.secret.salt
    BY <1>2, <2>1 DEF IsSide
  <2>4. ServerKept'
    BY <1>1, <2>1, <2>2, <2>3 DEF ServerKept, GoesBy
  <2>5. HelloKept'
    BY <1>1, <2>1, <2>2 DEF HelloKept
  <2> QED BY <1>3, <2>4, <2>5 DEF SrpInv
<1> QED BY <1>4, <1>5

LEMMA ServerKeyKeeps ==
  ASSUME SrpInv, NEW b \in Randoms, NEW salt \in KeySalts, ServerKey(b, salt)
  PROVE  SrpInv'
<1> DEFINE A == toServer.number
           v == stored.secret.v
           B == FillServerPublicKey(server.index, v, b)
           K == ServerPrivateKey(server.index, v, A, B, b)
<1>1. /\ UNCHANGED <<stored, client, toServer>>
      /\ server.stage = "hello" /\ toServer.kind = "key"
  BY DEF ServerKey
<1>2. toClient.kind # "key" /\ client.stage # "done" /\ IsSide(server) /\ GoesBy(server)
  BY <1>1 DEF SrpInv, ClientKept, ServerKept
<1>3. SecretKept' /\ PublicKept' /\ ClientKept'
  BY <1>1, <1>2 DEF SrpInv, SecretKept, IsStored, PublicKept, IsPublic, ClientKept, GoesBy
<1>4. CASE ~ParseClientPublicKey(A, GetPrime(server.index))
  <2>1. server' = Failed(server) /\ UNCHANGED toClient
    BY <1>4 DEF ServerKey
  <2>2. IsSide(server') /\ server'.stage = "failed"
    BY <1>2, <2>1 DEF IsSide, Failed
  <2>3. ServerKept'
    BY <1>2, <2>1, <2>2 DEF ServerKept
  <2>4. HelloKept'
    BY <1>1, <2>1 DEF SrpInv, HelloKept
  <2> QED BY <1>3, <2>3, <2>4 DEF SrpInv
<1>5. CASE ParseClientPublicKey(A, GetPrime(server.index))
  <2>1. /\ server' = [server EXCEPT !.stage = "done", !.A = A, !.B = B, !.secret = b,
                                    !.key = SetupKey(K, salt)]
        /\ toClient' = SendSalt(B, salt)
    BY <1>5 DEF ServerKey
  <2>2. PICK key : key = SetupKey(K, salt)
    OBVIOUS
  <2>3. PICK number : number = B
    OBVIOUS
  <2>4. PICK public : public = A
    OBVIOUS
  <2>5. /\ server' = [server EXCEPT !.stage = "done", !.A = public, !.B = number,
                                    !.secret = b, !.key = key]
        /\ toClient' = SendSalt(number, salt)
    BY <2>1, <2>2, <2>3, <2>4
  <2>6. /\ IsSide(server') /\ server'.stage = "done" /\ server'.index = server.index
        /\ server'.salt = server.salt /\ server'.A = public /\ server'.B = number
        /\ server'.secret = b /\ server'.key = key
    BY <1>2, <2>5 DEF IsSide
  <2>7. /\ toClient'.kind = "key"
    BY <2>5 DEF SendSalt
  <2>8. IsPublic(A)' /\ ~IsDivisibleBy(A, GetPrime(server.index))
    BY <1>1, <1>5 DEF SrpInv, PublicKept, IsPublic, ParseClientPublicKey
  <2>9. GoesBy(server)'
    BY <1>1, <1>2, <2>6 DEF GoesBy
  <2>10. v' = v /\ B = FillServerPublicKey(server.index, v, b)
         /\ K = ServerPrivateKey(server.index, v, A, B, b)
    BY <1>1
  <2>11. IsPublic(public)' /\ ~IsDivisibleBy(public, GetPrime(server.index))
    BY <1>1, <2>4, <2>8 DEF IsPublic
  <2> DEFINE W(i, s, p, m, r) == SetupKey(ServerPrivateKey(i, s, p, m, r), salt)
  <2>12. key = W(server.index, v, public, number, b)
    BY <2>2, <2>3, <2>4
  <2>13. number = FillServerPublicKey(server.index, v, b)
    BY <2>3
  <2> HIDE DEF v, W
  <2>14. /\ server'.secret \in Randoms
         /\ IsPublic(server.A)' /\ ~IsDivisibleBy(server'.A, GetPrime(server'.index))
         /\ server'.B = FillServerPublicKey(server'.index, v', server'.secret)
         /\ toClient' = SendSalt(server'.B, salt)
         /\ server'.key = W(server'.index, v', server'.A, server'.B, server'.secret)
    BY <2>5, <2>6, <2>10, <2>11, <2>12, <2>13 DEF IsPublic
  <2>15. ServerKept'
    BY <2>6, <2>9, <2>14 DEF ServerKept, v, W
  <2>16. HelloKept'
    BY <2>7 DEF HelloKept
  <2> QED BY <1>3, <2>15, <2>16 DEF SrpInv
<1> QED BY <1>4, <1>5

LEMMA ParseServerPublicKeyKeeps ==
  ASSUME SrpInv, NEW password \in Passwords, NEW B, ParseServerPublicKey(B, password)
  PROVE  SrpInv'
<1>1. /\ UNCHANGED <<stored, server, toServer, toClient>>
      /\ client.stage = "key" /\ toClient.kind = "key" /\ toClient.number = B
      /\ IsSide(client)
  BY DEF ParseServerPublicKey, SrpInv, ClientKept
<1>2. SecretKept' /\ HelloKept' /\ PublicKept' /\ ServerKept'
  BY <1>1 DEF SrpInv, SecretKept, IsStored, HelloKept, PublicKept, ServerKept, IsPublic, GoesBy
<1>3. CASE IsDivisibleBy(B, GetPrime(client.index))
  <2>1. client' = Failed(client)
    BY <1>3 DEF ParseServerPublicKey
  <2>2. IsSide(client') /\ client'.stage = "failed"
    BY <1>1, <2>1 DEF IsSide, Failed
  <2>3. ClientKept'
    BY <2>2 DEF ClientKept
  <2> QED BY <1>2, <2>3 DEF SrpInv
<1>4. CASE ~IsDivisibleBy(B, GetPrime(client.index))
  <2>1. PICK key : key = SetupKey(ClientPrivateKey(client, B, password), RecvSalt(toClient))
    OBVIOUS
  <2>2. client' = [client EXCEPT !.stage = "done", !.B = B, !.password = password,
                                 !.key = key]
    BY <1>4, <2>1 DEF ParseServerPublicKey
  <2>3. /\ IsSide(client') /\ client'.stage = "done" /\ client'.index = client.index
        /\ client'.salt = client.salt /\ client'.A = client.A /\ client'.B = B
        /\ client'.secret = client.secret /\ client'.password = password
        /\ client'.key = key
    BY <1>1, <2>2 DEF IsSide
  <2>4. ClientPrivateKey(client', B, password) = ClientPrivateKey(client, B, password)
    BY <2>3 DEF ClientPrivateKey
  <2>5. GoesBy(client)' /\ client'.secret \in Randoms
        /\ client'.A = ModExp(GetGenerator(client'.index), client'.secret,
                              GetPrime(client'.index))
    BY <1>1, <2>3 DEF SrpInv, ClientKept, GoesBy
  <2>6. /\ client'.key = SetupKey(ClientPrivateKey(client', client'.B, client'.password),
                                  RecvSalt(toClient'))
        /\ toClient'.kind = "key" /\ client'.B = toClient'.number
    BY <1>1, <2>1, <2>3, <2>4
  <2>7. ClientKept'
    BY <2>3, <2>5, <2>6 DEF ClientKept
  <2> QED BY <1>2, <2>7 DEF SrpInv
<1> QED BY <1>3, <1>4

LEMMA ForgedKeyKeeps == ASSUME SrpInv, NEW A \in Forged, ForgedKey(A) PROVE SrpInv'
<1>1. /\ UNCHANGED <<stored, client, server, toClient>>
      /\ toServer' = [kind |-> "key", number |-> A]
  BY DEF ForgedKey
<1>2. PublicKept'
  BY <1>1 DEF PublicKept, IsPublic
<1> QED BY <1>1, <1>2 DEF SrpInv, SecretKept, IsStored, HelloKept, ClientKept,
                          ServerKept, GoesBy, IsPublic

LEMMA SrpNextInv == SrpInv /\ [SrpNext]_srpVars => SrpInv'
<1> SUFFICES ASSUME SrpInv, [SrpNext]_srpVars PROVE SrpInv'
  OBVIOUS
<1>1. CASE UNCHANGED srpVars
  BY <1>1 DEF srpVars, SrpInv, SecretKept, HelloKept, PublicKept, ClientKept, ServerKept,
              IsStored, IsSide, GoesBy, IsPublic
<1> QED BY <1>1, AddSecretKeeps, FillClientHelloKeeps, ParseServerHelloKeeps,
           ServerHelloKeeps, ServerKeyKeeps, ParseServerPublicKeyKeeps, ForgedKeyKeeps
           DEF SrpNext, Indexes

\* Whatever the primes, the digests and the random numbers are, both sides of a
\* handshake have the same key when they have each other's public keys and the
\* password is the right one, and the server's is never made of 0.
THEOREM KeyIsShared == SrpSpec => []SharedKey
BY SrpInitInv, SrpNextInv, InvSharedKey, PTL DEF SrpSpec

-----------------------------------------------------------------------------
(* Calls: what lies behind each of a list in a stream.                     *)

Codes == Seq(Seq(Nat))

\* What lies behind the first k of a list of codes.
Behind(tail, codes) ==
  /\ tail[Len(codes)] = <<>>
  /\ \A k \in 0..(Len(codes) - 1) : tail[k] = codes[k + 1] \o tail[k + 1]

SizeRuns(h, codes) ==
  /\ h[0] = 0 /\ \A k \in 0..(Len(codes) - 1) : h[k + 1] = h[k] + Len(codes[k + 1])
  /\ SizeOf(codes) = h[Len(codes)]

\* SizeOf, code by code.
LEMMA SizeTurns ==
  ASSUME NEW q \in Codes
  PROVE  \E h \in [0..Len(q) -> Nat] : SizeRuns(h, q)
<1> DEFINE n == Len(q)
           Turns(h) == h = [s \in SUBSET (1..n) |->
                              IF s = {} THEN 0 ELSE h[s \ {Max(s)}] + Len(q[Max(s)])]
           iter == CHOOSE h : Turns(h)
           f == [i \in Nat |-> [s \in Nat |-> IF i \in 1..n THEN s + Len(q[i]) ELSE s]]
<1>0. /\ DOMAIN q = 1..Len(q) /\ Len(q) \in Nat
      /\ \A s \in Nat, i \in 1..Len(q) : s + Len(q[i]) \in Nat
  <2>1. DOMAIN q = 1..Len(q) /\ Len(q) \in Nat
    BY DEF Codes
  <2>2. ASSUME NEW s \in Nat, NEW i \in 1..Len(q) PROVE s + Len(q[i]) \in Nat
    <3>1. q[i] \in Seq(Nat)
      BY DEF Codes
    <3>2. Len(q[i]) \in Nat
      BY <3>1
    <3> QED BY <3>2
  <2> QED BY <2>1, <2>2
<1>1. SizeOf(q) = iter[1..n]
  BY <1>0 DEF SizeOf, FoldLeft, MapThenFoldSet
<1>2. \E h : Turns(h)
  <2>1. f \in [Nat -> [Nat -> Nat]] /\ n \in Nat
    BY <1>0
  <2>2. PICK h \in [SUBSET (1..n) -> Nat] : FromLast(h, f, 0, n)
    <3> HIDE DEF f, n
    <3> QED BY <2>1, Iterates
  <2>3. ASSUME NEW s \in SUBSET (1..n)
        PROVE  h[s] = IF s = {} THEN 0 ELSE h[s \ {Max(s)}] + Len(q[Max(s)])
    <3>1. CASE s = {}
      BY <2>2, <3>1 DEF FromLast
    <3>2. CASE s # {}
      <4>1. h[s \ {Max(s)}] \in Nat
        OBVIOUS
      <4>2. Max(s) \in s /\ Max(s) \in 1..n /\ Max(s) \in Nat
        BY <2>1, <3>2, MaxIsOne
      <4> QED BY <2>2, <3>2, <4>1, <4>2 DEF FromLast
    <3> QED BY <3>1, <3>2
  <2>4. Turns(h)
    BY <2>3
  <2> QED BY <2>4
<1>3. Turns(iter)
  BY <1>2
<1> HIDE DEF iter
<1> DEFINE g == [k \in 0..n |-> iter[1..k]]
<1>4. g[0] = 0
  <2>1. 1..0 = {}
    OBVIOUS
  <2> QED BY <1>0, <1>3, <2>1
<1>5. ASSUME NEW k \in 0..(n - 1) PROVE g[k + 1] = g[k] + Len(q[k + 1])
  <2>1. 1..(k + 1) \in SUBSET (1..n) /\ k \in 0..n /\ k + 1 \in 0..n /\ k \in Nat
    BY <1>0
  <2>2. /\ Max(1..(k + 1)) = k + 1
        /\ 1..(k + 1) # {} /\ (1..(k + 1)) \ {k + 1} = 1..k
    BY <2>1, LastOfInterval
  <2> QED BY <1>3, <2>1, <2>2
<1>6. g[n] = iter[1..n]
  BY <1>0
<1> DEFINE S == {k \in 0..n : g[k] \in Nat}
<1> HIDE DEF g
<1>7. \A k \in 0..n : k \in S
  <2>1. 0 \in S
    BY <1>0, <1>4
  <2>2. ASSUME NEW k \in 0..(n - 1), k \in S PROVE k + 1 \in S
    <3>1. g[k] \in Nat /\ k + 1 \in 0..n /\ k + 1 \in 1..n
      BY <1>0, <2>2
    <3> QED BY <1>0, <1>5, <3>1
  <2> HIDE DEF S
  <2> QED BY <1>0, <2>1, <2>2, UpTo
<1>8. g \in [0..n -> Nat]
  <2>1. \A k \in 0..n : g[k] \in Nat
    BY <1>7
  <2> QED BY <2>1 DEF g
<1>9. SizeRuns(g, q)
  BY <1>1, <1>4, <1>5, <1>6 DEF SizeRuns
<1> QED BY <1>8, <1>9

\* The size of a beginning is a value of that function.
LEMMA SizeOfFirst ==
  ASSUME NEW q \in Codes, NEW h \in [0..Len(q) -> Nat], SizeRuns(h, q), NEW m \in 0..Len(q)
  PROVE  SubSeq(q, 1, m) \in Codes /\ SizeOf(SubSeq(q, 1, m)) = h[m]
<1> DEFINE a == SubSeq(q, 1, m)
<1>1. /\ a \in Codes /\ Len(a) = m /\ m \in Nat /\ Len(q) \in Nat
      /\ \A i \in 1..m : a[i] = q[i]
  BY DEF Codes
<1> HIDE DEF a
<1>2. PICK g \in [0..m -> Nat] : SizeRuns(g, a)
  BY <1>1, SizeTurns
<1> DEFINE S == {k \in 0..m : g[k] = h[k]}
<1>3. 0 \in S
  BY <1>1, <1>2 DEF SizeRuns
<1>4. ASSUME NEW k \in 0..(m - 1), k \in S PROVE k + 1 \in S
  <2>1. k \in 0..(Len(q) - 1) /\ k + 1 \in 1..m /\ k + 1 \in 0..m
    BY <1>1
  <2>2. g[k + 1] = g[k] + Len(a[k + 1]) /\ h[k + 1] = h[k] + Len(q[k + 1])
    BY <1>1, <1>2, <2>1 DEF SizeRuns
  <2> QED BY <1>1, <1>4, <2>1, <2>2
<1>5. \A k \in 0..m : k \in S
  <2> HIDE DEF S
  <2> QED BY <1>1, <1>3, <1>4, UpTo
<1>6. m \in S
  BY <1>1, <1>5
<1>7. SizeOf(a) = g[m]
  BY <1>1, <1>2 DEF SizeRuns
<1> QED BY <1>1, <1>6, <1>7 DEF a

\* What lies behind the first m codes is shorter by their size.
LEMMA SizesBehind ==
  ASSUME NEW q \in Codes, NEW tail \in [0..Len(q) -> Seq(Nat)], Behind(tail, q),
         NEW m \in 0..Len(q)
  PROVE  /\ SizeOf(SubSeq(q, 1, m)) + Len(tail[m]) = Len(tail[0])
         /\ SizeOf(SubSeq(q, 1, m)) \in Nat
         /\ SizeOf(q) = Len(tail[0])
<1>1. PICK h \in [0..Len(q) -> Nat] : SizeRuns(h, q)
  BY SizeTurns
<1>2. PICK n \in Nat : n = Len(q)
  BY DEF Codes
<1> DEFINE S == {k \in 0..n : h[k] + Len(tail[k]) = Len(tail[0])}
<1>3. 0 \in S
  <2>1. tail[0] \in Seq(Nat) /\ h[0] = 0
    BY <1>1, <1>2 DEF SizeRuns
  <2>2. Len(tail[0]) \in Nat
    BY <2>1
  <2> QED BY <1>2, <2>1, <2>2
<1>4. ASSUME NEW k \in 0..(n - 1), k \in S PROVE k + 1 \in S
  <2>1. k \in 0..n /\ k + 1 \in 0..n
    BY <1>2
  <2>2. PICK c \in Seq(Nat) : c = q[k + 1]
    BY <1>2, <2>1 DEF Codes
  <2>3. PICK t \in Seq(Nat) : t = tail[k + 1]
    BY <1>2, <2>1
  <2>4. Len(c \o t) = Len(c) + Len(t) /\ Len(c) \in Nat /\ Len(t) \in Nat
    BY Joined
  <2>5. tail[k] = c \o t /\ h[k + 1] = h[k] + Len(c)
    BY <1>1, <1>2, <2>2, <2>3 DEF SizeRuns, Behind
  <2>6. h[k] \in Nat /\ h[k] + Len(tail[k]) = Len(tail[0])
    BY <1>2, <1>4, <2>1
  <2>7. h[k + 1] + Len(tail[k + 1]) = Len(tail[0])
    BY <2>3, <2>4, <2>5, <2>6
  <2> QED BY <2>1, <2>7
<1>5. \A k \in 0..n : k \in S
  <2> HIDE DEF S
  <2> QED BY <1>3, <1>4, UpTo
<1>6. SizeOf(SubSeq(q, 1, m)) = h[m]
  BY <1>1, SizeOfFirst
<1>7. h[m] + Len(tail[m]) = Len(tail[0]) /\ h[m] \in Nat
  BY <1>2, <1>5
<1>8. SizeOf(q) = Len(tail[0])
  <2>1. n \in 0..n
    OBVIOUS
  <2>2. h[n] + Len(tail[n]) = Len(tail[0]) /\ h[n] \in Nat
    BY <1>2, <1>5, <2>1
  <2>3. tail[n] = <<>>
    BY <1>2 DEF Behind
  <2>4. Len(tail[n]) = 0
    BY <2>3
  <2>5. SizeOf(q) = h[n]
    BY <1>1, <1>2 DEF SizeRuns
  <2> QED BY <2>2, <2>4, <2>5
<1> QED BY <1>6, <1>7, <1>8

\* What is behind each when c is behind all.
Longer(p, q, tail, c) ==
  \E new \in [0..Len(p) -> Seq(Nat)] :
    Behind(new, p) /\ \A k \in 0..Len(q) : new[k] = tail[k] \o c

\* One more code goes behind all.
LEMMA BehindAppended ==
  ASSUME NEW q \in Codes, NEW tail \in [0..Len(q) -> Seq(Nat)], Behind(tail, q),
         NEW c \in Seq(Nat), NEW p, p = Append(q, c)
  PROVE  Longer(p, q, tail, c)
<1>1. PICK n \in Nat : n = Len(q)
  BY DEF Codes
<1>2. /\ p \in Codes /\ Len(p) = n + 1 /\ p[n + 1] = c
      /\ \A i \in 1..n : p[i] = q[i] /\ q[i] \in Seq(Nat)
  BY <1>1 DEF Codes
<1> DEFINE new == [k \in 0..(n + 1) |-> IF k = n + 1 THEN <<>> ELSE tail[k] \o c]
<1>3. ASSUME NEW k \in 0..n PROVE new[k] = tail[k] \o c /\ new[k] \in Seq(Nat)
  <2>1. tail[k] \in Seq(Nat)
    BY <1>1
  <2>2. tail[k] \o c \in Seq(Nat)
    BY <2>1
  <2>3. k \in 0..(n + 1) /\ k # n + 1
    OBVIOUS
  <2>4. new[k] = tail[k] \o c
    BY <2>3, Zenon
  <2> QED BY <2>2, <2>4, Zenon
<1>4. new[n + 1] = <<>> /\ <<>> \in Seq(Nat)
  OBVIOUS
<1>5. new \in [0..(n + 1) -> Seq(Nat)]
  <2>1. \A k \in 0..(n + 1) : k = n + 1 \/ k \in 0..n
    OBVIOUS
  <2>2. \A k \in 0..(n + 1) : new[k] \in Seq(Nat)
    <3> HIDE DEF new
    <3> QED BY <1>3, <1>4, <2>1
  <2> QED BY <2>2
<1> HIDE DEF new
<1>6. ASSUME NEW k \in 0..n PROVE new[k] = p[k + 1] \o new[k + 1]
  <2>1. CASE k = n
    <3>1. tail[k] = <<>>
      BY <1>1, <2>1 DEF Behind
    <3>2. <<>> \o c = c /\ c \o <<>> = c
      OBVIOUS
    <3> QED BY <1>2, <1>3, <1>4, <2>1, <3>1, <3>2
  <2>2. CASE k # n
    <3>1. k \in 0..(n - 1) /\ k + 1 \in 1..n /\ k + 1 \in 0..n
      BY <2>2
    <3>2. PICK a \in Seq(Nat) : a = q[k + 1] /\ a = p[k + 1]
      BY <1>2, <3>1
    <3>3. PICK b \in Seq(Nat) : b = tail[k + 1]
      BY <1>1, <3>1
    <3>4. tail[k] = a \o b
      BY <1>1, <3>1, <3>2, <3>3 DEF Behind
    <3>5. Grouped(a, b, c)
      BY JoinedTwice
    <3>6. new[k] = (a \o b) \o c /\ new[k + 1] = b \o c
      BY <1>3, <3>1, <3>3, <3>4
    <3> QED BY <3>2, <3>5, <3>6 DEF Grouped
  <2> QED BY <2>1, <2>2
<1>7. Behind(new, p)
  <2>1. \A k \in 0..(Len(p) - 1) : k \in 0..n
    BY <1>2
  <2> QED BY <1>2, <1>4, <1>6, <2>1 DEF Behind
<1>8. \A k \in 0..Len(q) : new[k] = tail[k] \o c
  BY <1>1, <1>3, Zenon
<1>9. new \in [0..Len(p) -> Seq(Nat)]
  BY <1>2, <1>5, Zenon
<1> QED BY <1>7, <1>8, <1>9, Zenon DEF Longer

-----------------------------------------------------------------------------
(* The dispatchers, on any bytes.                                          *)

\* The numbers of calls fit their 16 bits, and what is answered is not taken for
\* a request.
LEMMA IpcNumbers ==
  /\ Weight[Width["uint16"]] \in Nat /\ "uint16" \in Widths
  /\ \A rpc \in Rpcs \union {UnknownRpc} : rpc \in Nat /\ rpc < Weight[Width["uint16"]]
  /\ \A rpc \in {1, 2, 3, GetParameterFromUserReply} :
       rpc \in Nat /\ rpc < Weight[Width["uint16"]]
  /\ GetParameterFromUserReply \notin {1, 2}
<1>1. PICK W \in Nat : W = Weight[2] /\ W = Weight[Width["uint16"]] /\ W >= 4
  <2>1. Base \in Nat /\ Base >= 2
    BY SerializersAssumption, IpcAssumption
  <2>2. Base * Base \in Nat /\ Base * Base >= 4
    <3>1. ASSUME NEW b \in Nat, b >= 2 PROVE b * b \in Nat /\ b * b >= 4
      <4>1. b * b >= 2 * b
        BY <3>1
      <4> QED BY <3>1, <4>1
    <3> QED BY <2>1, <3>1
  <2> QED BY <2>2, WeightValues, WidthValues
<1>2. ASSUME NEW a \in Int PROVE a % W \in 0..(W - 1) /\ a \div W \in Int /\ a = W * (a \div W) + (a % W)
  BY <1>1
<1>3. W \div 4 \in Nat /\ 4 * (W \div 4) <= W /\ W \div 4 >= 1
  BY <1>1
<1>4. ASSUME NEW a \in Int PROVE Int16(a) \in Nat /\ Int16(a) < W
  <2>1. Int16(a) = a % W
    BY <1>1 DEF Int16
  <2>2. a % W \in 0..(W - 1)
    BY <1>2
  <2> QED BY <1>1, <2>1, <2>2
<1>5. W \div 4 < W
  BY <1>1, <1>3
<1>6. \A rpc \in Rpcs \union {UnknownRpc} : rpc \in Nat /\ rpc < W
  <2>1. ServerShowClientsReply \in Nat /\ ServerShowClientsReply < W
    <3>1. -2 \in Int
      OBVIOUS
    <3> QED BY <1>4, <3>1 DEF ServerShowClientsReply
  <2>2. RequestServerStatusReply \in Nat /\ RequestServerStatusReply < W
    <3>1. -3 \in Int
      OBVIOUS
    <3> QED BY <1>4, <3>1 DEF RequestServerStatusReply
  <2>3. GetParameterFromUserRequest \in Nat /\ GetParameterFromUserRequest < W
    BY <1>1, <1>3, <1>5 DEF GetParameterFromUserRequest
  <2>4. UnknownRpc \in Nat /\ UnknownRpc < W
    BY <1>1 DEF UnknownRpc
  <2> QED BY <2>1, <2>2, <2>3, <2>4 DEF Rpcs
<1>7. PICK q \in Nat : q = W \div 4 /\ q >= 1 /\ 4 * q <= W
  BY <1>3
<1>8. PICK r \in 0..(W - 1) : r = GetParameterFromUserReply /\ \E d \in Int : -q = W * d + r
  <2>1. -q \in Int /\ GetParameterFromUserReply = (-q) % W
    BY <1>1, <1>7 DEF GetParameterFromUserReply, Int16
  <2>2. (-q) % W \in 0..(W - 1) /\ (-q) \div W \in Int /\ -q = W * ((-q) \div W) + ((-q) % W)
    BY <1>2, <2>1
  <2> QED BY <2>1, <2>2
<1>9. r \notin {1, 2}
  <2> SUFFICES ASSUME r \in {1, 2} PROVE FALSE
    OBVIOUS
  <2>1. PICK d \in Int : -q = W * d + r
    BY <1>8
  <2>2. CASE d >= 0
    <3>1. W * d >= 0
      BY <2>2
    <3> QED BY <1>7, <2>1, <3>1
  <2>3. CASE d <= -1
    <3>1. W * d <= W * (-1)
      BY <1>1, <2>3
    <3>2. W * (-1) = -W
      OBVIOUS
    <3>3. PICK x \in Int : x = W * d
      OBVIOUS
    <3> QED BY <1>7, <2>1, <3>1, <3>2, <3>3
  <2> QED BY <2>1, <2>2, <2>3
<1>10. r \in Nat /\ r < W
  BY <1>1
<1> QED BY <1>1, <1>6, <1>8, <1>9, <1>10, WidthValues

\* What is behind the first bytes.
LEMMA DropKeeps ==
  ASSUME NEW a \in Seq(Nat), NEW k \in 0..Len(a)
  PROVE  Drop(a, k) \in Seq(Nat) /\ Len(Drop(a, k)) = Len(a) - k
BY DEF Drop

\* A number is asked for, or taken.
LEMMA NumberAny ==
  ASSUME NEW a \in Seq(Nat)
  PROVE  LET d == DecodeNumber(a, "uint16")
         IN /\ d.status \in Nat /\ d.value \in Nat /\ d.rest \in Seq(Nat)
            /\ Len(d.rest) <= Len(a)
            /\ d.status = 0 => Len(d.rest) < Len(a)
            /\ Len(a) < Width["uint16"] => d.status > 0
            /\ Len(a) >= Width["uint16"] => d.status = 0
            /\ d = [status |-> d.status, value |-> d.value, rest |-> d.rest]
<1>1. PICK w \in Nat : w = Width["uint16"] /\ w >= 1
  BY WidthValues
<1> DEFINE got == Take(a, w)
<1>2. /\ got \in Seq(Nat) /\ Len(got) \in Nat /\ Len(a) \in Nat
      /\ w < Len(a) => Len(got) = w
      /\ w >= Len(a) => Len(got) = Len(a)
  BY TakeKeeps
<1>3. Number(got) \in Nat
  BY <1>2, NumberIsNat
<1>4. DecodeNumber(a, "uint16") =
        [status |-> w - Len(got), value |-> Number(got), rest |-> Drop(a, Len(got))]
  BY <1>1 DEF DecodeNumber
<1>5. PICK g \in Nat : g = Len(got) /\ g \in 0..Len(a)
  BY <1>2
<1>6. Drop(a, g) \in Seq(Nat) /\ Len(Drop(a, g)) = Len(a) - g
  BY <1>5, DropKeeps
<1> HIDE DEF got
<1>7. PICK b \in Seq(Nat) : b = Drop(a, g) /\ Len(b) = Len(a) - g
  BY <1>6
<1>8. PICK v \in Nat : v = Number(got)
  BY <1>3
<1>9. DecodeNumber(a, "uint16") = [status |-> w - g, value |-> v, rest |-> b]
  BY <1>4, <1>5, <1>7, <1>8
<1>10. w - g \in Nat /\ Len(b) <= Len(a) /\ (w - g = 0 => Len(b) < Len(a))
       /\ (Len(a) < w => w - g > 0) /\ (Len(a) >= w => w - g = 0)
  <2>1. PICK l \in Nat : l = Len(a) /\ g <= l /\ (w < l => g = w) /\ (w >= l => g = l)
    BY <1>2, <1>5
  <2>2. Len(b) = l - g
    BY <1>7, <2>1
  <2>3. w - g \in Nat /\ l - g <= l /\ (w - g = 0 => l - g < l)
        /\ (l < w => w - g > 0) /\ (l >= w => w - g = 0)
    BY <1>1, <2>1
  <2> QED BY <2>1, <2>2, <2>3
<1>11. PICK s \in Nat : s = w - g
  BY <1>10
<1>12. PICK d : d = [status |-> s, value |-> v, rest |-> b]
  OBVIOUS
<1>13. /\ d.status = s /\ d.value = v /\ d.rest = b
       /\ d = [status |-> d.status, value |-> d.value, rest |-> d.rest]
  BY <1>12
<1>14. DecodeNumber(a, "uint16") = d
  BY <1>9, <1>11, <1>12
<1>15. /\ Len(b) <= Len(a) /\ (s = 0 => Len(b) < Len(a))
       /\ (Len(a) < w => s > 0) /\ (Len(a) >= w => s = 0)
  BY <1>10, <1>11
<1> QED BY <1>1, <1>13, <1>14, <1>15

\* A string or a number of its kind leaves no more than there was.
LEMMA StringAny ==
  ASSUME NEW a \in Seq(Nat)
  PROVE  LET d == DecodeString(a)
         IN /\ d.status \in Nat /\ d.value \in Seq(Nat) /\ d.rest \in Seq(Nat)
            /\ Len(d.rest) <= Len(a)
<1> DEFINE size == DecodeNumber(a, "uint16")
<1>1. /\ size.status \in Nat /\ size.value \in Nat /\ size.rest \in Seq(Nat)
      /\ Len(size.rest) <= Len(a)
      /\ size = [status |-> size.status, value |-> size.value, rest |-> size.rest]
  BY NumberAny
<1>2. CASE size.status # 0
  <2>1. DecodeString(a) = [size EXCEPT !.value = <<>>]
    BY <1>2 DEF DecodeString
  <2> HIDE DEF size
  <2>2. DecodeString(a) = [status |-> size.status, value |-> <<>>, rest |-> size.rest]
    BY <1>1, <2>1
  <2>3. <<>> \in Seq(Nat)
    OBVIOUS
  <2> QED BY <1>1, <2>2, <2>3
<1>3. CASE size.status = 0
  <2> DEFINE got == Take(size.rest, size.value)
  <2>1. DecodeString(a) = [status |-> Missing(size.value, got), value |-> got,
                           rest |-> Drop(size.rest, Len(got))]
    BY <1>3 DEF DecodeString
  <2> HIDE DEF size
  <2>2. PICK b \in Seq(Nat) : b = size.rest /\ Len(b) <= Len(a)
    BY <1>1
  <2>3. PICK m \in Nat : m = size.value
    BY <1>1
  <2>4. /\ got \in Seq(Nat)
        /\ m < Len(b) => Len(got) = m
        /\ m >= Len(b) => Len(got) = Len(b)
    BY <2>2, <2>3, TakeKeeps
  <2>5. Len(b) \in Nat /\ Len(a) \in Nat
    BY <2>2
  <2> HIDE DEF got
  <2>6. Len(got) \in 0..Len(b) /\ m - Len(got) \in Nat
    BY <2>4, <2>5
  <2>7. PICK c \in Seq(Nat) : c = Drop(b, Len(got)) /\ Len(c) = Len(b) - Len(got)
    BY <2>6, DropKeeps
  <2>8. Len(c) <= Len(a)
    BY <2>2, <2>5, <2>6, <2>7
  <2>9. DecodeString(a) = [status |-> m - Len(got), value |-> got, rest |-> c]
    BY <2>1, <2>2, <2>3, <2>7 DEF Missing
  <2>10. PICK s \in Nat : s = m - Len(got)
    BY <2>6
  <2>11. PICK g \in Seq(Nat) : g = got
    BY <2>4
  <2>12. PICK d : d = [status |-> s, value |-> g, rest |-> c]
    OBVIOUS
  <2>13. d.status = s /\ d.value = g /\ d.rest = c
    BY <2>12
  <2>14. DecodeString(a) = d
    BY <2>9, <2>10, <2>11, <2>12
  <2> QED BY <2>8, <2>13, <2>14
<1> QED BY <1>2, <1>3

\* So does a vector of strings.
LEMMA VectorAny ==
  ASSUME NEW a \in Seq(Nat)
  PROVE  LET d == DecodeVector(a, "string")
         IN /\ d.status \in Nat /\ d.value \in Seq(Anything) /\ d.rest \in Seq(Nat)
            /\ Len(d.rest) <= Len(a)
<1> DEFINE size == DecodeNumber(a, "uint16")
<1>1. /\ size.status \in Nat /\ size.value \in Nat /\ size.rest \in Seq(Nat)
      /\ Len(size.rest) <= Len(a)
      /\ size = [status |-> size.status, value |-> size.value, rest |-> size.rest]
  BY NumberAny
<1>4. <<>> \in Seq(Anything) /\ "string" \in Simple
  BY DEF Simple
<1>2. CASE size.status # 0
  <2>1. DecodeVector(a, "string") = [size EXCEPT !.value = <<>>]
    BY <1>2 DEF DecodeVector
  <2> HIDE DEF size
  <2>2. DecodeVector(a, "string") = [status |-> size.status, value |-> <<>>, rest |-> size.rest]
    BY <1>1, <2>1
  <2>3. PICK s \in Nat, b \in Seq(Nat) : s = size.status /\ b = size.rest /\ Len(b) <= Len(a)
    BY <1>1
  <2>4. PICK d : d = [status |-> s, value |-> <<>>, rest |-> b]
    OBVIOUS
  <2>5. d.status = s /\ d.value = <<>> /\ d.rest = b
    BY <2>4
  <2>6. DecodeVector(a, "string") = d
    BY <2>2, <2>3, <2>4
  <2> QED BY <1>4, <2>3, <2>5, <2>6
<1>3. CASE size.status = 0
  <2>1. DecodeVector(a, "string") =
          DecodeLoop([size EXCEPT !.value = <<>>], "string", size.value)
    BY <1>3 DEF DecodeVector, DecodeLoop
  <2> HIDE DEF size
  <2>2. PICK n \in Nat : n = size.value
    BY <1>1
  <2>3. PICK b \in Seq(Nat) : b = size.rest /\ Len(b) <= Len(a)
    BY <1>1
  <2>4. PICK d : d = [status |-> 0, value |-> <<>>, rest |-> b]
    OBVIOUS
  <2>5. d \in Decodings /\ d.status = 0 /\ d.rest = b
    BY <1>4, <2>4 DEF Decodings
  <2>6. [size EXCEPT !.value = <<>>] = d
    BY <1>1, <1>3, <2>3, <2>4
  <2>7. PICK h \in [0..n -> Decodings] : DecodeRuns(h, d, "string", n)
    BY <1>4, <2>5, DecodeTurns
  <2> DEFINE S == {k \in 0..n : h[k].status \in Nat /\ Len(h[k].rest) <= Len(b)}
  <2>8. Len(b) \in Nat /\ Len(a) \in Nat
    BY <2>3
  <2>9. 0 \in S
    BY <2>5, <2>7, <2>8 DEF DecodeRuns
  <2>10. ASSUME NEW k \in 0..(n - 1), k \in S PROVE k + 1 \in S
    <3>1. k \in 0..n /\ k + 1 \in 0..n
      BY <2>2
    <3>2. PICK s \in Decodings : s = h[k] /\ s.status \in Nat /\ Len(s.rest) <= Len(b)
      BY <2>10, <3>1
    <3>3. PICK e : e = DecodeString(s.rest)
      OBVIOUS
    <3>4. e.status \in Nat /\ e.rest \in Seq(Nat) /\ Len(e.rest) <= Len(s.rest)
      BY <3>3, StringAny DEF Decodings
    <3>5. h[k + 1] = DecodeElement(s, "string", n, k)
      BY <2>7, <3>2 DEF DecodeRuns
    <3>6. DecodeSimple(s.rest, "string") = e
      BY <3>3 DEF DecodeSimple
    <3>7. CASE s.status # 0
      <4>1. h[k + 1] = s
        BY <3>5, <3>7 DEF DecodeElement
      <4> QED BY <3>1, <3>2, <4>1
    <3>8. CASE s.status = 0 /\ e.status # 0
      <4>1. h[k + 1] = [s EXCEPT !.status = e.status + StillExpected(n, k), !.rest = e.rest]
        BY <3>5, <3>6, <3>8 DEF DecodeElement
      <4>2. e.status + StillExpected(n, k) \in Nat
        BY <2>2, <3>4 DEF StillExpected
      <4>3. h[k + 1].status \in Nat /\ h[k + 1].rest = e.rest
        BY <4>1, <4>2 DEF Decodings
      <4>4. Len(e.rest) \in Nat /\ Len(s.rest) \in Nat
        BY <3>4 DEF Decodings
      <4>5. Len(e.rest) <= Len(b)
        BY <2>8, <3>2, <3>4, <4>4
      <4> QED BY <3>1, <4>3, <4>5
    <3>9. CASE s.status = 0 /\ e.status = 0
      <4>1. h[k + 1] = [s EXCEPT !.value = Append(s.value, e.value), !.rest = e.rest]
        BY <3>5, <3>6, <3>9 DEF DecodeElement
      <4>2. h[k + 1].status = 0 /\ h[k + 1].rest = e.rest
        BY <3>9, <4>1 DEF Decodings
      <4>4. Len(e.rest) \in Nat /\ Len(s.rest) \in Nat
        BY <3>4 DEF Decodings
      <4>5. Len(e.rest) <= Len(b)
        BY <2>8, <3>2, <3>4, <4>4
      <4> QED BY <3>1, <4>2, <4>5
    <3> QED BY <3>2, <3>4, <3>7, <3>8, <3>9
  <2>11. \A k \in 0..n : k \in S
    <3> HIDE DEF S
    <3> QED BY <2>9, <2>10, UpTo
  <2>12. n \in S /\ h[n] \in Decodings
    BY <2>11
  <2>13. DecodeVector(a, "string") = h[n]
    BY <2>1, <2>2, <2>6, <2>7 DEF DecodeRuns
  <2>14. PICK r \in Decodings : r = h[n] /\ r.status \in Nat /\ Len(r.rest) <= Len(b)
    BY <2>12
  <2>15. Len(r.rest) \in Nat
    BY DEF Decodings
  <2>16. Len(r.rest) <= Len(a)
    BY <2>3, <2>8, <2>14, <2>15
  <2> QED BY <2>13, <2>14, <2>16 DEF Decodings
<1> QED BY <1>2, <1>3

Handled == [rpc : Nat, args : Seq(Anything)]

\* Whatever the bytes are, a turn asks for more or takes some.
LEMMA DispatchAny ==
  ASSUME NEW a \in Seq(Nat)
  PROVE  LET d == Dispatch(a)
         IN /\ d.status \in Int /\ d.rest \in Seq(Nat) /\ d.calls \in Seq(Handled)
            /\ d.status <= 0 => Len(d.rest) < Len(a)
<1>1. PICK num : num = DecodeNumber(a, "uint16")
  OBVIOUS
<1>2. /\ num.status \in Nat /\ num.value \in Nat /\ num.rest \in Seq(Nat)
      /\ num.status = 0 => Len(num.rest) < Len(a)
  BY <1>1, NumberAny
<1>3. <<>> \in Seq(Handled)
  OBVIOUS
<1>4. CASE num.status # 0
  <2>1. Dispatch(a) = [status |-> num.status, rest |-> num.rest, calls |-> <<>>]
    BY <1>1, <1>4 DEF Dispatch
  <2>2. ~(num.status <= 0)
    BY <1>2, <1>4
  <2> QED BY <1>2, <1>3, <2>1, <2>2
<1>5. CASE num.status = 0 /\ num.value \notin Rpcs
  <2>1. Dispatch(a) = [status |-> -1, rest |-> num.rest, calls |-> <<>>]
    BY <1>1, <1>5 DEF Dispatch
  <2>2. PICK b \in Seq(Nat) : b = num.rest /\ Len(b) < Len(a)
    BY <1>2, <1>5
  <2>3. PICK m \in Int : m = -1
    OBVIOUS
  <2>4. PICK d : d = [status |-> m, rest |-> b, calls |-> <<>>]
    OBVIOUS
  <2>5. d.status = m /\ d.rest = b /\ d.calls = <<>>
    BY <2>4
  <2>6. Dispatch(a) = d
    BY <2>1, <2>2, <2>3, <2>4
  <2> QED BY <1>3, <2>2, <2>5, <2>6
<1>6. CASE num.status = 0 /\ num.value \in Rpcs
  <2>1. Dispatch(a) = ParseCall(num.value, num.rest)
    BY <1>1, <1>6 DEF Dispatch
  <2>2. PICK args : args = DecodeVector(num.rest, "string")
    OBVIOUS
  <2>3. /\ args.status \in Nat /\ args.value \in Seq(Anything) /\ args.rest \in Seq(Nat)
        /\ Len(args.rest) <= Len(num.rest)
    BY <1>2, <2>2, VectorAny
  <2>4. Len(args.rest) \in Nat /\ Len(num.rest) \in Nat /\ Len(a) \in Nat
    BY <1>2, <2>3
  <2>5. Len(args.rest) < Len(a)
    BY <1>2, <1>6, <2>3, <2>4
  <2>6. PICK c \in Seq(Handled) :
          c = IF args.status = 0 THEN <<[rpc |-> num.value, args |-> args.value]>> ELSE <<>>
    <3>1. PICK one \in Handled : one = [rpc |-> num.value, args |-> args.value]
      BY <1>2, <2>3 DEF Handled
    <3>2. <<one>> \in Seq(Handled)
      OBVIOUS
    <3> QED BY <1>3, <3>1, <3>2
  <2>7. Dispatch(a) = [status |-> args.status, rest |-> args.rest, calls |-> c]
    BY <2>1, <2>2, <2>6 DEF ParseCall
  <2>8. args.status \in Int
    BY <2>3
  <2> QED BY <2>3, <2>5, <2>7, <2>8
<1> QED BY <1>4, <1>5, <1>6

-----------------------------------------------------------------------------
(* The dispatchers, on what was encoded.                                   *)

Calls == [rpc : Rpcs \union {UnknownRpc}, args : Arguments]

\* The arguments are vectors of strings of a length that 16 bits tell.
LEMMA ArgumentsAre ==
  ASSUME NEW args \in Arguments
  PROVE  /\ args \in Seq(Values("string")) /\ "string" \in Simple
         /\ Len(args) < Weight[Width["uint16"]]
<1> DEFINE kind == [shape |-> "vector", types |-> <<"string">>]
<1>1. args \in ValuesOf(kind)
  BY IpcAssumption
<1>2. kind.shape # "pair" /\ kind.types[1] = "string"
  OBVIOUS
<1>3. PICK n \in 0..MaxLength : args \in [1..n -> Values("string")]
  BY <1>1, <1>2 DEF ValuesOf
<1>4. n \in Nat /\ n < Base * Base
  BY SerializersAssumption
<1>5. args \in Seq(Values("string")) /\ Len(args) = n
  BY <1>3, <1>4
<1> QED BY <1>4, <1>5, WeightValues, WidthValues DEF Simple

\* The number of a call, of all of its bytes and of some.
Headed(code, rpc, e) ==
  /\ \A t \in Seq(Nat) : DecodeNumber(code \o t, "uint16")
                           = [status |-> 0, value |-> rpc, rest |-> e \o t]
  /\ \A k \in Nat : k < Len(code) =>
       \/ DecodeNumber(Take(code, k), "uint16").status > 0
       \/ \E m \in Nat : m < Len(e) /\ DecodeNumber(Take(code, k), "uint16")
                                         = [status |-> 0, value |-> rpc, rest |-> Take(e, m)]

\* The number of a call is read before its arguments.
LEMMA NumberFirst ==
  ASSUME NEW rpc \in Nat, rpc < Weight[Width["uint16"]], NEW e \in Seq(Nat)
  PROVE  \E code \in Seq(Nat) : /\ code = EncodeNumber("uint16", rpc) \o e
                                /\ Len(code) >= 1 /\ Headed(code, rpc, e)
<1>1. PICK w \in Nat : w = Width["uint16"] /\ w >= 1 /\ "uint16" \in Widths
  BY WidthValues
<1>2. PICK h \in Seq(Nat) : h = EncodeNumber("uint16", rpc) /\ Len(h) = w
  BY <1>1, NumberReturns
<1>3. PICK code \in Seq(Nat) : code = h \o e /\ Len(code) = Len(h) + Len(e)
  BY Joined
<1>4. ASSUME NEW t \in Seq(Nat)
      PROVE  DecodeNumber(h \o t, "uint16") = [status |-> 0, value |-> rpc, rest |-> t]
  BY <1>1, <1>2, NumberRead
<1>5. ASSUME NEW t \in Seq(Nat)
      PROVE  DecodeNumber(code \o t, "uint16") = [status |-> 0, value |-> rpc, rest |-> e \o t]
  <2>1. Grouped(h, e, t)
    BY JoinedTwice
  <2>2. PICK u \in Seq(Nat) : u = e \o t
    BY <2>1 DEF Grouped
  <2>3. code \o t = h \o u
    BY <1>3, <2>1, <2>2, Zenon DEF Grouped
  <2> QED BY <1>4, <2>2, <2>3
<1>6. ASSUME NEW k \in Nat, k < Len(code)
      PROVE  \/ DecodeNumber(Take(code, k), "uint16").status > 0
             \/ \E m \in Nat : m < Len(e) /\ DecodeNumber(Take(code, k), "uint16")
                                               = [status |-> 0, value |-> rpc, rest |-> Take(e, m)]
  <2>1. CASE k < w
    <3>1. Take(code, k) = Take(h, k) /\ Len(Take(h, k)) = k
      BY <1>2, <1>3, <2>1, TakeBefore
    <3>2. PICK a \in Seq(Nat) : a = Take(code, k) /\ Len(a) = k
      BY <3>1, TakeKeeps
    <3>3. DecodeNumber(a, "uint16").status > 0
      BY <1>1, <2>1, <3>2, NumberAny
    <3> QED BY <3>2, <3>3
  <2>2. CASE k >= w
    <3>1. PICK m \in Nat : k = w + m
      <4>1. k - w \in Nat /\ k = w + (k - w)
        BY <2>2
      <4> QED BY <4>1
    <3>2. m < Len(e)
      BY <1>2, <1>3, <1>6, <3>1
    <3>3. Take(code, k) = h \o Take(e, m)
      <4>1. Take(h \o e, Len(h) + m) = h \o Take(e, m)
        BY TakeBehind
      <4>2. k = Len(h) + m
        BY <1>2, <3>1
      <4> QED BY <1>3, <4>1, <4>2, Zenon
    <3>4. PICK t \in Seq(Nat) : t = Take(e, m)
      BY TakeKeeps
    <3>5. DecodeNumber(Take(code, k), "uint16") = [status |-> 0, value |-> rpc, rest |-> t]
      BY <1>4, <3>3, <3>4
    <3> QED BY <3>2, <3>4, <3>5
  <2> QED BY <2>1, <2>2
<1>7. Len(code) >= 1
  <2>1. Len(e) \in Nat
    OBVIOUS
  <2> QED BY <1>1, <1>2, <1>3, <2>1
<1> QED BY <1>2, <1>3, <1>5, <1>6, <1>7 DEF Headed

\* What the dispatcher makes of a call: of all of its bytes, and of some.
Dispatched(code, call) ==
  /\ \A t \in Seq(Nat) :
       IF call.rpc \in Rpcs
       THEN Dispatch(code \o t) = [status |-> 0, rest |-> t, calls |-> <<call>>]
       ELSE Dispatch(code \o t).status < 0
  /\ \A k \in Nat : k < Len(code) =>
       IF call.rpc \in Rpcs THEN Dispatch(Take(code, k)).status > 0
       ELSE Dispatch(Take(code, k)).status # 0

\* A call that is known is processed when all of it is there, and asked for before;
\* of one that is not known the number at most is taken.
LEMMA CallDispatched ==
  ASSUME NEW call \in Calls
  PROVE  \E code \in Seq(Nat) : /\ code = EncodeCall(call) /\ Len(code) >= 1
                                /\ Dispatched(code, call)
<1>1. PICK rpc \in Nat, args \in Arguments :
        /\ rpc = call.rpc /\ args = call.args /\ rpc < Weight[Width["uint16"]]
        /\ call = [rpc |-> rpc, args |-> args]
  BY IpcNumbers DEF Calls
<1>2. PICK e \in Seq(Nat) :
        /\ e = EncodeVector("string", args)
        /\ \A t \in Seq(Nat) :
             DecodeVector(e \o t, "string") = [status |-> 0, value |-> args, rest |-> t]
        /\ \A k \in Nat : k < Len(e) =>
             DecodeVector(Take(e, k), "string").status \in 1..(Len(e) - k + 1)
  BY ArgumentsAre, VectorReturns
<1>3. PICK code \in Seq(Nat) : /\ code = EncodeNumber("uint16", rpc) \o e
                               /\ Len(code) >= 1 /\ Headed(code, rpc, e)
  BY <1>1, NumberFirst
<1>4. code = EncodeCall(call)
  BY <1>1, <1>2, <1>3 DEF EncodeCall
<1>5. ASSUME NEW t \in Seq(Nat), rpc \in Rpcs
      PROVE  Dispatch(code \o t) = [status |-> 0, rest |-> t, calls |-> <<call>>]
  <2>1. PICK num : num = DecodeNumber(code \o t, "uint16")
    OBVIOUS
  <2>2. num.status = 0 /\ num.value = rpc /\ num.rest = e \o t
    <3>1. num = [status |-> 0, value |-> rpc, rest |-> e \o t]
      BY <1>3, <2>1, Zenon DEF Headed
    <3>2. PICK u : u = e \o t
      OBVIOUS
    <3>3. num = [status |-> 0, value |-> rpc, rest |-> u]
      BY <3>1, <3>2, Zenon
    <3>4. num.status = 0 /\ num.value = rpc /\ num.rest = u
      BY <3>3
    <3> QED BY <3>2, <3>4, Zenon
  <2>3. Dispatch(code \o t) = ParseCall(rpc, e \o t)
    BY <1>5, <2>1, <2>2 DEF Dispatch
  <2>4. PICK a : a = DecodeVector(e \o t, "string")
    OBVIOUS
  <2>5. a.status = 0 /\ a.value = args /\ a.rest = t
    BY <1>2, <2>4
  <2>6. ParseCall(rpc, e \o t) = [status |-> 0, rest |-> t, calls |-> <<[rpc |-> rpc, args |-> args]>>]
    BY <2>4, <2>5 DEF ParseCall
  <2> QED BY <1>1, <2>3, <2>6
<1>6. ASSUME NEW t \in Seq(Nat), rpc \notin Rpcs PROVE Dispatch(code \o t).status < 0
  <2>1. PICK num : num = DecodeNumber(code \o t, "uint16")
    OBVIOUS
  <2>2. num.status = 0 /\ num.value = rpc
    BY <1>3, <2>1 DEF Headed
  <2>3. Dispatch(code \o t) = [status |-> -1, rest |-> num.rest, calls |-> <<>>]
    BY <1>6, <2>1, <2>2 DEF Dispatch
  <2>4. Dispatch(code \o t).status = -1
    BY <2>3
  <2> QED BY <2>4
<1>7. ASSUME NEW k \in Nat, k < Len(code)
      PROVE  IF rpc \in Rpcs THEN Dispatch(Take(code, k)).status > 0
             ELSE Dispatch(Take(code, k)).status # 0
  <2>1. PICK num : num = DecodeNumber(Take(code, k), "uint16")
    OBVIOUS
  <2>2. CASE num.status > 0
    <3>1. num.status # 0
      BY <2>2
    <3>2. Dispatch(Take(code, k)) = [status |-> num.status, rest |-> num.rest, calls |-> <<>>]
      BY <2>1, <3>1 DEF Dispatch
    <3>3. Dispatch(Take(code, k)).status = num.status
      BY <3>2
    <3> QED BY <2>2, <3>1, <3>3
  <2>3. CASE \E m \in Nat : m < Len(e) /\ num = [status |-> 0, value |-> rpc, rest |-> Take(e, m)]
    <3>1. PICK m \in Nat :
            m < Len(e) /\ num.status = 0 /\ num.value = rpc /\ num.rest = Take(e, m)
      BY <2>3
    <3>2. CASE rpc \in Rpcs
      <4>1. Dispatch(Take(code, k)) = ParseCall(rpc, Take(e, m))
        BY <2>1, <3>1, <3>2 DEF Dispatch
      <4>2. PICK a : a = DecodeVector(Take(e, m), "string")
        OBVIOUS
      <4>3. PICK l \in Nat : l = Len(e)
        OBVIOUS
      <4>4. a.status \in 1..(l - m + 1)
        BY <1>2, <3>1, <4>2, <4>3
      <4>5. ParseCall(rpc, Take(e, m)).status = a.status
        BY <4>2 DEF ParseCall
      <4>6. a.status > 0
        BY <4>3, <4>4
      <4> QED BY <3>2, <4>1, <4>5, <4>6
    <3>3. CASE rpc \notin Rpcs
      <4>1. Dispatch(Take(code, k)) = [status |-> -1, rest |-> num.rest, calls |-> <<>>]
        BY <2>1, <3>1, <3>3 DEF Dispatch
      <4>2. Dispatch(Take(code, k)).status = -1
        BY <4>1
      <4> QED BY <3>3, <4>2
    <3> QED BY <3>2, <3>3
  <2> QED BY <1>3, <1>7, <2>1, <2>2, <2>3 DEF Headed
<1>8. Dispatched(code, call)
  BY <1>1, <1>5, <1>6, <1>7 DEF Dispatched
<1> QED BY <1>3, <1>4, <1>8

\* Of nothing it asks for a number.
LEMMA NothingDispatched == Dispatch(<<>>).status > 0
<1>1. <<>> \in Seq(Nat) /\ Len(<<>>) = 0 /\ Width["uint16"] > 0
  BY WidthValues
<1>2. PICK num : num = DecodeNumber(<<>>, "uint16")
  OBVIOUS
<1>3. num.status > 0 /\ num.status # 0
  <2>1. PICK a \in Seq(Nat) : a = <<>> /\ Len(a) < Width["uint16"]
    BY <1>1
  <2>2. DecodeNumber(a, "uint16").status > 0
    BY <2>1, NumberAny
  <2> QED BY <1>2, <2>1, <2>2
<1>4. Dispatch(<<>>) = [status |-> num.status, rest |-> num.rest, calls |-> <<>>]
  BY <1>2, <1>3 DEF Dispatch
<1> QED BY <1>3, <1>4

-----------------------------------------------------------------------------
(* The loop of HandleRead.                                                 *)

\* What the loop has in hand.
LoopStates == [missing : Nat, rest : Seq(Nat), calls : Seq(Handled), skewed : BOOLEAN]

\* A turn asks for more, or takes some of what there is.
LEMMA TurnTakes ==
  ASSUME NEW so \in LoopStates
  PROVE  /\ DispatchTurn(so) \in LoopStates
         /\ so.missing > 0 => DispatchTurn(so) = so
         /\ DispatchTurn(so).missing > 0 \/ Len(DispatchTurn(so).rest) < Len(so.rest)
<1>1. /\ so.missing \in Nat /\ so.rest \in Seq(Nat) /\ so.calls \in Seq(Handled)
      /\ so.skewed \in BOOLEAN
  BY DEF LoopStates
<1>2. PICK one : one = Dispatch(so.rest)
  OBVIOUS
<1>3. /\ one.status \in Int /\ one.rest \in Seq(Nat) /\ one.calls \in Seq(Handled)
      /\ one.status <= 0 => Len(one.rest) < Len(so.rest)
  BY <1>1, <1>2, DispatchAny
<1>4. CASE so.missing > 0
  <2>1. DispatchTurn(so) = so
    BY <1>4 DEF DispatchTurn
  <2> QED BY <1>4, <2>1
<1>5. CASE ~(so.missing > 0) /\ one.status > 0
  <2>1. DispatchTurn(so) = [so EXCEPT !.missing = one.status]
    BY <1>2, <1>5 DEF DispatchTurn, Continued
  <2>2. one.status \in Nat
    BY <1>3, <1>5
  <2>3. DispatchTurn(so) \in LoopStates /\ DispatchTurn(so).missing = one.status
    BY <2>1, <2>2 DEF LoopStates
  <2> QED BY <1>5, <2>3
<1>6. CASE ~(so.missing > 0) /\ ~(one.status > 0)
  <2>1. PICK c \in Seq(Handled) : c = so.calls \o one.calls
    <3>1. PICK a \in Seq(Handled), b \in Seq(Handled) : a = so.calls /\ b = one.calls
      BY <1>1, <1>3
    <3>2. a \o b \in Seq(Handled)
      OBVIOUS
    <3> QED BY <3>1, <3>2
  <2>2. PICK b \in BOOLEAN : b = (so.skewed \/ one.status < 0)
    BY Zenon
  <2>3. DispatchTurn(so) = [missing |-> 0, rest |-> one.rest, calls |-> so.calls \o one.calls,
                            skewed |-> so.skewed \/ one.status < 0]
    BY <1>2, <1>6 DEF DispatchTurn, Continued
  <2>4. PICK r \in Seq(Nat) : r = one.rest /\ Len(r) < Len(so.rest)
    BY <1>3, <1>6
  <2>5. DispatchTurn(so) = [missing |-> 0, rest |-> r, calls |-> c, skewed |-> b]
    BY <2>1, <2>2, <2>3, <2>4, Zenon
  <2>6. DispatchTurn(so) \in LoopStates /\ DispatchTurn(so).rest = r
    BY <2>5 DEF LoopStates
  <2> QED BY <1>6, <2>4, <2>6
<1> QED BY <1>4, <1>5, <1>6

LoopStart(bytes) == [missing |-> 0, rest |-> bytes, calls |-> <<>>, skewed |-> FALSE]
LoopRuns(h, bytes) ==
  /\ h[0] = LoopStart(bytes)
  /\ \A k \in 0..Len(bytes) : h[k + 1] = DispatchTurn(h[k])
  /\ DispatchAll(bytes) = h[Len(bytes) + 1]

\* The loop, turn by turn.
LEMMA LoopTurns ==
  ASSUME NEW bytes \in Seq(Nat)
  PROVE  \E h \in [0..(Len(bytes) + 1) -> LoopStates] : LoopRuns(h, bytes)
<1> DEFINE n == Len(bytes) + 1
           d == LoopStart(bytes)
           at == [i \in 1..n |-> i]
           Turns(h) == h = [s \in SUBSET (1..n) |->
                              IF s = {} THEN d ELSE DispatchTurn(h[s \ {Max(s)}])]
           iter == CHOOSE h : Turns(h)
           f == [i \in Nat |-> [so \in LoopStates |-> DispatchTurn(so)]]
<1>0. n \in Nat /\ Len(bytes) \in Nat /\ d \in LoopStates
  <2>1. <<>> \in Seq(Handled)
    OBVIOUS
  <2> QED BY <2>1 DEF LoopStart, LoopStates
<1>1. DispatchAll(bytes) = iter[1..n]
  BY <1>0 DEF DispatchAll, FoldLeft, MapThenFoldSet, LoopStart
<1> HIDE DEF d
<1>2. \E h : Turns(h)
  <2>1. f \in [Nat -> [LoopStates -> LoopStates]]
    BY TurnTakes
  <2>2. PICK h \in [SUBSET (1..n) -> LoopStates] : FromLast(h, f, d, n)
    <3> HIDE DEF f, n
    <3> QED BY <1>0, <2>1, Iterates
  <2>3. ASSUME NEW s \in SUBSET (1..n)
        PROVE  h[s] = IF s = {} THEN d ELSE DispatchTurn(h[s \ {Max(s)}])
    <3>1. CASE s = {}
      BY <2>2, <3>1 DEF FromLast
    <3>2. CASE s # {}
      <4>1. h[s \ {Max(s)}] \in LoopStates
        OBVIOUS
      <4>2. Max(s) \in Nat
        BY <1>0, <3>2, MaxIsOne
      <4> QED BY <2>2, <3>2, <4>1, <4>2 DEF FromLast
    <3> QED BY <3>1, <3>2
  <2>4. Turns(h)
    BY <2>3
  <2> QED BY <2>4
<1>3. Turns(iter)
  BY <1>2
<1> HIDE DEF iter
<1> DEFINE g == [k \in 0..n |-> iter[1..k]]
<1>4. g[0] = d
  <2>1. 1..0 = {}
    OBVIOUS
  <2> QED BY <1>0, <1>3, <2>1
<1>5. ASSUME NEW k \in 0..(n - 1) PROVE g[k + 1] = DispatchTurn(g[k])
  <2>1. 1..(k + 1) \in SUBSET (1..n) /\ k \in 0..n /\ k + 1 \in 0..n /\ k \in Nat
    BY <1>0
  <2>2. /\ Max(1..(k + 1)) = k + 1
        /\ 1..(k + 1) # {} /\ (1..(k + 1)) \ {k + 1} = 1..k
    BY <2>1, LastOfInterval
  <2> QED BY <1>3, <2>1, <2>2
<1>6. g[n] = iter[1..n]
  BY <1>0
<1> DEFINE S == {k \in 0..n : g[k] \in LoopStates}
<1> HIDE DEF g
<1>7. \A k \in 0..n : k \in S
  <2>1. 0 \in S
    BY <1>0, <1>4
  <2>2. ASSUME NEW k \in 0..(n - 1), k \in S PROVE k + 1 \in S
    <3>1. g[k] \in LoopStates /\ k + 1 \in 0..n
      BY <1>0, <2>2
    <3> QED BY <1>5, <3>1, TurnTakes
  <2> HIDE DEF S
  <2> QED BY <1>0, <2>1, <2>2, UpTo
<1>8. g \in [0..n -> LoopStates]
  <2>1. \A k \in 0..n : g[k] \in LoopStates
    BY <1>7
  <2> QED BY <2>1 DEF g
<1>9. LoopRuns(g, bytes)
  <2>1. \A k \in 0..Len(bytes) : k \in 0..(n - 1)
    BY <1>0
  <2> QED BY <1>1, <1>4, <1>5, <1>6, <2>1 DEF LoopRuns, d
<1> QED BY <1>8, <1>9

\* The turns are enough: in the end more is asked for.
LEMMA LoopEnded ==
  ASSUME NEW bytes \in Seq(Nat)
  PROVE  DispatchAll(bytes) \in LoopStates /\ DispatchAll(bytes).missing > 0
<1>1. PICK h \in [0..(Len(bytes) + 1) -> LoopStates] : LoopRuns(h, bytes)
  BY LoopTurns
<1>2. PICK n \in Nat : n = Len(bytes)
  OBVIOUS
<1> DEFINE S == {k \in 0..(n + 1) : h[k].missing > 0 \/ Len(h[k].rest) + k <= n}
<1>3. 0 \in S
  <2>1. h[0] = LoopStart(bytes)
    BY <1>1 DEF LoopRuns
  <2>2. h[0].rest = bytes
    BY <2>1 DEF LoopStart
  <2> QED BY <1>2, <2>2
<1>4. ASSUME NEW k \in 0..n, k \in S PROVE k + 1 \in S
  <2>1. PICK so \in LoopStates : so = h[k]
    BY <1>2
  <2>2. h[k + 1] = DispatchTurn(so)
    BY <1>1, <1>2, <2>1 DEF LoopRuns
  <2>3. PICK p \in LoopStates : /\ p = DispatchTurn(so)
                                /\ so.missing > 0 => p = so
                                /\ p.missing > 0 \/ Len(p.rest) < Len(so.rest)
    BY TurnTakes
  <2>4. Len(p.rest) \in Nat /\ Len(so.rest) \in Nat /\ k + 1 \in 0..(n + 1)
    BY DEF LoopStates
  <2>5. p.missing > 0 \/ Len(p.rest) + (k + 1) <= n
    BY <1>4, <2>1, <2>3, <2>4
  <2> QED BY <2>2, <2>3, <2>4, <2>5
<1>5. \A k \in 0..(n + 1) : k \in S
  <2>1. n + 1 \in Nat /\ (n + 1) - 1 = n
    OBVIOUS
  <2> HIDE DEF S
  <2> QED BY <1>3, <1>4, <2>1, UpTo
<1>6. PICK so \in LoopStates : so = h[n + 1] /\ (so.missing > 0 \/ Len(so.rest) + (n + 1) <= n)
  <2>1. n + 1 \in 0..(n + 1)
    OBVIOUS
  <2> QED BY <1>2, <1>5, <2>1
<1>7. Len(so.rest) \in Nat
  BY DEF LoopStates
<1>8. so.missing > 0
  BY <1>6, <1>7
<1>9. DispatchAll(bytes) = so
  BY <1>1, <1>2, <1>6 DEF LoopRuns
<1> QED BY <1>8, <1>9

-----------------------------------------------------------------------------
(* The loop on the bytes of a list of calls.                               *)

\* Calls are as they are handled.
LEMMA CallsAreHandled == \A call \in Calls : call \in Handled
<1> SUFFICES ASSUME NEW call \in Calls PROVE call \in Handled
  OBVIOUS
<1>1. call.rpc \in Nat /\ call.args \in Arguments /\ call = [rpc |-> call.rpc, args |-> call.args]
  BY IpcNumbers DEF Calls
<1>2. call.args \in Seq(Anything)
  <2>1. call.args \in Seq(Values("string")) /\ "string" \in Simple
    BY <1>1, ArgumentsAre
  <2>2. \A x \in Values("string") : x \in Anything
    BY <2>1, ValuesAre
  <2> QED BY <2>1, <2>2
<1> QED BY <1>1, <1>2 DEF Handled

\* The beginning of a list.
LEMMA FirstOf ==
  ASSUME NEW T, NEW list \in Seq(T), NEW m \in 0..Len(list)
  PROVE  /\ SubSeq(list, 1, m) \in Seq(T) /\ Len(SubSeq(list, 1, m)) = m
         /\ \A i \in 1..m : SubSeq(list, 1, m)[i] = list[i]
OBVIOUS

\* The beginnings of a list, one longer than the other.
LEMMA OneMore ==
  ASSUME NEW T, NEW list \in Seq(T), NEW j \in 0..(Len(list) - 1)
  PROVE  /\ SubSeq(list, 1, j) \in Seq(T)
         /\ SubSeq(list, 1, j) \o <<list[j + 1]>> = SubSeq(list, 1, j + 1)
<1>1. j \in 0..Len(list) /\ j + 1 \in 0..Len(list) /\ list[j + 1] \in T
  OBVIOUS
<1>2. <<list[j + 1]>> \in Seq(T)
  BY <1>1
<1>3. PICK a \in Seq(T) : /\ a = SubSeq(list, 1, j) /\ Len(a) = j
                          /\ \A i \in 1..j : a[i] = list[i]
  <2>1. /\ SubSeq(list, 1, j) \in Seq(T) /\ Len(SubSeq(list, 1, j)) = j
        /\ \A i \in 1..j : SubSeq(list, 1, j)[i] = list[i]
    BY <1>1
  <2> QED BY <2>1, Zenon
<1>4. PICK b \in Seq(T) : /\ b = SubSeq(list, 1, j + 1) /\ Len(b) = j + 1
                          /\ \A i \in 1..(j + 1) : b[i] = list[i]
  <2>1. /\ SubSeq(list, 1, j + 1) \in Seq(T) /\ Len(SubSeq(list, 1, j + 1)) = j + 1
        /\ \A i \in 1..(j + 1) : SubSeq(list, 1, j + 1)[i] = list[i]
    BY <1>1
  <2> QED BY <2>1, Zenon
<1>5. PICK x \in T : x = list[j + 1]
  BY <1>1
<1>6. a \o <<x>> = b
  <2>1. a \o <<x>> = Append(a, x)
    OBVIOUS
  <2>2. Append(a, x) \in Seq(T) /\ Len(Append(a, x)) = j + 1
    BY <1>3
  <2>3. \A i \in 1..(j + 1) : Append(a, x)[i] = b[i]
    BY <1>3, <1>4, <1>5
  <2> QED BY <1>4, <2>1, <2>2, <2>3, SameSeq
<1> QED BY <1>3, <1>4, <1>5, <1>6

\* Putting together, of anything.
LEMMA JoinedAny ==
  ASSUME NEW T, NEW a \in Seq(T), NEW b \in Seq(T), NEW c \in Seq(T)
  PROVE  (a \o b) \o c = a \o (b \o c)
OBVIOUS

\* The codes of a list of calls.
LEMMA CallCodesAre ==
  ASSUME NEW list \in Seq(Calls)
  PROVE  /\ CallCodes(list) \in Codes /\ Len(CallCodes(list)) = Len(list)
         /\ \A i \in 1..Len(list) : CallCodes(list)[i] = EncodeCall(list[i])
<1>1. DOMAIN list = 1..Len(list) /\ Len(list) \in Nat
  OBVIOUS
<1>2. ASSUME NEW i \in 1..Len(list) PROVE EncodeCall(list[i]) \in Seq(Nat)
  <2>1. list[i] \in Calls
    OBVIOUS
  <2> QED BY <2>1, CallDispatched
<1>3. CallCodes(list) = [i \in 1..Len(list) |-> EncodeCall(list[i])]
  BY <1>1 DEF CallCodes
<1>4. ASSUME NEW n \in Nat, n = Len(list)
      PROVE  CallCodes(list) \in Codes /\ Len(CallCodes(list)) = n
  BY <1>2, <1>3, <1>4 DEF Codes
<1> QED BY <1>1, <1>3, <1>4

\* The loop has taken the calls up to the j-th, and what it has left and will
\* be read lies behind that.
Stands(so, list, tail, more, done, j) ==
  /\ done \o so.calls = SubSeq(list, 1, j)
  /\ so.rest \o more = tail[j]
  /\ so.missing > 0 /\ j < Len(list) => Len(so.rest) < Len(EncodeCall(list[j + 1]))
InStep(so, list, tail, more, done) ==
  ~so.skewed => \E j \in 0..Len(list) : Stands(so, list, tail, more, done, j)

\* A first part that goes beyond another.
Beyond(a, b, c, d) == \E r \in Seq(Nat) : a = c \o r /\ r \o b = d

\* Two ways to cut the same bytes in two: the first part of one is cut short in that
\* of the other, or goes beyond it.
LEMMA CutTwice ==
  ASSUME NEW a \in Seq(Nat), NEW b \in Seq(Nat), NEW c \in Seq(Nat), NEW d \in Seq(Nat),
         a \o b = c \o d
  PROVE  /\ Len(a) < Len(c) => a = Take(c, Len(a))
         /\ Len(a) >= Len(c) => Beyond(a, b, c, d)
<1>1. PICK x \in Nat, y \in Nat : x = Len(a) /\ y = Len(c)
  OBVIOUS
<1>2. Take(c \o d, x) = a
  BY <1>1, TakeFirst
<1>3. ASSUME x < y PROVE a = Take(c, x)
  <2>1. Take(c \o d, x) = Take(c, x)
    BY <1>1, <1>3, TakeBefore
  <2> QED BY <1>2, <2>1
<1>4. ASSUME x >= y PROVE Beyond(a, b, c, d)
  <2>1. PICK m \in Nat : x = y + m
    <3>1. x - y \in Nat /\ x = y + (x - y)
      BY <1>4
    <3> QED BY <3>1
  <2>2. Take(c \o d, Len(c) + m) = c \o Take(d, m)
    BY TakeBehind
  <2>3. PICK r \in Seq(Nat) : r = Take(d, m)
    BY TakeKeeps
  <2>4. a = c \o r
    BY <1>1, <1>2, <2>1, <2>2, <2>3, Zenon
  <2>5. Grouped(c, r, b)
    BY JoinedTwice
  <2>6. PICK u \in Seq(Nat) : u = r \o b
    BY <2>5 DEF Grouped
  <2>7. c \o u = c \o d
    BY <2>4, <2>5, <2>6, Zenon DEF Grouped
  <2>8. Drop(c \o u, Len(c)) = u /\ Drop(c \o d, Len(c)) = d
    BY TakeFirst
  <2> QED BY <2>4, <2>6, <2>7, <2>8 DEF Beyond
<1> QED BY <1>1, <1>3, <1>4

\* A beginning and what is behind it are the whole.
LEMMA TakeAndDrop ==
  ASSUME NEW a \in Seq(Nat), NEW n \in 0..Len(a)
  PROVE  /\ Take(a, n) \in Seq(Nat) /\ Drop(a, n) \in Seq(Nat)
         /\ Len(Drop(a, n)) = Len(a) - n /\ Take(a, n) \o Drop(a, n) = a
<1>1. PICK l \in Nat : l = Len(a) /\ n \in Nat /\ n <= l
  OBVIOUS
<1>2. PICK b \in Seq(Nat) : b = Take(a, n) /\ Len(b) = n /\ \A i \in 1..n : b[i] = a[i]
  <2>1. /\ Take(a, n) \in Seq(Nat)
        /\ n < Len(a) => Len(Take(a, n)) = n
        /\ n >= Len(a) => Len(Take(a, n)) = Len(a)
        /\ \A i \in 1..Len(Take(a, n)) : Take(a, n)[i] = a[i]
    BY <1>1, TakeKeeps
  <2>2. Len(Take(a, n)) = n
    BY <1>1, <2>1
  <2> QED BY <2>1, <2>2
<1>3. PICK c \in Seq(Nat) : /\ c = Drop(a, n) /\ Len(c) = l - n
                            /\ \A i \in 1..(l - n) : c[i] = a[n + i]
  <2>1. Drop(a, n) = SubSeq(a, n + 1, l)
    BY <1>1 DEF Drop
  <2>2. /\ SubSeq(a, n + 1, l) \in Seq(Nat) /\ Len(SubSeq(a, n + 1, l)) = l - n
        /\ \A i \in 1..(l - n) : SubSeq(a, n + 1, l)[i] = a[n + i]
    BY <1>1
  <2> QED BY <2>1, <2>2
<1>4. PICK e \in Seq(Nat) : /\ e = b \o c /\ Len(e) = Len(b) + Len(c)
                            /\ \A i \in 1..Len(b) : e[i] = b[i]
                            /\ \A i \in 1..Len(c) : e[Len(b) + i] = c[i]
  <2>1. /\ b \o c \in Seq(Nat) /\ Len(b \o c) = Len(b) + Len(c)
        /\ \A i \in 1..Len(b) : (b \o c)[i] = b[i]
        /\ \A i \in 1..Len(c) : (b \o c)[Len(b) + i] = c[i]
    BY Joined
  <2> QED BY <2>1, Zenon
<1>5. /\ Len(e) = l /\ \A i \in 1..n : e[i] = a[i]
      /\ \A i \in 1..(l - n) : e[n + i] = a[n + i]
  <2>1. Len(b) = n /\ Len(c) = l - n
    BY <1>2, <1>3
  <2>2. \A i \in 1..n : e[i] = a[i]
    BY <1>2, <1>4, <2>1
  <2>3. \A i \in 1..(l - n) : e[n + i] = a[n + i]
    BY <1>3, <1>4, <2>1
  <2>4. Len(e) = n + (l - n)
    BY <1>4, <2>1
  <2>5. n + (l - n) = l
    BY <1>1
  <2> QED BY <2>2, <2>3, <2>4, <2>5, Zenon
<1>6. ASSUME NEW i \in 1..l PROVE e[i] = a[i]
  <2>1. CASE i <= n
    BY <1>1, <1>5, <2>1
  <2>2. CASE i > n
    <3>1. PICK j \in 1..(l - n) : i = n + j
      <4>1. i - n \in 1..(l - n) /\ i = n + (i - n)
        BY <1>1, <2>2
      <4> QED BY <4>1
    <3>2. e[n + j] = a[n + j]
      BY <1>5, <3>1
    <3> QED BY <3>1, <3>2, Zenon
  <2> QED BY <1>1, <2>1, <2>2
<1>7. e = a
  BY <1>1, <1>5, <1>6, SameSeq
<1> QED BY <1>1, <1>2, <1>3, <1>4, <1>7, Zenon

\* The calls of three pieces.
LEMMA CallsJoined ==
  \A a, b, c \in Seq(Handled) : (a \o b) \o c = a \o (b \o c)
BY JoinedAny

\* Each turn takes the next call, or asks for more of it.
LEMMA TurnInStep ==
  ASSUME NEW list \in Seq(Calls), NEW tail \in [0..Len(list) -> Seq(Nat)],
         Behind(tail, CallCodes(list)), NEW more \in Seq(Nat), NEW done \in Seq(Handled),
         NEW so \in LoopStates, InStep(so, list, tail, more, done)
  PROVE  InStep(DispatchTurn(so), list, tail, more, done)
<1>1. /\ so.missing \in Nat /\ so.rest \in Seq(Nat) /\ so.calls \in Seq(Handled)
      /\ so.skewed \in BOOLEAN
  BY DEF LoopStates
<1>2. CASE so.missing > 0
  BY <1>2, TurnTakes
<1>3. CASE ~(so.missing > 0)
  <2> SUFFICES ASSUME ~DispatchTurn(so).skewed
               PROVE  \E j \in 0..Len(list) : Stands(DispatchTurn(so), list, tail, more, done, j)
    BY DEF InStep
  <2>1. PICK one : one = Dispatch(so.rest)
    OBVIOUS
  <2>2. one.status \in Int
    BY <1>1, <2>1, DispatchAny
  <2>3. ASSUME one.status > 0
        PROVE  /\ DispatchTurn(so).rest = so.rest /\ DispatchTurn(so).calls = so.calls
               /\ DispatchTurn(so).skewed = so.skewed
    <3>1. DispatchTurn(so) = [so EXCEPT !.missing = one.status]
      BY <1>3, <2>1, <2>3 DEF DispatchTurn, Continued
    <3> QED BY <3>1 DEF LoopStates
  <2>4. ASSUME ~(one.status > 0)
        PROVE  DispatchTurn(so) = [missing |-> 0, rest |-> one.rest,
                                   calls |-> so.calls \o one.calls,
                                   skewed |-> so.skewed \/ one.status < 0]
    BY <1>3, <2>1, <2>4 DEF DispatchTurn, Continued
  <2>5. ASSUME ~(one.status > 0) PROVE ~so.skewed /\ ~(one.status < 0)
    <3>1. DispatchTurn(so).skewed = (so.skewed \/ one.status < 0)
      <4>1. PICK x : x = so.calls \o one.calls
        OBVIOUS
      <4>2. DispatchTurn(so) = [missing |-> 0, rest |-> one.rest, calls |-> x,
                                skewed |-> so.skewed \/ one.status < 0]
        BY <2>4, <2>5, <4>1, Zenon
      <4> QED BY <4>2
    <3> QED BY <3>1
  <2>6. ~so.skewed
    BY <2>3, <2>5
  <2>7. PICK j \in 0..Len(list) : Stands(so, list, tail, more, done, j)
    BY <2>6 DEF InStep
  <2>8. PICK n \in Nat : n = Len(list) /\ j \in 0..n /\ n = Len(CallCodes(list))
    BY CallCodesAre
  <2>9. CASE j = n
    <3>1. so.rest \o more = <<>>
      BY <2>7, <2>8, <2>9 DEF Stands, Behind
    <3>2. so.rest = <<>>
      BY <1>1, <3>1
    <3>3. one.status > 0
      BY <2>1, <3>2, NothingDispatched
    <3>4. Stands(DispatchTurn(so), list, tail, more, done, j)
      <4>1. ~(j < Len(list))
        BY <2>8, <2>9
      <4> QED BY <2>3, <2>7, <3>3, <4>1, Zenon DEF Stands
    <3> QED BY <3>4
  <2>10. CASE j # n
    <3>1. j \in 0..(n - 1) /\ j + 1 \in 1..n /\ j + 1 \in 0..n
      BY <2>8, <2>10
    <3>2. PICK call \in Calls : call = list[j + 1]
      <4>1. \A i \in 1..Len(list) : list[i] \in Calls
        OBVIOUS
      <4> QED BY <2>8, <3>1, <4>1, Zenon
    <3>3. PICK code \in Seq(Nat) : code = EncodeCall(call) /\ Dispatched(code, call)
      BY CallDispatched
    <3>4. PICK t \in Seq(Nat) : t = tail[j + 1]
      BY <2>8, <3>1
    <3>5. tail[j] = code \o t
      <4>1. CallCodes(list)[j + 1] = code
        BY <2>8, <3>1, <3>2, <3>3, CallCodesAre
      <4> QED BY <2>8, <3>1, <3>4, <4>1, Zenon DEF Behind
    <3>6. PICK a \in Seq(Nat) : a = so.rest
      BY <1>1
    <3>7. a \o more = code \o t
      BY <2>7, <3>5, <3>6, Zenon DEF Stands
    <3>8. PICK x \in Nat, y \in Nat : x = Len(a) /\ y = Len(code)
      OBVIOUS
    <3>9. CASE x < y
      <4>1. a = Take(code, x)
        BY <3>7, <3>8, <3>9, CutTwice
      <4>2. one.status # 0
        <5>1. IF call.rpc \in Rpcs THEN Dispatch(Take(code, x)).status > 0
              ELSE Dispatch(Take(code, x)).status # 0
          BY <3>3, <3>8, <3>9 DEF Dispatched
        <5>2. one = Dispatch(Take(code, x))
          BY <2>1, <3>6, <4>1
        <5> QED BY <2>2, <5>1, <5>2
      <4>3. one.status > 0
        BY <2>2, <2>5, <4>2
      <4>4. Len(so.rest) < Len(EncodeCall(list[j + 1]))
        BY <3>2, <3>3, <3>6, <3>8, <3>9
      <4>5. Stands(DispatchTurn(so), list, tail, more, done, j)
        BY <2>3, <2>7, <4>3, <4>4, Zenon DEF Stands
      <4> QED BY <4>5
    <3>10. CASE x >= y
      <4>1. PICK r \in Seq(Nat) : a = code \o r /\ r \o more = t
        <5>1. Beyond(a, more, code, t)
          BY <3>7, <3>8, <3>10, CutTwice
        <5> QED BY <5>1, Zenon DEF Beyond
      <4>2. one = Dispatch(code \o r)
        BY <2>1, <3>6, <4>1, Zenon
      <4>3. call.rpc \in Rpcs
        <5>1. call.rpc \notin Rpcs => one.status < 0
          BY <3>3, <4>2, Zenon DEF Dispatched
        <5> QED BY <2>2, <2>5, <5>1
      <4>4. one = [status |-> 0, rest |-> r, calls |-> <<call>>]
        BY <3>3, <4>2, <4>3, Zenon DEF Dispatched
      <4>5. one.status = 0 /\ one.rest = r /\ one.calls = <<call>>
        BY <4>4
      <4>6. PICK c : c = so.calls \o <<call>>
        OBVIOUS
      <4>7. /\ DispatchTurn(so).missing = 0 /\ DispatchTurn(so).rest = r
            /\ DispatchTurn(so).calls = c
        <5>1. ~(one.status > 0)
          BY <4>5
        <5>2. DispatchTurn(so) = [missing |-> 0, rest |-> r, calls |-> c,
                                  skewed |-> so.skewed \/ one.status < 0]
          BY <2>4, <4>5, <4>6, <5>1, Zenon
        <5> QED BY <5>2
      <4>8. done \o c = SubSeq(list, 1, j + 1)
        <5>1. list \in Seq(Handled) /\ call \in Handled
          BY CallsAreHandled
        <5>2. <<call>> \in Seq(Handled)
          BY <5>1
        <5>3. (done \o so.calls) \o <<call>> = done \o (so.calls \o <<call>>)
          <6>1. PICK p \in Seq(Handled), q \in Seq(Handled) : p = so.calls /\ q = <<call>>
            BY <1>1, <5>2
          <6>2. (done \o p) \o q = done \o (p \o q)
            BY CallsJoined, Zenon
          <6> QED BY <6>1, <6>2, Zenon
        <5>4. SubSeq(list, 1, j) \o <<list[j + 1]>> = SubSeq(list, 1, j + 1)
          BY <2>8, <3>1, <5>1, OneMore
        <5>5. done \o so.calls = SubSeq(list, 1, j)
          BY <2>7 DEF Stands
        <5> QED BY <3>2, <4>6, <5>3, <5>4, <5>5, Zenon
      <4>9. Stands(DispatchTurn(so), list, tail, more, done, j + 1)
        <5>1. ~(DispatchTurn(so).missing > 0)
          BY <4>7
        <5> QED BY <3>4, <4>1, <4>7, <4>8, <5>1, Zenon DEF Stands
      <4> QED BY <2>8, <3>1, <4>9
    <3> QED BY <3>8, <3>9, <3>10
  <2> QED BY <2>9, <2>10
<1> QED BY <1>2, <1>3

\* The loop takes every call that is there, and stops in the next.
LEMMA LoopInStep ==
  ASSUME NEW list \in Seq(Calls), NEW tail \in [0..Len(list) -> Seq(Nat)],
         Behind(tail, CallCodes(list)), NEW more \in Seq(Nat), NEW bytes \in Seq(Nat),
         NEW j \in 0..Len(list), bytes \o more = tail[j]
  PROVE  InStep(DispatchAll(bytes), list, tail, more, SubSeq(list, 1, j))
<1>1. PICK h \in [0..(Len(bytes) + 1) -> LoopStates] : LoopRuns(h, bytes)
  BY LoopTurns
<1>2. PICK n \in Nat : n = Len(bytes)
  OBVIOUS
<1>3. PICK done \in Seq(Handled) : done = SubSeq(list, 1, j)
  <2>1. list \in Seq(Handled)
    BY CallsAreHandled
  <2> QED BY <2>1, FirstOf
<1> DEFINE S == {k \in 0..(n + 1) : InStep(h[k], list, tail, more, done)}
<1>4. 0 \in S
  <2>1. h[0] = LoopStart(bytes)
    BY <1>1 DEF LoopRuns
  <2>2. h[0].rest = bytes /\ h[0].calls = <<>> /\ h[0].missing = 0
    BY <2>1 DEF LoopStart
  <2>3. done \o <<>> = done /\ ~(0 > 0)
    OBVIOUS
  <2>4. Stands(h[0], list, tail, more, done, j)
    BY <1>3, <2>2, <2>3, Zenon DEF Stands
  <2> QED BY <1>2, <2>4 DEF InStep
<1>5. ASSUME NEW k \in 0..n, k \in S PROVE k + 1 \in S
  <2>1. h[k] \in LoopStates /\ InStep(h[k], list, tail, more, done)
    BY <1>2, <1>5
  <2>2. h[k + 1] = DispatchTurn(h[k])
    BY <1>1, <1>2 DEF LoopRuns
  <2>3. InStep(DispatchTurn(h[k]), list, tail, more, done)
    BY <2>1, TurnInStep
  <2> QED BY <2>2, <2>3
<1>6. \A k \in 0..(n + 1) : k \in S
  <2>1. n + 1 \in Nat /\ (n + 1) - 1 = n
    OBVIOUS
  <2> HIDE DEF S
  <2> QED BY <1>4, <1>5, <2>1, UpTo
<1>7. n + 1 \in S
  BY <1>6
<1> QED BY <1>1, <1>2, <1>3, <1>7 DEF LoopRuns

\* What the daemon's parser makes of the arguments: of all their bytes, and of some.
Parsed(e, request) ==
  /\ \A t \in Seq(Nat) : ParseRequest(request.rpc, e \o t)
                           = [status |-> 0, rest |-> t, calls |-> <<request>>]
  /\ \A k \in Nat : k < Len(e) => ParseRequest(request.rpc, Take(e, k)).status > 0

\* A request of a kind has that number.
LEMMA RequestsAre ==
  \A ns, s : \A r \in [rpc : ns, args : s] :
    \E n \in ns, a \in s : r = [rpc |-> n, args |-> a]
OBVIOUS

\* The arguments of a request are read as its number tells.
LEMMA ArgumentsParsed ==
  ASSUME NEW request \in Requests
  PROVE  \E e \in Seq(Nat) : /\ EncodeRequest(request) = EncodeNumber("uint16", request.rpc) \o e
                             /\ Parsed(e, request)
<1>1. GetParameterFromUserReply \notin {1, 2}
  BY IpcNumbers
<1>2. CASE request \in [rpc : {ClientConnectRequest}, args : {<<s>> : s \in Strings}]
  <2>1. PICK s \in Strings : request = [rpc |-> 1, args |-> <<s>>]
    <3>1. PICK args \in {<<s>> : s \in Strings} : request = [rpc |-> 1, args |-> args]
      <4>1. PICK n \in {ClientConnectRequest}, args \in {<<s>> : s \in Strings} :
              request = [rpc |-> n, args |-> args]
        BY <1>2, RequestsAre, Zenon
      <4> QED BY <4>1 DEF ClientConnectRequest
    <3>2. PICK s \in Strings : args = <<s>>
      BY <3>1
    <3> QED BY <3>1, <3>2, Zenon
  <2>2. Shape(1) = "string" /\ request.rpc = 1 /\ request.args[1] = s
    <3>1. PICK args : args = <<s>>
      OBVIOUS
    <3>2. request.rpc = 1 /\ request.args = args
      BY <2>1, <3>1
    <3>3. args[1] = s
      BY <3>1
    <3>4. Shape(1) = "string"
      BY DEF Shape, ClientConnectRequest, ServerShowClientsRequest
    <3> QED BY <3>2, <3>3, <3>4
  <2>3. PICK e \in Seq(Nat) : e = EncodeString(s) /\ Reads("string", e, s) /\ Asks("string", e)
    BY StringReturns DEF EncodeSimple
  <2>4. EncodeRequest(request) = EncodeNumber("uint16", request.rpc) \o e
    BY <2>2, <2>3 DEF EncodeRequest
  <2>5. ASSUME NEW a, NEW bytes, a = DecodeString(bytes)
        PROVE  ParseRequest(1, bytes)
                 = [status |-> a.status, rest |-> a.rest,
                    calls  |-> IF a.status = 0 THEN <<[rpc |-> 1, args |-> <<a.value>>]>> ELSE <<>>]
    BY <2>2, <2>5 DEF ParseRequest
  <2>6. ASSUME NEW t \in Seq(Nat)
        PROVE  ParseRequest(1, e \o t) = [status |-> 0, rest |-> t, calls |-> <<request>>]
    <3>1. PICK a : a = DecodeString(e \o t)
      OBVIOUS
    <3>2. a.status = 0 /\ a.value = s /\ a.rest = t
      BY <2>3, <3>1 DEF Reads, DecodeSimple
    <3> QED BY <2>1, <2>5, <3>1, <3>2
  <2>7. ASSUME NEW k \in Nat, k < Len(e) PROVE ParseRequest(1, Take(e, k)).status > 0
    <3>1. PICK a : a = DecodeString(Take(e, k))
      OBVIOUS
    <3>2. PICK l \in Nat : l = Len(e)
      OBVIOUS
    <3>3. a.status \in 1..(l - k)
      BY <2>3, <2>7, <3>1, <3>2 DEF Asks, DecodeSimple
    <3>4. ParseRequest(1, Take(e, k)).status = a.status
      BY <2>5, <3>1
    <3> QED BY <3>2, <3>3, <3>4
  <2> QED BY <2>2, <2>4, <2>6, <2>7 DEF Parsed
<1>3. CASE request \in [rpc : {ServerShowClientsRequest}, args : {<<>>}]
  <2>1. request = [rpc |-> 2, args |-> <<>>]
    <3>1. PICK n \in {ServerShowClientsRequest}, args \in {<<>>} :
            request = [rpc |-> n, args |-> args]
      BY <1>3, RequestsAre, Zenon
    <3> QED BY <3>1 DEF ServerShowClientsRequest
  <2>2. Shape(2) = "nothing" /\ request.rpc = 2
    BY <2>1 DEF Shape, ClientConnectRequest, ServerShowClientsRequest
  <2>3. PICK e \in Seq(Nat) : e = <<>> /\ Len(e) = 0
    <3>1. <<>> \in Seq(Nat) /\ Len(<<>>) = 0
      OBVIOUS
    <3> QED BY <3>1, Zenon
  <2>4. EncodeRequest(request) = EncodeNumber("uint16", request.rpc) \o e
    <3>1. EncodeRequest(request) = EncodeNumber("uint16", request.rpc) \o <<>>
      BY <2>2 DEF EncodeRequest
    <3> QED BY <2>3, <3>1, Zenon
  <2>5. ASSUME NEW t \in Seq(Nat)
        PROVE  ParseRequest(2, t) = [status |-> 0, rest |-> t, calls |-> <<request>>]
    BY <2>1, <2>2 DEF ParseRequest
  <2>6. ASSUME NEW t \in Seq(Nat) PROVE e \o t = t
    <3>1. <<>> \o t = t
      OBVIOUS
    <3> QED BY <2>3, <3>1, Zenon
  <2>7. ASSUME NEW k \in Nat PROVE ~(k < Len(e))
    BY <2>3
  <2> QED BY <2>2, <2>4, <2>5, <2>6, <2>7 DEF Parsed
<1>4. CASE request \in [rpc : {RequestServerStatusRequest, GetParameterFromUserReply},
                         args : Arguments]
  <2>1. PICK rpc \in {RequestServerStatusRequest, GetParameterFromUserReply}, args \in Arguments :
          request = [rpc |-> rpc, args |-> args]
    BY <1>4, RequestsAre, Zenon
  <2>2. request.rpc = rpc /\ request.args = args /\ rpc \notin {1, 2}
    BY <1>1, <2>1 DEF RequestServerStatusRequest
  <2>3. Shape(rpc) = "vector"
    BY <2>2 DEF Shape, ClientConnectRequest, ServerShowClientsRequest
  <2>4. PICK e \in Seq(Nat) :
          /\ e = EncodeVector("string", args)
          /\ \A t \in Seq(Nat) :
               DecodeVector(e \o t, "string") = [status |-> 0, value |-> args, rest |-> t]
          /\ \A k \in Nat : k < Len(e) =>
               DecodeVector(Take(e, k), "string").status \in 1..(Len(e) - k + 1)
    BY ArgumentsAre, VectorReturns
  <2>5. EncodeRequest(request) = EncodeNumber("uint16", request.rpc) \o e
    BY <2>2, <2>3, <2>4 DEF EncodeRequest
  <2>6. ASSUME NEW a, NEW bytes, a = DecodeVector(bytes, "string")
        PROVE  ParseRequest(rpc, bytes)
                 = [status |-> a.status, rest |-> a.rest,
                    calls  |-> IF a.status = 0 THEN <<[rpc |-> rpc, args |-> a.value]>> ELSE <<>>]
    BY <2>3, <2>6 DEF ParseRequest
  <2>7. ASSUME NEW t \in Seq(Nat)
        PROVE  ParseRequest(rpc, e \o t) = [status |-> 0, rest |-> t, calls |-> <<request>>]
    <3>1. PICK a : a = DecodeVector(e \o t, "string")
      OBVIOUS
    <3>2. a.status = 0 /\ a.value = args /\ a.rest = t
      BY <2>4, <3>1
    <3> QED BY <2>1, <2>6, <3>1, <3>2
  <2>8. ASSUME NEW k \in Nat, k < Len(e) PROVE ParseRequest(rpc, Take(e, k)).status > 0
    <3>1. PICK a : a = DecodeVector(Take(e, k), "string")
      OBVIOUS
    <3>2. PICK l \in Nat : l = Len(e)
      OBVIOUS
    <3>3. a.status \in 1..(l - k + 1)
      BY <2>4, <2>8, <3>1, <3>2
    <3>4. ParseRequest(rpc, Take(e, k)).status = a.status
      BY <2>6, <3>1
    <3> QED BY <3>2, <3>3, <3>4
  <2> QED BY <2>2, <2>5, <2>7, <2>8 DEF Parsed
<1> QED BY <1>2, <1>3, <1>4 DEF Requests

\* What the daemon's dispatcher makes of a request.
RequestDispatched(code, request) ==
  /\ \A t \in Seq(Nat) : DispatchRequest(code \o t)
                           = [status |-> 0, rest |-> t, calls |-> <<request>>]
  /\ \A k \in Nat : k < Len(code) => DispatchRequest(Take(code, k)).status > 0

\* A request is processed when all of it is there, and asked for before.
LEMMA RequestTaken ==
  ASSUME NEW request \in Requests
  PROVE  \E code \in Seq(Nat) : /\ code = EncodeRequest(request) /\ Len(code) >= 1
                                /\ RequestDispatched(code, request)
<1>1. PICK rpc \in Nat : rpc = request.rpc /\ rpc < Weight[Width["uint16"]]
  <2>1. request.rpc \in {1, 2, 3, GetParameterFromUserReply}
    BY DEF Requests, ClientConnectRequest, ServerShowClientsRequest, RequestServerStatusRequest
  <2> QED BY <2>1, IpcNumbers
<1>2. rpc \in {r.rpc : r \in Requests}
  BY <1>1
<1>3. PICK e \in Seq(Nat) :
        EncodeRequest(request) = EncodeNumber("uint16", request.rpc) \o e /\ Parsed(e, request)
  BY ArgumentsParsed
<1>4. PICK code \in Seq(Nat) : /\ code = EncodeNumber("uint16", rpc) \o e
                               /\ Len(code) >= 1 /\ Headed(code, rpc, e)
  BY <1>1, NumberFirst
<1>5. code = EncodeRequest(request)
  BY <1>1, <1>3, <1>4, Zenon
<1>6. ASSUME NEW t \in Seq(Nat)
      PROVE  DispatchRequest(code \o t) = [status |-> 0, rest |-> t, calls |-> <<request>>]
  <2>1. PICK num : num = DecodeNumber(code \o t, "uint16")
    OBVIOUS
  <2>2. num.status = 0 /\ num.value = rpc /\ num.rest = e \o t
    <3>1. num = [status |-> 0, value |-> rpc, rest |-> e \o t]
      BY <1>4, <2>1, Zenon DEF Headed
    <3>2. PICK u : u = e \o t
      OBVIOUS
    <3>3. num = [status |-> 0, value |-> rpc, rest |-> u]
      BY <3>1, <3>2, Zenon
    <3>4. num.status = 0 /\ num.value = rpc /\ num.rest = u
      BY <3>3
    <3> QED BY <3>2, <3>4, Zenon
  <2>3. DispatchRequest(code \o t) = ParseRequest(rpc, e \o t)
    BY <1>2, <2>1, <2>2 DEF DispatchRequest
  <2> QED BY <1>1, <1>3, <2>3, Zenon DEF Parsed
<1>7. ASSUME NEW k \in Nat, k < Len(code) PROVE DispatchRequest(Take(code, k)).status > 0
  <2>1. PICK num : num = DecodeNumber(Take(code, k), "uint16")
    OBVIOUS
  <2>2. CASE num.status > 0
    <3>1. num.status # 0
      BY <2>2
    <3>2. DispatchRequest(Take(code, k))
            = [status |-> num.status, rest |-> num.rest, calls |-> <<>>]
      BY <2>1, <3>1 DEF DispatchRequest
    <3>3. DispatchRequest(Take(code, k)).status = num.status
      BY <3>2
    <3> QED BY <2>2, <3>3
  <2>3. CASE \E m \in Nat : m < Len(e) /\ num = [status |-> 0, value |-> rpc, rest |-> Take(e, m)]
    <3>1. PICK m \in Nat :
            m < Len(e) /\ num.status = 0 /\ num.value = rpc /\ num.rest = Take(e, m)
      BY <2>3
    <3>2. DispatchRequest(Take(code, k)) = ParseRequest(rpc, Take(e, m))
      BY <1>2, <2>1, <3>1 DEF DispatchRequest
    <3>3. ParseRequest(rpc, Take(e, m)).status > 0
      BY <1>1, <1>3, <3>1 DEF Parsed
    <3> QED BY <3>2, <3>3
  <2> QED BY <1>4, <1>7, <2>1, <2>2, <2>3 DEF Headed
<1> QED BY <1>4, <1>5, <1>6, <1>7 DEF RequestDispatched

\* The codes of a list of requests.
LEMMA RequestCodesAre ==
  ASSUME NEW list \in Seq(Requests)
  PROVE  /\ RequestCodes(list) \in Codes /\ Len(RequestCodes(list)) = Len(list)
         /\ \A i \in 1..Len(list) : RequestCodes(list)[i] = EncodeRequest(list[i])
<1>1. DOMAIN list = 1..Len(list) /\ Len(list) \in Nat
  OBVIOUS
<1>2. ASSUME NEW i \in 1..Len(list) PROVE EncodeRequest(list[i]) \in Seq(Nat)
  <2>1. list[i] \in Requests
    OBVIOUS
  <2> QED BY <2>1, RequestTaken
<1>3. RequestCodes(list) = [i \in 1..Len(list) |-> EncodeRequest(list[i])]
  BY <1>1 DEF RequestCodes
<1>4. ASSUME NEW n \in Nat, n = Len(list)
      PROVE  RequestCodes(list) \in Codes /\ Len(RequestCodes(list)) = n
  BY <1>2, <1>3, <1>4 DEF Codes
<1> QED BY <1>1, <1>3, <1>4

-----------------------------------------------------------------------------
(* Both directions of the channel.                                         *)

\* What was taken and what is left: the first k calls of the list are handled,
\* what is unparsed and in the stream lies behind them, and of the next call
\* not all is there.
Cut(list, left, more, done, k, tail) ==
  /\ Behind(tail, CallCodes(list))
  /\ done = SubSeq(list, 1, k)
  /\ left \o more = tail[k]
  /\ k < Len(list) => Len(left) < Len(EncodeCall(list[k + 1]))

DaemonTyped ==
  /\ calls \in Seq(Calls) /\ stream \in Seq(Nat) /\ unparsed \in Seq(Nat)
  /\ room \in Nat \ {0} /\ skewed \in BOOLEAN /\ handled \in Seq(Handled)

DaemonInv ==
  /\ DaemonTyped
  /\ ~skewed => \E k \in 0..Len(calls), tail \in [0..Len(calls) -> Seq(Nat)] :
                  Cut(calls, unparsed, stream, handled, k, tail)

\* What was written and what will be are the codes of all requests.
RequestInv ==
  /\ requests \in Seq(Requests) /\ written \in Seq(Nat) /\ writeBuffer \in Seq(Nat)
  /\ wanted = (writeBuffer # <<>>)
  /\ \E tail \in [0..Len(requests) -> Seq(Nat)] :
       /\ Behind(tail, RequestCodes(requests))
       /\ written \o writeBuffer = tail[0]

IpcInv == DaemonInv /\ RequestInv

\* The first of a list of codes.
LEMMA FirstCodes ==
  ASSUME NEW q \in Codes, NEW m \in 0..Len(q)
  PROVE  /\ SubSeq(q, 1, m) \in Codes /\ Len(SubSeq(q, 1, m)) = m
         /\ \A i \in 1..m : SubSeq(q, 1, m)[i] = q[i]
BY FirstOf, Zenon DEF Codes

\* The codes of the first of a list are the first of its codes.
LEMMA FirstCallCodes ==
  ASSUME NEW list \in Seq(Calls), NEW m \in 0..Len(list)
  PROVE  CallCodes(SubSeq(list, 1, m)) = SubSeq(CallCodes(list), 1, m)
<1>1. PICK a \in Seq(Calls) : /\ a = SubSeq(list, 1, m) /\ Len(a) = m
                              /\ \A i \in 1..m : a[i] = list[i]
  BY FirstOf, Zenon
<1>2. PICK p \in Codes : /\ p = CallCodes(a) /\ Len(p) = m
                         /\ \A i \in 1..m : p[i] = EncodeCall(a[i])
  BY <1>1, CallCodesAre
<1>3. PICK q \in Codes : /\ q = CallCodes(list) /\ Len(q) = Len(list)
                         /\ \A i \in 1..Len(list) : q[i] = EncodeCall(list[i])
  BY CallCodesAre
<1>4. PICK r \in Codes : /\ r = SubSeq(q, 1, m) /\ Len(r) = m
                         /\ \A i \in 1..m : r[i] = q[i]
  BY <1>3, FirstCodes
<1>5. ASSUME NEW i \in 1..m PROVE p[i] = r[i]
  <2>1. i \in 1..Len(list)
    OBVIOUS
  <2> QED BY <1>1, <1>2, <1>3, <1>4, <2>1
<1>6. p = r
  BY <1>2, <1>4, <1>5, SameSeq DEF Codes
<1> QED BY <1>1, <1>2, <1>3, <1>4, <1>6, Zenon

\* The codes of the first requests are the first of the codes.
LEMMA FirstRequestCodes ==
  ASSUME NEW list \in Seq(Requests), NEW m \in 0..Len(list)
  PROVE  RequestCodes(SubSeq(list, 1, m)) = SubSeq(RequestCodes(list), 1, m)
<1>1. PICK a \in Seq(Requests) : /\ a = SubSeq(list, 1, m) /\ Len(a) = m
                                 /\ \A i \in 1..m : a[i] = list[i]
  BY FirstOf, Zenon
<1>2. PICK p \in Codes : /\ p = RequestCodes(a) /\ Len(p) = m
                         /\ \A i \in 1..m : p[i] = EncodeRequest(a[i])
  BY <1>1, RequestCodesAre
<1>3. PICK q \in Codes : /\ q = RequestCodes(list) /\ Len(q) = Len(list)
                         /\ \A i \in 1..Len(list) : q[i] = EncodeRequest(list[i])
  BY RequestCodesAre
<1>4. PICK r \in Codes : /\ r = SubSeq(q, 1, m) /\ Len(r) = m
                         /\ \A i \in 1..m : r[i] = q[i]
  BY <1>3, FirstCodes
<1>5. ASSUME NEW i \in 1..m PROVE p[i] = r[i]
  <2>1. i \in 1..Len(list)
    OBVIOUS
  <2> QED BY <1>1, <1>2, <1>3, <1>4, <2>1
<1>6. p = r
  BY <1>2, <1>4, <1>5, SameSeq DEF Codes
<1> QED BY <1>1, <1>2, <1>3, <1>4, <1>6, Zenon

\* The calls that were handled have arrived, and the next one has not.
LEMMA CutHandled ==
  ASSUME DaemonTyped, NEW k \in 0..Len(calls), NEW tail \in [0..Len(calls) -> Seq(Nat)],
         Cut(calls, unparsed, stream, handled, k, tail)
  PROVE  /\ IsPrefix(handled, calls)
         /\ SizeOf(CallCodes(handled)) <= Arrived
         /\ Len(handled) < Len(calls) =>
              Arrived < SizeOf(CallCodes(SubSeq(calls, 1, Len(handled) + 1)))
<1>1. PICK n \in Nat : n = Len(calls)
  BY DEF DaemonTyped
<1>2. PICK h \in Seq(Calls) : /\ h = handled /\ h = SubSeq(calls, 1, k) /\ Len(h) = k
  BY FirstOf DEF DaemonTyped, Cut
<1>3. IsPrefix(handled, calls)
  <2>1. SubSeq(h, 1, k) = h
    BY <1>1, <1>2
  <2>2. Len(h) <= Len(calls)
    BY <1>1, <1>2
  <2> QED BY <1>2, <2>1, <2>2, Zenon DEF IsPrefix
<1>4. PICK q \in Codes : q = CallCodes(calls) /\ Len(q) = n
  BY <1>1, CallCodesAre DEF DaemonTyped
<1>5. tail \in [0..Len(q) -> Seq(Nat)] /\ Behind(tail, q)
  BY <1>1, <1>4 DEF Cut
<1>6. PICK all \in Nat : all = Len(tail[0]) /\ all = SizeOf(q)
  <2>1. tail[0] \in Seq(Nat)
    BY <1>1
  <2>2. Len(tail[0]) \in Nat
    BY <2>1
  <2>3. SizeOf(q) = Len(tail[0])
    BY <1>4, <1>5, SizesBehind
  <2> QED BY <2>2, <2>3
<1>7. PICK l \in Nat, m \in Nat : l = Len(unparsed) /\ m = Len(stream) /\ Len(tail[k]) = l + m
  BY Joined DEF DaemonTyped, Cut
<1>8. Arrived = all - m
  BY <1>4, <1>6, <1>7 DEF Arrived
<1>9. PICK s \in Nat : s = SizeOf(CallCodes(handled)) /\ s + (l + m) = all
  <2>1. CallCodes(handled) = SubSeq(q, 1, k)
    BY <1>2, <1>4, FirstCallCodes DEF DaemonTyped
  <2>2. k \in 0..Len(q)
    BY <1>1, <1>4
  <2>3. SizeOf(SubSeq(q, 1, k)) \in Nat /\ SizeOf(SubSeq(q, 1, k)) + Len(tail[k]) = Len(tail[0])
    BY <1>5, <2>2, SizesBehind
  <2> QED BY <1>6, <1>7, <2>1, <2>3
<1>10. SizeOf(CallCodes(handled)) <= Arrived
  BY <1>8, <1>9
<1>11. ASSUME k < n PROVE Arrived < SizeOf(CallCodes(SubSeq(calls, 1, k + 1)))
  <2>1. k + 1 \in 0..Len(q) /\ k + 1 \in 0..Len(calls) /\ k \in 0..(Len(q) - 1)
    BY <1>1, <1>4, <1>11
  <2>2. CallCodes(SubSeq(calls, 1, k + 1)) = SubSeq(q, 1, k + 1)
    BY <1>4, <2>1, FirstCallCodes DEF DaemonTyped
  <2>3. /\ SizeOf(SubSeq(q, 1, k + 1)) \in Nat
        /\ SizeOf(SubSeq(q, 1, k + 1)) + Len(tail[k + 1]) = Len(tail[0])
    BY <1>5, <2>1, SizesBehind
  <2>4. PICK code \in Seq(Nat) : code = q[k + 1]
    BY <2>1 DEF Codes
  <2>5. PICK t \in Seq(Nat) : t = tail[k + 1]
    BY <2>1
  <2>6. PICK c \in Nat, u \in Nat : c = Len(code) /\ u = Len(t)
    OBVIOUS
  <2>7. Len(tail[k]) = c + u
    <3>1. tail[k] = code \o t
      BY <1>5, <2>1, <2>4, <2>5, Zenon DEF Behind
    <3>2. Len(code \o t) = Len(code) + Len(t)
      BY Joined
    <3> QED BY <2>6, <3>1, <3>2
  <2>8. l < c
    <3>1. code = EncodeCall(calls[k + 1])
      <4>1. k + 1 \in 1..Len(calls)
        BY <2>1
      <4> QED BY <1>4, <2>4, <4>1, CallCodesAre DEF DaemonTyped
    <3>2. Len(unparsed) < Len(EncodeCall(calls[k + 1]))
      BY <1>1, <1>11 DEF Cut
    <3> QED BY <1>7, <2>6, <3>1, <3>2
  <2>9. PICK s1 \in Nat : s1 = SizeOf(SubSeq(q, 1, k + 1)) /\ s1 + u = all
    BY <1>6, <2>3, <2>5, <2>6
  <2>10. l + m = c + u
    BY <1>7, <2>7
  <2>11. all - m < s1
    BY <2>8, <2>9, <2>10
  <2> QED BY <1>8, <2>2, <2>9, <2>11
<1> QED BY <1>1, <1>2, <1>3, <1>10, <1>11

\* The first m codes are what lies before what is behind them.
LEMMA BeforeIs ==
  ASSUME NEW q \in Codes, NEW tail \in [0..Len(q) -> Seq(Nat)], Behind(tail, q),
         NEW m \in 0..Len(q)
  PROVE  \E p \in Seq(Nat) : tail[0] = p \o tail[m]
<1>1. PICK n \in Nat : n = Len(q)
  BY DEF Codes
<1> DEFINE S == {k \in 0..n : \E p \in Seq(Nat) : tail[0] = p \o tail[k]}
<1>2. 0 \in S
  <2>1. tail[0] \in Seq(Nat) /\ <<>> \in Seq(Nat)
    BY <1>1
  <2>2. <<>> \o tail[0] = tail[0]
    BY <2>1
  <2>3. \E p \in Seq(Nat) : tail[0] = p \o tail[0]
    BY <2>1, <2>2, Zenon
  <2>4. 0 \in 0..n
    OBVIOUS
  <2> QED BY <2>3, <2>4, Zenon
<1>3. ASSUME NEW k \in 0..(n - 1), k \in S PROVE k + 1 \in S
  <2>1. k \in 0..n /\ k + 1 \in 0..n /\ k \in 0..(Len(q) - 1)
    BY <1>1
  <2>2. PICK p \in Seq(Nat) : tail[0] = p \o tail[k]
    BY <1>3
  <2>3. PICK c \in Seq(Nat) : c = q[k + 1]
    BY <1>1, <2>1 DEF Codes
  <2>4. PICK t \in Seq(Nat) : t = tail[k + 1]
    BY <1>1, <2>1
  <2>5. tail[k] = c \o t
    BY <2>1, <2>3, <2>4, Zenon DEF Behind
  <2>6. Grouped(p, c, t)
    BY JoinedTwice
  <2>7. PICK r \in Seq(Nat) : r = p \o c
    BY Joined
  <2>8. tail[0] = r \o t
    BY <2>2, <2>5, <2>6, <2>7, Zenon DEF Grouped
  <2>9. \E x \in Seq(Nat) : tail[0] = x \o tail[k + 1]
    BY <2>4, <2>7, <2>8, Zenon
  <2> QED BY <2>1, <2>9, Zenon
<1>4. \A k \in 0..n : k \in S
  <2> HIDE DEF S
  <2> QED BY <1>2, <1>3, UpTo
<1> QED BY <1>1, <1>4, Zenon

\* Beyond the end there is nothing.
LEMMA DropAll ==
  ASSUME NEW a \in Seq(Nat), NEW n \in Nat, n >= Len(a)
  PROVE  Drop(a, n) = <<>>
<1>1. Len(a) \in Int /\ n + 1 \in Int /\ Len(a) < n + 1
  OBVIOUS
<1> QED BY <1>1, SubSeqEmpty, Zenon DEF Drop

\* The daemon's dispatcher on what was written of a request and is not behind others.
LEMMA BehindWritten ==
  ASSUME RequestInv, NEW i \in DOMAIN requests
  PROVE  LET one == RequestBehind(SubSeq(requests, 1, i - 1))
         IN  one.status > 0 \/ (one.status = 0 /\ one.calls = <<requests[i]>>)
<1>1. PICK tail \in [0..Len(requests) -> Seq(Nat)] :
        Behind(tail, RequestCodes(requests)) /\ written \o writeBuffer = tail[0]
  BY DEF RequestInv
<1>2. PICK n \in Nat : n = Len(requests) /\ i \in 1..n /\ i - 1 \in 0..n /\ i - 1 \in 0..(n - 1)
  <2>1. PICK n \in Nat : n = Len(requests)
    BY DEF RequestInv
  <2>2. DOMAIN requests = 1..n
    BY <2>1 DEF RequestInv
  <2>3. i \in 1..n
    BY <2>2
  <2>4. i - 1 \in 0..n /\ i - 1 \in 0..(n - 1)
    BY <2>3
  <2> QED BY <2>1, <2>3, <2>4
<1>3. PICK k \in Nat : k = i - 1 /\ k \in 0..n /\ k \in 0..(n - 1) /\ k + 1 = i
  BY <1>2
<1>4. PICK q \in Codes : /\ q = RequestCodes(requests) /\ Len(q) = n
                         /\ q[i] = EncodeRequest(requests[i])
  BY <1>2, RequestCodesAre DEF RequestInv
<1>5. tail \in [0..Len(q) -> Seq(Nat)] /\ Behind(tail, q) /\ k \in 0..Len(q)
  BY <1>1, <1>2, <1>3, <1>4
<1>6. PICK request \in Requests : request = requests[i]
  BY <1>2 DEF RequestInv
<1>7. PICK code \in Seq(Nat) : /\ code = EncodeRequest(request) /\ Len(code) >= 1
                               /\ RequestDispatched(code, request)
  BY RequestTaken
<1>8. PICK t \in Seq(Nat) : t = tail[i]
  BY <1>2, <1>4, <1>5
<1>9. PICK b \in Seq(Nat) : b = tail[k]
  BY <1>5
<1>10. b = code \o t
  BY <1>1, <1>2, <1>3, <1>4, <1>6, <1>7, <1>8, <1>9, Zenon DEF Behind
<1>11. PICK p \in Seq(Nat) : tail[0] = p \o b
  BY <1>5, <1>9, BeforeIs
<1>12. PICK o \in Nat : o = Len(p) /\ o = SizeOf(RequestCodes(SubSeq(requests, 1, k)))
  <2>1. RequestCodes(SubSeq(requests, 1, k)) = SubSeq(q, 1, k)
    BY <1>2, <1>3, <1>4, FirstRequestCodes DEF RequestInv
  <2>2. /\ SizeOf(SubSeq(q, 1, k)) \in Nat
        /\ SizeOf(SubSeq(q, 1, k)) + Len(b) = Len(tail[0])
    BY <1>5, <1>9, SizesBehind
  <2>3. Len(p \o b) = Len(p) + Len(b) /\ Len(p) \in Nat /\ Len(b) \in Nat
    BY Joined
  <2>4. Len(tail[0]) = Len(p) + Len(b)
    BY <1>11, <2>3, Zenon
  <2>5. PICK x \in Nat, y \in Nat, z \in Nat :
          x = Len(p) /\ y = Len(b) /\ z = SizeOf(SubSeq(q, 1, k))
    BY <2>2, <2>3
  <2>6. z + y = x + y
    BY <2>2, <2>4, <2>5
  <2>7. z = x
    BY <2>6
  <2> QED BY <2>1, <2>5, <2>7
<1>13. PICK w \in Seq(Nat), z \in Seq(Nat) : w = written /\ z = writeBuffer /\ w \o z = p \o b
  BY <1>1, <1>11, Zenon DEF RequestInv
<1>14. PICK one : one = DispatchRequest(Drop(w, o)) /\ one = RequestBehind(SubSeq(requests, 1, i - 1))
  BY <1>3, <1>12, <1>13 DEF RequestBehind
<1>15. PICK x \in Nat : x = Len(w)
  OBVIOUS
<1>16. ASSUME NEW j \in Nat, j < Len(code), Drop(w, o) = Take(code, j) PROVE one.status > 0
  BY <1>7, <1>14, <1>16 DEF RequestDispatched
<1>17. CASE x < o
  <2>1. Drop(w, o) = <<>>
    BY <1>15, <1>17, DropAll
  <2>2. Take(code, 0) = <<>>
    <3>1. PICK a \in Seq(Nat) : a = Take(code, 0) /\ Len(a) = 0
      BY <1>7, TakeKeeps
    <3>2. a = <<>>
      BY <3>1
    <3> QED BY <3>1, <3>2
  <2>3. one.status > 0
    BY <1>7, <1>16, <2>1, <2>2
  <2> QED BY <1>14, <2>3
<1>18. CASE x >= o
  <2>1. Beyond(w, z, p, b)
    BY <1>12, <1>13, <1>15, <1>18, CutTwice
  <2>2. PICK r \in Seq(Nat) : w = p \o r /\ r \o z = b
    BY <2>1, Zenon DEF Beyond
  <2>3. Drop(w, o) = r
    <3>1. Drop(p \o r, Len(p)) = r
      BY TakeFirst
    <3> QED BY <1>12, <2>2, <3>1, Zenon
  <2>4. PICK y \in Nat, c \in Nat : y = Len(r) /\ c = Len(code)
    OBVIOUS
  <2>5. r \o z = code \o t
    BY <1>10, <2>2, Zenon
  <2>6. CASE y < c
    <3>1. r = Take(code, y)
      BY <2>4, <2>5, <2>6, CutTwice
    <3>2. one.status > 0
      BY <1>16, <2>3, <2>4, <2>6, <3>1
    <3> QED BY <1>14, <3>2
  <2>7. CASE y >= c
    <3>1. Beyond(r, z, code, t)
      BY <2>4, <2>5, <2>7, CutTwice
    <3>2. PICK v \in Seq(Nat) : r = code \o v
      BY <3>1, Zenon DEF Beyond
    <3>3. one = [status |-> 0, rest |-> v, calls |-> <<request>>]
      BY <1>7, <1>14, <2>3, <3>2, Zenon DEF RequestDispatched
    <3>4. one.status = 0 /\ one.calls = <<request>>
      BY <3>3
    <3> QED BY <1>6, <1>14, <3>4, Zenon
  <2> QED BY <2>4, <2>6, <2>7
<1> QED BY <1>12, <1>15, <1>17, <1>18

\* What holds of the channel's two directions is what CallsHandled says.
LEMMA InvCallsHandled == IpcInv => CallsHandled
<1> SUFFICES ASSUME IpcInv PROVE CallsHandled
  OBVIOUS
<1>1. room > 0
  BY DEF IpcInv, DaemonInv, DaemonTyped
<1>2. ASSUME ~skewed
      PROVE  /\ IsPrefix(handled, calls)
             /\ SizeOf(CallCodes(handled)) <= Arrived
             /\ Len(handled) < Len(calls) =>
                  Arrived < SizeOf(CallCodes(SubSeq(calls, 1, Len(handled) + 1)))
  <2>1. PICK k \in 0..Len(calls), tail \in [0..Len(calls) -> Seq(Nat)] :
          Cut(calls, unparsed, stream, handled, k, tail)
    BY <1>2 DEF IpcInv, DaemonInv
  <2> QED BY <2>1, CutHandled DEF IpcInv, DaemonInv
<1>3. wanted <=> writeBuffer # <<>>
  BY DEF IpcInv, RequestInv
<1> QED BY <1>1, <1>2, <1>3, BehindWritten DEF CallsHandled, IpcInv

\* A list of codes with one behind it.
LEMMA AppendedCodes ==
  ASSUME NEW q \in Codes, NEW p \in Codes, NEW n \in Nat, Len(q) = n, Len(p) = n + 1,
         \A i \in 1..n : p[i] = q[i]
  PROVE  p = Append(q, p[n + 1])
<1>1. p[n + 1] \in Seq(Nat)
  BY DEF Codes
<1>2. PICK r : r = Append(q, p[n + 1])
  OBVIOUS
<1>3. /\ r \in Codes /\ Len(r) = n + 1 /\ r[n + 1] = p[n + 1]
      /\ \A i \in 1..n : r[i] = q[i]
  BY <1>1, <1>2 DEF Codes
<1>4. \A i \in 1..(n + 1) : r[i] = p[i]
  <2>1. \A i \in 1..(n + 1) : i \in 1..n \/ i = n + 1
    OBVIOUS
  <2> QED BY <1>3, <2>1
<1>5. r = p
  BY <1>3, <1>4, SameSeq DEF Codes
<1> QED BY <1>2, <1>5

\* The first of a list are those of a longer one.
LEMMA SameFirst ==
  ASSUME NEW T, NEW a \in Seq(T), NEW b \in Seq(T), NEW k \in 0..Len(a),
         Len(b) >= Len(a), \A i \in 1..Len(a) : b[i] = a[i]
  PROVE  SubSeq(b, 1, k) = SubSeq(a, 1, k)
<1>1. k \in 0..Len(b) /\ \A i \in 1..k : b[i] = a[i]
  OBVIOUS
<1>2. /\ SubSeq(a, 1, k) \in Seq(T) /\ Len(SubSeq(a, 1, k)) = k
      /\ \A i \in 1..k : SubSeq(a, 1, k)[i] = a[i]
  OBVIOUS
<1>3. /\ SubSeq(b, 1, k) \in Seq(T) /\ Len(SubSeq(b, 1, k)) = k
      /\ \A i \in 1..k : SubSeq(b, 1, k)[i] = b[i]
  BY <1>1
<1>4. PICK x \in Seq(T), y \in Seq(T) :
        /\ x = SubSeq(a, 1, k) /\ y = SubSeq(b, 1, k) /\ Len(x) = k /\ Len(y) = k
        /\ \A i \in 1..k : x[i] = y[i]
  BY <1>1, <1>2, <1>3
<1>5. x = y
  BY <1>4, SameSeq
<1> QED BY <1>4, <1>5

\* A sequence with one behind it.
LEMMA AppendedIs ==
  ASSUME NEW T, NEW a \in Seq(T), NEW x \in T, NEW n \in Nat, n = Len(a)
  PROVE  /\ Append(a, x) \in Seq(T) /\ Len(Append(a, x)) = n + 1 /\ Append(a, x)[n + 1] = x
         /\ \A i \in 1..n : Append(a, x)[i] = a[i]
OBVIOUS

\* One more call: its bytes come behind those of the others.
LEMMA SendCallKeeps ==
  ASSUME DaemonInv, NEW call \in Calls, SendCall(call)
  PROVE  DaemonInv'
<1>1. PICK list \in Seq(Calls), n \in Nat : list = calls /\ n = Len(list)
  BY DEF DaemonInv, DaemonTyped
<1>2. PICK new \in Seq(Calls) : /\ new = Append(list, call) /\ Len(new) = n + 1
                                /\ new[n + 1] = call /\ \A i \in 1..n : new[i] = list[i]
  <2>1. /\ Append(list, call) \in Seq(Calls) /\ Len(Append(list, call)) = n + 1
        /\ Append(list, call)[n + 1] = call
        /\ \A i \in 1..n : Append(list, call)[i] = list[i]
    BY <1>1, AppendedIs
  <2> QED BY <2>1, Zenon
<1>3. PICK code \in Seq(Nat) : code = EncodeCall(call) /\ Len(code) >= 1
  BY CallDispatched
<1>4. PICK left \in Seq(Nat), more \in Seq(Nat) : left = unparsed /\ more = stream
  BY DEF DaemonInv, DaemonTyped
<1>5. /\ calls' = new /\ stream' = more \o code /\ unparsed' = left
      /\ handled' = handled /\ room' = room /\ skewed' = skewed
  BY <1>1, <1>2, <1>3, <1>4 DEF SendCall
<1>6. Grouped(left, more, code)
  BY JoinedTwice
<1>7. PICK both \in Seq(Nat) : both = more \o code
  BY <1>6 DEF Grouped
<1>8. DaemonTyped'
  BY <1>5, <1>7 DEF DaemonInv, DaemonTyped
<1>9. ASSUME ~skewed
      PROVE  \E k \in 0..Len(new), next \in [0..Len(new) -> Seq(Nat)] :
               Cut(new, left, both, handled, k, next)
  <2>1. PICK k \in 0..n, tail \in [0..n -> Seq(Nat)] : Cut(list, left, more, handled, k, tail)
    BY <1>1, <1>4, <1>9 DEF DaemonInv
  <2>2. PICK q \in Codes : /\ q = CallCodes(list) /\ Len(q) = n
                           /\ \A i \in 1..n : q[i] = EncodeCall(list[i])
    BY <1>1, CallCodesAre
  <2>3. PICK p \in Codes : /\ p = CallCodes(new) /\ Len(p) = n + 1
                           /\ \A i \in 1..(n + 1) : p[i] = EncodeCall(new[i])
    BY <1>2, CallCodesAre
  <2>4. p = Append(q, code)
    <3>1. ASSUME NEW i \in 1..n PROVE p[i] = q[i]
      BY <1>2, <2>2, <2>3
    <3>2. p[n + 1] = code
      BY <1>2, <1>3, <2>3
    <3> QED BY <2>2, <2>3, <3>1, <3>2, AppendedCodes
  <2>5. PICK next \in [0..(n + 1) -> Seq(Nat)] :
          Behind(next, p) /\ \A j \in 0..n : next[j] = tail[j] \o code
    <3>1. tail \in [0..Len(q) -> Seq(Nat)] /\ Behind(tail, q)
      BY <2>1, <2>2 DEF Cut
    <3>2. Longer(p, q, tail, code)
      BY <2>4, <3>1, BehindAppended
    <3> QED BY <2>2, <2>3, <3>2, Zenon DEF Longer
  <2>6. left \o both = next[k]
    <3>1. left \o more = tail[k]
      BY <2>1 DEF Cut
    <3> QED BY <1>6, <1>7, <2>1, <2>5, <3>1, Zenon DEF Grouped
  <2>7. handled = SubSeq(new, 1, k)
    <3>1. handled = SubSeq(list, 1, k)
      BY <2>1 DEF Cut
    <3>2. SubSeq(new, 1, k) = SubSeq(list, 1, k)
      BY <1>1, <1>2, <2>1, SameFirst
    <3> QED BY <3>1, <3>2
  <2>8. ASSUME k < n + 1 PROVE Len(left) < Len(EncodeCall(new[k + 1]))
    <3>1. CASE k = n
      <4>1. tail[k] = <<>>
        BY <2>1, <2>2, <3>1 DEF Cut, Behind
      <4>2. left \o more = <<>>
        BY <2>1, <4>1 DEF Cut
      <4>3. Len(left) = 0
        BY <4>2
      <4> QED BY <1>2, <1>3, <3>1, <4>3
    <3>2. CASE k # n
      <4>1. k < n /\ k + 1 \in 1..n
        BY <2>1, <3>2
      <4>2. Len(left) < Len(EncodeCall(list[k + 1]))
        BY <1>1, <2>1, <4>1 DEF Cut
      <4> QED BY <1>2, <4>1, <4>2
    <3> QED BY <3>1, <3>2
  <2>9. k \in 0..(n + 1)
    BY <2>1
  <2>10. Cut(new, left, both, handled, k, next)
    BY <1>2, <2>3, <2>5, <2>6, <2>7, <2>8, Zenon DEF Cut
  <2> QED BY <1>2, <2>5, <2>9, <2>10
<1> QED BY <1>5, <1>7, <1>8, <1>9, Zenon DEF DaemonInv

\* What is read is taken off, call by call, and there is room for what is missing.
LEMMA HandleReadKeeps ==
  ASSUME DaemonInv, NEW n \in 1..Len(stream), HandleRead(n)
  PROVE  DaemonInv'
<1>1. PICK list \in Seq(Calls) : list = calls
  BY DEF DaemonInv, DaemonTyped
<1>2. PICK left \in Seq(Nat), more \in Seq(Nat) : left = unparsed /\ more = stream
  BY DEF DaemonInv, DaemonTyped
<1>3. PICK t \in Seq(Nat), d \in Seq(Nat) : t = Take(more, n) /\ d = Drop(more, n) /\ t \o d = more
  <2>1. n \in 0..Len(more)
    BY <1>2
  <2> QED BY <2>1, TakeAndDrop, Zenon
<1>4. Grouped(left, t, d) /\ left \o t \in Seq(Nat)
  BY JoinedTwice, Joined
<1>5. PICK bytes \in Seq(Nat) : bytes = left \o t
  BY <1>4
<1>6. PICK parsed : parsed = DispatchAll(bytes)
  OBVIOUS
<1>7. parsed \in LoopStates /\ parsed.missing > 0
  BY <1>6, LoopEnded
<1>8. /\ parsed.missing \in Nat /\ parsed.rest \in Seq(Nat) /\ parsed.calls \in Seq(Handled)
      /\ parsed.skewed \in BOOLEAN
  BY <1>7 DEF LoopStates
<1>9. /\ stream' = d /\ unparsed' = parsed.rest /\ handled' = handled \o parsed.calls
      /\ skewed' = (skewed \/ parsed.skewed) /\ calls' = list
      /\ room' = IF room - n < parsed.missing THEN RoundedUp(parsed.missing) ELSE room - n
  <2>1. DispatchAll(unparsed \o Take(stream, n)) = parsed
    BY <1>2, <1>3, <1>5, <1>6, Zenon
  <2> QED BY <1>1, <1>2, <1>3, <2>1, Zenon DEF HandleRead
<1>10. room' \in Nat \ {0}
  <2>1. RoundedUp(parsed.missing) \in Nat \ {0}
    BY <1>7, <1>8, IpcAssumption DEF RoundedUp
  <2>2. room \in Nat /\ n \in Nat
    BY DEF DaemonInv, DaemonTyped
  <2> QED BY <1>7, <1>8, <1>9, <2>1, <2>2
<1>11. PICK h \in Seq(Handled) : h = handled \o parsed.calls
  <2>1. PICK a \in Seq(Handled), b \in Seq(Handled) : a = handled /\ b = parsed.calls
    BY <1>8 DEF DaemonInv, DaemonTyped
  <2>2. a \o b \in Seq(Handled)
    OBVIOUS
  <2> QED BY <2>1, <2>2, Zenon
<1>12. DaemonTyped'
  BY <1>1, <1>3, <1>8, <1>9, <1>10, <1>11 DEF DaemonInv, DaemonTyped
<1>13. ASSUME ~skewed, ~parsed.skewed
       PROVE  \E j \in 0..Len(list), tail \in [0..Len(list) -> Seq(Nat)] :
                Cut(list, parsed.rest, d, h, j, tail)
  <2>1. PICK k \in 0..Len(list), tail \in [0..Len(list) -> Seq(Nat)] :
          Cut(list, left, more, handled, k, tail)
    BY <1>1, <1>2, <1>13 DEF DaemonInv
  <2>2. bytes \o d = tail[k]
    BY <1>3, <1>4, <1>5, <2>1, Zenon DEF Grouped, Cut
  <2>3. InStep(DispatchAll(bytes), list, tail, d, SubSeq(list, 1, k))
    BY <2>1, <2>2, LoopInStep DEF Cut
  <2>4. PICK j \in 0..Len(list) : Stands(parsed, list, tail, d, SubSeq(list, 1, k), j)
    BY <1>6, <1>13, <2>3, Zenon DEF InStep
  <2>5. h = SubSeq(list, 1, j)
    BY <1>11, <2>1, <2>4, Zenon DEF Stands, Cut
  <2>6. Cut(list, parsed.rest, d, h, j, tail)
    BY <1>7, <2>1, <2>4, <2>5, Zenon DEF Stands, Cut
  <2> QED BY <2>1, <2>4, <2>6
<1> QED BY <1>8, <1>9, <1>11, <1>12, <1>13, Zenon DEF DaemonInv

\* One more request: its bytes wait behind those that were not written.
LEMMA RequestCallKeeps ==
  ASSUME RequestInv, NEW request \in Requests, RequestCall(request)
  PROVE  RequestInv'
<1>1. PICK list \in Seq(Requests), n \in Nat : list = requests /\ n = Len(list)
  BY DEF RequestInv
<1>2. PICK new \in Seq(Requests) : /\ new = Append(list, request) /\ Len(new) = n + 1
                                   /\ new[n + 1] = request /\ \A i \in 1..n : new[i] = list[i]
  <2>1. /\ Append(list, request) \in Seq(Requests) /\ Len(Append(list, request)) = n + 1
        /\ Append(list, request)[n + 1] = request
        /\ \A i \in 1..n : Append(list, request)[i] = list[i]
    BY <1>1, AppendedIs
  <2> QED BY <2>1, Zenon
<1>3. PICK code \in Seq(Nat) : code = EncodeRequest(request) /\ Len(code) >= 1
  BY RequestTaken
<1>4. PICK w \in Seq(Nat), z \in Seq(Nat) : w = written /\ z = writeBuffer
  BY DEF RequestInv
<1>5. Grouped(w, z, code)
  BY JoinedTwice
<1>6. PICK both \in Seq(Nat) : both = z \o code /\ both # <<>>
  <2>1. z \o code \in Seq(Nat) /\ Len(z \o code) = Len(z) + Len(code) /\ Len(z) \in Nat
    BY Joined
  <2>2. PICK both \in Seq(Nat) : both = z \o code /\ Len(both) = Len(z) + Len(code)
    BY <2>1, Zenon
  <2>3. Len(both) >= 1
    BY <1>3, <2>1, <2>2
  <2>4. both # <<>>
    BY <2>3
  <2> QED BY <2>2, <2>4
<1>7. requests' = new /\ writeBuffer' = both /\ written' = w /\ wanted' = TRUE
  BY <1>1, <1>2, <1>3, <1>4, <1>6, Zenon DEF RequestCall
<1>8. PICK tail \in [0..n -> Seq(Nat)] : Behind(tail, RequestCodes(list)) /\ w \o z = tail[0]
  BY <1>1, <1>4 DEF RequestInv
<1>9. PICK q \in Codes : /\ q = RequestCodes(list) /\ Len(q) = n
                         /\ \A i \in 1..n : q[i] = EncodeRequest(list[i])
  BY <1>1, RequestCodesAre
<1>10. PICK p \in Codes : /\ p = RequestCodes(new) /\ Len(p) = n + 1
                          /\ \A i \in 1..(n + 1) : p[i] = EncodeRequest(new[i])
  BY <1>2, RequestCodesAre
<1>11. p = Append(q, code)
  <2>1. ASSUME NEW i \in 1..n PROVE p[i] = q[i]
    BY <1>2, <1>9, <1>10
  <2>2. p[n + 1] = code
    BY <1>2, <1>3, <1>10
  <2> QED BY <1>9, <1>10, <2>1, <2>2, AppendedCodes
<1>12. PICK next \in [0..(n + 1) -> Seq(Nat)] :
         Behind(next, p) /\ \A j \in 0..n : next[j] = tail[j] \o code
  <2>1. tail \in [0..Len(q) -> Seq(Nat)] /\ Behind(tail, q)
    BY <1>8, <1>9
  <2>2. Longer(p, q, tail, code)
    BY <1>11, <2>1, BehindAppended
  <2> QED BY <1>9, <1>10, <2>2, Zenon DEF Longer
<1>13. w \o both = next[0]
  <2>1. 0 \in 0..n
    BY <1>1
  <2> QED BY <1>5, <1>6, <1>8, <1>12, <2>1, Zenon DEF Grouped
<1>14. next \in [0..Len(new) -> Seq(Nat)] /\ Behind(next, RequestCodes(new))
  BY <1>2, <1>10, <1>12, Zenon
<1>15. TRUE = (both # <<>>)
  BY <1>6
<1> QED BY <1>2, <1>4, <1>6, <1>7, <1>13, <1>14, <1>15, Zenon DEF RequestInv

\* What is written is taken off what waits.
LEMMA HandleWriteKeeps ==
  ASSUME RequestInv, NEW n \in 1..Len(writeBuffer), HandleWrite(n)
  PROVE  RequestInv'
<1>1. PICK w \in Seq(Nat), z \in Seq(Nat) : w = written /\ z = writeBuffer
  BY DEF RequestInv
<1>2. PICK t \in Seq(Nat), d \in Seq(Nat) : t = Take(z, n) /\ d = Drop(z, n) /\ t \o d = z
  <2>1. n \in 0..Len(z)
    BY <1>1
  <2> QED BY <2>1, TakeAndDrop, Zenon
<1>3. Grouped(w, t, d)
  BY JoinedTwice
<1>4. PICK x \in Seq(Nat) : x = w \o t
  BY Joined
<1>5. x \o d = w \o z
  BY <1>2, <1>3, <1>4, Zenon DEF Grouped
<1>6. written' = x /\ writeBuffer' = d /\ wanted' = (d # <<>>) /\ requests' = requests
  BY <1>1, <1>2, <1>4, Zenon DEF HandleWrite
<1>7. PICK tail \in [0..Len(requests) -> Seq(Nat)] :
        Behind(tail, RequestCodes(requests)) /\ written \o writeBuffer = tail[0]
  BY DEF RequestInv
<1>8. x \o d = tail[0]
  BY <1>1, <1>5, <1>7, Zenon
<1> QED BY <1>6, <1>7, <1>8, Zenon DEF RequestInv

\* What a step of one direction leaves alone.
LEMMA OtherDirectionKeeps ==
  /\ DaemonInv /\ UNCHANGED daemonVars => DaemonInv'
  /\ RequestInv /\ UNCHANGED requestVars => RequestInv'
<1>1. ASSUME DaemonInv, UNCHANGED daemonVars PROVE DaemonInv'
  <2>1. /\ calls' = calls /\ stream' = stream /\ unparsed' = unparsed /\ room' = room
        /\ handled' = handled /\ skewed' = skewed
    BY <1>1 DEF daemonVars
  <2> QED BY <1>1, <2>1, Zenon DEF DaemonInv, DaemonTyped
<1>2. ASSUME RequestInv, UNCHANGED requestVars PROVE RequestInv'
  <2>1. /\ requests' = requests /\ writeBuffer' = writeBuffer /\ wanted' = wanted
        /\ written' = written
    BY <1>2 DEF requestVars
  <2> QED BY <1>2, <2>1, Zenon DEF RequestInv
<1> QED BY <1>1, <1>2

\* At first nothing was sent.
LEMMA IpcInitInv == IpcInit => IpcInv
<1> SUFFICES ASSUME IpcInit PROVE IpcInv
  OBVIOUS
<1> DEFINE tail == [k \in 0..0 |-> <<>>]
<1>1. /\ calls = <<>> /\ stream = <<>> /\ unparsed = <<>> /\ room = ReadSpace /\ handled = <<>>
      /\ skewed = FALSE /\ requests = <<>> /\ writeBuffer = <<>> /\ wanted = FALSE /\ written = <<>>
  BY DEF IpcInit
<1>2. /\ <<>> \in Seq(Calls) /\ <<>> \in Seq(Requests) /\ <<>> \in Seq(Handled) /\ <<>> \in Seq(Nat)
      /\ Len(<<>>) = 0 /\ 0 \in 0..0
  OBVIOUS
<1>3. tail \in [0..0 -> Seq(Nat)] /\ tail[0] = <<>>
  BY <1>2
<1> HIDE DEF tail
<1>4. PICK q \in Codes : q = CallCodes(<<>>) /\ Len(q) = 0
  BY <1>2, CallCodesAre
<1>5. PICK p \in Codes : p = RequestCodes(<<>>) /\ Len(p) = 0
  BY <1>2, RequestCodesAre
<1>6. ASSUME NEW c, Len(c) = 0 PROVE Behind(tail, c)
  <2>1. ASSUME NEW k \in 0..(0 - 1) PROVE FALSE
    OBVIOUS
  <2> QED BY <1>3, <1>6, <2>1, Zenon DEF Behind
<1>7. Behind(tail, CallCodes(<<>>)) /\ Behind(tail, RequestCodes(<<>>))
  BY <1>4, <1>5, <1>6
<1>8. <<>> \o <<>> = <<>>
  BY <1>2
<1>9. SubSeq(<<>>, 1, 0) = <<>>
  BY SubSeqEmpty
<1>10. ~(0 < 0)
  OBVIOUS
<1>11. Cut(<<>>, <<>>, <<>>, <<>>, 0, tail)
  BY <1>2, <1>3, <1>7, <1>8, <1>9, <1>10, Zenon DEF Cut
<1>12. DaemonTyped
  BY <1>1, <1>2, IpcAssumption DEF DaemonTyped
<1>13. DaemonInv
  BY <1>1, <1>2, <1>3, <1>11, <1>12, Zenon DEF DaemonInv
<1>14. RequestInv
  <2>1. FALSE = (<<>> # <<>>)
    OBVIOUS
  <2> QED BY <1>1, <1>2, <1>3, <1>7, <1>8, <2>1, Zenon DEF RequestInv
<1> QED BY <1>13, <1>14 DEF IpcInv

\* Every step keeps what was taken and what is left of both directions.
LEMMA IpcNextInv == IpcInv /\ [IpcNext]_ipcVars => IpcInv'
<1> SUFFICES ASSUME IpcInv, [IpcNext]_ipcVars PROVE IpcInv'
  OBVIOUS
<1> USE DEF IpcInv
<1>1. ASSUME NEW rpc \in Rpcs \union {UnknownRpc}, NEW args \in Arguments,
             SendCall([rpc |-> rpc, args |-> args])
      PROVE  IpcInv'
  <2>1. PICK call \in Calls : call = [rpc |-> rpc, args |-> args]
    BY DEF Calls
  <2>2. SendCall(call)
    BY <1>1, <2>1, Zenon
  <2>3. UNCHANGED requestVars
    BY <2>2 DEF SendCall
  <2> QED BY <2>2, <2>3, SendCallKeeps, OtherDirectionKeeps
<1>2. ASSUME NEW n \in 1..Len(stream), HandleRead(n) PROVE IpcInv'
  <2>1. UNCHANGED requestVars
    BY <1>2, Zenon DEF HandleRead
  <2> QED BY <1>2, <2>1, HandleReadKeeps, OtherDirectionKeeps
<1>3. ASSUME NEW request \in Requests, RequestCall(request) PROVE IpcInv'
  <2>1. UNCHANGED daemonVars
    BY <1>3, Zenon DEF RequestCall
  <2> QED BY <1>3, <2>1, RequestCallKeeps, OtherDirectionKeeps
<1>4. ASSUME NEW n \in 1..Len(writeBuffer), HandleWrite(n) PROVE IpcInv'
  <2>1. UNCHANGED daemonVars
    BY <1>4, Zenon DEF HandleWrite
  <2> QED BY <1>4, <2>1, HandleWriteKeeps, OtherDirectionKeeps
<1>5. CASE UNCHANGED ipcVars
  <2>1. UNCHANGED daemonVars /\ UNCHANGED requestVars
    BY <1>5 DEF ipcVars
  <2> QED BY <2>1, OtherDirectionKeeps
<1> QED BY <1>1, <1>2, <1>3, <1>4, <1>5, Zenon DEF IpcNext

\* Whatever the bytes, the arguments and the cuts are, every call is handled in
\* its order and as soon as all of it was read, and every request comes to the
\* daemon's dispatcher as it was made.
THEOREM CallsComeWhole == IpcSpec => []CallsHandled
BY IpcInitInv, IpcNextInv, InvCallsHandled, PTL DEF IpcSpec
=============================================================================
