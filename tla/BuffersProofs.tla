---------------------------- MODULE BuffersProofs ----------------------------
(***************************************************************************)
(* A buffer and its cursors (Buffers), for any sizes of chunks and         *)
(* requests, whatever was put in, read, copied and dropped in between.     *)
(*                                                                         *)
(* First the reference counts: a chunk is referenced by exactly the        *)
(* cursors that are at it or before it, so that the last cursor to leave a *)
(* chunk deletes it, and that chunk is then the first.  Then the bytes:    *)
(* what a cursor gives is what was put in and it has not yet moved past.   *)
(*                                                                         *)
(* The loops of the code are folds of a turn.  A fold takes the values of  *)
(* a function one after the other (IncrementTurns and its like), and what  *)
(* every turn keeps holds of its last value.                               *)
(***************************************************************************)
EXTENDS Buffers, FoldLemmas

ChunkRecords == [size : Nat, bytes : Seq(Nat), refs : Nat, absolute : Nat]
BufferRecords == [chunks : Seq(ChunkRecords), placemark : Int, cursors : Nat,
                  fault : BOOLEAN, previous : [Cursors -> Nat],
                  offset : [Cursors -> Nat]]

\* What the cursors of a set that are at these places reference: 1 or 0 each.
AtOrBefore(on, at, c, k) == IF c \in on /\ at[c] <= k THEN 1 ELSE 0
Refs(on, at, k) == AtOrBefore(on, at, "output", k) + AtOrBefore(on, at, "copy", k)

Counted(b, on, at) ==
  /\ \A k \in 1..Len(b.chunks) :
       b.chunks[k].refs = Refs(on, at, k) /\ b.chunks[k].refs > 0
  /\ b.placemark = 1 + Refs(on, at, 0)
  /\ b.fault = FALSE

\* A cursor is in a chunk, unless there is none.
Placed(b, c) ==
  /\ b.previous[c] = 0 \/ b.previous[c] < Len(b.chunks)
  /\ IF HasChunk(b, c) THEN b.offset[c] <= Used(Chunk(b, c)) ELSE b.offset[c] = 0

Good(b, on) ==
  /\ b \in BufferRecords /\ on \in {{"output"}, Cursors}
  /\ Counted(b, on, b.previous)
  /\ \A c \in Cursors : Placed(b, c)
  /\ \A c \in Cursors \ on : b.previous[c] = 0 /\ b.offset[c] = 0
  /\ b.cursors = IF "copy" \in on THEN 2 ELSE 1

-----------------------------------------------------------------------------
(* The turns of a loop are the values of a function, one after the other.  *)

IncrementLoop(d, c, n) ==
  FoldLeft(LAMBDA s, i : IncrementTurn(s, c), d, [i \in 1..n |-> i])
IncrementRuns(h, d, c, n) ==
  /\ h[0] = d /\ \A k \in 0..(n - 1) : h[k + 1] = IncrementTurn(h[k], c)
  /\ IncrementLoop(d, c, n) = h[n]

LEMMA IncrementTurns ==
  ASSUME NEW c, NEW X, NEW d \in X, NEW n \in Nat,
         \A s \in X : IncrementTurn(s, c) \in X
  PROVE  \E h \in [0..n -> X] : IncrementRuns(h, d, c, n)
<1> DEFINE Turns(h) == h = [s \in SUBSET (1..n) |->
                              IF s = {} THEN d ELSE IncrementTurn(h[s \ {Max(s)}], c)]
           iter == CHOOSE h : Turns(h)
           f == [i \in Nat |-> [s \in X |-> IncrementTurn(s, c)]]
<1>1. IncrementLoop(d, c, n) = iter[1..n]
  BY DEF IncrementLoop, FoldLeft, MapThenFoldSet
<1>2. \E h : Turns(h)
  <2>1. f \in [Nat -> [X -> X]]
    OBVIOUS
  <2>2. PICK h \in [SUBSET (1..n) -> X] : FromLast(h, f, d, n)
    <3> HIDE DEF f
    <3> QED BY <2>1, Iterates
  <2>3. ASSUME NEW s \in SUBSET (1..n)
        PROVE  h[s] = IF s = {} THEN d ELSE IncrementTurn(h[s \ {Max(s)}], c)
    <3>1. CASE s = {}
      BY <2>2, <3>1 DEF FromLast
    <3>2. CASE s # {}
      <4>1. h[s \ {Max(s)}] \in X
        OBVIOUS
      <4>2. Max(s) \in s /\ Max(s) \in 1..n /\ Max(s) \in Nat
        BY <2>1, <3>2, MaxIsOne
      <4> QED BY <2>2, <3>2, <4>1, <4>2 DEF FromLast
    <3> QED BY <3>1, <3>2
  <2>4. Turns(h)
    BY <2>3
  <2> QED BY <2>4
<1>3. Turns(iter)
  BY <1>2
<1> HIDE DEF iter
<1> DEFINE g == [k \in 0..n |-> iter[1..k]]
<1>4. g[0] = d
  <2>1. 1..0 = {}
    OBVIOUS
  <2> QED BY <1>3, <2>1
<1>5. ASSUME NEW k \in 0..(n - 1) PROVE g[k + 1] = IncrementTurn(g[k], c)
  <2>1. 1..(k + 1) \in SUBSET (1..n) /\ k \in 0..n /\ k + 1 \in 0..n /\ k \in Nat
    OBVIOUS
  <2>2. /\ Max(1..(k + 1)) = k + 1
        /\ 1..(k + 1) # {} /\ (1..(k + 1)) \ {k + 1} = 1..k
    BY <2>1, LastOfInterval
  <2> QED BY <1>3, <2>1, <2>2
<1>6. g[n] = iter[1..n]
  OBVIOUS
<1> DEFINE S == {k \in 0..n : g[k] \in X}
<1> HIDE DEF g
<1>7. \A k \in 0..n : k \in S
  <2>1. 0 \in S
    BY <1>4
  <2>2. ASSUME NEW k \in 0..(n - 1), k \in S PROVE k + 1 \in S
    <3>1. g[k] \in X /\ k + 1 \in 0..n /\ k + 1 \in 1..n
      BY <2>2
    <3> QED BY <1>5, <3>1
  <2> HIDE DEF S
  <2> QED BY <2>1, <2>2, UpTo
<1>8. g \in [0..n -> X]
  <2>1. \A k \in 0..n : g[k] \in X
    BY <1>7
  <2> QED BY <2>1 DEF g
<1>9. IncrementRuns(g, d, c, n)
  BY <1>1, <1>4, <1>5, <1>6 DEF IncrementRuns
<1> QED BY <1>8, <1>9

ConsumeTurn(s, c, size) ==
  LET count == Smaller(size - Len(s.bytes), ContiguousSize(s.b, c))
  IN IF Len(s.bytes) = size \/ LeftSize(s.b, c) = 0 THEN s
     ELSE [b |-> IncrementIn(s.b, c, count),
           bytes |-> s.bytes \o SubSeq(Data(s.b, c), 1, count)]
ConsumeLoop(d, c, size, n) ==
  FoldLeft(LAMBDA s, i : ConsumeTurn(s, c, size), d, [i \in 1..n |-> i])
ConsumeRuns(h, d, c, size, n) ==
  /\ h[0] = d /\ \A k \in 0..(n - 1) : h[k + 1] = ConsumeTurn(h[k], c, size)
  /\ ConsumeLoop(d, c, size, n) = h[n]

LEMMA ConsumeTurns ==
  ASSUME NEW c, NEW size, NEW X, NEW d \in X, NEW n \in Nat,
         \A s \in X : ConsumeTurn(s, c, size) \in X
  PROVE  \E h \in [0..n -> X] : ConsumeRuns(h, d, c, size, n)
<1> DEFINE Turns(h) == h = [s \in SUBSET (1..n) |->
                              IF s = {} THEN d ELSE ConsumeTurn(h[s \ {Max(s)}], c, size)]
           iter == CHOOSE h : Turns(h)
           f == [i \in Nat |-> [s \in X |-> ConsumeTurn(s, c, size)]]
<1>1. ConsumeLoop(d, c, size, n) = iter[1..n]
  BY DEF ConsumeLoop, FoldLeft, MapThenFoldSet
<1>2. \E h : Turns(h)
  <2>1. f \in [Nat -> [X -> X]]
    OBVIOUS
  <2>2. PICK h \in [SUBSET (1..n) -> X] : FromLast(h, f, d, n)
    <3> HIDE DEF f
    <3> QED BY <2>1, Iterates
  <2>3. ASSUME NEW s \in SUBSET (1..n)
        PROVE  h[s] = IF s = {} THEN d ELSE ConsumeTurn(h[s \ {Max(s)}], c, size)
    <3>1. CASE s = {}
      BY <2>2, <3>1 DEF FromLast
    <3>2. CASE s # {}
      <4>1. h[s \ {Max(s)}] \in X
        OBVIOUS
      <4>2. Max(s) \in s /\ Max(s) \in 1..n /\ Max(s) \in Nat
        BY <2>1, <3>2, MaxIsOne
      <4> QED BY <2>2, <3>2, <4>1, <4>2 DEF FromLast
    <3> QED BY <3>1, <3>2
  <2>4. Turns(h)
    BY <2>3
  <2> QED BY <2>4
<1>3. Turns(iter)
  BY <1>2
<1> HIDE DEF iter
<1> DEFINE g == [k \in 0..n |-> iter[1..k]]
<1>4. g[0] = d
  <2>1. 1..0 = {}
    OBVIOUS
  <2> QED BY <1>3, <2>1
<1>5. ASSUME NEW k \in 0..(n - 1) PROVE g[k + 1] = ConsumeTurn(g[k], c, size)
  <2>1. 1..(k + 1) \in SUBSET (1..n) /\ k \in 0..n /\ k + 1 \in 0..n /\ k \in Nat
    OBVIOUS
  <2>2. /\ Max(1..(k + 1)) = k + 1
        /\ 1..(k + 1) # {} /\ (1..(k + 1)) \ {k + 1} = 1..k
    BY <2>1, LastOfInterval
  <2> QED BY <1>3, <2>1, <2>2
<1>6. g[n] = iter[1..n]
  OBVIOUS
<1> DEFINE S == {k \in 0..n : g[k] \in X}
<1> HIDE DEF g
<1>7. \A k \in 0..n : k \in S
  <2>1. 0 \in S
    BY <1>4
  <2>2. ASSUME NEW k \in 0..(n - 1), k \in S PROVE k + 1 \in S
    <3>1. g[k] \in X /\ k + 1 \in 0..n /\ k + 1 \in 1..n
      BY <2>2
    <3> QED BY <1>5, <3>1
  <2> HIDE DEF S
  <2> QED BY <2>1, <2>2, UpTo
<1>8. g \in [0..n -> X]
  <2>1. \A k \in 0..n : g[k] \in X
    BY <1>7
  <2> QED BY <2>1 DEF g
<1>9. ConsumeRuns(g, d, c, size, n)
  BY <1>1, <1>4, <1>5, <1>6 DEF ConsumeRuns
<1> QED BY <1>8, <1>9

UnreferenceTurn(s) ==
  IF s.k > Len(s.b.chunks) THEN s
  ELSE [b |-> Unreference(s.b, s.k), k |-> After(s.b, s.k)]
UnreferenceLoop(d, n) ==
  FoldLeft(LAMBDA s, i : UnreferenceTurn(s), d, [i \in 1..n |-> i])
UnreferenceRuns(h, d, n) ==
  /\ h[0] = d /\ \A k \in 0..(n - 1) : h[k + 1] = UnreferenceTurn(h[k])
  /\ UnreferenceLoop(d, n) = h[n]

LEMMA UnreferenceTurns ==
  ASSUME NEW X, NEW d \in X, NEW n \in Nat,
         \A s \in X : UnreferenceTurn(s) \in X
  PROVE  \E h \in [0..n -> X] : UnreferenceRuns(h, d, n)
<1> DEFINE Turns(h) == h = [s \in SUBSET (1..n) |->
                              IF s = {} THEN d ELSE UnreferenceTurn(h[s \ {Max(s)}])]
           iter == CHOOSE h : Turns(h)
           f == [i \in Nat |-> [s \in X |-> UnreferenceTurn(s)]]
<1>1. UnreferenceLoop(d, n) = iter[1..n]
  BY DEF UnreferenceLoop, FoldLeft, MapThenFoldSet
<1>2. \E h : Turns(h)
  <2>1. f \in [Nat -> [X -> X]]
    OBVIOUS
  <2>2. PICK h \in [SUBSET (1..n) -> X] : FromLast(h, f, d, n)
    <3> HIDE DEF f
    <3> QED BY <2>1, Iterates
  <2>3. ASSUME NEW s \in SUBSET (1..n)
        PROVE  h[s] = IF s = {} THEN d ELSE UnreferenceTurn(h[s \ {Max(s)}])
    <3>1. CASE s = {}
      BY <2>2, <3>1 DEF FromLast
    <3>2. CASE s # {}
      <4>1. h[s \ {Max(s)}] \in X
        OBVIOUS
      <4>2. Max(s) \in s /\ Max(s) \in 1..n /\ Max(s) \in Nat
        BY <2>1, <3>2, MaxIsOne
      <4> QED BY <2>2, <3>2, <4>1, <4>2 DEF FromLast
    <3> QED BY <3>1, <3>2
  <2>4. Turns(h)
    BY <2>3
  <2> QED BY <2>4
<1>3. Turns(iter)
  BY <1>2
<1> HIDE DEF iter
<1> DEFINE g == [k \in 0..n |-> iter[1..k]]
<1>4. g[0] = d
  <2>1. 1..0 = {}
    OBVIOUS
  <2> QED BY <1>3, <2>1
<1>5. ASSUME NEW k \in 0..(n - 1) PROVE g[k + 1] = UnreferenceTurn(g[k])
  <2>1. 1..(k + 1) \in SUBSET (1..n) /\ k \in 0..n /\ k + 1 \in 0..n /\ k \in Nat
    OBVIOUS
  <2>2. /\ Max(1..(k + 1)) = k + 1
        /\ 1..(k + 1) # {} /\ (1..(k + 1)) \ {k + 1} = 1..k
    BY <2>1, LastOfInterval
  <2> QED BY <1>3, <2>1, <2>2
<1>6. g[n] = iter[1..n]
  OBVIOUS
<1> DEFINE S == {k \in 0..n : g[k] \in X}
<1> HIDE DEF g
<1>7. \A k \in 0..n : k \in S
  <2>1. 0 \in S
    BY <1>4
  <2>2. ASSUME NEW k \in 0..(n - 1), k \in S PROVE k + 1 \in S
    <3>1. g[k] \in X /\ k + 1 \in 0..n /\ k + 1 \in 1..n
      BY <2>2
    <3> QED BY <1>5, <3>1
  <2> HIDE DEF S
  <2> QED BY <2>1, <2>2, UpTo
<1>8. g \in [0..n -> X]
  <2>1. \A k \in 0..n : g[k] \in X
    BY <1>7
  <2> QED BY <2>1 DEF g
<1>9. UnreferenceRuns(g, d, n)
  BY <1>1, <1>4, <1>5, <1>6 DEF UnreferenceRuns
<1> QED BY <1>8, <1>9

Gathered(d, q) ==
  FoldLeft(LAMBDA bytes, chunk : bytes \o chunk.bytes, d, q)
GatherRuns(h, d, q) ==
  /\ h[0] = d /\ \A k \in 0..(Len(q) - 1) : h[k + 1] = h[k] \o q[k + 1].bytes
  /\ Gathered(d, q) = h[Len(q)]

LEMMA GatherTurns ==
  ASSUME NEW q, NEW X, NEW d \in X, Len(q) \in Nat, DOMAIN q = 1..Len(q),
         \A s \in X, i \in 1..Len(q) : s \o q[i].bytes \in X
  PROVE  \E h \in [0..Len(q) -> X] : GatherRuns(h, d, q)
<1> DEFINE n == Len(q)
           Turns(h) == h = [s \in SUBSET (1..n) |->
                              IF s = {} THEN d ELSE h[s \ {Max(s)}] \o q[Max(s)].bytes]
           iter == CHOOSE h : Turns(h)
           f == [i \in Nat |-> [s \in X |-> IF i \in 1..n THEN s \o q[i].bytes ELSE s]]
<1>1. Gathered(d, q) = iter[1..n]
  BY DEF Gathered, FoldLeft, MapThenFoldSet
<1>2. \E h : Turns(h)
  <2>1. f \in [Nat -> [X -> X]] /\ n \in Nat
    OBVIOUS
  <2>2. PICK h \in [SUBSET (1..n) -> X] : FromLast(h, f, d, n)
    <3> HIDE DEF f, n
    <3> QED BY <2>1, Iterates
  <2>3. ASSUME NEW s \in SUBSET (1..n)
        PROVE  h[s] = IF s = {} THEN d ELSE h[s \ {Max(s)}] \o q[Max(s)].bytes
    <3>1. CASE s = {}
      BY <2>2, <3>1 DEF FromLast
    <3>2. CASE s # {}
      <4>1. h[s \ {Max(s)}] \in X
        OBVIOUS
      <4>2. Max(s) \in s /\ Max(s) \in 1..n /\ Max(s) \in Nat
        BY <2>1, <3>2, MaxIsOne
      <4> QED BY <2>2, <3>2, <4>1, <4>2 DEF FromLast
    <3> QED BY <3>1, <3>2
  <2>4. Turns(h)
    BY <2>3
  <2> QED BY <2>4
<1>3. Turns(iter)
  BY <1>2
<1> HIDE DEF iter
<1> DEFINE g == [k \in 0..n |-> iter[1..k]]
<1>4. g[0] = d
  <2>1. 1..0 = {}
    OBVIOUS
  <2> QED BY <1>3, <2>1
<1>5. ASSUME NEW k \in 0..(n - 1) PROVE g[k + 1] = g[k] \o q[k + 1].bytes
  <2>1. 1..(k + 1) \in SUBSET (1..n) /\ k \in 0..n /\ k + 1 \in 0..n /\ k \in Nat
    OBVIOUS
  <2>2. /\ Max(1..(k + 1)) = k + 1
        /\ 1..(k + 1) # {} /\ (1..(k + 1)) \ {k + 1} = 1..k
    BY <2>1, LastOfInterval
  <2> QED BY <1>3, <2>1, <2>2
<1>6. g[n] = iter[1..n]
  OBVIOUS
<1> DEFINE S == {k \in 0..n : g[k] \in X}
<1> HIDE DEF g
<1>7. \A k \in 0..n : k \in S
  <2>1. 0 \in S
    BY <1>4
  <2>2. ASSUME NEW k \in 0..(n - 1), k \in S PROVE k + 1 \in S
    <3>1. g[k] \in X /\ k + 1 \in 0..n /\ k + 1 \in 1..n
      BY <2>2
    <3> QED BY <1>5, <3>1
  <2> HIDE DEF S
  <2> QED BY <2>1, <2>2, UpTo
<1>8. g \in [0..n -> X]
  <2>1. \A k \in 0..n : g[k] \in X
    BY <1>7
  <2> QED BY <2>1 DEF g
<1>9. GatherRuns(g, d, q)
  BY <1>1, <1>4, <1>5, <1>6 DEF GatherRuns
<1> QED BY <1>8, <1>9

-----------------------------------------------------------------------------
(* References.                                                             *)

LEMMA ElementOf ==
  ASSUME NEW T, NEW q \in Seq(T), NEW i \in 1..Len(q)
  PROVE  q[i] \in T
OBVIOUS

LEMMA ChunkFields ==
  \A x \in ChunkRecords : /\ x.size \in Nat /\ x.refs \in Nat /\ x.absolute \in Nat
                          /\ x.bytes \in Seq(Nat) /\ Len(x.bytes) \in Nat
BY DEF ChunkRecords

LEMMA RefsField ==
  ASSUME NEW x \in ChunkRecords, NEW n \in Nat
  PROVE  LET y == [x EXCEPT !.refs = n]
         IN  /\ y \in ChunkRecords /\ y.refs = n
             /\ y.size = x.size /\ y.bytes = x.bytes /\ y.absolute = x.absolute
BY DEF ChunkRecords

LEMMA RefsAre ==
  ASSUME NEW on, NEW at \in [Cursors -> Nat], NEW c \in Cursors, c \in on, NEW k \in Nat
  PROVE  /\ Refs(on, at, k) \in 0..2
         /\ at[c] <= k => Refs(on, at, k) >= 1
         /\ Refs(on, at, k) > 0 => \E d \in on \cap Cursors : at[d] <= k
         /\ Refs(on, at, k) > 1 => \A d \in Cursors : d \in on /\ at[d] <= k
         /\ Refs(on, at, k) <= 1 /\ at[c] <= k =>
              \A d \in (on \cap Cursors) \ {c} : at[d] > k
<1>1. Cursors = {"output", "copy"} /\ "output" # "copy"
  BY DEF Cursors
<1>2. at["output"] \in Nat /\ at["copy"] \in Nat
  BY <1>1
<1>3. /\ AtOrBefore(on, at, "output", k) = IF "output" \in on /\ at["output"] <= k THEN 1 ELSE 0
      /\ AtOrBefore(on, at, "copy", k) = IF "copy" \in on /\ at["copy"] <= k THEN 1 ELSE 0
  BY DEF AtOrBefore
<1>4. CASE c = "output"
  BY <1>1, <1>2, <1>3, <1>4 DEF Refs
<1>5. CASE c = "copy"
  BY <1>1, <1>2, <1>3, <1>5 DEF Refs
<1> QED BY <1>1, <1>4, <1>5

\* A cursor that moves on leaves one chunk.
LEMMA RefsMove ==
  ASSUME NEW on, NEW at \in [Cursors -> Nat], NEW c \in Cursors, c \in on, NEW k \in Nat
  PROVE  Refs(on, [at EXCEPT ![c] = @ + 1], k)
           = Refs(on, at, k) - IF k = at[c] THEN 1 ELSE 0
<1> DEFINE new == [at EXCEPT ![c] = @ + 1]
<1>1. Cursors = {"output", "copy"} /\ "output" # "copy"
  BY DEF Cursors
<1>2. /\ at["output"] \in Nat /\ at["copy"] \in Nat
      /\ new[c] = at[c] + 1 /\ \A d \in Cursors : d # c => new[d] = at[d]
  BY <1>1
<1> HIDE DEF new
<1>3. ASSUME NEW d \in Cursors
      PROVE  AtOrBefore(on, new, d, k)
               = AtOrBefore(on, at, d, k) - IF d = c /\ k = at[c] THEN 1 ELSE 0
  <2>1. CASE d = c
    BY <1>1, <1>2, <2>1 DEF AtOrBefore
  <2>2. CASE d # c
    BY <1>2, <2>2 DEF AtOrBefore
  <2> QED BY <2>1, <2>2
<1>4. AtOrBefore(on, at, "output", k) \in Int /\ AtOrBefore(on, at, "copy", k) \in Int
  BY DEF AtOrBefore
<1>5. CASE c = "output"
  BY <1>1, <1>3, <1>4, <1>5 DEF Refs, new
<1>6. CASE c = "copy"
  BY <1>1, <1>3, <1>4, <1>6 DEF Refs, new
<1> QED BY <1>1, <1>5, <1>6

Lowered(p) == IF p = 0 THEN 0 ELSE p - 1

\* When the first chunk goes, of which only one cursor had need.
LEMMA RefsLower ==
  ASSUME NEW on, NEW at \in [Cursors -> Nat], NEW c \in Cursors, c \in on, NEW k \in Nat,
         at[c] = 1, \A d \in (on \cap Cursors) \ {c} : at[d] > 1
  PROVE  LET low == [d \in Cursors |-> IF d = c THEN 1 ELSE Lowered(at[d])]
         IN  /\ k > 0 => Refs(on, low, k) = Refs(on, at, k + 1)
             /\ Refs(on, low, 0) = Refs(on, at, 0)
<1> DEFINE low == [d \in Cursors |-> IF d = c THEN 1 ELSE Lowered(at[d])]
<1>1. Cursors = {"output", "copy"} /\ "output" # "copy"
  BY DEF Cursors
<1>2. ASSUME NEW d \in Cursors, d \in on
      PROVE  low[d] \in Nat /\ at[d] \in Nat /\ (IF d = c THEN low[d] = 1 /\ at[d] = 1
                                                 ELSE low[d] = at[d] - 1 /\ at[d] > 1)
  <2>1. low[d] = IF d = c THEN 1 ELSE Lowered(at[d])
    OBVIOUS
  <2>2. d # c => at[d] > 1
    BY <1>2
  <2> QED BY <2>1, <2>2 DEF Lowered
<1> HIDE DEF low
<1>3. ASSUME NEW d \in Cursors
      PROVE  /\ k > 0 => AtOrBefore(on, low, d, k) = AtOrBefore(on, at, d, k + 1)
             /\ AtOrBefore(on, low, d, 0) = AtOrBefore(on, at, d, 0)
  <2>1. CASE d \in on
    BY <1>2, <2>1 DEF AtOrBefore
  <2>2. CASE d \notin on
    BY <2>2 DEF AtOrBefore
  <2> QED BY <2>1, <2>2
<1> QED BY <1>1, <1>3 DEF Refs, low

\* What a cursor at chunk k leaves when it moves on: either the chunk, with one
\* reference less, or, if it was the last that referenced it, nothing.
Kept(b, u, k) ==
  /\ After(b, k) = k + 1
  /\ Len(u.chunks) = Len(b.chunks) /\ u.previous = b.previous
  /\ \A j \in 1..Len(b.chunks) :
       /\ u.chunks[j].size = b.chunks[j].size /\ u.chunks[j].bytes = b.chunks[j].bytes
       /\ u.chunks[j].absolute = b.chunks[j].absolute
Deleted(b, u, k) ==
  /\ k = 1 /\ After(b, k) = 1 /\ Len(b.chunks) >= 1
  /\ u.chunks = Tail(b.chunks)
  /\ u.previous = [c \in Cursors |-> Lowered(b.previous[c])]

Leaves(b, u, on, at, c) ==
  \/ /\ Kept(b, u, at[c]) /\ Counted(u, on, [at EXCEPT ![c] = @ + 1])
  \/ /\ Deleted(b, u, at[c])
     /\ \A d \in (on \cap Cursors) \ {c} : at[d] > 1
     /\ Counted(u, on, [d \in Cursors |-> IF d = c THEN 1 ELSE Lowered(at[d])])

LEMMA UnreferenceCounts ==
  ASSUME NEW b \in BufferRecords, NEW on, NEW c \in Cursors, c \in on,
         NEW at \in [Cursors -> Nat], at[c] <= Len(b.chunks), Counted(b, on, at)
  PROVE  LET u == Unreference(b, at[c])
         IN  /\ u \in BufferRecords /\ u.cursors = b.cursors /\ u.offset = b.offset
             /\ Leaves(b, u, on, at, c)
<1> DEFINE k == at[c]
           u == Unreference(b, k)
           n == Len(b.chunks)
           new == [at EXCEPT ![c] = @ + 1]
<1>1. k \in Nat /\ n \in Nat /\ k <= n /\ new[c] = k + 1
  OBVIOUS
<1>2. /\ b.chunks \in Seq(ChunkRecords) /\ b.placemark \in Int /\ b.fault = FALSE
      /\ b.previous \in [Cursors -> Nat]
      /\ b.placemark = 1 + Refs(on, at, 0)
      /\ \A j \in 1..n : /\ b.chunks[j].refs = Refs(on, at, j) /\ b.chunks[j].refs > 0
  BY DEF BufferRecords, Counted
<1>3. ASSUME NEW j \in Nat
      PROVE  /\ Refs(on, new, j) = Refs(on, at, j) - IF j = k THEN 1 ELSE 0
             /\ Refs(on, at, j) \in 0..2
             /\ k <= j => Refs(on, at, j) >= 1
             /\ Refs(on, at, j) > 0 => \E d \in on \cap Cursors : at[d] <= j
             /\ Refs(on, at, j) > 1 => \A d \in Cursors : d \in on /\ at[d] <= j
             /\ Refs(on, at, j) <= 1 /\ k <= j => \A d \in (on \cap Cursors) \ {c} : at[d] > j
  <2>1. Refs(on, new, j) = Refs(on, at, j) - IF j = k THEN 1 ELSE 0
    BY RefsMove
  <2> HIDE DEF new, k
  <2>2. /\ Refs(on, at, j) \in 0..2
        /\ k <= j => Refs(on, at, j) >= 1
        /\ Refs(on, at, j) > 0 => \E d \in on \cap Cursors : at[d] <= j
        /\ Refs(on, at, j) > 1 => \A d \in Cursors : d \in on /\ at[d] <= j
        /\ Refs(on, at, j) <= 1 /\ k <= j => \A d \in (on \cap Cursors) \ {c} : at[d] > j
    BY RefsAre DEF k
  <2> QED BY <2>1, <2>2
<1> HIDE DEF new
<1>4. CASE k = 0
  <2>1. u = [b EXCEPT !.placemark = @ - 1, !.fault = @ \/ b.placemark = 1]
    BY <1>4 DEF Unreference
  <2>2. b.placemark # 1
    BY <1>1, <1>2, <1>3, <1>4
  <2>3. /\ u.chunks = b.chunks /\ u.previous = b.previous /\ u.offset = b.offset
        /\ u.cursors = b.cursors /\ u.placemark = b.placemark - 1 /\ u.fault = FALSE
        /\ u \in BufferRecords
    <3>1. (b.fault \/ b.placemark = 1) = FALSE
      BY <1>2, <2>2
    <3>2. u = [b EXCEPT !.placemark = @ - 1, !.fault = FALSE]
      BY <2>1, <3>1
    <3> DEFINE p == b.placemark - 1
    <3>3. p \in Int
      BY <1>2
    <3>4. u = [b EXCEPT !.placemark = p, !.fault = FALSE]
      BY <3>2
    <3> HIDE DEF p, u
    <3>5. u \in BufferRecords
      BY <3>3, <3>4 DEF BufferRecords
    <3>6. /\ u.chunks = b.chunks /\ u.previous = b.previous /\ u.offset = b.offset
          /\ u.cursors = b.cursors /\ u.placemark = p /\ u.fault = FALSE
      BY <3>4 DEF BufferRecords
    <3> QED BY <3>5, <3>6 DEF p
  <2>4. After(b, k) = k + 1
    BY <1>4 DEF After
  <2>5. Counted(u, on, new)
    <3>1. u.placemark = 1 + Refs(on, new, 0)
      BY <1>2, <1>3, <1>4, <2>3
    <3>2. \A j \in 1..n : Refs(on, new, j) = Refs(on, at, j)
      BY <1>3, <1>4
    <3> QED BY <1>2, <2>3, <3>1, <3>2 DEF Counted
  <2> QED BY <1>4, <2>3, <2>4, <2>5 DEF Kept, new, Leaves
<1>5. CASE k > 0 /\ b.chunks[k].refs > 1
  <2>1. u = [b EXCEPT !.chunks[k].refs = @ - 1]
    BY <1>1, <1>5 DEF Unreference
  <2> DEFINE chunk == [b.chunks[k] EXCEPT !.refs = @ - 1]
  <2>2. k \in 1..n /\ b.chunks[k] \in ChunkRecords
    BY <1>1, <1>2, <1>5
  <2>3. /\ chunk \in ChunkRecords /\ chunk.refs = b.chunks[k].refs - 1
        /\ chunk.size = b.chunks[k].size /\ chunk.bytes = b.chunks[k].bytes
        /\ chunk.absolute = b.chunks[k].absolute
    <3>1. b.chunks[k].refs - 1 \in Nat
      BY <1>5, <2>2, ChunkFields
    <3> QED BY <2>2, <3>1, RefsField
  <2>4. u = [b EXCEPT !.chunks = [b.chunks EXCEPT ![k] = chunk]]
    BY <2>1
  <2> HIDE DEF chunk
  <2>5. /\ u.chunks = [b.chunks EXCEPT ![k] = chunk] /\ u.previous = b.previous
        /\ u.offset = b.offset /\ u.cursors = b.cursors /\ u.placemark = b.placemark
        /\ u.fault = FALSE
    BY <1>2, <2>4 DEF BufferRecords
  <2>6. /\ u.chunks \in Seq(ChunkRecords) /\ Len(u.chunks) = n
        /\ u.chunks[k] = chunk /\ \A j \in 1..n : j # k => u.chunks[j] = b.chunks[j]
    BY <1>2, <2>2, <2>3, <2>5
  <2>7. u \in BufferRecords
    <3>1. u = [b EXCEPT !.chunks = u.chunks]
      BY <2>4, <2>5
    <3> QED BY <2>6, <3>1 DEF BufferRecords
  <2>8. After(b, k) = k + 1
    BY <1>1, <1>5 DEF After, RefsOf
  <2>9. Kept(b, u, k)
    BY <2>3, <2>5, <2>6, <2>8 DEF Kept
  <2>10. Counted(u, on, new)
    <3>1. u.placemark = 1 + Refs(on, new, 0)
      <4>1. 0 # k /\ 0 \in Nat
        BY <1>1, <1>5
      <4>2. Refs(on, new, 0) = Refs(on, at, 0)
        BY <1>3, <4>1
      <4> QED BY <1>2, <2>5, <4>2
    <3>2. ASSUME NEW j \in 1..n
          PROVE  u.chunks[j].refs = Refs(on, new, j) /\ u.chunks[j].refs > 0
      <4>1. CASE j = k
        <5>1. u.chunks[j].refs = b.chunks[k].refs - 1
          BY <2>3, <2>6, <4>1
        <5>2. b.chunks[k].refs = Refs(on, at, k) /\ Refs(on, at, k) \in 0..2
          BY <1>1, <1>2, <1>3, <2>2
        <5>3. Refs(on, new, k) = Refs(on, at, k) - 1
          BY <1>1, <1>3
        <5> QED BY <1>5, <4>1, <5>1, <5>2, <5>3
      <4>2. CASE j # k
        <5>1. u.chunks[j].refs = b.chunks[j].refs
          BY <2>6, <4>2
        <5>2. /\ b.chunks[j].refs = Refs(on, at, j) /\ Refs(on, at, j) \in 0..2
              /\ b.chunks[j].refs > 0
          BY <1>1, <1>2, <1>3
        <5>3. Refs(on, new, j) = Refs(on, at, j)
          BY <1>1, <1>3, <4>2, <5>2
        <5> QED BY <5>1, <5>2, <5>3
      <4> QED BY <4>1, <4>2
    <3> QED BY <2>5, <2>6, <3>1, <3>2 DEF Counted
  <2> QED BY <2>5, <2>7, <2>9, <2>10 DEF new, Leaves
<1>6. CASE k > 0 /\ ~(b.chunks[k].refs > 1)
  <2>1. u = Delete(b, k)
    BY <1>1, <1>6 DEF Unreference
  <2>2. k \in 1..n /\ n >= 1 /\ 1 \in 1..n
    BY <1>1, <1>6
  <2>3. Refs(on, at, k) <= 1
    BY <1>2, <1>3, <1>6, <2>2
  <2>4. \A d \in (on \cap Cursors) \ {c} : at[d] > k
    BY <1>1, <1>3, <2>3
  <2>5. k = 1
    <3>1. PICK d \in on \cap Cursors : at[d] <= 1
      BY <1>2, <1>3, <2>2
    <3>2. at[d] \in Nat
      BY <3>1
    <3>3. CASE d = c
      BY <1>1, <1>6, <3>1, <3>3
    <3>4. CASE d # c
      BY <1>1, <1>6, <2>4, <3>1, <3>2, <3>4
    <3> QED BY <3>3, <3>4
  <2>6. u = [b EXCEPT !.chunks = Tail(@),
                      !.previous = [d \in Cursors |-> Lowered(b.previous[d])],
                      !.fault = FALSE]
    <3>1. (b.fault \/ k # 1) = FALSE
      BY <1>2, <2>5
    <3>2. [d \in Cursors |-> IF b.previous[d] = 0 THEN 0 ELSE b.previous[d] - 1]
            = [d \in Cursors |-> Lowered(b.previous[d])]
      BY DEF Lowered
    <3> QED BY <2>1, <3>1, <3>2 DEF Delete
  <2>7. /\ u.chunks = Tail(b.chunks)
        /\ u.previous = [d \in Cursors |-> Lowered(b.previous[d])]
        /\ u.offset = b.offset /\ u.cursors = b.cursors /\ u.placemark = b.placemark
        /\ u.fault = FALSE
    BY <2>6 DEF BufferRecords
  <2>8. /\ Tail(b.chunks) \in Seq(ChunkRecords) /\ Len(Tail(b.chunks)) = n - 1
        /\ \A j \in 1..(n - 1) : Tail(b.chunks)[j] = b.chunks[j + 1]
    BY <1>2, <2>2
  <2>9. u \in BufferRecords
    <3>1. [d \in Cursors |-> Lowered(b.previous[d])] \in [Cursors -> Nat]
      BY <1>2 DEF Lowered
    <3> QED BY <2>6, <2>8, <3>1 DEF BufferRecords
  <2>10. After(b, k) = 1
    BY <1>1, <1>6 DEF After, RefsOf
  <2> DEFINE low == [d \in Cursors |-> IF d = c THEN 1 ELSE Lowered(at[d])]
  <2>11. \A j \in Nat : /\ j > 0 => Refs(on, low, j) = Refs(on, at, j + 1)
                        /\ Refs(on, low, 0) = Refs(on, at, 0)
    BY <2>4, <2>5, RefsLower
  <2> HIDE DEF low
  <2>12. Counted(u, on, low)
    <3>1. u.placemark = 1 + Refs(on, low, 0)
      BY <1>2, <2>7, <2>11
    <3>2. ASSUME NEW j \in 1..(n - 1)
          PROVE  u.chunks[j].refs = Refs(on, low, j) /\ u.chunks[j].refs > 0
      <4>1. j \in Nat /\ j > 0 /\ j + 1 \in 1..n
        BY <1>1
      <4> QED BY <1>2, <2>7, <2>8, <2>11, <4>1
    <3> QED BY <2>7, <2>8, <3>1, <3>2 DEF Counted
  <2>13. Deleted(b, u, k)
    BY <2>2, <2>5, <2>7, <2>10 DEF Deleted
  <2> QED BY <2>4, <2>5, <2>7, <2>9, <2>12, <2>13 DEF low, Leaves
<1> QED BY <1>1, <1>4, <1>5, <1>6

-----------------------------------------------------------------------------
(* Moving a cursor.                                                        *)

\* The first s chunks of b are gone in r, and nothing else of what they hold.
Shifted(b, r, s) ==
  /\ Len(r.chunks) = Len(b.chunks) - s
  /\ \A j \in 1..Len(r.chunks) :
       /\ r.chunks[j].size = b.chunks[j + s].size
       /\ r.chunks[j].bytes = b.chunks[j + s].bytes
       /\ r.chunks[j].absolute = b.chunks[j + s].absolute

\* The same, with the output cursor where it was.
Trimmed(b, r) ==
  \E s \in Nat :
    /\ Shifted(b, r, s)
    /\ s = 0 \/ Len(r.chunks) > 0
    /\ r.previous["output"] + s = b.previous["output"]
    /\ r.offset["output"] = b.offset["output"]

LEMMA TrimmedTwice ==
  ASSUME NEW b, NEW q, NEW r, Trimmed(b, q), Trimmed(q, r),
         Len(b.chunks) \in Nat, Len(q.chunks) \in Nat, Len(r.chunks) \in Nat,
         b.previous["output"] \in Nat, q.previous["output"] \in Nat,
         r.previous["output"] \in Nat
  PROVE  Trimmed(b, r)
<1>1. PICK s \in Nat : /\ Shifted(b, q, s)
                       /\ s = 0 \/ Len(q.chunks) > 0
                       /\ q.previous["output"] + s = b.previous["output"]
                       /\ q.offset["output"] = b.offset["output"]
  BY DEF Trimmed
<1>2. PICK t \in Nat : /\ Shifted(q, r, t)
                       /\ t = 0 \/ Len(r.chunks) > 0
                       /\ r.previous["output"] + t = q.previous["output"]
                       /\ r.offset["output"] = q.offset["output"]
  BY DEF Trimmed
<1> DEFINE n == Len(b.chunks)
           l == Len(q.chunks)
           m == Len(r.chunks)
<1>3. l = n - s /\ m = l - t /\ n \in Nat /\ l \in Nat /\ m \in Nat
  BY <1>1, <1>2 DEF Shifted
<1> HIDE DEF n, l, m
<1>4. ASSUME NEW k \in 1..m
      PROVE  /\ r.chunks[k].size = b.chunks[k + (s + t)].size
             /\ r.chunks[k].bytes = b.chunks[k + (s + t)].bytes
             /\ r.chunks[k].absolute = b.chunks[k + (s + t)].absolute
  <2>1. k + t \in 1..l /\ (k + t) + s = k + (s + t)
    BY <1>3
  <2> QED BY <1>1, <1>2, <2>1 DEF Shifted, l, m
<1>5. m = n - (s + t) /\ s + t \in Nat
  BY <1>3
<1>6. Shifted(b, r, s + t)
  BY <1>4, <1>5 DEF Shifted, m, n
<1>7. s + t = 0 \/ m > 0
  BY <1>1, <1>2, <1>3 DEF l, m
<1>8. r.previous["output"] + (s + t) = b.previous["output"]
  BY <1>1, <1>2
<1> QED BY <1>1, <1>2, <1>5, <1>6, <1>7, <1>8 DEF Trimmed, m

LEMMA GoodTyped ==
  ASSUME NEW b, NEW on, Good(b, on)
  PROVE  /\ b \in BufferRecords /\ b.chunks \in Seq(ChunkRecords) /\ Len(b.chunks) \in Nat
         /\ b.previous \in [Cursors -> Nat] /\ b.offset \in [Cursors -> Nat]
         /\ b.cursors \in Nat /\ "output" \in on /\ on \subseteq Cursors
         /\ \A c \in Cursors : /\ b.previous[c] <= Len(b.chunks)
                               /\ b.previous[c] = 0 \/ b.previous[c] < Len(b.chunks)
                               /\ IF b.previous[c] < Len(b.chunks)
                                    THEN b.offset[c] <= Len(b.chunks[b.previous[c] + 1].bytes)
                                    ELSE b.offset[c] = 0
         /\ \A j \in 1..Len(b.chunks) : b.chunks[j] \in ChunkRecords
<1>1. /\ b \in BufferRecords /\ b.chunks \in Seq(ChunkRecords) /\ Len(b.chunks) \in Nat
      /\ b.previous \in [Cursors -> Nat] /\ b.offset \in [Cursors -> Nat] /\ b.cursors \in Nat
  BY DEF Good, BufferRecords
<1>2. "output" \in on /\ on \subseteq Cursors
  BY DEF Good, Cursors
<1>3. ASSUME NEW c \in Cursors
      PROVE  /\ b.previous[c] <= Len(b.chunks)
             /\ b.previous[c] = 0 \/ b.previous[c] < Len(b.chunks)
             /\ IF b.previous[c] < Len(b.chunks)
                  THEN b.offset[c] <= Len(b.chunks[b.previous[c] + 1].bytes)
                  ELSE b.offset[c] = 0
  BY <1>1 DEF Good, Placed, HasChunk, Chunk, Used
<1> QED BY <1>1, <1>2, <1>3

LEMMA MoveGood ==
  ASSUME NEW b, NEW on, Good(b, on), NEW c \in Cursors, c \in on,
         b.previous[c] + 1 < Len(b.chunks)
  PROVE  LET r == MoveToNextChunk(b, c)
         IN  /\ Good(r, on)
             /\ r.offset = [b.offset EXCEPT ![c] = 0]
             /\ \E s \in {0, 1} :
                  /\ Shifted(b, r, s) /\ r.previous[c] + s = b.previous[c] + 1
                  /\ \A d \in on \ {c} : r.previous[d] + s = b.previous[d]
<1> DEFINE k == b.previous[c]
           u == Unreference(b, k)
           r == MoveToNextChunk(b, c)
           n == Len(b.chunks)
<1>1. /\ b \in BufferRecords /\ b.chunks \in Seq(ChunkRecords) /\ n \in Nat
      /\ b.previous \in [Cursors -> Nat] /\ b.offset \in [Cursors -> Nat]
      /\ on \subseteq Cursors /\ Counted(b, on, b.previous)
      /\ b.cursors = IF "copy" \in on THEN 2 ELSE 1
  BY GoodTyped DEF Good
<1>2. /\ k \in Nat /\ k + 1 < n /\ k <= n
  BY <1>1
<1>3. /\ u \in BufferRecords /\ u.cursors = b.cursors /\ u.offset = b.offset
      /\ \/ /\ Kept(b, u, k) /\ Counted(u, on, [b.previous EXCEPT ![c] = @ + 1])
         \/ /\ Deleted(b, u, k)
            /\ \A d \in (on \cap Cursors) \ {c} : b.previous[d] > 1
            /\ Counted(u, on, [d \in Cursors |-> IF d = c THEN 1
                                                 ELSE Lowered(b.previous[d])])
  <2> DEFINE at == b.previous
  <2>1. /\ at \in [Cursors -> Nat] /\ Counted(b, on, at) /\ c \in on \cap Cursors
        /\ at[c] = k /\ k \in Nat
    BY <1>1, <1>2
  <2>2. k < n
    BY <1>1, <1>2
  <2> HIDE DEF at, k
  <2>3. at[c] <= Len(b.chunks)
    BY <1>1, <2>1, <2>2
  <2> DEFINE v == Unreference(b, at[c])
  <2>4. /\ v \in BufferRecords /\ v.cursors = b.cursors /\ v.offset = b.offset
        /\ Leaves(b, v, on, at, c)
    BY <1>1, <2>1, <2>3, UnreferenceCounts
  <2>5. v = Unreference(b, k)
    BY <2>1
  <2> HIDE DEF v
  <2> QED BY <2>1, <2>4, <2>5 DEF at, Leaves
<1>4. r = [u EXCEPT !.previous[c] = After(b, k), !.offset[c] = 0]
  BY DEF MoveToNextChunk
<1> HIDE DEF u, r
<1>5. PICK s \in {0, 1} :
        /\ After(b, k) + s = k + 1 /\ After(b, k) \in Nat
        /\ u.chunks \in Seq(ChunkRecords) /\ Shifted(b, u, s)
        /\ Counted(u, on, [u.previous EXCEPT ![c] = After(b, k)])
        /\ u.previous \in [Cursors -> Nat]
        /\ \A d \in on \ {c} : u.previous[d] + s = b.previous[d]
        /\ \A d \in Cursors \ on : u.previous[d] = b.previous[d] \/ b.previous[d] > 0
  <2>1. u.chunks \in Seq(ChunkRecords) /\ u.previous \in [Cursors -> Nat]
    BY <1>3 DEF BufferRecords
  <2>2. CASE Kept(b, u, k) /\ Counted(u, on, [b.previous EXCEPT ![c] = @ + 1])
    <3>1. /\ After(b, k) = k + 1 /\ Len(u.chunks) = n /\ u.previous = b.previous
          /\ \A j \in 1..n : /\ u.chunks[j].size = b.chunks[j].size
                             /\ u.chunks[j].bytes = b.chunks[j].bytes
                             /\ u.chunks[j].absolute = b.chunks[j].absolute
      BY <2>2 DEF Kept
    <3>2. Shifted(b, u, 0)
      <4>1. \A j \in 1..n : j + 0 = j
        OBVIOUS
      <4> QED BY <1>1, <3>1, <4>1 DEF Shifted
    <3>3. [b.previous EXCEPT ![c] = @ + 1] = [u.previous EXCEPT ![c] = After(b, k)]
      BY <3>1
    <3>4. \A d \in on : u.previous[d] + 0 = b.previous[d]
      BY <1>1, <3>1
    <3>5. After(b, k) + 0 = k + 1 /\ After(b, k) \in Nat
      BY <1>2, <3>1
    <3> QED BY <2>1, <2>2, <3>1, <3>2, <3>3, <3>4, <3>5
  <2>3. CASE /\ Deleted(b, u, k)
             /\ \A d \in (on \cap Cursors) \ {c} : b.previous[d] > 1
             /\ Counted(u, on, [d \in Cursors |-> IF d = c THEN 1
                                                  ELSE Lowered(b.previous[d])])
    <3>1. /\ After(b, k) = 1 /\ k = 1 /\ u.chunks = Tail(b.chunks)
          /\ u.previous = [d \in Cursors |-> Lowered(b.previous[d])]
      BY <2>3 DEF Deleted
    <3>2. Shifted(b, u, 1)
      <4>1. /\ Len(Tail(b.chunks)) = n - 1
            /\ \A j \in 1..(n - 1) : Tail(b.chunks)[j] = b.chunks[j + 1]
        BY <1>1, <1>2
      <4> QED BY <3>1, <4>1 DEF Shifted
    <3>3. [d \in Cursors |-> IF d = c THEN 1 ELSE Lowered(b.previous[d])]
            = [u.previous EXCEPT ![c] = After(b, k)]
      BY <3>1
    <3>4. \A d \in on \ {c} : u.previous[d] + 1 = b.previous[d]
      BY <1>1, <2>3, <3>1 DEF Lowered
    <3>5. \A d \in Cursors \ on : u.previous[d] = b.previous[d] \/ b.previous[d] > 0
      BY <1>1, <3>1 DEF Lowered
    <3>6. After(b, k) + 1 = k + 1 /\ After(b, k) \in Nat
      BY <3>1
    <3>7. 1 \in {0, 1}
      OBVIOUS
    <3> HIDE DEF k, n
    <3> QED BY <2>1, <2>3, <3>2, <3>3, <3>4, <3>5, <3>6, <3>7
  <2> QED BY <1>3, <2>2, <2>3
<1>6. /\ r.chunks = u.chunks /\ r.placemark = u.placemark /\ r.cursors = u.cursors
      /\ r.fault = u.fault
      /\ r.previous = [u.previous EXCEPT ![c] = After(b, k)]
      /\ r.offset = [b.offset EXCEPT ![c] = 0]
      /\ r \in BufferRecords
  <2> DEFINE p == [u.previous EXCEPT ![c] = After(b, k)]
             o == [u.offset EXCEPT ![c] = 0]
  <2>1. r = [u EXCEPT !.previous = p, !.offset = o]
    BY <1>4
  <2>2. p \in [Cursors -> Nat] /\ o \in [Cursors -> Nat]
    BY <1>1, <1>3, <1>5
  <2>3. o = [b.offset EXCEPT ![c] = 0]
    BY <1>3
  <2> HIDE DEF p, o
  <2>4. r \in BufferRecords
    BY <1>3, <2>1, <2>2 DEF BufferRecords
  <2>5. /\ r.chunks = u.chunks /\ r.placemark = u.placemark /\ r.cursors = u.cursors
        /\ r.fault = u.fault /\ r.previous = p /\ r.offset = o
    BY <1>3, <2>1 DEF BufferRecords
  <2> QED BY <2>3, <2>4, <2>5 DEF p
<1>7. Shifted(b, r, s)
  BY <1>5, <1>6 DEF Shifted
<1>8. /\ r.previous[c] + s = k + 1
      /\ \A d \in on \ {c} : r.previous[d] + s = b.previous[d]
  <2>1. r.previous[c] = After(b, k) /\ \A d \in Cursors \ {c} : r.previous[d] = u.previous[d]
    BY <1>5, <1>6
  <2> QED BY <1>1, <1>5, <2>1
<1>9. Counted(r, on, r.previous)
  BY <1>5, <1>6 DEF Counted
<1>10. \A d \in Cursors \ on : r.previous[d] = 0 /\ r.offset[d] = 0
  <2>1. ASSUME NEW d \in Cursors \ on PROVE r.previous[d] = 0 /\ r.offset[d] = 0
    <3>1. b.previous[d] = 0 /\ b.offset[d] = 0 /\ d # c
      BY DEF Good
    <3>2. r.previous[d] = u.previous[d] /\ r.offset[d] = b.offset[d]
      BY <1>1, <1>5, <1>6, <3>1
    <3>3. u.previous[d] = 0
      <4>1. u.previous[d] = b.previous[d] \/ b.previous[d] > 0
        BY <1>5
      <4> QED BY <3>1, <4>1
    <3> QED BY <3>1, <3>2, <3>3
  <2> QED BY <2>1
<1>11. ASSUME NEW d \in Cursors PROVE Placed(r, d)
  <2>1. Len(r.chunks) \in Nat /\ r.chunks \in Seq(ChunkRecords) /\ Len(r.chunks) = n - s
        /\ r.previous[d] \in Nat /\ r.offset[d] \in Nat
    BY <1>5, <1>6, <1>7 DEF Shifted, BufferRecords
  <2>2. r.previous[d] < Len(r.chunks) => Len(r.chunks[r.previous[d] + 1].bytes) \in Nat
    <3>1. ASSUME r.previous[d] < Len(r.chunks) PROVE r.chunks[r.previous[d] + 1] \in ChunkRecords
      <4>1. r.previous[d] + 1 \in 1..Len(r.chunks)
        BY <2>1, <3>1
      <4> HIDE DEF n
      <4> QED BY <2>1, <4>1, ElementOf
    <3> QED BY <3>1, ChunkFields
  <2>3. CASE d = c
    <3>1. r.previous[d] < Len(r.chunks)
      BY <1>2, <1>8, <2>1, <2>3
    <3>2. r.offset[d] = 0
      BY <1>1, <1>6, <2>3
    <3> QED BY <2>1, <2>2, <3>1, <3>2 DEF Placed, HasChunk, Chunk, Used
  <2>4. CASE d \notin on
    BY <1>10, <2>1, <2>2, <2>4 DEF Placed, HasChunk, Chunk, Used
  <2>5. CASE d \in on /\ d # c
    <3>1. /\ b.previous[d] \in Nat /\ b.previous[d] <= n
          /\ b.previous[d] = 0 \/ b.previous[d] < n
          /\ IF b.previous[d] < n
               THEN b.offset[d] <= Len(b.chunks[b.previous[d] + 1].bytes)
               ELSE b.offset[d] = 0
      BY <1>1, GoodTyped
    <3>2. r.previous[d] + s = b.previous[d] /\ r.offset[d] = b.offset[d]
      BY <1>1, <1>6, <1>8, <2>5
    <3>3. b.previous[d] < n /\ r.previous[d] < Len(r.chunks)
      <4> DEFINE p == b.previous[d]
                 q == r.previous[d]
                 l == Len(r.chunks)
      <4>1. /\ p \in Nat /\ q \in Nat /\ n \in Nat /\ l = n - s /\ s \in {0, 1}
            /\ (p = 0 \/ p < n) /\ q + s = p /\ k + 1 < n /\ k \in Nat
        BY <1>1, <1>2, <2>1, <3>1, <3>2
      <4> HIDE DEF p, q, l, n, k
      <4> QED BY <4>1 DEF p, q, l
    <3>4. r.chunks[r.previous[d] + 1].bytes = b.chunks[b.previous[d] + 1].bytes
      <4>1. r.previous[d] + 1 \in 1..Len(r.chunks) /\ r.previous[d] + 1 + s = b.previous[d] + 1
        BY <2>1, <3>1, <3>2, <3>3
      <4> QED BY <1>7, <4>1 DEF Shifted
    <3> QED BY <3>1, <3>2, <3>3, <3>4 DEF Placed, HasChunk, Chunk, Used
  <2> QED BY <2>3, <2>4, <2>5
<1>12. Good(r, on)
  <2>1. on \in {{"output"}, Cursors}
    BY DEF Good
  <2> QED BY <1>1, <1>3, <1>6, <1>9, <1>10, <1>11, <2>1 DEF Good
<1> QED BY <1>6, <1>7, <1>8, <1>12 DEF r

\* A state of Increment's loop.
Loops(on) == {s \in [b : BufferRecords, amount : Nat, done : BOOLEAN] : Good(s.b, on)}

LEMMA SizeTyped ==
  ASSUME NEW b, NEW on, Good(b, on), NEW c \in Cursors
  PROVE  /\ CurrentSize(b, c) \in Nat
         /\ b.previous[c] < Len(b.chunks) =>
              /\ Len(b.chunks[b.previous[c] + 1].bytes) \in Nat
              /\ CurrentSize(b, c) = Len(b.chunks[b.previous[c] + 1].bytes) - b.offset[c]
         /\ ~(b.previous[c] < Len(b.chunks)) => CurrentSize(b, c) = 0
<1>1. /\ b.chunks \in Seq(ChunkRecords) /\ b.previous[c] \in Nat /\ b.offset[c] \in Nat
      /\ Len(b.chunks) \in Nat
      /\ b.previous[c] < Len(b.chunks) =>
           b.offset[c] <= Len(b.chunks[b.previous[c] + 1].bytes)
  BY GoodTyped
<1>2. CASE b.previous[c] < Len(b.chunks)
  <2>1. b.chunks[b.previous[c] + 1] \in ChunkRecords
    BY <1>1, <1>2
  <2>2. Len(b.chunks[b.previous[c] + 1].bytes) \in Nat
    BY <2>1 DEF ChunkRecords
  <2>3. CurrentSize(b, c) = Len(b.chunks[b.previous[c] + 1].bytes) - b.offset[c]
    BY <1>2 DEF CurrentSize, HasChunk, Chunk, Used
  <2> DEFINE l == Len(b.chunks[b.previous[c] + 1].bytes)
  <2>4. l \in Nat /\ b.offset[c] \in Nat /\ b.offset[c] <= l
    BY <1>1, <1>2, <2>2
  <2> HIDE DEF l
  <2>5. l - b.offset[c] \in Nat
    BY <2>4
  <2> QED BY <1>2, <2>3, <2>4, <2>5 DEF l
<1>3. CASE ~(b.previous[c] < Len(b.chunks))
  BY <1>3 DEF CurrentSize, HasChunk
<1> QED BY <1>2, <1>3

\* A cursor that goes on within its chunk.
LEMMA OffsetGood ==
  ASSUME NEW b, NEW on, Good(b, on), NEW c \in Cursors, c \in on,
         NEW n \in Nat, n <= CurrentSize(b, c)
  PROVE  LET r == [b EXCEPT !.offset[c] = @ + n]
         IN  /\ Good(r, on)
             /\ r.chunks = b.chunks /\ r.previous = b.previous
             /\ r.offset = [b.offset EXCEPT ![c] = @ + n]
<1> DEFINE o == [b.offset EXCEPT ![c] = @ + n]
           r == [b EXCEPT !.offset = o]
<1>1. /\ b \in BufferRecords /\ b.offset \in [Cursors -> Nat] /\ on \subseteq Cursors
      /\ b.offset[c] \in Nat /\ b.chunks \in Seq(ChunkRecords)
  BY GoodTyped
<1>2. o \in [Cursors -> Nat] /\ o[c] = b.offset[c] + n
      /\ \A d \in Cursors : d # c => o[d] = b.offset[d]
  BY <1>1
<1> HIDE DEF o
<1>3. r \in BufferRecords
  BY <1>1, <1>2 DEF BufferRecords
<1>4. /\ r.chunks = b.chunks /\ r.placemark = b.placemark /\ r.cursors = b.cursors
      /\ r.fault = b.fault /\ r.previous = b.previous /\ r.offset = o
  BY <1>1 DEF BufferRecords
<1> HIDE DEF r
<1>5. Counted(r, on, r.previous)
  BY <1>4 DEF Good, Counted
<1>6. ASSUME NEW d \in Cursors PROVE Placed(r, d)
  <2>1. CASE d # c
    BY <1>2, <1>4, <2>1 DEF Good, Placed, HasChunk, Chunk, Used
  <2>2. CASE d = c
    <3>1. /\ b.previous[c] < Len(b.chunks) =>
               b.offset[c] + n <= Len(b.chunks[b.previous[c] + 1].bytes)
          /\ ~(b.previous[c] < Len(b.chunks)) => n = 0
      <4> DEFINE l == Len(b.chunks[b.previous[c] + 1].bytes)
                 m == CurrentSize(b, c)
      <4>1. /\ m \in Nat /\ n <= m /\ n \in Nat /\ b.offset[c] \in Nat
            /\ b.previous[c] < Len(b.chunks) => l \in Nat /\ m = l - b.offset[c]
            /\ ~(b.previous[c] < Len(b.chunks)) => m = 0
        BY <1>1, SizeTyped
      <4> HIDE DEF l, m
      <4>2. b.previous[c] < Len(b.chunks) => b.offset[c] + n <= l
        BY <4>1
      <4>3. ~(b.previous[c] < Len(b.chunks)) => n = 0
        BY <4>1
      <4> QED BY <4>2, <4>3 DEF l
    <3>2. Placed(b, c)
      BY DEF Good
    <3> QED BY <1>1, <1>2, <1>4, <2>2, <3>1, <3>2 DEF Placed, HasChunk, Chunk, Used
  <2> QED BY <2>1, <2>2
<1>7. Good(r, on)
  <2>1. \A d \in Cursors \ on : r.previous[d] = 0 /\ r.offset[d] = 0
    BY <1>2, <1>4 DEF Good
  <2> QED BY <1>3, <1>4, <1>5, <1>6, <2>1 DEF Good
<1>8. r = [b EXCEPT !.offset[c] = @ + n]
  BY DEF r, o
<1> QED BY <1>4, <1>7, <1>8 DEF o

\* A turn stays within the chunk, moves to the next, or cannot.
LEMMA TurnCases ==
  ASSUME NEW on, NEW s \in Loops(on), NEW c \in Cursors, c \in on
  PROVE  LET m == CurrentSize(s.b, c)
             t == IncrementTurn(s, c)
             moved == MoveToNextChunk(s.b, c)
         IN  /\ m \in Nat /\ t \in Loops(on)
             /\ \/ s.done /\ t = s
                \/ /\ ~s.done /\ s.amount <= m
                   /\ t.b = [s.b EXCEPT !.offset[c] = @ + s.amount]
                   /\ t.amount = 0 /\ t.done
                \/ /\ ~s.done /\ m < s.amount
                   /\ s.b.previous[c] + 1 < Len(s.b.chunks)
                   /\ t.b = moved /\ t.amount = s.amount - m
                   /\ t.done = (CurrentSize(moved, c) = 0)
                \/ /\ ~s.done /\ m < s.amount
                   /\ ~(s.b.previous[c] + 1 < Len(s.b.chunks))
                   /\ t.b = s.b /\ t.amount = s.amount - m
<1> DEFINE m == CurrentSize(s.b, c)
           t == IncrementTurn(s, c)
           moved == MoveToNextChunk(s.b, c)
<1>1. /\ Good(s.b, on) /\ s.amount \in Nat /\ s.done \in BOOLEAN /\ s.b \in BufferRecords
  BY DEF Loops
<1>2. m \in Nat
  BY <1>1, SizeTyped
<1>3. CASE s.done
  <2>1. t = s
    BY <1>3 DEF IncrementTurn
  <2> QED BY <1>2, <1>3, <2>1
<1>4. CASE ~s.done /\ m >= s.amount
  <2> DEFINE r == [s.b EXCEPT !.offset[c] = @ + s.amount]
  <2>1. t = [b |-> r, amount |-> 0, done |-> TRUE]
    BY <1>4 DEF IncrementTurn
  <2>2. Good(r, on)
    BY <1>1, <1>2, <1>4, OffsetGood
  <2>3. r \in BufferRecords
    BY <2>2 DEF Good
  <2> HIDE DEF r, t
  <2>4. t \in Loops(on)
    BY <2>1, <2>2, <2>3 DEF Loops
  <2>5. t.b = r /\ t.amount = 0 /\ t.done
    BY <2>1
  <2>6. s.amount <= m
    BY <1>1, <1>2, <1>4
  <2> HIDE DEF m
  <2> QED BY <1>2, <1>4, <2>4, <2>5, <2>6 DEF r, t, m
<1>5. CASE ~s.done /\ ~(m >= s.amount)
  <2>1. m < s.amount /\ s.amount - m \in Nat
    BY <1>1, <1>2, <1>5
  <2>2. CASE s.b.previous[c] + 1 < Len(s.b.chunks)
    <3>1. t = [b |-> moved, amount |-> s.amount - m, done |-> CurrentSize(moved, c) = 0]
      BY <1>5, <2>2 DEF IncrementTurn
    <3>2. Good(moved, on)
      BY <1>1, <2>2, MoveGood
    <3>3. moved \in BufferRecords
      BY <3>2 DEF Good
    <3> HIDE DEF moved, t, m
    <3>4. t \in Loops(on)
      <4>1. (CurrentSize(moved, c) = 0) \in BOOLEAN
        OBVIOUS
      <4> QED BY <2>1, <3>1, <3>2, <3>3, <4>1 DEF Loops
    <3>5. t.b = moved /\ t.amount = s.amount - m /\ t.done = (CurrentSize(moved, c) = 0)
      BY <3>1
    <3> QED BY <1>2, <1>5, <2>1, <2>2, <3>4, <3>5 DEF moved, t, m
  <2>3. CASE ~(s.b.previous[c] + 1 < Len(s.b.chunks))
    <3>1. t = [b |-> s.b, amount |-> s.amount - m, done |-> CurrentSize(s.b, c) = 0]
      BY <1>5, <2>3 DEF IncrementTurn
    <3> HIDE DEF t, m
    <3>2. t \in Loops(on)
      <4>1. (CurrentSize(s.b, c) = 0) \in BOOLEAN
        OBVIOUS
      <4> QED BY <1>1, <2>1, <3>1, <4>1 DEF Loops
    <3>3. t.b = s.b /\ t.amount = s.amount - m
      BY <3>1
    <3> QED BY <1>2, <1>5, <2>1, <2>3, <3>2, <3>3 DEF t, m
  <2> QED BY <2>2, <2>3
<1> QED BY <1>3, <1>4, <1>5

LEMMA IncrementGood ==
  ASSUME NEW b, NEW on, Good(b, on), NEW c \in Cursors, c \in on, NEW n \in Nat
  PROVE  Good(IncrementIn(b, c, n), on)
<1> DEFINE d == [b |-> b, amount |-> n, done |-> FALSE]
           turns == Len(b.chunks) + 1
           f == IncrementLoop(d, c, turns)
<1>1. d \in Loops(on) /\ turns \in Nat
  BY GoodTyped DEF Loops
<1>2. \A s \in Loops(on) : IncrementTurn(s, c) \in Loops(on)
  BY TurnCases
<1>3. IncrementIn(b, c, n) = f.b
  BY DEF IncrementIn, IncrementLoop
<1>4. f \in Loops(on)
  <2> HIDE DEF d, turns
  <2>1. PICK h \in [0..turns -> Loops(on)] : IncrementRuns(h, d, c, turns)
    BY <1>1, <1>2, IncrementTurns
  <2>2. turns \in 0..turns
    BY <1>1
  <2> QED BY <2>1, <2>2 DEF IncrementRuns
<1> HIDE DEF f
<1> QED BY <1>3, <1>4 DEF Loops

-----------------------------------------------------------------------------
(* Reading.                                                                *)

\* Two sequences, and what a sequence has after one place and up to another.
Joined(p, q) == p \o q
Cut(q, first, last) == SubSeq(q, first + 1, last)

LEMMA JoinedKeeps ==
  ASSUME NEW T, NEW p \in Seq(T), NEW q \in Seq(T)
  PROVE  /\ Joined(p, q) \in Seq(T) /\ Len(Joined(p, q)) = Len(p) + Len(q)
         /\ \A i \in 1..Len(p) : Joined(p, q)[i] = p[i]
         /\ \A i \in 1..Len(q) : Joined(p, q)[Len(p) + i] = q[i]
BY DEF Joined

IsCut(r, q, first, last) ==
  Len(r) = last - first /\ \A i \in 1..(last - first) : r[i] = q[first + i]

LEMMA CutKeeps ==
  ASSUME NEW T, NEW q \in Seq(T), NEW first \in Nat, NEW last \in Nat,
         first <= last, last <= Len(q)
  PROVE  Cut(q, first, last) \in Seq(T) /\ IsCut(Cut(q, first, last), q, first, last)
BY DEF Cut, IsCut

LEMMA DataTyped ==
  ASSUME NEW b, NEW on, Good(b, on), NEW c \in Cursors
  PROVE  /\ Data(b, c) \in Seq(Nat) /\ ContiguousSize(b, c) \in Nat
         /\ Len(Data(b, c)) = ContiguousSize(b, c)
<1> DEFINE p == b.previous[c]
           n == Len(b.chunks)
<1>1. /\ p \in Nat /\ n \in Nat /\ b.offset[c] \in Nat /\ b.chunks \in Seq(ChunkRecords)
      /\ \A j \in 1..n : b.chunks[j] \in ChunkRecords
      /\ p < n => b.offset[c] <= Len(b.chunks[p + 1].bytes)
  BY GoodTyped
<1>2. \A j \in 1..n : b.chunks[j].bytes \in Seq(Nat) /\ Len(b.chunks[j].bytes) \in Nat
  <2>1. \A chunk \in ChunkRecords : chunk.bytes \in Seq(Nat) /\ Len(chunk.bytes) \in Nat
    BY DEF ChunkRecords
  <2> QED BY <1>1, <2>1
<1>3. CASE LooksAhead(b, c)
  <2>1. p + 2 \in 1..n
    BY <1>1, <1>3 DEF LooksAhead, NextChunk
  <2> QED BY <1>2, <1>3, <2>1 DEF Data, ContiguousSize, NextChunk, Used
<1>4. CASE ~LooksAhead(b, c) /\ p < n
  <2> DEFINE q == b.chunks[p + 1].bytes
  <2>1. p + 1 \in 1..n
    BY <1>1, <1>4
  <2>2. q \in Seq(Nat) /\ Len(q) \in Nat /\ b.offset[c] <= Len(q)
    BY <1>1, <1>2, <1>4, <2>1
  <2>3. b.offset[c] \in Nat
    BY <1>1
  <2>4. /\ Data(b, c) = Cut(q, b.offset[c], Len(q))
        /\ ContiguousSize(b, c) = Len(q) - b.offset[c]
    BY <1>4 DEF Cut, Data, ContiguousSize, CurrentSize, HasChunk, Chunk, Used
  <2> HIDE DEF q
  <2>5. /\ Cut(q, b.offset[c], Len(q)) \in Seq(Nat)
        /\ IsCut(Cut(q, b.offset[c], Len(q)), q, b.offset[c], Len(q))
    BY <2>2, <2>3, CutKeeps
  <2>6. Len(q) - b.offset[c] \in Nat
    BY <2>2, <2>3
  <2> QED BY <2>4, <2>5, <2>6 DEF IsCut
<1>5. CASE ~LooksAhead(b, c) /\ ~(p < n)
  BY <1>5 DEF Data, ContiguousSize, CurrentSize, HasChunk
<1> QED BY <1>3, <1>4, <1>5

\* A state of Consume's loop, which asks for n bytes.
Reads(on, n) == {s \in [b : BufferRecords, bytes : Seq(Nat)] :
                   Good(s.b, on) /\ Len(s.bytes) <= n}

LEMMA ConsumeGood ==
  ASSUME NEW b, NEW on, Good(b, on), NEW c \in Cursors, c \in on, NEW n \in Nat
  PROVE  Good(ConsumeIn(b, c, n).b, on)
<1> DEFINE d == [b |-> b, bytes |-> <<>>]
           turns == Len(b.chunks) + 1
           f == ConsumeLoop(d, c, n, turns)
<1>1. d \in Reads(on, n) /\ turns \in Nat
  <2>1. <<>> \in Seq(Nat) /\ Len(<<>>) <= n
    OBVIOUS
  <2> QED BY <2>1, GoodTyped DEF Reads
<1>2. ASSUME NEW s \in Reads(on, n) PROVE ConsumeTurn(s, c, n) \in Reads(on, n)
  <2> DEFINE count == Smaller(n - Len(s.bytes), ContiguousSize(s.b, c))
             taking == Cut(Data(s.b, c), 0, count)
             moved == IncrementIn(s.b, c, count)
  <2>1. /\ Good(s.b, on) /\ s.bytes \in Seq(Nat) /\ Len(s.bytes) \in Nat /\ Len(s.bytes) <= n
    BY DEF Reads
  <2>2. /\ Data(s.b, c) \in Seq(Nat) /\ ContiguousSize(s.b, c) \in Nat
        /\ Len(Data(s.b, c)) = ContiguousSize(s.b, c)
    BY <2>1, DataTyped
  <2>3. count \in Nat /\ count <= n - Len(s.bytes) /\ count <= ContiguousSize(s.b, c)
    BY <2>1, <2>2 DEF Smaller
  <2>4. CASE Len(s.bytes) = n \/ LeftSize(s.b, c) = 0
    BY <2>4 DEF ConsumeTurn
  <2>5. CASE ~(Len(s.bytes) = n \/ LeftSize(s.b, c) = 0)
    <3>1. ConsumeTurn(s, c, n) = [b |-> moved, bytes |-> Joined(s.bytes, taking)]
      BY <2>5 DEF ConsumeTurn, Joined, Cut
    <3> HIDE DEF count
    <3>2. taking \in Seq(Nat) /\ Len(taking) = count
      <4>1. taking \in Seq(Nat) /\ IsCut(taking, Data(s.b, c), 0, count)
        BY <2>2, <2>3, CutKeeps
      <4> QED BY <2>3, <4>1 DEF IsCut
    <3>3. /\ Joined(s.bytes, taking) \in Seq(Nat)
          /\ Len(Joined(s.bytes, taking)) = Len(s.bytes) + count
      <4> HIDE DEF taking
      <4>1. s.bytes \in Seq(Nat)
        BY <2>1
      <4>2. Joined(s.bytes, taking) \in Seq(Nat)
        BY <3>2, <4>1, JoinedKeeps
      <4>3. Len(Joined(s.bytes, taking)) = Len(s.bytes) + Len(taking)
        BY <3>2, <4>1, JoinedKeeps
      <4> QED BY <3>2, <4>2, <4>3
    <3>4. Good(moved, on) /\ moved \in BufferRecords
      <4>1. Good(IncrementIn(s.b, c, count), on)
        BY <2>1, <2>3, IncrementGood
      <4> QED BY <4>1 DEF Good
    <3> HIDE DEF taking, moved
    <3>5. Len(Joined(s.bytes, taking)) <= n
      BY <2>1, <2>3, <3>3
    <3> QED BY <3>1, <3>3, <3>4, <3>5 DEF Reads
  <2> QED BY <2>4, <2>5
<1>3. ConsumeIn(b, c, n) = f
  BY DEF ConsumeIn, ConsumeLoop, ConsumeTurn
<1>4. f \in Reads(on, n)
  <2> HIDE DEF d, turns
  <2>1. PICK h \in [0..turns -> Reads(on, n)] : ConsumeRuns(h, d, c, n, turns)
    BY <1>1, <1>2, ConsumeTurns
  <2>2. turns \in 0..turns
    BY <1>1
  <2> QED BY <2>1, <2>2 DEF ConsumeRuns
<1> HIDE DEF f
<1> QED BY <1>3, <1>4 DEF Reads

\* What GetIovec describes has a length.
LEMMA IovecTyped ==
  ASSUME NEW b, NEW on, Good(b, on), NEW c \in Cursors, IovecSize \in Nat
  PROVE  GetIovec(b, c) \in Seq(Nat)
<1> DEFINE n == Len(b.chunks)
           p == b.previous[c]
           first == IF CurrentSize(b, c) > 0 THEN 1 ELSE 0
           end == Smaller(p + 1 + IovecSize - first, n)
           q == SubSeq(b.chunks, NextChunk(b, c), end)
           base == SubSeq(b.chunks[p + 1].bytes, b.offset[c] + 1, Len(b.chunks[p + 1].bytes))
<1>1. CASE LeftSize(b, c) = 0
  <2>1. GetIovec(b, c) = <<>>
    BY <1>1 DEF GetIovec
  <2>2. <<>> \in Seq(Nat)
    OBVIOUS
  <2> QED BY <2>1, <2>2
<1>2. CASE LeftSize(b, c) # 0
  <2>1. /\ p \in Nat /\ n \in Nat /\ b.offset[c] \in Nat /\ b.chunks \in Seq(ChunkRecords)
        /\ p < n => b.offset[c] <= Len(b.chunks[p + 1].bytes)
    BY GoodTyped
  <2>2. p < n
    BY <1>2 DEF LeftSize, HasChunk
  <2>3. GetIovec(b, c) = Gathered(base, q)
    BY <1>2 DEF GetIovec, Gathered, Chunk, Used
  <2>4. base \in Seq(Nat)
    <3>1. b.chunks[p + 1] \in ChunkRecords
      BY <2>1, <2>2
    <3> DEFINE r == b.chunks[p + 1].bytes
    <3>2. r \in Seq(Nat) /\ Len(r) \in Nat /\ b.offset[c] <= Len(r)
      <4>1. \A chunk \in ChunkRecords : chunk.bytes \in Seq(Nat) /\ Len(chunk.bytes) \in Nat
        BY DEF ChunkRecords
      <4> QED BY <2>1, <2>2, <3>1, <4>1
    <3> HIDE DEF r
    <3>3. Cut(r, b.offset[c], Len(r)) \in Seq(Nat)
      BY <2>1, <3>2, CutKeeps
    <3> QED BY <3>3 DEF r, Cut
  <2>5. q \in Seq(ChunkRecords) /\ Len(q) \in Nat /\ DOMAIN q = 1..Len(q)
    <3>1. end \in Int /\ end <= n /\ NextChunk(b, c) = p + 2
      <4>1. p + 1 + IovecSize - first \in Int
        BY <2>1
      <4> HIDE DEF first, n, p
      <4>2. end \in Int /\ end <= n
        BY <2>1, <4>1 DEF Smaller
      <4> QED BY <4>2 DEF NextChunk, p
    <3> HIDE DEF end
    <3>2. SubSeq(b.chunks, p + 2, end) \in Seq(ChunkRecords)
      BY <2>1, <3>1
    <3> HIDE DEF p
    <3>3. q \in Seq(ChunkRecords)
      BY <3>1, <3>2
    <3> HIDE DEF q
    <3> QED BY <3>3
  <2> HIDE DEF q, base
  <2>6. \A s \in Seq(Nat), i \in 1..Len(q) : s \o q[i].bytes \in Seq(Nat)
    <3>1. ASSUME NEW s \in Seq(Nat), NEW i \in 1..Len(q) PROVE s \o q[i].bytes \in Seq(Nat)
      <4>1. q[i] \in ChunkRecords
        BY <2>5
      <4>2. q[i].bytes \in Seq(Nat)
        BY <4>1 DEF ChunkRecords
      <4> QED BY <4>2, JoinedKeeps DEF Joined
    <3> QED BY <3>1
  <2>7. PICK h \in [0..Len(q) -> Seq(Nat)] : GatherRuns(h, base, q)
    BY <2>4, <2>5, <2>6, GatherTurns
  <2>8. Len(q) \in 0..Len(q)
    BY <2>5
  <2> QED BY <2>3, <2>7, <2>8 DEF GatherRuns
<1> QED BY <1>1, <1>2

-----------------------------------------------------------------------------
(* Filling.                                                                *)

LEMMA ReserveGood ==
  ASSUME NEW b, NEW on, Good(b, on), NEW n \in Nat
  PROVE  Good(ReserveIn(b, n), on) /\ ReserveIn(b, n).chunks # <<>>
<1> DEFINE m == Len(b.chunks)
           chunk == [size |-> ChunkSize(n), bytes |-> <<>>, refs |-> b.cursors,
                     absolute |-> AbsoluteOffset(b.chunks)]
           r == AppendChunk(b, n)
<1>1. /\ b \in BufferRecords /\ b.chunks \in Seq(ChunkRecords) /\ m \in Nat
      /\ b.previous \in [Cursors -> Nat] /\ b.offset \in [Cursors -> Nat]
      /\ b.cursors \in Nat /\ "output" \in on /\ on \subseteq Cursors
      /\ \A j \in 1..m : b.chunks[j] \in ChunkRecords
  BY GoodTyped
<1>2. CASE ~(b.chunks = <<>> \/ Available(Last(b.chunks)) < n)
  BY <1>2 DEF ReserveIn
<1>3. CASE b.chunks = <<>> \/ Available(Last(b.chunks)) < n
  <2>1. ReserveIn(b, n) = r
    BY <1>3 DEF ReserveIn
  <2>2. chunk \in ChunkRecords /\ chunk.bytes = <<>> /\ chunk.refs = b.cursors
    <3>1. ChunkSize(n) \in Nat
      BY BufferAssumption DEF ChunkSize
    <3>2. AbsoluteOffset(b.chunks) \in Nat
      <4>1. CASE b.chunks = <<>>
        BY <4>1 DEF AbsoluteOffset
      <4>2. CASE b.chunks # <<>>
        <5>1. m \in 1..m
          BY <1>1, <4>2
        <5>2. Last(b.chunks) \in ChunkRecords
          BY <1>1, <5>1 DEF Last
        <5>3. \A x \in ChunkRecords : x.absolute \in Nat /\ Len(x.bytes) \in Nat
          BY DEF ChunkRecords
        <5> QED BY <4>2, <5>2, <5>3 DEF AbsoluteOffset, Used
      <4> QED BY <4>1, <4>2
    <3>3. <<>> \in Seq(Nat)
      OBVIOUS
    <3> QED BY <1>1, <3>1, <3>2, <3>3 DEF ChunkRecords
  <2>3. r = [b EXCEPT !.chunks = Append(b.chunks, chunk)]
    BY DEF AppendChunk
  <2> HIDE DEF chunk, r
  <2>4. /\ Append(b.chunks, chunk) \in Seq(ChunkRecords)
        /\ Len(Append(b.chunks, chunk)) = m + 1
        /\ \A j \in 1..m : Append(b.chunks, chunk)[j] = b.chunks[j]
        /\ Append(b.chunks, chunk)[m + 1] = chunk
    BY <1>1, <2>2
  <2>5. /\ r \in BufferRecords
        /\ r.chunks = Append(b.chunks, chunk) /\ r.placemark = b.placemark
        /\ r.cursors = b.cursors /\ r.fault = b.fault
        /\ r.previous = b.previous /\ r.offset = b.offset
    BY <1>1, <2>3, <2>4 DEF BufferRecords
  <2>6. Counted(r, on, r.previous)
    <3>1. r.placemark = 1 + Refs(on, r.previous, 0) /\ r.fault = FALSE
      BY <2>5 DEF Good, Counted
    <3>2. ASSUME NEW k \in 1..(m + 1)
          PROVE  r.chunks[k].refs = Refs(on, r.previous, k) /\ r.chunks[k].refs > 0
      <4>1. CASE k \in 1..m
        <5>1. r.chunks[k] = b.chunks[k]
          BY <2>4, <2>5, <4>1
        <5> QED BY <2>5, <4>1, <5>1 DEF Good, Counted
      <4>2. CASE k = m + 1
        <5>1. r.chunks[k].refs = b.cursors
          BY <2>2, <2>4, <2>5, <4>2
        <5>2. \A c \in Cursors : b.previous[c] <= m /\ b.previous[c] \in Nat
          BY <1>1, GoodTyped
        <5>3. \A c \in Cursors : b.previous[c] <= k
          BY <1>1, <4>2, <5>2
        <5>4. AtOrBefore(on, r.previous, "output", k) = 1
          BY <1>1, <2>5, <5>3 DEF AtOrBefore, Cursors
        <5>5. AtOrBefore(on, r.previous, "copy", k) = IF "copy" \in on THEN 1 ELSE 0
          BY <2>5, <5>3 DEF AtOrBefore, Cursors
        <5>6. b.cursors = IF "copy" \in on THEN 2 ELSE 1
          BY DEF Good
        <5> QED BY <5>1, <5>4, <5>5, <5>6 DEF Refs
      <4> QED BY <1>1, <4>1, <4>2
    <3> QED BY <2>4, <2>5, <3>1, <3>2 DEF Counted
  <2>7. ASSUME NEW c \in Cursors PROVE Placed(r, c)
    <3> DEFINE p == b.previous[c]
    <3>1. /\ p \in Nat /\ b.offset[c] \in Nat /\ p <= m /\ (p = 0 \/ p < m)
          /\ IF p < m THEN b.offset[c] <= Len(b.chunks[p + 1].bytes) ELSE b.offset[c] = 0
      BY <1>1, GoodTyped
    <3>2. p < m + 1 /\ Len(r.chunks) = m + 1 /\ p + 1 \in 1..(m + 1)
      BY <1>1, <2>4, <2>5, <3>1
    <3>3. b.offset[c] <= Len(r.chunks[p + 1].bytes)
      <4>1. CASE p < m
        <5>1. r.chunks[p + 1] = b.chunks[p + 1]
          BY <1>1, <2>4, <2>5, <3>1, <4>1
        <5> QED BY <3>1, <4>1, <5>1
      <4>2. CASE ~(p < m)
        <5>1. p = m
          BY <1>1, <3>1, <4>2
        <5>2. r.chunks[p + 1].bytes = <<>>
          BY <2>2, <2>4, <2>5, <5>1
        <5>3. b.offset[c] = 0
          BY <3>1, <4>2
        <5> QED BY <5>2, <5>3
      <4> QED BY <4>1, <4>2
    <3> QED BY <2>5, <3>1, <3>2, <3>3 DEF Placed, HasChunk, Chunk, Used
  <2>8. Good(r, on)
    BY <2>5, <2>6, <2>7 DEF Good
  <2>9. r.chunks # <<>>
    BY <1>1, <2>4, <2>5
  <2> QED BY <2>1, <2>8, <2>9
<1> QED BY <1>2, <1>3

LEMMA FilledGood ==
  ASSUME NEW b, NEW on, Good(b, on), b.chunks # <<>>, NEW first \in Nat, NEW n \in Nat
  PROVE  Good(Filled(b, first, n), on)
<1> DEFINE m == Len(b.chunks)
           old == b.chunks[m].bytes
           new == old \o [i \in 1..n |-> first + i - 1]
           chunk == [b.chunks[m] EXCEPT !.bytes = new]
           r == Filled(b, first, n)
<1>1. /\ b \in BufferRecords /\ b.chunks \in Seq(ChunkRecords) /\ m \in Nat
      /\ b.previous \in [Cursors -> Nat] /\ b.offset \in [Cursors -> Nat]
      /\ \A j \in 1..m : b.chunks[j] \in ChunkRecords
  BY GoodTyped
<1>2. m \in 1..m
  BY <1>1
<1>3. /\ old \in Seq(Nat) /\ Len(old) \in Nat
  <2>1. \A x \in ChunkRecords : x.bytes \in Seq(Nat) /\ Len(x.bytes) \in Nat
    BY DEF ChunkRecords
  <2> QED BY <1>1, <1>2, <2>1
<1>4. new \in Seq(Nat) /\ Len(new) = Len(old) + n
  <2> DEFINE add == [i \in 1..n |-> first + i - 1]
  <2>1. \A i \in 1..n : first + i - 1 \in Nat
    OBVIOUS
  <2>2. add \in Seq(Nat) /\ Len(add) = n
    BY <2>1
  <2> HIDE DEF add, old
  <2>3. Joined(old, add) \in Seq(Nat) /\ Len(Joined(old, add)) = Len(old) + n
    BY <1>3, <2>2, JoinedKeeps
  <2> QED BY <2>3 DEF add, Joined
<1>5. r = [b EXCEPT !.chunks = [b.chunks EXCEPT ![m] = chunk]]
  BY DEF Filled
<1> HIDE DEF new, old, r
<1>6. chunk \in ChunkRecords /\ chunk.bytes = new /\ chunk.refs = b.chunks[m].refs
  <2>1. b.chunks[m] \in ChunkRecords
    BY <1>1, <1>2
  <2> QED BY <1>4, <2>1 DEF ChunkRecords
<1> HIDE DEF chunk
<1>7. /\ [b.chunks EXCEPT ![m] = chunk] \in Seq(ChunkRecords)
      /\ Len([b.chunks EXCEPT ![m] = chunk]) = m
      /\ \A j \in 1..m : j # m => [b.chunks EXCEPT ![m] = chunk][j] = b.chunks[j]
      /\ [b.chunks EXCEPT ![m] = chunk][m] = chunk
  BY <1>1, <1>2, <1>6
<1>8. /\ r \in BufferRecords
      /\ r.chunks = [b.chunks EXCEPT ![m] = chunk] /\ r.placemark = b.placemark
      /\ r.cursors = b.cursors /\ r.fault = b.fault
      /\ r.previous = b.previous /\ r.offset = b.offset
  BY <1>1, <1>5, <1>7 DEF BufferRecords
<1>9. \A j \in 1..m : r.chunks[j].refs = b.chunks[j].refs
  <2>1. ASSUME NEW j \in 1..m PROVE r.chunks[j].refs = b.chunks[j].refs
    <3>1. CASE j = m
      BY <1>6, <1>7, <1>8, <3>1
    <3>2. CASE j # m
      BY <1>7, <1>8, <3>2
    <3> QED BY <3>1, <3>2
  <2> QED BY <2>1
<1>10. Counted(r, on, r.previous)
  BY <1>7, <1>8, <1>9 DEF Good, Counted
<1>11. ASSUME NEW c \in Cursors PROVE Placed(r, c)
  <2> DEFINE p == b.previous[c]
  <2>1. /\ p \in Nat /\ b.offset[c] \in Nat /\ (p = 0 \/ p < m)
        /\ IF p < m THEN b.offset[c] <= Len(b.chunks[p + 1].bytes) ELSE b.offset[c] = 0
    BY <1>1, GoodTyped
  <2>2. p < m /\ p + 1 \in 1..m
    BY <1>1, <1>2, <2>1
  <2>3. b.offset[c] <= Len(r.chunks[p + 1].bytes)
    <3>1. CASE p + 1 = m
      <4>1. r.chunks[p + 1].bytes = new /\ b.offset[c] <= Len(old)
        BY <1>6, <1>7, <1>8, <2>1, <2>2, <3>1 DEF old
      <4> QED BY <1>3, <1>4, <2>1, <4>1
    <3>2. CASE p + 1 # m
      BY <1>7, <1>8, <2>1, <2>2, <3>2
    <3> QED BY <3>1, <3>2
  <2> QED BY <1>7, <1>8, <2>1, <2>2, <2>3 DEF Placed, HasChunk, Chunk, Used
<1>12. Good(r, on)
  BY <1>8, <1>10, <1>11 DEF Good
<1> QED BY <1>12 DEF r

-----------------------------------------------------------------------------
(* Copying a cursor and dropping the copy.                                 *)

LEMMA ReferenceGood ==
  ASSUME NEW b, Good(b, {"output"})
  PROVE  LET r == ReferenceFrom(b)
         IN  /\ Good(r, Cursors) /\ Trimmed(b, r)
             /\ r.previous["copy"] = r.previous["output"]
             /\ r.offset["copy"] = r.offset["output"]
<1> DEFINE m == Len(b.chunks)
           p == b.previous["output"]
           r == ReferenceFrom(b)
           more == [i \in 1..m |->
                      IF i >= p THEN Referenced(b.chunks[i]) ELSE b.chunks[i]]
           at == [b.previous EXCEPT !["copy"] = p]
           o == [b.offset EXCEPT !["copy"] = b.offset["output"]]
           mark == IF p = 0 THEN b.placemark + 1 ELSE b.placemark
<1>1. /\ b \in BufferRecords /\ b.chunks \in Seq(ChunkRecords) /\ m \in Nat
      /\ b.previous \in [Cursors -> Nat] /\ b.offset \in [Cursors -> Nat]
      /\ b.placemark \in Int
      /\ \A j \in 1..m : b.chunks[j] \in ChunkRecords
  BY GoodTyped DEF BufferRecords
<1>2. Cursors = {"output", "copy"} /\ "output" # "copy"
  BY DEF Cursors
<1>3. /\ at \in [Cursors -> Nat] /\ at["output"] = p /\ at["copy"] = p /\ p \in Nat
      /\ o \in [Cursors -> Nat] /\ o["output"] = b.offset["output"]
      /\ o["copy"] = b.offset["output"] /\ mark \in Int
  BY <1>1, <1>2
<1>4. ASSUME NEW k \in 1..m
      PROVE  /\ more[k] \in ChunkRecords /\ more[k].bytes = b.chunks[k].bytes
             /\ more[k].size = b.chunks[k].size
             /\ more[k].absolute = b.chunks[k].absolute
             /\ more[k].refs = IF p <= k THEN b.chunks[k].refs + 1 ELSE b.chunks[k].refs
  <2>1. b.chunks[k] \in ChunkRecords
    BY <1>1
  <2>2. k >= p <=> p <= k
    BY <1>3
  <2>3. more[k] = IF p <= k THEN Referenced(b.chunks[k]) ELSE b.chunks[k]
    BY <2>2
  <2> HIDE DEF more, p
  <2>4. \A x \in ChunkRecords : /\ Referenced(x) \in ChunkRecords
                                /\ Referenced(x).bytes = x.bytes
                                /\ Referenced(x).size = x.size
                                /\ Referenced(x).absolute = x.absolute
                                /\ Referenced(x).refs = x.refs + 1
    <3>1. \A x \in ChunkRecords : x.refs + 1 \in Nat
      BY ChunkFields
    <3> QED BY <3>1, RefsField DEF Referenced
  <2> QED BY <2>1, <2>3, <2>4
<1>5. r = [b EXCEPT !.cursors = 2, !.previous = at, !.offset = o,
                    !.placemark = mark, !.chunks = more]
  <2>1. r = [b EXCEPT !.cursors = 2, !.previous = [@ EXCEPT !["copy"] = p],
                      !.offset = [@ EXCEPT !["copy"] = b.offset["output"]],
                      !.placemark = IF p = 0 THEN @ + 1 ELSE @,
                      !.chunks = more]
    BY DEF ReferenceFrom
  <2> QED BY <2>1
<1> HIDE DEF more, r
<1>6. more \in Seq(ChunkRecords) /\ Len(more) = m
  <2>1. more \in [1..m -> ChunkRecords]
    BY <1>4 DEF more
  <2> QED BY <1>1, <2>1
<1> HIDE DEF at, o, mark
<1>7. /\ r \in BufferRecords /\ r.chunks = more /\ r.placemark = mark
      /\ r.cursors = 2 /\ r.fault = b.fault
      /\ r.previous = at /\ r.offset = o
  BY <1>1, <1>3, <1>5, <1>6 DEF BufferRecords
<1>8. Counted(b, {"output"}, b.previous)
  BY DEF Good
<1>9. ASSUME NEW k \in Nat
      PROVE  /\ Refs({"output"}, b.previous, k) = IF p <= k THEN 1 ELSE 0
             /\ Refs(Cursors, at, k) = IF p <= k THEN 2 ELSE 0
  BY <1>2, <1>3 DEF Refs, AtOrBefore
<1>10. Counted(r, Cursors, at)
  <2>1. r.placemark = 1 + Refs(Cursors, at, 0)
    <3>1. b.placemark = 1 + IF p <= 0 THEN 1 ELSE 0
      BY <1>8, <1>9 DEF Counted
    <3> QED BY <1>3, <1>7, <1>9, <3>1 DEF mark
  <2>2. ASSUME NEW k \in 1..m
        PROVE  more[k].refs = Refs(Cursors, at, k) /\ more[k].refs > 0
    <3>1. b.chunks[k].refs = (IF p <= k THEN 1 ELSE 0) /\ b.chunks[k].refs > 0
      BY <1>8, <1>9 DEF Counted
    <3>2. p <= k /\ b.chunks[k].refs = 1
      BY <1>3, <3>1
    <3> QED BY <1>4, <1>9, <3>2
  <2> QED BY <1>6, <1>7, <1>8, <2>1, <2>2 DEF Counted
<1>11. ASSUME NEW c \in Cursors PROVE Placed(r, c)
  <2>1. r.previous[c] = p /\ r.offset[c] = b.offset["output"]
    BY <1>2, <1>3, <1>7
  <2>2. /\ (p = 0 \/ p < m) /\ p \in Nat
        /\ IF p < m THEN b.offset["output"] <= Len(b.chunks[p + 1].bytes)
           ELSE b.offset["output"] = 0
    BY <1>1, <1>2, <1>3, GoodTyped
  <2>3. CASE p < m
    <3>1. p + 1 \in 1..m
      BY <1>1, <2>2, <2>3
    <3>2. more[p + 1].bytes = b.chunks[p + 1].bytes
      BY <1>4, <3>1
    <3> QED BY <1>6, <1>7, <2>1, <2>2, <2>3, <3>2 DEF Placed, HasChunk, Chunk, Used
  <2>4. CASE ~(p < m)
    BY <1>6, <1>7, <2>1, <2>2, <2>4 DEF Placed, HasChunk
  <2> QED BY <2>3, <2>4
<1>12. Good(r, Cursors)
  BY <1>2, <1>7, <1>10, <1>11 DEF Good
<1>13. Trimmed(b, r)
  <2>1. \A k \in 1..m : k + 0 = k
    OBVIOUS
  <2>2. Shifted(b, r, 0)
    BY <1>1, <1>4, <1>6, <1>7, <2>1 DEF Shifted
  <2>3. r.previous["output"] + 0 = p
    BY <1>3, <1>7
  <2>4. r.offset["output"] = b.offset["output"]
    BY <1>3, <1>7
  <2>5. 0 \in Nat
    OBVIOUS
  <2> HIDE DEF p
  <2> QED BY <2>2, <2>3, <2>4, <2>5 DEF Trimmed, p
<1> QED BY <1>3, <1>7, <1>12, <1>13 DEF r

\* Where the cursors are while the chunks after the copy lose a reference: the
\* copy's are those from k on.
Dropping(s) == [c \in Cursors |-> IF c = "copy" THEN s.k ELSE s.b.previous["output"]]
Drops(from) ==
         {s \in [b : BufferRecords, k : Nat] :
            /\ Trimmed(from, s.b) /\ s.k <= Len(s.b.chunks) + 1 /\ s.b.cursors = 1
            /\ Counted(s.b, Cursors, Dropping(s)) /\ Placed(s.b, "output")}

LEMMA DropTurn ==
  ASSUME NEW from \in BufferRecords, NEW s \in Drops(from)
  PROVE  LET t == UnreferenceTurn(s)
         IN  /\ t \in Drops(from)
             /\ s.k <= Len(s.b.chunks) =>
                  Len(t.b.chunks) - t.k = Len(s.b.chunks) - s.k - 1
             /\ s.k > Len(s.b.chunks) => t = s
<1> DEFINE b == s.b
           k == s.k
           m == Len(b.chunks)
           at == Dropping(s)
           u == Unreference(b, k)
           t == UnreferenceTurn(s)
<1>1. /\ s \in [b : BufferRecords, k : Nat] /\ b \in BufferRecords /\ k \in Nat
      /\ k <= m + 1 /\ b.cursors = 1 /\ b.chunks \in Seq(ChunkRecords) /\ m \in Nat
      /\ b.previous \in [Cursors -> Nat] /\ b.offset \in [Cursors -> Nat]
      /\ Counted(b, Cursors, at) /\ Placed(b, "output") /\ Trimmed(from, b)
  BY DEF Drops, BufferRecords
<1>2. "output" \in Cursors /\ "copy" \in Cursors /\ Cursors = {"output", "copy"}
  BY DEF Cursors
<1>3. /\ at \in [Cursors -> Nat] /\ at["copy"] = k
      /\ at["output"] = b.previous["output"]
  BY <1>1, <1>2 DEF Dropping
<1>4. CASE k > m
  BY <1>1, <1>4 DEF UnreferenceTurn
<1>5. CASE k <= m
  <2>1. t = [b |-> u, k |-> After(b, k)]
    BY <1>1, <1>5 DEF UnreferenceTurn
  <2>2. /\ u \in BufferRecords /\ u.cursors = b.cursors /\ u.offset = b.offset
        /\ Leaves(b, u, Cursors, at, "copy")
    <3>1. at["copy"] <= Len(b.chunks)
      BY <1>3, <1>5
    <3> HIDE DEF at
    <3>2. LET v == Unreference(b, at["copy"])
          IN  /\ v \in BufferRecords /\ v.cursors = b.cursors /\ v.offset = b.offset
              /\ Leaves(b, v, Cursors, at, "copy")
      BY <1>1, <1>2, <1>3, <3>1, UnreferenceCounts
    <3> QED BY <1>3, <3>2
  <2> HIDE DEF u, t
  <2>3. t.b = u /\ t.k = After(b, k)
    BY <2>1
  <2>4. ASSUME Trimmed(b, u) PROVE Trimmed(from, u)
    <3>1. \A e \in BufferRecords : Len(e.chunks) \in Nat /\ e.previous["output"] \in Nat
      BY <1>2 DEF BufferRecords
    <3> QED BY <1>1, <2>2, <2>4, <3>1, TrimmedTwice
  <2>5. CASE Kept(b, u, at["copy"]) /\ Counted(u, Cursors, [at EXCEPT !["copy"] = @ + 1])
    <3>1. /\ After(b, k) = k + 1 /\ Len(u.chunks) = m /\ u.previous = b.previous
          /\ \A j \in 1..m : /\ u.chunks[j].bytes = b.chunks[j].bytes
                             /\ u.chunks[j].size = b.chunks[j].size
                             /\ u.chunks[j].absolute = b.chunks[j].absolute
      BY <1>3, <2>5 DEF Kept
    <3>2. [at EXCEPT !["copy"] = @ + 1] = Dropping(t)
      BY <1>3, <2>3, <3>1 DEF Dropping
    <3>3. Placed(u, "output")
      <4>1. b.previous["output"] \in Nat
        BY <1>1, <1>2
      <4>2. b.previous["output"] < m => b.previous["output"] + 1 \in 1..m
        BY <1>1, <4>1
      <4> QED BY <1>1, <2>2, <3>1, <4>2 DEF Placed, HasChunk, Chunk, Used
    <3>4. Trimmed(from, u)
      <4>1. m - 0 = m /\ \A j \in 1..m : j + 0 = j
        BY <1>1
      <4>2. Shifted(b, u, 0)
        BY <1>1, <3>1, <4>1 DEF Shifted
      <4>3. u.previous["output"] + 0 = b.previous["output"]
        BY <1>1, <1>2, <3>1
      <4>4. 0 \in Nat
        OBVIOUS
      <4> QED BY <2>2, <2>4, <4>2, <4>3, <4>4 DEF Trimmed
    <3>5. t \in Drops(from)
      BY <1>1, <1>5, <2>1, <2>2, <2>3, <2>5, <3>1, <3>2, <3>3, <3>4 DEF Drops
    <3> QED BY <1>1, <1>5, <2>3, <3>1, <3>5 DEF t
  <2>6. CASE /\ Deleted(b, u, at["copy"])
             /\ \A d \in (Cursors \cap Cursors) \ {"copy"} : at[d] > 1
             /\ Counted(u, Cursors, [d \in Cursors |-> IF d = "copy" THEN 1
                                                       ELSE Lowered(at[d])])
    <3>1. /\ k = 1 /\ After(b, k) = 1 /\ m >= 1 /\ u.chunks = Tail(b.chunks)
          /\ u.previous = [c \in Cursors |-> Lowered(b.previous[c])]
      BY <1>3, <2>6 DEF Deleted
    <3>2. /\ b.previous["output"] > 1 /\ b.previous["output"] \in Nat
          /\ u.previous["output"] = b.previous["output"] - 1
      BY <1>1, <1>2, <1>3, <2>6, <3>1 DEF Lowered
    <3>3. [d \in Cursors |-> IF d = "copy" THEN 1 ELSE Lowered(at[d])] = Dropping(t)
      BY <1>2, <1>3, <2>3, <3>1 DEF Dropping
    <3>4. /\ Len(Tail(b.chunks)) = m - 1
          /\ \A j \in 1..(m - 1) : Tail(b.chunks)[j] = b.chunks[j + 1]
      BY <1>1, <3>1
    <3>5. Placed(u, "output")
      <4> DEFINE p == b.previous["output"]
      <4>1. p < m /\ b.offset["output"] <= Len(b.chunks[p + 1].bytes)
        BY <1>1, <3>2 DEF Placed, HasChunk, Chunk, Used
      <4>2. p - 1 < m - 1 /\ p - 1 + 1 \in 1..(m - 1) /\ p - 1 + 1 = p
        BY <1>1, <3>2, <4>1
      <4>3. u.chunks[p - 1 + 1] = b.chunks[p + 1]
        BY <3>1, <3>4, <4>2
      <4> QED BY <2>2, <3>1, <3>2, <3>4, <4>1, <4>2, <4>3 DEF Placed, HasChunk, Chunk, Used
    <3>6. Trimmed(from, u)
      <4>1. Shifted(b, u, 1)
        BY <1>1, <3>1, <3>4 DEF Shifted
      <4>2. u.previous["output"] + 1 = b.previous["output"]
        BY <3>2
      <4>3. Len(u.chunks) > 0
        <5>1. b.previous["output"] < m
          BY <1>1, <3>2 DEF Placed
        <5> QED BY <1>1, <3>1, <3>2, <3>4, <5>1
      <4>4. 1 \in Nat
        OBVIOUS
      <4> QED BY <2>2, <2>4, <4>1, <4>2, <4>3, <4>4 DEF Trimmed
    <3>7. t \in Drops(from)
      BY <1>1, <2>1, <2>2, <2>3, <2>6, <3>1, <3>3, <3>4, <3>5, <3>6 DEF Drops
    <3> QED BY <1>1, <1>5, <2>3, <3>1, <3>4, <3>7 DEF t
  <2> QED BY <2>2, <2>5, <2>6 DEF Leaves
<1> QED BY <1>1, <1>4, <1>5

\* There are enough turns: each takes a chunk or steps over it.
LEMMA DropGood ==
  ASSUME NEW b, Good(b, Cursors)
  PROVE  LET r == [UnreferenceFrom(b) EXCEPT !.previous["copy"] = 0, !.offset["copy"] = 0]
         IN  Good(r, {"output"}) /\ Trimmed(b, r)
<1> DEFINE d == [b |-> [b EXCEPT !.cursors = 1], k |-> b.previous["copy"]]
           n == Len(b.chunks) + 1
           f == UnreferenceLoop(d, n)
           u == f.b
           r == [u EXCEPT !.previous["copy"] = 0, !.offset["copy"] = 0]
<1>1. /\ b \in BufferRecords /\ b.chunks \in Seq(ChunkRecords) /\ Len(b.chunks) \in Nat
      /\ b.previous \in [Cursors -> Nat] /\ b.previous["copy"] \in Nat
      /\ b.previous["copy"] <= Len(b.chunks)
      /\ Counted(b, Cursors, b.previous) /\ Placed(b, "output")
  BY GoodTyped DEF Good, Cursors
<1>2. d \in Drops(b) /\ n \in Nat /\ Len(d.b.chunks) - d.k < n
  <2> DEFINE e == [b EXCEPT !.cursors = 1]
  <2>1. /\ e \in BufferRecords /\ e.chunks = b.chunks /\ e.previous = b.previous
        /\ e.offset = b.offset /\ e.placemark = b.placemark /\ e.fault = b.fault
        /\ e.cursors = 1
    BY <1>1 DEF BufferRecords
  <2>2. d = [b |-> e, k |-> b.previous["copy"]]
    OBVIOUS
  <2> HIDE DEF e, d
  <2>3. d.b = e /\ d.k = b.previous["copy"]
    BY <2>2
  <2>4. Dropping(d) = b.previous
    BY <1>1, <2>1, <2>3 DEF Dropping, Cursors
  <2>5. Counted(e, Cursors, b.previous) /\ Placed(e, "output")
    BY <1>1, <2>1 DEF Counted, Placed, HasChunk, Chunk
  <2>6. Trimmed(b, e)
    <3>1. \A j \in 1..Len(b.chunks) : j + 0 = j
      OBVIOUS
    <3>5. Len(b.chunks) = Len(b.chunks) - 0
      BY <1>1
    <3>2. Shifted(b, e, 0)
      BY <2>1, <3>1, <3>5 DEF Shifted
    <3>3. "output" \in Cursors /\ 0 \in Nat
      BY DEF Cursors
    <3>4. e.previous["output"] + 0 = b.previous["output"]
      BY <1>1, <2>1, <3>3
    <3> QED BY <2>1, <3>2, <3>3, <3>4 DEF Trimmed
  <2>7. Len(b.chunks) - b.previous["copy"] < n /\ n \in Nat
    BY <1>1
  <2>8. /\ d \in [b : BufferRecords, k : Nat] /\ d.k <= Len(d.b.chunks) + 1
        /\ d.b.cursors = 1
    BY <1>1, <2>1, <2>2, <2>3
  <2>9. /\ Trimmed(b, d.b) /\ Placed(d.b, "output")
        /\ Counted(d.b, Cursors, Dropping(d))
    BY <2>3, <2>4, <2>5, <2>6
  <2> HIDE DEF n
  <2> QED BY <2>1, <2>3, <2>7, <2>8, <2>9 DEF Drops
<1>3. UnreferenceFrom(b) = u
  BY DEF UnreferenceFrom, UnreferenceLoop, UnreferenceTurn
<1> HIDE DEF d, n, f
<1>4. PICK h \in [0..n -> Drops(b)] : UnreferenceRuns(h, d, n)
  BY <1>1, <1>2, DropTurn, UnreferenceTurns
<1>5. f \in Drops(b) /\ f.k > Len(u.chunks)
  <2> DEFINE S == {k \in 0..n : \/ h[k].k > Len(h[k].b.chunks)
                                \/ Len(h[k].b.chunks) - h[k].k < n - k}
  <2>1. 0 \in S
    BY <1>2, <1>4 DEF UnreferenceRuns
  <2>2. ASSUME NEW k \in 0..(n - 1), k \in S PROVE k + 1 \in S
    <3> DEFINE s == h[k]
               t == h[k + 1]
    <3>1. k \in 0..n /\ k + 1 \in 0..n /\ s \in Drops(b) /\ t \in Drops(b) /\ t = UnreferenceTurn(s)
      BY <1>2, <1>4 DEF UnreferenceRuns
    <3>2. s.k > Len(s.b.chunks) \/ Len(s.b.chunks) - s.k < n - k
      BY <2>2
    <3>3. \A e \in Drops(b) : e.k \in Nat /\ Len(e.b.chunks) \in Nat
      BY DEF Drops, BufferRecords
    <3>4. /\ s.k <= Len(s.b.chunks) =>
               Len(t.b.chunks) - t.k = Len(s.b.chunks) - s.k - 1
          /\ s.k > Len(s.b.chunks) => t = s
      BY <1>1, <3>1, DropTurn
    <3> HIDE DEF s, t
    <3>5. s.k \in Nat /\ Len(s.b.chunks) \in Nat /\ t.k \in Nat /\ Len(t.b.chunks) \in Nat
      BY <3>1, <3>3
    <3>6. t.k > Len(t.b.chunks) \/ Len(t.b.chunks) - t.k < n - (k + 1)
      <4>1. CASE s.k > Len(s.b.chunks)
        BY <3>4, <4>1
      <4>2. CASE ~(s.k > Len(s.b.chunks))
        BY <1>2, <3>2, <3>4, <3>5, <4>2
      <4> QED BY <4>1, <4>2
    <3> QED BY <3>1, <3>6 DEF t
  <2>3. n \in S
    <3> HIDE DEF S
    <3>1. \A k \in 0..n : k \in S
      BY <1>2, <2>1, <2>2, UpTo
    <3> QED BY <1>2, <3>1
  <2>4. f = h[n] /\ f \in Drops(b)
    BY <1>2, <1>4 DEF UnreferenceRuns, f
  <2>5. f.k \in Nat /\ Len(f.b.chunks) \in Nat
    BY <2>4 DEF Drops, BufferRecords
  <2> QED BY <1>2, <2>3, <2>4, <2>5
<1>6. /\ u \in BufferRecords /\ u.chunks \in Seq(ChunkRecords) /\ Len(u.chunks) \in Nat
      /\ u.previous \in [Cursors -> Nat] /\ u.offset \in [Cursors -> Nat]
      /\ u.cursors = 1 /\ f.k \in Nat /\ f.k > Len(u.chunks)
      /\ Counted(u, Cursors, Dropping(f)) /\ Placed(u, "output") /\ Trimmed(b, u)
  BY <1>5 DEF Drops, BufferRecords
<1> HIDE DEF u
<1>7. Cursors = {"output", "copy"} /\ "output" # "copy"
  BY DEF Cursors
<1> DEFINE at == [u.previous EXCEPT !["copy"] = 0]
           o == [u.offset EXCEPT !["copy"] = 0]
<1>8. /\ at \in [Cursors -> Nat] /\ at["copy"] = 0 /\ at["output"] = u.previous["output"]
      /\ o \in [Cursors -> Nat] /\ o["copy"] = 0 /\ o["output"] = u.offset["output"]
      /\ u.previous["output"] \in Nat
  BY <1>6, <1>7
<1>9. r = [u EXCEPT !.previous = at, !.offset = o]
  OBVIOUS
<1> HIDE DEF at, o, r
<1>10. /\ r \in BufferRecords /\ r.chunks = u.chunks /\ r.placemark = u.placemark
       /\ r.cursors = 1 /\ r.fault = u.fault /\ r.previous = at /\ r.offset = o
  BY <1>6, <1>8, <1>9 DEF BufferRecords
<1>11. ASSUME NEW k \in Nat, k <= Len(u.chunks)
       PROVE  Refs(Cursors, Dropping(f), k) = Refs({"output"}, at, k)
  <2>1. Dropping(f)["copy"] = f.k /\ Dropping(f)["output"] = u.previous["output"]
    BY <1>7 DEF Dropping, u
  <2>2. ~(f.k <= k)
    BY <1>6, <1>11
  <2> QED BY <1>7, <1>8, <2>1, <2>2 DEF Refs, AtOrBefore
<1>12. Counted(r, {"output"}, at)
  <2>1. r.placemark = 1 + Refs({"output"}, at, 0)
    BY <1>6, <1>10, <1>11 DEF Counted
  <2>2. ASSUME NEW k \in 1..Len(u.chunks)
        PROVE  r.chunks[k].refs = Refs({"output"}, at, k) /\ r.chunks[k].refs > 0
    <3>1. k \in Nat /\ k <= Len(u.chunks)
      BY <1>6
    <3> QED BY <1>6, <1>10, <1>11, <3>1 DEF Counted
  <2> QED BY <1>6, <1>10, <2>1, <2>2 DEF Counted
<1>13. ASSUME NEW c \in Cursors PROVE Placed(r, c)
  <2>1. CASE c = "output"
    BY <1>6, <1>8, <1>10, <2>1 DEF Placed, HasChunk, Chunk, Used
  <2>2. CASE c = "copy"
    <3>1. r.previous[c] = 0 /\ r.offset[c] = 0
      BY <1>8, <1>10, <2>2
    <3>2. CASE 0 < Len(u.chunks)
      <4>1. u.chunks[0 + 1] \in ChunkRecords
        BY <1>6, <3>2
      <4>2. \A x \in ChunkRecords : 0 <= Len(x.bytes)
        BY DEF ChunkRecords
      <4> QED BY <1>10, <3>1, <3>2, <4>1, <4>2 DEF Placed, HasChunk, Chunk, Used
    <3>3. CASE ~(0 < Len(u.chunks))
      BY <1>10, <3>1, <3>3 DEF Placed, HasChunk
    <3> QED BY <3>2, <3>3
  <2> QED BY <1>7, <2>1, <2>2
<1>14. Good(r, {"output"})
  <2>1. \A c \in Cursors \ {"output"} : r.previous[c] = 0 /\ r.offset[c] = 0
    BY <1>7, <1>8, <1>10
  <2> QED BY <1>7, <1>10, <1>12, <1>13, <2>1 DEF Good
<1>15. Trimmed(b, r)
  <2>1. r.previous["output"] = u.previous["output"] /\ r.offset["output"] = u.offset["output"]
    BY <1>8, <1>10
  <2>2. PICK s \in Nat : /\ Shifted(b, u, s)
                         /\ s = 0 \/ Len(u.chunks) > 0
                         /\ u.previous["output"] + s = b.previous["output"]
                         /\ u.offset["output"] = b.offset["output"]
    BY <1>6 DEF Trimmed
  <2>3. Shifted(b, r, s)
    BY <1>10, <2>2 DEF Shifted
  <2> HIDE DEF r
  <2> QED BY <1>10, <2>1, <2>2, <2>3 DEF Trimmed
<1> QED BY <1>3, <1>14, <1>15 DEF r

-----------------------------------------------------------------------------
(* The actions.                                                            *)

BufferInv == Good(buffer, live) /\ put \in Nat

LEMMA BufferInitInv ==
  BufferInit => BufferInv
<1> SUFFICES ASSUME BufferInit PROVE BufferInv
  OBVIOUS
<1> DEFINE zero == [c \in Cursors |-> 0]
<1>1. /\ buffer = [chunks |-> <<>>, placemark |-> 2, cursors |-> 1, fault |-> FALSE,
                   previous |-> zero, offset |-> zero]
      /\ live = {"output"} /\ put = 0
  BY DEF BufferInit
<1>2. zero \in [Cursors -> Nat] /\ \A c \in Cursors : zero[c] = 0
  OBVIOUS
<1> HIDE DEF zero
<1>3. /\ buffer.chunks = <<>> /\ buffer.placemark = 2 /\ buffer.cursors = 1
      /\ buffer.fault = FALSE /\ buffer.previous = zero /\ buffer.offset = zero
  BY <1>1
<1>4. buffer \in BufferRecords
  <2>1. <<>> \in Seq(ChunkRecords)
    OBVIOUS
  <2> QED BY <1>1, <1>2, <2>1 DEF BufferRecords
<1>5. Cursors = {"output", "copy"} /\ "output" # "copy" /\ Len(buffer.chunks) = 0
  BY <1>3 DEF Cursors
<1>6. Counted(buffer, {"output"}, zero)
  BY <1>2, <1>3, <1>5 DEF Counted, Refs, AtOrBefore
<1>7. \A c \in Cursors : Placed(buffer, c)
  BY <1>2, <1>3, <1>5 DEF Placed, HasChunk
<1> QED BY <1>1, <1>2, <1>3, <1>4, <1>5, <1>6, <1>7 DEF BufferInv, Good

LEMMA PutInGood ==
  ASSUME BufferInv, NEW b, Good(b, live), b.chunks # <<>>, NEW n \in Nat, PutIn(b, n)
  PROVE  BufferInv'
<1>1. /\ buffer' = Filled(b, put + 1, n) /\ put' = put + n /\ live' = live
      /\ put \in Nat /\ put + 1 \in Nat
  BY DEF PutIn, BufferInv
<1>2. Good(Filled(b, put + 1, n), live)
  BY <1>1, FilledGood
<1> QED BY <1>1, <1>2 DEF BufferInv

LEMMA BufferIncrement ==
  ASSUME BufferInv, NEW c \in Cursors, NEW n \in Nat, Increment(c, n)
  PROVE  BufferInv'
<1>1. /\ buffer' = IncrementIn(buffer, c, n) /\ live' = live /\ put' = put /\ c \in live
  BY DEF Increment
<1>2. Good(IncrementIn(buffer, c, n), live)
  BY <1>1, IncrementGood DEF BufferInv
<1> QED BY <1>1, <1>2 DEF BufferInv

LEMMA BufferNextInv ==
  BufferInv /\ [BufferNext]_bufferVars => BufferInv'
<1> SUFFICES ASSUME BufferInv, [BufferNext]_bufferVars PROVE BufferInv'
  OBVIOUS
<1>1. Good(buffer, live) /\ put \in Nat
  BY DEF BufferInv
<1>2. ASSUME NEW reserved \in 1..MaxRequest, NEW n \in 0..MaxRequest, Input(reserved, n)
      PROVE  BufferInv'
  <2>1. PutIn(ReserveIn(buffer, reserved), n) /\ reserved \in Nat /\ n \in Nat
    BY <1>2, BufferAssumption DEF Input
  <2>2. Good(ReserveIn(buffer, reserved), live) /\ ReserveIn(buffer, reserved).chunks # <<>>
    BY <1>1, <2>1, ReserveGood
  <2> QED BY <2>1, <2>2, PutInGood
<1>3. ASSUME NEW n \in 1..MaxBytes, SocketRead(n) PROVE BufferInv'
  BY <1>1, <1>3, BufferAssumption, PutInGood DEF SocketRead
<1>4. ASSUME NEW size \in 1..MaxRequest, NEW n \in 0..MaxBytes, DeviceRead(size, n)
      PROVE  BufferInv'
  <2>1. PutIn(ReserveIn(buffer, size), n) /\ size \in Nat /\ n \in Nat
    BY <1>4, BufferAssumption DEF DeviceRead
  <2>2. Good(ReserveIn(buffer, size), live) /\ ReserveIn(buffer, size).chunks # <<>>
    BY <1>1, <2>1, ReserveGood
  <2> QED BY <2>1, <2>2, PutInGood
<1>5. ASSUME NEW c \in Cursors, NEW n \in 1..MaxBytes, Increment(c, n) PROVE BufferInv'
  <2>1. n \in Nat
    BY BufferAssumption
  <2> QED BY <1>5, <2>1, BufferIncrement
<1>6. ASSUME NEW c \in Cursors, NEW n \in 1..MaxBytes, Consume(c, n) PROVE BufferInv'
  <2>1. /\ buffer' = ConsumeIn(buffer, c, n).b /\ live' = live /\ put' = put
        /\ c \in live /\ n \in Nat
    BY <1>6, BufferAssumption DEF Consume
  <2>2. Good(ConsumeIn(buffer, c, n).b, live)
    BY <1>1, <2>1, ConsumeGood
  <2> QED BY <1>1, <2>1, <2>2 DEF BufferInv
<1>7. ASSUME WriteOut PROVE BufferInv'
  <2> DEFINE n == Len(GetIovec(buffer, "output"))
  <2>1. "output" \in Cursors
    BY DEF Cursors
  <2>2. GetIovec(buffer, "output") \in Seq(Nat)
    BY <1>1, <2>1, BufferAssumption, IovecTyped
  <2>3. n \in Nat /\ Increment("output", n)
    BY <1>7, <2>2 DEF WriteOut
  <2> HIDE DEF n
  <2> QED BY <2>1, <2>3, BufferIncrement
<1>8. ASSUME CopyCursor PROVE BufferInv'
  <2>1. /\ buffer' = ReferenceFrom(buffer) /\ live' = Cursors /\ put' = put
        /\ "copy" \notin live
    BY <1>8 DEF CopyCursor
  <2>2. live = {"output"}
    BY <1>1, <2>1 DEF Good, Cursors
  <2>3. Good(ReferenceFrom(buffer), Cursors)
    BY <1>1, <2>2, ReferenceGood
  <2> QED BY <1>1, <2>1, <2>3 DEF BufferInv
<1>9. ASSUME DropCopy PROVE BufferInv'
  <2> DEFINE r == [UnreferenceFrom(buffer) EXCEPT !.previous["copy"] = 0,
                                                  !.offset["copy"] = 0]
  <2>1. buffer' = r /\ live' = {"output"} /\ put' = put /\ "copy" \in live
    BY <1>9 DEF DropCopy
  <2>2. live = Cursors
    BY <1>1, <2>1 DEF Good, Cursors
  <2>3. Good(r, {"output"})
    BY <1>1, <2>2, DropGood
  <2> HIDE DEF r
  <2> QED BY <1>1, <2>1, <2>3 DEF BufferInv
<1>10. ASSUME UNCHANGED bufferVars PROVE BufferInv'
  BY <1>10 DEF BufferInv, bufferVars
<1> QED BY <1>2, <1>3, <1>4, <1>5, <1>6, <1>7, <1>8, <1>9, <1>10 DEF BufferNext

LEMMA GoodCounts ==
  BufferInv => ChunksCounted
<1> SUFFICES ASSUME BufferInv PROVE ChunksCounted
  OBVIOUS
<1>1. Good(buffer, live) /\ "output" \in live
  BY GoodTyped DEF BufferInv
<1>2. /\ buffer.fault = FALSE
      /\ \A k \in 1..Len(buffer.chunks) :
           /\ buffer.chunks[k].refs = Refs(live, buffer.previous, k)
           /\ buffer.chunks[k].refs > 0
  BY <1>1 DEF Good, Counted
<1>3. ASSUME NEW k \in 1..Len(buffer.chunks)
      PROVE  Refs(live, buffer.previous, k) =
               (IF buffer.previous["output"] <= k THEN 1 ELSE 0)
                 + IF "copy" \in live /\ buffer.previous["copy"] <= k THEN 1 ELSE 0
  BY <1>1 DEF Refs, AtOrBefore
<1> QED BY <1>2, <1>3 DEF ChunksCounted

\* A chunk is referenced by exactly the cursors that are at it or before it,
\* and only the first is ever deleted, whatever was read, written, copied and
\* dropped in between.
THEOREM CursorsCount == BufferSpec => []ChunksCounted
<1>1. BufferInit => BufferInv
  BY BufferInitInv
<1>2. BufferInv /\ [BufferNext]_bufferVars => BufferInv'
  BY BufferNextInv
<1>3. BufferInv => ChunksCounted
  BY GoodCounts
<1> QED BY <1>1, <1>2, <1>3, PTL DEF BufferSpec

-----------------------------------------------------------------------------
(* What the chunks hold.                                                   *)

End(b, k) == b.chunks[k].absolute + Len(b.chunks[k].bytes)

\* The bytes 1, 2, ..., total, but for those that are gone.
Holding(b, total) ==
  /\ total \in Nat
  /\ \A k \in 1..Len(b.chunks) : \A i \in 1..Len(b.chunks[k].bytes) :
       b.chunks[k].bytes[i] = b.chunks[k].absolute + i
  /\ \A k \in 1..(Len(b.chunks) - 1) : b.chunks[k + 1].absolute = End(b, k)
  /\ IF Len(b.chunks) = 0 THEN total = 0 ELSE End(b, Len(b.chunks)) = total

Gapless(b) == \A k \in 2..(Len(b.chunks) - 1) : Len(b.chunks[k].bytes) > 0

\* How many bytes are before a cursor.
At(b, c) == IF HasChunk(b, c) THEN Chunk(b, c).absolute + b.offset[c] ELSE 0

LEMMA EndsTyped ==
  ASSUME NEW b, NEW on, Good(b, on), NEW total, Holding(b, total)
  PROVE  /\ Len(b.chunks) \in Nat /\ total \in Nat
         /\ \A k \in 1..Len(b.chunks) :
              /\ b.chunks[k].absolute \in Nat /\ Len(b.chunks[k].bytes) \in Nat
              /\ b.chunks[k].bytes \in Seq(Nat) /\ End(b, k) \in Nat
              /\ End(b, k) = b.chunks[k].absolute + Len(b.chunks[k].bytes)
         /\ \A k \in 1..(Len(b.chunks) - 1) : b.chunks[k + 1].absolute = End(b, k)
         /\ Len(b.chunks) = 0 => total = 0
         /\ Len(b.chunks) > 0 => End(b, Len(b.chunks)) = total
<1>1. Len(b.chunks) \in Nat /\ \A k \in 1..Len(b.chunks) : b.chunks[k] \in ChunkRecords
  BY GoodTyped
<1>2. ASSUME NEW k \in 1..Len(b.chunks)
      PROVE  /\ b.chunks[k].absolute \in Nat /\ Len(b.chunks[k].bytes) \in Nat
             /\ b.chunks[k].bytes \in Seq(Nat) /\ End(b, k) \in Nat
  BY <1>1, ChunkFields DEF End
<1>3. ASSUME NEW k \in 1..Len(b.chunks)
      PROVE  End(b, k) = b.chunks[k].absolute + Len(b.chunks[k].bytes)
  BY DEF End
<1> QED BY <1>1, <1>2, <1>3 DEF Holding

LEMMA EndsGrow ==
  ASSUME NEW b, NEW on, Good(b, on), NEW total, Holding(b, total)
  PROVE  /\ \A j, k \in 1..Len(b.chunks) : j <= k => End(b, j) <= End(b, k)
         /\ \A k \in 1..Len(b.chunks) : End(b, k) <= total
<1> DEFINE n == Len(b.chunks)
<1>1. /\ n \in Nat /\ \A k \in 1..n : End(b, k) \in Nat
      /\ n > 0 => End(b, n) = total
  BY EndsTyped
<1>2. ASSUME NEW k \in 1..(n - 1) PROVE End(b, k) <= End(b, k + 1)
  <2>1. k \in 1..n /\ k + 1 \in 1..n
    BY <1>1
  <2>2. /\ End(b, k + 1) = b.chunks[k + 1].absolute + Len(b.chunks[k + 1].bytes)
        /\ b.chunks[k + 1].absolute = End(b, k) /\ Len(b.chunks[k + 1].bytes) \in Nat
    BY <2>1, EndsTyped
  <2> QED BY <1>1, <2>1, <2>2
<1> HIDE DEF n
<1>3. ASSUME NEW j \in 1..n, NEW k \in 1..n, j <= k PROVE End(b, j) <= End(b, k)
  <2> DEFINE S == {d \in Nat : j + d <= n => End(b, j) <= End(b, j + d)}
  <2>1. 0 \in S
    BY <1>1
  <2>2. ASSUME NEW d \in Nat, d \in S PROVE d + 1 \in S
    <3>1. ASSUME j + (d + 1) <= n PROVE End(b, j) <= End(b, j + (d + 1))
      <4>1. j + d \in 1..(n - 1) /\ j + d \in 1..n /\ j + d + 1 \in 1..n
            /\ j + (d + 1) = j + d + 1
        BY <1>1, <3>1
      <4>2. End(b, j) <= End(b, j + d)
        BY <2>2, <4>1
      <4>3. End(b, j + d) <= End(b, j + d + 1)
        BY <1>2, <4>1
      <4> QED BY <1>1, <4>1, <4>2, <4>3
    <3> QED BY <3>1
  <2>3. \A d \in Nat : d \in S
    <3> HIDE DEF S
    <3> QED BY <2>1, <2>2, NatSet
  <2>4. k - j \in Nat /\ j + (k - j) = k /\ k <= n
    BY <1>1, <1>3
  <2>5. k - j \in S
    BY <2>3, <2>4
  <2> QED BY <2>4, <2>5
<1>4. ASSUME NEW k \in 1..n PROVE End(b, k) <= total
  <2>1. n \in 1..n /\ k <= n /\ n > 0
    BY <1>1
  <2> QED BY <1>1, <1>3, <2>1
<1> QED BY <1>3, <1>4 DEF n

\* Where a cursor is.
LEMMA PlaceOf ==
  ASSUME NEW b, NEW on, Good(b, on), NEW total, Holding(b, total), NEW c \in Cursors
  PROVE  LET p == b.previous[c]
             n == Len(b.chunks)
             m == CurrentSize(b, c)
             a == At(b, c)
         IN  /\ p \in Nat /\ n \in Nat /\ m \in Nat /\ a \in Nat /\ total \in Nat
             /\ a + m <= total /\ LeftSize(b, c) = total - a
             /\ p < n => /\ p + 1 \in 1..n /\ a + m = End(b, p + 1)
                         /\ a = b.chunks[p + 1].absolute + b.offset[c]
             /\ ~(p < n) => n = 0 /\ a = 0 /\ m = 0 /\ total = 0
             /\ a + m < total => p + 1 < n
<1> DEFINE p == b.previous[c]
           n == Len(b.chunks)
           m == CurrentSize(b, c)
           a == At(b, c)
           x == b.chunks[p + 1]
<1>1. /\ p \in Nat /\ n \in Nat /\ b.offset[c] \in Nat /\ (p = 0 \/ p < n)
      /\ p < n => b.offset[c] <= Len(b.chunks[p + 1].bytes)
  BY GoodTyped
<1>2. /\ total \in Nat
      /\ n = 0 => total = 0
      /\ n > 0 => End(b, n) = total
  BY EndsTyped
<1>3. CASE p < n
  <2>1. p + 1 \in 1..n /\ n \in 1..n /\ n > 0
    BY <1>1, <1>3
  <2>2. /\ x.absolute \in Nat /\ Len(x.bytes) \in Nat /\ End(b, p + 1) \in Nat
        /\ End(b, p + 1) = x.absolute + Len(x.bytes)
    BY <2>1, EndsTyped
  <2>3. m = Len(x.bytes) - b.offset[c]
    BY <1>3 DEF CurrentSize, HasChunk, Chunk, Used
  <2>4. a = x.absolute + b.offset[c]
    BY <1>3 DEF At, HasChunk, Chunk
  <2>5. End(b, p + 1) <= total
    BY <2>1, EndsGrow
  <2>6. LeftSize(b, c) = b.chunks[n].absolute - x.absolute - b.offset[c] + Len(b.chunks[n].bytes)
    BY <1>3 DEF LeftSize, HasChunk, Chunk, Used, Last
  <2>7. /\ b.chunks[n].absolute \in Nat /\ Len(b.chunks[n].bytes) \in Nat
        /\ total = b.chunks[n].absolute + Len(b.chunks[n].bytes)
    BY <1>2, <2>1, EndsTyped
  <2>8. p + 1 = n => End(b, p + 1) = total
    BY <1>2, <2>1
  <2> DEFINE l == Len(x.bytes)
             y == x.absolute
             o == b.offset[c]
             e == End(b, p + 1)
             z == b.chunks[n].absolute
             w == Len(b.chunks[n].bytes)
             left == LeftSize(b, c)
  <2>9. /\ y \in Nat /\ l \in Nat /\ e = y + l /\ e <= total /\ m = l - o /\ a = y + o
        /\ o \in Nat /\ o <= l /\ left = z - y - o + w /\ total = z + w
        /\ z \in Nat /\ w \in Nat /\ p \in Nat /\ n \in Nat /\ p < n
        /\ p + 1 = n => e = total
    BY <1>1, <1>3, <2>2, <2>3, <2>4, <2>5, <2>6, <2>7, <2>8
  <2>10. p \in Nat /\ n \in Nat /\ total \in Nat /\ p < n /\ p + 1 \in 1..n /\ a = x.absolute + b.offset[c]
    BY <1>1, <1>2, <1>3, <2>1, <2>4
  <2> HIDE DEF x, p, n, m, a, l, y, o, e, z, w, left
  <2>11. m \in Nat /\ a \in Nat /\ a + m = e /\ a + m <= total
    BY <2>9
  <2>12. left = total - a
    BY <2>9
  <2>13. a + m < total => p + 1 < n
    BY <2>9, <2>11
  <2> QED BY <2>10, <2>11, <2>12, <2>13 DEF x, p, n, m, a, e, left
<1>4. CASE ~(p < n)
  <2>1. n = 0
    BY <1>1, <1>4
  <2>2. m = 0 /\ a = 0 /\ LeftSize(b, c) = 0
    BY <1>4 DEF CurrentSize, At, LeftSize, HasChunk
  <2>3. total = 0
    BY <1>2, <2>1
  <2> DEFINE left == LeftSize(b, c)
  <2>4. /\ p \in Nat /\ n = 0 /\ m = 0 /\ a = 0 /\ total = 0 /\ left = 0 /\ ~(p < n)
    BY <1>1, <1>4, <2>1, <2>2, <2>3
  <2> HIDE DEF p, n, m, a, left
  <2>5. /\ n \in Nat /\ m \in Nat /\ a \in Nat /\ total \in Nat /\ a + m <= total
        /\ left = total - a /\ ~(a + m < total)
    BY <2>4
  <2> QED BY <2>4, <2>5 DEF p, n, m, a, left
<1> QED BY <1>3, <1>4

\* Before the end and at the end of a chunk, a cursor has the next before it.
LEMMA NextHolds ==
  ASSUME NEW b, NEW on, Good(b, on), NEW total, Holding(b, total), Gapless(b),
         NEW c \in Cursors, At(b, c) + CurrentSize(b, c) < total
  PROVE  LET next == b.chunks[b.previous[c] + 2]
         IN  /\ b.previous[c] + 1 < Len(b.chunks) /\ b.previous[c] + 2 \in 1..Len(b.chunks)
             /\ next.absolute = At(b, c) + CurrentSize(b, c)
             /\ Len(next.bytes) \in Nat /\ Len(next.bytes) > 0
             /\ End(b, b.previous[c] + 2) = next.absolute + Len(next.bytes)
<1> DEFINE p == b.previous[c]
           n == Len(b.chunks)
           m == CurrentSize(b, c)
           a == At(b, c)
           next == b.chunks[p + 2]
<1>1. /\ p \in Nat /\ n \in Nat /\ m \in Nat /\ a \in Nat /\ total \in Nat
      /\ p + 1 < n
  BY PlaceOf
<1>2. a + m = End(b, p + 1)
  <2>1. p < n
    BY <1>1
  <2> QED BY <2>1, PlaceOf
<1> HIDE DEF p, n, m, a
<1>3. p + 2 \in 1..n /\ p + 1 \in 1..(n - 1) /\ p + 1 + 1 = p + 2
  BY <1>1
<1> USE DEF p, n, m, a
<1>4. /\ next.absolute = End(b, p + 1) /\ Len(next.bytes) \in Nat
      /\ End(b, p + 2) = next.absolute + Len(next.bytes)
  BY <1>3, EndsTyped
<1>5. Len(next.bytes) > 0
  <2>1. CASE p + 2 = n
    <3>0. n # 0 => End(b, n) = total
      BY EndsTyped DEF n
    <3>1. End(b, p + 2) = total
      BY <1>1, <2>1, <3>0
    <3> HIDE DEF next, p, n, m, a
    <3> QED BY <1>1, <1>2, <1>4, <3>1 DEF m, a
  <2>2. CASE p + 2 # n
    <3>1. p + 2 \in 2..(n - 1)
      <4> HIDE DEF next, p, n, m, a
      <4> QED BY <1>1, <2>2
    <3> QED BY <3>1 DEF Gapless
  <2> QED BY <2>1, <2>2
<1> QED BY <1>1, <1>2, <1>3, <1>4, <1>5

\* What is gone from the front takes nothing from what is left.
LEMMA ShiftedHolds ==
  ASSUME NEW b, NEW r, NEW s \in Nat, NEW total, Shifted(b, r, s), Holding(b, total),
         Len(b.chunks) \in Nat, Len(r.chunks) \in Nat, s = 0 \/ Len(r.chunks) > 0
  PROVE  /\ Holding(r, total)
         /\ Gapless(b) => Gapless(r)
         /\ \A k \in 1..Len(r.chunks) : k + s \in 1..Len(b.chunks) /\ End(r, k) = End(b, k + s)
<1> DEFINE n == Len(b.chunks)
           m == Len(r.chunks)
<1>1. /\ n \in Nat /\ m \in Nat /\ m = n - s
      /\ \A k \in 1..m : /\ r.chunks[k].bytes = b.chunks[k + s].bytes
                         /\ r.chunks[k].absolute = b.chunks[k + s].absolute
  BY DEF Shifted
<1>2. /\ total \in Nat
      /\ \A k \in 1..n : \A i \in 1..Len(b.chunks[k].bytes) :
           b.chunks[k].bytes[i] = b.chunks[k].absolute + i
      /\ \A k \in 1..(n - 1) : b.chunks[k + 1].absolute = End(b, k)
      /\ n = 0 => total = 0
      /\ n # 0 => End(b, n) = total
  BY DEF Holding
<1>0. n \in Nat /\ m \in Nat /\ m = n - s
  BY <1>1
<1> HIDE DEF n, m
<1>3. ASSUME NEW k \in 1..m PROVE k + s \in 1..n /\ End(r, k) = End(b, k + s)
  <2>1. k + s \in 1..n
    BY <1>0
  <2>2. End(r, k) = End(b, k + s)
    BY <1>1 DEF End
  <2> QED BY <2>1, <2>2
<1>4. ASSUME NEW k \in 1..(m - 1) PROVE r.chunks[k + 1].absolute = End(r, k)
  <2>0. k \in Nat /\ k >= 1 /\ k < m
    BY <1>0
  <2>1. k \in 1..m /\ k + 1 \in 1..m /\ k + s \in 1..(n - 1) /\ k + 1 + s = k + s + 1
    BY <1>0, <2>0
  <2>2. r.chunks[k + 1].absolute = b.chunks[k + s + 1].absolute
    BY <1>1, <2>1
  <2>3. b.chunks[k + s + 1].absolute = End(b, k + s)
    BY <1>2, <2>1
  <2> QED BY <1>3, <2>1, <2>2, <2>3
<1>5. ASSUME NEW k \in 1..m
      PROVE  \A i \in 1..Len(r.chunks[k].bytes) :
               r.chunks[k].bytes[i] = r.chunks[k].absolute + i
  <2>1. /\ r.chunks[k].bytes = b.chunks[k + s].bytes
        /\ r.chunks[k].absolute = b.chunks[k + s].absolute
    BY <1>1
  <2>2. \A i \in 1..Len(b.chunks[k + s].bytes) :
          b.chunks[k + s].bytes[i] = b.chunks[k + s].absolute + i
    BY <1>2, <1>3
  <2> QED BY <2>1, <2>2
<1>6. m # 0 => End(r, m) = total
  <2>1. ASSUME m # 0 PROVE End(r, m) = total
    <3>1. m \in 1..m /\ m + s = n /\ n # 0
      BY <1>0, <2>1
    <3> QED BY <1>2, <1>3, <3>1
  <2> QED BY <2>1
<1>7. m = 0 => total = 0
  <2>1. m = 0 => n = 0
    BY <1>1 DEF m
  <2> QED BY <1>2, <2>1
<1>8. Holding(r, total)
  BY <1>2, <1>4, <1>5, <1>6, <1>7 DEF Holding, m
<1>9. ASSUME Gapless(b) PROVE Gapless(r)
  <2>1. ASSUME NEW k \in 2..(m - 1) PROVE Len(r.chunks[k].bytes) > 0
    <3>1. k \in 1..m /\ k + s \in 2..(n - 1)
      BY <1>0
    <3>2. Len(b.chunks[k + s].bytes) > 0
      BY <1>9, <3>1 DEF Gapless, n
    <3> QED BY <1>1, <3>1, <3>2
  <2> QED BY <2>1 DEF Gapless, m
<1> QED BY <1>3, <1>8, <1>9 DEF n, m

\* A cursor that is at the same chunk as before is at the same byte.
LEMMA ShiftedAt ==
  ASSUME NEW b, NEW r, NEW s \in Nat, Shifted(b, r, s), NEW c,
         Len(b.chunks) \in Nat, Len(r.chunks) \in Nat, r.previous[c] \in Nat,
         r.previous[c] + s = b.previous[c], r.offset[c] = b.offset[c]
  PROVE  At(r, c) = At(b, c)
<1> DEFINE p == b.previous[c]
           q == r.previous[c]
           n == Len(b.chunks)
           m == Len(r.chunks)
<1>1. /\ n \in Nat /\ m \in Nat /\ m = n - s /\ q \in Nat /\ q + s = p
      /\ \A k \in 1..m : r.chunks[k].absolute = b.chunks[k + s].absolute
  BY DEF Shifted
<1> HIDE DEF p, q, n, m
<1>2. q < m <=> p < n
  BY <1>1
<1>3. CASE q < m
  <2>1. q + 1 \in 1..m /\ q + 1 + s = p + 1
    BY <1>1, <1>3
  <2>2. r.chunks[q + 1].absolute = b.chunks[p + 1].absolute
    BY <1>1, <2>1
  <2> QED BY <1>2, <1>3, <2>2 DEF At, HasChunk, Chunk, p, q, n, m
<1>4. CASE ~(q < m)
  BY <1>2, <1>4 DEF At, HasChunk, p, q, n, m
<1> QED BY <1>3, <1>4

\* How many chunks are after a cursor's place.
Room(b, c) == Len(b.chunks) - b.previous[c]

\* The bytes before which some chunk ends.
Ends(b) == {End(b, k) : k \in 1..Len(b.chunks)}

Sound(b, on, total) == Good(b, on) /\ Holding(b, total) /\ Gapless(b)

LEMMA MoveHolds ==
  ASSUME NEW b, NEW on, NEW total, Sound(b, on, total), NEW c \in Cursors, c \in on,
         At(b, c) + CurrentSize(b, c) < total
  PROVE  LET r == MoveToNextChunk(b, c)
         IN  /\ Sound(r, on, total) /\ Ends(r) \subseteq Ends(b)
             /\ At(r, c) = At(b, c) + CurrentSize(b, c)
             /\ CurrentSize(r, c) \in Nat /\ CurrentSize(r, c) > 0
             /\ \A d \in on \ {c} : At(r, d) = At(b, d)
             /\ Room(r, c) = Room(b, c) - 1
<1> DEFINE r == MoveToNextChunk(b, c)
           p == b.previous[c]
           n == Len(b.chunks)
           q == r.previous[c]
           m == Len(r.chunks)
           x == b.chunks[p + 2]
<1>1. Good(b, on) /\ Holding(b, total) /\ Gapless(b)
  BY DEF Sound
<1>2. /\ p + 1 < n /\ p + 2 \in 1..n
      /\ x.absolute = At(b, c) + CurrentSize(b, c)
      /\ Len(x.bytes) \in Nat /\ Len(x.bytes) > 0
  BY <1>1, NextHolds
<1>3. PICK s \in {0, 1} :
        /\ Good(r, on) /\ r.offset = [b.offset EXCEPT ![c] = 0]
        /\ Shifted(b, r, s) /\ q + s = p + 1
        /\ \A d \in on \ {c} : r.previous[d] + s = b.previous[d]
  <2>1. b.previous[c] + 1 < Len(b.chunks)
    BY <1>2
  <2>2. /\ Good(r, on) /\ r.offset = [b.offset EXCEPT ![c] = 0]
        /\ \E s \in {0, 1} :
             /\ Shifted(b, r, s) /\ r.previous[c] + s = b.previous[c] + 1
             /\ \A d \in on \ {c} : r.previous[d] + s = b.previous[d]
    BY <1>1, <2>1, MoveGood
  <2> HIDE DEF r
  <2> QED BY <2>2
<1> HIDE DEF r
<1>4. /\ n \in Nat /\ p \in Nat /\ m \in Nat /\ q \in Nat /\ m = n - s /\ s \in Nat
      /\ b.offset \in [Cursors -> Nat] /\ on \subseteq Cursors
      /\ r.previous \in [Cursors -> Nat]
  <2>1. n \in Nat /\ p \in Nat /\ b.offset \in [Cursors -> Nat] /\ on \subseteq Cursors
    BY <1>1, GoodTyped
  <2>2. m \in Nat /\ q \in Nat /\ r.previous \in [Cursors -> Nat]
    BY <1>3, GoodTyped
  <2>3. m = n - s /\ s \in Nat
    BY <1>3 DEF Shifted
  <2> HIDE DEF p, n, q, m
  <2> QED BY <2>1, <2>2, <2>3
<1>5. q < m /\ q + 1 \in 1..m /\ q + 1 + s = p + 2 /\ m > 0 /\ m - q = n - p - 1
  <2> HIDE DEF p, n, q, m
  <2> QED BY <1>2, <1>3, <1>4
<1>6. /\ Holding(r, total) /\ Gapless(r)
      /\ \A k \in 1..m : k + s \in 1..n /\ End(r, k) = End(b, k + s)
  <2>1. /\ Len(b.chunks) \in Nat /\ Len(r.chunks) \in Nat
        /\ s \in Nat /\ Len(r.chunks) > 0
    BY <1>4, <1>5
  <2>2. Shifted(b, r, s) /\ Holding(b, total) /\ Gapless(b)
    BY <1>1, <1>3
  <2> HIDE DEF m, n
  <2>3. Holding(r, total) /\ Gapless(r)
    BY <2>1, <2>2, ShiftedHolds
  <2>4. \A k \in 1..Len(r.chunks) :
          k + s \in 1..Len(b.chunks) /\ End(r, k) = End(b, k + s)
    BY <2>1, <2>2, ShiftedHolds
  <2> QED BY <2>3, <2>4 DEF m, n
<1>7. Ends(r) \subseteq Ends(b)
  BY <1>6 DEF Ends
<1>8. /\ r.chunks[q + 1].bytes = x.bytes /\ r.chunks[q + 1].absolute = x.absolute
      /\ r.offset[c] = 0
  BY <1>3, <1>4, <1>5 DEF Shifted
<1>9. At(r, c) = x.absolute
  <2>1. x.absolute \in Nat
    BY <1>1, <1>2, EndsTyped
  <2>2. At(r, c) = x.absolute + 0
    BY <1>5, <1>8 DEF At, HasChunk, Chunk
  <2> QED BY <2>1, <2>2
<1>10. CurrentSize(r, c) = Len(x.bytes)
  <2>1. CurrentSize(r, c) = Len(x.bytes) - 0
    BY <1>5, <1>8 DEF CurrentSize, HasChunk, Chunk, Used
  <2> QED BY <1>2, <2>1
<1>11. ASSUME NEW d \in on \ {c} PROVE At(r, d) = At(b, d)
  <2>1. /\ r.previous[d] \in Nat /\ r.previous[d] + s = b.previous[d]
        /\ r.offset[d] = b.offset[d]
    BY <1>3, <1>4
  <2> QED BY <1>3, <1>4, <2>1, ShiftedAt
<1>12. Room(r, c) = Room(b, c) - 1
  BY <1>5 DEF Room
<1> QED BY <1>2, <1>3, <1>6, <1>7, <1>9, <1>10, <1>11, <1>12 DEF Sound, r

LEMMA SameShifted ==
  ASSUME NEW b, NEW r, r.chunks = b.chunks, Len(b.chunks) \in Nat
  PROVE  Shifted(b, r, 0)
<1>1. \A k \in 1..Len(b.chunks) : k + 0 = k
  OBVIOUS
<1> QED BY <1>1 DEF Shifted

\* A cursor n bytes further on, the other where it was.
Advanced(b, r, on, c, total, n) ==
  /\ Sound(r, on, total) /\ Ends(r) \subseteq Ends(b)
  /\ At(r, c) = At(b, c) + n
  /\ \A d \in on \ {c} : At(r, d) = At(b, d)

LEMMA OffsetHolds ==
  ASSUME NEW b, NEW on, NEW total, Sound(b, on, total), NEW c \in Cursors, c \in on,
         NEW n \in Nat, n <= CurrentSize(b, c)
  PROVE  LET r == [b EXCEPT !.offset[c] = @ + n]
         IN  Advanced(b, r, on, c, total, n)
<1> DEFINE r == [b EXCEPT !.offset[c] = @ + n]
           p == b.previous[c]
           m == Len(b.chunks)
<1>1. Good(b, on) /\ Holding(b, total) /\ Gapless(b)
  BY DEF Sound
<1>2. /\ Good(r, on) /\ r.chunks = b.chunks /\ r.previous = b.previous
      /\ r.offset = [b.offset EXCEPT ![c] = @ + n]
  BY <1>1, OffsetGood
<1>3. /\ m \in Nat /\ b.offset \in [Cursors -> Nat] /\ b.previous \in [Cursors -> Nat]
      /\ on \subseteq Cursors /\ p \in Nat
  BY <1>1, GoodTyped
<1> HIDE DEF r
<1>4. Sound(r, on, total) /\ Ends(r) \subseteq Ends(b)
  BY <1>1, <1>2 DEF Sound, Holding, Gapless, Ends, End
<1>5. At(r, c) = At(b, c) + n
  <2>1. CASE p < m
    <3> DEFINE y == b.chunks[p + 1].absolute
               o == b.offset[c]
    <3>1. p + 1 \in 1..m
      BY <1>3, <2>1
    <3>2. y \in Nat /\ o \in Nat
      BY <1>1, <1>3, <3>1, EndsTyped
    <3>3. At(b, c) = y + o
      BY <2>1 DEF At, HasChunk, Chunk
    <3>4. At(r, c) = y + (o + n)
      BY <1>2, <1>3, <2>1 DEF At, HasChunk, Chunk
    <3> HIDE DEF y, o
    <3> QED BY <3>2, <3>3, <3>4
  <2>2. CASE ~(p < m)
    <3>1. CurrentSize(b, c) = 0
      BY <1>1, <2>2, SizeTyped
    <3>2. n = 0
      BY <3>1
    <3>3. At(b, c) = 0 /\ At(r, c) = 0
      BY <1>2, <2>2 DEF At, HasChunk
    <3> QED BY <3>2, <3>3
  <2> QED BY <2>1, <2>2
<1>6. ASSUME NEW d \in on \ {c} PROVE At(r, d) = At(b, d)
  <2>1. /\ r.previous[d] \in Nat /\ r.previous[d] + 0 = b.previous[d]
        /\ r.offset[d] = b.offset[d]
    BY <1>2, <1>3
  <2>2. Shifted(b, r, 0)
    BY <1>2, <1>3, SameShifted
  <2> QED BY <1>2, <1>3, <2>1, <2>2, ShiftedAt
<1> QED BY <1>4, <1>5, <1>6 DEF Advanced, r

LEMMA AdvancedTwice ==
  ASSUME NEW b, NEW q, NEW r, NEW on, NEW c, NEW total, NEW m \in Nat, NEW n \in Nat,
         At(b, c) \in Nat, Advanced(b, q, on, c, total, m), Advanced(q, r, on, c, total, n)
  PROVE  Advanced(b, r, on, c, total, m + n)
<1>1. At(q, c) = At(b, c) + m /\ At(r, c) = At(q, c) + n
  BY DEF Advanced
<1>2. At(r, c) = At(b, c) + (m + n)
  BY <1>1
<1> QED BY <1>2 DEF Advanced

\* Where a sound buffer's cursors are.
LEMMA SoundTyped ==
  ASSUME NEW b, NEW on, NEW total, Sound(b, on, total), NEW c \in Cursors
  PROVE  /\ Good(b, on) /\ Holding(b, total) /\ Gapless(b)
         /\ total \in Nat /\ At(b, c) \in Nat /\ At(b, c) <= total
         /\ CurrentSize(b, c) \in Nat /\ At(b, c) + CurrentSize(b, c) <= total
         /\ LeftSize(b, c) = total - At(b, c)
         /\ Len(b.chunks) \in Nat /\ b.previous[c] \in Nat
         /\ Room(b, c) \in Nat /\ Room(b, c) <= Len(b.chunks)
<1>1. Good(b, on) /\ Holding(b, total) /\ Gapless(b)
  BY DEF Sound
<1> DEFINE m == CurrentSize(b, c)
           a == At(b, c)
<1>2. /\ m \in Nat /\ a \in Nat /\ total \in Nat /\ a + m <= total
      /\ LeftSize(b, c) = total - a
  BY <1>1, PlaceOf
<1>3. Len(b.chunks) \in Nat /\ b.previous[c] \in Nat /\ b.previous[c] <= Len(b.chunks)
  BY <1>1, GoodTyped
<1>4. Room(b, c) \in Nat /\ Room(b, c) <= Len(b.chunks)
  BY <1>3 DEF Room
<1> HIDE DEF m, a
<1>5. a <= total
  BY <1>2
<1> QED BY <1>1, <1>2, <1>3, <1>4, <1>5 DEF m, a

\* The states of Increment's loop, from b on and for n bytes.
Advances(b, on, c, total, n) ==
  {s \in Loops(on) :
     /\ s.amount <= n
     /\ s.done => s.amount = 0
     /\ Advanced(b, s.b, on, c, total, n - s.amount)}

LEMMA AdvanceTurn ==
  ASSUME NEW b, NEW on, NEW total, Sound(b, on, total), NEW c \in Cursors, c \in on,
         NEW n \in Nat, At(b, c) + n <= total, NEW s \in Advances(b, on, c, total, n)
  PROVE  LET t == IncrementTurn(s, c)
         IN  /\ t \in Advances(b, on, c, total, n)
             /\ s.done => t.done
             /\ t.done \/ Room(t.b, c) = Room(s.b, c) - 1
<1> DEFINE t == IncrementTurn(s, c)
           m == CurrentSize(s.b, c)
           a == At(b, c)
           g == s.amount
           moved == MoveToNextChunk(s.b, c)
           r == [s.b EXCEPT !.offset[c] = @ + g]
<1>1. /\ s \in Loops(on) /\ g \in Nat /\ g <= n /\ n - g \in Nat
      /\ s.done => g = 0
      /\ Advanced(b, s.b, on, c, total, n - g)
  BY DEF Advances, Loops
<1>2. Sound(s.b, on, total) /\ At(s.b, c) = a + (n - g) /\ a \in Nat /\ total \in Nat
  BY <1>1, SoundTyped DEF Advanced
<1>3. m \in Nat
  BY <1>2, SoundTyped
<1>4. /\ t \in Loops(on)
      /\ \/ s.done /\ t = s
         \/ /\ ~s.done /\ g <= m /\ t.b = r /\ t.amount = 0 /\ t.done
         \/ /\ ~s.done /\ m < g /\ s.b.previous[c] + 1 < Len(s.b.chunks)
            /\ t.b = moved /\ t.amount = g - m
            /\ t.done => CurrentSize(moved, c) = 0
         \/ /\ ~s.done /\ m < g /\ ~(s.b.previous[c] + 1 < Len(s.b.chunks))
  BY <1>1, TurnCases
<1> HIDE DEF t, r, moved
<1>5. CASE s.done /\ t = s
  BY <1>5 DEF t
<1>6. CASE ~s.done /\ g <= m /\ t.b = r /\ t.amount = 0 /\ t.done
  <2>1. Advanced(s.b, r, on, c, total, g)
    BY <1>1, <1>2, <1>6, OffsetHolds DEF r
  <2>2. Advanced(b, r, on, c, total, (n - g) + g)
    BY <1>1, <1>2, <2>1, AdvancedTwice
  <2>3. (n - g) + g = n - 0
    BY <1>1
  <2>4. Advanced(b, t.b, on, c, total, n - t.amount) /\ t.amount <= n
    BY <1>6, <2>2, <2>3
  <2> QED BY <1>4, <1>6, <2>4 DEF Advances, t
<1>7. CASE ~s.done /\ m < g
  <2>1. At(s.b, c) + m < total
    <3> HIDE DEF m, g, a
    <3> QED BY <1>1, <1>2, <1>3, <1>7 DEF a
  <2>2. /\ Sound(moved, on, total) /\ Ends(moved) \subseteq Ends(s.b)
        /\ At(moved, c) = At(s.b, c) + m
        /\ CurrentSize(moved, c) \in Nat /\ CurrentSize(moved, c) > 0
        /\ \A d \in on \ {c} : At(moved, d) = At(s.b, d)
        /\ Room(moved, c) = Room(s.b, c) - 1
    BY <1>2, <2>1, MoveHolds DEF moved
  <2>3. s.b.previous[c] + 1 < Len(s.b.chunks)
    BY <1>2, <2>1, NextHolds DEF Sound
  <2>4. t.b = moved /\ t.amount = g - m /\ ~t.done
    <3>1. ~(g <= m)
      BY <1>1, <1>3, <1>7
    <3>2. /\ t.b = moved /\ t.amount = g - m
          /\ t.done => CurrentSize(moved, c) = 0
      BY <1>4, <1>7, <2>3, <3>1
    <3>3. CurrentSize(moved, c) # 0
      BY <2>2
    <3> QED BY <3>2, <3>3
  <2>5. Advanced(s.b, moved, on, c, total, m)
    BY <2>2 DEF Advanced
  <2>6. Advanced(b, moved, on, c, total, (n - g) + m)
    BY <1>1, <1>2, <1>3, <2>5, AdvancedTwice
  <2>7. (n - g) + m = n - (g - m) /\ g - m <= n
    <3> HIDE DEF m, g
    <3> QED BY <1>1, <1>3, <1>7
  <2>8. Advanced(b, t.b, on, c, total, n - t.amount) /\ t.amount <= n
    BY <2>4, <2>6, <2>7
  <2> QED BY <1>4, <1>7, <2>2, <2>4, <2>8 DEF Advances, t
<1> QED BY <1>4, <1>5, <1>6, <1>7

\* There are enough turns: each ends the loop or leaves a chunk behind.
LEMMA IncrementHolds ==
  ASSUME NEW b, NEW on, NEW total, Sound(b, on, total), NEW c \in Cursors, c \in on,
         NEW n \in Nat, At(b, c) + n <= total
  PROVE  Advanced(b, IncrementIn(b, c, n), on, c, total, n)
<1> DEFINE d == [b |-> b, amount |-> n, done |-> FALSE]
           turns == Len(b.chunks) + 1
           f == IncrementLoop(d, c, turns)
           X == Advances(b, on, c, total, n)
<1>1. /\ Good(b, on) /\ At(b, c) \in Nat /\ Len(b.chunks) \in Nat
      /\ Room(b, c) \in Nat /\ Room(b, c) <= Len(b.chunks)
  BY SoundTyped
<1>2. d \in X /\ turns \in Nat /\ Room(b, c) < turns
  <2>1. d \in Loops(on)
    BY <1>1, GoodTyped DEF Loops
  <2>2. Advanced(b, b, on, c, total, 0)
    BY <1>1 DEF Advanced
  <2>3. n - n = 0 /\ n <= n
    OBVIOUS
  <2> QED BY <1>1, <2>1, <2>2, <2>3 DEF Advances
<1>3. \A s \in X : IncrementTurn(s, c) \in X
  BY AdvanceTurn
<1>4. IncrementIn(b, c, n) = f.b
  BY DEF IncrementIn, IncrementLoop
<1>5. d.b = b
  OBVIOUS
<1> HIDE DEF d, turns, X
<1>6. PICK h \in [0..turns -> X] : IncrementRuns(h, d, c, turns)
  BY <1>2, <1>3, IncrementTurns
<1>7. f \in X /\ f.done
  <2> DEFINE S == {k \in 0..turns : h[k].done \/ Room(h[k].b, c) <= Room(b, c) - k}
  <2>1. 0 \in S
    BY <1>1, <1>2, <1>5, <1>6 DEF IncrementRuns
  <2>2. ASSUME NEW k \in 0..(turns - 1), k \in S PROVE k + 1 \in S
    <3> DEFINE s == h[k]
               t == h[k + 1]
    <3>1. k \in 0..turns /\ k + 1 \in 0..turns /\ s \in X /\ t = IncrementTurn(s, c)
      BY <1>2, <1>6 DEF IncrementRuns
    <3>2. s.done \/ Room(s.b, c) <= Room(b, c) - k
      BY <2>2
    <3>3. /\ s.done => t.done
          /\ t.done \/ Room(t.b, c) = Room(s.b, c) - 1
      BY <3>1, AdvanceTurn DEF X
    <3>4. Room(s.b, c) \in Nat
      BY <3>1, SoundTyped DEF X, Advances, Advanced
    <3> HIDE DEF s, t
    <3>5. t.done \/ Room(t.b, c) <= Room(b, c) - (k + 1)
      BY <1>1, <3>2, <3>3, <3>4
    <3> QED BY <3>1, <3>5 DEF t
  <2>3. turns \in S
    <3> HIDE DEF S
    <3>1. \A k \in 0..turns : k \in S
      BY <1>2, <2>1, <2>2, UpTo
    <3> QED BY <1>2, <3>1
  <2>4. f = h[turns] /\ f \in X
    BY <1>2, <1>6 DEF IncrementRuns, f
  <2>5. Room(f.b, c) \in Nat
    BY <2>4, SoundTyped DEF X, Advances, Advanced
  <2>6. f.done \/ Room(f.b, c) <= Room(b, c) - turns
    BY <2>3, <2>4
  <2> HIDE DEF f
  <2> QED BY <1>1, <1>2, <2>4, <2>5, <2>6
<1> HIDE DEF f
<1>8. f.amount = 0 /\ Advanced(b, f.b, on, c, total, n - f.amount)
  BY <1>7 DEF X, Advances
<1>9. n - 0 = n
  OBVIOUS
<1> QED BY <1>4, <1>8, <1>9

-----------------------------------------------------------------------------
(* What is read.                                                           *)

\* The bytes that come after the first a.
Streams(s, a) == s \in Seq(Nat) /\ \A i \in 1..Len(s) : s[i] = a + i

IsJoined(r, p, q) ==
  /\ Len(r) = Len(p) + Len(q)
  /\ \A i \in 1..Len(p) : r[i] = p[i]
  /\ \A i \in 1..Len(q) : r[Len(p) + i] = q[i]

LEMMA JoinedIs ==
  ASSUME NEW T, NEW p \in Seq(T), NEW q \in Seq(T)
  PROVE  Joined(p, q) \in Seq(T) /\ IsJoined(Joined(p, q), p, q)
BY DEF IsJoined, Joined

LEMMA JoinedStreams ==
  ASSUME NEW a \in Nat, NEW p, NEW q, Streams(p, a), Streams(q, a + Len(p))
  PROVE  /\ Streams(Joined(p, q), a) /\ Len(p) \in Nat /\ Len(q) \in Nat
         /\ Len(Joined(p, q)) = Len(p) + Len(q)
<1> DEFINE r == Joined(p, q)
           m == Len(p)
           n == Len(q)
<1>1. /\ p \in Seq(Nat) /\ q \in Seq(Nat) /\ m \in Nat /\ n \in Nat
      /\ \A i \in 1..m : p[i] = a + i
      /\ \A i \in 1..n : q[i] = (a + m) + i
  BY DEF Streams
<1>2. /\ r \in Seq(Nat) /\ Len(r) = m + n
      /\ \A i \in 1..m : r[i] = p[i]
      /\ \A i \in 1..n : r[m + i] = q[i]
  <2>1. r \in Seq(Nat) /\ IsJoined(r, p, q)
    BY <1>1, JoinedIs
  <2> QED BY <2>1 DEF IsJoined
<1> HIDE DEF r, m, n
<1>3. ASSUME NEW i \in 1..(m + n) PROVE r[i] = a + i
  <2>1. CASE i <= m
    <3>1. i \in 1..m
      BY <1>1, <2>1
    <3> QED BY <1>1, <1>2, <3>1
  <2>2. CASE ~(i <= m)
    <3>1. i - m \in 1..n /\ m + (i - m) = i /\ (a + m) + (i - m) = a + i
      BY <1>1, <2>2
    <3>2. r[m + (i - m)] = q[i - m] /\ q[i - m] = (a + m) + (i - m)
      BY <1>1, <1>2, <3>1
    <3> QED BY <3>1, <3>2
  <2> QED BY <2>1, <2>2
<1>4. Streams(r, a)
  BY <1>2, <1>3 DEF Streams
<1> QED BY <1>1, <1>2, <1>4 DEF r, m, n

LEMMA CutStreams ==
  ASSUME NEW a \in Nat, NEW q, Streams(q, a), NEW first \in Nat, NEW last \in Nat,
         first <= last, last <= Len(q)
  PROVE  Streams(Cut(q, first, last), a + first)
<1> DEFINE r == Cut(q, first, last)
<1>1. q \in Seq(Nat) /\ Len(q) \in Nat /\ \A i \in 1..Len(q) : q[i] = a + i
  BY DEF Streams
<1>2. r \in Seq(Nat) /\ IsCut(r, q, first, last)
  BY <1>1, CutKeeps
<1> HIDE DEF r
<1>3. /\ Len(r) = last - first
      /\ \A i \in 1..(last - first) : r[i] = q[first + i]
  BY <1>2 DEF IsCut
<1>4. ASSUME NEW i \in 1..(last - first) PROVE r[i] = (a + first) + i
  <2>1. first + i \in 1..Len(q) /\ a + (first + i) = (a + first) + i
    BY <1>1
  <2> QED BY <1>1, <1>3, <2>1
<1>5. Streams(r, a + first)
  BY <1>2, <1>3, <1>4 DEF Streams
<1> QED BY <1>5 DEF r

LEMMA ChunkStreams ==
  ASSUME NEW b, NEW on, Good(b, on), NEW total, Holding(b, total),
         NEW k \in 1..Len(b.chunks)
  PROVE  Streams(b.chunks[k].bytes, b.chunks[k].absolute)
<1>1. b.chunks[k].bytes \in Seq(Nat)
  BY EndsTyped
<1> QED BY <1>1 DEF Streams, Holding

\* What is left of the chunk a cursor is in.
Rest(b, c) == Cut(Chunk(b, c).bytes, b.offset[c], Used(Chunk(b, c)))

LEMMA RestStreams ==
  ASSUME NEW b, NEW on, NEW total, Sound(b, on, total), NEW c \in Cursors,
         b.previous[c] < Len(b.chunks)
  PROVE  /\ Streams(Rest(b, c), At(b, c)) /\ Len(Rest(b, c)) = CurrentSize(b, c)
         /\ b.previous[c] + 1 \in 1..Len(b.chunks)
         /\ At(b, c) + CurrentSize(b, c) = End(b, b.previous[c] + 1)
<1> DEFINE p == b.previous[c]
           x == b.chunks[p + 1]
           o == b.offset[c]
<1>1. Good(b, on) /\ Holding(b, total)
  BY DEF Sound
<1>2. /\ p + 1 \in 1..Len(b.chunks) /\ At(b, c) + CurrentSize(b, c) = End(b, p + 1)
      /\ At(b, c) = x.absolute + o
  BY <1>1, PlaceOf
<1>3. /\ x.absolute \in Nat /\ Len(x.bytes) \in Nat /\ o \in Nat /\ o <= Len(x.bytes)
      /\ CurrentSize(b, c) = Len(x.bytes) - o
  <2>1. x.absolute \in Nat /\ Len(x.bytes) \in Nat
    BY <1>1, <1>2, EndsTyped
  <2>2. o \in Nat /\ o <= Len(x.bytes)
    BY <1>1, GoodTyped
  <2>3. CurrentSize(b, c) = Len(x.bytes) - o
    BY <1>1, SizeTyped
  <2> QED BY <2>1, <2>2, <2>3
<1>4. Streams(x.bytes, x.absolute)
  BY <1>1, <1>2, ChunkStreams
<1> DEFINE q == x.bytes
           y == x.absolute
           l == Len(q)
<1>5. Rest(b, c) = Cut(q, o, l)
  BY DEF Rest, Chunk, Used
<1>6. Streams(q, y) /\ y \in Nat /\ o \in Nat /\ l \in Nat /\ o <= l /\ l = Len(q)
  BY <1>3, <1>4
<1> HIDE DEF q, y, l, o
<1>7. Streams(Cut(q, o, l), y + o) /\ Len(Cut(q, o, l)) = l - o
  <2>1. l <= Len(q)
    BY <1>6
  <2>2. Streams(Cut(q, o, l), y + o)
    BY <1>6, <2>1, CutStreams
  <2>3. Len(Cut(q, o, l)) = l - o
    <3>1. q \in Seq(Nat)
      BY <1>6 DEF Streams
    <3>2. IsCut(Cut(q, o, l), q, o, l)
      BY <1>6, <2>1, <3>1, CutKeeps
    <3> QED BY <3>2 DEF IsCut
  <2> QED BY <2>2, <2>3
<1> QED BY <1>2, <1>3, <1>5, <1>7 DEF q, y, l, o

LEMMA DataHolds ==
  ASSUME NEW b, NEW on, NEW total, Sound(b, on, total), NEW c \in Cursors
  PROVE  /\ Streams(Data(b, c), At(b, c))
         /\ Len(Data(b, c)) = ContiguousSize(b, c) /\ ContiguousSize(b, c) \in Nat
         /\ At(b, c) + ContiguousSize(b, c) <= total
         /\ At(b, c) < total => /\ ContiguousSize(b, c) > 0
                                /\ At(b, c) + ContiguousSize(b, c) \in Ends(b)
<1> DEFINE p == b.previous[c]
           n == Len(b.chunks)
           a == At(b, c)
           m == CurrentSize(b, c)
           l == ContiguousSize(b, c)
<1>1. /\ Good(b, on) /\ Holding(b, total) /\ p \in Nat /\ n \in Nat /\ a \in Nat
      /\ m \in Nat /\ total \in Nat /\ a + m <= total
  BY SoundTyped
<1>2. Len(Data(b, c)) = l /\ l \in Nat
  BY <1>1, DataTyped
<1>3. a + m < total => p + 1 < n /\ Len(b.chunks[p + 2].bytes) > 0
  BY NextHolds DEF Sound
<1>4. CASE LooksAhead(b, c)
  <2> DEFINE x == b.chunks[p + 2]
  <2>1. m = 0 /\ p + 2 <= n /\ Data(b, c) = x.bytes /\ l = Len(x.bytes)
    BY <1>4 DEF LooksAhead, NextChunk, Data, ContiguousSize, Used
  <2>2. p + 2 \in 1..n /\ p + 1 \in 1..(n - 1) /\ p + 1 + 1 = p + 2 /\ p < n
    <3> HIDE DEF p, n
    <3> QED BY <1>1, <2>1
  <2>3. x.absolute = End(b, p + 1) /\ End(b, p + 2) = x.absolute + Len(x.bytes)
    BY <1>1, <2>2, EndsTyped
  <2>4. a + m = End(b, p + 1)
    BY <1>1, <2>2, PlaceOf
  <2>5. x.absolute = a
    BY <1>1, <2>1, <2>3, <2>4
  <2>6. Streams(x.bytes, a)
    BY <1>1, <2>2, <2>5, ChunkStreams
  <2>7. a + l = End(b, p + 2) /\ End(b, p + 2) <= total /\ End(b, p + 2) \in Ends(b)
    <3>1. End(b, p + 2) <= total
      BY <1>1, <2>2, EndsGrow
    <3>2. End(b, p + 2) \in Ends(b)
      BY <2>2 DEF Ends
    <3> QED BY <2>1, <2>3, <2>5, <3>1, <3>2
  <2>8. a < total => l > 0
    BY <1>1, <1>3, <2>1
  <2> HIDE DEF l, a
  <2> QED BY <1>2, <2>1, <2>6, <2>7, <2>8 DEF l, a
<1>5. CASE ~LooksAhead(b, c) /\ p < n
  <2>1. Data(b, c) = Rest(b, c) /\ l = m
    BY <1>5 DEF Data, ContiguousSize, HasChunk, Rest, Cut
  <2>2. Streams(Rest(b, c), a) /\ p + 1 \in 1..n /\ a + m = End(b, p + 1)
    BY <1>5, RestStreams
  <2>3. a + m \in Ends(b)
    BY <2>2 DEF Ends
  <2>4. a < total => m > 0
    <3>1. ASSUME a < total, ~(m > 0) PROVE FALSE
      <4>1. m = 0 /\ a + m < total
        BY <1>1, <3>1
      <4>2. p + 2 <= n
        BY <1>1, <1>3, <4>1
      <4> QED BY <1>5, <4>1, <4>2 DEF LooksAhead, NextChunk
    <3> QED BY <3>1
  <2> HIDE DEF l, a, m
  <2> QED BY <1>1, <1>2, <2>1, <2>2, <2>3, <2>4 DEF l, a
<1>6. CASE ~LooksAhead(b, c) /\ ~(p < n)
  <2>1. Data(b, c) = <<>> /\ l = m
    BY <1>6 DEF Data, ContiguousSize, HasChunk
  <2>2. total = 0 /\ a = 0 /\ m = 0
    BY <1>1, <1>6, PlaceOf
  <2>3. Streams(<<>>, a)
    BY DEF Streams
  <2> HIDE DEF l, a, m
  <2> QED BY <1>2, <2>1, <2>2, <2>3 DEF l, a
<1> QED BY <1>4, <1>5, <1>6

\* The states of Consume's loop, from b on and for n bytes.
Reading(b, on, c, total, n) ==
  {s \in Reads(on, n) : /\ Advanced(b, s.b, on, c, total, Len(s.bytes))
                        /\ Streams(s.bytes, At(b, c))}

\* A turn that is not the last ends where a chunk ends, and further on.
LEMMA ReadTurn ==
  ASSUME NEW b, NEW on, NEW total, Sound(b, on, total), NEW c \in Cursors, c \in on,
         NEW n \in Nat, At(b, c) + n <= total, NEW s \in Reading(b, on, c, total, n)
  PROVE  LET t == ConsumeTurn(s, c, n)
         IN  /\ t \in Reading(b, on, c, total, n)
             /\ Len(s.bytes) = n => t = s
             /\ Len(t.bytes) # n => At(t.b, c) \in Ends(b) /\ At(t.b, c) > At(s.b, c)
<1> DEFINE t == ConsumeTurn(s, c, n)
           a == At(b, c)
           l == Len(s.bytes)
           m == ContiguousSize(s.b, c)
           count == Smaller(n - l, m)
           taking == Cut(Data(s.b, c), 0, count)
           moved == IncrementIn(s.b, c, count)
           joined == Joined(s.bytes, taking)
<1>1. /\ s \in Reads(on, n) /\ l \in Nat /\ l <= n /\ s.bytes \in Seq(Nat)
      /\ Advanced(b, s.b, on, c, total, l) /\ Streams(s.bytes, a)
  BY DEF Reading, Reads
<1>2. /\ Sound(s.b, on, total) /\ At(s.b, c) = a + l /\ a \in Nat /\ total \in Nat
      /\ Ends(s.b) \subseteq Ends(b)
  BY <1>1, SoundTyped DEF Advanced
<1>3. CASE l = n
  BY <1>3 DEF ConsumeTurn
<1>4. CASE l # n
  <2>1. a + l < total
    <3> HIDE DEF a, l
    <3> QED BY <1>1, <1>2, <1>4 DEF a
  <2>2. LeftSize(s.b, c) # 0
    <3>1. LeftSize(s.b, c) = total - At(s.b, c)
      BY <1>2, SoundTyped
    <3> HIDE DEF a, l
    <3> QED BY <1>1, <1>2, <2>1, <3>1
  <2>3. t = [b |-> moved, bytes |-> joined]
    BY <1>4, <2>2 DEF ConsumeTurn, Joined, Cut
  <2>4. /\ Streams(Data(s.b, c), a + l) /\ Len(Data(s.b, c)) = m /\ m \in Nat /\ m > 0
        /\ a + l + m <= total /\ a + l + m \in Ends(s.b)
    <3>1. At(s.b, c) < total
      BY <1>2, <2>1
    <3>2. /\ Streams(Data(s.b, c), At(s.b, c)) /\ Len(Data(s.b, c)) = m /\ m \in Nat
          /\ m > 0
          /\ At(s.b, c) + m <= total /\ At(s.b, c) + m \in Ends(s.b)
      BY <1>2, <3>1, DataHolds
    <3>3. At(s.b, c) = a + l
      BY <1>2
    <3> HIDE DEF a, l, m
    <3> QED BY <3>2, <3>3
  <2> DEFINE data == Data(s.b, c)
  <2>5. /\ count \in Nat /\ count <= m /\ count > 0 /\ count <= n - l /\ l + count <= n
        /\ a + l + count <= total
        /\ count = n - l \/ count = m
    <3> HIDE DEF m, l, a
    <3> QED BY <1>1, <1>2, <1>4, <2>4 DEF Smaller
  <2> HIDE DEF count, data
  <2>6. Streams(taking, a + l) /\ Len(taking) = count
    <3>1. data \in Seq(Nat) /\ Streams(data, a + l) /\ a + l \in Nat /\ count <= Len(data)
      BY <1>1, <1>2, <2>4, <2>5 DEF Streams, data
    <3>2. 0 \in Nat /\ 0 <= count
      BY <2>5
    <3> DEFINE at == a + l
    <3>3. at \in Nat /\ Streams(data, at) /\ at + 0 = at
      BY <1>1, <1>2, <3>1
    <3> HIDE DEF at
    <3>4. Streams(Cut(data, 0, count), at + 0)
      BY <2>5, <3>1, <3>2, <3>3, CutStreams
    <3>5. IsCut(Cut(data, 0, count), data, 0, count)
      BY <2>5, <3>1, <3>2, CutKeeps
    <3>6. Len(Cut(data, 0, count)) = count
      BY <2>5, <3>5 DEF IsCut
    <3> QED BY <3>3, <3>4, <3>6 DEF at, data
  <2> HIDE DEF taking
  <2>7. /\ Streams(joined, a) /\ Len(joined) = l + count
    <3> DEFINE had == s.bytes
    <3>1. a \in Nat /\ Streams(had, a)
      BY <1>1, <1>2
    <3>2. Streams(taking, a + Len(had))
      BY <2>6
    <3> HIDE DEF a, had
    <3>3. Streams(Joined(had, taking), a)
      BY <3>1, <3>2, JoinedStreams
    <3>4. Len(Joined(had, taking)) = Len(had) + Len(taking)
      BY <3>1, <3>2, JoinedStreams
    <3> QED BY <2>6, <3>3, <3>4 DEF had
  <2>8. Advanced(s.b, moved, on, c, total, count)
    <3>1. At(s.b, c) + count <= total
      BY <1>2, <2>5
    <3> QED BY <1>2, <2>5, <3>1, IncrementHolds
  <2> HIDE DEF joined, moved, t
  <2>9. Advanced(b, moved, on, c, total, l + count)
    BY <1>1, <1>2, <2>5, <2>8, AdvancedTwice
  <2>10. t.b = moved /\ t.bytes = joined
    BY <2>3
  <2>11. moved \in BufferRecords /\ Good(moved, on)
    BY <2>8 DEF Advanced, Sound, Good
  <2>12. t \in Reads(on, n)
    <3>1. joined \in Seq(Nat)
      BY <2>7 DEF Streams
    <3>2. Len(joined) <= n
      BY <2>5, <2>7
    <3> QED BY <2>3, <2>11, <3>1, <3>2 DEF Reads
  <2>13. t \in Reading(b, on, c, total, n)
    BY <2>7, <2>9, <2>10, <2>12 DEF Reading
  <2>14. ASSUME Len(t.bytes) # n
         PROVE  At(t.b, c) \in Ends(b) /\ At(t.b, c) > At(s.b, c)
    <3>1. l + count # n
      BY <2>7, <2>10, <2>14
    <3>2. count = m
      <4> HIDE DEF l, m
      <4> QED BY <1>1, <2>5, <3>1
    <3>3. At(t.b, c) = a + l + m
      <4>1. At(t.b, c) = At(s.b, c) + count
        BY <2>8, <2>10 DEF Advanced
      <4> QED BY <1>2, <3>2, <4>1
    <3>4. a + l + m > a + l
      <4> HIDE DEF a, l, m
      <4> QED BY <1>1, <1>2, <2>4
    <3> QED BY <1>2, <2>4, <3>3, <3>4
  <2> QED BY <1>4, <2>13, <2>14 DEF t
<1> QED BY <1>3, <1>4

\* There are enough turns: each ends the loop or gets to the end of one more
\* chunk of those there were.
LEMMA ConsumeHolds ==
  ASSUME NEW b, NEW on, NEW total, Sound(b, on, total), NEW c \in Cursors, c \in on,
         NEW n \in Nat, At(b, c) + n <= total
  PROVE  LET f == ConsumeIn(b, c, n)
         IN  /\ Advanced(b, f.b, on, c, total, n)
             /\ Streams(f.bytes, At(b, c)) /\ Len(f.bytes) = n
<1> DEFINE d == [b |-> b, bytes |-> <<>>]
           m == Len(b.chunks)
           turns == m + 1
           f == ConsumeLoop(d, c, n, turns)
           X == Reading(b, on, c, total, n)
<1>1. /\ Good(b, on) /\ Holding(b, total) /\ At(b, c) \in Nat /\ m \in Nat /\ total \in Nat
  BY SoundTyped
<1>2. d \in X /\ turns \in Nat
  <2>1. <<>> \in Seq(Nat) /\ Len(<<>>) = 0 /\ 0 <= n
    OBVIOUS
  <2>2. d \in Reads(on, n)
    BY <1>1, <2>1, GoodTyped DEF Reads
  <2>3. Advanced(b, b, on, c, total, 0)
    BY <1>1 DEF Advanced
  <2>4. Streams(<<>>, At(b, c))
    BY DEF Streams
  <2> QED BY <1>1, <2>1, <2>2, <2>3, <2>4 DEF Reading
<1>3. \A s \in X : ConsumeTurn(s, c, n) \in X
  BY ReadTurn
<1>4. ConsumeIn(b, c, n) = f
  BY DEF ConsumeIn, ConsumeLoop, ConsumeTurn
<1>5. \A j, k \in 1..m : j <= k => End(b, j) <= End(b, k)
  BY <1>1, EndsGrow
<1>6. \A k \in 1..m : End(b, k) \in Nat
  BY <1>1, EndsTyped
<1> HIDE DEF d, turns, X
<1>7. PICK h \in [0..turns -> X] : ConsumeRuns(h, d, c, n, turns)
  BY <1>2, <1>3, ConsumeTurns
<1>8. ASSUME NEW s \in X
      PROVE  /\ At(s.b, c) = At(b, c) + Len(s.bytes) /\ Len(s.bytes) \in Nat
             /\ Len(s.bytes) <= n /\ At(s.b, c) \in Nat
             /\ Advanced(b, s.b, on, c, total, Len(s.bytes))
             /\ Streams(s.bytes, At(b, c))
  <2>1. /\ s.bytes \in Seq(Nat) /\ Len(s.bytes) <= n
        /\ Advanced(b, s.b, on, c, total, Len(s.bytes)) /\ Streams(s.bytes, At(b, c))
    BY DEF X, Reading, Reads
  <2>2. At(s.b, c) = At(b, c) + Len(s.bytes)
    BY <2>1 DEF Advanced
  <2> QED BY <1>1, <2>1, <2>2
<1>9. f \in X /\ Len(f.bytes) = n
  <2> DEFINE S == {k \in 0..turns :
                     \/ Len(h[k].bytes) = n
                     \/ \A i \in 1..m : i <= k => End(b, i) <= At(h[k].b, c)}
  <2>1. 0 \in S
    <3>1. \A i \in 1..m : ~(i <= 0)
      OBVIOUS
    <3>2. 0 \in 0..turns
      BY <1>2
    <3> QED BY <3>1, <3>2
  <2>2. ASSUME NEW k \in 0..(turns - 1), k \in S PROVE k + 1 \in S
    <3> DEFINE s == h[k]
               t == h[k + 1]
    <3>1. k \in 0..turns /\ k + 1 \in 0..turns /\ s \in X /\ t \in X /\ t = ConsumeTurn(s, c, n)
      BY <1>2, <1>7 DEF ConsumeRuns
    <3>2. \/ Len(s.bytes) = n
          \/ \A i \in 1..m : i <= k => End(b, i) <= At(s.b, c)
      BY <2>2
    <3>3. /\ Len(s.bytes) = n => t = s
          /\ Len(t.bytes) # n => At(t.b, c) \in Ends(b) /\ At(t.b, c) > At(s.b, c)
      BY <3>1, ReadTurn DEF X
    <3>4. At(s.b, c) \in Nat /\ At(t.b, c) \in Nat
      BY <1>8, <3>1
    <3> HIDE DEF s, t
    <3>5. ASSUME Len(t.bytes) # n, NEW i \in 1..m, i <= k + 1
          PROVE  End(b, i) <= At(t.b, c)
      <4>1. At(t.b, c) \in Ends(b) /\ At(t.b, c) > At(s.b, c)
        BY <3>3, <3>5
      <4>2. PICK j \in 1..m : At(t.b, c) = End(b, j)
        BY <4>1 DEF Ends
      <4>3. \A e \in 1..m : e <= k => End(b, e) <= At(s.b, c)
        BY <3>2, <3>3, <3>5
      <4>4. CASE i <= j
        BY <1>5, <4>2, <4>4
      <4>5. CASE ~(i <= j)
        <5>1. j <= k
          BY <1>1, <3>5, <4>5
        <5>2. End(b, j) <= At(s.b, c) /\ End(b, j) \in Nat
          BY <1>6, <4>3, <5>1
        <5> QED BY <3>4, <4>1, <4>2, <5>2
      <4> QED BY <4>4, <4>5
    <3> QED BY <3>1, <3>5 DEF t
  <2>3. turns \in S
    <3> HIDE DEF S
    <3>1. \A k \in 0..turns : k \in S
      BY <1>2, <2>1, <2>2, UpTo
    <3> QED BY <1>2, <3>1
  <2>4. f = h[turns] /\ f \in X
    BY <1>2, <1>7 DEF ConsumeRuns, f
  <2>5. Len(f.bytes) = n \/ \A i \in 1..m : i <= turns => End(b, i) <= At(f.b, c)
    BY <2>3, <2>4
  <2> HIDE DEF f
  <2>6. ASSUME \A i \in 1..m : i <= turns => End(b, i) <= At(f.b, c)
        PROVE  Len(f.bytes) = n
    <3>1. total <= At(f.b, c)
      <4>1. CASE m = 0
        <5>1. total = 0
          BY <1>1, <4>1, EndsTyped
        <5> QED BY <1>8, <2>4, <5>1
      <4>2. CASE m # 0
        <5>1. m \in 1..m /\ m <= turns /\ m > 0
          BY <1>1, <4>2 DEF turns
        <5>2. End(b, m) = total
          BY <1>1, <5>1, EndsTyped
        <5> QED BY <2>6, <5>1, <5>2
      <4> QED BY <4>1, <4>2
    <3>2. /\ At(f.b, c) = At(b, c) + Len(f.bytes) /\ Len(f.bytes) \in Nat
          /\ Len(f.bytes) <= n
      BY <1>8, <2>4
    <3> QED BY <1>1, <3>1, <3>2
  <2> QED BY <2>4, <2>5, <2>6
<1> HIDE DEF f
<1> QED BY <1>4, <1>8, <1>9

\* The bytes from one place to another.
Reaches(s, from, to) == Streams(s, from) /\ from + Len(s) = to

\* Chunks one after the other.
LEMMA GatherHolds ==
  ASSUME NEW b, NEW on, Good(b, on), NEW total, Holding(b, total),
         NEW p \in Nat, NEW e \in Nat, p + 1 <= e, e <= Len(b.chunks),
         NEW a \in Nat, NEW base, Reaches(base, a, End(b, p + 1))
  PROVE  LET r == Gathered(base, Cut(b.chunks, p + 1, e))
         IN  Reaches(r, a, End(b, e))
<1> DEFINE n == Len(b.chunks)
           q == Cut(b.chunks, p + 1, e)
           l == Len(q)
<1>1. n \in Nat /\ b.chunks \in Seq(ChunkRecords)
  BY GoodTyped
<1>2. /\ q \in Seq(ChunkRecords) /\ l = e - (p + 1) /\ l \in Nat /\ DOMAIN q = 1..l
      /\ \A i \in 1..l : q[i] = b.chunks[p + 1 + i]
  <2>1. p + 1 \in Nat
    OBVIOUS
  <2>2. q \in Seq(ChunkRecords) /\ IsCut(q, b.chunks, p + 1, e)
    BY <1>1, <2>1, CutKeeps
  <2> HIDE DEF q
  <2>3. l = e - (p + 1) /\ \A i \in 1..(e - (p + 1)) : q[i] = b.chunks[p + 1 + i]
    BY <2>2 DEF IsCut
  <2>4. l \in Nat /\ DOMAIN q = 1..l
    BY <2>2
  <2> QED BY <2>2, <2>3, <2>4
<1> HIDE DEF q, l
<1>3. ASSUME NEW k \in 0..(l - 1)
      PROVE  /\ k + 1 \in 1..l /\ p + 1 + k \in 1..(n - 1)
             /\ p + 1 + (k + 1) \in 1..n /\ p + 1 + (k + 1) = p + 1 + k + 1
  <2> HIDE DEF n
  <2>1. e <= n
    BY DEF n
  <2> QED BY <1>1, <1>2, <2>1
<1>4. ASSUME NEW s \in Seq(Nat), NEW i \in 1..l PROVE s \o q[i].bytes \in Seq(Nat)
  <2>1. q[i] \in ChunkRecords
    BY <1>2
  <2>2. q[i].bytes \in Seq(Nat)
    BY <2>1, ChunkFields
  <2>3. Joined(s, q[i].bytes) \in Seq(Nat)
    BY <2>2, JoinedKeeps
  <2> QED BY <2>3 DEF Joined
<1>5. base \in Seq(Nat) /\ Streams(base, a) /\ a + Len(base) = End(b, p + 1)
  BY DEF Reaches, Streams
<1>6. PICK h \in [0..l -> Seq(Nat)] : GatherRuns(h, base, q)
  BY <1>2, <1>4, <1>5, GatherTurns DEF l
<1>7. /\ h[0] = base /\ Gathered(base, q) = h[l]
      /\ \A k \in 0..(l - 1) : h[k + 1] = Joined(h[k], q[k + 1].bytes)
  BY <1>6 DEF GatherRuns, Joined, l
<1> DEFINE S == {k \in 0..l : Streams(h[k], a) /\ a + Len(h[k]) = End(b, p + 1 + k)}
<1>8. 0 \in S
  <2>1. p + 1 + 0 = p + 1 /\ 0 \in 0..l
    BY <1>2
  <2> QED BY <1>5, <1>7, <2>1
<1>9. ASSUME NEW k \in 0..(l - 1), k \in S PROVE k + 1 \in S
  <2> DEFINE j == p + 1 + (k + 1)
             x == b.chunks[j]
             s == h[k]
  <2>1. Streams(s, a) /\ a + Len(s) = End(b, p + 1 + k)
    BY <1>9
  <2>2. k + 1 \in 1..l /\ p + 1 + k \in 1..(n - 1) /\ j \in 1..n /\ j = p + 1 + k + 1
    BY <1>3
  <2> HIDE DEF j
  <2>3. /\ x.absolute = End(b, p + 1 + k) /\ End(b, j) = x.absolute + Len(x.bytes)
        /\ Streams(x.bytes, x.absolute)
    <3>1. End(b, j) = x.absolute + Len(x.bytes)
      BY <2>2, EndsTyped
    <3>2. Streams(x.bytes, x.absolute)
      BY <2>2, ChunkStreams
    <3>3. x.absolute = End(b, p + 1 + k)
      BY <2>2, EndsTyped
    <3> QED BY <3>1, <3>2, <3>3
  <2>4. h[k + 1] = Joined(s, x.bytes)
    <3>0. k + 1 \in Nat /\ p + 1 + (k + 1) = j
      BY <1>9, <2>2 DEF j
    <3>1. q[k + 1] = x
      BY <1>2, <2>2, <3>0
    <3> QED BY <1>7, <3>1
  <2>5. Streams(x.bytes, a + Len(s))
    BY <2>1, <2>3
  <2> HIDE DEF x, s
  <2>6. /\ Streams(Joined(s, x.bytes), a) /\ Len(s) \in Nat /\ Len(x.bytes) \in Nat
        /\ Len(Joined(s, x.bytes)) = Len(s) + Len(x.bytes)
    BY <2>1, <2>5, JoinedStreams
  <2>7. a + Len(Joined(s, x.bytes)) = End(b, j)
    BY <2>1, <2>3, <2>6
  <2>8. k + 1 \in 0..l
    BY <2>2
  <2> QED BY <2>4, <2>6, <2>7, <2>8 DEF j
<1>10. l \in S
  <2> HIDE DEF S
  <2>1. \A k \in 0..l : k \in S
    BY <1>2, <1>8, <1>9, UpTo
  <2> QED BY <1>2, <2>1
<1>11. p + 1 + l = e
  BY <1>2
<1> QED BY <1>7, <1>10, <1>11 DEF q, Reaches

\* Get has everything up to the end.
LEMMA GetHolds ==
  ASSUME NEW b, NEW on, NEW total, Sound(b, on, total), NEW c \in Cursors
  PROVE  /\ Streams(Get(b, c), At(b, c)) /\ Len(Get(b, c)) \in Nat
         /\ At(b, c) + Len(Get(b, c)) = total
<1> DEFINE p == b.previous[c]
           n == Len(b.chunks)
           a == At(b, c)
<1>1. /\ Good(b, on) /\ Holding(b, total) /\ p \in Nat /\ n \in Nat /\ a \in Nat
      /\ total \in Nat
  BY SoundTyped
<1>2. ASSUME Streams(Get(b, c), a) PROVE Len(Get(b, c)) \in Nat
  BY <1>2 DEF Streams
<1>3. CASE p < n
  <2> DEFINE rest == Rest(b, c)
             m == End(b, p + 1)
             r == Gathered(<<>>, Cut(b.chunks, p + 1, n))
  <2>1. Get(b, c) = Joined(rest, r)
    <3>1. p + 1 + 1 = p + 2
      BY <1>1
    <3>2. NextChunk(b, c) = p + 1 + 1
      BY <3>1 DEF NextChunk
    <3> QED BY <1>3, <3>2 DEF Get, HasChunk, Joined, Rest, Cut, Gathered
  <2>2. Streams(rest, a) /\ a + Len(rest) = m /\ p + 1 \in 1..n
    BY <1>3, RestStreams
  <2>3. m \in Nat /\ End(b, n) = total
    <3>1. n \in 1..n /\ n > 0
      BY <1>1, <1>3
    <3> QED BY <1>1, <2>2, <3>1, EndsTyped
  <2>4. Streams(r, m) /\ m + Len(r) = End(b, n)
    <3>1. p + 1 <= n /\ n <= n
      BY <1>1, <1>3
    <3>2. Reaches(<<>>, m, m)
      BY <2>3 DEF Streams, Reaches
    <3>3. Reaches(r, m, End(b, n))
      BY <1>1, <2>3, <3>1, <3>2, GatherHolds
    <3> QED BY <3>3 DEF Reaches
  <2>5. Streams(r, a + Len(rest))
    BY <2>2, <2>4
  <2> HIDE DEF rest, r, m, a
  <2>6. /\ Streams(Joined(rest, r), a) /\ Len(rest) \in Nat /\ Len(r) \in Nat
        /\ Len(Joined(rest, r)) = Len(rest) + Len(r)
    BY <1>1, <2>2, <2>5, JoinedStreams
  <2>7. a + Len(Joined(rest, r)) = total
    BY <1>1, <2>2, <2>3, <2>4, <2>6
  <2> QED BY <1>2, <2>1, <2>6, <2>7 DEF a
<1>4. CASE ~(p < n)
  <2>1. Get(b, c) = <<>>
    BY <1>4 DEF Get, HasChunk
  <2>2. total = 0 /\ a = 0
    BY <1>1, <1>4, PlaceOf
  <2>3. Streams(<<>>, a)
    BY DEF Streams
  <2> HIDE DEF a
  <2> QED BY <2>1, <2>2, <2>3 DEF a
<1> QED BY <1>3, <1>4

\* GetIovec has as many chunks as one write may take, and something unless
\* there is nothing.
LEMMA IovecHolds ==
  ASSUME NEW b, NEW on, NEW total, Sound(b, on, total), NEW c \in Cursors
  PROVE  /\ Streams(GetIovec(b, c), At(b, c)) /\ Len(GetIovec(b, c)) \in Nat
         /\ At(b, c) + Len(GetIovec(b, c)) <= total
         /\ At(b, c) < total => Len(GetIovec(b, c)) > 0
<1> DEFINE p == b.previous[c]
           n == Len(b.chunks)
           a == At(b, c)
           m == CurrentSize(b, c)
           first == IF m > 0 THEN 1 ELSE 0
           e == Smaller(p + 1 + IovecSize - first, n)
           rest == Rest(b, c)
           r == Gathered(rest, Cut(b.chunks, p + 1, e))
           f == GetIovec(b, c)
<1>1. /\ Good(b, on) /\ Holding(b, total) /\ p \in Nat /\ n \in Nat /\ a \in Nat
      /\ total \in Nat /\ m \in Nat /\ a + m <= total /\ a <= total
      /\ LeftSize(b, c) = total - a
  BY SoundTyped
<1>2. ASSUME Streams(f, a) PROVE Len(f) \in Nat
  BY <1>2 DEF Streams
<1>3. CASE LeftSize(b, c) = 0
  <2>1. f = <<>>
    BY <1>3 DEF GetIovec
  <2>2. Streams(<<>>, a)
    BY DEF Streams
  <2> HIDE DEF f, a
  <2>3. a = total
    BY <1>1, <1>3
  <2>4. Len(f) = 0
    BY <2>1
  <2> QED BY <1>1, <2>1, <2>2, <2>3, <2>4 DEF f, a
<1>4. CASE LeftSize(b, c) # 0
  <2>1. p < n
    BY <1>4 DEF LeftSize, HasChunk
  <2>2. f = r
    <3>1. p + 1 + 1 = p + 2
      BY <1>1
    <3>2. NextChunk(b, c) = p + 1 + 1
      BY <3>1 DEF NextChunk
    <3> QED BY <1>4, <3>2 DEF GetIovec, Rest, Cut, Gathered
  <2>3. Streams(rest, a) /\ Len(rest) = m /\ p + 1 \in 1..n /\ a + m = End(b, p + 1)
    BY <2>1, RestStreams
  <2>4. m = 0 => p + 2 \in 1..n /\ a < End(b, p + 2)
    <3>1. ASSUME m = 0 PROVE p + 2 \in 1..n /\ a < End(b, p + 2)
      <4> DEFINE x == b.chunks[p + 2]
      <4>1. a + m < total
        BY <1>1, <1>4, <3>1
      <4>2. /\ p + 2 \in 1..n /\ x.absolute = a + m /\ Len(x.bytes) \in Nat
            /\ Len(x.bytes) > 0 /\ End(b, p + 2) = x.absolute + Len(x.bytes)
        BY <4>1, NextHolds DEF Sound
      <4> HIDE DEF x, a, m, p, n
      <4> QED BY <1>1, <3>1, <4>2
    <3> QED BY <3>1
  <2>5. /\ e \in Nat /\ p + 1 <= e /\ e <= n
        /\ m = 0 => p + 2 <= e
    <3> HIDE DEF p, n, m
    <3>1. /\ p + 1 <= n
          /\ m = 0 => p + 2 <= n
          /\ p + 1 + IovecSize - first \in Int
          /\ p + 1 + IovecSize - first >= p + 1
          /\ m = 0 => p + 1 + IovecSize - first >= p + 2
      BY <1>1, <2>1, <2>4, BufferAssumption
    <3> HIDE DEF first
    <3> QED BY <1>1, <3>1 DEF Smaller
  <2> HIDE DEF e, rest
  <2>6. Streams(r, a) /\ a + Len(r) = End(b, e)
    <3>1. Reaches(rest, a, End(b, p + 1))
      BY <2>3 DEF Reaches
    <3>2. Reaches(r, a, End(b, e))
      BY <1>1, <2>5, <3>1, GatherHolds
    <3> QED BY <3>2 DEF Reaches
  <2>7. End(b, e) <= total /\ End(b, e) \in Nat
    <3>1. e \in 1..n
      BY <1>1, <2>5
    <3> QED BY <1>1, <3>1, EndsGrow, EndsTyped
  <2>8. a < End(b, e)
    <3>1. CASE m = 0
      <4>1. p + 2 \in 1..n /\ e \in 1..n /\ p + 2 <= e /\ a < End(b, p + 2)
        BY <1>1, <2>4, <2>5, <3>1
      <4>2. End(b, p + 2) <= End(b, e) /\ End(b, p + 2) \in Nat
        BY <1>1, <4>1, EndsGrow, EndsTyped
      <4> HIDE DEF a
      <4> QED BY <1>1, <2>7, <4>1, <4>2
    <3>2. CASE m # 0
      <4>1. p + 1 \in 1..n /\ e \in 1..n /\ p + 1 <= e
        BY <1>1, <2>3, <2>5
      <4>2. End(b, p + 1) <= End(b, e) /\ End(b, p + 1) \in Nat
        BY <1>1, <4>1, EndsGrow, EndsTyped
      <4> HIDE DEF a, m
      <4> QED BY <1>1, <2>3, <2>7, <3>2, <4>2
    <3> QED BY <3>1, <3>2
  <2> HIDE DEF f, r, a
  <2>9. Len(f) \in Nat
    BY <1>2, <2>2, <2>6
  <2> QED BY <1>1, <2>2, <2>6, <2>7, <2>8, <2>9 DEF f, a
<1> QED BY <1>3, <1>4

\* What is before a cursor, as ReadsStream has it.
Unread(a, m) == [i \in 1..m |-> a + i]

LEMMA UnreadStreams ==
  ASSUME NEW a \in Nat, NEW m \in Nat
  PROVE  Streams(Unread(a, m), a) /\ Len(Unread(a, m)) = m
<1>1. \A i \in 1..m : a + i \in Nat
  OBVIOUS
<1>2. Unread(a, m) \in [1..m -> Nat]
  BY <1>1 DEF Unread
<1>3. Unread(a, m) \in Seq(Nat) /\ Len(Unread(a, m)) = m
  BY <1>2
<1> QED BY <1>3 DEF Unread, Streams

LEMMA StreamsSame ==
  ASSUME NEW a \in Nat, NEW s, NEW t, Streams(s, a), Streams(t, a), Len(s) = Len(t)
  PROVE  s = t
BY DEF Streams

LEMMA StreamsPrefix ==
  ASSUME NEW a \in Nat, NEW s, NEW t, Streams(s, a), Streams(t, a), Len(s) <= Len(t)
  PROVE  IsPrefix(s, t)
<1> DEFINE l == Len(s)
           p == Cut(s, 0, l)
           q == Cut(t, 0, l)
<1>1. s \in Seq(Nat) /\ t \in Seq(Nat) /\ l \in Nat /\ 0 <= l /\ l <= l /\ 0 \in Nat
      /\ l <= Len(t)
  BY DEF Streams
<1>2. a + 0 = a /\ 0 + 1 = 1
  OBVIOUS
<1> HIDE DEF l
<1>3. Streams(p, a + 0)
  BY <1>1, CutStreams DEF l
<1>4. Streams(q, a + 0)
  BY <1>1, CutStreams
<1>5. IsCut(p, s, 0, l) /\ IsCut(q, t, 0, l)
  BY <1>1, CutKeeps DEF l
<1>6. Len(p) = Len(q)
  BY <1>5 DEF IsCut
<1>7. p = q
  <2> HIDE DEF p, q
  <2> QED BY <1>2, <1>3, <1>4, <1>6, StreamsSame
<1>8. SubSeq(s, 1, l) = SubSeq(t, 1, l)
  BY <1>2, <1>7 DEF Cut
<1> QED BY <1>8 DEF IsPrefix, l

\* However the cursor is asked, it gives the bytes of unread.
ReadAs(b, c, unread) ==
  /\ LeftSize(b, c) = Len(unread)
  /\ Get(b, c) = unread
  /\ IsPrefix(GetIovec(b, c), unread)
  /\ IsPrefix(Data(b, c), unread)
  /\ unread # <<>> => ContiguousSize(b, c) > 0 /\ GetIovec(b, c) # <<>>
  /\ ConsumeIn(b, c, Len(unread)).bytes = unread

\* A buffer without a gap is read as a stream is.
LEMMA SoundReads ==
  ASSUME NEW b, NEW on, NEW total, Sound(b, on, total), NEW c \in Cursors, c \in on
  PROVE  ReadAs(b, c, Unread(At(b, c), total - At(b, c)))
<1> DEFINE a == At(b, c)
           m == total - a
           unread == Unread(a, m)
<1>1. a \in Nat /\ m \in Nat /\ total \in Nat /\ LeftSize(b, c) = m /\ a + m = total
  <2>1. a \in Nat /\ total \in Nat /\ a <= total /\ LeftSize(b, c) = total - a
    BY SoundTyped
  <2> HIDE DEF a
  <2> QED BY <2>1
<1> HIDE DEF a, m
<1>2. Streams(unread, a) /\ Len(unread) = m
  BY <1>1, UnreadStreams
<1> HIDE DEF unread
<1>3. Get(b, c) = unread
  <2> DEFINE g == Get(b, c)
  <2>1. Streams(g, a) /\ Len(g) \in Nat /\ a + Len(g) = total
    BY GetHolds DEF a
  <2> HIDE DEF g
  <2>2. Len(g) = Len(unread)
    BY <1>1, <1>2, <2>1
  <2>3. g = unread
    BY <1>1, <1>2, <2>1, <2>2, StreamsSame
  <2> QED BY <2>3 DEF g
<1>4. IsPrefix(GetIovec(b, c), unread) /\ (m > 0 => GetIovec(b, c) # <<>>)
  <2> DEFINE g == GetIovec(b, c)
  <2>1. /\ Streams(g, a) /\ Len(g) \in Nat /\ a + Len(g) <= total
        /\ a < total => Len(g) > 0
    BY IovecHolds DEF a
  <2> HIDE DEF g
  <2>2. Len(g) <= Len(unread)
    BY <1>1, <1>2, <2>1
  <2>3. IsPrefix(g, unread)
    BY <1>1, <1>2, <2>1, <2>2, StreamsPrefix
  <2>4. m > 0 => Len(g) > 0
    BY <1>1, <2>1
  <2>5. g = <<>> => Len(g) = 0
    OBVIOUS
  <2>6. m > 0 => g # <<>>
    BY <2>4, <2>5
  <2> QED BY <2>3, <2>6 DEF g
<1>5. IsPrefix(Data(b, c), unread) /\ (m > 0 => ContiguousSize(b, c) > 0)
  <2> DEFINE g == Data(b, c)
             l == ContiguousSize(b, c)
  <2>1. /\ Streams(g, a) /\ Len(g) = l /\ l \in Nat /\ a + l <= total
        /\ a < total => l > 0
    BY DataHolds DEF a
  <2> HIDE DEF g, l
  <2>2. Len(g) <= Len(unread)
    BY <1>1, <1>2, <2>1
  <2>3. IsPrefix(g, unread)
    BY <1>1, <1>2, <2>1, <2>2, StreamsPrefix
  <2>4. m > 0 => l > 0
    BY <1>1, <2>1
  <2> QED BY <2>3, <2>4 DEF g, l
<1>6. unread # <<>> => m > 0
  <2>1. unread \in Seq(Nat)
    BY <1>2 DEF Streams
  <2> QED BY <1>1, <1>2, <2>1
<1>7. ConsumeIn(b, c, m).bytes = unread
  <2> DEFINE g == ConsumeIn(b, c, m).bytes
  <2>1. At(b, c) + m <= total
    BY <1>1 DEF a
  <2>2. Streams(g, a) /\ Len(g) = m
    BY <1>1, <2>1, ConsumeHolds DEF a
  <2> HIDE DEF g
  <2>3. g = unread
    BY <1>1, <1>2, <2>2, StreamsSame
  <2> QED BY <2>3 DEF g
<1>8. ReadAs(b, c, unread)
  BY <1>1, <1>2, <1>3, <1>4, <1>5, <1>6, <1>7 DEF ReadAs
<1> QED BY <1>8 DEF a, m, unread

-----------------------------------------------------------------------------
(* What the other operations keep.                                         *)

LEMMA TrimmedHolds ==
  ASSUME NEW b, NEW on, Good(b, on), NEW r, NEW now, Good(r, now), Trimmed(b, r),
         NEW total, Holding(b, total), Gapless(b)
  PROVE  Holding(r, total) /\ Gapless(r) /\ At(r, "output") = At(b, "output")
<1>1. PICK s \in Nat : /\ Shifted(b, r, s)
                       /\ s = 0 \/ Len(r.chunks) > 0
                       /\ r.previous["output"] + s = b.previous["output"]
                       /\ r.offset["output"] = b.offset["output"]
  BY DEF Trimmed
<1>2. /\ Len(b.chunks) \in Nat /\ Len(r.chunks) \in Nat /\ r.previous["output"] \in Nat
  BY GoodTyped DEF Cursors
<1>3. Holding(r, total) /\ Gapless(r)
  BY <1>1, <1>2, ShiftedHolds
<1>4. At(r, "output") = At(b, "output")
  BY <1>1, <1>2, ShiftedAt
<1> QED BY <1>3, <1>4

\* The last chunk ends where the next begins.
LEMMA OffsetOf ==
  ASSUME NEW b, NEW on, Good(b, on), NEW total, Holding(b, total)
  PROVE  AbsoluteOffset(b.chunks) = total
<1> DEFINE n == Len(b.chunks)
<1>1. n \in Nat /\ b.chunks \in Seq(ChunkRecords)
  BY GoodTyped
<1>2. CASE b.chunks = <<>>
  <2>1. n = 0
    BY <1>2
  <2>2. total = 0
    BY <2>1, EndsTyped
  <2> QED BY <1>2, <2>2 DEF AbsoluteOffset
<1>3. CASE b.chunks # <<>>
  <2>1. n > 0
    BY <1>1, <1>3
  <2>2. End(b, n) = total
    BY <2>1, EndsTyped
  <2> QED BY <1>3, <2>2 DEF AbsoluteOffset, Last, End, Used
<1> QED BY <1>2, <1>3

LEMMA ReserveHolds ==
  ASSUME NEW b, NEW on, Good(b, on), NEW total, Holding(b, total), NEW n \in Nat
  PROVE  LET r == ReserveIn(b, n)
         IN  Holding(r, total) /\ \A c \in Cursors : At(r, c) = At(b, c)
<1> DEFINE m == Len(b.chunks)
           chunk == [size |-> ChunkSize(n), bytes |-> <<>>, refs |-> b.cursors,
                     absolute |-> AbsoluteOffset(b.chunks)]
           r == AppendChunk(b, n)
<1>1. /\ b \in BufferRecords /\ b.chunks \in Seq(ChunkRecords) /\ m \in Nat
  BY GoodTyped
<1>2. CASE ~(b.chunks = <<>> \/ Available(Last(b.chunks)) < n)
  BY <1>2 DEF ReserveIn
<1>3. CASE b.chunks = <<>> \/ Available(Last(b.chunks)) < n
  <2>1. ReserveIn(b, n) = r
    BY <1>3 DEF ReserveIn
  <2>2. chunk.bytes = <<>> /\ chunk.absolute = total /\ Len(chunk.bytes) = 0
    BY OffsetOf
  <2>3. r = [b EXCEPT !.chunks = Append(b.chunks, chunk)]
    BY DEF AppendChunk
  <2> HIDE DEF chunk, r
  <2>4. /\ r.chunks = Append(b.chunks, chunk) /\ r.previous = b.previous
        /\ r.offset = b.offset
    BY <1>1, <2>3 DEF BufferRecords
  <2>5. /\ Len(r.chunks) = m + 1 /\ r.chunks[m + 1] = chunk
        /\ \A j \in 1..m : r.chunks[j] = b.chunks[j]
    BY <1>1, <2>4
  <2>6. /\ total \in Nat
        /\ \A k \in 1..m : /\ b.chunks[k].absolute \in Nat /\ Len(b.chunks[k].bytes) \in Nat
                           /\ End(b, k) \in Nat
        /\ \A k \in 1..(m - 1) : b.chunks[k + 1].absolute = End(b, k)
        /\ m > 0 => End(b, m) = total
    BY EndsTyped
  <2>7. /\ \A k \in 1..m : End(r, k) = End(b, k)
        /\ End(r, m + 1) = total
    <3>1. End(r, m + 1) = total + 0
      BY <2>2, <2>5 DEF End
    <3> QED BY <2>5, <2>6, <3>1 DEF End
  <2>8. Holding(r, total)
    <3>1. ASSUME NEW k \in 1..(m + 1)
          PROVE  \A i \in 1..Len(r.chunks[k].bytes) :
                   r.chunks[k].bytes[i] = r.chunks[k].absolute + i
      <4>1. CASE k = m + 1
        BY <2>2, <2>5, <4>1
      <4>2. CASE k # m + 1
        <5>1. k \in 1..m
          BY <1>1, <4>2
        <5> QED BY <2>5, <5>1 DEF Holding
      <4> QED BY <4>1, <4>2
    <3>2. ASSUME NEW k \in 1..m PROVE r.chunks[k + 1].absolute = End(r, k)
      <4>1. CASE k = m
        <5>1. m > 0
          BY <4>1
        <5> QED BY <2>2, <2>5, <2>6, <2>7, <4>1, <5>1
      <4>2. CASE k # m
        <5>1. k \in 1..(m - 1) /\ k + 1 \in 1..m
          BY <1>1, <4>2
        <5> QED BY <2>5, <2>6, <2>7, <5>1
      <4> QED BY <4>1, <4>2
    <3>3. m + 1 # 0 /\ (m + 1) - 1 = m
      BY <1>1
    <3> QED BY <2>5, <2>6, <2>7, <3>1, <3>2, <3>3 DEF Holding
  <2>9. ASSUME NEW c \in Cursors PROVE At(r, c) = At(b, c)
    <3> DEFINE p == b.previous[c]
    <3>1. /\ p \in Nat
          /\ b.offset[c] \in Nat
          /\ p < m \/ (p = 0 /\ m = 0 /\ b.offset[c] = 0)
      <4>1. /\ p \in Nat /\ b.offset[c] \in Nat
            /\ p = 0 \/ p < m
            /\ ~(p < m) => b.offset[c] = 0
        BY GoodTyped
      <4> QED BY <1>1, <4>1
    <3>2. CASE p < m
      <4>1. p < m + 1 /\ p + 1 \in 1..m
        BY <1>1, <3>1, <3>2
      <4>2. r.chunks[p + 1] = b.chunks[p + 1]
        BY <2>5, <4>1
      <4> QED BY <2>4, <2>5, <3>2, <4>1, <4>2 DEF At, HasChunk, Chunk
    <3>3. CASE ~(p < m)
      <4>1. p = 0 /\ m = 0 /\ b.offset[c] = 0 /\ p + 1 = m + 1 /\ p < m + 1
        BY <3>1, <3>3
      <4>2. At(r, c) = total + 0
        BY <2>2, <2>4, <2>5, <4>1 DEF At, HasChunk, Chunk
      <4>3. total = 0
        BY <4>1, EndsTyped
      <4>4. At(b, c) = 0
        BY <3>3 DEF At, HasChunk
      <4> QED BY <4>2, <4>3, <4>4
    <3> QED BY <3>2, <3>3
  <2> QED BY <2>1, <2>8, <2>9
<1> QED BY <1>2, <1>3

LEMMA FilledHolds ==
  ASSUME NEW b, NEW on, Good(b, on), b.chunks # <<>>, NEW total, Holding(b, total),
         NEW n \in Nat
  PROVE  LET r == Filled(b, total + 1, n)
         IN  Holding(r, total + n) /\ \A c \in Cursors : At(r, c) = At(b, c)
<1> DEFINE m == Len(b.chunks)
           x == b.chunks[m]
           old == x.bytes
           add == [i \in 1..n |-> (total + 1) + i - 1]
           new == Joined(old, add)
           chunk == [x EXCEPT !.bytes = new]
           r == Filled(b, total + 1, n)
<1>1. /\ b \in BufferRecords /\ b.chunks \in Seq(ChunkRecords) /\ m \in Nat
  BY GoodTyped
<1>2. m \in 1..m /\ m > 0
  BY <1>1
<1>3. /\ total \in Nat /\ x.absolute \in Nat /\ Len(old) \in Nat
      /\ x.absolute + Len(old) = total /\ Streams(old, x.absolute)
      /\ x \in ChunkRecords
  <2>1. total \in Nat /\ End(b, m) = total /\ End(b, m) = x.absolute + Len(old)
        /\ x.absolute \in Nat /\ Len(old) \in Nat
    BY <1>2, EndsTyped
  <2>2. Streams(old, x.absolute)
    BY <1>2, ChunkStreams
  <2>3. x \in ChunkRecords
    BY <1>1, <1>2, ElementOf
  <2> QED BY <2>1, <2>2, <2>3
<1>4. Streams(add, total) /\ Len(add) = n
  <2>1. \A i \in 1..n : (total + 1) + i - 1 = total + i /\ total + i \in Nat
    BY <1>3
  <2>2. add = Unread(total, n)
    BY <2>1 DEF Unread
  <2> HIDE DEF add
  <2> QED BY <1>3, <2>2, UnreadStreams
<1>5. r = [b EXCEPT !.chunks = [b.chunks EXCEPT ![m] = chunk]]
  BY DEF Filled, Joined
<1> HIDE DEF add, r
<1>6. /\ Streams(new, x.absolute) /\ x.absolute + Len(new) = total + n
  <2> DEFINE y == x.absolute
  <2>1. Streams(add, y + Len(old)) /\ Streams(old, y) /\ y \in Nat
    BY <1>3, <1>4
  <2>2. y + Len(old) = total /\ total \in Nat /\ Len(old) \in Nat
    BY <1>3
  <2> HIDE DEF old, y
  <2>3. Streams(new, y) /\ Len(new) = Len(old) + Len(add)
    BY <2>1, JoinedStreams
  <2>4. y + Len(new) = total + n
    BY <1>4, <2>1, <2>2, <2>3
  <2> QED BY <2>3, <2>4 DEF y
<1> HIDE DEF new
<1>7. chunk.bytes = new /\ chunk.absolute = x.absolute
  BY <1>3 DEF ChunkRecords
<1> HIDE DEF chunk
<1>8. /\ r.chunks = [b.chunks EXCEPT ![m] = chunk] /\ r.previous = b.previous
      /\ r.offset = b.offset
  BY <1>1, <1>5 DEF BufferRecords
<1>9. /\ Len(r.chunks) = m /\ r.chunks[m] = chunk
      /\ \A j \in 1..m : j # m => r.chunks[j] = b.chunks[j]
  BY <1>1, <1>2, <1>8
<1>10. \A j \in 1..m : r.chunks[j].absolute = b.chunks[j].absolute
  <2>1. ASSUME NEW j \in 1..m PROVE r.chunks[j].absolute = b.chunks[j].absolute
    <3>1. CASE j = m
      BY <1>7, <1>9, <3>1
    <3>2. CASE j # m
      BY <1>9, <3>2
    <3> QED BY <3>1, <3>2
  <2> QED BY <2>1
<1>11. Holding(r, total + n)
  <2>1. ASSUME NEW k \in 1..m
        PROVE  \A i \in 1..Len(r.chunks[k].bytes) :
                 r.chunks[k].bytes[i] = r.chunks[k].absolute + i
    <3>1. CASE k = m
      BY <1>6, <1>7, <1>9, <3>1 DEF Streams
    <3>2. CASE k # m
      BY <1>9, <3>2 DEF Holding
    <3> QED BY <3>1, <3>2
  <2>2. ASSUME NEW k \in 1..(m - 1) PROVE r.chunks[k + 1].absolute = End(r, k)
    <3>1. k \in 1..m /\ k + 1 \in 1..m /\ k # m
      BY <1>1
    <3>2. r.chunks[k + 1].absolute = b.chunks[k + 1].absolute /\ r.chunks[k] = b.chunks[k]
      BY <1>9, <1>10, <3>1
    <3>3. b.chunks[k + 1].absolute = End(b, k)
      BY EndsTyped
    <3>4. End(r, k) = End(b, k)
      BY <3>2 DEF End
    <3> QED BY <3>2, <3>3, <3>4
  <2>3. End(r, m) = total + n
    BY <1>6, <1>7, <1>9 DEF End
  <2>4. total + n \in Nat
    BY <1>3
  <2> QED BY <1>2, <1>9, <2>1, <2>2, <2>3, <2>4 DEF Holding
<1>12. ASSUME NEW c \in Cursors PROVE At(r, c) = At(b, c)
  <2> DEFINE p == b.previous[c]
  <2>1. p \in Nat
    BY GoodTyped
  <2>2. CASE p < m
    <3>1. p + 1 \in 1..m
      BY <1>1, <2>1, <2>2
    <3>2. r.chunks[p + 1].absolute = b.chunks[p + 1].absolute
      BY <1>10, <3>1
    <3> QED BY <1>8, <1>9, <2>2, <3>2 DEF At, HasChunk, Chunk
  <2>3. CASE ~(p < m)
    BY <1>8, <1>9, <2>3 DEF At, HasChunk
  <2> QED BY <2>2, <2>3
<1> QED BY <1>11, <1>12 DEF r

-----------------------------------------------------------------------------
(* Reading what was put in.                                                *)

\* While there was no gap, the chunks hold what was put in, but for what every
\* cursor has moved past, and a cursor is where it has moved to.
Follows ==
  /\ Sound(buffer, live, put)
  /\ \A c \in live : taken[c] = At(buffer, c)

ReadInv ==
  /\ BufferInv /\ taken \in [Cursors -> Nat]
  /\ ~gapped => Follows

LEMMA ReadInitInv ==
  BufferInit => ReadInv
<1> SUFFICES ASSUME BufferInit PROVE ReadInv
  OBVIOUS
<1>1. BufferInv
  BY BufferInitInv
<1>2. /\ buffer.chunks = <<>> /\ live = {"output"} /\ put = 0
      /\ taken = [c \in Cursors |-> 0]
  BY DEF BufferInit
<1>3. Len(buffer.chunks) = 0 /\ buffer.previous["output"] \in Nat /\ "output" \in Cursors
  <2>1. buffer.previous["output"] \in Nat
    BY <1>1, GoodTyped DEF BufferInv, Cursors
  <2> QED BY <1>2, <2>1 DEF Cursors
<1>4. Holding(buffer, 0) /\ Gapless(buffer)
  BY <1>3 DEF Holding, Gapless
<1>5. At(buffer, "output") = 0
  BY <1>3 DEF At, HasChunk
<1>6. Sound(buffer, live, put)
  BY <1>1, <1>2, <1>4 DEF Sound, BufferInv
<1>7. \A c \in live : taken[c] = At(buffer, c)
  BY <1>2, <1>3, <1>5
<1>8. taken \in [Cursors -> Nat]
  BY <1>2
<1> QED BY <1>1, <1>6, <1>7, <1>8 DEF ReadInv, Follows

LEMMA PutInReads ==
  ASSUME ReadInv, BufferInv', NEW b, Good(b, live), b.chunks # <<>>, NEW n \in Nat,
         PutIn(b, n),
         ~gapped => Holding(b, put) /\ \A c \in Cursors : At(b, c) = At(buffer, c)
  PROVE  ReadInv'
<1>1. /\ buffer' = Filled(b, put + 1, n) /\ put' = put + n /\ live' = live
      /\ taken' = taken /\ taken \in [Cursors -> Nat]
  BY DEF PutIn, ReadInv
<1>2. Good(buffer', live') /\ live \subseteq Cursors
  BY GoodTyped DEF BufferInv, ReadInv
<1>3. ASSUME ~gapped' PROVE Follows'
  <2>1. ~gapped /\ ~Gap(buffer')
    BY <1>3 DEF PutIn
  <2>2. /\ Holding(b, put) /\ \A c \in Cursors : At(b, c) = At(buffer, c)
        /\ \A c \in live : taken[c] = At(buffer, c)
    BY <2>1 DEF ReadInv, Follows
  <2>3. /\ Holding(buffer', put')
        /\ \A c \in Cursors : At(buffer', c) = At(b, c)
    BY <1>1, <2>2, FilledHolds
  <2>4. Gapless(buffer')
    <3>1. ASSUME NEW k \in 2..(Len(buffer'.chunks) - 1)
          PROVE  Len(buffer'.chunks[k].bytes) > 0
      <4>1. Len(buffer'.chunks) \in Nat /\ buffer'.chunks \in Seq(ChunkRecords)
        BY <1>2, GoodTyped
      <4>2. k \in 1..Len(buffer'.chunks)
        BY <4>1
      <4>3. buffer'.chunks[k].bytes \in Seq(Nat)
        BY <1>2, <2>3, <4>2, EndsTyped
      <4>4. buffer'.chunks[k].bytes # <<>>
        BY <2>1 DEF Gap
      <4> QED BY <4>3, <4>4
    <3> QED BY <3>1 DEF Gapless
  <2>5. Sound(buffer', live', put')
    BY <1>2, <2>3, <2>4 DEF Sound
  <2>6. \A c \in live' : taken'[c] = At(buffer', c)
    BY <1>1, <1>2, <2>2, <2>3
  <2> QED BY <2>5, <2>6 DEF Follows
<1> QED BY <1>1, <1>3 DEF ReadInv

\* A cursor moves on by n.
LEMMA AdvancedReads ==
  ASSUME ReadInv, BufferInv', NEW c \in Cursors, c \in live, NEW n \in Nat,
         taken' = [taken EXCEPT ![c] = @ + n], UNCHANGED <<live, gapped, put>>,
         ~gapped => Advanced(buffer, buffer', live, c, put, n)
  PROVE  ReadInv'
<1>1. taken \in [Cursors -> Nat] /\ live \subseteq Cursors
  BY GoodTyped DEF ReadInv, BufferInv
<1>2. taken' \in [Cursors -> Nat]
  BY <1>1
<1>3. ASSUME ~gapped' PROVE Follows'
  <2>1. /\ Sound(buffer', live, put) /\ At(buffer', c) = At(buffer, c) + n
        /\ \A d \in live \ {c} : At(buffer', d) = At(buffer, d)
    BY <1>3 DEF Advanced
  <2>2. \A d \in live : taken[d] = At(buffer, d)
    BY <1>3 DEF ReadInv, Follows
  <2>3. ASSUME NEW d \in live PROVE taken'[d] = At(buffer', d)
    <3>1. CASE d = c
      BY <1>1, <2>1, <2>2, <3>1
    <3>2. CASE d # c
      BY <1>1, <2>1, <2>2, <3>2
    <3> QED BY <3>1, <3>2
  <2> QED BY <2>1, <2>3 DEF Follows
<1> QED BY <1>2, <1>3 DEF ReadInv

LEMMA WithinReach ==
  ASSUME Follows, NEW c \in Cursors, NEW n \in Nat, n <= LeftSize(buffer, c)
  PROVE  At(buffer, c) + n <= put
<1>1. /\ LeftSize(buffer, c) = put - At(buffer, c)
      /\ At(buffer, c) \in Nat /\ put \in Nat
  BY SoundTyped DEF Follows
<1> QED BY <1>1

LEMMA IncrementReads ==
  ASSUME ReadInv, BufferInv', NEW c \in Cursors, NEW n \in Nat, Increment(c, n)
  PROVE  ReadInv'
<1>1. /\ buffer' = IncrementIn(buffer, c, n) /\ c \in live /\ n <= LeftSize(buffer, c)
      /\ taken' = [taken EXCEPT ![c] = @ + n] /\ UNCHANGED <<live, gapped, put>>
  BY DEF Increment
<1>2. ASSUME ~gapped PROVE Advanced(buffer, buffer', live, c, put, n)
  <2>1. Follows
    BY <1>2 DEF ReadInv
  <2>2. Sound(buffer, live, put) /\ At(buffer, c) + n <= put
    BY <1>1, <2>1, WithinReach DEF Follows
  <2> QED BY <1>1, <2>2, IncrementHolds
<1> QED BY <1>1, <1>2, AdvancedReads

LEMMA ReadNextInv ==
  ReadInv /\ [BufferNext]_bufferVars => ReadInv'
<1> SUFFICES ASSUME ReadInv, [BufferNext]_bufferVars PROVE ReadInv'
  OBVIOUS
<1>1. /\ Good(buffer, live) /\ put \in Nat /\ BufferInv /\ BufferInv'
      /\ taken \in [Cursors -> Nat]
  BY BufferNextInv DEF ReadInv, BufferInv
<1>2. ASSUME NEW size \in Nat, NEW n \in Nat, PutIn(ReserveIn(buffer, size), n)
      PROVE  ReadInv'
  <2>1. Good(ReserveIn(buffer, size), live) /\ ReserveIn(buffer, size).chunks # <<>>
    BY <1>1, ReserveGood
  <2>2. ASSUME ~gapped
        PROVE  /\ Holding(ReserveIn(buffer, size), put)
               /\ \A c \in Cursors : At(ReserveIn(buffer, size), c) = At(buffer, c)
    <3>1. Holding(buffer, put)
      BY <2>2 DEF ReadInv, Follows, Sound
    <3> QED BY <1>1, <3>1, ReserveHolds
  <2> QED BY <1>1, <1>2, <2>1, <2>2, PutInReads
<1>3. ASSUME NEW reserved \in 1..MaxRequest, NEW n \in 0..MaxRequest, Input(reserved, n)
      PROVE  ReadInv'
  <2>1. PutIn(ReserveIn(buffer, reserved), n) /\ reserved \in Nat /\ n \in Nat
    BY <1>3, BufferAssumption DEF Input
  <2> QED BY <1>2, <2>1
<1>4. ASSUME NEW n \in 1..MaxBytes, SocketRead(n) PROVE ReadInv'
  <2>1. PutIn(buffer, n) /\ buffer.chunks # <<>> /\ n \in Nat
    BY <1>4, BufferAssumption DEF SocketRead
  <2>2. ~gapped => Holding(buffer, put)
    BY DEF ReadInv, Follows, Sound
  <2> QED BY <1>1, <2>1, <2>2, PutInReads
<1>5. ASSUME NEW size \in 1..MaxRequest, NEW n \in 0..MaxBytes, DeviceRead(size, n)
      PROVE  ReadInv'
  <2>1. PutIn(ReserveIn(buffer, size), n) /\ size \in Nat /\ n \in Nat
    BY <1>5, BufferAssumption DEF DeviceRead
  <2> QED BY <1>2, <2>1
<1>6. ASSUME NEW c \in Cursors, NEW n \in 1..MaxBytes, Increment(c, n) PROVE ReadInv'
  <2>1. n \in Nat
    BY BufferAssumption
  <2> QED BY <1>1, <1>6, <2>1, IncrementReads
<1>7. ASSUME NEW c \in Cursors, NEW n \in 1..MaxBytes, Consume(c, n) PROVE ReadInv'
  <2>1. /\ buffer' = ConsumeIn(buffer, c, n).b /\ c \in live /\ n <= LeftSize(buffer, c)
        /\ taken' = [taken EXCEPT ![c] = @ + n] /\ UNCHANGED <<live, gapped, put>>
        /\ n \in Nat
    BY <1>7, BufferAssumption DEF Consume
  <2>2. ASSUME ~gapped PROVE Advanced(buffer, buffer', live, c, put, n)
    <3>1. Follows
      BY <2>2 DEF ReadInv
    <3>2. Sound(buffer, live, put) /\ At(buffer, c) + n <= put
      BY <2>1, <3>1, WithinReach DEF Follows
    <3> QED BY <2>1, <3>2, ConsumeHolds
  <2> QED BY <1>1, <2>1, <2>2, AdvancedReads
<1>8. ASSUME WriteOut PROVE ReadInv'
  <2> DEFINE n == Len(GetIovec(buffer, "output"))
  <2>1. "output" \in Cursors
    BY DEF Cursors
  <2>2. GetIovec(buffer, "output") \in Seq(Nat)
    BY <1>1, <2>1, BufferAssumption, IovecTyped
  <2>3. n \in Nat /\ Increment("output", n)
    BY <1>8, <2>2 DEF WriteOut
  <2> HIDE DEF n
  <2> QED BY <1>1, <2>1, <2>3, IncrementReads
<1>9. ASSUME CopyCursor PROVE ReadInv'
  <2>1. /\ buffer' = ReferenceFrom(buffer) /\ live' = Cursors /\ put' = put
        /\ "copy" \notin live /\ gapped' = gapped
        /\ taken' = [taken EXCEPT !["copy"] = taken["output"]]
    BY <1>9 DEF CopyCursor
  <2>2. live = {"output"} /\ Cursors = {"output", "copy"} /\ "output" # "copy"
    BY <1>1, <2>1 DEF Good, Cursors
  <2>3. /\ Good(buffer', live') /\ Trimmed(buffer, buffer')
        /\ buffer'.previous["copy"] = buffer'.previous["output"]
        /\ buffer'.offset["copy"] = buffer'.offset["output"]
    BY <1>1, <2>1, <2>2, ReferenceGood
  <2>4. /\ taken' \in [Cursors -> Nat] /\ taken'["output"] = taken["output"]
        /\ taken'["copy"] = taken["output"]
    BY <1>1, <2>1, <2>2
  <2>5. ASSUME ~gapped' PROVE Follows'
    <3>1. Holding(buffer, put) /\ Gapless(buffer) /\ taken["output"] = At(buffer, "output")
      BY <2>1, <2>2, <2>5 DEF ReadInv, Follows, Sound
    <3>2. /\ Holding(buffer', put) /\ Gapless(buffer')
          /\ At(buffer', "output") = At(buffer, "output")
      BY <1>1, <2>3, <3>1, TrimmedHolds
    <3>3. At(buffer', "copy") = At(buffer', "output")
      BY <2>3 DEF At, HasChunk, Chunk
    <3>4. Sound(buffer', live', put')
      BY <2>1, <2>3, <3>2 DEF Sound
    <3>5. \A c \in live' : taken'[c] = At(buffer', c)
      BY <2>1, <2>2, <2>4, <3>1, <3>2, <3>3
    <3> QED BY <3>4, <3>5 DEF Follows
  <2> QED BY <1>1, <2>4, <2>5 DEF ReadInv
<1>10. ASSUME DropCopy PROVE ReadInv'
  <2> DEFINE r == [UnreferenceFrom(buffer) EXCEPT !.previous["copy"] = 0,
                                                  !.offset["copy"] = 0]
  <2>1. /\ buffer' = r /\ live' = {"output"} /\ put' = put /\ "copy" \in live
        /\ gapped' = gapped /\ taken' = [taken EXCEPT !["copy"] = 0]
    BY <1>10 DEF DropCopy
  <2>2. live = Cursors /\ Cursors = {"output", "copy"} /\ "output" # "copy"
    BY <1>1, <2>1 DEF Good, Cursors
  <2>3. Good(r, {"output"}) /\ Trimmed(buffer, r)
    BY <1>1, <2>2, DropGood
  <2> HIDE DEF r
  <2>4. taken' \in [Cursors -> Nat] /\ taken'["output"] = taken["output"]
    BY <1>1, <2>1, <2>2
  <2>5. ASSUME ~gapped' PROVE Follows'
    <3>1. Holding(buffer, put) /\ Gapless(buffer) /\ taken["output"] = At(buffer, "output")
      BY <2>1, <2>2, <2>5 DEF ReadInv, Follows, Sound
    <3>2. /\ Holding(r, put) /\ Gapless(r) /\ At(r, "output") = At(buffer, "output")
      BY <1>1, <2>3, <3>1, TrimmedHolds
    <3>3. Sound(buffer', live', put')
      BY <2>1, <2>3, <3>2 DEF Sound
    <3>4. \A c \in live' : taken'[c] = At(buffer', c)
      BY <2>1, <2>4, <3>1, <3>2
    <3> QED BY <3>3, <3>4 DEF Follows
  <2> QED BY <1>1, <2>4, <2>5 DEF ReadInv
<1>11. ASSUME UNCHANGED bufferVars PROVE ReadInv'
  BY <1>11 DEF ReadInv, Follows, BufferInv, bufferVars
<1> QED BY <1>3, <1>4, <1>5, <1>6, <1>7, <1>8, <1>9, <1>10, <1>11 DEF BufferNext

LEMMA InvReads ==
  ReadInv => ReadsStream
<1> SUFFICES ASSUME ReadInv, ~gapped, NEW c \in live
             PROVE  ReadAs(buffer, c, [i \in 1..(put - taken[c]) |-> taken[c] + i])
  BY DEF ReadsStream, ReadAs
<1>1. Sound(buffer, live, put) /\ taken[c] = At(buffer, c) /\ c \in Cursors
  BY GoodTyped DEF ReadInv, Follows, BufferInv
<1>2. ReadAs(buffer, c, Unread(taken[c], put - taken[c]))
  BY <1>1, SoundReads
<1> QED BY <1>2 DEF Unread

\* Every cursor reads the bytes that were put in and that it has not yet moved
\* past, all of them and in order, in whichever way it is asked for them, while
\* there was no gap; and they are there still, whatever the other cursor did.
THEOREM CursorsRead == BufferSpec => []ReadsStream
<1>1. BufferInit => ReadInv
  BY ReadInitInv
<1>2. ReadInv /\ [BufferNext]_bufferVars => ReadInv'
  BY ReadNextInv
<1>3. ReadInv => ReadsStream
  BY InvReads
<1> QED BY <1>1, <1>2, <1>3, PTL DEF BufferSpec
=============================================================================
