------------------------------ MODULE IPRanges ------------------------------
(***************************************************************************)
(* Addresses and ranges (ip-addresses.cc), and the choice of the range a   *)
(* server gives its clients when it is not told one, against the routes of *)
(* the host (FindUsableRange, ip-manager.cc).                              *)
(*                                                                         *)
(* An IPv4 address is one machine word, an IPv6 address four, the most     *)
(* significant first.  Word stands for 32 bits.                            *)
(***************************************************************************)
EXTENDS Integers, Sequences, FiniteSets, SequencesExt

CONSTANTS Word,      \* bits of a word, of an int and of an IPv4 address
          Attempts,  \* the private networks in the order they are tried, as
                     \* <<address, cidr>>
          MaxRoutes, \* bound on the routes of the host
          Samples    \* the words IPv6 addresses are made of here

VARIABLES
  routes,  \* the destinations in the host's routing table
  result,  \* the range FindUsableRange has found, or NoRange
  words    \* an IPv6 address; a behaviour has one or IPv4 routes, not both

rangeVars == <<routes, result, words>>

\* The powers of two, 1 << k.
TwoTo[k \in 0..(4 * Word)] == IF k = 0 THEN 1 ELSE 2 * TwoTo[k - 1]

Modulus == TwoTo[Word]
Addresses4 == 0..(Modulus - 1)
Words == 0..(Modulus - 1)
Addresses6 == [1..4 -> Samples]

ASSUME WordAssumption == Word \in Nat \ {0} /\ Samples \subseteq Words

\* The private networks have more than one address and are not everything.
ASSUME AttemptsAssumption == Attempts \in Seq(Addresses4 \X (1..(Word - 1)))

-----------------------------------------------------------------------------
(* IPv4Address.                                                            *)

\* A word without its lowest bits.
Cleared(word, bits) == (word \div TwoTo[bits]) * TwoTo[bits]

Truncate4(a, length) == IF length = Word THEN a ELSE Cleared(a, Word - length)

Increment4(a, amount) == (a + amount) % Modulus

\* The difference as an int, which overflows where the signs do not agree.
AsInt(word) == IF word >= Modulus \div 2 THEN word - Modulus ELSE word
DifferenceOf(a, b) == AsInt((b - a) % Modulus)
HasDifference(a, b) == /\ ~(b > a /\ DifferenceOf(a, b) < 0)
                       /\ ~(b < a /\ DifferenceOf(a, b) > 0)

(* IPv6Address.                                                            *)

\* The carry of one word into the next higher one.
IncrementWordUnchecked(s, i) ==  \* mutation: the carry keeps the amount
  LET new == (s.words[i] + s.amount) % Modulus
  IN IF s.done THEN s
     ELSE [words |-> [s.words EXCEPT ![i] = new], amount |-> s.amount,
           done |-> new >= s.words[i]]
IncrementWord(s, i) ==
  LET new == (s.words[i] + s.amount) % Modulus
  IN IF s.done THEN s
     ELSE [words |-> [s.words EXCEPT ![i] = new], amount |-> 1,
           done |-> new >= s.words[i]]
Increment6(a, amount) ==
  FoldLeft(IncrementWord, [words |-> a, amount |-> amount, done |-> FALSE],
           <<4, 3, 2, 1>>).words

Truncate6(a, length) ==
  IF length = 4 * Word THEN a
  ELSE [i \in 1..4 |->
          IF i <= length \div Word THEN a[i]
          ELSE IF i = (length \div Word) + 1
               THEN Cleared(a[i], Word - (length % Word))
          ELSE 0]

-----------------------------------------------------------------------------
(* IPRange.                                                                *)

\* 1 << bits, as an int; a shift by a whole word is undefined and leaves 0 or
\* 1, and both make an empty range.  The first and the last address of a
\* network are not counted.
SizeOfBits(bits) == IF bits = Word \/ bits = 0 THEN 0 ELSE TwoTo[bits] - 2

\* Parse of an address and a prefix length, which is at most Length().
Parse(a, cidr) ==
  [address |-> Truncate4(a, cidr), cidr |-> cidr, size |-> SizeOfBits(Word - cidr)]

IsOverlappingForward(r, q) ==  \* mutation: only the range that begins first
  /\ HasDifference(r.address, q.address)
  /\ DifferenceOf(r.address, q.address) \in 0..r.size
IsOverlapping(r, q) ==
  /\ HasDifference(r.address, q.address)
  /\ LET delta == DifferenceOf(r.address, q.address)
     IN delta \in 0..r.size \/ (delta < 0 /\ 0 - delta <= q.size)

\* IPManager::IsRangeOverlapping asks every route's destination.
IsRangeOverlapping(range, destinations) ==
  \E r \in destinations : IsOverlapping(r, range)

NoRange == [address |-> 0, cidr |-> 0, size |-> 0]

Attempt(i) == Parse(Attempts[i][1], Attempts[i][2])

-----------------------------------------------------------------------------
NoWords == <<>>

RangeInit == routes = {} /\ result = NoRange /\ words = NoWords

\* The host has a route.  Prefixes of the kernel are truncated already.
AddRoute(a, cidr) ==
  /\ result = NoRange /\ words = NoWords
  /\ Cardinality(routes) < MaxRoutes
  /\ Truncate4(a, cidr) = a
  /\ routes' = routes \union {Parse(a, cidr)}
  /\ UNCHANGED <<result, words>>

\* FindUsableRange swaps the first attempt that overlaps with no route into
\* the result.
FindUsableRange ==
  /\ result = NoRange /\ words = NoWords
  /\ \E i \in 1..Len(Attempts) :
       /\ ~IsRangeOverlapping(Attempt(i), routes)
       /\ \A j \in 1..(i - 1) : IsRangeOverlapping(Attempt(j), routes)
       /\ result' = Attempt(i)
  /\ UNCHANGED <<routes, words>>

\* ... and may find none.
FindsNothing ==
  /\ result = NoRange /\ words = NoWords
  /\ \A i \in 1..Len(Attempts) : IsRangeOverlapping(Attempt(i), routes)
  /\ UNCHANGED rangeVars

\* A range of IPv6 addresses is parsed.
ParseSix(a) ==
  /\ routes = {} /\ result = NoRange /\ words = NoWords
  /\ words' = a
  /\ UNCHANGED <<routes, result>>

RangeNext ==
  \/ \E a \in Addresses4, cidr \in 0..Word : AddRoute(a, cidr)
  \/ FindUsableRange \/ FindsNothing
  \/ \E a \in Addresses6 : ParseSix(a)

RangeSpec == RangeInit /\ [][RangeNext]_rangeVars

-----------------------------------------------------------------------------
First(r) == r.address
LastOf(r) == r.address + TwoTo[Word - r.cidr] - 1
Share(r, q) == First(r) <= LastOf(q) /\ First(q) <= LastOf(r)

\* The range that was found has no address in common with a route of the host,
\* but for two kinds of route that IsOverlapping does not see: the default
\* route, whose size comes out as 0, and a route to the very last address of
\* the range, which size_ leaves out (ip-addresses.cc:91-113, 152-184).
ChosenIsFree ==
  result # NoRange =>
    \A r \in routes : Share(r, result) => r.cidr = 0 \/ First(r) = LastOf(result)

ValueOf(a) == FoldLeft(LAMBDA n, w : n * Modulus + w, 0, a)

\* Four words are counted up and cut like the one number they stand for:
\* carries reach as far as they must, whatever is added at whatever address.
WordsAreNumbers ==
  words # NoWords =>
  /\ \A n \in Words :
       ValueOf(Increment6(words, n)) = (ValueOf(words) + n) % TwoTo[4 * Word]
  /\ \A n \in 0..(4 * Word) :
       ValueOf(Truncate6(words, n)) = Cleared(ValueOf(words), 4 * Word - n)
=============================================================================
