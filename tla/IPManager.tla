----------------------------- MODULE IPManager -----------------------------
(***************************************************************************)
(* The server's IP address manager (src/src/ip-manager.cc) over the range  *)
(* arithmetic it uses (IPRange, src/src/ip-addresses.cc).                  *)
(*                                                                         *)
(* An address is its distance from the network address of the range, an    *)
(* index a position of the vector used_.  The vector grows lazily: slots   *)
(* is its length, used the positions that hold true.                       *)
(***************************************************************************)
EXTENDS Integers

CONSTANTS Size,      \* range_.Size(): the number of usable addresses
          Holders,   \* the tunnel sessions, and the server's own endpoint
          NoAddress  \* a null IPAddress pointer

\* FindUsableRange offers the private /8, /12 and /16 networks only.
ASSUME SizeAssumption == Size \in Nat \ {0}
ASSUME NoAddressAssumption == NoAddress \notin 1..Size

VARIABLES slots,  \* used_.size()
          used,   \* {i : used_[i]}
          index,  \* index_
          holds   \* holds[h]: the address object h owns, or NoAddress

vars == <<slots, used, index, holds>>

Indexes == 0..(Size - 1)
Addresses == 1..Size

-----------------------------------------------------------------------------
\* IPRange::GetAddressIndex: address_ incremented by index + 1.
GetAddressIndex(i) == i + 1

\* IPRange::GetIndexAddress: which addresses it accepts, and their index.
HasIndex(a) == 0 < a /\ a < Size
GetIndexAddressUnshifted(a) == a  \* mutation
GetIndexAddress(a) == a - 1

\* AllocateIP makes used_[index_] exist before it looks at it.
ResizedTooLate == IF slots < index THEN index + 1 ELSE slots  \* mutation
Resized == IF slots <= index THEN index + 1 ELSE slots

\* The position FindUsableIndex looks at after i steps of IncrementIndex.
ProbeUnwrapped(i) == index + i  \* mutation
Probe(i) == (index + i) % Size

\* The loop of FindUsableIndex gets as far as its ith position.
Reached(i) == \A j \in 0..(i - 1) : Probe(j) \in used

\* ... and stops there.
UsableUnchecked(i) == i = 0  \* mutation: used_[index_] is not looked at
Usable(i) == Reached(i) /\ Probe(i) \notin used

-----------------------------------------------------------------------------
Init == /\ slots = 0
        /\ used = {}
        /\ index = 0
        /\ holds = [h \in Holders |-> NoAddress]

\* AllocateIP finds a usable index, marks it and moves past it.
AllocateIP(h) ==
  /\ holds[h] = NoAddress
  /\ slots' = Resized
  /\ \E i \in Indexes :
       /\ Usable(i)
       /\ used' = used \union {Probe(i)}
       /\ index' = (Probe(i) + 1) % Size
       /\ holds' = [holds EXCEPT ![h] = GetAddressIndex(Probe(i))]

\* AllocateIP returns NULL: every probe hit a used position, and Size steps
\* of IncrementIndex brought index_ back to where it was.
AllocateIPFails(h) ==
  /\ holds[h] = NoAddress
  /\ \A i \in Indexes : ~Usable(i)
  /\ slots' = Resized
  /\ UNCHANGED <<used, index, holds>>

\* ReturnIP frees the index of an address; it refuses an address it finds no
\* index for or whose index is not in use, and its caller, the destructor of
\* the tunnel session, ignores the result.
ReturnIP(h) ==
  /\ holds[h] # NoAddress
  /\ used' = IF HasIndex(holds[h]) /\ GetIndexAddress(holds[h]) < slots
             THEN used \ {GetIndexAddress(holds[h])} ELSE used
  /\ holds' = [holds EXCEPT ![h] = NoAddress]
  /\ UNCHANGED <<slots, index>>

Next == \E h \in Holders :
          AllocateIP(h) \/ AllocateIPFails(h) \/ ReturnIP(h)

Spec == Init /\ [][Next]_vars

-----------------------------------------------------------------------------
TypeOK == /\ slots \in 0..Size
          /\ used \subseteq Indexes
          /\ index \in Indexes
          /\ holds \in [Holders -> Addresses \union {NoAddress}]

\* No two tunnel endpoints are ever given the same address, however many
\* addresses were returned in between and wherever index_ has wrapped to
\* (AllocateIP, ip-manager.cc:72-83).
Exclusive ==
  \A g, h \in Holders :
    holds[g] = holds[h] /\ holds[g] # NoAddress => g = h

\* An address in somebody's hands is marked, so AllocateIP cannot find it
\* again before it is returned.
HeldIsMarked ==
  \A h \in Holders : holds[h] # NoAddress => holds[h] - 1 \in used

\* The loop of FindUsableIndex walks index_ forward but AllocateIP has resized
\* used_ only for the position it starts from: whatever position the loop
\* reads, used_ must already have it (ip-manager.cc:58-66, 73-76).
ReadsInBounds ==
  \A i \in Indexes : Reached(i) => Probe(i) < Resized

\* The manager implements the pool, whose last address cannot be given back:
\* GetIndexAddress refuses the distance Size() (ip-addresses.cc:258), which
\* GetAddressIndex(Size() - 1) produces.
Abstract == INSTANCE AddressPool
          WITH Pool <- Addresses, Returnable <- 1..(Size - 1),
               taken <- {GetAddressIndex(i) : i \in used}, grant <- holds
ImplementsPool == Abstract!PoolSpec

\* What callers of ReturnIP rely on: every address goes back.
Whole == INSTANCE AddressPool
          WITH Pool <- Addresses, Returnable <- Addresses,
               taken <- {GetAddressIndex(i) : i \in used}, grant <- holds
ImplementsWholePool == Whole!PoolSpec
=============================================================================
