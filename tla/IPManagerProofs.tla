-------------------------- MODULE IPManagerProofs --------------------------
(***************************************************************************)
(* The invariants of IPManager, for every size of the range and every set  *)
(* of holders, and that it implements AddressPool.                         *)
(***************************************************************************)
EXTENDS IPManager, TLAPS

\* What walking index_ around the range amounts to.
LEMMA ModRange ==
  ASSUME NEW a \in Int PROVE a % Size \in Indexes
BY SizeAssumption DEF Indexes

LEMMA ModSmall ==
  ASSUME NEW a \in Indexes PROVE a % Size = a
BY SizeAssumption DEF Indexes

LEMMA ModSize == Size % Size = 0
BY SizeAssumption

\* A longer vector has every position of a shorter one.
LEMMA RangeGrows ==
  ASSUME NEW m \in Int, NEW n \in Int, m <= n
  PROVE  0..(m - 1) \subseteq 0..(n - 1)
OBVIOUS

-----------------------------------------------------------------------------
\* used_ ends either at the position index_ has reached for the first time or
\* at the end of the range: this is what makes the lazy resize sufficient.
Grown == slots = Size \/ slots = index

\* Nothing beyond the end of used_ is in use.
UsedInSlots == used \subseteq 0..(slots - 1)

IInv == TypeOK /\ Grown /\ UsedInSlots /\ Exclusive /\ HeldIsMarked

LEMMA InitIInv == Init => IInv
BY SizeAssumption
   DEF Init, IInv, TypeOK, Grown, UsedInSlots, Exclusive, HeldIsMarked,
       Indexes, Addresses

\* Every position looked at is one of the range.
LEMMA ProbeRange ==
  ASSUME TypeOK, NEW i \in Indexes PROVE Probe(i) \in Indexes
<1>1. index + i \in Int
  BY SizeAssumption DEF TypeOK, Indexes
<1> QED BY <1>1, ModRange DEF Probe

\* The first position looked at is index_ itself.
LEMMA ProbeFirst == ASSUME TypeOK PROVE Probe(0) = index
BY ModSmall, SizeAssumption DEF TypeOK, Probe, Indexes

\* While used_ has not grown to the whole range, index_ is free.
LEMMA FirstUsable ==
  ASSUME IInv, slots = index PROVE Usable(0)
<1>1. Reached(0)
  BY DEF Reached
<1>2. index \notin used
  BY DEF IInv, UsedInSlots, TypeOK, Indexes
<1> QED BY <1>1, <1>2, ProbeFirst DEF Usable, IInv

\* The loop of FindUsableIndex never reads past the end of used_.
LEMMA IInvReads == ASSUME IInv PROVE ReadsInBounds
<1> SUFFICES ASSUME NEW i \in Indexes, Reached(i)
             PROVE  Probe(i) < Resized
  BY DEF ReadsInBounds
<1> USE SizeAssumption
<1>1. CASE slots = Size
  <2>1. Resized = Size
    BY <1>1 DEF Resized, IInv, TypeOK, Indexes
  <2>2. Probe(i) \in Indexes
    BY ProbeRange DEF IInv
  <2> QED BY <2>1, <2>2 DEF Indexes
<1>2. CASE slots = index
  <2>1. Probe(0) = index /\ index \notin used
    BY <1>2, ProbeFirst DEF IInv, UsedInSlots, TypeOK, Indexes
  <2>2. i = 0
    BY <2>1 DEF Reached, Indexes
  <2> QED BY <1>2, <2>1, <2>2 DEF Resized, IInv, TypeOK, Indexes
<1> QED BY <1>1, <1>2 DEF IInv, Grown

LEMMA AllocateIInv ==
  ASSUME IInv, NEW h \in Holders, AllocateIP(h) PROVE IInv'
<1> USE SizeAssumption
<1>1. PICK i \in Indexes :
        /\ Usable(i)
        /\ used' = used \union {Probe(i)}
        /\ index' = (Probe(i) + 1) % Size
        /\ holds' = [holds EXCEPT ![h] = GetAddressIndex(Probe(i))]
  BY DEF AllocateIP
<1> DEFINE p == Probe(i)
<1>2. p \in Indexes /\ p \notin used
  BY <1>1, ProbeRange DEF Usable, IInv
<1>3. slots' = Resized
  BY DEF AllocateIP
<1>4. slots' \in 0..Size /\ p < slots' /\ slots <= slots'
  BY <1>1, <1>3, IInvReads
     DEF ReadsInBounds, Usable, Resized, IInv, TypeOK, Indexes
<1>5. TypeOK'
  <2>1. index' \in Indexes
    <3>1. p + 1 \in Int
      BY <1>2 DEF Indexes
    <3> QED BY <1>1, <3>1, ModRange
  <2>2. GetAddressIndex(p) \in Addresses
    BY <1>2 DEF GetAddressIndex, Addresses, Indexes
  <2> QED BY <1>1, <1>2, <1>4, <2>1, <2>2 DEF IInv, TypeOK
<1>6. Grown'
  <2>1. CASE slots = Size
    BY <1>3, <2>1 DEF Resized, Grown, IInv, TypeOK, Indexes
  <2>2. CASE slots = index
    <3>1. p = index
      <4>1. i = 0
        BY <1>1, <2>2, FirstUsable DEF Usable, Reached, Indexes
      <4> QED BY <4>1, ProbeFirst DEF IInv
    <3>2. slots' = index + 1 /\ index' = (index + 1) % Size
      BY <1>1, <1>3, <2>2, <3>1 DEF Resized, IInv, TypeOK, Indexes
    <3>3. CASE index + 1 = Size
      BY <3>2, <3>3 DEF Grown
    <3>4. CASE index + 1 # Size
      BY <3>2, <3>4, ModSmall DEF Grown, IInv, TypeOK, Indexes
    <3> QED BY <3>3, <3>4
  <2> QED BY <2>1, <2>2 DEF IInv, Grown
<1>7. UsedInSlots'
  <2>1. p \in 0..(slots' - 1)
    BY <1>2, <1>4 DEF Indexes
  <2>2. 0..(slots - 1) \subseteq 0..(slots' - 1)
    <3>1. slots \in Int /\ slots' \in Int /\ slots <= slots'
      BY <1>4 DEF IInv, TypeOK
    <3> QED BY <3>1, RangeGrows
  <2> QED BY <1>1, <2>1, <2>2 DEF UsedInSlots, IInv
<1>8. Exclusive' /\ HeldIsMarked'
  BY <1>1, <1>2, NoAddressAssumption
     DEF Exclusive, HeldIsMarked, GetAddressIndex, IInv, TypeOK, Indexes,
         Addresses
<1> QED BY <1>5, <1>6, <1>7, <1>8 DEF IInv

LEMMA FailIInv ==
  ASSUME IInv, NEW h \in Holders, AllocateIPFails(h) PROVE IInv'
<1> USE SizeAssumption
<1>1. slots = Size
  BY FirstUsable DEF AllocateIPFails, IInv, Grown, Indexes
<1>2. slots' = slots
  BY <1>1 DEF AllocateIPFails, Resized, IInv, TypeOK, Indexes
<1> QED BY <1>2
        DEF AllocateIPFails, IInv, TypeOK, Grown, UsedInSlots, Exclusive,
            HeldIsMarked

LEMMA ReturnIInv ==
  ASSUME IInv, NEW h \in Holders, ReturnIP(h) PROVE IInv'
<1> USE SizeAssumption, NoAddressAssumption
<1>1. used' \subseteq used
  BY DEF ReturnIP
<1>2. TypeOK' /\ Grown' /\ UsedInSlots'
  BY <1>1 DEF ReturnIP, IInv, TypeOK, Grown, UsedInSlots, Addresses
<1>3. Exclusive'
  BY DEF ReturnIP, IInv, TypeOK, Exclusive
<1>4. HeldIsMarked'
  <2> SUFFICES ASSUME NEW g \in Holders, holds'[g] # NoAddress
               PROVE  holds'[g] - 1 \in used'
    BY DEF HeldIsMarked
  <2>1. g # h /\ holds'[g] = holds[g]
    BY DEF ReturnIP, IInv, TypeOK
  <2>2. holds[g] # holds[h]
    BY <2>1 DEF ReturnIP, IInv, Exclusive
  <2>3. holds[g] - 1 \in used /\ holds[g] \in 1..Size /\ holds[h] \in 1..Size
    BY <2>1 DEF ReturnIP, IInv, TypeOK, HeldIsMarked, Addresses
  <2> QED BY <2>1, <2>2, <2>3 DEF ReturnIP, GetIndexAddress
<1> QED BY <1>2, <1>3, <1>4 DEF IInv

LEMMA NextIInv == IInv /\ [Next]_vars => IInv'
<1> SUFFICES ASSUME IInv, [Next]_vars PROVE IInv'
  OBVIOUS
<1>1. CASE Next
  BY <1>1, AllocateIInv, FailIInv, ReturnIInv DEF Next
<1>2. CASE UNCHANGED vars
  BY <1>2 DEF vars, IInv, TypeOK, Grown, UsedInSlots, Exclusive, HeldIsMarked
<1> QED BY <1>1, <1>2

THEOREM SpecIInv == Spec => []IInv
BY InitIInv, NextIInv, PTL DEF Spec

-----------------------------------------------------------------------------
\* The manager's state keeps its type: index_ always is a position of the
\* range and used_ never outgrows it.
THEOREM SpecTypeOK == Spec => []TypeOK
<1>1. IInv => TypeOK
  BY DEF IInv
<1> QED BY <1>1, SpecIInv, PTL

\* AllocateIP never hands out an address somebody holds.
THEOREM SpecExclusive == Spec => []Exclusive
<1>1. IInv => Exclusive
  BY DEF IInv
<1> QED BY <1>1, SpecIInv, PTL

\* An address in somebody's hands stays marked in used_.
THEOREM SpecHeldIsMarked == Spec => []HeldIsMarked
<1>1. IInv => HeldIsMarked
  BY DEF IInv
<1> QED BY <1>1, SpecIInv, PTL

\* FindUsableIndex reads only positions used_ has, although AllocateIP resizes
\* it for the first position only.
THEOREM SpecReadsInBounds == Spec => []ReadsInBounds
BY IInvReads, SpecIInv, PTL

-----------------------------------------------------------------------------
\* Every step of the manager is a step of the pool, or none.
LEMMA NextImplements ==
  ASSUME IInv, [Next]_vars
  PROVE  [Abstract!PoolNext]_(Abstract!poolVars)
<1> USE SizeAssumption, NoAddressAssumption
<1>1. ASSUME NEW h \in Holders, AllocateIP(h) PROVE Abstract!Grant(h)
  <2>1. PICK i \in Indexes :
          /\ Usable(i)
          /\ used' = used \union {Probe(i)}
          /\ holds' = [holds EXCEPT ![h] = GetAddressIndex(Probe(i))]
    BY <1>1 DEF AllocateIP
  <2> DEFINE a == GetAddressIndex(Probe(i))
  <2>2. Probe(i) \in Indexes /\ Probe(i) \notin used
    BY <2>1, ProbeRange DEF Usable, IInv
  <2>3. a \in Addresses
    BY <2>2 DEF GetAddressIndex, Addresses, Indexes
  <2>4. a \notin {GetAddressIndex(j) : j \in used}
    BY <2>2 DEF GetAddressIndex, IInv, TypeOK, Indexes
  <2>5. {GetAddressIndex(j) : j \in used'}
          = {GetAddressIndex(j) : j \in used} \union {a}
    BY <2>1
  <2> QED BY <1>1, <2>1, <2>3, <2>4, <2>5 DEF Abstract!Grant, AllocateIP
<1>2. ASSUME NEW h \in Holders, AllocateIPFails(h)
      PROVE  UNCHANGED Abstract!poolVars
  BY <1>2 DEF AllocateIPFails, Abstract!poolVars
<1>3. ASSUME NEW h \in Holders, ReturnIP(h) PROVE Abstract!GiveUp(h)
  <2>1. holds[h] \in 1..Size /\ holds[h] - 1 \in used
    BY <1>3 DEF ReturnIP, IInv, TypeOK, HeldIsMarked, Addresses
  <2>2. CASE holds[h] \in 1..(Size - 1)
    <3>1. used' = used \ {holds[h] - 1}
      BY <1>3, <2>1, <2>2
         DEF ReturnIP, HasIndex, GetIndexAddress, IInv, UsedInSlots, TypeOK
    <3>2. {GetAddressIndex(j) : j \in used'}
            = {GetAddressIndex(j) : j \in used} \ {holds[h]}
      BY <2>1, <3>1 DEF GetAddressIndex, IInv, TypeOK, Indexes
    <3> QED BY <1>3, <2>2, <3>2 DEF ReturnIP, Abstract!GiveUp
  <2>3. CASE holds[h] \notin 1..(Size - 1)
    BY <1>3, <2>1, <2>3 DEF ReturnIP, HasIndex, Abstract!GiveUp
  <2> QED BY <2>2, <2>3
<1>4. CASE UNCHANGED vars
  BY <1>4 DEF vars, Abstract!poolVars
<1> QED BY <1>1, <1>2, <1>3, <1>4 DEF Next, Abstract!PoolNext

\* The manager implements the pool of addresses.
THEOREM SpecImplementsPool == Spec => ImplementsPool
<1>1. Init => Abstract!PoolInit
  BY DEF Init, Abstract!PoolInit
<1>2. IInv /\ [Next]_vars => [Abstract!PoolNext]_(Abstract!poolVars)
  BY NextImplements
<1> QED BY <1>1, <1>2, SpecIInv, PTL DEF Spec, ImplementsPool, Abstract!PoolSpec
=============================================================================
