------------------------- MODULE DispatchingProofs -------------------------
(***************************************************************************)
(* What the event loop guarantees for any number of connections,           *)
(* descriptors and queued packets.                                         *)
(*                                                                         *)
(* The inductive invariant has two halves.  HandlersInv relates what the   *)
(* handlers change: descriptors, the table, masks and queues.  BatchInv    *)
(* relates the batch to it; a handler disturbs that half only in the ways  *)
(* Effects names, so each handler needs HandlersInv and Effects and the    *)
(* batch is dealt with once.                                               *)
(***************************************************************************)
EXTENDS Dispatching, TLAPS

HandlerVars == <<fd, fdEvents, mask, deleted, doomed, released, writing, packets>>

HandlersTypeOK ==
  /\ fd \in [Objects -> Fds \union {NoFd}]
  /\ fdEvents \in [Fds -> Objects \union {NoObject}]
  /\ mask \in [Objects -> SUBSET EventTypes]
  /\ deleted \subseteq Conns /\ doomed \subseteq Conns
  /\ released \subseteq Conns
  /\ writing \subseteq Conns \union {Udp, Tun}
  /\ packets \in [Objects -> 0..MaxPackets]

\* The device stays open; an object whose EpollEvent was deleted has no
\* descriptor, and one that never had any has nothing queued.
Lifetimes ==
  /\ IsOpen(Tun)
  /\ doomed \subseteq deleted /\ released \subseteq deleted
  /\ \A o \in deleted : ~IsOpen(o)
  /\ \A o \in Objects \ deleted : ~IsOpen(o) => packets[o] = 0 /\ o \notin writing

\* pending_writes_ of an open socket says what the mask of its event says.
PendingAgrees ==
  \A o \in Conns \union {Udp} :
    IsOpen(o) => (o \in writing <=> "WRITE" \in mask[o])

HandlersInv == /\ HandlersTypeOK
               /\ TableAgrees
               /\ Lifetimes
               /\ PendingAgrees
               /\ WriteArmed

\* What a batch may still say of an object.
BatchInv ==
  /\ batch \in [Objects -> SUBSET EventTypes]
  /\ midway \in Objects \union {NoObject}
  /\ \A o \in Objects :
       batch[o] # {} => o \notin released /\ (o \notin deleted => IsOpen(o))
  /\ \A o \in Objects : "WRITE" \in batch[o] /\ IsOpen(o) => packets[o] > 0
  /\ midway # NoObject => batch[midway] = {"WRITE"}

IInv == HandlersInv /\ BatchInv

\* What a read handler may do to the objects of the batch.
Effects ==
  /\ released' = released
  /\ deleted \subseteq deleted'
  /\ \A o \in Objects : IsOpen(o) => IsOpen(o)' \/ o \in deleted'
  /\ \A o \in Objects : IsOpen(o)' /\ ~IsOpen(o) => o \notin deleted
  /\ \A o \in Objects : IsOpen(o)' /\ packets[o] > 0 => packets'[o] > 0

-----------------------------------------------------------------------------
USE DEF Objects, Fds, EventTypes

LEMMA InitIInv == DispatchInit => IInv
<1> SUFFICES ASSUME DispatchInit PROVE IInv
  OBVIOUS
<1> USE ObjectsAssumption, FdsAssumption, MaxPacketsAssumption DEF DispatchInit
<1> PICK tcp \in StreamListenOn, udp \in DatagramListenOn :
         Started(tcp \union udp \union {Tun})
  OBVIOUS
<1> USE DEF Started, StreamListenOn, DatagramListenOn
<1>1. HandlersTypeOK
  BY DEF HandlersTypeOK
<1>2. TableAgrees
  BY DEF TableAgrees
<1>3. Lifetimes /\ PendingAgrees /\ WriteArmed
  BY DEF Lifetimes, PendingAgrees, WriteArmed, IsOpen
<1>4. BatchInv
  BY DEF BatchInv
<1> QED BY <1>1, <1>2, <1>3, <1>4 DEF IInv, HandlersInv

-----------------------------------------------------------------------------
(* The handlers.                                                           *)

\* The table tells who owns a descriptor, so no two objects share one.
LEMMA OwnersDiffer ==
  ASSUME HandlersTypeOK, TableAgrees,
         NEW o \in Objects, NEW p \in Objects, fd[o] = fd[p], IsOpen(o)
  PROVE  o = p
BY FdsAssumption DEF HandlersTypeOK, TableAgrees, IsOpen

LEMMA NothingKeeps ==
  ASSUME HandlersInv, NothingDone
  PROVE  HandlersInv' /\ Effects
BY DEF HandlersInv, HandlersTypeOK, TableAgrees, Lifetimes, PendingAgrees,
       WriteArmed, IsOpen, NothingDone, StaysOpen, Effects

\* Closing a socket, whatever was done to its mask and pending_writes_.
LEMMA CloseKeeps ==
  ASSUME HandlersInv, NEW c \in Conns, CloseFd(c),
         mask' \in [Objects -> SUBSET EventTypes],
         writing' \subseteq Conns \union {Udp, Tun},
         \A o \in Objects \ {c} : mask'[o] = mask[o],
         writing' \ {c} = writing \ {c},
         IsOpen(c) \/ c \in deleted,
         UNCHANGED packets
  PROVE  HandlersInv' /\ Effects
<1> USE ObjectsAssumption, FdsAssumption DEF HandlersInv
<1>1. CASE IsOpen(c)
  <2>1. /\ fd' = [fd EXCEPT ![c] = NoFd]
        /\ fdEvents' = [fdEvents EXCEPT ![fd[c]] = NoObject]
        /\ deleted' = deleted \union {c} /\ doomed' = doomed \union {c}
        /\ released' = released
    BY <1>1 DEF CloseFd, DelFd, DeleteLater
  <2>2. HandlersTypeOK'
    BY <2>1 DEF HandlersTypeOK
  <2>3. TableAgrees'
    BY <1>1, <2>1, OwnersDiffer DEF HandlersTypeOK, TableAgrees, IsOpen
  <2>4. ~IsOpen(c)' /\ \A o \in Objects \ {c} : IsOpen(o)' <=> IsOpen(o)
    BY <2>1 DEF HandlersTypeOK, IsOpen
  <2>5. (Lifetimes /\ PendingAgrees /\ WriteArmed)'
    BY <1>1, <2>1, <2>4 DEF HandlersTypeOK, Lifetimes, PendingAgrees, WriteArmed
  <2>6. Effects
    BY <2>1, <2>4 DEF HandlersTypeOK, Effects
  <2> QED BY <2>2, <2>3, <2>5, <2>6
<1>2. CASE ~IsOpen(c)
  <2>1. UNCHANGED <<fd, fdEvents, deleted, doomed, released>>
    BY <1>2 DEF CloseFd
  <2>2. \A o \in Objects : IsOpen(o)' <=> IsOpen(o)
    BY <2>1 DEF IsOpen
  <2>3. HandlersTypeOK' /\ TableAgrees'
    BY <2>1 DEF HandlersTypeOK, TableAgrees
  <2>4. (Lifetimes /\ PendingAgrees /\ WriteArmed)'
    BY <1>2, <2>1, <2>2
    DEF HandlersTypeOK, Lifetimes, PendingAgrees, WriteArmed
  <2>5. Effects
    BY <2>1, <2>2 DEF HandlersTypeOK, Effects
  <2> QED BY <2>3, <2>4, <2>5
<1> QED BY <1>1, <1>2

LEMMA WantWriteMask ==
  ASSUME HandlersTypeOK, NEW o \in Conns \union {Udp}, WantWrite(o)
  PROVE  /\ mask' \in [Objects -> SUBSET EventTypes]
         /\ writing' = writing \union {o}
         /\ \A p \in Objects \ {o} : mask'[p] = mask[p]
         /\ IsOpen(o) /\ o \notin writing => "WRITE" \in mask'[o]
         /\ o \in writing => mask' = mask
BY DEF HandlersTypeOK, WantWrite, Armed

LEMMA SendKeeps ==
  ASSUME HandlersInv, NEW o \in Conns \union {Udp}, SendOn(o),
         IsOpen(o) \/ o \in deleted
  PROVE  HandlersInv' /\ Effects
<1> USE ObjectsAssumption, MaxPacketsAssumption DEF HandlersInv
<1>1. /\ packets[o] < MaxPackets
      /\ packets' = [packets EXCEPT ![o] = @ + 1]
      /\ UNCHANGED <<fd, fdEvents, deleted, doomed, released>>
      /\ WantWrite(o)
  BY DEF SendOn, StaysOpen
<1>2. /\ mask' \in [Objects -> SUBSET EventTypes]
      /\ writing' = writing \union {o}
      /\ \A p \in Objects \ {o} : mask'[p] = mask[p]
      /\ IsOpen(o) /\ o \notin writing => "WRITE" \in mask'[o]
      /\ o \in writing => mask' = mask
  BY <1>1, WantWriteMask
<1>3. packets[o] \in Nat /\ packets'[o] = packets[o] + 1
  BY <1>1 DEF HandlersTypeOK
<1>4. HandlersTypeOK'
  BY <1>1, <1>2, <1>3 DEF HandlersTypeOK
<1>5. TableAgrees' /\ \A p \in Objects : IsOpen(p)' <=> IsOpen(p)
  BY <1>1 DEF TableAgrees, IsOpen
<1>6. \A p \in Objects \ {o} : packets'[p] = packets[p]
  BY <1>1 DEF HandlersTypeOK
<1>7. Lifetimes'
  BY <1>1, <1>2, <1>6 DEF Lifetimes, IsOpen
<1>10. PendingAgrees'
  BY <1>1, <1>2, <1>5 DEF PendingAgrees
<1>8. WriteArmed'
  BY <1>2, <1>3, <1>5, <1>6 DEF WriteArmed, PendingAgrees
<1>9. Effects
  BY <1>1, <1>3, <1>5, <1>6 DEF Effects
<1> QED BY <1>4, <1>5, <1>7, <1>8, <1>9, <1>10

LEMMA SendFailsKeeps ==
  ASSUME HandlersInv, NEW o \in Conns \union {Udp}, SendFails(o),
         IsOpen(o) \/ o \in deleted
  PROVE  HandlersInv' /\ Effects
<1>1. CASE o = Udp
  BY <1>1, NothingKeeps DEF SendFails, NothingDone
<1>2. CASE o # Udp
  <2>1. WantWrite(o) /\ CloseFd(o) /\ UNCHANGED packets /\ o \in Conns
    BY <1>2 DEF SendFails
  <2>2. /\ mask' \in [Objects -> SUBSET EventTypes]
        /\ writing' = writing \union {o}
        /\ \A p \in Objects \ {o} : mask'[p] = mask[p]
    BY <2>1, WantWriteMask DEF HandlersInv
  <2>3. writing' \subseteq Conns \union {Udp, Tun} /\ writing' \ {o} = writing \ {o}
    BY <2>1, <2>2 DEF HandlersInv, HandlersTypeOK
  <2> QED BY <2>1, <2>2, <2>3, CloseKeeps
<1> QED BY <1>1, <1>2

LEMMA QueueForTunKeeps ==
  ASSUME HandlersInv, QueueForTun
  PROVE  HandlersInv' /\ Effects
<1> USE ObjectsAssumption, MaxPacketsAssumption DEF HandlersInv
<1>1. /\ packets[Tun] < MaxPackets
      /\ packets' = [packets EXCEPT ![Tun] = @ + 1]
      /\ UNCHANGED <<fd, fdEvents, deleted, doomed, released, writing>>
      /\ mask' = IF FirstPacket(packets[Tun]) THEN Armed(Tun) ELSE mask
  BY DEF QueueForTun, StaysOpen
<1>2. packets[Tun] \in Nat /\ packets'[Tun] = packets[Tun] + 1
  BY <1>1 DEF HandlersTypeOK
<1>3. /\ mask' \in [Objects -> SUBSET EventTypes]
      /\ \A p \in Objects \ {Tun} : mask'[p] = mask[p]
      /\ packets[Tun] # 0 => mask' = mask
      /\ packets[Tun] = 0 /\ IsOpen(Tun) => "WRITE" \in mask'[Tun]
  BY <1>1, <1>2 DEF HandlersTypeOK, FirstPacket, Armed
<1>4. HandlersTypeOK'
  BY <1>1, <1>2, <1>3 DEF HandlersTypeOK
<1>5. TableAgrees' /\ \A p \in Objects : IsOpen(p)' <=> IsOpen(p)
  BY <1>1 DEF TableAgrees, IsOpen
<1>6. \A p \in Objects \ {Tun} : packets'[p] = packets[p]
  BY <1>1 DEF HandlersTypeOK
<1>7. IsOpen(Tun)
  BY DEF Lifetimes
<1>8. Lifetimes'
  BY <1>1, <1>6, <1>7 DEF Lifetimes, IsOpen
<1>11. PendingAgrees'
  BY <1>1, <1>3, <1>5 DEF PendingAgrees
<1>9. WriteArmed'
  BY <1>2, <1>3, <1>5, <1>6 DEF WriteArmed
<1>10. Effects
  BY <1>1, <1>2, <1>5, <1>6 DEF Effects
<1> QED BY <1>4, <1>5, <1>8, <1>9, <1>10, <1>11

LEMMA AcceptKeeps ==
  ASSUME HandlersInv, NEW c \in Conns, NEW f \in ConnFds, Accept(c, f)
  PROVE  HandlersInv' /\ Effects
<1> USE ObjectsAssumption, FdsAssumption, MaxPacketsAssumption DEF HandlersInv
<1>1. /\ ~IsOpen(c) /\ c \notin deleted
      /\ \A o \in Objects : fd[o] # f
      /\ fd' = [fd EXCEPT ![c] = f]
      /\ UNCHANGED <<deleted, doomed, released, writing, packets>>
  BY DEF Accept, IsOpen
<1>2. fdEvents[f] = NoObject
  BY <1>1 DEF HandlersTypeOK, TableAgrees
<1>3. /\ fdEvents' = [fdEvents EXCEPT ![f] = c]
      /\ mask' = [mask EXCEPT ![c] = {"READ"}]
  BY <1>2 DEF Accept
<1>4. HandlersTypeOK'
  BY <1>1, <1>3 DEF HandlersTypeOK
<1>5. TableAgrees'
  BY <1>1, <1>3 DEF HandlersTypeOK, TableAgrees, IsOpen
<1>6. \A o \in Objects \ {c} : (IsOpen(o)' <=> IsOpen(o)) /\ mask'[o] = mask[o]
  BY <1>1, <1>3 DEF HandlersTypeOK, IsOpen
<1>7. IsOpen(c)' /\ mask'[c] = {"READ"}
  BY <1>1, <1>3 DEF HandlersTypeOK, IsOpen
<1>8. packets[c] = 0 /\ c \notin writing
  BY <1>1 DEF Lifetimes
<1>9. Lifetimes'
  BY <1>1, <1>6, <1>7 DEF HandlersTypeOK, Lifetimes
<1>10. PendingAgrees'
  BY <1>1, <1>6, <1>7, <1>8 DEF PendingAgrees
<1>11. WriteArmed'
  BY <1>1, <1>6, <1>7, <1>8 DEF WriteArmed
<1>12. Effects
  BY <1>1, <1>6 DEF Effects
<1> QED BY <1>4, <1>5, <1>9, <1>10, <1>11, <1>12

LEMMA ReadHandlerKeeps ==
  ASSUME HandlersInv, NEW o \in Objects, ReadHandler(o), IsOpen(o)
  PROVE  HandlersInv' /\ Effects
<1>1. CASE NothingDone
  BY <1>1, NothingKeeps
<1>2. CASE QueueForTun
  BY <1>2, QueueForTunKeeps
<1>3. CASE \E c \in Conns, f \in ConnFds : Accept(c, f)
  BY <1>3, AcceptKeeps
<1>4. CASE \E p \in Conns \union {Udp} :
             (IsOpen(p) \/ p \in deleted) /\ (SendOn(p) \/ SendFails(p))
  BY <1>4, SendKeeps, SendFailsKeeps
<1>5. CASE o \in Conns /\ CloseFd(o) /\ UNCHANGED <<mask, writing, packets>>
  BY <1>5, CloseKeeps DEF HandlersInv, HandlersTypeOK
<1> QED BY <1>1, <1>2, <1>3, <1>4, <1>5
        DEF ReadHandler, ConnRead, UdpRead, TunRead

LEMMA DoneKeeps ==
  ASSUME HandlersTypeOK, NEW o \in Objects, WriteDone(o)
  PROVE  /\ mask' \in [Objects -> SUBSET EventTypes]
         /\ writing' = writing \ {o}
         /\ \A p \in Objects \ {o} : mask'[p] = mask[p]
         /\ IsOpen(o) => "WRITE" \notin mask'[o]
BY DEF HandlersTypeOK, WriteDone, Disarmed

\* The write handlers; they leave descriptors and other queues alone.
LEMMA WriteHandlerKeeps ==
  ASSUME HandlersInv, NEW o \in Objects, Written(o) \/ NotWritten(o),
         IsOpen(o) => packets[o] > 0
  PROVE  /\ HandlersInv'
         /\ UNCHANGED <<fd, deleted, released>>
         /\ \A p \in Objects \ {o} : packets'[p] = packets[p]
<1> USE ObjectsAssumption, MaxPacketsAssumption DEF HandlersInv
<1>1. UNCHANGED <<fd, fdEvents, deleted, doomed, released>>
  BY DEF Written, NotWritten, StaysOpen
<1>2. TableAgrees' /\ \A p \in Objects : IsOpen(p)' <=> IsOpen(p)
  BY <1>1 DEF TableAgrees, IsOpen
<1>3. packets[o] \in 0..MaxPackets
  BY DEF HandlersTypeOK
<1>4. /\ packets' = [packets EXCEPT ![o] = packets'[o]]
      /\ packets'[o] \in 0..MaxPackets
      /\ ~IsOpen(o) => packets'[o] = packets[o]
      /\ IF packets'[o] = 0 THEN WriteDone(o) ELSE UNCHANGED <<mask, writing>>
  <2>1. CASE Written(o)
    <3>1. PICK left \in Remaining(o, packets[o]) :
            /\ packets' = [packets EXCEPT ![o] = left]
            /\ IF left = 0 THEN WriteDone(o) ELSE UNCHANGED <<mask, writing>>
      BY <2>1 DEF Written
    <3>2. left \in 0..MaxPackets
      BY <2>1, <1>3 DEF Written, Remaining
    <3> QED BY <2>1, <3>1, <3>2 DEF Written, HandlersTypeOK
  <2>2. CASE NotWritten(o)
    BY <2>2, <1>3 DEF NotWritten, HandlersTypeOK
  <2> QED BY <2>1, <2>2
<1>5. \A p \in Objects \ {o} : packets'[p] = packets[p]
  BY <1>4 DEF HandlersTypeOK
<1>6. CASE packets'[o] # 0
  <2>1. UNCHANGED <<mask, writing>>
    BY <1>4, <1>6
  <2>2. HandlersTypeOK'
    BY <1>1, <1>4, <2>1 DEF HandlersTypeOK
  <2>3. Lifetimes'
    BY <1>1, <1>4, <1>5, <2>1 DEF Lifetimes, IsOpen
  <2>4. PendingAgrees'
    BY <1>2, <2>1 DEF PendingAgrees
  <2>5. WriteArmed'
    BY <1>2, <1>4, <1>5, <1>6, <2>1 DEF WriteArmed
  <2> QED BY <1>1, <1>2, <1>5, <2>2, <2>3, <2>4, <2>5
<1>7. CASE packets'[o] = 0
  <2>1. /\ mask' \in [Objects -> SUBSET EventTypes]
        /\ writing' = writing \ {o}
        /\ \A p \in Objects \ {o} : mask'[p] = mask[p]
        /\ IsOpen(o) => "WRITE" \notin mask'[o]
    BY <1>4, <1>7, DoneKeeps
  <2>2. HandlersTypeOK'
    BY <1>1, <1>4, <2>1 DEF HandlersTypeOK
  <2>3. Lifetimes'
    BY <1>1, <1>4, <1>5, <2>1 DEF Lifetimes, IsOpen
  <2>4. PendingAgrees'
    BY <1>2, <2>1 DEF PendingAgrees
  <2>5. WriteArmed'
    BY <1>2, <1>5, <1>7, <2>1 DEF WriteArmed
  <2> QED BY <1>1, <1>2, <1>5, <2>2, <2>3, <2>4, <2>5
<1> QED BY <1>6, <1>7

-----------------------------------------------------------------------------
(* The loop.                                                               *)

LEMMA WaitKeeps ==
  ASSUME IInv, Wait
  PROVE  IInv'
<1> USE ObjectsAssumption DEF IInv
<1>1. midway = NoObject
  BY DEF Wait, BatchInv
<1>2. /\ released' = released \union doomed /\ doomed' = {}
      /\ UNCHANGED <<fd, fdEvents, mask, deleted, writing, packets, midway>>
  BY DEF Wait
<1>3. HandlersInv'
  BY <1>2 DEF HandlersInv, HandlersTypeOK, TableAgrees, Lifetimes,
              PendingAgrees, WriteArmed, IsOpen
<1>4. PICK events \in [Registered -> SUBSET EventTypes] :
        /\ \A o \in Registered : events[o] \subseteq Reportable(o)
        /\ batch' = [o \in Objects |-> IF o \in Registered THEN events[o] ELSE {}]
  BY DEF Wait
<1>5. batch' \in [Objects -> SUBSET EventTypes]
  BY <1>4
<1>6. ASSUME NEW o \in Objects, batch'[o] # {}
      PROVE  IsOpen(o) /\ batch'[o] \subseteq Reportable(o)
  <2>1. o \in Registered /\ batch'[o] = events[o]
    BY <1>4, <1>6
  <2>2. PICK f \in Fds : fdEvents[f] = o
    BY <2>1 DEF Registered
  <2>3. fd[o] = f
    BY <2>2 DEF HandlersInv, TableAgrees
  <2>4. IsOpen(o)
    BY <2>3, FdsAssumption DEF IsOpen
  <2> QED BY <1>4, <2>1, <2>4
<1>7. \A o \in Objects :
        batch'[o] # {} => o \notin released' /\ (o \notin deleted' => IsOpen(o)')
  BY <1>2, <1>6 DEF HandlersInv, Lifetimes, IsOpen
<1>8. ASSUME NEW o \in Objects, "WRITE" \in batch'[o]
      PROVE  packets'[o] > 0
  <2>1. IsOpen(o) /\ "WRITE" \in mask[o]
    BY <1>6, <1>8 DEF Reportable
  <2> QED BY <1>2, <2>1 DEF HandlersInv, WriteArmed
<1>9. BatchInv'
  BY <1>1, <1>2, <1>5, <1>7, <1>8 DEF BatchInv
<1> QED BY <1>3, <1>9

LEMMA SkipKeeps ==
  ASSUME IInv, NEW o \in Objects, Skip(o)
  PROVE  IInv'
<1>1. /\ midway = NoObject
      /\ batch' = [batch EXCEPT ![o] = {}]
      /\ UNCHANGED <<fd, fdEvents, mask, deleted, doomed, released, writing,
                     packets, midway>>
  BY DEF Skip
<1>2. HandlersInv'
  BY <1>1 DEF IInv, HandlersInv, HandlersTypeOK, TableAgrees, Lifetimes,
              PendingAgrees, WriteArmed, IsOpen
<1>3. BatchInv'
  BY <1>1 DEF IInv, BatchInv, IsOpen
<1> QED BY <1>2, <1>3 DEF IInv

LEMMA CallReadKeeps ==
  ASSUME IInv, NEW o \in Objects, CallRead(o)
  PROVE  IInv'
<1> USE ObjectsAssumption
<1>1. /\ midway = NoObject /\ "READ" \in batch[o] /\ o \notin deleted
      /\ ReadHandler(o)
      /\ batch' = [batch EXCEPT ![o] = @ \ {"READ"}]
      /\ midway' = IF "WRITE" \in batch[o] THEN o ELSE NoObject
  BY DEF CallRead
<1>2. IsOpen(o)
  BY <1>1 DEF IInv, BatchInv
<1>3. HandlersInv' /\ Effects
  BY <1>1, <1>2, ReadHandlerKeeps DEF IInv
<1>4. batch' \in [Objects -> SUBSET EventTypes]
  BY <1>1 DEF IInv, BatchInv
<1>5. \A p \in Objects : batch'[p] \subseteq batch[p]
  BY <1>1 DEF IInv, BatchInv
<1>6. \A p \in Objects :
        batch'[p] # {} => p \notin released' /\ (p \notin deleted' => IsOpen(p)')
  BY <1>3, <1>5 DEF IInv, BatchInv, Effects
<1>7. ASSUME NEW p \in Objects, "WRITE" \in batch'[p], IsOpen(p)'
      PROVE  packets'[p] > 0
  <2>1. IsOpen(p)
    BY <1>3, <1>5, <1>7 DEF IInv, BatchInv, Effects
  <2> QED BY <1>3, <1>5, <1>7, <2>1 DEF IInv, BatchInv, Effects
<1>8. midway' \in Objects \union {NoObject}
      /\ (midway' # NoObject => batch'[midway'] = {"WRITE"})
  BY <1>1 DEF IInv, BatchInv
<1>9. BatchInv'
  BY <1>4, <1>6, <1>7, <1>8 DEF BatchInv
<1> QED BY <1>3, <1>9 DEF IInv

LEMMA CallWriteKeeps ==
  ASSUME IInv, NEW o \in Objects, CallWrite(o)
  PROVE  IInv'
<1> USE ObjectsAssumption
<1>1. /\ midway = o \/ midway = NoObject
      /\ batch[o] = {"WRITE"}
      /\ Written(o) \/ NotWritten(o)
      /\ batch' = [batch EXCEPT ![o] = {}]
      /\ midway' = NoObject
  BY DEF CallWrite, WriteTurn, IInv, BatchInv
<1>2. IsOpen(o) => packets[o] > 0
  BY <1>1 DEF IInv, BatchInv
<1>3. /\ HandlersInv'
      /\ UNCHANGED <<fd, deleted, released>>
      /\ \A p \in Objects \ {o} : packets'[p] = packets[p]
  BY <1>1, <1>2, WriteHandlerKeeps DEF IInv
<1>4. BatchInv'
  BY <1>1, <1>3 DEF IInv, BatchInv, IsOpen
<1> QED BY <1>3, <1>4 DEF IInv

LEMMA NextIInv == IInv /\ [DispatchNext]_dispatchVars => IInv'
<1> SUFFICES ASSUME IInv, [DispatchNext]_dispatchVars PROVE IInv'
  OBVIOUS
<1>1. CASE Wait
  BY <1>1, WaitKeeps
<1>2. ASSUME NEW o \in Objects, Skip(o) PROVE IInv'
  BY <1>2, SkipKeeps
<1>3. ASSUME NEW o \in Objects, CallRead(o) PROVE IInv'
  BY <1>3, CallReadKeeps
<1>4. ASSUME NEW o \in Objects, CallWrite(o) PROVE IInv'
  BY <1>4, CallWriteKeeps
<1>5. CASE UNCHANGED dispatchVars
  BY <1>5 DEF dispatchVars, IInv, HandlersInv, HandlersTypeOK, TableAgrees, Lifetimes,
              PendingAgrees, WriteArmed, BatchInv, IsOpen
<1> QED BY <1>1, <1>2, <1>3, <1>4, <1>5 DEF DispatchNext

-----------------------------------------------------------------------------
(* The results.                                                            *)

\* The loop and its handlers keep both halves of the invariant.
THEOREM Invariance == DispatchSpec => []IInv
BY InitIInv, NextIInv, PTL DEF DispatchSpec

\* Every variable keeps its type; in particular no handler takes a packet
\* from an empty queue, which would make its length negative.
THEOREM TypeCorrect == DispatchSpec => []DispatchTypeOK
<1>1. IInv => DispatchTypeOK
  BY DEF IInv, HandlersInv, HandlersTypeOK, BatchInv, DispatchTypeOK
<1> QED BY <1>1, Invariance, PTL

\* fd_events_ has exactly the open descriptors, under their owners, however
\* accept() reuses numbers.
THEOREM TableFollowsSockets == DispatchSpec => []TableAgrees
<1>1. IInv => TableAgrees
  BY DEF IInv, HandlersInv
<1> QED BY <1>1, Invariance, PTL

\* No EpollEvent is given back while the loop may still look at it.
THEOREM EventsStayAlive == DispatchSpec => []BatchAlive
<1>1. IInv => BatchAlive
  BY ObjectsAssumption DEF IInv, BatchInv, BatchAlive
<1> QED BY <1>1, Invariance, PTL

\* The loop calls the read handlers of open descriptors only.
THEOREM ReadersAreOpen == DispatchSpec => []ReadersOpen
<1>1. IInv => ReadersOpen
  BY DEF IInv, BatchInv, ReadersOpen
<1> QED BY <1>1, Invariance, PTL

\* An open descriptor asks for writability exactly while its queue has
\* something to write.
THEOREM WritersAreArmed == DispatchSpec => []WriteArmed
<1>1. IInv => WriteArmed
  BY DEF IInv, HandlersInv
<1> QED BY <1>1, Invariance, PTL
=============================================================================
