---------------------------- MODULE Dispatching ----------------------------
(***************************************************************************)
(* The event loop of the server and what it feeds: EpollDispatcher         *)
(* (linux/epoll-dispatcher.cc), the sockets of SocketTransport             *)
(* (socket-transport.cc) and the queues their write handlers empty: the    *)
(* buffer of a TCP connection (server-tcp-transcoder.cc), the datagram     *)
(* queue of the UDP socket (packet-queue.cc) and the packet queue of a tun *)
(* device (tun-tap-server-channel.cc).                                     *)
(*                                                                         *)
(* epoll_wait returns a batch of events and the loop calls their handlers  *)
(* one after the other; what a handler does to another object of the same  *)
(* batch is what this module is about.  An object registers once, so its   *)
(* EpollEvent goes by its name.  Queues are counted, not kept.             *)
(***************************************************************************)
EXTENDS Integers, FiniteSets

CONSTANTS Conns,          \* TCP connections that may be accepted (bound)
          ConnFds,        \* the descriptors accept() may return (bound)
          Listener, Udp, Tun,  \* the other objects that own a descriptor
          NoFd, NoObject,
          MaxPackets      \* bound on every queue

Objects == Conns \union {Listener, Udp, Tun}

ASSUME ObjectsAssumption ==
  /\ Listener \notin Conns /\ Udp \notin Conns /\ Tun \notin Conns
  /\ Listener # Udp /\ Udp # Tun /\ Tun # Listener
  /\ NoObject \notin Objects
ASSUME FdsAssumption ==
  /\ ConnFds \intersect {Listener, Udp, Tun} = {}
  /\ NoFd \notin ConnFds \union {Listener, Udp, Tun}
ASSUME MaxPacketsAssumption == MaxPackets \in Nat \ {0}

\* The three descriptors that stay open are named after their owners.
Fds == ConnFds \union {Listener, Udp, Tun}

VARIABLES
  fd,        \* fd[o]: fd_ of the object, or NoFd before accept, after Close or
             \* if there never was a socket
  fdEvents,  \* fd_events_: whose EpollEvent a descriptor has, or NoObject
  mask,      \* mask[o]: the events o's EpollEvent is registered for
  deleted,   \* the objects whose EpollEvent is marked deleted
  doomed,    \* the EpollEvents in pending_deletions_
  released,  \* those pending_deletions_ has been emptied of
  writing,   \* the sockets with pending_writes_
  packets,   \* packets[o]: packets waiting for o's write handler
  batch,     \* batch[o]: what epoll_wait said of o and is not yet handled
  midway     \* the object whose read handler has run and whose write handler
             \* is next, or NoObject

dispatchVars == <<fd, fdEvents, mask, deleted, doomed, released, writing,
                  packets, batch, midway>>

EventTypes == {"READ", "WRITE"}

\* Any of the calls that make a socket may fail.
StreamListenOn == {{}, {Listener}}
DatagramListenOn == {{}, {Udp}}

\* The transcoders' Start() returns false then, and uvpn-server goes on without.
Started(open) ==
  /\ fd = [o \in Objects |-> IF o \in open THEN o ELSE NoFd]
  /\ fdEvents = [f \in Fds |-> IF f \in open THEN f ELSE NoObject]
  /\ mask = [o \in Objects |-> IF o \in open THEN {"READ"} ELSE {}]

\* The device of some tunnel is open already.
DispatchInit ==
  /\ \E tcp \in StreamListenOn, udp \in DatagramListenOn :
       Started(tcp \union udp \union {Tun})
  /\ deleted = {} /\ doomed = {} /\ released = {}
  /\ writing = {}
  /\ packets = [o \in Objects |-> 0]
  /\ batch = [o \in Objects |-> {}] /\ midway = NoObject

IsOpen(o) == fd[o] # NoFd
Registered == {o \in Objects : \E f \in Fds : fdEvents[f] = o}

-----------------------------------------------------------------------------
(* What handlers do to the dispatcher and the queues.                      *)

DeleteAtOnce(o) == released' = released \union {o} /\ UNCHANGED doomed  \* mutation
DeleteLater(o) == doomed' = doomed \union {o} /\ UNCHANGED released

\* EpollDispatcher::DelFd, then close(): SocketTransport::Socket::SetFd(-1).
DelFdKeepsEvent(o) ==  \* mutation: the EpollEvent stays in fd_events_
  /\ fdEvents' = fdEvents
  /\ deleted' = deleted \union {o}
  /\ DeleteLater(o)
DelFdKeepsMark(o) ==  \* mutation: the EpollEvent is not marked
  /\ fdEvents' = [fdEvents EXCEPT ![fd[o]] = NoObject]
  /\ UNCHANGED deleted
  /\ DeleteLater(o)
DelFd(o) ==
  /\ fdEvents' = [fdEvents EXCEPT ![fd[o]] = NoObject]
  /\ deleted' = deleted \union {o}
  /\ DeleteLater(o)

CloseFd(o) == IF IsOpen(o)
              THEN DelFd(o) /\ fd' = [fd EXCEPT ![o] = NoFd]
              ELSE UNCHANGED <<fd, fdEvents, deleted, doomed, released>>

StaysOpen == UNCHANGED <<fd, fdEvents, deleted, doomed, released>>

\* SetFd of one event; on a closed socket there is nothing to set.
Armed(o) == IF IsOpen(o) THEN [mask EXCEPT ![o] = @ \union {"WRITE"}] ELSE mask
Disarmed(o) == IF IsOpen(o) THEN [mask EXCEPT ![o] = @ \ {"WRITE"}] ELSE mask

\* Socket::WantWrite sets the event unless writes are pending already.
WantWrite(o) ==
  /\ mask' = IF o \in writing THEN mask ELSE Armed(o)
  /\ writing' = writing \union {o}

\* A packet is queued on a socket: Connection::SendMessage on TCP,
\* QueuePacketSlot on UDP.
SendOn(o) ==
  /\ packets[o] < MaxPackets
  /\ packets' = [packets EXCEPT ![o] = @ + 1]
  /\ WantWrite(o)
  /\ StaysOpen

\* The encoder fails: on TCP, where SendMessage has called WantWrite first,
\* the session's error closes the connection.
SendFails(o) ==
  /\ UNCHANGED packets
  /\ IF o = Udp THEN StaysOpen /\ UNCHANGED <<mask, writing>>
                ELSE WantWrite(o) /\ CloseFd(o)

\* ClientReadCallback: the device's event is set for the first packet only.
FirstPacketForgotten(n) == n = 1  \* mutation: Pending() asked before Queued()
FirstPacket(n) == n + 1 = 1
QueueForTun ==
  /\ packets[Tun] < MaxPackets
  /\ packets' = [packets EXCEPT ![Tun] = @ + 1]
  /\ mask' = IF FirstPacket(packets[Tun]) THEN Armed(Tun) ELSE mask
  /\ StaysOpen /\ UNCHANGED writing

NothingDone == StaysOpen /\ UNCHANGED <<mask, writing, packets>>

-----------------------------------------------------------------------------
(* The read handlers.                                                      *)

\* ServerTcpTranscoder::HandleConnection: accept() returns a descriptor
\* nobody has, and the constructor of the connection wants to read.  If the
\* dispatcher still has an EpollEvent for the descriptor, ModFd changes that.
Accept(c, f) ==
  /\ fd[c] = NoFd /\ c \notin deleted
  /\ \A o \in Objects : fd[o] # f
  /\ fd' = [fd EXCEPT ![c] = f]
  /\ IF fdEvents[f] = NoObject
     THEN /\ fdEvents' = [fdEvents EXCEPT ![f] = c]
          /\ mask' = [mask EXCEPT ![c] = {"READ"}]
     ELSE /\ mask' = [mask EXCEPT ![fdEvents[f]] = @ \union {"READ"}]
          /\ UNCHANGED fdEvents
  /\ UNCHANGED <<deleted, doomed, released, writing, packets>>

\* Connection::HandleRead: a packet may be answered, or be for the device;
\* errors close the connection.
ConnRead(c) == \/ SendOn(c) \/ SendFails(c) \/ QueueForTun \/ NothingDone
               \/ CloseFd(c) /\ UNCHANGED <<mask, writing, packets>>

\* ServerUdpTranscoder::HandleRead; errors leave the socket alone.
UdpRead == SendOn(Udp) \/ QueueForTun \/ NothingDone

\* TunTapReadCallback sends to a client, whatever became of its connection.
TunRead ==
  \/ \E o \in Conns \union {Udp} :
       (IsOpen(o) \/ o \in deleted) /\ (SendOn(o) \/ SendFails(o))
  \/ NothingDone

ReadHandler(o) ==
  \/ o = Listener /\ (NothingDone \/ \E c \in Conns, f \in ConnFds : Accept(c, f))
  \/ o \in Conns /\ ConnRead(o)
  \/ o = Udp /\ UdpRead
  \/ o = Tun /\ TunRead

-----------------------------------------------------------------------------
(* The write handlers.                                                     *)

\* A queue is empty: HandleWrite returns DONE, TunTapWriteCallback clears the
\* event itself.
DoneForgets(o) == UNCHANGED <<mask, writing>>  \* mutation
DoneKeepsPending(o) == mask' = Disarmed(o) /\ UNCHANGED writing  \* mutation
WriteDone(o) == mask' = Disarmed(o) /\ writing' = writing \ {o}

\* What may be left of n packets when o's handler could write: one datagram or
\* packet goes at a time, or as much of a buffer as kIovecSize chunks hold.
Remaining(o, n) == IF o \in Conns THEN 0..n ELSE {n - 1}

Written(o) ==
  /\ IsOpen(o)
  /\ \E left \in Remaining(o, packets[o]) :
       /\ packets' = [packets EXCEPT ![o] = left]
       /\ IF left = 0 THEN WriteDone(o) ELSE UNCHANGED <<mask, writing>>
  /\ StaysOpen

\* Write() fails, as it does on a closed socket, and the packets stay; a
\* datagram goes with its slot.
NotWritten(o) ==
  /\ o # Udp
  /\ IF packets[o] = 0 THEN WriteDone(o) ELSE UNCHANGED <<mask, writing>>
  /\ UNCHANGED packets /\ StaysOpen

-----------------------------------------------------------------------------
(* EpollDispatcher::Start.                                                 *)

\* What the kernel may report: events o is registered for and, as READ, whose
\* handler they call too, errors and hangups of a connection.
Reportable(o) == mask[o] \union IF o \in Conns THEN {"READ"} ELSE {}

\* The head of the loop: the pending deletions, then epoll_wait.
Wait ==
  /\ \A o \in Objects : batch[o] = {}
  /\ released' = released \union doomed
  /\ doomed' = {}
  /\ \E events \in [Registered -> SUBSET EventTypes] :
       /\ \E o \in Registered : events[o] # {}
       /\ \A o \in Registered : events[o] \subseteq Reportable(o)
       /\ batch' = [o \in Objects |-> IF o \in Registered THEN events[o] ELSE {}]
  /\ UNCHANGED <<fd, fdEvents, mask, deleted, writing, packets, midway>>

\* The handler of an event has been deleted since.
Skip(o) ==
  /\ midway = NoObject /\ batch[o] # {} /\ o \in deleted
  /\ batch' = [batch EXCEPT ![o] = {}]
  /\ UNCHANGED <<fd, fdEvents, mask, deleted, doomed, released, writing, packets,
                 midway>>

CallRead(o) ==
  /\ midway = NoObject /\ "READ" \in batch[o] /\ o \notin deleted
  /\ ReadHandler(o)
  /\ batch' = [batch EXCEPT ![o] = @ \ {"READ"}]
  /\ midway' = IF "WRITE" \in batch[o] THEN o ELSE NoObject

\* The write handler is called without another look at the mark.
WriteTurn(o) == \/ midway = o
                \/ midway = NoObject /\ batch[o] = {"WRITE"} /\ o \notin deleted

CallWrite(o) ==
  /\ WriteTurn(o)
  /\ Written(o) \/ NotWritten(o)
  /\ batch' = [batch EXCEPT ![o] = {}]
  /\ midway' = NoObject

DispatchNext == Wait \/ \E o \in Objects : Skip(o) \/ CallRead(o) \/ CallWrite(o)

DispatchSpec == DispatchInit /\ [][DispatchNext]_dispatchVars

\* A write handler that did write, and an epoll_wait that reported o writable.
WriteQueued(o) == CallWrite(o) /\ Written(o)
Writable(o) == Wait /\ "WRITE" \in batch'[o]

\* The loop goes on, the kernel reports a writable descriptor that stays
\* registered for it sooner or later, and not every write fails.
Fairness ==
  /\ WF_dispatchVars(DispatchNext)
  /\ \A o \in Objects :
       SF_dispatchVars(Writable(o)) /\ SF_dispatchVars(WriteQueued(o))

FairSpec == DispatchSpec /\ Fairness

-----------------------------------------------------------------------------
DispatchTypeOK ==
  /\ fd \in [Objects -> Fds \union {NoFd}]
  /\ fdEvents \in [Fds -> Objects \union {NoObject}]
  /\ mask \in [Objects -> SUBSET EventTypes]
  /\ deleted \subseteq Conns /\ doomed \subseteq Conns
  /\ released \subseteq Conns
  /\ writing \subseteq Conns \union {Udp, Tun}
  /\ packets \in [Objects -> 0..MaxPackets]
  /\ batch \in [Objects -> SUBSET EventTypes]
  /\ midway \in Objects \union {NoObject}

\* fd_events_ has exactly the descriptors that are open, each with the
\* EpollEvent of the object that owns it, although accept() reuses a number
\* while the event of its last owner may be waiting in a batch.
TableAgrees ==
  \A f \in Fds, o \in Objects : fdEvents[f] = o <=> fd[o] = f

\* An EpollEvent of the batch being handled has not been given back: whoever
\* closes a descriptor, its event survives until the loop's head.
BatchAlive ==
  \A o \in Objects : batch[o] # {} \/ midway = o => o \notin released

\* A read handler is only ever called of an object that still owns its
\* descriptor.
ReadersOpen ==
  \A o \in Objects :
    midway = NoObject /\ batch[o] # {} /\ o \notin deleted => IsOpen(o)

\* An open descriptor is registered for writing exactly when its queue has a
\* packet: ToSend and front() find one and no packet is left behind.
WriteArmed ==
  \A o \in Objects : IsOpen(o) => ("WRITE" \in mask[o] <=> packets[o] > 0)

\* A queue that is never found empty is written from again and again, unless
\* its socket is closed.
Drains ==
  \A o \in Objects :
    <>[](IsOpen(o) /\ packets[o] > 0) => []<><<WriteQueued(o)>>_dispatchVars
=============================================================================
