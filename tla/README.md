# uvpn in TLA+

A verification project for uvpn, a virtual private network written in C++: one
server, several clients, and IP packets carried between their tun devices over
UDP or TCP. Paths are those of the repository, `src/`; the programs are
`src/src/uvpn-server.cc` and `src/src/uvpn-client.cc`.

Both programs are one thread: an epoll loop (`linux/epoll-dispatcher.cc`) that
calls one handler after the other. A handler is therefore one atomic step, and
what is hard here is not locking. It is what may happen *between* two handlers of
the same object, what a handler leaves behind when one of its steps fails
(most of them say `TODO: handle errors`), and what packets that are
duplicated, late or damaged do to a protocol that has no sequence numbers, no
acknowledgements and no timers.

## Inventory

| part | state | operations | properties that make it correct |
|---|---|---|---|
| connection manager of the server (`server-simple-connection-manager.cc`) | `sessions_map_`; per session its connection, `encoder_`, `decoder_`, `read_callback_`, `close_callback_` | GetSession, CreateSession, HandlePacket, HandleError, SendMessage, AuthenticationDoneHandler | a key finds only a live session of that key; an error of one session never hits another; protectors and callbacks change together |
| transcoders of the server (`server-udp-transcoder.cc`, `server-tcp-transcoder.cc`) | UDP: send queue. TCP: `session_`, `decoder_`, four buffers per connection | HandleRead, HandleWrite, HandleConnection, SendMessage, HandleError | cached pointers are valid when used; every byte of a stream is decoded once, by the right decoder; errors find their session |
| SRP authenticator (`srp-server-authenticator.cc`, `srp-server.cc`) | the SRP session of a client | StartAuthentication, ParsePublicKeyCallback | replies in order, each under the right protector |
| tunnel channel of the server (`tun-tap-server-channel.cc`) | device, address, queue of packets for the device | HandleConnect, ClientReadCallback, TunTapReadCallback, TunTapWriteCallback | one address per tunnel; tunnel ends with its session; the queue drains |
| address manager (`ip-manager.cc`) | `used_`, `index_` | AllocateIP, ReturnIP, FindUsableRange | exclusive addresses; an address is found when there is one; what is returned can be handed out again |
| addresses and ranges (`ip-addresses.cc`) | none | index arithmetic, Increment, Truncate, Difference, overlap, parsing | inverse functions are inverse; overlap is symmetric and agrees with membership |
| client (`client-simple-connection-manager.cc`, `client-udp-transcoder.cc`, `client-tcp-transcoder.cc`, `srp-client-authenticator.cc`, `tun-tap-client-channel.cc`) | one session, its read callback, protectors, device, send queue | AddConnection, HandleRead, HandleWrite, the callbacks of the handshake, TunTapRead/Write | keys and address agree with the server's; no packet of the device leaves unprotected; the handshake ends |
| dispatcher, sockets, queues (`linux/epoll-dispatcher.cc`, `socket-transport.cc`, `packet-queue.cc`) | epoll set, `fd_events_`, `pending_deletions_`; per socket `fd_`, `pending_reads_`, `pending_writes_`; queues | AddFd, ModFd, DelFd, DeleteLater, Start, WantRead, WantWrite, HandleRead, HandleWrite, Close | no event reaches a freed object or another owner of its descriptor; a queue that is not empty has its write event armed |
| protectors (`openssl-protector.cc`, `scramble-session-protector.cc`, `aes-session-protector.cc`) | cipher context | Start, Continue, End, AddPadding, RemovePadding | what is encoded decodes to itself at every size |
| event scheduler (`event-scheduler.h`, `linux/clock-timers.*`) | priority queue | AddEvent, GetTimeUntilNextEvent, ProcessPendingEvents | every event runs once, when due, in order |
| user database (`userdb.cc`) | file, lock, map | Open, AddUser, SetUser, DelUser, Commit, Close | two programs never lose each other's change; a crash leaves a readable file |
| buffers and serializers (`buffer.h`, `serializers.h`) | chunks and cursors | Reserve, Add, Consume, Increment, LimitLeftSize, encoders | decoding inverts encoding, also across chunks and when cut |
| daemon controller (`daemon-controller*.cc`, `ipc-*`, `ipc/`) | read and write buffers of `uvpn-ctl` | generated Send, Parse, Dispatch; HandleRead, HandleWrite | every call is processed once and in order, however it is cut |
| network configuration (`linux/netlink-interfaces.cc`) | the netlink socket, its sequence number | Chat, Send, Recv, ParseReply, GetRoutes; the requests of the programs | an answer belongs to the request that was made |
| SRP arithmetic (`srp-*.cc`, `openssl-helpers.cc`, `password.cc`) | the numbers of one exchange | public keys, private keys, secrets, session keys | both sides compute one key, which nobody else knows |

How they interact: the dispatcher calls a transcoder's read handler; the
transcoder asks the connection manager for the session of the packet's
`ConnectionKey` (the peer's address on UDP, the connection itself on TCP),
decodes the packet with the session's current decoder and calls
`Session::HandlePacket`, which runs the session's current read callback: the
authenticator's first, then, after the handshake, the tunnel channel's. The
tunnel channel calls back through `Session::SendMessage` into the transcoder,
which encodes into a queue and asks the dispatcher for a write event. Errors go
the other way: transcoder, session (or manager, when there is no session yet),
map, connection, dispatcher.

PROJECT.json lists every component with what is modelled of it, and the
hazards of the code, each at its line with the properties that cover it.

## Modules

| module | what it is | checked by | proved in |
|---|---|---|---|
| `AddressPool` | what callers expect of an address manager | as the properties `ImplementsPool`, `ImplementsWholePool` | |
| `IPManager` | `ip-manager.cc` and the range arithmetic it uses | `Library.cfg` (through `MCLibrary`), `IPManagerReturn.cfg` | `IPManagerProofs` |
| `ServerSessions` | the server: connection manager, both transcoders, authenticator, tunnel channel, deferred deletions; it instantiates `IPManager` | `ServerSessions.cfg`, `ServerCloseCallback.cfg`, `ServerUnknownSession.cfg` (through `MCServerSessions`) | `ServerSessionsProofs` |
| `ClientSession` | the client: the same parts of the other program | through `Handshake` | `HandshakeProofs` |
| `Handshake` | one client and the server over UDP; it instantiates `ClientSession` and `ServerSessions` | `Handshake.cfg`, `HandshakeUnreliable.cfg` | `HandshakeProofs` |
| `Dispatching` | the event loop with its batches, the sockets, and the queues their write handlers empty | `Library.cfg`, `DispatchingDrains.cfg` | `DispatchingProofs` |
| `UserDb` | the password file, its lock, and the processes that read and rewrite it | `Library.cfg`, `UserDbLock.cfg` | `HostProofs` |
| `TcpFraming` | packets cut out of a TCP stream by block ciphers, sender and receiver | `Library.cfg`, `FramingPadding.cfg` | `WireProofs` |
| `Buffers` | chunks, cursors and their reference counts | `Library.cfg` | `BuffersProofs` |
| `Serializers` | encoding and decoding of values, handed any beginning of a message | `Library.cfg`, `SerializersHints.cfg` | `WireProofs` |
| `IPRanges` | addresses of one and four words, ranges, and `FindUsableRange` | `Library.cfg` | `HostProofs` |
| `EventScheduler` | the heap of timed events, their callbacks, the timeout of the loop | `Library.cfg`, `EventsAwaited.cfg` | `HostProofs` |
| `Netlink` | requests to the kernel, their answers, and the programs that make them | `Library.cfg` | `HostProofs` |
| `Srp` | what the two sides of the SRP exchange compute | `Library.cfg` | `WireProofs` |
| `IPC` | the calls between `uvpn-ctl` and a daemon; it extends `Serializers` | `Library.cfg` | `WireProofs` |

### IPManager

`slots` is the length of the vector `used_`, `used` the positions that are true,
`index` is `index_`, and `holds` adds what the code only has as pointers in
other objects: which address each holder was given. An address is its distance
from the network address of the range. `AllocateIP`, `AllocateIPFails` and
`ReturnIP` are the two functions with their outcomes; the loop of
`FindUsableIndex` is the predicate `Usable(i)`, which says that the loop stops
after i steps. The abstraction: a range is a number, `Size`; its base address
plays no part.

### ServerSessions

`sessions` is `sessions_map_`, `object[s]` a Session object: its key, which read
callback it has, its protectors, the state of the tunnel made for it and, as
history, what was queued for the client and under which protector. `conn` and
`cached` are the TCP connections and the two pointers they keep between reads,
`doomed` is `pending_deletions_`, `released` the sessions that the dispatcher has
dropped from it, `fault` how the process aborted, if it did. What `DeleteLater` is
given is a `Holder`, whose destructor deletes nothing, so the session a Holder
points to is never freed; what could still go wrong is that something writes to
such a session, and that is what `ForgottenRests` excludes. One handler is one
action, with one exception: the loop in the TCP `HandleRead`, which takes packet
after packet from a buffer, is one action per packet; `inLoop` names the connection
being drained and keeps every other handler from running meanwhile. That is how the
model shows what the loop does after one of its packets has closed the connection.

What packets are: a client's `hello`, `key` and `data`, and on UDP a datagram too
`short` to decode. They come from any client, in any order and any number of
times, so loss, duplication and reordering need no action of their own. A packet
decoded by a protector that did not encode it is `garbage`: decryption aborts
the process (`LOG_FATAL` in `openssl-protector.cc`) or yields something. A
handler that parses takes anything of the right shape: a second hello passes for
a public key, since both are a length and that many bytes; the key derived then
is `unshared`. `Failures` lets encoders, devices and user lookups fail. `LOG_FATAL`, failed
assertions and null dereferences end every behaviour of the process, so runs of
this module turn TLC's deadlock check off.

### ClientSession and Handshake

The client has one session, so its state is flat. Its datagrams are parameters of
its actions; `Handshake` supplies them from a network of two sequences. `mistaken`
is the set of messages (the hello, the configuration) that something else was taken
for; the protector `unshared` stands for a key that is derived then and is not the
server's. `ServerConfigCallback` reads flags and a list of pairs from whatever it is
given, so a packet of the server's device that overtakes the configuration may have
the right names in it and give the client any address (`Misread`). The comment at
`tun-tap-client-channel.cc:133-141` sees that: "how do we prove that the config
packet is indeed a config packet?" `Agreement` therefore promises the server's
address only to a client whose configuration was one, and the key and the session
to every client. A packet of the device may also have an empty list of values, and
then the address that was never given is dereferenced. What a wrong key makes of a
packet is taken not to spell two addresses with their names: that is an assumption
like that of not guessing a key, and a wrong key is known to it as `unshared`. The server's
send queue is part of the network (both are a queue), the client's is not. When
`Unreliable`, any datagram of the network may be the next to arrive and need
never arrive; `MaxDamage` bounds how many are duplicated or truncated. Only
datagrams to the client are truncated here: one to the server would start a
second session, and `ServerSessions` covers that. The client's TCP transcoder is
not modelled: `uvpn-client.cc` does not register it.

### Dispatching

What `ServerSessions` takes for granted, that the loop calls a handler of an
object that still wants it and that what is queued leaves, is this module's
subject. `Wait` is the head of the loop: the pending deletions, then a batch of
events chosen from what is registered. `Skip`, `CallRead` and `CallWrite` handle
the batch in any order, an object's read handler before its write handler as the
loop does; `midway` marks the point between the two, where the loop does not look
at `deleted` again. The handlers are those of `ServerSessions` seen from below: a
read handler sends on some socket, queues for the device, closes its socket,
accepts, or does nothing. Since an object registers its descriptor once, its
`EpollEvent` goes by the object's name, and `mask`, `deleted`, `doomed`,
`released` are the fields and the life of that `EpollEvent`. `accept()` may return
any descriptor nobody has, among them one whose last owner still has an event in
the batch. A queue is its length: no property looks at what is in it. A buffer of more chunks
than one write takes is left in part (`Remaining`). The module's names say that they
are the dispatcher's, since `MCLibrary` extends it with others. `DispatchInit` has a
listener and a UDP socket or not: `uvpn-server` does not look at what `Start()` of
a transcoder returns, and runs on without the socket that could not be opened.

### UserDb

`file` is the file as a sequence of cells, one for each `write()` of `Commit`
(a name, a colon, a secret, an end of line); `lock` the process that has its fcntl
lock; `stage`, `users`, `cursor` and `offset` what each process is doing, its
`users_`, how far its commit got and where its descriptor stands. `intended` is a
history: what the file should hold after the commit, from what it held before.
`Crash` kills a process between any two writes. Programs start with an empty file,
and a file that ends within a username cannot be opened by anybody again.

With `Failures` every call may fail, and the code goes on as it does: `fcntl()` with
another error than a lock that is taken ("continuing anyway", `OpenUnlocked`);
`read()`, whose error `ParseFd` takes for the end of the file (`ReadFile`);
`ftruncate()` ("continuing anyway", `Truncated`), after which the dump goes over the
old records; each `write()`, which may put nothing or a part of its string into the
file and moves the offset by what it wrote (`Write`). Three histories name what the
properties do not hold after: `unlocked`, a process without the lock read or
committed; `misread`, an error of `read()` was taken for the end; `garbled`, a commit
wrote on after an `ftruncate()` or a `write()` that failed. After the last the file
may say anything, among it one user with the secret of another, and the code says so
("TODO: this does not work! write EAGAIN, handle errors.", `userdb.cc:241`): this is
excluded from `OwnSecrets` and `CutIsPrefix`, and nowhere else. A commit that runs
out of space and writes nothing more is not: it leaves a beginning of its dump. A
short `write()` of a name or a secret leaves a part of it (`Part`); the offset is
counted in cells, so what is written after a part stands where the whole would have
ended, which is `garbled` already.

Names have one length, and so have secrets, so that an offset is a number of cells.
`SetUser` is called by no program. Before a session begins, `uvpn-user` reads the
password twice; it compares the confirmation with a buffer that was never filled
(`uvpn-user.cc:16-31`), so what it makes of a mistyped password is undefined, and
does not reach the file.

### TcpFraming

`wire` is the whole stream as bytes that know what they are, `arrived` how many
have been read, `chunkEnd` where one chunk of memory ends, since the decoder is
shown one chunk at a time. `held` is what the cipher context holds of a block that
is not whole, `clear` the decoded bytes. `Read`, `NeedsMore`, `HandlePacket` and
`LoopEnds` are the loop of `HandleRead`, one action per packet. The client's
transcoder is mapped; the server's `HandleRead` has the same text after its
session is found, which `ServerSessions` models.

### Buffers and Serializers

A buffer is a sequence of chunks with their reference counts and absolute
offsets, and two output cursors, the buffer's own and a copy. Bytes are numbered
as they come in, so that a property can say what a cursor should read next.
`SocketRead`, `DeviceRead` and `WriteOut` are how sockets and devices use it.
`Increment` stops at a chunk that stayed empty, and `ContiguousSize` sees nothing
behind it (`buffer.h:383`, `310`): `gapped` records that such a chunk lies between
two others, and `ReadsStream` promises nothing from then on. No caller in `src/`
reserves twice without writing in between and then asks for more than fits.

`Serializers` is recursion-free by types: a number, a string, a pair or a vector
of those, which is what the messages are made of. Its state is one message and
how much of it has come. What a decoder returns when it was given too little is
"guaranteed to be <= the number of additional bytes actually needed"
(`serializers.h:54-59`); `HintsFit` says that, and is false of vectors: line 197
counts the element that was cut twice. By how much it is wrong at most,
`HintsBounded` says: one byte.

### IPRanges

`FindUsableRange` over the routes of the host. `Word` stands for the 32 bits of a
machine word and may be any number of bits; the run has 5. The powers of two, which
the code makes with shifts, are the recursive function `TwoTo`. The
IPv6 half has no caller that reaches it in a state of its own (all ranges that are
tried are IPv4), so its arithmetic is checked as functions: an address is chosen,
and `WordsAreNumbers` compares every increment and every truncation with the
arithmetic of one number. `IPv6Address::Difference` is not modelled; its comparison
is inverted (`ip-addresses.cc:40`), and only a range of IPv6 addresses would use it.

### EventScheduler

`std::priority_queue` is modelled as the heap the library makes of it, by the turns
of its sift-up (`SiftTurn`) and of its sift-down from the hole (`SinkTurn`), because the
code does what the queue does not allow for: `ProcessPendingEvents` runs the top event
and pops afterwards, and `ExponentialBackoffEvent::Run` changes its time under the heap.
An event is started after a delay from a `Timer`, which is the present or any the
caller has (`Offsets`, `Asks`): the past, if it computed one, and
`ExponentialBackoffEvent` counts from the Timer of its first start. A callback may
start its own event, another one, or both in either order. If what it starts for
another event is earlier than its own, that comes to the top and `queue_.pop()` takes
it in the place of the one that has run, which runs twice while the other is lost:
`crossed` remembers it, and `EventsInTime` is stated for what comes before.
No comment forbids such a start, so this is not listed as a divergence; it is a
hazard of the list. Time is a number of ticks,
of which seconds and fractions are taken as `ClockTimer` does. `GetTimeUntilNextEvent` is
the timeout of epoll, with the cast to an int: a delay of more milliseconds than
an int can count is no timeout. That edge, and the one for an event that is due within
the millisecond, `EventsInTime` leaves out; `EventsAwaited` has them. `ClockAssumption` says of the constants what those of
the code fulfil: the values of `ms_timer_t`, 2^32, are no fewer than the square of the
milliseconds in a second.

### Netlink

`config` and `replies` are the kernel's, `chat`, `received` and `entries` those of a
`Chat` that is busy, `plan` the requests its caller will make. The kernel may
refuse anything; `send()` and `recv()` may fail; an answer may fill the space there
is, and a dump comes in two datagrams. A default route through a device is
returned without a destination, which the property says.

### Srp

Primes, generators and the three digests are constants, of which the run has small
ones. `PrimesAssumption` says that a prime divides no product of numbers it does not
divide. `NumbersAssumption` stands for what the sizes in the code imply: a random
number has 384 bits and a digest 160, so the client's exponent a + u * x is smaller
than any of the primes, which have 1024 bits or more, and it does no harm that the code
reduces it modulo the prime, where arithmetic would have it reduced modulo the prime
less one. `ForgedKey` lets somebody else answer the server. The session key is a
pair of the shared secret and the salt that follows the server's public key:
nothing is known of PBKDF2 but that equal inputs give equal keys.

### IPC

A stream of calls from the daemon, read by `HandleRead` of `uvpn-ctl`, which
dispatches until more is needed; a number that nobody knows leaves the loop in the
middle of that call's arguments (`skewed`). The loop is a fold of one turn more than
there are bytes (`DispatchAll`), because every turn but the last takes at least one;
`IpcAssumption` says that a byte has more than one value, that `Reserve` makes some
room, and that what is sent are vectors that the serializers can encode. The requests go the other way: they are
encoded, written by `HandleWrite`, and the daemon's dispatcher is applied to what
was written. In the daemon nothing calls that dispatcher: `SetChannel` and `Send` of
`IpcServerInterface` are declared and have no body.

### MCLibrary

The eleven modules share no state: the address manager, the dispatcher and the nine
from `UserDb` to `IPC` in the table. `MCLibrary` checks them in one
run: `part` is chosen at the start and only that module's variables change, so the
numbers of states add up. The constraint `InUse` ends a behaviour after a history
that its properties exclude (`unlocked`, `garbled`, `gapped`, `crossed`, `missed`,
`skewed`); every property is still checked in the state where it comes about.
`misread` ends nothing: `OwnSecrets` holds after it.

## Runs

| run | what it asks | bounds, and why they are enough |
|---|---|---|
| `ip_return` (violation) | Does every address go back to the pool? | the last address of the range has no index |
| `server_sessions` | Do map, tunnels, protectors and cached pointers agree, whatever fails? | 2 UDP clients and 1 TCP connection, 3 sessions and 2 client addresses: a connection may get two sessions, and the range is exhausted; 3 replies of the handshake and one packet each |
| `close_callback` (violation) | Does a tunnel end with its session? | one erased session is enough |
| `unknown_session` (violation) | Is an error only reported for a connection that has a session? | one connection |
| `handshake` | Does a network that keeps the order always lead to a tunnel that delivers? | 3 packets from each device |
| `handshake_unreliable` | Can a tunnel come up with the wrong key or address, or a packet leave unprotected? | one packet from each device, 2 damaged datagrams and any reordering |
| `dispatching_drains` | Is every queue written from as long as its descriptor is open? | 1 connection, the listener, the UDP socket and the device; queues of 2 |
| `library` | Do the parts below the sessions keep what they are relied on for? Is an address ever handed out twice, does the loop call into a closed object, does a commit lose a user, is a packet cut wrongly? | see below |
| `userdb_lock` (violation) | Does a commit keep the users it is not about? | two administrators, one of them refused the lock |
| `framing_padding` (violation) | Is nothing of a packet left behind once all of it has come? | a packet whose size and length field fill whole blocks |
| `serializers_hints` (violation) | Is the hint of a decoder never more than is needed? | vectors of up to 2 elements, strings of up to 2 bytes |
| `events_awaited` (violation) | Does the loop never sleep without a timeout while an event waits? | one event, due in less than a millisecond or in more than an int counts |

The bounds of `library`, by part. *Addresses*: 5 addresses, 6 holders: exhaustion,
wrap-around of `index_` with holes, and the first turn with a partial vector all
occur. *Dispatcher*: 2 connections that share the one descriptor `accept()` returns,
so it is reused; queues of 2, so that a handler leaves something behind; the starts
where one of the two sockets could not be opened are left to `dispatching_drains`.
*Database*: 2 administrators, a lookup, 2 users; a commit has up to 8 writes and may
be cut at each, every call may fail, and a third session meets what is left. *Framing*: 2 packets of 0, 1, 2 and 6 bytes, blocks of 4: a size that is
less than a block, one that fills a block exactly with the length field, one of
two blocks, any cut into reads and one chunk boundary anywhere. *Buffers*: 5 bytes,
chunks of 2 and requests of 3, so 3 chunks, more than the 2 that one write takes.
*Serializers*: every pair and vector of every type, strings and vectors of up to 2,
bytes of 3 values; a number of 4 bytes has leading zeros. *Ranges*: words of 5 bits,
any 2 routes, 3 networks to try. *Events*: 2 one-off events and one with backoff,
delays of 0 and 1 milliseconds from now and from 3 ticks ago, up to 6 ticks, 2 to a
millisecond: an event may be due already, at once or after others, and earlier than
the one whose callback starts it. *Netlink*: 4 requests, of which a set-up takes
3. *SRP*: 2 primes, 2 passwords, 4 salts of which one is too short for the server, one for
the client. *IPC*: 2 calls of both sides together, vectors of up to 2 strings.

Symmetry: clients, connections and session objects are interchangeable in
`server_sessions`, the only run that uses it; `Server`, the holder of the server's own
address, is not in a symmetry set. No liveness property is checked under symmetry.

Fairness: `Handshake` assumes weak fairness of the three socket handlers. Epoll is
used level-triggered and without a bound on handlers per turn, so a socket that
stays ready is reported until its handler ran. Nothing is assumed of the devices.
`FairSpec` of `Dispatching` assumes that the loop goes on (it has no exit), that a
descriptor which stays registered for writing is reported writable again and
again (strong, because a batch may be without it), and that not every write fails.
No fairness is assumed of a network that loses packets: nothing retransmits, so
`Completes` is false there as soon as one message of the handshake is lost.

### What the violation runs show

* `ip_return`: `IPRange::GetIndexAddress` rejects the distance `Size()`, which is
  the address of the last index; `ReturnIP` then leaves it marked for ever. The
  test `GetAddressIndexIndex` states that the two functions are inverse, and does
  not try the last index.
* `close_callback`: nothing calls `close_callback_`, though
  `server-connection-manager.h` promises it, so the tunnel of a session that was
  erased keeps its device registered and its address taken.
* `unknown_session`: a TCP connection closed before its first packet is reported
  to the manager, which asserts that there is a session.
* `userdb_lock`: `Open` leaves its descriptor open when the lock is held by another
  process, and `AddUser` asks only for the descriptor; the administrator who was
  refused truncates the file and commits a map that has only the new user.
* `framing_padding`: `AddPadding` adds a whole block where the length is a multiple of the
  block already, the receiver decodes no more than size and length; the packet
  waits for the next one, or the process aborts, although a comment says that
  the padding is there "so we never end up with leftover data".
* `serializers_hints`: for a vector that is cut within an element the decoder returns
  one byte more than is missing (`serializers.h:197`), and the comment at lines 54-59
  guarantees that it never does. With a stream that ends there, who waits for that
  byte waits for ever.
* `events_awaited`: for an event that is due within the millisecond `GetDelayFrom` takes
  its result of 0 for an overflow and returns the longest delay there is
  (`clock-timers.h:109`); as an int it is negative, and epoll waits without a timeout.
  An event more than 2^31 milliseconds away has the same effect.

A further disagreement is shown by no run of its own: a configuration that passes may
be none (see `ClientSession` above). The comment that says so asks a question and
promises nothing, so the exception is part of `Agreement`.

## Proofs

`IPManagerProofs` proves, for every size of the range and every set of holders,
type correctness, `Exclusive`, `HeldIsMarked`, `ReadsInBounds` and
`ImplementsPool`. The inductive invariant `IInv` adds to them what makes the lazy
growth of `used_` sufficient: its length is either the index reached for the
first time or the whole range (`Grown`), and nothing beyond its end is in use
(`UsedInSlots`). While the vector is short the first probe succeeds, so the
loop never walks to a position that does not exist.

`ServerSessionsProofs` proves every property of the run `server_sessions` for any
number of clients, connections and session objects and any range. `MapOwner`,
`NoForeignErase` and the others are not inductive one by one: that an error finds
its own session needs to know where a tunnel that reads its device can be
(`TunnelsInv`: its session is in the map, or its connection is closed and its
bytes are used up), that in turn needs to know that no packet of a session that
reads its device can fail, and this that such a session is past the handshake
(`Stage`). `Stage` names three stages, before the hello, after it, and connected,
with the protector, tunnel, address and number of replies each allows; `LoopInv`
says that the loop of `HandleRead` goes on without a cached session. The proof of a
step has two halves: what the handler makes of one session (`Outcome`, one lemma
per callback), and that any such outcome keeps the rest (`UpdateKeeps`,
`AbortKeeps`). The addresses are `IPManagerProofs`, instantiated: its lemma
`AllocateIInv` is cited for the step in which the tunnel is made.

`DispatchingProofs` proves the invariants of `Dispatching` for any number of
connections, descriptors and packets. `HandlersInv` relates what handlers change;
the part that makes it inductive is `PendingAgrees`, that `pending_writes_` and
the event mask of an open socket say the same. `BatchInv` relates the batch to it:
what a batch says of an object that is not marked deleted is still true when its
turn comes. A read handler may disturb that only in the ways `Effects` lists.

`HandshakeProofs` is about one client and the server over a network that loses,
duplicates, delays and truncates, for any sessions, range and number of packets:
type correctness, `Agreement` and `DataProtected`. The server's half of the
invariant is that of `ServerSessionsProofs`, instantiated for one UDP client; its
lemmas about a step (`NextIInv`) are cited and not proved again. What is added
relates the two programs across the network. `RepliesTrue` says that every
configuration and every packet of the device on the way, however old, carries the key
and the address that the server's session has now: also the packet that the client
may take for the configuration. That is inductive only because a session of the server
that has sent one never changes either again and is never forgotten on UDP
(`ServerStep`, `OneSession`). `TunnelAgrees` then says the same of a client that
has read one, or what it took for one. The session key is a symbol here: a client
that was deceived has the key `unshared`, and that two ends which followed the
exchange compute one number is left to `Srp`.

Its second half proves `NoSurprise` under `InOrder`: the network keeps the order, no
encoder, device or lookup fails, and the range has more than one address. The first
two are the constants of the run `handshake`. The third is needed: in a range of one
address the server itself has it, and aborts when the first client connects. `Orderly`
says that the two programs are at one point of the server's log: what the client has
read of it decides which callback waits, and the network holds the rest.

`HostProofs` proves of `UserDb`, for any number of processes and users, whichever calls
fail and wherever a process is killed, that the lock has one holder (`OneHolder`),
`UpToDate`, `OwnSecrets` and `CutIsPrefix`. They hold until a process without the lock
reads or commits, which the code permits and the run `userdb_lock` shows; the last two
until a commit writes on after an error, and `UpToDate` and `CutIsPrefix` until an error
of `read()` is taken for the end. The first two are about who may change the file,
whatever it says. For the others the invariant (`FileInv`) adds that the file is a cut of
the dump of a map in which everybody has his own secret, a part of it or none (`Sound`),
and that what a commit has written is a cut of the dump of its map (`Committing`).
A cut (`Cuts`) ends at any cell or within one, by a kill, a short `write()` or a `read()`
that failed. Both rest on a lemma about the parser (`DumpParses`): a dump is parsed to
the map that was dumped, and any cut of it to a map of that kind (`Fine`). It is proved
by induction over the users, cell by cell (`ParsedNext`, `CellsOfRecord`). That a cut of
a cut is one (`CutsOfCuts`) is why nothing is worse after a second failure.

Of `Netlink` it proves `AnswersAreTrue`, for any finite set of networks, any requests
and any cut of the routing table into datagrams. Nobody looks at a sequence number,
so the invariant has to say what is in the socket (`Conversation`): between two
requests nothing, during one the acknowledgement of it, or the part of its listing
that was not read yet. It holds until a `recv` fails.

Of `IPRanges` it proves `ChosenIsFree` and `WordsAreNumbers` for words of any width.
The invariant (`RoutesInv`) says that routes are ranges of the kernel, truncated and
within the addresses, and that the result is one of the attempts and overlaps with no
route. What that is worth is `SharingOverlaps`: ranges that share an address are seen to
overlap, but for the two kinds of route the property names. The code subtracts the
addresses as an int, and takes an overflow for no overlap; the lemma shows that the
difference of two ranges that share an address does not overflow, which needs that the
private networks are neither everything nor a single address (`AttemptsAssumption`). It
needs the two exceptions because `size_` leaves the ends of a range out. An address of
four words is the number in which each word counts Modulus times what the next one
does (`ValueIs`, `Places`). The four turns of `Increment6` keep the sum of that number
and of what is still to be carried (`CarryKeeps`): a word that comes out smaller than
it was has wrapped, so the amount that goes on is one, at the next place; what is
carried out of the first word is a multiple of `TwoTo[4 * Word]`. For `Truncate6`, the
words below the one that is cut are worth less than what is cut off (`ClearedLow`), and
those above it are multiples of it (`ClearedHigh`).

Of `EventScheduler` it proves `EventsInTime`, for any number of events, any delays from
any Timers in the past or future, and any clock that `ClockAssumption` admits, until a
callback has started another event earlier than its own. The invariant (`EventInv`) is
that the heap holds the events that were started, each once (`Once`), and in order
(`Ordered`). Both facts are stated from a place in the heap on: while a callback runs
they hold from the second, where nothing is said of the entry at the top, whose event may
have another time or be in the heap again. What is started then is not earlier than that
event, so sifting up ends below it (`Rising`, `PushPuts`), and the pop takes that entry
and no other, and leaves a heap in order (`PopTakesTop`): the hole sinks with all
around it in order (`OrderedAround`), to a leaf because every turn takes it further
down (`SinksDown`). The first entry of such a heap is the earliest (`TopIsFirst`), so
the sleep follows from what `GetDelayFrom` computes (`DelayIs`): what is left in
milliseconds, rounded up by less than one of them; what wraps at 2^32, and what
is taken for that, becomes the longest delay.

`WireProofs` proves `Intact`, `Prompt` and `OnlyPaddingAborts` for any length of
block and IV, any sizes of packets and any cut of the stream into reads and chunks.
The invariant says where packets lie in the wire (`Layout`) and what the receiver has
made of the one it is at (`Reader`): nothing, or whole blocks from the place where
its decoder was started, short of what `Continue` is asked for. That bound, the size
rounded up to blocks, is `Target`; `Sizes` shows it to be the end of the packet
except when the padding is a block of its own, and then the packet is `Stuck`.
`Continue` is a loop, a fold in the model. One turn of it is all it needs, because
no chunk ends in what it takes (`ChunkEnds`): a new chunk begins only in a read, and
between reads nothing that could be decoded is left (`Quiet`). So a theorem about the
loop itself (`OneTurn`) suffices. It is proved by induction with the lemmas of
`FoldLemmas`, where a set stands for the predicate that the library's induction
theorems would take.

Of `Serializers` it proves `RoundTrip` and `HintsBounded`, for any number of values of a
byte, any numbers and characters, and strings and vectors of any length that 16 bits
can tell, which is what `EncodeToBuffer` refuses to exceed and `SerializersAssumption`
states. There is little to say of the state (`OnItsWay`): no more of a message has come
than there is. The work is in the decoders. Two facts are shown of every shape of
value: given its bytes and more, the decoder takes those and no others (`Reads`); given
less, it asks for more, and for no more than is missing (`Asks`). For an integer they
come from quotients taken one after the other (`QuotientTwice`); its bytes count the
values of `Weight`, a recursive function, where a power would be out of the provers'
reach. Pairs have both facts from their parts. The encoder and the decoder of vectors
are folds, which `FoldLemmas` turns into functions (`EncodeTurns`, `DecodeTurns`); what
lies behind each element (`Tails`) is what the decoder has left when it gets there. In
a vector that is cut each turn either still has all of the elements before the cut or
keeps the status of the one it failed on, and that status counts the byte twice that
`HintsBounded` allows and `HintsFit` does not: the run `serializers_hints` shows that
the comment is wrong, the theorem by how much at most.

Of `Srp` it proves `SharedKey` for any primes, generators, digests, passwords, salts and
random numbers that the assumptions above admit. `ModExp` is a fold, and
what arithmetic knows of powers is proved of it by induction on the exponent
(`PowerOfSum`, `PowerOfPower`, `PowerIsNotZero`). With it the two secrets are one power of the
generator (`SecretsAgree`): the client takes from the server's number what the server
has added to it, and its exponent is not changed by the reduction. The
invariant (`SrpInv`) says of each side what its numbers were computed from, whichever
message it was shown: the secret in the database from a password and a salt
(`SecretKept`), the hello and the key on their way from it (`HelloKept`, `PublicKept`),
and the key of each side from its own random number and the other's public one
(`ClientKept`, `ServerKept`). That the server's secret is not 0 holds for any key that was
forged (`SecretIsNotZero`): the server refuses multiples of the prime, and then neither
what it multiplies nor what it raises to a power is one.

Of `IPC` it proves `CallsHandled`, for any such vectors, any number of calls and any cut
of the two streams. The invariant (`DaemonInv`) says where the reader is: the calls that
were handled are the first of those that were made, what is unparsed followed by
what is still in the stream is what lies behind them (`Behind`), and of the next call
not all is there (`Cut`). It needs what `Serializers` promises of vectors and strings, put
together to the same two facts about a call (`Dispatched`): given all of it and more,
the dispatcher takes the call and nothing else; given less, it asks for more. A call
that is not known is neither, and the invariant holds until one was read (`skewed`). Any
two ways to cut one stream differ by what one part goes beyond the other (`CutTwice`), so a
turn of `HandleRead` given what is unparsed and any part of the rest keeps the
reader at a call (`TurnInStep`). The loop ends, with something to ask for, because a turn
that does not ask takes a byte, whatever the bytes are (`TurnTakes`, `LoopEnded`). Of the
requests the invariant (`RequestInv`) says that what was written and what waits to be
are their codes.

`BuffersProofs` proves `ChunksCounted` and `ReadsStream` for any sizes of chunks and
requests. The invariant of the first (`Good`) counts the references of the placemark too, keeps every cursor in
a chunk (`Placed`), and says that a copy that is not there is at the start. While the
copy is dropped its references are those from a chunk k on that is no longer its own
(`Dropping`), so `UnreferenceCounts`, the lemma about one `Unreference`, is stated for
any places the references may be counted from. What it shows is why only the first
chunk goes: a chunk with one reference left has it from the cursor that is leaving, no
cursor is before it, so the chunk in front of it has no reference, and there is none.
The loops of `Increment`, `Consume` and `UnreferenceFrom` are folds of a turn. A fold
has the values of a function (`Iterates` in `FoldLemmas`), so what every turn keeps
(`TurnCases`, `DropTurn`) holds in the end; that `UnreferenceFrom` gets to the end
of the list needs that each turn takes a chunk or steps over it (`DropGood`).
`ReadsStream` needs what the chunks hold as well (`ReadInv`): each holds the bytes
that follow the ones of the chunk before it, up to the last that was put in
(`Holding`), none between the first and the last is empty (`Gapless`), and what a
cursor has taken is the place it is at (`At`). Every operation that moves a cursor
keeps these, and moves that cursor by what it was asked and no other (`Advanced`);
those that only take chunks from the front keep the bytes of the rest (`Shifted`).
The argument that is not a calculation is that the loops end where they should:
`IncrementIn` and `ConsumeIn` are folds of as many turns as there are chunks and one
more. A turn of `Increment` that leaves something to do leaves fewer chunks after the
cursor (`Room`); one of `Consume` has taken the cursor to an end of a chunk it was not
at before, and there are no more ends than chunks (`Ends`). So the turns suffice.
This is where a chunk that stayed empty would let them down.

The inductive invariants were first checked by TLC on the instances of the runs.
The proofs assume only the named ASSUMEs of the modules, which TLC evaluates in the
runs: that the ranges and bounds are natural numbers, that the values that stand for
"none" are none of the things they are told from, and that the kernel's table is
finite. The properties that a history ends (`missed`, `unlocked`, `misread`, `garbled`,
`gapped`, `crossed`, `skewed`) say so themselves.

Model-checked only, and why:
* liveness, under fairness: out of the prover's reach;
* the violations.

## Not modelled

AES, Blowfish, digests and the random number generator: what they compute is out
of a model checker's reach, and no property depends on it. Terminal, option parsing, logging,
base64 and the textual forms of addresses: I/O or formatting without state. lz4:
vendored, unused. The crypto connection managers and the unethical transcoder: not
linked into any program, the former unfinished. Tools that generate the IPC code.
The client's TCP transcoder as far as sessions go, and the queues of the client's
event loop: `uvpn-client.cc` does not register the one, the others are what
`Dispatching` models for the server.
A cleartext left in a buffer by an encoder that failed is not modelled either: a
failing encoder means that OpenSSL itself failed. Nor are: datagrams of netlink longer
than the 4096 bytes of space, which the kernel truncates or the code refuses with
`LOG_FATAL` (`netlink-interfaces.cc:198-203`, `321-326`); an `lseek()` that fails on the
open file of users (`userdb.cc:123`, `234`); an `epoll_wait()` that fails, after which the
loop calls it again (`epoll-dispatcher.cc:152-156`). What the kernel does with a
socket whose peer does not read, and memory, which the queues may fill, are outside
of every module; bounds stand in for the latter.

The two ends of the daemon controller never meet: `DaemonController` puts the
process's own pid into the name of the socket, the client connects with datagrams
where the server listens for streams, and an accepted connection is never read.
`IPC` models what each end does with bytes, and no property says that a command is
answered.

## Plan

1. The client's own event loop, if something depends on it that
   `Dispatching` does not cover.
