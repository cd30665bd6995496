--------------------------- MODULE ClientSession ---------------------------
(***************************************************************************)
(* The client process: its connection manager and the one session          *)
(* AddConnection creates (client-simple-connection-manager.cc), the UDP    *)
(* transcoder (client-udp-transcoder.cc), the SRP authenticator and the    *)
(* tunnel channel (srp-client-authenticator.cc, tun-tap-client-channel.cc).*)
(*                                                                         *)
(* One thread runs everything, so a handler is one action.  The datagrams  *)
(* the client receives and those it sends are parameters of the actions.   *)
(***************************************************************************)
EXTENDS Integers, Sequences

CONSTANTS NoAddress,  \* no tunnel address yet
          Misread,    \* the address in what passes for a configuration
          Failures,   \* whether encoders and devices may fail
          MaxData     \* bound on the packets read from the device

VARIABLES
  reader,     \* read_callback_: what the next packet is taken for
  protector,  \* encoder_ and decoder_, replaced together
  mistaken,   \* what something else was taken for: the server's hello, its
              \* configuration (history)
  tun,        \* the device: "closed", "open", or "reading" when registered
  address,    \* the tunnel address the device has
  known,      \* whether sessions_map_ has the session
  queue,      \* queue_ of the connection, as pairs of message and protector
  read,       \* packets read from the device so far
  delivered,  \* packets queued for the device so far
  crash       \* "none" while the process runs, else what aborted it

clientVars ==
  <<reader, protector, mistaken, tun, address, known, queue, read, delivered,
    crash>>

\* The session's state, which errors leave alone.
sessionVars ==
  <<reader, protector, mistaken, tun, address, queue, read, delivered>>

Readers == {"hello", "key", "config", "packet"}
Outcomes == IF Failures THEN BOOLEAN ELSE {TRUE}

\* SendMessage: the packet is queued, unless the encoder fails, which no
\* caller looks at.
SentNot(message, protected) == queue' = queue  \* mutation
Sent(message, protected) ==
  \E sent \in Outcomes :
    queue' = IF sent THEN Append(queue, <<message, protected>>) ELSE queue

\* AddConnection has queued the hello.
Init == /\ reader = "hello" /\ protector = "scramble" /\ mistaken = {}
        /\ tun = "closed" /\ address = NoAddress
        /\ known = TRUE
        /\ \E sent \in Outcomes :
             queue = IF sent THEN <<<<"hello", "scramble">>>> ELSE <<>>
        /\ read = 0 /\ delivered = 0
        /\ crash = "none"

Running == crash = "none"

\* LOG_FATAL, a failed assertion or a null dereference.
Abort(why) == crash' = why /\ UNCHANGED <<sessionVars, known>>

-----------------------------------------------------------------------------
(* The read callbacks.  body is what the packet decoded to.                *)

\* A callback that cannot parse its packet: "need more data".
Ignored == UNCHANGED sessionVars

\* HelloCallback
Hello(body) ==
  \/ /\ reader' = "key"
     /\ mistaken' = IF body = "hello" THEN {} ELSE {"hello"}
     /\ Sent("key", protector)
     /\ UNCHANGED <<protector, tun, address, read, delivered, known, crash>>
  \/ body # "hello" /\ Ignored /\ UNCHANGED <<known, crash>>
  \/ body # "hello" /\ Abort("hello")

\* The key PublicKeyCallback derives is one the server may have when both
\* answers of the server are what they were taken for.
DerivedKeyWrong(body) == "unshared"  \* mutation
DerivedKeyUnset(body) == "none"  \* mutation: the protectors are not set
DerivedKey(body) == IF body = "key" /\ mistaken = {} THEN "aes" ELSE "unshared"

\* PublicKeyCallback, and AuthenticationDone, which builds the tunnel session.
PublicKey(body) ==
  \/ /\ reader' = "config"
     /\ protector' = DerivedKey(body)
     /\ UNCHANGED <<mistaken, tun, address, queue, read, delivered, known,
                    crash>>
  \/ body # "key" /\ Ignored /\ UNCHANGED <<known, crash>>
  \/ body # "key" /\ Abort("key")

\* ServerConfigCallback takes flags and pairs with the two addresses, which a
\* packet of the server's device may spell out too; what a wrong key makes of
\* a packet is taken not to.  Any packet that is not the configuration may
\* have an empty list of values where the configuration has its own: the
\* device is opened, then client_address is dereferenced.
ServerConfig(body, given) ==
  \/ /\ body \in {"config", "data"}
     /\ reader' = "packet" /\ tun' = "reading"
     /\ IF body = "config"
        THEN address' = given /\ UNCHANGED mistaken
        ELSE address' = Misread /\ mistaken' = mistaken \union {"config"}
     /\ UNCHANGED <<protector, queue, read, delivered, known, crash>>
  \/ body # "config" /\ Ignored /\ UNCHANGED <<known, crash>>
  \/ /\ Failures
     /\ tun' \in {tun, "open"}   \* how far it got before an error
     /\ UNCHANGED <<reader, protector, mistaken, address, queue, read,
                    delivered, known, crash>>
  \/ body # "config" /\ Abort("null address")

ServerPacketDropped ==  \* mutation: Queued() is forgotten
  UNCHANGED <<sessionVars, known, crash>>
\* ServerPacketCallback queues for the device.
ServerPacket ==
  /\ delivered' = delivered + 1
  /\ UNCHANGED <<reader, protector, mistaken, tun, address, queue, read, known,
                 crash>>

\* Session::HandlePacket runs read_callback_.
HandlePacket(body, given) ==
  \/ reader = "hello" /\ Hello(body)
  \/ reader = "key" /\ PublicKey(body)
  \/ reader = "config" /\ ServerConfig(body, given)
  \/ reader = "packet" /\ ServerPacket

\* What a packet protected by p decodes to.
DecodedUnchecked(message, p) == message  \* mutation
Readable(p) == p = protector /\ p # "unshared"
Decoded(message, p) == IF Readable(p) THEN message ELSE "garbage"

-----------------------------------------------------------------------------
\* HandleWrite sends the packet at the head of the queue.
HandleWrite ==
  /\ Running /\ queue # <<>>
  /\ queue' = Tail(queue)
  /\ UNCHANGED <<reader, protector, mistaken, tun, address, known, read,
                 delivered, crash>>

\* HandleRead, of a datagram with a message for this address protected by p.
HandleRead(message, p, given) ==
  /\ Running
  /\ IF known
     THEN \/ HandlePacket(Decoded(message, p), given)
          \/ ~Readable(p) /\ Abort("decryption")
     ELSE Abort("no session")

\* HandleRead, of a datagram that cannot be decoded: Session::HandleError.
\* The connection's Close does nothing and its socket goes on reading.
HandleReadShort ==
  /\ Running
  /\ IF known
     THEN known' = FALSE /\ UNCHANGED <<sessionVars, crash>>
     ELSE Abort("no session")

\* TunTapReadCallback, which does not know whether the session is known.
TunTapRead ==
  /\ Running /\ tun = "reading" /\ read < MaxData
  /\ read' = read + 1
  /\ Sent("data", protector)
  /\ UNCHANGED <<reader, protector, mistaken, tun, address, known, delivered,
                 crash>>

-----------------------------------------------------------------------------
TypeOK ==
  /\ reader \in Readers
  /\ protector \in {"scramble", "aes", "unshared"}
  /\ mistaken \subseteq {"hello", "config"}
  /\ tun \in {"closed", "open", "reading"}
  /\ known \in BOOLEAN
  /\ queue \in Seq({"hello", "key", "data"} \X {"scramble", "aes", "unshared"})
  /\ read \in 0..MaxData
  /\ delivered \in Nat
=============================================================================
