--------------------------- MODULE ServerSessions ---------------------------
(***************************************************************************)
(* The server process: the connection manager and its sessions             *)
(* (server-simple-connection-manager.cc), the two transcoders that feed it *)
(* (server-udp-transcoder.cc, server-tcp-transcoder.cc), the SRP           *)
(* authenticator and the tunnel channel whose callbacks a session runs     *)
(* (srp-server-authenticator.cc, tun-tap-server-channel.cc), and the       *)
(* dispatcher's deferred deletions.  Tunnel addresses come from IPManager. *)
(*                                                                         *)
(* One thread runs everything, so a handler is one action.  The exception  *)
(* is the loop of the TCP HandleRead: each packet it takes out of the      *)
(* stream is one action, and inLoop says which connection is still being   *)
(* drained, during which nothing else runs.                                *)
(***************************************************************************)
EXTENDS Integers, Sequences

CONSTANTS Peers,      \* UDP clients; a session is found by the peer's address
          Conns,      \* TCP connections; a session is found by the connection
          Sids,       \* the Session objects that may ever be allocated (bound)
          Server,     \* the holder of the server's own tunnel address
          NoSession, NoKey, NoConn, NoAddress,  \* null pointers
          Size,       \* usable addresses of the tunnel range
          MaxOut,     \* bound on the packets logged per session
          Failures    \* whether encoders, devices and user lookups may fail

ASSUME KeysAssumption == /\ Peers \intersect Conns = {}
                         /\ NoKey \notin Peers \union Conns
                         /\ NoConn \notin Conns
ASSUME SidsAssumption == NoSession \notin Sids /\ Server \notin Sids
ASSUME RangeAssumption == Size \in Nat \ {0} /\ NoAddress \notin 1..Size
ASSUME MaxOutAssumption == MaxOut \in Nat
ASSUME FailuresAssumption == Failures \in BOOLEAN

Keys == Peers \union Conns

VARIABLES
  sessions,  \* sessions_map_: the session of a key, or NoSession
  object,    \* object[s]: the fields of Session object s
  conn,      \* conn[c]: "idle" until accepted, then "open", then "closed"
  cached,    \* cached[c]: session_ and decoder_ of TCP connection c
  inLoop,    \* the connection whose HandleRead is running, or NoConn
  doomed,    \* pending_deletions_, the sessions in it
  released,  \* the sessions the dispatcher has dropped from it (history)
  fault,     \* "none" while the process runs, else what aborted it
  slots, used, index, holds  \* the IPManager

addressVars == <<slots, used, index, holds>>
vars == <<sessions, object, conn, cached, inLoop, doomed, released, fault,
          slots, used, index, holds>>

IPM == INSTANCE IPManager WITH Holders <- Sids \union {Server}

-----------------------------------------------------------------------------
(***************************************************************************)
(* Session objects.  read_callback_ is "start" (StartAuthenticator),       *)
(* "hello" (ParsePublicKeyCallback) or "channel" (ClientReadCallback).     *)
(* The protectors are created on demand as scramblers and replaced         *)
(* together, so one field stands for encoder_ and decoder_: "scramble",    *)
(* "aes" under the key the client derives too, or "unshared", AES under a  *)
(* key derived from something that was no public key.  tun is the tunnel   *)
(* session made for s: "none", "made", or "reading" once the tun device's  *)
(* read callback is registered.  out logs what was queued for the client,  *)
(* as pairs of message and protector.                                      *)
(***************************************************************************)
Protectors == {"scramble", "aes", "unshared"}
Replies == {"hello", "key", "config", "data"}

Unallocated == [key |-> NoKey, reader |-> "start", protector |-> "scramble",
                tun |-> "none", out |-> <<>>]

NewSessionUnscrambled(k) ==  \* mutation
  [Unallocated EXCEPT !.key = k, !.protector = "none"]
NewSession(k) == [Unallocated EXCEPT !.key = k]

\* The TCP connection's session_ and decoder_ are null.
Unbound == [session |-> NoSession, decoder |-> "none"]

Init == /\ sessions = [k \in Keys |-> NoSession]
        /\ object = [s \in Sids |-> Unallocated]
        /\ conn = [c \in Conns |-> "idle"]
        /\ cached = [c \in Conns |-> Unbound]
        /\ inLoop = NoConn
        /\ doomed = {} /\ released = {}
        /\ fault = "none"
        \* TunTapServerChannel::Init has allocated the server's address.
        /\ slots = 1 /\ used = {0} /\ index = 1 % Size
        /\ holds = [h \in Sids \union {Server} |->
                      IF h = Server THEN 1 ELSE NoAddress]

Running == fault = "none"

\* The dispatcher may call the next handler.
Idle == Running /\ inLoop = NoConn

\* LOG_FATAL, a failed assertion or a null dereference: the process is gone.
Abort(why) ==
  /\ fault' = why
  /\ UNCHANGED <<sessions, object, conn, doomed, addressVars>>

-----------------------------------------------------------------------------
(* Errors.  m is the session map as the handler sees it.                   *)

ErasedNot(m, k) == m  \* mutation
Erased(m, k) == [m EXCEPT ![k] = NoSession]

\* Session::HandleError, called on session s.
SessionError(s, k, m) ==
  IF m[k] = NoSession
  THEN sessions' = m /\ UNCHANGED <<conn, doomed, fault>>
  ELSE /\ sessions' = Erased(m, k)
       /\ IF m[k] = s
          THEN /\ conn' = [c \in Conns |-> IF c = k THEN "closed" ELSE conn[c]]
               /\ doomed' = doomed \union {s}
               /\ UNCHANGED fault
          ELSE fault' = "foreign session" /\ UNCHANGED <<conn, doomed>>

NoError(m) == sessions' = m /\ UNCHANGED <<conn, doomed, fault>>

\* Session::SendMessage: a failure of the encoder is an error of the session
\* on a TCP connection; on UDP the caller is told and nothing else happens.
SendMessage(s, k, m, sent) ==
  IF sent \/ k \in Peers THEN NoError(m) ELSE SessionError(s, k, m)

\* Whether an encoder may do its work.
Outcomes == IF Failures THEN BOOLEAN ELSE {TRUE}

\* The packet is in the queue of the connection.
Queued(o, message) == [o EXCEPT !.out = Append(@, <<message, o.protector>>)]

-----------------------------------------------------------------------------
(* What a session does with a packet, o being its fields before.           *)

\* AuthenticationSession::StartAuthentication
StartAuthentication(s, o, m, body) ==
  \/ /\ body = "hello"
     /\ \E sent \in Outcomes :
          /\ SendMessage(s, o.key, m, sent)
          /\ object' = [object EXCEPT ![s] =
               IF sent THEN [Queued(o, "hello") EXCEPT !.reader = "hello"] ELSE o]
     /\ UNCHANGED addressVars
  \/ (Failures \/ body # "hello") /\ Abort("authentication")

\* Whether the tunnel session's constructor gets to AddFd.
TunAlwaysReading(sent) == "reading"  \* mutation
TunAfterConfig(sent) == IF sent THEN "reading" ELSE "made"

\* TunTapServerChannel::Session::Session; without an address for the client,
\* or without the interface of a device it could not open, it goes on to
\* dereference client_address_ or interface_.
HandleConnect(s, o, m) ==
  \/ /\ IPM!AllocateIP(s)
     /\ \E sent \in Outcomes :
          /\ SendMessage(s, o.key, m, sent)
          /\ object' = [object EXCEPT ![s] =
               [IF sent THEN Queued(o, "config") ELSE o EXCEPT
                  !.reader = "channel", !.tun = TunAfterConfig(sent)]]
  \/ /\ \A i \in IPM!Indexes : ~IPM!Usable(i)
     /\ Abort("no address")
  \/ Failures /\ Abort("no device")

AuthenticatedInTheClear(o, body) == o  \* mutation: no SetEncoder, SetDecoder
\* AuthenticationDoneHandler replaces both protectors.
Authenticated(o, body) ==
  [o EXCEPT !.protector = IF body = "key" THEN "aes" ELSE "unshared"]

\* AuthenticationSession::ParsePublicKeyCallback.  Anything that starts with
\* a length and has that many bytes passes for a public key.
ParsePublicKey(s, o, m, body) ==
  \/ HandleConnect(s, Authenticated(Queued(o, "key"), body), m)
  \/ /\ Failures
     /\ SendMessage(s, o.key, m, FALSE)
     /\ object' = [object EXCEPT ![s] = o]
     /\ UNCHANGED addressVars
  \/ /\ body # "key"
     /\ NoError(m)
     /\ object' = [object EXCEPT ![s] = o]
     /\ UNCHANGED addressVars
  \/ body # "key" /\ Abort("authentication")

\* TunTapServerChannel::Session::ClientReadCallback queues for the device.
ClientRead(s, o, m) ==
  /\ NoError(m)
  /\ object' = [object EXCEPT ![s] = o]
  /\ UNCHANGED addressVars

\* Session::HandlePacket runs read_callback_.
HandlePacket(s, o, m, body) ==
  \/ o.reader = "start" /\ StartAuthentication(s, o, m, body)
  \/ o.reader = "hello" /\ ParsePublicKey(s, o, m, body)
  \/ o.reader = "channel" /\ ClientRead(s, o, m)

\* Clients scramble their hello and their key and encrypt their data.
ProtectorOf(kind) == IF kind = "data" THEN "aes" ELSE "scramble"

\* What a packet decodes to under protector d.
Decoded(kind, d) == IF ProtectorOf(kind) = d THEN kind ELSE "garbage"

Decode(s, o, m, kind, d) ==
  \/ HandlePacket(s, o, m, Decoded(kind, d))
  \/ ProtectorOf(kind) # d /\ Abort("decryption")

-----------------------------------------------------------------------------
(* GetSession, and CreateSession when there is none.                       *)

Found(k, s) == IF sessions[k] = NoSession
               THEN object[s].key = NoKey ELSE sessions[k] = s

FieldsOf(k, s) == IF sessions[k] = NoSession THEN NewSession(k) ELSE object[s]

WithSession(k, s) == [sessions EXCEPT ![k] = s]

\* ServerUdpTranscoder::HandleRead.  A datagram too short for the random key
\* or the IV it must start with is an error of the session.
UdpHandleRead(k, kind) ==
  /\ Idle
  /\ \E s \in Sids :
       /\ Found(k, s)
       /\ LET o == FieldsOf(k, s)
              m == WithSession(k, s)
          IN \/ kind # "short" /\ Decode(s, o, m, kind, o.protector)
             \/ /\ kind = "short"
                /\ SessionError(s, k, m)
                /\ object' = [object EXCEPT ![s] = o]
                /\ UNCHANGED addressVars
  /\ UNCHANGED <<cached, inLoop, released>>

\* ServerTcpTranscoder::HandleConnection
HandleConnection(c) ==
  /\ Idle /\ conn[c] = "idle"
  /\ conn' = [conn EXCEPT ![c] = "open"]
  /\ UNCHANGED <<sessions, object, cached, inLoop, doomed, released, fault,
                 addressVars>>

\* HandleRead has bytes of c to look at: it has just read some, or the loop
\* goes on with what an earlier packet left in the buffer, whatever happened
\* to the connection since.
HasBytes(c) == \/ Running /\ inLoop = c
               \/ Idle /\ conn[c] = "open"

\* The loop binds the connection to session s.
Bound(c, s) == IF cached[c].session = NoSession
               THEN Found(c, s) ELSE cached[c].session = s

BoundFields(c, s) == IF cached[c].session = NoSession
                     THEN FieldsOf(c, s) ELSE object[s]

BoundSessions(c, s) == IF cached[c].session = NoSession
                       THEN WithSession(c, s) ELSE sessions

\* ... and to the decoder the session has now, unless a packet is under way.
BoundDecoder(c, o) == IF cached[c].decoder = "none"
                      THEN o.protector ELSE cached[c].decoder

\* What the loop leaves in session_ and decoder_ after a packet.
AfterPacketKeepsSession(c) == [cached EXCEPT ![c].decoder = "none"]  \* mutation
AfterPacketKeepsDecoder(c) == [cached EXCEPT ![c].session = NoSession]  \* mutation
AfterPacket(c) == [cached EXCEPT ![c] = Unbound]

\* One turn of the loop of HandleRead: the rest of a packet is there.
TcpPacket(c, kind) ==
  /\ HasBytes(c)
  /\ \E s \in Sids :
       /\ Bound(c, s)
       /\ LET o == BoundFields(c, s)
          IN Decode(s, o, BoundSessions(c, s), kind, BoundDecoder(c, o))
  /\ cached' = AfterPacket(c)
  /\ inLoop' \in {c, NoConn}   \* more bytes in the buffer, or not
  /\ UNCHANGED released

\* The last turn: the bytes end inside a packet, before or after its first
\* bytes, which start the decoder.
TcpPartial(c) ==
  /\ HasBytes(c)
  /\ \E s \in Sids :
       /\ Bound(c, s)
       /\ LET o == BoundFields(c, s)
          IN /\ object' = [object EXCEPT ![s] = o]
             /\ \E d \in {cached[c].decoder, BoundDecoder(c, o)} :
                  cached' = [cached EXCEPT ![c] = [session |-> s, decoder |-> d]]
       /\ NoError(BoundSessions(c, s))
  /\ inLoop' = NoConn
  /\ UNCHANGED <<released, addressVars>>

\* The last turn, when the decoder cannot be started on the first bytes.
TcpDecodeError(c) ==
  /\ HasBytes(c)
  /\ cached[c].decoder = "none"
  /\ \E s \in Sids :
       /\ Bound(c, s)
       /\ object' = [object EXCEPT ![s] = BoundFields(c, s)]
       /\ cached' = [cached EXCEPT ![c].session = s]
       /\ SessionError(s, c, BoundSessions(c, s))
  /\ inLoop' = NoConn
  /\ UNCHANGED <<released, addressVars>>

\* HandleRead finds the connection closed or failing, and reports it without
\* a session: ServerSimpleConnectionManager::HandleError looks it up.
TcpClosed(c) ==
  /\ Idle /\ conn[c] = "open"
  /\ IF sessions[c] = NoSession
     THEN Abort("no session")
     ELSE /\ SessionError(sessions[c], c, sessions)
          /\ UNCHANGED <<object, addressVars>>
  /\ UNCHANGED <<cached, inLoop, released>>

\* TunTapServerChannel::Session::TunTapReadCallback
TunTapRead(s) ==
  /\ Idle
  /\ object[s].tun = "reading"
  /\ Len(object[s].out) < MaxOut
  /\ \E sent \in Outcomes :
       /\ SendMessage(s, object[s].key, sessions, sent)
       /\ object' = [object EXCEPT ![s] = IF sent THEN Queued(@, "data") ELSE @]
  /\ UNCHANGED <<cached, inLoop, released, addressVars>>

\* The head of the loop of EpollDispatcher::Start.  It deletes the Holders of
\* the sessions, and ~Holder does not call Delete(): the objects stay, and so
\* do the callbacks that point to them.
DeletePending ==
  /\ Idle /\ doomed # {}
  /\ released' = released \union doomed
  /\ doomed' = {}
  /\ UNCHANGED <<sessions, object, conn, cached, inLoop, fault, addressVars>>

Next ==
  \/ \E k \in Peers, kind \in {"hello", "key", "data", "short"} :
       UdpHandleRead(k, kind)
  \/ \E c \in Conns : HandleConnection(c)
  \/ \E c \in Conns, kind \in {"hello", "key", "data"} : TcpPacket(c, kind)
  \/ \E c \in Conns : TcpPartial(c) \/ TcpDecodeError(c) \/ TcpClosed(c)
  \/ \E s \in Sids : TunTapRead(s)
  \/ DeletePending

Spec == Init /\ [][Next]_vars

-----------------------------------------------------------------------------
Fields == [key : Keys \union {NoKey}, reader : {"start", "hello", "channel"},
           protector : Protectors, tun : {"none", "made", "reading"},
           out : Seq(Replies \X Protectors)]

TypeOK ==
  /\ sessions \in [Keys -> Sids \union {NoSession}]
  /\ object \in [Sids -> Fields]
  /\ conn \in [Conns -> {"idle", "open", "closed"}]
  /\ cached \in [Conns -> [session : Sids \union {NoSession},
                          decoder : Protectors \union {"none"}]]
  /\ inLoop \in Conns \union {NoConn}
  /\ doomed \subseteq Sids /\ released \subseteq Sids
  /\ fault \in {"none", "foreign session", "no session", "authentication",
                "decryption", "no address", "no device"}
  /\ IPM!TypeOK

\* The session the map has for a key is a session of that key, and no session
\* that was handed to DeleteLater can be found again: GetSession never
\* returns an object the dispatcher is about to delete
\* (server-simple-connection-manager.cc:15-35, 145-163).
MapOwner ==
  \A k \in Keys :
    sessions[k] # NoSession =>
      object[sessions[k]].key = k /\ sessions[k] \notin doomed \union released

\* A session that reports an error never finds another one under its key
\* (the assertion of Session::HandleError), although a tunnel goes on sending
\* for a session the map has forgotten and the loop of HandleRead goes on
\* with a connection its last packet closed.
NoForeignErase == fault # "foreign session"

\* Packets reach the tunnel of a session exactly when it has been built: the
\* session has left the scrambler and has a tunnel address of its own.
ChannelReady ==
  /\ \A s \in Sids :
       LET built == object[s].reader = "channel"
       IN /\ built <=> object[s].protector # "scramble"
          /\ built <=> object[s].tun # "none"
          /\ built <=> holds[s] # NoAddress
  /\ IPM!Exclusive

\* What a client gets from a session, and under which protector: the two
\* messages of the handshake scrambled, then the tunnel configuration and
\* then packets of the device, encrypted with the key of the session.  No
\* packet of the device overtakes the configuration, whichever SendMessage
\* failed.
Expected(n, protector) ==
  CASE n = 1 -> <<"hello", "scramble">>
    [] n = 2 -> <<"key", "scramble">>
    [] n = 3 -> <<"config", protector>>
    [] OTHER -> <<"data", protector>>

ReplyOrder ==
  \A s \in Sids : \A n \in DOMAIN object[s].out :
    object[s].out[n] = Expected(n, object[s].protector)

\* The session_ and decoder_ a TCP connection keeps between two reads, in the
\* middle of a packet, are those its session has in the map and uses.
CachedPointersLive ==
  \A c \in Conns :
    conn[c] = "open" /\ cached[c] # Unbound =>
      /\ cached[c].session # NoSession
      /\ sessions[c] = cached[c].session
      /\ cached[c].decoder \in {"none", object[sessions[c]].protector}

\* A session handed to DeleteLater handles no packet any more and changes no
\* field, be it the rest of what its connection sent before the error or a
\* later packet of the same client, which needs a session of its own; all it
\* may still do is send, for the tunnel whose callbacks point to it.
ForgottenRests ==
  [][\A s \in doomed \union released :
       /\ holds'[s] = holds[s]
       /\ object'[s] = [object[s] EXCEPT !.out = object'[s].out]]_vars

-----------------------------------------------------------------------------
(* What the comments and assertions of the code say and the code does not. *)

\* server-connection-manager.h:61-62: the channel is notified "when session
\* is closed", so that a tunnel does not outlive its session.
TunnelsHaveSessions ==
  \A s \in Sids : object[s].tun # "none" => sessions[object[s].key] = s

\* server-simple-connection-manager.cc:141: an error is only reported for a
\* connection that has a session.
NoUnknownSession == fault # "no session"
=============================================================================
