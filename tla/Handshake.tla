----------------------------- MODULE Handshake -----------------------------
(***************************************************************************)
(* One client (ClientSession) and the server (ServerSessions), connected   *)
(* by UDP.  The server's queue of packets for the client is part of the    *)
(* network here; the client's own is not.                                  *)
(*                                                                         *)
(* The network delivers in order what it was given or, when Unreliable,    *)
(* anything in any order, or never; MaxDamage bounds how often it          *)
(* duplicates a datagram or truncates one for the client.                  *)
(***************************************************************************)
EXTENDS Integers, Sequences, SequencesExt

CONSTANTS Client, Sids, Server, NoSession, NoKey, NoConn, NoAddress, Size,
          MaxOut,      \* bound on the packets of the server's session
          Misread,     \* as in ClientSession
          MaxData,     \* bound on the packets of the client's device
          Failures,    \* as in ClientSession and ServerSessions
          Unreliable,  \* whether the network reorders, duplicates, truncates
          MaxDamage    \* bound on duplicated and truncated datagrams

ASSUME NetworkAssumption == Unreliable \in BOOLEAN /\ MaxDamage \in Nat
ASSUME ClientAssumption == Failures \in BOOLEAN /\ MaxData \in Nat
\* What ServerSessions assumes, for one UDP client.
ASSUME ServerAssumption == /\ NoKey # Client
                           /\ NoSession \notin Sids /\ Server \notin Sids
                           /\ Size \in Nat \ {0} /\ NoAddress \notin 1..Size
                           /\ MaxOut \in Nat

VARIABLES
  reader, protector, mistaken, tun, address, known, queue, read, delivered,
  crash,                        \* the client
  sessions, object, conn, cached, inLoop, doomed, released, fault,
  slots, used, index, holds,    \* the server
  toServer,  \* messages on their way to the server, with their protector
  toClient,  \* ... to the client, with the address a configuration gives
  damage     \* how often the network has duplicated or truncated

S == INSTANCE ServerSessions WITH Peers <- {Client}, Conns <- {}
C == INSTANCE ClientSession

networkVars == <<toServer, toClient, damage>>
clientVars == <<reader, protector, mistaken, tun, address, known, queue, read,
                delivered, crash>>
serverVars == <<sessions, object, conn, cached, inLoop, doomed, released, fault,
                slots, used, index, holds>>
vars == <<clientVars, serverVars, networkVars>>

Init == /\ S!Init /\ C!Init
        /\ toServer = <<>> /\ toClient = <<>> /\ damage = 0

\* The datagrams of a network that may be the next to arrive.
Arriving(network) == IF Unreliable THEN DOMAIN network ELSE {1} \intersect DOMAIN network

-----------------------------------------------------------------------------
Datagram(reply, a) ==
  [message |-> reply[1], protector |-> reply[2], address |-> a]

\* What the last step made the server queue for the client.
NewReplies(s) ==
  LET new == SubSeq(object'[s].out, Len(object[s].out) + 1, Len(object'[s].out))
  IN [n \in DOMAIN new |-> Datagram(new[n], holds'[s])]

ServerReplies ==
  \E s \in Sids : /\ toClient' = toClient \o NewReplies(s)
                  /\ \A t \in Sids \ {s} : object'[t].out = object[t].out

\* ServerUdpTranscoder::HandleRead
ServerReceives ==
  /\ \E i \in Arriving(toServer) :
       /\ S!UdpHandleRead(Client, toServer[i][1])
       /\ toServer' = RemoveAt(toServer, i)
  /\ ServerReplies
  /\ UNCHANGED <<clientVars, damage>>

\* The server's tunnel session reads a packet from its device.
ServerForwards ==
  /\ \E s \in Sids : S!TunTapRead(s)
  /\ ServerReplies
  /\ UNCHANGED <<clientVars, toServer, damage>>

\* The client's socket is writable.
ClientSends ==
  /\ C!HandleWrite
  /\ toServer' = Append(toServer, Head(queue))
  /\ UNCHANGED <<serverVars, toClient, damage>>

\* ClientUdpTranscoder::Connection::HandleRead
ClientReceives ==
  /\ \E i \in Arriving(toClient) :
       /\ LET d == toClient[i]
          IN \/ d.message # "short" /\ C!HandleRead(d.message, d.protector, d.address)
             \/ d.message = "short" /\ C!HandleReadShort
       /\ toClient' = RemoveAt(toClient, i)
  /\ UNCHANGED <<serverVars, toServer, damage>>

\* The client's tunnel session reads a packet from its device.
ClientForwards == C!TunTapRead /\ UNCHANGED <<serverVars, networkVars>>

Damages == Unreliable /\ damage < MaxDamage /\ damage' = damage + 1

DuplicateToServer ==
  /\ Damages
  /\ \E i \in DOMAIN toServer : toServer' = Append(toServer, toServer[i])
  /\ UNCHANGED <<clientVars, serverVars, toClient>>

DuplicateToClient ==
  /\ Damages
  /\ \E i \in DOMAIN toClient : toClient' = Append(toClient, toClient[i])
  /\ UNCHANGED <<clientVars, serverVars, toServer>>

Truncate ==
  /\ Damages
  /\ \E i \in DOMAIN toClient :
       toClient' = [toClient EXCEPT ![i].message = "short"]
  /\ UNCHANGED <<clientVars, serverVars, toServer>>

Next == \/ ServerReceives \/ ServerForwards
        \/ ClientSends \/ ClientReceives \/ ClientForwards
        \/ DuplicateToServer \/ DuplicateToClient \/ Truncate

\* Epoll is level triggered: a socket that stays readable or writable is
\* reported until its handler has run.  The devices owe nobody a packet.
Fairness == /\ WF_vars(ServerReceives)
            /\ WF_vars(ClientSends)
            /\ WF_vars(ClientReceives)

Spec == Init /\ [][Next]_vars
FairSpec == Spec /\ Fairness

-----------------------------------------------------------------------------
TypeOK == /\ C!TypeOK /\ S!TypeOK
          /\ toServer \in Seq({"hello", "key", "data"} \X S!Protectors)
          /\ damage \in 0..MaxDamage

\* When the client's tunnel is up the server's is, under the same key,
\* whatever arrived twice, late, or in the place of something else; and the
\* client's device has the address the server routes to it, unless a packet
\* of the device was taken for the configuration.
Agreement ==
  tun = "reading" =>
    \E s \in Sids : /\ sessions[Client] = s
                    /\ object[s].reader = "channel"
                    /\ object[s].protector = "aes" /\ protector = "aes"
                    /\ "config" \notin mistaken => holds[s] = address

\* The client sends no packet of its device before it shares a key with the
\* server: none is ever scrambled or under a key the server does not have.
DataProtected ==
  \A n \in DOMAIN toServer :
    toServer[n][1] = "data" => toServer[n][2] = "aes"

\* A network that delivers in order upsets neither program.
NoSurprise == crash = "none" /\ fault = "none"

\* ... and the client gets its tunnel, in one exchange of hellos and keys.
Completes == <>(tun = "reading")

\* ... through which every packet of the server's device then gets to the
\* client's: none is taken for a message of the handshake or left behind.
EveryPacketArrives ==
  <>[](\A s \in Sids : sessions[Client] = s =>
         delivered = Len(SelectSeq(object[s].out, LAMBDA p : p[1] = "data")))
=============================================================================
