--------------------------- MODULE HandshakeProofs ---------------------------
(***************************************************************************)
(* What a client and the server agree on (Handshake), for any number of    *)
(* session objects, any tunnel range and any number of packets.            *)
(*                                                                         *)
(* SP is ServerSessionsProofs for one UDP client and no TCP connection:    *)
(* the server keeps its own invariant, from which the log of replies is in *)
(* order.  What is added here is that the server never forgets the session *)
(* of the client and never changes the key or the address of a session     *)
(* once a configuration has left (ServerStep), so whatever the server sent *)
(* since, however late or often it arrives, came of the session the server *)
(* still has (RepliesTrue): also the packet of its device that the client  *)
(* may take for the configuration.  The second half of the module is about *)
(* a network that keeps the order.                                         *)
(***************************************************************************)
EXTENDS Handshake, TLAPS

SP == INSTANCE ServerSessionsProofs WITH Peers <- {Client}, Conns <- {}

Messages == {"hello", "key", "data"} \X SP!Protectors
Datagrams == [message : SP!Replies \union {"short"}, protector : SP!Protectors,
              address : 1..Size \union {NoAddress}]

WireOK == /\ toServer \in Seq(Messages)
          /\ toClient \in Seq(Datagrams)
          /\ damage \in 0..MaxDamage

\* The client has one session, which is never forgotten.
OneSession ==
  \A s \in Sids : object[s].key # NoKey => sessions[Client] = s

\* The server's end of the client's tunnel: key p, address a.
Serves(s, p, a) ==
  /\ sessions[Client] = s
  /\ object[s].reader = "channel"
  /\ object[s].protector = p
  /\ holds[s] = a

\* What is sent once a session has its tunnel.
Late == {"config", "data"}

RepliesTrue ==
  \A n \in DOMAIN toClient :
    toClient[n].message \in Late =>
      \E s \in Sids : Serves(s, toClient[n].protector, toClient[n].address)

TunnelAgrees ==
  /\ tun = "reading" <=> reader = "packet"
  /\ reader = "packet" =>
       /\ protector = "aes"
       /\ \E s \in Sids, a \in 1..Size \union {NoAddress} :
            Serves(s, "aes", a) /\ ("config" \notin mistaken => a = address)

Protected(q) == \A n \in DOMAIN q : q[n][1] = "data" => q[n][2] = "aes"

IInv == /\ SP!IInv
        /\ C!TypeOK
        /\ WireOK
        /\ OneSession
        /\ RepliesTrue
        /\ TunnelAgrees
        /\ Protected(queue) /\ Protected(toServer)

-----------------------------------------------------------------------------
(* Sequences.                                                              *)

\* What is left of a sequence was there before.
LEMMA RemoveAtKeeps ==
  ASSUME NEW T, NEW q \in Seq(T), NEW i \in DOMAIN q
  PROVE  /\ RemoveAt(q, i) \in Seq(T)
         /\ \A n \in DOMAIN RemoveAt(q, i) :
              \E m \in DOMAIN q : RemoveAt(q, i)[n] = q[m]
<1> DEFINE a == SubSeq(q, 1, i - 1)
           b == SubSeq(q, i + 1, Len(q))
<1>1. i \in 1..Len(q) /\ Len(q) \in Nat
  OBVIOUS
<1>2. /\ a \in Seq(T) /\ Len(a) = i - 1
      /\ \A n \in 1..(i - 1) : a[n] = q[n]
  BY <1>1
<1>3. /\ b \in Seq(T) /\ Len(b) = Len(q) - i
      /\ \A n \in 1..(Len(q) - i) : b[n] = q[i + n]
  BY <1>1
<1>4. RemoveAt(q, i) = a \o b
  BY DEF RemoveAt
<1> HIDE DEF a, b
<1>5. /\ a \o b \in Seq(T) /\ Len(a \o b) = Len(q) - 1
      /\ \A n \in 1..(Len(q) - 1) :
           (a \o b)[n] = IF n <= i - 1 THEN a[n] ELSE b[n - (i - 1)]
  <2>1. /\ a \o b \in Seq(T) /\ Len(a \o b) = Len(a) + Len(b)
        /\ \A n \in 1..(Len(a) + Len(b)) :
             (a \o b)[n] = IF n <= Len(a) THEN a[n] ELSE b[n - Len(a)]
    BY <1>2, <1>3
  <2>2. Len(a) + Len(b) = Len(q) - 1 /\ Len(a) = i - 1
    BY <1>1, <1>2, <1>3
  <2> QED BY <2>1, <2>2
<1>6. ASSUME NEW n \in 1..(Len(q) - 1)
      PROVE  \E m \in DOMAIN q : (a \o b)[n] = q[m]
  <2>1. CASE n <= i - 1
    <3>1. n \in 1..(i - 1) /\ n \in DOMAIN q
      BY <1>1, <2>1
    <3>2. (a \o b)[n] = a[n] /\ a[n] = q[n]
      BY <1>2, <1>5, <2>1, <3>1
    <3> QED BY <3>1, <3>2, Zenon
  <2>2. CASE n > i - 1
    <3>1. n - (i - 1) \in 1..(Len(q) - i) /\ i + (n - (i - 1)) \in DOMAIN q
      BY <1>1, <2>2
    <3> QED BY <1>3, <1>5, <2>2, <3>1
  <2>3. n <= i - 1 \/ n > i - 1
    BY <1>1
  <2> QED BY <2>1, <2>2, <2>3
<1>7. DOMAIN (a \o b) = 1..(Len(q) - 1)
  BY <1>5
<1> QED BY <1>4, <1>5, <1>6, <1>7, Zenon

\* ... and so it is with what comes after the head.
LEMMA TailKeeps ==
  ASSUME NEW T, NEW q \in Seq(T), q # <<>>
  PROVE  /\ Tail(q) \in Seq(T) /\ Head(q) = q[1] /\ 1 \in DOMAIN q
         /\ \A n \in DOMAIN Tail(q) : n + 1 \in DOMAIN q /\ Tail(q)[n] = q[n + 1]
OBVIOUS

LEMMA AppendKeeps ==
  ASSUME NEW T, NEW q \in Seq(T), NEW e \in T
  PROVE  /\ Append(q, e) \in Seq(T)
         /\ \A n \in DOMAIN Append(q, e) :
              \/ n \in DOMAIN q /\ Append(q, e)[n] = q[n]
              \/ Append(q, e)[n] = e
OBVIOUS

LEMMA SubSeqKeeps ==
  ASSUME NEW T, NEW q \in Seq(T), NEW k \in Nat
  PROVE  LET new == SubSeq(q, k + 1, Len(q))
         IN /\ new \in Seq(T)
            /\ Len(new) = IF k < Len(q) THEN Len(q) - k ELSE 0
            /\ \A n \in 1..Len(new) : k + n \in DOMAIN q /\ new[n] = q[k + n]
<1>1. CASE k < Len(q)
  BY <1>1
<1>2. CASE ~(k < Len(q))
  <2>1. SubSeq(q, k + 1, Len(q)) = <<>>
    BY <1>2
  <2> QED BY <1>2, <2>1
<1> QED BY <1>1, <1>2

-----------------------------------------------------------------------------
(* The server's steps.                                                     *)

LEMMA ServerFits ==
  /\ SP!KeysAssumption /\ SP!SidsAssumption /\ SP!RangeAssumption
  /\ SP!MaxOutAssumption /\ SP!FailuresAssumption
BY ServerAssumption, ClientAssumption
   DEF SP!KeysAssumption, SP!SidsAssumption, SP!RangeAssumption,
       SP!MaxOutAssumption, SP!FailuresAssumption

LEMMA ServerInit == S!Init => SP!Init
BY DEF S!Init, SP!Init, S!Keys, SP!Keys, S!Unallocated, SP!Unallocated,
       S!Unbound, SP!Unbound

\* The two instances of ServerSessions have the same handlers.
LEMMA ServerRead ==
  ASSUME NEW kind, S!UdpHandleRead(Client, kind)
  PROVE  SP!UdpHandleRead(Client, kind)
BY DEF S!UdpHandleRead, SP!UdpHandleRead, S!Idle, SP!Idle, S!Running, SP!Running,
  S!Found, SP!Found, S!FieldsOf, SP!FieldsOf, S!WithSession, SP!WithSession,
  S!NewSession, SP!NewSession, S!Unallocated, SP!Unallocated,
  S!Decode, SP!Decode, S!HandlePacket, SP!HandlePacket, S!Decoded, SP!Decoded,
  S!ProtectorOf, SP!ProtectorOf, S!ClientRead, SP!ClientRead,
  S!ParsePublicKey, SP!ParsePublicKey, S!Authenticated, SP!Authenticated,
  S!HandleConnect, SP!HandleConnect, S!TunAfterConfig, SP!TunAfterConfig,
  S!StartAuthentication, SP!StartAuthentication, S!Queued, SP!Queued,
  S!Outcomes, SP!Outcomes, S!SendMessage, SP!SendMessage, S!NoError, SP!NoError,
  S!SessionError, SP!SessionError, S!Erased, SP!Erased, S!Abort, SP!Abort,
  S!addressVars, SP!addressVars, S!IPM!AllocateIP, SP!IPM!AllocateIP,
  S!IPM!Resized, SP!IPM!Resized, S!IPM!Usable, SP!IPM!Usable,
  S!IPM!Reached, SP!IPM!Reached, S!IPM!Probe, SP!IPM!Probe,
  S!IPM!Indexes, SP!IPM!Indexes, S!IPM!GetAddressIndex, SP!IPM!GetAddressIndex

LEMMA ServerTunTap ==
  ASSUME NEW s, S!TunTapRead(s)
  PROVE  SP!TunTapRead(s)
BY DEF S!TunTapRead, SP!TunTapRead, S!Idle, SP!Idle, S!Running, SP!Running,
  S!Queued, SP!Queued, S!Outcomes, SP!Outcomes, S!SendMessage, SP!SendMessage,
  S!NoError, SP!NoError, S!SessionError, SP!SessionError, S!Erased, SP!Erased,
  S!addressVars, SP!addressVars

\* What a step of the server may do, s being the session it is about: no
\* session is forgotten, and key and address of a channel stay.
ServerStep(s) ==
  /\ \A t \in Sids \ {s} : object'[t] = object[t] /\ holds'[t] = holds[t]
  /\ sessions[Client] = NoSession \/ sessions'[Client] = sessions[Client]
  /\ object'[s].key # NoKey => sessions'[Client] = s
  /\ object[s].reader = "channel" =>
       /\ object'[s].reader = "channel"
       /\ object'[s].protector = object[s].protector
       /\ holds'[s] = holds[s]

LEMMA ServerStepIdle ==
  ASSUME OneSession, UNCHANGED <<sessions, object, holds>>, NEW s \in Sids
  PROVE  ServerStep(s)
BY DEF ServerStep, OneSession

\* A datagram of the client is never too short: no error, no other session.
LEMMA ReadStep ==
  ASSUME SP!IInv, OneSession, NEW kind, kind # "short",
         SP!UdpHandleRead(Client, kind)
  PROVE  \E s \in Sids : ServerStep(s)
<1> USE ServerFits, ServerAssumption
<1>1. PICK s \in Sids :
        /\ SP!Found(Client, s)
        /\ SP!Decode(s, SP!FieldsOf(Client, s), SP!WithSession(Client, s), kind,
                     SP!FieldsOf(Client, s).protector)
  BY DEF SP!UdpHandleRead
<1> DEFINE o == SP!FieldsOf(Client, s)
           m == SP!WithSession(Client, s)
<1>2. Client \in SP!Keys /\ Client \in {Client}
  BY DEF SP!Keys
<1>3. /\ o \in SP!Fields /\ o.key = Client /\ SP!Stage(o, holds[s])
      /\ m[Client] = s
      /\ sessions[Client] = NoSession \/ sessions[Client] = s
      /\ sessions[Client] = s => o = object[s]
      /\ sessions[Client] = NoSession => object[s].key = NoKey
  BY <1>1, <1>2, SP!FoundFits DEF SP!Found, SP!FieldsOf
<1>4. sessions[Client] = NoSession => object[s].reader = "start"
  BY <1>3 DEF SP!IInv, SP!ObjectsInv, SP!Unallocated
<1>5. object \in [Sids -> SP!Fields]
  BY DEF SP!IInv, SP!StateTypeOK
<1> HIDE DEF o, m
<1>6. ASSUME NEW q, object' = [object EXCEPT ![s] = q], sessions' = m,
             \A t \in Sids \ {s} : holds'[t] = holds[t],
             o.reader = "channel" => q = o /\ holds' = holds
      PROVE  ServerStep(s)
  <2>1. object'[s] = q /\ \A t \in Sids \ {s} : object'[t] = object[t]
    BY <1>5, <1>6
  <2>2. object[s].reader = "channel" => o = object[s]
    BY <1>3, <1>4
  <2> QED BY <1>3, <1>6, <2>1, <2>2 DEF ServerStep
<1>7. ASSUME NEW sent, SP!SendMessage(s, o.key, m, sent) PROVE sessions' = m
  BY <1>3, <1>7 DEF SP!SendMessage, SP!NoError
<1>8. ASSUME NEW why, SP!Abort(why) PROVE ServerStep(s)
  <2>1. UNCHANGED <<sessions, object, holds>>
    BY <1>8 DEF SP!Abort, SP!addressVars
  <2> QED BY <2>1, ServerStepIdle
<1>9. ASSUME NEW body, o.reader = "start", SP!StartAuthentication(s, o, m, body)
      PROVE  ServerStep(s)
  <2>1. CASE SP!Abort("authentication")
    BY <1>8, <2>1
  <2>2. CASE ~SP!Abort("authentication")
    <3>1. PICK sent \in SP!Outcomes :
            /\ SP!SendMessage(s, o.key, m, sent)
            /\ object' = [object EXCEPT ![s] =
                 IF sent THEN [SP!Queued(o, "hello") EXCEPT !.reader = "hello"]
                 ELSE o]
      BY <1>9, <2>2 DEF SP!StartAuthentication
    <3>2. holds' = holds
      BY <1>9, <2>2 DEF SP!StartAuthentication, SP!addressVars
    <3>3. sessions' = m
      BY <1>7, <3>1
    <3> QED BY <1>6, <1>9, <3>1, <3>2, <3>3
  <2> QED BY <2>1, <2>2
<1>10. ASSUME NEW p, o.reader # "channel", p.key = o.key,
              SP!HandleConnect(s, p, m)
       PROVE  ServerStep(s)
  <2>1. CASE SP!Abort("no address") \/ SP!Abort("no device")
    BY <1>8, <2>1
  <2>2. CASE ~(SP!Abort("no address") \/ SP!Abort("no device"))
    <3>1. PICK sent \in SP!Outcomes :
            /\ SP!IPM!AllocateIP(s)
            /\ SP!SendMessage(s, p.key, m, sent)
            /\ object' = [object EXCEPT ![s] = SP!Configured(p, sent)]
      BY <1>10, <2>2 DEF SP!HandleConnect, SP!Configured
    <3>2. \A t \in Sids \ {s} : holds'[t] = holds[t]
      BY <3>1, SP!AddressTaken DEF SP!IInv
    <3>3. sessions' = m
      BY <1>7, <1>10, <3>1
    <3> QED BY <1>6, <1>10, <3>1, <3>2, <3>3
  <2> QED BY <2>1, <2>2
<1>11. ASSUME NEW body, o.reader = "hello", SP!ParsePublicKey(s, o, m, body)
       PROVE  ServerStep(s)
  <2>1. CASE SP!HandleConnect(s, SP!Authenticated(SP!Queued(o, "key"), body), m)
    <3>1. SP!Authenticated(SP!Queued(o, "key"), body).key = o.key
      BY <1>3 DEF SP!Authenticated, SP!Queued, SP!Fields
    <3> QED BY <1>10, <1>11, <2>1, <3>1
  <2>2. CASE /\ SP!SendMessage(s, o.key, m, FALSE) \/ SP!NoError(m)
             /\ object' = [object EXCEPT ![s] = o]
             /\ UNCHANGED SP!addressVars
    <3>1. sessions' = m /\ holds' = holds
      BY <1>7, <2>2 DEF SP!NoError, SP!addressVars
    <3> QED BY <1>6, <2>2, <3>1
  <2> QED BY <1>8, <1>11, <2>1, <2>2 DEF SP!ParsePublicKey
<1>12. CASE SP!ClientRead(s, o, m)
  <2>1. sessions' = m /\ object' = [object EXCEPT ![s] = o] /\ holds' = holds
    BY <1>12 DEF SP!ClientRead, SP!NoError, SP!addressVars
  <2> QED BY <1>6, <2>1
<1> QED BY <1>1, <1>8, <1>9, <1>11, <1>12 DEF SP!Decode, SP!HandlePacket, o, m

\* Nor does a packet of the device change more than the log.
LEMMA TunTapStep ==
  ASSUME SP!IInv, OneSession, NEW s \in Sids, SP!TunTapRead(s)
  PROVE  ServerStep(s)
<1>1. PICK sent \in SP!Outcomes :
        /\ SP!SendMessage(s, object[s].key, sessions, sent)
        /\ object' = [object EXCEPT ![s] =
             IF sent THEN SP!Queued(object[s], "data") ELSE object[s]]
  BY DEF SP!TunTapRead
<1>2. object[s].tun = "reading" /\ holds' = holds
  BY DEF SP!TunTapRead, SP!addressVars
<1>3. object \in [Sids -> SP!Fields] /\ object[s] \in SP!Fields
  BY DEF SP!IInv, SP!StateTypeOK
<1>4. object[s].key = Client
  <2>1. object[s].key # NoKey
    BY <1>2 DEF SP!IInv, SP!ObjectsInv, SP!Unallocated
  <2> QED BY <1>3, <2>1 DEF SP!Fields, SP!Keys
<1>5. sessions' = sessions
  BY <1>1, <1>4 DEF SP!SendMessage, SP!NoError
<1>6. /\ object'[s].reader = object[s].reader
      /\ object'[s].protector = object[s].protector
      /\ \A t \in Sids \ {s} : object'[t] = object[t]
  BY <1>1, <1>3 DEF SP!Queued, SP!Fields
<1>7. sessions[Client] = s
  BY <1>4, ServerAssumption DEF OneSession
<1> QED BY <1>2, <1>5, <1>6, <1>7 DEF ServerStep

-----------------------------------------------------------------------------
(* What the server's steps put on the wire.                                *)

\* A configuration that leaves is true when it does, and so is the protector
\* of every packet after it.
LEMMA RepliesAreTrue ==
  ASSUME SP!IInv, SP!IInv', OneSession', NEW s \in Sids
  PROVE  /\ NewReplies(s) \in Seq(Datagrams)
         /\ \A n \in DOMAIN NewReplies(s) :
              NewReplies(s)[n].message \in Late =>
                /\ sessions'[Client] = s
                /\ object'[s].reader = "channel"
                /\ object'[s].protector = NewReplies(s)[n].protector
                /\ holds'[s] = NewReplies(s)[n].address
<1> DEFINE log == object'[s].out
           k == Len(object[s].out)
           new == SubSeq(log, k + 1, Len(log))
<1>1. /\ object'[s] \in SP!Fields /\ object[s] \in SP!Fields
      /\ SP!Stage(object'[s], holds'[s])
      /\ object'[s].key = NoKey => object'[s] = SP!Unallocated
  BY DEF SP!IInv, SP!StateTypeOK, SP!ObjectsInv
<1>2. /\ log \in Seq(SP!Replies \X SP!Protectors) /\ k \in Nat
      /\ \A n \in DOMAIN log : log[n] = SP!Expected(n, object'[s].protector)
  BY <1>1 DEF SP!Fields, SP!Stage, SP!Ordered
<1>3. holds'[s] \in 1..Size \union {NoAddress}
  BY DEF SP!IInv, SP!P!IInv, SP!P!TypeOK, SP!P!Addresses
<1>4. /\ new \in Seq(SP!Replies \X SP!Protectors)
      /\ \A n \in 1..Len(new) : k + n \in DOMAIN log /\ new[n] = log[k + n]
  <2> HIDE DEF log, k
  <2> QED BY <1>2, SubSeqKeeps
<1>5. NewReplies(s) = [n \in DOMAIN new |-> Datagram(new[n], holds'[s])]
  BY DEF NewReplies
<1>6. ASSUME NEW j \in DOMAIN log, log[j][1] \in Late
      PROVE  /\ sessions'[Client] = s /\ object'[s].reader = "channel"
             /\ object'[s].protector = log[j][2]
  <2>1. /\ j # 1 /\ j # 2
        /\ log[j] = <<log[j][1], object'[s].protector>>
    <3> HIDE DEF log
    <3>1. log[j] = SP!Expected(j, object'[s].protector)
      BY <1>2
    <3>2. log[j][1] \notin {"hello", "key"}
      BY <1>6 DEF Late
    <3>3. j # 1 /\ j # 2
      BY <3>1, <3>2 DEF SP!Expected
    <3>4. log[j] = <<IF j = 3 THEN "config" ELSE "data", object'[s].protector>>
      BY <3>1, <3>3 DEF SP!Expected
    <3> QED BY <3>3, <3>4
  <2>2. Len(log) >= 3
    BY <1>2, <2>1
  <2>3. object'[s].reader = "channel"
    <3>1. object'[s].reader \in {"start", "hello", "channel"}
      BY <1>1 DEF SP!Fields
    <3>2. Len(log) # 0 /\ Len(log) # 1
      <4> HIDE DEF log
      <4> QED BY <1>2, <2>2
    <3> QED BY <1>1, <3>1, <3>2 DEF SP!Stage, SP!Starting, SP!Greeted
  <2>4. object'[s].key # NoKey
    BY <1>1, <2>3 DEF SP!Unallocated
  <2>5. sessions'[Client] = s
    BY <2>4 DEF OneSession
  <2>6. log[j][2] = object'[s].protector
    <3> HIDE DEF log
    <3> QED BY <2>1
  <2> QED BY <2>3, <2>5, <2>6
<1> HIDE DEF log, k, new
<1>7. DOMAIN new = 1..Len(new) /\ Len(new) \in Nat
  BY <1>4
<1>8. ASSUME NEW n \in 1..Len(new)
      PROVE  /\ NewReplies(s)[n] \in Datagrams
             /\ NewReplies(s)[n].message = new[n][1]
             /\ NewReplies(s)[n].protector = new[n][2]
             /\ NewReplies(s)[n].address = holds'[s]
  <2>1. new[n] \in SP!Replies \X SP!Protectors
    BY <1>4
  <2>2. NewReplies(s)[n] = [message |-> new[n][1], protector |-> new[n][2],
                            address |-> holds'[s]]
    BY <1>5, <1>7 DEF Datagram
  <2> QED BY <1>3, <2>1, <2>2 DEF Datagrams
<1>9. NewReplies(s) \in Seq(Datagrams) /\ DOMAIN NewReplies(s) = 1..Len(new)
  BY <1>5, <1>7, <1>8
<1> QED BY <1>4, <1>6, <1>8, <1>9

\* A step of the server keeps the invariant.
LEMMA ServerKeeps ==
  ASSUME IInv, SP!IInv', NEW s \in Sids, ServerStep(s), ServerReplies,
         UNCHANGED <<clientVars, damage>>,
         toServer' \in Seq(Messages), Protected(toServer')
  PROVE  IInv'
<1>1. OneSession'
  BY ServerAssumption DEF IInv, OneSession, ServerStep
<1>2. ASSUME NEW t \in Sids, NEW p, NEW a, Serves(t, p, a)
      PROVE  /\ sessions'[Client] = t /\ object'[t].reader = "channel"
             /\ object'[t].protector = p /\ holds'[t] = a
  BY <1>2, ServerAssumption DEF Serves, ServerStep
<1>3. PICK r \in Sids : toClient' = toClient \o NewReplies(r)
  BY DEF ServerReplies
<1>4. /\ NewReplies(r) \in Seq(Datagrams)
      /\ \A n \in DOMAIN NewReplies(r) :
           NewReplies(r)[n].message \in Late =>
             /\ sessions'[Client] = r /\ object'[r].reader = "channel"
             /\ object'[r].protector = NewReplies(r)[n].protector
             /\ holds'[r] = NewReplies(r)[n].address
  BY <1>1, RepliesAreTrue DEF IInv
<1>5. WireOK'
  BY <1>3, <1>4 DEF IInv, WireOK
<1>6. ASSUME NEW n \in DOMAIN toClient', toClient'[n].message \in Late
      PROVE  \E t \in Sids : Serves(t, toClient[n].protector, toClient[n].address)'
  <2>1. toClient \in Seq(Datagrams)
    BY DEF IInv, WireOK
  <2>2. CASE n \in DOMAIN toClient
    <3>1. toClient'[n] = toClient[n]
      BY <1>3, <1>4, <2>1, <2>2
    <3>2. PICK t \in Sids : Serves(t, toClient[n].protector, toClient[n].address)
      BY <1>6, <2>2, <3>1 DEF IInv, RepliesTrue
    <3> QED BY <1>2, <3>1, <3>2 DEF Serves
  <2>3. CASE n \notin DOMAIN toClient
    <3> DEFINE j == n - Len(toClient)
    <3>1. j \in DOMAIN NewReplies(r) /\ toClient'[n] = NewReplies(r)[j]
      BY <1>3, <1>4, <2>1, <2>3
    <3> HIDE DEF j
    <3> QED BY <1>4, <1>6, <3>1 DEF Serves
  <2> QED BY <2>2, <2>3
<1>7. RepliesTrue'
  BY <1>6 DEF RepliesTrue
<1>8. TunnelAgrees'
  <2>1. UNCHANGED <<reader, tun, protector, address, mistaken>>
    BY DEF clientVars
  <2> QED BY <1>2, <2>1 DEF IInv, TunnelAgrees, Serves
<1>9. C!TypeOK' /\ Protected(queue)' /\ Protected(toServer)'
  BY DEF IInv, clientVars, C!TypeOK, Protected, C!Readers
<1> QED BY <1>1, <1>5, <1>7, <1>8, <1>9 DEF IInv

-----------------------------------------------------------------------------
(* The client's steps.                                                     *)

LEMMA ServerStays ==
  ASSUME IInv, UNCHANGED serverVars
  PROVE  /\ SP!IInv' /\ OneSession'
         /\ \A s \in Sids : \A p, a : Serves(s, p, a) =>
              /\ sessions'[Client] = s /\ object'[s].reader = "channel"
              /\ object'[s].protector = p /\ holds'[s] = a
<1>1. UNCHANGED SP!vars
  BY DEF serverVars, SP!vars
<1>2. SP!IInv'
  BY <1>1, ServerFits, SP!NextIInv DEF IInv
<1> QED BY <1>2 DEF IInv, serverVars, OneSession, Serves

\* What the network holds comes from what it held.
LEMMA NetworkKeeps ==
  ASSUME IInv, UNCHANGED serverVars, WireOK', Protected(toServer)',
         C!TypeOK', TunnelAgrees', Protected(queue)',
         \A n \in DOMAIN toClient' :
           toClient'[n].message \in Late =>
             \E m \in DOMAIN toClient : toClient'[n] = toClient[m]
  PROVE  IInv'
<1>1. ASSUME NEW n \in DOMAIN toClient', toClient'[n].message \in Late
      PROVE  \E s \in Sids : Serves(s, toClient[n].protector, toClient[n].address)'
  <2>1. PICK m \in DOMAIN toClient : toClient'[n] = toClient[m]
    BY <1>1
  <2>2. PICK s \in Sids : Serves(s, toClient[m].protector, toClient[m].address)
    BY <1>1, <2>1 DEF IInv, RepliesTrue
  <2> QED BY <2>1, <2>2, ServerStays DEF Serves
<1>2. RepliesTrue'
  BY <1>1 DEF RepliesTrue
<1> QED BY <1>2, ServerStays DEF IInv

\* While no tunnel is up, none is up unless the configuration came.
LEMMA TunnelStays ==
  ASSUME IInv, UNCHANGED serverVars, reader' = reader,
         UNCHANGED <<protector, address, mistaken>>,
         tun' = tun \/ (reader # "packet" /\ tun' # "reading")
  PROVE  TunnelAgrees'
<1>1. \A s \in Sids : \A a : Serves(s, "aes", a) => Serves(s, "aes", a)'
  BY ServerStays DEF Serves
<1> QED BY <1>1 DEF IInv, TunnelAgrees

LEMMA QueueKeeps ==
  ASSUME IInv, NEW message \in {"hello", "key", "data"}, C!Sent(message, protector),
         message = "data" => protector = "aes"
  PROVE  /\ queue' \in Seq({"hello", "key", "data"} \X {"scramble", "aes", "unshared"})
         /\ Protected(queue')
<1> DEFINE T == {"hello", "key", "data"} \X {"scramble", "aes", "unshared"}
           e == <<message, protector>>
<1>1. queue \in Seq(T) /\ e \in T
  BY DEF IInv, C!TypeOK
<1>2. queue' = queue \/ queue' = Append(queue, e)
  BY DEF C!Sent
<1>3. e[1] = "data" => e[2] = "aes"
  OBVIOUS
<1>4. Protected(queue)
  BY DEF IInv
<1> HIDE DEF T, e
<1>5. CASE queue' = queue
  BY <1>1, <1>4, <1>5 DEF T
<1>6. CASE queue' = Append(queue, e)
  <2>1. /\ queue' \in Seq(T)
        /\ \A n \in DOMAIN queue' :
             \/ n \in DOMAIN queue /\ queue'[n] = queue[n]
             \/ queue'[n] = e
    BY <1>1, <1>6, AppendKeeps
  <2> QED BY <1>3, <1>4, <2>1 DEF Protected, T
<1> QED BY <1>2, <1>5, <1>6

LEMMA ReadKeeps ==
  ASSUME IInv, UNCHANGED serverVars, NEW i \in DOMAIN toClient,
         toClient[i].message # "short",
         C!HandleRead(toClient[i].message, toClient[i].protector,
                      toClient[i].address)
  PROVE  C!TypeOK' /\ TunnelAgrees' /\ Protected(queue)'
<1> DEFINE d == toClient[i]
           body == C!Decoded(d.message, d.protector)
<1>1. d \in Datagrams
  BY DEF IInv, WireOK
<1>2. C!TypeOK /\ Protected(queue)
  BY DEF IInv
<1>3. reader # "packet" => tun # "reading"
  BY DEF IInv, TunnelAgrees
<1> HIDE DEF d, body
<1>4. ASSUME NEW why, C!Abort(why)
      PROVE  C!TypeOK' /\ TunnelAgrees' /\ Protected(queue)'
  <2>1. UNCHANGED <<reader, protector, mistaken, tun, address, known, queue, read,
                    delivered>>
    BY <1>4 DEF C!Abort, C!sessionVars
  <2> QED BY <1>2, <2>1, TunnelStays DEF C!TypeOK, Protected
<1>5. ASSUME C!Ignored, UNCHANGED <<known, crash>>
      PROVE  C!TypeOK' /\ TunnelAgrees' /\ Protected(queue)'
  <2>1. UNCHANGED <<reader, protector, mistaken, tun, address, known, queue, read,
                    delivered>>
    BY <1>5 DEF C!Ignored, C!sessionVars
  <2> QED BY <1>2, <2>1, TunnelStays DEF C!TypeOK, Protected
<1>6. CASE reader = "hello" /\ C!Hello(body)
  <2>1. CASE C!Ignored /\ UNCHANGED <<known, crash>>
    BY <1>5, <2>1
  <2>2. CASE /\ reader' = "key" /\ mistaken' = IF body = "hello" THEN {} ELSE {"hello"}
             /\ C!Sent("key", protector)
             /\ UNCHANGED <<protector, tun, address, read, delivered, known, crash>>
    <3>1. /\ queue' \in Seq({"hello", "key", "data"} \X {"scramble", "aes", "unshared"})
          /\ Protected(queue)'
      BY <2>2, QueueKeeps DEF Protected
    <3>2. C!TypeOK'
      BY <1>2, <2>2, <3>1 DEF C!TypeOK, C!Readers
    <3>3. TunnelAgrees'
      BY <1>3, <1>6, <2>2 DEF TunnelAgrees
    <3> QED BY <3>1, <3>2, <3>3
  <2> QED BY <1>4, <1>6, <2>1, <2>2 DEF C!Hello
<1>7. CASE reader = "key" /\ C!PublicKey(body)
  <2>1. CASE C!Ignored /\ UNCHANGED <<known, crash>>
    BY <1>5, <2>1
  <2>2. CASE /\ reader' = "config" /\ protector' = C!DerivedKey(body)
             /\ UNCHANGED <<mistaken, tun, address, queue, read, delivered, known,
                            crash>>
    <3>1. C!TypeOK'
      BY <1>2, <2>2 DEF C!TypeOK, C!Readers, C!DerivedKey
    <3>2. TunnelAgrees'
      BY <1>3, <1>7, <2>2 DEF TunnelAgrees
    <3> QED BY <1>2, <2>2, <3>1, <3>2 DEF Protected
  <2> QED BY <1>4, <1>7, <2>1, <2>2 DEF C!PublicKey
<1>8. CASE reader = "config" /\ C!ServerConfig(body, d.address)
  <2>1. CASE C!Ignored /\ UNCHANGED <<known, crash>>
    BY <1>5, <2>1
  <2>2. CASE /\ body \in {"config", "data"}
             /\ reader' = "packet" /\ tun' = "reading"
             /\ IF body = "config"
                THEN address' = d.address /\ UNCHANGED mistaken
                ELSE address' = Misread /\ mistaken' = mistaken \union {"config"}
             /\ UNCHANGED <<protector, queue, read, delivered, known, crash>>
    <3>1. /\ body = d.message /\ d.protector = protector
          /\ protector # "unshared"
      BY <2>2 DEF body, C!Decoded, C!Readable
    <3>2. d.message \in Late
      BY <2>2, <3>1 DEF Late
    <3>3. PICK s \in Sids : Serves(s, protector, d.address)
      BY <3>1, <3>2 DEF IInv, RepliesTrue, d
    <3>4. protector = "aes"
      <4>1. object[s].protector # "scramble"
        BY <3>3 DEF IInv, SP!IInv, SP!ObjectsInv, SP!Stage, SP!Connected, Serves
      <4> QED BY <1>2, <3>1, <3>3, <4>1 DEF C!TypeOK, Serves
    <3>5. PICK a \in 1..Size \union {NoAddress} : a = d.address
      BY <1>1 DEF Datagrams
    <3>6. Serves(s, "aes", a)'
      BY <3>3, <3>4, <3>5, ServerStays DEF Serves
    <3>7. "config" \notin mistaken' => a = address'
      BY <2>2, <3>5
    <3>8. TunnelAgrees'
      BY <3>4, <3>6, <3>7, <2>2 DEF TunnelAgrees
    <3> QED BY <1>2, <2>2, <3>8 DEF C!TypeOK, C!Readers, Protected
  <2>3. CASE /\ tun' \in {tun, "open"}
             /\ UNCHANGED <<reader, protector, mistaken, address, queue, read,
                            delivered, known, crash>>
    BY <1>2, <1>8, <2>3, TunnelStays DEF C!TypeOK, Protected
  <2> QED BY <1>4, <1>8, <2>1, <2>2, <2>3 DEF C!ServerConfig
<1>9. CASE reader = "packet" /\ C!ServerPacket
  BY <1>2, <1>9, TunnelStays DEF C!ServerPacket, C!TypeOK, Protected
<1> QED BY <1>4, <1>6, <1>7, <1>8, <1>9 DEF C!HandleRead, C!HandlePacket, d, body

-----------------------------------------------------------------------------
(* The actions.                                                            *)

LEMMA InitIInv == Init => IInv
<1> SUFFICES ASSUME Init PROVE IInv
  OBVIOUS
<1>1. SP!IInv
  BY ServerInit, ServerFits, SP!InitIInv DEF Init
<1>2. C!TypeOK /\ Protected(queue)
  <2> DEFINE T == {"hello", "key", "data"} \X {"scramble", "aes", "unshared"}
             first == <<"hello", "scramble">>
  <2>1. first \in T /\ first[1] # "data"
    OBVIOUS
  <2>2. queue = <<first>> \/ queue = <<>>
    BY DEF Init, C!Init
  <2> HIDE DEF T, first
  <2>3. queue \in Seq(T) /\ Protected(queue)
    <3>1. CASE queue = <<first>>
      <4>1. queue \in Seq(T) /\ DOMAIN queue = {1} /\ queue[1] = first
        BY <2>1, <3>1
      <4> QED BY <2>1, <4>1 DEF Protected
    <3>2. CASE queue = <<>>
      BY <3>2 DEF Protected
    <3> QED BY <2>2, <3>1, <3>2
  <2>4. read \in 0..MaxData
    BY ClientAssumption DEF Init, C!Init
  <2> QED BY <2>3, <2>4 DEF Init, C!Init, C!TypeOK, C!Readers, T
<1>3. WireOK /\ Protected(toServer) /\ RepliesTrue
  <2>1. <<>> \in Seq(Messages) /\ <<>> \in Seq(Datagrams)
    OBVIOUS
  <2> QED BY <2>1, NetworkAssumption DEF Init, WireOK, Protected, RepliesTrue
<1>4. OneSession
  BY DEF Init, S!Init, S!Unallocated, OneSession
<1>5. TunnelAgrees
  BY DEF Init, C!Init, TunnelAgrees
<1> QED BY <1>1, <1>2, <1>3, <1>4, <1>5 DEF IInv

LEMMA ServerReceivesKeeps == ASSUME IInv, ServerReceives PROVE IInv'
<1>1. PICK i \in DOMAIN toServer :
        /\ SP!UdpHandleRead(Client, toServer[i][1])
        /\ toServer' = RemoveAt(toServer, i)
  BY ServerRead DEF ServerReceives, Arriving
<1>2. toServer \in Seq(Messages) /\ Protected(toServer)
  BY DEF IInv, WireOK
<1>3. toServer[i][1] # "short"
  BY <1>2 DEF Messages
<1>4. PICK s \in Sids : ServerStep(s)
  BY <1>1, <1>3, ReadStep DEF IInv
<1>5. SP!IInv'
  BY <1>1, ServerFits, SP!UdpKeeps DEF IInv
<1>6. toServer' \in Seq(Messages) /\ Protected(toServer')
  BY <1>1, <1>2, RemoveAtKeeps DEF Protected
<1> QED BY <1>4, <1>5, <1>6, ServerKeeps DEF ServerReceives

LEMMA ServerForwardsKeeps == ASSUME IInv, ServerForwards PROVE IInv'
<1>1. PICK s \in Sids : SP!TunTapRead(s)
  BY ServerTunTap DEF ServerForwards
<1>2. ServerStep(s)
  BY <1>1, TunTapStep DEF IInv
<1>3. SP!IInv'
  BY <1>1, ServerFits, SP!TunTapReadKeeps DEF IInv
<1>4. toServer' \in Seq(Messages) /\ Protected(toServer')
  BY DEF ServerForwards, IInv, WireOK, Protected
<1> QED BY <1>2, <1>3, <1>4, ServerKeeps DEF ServerForwards

LEMMA ClientSendsKeeps == ASSUME IInv, ClientSends PROVE IInv'
<1> DEFINE T == {"hello", "key", "data"} \X {"scramble", "aes", "unshared"}
<1>1. /\ queue # <<>> /\ queue' = Tail(queue)
      /\ UNCHANGED <<reader, protector, mistaken, tun, address, known, read,
                     delivered, crash>>
      /\ toServer' = Append(toServer, Head(queue))
      /\ UNCHANGED <<serverVars, toClient, damage>>
  BY DEF ClientSends, C!HandleWrite
<1>2. queue \in Seq(T) /\ Protected(queue) /\ toServer \in Seq(Messages)
      /\ Protected(toServer)
  BY DEF IInv, C!TypeOK, WireOK
<1>3. T = Messages
  BY DEF Messages, SP!Protectors
<1> HIDE DEF T
<1>4. /\ queue' \in Seq(T) /\ Head(queue) = queue[1] /\ 1 \in DOMAIN queue
      /\ \A n \in DOMAIN queue' : n + 1 \in DOMAIN queue /\ queue'[n] = queue[n + 1]
  BY <1>1, <1>2, TailKeeps
<1>5. Head(queue) \in Messages
  BY <1>2, <1>3, <1>4
<1>6. /\ toServer' \in Seq(Messages)
      /\ \A n \in DOMAIN toServer' :
           \/ n \in DOMAIN toServer /\ toServer'[n] = toServer[n]
           \/ toServer'[n] = queue[1]
  BY <1>1, <1>2, <1>4, <1>5, AppendKeeps
<1>7. Protected(queue)' /\ Protected(toServer)'
  BY <1>2, <1>4, <1>6 DEF Protected
<1>8. C!TypeOK' /\ WireOK'
  BY <1>1, <1>4, <1>6 DEF IInv, C!TypeOK, WireOK, T
<1>9. TunnelAgrees'
  BY <1>1, TunnelStays
<1> QED BY <1>1, <1>7, <1>8, <1>9, NetworkKeeps

LEMMA ClientReceivesKeeps == ASSUME IInv, ClientReceives PROVE IInv'
<1>1. PICK i \in DOMAIN toClient :
        /\ \/ /\ toClient[i].message # "short"
              /\ C!HandleRead(toClient[i].message, toClient[i].protector,
                              toClient[i].address)
           \/ C!HandleReadShort
        /\ toClient' = RemoveAt(toClient, i)
  BY DEF ClientReceives, Arriving
<1>2. UNCHANGED <<serverVars, toServer, damage>>
  BY DEF ClientReceives
<1>3. C!TypeOK' /\ TunnelAgrees' /\ Protected(queue)'
  <2>1. CASE C!HandleReadShort
    <3>1. UNCHANGED <<reader, protector, mistaken, tun, address, queue, read,
                      delivered>> /\ known' \in {known, FALSE}
      BY <2>1 DEF C!HandleReadShort, C!sessionVars, C!Abort
    <3> QED BY <1>2, <3>1, TunnelStays DEF IInv, C!TypeOK, Protected
  <2>2. CASE ~C!HandleReadShort
    BY <1>1, <1>2, <2>2, ReadKeeps
  <2> QED BY <2>1, <2>2
<1>4. toClient \in Seq(Datagrams)
  BY DEF IInv, WireOK
<1>5. /\ toClient' \in Seq(Datagrams)
      /\ \A n \in DOMAIN toClient' : \E m \in DOMAIN toClient : toClient'[n] = toClient[m]
  BY <1>1, <1>4, RemoveAtKeeps
<1>6. WireOK' /\ Protected(toServer)'
  BY <1>2, <1>5 DEF IInv, WireOK, Protected
<1> QED BY <1>2, <1>3, <1>5, <1>6, NetworkKeeps

LEMMA ClientForwardsKeeps == ASSUME IInv, ClientForwards PROVE IInv'
<1>1. /\ tun = "reading" /\ read < MaxData /\ read' = read + 1
      /\ C!Sent("data", protector)
      /\ UNCHANGED <<reader, protector, mistaken, tun, address, known, delivered,
                     crash, serverVars, toServer, toClient, damage>>
  BY DEF ClientForwards, C!TunTapRead, networkVars
<1>2. protector = "aes"
  BY <1>1 DEF IInv, TunnelAgrees
<1>3. /\ queue' \in Seq({"hello", "key", "data"} \X {"scramble", "aes", "unshared"})
      /\ Protected(queue)'
  BY <1>1, <1>2, QueueKeeps DEF Protected
<1>4. C!TypeOK'
  <2>1. read' \in 0..MaxData
    BY <1>1, ClientAssumption DEF IInv, C!TypeOK
  <2> QED BY <1>1, <1>3, <2>1 DEF IInv, C!TypeOK
<1>5. TunnelAgrees'
  BY <1>1, TunnelStays
<1>6. WireOK' /\ Protected(toServer)'
  BY <1>1 DEF IInv, WireOK, Protected
<1> QED BY <1>1, <1>3, <1>4, <1>5, <1>6, NetworkKeeps

LEMMA DamageKeeps ==
  ASSUME IInv, DuplicateToServer \/ DuplicateToClient \/ Truncate
  PROVE  IInv'
<1>1. UNCHANGED <<clientVars, serverVars>> /\ damage' \in 0..MaxDamage
  <2>1. damage < MaxDamage /\ damage' = damage + 1
    BY DEF DuplicateToServer, DuplicateToClient, Truncate, Damages
  <2> QED BY <2>1, NetworkAssumption
          DEF DuplicateToServer, DuplicateToClient, Truncate, IInv, WireOK
<1>2. C!TypeOK' /\ TunnelAgrees' /\ Protected(queue)'
  BY <1>1, TunnelStays DEF clientVars, IInv, C!TypeOK, Protected
<1>3. /\ toServer \in Seq(Messages) /\ toClient \in Seq(Datagrams)
      /\ Protected(toServer)
  BY DEF IInv, WireOK
<1>4. CASE DuplicateToServer
  <2>1. PICK i \in DOMAIN toServer : toServer' = Append(toServer, toServer[i])
    BY <1>4 DEF DuplicateToServer
  <2>2. toServer[i] \in Messages
    BY <1>3
  <2>3. /\ toServer' \in Seq(Messages)
        /\ \A n \in DOMAIN toServer' :
             \/ n \in DOMAIN toServer /\ toServer'[n] = toServer[n]
             \/ toServer'[n] = toServer[i]
    BY <1>3, <2>1, <2>2, AppendKeeps
  <2>4. Protected(toServer)'
    BY <1>3, <2>3 DEF Protected
  <2>5. toClient' = toClient
    BY <1>4 DEF DuplicateToServer
  <2> QED BY <1>1, <1>2, <1>3, <2>3, <2>4, <2>5, NetworkKeeps DEF WireOK
<1>5. CASE DuplicateToClient
  <2>1. PICK i \in DOMAIN toClient : toClient' = Append(toClient, toClient[i])
    BY <1>5 DEF DuplicateToClient
  <2>2. toClient[i] \in Datagrams
    BY <1>3
  <2>3. /\ toClient' \in Seq(Datagrams)
        /\ \A n \in DOMAIN toClient' :
             \/ n \in DOMAIN toClient /\ toClient'[n] = toClient[n]
             \/ toClient'[n] = toClient[i]
    BY <1>3, <2>1, <2>2, AppendKeeps
  <2>4. toServer' = toServer
    BY <1>5 DEF DuplicateToClient
  <2>5. Protected(toServer)'
    BY <1>3, <2>4 DEF Protected
  <2> QED BY <1>1, <1>2, <1>3, <2>3, <2>4, <2>5, NetworkKeeps DEF WireOK
<1>6. CASE Truncate
  <2>1. PICK i \in DOMAIN toClient :
          toClient' = [toClient EXCEPT ![i].message = "short"]
    BY <1>6 DEF Truncate
  <2>2. toClient[i] \in Datagrams
    BY <1>3
  <2>3. [toClient[i] EXCEPT !.message = "short"] \in Datagrams
    BY <2>2 DEF Datagrams
  <2>4. /\ toClient' \in Seq(Datagrams) /\ DOMAIN toClient' = DOMAIN toClient
        /\ \A n \in DOMAIN toClient :
             toClient'[n] = IF n = i THEN [toClient[i] EXCEPT !.message = "short"]
                            ELSE toClient[n]
    BY <1>3, <2>1, <2>3
  <2>5. toClient'[i].message = "short"
    BY <2>2, <2>4 DEF Datagrams
  <2>6. \A n \in DOMAIN toClient' :
          toClient'[n].message \in Late =>
            \E m \in DOMAIN toClient : toClient'[n] = toClient[m]
    BY <2>4, <2>5 DEF Late
  <2>7. toServer' = toServer
    BY <1>6 DEF Truncate
  <2>8. Protected(toServer)'
    BY <1>3, <2>7 DEF Protected
  <2> QED BY <1>1, <1>2, <1>3, <2>4, <2>6, <2>7, <2>8, NetworkKeeps DEF WireOK
<1> QED BY <1>4, <1>5, <1>6

LEMMA NextIInv == IInv /\ [Next]_vars => IInv'
<1> SUFFICES ASSUME IInv, [Next]_vars PROVE IInv'
  OBVIOUS
<1>1. CASE UNCHANGED vars
  <2>1. UNCHANGED <<clientVars, serverVars, networkVars>>
    BY <1>1 DEF vars
  <2>2. C!TypeOK' /\ TunnelAgrees' /\ Protected(queue)'
    BY <2>1, TunnelStays DEF clientVars, IInv, C!TypeOK, Protected
  <2>3. WireOK' /\ Protected(toServer)' /\ toClient' = toClient
    BY <2>1 DEF networkVars, IInv, WireOK, Protected
  <2> QED BY <2>1, <2>2, <2>3, NetworkKeeps
<1> QED BY <1>1, ServerReceivesKeeps, ServerForwardsKeeps, ClientSendsKeeps,
           ClientReceivesKeeps, ClientForwardsKeeps, DamageKeeps DEF Next

-----------------------------------------------------------------------------
(* The results.                                                            *)

\* Client, server and network keep the invariant for any session objects, any
\* range and any number of packets, whatever fails and however the network
\* reorders, duplicates, truncates and loses.
THEOREM Invariance == Spec => []IInv
BY InitIInv, NextIInv, PTL DEF Spec

\* Every variable keeps its type.
THEOREM TypeCorrect == Spec => []TypeOK
<1>1. SP!IInv => S!TypeOK
  <2>1. SP!P!IInv => S!IPM!TypeOK
    BY DEF SP!P!IInv, SP!P!TypeOK, S!IPM!TypeOK, SP!P!Indexes, S!IPM!Indexes,
           SP!P!Addresses, S!IPM!Addresses
  <2>2. S!Keys = SP!Keys /\ S!Fields = SP!Fields /\ S!Protectors = SP!Protectors
    BY DEF S!Keys, SP!Keys, S!Fields, SP!Fields, S!Replies, SP!Replies,
           S!Protectors, SP!Protectors
  <2> QED BY <2>1, <2>2 DEF SP!IInv, SP!StateTypeOK, SP!Aborts, S!TypeOK
<1>2. S!Protectors = SP!Protectors
  BY DEF S!Protectors, SP!Protectors
<1>3. IInv => TypeOK
  BY <1>1, <1>2 DEF IInv, TypeOK, WireOK, Messages
<1> QED BY <1>3, Invariance, PTL

\* A tunnel that is up at the client is up at the server, with the same key,
\* and with the address the server has for it unless a packet of the device
\* was taken for the configuration.
THEOREM EndsAgree == Spec => []Agreement
<1>1. IInv => Agreement
  BY DEF IInv, TunnelAgrees, Serves, Agreement
<1> QED BY <1>1, Invariance, PTL

\* No packet of the client's device leaves but under the shared key.
THEOREM DataIsProtected == Spec => []DataProtected
<1>1. IInv => DataProtected
  BY DEF IInv, Protected, DataProtected
<1> QED BY <1>1, Invariance, PTL

-----------------------------------------------------------------------------
(***************************************************************************)
(* The handshake over a network that delivers in order, when no encoder    *)
(* and no device fails (Handshake, ~Unreliable, ~Failures): neither        *)
(* program aborts, for any range of two addresses or more.                 *)
(*                                                                         *)
(* The argument is that the two programs are always at the same point of   *)
(* the server's log of replies.  What the client has eaten of the log      *)
(* tells which callback reads its next packet, and what is in the network  *)
(* is the rest of the log: so a packet meets the callback it was meant for *)
(* and the protector it was encoded with.                                  *)
(***************************************************************************)

InOrder == ~Unreliable /\ ~Failures /\ Size > 1

Log(s) == object[s].out

\* How many of the server's replies the client has read.
Eaten(s) == Len(Log(s)) - Len(toClient)

\* The callback that is to read the next one.
ReaderAfter(n) == CASE n = 0 -> "hello" [] n = 1 -> "key"
                    [] n = 2 -> "config" [] OTHER -> "packet"

\* The network holds the rest of the log.
InFlight(s) ==
  /\ Eaten(s) \in Nat
  /\ \A n \in DOMAIN toClient :
       /\ toClient[n].message = Log(s)[Eaten(s) + n][1]
       /\ toClient[n].protector = Log(s)[Eaten(s) + n][2]

\* What is on its way to the server.
Nothing == toServer = <<>> /\ queue = <<>>
Only(message) ==
  \/ toServer = <<<<message, "scramble">>>> /\ queue = <<>>
  \/ toServer = <<>> /\ queue = <<<<message, "scramble">>>>
Data(q) == \A n \in DOMAIN q : q[n] = <<"data", "aes">>

\* Only the server itself has an address.
RangeUnused == used = {0} /\ index = 1 % Size

Beginning == /\ sessions[Client] = NoSession
             /\ toClient = <<>>
             /\ Only("hello")
             /\ reader = "hello"
             /\ RangeUnused

\* The server has answered the hello with its own.
Welcomed(s) == /\ object[s].reader = "hello"
               /\ RangeUnused
               /\ IF Eaten(s) = 0 THEN Nothing ELSE Only("key")

\* The server has the key of the client.
Shared(s) == /\ object[s].reader = "channel"
             /\ object[s].tun = "reading"
             /\ object[s].protector = "aes"
             /\ Eaten(s) > 0
             /\ IF Eaten(s) < 3 THEN Nothing ELSE Data(toServer) /\ Data(queue)

Underway(s) == /\ sessions[Client] = s
               /\ InFlight(s)
               /\ reader = ReaderAfter(Eaten(s))
               /\ Welcomed(s) \/ Shared(s)

Orderly ==
  /\ fault = "none" /\ crash = "none"
  /\ known /\ mistaken = {}
  /\ protector = IF reader \in {"hello", "key"} THEN "scramble" ELSE "aes"
  /\ Beginning \/ \E s \in Sids : Underway(s)

OrderlyInv == IInv /\ Orderly

-----------------------------------------------------------------------------
(* Logs and what the network holds of them.                                *)

LEMMA Logs ==
  ASSUME SP!IInv, NEW s \in Sids
  PROVE  /\ object \in [Sids -> SP!Fields] /\ object[s] \in SP!Fields
         /\ Log(s) \in Seq(SP!Replies \X SP!Protectors)
         /\ Len(Log(s)) \in Nat /\ DOMAIN Log(s) = 1..Len(Log(s))
         /\ SP!Stage(object[s], holds[s])
         /\ object[s].key = NoKey => object[s] = SP!Unallocated
         /\ \A n \in DOMAIN Log(s) : Log(s)[n] = SP!Expected(n, object[s].protector)
<1>1. object \in [Sids -> SP!Fields] /\ object[s] \in SP!Fields
  BY DEF SP!IInv, SP!StateTypeOK
<1>2. Log(s) \in Seq(SP!Replies \X SP!Protectors)
  BY <1>1 DEF Log, SP!Fields
<1>3. /\ SP!Stage(object[s], holds[s])
      /\ object[s].key = NoKey => object[s] = SP!Unallocated
  BY DEF SP!IInv, SP!ObjectsInv
<1>4. Len(Log(s)) \in Nat /\ DOMAIN Log(s) = 1..Len(Log(s))
  <2> HIDE DEF Log
  <2> QED BY <1>2
<1> QED BY <1>1, <1>2, <1>3, <1>4 DEF Log, SP!Stage, SP!Ordered

LEMMA LogsAfter ==
  ASSUME SP!IInv', NEW s \in Sids
  PROVE  /\ object'[s] \in SP!Fields
         /\ Log(s)' \in Seq(SP!Replies \X SP!Protectors)
         /\ Len(Log(s)') \in Nat
<1>1. object'[s] \in SP!Fields
  BY DEF SP!IInv, SP!StateTypeOK
<1>2. Log(s)' \in Seq(SP!Replies \X SP!Protectors)
  BY <1>1 DEF Log, SP!Fields
<1> QED BY <1>1, <1>2

\* What is left of a sequence without its head.
LEMMA HeadRemoved ==
  ASSUME NEW T, NEW q \in Seq(T), 1 \in DOMAIN q
  PROVE  /\ RemoveAt(q, 1) \in Seq(T) /\ Len(RemoveAt(q, 1)) = Len(q) - 1
         /\ \A n \in 1..(Len(q) - 1) : RemoveAt(q, 1)[n] = q[n + 1]
<1>1. SubSeq(q, 1, 1 - 1) = <<>>
  OBVIOUS
<1>2. /\ SubSeq(q, 1 + 1, Len(q)) \in Seq(T)
      /\ Len(SubSeq(q, 1 + 1, Len(q))) = Len(q) - 1
      /\ \A n \in 1..(Len(q) - 1) : SubSeq(q, 1 + 1, Len(q))[n] = q[n + 1]
  <2> DEFINE new == SubSeq(q, 1 + 1, Len(q))
  <2>1. Len(q) \in Nat /\ Len(q) >= 1
    OBVIOUS
  <2>2. /\ new \in Seq(T) /\ Len(new) = IF 1 < Len(q) THEN Len(q) - 1 ELSE 0
        /\ \A n \in 1..Len(new) : new[n] = q[1 + n]
    BY SubSeqKeeps
  <2> HIDE DEF new
  <2>3. Len(new) = Len(q) - 1
    BY <2>1, <2>2
  <2>4. \A n \in 1..(Len(q) - 1) : n + 1 = 1 + n
    BY <2>1
  <2> QED BY <2>2, <2>3, <2>4 DEF new
<1>3. <<>> \o SubSeq(q, 1 + 1, Len(q)) = SubSeq(q, 1 + 1, Len(q))
  BY <1>2
<1>4. RemoveAt(q, 1) = SubSeq(q, 1 + 1, Len(q))
  BY <1>1, <1>3 DEF RemoveAt
<1> QED BY <1>2, <1>4

LEMMA NewRepliesAre ==
  ASSUME SP!IInv, SP!IInv', NEW s \in Sids, Len(Log(s)) <= Len(Log(s)')
  PROVE  /\ DOMAIN NewReplies(s) = 1..(Len(Log(s)') - Len(Log(s)))
         /\ Len(NewReplies(s)) = Len(Log(s)') - Len(Log(s))
         /\ \A n \in DOMAIN NewReplies(s) :
              /\ NewReplies(s)[n].message = Log(s)'[Len(Log(s)) + n][1]
              /\ NewReplies(s)[n].protector = Log(s)'[Len(Log(s)) + n][2]
<1> DEFINE k == Len(Log(s))
           log == Log(s)'
           new == SubSeq(log, k + 1, Len(log))
<1>1. k \in Nat /\ log \in Seq(SP!Replies \X SP!Protectors) /\ k <= Len(log)
  BY Logs, LogsAfter
<1>2. NewReplies(s) = [n \in DOMAIN new |-> Datagram(new[n], holds'[s])]
  BY DEF NewReplies, Log
<1> HIDE DEF k, log
<1>3. /\ Len(new) = Len(log) - k /\ DOMAIN new = 1..(Len(log) - k)
      /\ \A n \in 1..(Len(log) - k) : new[n] = log[k + n]
  <2>1. Len(log) \in Nat /\ (~(k < Len(log)) => Len(log) - k = 0)
    BY <1>1
  <2>2. /\ new \in Seq(SP!Replies \X SP!Protectors)
        /\ Len(new) = IF k < Len(log) THEN Len(log) - k ELSE 0
        /\ \A n \in 1..Len(new) : new[n] = log[k + n]
    BY <1>1, SubSeqKeeps
  <2> HIDE DEF new
  <2>3. Len(new) = Len(log) - k /\ DOMAIN new = 1..Len(new)
    BY <2>1, <2>2
  <2> QED BY <2>2, <2>3
<1> HIDE DEF new
<1>4. DOMAIN NewReplies(s) = 1..(Len(log) - k)
  BY <1>2, <1>3
<1>5. Len(NewReplies(s)) = Len(log) - k
  <2>1. Len(log) - k \in Nat
    BY <1>1
  <2> QED BY <1>2, <1>3, <2>1
<1>6. ASSUME NEW n \in DOMAIN NewReplies(s)
      PROVE  /\ NewReplies(s)[n].message = log[k + n][1]
             /\ NewReplies(s)[n].protector = log[k + n][2]
  BY <1>2, <1>3, <1>4 DEF Datagram
<1> QED BY <1>4, <1>5, <1>6 DEF k, log

\* A step of the server on s that only adds to the log.
LEMMA LogGrows ==
  ASSUME IInv, IInv', NEW s \in Sids, InFlight(s), ServerReplies,
         \A t \in Sids \ {s} : object'[t] = object[t],
         Len(Log(s)) <= Len(Log(s)'),
         \A n \in DOMAIN Log(s) : Log(s)'[n] = Log(s)[n]
  PROVE  InFlight(s)' /\ Eaten(s)' = Eaten(s)
<1>1. /\ toClient \in Seq(Datagrams) /\ toClient' \in Seq(Datagrams)
      /\ SP!IInv /\ SP!IInv'
  BY DEF IInv, WireOK
<1>2. PICK r \in Sids : /\ toClient' = toClient \o NewReplies(r)
                        /\ \A t \in Sids \ {r} : Log(t)' = Log(t)
  BY DEF ServerReplies, Log
<1>3. /\ Len(Log(s)) \in Nat /\ Len(Log(s)') \in Nat
      /\ DOMAIN Log(s) = 1..Len(Log(s))
  BY <1>1, Logs, LogsAfter
<1>4. Len(Log(r)) <= Len(Log(r)') /\ (r # s => Log(r)' = Log(r))
  <2>1. Len(Log(r)) \in Nat
    BY <1>1, Logs
  <2> QED BY <2>1 DEF Log
<1>5. /\ DOMAIN NewReplies(r) = 1..(Len(Log(r)') - Len(Log(r)))
      /\ Len(NewReplies(r)) = Len(Log(r)') - Len(Log(r))
      /\ \A n \in DOMAIN NewReplies(r) :
           /\ NewReplies(r)[n].message = Log(r)'[Len(Log(r)) + n][1]
           /\ NewReplies(r)[n].protector = Log(r)'[Len(Log(r)) + n][2]
  BY <1>1, <1>4, NewRepliesAre
<1>6. NewReplies(r) \in Seq(Datagrams)
  BY <1>1, RepliesAreTrue DEF IInv
<1> DEFINE e == Eaten(s)
<1>7. e \in Nat /\ e = Len(Log(s)) - Len(toClient)
  BY DEF InFlight, Eaten
<1>8. CASE r = s
  <2>1. Eaten(s)' = e
    <3>1. Len(toClient') = Len(toClient) + (Len(Log(s)') - Len(Log(s)))
      <4>1. Len(toClient') = Len(toClient) + Len(NewReplies(r))
        BY <1>1, <1>2, <1>6
      <4> QED BY <1>5, <1>8, <4>1
    <3>2. Len(toClient) \in Nat /\ Eaten(s)' = Len(Log(s)') - Len(toClient')
      BY <1>1 DEF Eaten
    <3> HIDE DEF e
    <3> QED BY <1>3, <1>7, <3>1, <3>2
  <2>2. ASSUME NEW n \in DOMAIN toClient'
        PROVE  /\ toClient'[n].message = Log(s)'[e + n][1]
               /\ toClient'[n].protector = Log(s)'[e + n][2]
    <3> HIDE DEF e
    <3>1. CASE n \in DOMAIN toClient
      <4>1. toClient'[n] = toClient[n]
        BY <1>1, <1>2, <1>6, <3>1
      <4>2. e + n \in DOMAIN Log(s)
        BY <1>1, <1>3, <1>7, <3>1
      <4> QED BY <3>1, <4>1, <4>2 DEF InFlight, e
    <3>2. CASE n \notin DOMAIN toClient
      <4> DEFINE j == n - Len(toClient)
      <4>1. j \in DOMAIN NewReplies(s) /\ toClient'[n] = NewReplies(s)[j]
        BY <1>1, <1>2, <1>6, <1>8, <3>2
      <4>2. Len(Log(s)) + j = e + n
        <5>1. n \in Nat /\ Len(toClient) \in Nat
          BY <1>1
        <5> QED BY <1>3, <1>7, <5>1
      <4> HIDE DEF j
      <4> QED BY <1>5, <1>8, <4>1, <4>2
    <3> QED BY <3>1, <3>2
  <2> QED BY <1>7, <2>1, <2>2 DEF InFlight
<1>9. CASE r # s
  <2>1. Log(s)' = Log(s)
    BY <1>2, <1>9
  <2>2. Len(NewReplies(r)) = 0
    <3>1. Len(Log(r)) \in Nat
      BY <1>1, Logs
    <3> QED BY <1>4, <1>5, <1>9, <3>1
  <2>3. toClient' = toClient
    BY <1>1, <1>2, <1>6, <2>2
  <2> QED BY <2>1, <2>3 DEF InFlight, Eaten
<1> QED BY <1>8, <1>9

-----------------------------------------------------------------------------
(* The server's steps.                                                     *)

LEMMA NothingFails == ASSUME InOrder PROVE SP!Outcomes = {TRUE} /\ C!Outcomes = {TRUE}
BY DEF InOrder, SP!Outcomes, C!Outcomes

\* After a step of the server the client is where it was.
LEMMA ClientWaits ==
  ASSUME UNCHANGED clientVars
  PROVE  /\ UNCHANGED <<reader, protector, mistaken, tun, known, queue, crash>>
BY DEF clientVars

\* What a step of the server comes to, for a session that is under way.
LEMMA ServerGoesOn ==
  ASSUME OrderlyInv, IInv', ServerReplies, UNCHANGED clientVars, fault' = fault,
         NEW s \in Sids, InFlight(s), reader = ReaderAfter(Eaten(s)),
         sessions'[Client] = s,
         \A t \in Sids \ {s} : object'[t] = object[t],
         Len(Log(s)) <= Len(Log(s)'),
         \A n \in DOMAIN Log(s) : Log(s)'[n] = Log(s)[n],
         Eaten(s)' = Eaten(s) => Welcomed(s)' \/ Shared(s)'
  PROVE  Orderly'
<1>1. InFlight(s)' /\ Eaten(s)' = Eaten(s)
  BY LogGrows DEF OrderlyInv
<1>2. Underway(s)'
  BY <1>1, ClientWaits DEF Underway, ReaderAfter
<1> QED BY <1>2, ClientWaits DEF OrderlyInv, Orderly

LEMMA RangeHasOne ==
  ASSUME InOrder, RangeUnused
  PROVE  \E i \in SP!IPM!Indexes : SP!IPM!Usable(i)
<1>1. Size \in Nat /\ Size > 1
  BY ServerAssumption DEF InOrder
<1>2. 0 \in SP!IPM!Indexes
  BY <1>1 DEF SP!IPM!Indexes
<1>3. index = 1
  BY <1>1 DEF RangeUnused
<1>4. SP!IPM!Probe(0) = 1
  BY <1>1, <1>3 DEF SP!IPM!Probe
<1>5. SP!IPM!Reached(0)
  BY DEF SP!IPM!Reached
<1> QED BY <1>2, <1>4, <1>5 DEF SP!IPM!Usable, RangeUnused

\* The hello makes the session.
LEMMA HelloArrives ==
  ASSUME InOrder, OrderlyInv, IInv', Beginning, queue = <<>>, toServer' = <<>>,
         SP!UdpHandleRead(Client, "hello"), ServerReplies, UNCHANGED clientVars
  PROVE  Orderly'
<1> USE ServerFits, ServerAssumption
<1>1. PICK s \in Sids :
        /\ SP!Found(Client, s)
        /\ SP!Decode(s, SP!FieldsOf(Client, s), SP!WithSession(Client, s), "hello",
                     SP!FieldsOf(Client, s).protector)
  BY DEF SP!UdpHandleRead
<1> DEFINE o == SP!NewSession(Client)
           m == SP!WithSession(Client, s)
<1>2. sessions[Client] = NoSession /\ object[s].key = NoKey
  BY <1>1 DEF Beginning, SP!Found
<1>3. SP!FieldsOf(Client, s) = o
  BY <1>2 DEF SP!FieldsOf
<1>4. /\ o.reader = "start" /\ o.protector = "scramble" /\ o.key = Client
      /\ o.out = <<>>
  BY DEF SP!NewSession, SP!Unallocated
<1>5. /\ object \in [Sids -> SP!Fields] /\ SP!IInv
      /\ object[s] = SP!Unallocated /\ Log(s) = <<>>
      /\ m[Client] = s
  <2>1. object \in [Sids -> SP!Fields] /\ SP!IInv
    BY DEF OrderlyInv, IInv, SP!IInv, SP!StateTypeOK
  <2>2. object[s] = SP!Unallocated /\ Log(s) = <<>>
    BY <1>2, <2>1 DEF SP!IInv, SP!ObjectsInv, SP!Unallocated, Log
  <2>3. Client \in SP!Keys /\ sessions \in [SP!Keys -> Sids \union {NoSession}]
    BY <2>1 DEF SP!Keys, SP!IInv, SP!StateTypeOK
  <2> QED BY <2>1, <2>2, <2>3 DEF SP!WithSession
<1> HIDE DEF o, m
<1>6. SP!StartAuthentication(s, o, m, "hello")
  BY <1>1, <1>3, <1>4 DEF SP!Decode, SP!HandlePacket, SP!Decoded, SP!ProtectorOf, m
<1>7. /\ SP!SendMessage(s, o.key, m, TRUE)
      /\ object' = [object EXCEPT ![s] =
                      [SP!Queued(o, "hello") EXCEPT !.reader = "hello"]]
      /\ UNCHANGED SP!addressVars
  <2>1. ~Failures
    BY DEF InOrder
  <2>2. PICK sent \in SP!Outcomes :
          /\ SP!SendMessage(s, o.key, m, sent)
          /\ object' = [object EXCEPT ![s] =
               IF sent THEN [SP!Queued(o, "hello") EXCEPT !.reader = "hello"] ELSE o]
          /\ UNCHANGED SP!addressVars
    BY <1>6, <2>1 DEF SP!StartAuthentication
  <2>3. sent = TRUE
    BY NothingFails
  <2> QED BY <2>2, <2>3
<1>8. sessions' = m /\ fault' = fault
  BY <1>7 DEF SP!SendMessage, SP!NoError
<1>9. /\ object'[s].reader = "hello" /\ Log(s)' = <<<<"hello", "scramble">>>>
      /\ \A t \in Sids \ {s} : object'[t] = object[t]
  <2>1. o \in SP!Fields
    BY <1>1, <1>3, <1>5, SP!FoundFits DEF SP!Keys
  <2>2. object'[s] = [SP!Queued(o, "hello") EXCEPT !.reader = "hello"]
    BY <1>5, <1>7
  <2>3. SP!Queued(o, "hello") = [o EXCEPT !.out = Append(<<>>, <<"hello", "scramble">>)]
    BY <1>4, <2>1 DEF SP!Queued, SP!Fields
  <2>4. Append(<<>>, <<"hello", "scramble">>) = <<<<"hello", "scramble">>>>
    OBVIOUS
  <2> QED BY <1>5, <1>7, <2>1, <2>2, <2>3, <2>4 DEF Log, SP!Fields
<1>10. Eaten(s) = 0 /\ InFlight(s)
  <2>1. Len(<<>>) = 0 /\ 0 - 0 = 0 /\ DOMAIN <<>> = {}
    OBVIOUS
  <2>2. Eaten(s) = 0 /\ DOMAIN toClient = {}
    BY <1>5, <2>1 DEF Beginning, Eaten
  <2> QED BY <2>2 DEF InFlight
<1>11. reader = ReaderAfter(Eaten(s))
  BY <1>10 DEF ReaderAfter, Beginning
<1>12. /\ Len(Log(s)) <= Len(Log(s)')
       /\ \A n \in DOMAIN Log(s) : Log(s)'[n] = Log(s)[n]
  <2>1. Len(<<>>) = 0 /\ Len(<<<<"hello", "scramble">>>>) = 1 /\ DOMAIN <<>> = {}
    OBVIOUS
  <2>2. Len(Log(s)) = 0 /\ Len(Log(s)') = 1 /\ DOMAIN Log(s) = {}
    BY <1>5, <1>9, <2>1
  <2> QED BY <2>2
<1>13. Eaten(s)' = Eaten(s) => Welcomed(s)'
  BY <1>7, <1>9, <1>10, ClientWaits DEF Welcomed, SP!addressVars, RangeUnused, Beginning,
     Nothing
<1> QED BY <1>5, <1>8, <1>9, <1>10, <1>11, <1>12, <1>13, ServerGoesOn

\* The key completes it.
LEMMA KeyArrives ==
  ASSUME InOrder, OrderlyInv, IInv', NEW s \in Sids, Underway(s), Welcomed(s),
         Eaten(s) # 0, queue = <<>>, toServer' = <<>>,
         SP!UdpHandleRead(Client, "key"), ServerReplies, UNCHANGED clientVars
  PROVE  Orderly'
<1> USE ServerFits, ServerAssumption
<1> DEFINE o == object[s]
           m == SP!WithSession(Client, s)
<1>1. sessions[Client] = s /\ s # NoSession /\ o.reader = "hello"
  BY DEF Underway, Welcomed
<1>2. SP!Found(Client, s) /\ SP!Decode(s, o, m, "key", o.protector)
  BY <1>1 DEF SP!UdpHandleRead, SP!Found, SP!FieldsOf
<1>3. SP!IInv
  BY DEF OrderlyInv, IInv
<1>4. /\ object \in [Sids -> SP!Fields] /\ o \in SP!Fields
      /\ o.protector = "scramble" /\ Len(o.out) = 1
      /\ SP!Ordered(o)
  BY <1>1, <1>3, Logs DEF SP!Stage, SP!Greeted
<1>5. m[Client] = s
  BY <1>2, <1>3, SP!FoundFits DEF SP!Keys
<1> HIDE DEF o, m
<1>6. SP!ParsePublicKey(s, o, m, "key")
  BY <1>1, <1>2, <1>4 DEF SP!Decode, SP!HandlePacket, SP!Decoded, SP!ProtectorOf, o
<1> DEFINE q == SP!Queued(o, "key")
           p == SP!Authenticated(q, "key")
<1>7. SP!HandleConnect(s, p, m)
  BY <1>6 DEF SP!ParsePublicKey, InOrder
<1>8. /\ q \in SP!Fields /\ SP!Ordered(q) /\ Len(q.out) = 2 /\ q.key = o.key
  <2>1. <<"key", o.protector>> = SP!Expected(Len(o.out) + 1, o.protector)
    BY <1>4 DEF SP!Expected
  <2>2. /\ q \in SP!Fields /\ SP!Ordered(q) /\ Len(q.out) = Len(o.out) + 1
        /\ q.key = o.key
    BY <1>4, <2>1, SP!QueuedInOrder DEF SP!Replies
  <2> QED BY <1>4, <2>2
<1>9. /\ p \in SP!Fields /\ SP!Ordered(p) /\ Len(p.out) = 2 /\ p.key = o.key
      /\ p.protector = "aes" /\ p.protector # "scramble"
  <2>1. /\ p \in SP!Fields /\ SP!Ordered(p) /\ Len(p.out) = Len(q.out)
        /\ p.key = q.key
    BY <1>8, SP!AuthenticatedFields
  <2>2. p.protector = "aes"
    BY <1>8 DEF SP!Authenticated, SP!Fields
  <2> HIDE DEF p, q
  <2> QED BY <1>8, <2>1, <2>2
<1> HIDE DEF p, q
<1>10. o.key = Client
  BY <1>1, <1>3 DEF o, SP!IInv, SP!MapOwner, SP!Keys
<1>11. /\ SP!SendMessage(s, p.key, m, TRUE)
       /\ object' = [object EXCEPT ![s] = SP!Configured(p, TRUE)]
  <2>1. ~Failures /\ RangeUnused
    BY DEF InOrder, Welcomed
  <2>2. ~(\A i \in SP!IPM!Indexes : ~SP!IPM!Usable(i))
    BY <2>1, RangeHasOne
  <2>3. PICK sent \in SP!Outcomes :
          /\ SP!SendMessage(s, p.key, m, sent)
          /\ object' = [object EXCEPT ![s] = SP!Configured(p, sent)]
    BY <1>7, <2>1, <2>2 DEF SP!HandleConnect, SP!Configured
  <2>4. sent = TRUE
    BY NothingFails
  <2> QED BY <2>3, <2>4
<1>12. sessions' = m /\ fault' = fault
  BY <1>9, <1>10, <1>11 DEF SP!SendMessage, SP!NoError
<1>13. /\ SP!Ordered(SP!Configured(p, TRUE))
       /\ SP!Configured(p, TRUE).protector = "aes"
       /\ SP!Configured(p, TRUE).reader = "channel"
       /\ SP!Configured(p, TRUE).tun = "reading"
       /\ Len(SP!Configured(p, TRUE).out) = 3
  <2>1. TRUE \in BOOLEAN
    OBVIOUS
  <2>2. /\ SP!Ordered(SP!Configured(p, TRUE))
        /\ SP!Configured(p, TRUE).protector = p.protector
        /\ SP!Configured(p, TRUE).reader = "channel"
        /\ SP!Configured(p, TRUE).tun = (IF TRUE THEN "reading" ELSE "made")
        /\ Len(SP!Configured(p, TRUE).out) = (IF TRUE THEN 3 ELSE 2)
    BY <1>9, <2>1, SP!ConfiguredFields
  <2> QED BY <1>9, <2>2
<1>14. /\ object'[s] = SP!Configured(p, TRUE)
       /\ \A t \in Sids \ {s} : object'[t] = object[t]
  BY <1>4, <1>11
<1>15. /\ Len(Log(s)) <= Len(Log(s)')
       /\ \A n \in DOMAIN Log(s) : Log(s)'[n] = Log(s)[n]
  <2>1. Len(Log(s)) = 1 /\ Len(Log(s)') = 3
    BY <1>4, <1>13, <1>14 DEF Log, o
  <2>2. DOMAIN Log(s) = {1} /\ Log(s)[1] = SP!Expected(1, o.protector)
    BY <1>3, <2>1, Logs DEF o
  <2>3. 1 \in DOMAIN Log(s)'
    <3>1. Log(s)' \in Seq(SP!Replies \X SP!Protectors)
      BY LogsAfter DEF IInv
    <3> QED BY <2>1, <3>1
  <2>4. Log(s)'[1] = SP!Expected(1, "aes")
    BY <1>13, <1>14, <2>3 DEF Log, SP!Ordered
  <2> QED BY <2>1, <2>2, <2>4 DEF SP!Expected
<1>16. Eaten(s) = 1
  <2>1. Len(Log(s)) = 1 /\ Eaten(s) \in Nat /\ toClient \in Seq(Datagrams)
    BY <1>4 DEF o, Log, Underway, InFlight, OrderlyInv, IInv, WireOK
  <2>2. Len(toClient) \in Nat /\ Eaten(s) = 1 - Len(toClient)
    BY <2>1 DEF Eaten
  <2>3. \A e, n \in Nat : e = 1 - n /\ e # 0 => e = 1
    OBVIOUS
  <2> QED BY <2>1, <2>2, <2>3
<1>17. Eaten(s)' = Eaten(s) => Shared(s)'
  <2>1. Nothing'
    BY ClientWaits DEF Nothing
  <2>2. Eaten(s)' = 1 => Eaten(s)' > 0 /\ Eaten(s)' < 3
    OBVIOUS
  <2> QED BY <1>13, <1>14, <1>16, <2>1, <2>2 DEF Shared
<1>18. sessions'[Client] = s
  BY <1>5, <1>12
<1> QED BY <1>12, <1>14, <1>15, <1>17, <1>18, ServerGoesOn DEF Underway

\* Then packets are for the device.
LEMMA DataArrives ==
  ASSUME InOrder, OrderlyInv, IInv', NEW s \in Sids, Underway(s), Shared(s),
         ~(Eaten(s) < 3), Data(toServer'),
         SP!UdpHandleRead(Client, "data"), ServerReplies, UNCHANGED clientVars
  PROVE  Orderly'
<1> USE ServerFits, ServerAssumption
<1> DEFINE o == object[s]
           m == SP!WithSession(Client, s)
<1>1. /\ sessions[Client] = s /\ s # NoSession
      /\ o.reader = "channel" /\ o.protector = "aes"
  BY DEF Underway, Shared
<1>2. SP!Found(Client, s) /\ SP!Decode(s, o, m, "data", o.protector)
  BY <1>1 DEF SP!UdpHandleRead, SP!Found, SP!FieldsOf
<1>3. SP!IInv
  BY DEF OrderlyInv, IInv
<1>4. object \in [Sids -> SP!Fields]
  BY <1>3, Logs
<1>5. m[Client] = s
  BY <1>2, <1>3, SP!FoundFits DEF SP!Keys
<1> HIDE DEF o, m
<1>6. SP!ClientRead(s, o, m)
  BY <1>1, <1>2 DEF SP!Decode, SP!HandlePacket, SP!ProtectorOf
<1>7. /\ sessions'[Client] = s /\ fault' = fault /\ object' = object
  BY <1>4, <1>5, <1>6 DEF SP!ClientRead, SP!NoError, o
<1>8. Log(s)' = Log(s) /\ Len(Log(s)) \in Nat
  BY <1>3, <1>7, Logs DEF Log
<1>9. Eaten(s)' = Eaten(s) => Shared(s)'
  BY <1>7, ClientWaits DEF Shared, Data
<1> QED BY <1>7, <1>8, <1>9, ServerGoesOn DEF Underway

LEMMA ServerReceivesInOrder ==
  ASSUME InOrder, OrderlyInv, IInv', ServerReceives
  PROVE  Orderly'
<1>1. /\ 1 \in DOMAIN toServer
      /\ SP!UdpHandleRead(Client, toServer[1][1])
      /\ toServer' = RemoveAt(toServer, 1)
      /\ ServerReplies /\ UNCHANGED clientVars
  BY ServerRead DEF ServerReceives, Arriving, InOrder
<1>2. toServer \in Seq(Messages)
  BY DEF OrderlyInv, IInv, WireOK
<1>3. /\ Len(toServer') = Len(toServer) - 1 /\ toServer' \in Seq(Messages)
      /\ \A n \in 1..(Len(toServer) - 1) : toServer'[n] = toServer[n + 1]
  BY <1>1, <1>2, HeadRemoved
<1>4. toServer # <<>>
  BY <1>1
<1>5. ASSUME NEW message, Only(message)
      PROVE  toServer[1][1] = message /\ toServer' = <<>> /\ queue = <<>>
  <2>1. toServer = <<<<message, "scramble">>>> /\ queue = <<>>
    BY <1>4, <1>5 DEF Only
  <2>2. Len(toServer') = 0
    BY <1>3, <2>1
  <2>3. toServer' = <<>>
    BY <1>3, <2>2
  <2> QED BY <2>1, <2>3
<1>6. CASE Beginning
  BY <1>1, <1>5, <1>6, HelloArrives DEF Beginning
<1>7. ASSUME NEW s \in Sids, Underway(s), Welcomed(s)
      PROVE  Orderly'
  <2>1. Eaten(s) # 0 /\ Only("key")
    BY <1>4, <1>7 DEF Welcomed, Nothing
  <2> QED BY <1>1, <1>5, <1>7, <2>1, KeyArrives
<1>8. ASSUME NEW s \in Sids, Underway(s), Shared(s)
      PROVE  Orderly'
  <2>1. ~(Eaten(s) < 3) /\ Data(toServer)
    BY <1>4, <1>8 DEF Shared, Nothing
  <2>2. toServer[1][1] = "data"
    BY <1>1, <2>1 DEF Data
  <2>3. Data(toServer')
    <3>1. DOMAIN toServer' = 1..(Len(toServer) - 1)
      BY <1>3
    <3>2. \A n \in 1..(Len(toServer) - 1) : n + 1 \in DOMAIN toServer
      BY <1>2
    <3> QED BY <1>3, <2>1, <3>1, <3>2 DEF Data
  <2> QED BY <1>1, <1>8, <2>1, <2>2, <2>3, DataArrives
<1> QED BY <1>6, <1>7, <1>8 DEF OrderlyInv, Orderly, Underway

\* A packet of the device goes to the end of the log.
LEMMA ServerForwardsInOrder ==
  ASSUME InOrder, OrderlyInv, IInv', ServerForwards
  PROVE  Orderly'
<1>1. PICK s \in Sids : SP!TunTapRead(s)
  BY ServerTunTap DEF ServerForwards
<1>2. ServerReplies /\ UNCHANGED clientVars /\ toServer' = toServer
  BY DEF ServerForwards
<1>3. SP!IInv
  BY DEF OrderlyInv, IInv
<1>4. /\ object[s].tun = "reading"
      /\ SP!SendMessage(s, object[s].key, sessions, TRUE)
      /\ object' = [object EXCEPT ![s] = SP!Queued(object[s], "data")]
  <2>1. PICK sent \in SP!Outcomes :
          /\ SP!SendMessage(s, object[s].key, sessions, sent)
          /\ object' = [object EXCEPT ![s] =
               IF sent THEN SP!Queued(object[s], "data") ELSE object[s]]
    BY <1>1 DEF SP!TunTapRead
  <2>2. sent = TRUE
    BY NothingFails
  <2> QED BY <1>1, <2>1, <2>2 DEF SP!TunTapRead
<1>5. /\ object \in [Sids -> SP!Fields] /\ object[s] \in SP!Fields
      /\ Log(s) \in Seq(SP!Replies \X SP!Protectors) /\ Len(Log(s)) \in Nat
  BY <1>3, Logs
<1>6. object[s].key = Client
  <2>1. object[s].key # NoKey
    BY <1>3, <1>4, Logs DEF SP!Unallocated
  <2> QED BY <1>5, <2>1 DEF SP!Fields, SP!Keys
<1>7. sessions[Client] = s
  BY <1>6, ServerAssumption DEF OrderlyInv, IInv, OneSession
<1>8. sessions' = sessions /\ fault' = fault
  BY <1>4, <1>6 DEF SP!SendMessage, SP!NoError
<1>9. Underway(s) /\ Shared(s)
  <2>1. s # NoSession
    BY ServerAssumption
  <2>2. Underway(s)
    BY <1>7, <2>1 DEF OrderlyInv, Orderly, Beginning, Underway
  <2>3. object[s].reader # "hello"
    BY <1>3, <1>4, Logs DEF SP!Stage, SP!Greeted
  <2> QED BY <2>2, <2>3 DEF Underway, Welcomed
<1>10. /\ object'[s].reader = object[s].reader /\ object'[s].tun = object[s].tun
       /\ object'[s].protector = object[s].protector
       /\ Log(s)' = Append(Log(s), <<"data", object[s].protector>>)
       /\ \A t \in Sids \ {s} : object'[t] = object[t]
  BY <1>4, <1>5 DEF SP!Queued, SP!Fields, Log
<1>11. /\ Len(Log(s)) <= Len(Log(s)')
       /\ \A n \in DOMAIN Log(s) : Log(s)'[n] = Log(s)[n]
  <2> HIDE DEF Log
  <2>1. Len(Log(s)') = Len(Log(s)) + 1
    BY <1>5, <1>10
  <2> QED BY <1>5, <1>10, <2>1
<1>12. Eaten(s)' = Eaten(s) => Shared(s)'
  BY <1>2, <1>9, <1>10, ClientWaits DEF Shared, Nothing, Data
<1> QED BY <1>2, <1>7, <1>8, <1>9, <1>10, <1>11, <1>12, ServerGoesOn DEF Underway

-----------------------------------------------------------------------------
(* The client's steps.                                                     *)

\* What the client's steps leave alone.
LEMMA ServerRests ==
  ASSUME UNCHANGED serverVars
  PROVE  /\ UNCHANGED <<sessions, object, fault>>
         /\ RangeUnused => RangeUnused'
         /\ \A s \in Sids : Log(s)' = Log(s)
BY DEF serverVars, Log, RangeUnused

LEMMA SentInOrder ==
  ASSUME InOrder, NEW message, NEW p, C!Sent(message, p)
  PROVE  queue' = Append(queue, <<message, p>>)
<1>1. PICK sent \in C!Outcomes :
        queue' = IF sent THEN Append(queue, <<message, p>>) ELSE queue
  BY DEF C!Sent
<1>2. sent = TRUE
  BY NothingFails
<1> QED BY <1>1, <1>2

LEMMA ClientSendsInOrder ==
  ASSUME InOrder, OrderlyInv, IInv', ClientSends
  PROVE  Orderly'
<1>1. /\ queue # <<>> /\ queue' = Tail(queue)
      /\ UNCHANGED <<reader, protector, mistaken, tun, address, known, crash>>
      /\ toServer' = Append(toServer, Head(queue))
      /\ toClient' = toClient /\ UNCHANGED serverVars
  BY DEF ClientSends, C!HandleWrite
<1>2. /\ toServer \in Seq(Messages) /\ queue \in Seq(Messages)
  BY DEF OrderlyInv, IInv, WireOK, C!TypeOK, Messages, SP!Protectors
<1>3. UNCHANGED <<sessions, object, fault>>
  BY <1>1, ServerRests
<1>4. /\ Head(queue) = queue[1] /\ Head(queue) \in Messages
      /\ \A n \in DOMAIN queue' : n + 1 \in DOMAIN queue /\ queue'[n] = queue[n + 1]
  BY <1>1, <1>2, TailKeeps
<1>5. \A n \in DOMAIN toServer' :
        \/ n \in DOMAIN toServer /\ toServer'[n] = toServer[n]
        \/ toServer'[n] = queue[1]
  BY <1>1, <1>2, <1>4, AppendKeeps
<1>6. ASSUME NEW message, Only(message) PROVE Only(message)'
  <2>1. toServer = <<>> /\ queue = <<<<message, "scramble">>>>
    BY <1>1, <1>6 DEF Only
  <2>2. /\ Tail(<<<<message, "scramble">>>>) = <<>>
        /\ Append(<<>>, <<message, "scramble">>) = <<<<message, "scramble">>>>
        /\ Head(<<<<message, "scramble">>>>) = <<message, "scramble">>
    OBVIOUS
  <2> QED BY <1>1, <2>1, <2>2 DEF Only
<1>7. CASE Beginning
  <2>1. Beginning'
    BY <1>1, <1>3, <1>6, <1>7, ServerRests DEF Beginning
  <2> QED BY <1>1, <1>3, <2>1 DEF OrderlyInv, Orderly
<1>8. ASSUME NEW s \in Sids, Underway(s) PROVE Orderly'
  <2>1. Log(s)' = Log(s) /\ Eaten(s)' = Eaten(s)
    BY <1>1, ServerRests DEF Eaten
  <2>2. InFlight(s)' /\ reader' = ReaderAfter(Eaten(s)') /\ sessions'[Client] = s
    BY <1>1, <1>3, <1>8, <2>1 DEF Underway, InFlight
  <2>3. CASE Welcomed(s)
    <3>1. Eaten(s) # 0 /\ Only("key")
      BY <1>1, <2>3 DEF Welcomed, Nothing
    <3>2. Welcomed(s)'
      BY <1>1, <1>3, <1>6, <2>1, <2>3, <3>1, ServerRests DEF Welcomed
    <3> QED BY <1>1, <1>3, <2>2, <3>2 DEF OrderlyInv, Orderly, Underway
  <2>4. CASE Shared(s)
    <3>1. ~(Eaten(s) < 3) /\ Data(toServer) /\ Data(queue)
      BY <1>1, <2>4 DEF Shared, Nothing
    <3>2. queue[1] = <<"data", "aes">>
      BY <1>1, <1>2, <3>1, TailKeeps DEF Data
    <3>3. Data(toServer') /\ Data(queue')
      BY <1>4, <1>5, <3>1, <3>2 DEF Data
    <3>4. Shared(s)'
      BY <1>3, <2>1, <2>4, <3>1, <3>3 DEF Shared
    <3> QED BY <1>1, <1>3, <2>2, <3>4 DEF OrderlyInv, Orderly, Underway
  <2> QED BY <1>8, <2>3, <2>4 DEF Underway
<1> QED BY <1>7, <1>8 DEF OrderlyInv, Orderly

\* The next reply of the log, for the callback it was meant for.
LEMMA ClientReceivesInOrder ==
  ASSUME InOrder, OrderlyInv, IInv', ClientReceives
  PROVE  Orderly'
<1> DEFINE d == toClient[1]
<1>1. /\ 1 \in DOMAIN toClient
      /\ \/ d.message # "short" /\ C!HandleRead(d.message, d.protector, d.address)
         \/ d.message = "short" /\ C!HandleReadShort
      /\ toClient' = RemoveAt(toClient, 1)
      /\ UNCHANGED serverVars /\ toServer' = toServer
  BY DEF ClientReceives, Arriving, InOrder
<1>2. toClient \in Seq(Datagrams) /\ SP!IInv /\ queue \in Seq(Messages)
  BY DEF OrderlyInv, IInv, WireOK, C!TypeOK, Messages, SP!Protectors
<1>3. /\ Len(toClient') = Len(toClient) - 1 /\ toClient' \in Seq(Datagrams)
      /\ \A n \in 1..(Len(toClient) - 1) : toClient'[n] = toClient[n + 1]
  BY <1>1, <1>2, HeadRemoved
<1>4. UNCHANGED <<sessions, object, fault>>
  BY <1>1, ServerRests
<1>5. PICK s \in Sids : Underway(s)
  <2>1. toClient # <<>>
    BY <1>1
  <2> QED BY <2>1 DEF OrderlyInv, Orderly, Beginning
<1>6. Log(s)' = Log(s)
  BY <1>1, ServerRests
<1> DEFINE e == Eaten(s)
<1>7. e \in Nat /\ e = Len(Log(s)) - Len(toClient) /\ Len(toClient) \in Nat
      /\ Len(Log(s)) \in Nat /\ Len(toClient) >= 1
  BY <1>1, <1>2, <1>5, Logs DEF Underway, InFlight, Eaten
<1> HIDE DEF d, e
<1>8. Eaten(s)' = e + 1
  BY <1>3, <1>6, <1>7 DEF Eaten
<1>9. InFlight(s)'
  <2>1. ASSUME NEW n \in DOMAIN toClient'
        PROVE  /\ toClient'[n].message = Log(s)[(e + 1) + n][1]
               /\ toClient'[n].protector = Log(s)[(e + 1) + n][2]
    <3>1. n \in 1..(Len(toClient) - 1) /\ n + 1 \in DOMAIN toClient /\ n \in Nat
      BY <1>2, <1>3
    <3>2. (e + 1) + n = e + (n + 1)
      BY <1>7, <3>1
    <3>3. /\ toClient[n + 1].message = Log(s)[e + (n + 1)][1]
          /\ toClient[n + 1].protector = Log(s)[e + (n + 1)][2]
      BY <1>5, <3>1 DEF Underway, InFlight, e
    <3> QED BY <1>3, <3>1, <3>2, <3>3
  <2>2. e + 1 \in Nat
    BY <1>7
  <2> QED BY <1>6, <1>8, <2>1, <2>2 DEF InFlight
<1>10. <<d.message, d.protector>> = SP!Expected(e + 1, object[s].protector)
  <2>1. e + 1 \in DOMAIN Log(s)
    BY <1>2, <1>7, Logs
  <2>2. Log(s)[e + 1] = SP!Expected(e + 1, object[s].protector)
    BY <1>2, <2>1, Logs
  <2>3. d.message = Log(s)[e + 1][1] /\ d.protector = Log(s)[e + 1][2]
    BY <1>1, <1>5 DEF Underway, InFlight, e, d
  <2>4. Log(s)[e + 1] \in SP!Replies \X SP!Protectors
    BY <1>2, <2>1, Logs
  <2> QED BY <2>2, <2>3, <2>4
<1>11. /\ known /\ mistaken = {} /\ crash = "none" /\ fault = "none"
       /\ protector = IF reader \in {"hello", "key"} THEN "scramble" ELSE "aes"
       /\ reader = ReaderAfter(e)
       /\ sessions[Client] = s
       /\ Welcomed(s) \/ Shared(s)
  BY <1>5 DEF OrderlyInv, Orderly, Underway, e
<1>12. ~Failures
  BY DEF InOrder
<1>13. ASSUME reader' = ReaderAfter(e + 1), known', mistaken' = {}, crash' = "none",
              protector' = IF reader' \in {"hello", "key"} THEN "scramble" ELSE "aes",
              Welcomed(s)' \/ Shared(s)'
       PROVE  Orderly'
  <2>1. Underway(s)'
    BY <1>4, <1>8, <1>9, <1>11, <1>13 DEF Underway
  <2> QED BY <1>4, <1>11, <1>13, <2>1 DEF Orderly
<1>14. CASE e = 0
  <2>1. reader = "hello" /\ protector = "scramble"
    BY <1>11, <1>14 DEF ReaderAfter
  <2>2. d.message = "hello" /\ d.protector = "scramble"
    BY <1>10, <1>14 DEF SP!Expected
  <2>3. C!HandlePacket("hello", d.address)
    BY <1>1, <1>11, <2>1, <2>2 DEF C!HandleRead, C!Decoded, C!Readable
  <2>4. /\ reader' = "key" /\ mistaken' = {} /\ queue' = Append(queue, <<"key", "scramble">>)
        /\ UNCHANGED <<protector, known, crash>>
    <3>1. C!Sent("key", protector)
      BY <2>1, <2>3 DEF C!HandlePacket, C!Hello
    <3>2. queue' = Append(queue, <<"key", "scramble">>)
      BY <2>1, <3>1, SentInOrder
    <3> QED BY <2>1, <2>3, <3>2 DEF C!HandlePacket, C!Hello
  <2>5. Welcomed(s) /\ Nothing
    BY <1>11, <1>14 DEF Shared, Welcomed, e
  <2>6. Only("key")'
    <3>1. Append(<<>>, <<"key", "scramble">>) = <<<<"key", "scramble">>>>
      OBVIOUS
    <3> QED BY <1>1, <2>4, <2>5, <3>1 DEF Nothing, Only
  <2>7. Welcomed(s)'
    BY <1>1, <1>4, <1>8, <1>14, <2>5, <2>6, ServerRests DEF Welcomed
  <2>8. ReaderAfter(e + 1) = "key"
    BY <1>14 DEF ReaderAfter
  <2> QED BY <1>11, <1>13, <2>1, <2>4, <2>7, <2>8
<1>15. ASSUME e # 0 PROVE Shared(s)
  <2>1. CASE Welcomed(s)
    <3>1. Len(Log(s)) = 1
      <4>1. SP!Stage(object[s], holds[s]) /\ object[s].reader = "hello"
        BY <1>2, <2>1, Logs DEF Welcomed
      <4> QED BY <4>1 DEF SP!Stage, SP!Greeted, Log
    <3>2. e = 1 - Len(toClient)
      BY <1>7, <3>1
    <3>3. e = 0
      BY <1>7, <3>2
    <3> QED BY <1>15, <3>3
  <2> QED BY <1>11, <2>1
<1>16. ASSUME e # 0, queue' = queue PROVE Shared(s)'
  <2>1. Shared(s)
    BY <1>15, <1>16
  <2>2. (e + 1) > 0 /\ (e + 1 < 3 => e < 3)
    BY <1>7
  <2>3. Nothing => Data(toServer) /\ Data(queue)
    BY DEF Nothing, Data
  <2>4. IF e + 1 < 3 THEN Nothing ELSE Data(toServer) /\ Data(queue)
    BY <2>1, <2>2, <2>3 DEF Shared, e
  <2>5. IF e + 1 < 3 THEN Nothing' ELSE Data(toServer') /\ Data(queue')
    BY <1>1, <1>16, <2>4 DEF Nothing
  <2> QED BY <1>4, <1>8, <2>1, <2>2, <2>5 DEF Shared
<1>17. CASE e = 1
  <2>1. reader = "key" /\ protector = "scramble"
    BY <1>11, <1>17 DEF ReaderAfter
  <2>2. d.message = "key" /\ d.protector = "scramble"
    BY <1>10, <1>17 DEF SP!Expected
  <2>3. C!HandlePacket("key", d.address)
    BY <1>1, <1>11, <2>1, <2>2 DEF C!HandleRead, C!Decoded, C!Readable
  <2>4. /\ reader' = "config" /\ protector' = "aes"
        /\ UNCHANGED <<mistaken, queue, known, crash>>
    BY <1>11, <2>1, <2>3 DEF C!HandlePacket, C!PublicKey, C!DerivedKey
  <2>5. ReaderAfter(e + 1) = "config"
    BY <1>17 DEF ReaderAfter
  <2> QED BY <1>11, <1>13, <1>16, <1>17, <2>4, <2>5
<1>18. CASE e = 2
  <2>1. reader = "config" /\ protector = "aes"
    BY <1>11, <1>18 DEF ReaderAfter
  <2>2. d.message = "config" /\ d.protector = "aes"
    BY <1>10, <1>15, <1>18 DEF SP!Expected, Shared
  <2>3. C!HandlePacket("config", d.address)
    BY <1>1, <1>11, <2>1, <2>2 DEF C!HandleRead, C!Decoded, C!Readable
  <2>4. /\ reader' = "packet"
        /\ UNCHANGED <<protector, mistaken, queue, known, crash>>
    BY <1>12, <2>1, <2>3 DEF C!HandlePacket, C!ServerConfig
  <2>5. ReaderAfter(e + 1) = "packet"
    BY <1>18 DEF ReaderAfter
  <2> QED BY <1>11, <1>13, <1>16, <1>18, <2>1, <2>4, <2>5
<1>19. CASE e > 2
  <2>1. ReaderAfter(e) = "packet" /\ ReaderAfter(e + 1) = "packet"
    <3>1. e # 0 /\ e # 1 /\ e # 2 /\ e + 1 # 0 /\ e + 1 # 1 /\ e + 1 # 2
      BY <1>7, <1>19
    <3> QED BY <3>1 DEF ReaderAfter
  <2>2. reader = "packet" /\ protector = "aes"
    BY <1>11, <2>1
  <2>3. d.message = "data" /\ d.protector = "aes"
    <3>1. e # 0 /\ e + 1 # 1 /\ e + 1 # 2 /\ e + 1 # 3
      BY <1>7, <1>19
    <3> QED BY <1>10, <1>15, <3>1 DEF SP!Expected, Shared
  <2>4. C!ServerPacket
    BY <1>1, <1>11, <2>2, <2>3
       DEF C!HandleRead, C!Decoded, C!Readable, C!HandlePacket
  <2>5. UNCHANGED <<reader, protector, mistaken, queue, known, crash>>
    BY <2>4 DEF C!ServerPacket
  <2> QED BY <1>7, <1>11, <1>13, <1>16, <1>19, <2>1, <2>5
<1> QED BY <1>7, <1>14, <1>17, <1>18, <1>19

\* The device of the client is only read when its tunnel is up.
LEMMA ClientForwardsInOrder ==
  ASSUME InOrder, OrderlyInv, IInv', ClientForwards
  PROVE  Orderly'
<1>1. /\ tun = "reading" /\ C!Sent("data", protector)
      /\ UNCHANGED <<reader, protector, mistaken, known, crash>>
      /\ UNCHANGED <<serverVars, toServer, toClient>>
  BY DEF ClientForwards, C!TunTapRead, networkVars
<1>2. reader = "packet" /\ protector = "aes"
  BY <1>1 DEF OrderlyInv, IInv, TunnelAgrees
<1>3. PICK s \in Sids : Underway(s)
  BY <1>2 DEF OrderlyInv, Orderly, Beginning
<1>4. Eaten(s) # 0 /\ Eaten(s) # 1 /\ Eaten(s) # 2 /\ Eaten(s) \in Nat
  BY <1>2, <1>3 DEF Underway, ReaderAfter, InFlight
<1>5. Shared(s)
  <2>1. CASE Welcomed(s)
    <3>1. Len(Log(s)) = 1
      BY <2>1, Logs DEF OrderlyInv, IInv, Welcomed, SP!Stage, SP!Greeted, Log
    <3>2. Len(toClient) \in Nat
      BY DEF OrderlyInv, IInv, WireOK
    <3>3. \A a, b \in Nat : a = 1 - b => a = 0 \/ a = 1
      OBVIOUS
    <3> QED BY <1>4, <3>1, <3>2, <3>3 DEF Eaten
  <2> QED BY <1>3, <2>1 DEF Underway
<1>6. Data(toServer) /\ Data(queue)
  BY <1>4, <1>5 DEF Shared
<1>7. queue' = Append(queue, <<"data", "aes">>)
  BY <1>1, <1>2, SentInOrder
<1>8. Data(queue')
  <2>1. queue \in Seq(Messages) /\ <<"data", "aes">> \in Messages
    BY DEF OrderlyInv, IInv, C!TypeOK, Messages, SP!Protectors
  <2>2. \A n \in DOMAIN queue' :
          \/ n \in DOMAIN queue /\ queue'[n] = queue[n]
          \/ queue'[n] = <<"data", "aes">>
    BY <1>7, <2>1, AppendKeeps
  <2> QED BY <1>6, <2>2 DEF Data
<1>9. UNCHANGED <<sessions, object, fault>> /\ Log(s)' = Log(s)
  BY <1>1, ServerRests
<1>10. Eaten(s)' = Eaten(s)
  BY <1>1, <1>9 DEF Eaten
<1>11. Shared(s)'
  BY <1>1, <1>4, <1>5, <1>6, <1>8, <1>9, <1>10 DEF Shared
<1>12. Underway(s)'
  BY <1>1, <1>3, <1>9, <1>10, <1>11 DEF Underway, InFlight
<1> QED BY <1>1, <1>9, <1>12 DEF OrderlyInv, Orderly

-----------------------------------------------------------------------------
(* The result.                                                             *)

LEMMA InitOrderly == ASSUME InOrder, Init PROVE OrderlyInv
<1>1. queue = <<<<"hello", "scramble">>>>
  <2>1. PICK sent \in C!Outcomes :
          queue = IF sent THEN <<<<"hello", "scramble">>>> ELSE <<>>
    BY DEF Init, C!Init
  <2>2. sent = TRUE
    BY NothingFails
  <2> QED BY <2>1, <2>2
<1>2. sessions[Client] = NoSession
  BY DEF Init, S!Init, S!Keys
<1>3. Beginning
  BY <1>1, <1>2 DEF Init, C!Init, S!Init, Beginning, Only, RangeUnused
<1>4. Orderly
  BY <1>3 DEF Init, C!Init, S!Init, Orderly
<1> QED BY <1>4, InitIInv DEF OrderlyInv

LEMMA NextOrderly == ASSUME InOrder, OrderlyInv, [Next]_vars PROVE OrderlyInv'
<1>1. IInv'
  BY NextIInv DEF OrderlyInv
<1>2. CASE UNCHANGED vars
  <2>1. UNCHANGED <<serverVars, reader, protector, mistaken, known, crash, queue,
                    toServer, toClient>>
    BY <1>2 DEF vars, clientVars, networkVars
  <2>2. UNCHANGED <<sessions, object, fault>> /\ (RangeUnused => RangeUnused')
        /\ \A s \in Sids : Log(s)' = Log(s)
    BY <2>1, ServerRests
  <2>3. \A s \in Sids : Eaten(s)' = Eaten(s)
    BY <2>1, <2>2 DEF Eaten
  <2>4. ASSUME NEW s \in Sids, Underway(s) PROVE Underway(s)'
    <3>1. Welcomed(s) => Welcomed(s)'
      BY <2>1, <2>2, <2>3 DEF Welcomed, Nothing, Only
    <3>2. Shared(s) => Shared(s)'
      BY <2>1, <2>2, <2>3 DEF Shared, Nothing
    <3>3. InFlight(s) => InFlight(s)'
      BY <2>1, <2>2, <2>3 DEF InFlight
    <3> QED BY <2>1, <2>2, <2>3, <2>4, <3>1, <3>2, <3>3 DEF Underway
  <2>5. Beginning => Beginning'
    BY <2>1, <2>2 DEF Beginning, Only
  <2> QED BY <1>1, <2>1, <2>2, <2>4, <2>5 DEF OrderlyInv, Orderly
<1>3. ~Unreliable
  BY DEF InOrder
<1>4. CASE Next
  <2>1. ~DuplicateToServer /\ ~DuplicateToClient /\ ~Truncate
    BY <1>3 DEF DuplicateToServer, DuplicateToClient, Truncate, Damages
  <2>2. Orderly'
    BY <1>1, <1>4, <2>1, ServerReceivesInOrder, ServerForwardsInOrder,
       ClientSendsInOrder, ClientReceivesInOrder, ClientForwardsInOrder DEF Next
  <2> QED BY <1>1, <2>2 DEF OrderlyInv
<1> QED BY <1>2, <1>4

\* When the network keeps the order and nothing fails, neither program aborts,
\* however many packets are exchanged and wherever the programs interleave.
\* A range of one address is left out: the server itself has it, and the
\* first client aborts the server (HandleConnect).
THEOREM NoAbortInOrder == InOrder => (Spec => []NoSurprise)
<1> SUFFICES ASSUME InOrder PROVE Spec => []NoSurprise
  OBVIOUS
<1>1. Init => OrderlyInv
  BY InitOrderly
<1>2. OrderlyInv /\ [Next]_vars => OrderlyInv'
  BY NextOrderly
<1>3. OrderlyInv => NoSurprise
  BY DEF OrderlyInv, Orderly, NoSurprise
<1> QED BY <1>1, <1>2, <1>3, PTL DEF Spec
=============================================================================
