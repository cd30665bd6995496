------------------------ MODULE ServerSessionsProofs ------------------------
(***************************************************************************)
(* The invariants of ServerSessions, for any clients, connections, session *)
(* objects and size of the tunnel range.                                   *)
(*                                                                         *)
(* A handler works on one session s, found or created under one key k.     *)
(* Proving its step has two parts: what it makes of the fields of s and of *)
(* the addresses (Outcome), and that such an outcome, whatever handler it  *)
(* comes from, keeps the relations between the map, the connections and    *)
(* the pointers they keep (UpdateKeeps, AbortKeeps).  The addresses are    *)
(* IPManagerProofs' business.                                              *)
(***************************************************************************)
EXTENDS ServerSessions, TLAPS

P == INSTANCE IPManagerProofs WITH Holders <- Sids \union {Server}

Aborts == {"no session", "authentication", "decryption", "no address",
           "no device"}

StateTypeOK ==
  /\ sessions \in [Keys -> Sids \union {NoSession}]
  /\ object \in [Sids -> Fields]
  /\ conn \in [Conns -> {"idle", "open", "closed"}]
  /\ cached \in [Conns -> [session : Sids \union {NoSession},
                          decoder : Protectors \union {"none"}]]
  /\ inLoop \in Conns \union {NoConn}
  /\ doomed \subseteq Sids /\ released \subseteq Sids
  /\ fault \in Aborts \union {"none"}

Ordered(o) == \A n \in DOMAIN o.out : o.out[n] = Expected(n, o.protector)

\* How far a session with fields o and tunnel address a may have come.
Starting(o, a) == /\ o.protector = "scramble" /\ o.tun = "none"
                  /\ Len(o.out) = 0 /\ a = NoAddress
Greeted(o, a) == /\ o.protector = "scramble" /\ o.tun = "none"
                 /\ Len(o.out) = 1 /\ a = NoAddress
Connected(o, a) == /\ o.protector # "scramble" /\ a # NoAddress
                   /\ \/ o.tun = "made" /\ Len(o.out) = 2
                      \/ o.tun = "reading" /\ Len(o.out) > 2
Stage(o, a) == /\ o.reader = "start" => Starting(o, a)
               /\ o.reader = "hello" => Greeted(o, a)
               /\ o.reader = "channel" => Connected(o, a)
               /\ Ordered(o)

ObjectsInv ==
  /\ \A s \in Sids : Stage(object[s], holds[s])
  /\ \A s \in Sids : object[s].key = NoKey => object[s] = Unallocated
  /\ \A s \in doomed \union released : object[s].key # NoKey

\* What the loop of HandleRead still has to read of a connection, it reads
\* without a pointer to a session.
LoopInv ==
  /\ \A c \in Conns :
       inLoop = c \/ conn[c] = "idle" => cached[c] = Unbound
  /\ \A c \in Conns : inLoop = c => conn[c] # "idle"

\* A tunnel that reads its device has its session in the map, or its
\* connection is closed for good.
TunnelsInv ==
  \A s \in Sids, c \in Conns :
    object[s].tun = "reading" /\ object[s].key = c =>
      \/ sessions[c] = s
      \/ sessions[c] = NoSession /\ conn[c] = "closed" /\ inLoop # c

IInv == /\ StateTypeOK
        /\ ObjectsInv
        /\ MapOwner
        /\ CachedPointersLive
        /\ LoopInv
        /\ TunnelsInv
        /\ P!IInv

-----------------------------------------------------------------------------
(* Fields of sessions.                                                     *)

LEMMA UnallocatedStarts ==
  ASSUME NEW a, Stage(Unallocated, a), NEW k \in Keys
  PROVE  NewSession(k) \in Fields /\ NewSession(k).key = k /\ Stage(NewSession(k), a)
<1> DEFINE o == NewSession(k)
<1>1. /\ o.key = k /\ o.reader = "start" /\ o.protector = "scramble"
      /\ o.tun = "none" /\ o.out = <<>>
  BY DEF NewSession, Unallocated
<1>2. o \in Fields
  <2>1. <<>> \in Seq(Replies \X Protectors)
    OBVIOUS
  <2> QED BY <2>1 DEF NewSession, Unallocated, Fields, Protectors
<1>3. a = NoAddress
  BY DEF Stage, Starting, Unallocated
<1> QED BY <1>1, <1>2, <1>3 DEF Stage, Starting, Ordered

\* A message that is the one expected next keeps the log in order.
LEMMA QueuedInOrder ==
  ASSUME NEW o \in Fields, Ordered(o), NEW message \in Replies,
         <<message, o.protector>> = Expected(Len(o.out) + 1, o.protector)
  PROVE  /\ Queued(o, message) \in Fields /\ Ordered(Queued(o, message))
         /\ Len(Queued(o, message).out) = Len(o.out) + 1
         /\ Queued(o, message).key = o.key
         /\ Queued(o, message).reader = o.reader
         /\ Queued(o, message).protector = o.protector
         /\ Queued(o, message).tun = o.tun
<1> DEFINE log == Append(o.out, <<message, o.protector>>)
           q == Queued(o, message)
<1>1. o.out \in Seq(Replies \X Protectors) /\ o.protector \in Protectors
  BY DEF Fields
<1>2. /\ log \in Seq(Replies \X Protectors)
      /\ Len(log) = Len(o.out) + 1
      /\ log[Len(o.out) + 1] = <<message, o.protector>>
      /\ \A n \in 1..Len(o.out) : log[n] = o.out[n]
  BY <1>1
<1>3. /\ q \in Fields /\ q.out = log
      /\ q.key = o.key /\ q.reader = o.reader /\ q.protector = o.protector
      /\ q.tun = o.tun
  <2>1. q = [o EXCEPT !.out = log]
    BY DEF Queued
  <2> HIDE DEF log, q
  <2> QED BY <1>2, <2>1 DEF Fields
<1>4. ASSUME NEW n \in DOMAIN log
      PROVE  log[n] = Expected(n, o.protector)
  <2>1. n \in 1..Len(o.out) \/ n = Len(o.out) + 1
    BY <1>1, <1>2
  <2>2. n \in 1..Len(o.out) => n \in DOMAIN o.out
    BY <1>1
  <2> QED BY <1>2, <2>1, <2>2 DEF Ordered
<1>5. Ordered(q)
  BY <1>3, <1>4 DEF Ordered
<1> QED BY <1>2, <1>3, <1>5

\* The first two messages do not depend on the protector the session has now.
LEMMA EarlyOrder ==
  ASSUME NEW o \in Fields, Ordered(o), Len(o.out) \in {0, 1, 2},
         NEW o2 \in Fields, o2.out = o.out
  PROVE  Ordered(o2)
<1>1. o.out \in Seq(Replies \X Protectors)
  BY DEF Fields
<1>2. \A n \in DOMAIN o.out : n = 1 \/ n = 2
  BY <1>1
<1> QED BY <1>2 DEF Ordered, Expected

-----------------------------------------------------------------------------
(* Addresses.                                                              *)

LEMMA RangeFits == P!SizeAssumption /\ P!NoAddressAssumption
BY RangeAssumption DEF P!SizeAssumption, P!NoAddressAssumption

LEMMA AddressesStay ==
  ASSUME P!IInv, UNCHANGED addressVars
  PROVE  P!IInv' /\ holds' = holds
<1>1. UNCHANGED P!vars
  BY DEF addressVars, P!vars
<1>2. P!IInv'
  BY <1>1, RangeFits, P!NextIInv
<1> QED BY <1>2 DEF addressVars

LEMMA AddressTaken ==
  ASSUME P!IInv, NEW s \in Sids, IPM!AllocateIP(s)
  PROVE  /\ P!IInv'
         /\ holds'[s] # NoAddress
         /\ \A r \in Sids \ {s} : holds'[r] = holds[r]
<1>1. P!AllocateIP(s)
  BY DEF IPM!AllocateIP, P!AllocateIP, IPM!Resized, P!Resized,
         IPM!Usable, P!Usable, IPM!Reached, P!Reached, IPM!Probe, P!Probe,
         IPM!Indexes, P!Indexes, IPM!GetAddressIndex, P!GetAddressIndex
<1>2. P!IInv'
  BY <1>1, RangeFits, P!AllocateIInv
<1>3. PICK i \in P!Indexes :
        holds' = [holds EXCEPT ![s] = P!GetAddressIndex(P!Probe(i))]
  BY <1>1 DEF P!AllocateIP
<1>4. holds \in [Sids \union {Server} -> P!Addresses \union {NoAddress}]
  BY DEF P!IInv, P!TypeOK
<1>5. P!Probe(i) \in P!Indexes
  BY RangeFits, P!ProbeRange DEF P!IInv
<1>6. P!GetAddressIndex(P!Probe(i)) # NoAddress
  BY <1>5, RangeAssumption DEF P!GetAddressIndex, P!Indexes
<1> QED BY <1>2, <1>3, <1>4, <1>6

-----------------------------------------------------------------------------
(* What a handler makes of session s, found under key k in map m.          *)

Forgotten(s, k, m) ==
  /\ sessions' = Erased(m, k)
  /\ conn' = [c \in Conns |-> IF c = k THEN "closed" ELSE conn[c]]
  /\ doomed' = doomed \union {s}
  /\ UNCHANGED fault

AddressesKept(s) == P!IInv' /\ \A r \in Sids \ {s} : holds'[r] = holds[r]

\* Session s has fields o now.
Became(s, k, o) == /\ o \in Fields /\ o.key = k /\ Stage(o, holds'[s])
                   /\ object' = [object EXCEPT ![s] = o]

Outcome(s, k, m) ==
  \/ \E why \in Aborts : Abort(why)
  \/ /\ AddressesKept(s)
     /\ \E o \in Fields : /\ Became(s, k, o)
                          /\ \/ NoError(m)
                             \/ Forgotten(s, k, m) /\ o.tun # "reading"

\* The session that reports an error is the one under its key.
LEMMA ErrorForgets ==
  ASSUME NEW s \in Sids, NEW k, NEW m, m[k] = s, SessionError(s, k, m)
  PROVE  Forgotten(s, k, m)
BY SidsAssumption DEF SessionError, Forgotten

LEMMA SendForgets ==
  ASSUME NEW s \in Sids, NEW k, NEW m, m[k] = s, NEW sent,
         SendMessage(s, k, m, sent)
  PROVE  NoError(m) \/ (~sent /\ Forgotten(s, k, m))
BY ErrorForgets DEF SendMessage

\* A handler that leaves the fields of the session as they were.
LEMMA SameFields ==
  ASSUME P!IInv, NEW s \in Sids, NEW k \in Keys, NEW m,
         NEW o \in Fields, o.key = k, Stage(o, holds[s]),
         object' = [object EXCEPT ![s] = o], UNCHANGED addressVars
  PROVE  AddressesKept(s) /\ Became(s, k, o)
BY AddressesStay DEF AddressesKept, Became

\* What StartAuthentication makes of the fields.
Hello(o) == [Queued(o, "hello") EXCEPT !.reader = "hello"]

LEMMA HelloFields ==
  ASSUME NEW o \in Fields, Ordered(o), Len(o.out) = 0,
         <<"hello", o.protector>> = Expected(Len(o.out) + 1, o.protector)
  PROVE  /\ Hello(o) \in Fields /\ Ordered(Hello(o)) /\ Len(Hello(o).out) = 1
         /\ Hello(o).key = o.key /\ Hello(o).reader = "hello"
         /\ Hello(o).protector = o.protector /\ Hello(o).tun = o.tun
<1> DEFINE q == Queued(o, "hello")
<1>1. /\ q \in Fields /\ Ordered(q) /\ Len(q.out) = Len(o.out) + 1
      /\ q.key = o.key /\ q.protector = o.protector /\ q.tun = o.tun
  BY QueuedInOrder DEF Replies
<1>2. Hello(o) = [q EXCEPT !.reader = "hello"]
  BY DEF Hello
<1>3. /\ Hello(o) \in Fields /\ Hello(o).out = q.out
      /\ Hello(o).key = q.key /\ Hello(o).reader = "hello"
      /\ Hello(o).protector = q.protector /\ Hello(o).tun = q.tun
  <2> HIDE DEF q
  <2> QED BY <1>1, <1>2 DEF Fields
<1>4. Ordered(Hello(o))
  BY <1>1, <1>3 DEF Ordered
<1> QED BY <1>1, <1>3, <1>4

LEMMA StartOutcome ==
  ASSUME P!IInv, NEW s \in Sids, NEW k \in Keys, NEW m, m[k] = s,
         NEW o \in Fields, o.key = k, Stage(o, holds[s]), o.reader = "start",
         NEW body, StartAuthentication(s, o, m, body)
  PROVE  Outcome(s, k, m)
<1>1. CASE \E why \in Aborts : Abort(why)
  BY <1>1 DEF Outcome
<1>2. ASSUME NEW sent \in Outcomes,
             SendMessage(s, k, m, sent),
             object' = [object EXCEPT ![s] =
               IF sent THEN [Queued(o, "hello") EXCEPT !.reader = "hello"] ELSE o],
             UNCHANGED addressVars
      PROVE  Outcome(s, k, m)
  <2>1. Starting(o, holds[s]) /\ Ordered(o)
    BY DEF Stage
  <2>2. NoError(m) \/ (~sent /\ Forgotten(s, k, m))
    BY <1>2, SendForgets
  <2>3. CASE ~sent
    <3>1. object' = [object EXCEPT ![s] = o]
      BY <1>2, <2>3
    <3>2. AddressesKept(s) /\ Became(s, k, o)
      BY <1>2, <3>1, SameFields
    <3>3. o.tun # "reading"
      BY <2>1 DEF Starting
    <3> QED BY <2>2, <3>2, <3>3 DEF Outcome
  <2>4. CASE sent
    <3>1. <<"hello", o.protector>> = Expected(Len(o.out) + 1, o.protector)
      BY <2>1 DEF Starting, Expected
    <3>2. /\ Hello(o) \in Fields /\ Ordered(Hello(o)) /\ Len(Hello(o).out) = 1
          /\ Hello(o).key = k /\ Hello(o).reader = "hello"
          /\ Hello(o).protector = "scramble" /\ Hello(o).tun = "none"
      BY <2>1, <3>1, HelloFields DEF Starting
    <3>3. object' = [object EXCEPT ![s] = Hello(o)]
      BY <1>2, <2>4 DEF Hello
    <3>4. Stage(Hello(o), holds[s])
      BY <2>1, <3>2 DEF Stage, Starting, Greeted
    <3>5. AddressesKept(s) /\ Became(s, k, Hello(o))
      BY <1>2, <3>2, <3>3, <3>4, SameFields
    <3> QED BY <2>2, <2>4, <3>2, <3>5 DEF Outcome
  <2> QED BY <2>3, <2>4
<1> QED BY <1>1, <1>2 DEF StartAuthentication, Aborts

\* What SetEncoder and SetDecoder make of them.
LEMMA AuthenticatedFields ==
  ASSUME NEW o \in Fields, Ordered(o), Len(o.out) \in {0, 1, 2}, NEW body
  PROVE  /\ Authenticated(o, body) \in Fields
         /\ Ordered(Authenticated(o, body))
         /\ Len(Authenticated(o, body).out) = Len(o.out)
         /\ Authenticated(o, body).key = o.key
         /\ Authenticated(o, body).protector # "scramble"
<1> DEFINE p == Authenticated(o, body)
<1>1. /\ p \in Fields /\ p.out = o.out /\ p.key = o.key
      /\ p.protector # "scramble"
  BY DEF Authenticated, Fields, Protectors
<1>2. Ordered(p)
  <2> HIDE DEF p
  <2> QED BY <1>1, EarlyOrder
<1> QED BY <1>1, <1>2

\* What the constructor of the tunnel session makes of them.
Configured(o, sent) ==
  [IF sent THEN Queued(o, "config") ELSE o EXCEPT
     !.reader = "channel", !.tun = TunAfterConfig(sent)]

LEMMA ConfiguredFields ==
  ASSUME NEW o \in Fields, Ordered(o), Len(o.out) = 2,
         o.protector # "scramble", NEW sent \in BOOLEAN
  PROVE  /\ Configured(o, sent) \in Fields /\ Ordered(Configured(o, sent))
         /\ Configured(o, sent).key = o.key
         /\ Configured(o, sent).protector = o.protector
         /\ Configured(o, sent).reader = "channel"
         /\ Configured(o, sent).tun = (IF sent THEN "reading" ELSE "made")
         /\ Len(Configured(o, sent).out) = (IF sent THEN 3 ELSE 2)
<1> DEFINE q == IF sent THEN Queued(o, "config") ELSE o
           p == Configured(o, sent)
<1>1. <<"config", o.protector>> = Expected(Len(o.out) + 1, o.protector)
  BY DEF Expected
<1>2. /\ q \in Fields /\ Ordered(q) /\ q.key = o.key
      /\ q.protector = o.protector /\ Len(q.out) = (IF sent THEN 3 ELSE 2)
  <2>1. CASE sent
    <3>1. q = Queued(o, "config")
      BY <2>1
    <3>2. /\ Queued(o, "config") \in Fields /\ Ordered(Queued(o, "config"))
          /\ Len(Queued(o, "config").out) = Len(o.out) + 1
          /\ Queued(o, "config").key = o.key
          /\ Queued(o, "config").protector = o.protector
      BY <1>1, QueuedInOrder DEF Replies
    <3> HIDE DEF q
    <3> QED BY <2>1, <3>1, <3>2
  <2>2. CASE ~sent
    BY <2>2
  <2> QED BY <2>1, <2>2
<1>3. p = [q EXCEPT !.reader = "channel",
                    !.tun = IF sent THEN "reading" ELSE "made"]
  BY DEF Configured, TunAfterConfig
<1>4. /\ p \in Fields /\ p.out = q.out /\ p.key = q.key
      /\ p.protector = q.protector /\ p.reader = "channel"
      /\ p.tun = (IF sent THEN "reading" ELSE "made")
  <2> HIDE DEF q, p
  <2> QED BY <1>2, <1>3 DEF Fields
<1>5. Ordered(p)
  <2> HIDE DEF q, p
  <2> QED BY <1>2, <1>4 DEF Ordered
<1> HIDE DEF q
<1> QED BY <1>2, <1>4, <1>5

LEMMA OutcomesAreBoolean == Outcomes \subseteq BOOLEAN
BY DEF Outcomes

LEMMA ConnectOutcome ==
  ASSUME P!IInv, NEW s \in Sids, NEW k \in Keys, NEW m, m[k] = s,
         NEW o \in Fields, o.key = k, Ordered(o), Len(o.out) = 2,
         o.protector # "scramble", HandleConnect(s, o, m)
  PROVE  Outcome(s, k, m)
<1>1. CASE \E why \in Aborts : Abort(why)
  BY <1>1 DEF Outcome
<1>2. ASSUME IPM!AllocateIP(s), NEW sent \in Outcomes,
             SendMessage(s, k, m, sent),
             object' = [object EXCEPT ![s] = Configured(o, sent)]
      PROVE  Outcome(s, k, m)
  <2>1. NoError(m) \/ (~sent /\ Forgotten(s, k, m))
    BY <1>2, SendForgets
  <2>2. sent \in BOOLEAN
    BY OutcomesAreBoolean
  <2>3. /\ Configured(o, sent) \in Fields /\ Ordered(Configured(o, sent))
        /\ Configured(o, sent).key = k
        /\ Configured(o, sent).protector # "scramble"
        /\ Configured(o, sent).reader = "channel"
        /\ Configured(o, sent).tun = (IF sent THEN "reading" ELSE "made")
        /\ Len(Configured(o, sent).out) = (IF sent THEN 3 ELSE 2)
    BY <2>2, ConfiguredFields
  <2>4. AddressesKept(s) /\ holds'[s] # NoAddress
    BY <1>2, AddressTaken DEF AddressesKept
  <2>5. Stage(Configured(o, sent), holds'[s])
    BY <2>2, <2>3, <2>4 DEF Stage, Connected
  <2>6. Became(s, k, Configured(o, sent))
    BY <1>2, <2>3, <2>5 DEF Became
  <2>7. ~sent => Configured(o, sent).tun # "reading"
    BY <2>3
  <2> QED BY <2>1, <2>3, <2>4, <2>6, <2>7 DEF Outcome
<1> QED BY <1>1, <1>2 DEF HandleConnect, Aborts, Configured

LEMMA ParseOutcome ==
  ASSUME P!IInv, NEW s \in Sids, NEW k \in Keys, NEW m, m[k] = s,
         NEW o \in Fields, o.key = k, Stage(o, holds[s]), o.reader = "hello",
         NEW body, ParsePublicKey(s, o, m, body)
  PROVE  Outcome(s, k, m)
<1>1. Greeted(o, holds[s]) /\ Ordered(o)
  BY DEF Stage
<1>2. CASE Abort("authentication")
  BY <1>2 DEF Outcome, Aborts
<1>3. CASE HandleConnect(s, Authenticated(Queued(o, "key"), body), m)
  <2>1. <<"key", o.protector>> = Expected(Len(o.out) + 1, o.protector)
    BY <1>1 DEF Greeted, Expected
  <2>2. /\ Queued(o, "key") \in Fields /\ Ordered(Queued(o, "key"))
        /\ Len(Queued(o, "key").out) = 2 /\ Queued(o, "key").key = k
    <3>1. Len(o.out) = 1 /\ o.key = k
      BY <1>1 DEF Greeted
    <3>2. /\ Queued(o, "key") \in Fields /\ Ordered(Queued(o, "key"))
          /\ Len(Queued(o, "key").out) = Len(o.out) + 1
          /\ Queued(o, "key").key = o.key
      BY <1>1, <2>1, QueuedInOrder DEF Replies
    <3> QED BY <3>1, <3>2
  <2>3. /\ Authenticated(Queued(o, "key"), body) \in Fields
        /\ Ordered(Authenticated(Queued(o, "key"), body))
        /\ Len(Authenticated(Queued(o, "key"), body).out) = 2
        /\ Authenticated(Queued(o, "key"), body).key = k
        /\ Authenticated(Queued(o, "key"), body).protector # "scramble"
    BY <2>2, AuthenticatedFields
  <2> QED BY <1>3, <2>3, ConnectOutcome
<1>4. ASSUME SendMessage(s, k, m, FALSE) \/ NoError(m),
             object' = [object EXCEPT ![s] = o], UNCHANGED addressVars
      PROVE  Outcome(s, k, m)
  <2>1. NoError(m) \/ Forgotten(s, k, m)
    BY <1>4, SendForgets
  <2>2. AddressesKept(s) /\ Became(s, k, o)
    BY <1>4, SameFields
  <2>3. o.tun # "reading"
    BY <1>1 DEF Greeted
  <2> QED BY <2>1, <2>2, <2>3 DEF Outcome
<1> QED BY <1>2, <1>3, <1>4 DEF ParsePublicKey

\* Every packet, whatever it decodes to.
LEMMA DecodeOutcome ==
  ASSUME P!IInv, NEW s \in Sids, NEW k \in Keys, NEW m, m[k] = s,
         NEW o \in Fields, o.key = k, Stage(o, holds[s]),
         NEW kind, NEW d, Decode(s, o, m, kind, d)
  PROVE  Outcome(s, k, m)
<1>1. CASE Abort("decryption")
  BY <1>1 DEF Outcome, Aborts
<1>2. CASE o.reader = "start" /\ StartAuthentication(s, o, m, Decoded(kind, d))
  BY <1>2, StartOutcome
<1>3. CASE o.reader = "hello" /\ ParsePublicKey(s, o, m, Decoded(kind, d))
  BY <1>3, ParseOutcome
<1>4. CASE ClientRead(s, o, m)
  <2>1. AddressesKept(s) /\ Became(s, k, o)
    BY <1>4, SameFields DEF ClientRead
  <2> QED BY <1>4, <2>1 DEF ClientRead, Outcome
<1> QED BY <1>1, <1>2, <1>3, <1>4 DEF Decode, HandlePacket

-----------------------------------------------------------------------------
(* What such an outcome does to everything else.                           *)

CachedType == [session : Sids \union {NoSession},
               decoder : Protectors \union {"none"}]

\* The session found or created under k has no other key, is not about to be
\* deleted, and its fields are as far as they may be.
LEMMA FoundFits ==
  ASSUME IInv, NEW s \in Sids, NEW k \in Keys, Found(k, s)
  PROVE  /\ s \notin doomed \union released
         /\ \A j \in Keys \ {k} : sessions[j] # s
         /\ WithSession(k, s)[k] = s
         /\ \A j \in Keys \ {k} : WithSession(k, s)[j] = sessions[j]
         /\ WithSession(k, s) \in [Keys -> Sids \union {NoSession}]
         /\ FieldsOf(k, s) \in Fields /\ FieldsOf(k, s).key = k
         /\ Stage(FieldsOf(k, s), holds[s])
<1> USE KeysAssumption, SidsAssumption DEF IInv
<1>1. s \notin doomed \union released /\ object[s].key \in {NoKey, k}
  BY DEF Found, ObjectsInv, MapOwner
<1>2. \A j \in Keys \ {k} : sessions[j] # s
  BY <1>1 DEF MapOwner, Keys
<1>3. /\ WithSession(k, s)[k] = s
      /\ \A j \in Keys \ {k} : WithSession(k, s)[j] = sessions[j]
      /\ WithSession(k, s) \in [Keys -> Sids \union {NoSession}]
  BY DEF WithSession, StateTypeOK
<1>4. /\ FieldsOf(k, s) \in Fields /\ FieldsOf(k, s).key = k
      /\ Stage(FieldsOf(k, s), holds[s])
  <2>1. CASE sessions[k] = NoSession
    <3>1. object[s] = Unallocated
      BY <2>1 DEF Found, ObjectsInv
    <3>2. Stage(Unallocated, holds[s])
      BY <3>1 DEF ObjectsInv
    <3> QED BY <2>1, <3>2, UnallocatedStarts DEF FieldsOf
  <2>2. CASE sessions[k] # NoSession
    BY <2>2 DEF Found, FieldsOf, MapOwner, ObjectsInv, StateTypeOK
  <2> QED BY <2>1, <2>2
<1> QED BY <1>1, <1>2, <1>3, <1>4

LEMMA UpdateKeeps ==
  ASSUME IInv, NEW s \in Sids, NEW k \in Keys, Found(k, s),
         NEW o \in Fields, Became(s, k, o), AddressesKept(s),
         \/ NoError(WithSession(k, s))
         \/ /\ Forgotten(s, k, WithSession(k, s))
            /\ k \in Peers \/ o.tun # "reading" \/ inLoop' = NoConn,
         k \in Conns =>
           \/ inLoop = k \/ conn[k] = "open"
           \/ sessions[k] = s /\ cached'[k] = cached[k] /\ inLoop' = NoConn,
         inLoop \in {k, NoConn},
         inLoop' \in {k, NoConn} \intersect (Conns \union {NoConn}),
         k \in Conns /\ inLoop' = k => cached'[k] = Unbound,
         cached' \in [Conns -> CachedType],
         \A c \in Conns \ {k} : cached'[c] = cached[c],
         k \in Conns /\ conn'[k] = "open" /\ cached'[k] # Unbound =>
           cached'[k].session = s /\ cached'[k].decoder \in {"none", o.protector},
         released' = released
  PROVE  IInv'
<1> USE KeysAssumption, SidsAssumption
<1>1. /\ s \notin doomed \union released
      /\ \A j \in Keys \ {k} : sessions[j] # s
      /\ WithSession(k, s)[k] = s
      /\ \A j \in Keys \ {k} : WithSession(k, s)[j] = sessions[j]
      /\ WithSession(k, s) \in [Keys -> Sids \union {NoSession}]
  BY FoundFits
<1>2. /\ o.key = k /\ Stage(o, holds'[s])
      /\ object' = [object EXCEPT ![s] = o]
      /\ P!IInv' /\ \A r \in Sids \ {s} : holds'[r] = holds[r]
  BY DEF Became, AddressesKept
<1>3. object \in [Sids -> Fields] /\ conn \in [Conns -> {"idle", "open", "closed"}]
  BY DEF IInv, StateTypeOK
<1>4. object'[s] = o /\ \A r \in Sids \ {s} : object'[r] = object[r]
  BY <1>2, <1>3
<1>5. /\ sessions' \in [Keys -> Sids \union {NoSession}]
      /\ \A j \in Keys \ {k} : sessions'[j] = sessions[j]
      /\ \A c \in Conns \ {k} : conn'[c] = conn[c]
      /\ conn' \in [Conns -> {"idle", "open", "closed"}]
      /\ fault' = fault
      /\ \/ /\ sessions'[k] = s /\ conn' = conn /\ doomed' = doomed
         \/ /\ sessions'[k] = NoSession /\ (k \in Conns => conn'[k] = "closed")
            /\ doomed' = doomed \union {s}
            /\ k \in Peers \/ o.tun # "reading" \/ inLoop' = NoConn
  <2>1. CASE NoError(WithSession(k, s))
    BY <1>1, <1>3, <2>1 DEF NoError
  <2>2. CASE Forgotten(s, k, WithSession(k, s)) /\
             (k \in Peers \/ o.tun # "reading" \/ inLoop' = NoConn)
    BY <1>1, <1>3, <2>2 DEF Forgotten, Erased
  <2> QED BY <2>1, <2>2
<1>6. k \in Conns /\ conn[k] = "idle" =>
        cached'[k] = Unbound /\ inLoop' = NoConn
  BY DEF IInv, LoopInv
<1>7. StateTypeOK'
  <2>1. object' \in [Sids -> Fields]
    BY <1>2, <1>3
  <2>2. inLoop' \in Conns \union {NoConn} /\ doomed' \subseteq Sids
    BY <1>5 DEF IInv, StateTypeOK
  <2> QED BY <1>5, <2>1, <2>2 DEF IInv, StateTypeOK, CachedType
<1>8. ObjectsInv'
  <2>1. \A r \in Sids : Stage(object'[r], holds'[r])
    BY <1>2, <1>4 DEF IInv, ObjectsInv
  <2>2. \A r \in Sids : object'[r].key = NoKey => object'[r] = Unallocated
    BY <1>2, <1>4 DEF IInv, ObjectsInv, Keys
  <2>3. \A r \in doomed' \union released' : object'[r].key # NoKey
    BY <1>2, <1>4, <1>5 DEF IInv, ObjectsInv, StateTypeOK, Keys
  <2> QED BY <2>1, <2>2, <2>3 DEF ObjectsInv
<1>9. MapOwner'
  BY <1>1, <1>2, <1>4, <1>5 DEF IInv, MapOwner, StateTypeOK
<1>10. CachedPointersLive'
  <2> SUFFICES ASSUME NEW c \in Conns, conn'[c] = "open", cached'[c] # Unbound
               PROVE  /\ cached'[c].session # NoSession
                      /\ sessions'[c] = cached'[c].session
                      /\ cached'[c].decoder \in
                           {"none", object'[sessions'[c]].protector}
    BY DEF CachedPointersLive
  <2>1. CASE c = k
    BY <1>4, <1>5, <2>1
  <2>2. CASE c # k
    <3>1. c \in Keys \ {k} /\ c \in Conns \ {k}
      BY <2>2 DEF Keys
    <3>2. /\ cached'[c] = cached[c] /\ conn'[c] = conn[c]
          /\ sessions'[c] = sessions[c] /\ sessions[c] # s
      BY <1>1, <1>5, <3>1
    <3>3. /\ cached[c].session # NoSession
          /\ sessions[c] = cached[c].session
          /\ cached[c].decoder \in {"none", object[sessions[c]].protector}
      BY <3>2 DEF IInv, CachedPointersLive
    <3>4. sessions[c] \in Sids \ {s}
      BY <3>1, <3>2, <3>3 DEF IInv, StateTypeOK
    <3> QED BY <1>4, <3>2, <3>3, <3>4
  <2> QED BY <2>1, <2>2
<1>11. LoopInv'
  BY <1>5, <1>6 DEF IInv, LoopInv
<1>12. TunnelsInv'
  <2> SUFFICES ASSUME NEW r \in Sids, NEW c \in Conns,
                      object'[r].tun = "reading", object'[r].key = c
               PROVE  \/ sessions'[c] = r
                      \/ /\ sessions'[c] = NoSession /\ conn'[c] = "closed"
                         /\ inLoop' # c
    BY DEF TunnelsInv
  <2>1. CASE r = s
    BY <1>2, <1>4, <1>5, <2>1
  <2>2. CASE r # s
    <3>1. \/ sessions[c] = r
          \/ sessions[c] = NoSession /\ conn[c] = "closed" /\ inLoop # c
      BY <1>4, <2>2 DEF IInv, TunnelsInv
    <3>2. c # k
      BY <2>2, <3>1 DEF Found
    <3>3. sessions'[c] = sessions[c] /\ conn'[c] = conn[c] /\ inLoop' # c
      BY <1>5, <3>2 DEF Keys
    <3> QED BY <3>1, <3>3
  <2> QED BY <2>1, <2>2
<1> QED BY <1>2, <1>7, <1>8, <1>9, <1>10, <1>11, <1>12 DEF IInv

\* Once the process is gone, what a connection kept may be forgotten.
LEMMA AbortKeeps ==
  ASSUME IInv, NEW why \in Aborts, Abort(why),
         cached' \in [Conns -> CachedType],
         \A c \in Conns : cached'[c] \in {cached[c], Unbound},
         \/ inLoop' = inLoop \/ inLoop' = NoConn
         \/ \E c \in Conns : /\ inLoop' = c /\ cached'[c] = Unbound
                             /\ inLoop = c \/ conn[c] = "open",
         released' = released
  PROVE  IInv'
<1> USE KeysAssumption
<1>1. UNCHANGED <<sessions, object, conn, doomed, holds>> /\ fault' = why
  BY DEF Abort, addressVars
<1>2. P!IInv'
  BY AddressesStay DEF Abort, IInv
<1>3. StateTypeOK'
  BY <1>1 DEF IInv, StateTypeOK, CachedType
<1>4. ObjectsInv' /\ MapOwner'
  BY <1>1 DEF IInv, ObjectsInv, MapOwner
<1>5. CachedPointersLive'
  BY <1>1 DEF IInv, CachedPointersLive
<1>6. LoopInv' /\ TunnelsInv'
  BY <1>1 DEF IInv, StateTypeOK, LoopInv, TunnelsInv
<1> QED BY <1>2, <1>3, <1>4, <1>5, <1>6 DEF IInv

\* The session a connection is bound to is the one of the map, and so is the
\* decoder it has started.
LEMMA BoundFound ==
  ASSUME IInv, NEW c \in Conns, NEW s \in Sids, HasBytes(c), Bound(c, s)
  PROVE  /\ Found(c, s)
         /\ BoundFields(c, s) = FieldsOf(c, s)
         /\ BoundSessions(c, s) = WithSession(c, s)
         /\ cached[c].decoder \in {"none", FieldsOf(c, s).protector}
         /\ BoundDecoder(c, FieldsOf(c, s)) = FieldsOf(c, s).protector
<1> USE KeysAssumption, SidsAssumption
<1>1. CASE cached[c].session = NoSession
  <2>1. cached[c] = Unbound
    BY <1>1 DEF IInv, CachedPointersLive, LoopInv, HasBytes
  <2> QED BY <1>1, <2>1
          DEF Bound, BoundFields, BoundSessions, BoundDecoder, Unbound
<1>2. CASE cached[c].session # NoSession
  <2>1. cached[c] # Unbound
    BY <1>2 DEF Unbound
  <2>2. conn[c] = "open"
    BY <2>1 DEF HasBytes, IInv, LoopInv
  <2>3. /\ sessions[c] = s /\ cached[c].session = s
        /\ cached[c].decoder \in {"none", object[s].protector}
    BY <1>2, <2>1, <2>2 DEF IInv, CachedPointersLive, Bound
  <2>4. Found(c, s) /\ FieldsOf(c, s) = object[s]
    BY <2>3 DEF Found, FieldsOf
  <2>5. WithSession(c, s) = sessions
    BY <2>3 DEF WithSession, IInv, StateTypeOK, Keys
  <2> QED BY <1>2, <2>3, <2>4, <2>5
          DEF BoundFields, BoundSessions, BoundDecoder
<1> QED BY <1>1, <1>2

-----------------------------------------------------------------------------
(* The actions.                                                            *)

LEMMA InitIInv == Init => IInv
<1> SUFFICES ASSUME Init PROVE IInv
  OBVIOUS
<1> USE KeysAssumption, SidsAssumption, RangeAssumption DEF Init
<1>1. Unallocated \in Fields /\ Stage(Unallocated, NoAddress)
  <2>1. <<>> \in Seq(Replies \X Protectors)
    OBVIOUS
  <2>2. Unallocated \in Fields
    BY <2>1 DEF Unallocated, Fields, Protectors
  <2>3. Stage(Unallocated, NoAddress)
    BY DEF Unallocated, Stage, Starting, Ordered
  <2> QED BY <2>2, <2>3
<1>2. StateTypeOK
  BY <1>1 DEF StateTypeOK, Unbound
<1>3. ObjectsInv
  BY <1>1 DEF ObjectsInv
<1>4. MapOwner /\ CachedPointersLive /\ LoopInv
  BY DEF MapOwner, CachedPointersLive, LoopInv
<1>5. TunnelsInv
  BY DEF TunnelsInv, Unallocated
<1>6. P!IInv
  <2>1. 1 % Size = (IF Size = 1 THEN 0 ELSE 1)
    OBVIOUS
  <2>2. P!TypeOK
    BY <2>1 DEF P!TypeOK, P!Indexes, P!Addresses
  <2> QED BY <2>1, <2>2
          DEF P!IInv, P!Grown, P!UsedInSlots, P!Exclusive, P!HeldIsMarked
<1> QED BY <1>2, <1>3, <1>4, <1>5, <1>6 DEF IInv

LEMMA UdpKeeps ==
  ASSUME IInv, NEW k \in Peers, NEW kind, UdpHandleRead(k, kind)
  PROVE  IInv'
<1> USE KeysAssumption
<1>1. /\ inLoop = NoConn /\ UNCHANGED <<cached, inLoop, released>>
      /\ cached' \in [Conns -> CachedType]
  BY DEF UdpHandleRead, Idle, IInv, StateTypeOK, CachedType
<1>2. PICK s \in Sids :
        /\ Found(k, s)
        /\ \/ Decode(s, FieldsOf(k, s), WithSession(k, s), kind,
                     FieldsOf(k, s).protector)
           \/ /\ SessionError(s, k, WithSession(k, s))
              /\ object' = [object EXCEPT ![s] = FieldsOf(k, s)]
              /\ UNCHANGED addressVars
  BY DEF UdpHandleRead
<1>3. k \in Keys /\ k \notin Conns
  BY DEF Keys
<1>4. /\ WithSession(k, s)[k] = s
      /\ FieldsOf(k, s) \in Fields /\ FieldsOf(k, s).key = k
      /\ Stage(FieldsOf(k, s), holds[s])
  BY <1>2, <1>3, FoundFits
<1>5. Outcome(s, k, WithSession(k, s)) \/
      (/\ AddressesKept(s) /\ Became(s, k, FieldsOf(k, s))
       /\ Forgotten(s, k, WithSession(k, s)))
  BY <1>2, <1>3, <1>4, DecodeOutcome, ErrorForgets, SameFields DEF IInv
<1>6. CASE \E why \in Aborts : Abort(why)
  BY <1>1, <1>6, AbortKeeps
<1>7. CASE \E p \in Fields : /\ AddressesKept(s) /\ Became(s, k, p)
                             /\ \/ NoError(WithSession(k, s))
                                \/ Forgotten(s, k, WithSession(k, s))
  <2>1. PICK p \in Fields : /\ AddressesKept(s) /\ Became(s, k, p)
                           /\ \/ NoError(WithSession(k, s))
                              \/ Forgotten(s, k, WithSession(k, s))
    BY <1>7
  <2>2. /\ inLoop \in {k, NoConn}
        /\ inLoop' \in {k, NoConn} \intersect (Conns \union {NoConn})
        /\ \A c \in Conns \ {k} : cached'[c] = cached[c]
    BY <1>1, <1>3
  <2> QED BY <1>1, <1>2, <1>3, <2>1, <2>2, UpdateKeeps
<1> QED BY <1>4, <1>5, <1>6, <1>7 DEF Outcome

LEMMA ConnectionKeeps ==
  ASSUME IInv, NEW c \in Conns, HandleConnection(c)
  PROVE  IInv'
<1>1. /\ conn[c] = "idle" /\ conn' = [conn EXCEPT ![c] = "open"]
      /\ UNCHANGED <<sessions, object, cached, inLoop, doomed, released, fault,
                     addressVars>>
  BY DEF HandleConnection
<1>2. P!IInv' /\ holds' = holds
  BY <1>1, AddressesStay DEF IInv
<1>3. StateTypeOK'
  BY <1>1 DEF IInv, StateTypeOK
<1>4. ObjectsInv' /\ MapOwner'
  BY <1>1, <1>2 DEF IInv, ObjectsInv, MapOwner
<1>5. CachedPointersLive' /\ LoopInv' /\ TunnelsInv'
  BY <1>1 DEF IInv, StateTypeOK, CachedPointersLive, LoopInv, TunnelsInv
<1> QED BY <1>2, <1>3, <1>4, <1>5 DEF IInv

LEMMA TcpPacketKeeps ==
  ASSUME IInv, NEW c \in Conns, NEW kind, TcpPacket(c, kind)
  PROVE  IInv'
<1> USE KeysAssumption
<1>1. /\ HasBytes(c) /\ cached' = [cached EXCEPT ![c] = Unbound]
      /\ inLoop' \in {c, NoConn} /\ released' = released
  BY DEF TcpPacket, AfterPacket
<1>2. PICK s \in Sids :
        /\ Bound(c, s)
        /\ Decode(s, BoundFields(c, s), BoundSessions(c, s), kind,
                  BoundDecoder(c, BoundFields(c, s)))
  BY DEF TcpPacket
<1>3. /\ Found(c, s)
      /\ Decode(s, FieldsOf(c, s), WithSession(c, s), kind,
                BoundDecoder(c, FieldsOf(c, s)))
  BY <1>1, <1>2, BoundFound
<1>4. c \in Keys
  BY DEF Keys
<1>5. Outcome(s, c, WithSession(c, s))
  BY <1>3, <1>4, FoundFits, DecodeOutcome DEF IInv
<1>6. /\ cached' \in [Conns -> CachedType] /\ cached'[c] = Unbound
      /\ \A d \in Conns \ {c} : cached'[d] = cached[d]
  <2>1. Unbound \in CachedType /\ cached \in [Conns -> CachedType]
    BY DEF Unbound, CachedType, IInv, StateTypeOK
  <2> HIDE DEF Unbound
  <2> QED BY <1>1, <2>1
<1>7. /\ inLoop \in {c, NoConn}
      /\ inLoop = c \/ conn[c] = "open"
  BY <1>1 DEF HasBytes, Idle
<1>8. CASE \E why \in Aborts : Abort(why)
  BY <1>1, <1>6, <1>7, <1>8, AbortKeeps
<1>9. CASE \E p \in Fields :
             /\ AddressesKept(s) /\ Became(s, c, p)
             /\ \/ NoError(WithSession(c, s))
                \/ Forgotten(s, c, WithSession(c, s)) /\ p.tun # "reading"
  <2>1. PICK p \in Fields :
             /\ AddressesKept(s) /\ Became(s, c, p)
             /\ \/ NoError(WithSession(c, s))
                \/ Forgotten(s, c, WithSession(c, s)) /\ p.tun # "reading"
    BY <1>9
  <2> QED BY <1>1, <1>3, <1>4, <1>6, <1>7, <2>1, UpdateKeeps
<1> QED BY <1>5, <1>8, <1>9 DEF Outcome

LEMMA TcpPartialKeeps ==
  ASSUME IInv, NEW c \in Conns, TcpPartial(c)
  PROVE  IInv'
<1> USE KeysAssumption
<1>1. PICK s \in Sids :
        /\ Bound(c, s)
        /\ object' = [object EXCEPT ![s] = BoundFields(c, s)]
        /\ \E d \in {cached[c].decoder, BoundDecoder(c, BoundFields(c, s))} :
             cached' = [cached EXCEPT ![c] = [session |-> s, decoder |-> d]]
        /\ NoError(BoundSessions(c, s))
  BY DEF TcpPartial
<1>2. /\ HasBytes(c) /\ inLoop' = NoConn /\ released' = released
      /\ UNCHANGED addressVars
  BY DEF TcpPartial
<1>3. /\ Found(c, s)
      /\ object' = [object EXCEPT ![s] = FieldsOf(c, s)]
      /\ NoError(WithSession(c, s))
      /\ cached[c].decoder \in {"none", FieldsOf(c, s).protector}
      /\ BoundDecoder(c, FieldsOf(c, s)) = FieldsOf(c, s).protector
      /\ BoundFields(c, s) = FieldsOf(c, s)
  BY <1>1, <1>2, BoundFound
<1>4. PICK d \in {"none", FieldsOf(c, s).protector} :
        cached' = [cached EXCEPT ![c] = [session |-> s, decoder |-> d]]
  BY <1>1, <1>3
<1>5. c \in Keys
  BY DEF Keys
<1>6. FieldsOf(c, s) \in Fields /\ FieldsOf(c, s).key = c
      /\ Stage(FieldsOf(c, s), holds[s])
  BY <1>3, <1>5, FoundFits
<1>7. AddressesKept(s) /\ Became(s, c, FieldsOf(c, s))
  BY <1>2, <1>3, <1>5, <1>6, SameFields DEF IInv
<1>8. /\ cached' \in [Conns -> CachedType]
      /\ cached'[c].session = s /\ cached'[c].decoder = d
      /\ \A b \in Conns \ {c} : cached'[b] = cached[b]
  <2>1. FieldsOf(c, s).protector \in Protectors
    BY <1>6 DEF Fields
  <2>2. [session |-> s, decoder |-> d] \in CachedType
    BY <2>1 DEF CachedType
  <2>3. cached \in [Conns -> CachedType]
    BY DEF CachedType, IInv, StateTypeOK
  <2> QED BY <1>4, <2>2, <2>3
<1>9. /\ inLoop \in {c, NoConn} /\ inLoop' \in {c, NoConn}
      /\ inLoop = c \/ conn[c] = "open"
      /\ inLoop' # c
  BY <1>2 DEF HasBytes, Idle
<1> QED BY <1>2, <1>3, <1>4, <1>5, <1>6, <1>7, <1>8, <1>9, UpdateKeeps

LEMMA TcpDecodeErrorKeeps ==
  ASSUME IInv, NEW c \in Conns, TcpDecodeError(c)
  PROVE  IInv'
<1> USE KeysAssumption
<1>1. PICK s \in Sids :
        /\ Bound(c, s)
        /\ object' = [object EXCEPT ![s] = BoundFields(c, s)]
        /\ cached' = [cached EXCEPT ![c].session = s]
        /\ SessionError(s, c, BoundSessions(c, s))
  BY DEF TcpDecodeError
<1>2. /\ HasBytes(c) /\ inLoop' = NoConn /\ released' = released
      /\ cached[c].decoder = "none" /\ UNCHANGED addressVars
  BY DEF TcpDecodeError
<1>3. /\ Found(c, s)
      /\ object' = [object EXCEPT ![s] = FieldsOf(c, s)]
      /\ SessionError(s, c, WithSession(c, s))
  BY <1>1, <1>2, BoundFound
<1>4. c \in Keys
  BY DEF Keys
<1>5. /\ WithSession(c, s)[c] = s
      /\ FieldsOf(c, s) \in Fields /\ FieldsOf(c, s).key = c
      /\ Stage(FieldsOf(c, s), holds[s])
  BY <1>3, <1>4, FoundFits
<1>6. Forgotten(s, c, WithSession(c, s))
  BY <1>3, <1>5, ErrorForgets
<1>7. AddressesKept(s) /\ Became(s, c, FieldsOf(c, s))
  BY <1>2, <1>3, <1>4, <1>5, SameFields DEF IInv
<1>8. /\ cached' \in [Conns -> CachedType]
      /\ cached'[c].session = s /\ cached'[c].decoder = "none"
      /\ \A b \in Conns \ {c} : cached'[b] = cached[b]
  BY <1>1, <1>2 DEF CachedType, IInv, StateTypeOK
<1>9. /\ inLoop \in {c, NoConn} /\ inLoop' \in {c, NoConn}
      /\ inLoop = c \/ conn[c] = "open"
      /\ inLoop' # c
  BY <1>2 DEF HasBytes, Idle
<1> QED BY <1>2, <1>3, <1>4, <1>5, <1>6, <1>7, <1>8, <1>9, UpdateKeeps

LEMMA TcpClosedKeeps ==
  ASSUME IInv, NEW c \in Conns, TcpClosed(c)
  PROVE  IInv'
<1> USE KeysAssumption, SidsAssumption
<1>1. /\ inLoop = NoConn /\ conn[c] = "open"
      /\ UNCHANGED <<cached, inLoop, released>>
      /\ cached' \in [Conns -> CachedType]
  BY DEF TcpClosed, Idle, IInv, StateTypeOK, CachedType
<1>2. CASE Abort("no session")
  BY <1>1, <1>2, AbortKeeps DEF Aborts
<1>3. CASE /\ sessions[c] # NoSession
           /\ SessionError(sessions[c], c, sessions)
           /\ UNCHANGED <<object, addressVars>>
  <2> DEFINE s == sessions[c]
  <2>1. c \in Keys /\ s \in Sids
    BY <1>3 DEF IInv, StateTypeOK, Keys
  <2>2. Found(c, s) /\ FieldsOf(c, s) = object[s] /\ WithSession(c, s) = sessions
    BY <1>3, <2>1 DEF Found, FieldsOf, WithSession, IInv, StateTypeOK
  <2>3. Forgotten(s, c, WithSession(c, s))
    BY <1>3, <2>1, <2>2, ErrorForgets
  <2>4. object[s] \in Fields /\ object[s].key = c /\ Stage(object[s], holds[s])
    BY <1>3, <2>1 DEF IInv, StateTypeOK, MapOwner, ObjectsInv
  <2>5. object' = [object EXCEPT ![s] = object[s]]
    BY <1>3 DEF IInv, StateTypeOK
  <2>6. AddressesKept(s) /\ Became(s, c, object[s])
    BY <1>3, <2>1, <2>4, <2>5, SameFields DEF IInv
  <2>7. cached[c] # Unbound =>
          /\ cached[c].session = s
          /\ cached[c].decoder \in {"none", object[s].protector}
    BY <1>1 DEF IInv, CachedPointersLive
  <2>8. /\ inLoop \in {c, NoConn} /\ inLoop' \in {c, NoConn} /\ inLoop' # c
        /\ inLoop' = NoConn /\ \A b \in Conns \ {c} : cached'[b] = cached[b]
        /\ cached'[c] = cached[c]
    BY <1>1
  <2> HIDE DEF s
  <2> QED BY <1>1, <2>1, <2>2, <2>3, <2>4, <2>6, <2>7, <2>8, UpdateKeeps
<1> QED BY <1>2, <1>3 DEF TcpClosed

\* The next packet of the device goes to the end of the log.
LEMMA DataFields ==
  ASSUME NEW o \in Fields, NEW a, Stage(o, a), o.tun = "reading"
  PROVE  /\ Queued(o, "data") \in Fields /\ Queued(o, "data").key = o.key
         /\ Queued(o, "data").protector = o.protector
         /\ Queued(o, "data").tun = "reading"
         /\ Stage(Queued(o, "data"), a)
<1>1. o.reader = "channel"
  BY DEF Stage, Starting, Greeted, Fields
<1>2. Connected(o, a) /\ Ordered(o) /\ Len(o.out) > 2
  BY <1>1 DEF Stage, Connected
<1>3. Len(o.out) \in Nat
  BY DEF Fields
<1>4. Len(o.out) + 1 \notin {1, 2, 3}
  BY <1>2, <1>3
<1>5. <<"data", o.protector>> = Expected(Len(o.out) + 1, o.protector)
  BY <1>4 DEF Expected
<1>6. /\ Queued(o, "data") \in Fields /\ Ordered(Queued(o, "data"))
      /\ Len(Queued(o, "data").out) = Len(o.out) + 1
      /\ Queued(o, "data").key = o.key
      /\ Queued(o, "data").reader = o.reader
      /\ Queued(o, "data").protector = o.protector
      /\ Queued(o, "data").tun = o.tun
  BY <1>2, <1>5, QueuedInOrder DEF Replies
<1>7. Len(Queued(o, "data").out) > 2
  BY <1>2, <1>3, <1>6
<1> QED BY <1>1, <1>2, <1>6, <1>7 DEF Stage, Connected

LEMMA TunTapReadKeeps ==
  ASSUME IInv, NEW s \in Sids, TunTapRead(s)
  PROVE  IInv'
<1> USE KeysAssumption, SidsAssumption
<1> DEFINE k == object[s].key
<1>1. PICK sent \in Outcomes :
        /\ SendMessage(s, object[s].key, sessions, sent)
        /\ object' = [object EXCEPT ![s] =
                        IF sent THEN Queued(object[s], "data") ELSE object[s]]
  BY DEF TunTapRead
<1>2. /\ inLoop = NoConn /\ object[s].tun = "reading"
      /\ UNCHANGED <<cached, inLoop, released, addressVars>>
  BY DEF TunTapRead, Idle
<1>3. object \in [Sids -> Fields] /\ object[s] \in Fields
      /\ Stage(object[s], holds[s])
  BY DEF IInv, StateTypeOK, ObjectsInv
<1>4. k \in Keys
  <2>1. object[s] # Unallocated
    BY <1>2 DEF Unallocated
  <2>2. k # NoKey
    BY <2>1 DEF IInv, ObjectsInv
  <2> QED BY <1>3, <2>2 DEF Fields
<1>5. P!IInv' /\ holds' = holds
  BY <1>2, AddressesStay DEF IInv
<1>6. \/ UNCHANGED <<sessions, conn, doomed, fault>>
      \/ ~sent /\ k \in Conns /\ sessions[k] = s /\ Forgotten(s, k, sessions)
  <2>1. CASE sent \/ k \in Peers
    BY <1>1, <2>1 DEF SendMessage, NoError
  <2>2. CASE ~sent /\ k \notin Peers
    <3>1. k \in Conns /\ SessionError(s, k, sessions)
      BY <1>1, <1>4, <2>2 DEF SendMessage, Keys
    <3>2. sessions[k] = s \/ sessions[k] = NoSession
      BY <1>2, <3>1 DEF IInv, TunnelsInv
    <3>3. CASE sessions[k] = s
      BY <2>2, <3>1, <3>3, ErrorForgets
    <3>4. CASE sessions[k] = NoSession
      BY <3>1, <3>4 DEF SessionError
    <3> QED BY <3>2, <3>3, <3>4
  <2> QED BY <2>1, <2>2
<1>7. CASE UNCHANGED <<sessions, conn, doomed, fault>>
  <2>1. /\ object'[s] \in Fields /\ object'[s].key = object[s].key
        /\ object'[s].protector = object[s].protector
        /\ object'[s].tun = object[s].tun
        /\ Stage(object'[s], holds[s])
        /\ object'[s] = Unallocated => object[s] = Unallocated
    <3>1. CASE sent
      <4>1. object'[s] = Queued(object[s], "data")
        BY <1>1, <1>3, <3>1
      <4> QED BY <1>2, <1>3, <4>1, DataFields DEF Unallocated
    <3>2. CASE ~sent
      BY <1>1, <1>3, <3>2
    <3> QED BY <3>1, <3>2
  <2>2. \A r \in Sids \ {s} : object'[r] = object[r]
    BY <1>1, <1>3
  <2>3. object' \in [Sids -> Fields]
    BY <1>1, <1>3, <2>1
  <2>4. StateTypeOK'
    BY <1>2, <1>7, <2>3 DEF IInv, StateTypeOK
  <2>5. ObjectsInv'
    <3>1. \A r \in Sids : Stage(object'[r], holds'[r])
      BY <1>5, <2>1, <2>2 DEF IInv, ObjectsInv
    <3>2. \A r \in Sids : object'[r].key = NoKey => object'[r] = Unallocated
      BY <1>4, <2>1, <2>2 DEF IInv, ObjectsInv, Keys
    <3>3. \A r \in doomed' \union released' : object'[r].key # NoKey
      BY <1>2, <1>7, <2>1, <2>2 DEF IInv, ObjectsInv, StateTypeOK
    <3> QED BY <3>1, <3>2, <3>3 DEF ObjectsInv
  <2>6. \A r \in Sids : /\ object'[r].key = object[r].key
                        /\ object'[r].protector = object[r].protector
                        /\ object'[r].tun = object[r].tun
    BY <2>1, <2>2
  <2>7. MapOwner'
    BY <1>2, <1>7, <2>6 DEF IInv, StateTypeOK, MapOwner
  <2>8. CachedPointersLive'
    BY <1>2, <1>7, <2>6 DEF IInv, StateTypeOK, CachedPointersLive, Keys
  <2>9. LoopInv'
    BY <1>2, <1>7 DEF IInv, LoopInv
  <2>10. TunnelsInv'
    BY <1>2, <1>7, <2>6 DEF IInv, TunnelsInv
  <2> QED BY <1>5, <2>4, <2>5, <2>7, <2>8, <2>9, <2>10 DEF IInv
<1>8. CASE ~sent /\ k \in Conns /\ sessions[k] = s /\ Forgotten(s, k, sessions)
  <2>1. Found(k, s) /\ WithSession(k, s) = sessions
    BY <1>4, <1>8 DEF Found, WithSession, IInv, StateTypeOK
  <2>2. AddressesKept(s) /\ Became(s, k, object[s])
    BY <1>1, <1>2, <1>3, <1>4, <1>8, SameFields DEF IInv
  <2>3. conn'[k] = "closed"
    BY <1>8 DEF Forgotten
  <2>4. /\ cached' \in [Conns -> CachedType]
        /\ inLoop \in {k, NoConn} /\ inLoop' = NoConn
        /\ \A c \in Conns : cached'[c] = cached[c]
    BY <1>2 DEF IInv, StateTypeOK, CachedType
  <2> HIDE DEF k
  <2> QED BY <1>2, <1>3, <1>4, <1>8, <2>1, <2>2, <2>3, <2>4, UpdateKeeps
<1> QED BY <1>6, <1>7, <1>8

LEMMA DeletePendingKeeps ==
  ASSUME IInv, DeletePending
  PROVE  IInv'
<1>1. /\ released' = released \union doomed /\ doomed' = {}
      /\ UNCHANGED <<sessions, object, conn, cached, inLoop, fault, addressVars>>
  BY DEF DeletePending
<1>2. P!IInv' /\ holds' = holds
  BY <1>1, AddressesStay DEF IInv
<1>3. StateTypeOK' /\ ObjectsInv'
  BY <1>1, <1>2 DEF IInv, StateTypeOK, ObjectsInv
<1>4. MapOwner' /\ CachedPointersLive' /\ LoopInv' /\ TunnelsInv'
  BY <1>1 DEF IInv, MapOwner, CachedPointersLive, LoopInv, TunnelsInv
<1> QED BY <1>2, <1>3, <1>4 DEF IInv

LEMMA NextIInv == IInv /\ [Next]_vars => IInv'
<1> SUFFICES ASSUME IInv, [Next]_vars PROVE IInv'
  OBVIOUS
<1>1. CASE \E k \in Peers, kind \in {"hello", "key", "data", "short"} :
             UdpHandleRead(k, kind)
  BY <1>1, UdpKeeps
<1>2. CASE \E c \in Conns : HandleConnection(c)
  BY <1>2, ConnectionKeeps
<1>3. CASE \E c \in Conns, kind \in {"hello", "key", "data"} : TcpPacket(c, kind)
  BY <1>3, TcpPacketKeeps
<1>4. CASE \E c \in Conns : TcpPartial(c) \/ TcpDecodeError(c) \/ TcpClosed(c)
  BY <1>4, TcpPartialKeeps, TcpDecodeErrorKeeps, TcpClosedKeeps
<1>5. CASE \E s \in Sids : TunTapRead(s)
  BY <1>5, TunTapReadKeeps
<1>6. CASE DeletePending
  BY <1>6, DeletePendingKeeps
<1>7. CASE UNCHANGED vars
  <2>1. UNCHANGED addressVars
    BY <1>7 DEF vars, addressVars
  <2>2. P!IInv' /\ holds' = holds
    BY <2>1, AddressesStay DEF IInv
  <2> QED BY <1>7, <2>2 DEF vars, IInv, StateTypeOK, ObjectsInv, MapOwner,
                            CachedPointersLive, LoopInv, TunnelsInv
<1> QED BY <1>1, <1>2, <1>3, <1>4, <1>5, <1>6, <1>7 DEF Next

-----------------------------------------------------------------------------
(* Sessions that were handed to DeleteLater.                               *)

Rests(r) == /\ holds'[r] = holds[r]
            /\ object'[r] = [object[r] EXCEPT !.out = object'[r].out]

LEMMA SameRests ==
  ASSUME IInv, NEW r \in Sids, object'[r] = object[r], holds'[r] = holds[r]
  PROVE  Rests(r)
<1>1. object[r] \in Fields
  BY DEF IInv, StateTypeOK
<1>2. object[r] = [object[r] EXCEPT !.out = object[r].out]
  BY <1>1 DEF Fields
<1> QED BY <1>2 DEF Rests

\* A handler works on a session of the map, and those are not among them.
LEMMA OutcomeRests ==
  ASSUME IInv, NEW s \in Sids, NEW k \in Keys, NEW m, Found(k, s),
         NEW o, \/ Outcome(s, k, m)
                \/ object' = [object EXCEPT ![s] = o] /\ UNCHANGED addressVars,
         NEW r \in doomed \union released
  PROVE  Rests(r)
<1>1. r \in Sids \ {s} /\ object \in [Sids -> Fields]
  BY FoundFits DEF IInv, StateTypeOK
<1>2. CASE UNCHANGED <<object, addressVars>>
  BY <1>1, <1>2, SameRests DEF addressVars
<1>3. ASSUME NEW p, object' = [object EXCEPT ![s] = p], holds'[r] = holds[r]
      PROVE  Rests(r)
  BY <1>1, <1>3, SameRests
<1>4. CASE \E why \in Aborts : Abort(why)
  BY <1>2, <1>4 DEF Abort
<1>5. CASE AddressesKept(s) /\ \E p \in Fields : Became(s, k, p)
  BY <1>1, <1>3, <1>5 DEF AddressesKept, Became
<1>6. CASE object' = [object EXCEPT ![s] = o] /\ UNCHANGED addressVars
  BY <1>3, <1>6 DEF addressVars
<1> QED BY <1>4, <1>5, <1>6 DEF Outcome

LEMMA StepRests ==
  ASSUME IInv, [Next]_vars, NEW r \in doomed \union released
  PROVE  Rests(r)
<1> USE KeysAssumption DEF Keys
<1>1. r \in Sids
  BY DEF IInv, StateTypeOK
<1>2. ASSUME NEW k \in Peers, NEW kind, UdpHandleRead(k, kind)
      PROVE  Rests(r)
  <2>1. PICK s \in Sids :
          /\ Found(k, s)
          /\ \/ Decode(s, FieldsOf(k, s), WithSession(k, s), kind,
                       FieldsOf(k, s).protector)
             \/ /\ object' = [object EXCEPT ![s] = FieldsOf(k, s)]
                /\ UNCHANGED addressVars
    BY <1>2 DEF UdpHandleRead
  <2>2. /\ WithSession(k, s)[k] = s
        /\ FieldsOf(k, s) \in Fields /\ FieldsOf(k, s).key = k
        /\ Stage(FieldsOf(k, s), holds[s])
    BY <2>1, FoundFits
  <2>3. \/ Outcome(s, k, WithSession(k, s))
        \/ /\ object' = [object EXCEPT ![s] = FieldsOf(k, s)]
           /\ UNCHANGED addressVars
    BY <2>1, <2>2, DecodeOutcome DEF IInv
  <2> QED BY <2>1, <2>3, OutcomeRests
<1>3. ASSUME NEW c \in Conns, NEW kind, TcpPacket(c, kind)
      PROVE  Rests(r)
  <2>1. PICK s \in Sids :
          /\ HasBytes(c) /\ Bound(c, s)
          /\ Decode(s, BoundFields(c, s), BoundSessions(c, s), kind,
                    BoundDecoder(c, BoundFields(c, s)))
    BY <1>3 DEF TcpPacket
  <2>2. /\ Found(c, s)
        /\ Decode(s, FieldsOf(c, s), WithSession(c, s), kind,
                  BoundDecoder(c, FieldsOf(c, s)))
    BY <2>1, BoundFound
  <2>3. Outcome(s, c, WithSession(c, s))
    BY <2>2, FoundFits, DecodeOutcome DEF IInv
  <2> QED BY <2>2, <2>3, OutcomeRests
<1>4. ASSUME NEW c \in Conns, TcpPartial(c) \/ TcpDecodeError(c)
      PROVE  Rests(r)
  <2>1. PICK s \in Sids :
          /\ HasBytes(c) /\ Bound(c, s)
          /\ object' = [object EXCEPT ![s] = BoundFields(c, s)]
          /\ UNCHANGED addressVars
    BY <1>4 DEF TcpPartial, TcpDecodeError
  <2>2. Found(c, s)
    BY <2>1, BoundFound
  <2> QED BY <2>1, <2>2, OutcomeRests
<1>5. CASE UNCHANGED <<object, addressVars>>
  BY <1>1, <1>5, SameRests DEF addressVars
<1>6. ASSUME NEW c \in Conns, HandleConnection(c) \/ TcpClosed(c)
      PROVE  Rests(r)
  BY <1>5, <1>6 DEF HandleConnection, TcpClosed, Abort
<1>7. ASSUME NEW s \in Sids, TunTapRead(s)
      PROVE  Rests(r)
  <2>1. PICK sent \in Outcomes :
          /\ object' = [object EXCEPT ![s] = IF sent THEN Queued(@, "data") ELSE @]
          /\ UNCHANGED addressVars
    BY <1>7 DEF TunTapRead
  <2>2. object \in [Sids -> Fields] /\ object[s] \in Fields
    BY DEF IInv, StateTypeOK
  <2>3. CASE r = s /\ sent
    <3> DEFINE log == Append(object[s].out, <<"data", object[s].protector>>)
    <3>1. object'[s] = [object[s] EXCEPT !.out = log]
      BY <2>1, <2>2, <2>3 DEF Queued
    <3>2. holds' = holds
      BY <2>1 DEF addressVars
    <3> HIDE DEF log
    <3> QED BY <2>2, <2>3, <3>1, <3>2 DEF Rests, Fields
  <2>4. CASE ~(r = s /\ sent)
    <3>1. object'[r] = object[r]
      BY <1>1, <2>1, <2>2, <2>4
    <3> QED BY <1>1, <2>1, <3>1, SameRests DEF addressVars
  <2> QED BY <2>3, <2>4
<1>8. CASE DeletePending
  BY <1>5, <1>8 DEF DeletePending
<1>9. CASE UNCHANGED vars
  BY <1>5, <1>9 DEF vars, addressVars
<1> QED BY <1>2, <1>3, <1>4, <1>6, <1>7, <1>8, <1>9 DEF Next

-----------------------------------------------------------------------------
(* The results.                                                            *)

\* The server keeps the invariant for any number of clients, connections and
\* sessions and any tunnel range, whichever of its steps fail.
THEOREM Invariance == Spec => []IInv
BY InitIInv, NextIInv, PTL DEF Spec

\* Every variable keeps its type.
THEOREM TypeCorrect == Spec => []TypeOK
<1>1. P!IInv => IPM!TypeOK
  BY DEF P!IInv, P!TypeOK, IPM!TypeOK, P!Indexes, IPM!Indexes,
         P!Addresses, IPM!Addresses
<1>2. IInv => TypeOK
  BY <1>1 DEF IInv, StateTypeOK, TypeOK, Aborts
<1> QED BY <1>2, Invariance, PTL

\* The session map only has live sessions, under their own keys.
THEOREM MapIsSound == Spec => []MapOwner
<1>1. IInv => MapOwner
  BY DEF IInv
<1> QED BY <1>1, Invariance, PTL

\* The assertion in Session::HandleError never fails.
THEOREM ErrorsHitTheirSession == Spec => []NoForeignErase
<1>1. IInv => NoForeignErase
  BY DEF IInv, StateTypeOK, Aborts, NoForeignErase
<1> QED BY <1>1, Invariance, PTL

\* Callback, protectors, tunnel and address of a session change together, and
\* no two sessions have the same address.
THEOREM ChannelsAreReady == Spec => []ChannelReady
<1>1. ASSUME IInv, NEW s \in Sids
      PROVE  LET built == object[s].reader = "channel"
             IN /\ built <=> object[s].protector # "scramble"
                /\ built <=> object[s].tun # "none"
                /\ built <=> holds[s] # NoAddress
  <2>1. object[s] \in Fields /\ Stage(object[s], holds[s])
    BY <1>1 DEF IInv, StateTypeOK, ObjectsInv
  <2> QED BY <2>1 DEF Fields, Stage, Starting, Greeted, Connected
<1>2. IInv => IPM!Exclusive
  BY DEF IInv, P!IInv, P!Exclusive, IPM!Exclusive
<1>3. IInv => ChannelReady
  BY <1>1, <1>2 DEF ChannelReady
<1> QED BY <1>3, Invariance, PTL

\* What a client is sent comes in order and under the right protector.
THEOREM RepliesAreOrdered == Spec => []ReplyOrder
<1>1. IInv => ReplyOrder
  BY DEF IInv, ObjectsInv, Stage, Ordered, ReplyOrder
<1> QED BY <1>1, Invariance, PTL

\* Pointers kept between two reads point to what the map has.
THEOREM PointersAreLive == Spec => []CachedPointersLive
<1>1. IInv => CachedPointersLive
  BY DEF IInv
<1> QED BY <1>1, Invariance, PTL

\* A session that was handed to DeleteLater handles nothing and keeps its
\* fields, for ever.
THEOREM ForgottenSessionsRest == Spec => ForgottenRests
<1>1. IInv /\ [Next]_vars =>
        [\A s \in doomed \union released :
           /\ holds'[s] = holds[s]
           /\ object'[s] = [object[s] EXCEPT !.out = object'[s].out]]_vars
  BY StepRests DEF Rests
<1> QED BY <1>1, Invariance, PTL DEF Spec, ForgottenRests
=============================================================================
