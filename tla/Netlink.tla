------------------------------ MODULE Netlink ------------------------------
(***************************************************************************)
(* Configuration of the network through a netlink socket                   *)
(* (linux/netlink-interfaces.cc), and the programs that use it: the server *)
(* and the client set up a tunnel device with three requests, uvpn-ip-     *)
(* config makes one.  A request is a Chat: it is sent, the kernel answers  *)
(* with datagrams that wait in the socket, and Chat parses them until one  *)
(* of them settles the request.  Nobody looks at the sequence number of an *)
(* answer, so the protocol rests on nothing being left in the socket.      *)
(***************************************************************************)
EXTENDS Integers, Sequences, FiniteSets, SequencesExt

CONSTANTS Address,    \* an address of the tunnel's end
          Networks,   \* destinations of routes
          Gateway,    \* a gateway
          MaxSeq      \* bound on the requests that are made

\* The kernel's table is finite.
ASSUME NetworksAssumption == IsFiniteSet(Networks)

Default == "0.0.0.0/0"
Nothing == "NULL"     \* no gateway, no attribute, a range not initialized

\* The routing table of the kernel to begin with: one route to each network,
\* and default routes through the gateway and through a device.
SomeRoutes == {[dst |-> n, gateway |-> Nothing] : n \in Networks}
                \union [dst : {Default}, gateway : {Gateway, Nothing}]

VARIABLES
  config,   \* the kernel's: the device's flag, its addresses, the routes
  opened,   \* whether fd_ is a socket
  seq,      \* seq_
  replies,  \* the datagrams in the socket
  chat,     \* the request Chat is busy with, or NoChat
  received, \* the messages in Chat's buffer
  entries,  \* entries_ of a DumpRoutesMessage
  plan,     \* the requests the caller makes next, and whether a failure stops it
  answers,  \* what Chat returned: for each request, whether it succeeded
  performed,\* the requests the kernel has carried out (history)
  listed,   \* what GetRoutes returned last and what it was to return (history)
  missed    \* a recv failed, and the answer stayed in the socket (history)

netlinkVars == <<config, opened, seq, replies, chat, received, entries, plan,
                 answers, performed, listed, missed>>

Request(op, of) == [op |-> op, of |-> of]
NoChat == Request("none", Nothing)

LinkChanges == [op : {"Enable", "Disable"}, of : {Nothing}]
AddressChanges == [op : {"AddAddress", "DelAddress"}, of : {Address}]
RouteChanges == [op : {"AddRoute", "DelRoute"}, of : SomeRoutes]
GetRoutes == Request("GetRoutes", Nothing)

\* The tunnel's device: up, its address, the route to the other end.
SetUp(route) == <<Request("Enable", Nothing), Request("AddAddress", Address),
                  Request("AddRoute", route)>>

-----------------------------------------------------------------------------
(* The kernel.                                                             *)

\* NLM_F_EXCL, and what is not there to be removed; other requests may be
\* refused too.
MustRefuse(r) ==
  \/ r.op = "AddAddress" /\ r.of \in config.addresses
  \/ r.op = "DelAddress" /\ r.of \notin config.addresses
  \/ r.op = "DelRoute" /\ r.of \notin config.routes

\* NLM_F_REPLACE: a route to the same destination makes room.
Perform(r) ==
  CASE r.op = "Enable"     -> [config EXCEPT !.up = TRUE]
    [] r.op = "Disable"    -> [config EXCEPT !.up = FALSE]
    [] r.op = "AddAddress" -> [config EXCEPT !.addresses = @ \union {r.of}]
    [] r.op = "DelAddress" -> [config EXCEPT !.addresses = @ \ {r.of}]
    [] r.op = "AddRoute"   -> [config EXCEPT !.routes =
                                 {q \in @ : q.dst # r.of.dst} \union {r.of}]
    [] r.op = "DelRoute"   -> [config EXCEPT !.routes = @ \ {r.of}]
    [] OTHER               -> config

\* NLM_F_ACK: an error, whose code is 0 when there is none.
Acknowledgement(refused) == [type |-> "NLMSG_ERROR", error |-> refused]

\* A default route has no RTA_DST.
NewRoute(route) == [type |-> "RTM_NEWROUTE", gateway |-> route.gateway,
                    dst |-> IF route.dst = Default THEN Nothing ELSE route.dst]
Done == [type |-> "NLMSG_DONE"]

\* A dump comes in two datagrams, the end of it in the second.
Listing(cut) ==
  LET routes == [i \in 1..Cardinality(config.routes) |->
                   NewRoute(SetToSeq(config.routes)[i])]
  IN  <<SubSeq(routes, 1, cut), Append(SubSeq(routes, cut + 1, Len(routes)), Done)>>

-----------------------------------------------------------------------------
(* Parsing the answers.                                                    *)

ParseErrorHeader(message) == IF message.error THEN "ERROR" ELSE "OK"

Errors(messages) == {i \in DOMAIN messages : messages[i].type = "NLMSG_ERROR"}

\* Mutant: the status of a reply that says nothing yet.
ParseReplyFromOK(messages) ==
  IF Errors(messages) # {} THEN ParseErrorHeader(messages[Max(Errors(messages))])
  ELSE "OK"

\* Both ParseReply.  Every error sets the status anew, the end of a dump only
\* when nothing has set it before: so the last error has the last word.
ParseReply(messages) ==
  IF Errors(messages) # {} THEN ParseErrorHeader(messages[Max(Errors(messages))])
  ELSE IF \E i \in DOMAIN messages : messages[i].type = "NLMSG_DONE" THEN "OK"
  ELSE "MORE"

\* The destination of a route without one is told from its gateway.
RoutingEntry(message) ==
  [gateway |-> message.gateway,
   dst |-> IF message.dst = Nothing /\ message.gateway # Nothing THEN Default
           ELSE message.dst]

\* Only the message of a dump looks at routes.
AddRoutingEntries(messages) ==
  {RoutingEntry(messages[i]) :
     i \in {j \in DOMAIN messages : messages[j].type = "RTM_NEWROUTE"}}

-----------------------------------------------------------------------------
(* The callers.                                                            *)

\* A new session of the server goes on after a failure, the client does not.
Plan(requests, stops) ==
  /\ chat.op = "none"
  /\ plan.requests = <<>>
  /\ seq + Len(requests) <= MaxSeq
  /\ plan' = [requests |-> requests, stops |-> stops]
  /\ UNCHANGED <<config, opened, seq, replies, chat, received, entries, answers,
                 performed, listed, missed>>

SetUpDevice ==
  \E route \in SomeRoutes, stops \in BOOLEAN :
    route.gateway = Nothing /\ Plan(SetUp(route), stops)

\* uvpn-ip-config: HandleInterface and HandleRoutes.
UseTool ==
  \E r \in LinkChanges \union AddressChanges \union RouteChanges \union {GetRoutes} :
    Plan(<<r>>, FALSE)

\* The end of Chat: the caller's next request, or none.
Return(ok) ==
  /\ chat' = NoChat
  /\ answers' = Append(answers, ok)
  /\ received' = <<>>
  /\ entries' = {}
  /\ plan' = IF plan.stops /\ ~ok THEN [plan EXCEPT !.requests = <<>>] ELSE plan

-----------------------------------------------------------------------------
(* Chat.                                                                   *)

\* GetSeq, then Init and Send.  What Send returns when send() fails, -1, is
\* true to Chat, which waits for an answer all the same.
SendRequest ==
  /\ chat.op = "none"
  /\ plan.requests # <<>>
  /\ seq' = seq + 1
  /\ opened' = TRUE
  /\ LET r == Head(plan.requests)
     IN  /\ chat' = r
         /\ \/ UNCHANGED <<config, replies, performed>>  \* send() failed
            \/ /\ UNCHANGED <<config, performed>>
               /\ replies' = Append(replies, <<Acknowledgement(TRUE)>>)
            \/ /\ ~MustRefuse(r)
               /\ config' = Perform(r)
               /\ performed' = performed \union {seq'}
               /\ IF r.op = "GetRoutes"
                    THEN \E cut \in 0..Cardinality(config.routes) :
                           replies' = replies \o Listing(cut)
                    ELSE replies' = Append(replies, <<Acknowledgement(FALSE)>>)
  /\ plan' = [plan EXCEPT !.requests = Tail(@)]
  /\ UNCHANGED <<received, entries, answers, listed, missed>>

\* socket() failed.
SendNowhere ==
  /\ chat.op = "none"
  /\ plan.requests # <<>>
  /\ ~opened
  /\ seq' = seq + 1
  /\ chat' = NoChat
  /\ answers' = Append(answers, FALSE)
  /\ plan' = [plan EXCEPT !.requests = IF plan.stops THEN <<>> ELSE Tail(@)]
  /\ UNCHANGED <<config, opened, replies, received, entries, performed, listed, missed>>

\* recv() takes a datagram.  One that fills the space there is makes Recv read
\* on before it is parsed, and wait if it was the last.
Receive(fills) ==
  /\ chat.op # "none"
  /\ replies # <<>>
  /\ fills => Head(replies) # <<>> /\ Head(replies)[1].type # "NLMSG_ERROR"
  /\ replies' = Tail(replies)
  /\ LET messages == received \o Head(replies)
         found == IF chat.op = "GetRoutes" THEN entries \union AddRoutingEntries(messages)
                  ELSE entries
         status == ParseReply(messages)
     IN  IF fills
           THEN /\ received' = messages
                /\ UNCHANGED <<chat, entries, plan, answers, listed>>
           ELSE IF status = "MORE"
           THEN /\ received' = <<>>
                /\ entries' = found
                /\ UNCHANGED <<chat, plan, answers, listed>>
           ELSE /\ Return(status = "OK")
                /\ listed' = IF chat.op = "GetRoutes" /\ status = "OK"
                               THEN [returned |-> found, wanted |-> config.routes]
                               ELSE listed
  /\ UNCHANGED <<config, opened, seq, performed, missed>>

\* recv() is interrupted, or fails: the answer to come stays in the socket.
ReceiveFails ==
  /\ chat.op # "none"
  /\ Return(FALSE)
  /\ missed' = TRUE
  /\ UNCHANGED <<config, opened, seq, replies, performed, listed>>

NetlinkInit ==
  /\ config = [up |-> FALSE, addresses |-> {}, routes |-> SomeRoutes]
  /\ opened = FALSE
  /\ seq = 0
  /\ replies = <<>>
  /\ chat = NoChat
  /\ received = <<>>
  /\ entries = {}
  /\ plan = [requests |-> <<>>, stops |-> FALSE]
  /\ answers = <<>>
  /\ performed = {}
  /\ listed = [returned |-> {}, wanted |-> {}]
  /\ missed = FALSE

NetlinkNext ==
  \/ SetUpDevice
  \/ UseTool
  \/ SendRequest
  \/ SendNowhere
  \/ \E fills \in BOOLEAN : Receive(fills)
  \/ ReceiveFails

NetlinkSpec == NetlinkInit /\ [][NetlinkNext]_netlinkVars

-----------------------------------------------------------------------------
\* A request was carried out by the kernel exactly if the caller was told so,
\* and GetRoutes returns the whole routing table, as long as no recv has failed:
\* the socket is then empty between two requests, whatever they were and however
\* their answers were cut into datagrams.  A default route through a device is
\* returned without a destination.
AnswersAreTrue ==
  ~missed =>
    /\ \A n \in DOMAIN answers : answers[n] <=> n \in performed
    /\ chat.op = "none" => replies = <<>>
    /\ listed.returned =
         {IF r = [dst |-> Default, gateway |-> Nothing] THEN [r EXCEPT !.dst = Nothing]
          ELSE r : r \in listed.wanted}
=============================================================================
