-------------------------------- MODULE IPC --------------------------------
(***************************************************************************)
(* How uvpn-ctl takes the calls of a daemon off its channel: HandleRead of *)
(* IpcClientInterface (ipc-client.cc) over the dispatcher generated for it *)
(* (ipc/daemon-controller-client.h), and the calls as the daemon's side    *)
(* encodes them (ipc/daemon-controller-server.h).  A call is a number of   *)
(* 16 bits and its arguments, a vector of strings; calls follow each other *)
(* in a stream of bytes that is cut anywhere.                              *)
(*                                                                         *)
(* The requests of uvpn-ctl go the other way.  The daemon has a dispatcher *)
(* for them, but nothing that feeds it: IpcServerInterface has no body.    *)
(***************************************************************************)
EXTENDS Serializers

CONSTANTS Arguments,  \* the vectors of strings that are sent
          ReadSpace,  \* kRoundedSize, the space that Reserve makes at least
          MaxCalls    \* bound on the calls of both sides together

VARIABLES
  calls,    \* the calls the daemon has made (history)
  stream,   \* the bytes in the channel
  unparsed, \* read_buffer_: what is read and not consumed
  room,     \* and the space behind it
  handled,  \* the calls that were processed
  skewed,   \* a number nobody knows was read (history)
  requests, \* the requests uvpn-ctl has made (history)
  writeBuffer, \* write_buffer_: what is encoded and not written
  wanted,   \* whether the write handler is registered
  written   \* the bytes in the daemon's end of the channel

daemonVars == <<calls, stream, unparsed, room, handled, skewed>>
requestVars == <<requests, writeBuffer, wanted, written>>
ipcVars == <<daemonVars, requestVars>>

\* The numbers of calls are told apart by their 16 bits, and vectors fit them.
ASSUME IpcAssumption ==
  /\ Base > 1 /\ ReadSpace \in Nat \ {0}
  /\ Arguments \subseteq ValuesOf([shape |-> "vector", types |-> <<"string">>])

\* static_cast<int16_t>, and back when it is read.
Int16(n) == n % Weight[2]

\* The calls Dispatch knows, and one of another version of the daemon.
ServerShowClientsReply == Int16(-2)
RequestServerStatusReply == Int16(-3)
GetParameterFromUserRequest == Weight[2] \div 4
UnknownRpc == 1

Rpcs == {ServerShowClientsReply, RequestServerStatusReply, GetParameterFromUserRequest}

-----------------------------------------------------------------------------
\* SendReplyForServerShowClients, SendReplyForRequestServerStatus and
\* SendRequestGetParameterFromUser.
EncodeCall(call) == EncodeNumber("uint16", call.rpc) \o EncodeVector("string", call.args)

SendCall(call) ==
  /\ Len(calls) + Len(requests) < MaxCalls
  /\ calls' = Append(calls, call)
  /\ stream' = stream \o EncodeCall(call)
  /\ UNCHANGED <<unparsed, room, handled, skewed, requestVars>>

-----------------------------------------------------------------------------
\* ParseServerShowClientsReply and its like: the arguments, then Process.
ParseCall(rpc, bytes) ==
  LET args == DecodeVector(bytes, "string")
  IN  [status |-> args.status, rest |-> args.rest,
       calls  |-> IF args.status = 0 THEN <<[rpc |-> rpc, args |-> args.value]>> ELSE <<>>]

\* The status, what is not consumed, the call that was processed.
Dispatch(bytes) ==
  LET num == DecodeNumber(bytes, "uint16")
  IN  IF num.status # 0 THEN [status |-> num.status, rest |-> num.rest, calls |-> <<>>]
      ELSE IF num.value \in Rpcs THEN ParseCall(num.value, num.rest)
      ELSE [status |-> -1, rest |-> num.rest, calls |-> <<>>]

\* Mutant: one call is taken off the buffer and no more.
DispatchOnce(bytes) ==
  LET one == Dispatch(bytes)
  IN  IF one.status > 0
        THEN [missing |-> one.status, rest |-> bytes, calls |-> <<>>, skewed |-> FALSE]
        ELSE [missing |-> 2, rest |-> one.rest, calls |-> one.calls,
              skewed |-> one.status < 0]

\* A turn of the loop of HandleRead, which stops when more bytes are needed.
\* After a number that is not known it goes on with the bytes of its arguments.
Continued(so, one) ==
  IF one.status > 0 THEN [so EXCEPT !.missing = one.status]
  ELSE [missing |-> 0, rest |-> one.rest, calls |-> so.calls \o one.calls,
        skewed |-> so.skewed \/ one.status < 0]

DispatchTurn(so) == IF so.missing > 0 THEN so ELSE Continued(so, Dispatch(so.rest))

\* Every turn but the last takes at least a number.
DispatchAll(bytes) ==
  FoldLeft(LAMBDA so, i : DispatchTurn(so),
           [missing |-> 0, rest |-> bytes, calls |-> <<>>, skewed |-> FALSE],
           [i \in 1..(Len(bytes) + 1) |-> i])

\* BufferChunk::RoundSize.
RoundedUp(size) == IF size < ReadSpace THEN ReadSpace ELSE size

\* Read takes no more than there is space for; what it returns is not looked
\* at.  Then Reserve makes room for what is missing.
HandleRead(n) ==
  /\ n <= Len(stream)
  /\ n <= room
  /\ stream' = Drop(stream, n)
  /\ LET parsed == DispatchAll(unparsed \o Take(stream, n))
     IN  /\ unparsed' = parsed.rest
         /\ handled' = handled \o parsed.calls
         /\ skewed' = (skewed \/ parsed.skewed)
         /\ room' = IF room - n < parsed.missing THEN RoundedUp(parsed.missing) ELSE room - n
  /\ UNCHANGED <<calls, requestVars>>

-----------------------------------------------------------------------------
(* The requests.                                                           *)

ClientConnectRequest == 1
ServerShowClientsRequest == 2
RequestServerStatusRequest == 3
GetParameterFromUserReply == Int16(-(Weight[2] \div 4))

\* What a request carries: a string, nothing, or a vector of strings.
Shape(rpc) == CASE rpc = ClientConnectRequest     -> "string"
                [] rpc = ServerShowClientsRequest -> "nothing"
                [] OTHER                          -> "vector"

Requests ==
  [rpc : {ClientConnectRequest}, args : {<<s>> : s \in Strings}]
    \union [rpc : {ServerShowClientsRequest}, args : {<<>>}]
    \union [rpc : {RequestServerStatusRequest, GetParameterFromUserReply}, args : Arguments]

\* SendRequestClientConnect and its like.
EncodeRequest(request) ==
  EncodeNumber("uint16", request.rpc) \o
    CASE Shape(request.rpc) = "string"  -> EncodeString(request.args[1])
      [] Shape(request.rpc) = "nothing" -> <<>>
      [] Shape(request.rpc) = "vector"  -> EncodeVector("string", request.args)

RequestCall(request) ==
  /\ Len(calls) + Len(requests) < MaxCalls
  /\ requests' = Append(requests, request)
  /\ writeBuffer' = writeBuffer \o EncodeRequest(request)
  /\ wanted' = TRUE
  /\ UNCHANGED <<written, daemonVars>>

\* Write takes n bytes, what the chunks it can pass at once hold; the handler
\* stays until all are gone.
HandleWrite(n) ==
  /\ wanted
  /\ written' = written \o Take(writeBuffer, n)
  /\ writeBuffer' = Drop(writeBuffer, n)
  /\ wanted' = (writeBuffer' # <<>>)
  /\ UNCHANGED <<requests, daemonVars>>

\* ParseClientConnectRequest and its like.
ParseRequest(rpc, bytes) ==
  LET args == CASE Shape(rpc) = "string"  -> DecodeString(bytes)
                [] Shape(rpc) = "nothing" -> [status |-> 0, value |-> <<>>, rest |-> bytes]
                [] Shape(rpc) = "vector"  -> DecodeVector(bytes, "string")
      value == IF Shape(rpc) = "string" THEN <<args.value>> ELSE args.value
  IN  [status |-> args.status, rest |-> args.rest,
       calls  |-> IF args.status = 0 THEN <<[rpc |-> rpc, args |-> value]>> ELSE <<>>]

\* The daemon's Dispatch.
DispatchRequest(bytes) ==
  LET num == DecodeNumber(bytes, "uint16")
  IN  IF num.status # 0 THEN [status |-> num.status, rest |-> num.rest, calls |-> <<>>]
      ELSE IF num.value \in {r.rpc : r \in Requests} THEN ParseRequest(num.value, num.rest)
      ELSE [status |-> -1, rest |-> num.rest, calls |-> <<>>]

-----------------------------------------------------------------------------
IpcInit ==
  /\ calls = <<>>
  /\ stream = <<>>
  /\ unparsed = <<>>
  /\ room = ReadSpace
  /\ handled = <<>>
  /\ skewed = FALSE
  /\ requests = <<>>
  /\ writeBuffer = <<>>
  /\ wanted = FALSE
  /\ written = <<>>

IpcNext ==
  \/ \E rpc \in Rpcs \union {UnknownRpc}, args \in Arguments :
       SendCall([rpc |-> rpc, args |-> args])
  \/ \E n \in 1..Len(stream) : HandleRead(n)
  \/ \E request \in Requests : RequestCall(request)
  \/ \E n \in 1..Len(writeBuffer) : HandleWrite(n)

IpcSpec == IpcInit /\ [][IpcNext]_ipcVars

-----------------------------------------------------------------------------
CallCodes(list) == [i \in DOMAIN list |-> EncodeCall(list[i])]
RequestCodes(list) == [i \in DOMAIN list |-> EncodeRequest(list[i])]
SizeOf(codes) == FoldLeft(LAMBDA n, code : n + Len(code), 0, codes)

\* The bytes that were read, of all the calls.
Arrived == SizeOf(CallCodes(calls)) - Len(stream)

\* A request behind those of a list, as the daemon's dispatcher takes it.
RequestBehind(list) == DispatchRequest(Drop(written, SizeOf(RequestCodes(list))))

\* However the stream is cut, the calls are processed in order, each as soon as
\* all of it was read, and there is room to read on: the next read is never one
\* of no bytes, which Read asserts.  A number nobody knows leaves the loop in
\* the midst of that call's arguments, and this holds no more.  Of the requests,
\* the daemon's dispatcher makes what uvpn-ctl has sent, and asks for more of the
\* one that is cut; and what is not written has a handler to write it.
CallsHandled ==
  /\ room > 0
  /\ ~skewed =>
       /\ IsPrefix(handled, calls)
       /\ SizeOf(CallCodes(handled)) <= Arrived
       /\ Len(handled) < Len(calls) =>
            Arrived < SizeOf(CallCodes(SubSeq(calls, 1, Len(handled) + 1)))
  /\ \A i \in DOMAIN requests :
       LET one == RequestBehind(SubSeq(requests, 1, i - 1))
       IN  one.status > 0 \/ (one.status = 0 /\ one.calls = <<requests[i]>>)
  /\ wanted <=> writeBuffer # <<>>
=============================================================================
