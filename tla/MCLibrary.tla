----------------------------- MODULE MCLibrary -----------------------------
(***************************************************************************)
(* The parts below the sessions, for TLC.  They share no state: a behaviour*)
(* is one of one part, chosen at the start, while the others stay as they  *)
(* are, so the states add up and do not multiply.                          *)
(***************************************************************************)
EXTENDS IPManager, Dispatching, UserDb, TcpFraming, Buffers, IPRanges,
        EventScheduler, Netlink, Srp, IPC

VARIABLE part

Parts == {"addresses", "dispatcher", "database", "framing", "buffers",
          "serializers", "ranges", "events", "netlink", "srp", "ipc"}

LibraryInit ==
  /\ part \in Parts
  /\ Init /\ DispatchInit /\ DbInit /\ TcpInit /\ BufferInit /\ SerializerInit
  /\ RangeInit /\ EventInit /\ NetlinkInit /\ SrpInit /\ IpcInit
  /\ part # "dispatcher" => NoFd \notin {fd[Listener], fd[Udp]}

\* The steps of one part, given those of all of them.
Step(p, next, state) == IF part = p THEN next ELSE UNCHANGED state

LibraryNext ==
  /\ UNCHANGED part
  /\ Step("addresses", Next, vars)
  /\ Step("dispatcher", DispatchNext, dispatchVars)
  /\ Step("database", DbNext, dbVars)
  /\ Step("framing", TcpNext, tcpVars)
  /\ Step("buffers", BufferNext, bufferVars)
  /\ Step("serializers", SerializerNext, serializerVars)
  /\ Step("ranges", RangeNext, rangeVars)
  /\ Step("events", EventNext, eventVars)
  /\ Step("netlink", NetlinkNext, netlinkVars)
  /\ Step("srp", SrpNext, srpVars)
  /\ Step("ipc", IpcNext, ipcVars)

libraryVars == <<part, vars, dispatchVars, dbVars, tcpVars, bufferVars,
                 serializerVars, rangeVars, eventVars, netlinkVars, srpVars, ipcVars>>

LibrarySpec == LibraryInit /\ [][LibraryNext]_libraryVars

\* The histories after which the properties of a part promise nothing more.
InUse == ~unlocked /\ ~garbled /\ ~gapped /\ ~crossed /\ ~missed /\ ~skewed

-----------------------------------------------------------------------------
(* 10.0.0.0/8 and its like, in addresses of 5 bits.                        *)
PrivateNetworks == <<<<8, 3>>, <<20, 4>>, <<24, 2>>>>

PastOrNow == {-3, 0}

SmallPrimes == <<<<23, 5>>, <<29, 2>>>>
SmallX(salt, password) == (salt[2] + password) % 3
SmallU(A, B) == (A + 2 * B) % 3
SmallK(prime) == prime[2] - 1
SomeSalts == {<<3, 0>>, <<4, 0>>, <<16, 0>>, <<16, 1>>}

SomeArguments == {<<>>, <<<<2>>>>, <<<<0>>, <<2, 0>>>>}
=============================================================================
