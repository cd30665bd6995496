----------------------------- MODULE HostProofs -----------------------------
(***************************************************************************)
(* What the program can rely on in the host it runs on: the file of users, *)
(* and the kernel's answers to its requests, the addresses it has left.    *)
(*                                                                         *)
(* What the lock of the user database is worth (UserDb), for any number of *)
(* processes and users: as long as nobody has gone on without it, at most  *)
(* one process is between its Open and its Close with the lock, and a      *)
(* session that was given the database, by reads that did not fail, has it *)
(* as it is in the file.  That is about who may change the file, whatever  *)
(* it says.  What it says: a commit writes a beginning of a dump, which    *)
(* may end within a cell, a dump is parsed to the map that was dumped, and *)
(* one that is cut to a map in which nobody has another's secret.  That is *)
(* so however reads and writes fail, until a commit writes on after an     *)
(* error.                                                                  *)
(*                                                                         *)
(* Why nobody needs the sequence numbers of answers (Netlink): as long as  *)
(* no recv fails, what is in the socket is what is left of the answer to   *)
(* the request Chat is busy with, whatever the requests are, and however   *)
(* the table of routes is cut into datagrams, so that each answer settles  *)
(* its own request and GetRoutes returns every route.  For any finite set  *)
(* of routes and any number of requests.                                   *)
(*                                                                         *)
(* Which addresses are taken (IPRanges), for words of any width.  Two      *)
(* ranges share an address when the difference of where they begin lies in *)
(* the size of the one that begins first, and this is what IsOverlapping   *)
(* computes, an int that overflows and a size that leaves the ends out     *)
(* notwithstanding.  An address of four words is counted up and cut like   *)
(* one number: a carry goes on exactly where a word comes out smaller than *)
(* it was, and the words below the one that is cut are worth less than it. *)
(*                                                                         *)
(* That events run in time (EventScheduler), for any number of events.     *)
(* The heap holds what was started, once and in order; while a callback    *)
(* runs, all but the entry of its own event.  That one stays at the top,   *)
(* while nothing that is started is earlier than it is by then, and it is  *)
(* what the pop takes away.  How long the loop sleeps follows from the     *)
(* first of them.                                                          *)
(***************************************************************************)
EXTENDS UserDb, Netlink, IPRanges, EventScheduler, FoldLemmas, FiniteSetTheorems, TLAPS

-----------------------------------------------------------------------------
(* The user database.                                                      *)

StateTypeOK == /\ stage \in [Processes -> {"idle", "open", "refused", "writing"}]
               /\ DOMAIN users = Processes
               /\ unlocked \in BOOLEAN /\ misread \in BOOLEAN /\ garbled \in BOOLEAN

\* The lock belongs to whoever was given the database.
Locked ==
  \A p \in Processes : stage[p] \in {"open", "writing"} => lock = p

DbInv == StateTypeOK /\ (~unlocked => Locked) /\ UpToDate

-----------------------------------------------------------------------------
LEMMA DbInitInv == DbInit => DbInv
BY DEF DbInit, DbInv, StateTypeOK, Locked, UpToDate

\* Without the lock nobody changes what p has read.
LEMMA NobodyElse ==
  ASSUME DbInv, ~unlocked, NEW p \in Processes, stage[p] \in {"open", "writing"},
         NEW q \in Processes, stage[q] \in {"open", "writing"}
  PROVE  p = q
BY DEF DbInv, Locked

\* The end of a session frees the lock for others and nothing else.
LEMMA CloseKeeps ==
  ASSUME DbInv, NEW p \in Processes, Close(p)
  PROVE  DbInv'
<1>1. StateTypeOK'
  BY DEF DbInv, StateTypeOK, Close
<1>2. /\ stage'[p] = "idle" /\ UNCHANGED <<file, unlocked, misread>>
      /\ \A q \in Processes \ {p} : stage'[q] = stage[q] /\ users'[q] = users[q]
  BY DEF DbInv, StateTypeOK, Close
<1>3. ~unlocked' => Locked'
  BY <1>2 DEF DbInv, Locked, Close
<1>4. UpToDate'
  BY <1>2 DEF DbInv, UpToDate
<1> QED BY <1>1, <1>3, <1>4 DEF DbInv

\* A lock is granted that is free, or p's own.
LEMMA OpenKeeps ==
  ASSUME DbInv, NEW p \in Processes, Open(p)
  PROVE  DbInv'
<1>1. PICK cells : /\ stage' = [stage EXCEPT ![p] = "open"]
                   /\ users' = [users EXCEPT ![p] = Contents(cells)]
                   /\ misread' = (misread \/ cells # file)
                   /\ UNCHANGED <<file, garbled, unlocked>>
  BY DEF Open, ReadFile
<1>2. /\ StateTypeOK'
      /\ stage'[p] = "open" /\ (~misread' => users'[p] = Contents(file'))
      /\ \A q \in Processes \ {p} : stage'[q] = stage[q] /\ users'[q] = users[q]
  BY <1>1 DEF DbInv, StateTypeOK
<1>3. lock' = p /\ lock \in {NoOne, p}
  BY DEF Open, LockGranted
<1>4. ~unlocked' => Locked'
  <2>1. ASSUME ~unlocked, NEW q \in Processes \ {p} PROVE stage[q] \notin {"open", "writing"}
    BY <1>3, <2>1, UserDbAssumption DEF DbInv, Locked
  <2> QED BY <1>1, <1>2, <1>3, <2>1 DEF Locked
<1>5. UpToDate'
  BY <1>1, <1>2 DEF DbInv, UpToDate
<1> QED BY <1>2, <1>4, <1>5 DEF DbInv

LEMMA OpenUnlockedKeeps ==
  ASSUME DbInv, NEW p \in Processes, OpenUnlocked(p)
  PROVE  DbInv'
<1>1. StateTypeOK' /\ unlocked'
  BY DEF DbInv, StateTypeOK, OpenUnlocked, ReadFile
<1> QED BY <1>1 DEF DbInv, UpToDate

LEMMA OpenRefusedKeeps ==
  ASSUME DbInv, NEW p \in Processes, OpenRefused(p)
  PROVE  DbInv'
<1>1. /\ stage'[p] = "refused"
      /\ \A q \in Processes \ {p} : stage'[q] = stage[q]
      /\ UNCHANGED <<file, lock, users, unlocked, misread>>
  BY DEF DbInv, StateTypeOK, OpenRefused, fileVars
<1>2. StateTypeOK'
  BY DEF DbInv, StateTypeOK, OpenRefused, fileVars
<1> QED BY <1>1, <1>2 DEF DbInv, Locked, UpToDate

\* Whoever truncates the file has the lock, or was refused it.
LEMMA BeginCommitKeeps ==
  ASSUME DbInv, NEW p \in Processes, HasFd(p), NEW changed, NEW intent,
         BeginCommit(p, changed, intent)
  PROVE  DbInv'
<1>1. StateTypeOK'
  BY DEF DbInv, StateTypeOK, BeginCommit
<1>2. /\ stage'[p] = "writing" /\ lock' = lock
      /\ unlocked' = (unlocked \/ stage[p] = "refused")
      /\ \A q \in Processes \ {p} : stage'[q] = stage[q]
  BY DEF DbInv, StateTypeOK, BeginCommit
<1>3. ASSUME ~unlocked' PROVE Locked' /\ UpToDate'
  <2>1. ~unlocked /\ stage[p] = "open"
    BY <1>2, <1>3 DEF HasFd
  <2>2. \A q \in Processes \ {p} : stage'[q] \notin {"open", "writing"}
    BY <1>2, <2>1, NobodyElse
  <2>3. lock' = p
    BY <1>2, <2>1 DEF DbInv, Locked
  <2> QED BY <1>2, <2>2, <2>3 DEF Locked, UpToDate
<1> QED BY <1>1, <1>3 DEF DbInv, UpToDate

\* ... and so has whoever goes on writing.
LEMMA WriteKeeps ==
  ASSUME DbInv, NEW p \in Processes, Write(p)
  PROVE  DbInv'
<1>1. stage[p] = "writing" /\ UNCHANGED <<lock, stage, users, unlocked, misread>>
  BY DEF Write
<1>0. garbled' \in BOOLEAN
  BY DEF Write, DbInv, StateTypeOK
<1>2. ASSUME ~unlocked, NEW q \in Processes PROVE stage[q] # "open"
  BY <1>1, <1>2, NobodyElse
<1>3. UpToDate'
  BY <1>1, <1>2 DEF UpToDate
<1> QED BY <1>0, <1>1, <1>3 DEF DbInv, StateTypeOK, Locked

LEMMA DbNextInv == DbInv /\ [DbNext]_dbVars => DbInv'
<1> SUFFICES ASSUME DbInv, [DbNext]_dbVars PROVE DbInv'
  OBVIOUS
<1>1. CASE UNCHANGED dbVars
  BY <1>1 DEF dbVars, fileVars, DbInv, StateTypeOK, Locked, UpToDate
<1>2. ASSUME NEW p \in Processes,
             \/ Open(p) \/ OpenRefused(p) \/ OpenUnlocked(p) \/ ChangeFails(p)
             \/ GetUser(p) \/ Write(p) \/ EndCommit(p) \/ Crash(p)
      PROVE  DbInv'
  <2>1. CASE ChangeFails(p) \/ GetUser(p) \/ EndCommit(p) \/ Crash(p)
    BY <2>1, CloseKeeps DEF ChangeFails, GetUser, EndCommit, Crash
  <2> QED BY <1>2, <2>1, OpenKeeps, OpenRefusedKeeps, OpenUnlockedKeeps, WriteKeeps
<1>3. ASSUME NEW p \in Processes, NEW u \in Users, AddUser(p, u) \/ DelUser(p, u)
      PROVE  DbInv'
  BY <1>3, BeginCommitKeeps DEF AddUser, DelUser
<1> QED BY <1>1, <1>2, <1>3 DEF DbNext

\* At most one process holds the database under the lock, and it is the one
\* the kernel has the lock for, as long as nobody was let in or has written
\* without it.
THEOREM OneHolder == DbSpec => [](~unlocked => Locked)
<1>1. DbInv => (~unlocked => Locked)
  BY DEF DbInv
<1> QED BY <1>1, DbInitInv, DbNextInv, PTL DEF DbSpec

\* What an opened database holds is what the file says, until the session
\* that opened it changes it: no commit in between is taken back by its own,
\* unless a process went on without the lock or with what an error left it.
THEOREM OpenIsUpToDate == DbSpec => []UpToDate
<1>1. DbInv => UpToDate
  BY DEF DbInv
<1> QED BY <1>1, DbInitInv, DbNextInv, PTL DEF DbSpec

-----------------------------------------------------------------------------
(* What the parser makes of a file.                                        *)

Cells == [kind : {"name", "secret", "cut name", "cut secret"}, of : Users]
           \union {Colon, Eol, Hole}
Maps == UNION {[D -> Seq(Cells)] : D \in SUBSET Seq(Cells)}
ParserStates ==
  [state : {"END_OF_RECORD", "PARSING_USERNAME", "PARSING_SECRET"},
   username : Seq(Cells), secret : Seq(Cells), found : Maps]

Beginning == [state |-> "END_OF_RECORD", username |-> <<>>, secret |-> <<>>,
              found |-> NoUsers]

\* The parser's states, one after the other.
Parses(h, cells) ==
  /\ h[0] = Beginning
  /\ \A k \in 0..(Len(cells) - 1) : h[k + 1] = ParseCell(h[k], cells[k + 1])
  /\ Parsed(cells) = h[Len(cells)]

LEMMA MapsGrow ==
  ASSUME NEW n \in Seq(Cells), NEW v \in Seq(Cells), NEW m \in Maps
  PROVE  Assigned(m, n, v) \in Maps
<1>1. PICK D \in SUBSET Seq(Cells) : m \in [D -> Seq(Cells)]
  BY DEF Maps
<1>2. Assigned(m, n, v) \in [D \union {n} -> Seq(Cells)]
  BY <1>1 DEF Assigned
<1>3. D \union {n} \in SUBSET Seq(Cells)
  OBVIOUS
<1> QED BY <1>2, <1>3 DEF Maps

LEMMA ParseCellTyped ==
  ASSUME NEW s \in ParserStates, NEW c \in Cells
  PROVE  ParseCell(s, c) \in ParserStates
<1>1. /\ s.username \in Seq(Cells) /\ s.secret \in Seq(Cells) /\ s.found \in Maps
      /\ <<>> \in Seq(Cells)
  BY DEF ParserStates
<1>2. Assigned(s.found, s.username, s.secret) \in Maps
  BY <1>1, MapsGrow
<1>3. Append(s.username, c) \in Seq(Cells) /\ Append(s.secret, c) \in Seq(Cells)
  BY <1>1
<1>4. CASE s.state # "PARSING_SECRET"
  BY <1>1, <1>3, <1>4 DEF ParserStates, ParseCell
<1>5. CASE s.state = "PARSING_SECRET" /\ c = Eol
  BY <1>1, <1>2, <1>5 DEF ParserStates, ParseCell
<1>6. CASE s.state = "PARSING_SECRET" /\ c # Eol
  BY <1>1, <1>3, <1>6 DEF ParserStates, ParseCell
<1> QED BY <1>4, <1>5, <1>6

LEMMA BeginningTyped ==
  Beginning \in ParserStates
<1>1. NoUsers \in [{} -> Seq(Cells)]
  BY DEF NoUsers
<1>2. NoUsers \in Maps
  BY <1>1 DEF Maps
<1> QED BY <1>2 DEF Beginning, ParserStates

LEMMA ParsesCells ==
  ASSUME NEW cells \in Seq(Cells)
  PROVE  \E h \in [0..Len(cells) -> ParserStates] : Parses(h, cells)
<1> DEFINE n == Len(cells)
           d == Beginning
           Turns(h) == h = [s \in SUBSET (1..n) |->
                              IF s = {} THEN d
                              ELSE ParseCell(h[s \ {Max(s)}], cells[Max(s)])]
           iter == CHOOSE h : Turns(h)
           f == [i \in Nat |-> [s \in ParserStates |->
                                  IF i \in 1..n THEN ParseCell(s, cells[i]) ELSE s]]
<1>0. n \in Nat /\ DOMAIN cells = 1..n /\ \A i \in 1..n : cells[i] \in Cells
  OBVIOUS
<1>1. Parsed(cells) = iter[1..n]
  BY <1>0 DEF Parsed, FoldLeft, MapThenFoldSet, Beginning
<1> HIDE DEF n
<1>2. \E h : Turns(h)
  <2>1. f \in [Nat -> [ParserStates -> ParserStates]]
    BY <1>0, ParseCellTyped
  <2>2. PICK h \in [SUBSET (1..n) -> ParserStates] : FromLast(h, f, d, n)
    <3> HIDE DEF f, d
    <3>1. d \in ParserStates
      BY BeginningTyped DEF d
    <3> QED BY <1>0, <2>1, <3>1, Iterates
  <2>3. ASSUME NEW s \in SUBSET (1..n)
        PROVE  h[s] = IF s = {} THEN d
                      ELSE ParseCell(h[s \ {Max(s)}], cells[Max(s)])
    <3>1. CASE s = {}
      BY <2>2, <3>1 DEF FromLast
    <3>2. CASE s # {}
      <4>1. h[s \ {Max(s)}] \in ParserStates
        OBVIOUS
      <4>2. Max(s) \in s /\ Max(s) \in 1..n /\ Max(s) \in Nat
        BY <1>0, <3>2, MaxIsOne
      <4> QED BY <2>2, <3>2, <4>1, <4>2 DEF FromLast
    <3> QED BY <3>1, <3>2
  <2>4. Turns(h)
    BY <2>3
  <2> QED BY <2>4
<1>3. Turns(iter)
  BY <1>2
<1> HIDE DEF iter
<1> DEFINE g == [k \in 0..n |-> iter[1..k]]
<1>4. g[0] = d
  <2>1. 1..0 = {} /\ 0 \in 0..n
    BY <1>0
  <2> QED BY <1>3, <2>1
<1>5. ASSUME NEW k \in 0..(n - 1) PROVE g[k + 1] = ParseCell(g[k], cells[k + 1])
  <2>1. 1..(k + 1) \in SUBSET (1..n) /\ k \in 0..n /\ k + 1 \in 0..n /\ k \in Nat
    BY <1>0
  <2>2. /\ Max(1..(k + 1)) = k + 1
        /\ 1..(k + 1) # {} /\ (1..(k + 1)) \ {k + 1} = 1..k
    BY <2>1, LastOfInterval
  <2> QED BY <1>3, <2>1, <2>2
<1>6. g[n] = iter[1..n]
  BY <1>0
<1> DEFINE S == {k \in 0..n : g[k] \in ParserStates}
<1> HIDE DEF g, d
<1>7. \A k \in 0..n : k \in S
  <2>1. 0 \in S
    BY <1>0, <1>4, BeginningTyped DEF d
  <2>2. ASSUME NEW k \in 0..(n - 1), k \in S PROVE k + 1 \in S
    <3>1. g[k] \in ParserStates /\ k + 1 \in 0..n /\ k + 1 \in 1..n
      BY <1>0, <2>2
    <3> QED BY <1>0, <1>5, <3>1, ParseCellTyped
  <2> HIDE DEF S
  <2> QED BY <1>0, <2>1, <2>2, UpTo
<1>8. g \in [0..n -> ParserStates]
  <2>1. \A k \in 0..n : g[k] \in ParserStates
    BY <1>7
  <2> QED BY <2>1 DEF g
<1>9. Parses(g, cells)
  BY <1>1, <1>4, <1>5, <1>6 DEF Parses, n, d
<1> QED BY <1>8, <1>9 DEF n

\* What a file says when it is one cell longer.
LEMMA ParsedNext ==
  ASSUME NEW cells \in Seq(Cells), NEW c \in Cells
  PROVE  Parsed(Append(cells, c)) = ParseCell(Parsed(cells), c)
<1> DEFINE more == Append(cells, c)
           n == Len(cells)
<1>1. /\ n \in Nat /\ more \in Seq(Cells) /\ Len(more) = n + 1 /\ more[n + 1] = c
      /\ \A k \in 0..(n - 1) : more[k + 1] = cells[k + 1]
  OBVIOUS
<1>2. PICK h : Parses(h, cells)
  BY ParsesCells
<1>3. PICK g : Parses(g, more)
  BY <1>1, ParsesCells
<1> HIDE DEF more
<1> DEFINE S == {k \in 0..n : h[k] = g[k]}
<1>4. /\ h[0] = g[0] /\ Parsed(cells) = h[n] /\ Parsed(more) = g[n + 1]
      /\ \A k \in 0..(n - 1) : h[k + 1] = ParseCell(h[k], cells[k + 1])
      /\ \A k \in 0..n : g[k + 1] = ParseCell(g[k], more[k + 1])
  <2>1. n + 1 - 1 = n
    BY <1>1
  <2> QED BY <1>1, <1>2, <1>3, <2>1 DEF Parses
<1> HIDE DEF n
<1>5. 0 \in S
  BY <1>1, <1>4
<1>6. ASSUME NEW k \in 0..(n - 1), k \in S PROVE k + 1 \in S
  <2>1. k \in 0..n /\ k + 1 \in 0..n
    BY <1>1
  <2> QED BY <1>1, <1>4, <1>6, <2>1
<1>7. n \in S
  <2>1. \A k \in 0..n : k \in S
    <3> HIDE DEF S
    <3> QED BY <1>1, <1>5, <1>6, UpTo
  <2> QED BY <1>1, <2>1
<1>8. g[n + 1] = ParseCell(h[n], c)
  <2>1. n \in 0..n
    BY <1>1
  <2> QED BY <1>1, <1>4, <1>7, <2>1
<1> QED BY <1>4, <1>8 DEF more

LEMMA ParsedTyped ==
  ASSUME NEW cells \in Seq(Cells)
  PROVE  Parsed(cells) \in ParserStates
<1>1. PICK h \in [0..Len(cells) -> ParserStates] : Parses(h, cells)
  BY ParsesCells
<1>2. Len(cells) \in 0..Len(cells)
  OBVIOUS
<1> QED BY <1>1, <1>2 DEF Parses

LEMMA ParsedNothing ==
  Parsed(<<>>) = Beginning
<1>1. <<>> \in Seq(Cells) /\ Len(<<>>) = 0
  OBVIOUS
<1>2. PICK h : Parses(h, <<>>)
  BY <1>1, ParsesCells
<1> QED BY <1>1, <1>2 DEF Parses

-----------------------------------------------------------------------------
(* Databases, and the files that are written for them.                     *)

Names == {<<Name(u)>> : u \in Users}
Own(u) == {<<>>, <<Secret(u)>>, <<Part(Secret(u))>>}

\* Every user has a secret of his own, or has lost it.
IsDatabase(db) ==
  /\ db = [n \in DOMAIN db |-> db[n]] /\ DOMAIN db \subseteq Names
  /\ \A u \in Users : Exists(db, u) => db[<<Name(u)>>] \in Own(u)

Fine(cells) == cells \in Seq(Cells) /\ IsDatabase(Contents(cells))

\* A file that says so wherever it is cut.
FineThroughout(cells) ==
  /\ cells \in Seq(Cells)
  /\ \A c \in Cuts(cells) : Fine(c)

LEMMA CellKinds ==
  ASSUME NEW u \in Users
  PROVE  /\ Name(u) = [kind |-> "name", of |-> u]
         /\ Secret(u) = [kind |-> "secret", of |-> u]
         /\ Part(Name(u)) = [kind |-> "cut name", of |-> u]
         /\ Part(Secret(u)) = [kind |-> "cut secret", of |-> u]
         /\ Part(Part(Secret(u))) = Part(Secret(u))
<1>1. Name(u) = [kind |-> "name", of |-> u] /\ Secret(u) = [kind |-> "secret", of |-> u]
  BY DEF Name, Secret
<1>2. Part([kind |-> "name", of |-> u]) = [kind |-> "cut name", of |-> u]
  BY DEF Part
<1>3. Part([kind |-> "secret", of |-> u]) = [kind |-> "cut secret", of |-> u]
  BY DEF Part
<1>4. Part([kind |-> "cut secret", of |-> u]) = [kind |-> "cut secret", of |-> u]
  BY DEF Part
<1> QED BY <1>1, <1>2, <1>3, <1>4

LEMMA OwnCells ==
  ASSUME NEW u \in Users
  PROVE  /\ Name(u) \in Cells /\ Secret(u) \in Cells /\ Colon \in Cells /\ Eol \in Cells
         /\ Part(Name(u)) \in Cells /\ Part(Secret(u)) \in Cells
         /\ Part(Name(u)) # Colon /\ Part(Secret(u)) # Eol
         /\ Name(u) # Colon /\ Secret(u) # Eol /\ Eol # Colon
         /\ <<Name(u)>> \in Names
         /\ Own(u) \subseteq Seq(Cells)
<1>1. /\ Name(u) \in Cells /\ Secret(u) \in Cells /\ Colon \in Cells /\ Eol \in Cells
      /\ Part(Name(u)) \in Cells /\ Part(Secret(u)) \in Cells
  <2>1. /\ [kind |-> "name", of |-> u] \in Cells /\ [kind |-> "secret", of |-> u] \in Cells
        /\ [kind |-> "cut name", of |-> u] \in Cells
        /\ [kind |-> "cut secret", of |-> u] \in Cells
        /\ Colon \in Cells /\ Eol \in Cells
    BY DEF Cells
  <2> QED BY <2>1, CellKinds, Zenon
<1>2. /\ Part(Name(u)) # Colon /\ Part(Secret(u)) # Eol
      /\ Name(u) # Colon /\ Secret(u) # Eol /\ Eol # Colon
  <2>1. /\ Name(u).kind = "name" /\ Secret(u).kind = "secret"
        /\ Part(Name(u)).kind = "cut name" /\ Part(Secret(u)).kind = "cut secret"
        /\ Colon.kind = "colon" /\ Eol.kind = "eol"
    <3>1. /\ [kind |-> "name", of |-> u].kind = "name"
          /\ [kind |-> "secret", of |-> u].kind = "secret"
          /\ [kind |-> "cut name", of |-> u].kind = "cut name"
          /\ [kind |-> "cut secret", of |-> u].kind = "cut secret"
          /\ Colon.kind = "colon" /\ Eol.kind = "eol"
      BY DEF Colon, Eol
    <3> QED BY <3>1, CellKinds, Zenon
  <2> QED BY <2>1
<1> QED BY <1>1, <1>2 DEF Names, Own

\* A cell that was cut is not cut further, and one byte is not cut at all.
LEMMA PartOnce ==
  /\ Part(Colon) = Colon /\ Part(Eol) = Eol
  /\ \A c \in Cells : Part(c) \in Cells /\ Part(Part(c)) = Part(c)
<1>1. /\ Part(Colon) = Colon /\ Part(Eol) = Eol /\ Part(Hole) = Hole
      /\ Colon \in Cells /\ Eol \in Cells /\ Hole \in Cells
  BY DEF Part, Colon, Eol, Hole, Cells
<1>2. ASSUME NEW c \in [kind : {"name", "secret", "cut name", "cut secret"}, of : Users]
      PROVE  Part(c) \in Cells /\ Part(Part(c)) = Part(c)
  <2>1. PICK u \in Users : c.of = u
    OBVIOUS
  <2>2. /\ c = [kind |-> c.kind, of |-> u]
        /\ c.kind \in {"name", "secret", "cut name", "cut secret"}
    BY <2>1
  <2>3. \A v : /\ Part([kind |-> "name", of |-> v]) = [kind |-> "cut name", of |-> v]
               /\ Part([kind |-> "secret", of |-> v]) = [kind |-> "cut secret", of |-> v]
               /\ Part([kind |-> "cut name", of |-> v]) = [kind |-> "cut name", of |-> v]
               /\ Part([kind |-> "cut secret", of |-> v]) = [kind |-> "cut secret", of |-> v]
    BY DEF Part
  <2>4. /\ [kind |-> "cut name", of |-> u] \in Cells
        /\ [kind |-> "cut secret", of |-> u] \in Cells
    BY DEF Cells
  <2>5. CASE c.kind \in {"name", "cut name"}
    <3>1. Part(c) = [kind |-> "cut name", of |-> u] /\ Part(Part(c)) = Part(c)
      BY <2>2, <2>3, <2>5
    <3> QED BY <2>4, <3>1, Zenon
  <2>6. CASE c.kind \in {"secret", "cut secret"}
    <3>1. Part(c) = [kind |-> "cut secret", of |-> u] /\ Part(Part(c)) = Part(c)
      BY <2>2, <2>3, <2>6
    <3> QED BY <2>4, <3>1, Zenon
  <2> QED BY <2>2, <2>5, <2>6
<1>3. \A c \in Cells : c \in {Colon, Eol, Hole}
                         \/ c \in [kind : {"name", "secret", "cut name", "cut secret"}, of : Users]
  BY DEF Cells
<1> QED BY <1>1, <1>2, <1>3

\* A text that was cut is the whole one up to its last cell.
CutOf(c, text) ==
  /\ c \in Seq(Cells) /\ Len(c) <= Len(text)
  /\ \A i \in 1..Len(c) : c[i] = text[i] \/ (i = Len(c) /\ c[i] = Part(text[i]))

LEMMA CutsAre ==
  ASSUME NEW text \in Seq(Cells), NEW c
  PROVE  c \in Cuts(text) <=> CutOf(c, text)
<1>0. Len(text) \in Nat /\ \A i \in 1..Len(text) : text[i] \in Cells /\ Part(text[i]) \in Cells
  BY PartOnce
<1>1. ASSUME NEW n \in 0..Len(text), c = SubSeq(text, 1, n) PROVE CutOf(c, text)
  <2>1. /\ c \in Seq(Cells) /\ Len(c) = n /\ \A i \in 1..n : c[i] = text[i]
    BY <1>0, <1>1
  <2> QED BY <1>0, <2>1 DEF CutOf
<1>2. ASSUME NEW n \in 1..Len(text), c = Append(SubSeq(text, 1, n - 1), Part(text[n]))
      PROVE  CutOf(c, text)
  <2>1. PICK b : b = SubSeq(text, 1, n - 1)
    OBVIOUS
  <2>2. /\ b \in Seq(Cells) /\ Len(b) = n - 1 /\ \A i \in 1..(n - 1) : b[i] = text[i]
    BY <1>0, <2>1
  <2>3. PICK x \in Cells : x = Part(text[n])
    BY <1>0
  <2>4. c = Append(b, x)
    BY <1>2, <2>1, <2>3
  <2>5. /\ c \in Seq(Cells) /\ Len(c) = n /\ c[n] = x
        /\ \A i \in 1..(n - 1) : c[i] = text[i]
    BY <1>0, <2>2, <2>4
  <2>6. \A i \in 1..n : i \in 1..(n - 1) \/ i = n
    OBVIOUS
  <2>7. n <= Len(text)
    BY <1>0
  <2> QED BY <2>3, <2>5, <2>6, <2>7 DEF CutOf
<1>3. ASSUME CutOf(c, text) PROVE c \in Cuts(text)
  <2>1. PICK n \in Nat : n = Len(c) /\ n <= Len(text) /\ n \in 0..Len(text)
    BY <1>0, <1>3 DEF CutOf
  <2>2. CASE \A i \in 1..n : c[i] = text[i]
    <3>1. PICK b : b = SubSeq(text, 1, n)
      OBVIOUS
    <3>2. b \in Seq(Cells) /\ Len(b) = n /\ \A i \in 1..n : b[i] = text[i]
      BY <1>0, <2>1, <3>1
    <3>3. c = b
      BY <1>3, <2>1, <2>2, <3>2 DEF CutOf
    <3> QED BY <2>1, <3>1, <3>3 DEF Cuts
  <2>3. CASE ~\A i \in 1..n : c[i] = text[i]
    <3>1. /\ n \in 1..Len(text) /\ c[n] = Part(text[n])
          /\ \A i \in 1..(n - 1) : c[i] = text[i]
      BY <1>0, <1>3, <2>1, <2>3 DEF CutOf
    <3>2. PICK b : b = SubSeq(text, 1, n - 1)
      OBVIOUS
    <3>3. b \in Seq(Cells) /\ Len(b) = n - 1 /\ \A i \in 1..(n - 1) : b[i] = text[i]
      BY <1>0, <2>1, <3>1, <3>2
    <3>4. PICK x \in Cells : x = Part(text[n])
      BY <1>0, <3>1
    <3>5. PICK d : d = Append(b, x)
      OBVIOUS
    <3>6. /\ d \in Seq(Cells) /\ Len(d) = n /\ d[n] = x
          /\ \A i \in 1..(n - 1) : d[i] = b[i]
      BY <2>1, <3>1, <3>3, <3>4, <3>5
    <3>7. \A i \in 1..n : c[i] = d[i]
      <4>1. \A i \in 1..n : i \in 1..(n - 1) \/ i = n
        BY <2>1
      <4> QED BY <3>1, <3>3, <3>4, <3>6, <4>1
    <3>8. c = d
      BY <1>3, <2>1, <3>6, <3>7 DEF CutOf
    <3> QED BY <3>1, <3>2, <3>4, <3>5, <3>8 DEF Cuts
  <2> QED BY <2>2, <2>3
<1>4. c \in Cuts(text) => CutOf(c, text)
  BY <1>1, <1>2 DEF Cuts
<1> QED BY <1>3, <1>4

\* What is left of what was left is left of the whole.
LEMMA CutsOfCuts ==
  ASSUME NEW text \in Seq(Cells), NEW c \in Cuts(text), NEW d \in Cuts(c)
  PROVE  d \in Cuts(text)
<1>1. CutOf(c, text)
  BY CutsAre
<1>2. c \in Seq(Cells) /\ CutOf(d, c)
  BY <1>1, CutsAre DEF CutOf
<1>3. PICK m \in Nat, n \in Nat, o \in Nat :
        m = Len(d) /\ n = Len(c) /\ o = Len(text) /\ m <= n /\ n <= o
  BY <1>1, <1>2 DEF CutOf
<1>4. ASSUME NEW i \in 1..m PROVE d[i] = text[i] \/ (i = m /\ d[i] = Part(text[i]))
  <2>1. i \in 1..n /\ i \in 1..o /\ text[i] \in Cells
    BY <1>3
  <2>2. d[i] = c[i] \/ (i = m /\ d[i] = Part(c[i]))
    BY <1>2, <1>3 DEF CutOf
  <2>3. c[i] = text[i] \/ (i = n /\ c[i] = Part(text[i]))
    BY <1>1, <1>3, <2>1 DEF CutOf
  <2>4. i = n => i = m
    BY <1>3
  <2>5. Part(Part(text[i])) = Part(text[i])
    BY <2>1, PartOnce
  <2> QED BY <2>2, <2>3, <2>4, <2>5
<1>5. CutOf(d, text)
  BY <1>2, <1>3, <1>4 DEF CutOf
<1> QED BY <1>5, CutsAre

LEMMA CutsKeep ==
  ASSUME NEW text \in Seq(Cells)
  PROVE  /\ text \in Cuts(text)
         /\ \A n \in 0..Len(text) : SubSeq(text, 1, n) \in Cuts(text)
         /\ Cuts(text) \subseteq Seq(Cells)
<1>1. SubSeq(text, 1, Len(text)) = text /\ Len(text) \in 0..Len(text)
  OBVIOUS
<1>2. \A n \in 0..Len(text) : SubSeq(text, 1, n) \in Cuts(text)
  BY DEF Cuts
<1>3. Cuts(text) \subseteq Seq(Cells)
  BY CutsAre DEF CutOf
<1> QED BY <1>1, <1>2, <1>3

LEMMA NamesDiffer ==
  ASSUME NEW u \in Users, NEW v \in Users, <<Name(u)>> = <<Name(v)>>
  PROVE  u = v
<1>1. Name(u) = Name(v)
  OBVIOUS
<1>2. Name(u).of = u /\ Name(v).of = v
  BY DEF Name
<1> QED BY <1>1, <1>2

LEMMA NobodyIsDatabase ==
  IsDatabase(NoUsers)
BY DEF IsDatabase, NoUsers, Exists

LEMMA AssignedIsDatabase ==
  ASSUME NEW db, IsDatabase(db), NEW u \in Users, NEW secret \in Own(u)
  PROVE  IsDatabase(Assigned(db, <<Name(u)>>, secret))
<1> DEFINE r == Assigned(db, <<Name(u)>>, secret)
<1>1. /\ DOMAIN r = DOMAIN db \union {<<Name(u)>>} /\ r = [n \in DOMAIN r |-> r[n]]
      /\ r[<<Name(u)>>] = secret
      /\ \A n \in DOMAIN db \ {<<Name(u)>>} : r[n] = db[n]
  BY DEF Assigned
<1>2. DOMAIN r \subseteq Names
  BY <1>1, OwnCells DEF IsDatabase
<1> HIDE DEF r
<1>3. ASSUME NEW v \in Users, Exists(r, v) PROVE r[<<Name(v)>>] \in Own(v)
  <2>1. CASE v = u
    BY <1>1, <2>1
  <2>2. CASE v # u
    <3>1. <<Name(v)>> # <<Name(u)>>
      BY <2>2, NamesDiffer
    <3> QED BY <1>1, <1>3, <3>1 DEF Exists, IsDatabase
  <2> QED BY <2>1, <2>2
<1> QED BY <1>1, <1>2, <1>3 DEF r, IsDatabase

LEMMA RemovedIsDatabase ==
  ASSUME NEW db, IsDatabase(db), NEW u \in Users
  PROVE  IsDatabase(Removed(db, u))
BY DEF IsDatabase, Removed, Exists

LEMMA FineNext ==
  ASSUME NEW cells, FineThroughout(cells), NEW c \in Cells, Fine(Append(cells, c)),
         Fine(Append(cells, Part(c)))
  PROVE  FineThroughout(Append(cells, c))
<1> DEFINE more == Append(cells, c)
           n == Len(cells)
<1>1. n \in Nat /\ cells \in Seq(Cells) /\ more \in Seq(Cells) /\ Len(more) = n + 1
  BY DEF FineThroughout
<1>2. ASSUME NEW k \in 0..n PROVE SubSeq(more, 1, k) = SubSeq(cells, 1, k)
  BY DEF FineThroughout
<1>3. SubSeq(more, 1, n + 1) = more /\ SubSeq(cells, 1, n) = cells
  BY <1>1
<1>4. more[n + 1] = c /\ \A k \in 1..n : more[k] = cells[k]
  BY <1>1
<1>5. Fine(more)
  OBVIOUS
<1> HIDE DEF more, n
<1>6. ASSUME NEW k \in 0..(n + 1) PROVE Fine(SubSeq(more, 1, k))
  <2>1. CASE k = n + 1
    BY <1>3, <1>5, <2>1
  <2>2. CASE k # n + 1
    <3>1. k \in 0..n
      BY <1>1, <2>2
    <3>2. SubSeq(cells, 1, k) \in Cuts(cells)
      BY <1>1, <3>1, CutsKeep DEF n
    <3> QED BY <1>2, <3>1, <3>2 DEF FineThroughout
  <2> QED BY <2>1, <2>2
<1>7. ASSUME NEW k \in 1..(n + 1) PROVE Fine(Append(SubSeq(more, 1, k - 1), Part(more[k])))
  <2>1. k - 1 \in 0..n
    BY <1>1
  <2>2. CASE k = n + 1
    <3>1. k - 1 = n
      BY <1>1, <2>2
    <3>2. SubSeq(more, 1, k - 1) = cells /\ more[k] = c
      BY <1>2, <1>3, <1>4, <2>1, <2>2, <3>1
    <3> QED BY <3>2
  <2>3. CASE k # n + 1
    <3>1. k \in 1..n
      BY <1>1, <2>3
    <3>2. Append(SubSeq(cells, 1, k - 1), Part(cells[k])) \in Cuts(cells)
      BY <3>1 DEF Cuts, n
    <3>3. SubSeq(more, 1, k - 1) = SubSeq(cells, 1, k - 1) /\ more[k] = cells[k]
      BY <1>2, <1>4, <2>1, <3>1
    <3> QED BY <3>2, <3>3 DEF FineThroughout
  <2> QED BY <2>2, <2>3
<1>8. \A d \in Cuts(more) : Fine(d)
  BY <1>1, <1>6, <1>7 DEF Cuts
<1> QED BY <1>1, <1>8 DEF FineThroughout, more

-----------------------------------------------------------------------------
(* A record is parsed.                                                     *)

\* The parser's state after whole records.
Between(f) == [state |-> "END_OF_RECORD", username |-> <<>>, secret |-> <<>>, found |-> f]

\* ... and within one.
Named(f, u) == [state |-> "PARSING_USERNAME", username |-> <<Name(u)>>,
                secret |-> <<>>, found |-> f]
Telling(f, u, secret) == [state |-> "PARSING_SECRET", username |-> <<Name(u)>>,
                          secret |-> secret, found |-> f]
Naming(f, u) == [state |-> "PARSING_USERNAME", username |-> <<Part(Name(u))>>,
                 secret |-> <<>>, found |-> f]

LEMMA RecordIs ==
  ASSUME NEW db, NEW u \in Users, NEW cells \in Seq(Cells),
         db[<<Name(u)>>] \in Own(u)
  PROVE  LET begun == Append(Append(cells, Name(u)), Colon)
         IN  \/ db[<<Name(u)>>] = <<>> /\ cells \o Record(db, u) = Append(begun, Eol)
             \/ \E c \in {Secret(u), Part(Secret(u))} :
                  /\ db[<<Name(u)>>] = <<c>>
                  /\ cells \o Record(db, u) = Append(Append(begun, c), Eol)
<1> DEFINE a == Name(u)
           x == db[<<Name(u)>>]
           begun == Append(Append(cells, a), Colon)
<1>1. /\ a \in Cells /\ Secret(u) \in Cells /\ Part(Secret(u)) \in Cells
      /\ Colon \in Cells /\ Eol \in Cells
      /\ x \in Seq(Cells) /\ x \in {<<>>, <<Secret(u)>>, <<Part(Secret(u))>>}
  BY OwnCells DEF Own
<1>2. Record(db, u) = <<a, Colon>> \o x \o <<Eol>>
  BY DEF Record
<1> HIDE DEF a, x
<1>3. cells \o (<<a, Colon>> \o x \o <<Eol>>) = Append(begun \o x, Eol)
  <2>1. <<a, Colon>> \in Seq(Cells)
    BY <1>1
  <2>2. \A y \in Seq(Cells) : cells \o (y \o x \o <<Eol>>) = Append((cells \o y) \o x, Eol)
    BY <1>1
  <2>3. cells \o <<a, Colon>> = begun
    BY <1>1
  <2> QED BY <2>1, <2>2, <2>3
<1>4. begun \o <<>> = begun /\ \A c \in Cells : begun \o <<c>> = Append(begun, c)
  <2>1. begun \in Seq(Cells)
    BY <1>1
  <2> HIDE DEF begun
  <2> QED BY <1>1, <2>1
<1> HIDE DEF begun
<1>5. CASE x = <<>>
  BY <1>2, <1>3, <1>4, <1>5 DEF begun, a, x
<1>6. ASSUME NEW c \in {Secret(u), Part(Secret(u))}, x = <<c>>
      PROVE  cells \o Record(db, u) = Append(Append(begun, c), Eol)
  BY <1>1, <1>2, <1>3, <1>4, <1>6
<1>7. x = <<>> \/ \E c \in {Secret(u), Part(Secret(u))} : x = <<c>>
  BY <1>1
<1> QED BY <1>5, <1>6, <1>7 DEF begun, a, x

LEMMA CellsOfRecord ==
  ASSUME NEW f, NEW u \in Users
  PROVE  /\ ParseCell(Between(f), Name(u)) = Named(f, u)
         /\ ParseCell(Between(f), Part(Name(u))) = Naming(f, u)
         /\ ParseCell(Named(f, u), Colon) = Telling(f, u, <<>>)
         /\ \A c \in {Secret(u), Part(Secret(u))} :
              ParseCell(Telling(f, u, <<>>), c) = Telling(f, u, <<c>>)
         /\ \A secret : ParseCell(Telling(f, u, secret), Eol)
                          = Between(Assigned(f, <<Name(u)>>, secret))
<1>1. Name(u) # Colon /\ Secret(u) # Eol /\ Name(u) \in Cells /\ Secret(u) \in Cells
  BY OwnCells
<1>2. ParseCell(Between(f), Name(u)) = Named(f, u)
  <2>1. Append(<<>>, Name(u)) = <<Name(u)>>
    BY <1>1
  <2> QED BY <1>1, <2>1 DEF ParseCell, Between, Named
<1>3. ParseCell(Named(f, u), Colon) = Telling(f, u, <<>>)
  BY DEF ParseCell, Named, Telling
<1>4. ASSUME NEW c \in {Secret(u), Part(Secret(u))}
      PROVE  ParseCell(Telling(f, u, <<>>), c) = Telling(f, u, <<c>>)
  <2>1. c \in Cells /\ c # Eol
    BY OwnCells
  <2>2. Append(<<>>, c) = <<c>>
    BY <2>1
  <2> QED BY <2>1, <2>2 DEF ParseCell, Telling
<1>6. ParseCell(Between(f), Part(Name(u))) = Naming(f, u)
  <2>1. Part(Name(u)) \in Cells /\ Part(Name(u)) # Colon
    BY OwnCells
  <2>2. Append(<<>>, Part(Name(u))) = <<Part(Name(u))>>
    BY <2>1
  <2> QED BY <2>1, <2>2 DEF ParseCell, Between, Naming
<1>5. ASSUME NEW secret
      PROVE  ParseCell(Telling(f, u, secret), Eol)
               = Between(Assigned(f, <<Name(u)>>, secret))
  <2> DEFINE s == Telling(f, u, secret)
             found == Assigned(f, <<Name(u)>>, secret)
  <2>1. /\ s = [state |-> "PARSING_SECRET", username |-> <<Name(u)>>,
                secret |-> secret, found |-> f]
        /\ Assigned(s.found, s.username, s.secret) = found
    BY DEF Telling
  <2> HIDE DEF s, found
  <2>2. ParseCell(s, Eol)
          = [s EXCEPT !.state = "END_OF_RECORD", !.username = <<>>, !.secret = <<>>,
                      !.found = found]
    BY <2>1 DEF ParseCell
  <2> DEFINE t == [s EXCEPT !.state = "END_OF_RECORD", !.username = <<>>,
                            !.secret = <<>>, !.found = found]
  <2>3. t = [part \in {"state", "username", "secret", "found"} |-> t[part]]
    BY <2>1
  <2>4. /\ t.state = "END_OF_RECORD" /\ t.username = <<>> /\ t.secret = <<>>
        /\ t.found = found
    BY <2>1
  <2>5. t = Between(found)
    <3> HIDE DEF t
    <3> QED BY <2>3, <2>4 DEF Between
  <2> QED BY <2>2, <2>5 DEF s, found
<1> QED BY <1>2, <1>3, <1>4, <1>5, <1>6

\* What a file says that ends between records, within a name or within a secret.
LEMMA SaysBetween ==
  ASSUME NEW cells \in Seq(Cells), NEW f, IsDatabase(f), NEW u \in Users, NEW secret \in Own(u)
  PROVE  /\ Parsed(cells) = Between(f) => Contents(cells) = f /\ Fine(cells)
         /\ Parsed(cells) = Named(f, u) => Fine(cells)
         /\ Parsed(cells) = Naming(f, u) => Fine(cells)
         /\ Parsed(cells) = Telling(f, u, secret) => Fine(cells)
<1>1. Parsed(cells) = Between(f) => Contents(cells) = f
  BY DEF Between, Contents
<1>2. Parsed(cells) = Named(f, u) => Contents(cells) = f
  BY DEF Named, Contents
<1>5. Parsed(cells) = Naming(f, u) => Contents(cells) = f
  BY DEF Naming, Contents
<1>3. Parsed(cells) = Telling(f, u, secret) =>
        Contents(cells) = Assigned(f, <<Name(u)>>, secret)
  BY DEF Telling, Contents
<1>4. IsDatabase(Assigned(f, <<Name(u)>>, secret))
  BY AssignedIsDatabase
<1> QED BY <1>1, <1>2, <1>3, <1>4, <1>5 DEF Fine

LEMMA RecordEnds ==
  ASSUME NEW cells, FineThroughout(cells), NEW f, IsDatabase(f), NEW u \in Users,
         NEW secret \in Own(u), Parsed(cells) = Telling(f, u, secret)
  PROVE  /\ FineThroughout(Append(cells, Eol))
         /\ Parsed(Append(cells, Eol)) = Between(Assigned(f, <<Name(u)>>, secret))
<1>0. Eol \in Cells
  BY OwnCells
<1>1. cells \in Seq(Cells) /\ Append(cells, Eol) \in Seq(Cells)
  BY <1>0 DEF FineThroughout
<1>2. Parsed(Append(cells, Eol)) = Between(Assigned(f, <<Name(u)>>, secret))
  <2>1. Parsed(Append(cells, Eol)) = ParseCell(Parsed(cells), Eol)
    BY <1>0, <1>1, ParsedNext
  <2>2. ParseCell(Telling(f, u, secret), Eol)
          = Between(Assigned(f, <<Name(u)>>, secret))
    BY CellsOfRecord
  <2> QED BY <2>1, <2>2
<1>3. IsDatabase(Assigned(f, <<Name(u)>>, secret))
  BY AssignedIsDatabase
<1>4. Fine(Append(cells, Eol))
  BY <1>1, <1>2, <1>3, SaysBetween
<1> QED BY <1>0, <1>1, <1>2, <1>4, FineNext, PartOnce

LEMMA RecordParses ==
  ASSUME NEW cells, FineThroughout(cells), NEW f, IsDatabase(f), Parsed(cells) = Between(f),
         NEW u \in Users, NEW db, db[<<Name(u)>>] \in Own(u)
  PROVE  LET more == cells \o Record(db, u)
         IN  /\ FineThroughout(more)
             /\ Parsed(more) = Between(Assigned(f, <<Name(u)>>, db[<<Name(u)>>]))
<1> DEFINE one == Append(cells, Name(u))
           two == Append(one, Colon)
           third == {Secret(u), Part(Secret(u))}
<1>1. /\ cells \in Seq(Cells) /\ one \in Seq(Cells) /\ two \in Seq(Cells)
      /\ Name(u) \in Cells /\ Part(Name(u)) \in Cells /\ Colon \in Cells
      /\ <<>> \in Own(u) /\ Part(Colon) = Colon
  <2>1. cells \in Seq(Cells) /\ <<>> \in Own(u)
    BY DEF FineThroughout, Own
  <2>2. /\ Name(u) \in Cells /\ Part(Name(u)) \in Cells /\ Colon \in Cells
        /\ Part(Colon) = Colon
    BY OwnCells, PartOnce
  <2>3. one \in Seq(Cells)
    BY <2>1, <2>2
  <2> HIDE DEF one
  <2>4. two \in Seq(Cells)
    BY <2>2, <2>3
  <2> QED BY <2>1, <2>2, <2>3, <2>4
<1>2. Parsed(one) = Named(f, u) /\ Parsed(Append(cells, Part(Name(u)))) = Naming(f, u)
  <2>1. /\ Parsed(one) = ParseCell(Parsed(cells), Name(u))
        /\ Parsed(Append(cells, Part(Name(u)))) = ParseCell(Parsed(cells), Part(Name(u)))
    BY <1>1, ParsedNext
  <2>2. /\ ParseCell(Between(f), Name(u)) = Named(f, u)
        /\ ParseCell(Between(f), Part(Name(u))) = Naming(f, u)
    BY CellsOfRecord
  <2> HIDE DEF one
  <2> QED BY <2>1, <2>2
<1>3. FineThroughout(one)
  <2>1. Append(cells, Part(Name(u))) \in Seq(Cells)
    BY <1>1
  <2>2. Fine(one) /\ Fine(Append(cells, Part(Name(u))))
    BY <1>1, <1>2, <2>1, SaysBetween
  <2> QED BY <1>1, <2>2, FineNext
<1>4. Parsed(two) = Telling(f, u, <<>>)
  <2> HIDE DEF one
  <2> QED BY <1>1, <1>2, ParsedNext, CellsOfRecord
<1>5. FineThroughout(two)
  <2> HIDE DEF one
  <2>1. Fine(two)
    BY <1>1, <1>4, SaysBetween
  <2> QED BY <1>1, <1>3, <2>1, FineNext
<1> HIDE DEF two
<1>6. ASSUME NEW c \in third
      PROVE  /\ Append(two, c) \in Seq(Cells) /\ <<c>> \in Own(u)
             /\ c \in Cells /\ Part(c) \in third
             /\ Parsed(Append(two, c)) = Telling(f, u, <<c>>)
             /\ Fine(Append(two, c))
  <2>1. c \in Cells /\ <<c>> \in Own(u) /\ Part(c) \in third
    BY OwnCells, CellKinds DEF Own
  <2>2. Append(two, c) \in Seq(Cells)
    BY <1>1, <2>1
  <2>3. Parsed(Append(two, c)) = Telling(f, u, <<c>>)
    <3>1. Parsed(Append(two, c)) = ParseCell(Parsed(two), c)
      BY <1>1, <2>1, ParsedNext
    <3> QED BY <1>4, <3>1, CellsOfRecord
  <2>4. Fine(Append(two, c))
    BY <2>1, <2>2, <2>3, SaysBetween
  <2> QED BY <2>1, <2>2, <2>3, <2>4
<1>7. ASSUME NEW c \in third PROVE FineThroughout(Append(two, c))
  <2>1. c \in Cells /\ Fine(Append(two, c)) /\ Part(c) \in third
    BY <1>6
  <2>2. Fine(Append(two, Part(c)))
    BY <1>6, <2>1
  <2> HIDE DEF third
  <2> QED BY <1>5, <2>1, <2>2, FineNext
<1>8. \/ db[<<Name(u)>>] = <<>> /\ cells \o Record(db, u) = Append(two, Eol)
      \/ \E c \in third : /\ db[<<Name(u)>>] = <<c>>
                          /\ cells \o Record(db, u) = Append(Append(two, c), Eol)
  BY <1>1, RecordIs DEF two
<1>9. CASE db[<<Name(u)>>] = <<>> /\ cells \o Record(db, u) = Append(two, Eol)
  BY <1>1, <1>4, <1>5, <1>9, RecordEnds
<1>10. ASSUME NEW c \in third, db[<<Name(u)>>] = <<c>>,
              cells \o Record(db, u) = Append(Append(two, c), Eol)
       PROVE  LET more == cells \o Record(db, u)
              IN  /\ FineThroughout(more)
                  /\ Parsed(more) = Between(Assigned(f, <<Name(u)>>, db[<<Name(u)>>]))
  <2>1. <<c>> \in Own(u) /\ Parsed(Append(two, c)) = Telling(f, u, <<c>>)
    BY <1>6
  <2>2. FineThroughout(Append(two, c))
    BY <1>7
  <2> HIDE DEF third
  <2> QED BY <1>10, <2>1, <2>2, RecordEnds
<1> QED BY <1>8, <1>9, <1>10

-----------------------------------------------------------------------------
(* A dump is parsed.                                                       *)

DumpTurn(db, text, u) == IF Exists(db, u) THEN text \o Record(db, u) ELSE text
DumpRuns(h, db) ==
  /\ h[0] = <<>> /\ \A u \in 0..(LastUser - 1) : h[u + 1] = DumpTurn(db, h[u], u + 1)
  /\ Dump(db) = h[LastUser]

LEMMA RecordTyped ==
  ASSUME NEW db, IsDatabase(db), NEW u \in Users, NEW text \in Seq(Cells)
  PROVE  DumpTurn(db, text, u) \in Seq(Cells)
<1>1. CASE Exists(db, u)
  <2>1. Record(db, u) \in Seq(Cells)
    <3>1. db[<<Name(u)>>] \in Seq(Cells)
      BY <1>1, OwnCells DEF IsDatabase
    <3>0. Name(u) \in Cells /\ Colon \in Cells /\ Eol \in Cells
      BY OwnCells
    <3>2. <<Name(u), Colon>> \in Seq(Cells) /\ <<Eol>> \in Seq(Cells)
      BY <3>0
    <3> QED BY <3>1, <3>2 DEF Record
  <2> QED BY <2>1 DEF DumpTurn
<1>2. CASE ~Exists(db, u)
  BY <1>2 DEF DumpTurn
<1> QED BY <1>1, <1>2

LEMMA DumpTurns ==
  ASSUME NEW db, IsDatabase(db)
  PROVE  \E h \in [0..LastUser -> Seq(Cells)] : DumpRuns(h, db)
<1> DEFINE n == LastUser
           X == Seq(Cells)
           q == [u \in Users |-> u]
           Turns(h) == h = [s \in SUBSET (1..n) |->
                              IF s = {} THEN <<>>
                              ELSE DumpTurn(db, h[s \ {Max(s)}], q[Max(s)])]
           iter == CHOOSE h : Turns(h)
           f == [i \in Nat |-> [text \in X |->
                                  IF i \in 1..n THEN DumpTurn(db, text, i) ELSE text]]
<1>0. /\ n \in Nat /\ <<>> \in X /\ DOMAIN q = 1..n
      /\ \A i \in 1..n : q[i] = i
  BY UserDbAssumption DEF Users
<1>1. Dump(db) = iter[1..n]
  <2>1. Dump(db) = FoldLeft(LAMBDA text, u : DumpTurn(db, text, u), <<>>, q)
    BY DEF Dump, DumpTurn
  <2> HIDE DEF q, n
  <2> QED BY <1>0, <2>1 DEF FoldLeft, MapThenFoldSet
<1> HIDE DEF q
<1>2. \E h : Turns(h)
  <2>1. f \in [Nat -> [X -> X]]
    BY RecordTyped DEF Users
  <2>2. PICK h \in [SUBSET (1..n) -> X] : FromLast(h, f, <<>>, n)
    <3> HIDE DEF f, X
    <3> QED BY <1>0, <2>1, Iterates
  <2>3. ASSUME NEW s \in SUBSET (1..n)
        PROVE  h[s] = IF s = {} THEN <<>> ELSE DumpTurn(db, h[s \ {Max(s)}], q[Max(s)])
    <3>1. CASE s = {}
      BY <2>2, <3>1 DEF FromLast
    <3>2. CASE s # {}
      <4>1. h[s \ {Max(s)}] \in X
        OBVIOUS
      <4>2. Max(s) \in s /\ Max(s) \in 1..n /\ Max(s) \in Nat
        BY <1>0, <3>2, MaxIsOne
      <4> QED BY <1>0, <2>2, <3>2, <4>1, <4>2 DEF FromLast
    <3> QED BY <3>1, <3>2
  <2>4. Turns(h)
    BY <2>3
  <2> QED BY <2>4
<1>3. Turns(iter)
  BY <1>2
<1> HIDE DEF iter
<1> DEFINE g == [k \in 0..n |-> iter[1..k]]
<1>4. g[0] = <<>>
  <2>1. 1..0 = {} /\ 0 \in 0..n
    BY <1>0
  <2> QED BY <1>3, <2>1
<1>5. ASSUME NEW k \in 0..(n - 1) PROVE g[k + 1] = DumpTurn(db, g[k], k + 1)
  <2>1. 1..(k + 1) \in SUBSET (1..n) /\ k \in 0..n /\ k + 1 \in 0..n /\ k \in Nat
    BY <1>0
  <2>2. /\ Max(1..(k + 1)) = k + 1
        /\ 1..(k + 1) # {} /\ (1..(k + 1)) \ {k + 1} = 1..k
    BY <2>1, LastOfInterval
  <2>3. q[k + 1] = k + 1
    BY <1>0
  <2> QED BY <1>3, <2>1, <2>2, <2>3
<1>6. g[n] = iter[1..n]
  BY <1>0
<1> DEFINE S == {k \in 0..n : g[k] \in X}
<1> HIDE DEF g
<1>7. \A k \in 0..n : k \in S
  <2>1. 0 \in S
    <3>1. g[0] \in X
      BY <1>0, <1>4
    <3> QED BY <1>0, <3>1
  <2>2. ASSUME NEW k \in 0..(n - 1), k \in S PROVE k + 1 \in S
    <3>1. g[k] \in X /\ k + 1 \in 0..n /\ k + 1 \in Users
      BY <1>0, <2>2 DEF Users
    <3> QED BY <1>5, <3>1, RecordTyped
  <2> HIDE DEF S
  <2> QED BY <1>0, <2>1, <2>2, UpTo
<1>8. g \in [0..n -> X]
  <2>1. \A k \in 0..n : g[k] \in X
    BY <1>7
  <2> QED BY <2>1 DEF g
<1>9. DumpRuns(g, db)
  BY <1>1, <1>4, <1>5, <1>6 DEF DumpRuns
<1> QED BY <1>8, <1>9

\* The users up to one.
Upto(db, u) == [n \in {m \in DOMAIN db : \E v \in 1..u : m = <<Name(v)>>} |-> db[n]]

LEMMA UptoNobody ==
  ASSUME NEW db
  PROVE  Upto(db, 0) = NoUsers
<1>1. {m \in DOMAIN db : \E v \in 1..0 : m = <<Name(v)>>} = {}
  OBVIOUS
<1>2. Upto(db, 0) = [n \in {} |-> db[n]]
  BY <1>1 DEF Upto
<1> QED BY <1>2 DEF NoUsers

LEMMA UptoNext ==
  ASSUME NEW db, IsDatabase(db), NEW u \in 0..(LastUser - 1)
  PROVE  Upto(db, u + 1) = IF Exists(db, u + 1)
                           THEN Assigned(Upto(db, u), <<Name(u + 1)>>, db[<<Name(u + 1)>>])
                           ELSE Upto(db, u)
<1> DEFINE these == {m \in DOMAIN db : \E v \in 1..u : m = <<Name(v)>>}
           those == {m \in DOMAIN db : \E v \in 1..(u + 1) : m = <<Name(v)>>}
           last == <<Name(u + 1)>>
<1>1. \A v : v \in 1..(u + 1) <=> v \in 1..u \/ v = u + 1
  BY UserDbAssumption
<1>2. those = IF last \in DOMAIN db THEN these \union {last} ELSE these
  BY <1>1
<1>3. /\ Upto(db, u) = [n \in these |-> db[n]] /\ Upto(db, u + 1) = [n \in those |-> db[n]]
      /\ Exists(db, u + 1) <=> last \in DOMAIN db
  BY DEF Upto, Exists
<1> HIDE DEF these, those, last
<1>4. [n \in these \union {last} |-> db[n]] = Assigned([n \in these |-> db[n]], last, db[last])
  BY DEF Assigned
<1> QED BY <1>2, <1>3, <1>4 DEF last

LEMMA UptoLast ==
  ASSUME NEW db, IsDatabase(db)
  PROVE  Upto(db, LastUser) = db
<1>1. {m \in DOMAIN db : \E v \in 1..LastUser : m = <<Name(v)>>} = DOMAIN db
  BY DEF IsDatabase, Names, Users
<1> QED BY <1>1 DEF Upto, IsDatabase

LEMMA UptoIsDatabase ==
  ASSUME NEW db, IsDatabase(db), NEW u
  PROVE  IsDatabase(Upto(db, u))
BY DEF IsDatabase, Upto, Exists

\* Whatever it is cut to, a dump says something of its users alone, and all of
\* it says what was dumped.
LEMMA DumpParses ==
  ASSUME NEW db, IsDatabase(db)
  PROVE  FineThroughout(Dump(db)) /\ Contents(Dump(db)) = db
<1>1. PICK h \in [0..LastUser -> Seq(Cells)] : DumpRuns(h, db)
  BY DumpTurns
<1> DEFINE S == {u \in 0..LastUser : /\ FineThroughout(h[u])
                                     /\ Parsed(h[u]) = Between(Upto(db, u))}
<1>2. 0 \in S
  <2>1. h[0] = <<>> /\ 0 \in 0..LastUser /\ <<>> \in Seq(Cells)
    BY <1>1, UserDbAssumption DEF DumpRuns
  <2>2. Parsed(<<>>) = Between(Upto(db, 0))
    BY ParsedNothing, UptoNobody DEF Beginning, Between
  <2>3. Contents(<<>>) = Upto(db, 0)
    BY <2>2 DEF Between, Contents
  <2>4. Fine(<<>>)
    BY <2>1, <2>3, UptoIsDatabase DEF Fine
  <2>5. FineThroughout(<<>>)
    <3>1. Cuts(<<>>) = {<<>>}
      <4>1. Len(<<>>) = 0 /\ 0..0 = {0} /\ 1..0 = {} /\ SubSeq(<<>>, 1, 0) = <<>>
        OBVIOUS
      <4> QED BY <4>1 DEF Cuts
    <3> QED BY <2>1, <2>4, <3>1 DEF FineThroughout
  <2> QED BY <2>1, <2>2, <2>5
<1>3. ASSUME NEW u \in 0..(LastUser - 1), u \in S PROVE u + 1 \in S
  <2>1. /\ FineThroughout(h[u]) /\ Parsed(h[u]) = Between(Upto(db, u))
        /\ u + 1 \in 0..LastUser /\ u + 1 \in Users
        /\ h[u + 1] = DumpTurn(db, h[u], u + 1)
    BY <1>1, <1>3, UserDbAssumption DEF DumpRuns, Users
  <2>2. IsDatabase(Upto(db, u))
    BY UptoIsDatabase
  <2>3. CASE Exists(db, u + 1)
    <3>1. db[<<Name(u + 1)>>] \in Own(u + 1)
      BY <2>1, <2>3 DEF IsDatabase
    <3>2. h[u + 1] = h[u] \o Record(db, u + 1)
      BY <2>1, <2>3 DEF DumpTurn
    <3>3. FineThroughout(h[u + 1])
      BY <2>1, <2>2, <3>1, <3>2, RecordParses
    <3>4. Parsed(h[u + 1])
            = Between(Assigned(Upto(db, u), <<Name(u + 1)>>, db[<<Name(u + 1)>>]))
      BY <2>1, <2>2, <3>1, <3>2, RecordParses
    <3> QED BY <2>1, <2>3, <3>3, <3>4, UptoNext
  <2>4. CASE ~Exists(db, u + 1)
    BY <2>1, <2>4, UptoNext DEF DumpTurn
  <2> QED BY <2>3, <2>4
<1>4. LastUser \in S
  <2>1. \A u \in 0..LastUser : u \in S
    <3> HIDE DEF S
    <3> QED BY <1>2, <1>3, UserDbAssumption, UpTo
  <2> QED BY <2>1, UserDbAssumption
<1>5. FineThroughout(Dump(db)) /\ Parsed(Dump(db)) = Between(db)
  BY <1>1, <1>4, UptoLast DEF DumpRuns
<1> QED BY <1>5 DEF Between, Contents

-----------------------------------------------------------------------------
(* What commits leave in the file.                                         *)

\* The file is what is left of a database that was written.
Sound == \E db : IsDatabase(db) /\ file \in Cuts(Dump(db))

\* What is written is a beginning of what a whole database is written as.
Committing(p) ==
  /\ IsDatabase(users[p]) /\ (~misread => users[p] = intended[p])
  /\ cursor[p] \in 0..Len(Dump(users[p]))
  /\ file \in Cuts(Dump(users[p]))
  /\ ~lost[p] => /\ offset[p] = cursor[p]
                 /\ file = SubSeq(Dump(users[p]), 1, cursor[p])

Working(p) == /\ stage[p] = "open" => IsDatabase(users[p])
              /\ stage[p] = "writing" => Committing(p)

Domains == /\ DOMAIN cursor = Processes /\ DOMAIN offset = Processes
           /\ lost \in [Processes -> BOOLEAN] /\ DOMAIN intended = Processes

FileInv ==
  /\ DbInv /\ Domains
  /\ ~unlocked /\ ~garbled => Sound /\ \A p \in Processes : Working(p)

LEMMA DumpTyped ==
  ASSUME NEW db, IsDatabase(db)
  PROVE  /\ Dump(db) \in Seq(Cells) /\ Contents(Dump(db)) = db
         /\ \A c \in Cuts(Dump(db)) : Fine(c)
BY DumpParses DEF FineThroughout

LEMMA SoundIsFine == ASSUME Sound, NEW cells \in Cuts(file) PROVE Fine(cells) /\ Fine(file)
<1>1. PICK db : IsDatabase(db) /\ file \in Cuts(Dump(db))
  BY DEF Sound
<1>2. Dump(db) \in Seq(Cells) /\ \A c \in Cuts(Dump(db)) : Fine(c)
  BY <1>1, DumpTyped
<1>3. cells \in Cuts(Dump(db))
  BY <1>1, <1>2, CutsOfCuts
<1> QED BY <1>1, <1>2, <1>3

LEMMA NothingIsSound == ASSUME file = <<>> PROVE Sound
<1>1. Dump(NoUsers) \in Seq(Cells) /\ IsDatabase(NoUsers)
  BY NobodyIsDatabase, DumpTyped
<1>2. SubSeq(Dump(NoUsers), 1, 0) \in Cuts(Dump(NoUsers))
  BY <1>1, CutsKeep
<1>3. SubSeq(Dump(NoUsers), 1, 0) = <<>>
  BY <1>1
<1> QED BY <1>1, <1>2, <1>3 DEF Sound

LEMMA FileInitInv == DbInit => FileInv
<1> SUFFICES ASSUME DbInit PROVE FileInv
  OBVIOUS
<1>1. DbInv
  BY DbInitInv
<1>2. file = <<>> /\ Domains /\ \A p \in Processes : stage[p] = "idle"
  BY DEF DbInit, Domains
<1>3. Sound
  BY <1>2, NothingIsSound
<1> QED BY <1>1, <1>2, <1>3 DEF FileInv, Working

\* Only p's session changes, and it is not, or no longer, in a commit.
LEMMA SessionKeepsFile ==
  ASSUME FileInv, DbInv', NEW p \in Processes, UNCHANGED <<file, unlocked, garbled>>,
         misread => misread', stage'[p] # "writing",
         ~unlocked /\ ~garbled /\ stage'[p] = "open" => IsDatabase(users'[p]),
         \A q \in Processes \ {p} : /\ stage'[q] = stage[q] /\ users'[q] = users[q]
                                    /\ cursor'[q] = cursor[q] /\ offset'[q] = offset[q]
                                    /\ lost'[q] = lost[q] /\ intended'[q] = intended[q],
         Domains'
  PROVE  FileInv'
<1>1. ASSUME ~unlocked, ~garbled PROVE Sound' /\ \A q \in Processes : Working(q)'
  <2>1. Sound'
    BY <1>1 DEF FileInv, Sound
  <2>2. Working(p)'
    BY <1>1 DEF Working
  <2>3. ASSUME NEW q \in Processes \ {p} PROVE Working(q)'
    <3>1. Working(q)
      BY <1>1 DEF FileInv
    <3> QED BY <3>1 DEF Working, Committing
  <2> QED BY <2>1, <2>2, <2>3
<1> QED BY <1>1 DEF FileInv

LEMMA CloseKeepsFile ==
  ASSUME FileInv, NEW p \in Processes, Close(p)
  PROVE  FileInv'
<1>1. DbInv'
  BY CloseKeeps DEF FileInv
<1>2. /\ stage'[p] = "idle" /\ Domains' /\ UNCHANGED <<file, unlocked, garbled, misread>>
      /\ \A q \in Processes \ {p} : /\ stage'[q] = stage[q] /\ users'[q] = users[q]
                                    /\ cursor'[q] = cursor[q] /\ offset'[q] = offset[q]
                                    /\ lost'[q] = lost[q] /\ intended'[q] = intended[q]
  BY DEF FileInv, Domains, DbInv, StateTypeOK, Close
<1> QED BY <1>1, <1>2, SessionKeepsFile

\* Whatever of the file is read is the dump of users with their own secrets.
LEMMA OpenKeepsFile ==
  ASSUME FileInv, DbInv', NEW p \in Processes, Open(p)
  PROVE  FileInv'
<1>1. PICK cells \in (IF Failures THEN Cuts(file) ELSE {file}) :
             /\ stage' = [stage EXCEPT ![p] = "open"]
             /\ users' = [users EXCEPT ![p] = Contents(cells)]
             /\ misread' = (misread \/ cells # file)
             /\ UNCHANGED <<file, garbled, cursor, offset, lost, intended>>
  BY DEF Open, ReadFile
<1>2. /\ stage'[p] = "open" /\ users'[p] = Contents(cells) /\ (misread => misread')
      /\ Domains' /\ UNCHANGED <<file, unlocked, garbled>>
      /\ \A q \in Processes \ {p} : /\ stage'[q] = stage[q] /\ users'[q] = users[q]
                                    /\ cursor'[q] = cursor[q] /\ offset'[q] = offset[q]
                                    /\ lost'[q] = lost[q] /\ intended'[q] = intended[q]
  BY <1>1 DEF FileInv, DbInv, StateTypeOK, Domains, Open
<1>3. ASSUME ~unlocked, ~garbled PROVE IsDatabase(users'[p])
  <2>1. Sound
    BY <1>3 DEF FileInv
  <2>2. PICK db : IsDatabase(db) /\ file \in Cuts(Dump(db))
    BY <2>1 DEF Sound
  <2>3. file \in Seq(Cells)
    BY <2>2, DumpTyped, CutsKeep
  <2>4. cells \in Cuts(file)
    BY <1>1, <2>3, CutsKeep
  <2>5. Fine(cells)
    BY <2>1, <2>4, SoundIsFine
  <2> QED BY <1>2, <2>5 DEF Fine
<1> QED BY <1>2, <1>3, SessionKeepsFile

LEMMA BeginCommitKeepsFile ==
  ASSUME FileInv, NEW p \in Processes, HasFd(p), NEW changed, NEW intent,
         BeginCommit(p, changed, intent),
         IsDatabase(users[p]) => IsDatabase(changed),
         users[p] = Contents(file) => changed = intent
  PROVE  FileInv'
<1>1. DbInv'
  BY BeginCommitKeeps DEF FileInv
<1>2. /\ file' \in Truncated(file) /\ garbled' = (garbled \/ file' # <<>>)
      /\ stage'[p] = "writing" /\ users'[p] = changed
      /\ cursor'[p] = 0 /\ offset'[p] = 0 /\ intended'[p] = intent
      /\ Domains' /\ misread' = misread
      /\ unlocked' = (unlocked \/ stage[p] = "refused")
      /\ \A q \in Processes \ {p} : stage'[q] = stage[q]
  BY DEF FileInv, DbInv, StateTypeOK, Domains, BeginCommit
<1>3. ASSUME ~unlocked', ~garbled' PROVE Sound' /\ \A q \in Processes : Working(q)'
  <2>1. ~unlocked /\ stage[p] = "open" /\ ~garbled /\ file' = <<>>
    BY <1>2, <1>3 DEF HasFd
  <2>2. IsDatabase(users[p]) /\ (~misread => users[p] = Contents(file))
    BY <2>1 DEF FileInv, DbInv, UpToDate, Working
  <2>3. IsDatabase(changed) /\ (~misread => changed = intent)
    BY <2>2
  <2>4. Dump(changed) \in Seq(Cells)
    BY <2>3, DumpTyped
  <2>5. /\ SubSeq(Dump(changed), 1, 0) = <<>> /\ 0 \in 0..Len(Dump(changed))
        /\ <<>> \in Cuts(Dump(changed))
    <3> DEFINE text == Dump(changed)
    <3> HIDE DEF text
    <3>1. SubSeq(text, 1, 0) = <<>> /\ 0 \in 0..Len(text)
      BY <2>4 DEF text
    <3>2. <<>> \in Cuts(text)
      BY <2>4, <3>1, CutsKeep DEF text
    <3> QED BY <3>1, <3>2 DEF text
  <2>6. \A q \in Processes \ {p} : stage'[q] \notin {"open", "writing"}
    BY <1>2, <2>1, NobodyElse DEF FileInv
  <2>7. Committing(p)'
    BY <1>2, <2>1, <2>3, <2>5 DEF Committing
  <2>8. Sound'
    BY <2>1, <2>3, <2>5 DEF Sound
  <2>9. Working(p)'
    BY <1>2, <2>7 DEF Working
  <2>10. \A q \in Processes \ {p} : Working(q)'
    BY <2>6 DEF Working
  <2> QED BY <2>8, <2>9, <2>10
<1> QED BY <1>1, <1>2, <1>3 DEF FileInv

\* A write() at the end of the file.
LEMMA WriteAppends ==
  ASSUME NEW text \in Seq(Cells), NEW k \in Nat, k < Len(text), NEW w \in Cells
  PROVE  /\ WriteAt(SubSeq(text, 1, k), k, w) = Append(SubSeq(text, 1, k), w)
         /\ Append(SubSeq(text, 1, k), text[k + 1]) = SubSeq(text, 1, k + 1)
         /\ k + 1 \in 1..Len(text)
<1>1. Len(text) \in Nat /\ k + 1 \in 1..Len(text) /\ text[k + 1] \in Cells
  OBVIOUS
<1>2. PICK b : b = SubSeq(text, 1, k)
  OBVIOUS
<1>3. b \in Seq(Cells) /\ Len(b) = k /\ \A i \in 1..k : b[i] = text[i]
  BY <1>1, <1>2
<1>4. WriteAt(b, k, w) = [i \in 1..(k + 1) |-> IF i = k + 1 THEN w
                                               ELSE IF i > k THEN Hole ELSE b[i]]
  BY <1>3 DEF WriteAt
<1>5. PICK c : c = Append(b, w)
  OBVIOUS
<1>6. WriteAt(b, k, w) = c
  <2>1. /\ c \in Seq(Cells) /\ Len(c) = k + 1 /\ c[k + 1] = w
        /\ \A i \in 1..k : c[i] = b[i]
    BY <1>3, <1>5
  <2>2. \A i \in 1..(k + 1) : (IF i = k + 1 THEN w ELSE IF i > k THEN Hole ELSE b[i]) = c[i]
    BY <2>1
  <2>3. c = [i \in 1..(k + 1) |-> c[i]]
    BY <2>1
  <2> QED BY <1>4, <2>2, <2>3
<1>7. Append(b, text[k + 1]) = SubSeq(text, 1, k + 1)
  <2>1. PICK e : e = SubSeq(text, 1, k + 1)
    OBVIOUS
  <2>2. e \in Seq(Cells) /\ Len(e) = k + 1 /\ \A i \in 1..(k + 1) : e[i] = text[i]
    BY <1>1, <2>1
  <2>3. PICK d : d = Append(b, text[k + 1])
    OBVIOUS
  <2>4. /\ d \in Seq(Cells) /\ Len(d) = k + 1 /\ d[k + 1] = text[k + 1]
        /\ \A i \in 1..k : d[i] = b[i]
    BY <1>1, <1>3, <2>3
  <2>5. \A i \in 1..(k + 1) : d[i] = text[i]
    BY <1>3, <2>4
  <2>6. e = d
    BY <2>2, <2>4, <2>5
  <2> QED BY <2>1, <2>3, <2>6
<1> QED BY <1>1, <1>2, <1>5, <1>6, <1>7

\* What a write() leaves, while none before it failed.
LEMMA WriteCuts ==
  ASSUME NEW text \in Seq(Cells), NEW k \in Nat, k < Len(text),
         file = SubSeq(text, 1, k), NEW w \in {text[k + 1], Part(text[k + 1])}
  PROVE  /\ WriteAt(file, k, w) \in Cuts(text)
         /\ w = text[k + 1] => WriteAt(file, k, w) = SubSeq(text, 1, k + 1)
<1>1. k + 1 \in 1..Len(text) /\ text[k + 1] \in Cells /\ w \in Cells /\ k + 1 \in 0..Len(text)
  BY PartOnce
<1>2. /\ WriteAt(file, k, w) = Append(SubSeq(text, 1, k), w)
      /\ Append(SubSeq(text, 1, k), text[k + 1]) = SubSeq(text, 1, k + 1)
  BY <1>1, WriteAppends
<1>3. CASE w = text[k + 1]
  BY <1>1, <1>2, <1>3, CutsKeep
<1>4. CASE w = Part(text[k + 1])
  <2>1. PICK n \in 1..Len(text) : n = k + 1 /\ n - 1 = k
    BY <1>1
  <2>2. WriteAt(file, k, w) = Append(SubSeq(text, 1, n - 1), Part(text[n]))
    BY <1>2, <1>4, <2>1
  <2>3. WriteAt(file, k, w) \in Cuts(text)
    BY <2>2 DEF Cuts
  <2> QED BY <1>2, <2>3
<1> QED BY <1>3, <1>4

LEMMA WriteKeepsFile ==
  ASSUME FileInv, NEW p \in Processes, Write(p)
  PROVE  FileInv'
<1> DEFINE text == Dump(users[p])
           k == cursor[p]
           cell == text[k + 1]
<1>1. DbInv'
  BY WriteKeeps DEF FileInv
<1>2. /\ stage[p] = "writing" /\ UNCHANGED <<lock, stage, users, intended, unlocked, misread>>
      /\ k < Len(text) /\ cursor' = [cursor EXCEPT ![p] = @ + 1]
  BY DEF Write
<1>3. \/ \E w \in {cell, Part(cell)} :
           /\ file' = WriteAt(file, offset[p], w)
           /\ offset' = [offset EXCEPT ![p] = @ + 1]
           /\ lost' = [lost EXCEPT ![p] = @ \/ w # cell]
           /\ garbled' = (garbled \/ lost[p])
      \/ lost' = [lost EXCEPT ![p] = TRUE] /\ UNCHANGED <<file, offset, garbled>>
  BY DEF Write
<1>4. Domains' /\ cursor'[p] = k + 1
  BY <1>2, <1>3 DEF FileInv, Domains
<1>5. ASSUME ~unlocked, ~garbled' PROVE Sound' /\ \A q \in Processes : Working(q)'
  <2>1. ~garbled
    BY <1>3, <1>5 DEF FileInv, DbInv, StateTypeOK
  <2>2. Committing(p)
    BY <1>2, <1>5, <2>1 DEF FileInv, Working
  <2>3. text \in Seq(Cells) /\ k \in Nat /\ k + 1 \in 0..Len(text)
    <3>1. text \in Seq(Cells) /\ k \in 0..Len(text)
      BY <2>2, DumpTyped DEF Committing
    <3> HIDE DEF text, k
    <3> QED BY <1>2, <3>1
  <2>4. file' \in Cuts(text) /\ (~lost'[p] => /\ offset'[p] = k + 1
                                              /\ file' = SubSeq(text, 1, k + 1))
    <3>1. ASSUME NEW w \in {cell, Part(cell)},
                 file' = WriteAt(file, offset[p], w),
                 offset' = [offset EXCEPT ![p] = @ + 1],
                 lost' = [lost EXCEPT ![p] = @ \/ w # cell],
                 garbled' = (garbled \/ lost[p])
          PROVE  file' \in Cuts(text) /\ (~lost'[p] => /\ offset'[p] = k + 1
                                                       /\ file' = SubSeq(text, 1, k + 1))
      <4>1. ~lost[p]
        BY <1>5, <3>1 DEF FileInv, DbInv, StateTypeOK, Domains
      <4>2. offset[p] = k /\ file = SubSeq(text, 1, k)
        BY <2>2, <4>1 DEF Committing
      <4>3. ~lost'[p] => w = cell
        BY <3>1 DEF FileInv, Domains
      <4>4. offset'[p] = k + 1
        BY <3>1, <4>2 DEF FileInv, Domains
      <4> HIDE DEF text, k
      <4>5. /\ WriteAt(file, k, w) \in Cuts(text)
            /\ w = cell => WriteAt(file, k, w) = SubSeq(text, 1, k + 1)
        BY <1>2, <2>3, <3>1, <4>2, WriteCuts
      <4> QED BY <3>1, <4>2, <4>3, <4>4, <4>5
    <3>2. CASE lost' = [lost EXCEPT ![p] = TRUE] /\ UNCHANGED <<file, offset, garbled>>
      BY <2>2, <3>2 DEF Committing, FileInv, Domains
    <3> QED BY <1>3, <3>1, <3>2
  <2>5. Committing(p)'
    <3>1. IsDatabase(users[p]) /\ (~misread => users[p] = intended[p])
      BY <2>2 DEF Committing
    <3> QED BY <1>2, <1>4, <2>3, <2>4, <3>1 DEF Committing
  <2>6. Sound'
    BY <2>2, <2>4 DEF Committing, Sound
  <2>7. \A q \in Processes \ {p} : stage[q] \notin {"open", "writing"}
    BY <1>2, <1>5, NobodyElse DEF FileInv
  <2>8. Working(p)'
    BY <1>2, <2>5 DEF Working
  <2>9. \A q \in Processes \ {p} : Working(q)'
    BY <1>2, <2>7 DEF Working
  <2> QED BY <2>6, <2>8, <2>9
<1> QED BY <1>1, <1>2, <1>4, <1>5 DEF FileInv

LEMMA FileNextInv == FileInv /\ [DbNext]_dbVars => FileInv'
<1> SUFFICES ASSUME FileInv, [DbNext]_dbVars PROVE FileInv'
  OBVIOUS
<1>0. DbInv'
  BY DbNextInv DEF FileInv
<1>1. CASE UNCHANGED dbVars
  <2>1. Domains'
    BY <1>1 DEF dbVars, fileVars, FileInv, Domains
  <2>2. Sound => Sound'
    BY <1>1 DEF dbVars, fileVars, Sound
  <2>3. \A p \in Processes : Working(p) => Working(p)'
    BY <1>1 DEF dbVars, fileVars, Working, Committing
  <2>4. UNCHANGED <<unlocked, garbled>>
    BY <1>1 DEF dbVars, fileVars
  <2> QED BY <1>0, <2>1, <2>2, <2>3, <2>4 DEF FileInv
<1>2. ASSUME NEW p \in Processes, ChangeFails(p) \/ GetUser(p) \/ EndCommit(p) \/ Crash(p)
      PROVE  FileInv'
  BY <1>2, CloseKeepsFile DEF ChangeFails, GetUser, EndCommit, Crash
<1>3. ASSUME NEW p \in Processes, OpenRefused(p) PROVE FileInv'
  <2>1. /\ stage'[p] = "refused" /\ Domains' /\ UNCHANGED <<file, unlocked, garbled, misread>>
        /\ \A q \in Processes \ {p} : /\ stage'[q] = stage[q] /\ users'[q] = users[q]
                                      /\ cursor'[q] = cursor[q] /\ offset'[q] = offset[q]
                                      /\ lost'[q] = lost[q] /\ intended'[q] = intended[q]
    BY <1>3 DEF FileInv, DbInv, StateTypeOK, Domains, OpenRefused, fileVars
  <2> QED BY <1>0, <2>1, SessionKeepsFile
<1>4. ASSUME NEW p \in Processes, OpenUnlocked(p) PROVE FileInv'
  BY <1>0, <1>4 DEF FileInv, Domains, OpenUnlocked, ReadFile
<1>5. ASSUME NEW p \in Processes, NEW u \in Users, AddUser(p, u) PROVE FileInv'
  <2>1. IsDatabase(users[p]) => IsDatabase(Added(users[p], u))
    BY AssignedIsDatabase DEF Added, Own
  <2> QED BY <1>5, <2>1, BeginCommitKeepsFile DEF AddUser
<1>6. ASSUME NEW p \in Processes, NEW u \in Users, DelUser(p, u) PROVE FileInv'
  BY <1>6, RemovedIsDatabase, BeginCommitKeepsFile DEF DelUser
<1> QED BY <1>0, <1>1, <1>2, <1>3, <1>4, <1>5, <1>6, OpenKeepsFile, WriteKeepsFile DEF DbNext

\* Whoever is found in the file is found with his own secret, a part of it or
\* none, as long as nobody writes without the lock and no commit writes on
\* after an error: no cut and no short read makes one record of two.
THEOREM SecretsAreOwn == DbSpec => []OwnSecrets
<1>1. FileInv => OwnSecrets
  <2> SUFFICES ASSUME FileInv, ~unlocked, ~garbled, NEW n \in DOMAIN Contents(file)
               PROVE  \E u \in Users :
                        /\ n = <<Name(u)>>
                        /\ Contents(file)[n] \in {<<>>, <<Secret(u)>>, <<Part(Secret(u))>>}
    BY DEF OwnSecrets
  <2>1. PICK db : IsDatabase(db) /\ file \in Cuts(Dump(db))
    BY DEF FileInv, Sound
  <2>2. IsDatabase(Contents(file))
    BY <2>1, DumpTyped DEF Fine
  <2>3. PICK u \in Users : n = <<Name(u)>>
    BY <2>2 DEF IsDatabase, Names
  <2> QED BY <2>2, <2>3 DEF IsDatabase, Exists, Own
<1> QED BY <1>1, FileInitInv, FileNextInv, PTL DEF DbSpec

\* A commit that was killed, or found no more space, has left a beginning of
\* what the change should have made of the file, and one that lost nothing has
\* left all of it, as long as no process went on after an error of another kind.
THEOREM CommitsArePrefixes == DbSpec => []CutIsPrefix
<1>1. FileInv => CutIsPrefix
  <2> SUFFICES ASSUME FileInv, NEW p \in Processes, stage[p] = "writing", ~unlocked,
                      ~misread, ~garbled
               PROVE  /\ file \in Cuts(Dump(intended[p]))
                      /\ cursor[p] = Len(Dump(users[p])) /\ ~lost[p] =>
                           Contents(file) = intended[p]
    BY DEF CutIsPrefix
  <2> DEFINE text == Dump(users[p])
             k == cursor[p]
  <2>1. Committing(p)
    BY DEF FileInv, Working
  <2>2. users[p] = intended[p] /\ IsDatabase(users[p]) /\ file \in Cuts(text)
    BY <2>1 DEF Committing
  <2>3. text \in Seq(Cells) /\ Contents(text) = users[p]
    BY <2>2, DumpTyped
  <2>4. ASSUME k = Len(text), ~lost[p] PROVE Contents(file) = intended[p]
    <3>1. file = SubSeq(text, 1, k)
      BY <2>1, <2>4 DEF Committing
    <3>2. SubSeq(text, 1, Len(text)) = text
      <4> HIDE DEF text
      <4> QED BY <2>3
    <3>3. file = text
      BY <2>4, <3>1, <3>2
    <3> QED BY <2>2, <2>3, <3>3
  <2> QED BY <2>2, <2>4
<1> QED BY <1>1, FileInitInv, FileNextInv, PTL DEF DbSpec

-----------------------------------------------------------------------------
(* The kernel's answers.                                                   *)

Requests == LinkChanges \union AddressChanges \union RouteChanges \union {GetRoutes}

\* The nth answer is about the nth request.
Answered == IF chat.op = "none" THEN seq ELSE seq - 1

Typed ==
  /\ seq \in Nat /\ Answered \in Nat
  /\ answers \in Seq(BOOLEAN) /\ Len(answers) = Answered
  /\ performed \subseteq 1..seq
  /\ config \in [up : BOOLEAN, addresses : SUBSET {Address},
                 routes : SUBSET SomeRoutes]
  /\ chat \in Requests \union {NoChat}
  /\ plan \in [requests : Seq(Requests), stops : BOOLEAN]

True == \A n \in DOMAIN answers : answers[n] <=> n \in performed

Quiet == replies = <<>> /\ received = <<>> /\ entries = {}

\* The kernel has refused the request, or done what was to be done.
Acknowledged ==
  \E refused \in BOOLEAN :
    /\ replies = <<<<Acknowledgement(refused)>>>> /\ received = <<>> /\ entries = {}
    /\ refused <=> seq \notin performed
    /\ chat.op = "GetRoutes" => refused

\* The two datagrams of the table, and how far Chat has come with them.
Earlier(cut) == Listing(cut)[1]
Later(cut) == Listing(cut)[2]

ListingCut(cut) ==
  \/ replies = Listing(cut) /\ received = <<>> /\ entries = {}
  \/ replies = <<Later(cut)>> /\ received = Earlier(cut) /\ entries = {}
  \/ /\ replies = <<Later(cut)>> /\ received = <<>>
     /\ entries = AddRoutingEntries(Earlier(cut))
  \* Recv waits for a third.
  \/ replies = <<>>

Listed == /\ chat.op = "GetRoutes" /\ seq \in performed
          /\ \E cut \in 0..Cardinality(config.routes) : ListingCut(cut)

\* A request that did not get to the kernel is one nobody answers.
Unsent == Quiet /\ seq \notin performed

Conversation ==
  IF chat.op = "none" THEN Quiet ELSE Unsent \/ Acknowledged \/ Listed

\* What GetRoutes is to return of a route: a default route through a device
\* has no destination.
Shown(r) == IF r = [dst |-> Default, gateway |-> Nothing]
            THEN [r EXCEPT !.dst = Nothing] ELSE r

ListedAll == listed.returned = {Shown(r) : r \in listed.wanted}

ChatInv == ~missed => Typed /\ True /\ Conversation /\ ListedAll

-----------------------------------------------------------------------------
(* The operators.                                                          *)

\* A finite set is listed to the last element.
LEMMA SetToSeqOnto ==
  ASSUME NEW R, IsFiniteSet(R)
  PROVE  /\ Cardinality(R) \in Nat
         /\ SetToSeq(R) \in [1..Cardinality(R) -> R]
         /\ \A r \in R : \E i \in 1..Cardinality(R) : SetToSeq(R)[i] = r
<1> DEFINE n == Cardinality(R)
           f == SetToSeq(R)
<1>1. n \in Nat /\ ExistsBijection(1..n, R)
  BY FS_CardinalityType
<1>2. f \in [1..n -> R] /\ IsInjective(f)
  <2>1. \E g \in [1..n -> R] : IsInjective(g)
    BY <1>1 DEF ExistsBijection, Bijection, Injection
  <2> QED BY <2>1 DEF SetToSeq
<1>3. Cardinality(1..n) = n
  <2> HIDE DEF n
  <2>1. n \in Int /\ 1 \in Int
    BY <1>1
  <2>2. Cardinality(1..n) = IF 1 > n THEN 0 ELSE n - 1 + 1
    BY <2>1, FS_Interval
  <2> QED BY <1>1, <2>2
<1> HIDE DEF n, f
<1>4. f \in Injection(1..n, R)
  BY <1>2 DEF Injection
<1>5. f \in Surjection(1..n, R)
  BY <1>3, <1>4, FS_Injection DEF n
<1> QED BY <1>1, <1>2, <1>5 DEF Surjection, n, f

Rows == {NewRoute(r) : r \in SomeRoutes}
Lines == Rows \union {Done}

LEMMA LineTypes ==
  /\ \A m \in Rows : m.type = "RTM_NEWROUTE"
  /\ Done.type = "NLMSG_DONE"
  /\ \A m \in Lines : m.type # "NLMSG_ERROR"
BY DEF Rows, Lines, NewRoute, Done

LEMMA RowsSayNothing ==
  ASSUME NEW q \in Seq(Rows)
  PROVE  ParseReply(q) = "MORE"
<1>1. \A i \in DOMAIN q : q[i] \in Rows
  OBVIOUS
<1>2. Errors(q) = {}
  BY <1>1, LineTypes DEF Errors
<1> QED BY <1>1, <1>2, LineTypes DEF ParseReply

LEMMA DoneIsOK ==
  ASSUME NEW q \in Seq(Lines), NEW n \in DOMAIN q, q[n] = Done
  PROVE  ParseReply(q) = "OK"
<1>1. Errors(q) = {}
  BY LineTypes DEF Errors
<1> QED BY <1>1, LineTypes DEF ParseReply

LEMMA AcknowledgementSettles ==
  ASSUME NEW e \in BOOLEAN
  PROVE  ParseReply(<<Acknowledgement(e)>>) = IF e THEN "ERROR" ELSE "OK"
<1> DEFINE q == <<Acknowledgement(e)>>
<1>1. DOMAIN q = {1} /\ q[1] = Acknowledgement(e)
  OBVIOUS
<1> HIDE DEF q
<1>2. Errors(q) = {1}
  BY <1>1 DEF Errors, Acknowledgement
<1>3. Max({1}) = 1
  BY DEF Max
<1> QED BY <1>1, <1>2, <1>3 DEF ParseReply, ParseErrorHeader, Acknowledgement, q

LEMMA RoutesAreShown ==
  ASSUME NEW r \in SomeRoutes
  PROVE  NewRoute(r) \in Rows /\ RoutingEntry(NewRoute(r)) = Shown(r)
<1>1. NewRoute(r) = [type |-> "RTM_NEWROUTE", gateway |-> r.gateway,
                     dst |-> IF r.dst = Default THEN Nothing ELSE r.dst]
  BY DEF NewRoute
<1>2. /\ r = [dst |-> r.dst, gateway |-> r.gateway]
      /\ r.dst # Default => r.gateway = Nothing
  BY DEF SomeRoutes
<1>3. RoutingEntry(NewRoute(r)) =
        [gateway |-> r.gateway,
         dst |-> IF r.dst = Default
                 THEN IF r.gateway # Nothing THEN Default ELSE Nothing
                 ELSE r.dst]
  BY <1>1, <1>2 DEF RoutingEntry
<1>4. Shown(r) = [dst |-> IF r.dst = Default
                        THEN IF r.gateway # Nothing THEN Default ELSE Nothing
                        ELSE r.dst,
                  gateway |-> r.gateway]
  <2>1. CASE r = [dst |-> Default, gateway |-> Nothing]
    <3>1. Shown(r) = [r EXCEPT !.dst = Nothing]
      BY <2>1 DEF Shown
    <3>2. [[dst |-> Default, gateway |-> Nothing] EXCEPT !.dst = Nothing] =
            [dst |-> Nothing, gateway |-> Nothing]
      OBVIOUS
    <3>3. r.dst = Default /\ r.gateway = Nothing
      BY <2>1
    <3> QED BY <2>1, <3>1, <3>2, <3>3
  <2>2. CASE r # [dst |-> Default, gateway |-> Nothing]
    <3>1. Shown(r) = r
      BY <2>2 DEF Shown
    <3>2. r.dst = Default => r.gateway # Nothing
      BY <1>2, <2>2
    <3> QED BY <1>2, <3>1, <3>2
  <2> QED BY <2>1, <2>2
<1>5. NewRoute(r) \in Rows
  BY DEF Rows
<1>6. \A g, d : [gateway |-> g, dst |-> d] = [dst |-> d, gateway |-> g]
  OBVIOUS
<1> QED BY <1>3, <1>4, <1>5, <1>6

LEMMA EntriesOf ==
  ASSUME NEW a \in Seq(Lines), NEW b \in Seq(Lines)
  PROVE  AddRoutingEntries(a \o b) = AddRoutingEntries(a) \union AddRoutingEntries(b)
<1>1. /\ a \o b \in Seq(Lines) /\ Len(a \o b) = Len(a) + Len(b)
      /\ \A i \in 1..Len(a) : (a \o b)[i] = a[i]
      /\ \A i \in 1..Len(b) : (a \o b)[Len(a) + i] = b[i]
      /\ Len(a) \in Nat /\ Len(b) \in Nat
      /\ DOMAIN a = 1..Len(a) /\ DOMAIN b = 1..Len(b)
      /\ DOMAIN (a \o b) = 1..Len(a \o b)
  OBVIOUS
<1> DEFINE c == a \o b
           rows(q) == {j \in DOMAIN q : q[j].type = "RTM_NEWROUTE"}
<1> HIDE DEF c
<1>2. ASSUME NEW i \in rows(c)
      PROVE  \/ \E j \in rows(a) : c[i] = a[j]
             \/ \E j \in rows(b) : c[i] = b[j]
  <2>1. CASE i <= Len(a)
    BY <1>1, <2>1 DEF c
  <2>2. CASE i > Len(a)
    <3>1. i - Len(a) \in 1..Len(b) /\ Len(a) + (i - Len(a)) = i
      BY <1>1, <2>2 DEF c
    <3> QED BY <1>1, <3>1 DEF c
  <2> QED BY <1>1, <2>1, <2>2 DEF c
<1>3. ASSUME NEW j \in rows(a) PROVE j \in rows(c) /\ c[j] = a[j]
  BY <1>1 DEF c
<1>4. ASSUME NEW j \in rows(b)
      PROVE  Len(a) + j \in rows(c) /\ c[Len(a) + j] = b[j]
  BY <1>1 DEF c
<1> DEFINE shown(q) == {RoutingEntry(q[i]) : i \in rows(q)}
<1> HIDE DEF rows
<1>5. shown(c) \subseteq shown(a) \union shown(b)
  BY <1>2
<1>6. shown(a) \subseteq shown(c) /\ shown(b) \subseteq shown(c)
  BY <1>3, <1>4
<1>7. shown(c) = shown(a) \union shown(b)
  BY <1>5, <1>6, Zenon
<1>8. \A q : AddRoutingEntries(q) = shown(q)
  BY DEF AddRoutingEntries, rows
<1> QED BY <1>7, <1>8, Zenon DEF c

\* The two datagrams of a dump.
LEMMA ListingIs ==
  ASSUME config.routes \subseteq SomeRoutes, NEW cut \in 0..Cardinality(config.routes)
  PROVE  /\ Listing(cut) = <<Earlier(cut), Later(cut)>>
         /\ Earlier(cut) \in Seq(Rows) /\ Later(cut) \in Seq(Lines)
         /\ \E n \in DOMAIN Later(cut) : Later(cut)[n] = Done
         /\ AddRoutingEntries(Earlier(cut)) \union AddRoutingEntries(Later(cut)) =
              {Shown(r) : r \in config.routes}
<1> DEFINE R == config.routes
           n == Cardinality(R)
           f == SetToSeq(R)
           rows == [i \in 1..n |-> NewRoute(f[i])]
           a == SubSeq(rows, 1, cut)
           b == SubSeq(rows, cut + 1, Len(rows))
<1>1. IsFiniteSet(R)
  <2>1. IsFiniteSet({[dst |-> d, gateway |-> Nothing] : d \in Networks})
    <3> DEFINE T == {[dst |-> d, gateway |-> Nothing] : d \in Networks}
               g == [d \in Networks |-> [dst |-> d, gateway |-> Nothing]]
    <3>1. g \in Surjection(Networks, T)
      BY DEF Surjection
    <3> HIDE DEF g, T
    <3>2. IsFiniteSet(T)
      BY <3>1, NetworksAssumption, FS_Surjection
    <3> QED BY <3>2 DEF T
  <2>2. IsFiniteSet([dst : {Default}, gateway : {Gateway, Nothing}])
    <3>1. [dst : {Default}, gateway : {Gateway, Nothing}] =
            {[dst |-> Default, gateway |-> Gateway]} \union
              {[dst |-> Default, gateway |-> Nothing]}
      <4>1. \A x \in [dst : {Default}, gateway : {Gateway, Nothing}] :
              \/ x = [dst |-> Default, gateway |-> Gateway]
              \/ x = [dst |-> Default, gateway |-> Nothing]
        OBVIOUS
      <4>2. /\ [dst |-> Default, gateway |-> Gateway]
                 \in [dst : {Default}, gateway : {Gateway, Nothing}]
            /\ [dst |-> Default, gateway |-> Nothing]
                 \in [dst : {Default}, gateway : {Gateway, Nothing}]
        OBVIOUS
      <4> QED BY <4>1, <4>2, Zenon
    <3>2. /\ IsFiniteSet({[dst |-> Default, gateway |-> Gateway]})
          /\ IsFiniteSet({[dst |-> Default, gateway |-> Nothing]})
      BY FS_Singleton
    <3>3. IsFiniteSet({[dst |-> Default, gateway |-> Gateway]} \union
                        {[dst |-> Default, gateway |-> Nothing]})
      BY <3>2, FS_Union
    <3> QED BY <3>1, <3>3, Zenon
  <2>3. IsFiniteSet(SomeRoutes)
    BY <2>1, <2>2, FS_Union DEF SomeRoutes
  <2> QED BY <2>3, FS_Subset
<1>2. /\ n \in Nat /\ f \in [1..n -> R]
      /\ \A r \in R : \E i \in 1..n : f[i] = r
  BY <1>1, SetToSeqOnto
<1> HIDE DEF R, n, f
<1>3. /\ rows \in Seq(Rows) /\ Len(rows) = n
      /\ \A i \in 1..n : rows[i] = NewRoute(f[i])
      /\ \A i \in 1..n : f[i] \in SomeRoutes
  <2>1. \A i \in 1..n : f[i] \in SomeRoutes
    BY <1>2 DEF R
  <2>2. \A i \in 1..n : NewRoute(f[i]) \in Rows
    BY <2>1, RoutesAreShown
  <2>3. rows \in [1..n -> Rows]
    BY <2>2
  <2> QED BY <1>2, <2>1, <2>3
<1>4. Listing(cut) = <<a, Append(b, Done)>>
  BY DEF Listing, R, n, f
<1> HIDE DEF rows
<1>5. cut \in Nat /\ cut <= n
  BY <1>2 DEF n, R
<1>6. /\ a \in Seq(Rows) /\ Len(a) = cut
      /\ \A i \in 1..cut : a[i] = rows[i]
  BY <1>2, <1>3, <1>5
<1>7. /\ b \in Seq(Rows) /\ Len(b) = n - cut
      /\ \A i \in 1..(n - cut) : b[i] = rows[cut + i]
  <2>1. CASE cut < n
    BY <1>2, <1>3, <1>5, <2>1
  <2>2. CASE cut = n
    <3>1. b = <<>> /\ n - cut = 0
      BY <1>2, <1>3, <1>5, <2>2
    <3>2. 1..(n - cut) = {}
      BY <3>1
    <3> HIDE DEF b
    <3> QED BY <3>1, <3>2
  <2>3. cut < n \/ cut = n
    BY <1>2, <1>5
  <2> HIDE DEF b
  <2> QED BY <2>1, <2>2, <2>3
<1> HIDE DEF a, b
<1>8. Earlier(cut) = a /\ Later(cut) = Append(b, Done)
  BY <1>4 DEF Earlier, Later
<1>9. /\ Append(b, Done) \in Seq(Lines) /\ Len(Append(b, Done)) = n - cut + 1
      /\ \A i \in 1..(n - cut) : Append(b, Done)[i] = b[i]
      /\ Append(b, Done)[n - cut + 1] = Done
      /\ n - cut \in Nat
  <2>1. n - cut \in Nat /\ Rows \subseteq Lines /\ Done \in Lines
    BY <1>2, <1>5 DEF Lines
  <2>2. b \in Seq(Lines)
    BY <1>7, <2>1
  <2> QED BY <1>7, <2>1, <2>2
<1> DEFINE c == Append(b, Done)
<1> HIDE DEF c
<1>10. /\ DOMAIN c = 1..(n - cut + 1) /\ c[n - cut + 1] = Done
       /\ DOMAIN a = 1..cut
  BY <1>6, <1>9 DEF c
<1>11. AddRoutingEntries(a) = {Shown(f[i]) : i \in 1..cut}
  <2>1. \A i \in 1..cut : i \in 1..n
    BY <1>2, <1>5
  <2>2. \A i \in 1..cut : a[i].type = "RTM_NEWROUTE" /\ RoutingEntry(a[i]) = Shown(f[i])
    BY <1>3, <1>6, <2>1, RoutesAreShown, LineTypes
  <2> QED BY <1>10, <2>2 DEF AddRoutingEntries
<1>12. AddRoutingEntries(c) = {Shown(f[cut + i]) : i \in 1..(n - cut)}
  <2>1. \A i \in 1..(n - cut) : cut + i \in 1..n
    BY <1>2, <1>5
  <2>2. \A i \in 1..(n - cut) :
          c[i].type = "RTM_NEWROUTE" /\ RoutingEntry(c[i]) = Shown(f[cut + i])
    BY <1>3, <1>7, <1>9, <2>1, RoutesAreShown, LineTypes DEF c
  <2>3. c[n - cut + 1].type # "RTM_NEWROUTE"
    BY <1>10, LineTypes
  <2>4. \A i \in DOMAIN c : i \in 1..(n - cut) \/ i = n - cut + 1
    BY <1>9, <1>10
  <2>5. \A i \in 1..(n - cut) : i \in DOMAIN c
    BY <1>9, <1>10
  <2>6. {j \in DOMAIN c : c[j].type = "RTM_NEWROUTE"} = 1..(n - cut)
    BY <2>2, <2>3, <2>4, <2>5
  <2> QED BY <2>2, <2>6 DEF AddRoutingEntries
<1>13. \A i \in 1..n : i \in 1..cut \/ (i - cut \in 1..(n - cut) /\ cut + (i - cut) = i)
  BY <1>2, <1>5
<1>14. \A i \in 1..(n - cut) : cut + i \in 1..n
  BY <1>2, <1>5
<1>15. AddRoutingEntries(a) \union AddRoutingEntries(c) = {Shown(r) : r \in R}
  <2>1. ASSUME NEW r \in R
        PROVE  Shown(r) \in AddRoutingEntries(a) \union AddRoutingEntries(c)
    <3>1. PICK i \in 1..n : f[i] = r
      BY <1>2
    <3>2. CASE i \in 1..cut
      BY <1>11, <3>1, <3>2
    <3>3. CASE i \notin 1..cut
      <4>1. i - cut \in 1..(n - cut) /\ cut + (i - cut) = i
        BY <1>13, <3>3
      <4>2. Shown(f[cut + (i - cut)]) \in AddRoutingEntries(c)
        BY <1>12, <4>1
      <4> QED BY <3>1, <4>1, <4>2
    <3> QED BY <3>2, <3>3
  <2>2. \A i \in 1..cut : i \in 1..n
    BY <1>2, <1>5
  <2>3. \A i \in 1..n : f[i] \in R
    BY <1>2
  <2> QED BY <1>11, <1>12, <1>14, <2>1, <2>2, <2>3
<1>16. n - cut + 1 \in DOMAIN c
  BY <1>9, <1>10
<1> QED BY <1>4, <1>6, <1>8, <1>9, <1>10, <1>15, <1>16 DEF c, R

-----------------------------------------------------------------------------
(* The actions.                                                            *)

LEMMA ChatInitInv == NetlinkInit => ChatInv
<1> SUFFICES ASSUME NetlinkInit PROVE ChatInv
  OBVIOUS
<1>1. chat.op = "none"
  BY DEF NetlinkInit, NoChat, Request
<1>2. Typed
  <2>1. answers \in Seq(BOOLEAN) /\ Len(answers) = 0 /\ seq = 0
    BY DEF NetlinkInit
  <2>2. plan \in [requests : Seq(Requests), stops : BOOLEAN]
    BY DEF NetlinkInit
  <2> QED BY <1>1, <2>1, <2>2 DEF NetlinkInit, Typed, Answered
<1>3. True /\ ListedAll
  BY DEF NetlinkInit, True, ListedAll
<1>4. Conversation
  BY <1>1 DEF NetlinkInit, Conversation, Quiet
<1> QED BY <1>2, <1>3, <1>4 DEF ChatInv

\* A step that leaves the socket and Chat alone.
LEMMA ConversationStays ==
  ASSUME Conversation,
         UNCHANGED <<config, seq, replies, chat, received, entries, performed>>
  PROVE  Conversation'
BY DEF Conversation, Quiet, Unsent, Acknowledged, Listed, ListingCut, Listing,
       Earlier, Later

LEMMA PlanKeeps ==
  ASSUME ChatInv, NEW requests \in Seq(Requests), NEW stops \in BOOLEAN,
         Plan(requests, stops)
  PROVE  ChatInv'
<1>1. /\ plan' = [requests |-> requests, stops |-> stops]
      /\ UNCHANGED <<config, opened, seq, replies, chat, received, entries, answers,
                     performed, listed, missed>>
  BY DEF Plan
<1>2. Conversation => Conversation'
  BY <1>1, ConversationStays
<1>3. Typed => Typed'
  BY <1>1 DEF Typed, Answered
<1> QED BY <1>1, <1>2, <1>3 DEF ChatInv, True, ListedAll

LEMMA SetUpDeviceKeeps == ASSUME ChatInv, SetUpDevice PROVE ChatInv'
<1>1. PICK route \in SomeRoutes, stops \in BOOLEAN : Plan(SetUp(route), stops)
  BY DEF SetUpDevice
<1>2. /\ Request("Enable", Nothing) \in Requests
      /\ Request("AddAddress", Address) \in Requests
      /\ Request("AddRoute", route) \in Requests
  BY DEF Requests, Request, LinkChanges, AddressChanges, RouteChanges
<1>3. SetUp(route) \in Seq(Requests)
  BY <1>2 DEF SetUp
<1> QED BY <1>1, <1>3, PlanKeeps

LEMMA UseToolKeeps == ASSUME ChatInv, UseTool PROVE ChatInv'
<1>1. PICK r \in Requests : Plan(<<r>>, FALSE)
  BY DEF UseTool, Requests
<1>2. <<r>> \in Seq(Requests)
  OBVIOUS
<1> QED BY <1>1, <1>2, PlanKeeps

\* One answer more.
LEMMA OneMore ==
  ASSUME NEW q \in Seq(BOOLEAN), NEW ok \in BOOLEAN
  PROVE  /\ Append(q, ok) \in Seq(BOOLEAN) /\ Len(Append(q, ok)) = Len(q) + 1
         /\ Append(q, ok)[Len(q) + 1] = ok
         /\ DOMAIN Append(q, ok) = 1..(Len(q) + 1)
         /\ \A n \in 1..Len(q) : n \in DOMAIN q /\ Append(q, ok)[n] = q[n]
OBVIOUS

\* The answer to the request that Chat was busy with.
LEMMA ReturnKeeps ==
  ASSUME Typed, True, chat.op # "none", NEW ok \in BOOLEAN, Return(ok),
         ok <=> seq \in performed, replies' = <<>>,
         UNCHANGED <<config, seq, performed>>
  PROVE  Typed' /\ True' /\ Conversation'
<1>1. /\ chat' = NoChat /\ chat'.op = "none" /\ received' = <<>> /\ entries' = {}
      /\ answers' = Append(answers, ok)
  BY DEF Return, NoChat, Request
<1>2. /\ answers \in Seq(BOOLEAN) /\ Len(answers) = seq - 1 /\ seq \in Nat
      /\ seq - 1 \in Nat
  BY DEF Typed, Answered
<1>3. /\ answers' \in Seq(BOOLEAN) /\ Len(answers') = seq
      /\ answers'[seq] = ok
      /\ \A n \in 1..(seq - 1) : n \in DOMAIN answers /\ answers'[n] = answers[n]
      /\ DOMAIN answers' = 1..seq
  BY <1>1, <1>2
<1>4. plan' \in [requests : Seq(Requests), stops : BOOLEAN]
  <2>1. plan \in [requests : Seq(Requests), stops : BOOLEAN]
    BY DEF Typed
  <2>2. <<>> \in Seq(Requests)
    OBVIOUS
  <2> QED BY <2>1, <2>2 DEF Return
<1>5. Typed'
  BY <1>1, <1>2, <1>3, <1>4 DEF Typed, Answered
<1>6. True'
  <2>1. \A n \in 1..seq : n \in 1..(seq - 1) \/ n = seq
    BY <1>2
  <2> QED BY <1>3, <2>1 DEF True
<1>7. Conversation'
  BY <1>1 DEF Conversation, Quiet
<1> QED BY <1>5, <1>6, <1>7

LEMMA PerformTypes ==
  ASSUME Typed, NEW r \in Requests
  PROVE  /\ Perform(r) \in [up : BOOLEAN, addresses : SUBSET {Address},
                            routes : SUBSET SomeRoutes]
         /\ r.op = "GetRoutes" => Perform(r) = config
         /\ r.op # "none"
<1>1. config \in [up : BOOLEAN, addresses : SUBSET {Address},
                  routes : SUBSET SomeRoutes]
  BY DEF Typed
<1>2. CASE r \in LinkChanges
  BY <1>1, <1>2 DEF LinkChanges, Perform
<1>3. CASE r \in AddressChanges
  BY <1>1, <1>3 DEF AddressChanges, Perform
<1>4. CASE r \in RouteChanges
  <2>1. r.of \in SomeRoutes /\ r.op \in {"AddRoute", "DelRoute"}
    BY <1>4 DEF RouteChanges
  <2> QED BY <1>1, <2>1 DEF Perform
<1>5. CASE r = GetRoutes
  BY <1>1, <1>5 DEF GetRoutes, Request, Perform
<1> QED BY <1>2, <1>3, <1>4, <1>5 DEF Requests

LEMMA SendRequestKeeps == ASSUME ChatInv, SendRequest PROVE ChatInv'
<1> SUFFICES ASSUME ~missed' PROVE Typed' /\ True' /\ Conversation' /\ ListedAll'
  BY DEF ChatInv
<1>1. Typed /\ True /\ Conversation /\ ListedAll
  BY DEF ChatInv, SendRequest
<1> DEFINE r == Head(plan.requests)
<1>2. /\ chat.op = "none" /\ plan.requests # <<>> /\ seq' = seq + 1 /\ chat' = r
      /\ plan' = [plan EXCEPT !.requests = Tail(@)]
      /\ UNCHANGED <<received, entries, answers, listed, missed>>
  BY DEF SendRequest
<1>3. r \in Requests /\ plan' \in [requests : Seq(Requests), stops : BOOLEAN]
  <2>1. plan \in [requests : Seq(Requests), stops : BOOLEAN]
    BY <1>1 DEF Typed
  <2>2. \A q \in Seq(Requests) : q # <<>> => Head(q) \in Requests /\ Tail(q) \in Seq(Requests)
    OBVIOUS
  <2> QED BY <1>2, <2>1, <2>2
<1> HIDE DEF r
<1>4. Quiet /\ Answered = seq /\ seq \in Nat /\ seq' \notin performed
  BY <1>1, <1>2 DEF Conversation, Answered, Typed
<1>5. chat'.op # "none" /\ Answered' = seq
  <2>1. chat'.op # "none"
    BY <1>1, <1>2, <1>3, PerformTypes
  <2>2. seq' - 1 = seq
    BY <1>2, <1>4
  <2> QED BY <2>1, <2>2 DEF Answered
<1>6. ASSUME performed' \in {performed, performed \union {seq'}},
             config' \in {config, Perform(r)}
      PROVE  Typed' /\ True'
  <2>1. performed' \subseteq 1..seq'
    BY <1>1, <1>2, <1>4, <1>6 DEF Typed
  <2>2. config' \in [up : BOOLEAN, addresses : SUBSET {Address},
                     routes : SUBSET SomeRoutes]
    BY <1>1, <1>3, <1>6, PerformTypes DEF Typed
  <2>3. Typed'
    BY <1>1, <1>2, <1>3, <1>4, <1>5, <2>1, <2>2 DEF Typed
  <2>4. \A n \in DOMAIN answers : n # seq'
    BY <1>1, <1>2, <1>4 DEF Typed
  <2>5. True'
    BY <1>1, <1>2, <1>6, <2>4 DEF True
  <2> QED BY <2>3, <2>5
<1>7. CASE UNCHANGED <<config, replies, performed>>
  <2>1. Unsent'
    BY <1>2, <1>4, <1>7 DEF Unsent, Quiet
  <2> QED BY <1>1, <1>2, <1>5, <1>6, <1>7, <2>1 DEF Conversation, ListedAll
<1>8. ASSUME NEW refused \in BOOLEAN,
             replies' = Append(replies, <<Acknowledgement(refused)>>),
             refused <=> seq' \notin performed', r.op = "GetRoutes" => refused
      PROVE  Conversation'
  <2>1. replies' = <<<<Acknowledgement(refused)>>>>
    BY <1>4, <1>8 DEF Quiet
  <2>2. Acknowledged'
    BY <1>2, <1>4, <1>8, <2>1 DEF Acknowledged, Quiet
  <2> QED BY <1>5, <2>2 DEF Conversation
<1>9. CASE UNCHANGED <<config, performed>>
           /\ replies' = Append(replies, <<Acknowledgement(TRUE)>>)
  BY <1>1, <1>2, <1>4, <1>6, <1>8, <1>9 DEF ListedAll
<1>10. ASSUME config' = Perform(r), performed' = performed \union {seq'},
              IF r.op = "GetRoutes"
              THEN \E cut \in 0..Cardinality(config.routes) :
                     replies' = replies \o Listing(cut)
              ELSE replies' = Append(replies, <<Acknowledgement(FALSE)>>)
       PROVE  Conversation'
  <2>1. CASE r.op # "GetRoutes"
    BY <1>8, <1>10, <2>1
  <2>2. CASE r.op = "GetRoutes"
    <3>1. config' = config
      BY <1>1, <1>3, <1>10, <2>2, PerformTypes
    <3>2. PICK cut \in 0..Cardinality(config.routes) : replies' = replies \o Listing(cut)
      BY <1>10, <2>2
    <3>3. replies' = Listing(cut)
      BY <1>4, <3>2 DEF Quiet, Listing
    <3>4. ListingCut(cut)'
      BY <1>2, <1>4, <3>1, <3>3 DEF ListingCut, Listing, Quiet
    <3>5. Listed'
      BY <1>2, <1>10, <2>2, <3>1, <3>4 DEF Listed
    <3> QED BY <1>5, <3>5 DEF Conversation
  <2> QED BY <2>1, <2>2
<1> QED BY <1>1, <1>2, <1>6, <1>7, <1>9, <1>10 DEF SendRequest, r, ListedAll

\* A request that nobody was sent is answered at once.
LEMMA SendNowhereKeeps == ASSUME ChatInv, SendNowhere PROVE ChatInv'
<1> SUFFICES ASSUME ~missed' PROVE Typed' /\ True' /\ Conversation' /\ ListedAll'
  BY DEF ChatInv
<1>1. Typed /\ True /\ Conversation /\ ListedAll
  BY DEF ChatInv, SendNowhere
<1>2. /\ chat.op = "none" /\ plan.requests # <<>> /\ seq' = seq + 1
      /\ chat' = NoChat /\ chat'.op = "none" /\ answers' = Append(answers, FALSE)
      /\ plan' = [plan EXCEPT !.requests = IF plan.stops THEN <<>> ELSE Tail(@)]
      /\ UNCHANGED <<config, opened, replies, received, entries, performed, listed,
                     missed>>
  BY DEF SendNowhere, NoChat, Request
<1>3. plan' \in [requests : Seq(Requests), stops : BOOLEAN]
  <2>1. plan \in [requests : Seq(Requests), stops : BOOLEAN]
    BY <1>1 DEF Typed
  <2>2. \A q \in Seq(Requests) : q # <<>> => Tail(q) \in Seq(Requests)
    OBVIOUS
  <2>3. <<>> \in Seq(Requests)
    OBVIOUS
  <2> QED BY <1>2, <2>1, <2>2, <2>3
<1>4. /\ answers \in Seq(BOOLEAN) /\ Len(answers) = seq /\ seq \in Nat
      /\ performed \subseteq 1..seq
  BY <1>1, <1>2 DEF Typed, Answered
<1>5. /\ answers' \in Seq(BOOLEAN) /\ Len(answers') = seq + 1
      /\ answers'[seq + 1] = FALSE /\ DOMAIN answers' = 1..(seq + 1)
      /\ \A n \in 1..seq : n \in DOMAIN answers /\ answers'[n] = answers[n]
  <2>1. FALSE \in BOOLEAN
    OBVIOUS
  <2> QED BY <1>2, <1>4, <2>1, OneMore
<1>6. Typed'
  <2>1. performed' \subseteq 1..seq' /\ seq' \in Nat
    BY <1>2, <1>4
  <2> QED BY <1>1, <1>2, <1>3, <1>5, <2>1 DEF Typed, Answered
<1>7. True'
  <2>1. \A n \in 1..(seq + 1) : n \in 1..seq \/ n = seq + 1
    BY <1>4
  <2>2. seq + 1 \notin performed
    BY <1>4
  <2> QED BY <1>1, <1>2, <1>5, <2>1, <2>2 DEF True
<1>8. Conversation'
  BY <1>1, <1>2 DEF Conversation, Quiet
<1> QED BY <1>1, <1>2, <1>6, <1>7, <1>8 DEF ListedAll

LEMMA ReceiveKeeps == ASSUME ChatInv, NEW fills \in BOOLEAN, Receive(fills) PROVE ChatInv'
<1> SUFFICES ASSUME ~missed' PROVE Typed' /\ True' /\ Conversation' /\ ListedAll'
  BY DEF ChatInv
<1>1. Typed /\ True /\ Conversation /\ ListedAll
  BY DEF ChatInv, Receive
<1> DEFINE messages == received \o Head(replies)
           found == IF chat.op = "GetRoutes"
                    THEN entries \union AddRoutingEntries(messages) ELSE entries
<1>2. /\ chat.op # "none" /\ replies # <<>> /\ replies' = Tail(replies)
      /\ UNCHANGED <<config, opened, seq, performed, missed>>
  BY DEF Receive
<1>3. ASSUME fills
      PROVE  /\ Head(replies) # <<>> /\ Head(replies)[1].type # "NLMSG_ERROR"
             /\ received' = messages
             /\ UNCHANGED <<chat, entries, plan, answers, listed>>
  BY <1>3 DEF Receive
<1>4. ASSUME ~fills, ParseReply(messages) = "MORE"
      PROVE  /\ received' = <<>> /\ entries' = found
             /\ UNCHANGED <<chat, plan, answers, listed>>
  BY <1>4 DEF Receive
<1>5. ASSUME ~fills, ParseReply(messages) # "MORE"
      PROVE  /\ Return(ParseReply(messages) = "OK")
             /\ listed' = IF chat.op = "GetRoutes" /\ ParseReply(messages) = "OK"
                          THEN [returned |-> found, wanted |-> config.routes]
                          ELSE listed
  BY <1>5 DEF Receive
<1>6. ASSUME UNCHANGED <<chat, plan, answers, listed>>
      PROVE  Typed' /\ True' /\ ListedAll'
  BY <1>1, <1>2, <1>6 DEF Typed, Answered, True, ListedAll
<1> HIDE DEF messages, found
<1>7. CASE Acknowledged
  <2>1. PICK refused \in BOOLEAN :
          /\ replies = <<<<Acknowledgement(refused)>>>> /\ received = <<>>
          /\ refused <=> seq \notin performed
          /\ chat.op = "GetRoutes" => refused
    BY <1>7 DEF Acknowledged
  <2>2. /\ Head(replies) = <<Acknowledgement(refused)>> /\ Tail(replies) = <<>>
        /\ messages = <<Acknowledgement(refused)>>
    BY <2>1 DEF messages
  <2>3. ~fills
    BY <1>3, <2>2 DEF Acknowledgement
  <2>4. ParseReply(messages) = IF refused THEN "ERROR" ELSE "OK"
    BY <2>2, AcknowledgementSettles
  <2>5. Return(~refused) /\ listed' = listed
    <3>1. (ParseReply(messages) = "OK") = ~refused
      BY <2>4
    <3> QED BY <1>5, <2>1, <2>3, <2>4, <3>1
  <2>6. Typed' /\ True' /\ Conversation'
    BY <1>1, <1>2, <2>1, <2>2, <2>5, ReturnKeeps
  <2> QED BY <1>1, <2>5, <2>6 DEF ListedAll
<1>8. CASE Listed
  <2>1. PICK cut \in 0..Cardinality(config.routes) : ListingCut(cut)
    BY <1>8 DEF Listed
  <2> DEFINE a == Earlier(cut)
             b == Later(cut)
  <2>2. /\ Listing(cut) = <<a, b>> /\ a \in Seq(Rows) /\ b \in Seq(Lines)
        /\ \E n \in DOMAIN b : b[n] = Done
        /\ AddRoutingEntries(a) \union AddRoutingEntries(b) =
             {Shown(r) : r \in config.routes}
    BY <1>1, ListingIs DEF Typed
  <2>3. chat.op = "GetRoutes" /\ seq \in performed
    BY <1>8 DEF Listed
  <2>4. ASSUME ListingCut(cut)', UNCHANGED chat PROVE Conversation'
    <3>1. Listed'
      BY <1>2, <2>3, <2>4 DEF Listed
    <3> QED BY <1>2, <2>4, <3>1 DEF Conversation
  <2>5. Earlier(cut)' = a /\ Later(cut)' = b /\ Listing(cut)' = Listing(cut)
    BY <1>2 DEF Earlier, Later, Listing
  <2>6. a \in Seq(Lines)
    BY <2>2 DEF Lines
  <2> HIDE DEF a, b
  <2>7. ASSUME replies = <<b>>,
               \/ received = a /\ entries = {}
               \/ received = <<>> /\ entries = AddRoutingEntries(a)
        PROVE  Typed' /\ True' /\ Conversation' /\ ListedAll'
    <3>1. Head(replies) = b /\ replies' = <<>>
      BY <1>2, <2>7
    <3>2. CASE fills
      <4>1. ListingCut(cut)'
        BY <3>1 DEF ListingCut
      <4> QED BY <1>3, <1>6, <2>4, <3>2, <4>1
    <3>3. CASE ~fills
      <4>1. messages \in Seq(Lines) /\ \E n \in DOMAIN messages : messages[n] = Done
        <5>1. PICK n \in DOMAIN b : b[n] = Done
          BY <2>2
        <5>2. CASE received = <<>>
          <6>1. messages = b
            BY <2>2, <3>1, <5>2 DEF messages
          <6> QED BY <2>2, <6>1
        <5>3. CASE received = a
          <6>1. messages = a \o b
            BY <3>1, <5>3 DEF messages
          <6>2. /\ a \o b \in Seq(Lines) /\ Len(a) + n \in DOMAIN (a \o b)
                /\ (a \o b)[Len(a) + n] = b[n]
            BY <2>2, <2>6
          <6> QED BY <5>1, <6>1, <6>2
        <5> QED BY <2>7, <5>2, <5>3
      <4>2. ParseReply(messages) = "OK"
        BY <4>1, DoneIsOK
      <4>3. found = {Shown(r) : r \in config.routes}
        <5>1. CASE received = <<>> /\ entries = AddRoutingEntries(a)
          <6>1. messages = b
            BY <2>2, <3>1, <5>1 DEF messages
          <6> QED BY <2>2, <2>3, <5>1, <6>1 DEF found
        <5>2. CASE received = a /\ entries = {}
          <6>1. messages = a \o b
            BY <3>1, <5>2 DEF messages
          <6>2. AddRoutingEntries(messages) =
                  AddRoutingEntries(a) \union AddRoutingEntries(b)
            BY <2>2, <2>6, <6>1, EntriesOf
          <6> QED BY <2>2, <2>3, <5>2, <6>2 DEF found
        <5> QED BY <2>7, <5>1, <5>2
      <4>4. /\ Return(TRUE)
            /\ listed' = [returned |-> found, wanted |-> config.routes]
        <5>1. (ParseReply(messages) = "OK") = TRUE /\ ParseReply(messages) # "MORE"
          BY <4>2
        <5> QED BY <1>5, <2>3, <3>3, <5>1
      <4>5. ListedAll'
        BY <4>3, <4>4 DEF ListedAll, Shown
      <4>6. Typed' /\ True' /\ Conversation'
        BY <1>1, <1>2, <2>3, <3>1, <4>4, ReturnKeeps
      <4> QED BY <4>5, <4>6
    <3> QED BY <3>2, <3>3
  <2>8. ASSUME replies = <<a, b>>, received = <<>>, entries = {}
        PROVE  Typed' /\ True' /\ Conversation' /\ ListedAll'
    <3>1. Head(replies) = a /\ replies' = <<b>>
      BY <1>2, <2>8
    <3>2. messages = a
      BY <2>2, <2>8, <3>1 DEF messages
    <3>3. found = AddRoutingEntries(a)
      BY <2>3, <2>8, <3>2 DEF found
    <3>4. CASE fills
      <4>1. ListingCut(cut)'
        BY <1>3, <2>5, <2>8, <3>1, <3>2, <3>4 DEF ListingCut
      <4> QED BY <1>3, <1>6, <2>4, <3>4, <4>1
    <3>5. CASE ~fills
      <4>1. ParseReply(messages) = "MORE"
        BY <2>2, <3>2, RowsSayNothing
      <4>2. AddRoutingEntries(Earlier(cut))' = AddRoutingEntries(a)
        BY <2>5 DEF AddRoutingEntries, RoutingEntry
      <4>3. ListingCut(cut)'
        BY <1>4, <2>5, <3>1, <3>3, <3>5, <4>1, <4>2 DEF ListingCut
      <4> QED BY <1>4, <1>6, <2>4, <3>5, <4>1, <4>3
    <3> QED BY <3>4, <3>5
  <2> QED BY <1>2, <2>1, <2>2, <2>7, <2>8 DEF ListingCut, a, b
<1> QED BY <1>1, <1>2, <1>7, <1>8 DEF Conversation, Unsent, Quiet

LEMMA ChatNextInv == ChatInv /\ [NetlinkNext]_netlinkVars => ChatInv'
<1> SUFFICES ASSUME ChatInv, [NetlinkNext]_netlinkVars PROVE ChatInv'
  OBVIOUS
<1>1. CASE UNCHANGED netlinkVars
  <2>1. Conversation => Conversation'
    BY <1>1, ConversationStays DEF netlinkVars
  <2> QED BY <1>1, <2>1 DEF netlinkVars, ChatInv, Typed, Answered, True, ListedAll
<1>2. CASE ReceiveFails
  BY <1>2 DEF ReceiveFails, ChatInv
<1> QED BY <1>1, <1>2, SetUpDeviceKeeps, UseToolKeeps, SendRequestKeeps,
           SendNowhereKeeps, ReceiveKeeps DEF NetlinkNext

\* As long as no recv fails, each request is answered by what the kernel did
\* about it, the socket is empty between two requests, and GetRoutes returns
\* every route, however many requests are made and routes there are.
THEOREM NobodyElsesAnswer == NetlinkSpec => []AnswersAreTrue
<1>1. ChatInv => AnswersAreTrue
  BY DEF ChatInv, True, Conversation, Quiet, ListedAll, Shown, AnswersAreTrue
<1> QED BY <1>1, ChatInitInv, ChatNextInv, PTL DEF NetlinkSpec

-----------------------------------------------------------------------------
(* Addresses and ranges.                                                   *)

Bits == 0..(4 * Word)

\* The powers of two are what they say.
LEMMA PowersOfTwo ==
  /\ TwoTo[0] = 1 /\ TwoTo \in [Bits -> Nat \ {0}]
  /\ \A k \in 0..(4 * Word - 1) : TwoTo[k + 1] = 2 * TwoTo[k]
<1> DEFINE Powers(m, h) == h = [k \in 0..m |-> IF k = 0 THEN 1 ELSE 2 * h[k - 1]]
           S == {m \in Nat : \E h \in [0..m -> Nat \ {0}] : Powers(m, h)}
<1>1. 0 \in S
  <2> DEFINE h == [k \in 0..0 |-> 1]
  <2>1. h \in [0..0 -> Nat \ {0}] /\ Powers(0, h)
    OBVIOUS
  <2> HIDE DEF h, Powers
  <2> QED BY <2>1
<1>2. ASSUME NEW m \in Nat, m \in S PROVE m + 1 \in S
  <2>1. PICK g \in [0..m -> Nat \ {0}] : Powers(m, g)
    BY <1>2
  <2> DEFINE h == [k \in 0..(m + 1) |-> IF k = m + 1 THEN 2 * g[m] ELSE g[k]]
  <2>2. h \in [0..(m + 1) -> Nat \ {0}]
    OBVIOUS
  <2>3. ASSUME NEW k \in 0..(m + 1) PROVE h[k] = IF k = 0 THEN 1 ELSE 2 * h[k - 1]
    <3>1. CASE k = 0
      <4>1. 0 \in 0..m /\ 0 # m + 1
        OBVIOUS
      <4>2. g[0] = 1
        BY <2>1, <4>1
      <4> QED BY <3>1, <4>1, <4>2
    <3>2. CASE k \in 1..m
      <4>1. k \in 0..m /\ k # 0 /\ k # m + 1 /\ k - 1 \in 0..(m + 1) /\ k - 1 # m + 1
        BY <3>2
      <4>2. g[k] = 2 * g[k - 1]
        BY <2>1, <4>1
      <4> QED BY <4>1, <4>2
    <3>3. CASE k = m + 1
      <4>1. k # 0 /\ k - 1 = m /\ m \in 0..(m + 1) /\ m # m + 1
        BY <3>3
      <4> QED BY <3>3, <4>1
    <3> QED BY <3>1, <3>2, <3>3
  <2>4. Powers(m + 1, h)
    BY <2>3
  <2> HIDE DEF h, Powers
  <2> QED BY <2>2, <2>4
<1>3. \A m \in Nat : m \in S
  <2> HIDE DEF S
  <2> QED BY <1>1, <1>2, NatSet
<1>4. 4 * Word \in Nat
  BY WordAssumption
<1>5. PICK h \in [Bits -> Nat \ {0}] : Powers(4 * Word, h)
  BY <1>3, <1>4 DEF Bits
<1>6. Powers(4 * Word, TwoTo)
  BY <1>5 DEF TwoTo
<1>7. TwoTo[0] = 1
  BY <1>4, <1>6
<1>8. ASSUME NEW k \in 0..(4 * Word - 1) PROVE TwoTo[k + 1] = 2 * TwoTo[k]
  <2>1. k + 1 \in 0..(4 * Word) /\ k + 1 # 0 /\ (k + 1) - 1 = k
    BY <1>4
  <2> QED BY <1>6, <2>1
<1> DEFINE T == {k \in Bits : TwoTo[k] \in Nat \ {0}}
<1>9. \A k \in 0..(4 * Word) : k \in T
  <2>1. 0 \in T
    BY <1>4, <1>7 DEF Bits
  <2>2. ASSUME NEW k \in 0..(4 * Word - 1), k \in T PROVE k + 1 \in T
    <3>1. k + 1 \in Bits /\ TwoTo[k] \in Nat \ {0}
      BY <1>4, <2>2 DEF Bits
    <3> QED BY <1>8, <3>1
  <2> HIDE DEF T
  <2> QED BY <1>4, <2>1, <2>2, UpTo
<1>10. TwoTo \in [Bits -> Nat \ {0}]
  <2>1. DOMAIN TwoTo = Bits
    BY <1>6 DEF Bits
  <2>2. \A k \in Bits : TwoTo[k] \in Nat \ {0}
    BY <1>9 DEF Bits
  <2>3. TwoTo = [k \in Bits |-> TwoTo[k]]
    BY <1>6, <2>1
  <2> QED BY <2>2, <2>3
<1> QED BY <1>7, <1>8, <1>10

\* The law of powers.
LEMMA TwoToSum ==
  ASSUME NEW i \in Nat, NEW j \in Nat, i + j <= 4 * Word
  PROVE  TwoTo[i + j] = TwoTo[i] * TwoTo[j]
<1> DEFINE S == {k \in 0..j : TwoTo[i + k] = TwoTo[i] * TwoTo[k]}
<1>1. /\ TwoTo[0] = 1
      /\ \A k \in 0..(4 * Word - 1) : TwoTo[k + 1] = 2 * TwoTo[k]
      /\ \A k \in Bits : TwoTo[k] \in Nat
      /\ 4 * Word \in Nat
  BY PowersOfTwo, WordAssumption
<1>2. 0 \in S
  <2>1. i \in Bits /\ i + 0 = i
    BY <1>1 DEF Bits
  <2> QED BY <1>1, <2>1
<1>3. ASSUME NEW k \in 0..(j - 1), k \in S PROVE k + 1 \in S
  <2>1. /\ k \in Nat /\ i + k \in 0..(4 * Word - 1) /\ k \in 0..(4 * Word - 1)
        /\ i \in Bits /\ k \in Bits /\ k + 1 \in 0..j /\ i + (k + 1) = (i + k) + 1
    BY <1>1 DEF Bits
  <2>2. PICK p \in Nat : p = TwoTo[i]
    BY <1>1, <2>1
  <2>3. PICK q \in Nat : q = TwoTo[k]
    BY <1>1, <2>1
  <2>4. TwoTo[i + k] = p * q
    BY <1>3, <2>2, <2>3
  <2>5. 2 * (p * q) = p * (2 * q)
    OBVIOUS
  <2> QED BY <1>1, <2>1, <2>2, <2>3, <2>4, <2>5
<1>4. \A k \in 0..j : k \in S
  <2> HIDE DEF S
  <2> QED BY <1>2, <1>3, UpTo
<1> QED BY <1>4

\* What the word has of powers of two.
LEMMA PowersOfWord ==
  /\ Modulus \in Nat \ {0, 1}
  /\ \A k \in 0..Word :
       /\ k \in Bits /\ Word - k \in 0..Word
       /\ TwoTo[k] \in Nat \ {0}
       /\ TwoTo[k] * TwoTo[Word - k] = Modulus
       /\ k # Word => 2 * TwoTo[k] <= Modulus
       /\ k # 0 => \E p \in Nat \ {0} : TwoTo[k] = 2 * p
<1>1. 4 * Word \in Nat /\ Word \in Nat \ {0} /\ Word <= 4 * Word
  BY WordAssumption
<1>2. ASSUME NEW k \in 0..Word
      PROVE  /\ k \in Bits /\ Word - k \in 0..Word /\ TwoTo[k] \in Nat \ {0}
             /\ TwoTo[k] * TwoTo[Word - k] = Modulus
  <2>1. k \in Bits /\ Word - k \in 0..Word /\ k \in Nat /\ Word - k \in Nat
        /\ k + (Word - k) = Word
    BY <1>1 DEF Bits
  <2> QED BY <1>1, <2>1, PowersOfTwo, TwoToSum DEF Modulus
<1>3. ASSUME NEW k \in 0..Word, k # 0 PROVE \E p \in Nat \ {0} : TwoTo[k] = 2 * p
  <2>1. k - 1 \in 0..(4 * Word - 1) /\ (k - 1) + 1 = k /\ k - 1 \in 0..Word
    BY <1>1, <1>3
  <2> QED BY <1>2, <2>1, PowersOfTwo
<1>4. ASSUME NEW k \in 0..Word, k # Word PROVE 2 * TwoTo[k] <= Modulus
  <2>1. Word - k \in 0..Word /\ Word - k # 0
    BY <1>1, <1>4
  <2>2. PICK p \in Nat \ {0} : TwoTo[Word - k] = 2 * p
    BY <1>3, <2>1
  <2>3. PICK q \in Nat \ {0} : q = TwoTo[k]
    BY <1>2
  <2>4. q * (2 * p) = Modulus
    BY <1>2, <2>2, <2>3
  <2>5. q * (2 * p) = 2 * (q * p)
    OBVIOUS
  <2>6. q <= q * p
    OBVIOUS
  <2> QED BY <2>3, <2>4, <2>5, <2>6
<1>5. Modulus \in Nat \ {0, 1}
  <2>1. Word \in 0..Word /\ 0 \in 0..Word /\ 0 # Word
    BY <1>1
  <2>2. Modulus \in Nat
    BY <1>2, <2>1 DEF Modulus
  <2>3. 2 * TwoTo[0] <= Modulus
    BY <1>4, <2>1
  <2> QED BY <2>2, <2>3, PowersOfTwo
<1> QED BY <1>2, <1>3, <1>4, <1>5

-----------------------------------------------------------------------------
\* The difference of two addresses that are less than half of all apart.
LEMMA DifferenceIs ==
  ASSUME NEW a \in Addresses4, NEW b \in Addresses4
  PROVE  /\ a <= b /\ 2 * (b - a) < Modulus => DifferenceOf(a, b) = b - a
         /\ b < a /\ 2 * (a - b) < Modulus => DifferenceOf(a, b) = b - a
<1>1. PICK p \in Nat \ {0} : Modulus = 2 * p
  <2>1. Word \in 0..Word /\ Word # 0
    BY WordAssumption
  <2> QED BY <2>1, PowersOfWord DEF Modulus
<1>2. a \in 0..(2 * p - 1) /\ b \in 0..(2 * p - 1) /\ (2 * p) \div 2 = p
  BY <1>1 DEF Addresses4
<1>3. ASSUME a <= b, 2 * (b - a) < Modulus PROVE DifferenceOf(a, b) = b - a
  <2>1. PICK d \in Nat : d = b - a
    BY <1>2, <1>3
  <2>2. d < p /\ d % (2 * p) = d
    BY <1>1, <1>3, <2>1
  <2> QED BY <1>1, <1>2, <2>1, <2>2 DEF DifferenceOf, AsInt
<1>4. ASSUME b < a, 2 * (a - b) < Modulus PROVE DifferenceOf(a, b) = b - a
  <2>1. PICK d \in Nat : d = a - b /\ b - a = 0 - d
    BY <1>2, <1>4
  <2>2. d < p /\ d # 0 /\ (0 - d) % (2 * p) = 2 * p - d
    BY <1>1, <1>2, <1>4, <2>1
  <2>3. 2 * p - d >= p /\ (2 * p - d) - 2 * p = 0 - d
    BY <2>2
  <2> QED BY <1>1, <1>2, <2>1, <2>2, <2>3 DEF DifferenceOf, AsInt
<1> QED BY <1>3, <1>4

\* A range is where Parse has put it.
IsRange(r) ==
  \E a \in Addresses4, c \in 0..Word :
    r = [address |-> a, cidr |-> c, size |-> SizeOfBits(Word - c)]
    /\ \E m \in Nat : a = m * TwoTo[Word - c]

\* What is left of an address is one.
LEMMA TruncateIsAddress ==
  ASSUME NEW a \in Addresses4, NEW c \in 0..Word
  PROVE  /\ Truncate4(a, c) \in Addresses4
         /\ \E m \in Nat : Truncate4(a, c) = m * TwoTo[Word - c]
<1>1. a \in Nat /\ Word - c \in 0..Word
  BY PowersOfWord DEF Addresses4
<1>2. CASE c = Word
  <2>1. Word - c = 0
    BY <1>2, WordAssumption
  <2>2. a = a * TwoTo[Word - c]
    BY <1>1, <2>1, PowersOfTwo
  <2> QED BY <1>1, <1>2, <2>2 DEF Truncate4
<1>3. CASE c # Word
  <2>1. PICK t \in Nat \ {0} : t = TwoTo[Word - c]
    BY <1>1, PowersOfWord
  <2>2. PICK m \in Nat : m = a \div t
    BY <1>1, <2>1, Division
  <2>3. a = t * m + (a % t) /\ a % t \in 0..(t - 1)
    BY <1>1, <2>1, <2>2, Division
  <2>4. Truncate4(a, c) = m * t
    BY <1>3, <2>1, <2>2 DEF Truncate4, Cleared
  <2>5. m * t \in Nat /\ m * t <= a
    <3>1. PICK r \in Nat : r = a % t
      BY <2>3
    <3>2. a = t * m + r
      BY <2>3, <3>1
    <3>3. t * m = m * t
      OBVIOUS
    <3>4. m * t \in Nat
      OBVIOUS
    <3> QED BY <3>1, <3>2, <3>3, <3>4
  <2>6. Modulus \in Nat
    BY PowersOfWord
  <2>7. \A k \in Nat : k <= a => k \in Addresses4
    BY <2>6 DEF Addresses4
  <2> QED BY <2>1, <2>4, <2>5, <2>7
<1> QED BY <1>2, <1>3

\* A range that was parsed is within the addresses.
LEMMA ParseIsRange ==
  ASSUME NEW a \in Addresses4, NEW c \in 0..Word
  PROVE  IsRange(Parse(a, c)) /\ Parse(a, c).cidr = c
BY TruncateIsAddress DEF IsRange, Parse

\* A route and a range that share an address overlap, but for the default route
\* and one to the last address of the range.
LEMMA SharingOverlaps ==
  ASSUME NEW r, IsRange(r), NEW q, IsRange(q), q.cidr \in 1..(Word - 1),
         Share(r, q), r.cidr # 0, First(r) # LastOf(q)
  PROVE  IsOverlapping(r, q)
<1>1. PICK a \in Addresses4, c \in 0..Word :
        /\ r = [address |-> a, cidr |-> c, size |-> SizeOfBits(Word - c)]
        /\ \E m \in Nat : a = m * TwoTo[Word - c]
  BY DEF IsRange
<1>2. PICK b \in Addresses4, e \in 0..Word :
        /\ q = [address |-> b, cidr |-> e, size |-> SizeOfBits(Word - e)]
        /\ \E m \in Nat : b = m * TwoTo[Word - e]
  BY DEF IsRange
<1>3. Word \in Nat \ {0} /\ Modulus \in Nat /\ c # 0 /\ e # 0 /\ e # Word
  BY <1>1, <1>2, WordAssumption, PowersOfWord
<1>4. Word - c \in 0..Word /\ Word - e \in 0..Word /\ Word - c # Word /\ Word - e # Word
      /\ Word - e # 0
  BY <1>3
<1>5. PICK s \in Nat \ {0} : s = TwoTo[Word - c]
  BY <1>4, PowersOfWord
<1>6. PICK t \in Nat \ {0} : t = TwoTo[Word - e]
  BY <1>4, PowersOfWord
<1>7. 2 * s <= Modulus /\ 2 * t <= Modulus
  BY <1>4, <1>5, <1>6, PowersOfWord
<1>8. a <= b + t - 1 /\ b <= a + s - 1 /\ a # b + t - 1
  BY <1>1, <1>2, <1>5, <1>6 DEF Share, First, LastOf
<1>9. q.size = t - 2
  BY <1>2, <1>4, <1>6 DEF SizeOfBits
<1>10. r.size = IF c = Word THEN 0 ELSE s - 2
  <2>1. Word - c = 0 <=> c = Word
    BY <1>3
  <2> QED BY <1>1, <1>4, <1>5, <2>1 DEF SizeOfBits
<1>11. a \in Nat /\ b \in Nat
  BY <1>3 DEF Addresses4
<1>12. CASE a <= b
  <2>1. DifferenceOf(a, b) = b - a
    BY <1>3, <1>5, <1>7, <1>8, <1>11, <1>12, DifferenceIs
  <2>2. HasDifference(a, b)
    BY <1>11, <1>12, <2>1 DEF HasDifference
  <2>3. b - a \in 0..r.size
    <3>1. CASE c = Word
      <4>1. s = 1
        <5>1. Word - c = 0
          BY <1>3, <3>1
        <5> QED BY <1>5, <5>1, PowersOfTwo
      <4> QED BY <1>8, <1>10, <1>11, <1>12, <3>1, <4>1
    <3>2. CASE c # Word
      <4>1. Word - c # 0
        BY <1>3, <3>2
      <4>2. PICK u \in Nat \ {0} : s = 2 * u
        BY <1>4, <1>5, <4>1, PowersOfWord
      <4>3. PICK v \in Nat \ {0} : t = 2 * v
        BY <1>4, <1>6, PowersOfWord
      <4>4. PICK m \in Nat : a = m * (2 * u)
        BY <1>1, <1>5, <4>2
      <4>5. PICK n \in Nat : b = n * (2 * v)
        BY <1>2, <1>6, <4>3
      <4>6. PICK x \in Nat : x = m * u /\ m * (2 * u) = 2 * x
        OBVIOUS
      <4>7. PICK y \in Nat : y = n * v /\ n * (2 * v) = 2 * y
        OBVIOUS
      <4>8. b - a # s - 1
        BY <4>2, <4>4, <4>5, <4>6, <4>7
      <4> QED BY <1>8, <1>10, <1>11, <1>12, <3>2, <4>8
    <3> QED BY <3>1, <3>2
  <2> QED BY <1>1, <1>2, <2>1, <2>2, <2>3 DEF IsOverlapping
<1>13. CASE b < a
  <2>1. DifferenceOf(a, b) = b - a
    BY <1>3, <1>6, <1>7, <1>8, <1>11, <1>13, DifferenceIs
  <2>2. HasDifference(a, b)
    BY <1>11, <1>13, <2>1 DEF HasDifference
  <2>3. b - a < 0 /\ 0 - (b - a) <= q.size
    BY <1>8, <1>9, <1>11, <1>13
  <2> QED BY <1>1, <1>2, <2>1, <2>2, <2>3 DEF IsOverlapping
<1> QED BY <1>11, <1>12, <1>13

-----------------------------------------------------------------------------
\* Every destination is one of Parse, and the range that was found is one of the
\* attempts and overlaps with none of them.
RoutesInv ==
  /\ \A r \in routes : IsRange(r)
  /\ result # NoRange =>
       /\ \E i \in 1..Len(Attempts) : result = Attempt(i)
       /\ ~IsRangeOverlapping(result, routes)

\* Routes stay ranges, and the result one that overlaps with none of them.
LEMMA RoutesNextInv == RoutesInv /\ [RangeNext]_rangeVars => RoutesInv'
<1> SUFFICES ASSUME RoutesInv, [RangeNext]_rangeVars PROVE RoutesInv'
  OBVIOUS
<1>1. CASE UNCHANGED rangeVars
  BY <1>1 DEF rangeVars, RoutesInv, IsRangeOverlapping
<1>2. ASSUME NEW a \in Addresses4, NEW c \in 0..Word, AddRoute(a, c) PROVE RoutesInv'
  <2>1. /\ result = NoRange /\ result' = result
        /\ routes' = routes \union {Parse(a, c)}
    BY <1>2 DEF AddRoute
  <2>2. IsRange(Parse(a, c))
    BY ParseIsRange
  <2> QED BY <2>1, <2>2 DEF RoutesInv
<1>3. CASE FindUsableRange
  <2>1. PICK i \in 1..Len(Attempts) :
          /\ ~IsRangeOverlapping(Attempt(i), routes) /\ result' = Attempt(i)
    BY <1>3 DEF FindUsableRange
  <2>2. routes' = routes
    BY <1>3 DEF FindUsableRange
  <2> QED BY <2>1, <2>2 DEF RoutesInv, IsRangeOverlapping
<1>4. CASE FindsNothing
  BY <1>1, <1>4 DEF FindsNothing
<1>5. ASSUME NEW a \in Addresses6, ParseSix(a) PROVE RoutesInv'
  BY <1>5 DEF ParseSix, RoutesInv, IsRangeOverlapping
<1> QED BY <1>1, <1>2, <1>3, <1>4, <1>5 DEF RangeNext

\* Of any host, and of any list of private networks, the range that was found has
\* no address of a route, but for the two kinds of route.
THEOREM RangeIsFree == RangeSpec => []ChosenIsFree
<1>1. RangeInit => RoutesInv
  BY DEF RangeInit, RoutesInv
<1>2. ASSUME RoutesInv PROVE ChosenIsFree
  <2> SUFFICES ASSUME result # NoRange, NEW r \in routes, Share(r, result), r.cidr # 0,
                      First(r) # LastOf(result)
               PROVE  FALSE
    BY DEF ChosenIsFree
  <2>1. PICK i \in 1..Len(Attempts) : result = Attempt(i)
    BY <1>2 DEF RoutesInv
  <2>2. PICK a \in Addresses4, c \in 1..(Word - 1) : Attempts[i][1] = a /\ Attempts[i][2] = c
    <3>1. Attempts[i] \in Addresses4 \X (1..(Word - 1))
      BY AttemptsAssumption
    <3> QED BY <3>1
  <2>3. result = Parse(a, c) /\ c \in 0..Word
    BY <2>1, <2>2, WordAssumption DEF Attempt
  <2>4. IsRange(result) /\ result.cidr = c
    BY <2>3, ParseIsRange
  <2>5. IsOverlapping(r, result)
    <3>1. IsRange(r)
      BY <1>2 DEF RoutesInv
    <3> QED BY <2>4, <3>1, SharingOverlaps
  <2> QED BY <1>2, <2>5 DEF RoutesInv, IsRangeOverlapping
<1> QED BY <1>1, <1>2, RoutesNextInv, PTL DEF RangeSpec

-----------------------------------------------------------------------------
(* Four words.                                                             *)

Quads == [1..4 -> Words]

\* The number that four words stand for, as ValueOf folds it.
LEMMA ValueTurns ==
  ASSUME NEW a \in Quads
  PROVE  ValueOf(a) = ((a[1] * Modulus + a[2]) * Modulus + a[3]) * Modulus + a[4]
<1> DEFINE Turns(h) == h = [s \in SUBSET (1..4) |->
                              IF s = {} THEN 0 ELSE h[s \ {Max(s)}] * Modulus + a[Max(s)]]
           iter == CHOOSE h : Turns(h)
           f == [i \in Nat |-> [n \in Nat |-> IF i \in 1..4 THEN n * Modulus + a[i] ELSE n]]
<1>0. /\ Modulus \in Nat /\ 4 \in Nat /\ DOMAIN a = 1..4
      /\ \A i \in 1..4 : a[i] \in Nat
      /\ \A n \in Nat, i \in 1..4 : n * Modulus + a[i] \in Nat
  <2>1. Modulus \in Nat
    BY PowersOfWord
  <2>2. \A i \in 1..4 : a[i] \in Nat
    BY <2>1 DEF Quads, Words
  <2> QED BY <2>1, <2>2 DEF Quads
<1>1. ValueOf(a) = iter[1..4]
  BY <1>0 DEF ValueOf, FoldLeft, MapThenFoldSet
<1>2. \E h : Turns(h)
  <2>1. f \in [Nat -> [Nat -> Nat]]
    BY <1>0
  <2>2. PICK h \in [SUBSET (1..4) -> Nat] : FromLast(h, f, 0, 4)
    <3> HIDE DEF f
    <3> QED BY <1>0, <2>1, Iterates
  <2>3. ASSUME NEW s \in SUBSET (1..4)
        PROVE  h[s] = IF s = {} THEN 0 ELSE h[s \ {Max(s)}] * Modulus + a[Max(s)]
    <3>1. CASE s = {}
      BY <2>2, <3>1 DEF FromLast
    <3>2. CASE s # {}
      <4>1. h[s \ {Max(s)}] \in Nat
        OBVIOUS
      <4>2. Max(s) \in s /\ Max(s) \in 1..4 /\ Max(s) \in Nat
        BY <1>0, <3>2, MaxIsOne
      <4> QED BY <2>2, <3>2, <4>1, <4>2 DEF FromLast
    <3> QED BY <3>1, <3>2
  <2>4. Turns(h)
    BY <2>3
  <2> QED BY <2>4
<1>3. Turns(iter)
  BY <1>2
<1> HIDE DEF iter
<1>4. iter[{}] = 0
  BY <1>3
<1>5. ASSUME NEW k \in 0..3 PROVE iter[1..(k + 1)] = iter[1..k] * Modulus + a[k + 1]
  <2>1. 1..(k + 1) \in SUBSET (1..4) /\ k \in Nat
    OBVIOUS
  <2>2. /\ Max(1..(k + 1)) = k + 1
        /\ 1..(k + 1) # {} /\ (1..(k + 1)) \ {k + 1} = 1..k
    BY <2>1, LastOfInterval
  <2> QED BY <1>3, <2>1, <2>2
<1>6. iter[1..1] = a[1]
  <2>1. 1..0 = {} /\ 0 \in 0..3 /\ 0 + 1 = 1
    OBVIOUS
  <2>2. iter[1..1] = 0 * Modulus + a[1]
    BY <1>4, <1>5, <2>1
  <2>3. 1 \in 1..4
    OBVIOUS
  <2> QED BY <1>0, <2>2, <2>3
<1>7. iter[1..2] = iter[1..1] * Modulus + a[2]
  <2>1. 1 \in 0..3 /\ 1 + 1 = 2
    OBVIOUS
  <2> QED BY <1>5, <2>1
<1>8. iter[1..3] = iter[1..2] * Modulus + a[3]
  <2>1. 2 \in 0..3 /\ 2 + 1 = 3
    OBVIOUS
  <2> QED BY <1>5, <2>1
<1>9. iter[1..4] = iter[1..3] * Modulus + a[4]
  <2>1. 3 \in 0..3 /\ 3 + 1 = 4
    OBVIOUS
  <2> QED BY <1>5, <2>1
<1> QED BY <1>1, <1>6, <1>7, <1>8, <1>9

\* What Increment6 goes through: words, an amount and whether it is done.
Counts == [words : Quads, amount : Words, done : BOOLEAN]

\* What IncrementWord has done in a few turns is words still.
LEMMA CountTyped ==
  ASSUME NEW s \in Counts, NEW i \in 1..4 PROVE IncrementWord(s, i) \in Counts
<1>1. s.words \in Quads /\ s.words[i] \in Words /\ s.amount \in Words /\ s.done \in BOOLEAN
  BY DEF Counts, Quads
<1>2. Modulus \in Nat \ {0, 1}
  BY PowersOfWord
<1>3. PICK new : new = (s.words[i] + s.amount) % Modulus
  OBVIOUS
<1>4. new \in Words
  <2>1. s.words[i] + s.amount \in Nat
    BY <1>1, <1>2 DEF Words
  <2> QED BY <1>2, <1>3, <2>1, Division DEF Words
<1>5. 1 \in Words
  BY <1>2 DEF Words
<1>6. [s.words EXCEPT ![i] = new] \in Quads
  BY <1>1, <1>4 DEF Quads
<1>7. CASE s.done
  BY <1>7 DEF IncrementWord
<1>8. CASE ~s.done
  <2>1. IncrementWord(s, i) = [words |-> [s.words EXCEPT ![i] = new], amount |-> 1,
                               done |-> new >= s.words[i]]
    BY <1>3, <1>8 DEF IncrementWord
  <2>2. (new >= s.words[i]) \in BOOLEAN
    OBVIOUS
  <2> QED BY <1>5, <1>6, <2>1, <2>2 DEF Counts
<1> QED BY <1>7, <1>8

\* The turns of Increment6, of which there are four.
LEMMA CountTurns ==
  ASSUME NEW a \in Quads, NEW n \in Words
  PROVE  \E s1 \in Counts, s2 \in Counts, s3 \in Counts, s4 \in Counts :
           /\ s1 = IncrementWord([words |-> a, amount |-> n, done |-> FALSE], 4)
           /\ s2 = IncrementWord(s1, 3) /\ s3 = IncrementWord(s2, 2)
           /\ s4 = IncrementWord(s3, 1) /\ Increment6(a, n) = s4.words
<1> DEFINE from == [words |-> a, amount |-> n, done |-> FALSE]
           q == <<4, 3, 2, 1>>
           Turns(h) == h = [s \in SUBSET (1..4) |->
                              IF s = {} THEN from
                              ELSE IncrementWord(h[s \ {Max(s)}], q[Max(s)])]
           iter == CHOOSE h : Turns(h)
           f == [i \in Nat |-> [s \in Counts |-> IF i \in 1..4 THEN IncrementWord(s, q[i])
                                                 ELSE s]]
<1>0. /\ 4 \in Nat /\ DOMAIN q = 1..4 /\ from \in Counts
      /\ \A i \in 1..4 : q[i] \in 1..4
      /\ q[1] = 4 /\ q[2] = 3 /\ q[3] = 2 /\ q[4] = 1
  BY DEF Counts
<1>1. Increment6(a, n) = iter[1..4].words
  BY <1>0 DEF Increment6, FoldLeft, MapThenFoldSet
<1> HIDE DEF q, from
<1>2. \E h : Turns(h)
  <2>1. f \in [Nat -> [Counts -> Counts]]
    BY <1>0, CountTyped
  <2>2. PICK h \in [SUBSET (1..4) -> Counts] : FromLast(h, f, from, 4)
    <3> HIDE DEF f
    <3> QED BY <1>0, <2>1, Iterates
  <2>3. ASSUME NEW s \in SUBSET (1..4)
        PROVE  h[s] = IF s = {} THEN from ELSE IncrementWord(h[s \ {Max(s)}], q[Max(s)])
    <3>1. CASE s = {}
      BY <2>2, <3>1 DEF FromLast
    <3>2. CASE s # {}
      <4>1. h[s \ {Max(s)}] \in Counts
        OBVIOUS
      <4>2. Max(s) \in s /\ Max(s) \in 1..4 /\ Max(s) \in Nat
        BY <1>0, <3>2, MaxIsOne
      <4> QED BY <2>2, <3>2, <4>1, <4>2 DEF FromLast
    <3> QED BY <3>1, <3>2
  <2>4. Turns(h)
    BY <2>3
  <2> QED BY <2>4
<1>3. Turns(iter)
  BY <1>2
<1> HIDE DEF iter
<1>4. iter[{}] = from
  BY <1>3
<1>5. ASSUME NEW k \in 0..3 PROVE iter[1..(k + 1)] = IncrementWord(iter[1..k], q[k + 1])
  <2>1. 1..(k + 1) \in SUBSET (1..4) /\ k \in Nat
    OBVIOUS
  <2>2. /\ Max(1..(k + 1)) = k + 1
        /\ 1..(k + 1) # {} /\ (1..(k + 1)) \ {k + 1} = 1..k
    BY <2>1, LastOfInterval
  <2> QED BY <1>3, <2>1, <2>2
<1>6. iter[1..1] = IncrementWord(from, 4)
  <2>1. 1..0 = {} /\ 0 \in 0..3 /\ 0 + 1 = 1
    OBVIOUS
  <2> QED BY <1>0, <1>4, <1>5, <2>1
<1>7. iter[1..2] = IncrementWord(iter[1..1], 3)
  <2>1. 1 \in 0..3 /\ 1 + 1 = 2
    OBVIOUS
  <2> QED BY <1>0, <1>5, <2>1
<1>8. iter[1..3] = IncrementWord(iter[1..2], 2)
  <2>1. 2 \in 0..3 /\ 2 + 1 = 3
    OBVIOUS
  <2> QED BY <1>0, <1>5, <2>1
<1>9. iter[1..4] = IncrementWord(iter[1..3], 1)
  <2>1. 3 \in 0..3 /\ 3 + 1 = 4
    OBVIOUS
  <2> QED BY <1>0, <1>5, <2>1
<1>10. /\ iter[1..1] \in Counts /\ iter[1..2] \in Counts
       /\ iter[1..3] \in Counts /\ iter[1..4] \in Counts
  <2>1. 1 \in 1..4 /\ 2 \in 1..4 /\ 3 \in 1..4 /\ 4 \in 1..4
    OBVIOUS
  <2>2. iter[1..1] \in Counts
    BY <1>0, <1>6, <2>1, CountTyped
  <2>3. iter[1..2] \in Counts
    BY <1>7, <2>1, <2>2, CountTyped
  <2>4. iter[1..3] \in Counts
    BY <1>8, <2>1, <2>3, CountTyped
  <2> QED BY <1>9, <2>1, <2>2, <2>3, <2>4, CountTyped
<1> QED BY <1>1, <1>6, <1>7, <1>8, <1>9, <1>10 DEF from

-----------------------------------------------------------------------------
\* What a word counts for, the first being the most significant.
Place(i) == TwoTo[(4 - i) * Word]

\* What a word is worth at each of the four places.
LEMMA Places ==
  /\ Place(4) = 1 /\ Place(3) = Modulus /\ Place(2) = Modulus * Modulus
  /\ Place(1) = Modulus * (Modulus * Modulus) /\ Place(0) = TwoTo[4 * Word]
  /\ \A i \in 1..4 : Place(i - 1) = Modulus * Place(i)
  /\ \A i \in 0..4 : Place(i) \in Nat \ {0}
<1>1. Word \in Nat \ {0}
  BY WordAssumption
<1>2. ASSUME NEW i \in 0..4 PROVE Place(i) \in Nat \ {0} /\ (4 - i) * Word \in Nat
  <2>1. (4 - i) * Word \in Bits
    <3>1. 4 - i \in {0, 1, 2, 3, 4}
      OBVIOUS
    <3>2. \A k \in {0, 1, 2, 3, 4} : k * Word \in Bits
      BY <1>1 DEF Bits
    <3> QED BY <3>1, <3>2
  <2>2. \A k \in Bits : k \in Nat
    BY <1>1 DEF Bits
  <2> QED BY <2>1, <2>2, PowersOfTwo DEF Place
<1>3. ASSUME NEW i \in 1..4 PROVE Place(i - 1) = Modulus * Place(i)
  <2>1. PICK k \in 0..3 : k = 4 - i
    OBVIOUS
  <2>2. 4 - (i - 1) = k + 1 /\ (k + 1) * Word = Word + k * Word
    BY <1>1, <2>1
  <2>3. k * Word \in Nat /\ Word + k * Word <= 4 * Word
    <3>1. k \in {0, 1, 2, 3}
      OBVIOUS
    <3>2. \A m \in {0, 1, 2, 3} : m * Word \in Nat /\ Word + m * Word <= 4 * Word
      BY <1>1
    <3> QED BY <3>1, <3>2
  <2>4. TwoTo[Word + k * Word] = TwoTo[Word] * TwoTo[k * Word]
    BY <1>1, <2>3, TwoToSum
  <2> QED BY <2>1, <2>2, <2>4 DEF Place, Modulus
<1>4. Place(4) = 1
  <2>1. (4 - 4) * Word = 0
    BY <1>1
  <2> QED BY <2>1, PowersOfTwo DEF Place
<1>5. Modulus \in Nat /\ Modulus * 1 = Modulus
  BY PowersOfWord
<1>6. Place(3) = Modulus
  <2>1. 4 \in 1..4 /\ 4 - 1 = 3
    OBVIOUS
  <2> QED BY <1>3, <1>4, <1>5, <2>1
<1>7. Place(2) = Modulus * Modulus
  <2>1. 3 \in 1..4 /\ 3 - 1 = 2
    OBVIOUS
  <2> QED BY <1>3, <1>6, <2>1
<1>8. Place(1) = Modulus * (Modulus * Modulus)
  <2>1. 2 \in 1..4 /\ 2 - 1 = 1
    OBVIOUS
  <2> QED BY <1>3, <1>7, <2>1
<1>9. Place(0) = TwoTo[4 * Word]
  <2>1. 4 - 0 = 4
    OBVIOUS
  <2> QED BY <2>1 DEF Place
<1> QED BY <1>2, <1>3, <1>4, <1>6, <1>7, <1>8, <1>9

\* A word below the modulus behind a number leaves room for it.
LEMMA WordBehind ==
  ASSUME NEW m \in Nat, NEW x \in Nat, NEW y \in Nat, x < y, NEW w \in 0..(m - 1)
  PROVE  x * m + w \in Nat /\ x * m + w < y * m
<1>1. (x + 1) * m <= y * m /\ x * m \in Nat /\ y * m \in Nat
  OBVIOUS
<1>2. (x + 1) * m = x * m + m
  OBVIOUS
<1> QED BY <1>1, <1>2

\* Each of four words is a word, and a number below Modulus.
LEMMA WordsOf ==
  ASSUME NEW a \in Quads
  PROVE  /\ Modulus \in Nat
         /\ a[1] \in Words /\ a[2] \in Words /\ a[3] \in Words /\ a[4] \in Words
         /\ \A w \in Words : w \in Nat /\ w \in 0..(Modulus - 1) /\ w < Modulus
<1>1. Modulus \in Nat
  BY PowersOfWord
<1> QED BY <1>1 DEF Quads, Words

\* Four words stand for less than TwoTo[4 * Word].
LEMMA ValueBelow ==
  ASSUME NEW a \in Quads
  PROVE  ValueOf(a) \in Nat /\ ValueOf(a) < TwoTo[4 * Word]
<1>1. PICK m \in Nat : m = Modulus
  BY PowersOfWord
<1>2. /\ a[1] \in Words /\ a[2] \in Words /\ a[3] \in Words /\ a[4] \in Words
      /\ \A w \in Words : w \in Nat /\ w \in 0..(m - 1) /\ w < m
  BY <1>1, WordsOf
<1>3. PICK x \in Nat : x = a[1] * m + a[2] /\ x < m * m
  BY <1>2, WordBehind
<1>4. m * m \in Nat
  OBVIOUS
<1>5. PICK y \in Nat : y = x * m + a[3] /\ y < (m * m) * m
  BY <1>2, <1>3, <1>4, WordBehind
<1>6. (m * m) * m \in Nat
  OBVIOUS
<1>7. PICK z \in Nat : z = y * m + a[4] /\ z < ((m * m) * m) * m
  BY <1>2, <1>5, <1>6, WordBehind
<1>8. ValueOf(a) = z
  BY <1>1, <1>3, <1>5, <1>7, ValueTurns
<1>9. TwoTo[4 * Word] = ((m * m) * m) * m
  <2>1. 1 \in 1..4 /\ 1 - 1 = 0
    OBVIOUS
  <2>2. TwoTo[4 * Word] = m * (m * (m * m))
    BY <1>1, <2>1, Places
  <2>3. m * (m * m) = (m * m) * m
    OBVIOUS
  <2>4. PICK c \in Nat : c = (m * m) * m
    BY <1>6
  <2>5. m * c = c * m
    OBVIOUS
  <2> QED BY <2>2, <2>3, <2>4, <2>5
<1> QED BY <1>7, <1>8, <1>9

\* ... and each of them for its number of places.
LEMMA ValueIs ==
  ASSUME NEW a \in Quads
  PROVE  ValueOf(a) = ((a[1] * Place(1) + a[2] * Place(2)) + a[3] * Place(3)) + a[4] * Place(4)
<1>1. PICK m \in Nat : m = Modulus
  BY PowersOfWord
<1>2. /\ a[1] \in Nat /\ a[2] \in Nat /\ a[3] \in Nat /\ a[4] \in Nat
  BY WordsOf
<1>3. (a[1] * m + a[2]) * m = a[1] * (m * m) + a[2] * m
  <2>1. PICK p \in Nat : p = a[1]
    BY <1>2
  <2>2. PICK q \in Nat : q = a[2]
    BY <1>2
  <2>3. (p * m + q) * m = (p * m) * m + q * m
    OBVIOUS
  <2>4. (p * m) * m = p * (m * m)
    OBVIOUS
  <2> QED BY <2>1, <2>2, <2>3, <2>4
<1>4. PICK M2 \in Nat : M2 = m * m
  OBVIOUS
<1>5. PICK M3 \in Nat : M3 = m * M2
  OBVIOUS
<1>6. ((a[1] * M2 + a[2] * m) + a[3]) * m = (a[1] * M3 + a[2] * M2) + a[3] * m
  <2>1. PICK p \in Nat : p = a[1]
    BY <1>2
  <2>2. PICK q \in Nat : q = a[2]
    BY <1>2
  <2>3. PICK r \in Nat : r = a[3]
    BY <1>2
  <2>4. p * M2 \in Nat /\ q * m \in Nat
    OBVIOUS
  <2>5. ((p * M2 + q * m) + r) * m = ((p * M2) * m + (q * m) * m) + r * m
    <3>1. PICK u \in Nat : u = p * M2
      BY <2>4
    <3>2. PICK v \in Nat : v = q * m
      BY <2>4
    <3>3. ((u + v) + r) * m = (u * m + v * m) + r * m
      OBVIOUS
    <3> QED BY <3>1, <3>2, <3>3
  <2>6. (p * M2) * m = p * (m * M2)
    OBVIOUS
  <2>7. (q * m) * m = q * (m * m)
    OBVIOUS
  <2> QED BY <1>4, <1>5, <2>1, <2>2, <2>3, <2>5, <2>6, <2>7
<1>7. /\ Place(4) = 1 /\ Place(3) = m /\ Place(2) = M2 /\ Place(1) = M3
  BY <1>1, <1>4, <1>5, Places
<1>8. a[4] * 1 = a[4]
  BY <1>2
<1> QED BY <1>1, <1>3, <1>4, <1>6, <1>7, <1>8, ValueTurns

\* What it makes to change one word.
LEMMA ValueSet ==
  ASSUME NEW a \in Quads, NEW i \in 1..4, NEW x \in Words
  PROVE  /\ [a EXCEPT ![i] = x] \in Quads
         /\ ValueOf([a EXCEPT ![i] = x]) + a[i] * Place(i) = ValueOf(a) + x * Place(i)
<1> DEFINE b == [a EXCEPT ![i] = x]
<1>1. b \in Quads /\ b[i] = x /\ \A j \in 1..4 : j # i => b[j] = a[j]
  BY DEF Quads
<1> HIDE DEF b
<1> DEFINE A(j) == a[j] * Place(j)  B(j) == b[j] * Place(j)
<1>2. ValueOf(a) = ((A(1) + A(2)) + A(3)) + A(4) /\ ValueOf(b) = ((B(1) + B(2)) + B(3)) + B(4)
  BY <1>1, ValueIs
<1>3. ASSUME NEW j \in 1..4 PROVE A(j) \in Nat /\ B(j) \in Nat /\ (j # i => B(j) = A(j))
  <2>1. Place(j) \in Nat
    BY Places
  <2>2. Modulus \in Nat
    BY PowersOfWord
  <2>3. PICK p \in Nat : p = a[j]
    BY <2>2 DEF Quads, Words
  <2>4. PICK q \in Nat : q = b[j]
    BY <1>1, <2>2 DEF Quads, Words
  <2> QED BY <1>1, <2>1, <2>3, <2>4
<1>4. B(i) = x * Place(i)
  BY <1>1
<1> HIDE DEF A, B
<1>5. 1 \in 1..4 /\ 2 \in 1..4 /\ 3 \in 1..4 /\ 4 \in 1..4
  OBVIOUS
<1>6. A(1) \in Nat /\ A(2) \in Nat /\ A(3) \in Nat /\ A(4) \in Nat
  BY <1>3, <1>5
<1>7. B(1) \in Nat /\ B(2) \in Nat /\ B(3) \in Nat /\ B(4) \in Nat
  BY <1>3, <1>5
<1>8. ValueOf(b) + A(i) = ValueOf(a) + B(i)
  <2>1. CASE i = 1
    BY <1>2, <1>3, <1>5, <1>6, <1>7, <2>1
  <2>2. CASE i = 2
    BY <1>2, <1>3, <1>5, <1>6, <1>7, <2>2
  <2>3. CASE i = 3
    BY <1>2, <1>3, <1>5, <1>6, <1>7, <2>3
  <2>4. CASE i = 4
    BY <1>2, <1>3, <1>5, <1>6, <1>7, <2>4
  <2> QED BY <2>1, <2>2, <2>3, <2>4
<1> QED BY <1>1, <1>4, <1>8 DEF b, A

\* Between two words: nothing is left to be added, or an amount at the next one.
Carried(s, i, total) ==
  IF s.done THEN ValueOf(s.words) = total
  ELSE ValueOf(s.words) + s.amount * Place(i) = total /\ (i # 4 => s.amount = 1)

\* A turn takes from the amount what it adds to the words.
LEMMA CarryKeeps ==
  ASSUME NEW s \in Counts, NEW i \in 1..4, NEW total \in Nat, Carried(s, i, total)
  PROVE  Carried(IncrementWord(s, i), i - 1, total)
<1>1. s.words \in Quads /\ s.amount \in Words /\ s.done \in BOOLEAN
  BY DEF Counts
<1>2. CASE s.done
  BY <1>2 DEF Carried, IncrementWord
<1>3. CASE ~s.done
  <2>1. PICK a \in Quads : a = s.words
    BY <1>1
  <2>2. PICK m \in Nat \ {0, 1} : m = Modulus
    BY PowersOfWord
  <2>3. PICK w \in 0..(m - 1) : w = a[i]
    BY <2>1, <2>2 DEF Quads, Words
  <2>4. PICK d \in 0..(m - 1) : d = s.amount
    BY <1>1, <2>2 DEF Words
  <2>5. PICK new \in 0..(m - 1) : new = (w + d) % m
    <3>1. w + d \in Nat
      OBVIOUS
    <3> QED BY <2>2, <3>1, Division
  <2>6. (w + d < m => new = w + d) /\ (w + d >= m => new = w + d - m)
    <3>1. w + d < m => (w + d) % m = w + d
      OBVIOUS
    <3>2. w + d >= m => (w + d) % m = w + d - m
      OBVIOUS
    <3> QED BY <2>5, <3>1, <3>2
  <2> DEFINE t == IncrementWord(s, i)  b == [a EXCEPT ![i] = new]
  <2>7. t = [words |-> b, amount |-> 1, done |-> new >= w]
    BY <1>3, <2>1, <2>2, <2>3, <2>4, <2>5 DEF IncrementWord
  <2>8. t.words = b /\ t.amount = 1 /\ t.done = (new >= w)
    BY <2>7
  <2>9. PICK p \in Nat : p = Place(i)
    BY Places
  <2>10. b \in Quads /\ ValueOf(b) + w * p = ValueOf(a) + new * p
    <3>1. new \in Words
      BY <2>2 DEF Words
    <3> QED BY <2>3, <2>9, <3>1, ValueSet
  <2>11. ValueOf(a) + d * p = total
    BY <1>3, <2>1, <2>4, <2>9 DEF Carried
  <2>12. Place(i - 1) = m * p
    BY <2>2, <2>9, Places
  <2> HIDE DEF b, t
  <2>13. PICK x \in Nat : x = ValueOf(b)
    BY <2>10, ValueBelow
  <2>14. PICK y \in Nat : y = ValueOf(a)
    BY ValueBelow
  <2>15. w * p \in Nat /\ d * p \in Nat /\ m * p \in Nat
    BY <2>2
  <2>16. CASE w + d < m
    <3>1. new = w + d /\ new >= w
      BY <2>6, <2>16
    <3>2. new * p = w * p + d * p
      BY <3>1
    <3>3. x = total
      BY <2>10, <2>11, <2>13, <2>14, <2>15, <3>2
    <3> QED BY <2>8, <2>13, <3>1, <3>3 DEF Carried, t
  <2>17. CASE w + d >= m
    <3>1. new + m = w + d /\ ~(new >= w)
      BY <2>6, <2>17
    <3>2. (new + m) * p = (w + d) * p
      BY <3>1
    <3>3. (new + m) * p = new * p + m * p /\ (w + d) * p = w * p + d * p /\ new * p \in Nat
      OBVIOUS
    <3>4. x + m * p = total
      BY <2>10, <2>11, <2>13, <2>14, <2>15, <3>2, <3>3
    <3>5. 1 * (m * p) = m * p
      BY <2>15
    <3> QED BY <2>8, <2>12, <2>13, <3>1, <3>4, <3>5 DEF Carried, t
  <2> QED BY <2>16, <2>17
<1> QED BY <1>1, <1>2, <1>3

\* Four words are counted up like a number.
LEMMA IncrementIsSum ==
  ASSUME NEW a \in Quads, NEW n \in Words
  PROVE  ValueOf(Increment6(a, n)) = (ValueOf(a) + n) % TwoTo[4 * Word]
<1>1. PICK total \in Nat : total = ValueOf(a) + n
  <2>1. ValueOf(a) \in Nat /\ n \in Nat
    BY ValueBelow, WordsOf
  <2> QED BY <2>1
<1>2. PICK s0 \in Counts : s0 = [words |-> a, amount |-> n, done |-> FALSE]
  BY DEF Counts
<1>3. PICK s1 \in Counts, s2 \in Counts, s3 \in Counts, s4 \in Counts :
        /\ s1 = IncrementWord(s0, 4) /\ s2 = IncrementWord(s1, 3)
        /\ s3 = IncrementWord(s2, 2) /\ s4 = IncrementWord(s3, 1)
        /\ Increment6(a, n) = s4.words
  BY <1>2, CountTurns
<1>4. Carried(s0, 4, total)
  <2>1. n * 1 = n
    BY WordsOf
  <2> QED BY <1>1, <1>2, <2>1, Places DEF Carried
<1>5. Carried(s4, 0, total)
  <2>1. /\ 4 \in 1..4 /\ 3 \in 1..4 /\ 2 \in 1..4 /\ 1 \in 1..4
        /\ 4 - 1 = 3 /\ 3 - 1 = 2 /\ 2 - 1 = 1 /\ 1 - 1 = 0
    OBVIOUS
  <2>2. Carried(s1, 3, total)
    BY <1>3, <1>4, <2>1, CarryKeeps
  <2>3. Carried(s2, 2, total)
    BY <1>3, <2>1, <2>2, CarryKeeps
  <2>4. Carried(s3, 1, total)
    BY <1>3, <2>1, <2>3, CarryKeeps
  <2> QED BY <1>3, <2>1, <2>4, CarryKeeps
<1>6. PICK p \in Nat \ {0} : p = TwoTo[4 * Word]
  BY Places
<1>7. PICK x \in Nat : x = ValueOf(s4.words) /\ x < p
  <2>1. s4.words \in Quads
    BY DEF Counts
  <2> QED BY <1>6, <2>1, ValueBelow
<1>8. x = total \/ x + p = total
  <2>1. 1 * p = p /\ Place(0) = p
    BY <1>6, Places
  <2> QED BY <1>5, <1>7, <2>1 DEF Carried
<1>9. total % p = x
  <2>1. x % p = x /\ (x + p) % p = x
    BY <1>7
  <2> QED BY <1>8, <2>1
<1> QED BY <1>1, <1>3, <1>6, <1>7, <1>9

-----------------------------------------------------------------------------
\* A word without its lowest bits is one, and not larger.
LEMMA ClearedTyped ==
  ASSUME NEW x \in Nat, NEW b \in Bits
  PROVE  Cleared(x, b) \in Nat /\ Cleared(x, b) <= x
<1>1. PICK t \in Nat \ {0} : t = TwoTo[b]
  BY PowersOfTwo
<1>2. PICK q \in Nat : q = x \div t
  BY <1>1, Division
<1>3. PICK r \in Nat : r = x % t
  BY <1>1, Division
<1>4. x = t * q + r
  BY <1>1, <1>2, <1>3, Division
<1>5. t * q = q * t /\ q * t \in Nat
  OBVIOUS
<1> QED BY <1>1, <1>2, <1>4, <1>5 DEF Cleared

\* Bits that are cleared below the modulus are those of the last word.
LEMMA ClearedLow ==
  ASSUME NEW x \in Nat, NEW w \in Words, NEW b \in 0..Word
  PROVE  Cleared(x * Modulus + w, b) = x * Modulus + Cleared(w, b)
<1>1. PICK t \in Nat \ {0} : t = TwoTo[b]
  BY PowersOfWord
<1>2. Word - b \in 0..Word
  BY WordAssumption
<1>3. PICK s \in Nat \ {0} : s = TwoTo[Word - b]
  BY <1>2, PowersOfWord
<1>4. Modulus = t * s
  BY <1>1, <1>3, PowersOfWord
<1>5. w \in Nat /\ Modulus \in Nat
  BY PowersOfWord DEF Words
<1>6. PICK q \in Nat : q = w \div t
  BY <1>1, <1>5, Division
<1>7. PICK r \in 0..(t - 1) : r = w % t
  BY <1>1, <1>5, Division
<1>8. w = t * q + r
  BY <1>1, <1>5, <1>6, <1>7, Division
<1>9. PICK y \in Nat : y = x * s /\ x * (t * s) = t * y
  OBVIOUS
<1>10. PICK n \in Nat : n = x * Modulus + w
  BY <1>5
<1>11. n = t * (y + q) + r
  <2>1. t * (y + q) = t * y + t * q /\ t * y \in Nat /\ t * q \in Nat
    OBVIOUS
  <2> QED BY <1>4, <1>8, <1>9, <1>10, <2>1
<1>12. n \div t = y + q
  <2>1. n = t * (n \div t) + (n % t) /\ n % t \in 0..(t - 1) /\ n \div t \in Nat
    BY Division
  <2>2. PICK u \in Nat : u = n \div t
    BY <2>1
  <2>3. PICK v \in 0..(t - 1) : v = n % t
    BY <2>1
  <2>4. t * u + v = t * (y + q) + r /\ y + q \in Nat
    BY <1>11, <2>1, <2>2, <2>3
  <2>5. u = y + q
    BY <2>4, OneQuotient
  <2> QED BY <2>2, <2>5
<1>13. (y + q) * t = t * y + q * t
  OBVIOUS
<1>14. Cleared(n, b) = (y + q) * t /\ Cleared(w, b) = q * t
  BY <1>1, <1>6, <1>12 DEF Cleared
<1> QED BY <1>4, <1>9, <1>10, <1>13, <1>14

\* If the last word is cleared, the rest is a number of its own.
LEMMA ClearedHigh ==
  ASSUME NEW x \in Nat, NEW w \in Words, NEW b \in Nat, Word + b \in Bits
  PROVE  Cleared(x * Modulus + w, Word + b) = Cleared(x, b) * Modulus
<1>1. PICK m \in Nat \ {0} : m = Modulus
  BY PowersOfWord
<1>2. Word \in Nat /\ Word + b <= 4 * Word /\ b \in Bits
  BY WordAssumption DEF Bits
<1>3. PICK t \in Nat \ {0} : t = TwoTo[b]
  BY <1>2, PowersOfTwo
<1>4. TwoTo[Word + b] = m * t
  BY <1>1, <1>2, <1>3, TwoToSum DEF Modulus
<1>5. w \in 0..(m - 1)
  BY <1>1 DEF Words
<1>6. PICK n \in Nat : n = m * x + w /\ n = x * m + w
  <2>1. m * x \in Nat /\ m * x = x * m
    OBVIOUS
  <2> QED BY <1>5, <2>1
<1>7. n \div m = x
  <2>1. n = m * (n \div m) + (n % m) /\ n % m \in 0..(m - 1) /\ n \div m \in Nat
    BY Division
  <2>2. PICK u \in Nat : u = n \div m
    BY <2>1
  <2>3. PICK v \in 0..(m - 1) : v = n % m
    BY <2>1
  <2>4. m * u + v = m * x + w
    BY <1>6, <2>1, <2>2, <2>3
  <2>5. u = x
    BY <1>5, <2>4, OneQuotient
  <2> QED BY <2>2, <2>5
<1>8. n \div (m * t) = x \div t
  BY <1>7, QuotientTwice
<1>9. PICK q \in Nat : q = x \div t
  BY Division
<1>10. q * (m * t) = (q * t) * m
  OBVIOUS
<1>11. Cleared(n, Word + b) = q * (m * t)
  BY <1>4, <1>8, <1>9 DEF Cleared
<1>12. Cleared(x, b) = q * t
  BY <1>3, <1>9 DEF Cleared
<1> QED BY <1>1, <1>6, <1>10, <1>11, <1>12

\* A prefix of whole words and of some bits.
LEMMA LengthParts ==
  ASSUME NEW n \in 0..(4 * Word), n # 4 * Word
  PROVE  /\ n \div Word \in 0..3 /\ n % Word \in 0..(Word - 1)
         /\ 4 * Word - n = (3 - (n \div Word)) * Word + (Word - (n % Word))
<1>1. PICK w \in Nat \ {0} : w = Word
  BY WordAssumption
<1>2. n \in Nat
  OBVIOUS
<1>3. PICK q \in Nat : q = n \div w
  BY <1>2, Division
<1>4. PICK r \in 0..(w - 1) : r = n % w
  BY <1>2, Division
<1>5. n = w * q + r
  BY <1>2, <1>3, <1>4, Division
<1>6. q < 4
  <2>1. q >= 4 => w * q >= w * 4
    OBVIOUS
  <2>2. n < 4 * w /\ w * 4 = 4 * w
    BY <1>1, <1>2
  <2>3. PICK p \in Nat : p = w * q
    OBVIOUS
  <2> QED BY <1>5, <2>1, <2>2, <2>3
<1>7. q \in 0..3
  BY <1>6
<1>8. 4 * w - n = (3 - q) * w + (w - r)
  <2>1. q = 0 \/ q = 1 \/ q = 2 \/ q = 3
    BY <1>7
  <2> QED BY <1>5, <2>1
<1> QED BY <1>1, <1>3, <1>4, <1>7, <1>8

\* Four words are cut like a number.
LEMMA TruncateIsCleared ==
  ASSUME NEW a \in Quads, NEW n \in 0..(4 * Word)
  PROVE  ValueOf(Truncate6(a, n)) = Cleared(ValueOf(a), 4 * Word - n)
<1>1. Word \in Nat \ {0}
  BY WordAssumption
<1>2. CASE n = 4 * Word
  <2>1. 4 * Word - n = 0
    BY <1>1, <1>2
  <2>2. PICK x \in Nat : x = ValueOf(a)
    BY ValueBelow
  <2>3. (x \div 1) * 1 = x
    OBVIOUS
  <2>4. Cleared(x, 0) = x
    BY <2>3, PowersOfTwo DEF Cleared
  <2> QED BY <1>2, <2>1, <2>2, <2>4 DEF Truncate6
<1>3. CASE n # 4 * Word
  <2>1. PICK q \in 0..3 : q = n \div Word
    BY <1>3, LengthParts
  <2>2. PICK c \in 1..Word : c = Word - (n % Word)
    <3>1. PICK r \in 0..(Word - 1) : r = n % Word
      BY <1>3, LengthParts
    <3> QED BY <1>1, <3>1
  <2>3. 4 * Word - n = (3 - q) * Word + c
    BY <1>3, <2>1, <2>2, LengthParts
  <2> DEFINE t == Truncate6(a, n)
             K(j) == Cleared(a[j], c)
  <2>4. t = [j \in 1..4 |-> IF j <= q THEN a[j] ELSE IF j = q + 1 THEN K(j) ELSE 0]
    BY <1>3, <2>1, <2>2 DEF Truncate6
  <2>5. c \in Nat /\ c \in 0..Word /\ c \in Bits
    BY <1>1 DEF Bits
  <2>6. PICK m \in Nat \ {0} : m = Modulus
    BY PowersOfWord
  <2>7. ASSUME NEW w \in Words PROVE Cleared(w, c) \in Words /\ w \in Nat
    <3>1. w \in Nat
      BY WordsOf DEF Words
    <3>2. Cleared(w, c) \in Nat /\ Cleared(w, c) <= w
      BY <2>5, <3>1, ClearedTyped
    <3> QED BY <2>6, <3>1, <3>2 DEF Words
  <2>8. 0 \in Words /\ \A j \in 1..4 : a[j] \in Words /\ a[j] \in Nat
    BY <2>6 DEF Words, Quads
  <2>9. \A j \in 1..4 : K(j) \in Words
    BY <2>7, <2>8
  <2>10. t \in Quads
    BY <2>4, <2>8, <2>9 DEF Quads
  <2> HIDE DEF t, K
  <2>11. 1 \in 1..4 /\ 2 \in 1..4 /\ 3 \in 1..4 /\ 4 \in 1..4
    OBVIOUS
  <2>12. PICK h2 \in Nat : h2 = a[1] * m + a[2]
    BY <2>8, <2>11
  <2>13. PICK h3 \in Nat : h3 = h2 * m + a[3]
    BY <2>8, <2>11
  <2>14. ValueOf(a) = h3 * m + a[4]
    BY <2>6, <2>12, <2>13, ValueTurns
  <2>15. ValueOf(t) = ((t[1] * m + t[2]) * m + t[3]) * m + t[4]
    BY <2>6, <2>10, ValueTurns
  <2>16. 0 * m = 0 /\ \A x \in Nat : 0 + x = x /\ x + 0 = x
    OBVIOUS
  <2>17. ASSUME NEW x \in Nat PROVE x * m \in Nat /\ x * m + 0 = x * m
    OBVIOUS
  <2>18. ASSUME NEW x \in Nat, NEW j \in 1..4
         PROVE  Cleared(x * m + a[j], c) = x * m + K(j)
    BY <2>5, <2>6, <2>8, ClearedLow DEF K
  <2>19. ASSUME NEW x \in Nat, NEW j \in 1..4, NEW b \in Nat, Word + b \in Bits
         PROVE  Cleared(x * m + a[j], Word + b) = Cleared(x, b) * m
    BY <2>6, <2>8, <2>19, ClearedHigh
  <2>20. ASSUME NEW j \in 1..4 PROVE K(j) \in Nat
    BY <2>7, <2>9
  <2>21. CASE q = 3
    <3>1. t[1] = a[1] /\ t[2] = a[2] /\ t[3] = a[3] /\ t[4] = K(4)
      BY <2>4, <2>21
    <3>2. 4 * Word - n = c
      BY <1>1, <2>3, <2>5, <2>21
    <3>3. ValueOf(t) = h3 * m + K(4)
      BY <2>12, <2>13, <2>15, <3>1
    <3> QED BY <2>11, <2>14, <2>18, <3>2, <3>3 DEF t
  <2>22. CASE q = 2
    <3>1. t[1] = a[1] /\ t[2] = a[2] /\ t[3] = K(3) /\ t[4] = 0
      BY <2>4, <2>22
    <3>2. 4 * Word - n = Word + c /\ Word + c \in Bits
      BY <1>1, <2>3, <2>5, <2>22 DEF Bits
    <3>3. PICK x \in Nat : x = h2 * m + K(3)
      BY <2>11, <2>17, <2>20
    <3>4. ValueOf(t) = x * m
      BY <2>12, <2>15, <2>17, <3>1, <3>3
    <3>5. Cleared(h3, c) = x
      BY <2>11, <2>13, <2>18, <3>3
    <3> QED BY <2>5, <2>11, <2>14, <2>19, <3>2, <3>4, <3>5 DEF t
  <2>23. CASE q = 1
    <3>1. t[1] = a[1] /\ t[2] = K(2) /\ t[3] = 0 /\ t[4] = 0
      BY <2>4, <2>23
    <3>2. /\ 4 * Word - n = Word + (Word + c) /\ Word + c \in Nat
          /\ Word + c \in Bits /\ Word + (Word + c) \in Bits
      BY <1>1, <2>3, <2>5, <2>23 DEF Bits
    <3>3. PICK x \in Nat : x = a[1] * m + K(2)
      BY <2>8, <2>11, <2>17, <2>20
    <3>4. ValueOf(t) = (x * m) * m
      BY <2>15, <2>17, <3>1, <3>3
    <3>5. Cleared(h2, c) = x
      BY <2>8, <2>11, <2>12, <2>18, <3>3
    <3>6. Cleared(h3, Word + c) = x * m
      BY <2>5, <2>11, <2>13, <2>19, <3>2, <3>5
    <3> QED BY <2>11, <2>14, <2>19, <3>2, <3>4, <3>6 DEF t
  <2>24. CASE q = 0
    <3>1. t[1] = K(1) /\ t[2] = 0 /\ t[3] = 0 /\ t[4] = 0
      BY <2>4, <2>24
    <3>2. /\ 4 * Word - n = Word + (Word + (Word + c))
          /\ Word + c \in Nat /\ Word + (Word + c) \in Nat
          /\ Word + c \in Bits /\ Word + (Word + c) \in Bits
          /\ Word + (Word + (Word + c)) \in Bits
      BY <1>1, <2>3, <2>5, <2>24 DEF Bits
    <3>3. PICK x \in Nat : x = K(1)
      BY <2>11, <2>20
    <3>4. ValueOf(t) = ((x * m) * m) * m
      BY <2>15, <2>17, <3>1, <3>3
    <3>5. Cleared(a[1], c) = x
      BY <3>3 DEF K
    <3>6. Cleared(h2, Word + c) = x * m
      BY <2>5, <2>8, <2>11, <2>12, <2>19, <3>2, <3>5
    <3>7. Cleared(h3, Word + (Word + c)) = (x * m) * m
      BY <2>11, <2>13, <2>19, <3>2, <3>6
    <3> QED BY <2>11, <2>14, <2>19, <3>2, <3>4, <3>7 DEF t
  <2> QED BY <2>21, <2>22, <2>23, <2>24
<1> QED BY <1>2, <1>3

\* IPv6 addresses of words of any number of bits are counted up and cut like
\* numbers.
THEOREM FourWordsAreOne == RangeSpec => []WordsAreNumbers
<1> DEFINE WordsInv == words # NoWords => words \in Quads
<1>1. RangeInit => WordsInv
  BY DEF RangeInit
<1>2. WordsInv /\ [RangeNext]_rangeVars => WordsInv'
  <2>1. Addresses6 \subseteq Quads
    BY WordAssumption DEF Addresses6, Quads
  <2>2. ASSUME NEW a \in Addresses6, ParseSix(a) PROVE WordsInv'
    BY <2>1, <2>2 DEF ParseSix
  <2> QED BY <2>2 DEF RangeNext, AddRoute, FindUsableRange, FindsNothing, rangeVars
<1>3. WordsInv => WordsAreNumbers
  BY IncrementIsSum, TruncateIsCleared DEF WordsAreNumbers
<1> QED BY <1>1, <1>2, <1>3, PTL DEF RangeSpec

-----------------------------------------------------------------------------
(* The heap of events.                                                     *)

Times == [Events -> Nat]
HeapStates(n) == [heap : [1..n -> Events], i : 1..n]

\* The entries from place r on are the events of X, each once.
Once(heap, X, r) ==
  /\ \A j \in DOMAIN heap : j >= r => heap[j] \in X
  /\ \A e \in X : \E j \in DOMAIN heap : j >= r /\ heap[j] = e
  /\ \A j \in DOMAIN heap, k \in DOMAIN heap : j >= r /\ k >= r /\ heap[j] = heap[k] => j = k

\* None of those below place r is earlier than the one above it.
Ordered(heap, times, r) ==
  \A j \in DOMAIN heap : j \div 2 >= r => times[heap[j \div 2]] <= times[heap[j]]

Holds(heap, times, X, r) == Once(heap, X, r) /\ Ordered(heap, times, r)

\* The same, but for the entry at i, which may have to go up.
OrderedBelow(heap, times, r, i) ==
  /\ \A j \in DOMAIN heap : j # i /\ j \div 2 >= r => times[heap[j \div 2]] <= times[heap[j]]
  /\ \A j \in DOMAIN heap : j \div 2 = i /\ i \div 2 >= r => times[heap[i \div 2]] <= times[heap[j]]

\* The entry at i goes no further.
Settled(s, times) == s.i = 1 \/ ~Precedes(times, s.heap[s.i], s.heap[s.i \div 2])

SiftRuns(h, heap, i, times) ==
  /\ h[0] = [heap |-> heap, i |-> i]
  /\ \A k \in 0..(Len(heap) - 1) : h[k + 1] = SiftTurn(h[k], times)
  /\ SiftUp(heap, i, times) = h[Len(heap)].heap

LEMMA Half ==
  \A i \in Nat : /\ i \div 2 \in Nat /\ (i > 1 => i \div 2 >= 1 /\ i \div 2 < i)
                 /\ (i = 2 * (i \div 2) \/ i = 2 * (i \div 2) + 1)
OBVIOUS

LEMMA SiftTyped ==
  ASSUME NEW n \in Nat, NEW times, NEW s \in HeapStates(n)
  PROVE  /\ SiftTurn(s, times) \in HeapStates(n)
         /\ Settled(s, times) => SiftTurn(s, times) = s
         /\ ~Settled(s, times) => SiftTurn(s, times).i < s.i
<1>1. PICK heap \in [1..n -> Events], i \in 1..n : s = [heap |-> heap, i |-> i]
  BY DEF HeapStates
<1>2. CASE Settled(s, times)
  BY <1>2 DEF SiftTurn, Settled
<1>3. CASE ~Settled(s, times)
  <2> DEFINE p == i \div 2
  <2>1. p \in 1..n /\ p < i
    BY <1>1, <1>3, Half DEF Settled
  <2>2. SiftTurn(s, times) = [heap |-> [heap EXCEPT ![i] = heap[p], ![p] = heap[i]], i |-> p]
    BY <1>1, <1>3 DEF SiftTurn, Settled
  <2> HIDE DEF p
  <2> QED BY <1>1, <1>3, <2>1, <2>2 DEF HeapStates
<1> QED BY <1>2, <1>3

LEMMA SiftTurns ==
  ASSUME NEW n \in Nat, NEW heap \in [1..n -> Events], NEW i \in 1..n, NEW times
  PROVE  \E h \in [0..n -> HeapStates(n)] : SiftRuns(h, heap, i, times)
<1> DEFINE d == [heap |-> heap, i |-> i]
           X == HeapStates(n)
           Turns(h) == h = [s \in SUBSET (1..n) |->
                              IF s = {} THEN d ELSE SiftTurn(h[s \ {Max(s)}], times)]
           iter == CHOOSE h : Turns(h)
           f == [j \in Nat |-> [s \in X |-> SiftTurn(s, times)]]
<1>0. d \in X /\ Len(heap) = n /\ DOMAIN heap = 1..n
  BY DEF HeapStates
<1>1. SiftUp(heap, i, times) = iter[1..n].heap
  BY <1>0 DEF SiftUp, FoldLeft, MapThenFoldSet
<1> HIDE DEF d, X
<1>2. \E h : Turns(h)
  <2>1. f \in [Nat -> [X -> X]]
    BY SiftTyped DEF X
  <2>2. PICK h \in [SUBSET (1..n) -> X] : FromLast(h, f, d, n)
    <3> HIDE DEF f
    <3> QED BY <1>0, <2>1, Iterates
  <2>3. ASSUME NEW s \in SUBSET (1..n)
        PROVE  h[s] = IF s = {} THEN d ELSE SiftTurn(h[s \ {Max(s)}], times)
    <3>1. CASE s = {}
      BY <2>2, <3>1 DEF FromLast
    <3>2. CASE s # {}
      <4>1. h[s \ {Max(s)}] \in X
        OBVIOUS
      <4>2. Max(s) \in Nat
        BY <3>2, MaxIsOne
      <4> QED BY <2>2, <3>2, <4>1, <4>2 DEF FromLast
    <3> QED BY <3>1, <3>2
  <2>4. Turns(h)
    BY <2>3
  <2> QED BY <2>4
<1>3. Turns(iter)
  BY <1>2
<1> HIDE DEF iter
<1> DEFINE g == [k \in 0..n |-> iter[1..k]]
<1>4. g[0] = d
  <2>1. 1..0 = {}
    OBVIOUS
  <2> QED BY <1>3, <2>1
<1>5. ASSUME NEW k \in 0..(n - 1) PROVE g[k + 1] = SiftTurn(g[k], times)
  <2>1. 1..(k + 1) \in SUBSET (1..n) /\ k \in 0..n /\ k + 1 \in 0..n /\ k \in Nat
    OBVIOUS
  <2>2. /\ Max(1..(k + 1)) = k + 1
        /\ 1..(k + 1) # {} /\ (1..(k + 1)) \ {k + 1} = 1..k
    BY <2>1, LastOfInterval
  <2> QED BY <1>3, <2>1, <2>2
<1>6. g[n] = iter[1..n]
  OBVIOUS
<1> DEFINE S == {k \in 0..n : g[k] \in X}
<1> HIDE DEF g
<1>7. \A k \in 0..n : k \in S
  <2>1. 0 \in S
    BY <1>0, <1>4
  <2>2. ASSUME NEW k \in 0..(n - 1), k \in S PROVE k + 1 \in S
    <3>1. g[k] \in X /\ k + 1 \in 0..n
      BY <2>2
    <3> QED BY <1>5, <3>1, SiftTyped DEF X
  <2> HIDE DEF S
  <2> QED BY <2>1, <2>2, UpTo
<1>8. g \in [0..n -> X]
  <2>1. \A k \in 0..n : g[k] \in X
    BY <1>7
  <2> QED BY <2>1 DEF g
<1>9. SiftRuns(g, heap, i, times)
  BY <1>0, <1>1, <1>4, <1>5, <1>6 DEF SiftRuns, d
<1> QED BY <1>8, <1>9 DEF X

\* What every turn keeps: the entry that goes up is not earlier than the root, if that
\* is not to move (r = 2).
Rising(s, n, times, X, r, root) ==
  /\ s \in HeapStates(n) /\ s.i >= r
  /\ Once(s.heap, X, r) /\ OrderedBelow(s.heap, times, r, s.i)
  /\ r = 2 => s.heap[1] = root /\ times[root] <= times[s.heap[s.i]]

LEMMA SwapOnce ==
  ASSUME NEW n \in Nat, NEW heap \in [1..n -> Events], NEW X, NEW r \in 1..2,
         NEW i \in r..n, NEW p \in r..n, p # i, Once(heap, X, r)
  PROVE  Once([heap EXCEPT ![i] = heap[p], ![p] = heap[i]], X, r)
<1> DEFINE g == [heap EXCEPT ![i] = heap[p], ![p] = heap[i]]
           to == [j \in 1..n |-> IF j = i THEN p ELSE IF j = p THEN i ELSE j]
<1>1. DOMAIN heap = 1..n /\ DOMAIN g = 1..n /\ i \in 1..n /\ p \in 1..n
  OBVIOUS
<1>2. \A j \in 1..n : /\ to[j] \in 1..n /\ g[j] = heap[to[j]] /\ to[to[j]] = j
                      /\ (j >= r => to[j] >= r)
  BY <1>1
<1>3. \A j \in 1..n, k \in 1..n : to[j] = to[k] => j = k
  BY <1>2
<1> HIDE DEF g, to
<1>4. \A j \in 1..n : j >= r => g[j] \in X
  BY <1>1, <1>2 DEF Once
<1>5. ASSUME NEW e \in X PROVE \E j \in 1..n : j >= r /\ g[j] = e
  <2>1. PICK k \in 1..n : k >= r /\ heap[k] = e
    BY <1>1 DEF Once
  <2>2. to[k] \in 1..n /\ to[k] >= r /\ g[to[k]] = e
    BY <1>2, <2>1
  <2> QED BY <2>2
<1>6. ASSUME NEW j \in 1..n, NEW k \in 1..n, j >= r, k >= r, g[j] = g[k] PROVE j = k
  <2>1. to[j] = to[k]
    BY <1>1, <1>2, <1>6 DEF Once
  <2> QED BY <1>3, <2>1
<1>7. Once(g, X, r)
  BY <1>1, <1>4, <1>5, <1>6 DEF Once
<1> QED BY <1>7 DEF g

LEMMA SwapOrdered ==
  ASSUME NEW n \in Nat, NEW heap \in [1..n -> Events], NEW times \in Times,
         NEW r \in 1..2, NEW i \in 2..n, i \div 2 >= r, OrderedBelow(heap, times, r, i),
         times[heap[i]] < times[heap[i \div 2]]
  PROVE  OrderedBelow([heap EXCEPT ![i] = heap[i \div 2], ![i \div 2] = heap[i]],
                      times, r, i \div 2)
<1>1. PICK p \in 1..n : p = i \div 2 /\ p < i /\ p >= r
  BY Half
<1> DEFINE g == [heap EXCEPT ![i] = heap[p], ![p] = heap[i]]
           at == [j \in 1..n |-> times[heap[j]]]
<1>2. /\ i \in 1..n /\ DOMAIN heap = 1..n /\ DOMAIN g = 1..n
      /\ \A j \in 1..n : times[heap[j]] = at[j] /\ at[j] \in Nat
      /\ \A j \in 1..n : times[g[j]] = IF j = i THEN at[p] ELSE IF j = p THEN at[i] ELSE at[j]
      /\ at[i] < at[p]
  BY <1>1 DEF Times
<1>3. /\ \A j \in 1..n : j # i /\ j \div 2 >= r => at[j \div 2] <= at[j]
      /\ \A j \in 1..n : j \div 2 = i => at[p] <= at[j]
      /\ \A j \in 1..n : j \div 2 >= 1 => j \div 2 \in 1..n /\ j \div 2 < j
  <2>1. \A j \in 1..n : j \div 2 >= r => j \div 2 \in 1..n
    BY Half
  <2>2. \A j \in 1..n : j \div 2 >= 1 => j \div 2 \in 1..n /\ j \div 2 < j
    BY Half
  <2> QED BY <1>1, <1>2, <2>1, <2>2 DEF OrderedBelow
<1> HIDE DEF g, at
<1>4. ASSUME NEW j \in 1..n, j # p, j \div 2 >= r PROVE times[g[j \div 2]] <= times[g[j]]
  <2>1. PICK q \in 1..n : q = j \div 2 /\ q < j
    BY <1>3, <1>4
  <2> QED BY <1>1, <1>2, <1>3, <1>4, <2>1
<1>5. ASSUME NEW j \in 1..n, j \div 2 = p, p \div 2 >= r PROVE times[g[p \div 2]] <= times[g[j]]
  <2>1. PICK q \in 1..n : q = p \div 2 /\ q < p
    BY <1>1, <1>3, <1>5
  <2>2. at[q] <= at[p]
    BY <1>1, <1>3, <1>5, <2>1
  <2>3. j # p /\ (j # i => at[p] <= at[j])
    BY <1>1, <1>3, <1>5
  <2> QED BY <1>1, <1>2, <2>1, <2>2, <2>3
<1>6. OrderedBelow(g, times, r, p)
  BY <1>2, <1>4, <1>5 DEF OrderedBelow
<1> QED BY <1>1, <1>6 DEF g

LEMMA RisingTurn ==
  ASSUME NEW n \in Nat, NEW times \in Times, NEW X, NEW r \in 1..2, NEW root \in Events,
         NEW s, Rising(s, n, times, X, r, root)
  PROVE  Rising(SiftTurn(s, times), n, times, X, r, root)
<1>1. PICK heap \in [1..n -> Events], i \in 1..n : s = [heap |-> heap, i |-> i]
  BY DEF Rising, HeapStates
<1>2. CASE Settled(s, times)
  BY <1>2, SiftTyped DEF Rising
<1>3. CASE ~Settled(s, times)
  <2>1. /\ i \in 2..n /\ times[heap[i]] < times[heap[i \div 2]]
        /\ SiftTurn(s, times) =
             [heap |-> [heap EXCEPT ![i] = heap[i \div 2], ![i \div 2] = heap[i]],
              i    |-> i \div 2]
    BY <1>1, <1>3 DEF Settled, SiftTurn, Precedes
  <2>2. i \div 2 \in 1..n /\ i \div 2 < i
    BY <2>1, Half
  <2>3. i \div 2 >= r
    <3>1. ASSUME r = 2 PROVE i \div 2 # 1
      <4>1. heap[1] = root /\ times[root] <= times[heap[i]]
        BY <1>1, <3>1 DEF Rising
      <4>2. times[root] \in Nat /\ times[heap[i]] \in Nat
        BY <1>1 DEF Times
      <4> QED BY <2>1, <4>1, <4>2
    <3> QED BY <2>2, <3>1
  <2> DEFINE g == [heap EXCEPT ![i] = heap[i \div 2], ![i \div 2] = heap[i]]
  <2>4. Once(g, X, r)
    <3>1. i \in r..n /\ i \div 2 \in r..n /\ Once(heap, X, r)
      BY <1>1, <2>1, <2>2, <2>3 DEF Rising
    <3> QED BY <2>2, <3>1, SwapOnce
  <2>5. OrderedBelow(g, times, r, i \div 2)
    <3>1. OrderedBelow(heap, times, r, i)
      BY <1>1 DEF Rising
    <3> QED BY <2>1, <2>3, <3>1, SwapOrdered
  <2>6. r = 2 => g[1] = root /\ times[root] <= times[g[i \div 2]]
    BY <1>1, <2>1, <2>2, <2>3 DEF Rising
  <2>7. g \in [1..n -> Events]
    BY <2>1, <2>2
  <2>8. PICK q \in 1..n, t \in [1..n -> Events] : q = i \div 2 /\ t = g
    BY <2>2, <2>7
  <2> HIDE DEF g
  <2>9. SiftTurn(s, times) = [heap |-> t, i |-> q]
    BY <2>1, <2>8 DEF g
  <2> QED BY <2>3, <2>4, <2>5, <2>6, <2>8, <2>9 DEF Rising, HeapStates
<1> QED BY <1>2, <1>3

\* Sifting up puts the entry at i into its place.
LEMMA SiftsUp ==
  ASSUME NEW n \in Nat, NEW heap \in [1..n -> Events], NEW i \in 1..n, NEW times \in Times,
         NEW X, NEW r \in 1..2, i >= r,
         Once(heap, X, r), OrderedBelow(heap, times, r, i),
         r = 2 => times[heap[1]] <= times[heap[i]]
  PROVE  /\ SiftUp(heap, i, times) \in [1..n -> Events]
         /\ Holds(SiftUp(heap, i, times), times, X, r)
         /\ r = 2 => SiftUp(heap, i, times)[1] = heap[1]
<1>1. PICK h \in [0..n -> HeapStates(n)] : SiftRuns(h, heap, i, times)
  BY SiftTurns
<1>2. PICK root \in Events : root = heap[1]
  <2>1. 1 \in 1..n
    OBVIOUS
  <2> QED BY <2>1
<1> DEFINE Good(s) == Rising(s, n, times, X, r, root)
           S == {k \in 0..n : Good(h[k]) /\ (Settled(h[k], times) \/ h[k].i + k <= i)}
<1>3. Len(heap) = n /\ DOMAIN heap = 1..n
  OBVIOUS
<1>4. 0 \in S
  <2>1. h[0] = [heap |-> heap, i |-> i]
    BY <1>1 DEF SiftRuns
  <2>2. Good(h[0])
    <3>1. h[0] \in HeapStates(n)
      BY DEF HeapStates
    <3> QED BY <1>2, <2>1, <3>1 DEF Rising
  <2>3. h[0].i + 0 <= i
    BY <2>1
  <2> QED BY <2>2, <2>3
<1>5. ASSUME NEW k \in 0..(n - 1), k \in S PROVE k + 1 \in S
  <2>1. h[k + 1] = SiftTurn(h[k], times) /\ k + 1 \in 0..n /\ k \in 0..n
    BY <1>1, <1>3 DEF SiftRuns
  <2>2. Good(h[k + 1])
    BY <1>5, <2>1, RisingTurn
  <2>3. PICK s \in HeapStates(n) : s = h[k]
    BY <2>1
  <2>4. s.i \in Nat /\ h[k + 1].i \in Nat
    <3>1. \A t \in HeapStates(n) : t.i \in Nat
      BY DEF HeapStates
    <3> QED BY <2>1, <2>3, <3>1
  <2>5. Settled(h[k + 1], times) \/ h[k + 1].i + (k + 1) <= i
    <3>1. CASE Settled(s, times)
      BY <2>1, <2>3, <3>1, SiftTyped
    <3>2. CASE ~Settled(s, times)
      <4>1. h[k + 1].i < s.i /\ s.i + k <= i
        BY <1>5, <2>1, <2>3, <3>2, SiftTyped
      <4> QED BY <2>4, <4>1
    <3> QED BY <3>1, <3>2
  <2> QED BY <2>1, <2>2, <2>5
<1>6. \A k \in 0..n : k \in S
  <2> HIDE DEF S
  <2> QED BY <1>4, <1>5, UpTo
<1>7. n \in S /\ n \in 0..n
  BY <1>6
<1>8. PICK g \in [1..n -> Events], p \in 1..n : h[n] = [heap |-> g, i |-> p]
  BY <1>7 DEF HeapStates
<1>9. Settled(h[n], times)
  BY <1>7, <1>8
<1>10. SiftUp(heap, i, times) = g
  BY <1>1, <1>3, <1>8 DEF SiftRuns
<1>11. Once(g, X, r) /\ OrderedBelow(g, times, r, p) /\ (r = 2 => g[1] = root)
  BY <1>7, <1>8 DEF Rising
<1>12. Ordered(g, times, r)
  <2>1. ASSUME NEW j \in 1..n, j \div 2 >= r PROVE times[g[j \div 2]] <= times[g[j]]
    <3>1. CASE j # p
      BY <1>11, <2>1, <3>1 DEF OrderedBelow
    <3>2. CASE j = p
      <4>1. j # 1 /\ j \div 2 \in 1..n
        BY <2>1, Half
      <4>2. times[g[j]] \in Nat /\ times[g[j \div 2]] \in Nat
        BY <4>1 DEF Times
      <4> QED BY <1>8, <1>9, <3>2, <4>1, <4>2 DEF Settled, Precedes
    <3> QED BY <3>1, <3>2
  <2> QED BY <2>1 DEF Ordered
<1> QED BY <1>2, <1>10, <1>11, <1>12 DEF Holds

\* There is no entry below the hole.
AtLeaf(s) == 2 * s.i > Len(s.heap)

SinkRuns(h, heap, times) ==
  /\ h[0] = [heap |-> heap, i |-> 1]
  /\ \A k \in 0..(Len(heap) - 1) : h[k + 1] = SinkTurn(h[k], times)
  /\ Sunk(heap, times) = h[Len(heap)]

\* The lower of the two entries below, or the only one.
LEMMA SinkTyped ==
  ASSUME NEW n \in Nat, NEW times, NEW s \in HeapStates(n)
  PROVE  /\ SinkTurn(s, times) \in HeapStates(n)
         /\ AtLeaf(s) => SinkTurn(s, times) = s
         /\ ~AtLeaf(s) =>
              \E c \in 1..n :
                /\ c \div 2 = s.i /\ c > s.i
                /\ SinkTurn(s, times) = [heap |-> [s.heap EXCEPT ![s.i] = s.heap[c]], i |-> c]
                /\ \A j \in 1..n : j \div 2 = s.i /\ j # c =>
                     \/ ~Precedes(times, s.heap[j], s.heap[c])
                     \/ Precedes(times, s.heap[c], s.heap[j])
<1>1. PICK heap \in [1..n -> Events], i \in 1..n : s = [heap |-> heap, i |-> i]
  BY DEF HeapStates
<1>2. Len(heap) = n
  OBVIOUS
<1>3. CASE AtLeaf(s)
  BY <1>1, <1>2, <1>3 DEF SinkTurn, AtLeaf
<1>4. CASE ~AtLeaf(s)
  <2> DEFINE left == 2 * i
             right == left + 1
             c == IF right <= n /\ ~Precedes(times, heap[left], heap[right]) THEN right ELSE left
  <2>1. c \in 1..n /\ c > i /\ c \div 2 = i
    <3>1. left <= n /\ left \in Nat
      BY <1>1, <1>2, <1>4 DEF AtLeaf
    <3>2. \A k \in Nat : (2 * k) \div 2 = k /\ (2 * k + 1) \div 2 = k
      OBVIOUS
    <3> QED BY <3>1, <3>2
  <2>2. SinkTurn(s, times) = [heap |-> [heap EXCEPT ![i] = heap[c]], i |-> c]
    BY <1>1, <1>2, <1>4 DEF SinkTurn, AtLeaf
  <2>3. ASSUME NEW j \in 1..n, j \div 2 = i, j # c
        PROVE  ~Precedes(times, heap[j], heap[c]) \/ Precedes(times, heap[c], heap[j])
    <3>1. j = left \/ j = right
      BY <2>3, Half
    <3>2. c = IF right <= n /\ ~Precedes(times, heap[left], heap[right]) THEN right ELSE left
      OBVIOUS
    <3> HIDE DEF c
    <3>3. left # right /\ left \in Nat /\ right \in Nat
      OBVIOUS
    <3> HIDE DEF left, right
    <3>4. CASE c = left
      <4>1. j = right /\ right <= n
        BY <2>3, <3>1, <3>4
      <4> QED BY <3>2, <3>3, <3>4, <4>1, Zenon
    <3>5. CASE c = right
      <4>1. j = left
        BY <2>3, <3>1, <3>5
      <4> QED BY <3>2, <3>3, <3>5, <4>1, Zenon
    <3> QED BY <3>2, <3>4, <3>5
  <2>4. SinkTurn(s, times) \in HeapStates(n)
    <3> HIDE DEF c
    <3> QED BY <2>1, <2>2 DEF HeapStates
  <2>5. s.heap = heap /\ s.i = i
    BY <1>1
  <2> HIDE DEF c
  <2> QED BY <1>4, <2>1, <2>2, <2>3, <2>4, <2>5, Zenon
<1> QED BY <1>3, <1>4

LEMMA SinkTurns ==
  ASSUME NEW n \in Nat, n > 0, NEW heap \in [1..n -> Events], NEW times
  PROVE  \E h \in [0..n -> HeapStates(n)] : SinkRuns(h, heap, times)
<1> DEFINE d == [heap |-> heap, i |-> 1]
           X == HeapStates(n)
           Turns(h) == h = [s \in SUBSET (1..n) |->
                              IF s = {} THEN d ELSE SinkTurn(h[s \ {Max(s)}], times)]
           iter == CHOOSE h : Turns(h)
           f == [j \in Nat |-> [s \in X |-> SinkTurn(s, times)]]
<1>0. d \in X /\ Len(heap) = n /\ DOMAIN heap = 1..n
  BY DEF HeapStates
<1>1. Sunk(heap, times) = iter[1..n]
  BY <1>0 DEF Sunk, FoldLeft, MapThenFoldSet
<1> HIDE DEF d, X
<1>2. \E h : Turns(h)
  <2>1. f \in [Nat -> [X -> X]]
    BY SinkTyped DEF X
  <2>2. PICK h \in [SUBSET (1..n) -> X] : FromLast(h, f, d, n)
    <3> HIDE DEF f
    <3> QED BY <1>0, <2>1, Iterates
  <2>3. ASSUME NEW s \in SUBSET (1..n)
        PROVE  h[s] = IF s = {} THEN d ELSE SinkTurn(h[s \ {Max(s)}], times)
    <3>1. CASE s = {}
      BY <2>2, <3>1 DEF FromLast
    <3>2. CASE s # {}
      <4>1. h[s \ {Max(s)}] \in X
        OBVIOUS
      <4>2. Max(s) \in Nat
        BY <3>2, MaxIsOne
      <4> QED BY <2>2, <3>2, <4>1, <4>2 DEF FromLast
    <3> QED BY <3>1, <3>2
  <2>4. Turns(h)
    BY <2>3
  <2> QED BY <2>4
<1>3. Turns(iter)
  BY <1>2
<1> HIDE DEF iter
<1> DEFINE g == [k \in 0..n |-> iter[1..k]]
<1>4. g[0] = d
  <2>1. 1..0 = {}
    OBVIOUS
  <2> QED BY <1>3, <2>1
<1>5. ASSUME NEW k \in 0..(n - 1) PROVE g[k + 1] = SinkTurn(g[k], times)
  <2>1. 1..(k + 1) \in SUBSET (1..n) /\ k \in 0..n /\ k + 1 \in 0..n /\ k \in Nat
    OBVIOUS
  <2>2. /\ Max(1..(k + 1)) = k + 1
        /\ 1..(k + 1) # {} /\ (1..(k + 1)) \ {k + 1} = 1..k
    BY <2>1, LastOfInterval
  <2> QED BY <1>3, <2>1, <2>2
<1>6. g[n] = iter[1..n]
  OBVIOUS
<1> DEFINE S == {k \in 0..n : g[k] \in X}
<1> HIDE DEF g
<1>7. \A k \in 0..n : k \in S
  <2>1. 0 \in S
    BY <1>0, <1>4
  <2>2. ASSUME NEW k \in 0..(n - 1), k \in S PROVE k + 1 \in S
    <3>1. g[k] \in X /\ k + 1 \in 0..n
      BY <2>2
    <3> QED BY <1>5, <3>1, SinkTyped DEF X
  <2> HIDE DEF S
  <2> QED BY <2>1, <2>2, UpTo
<1>8. g \in [0..n -> X]
  <2>1. \A k \in 0..n : g[k] \in X
    BY <1>7
  <2> QED BY <2>1 DEF g
<1>9. SinkRuns(g, heap, times)
  BY <1>0, <1>1, <1>4, <1>5, <1>6 DEF SinkRuns, d
<1> QED BY <1>8, <1>9 DEF X

\* All entries but the one at the hole are the events of X, each once, and none is
\* earlier than those above it.
OnceBut(heap, X, i) ==
  /\ \A j \in DOMAIN heap : j # i => heap[j] \in X
  /\ \A e \in X : \E j \in DOMAIN heap : j # i /\ heap[j] = e
  /\ \A j \in DOMAIN heap, k \in DOMAIN heap : j # i /\ k # i /\ heap[j] = heap[k] => j = k

OrderedAround(heap, times, i) ==
  /\ \A j \in DOMAIN heap : j # i /\ j \div 2 # i /\ j \div 2 >= 1 =>
       times[heap[j \div 2]] <= times[heap[j]]
  /\ \A j \in DOMAIN heap : j \div 2 = i /\ i \div 2 >= 1 =>
       times[heap[i \div 2]] <= times[heap[j]]

Sinking(s, n, times, X) ==
  /\ s \in HeapStates(n)
  /\ OnceBut(s.heap, X, s.i) /\ OrderedAround(s.heap, times, s.i)

LEMMA MoveOnce ==
  ASSUME NEW n \in Nat, NEW heap \in [1..n -> Events], NEW X,
         NEW i \in 1..n, NEW c \in 1..n, i # c, OnceBut(heap, X, i)
  PROVE  OnceBut([heap EXCEPT ![i] = heap[c]], X, c)
<1> DEFINE g == [heap EXCEPT ![i] = heap[c]]
           to == [j \in 1..n |-> IF j = i THEN c ELSE j]
<1>1. DOMAIN heap = 1..n /\ DOMAIN g = 1..n
  OBVIOUS
<1>2. \A j \in 1..n : j # c => to[j] \in 1..n /\ g[j] = heap[to[j]] /\ to[j] # i
  OBVIOUS
<1>3. \A j \in 1..n, k \in 1..n : j # c /\ k # c /\ to[j] = to[k] => j = k
  OBVIOUS
<1>4. \A k \in 1..n : k # i => \E j \in 1..n : j # c /\ g[j] = heap[k]
  <2>1. g[i] = heap[c] /\ \A k \in 1..n : k # i => g[k] = heap[k]
    OBVIOUS
  <2> QED BY <2>1
<1> HIDE DEF g, to
<1>5. \A j \in 1..n : j # c => g[j] \in X
  BY <1>1, <1>2 DEF OnceBut
<1>6. ASSUME NEW e \in X PROVE \E j \in 1..n : j # c /\ g[j] = e
  <2>1. PICK k \in 1..n : k # i /\ heap[k] = e
    BY <1>1 DEF OnceBut
  <2> QED BY <1>4, <2>1
<1>7. ASSUME NEW j \in 1..n, NEW k \in 1..n, j # c, k # c, g[j] = g[k] PROVE j = k
  <2>1. to[j] = to[k]
    BY <1>1, <1>2, <1>7 DEF OnceBut
  <2> QED BY <1>3, <1>7, <2>1
<1>8. OnceBut(g, X, c)
  BY <1>1, <1>5, <1>6, <1>7 DEF OnceBut
<1> QED BY <1>8 DEF g

LEMMA MoveOrdered ==
  ASSUME NEW n \in Nat, NEW heap \in [1..n -> Events], NEW times \in Times,
         NEW i \in 1..n, NEW c \in 1..n, c \div 2 = i, c > i, OrderedAround(heap, times, i),
         \A j \in 1..n : j \div 2 = i => times[heap[c]] <= times[heap[j]]
  PROVE  OrderedAround([heap EXCEPT ![i] = heap[c]], times, c)
<1> DEFINE g == [heap EXCEPT ![i] = heap[c]]
           at == [j \in 1..n |-> times[heap[j]]]
<1>1. /\ DOMAIN heap = 1..n /\ DOMAIN g = 1..n
      /\ \A j \in 1..n : times[heap[j]] = at[j] /\ at[j] \in Nat
      /\ \A j \in 1..n : times[g[j]] = IF j = i THEN at[c] ELSE at[j]
  BY DEF Times
<1>2. /\ \A j \in 1..n : j # i /\ j \div 2 # i /\ j \div 2 >= 1 => at[j \div 2] <= at[j]
      /\ \A j \in 1..n : j \div 2 = i /\ i \div 2 >= 1 => at[i \div 2] <= at[j]
      /\ \A j \in 1..n : j \div 2 = i => at[c] <= at[j]
      /\ \A j \in 1..n : j \div 2 >= 1 => j \div 2 \in 1..n /\ j \div 2 < j
  <2>1. \A j \in 1..n : j \div 2 >= 1 => j \div 2 \in 1..n /\ j \div 2 < j
    BY Half
  <2> QED BY <1>1, <2>1 DEF OrderedAround
<1> HIDE DEF g, at
<1>3. ASSUME NEW j \in 1..n, j # c, j \div 2 # c, j \div 2 >= 1
      PROVE  times[g[j \div 2]] <= times[g[j]]
  <2>1. PICK q \in 1..n : q = j \div 2 /\ q < j
    BY <1>2, <1>3
  <2>2. CASE j = i
    BY <1>1, <1>2, <1>3, <2>1, <2>2
  <2>3. CASE j # i /\ q = i
    BY <1>1, <1>2, <1>3, <2>1, <2>3
  <2>4. CASE j # i /\ q # i
    BY <1>1, <1>2, <1>3, <2>1, <2>4
  <2> QED BY <2>2, <2>3, <2>4
<1>4. ASSUME NEW j \in 1..n, j \div 2 = c PROVE times[g[c \div 2]] <= times[g[j]]
  <2>1. j # i /\ c # i /\ j \div 2 >= 1
    BY <1>2, <1>4
  <2>2. at[c] <= at[j]
    BY <1>2, <1>4, <2>1
  <2> QED BY <1>1, <2>1, <2>2
<1>5. OrderedAround(g, times, c)
  BY <1>1, <1>3, <1>4 DEF OrderedAround
<1> QED BY <1>5 DEF g

LEMMA SinkingTurn ==
  ASSUME NEW n \in Nat, NEW times \in Times, NEW X, NEW s, Sinking(s, n, times, X)
  PROVE  Sinking(SinkTurn(s, times), n, times, X)
<1>1. PICK heap \in [1..n -> Events], i \in 1..n : s = [heap |-> heap, i |-> i]
  BY DEF Sinking, HeapStates
<1>2. CASE AtLeaf(s)
  BY <1>2, SinkTyped DEF Sinking
<1>3. CASE ~AtLeaf(s)
  <2>1. PICK c \in 1..n :
          /\ c \div 2 = i /\ c > i
          /\ SinkTurn(s, times) = [heap |-> [heap EXCEPT ![i] = heap[c]], i |-> c]
          /\ \A j \in 1..n : j \div 2 = i /\ j # c =>
               \/ ~Precedes(times, heap[j], heap[c])
               \/ Precedes(times, heap[c], heap[j])
    <3>1. s \in HeapStates(n) /\ s.heap = heap /\ s.i = i
      BY <1>1 DEF Sinking
    <3>2. PICK c \in 1..n :
            /\ c \div 2 = s.i /\ c > s.i
            /\ SinkTurn(s, times) = [heap |-> [s.heap EXCEPT ![s.i] = s.heap[c]], i |-> c]
            /\ \A j \in 1..n : j \div 2 = s.i /\ j # c =>
                 \/ ~Precedes(times, s.heap[j], s.heap[c])
                 \/ Precedes(times, s.heap[c], s.heap[j])
      BY <1>3, <3>1, SinkTyped
    <3> QED BY <3>1, <3>2
  <2>2. \A j \in 1..n : j \div 2 = i => times[heap[c]] <= times[heap[j]]
    <3>1. \A j \in 1..n : times[heap[j]] \in Nat
      BY DEF Times
    <3> QED BY <2>1, <3>1 DEF Precedes
  <2>3. OnceBut(heap, X, i) /\ OrderedAround(heap, times, i)
    BY <1>1 DEF Sinking
  <2>4. PICK g \in [1..n -> Events] : g = [heap EXCEPT ![i] = heap[c]]
    OBVIOUS
  <2>5. OnceBut(g, X, c)
    BY <2>1, <2>3, <2>4, MoveOnce
  <2>6. OrderedAround(g, times, c)
    BY <2>1, <2>2, <2>3, <2>4, MoveOrdered
  <2>7. SinkTurn(s, times) = [heap |-> g, i |-> c]
    BY <2>1, <2>4
  <2> QED BY <2>5, <2>6, <2>7 DEF Sinking, HeapStates
<1> QED BY <1>2, <1>3

\* The hole gets to a leaf.
LEMMA SinksDown ==
  ASSUME NEW n \in Nat, n > 0, NEW heap \in [1..n -> Events], NEW times \in Times, NEW X,
         OnceBut(heap, X, 1), OrderedAround(heap, times, 1)
  PROVE  Sinking(Sunk(heap, times), n, times, X) /\ AtLeaf(Sunk(heap, times))
<1>1. PICK h \in [0..n -> HeapStates(n)] : SinkRuns(h, heap, times)
  BY SinkTurns
<1> DEFINE Good(s) == Sinking(s, n, times, X)
           S == {k \in 0..n : Good(h[k]) /\ (AtLeaf(h[k]) \/ h[k].i > k)}
<1>2. Len(heap) = n /\ DOMAIN heap = 1..n
  OBVIOUS
<1>3. 0 \in S
  <2>1. h[0] = [heap |-> heap, i |-> 1]
    BY <1>1 DEF SinkRuns
  <2>2. Good(h[0])
    <3>1. h[0] \in HeapStates(n)
      BY DEF HeapStates
    <3> QED BY <2>1, <3>1 DEF Sinking
  <2>3. h[0].i > 0
    BY <2>1
  <2> QED BY <2>2, <2>3
<1>4. ASSUME NEW k \in 0..(n - 1), k \in S PROVE k + 1 \in S
  <2>1. h[k + 1] = SinkTurn(h[k], times) /\ k + 1 \in 0..n /\ k \in 0..n
    BY <1>1, <1>2 DEF SinkRuns
  <2>2. Good(h[k + 1])
    BY <1>4, <2>1, SinkingTurn
  <2>3. PICK s \in HeapStates(n) : s = h[k]
    BY <2>1
  <2>4. s.i \in Nat
    <3>1. \A t \in HeapStates(n) : t.i \in Nat
      BY DEF HeapStates
    <3> QED BY <3>1
  <2>5. AtLeaf(h[k + 1]) \/ h[k + 1].i > k + 1
    <3>1. CASE AtLeaf(s)
      BY <2>1, <2>3, <3>1, SinkTyped
    <3>2. CASE ~AtLeaf(s)
      <4>1. PICK c \in 1..n :
              /\ c > s.i
              /\ SinkTurn(s, times) = [heap |-> [s.heap EXCEPT ![s.i] = s.heap[c]], i |-> c]
        BY <3>2, SinkTyped
      <4>2. h[k + 1].i = c /\ s.i > k
        BY <1>4, <2>1, <2>3, <3>2, <4>1
      <4> QED BY <2>4, <4>1, <4>2
    <3> QED BY <3>1, <3>2
  <2> QED BY <2>1, <2>2, <2>5
<1>5. \A k \in 0..n : k \in S
  <2> HIDE DEF S
  <2> QED BY <1>3, <1>4, UpTo
<1>6. n \in S /\ n \in 0..n
  BY <1>5
<1>7. PICK g \in [1..n -> Events], p \in 1..n : h[n] = [heap |-> g, i |-> p]
  BY <1>6 DEF HeapStates
<1>8. AtLeaf(h[n])
  BY <1>6, <1>7
<1>9. Sunk(heap, times) = h[n]
  BY <1>1, <1>2 DEF SinkRuns
<1> QED BY <1>6, <1>8, <1>9

\* Popping takes the entry at the top away, whatever its time has become.
LEMMA PopTakesTop ==
  ASSUME NEW heap \in Seq(Events), heap # <<>>, NEW times \in Times, NEW X,
         Holds(heap, times, X, 2)
  PROVE  /\ Pop(heap, times) \in Seq(Events)
         /\ Holds(Pop(heap, times), times, X, 1)
<1>1. PICK n \in Nat : n = Len(heap) /\ n > 0 /\ DOMAIN heap = 1..n /\ heap \in [1..n -> Events]
  OBVIOUS
<1>2. CASE n = 1
  <2>1. X = {}
    BY <1>1, <1>2 DEF Holds, Once
  <2>2. Pop(heap, times) = <<>>
    BY <1>1, <1>2 DEF Pop
  <2>3. <<>> \in Seq(Events) /\ DOMAIN <<>> = {}
    OBVIOUS
  <2> QED BY <2>1, <2>2, <2>3 DEF Holds, Once, Ordered
<1>3. CASE n # 1
  <2>1. PICK m \in Nat : m = n - 1 /\ m > 0 /\ n \notin 1..m /\ \A j \in 1..m : j \in 1..n
    <3>1. n - 1 \in Nat /\ n - 1 > 0 /\ n \notin 1..(n - 1) /\ \A j \in 1..(n - 1) : j \in 1..n
      BY <1>1, <1>3
    <3> QED BY <3>1
  <2>2. PICK front \in [1..m -> Events] :
          front = Front(heap) /\ DOMAIN front = 1..m /\ \A j \in 1..m : front[j] = heap[j]
    <3>1. Front(heap) = SubSeq(heap, 1, m)
      BY <1>1, <2>1 DEF Front
    <3>2. PICK f : f = SubSeq(heap, 1, m)
      OBVIOUS
    <3>3. Len(f) = m /\ f \in Seq(Events) /\ \A j \in 1..m : f[j] = heap[j]
      BY <1>1, <2>1, <3>2
    <3>4. f \in [1..m -> Events]
      BY <3>3
    <3> QED BY <3>1, <3>2, <3>3, <3>4
  <2>3. PICK last \in Events : last = Last(heap) /\ last = heap[n]
    BY <1>1 DEF Last
  <2> DEFINE Y == X \ {last}
  <2>4. last \in X
    BY <1>1, <1>3, <2>3 DEF Holds, Once
  <2>5. OnceBut(front, Y, 1)
    <3>1. ASSUME NEW j \in 1..m, j # 1 PROVE front[j] \in Y
      BY <1>1, <1>3, <2>1, <2>2, <2>3, <3>1 DEF Holds, Once
    <3>2. ASSUME NEW e \in Y PROVE \E j \in 1..m : j # 1 /\ front[j] = e
      <4>1. PICK j \in 1..n : j >= 2 /\ heap[j] = e
        BY <1>1 DEF Holds, Once
      <4>2. j # n
        BY <2>3, <4>1
      <4>3. j \in 1..m /\ j # 1
        BY <2>1, <4>1, <4>2
      <4> QED BY <2>2, <4>1, <4>3
    <3>3. ASSUME NEW j \in 1..m, NEW k \in 1..m, j # 1, k # 1, front[j] = front[k] PROVE j = k
      <4>1. j >= 2 /\ k >= 2 /\ j \in 1..n /\ k \in 1..n /\ heap[j] = heap[k]
        BY <2>1, <2>2, <3>3
      <4> QED BY <1>1, <4>1 DEF Holds, Once
    <3> HIDE DEF Y
    <3> QED BY <2>2, <3>1, <3>2, <3>3 DEF OnceBut
  <2>6. OrderedAround(front, times, 1)
    <3>1. ASSUME NEW j \in 1..m, j \div 2 # 1, j \div 2 >= 1
          PROVE  times[front[j \div 2]] <= times[front[j]]
      <4>1. PICK q \in 1..m : q = j \div 2 /\ q >= 2
        BY <3>1, Half
      <4>2. times[heap[q]] <= times[heap[j]]
        BY <1>1, <2>1, <4>1 DEF Holds, Ordered
      <4> QED BY <2>2, <4>1, <4>2
    <3>2. ~(1 \div 2 >= 1)
      OBVIOUS
    <3> QED BY <2>2, <3>1, <3>2 DEF OrderedAround
  <2>7. Sinking(Sunk(front, times), m, times, Y) /\ AtLeaf(Sunk(front, times))
    <3> HIDE DEF Y
    <3> QED BY <2>1, <2>5, <2>6, SinksDown
  <2>8. PICK g \in [1..m -> Events], i \in 1..m : Sunk(front, times) = [heap |-> g, i |-> i]
    BY <2>7 DEF Sinking, HeapStates
  <2>9. OnceBut(g, Y, i) /\ OrderedAround(g, times, i) /\ 2 * i > m
    <3>1. Len(g) = m
      OBVIOUS
    <3> HIDE DEF Y
    <3> QED BY <2>7, <2>8, <3>1 DEF Sinking, AtLeaf
  <2>10. PICK t \in [1..m -> Events] : t = [g EXCEPT ![i] = last]
    OBVIOUS
  <2>11. /\ DOMAIN t = 1..m /\ DOMAIN g = 1..m
         /\ t[i] = last /\ \A j \in 1..m : j # i => t[j] = g[j]
    BY <2>10
  <2>12. Once(t, X, 1)
    <3>1. ASSUME NEW j \in 1..m PROVE t[j] \in X
      BY <2>4, <2>9, <2>11 DEF OnceBut
    <3>2. ASSUME NEW e \in X PROVE \E j \in 1..m : j >= 1 /\ t[j] = e
      <4>1. CASE e = last
        BY <2>11, <4>1
      <4>2. CASE e # last
        <5>1. PICK j \in 1..m : j # i /\ g[j] = e
          BY <2>9, <2>11, <4>2 DEF OnceBut
        <5> QED BY <2>11, <5>1
      <4> QED BY <4>1, <4>2
    <3>3. ASSUME NEW j \in 1..m, NEW k \in 1..m, t[j] = t[k] PROVE j = k
      <4>1. \A l \in 1..m : l # i => t[l] \in Y
        BY <2>9, <2>11 DEF OnceBut
      <4>2. j = i <=> k = i
        BY <2>11, <3>3, <4>1
      <4> QED BY <2>9, <2>11, <3>3, <4>2 DEF OnceBut
    <3> QED BY <2>11, <3>1, <3>2, <3>3 DEF Once
  <2>13. OrderedBelow(t, times, 1, i)
    <3>1. \A j \in 1..m : j \div 2 # i
      BY <2>9, Half
    <3>2. ASSUME NEW j \in 1..m, j # i, j \div 2 >= 1 PROVE times[t[j \div 2]] <= times[t[j]]
      <4>1. PICK q \in 1..m : q = j \div 2 /\ q # i
        BY <3>1, <3>2, Half
      <4>2. times[g[q]] <= times[g[j]]
        BY <2>9, <2>11, <3>2, <4>1 DEF OrderedAround
      <4> QED BY <2>11, <3>2, <4>1, <4>2
    <3> QED BY <2>11, <3>1, <3>2 DEF OrderedBelow
  <2>14. Pop(heap, times) = SiftUp(t, i, times)
    <3>1. Pop(heap, times) = SinkHole(front, last, times)
      BY <1>1, <1>3, <2>2, <2>3 DEF Pop
    <3>2. SinkHole(front, last, times) = SiftUp([g EXCEPT ![i] = last], i, times)
      BY <2>8 DEF SinkHole
    <3> QED BY <2>10, <3>1, <3>2
  <2>15. SiftUp(t, i, times) \in [1..m -> Events] /\ Holds(SiftUp(t, i, times), times, X, 1)
    <3>1. 1 \in 1..2 /\ 1 # 2 /\ i >= 1
      OBVIOUS
    <3> QED BY <2>12, <2>13, <3>1, SiftsUp
  <2>16. \A f \in [1..m -> Events] : f \in Seq(Events)
    OBVIOUS
  <2> QED BY <2>14, <2>15, <2>16
<1> QED BY <1>2, <1>3

\* The time of an event that is not in the heap says nothing about it.
LEMMA OthersOrdered ==
  ASSUME NEW heap \in Seq(Events), NEW times \in Times, NEW X, NEW r \in 1..2,
         Holds(heap, times, X, r), NEW e \in Events \ X, NEW t \in Nat
  PROVE  Holds(heap, [times EXCEPT ![e] = t], X, r)
<1>1. ASSUME NEW j \in DOMAIN heap, j \div 2 >= r
      PROVE  [times EXCEPT ![e] = t][heap[j \div 2]] <= [times EXCEPT ![e] = t][heap[j]]
  <2>1. PICK n \in Nat : DOMAIN heap = 1..n
    OBVIOUS
  <2>2. PICK q \in 1..n : q = j \div 2 /\ q >= r /\ j >= r /\ j \in 1..n
    BY <1>1, <2>1, Half
  <2>3. heap[q] \in X /\ heap[j] \in X
    BY <2>1, <2>2 DEF Holds, Once
  <2>4. heap[q] \in Events /\ heap[j] \in Events
    BY <2>1, <2>2
  <2>5. times[heap[q]] <= times[heap[j]]
    BY <1>1, <2>2 DEF Holds, Ordered
  <2> QED BY <2>2, <2>3, <2>4, <2>5 DEF Times
<1> QED BY <1>1 DEF Holds, Ordered

\* What is pushed is in its place, and the root stays if it is not earlier.
LEMMA PushPuts ==
  ASSUME NEW heap \in Seq(Events), NEW times \in Times, NEW X, NEW r \in 1..2,
         NEW e \in Events \ X, Holds(heap, times, X, r),
         r = 2 => heap # <<>> /\ times[heap[1]] <= times[e]
  PROVE  /\ Push(heap, e, times) \in Seq(Events)
         /\ Holds(Push(heap, e, times), times, X \union {e}, r)
         /\ r = 2 => Push(heap, e, times) # <<>> /\ Push(heap, e, times)[1] = heap[1]
<1>1. PICK n \in Nat : n = Len(heap) /\ DOMAIN heap = 1..n
  OBVIOUS
<1>2. PICK m \in Nat : m = n + 1 /\ m \in 1..m /\ m \notin 1..n
                       /\ \A j \in 1..m : j = m \/ j \in 1..n
  <2>1. n + 1 \in Nat /\ n + 1 \in 1..(n + 1) /\ n + 1 \notin 1..n
        /\ \A j \in 1..(n + 1) : j = n + 1 \/ j \in 1..n
    OBVIOUS
  <2> QED BY <2>1
<1>3. PICK a \in [1..m -> Events] : a = Append(heap, e)
  <2>1. Append(heap, e) \in [1..(n + 1) -> Events]
    <3>1. Append(heap, e) \in Seq(Events) /\ Len(Append(heap, e)) = n + 1
      BY <1>1
    <3>2. PICK b \in Seq(Events) : b = Append(heap, e)
      BY <3>1
    <3>3. Len(b) = n + 1
      BY <3>1, <3>2
    <3>4. b \in [1..Len(b) -> Events]
      OBVIOUS
    <3> QED BY <3>2, <3>3, <3>4
  <2> QED BY <1>2, <2>1
<1>4. DOMAIN a = 1..m /\ a[m] = e /\ \A j \in 1..n : j \in 1..m /\ a[j] = heap[j]
  BY <1>1, <1>2, <1>3
<1>5. m >= r /\ (r = 2 => n >= 1)
  BY <1>1, <1>2
<1>6. Once(a, X \union {e}, r)
  <2>1. ASSUME NEW j \in 1..m, j >= r PROVE a[j] \in X \union {e}
    BY <1>1, <1>2, <1>4, <2>1 DEF Holds, Once
  <2>2. ASSUME NEW f \in X \union {e} PROVE \E j \in 1..m : j >= r /\ a[j] = f
    <3>1. CASE f = e
      BY <1>2, <1>4, <1>5, <3>1
    <3>2. CASE f # e
      <4>1. PICK j \in 1..n : j >= r /\ heap[j] = f
        BY <1>1, <3>2 DEF Holds, Once
      <4> QED BY <1>4, <4>1
    <3> QED BY <3>1, <3>2
  <2>3. ASSUME NEW j \in 1..m, NEW k \in 1..m, j >= r, k >= r, a[j] = a[k] PROVE j = k
    <3>1. \A l \in 1..n : l >= r => a[l] # e
      BY <1>1, <1>4 DEF Holds, Once
    <3>2. j = m <=> k = m
      BY <1>2, <1>4, <2>3, <3>1
    <3> QED BY <1>1, <1>2, <1>4, <2>3, <3>2 DEF Holds, Once
  <2> QED BY <1>4, <2>1, <2>2, <2>3 DEF Once
<1>7. OrderedBelow(a, times, r, m)
  <2>1. ASSUME NEW j \in 1..m, j # m, j \div 2 >= r PROVE times[a[j \div 2]] <= times[a[j]]
    <3>1. PICK q \in 1..n : q = j \div 2 /\ j \in 1..n
      BY <1>2, <2>1, Half
    <3>2. times[heap[q]] <= times[heap[j]]
      BY <1>1, <2>1, <3>1 DEF Holds, Ordered
    <3> QED BY <1>4, <3>1, <3>2
  <2>2. \A j \in 1..m : j \div 2 # m
    BY Half
  <2> QED BY <1>4, <2>1, <2>2 DEF OrderedBelow
<1>8. r = 2 => times[a[1]] <= times[a[m]] /\ a[1] = heap[1]
  BY <1>1, <1>4, <1>5
<1>9. /\ SiftUp(a, m, times) \in [1..m -> Events]
      /\ Holds(SiftUp(a, m, times), times, X \union {e}, r)
      /\ r = 2 => SiftUp(a, m, times)[1] = a[1]
  <2>1. PICK Y : Y = X \union {e}
    OBVIOUS
  <2>2. Once(a, Y, r)
    BY <1>6, <2>1
  <2>3. /\ SiftUp(a, m, times) \in [1..m -> Events]
        /\ Holds(SiftUp(a, m, times), times, Y, r)
        /\ r = 2 => SiftUp(a, m, times)[1] = a[1]
    BY <1>2, <1>5, <1>7, <1>8, <2>2, SiftsUp
  <2> QED BY <2>1, <2>3
<1>10. Push(heap, e, times) = SiftUp(a, m, times)
  BY <1>1, <1>2, <1>3 DEF Push
<1>11. \A g \in [1..m -> Events] : g \in Seq(Events) /\ g # <<>>
  <2>1. \A g \in [1..m -> Events] : DOMAIN g = 1..m
    OBVIOUS
  <2>2. 1 \in 1..m /\ DOMAIN <<>> = {}
    BY <1>2
  <2> QED BY <2>1, <2>2
<1> QED BY <1>8, <1>9, <1>10, <1>11

-----------------------------------------------------------------------------
(* The events that are started.                                            *)

Schedules == [queue : Seq(Events), when : Times,
              backoff : [Backoffs -> [start : Nat, delay : Nat]]]

\* The queue holds X; while a callback runs, what is above it is the entry of root.
Scheduled(s, X, r, root) ==
  /\ s \in Schedules
  /\ Holds(s.queue, s.when, X, r)
  /\ r = 2 => s.queue # <<>> /\ s.queue[1] = root

Retimed(s, e, t) == [s.when EXCEPT ![e] = t]

\* The entry of e joins the others, and the root stays.
Joins(s, X, r, root, e, t) ==
  /\ Retimed(s, e, t) \in Times
  /\ Push(s.queue, e, Retimed(s, e, t)) \in Seq(Events)
  /\ Holds(Push(s.queue, e, Retimed(s, e, t)), Retimed(s, e, t), X \union {e}, r)
  /\ r = 2 => /\ Push(s.queue, e, Retimed(s, e, t)) # <<>>
              /\ Push(s.queue, e, Retimed(s, e, t))[1] = root

LEMMA StartsIn ==
  ASSUME NEW s, NEW X, NEW r \in 1..2, NEW root \in Events, Scheduled(s, X, r, root),
         NEW e \in Events \ X, NEW t \in Nat, r = 2 => e = root \/ s.when[root] <= t
  PROVE  Joins(s, X, r, root, e, t)
<1>1. PICK q \in Seq(Events), w \in Times : q = s.queue /\ w = s.when
  BY DEF Scheduled, Schedules
<1>2. PICK times \in Times : times = [w EXCEPT ![e] = t]
  BY DEF Times
<1>3. Holds(q, times, X, r)
  BY <1>1, <1>2, OthersOrdered DEF Scheduled
<1>4. r = 2 => q # <<>> /\ q[1] = root /\ times[q[1]] <= times[e]
  <2>1. times[e] = t /\ (e # root => times[root] = w[root])
    BY <1>2 DEF Times
  <2>2. r = 2 => times[root] <= t
    BY <1>1, <2>1
  <2> QED BY <1>1, <2>1, <2>2 DEF Scheduled
<1>5. times = Retimed(s, e, t)
  BY <1>1, <1>2 DEF Retimed
<1>6. /\ Push(q, e, times) \in Seq(Events)
      /\ Holds(Push(q, e, times), times, X \union {e}, r)
      /\ r = 2 => Push(q, e, times) # <<>> /\ Push(q, e, times)[1] = q[1]
  BY <1>3, <1>4, PushPuts
<1> QED BY <1>1, <1>4, <1>5, <1>6 DEF Joins

\* Start of an event.
Asked == [start : Nat, delay : Nat]

At(ask) == IncrementBy(ask.start, ask.delay)

LEMMA AtIsTime == ASSUME ClockAssumption, NEW ask \in Asked PROVE At(ask) \in Nat
<1>1. PICK start \in Nat, delay \in Nat : ask.start = start /\ ask.delay = delay
  BY DEF Asked
<1>2. delay * Fraction \in Nat
  BY DEF ClockAssumption
<1> QED BY <1>1, <1>2 DEF At, IncrementBy

Begins(s, X, r, root, e, ask) ==
  /\ Scheduled(StartEvent(s, e, ask), X \union {e}, r, root)
  /\ StartEvent(s, e, ask).when = Retimed(s, e, At(ask))

LEMMA StartSchedules ==
  ASSUME ClockAssumption,
         NEW s, NEW X, NEW r \in 1..2, NEW root \in Events, Scheduled(s, X, r, root),
         NEW e \in Events \ X, NEW ask \in Asked,
         r = 2 => e = root \/ s.when[root] <= At(ask)
  PROVE  Begins(s, X, r, root, e, ask)
<1>1. PICK t \in Nat : t = At(ask)
  BY AtIsTime
<1>2. PICK b \in [Backoffs -> [start : Nat, delay : Nat]] : b = StartEvent(s, e, ask).backoff
  <2>1. s.backoff \in [Backoffs -> [start : Nat, delay : Nat]]
    BY DEF Scheduled, Schedules
  <2>2. StartEvent(s, e, ask).backoff =
          IF e \in Backoffs THEN [s.backoff EXCEPT ![e] = ask] ELSE s.backoff
    BY DEF StartEvent
  <2> QED BY <2>1, <2>2 DEF Asked
<1> DEFINE times == Retimed(s, e, t)
<1>3. /\ StartEvent(s, e, ask).queue = Push(s.queue, e, times)
      /\ StartEvent(s, e, ask).when = times
      /\ StartEvent(s, e, ask) =
           [queue |-> Push(s.queue, e, times), when |-> times, backoff |-> b]
  BY <1>1, <1>2 DEF StartEvent, Retimed, At
<1>4. /\ times \in Times /\ Push(s.queue, e, times) \in Seq(Events)
      /\ Holds(Push(s.queue, e, times), times, X \union {e}, r)
      /\ r = 2 => Push(s.queue, e, times) # <<>> /\ Push(s.queue, e, times)[1] = root
  <2>1. Joins(s, X, r, root, e, t)
    BY <1>1, StartsIn
  <2> QED BY <2>1 DEF Joins
<1>5. PICK w \in Times, q \in Seq(Events) : w = times /\ q = Push(s.queue, e, times)
  BY <1>4
<1>6. Scheduled(StartEvent(s, e, ask), X \union {e}, r, root)
  <2> HIDE DEF times
  <2>1. StartEvent(s, e, ask) = [queue |-> q, when |-> w, backoff |-> b]
    BY <1>3, <1>5
  <2> QED BY <1>4, <1>5, <2>1 DEF Scheduled, Schedules
<1> QED BY <1>1, <1>3, <1>6 DEF Begins

LEMMA RescheduleSchedules ==
  ASSUME ClockAssumption, DelaysAssumption,
         NEW s, NEW X, NEW e \in Events \ X, Scheduled(s, X, 2, e), e \in Backoffs
  PROVE  Scheduled(Reschedule(s, e), X \union {e}, 2, e)
<1>1. PICK start \in Nat, delay \in Nat : s.backoff[e].start = start /\ s.backoff[e].delay = delay
  BY DEF Scheduled, Schedules
<1>2. PICK next \in Nat : next = NextDelay(delay)
  <2>1. \A x \in Nat : x % Limit \in Nat
    BY DEF ClockAssumption
  <2>2. 2 * delay \in Nat
    OBVIOUS
  <2>3. PICK n \in Nat : n = (2 * delay) % Limit
    BY <2>1, <2>2
  <2>4. (delay + MaxDelay) % Limit \in Nat /\ (delay + n) % Limit \in Nat
    BY <2>1 DEF DelaysAssumption
  <2> QED BY <2>3, <2>4 DEF NextDelay
<1>3. PICK t \in Nat : t = IncrementBy(start, next)
  <2>1. next * Fraction \in Nat
    BY DEF ClockAssumption
  <2> QED BY <2>1 DEF IncrementBy
<1> DEFINE times == Retimed(s, e, t)
<1>4. PICK b \in [Backoffs -> [start : Nat, delay : Nat]] : b = [s.backoff EXCEPT ![e].delay = next]
  <2>1. s.backoff \in [Backoffs -> [start : Nat, delay : Nat]]
    BY DEF Scheduled, Schedules
  <2> QED BY <2>1
<1>5. Reschedule(s, e) = [queue |-> Push(s.queue, e, times), when |-> times, backoff |-> b]
  BY <1>1, <1>2, <1>3, <1>4 DEF Reschedule, Retimed
<1>6. /\ times \in Times /\ Push(s.queue, e, times) \in Seq(Events)
      /\ Holds(Push(s.queue, e, times), times, X \union {e}, 2)
      /\ Push(s.queue, e, times) # <<>> /\ Push(s.queue, e, times)[1] = e
  <2>1. Joins(s, X, 2, e, e, t)
    <3>1. 2 \in 1..2 /\ e \in Events
      OBVIOUS
    <3> QED BY <1>3, <3>1, StartsIn
  <2> QED BY <2>1 DEF Joins
<1>7. PICK w \in Times, q \in Seq(Events) : w = times /\ q = Push(s.queue, e, times)
  BY <1>6
<1> HIDE DEF times
<1>8. Reschedule(s, e) = [queue |-> q, when |-> w, backoff |-> b]
  BY <1>5, <1>7
<1> QED BY <1>6, <1>7, <1>8 DEF Scheduled, Schedules

-----------------------------------------------------------------------------
(* The sleep.                                                              *)

\* A difference of two times, as GetDelayFrom takes it apart: milliseconds, and what
\* is left or, if a second was borrowed, missing.
Apart(t, p, sec, msec, over) ==
  /\ sec \in Int /\ msec \in 0..Second /\ over \in 0..(Fraction - 1)
  /\ \/ t - p = Fraction * (Second * sec + msec) + over
     \/ msec # 0 /\ t - p = Fraction * (Second * sec + msec) - over
  /\ GetDelayFrom(t, p) =
       IF sec < 0 THEN 0
       ELSE IF \/ sec > KTimerMax \div Second
               \/ sec >= (sec * Second + msec) % Limit
               \/ (sec * Second + msec) % Limit > KTimerMax
              THEN KTimerMax
              ELSE (sec * Second + msec) % Limit

LEMMA TakenApart ==
  ASSUME ClockAssumption, NEW t \in Nat, NEW p \in Nat
  PROVE  \E sec, msec, over : Apart(t, p, sec, msec, over)
<1> DEFINE S == Second * Fraction
<1>1. PICK F \in Nat \ {0}, C \in Nat \ {0} : F = Fraction /\ C = Second /\ S = F * C
  BY DEF ClockAssumption
<1>2. S \in Nat \ {0}
  BY <1>1
<1>3. /\ t = S * (t \div S) + (t % S) /\ t % S \in 0..(S - 1) /\ t \div S \in Nat
      /\ p = S * (p \div S) + (p % S) /\ p % S \in 0..(S - 1) /\ p \div S \in Nat
  <2> HIDE DEF S
  <2> QED BY <1>2, Division
<1>4. PICK ts \in Nat, tn \in Nat, ps \in Nat, pn \in Nat :
        /\ ts = Seconds(t) /\ tn = Nanoseconds(t) /\ ps = Seconds(p) /\ pn = Nanoseconds(p)
        /\ t = S * ts + tn /\ tn < S /\ p = S * ps + pn /\ pn < S
  <2>1. PICK ts \in Nat, tn \in Nat, ps \in Nat, pn \in Nat :
          ts = t \div S /\ tn = t % S /\ ps = p \div S /\ pn = p % S
    <3> HIDE DEF S
    <3>1. t % S \in Nat /\ p % S \in Nat
      BY <1>2, <1>3
    <3> QED BY <1>3, <3>1
  <2>2. tn < S /\ pn < S
    BY <1>2, <1>3, <2>1
  <2> QED BY <1>3, <2>1, <2>2 DEF Seconds, Nanoseconds
<1>5. CASE pn > tn
  <2> DEFINE x == pn - tn
  <2>1. x \in Nat /\ x < S
    BY <1>2, <1>4, <1>5
  <2>2. PICK q \in Nat, over \in 0..(F - 1) : x = F * q + over /\ q = x \div F
    <3> HIDE DEF x
    <3> QED BY <1>1, <2>1, Division
  <2>3. q < C
    <3> HIDE DEF x
    <3> QED BY <1>1, <2>1, <2>2, QuotientBelow
  <2>4. PICK sec \in Int, msec \in 0..C : sec = ts - ps - 1 /\ msec = C - q /\ msec # 0
    BY <1>1, <2>2, <2>3
  <2>5. t - p = F * (C * sec + msec) - over
    <3>1. t - p = S * (sec + 1) - x
      <4>1. S * ts - S * ps = S * (ts - ps)
        BY <1>1
      <4>2. ts - ps = sec + 1
        BY <2>4
      <4>3. PICK a \in Nat, b \in Nat : a = S * ts /\ b = S * ps
        BY <1>2
      <4> HIDE DEF S
      <4>4. t = a + tn /\ p = b + pn
        BY <1>4, <4>3, Zenon
      <4>5. t - p = a - b - x
        BY <4>4
      <4> HIDE DEF x
      <4> QED BY <4>1, <4>2, <4>3, <4>5
    <3>2. S * (sec + 1) = F * (C * sec + C)
      BY <1>1
    <3>3. F * (C * sec + C) - F * q = F * (C * sec + msec)
      <4>1. F * (C * sec + C) - F * q = F * (C * sec + C - q)
        BY <1>1
      <4> QED BY <1>1, <2>4, <4>1
    <3>4. F * (C * sec + C) \in Int /\ F * q \in Int
      BY <1>1
    <3> QED BY <2>2, <3>1, <3>2, <3>3, <3>4
  <2>6. Apart(t, p, sec, msec, over)
    BY <1>1, <1>4, <1>5, <2>2, <2>4, <2>5 DEF Apart, GetDelayFrom
  <2> QED BY <2>6
<1>6. CASE ~(pn > tn)
  <2> DEFINE x == tn - pn
  <2>1. x \in Nat /\ x < S
    BY <1>2, <1>4, <1>6
  <2>2. PICK q \in Nat, over \in 0..(F - 1) : x = F * q + over /\ q = x \div F
    <3> HIDE DEF x
    <3> QED BY <1>1, <2>1, Division
  <2>3. q < C
    <3> HIDE DEF x
    <3> QED BY <1>1, <2>1, <2>2, QuotientBelow
  <2>4. PICK sec \in Int, msec \in 0..C : sec = ts - ps /\ msec = q
    BY <1>1, <2>2, <2>3
  <2>5. t - p = F * (C * sec + msec) + over
    <3>1. t - p = S * sec + x
      <4>1. S * ts - S * ps = S * (ts - ps)
        BY <1>1
      <4>2. ts - ps = sec
        BY <2>4
      <4>3. PICK a \in Nat, b \in Nat : a = S * ts /\ b = S * ps
        BY <1>2
      <4> HIDE DEF S
      <4>4. t = a + tn /\ p = b + pn
        BY <1>4, <4>3, Zenon
      <4>5. t - p = a - b + x
        BY <4>4
      <4> HIDE DEF x
      <4> QED BY <4>1, <4>2, <4>3, <4>5
    <3>2. S * sec + F * q = F * (C * sec + msec)
      BY <1>1, <2>4
    <3>3. S * sec \in Int /\ F * q \in Int
      BY <1>1
    <3>4. PICK a \in Int, b \in Int : a = S * sec /\ b = F * q
      BY <3>3
    <3> HIDE DEF S
    <3> QED BY <2>2, <3>1, <3>2, <3>4
  <2>6. Apart(t, p, sec, msec, over)
    <3>1. sec = ts - ps - 0 /\ msec = (tn - pn) \div Fraction
      BY <1>1, <2>2, <2>4
    <3>2. GetDelayFrom(t, p) =
            IF sec < 0 THEN 0
            ELSE IF \/ sec > KTimerMax \div Second
                    \/ sec >= (sec * Second + msec) % Limit
                    \/ (sec * Second + msec) % Limit > KTimerMax
                   THEN KTimerMax
                   ELSE (sec * Second + msec) % Limit
      BY <1>4, <1>6, <3>1 DEF GetDelayFrom
    <3> QED BY <1>1, <2>2, <2>4, <2>5, <3>2 DEF Apart
  <2> QED BY <2>6
<1> QED BY <1>4, <1>5, <1>6

\* The delay is not longer than what is left but for a fraction; too long for an int, it
\* is the one of an event due within the fraction, or that far away.
LEMMA DelayIs ==
  ASSUME ClockAssumption, NEW t \in Nat, NEW p \in Nat
  PROVE  \/ GetDelayFrom(t, p) = 0
         \/ /\ GetDelayFrom(t, p) \in 0..((Limit \div 2) - 1)
            /\ IncrementBy(p, GetDelayFrom(t, p)) < t + Fraction
         \/ /\ GetDelayFrom(t, p) >= Limit \div 2
            /\ t - p \in 0..(Fraction - 1) \/ t - p > ((Limit \div 2) - 1) * Fraction
<1>1. PICK sec, msec, over : Apart(t, p, sec, msec, over)
  BY TakenApart
<1>2. PICK F \in Nat \ {0}, C \in Nat \ {0, 1}, L \in Nat :
        F = Fraction /\ C = Second /\ L = Limit /\ C * C <= L
  BY DEF ClockAssumption
<1>3. sec \in Int /\ msec \in 0..C /\ over \in 0..(F - 1)
  BY <1>1, <1>2 DEF Apart
<1>4. PICK h \in Nat : h = L \div 2 /\ 2 * h <= L /\ L <= 2 * h + 1
  OBVIOUS
<1>5. L >= 4 /\ h <= L - 2 /\ h >= 1
  <2>1. C * C >= 2 * C /\ 2 * C >= 4
    BY <1>2
  <2> QED BY <1>2, <1>4, <2>1
<1>6. PICK g \in Int : g = GetDelayFrom(t, p) /\
        g = IF sec < 0 THEN 0
            ELSE IF sec > (L - 2) \div C \/ sec >= (sec * C + msec) % L
                    \/ (sec * C + msec) % L > L - 2
                   THEN L - 2
                   ELSE (sec * C + msec) % L
  BY <1>1, <1>2, <1>3, <1>5 DEF Apart, KTimerMax
<1>7. PICK d \in Int, far \in Int : d = t - p /\ far = (h - 1) * F
  BY <1>2, <1>4
<1> DEFINE Far == d > far
           Near == d \in 0..(F - 1)
           Soon == g \in 0..(h - 1) /\ p + g * F < t + F
<1>8. g = 0 \/ Soon \/ (g >= h /\ (Near \/ Far))
  <2>1. CASE sec < 0
    BY <1>6, <2>1
  <2>2. CASE sec >= 0
    <3>1. C * sec \in Nat /\ C * sec = sec * C
      BY <1>2, <1>3, <2>2
    <3>2. PICK cs \in Nat, m \in Nat : cs = C * sec /\ m = cs + msec
      BY <1>2, <1>3, <3>1
    <3>3. PICK fm \in Nat : fm = F * m
      BY <1>2
    <3>4. d = fm + over \/ (msec # 0 /\ d = fm - over)
      <4>1. Second * sec + msec = m /\ Fraction * m = fm
        BY <1>2, <3>2, <3>3
      <4> QED BY <1>1, <1>7, <4>1 DEF Apart
    <3>5. g = IF sec > (L - 2) \div C \/ sec >= m % L \/ m % L > L - 2 THEN L - 2 ELSE m % L
      <4>1. sec * C + msec = m /\ ~(sec < 0)
        BY <1>3, <2>2, <3>1, <3>2
      <4>2. g = IF sec > (L - 2) \div C \/ sec >= (sec * C + msec) % L
                   \/ (sec * C + msec) % L > L - 2
                  THEN L - 2 ELSE (sec * C + msec) % L
        BY <1>6, <4>1, Zenon
      <4> QED BY <4>1, <4>2, Zenon
    <3>6. m >= h => Far
      <4>1. SUFFICES ASSUME m >= h PROVE d > far
        OBVIOUS
      <4>2. PICK fh \in Nat : fh = F * h
        BY <1>2
      <4>3. fm >= fh
        BY <1>2, <3>3, <4>1, <4>2
      <4>4. far = fh - F
        BY <1>2, <1>7, <4>2
      <4> QED BY <1>2, <1>3, <3>4, <4>3, <4>4
    <3>7. PICK q \in Nat, cq \in Nat, x \in 0..(C - 1) :
            q = (L - 2) \div C /\ cq = C * q /\ L - 2 = cq + x
      <4>1. L - 2 \in Nat
        BY <1>5
      <4>2. /\ L - 2 = C * ((L - 2) \div C) + ((L - 2) % C) /\ (L - 2) % C \in 0..(C - 1)
            /\ (L - 2) \div C \in Nat
        BY <1>2, <4>1, Division
      <4> QED BY <1>2, <4>2
    <3> HIDE DEF Far, Near, Soon
    <3>8. CASE sec > q
      <4>1. cs >= cq + C
        <5>1. C * sec >= C * (q + 1)
          BY <1>2, <1>3, <3>8
        <5>2. C * (q + 1) = cq + C
          BY <1>2, <3>7
        <5> QED BY <3>2, <5>1, <5>2
      <4>2. m >= h
        BY <1>2, <1>3, <1>5, <3>2, <3>7, <4>1
      <4>3. g = L - 2
        BY <3>5, <3>7, <3>8
      <4> QED BY <1>5, <3>6, <4>2, <4>3
    <3>9. CASE ~(sec > q) /\ m >= L
      <4>1. cs <= L - 2
        <5>1. C * sec <= C * q
          BY <1>2, <1>3, <2>2, <3>9
        <5> QED BY <1>2, <3>2, <3>7, <5>1
      <4>2. PICK y \in 0..(L - 1) : y = m - L /\ y <= C - 2
        <5>1. C <= L
          BY <1>2, <1>5
        <5> QED BY <1>2, <1>3, <1>5, <3>2, <3>9, <4>1, <5>1
      <4>3. m % L = y
        <5>1. L \in Nat \ {0} /\ 1 \in Nat
          BY <1>5
        <5>2. m = L * (m \div L) + (m % L) /\ m % L \in 0..(L - 1) /\ m \div L \in Nat
          BY <5>1, Division
        <5>3. L * 1 + y = L * (m \div L) + (m % L)
          BY <4>2, <5>2
        <5>4. 1 = m \div L
          BY <4>2, <5>1, <5>2, <5>3, OneQuotient
        <5>5. L * (m \div L) = L
          BY <5>1, <5>4
        <5> QED BY <4>2, <5>2, <5>5
      <4>4. sec >= C - 1
        <5>1. ASSUME sec <= C - 2 PROVE FALSE
          <6>1. C * sec <= C * (C - 2)
            BY <1>2, <1>3, <2>2, <5>1
          <6>2. C * (C - 2) = C * C - 2 * C
            BY <1>2
          <6>3. PICK cc \in Nat : cc = C * C /\ cc <= L
            BY <1>2
          <6>4. cs <= cc - 2 * C
            BY <3>2, <6>1, <6>2, <6>3
          <6> QED BY <1>2, <1>3, <3>2, <3>9, <6>3, <6>4
        <5> QED BY <1>2, <1>3, <5>1
      <4>5. sec >= m % L
        BY <1>2, <1>3, <4>2, <4>3, <4>4
      <4>6. g = L - 2 /\ m >= h
        BY <1>4, <1>5, <3>5, <3>9, <4>5
      <4> QED BY <1>5, <3>6, <4>6
    <3>10. CASE ~(sec > q) /\ m < L
      <4>1. m % L = m
        BY <1>5, <3>10
      <4>2. CASE sec >= m
        <5>1. cs >= 2 * sec
          BY <1>2, <1>3, <2>2, <3>2
        <5>2. sec = 0 /\ msec = 0 /\ m = 0
          BY <1>3, <2>2, <3>2, <4>2, <5>1
        <5>3. d = over
          BY <1>2, <1>3, <3>3, <3>4, <5>2
        <5>4. g = L - 2
          BY <3>5, <4>1, <4>2
        <5> QED BY <1>3, <1>5, <5>3, <5>4 DEF Near
      <4>3. CASE ~(sec >= m) /\ m > L - 2
        <5>1. g = L - 2 /\ m >= h
          BY <1>5, <3>5, <4>1, <4>3
        <5> QED BY <1>5, <3>6, <5>1
      <4>4. CASE ~(sec >= m) /\ m <= L - 2
        <5>1. g = m
          BY <1>5, <3>5, <3>7, <3>10, <4>1, <4>4
        <5>2. CASE m >= h
          BY <3>6, <5>1, <5>2
        <5>3. CASE m < h
          <6>1. g * F = fm
            BY <1>2, <3>3, <5>1
          <6>2. d > fm - F
            BY <1>2, <1>3, <3>4
          <6>3. p + fm < t + F
            BY <1>2, <1>7, <6>2
          <6> QED BY <1>4, <5>1, <5>3, <6>1, <6>3 DEF Soon
        <5> QED BY <1>4, <5>2, <5>3
      <4> QED BY <1>3, <4>2, <4>3, <4>4
    <3> QED BY <1>3, <1>5, <3>2, <3>8, <3>9, <3>10
  <2> QED BY <1>3, <2>1, <2>2
<1> QED BY <1>2, <1>4, <1>6, <1>7, <1>8 DEF IncrementBy

-----------------------------------------------------------------------------
(* The invariant.                                                          *)

\* The heap holds what was started, in order.
InHeap ==
  /\ now \in Nat /\ passed \in Nat
  /\ armed \subseteq Events
  /\ Schedule \in Schedules
  /\ Holds(queue, when, armed, 1)

EventInv == ~crossed => InHeap

LEMMA ScheduleIs ==
  /\ Schedule.queue = queue /\ Schedule.when = when /\ Schedule.backoff = backoff
  /\ Schedule \in Schedules <=> /\ queue \in Seq(Events) /\ when \in Times
                                /\ backoff \in [Backoffs -> [start : Nat, delay : Nat]]
BY DEF Schedule, Schedules

LEMMA EventInitInv == EventInit => EventInv
<1> SUFFICES ASSUME EventInit PROVE InHeap
  BY DEF EventInv
<1>1. queue \in Seq(Events) /\ DOMAIN queue = {} /\ when \in Times
      /\ backoff \in [Backoffs -> [start : Nat, delay : Nat]]
  <2>1. <<>> \in Seq(Events) /\ DOMAIN <<>> = {}
    OBVIOUS
  <2> QED BY <2>1 DEF EventInit, Times
<1>2. Holds(queue, when, armed, 1)
  BY <1>1 DEF EventInit, Holds, Once, Ordered
<1> QED BY <1>1, <1>2, ScheduleIs DEF EventInit, InHeap

\* No entry is earlier than the one at the top.
LEMMA TopIsFirst ==
  ASSUME NEW heap \in Seq(Events), NEW times \in Times, NEW X, Holds(heap, times, X, 1)
  PROVE  \A j \in DOMAIN heap : times[heap[1]] <= times[heap[j]]
<1>1. PICK n \in Nat : DOMAIN heap = 1..n
  OBVIOUS
<1> DEFINE S == {k \in 0..n : \A j \in 1..n : j <= k => times[heap[1]] <= times[heap[j]]}
<1>2. 0 \in S
  OBVIOUS
<1>3. ASSUME NEW k \in 0..(n - 1), k \in S PROVE k + 1 \in S
  <2>1. k + 1 \in 0..n /\ k + 1 \in 1..n /\ 1 \in 1..n
    OBVIOUS
  <2>2. \A j \in 1..n : times[heap[j]] \in Nat
    BY <1>1 DEF Times
  <2>3. times[heap[1]] <= times[heap[k + 1]]
    <3>1. CASE k = 0
      BY <2>1, <2>2, <3>1
    <3>2. CASE k # 0
      <4>1. PICK q \in 1..n : q = (k + 1) \div 2 /\ q <= k
        BY <2>1, <3>2, Half
      <4>2. times[heap[q]] <= times[heap[k + 1]]
        BY <1>1, <2>1, <4>1 DEF Holds, Ordered
      <4>3. times[heap[1]] <= times[heap[q]]
        BY <1>3, <4>1
      <4> QED BY <2>1, <2>2, <4>2, <4>3
    <3> QED BY <3>1, <3>2
  <2>4. \A j \in 1..n : j <= k + 1 => j <= k \/ j = k + 1
    OBVIOUS
  <2> QED BY <1>3, <2>1, <2>3, <2>4
<1>4. \A k \in 0..n : k \in S
  <2> HIDE DEF S
  <2> QED BY <1>2, <1>3, UpTo
<1>5. n \in S
  BY <1>4
<1> QED BY <1>1, <1>5

-----------------------------------------------------------------------------
(* The steps.                                                              *)

LEMMA AskIs == ASSUME DelaysAssumption, NEW ask \in Asks PROVE ask \in Asked
BY DEF Asks, Asked, DelaysAssumption

LEMMA StartKeeps ==
  ASSUME ClockAssumption, DelaysAssumption, EventInv,
         NEW e \in Events, NEW ask \in Asks, Start(e, ask)
  PROVE  EventInv'
<1> SUFFICES ASSUME ~crossed PROVE InHeap'
  BY DEF EventInv, Start
<1>1. InHeap /\ e \in Events \ armed /\ ask \in Asked
  BY AskIs DEF EventInv, Start
<1>2. Scheduled(Schedule, armed, 1, e)
  BY <1>1, ScheduleIs DEF InHeap, Scheduled
<1>3. PICK s : s = StartEvent(Schedule, e, ask)
  OBVIOUS
<1>4. Scheduled(s, armed \union {e}, 1, e)
  <2>1. 1 \in 1..2 /\ 1 # 2
    OBVIOUS
  <2>2. Begins(Schedule, armed, 1, e, e, ask)
    BY <1>1, <1>2, <2>1, StartSchedules
  <2> QED BY <1>3, <2>2 DEF Begins
<1>5. queue' = s.queue /\ when' = s.when /\ backoff' = s.backoff /\ armed' = armed \union {e}
  BY <1>3 DEF Start
<1>6. Schedule' \in Schedules /\ Holds(queue', when', armed', 1)
  <2>1. s \in Schedules /\ Holds(s.queue, s.when, armed \union {e}, 1)
    BY <1>4 DEF Scheduled
  <2>2. Schedule' = s
    BY <1>5, <2>1 DEF Schedule, Schedules
  <2> QED BY <1>5, <2>1, <2>2
<1> QED BY <1>1, <1>5, <1>6 DEF InHeap, Start

\* What a callback starts goes in under the entry that is run.
LEMMA CallsStart ==
  ASSUME ClockAssumption, DelaysAssumption, armed \subseteq Events,
         NEW e \in Events, NEW X, X = armed \ {e}, NEW s, Scheduled(s, X, 2, e),
         NEW calls \in Calls(e), NEW asked \in [DOMAIN calls -> Asks],
         ~Crosses(s, calls, asked, 1, e),
         ~Crosses(StartCall(s, calls, asked, 1), calls, asked, 2, e)
  PROVE  Scheduled(StartCall(StartCall(s, calls, asked, 1), calls, asked, 2),
                   X \union ToSet(calls), 2, e)
<1> DEFINE others == {o \in Events \ armed : o # e}
           first == StartCall(s, calls, asked, 1)
           both == StartCall(first, calls, asked, 2)
<1>0. 2 \in 1..2 /\ 2 = 2 /\ e \notin X /\ s.when \in Times
  BY DEF Scheduled, Schedules
<1>1. ASSUME calls = <<>> PROVE Scheduled(both, X \union ToSet(calls), 2, e)
  <2>1. DOMAIN calls = {} /\ ToSet(calls) = {}
    BY <1>1 DEF ToSet
  <2>2. both = s
    BY <2>1 DEF StartCall
  <2> QED BY <2>1, <2>2
<1>2. ASSUME NEW o \in Events, o \notin X, calls = <<o>>
      PROVE  Scheduled(both, X \union ToSet(calls), 2, e)
  <2>1. DOMAIN calls = {1} /\ ToSet(calls) = {o} /\ calls[1] = o
    BY <1>2 DEF ToSet
  <2>2. PICK d \in Asked : d = asked[1]
    BY <2>1, AskIs
  <2>3. both = StartEvent(s, o, d)
    BY <2>1, <2>2 DEF StartCall
  <2>4. o = e \/ s.when[e] <= At(d)
    <3>1. o = e \/ ~(At(d) < s.when[e])
      BY <2>1, <2>2 DEF Crosses, At
    <3> QED BY <1>0, <2>2, <3>1, AtIsTime DEF Times
  <2>5. Scheduled(StartEvent(s, o, d), X \union {o}, 2, e)
    <3>1. Begins(s, X, 2, e, o, d)
      BY <1>0, <1>2, <2>2, <2>4, StartSchedules
    <3> QED BY <3>1 DEF Begins
  <2> QED BY <2>1, <2>3, <2>5
<1>3. ASSUME NEW o \in Events, NEW p \in Events, o \notin X, p \notin X, o # p, calls = <<o, p>>
      PROVE  Scheduled(both, X \union ToSet(calls), 2, e)
  <2>1. DOMAIN calls = {1, 2} /\ ToSet(calls) = {o, p} /\ calls[1] = o /\ calls[2] = p
    BY <1>3 DEF ToSet
  <2>2. PICK c \in Asked, d \in Asked : c = asked[1] /\ d = asked[2]
    BY <2>1, AskIs
  <2>3. first = StartEvent(s, o, c) /\ both = StartEvent(first, p, d)
    BY <2>1, <2>2 DEF StartCall
  <2>4. o = e \/ s.when[e] <= At(c)
    <3>1. o = e \/ ~(At(c) < s.when[e])
      BY <2>1, <2>2 DEF Crosses, At
    <3> QED BY <1>0, <2>2, <3>1, AtIsTime DEF Times
  <2>5. Scheduled(first, X \union {o}, 2, e)
    <3>1. o \in Events \ X
      BY <1>3
    <3>2. Begins(s, X, 2, e, o, c)
      BY <1>0, <2>2, <2>4, <3>1, StartSchedules
    <3> QED BY <2>3, <3>2 DEF Begins
  <2>6. p = e \/ first.when[e] <= At(d)
    <3>1. p = e \/ ~(At(d) < first.when[e])
      BY <2>1, <2>2 DEF Crosses, At
    <3>2. first.when \in Times
      BY <2>5 DEF Scheduled, Schedules
    <3> HIDE DEF first
    <3> QED BY <2>2, <3>1, <3>2, AtIsTime DEF Times
  <2> HIDE DEF first
  <2>7. PICK Y : Y = X \union {o} /\ p \in Events \ Y
    BY <1>3
  <2>8. Scheduled(StartEvent(first, p, d), Y \union {p}, 2, e)
    <3>1. Scheduled(first, Y, 2, e)
      BY <2>5, <2>7
    <3>2. Begins(first, Y, 2, e, p, d)
      BY <1>0, <2>2, <2>6, <2>7, <3>1, StartSchedules
    <3> QED BY <3>2 DEF Begins
  <2>9. Y \union {p} = X \union ToSet(calls)
    BY <2>1, <2>7
  <2> QED BY <2>3, <2>8, <2>9
<1>4. \A o \in others : o \in Events /\ o \notin X /\ o # e
  OBVIOUS
<1>5. \/ calls = <<>> \/ calls = <<e>>
      \/ \E o \in others : calls = <<o>> \/ calls = <<e, o>> \/ calls = <<o, e>>
  BY DEF Calls
<1> HIDE DEF first, both, others
<1>6. Scheduled(both, X \union ToSet(calls), 2, e)
  <2>1. CASE calls = <<e>>
    BY <1>0, <1>2, <2>1
  <2>2. ASSUME NEW o \in others, calls = <<o>> \/ calls = <<e, o>> \/ calls = <<o, e>>
        PROVE  Scheduled(both, X \union ToSet(calls), 2, e)
    <3>1. o \in Events /\ o \notin X /\ o # e
      BY <1>4
    <3>2. CASE calls = <<o>>
      BY <1>2, <3>1, <3>2
    <3>3. CASE calls = <<e, o>>
      BY <1>0, <1>3, <3>1, <3>3
    <3>4. CASE calls = <<o, e>>
      BY <1>0, <1>3, <3>1, <3>4
    <3> QED BY <2>2, <3>2, <3>3, <3>4
  <2> QED BY <1>1, <1>5, <2>1, <2>2
<1> QED BY <1>6 DEF both, first

LEMMA RunEventKeeps ==
  ASSUME ClockAssumption, DelaysAssumption, EventInv, RunEvent
  PROVE  EventInv'
<1> SUFFICES ASSUME ~crossed' PROVE InHeap'
  BY DEF EventInv
<1> DEFINE e == Head(queue)
<1>1. PICK calls \in Calls(e) : \E asked \in [DOMAIN calls -> Asks], again \in BOOLEAN :
        /\ again => e \in Backoffs /\ ~Contains(calls, e)
        /\ LET first == StartCall(Schedule, calls, asked, 1)
               started == StartCall(first, calls, asked, 2)
               s == IF again THEN Reschedule(started, e) ELSE started
           IN  /\ queue' = Pop(s.queue, s.when)
               /\ when' = s.when
               /\ backoff' = s.backoff
               /\ crossed' = \/ crossed
                             \/ Crosses(Schedule, calls, asked, 1, e)
                             \/ Crosses(first, calls, asked, 2, e)
        /\ armed' = ((armed \ {e}) \union ToSet(calls)) \union (IF again THEN {e} ELSE {})
  BY DEF RunEvent
<1>2. PICK asked \in [DOMAIN calls -> Asks], again \in BOOLEAN :
        /\ again => e \in Backoffs /\ ~Contains(calls, e)
        /\ LET first == StartCall(Schedule, calls, asked, 1)
               started == StartCall(first, calls, asked, 2)
               s == IF again THEN Reschedule(started, e) ELSE started
           IN  /\ queue' = Pop(s.queue, s.when)
               /\ when' = s.when
               /\ backoff' = s.backoff
               /\ crossed' = \/ crossed
                             \/ Crosses(Schedule, calls, asked, 1, e)
                             \/ Crosses(first, calls, asked, 2, e)
        /\ armed' = ((armed \ {e}) \union ToSet(calls)) \union (IF again THEN {e} ELSE {})
  BY <1>1
<1>3. /\ ~crossed /\ ~Crosses(Schedule, calls, asked, 1, e)
      /\ ~Crosses(StartCall(Schedule, calls, asked, 1), calls, asked, 2, e)
      /\ InHeap /\ loop = "pending" /\ queue # <<>> /\ when[e] <= passed
      /\ UNCHANGED <<now, loop, passed, wake>>
  BY <1>2 DEF EventInv, RunEvent, IsDue
<1>4. /\ now \in Nat /\ passed \in Nat /\ armed \subseteq Events
      /\ queue \in Seq(Events) /\ when \in Times /\ e \in Events /\ queue[1] = e
      /\ 1 \in DOMAIN queue /\ Schedule \in Schedules
  <2>1. queue \in Seq(Events) /\ queue # <<>>
    BY <1>3, ScheduleIs DEF InHeap
  <2>2. Head(queue) = queue[1] /\ 1 \in DOMAIN queue /\ queue[1] \in Events
    BY <2>1
  <2> QED BY <1>3, <2>1, <2>2, ScheduleIs DEF InHeap
<1> DEFINE X == armed \ {e}
           started == StartCall(StartCall(Schedule, calls, asked, 1), calls, asked, 2)
           s == IF again THEN Reschedule(started, e) ELSE started
<1>5. queue' = Pop(s.queue, s.when) /\ when' = s.when /\ backoff' = s.backoff
  BY <1>2
<1> HIDE DEF e
<1>6. Scheduled(Schedule, X, 2, e)
  <2>1. Once(queue, X, 2)
    <3>1. PICK n \in Nat : DOMAIN queue = 1..n
      BY <1>4
    <3>2. Once(queue, armed, 1)
      BY <1>3 DEF InHeap, Holds
    <3>3. ASSUME NEW j \in 1..n, j >= 2 PROVE queue[j] \in X
      BY <1>4, <3>1, <3>2, <3>3 DEF Once
    <3>4. ASSUME NEW f \in X PROVE \E j \in 1..n : j >= 2 /\ queue[j] = f
      <4>1. PICK j \in 1..n : queue[j] = f
        BY <3>1, <3>2 DEF Once
      <4>2. j # 1
        BY <1>4, <4>1
      <4> QED BY <4>1, <4>2
    <3>5. ASSUME NEW j \in 1..n, NEW k \in 1..n, queue[j] = queue[k] PROVE j = k
      BY <3>1, <3>2, <3>5 DEF Once
    <3> QED BY <3>1, <3>3, <3>4, <3>5 DEF Once
  <2>2. Ordered(queue, when, 2)
    <3>1. Ordered(queue, when, 1)
      BY <1>3 DEF InHeap, Holds
    <3>2. PICK n \in Nat : DOMAIN queue = 1..n
      BY <1>4
    <3>3. \A j \in 1..n : j \div 2 >= 2 => j \div 2 >= 1
      BY Half
    <3> QED BY <3>1, <3>2, <3>3 DEF Ordered
  <2> QED BY <1>3, <1>4, <2>1, <2>2, ScheduleIs DEF Scheduled, Holds
<1>7. Scheduled(started, X \union ToSet(calls), 2, e)
  <2>1. /\ calls \in Calls(e) /\ asked \in [DOMAIN calls -> Asks]
        /\ ~Crosses(Schedule, calls, asked, 1, e)
        /\ ~Crosses(StartCall(Schedule, calls, asked, 1), calls, asked, 2, e)
    BY <1>3 DEF e
  <2> HIDE DEF X
  <2>2. X = armed \ {e}
    BY DEF X
  <2> QED BY <1>4, <1>6, <2>1, <2>2, CallsStart
<1> HIDE DEF started
<1>8. Scheduled(s, armed', 2, e)
  <2>1. CASE again
    <3>1. e \in Backoffs /\ e \notin ToSet(calls)
      <4>1. calls \in Seq(Events)
        <5>1. /\ <<>> \in Seq(Events) /\ <<e>> \in Seq(Events)
              /\ \A o \in Events : /\ <<o>> \in Seq(Events) /\ <<e, o>> \in Seq(Events)
                                   /\ <<o, e>> \in Seq(Events)
          BY <1>4
        <5> QED BY <5>1 DEF Calls, e
      <4> QED BY <1>2, <2>1, <4>1 DEF Contains, ToSet, e
    <3>2. PICK Y : Y = X \union ToSet(calls) /\ e \in Events \ Y
      BY <1>4, <3>1
    <3>3. Scheduled(Reschedule(started, e), Y \union {e}, 2, e)
      BY <1>7, <3>1, <3>2, RescheduleSchedules
    <3>4. armed' = Y \union {e}
      BY <1>2, <2>1, <3>2 DEF e
    <3> QED BY <2>1, <3>3, <3>4
  <2>2. CASE ~again
    <3>1. armed' = X \union ToSet(calls)
      BY <1>2, <2>2 DEF e
    <3> QED BY <1>7, <2>2, <3>1
  <2> QED BY <2>1, <2>2
<1> HIDE DEF s
<1>9. /\ s \in Schedules /\ s.queue \in Seq(Events) /\ s.when \in Times
      /\ s.backoff \in [Backoffs -> [start : Nat, delay : Nat]]
      /\ Holds(s.queue, s.when, armed', 2) /\ s.queue # <<>>
  BY <1>8 DEF Scheduled, Schedules
<1>10. queue' \in Seq(Events) /\ Holds(queue', when', armed', 1)
  BY <1>5, <1>9, PopTakesTop
<1>11. Schedule' \in Schedules
  BY <1>5, <1>9, <1>10 DEF Schedule, Schedules
<1>12. armed' \subseteq Events
  <2>1. \A f \in armed' : \E j \in DOMAIN queue' : queue'[j] = f
    BY <1>10 DEF Holds, Once
  <2> QED BY <1>10, <2>1
<1> QED BY <1>3, <1>4, <1>10, <1>11, <1>12 DEF InHeap

LEMMA EventNextInv ==
  ASSUME ClockAssumption, DelaysAssumption
  PROVE  EventInv /\ [EventNext]_eventVars => EventInv'
<1> SUFFICES ASSUME EventInv, [EventNext]_eventVars PROVE EventInv'
  OBVIOUS
<1>1. CASE \E e \in Events, ask \in Asks : Start(e, ask)
  BY <1>1, StartKeeps
<1>2. CASE RunEvent
  BY <1>2, RunEventKeeps
<1>3. CASE NothingDue \/ Sleep \/ Advance \/ UNCHANGED eventVars \/ Wake
  <2> SUFFICES ASSUME ~crossed PROVE InHeap'
    BY <1>3 DEF EventInv, NothingDue, Sleep, Advance, Wake, eventVars
  <2>1. InHeap /\ UNCHANGED <<queue, when, backoff, armed>>
    BY <1>3 DEF EventInv, NothingDue, Sleep, Advance, Wake, eventVars
  <2>2. Schedule' = Schedule /\ Holds(queue', when', armed', 1)
    BY <2>1 DEF Schedule, InHeap
  <2>3. now' \in Nat /\ passed' \in Nat
    BY <1>3, <2>1 DEF InHeap, NothingDue, Sleep, Advance, Wake, eventVars
  <2> QED BY <2>1, <2>2, <2>3 DEF InHeap
<1> QED BY <1>1, <1>2, <1>3 DEF EventNext

\* No event that is due is left behind by a pass.
LEMMA PassesInTime ==
  ASSUME EventInv, [EventNext]_eventVars, loop = "pending", loop' = "handlers",
         ~crossed, NEW e \in armed
  PROVE  when[e] > passed
<1>1. NothingDue
  BY DEF EventNext, eventVars, Start, RunEvent, Sleep, Wake, Advance
<1>2. InHeap /\ ~IsDue
  BY <1>1 DEF EventInv, NothingDue
<1>3. queue \in Seq(Events) /\ when \in Times /\ passed \in Nat /\ Holds(queue, when, armed, 1)
  BY <1>2, ScheduleIs DEF InHeap
<1>4. PICK j \in DOMAIN queue : queue[j] = e
  BY <1>3 DEF Holds, Once
<1>5. queue # <<>> /\ Head(queue) = queue[1] /\ queue[1] \in Events /\ queue[j] \in Events
  BY <1>3, <1>4
<1>6. when[queue[1]] > passed
  BY <1>2, <1>3, <1>5 DEF IsDue, Times
<1>7. when[queue[1]] <= when[e]
  BY <1>3, <1>4, TopIsFirst
<1> QED BY <1>3, <1>4, <1>5, <1>6, <1>7 DEF Times

LEMMA SleepsInTime ==
  ASSUME ClockAssumption, EventInv, [EventNext]_eventVars,
         loop # "asleep", loop' = "asleep", ~crossed, NEW e \in armed
  PROVE  /\ \E i \in DOMAIN queue : \A j \in DOMAIN queue : queue[j] = e <=> j = i
         /\ \/ wake' = now
            \/ wake' # Forever /\ wake' < when[e] + Fraction
            \/ \E o \in armed : when[o] - now \in 0..(Fraction - 1)
            \/ when[e] - now > ((Limit \div 2) - 1) * Fraction
<1>1. Sleep
  BY DEF EventNext, eventVars, Start, RunEvent, NothingDue, Wake, Advance
<1>2. InHeap /\ loop = "handlers"
  BY <1>1 DEF EventInv, Sleep
<1>3. /\ queue \in Seq(Events) /\ when \in Times /\ passed \in Nat /\ now \in Nat
      /\ Holds(queue, when, armed, 1) /\ e \in Events
  BY <1>2, ScheduleIs DEF InHeap
<1>4. PICK i \in DOMAIN queue : queue[i] = e
  BY <1>3 DEF Holds, Once
<1>5. \A j \in DOMAIN queue : queue[j] = e <=> j = i
  <2>1. DOMAIN queue = 1..Len(queue)
    BY <1>3
  <2>2. \A j \in DOMAIN queue, k \in DOMAIN queue : queue[j] = queue[k] => j = k
    BY <1>3, <2>1 DEF Holds, Once
  <2> QED BY <1>4, <2>2
<1>6. PICK o \in armed : o = Head(queue) /\ when[o] <= when[e]
  <2>1. queue # <<>> /\ Head(queue) = queue[1] /\ 1 \in DOMAIN queue
    BY <1>3, <1>4
  <2>2. queue[1] \in armed
    BY <1>3, <2>1 DEF Holds, Once
  <2> QED BY <1>3, <1>4, <2>1, <2>2, TopIsFirst
<1>7. PICK t \in Nat, u \in Nat : t = when[o] /\ u = when[e] /\ t <= u
  BY <1>2, <1>3, <1>6 DEF Times, InHeap
<1>8. PICK g : g = GetDelayFrom(t, now) /\ g = GetTimeUntilNextEvent
  <2>1. queue # <<>>
    BY <1>3, <1>4
  <2> QED BY <1>6, <1>7, <2>1 DEF GetTimeUntilNextEvent
<1>9. wake' = IF g >= Limit \div 2 THEN Forever ELSE IncrementBy(now, g)
  BY <1>1, <1>8 DEF Sleep
<1>10. PICK h \in Nat : h = Limit \div 2 /\ h > 0
  <2>1. Limit >= 2
    <3>1. Second * Second >= 2
      BY DEF ClockAssumption
    <3> QED BY <3>1 DEF ClockAssumption
  <2> QED BY <2>1 DEF ClockAssumption
<1>11. \/ wake' = now
       \/ wake' # Forever /\ wake' < when[e] + Fraction
       \/ \E f \in armed : when[f] - now \in 0..(Fraction - 1)
       \/ when[e] - now > ((Limit \div 2) - 1) * Fraction
  <2>1. CASE g = 0
    <3>1. IncrementBy(now, 0) = now
      BY <1>3 DEF IncrementBy, ClockAssumption
    <3> QED BY <1>9, <1>10, <2>1, <3>1
  <2>2. CASE g \in 0..(h - 1) /\ IncrementBy(now, g) < t + Fraction
    <3>1. wake' = IncrementBy(now, g)
      BY <1>9, <1>10, <2>2
    <3>2. IncrementBy(now, g) \in Nat
      <4>1. g * Fraction \in Nat
        BY <1>10, <2>2 DEF ClockAssumption
      <4> QED BY <1>3, <4>1 DEF IncrementBy
    <3> QED BY <1>7, <2>2, <3>1, <3>2 DEF Forever, ClockAssumption
  <2>3. CASE t - now \in 0..(Fraction - 1)
    BY <1>7, <2>3
  <2>4. CASE t - now > (h - 1) * Fraction
    <3>1. PICK far \in Int : far = (h - 1) * Fraction
      BY DEF ClockAssumption
    <3>2. u - now > far
      BY <1>3, <1>7, <2>4, <3>1
    <3> QED BY <1>7, <1>10, <3>1, <3>2
  <2> QED BY <1>3, <1>7, <1>8, <1>10, <2>1, <2>2, <2>3, <2>4, DelayIs
<1> QED BY <1>4, <1>5, <1>11

\* A pass leaves no event behind that is due, and when the loop goes to sleep, every
\* event that was started and has not run is in the queue once and the loop wakes up for
\* it in time: for any number of events and whatever the callbacks start, at whatever
\* Timers, short of what EventsInTime excludes.
THEOREM SleepIsShort == EventSpec => EventsInTime
<1>1. EventInit => EventInv
  BY EventInitInv
<1>2. EventInv /\ [EventNext]_eventVars => EventInv'
  BY ClockAssumption, DelaysAssumption, EventNextInv
<1>3. EventInv /\ [EventNext]_eventVars =>
        [~crossed =>
           /\ loop = "pending" /\ loop' = "handlers" =>
                \A e \in armed : when[e] > passed
           /\ loop # "asleep" /\ loop' = "asleep" =>
                \A e \in armed :
                  /\ \E i \in DOMAIN queue : \A j \in DOMAIN queue : queue[j] = e <=> j = i
                  /\ \/ wake' = now
                     \/ wake' # Forever /\ wake' < when[e] + Fraction
                     \/ \E o \in armed : when[o] - now \in 0..(Fraction - 1)
                     \/ when[e] - now > ((Limit \div 2) - 1) * Fraction]_eventVars
  BY ClockAssumption, PassesInTime, SleepsInTime
<1> QED BY <1>1, <1>2, <1>3, PTL DEF EventSpec, EventsInTime
=============================================================================
