------------------------------- MODULE UserDb -------------------------------
(***************************************************************************)
(* The user database (userdb.cc): a text file that uvpn-user changes and   *)
(* uvpn-server and `uvpn-user get' look users up in, each in a process of  *)
(* its own and under a lock of the whole file.  A session opens the file,  *)
(* reads all of it, and a change writes all of it back in place, one       *)
(* write() after the other; a process may be killed between any two, and   *)
(* most errors of the calls it makes are passed over.                      *)
(*                                                                         *)
(* The file is a sequence of cells, one for what one write() of Commit     *)
(* writes; a cell stands at the offset where that write puts it, so names  *)
(* are taken to have one length, and secrets too.                          *)
(***************************************************************************)
EXTENDS Integers, Sequences, SequencesExt

CONSTANTS Admins,    \* processes that run `uvpn-user add' and `del'
          Lookups,   \* uvpn-server, and processes that run `uvpn-user get'
          LastUser,  \* users are numbers, in the order of their names
          Failures   \* whether system calls may fail

Users == 1..LastUser
Processes == Admins \union Lookups
NoOne == "NoOne"  \* nobody holds the lock

ASSUME UserDbAssumption ==
  NoOne \notin Processes /\ LastUser \in Nat /\ Failures \in BOOLEAN

VARIABLES
  file,     \* the cells of the file
  lock,     \* the process whose fcntl lock the file has, or NoOne
  stage,    \* stage[p]: "idle", between two sessions; "open", or "refused"
            \* the lock but with the descriptor open; "writing"
  users,    \* users[p]: users_, from usernames to secrets
  cursor,   \* cursor[p]: how many of its write()s p has made while it commits
  offset,   \* offset[p]: the offset of p's descriptor by then
  lost,     \* lost[p]: whether one of them failed or was short
  intended, \* intended[p]: what the file should hold when p has committed,
            \* from what it held when p began to (history)
  unlocked, \* whether a process without the lock was let in, or one that was
            \* refused it has committed (history)
  misread,  \* whether an error of read() was taken for the end (history)
  garbled   \* whether a commit wrote on after an error, so that what it
            \* wrote does not stand where it should (history)

fileVars == <<file, lock, unlocked, misread, garbled>>
dbVars == <<fileVars, stage, users, cursor, offset, lost, intended>>

Name(u) == [kind |-> "name", of |-> u]
Secret(u) == [kind |-> "secret", of |-> u]
Colon == [kind |-> "colon", of |-> 0]
Eol == [kind |-> "eol", of |-> 0]
Hole == [kind |-> "nul", of |-> 0]  \* where a write() went past the end

\* What is left of a cell that was cut within: a colon and an end of line are
\* one byte.
Part(c) ==
  [kind |-> CASE c.kind = "name" -> "cut name"
              [] c.kind = "secret" -> "cut secret"
              [] OTHER -> c.kind,
   of |-> c.of]

\* What is left of a text.
Cuts(text) == {SubSeq(text, 1, n) : n \in 0..Len(text)}
                \union {Append(SubSeq(text, 1, n - 1), Part(text[n])) : n \in 1..Len(text)}

-----------------------------------------------------------------------------
(* What the file says: UdbSecretFile::ParseFd.                             *)

NoUsers == <<>>  \* the empty map
Assigned(db, name, secret) ==
  [n \in DOMAIN db \union {name} |-> IF n = name THEN secret ELSE db[n]]

\* One cell more.  Only a colon ends a username and only an end of line a
\* secret; a username met again replaces the secret it had.
ParseCellKeepsSecret(s, c) ==  \* mutation: secret.clear() forgotten
  CASE s.state # "PARSING_SECRET" /\ c = Colon ->
         [s EXCEPT !.state = "PARSING_SECRET"]
    [] s.state # "PARSING_SECRET" /\ c # Colon ->
         [s EXCEPT !.state = "PARSING_USERNAME", !.username = Append(@, c)]
    [] s.state = "PARSING_SECRET" /\ c = Eol ->
         [s EXCEPT !.state = "END_OF_RECORD", !.username = <<>>,
                   !.found = Assigned(@, s.username, s.secret)]
    [] OTHER -> [s EXCEPT !.secret = Append(@, c)]
ParseCell(s, c) ==
  CASE s.state # "PARSING_SECRET" /\ c = Colon ->
         [s EXCEPT !.state = "PARSING_SECRET"]
    [] s.state # "PARSING_SECRET" /\ c # Colon ->
         [s EXCEPT !.state = "PARSING_USERNAME", !.username = Append(@, c)]
    [] s.state = "PARSING_SECRET" /\ c = Eol ->
         [s EXCEPT !.state = "END_OF_RECORD", !.username = <<>>, !.secret = <<>>,
                   !.found = Assigned(@, s.username, s.secret)]
    [] OTHER -> [s EXCEPT !.secret = Append(@, c)]

Parsed(cells) ==
  FoldLeft(ParseCell,
           [state |-> "END_OF_RECORD", username |-> <<>>, secret |-> <<>>,
            found |-> NoUsers],
           cells)

\* The file ends within a username.
Corrupted(cells) == Parsed(cells).state = "PARSING_USERNAME"

\* ... or within a secret, which is taken as it is.
Contents(cells) ==
  LET s == Parsed(cells)
  IN IF s.state = "PARSING_SECRET" THEN Assigned(s.found, s.username, s.secret)
     ELSE s.found

\* The operations of UdbSecretFile on the map.
Exists(db, u) == <<Name(u)>> \in DOMAIN db
Added(db, u) == Assigned(db, <<Name(u)>>, <<Secret(u)>>)
Removed(db, u) == [n \in DOMAIN db \ {<<Name(u)>>} |-> db[n]]

\* What Commit writes for a map, in the order of the map.
RecordUnended(db, u) == <<Name(u), Colon>> \o db[<<Name(u)>>]  \* mutation: no end of line
Record(db, u) == <<Name(u), Colon>> \o db[<<Name(u)>>] \o <<Eol>>
Dump(db) ==
  FoldLeft(LAMBDA text, u : IF Exists(db, u) THEN text \o Record(db, u) ELSE text,
           <<>>, [u \in Users |-> u])

\* What ftruncate() at the beginning of Commit leaves, "continuing anyway".
Truncated(cells) == {<<>>} \union (IF Failures THEN {cells} ELSE {})

\* write() of one cell at an offset.
WriteAt(cells, at, cell) ==
  [i \in 1..(IF at + 1 > Len(cells) THEN at + 1 ELSE Len(cells)) |->
     IF i = at + 1 THEN cell ELSE IF i > Len(cells) THEN Hole ELSE cells[i]]

-----------------------------------------------------------------------------
DbInit ==
  /\ file = <<>>
  /\ lock = NoOne
  /\ stage = [p \in Processes |-> "idle"]
  /\ users = [p \in Processes |-> NoUsers]
  /\ cursor = [p \in Processes |-> 0]
  /\ offset = [p \in Processes |-> 0]
  /\ lost = [p \in Processes |-> FALSE]
  /\ intended = [p \in Processes |-> NoUsers]
  /\ unlocked = FALSE /\ misread = FALSE /\ garbled = FALSE

\* Close, by the session's end or the process's: users_ is emptied, and the
\* kernel releases the lock if it is this process's.
Close(p) ==
  /\ stage' = [stage EXCEPT ![p] = "idle"]
  /\ users' = [users EXCEPT ![p] = NoUsers]
  /\ cursor' = [cursor EXCEPT ![p] = 0]
  /\ offset' = [offset EXCEPT ![p] = 0]
  /\ lost' = [lost EXCEPT ![p] = FALSE]
  /\ intended' = [intended EXCEPT ![p] = NoUsers]
  /\ lock' = IF lock = p THEN NoOne ELSE lock
  /\ UNCHANGED <<file, unlocked, misread, garbled>>

\* UserDbSession ignores what Open returns.
\* The lock is held by another process: the descriptor stays open, so the
\* operations that follow find a database, and it is empty.
LockNotAsked(p) == TRUE  \* mutation: LockFd's answer is not looked at
LockGranted(p) == lock \in {NoOne, p}
OpenRefused(p) ==
  /\ stage[p] = "idle"
  /\ ~LockGranted(p)
  /\ stage' = [stage EXCEPT ![p] = "refused"]
  /\ UNCHANGED <<fileVars, users, cursor, offset, lost, intended>>

\* ParseFd takes an error of read() for the end of the file.
ReadFile(p) ==
  \E cells \in (IF Failures THEN Cuts(file) ELSE {file}) :
    /\ ~Corrupted(cells)  \* else Open closes again, and every operation fails
    /\ stage' = [stage EXCEPT ![p] = "open"]
    /\ users' = [users EXCEPT ![p] = Contents(cells)]
    /\ misread' = (misread \/ cells # file)
    /\ UNCHANGED <<file, garbled, cursor, offset, lost, intended>>

Open(p) ==
  /\ stage[p] = "idle"
  /\ LockGranted(p)
  /\ lock' = IF lock = NoOne THEN p ELSE lock
  /\ ReadFile(p)
  /\ UNCHANGED unlocked

\* The lock cannot be had for another reason, "continuing anyway".
OpenUnlocked(p) ==
  /\ Failures
  /\ stage[p] = "idle"
  /\ unlocked' = TRUE
  /\ ReadFile(p)
  /\ UNCHANGED lock

\* fd_ >= 0, all that the operations ask for.
HasFd(p) == stage[p] \in {"open", "refused"}

\* Commit as far as its ftruncate(), of p's changed map; the same change, made to
\* the map in the file, is what p intends.
BeginCommit(p, changed, intent) ==
  /\ users' = [users EXCEPT ![p] = changed]
  /\ file' \in Truncated(file)
  /\ garbled' = (garbled \/ file' # <<>>)
  /\ cursor' = [cursor EXCEPT ![p] = 0]
  /\ offset' = [offset EXCEPT ![p] = 0]
  /\ lost' = [lost EXCEPT ![p] = FALSE]
  /\ intended' = [intended EXCEPT ![p] = intent]
  /\ unlocked' = (unlocked \/ stage[p] = "refused")
  /\ stage' = [stage EXCEPT ![p] = "writing"]
  /\ UNCHANGED <<lock, misread>>

AddUser(p, u) ==
  /\ p \in Admins /\ HasFd(p)
  /\ ~Exists(users[p], u)
  /\ BeginCommit(p, Added(users[p], u), Added(Contents(file), u))

DelUser(p, u) ==
  /\ p \in Admins /\ HasFd(p)
  /\ Exists(users[p], u)
  /\ BeginCommit(p, Removed(users[p], u), Removed(Contents(file), u))

\* The user exists already, or does not exist, or the descriptor was closed:
\* no commit.
ChangeFails(p) ==
  /\ p \in Admins /\ HasFd(p)
  /\ Close(p)

\* Commit's next write(), and what it has written: all of its cell, or a part
\* of it, or nothing.  Commit does not look.
Write(p) ==
  /\ stage[p] = "writing"
  /\ cursor[p] < Len(Dump(users[p]))
  /\ cursor' = [cursor EXCEPT ![p] = @ + 1]
  /\ LET cell == Dump(users[p])[cursor[p] + 1]
     IN  \/ \E written \in (IF Failures THEN {cell, Part(cell)} ELSE {cell}) :
              /\ file' = WriteAt(file, offset[p], written)
              /\ offset' = [offset EXCEPT ![p] = @ + 1]
              /\ lost' = [lost EXCEPT ![p] = @ \/ written # cell]
              /\ garbled' = (garbled \/ lost[p])
         \/ /\ Failures
            /\ lost' = [lost EXCEPT ![p] = TRUE]
            /\ UNCHANGED <<file, offset, garbled>>
  /\ UNCHANGED <<lock, stage, users, intended, unlocked, misread>>

EndCommit(p) ==
  /\ stage[p] = "writing"
  /\ cursor[p] = Len(Dump(users[p]))
  /\ Close(p)

\* A lookup changes nothing, but holds the lock until it is over.
GetUser(p) ==
  /\ p \in Lookups /\ HasFd(p)
  /\ Close(p)

\* A process is killed.
Crash(p) ==
  /\ stage[p] = "writing"
  /\ Close(p)

DbNext ==
  \E p \in Processes :
    \/ Open(p) \/ OpenRefused(p) \/ OpenUnlocked(p) \/ ChangeFails(p)
    \/ GetUser(p) \/ Write(p) \/ EndCommit(p) \/ Crash(p)
    \/ \E u \in Users : AddUser(p, u) \/ DelUser(p, u)

DbSpec == DbInit /\ [][DbNext]_dbVars

-----------------------------------------------------------------------------
\* Whoever is found in the file is found with his own secret, with a part of
\* it or with none: no other user's, and none put together from two records,
\* whatever read failed, wherever a commit was killed or ran out of space, as
\* long as nobody writes without the lock and no commit writes on after a
\* failed ftruncate() or write().
OwnSecrets ==
  ~unlocked /\ ~garbled /\ ~Corrupted(file) =>
    \A n \in DOMAIN Contents(file) :
      \E u \in Users :
        n = <<Name(u)>> /\ Contents(file)[n] \in {<<>>, <<Secret(u)>>, <<Part(Secret(u))>>}

\* A program whose Open returned true holds the database as it is in the file until
\* it truncates it, so its commit takes back nobody else's change, as long as
\* nobody is let in without the lock and no read fails.
UpToDate ==
  \A p \in Processes :
    stage[p] = "open" /\ ~unlocked /\ ~misread => users[p] = Contents(file)

\* A commit that is killed at any write, or runs out of space within one,
\* leaves a beginning of what it should have written, and one that made all of
\* its writes leaves all of it: under the same conditions, and unless what was
\* read was not all there was.
CutIsPrefix ==
  \A p \in Processes :
    stage[p] = "writing" /\ ~unlocked /\ ~misread /\ ~garbled =>
      /\ file \in Cuts(Dump(intended[p]))
      /\ cursor[p] = Len(Dump(users[p])) /\ ~lost[p] => Contents(file) = intended[p]

\* A commit leaves every user in the file whom the command was not about:
\* "cannot add user %s - db is not opened." is what the operations say after
\* Open has returned false (userdb.cc:61, 77, 92).
OthersKept ==
  \A p \in Processes :
    stage[p] = "writing" /\ cursor[p] = Len(Dump(users[p])) =>
      Contents(file) = intended[p]
=============================================================================
