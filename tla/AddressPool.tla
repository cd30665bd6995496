---------------------------- MODULE AddressPool ----------------------------
(***************************************************************************)
(* What the rest of the server expects of the address manager: a pool of   *)
(* addresses, each granted to at most one holder at a time.  Nothing is    *)
(* said about the order in which addresses are granted, nor about the      *)
(* bookkeeping that finds a free one.                                      *)
(***************************************************************************)

CONSTANTS Holders,     \* who may be granted an address
          Pool,        \* the addresses
          Returnable,  \* the addresses that go back to the pool when given up
          NoAddress    \* what a holder without an address holds

VARIABLES taken,  \* addresses out of the pool
          grant   \* grant[h] is the address h was granted, or NoAddress

poolVars == <<taken, grant>>

PoolInit == /\ taken = {}
            /\ grant = [h \in Holders |-> NoAddress]

\* A holder obtains an address nobody has.
Grant(h) == /\ grant[h] = NoAddress
            /\ \E a \in Pool \ taken :
                  /\ taken' = taken \union {a}
                  /\ grant' = [grant EXCEPT ![h] = a]

\* A holder gives its address up.
GiveUp(h) == /\ grant[h] # NoAddress
             /\ taken' = IF grant[h] \in Returnable
                         THEN taken \ {grant[h]} ELSE taken
             /\ grant' = [grant EXCEPT ![h] = NoAddress]

PoolNext == \E h \in Holders : Grant(h) \/ GiveUp(h)

PoolSpec == PoolInit /\ [][PoolNext]_poolVars
=============================================================================
