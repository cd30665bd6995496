------------------------- MODULE MCServerSessions -------------------------
(***************************************************************************)
(* Instances of ServerSessions for TLC.  Peers, connections and session    *)
(* objects are interchangeable; the server's own endpoint is not.          *)
(***************************************************************************)
EXTENDS ServerSessions, TLC

Symmetry ==
  Permutations(Peers) \union Permutations(Conns) \union Permutations(Sids)
=============================================================================
