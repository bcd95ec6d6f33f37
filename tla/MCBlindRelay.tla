--------------------------- MODULE MCBlindRelay ----------------------------
(***************************************************************************)
(* An instance of BlindRelay: the slots and the first connections are of   *)
(* one tenant, the last connection is of a tenant without slots.           *)
(***************************************************************************)
EXTENDS BlindRelay

CONSTANTS t1, t2

LastIsForeign ==
  [x \in Slots \union Conns |-> IF x = MaxTunnels + MaxConns THEN t2 ELSE t1]
=============================================================================
