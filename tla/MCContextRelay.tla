--------------------------- MODULE MCContextRelay ---------------------------
(***************************************************************************)
(* Instances of ContextRelay: one tenant with one client or with two, and  *)
(* two tenants with a client each that contend for a single place.         *)
(***************************************************************************)
EXTENDS RelayMailbox, TLC

CONSTANTS t1, t2, c2

OneTenant == [x \in Clients \union Requests |-> t1]
TwoTenants == [x \in Clients \union Requests |-> IF x = c2 THEN t2 ELSE t1]

SameRequests == Permutations(Polls) \union Permutations(Requests)
=============================================================================
