---------------------------- MODULE Registration ----------------------------
(***************************************************************************)
(* The relay clients of one machine, which share an identity file, and     *)
(* clients of other machines register with one server.  A client sends its *)
(* registration when it has its identity and again when the server has     *)
(* forgotten its tenant; it exits when it gets an error or no answer, and  *)
(* its process manager starts another one.                                 *)
(***************************************************************************)
EXTENDS Identity, TenantStore

CONSTANTS
  Others,       \* clients of other machines
  OtherTenants

ASSUME RegistrationAssumption ==
  /\ Requests = Processes \union Others
  /\ Tenants = Secrets \union OtherTenants
  /\ Processes \intersect Others = {}
  /\ Secrets \intersect OtherTenants = {}

VARIABLES
  asking,     \* clients of the machine that wait for an answer
  registered  \* clients of the machine that have got a good one

clientVars == <<asking, registered>>
vars == <<identityVars, storeVars, clientVars>>

TypeOK ==
  /\ IdentityTypeOK
  /\ StoreTypeOK
  /\ asking \subseteq Processes
  /\ registered \subseteq Processes

Init == IdentityInit /\ StoreInit /\ asking = {} /\ registered = {}

-----------------------------------------------------------------------------
IdentityOnly(p) ==
  /\ Start(p) \/ IdentityStep(p) \/ Exit(p)
  /\ UNCHANGED <<storeVars, clientVars>>

Forget(p) ==
  /\ asking' = asking \ {p}
  /\ registered' = registered \ {p}

Dies(p) == Crash(p) /\ Forget(p) /\ UNCHANGED storeVars

Ask(p) ==
  /\ pc[p] = "own"
  /\ p \notin asking \union registered
  /\ Register(p, hold[p].secret)
  /\ asking' = asking \union {p}
  /\ UNCHANGED <<identityVars, registered>>

\* An answer of the server reaches the client that asked, if it is still there.
Answer(p) ==
  /\ Known(p) \/ (Rename(p) /\ p \notin orphan)
  /\ registered' = registered \union (asking \intersect {p})
  /\ asking' = asking \ {p}
  /\ UNCHANGED identityVars

\* An error or a lost connection: register fails, and so does run.  One that waits longer
\* than its timeout is one that dies.
GivesUp(p) ==
  /\ p \in asking
  /\ stage[p] = "none"
  /\ Gone(p)
  /\ Forget(p)
  /\ UNCHANGED <<storeVars, faults>>

\* A poll is answered with 404, and the client registers again.
Unregistered(p) ==
  /\ p \in registered
  /\ up
  /\ hold[p].secret \notin tenants
  /\ registered' = registered \ {p}
  /\ UNCHANGED <<identityVars, storeVars, asking>>

\* What the server does unseen, or with other clients; a client that waits has not hung up.
ServerOnly ==
  /\ \/ \E r \in Requests :
          \/ Refused(r) \/ Insert(r) \/ Open(r) \/ Write(r) \/ Permit(r)
          \/ Missing(r) \/ StoreFails(r)
          \/ r \in orphan \union Others /\ Rename(r)
          \/ r \in Others /\ Known(r)
          \/ r \notin asking /\ Drop(r)
     \/ \E o \in Others, t \in OtherTenants : t \notin confirmed \intersect tenants /\ Register(o, t)
     \/ ServerDies \/ ServerStarts
  /\ UNCHANGED <<identityVars, clientVars>>

Next ==
  \/ \E p \in Processes :
       IdentityOnly(p) \/ Dies(p) \/ Ask(p) \/ Answer(p) \/ GivesUp(p) \/ Unregistered(p)
  \/ ServerOnly

Spec == Init /\ [][Next]_vars

-----------------------------------------------------------------------------
(* Properties *)

\* The clients of a machine are one tenant: those that have an identity have the one in
\* the file, and the server has never heard of another one, whichever client made it and
\* whoever died meanwhile (load_or_create_identity, register).
OneTenant ==
  /\ Agreement
  /\ Secrets \intersect (tenants \union confirmed \union Stored) \subseteq {FileSecret}
=============================================================================
