--------------------------- MODULE BlindRelayProofs ---------------------------
(***************************************************************************)
(* Theorems about BlindRelay, for all sets of tenants and slots and all    *)
(* bounds.                                                                 *)
(***************************************************************************)
EXTENDS BlindRelay, FiniteSetTheorems, FunctionTheorems, WellFoundedInduction, TLAPS

-----------------------------------------------------------------------------
(* The inductive invariant *)

\* A connection is in the hands of a tunnel of its tenant while it waits there, and until
\* the bridge ends.
InHands(w) ==
  /\ tunnel[w] = "free" <=> slotOf[w] = None
  /\ tunnel[w] = "bridge" => held[w] # None /\ conn[held[w]] \in {"bridged", "left"}
  /\ held[w] # None => tunnel[w] \in {"waiting", "bridge"} /\ OwnerOf(w) = TenantOf[held[w]]
  /\ held[w] # None /\ tunnel[w] = "waiting" => conn[held[w]] = "handed"

OneHolder ==
  \A v, w \in Tunnels : held[v] = held[w] /\ held[v] # None => v = w

\* What is on its way and what has arrived is no more than there is, and all there is
\* when the slot has passed it all on.
Flow(w) ==
  /\ tunnel[w] # "bridge" => wire[w] = 0
  /\ tunnel[w] = "bridge" =>
       /\ got[held[w]] + wire[w] =< Chunks
       /\ held[w] \in answered => got[held[w]] + wire[w] = Chunks

\* A slot and the tunnel at the other end of its websocket know where they stand, and
\* what the slot has passed on is on its way or has arrived.
Linked(s) ==
  /\ slot[s] # "bridge" => given[s] = 0
  /\ link[s] # None =>
       /\ slotOf[link[s]] = s
       /\ \/ slot[s] = "open" /\ tunnel[link[s]] # "bridge"
          \/ /\ slot[s] \in {"assigned", "bridge"} /\ tunnel[link[s]] = "bridge"
             /\ got[held[link[s]]] + wire[link[s]] = given[s]

\* A connection that waits for its answer has somebody to wait for.
Waits(c) ==
  /\ conn[c] \in {"handed", "bridged"} => \E w \in Tunnels : held[w] = c
  /\ conn[c] \in {"new", "hello", "route", "handed", "refused"} => got[c] = 0
  /\ c \in answered => conn[c] \in {"bridged", "left", "done", "lost"}

Bridging ==
  /\ OneHolder
  /\ \A w \in Tunnels : InHands(w) /\ Flow(w)
  /\ \A s \in Slots : Linked(s)
  /\ \A c \in Conns : Waits(c)

BlindInv == TypeOK /\ SlotsConserved /\ Bridging /\ WholeAnswer

\* TypeOK without the queue.
Types ==
  /\ registered \subseteq Tenants
  /\ tunnel \in [Tunnels -> TunnelPC]
  /\ slotOf \in [Tunnels -> Slots \union {None}]
  /\ held \in [Tunnels -> Conns \union {None}]
  /\ wire \in [Tunnels -> 0..Chunks]
  /\ silent \subseteq Tunnels
  /\ slot \in [Slots -> SlotPC]
  /\ link \in [Slots -> Tunnels \union {None}]
  /\ given \in [Slots -> 0..Chunks]
  /\ conn \in [Conns -> ConnPC \union Over]
  /\ got \in [Conns -> 0..Chunks]
  /\ answered \subseteq Conns
  /\ faults \in 0..MaxFaults

BridgeInv == Types /\ Bridging /\ WholeAnswer

-----------------------------------------------------------------------------
(* The constants *)

LEMMA Limits ==
  /\ MaxTunnels \in Nat \ {0} /\ MaxSlots \in Nat \ {0} /\ MaxConns \in Nat \ {0}
  /\ Chunks \in Nat \ {0} /\ MaxFaults \in Nat
BY BlindAssumption DEF BlindAssumption

LEMMA Names ==
  /\ Tunnels \subseteq Nat /\ None \notin Tunnels /\ None \notin Conns /\ None \notin Slots
  /\ TenantOf \in [Slots \union Conns -> Tenants]
BY BlindAssumption DEF BlindAssumption, Tunnels

\* A nonempty set of numbers has a least one.
LEMMA LeastNumber ==
  ASSUME NEW S \in SUBSET Nat, S # {}
  PROVE  \E m \in S : \A k \in S : m =< k
<1>1. PICK D : D = {0..n : n \in S}
  OBVIOUS
<1>2. ASSUME NEW n \in S
      PROVE  0..n \in FiniteSubsetsOf(Nat)
  <2>1. 0..n \in SUBSET Nat /\ IsFiniteSet(0..n)
    BY FS_Interval
  <2>2. QED
    BY <2>1 DEF FiniteSubsetsOf
<1>3. D \subseteq FiniteSubsetsOf(Nat) /\ D # {}
  BY <1>1, <1>2
<1>4. IsWellFoundedOn(StrictSubsetOrdering(Nat), FiniteSubsetsOf(Nat))
  BY FS_StrictSubsetOrderingWellFounded
<1>5. \E x \in D : \A y \in D : ~ (<<y, x>> \in StrictSubsetOrdering(Nat))
  BY <1>3, <1>4, WFMin
<1>6. PICK m \in S : \A k \in S : ~ (<<0..k, 0..m>> \in StrictSubsetOrdering(Nat))
  BY <1>1, <1>5
<1>7. ASSUME NEW k \in S
      PROVE  m =< k
  <2>1. k \in Nat /\ m \in Nat
    OBVIOUS
  <2>2. k < m => <<0..k, 0..m>> \in StrictSubsetOrdering(Nat)
    BY <2>1 DEF StrictSubsetOrdering
  <2>3. QED
    BY <1>6, <2>1, <2>2
<1>8. QED
  BY <1>7

\* So a nonempty set of numbers up to n has a greatest one.
LEMMA GreatestNumber ==
  ASSUME NEW n \in Nat, NEW S \in SUBSET (1..n), S # {}
  PROVE  \E m \in S : \A k \in S : k =< m
<1>1. PICK D : D = {n - s : s \in S}
  OBVIOUS
<1>2. D \in SUBSET Nat /\ D # {}
  <2>1. \A s \in S : n - s \in Nat
    OBVIOUS
  <2>2. D \in SUBSET Nat
    BY <1>1, <2>1
  <2>3. D # {}
    BY <1>1
  <2>4. QED
    BY <2>2, <2>3
<1>3. PICK d \in D : \A e \in D : d =< e
  BY <1>2, LeastNumber
<1>4. PICK m \in S : d = n - m
  BY <1>1, <1>3
<1>5. ASSUME NEW k \in S
      PROVE  k =< m
  <2>1. n - k \in D
    BY <1>1
  <2>2. QED
    BY <1>3, <1>4, <2>1
<1>6. QED
  BY <1>5

-----------------------------------------------------------------------------
(* Steps that only slots take *)

\* Tunnels and connections stay as they are.
OnlySlots == UNCHANGED <<tunnel, slotOf, held, wire, conn, got, answered>>

LEMMA OnlySlotsKeep ==
  ASSUME BridgeInv, OnlySlots, Types', \A s \in Slots : Linked(s)'
  PROVE  BridgeInv'
<1>1. OneHolder' /\ WholeAnswer'
  BY DEF BridgeInv, Bridging, OneHolder, WholeAnswer, OnlySlots
<1>2. ASSUME NEW w \in Tunnels
      PROVE  InHands(w)' /\ Flow(w)'
  BY DEF BridgeInv, Bridging, OnlySlots, InHands, Flow, OwnerOf
<1>3. ASSUME NEW c \in Conns
      PROVE  Waits(c)'
  BY DEF BridgeInv, Bridging, OnlySlots, Waits
<1>4. QED
  BY <1>1, <1>2, <1>3 DEF BridgeInv, Bridging

\* A slot that loses its websocket, or has none, may be anywhere without having passed
\* anything on, or in a bridge.
LEMMA UnlinkedKeeps ==
  ASSUME BridgeInv, OnlySlots, Types',
         \A s \in Slots : \/ slot'[s] = slot[s] /\ link'[s] = link[s] /\ given'[s] = given[s]
                          \/ /\ link'[s] = None
                             /\ slot'[s] # "bridge" => given'[s] = 0
  PROVE  BridgeInv'
<1>1. ASSUME NEW s \in Slots
      PROVE  Linked(s)'
  <2>1. Linked(s)
    BY DEF BridgeInv, Bridging
  <2>2. CASE slot'[s] = slot[s] /\ link'[s] = link[s] /\ given'[s] = given[s]
    BY <2>1, <2>2 DEF OnlySlots, Linked
  <2>3. CASE link'[s] = None /\ (slot'[s] # "bridge" => given'[s] = 0)
    BY <2>3 DEF Linked
  <2>4. QED
    BY <2>2, <2>3
<1>2. QED
  BY <1>1, OnlySlotsKeep

LEMMA RejectedKeeps ==
  ASSUME BridgeInv, NEW s \in Slots, Rejected(s)
  PROVE  BridgeInv'
<1>1. Types' /\ OnlySlots
  BY DEF Rejected, BridgeInv, Types, OnlySlots, ToSlot, SlotPC, tunnelVars, connVars
<1>2. link[s] = None /\ given[s] = 0
  BY DEF Rejected, BridgeInv, Bridging, Linked
<1>3. \A q \in Slots : slot'[q] = (IF q = s THEN "sleep" ELSE slot[q]) /\ link'[q] = link[q] /\ given'[q] = given[q]
  BY DEF Rejected, BridgeInv, Types, ToSlot
<1>4. QED
  BY <1>1, <1>2, <1>3, UnlinkedKeeps

LEMMA RetryKeeps ==
  ASSUME BridgeInv, NEW s \in Slots, Retry(s)
  PROVE  BridgeInv'
<1>1. Types' /\ OnlySlots
  BY DEF Retry, BridgeInv, Types, OnlySlots, ToSlot, SlotPC, tunnelVars, connVars
<1>2. link[s] = None /\ given[s] = 0
  BY DEF Retry, BridgeInv, Bridging, Linked
<1>3. \A q \in Slots : slot'[q] = (IF q = s THEN "connect" ELSE slot[q]) /\ link'[q] = link[q] /\ given'[q] = given[q]
  BY DEF Retry, BridgeInv, Types, ToSlot
<1>4. QED
  BY <1>1, <1>2, <1>3, UnlinkedKeeps

LEMMA ClosedKeeps ==
  ASSUME BridgeInv, NEW s \in Slots, Closed(s)
  PROVE  BridgeInv'
<1>1. Types' /\ OnlySlots
  BY Limits DEF Closed, BridgeInv, Types, OnlySlots, ToSlot, SlotPC, tunnelVars, connVars
<1>2. /\ link'[s] = None /\ given'[s] = 0
      /\ \A q \in Slots \ {s} : slot'[q] = slot[q] /\ link'[q] = link[q] /\ given'[q] = given[q]
  BY DEF Closed, BridgeInv, Types, ToSlot
<1>3. QED
  BY <1>1, <1>2, UnlinkedKeeps

LEMMA GatewayFailsKeeps ==
  ASSUME BridgeInv, NEW s \in Slots, GatewayFails(s)
  PROVE  BridgeInv'
<1>1. Types' /\ OnlySlots
  BY Limits DEF GatewayFails, Drop, BridgeInv, Types, OnlySlots, ToSlot, SlotPC, tunnelVars, connVars
<1>2. /\ link'[s] = None /\ given'[s] = 0
      /\ \A q \in Slots \ {s} : slot'[q] = slot[q] /\ link'[q] = link[q] /\ given'[q] = given[q]
  BY DEF GatewayFails, Drop, BridgeInv, Types, ToSlot
<1>3. QED
  BY <1>1, <1>2, UnlinkedKeeps

LEMMA BreakKeeps ==
  ASSUME BridgeInv, NEW s \in Slots, Break(s)
  PROVE  BridgeInv'
<1>1. Types' /\ OnlySlots
  BY Limits DEF Break, Fault, BridgeInv, Types, OnlySlots, tunnelVars, connVars
<1>2. /\ link'[s] = None /\ slot'[s] = slot[s] /\ given'[s] = given[s]
      /\ \A q \in Slots \ {s} : slot'[q] = slot[q] /\ link'[q] = link[q] /\ given'[q] = given[q]
  BY DEF Break, BridgeInv, Types
<1>3. slot[s] # "bridge" => given[s] = 0
  BY DEF BridgeInv, Bridging, Linked
<1>4. QED
  BY <1>1, <1>2, <1>3, UnlinkedKeeps

LEMMA VanishKeeps ==
  ASSUME BridgeInv, NEW s \in Slots, Vanish(s)
  PROVE  BridgeInv'
<1>1. Types' /\ OnlySlots
  BY Limits DEF Vanish, Fault, BridgeInv, Types, OnlySlots, SlotPC, connVars
<1>2. /\ link'[s] = None /\ slot'[s] = (IF slot[s] = "open" THEN "wedged" ELSE slot[s])
      /\ given'[s] = given[s]
      /\ \A q \in Slots \ {s} : slot'[q] = slot[q] /\ link'[q] = link[q] /\ given'[q] = given[q]
  BY DEF Vanish, BridgeInv, Types
<1>3. slot[s] # "bridge" => given[s] = 0
  BY DEF BridgeInv, Bridging, Linked
<1>4. QED
  BY <1>1, <1>2, <1>3, UnlinkedKeeps

LEMMA ClientCrashKeeps ==
  ASSUME BridgeInv, NEW t \in Tenants, ClientCrash(t)
  PROVE  BridgeInv'
<1>1. Types' /\ OnlySlots
  BY Limits DEF ClientCrash, Fault, BridgeInv, Types, OnlySlots, SlotPC, tunnelVars, connVars
<1>2. ASSUME NEW s \in Slots
      PROVE  \/ slot'[s] = slot[s] /\ link'[s] = link[s] /\ given'[s] = given[s]
             \/ link'[s] = None /\ (slot'[s] # "bridge" => given'[s] = 0)
  BY DEF ClientCrash
<1>3. QED
  BY <1>1, <1>2, UnlinkedKeeps

LEMMA RegisterKeeps ==
  ASSUME BridgeInv, NEW t \in Tenants, Register(t)
  PROVE  BridgeInv'
<1>1. Types' /\ OnlySlots /\ UNCHANGED <<slot, link, given>>
  BY DEF Register, BridgeInv, Types, OnlySlots, tunnelVars, slotVars, connVars
<1>2. QED
  BY <1>1, UnlinkedKeeps

LEMMA DialKeeps ==
  ASSUME BridgeInv, NEW s \in Slots, Dial(s)
  PROVE  BridgeInv'
<1>1. Types' /\ OnlySlots
  BY DEF Dial, BridgeInv, Types, OnlySlots, ToSlot, SlotPC, tunnelVars, connVars
<1>2. /\ slot[s] = "assigned" /\ slot'[s] = "bridge" /\ link'[s] = link[s] /\ given'[s] = given[s]
      /\ \A q \in Slots \ {s} : slot'[q] = slot[q] /\ link'[q] = link[q] /\ given'[q] = given[q]
  BY DEF Dial, BridgeInv, Types, ToSlot
<1>3. ASSUME NEW q \in Slots
      PROVE  Linked(q)'
  <2>1. Linked(q)
    BY DEF BridgeInv, Bridging
  <2>2. QED
    BY <1>1, <1>2, <2>1 DEF OnlySlots, Linked
<1>4. QED
  BY <1>1, <1>3, OnlySlotsKeep

-----------------------------------------------------------------------------
(* Steps of a connection *)

\* A connection that no tunnel has, or that its requester leaves.
LEMMA ConnKeeps ==
  ASSUME BridgeInv, NEW c \in Conns, NEW l \in ConnPC \union Over,
         UNCHANGED <<tunnel, slotOf, held, wire, silent, slot, link, given, got, answered>>,
         registered' \subseteq Tenants, faults' \in 0..MaxFaults,
         ToConn(c, l),
         \/ conn[c] \in {"new", "hello", "route"} /\ l \in {"hello", "route", "refused"}
         \/ conn[c] = "bridged" /\ l = "left"
  PROVE  BridgeInv'
<1>1. Types'
  BY DEF BridgeInv, Types, ToConn
<1>2. conn'[c] = l /\ \A d \in Conns \ {c} : conn'[d] = conn[d]
  BY DEF BridgeInv, Types, ToConn
<1>3. OneHolder'
  BY DEF BridgeInv, Bridging, OneHolder
<1>4. ASSUME NEW w \in Tunnels
      PROVE  InHands(w)' /\ Flow(w)'
  <2>1. InHands(w) /\ Flow(w) /\ held[w] \in Conns \union {None}
    BY DEF BridgeInv, Bridging, Types
  <2>2. held[w] # None => conn[held[w]] \in {"handed", "bridged", "left"}
    BY <2>1 DEF InHands
  <2>3. Flow(w)'
    BY <2>1 DEF Flow
  <2>4. InHands(w)'
    BY <1>2, <2>1, <2>2 DEF InHands, OwnerOf
  <2>5. QED
    BY <2>3, <2>4
<1>5. ASSUME NEW s \in Slots
      PROVE  Linked(s)'
  BY DEF BridgeInv, Bridging, Linked
<1>6. ASSUME NEW d \in Conns
      PROVE  Waits(d)' /\ (d \in answered /\ conn'[d] = "done" => got'[d] = Chunks)
  <2>1. Waits(d) /\ (d \in answered /\ conn[d] = "done" => got[d] = Chunks)
    BY DEF BridgeInv, Bridging, WholeAnswer
  <2>2. QED
    BY <1>2, <2>1 DEF Waits
<1>7. WholeAnswer'
  BY <1>1, <1>6 DEF WholeAnswer, Types
<1>8. QED
  BY <1>1, <1>3, <1>4, <1>5, <1>6, <1>7 DEF BridgeInv, Bridging

LEMMA AcceptKeeps ==
  ASSUME BridgeInv, NEW c \in Conns, Accept(c)
  PROVE  BridgeInv'
<1>1. /\ UNCHANGED <<registered, tunnel, slotOf, held, wire, silent, slot, link, given, got, answered, faults>>
      /\ conn[c] = "new" /\ \E l \in {"hello", "refused"} : ToConn(c, l)
  BY DEF Accept, tunnelVars, slotVars
<1>2. registered' \subseteq Tenants /\ faults' \in 0..MaxFaults
  BY <1>1 DEF BridgeInv, Types
<1>3. QED
  BY <1>1, <1>2, ConnKeeps DEF ConnPC, Over

LEMMA HelloKeeps ==
  ASSUME BridgeInv, NEW c \in Conns, Hello(c)
  PROVE  BridgeInv'
<1>1. /\ UNCHANGED <<registered, tunnel, slotOf, held, wire, silent, slot, link, given, got, answered, faults>>
      /\ conn[c] = "hello" /\ \E l \in {"route", "refused"} : ToConn(c, l)
  BY DEF Hello, tunnelVars, slotVars
<1>2. registered' \subseteq Tenants /\ faults' \in 0..MaxFaults
  BY <1>1 DEF BridgeInv, Types
<1>3. QED
  BY <1>1, <1>2, ConnKeeps DEF ConnPC, Over

LEMMA LeaveKeeps ==
  ASSUME BridgeInv, NEW c \in Conns, Leave(c)
  PROVE  BridgeInv'
<1>1. /\ UNCHANGED <<registered, tunnel, slotOf, held, wire, silent, slot, link, given, got, answered>>
      /\ conn[c] = "bridged" /\ ToConn(c, "left")
  BY DEF Leave, tunnelVars, slotVars
<1>2. registered' \subseteq Tenants /\ faults' \in 0..MaxFaults
  BY <1>1, Limits DEF BridgeInv, Types, Leave, Fault
<1>3. QED
  BY <1>1, <1>2, ConnKeeps DEF ConnPC, Over

-----------------------------------------------------------------------------
(* Steps of a tunnel *)

\* Another tunnel and the connection that it has are left alone.
Others(w) ==
  \A v \in Tunnels \ {w} :
    /\ tunnel'[v] = tunnel[v] /\ slotOf'[v] = slotOf[v]
    /\ held'[v] = held[v] /\ wire'[v] = wire[v]
    /\ held[v] # None => /\ conn'[held[v]] = conn[held[v]] /\ got'[held[v]] = got[held[v]]
                         /\ held[v] \in answered' <=> held[v] \in answered

SlotStays(s) == slot'[s] = slot[s] /\ link'[s] = link[s] /\ given'[s] = given[s]

\* So it, and a slot that is not this tunnel's, stand as they did.
LEMMA OthersKeep ==
  ASSUME BridgeInv, NEW w \in Tunnels, Others(w)
  PROVE  /\ \A v \in Tunnels \ {w} : InHands(v)' /\ Flow(v)'
         /\ \A s \in Slots : SlotStays(s) /\ link[s] # w => Linked(s)'
<1>1. ASSUME NEW v \in Tunnels \ {w}
      PROVE  InHands(v)' /\ Flow(v)'
  <2>1. InHands(v) /\ Flow(v) /\ held[v] \in Conns \union {None}
    BY DEF BridgeInv, Bridging, Types
  <2>2. /\ tunnel'[v] = tunnel[v] /\ slotOf'[v] = slotOf[v]
        /\ held'[v] = held[v] /\ wire'[v] = wire[v]
        /\ held[v] # None => /\ conn'[held[v]] = conn[held[v]] /\ got'[held[v]] = got[held[v]]
                             /\ held[v] \in answered' <=> held[v] \in answered
    BY DEF Others
  <2>3. InHands(v)'
    BY <2>1, <2>2 DEF InHands, OwnerOf
  <2>4. Flow(v)'
    BY <2>1, <2>2 DEF Flow, InHands
  <2>5. QED
    BY <2>3, <2>4
<1>2. ASSUME NEW s \in Slots, SlotStays(s), link[s] # w
      PROVE  Linked(s)'
  <2>1. Linked(s) /\ link[s] \in Tunnels \union {None}
    BY DEF BridgeInv, Bridging, Types
  <2>2. CASE link[s] = None
    BY <1>2, <2>1, <2>2 DEF Linked, SlotStays
  <2>3. CASE link[s] \in Tunnels \ {w}
    <3>1. InHands(link[s])
      BY <2>3 DEF BridgeInv, Bridging
    <3>2. /\ tunnel'[link[s]] = tunnel[link[s]] /\ slotOf'[link[s]] = slotOf[link[s]]
          /\ held'[link[s]] = held[link[s]] /\ wire'[link[s]] = wire[link[s]]
          /\ held[link[s]] # None => got'[held[link[s]]] = got[held[link[s]]]
      BY <2>3 DEF Others
    <3>3. QED
      BY <1>2, <2>1, <2>3, <3>1, <3>2 DEF Linked, SlotStays, InHands
  <2>4. QED
    BY <1>2, <2>1, <2>2, <2>3
<1>3. QED
  BY <1>1, <1>2

\* The slot of a tunnel is linked to no other one.
LEMMA SlotOfTunnel ==
  ASSUME BridgeInv, NEW s \in Slots, link[s] # None
  PROVE  /\ link[s] \in Tunnels /\ slotOf[link[s]] = s /\ tunnel[link[s]] # "free"
         /\ \A q \in Slots \ {s} : link[q] # link[s]
<1>1. \A q \in Slots : Linked(q) /\ link[q] \in Tunnels \union {None}
  BY DEF BridgeInv, Bridging, Types
<1>2. link[s] \in Tunnels /\ slotOf[link[s]] = s /\ \A q \in Slots \ {s} : link[q] # link[s]
  BY <1>1 DEF Linked
<1>3. InHands(link[s])
  BY <1>2 DEF BridgeInv, Bridging
<1>4. QED
  BY <1>2, <1>3, Names DEF InHands

\* No two tunnels have a connection.
LEMMA Apart ==
  ASSUME BridgeInv, NEW w \in Tunnels
  PROVE  \A v \in Tunnels \ {w} : held[v] # None => held[v] # held[w]
BY DEF BridgeInv, Bridging, OneHolder

LEMMA ConnectKeeps ==
  ASSUME BridgeInv, NEW s \in Slots, Connect(s)
  PROVE  BridgeInv'
<1>1. PICK w \in Free : /\ ToTunnel(w, "enter")
                        /\ slotOf' = [slotOf EXCEPT ![w] = s]
                        /\ link' = [link EXCEPT ![s] = w]
  <2>1. PICK w \in Free : \A v \in Free : w =< v
    <3>1. Free \subseteq Nat /\ Free # {}
      BY Names DEF Free, Connect
    <3>2. QED
      BY <3>1, LeastNumber
  <2>2. (CHOOSE x \in Free : \A v \in Free : x =< v) \in Free
    BY <2>1
  <2>3. QED
    BY <2>2 DEF Connect
<1>2. /\ slot[s] = "connect" /\ ToSlot(s, "open")
      /\ UNCHANGED <<registered, held, wire, silent, given, conn, got, answered, faults>>
  BY DEF Connect, connVars
<1>3. w \in Tunnels /\ tunnel[w] = "free" /\ slotOf[w] = None /\ held[w] = None
  BY <1>1 DEF Free, BridgeInv, Bridging, InHands
<1>4. Types'
  BY <1>1, <1>2, <1>3 DEF BridgeInv, Types, ToTunnel, ToSlot, TunnelPC, SlotPC
<1>5. Others(w)
  BY <1>1, <1>2, <1>3 DEF BridgeInv, Types, ToTunnel, Others
<1>6. tunnel'[w] = "enter" /\ slotOf'[w] = s /\ slot'[s] = "open" /\ link'[s] = w
  BY <1>1, <1>2, <1>3 DEF BridgeInv, Types, ToTunnel, ToSlot
<1>7. InHands(w)' /\ Flow(w)'
  <2>1. InHands(w) /\ Flow(w)
    BY <1>3 DEF BridgeInv, Bridging
  <2>2. QED
    BY <1>2, <1>3, <1>6, <2>1, Names DEF InHands, Flow
<1>8. Linked(s)'
  <2>1. Linked(s)
    BY DEF BridgeInv, Bridging
  <2>2. QED
    BY <1>2, <1>6, <2>1 DEF Linked
<1>9. ASSUME NEW q \in Slots \ {s}
      PROVE  Linked(q)'
  <2>1. SlotStays(q)
    BY <1>1, <1>2 DEF BridgeInv, Types, ToSlot, SlotStays
  <2>2. link[q] # w
    <3>1. link[q] # None => slotOf[link[q]] = q
      BY SlotOfTunnel
    <3>2. QED
      BY <1>3, <3>1, Names
  <2>3. QED
    BY <1>3, <1>5, <2>1, <2>2, OthersKeep
<1>10. OneHolder' /\ WholeAnswer' /\ \A c \in Conns : Waits(c)'
  BY <1>2 DEF BridgeInv, Bridging, OneHolder, WholeAnswer, Waits
<1>11. QED
  BY <1>3, <1>4, <1>5, <1>7, <1>8, <1>9, <1>10, OthersKeep DEF BridgeInv, Bridging

\* A tunnel without a connection goes on.
LEMMA MovesOnKeeps ==
  ASSUME BridgeInv, NEW w \in Tunnels, NEW l \in {"refuse", "waiting", "close"},
         tunnel[w] \in {"enter", "cleanup"}, ToTunnel(w, l),
         UNCHANGED <<registered, slotOf, held, wire, silent, slot, link, given, conn, got,
                     answered, faults>>
  PROVE  BridgeInv'
<1>1. Types' /\ Others(w) /\ tunnel'[w] = l
  BY DEF BridgeInv, Types, ToTunnel, TunnelPC, Others
<1>2. InHands(w) /\ Flow(w)
  BY DEF BridgeInv, Bridging
<1>3. InHands(w)' /\ Flow(w)'
  BY <1>1, <1>2 DEF InHands, Flow
<1>4. ASSUME NEW q \in Slots
      PROVE  Linked(q)'
  <2>1. Linked(q) /\ SlotStays(q)
    BY DEF BridgeInv, Bridging, SlotStays
  <2>2. CASE link[q] = w
    BY <1>1, <2>1, <2>2 DEF Linked
  <2>3. QED
    BY <1>1, <2>1, <2>2, OthersKeep
<1>5. OneHolder' /\ WholeAnswer' /\ \A c \in Conns : Waits(c)'
  BY DEF BridgeInv, Bridging, OneHolder, WholeAnswer, Waits
<1>6. QED
  BY <1>1, <1>3, <1>4, <1>5, OthersKeep DEF BridgeInv, Bridging

LEMMA EnterKeeps ==
  ASSUME BridgeInv, NEW w \in Tunnels, Enter(w)
  PROVE  BridgeInv'
<1>1. /\ tunnel[w] = "enter" /\ \E l \in {"refuse", "waiting", "close"} : ToTunnel(w, l)
      /\ UNCHANGED <<registered, slotOf, held, wire, silent, slot, link, given, conn, got,
                     answered, faults>>
  BY DEF Enter, slotVars, connVars
<1>2. QED
  BY <1>1, MovesOnKeeps

LEMMA CleanUpKeeps ==
  ASSUME BridgeInv, NEW w \in Tunnels, CleanUp(w)
  PROVE  BridgeInv'
<1>1. /\ tunnel[w] = "cleanup" /\ ToTunnel(w, "close")
      /\ UNCHANGED <<registered, slotOf, held, wire, silent, slot, link, given, conn, got,
                     answered, faults>>
  BY DEF CleanUp, slotVars, connVars
<1>2. QED
  BY <1>1, MovesOnKeeps

\* A connection that another tunnel has, or that nobody needs to have, stands as it did.
LEMMA WaitsOn ==
  ASSUME BridgeInv, NEW w \in Tunnels, Others(w), NEW c \in Conns, c # held[w],
         conn'[c] = conn[c], got'[c] = got[c], c \in answered' <=> c \in answered
  PROVE  Waits(c)' /\ (c \in answered' /\ conn'[c] = "done" => got'[c] = Chunks)
<1>1. Waits(c) /\ (c \in answered /\ conn[c] = "done" => got[c] = Chunks)
  BY DEF BridgeInv, Bridging, WholeAnswer
<1>2. ASSUME NEW v \in Tunnels, held[v] = c
      PROVE  held'[v] = c
  BY <1>2 DEF Others
<1>3. QED
  BY <1>1, <1>2 DEF Waits

LEMMA WaitTimesOutKeeps ==
  ASSUME BridgeInv, NEW w \in Tunnels, WaitTimesOut(w)
  PROVE  BridgeInv'
<1>1. /\ tunnel[w] = "waiting" /\ ToTunnel(w, "cleanup")
      /\ held' = [held EXCEPT ![w] = None]
      /\ IF held[w] = None THEN conn' = conn ELSE ToConn(held[w], "lost")
      /\ UNCHANGED <<registered, slotOf, wire, silent, slot, link, given, got, answered, faults>>
  BY DEF WaitTimesOut, slotVars
<1>2. InHands(w) /\ Flow(w) /\ held[w] \in Conns \union {None}
  BY DEF BridgeInv, Bridging, Types
<1>3. Types'
  BY <1>1, <1>2 DEF BridgeInv, Types, ToTunnel, ToConn, TunnelPC, Over
<1>4. /\ tunnel'[w] = "cleanup" /\ held'[w] = None
      /\ \A v \in Tunnels \ {w} : tunnel'[v] = tunnel[v] /\ held'[v] = held[v]
      /\ \A c \in Conns : c # held[w] => conn'[c] = conn[c]
      /\ held[w] # None => conn'[held[w]] = "lost"
  BY <1>1, <1>2 DEF BridgeInv, Types, ToTunnel, ToConn
<1>5. Others(w)
  <2>1. \A v \in Tunnels \ {w} : held[v] # None => held[v] \in Conns /\ held[v] # held[w]
    BY Apart DEF BridgeInv, Types
  <2>2. QED
    BY <1>1, <1>4, <2>1 DEF Others
<1>6. InHands(w)' /\ Flow(w)'
  BY <1>1, <1>2, <1>4 DEF InHands, Flow
<1>7. ASSUME NEW q \in Slots
      PROVE  Linked(q)'
  <2>1. Linked(q) /\ SlotStays(q)
    BY <1>1 DEF BridgeInv, Bridging, SlotStays
  <2>2. CASE link[q] = w
    BY <1>1, <1>4, <2>1, <2>2 DEF Linked
  <2>3. QED
    BY <1>5, <2>1, <2>2, OthersKeep
<1>8. OneHolder'
  BY <1>4 DEF BridgeInv, Bridging, OneHolder
<1>9. ASSUME NEW c \in Conns
      PROVE  Waits(c)' /\ (c \in answered' /\ conn'[c] = "done" => got'[c] = Chunks)
  <2>1. CASE c = held[w]
    <3>1. conn'[c] = "lost" /\ conn[c] = "handed" /\ Waits(c)
      BY <1>1, <1>2, <1>4, <2>1, Names DEF InHands, BridgeInv, Bridging
    <3>2. QED
      BY <1>1, <3>1 DEF Waits
  <2>2. CASE c # held[w]
    BY <1>1, <1>4, <1>5, <2>2, WaitsOn
  <2>3. QED
    BY <2>1, <2>2
<1>10. WholeAnswer'
  BY <1>3, <1>9 DEF WholeAnswer, Types
<1>11. QED
  BY <1>3, <1>5, <1>6, <1>7, <1>8, <1>9, <1>10, OthersKeep DEF BridgeInv, Bridging

\* A tunnel ends.  Its connection, unless its requester has left, is done only when
\* nothing is on its way any more.
LEMMA EndsKeeps ==
  ASSUME BridgeInv, NEW w \in Tunnels, Ends(w), tunnel[w] \in {"refuse", "close", "bridge"},
         UNCHANGED <<registered, slot, given, got, answered, faults>>,
         NEW l \in {"done", "lost"}, l = "done" => wire[w] = 0,
         IF held[w] = None \/ conn[held[w]] = "left" THEN conn' = conn ELSE ToConn(held[w], l)
  PROVE  BridgeInv'
<1>1. InHands(w) /\ Flow(w) /\ held[w] \in Conns \union {None}
  BY DEF BridgeInv, Bridging, Types
<1>2. Types'
  BY <1>1, Limits DEF BridgeInv, Types, Ends, ToTunnel, ToConn, TunnelPC, Over
<1>3. /\ tunnel'[w] = "free" /\ slotOf'[w] = None /\ held'[w] = None /\ wire'[w] = 0
      /\ \A v \in Tunnels \ {w} : /\ tunnel'[v] = tunnel[v] /\ slotOf'[v] = slotOf[v]
                                  /\ held'[v] = held[v] /\ wire'[v] = wire[v]
      /\ \A s \in Slots : link'[s] = IF link[s] = w THEN None ELSE link[s]
  BY DEF BridgeInv, Types, Ends, ToTunnel
<1>4. /\ \A c \in Conns : c # held[w] => conn'[c] = conn[c]
      /\ held[w] # None => conn'[held[w]] = IF conn[held[w]] = "left" THEN "left" ELSE l
  BY <1>1 DEF BridgeInv, Types, ToConn
<1>5. Others(w)
  <2>1. \A v \in Tunnels \ {w} : held[v] # None => held[v] \in Conns /\ held[v] # held[w]
    BY Apart DEF BridgeInv, Types
  <2>2. QED
    BY <1>3, <1>4, <2>1 DEF Others
<1>6. InHands(w)' /\ Flow(w)'
  BY <1>3 DEF InHands, Flow
<1>7. ASSUME NEW q \in Slots
      PROVE  Linked(q)'
  <2>1. Linked(q)
    BY DEF BridgeInv, Bridging
  <2>2. CASE link[q] = w
    <3>1. link'[q] = None /\ (slot'[q] # "bridge" => given'[q] = 0)
      BY <1>3, <2>1, <2>2 DEF Linked
    <3>2. QED
      BY <3>1 DEF Linked
  <2>3. CASE link[q] # w
    BY <1>3, <1>5, <2>3, OthersKeep DEF SlotStays
  <2>4. QED
    BY <2>2, <2>3
<1>8. OneHolder'
  BY <1>3 DEF BridgeInv, Bridging, OneHolder
<1>9. ASSUME NEW c \in Conns
      PROVE  Waits(c)' /\ (c \in answered' /\ conn'[c] = "done" => got'[c] = Chunks)
  <2>1. CASE c = held[w]
    <3>1. Waits(c) /\ tunnel[w] = "bridge" /\ conn[c] \in {"bridged", "left"}
      BY <1>1, <2>1, Names DEF InHands, BridgeInv, Bridging
    <3>2. conn'[c] = (IF conn[c] = "left" THEN "left" ELSE l) /\ got'[c] = got[c]
      BY <1>4, <2>1, Names
    <3>3. Waits(c)'
      BY <3>1, <3>2 DEF Waits
    <3>4. ASSUME c \in answered', conn'[c] = "done"
          PROVE  got'[c] = Chunks
      <4>1. wire[w] = 0 /\ c \in answered /\ got[c] \in Nat
        BY <3>1, <3>2, <3>4, Limits DEF BridgeInv, Types
      <4>2. got[c] + wire[w] = Chunks
        BY <1>1, <2>1, <3>1, <4>1 DEF Flow
      <4>3. QED
        BY <3>2, <4>1, <4>2
    <3>5. QED
      BY <3>3, <3>4
  <2>2. CASE c # held[w]
    BY <1>4, <1>5, <2>2, WaitsOn
  <2>3. QED
    BY <2>1, <2>2
<1>10. WholeAnswer'
  BY <1>2, <1>9 DEF WholeAnswer, Types
<1>11. QED
  BY <1>2, <1>5, <1>6, <1>7, <1>8, <1>9, <1>10, OthersKeep DEF BridgeInv, Bridging

LEMMA CloseTunnelKeeps ==
  ASSUME BridgeInv, NEW w \in Tunnels, CloseTunnel(w)
  PROVE  BridgeInv'
<1>1. /\ tunnel[w] \in {"refuse", "close"} /\ Ends(w) /\ conn' = conn
      /\ UNCHANGED <<registered, slot, given, got, answered, faults>>
  BY DEF CloseTunnel, connVars
<1>2. held[w] = None
  BY <1>1 DEF BridgeInv, Bridging, InHands
<1>3. QED
  BY <1>1, <1>2, EndsKeeps

LEMMA BridgeEndsKeeps ==
  ASSUME BridgeInv, NEW w \in Tunnels, BridgeEnds(w)
  PROVE  BridgeInv'
<1>1. held[w] # None
  BY DEF BridgeEnds, BridgeInv, Bridging, InHands
<1>2. CASE conn[held[w]] = "left"
  BY <1>1, <1>2, EndsKeeps DEF BridgeEnds
<1>3. CASE conn[held[w]] # "left"
  BY <1>1, <1>3, EndsKeeps DEF BridgeEnds
<1>4. QED
  BY <1>2, <1>3

LEMMA BridgeTimesOutKeeps ==
  ASSUME BridgeInv, NEW w \in Tunnels, BridgeTimesOut(w)
  PROVE  BridgeInv'
<1>1. held[w] # None
  BY DEF BridgeTimesOut, BridgeInv, Bridging, InHands
<1>2. QED
  BY <1>1, EndsKeeps DEF BridgeTimesOut

LEMMA StartBridgeKeeps ==
  ASSUME BridgeInv, NEW w \in Tunnels, StartBridge(w)
  PROVE  BridgeInv'
<1>1. /\ tunnel[w] = "waiting" /\ held[w] # None
      /\ ToTunnel(w, "bridge") /\ ToConn(held[w], "bridged")
      /\ slot' = [s \in Slots |-> IF link[s] = w THEN "assigned" ELSE slot[s]]
      /\ UNCHANGED <<registered, slotOf, held, wire, silent, link, given, got, answered, faults>>
  BY DEF StartBridge
<1>2. PICK c \in Conns : c = held[w]
  BY <1>1 DEF BridgeInv, Types
<1>3. InHands(w) /\ Flow(w) /\ Waits(c)
  BY DEF BridgeInv, Bridging
<1>4. conn[c] = "handed" /\ got[c] = 0 /\ c \notin answered /\ wire[w] = 0
  BY <1>1, <1>2, <1>3 DEF InHands, Flow, Waits
<1>5. Types'
  BY <1>1, <1>2 DEF BridgeInv, Types, ToTunnel, ToConn, TunnelPC, ConnPC, SlotPC
<1>6. /\ tunnel'[w] = "bridge" /\ conn'[c] = "bridged"
      /\ \A v \in Tunnels \ {w} : tunnel'[v] = tunnel[v]
      /\ \A d \in Conns \ {c} : conn'[d] = conn[d]
  BY <1>1, <1>2 DEF BridgeInv, Types, ToTunnel, ToConn
<1>7. Others(w)
  <2>1. \A v \in Tunnels \ {w} : held[v] # None => held[v] \in Conns \ {c}
    BY <1>2, Apart DEF BridgeInv, Types
  <2>2. QED
    BY <1>1, <1>6, <2>1 DEF Others
<1>8. InHands(w)' /\ Flow(w)'
  BY <1>1, <1>2, <1>3, <1>4, <1>6, Limits DEF InHands, Flow, OwnerOf
<1>9. ASSUME NEW q \in Slots
      PROVE  Linked(q)'
  <2>1. Linked(q)
    BY DEF BridgeInv, Bridging
  <2>2. CASE link[q] = w
    <3>1. slot[q] = "open" /\ given[q] = 0 /\ slotOf[w] = q
      BY <1>1, <2>1, <2>2, Names DEF Linked
    <3>2. QED
      BY <1>1, <1>2, <1>4, <1>6, <2>2, <3>1 DEF Linked
  <2>3. CASE link[q] # w
    BY <1>1, <1>7, <2>3, OthersKeep DEF SlotStays
  <2>4. QED
    BY <2>2, <2>3
<1>10. OneHolder'
  BY <1>1 DEF BridgeInv, Bridging, OneHolder
<1>11. ASSUME NEW d \in Conns
       PROVE  Waits(d)' /\ (d \in answered' /\ conn'[d] = "done" => got'[d] = Chunks)
  <2>1. CASE d = c
    BY <1>1, <1>2, <1>4, <1>6, <2>1 DEF Waits
  <2>2. CASE d # c
    BY <1>1, <1>2, <1>6, <1>7, <2>2, WaitsOn
  <2>3. QED
    BY <2>1, <2>2
<1>12. WholeAnswer'
  BY <1>5, <1>11 DEF WholeAnswer, Types
<1>13. QED
  BY <1>5, <1>7, <1>8, <1>9, <1>10, <1>11, <1>12, OthersKeep DEF BridgeInv, Bridging

LEMMA RelayKeeps ==
  ASSUME BridgeInv, NEW w \in Tunnels, Relay(w)
  PROVE  BridgeInv'
<1>1. /\ tunnel[w] = "bridge" /\ wire[w] > 0 /\ conn[held[w]] = "bridged"
      /\ wire' = [wire EXCEPT ![w] = @ - 1]
      /\ got' = [got EXCEPT ![held[w]] = @ + 1]
      /\ UNCHANGED <<registered, tunnel, slotOf, held, silent, slot, link, given, conn,
                     answered, faults>>
  BY DEF Relay, slotVars
<1>2. InHands(w) /\ Flow(w)
  BY DEF BridgeInv, Bridging
<1>3. PICK c \in Conns : c = held[w]
  BY <1>1, <1>2 DEF BridgeInv, Types, InHands
<1>4. /\ wire[w] \in 0..Chunks /\ got[c] \in 0..Chunks /\ Chunks \in Nat
      /\ got[c] + wire[w] =< Chunks /\ (c \in answered => got[c] + wire[w] = Chunks)
  BY <1>1, <1>2, <1>3, Limits DEF BridgeInv, Types, Flow
<1>5. wire[w] - 1 \in 0..Chunks /\ got[c] + 1 \in 0..Chunks /\ (got[c] + 1) + (wire[w] - 1) = got[c] + wire[w]
  BY <1>1, <1>4
<1>6. Types'
  BY <1>1, <1>3, <1>5 DEF BridgeInv, Types
<1>7. /\ wire'[w] = wire[w] - 1 /\ got'[c] = got[c] + 1
      /\ \A v \in Tunnels \ {w} : wire'[v] = wire[v]
      /\ \A d \in Conns \ {c} : got'[d] = got[d]
  BY <1>1, <1>3 DEF BridgeInv, Types
<1>8. got'[c] + wire'[w] = got[c] + wire[w]
  BY <1>5, <1>7
<1>9. Others(w)
  <2>1. \A v \in Tunnels \ {w} : held[v] # None => held[v] \in Conns \ {c}
    BY <1>3, Apart DEF BridgeInv, Types
  <2>2. QED
    BY <1>1, <1>7, <2>1 DEF Others
<1>10. InHands(w)'
  BY <1>1, <1>2 DEF InHands, OwnerOf
<1>11. Flow(w)'
  BY <1>1, <1>3, <1>4, <1>8 DEF Flow
<1>12. ASSUME NEW q \in Slots
       PROVE  Linked(q)'
  <2>1. Linked(q)
    BY DEF BridgeInv, Bridging
  <2>2. CASE link[q] = w
    BY <1>1, <1>3, <1>8, <2>1, <2>2 DEF Linked
  <2>3. CASE link[q] # w
    BY <1>1, <1>9, <2>3, OthersKeep DEF SlotStays
  <2>4. QED
    BY <2>2, <2>3
<1>13. OneHolder'
  BY <1>1 DEF BridgeInv, Bridging, OneHolder
<1>14. ASSUME NEW d \in Conns
       PROVE  Waits(d)' /\ (d \in answered' /\ conn'[d] = "done" => got'[d] = Chunks)
  <2>1. CASE d = c
    <3>1. Waits(c)
      BY DEF BridgeInv, Bridging
    <3>2. QED
      BY <1>1, <1>3, <2>1, <3>1 DEF Waits
  <2>2. CASE d # c
    BY <1>1, <1>3, <1>7, <1>9, <2>2, WaitsOn
  <2>3. QED
    BY <2>1, <2>2
<1>15. WholeAnswer'
  BY <1>6, <1>14 DEF WholeAnswer, Types
<1>16. QED
  BY <1>6, <1>9, <1>10, <1>11, <1>12, <1>13, <1>14, <1>15, OthersKeep DEF BridgeInv, Bridging

\* What a slot in a bridge has passed on is what its connection has got or will get.
LEMMA Passed ==
  ASSUME BridgeInv, NEW s \in Slots, slot[s] = "bridge", link[s] # None
  PROVE  /\ link[s] \in Tunnels /\ tunnel[link[s]] = "bridge" /\ held[link[s]] \in Conns
         /\ got[held[link[s]]] \in 0..Chunks /\ wire[link[s]] \in 0..Chunks
         /\ given[s] \in 0..Chunks
         /\ got[held[link[s]]] + wire[link[s]] = given[s]
         /\ held[link[s]] \in answered => given[s] = Chunks
<1>1. link[s] \in Tunnels /\ Linked(s)
  BY DEF BridgeInv, Bridging, Types
<1>2. InHands(link[s]) /\ Flow(link[s])
  BY <1>1 DEF BridgeInv, Bridging
<1>3. tunnel[link[s]] = "bridge" /\ got[held[link[s]]] + wire[link[s]] = given[s]
  BY <1>1 DEF Linked
<1>4. held[link[s]] \in Conns
  BY <1>1, <1>2, <1>3 DEF InHands, BridgeInv, Types
<1>5. QED
  BY <1>1, <1>2, <1>3, <1>4 DEF Flow, BridgeInv, Types

LEMMA ForwardKeeps ==
  ASSUME BridgeInv, NEW s \in Slots, Forward(s)
  PROVE  BridgeInv'
<1>1. /\ slot[s] = "bridge" /\ link[s] # None /\ given[s] < Chunks
      /\ given' = [given EXCEPT ![s] = @ + 1]
      /\ wire' = [wire EXCEPT ![link[s]] = @ + 1]
      /\ UNCHANGED <<registered, tunnel, slotOf, held, silent, slot, link, conn, got,
                     answered, faults>>
  BY DEF Forward, connVars
<1>2. PICK w \in Tunnels : w = link[s]
  BY <1>1, Passed
<1>3. PICK c \in Conns : c = held[w]
  BY <1>1, <1>2, Passed
<1>4. /\ tunnel[w] = "bridge" /\ got[c] \in 0..Chunks /\ wire[w] \in 0..Chunks
      /\ given[s] \in 0..Chunks /\ got[c] + wire[w] = given[s]
      /\ c \notin answered /\ Chunks \in Nat
  <2>1. /\ tunnel[w] = "bridge" /\ got[c] \in 0..Chunks /\ wire[w] \in 0..Chunks
        /\ given[s] \in 0..Chunks /\ got[c] + wire[w] = given[s]
        /\ c \in answered => given[s] = Chunks
    BY <1>1, <1>2, <1>3, Passed
  <2>2. QED
    BY <1>1, <2>1, Limits
<1>5. /\ wire[w] + 1 \in 0..Chunks /\ given[s] + 1 \in 0..Chunks
      /\ got[c] + (wire[w] + 1) = given[s] + 1 /\ got[c] + (wire[w] + 1) =< Chunks
  BY <1>1, <1>4
<1>6. Types'
  BY <1>1, <1>2, <1>5 DEF BridgeInv, Types
<1>7. /\ wire'[w] = wire[w] + 1 /\ given'[s] = given[s] + 1
      /\ \A v \in Tunnels \ {w} : wire'[v] = wire[v]
      /\ \A q \in Slots \ {s} : given'[q] = given[q]
  BY <1>1, <1>2 DEF BridgeInv, Types
<1>8. Others(w)
  BY <1>1, <1>7 DEF Others
<1>9. InHands(w)'
  <2>1. InHands(w)
    BY DEF BridgeInv, Bridging
  <2>2. QED
    BY <1>1, <2>1 DEF InHands, OwnerOf
<1>10. Flow(w)'
  BY <1>1, <1>3, <1>4, <1>5, <1>7 DEF Flow
<1>11. ASSUME NEW q \in Slots
       PROVE  Linked(q)'
  <2>1. CASE q = s
    <3>1. Linked(s)
      BY DEF BridgeInv, Bridging
    <3>2. QED
      BY <1>1, <1>2, <1>3, <1>4, <1>5, <1>7, <2>1, <3>1 DEF Linked
  <2>2. CASE q # s
    BY <1>1, <1>2, <1>7, <1>8, <2>2, SlotOfTunnel, OthersKeep DEF SlotStays
  <2>3. QED
    BY <2>1, <2>2
<1>12. OneHolder' /\ WholeAnswer' /\ \A d \in Conns : Waits(d)'
  BY <1>1 DEF BridgeInv, Bridging, OneHolder, WholeAnswer, Waits
<1>13. QED
  BY <1>6, <1>8, <1>9, <1>10, <1>11, <1>12, OthersKeep DEF BridgeInv, Bridging

LEMMA AnsweredKeeps ==
  ASSUME BridgeInv, NEW s \in Slots, Answered(s)
  PROVE  BridgeInv'
<1>1. /\ slot[s] = "bridge" /\ link[s] # None /\ given[s] = Chunks
      /\ answered' = answered \union {held[link[s]]}
      /\ Drop(s, "connect")
      /\ UNCHANGED <<registered, tunnel, slotOf, held, wire, silent, conn, got, faults>>
  BY DEF Answered, tunnelVars
<1>2. PICK w \in Tunnels : w = link[s]
  BY <1>1, Passed
<1>3. PICK c \in Conns : c = held[w]
  BY <1>1, <1>2, Passed
<1>4. tunnel[w] = "bridge" /\ got[c] + wire[w] = Chunks /\ Chunks \in Nat
  BY <1>1, <1>2, <1>3, Passed, Limits
<1>5. InHands(w) /\ Flow(w) /\ Waits(c) /\ conn[c] \in {"bridged", "left"}
  BY <1>3, <1>4, Names DEF BridgeInv, Bridging, InHands
<1>6. Types'
  BY <1>1, <1>2, <1>3, Limits DEF BridgeInv, Types, Drop, ToSlot, SlotPC
<1>7. /\ link'[s] = None /\ given'[s] = 0
      /\ \A q \in Slots \ {s} : SlotStays(q)
  BY <1>1 DEF BridgeInv, Types, Drop, ToSlot, SlotStays
<1>8. Others(w)
  <2>1. \A v \in Tunnels \ {w} : held[v] # None => held[v] \in Conns \ {c}
    BY <1>3, Apart DEF BridgeInv, Types
  <2>2. QED
    BY <1>1, <1>2, <1>3, <2>1 DEF Others
<1>9. InHands(w)' /\ Flow(w)'
  BY <1>1, <1>3, <1>4, <1>5 DEF InHands, Flow, OwnerOf
<1>10. ASSUME NEW q \in Slots
       PROVE  Linked(q)'
  <2>1. CASE q = s
    BY <1>7, <2>1 DEF Linked
  <2>2. CASE q # s
    BY <1>1, <1>2, <1>7, <1>8, <2>2, SlotOfTunnel, OthersKeep
  <2>3. QED
    BY <2>1, <2>2
<1>11. OneHolder'
  BY <1>1 DEF BridgeInv, Bridging, OneHolder
<1>12. ASSUME NEW d \in Conns
       PROVE  Waits(d)' /\ (d \in answered' /\ conn'[d] = "done" => got'[d] = Chunks)
  <2>1. CASE d = c
    BY <1>1, <1>5, <2>1 DEF Waits
  <2>2. CASE d # c
    BY <1>1, <1>2, <1>3, <1>8, <2>2, WaitsOn
  <2>3. QED
    BY <2>1, <2>2
<1>13. WholeAnswer'
  BY <1>6, <1>12 DEF WholeAnswer, Types
<1>14. QED
  BY <1>6, <1>8, <1>9, <1>10, <1>11, <1>12, <1>13, OthersKeep DEF BridgeInv, Bridging

-----------------------------------------------------------------------------
(* Places in their order *)

Increasing(e) == \A i, j \in DOMAIN e : i < j => e[i] < e[j]

Orders(S) == {e \in Bijection(1..Cardinality(S), S) : Increasing(e)}

LEMMA NothingToOrder == Orders({}) # {}
<1>1. Cardinality({}) = 0
  BY FS_EmptySet
<1>2. PICK e : e = [i \in 1..0 |-> 0]
  OBVIOUS
<1>3. e \in [1..0 -> {}] /\ DOMAIN e = {}
  BY <1>2
<1>4. e \in Bijection(1..0, {}) /\ Increasing(e)
  BY <1>3 DEF Bijection, Injection, Surjection, IsInjective, Increasing
<1>5. QED
  BY <1>1, <1>4 DEF Orders

LEMMA PartIsFinite ==
  ASSUME NEW n \in Nat, NEW S \in SUBSET (1..n)
  PROVE  IsFiniteSet(S)
<1>1. IsFiniteSet(1..n)
  BY FS_Interval
<1>2. QED
  BY <1>1, FS_Subset

\* The greatest comes last.
LEMMA GreatestLast ==
  ASSUME NEW n \in Nat, NEW S \in SUBSET (1..n), NEW m \in S, \A k \in S : k =< m,
         Orders(S \ {m}) # {}
  PROVE  Orders(S) # {}
<1>1. IsFiniteSet(S)
  BY PartIsFinite
<1>2. PICK c \in Nat : Cardinality(S \ {m}) = c /\ Cardinality(S) = c + 1
  <2>1. Cardinality(S) \in Nat /\ Cardinality(S \ {m}) = Cardinality(S) - 1 /\ Cardinality(S \ {m}) \in Nat
    BY <1>1, FS_RemoveElement, FS_CardinalityType
  <2>2. QED
    BY <2>1
<1>3. PICK d : d \in Bijection(1..c, S \ {m}) /\ Increasing(d)
  BY <1>2 DEF Orders
<1>4. /\ DOMAIN d = 1..c /\ \A i \in 1..c : d[i] \in S \ {m}
      /\ \A i, j \in 1..c : d[i] = d[j] => i = j
      /\ \A k \in S \ {m} : \E i \in 1..c : d[i] = k
      /\ \A i, j \in 1..c : i < j => d[i] < d[j]
  BY <1>3 DEF Bijection, Injection, Surjection, IsInjective, Increasing
<1>5. PICK e : e = [i \in 1..(c + 1) |-> IF i = c + 1 THEN m ELSE d[i]]
  OBVIOUS
<1>6. /\ e \in [1..(c + 1) -> S] /\ e[c + 1] = m
      /\ \A i \in 1..c : e[i] = d[i]
      /\ \A i \in 1..(c + 1) : i = c + 1 \/ i \in 1..c
  <2>1. \A i \in 1..(c + 1) : i = c + 1 \/ i \in 1..c
    OBVIOUS
  <2>2. \A i \in 1..c : i \in 1..(c + 1) /\ i # c + 1
    OBVIOUS
  <2>3. e[c + 1] = m /\ \A i \in 1..c : e[i] = d[i]
    BY <1>5, <2>2
  <2>4. QED
    BY <1>4, <1>5, <2>1, <2>3
<1>7. ASSUME NEW i \in 1..(c + 1), NEW j \in 1..(c + 1), i < j
      PROVE  e[i] < e[j]
  <2>1. i \in 1..c
    BY <1>7
  <2>2. CASE j \in 1..c
    BY <1>4, <1>6, <1>7, <2>1, <2>2
  <2>3. CASE j = c + 1
    <3>1. d[i] \in S /\ d[i] # m /\ d[i] =< m
      BY <1>4, <2>1
    <3>2. S \subseteq Nat
      OBVIOUS
    <3>3. d[i] \in Nat /\ m \in Nat
      BY <3>1, <3>2
    <3>4. e[i] = d[i] /\ e[j] = m
      BY <1>6, <2>1, <2>3
    <3>5. QED
      BY <3>1, <3>3, <3>4
  <2>4. QED
    BY <1>6, <2>2, <2>3
<1>8. \A i \in 1..(c + 1) : e[i] \in Nat
  <2>1. S \subseteq Nat
    OBVIOUS
  <2>2. QED
    BY <1>6, <2>1
<1>9. ASSUME NEW i \in 1..(c + 1), NEW j \in 1..(c + 1), e[i] = e[j]
      PROVE  i = j
  BY <1>7, <1>8, <1>9
<1>10. ASSUME NEW k \in S
       PROVE  \E i \in 1..(c + 1) : e[i] = k
  BY <1>4, <1>6
<1>11. e \in Bijection(1..(c + 1), S) /\ Increasing(e)
  BY <1>6, <1>7, <1>9, <1>10 DEF Bijection, Injection, Surjection, IsInjective, Increasing
<1>12. QED
  BY <1>2, <1>11 DEF Orders

LEMMA OrderExists ==
  ASSUME NEW n \in Nat, NEW L \in SUBSET (1..n)
  PROVE  Orders(L) # {}
<1>1. SUFFICES ASSUME Orders(L) = {}
               PROVE  FALSE
  OBVIOUS
<1>2. PICK D : D = {S \in SUBSET (1..n) : Orders(S) = {}}
  OBVIOUS
<1>3. D \subseteq FiniteSubsetsOf(1..n) /\ D # {}
  <2>1. L \in D
    BY <1>1, <1>2
  <2>2. \A S \in D : S \in SUBSET (1..n)
    BY <1>2
  <2>3. QED
    BY <2>1, <2>2, PartIsFinite DEF FiniteSubsetsOf
<1>4. IsWellFoundedOn(StrictSubsetOrdering(1..n), FiniteSubsetsOf(1..n))
  BY FS_StrictSubsetOrderingWellFounded
<1>5. PICK S \in D : \A T \in D : ~ (<<T, S>> \in StrictSubsetOrdering(1..n))
  BY <1>3, <1>4, WFMin
<1>6. S \in SUBSET (1..n) /\ Orders(S) = {} /\ S # {}
  BY <1>2, NothingToOrder
<1>7. PICK m \in S : \A k \in S : k =< m
  BY <1>6, GreatestNumber
<1>8. <<S \ {m}, S>> \in StrictSubsetOrdering(1..n)
  BY <1>6 DEF StrictSubsetOrdering
<1>9. S \ {m} \in SUBSET (1..n) /\ Orders(S \ {m}) # {}
  BY <1>2, <1>5, <1>6, <1>8
<1>10. QED
  BY <1>6, <1>7, <1>9, GreatestLast

\* What is left of a sequence at the places of L.
Kept(q, L, r) ==
  /\ r \in Seq(Tunnels) /\ Len(r) =< Len(q)
  /\ IsInjective(q) => IsInjective(r)
  /\ \A i \in DOMAIN r : \E k \in L : r[i] = q[k]
  /\ \A k \in L : \E i \in DOMAIN r : r[i] = q[k]

LEMMA AtPlaces ==
  ASSUME NEW q \in Seq(Tunnels), NEW L \in SUBSET DOMAIN q, NEW e, e = InOrder(L),
         NEW r, r = [i \in DOMAIN e |-> q[e[i]]]
  PROVE  Kept(q, L, r)
<1>1. PICK n \in Nat : n = Len(q) /\ DOMAIN q = 1..n
  OBVIOUS
<1>2. IsFiniteSet(L) /\ Cardinality(L) \in Nat /\ Cardinality(L) =< n
  <2>1. IsFiniteSet(1..n) /\ Cardinality(1..n) = n
    BY FS_Interval
  <2>2. QED
    BY <1>1, <2>1, FS_Subset, FS_CardinalityType
<1>3. PICK c \in Nat : c = Cardinality(L)
  BY <1>2
<1>4. e \in Bijection(1..c, L)
  <2>1. \E x \in Bijection(1..Cardinality(L), L) : \A i, j \in DOMAIN x : i < j => x[i] < x[j]
    BY <1>1, OrderExists DEF Orders, Increasing
  <2>2. QED
    BY <1>3, <2>1 DEF InOrder
<1>5. /\ DOMAIN e = 1..c /\ \A i \in 1..c : e[i] \in L
      /\ \A i, j \in 1..c : e[i] = e[j] => i = j
      /\ \A k \in L : \E i \in 1..c : e[i] = k
  BY <1>4 DEF Bijection, Injection, Surjection, IsInjective
<1>6. DOMAIN r = 1..c /\ \A i \in 1..c : r[i] = q[e[i]] /\ r[i] \in Tunnels
  BY <1>1, <1>5
<1>7. r \in Seq(Tunnels) /\ Len(r) = c
  <2>1. r \in [1..c -> Tunnels]
    BY <1>5, <1>6
  <2>2. QED
    BY <2>1
<1>8. IsInjective(q) => IsInjective(r)
  BY <1>1, <1>5, <1>6 DEF IsInjective
<1>9. Len(r) =< Len(q)
  BY <1>1, <1>2, <1>3, <1>7
<1>10. ASSUME NEW i \in DOMAIN r
       PROVE  \E k \in L : r[i] = q[k]
  BY <1>5, <1>6
<1>11. ASSUME NEW k \in L
       PROVE  \E i \in DOMAIN r : r[i] = q[k]
  BY <1>5, <1>6
<1>12. QED
  BY <1>7, <1>8, <1>9, <1>10, <1>11 DEF Kept

-----------------------------------------------------------------------------
(* The queues *)

MayBeAt(w, t) == tunnel[w] \in {"waiting", "cleanup"} /\ held[w] = None /\ OwnerOf(w) = t

WaitsAt(w, t) == tunnel[w] = "waiting" /\ held[w] = None /\ OwnerOf(w) = t

\* SlotsConserved for one tenant, by the places in its queue.
Listed(t) ==
  /\ IsInjective(queue[t])
  /\ \A k \in DOMAIN queue[t] : MayBeAt(queue[t][k], t)
  /\ \A w \in Tunnels : WaitsAt(w, t) => \E k \in DOMAIN queue[t] : queue[t][k] = w

ShortQueue(t) == queue[t] \in Seq(Tunnels) /\ Len(queue[t]) =< MaxSlots

QueueInv ==
  /\ queue \in [Tenants -> Seq(Tunnels)]
  /\ \A t \in Tenants : ShortQueue(t) /\ Listed(t)

LEMMA QueueInvMeans ==
  Types /\ QueueInv <=> TypeOK /\ SlotsConserved
<1>1. (\A t \in Tenants : Listed(t)) <=> SlotsConserved
  BY DEF Listed, SlotsConserved, MayBeAt, WaitsAt, ToSet
<1>2. QED
  BY <1>1 DEF Types, QueueInv, TypeOK, ShortQueue

\* A queue that is left alone stays right when nobody starts to wait and who is in it may be.
LEMMA ListedStays ==
  ASSUME QueueInv, NEW t \in Tenants, queue'[t] = queue[t],
         \A w \in Tunnels : (WaitsAt(w, t)' => WaitsAt(w, t)) /\ (MayBeAt(w, t) => MayBeAt(w, t)')
  PROVE  ShortQueue(t)' /\ Listed(t)'
<1>1. ShortQueue(t) /\ Listed(t)
  BY DEF QueueInv
<1>2. \A k \in DOMAIN queue[t] : queue[t][k] \in Tunnels
  BY <1>1 DEF ShortQueue
<1>3. PICK q : q = queue[t] /\ q = queue'[t]
  OBVIOUS
<1>4. IsInjective(q) /\ \A k \in DOMAIN q : MayBeAt(q[k], t)'
  BY <1>1, <1>2, <1>3 DEF Listed
<1>5. \A w \in Tunnels : WaitsAt(w, t)' => \E k \in DOMAIN q : q[k] = w
  BY <1>1, <1>3 DEF Listed
<1>6. QED
  BY <1>1, <1>3, <1>4, <1>5 DEF ShortQueue, Listed

LEMMA QueuesStay ==
  ASSUME QueueInv, queue' = queue,
         \A t \in Tenants, w \in Tunnels :
           (WaitsAt(w, t)' => WaitsAt(w, t)) /\ (MayBeAt(w, t) => MayBeAt(w, t)')
  PROVE  QueueInv'
<1>1. \A t \in Tenants : ShortQueue(t)' /\ Listed(t)'
  BY ListedStays
<1>2. QED
  BY <1>1 DEF QueueInv

LEMMA QueuesUnchanged ==
  ASSUME QueueInv, UNCHANGED <<queue, tunnel, slotOf, held>>
  PROVE  QueueInv'
BY QueuesStay DEF WaitsAt, MayBeAt, OwnerOf

\* A tunnel that is in no queue may stop to be or to wait.
LEMMA OneTunnelMoves ==
  ASSUME QueueInv, queue' = queue, NEW w \in Tunnels,
         \A v \in Tunnels \ {w} : tunnel'[v] = tunnel[v] /\ slotOf'[v] = slotOf[v] /\ held'[v] = held[v],
         \/ tunnel[w] \notin {"waiting", "cleanup"} \/ held[w] # None
         \/ tunnel'[w] = "cleanup" /\ slotOf'[w] = slotOf[w] /\ held'[w] = None,
         tunnel'[w] # "waiting"
  PROVE  QueueInv'
BY QueuesStay DEF WaitsAt, MayBeAt, OwnerOf

LEMMA EndsQueue ==
  ASSUME Types, QueueInv, NEW w \in Tunnels, Ends(w), queue' = queue,
         tunnel[w] \in {"refuse", "close", "bridge"}
  PROVE  QueueInv'
<1>1. /\ tunnel'[w] = "free"
      /\ \A v \in Tunnels \ {w} : tunnel'[v] = tunnel[v] /\ slotOf'[v] = slotOf[v] /\ held'[v] = held[v]
  BY DEF Types, Ends, ToTunnel
<1>2. QED
  BY <1>1, OneTunnelMoves

LEMMA ConnectQueue ==
  ASSUME BridgeInv, QueueInv, NEW s \in Slots, Connect(s)
  PROVE  QueueInv'
<1>1. PICK w \in Free : ToTunnel(w, "enter") /\ slotOf' = [slotOf EXCEPT ![w] = s]
  <2>1. PICK w \in Free : \A v \in Free : w =< v
    <3>1. Free \subseteq Nat /\ Free # {}
      BY Names DEF Free, Connect
    <3>2. QED
      BY <3>1, LeastNumber
  <2>2. (CHOOSE x \in Free : \A v \in Free : x =< v) \in Free
    BY <2>1
  <2>3. QED
    BY <2>2 DEF Connect
<1>2. w \in Tunnels /\ tunnel[w] = "free" /\ held' = held /\ queue' = queue
  BY <1>1 DEF Free, Connect
<1>3. /\ tunnel'[w] = "enter"
      /\ \A v \in Tunnels \ {w} : tunnel'[v] = tunnel[v] /\ slotOf'[v] = slotOf[v]
  BY <1>1, <1>2 DEF BridgeInv, Types, ToTunnel
<1>4. QED
  BY <1>2, <1>3, OneTunnelMoves

LEMMA WaitTimesOutQueue ==
  ASSUME BridgeInv, QueueInv, NEW w \in Tunnels, WaitTimesOut(w)
  PROVE  QueueInv'
<1>1. /\ ToTunnel(w, "cleanup") /\ held' = [held EXCEPT ![w] = None]
      /\ queue' = queue /\ slotOf' = slotOf
  BY DEF WaitTimesOut
<1>2. /\ tunnel'[w] = "cleanup" /\ held'[w] = None
      /\ \A v \in Tunnels \ {w} : tunnel'[v] = tunnel[v] /\ held'[v] = held[v]
  BY <1>1 DEF BridgeInv, Types, ToTunnel
<1>3. QED
  BY <1>1, <1>2, OneTunnelMoves

LEMMA StartBridgeQueue ==
  ASSUME BridgeInv, QueueInv, NEW w \in Tunnels, StartBridge(w)
  PROVE  QueueInv'
<1>1. held[w] # None /\ ToTunnel(w, "bridge") /\ UNCHANGED <<queue, slotOf, held>>
  BY DEF StartBridge
<1>2. tunnel'[w] = "bridge" /\ \A v \in Tunnels \ {w} : tunnel'[v] = tunnel[v]
  BY <1>1 DEF BridgeInv, Types, ToTunnel
<1>3. QED
  BY <1>1, <1>2, OneTunnelMoves

LEMMA AppendFacts ==
  ASSUME NEW T, NEW q \in Seq(T), NEW x \in T
  PROVE  /\ Append(q, x) \in Seq(T) /\ Len(Append(q, x)) = Len(q) + 1
         /\ Append(q, x)[Len(q) + 1] = x
         /\ \A k \in DOMAIN q : k \in DOMAIN Append(q, x) /\ Append(q, x)[k] = q[k]
         /\ \A k \in DOMAIN Append(q, x) : k = Len(q) + 1 \/ k \in DOMAIN q
         /\ Len(q) + 1 \in DOMAIN Append(q, x)
OBVIOUS

\* A tunnel comes to the end of its tenant's queue or is refused.
LEMMA EnterQueue ==
  ASSUME BridgeInv, QueueInv, NEW w \in Tunnels, Enter(w)
  PROVE  QueueInv'
<1>1. tunnel[w] = "enter" /\ UNCHANGED <<slotOf, held>>
  BY DEF Enter
<1>2. PICK o \in Tenants : o = OwnerOf(w)
  <2>1. slotOf[w] \in Slots
    BY <1>1 DEF BridgeInv, Bridging, InHands, Types
  <2>2. QED
    BY <2>1, Names DEF OwnerOf
<1>3. CASE queue' = queue /\ ToTunnel(w, "refuse")
  <2>1. tunnel'[w] = "refuse" /\ \A v \in Tunnels \ {w} : tunnel'[v] = tunnel[v]
    BY <1>3 DEF BridgeInv, Types, ToTunnel
  <2>2. QED
    BY <1>1, <1>3, <2>1, OneTunnelMoves
<1>4. CASE /\ ~(Len(queue[o]) >= MaxSlots)
           /\ queue' = [queue EXCEPT ![o] = Append(@, w)] /\ ToTunnel(w, "waiting")
  <2>1. held[w] = None
    BY <1>1 DEF BridgeInv, Bridging, InHands
  <2>2. tunnel'[w] = "waiting" /\ \A v \in Tunnels \ {w} : tunnel'[v] = tunnel[v]
    BY <1>4 DEF BridgeInv, Types, ToTunnel
  <2>3. PICK q \in Seq(Tunnels) : q = queue[o]
    BY DEF QueueInv
  <2>4. queue'[o] = Append(q, w) /\ \A t \in Tenants \ {o} : queue'[t] = queue[t]
    BY <1>4, <2>3 DEF QueueInv
  <2>5. ASSUME NEW v \in Tunnels \ {w}, NEW t \in Tenants
        PROVE  (WaitsAt(v, t)' <=> WaitsAt(v, t)) /\ (MayBeAt(v, t)' <=> MayBeAt(v, t))
    BY <1>1, <2>2 DEF WaitsAt, MayBeAt, OwnerOf
  <2>6. ~MayBeAt(w, o) /\ MayBeAt(w, o)' /\ \A t \in Tenants \ {o} : ~WaitsAt(w, t)' /\ ~MayBeAt(w, t)
    BY <1>1, <1>2, <2>1, <2>2 DEF WaitsAt, MayBeAt, OwnerOf
  <2>7. ASSUME NEW t \in Tenants \ {o}
        PROVE  ShortQueue(t)' /\ Listed(t)'
    BY <2>4, <2>5, <2>6, ListedStays
  <2>8. ShortQueue(o)' /\ Listed(o)'
    <3>1. ShortQueue(o) /\ Listed(o)
      BY DEF QueueInv
    <3>2. Len(q) \in Nat /\ Len(q) =< MaxSlots /\ \A k \in DOMAIN q : q[k] \in Tunnels \ {w}
      BY <2>3, <2>6, <3>1 DEF ShortQueue, Listed
    <3>3. ShortQueue(o)'
      <4>1. Len(q) + 1 =< MaxSlots
        BY <1>4, <2>3, <3>2, Limits
      <4>2. QED
        BY <2>4, <4>1, AppendFacts DEF ShortQueue
    <3>4. PICK r : r = queue'[o]
      OBVIOUS
    <3>5. /\ \A k \in DOMAIN r : k = Len(q) + 1 \/ k \in DOMAIN q
          /\ \A k \in DOMAIN q : k \in DOMAIN r /\ r[k] = q[k]
          /\ Len(q) + 1 \in DOMAIN r /\ r[Len(q) + 1] = w
      BY <2>4, <3>4, AppendFacts
    <3>6. IsInjective(r)
      <4>1. IsInjective(q)
        BY <2>3, <3>1 DEF Listed
      <4>2. QED
        BY <3>2, <3>5, <4>1 DEF IsInjective
    <3>7. ASSUME NEW k \in DOMAIN r
          PROVE  MayBeAt(r[k], o)'
      BY <2>3, <2>5, <2>6, <3>1, <3>2, <3>5 DEF Listed
    <3>8. ASSUME NEW v \in Tunnels, WaitsAt(v, o)'
          PROVE  \E k \in DOMAIN r : r[k] = v
      BY <2>3, <2>5, <3>1, <3>5, <3>8 DEF Listed
    <3>9. QED
      BY <3>3, <3>4, <3>6, <3>7, <3>8 DEF Listed
  <2>9. queue' \in [Tenants -> Seq(Tunnels)]
    BY <1>4, <2>3, <2>4, AppendFacts DEF QueueInv
  <2>10. QED
    BY <2>7, <2>8, <2>9 DEF QueueInv
<1>5. QED
  BY <1>2, <1>3, <1>4 DEF Enter

\* The senders of dead tunnels leave the queue, and no other.
LEMMA CleanUpQueue ==
  ASSUME BridgeInv, QueueInv, NEW w \in Tunnels, CleanUp(w)
  PROVE  QueueInv'
<1>1. tunnel[w] = "cleanup" /\ ToTunnel(w, "close") /\ UNCHANGED <<slotOf, held>>
  BY DEF CleanUp
<1>2. PICK o \in Tenants : o = OwnerOf(w)
  <2>1. slotOf[w] \in Slots
    BY <1>1 DEF BridgeInv, Bridging, InHands, Types
  <2>2. QED
    BY <2>1, Names DEF OwnerOf
<1>3. tunnel'[w] = "close" /\ \A v \in Tunnels \ {w} : tunnel'[v] = tunnel[v]
  BY <1>1 DEF BridgeInv, Types, ToTunnel
<1>4. PICK q \in Seq(Tunnels) : q = queue[o]
  BY DEF QueueInv
<1>5. PICK e : e = InOrder(Live(o))
  OBVIOUS
<1>6. PICK r : r = [i \in DOMAIN e |-> q[e[i]]]
  OBVIOUS
<1>7. queue'[o] = r /\ \A t \in Tenants \ {o} : queue'[t] = queue[t]
  BY <1>2, <1>4, <1>5, <1>6 DEF CleanUp, QueueInv
<1>8. /\ r \in Seq(Tunnels) /\ Len(r) =< Len(q)
      /\ IsInjective(q) => IsInjective(r)
      /\ \A i \in DOMAIN r : \E k \in Live(o) : r[i] = q[k]
      /\ \A k \in Live(o) : \E i \in DOMAIN r : r[i] = q[k]
  <2>1. PICK L : L = Live(o)
    OBVIOUS
  <2>2. L \in SUBSET DOMAIN q /\ e = InOrder(L)
    BY <1>4, <1>5, <2>1 DEF Live
  <2>3. Kept(q, L, r)
    BY <1>4, <1>6, <2>2, AtPlaces
  <2>4. QED
    BY <2>1, <2>3 DEF Kept
<1>9. ASSUME NEW v \in Tunnels \ {w}, NEW t \in Tenants
      PROVE  (WaitsAt(v, t)' <=> WaitsAt(v, t)) /\ (MayBeAt(v, t)' <=> MayBeAt(v, t))
  BY <1>1, <1>3 DEF WaitsAt, MayBeAt, OwnerOf
<1>10. \A t \in Tenants : ~WaitsAt(w, t)' /\ (t # o => ~MayBeAt(w, t))
  BY <1>2, <1>3 DEF WaitsAt, MayBeAt
<1>11. ASSUME NEW t \in Tenants \ {o}
       PROVE  ShortQueue(t)' /\ Listed(t)'
  BY <1>7, <1>9, <1>10, ListedStays
<1>12. ShortQueue(o)' /\ Listed(o)'
  <2>1. ShortQueue(o) /\ Listed(o)
    BY DEF QueueInv
  <2>2. ShortQueue(o)'
    <3>1. Len(q) =< MaxSlots /\ Len(q) \in Nat /\ Len(r) \in Nat
      BY <1>4, <1>8, <2>1 DEF ShortQueue
    <3>2. Len(r) =< MaxSlots
      BY <1>8, <3>1, Limits
    <3>3. QED
      BY <1>7, <1>8, <3>2 DEF ShortQueue
  <2>3. IsInjective(r)
    BY <1>4, <1>8, <2>1 DEF Listed
  <2>4. ASSUME NEW i \in DOMAIN r
        PROVE  MayBeAt(r[i], o)'
    <3>1. PICK k \in Live(o) : r[i] = q[k]
      BY <1>8
    <3>2. k \in DOMAIN q /\ tunnel[q[k]] = "waiting" /\ q[k] \in Tunnels /\ MayBeAt(q[k], o)
      BY <1>4, <2>1 DEF Live, Listed
    <3>3. q[k] # w
      BY <1>1, <3>2
    <3>4. QED
      BY <1>9, <3>1, <3>2, <3>3
  <2>5. ASSUME NEW v \in Tunnels, WaitsAt(v, o)'
        PROVE  \E i \in DOMAIN r : r[i] = v
    <3>1. v # w /\ WaitsAt(v, o)
      BY <1>9, <1>10, <2>5
    <3>2. PICK k \in DOMAIN q : q[k] = v
      BY <1>4, <2>1, <3>1 DEF Listed
    <3>3. k \in Live(o)
      BY <1>4, <3>1, <3>2 DEF Live, WaitsAt
    <3>4. QED
      BY <1>8, <3>2, <3>3
  <2>6. QED
    BY <1>7, <2>2, <2>3, <2>4, <2>5 DEF Listed
<1>13. queue' \in [Tenants -> Seq(Tunnels)]
  <2>1. queue' = [queue EXCEPT ![o] = r]
    BY <1>2, <1>4, <1>5, <1>6 DEF CleanUp, QueueInv
  <2>2. QED
    BY <1>8, <2>1 DEF QueueInv
<1>14. QED
  BY <1>11, <1>12, <1>13 DEF QueueInv

\* The tunnel that a connection is handed to, and what is left of the queue.
Takes(c, w, rest) ==
  /\ w \in Tunnels /\ WaitsAt(w, TenantOf[c])
  /\ held' = [held EXCEPT ![w] = c]
  /\ queue' = [queue EXCEPT ![TenantOf[c]] = rest]
  /\ ToConn(c, "handed")

Behind(q, live, w, rest) ==
  /\ Len(rest) =< Len(q) /\ IsInjective(rest)
  /\ \A i \in DOMAIN rest : \E k \in DOMAIN q : rest[i] = q[k] /\ rest[i] # w
  /\ \A k \in live : q[k] # w => \E i \in DOMAIN rest : rest[i] = q[k]

LEMMA SubSeqFacts ==
  ASSUME NEW T, NEW q \in Seq(T), NEW n \in 1..Len(q)
  PROVE  /\ SubSeq(q, n + 1, Len(q)) \in Seq(T)
         /\ Len(SubSeq(q, n + 1, Len(q))) = Len(q) - n
         /\ \A i \in DOMAIN SubSeq(q, n + 1, Len(q)) :
              n + i \in DOMAIN q /\ SubSeq(q, n + 1, Len(q))[i] = q[n + i]
         /\ \A k \in DOMAIN q : k > n => k - n \in DOMAIN SubSeq(q, n + 1, Len(q))
OBVIOUS

LEMMA RouteTakes ==
  ASSUME BridgeInv, QueueInv, NEW c \in Conns, Route(c), Live(TenantOf[c]) # {}
  PROVE  \E w \in Tunnels, rest \in Seq(Tunnels) :
           Takes(c, w, rest) /\ Behind(queue[TenantOf[c]], Live(TenantOf[c]), w, rest)
<1>1. PICK t \in Tenants : t = TenantOf[c]
  BY Names
<1>2. PICK q \in Seq(Tunnels) : q = queue[t]
  BY DEF QueueInv
<1>3. DOMAIN q = 1..Len(q) /\ Len(q) \in Nat /\ Live(t) \subseteq DOMAIN q
  BY <1>2 DEF Live
<1>4. \E k \in Live(t) : \A l \in Live(t) : k =< l
  <2>1. Live(t) \in SUBSET Nat /\ Live(t) # {}
    BY <1>1, <1>3
  <2>2. QED
    BY <2>1, LeastNumber
<1>5. PICK n : n = CHOOSE k \in Live(t) : \A l \in Live(t) : k =< l
  OBVIOUS
<1>6. n \in Live(t) /\ \A l \in Live(t) : n =< l
  BY <1>4, <1>5
<1>7. n \in DOMAIN q /\ n \in 1..Len(q) /\ q[n] \in Tunnels
  BY <1>2, <1>3, <1>6
<1>8. PICK w \in Tunnels : w = q[n]
  BY <1>7
<1>9. PICK rest : rest = SubSeq(q, n + 1, Len(q))
  OBVIOUS
<1>10. /\ held' = [held EXCEPT ![w] = c]
       /\ queue' = [queue EXCEPT ![t] = rest]
       /\ ToConn(c, "handed")
  BY <1>1, <1>2, <1>5, <1>8, <1>9 DEF Route, QueueInv
<1>11. IsInjective(q) /\ \A k \in DOMAIN q : MayBeAt(q[k], t)
  BY <1>2 DEF QueueInv, Listed
<1>12. WaitsAt(w, t)
  BY <1>2, <1>6, <1>7, <1>8, <1>11 DEF Live, MayBeAt, WaitsAt
<1>13. /\ rest \in Seq(Tunnels) /\ Len(rest) = Len(q) - n
       /\ \A i \in DOMAIN rest : n + i \in DOMAIN q /\ rest[i] = q[n + i]
       /\ \A k \in DOMAIN q : k > n => k - n \in DOMAIN rest
  BY <1>7, <1>9, SubSeqFacts
<1>14. Len(rest) =< Len(q)
  BY <1>3, <1>7, <1>13
<1>15. DOMAIN rest \subseteq Nat \ {0}
  BY <1>13
<1>16. ASSUME NEW i \in DOMAIN rest
       PROVE  \E k \in DOMAIN q : rest[i] = q[k] /\ rest[i] # w
  <2>1. n + i \in DOMAIN q /\ rest[i] = q[n + i] /\ n + i # n
    BY <1>3, <1>7, <1>13, <1>15
  <2>2. QED
    BY <1>7, <1>8, <1>11, <2>1 DEF IsInjective
<1>17. ASSUME NEW k \in Live(t), q[k] # w
       PROVE  \E i \in DOMAIN rest : rest[i] = q[k]
  <2>1. k \in DOMAIN q /\ k # n /\ n =< k /\ k \in Nat /\ n \in Nat
    BY <1>3, <1>6, <1>7, <1>8, <1>17
  <2>2. k > n /\ n + (k - n) = k
    BY <2>1
  <2>3. k - n \in DOMAIN rest /\ rest[k - n] = q[k]
    BY <1>13, <2>1, <2>2
  <2>4. QED
    BY <2>3
<1>18. IsInjective(rest)
  <2>1. ASSUME NEW i \in DOMAIN rest, NEW j \in DOMAIN rest, rest[i] = rest[j]
        PROVE  i = j
    <3>1. n + i = n + j
      BY <1>11, <1>13, <2>1 DEF IsInjective
    <3>2. QED
      BY <1>7, <1>15, <3>1
  <2>2. QED
    BY <2>1 DEF IsInjective
<1>19. Takes(c, w, rest)
  BY <1>1, <1>10, <1>12 DEF Takes
<1>20. Behind(q, Live(t), w, rest)
  BY <1>14, <1>16, <1>17, <1>18 DEF Behind
<1>21. QED
  BY <1>1, <1>2, <1>8, <1>13, <1>19, <1>20

LEMMA RouteQueue ==
  ASSUME BridgeInv, QueueInv, NEW c \in Conns, Route(c)
  PROVE  QueueInv'
<1>1. UNCHANGED <<tunnel, slotOf>>
  BY DEF Route
<1>2. PICK t \in Tenants : t = TenantOf[c]
  BY Names
<1>3. PICK q \in Seq(Tunnels) : q = queue[t]
  BY DEF QueueInv
<1>4. ShortQueue(t) /\ Listed(t)
  BY DEF QueueInv
<1>5. CASE Live(t) = {}
  <2>1. queue' = [queue EXCEPT ![t] = <<>>] /\ held' = held
    BY <1>2, <1>5 DEF Route
  <2>2. queue'[t] = <<>> /\ \A o \in Tenants \ {t} : queue'[o] = queue[o]
    BY <2>1 DEF QueueInv
  <2>3. \A v \in Tunnels, o \in Tenants : (WaitsAt(v, o)' <=> WaitsAt(v, o)) /\ (MayBeAt(v, o)' <=> MayBeAt(v, o))
    BY <1>1, <2>1 DEF WaitsAt, MayBeAt, OwnerOf
  <2>4. \A v \in Tunnels : ~WaitsAt(v, t)
    BY <1>4, <1>5 DEF Listed, Live, WaitsAt
  <2>5. \A o \in Tenants \ {t} : ShortQueue(o)' /\ Listed(o)'
    BY <2>2, <2>3, ListedStays
  <2>6. ShortQueue(t)'
    BY <2>2, Limits DEF ShortQueue
  <2>7. Listed(t)'
    BY <2>2, <2>3, <2>4 DEF Listed, IsInjective
  <2>8. queue' \in [Tenants -> Seq(Tunnels)]
    BY <2>1 DEF QueueInv
  <2>9. QED
    BY <2>5, <2>6, <2>7, <2>8 DEF QueueInv
<1>6. CASE Live(t) # {}
  <2>1. PICK w \in Tunnels, rest \in Seq(Tunnels) : Takes(c, w, rest) /\ Behind(q, Live(t), w, rest)
    BY <1>2, <1>3, <1>6, RouteTakes
  <2>2. /\ held'[w] = c /\ \A v \in Tunnels \ {w} : held'[v] = held[v]
        /\ WaitsAt(w, t) /\ queue' = [queue EXCEPT ![t] = rest]
    BY <1>2, <2>1 DEF Takes, BridgeInv, Types
  <2>3. queue'[t] = rest /\ \A o \in Tenants \ {t} : queue'[o] = queue[o]
    BY <2>2 DEF QueueInv
  <2>4. ASSUME NEW v \in Tunnels \ {w}, NEW o \in Tenants
        PROVE  (WaitsAt(v, o)' <=> WaitsAt(v, o)) /\ (MayBeAt(v, o)' <=> MayBeAt(v, o))
    BY <1>1, <2>2 DEF WaitsAt, MayBeAt, OwnerOf
  <2>5. \A o \in Tenants : ~WaitsAt(w, o)' /\ (o # t => ~MayBeAt(w, o))
    BY <2>2, Names DEF WaitsAt, MayBeAt
  <2>6. \A o \in Tenants \ {t} : ShortQueue(o)' /\ Listed(o)'
    BY <2>3, <2>4, <2>5, ListedStays
  <2>7. ShortQueue(t)'
    <3>1. Len(q) =< MaxSlots /\ Len(q) \in Nat /\ Len(rest) \in Nat
      BY <1>3, <1>4 DEF ShortQueue
    <3>2. Len(rest) =< MaxSlots
      BY <2>1, <3>1, Limits DEF Behind
    <3>3. QED
      BY <2>3, <3>2 DEF ShortQueue
  <2>8. ASSUME NEW i \in DOMAIN rest
        PROVE  MayBeAt(rest[i], t)'
    <3>1. PICK k \in DOMAIN q : rest[i] = q[k] /\ rest[i] # w
      BY <2>1 DEF Behind
    <3>2. q[k] \in Tunnels \ {w} /\ MayBeAt(q[k], t)
      BY <1>3, <1>4, <3>1 DEF Listed
    <3>3. QED
      BY <2>4, <3>1, <3>2
  <2>9. ASSUME NEW v \in Tunnels, WaitsAt(v, t)'
        PROVE  \E i \in DOMAIN rest : rest[i] = v
    <3>1. v # w /\ WaitsAt(v, t)
      BY <2>4, <2>5, <2>9
    <3>2. PICK k \in DOMAIN q : q[k] = v
      BY <1>3, <1>4, <3>1 DEF Listed
    <3>3. k \in Live(t)
      BY <1>3, <3>1, <3>2 DEF Live, WaitsAt
    <3>4. QED
      BY <2>1, <3>1, <3>2, <3>3 DEF Behind
  <2>10. Listed(t)'
    BY <2>1, <2>3, <2>8, <2>9 DEF Listed, Behind
  <2>11. queue' \in [Tenants -> Seq(Tunnels)]
    BY <2>2 DEF QueueInv
  <2>12. QED
    BY <2>6, <2>7, <2>10, <2>11 DEF QueueInv
<1>7. QED
  BY <1>5, <1>6

LEMMA RouteKeeps ==
  ASSUME BridgeInv, QueueInv, NEW c \in Conns, Route(c)
  PROVE  BridgeInv'
<1>1. conn[c] = "route" /\ UNCHANGED <<registered, tunnel, slotOf, wire, silent, slot, link, given,
                                       got, answered, faults>>
  BY DEF Route, slotVars
<1>2. CASE Live(TenantOf[c]) = {}
  <2>1. held' = held /\ ToConn(c, "refused")
    BY <1>2 DEF Route
  <2>2. registered' \subseteq Tenants /\ faults' \in 0..MaxFaults
    BY <1>1 DEF BridgeInv, Types
  <2>3. QED
    BY <1>1, <2>1, <2>2, ConnKeeps DEF Over
<1>3. CASE Live(TenantOf[c]) # {}
  <2>1. PICK w \in Tunnels : \E rest : Takes(c, w, rest)
    BY <1>3, RouteTakes
  <2>2. /\ tunnel[w] = "waiting" /\ held[w] = None /\ OwnerOf(w) = TenantOf[c]
        /\ held' = [held EXCEPT ![w] = c] /\ ToConn(c, "handed")
    BY <2>1 DEF Takes, WaitsAt
  <2>3. Types'
    BY <1>1, <2>2 DEF BridgeInv, Types, ToConn, ConnPC
  <2>4. /\ held'[w] = c /\ \A v \in Tunnels \ {w} : held'[v] = held[v]
        /\ conn'[c] = "handed" /\ \A d \in Conns \ {c} : conn'[d] = conn[d]
    BY <2>2 DEF BridgeInv, Types, ToConn
  <2>5. \A v \in Tunnels : held[v] # None => held[v] \in Conns \ {c}
    <3>1. ASSUME NEW v \in Tunnels, held[v] # None
          PROVE  held[v] \in Conns \ {c}
      <4>1. InHands(v) /\ held[v] \in Conns
        BY <3>1 DEF BridgeInv, Bridging, Types
      <4>2. conn[held[v]] \in {"handed", "bridged", "left"}
        BY <3>1, <4>1 DEF InHands
      <4>3. QED
        BY <1>1, <4>1, <4>2
    <3>2. QED
      BY <3>1
  <2>6. Others(w)
    BY <1>1, <2>4, <2>5 DEF Others
  <2>7. InHands(w) /\ Flow(w) /\ Waits(c)
    BY DEF BridgeInv, Bridging
  <2>8. InHands(w)'
    BY <1>1, <2>2, <2>4, <2>7 DEF InHands, OwnerOf
  <2>9. Flow(w)'
    BY <1>1, <2>2, <2>7 DEF Flow
  <2>10. ASSUME NEW q \in Slots
         PROVE  Linked(q)'
    <3>1. Linked(q) /\ SlotStays(q)
      BY <1>1 DEF BridgeInv, Bridging, SlotStays
    <3>2. CASE link[q] = w
      BY <1>1, <2>2, <3>1, <3>2 DEF Linked
    <3>3. QED
      BY <2>6, <3>1, <3>2, OthersKeep
  <2>11. OneHolder'
    BY <2>4, <2>5 DEF BridgeInv, Bridging, OneHolder
  <2>12. ASSUME NEW d \in Conns
         PROVE  Waits(d)' /\ (d \in answered' /\ conn'[d] = "done" => got'[d] = Chunks)
    <3>1. CASE d = c
      BY <1>1, <2>4, <2>7, <3>1 DEF Waits
    <3>2. CASE d # c
      BY <1>1, <2>2, <2>4, <2>6, <3>2, Names, WaitsOn
    <3>3. QED
      BY <3>1, <3>2
  <2>13. WholeAnswer'
    BY <2>3, <2>12 DEF WholeAnswer, Types
  <2>14. QED
    BY <2>3, <2>6, <2>8, <2>9, <2>10, <2>11, <2>12, <2>13, OthersKeep DEF BridgeInv, Bridging
<1>4. QED
  BY <1>2, <1>3

LEMMA EmptyIsShort == <<>> \in Seq(Tunnels) /\ Len(<<>>) =< MaxSlots
<1>1. Len(<<>>) = 0 /\ 0 =< MaxSlots
  BY Limits
<1>2. QED
  BY <1>1

LEMMA ServerRestartKeeps ==
  ASSUME BridgeInv, QueueInv, ServerRestart
  PROVE  BridgeInv' /\ QueueInv'
<1>1. /\ \A t \in Tenants : queue'[t] = <<>>
      /\ \A w \in Tunnels : /\ tunnel'[w] = "free" /\ slotOf'[w] = None
                            /\ held'[w] = None /\ wire'[w] = 0
      /\ \A s \in Slots : link'[s] = None
      /\ \A c \in Conns : conn'[c] = IF conn[c] \in {"hello", "route", "handed", "bridged"}
                                       THEN "lost" ELSE conn[c]
      /\ UNCHANGED <<slot, given, got, answered>>
  BY DEF ServerRestart
<1>2. Types'
  BY Limits DEF ServerRestart, Fault, BridgeInv, Types, TunnelPC, Over
<1>3. OneHolder' /\ \A w \in Tunnels : InHands(w)' /\ Flow(w)'
  BY <1>1 DEF OneHolder, InHands, Flow
<1>4. \A s \in Slots : Linked(s)'
  BY <1>1 DEF BridgeInv, Bridging, Linked
<1>5. \A c \in Conns : Waits(c)'
  BY <1>1 DEF BridgeInv, Bridging, Waits
<1>6. WholeAnswer'
  BY <1>1 DEF BridgeInv, Types, WholeAnswer
<1>7. \A t \in Tenants : ShortQueue(t)'
  BY <1>1, EmptyIsShort DEF ShortQueue
<1>8. \A t \in Tenants : Listed(t)'
  BY <1>1 DEF Listed, WaitsAt, IsInjective
<1>9. queue' \in [Tenants -> Seq(Tunnels)]
  BY DEF ServerRestart
<1>10. QED
  BY <1>2, <1>3, <1>4, <1>5, <1>6, <1>7, <1>8, <1>9 DEF BridgeInv, Bridging, QueueInv

-----------------------------------------------------------------------------
(* The theorems *)

LEMMA InitBlind == Init => BridgeInv /\ QueueInv
<1>1. SUFFICES ASSUME Init
               PROVE  BridgeInv /\ QueueInv
  OBVIOUS
<1>2. Types
  BY <1>1, Limits DEF Init, Types, TunnelPC, SlotPC, ConnPC
<1>3. OneHolder /\ \A w \in Tunnels : InHands(w) /\ Flow(w)
  BY <1>1 DEF Init, OneHolder, InHands, Flow
<1>4. \A s \in Slots : Linked(s)
  BY <1>1 DEF Init, Linked
<1>5. WholeAnswer /\ \A c \in Conns : Waits(c)
  BY <1>1 DEF Init, WholeAnswer, Waits
<1>6. \A t \in Tenants : queue[t] = <<>>
  BY <1>1 DEF Init
<1>7. \A t \in Tenants : ShortQueue(t) /\ Listed(t)
  <2>1. \A t \in Tenants : ShortQueue(t)
    BY <1>6, EmptyIsShort DEF ShortQueue
  <2>2. \A t \in Tenants : Listed(t)
    BY <1>1, <1>6 DEF Init, Listed, WaitsAt, IsInjective
  <2>3. QED
    BY <2>1, <2>2
<1>8. queue \in [Tenants -> Seq(Tunnels)]
  BY <1>1 DEF Init
<1>9. QED
  BY <1>2, <1>3, <1>4, <1>5, <1>7, <1>8 DEF BridgeInv, Bridging, QueueInv

LEMMA TunnelStepKeeps ==
  ASSUME BridgeInv, QueueInv, NEW w \in Tunnels, TunnelStep(w)
  PROVE  BridgeInv' /\ QueueInv'
<1>0. Types
  BY DEF BridgeInv
<1>1. CASE Enter(w)
  BY <1>1, EnterKeeps, EnterQueue
<1>2. CASE CloseTunnel(w)
  BY <1>0, <1>2, CloseTunnelKeeps, EndsQueue DEF CloseTunnel
<1>3. CASE WaitTimesOut(w)
  BY <1>3, WaitTimesOutKeeps, WaitTimesOutQueue
<1>4. CASE CleanUp(w)
  BY <1>4, CleanUpKeeps, CleanUpQueue
<1>5. CASE StartBridge(w)
  BY <1>5, StartBridgeKeeps, StartBridgeQueue
<1>6. CASE Relay(w)
  BY <1>6, RelayKeeps, QueuesUnchanged DEF Relay
<1>7. CASE BridgeEnds(w)
  BY <1>0, <1>7, BridgeEndsKeeps, EndsQueue DEF BridgeEnds
<1>8. CASE BridgeTimesOut(w)
  BY <1>0, <1>8, BridgeTimesOutKeeps, EndsQueue DEF BridgeTimesOut
<1>9. QED
  BY <1>1, <1>2, <1>3, <1>4, <1>5, <1>6, <1>7, <1>8 DEF TunnelStep

LEMMA SlotStepKeeps ==
  ASSUME BridgeInv, QueueInv, NEW s \in Slots, SlotStep(s) \/ Break(s) \/ Vanish(s)
  PROVE  BridgeInv' /\ QueueInv'
<1>1. CASE Connect(s)
  BY <1>1, ConnectKeeps, ConnectQueue
<1>2. CASE Rejected(s)
  BY <1>2, RejectedKeeps, QueuesUnchanged DEF Rejected, tunnelVars
<1>3. CASE Closed(s)
  BY <1>3, ClosedKeeps, QueuesUnchanged DEF Closed, tunnelVars
<1>4. CASE Dial(s)
  BY <1>4, DialKeeps, QueuesUnchanged DEF Dial, tunnelVars
<1>5. CASE GatewayFails(s)
  BY <1>5, GatewayFailsKeeps, QueuesUnchanged DEF GatewayFails, tunnelVars
<1>6. CASE Forward(s)
  BY <1>6, ForwardKeeps, QueuesUnchanged DEF Forward
<1>7. CASE Answered(s)
  BY <1>7, AnsweredKeeps, QueuesUnchanged DEF Answered, tunnelVars
<1>8. CASE Retry(s)
  BY <1>8, RetryKeeps, QueuesUnchanged DEF Retry, tunnelVars
<1>9. CASE Break(s)
  BY <1>9, BreakKeeps, QueuesUnchanged DEF Break, tunnelVars
<1>10. CASE Vanish(s)
  BY <1>10, VanishKeeps, QueuesUnchanged DEF Vanish
<1>11. QED
  BY <1>1, <1>2, <1>3, <1>4, <1>5, <1>6, <1>7, <1>8, <1>9, <1>10 DEF SlotStep

LEMMA ConnStepKeeps ==
  ASSUME BridgeInv, QueueInv, NEW c \in Conns, Accept(c) \/ ConnStep(c) \/ Leave(c)
  PROVE  BridgeInv' /\ QueueInv'
<1>1. CASE Accept(c)
  BY <1>1, AcceptKeeps, QueuesUnchanged DEF Accept, tunnelVars
<1>2. CASE Hello(c)
  BY <1>2, HelloKeeps, QueuesUnchanged DEF Hello, tunnelVars
<1>3. CASE Route(c)
  BY <1>3, RouteKeeps, RouteQueue
<1>4. CASE Leave(c)
  BY <1>4, LeaveKeeps, QueuesUnchanged DEF Leave, tunnelVars
<1>5. QED
  BY <1>1, <1>2, <1>3, <1>4 DEF ConnStep

LEMMA NextBlind == BridgeInv /\ QueueInv /\ [Next]_vars => BridgeInv' /\ QueueInv'
<1>1. SUFFICES ASSUME BridgeInv, QueueInv, [Next]_vars
               PROVE  BridgeInv' /\ QueueInv'
  OBVIOUS
<1>2. CASE \E w \in Tunnels : TunnelStep(w)
  BY <1>1, <1>2, TunnelStepKeeps
<1>3. CASE \E s \in Slots : SlotStep(s) \/ Break(s) \/ Vanish(s)
  BY <1>1, <1>3, SlotStepKeeps
<1>4. CASE \E c \in Conns : Accept(c) \/ ConnStep(c) \/ Leave(c)
  BY <1>1, <1>4, ConnStepKeeps
<1>5. ASSUME NEW t \in Tenants, Register(t) \/ ClientCrash(t)
      PROVE  BridgeInv' /\ QueueInv'
  BY <1>1, <1>5, RegisterKeeps, ClientCrashKeeps, QueuesUnchanged DEF Register, ClientCrash, tunnelVars
<1>6. CASE ServerRestart
  BY <1>1, <1>6, ServerRestartKeeps
<1>7. CASE UNCHANGED vars
  <2>1. UNCHANGED <<registered, queue, tunnel, slotOf, held, wire, silent, slot, link, given,
                    conn, got, answered, faults>>
    BY <1>7 DEF vars, tunnelVars, slotVars, connVars
  <2>2. Types' /\ OnlySlots
    BY <1>1, <2>1 DEF BridgeInv, Types, OnlySlots
  <2>3. QED
    BY <1>1, <2>1, <2>2, UnlinkedKeeps, QueuesUnchanged
<1>8. QED
  BY <1>1, <1>2, <1>3, <1>4, <1>5, <1>6, <1>7 DEF Next

\* The inductive invariant: TypeOK, SlotsConserved, WholeAnswer, and Bridging.
LEMMA BlindInvariant == Spec => [](BridgeInv /\ QueueInv)
<1>1. QED
  BY InitBlind, NextBlind, PTL DEF Spec

\* All variables of the relay's blind tunnels have the values TypeOK says, and a queue has
\* no more senders than MAX_BLIND_SLOTS_PER_TENANT (blind_tunnel_socket).
THEOREM TypeCorrect == Spec => []TypeOK
<1>1. BridgeInv /\ QueueInv => TypeOK
  BY QueueInvMeans DEF BridgeInv
<1>2. QED
  BY <1>1, BlindInvariant, PTL

\* Whatever times out, breaks or restarts, a tunnel that waits unassigned is in its
\* tenant's queue, once, and nothing else is but what is about to clean up
\* (blind_tunnel_socket, remove_closed_blind_slots, route_blind_connection).
THEOREM WaitingSlotsAreQueued == Spec => []SlotsConserved
<1>1. BridgeInv /\ QueueInv => SlotsConserved
  BY QueueInvMeans DEF BridgeInv
<1>2. QED
  BY <1>1, BlindInvariant, PTL

\* A connection that has been handed on is in the hands of one tunnel, of the tenant that
\* it names (route_blind_connection).
THEOREM ConnectionsAreHandedOnce == Spec => []HandedOnce
<1>1. BridgeInv => HandedOnce
  <2>1. SUFFICES ASSUME BridgeInv, NEW c \in Conns, conn[c] \in {"handed", "bridged"}
                 PROVE  /\ Cardinality({w \in Tunnels : held[w] = c}) = 1
                        /\ \A w \in Tunnels : held[w] = c => OwnerOf(w) = TenantOf[c]
    BY DEF HandedOnce
  <2>2. PICK w \in Tunnels : held[w] = c
    BY <2>1 DEF BridgeInv, Bridging, Waits
  <2>3. {v \in Tunnels : held[v] = c} = {w}
    BY <2>1, <2>2, Names DEF BridgeInv, Bridging, OneHolder
  <2>4. OwnerOf(w) = TenantOf[c]
    BY <2>1, <2>2, Names DEF BridgeInv, Bridging, InHands
  <2>5. \A v \in Tunnels : held[v] = c => v = w
    BY <2>3
  <2>6. Cardinality({w}) = 1
    BY FS_Singleton
  <2>7. QED
    BY <2>3, <2>4, <2>5, <2>6
<1>2. QED
  BY <1>1, BlindInvariant, PTL

\* A bridge that ends by itself after the slot has passed the whole answer on has given the
\* requester all of it (bridge_local_to_websocket, bridge_websocket_to_tcp).
THEOREM AnswersAreWhole == Spec => []WholeAnswer
<1>1. BridgeInv => WholeAnswer
  BY DEF BridgeInv
<1>2. QED
  BY <1>1, BlindInvariant, PTL
=============================================================================
