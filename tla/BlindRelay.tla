----------------------------- MODULE BlindRelay -----------------------------
(***************************************************************************)
(* Version 2 of the relay, the blind tunnels.  A slot is one run of        *)
(* blind_slot_loop in relay/src/bin/client.rs: it opens a websocket to the *)
(* server and waits until a TLS connection is handed to it, which it       *)
(* bridges to the local gateway.  A tunnel is the task of the server       *)
(* (relay/src/bin/server.rs) for one such websocket: it puts a sender into *)
(* its tenant's queue of slots and waits for a connection.  A connection   *)
(* is routed by the name in its ClientHello to the first slot of the       *)
(* tenant whose tunnel still waits.                                        *)
(*                                                                         *)
(* A sender, and the websocket, are named by their tunnel.  A tunnel does  *)
(* not look at its websocket while it waits, so it may wait for a slot     *)
(* that is long gone.  The answer of the gateway is Chunks pieces long.    *)
(***************************************************************************)
EXTENDS Naturals, Sequences, FiniteSets, SequencesExt

CONSTANTS
  Tenants,
  Slots,        \* slots of the clients, each of one tenant
  TenantOf,     \* the tenant of a slot and the one a connection names
  MaxTunnels,   \* bound: tunnel tasks at one time
  MaxSlots,     \* MAX_BLIND_SLOTS_PER_TENANT
  MaxConns,     \* bound: connections in all
  MaxRouting,   \* MAX_BLIND_CONNECTIONS
  Chunks,
  MaxFaults,    \* bound: crashes, lost websockets, requesters that leave
  None

Tunnels == 1..MaxTunnels
Conns == (MaxTunnels + 1)..(MaxTunnels + MaxConns)

ASSUME BlindAssumption ==
  /\ {MaxTunnels, MaxSlots, MaxConns, MaxRouting, Chunks} \subseteq Nat \ {0}
  /\ MaxFaults \in Nat
  /\ TenantOf \in [Slots \union Conns -> Tenants]
  /\ None \notin Tunnels \union Conns \union Slots

VARIABLES
  registered,  \* tenants the server knows
  queue,       \* blind_slots: the senders of each tenant, by tunnel
  tunnel,      \* where each tunnel stands
  slotOf,      \* the slot that opened it
  held,        \* the connection handed to it
  wire,        \* pieces on their way to it through the websocket
  silent,      \* tunnels whose websocket is lost without a sign
  slot,        \* where each slot stands
  link,        \* the tunnel at the other end of its websocket
  given,       \* pieces it has passed on
  conn,        \* where each connection stands
  got,         \* pieces that have reached the requester
  answered,    \* history: connections whose whole answer a slot has passed on
  faults

tunnelVars == <<tunnel, slotOf, held, wire, silent>>
slotVars == <<slot, link, given>>
connVars == <<conn, got, answered>>
vars == <<registered, queue, tunnelVars, slotVars, connVars, faults>>

TunnelPC == {"free", "enter", "refuse", "waiting", "cleanup", "close", "bridge"}
SlotPC == {"connect", "open", "assigned", "bridge", "sleep", "wedged"}
ConnPC == {"new", "hello", "route", "handed", "bridged"}
Over == {"done", "lost", "left", "refused"}

TypeOK ==
  /\ registered \subseteq Tenants
  /\ queue \in [Tenants -> Seq(Tunnels)]
  /\ \A t \in Tenants : Len(queue[t]) =< MaxSlots
  /\ tunnel \in [Tunnels -> TunnelPC]
  /\ slotOf \in [Tunnels -> Slots \union {None}]
  /\ held \in [Tunnels -> Conns \union {None}]
  /\ wire \in [Tunnels -> 0..Chunks]
  /\ silent \subseteq Tunnels
  /\ slot \in [Slots -> SlotPC]
  /\ link \in [Slots -> Tunnels \union {None}]
  /\ given \in [Slots -> 0..Chunks]
  /\ conn \in [Conns -> ConnPC \union Over]
  /\ got \in [Conns -> 0..Chunks]
  /\ answered \subseteq Conns
  /\ faults \in 0..MaxFaults

Init ==
  /\ registered = Tenants
  /\ queue = [t \in Tenants |-> <<>>]
  /\ tunnel = [w \in Tunnels |-> "free"]
  /\ slotOf = [w \in Tunnels |-> None]
  /\ held = [w \in Tunnels |-> None]
  /\ wire = [w \in Tunnels |-> 0]
  /\ silent = {}
  /\ slot = [s \in Slots |-> "connect"]
  /\ link = [s \in Slots |-> None]
  /\ given = [s \in Slots |-> 0]
  /\ conn = [c \in Conns |-> "new"]
  /\ got = [c \in Conns |-> 0]
  /\ answered = {}
  /\ faults = 0

Fault == faults < MaxFaults /\ faults' = faults + 1

-----------------------------------------------------------------------------
(* blind_tunnel and blind_tunnel_socket *)

ToSlot(s, l) == slot' = [slot EXCEPT ![s] = l]
ToTunnel(w, l) == tunnel' = [tunnel EXCEPT ![w] = l]
ToConn(c, l) == conn' = [conn EXCEPT ![c] = l]

OwnerOf(w) == TenantOf[slotOf[w]]

\* The lock on blind_slots is kept over an await only while a tunnel is refused.
Unlocked == \A w \in Tunnels : tunnel[w] # "refuse"

Free == {w \in Tunnels : tunnel[w] = "free"}

\* The websocket is up; the lowest free name is as good as any.
Connect(s) ==
  /\ slot[s] = "connect"
  /\ TenantOf[s] \in registered
  /\ Free # {}
  /\ LET w == CHOOSE w \in Free : \A v \in Free : w =< v
     IN  /\ ToTunnel(w, "enter")
         /\ slotOf' = [slotOf EXCEPT ![w] = s]
         /\ link' = [link EXCEPT ![s] = w]
  /\ ToSlot(s, "open")
  /\ UNCHANGED <<registered, queue, held, wire, silent, given, connVars, faults>>

\* Mutant: the limit is checked, but one too late.
Enter_AtLimit(w) ==
  /\ tunnel[w] = "enter"
  /\ Unlocked
  /\ IF Len(queue[OwnerOf(w)]) > MaxSlots
       THEN queue' = queue /\ ToTunnel(w, "refuse")
       ELSE /\ queue' = [queue EXCEPT ![OwnerOf(w)] = Append(@, w)]
            /\ ToTunnel(w, "waiting")
  /\ UNCHANGED <<registered, slotOf, held, wire, silent, slotVars, connVars, faults>>

Enter(w) ==
  /\ tunnel[w] = "enter"
  /\ Unlocked
  /\ IF Len(queue[OwnerOf(w)]) >= MaxSlots
       THEN queue' = queue /\ ToTunnel(w, "refuse")
       ELSE /\ queue' = [queue EXCEPT ![OwnerOf(w)] = Append(@, w)]
            /\ ToTunnel(w, "waiting")
  /\ UNCHANGED <<registered, slotOf, held, wire, silent, slotVars, connVars, faults>>

\* The task ends and with it the server's end of the websocket; a slot that is still
\* at the other end will notice.
Ends(w) ==
  /\ ToTunnel(w, "free")
  /\ slotOf' = [slotOf EXCEPT ![w] = None]
  /\ held' = [held EXCEPT ![w] = None]
  /\ wire' = [wire EXCEPT ![w] = 0]
  /\ silent' = silent \ {w}
  /\ link' = [s \in Slots |-> IF link[s] = w THEN None ELSE link[s]]

\* A Close frame, under the lock or after the clean-up.
CloseTunnel(w) ==
  /\ tunnel[w] \in {"refuse", "close"}
  /\ Ends(w)
  /\ UNCHANGED <<registered, queue, slot, given, connVars, faults>>

\* Forty-five seconds.  A connection that was sent at that very moment is dropped with
\* the receiver.
WaitTimesOut(w) ==
  /\ tunnel[w] = "waiting"
  /\ ToTunnel(w, "cleanup")
  /\ held' = [held EXCEPT ![w] = None]
  /\ IF held[w] = None THEN conn' = conn ELSE ToConn(held[w], "lost")
  /\ UNCHANGED <<registered, queue, slotOf, wire, silent, slotVars, got, answered, faults>>

\* The senders of a tenant that a connection can be sent to, by their places.
Live(t) == {k \in DOMAIN queue[t] : tunnel[queue[t][k]] = "waiting"}

\* Places in their order.
InOrder(S) ==
  CHOOSE e \in Bijection(1..Cardinality(S), S) : \A i, j \in DOMAIN e : i < j => e[i] < e[j]

\* Mutant: the tunnel is closed, its sender stays in the queue.
CleanUp_Skipped(w) ==
  /\ tunnel[w] = "cleanup"
  /\ Unlocked
  /\ ToTunnel(w, "close")
  /\ UNCHANGED <<registered, queue, slotOf, held, wire, silent, slotVars, connVars, faults>>

\* remove_closed_blind_slots: every sender of the tenant whose receiver is gone.
CleanUp(w) ==
  /\ tunnel[w] = "cleanup"
  /\ Unlocked
  /\ LET live == InOrder(Live(OwnerOf(w)))
     IN  queue' = [queue EXCEPT ![OwnerOf(w)] = [i \in DOMAIN live |-> @[live[i]]]]
  /\ ToTunnel(w, "close")
  /\ UNCHANGED <<registered, slotOf, held, wire, silent, slotVars, connVars, faults>>

\* The receiver has the connection; its first bytes go out to the slot.
StartBridge(w) ==
  /\ tunnel[w] = "waiting"
  /\ held[w] # None
  /\ ToTunnel(w, "bridge")
  /\ ToConn(held[w], "bridged")
  /\ slot' = [s \in Slots |-> IF link[s] = w THEN "assigned" ELSE slot[s]]
  /\ UNCHANGED <<registered, queue, slotOf, held, wire, silent, link, given, got, answered,
                 faults>>

\* websocket_to_tcp
Relay(w) ==
  /\ tunnel[w] = "bridge"
  /\ wire[w] > 0
  /\ conn[held[w]] = "bridged"
  /\ wire' = [wire EXCEPT ![w] = @ - 1]
  /\ got' = [got EXCEPT ![held[w]] = @ + 1]
  /\ UNCHANGED <<registered, queue, tunnel, slotOf, held, silent, slotVars, conn, answered,
                 faults>>

\* Mutant: the bridge stops as soon as the slot has gone.
BridgeEnds_Undrained(w) ==
  /\ tunnel[w] = "bridge"
  /\ \/ w \notin silent /\ \A s \in Slots : link[s] # w
     \/ conn[held[w]] = "left"
  /\ IF conn[held[w]] = "left" THEN conn' = conn ELSE ToConn(held[w], "done")
  /\ Ends(w)
  /\ UNCHANGED <<registered, queue, slot, given, got, answered, faults>>

\* Either end has gone, after everything that the slot had sent.
BridgeEnds(w) ==
  /\ tunnel[w] = "bridge"
  /\ \/ w \notin silent /\ wire[w] = 0 /\ \A s \in Slots : link[s] # w
     \/ conn[held[w]] = "left"
  /\ IF conn[held[w]] = "left" THEN conn' = conn ELSE ToConn(held[w], "done")
  /\ Ends(w)
  /\ UNCHANGED <<registered, queue, slot, given, got, answered, faults>>

\* Mutant: no limit on the time of a bridge.
BridgeTimesOut_Never(w) ==
  /\ tunnel[w] = "bridge"
  /\ FALSE
  /\ UNCHANGED vars

\* Sixty seconds, or the requester has sent more and the slot is gone: what the slot had
\* sent before is lost either way.
BridgeTimesOut(w) ==
  /\ tunnel[w] = "bridge"
  /\ IF conn[held[w]] = "left" THEN conn' = conn ELSE ToConn(held[w], "lost")
  /\ Ends(w)
  /\ UNCHANGED <<registered, queue, slot, given, got, answered, faults>>

-----------------------------------------------------------------------------
(* run_blind_listener and route_blind_connection *)

\* A permit lasts until the connection has been handed on, not longer.
Routing == {c \in Conns : conn[c] \in {"hello", "route"}}

\* An error of accept itself, which ends run_blind_listener while the rest of the server
\* goes on, is left out.
Accept(c) ==
  /\ conn[c] = "new"
  /\ \A d \in Conns : d < c => conn[d] # "new"
  /\ ToConn(c, IF Cardinality(Routing) < MaxRouting THEN "hello" ELSE "refused")
  /\ UNCHANGED <<registered, queue, tunnelVars, slotVars, got, answered, faults>>

\* A ClientHello that names a known tenant, or none within five seconds.
Hello(c) ==
  /\ conn[c] = "hello"
  /\ \E l \in {"route", "refused"} : (l = "route" => TenantOf[c] \in registered) /\ ToConn(c, l)
  /\ UNCHANGED <<registered, queue, tunnelVars, slotVars, got, answered, faults>>

\* Mutant: the sender is used and stays first in the queue.
Route_Peeked(c) ==
  /\ conn[c] = "route"
  /\ Unlocked
  /\ LET t == TenantOf[c]
     IN  IF Live(t) = {} THEN queue' = [queue EXCEPT ![t] = <<>>] /\ held' = held /\ ToConn(c, "refused")
         ELSE LET k == CHOOSE k \in Live(t) : \A l \in Live(t) : k =< l
              IN  /\ held' = [held EXCEPT ![queue[t][k]] = c]
                  /\ queue' = queue
                  /\ ToConn(c, "handed")
  /\ UNCHANGED <<registered, tunnel, slotOf, wire, silent, slotVars, got, answered, faults>>

\* Senders whose tunnel has given up are thrown away until one takes the connection.
Route(c) ==
  /\ conn[c] = "route"
  /\ Unlocked
  /\ LET t == TenantOf[c]
     IN  IF Live(t) = {}
           THEN /\ queue' = [queue EXCEPT ![t] = <<>>]
                /\ held' = held
                /\ ToConn(c, "refused")
           ELSE LET k == CHOOSE k \in Live(t) : \A l \in Live(t) : k =< l
                IN  /\ held' = [held EXCEPT ![queue[t][k]] = c]
                    /\ queue' = [queue EXCEPT ![t] = SubSeq(@, k + 1, Len(@))]
                    /\ ToConn(c, "handed")
  /\ UNCHANGED <<registered, tunnel, slotOf, wire, silent, slotVars, got, answered, faults>>

-----------------------------------------------------------------------------
(* blind_slot_loop *)

\* No tunnel for a tenant that the server does not know.
Rejected(s) ==
  /\ slot[s] = "connect"
  /\ TenantOf[s] \notin registered
  /\ ToSlot(s, "sleep")
  /\ UNCHANGED <<registered, queue, tunnelVars, link, given, connVars, faults>>

\* The server has closed the websocket, or it broke: an error wherever the slot is.
Closed(s) ==
  /\ slot[s] \in {"open", "assigned", "bridge"}
  /\ link[s] = None
  /\ given' = [given EXCEPT ![s] = 0]
  /\ ToSlot(s, "sleep")
  /\ UNCHANGED <<registered, queue, tunnelVars, link, connVars, faults>>

Drop(s, l) ==
  /\ link' = [link EXCEPT ![s] = None]
  /\ given' = [given EXCEPT ![s] = 0]
  /\ ToSlot(s, l)

Dial(s) ==
  /\ slot[s] = "assigned"
  /\ link[s] # None
  /\ ToSlot(s, "bridge")
  /\ UNCHANGED <<registered, queue, tunnelVars, link, given, connVars, faults>>

\* The local gateway does not answer, or stops in the middle.
GatewayFails(s) ==
  /\ slot[s] \in {"assigned", "bridge"}
  /\ Drop(s, "sleep")
  /\ UNCHANGED <<registered, queue, tunnelVars, connVars, faults>>

\* local_to_websocket
Forward(s) ==
  /\ slot[s] = "bridge"
  /\ link[s] # None
  /\ given[s] < Chunks
  /\ given' = [given EXCEPT ![s] = @ + 1]
  /\ wire' = [wire EXCEPT ![link[s]] = @ + 1]
  /\ UNCHANGED <<registered, queue, tunnel, slotOf, held, silent, slot, link, connVars, faults>>

\* The gateway closes after its answer: the websocket is dropped and the next one is
\* opened at once.
Answered(s) ==
  /\ slot[s] = "bridge"
  /\ link[s] # None
  /\ given[s] = Chunks
  /\ answered' = answered \union {held[link[s]]}
  /\ Drop(s, "connect")
  /\ UNCHANGED <<registered, queue, tunnelVars, conn, got, faults>>

\* Half a second after an error.
Retry(s) ==
  /\ slot[s] = "sleep"
  /\ ToSlot(s, "connect")
  /\ UNCHANGED <<registered, queue, tunnelVars, link, given, connVars, faults>>

\* The client's main loop polls, is told 404 and registers.
Register(t) ==
  /\ t \notin registered
  /\ registered' = registered \union {t}
  /\ UNCHANGED <<queue, tunnelVars, slotVars, connVars, faults>>

-----------------------------------------------------------------------------
(* Faults *)

\* A websocket breaks and its slot notices; a tunnel that waits does not look.
Break(s) ==
  /\ link[s] # None
  /\ Fault
  /\ link' = [link EXCEPT ![s] = None]
  /\ UNCHANGED <<registered, queue, tunnelVars, slot, given, connVars>>

\* A websocket is lost without a sign.  A slot that waits in it waits for ever; one
\* that bridges goes on until the gateway closes.
Vanish(s) ==
  /\ link[s] # None
  /\ Fault
  /\ silent' = silent \union {link[s]}
  /\ link' = [link EXCEPT ![s] = None]
  /\ slot' = IF slot[s] = "open" THEN [slot EXCEPT ![s] = "wedged"] ELSE slot
  /\ UNCHANGED <<registered, queue, tunnel, slotOf, held, wire, given, connVars>>

Leave(c) ==
  /\ conn[c] = "bridged"
  /\ Fault
  /\ ToConn(c, "left")
  /\ UNCHANGED <<registered, queue, tunnelVars, slotVars, got, answered>>

\* launchd restarts the client, which registers first.
ClientCrash(t) ==
  /\ Fault
  /\ registered' = registered \union {t}
  /\ slot' = [s \in Slots |-> IF TenantOf[s] = t THEN "connect" ELSE slot[s]]
  /\ link' = [s \in Slots |-> IF TenantOf[s] = t THEN None ELSE link[s]]
  /\ given' = [s \in Slots |-> IF TenantOf[s] = t THEN 0 ELSE given[s]]
  /\ UNCHANGED <<queue, tunnelVars, connVars>>

\* Without a tenant store nothing survives.
ServerRestart ==
  /\ Fault
  /\ registered' = {}
  /\ queue' = [t \in Tenants |-> <<>>]
  /\ tunnel' = [w \in Tunnels |-> "free"]
  /\ slotOf' = [w \in Tunnels |-> None]
  /\ held' = [w \in Tunnels |-> None]
  /\ wire' = [w \in Tunnels |-> 0]
  /\ silent' = {}
  /\ link' = [s \in Slots |-> None]
  /\ conn' = [c \in Conns |-> IF conn[c] \in {"hello", "route", "handed", "bridged"} THEN "lost"
                              ELSE conn[c]]
  /\ UNCHANGED <<slot, given, got, answered>>

-----------------------------------------------------------------------------
TunnelStep(w) ==
  \/ Enter(w) \/ CloseTunnel(w) \/ WaitTimesOut(w) \/ CleanUp(w)
  \/ StartBridge(w) \/ Relay(w) \/ BridgeEnds(w) \/ BridgeTimesOut(w)

SlotStep(s) ==
  \/ Connect(s) \/ Rejected(s) \/ Closed(s) \/ Dial(s) \/ GatewayFails(s)
  \/ Forward(s) \/ Answered(s) \/ Retry(s)

ConnStep(c) == Hello(c) \/ Route(c)

Next ==
  \/ \E w \in Tunnels : TunnelStep(w)
  \/ \E s \in Slots : SlotStep(s) \/ Break(s) \/ Vanish(s)
  \/ \E c \in Conns : Accept(c) \/ ConnStep(c) \/ Leave(c)
  \/ \E t \in Tenants : Register(t) \/ ClientCrash(t)
  \/ ServerRestart

Spec == Init /\ [][Next]_vars

\* The runtimes poll every task that can go on, timers expire, the client's loops go
\* on, and the lock is handed to those who wait for it in their order, so none waits
\* for ever although others take it again and again.  Nothing makes a requester come,
\* or a piece arrive before a timer.
Fairness ==
  /\ \A w \in Tunnels : WF_vars(TunnelStep(w)) /\ SF_vars(Enter(w) \/ CleanUp(w))
  /\ \A s \in Slots : WF_vars(SlotStep(s))
  /\ \A c \in Conns : WF_vars(Hello(c)) /\ SF_vars(Route(c))
  /\ \A t \in Tenants : WF_vars(Register(t))

FairSpec == Spec /\ Fairness

-----------------------------------------------------------------------------
(* Properties *)

\* The queue of a tenant holds the sender of each of its tunnels that waits
\* unassigned, once, and else only those whose tunnel is about to clean up: a waiting
\* slot can be found and a dead one does not keep its place (blind_tunnel_socket,
\* remove_closed_blind_slots, route_blind_connection).
SlotsConserved ==
  \A t \in Tenants :
    /\ IsInjective(queue[t])
    /\ \A w \in ToSet(queue[t]) :
         tunnel[w] \in {"waiting", "cleanup"} /\ OwnerOf(w) = t /\ held[w] = None
    /\ \A w \in Tunnels :
         tunnel[w] = "waiting" /\ held[w] = None /\ OwnerOf(w) = t => w \in ToSet(queue[t])

\* A connection that has been handed on is in the hands of one tunnel, of the tenant
\* that it names (route_blind_connection).
HandedOnce ==
  \A c \in Conns :
    conn[c] \in {"handed", "bridged"} =>
      /\ Cardinality({w \in Tunnels : held[w] = c}) = 1
      /\ \A w \in Tunnels : held[w] = c => OwnerOf(w) = TenantOf[c]

\* When a slot has passed the whole answer on and gone, the bridge of the server does
\* not end before the requester has all of it, short of the sixty seconds and of a
\* requester that still sends (bridge_local_to_websocket, bridge_websocket_to_tcp).
WholeAnswer ==
  \A c \in answered : conn[c] = "done" => got[c] = Chunks

\* Every connection that is let in comes to an end, whatever is lost without a sign.
ConnectionsEnd == \A c \in Conns : conn[c] = "hello" ~> conn[c] \in Over

\* A slot is offered to the router again and again, unless its websocket was lost
\* without a sign while it waited: dead tunnels do not keep it out for good
\* (blind_slot_loop, remove_closed_blind_slots).
Offered(s) == \E t \in Tenants : \E w \in ToSet(queue[t]) : slotOf[w] = s /\ link[s] = w
SlotsReturn == \A s \in Slots : []<>(Offered(s) \/ slot[s] = "wedged")
=============================================================================
