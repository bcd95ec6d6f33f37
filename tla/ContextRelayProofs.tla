------------------------- MODULE ContextRelayProofs -------------------------
(***************************************************************************)
(* Theorems about ContextRelay, for any tenants, clients and requests and  *)
(* any limits.                                                             *)
(***************************************************************************)
EXTENDS ContextRelay, FiniteSetTheorems, TLAPS

-----------------------------------------------------------------------------
(* Sequences without repetition *)

Distinct(s) == \A i, j \in DOMAIN s : s[i] = s[j] => i = j

LEMMA ElementsType ==
  ASSUME NEW S, NEW s \in Seq(S)
  PROVE  Elements(s) \subseteq S
BY DEF Elements

LEMMA EmptyFacts ==
  ASSUME NEW S
  PROVE  <<>> \in Seq(S) /\ Len(<<>>) = 0 /\ Elements(<<>>) = {} /\ Distinct(<<>>)
BY DEF Elements, Distinct

LEMMA AppendFacts ==
  ASSUME NEW S, NEW s \in Seq(S), NEW x \in S
  PROVE  /\ Append(s, x) \in Seq(S)
         /\ Len(Append(s, x)) = Len(s) + 1
         /\ Elements(Append(s, x)) = Elements(s) \union {x}
         /\ Distinct(s) /\ x \notin Elements(s) => Distinct(Append(s, x))
         /\ Append(s, x) # <<>>
<1>1. /\ Append(s, x) \in Seq(S)
      /\ Len(Append(s, x)) = Len(s) + 1
      /\ Append(s, x) # <<>>
  <2>1. Len(s) \in Nat /\ Len(<<>>) = 0
    OBVIOUS
  <2>2. Append(s, x) \in Seq(S) /\ Len(Append(s, x)) = Len(s) + 1
    OBVIOUS
  <2>3. QED
    BY <2>1, <2>2
<1>3. DOMAIN s = 1..Len(s) /\ DOMAIN Append(s, x) = 1..(Len(s) + 1) /\ Len(s) \in Nat
  OBVIOUS
<1>2. \A i \in 1..(Len(s) + 1) : Append(s, x)[i] = IF i = Len(s) + 1 THEN x ELSE s[i]
  <2> TAKE i \in 1..(Len(s) + 1)
  <2>1. CASE i = Len(s) + 1
    BY <2>1, <1>3
  <2>2. CASE i # Len(s) + 1
    <3>1. i \in 1..Len(s)
      BY <2>2, <1>3
    <3>2. QED
      BY <3>1, <2>2
  <2>3. QED
    BY <2>1, <2>2
<1>4. Elements(Append(s, x)) = Elements(s) \union {x}
  <2>1. ASSUME NEW y \in Elements(s) PROVE y \in Elements(Append(s, x))
    <3>1. PICK i \in 1..Len(s) : s[i] = y
      BY <2>1, <1>3 DEF Elements
    <3>2. i \in 1..(Len(s) + 1) /\ i # Len(s) + 1
      BY <1>3
    <3>3. QED
      BY <3>1, <3>2, <1>2, <1>3 DEF Elements
  <2>2. x \in Elements(Append(s, x))
    <3>1. Len(s) + 1 \in 1..(Len(s) + 1)
      BY <1>3
    <3>2. QED
      BY <3>1, <1>2, <1>3 DEF Elements
  <2>3. ASSUME NEW y \in Elements(Append(s, x)) PROVE y \in Elements(s) \union {x}
    <3>1. PICK i \in 1..(Len(s) + 1) : Append(s, x)[i] = y
      BY <2>3, <1>3 DEF Elements
    <3>2. i # Len(s) + 1 => i \in 1..Len(s)
      BY <1>3
    <3>3. QED
      BY <3>1, <3>2, <1>2, <1>3 DEF Elements
  <2>4. QED
    BY <2>1, <2>2, <2>3
<1>5. Distinct(s) /\ x \notin Elements(s) => Distinct(Append(s, x))
  BY <1>2, <1>3 DEF Elements, Distinct
<1>6. QED
  BY <1>1, <1>4, <1>5

LEMMA TailFacts ==
  ASSUME NEW S, NEW s \in Seq(S), s # <<>>
  PROVE  /\ Head(s) \in S /\ Head(s) \in Elements(s)
         /\ Tail(s) \in Seq(S)
         /\ Len(Tail(s)) =< Len(s)
         /\ Elements(Tail(s)) \subseteq Elements(s)
         /\ Distinct(s) => Distinct(Tail(s)) /\ Head(s) \notin Elements(Tail(s))
<1>1. /\ Len(s) \in Nat \ {0}
      /\ DOMAIN s = 1..Len(s)
      /\ Head(s) = s[1]
      /\ s[1] \in S
      /\ Tail(s) \in Seq(S)
      /\ Len(Tail(s)) = Len(s) - 1
      /\ DOMAIN Tail(s) = 1..(Len(s) - 1)
  OBVIOUS
<1>2. \A i \in 1..(Len(s) - 1) : Tail(s)[i] = s[i + 1]
  OBVIOUS
<1>3. Elements(Tail(s)) \subseteq Elements(s) /\ Head(s) \in Elements(s)
  BY <1>1, <1>2 DEF Elements
<1>4. Distinct(s) => Distinct(Tail(s)) /\ Head(s) \notin Elements(Tail(s))
  BY <1>1, <1>2 DEF Elements, Distinct
<1>5. QED
  BY <1>1, <1>3, <1>4

LEMMA WithoutFacts ==
  ASSUME NEW S, NEW s \in Seq(S), NEW x
  PROVE  /\ Without(s, x) \in Seq(S)
         /\ Len(Without(s, x)) =< Len(s)
         /\ Elements(Without(s, x)) \subseteq Elements(s)
         /\ Distinct(s) => Distinct(Without(s, x)) /\ x \notin Elements(Without(s, x))
<1>1. CASE x \notin Elements(s)
  BY <1>1 DEF Without
<1>2. CASE x \in Elements(s)
  <2> DEFINE k == CHOOSE k \in DOMAIN s : s[k] = x
             w == [i \in 1..(Len(s) - 1) |-> IF i < k THEN s[i] ELSE s[i + 1]]
  <2>1. Without(s, x) = w
    BY <1>2 DEF Without
  <2>2. k \in DOMAIN s /\ s[k] = x
    BY <1>2 DEF Elements
  <2>3. Len(s) \in Nat /\ DOMAIN s = 1..Len(s) /\ \A i \in 1..Len(s) : s[i] \in S
    OBVIOUS
  <2> HIDE DEF k
  <2>4. Len(s) - 1 \in Nat /\ k \in 1..Len(s)
    BY <2>2, <2>3
  <2>5. \A i \in 1..(Len(s) - 1) : i \in 1..Len(s) /\ i + 1 \in 1..Len(s)
    BY <2>4
  <2>6. w \in Seq(S) /\ Len(w) = Len(s) - 1 /\ DOMAIN w = 1..(Len(s) - 1)
    BY <2>3, <2>4, <2>5
  <2>7. Elements(w) \subseteq Elements(s)
    BY <2>3, <2>5, <2>6 DEF Elements
  <2>8. ASSUME Distinct(s) PROVE Distinct(w) /\ x \notin Elements(w)
    <3>1. \A i \in 1..(Len(s) - 1) : \E m \in 1..Len(s) :
            /\ w[i] = s[m]
            /\ m # k
            /\ i < k => m = i
            /\ i >= k => m = i + 1
      <4> TAKE i \in 1..(Len(s) - 1)
      <4>1. CASE i < k
        BY <4>1, <2>4, <2>5
      <4>2. CASE ~(i < k)
        <5>1. w[i] = s[i + 1] /\ i + 1 # k /\ i + 1 \in 1..Len(s)
          BY <4>2, <2>4, <2>5
        <5>2. QED
          BY <4>2, <5>1
      <4>3. QED
        BY <4>1, <4>2
    <3> HIDE DEF w
    <3>2. \A m \in 1..Len(s) : s[m] = x => m = k
      BY <2>8, <2>2, <2>3 DEF Distinct
    <3>3. \A l, m \in 1..Len(s) : s[l] = s[m] => l = m
      BY <2>8, <2>3 DEF Distinct
    <3>4. x \notin Elements(w)
      BY <3>1, <3>2, <2>6 DEF Elements
    <3>5. ASSUME NEW i \in 1..(Len(s) - 1), NEW j \in 1..(Len(s) - 1), w[i] = w[j]
          PROVE  i = j
      BY <3>1, <3>3, <3>5, <2>4
    <3>6. QED
      BY <3>4, <3>5, <2>6 DEF Distinct
  <2> HIDE DEF w
  <2>9. Len(w) =< Len(s)
    BY <2>3, <2>6
  <2>10. QED
    BY <2>1, <2>6, <2>7, <2>8, <2>9
<1>3. QED
  BY <1>1, <1>2

-----------------------------------------------------------------------------
(* Type correctness *)

\* Every poll that runs has a client, only one that is about to reply holds a job,
\* and who waits on a tenant's Notify is a waiting poll of that tenant.
Links ==
  /\ \A h \in Polls : pollPc[h] # "free" => poller[h] \in Clients
  /\ \A h \in Polls : popped[h] # None => pollPc[h] = "reply"
  /\ \A t \in Tenants :
       /\ Distinct(waiters[t])
       /\ \A h \in Elements(waiters[t]) : pollPc[h] = "waiting" /\ PollTenant(h) = t

TypeInv == TypeOK /\ Links

LEMMA InitType == Init => TypeInv
<1> SUFFICES ASSUME Init PROVE TypeInv
  OBVIOUS
<1>1. Cardinality({}) = 0
  BY FS_EmptySet
<1>2. TypeOK
  BY <1>1, RelayAssumption
     DEF RelayAssumption, Init, TypeOK, ImagePC, Content, PollPC, ClientPC
<1>3. Links
  BY EmptyFacts DEF Init, Links, Distinct, Elements
<1>4. QED
  BY <1>2, <1>3 DEF TypeInv

LEMMA LinksUnchanged == Links /\ UNCHANGED <<pollVars, waiters>> => Links'
BY DEF Links, pollVars, PollTenant

LEMMA CounterType ==
  ASSUME TypeOK, Fault \/ Cancel \/ UNCHANGED counters
  PROVE  faults' \in 0..MaxFaults /\ cancels' \in 0..MaxCancels
BY RelayAssumption DEF RelayAssumption, TypeOK, Fault, Cancel, counters

LEMMA RegistrationType ==
  ASSUME TypeInv, NEW c \in Clients,
         Register(c) \/ RegisterRefused(c) \/ PersistFails(c) \/ RegisterCut(c)
  PROVE  TypeInv'
<1>1. TypeOK /\ Links /\ TenantOf[c] \in Tenants
  BY RelayAssumption DEF RelayAssumption, TypeInv
<1>2. UNCHANGED <<mailVars, wakeVars, imageVars, pollVars, conn, job, fetched>>
  BY DEF Register, RegisterRefused, PersistFails, RegisterCut
<1>3. Fault \/ Cancel \/ UNCHANGED counters
  BY DEF Register, RegisterRefused, PersistFails, RegisterCut
<1>4. clientPc' \in [Clients -> ClientPC]
  BY <1>1 DEF Register, RegisterRefused, PersistFails, RegisterCut, ToClient, TypeOK, ClientPC
<1>5. /\ registered' \subseteq Tenants
      /\ store' \in {store, registered'} /\ forgotten' \subseteq Tenants
      /\ store' \ forgotten' \subseteq registered'
      /\ \/ registered' = registered
         \/ HasRoom /\ registered' = registered \union {TenantOf[c]}
  BY <1>1
     DEF Register, RegisterRefused, PersistFails, RegisterCut, tenantVars, TypeOK
<1>6. IsFiniteSet(registered) /\ Cardinality(registered) \in Nat
  BY <1>1, FS_Subset, FS_CardinalityType, RelayAssumption DEF RelayAssumption, TypeOK
<1>7. Cardinality(registered') =< MaxTenants
  <2>1. CASE registered' = registered
    BY <2>1, <1>1 DEF TypeOK
  <2>2. CASE HasRoom /\ registered' = registered \union {TenantOf[c]}
    <3>1. Cardinality(registered') =< Cardinality(registered) + 1
      BY <2>2, <1>6, FS_AddElement
    <3>2. Cardinality(registered) < MaxTenants /\ MaxTenants \in Nat
      BY <2>2, RelayAssumption DEF HasRoom, RelayAssumption
    <3>3. Cardinality(registered') \in Nat
      BY <2>2, <1>6, FS_AddElement, FS_CardinalityType
    <3>4. QED
      BY <3>1, <3>2, <3>3, <1>6
  <2>3. QED
    BY <1>5, <2>1, <2>2
<1>8. TypeOK'
  BY <1>1, <1>2, <1>3, <1>4, <1>5, <1>7, CounterType
     DEF TypeOK, mailVars, wakeVars, imageVars, pollVars
<1>9. Links'
  BY <1>1, <1>2, LinksUnchanged DEF wakeVars
<1>10. QED
  BY <1>8, <1>9 DEF TypeInv

\* Waking a poll that waits, or leaving a permit.
LEMMA NotifyOneType ==
  ASSUME TypeInv, NEW t \in Tenants, NotifyOne(t, waiters[t]),
         UNCHANGED <<round, poller, popped>>
  PROVE  /\ permit' \subseteq Tenants
         /\ waiters' \in [Tenants -> Seq(Polls)]
         /\ pollPc' \in [Polls -> PollPC]
         /\ Links'
<1>1. TypeOK /\ Links
  BY DEF TypeInv
<1>2. CASE waiters[t] = <<>>
  <2>1. permit' \subseteq Tenants /\ pollPc' = pollPc /\ waiters' = waiters
    BY <1>1, <1>2 DEF NotifyOne, TypeOK
  <2>2. QED
    BY <2>1, <1>1, LinksUnchanged DEF TypeOK, pollVars
<1>3. CASE waiters[t] # <<>>
  <2> DEFINE g == Head(waiters[t])
  <2>1. /\ permit' = permit
        /\ waiters' = [waiters EXCEPT ![t] = Tail(waiters[t])]
        /\ pollPc' = [pollPc EXCEPT ![g] = "woken"]
    BY <1>3 DEF NotifyOne
  <2>2. waiters[t] \in Seq(Polls)
    BY <1>1 DEF TypeOK
  <2>3. /\ g \in Polls /\ g \in Elements(waiters[t])
        /\ Tail(waiters[t]) \in Seq(Polls)
        /\ Elements(Tail(waiters[t])) \subseteq Elements(waiters[t])
        /\ Distinct(Tail(waiters[t]))
        /\ g \notin Elements(Tail(waiters[t]))
    BY <2>2, <1>1, <1>3, TailFacts DEF Links
  <2> HIDE DEF g
  <2>4. pollPc[g] = "waiting" /\ PollTenant(g) = t
    BY <2>3, <1>1 DEF Links
  <2>5. poller[g] \in Clients /\ popped[g] = None
    BY <2>3, <2>4, <1>1 DEF Links
  <2>6. /\ waiters' \in [Tenants -> Seq(Polls)]
        /\ waiters'[t] = Tail(waiters[t])
        /\ \A u \in Tenants \ {t} : waiters'[u] = waiters[u]
    BY <2>1, <2>3, <1>1 DEF TypeOK
  <2>7. /\ pollPc' \in [Polls -> PollPC]
        /\ pollPc'[g] = "woken"
        /\ \A h \in Polls \ {g} : pollPc'[h] = pollPc[h]
    BY <2>1, <2>3, <1>1 DEF TypeOK, PollPC
  <2>8. \A u \in Tenants \ {t} : g \notin Elements(waiters[u])
    BY <2>4, <1>1 DEF Links
  <2>9. \A u \in Tenants : Elements(waiters[u]) \subseteq Polls
    BY ElementsType, <1>1 DEF TypeOK
  <2>10. ASSUME NEW u \in Tenants
         PROVE  /\ Distinct(waiters'[u])
                /\ \A h \in Elements(waiters'[u]) :
                     h \in Elements(waiters[u]) /\ h # g
    <3>1. CASE u = t
      BY <3>1, <2>3, <2>6
    <3>2. CASE u # t
      BY <3>2, <2>6, <2>8, <1>1 DEF Links
    <3>3. QED
      BY <3>1, <3>2
  <2>11. \A h \in Polls : pollPc'[h] # "free" => poller'[h] \in Clients
    BY <2>5, <2>7, <1>1 DEF Links
  <2>12. \A h \in Polls : popped'[h] # None => pollPc'[h] = "reply"
    BY <2>5, <2>7, <1>1 DEF Links
  <2>13. ASSUME NEW u \in Tenants, NEW h \in Elements(waiters'[u])
         PROVE  pollPc'[h] = "waiting" /\ PollTenant(h)' = u
    BY <2>7, <2>9, <2>10, <1>1 DEF Links, PollTenant
  <2>14. Links'
    BY <2>10, <2>11, <2>12, <2>13 DEF Links
  <2>15. QED
    BY <2>1, <2>6, <2>7, <2>14, <1>1 DEF TypeOK
<1>4. QED
  BY <1>2, <1>3

LEMMA ImageType ==
  ASSUME TypeInv, NEW r \in Requests,
         Refuse(r) \/ Enqueue(r) \/ ImageStep(r) \/ HangUp(r)
  PROVE  TypeInv'
<1> DEFINE t == TenantOf[r]
<1>1. TypeOK /\ Links /\ t \in Tenants
  BY RelayAssumption DEF RelayAssumption, TypeInv
<1>2. image' \in [Requests -> ImagePC]
  BY <1>1
     DEF Refuse, Enqueue, ImageStep, HangUp, Notify, StopsWaiting, Forget, Unqueue, Verdict,
         ToImage, TypeOK, ImagePC
<1>3. IsFiniteSet(inflight)
  BY <1>1, FS_Subset, RelayAssumption DEF RelayAssumption, TypeOK
<1>4. /\ inflight' \subseteq Requests /\ Cardinality(inflight') =< MaxInflight
      /\ queue' \in [Tenants -> Seq(Requests)] /\ \A u \in Tenants : Len(queue'[u]) =< MaxQueued
  <2>1. queue[t] \in Seq(Requests) /\ Len(queue[t]) \in Nat
    BY <1>1 DEF TypeOK
  <2>2. CASE Enqueue(r)
    <3>1. Cardinality(inflight') =< MaxInflight
      <4>1. Cardinality(inflight) \in Nat /\ MaxInflight \in Nat
        BY <1>3, FS_CardinalityType, RelayAssumption DEF RelayAssumption
      <4>2. Cardinality(inflight) < MaxInflight
        BY <2>2 DEF Enqueue, Admissible
      <4>3. Cardinality(inflight') \in {Cardinality(inflight), Cardinality(inflight) + 1}
        BY <2>2, <1>3, FS_AddElement DEF Enqueue
      <4>4. QED
        BY <4>1, <4>2, <4>3
    <3>2. Append(queue[t], r) \in Seq(Requests) /\ Len(Append(queue[t], r)) = Len(queue[t]) + 1
      BY <2>1, AppendFacts
    <3>3. Len(queue[t]) + 1 =< MaxQueued
      BY <2>1, <2>2, RelayAssumption DEF Enqueue, Admissible, RelayAssumption
    <3>4. queue' = [queue EXCEPT ![t] = Append(queue[t], r)]
      BY <2>2 DEF Enqueue
    <3>5. inflight' \subseteq Requests
      BY <2>2, <1>1 DEF Enqueue, TypeOK
    <3>6. QED
      BY <3>1, <3>2, <3>3, <3>4, <3>5, <1>1 DEF TypeOK
  <2>3. CASE Forget(r)
    <3>1. inflight' \in SUBSET inflight /\ UNCHANGED queue
      BY <2>3 DEF Forget
    <3>2. Cardinality(inflight') =< Cardinality(inflight)
      BY <3>1, <1>3, FS_Subset
    <3>3. IsFiniteSet(inflight')
      BY <3>1, <1>3, FS_Subset
    <3>4. /\ Cardinality(inflight) \in Nat /\ Cardinality(inflight') \in Nat
          /\ MaxInflight \in Nat
      BY <1>3, <3>3, FS_CardinalityType, RelayAssumption DEF RelayAssumption
    <3>5. QED
      BY <3>1, <3>2, <3>4, <1>1 DEF TypeOK
  <2>4. CASE Unqueue(r)
    <3>1. Without(queue[t], r) \in Seq(Requests) /\ Len(Without(queue[t], r)) =< Len(queue[t])
      BY <2>1, WithoutFacts
    <3>2. Len(Without(queue[t], r)) =< MaxQueued
      BY <3>1, <2>1, <1>1, RelayAssumption DEF TypeOK, RelayAssumption
    <3>3. queue' = [queue EXCEPT ![t] = Without(queue[t], r)] /\ UNCHANGED inflight
      BY <2>4 DEF Unqueue
    <3>4. QED
      BY <3>1, <3>2, <3>3, <1>1 DEF TypeOK
  <2>5. CASE Refuse(r) \/ Notify(r) \/ StopsWaiting(r) \/ HangUp(r)
    BY <2>5, <1>1 DEF Refuse, Notify, StopsWaiting, HangUp, mailVars, TypeOK
  <2>6. QED
    BY <2>2, <2>3, <2>4, <2>5 DEF ImageStep
<1>5. /\ permit' \subseteq Tenants
      /\ waiters' \in [Tenants -> Seq(Polls)]
      /\ pollPc' \in [Polls -> PollPC]
      /\ Links'
  <2>1. CASE Notify(r)
    BY <2>1, <1>1, NotifyOneType DEF Notify
  <2>2. CASE Refuse(r) \/ Enqueue(r) \/ StopsWaiting(r) \/ Forget(r) \/ Unqueue(r) \/ HangUp(r)
    <3>1. UNCHANGED <<wakeVars, pollVars>>
      BY <2>2 DEF Refuse, Enqueue, StopsWaiting, Forget, Unqueue, HangUp
    <3>2. QED
      BY <3>1, <1>1, LinksUnchanged DEF wakeVars, pollVars, TypeOK
  <2>3. QED
    BY <2>1, <2>2 DEF ImageStep
<1>6. /\ UNCHANGED <<tenantVars, answer, round, poller, popped, clientVars>>
      /\ Cancel \/ UNCHANGED counters
  BY DEF Refuse, Enqueue, ImageStep, HangUp, Notify, StopsWaiting, Forget, Unqueue, pollVars
<1>7. TypeOK'
  BY <1>1, <1>2, <1>4, <1>5, <1>6, CounterType DEF TypeOK, tenantVars, clientVars
<1>8. QED
  BY <1>5, <1>7 DEF TypeInv

\* A poll that goes on by itself and waits for nothing.
LEMMA PollMoves ==
  ASSUME TypeInv, NEW h \in Polls,
         \A g \in Polls \ {h} : /\ pollPc'[g] = pollPc[g]
                                /\ poller'[g] = poller[g]
                                /\ popped'[g] = popped[g],
         pollPc'[h] # "free" => poller'[h] \in Clients,
         popped'[h] # None => pollPc'[h] = "reply",
         \A t \in Tenants : /\ Distinct(waiters'[t])
                            /\ Elements(waiters'[t]) \subseteq Elements(waiters[t]) \ {h}
  PROVE  Links'
<1>1. TypeOK /\ Links
  BY DEF TypeInv
<1>2. \A t \in Tenants : Elements(waiters[t]) \subseteq Polls
  BY <1>1, ElementsType DEF TypeOK
<1>3. \A g \in Polls : pollPc'[g] # "free" => poller'[g] \in Clients
  BY <1>1 DEF Links
<1>4. \A g \in Polls : popped'[g] # None => pollPc'[g] = "reply"
  BY <1>1 DEF Links
<1>5. ASSUME NEW t \in Tenants, NEW g \in Elements(waiters'[t])
      PROVE  pollPc'[g] = "waiting" /\ PollTenant(g)' = t
  BY <1>1, <1>2 DEF Links, PollTenant
<1>6. QED
  BY <1>3, <1>4, <1>5 DEF Links

\* Who does not wait is in no queue of waiters.
LEMMA NotWaiting ==
  ASSUME TypeInv, NEW h \in Polls, pollPc[h] # "waiting", UNCHANGED waiters
  PROVE  \A t \in Tenants : /\ Distinct(waiters'[t])
                            /\ Elements(waiters'[t]) \subseteq Elements(waiters[t]) \ {h}
BY DEF TypeInv, Links

\* A waiter that is taken out.
LEMMA StopsToWait ==
  ASSUME TypeInv, NEW h \in Polls, pollPc[h] = "waiting",
         waiters' = [waiters EXCEPT ![PollTenant(h)] = Without(@, h)]
  PROVE  /\ waiters' \in [Tenants -> Seq(Polls)]
         /\ \A t \in Tenants : /\ Distinct(waiters'[t])
                               /\ Elements(waiters'[t]) \subseteq Elements(waiters[t]) \ {h}
<1>1. TypeOK /\ Links
  BY DEF TypeInv
<1>2. PollTenant(h) \in Tenants
  BY <1>1, RelayAssumption DEF Links, PollTenant, RelayAssumption
<1> DEFINE t == PollTenant(h)
<1>3. waiters[t] \in Seq(Polls) /\ Distinct(waiters[t])
  BY <1>1, <1>2 DEF TypeOK, Links
<1>4. /\ Without(waiters[t], h) \in Seq(Polls)
      /\ Distinct(Without(waiters[t], h))
      /\ Elements(Without(waiters[t], h)) \subseteq Elements(waiters[t])
      /\ h \notin Elements(Without(waiters[t], h))
  BY <1>3, WithoutFacts
<1>5. /\ waiters' \in [Tenants -> Seq(Polls)]
      /\ waiters'[t] = Without(waiters[t], h)
      /\ \A u \in Tenants \ {t} : waiters'[u] = waiters[u]
  BY <1>1, <1>2, <1>4 DEF TypeOK
<1>6. \A u \in Tenants \ {t} : Distinct(waiters[u]) /\ h \notin Elements(waiters[u])
  BY <1>1 DEF Links
<1> HIDE DEF t
<1>7. ASSUME NEW u \in Tenants
      PROVE  /\ Distinct(waiters'[u])
             /\ Elements(waiters'[u]) \subseteq Elements(waiters[u]) \ {h}
  <2>1. CASE u = t
    BY <2>1, <1>4, <1>5
  <2>2. CASE u # t
    BY <2>2, <1>5, <1>6
  <2>3. QED
    BY <2>1, <2>2
<1>8. QED
  BY <1>5, <1>7

\* What a poll leaves alone, and where it moves.
LEMMA PollFrame ==
  ASSUME TypeInv, NEW h \in Polls, NEW l \in PollPC, ToPoll(h, l)
  PROVE  /\ pollPc' \in [Polls -> PollPC]
         /\ pollPc'[h] = l
         /\ \A g \in Polls \ {h} : pollPc'[g] = pollPc[g]
BY DEF TypeInv, TypeOK, ToPoll

LEMMA FreeFrame ==
  ASSUME TypeInv, NEW h \in Polls, Free(h)
  PROVE  /\ round' \in [Polls -> 1..2]
         /\ poller' \in [Polls -> Clients \union {None}]
         /\ popped' \in [Polls -> Requests \union {None}]
         /\ popped'[h] = None
         /\ \A g \in Polls \ {h} : poller'[g] = poller[g] /\ popped'[g] = popped[g]
BY DEF TypeInv, TypeOK, Free

LEMMA RoundFrame ==
  ASSUME TypeInv, NEW h \in Polls, NextRound(h)
  PROVE  /\ pollPc' \in [Polls -> PollPC]
         /\ pollPc'[h] \in {"pop", "reply"}
         /\ \A g \in Polls \ {h} : pollPc'[g] = pollPc[g]
         /\ round' \in [Polls -> 1..2]
<1>1. \E l \in {"pop", "reply"} : ToPoll(h, l)
  BY DEF NextRound
<1>2. round' \in [Polls -> 1..2]
  <2>1. round \in [Polls -> 1..2]
    BY DEF TypeInv, TypeOK
  <2>2. QED
    BY <2>1 DEF NextRound
<1>3. QED
  BY <1>1, <1>2, PollFrame DEF PollPC

LEMMA PopType ==
  ASSUME TypeInv, NEW h \in Polls, Pop(h)
  PROVE  TypeInv'
<1> DEFINE t == PollTenant(h)
           q == queue[PollTenant(h)]
<1>1. TypeOK /\ Links
  BY DEF TypeInv
<1>2. poller[h] \in Clients /\ t \in Tenants
  BY <1>1, RelayAssumption DEF Pop, Links, PollTenant, RelayAssumption
<1>3. q \in Seq(Requests) /\ q # <<>> /\ Len(q) =< MaxQueued
  BY <1>1, <1>2 DEF TypeOK, Pop
<1>4. Head(q) \in Requests /\ Tail(q) \in Seq(Requests) /\ Len(Tail(q)) =< MaxQueued
  <2>1. Head(q) \in Requests /\ Tail(q) \in Seq(Requests) /\ Len(Tail(q)) =< Len(q)
    BY <1>3, TailFacts
  <2>2. Len(q) \in Nat /\ Len(Tail(q)) \in Nat /\ MaxQueued \in Nat
    BY <1>3, <2>1, RelayAssumption DEF RelayAssumption
  <2>3. QED
    BY <1>3, <2>1, <2>2
<1>5. /\ popped' = [popped EXCEPT ![h] = Head(q)]
      /\ queue' = [queue EXCEPT ![t] = Tail(q)]
      /\ ToPoll(h, "reply")
      /\ UNCHANGED <<tenantVars, inflight, wakeVars, imageVars, round, poller, clientVars,
                     counters>>
  BY DEF Pop
<1> HIDE DEF t, q
<1>6. /\ pollPc' \in [Polls -> PollPC]
      /\ pollPc'[h] = "reply"
      /\ \A g \in Polls \ {h} : pollPc'[g] = pollPc[g]
  BY <1>5, PollFrame DEF PollPC
<1>7. /\ queue' \in [Tenants -> Seq(Requests)]
      /\ \A u \in Tenants : Len(queue'[u]) =< MaxQueued
  BY <1>1, <1>4, <1>5 DEF TypeOK
<1>8. /\ popped' \in [Polls -> Requests \union {None}]
      /\ \A g \in Polls \ {h} : popped'[g] = popped[g]
  BY <1>1, <1>4, <1>5 DEF TypeOK
<1>9. TypeOK'
  BY <1>1, <1>5, <1>6, <1>7, <1>8
     DEF TypeOK, tenantVars, wakeVars, imageVars, clientVars, counters
<1>10. pollPc[h] # "waiting" /\ UNCHANGED waiters
  BY <1>5 DEF Pop, wakeVars
<1>11. Links'
  BY <1>2, <1>5, <1>6, <1>8, <1>10, NotWaiting, PollMoves
<1>12. QED
  BY <1>9, <1>11 DEF TypeInv

LEMMA ArmType ==
  ASSUME TypeInv, NEW h \in Polls, Arm(h)
  PROVE  TypeInv'
<1> DEFINE t == PollTenant(h)
<1>1. TypeOK /\ Links
  BY DEF TypeInv
<1>2. poller[h] \in Clients /\ t \in Tenants /\ popped[h] = None
  BY <1>1, RelayAssumption DEF Arm, Links, PollTenant, RelayAssumption
<1>3. UNCHANGED <<tenantVars, mailVars, imageVars, round, poller, popped, clientVars, counters>>
  BY DEF Arm
<1>4. CASE t \in permit
  <2>1. permit' = permit \ {t} /\ waiters' = waiters /\ ToPoll(h, "woken")
    BY <1>4 DEF Arm
  <2>2. /\ pollPc' \in [Polls -> PollPC]
        /\ pollPc'[h] = "woken"
        /\ \A g \in Polls \ {h} : pollPc'[g] = pollPc[g]
    BY <2>1, PollFrame DEF PollPC
  <2>3. TypeOK'
    BY <1>1, <1>3, <2>1, <2>2
       DEF TypeOK, tenantVars, mailVars, imageVars, clientVars, counters
  <2>4. Links'
    BY <1>2, <1>3, <2>1, <2>2, NotWaiting, PollMoves DEF Arm
  <2>5. QED
    BY <2>3, <2>4 DEF TypeInv
<1>5. CASE t \notin permit
  <2>1. /\ permit' = permit
        /\ waiters' = [waiters EXCEPT ![t] = Append(waiters[t], h)]
        /\ ToPoll(h, "waiting")
    BY <1>5 DEF Arm
  <2>2. /\ pollPc' \in [Polls -> PollPC]
        /\ pollPc'[h] = "waiting"
        /\ \A g \in Polls \ {h} : pollPc'[g] = pollPc[g]
    BY <2>1, PollFrame DEF PollPC
  <2>3. \A u \in Tenants : h \notin Elements(waiters[u])
    BY <1>1 DEF Links, Arm
  <2>4. waiters[t] \in Seq(Polls) /\ Distinct(waiters[t])
    BY <1>1, <1>2 DEF TypeOK, Links
  <2>5. /\ Append(waiters[t], h) \in Seq(Polls)
        /\ Elements(Append(waiters[t], h)) = Elements(waiters[t]) \union {h}
        /\ Distinct(Append(waiters[t], h))
    BY <1>2, <2>3, <2>4, AppendFacts
  <2>6. t = PollTenant(h) /\ PollTenant(h)' = PollTenant(h)
    BY <1>3 DEF PollTenant
  <2> HIDE DEF t
  <2>7. /\ waiters' \in [Tenants -> Seq(Polls)]
        /\ waiters'[t] = Append(waiters[t], h)
        /\ \A u \in Tenants \ {t} : waiters'[u] = waiters[u]
    BY <1>1, <1>2, <2>1, <2>5 DEF TypeOK
  <2>8. TypeOK'
    BY <1>1, <1>3, <2>1, <2>2, <2>7
       DEF TypeOK, tenantVars, mailVars, imageVars, clientVars, counters
  <2>9. ASSUME NEW u \in Tenants
        PROVE  /\ Distinct(waiters'[u])
               /\ \A g \in Elements(waiters'[u]) : pollPc'[g] = "waiting" /\ PollTenant(g)' = u
    <3>1. Elements(waiters[u]) \subseteq Polls
      BY <1>1, ElementsType DEF TypeOK
    <3>2. \A g \in Elements(waiters[u]) : pollPc'[g] = "waiting" /\ PollTenant(g)' = u
      BY <3>1, <1>1, <1>3, <2>2, <2>3 DEF Links, PollTenant
    <3>3. CASE u = t
      BY <3>2, <3>3, <2>2, <2>5, <2>6, <2>7
    <3>4. CASE u # t
      BY <3>2, <3>4, <1>1, <2>7 DEF Links
    <3>5. QED
      BY <3>3, <3>4
  <2>10. /\ \A g \in Polls : pollPc'[g] # "free" => poller'[g] \in Clients
         /\ \A g \in Polls : popped'[g] # None => pollPc'[g] = "reply"
    BY <1>1, <1>2, <1>3, <2>2 DEF Links
  <2>11. Links'
    BY <2>9, <2>10 DEF Links
  <2>12. QED
    BY <2>8, <2>11 DEF TypeInv
<1>6. QED
  BY <1>4, <1>5

LEMMA MoveType ==
  ASSUME TypeInv, NEW h \in Polls, PopsNothing(h) \/ Wakes(h) \/ PollTimesOut(h)
  PROVE  TypeInv'
<1>1. TypeOK /\ Links
  BY DEF TypeInv
<1>2. /\ poller[h] \in Clients /\ popped[h] = None
      /\ UNCHANGED <<tenantVars, mailVars, permit, imageVars, poller, popped, clientVars, counters>>
  BY <1>1 DEF PopsNothing, Wakes, PollTimesOut, Links, wakeVars
<1>3. /\ pollPc' \in [Polls -> PollPC]
      /\ \A g \in Polls \ {h} : pollPc'[g] = pollPc[g]
      /\ round' \in [Polls -> 1..2]
  <2>1. CASE PopsNothing(h)
    BY <1>1, <2>1, PollFrame DEF PopsNothing, PollPC, TypeOK
  <2>2. CASE Wakes(h) \/ PollTimesOut(h)
    BY <2>2, RoundFrame DEF Wakes, PollTimesOut
  <2>3. QED
    BY <2>1, <2>2
<1>4. /\ waiters' \in [Tenants -> Seq(Polls)]
      /\ \A t \in Tenants : /\ Distinct(waiters'[t])
                            /\ Elements(waiters'[t]) \subseteq Elements(waiters[t]) \ {h}
  <2>1. CASE PopsNothing(h) \/ Wakes(h)
    BY <1>1, <2>1, NotWaiting DEF PopsNothing, Wakes, wakeVars, TypeOK
  <2>2. CASE PollTimesOut(h)
    BY <2>2, StopsToWait DEF PollTimesOut
  <2>3. QED
    BY <2>1, <2>2
<1>5. TypeOK'
  BY <1>1, <1>2, <1>3, <1>4
     DEF TypeOK, tenantVars, mailVars, imageVars, clientVars, counters
<1>6. Links'
  BY <1>2, <1>3, <1>4, PollMoves
<1>7. QED
  BY <1>5, <1>6 DEF TypeInv

LEMMA ReplyType ==
  ASSUME TypeInv, NEW h \in Polls, Reply(h) \/ ReplyLost(h)
  PROVE  TypeInv'
<1>1. TypeOK /\ Links
  BY DEF TypeInv
<1>2. /\ Free(h) /\ ToPoll(h, "free") /\ pollPc[h] = "reply"
      /\ UNCHANGED <<tenantVars, mailVars, wakeVars, imageVars, fetched, counters>>
  BY DEF Reply, ReplyLost, clientVars
<1>3. /\ pollPc' \in [Polls -> PollPC]
      /\ pollPc'[h] = "free"
      /\ \A g \in Polls \ {h} : pollPc'[g] = pollPc[g]
  BY <1>2, PollFrame DEF PollPC
<1>4. /\ clientPc' \in [Clients -> ClientPC]
      /\ conn' \in [Clients -> Polls \union {None}]
      /\ job' \in [Clients -> Requests \union {None}]
  BY <1>1 DEF Reply, ReplyLost, ToClient, TypeOK, ClientPC, clientVars
<1>5. TypeOK'
  BY <1>1, <1>2, <1>3, <1>4, FreeFrame
     DEF TypeOK, tenantVars, mailVars, wakeVars, imageVars, counters
<1>6. pollPc[h] # "waiting" /\ UNCHANGED waiters
  BY <1>2 DEF wakeVars
<1>7. Links'
  BY <1>2, <1>3, <1>6, FreeFrame, NotWaiting, PollMoves
<1>8. QED
  BY <1>5, <1>7 DEF TypeInv

LEMMA DropPollType ==
  ASSUME TypeInv, NEW h \in Polls, DropPoll(h)
  PROVE  TypeInv'
<1> DEFINE t == PollTenant(h)
           ws == Without(waiters[t], h)
<1>1. TypeOK /\ Links
  BY DEF TypeInv
<1>2. t \in Tenants
  BY <1>1, RelayAssumption DEF DropPoll, Links, PollTenant, RelayAssumption
<1>3. Free(h) /\ UNCHANGED <<tenantVars, mailVars, imageVars, clientVars, counters>>
  BY DEF DropPoll
<1>4. waiters[t] \in Seq(Polls) /\ Distinct(waiters[t])
  BY <1>1, <1>2 DEF TypeOK, Links
<1>5. /\ ws \in Seq(Polls) /\ Distinct(ws)
      /\ Elements(ws) \subseteq Elements(waiters[t]) \ {h}
  BY <1>4, WithoutFacts
<1>6. \A u \in Tenants \ {t} : Distinct(waiters[u]) /\ h \notin Elements(waiters[u])
  BY <1>1 DEF Links
<1>7. CASE pollPc[h] = "woken" /\ ws # <<>>
  <2> DEFINE g == Head(ws)
  <2>1. /\ permit' = permit
        /\ waiters' = [waiters EXCEPT ![t] = Tail(ws)]
        /\ pollPc' = [pollPc EXCEPT ![h] = "free", ![g] = "woken"]
    BY <1>7 DEF DropPoll
  <2>2. /\ g \in Polls /\ g \in Elements(ws)
        /\ Tail(ws) \in Seq(Polls)
        /\ Elements(Tail(ws)) \subseteq Elements(ws) \ {g}
        /\ Distinct(Tail(ws))
    BY <1>5, <1>7, TailFacts
  <2>3. g # h /\ pollPc[g] = "waiting" /\ PollTenant(g) = t
    BY <1>1, <1>2, <1>5, <2>2 DEF Links
  <2>4. poller[g] \in Clients /\ popped[g] = None
    BY <1>1, <2>2, <2>3 DEF Links
  <2> HIDE DEF g, ws
  <2>5. /\ pollPc' \in [Polls -> PollPC]
        /\ pollPc'[h] = "free" /\ pollPc'[g] = "woken"
        /\ \A k \in Polls \ {h, g} : pollPc'[k] = pollPc[k]
    BY <1>1, <2>1, <2>2, <2>3 DEF TypeOK, PollPC
  <2>6. /\ waiters' \in [Tenants -> Seq(Polls)]
        /\ waiters'[t] = Tail(ws)
        /\ \A u \in Tenants \ {t} : waiters'[u] = waiters[u]
    BY <1>1, <1>2, <2>1, <2>2 DEF TypeOK
  <2>7. TypeOK'
    BY <1>1, <1>3, <2>1, <2>5, <2>6, FreeFrame
       DEF TypeOK, tenantVars, mailVars, imageVars, clientVars, counters
  <2>8. /\ popped'[h] = None
        /\ \A k \in Polls \ {h} : poller'[k] = poller[k] /\ popped'[k] = popped[k]
    BY <1>3, FreeFrame
  <2>9. /\ \A k \in Polls : pollPc'[k] # "free" => poller'[k] \in Clients
        /\ \A k \in Polls : popped'[k] # None => pollPc'[k] = "reply"
    BY <1>1, <2>3, <2>4, <2>5, <2>8 DEF Links
  <2>10. ASSUME NEW u \in Tenants
         PROVE  /\ Distinct(waiters'[u])
                /\ \A k \in Elements(waiters'[u]) : pollPc'[k] = "waiting" /\ PollTenant(k)' = u
    <3>1. /\ Distinct(waiters'[u])
          /\ \A k \in Elements(waiters'[u]) : k \in Elements(waiters[u]) \ {h, g}
      <4>1. CASE u = t
        BY <4>1, <1>5, <2>2, <2>6
      <4>2. CASE u # t
        <5>1. g \notin Elements(waiters[u])
          BY <4>2, <1>1, <2>3 DEF Links
        <5>2. QED
          BY <4>2, <5>1, <1>6, <2>6
      <4>3. QED
        BY <4>1, <4>2
    <3>2. Elements(waiters[u]) \subseteq Polls
      BY <1>1, ElementsType DEF TypeOK
    <3>3. QED
      BY <3>1, <3>2, <1>1, <2>5, <2>8 DEF Links, PollTenant
  <2>11. QED
    BY <2>7, <2>9, <2>10 DEF TypeInv, Links
<1>8. CASE ~(pollPc[h] = "woken" /\ ws # <<>>)
  <2>1. /\ permit' = IF pollPc[h] = "woken" THEN permit \union {t} ELSE permit
        /\ waiters' = [waiters EXCEPT ![t] = ws]
        /\ ToPoll(h, "free")
    BY <1>8 DEF DropPoll
  <2>2. /\ pollPc' \in [Polls -> PollPC]
        /\ pollPc'[h] = "free"
        /\ \A g \in Polls \ {h} : pollPc'[g] = pollPc[g]
    BY <2>1, PollFrame DEF PollPC
  <2> HIDE DEF ws
  <2>3. /\ waiters' \in [Tenants -> Seq(Polls)]
        /\ waiters'[t] = ws
        /\ \A u \in Tenants \ {t} : waiters'[u] = waiters[u]
    BY <1>1, <1>2, <1>5, <2>1 DEF TypeOK
  <2>4. permit' \subseteq Tenants
    BY <1>1, <1>2, <2>1 DEF TypeOK
  <2>5. TypeOK'
    BY <1>1, <1>3, <2>2, <2>3, <2>4, FreeFrame
       DEF TypeOK, tenantVars, mailVars, imageVars, clientVars, counters
  <2>6. ASSUME NEW u \in Tenants
        PROVE  /\ Distinct(waiters'[u])
               /\ Elements(waiters'[u]) \subseteq Elements(waiters[u]) \ {h}
    <3>1. CASE u = t
      BY <3>1, <1>5, <2>3
    <3>2. CASE u # t
      BY <3>2, <1>6, <2>3
    <3>3. QED
      BY <3>1, <3>2
  <2>7. Links'
    BY <1>3, <2>2, <2>6, FreeFrame, PollMoves
  <2>8. QED
    BY <2>5, <2>7 DEF TypeInv
<1>9. QED
  BY <1>7, <1>8

LEMMA PollType == ASSUME TypeInv, NEW h \in Polls, PollStep(h) PROVE TypeInv'
BY PopType, MoveType, ArmType, ReplyType, DropPollType DEF PollStep

LEMMA OpenPollType ==
  ASSUME TypeInv, NEW c \in Clients, NEW h \in Polls, OpenPoll(c, h)
  PROVE  TypeInv'
<1>1. TypeOK /\ Links
  BY DEF TypeInv
<1>2. /\ ToPoll(h, "pop")
      /\ pollPc[h] = "free"
      /\ poller' = [poller EXCEPT ![h] = c]
      /\ conn' = [conn EXCEPT ![c] = h]
      /\ ToClient(c, "polling")
      /\ UNCHANGED <<tenantVars, mailVars, wakeVars, imageVars, round, popped, job, fetched, counters>>
  BY DEF OpenPoll
<1>3. /\ pollPc' \in [Polls -> PollPC]
      /\ pollPc'[h] = "pop"
      /\ \A g \in Polls \ {h} : pollPc'[g] = pollPc[g]
  BY <1>2, PollFrame DEF PollPC
<1>4. /\ clientPc' \in [Clients -> ClientPC]
      /\ conn' \in [Clients -> Polls \union {None}]
      /\ poller' \in [Polls -> Clients \union {None}]
      /\ poller'[h] = c
      /\ \A g \in Polls \ {h} : poller'[g] = poller[g]
  BY <1>1, <1>2 DEF ToClient, TypeOK, ClientPC
<1>5. TypeOK'
  BY <1>1, <1>2, <1>3, <1>4
     DEF TypeOK, tenantVars, mailVars, wakeVars, imageVars, counters
<1>6. popped'[h] = None /\ \A g \in Polls : popped'[g] = popped[g]
  BY <1>1, <1>2 DEF Links
<1>7. pollPc[h] # "waiting" /\ UNCHANGED waiters
  BY <1>2 DEF wakeVars
<1>8. Links'
  BY <1>3, <1>4, <1>6, <1>7, NotWaiting, PollMoves
<1>9. QED
  BY <1>5, <1>8 DEF TypeInv

LEMMA ClientType ==
  ASSUME TypeInv, NEW c \in Clients,
         \/ ClientRestart(c) \/ Unregistered(c) \/ Fetch(c) \/ FetchFails(c)
         \/ Result(c) \/ ResultRefused(c) \/ ResultLost(c) \/ Retry(c)
         \/ Disconnect(c) \/ ClientCrash(c)
  PROVE  TypeInv'
<1>1. TypeOK /\ Links
  BY DEF TypeInv
<1>2. UNCHANGED <<tenantVars, queue, wakeVars, image, pollVars>>
  BY DEF ClientRestart, Unregistered, Fetch, FetchFails, Result, ResultRefused, ResultLost,
         Retry, Disconnect, ClientCrash, mailVars, imageVars
<1>3. Fault \/ UNCHANGED counters
  BY DEF ClientRestart, Unregistered, Fetch, FetchFails, Result, ResultRefused, ResultLost,
         Retry, Disconnect, ClientCrash
<1>4. /\ clientPc' \in [Clients -> ClientPC]
      /\ conn' \in [Clients -> Polls \union {None}]
      /\ job' \in [Clients -> Requests \union {None}]
      /\ fetched' \in [Clients -> Content]
  BY <1>1
     DEF ClientRestart, Unregistered, Fetch, FetchFails, Result, ResultRefused, ResultLost,
         Retry, Disconnect, ClientCrash, EndJob, ToClient, TypeOK, ClientPC, Content
<1>5. /\ inflight' \in SUBSET inflight
      /\ answer' \in [Requests -> Content]
  <2>1. CASE Result(c)
    <3>1. answer' = answer \/ answer' = [answer EXCEPT ![job[c]] = fetched[c]]
      BY <2>1 DEF Result
    <3>2. QED
      BY <1>1, <2>1, <3>1 DEF Result, TypeOK
  <2>2. CASE UNCHANGED <<inflight, answer>>
    BY <1>1, <2>2 DEF TypeOK
  <2>3. QED
    BY <2>1, <2>2
       DEF ClientRestart, Unregistered, Fetch, FetchFails, Result, ResultRefused, ResultLost,
           Retry, Disconnect, ClientCrash, mailVars, imageVars
<1>6. inflight' \subseteq Requests /\ Cardinality(inflight') =< MaxInflight
  <2>1. IsFiniteSet(inflight)
    BY <1>1, FS_Subset, RelayAssumption DEF RelayAssumption, TypeOK
  <2>2. Cardinality(inflight') =< Cardinality(inflight) /\ IsFiniteSet(inflight')
    BY <2>1, <1>5, FS_Subset
  <2>3. /\ Cardinality(inflight) \in Nat /\ Cardinality(inflight') \in Nat
        /\ MaxInflight \in Nat
    BY <2>1, <2>2, FS_CardinalityType, RelayAssumption DEF RelayAssumption
  <2>4. QED
    BY <1>1, <1>5, <2>2, <2>3 DEF TypeOK
<1>7. TypeOK'
  BY <1>1, <1>2, <1>3, <1>4, <1>5, <1>6, CounterType
     DEF TypeOK, tenantVars, wakeVars, pollVars
<1>8. Links'
  BY <1>1, <1>2, LinksUnchanged DEF wakeVars
<1>9. QED
  BY <1>7, <1>8 DEF TypeInv

LEMMA ServerRestartType == ASSUME TypeInv, ServerRestart PROVE TypeInv'
<1>1. TypeOK /\ Links
  BY DEF TypeInv
<1>2. Cardinality({}) = 0 /\ MaxInflight \in Nat /\ MaxQueued \in Nat
  BY FS_EmptySet, RelayAssumption DEF RelayAssumption
<1>3. Cardinality(registered') =< MaxTenants
  <2>1. registered' = store \/ registered' = {}
    BY DEF ServerRestart
  <2>2. 0 =< MaxTenants
    BY RelayAssumption DEF RelayAssumption
  <2>3. CASE registered' = store
    BY <1>1, <2>3 DEF TypeOK
  <2>4. CASE registered' = {}
    BY <1>2, <2>2, <2>4
  <2>5. QED
    BY <2>1, <2>3, <2>4
<1>4. image' \in [Requests -> ImagePC] /\ clientPc' \in [Clients -> ClientPC]
  BY <1>1 DEF TypeOK, ServerRestart, ImagePC, ClientPC
<1>5. faults' \in 0..MaxFaults /\ cancels' \in 0..MaxCancels
  BY <1>1, CounterType DEF ServerRestart
<1>6. TypeOK'
  BY <1>1, <1>2, <1>3, <1>4, <1>5, EmptyFacts DEF TypeOK, ServerRestart, PollPC
<1>7. Links'
  BY EmptyFacts DEF Links, ServerRestart, Distinct, Elements
<1>8. QED
  BY <1>6, <1>7 DEF TypeInv

LEMMA TypeStep == TypeInv /\ [Next]_vars => TypeInv'
<1> SUFFICES ASSUME TypeInv, [Next]_vars PROVE TypeInv'
  OBVIOUS
<1>1. CASE UNCHANGED vars
  BY <1>1, LinksUnchanged
     DEF TypeInv, TypeOK, vars, tenantVars, mailVars, wakeVars, imageVars, pollVars,
         clientVars, counters
<1>2. CASE \E r \in Requests : Refuse(r) \/ Enqueue(r) \/ ImageStep(r) \/ HangUp(r)
  BY <1>2, ImageType
<1>3. CASE \E h \in Polls : PollStep(h)
  BY <1>3, PollType
<1>4. CASE \E c \in Clients : ClientStep(c) \/ Failure(c)
  BY <1>4, RegistrationType, OpenPollType, ClientType DEF ClientStep, Failure
<1>5. CASE ServerRestart
  BY <1>5, ServerRestartType
<1>6. QED
  BY <1>1, <1>2, <1>3, <1>4, <1>5 DEF Next

\* Every state is well typed: tenants, queues and inflight entries stay within their
\* limits, and the store holds nothing the server does not know, except what it could not
\* read (register, image, persist_tenants, load_tenants).
THEOREM TypeCorrect == Spec => []TypeOK
<1>1. Spec => []TypeInv
  BY InitType, TypeStep, PTL DEF Spec
<1>2. TypeInv => TypeOK
  BY DEF TypeInv
<1>3. QED
  BY <1>1, <1>2, PTL

-----------------------------------------------------------------------------
(* What the tasks of the server leave to the clients, and the other way round *)

LEMMA ImageFrame ==
  ASSUME NEW r \in Requests, Refuse(r) \/ Enqueue(r) \/ ImageStep(r) \/ HangUp(r)
  PROVE  /\ UNCHANGED <<tenantVars, clientVars, round, poller, popped, answer, faults>>
         /\ cancels' = cancels \/ cancels' = cancels + 1
BY DEF Refuse, Enqueue, ImageStep, Notify, StopsWaiting, Forget, Unqueue, HangUp, pollVars,
       counters, Cancel

LEMMA PollClientFrame ==
  ASSUME NEW h \in Polls, PollStep(h), ~Reply(h)
  PROVE  UNCHANGED <<tenantVars, inflight, imageVars, clientVars, counters>>
BY DEF PollStep, Pop, PopsNothing, Arm, Wakes, PollTimesOut, ReplyLost, DropPoll, mailVars

LEMMA ReplyFrame ==
  ASSUME NEW h \in Polls, Reply(h)
  PROVE  UNCHANGED <<tenantVars, mailVars, imageVars, counters>>
BY DEF Reply

\* Everything a client does by itself, but for opening a poll.
Alone(c) ==
  \/ Register(c) \/ RegisterRefused(c) \/ PersistFails(c) \/ RegisterCut(c)
  \/ ClientRestart(c) \/ Unregistered(c) \/ Fetch(c) \/ FetchFails(c)
  \/ Result(c) \/ ResultRefused(c) \/ ResultLost(c) \/ Retry(c)
  \/ Disconnect(c) \/ ClientCrash(c)

LEMMA ClientCases ==
  ASSUME NEW c \in Clients, ClientStep(c) \/ Failure(c)
  PROVE  Alone(c) \/ \E h \in Polls : OpenPoll(c, h)
BY DEF ClientStep, Failure, Alone

LEMMA ClientFrame ==
  ASSUME NEW c \in Clients, Alone(c)
  PROVE  /\ UNCHANGED <<queue, wakeVars, image, pollVars>>
         /\ cancels' = cancels \/ cancels' = cancels + 1
BY DEF Alone, Register, RegisterRefused, PersistFails, RegisterCut, ClientRestart, Unregistered,
       Fetch, FetchFails, Result, ResultRefused, ResultLost, Retry, Disconnect, ClientCrash,
       mailVars, imageVars, counters, Fault, Cancel

\* Only a client that polls has a connection to a poll.
Connected == \A c \in Clients : conn[c] # None => clientPc[c] = "polling"

LEMMA ConnectedStep == TypeInv /\ Connected /\ [Next]_vars => Connected'
<1> SUFFICES ASSUME TypeInv, Connected, [Next]_vars PROVE Connected'
  OBVIOUS
<1>1. clientPc \in [Clients -> ClientPC] /\ conn \in [Clients -> Polls \union {None}]
  BY DEF TypeInv, TypeOK
<1>2. CASE UNCHANGED <<clientPc, conn>>
  BY <1>2 DEF Connected
<1>3. CASE \E h \in Polls : Reply(h)
  BY <1>1, <1>3 DEF Reply, ToClient, Connected
<1>4. CASE \E c \in Clients, h \in Polls : OpenPoll(c, h)
  BY <1>1, <1>4 DEF OpenPoll, ToClient, Connected
<1>5. CASE \E c \in Clients : Alone(c)
  BY <1>1, <1>5
     DEF Alone, Register, RegisterRefused, PersistFails, RegisterCut, ClientRestart,
         Unregistered, Fetch, FetchFails, Result, ResultRefused, ResultLost, Retry, Disconnect,
         ClientCrash, EndJob, ToClient, Connected
<1>6. CASE ServerRestart
  BY <1>1, <1>6 DEF ServerRestart, Connected
<1>7. QED
  BY <1>2, <1>3, <1>4, <1>5, <1>6, ImageFrame, PollClientFrame, ClientCases
     DEF Next, vars, clientVars

-----------------------------------------------------------------------------
(* The tenant store *)

\* A client that has got past its registration.
Past(c) == clientPc[c] \notin {"register", "down"}

\* Unless a registration was cut off, the server knows what is stored, except what it could
\* not read, and nothing else, and one or the other has the tenant of every client that got
\* past its registration.
Stored ==
  (Persisting /\ cancels = 0) =>
    /\ store \ forgotten = registered
    /\ \A c \in Clients : Past(c) => TenantOf[c] \in registered \union forgotten

LEMMA StoredStep == TypeInv /\ Connected /\ Stored /\ [Next]_vars => Stored'
<1> SUFFICES ASSUME TypeInv, Connected, Stored, [Next]_vars, Persisting, cancels' = 0
             PROVE  /\ store' \ forgotten' = registered'
                    /\ \A c \in Clients : Past(c)' => TenantOf[c] \in registered' \union forgotten'
  BY DEF Stored
<1>1. /\ clientPc \in [Clients -> ClientPC] /\ conn \in [Clients -> Polls \union {None}]
      /\ cancels \in Nat
  BY DEF TypeInv, TypeOK
<1>2. cancels = cancels' \/ cancels' = cancels + 1
  BY ImageFrame, PollClientFrame, ReplyFrame, ClientCases, ClientFrame
     DEF Next, vars, counters, OpenPoll, ServerRestart, Fault
<1>3. cancels = 0
  BY <1>1, <1>2
<1>4. /\ store \ forgotten = registered
      /\ \A c \in Clients : Past(c) => TenantOf[c] \in registered \union forgotten
  BY <1>3 DEF Stored
<1>5. CASE UNCHANGED <<tenantVars, clientPc>>
  BY <1>4, <1>5 DEF tenantVars, Past
<1>6. ASSUME NEW h \in Polls, Reply(h)
      PROVE  UNCHANGED tenantVars /\ \A c \in Clients : Past(c)' => Past(c)
  <2>1. conn[poller[h]] = h /\ pollPc[h] = "reply"
    BY <1>6 DEF Reply
  <2>2. poller[h] \in Clients /\ h # None
    BY <2>1, RelayAssumption DEF TypeInv, Links, RelayAssumption
  <2>3. clientPc[poller[h]] = "polling"
    BY <2>1, <2>2 DEF Connected
  <2>4. QED
    BY <1>1, <1>6, <2>3 DEF Reply, ToClient, Past
<1>7. ASSUME NEW c \in Clients, NEW h \in Polls, OpenPoll(c, h)
      PROVE  UNCHANGED tenantVars /\ \A d \in Clients : Past(d)' => Past(d)
  BY <1>1, <1>7 DEF OpenPoll, ToClient, Past
<1>8. ASSUME NEW c \in Clients, Register(c) \/ RegisterRefused(c) \/ PersistFails(c)
      PROVE  /\ store' \ forgotten' = registered'
             /\ registered \union forgotten \subseteq registered' \union forgotten'
             /\ \A d \in Clients : Past(d)' => Past(d) \/ TenantOf[d] \in registered'
  <2>1. CASE Register(c)
    BY <1>1, <1>4, <2>1 DEF Register, ToClient, Past
  <2>2. CASE RegisterRefused(c) \/ PersistFails(c)
    BY <1>1, <1>4, <2>2 DEF RegisterRefused, PersistFails, ToClient, tenantVars, Past
  <2>3. QED
    BY <1>8, <2>1, <2>2
<1>9. ASSUME NEW c \in Clients, Alone(c),
             ~(Register(c) \/ RegisterRefused(c) \/ PersistFails(c) \/ RegisterCut(c))
      PROVE  UNCHANGED tenantVars /\ \A d \in Clients : Past(d)' => Past(d)
  BY <1>1, <1>9
     DEF Alone, ClientRestart, Unregistered, Fetch, FetchFails, Result, ResultRefused, ResultLost,
         Retry, Disconnect, ClientCrash, EndJob, ToClient, Past
<1>10. ASSUME NEW c \in Clients, RegisterCut(c) PROVE FALSE
  BY <1>1, <1>3, <1>10 DEF RegisterCut, Cancel
<1>11. ASSUME ServerRestart
       PROVE  /\ store' \ forgotten' = registered'
              /\ registered \union forgotten \subseteq registered' \union forgotten'
              /\ \A c \in Clients : Past(c)' => Past(c)
  BY <1>1, <1>4, <1>11 DEF ServerRestart, Past
<1>12. CASE \E r \in Requests : Refuse(r) \/ Enqueue(r) \/ ImageStep(r) \/ HangUp(r)
  BY <1>5, <1>12, ImageFrame DEF clientVars
<1>13. CASE \E h \in Polls : PollStep(h)
  BY <1>4, <1>5, <1>6, <1>13, PollClientFrame DEF clientVars, tenantVars
<1>14. CASE \E c \in Clients : ClientStep(c) \/ Failure(c)
  BY <1>4, <1>7, <1>8, <1>9, <1>10, <1>14, ClientCases DEF tenantVars
<1>15. QED
  BY <1>4, <1>5, <1>11, <1>12, <1>13, <1>14 DEF Next, vars, clientVars

\* A client that has been told it is registered is in the tenant store, for any number of
\* crashes and failing writes, unless a caller has hung up on the server or it could not read
\* the store when it started, and until then the tenant registers again (register,
\* persist_tenants, load_tenants).
THEOREM Durable == Spec => []DurableUnlessCut
<1>1. Init => Connected /\ Stored
  BY DEF Init, Connected, Stored, Past
<1>2. Spec => [](TypeInv /\ Connected /\ Stored)
  BY <1>1, InitType, TypeStep, ConnectedStep, StoredStep, PTL DEF Spec
<1>3. Stored => DurableUnlessCut
  BY DEF Stored, DurableUnlessCut, Past
<1>4. QED
  BY <1>2, <1>3, PTL

-----------------------------------------------------------------------------
(* Where jobs are *)

\* OneHolder, with the elements of a queue in place of its positions.
Held ==
  /\ \A t \in Tenants :
       Distinct(queue[t]) /\ \A r \in Elements(queue[t]) : TenantOf[r] = t
  /\ \A h \in Polls : popped[h] # None =>
       /\ TenantOf[popped[h]] = PollTenant(h)
       /\ popped[h] \notin Elements(queue[PollTenant(h)])
       /\ \A g \in Polls : popped[g] = popped[h] => g = h
  /\ \A c \in Clients : job[c] # None =>
       /\ TenantOf[job[c]] = TenantOf[c]
       /\ job[c] \notin Elements(queue[TenantOf[c]])
       /\ \A h \in Polls : popped[h] # job[c]
       /\ \A d \in Clients : job[d] = job[c] => d = c

Untouched(r) ==
  /\ r \notin inflight
  /\ r \notin Elements(queue[TenantOf[r]])
  /\ \A h \in Polls : popped[h] # r
  /\ \A c \in Clients : job[c] # r

\* What has been cleaned up when an image handler has come so far.
Tidy ==
  \A r \in Requests :
    /\ image[r] = "new" => Untouched(r)
    /\ image[r] \in {"unqueue", "served", "hidden"} => r \notin inflight
    /\ image[r] \in {"served", "hidden"} => r \notin Elements(queue[TenantOf[r]])

MailInv == Held /\ Tidy

LEMMA MailImplies == TypeInv /\ MailInv => OneHolder /\ NoResidue
<1> SUFFICES ASSUME TypeInv, MailInv PROVE OneHolder /\ NoResidue
  OBVIOUS
<1>1. ASSUME NEW t \in Tenants, NEW i \in DOMAIN queue[t], NEW j \in DOMAIN queue[t]
      PROVE  TenantOf[queue[t][i]] = t /\ (queue[t][i] = queue[t][j] => i = j)
  BY DEF MailInv, Held, Distinct, Elements
<1>2. OneHolder
  BY <1>1 DEF OneHolder, MailInv, Held
<1>3. NoResidue
  BY DEF NoResidue, MailInv, Tidy, Untouched
<1>4. QED
  BY <1>2, <1>3

LEMMA MailInit == Init => MailInv
<1> SUFFICES ASSUME Init PROVE MailInv
  OBVIOUS
<1>1. \A r \in Requests : r # None /\ TenantOf[r] \in Tenants
  BY RelayAssumption DEF RelayAssumption
<1>2. \A t \in Tenants : Distinct(queue[t]) /\ Elements(queue[t]) = {}
  BY EmptyFacts DEF Init
<1>3. QED
  BY <1>1, <1>2 DEF Init, MailInv, Held, Tidy, Untouched

\* Jobs that only vanish stay in one place.
LEMMA MailShrinks ==
  ASSUME TypeInv, MailInv,
         \A t \in Tenants : Distinct(queue'[t]) /\ Elements(queue'[t]) \subseteq Elements(queue[t]),
         \A h \in Polls : \/ popped'[h] = None
                          \/ popped'[h] = popped[h] /\ poller'[h] = poller[h],
         \A c \in Clients : job'[c] \in {job[c], None},
         inflight' \subseteq inflight,
         \A r \in Requests :
           /\ image'[r] = "new" => image[r] = "new"
           /\ image'[r] \in {"unqueue", "served", "hidden"} => r \notin inflight'
           /\ image'[r] \in {"served", "hidden"} => r \notin Elements(queue'[TenantOf[r]])
  PROVE  MailInv'
<1>1. Held /\ Tidy /\ Links /\ TypeOK
  BY DEF TypeInv, MailInv
<1>2. \A r \in Requests : r # None /\ TenantOf[r] \in Tenants
  BY RelayAssumption DEF RelayAssumption
<1>3. \A c \in Clients : TenantOf[c] \in Tenants
  BY RelayAssumption DEF RelayAssumption
<1>4. ASSUME NEW t \in Tenants
      PROVE  Distinct(queue'[t]) /\ \A r \in Elements(queue'[t]) : TenantOf[r] = t
  BY <1>1 DEF Held
<1>5. ASSUME NEW h \in Polls, popped'[h] # None
      PROVE  /\ TenantOf[popped'[h]] = PollTenant(h)'
             /\ popped'[h] \notin Elements(queue'[PollTenant(h)'])
             /\ \A g \in Polls : popped'[g] = popped'[h] => g = h
  <2>1. popped'[h] = popped[h] /\ PollTenant(h)' = PollTenant(h) /\ poller[h] \in Clients
    BY <1>1, <1>5 DEF Links, PollTenant
  <2>2. PollTenant(h) \in Tenants
    BY <2>1, <1>3 DEF PollTenant
  <2>3. \A g \in Polls : popped'[g] = popped'[h] => popped[g] = popped[h]
    BY <1>5, <2>1
  <2>4. QED
    BY <1>1, <1>5, <2>1, <2>2, <2>3 DEF Held
<1>6. ASSUME NEW c \in Clients, job'[c] # None
      PROVE  /\ TenantOf[job'[c]] = TenantOf[c]
             /\ job'[c] \notin Elements(queue'[TenantOf[c]])
             /\ \A h \in Polls : popped'[h] # job'[c]
             /\ \A d \in Clients : job'[d] = job'[c] => d = c
  <2>1. job'[c] = job[c]
    BY <1>6
  <2>2. QED
    BY <1>1, <1>3, <1>6, <2>1 DEF Held
<1>7. Held'
  BY <1>4, <1>5, <1>6 DEF Held
<1>8. Tidy'
  BY <1>1, <1>2 DEF Tidy, Untouched
<1>9. QED
  BY <1>7, <1>8 DEF MailInv

LEMMA MailEnqueue ==
  ASSUME TypeInv, MailInv, NEW r \in Requests, Enqueue(r)
  PROVE  MailInv'
<1> DEFINE t == TenantOf[r]
<1>1. Held /\ Tidy /\ Links /\ TypeOK
  BY DEF TypeInv, MailInv
<1>2. t \in Tenants /\ r # None /\ \A c \in Clients : TenantOf[c] \in Tenants
  BY RelayAssumption DEF RelayAssumption
<1>3. Untouched(r)
  BY <1>1 DEF Enqueue, Tidy
<1>4. /\ queue' = [queue EXCEPT ![t] = Append(queue[t], r)]
      /\ inflight' = inflight \union {r}
      /\ image' = [image EXCEPT ![r] = "notify"]
      /\ UNCHANGED <<pollVars, clientVars>>
  BY DEF Enqueue, ToImage
<1>5. /\ Elements(Append(queue[t], r)) = Elements(queue[t]) \union {r}
      /\ Distinct(Append(queue[t], r))
  <2>1. queue[t] \in Seq(Requests) /\ Distinct(queue[t]) /\ r \notin Elements(queue[t])
    BY <1>1, <1>2, <1>3 DEF TypeOK, Held, Untouched
  <2>2. QED
    BY <2>1, AppendFacts
<1>6. /\ queue'[t] = Append(queue[t], r)
      /\ \A u \in Tenants \ {t} : queue'[u] = queue[u]
  BY <1>1, <1>2, <1>4 DEF TypeOK
<1> HIDE DEF t
<1>7. \A u \in Tenants : Elements(queue'[u]) \subseteq Elements(queue[u]) \union {r}
  <2> TAKE u \in Tenants
  <2>1. CASE u = t
    BY <2>1, <1>5, <1>6
  <2>2. CASE u # t
    BY <2>2, <1>6
  <2>3. QED
    BY <2>1, <2>2
<1>8. ASSUME NEW u \in Tenants
      PROVE  Distinct(queue'[u]) /\ \A x \in Elements(queue'[u]) : TenantOf[x] = u
  <2>1. CASE u = t
    BY <2>1, <1>1, <1>5, <1>6 DEF Held, t
  <2>2. CASE u # t
    BY <2>2, <1>1, <1>6 DEF Held
  <2>3. QED
    BY <2>1, <2>2
<1>9. \A h \in Polls : /\ popped'[h] = popped[h]
                       /\ PollTenant(h)' = PollTenant(h)
                       /\ popped[h] # r
                       /\ popped[h] # None => PollTenant(h) \in Tenants
  BY <1>1, <1>2, <1>3, <1>4 DEF pollVars, PollTenant, Untouched, Links
<1>10. \A c \in Clients : job'[c] = job[c] /\ job[c] # r
  BY <1>3, <1>4 DEF clientVars, Untouched
<1>11. ASSUME NEW h \in Polls, popped'[h] # None
       PROVE  /\ TenantOf[popped'[h]] = PollTenant(h)'
              /\ popped'[h] \notin Elements(queue'[PollTenant(h)'])
              /\ \A g \in Polls : popped'[g] = popped'[h] => g = h
  BY <1>1, <1>7, <1>9, <1>11 DEF Held
<1>12. ASSUME NEW c \in Clients, job'[c] # None
       PROVE  /\ TenantOf[job'[c]] = TenantOf[c]
              /\ job'[c] \notin Elements(queue'[TenantOf[c]])
              /\ \A h \in Polls : popped'[h] # job'[c]
              /\ \A d \in Clients : job'[d] = job'[c] => d = c
  BY <1>1, <1>2, <1>7, <1>9, <1>10, <1>12 DEF Held
<1>13. Held'
  BY <1>8, <1>11, <1>12 DEF Held
<1>14. ASSUME NEW x \in Requests
       PROVE  /\ image'[x] = "new" => Untouched(x)'
              /\ image'[x] \in {"unqueue", "served", "hidden"} => x \notin inflight'
              /\ image'[x] \in {"served", "hidden"} => x \notin Elements(queue'[TenantOf[x]])
  <2>1. CASE x = r
    BY <2>1, <1>1, <1>4 DEF TypeOK
  <2>2. CASE x # r
    <3>1. image'[x] = image[x] /\ TenantOf[x] \in Tenants
      BY <2>2, <1>1, <1>4, RelayAssumption DEF TypeOK, RelayAssumption
    <3>2. x \notin inflight => x \notin inflight'
      BY <2>2, <1>4
    <3>3. x \notin Elements(queue[TenantOf[x]]) => x \notin Elements(queue'[TenantOf[x]])
      BY <2>2, <3>1, <1>7
    <3>4. QED
      BY <3>1, <3>2, <3>3, <1>1, <1>9, <1>10 DEF Tidy, Untouched
  <2>3. QED
    BY <2>1, <2>2
<1>15. QED
  BY <1>13, <1>14 DEF MailInv, Tidy

LEMMA MailPop ==
  ASSUME TypeInv, MailInv, NEW h \in Polls, Pop(h)
  PROVE  MailInv'
<1> DEFINE t == PollTenant(h)
           q == queue[t]
           r == Head(q)
<1>1. Held /\ Tidy /\ Links /\ TypeOK
  BY DEF TypeInv, MailInv
<1>2. \A c \in Clients : TenantOf[c] \in Tenants
  BY RelayAssumption DEF RelayAssumption
<1>3. poller[h] \in Clients /\ t \in Tenants
  BY <1>1, <1>2 DEF Pop, Links, PollTenant
<1>4. q \in Seq(Requests) /\ q # <<>> /\ Distinct(q)
  BY <1>1, <1>3 DEF TypeOK, Pop, Held
<1>5. /\ r \in Requests /\ r \in Elements(q)
      /\ Elements(Tail(q)) \subseteq Elements(q) \ {r}
      /\ Distinct(Tail(q))
  BY <1>4, TailFacts
<1>6. r # None /\ TenantOf[r] = t
  BY <1>1, <1>3, <1>5, RelayAssumption DEF Held, RelayAssumption
<1>7. /\ queue' = [queue EXCEPT ![t] = Tail(q)]
      /\ popped' = [popped EXCEPT ![h] = r]
      /\ UNCHANGED <<inflight, image, poller, job>>
  BY DEF Pop, imageVars, clientVars
<1> HIDE DEF r, q
<1>8. /\ queue'[t] = Tail(q)
      /\ \A u \in Tenants \ {t} : queue'[u] = queue[u]
      /\ popped'[h] = r
      /\ \A g \in Polls \ {h} : popped'[g] = popped[g]
  BY <1>1, <1>3, <1>7 DEF TypeOK
<1>9. \A g \in Polls : popped[g] # None => popped[g] # r /\ poller[g] \in Clients
  <2> TAKE g \in Polls
  <2>1. CASE popped[g] = r
    <3>1. TenantOf[popped[g]] = PollTenant(g) /\ popped[g] \notin Elements(queue[PollTenant(g)])
      BY <2>1, <1>1, <1>6 DEF Held
    <3>2. QED
      BY <3>1, <2>1, <1>5, <1>6 DEF q
  <2>2. CASE popped[g] # r
    BY <2>2, <1>1 DEF Links
  <2>3. QED
    BY <2>1, <2>2
<1>10. \A c \in Clients : job[c] # r
  <2> TAKE c \in Clients
  <2>1. CASE job[c] = r
    <3>1. TenantOf[job[c]] = TenantOf[c] /\ job[c] \notin Elements(queue[TenantOf[c]])
      BY <2>1, <1>1, <1>6 DEF Held
    <3>2. QED
      BY <3>1, <2>1, <1>5, <1>6 DEF q
  <2>2. QED
    BY <2>1
<1>11. \A u \in Tenants : /\ Distinct(queue'[u])
                          /\ Elements(queue'[u]) \subseteq Elements(queue[u]) \ {r}
  <2> TAKE u \in Tenants
  <2>1. CASE u = t
    BY <2>1, <1>5, <1>8 DEF q
  <2>2. CASE u # t
    BY <2>2, <1>1, <1>6, <1>8 DEF Held
  <2>3. QED
    BY <2>1, <2>2
<1>12. \A g \in Polls : PollTenant(g)' = PollTenant(g)
  BY <1>7 DEF PollTenant
<1>13. ASSUME NEW g \in Polls, popped'[g] # None
       PROVE  /\ TenantOf[popped'[g]] = PollTenant(g)'
              /\ popped'[g] \notin Elements(queue'[PollTenant(g)'])
              /\ \A k \in Polls : popped'[k] = popped'[g] => k = g
  <2>1. CASE g = h
    <3>1. popped'[g] = r /\ PollTenant(g)' = t
      BY <2>1, <1>8, <1>12
    <3>2. r \notin Elements(queue'[t])
      BY <1>3, <1>11
    <3>3. \A k \in Polls : popped'[k] = r => k = h
      BY <1>6, <1>8, <1>9
    <3>4. QED
      BY <2>1, <3>1, <3>2, <3>3, <1>6
  <2>2. CASE g # h
    <3>1. popped'[g] = popped[g] /\ popped[g] # r
      BY <2>2, <1>8, <1>9, <1>13
    <3>2. PollTenant(g) \in Tenants /\ PollTenant(g)' = PollTenant(g)
      BY <1>2, <1>9, <1>12, <1>13, <3>1 DEF PollTenant
    <3>3. \A k \in Polls : popped'[k] = popped'[g] => popped[k] = popped[g]
      BY <3>1, <1>8
    <3>4. QED
      BY <3>1, <3>2, <3>3, <1>1, <1>11, <1>13 DEF Held
  <2>3. QED
    BY <2>1, <2>2
<1>14. ASSUME NEW c \in Clients, job'[c] # None
       PROVE  /\ TenantOf[job'[c]] = TenantOf[c]
              /\ job'[c] \notin Elements(queue'[TenantOf[c]])
              /\ \A g \in Polls : popped'[g] # job'[c]
              /\ \A d \in Clients : job'[d] = job'[c] => d = c
  <2>1. job'[c] = job[c] /\ job[c] # r /\ job' = job
    BY <1>7, <1>10
  <2>2. \A g \in Polls : popped'[g] # job[c]
    BY <2>1, <1>1, <1>8, <1>14 DEF Held
  <2>3. job[c] \notin Elements(queue'[TenantOf[c]])
    BY <2>1, <1>1, <1>2, <1>11, <1>14 DEF Held
  <2>4. QED
    BY <2>1, <2>2, <2>3, <1>1, <1>14 DEF Held
<1>15. Held'
  <2>1. \A u \in Tenants : \A x \in Elements(queue'[u]) : TenantOf[x] = u
    BY <1>1, <1>11 DEF Held
  <2>2. QED
    BY <2>1, <1>11, <1>13, <1>14 DEF Held
<1>16. ASSUME NEW x \in Requests
       PROVE  /\ image'[x] = "new" => Untouched(x)'
              /\ image'[x] \in {"unqueue", "served", "hidden"} => x \notin inflight'
              /\ image'[x] \in {"served", "hidden"} => x \notin Elements(queue'[TenantOf[x]])
  <2>1. TenantOf[x] \in Tenants
    BY RelayAssumption DEF RelayAssumption
  <2>2. image[x] = "new" => x # r
    BY <1>1, <1>5, <1>6 DEF Tidy, Untouched, q
  <2>3. x # r => \A g \in Polls : popped[g] # x => popped'[g] # x
    BY <1>8
  <2>4. QED
    BY <2>1, <2>2, <2>3, <1>1, <1>7, <1>11 DEF Tidy, Untouched
<1>17. QED
  BY <1>15, <1>16 DEF MailInv, Tidy

LEMMA MailReply ==
  ASSUME TypeInv, MailInv, NEW h \in Polls, Reply(h)
  PROVE  MailInv'
<1> DEFINE c == poller[h]
           r == popped[h]
<1>1. Held /\ Tidy /\ Links /\ TypeOK
  BY DEF TypeInv, MailInv
<1>2. c \in Clients /\ r \in Requests \union {None}
  BY <1>1 DEF Reply, Links, TypeOK
<1>3. /\ job' = [job EXCEPT ![c] = r]
      /\ Free(h)
      /\ UNCHANGED <<queue, inflight, image>>
  BY DEF Reply, mailVars, imageVars
<1>4. /\ popped'[h] = None
      /\ \A g \in Polls \ {h} : poller'[g] = poller[g] /\ popped'[g] = popped[g]
  BY <1>3, FreeFrame
<1>5. r # None => /\ TenantOf[r] = TenantOf[c]
                  /\ r \notin Elements(queue[TenantOf[c]])
                  /\ \A g \in Polls : popped[g] = r => g = h
                  /\ \A d \in Clients : job[d] # r
  BY <1>1 DEF Held, PollTenant
<1> HIDE DEF r, c
<1>6. job'[c] = r /\ \A d \in Clients \ {c} : job'[d] = job[d]
  BY <1>1, <1>2, <1>3 DEF TypeOK
<1>7. ASSUME NEW g \in Polls, popped'[g] # None
      PROVE  /\ TenantOf[popped'[g]] = PollTenant(g)'
             /\ popped'[g] \notin Elements(queue'[PollTenant(g)'])
             /\ \A k \in Polls : popped'[k] = popped'[g] => k = g
  <2>1. g # h /\ popped'[g] = popped[g] /\ PollTenant(g)' = PollTenant(g)
    BY <1>4, <1>7 DEF PollTenant
  <2>2. \A k \in Polls : popped'[k] = popped'[g] => popped[k] = popped[g]
    BY <2>1, <1>4, <1>7
  <2>3. QED
    BY <2>1, <2>2, <1>1, <1>3, <1>7 DEF Held
<1>8. ASSUME NEW d \in Clients, job'[d] # None
      PROVE  /\ TenantOf[job'[d]] = TenantOf[d]
             /\ job'[d] \notin Elements(queue'[TenantOf[d]])
             /\ \A g \in Polls : popped'[g] # job'[d]
             /\ \A e \in Clients : job'[e] = job'[d] => e = d
  <2>1. CASE d = c
    <3>1. job'[d] = r /\ r # None
      BY <2>1, <1>6, <1>8
    <3>2. \A g \in Polls : popped'[g] # r
      BY <3>1, <1>4, <1>5
    <3>3. \A e \in Clients : job'[e] = r => e = c
      BY <3>1, <1>5, <1>6
    <3>4. QED
      BY <2>1, <3>1, <3>2, <3>3, <1>3, <1>5
  <2>2. CASE d # c
    <3>1. job'[d] = job[d] /\ job[d] # None
      BY <2>2, <1>6, <1>8
    <3>2. \A g \in Polls : popped'[g] # job[d] /\ popped[g] # job[d]
      BY <3>1, <1>1, <1>4 DEF Held
    <3>3. r # job[d]
      BY <3>2 DEF r
    <3>4. \A e \in Clients : job'[e] = job[d] => e = d
      BY <3>1, <3>3, <1>1, <1>6 DEF Held
    <3>5. QED
      BY <3>1, <3>2, <3>4, <1>1, <1>3 DEF Held
  <2>3. QED
    BY <2>1, <2>2
<1>9. Held'
  BY <1>1, <1>3, <1>7, <1>8 DEF Held
<1>10. ASSUME NEW x \in Requests
       PROVE  /\ image'[x] = "new" => Untouched(x)'
              /\ image'[x] \in {"unqueue", "served", "hidden"} => x \notin inflight'
              /\ image'[x] \in {"served", "hidden"} => x \notin Elements(queue'[TenantOf[x]])
  <2>1. image[x] = "new" => x # r
    BY <1>1 DEF Tidy, Untouched, r
  <2>2. x # None
    BY RelayAssumption DEF RelayAssumption
  <2>3. (image[x] = "new" /\ Untouched(x)) => Untouched(x)'
    BY <2>1, <2>2, <1>3, <1>4, <1>6 DEF Untouched
  <2>4. QED
    BY <2>3, <1>1, <1>3 DEF Tidy
<1>11. QED
  BY <1>9, <1>10 DEF MailInv, Tidy

\* MailShrinks for the steps that leave the image handlers alone.
LEMMA MailShrinksQuietly ==
  ASSUME TypeInv, MailInv,
         UNCHANGED <<queue, image>>,
         \A h \in Polls : \/ popped'[h] = None
                          \/ popped'[h] = popped[h] /\ poller'[h] = poller[h],
         \A c \in Clients : job'[c] \in {job[c], None},
         inflight' \subseteq inflight
  PROVE  MailInv'
<1>1. \A t \in Tenants : Distinct(queue'[t]) /\ Elements(queue'[t]) \subseteq Elements(queue[t])
  BY DEF MailInv, Held
<1>2. \A r \in Requests :
        /\ image'[r] = "new" => image[r] = "new"
        /\ image'[r] \in {"unqueue", "served", "hidden"} => r \notin inflight'
        /\ image'[r] \in {"served", "hidden"} => r \notin Elements(queue'[TenantOf[r]])
  BY DEF MailInv, Tidy
<1>3. QED
  BY <1>1, <1>2, MailShrinks

LEMMA MailImage ==
  ASSUME TypeInv, MailInv, NEW r \in Requests,
         Refuse(r) \/ Enqueue(r) \/ ImageStep(r) \/ HangUp(r)
  PROVE  MailInv'
<1>1. Held /\ Tidy /\ TypeOK /\ TenantOf[r] \in Tenants
  BY RelayAssumption DEF RelayAssumption, TypeInv, MailInv
<1>2. /\ \A h \in Polls : popped'[h] = popped[h] /\ poller'[h] = poller[h]
      /\ \A c \in Clients : job'[c] = job[c]
  BY ImageFrame DEF clientVars
<1>3. CASE Enqueue(r)
  BY <1>3, MailEnqueue
<1>4. CASE Unqueue(r)
  <2>1. queue[TenantOf[r]] \in Seq(Requests) /\ Distinct(queue[TenantOf[r]])
    BY <1>1 DEF TypeOK, Held
  <2>2. LET w == Without(queue[TenantOf[r]], r)
        IN  /\ Distinct(w) /\ Elements(w) \subseteq Elements(queue[TenantOf[r]])
            /\ r \notin Elements(w)
    BY <2>1, WithoutFacts
  <2>3. /\ queue'[TenantOf[r]] = Without(queue[TenantOf[r]], r)
        /\ \A t \in Tenants \ {TenantOf[r]} : queue'[t] = queue[t]
        /\ inflight' = inflight
    BY <1>1, <1>4 DEF Unqueue, TypeOK
  <2>4. ASSUME NEW t \in Tenants
        PROVE  Distinct(queue'[t]) /\ Elements(queue'[t]) \subseteq Elements(queue[t])
    <3>1. CASE t = TenantOf[r]
      BY <3>1, <2>2, <2>3
    <3>2. CASE t # TenantOf[r]
      BY <3>2, <2>3, <1>1 DEF Held
    <3>3. QED
      BY <3>1, <3>2
  <2>5. image'[r] \in {"served", "hidden"} /\ \A x \in Requests \ {r} : image'[x] = image[x]
    BY <1>1, <1>4 DEF Unqueue, ToImage, Verdict, TypeOK
  <2>6. r \notin inflight /\ r \notin Elements(queue'[TenantOf[r]])
    BY <1>1, <1>4, <2>2, <2>3 DEF Unqueue, Tidy
  <2>7. \A x \in Requests : TenantOf[x] \in Tenants
    BY RelayAssumption DEF RelayAssumption
  <2>8. \A x \in Requests :
          /\ image'[x] = "new" => image[x] = "new"
          /\ image'[x] \in {"unqueue", "served", "hidden"} => x \notin inflight'
          /\ image'[x] \in {"served", "hidden"} => x \notin Elements(queue'[TenantOf[x]])
    BY <1>1, <2>3, <2>4, <2>5, <2>6, <2>7 DEF Tidy
  <2>9. QED
    BY <1>2, <2>3, <2>4, <2>8, MailShrinks
<1>5. CASE Refuse(r) \/ Notify(r) \/ StopsWaiting(r) \/ Forget(r) \/ HangUp(r)
  <2>1. queue' = queue /\ inflight' \subseteq inflight
    BY <1>5 DEF Refuse, Notify, StopsWaiting, Forget, HangUp, mailVars
  <2>2. \A t \in Tenants : Distinct(queue'[t]) /\ Elements(queue'[t]) \subseteq Elements(queue[t])
    BY <1>1, <2>1 DEF Held
  <2>3. \A x \in Requests \ {r} : image'[x] = image[x]
    BY <1>1, <1>5 DEF Refuse, Notify, StopsWaiting, Forget, HangUp, ToImage, TypeOK
  <2>4. /\ image'[r] \in {"hidden", "wait", "forget", "unqueue", "gone"}
        /\ image'[r] = "hidden" => r \notin inflight /\ r \notin Elements(queue[TenantOf[r]])
        /\ image'[r] = "unqueue" => r \notin inflight'
    BY <1>1, <1>5
       DEF Refuse, Notify, StopsWaiting, Forget, HangUp, ToImage, TypeOK, Tidy, Untouched
  <2>5. \A x \in Requests :
          /\ image'[x] = "new" => image[x] = "new"
          /\ image'[x] \in {"unqueue", "served", "hidden"} => x \notin inflight'
          /\ image'[x] \in {"served", "hidden"} => x \notin Elements(queue'[TenantOf[x]])
    BY <1>1, <2>1, <2>3, <2>4 DEF Tidy
  <2>6. QED
    BY <1>2, <2>1, <2>2, <2>5, MailShrinks
<1>6. QED
  BY <1>3, <1>4, <1>5 DEF ImageStep

LEMMA MailPoll == ASSUME TypeInv, MailInv, NEW h \in Polls, PollStep(h) PROVE MailInv'
<1>1. CASE Pop(h)
  BY <1>1, MailPop
<1>2. CASE Reply(h)
  BY <1>2, MailReply
<1>3. CASE ~Pop(h) /\ ~Reply(h)
  <2>1. UNCHANGED <<inflight, image, job>>
    BY <1>3, PollClientFrame DEF imageVars, clientVars
  <2>2. queue' = queue
    BY <1>3
       DEF PollStep, PopsNothing, Arm, Wakes, PollTimesOut, ReplyLost, DropPoll, mailVars
  <2>3. UNCHANGED <<poller, popped>> \/ Free(h)
    BY <1>3 DEF PollStep, PopsNothing, Arm, Wakes, PollTimesOut, ReplyLost, DropPoll
  <2>4. \A g \in Polls : \/ popped'[g] = None
                         \/ popped'[g] = popped[g] /\ poller'[g] = poller[g]
    BY <2>3, FreeFrame
  <2>5. QED
    BY <2>1, <2>2, <2>4, MailShrinksQuietly
<1>4. QED
  BY <1>1, <1>2, <1>3

LEMMA MailClient ==
  ASSUME TypeInv, MailInv, NEW c \in Clients, ClientStep(c) \/ Failure(c)
  PROVE  MailInv'
<1>1. job \in [Clients -> Requests \union {None}] /\ poller \in [Polls -> Clients \union {None}]
  BY DEF TypeInv, TypeOK
<1>2. CASE \E h \in Polls : OpenPoll(c, h)
  <2>1. PICK h \in Polls : OpenPoll(c, h)
    BY <1>2
  <2>2. popped[h] = None
    BY <2>1 DEF OpenPoll, TypeInv, Links
  <2>3. /\ UNCHANGED <<queue, image, inflight, job, popped>>
        /\ poller' = [poller EXCEPT ![h] = c]
    BY <2>1 DEF OpenPoll, mailVars, imageVars
  <2>4. \A g \in Polls : \/ popped'[g] = None
                         \/ popped'[g] = popped[g] /\ poller'[g] = poller[g]
    BY <1>1, <2>2, <2>3
  <2>5. QED
    BY <2>3, <2>4, MailShrinksQuietly
<1>3. CASE Alone(c)
  <2>1. UNCHANGED <<queue, image, poller, popped>>
    BY <1>3, ClientFrame DEF pollVars
  <2>2. inflight' \subseteq inflight /\ \A d \in Clients : job'[d] \in {job[d], None}
    BY <1>1, <1>3
       DEF Alone, Register, RegisterRefused, PersistFails, RegisterCut, ClientRestart, Unregistered,
           Fetch, FetchFails, Result, ResultRefused, ResultLost, Retry, Disconnect, ClientCrash,
           EndJob, mailVars
  <2>3. QED
    BY <2>1, <2>2, MailShrinksQuietly
<1>4. QED
  BY <1>2, <1>3, ClientCases

LEMMA MailRestart == ASSUME TypeInv, MailInv, ServerRestart PROVE MailInv'
<1>1. \A t \in Tenants : Distinct(queue'[t]) /\ Elements(queue'[t]) = {}
  BY EmptyFacts DEF ServerRestart
<1>2. \A r \in Requests : image'[r] = "new" => image[r] = "new"
  BY DEF ServerRestart
<1>3. \A r \in Requests : TenantOf[r] \in Tenants
  BY RelayAssumption DEF RelayAssumption
<1>4. QED
  BY <1>1, <1>2, <1>3, MailShrinks DEF ServerRestart

LEMMA MailStep == TypeInv /\ MailInv /\ [Next]_vars => MailInv'
<1> SUFFICES ASSUME TypeInv, MailInv, [Next]_vars PROVE MailInv'
  OBVIOUS
<1>1. CASE UNCHANGED vars
  BY <1>1, MailShrinksQuietly DEF vars, mailVars, imageVars, pollVars, clientVars
<1>2. CASE Next
  BY <1>2, MailImage, MailPoll, MailClient, MailRestart DEF Next
<1>3. QED
  BY <1>1, <1>2

LEMMA MailAlways == Spec => [](OneHolder /\ NoResidue)
<1>1. Spec => [](TypeInv /\ MailInv)
  BY InitType, MailInit, TypeStep, MailStep, PTL DEF Spec
<1>2. QED
  BY <1>1, MailImplies, PTL

\* A job is in one queue, one poll or one client of its tenant, for any number of
\* clients, crashes, lost replies and restarts (image, poll, poll_once).
THEOREM OneHolderAlways == Spec => []OneHolder
BY MailAlways, PTL

\* A request that has been answered has left neither an entry nor a job behind, for any
\* interleaving of results, timeouts and polls (the clean-ups at the end of image).
THEOREM NoResidueAlways == Spec => []NoResidue
BY MailAlways, PTL

-----------------------------------------------------------------------------
(* Wake-ups *)

\* A permit is left only where nobody waits.
Permits == \A t \in permit : waiters[t] = <<>>

LEMMA PermitsStep == TypeInv /\ Permits /\ [Next]_vars => Permits'
<1> SUFFICES ASSUME TypeInv, Permits, [Next]_vars PROVE Permits'
  OBVIOUS
<1>1. permit \subseteq Tenants /\ waiters \in [Tenants -> Seq(Polls)]
  BY DEF TypeInv, TypeOK
<1>2. CASE UNCHANGED wakeVars
  BY <1>2 DEF wakeVars, Permits
<1>3. ASSUME NEW r \in Requests, Notify(r) PROVE Permits'
  <2>1. TenantOf[r] \in Tenants
    BY RelayAssumption DEF RelayAssumption
  <2>2. CASE waiters[TenantOf[r]] = <<>>
    <3>1. permit' = permit \union {TenantOf[r]} /\ waiters' = waiters
      BY <1>1, <1>3, <2>2 DEF Notify, NotifyOne
    <3>2. QED
      BY <2>2, <3>1 DEF Permits
  <2>3. CASE waiters[TenantOf[r]] # <<>>
    <3>1. /\ permit' = permit /\ TenantOf[r] \notin permit
          /\ \A t \in Tenants \ {TenantOf[r]} : waiters'[t] = waiters[t]
      BY <1>1, <1>3, <2>3 DEF Notify, NotifyOne, Permits
    <3>2. QED
      BY <1>1, <3>1 DEF Permits
  <2>4. QED
    BY <2>2, <2>3
<1>4. ASSUME NEW h \in Polls, Arm(h) PROVE Permits'
  <2>1. CASE PollTenant(h) \in permit
    BY <1>4, <2>1 DEF Arm, Permits
  <2>2. CASE PollTenant(h) \notin permit
    <3>1. permit' = permit /\ \A t \in Tenants \ {PollTenant(h)} : waiters'[t] = waiters[t]
      BY <1>1, <1>4, <2>2 DEF Arm
    <3>2. QED
      BY <1>1, <2>2, <3>1 DEF Permits
  <2>3. QED
    BY <2>1, <2>2
<1>5. ASSUME NEW h \in Polls PROVE Without(<<>>, h) = <<>>
  BY EmptyFacts DEF Without
<1>6. ASSUME NEW h \in Polls, PollTimesOut(h) PROVE Permits'
  <2>1. permit' = permit
    BY <1>6 DEF PollTimesOut
  <2>2. ASSUME NEW t \in permit PROVE waiters'[t] = <<>>
    <3>1. waiters[t] = <<>> /\ t \in Tenants
      BY <1>1, <2>2 DEF Permits
    <3>2. waiters'[t] = waiters[t] \/ waiters'[t] = Without(waiters[t], h)
      BY <1>1, <1>6, <3>1 DEF PollTimesOut
    <3>3. QED
      BY <3>1, <3>2, <1>5
  <2>3. QED
    BY <2>1, <2>2 DEF Permits
<1>7. ASSUME NEW h \in Polls, DropPoll(h) PROVE Permits'
  <2> DEFINE t == PollTenant(h)
             ws == Without(waiters[t], h)
  <2>1. poller[h] \in Clients
    BY <1>7 DEF DropPoll, TypeInv, Links
  <2>2. t \in Tenants
    BY <2>1, RelayAssumption DEF PollTenant, RelayAssumption
  <2>3. CASE pollPc[h] = "woken" /\ ws # <<>>
    <3>1. permit' = permit /\ waiters' = [waiters EXCEPT ![t] = Tail(ws)]
      BY <1>7, <2>3 DEF DropPoll
    <3>2. t \notin permit
      BY <1>5, <2>3 DEF Permits
    <3>3. \A u \in Tenants \ {t} : waiters'[u] = waiters[u]
      BY <1>1, <3>1
    <3>4. QED
      BY <1>1, <3>1, <3>2, <3>3 DEF Permits
  <2>4. CASE ~(pollPc[h] = "woken" /\ ws # <<>>)
    <3>1. /\ permit' = IF pollPc[h] = "woken" THEN permit \union {t} ELSE permit
          /\ waiters' = [waiters EXCEPT ![t] = ws]
      BY <1>7, <2>4 DEF DropPoll
    <3>2. t \in permit' => ws = <<>>
      BY <1>5, <2>4, <3>1 DEF Permits
    <3> HIDE DEF ws
    <3>3. waiters'[t] = ws /\ \A u \in Tenants \ {t} : waiters'[u] = waiters[u]
      BY <1>1, <2>2, <3>1
    <3>4. \A u \in permit' \ {t} : u \in permit
      BY <3>1
    <3>5. QED
      BY <1>1, <3>2, <3>3, <3>4 DEF Permits
  <2>5. QED
    BY <2>3, <2>4
<1>8. ASSUME ServerRestart PROVE Permits'
  BY <1>8 DEF ServerRestart, Permits
<1>9. ASSUME NEW r \in Requests, Refuse(r) \/ Enqueue(r) \/ ImageStep(r) \/ HangUp(r)
      PROVE  Permits'
  BY <1>2, <1>3, <1>9
     DEF Refuse, Enqueue, ImageStep, StopsWaiting, Forget, Unqueue, HangUp
<1>10. ASSUME NEW h \in Polls, PollStep(h) PROVE Permits'
  BY <1>2, <1>4, <1>6, <1>7, <1>10
     DEF PollStep, Pop, PopsNothing, Wakes, Reply, ReplyLost
<1>11. ASSUME NEW c \in Clients, ClientStep(c) \/ Failure(c) PROVE Permits'
  BY <1>2, <1>11, ClientCases, ClientFrame DEF OpenPoll
<1>12. QED
  BY <1>2, <1>8, <1>9, <1>10, <1>11 DEF Next, vars

\* Without lost connections every poll has a client that waits for it, every client
\* that polls has one, and the server knows every client that is past registration.
Attached ==
  faults = 0 =>
    /\ \A h \in Polls : pollPc[h] # "free" => conn[poller[h]] = h
    /\ \A c \in Clients : clientPc[c] = "polling" =>
         conn[c] \in Polls /\ pollPc[conn[c]] # "free" /\ poller[conn[c]] = c
    /\ \A c \in Clients : clientPc[c] \notin {"register", "down"} => TenantOf[c] \in registered

\* The steps that are left as long as nothing has failed.
LEMMA FaultFree ==
  ASSUME TypeInv, Connected, Attached, Next, faults' = 0
  PROVE  /\ faults = 0
         /\ \/ \E r \in Requests : Refuse(r) \/ Enqueue(r) \/ ImageStep(r) \/ HangUp(r)
            \/ \E h \in Polls : \/ Pop(h) \/ PopsNothing(h) \/ Arm(h) \/ Wakes(h)
                                \/ PollTimesOut(h) \/ Reply(h)
            \/ \E c \in Clients : \/ Register(c) \/ RegisterRefused(c) \/ RegisterCut(c)
                                  \/ ClientRestart(c) \/ Fetch(c) \/ FetchFails(c)
                                  \/ Result(c) \/ ResultRefused(c) \/ Retry(c)
                                  \/ \E h \in Polls : OpenPoll(c, h)
<1>1. faults \in Nat
  BY DEF TypeInv, TypeOK
<1>2. ~Fault
  BY <1>1 DEF Fault
<1>3. /\ ~ServerRestart
      /\ \A c \in Clients : ~PersistFails(c) /\ ~ResultLost(c) /\ ~Disconnect(c) /\ ~ClientCrash(c)
  BY <1>2 DEF ServerRestart, PersistFails, ResultLost, Disconnect, ClientCrash
<1>4. \/ \E r \in Requests : Refuse(r) \/ Enqueue(r) \/ ImageStep(r) \/ HangUp(r)
      \/ \E h \in Polls : PollStep(h)
      \/ \E c \in Clients : ClientStep(c) \/ RegisterCut(c)
  BY <1>3 DEF Next, Failure
<1>5. faults = 0
  BY <1>4, ImageFrame, PollClientFrame, ReplyFrame
     DEF ClientStep, Register, RegisterRefused, RegisterCut, ClientRestart, Unregistered, OpenPoll,
         Fetch, FetchFails, Result, ResultRefused, Retry, counters, Cancel
<1>6. \A h \in Polls : ~ReplyLost(h) /\ ~DropPoll(h)
  BY <1>5 DEF ReplyLost, DropPoll, Attached
<1>7. \A c \in Clients : ~Unregistered(c)
  BY <1>5 DEF Unregistered, Attached
<1>8. QED
  BY <1>4, <1>5, <1>6, <1>7 DEF PollStep, ClientStep

\* Steps of polls and image handlers that open and end no poll.
LEMMA AttachedQuietly ==
  ASSUME TypeInv, Attached, faults = 0,
         UNCHANGED <<registered, clientPc, conn, poller>>,
         \A h \in Polls : pollPc'[h] = "free" <=> pollPc[h] = "free"
  PROVE  Attached'
<1>1. /\ \A h \in Polls : pollPc[h] # "free" => conn[poller[h]] = h
      /\ \A c \in Clients : clientPc[c] = "polling" =>
           conn[c] \in Polls /\ pollPc[conn[c]] # "free" /\ poller[conn[c]] = c
      /\ \A c \in Clients : clientPc[c] \notin {"register", "down"} => TenantOf[c] \in registered
  BY DEF Attached
<1>2. QED
  BY <1>1 DEF Attached

\* Which polls a step of the server moves, and from where.
LEMMA NotifyMoves ==
  ASSUME TypeInv, NEW r \in Requests, Notify(r)
  PROVE  \A h \in Polls : \/ pollPc'[h] = pollPc[h]
                          \/ pollPc[h] = "waiting" /\ pollPc'[h] = "woken"
<1>1. TypeOK /\ Links /\ TenantOf[r] \in Tenants
  BY RelayAssumption DEF RelayAssumption, TypeInv
<1>2. CASE waiters[TenantOf[r]] = <<>>
  BY <1>2 DEF Notify, NotifyOne
<1>3. CASE waiters[TenantOf[r]] # <<>>
  <2> DEFINE g == Head(waiters[TenantOf[r]])
  <2>1. waiters[TenantOf[r]] \in Seq(Polls)
    BY <1>1 DEF TypeOK
  <2>2. g \in Polls /\ g \in Elements(waiters[TenantOf[r]])
    BY <2>1, <1>3, TailFacts
  <2>3. pollPc[g] = "waiting"
    BY <2>2, <1>1 DEF Links
  <2>4. pollPc' = [pollPc EXCEPT ![g] = "woken"]
    BY <1>3 DEF Notify, NotifyOne
  <2> HIDE DEF g
  <2>5. QED
    BY <2>2, <2>3, <2>4, <1>1 DEF TypeOK
<1>4. QED
  BY <1>2, <1>3

LEMMA OwnMoves ==
  ASSUME TypeInv, NEW h \in Polls,
         Pop(h) \/ PopsNothing(h) \/ Arm(h) \/ Wakes(h) \/ PollTimesOut(h)
  PROVE  /\ pollPc[h] # "free" /\ pollPc'[h] # "free"
         /\ Pop(h) \/ Wakes(h) \/ PollTimesOut(h) => pollPc'[h] \in {"pop", "reply"}
         /\ \A g \in Polls \ {h} : pollPc'[g] = pollPc[g]
         /\ UNCHANGED <<tenantVars, inflight, imageVars, poller, clientVars, counters>>
<1>1. UNCHANGED <<tenantVars, inflight, imageVars, poller, clientVars, counters>> /\ pollPc[h] # "free"
  BY DEF Pop, PopsNothing, Arm, Wakes, PollTimesOut, mailVars
<1>2. CASE Pop(h) \/ PopsNothing(h) \/ Arm(h)
  <2>1. /\ \E l \in {"reply", "arm", "woken", "waiting"} : ToPoll(h, l)
        /\ Pop(h) => ToPoll(h, "reply")
        /\ pollPc[h] \in {"pop", "arm"}
    BY <1>2 DEF Pop, PopsNothing, Arm
  <2>2. ~Wakes(h) /\ ~PollTimesOut(h)
    BY <2>1 DEF Wakes, PollTimesOut
  <2>3. QED
    BY <1>1, <2>1, <2>2, PollFrame DEF PollPC
<1>3. CASE Wakes(h) \/ PollTimesOut(h)
  BY <1>1, <1>3, RoundFrame DEF Wakes, PollTimesOut
<1>4. QED
  BY <1>2, <1>3

LEMMA AttachedReply ==
  ASSUME TypeInv, Connected, Attached, faults = 0, NEW h \in Polls, Reply(h)
  PROVE  Attached'
<1> DEFINE c == poller[h]
<1>1. /\ \A g \in Polls : pollPc[g] # "free" => conn[poller[g]] = g
      /\ \A d \in Clients : clientPc[d] = "polling" =>
           conn[d] \in Polls /\ pollPc[conn[d]] # "free" /\ poller[conn[d]] = d
      /\ \A d \in Clients : clientPc[d] \notin {"register", "down"} => TenantOf[d] \in registered
  BY DEF Attached
<1>2. c \in Clients /\ conn[c] = h /\ clientPc[c] = "polling"
  <2>1. c \in Clients /\ conn[c] = h
    BY DEF Reply, TypeInv, Links
  <2>2. h # None
    BY RelayAssumption DEF RelayAssumption
  <2>3. QED
    BY <2>1, <2>2 DEF Connected
<1>3. /\ pollPc'[h] = "free"
      /\ \A g \in Polls \ {h} : pollPc'[g] = pollPc[g] /\ poller'[g] = poller[g]
  BY PollFrame, FreeFrame DEF Reply, PollPC
<1>4. /\ clientPc'[c] \in {"poll", "fetch"}
      /\ \A d \in Clients \ {c} : clientPc'[d] = clientPc[d] /\ conn'[d] = conn[d]
      /\ registered' = registered
  BY <1>2 DEF Reply, ToClient, TypeInv, TypeOK, tenantVars
<1> HIDE DEF c
<1>5. ASSUME NEW g \in Polls, pollPc'[g] # "free" PROVE conn'[poller'[g]] = g
  <2>1. g # h /\ pollPc[g] # "free" /\ poller'[g] = poller[g] /\ conn[poller[g]] = g
    BY <1>1, <1>3, <1>5
  <2>2. poller[g] \in Clients
    BY <2>1 DEF TypeInv, Links
  <2>3. poller[g] # c
    BY <1>2, <2>1
  <2>4. QED
    BY <1>4, <2>1, <2>2, <2>3
<1>6. ASSUME NEW d \in Clients, clientPc'[d] = "polling"
      PROVE  conn'[d] \in Polls /\ pollPc'[conn'[d]] # "free" /\ poller'[conn'[d]] = d
  <2>1. d # c /\ clientPc[d] = "polling" /\ conn'[d] = conn[d]
    BY <1>4, <1>6
  <2>2. conn[d] \in Polls /\ pollPc[conn[d]] # "free" /\ poller[conn[d]] = d
    BY <1>1, <2>1
  <2>3. conn[d] # h
    BY <2>1, <2>2 DEF c
  <2>4. QED
    BY <1>3, <2>1, <2>2, <2>3
<1>7. \A d \in Clients : clientPc'[d] \notin {"register", "down"} => TenantOf[d] \in registered'
  BY <1>1, <1>2, <1>4
<1>8. QED
  BY <1>5, <1>6, <1>7 DEF Attached

LEMMA AttachedOpen ==
  ASSUME TypeInv, Connected, Attached, faults = 0,
         NEW c \in Clients, NEW h \in Polls, OpenPoll(c, h)
  PROVE  Attached'
<1>1. /\ \A g \in Polls : pollPc[g] # "free" => conn[poller[g]] = g
      /\ \A d \in Clients : clientPc[d] = "polling" =>
           conn[d] \in Polls /\ pollPc[conn[d]] # "free" /\ poller[conn[d]] = d
      /\ \A d \in Clients : clientPc[d] \notin {"register", "down"} => TenantOf[d] \in registered
  BY DEF Attached
<1>2. clientPc[c] = "poll" /\ pollPc[h] = "free" /\ TenantOf[c] \in registered
  BY DEF OpenPoll
<1>3. /\ pollPc'[h] = "pop" /\ poller'[h] = c
      /\ \A g \in Polls \ {h} : pollPc'[g] = pollPc[g] /\ poller'[g] = poller[g]
      /\ clientPc'[c] = "polling" /\ conn'[c] = h
      /\ \A d \in Clients \ {c} : clientPc'[d] = clientPc[d] /\ conn'[d] = conn[d]
      /\ registered' = registered
  BY DEF OpenPoll, ToPoll, ToClient, TypeInv, TypeOK, tenantVars
<1>4. ASSUME NEW g \in Polls, pollPc'[g] # "free" PROVE conn'[poller'[g]] = g
  <2>1. CASE g = h
    BY <2>1, <1>3
  <2>2. CASE g # h
    <3>1. pollPc[g] # "free" /\ poller'[g] = poller[g] /\ conn[poller[g]] = g /\ g # None
      BY <2>2, <1>1, <1>3, <1>4, RelayAssumption DEF RelayAssumption
    <3>2. poller[g] \in Clients
      BY <3>1 DEF TypeInv, Links
    <3>3. poller[g] # c
      BY <3>1, <3>2, <1>2 DEF Connected
    <3>4. QED
      BY <3>1, <3>2, <3>3, <1>3
  <2>3. QED
    BY <2>1, <2>2
<1>5. ASSUME NEW d \in Clients, clientPc'[d] = "polling"
      PROVE  conn'[d] \in Polls /\ pollPc'[conn'[d]] # "free" /\ poller'[conn'[d]] = d
  <2>1. CASE d = c
    BY <2>1, <1>3
  <2>2. CASE d # c
    <3>1. conn'[d] = conn[d] /\ conn[d] \in Polls /\ pollPc[conn[d]] # "free" /\ poller[conn[d]] = d
      BY <2>2, <1>1, <1>3, <1>5
    <3>2. conn[d] # h
      BY <3>1, <1>2
    <3>3. QED
      BY <3>1, <3>2, <1>3
  <2>3. QED
    BY <2>1, <2>2
<1>6. \A d \in Clients : clientPc'[d] \notin {"register", "down"} => TenantOf[d] \in registered'
  BY <1>1, <1>2, <1>3
<1>7. QED
  BY <1>4, <1>5, <1>6 DEF Attached

\* The remaining steps of a client take it from one place without a poll to another.
Ashore(c) ==
  \/ Register(c) \/ RegisterRefused(c) \/ RegisterCut(c) \/ ClientRestart(c)
  \/ Fetch(c) \/ FetchFails(c) \/ Result(c) \/ ResultRefused(c) \/ Retry(c)

LEMMA AshoreFrame ==
  ASSUME TypeInv, NEW c \in Clients, Ashore(c)
  PROVE  /\ UNCHANGED <<queue, wakeVars, image, pollVars, conn>>
         /\ registered \subseteq registered'
         /\ clientPc[c] # "polling" /\ clientPc'[c] # "polling"
         /\ \/ clientPc'[c] \in {"register", "down"}
            \/ clientPc[c] \notin {"register", "down"}
            \/ TenantOf[c] \in registered'
         /\ clientPc[c] \in {"poll", "fetch", "post", "sleep"}
              => clientPc'[c] \in {"poll", "fetch", "post", "sleep"}
         /\ \A d \in Clients \ {c} : clientPc'[d] = clientPc[d]
<1>1. clientPc \in [Clients -> ClientPC] /\ c \in Clients
  BY DEF TypeInv, TypeOK
<1>2. CASE Register(c) \/ RegisterRefused(c) \/ RegisterCut(c)
  BY <1>1, <1>2
     DEF Register, RegisterRefused, RegisterCut, ToClient, tenantVars, mailVars, imageVars
<1>3. CASE ClientRestart(c) \/ Fetch(c) \/ FetchFails(c) \/ ResultRefused(c) \/ Retry(c)
  BY <1>1, <1>3
     DEF ClientRestart, Fetch, FetchFails, ResultRefused, Retry, EndJob, ToClient, tenantVars,
         mailVars, imageVars
<1>4. CASE Result(c)
  BY <1>1, <1>4 DEF Result, EndJob, ToClient, tenantVars
<1>5. QED
  BY <1>2, <1>3, <1>4 DEF Ashore

LEMMA AttachedAshore ==
  ASSUME TypeInv, Connected, Attached, faults = 0, NEW c \in Clients, Ashore(c)
  PROVE  Attached'
<1>1. /\ \A g \in Polls : pollPc[g] # "free" => conn[poller[g]] = g
      /\ \A d \in Clients : clientPc[d] = "polling" =>
           conn[d] \in Polls /\ pollPc[conn[d]] # "free" /\ poller[conn[d]] = d
      /\ \A d \in Clients : clientPc[d] \notin {"register", "down"} => TenantOf[d] \in registered
  BY DEF Attached
<1>2. UNCHANGED <<pollPc, poller, conn>>
  BY AshoreFrame DEF pollVars
<1>3. \A g \in Polls : pollPc'[g] # "free" => conn'[poller'[g]] = g
  BY <1>1, <1>2
<1>4. \A d \in Clients : clientPc'[d] = "polling" =>
           conn'[d] \in Polls /\ pollPc'[conn'[d]] # "free" /\ poller'[conn'[d]] = d
  BY <1>1, <1>2, AshoreFrame
<1>5. \A d \in Clients : clientPc'[d] \notin {"register", "down"} => TenantOf[d] \in registered'
  BY <1>1, AshoreFrame
<1>6. QED
  BY <1>3, <1>4, <1>5 DEF Attached

LEMMA AttachedStep == TypeInv /\ Connected /\ Attached /\ [Next]_vars => Attached'
<1> SUFFICES ASSUME TypeInv, Connected, Attached, [Next]_vars, faults' = 0 PROVE Attached'
  BY DEF Attached
<1>1. CASE UNCHANGED vars
  BY <1>1, AttachedQuietly DEF vars, tenantVars, clientVars, pollVars, counters
<1>2. CASE Next
  <2>1. faults = 0
    BY <1>2, FaultFree
  <2>2. ASSUME NEW r \in Requests, Refuse(r) \/ Enqueue(r) \/ ImageStep(r) \/ HangUp(r)
        PROVE  Attached'
    <3>1. UNCHANGED <<registered, clientPc, conn, poller>>
      BY <2>2, ImageFrame DEF tenantVars, clientVars
    <3>2. \A h \in Polls : pollPc'[h] = "free" <=> pollPc[h] = "free"
      <4>1. CASE Notify(r)
        BY <4>1, NotifyMoves
      <4>2. CASE ~Notify(r)
        BY <2>2, <4>2
           DEF Refuse, Enqueue, ImageStep, StopsWaiting, Forget, Unqueue, HangUp, pollVars
      <4>3. QED
        BY <4>1, <4>2
    <3>3. QED
      BY <2>1, <3>1, <3>2, AttachedQuietly
  <2>3. ASSUME NEW h \in Polls,
               Pop(h) \/ PopsNothing(h) \/ Arm(h) \/ Wakes(h) \/ PollTimesOut(h)
        PROVE  Attached'
    BY <2>1, <2>3, OwnMoves, AttachedQuietly DEF tenantVars, clientVars
  <2>4. ASSUME NEW h \in Polls, Reply(h) PROVE Attached'
    BY <2>1, <2>4, AttachedReply
  <2>5. ASSUME NEW c \in Clients, Ashore(c) PROVE Attached'
    BY <2>1, <2>5, AttachedAshore
  <2>6. ASSUME NEW c \in Clients, NEW h \in Polls, OpenPoll(c, h) PROVE Attached'
    BY <2>1, <2>6, AttachedOpen
  <2>7. QED
    BY <1>2, <2>2, <2>3, <2>4, <2>5, <2>6, FaultFree DEF Ashore
<1>3. QED
  BY <1>1, <1>2

\* A client that is going to look at the queue, by itself or because its poll has been
\* woken; one whose poll has seen the queue empty is not.
Alert(c) ==
  \/ clientPc[c] \in {"poll", "fetch", "post", "sleep"}
  \/ clientPc[c] = "polling" /\ pollPc[conn[c]] \in {"pop", "woken", "reply"}

NoneToNotify(t) == \A r \in Requests : TenantOf[r] = t => image[r] # "notify"

Minds(t) == t \in permit \/ \E c \in Clients : TenantOf[c] = t /\ Alert(c)

\* Without lost connections somebody minds every queue, or its notification is coming.
Minded == faults = 0 => \A t \in Tenants : (queue[t] # <<>> /\ NoneToNotify(t)) => Minds(t)

\* A step after which a tenant is minded as before.
LEMMA MindsStill ==
  ASSUME NEW t \in Tenants, Minds(t), permit \subseteq permit',
         UNCHANGED conn,
         \A c \in Clients : /\ clientPc'[c] = clientPc[c]
                            /\ (clientPc[c] = "polling" /\ pollPc[conn[c]] \in {"pop", "woken", "reply"})
                                 => pollPc'[conn[c]] \in {"pop", "woken", "reply"}
  PROVE  Minds(t)'
BY DEF Minds, Alert

\* A poll that is attached makes its client alert when it leaves its rest.
LEMMA AlertPoll ==
  ASSUME TypeInv, Connected, Attached, faults = 0,
         NEW h \in Polls, pollPc[h] # "free", NEW t, PollTenant(h) = t,
         UNCHANGED <<conn, clientPc>>, pollPc'[h] \in {"pop", "woken", "reply"}
  PROVE  Minds(t)'
<1>1. PICK c \in Clients : c = poller[h] /\ conn[c] = h /\ TenantOf[c] = t
  BY DEF TypeInv, Links, Attached, PollTenant
<1>2. clientPc[c] = "polling"
  BY <1>1, RelayAssumption DEF Connected, RelayAssumption
<1>3. Alert(c)'
  BY <1>1, <1>2 DEF Alert
<1>4. QED
  BY <1>1, <1>3 DEF Minds

LEMMA MindedImage ==
  ASSUME TypeInv, Connected, Attached, Minded, faults = 0, NEW r \in Requests,
         Refuse(r) \/ Enqueue(r) \/ ImageStep(r) \/ HangUp(r),
         NEW t \in Tenants, queue'[t] # <<>>, NoneToNotify(t)'
  PROVE  Minds(t)'
<1>1. TypeOK /\ Links /\ TenantOf[r] \in Tenants
  BY RelayAssumption DEF RelayAssumption, TypeInv
<1>2. UNCHANGED <<conn, clientPc, poller>>
  BY ImageFrame DEF clientVars
<1>3. image \in [Requests -> ImagePC] /\ queue \in [Tenants -> Seq(Requests)]
  BY <1>1 DEF TypeOK
<1>4. CASE Enqueue(r)
  <2>1. t # TenantOf[r]
    BY <1>3, <1>4 DEF Enqueue, ToImage, NoneToNotify
  <2>2. queue'[t] = queue[t] /\ \A x \in Requests : TenantOf[x] = t => image'[x] = image[x]
    BY <1>3, <1>4, <2>1 DEF Enqueue, ToImage
  <2>3. Minds(t)
    BY <2>2 DEF NoneToNotify, Minded
  <2>4. UNCHANGED <<permit, pollPc>>
    BY <1>4 DEF Enqueue, wakeVars, pollVars
  <2>5. QED
    BY <1>2, <2>3, <2>4, MindsStill
<1>5. CASE Notify(r)
  <2>1. CASE t = TenantOf[r]
    <3>1. CASE waiters[t] = <<>>
      BY <1>5, <2>1, <3>1 DEF Notify, NotifyOne, Minds
    <3>2. CASE waiters[t] # <<>>
      <4> DEFINE g == Head(waiters[t])
      <4>1. waiters[t] \in Seq(Polls)
        BY <1>1 DEF TypeOK
      <4>2. g \in Polls /\ g \in Elements(waiters[t])
        BY <3>2, <4>1, TailFacts
      <4>3. pollPc' = [pollPc EXCEPT ![g] = "woken"]
        BY <1>5, <2>1, <3>2 DEF Notify, NotifyOne
      <4> HIDE DEF g
      <4>4. pollPc[g] = "waiting" /\ PollTenant(g) = t
        BY <1>1, <4>2 DEF Links
      <4>5. pollPc'[g] = "woken"
        BY <1>1, <4>2, <4>3 DEF TypeOK
      <4>6. QED
        BY <1>2, <4>2, <4>4, <4>5, AlertPoll
    <3>3. QED
      BY <3>1, <3>2
  <2>2. CASE t # TenantOf[r]
    <3>1. queue'[t] = queue[t] /\ \A x \in Requests : TenantOf[x] = t => image'[x] = image[x]
      BY <1>3, <1>5, <2>2 DEF Notify, ToImage, mailVars
    <3>2. Minds(t)
      BY <3>1 DEF NoneToNotify, Minded
    <3>3. permit \subseteq permit'
      BY <1>5 DEF Notify, NotifyOne
    <3>4. \A c \in Clients : clientPc[c] = "polling" => conn[c] \in Polls
      BY DEF Attached
    <3>5. \A c \in Clients :
            (clientPc[c] = "polling" /\ pollPc[conn[c]] \in {"pop", "woken", "reply"})
              => pollPc'[conn[c]] \in {"pop", "woken", "reply"}
      BY <1>5, <3>4, NotifyMoves
    <3>6. QED
      BY <1>2, <3>2, <3>3, <3>5, MindsStill
  <2>3. QED
    BY <2>1, <2>2
<1>6. CASE Refuse(r) \/ StopsWaiting(r) \/ Forget(r) \/ Unqueue(r) \/ HangUp(r)
  <2>1. UNCHANGED <<permit, pollPc>>
    BY <1>6 DEF Refuse, StopsWaiting, Forget, Unqueue, HangUp, wakeVars, pollVars
  <2>2. image[r] # "notify" /\ \A x \in Requests \ {r} : image'[x] = image[x]
    BY <1>3, <1>6 DEF Refuse, StopsWaiting, Forget, Unqueue, HangUp, ToImage
  <2>3. queue[t] # <<>>
    <3>1. CASE queue' = queue
      BY <3>1
    <3>2. CASE Unqueue(r)
      <4>1. Without(<<>>, r) = <<>>
        BY EmptyFacts DEF Without
      <4>2. queue'[t] = queue[t] \/ queue'[t] = Without(queue[t], r)
        BY <1>3, <3>2 DEF Unqueue
      <4>3. QED
        BY <4>1, <4>2
    <3>3. QED
      BY <1>6, <3>1, <3>2 DEF Refuse, StopsWaiting, Forget, HangUp, mailVars
  <2>4. Minds(t)
    BY <2>2, <2>3 DEF NoneToNotify, Minded
  <2>5. QED
    BY <1>2, <2>1, <2>4, MindsStill
<1>7. QED
  BY <1>4, <1>5, <1>6 DEF ImageStep

LEMMA MindedPoll ==
  ASSUME TypeInv, Connected, Attached, Minded, faults = 0, NEW h \in Polls,
         Pop(h) \/ PopsNothing(h) \/ Arm(h) \/ Wakes(h) \/ PollTimesOut(h),
         NEW t \in Tenants, queue'[t] # <<>>, NoneToNotify(t)'
  PROVE  Minds(t)'
<1>1. /\ pollPc[h] # "free" /\ \A g \in Polls \ {h} : pollPc'[g] = pollPc[g]
      /\ UNCHANGED <<conn, clientPc, poller, image>>
  BY OwnMoves DEF clientVars, imageVars
<1>2. poller[h] \in Clients /\ PollTenant(h) \in Tenants /\ PollTenant(h)' = PollTenant(h)
  BY <1>1, RelayAssumption DEF TypeInv, Links, PollTenant, RelayAssumption
<1>3. /\ queue \in [Tenants -> Seq(Requests)]
      /\ \A c \in Clients : clientPc[c] = "polling" =>
           conn[c] \in Polls /\ poller[conn[c]] = c
  BY DEF TypeInv, TypeOK, Attached
<1>4. CASE pollPc'[h] \in {"pop", "woken", "reply"}
  <2>1. CASE t = PollTenant(h)
    BY <1>1, <1>2, <1>4, <2>1, AlertPoll
  <2>2. CASE t # PollTenant(h)
    <3>1. queue'[t] = queue[t]
      BY <1>3, <2>2 DEF Pop, PopsNothing, Arm, Wakes, PollTimesOut, mailVars
    <3>2. Minds(t)
      BY <1>1, <3>1 DEF NoneToNotify, Minded
    <3>3. CASE t \in permit
      <4>1. t \in permit'
        BY <2>2, <3>3 DEF Pop, PopsNothing, Arm, Wakes, PollTimesOut, wakeVars
      <4>2. QED
        BY <4>1 DEF Minds
    <3>4. CASE \E c \in Clients : TenantOf[c] = t /\ Alert(c)
      BY <1>1, <1>3, <1>4, <3>4 DEF Alert, Minds
    <3>5. QED
      BY <3>2, <3>3, <3>4 DEF Minds
  <2>3. QED
    BY <2>1, <2>2
<1>5. CASE PopsNothing(h)
  <2>1. t # PollTenant(h) /\ queue'[t] = queue[t] /\ permit' = permit
    BY <1>5 DEF PopsNothing, mailVars, wakeVars
  <2>2. Minds(t)
    BY <1>1, <2>1 DEF NoneToNotify, Minded
  <2>3. \A c \in Clients : TenantOf[c] = t /\ clientPc[c] = "polling" => conn[c] # h
    BY <1>3, <2>1 DEF PollTenant
  <2>4. QED
    BY <1>1, <1>3, <2>1, <2>2, <2>3 DEF Minds, Alert
<1>6. CASE Arm(h) /\ pollPc'[h] \notin {"pop", "woken", "reply"}
  <2>1. PollTenant(h) \notin permit
    BY <1>6, PollFrame DEF Arm, PollPC
  <2>2. queue'[t] = queue[t] /\ permit' = permit /\ pollPc[h] = "arm"
    BY <1>6, <2>1 DEF Arm, mailVars
  <2>3. Minds(t)
    BY <1>1, <2>2 DEF NoneToNotify, Minded
  <2>4. QED
    BY <1>1, <1>3, <2>2, <2>3 DEF Minds, Alert
<1>7. QED
  BY <1>4, <1>5, <1>6, OwnMoves

LEMMA MindedReply ==
  ASSUME TypeInv, Connected, Attached, Minded, faults = 0, NEW h \in Polls, Reply(h),
         NEW t \in Tenants, queue'[t] # <<>>, NoneToNotify(t)'
  PROVE  Minds(t)'
<1> DEFINE c == poller[h]
<1>1. c \in Clients
  BY DEF TypeInv, Links, Reply
<1>2. /\ clientPc'[c] \in {"poll", "fetch"}
      /\ \A d \in Clients \ {c} : clientPc'[d] = clientPc[d] /\ conn'[d] = conn[d]
      /\ \A g \in Polls \ {h} : pollPc'[g] = pollPc[g]
      /\ UNCHANGED <<queue, image, permit>>
  BY <1>1
     DEF Reply, ToClient, ToPoll, TypeInv, TypeOK, mailVars, imageVars, wakeVars
<1>3. Minds(t)
  BY <1>2 DEF NoneToNotify, Minded
<1>4. CASE t \in permit
  BY <1>2, <1>4 DEF Minds
<1>5. ASSUME NEW d \in Clients, TenantOf[d] = t, Alert(d) PROVE Minds(t)'
  <2>1. CASE d = c
    <3>1. Alert(d)'
      BY <1>2, <2>1 DEF Alert
    <3>2. QED
      BY <1>5, <3>1 DEF Minds
  <2>2. CASE d # c
    <3>1. clientPc[d] = "polling" => conn[d] \in Polls /\ conn[d] # h
      BY <2>2 DEF Attached
    <3>2. Alert(d)'
      BY <1>2, <1>5, <2>2, <3>1 DEF Alert
    <3>3. QED
      BY <1>5, <3>2 DEF Minds
  <2>3. QED
    BY <2>1, <2>2
<1>6. QED
  BY <1>3, <1>4, <1>5 DEF Minds

LEMMA MindedClient ==
  ASSUME TypeInv, Connected, Attached, Minded, faults = 0, NEW c \in Clients,
         Ashore(c) \/ \E h \in Polls : OpenPoll(c, h),
         NEW t \in Tenants, queue'[t] # <<>>, NoneToNotify(t)'
  PROVE  Minds(t)'
<1>1. CASE Ashore(c)
  <2>1. /\ UNCHANGED <<queue, permit, image, pollPc, conn>>
        /\ \A d \in Clients \ {c} : clientPc'[d] = clientPc[d]
        /\ clientPc[c] # "polling"
        /\ clientPc[c] \in {"poll", "fetch", "post", "sleep"}
             => clientPc'[c] \in {"poll", "fetch", "post", "sleep"}
    BY <1>1, AshoreFrame DEF wakeVars, pollVars
  <2>2. Minds(t)
    BY <2>1 DEF NoneToNotify, Minded
  <2>3. \A d \in Clients : Alert(d) => Alert(d)'
    BY <2>1 DEF Alert
  <2>4. QED
    BY <2>1, <2>2, <2>3 DEF Minds
<1>2. ASSUME NEW h \in Polls, OpenPoll(c, h) PROVE Minds(t)'
  <2>1. /\ pollPc[h] = "free" /\ pollPc'[h] = "pop"
        /\ \A g \in Polls \ {h} : pollPc'[g] = pollPc[g]
        /\ clientPc'[c] = "polling" /\ conn'[c] = h
        /\ \A d \in Clients \ {c} : clientPc'[d] = clientPc[d] /\ conn'[d] = conn[d]
        /\ UNCHANGED <<queue, image, permit>>
    BY <1>2 DEF OpenPoll, ToPoll, ToClient, TypeInv, TypeOK, mailVars, imageVars, wakeVars
  <2>2. Minds(t)
    BY <2>1 DEF NoneToNotify, Minded
  <2>3. ASSUME NEW d \in Clients, Alert(d) PROVE Alert(d)'
    <3>1. CASE d = c
      BY <2>1, <3>1 DEF Alert
    <3>2. CASE d # c
      <4>1. clientPc[d] = "polling" => conn[d] \in Polls /\ conn[d] # h
        BY <2>1 DEF Attached
      <4>2. QED
        BY <2>1, <2>3, <3>2, <4>1 DEF Alert
    <3>3. QED
      BY <3>1, <3>2
  <2>4. QED
    BY <2>1, <2>2, <2>3 DEF Minds
<1>3. QED
  BY <1>1, <1>2

LEMMA MindedStep == TypeInv /\ Connected /\ Attached /\ Minded /\ [Next]_vars => Minded'
<1> SUFFICES ASSUME TypeInv, Connected, Attached, Minded, [Next]_vars, faults' = 0,
                    NEW t \in Tenants, queue'[t] # <<>>, NoneToNotify(t)'
             PROVE  Minds(t)'
  BY DEF Minded
<1>1. CASE UNCHANGED vars
  <2>1. faults = 0 /\ UNCHANGED <<queue, image, permit, pollPc, conn, clientPc>>
    BY <1>1
       DEF vars, counters, mailVars, imageVars, wakeVars, pollVars, clientVars
  <2>2. Minds(t)
    BY <2>1 DEF Minded, NoneToNotify
  <2>3. QED
    BY <2>1, <2>2, MindsStill
<1>2. CASE Next
  <2>1. faults = 0
    BY <1>2, FaultFree
  <2>2. QED
    BY <1>2, <2>1, FaultFree, MindedImage, MindedPoll, MindedReply, MindedClient DEF Ashore
<1>3. QED
  BY <1>1, <1>2

\* As long as no connection is lost, the clients of a tenant never all sleep on a job,
\* for any number of clients, requests and tenants (poll, notify_one).
THEOREM WakeupsReach == Spec => []NoLostWakeup
<1>1. Init => Connected /\ Permits /\ Attached /\ Minded
  BY DEF Init, Connected, Permits, Attached, Minded
<1>2. Spec => [](TypeInv /\ Connected /\ Permits /\ Attached /\ Minded)
  BY <1>1, InitType, TypeStep, ConnectedStep, PermitsStep, AttachedStep, MindedStep, PTL
     DEF Spec
<1>3. Permits /\ Minded => NoLostWakeup
  BY DEF Permits, Minded, Minds, NoneToNotify, Alert, Awake, NoLostWakeup
<1>4. QED
  BY <1>2, <1>3, PTL
=============================================================================
