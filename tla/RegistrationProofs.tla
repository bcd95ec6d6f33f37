-------------------------- MODULE RegistrationProofs --------------------------
(***************************************************************************)
(* Theorems about Registration, and about Identity and TenantStore, which  *)
(* it composes, for all sets of clients, process ids, secrets, tenants and *)
(* all bounds.  Requests are finitely many.                                *)
(***************************************************************************)
EXTENDS Registration, FiniteSetTheorems, FunctionTheorems, TLAPS

-----------------------------------------------------------------------------
(* The inductive invariant: the identity file *)

Proven == [secret : Secrets, proven : {TRUE}]

\* A client has a process id, of its own, unless it is down.
PidsDiffer ==
  /\ \A p \in Processes : pc[p] # "down" <=> pid[p] # None
  /\ \A p, q \in Processes : pid[p] = pid[q] /\ pid[p] # None => p = q

\* A client that makes an identity found none, and so the file has none yet or a good one.
MakingOf(p) ==
  pc[p] \in {"create", "write", "link", "lost", "adopt"} =>
    /\ hold[p] \in Proven
    /\ InFile \in {None} \union Proven
    /\ pc[p] = "link" => data[Temp(p, "tmp")] = hold[p]
    /\ pc[p] \in {"lost", "adopt"} => InFile # None

\* A client that migrates an identity, or has one, has the secret in the file.
HavingOf(p) ==
  pc[p] \in {"unlink", "copy", "rewrite", "rename", "own"} =>
    /\ hold[p] \in Proven
    /\ InFile \in Identities /\ InFile.secret = hold[p].secret
    /\ pc[p] = "rename" => data[Temp(p, "replace")] = hold[p]

\* As long as nothing has failed, a temporary file is one that a client is at work on.
AtWork(k) == IF k = "tmp" THEN {"write", "link", "unlink", "lost"} ELSE {"rewrite", "rename"}

NoLeftovers ==
  faults = 0 => \A i \in Pids, k \in {"tmp", "replace"} : data[<<i, k>>] # None =>
                  \E p \in Processes : pid[p] = i /\ pc[p] \in AtWork(k)

IdentityInv ==
  /\ IdentityTypeOK /\ PidsDiffer /\ NoLeftovers /\ NoSpuriousFailure
  /\ \A p \in Processes : MakingOf(p) /\ HavingOf(p)

-----------------------------------------------------------------------------
(* The inductive invariant: the store *)

Working(r) == stage[r] \in {"open", "write", "wrote", "rename"}

SmallSets == {S \in SUBSET Tenants : IsFiniteSet(S) /\ Cardinality(S) =< MaxTenants}

Contents == {s \in Seq(SmallSets) : Len(s) =< MaxTenants}

\* TypeOK, and that sets of tenants are finite and files are sequences of them.
RequestTypes ==
  /\ lock \in Requests \union {Absent}
  /\ stage \in [Requests -> {"none", "asked", "open", "write", "wrote", "rename"}]
  /\ want \in [Requests -> Tenants \union {Absent}]
  /\ snapshot \in [Requests -> SmallSets]
  /\ handle \in [Requests -> Files \union {Absent}]
  /\ orphan \subseteq Requests

ServerTypes ==
  /\ up \in BOOLEAN /\ overlap \in BOOLEAN
  /\ tenants \in SmallSets
  /\ store \in Files \union {Absent} /\ temporary \in Files \union {Absent}
  /\ content \in [Files -> Contents]
  /\ confirmed \subseteq Tenants /\ cut \subseteq Tenants /\ forgotten \subseteq Tenants
  /\ drops \in 0..MaxDrops /\ errors \in 0..MaxErrors

\* Where a registration stands says what it has.
InHand(r) ==
  /\ stage[r] # "none" => up /\ want[r] \in Tenants
  /\ stage[r] \in {"none", "asked", "open"} => handle[r] = Absent
  /\ stage[r] \in {"write", "wrote", "rename"} => handle[r] \in Files
  /\ r \in orphan => Working(r)
  /\ lock = r <=> Working(r) /\ r \notin orphan

Entries(S) == [k \in 1..Cardinality(S) |-> S]

\* What a file that held old holds once the set S has been written over it.
Overwritten(S, old) == Entries(S) \o SubSeq(old, Cardinality(S) + 1, Len(old))

\* A writer writes all tenants, one of them new to the server, to the temporary file.
InFull(r) ==
  Working(r) =>
    /\ snapshot[r] = tenants /\ want[r] \in tenants /\ want[r] \notin Stored \ forgotten
    /\ stage[r] = "write" => handle[r] = temporary /\ content[temporary] = <<>>
    /\ stage[r] \in {"wrote", "rename"} =>
         handle[r] = temporary /\ content[temporary] = Entries(tenants)

\* Without an overlap there is one writer at most, and the temporary file is not the store.
OneWriter ==
  ~overlap =>
    /\ \A q, r \in Requests : Working(q) /\ Working(r) => q = r
    /\ \A r \in Requests : InFull(r)
    /\ store # Absent => store # temporary

\* The server knows what is stored, except what it could not read, and what it knows is
\* stored, except what the writer is about to store and what a caller that hung up has left.
InMemory ==
  ~overlap /\ up =>
    /\ Stored \subseteq tenants \union forgotten
    /\ \A t \in tenants : t \in Stored \union cut \/ (lock # Absent /\ t = want[lock])

StoreInv ==
  /\ RequestTypes /\ ServerTypes /\ \A r \in Requests : InHand(r)
  /\ OneWriter /\ InMemory /\ StoreWhole /\ ConfirmedStored

-----------------------------------------------------------------------------
(* The inductive invariant: both *)

\* A tenant that the server has heard of and not forgotten.
HasHeard(t) ==
  \/ t \in tenants \/ t \in confirmed
  \/ \E r \in Requests : t = want[r] \/ t \in snapshot[r]
  \/ \E f \in Files : \E k \in DOMAIN content[f] : t \in content[f][k]

ClientsInv ==
  /\ asking \union registered \subseteq {p \in Processes : pc[p] = "own"}
  /\ \A s \in Secrets : HasHeard(s) => s = FileSecret

RegistrationInv == IdentityInv /\ StoreInv /\ ClientsInv
-----------------------------------------------------------------------------
(* What the steps of a client leave alone *)

\* The file gets an identity when there is none, or a better proof of the one it has.
FileMoves ==
  \/ InFile' = InFile
  \/ InFile = None /\ InFile' \in Proven
  \/ InFile \in Identities /\ InFile' \in Proven /\ InFile'.secret = InFile.secret

OthersKeep(p) ==
  \A q \in Processes \ {p} :
    /\ pc'[q] = pc[q] /\ pid'[q] = pid[q] /\ hold'[q] = hold[q]
    /\ pid[q] # None => \A k \in {"tmp", "replace"} : data'[<<pid[q], k>>] = data[<<pid[q], k>>]

LEMMA ProvenIdentities == Proven \subseteq Identities /\ None \notin Identities /\ Broken \notin Identities
BY IdentityAssumption DEF IdentityAssumption, Proven, Identities

\* So what another client makes or has is as good as before.
LEMMA OthersKept ==
  ASSUME IdentityTypeOK, PidsDiffer, FileMoves, NEW p \in Processes, OthersKeep(p),
         NEW q \in Processes \ {p}, MakingOf(q), HavingOf(q)
  PROVE  MakingOf(q)' /\ HavingOf(q)'
<1>1. pc'[q] = pc[q] /\ pid'[q] = pid[q] /\ hold'[q] = hold[q]
  BY DEF OthersKeep
<1>2. /\ InFile \in {None} \union Proven => InFile' \in {None} \union Proven
      /\ InFile \in {None} \union Proven /\ InFile # None => InFile' # None
      /\ InFile \in Identities => InFile' \in Identities /\ InFile'.secret = InFile.secret
  BY ProvenIdentities DEF FileMoves
<1>3. ASSUME pc[q] # "down", NEW k \in {"tmp", "replace"}
      PROVE  data'[Temp(q, k)'] = data[Temp(q, k)]
  BY <1>1, <1>3 DEF OthersKeep, PidsDiffer, Temp
<1>4. MakingOf(q)'
  BY <1>1, <1>2, <1>3 DEF MakingOf
<1>5. HavingOf(q)'
  BY <1>1, <1>2, <1>3 DEF HavingOf
<1>6. QED
  BY <1>4, <1>5

\* What is asked of the step of a client, once the others are seen to.
StepKeeps(p) ==
  /\ FileMoves /\ OthersKeep(p)
  /\ IdentityTypeOK' /\ PidsDiffer' /\ NoLeftovers' /\ NoSpuriousFailure'
  /\ MakingOf(p)' /\ HavingOf(p)'

LEMMA StepSuffices ==
  ASSUME IdentityInv, NEW p \in Processes, StepKeeps(p)
  PROVE  IdentityInv' /\ FileMoves
<1>1. ASSUME NEW q \in Processes
      PROVE  MakingOf(q)' /\ HavingOf(q)'
  <2>1. CASE q = p
    BY <2>1 DEF StepKeeps
  <2>2. CASE q # p
    BY <2>2, OthersKept DEF StepKeeps, IdentityInv
  <2>3. QED
    BY <2>1, <2>2
<1>2. QED
  BY <1>1 DEF IdentityInv, StepKeeps

\* A client that is not down has two temporary names, which are not those of others.
LEMMA NameFacts ==
  ASSUME IdentityTypeOK, PidsDiffer, NEW p \in Processes, pc[p] # "down"
  PROVE  /\ pid[p] \in Pids
         /\ \A k \in {"tmp", "replace"} : Temp(p, k) = <<pid[p], k>> /\ Temp(p, k) \in Names
                                          /\ Temp(p, k) # File
         /\ \A q \in Processes \ {p} : pid[q] # pid[p]
         /\ File \in Names
         /\ data \in [Names -> Identities \union {Broken, None}]
<1>1. pid[p] \in Pids
  BY DEF IdentityTypeOK, PidsDiffer
<1>2. QED
  BY <1>1 DEF IdentityTypeOK, PidsDiffer, Temp, Temps, Names, File

\* A temporary file stays one that a client is at work on.
LEMMA LeftoversKept ==
  ASSUME NoLeftovers, NEW p \in Processes, OthersKeep(p), faults' = 0 => faults = 0,
         \A i \in Pids, k \in {"tmp", "replace"} : data'[<<i, k>>] # None =>
           \/ data[<<i, k>>] # None /\ (pid[p] = i => pc[p] \notin AtWork(k))
           \/ pid'[p] = i /\ pc'[p] \in AtWork(k)
  PROVE  NoLeftovers'
<1> SUFFICES ASSUME faults' = 0, NEW i \in Pids, NEW k \in {"tmp", "replace"},
                    data'[<<i, k>>] # None
             PROVE  \E q \in Processes : pid'[q] = i /\ pc'[q] \in AtWork(k)
  BY DEF NoLeftovers, AtWork
<1>1. CASE data[<<i, k>>] # None /\ (pid[p] = i => pc[p] \notin AtWork(k))
  <2>1. PICK q \in Processes : pid[q] = i /\ pc[q] \in AtWork(k)
    BY <1>1 DEF NoLeftovers
  <2>2. q \in Processes \ {p}
    BY <1>1, <2>1
  <2>3. QED
    BY <2>1, <2>2 DEF OthersKeep
<1>2. QED
  BY <1>1

\* A client that goes on to stage l, with nothing of it in a temporary file or the file.
LEMMA GoesOn ==
  ASSUME IdentityInv, NEW p \in Processes, pc[p] # "down",
         NEW l \in Stages \ {"down"}, l = "failed" => InFile = Broken,
         pc[p] \notin AtWork("tmp") \union AtWork("replace"),
         Goto(p, l), UNCHANGED <<data, pid, starts, faults>>,
         NEW h \in Identities \union {None}, hold' = [hold EXCEPT ![p] = h],
         made' \subseteq Secrets
  PROVE  /\ FileMoves /\ OthersKeep(p) /\ InFile' = InFile /\ pc'[p] = l /\ hold'[p] = h
         /\ IdentityTypeOK' /\ PidsDiffer' /\ NoLeftovers' /\ NoSpuriousFailure'
<1>0. IdentityTypeOK /\ PidsDiffer /\ NoLeftovers /\ NoSpuriousFailure
  BY DEF IdentityInv
<1>1. pc' = [pc EXCEPT ![p] = l] /\ pc \in [Processes -> Stages]
  BY <1>0 DEF Goto, IdentityTypeOK
<1>2. FileMoves /\ InFile' = InFile
  BY DEF FileMoves, InFile
<1>3. OthersKeep(p) /\ pc'[p] = l /\ hold'[p] = h
  BY <1>0, <1>1 DEF OthersKeep, IdentityTypeOK
<1>4. IdentityTypeOK'
  BY <1>0, <1>1 DEF IdentityTypeOK
<1>5. PidsDiffer'
  BY <1>0, <1>1 DEF PidsDiffer
<1>6. NoLeftovers'
  <2>1. \A k \in {"tmp", "replace"} : pc[p] \notin AtWork(k)
    OBVIOUS
  <2>2. QED
    BY <1>0, <1>3, <2>1, LeftoversKept
<1>7. NoSpuriousFailure'
  BY <1>0, <1>1 DEF NoSpuriousFailure, InFile
<1>8. QED
  BY <1>2, <1>3, <1>4, <1>5, <1>6, <1>7

\* A client that goes on to stage l with v in a temporary file.
LEMMA WritesTemp ==
  ASSUME IdentityInv, NEW p \in Processes, pc[p] # "down", NEW k \in {"tmp", "replace"},
         NEW v \in Identities \union {Broken, None}, data' = [data EXCEPT ![Temp(p, k)] = v],
         NEW l \in Stages \ {"down"}, Goto(p, l), l = "failed" => faults' > 0,
         UNCHANGED <<pid, hold, made, starts>>, faults' \in faults..MaxFaults,
         v # None => l \in AtWork(k), \A j \in {"tmp", "replace"} \ {k} : pc[p] \notin AtWork(j)
  PROVE  /\ FileMoves /\ OthersKeep(p) /\ InFile' = InFile /\ pc'[p] = l /\ hold'[p] = hold[p]
         /\ data'[Temp(p, k)'] = v
         /\ IdentityTypeOK' /\ PidsDiffer' /\ NoLeftovers' /\ NoSpuriousFailure'
<1>0. /\ IdentityTypeOK /\ PidsDiffer /\ NoLeftovers /\ NoSpuriousFailure
      /\ pc' = [pc EXCEPT ![p] = l] /\ pc \in [Processes -> Stages] /\ faults \in 0..MaxFaults
      /\ MaxFaults \in Nat
  BY IdentityAssumption DEF IdentityAssumption, IdentityInv, IdentityTypeOK, Goto
<1>1. /\ pid[p] \in Pids /\ Temp(p, k) = <<pid[p], k>> /\ Temp(p, k) \in Names
      /\ Temp(p, k) # File /\ File \in Names
      /\ \A q \in Processes \ {p} : pid[q] # pid[p]
      /\ data \in [Names -> Identities \union {Broken, None}]
  BY <1>0, NameFacts
<1>2. FileMoves /\ InFile' = InFile
  BY <1>1 DEF FileMoves, InFile
<1>3. pc'[p] = l /\ hold'[p] = hold[p] /\ data'[Temp(p, k)'] = v
  BY <1>0, <1>1 DEF Temp
<1>4. \A i \in Pids, j \in {"tmp", "replace"} :
        <<i, j>> # <<pid[p], k>> => data'[<<i, j>>] = data[<<i, j>>]
  BY <1>1 DEF Temps, Names
<1>5. OthersKeep(p)
  <2>1. \A q \in Processes \ {p} : pc'[q] = pc[q] /\ pid'[q] = pid[q] /\ hold'[q] = hold[q]
    BY <1>0
  <2>2. \A q \in Processes \ {p} : pid[q] # None => pid[q] \in Pids
    BY <1>0 DEF IdentityTypeOK
  <2>3. QED
    BY <1>1, <1>4, <2>1, <2>2 DEF OthersKeep
<1>6. IdentityTypeOK'
  <2>1. data' \in [Names -> Identities \union {Broken, None}] /\ faults' \in 0..MaxFaults
    BY <1>0, <1>1
  <2>2. pc' \in [Processes -> Stages]
    BY <1>0
  <2>3. QED
    BY <1>0, <2>1, <2>2 DEF IdentityTypeOK
<1>7. PidsDiffer'
  BY <1>0 DEF PidsDiffer
<1>8. NoLeftovers'
  <2>1. ASSUME NEW i \in Pids, NEW j \in {"tmp", "replace"}, data'[<<i, j>>] # None
        PROVE  \/ data[<<i, j>>] # None /\ (pid[p] = i => pc[p] \notin AtWork(j))
               \/ pid'[p] = i /\ pc'[p] \in AtWork(j)
    <3>1. CASE <<i, j>> = <<pid[p], k>>
      <4>1. data'[<<i, j>>] = v /\ i = pid[p] /\ j = k
        BY <1>1, <3>1
      <4>2. QED
        BY <1>3, <2>1, <4>1
    <3>2. CASE <<i, j>> # <<pid[p], k>>
      <4>1. pid[p] = i => j \in {"tmp", "replace"} \ {k}
        BY <3>2
      <4>2. QED
        BY <1>4, <2>1, <3>2, <4>1
    <3>3. QED
      BY <3>1, <3>2
  <2>2. faults' = 0 => faults = 0
    BY <1>0
  <2>3. QED
    BY <1>0, <1>5, <2>1, <2>2, LeftoversKept
<1>9. NoSpuriousFailure'
  <2>1. faults > 0 => faults' > 0
    BY <1>0
  <2>2. \A q \in Processes : q # p => pc'[q] = pc[q]
    BY <1>0
  <2>3. QED
    BY <1>0, <1>2, <1>3, <2>1, <2>2 DEF NoSpuriousFailure
<1>10. QED
  BY <1>2, <1>3, <1>5, <1>6, <1>7, <1>8, <1>9

-----------------------------------------------------------------------------
(* The steps of a client *)

LEMMA StageFacts ==
  ASSUME IdentityInv, NEW p \in Processes
  PROVE  /\ hold[p] \in Identities \union {None} /\ pc[p] \in Stages
         /\ InFile \in Identities \union {Broken, None}
         /\ made \subseteq Secrets /\ faults \in Nat /\ MaxFaults \in Nat
         /\ MakingOf(p) /\ HavingOf(p)
<1>1. IdentityTypeOK /\ MakingOf(p) /\ HavingOf(p) /\ MaxFaults \in Nat
  BY IdentityAssumption DEF IdentityInv, IdentityAssumption
<1>2. File \in Names
  BY DEF Names
<1>3. QED
  BY <1>1, <1>2 DEF IdentityTypeOK, InFile

LEMMA GenerateKeeps ==
  ASSUME IdentityInv, NEW p \in Processes, Generate(p)
  PROVE  StepKeeps(p)
<1>1. PICK s \in Secrets \ made :
        /\ made' = made \union {s}
        /\ hold' = [hold EXCEPT ![p] = [secret |-> s, proven |-> TRUE]]
  BY DEF Generate
<1>2. [secret |-> s, proven |-> TRUE] \in Proven
  BY DEF Proven
<1>3. /\ FileMoves /\ OthersKeep(p) /\ InFile' = InFile /\ pc'[p] = "create"
      /\ hold'[p] = [secret |-> s, proven |-> TRUE]
      /\ IdentityTypeOK' /\ PidsDiffer' /\ NoLeftovers' /\ NoSpuriousFailure'
  <2>1. made' \subseteq Secrets
    BY <1>1, StageFacts
  <2>2. "create" \in Stages \ {"down"} /\ pc[p] = "load" /\ Goto(p, "create")
        /\ UNCHANGED <<data, pid, starts, faults>>
    BY DEF Generate, Stages
  <2>3. pc[p] \notin AtWork("tmp") \union AtWork("replace")
    BY <2>2 DEF AtWork
  <2>4. QED
    BY <1>1, <1>2, <2>1, <2>2, <2>3, GoesOn, ProvenIdentities
<1>4. InFile = None
  BY DEF Generate
<1>5. MakingOf(p)' /\ HavingOf(p)'
  BY <1>2, <1>3, <1>4 DEF MakingOf, HavingOf
<1>6. QED
  BY <1>3, <1>5 DEF StepKeeps

LEMMA LoadKeeps ==
  ASSUME IdentityInv, NEW p \in Processes, Load(p)
  PROVE  StepKeeps(p)
<1>0. pc[p] = "load" /\ InFile # None /\ UNCHANGED <<data, pid, made, starts, faults>>
  BY DEF Load
<1>1. pc[p] \notin AtWork("tmp") \union AtWork("replace") /\ made' \subseteq Secrets
  BY <1>0, StageFacts DEF AtWork
<1>2. CASE InFile = Broken
  <2>1. Goto(p, "failed") /\ hold' = hold /\ "failed" \in Stages \ {"down"}
    BY <1>2 DEF Load, Stages
  <2>2. hold' = [hold EXCEPT ![p] = hold[p]]
    BY <2>1 DEF IdentityInv, IdentityTypeOK
  <2>3. /\ FileMoves /\ OthersKeep(p) /\ InFile' = InFile /\ pc'[p] = "failed"
        /\ IdentityTypeOK' /\ PidsDiffer' /\ NoLeftovers' /\ NoSpuriousFailure'
    BY <1>0, <1>1, <1>2, <2>1, <2>2, StageFacts, GoesOn
  <2>4. QED
    BY <2>3 DEF StepKeeps, MakingOf, HavingOf
<1>3. CASE InFile # Broken
  <2>1. InFile \in Identities
    BY <1>0, <1>3, StageFacts
  <2>2. PICK h : h = [InFile EXCEPT !.proven = TRUE]
    OBVIOUS
  <2>3. h \in Proven /\ h.secret = InFile.secret
    BY <2>1, <2>2 DEF Identities, Proven
  <2>4. PICK l \in {"own", "copy"} : Goto(p, l)
    BY <1>3 DEF Load
  <2>5. hold' = [hold EXCEPT ![p] = h] /\ l \in Stages \ {"down"} /\ l # "failed"
    BY <1>3, <2>2, <2>4 DEF Load, Stages
  <2>6. /\ FileMoves /\ OthersKeep(p) /\ InFile' = InFile /\ pc'[p] = l /\ hold'[p] = h
        /\ IdentityTypeOK' /\ PidsDiffer' /\ NoLeftovers' /\ NoSpuriousFailure'
    BY <1>0, <1>1, <2>3, <2>4, <2>5, GoesOn, ProvenIdentities
  <2>7. MakingOf(p)' /\ HavingOf(p)'
    BY <2>1, <2>3, <2>4, <2>6 DEF MakingOf, HavingOf
  <2>8. QED
    BY <2>6, <2>7 DEF StepKeeps
<1>4. QED
  BY <1>2, <1>3

\* As long as nothing has failed, a temporary file of a client that needs one is not there.
LEMMA OpenNewKeeps ==
  ASSUME IdentityInv, NEW p \in Processes, NEW k \in {"tmp", "replace"}, NEW next \in AtWork(k),
         OpenNew(p, k, next), pc[p] \in {"create", "copy"},
         UNCHANGED <<pid, hold, made, starts, faults>>
  PROVE  /\ FileMoves /\ OthersKeep(p) /\ InFile' = InFile /\ hold'[p] = hold[p]
         /\ pc'[p] \in {next, "failed"}
         /\ IdentityTypeOK' /\ PidsDiffer' /\ NoLeftovers' /\ NoSpuriousFailure'
<1>0. /\ IdentityTypeOK /\ PidsDiffer /\ NoLeftovers /\ NoSpuriousFailure
      /\ pc \in [Processes -> Stages] /\ faults \in 0..MaxFaults
      /\ pc[p] # "down" /\ \A j \in {"tmp", "replace"} : pc[p] \notin AtWork(j)
  BY DEF IdentityInv, IdentityTypeOK, AtWork
<1>1. Temp(p, k) = <<pid[p], k>> /\ pid[p] \in Pids /\ \A q \in Processes \ {p} : pid[q] # pid[p]
  BY <1>0, NameFacts
<1>2. CASE data[Temp(p, k)] = None
  <2>1. data' = [data EXCEPT ![Temp(p, k)] = Broken] /\ Goto(p, next)
    BY <1>2 DEF OpenNew
  <2>2. next \in Stages \ {"down"} /\ next # "failed"
    BY DEF AtWork, Stages
  <2>3. faults' \in faults..MaxFaults
    BY <1>0, StageFacts
  <2>4. QED
    BY <1>0, <2>1, <2>2, <2>3, WritesTemp
<1>3. CASE data[Temp(p, k)] # None
  <2>1. data' = data /\ Goto(p, "failed")
    BY <1>3 DEF OpenNew
  <2>2. faults > 0
    <3>1. SUFFICES ASSUME faults = 0 PROVE FALSE
      BY <1>0, StageFacts
    <3>2. data[<<pid[p], k>>] # None
      BY <1>1, <1>3
    <3>3. PICK q \in Processes : pid[q] = pid[p] /\ pc[q] \in AtWork(k)
      BY <1>0, <1>1, <3>1, <3>2 DEF NoLeftovers
    <3>4. q = p
      BY <1>1, <3>3
    <3>5. QED
      BY <1>0, <3>3, <3>4
  <2>3. pc' = [pc EXCEPT ![p] = "failed"] /\ "failed" \in Stages
    BY <2>1 DEF Goto, Stages
  <2>4. FileMoves /\ OthersKeep(p) /\ InFile' = InFile /\ pc'[p] = "failed"
    BY <1>0, <2>1, <2>3 DEF FileMoves, OthersKeep, InFile
  <2>5. IdentityTypeOK' /\ PidsDiffer' /\ NoSpuriousFailure'
    <3>1. IdentityTypeOK'
      BY <1>0, <2>1, <2>3 DEF IdentityTypeOK
    <3>2. PidsDiffer'
      BY <1>0, <2>3 DEF PidsDiffer
    <3>3. QED
      BY <2>2, <3>1, <3>2 DEF NoSpuriousFailure
  <2>6. NoLeftovers'
    BY <1>0, <2>1, <2>4, LeftoversKept
  <2>7. QED
    BY <2>4, <2>5, <2>6
<1>4. QED
  BY <1>2, <1>3

LEMMA CreateKeeps ==
  ASSUME IdentityInv, NEW p \in Processes, Create(p)
  PROVE  StepKeeps(p)
<1>1. /\ pc[p] = "create" /\ OpenNew(p, "tmp", "write") /\ "write" \in AtWork("tmp")
      /\ UNCHANGED <<pid, hold, made, starts, faults>>
  BY DEF Create, AtWork
<1>2. /\ FileMoves /\ OthersKeep(p) /\ InFile' = InFile /\ hold'[p] = hold[p]
      /\ pc'[p] \in {"write", "failed"}
      /\ IdentityTypeOK' /\ PidsDiffer' /\ NoLeftovers' /\ NoSpuriousFailure'
  BY <1>1, OpenNewKeeps
<1>3. MakingOf(p)' /\ HavingOf(p)'
  BY <1>1, <1>2, StageFacts DEF MakingOf, HavingOf
<1>4. QED
  BY <1>2, <1>3 DEF StepKeeps

LEMMA CopyKeeps ==
  ASSUME IdentityInv, NEW p \in Processes, Copy(p)
  PROVE  StepKeeps(p)
<1>1. /\ pc[p] = "copy" /\ OpenNew(p, "replace", "rewrite") /\ "rewrite" \in AtWork("replace")
      /\ UNCHANGED <<pid, hold, made, starts, faults>>
  BY DEF Copy, AtWork
<1>2. /\ FileMoves /\ OthersKeep(p) /\ InFile' = InFile /\ hold'[p] = hold[p]
      /\ pc'[p] \in {"rewrite", "failed"}
      /\ IdentityTypeOK' /\ PidsDiffer' /\ NoLeftovers' /\ NoSpuriousFailure'
  BY <1>1, OpenNewKeeps
<1>3. MakingOf(p)' /\ HavingOf(p)'
  BY <1>1, <1>2, StageFacts DEF MakingOf, HavingOf
<1>4. QED
  BY <1>2, <1>3 DEF StepKeeps

LEMMA WriteIdentityKeeps ==
  ASSUME IdentityInv, NEW p \in Processes, WriteIdentity(p)
  PROVE  StepKeeps(p)
<1>1. /\ pc[p] = "write" /\ data' = [data EXCEPT ![Temp(p, "tmp")] = hold[p]] /\ Goto(p, "link")
      /\ UNCHANGED <<pid, hold, made, starts, faults>>
      /\ "link" \in AtWork("tmp") /\ "link" \in Stages \ {"down"}
      /\ \A j \in {"tmp", "replace"} \ {"tmp"} : pc[p] \notin AtWork(j)
  BY DEF WriteIdentity, AtWork, Stages
<1>2. hold[p] \in Identities \union {Broken, None} /\ faults' \in faults..MaxFaults
  BY <1>1, StageFacts DEF IdentityInv, IdentityTypeOK
<1>3. /\ FileMoves /\ OthersKeep(p) /\ InFile' = InFile /\ pc'[p] = "link" /\ hold'[p] = hold[p]
      /\ data'[Temp(p, "tmp")'] = hold[p]
      /\ IdentityTypeOK' /\ PidsDiffer' /\ NoLeftovers' /\ NoSpuriousFailure'
  BY <1>1, <1>2, WritesTemp
<1>4. MakingOf(p)' /\ HavingOf(p)'
  BY <1>1, <1>3, StageFacts DEF MakingOf, HavingOf
<1>5. QED
  BY <1>3, <1>4 DEF StepKeeps

LEMMA RewriteKeeps ==
  ASSUME IdentityInv, NEW p \in Processes, Rewrite(p)
  PROVE  StepKeeps(p)
<1>1. /\ pc[p] = "rewrite" /\ data' = [data EXCEPT ![Temp(p, "replace")] = hold[p]]
      /\ Goto(p, "rename") /\ UNCHANGED <<pid, hold, made, starts, faults>>
      /\ "rename" \in AtWork("replace") /\ "rename" \in Stages \ {"down"}
      /\ \A j \in {"tmp", "replace"} \ {"replace"} : pc[p] \notin AtWork(j)
  BY DEF Rewrite, AtWork, Stages
<1>2. hold[p] \in Identities \union {Broken, None} /\ faults' \in faults..MaxFaults
  BY <1>1, StageFacts DEF IdentityInv, IdentityTypeOK
<1>3. /\ FileMoves /\ OthersKeep(p) /\ InFile' = InFile /\ pc'[p] = "rename" /\ hold'[p] = hold[p]
      /\ data'[Temp(p, "replace")'] = hold[p]
      /\ IdentityTypeOK' /\ PidsDiffer' /\ NoLeftovers' /\ NoSpuriousFailure'
  BY <1>1, <1>2, WritesTemp
<1>4. MakingOf(p)' /\ HavingOf(p)'
  BY <1>1, <1>3, StageFacts DEF MakingOf, HavingOf
<1>5. QED
  BY <1>3, <1>4 DEF StepKeeps

LEMMA UnlinkKeeps ==
  ASSUME IdentityInv, NEW p \in Processes, Unlink(p)
  PROVE  StepKeeps(p)
<1>1. /\ pc[p] \in {"unlink", "lost"} /\ data' = [data EXCEPT ![Temp(p, "tmp")] = None]
      /\ UNCHANGED <<pid, hold, made, starts, faults>>
      /\ \A j \in {"tmp", "replace"} \ {"tmp"} : pc[p] \notin AtWork(j)
  BY DEF Unlink, AtWork
<1>2. PICK l \in {"own", "adopt"} :
        Goto(p, l) /\ (l = "own" => pc[p] = "unlink") /\ (l = "adopt" => pc[p] = "lost")
  BY <1>1 DEF Unlink
<1>3. faults' \in faults..MaxFaults /\ l \in Stages \ {"down"} /\ l # "failed"
  BY <1>1, <1>2, StageFacts DEF IdentityInv, IdentityTypeOK, Stages
<1>4. /\ FileMoves /\ OthersKeep(p) /\ InFile' = InFile /\ pc'[p] = l /\ hold'[p] = hold[p]
      /\ IdentityTypeOK' /\ PidsDiffer' /\ NoLeftovers' /\ NoSpuriousFailure'
  BY <1>1, <1>2, <1>3, WritesTemp
<1>5. MakingOf(p)' /\ HavingOf(p)'
  BY <1>1, <1>2, <1>4, StageFacts DEF MakingOf, HavingOf
<1>6. QED
  BY <1>4, <1>5 DEF StepKeeps

\* A client that loses finds the whole identity of the one that was faster.
LEMMA AdoptKeeps ==
  ASSUME IdentityInv, NEW p \in Processes, Adopt(p)
  PROVE  StepKeeps(p)
<1>1. pc[p] = "adopt" /\ UNCHANGED <<data, pid, made, starts, faults>>
  BY DEF Adopt
<1>2. InFile \in Proven
  BY <1>1, StageFacts DEF MakingOf
<1>3. InFile \notin {None, Broken} /\ InFile.proven /\ InFile \in Identities
  BY <1>2, ProvenIdentities DEF Proven
<1>4. hold' = [hold EXCEPT ![p] = InFile] /\ Goto(p, "own")
  BY <1>3 DEF Adopt
<1>5. /\ pc[p] \notin AtWork("tmp") \union AtWork("replace") /\ made' \subseteq Secrets
      /\ "own" \in Stages \ {"down"}
  BY <1>1, StageFacts DEF AtWork, Stages
<1>6. /\ FileMoves /\ OthersKeep(p) /\ InFile' = InFile /\ pc'[p] = "own" /\ hold'[p] = InFile
      /\ IdentityTypeOK' /\ PidsDiffer' /\ NoLeftovers' /\ NoSpuriousFailure'
  BY <1>1, <1>3, <1>4, <1>5, GoesOn
<1>7. MakingOf(p)' /\ HavingOf(p)'
  BY <1>2, <1>3, <1>6 DEF MakingOf, HavingOf
<1>8. QED
  BY <1>6, <1>7 DEF StepKeeps

\* The link gives the file the whole identity that the client made, if there is none.
LEMMA LinkKeeps ==
  ASSUME IdentityInv, NEW p \in Processes, Link(p)
  PROVE  StepKeeps(p)
<1>0. /\ pc[p] = "link" /\ UNCHANGED <<pid, hold, made, starts, faults>>
      /\ IdentityTypeOK /\ PidsDiffer /\ NoLeftovers /\ NoSpuriousFailure
      /\ hold[p] \in Proven /\ data[Temp(p, "tmp")] = hold[p] /\ InFile \in {None} \union Proven
      /\ pc \in [Processes -> Stages]
  BY StageFacts DEF Link, IdentityInv, MakingOf, IdentityTypeOK
<1>1. PICK l \in {"lost", "unlink"} :
        /\ Goto(p, l) /\ l # "down" /\ l # "failed" /\ l \in Stages /\ l \in AtWork("tmp")
        /\ IF l = "lost" THEN InFile # None /\ data' = data
                         ELSE InFile = None /\ data' = [data EXCEPT ![File] = hold[p]]
  BY <1>0 DEF Link, Stages, AtWork
<1>2. pc' = [pc EXCEPT ![p] = l] /\ pc'[p] = l
  BY <1>0, <1>1 DEF Goto
<1>3. /\ \A k \in {"tmp", "replace"}, i \in Pids : data'[<<i, k>>] = data[<<i, k>>]
      /\ InFile' = IF l = "lost" THEN InFile ELSE hold[p]
      /\ data' \in [Names -> Identities \union {Broken, None}]
  <2>1. data \in [Names -> Identities \union {Broken, None}] /\ File \in Names
    BY <1>0, NameFacts
  <2>2. \A k \in {"tmp", "replace"}, i \in Pids : <<i, k>> # File /\ <<i, k>> \in Names
    BY DEF File, Names, Temps
  <2>3. CASE l = "lost"
    BY <1>1, <2>1, <2>3 DEF InFile
  <2>4. CASE l # "lost"
    <3>1. data' = [data EXCEPT ![File] = hold[p]] /\ hold[p] \in Identities
      BY <1>0, <1>1, <2>4, ProvenIdentities
    <3>2. QED
      BY <2>1, <2>2, <2>4, <3>1 DEF InFile
  <2>5. QED
    BY <2>3, <2>4
<1>4. FileMoves
  BY <1>0, <1>1, <1>3 DEF FileMoves
<1>5. OthersKeep(p)
  <2>1. \A q \in Processes \ {p} : pc'[q] = pc[q] /\ pid'[q] = pid[q] /\ hold'[q] = hold[q]
    BY <1>0, <1>2
  <2>2. \A q \in Processes \ {p} : pid[q] # None => pid[q] \in Pids
    BY <1>0 DEF IdentityTypeOK
  <2>3. QED
    BY <1>3, <2>1, <2>2 DEF OthersKeep
<1>6. IdentityTypeOK'
  <2>1. pc' \in [Processes -> Stages]
    BY <1>0, <1>1, <1>2
  <2>2. QED
    BY <1>0, <1>3, <2>1 DEF IdentityTypeOK
<1>7. PidsDiffer'
  BY <1>0, <1>1, <1>2 DEF PidsDiffer
<1>8. NoLeftovers'
  <2>1. ASSUME NEW i \in Pids, NEW k \in {"tmp", "replace"}, data'[<<i, k>>] # None
        PROVE  \/ data[<<i, k>>] # None /\ (pid[p] = i => pc[p] \notin AtWork(k))
               \/ pid'[p] = i /\ pc'[p] \in AtWork(k)
    <3>1. data[<<i, k>>] # None
      BY <1>3, <2>1
    <3>2. CASE k = "tmp"
      BY <1>0, <1>1, <1>2, <3>1, <3>2
    <3>3. CASE k = "replace"
      BY <1>0, <3>1, <3>3 DEF AtWork
    <3>4. QED
      BY <3>2, <3>3
  <2>2. QED
    BY <1>0, <1>5, <2>1, LeftoversKept
<1>9. NoSpuriousFailure'
  <2>1. \A q \in Processes : q # p => pc'[q] = pc[q]
    BY <1>0, <1>2
  <2>2. InFile # Broken
    BY <1>0, IdentityAssumption, ProvenIdentities DEF IdentityAssumption
  <2>3. QED
    BY <1>0, <1>1, <1>2, <2>1, <2>2 DEF NoSpuriousFailure
<1>10. MakingOf(p)' /\ HavingOf(p)'
  BY <1>0, <1>1, <1>2, <1>3, ProvenIdentities DEF MakingOf, HavingOf
<1>11. QED
  BY <1>4, <1>5, <1>6, <1>7, <1>8, <1>9, <1>10 DEF StepKeeps

\* The rename gives the file the same secret with a good proof.
LEMMA RenameOverKeeps ==
  ASSUME IdentityInv, NEW p \in Processes, RenameOver(p)
  PROVE  StepKeeps(p)
<1>0. /\ pc[p] = "rename" /\ UNCHANGED <<pid, hold, made, starts, faults>> /\ Goto(p, "own")
      /\ IdentityTypeOK /\ PidsDiffer /\ NoLeftovers /\ NoSpuriousFailure
      /\ hold[p] \in Proven /\ data[Temp(p, "replace")] = hold[p]
      /\ InFile \in Identities /\ InFile.secret = hold[p].secret
      /\ pc \in [Processes -> Stages] /\ "own" \in Stages
      /\ data' = [data EXCEPT ![File] = data[Temp(p, "replace")], ![Temp(p, "replace")] = None]
  BY StageFacts DEF RenameOver, IdentityInv, HavingOf, IdentityTypeOK, Stages
<1>1. pc' = [pc EXCEPT ![p] = "own"] /\ pc'[p] = "own"
  BY <1>0 DEF Goto
<1>2. /\ pid[p] \in Pids /\ Temp(p, "replace") = <<pid[p], "replace">>
      /\ Temp(p, "replace") \in Names /\ Temp(p, "replace") # File /\ File \in Names
      /\ data \in [Names -> Identities \union {Broken, None}]
      /\ \A q \in Processes \ {p} : pid[q] # pid[p]
  BY <1>0, NameFacts
<1>3. data' = [data EXCEPT ![File] = hold[p], ![Temp(p, "replace")] = None]
  BY <1>0
<1>4. /\ InFile' = hold[p] /\ data' \in [Names -> Identities \union {Broken, None}]
      /\ data'[<<pid[p], "replace">>] = None
  BY <1>0, <1>2, <1>3, ProvenIdentities DEF InFile
<1>5. \A k \in {"tmp", "replace"}, i \in Pids :
        <<i, k>> # <<pid[p], "replace">> => data'[<<i, k>>] = data[<<i, k>>]
  <2>1. \A k \in {"tmp", "replace"}, i \in Pids : <<i, k>> # File /\ <<i, k>> \in Names
    BY DEF File, Names, Temps
  <2>2. QED
    BY <1>2, <1>3, <2>1
<1>6. FileMoves
  BY <1>0, <1>4 DEF FileMoves
<1>7. OthersKeep(p)
  <2>1. \A q \in Processes \ {p} : pc'[q] = pc[q] /\ pid'[q] = pid[q] /\ hold'[q] = hold[q]
    BY <1>0, <1>1
  <2>2. \A q \in Processes \ {p} : pid[q] # None => pid[q] \in Pids
    BY <1>0 DEF IdentityTypeOK
  <2>3. QED
    BY <1>2, <1>5, <2>1, <2>2 DEF OthersKeep
<1>8. IdentityTypeOK'
  <2>1. pc' \in [Processes -> Stages]
    BY <1>0, <1>1
  <2>2. QED
    BY <1>0, <1>4, <2>1 DEF IdentityTypeOK
<1>9. PidsDiffer'
  BY <1>0, <1>1 DEF PidsDiffer
<1>10. NoLeftovers'
  <2>1. ASSUME NEW i \in Pids, NEW k \in {"tmp", "replace"}, data'[<<i, k>>] # None
        PROVE  data[<<i, k>>] # None /\ (pid[p] = i => pc[p] \notin AtWork(k))
    <3>1. <<i, k>> # <<pid[p], "replace">>
      BY <1>4, <2>1
    <3>2. pid[p] = i => k = "tmp"
      BY <3>1
    <3>3. QED
      BY <1>0, <1>5, <2>1, <3>1, <3>2 DEF AtWork
  <2>2. QED
    BY <1>0, <1>7, <2>1, LeftoversKept
<1>11. NoSpuriousFailure'
  <2>1. \A q \in Processes : q # p => pc'[q] = pc[q]
    BY <1>0, <1>1
  <2>2. InFile # Broken
    BY <1>0, ProvenIdentities
  <2>3. QED
    BY <1>0, <1>1, <2>1, <2>2 DEF NoSpuriousFailure
<1>12. MakingOf(p)' /\ HavingOf(p)'
  BY <1>0, <1>1, <1>4, ProvenIdentities DEF MakingOf, HavingOf
<1>13. QED
  BY <1>6, <1>7, <1>8, <1>9, <1>10, <1>11, <1>12 DEF StepKeeps

LEMMA FileFailsKeeps ==
  ASSUME IdentityInv, NEW p \in Processes, FileFails(p)
  PROVE  StepKeeps(p)
<1>0. /\ pc[p] \in {"create", "write", "link", "copy", "rewrite", "rename"}
      /\ Goto(p, "failed") /\ faults' = faults + 1 /\ faults < MaxFaults
      /\ UNCHANGED <<pid, hold, made, starts>>
      /\ IdentityTypeOK /\ PidsDiffer /\ NoLeftovers /\ NoSpuriousFailure
      /\ pc \in [Processes -> Stages] /\ "failed" \in Stages \ {"down"}
      /\ faults \in 0..MaxFaults /\ MaxFaults \in Nat
  BY StageFacts DEF FileFails, IdentityInv, IdentityTypeOK, Stages
<1>1. faults' \in faults..MaxFaults /\ faults' > 0
  BY <1>0
<1>2. pc' = [pc EXCEPT ![p] = "failed"] /\ pc'[p] = "failed"
  BY <1>0 DEF Goto
<1>3. MakingOf(p)' /\ HavingOf(p)'
  BY <1>2 DEF MakingOf, HavingOf
<1>4. CASE pc[p] = "link"
  <2>1. /\ data' = [data EXCEPT ![Temp(p, "tmp")] = None]
        /\ \A j \in {"tmp", "replace"} \ {"tmp"} : pc[p] \notin AtWork(j)
    BY <1>4 DEF FileFails, AtWork
  <2>2. FileMoves /\ OthersKeep(p) /\ IdentityTypeOK' /\ PidsDiffer' /\ NoLeftovers' /\ NoSpuriousFailure'
    BY <1>0, <1>1, <2>1, WritesTemp
  <2>3. QED
    BY <1>3, <2>2 DEF StepKeeps
<1>5. CASE pc[p] # "link"
  <2>1. data' = data
    BY <1>5 DEF FileFails
  <2>2. FileMoves /\ OthersKeep(p)
    BY <1>0, <1>2, <2>1 DEF FileMoves, OthersKeep, InFile
  <2>3. IdentityTypeOK'
    BY <1>0, <1>1, <1>2, <2>1 DEF IdentityTypeOK
  <2>4. PidsDiffer'
    BY <1>0, <1>2 DEF PidsDiffer
  <2>5. NoLeftovers' /\ NoSpuriousFailure'
    BY <1>1 DEF NoLeftovers, NoSpuriousFailure
  <2>6. QED
    BY <1>3, <2>2, <2>3, <2>4, <2>5 DEF StepKeeps
<1>6. QED
  BY <1>4, <1>5

LEMMA StartKeeps ==
  ASSUME IdentityInv, NEW p \in Processes, Start(p)
  PROVE  StepKeeps(p)
<1>0. /\ pc[p] = "down" /\ Goto(p, "load") /\ UNCHANGED <<data, hold, made, faults>>
      /\ IdentityTypeOK /\ PidsDiffer /\ NoLeftovers /\ NoSpuriousFailure
      /\ pc \in [Processes -> Stages] /\ "load" \in Stages
      /\ starts \in 0..MaxStarts /\ MaxStarts \in Nat /\ starts < MaxStarts /\ starts' = starts + 1
      /\ pid \in [Processes -> Pids \union {None}]
  BY IdentityAssumption DEF IdentityAssumption, Start, IdentityInv, IdentityTypeOK, Stages
<1>1. PICK i \in Pids \ {pid[q] : q \in Processes} : pid' = [pid EXCEPT ![p] = i]
  BY DEF Start
<1>2. i # None
  BY IdentityAssumption DEF IdentityAssumption
<1>3. pc' = [pc EXCEPT ![p] = "load"] /\ pc'[p] = "load"
  BY <1>0 DEF Goto
<1>4. FileMoves /\ OthersKeep(p)
  BY <1>0, <1>1, <1>3 DEF FileMoves, OthersKeep, InFile
<1>5. IdentityTypeOK'
  <2>1. starts' \in 0..MaxStarts /\ pid' \in [Processes -> Pids \union {None}]
    BY <1>0, <1>1
  <2>2. QED
    BY <1>0, <1>3, <2>1 DEF IdentityTypeOK
<1>6. PidsDiffer'
  BY <1>0, <1>1, <1>2, <1>3 DEF PidsDiffer
<1>7. NoLeftovers'
  <2>1. \A k \in {"tmp", "replace"} : pc[p] \notin AtWork(k)
    BY <1>0 DEF AtWork
  <2>2. QED
    BY <1>0, <1>4, <2>1, LeftoversKept
<1>8. NoSpuriousFailure'
  BY <1>0, <1>3 DEF NoSpuriousFailure, InFile
<1>9. MakingOf(p)' /\ HavingOf(p)'
  BY <1>3 DEF MakingOf, HavingOf
<1>10. QED
  BY <1>4, <1>5, <1>6, <1>7, <1>8, <1>9 DEF StepKeeps

\* A client ends: it reports an error, dies, or gives up though it has an identity.
Ends(p) ==
  \/ Exit(p) \/ Crash(p)
  \/ pc[p] = "own" /\ Gone(p) /\ UNCHANGED faults

LEMMA EndsKeeps ==
  ASSUME IdentityInv, NEW p \in Processes, Ends(p)
  PROVE  StepKeeps(p)
<1>0. /\ Gone(p) /\ pc[p] # "down"
      /\ \/ faults' = faults /\ pc[p] \in {"failed", "own"}
         \/ faults' = faults + 1 /\ faults < MaxFaults
      /\ IdentityTypeOK /\ PidsDiffer /\ NoLeftovers /\ NoSpuriousFailure
      /\ pc \in [Processes -> Stages] /\ "down" \in Stages
      /\ pid \in [Processes -> Pids \union {None}]
      /\ hold \in [Processes -> Identities \union {None}]
      /\ faults \in 0..MaxFaults /\ MaxFaults \in Nat
  BY StageFacts DEF Ends, Exit, Crash, IdentityInv, IdentityTypeOK, Stages
<1>1. /\ pc' = [pc EXCEPT ![p] = "down"] /\ pid' = [pid EXCEPT ![p] = None]
      /\ hold' = [hold EXCEPT ![p] = None] /\ UNCHANGED <<data, made, starts>>
  BY <1>0 DEF Gone, Goto
<1>2. FileMoves /\ OthersKeep(p)
  BY <1>0, <1>1 DEF FileMoves, OthersKeep, InFile
<1>3. IdentityTypeOK'
  <2>1. faults' \in 0..MaxFaults
    BY <1>0
  <2>2. /\ pc' \in [Processes -> Stages] /\ pid' \in [Processes -> Pids \union {None}]
        /\ hold' \in [Processes -> Identities \union {None}]
    BY <1>0, <1>1
  <2>3. QED
    BY <1>0, <1>1, <2>1, <2>2 DEF IdentityTypeOK
<1>4. PidsDiffer'
  BY <1>0, <1>1 DEF PidsDiffer
<1>5. NoLeftovers'
  <2>1. CASE faults' = faults + 1
    BY <1>0, <2>1 DEF NoLeftovers
  <2>2. CASE faults' = faults /\ pc[p] \in {"failed", "own"}
    <3>1. \A k \in {"tmp", "replace"} : pc[p] \notin AtWork(k)
      BY <2>2 DEF AtWork
    <3>2. QED
      BY <1>0, <1>1, <1>2, <2>2, <3>1, LeftoversKept
  <2>3. QED
    BY <1>0, <2>1, <2>2
<1>6. NoSpuriousFailure'
  <2>1. faults > 0 => faults' > 0
    BY <1>0
  <2>2. QED
    BY <1>0, <1>1, <2>1 DEF NoSpuriousFailure, InFile
<1>7. MakingOf(p)' /\ HavingOf(p)'
  BY <1>0, <1>1 DEF MakingOf, HavingOf
<1>8. QED
  BY <1>2, <1>3, <1>4, <1>5, <1>6, <1>7 DEF StepKeeps

LEMMA IdentityMoves ==
  ASSUME IdentityInv, NEW p \in Processes, Start(p) \/ IdentityStep(p) \/ Ends(p)
  PROVE  IdentityInv' /\ FileMoves
<1>1. Start(p) \/ Ends(p) => StepKeeps(p)
  BY StartKeeps, EndsKeeps
<1>2. Generate(p) \/ Load(p) \/ Create(p) \/ WriteIdentity(p) => StepKeeps(p)
  BY GenerateKeeps, LoadKeeps, CreateKeeps, WriteIdentityKeeps
<1>3. Link(p) \/ Unlink(p) \/ Adopt(p) => StepKeeps(p)
  BY LinkKeeps, UnlinkKeeps, AdoptKeeps
<1>4. Copy(p) \/ Rewrite(p) \/ RenameOver(p) \/ FileFails(p) => StepKeeps(p)
  BY CopyKeeps, RewriteKeeps, RenameOverKeeps, FileFailsKeeps
<1>5. QED
  BY <1>1, <1>2, <1>3, <1>4, StepSuffices DEF IdentityStep

\* A secret that is in the file stays there.
LEMMA SecretStays ==
  ASSUME FileMoves, FileSecret # None
  PROVE  FileSecret' = FileSecret
BY ProvenIdentities DEF FileMoves, FileSecret

LEMMA InitIdentity == IdentityInit => IdentityInv
<1> SUFFICES ASSUME IdentityInit PROVE IdentityInv
  OBVIOUS
<1>1. PICK c \in {None, Broken} \union [secret : Secrets, proven : {FALSE}] :
        /\ data = [n \in Names |-> IF n = File THEN c ELSE None]
        /\ made = IF c \in {None, Broken} THEN {} ELSE {c.secret}
  BY DEF IdentityInit
<1>2. c \in Identities \union {Broken, None} /\ made \subseteq Secrets
  BY <1>1 DEF Identities
<1>3. 0 \in 0..MaxStarts /\ 0 \in 0..MaxFaults
  BY IdentityAssumption DEF IdentityAssumption
<1>4. IdentityTypeOK
  BY <1>1, <1>2, <1>3 DEF IdentityTypeOK, IdentityInit, Stages
<1>5. PidsDiffer /\ NoSpuriousFailure
  BY DEF PidsDiffer, NoSpuriousFailure, IdentityInit
<1>6. NoLeftovers
  <2>1. ASSUME NEW i \in Pids, NEW k \in {"tmp", "replace"}
        PROVE  data[<<i, k>>] = None
    BY <1>1 DEF Names, Temps, File
  <2>2. QED
    BY <2>1 DEF NoLeftovers
<1>7. \A p \in Processes : MakingOf(p) /\ HavingOf(p)
  BY DEF MakingOf, HavingOf, IdentityInit
<1>8. QED
  BY <1>4, <1>5, <1>6, <1>7 DEF IdentityInv

-----------------------------------------------------------------------------
(* Sets of tenants and files of them *)

LEMMA Limits ==
  /\ MaxTenants \in Nat /\ MaxDrops \in Nat /\ MaxErrors \in Nat
  /\ IsFiniteSet(Requests) /\ Cardinality(Requests) \in Nat
  /\ Absent \notin Requests /\ Absent \notin Tenants /\ Absent \notin Files
BY StoreAssumption, FS_CardinalityType DEF StoreAssumption

LEMMA NoTenants == {} \in SmallSets
BY Limits, FS_EmptySet DEF SmallSets

LEMMA OneMore ==
  ASSUME NEW S \in SmallSets, Cardinality(S) < MaxTenants, NEW t \in Tenants
  PROVE  S \union {t} \in SmallSets
<1>1. IsFiniteSet(S) /\ Cardinality(S) \in Nat
  BY FS_CardinalityType DEF SmallSets
<1>2. IsFiniteSet(S \union {t}) /\ Cardinality(S \union {t}) =< Cardinality(S) + 1
  <2>1. /\ IsFiniteSet(S \union {t})
        /\ Cardinality(S \union {t}) = IF t \in S THEN Cardinality(S) ELSE Cardinality(S) + 1
    BY <1>1, FS_AddElement
  <2>2. QED
    BY <1>1, <2>1
<1>3. Cardinality(S \union {t}) \in Nat
  BY <1>2, FS_CardinalityType
<1>4. Cardinality(S \union {t}) =< MaxTenants
  BY <1>1, <1>2, <1>3, Limits
<1>5. QED
  BY <1>2, <1>4 DEF SmallSets

LEMMA OneLess ==
  ASSUME NEW S \in SmallSets, NEW t
  PROVE  S \ {t} \in SmallSets
<1>1. IsFiniteSet(S) /\ Cardinality(S) \in Nat /\ S \ {t} \in SUBSET S
  BY FS_CardinalityType DEF SmallSets
<1>2. IsFiniteSet(S \ {t}) /\ Cardinality(S \ {t}) =< Cardinality(S)
  BY <1>1, FS_Subset
<1>3. Cardinality(S \ {t}) \in Nat
  BY <1>2, FS_CardinalityType
<1>4. Cardinality(S \ {t}) =< MaxTenants
  BY <1>1, <1>2, <1>3, Limits DEF SmallSets
<1>5. QED
  BY <1>2, <1>4 DEF SmallSets

LEMMA SubSeqFacts ==
  ASSUME NEW T, NEW s \in Seq(T), NEW n \in Nat
  PROVE  /\ SubSeq(s, n + 1, Len(s)) \in Seq(T)
         /\ Len(SubSeq(s, n + 1, Len(s))) = IF n < Len(s) THEN Len(s) - n ELSE 0
         /\ \A k \in 1..Len(SubSeq(s, n + 1, Len(s))) :
              n + k \in DOMAIN s /\ SubSeq(s, n + 1, Len(s))[k] = s[n + k]
         /\ s = <<>> => SubSeq(s, n + 1, Len(s)) = <<>>
OBVIOUS

\* A write leaves its set, as often as it has elements, and then what was behind it.
LEMMA WriteResult ==
  ASSUME NEW S \in SmallSets, NEW old \in Contents,
         NEW new, new = Overwritten(S, old)
  PROVE  /\ new \in Contents
         /\ old = <<>> => new = Entries(S)
         /\ \A k \in DOMAIN new : new[k] = S \/ \E j \in DOMAIN old : new[k] = old[j]
<1>1. Cardinality(S) \in Nat /\ Cardinality(S) =< MaxTenants
  BY FS_CardinalityType DEF SmallSets
<1>2. PICK n \in Nat : n = Cardinality(S)
  BY <1>1
<1>3. PICK e : e = [k \in 1..n |-> S]
  OBVIOUS
<1>4. e \in Seq(SmallSets) /\ Len(e) = n /\ \A k \in 1..n : e[k] = S
  BY <1>3
<1>5. old \in Seq(SmallSets) /\ Len(old) \in Nat /\ Len(old) =< MaxTenants /\ MaxTenants \in Nat
  BY Limits DEF Contents
<1>6. PICK rest : rest = SubSeq(old, n + 1, Len(old))
  OBVIOUS
<1>7. /\ rest \in Seq(SmallSets) /\ Len(rest) = IF n < Len(old) THEN Len(old) - n ELSE 0
      /\ \A k \in 1..Len(rest) : n + k \in DOMAIN old /\ rest[k] = old[n + k]
      /\ old = <<>> => rest = <<>>
  BY <1>5, <1>6, SubSeqFacts
<1>8. new = e \o rest /\ e = Entries(S)
  BY <1>2, <1>3, <1>6 DEF Entries, Overwritten
<1>9. /\ new \in Seq(SmallSets) /\ Len(new) = n + Len(rest) /\ (rest = <<>> => new = e)
      /\ \A k \in 1..n : new[k] = e[k]
      /\ \A k \in 1..Len(rest) : new[n + k] = rest[k]
  <2>1. /\ e \o rest \in Seq(SmallSets) /\ Len(e \o rest) = Len(e) + Len(rest)
        /\ \A k \in 1..Len(e) : (e \o rest)[k] = e[k]
        /\ \A k \in 1..Len(rest) : (e \o rest)[Len(e) + k] = rest[k]
        /\ (rest = <<>> => e \o rest = e)
    <3>1. e \in Seq(SmallSets) /\ rest \in Seq(SmallSets)
      BY <1>4, <1>7
    <3>2. QED
      BY <3>1
  <2>2. new = e \o rest /\ Len(e) = n
    BY <1>4, <1>8
  <2>3. QED
    BY <2>1, <2>2
<1>10. new \in Contents
  <2>1. Len(new) =< MaxTenants
    BY <1>1, <1>2, <1>5, <1>7, <1>9
  <2>2. QED
    BY <1>9, <2>1 DEF Contents
<1>11. ASSUME NEW k \in DOMAIN new
       PROVE  new[k] = S \/ \E j \in DOMAIN old : new[k] = old[j]
  <2>1. k \in 1..Len(new) /\ Len(rest) \in Nat
    BY <1>7, <1>9
  <2>2. CASE k \in 1..n
    BY <1>4, <1>9, <2>2
  <2>3. CASE k \notin 1..n
    <3>1. PICK m \in 1..Len(rest) : k = n + m
      <4>1. k - n \in 1..Len(rest) /\ k = n + (k - n)
        BY <1>9, <2>1, <2>3
      <4>2. QED
        BY <4>1
    <3>2. new[k] = old[k] /\ k \in DOMAIN old
      BY <1>7, <1>9, <3>1
    <3>3. QED
      BY <3>2
  <2>4. QED
    BY <2>2, <2>3
<1>12. QED
  BY <1>7, <1>8, <1>9, <1>10, <1>11

\* There is always a file without a name and a writer.
LEMMA UnusedFile ==
  ASSUME RequestTypes
  PROVE  /\ Unused \in Files
         /\ Unused \notin {store, temporary} \union {handle[r] : r \in Requests}
<1>1. PICK n \in Nat : n = Cardinality(Requests)
  BY Limits
<1>2. PICK H : H = {handle[r] : r \in Requests}
  OBVIOUS
<1>3. handle \in Surjection(Requests, H)
  BY <1>2 DEF RequestTypes, Surjection
<1>4. IsFiniteSet(H) /\ Cardinality(H) =< n
  BY <1>1, <1>3, Limits, FS_Surjection
<1>5. Cardinality(H) \in Nat
  BY <1>4, FS_CardinalityType
<1>6. /\ IsFiniteSet(H \union {store}) /\ Cardinality(H \union {store}) \in Nat
      /\ Cardinality(H \union {store}) =< n + 1
  <2>1. /\ IsFiniteSet(H \union {store})
        /\ Cardinality(H \union {store}) = IF store \in H THEN Cardinality(H) ELSE Cardinality(H) + 1
    BY <1>4, FS_AddElement
  <2>2. QED
    BY <1>4, <1>5, <2>1
<1>7. PICK U : U = (H \union {store}) \union {temporary}
  OBVIOUS
<1>8. IsFiniteSet(U) /\ Cardinality(U) \in Nat /\ Cardinality(U) =< n + 2
  <2>1. /\ IsFiniteSet(U)
        /\ Cardinality(U) = IF temporary \in H \union {store} THEN Cardinality(H \union {store})
                            ELSE Cardinality(H \union {store}) + 1
    BY <1>6, <1>7, FS_AddElement
  <2>2. QED
    BY <1>6, <2>1
<1>9. Cardinality(0..(n + 2)) = n + 3
  <2>1. 0 \in Int /\ n + 2 \in Int /\ ~(0 > n + 2)
    OBVIOUS
  <2>2. Cardinality(0..(n + 2)) = (n + 2) - 0 + 1
    BY <2>1, FS_Interval
  <2>3. QED
    BY <2>2
<1>10. ~(0..(n + 2) \subseteq U)
  <2>1. SUFFICES ASSUME 0..(n + 2) \in SUBSET U PROVE FALSE
    OBVIOUS
  <2>2. Cardinality(0..(n + 2)) =< Cardinality(U)
    BY <1>8, <2>1, FS_Subset
  <2>3. QED
    BY <1>8, <1>9, <2>2
<1>11. \E f \in Files : f \notin U
  BY <1>1, <1>10 DEF Files
<1>12. U = {store, temporary} \union {handle[r] : r \in Requests}
  BY <1>2, <1>7
<1>13. QED
  BY <1>11, <1>12 DEF Unused

\* A file with a set of tenants, as often as it has elements, can be read back.
LEMMA EntriesLoad ==
  ASSUME NEW S \in SmallSets, S # {}, NEW f, content[f] = Entries(S)
  PROVE  Loadable(f) /\ content[f] # <<>> /\ content[f][1] = S
<1>1. IsFiniteSet(S) /\ Cardinality(S) \in Nat /\ Cardinality(S) # 0
  BY FS_CardinalityType, FS_EmptySet DEF SmallSets
<1>2. PICK n \in Nat \ {0} : n = Cardinality(S)
  BY <1>1
<1>3. content[f] = [k \in 1..n |-> S]
  BY <1>2 DEF Entries
<1>4. Len(content[f]) = n /\ content[f] # <<>> /\ \A k \in 1..n : content[f][k] = S
  BY <1>3
<1>5. QED
  BY <1>2, <1>4 DEF Loadable

-----------------------------------------------------------------------------
(* What the steps of a registration leave alone *)

LEMMA StoreTypes == RequestTypes /\ ServerTypes => StoreTypeOK
<1> SUFFICES ASSUME RequestTypes, ServerTypes PROVE StoreTypeOK
  OBVIOUS
<1>1. /\ tenants \subseteq Tenants /\ Cardinality(tenants) =< MaxTenants
      /\ snapshot \in [Requests -> SUBSET Tenants]
  BY DEF RequestTypes, ServerTypes, SmallSets
<1>2. ASSUME NEW f \in Files
      PROVE  /\ Len(content[f]) =< MaxTenants
             /\ \A k \in 1..Len(content[f]) : content[f][k] \in SUBSET Tenants
  <2>1. PICK s \in Seq(SmallSets) : s = content[f] /\ Len(s) =< MaxTenants
    BY DEF ServerTypes, Contents
  <2>2. \A k \in 1..Len(s) : s[k] \in SmallSets
    BY <2>1
  <2>3. QED
    BY <2>1, <2>2 DEF SmallSets
<1>3. QED
  BY <1>1, <1>2 DEF RequestTypes, ServerTypes, StoreTypeOK

Same(q) ==
  /\ stage'[q] = stage[q] /\ want'[q] = want[q] /\ snapshot'[q] = snapshot[q]
  /\ handle'[q] = handle[q] /\ (q \in orphan' <=> q \in orphan)

OthersSame(r) == \A q \in Requests \ {r} : Same(q)

\* A registration that is over has nothing.
Over(r) ==
  /\ stage'[r] = "none" /\ want'[r] = Absent /\ snapshot'[r] = {} /\ handle'[r] = Absent
  /\ r \notin orphan'

LEMMA DoneEffect ==
  ASSUME RequestTypes, NEW r \in Requests, Done(r), lock' \in Requests \union {Absent}
  PROVE  RequestTypes' /\ Over(r) /\ OthersSame(r)
<1>1. /\ stage' = [stage EXCEPT ![r] = "none"] /\ want' = [want EXCEPT ![r] = Absent]
      /\ snapshot' = [snapshot EXCEPT ![r] = {}] /\ handle' = [handle EXCEPT ![r] = Absent]
      /\ orphan' = orphan \ {r}
  BY DEF Done, At
<1>2. RequestTypes'
  BY <1>1, NoTenants DEF RequestTypes
<1>3. Over(r)
  BY <1>1 DEF RequestTypes, Over
<1>4. OthersSame(r)
  BY <1>1 DEF RequestTypes, OthersSame, Same
<1>5. QED
  BY <1>2, <1>3, <1>4

\* The lock stays, or passes between nobody and the registration that moves.
LockMoves(r) == \/ lock' = lock
                \/ {lock, lock'} \subseteq {r, Absent}

LEMMA InHandKept ==
  ASSUME NEW r \in Requests, OthersSame(r), UNCHANGED up, LockMoves(r),
         \A q \in Requests : InHand(q), InHand(r)'
  PROVE  \A q \in Requests : InHand(q)'
<1> SUFFICES ASSUME NEW q \in Requests \ {r} PROVE InHand(q)'
  OBVIOUS
<1>1. Same(q) /\ InHand(q)
  BY DEF OthersSame
<1>2. lock' = q <=> lock = q
  BY Limits DEF LockMoves
<1>3. QED
  BY <1>1, <1>2 DEF Same, InHand, Working

\* What is stored, and whether it can be read back, is a matter of the store alone.
LEMMA StoreSame ==
  ASSUME store' = store, store # Absent => content'[store] = content[store]
  PROVE  /\ Stored' = Stored
         /\ store # Absent => (Loadable(store)' <=> Loadable(store))
BY DEF Stored, Loadable

\* Without an overlap a writer is the only one.
LEMMA Alone ==
  ASSUME OneWriter, ~overlap, NEW r \in Requests, Working(r)
  PROVE  \A q \in Requests \ {r} : ~Working(q)
BY DEF OneWriter

LEMMA StillAlone ==
  ASSUME OneWriter, ~overlap, NEW r \in Requests, Working(r), OthersSame(r)
  PROVE  /\ \A q \in Requests \ {r} : ~Working(q)'
         /\ \A q \in Requests \ {r} : InFull(q)'
         /\ \A p, q \in Requests : Working(p)' /\ Working(q)' => p = q
<1>1. \A q \in Requests \ {r} : ~Working(q)'
  BY Alone DEF OthersSame, Same, Working
<1>2. QED
  BY <1>1 DEF InFull

\* A registration that does not write leaves those that do as they are.
LEMMA FullKept ==
  ASSUME NEW r \in Requests, ~Working(r), ~Working(r)', OthersSame(r), OneWriter,
         UNCHANGED <<tenants, store, temporary, content, forgotten, overlap>>
  PROVE  OneWriter'
<1> SUFFICES ASSUME ~overlap PROVE OneWriter'
  BY DEF OneWriter
<1>1. \A q \in Requests : Working(q)' <=> Working(q)
  BY DEF OthersSame, Same, Working
<1>2. Stored' = Stored
  BY StoreSame
<1>3. ASSUME NEW q \in Requests
      PROVE  InFull(q)'
  <2>1. CASE q = r
    BY <2>1 DEF InFull
  <2>2. CASE q # r
    <3>1. Same(q) /\ InFull(q)
      BY <2>2 DEF OthersSame, OneWriter
    <3>2. QED
      BY <1>1, <1>2, <3>1 DEF Same, InFull
  <2>3. QED
    BY <2>1, <2>2
<1>4. QED
  BY <1>1, <1>3 DEF OneWriter

-----------------------------------------------------------------------------
(* What the server has heard of *)

\* A step of a registration adds nothing to it but the tenant that is asked for.
LEMMA HeardKept ==
  ASSUME NEW r \in Requests, NEW t, OthersSame(r), HasHeard(t)',
         t \in tenants' \union confirmed' => HasHeard(t),
         t = want'[r] \/ t \in snapshot'[r] => HasHeard(t),
         \A f \in Files : \A k \in DOMAIN content'[f] : t \in content'[f][k] => HasHeard(t)
  PROVE  HasHeard(t)
<1>1. CASE t \in tenants' \union confirmed'
  BY <1>1
<1>2. ASSUME NEW q \in Requests, t = want'[q] \/ t \in snapshot'[q]
      PROVE  HasHeard(t)
  <2>1. CASE q = r
    BY <1>2, <2>1
  <2>2. CASE q # r
    <3>1. t = want[q] \/ t \in snapshot[q]
      BY <1>2, <2>2 DEF OthersSame, Same
    <3>2. QED
      BY <3>1 DEF HasHeard
  <2>3. QED
    BY <2>1, <2>2
<1>3. ASSUME NEW f \in Files, NEW k \in DOMAIN content'[f], t \in content'[f][k]
      PROVE  HasHeard(t)
  BY <1>3
<1>4. QED
  BY <1>1, <1>2, <1>3 DEF HasHeard

NothingNew == \A t \in Tenants : HasHeard(t)' => HasHeard(t)

\* A step that touches no file and confirms and inserts only what is known.
LEMMA NothingNewOf ==
  ASSUME NEW r \in Requests, OthersSame(r), Over(r), content' = content,
         tenants' \subseteq tenants, confirmed' \subseteq confirmed \union tenants
  PROVE  NothingNew
<1>1. SUFFICES ASSUME NEW t \in Tenants, HasHeard(t)' PROVE HasHeard(t)
  BY DEF NothingNew
<1>2. ~(t = want'[r] \/ t \in snapshot'[r])
  BY Limits DEF Over
<1>3. t \in tenants' \union confirmed' => HasHeard(t)
  BY DEF HasHeard
<1>4. \A f \in Files : \A k \in DOMAIN content'[f] : t \in content'[f][k] => HasHeard(t)
  BY DEF HasHeard
<1>5. QED
  BY <1>1, <1>2, <1>3, <1>4, HeardKept

\* What every step of the server does.
StoreKeeps == StoreInv' /\ NothingNew

LEMMA StoreFacts ==
  ASSUME StoreInv, NEW r \in Requests
  PROVE  /\ RequestTypes /\ ServerTypes /\ InHand(r) /\ OneWriter /\ InMemory
         /\ StoreWhole /\ ConfirmedStored
         /\ \A q \in Requests : InHand(q)
BY DEF StoreInv

LEMMA RegisterKeeps ==
  ASSUME StoreInv, NEW r \in Requests, NEW t \in Tenants, Register(r, t)
  PROVE  StoreInv' /\ \A u \in Tenants : HasHeard(u)' => HasHeard(u) \/ u = t
<1>0. /\ RequestTypes /\ ServerTypes /\ InHand(r) /\ OneWriter /\ InMemory
      /\ StoreWhole /\ ConfirmedStored /\ \A q \in Requests : InHand(q)
  BY StoreFacts
<1>1. /\ up /\ stage[r] = "none" /\ want' = [want EXCEPT ![r] = t]
      /\ stage' = [stage EXCEPT ![r] = "asked"]
      /\ UNCHANGED <<up, tenants, lock, snapshot, handle, orphan, store, temporary, content,
                     confirmed, cut, forgotten, overlap, drops, errors>>
  BY DEF Register, At
<1>2. RequestTypes' /\ ServerTypes'
  BY <1>0, <1>1 DEF RequestTypes, ServerTypes
<1>3. OthersSame(r) /\ stage'[r] = "asked" /\ want'[r] = t
  BY <1>0, <1>1 DEF OthersSame, Same, RequestTypes
<1>4. InHand(r)'
  BY <1>0, <1>1, <1>3 DEF InHand, Working
<1>5. \A q \in Requests : InHand(q)'
  BY <1>0, <1>1, <1>3, <1>4, InHandKept DEF LockMoves
<1>6. OneWriter'
  BY <1>0, <1>1, <1>3, FullKept DEF Working
<1>7. Stored' = Stored /\ (store # Absent => (Loadable(store)' <=> Loadable(store)))
  BY <1>1, StoreSame
<1>8. InMemory'
  <2>1. lock # Absent => lock \in Requests /\ lock # r
    BY <1>0, <1>1 DEF RequestTypes, InHand, Working
  <2>2. lock # Absent => want'[lock] = want[lock]
    BY <1>3, <2>1 DEF OthersSame, Same
  <2>3. QED
    BY <1>0, <1>1, <1>7, <2>2 DEF InMemory
<1>9. StoreWhole' /\ ConfirmedStored'
  BY <1>0, <1>1, <1>7 DEF StoreWhole, ConfirmedStored
<1>10. ASSUME NEW u \in Tenants \ {t}, HasHeard(u)'
       PROVE  HasHeard(u)
  <2>1. u \in tenants' \union confirmed' => HasHeard(u)
    BY <1>1 DEF HasHeard
  <2>2. u = want'[r] \/ u \in snapshot'[r] => HasHeard(u)
    BY <1>1, <1>3 DEF HasHeard
  <2>3. \A f \in Files : \A k \in DOMAIN content'[f] : u \in content'[f][k] => HasHeard(u)
    BY <1>1 DEF HasHeard
  <2>4. QED
    BY <1>3, <1>10, <2>1, <2>2, <2>3, HeardKept
<1>11. QED
  BY <1>2, <1>5, <1>6, <1>8, <1>9, <1>10 DEF StoreInv

\* A registration that is over before it writes.
LEMMA OverKeeps ==
  ASSUME StoreInv, NEW r \in Requests, stage[r] = "asked", Done(r),
         UNCHANGED <<up, tenants, lock, store, temporary, content, cut, forgotten, overlap, errors>>,
         drops' \in 0..MaxDrops, confirmed' \subseteq confirmed \union tenants,
         ~overlap => confirmed' \ (cut \union forgotten) \subseteq Stored
  PROVE  StoreKeeps
<1>0. /\ RequestTypes /\ ServerTypes /\ InHand(r) /\ OneWriter /\ InMemory
      /\ StoreWhole /\ ConfirmedStored /\ \A q \in Requests : InHand(q)
  BY StoreFacts
<1>1. RequestTypes' /\ Over(r) /\ OthersSame(r)
  BY <1>0, DoneEffect DEF RequestTypes
<1>2. ServerTypes'
  BY <1>0 DEF ServerTypes, SmallSets
<1>3. InHand(r)'
  BY <1>0, <1>1 DEF InHand, Working, Over
<1>4. \A q \in Requests : InHand(q)'
  BY <1>0, <1>1, <1>3, InHandKept DEF LockMoves
<1>5. OneWriter'
  BY <1>0, <1>1, FullKept DEF Working, Over
<1>6. Stored' = Stored /\ (store # Absent => (Loadable(store)' <=> Loadable(store)))
  BY StoreSame
<1>7. InMemory'
  <2>1. lock # Absent => lock \in Requests /\ lock # r
    BY <1>0 DEF RequestTypes, InHand, Working
  <2>2. lock # Absent => want'[lock] = want[lock]
    BY <1>1, <2>1 DEF OthersSame, Same
  <2>3. QED
    BY <1>0, <1>6, <2>2 DEF InMemory
<1>8. StoreWhole' /\ ConfirmedStored'
  BY <1>0, <1>6 DEF StoreWhole, ConfirmedStored
<1>9. NothingNew
  BY <1>1, NothingNewOf
<1>10. QED
  BY <1>1, <1>2, <1>4, <1>5, <1>7, <1>8, <1>9 DEF StoreKeeps, StoreInv

LEMMA KnownKeeps ==
  ASSUME StoreInv, NEW r \in Requests, Known(r)
  PROVE  StoreKeeps
<1>0. ServerTypes /\ InHand(r) /\ InMemory /\ ConfirmedStored
  BY StoreFacts
<1>1. /\ stage[r] = "asked" /\ lock = Absent /\ want[r] \in tenants
      /\ confirmed' = confirmed \union {want[r]} /\ Done(r)
      /\ UNCHANGED <<up, tenants, lock, store, temporary, content, cut, forgotten, overlap, drops, errors>>
  BY DEF Known
<1>2. ~overlap => want[r] \in Stored \union cut
  BY <1>0, <1>1 DEF InMemory, InHand
<1>3. ~overlap => confirmed' \ (cut \union forgotten) \subseteq Stored
  BY <1>0, <1>1, <1>2 DEF ConfirmedStored
<1>4. drops' \in 0..MaxDrops
  BY <1>0, <1>1 DEF ServerTypes
<1>5. QED
  BY <1>1, <1>3, <1>4, OverKeeps

LEMMA RefusedKeeps ==
  ASSUME StoreInv, NEW r \in Requests, Refused(r)
  PROVE  StoreKeeps
<1>1. /\ stage[r] = "asked" /\ Done(r)
      /\ UNCHANGED <<up, tenants, lock, store, temporary, content, confirmed, cut, forgotten, overlap,
                     drops, errors>>
  BY DEF Refused
<1>2. (~overlap => confirmed' \ (cut \union forgotten) \subseteq Stored) /\ drops' \in 0..MaxDrops
  BY <1>1, StoreFacts DEF ConfirmedStored, ServerTypes
<1>3. QED
  BY <1>1, <1>2, OverKeeps

LEMMA InsertKeeps ==
  ASSUME StoreInv, NEW r \in Requests, Insert(r)
  PROVE  StoreKeeps
<1>0. /\ RequestTypes /\ ServerTypes /\ InHand(r) /\ OneWriter /\ InMemory
      /\ StoreWhole /\ ConfirmedStored /\ \A q \in Requests : InHand(q)
  BY StoreFacts
<1>1. /\ stage[r] = "asked" /\ lock = Absent /\ want[r] \notin tenants
      /\ Cardinality(tenants) < MaxTenants /\ tenants' = tenants \union {want[r]} /\ lock' = r
      /\ snapshot' = [snapshot EXCEPT ![r] = tenants'] /\ overlap' = (overlap \/ orphan # {})
      /\ stage' = [stage EXCEPT ![r] = "open"]
      /\ UNCHANGED <<up, want, handle, orphan, store, temporary, content, confirmed, cut, forgotten, drops,
                     errors>>
  BY DEF Insert, At
<1>2. up /\ want[r] \in Tenants /\ r \notin orphan /\ handle[r] = Absent
  BY <1>0, <1>1 DEF InHand, Working
<1>3. tenants' \in SmallSets
  BY <1>0, <1>1, <1>2, OneMore DEF ServerTypes
<1>4. RequestTypes' /\ ServerTypes'
  <2>1. RequestTypes'
    BY <1>0, <1>1, <1>3 DEF RequestTypes
  <2>2. ServerTypes'
    BY <1>0, <1>1, <1>3 DEF ServerTypes
  <2>3. QED
    BY <2>1, <2>2
<1>5. OthersSame(r) /\ stage'[r] = "open" /\ snapshot'[r] = tenants'
  BY <1>0, <1>1 DEF OthersSame, Same, RequestTypes
<1>6. InHand(r)'
  BY <1>1, <1>2, <1>5 DEF InHand, Working
<1>7. \A q \in Requests : InHand(q)'
  BY <1>0, <1>1, <1>5, <1>6, InHandKept DEF LockMoves
<1>8. Stored' = Stored /\ (store # Absent => (Loadable(store)' <=> Loadable(store)))
  BY <1>1, StoreSame
<1>9. OneWriter'
  <2>1. SUFFICES ASSUME ~overlap' PROVE OneWriter'
    BY DEF OneWriter
  <2>2. ~overlap /\ orphan = {}
    BY <1>1, <2>1
  <2>3. \A q \in Requests : ~Working(q)
    BY <1>0, <1>1, <2>2, Limits DEF InHand
  <2>4. \A q \in Requests \ {r} : ~Working(q)'
    BY <1>5, <2>3 DEF OthersSame, Same, Working
  <2>5. want[r] \notin Stored \ forgotten
    BY <1>0, <1>1, <1>2, <2>2 DEF InMemory
  <2>6. InFull(r)'
    BY <1>1, <1>5, <1>8, <2>5 DEF InFull
  <2>7. \A q \in Requests : InFull(q)'
    BY <2>4, <2>6 DEF InFull
  <2>8. store' # Absent => store' # temporary'
    BY <1>0, <1>1, <2>2 DEF OneWriter
  <2>9. QED
    BY <2>4, <2>7, <2>8 DEF OneWriter
<1>10. InMemory'
  BY <1>0, <1>1, <1>8, Limits DEF InMemory
<1>11. StoreWhole' /\ ConfirmedStored'
  BY <1>0, <1>1, <1>8 DEF StoreWhole, ConfirmedStored
<1>12. NothingNew
  <2>1. SUFFICES ASSUME NEW t \in Tenants, HasHeard(t)' PROVE HasHeard(t)
    BY DEF NothingNew
  <2>2. t \in tenants' \union confirmed' => HasHeard(t)
    BY <1>1 DEF HasHeard
  <2>3. t = want'[r] \/ t \in snapshot'[r] => HasHeard(t)
    BY <1>1, <1>5 DEF HasHeard
  <2>4. \A f \in Files : \A k \in DOMAIN content'[f] : t \in content'[f][k] => HasHeard(t)
    BY <1>1 DEF HasHeard
  <2>5. QED
    BY <1>5, <2>1, <2>2, <2>3, <2>4, HeardKept
<1>13. QED
  BY <1>4, <1>7, <1>9, <1>10, <1>11, <1>12 DEF StoreKeeps, StoreInv

\* A writer goes on to its next stage, and what is stored stays.
LEMMA WritesOn ==
  ASSUME StoreInv, NEW r \in Requests, Working(r), Working(r)', OthersSame(r),
         RequestTypes', ServerTypes', InHand(r)',
         UNCHANGED <<up, tenants, store, confirmed, forgotten, overlap>>, cut \subseteq cut', LockMoves(r),
         want'[r] = want[r], lock' = lock \/ want[r] \in cut',
         ~overlap => /\ store # Absent => content'[store] = content[store] /\ store # temporary'
                     /\ Stored' = Stored => InFull(r)'
  PROVE  StoreInv'
<1>0. /\ RequestTypes /\ ServerTypes /\ InHand(r) /\ OneWriter /\ InMemory
      /\ StoreWhole /\ ConfirmedStored /\ \A q \in Requests : InHand(q)
  BY StoreFacts
<1>1. \A q \in Requests : InHand(q)'
  BY <1>0, InHandKept
<1>2. ~overlap => /\ Stored' = Stored
                  /\ store # Absent => (Loadable(store)' <=> Loadable(store))
  BY StoreSame
<1>3. OneWriter'
  <2>1. SUFFICES ASSUME ~overlap PROVE OneWriter'
    BY DEF OneWriter
  <2>2. /\ \A q \in Requests \ {r} : InFull(q)'
        /\ \A p, q \in Requests : Working(p)' /\ Working(q)' => p = q
    BY <1>0, <2>1, StillAlone
  <2>3. \A q \in Requests : InFull(q)'
    BY <1>2, <2>1, <2>2
  <2>4. QED
    BY <2>1, <2>2, <2>3 DEF OneWriter
<1>4. InMemory'
  <2>1. SUFFICES ASSUME ~overlap, up PROVE InMemory'
    BY DEF InMemory
  <2>2. Stored \subseteq tenants \union forgotten /\ Stored' = Stored
    BY <1>0, <1>2, <2>1 DEF InMemory
  <2>3. ASSUME NEW t \in tenants
        PROVE  t \in Stored \union cut' \/ (lock' # Absent /\ t = want'[lock'])
    <3>1. t \in Stored \union cut \/ (lock # Absent /\ t = want[lock])
      BY <1>0, <2>1 DEF InMemory
    <3>2. CASE lock # Absent /\ t = want[lock]
      <4>1. lock \in Requests /\ Working(lock)
        BY <1>0, <3>2 DEF RequestTypes, InHand
      <4>2. lock = r
        BY <1>0, <2>1, <4>1 DEF OneWriter
      <4>3. QED
        BY <3>2, <4>2
    <3>3. QED
      BY <3>1, <3>2
  <2>4. QED
    BY <2>2, <2>3 DEF InMemory
<1>5. StoreWhole' /\ ConfirmedStored'
  BY <1>0, <1>2 DEF StoreWhole, ConfirmedStored
<1>6. QED
  BY <1>1, <1>3, <1>4, <1>5 DEF StoreInv

\* The temporary file is emptied, and it is not the store.
LEMMA OpenKeeps ==
  ASSUME StoreInv, NEW r \in Requests, Open(r)
  PROVE  StoreKeeps
<1>0. /\ RequestTypes /\ ServerTypes /\ InHand(r) /\ OneWriter
      /\ MaxTenants \in Nat /\ Absent \notin Files
  BY StoreFacts, Limits
<1>1. PICK f : /\ f = IF temporary = Absent THEN Unused ELSE temporary
               /\ temporary' = f /\ handle' = [handle EXCEPT ![r] = f]
               /\ content' = [content EXCEPT ![f] = <<>>]
  BY DEF Open
<1>2. /\ stage[r] = "open" /\ stage' = [stage EXCEPT ![r] = "write"]
      /\ UNCHANGED <<up, tenants, lock, want, snapshot, orphan, store, confirmed, cut, forgotten, overlap,
                     drops, errors>>
  BY DEF Open, At
<1>3. f \in Files
  BY <1>0, <1>1, UnusedFile DEF ServerTypes
<1>4. <<>> \in Contents
  BY <1>0 DEF Contents
<1>5. content' \in [Files -> Contents] /\ content'[f] = <<>>
      /\ \A g \in Files \ {f} : content'[g] = content[g]
  BY <1>0, <1>1, <1>3, <1>4 DEF ServerTypes
<1>6. RequestTypes' /\ ServerTypes'
  <2>1. RequestTypes'
    BY <1>0, <1>1, <1>2, <1>3 DEF RequestTypes
  <2>2. ServerTypes'
    BY <1>0, <1>1, <1>2, <1>3, <1>5 DEF ServerTypes
  <2>3. QED
    BY <2>1, <2>2
<1>7. /\ OthersSame(r) /\ stage'[r] = "write" /\ handle'[r] = f /\ want'[r] = want[r]
      /\ snapshot'[r] = snapshot[r] /\ Working(r) /\ Working(r)'
  BY <1>0, <1>1, <1>2 DEF OthersSame, Same, RequestTypes, Working
<1>8. InHand(r)'
  BY <1>0, <1>2, <1>3, <1>7 DEF InHand, Working
<1>9. ASSUME ~overlap
      PROVE  /\ store # Absent => content'[store] = content[store] /\ store # temporary'
             /\ Stored' = Stored => InFull(r)'
  <2>1. store # Absent => store # f
    BY <1>0, <1>1, <1>9, UnusedFile DEF OneWriter
  <2>2. store # Absent => content'[store] = content[store] /\ store # temporary'
    BY <1>0, <1>1, <1>5, <2>1 DEF ServerTypes
  <2>3. snapshot[r] = tenants /\ want[r] \in tenants /\ want[r] \notin Stored \ forgotten
    BY <1>0, <1>7, <1>9 DEF OneWriter, InFull
  <2>4. Stored' = Stored => InFull(r)'
    BY <1>1, <1>2, <1>5, <1>7, <2>3 DEF InFull
  <2>5. QED
    BY <2>2, <2>4
<1>10. StoreInv'
  BY <1>2, <1>6, <1>7, <1>8, <1>9, WritesOn DEF LockMoves
<1>11. NothingNew
  <2>1. SUFFICES ASSUME NEW t \in Tenants, HasHeard(t)' PROVE HasHeard(t)
    BY DEF NothingNew
  <2>2. t \in tenants' \union confirmed' => HasHeard(t)
    BY <1>2 DEF HasHeard
  <2>3. t = want'[r] \/ t \in snapshot'[r] => HasHeard(t)
    BY <1>7 DEF HasHeard
  <2>4. ASSUME NEW g \in Files, NEW k \in DOMAIN content'[g], t \in content'[g][k]
        PROVE  HasHeard(t)
    <3>1. g # f
      BY <1>5, <2>4
    <3>2. QED
      BY <1>5, <2>4, <3>1 DEF HasHeard
  <2>5. QED
    BY <1>7, <2>1, <2>2, <2>3, <2>4, HeardKept
<1>12. QED
  BY <1>10, <1>11 DEF StoreKeeps

LEMMA PermitKeeps ==
  ASSUME StoreInv, NEW r \in Requests, Permit(r)
  PROVE  StoreKeeps
<1>0. RequestTypes /\ ServerTypes /\ InHand(r) /\ OneWriter
  BY StoreFacts
<1>1. /\ stage[r] = "wrote" /\ stage' = [stage EXCEPT ![r] = "rename"]
      /\ UNCHANGED <<up, tenants, lock, want, snapshot, handle, orphan, store, temporary, content,
                     confirmed, cut, forgotten, overlap, drops, errors>>
  BY DEF Permit, At
<1>2. RequestTypes' /\ ServerTypes'
  BY <1>0, <1>1 DEF RequestTypes, ServerTypes
<1>3. OthersSame(r) /\ stage'[r] = "rename" /\ Working(r) /\ Working(r)'
  BY <1>0, <1>1 DEF OthersSame, Same, RequestTypes, Working
<1>4. InHand(r)'
  BY <1>0, <1>1, <1>3 DEF InHand, Working
<1>5. ASSUME ~overlap
      PROVE  /\ store # Absent => content'[store] = content[store] /\ store # temporary'
             /\ Stored' = Stored => InFull(r)'
  BY <1>0, <1>1, <1>3, <1>5 DEF OneWriter, InFull
<1>6. StoreInv'
  BY <1>1, <1>2, <1>3, <1>4, <1>5, WritesOn DEF LockMoves
<1>7. NothingNew
  BY <1>1 DEF NothingNew, HasHeard
<1>8. QED
  BY <1>6, <1>7 DEF StoreKeeps

\* A writer stops without having stored anything: its tenant is taken out again, or its
\* caller has hung up.
LEMMA StopsWriting ==
  ASSUME StoreInv, NEW r \in Requests, Working(r), Done(r),
         UNCHANGED <<up, store, confirmed, forgotten, overlap>>,
         temporary' \in Files \union {Absent}, content' \in [Files -> Contents],
         ~overlap /\ store # Absent => content'[store] = content[store] /\ store # temporary',
         lock' = IF r \in orphan THEN lock ELSE Absent,
         tenants' \in SmallSets, tenants \ {want[r]} \subseteq tenants', tenants' \subseteq tenants,
         cut' \subseteq Tenants, cut \subseteq cut',
         r \in orphan => tenants' = tenants,
         r \notin orphan => want[r] \notin tenants' \/ want[r] \in cut',
         drops' \in 0..MaxDrops, errors' \in 0..MaxErrors
  PROVE  StoreInv' /\ Over(r) /\ OthersSame(r)
<1>0. /\ RequestTypes /\ ServerTypes /\ InHand(r) /\ OneWriter /\ InMemory
      /\ StoreWhole /\ ConfirmedStored /\ \A q \in Requests : InHand(q)
  BY StoreFacts
<1>1. lock' \in Requests \union {Absent} /\ LockMoves(r)
  BY <1>0 DEF RequestTypes, LockMoves, InHand
<1>2. RequestTypes' /\ Over(r) /\ OthersSame(r)
  BY <1>0, <1>1, DoneEffect
<1>3. ServerTypes'
  BY <1>0 DEF ServerTypes
<1>4. InHand(r)'
  <2>1. lock' # r
    BY <1>0, Limits DEF InHand
  <2>2. QED
    BY <1>2, <2>1 DEF InHand, Working, Over
<1>5. \A q \in Requests : InHand(q)'
  BY <1>0, <1>1, <1>2, <1>4, InHandKept
<1>6. ~overlap => /\ Stored' = Stored
                  /\ store # Absent => (Loadable(store)' <=> Loadable(store))
  BY StoreSame
<1>7. OneWriter'
  <2>1. SUFFICES ASSUME ~overlap PROVE OneWriter'
    BY DEF OneWriter
  <2>2. /\ \A q \in Requests \ {r} : ~Working(q)'
        /\ \A q \in Requests \ {r} : InFull(q)'
        /\ \A p, q \in Requests : Working(p)' /\ Working(q)' => p = q
    BY <1>0, <1>2, <2>1, StillAlone
  <2>3. ~Working(r)'
    BY <1>2 DEF Over, Working
  <2>4. QED
    BY <1>0, <2>1, <2>2, <2>3 DEF OneWriter, InFull
<1>8. InMemory'
  <2>1. SUFFICES ASSUME ~overlap, up PROVE InMemory'
    BY DEF InMemory
  <2>2. want[r] \notin Stored \ forgotten /\ Stored \subseteq tenants \union forgotten
    BY <1>0, <2>1 DEF OneWriter, InFull, InMemory
  <2>3. lock # Absent => lock = r /\ r \notin orphan
    BY <1>0, <2>1 DEF RequestTypes, InHand, OneWriter
  <2>4. ASSUME NEW t \in tenants'
        PROVE  t \in Stored \union cut'
    <3>1. t \in Stored \union cut \/ (lock # Absent /\ t = want[lock])
      BY <1>0, <2>1 DEF InMemory
    <3>2. QED
      BY <2>3, <2>4, <3>1
  <2>5. QED
    BY <1>6, <2>1, <2>2, <2>4 DEF InMemory
<1>9. StoreWhole' /\ ConfirmedStored'
  BY <1>0, <1>6 DEF StoreWhole, ConfirmedStored
<1>10. QED
  BY <1>2, <1>3, <1>5, <1>7, <1>8, <1>9 DEF StoreInv

LEMMA UndoKeeps ==
  ASSUME StoreInv, NEW r \in Requests, Working(r), Undo(r),
         UNCHANGED <<up, store, temporary, content, confirmed, cut, forgotten, overlap, drops>>,
         errors' \in 0..MaxErrors
  PROVE  StoreKeeps
<1>0. ServerTypes /\ OneWriter
  BY StoreFacts
<1>1. /\ tenants' = IF r \in orphan THEN tenants ELSE tenants \ {want[r]}
      /\ lock' = IF r \in orphan THEN lock ELSE Absent
      /\ Done(r)
  BY DEF Undo
<1>2. tenants' \in SmallSets
  BY <1>0, <1>1, OneLess DEF ServerTypes
<1>3. cut' \subseteq Tenants /\ drops' \in 0..MaxDrops
  BY <1>0 DEF ServerTypes
<1>4. /\ tenants \ {want[r]} \subseteq tenants' /\ tenants' \subseteq tenants
      /\ r \in orphan => tenants' = tenants
      /\ r \notin orphan => want[r] \notin tenants'
  BY <1>1
<1>5. /\ temporary' \in Files \union {Absent} /\ content' \in [Files -> Contents]
      /\ ~overlap /\ store # Absent => content'[store] = content[store] /\ store # temporary'
  BY <1>0 DEF ServerTypes, OneWriter
<1>6. StoreInv' /\ Over(r) /\ OthersSame(r)
  BY <1>1, <1>2, <1>3, <1>4, <1>5, StopsWriting
<1>7. NothingNew
  BY <1>4, <1>6, NothingNewOf
<1>8. QED
  BY <1>6, <1>7 DEF StoreKeeps

LEMMA MissingKeeps ==
  ASSUME StoreInv, NEW r \in Requests, Missing(r)
  PROVE  StoreKeeps
<1>1. Working(r) /\ errors' \in 0..MaxErrors
  BY StoreFacts DEF Missing, Working, ServerTypes
<1>2. QED
  BY <1>1, UndoKeeps DEF Missing

LEMMA StoreFailsKeeps ==
  ASSUME StoreInv, NEW r \in Requests, StoreFails(r)
  PROVE  StoreKeeps
<1>1. Working(r) /\ errors' \in 0..MaxErrors
  BY StoreFacts, Limits DEF StoreFails, Working, ServerTypes
<1>2. QED
  BY <1>1, UndoKeeps DEF StoreFails

\* A write goes to the temporary file, whole.
LEMMA WriteKeeps ==
  ASSUME StoreInv, NEW r \in Requests, Write(r)
  PROVE  StoreKeeps
<1>0. RequestTypes /\ ServerTypes /\ InHand(r) /\ OneWriter
  BY StoreFacts
<1>1. /\ stage[r] = "write"
      /\ IF r \in orphan THEN Done(r)
                         ELSE At(r, "wrote") /\ UNCHANGED <<want, snapshot, handle, orphan>>
      /\ UNCHANGED <<up, tenants, lock, store, temporary, confirmed, cut, forgotten, overlap, drops, errors>>
  BY DEF Write
<1>2. PICK h \in Files : h = handle[r]
  BY <1>0, <1>1 DEF InHand
<1>3. PICK old \in Contents : old = content[h]
  BY <1>0 DEF ServerTypes
<1>4. PICK S \in SmallSets : S = snapshot[r]
  BY <1>0 DEF RequestTypes
<1>5. PICK new : new = Overwritten(S, old)
  OBVIOUS
<1>6. content' = [content EXCEPT ![h] = new]
  BY <1>2, <1>3, <1>4, <1>5 DEF Write, Entries, Overwritten
<1>7. /\ new \in Contents /\ (old = <<>> => new = Entries(S))
      /\ \A k \in DOMAIN new : new[k] = S \/ \E j \in DOMAIN old : new[k] = old[j]
  BY <1>3, <1>4, <1>5, WriteResult
<1>8. /\ content' \in [Files -> Contents] /\ content'[h] = new
      /\ \A g \in Files \ {h} : content'[g] = content[g]
  BY <1>0, <1>6, <1>7 DEF ServerTypes
<1>9. Working(r) /\ ServerTypes'
  BY <1>0, <1>1, <1>8 DEF ServerTypes, Working
<1>10. ~overlap => /\ h = temporary /\ old = <<>> /\ S = tenants
                   /\ want[r] \in tenants /\ want[r] \notin Stored \ forgotten
  BY <1>0, <1>1, <1>2, <1>3, <1>4, <1>9 DEF OneWriter, InFull
<1>11. ~overlap /\ store # Absent => content'[store] = content[store] /\ store # temporary'
  BY <1>0, <1>1, <1>8, <1>10 DEF OneWriter, ServerTypes
<1>12. ASSUME NEW t \in Tenants, NEW f \in Files, NEW k \in DOMAIN content'[f],
              t \in content'[f][k]
       PROVE  HasHeard(t)
  <2>1. CASE f = h
    <3>1. k \in DOMAIN new /\ t \in new[k]
      BY <1>8, <1>12, <2>1
    <3>2. CASE new[k] = S
      BY <1>4, <3>1, <3>2 DEF HasHeard
    <3>3. CASE \E j \in DOMAIN old : new[k] = old[j]
      BY <1>3, <3>1, <3>3 DEF HasHeard
    <3>4. QED
      BY <1>7, <3>1, <3>2, <3>3
  <2>2. CASE f # h
    BY <1>8, <1>12, <2>2 DEF HasHeard
  <2>3. QED
    BY <2>1, <2>2
<1>13. ASSUME OthersSame(r), \A t \in Tenants : t = want'[r] \/ t \in snapshot'[r] => HasHeard(t)
       PROVE  NothingNew
  <2>1. SUFFICES ASSUME NEW t \in Tenants, HasHeard(t)' PROVE HasHeard(t)
    BY DEF NothingNew
  <2>2. t \in tenants' \union confirmed' => HasHeard(t)
    BY <1>1 DEF HasHeard
  <2>3. QED
    BY <1>12, <1>13, <2>1, <2>2, HeardKept
<1>14. CASE r \in orphan
  <2>1. /\ Done(r) /\ tenants' \in SmallSets /\ tenants \ {want[r]} \subseteq tenants'
        /\ tenants' \subseteq tenants /\ cut' \subseteq Tenants
        /\ temporary' \in Files \union {Absent} /\ drops' \in 0..MaxDrops /\ errors' \in 0..MaxErrors
    BY <1>0, <1>1, <1>14 DEF ServerTypes
  <2>2. StoreInv' /\ Over(r) /\ OthersSame(r)
    BY <1>1, <1>8, <1>9, <1>11, <1>14, <2>1, StopsWriting
  <2>3. \A t \in Tenants : ~(t = want'[r] \/ t \in snapshot'[r])
    BY <2>2, Limits DEF Over
  <2>4. QED
    BY <1>13, <2>2, <2>3 DEF StoreKeeps
<1>15. CASE r \notin orphan
  <2>1. stage' = [stage EXCEPT ![r] = "wrote"] /\ UNCHANGED <<want, snapshot, handle, orphan>>
    BY <1>1, <1>15 DEF At
  <2>2. RequestTypes'
    BY <1>0, <1>1, <2>1 DEF RequestTypes
  <2>3. OthersSame(r) /\ stage'[r] = "wrote" /\ Working(r)'
    BY <1>0, <2>1 DEF OthersSame, Same, RequestTypes, Working
  <2>4. InHand(r)'
    BY <1>0, <1>1, <1>9, <2>1, <2>3 DEF InHand, Working
  <2>5. ~overlap => (Stored' = Stored => InFull(r)')
    BY <1>1, <1>2, <1>4, <1>7, <1>8, <1>10, <2>1, <2>3 DEF InFull
  <2>6. StoreInv'
    BY <1>1, <1>9, <1>11, <2>1, <2>2, <2>3, <2>4, <2>5, WritesOn DEF LockMoves
  <2>7. NothingNew
    BY <1>13, <2>1, <2>3 DEF HasHeard
  <2>8. QED
    BY <2>6, <2>7 DEF StoreKeeps
<1>16. QED
  BY <1>14, <1>15

\* The temporary file becomes the store, with all tenants in it.
LEMMA RenameKeeps ==
  ASSUME StoreInv, NEW r \in Requests, Rename(r)
  PROVE  StoreKeeps
<1>0. /\ RequestTypes /\ ServerTypes /\ InHand(r) /\ OneWriter /\ InMemory
      /\ StoreWhole /\ ConfirmedStored /\ \A q \in Requests : InHand(q)
      /\ MaxTenants \in Nat /\ Absent \notin Files /\ Absent \notin Requests
  BY StoreFacts, Limits
<1>1. /\ stage[r] = "rename" /\ temporary # Absent /\ store' = temporary /\ temporary' = Absent
      /\ confirmed' = IF r \in orphan THEN confirmed ELSE confirmed \union {want[r]}
      /\ lock' = IF r \in orphan THEN lock ELSE Absent
      /\ Done(r)
      /\ content' = [f \in Files |-> IF f \in {store'} \union {handle'[q] : q \in Requests}
                                      THEN content[f] ELSE <<>>]
      /\ forgotten' = forgotten \ snapshot[r]
      /\ UNCHANGED <<up, tenants, cut, overlap, drops, errors>>
  BY DEF Rename
<1>2. Working(r) /\ up /\ want[r] \in Tenants /\ temporary \in Files
  BY <1>0, <1>1 DEF Working, InHand, ServerTypes
<1>3. lock' \in Requests \union {Absent} /\ LockMoves(r)
  BY <1>0, <1>1, <1>2 DEF RequestTypes, LockMoves, InHand
<1>4. RequestTypes' /\ Over(r) /\ OthersSame(r)
  BY <1>0, <1>1, <1>3, DoneEffect
<1>5. /\ content' \in [Files -> Contents] /\ content'[temporary] = content[temporary]
      /\ \A f \in Files : content'[f] \in {content[f], <<>>}
  <2>1. <<>> \in Contents
    BY <1>0 DEF Contents
  <2>2. \A f \in Files : content[f] \in Contents
    BY <1>0 DEF ServerTypes
  <2>3. QED
    BY <1>1, <1>2, <2>1, <2>2
<1>6. ServerTypes'
  BY <1>0, <1>1, <1>2, <1>5 DEF ServerTypes
<1>7. InHand(r)'
  <2>1. lock' # r
    BY <1>0, <1>1 DEF InHand
  <2>2. QED
    BY <1>4, <2>1 DEF InHand, Working, Over
<1>8. \A q \in Requests : InHand(q)'
  BY <1>0, <1>1, <1>3, <1>4, <1>7, InHandKept
<1>9. ~overlap => /\ Stored' = tenants /\ Loadable(store)' /\ Stored \subseteq tenants \union forgotten
                  /\ want[r] \in tenants /\ forgotten' = forgotten \ tenants
  <2>1. SUFFICES ASSUME ~overlap
                 PROVE  /\ Stored' = tenants /\ Loadable(store)' /\ Stored \subseteq tenants \union forgotten
                        /\ want[r] \in tenants /\ forgotten' = forgotten \ tenants
    OBVIOUS
  <2>2. /\ want[r] \in tenants /\ content[temporary] = Entries(tenants)
        /\ Stored \subseteq tenants \union forgotten /\ tenants \in SmallSets
        /\ forgotten' = forgotten \ tenants
    BY <1>0, <1>1, <1>2, <2>1 DEF OneWriter, InFull, InMemory, ServerTypes
  <2>3. PICK S \in SmallSets : S = tenants /\ S # {}
    BY <2>2
  <2>4. content[temporary] = Entries(S)
    BY <2>2, <2>3
  <2>5. /\ Loadable(temporary) /\ content[temporary] # <<>> /\ content[temporary][1] = S
    BY <2>3, <2>4, EntriesLoad
  <2>6. Loadable(store)'
    BY <1>1, <1>5, <2>5 DEF Loadable
  <2>7. Stored' = S
    BY <1>0, <1>1, <1>2, <1>5, <2>5 DEF Stored
  <2>8. QED
    BY <2>2, <2>3, <2>6, <2>7
<1>10. OneWriter'
  <2>1. SUFFICES ASSUME ~overlap PROVE OneWriter'
    BY <1>1 DEF OneWriter
  <2>2. /\ \A q \in Requests \ {r} : InFull(q)'
        /\ \A p, q \in Requests : Working(p)' /\ Working(q)' => p = q
    BY <1>0, <1>2, <1>4, <2>1, StillAlone
  <2>3. InFull(r)'
    BY <1>4 DEF Over, Working, InFull
  <2>4. store' # temporary'
    BY <1>0, <1>1, <1>2
  <2>5. QED
    BY <2>2, <2>3, <2>4 DEF OneWriter
<1>11. InMemory'
  BY <1>1, <1>9 DEF InMemory
<1>12. StoreWhole' /\ ConfirmedStored'
  <2>1. StoreWhole'
    BY <1>1, <1>9 DEF StoreWhole
  <2>2. ASSUME ~overlap, NEW t \in confirmed' \ (cut \union forgotten')
        PROVE  t \in tenants
    <3>1. CASE t \in confirmed
      BY <1>0, <1>9, <2>2, <3>1 DEF ConfirmedStored
    <3>2. CASE t \notin confirmed
      BY <1>1, <1>9, <2>2, <3>2
    <3>3. QED
      BY <3>1, <3>2
  <2>3. ConfirmedStored'
    BY <1>1, <1>9, <2>2 DEF ConfirmedStored
  <2>4. QED
    BY <2>1, <2>3
<1>13. NothingNew
  <2>1. SUFFICES ASSUME NEW t \in Tenants, HasHeard(t)' PROVE HasHeard(t)
    BY DEF NothingNew
  <2>2. t \in tenants' \union confirmed' => HasHeard(t)
    BY <1>1 DEF HasHeard
  <2>3. ~(t = want'[r] \/ t \in snapshot'[r])
    BY <1>4, Limits DEF Over
  <2>4. ASSUME NEW f \in Files, NEW k \in DOMAIN content'[f], t \in content'[f][k]
        PROVE  HasHeard(t)
    <3>1. content'[f] # <<>>
      BY <2>4
    <3>2. content'[f] = content[f]
      BY <1>5, <3>1
    <3>3. QED
      BY <2>4, <3>2 DEF HasHeard
  <2>5. QED
    BY <1>4, <2>1, <2>2, <2>3, <2>4, HeardKept
<1>14. QED
  BY <1>4, <1>6, <1>8, <1>10, <1>11, <1>12, <1>13 DEF StoreKeeps, StoreInv

\* A caller that hangs up leaves its tenant with the server, and perhaps a thread at work.
LEMMA DropKeeps ==
  ASSUME StoreInv, NEW r \in Requests, Drop(r)
  PROVE  StoreKeeps
<1>0. RequestTypes /\ ServerTypes /\ InHand(r) /\ OneWriter /\ ConfirmedStored /\ MaxDrops \in Nat
  BY StoreFacts, Limits
<1>1. /\ stage[r] # "none" /\ r \notin orphan /\ drops < MaxDrops /\ drops' = drops + 1
      /\ UNCHANGED <<up, tenants, store, temporary, content, confirmed, forgotten, overlap,
                     errors>>
  BY DEF Drop
<1>2. drops' \in 0..MaxDrops /\ want[r] \in Tenants
  BY <1>0, <1>1 DEF ServerTypes, InHand
<1>3. CASE stage[r] = "asked"
  <2>1. Done(r) /\ UNCHANGED <<cut, lock>>
    BY <1>3 DEF Drop
  <2>2. confirmed' \subseteq confirmed \union tenants /\ (~overlap => confirmed' \ (cut \union forgotten) \subseteq Stored)
    BY <1>0, <1>1 DEF ConfirmedStored
  <2>3. QED
    BY <1>1, <1>2, <1>3, <2>1, <2>2, OverKeeps
<1>4. CASE stage[r] # "asked"
  <2>1. /\ cut' = cut \union {want[r]} /\ lock' = Absent
        /\ \/ stage[r] \in {"open", "wrote"} /\ Done(r)
           \/ /\ stage[r] \in {"open", "write", "rename"}
              /\ orphan' = orphan \union {r}
              /\ UNCHANGED <<stage, want, snapshot, handle>>
    BY <1>4 DEF Drop
  <2>2. Working(r) /\ lock = r
    BY <1>0, <1>1, <2>1 DEF InHand, Working
  <2>3. /\ cut' \subseteq Tenants /\ want[r] \in cut' /\ cut \subseteq cut'
        /\ temporary' \in Files \union {Absent} /\ content' \in [Files -> Contents]
        /\ tenants' \in SmallSets /\ errors' \in 0..MaxErrors
        /\ ~overlap /\ store # Absent => content'[store] = content[store] /\ store # temporary'
    BY <1>0, <1>1, <1>2, <2>1 DEF ServerTypes, OneWriter
  <2>4. CASE Done(r)
    <3>1. StoreInv' /\ Over(r) /\ OthersSame(r)
      BY <1>1, <1>2, <2>1, <2>2, <2>3, <2>4, StopsWriting
    <3>2. NothingNew
      BY <1>1, <3>1, NothingNewOf
    <3>3. QED
      BY <3>1, <3>2 DEF StoreKeeps
  <2>5. CASE orphan' = orphan \union {r} /\ UNCHANGED <<stage, want, snapshot, handle>>
    <3>1. RequestTypes' /\ ServerTypes'
      BY <1>0, <1>1, <1>2, <2>1, <2>3, <2>5 DEF RequestTypes, ServerTypes
    <3>2. OthersSame(r) /\ Working(r)' /\ LockMoves(r)
      BY <2>1, <2>2, <2>5 DEF OthersSame, Same, Working, LockMoves
    <3>3. InHand(r)'
      <4>1. lock' # r
        BY <2>1, Limits
      <4>2. QED
        BY <1>0, <1>1, <2>2, <2>5, <3>2, <4>1 DEF InHand, Working
    <3>4. ~overlap => (Stored' = Stored => InFull(r)')
      BY <1>0, <1>1, <2>2, <2>5 DEF OneWriter, InFull
    <3>5. StoreInv'
      BY <1>1, <2>2, <2>3, <2>5, <3>1, <3>2, <3>3, <3>4, WritesOn
    <3>6. NothingNew
      BY <1>1, <2>5 DEF NothingNew, HasHeard
    <3>7. QED
      BY <3>5, <3>6 DEF StoreKeeps
  <2>6. QED
    BY <2>1, <2>4, <2>5
<1>5. QED
  BY <1>3, <1>4

-----------------------------------------------------------------------------
(* The server dies and starts *)

LEMMA ServerDiesKeeps ==
  ASSUME StoreInv, ServerDies
  PROVE  StoreKeeps
<1>0. /\ RequestTypes /\ ServerTypes /\ OneWriter /\ StoreWhole /\ ConfirmedStored
      /\ MaxErrors \in Nat
  BY Limits DEF StoreInv
<1>1. /\ errors < MaxErrors /\ errors' = errors + 1 /\ up' = FALSE /\ tenants' = {}
      /\ lock' = Absent /\ orphan' = {}
      /\ stage' = [r \in Requests |-> "none"] /\ want' = [r \in Requests |-> Absent]
      /\ snapshot' = [r \in Requests |-> {}] /\ handle' = [r \in Requests |-> Absent]
      /\ UNCHANGED <<store, temporary, content, confirmed, cut, forgotten, overlap, drops>>
  BY DEF ServerDies
<1>2. RequestTypes' /\ ServerTypes'
  <2>1. RequestTypes'
    BY <1>1, NoTenants DEF RequestTypes
  <2>2. errors' \in 0..MaxErrors
    BY <1>0, <1>1 DEF ServerTypes
  <2>3. up' \in BOOLEAN /\ tenants' \in SmallSets
    BY <1>1, NoTenants
  <2>4. ServerTypes'
    BY <1>0, <1>1, <2>2, <2>3 DEF ServerTypes
  <2>5. QED
    BY <2>1, <2>4
<1>3. \A r \in Requests : InHand(r)'
  BY <1>1, Limits DEF InHand, Working
<1>4. Stored' = Stored /\ (store # Absent => (Loadable(store)' <=> Loadable(store)))
  BY <1>1, StoreSame
<1>5. \A r \in Requests : ~Working(r)'
  BY <1>1 DEF Working
<1>6. OneWriter' /\ InMemory'
  BY <1>0, <1>1, <1>5 DEF OneWriter, InFull, InMemory
<1>7. StoreWhole' /\ ConfirmedStored'
  BY <1>0, <1>1, <1>4 DEF StoreWhole, ConfirmedStored
<1>8. NothingNew
  BY <1>1, Limits DEF NothingNew, HasHeard
<1>9. QED
  BY <1>2, <1>3, <1>6, <1>7, <1>8 DEF StoreKeeps, StoreInv

LEMMA StoredKnown == ServerTypes => Stored \subseteq Tenants
<1> SUFFICES ASSUME ServerTypes, NEW t \in Stored PROVE t \in Tenants
  OBVIOUS
<1>1. store # Absent /\ content[store] # <<>> /\ t \in content[store][1]
  BY DEF Stored
<1>2. store \in Files /\ content[store] \in Seq(SmallSets)
  BY <1>1 DEF ServerTypes, Contents
<1>3. 1 \in DOMAIN content[store]
  BY <1>1, <1>2
<1>4. content[store][1] \in SmallSets
  BY <1>2, <1>3
<1>5. QED
  BY <1>1, <1>4 DEF SmallSets

\* What is stored are no more tenants than the server may have.
LEMMA StoredTenants ==
  ASSUME ServerTypes, store # Absent => Loadable(store)
  PROVE  /\ Stored \in SmallSets
         /\ \A t \in Stored : HasHeard(t)
<1>1. CASE Stored = {}
  BY <1>1, NoTenants
<1>2. CASE Stored # {}
  <2>1. store # Absent /\ content[store] # <<>> /\ Stored = content[store][1]
    BY <1>2 DEF Stored
  <2>2. store \in Files /\ content[store] \in Seq(SmallSets)
    BY <2>1 DEF ServerTypes, Contents
  <2>3. 1 \in DOMAIN content[store]
    BY <2>1, <2>2
  <2>4. content[store][1] \in SmallSets
    BY <2>2, <2>3
  <2>5. QED
    BY <2>1, <2>2, <2>3, <2>4 DEF HasHeard
<1>3. QED
  BY <1>1, <1>2

LEMMA ServerStartsKeeps ==
  ASSUME StoreInv, ServerStarts
  PROVE  StoreKeeps
<1>0. /\ RequestTypes /\ ServerTypes /\ OneWriter /\ StoreWhole /\ ConfirmedStored
      /\ MaxErrors \in Nat /\ \A r \in Requests : InHand(r)
  BY Limits DEF StoreInv
<1>1. /\ ~up /\ up' = TRUE
      /\ UNCHANGED <<lock, stage, want, snapshot, handle, orphan, store, temporary, content,
                     confirmed, cut, overlap, drops>>
  BY DEF ServerStarts
<1>2. /\ tenants' \in SmallSets /\ \A t \in tenants' : t \in Stored /\ HasHeard(t)
      /\ Stored \subseteq tenants' \union forgotten' /\ forgotten \ Stored \subseteq forgotten'
      /\ forgotten' \subseteq Tenants /\ errors' \in 0..MaxErrors
  <2>1. CASE /\ store # Absent => Loadable(store)
             /\ tenants' = Stored /\ forgotten' = forgotten \ Stored /\ UNCHANGED errors
    <3>1. Stored \in SmallSets /\ \A t \in Stored : HasHeard(t)
      BY <1>0, <2>1, StoredTenants
    <3>2. QED
      BY <1>0, <2>1, <3>1 DEF ServerTypes
  <2>2. CASE /\ store # Absent /\ errors < MaxErrors /\ errors' = errors + 1
             /\ tenants' = {} /\ forgotten' = forgotten \union Stored
    <3>1. Stored \subseteq Tenants
      BY <1>0, StoredKnown
    <3>2. QED
      BY <1>0, <2>2, <3>1, NoTenants DEF ServerTypes
  <2>3. QED
    BY <2>1, <2>2 DEF ServerStarts
<1>3. RequestTypes' /\ ServerTypes'
  BY <1>0, <1>1, <1>2 DEF RequestTypes, ServerTypes
<1>4. \A r \in Requests : stage[r] = "none"
  BY <1>0, <1>1 DEF InHand
<1>5. \A r \in Requests : InHand(r)'
  BY <1>0, <1>1, <1>4 DEF InHand, Working
<1>6. Stored' = Stored /\ (store # Absent => (Loadable(store)' <=> Loadable(store)))
  BY <1>1, StoreSame
<1>7. OneWriter' /\ InMemory'
  <2>1. OneWriter'
    BY <1>0, <1>1, <1>4, <1>6 DEF OneWriter, InFull, Working
  <2>2. InMemory'
    BY <1>2, <1>6 DEF InMemory
  <2>3. QED
    BY <2>1, <2>2
<1>8. StoreWhole' /\ ConfirmedStored'
  BY <1>0, <1>1, <1>2, <1>6 DEF StoreWhole, ConfirmedStored
<1>9. NothingNew
  BY <1>1, <1>2 DEF NothingNew, HasHeard
<1>10. QED
  BY <1>3, <1>5, <1>7, <1>8, <1>9 DEF StoreKeeps, StoreInv

LEMMA StoreMoves ==
  ASSUME StoreInv,
         \/ \E r \in Requests : StoreStep(r)
         \/ ServerDies \/ ServerStarts
  PROVE  StoreKeeps
<1>1. ASSUME NEW r \in Requests, StoreStep(r)
      PROVE  StoreKeeps
  BY <1>1, KnownKeeps, RefusedKeeps, InsertKeeps, OpenKeeps, WriteKeeps, PermitKeeps, RenameKeeps,
     MissingKeeps, StoreFailsKeeps, DropKeeps DEF StoreStep
<1>2. QED
  BY <1>1, ServerDiesKeeps, ServerStartsKeeps

LEMMA InitStore == StoreInit => StoreInv
<1> SUFFICES ASSUME StoreInit PROVE StoreInv
  OBVIOUS
<1>1. 0 \in 0..MaxDrops /\ 0 \in 0..MaxErrors /\ MaxTenants \in Nat
  BY Limits
<1>2. <<>> \in Contents
  BY <1>1 DEF Contents
<1>3. RequestTypes
  BY NoTenants DEF StoreInit, RequestTypes
<1>4. ServerTypes
  BY <1>1, <1>2, NoTenants DEF StoreInit, ServerTypes
<1>5. \A r \in Requests : InHand(r)
  BY Limits DEF StoreInit, InHand, Working
<1>6. Stored = {}
  BY DEF StoreInit, Stored
<1>7. OneWriter /\ InMemory
  BY <1>6 DEF StoreInit, OneWriter, InFull, Working, InMemory
<1>8. StoreWhole /\ ConfirmedStored
  BY DEF StoreInit, StoreWhole, ConfirmedStored
<1>9. QED
  BY <1>3, <1>4, <1>5, <1>7, <1>8 DEF StoreInv

-----------------------------------------------------------------------------
(* Clients and server together *)

LEMMA Parts ==
  /\ Requests = Processes \union Others /\ Processes \intersect Others = {}
  /\ Tenants = Secrets \union OtherTenants /\ Secrets \intersect OtherTenants = {}
  /\ None \notin Secrets
BY RegistrationAssumption, IdentityAssumption DEF RegistrationAssumption, IdentityAssumption

\* A secret that the server has heard of remains the one in the file.
LEMMA KnownSecretStays ==
  ASSUME ClientsInv, FileMoves, NEW s \in Secrets, HasHeard(s)
  PROVE  s = FileSecret'
<1>1. s = FileSecret /\ FileSecret # None
  BY Parts DEF ClientsInv
<1>2. QED
  BY <1>1, SecretStays

LEMMA ClientsSecret ==
  ASSUME IdentityInv, NEW p \in Processes, pc[p] = "own"
  PROVE  hold[p].secret = FileSecret /\ hold[p].secret \in Secrets
<1>1. /\ hold[p] \in Proven /\ InFile \in Identities /\ InFile.secret = hold[p].secret
  BY DEF IdentityInv, HavingOf
<1>2. QED
  BY <1>1, ProvenIdentities DEF FileSecret, Proven

\* The steps of the clients alone.
LEMMA ClientStep ==
  ASSUME RegistrationInv, NEW p \in Processes, Start(p) \/ IdentityStep(p) \/ Ends(p),
         UNCHANGED storeVars,
         asking' \union registered' \subseteq {q \in Processes : pc'[q] = "own"}
  PROVE  RegistrationInv' /\ FileMoves
<1>1. IdentityInv' /\ FileMoves
  BY IdentityMoves DEF RegistrationInv
<1>2. StoreInv'
  <2>1. RequestTypes' /\ ServerTypes'
    BY DEF RegistrationInv, StoreInv, RequestTypes, ServerTypes, storeVars
  <2>2. \A r \in Requests : InHand(r)'
    BY DEF RegistrationInv, StoreInv, InHand, Working, storeVars
  <2>3. OneWriter' /\ InMemory' /\ StoreWhole' /\ ConfirmedStored'
    BY DEF RegistrationInv, StoreInv, OneWriter, InFull, Working, InMemory, StoreWhole,
           ConfirmedStored, Stored, Loadable, storeVars
  <2>4. QED
    BY <2>1, <2>2, <2>3 DEF StoreInv
<1>3. \A s \in Secrets : HasHeard(s)' => s = FileSecret'
  <2>1. \A s \in Secrets : HasHeard(s)' <=> HasHeard(s)
    BY DEF HasHeard, storeVars
  <2>2. QED
    BY <1>1, <2>1, KnownSecretStays DEF RegistrationInv
<1>4. QED
  BY <1>1, <1>2, <1>3 DEF RegistrationInv, ClientsInv

\* The steps of the server, and of a client that gets its answer.
LEMMA ServerStep ==
  ASSUME RegistrationInv, StoreKeeps, UNCHANGED identityVars,
         asking' \union registered' \subseteq asking \union registered
  PROVE  RegistrationInv' /\ FileMoves
<1>1. IdentityInv' /\ FileMoves
  BY DEF RegistrationInv, identityVars, IdentityInv, IdentityTypeOK, PidsDiffer, NoLeftovers,
         NoSpuriousFailure, MakingOf, HavingOf, InFile, Temp, FileMoves
<1>2. FileSecret' = FileSecret /\ pc' = pc
  BY DEF identityVars, FileSecret, InFile
<1>3. ClientsInv'
  BY <1>2, Parts DEF RegistrationInv, ClientsInv, StoreKeeps, NothingNew
<1>4. QED
  BY <1>1, <1>3 DEF RegistrationInv, StoreKeeps

LEMMA AskStep ==
  ASSUME RegistrationInv, NEW p \in Processes, Ask(p)
  PROVE  RegistrationInv' /\ FileMoves
<1>1. /\ pc[p] = "own" /\ Register(p, hold[p].secret) /\ asking' = asking \union {p}
      /\ UNCHANGED <<identityVars, registered>>
  BY DEF Ask
<1>2. IdentityInv' /\ FileMoves
  BY <1>1 DEF RegistrationInv, identityVars, IdentityInv, IdentityTypeOK, PidsDiffer, NoLeftovers,
              NoSpuriousFailure, MakingOf, HavingOf, InFile, Temp, FileMoves
<1>3. FileSecret' = FileSecret /\ pc' = pc
  BY <1>1 DEF identityVars, FileSecret, InFile
<1>4. PICK s \in Secrets : s = hold[p].secret /\ s = FileSecret
  BY <1>1, ClientsSecret DEF RegistrationInv
<1>5. StoreInv' /\ \A u \in Tenants : HasHeard(u)' => HasHeard(u) \/ u = s
  BY <1>1, <1>4, Parts, RegisterKeeps DEF RegistrationInv
<1>6. ClientsInv'
  <2>1. \A u \in Secrets : HasHeard(u)' => u = FileSecret'
    BY <1>3, <1>4, <1>5, Parts DEF RegistrationInv, ClientsInv
  <2>2. asking' \union registered' \subseteq {q \in Processes : pc'[q] = "own"}
    BY <1>1, <1>3 DEF RegistrationInv, ClientsInv
  <2>3. QED
    BY <2>1, <2>2 DEF ClientsInv
<1>7. QED
  BY <1>2, <1>5, <1>6 DEF RegistrationInv

LEMMA OtherAsks ==
  ASSUME RegistrationInv, NEW o \in Others, NEW t \in OtherTenants, Register(o, t),
         UNCHANGED <<identityVars, clientVars>>
  PROVE  RegistrationInv' /\ FileMoves
<1>1. StoreInv' /\ \A u \in Tenants : HasHeard(u)' => HasHeard(u) \/ u = t
  BY Parts, RegisterKeeps DEF RegistrationInv
<1>2. IdentityInv' /\ FileMoves
  BY DEF RegistrationInv, identityVars, IdentityInv, IdentityTypeOK, PidsDiffer, NoLeftovers,
         NoSpuriousFailure, MakingOf, HavingOf, InFile, Temp, FileMoves
<1>3. FileSecret' = FileSecret /\ pc' = pc /\ asking' = asking /\ registered' = registered
  BY DEF identityVars, clientVars, FileSecret, InFile
<1>4. ClientsInv'
  BY <1>1, <1>3, Parts DEF RegistrationInv, ClientsInv
<1>5. QED
  BY <1>1, <1>2, <1>4 DEF RegistrationInv

\* A client that moves on its own has not got its identity yet, or loses it.
LEMMA OwnersStay ==
  ASSUME RegistrationInv, NEW p \in Processes, Start(p) \/ IdentityStep(p) \/ Exit(p)
  PROVE  pc[p] # "own" /\ \A q \in Processes \ {p} : pc'[q] = pc[q]
<1>0. pc \in [Processes -> Stages]
  BY DEF RegistrationInv, IdentityInv, IdentityTypeOK
<1>1. pc[p] # "own"
  BY DEF Start, IdentityStep, Exit, Generate, Load, Create, WriteIdentity, Link, Unlink, Adopt,
         Copy, Rewrite, RenameOver, FileFails
<1>2. \E l : pc' = [pc EXCEPT ![p] = l]
  <2>1. Start(p) \/ Exit(p) => \E l : Goto(p, l)
    BY DEF Start, Exit, Gone
  <2>2. Generate(p) \/ Load(p) \/ WriteIdentity(p) => \E l : Goto(p, l)
    BY DEF Generate, Load, WriteIdentity
  <2>3. Create(p) \/ Copy(p) => \E l : Goto(p, l)
    BY DEF Create, Copy, OpenNew
  <2>4. Link(p) \/ Unlink(p) \/ Adopt(p) => \E l : Goto(p, l)
    BY DEF Link, Unlink, Adopt
  <2>5. Rewrite(p) \/ RenameOver(p) \/ FileFails(p) => \E l : Goto(p, l)
    BY DEF Rewrite, RenameOver, FileFails
  <2>6. QED
    BY <2>1, <2>2, <2>3, <2>4, <2>5 DEF IdentityStep, Goto
<1>3. QED
  BY <1>0, <1>1, <1>2

LEMMA NextKeeps ==
  ASSUME RegistrationInv, Next
  PROVE  RegistrationInv' /\ FileMoves
<1>0. asking \union registered \subseteq {q \in Processes : pc[q] = "own"} /\ Processes \subseteq Requests
  BY Parts DEF RegistrationInv, ClientsInv
<1>1. ASSUME NEW p \in Processes, IdentityOnly(p)
      PROVE  RegistrationInv' /\ FileMoves
  <2>1. /\ Start(p) \/ IdentityStep(p) \/ Exit(p)
        /\ UNCHANGED storeVars /\ asking' = asking /\ registered' = registered
    BY <1>1 DEF IdentityOnly, clientVars
  <2>2. asking' \union registered' \subseteq {q \in Processes : pc'[q] = "own"}
    BY <1>0, <2>1, OwnersStay
  <2>3. QED
    BY <2>1, <2>2, ClientStep DEF Ends
<1>2. ASSUME NEW p \in Processes, Ends(p), Forget(p), UNCHANGED storeVars
      PROVE  RegistrationInv' /\ FileMoves
  <2>1. \A q \in Processes \ {p} : pc'[q] = pc[q]
    BY <1>2 DEF Ends, Exit, Crash, Gone, Goto, RegistrationInv, IdentityInv, IdentityTypeOK
  <2>2. asking' \union registered' \subseteq {q \in Processes : pc'[q] = "own"}
    BY <1>0, <1>2, <2>1 DEF Forget
  <2>3. QED
    BY <1>2, <2>2, ClientStep
<1>3. ASSUME NEW p \in Processes, Dies(p) \/ GivesUp(p)
      PROVE  RegistrationInv' /\ FileMoves
  <2>1. Ends(p) /\ Forget(p) /\ UNCHANGED storeVars
    BY <1>0, <1>3 DEF Dies, GivesUp, Ends
  <2>2. QED
    BY <1>2, <2>1
<1>4. ASSUME NEW p \in Processes, Answer(p)
      PROVE  RegistrationInv' /\ FileMoves
  <2>1. StoreKeeps
    BY <1>0, <1>4, KnownKeeps, RenameKeeps DEF Answer, RegistrationInv
  <2>2. UNCHANGED identityVars /\ asking' \union registered' \subseteq asking \union registered
    BY <1>4 DEF Answer
  <2>3. QED
    BY <2>1, <2>2, ServerStep
<1>5. ASSUME NEW p \in Processes, Unregistered(p)
      PROVE  RegistrationInv' /\ FileMoves
  <2>1. UNCHANGED storeVars /\ UNCHANGED identityVars
    BY <1>5 DEF Unregistered
  <2>2. StoreInv'
    <3>1. RequestTypes' /\ ServerTypes'
      BY <2>1 DEF RegistrationInv, StoreInv, RequestTypes, ServerTypes, storeVars
    <3>2. \A r \in Requests : InHand(r)'
      BY <2>1 DEF RegistrationInv, StoreInv, InHand, Working, storeVars
    <3>3. OneWriter' /\ InMemory' /\ StoreWhole' /\ ConfirmedStored'
      BY <2>1 DEF RegistrationInv, StoreInv, OneWriter, InFull, Working, InMemory, StoreWhole,
             ConfirmedStored, Stored, Loadable, storeVars
    <3>4. QED
      BY <3>1, <3>2, <3>3 DEF StoreInv
  <2>3. NothingNew
    BY <2>1 DEF NothingNew, HasHeard, storeVars
  <2>4. asking' \union registered' \subseteq asking \union registered
    BY <1>5 DEF Unregistered
  <2>5. QED
    BY <2>1, <2>2, <2>3, <2>4, ServerStep DEF StoreKeeps
<1>6. ASSUME ServerOnly
      PROVE  RegistrationInv' /\ FileMoves
  <2>1. UNCHANGED <<identityVars, clientVars>>
    BY <1>6 DEF ServerOnly
  <2>2. \/ \E r \in Requests : StoreStep(r)
        \/ ServerDies \/ ServerStarts
        \/ \E o \in Others, t \in OtherTenants : Register(o, t)
    BY <1>6 DEF ServerOnly, StoreStep
  <2>3. CASE \/ \E r \in Requests : StoreStep(r)
             \/ ServerDies \/ ServerStarts
    <3>1. StoreKeeps
      BY <2>3, StoreMoves DEF RegistrationInv
    <3>2. UNCHANGED identityVars /\ asking' \union registered' \subseteq asking \union registered
      BY <2>1 DEF clientVars
    <3>3. QED
      BY <3>1, <3>2, ServerStep
  <2>4. CASE \E o \in Others, t \in OtherTenants : Register(o, t)
    BY <2>1, <2>4, OtherAsks
  <2>5. QED
    BY <2>2, <2>3, <2>4
<1>7. QED
  BY <1>1, <1>3, <1>4, <1>5, <1>6, AskStep DEF Next

LEMMA UnchangedKeeps ==
  ASSUME RegistrationInv, UNCHANGED vars
  PROVE  RegistrationInv' /\ FileMoves
<1>1. UNCHANGED identityVars /\ UNCHANGED storeVars /\ asking' = asking /\ registered' = registered
  BY DEF vars, clientVars
<1>2. StoreInv'
  <2>1. RequestTypes' /\ ServerTypes'
    BY <1>1 DEF RegistrationInv, StoreInv, RequestTypes, ServerTypes, storeVars
  <2>2. \A r \in Requests : InHand(r)'
    BY <1>1 DEF RegistrationInv, StoreInv, InHand, Working, storeVars
  <2>3. OneWriter' /\ InMemory' /\ StoreWhole' /\ ConfirmedStored'
    BY <1>1 DEF RegistrationInv, StoreInv, OneWriter, InFull, Working, InMemory, StoreWhole,
                ConfirmedStored, Stored, Loadable, storeVars
  <2>4. QED
    BY <2>1, <2>2, <2>3 DEF StoreInv
<1>3. NothingNew
  BY <1>1 DEF NothingNew, HasHeard, storeVars
<1>4. QED
  BY <1>1, <1>2, <1>3, ServerStep DEF StoreKeeps

LEMMA InitInv == Init => RegistrationInv
<1> SUFFICES ASSUME Init PROVE RegistrationInv
  OBVIOUS
<1>1. IdentityInv /\ StoreInv
  BY InitIdentity, InitStore DEF Init
<1>2. \A s \in Secrets : ~HasHeard(s)
  <2>1. StoreInit
    BY DEF Init
  <2>2. QED
    BY <2>1, Limits, Parts DEF StoreInit, HasHeard
<1>3. ClientsInv
  BY <1>2 DEF Init, ClientsInv
<1>4. QED
  BY <1>1, <1>3 DEF RegistrationInv

LEMMA Inductive == Spec => []RegistrationInv
<1>1. RegistrationInv /\ [Next]_vars => RegistrationInv'
  BY NextKeeps, UnchangedKeeps
<1>2. QED
  BY <1>1, InitInv, PTL DEF Spec

-----------------------------------------------------------------------------
(* What is in the store *)

\* Who is in the store was told so or hung up; nobody gets there by a registration that
\* failed.
Accounted == ~overlap => Stored \subseteq confirmed \union cut

\* What a step does to the store and to what is known of it.
Accounts ==
  ~overlap' =>
    /\ ~overlap /\ confirmed \subseteq confirmed' /\ cut \subseteq cut'
    /\ Stored' \subseteq Stored \union cut \union confirmed'
    /\ forgotten' \subseteq forgotten \union Stored'

LEMMA SameStore ==
  ASSUME UNCHANGED <<store, content, overlap>>, confirmed \subseteq confirmed', cut \subseteq cut',
         forgotten' \subseteq forgotten \union Stored
  PROVE  Accounts
BY DEF Accounts, Stored

LEMMA OpenAccounts ==
  ASSUME StoreInv, StoreInv', NEW r \in Requests, Open(r)
  PROVE  Accounts
<1>1. SUFFICES ASSUME ~overlap'
               PROVE  Stored' = Stored
  BY DEF Open, Accounts
<1>2. \E f : temporary' = f /\ content' = [content EXCEPT ![f] = <<>>]
  BY DEF Open
<1>3. store' = store /\ content \in [Files -> Contents] /\ store \in Files \union {Absent}
  BY DEF Open, StoreInv, ServerTypes
<1>4. store = Absent \/ content'[store] = content[store]
  BY <1>1, <1>2, <1>3 DEF StoreInv, OneWriter
<1>5. QED
  BY <1>3, <1>4 DEF Stored

LEMMA WriteAccounts ==
  ASSUME StoreInv, NEW r \in Requests, Write(r)
  PROVE  Accounts
<1>1. SUFFICES ASSUME ~overlap'
               PROVE  Stored' = Stored
  BY DEF Write, Accounts
<1>2. ~overlap /\ stage[r] = "write" /\ store' = store
  BY <1>1 DEF Write
<1>3. handle[r] = temporary /\ (store # Absent => store # temporary)
  BY <1>2 DEF StoreInv, OneWriter, InFull, Working
<1>4. content \in [Files -> Contents] /\ store \in Files \union {Absent}
  BY DEF StoreInv, ServerTypes
<1>5. store = Absent \/ content'[store] = content[store]
  BY <1>3, <1>4 DEF Write
<1>6. QED
  BY <1>2, <1>5 DEF Stored

LEMMA RenameAccounts ==
  ASSUME StoreInv, NEW r \in Requests, Rename(r)
  PROVE  Accounts
<1>1. SUFFICES ASSUME ~overlap'
               PROVE  Stored' \subseteq Stored \union cut \union confirmed'
  BY DEF Rename, Accounts
<1>2. ~overlap /\ stage[r] = "rename" /\ temporary # Absent /\ store' = temporary
  BY <1>1 DEF Rename
<1>3. Working(r)
  BY <1>2 DEF Working
<1>4. /\ want[r] \in tenants /\ content[temporary] = Entries(tenants)
      /\ tenants \in SmallSets /\ temporary \in Files
  BY <1>2, <1>3 DEF StoreInv, OneWriter, InFull, ServerTypes
<1>5. Stored' = tenants
  <2>1. content[temporary] # <<>> /\ content[temporary][1] = tenants
    BY <1>4, EntriesLoad
  <2>2. content'[temporary] = content[temporary]
    BY <1>2, <1>4 DEF Rename
  <2>3. QED
    BY <1>2, <2>1, <2>2 DEF Stored
<1>6. \A t \in tenants : t \in Stored \union cut \/ (lock # Absent /\ t = want[lock])
  BY <1>2, <1>3 DEF StoreInv, InMemory, InHand
<1>7. lock # Absent => lock = r /\ want[r] \in confirmed'
  <2>1. ASSUME lock # Absent
        PROVE  lock = r /\ r \notin orphan
    <3>1. lock \in Requests /\ Working(lock)
      BY <2>1 DEF StoreInv, RequestTypes, InHand
    <3>2. lock = r
      BY <1>2, <1>3, <3>1 DEF StoreInv, OneWriter
    <3>3. QED
      BY <3>2 DEF StoreInv, InHand
  <2>2. QED
    BY <2>1 DEF Rename
<1>8. QED
  BY <1>5, <1>6, <1>7

LEMMA StepAccounts ==
  ASSUME StoreInv, StoreInv', NEW r \in Requests, StoreStep(r)
  PROVE  Accounts
<1>1. CASE Known(r) \/ Refused(r) \/ Permit(r)
  BY <1>1, SameStore DEF Known, Refused, Permit
<1>2. CASE Insert(r)
  BY <1>2 DEF Insert, Accounts, Stored
<1>3. CASE Missing(r) \/ StoreFails(r)
  BY <1>3, SameStore DEF Missing, StoreFails
<1>4. CASE Drop(r)
  <2>1. cut' = cut \/ cut' = cut \union {want[r]}
    BY <1>4 DEF Drop
  <2>2. UNCHANGED <<store, content, overlap>> /\ confirmed' = confirmed
    BY <1>4 DEF Drop
  <2>3. forgotten' = forgotten
    BY <1>4 DEF Drop
  <2>4. QED
    BY <2>1, <2>2, <2>3, SameStore
<1>5. QED
  BY <1>1, <1>2, <1>3, <1>4, OpenAccounts, WriteAccounts, RenameAccounts DEF StoreStep

LEMMA NextAccounts ==
  ASSUME RegistrationInv, RegistrationInv', [Next]_vars
  PROVE  Accounts
<1>1. StoreInv /\ StoreInv' /\ Processes \subseteq Requests
  BY Parts DEF RegistrationInv
<1>2. CASE UNCHANGED storeVars
  BY <1>2, SameStore DEF storeVars
<1>3. CASE ServerDies \/ ServerStarts
  BY <1>3, SameStore DEF ServerDies, ServerStarts
<1>4. ASSUME NEW r, NEW t, Register(r, t)
      PROVE  Accounts
  BY <1>4, SameStore DEF Register
<1>5. CASE \E r \in Requests : StoreStep(r)
  BY <1>1, <1>5, StepAccounts
<1>6. \/ UNCHANGED storeVars \/ ServerDies \/ ServerStarts
      \/ \E r, t : Register(r, t)
      \/ \E r \in Requests : StoreStep(r)
  <2>1. CASE \E p \in Processes :
               IdentityOnly(p) \/ Dies(p) \/ Ask(p) \/ Answer(p) \/ GivesUp(p) \/ Unregistered(p)
    BY <1>1, <2>1 DEF IdentityOnly, Dies, Ask, Answer, GivesUp, Unregistered, StoreStep
  <2>2. CASE ServerOnly
    BY <2>2 DEF ServerOnly, StoreStep
  <2>3. CASE UNCHANGED vars
    BY <2>3 DEF vars
  <2>4. QED
    BY <2>1, <2>2, <2>3 DEF Next
<1>7. QED
  BY <1>2, <1>3, <1>4, <1>5, <1>6

LEMMA SteadyStore ==
  ASSUME Accounts, Accounted, ConfirmedStored'
  PROVE  Accounted' /\ (~overlap' => Stored \ (cut' \union forgotten) \subseteq Stored')
BY DEF Accounts, Accounted, ConfirmedStored

LEMMA AccountedAlways == Spec => []Accounted
<1>1. RegistrationInv /\ [Next]_vars => RegistrationInv'
  BY NextKeeps, UnchangedKeeps
<1>2. RegistrationInv => ConfirmedStored
  BY DEF RegistrationInv, StoreInv
<1>3. Init => Accounted
  BY DEF Init, StoreInit, Accounted, Stored
<1>4. RegistrationInv /\ RegistrationInv' /\ Accounted /\ ConfirmedStored' /\ [Next]_vars => Accounted'
  BY NextAccounts, SteadyStore
<1>5. QED
  BY <1>1, <1>2, <1>3, <1>4, InitInv, PTL DEF Spec

-----------------------------------------------------------------------------
(* Theorems *)

\* Clients, files and server keep the types of TypeOK: the server never has more tenants
\* than it may have, nor does it find more in its store (register, load_tenants).
THEOREM TypeCorrect == Spec => []TypeOK
<1>1. RegistrationInv => TypeOK
  BY StoreTypes DEF RegistrationInv, IdentityInv, StoreInv, ClientsInv, TypeOK
<1>2. QED
  BY <1>1, Inductive, PTL

\* However many clients start, die and get the process ids of dead ones, those of a machine
\* are one tenant, which is the only one of theirs that the server has ever heard of
\* (load_or_create_identity, register).
THEOREM ClientsAreOneTenant == Spec => []OneTenant
<1>1. ASSUME RegistrationInv PROVE OneTenant
  <2>1. Agreement
    BY <1>1, ClientsSecret DEF RegistrationInv, Agreement
  <2>2. \A s \in Secrets : s \in tenants \union confirmed => s = FileSecret
    BY <1>1 DEF RegistrationInv, ClientsInv, HasHeard
  <2>3. ASSUME NEW s \in Secrets, s \in Stored
        PROVE  s = FileSecret
    <3>1. store # Absent /\ content[store] # <<>> /\ s \in content[store][1]
      BY <2>3 DEF Stored
    <3>2. store \in Files /\ content[store] \in Seq(SmallSets)
      BY <1>1, <3>1 DEF RegistrationInv, StoreInv, ServerTypes, Contents
    <3>3. 1 \in DOMAIN content[store]
      BY <3>1, <3>2
    <3>4. HasHeard(s)
      BY <3>1, <3>2, <3>3 DEF HasHeard
    <3>5. QED
      BY <1>1, <3>4 DEF RegistrationInv, ClientsInv
  <2>4. QED
    BY <2>1, <2>2, <2>3 DEF OneTenant
<1>2. QED
  BY <1>1, Inductive, PTL

\* Clients that start together do not make each other fail (load_or_create_identity,
\* replace_identity).
THEOREM NoClientFailsAnother == Spec => []NoSpuriousFailure
<1>1. RegistrationInv => NoSpuriousFailure
  BY DEF RegistrationInv, IdentityInv
<1>2. QED
  BY <1>1, Inductive, PTL

\* An identity that is in the file stays, and no step leaves part of one there.
THEOREM IdentityLasts == Spec => Lasting
<1>1. RegistrationInv /\ [Next]_vars => [FileSecret # None => FileSecret' = FileSecret]_identityVars
  BY NextKeeps, UnchangedKeeps, SecretStays
<1>2. QED
  BY <1>1, Inductive, PTL DEF Spec, Lasting

\* The server can start from its store in every state, unless a registration wrote it while
\* the write of a caller that had hung up was still going on (persist_tenants).
THEOREM StoreStaysWhole == Spec => []StoreWhole
<1>1. RegistrationInv => StoreWhole
  BY DEF RegistrationInv, StoreInv
<1>2. QED
  BY <1>1, Inductive, PTL

\* A tenant that was told that it is registered is in the store, whatever fails, dies or
\* hangs up, unless its own caller hung up, two writes overlapped, or a server could not read
\* the store when it started and has not stored this tenant since (register, load_tenants).
THEOREM ConfirmedIsStored == Spec => []ConfirmedStored
<1>1. RegistrationInv => ConfirmedStored
  BY DEF RegistrationInv, StoreInv
<1>2. QED
  BY <1>1, Inductive, PTL

\* A registration that fails leaves nobody in the store: whoever is there was told that it
\* is registered, or hung up meanwhile (persist_tenants, register).
THEOREM NobodyElseStored == Spec => [](~overlap => Stored \subseteq confirmed \union cut)
BY AccountedAlways DEF Accounted

\* Nobody is lost from the store, by the rewrite for another tenant, one that fails in the
\* middle, a crash or a restart, unless it hung up itself, two writes overlapped, or the
\* server could not read the store when it started: then the next rewrite drops whoever has
\* not registered again before (persist_tenants, load_tenants).
THEOREM StoredStays == Spec => [][~overlap' => Stored \ (cut' \union forgotten) \subseteq Stored']_vars
<1>1. RegistrationInv /\ [Next]_vars => RegistrationInv'
  BY NextKeeps, UnchangedKeeps
<1>2. RegistrationInv => ConfirmedStored
  BY DEF RegistrationInv, StoreInv
<1>3. RegistrationInv /\ RegistrationInv' /\ Accounted /\ ConfirmedStored' /\ [Next]_vars
        => [~overlap' => Stored \ (cut' \union forgotten) \subseteq Stored']_vars
  BY NextAccounts, SteadyStore
<1>4. QED
  BY <1>1, <1>2, <1>3, Inductive, AccountedAlways, PTL DEF Spec
=============================================================================
