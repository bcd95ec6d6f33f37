---------------------------- MODULE ContextRelay ----------------------------
(***************************************************************************)
(* Version 1 of the image relay: the handlers of relay/src/bin/server.rs   *)
(* (register, poll, result, image), each an asynchronous task that another *)
(* can interleave with wherever it awaits, and the loop of                 *)
(* relay/src/bin/client.rs that polls for jobs, fetches the image from the *)
(* local gateway and posts it back.                                        *)
(*                                                                         *)
(* A request stands for one GET of an image and for the random id the      *)
(* server gives it, which is never used twice.  A poll is the server's     *)
(* task for one POST to /v1/poll: it outlives the connection of the client *)
(* until the server notices that the connection is gone.                   *)
(***************************************************************************)
EXTENDS Naturals, Sequences, FiniteSets

CONSTANTS
  Tenants,
  Clients,        \* client processes
  BlindOnly,      \* those with CONTEXT_RELAY_BLIND_ONLY
  Requests,       \* image requests
  Polls,          \* bound: poll tasks at one time
  TenantOf,       \* the tenant of a client, and the one a request names
  MaxTenants,     \* MAX_TENANTS
  MaxQueued,      \* MAX_QUEUED_PER_TENANT
  MaxInflight,    \* MAX_INFLIGHT
  Persisting,     \* CONTEXT_RELAY_TENANT_STORE is set
  MaxFaults,      \* bound: crashes, lost connections, failing writes
  MaxCancels,     \* bound: callers that hang up while their handler awaits
  None

ASSUME RelayAssumption ==
  /\ BlindOnly \subseteq Clients
  /\ TenantOf \in [Clients \union Requests -> Tenants]
  /\ {MaxTenants, MaxQueued, MaxInflight, MaxFaults, MaxCancels} \subseteq Nat
  /\ Persisting \in BOOLEAN
  /\ None \notin Clients \union Requests \union Polls
  /\ Clients \intersect Requests = {}
  /\ IsFiniteSet(Tenants)
  /\ IsFiniteSet(Requests)

VARIABLES
  registered,  \* keys of tenants
  store,       \* keys in the tenant store on disk
  forgotten,   \* history: tenants a server has not read from it, and that are new to it
  queue,       \* Tenant::queue
  inflight,    \* keys of inflight; the entry's tenant is TenantOf
  permit,      \* tenants whose Notify holds a permit
  waiters,     \* tasks that wait on a tenant's Notify, in order
  image,       \* where each image handler stands
  answer,      \* what was sent to the image handler
  pollPc,      \* where each poll task stands
  round,       \* iteration of its loop
  poller,      \* the client that opened it
  popped,      \* the job it is about to reply with
  clientPc,    \* where each client stands
  conn,        \* the poll the client waits for
  job,         \* the job it works on
  fetched,     \* what the local gateway gave it
  faults,
  cancels

tenantVars == <<registered, store, forgotten>>
mailVars == <<queue, inflight>>
wakeVars == <<permit, waiters>>
imageVars == <<image, answer>>
pollVars == <<pollPc, round, poller, popped>>
clientVars == <<clientPc, conn, job, fetched>>
counters == <<faults, cancels>>
vars == <<tenantVars, mailVars, wakeVars, imageVars, pollVars, clientVars, counters>>

ImagePC == {"new", "notify", "wait", "forget", "unqueue", "served", "hidden", "gone"}
PollPC == {"free", "pop", "arm", "waiting", "woken", "reply"}
ClientPC == {"register", "poll", "polling", "fetch", "post", "sleep", "parked", "down"}
Content == {"none", "image", "refused"}

Elements(s) == {s[i] : i \in DOMAIN s}

\* s without x, which occurs in it at most once (retain).
Without(s, x) ==
  IF x \notin Elements(s) THEN s
  ELSE LET k == CHOOSE k \in DOMAIN s : s[k] = x
       IN  [i \in 1..(Len(s) - 1) |-> IF i < k THEN s[i] ELSE s[i + 1]]

TypeOK ==
  /\ registered \subseteq Tenants /\ Cardinality(registered) =< MaxTenants
  /\ store \subseteq Tenants /\ Cardinality(store) =< MaxTenants
  /\ forgotten \subseteq Tenants /\ store \ forgotten \subseteq registered
  /\ queue \in [Tenants -> Seq(Requests)]
  /\ \A t \in Tenants : Len(queue[t]) =< MaxQueued
  /\ inflight \subseteq Requests /\ Cardinality(inflight) =< MaxInflight
  /\ permit \subseteq Tenants
  /\ waiters \in [Tenants -> Seq(Polls)]
  /\ image \in [Requests -> ImagePC]
  /\ answer \in [Requests -> Content]
  /\ pollPc \in [Polls -> PollPC]
  /\ round \in [Polls -> 1..2]
  /\ poller \in [Polls -> Clients \union {None}]
  /\ popped \in [Polls -> Requests \union {None}]
  /\ clientPc \in [Clients -> ClientPC]
  /\ conn \in [Clients -> Polls \union {None}]
  /\ job \in [Clients -> Requests \union {None}]
  /\ fetched \in [Clients -> Content]
  /\ faults \in 0..MaxFaults
  /\ cancels \in 0..MaxCancels

Init ==
  /\ registered = {}
  /\ store = {}
  /\ forgotten = {}
  /\ queue = [t \in Tenants |-> <<>>]
  /\ inflight = {}
  /\ permit = {}
  /\ waiters = [t \in Tenants |-> <<>>]
  /\ image = [r \in Requests |-> "new"]
  /\ answer = [r \in Requests |-> "none"]
  /\ pollPc = [h \in Polls |-> "free"]
  /\ round = [h \in Polls |-> 1]
  /\ poller = [h \in Polls |-> None]
  /\ popped = [h \in Polls |-> None]
  /\ clientPc = [c \in Clients |-> "register"]
  /\ conn = [c \in Clients |-> None]
  /\ job = [c \in Clients |-> None]
  /\ fetched = [c \in Clients |-> "none"]
  /\ faults = 0
  /\ cancels = 0

Fault == faults < MaxFaults /\ faults' = faults + 1 /\ cancels' = cancels
Cancel == cancels < MaxCancels /\ cancels' = cancels + 1 /\ faults' = faults

-----------------------------------------------------------------------------
(* register: the tenants stay locked from the lookup to the end of          *)
(* persist_tenants, which replaces the store by a rename.                   *)

ToClient(c, l) == clientPc' = [clientPc EXCEPT ![c] = l]

\* Mutant: one tenant too many.
HasRoom_AtLimit == Cardinality(registered) =< MaxTenants

HasRoom == Cardinality(registered) < MaxTenants

\* A known tenant is confirmed from memory; only a new one is persisted.
Register(c) ==
  /\ clientPc[c] = "register"
  /\ TenantOf[c] \in registered \/ HasRoom
  /\ registered' = registered \union {TenantOf[c]}
  /\ store' = IF Persisting /\ TenantOf[c] \notin registered THEN registered' ELSE store
  /\ forgotten' = forgotten \ registered'
  /\ ToClient(c, IF c \in BlindOnly THEN "parked" ELSE "poll")
  /\ UNCHANGED <<mailVars, wakeVars, imageVars, pollVars, conn, job, fetched, counters>>

\* 503: the client exits.
RegisterRefused(c) ==
  /\ clientPc[c] = "register"
  /\ TenantOf[c] \notin registered
  /\ ~HasRoom
  /\ ToClient(c, "down")
  /\ UNCHANGED <<tenantVars, mailVars, wakeVars, imageVars, pollVars, conn, job, fetched,
                 counters>>

\* Mutant: the tenant stays although the store could not be written.
PersistFails_Kept(c) ==
  /\ clientPc[c] = "register"
  /\ Persisting
  /\ TenantOf[c] \notin registered
  /\ HasRoom
  /\ Fault
  /\ registered' = registered \union {TenantOf[c]}
  /\ ToClient(c, "down")
  /\ UNCHANGED <<store, forgotten, mailVars, wakeVars, imageVars, pollVars, conn, job, fetched>>

\* The store cannot be written: the tenant is removed again, the client gets 500
\* and exits.
PersistFails(c) ==
  /\ clientPc[c] = "register"
  /\ Persisting
  /\ TenantOf[c] \notin registered
  /\ HasRoom
  /\ Fault
  /\ ToClient(c, "down")
  /\ UNCHANGED <<tenantVars, mailVars, wakeVars, imageVars, pollVars, conn, job, fetched>>

\* The client goes away while persist_tenants awaits: the handler is dropped with
\* the tenant inserted; a rename already handed to a thread still happens.
RegisterCut(c) ==
  /\ clientPc[c] = "register"
  /\ Persisting
  /\ TenantOf[c] \notin registered
  /\ HasRoom
  /\ Cancel
  /\ registered' = registered \union {TenantOf[c]}
  /\ store' \in {store, registered'}
  /\ forgotten' = forgotten \ registered'
  /\ ToClient(c, "down")
  /\ UNCHANGED <<mailVars, wakeVars, imageVars, pollVars, conn, job, fetched>>

-----------------------------------------------------------------------------
(* image *)

ToImage(r, l) == image' = [image EXCEPT ![r] = l]

Admissible(r) ==
  /\ TenantOf[r] \in registered
  /\ Cardinality(inflight) < MaxInflight
  /\ Len(queue[TenantOf[r]]) < MaxQueued

Refuse(r) ==
  /\ image[r] = "new"
  /\ ~Admissible(r)
  /\ ToImage(r, "hidden")
  /\ UNCHANGED <<tenantVars, mailVars, wakeVars, answer, pollVars, clientVars, counters>>

\* Both locks are held from the checks to the two insertions.
Enqueue(r) ==
  /\ image[r] = "new"
  /\ Admissible(r)
  /\ inflight' = inflight \union {r}
  /\ queue' = [queue EXCEPT ![TenantOf[r]] = Append(@, r)]
  /\ ToImage(r, "notify")
  /\ UNCHANGED <<tenantVars, wakeVars, answer, pollVars, clientVars, counters>>

\* notify_one: wakes the task that has waited longest, or leaves one permit.
NotifyOne(t, ws) ==
  IF ws = <<>>
    THEN /\ permit' = permit \union {t}
         /\ waiters' = [waiters EXCEPT ![t] = ws]
         /\ pollPc' = pollPc
    ELSE /\ permit' = permit
         /\ waiters' = [waiters EXCEPT ![t] = Tail(ws)]
         /\ pollPc' = [pollPc EXCEPT ![Head(ws)] = "woken"]

\* Mutant: notify_waiters, which leaves no permit.
Notify_Waiters(r) ==
  /\ image[r] = "notify"
  /\ ToImage(r, "wait")
  /\ waiters[TenantOf[r]] # <<>>
       => pollPc' = [h \in Polls |-> IF h \in Elements(waiters[TenantOf[r]]) THEN "woken"
                                     ELSE pollPc[h]]
  /\ waiters[TenantOf[r]] = <<>> => pollPc' = pollPc
  /\ waiters' = [waiters EXCEPT ![TenantOf[r]] = <<>>]
  /\ UNCHANGED <<tenantVars, mailVars, permit, answer, round, poller, popped, clientVars,
                 counters>>

Notify(r) ==
  /\ image[r] = "notify"
  /\ ToImage(r, "wait")
  /\ NotifyOne(TenantOf[r], waiters[TenantOf[r]])
  /\ UNCHANGED <<tenantVars, mailVars, answer, round, poller, popped, clientVars, counters>>

\* Mutant: a job that a client has taken is waited for without end.
StopsWaiting_Queued(r) ==
  /\ image[r] = "wait"
  /\ answer[r] # "none" \/ r \in Elements(queue[TenantOf[r]])
  /\ ToImage(r, "forget")
  /\ UNCHANGED <<tenantVars, mailVars, wakeVars, answer, pollVars, clientVars, counters>>

\* The answer is there, or thirty seconds are over.
StopsWaiting(r) ==
  /\ image[r] = "wait"
  /\ ToImage(r, "forget")
  /\ UNCHANGED <<tenantVars, mailVars, wakeVars, answer, pollVars, clientVars, counters>>

Forget(r) ==
  /\ image[r] = "forget"
  /\ inflight' = inflight \ {r}
  /\ ToImage(r, "unqueue")
  /\ UNCHANGED <<tenantVars, queue, wakeVars, answer, pollVars, clientVars, counters>>

\* Mutant: any answer is served.
Verdict_Any(r) == IF answer[r] # "none" THEN "served" ELSE "hidden"

Verdict(r) == IF answer[r] = "image" THEN "served" ELSE "hidden"

\* Mutant: the job is left in the queue.
Unqueue_Skipped(r) ==
  /\ image[r] = "unqueue"
  /\ ToImage(r, Verdict(r))
  /\ UNCHANGED <<tenantVars, mailVars, wakeVars, answer, pollVars, clientVars, counters>>

Unqueue(r) ==
  /\ image[r] = "unqueue"
  /\ queue' = [queue EXCEPT ![TenantOf[r]] = Without(@, r)]
  /\ ToImage(r, Verdict(r))
  /\ UNCHANGED <<tenantVars, inflight, wakeVars, answer, pollVars, clientVars, counters>>

\* The requester hangs up: the handler is dropped where it awaits, and what it had
\* not cleaned up yet stays.
HangUp(r) ==
  /\ image[r] \in {"wait", "forget", "unqueue"}
  /\ Cancel
  /\ ToImage(r, "gone")
  /\ UNCHANGED <<tenantVars, mailVars, wakeVars, answer, pollVars, clientVars>>

-----------------------------------------------------------------------------
(* poll *)

ToPoll(h, l) == pollPc' = [pollPc EXCEPT ![h] = l]

PollTenant(h) == TenantOf[poller[h]]

\* The client polls and its credentials are accepted.
OpenPoll(c, h) ==
  /\ clientPc[c] = "poll"
  /\ TenantOf[c] \in registered
  /\ pollPc[h] = "free"
  /\ ToPoll(h, "pop")
  /\ poller' = [poller EXCEPT ![h] = c]
  /\ conn' = [conn EXCEPT ![c] = h]
  /\ ToClient(c, "polling")
  /\ UNCHANGED <<tenantVars, mailVars, wakeVars, imageVars, round, popped, job, fetched,
                 counters>>

\* 404 on a poll: the client registers again.
Unregistered(c) ==
  /\ clientPc[c] = "poll"
  /\ TenantOf[c] \notin registered
  /\ ToClient(c, "register")
  /\ UNCHANGED <<tenantVars, mailVars, wakeVars, imageVars, pollVars, conn, job, fetched,
                 counters>>

\* Mutant: the job is read but not taken.
Pop_Peeked(h) ==
  /\ pollPc[h] = "pop"
  /\ queue[PollTenant(h)] # <<>>
  /\ popped' = [popped EXCEPT ![h] = Head(queue[PollTenant(h)])]
  /\ ToPoll(h, "reply")
  /\ UNCHANGED <<tenantVars, mailVars, wakeVars, imageVars, round, poller, clientVars, counters>>

Pop(h) ==
  /\ pollPc[h] = "pop"
  /\ queue[PollTenant(h)] # <<>>
  /\ popped' = [popped EXCEPT ![h] = Head(queue[PollTenant(h)])]
  /\ queue' = [queue EXCEPT ![PollTenant(h)] = Tail(@)]
  /\ ToPoll(h, "reply")
  /\ UNCHANGED <<tenantVars, inflight, wakeVars, imageVars, round, poller, clientVars, counters>>

PopsNothing(h) ==
  /\ pollPc[h] = "pop"
  /\ queue[PollTenant(h)] = <<>>
  /\ ToPoll(h, "arm")
  /\ UNCHANGED <<tenantVars, mailVars, wakeVars, imageVars, round, poller, popped, clientVars,
                 counters>>

\* notified() takes the permit if there is one and else begins to wait.
Arm(h) ==
  /\ pollPc[h] = "arm"
  /\ IF PollTenant(h) \in permit
       THEN permit' = permit \ {PollTenant(h)} /\ waiters' = waiters /\ ToPoll(h, "woken")
       ELSE /\ permit' = permit
            /\ waiters' = [waiters EXCEPT ![PollTenant(h)] = Append(@, h)]
            /\ ToPoll(h, "waiting")
  /\ UNCHANGED <<tenantVars, mailVars, imageVars, round, poller, popped, clientVars, counters>>

\* The second iteration does not look at the queue again.
NextRound(h) ==
  IF round[h] = 1 THEN round' = [round EXCEPT ![h] = 2] /\ ToPoll(h, "pop")
  ELSE round' = round /\ ToPoll(h, "reply")

Wakes(h) ==
  /\ pollPc[h] = "woken"
  /\ NextRound(h)
  /\ UNCHANGED <<tenantVars, mailVars, wakeVars, imageVars, poller, popped, clientVars, counters>>

\* Twenty seconds without a notification.
PollTimesOut(h) ==
  /\ pollPc[h] = "waiting"
  /\ waiters' = [waiters EXCEPT ![PollTenant(h)] = Without(@, h)]
  /\ NextRound(h)
  /\ UNCHANGED <<tenantVars, mailVars, permit, imageVars, poller, popped, clientVars, counters>>

Free(h) ==
  /\ round' = [round EXCEPT ![h] = 1]
  /\ poller' = [poller EXCEPT ![h] = None]
  /\ popped' = [popped EXCEPT ![h] = None]

\* The reply reaches the client that still waits for it: a job, or 204.
Reply(h) ==
  /\ pollPc[h] = "reply"
  /\ conn[poller[h]] = h
  /\ job' = [job EXCEPT ![poller[h]] = popped[h]]
  /\ conn' = [conn EXCEPT ![poller[h]] = None]
  /\ ToClient(poller[h], IF popped[h] = None THEN "poll" ELSE "fetch")
  /\ ToPoll(h, "free")
  /\ Free(h)
  /\ UNCHANGED <<tenantVars, mailVars, wakeVars, imageVars, fetched, counters>>

\* The reply of a poll whose client has gone is lost, with the job.
ReplyLost(h) ==
  /\ pollPc[h] = "reply"
  /\ conn[poller[h]] # h
  /\ ToPoll(h, "free")
  /\ Free(h)
  /\ UNCHANGED <<tenantVars, mailVars, wakeVars, imageVars, clientVars, counters>>

\* The server notices that the client has gone and drops the task; a notification
\* that the task had not looked at yet goes to the next one.
DropPoll(h) ==
  /\ pollPc[h] \in {"pop", "arm", "waiting", "woken"}
  /\ conn[poller[h]] # h
  /\ LET t == PollTenant(h)
         ws == Without(waiters[t], h)
     IN  IF pollPc[h] = "woken" /\ ws # <<>>
           THEN /\ permit' = permit
                /\ waiters' = [waiters EXCEPT ![t] = Tail(ws)]
                /\ pollPc' = [pollPc EXCEPT ![h] = "free", ![Head(ws)] = "woken"]
           ELSE /\ permit' = IF pollPc[h] = "woken" THEN permit \union {t} ELSE permit
                /\ waiters' = [waiters EXCEPT ![t] = ws]
                /\ ToPoll(h, "free")
  /\ Free(h)
  /\ UNCHANGED <<tenantVars, mailVars, imageVars, clientVars, counters>>

-----------------------------------------------------------------------------
(* The rest of the client's loop, and result. *)

\* The local gateway answers, with an image or with anything else.
Fetch(c) ==
  /\ clientPc[c] = "fetch"
  /\ \E v \in {"image", "refused"} : fetched' = [fetched EXCEPT ![c] = v]
  /\ ToClient(c, "post")
  /\ UNCHANGED <<tenantVars, mailVars, wakeVars, imageVars, pollVars, conn, job, counters>>

EndJob(c, l) ==
  /\ job' = [job EXCEPT ![c] = None]
  /\ fetched' = [fetched EXCEPT ![c] = "none"]
  /\ ToClient(c, l)

\* The gateway closes the connection, as it does for a file it cannot read, or the
\* image is too large: no result is posted.
FetchFails(c) ==
  /\ clientPc[c] = "fetch"
  /\ EndJob(c, "sleep")
  /\ UNCHANGED <<tenantVars, mailVars, wakeVars, imageVars, pollVars, conn, counters>>

Expected(c) ==
  /\ TenantOf[c] \in registered
  /\ job[c] \in inflight
  /\ TenantOf[job[c]] = TenantOf[c]

Listening(r) == image[r] \in {"notify", "wait"}

\* result removes the entry and sends to the image handler, which no longer
\* listens once it has timed out.  Removing and sending are one step: a handler
\* that times out in between might as well have done so before.
Result(c) ==
  /\ clientPc[c] = "post"
  /\ Expected(c)
  /\ inflight' = inflight \ {job[c]}
  /\ answer' = IF Listening(job[c]) THEN [answer EXCEPT ![job[c]] = fetched[c]] ELSE answer
  /\ EndJob(c, "poll")
  /\ UNCHANGED <<tenantVars, queue, wakeVars, image, pollVars, conn, counters>>

\* Too late, or for a server that has forgotten the request: 404.
ResultRefused(c) ==
  /\ clientPc[c] = "post"
  /\ ~Expected(c)
  /\ EndJob(c, "sleep")
  /\ UNCHANGED <<tenantVars, mailVars, wakeVars, imageVars, pollVars, conn, counters>>

\* The post fails before the server has seen it: it is not repeated.
ResultLost(c) ==
  /\ clientPc[c] = "post"
  /\ Fault
  /\ EndJob(c, "sleep")
  /\ UNCHANGED <<tenantVars, mailVars, wakeVars, imageVars, pollVars, conn>>

\* Two seconds after an error.
Retry(c) ==
  /\ clientPc[c] = "sleep"
  /\ ToClient(c, "poll")
  /\ UNCHANGED <<tenantVars, mailVars, wakeVars, imageVars, pollVars, conn, job, fetched,
                 counters>>

-----------------------------------------------------------------------------
(* Lost connections, crashes and restarts. *)

Disconnect(c) ==
  /\ clientPc[c] = "polling"
  /\ Fault
  /\ conn' = [conn EXCEPT ![c] = None]
  /\ ToClient(c, "sleep")
  /\ UNCHANGED <<tenantVars, mailVars, wakeVars, imageVars, pollVars, job, fetched>>

ClientCrash(c) ==
  /\ clientPc[c] # "down"
  /\ Fault
  /\ conn' = [conn EXCEPT ![c] = None]
  /\ EndJob(c, "down")
  /\ UNCHANGED <<tenantVars, mailVars, wakeVars, imageVars, pollVars>>

\* Mutant: nobody starts the client again.
ClientRestart_Never(c) == clientPc[c] = "down" /\ UNCHANGED vars

\* launchd keeps the client alive.
ClientRestart(c) ==
  /\ clientPc[c] = "down"
  /\ ToClient(c, "register")
  /\ UNCHANGED <<tenantVars, mailVars, wakeVars, imageVars, pollVars, conn, job, fetched,
                 counters>>

\* Only the tenant store survives the server, and load_tenants takes one that it cannot read
\* for none; every connection is reset.
ServerRestart ==
  /\ Fault
  /\ registered' \in {store, {}}
  /\ forgotten' = (forgotten \union store) \ registered'
  /\ queue' = [t \in Tenants |-> <<>>]
  /\ inflight' = {}
  /\ permit' = {}
  /\ waiters' = [t \in Tenants |-> <<>>]
  /\ image' = [r \in Requests |-> IF image[r] \in {"notify", "wait", "forget", "unqueue"}
                                    THEN "gone" ELSE image[r]]
  /\ pollPc' = [h \in Polls |-> "free"]
  /\ round' = [h \in Polls |-> 1]
  /\ poller' = [h \in Polls |-> None]
  /\ popped' = [h \in Polls |-> None]
  /\ clientPc' = [c \in Clients |-> IF clientPc[c] = "polling" THEN "sleep" ELSE clientPc[c]]
  /\ conn' = [c \in Clients |-> None]
  /\ UNCHANGED <<store, answer, job, fetched>>

-----------------------------------------------------------------------------
ImageStep(r) == Notify(r) \/ StopsWaiting(r) \/ Forget(r) \/ Unqueue(r)

PollStep(h) ==
  \/ Pop(h) \/ PopsNothing(h) \/ Arm(h) \/ Wakes(h) \/ PollTimesOut(h)
  \/ Reply(h) \/ ReplyLost(h) \/ DropPoll(h)

ClientStep(c) ==
  \/ Register(c) \/ RegisterRefused(c) \/ ClientRestart(c)
  \/ Unregistered(c) \/ \E h \in Polls : OpenPoll(c, h)
  \/ Fetch(c) \/ FetchFails(c) \/ Result(c) \/ ResultRefused(c) \/ Retry(c)

Failure(c) ==
  \/ PersistFails(c) \/ RegisterCut(c) \/ ResultLost(c) \/ Disconnect(c) \/ ClientCrash(c)

Next ==
  \/ \E r \in Requests : Refuse(r) \/ Enqueue(r) \/ ImageStep(r) \/ HangUp(r)
  \/ \E h \in Polls : PollStep(h)
  \/ \E c \in Clients : ClientStep(c) \/ Failure(c)
  \/ ServerRestart

Spec == Init /\ [][Next]_vars

\* The runtime polls every task that can go on, timers expire, a client's loop goes
\* on and launchd restarts it.
Fairness ==
  /\ \A r \in Requests : WF_vars(ImageStep(r))
  /\ \A h \in Polls : WF_vars(PollStep(h))
  /\ \A c \in Clients : WF_vars(ClientStep(c))

FairSpec == Spec /\ Fairness

-----------------------------------------------------------------------------
(* Properties *)

\* A job is in one place only, its tenant's queue, a poll or a client of that tenant,
\* so no two clients ever work on the same request and none on a foreign one (Pop,
\* Reply, the crashes and the losses between them).
OneHolder ==
  /\ \A t \in Tenants : \A i, j \in DOMAIN queue[t] :
       TenantOf[queue[t][i]] = t /\ (queue[t][i] = queue[t][j] => i = j)
  /\ \A h \in Polls : popped[h] # None =>
       /\ TenantOf[popped[h]] = PollTenant(h)
       /\ popped[h] \notin Elements(queue[PollTenant(h)])
       /\ \A g \in Polls : popped[g] = popped[h] => g = h
  /\ \A c \in Clients : job[c] # None =>
       /\ TenantOf[job[c]] = TenantOf[c]
       /\ job[c] \notin Elements(queue[TenantOf[c]])
       /\ \A h \in Polls : popped[h] # job[c]
       /\ \A d \in Clients : job[d] = job[c] => d = c

\* Once a request has been answered, whether in time or not, the server keeps no
\* trace of it: no entry in inflight, no job (the two clean-ups at the end of image,
\* against results and polls that run between them).
NoResidue ==
  \A r \in Requests :
    image[r] \in {"new", "served", "hidden"}
      => r \notin inflight /\ r \notin Elements(queue[TenantOf[r]])

\* A client whose loop will look at the queue again without being woken.
Awake(c) ==
  \/ clientPc[c] \in {"poll", "fetch", "post", "sleep"}
  \/ clientPc[c] = "polling" /\ pollPc[conn[c]] # "waiting"

\* As long as no connection is lost, the clients of a tenant never all sleep while a
\* job of theirs is queued and its notification is out: the permit bridges the gap
\* between the look at the queue and notified() (poll, notify_one).
NoLostWakeup ==
  faults = 0 =>
    \A t \in Tenants :
      (/\ queue[t] # <<>>
       /\ waiters[t] # <<>>
       /\ \A r \in Requests : TenantOf[r] = t => image[r] # "notify")
        => \E c \in Clients : TenantOf[c] = t /\ Awake(c)

\* A client that has been told it is registered is in the tenant store, if there is
\* one, unless a caller has hung up on the server or the server could not read the store
\* when it started, and until then the tenant registers again: a failed write takes the
\* tenant back (register, persist_tenants, load_tenants).
DurableUnlessCut ==
  (Persisting /\ cancels = 0) =>
    \A c \in Clients : clientPc[c] \notin {"register", "down"} => TenantOf[c] \in store \union forgotten

\* Every request is answered, by its result or by the timeout, whatever becomes of
\* the client (image).
Answered ==
  \A r \in Requests :
    image[r] = "notify" ~> image[r] \in {"served", "hidden", "gone"}

\* A tenant the server has forgotten is registered again, unless others have taken all
\* the places (the loop of run, register).
ReRegistered ==
  \A c \in Clients :
    TenantOf[c] \notin registered ~> TenantOf[c] \in registered \/ ~HasRoom
=============================================================================
