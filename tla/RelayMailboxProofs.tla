-------------------------- MODULE RelayMailboxProofs --------------------------
(***************************************************************************)
(* ContextRelay implements Mailbox, for any tenants, clients and requests  *)
(* and any limits.                                                         *)
(***************************************************************************)
EXTENDS RelayMailbox, ContextRelayProofs

-----------------------------------------------------------------------------
(* Answers *)

\* A request that may still get its answer has none, and a client posts what the gateway
\* gave it.
Fresh ==
  /\ \A r \in Requests : r \in inflight \/ image[r] = "new" => answer[r] = "none"
  /\ \A c \in Clients : clientPc[c] = "post" => fetched[c] \in {"image", "refused"}

LEMMA FreshInit == Init => Fresh
BY DEF Init, Fresh

\* Handlers and polls do not touch answers.
LEMMA FreshQuietly ==
  ASSUME TypeInv, Fresh, UNCHANGED <<answer, fetched>>,
         \A r \in Requests : r \in inflight' \/ image'[r] = "new" => r \in inflight \/ image[r] = "new",
         \A c \in Clients : clientPc'[c] = "post" => clientPc[c] = "post"
  PROVE  Fresh'
BY DEF Fresh

LEMMA FreshImage ==
  ASSUME TypeInv, Fresh, NEW r \in Requests,
         Refuse(r) \/ Enqueue(r) \/ ImageStep(r) \/ HangUp(r)
  PROVE  Fresh'
<1>1. UNCHANGED <<answer, clientPc, fetched>>
  BY ImageFrame DEF clientVars
<1>2. \A x \in Requests \ {r} : image'[x] = image[x] /\ (x \in inflight' => x \in inflight)
  BY DEF TypeInv, TypeOK, Refuse, Enqueue, ImageStep, Notify, StopsWaiting, Forget, Unqueue,
         HangUp, ToImage, mailVars
<1>3. /\ image'[r] # "new"
      /\ r \in inflight' => r \in inflight \/ image[r] = "new"
  BY DEF TypeInv, TypeOK, Refuse, Enqueue, ImageStep, Notify, StopsWaiting, Forget, Unqueue,
         HangUp, ToImage, Verdict, mailVars
<1>4. QED
  BY <1>1, <1>2, <1>3, FreshQuietly

LEMMA FreshPoll ==
  ASSUME TypeInv, Fresh, NEW h \in Polls, PollStep(h)
  PROVE  Fresh'
<1>1. CASE Reply(h)
  <2>1. UNCHANGED <<inflight, image, answer, fetched>>
    BY <1>1 DEF Reply, mailVars, imageVars
  <2>2. \A c \in Clients : clientPc'[c] = "post" => clientPc[c] = "post"
    BY <1>1 DEF Reply, ToClient, TypeInv, TypeOK
  <2>3. QED
    BY <2>1, <2>2, FreshQuietly
<1>2. CASE ~Reply(h)
  <2>1. UNCHANGED <<inflight, image, answer, clientPc, fetched>>
    BY <1>2, PollClientFrame DEF imageVars, clientVars
  <2>2. QED
    BY <2>1, FreshQuietly
<1>3. QED
  BY <1>1, <1>2

LEMMA FreshClient ==
  ASSUME TypeInv, Fresh, NEW c \in Clients, ClientStep(c) \/ Failure(c)
  PROVE  Fresh'
<1>1. clientPc \in [Clients -> ClientPC] /\ fetched \in [Clients -> Content] /\ answer \in [Requests -> Content]
  BY DEF TypeInv, TypeOK
<1>2. CASE Result(c)
  <2>1. /\ inflight' = inflight \ {job[c]} /\ image' = image
        /\ \A x \in Requests : x # job[c] => answer'[x] = answer[x]
        /\ clientPc' = [clientPc EXCEPT ![c] = "poll"]
        /\ fetched' = [fetched EXCEPT ![c] = "none"]
    BY <1>1, <1>2 DEF Result, EndJob, ToClient
  <2>2. job[c] \in inflight /\ clientPc[c] = "post" /\ fetched[c] \in {"image", "refused"}
    BY <1>2 DEF Result, Expected, Fresh
  <2>3. \A x \in Requests : x \in inflight' \/ image'[x] = "new" => answer'[x] = "none"
    <3>1. ASSUME NEW x \in Requests, x \in inflight' \/ image'[x] = "new"
          PROVE  answer'[x] = "none"
      <4>1. CASE x # job[c]
        BY <2>1, <3>1, <4>1 DEF Fresh
      <4>2. CASE x = job[c]
        <5>1. image[x] = "new" /\ ~Listening(x)
          BY <2>1, <3>1, <4>2 DEF Listening
        <5>2. answer' = answer
          BY <1>2, <4>2, <5>1 DEF Result
        <5>3. QED
          BY <5>1, <5>2 DEF Fresh
      <4>3. QED
        BY <4>1, <4>2
    <3>2. QED
      BY <3>1
  <2>4. \A d \in Clients : clientPc'[d] = "post" => fetched'[d] \in {"image", "refused"}
    BY <1>1, <2>1 DEF Fresh
  <2>5. QED
    BY <2>3, <2>4 DEF Fresh
<1>3. CASE (Alone(c) \/ \E h \in Polls : OpenPoll(c, h)) /\ ~Result(c)
  <2>1. UNCHANGED <<inflight, image, answer>>
    BY <1>3
       DEF Alone, Register, RegisterRefused, PersistFails, RegisterCut, ClientRestart, Unregistered,
           Fetch, FetchFails, ResultRefused, ResultLost, Retry, Disconnect, ClientCrash, OpenPoll,
           mailVars, imageVars
  <2>2. \A d \in Clients \ {c} : clientPc'[d] = clientPc[d] /\ fetched'[d] = fetched[d]
    BY <1>1, <1>3
       DEF Alone, Register, RegisterRefused, PersistFails, RegisterCut, ClientRestart, Unregistered,
           Fetch, FetchFails, ResultRefused, ResultLost, Retry, Disconnect, ClientCrash, OpenPoll,
           ToClient, EndJob
  <2>3. clientPc'[c] = "post" => fetched'[c] \in {"image", "refused"}
    BY <1>1, <1>3
       DEF Alone, Register, RegisterRefused, PersistFails, RegisterCut, ClientRestart, Unregistered,
           Fetch, FetchFails, ResultRefused, ResultLost, Retry, Disconnect, ClientCrash, OpenPoll,
           ToClient, EndJob
  <2>4. QED
    BY <2>1, <2>2, <2>3 DEF Fresh
<1>4. QED
  BY <1>2, <1>3, ClientCases

LEMMA FreshStep == TypeInv /\ Fresh /\ [Next]_vars => Fresh'
<1>1. SUFFICES ASSUME TypeInv, Fresh, [Next]_vars
               PROVE  Fresh'
  OBVIOUS
<1>2. CASE UNCHANGED vars
  BY <1>1, <1>2, FreshQuietly DEF vars, mailVars, imageVars, clientVars
<1>3. CASE ServerRestart
  <2>1. \A c \in Clients : clientPc'[c] = "post" => clientPc[c] = "post"
    BY <1>3 DEF ServerRestart
  <2>2. /\ inflight' = {} /\ UNCHANGED <<answer, fetched>>
        /\ \A r \in Requests : image'[r] = "new" => image[r] = "new"
    BY <1>3 DEF ServerRestart
  <2>3. QED
    BY <1>1, <2>1, <2>2, FreshQuietly
<1>4. CASE Next /\ ~ServerRestart
  BY <1>1, <1>4, FreshImage, FreshPoll, FreshClient DEF Next
<1>5. QED
  BY <1>1, <1>2, <1>3, <1>4

-----------------------------------------------------------------------------
(* What leaves a queue *)

LEMMA TailLoses ==
  ASSUME NEW S, NEW s \in Seq(S), s # <<>>
  PROVE  \A y \in Elements(s) : y = Head(s) \/ y \in Elements(Tail(s))
<1>1. /\ Len(s) \in Nat \ {0} /\ DOMAIN s = 1..Len(s) /\ Head(s) = s[1]
      /\ DOMAIN Tail(s) = 1..(Len(s) - 1)
  OBVIOUS
<1>2. \A i \in 1..(Len(s) - 1) : Tail(s)[i] = s[i + 1]
  OBVIOUS
<1>3. ASSUME NEW i \in 1..Len(s), i # 1
      PROVE  s[i] \in Elements(Tail(s))
  <2>1. i - 1 \in 1..(Len(s) - 1) /\ (i - 1) + 1 = i
    BY <1>1, <1>3
  <2>2. Tail(s)[i - 1] = s[i]
    BY <1>2, <2>1
  <2>3. QED
    BY <1>1, <2>1, <2>2 DEF Elements
<1>4. QED
  BY <1>1, <1>3 DEF Elements

LEMMA WithoutLoses ==
  ASSUME NEW S, NEW s \in Seq(S), NEW x, NEW y \in Elements(s), y # x
  PROVE  y \in Elements(Without(s, x))
<1>1. CASE x \notin Elements(s)
  BY <1>1 DEF Without
<1>2. CASE x \in Elements(s)
  <2>1. PICK k : k = CHOOSE j \in DOMAIN s : s[j] = x
    OBVIOUS
  <2>2. k \in DOMAIN s /\ s[k] = x
    BY <1>2, <2>1 DEF Elements
  <2>3. PICK w : w = [i \in 1..(Len(s) - 1) |-> IF i < k THEN s[i] ELSE s[i + 1]]
    OBVIOUS
  <2>4. Without(s, x) = w
    BY <1>2, <2>1, <2>3 DEF Without
  <2>5. PICK m \in 1..Len(s) : s[m] = y /\ m # k
    BY <2>2 DEF Elements
  <2>6. Len(s) \in Nat /\ k \in 1..Len(s)
    BY <2>2
  <2>7. CASE m < k
    <3>1. m \in 1..(Len(s) - 1)
      BY <2>6, <2>7
    <3>2. w[m] = y
      BY <2>3, <2>5, <2>7, <3>1
    <3>3. QED
      BY <2>3, <2>4, <3>1, <3>2 DEF Elements
  <2>8. CASE m > k
    <3>1. m - 1 \in 1..(Len(s) - 1) /\ ~(m - 1 < k) /\ (m - 1) + 1 = m
      BY <2>6, <2>8
    <3>2. w[m - 1] = y
      BY <2>3, <2>5, <3>1
    <3>3. QED
      BY <2>3, <2>4, <3>1, <3>2 DEF Elements
  <2>9. QED
    BY <2>5, <2>6, <2>7, <2>8
<1>3. QED
  BY <1>1, <1>2

-----------------------------------------------------------------------------
(* Steps of the mailbox *)

Queued(r) == r \in Elements(queue[TenantOf[r]])

\* The state in which one request is, as Mailbox sees it.
LEMMA Seen ==
  ASSUME NEW r \in Requests
  PROVE  /\ HandOf(r) = (IF image[r] = "new" THEN "none" ELSE IF Queued(r) THEN "queued"
                         ELSE IF HeldSomewhere(r) THEN "held" ELSE "over")
         /\ HandOf(r)' = (IF image'[r] = "new" THEN "none" ELSE IF Queued(r)' THEN "queued"
                         ELSE IF HeldSomewhere(r)' THEN "held" ELSE "over")
BY DEF HandOf, Queued

\* A request whose handler is heard of no differently and whose job is where it was, or
\* is lost by whoever had it.
Quiet(r) ==
  /\ StatusOf(r)' = StatusOf(r) /\ answer'[r] = answer[r]
  /\ image'[r] = "new" <=> image[r] = "new"
  /\ image[r] # "new" => (Queued(r)' <=> Queued(r)) /\ (HeldSomewhere(r)' => HeldSomewhere(r))

LEMMA QuietSteps ==
  ASSUME NEW r \in Requests, Quiet(r)
  PROVE  MB!Step(r)
<1>1. \/ HandOf(r)' = HandOf(r)
      \/ HandOf(r) = "held" /\ HandOf(r)' = "over"
  BY Seen DEF Quiet
<1>2. StatusOf(r)' = StatusOf(r) /\ answer'[r] = answer[r]
  BY DEF Quiet
<1>3. CASE HandOf(r)' = HandOf(r)
  BY <1>2, <1>3 DEF MB!Step, MB!Stays
<1>4. CASE HandOf(r) = "held" /\ HandOf(r)' = "over"
  BY <1>2, <1>4 DEF MB!Step, MB!Lose
<1>5. QED
  BY <1>1, <1>3, <1>4

\* Nobody gets a job, and no handler moves.
LEMMA JobsVanish ==
  ASSUME UNCHANGED <<queue, image, answer>>,
         \A h \in Polls : popped'[h] \in {popped[h], None},
         \A c \in Clients : job'[c] \in {job[c], None},
         NEW r \in Requests
  PROVE  MB!Step(r)
<1>1. r # None
  BY RelayAssumption DEF RelayAssumption
<1>2. HeldSomewhere(r)' => HeldSomewhere(r)
  BY <1>1 DEF HeldSomewhere
<1>3. QED
  BY <1>2, QuietSteps DEF Quiet, StatusOf, Queued

RelayInv == TypeInv /\ MailInv /\ Fresh

LEMMA ImageSteps ==
  ASSUME RelayInv, NEW r \in Requests,
         Refuse(r) \/ Enqueue(r) \/ ImageStep(r) \/ HangUp(r),
         NEW x \in Requests
  PROVE  MB!Step(x)
<1>1. /\ image \in [Requests -> ImagePC] /\ queue \in [Tenants -> Seq(Requests)]
      /\ TenantOf[r] \in Tenants /\ TenantOf[x] \in Tenants
  BY RelayAssumption DEF RelayAssumption, RelayInv, TypeInv, TypeOK
<1>2. answer' = answer /\ popped' = popped /\ job' = job
  BY ImageFrame DEF clientVars
<1>3. HeldSomewhere(x)' <=> HeldSomewhere(x)
  BY <1>2 DEF HeldSomewhere
<1>4. x # r => image'[x] = image[x]
  BY <1>1 DEF Refuse, Enqueue, ImageStep, Notify, StopsWaiting, Forget, Unqueue, HangUp, ToImage
<1>5. CASE Refuse(r)
  <2>1. image[r] = "new" /\ image'[r] = "hidden" /\ queue' = queue
    BY <1>1, <1>5 DEF Refuse, ToImage, mailVars
  <2>2. CASE x = r
    <3>1. ~Queued(r)' /\ ~HeldSomewhere(r)'
      BY <1>3, <2>1, <2>2 DEF Queued, HeldSomewhere, RelayInv, MailInv, Tidy, Untouched
    <3>2. StatusOf(r) = "new" /\ StatusOf(r)' = "hidden" /\ HandOf(r)' = "over"
      BY <2>1, <3>1, Seen DEF StatusOf
    <3>3. QED
      BY <1>2, <2>2, <3>2 DEF MB!Step, MB!Refuse
  <2>3. CASE x # r
    BY <1>2, <1>3, <1>4, <2>1, <2>3, QuietSteps DEF Quiet, StatusOf, Queued
  <2>4. QED
    BY <2>2, <2>3
<1>6. CASE Enqueue(r)
  <2>1. /\ image[r] = "new" /\ image'[r] = "notify"
        /\ queue' = [queue EXCEPT ![TenantOf[r]] = Append(@, r)]
    BY <1>1, <1>6 DEF Enqueue, ToImage
  <2>2. PICK q \in Seq(Requests) : q = queue[TenantOf[r]]
    BY <1>1
  <2>3. /\ queue'[TenantOf[r]] = Append(q, r) /\ Elements(Append(q, r)) = Elements(q) \union {r}
        /\ \A t \in Tenants \ {TenantOf[r]} : queue'[t] = queue[t]
    BY <1>1, <2>1, <2>2, AppendFacts
  <2>4. CASE x = r
    <3>1. StatusOf(r) = "new" /\ StatusOf(r)' = "open" /\ HandOf(r)' = "queued"
      BY <2>1, <2>3, Seen DEF StatusOf, Queued
    <3>2. QED
      BY <1>2, <2>4, <3>1 DEF MB!Step, MB!Submit
  <2>5. CASE x # r
    <3>1. Queued(x)' <=> Queued(x)
      BY <1>1, <2>2, <2>3, <2>5 DEF Queued
    <3>2. QED
      BY <1>2, <1>3, <1>4, <2>5, <3>1, QuietSteps DEF Quiet, StatusOf
  <2>6. QED
    BY <2>4, <2>5
<1>7. CASE Unqueue(r)
  <2>1. /\ image[r] = "unqueue" /\ image'[r] = Verdict(r)
        /\ queue' = [queue EXCEPT ![TenantOf[r]] = Without(@, r)]
    BY <1>1, <1>7 DEF Unqueue, ToImage
  <2>2. PICK q \in Seq(Requests) : q = queue[TenantOf[r]]
    BY <1>1
  <2>3. Distinct(q)
    BY <1>1, <2>2 DEF RelayInv, MailInv, Held
  <2>4. /\ queue'[TenantOf[r]] = Without(q, r)
        /\ \A t \in Tenants \ {TenantOf[r]} : queue'[t] = queue[t]
        /\ Elements(Without(q, r)) \subseteq Elements(q) /\ r \notin Elements(Without(q, r))
        /\ \A y \in Elements(q) : y # r => y \in Elements(Without(q, r))
    BY <1>1, <2>1, <2>2, <2>3, WithoutFacts, WithoutLoses
  <2>5. CASE x = r
    <3>1. StatusOf(r) = "open" /\ StatusOf(r)' = (IF answer[r] = "image" THEN "served" ELSE "hidden")
      BY <2>1 DEF StatusOf, Verdict
    <3>2. Queued(r) => ~HeldSomewhere(r)
      <4>1. ASSUME Queued(r), NEW h \in Polls, popped[h] = r
            PROVE  FALSE
        BY <4>1, RelayAssumption DEF RelayAssumption, Queued, RelayInv, MailInv, Held
      <4>2. ASSUME Queued(r), NEW c \in Clients, job[c] = r
            PROVE  FALSE
        BY <4>2, RelayAssumption DEF RelayAssumption, Queued, RelayInv, MailInv, Held
      <4>3. QED
        BY <4>1, <4>2 DEF HeldSomewhere
    <3>3. ~Queued(r)' /\ image[r] # "new" /\ image'[r] # "new"
      BY <2>1, <2>4 DEF Queued, Verdict
    <3>4. HandOf(r)' = IF HandOf(r) = "queued" THEN "over" ELSE HandOf(r)
      BY <1>3, <2>5, <3>2, <3>3, Seen
    <3>5. QED
      BY <1>2, <2>5, <3>1, <3>4 DEF MB!Step, MB!Settle
  <2>6. CASE x # r
    <3>1. Queued(x)' <=> Queued(x)
      BY <1>1, <2>2, <2>4, <2>6 DEF Queued
    <3>2. QED
      BY <1>2, <1>3, <1>4, <2>6, <3>1, QuietSteps DEF Quiet, StatusOf
  <2>7. QED
    BY <2>5, <2>6
<1>8. CASE Notify(r) \/ StopsWaiting(r) \/ Forget(r)
  <2>1. queue' = queue /\ image[r] \in {"notify", "wait", "forget"} /\ image'[r] \in {"wait", "forget", "unqueue"}
    BY <1>1, <1>8 DEF Notify, StopsWaiting, Forget, ToImage, mailVars
  <2>2. QED
    BY <1>2, <1>3, <1>4, <2>1, QuietSteps DEF Quiet, StatusOf, Queued
<1>9. CASE HangUp(r)
  <2>1. queue' = queue /\ image[r] \in {"wait", "forget", "unqueue"} /\ image'[r] = "gone"
    BY <1>1, <1>9 DEF HangUp, ToImage, mailVars
  <2>2. CASE x = r
    <3>1. StatusOf(r) = "open" /\ StatusOf(r)' = "gone" /\ HandOf(r)' = HandOf(r)
      BY <1>3, <2>1, <2>2, Seen DEF StatusOf, Queued
    <3>2. QED
      BY <1>2, <2>2, <3>1 DEF MB!Step, MB!HangUp
  <2>3. CASE x # r
    BY <1>2, <1>3, <1>4, <2>1, <2>3, QuietSteps DEF Quiet, StatusOf, Queued
  <2>4. QED
    BY <2>2, <2>3
<1>10. QED
  BY <1>5, <1>6, <1>7, <1>8, <1>9 DEF ImageStep

LEMMA PollSteps ==
  ASSUME RelayInv, NEW h \in Polls, PollStep(h), NEW x \in Requests
  PROVE  MB!Step(x)
<1>1. /\ queue \in [Tenants -> Seq(Requests)] /\ popped \in [Polls -> Requests \union {None}]
      /\ job \in [Clients -> Requests \union {None}]
      /\ TenantOf[x] \in Tenants /\ x # None
  BY RelayAssumption DEF RelayAssumption, RelayInv, TypeInv, TypeOK
<1>2. poller[h] \in Clients /\ PollTenant(h) \in Tenants
  <2>1. pollPc[h] # "free"
    BY DEF PollStep, Pop, PopsNothing, Arm, Wakes, PollTimesOut, Reply, ReplyLost, DropPoll
  <2>2. QED
    BY <2>1, RelayAssumption DEF RelayAssumption, RelayInv, TypeInv, Links, PollTenant
<1>3. CASE Pop(h)
  <2>1. PICK q \in Seq(Requests) : q = queue[PollTenant(h)]
    BY <1>1, <1>2
  <2>2. /\ q # <<>> /\ popped' = [popped EXCEPT ![h] = Head(q)]
        /\ queue'[PollTenant(h)] = Tail(q)
        /\ \A t \in Tenants \ {PollTenant(h)} : queue'[t] = queue[t]
        /\ UNCHANGED <<image, answer, job>> /\ popped[h] = None
    BY <1>1, <1>2, <1>3, <2>1 DEF Pop, imageVars, clientVars, RelayInv, TypeInv, Links
  <2>3. /\ Head(q) \in Elements(q) /\ Elements(Tail(q)) \subseteq Elements(q)
        /\ Head(q) \notin Elements(Tail(q)) /\ Head(q) \in Requests
        /\ TenantOf[Head(q)] = PollTenant(h)
    <3>1. Distinct(q) /\ \A r \in Elements(q) : TenantOf[r] = PollTenant(h)
      BY <1>2, <2>1 DEF RelayInv, MailInv, Held
    <3>2. QED
      BY <2>2, <3>1, TailFacts
  <2>4. \A y \in Elements(q) : y = Head(q) \/ y \in Elements(Tail(q))
    BY <2>2, TailLoses
  <2>5. popped'[h] = Head(q) /\ \A g \in Polls \ {h} : popped'[g] = popped[g]
    BY <1>1, <2>2
  <2>6. CASE x = Head(q)
    <3>1. Queued(x) /\ ~Queued(x)' /\ HeldSomewhere(x)'
      BY <2>1, <2>2, <2>3, <2>5, <2>6 DEF Queued, HeldSomewhere
    <3>2. image[x] # "new" /\ image'[x] # "new"
      BY <2>2, <3>1 DEF Queued, RelayInv, MailInv, Tidy, Untouched
    <3>3. HandOf(x) = "queued" /\ HandOf(x)' = "held"
      BY <3>1, <3>2, Seen
    <3>4. QED
      BY <2>2, <3>3 DEF MB!Step, MB!Take, StatusOf
  <2>7. CASE x # Head(q)
    <3>1. Queued(x)' <=> Queued(x)
      BY <1>1, <2>1, <2>2, <2>3, <2>4, <2>7 DEF Queued
    <3>2. HeldSomewhere(x)' => HeldSomewhere(x)
      BY <2>2, <2>5, <2>7 DEF HeldSomewhere
    <3>3. QED
      BY <2>2, <3>1, <3>2, QuietSteps DEF Quiet, StatusOf
  <2>8. QED
    BY <2>6, <2>7
<1>4. CASE Reply(h)
  <2>1. /\ UNCHANGED <<queue, image, answer>>
        /\ job' = [job EXCEPT ![poller[h]] = popped[h]]
        /\ popped' = [popped EXCEPT ![h] = None]
    BY <1>4 DEF Reply, Free, mailVars, imageVars
  <2>2. /\ \A c \in Clients : job'[c] = job[c] \/ job'[c] = popped[h]
        /\ \A g \in Polls : popped'[g] = popped[g] \/ popped'[g] = None
    BY <1>1, <1>2, <2>1
  <2>3. HeldSomewhere(x)' => HeldSomewhere(x)
    BY <1>1, <2>2 DEF HeldSomewhere
  <2>4. QED
    BY <2>1, <2>3, QuietSteps DEF Quiet, StatusOf, Queued
<1>5. CASE ~Pop(h) /\ ~Reply(h)
  <2>1. UNCHANGED <<image, answer, job>>
    BY <1>5, PollClientFrame DEF imageVars, clientVars
  <2>2. queue' = queue
    BY <1>5
       DEF PollStep, PopsNothing, Arm, Wakes, PollTimesOut, ReplyLost, DropPoll, mailVars
  <2>3. popped' = popped \/ Free(h)
    BY <1>5 DEF PollStep, PopsNothing, Arm, Wakes, PollTimesOut, ReplyLost, DropPoll
  <2>4. \A g \in Polls : popped'[g] \in {popped[g], None}
    BY <1>1, <2>3 DEF Free
  <2>5. QED
    BY <2>1, <2>2, <2>4, JobsVanish
<1>6. QED
  BY <1>3, <1>4, <1>5

LEMMA ClientSteps ==
  ASSUME RelayInv, NEW c \in Clients, ClientStep(c) \/ Failure(c), NEW x \in Requests
  PROVE  MB!Step(x)
<1>1. /\ job \in [Clients -> Requests \union {None}] /\ answer \in [Requests -> Content]
      /\ inflight \subseteq Requests /\ None \notin Requests /\ x # None
  BY RelayAssumption DEF RelayAssumption, RelayInv, TypeInv, TypeOK
<1>2. UNCHANGED <<queue, image, popped>>
  <2>1. Alone(c) \/ \E h \in Polls : OpenPoll(c, h)
    BY ClientCases
  <2>2. QED
    BY <2>1, ClientFrame DEF OpenPoll, mailVars, imageVars, pollVars
<1>3. \A d \in Clients : job'[d] \in {job[d], None}
  <2>1. Alone(c) \/ \E h \in Polls : OpenPoll(c, h)
    BY ClientCases
  <2>2. QED
    BY <1>1, <2>1
       DEF Alone, Register, RegisterRefused, PersistFails, RegisterCut, ClientRestart, Unregistered,
           Fetch, FetchFails, Result, ResultRefused, ResultLost, Retry, Disconnect, ClientCrash,
           OpenPoll, EndJob
<1>4. HeldSomewhere(x)' => HeldSomewhere(x)
  BY <1>1, <1>2, <1>3 DEF HeldSomewhere
<1>5. CASE Result(c) /\ x = job[c] /\ Listening(x)
  <2>1. /\ answer' = [answer EXCEPT ![x] = fetched[c]] /\ job' = [job EXCEPT ![c] = None]
        /\ x \in inflight /\ TenantOf[x] = TenantOf[c]
        /\ fetched[c] \in {"image", "refused"} /\ answer[x] = "none"
    BY <1>5 DEF Result, EndJob, Expected, RelayInv, Fresh
  <2>2. answer'[x] \in {"image", "refused"} /\ job'[c] = None
    BY <1>1, <2>1
  <2>3. image[x] \in {"notify", "wait"} /\ image' = image
    BY <1>2, <1>5 DEF Listening
  <2>4. /\ ~Queued(x) /\ \A h \in Polls : popped[h] # x
        /\ \A d \in Clients : job[d] = x => d = c
    BY <1>1, <1>5, <2>1 DEF Queued, RelayInv, MailInv, Held
  <2>5. HeldSomewhere(x) /\ ~HeldSomewhere(x)' /\ ~Queued(x)'
    <3>1. \A d \in Clients \ {c} : job'[d] = job[d]
      BY <1>1, <2>1
    <3>2. QED
      BY <1>1, <1>2, <1>5, <2>2, <2>4, <3>1 DEF HeldSomewhere, Queued
  <2>6. HandOf(x) = "held" /\ HandOf(x)' = "over"
    BY <2>3, <2>4, <2>5, Seen
  <2>7. StatusOf(x) = "open" /\ StatusOf(x)' = "open"
    BY <2>3 DEF StatusOf
  <2>8. QED
    BY <2>1, <2>2, <2>6, <2>7 DEF MB!Step, MB!Answer
<1>6. CASE ~(Result(c) /\ x = job[c] /\ Listening(x))
  <2>1. answer'[x] = answer[x]
    <3>1. CASE Result(c)
      <4>1. answer' = answer \/ (job[c] # x /\ answer' = [answer EXCEPT ![job[c]] = fetched[c]])
        BY <1>6, <3>1 DEF Result
      <4>2. QED
        BY <1>1, <4>1
    <3>2. CASE ~Result(c)
      <4>1. Alone(c) \/ \E h \in Polls : OpenPoll(c, h)
        BY ClientCases
      <4>2. QED
        BY <3>2, <4>1
           DEF Alone, Register, RegisterRefused, PersistFails, RegisterCut, ClientRestart,
               Unregistered, Fetch, FetchFails, ResultRefused, ResultLost, Retry, Disconnect,
               ClientCrash, OpenPoll, imageVars
    <3>3. QED
      BY <3>1, <3>2
  <2>2. QED
    BY <1>2, <1>4, <2>1, QuietSteps DEF Quiet, StatusOf, Queued
<1>7. QED
  BY <1>5, <1>6

LEMMA RestartSteps ==
  ASSUME RelayInv, ServerRestart, NEW x \in Requests
  PROVE  MB!Step(x)
<1>1. x # None /\ TenantOf[x] \in Tenants
  BY RelayAssumption DEF RelayAssumption
<1>2. /\ queue'[TenantOf[x]] = <<>> /\ answer' = answer /\ job' = job
      /\ \A h \in Polls : popped'[h] = None
      /\ image'[x] = IF image[x] \in {"notify", "wait", "forget", "unqueue"} THEN "gone" ELSE image[x]
  BY <1>1 DEF ServerRestart
<1>3. ~Queued(x)' /\ (HeldSomewhere(x)' => HeldSomewhere(x))
  BY <1>1, <1>2, EmptyFacts DEF Queued, HeldSomewhere
<1>4. CASE image[x] = "new"
  <2>1. StatusOf(x)' = StatusOf(x) /\ HandOf(x)' = HandOf(x)
    BY <1>2, <1>4, Seen DEF StatusOf
  <2>2. QED
    BY <1>2, <2>1 DEF MB!Step, MB!Stays
<1>5. CASE image[x] # "new"
  <2>1. /\ StatusOf(x) # "new"
        /\ StatusOf(x)' = IF StatusOf(x) = "open" THEN "gone" ELSE StatusOf(x)
    BY <1>2, <1>5 DEF StatusOf, RelayInv, TypeInv, TypeOK, ImagePC
  <2>2. image'[x] # "new"
    BY <1>2, <1>5
  <2>3. Queued(x) => ~HeldSomewhere(x)'
    <3>1. ASSUME Queued(x), NEW d \in Clients, job[d] = x
          PROVE  FALSE
      BY <1>1, <3>1 DEF Queued, RelayInv, MailInv, Held
    <3>2. QED
      BY <1>1, <1>2, <3>1 DEF HeldSomewhere
  <2>4. HandOf(x)' \in IF HandOf(x) = "held" THEN {"held", "over"} ELSE {"over"}
    BY <1>3, <1>5, <2>2, <2>3, Seen
  <2>5. QED
    BY <1>2, <2>1, <2>4 DEF MB!Step, MB!Forgotten
<1>6. QED
  BY <1>4, <1>5

-----------------------------------------------------------------------------
(* The theorem *)

LEMMA MailboxInit == Init => MB!Init
<1>1. SUFFICES ASSUME Init
               PROVE  MB!Init
  OBVIOUS
<1>2. image = [r \in Requests |-> "new"] /\ answer = [r \in Requests |-> "none"]
  BY <1>1 DEF Init
<1>3. \A r \in Requests : StatusOf(r) = "new" /\ HandOf(r) = "none"
  BY <1>2 DEF StatusOf, HandOf
<1>4. QED
  BY <1>2, <1>3 DEF MB!Init

LEMMA MailboxStep == RelayInv /\ [Next]_vars => [\A r \in Requests : MB!Step(r)]_MB!vars
<1>1. SUFFICES ASSUME RelayInv, [Next]_vars, NEW r \in Requests
               PROVE  MB!Step(r)
  OBVIOUS
<1>2. CASE UNCHANGED vars
  BY <1>2, JobsVanish DEF vars, mailVars, imageVars, pollVars, clientVars
<1>3. CASE Next
  BY <1>1, <1>3, ImageSteps, PollSteps, ClientSteps, RestartSteps DEF Next
<1>4. QED
  BY <1>1, <1>2, <1>3

LEMMA RelaySteps == Spec => []RelayInv /\ [][\A r \in Requests : MB!Step(r)]_MB!vars
<1>1. RelayInv /\ [Next]_vars => RelayInv'
  BY TypeStep, MailStep, FreshStep DEF RelayInv
<1>2. Init => RelayInv
  BY InitType, MailInit, FreshInit DEF RelayInv
<1>3. QED
  BY <1>1, <1>2, MailboxStep, PTL DEF Spec

\* The relay does with a request nothing that the abstract mailbox does not do, whatever
\* clients, polls, losses and restarts there are (image, poll, result).
THEOREM MailboxRefined == Spec => MailboxImplemented
BY RelaySteps, MailboxInit, PTL DEF Spec, MailboxImplemented, MB!Spec

-----------------------------------------------------------------------------
(* What the mailbox promises, of the relay *)

\* A job that a poll has taken does not return to a queue, whoever loses it or dies with
\* it, and no request gets a second answer (poll, result).
THEOREM OneHandOneAnswer ==
  Spec => [][\A r \in Requests :
               /\ HandOf(r) \in {"held", "over"} => HandOf(r)' \in {"held", "over"}
               /\ answer[r] # "none" => answer'[r] = answer[r]]_MB!vars
<1> DEFINE Kept(r) == /\ HandOf(r) \in {"held", "over"} => HandOf(r)' \in {"held", "over"}
                      /\ answer[r] # "none" => answer'[r] = answer[r]
<1>1. ASSUME NEW r \in Requests, MB!Step(r)
      PROVE  Kept(r)
  <2>1. CASE MB!Stays(r)
    <3>1. StatusOf(r)' = StatusOf(r) /\ HandOf(r)' = HandOf(r) /\ answer'[r] = answer[r]
      BY <2>1 DEF MB!Stays
    <3>2. QED
      BY <1>1, <3>1
  <2>2. CASE MB!Submit(r)
    <3>1. StatusOf(r) = "new" /\ HandOf(r)' = "queued" /\ answer'[r] = answer[r]
      BY <2>2 DEF MB!Submit
    <3>2. HandOf(r) = "none"
      BY <3>1 DEF StatusOf, HandOf
    <3>3. QED
      BY <3>1, <3>2
  <2>3. CASE MB!Refuse(r)
    BY <2>3 DEF MB!Refuse
  <2>4. CASE MB!Take(r)
    BY <2>4 DEF MB!Take
  <2>5. CASE MB!Lose(r)
    BY <2>5 DEF MB!Lose
  <2>6. CASE MB!Answer(r)
    BY <2>6 DEF MB!Answer
  <2>7. CASE MB!Settle(r)
    BY <2>7 DEF MB!Settle
  <2>8. CASE MB!HangUp(r)
    BY <2>8 DEF MB!HangUp
  <2>9. CASE MB!Forgotten(r)
    BY <2>9 DEF MB!Forgotten
  <2>10. QED
    BY <1>1, <2>1, <2>2, <2>3, <2>4, <2>5, <2>6, <2>7, <2>8, <2>9 DEF MB!Step
<1>2. [\A r \in Requests : MB!Step(r)]_MB!vars => [\A r \in Requests : Kept(r)]_MB!vars
  BY <1>1
<1>3. QED
  BY <1>2, RelaySteps, PTL

\* A requester that was served got an image that a client has posted, and one that was
\* told 404 did not have its image at the server by then (image).
THEOREM ServedWithImage ==
  Spec => [](\A r \in Requests : /\ image[r] = "served" => answer[r] = "image"
                                 /\ image[r] = "hidden" => answer[r] # "image")
<1> DEFINE Good(r) == /\ StatusOf(r) = "served" => answer[r] = "image"
                      /\ StatusOf(r) = "hidden" => answer[r] # "image"
                      /\ StatusOf(r) = "new" => answer[r] = "none"
           AllGood == \A r \in Requests : Good(r)
<1>1. ASSUME NEW r \in Requests, MB!Step(r), Good(r)
      PROVE  Good(r)'
  <2>1. CASE MB!Stays(r)
    <3>1. StatusOf(r)' = StatusOf(r) /\ HandOf(r)' = HandOf(r) /\ answer'[r] = answer[r]
      BY <2>1 DEF MB!Stays
    <3>2. QED
      BY <1>1, <3>1
  <2>2. CASE MB!Submit(r)
    BY <1>1, <2>2 DEF MB!Submit
  <2>3. CASE MB!Refuse(r)
    BY <1>1, <2>3 DEF MB!Refuse
  <2>4. CASE MB!Take(r)
    BY <1>1, <2>4 DEF MB!Take
  <2>5. CASE MB!Lose(r)
    BY <1>1, <2>5 DEF MB!Lose
  <2>6. CASE MB!Answer(r)
    BY <1>1, <2>6 DEF MB!Answer
  <2>7. CASE MB!Settle(r)
    BY <1>1, <2>7 DEF MB!Settle
  <2>8. CASE MB!HangUp(r)
    BY <1>1, <2>8 DEF MB!HangUp
  <2>9. CASE MB!Forgotten(r)
    BY <1>1, <2>9 DEF MB!Forgotten
  <2>10. QED
    BY <1>1, <2>1, <2>2, <2>3, <2>4, <2>5, <2>6, <2>7, <2>8, <2>9 DEF MB!Step
<1>2. ASSUME UNCHANGED MB!vars, AllGood, NEW r \in Requests
      PROVE  Good(r)'
  BY <1>2 DEF MB!vars
<1>3. AllGood /\ [\A r \in Requests : MB!Step(r)]_MB!vars => AllGood'
  BY <1>1, <1>2
<1>4. Init => AllGood
  BY DEF Init, StatusOf
<1>5. AllGood => \A r \in Requests : /\ image[r] = "served" => answer[r] = "image"
                                     /\ image[r] = "hidden" => answer[r] # "image"
  BY DEF StatusOf
<1>6. QED
  <2> HIDE DEF AllGood
  <2>1. QED
    BY <1>3, <1>4, <1>5, RelaySteps, PTL DEF Spec
=============================================================================
