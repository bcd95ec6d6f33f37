------------------------ MODULE PassiveCaptureProofs ------------------------
(***************************************************************************)
(* Theorems about PassiveCapture, for all sets of connections, however     *)
(* their identifiers and the schemas of their requests are, and all        *)
(* bounds.                                                                 *)
(***************************************************************************)
EXTENDS PassiveCapture, TLAPS

-----------------------------------------------------------------------------
(* The inductive invariant *)

\* What a window has seen of a connection are requests of that connection, each once,
\* and responses that are complete.
SeenKnown ==
  \A c \in Connections :
    /\ \A k \in DOMAIN seen[c].requests :
         seen[c].requests[k] \in Ids /\ exchanges[seen[c].requests[k]].conn = c
    /\ \A j, k \in DOMAIN seen[c].requests : seen[c].requests[j] = seen[c].requests[k] => j = k
    /\ \A k \in DOMAIN seen[c].responses :
         seen[c].responses[k] \in Ids /\ exchanges[seen[c].responses[k]].outcome # "pending"

\* A report is about requests that were sent, and not about one that the open window sees.
ReportsKnown ==
  \A i \in DOMAIN reports : \A x \in reports[i].transactions :
    /\ x.request \in Ids
    /\ sidecar = "capturing" =>
         \A c \in Connections : \A k \in DOMAIN seen[c].requests : seen[c].requests[k] # x.request

\* In a window that opened between exchanges, what passed is in step: the i-th response answers the i-th request,
\* and only the last request may be unanswered.
InStep ==
  aligned /\ sidecar = "capturing" =>
    \A c \in Connections :
      /\ \A k \in DOMAIN seen[c].responses :
           k \in DOMAIN seen[c].requests /\ seen[c].responses[k] = seen[c].requests[k]
      /\ Pending(c) = {} => Len(seen[c].requests) = Len(seen[c].responses)
      /\ \A n \in Pending(c) :
           /\ Len(seen[c].requests) = Len(seen[c].responses) + 1
           /\ seen[c].requests[Len(seen[c].requests)] = n

\* So what the reports say of a response is what it was.
Truthful ==
  aligned => \A i \in DOMAIN reports : \A x \in reports[i].transactions :
               x.status # "none" => exchanges[x.request].outcome = x.status

\* A sidecar that writes or prunes has a report.
HasReport == sidecar \in {"writing", "pruning"} => Len(reports) > 0

CaptureInv ==
  /\ TypeOK /\ SeenKnown /\ ReportsKnown /\ InStep /\ Truthful /\ HasReport
  /\ ReportsBounded /\ ReportedOnce /\ SoundWhenAligned

-----------------------------------------------------------------------------
(* Sequences *)

LEMMA AppendFacts ==
  ASSUME NEW S, NEW s \in Seq(S), NEW e \in S
  PROVE  /\ Append(s, e) \in Seq(S)
         /\ Len(Append(s, e)) = Len(s) + 1
         /\ DOMAIN Append(s, e) = DOMAIN s \union {Len(s) + 1}
         /\ Len(s) + 1 \notin DOMAIN s
         /\ \A k \in DOMAIN s : Append(s, e)[k] = s[k]
         /\ Append(s, e)[Len(s) + 1] = e
OBVIOUS

\* The last n elements of a sequence.
LEMMA LastFacts ==
  ASSUME NEW S, NEW s \in Seq(S), NEW n \in Nat, n < Len(s)
  PROVE  /\ Last(s, n) \in Seq(S)
         /\ Len(Last(s, n)) = n
         /\ \A k \in DOMAIN Last(s, n) :
              k + (Len(s) - n) \in DOMAIN s /\ Last(s, n)[k] = s[k + (Len(s) - n)]
BY DEF Last

\* What is a piece of a sequence is there at some distance.
LEMMA PieceFacts ==
  ASSUME NEW S, NEW q \in Seq(S), NEW p \in Pieces(q)
  PROVE  /\ p \in Seq(S) /\ DOMAIN p \subseteq DOMAIN q
         /\ \E d \in Nat : \A k \in DOMAIN p : k + d \in DOMAIN q /\ p[k] = q[k + d]
<1>1. PICK i \in 1..(Len(q) + 1), j \in 0..Len(q) : p = SubSeq(q, i, j)
  BY DEF Pieces
<1>2. Len(q) \in Nat /\ DOMAIN q = 1..Len(q)
  OBVIOUS
<1>3. CASE i =< j
  <2>1. p \in Seq(S) /\ Len(p) = j - i + 1 /\ \A k \in 1..(j - i + 1) : p[k] = q[i + k - 1]
    BY <1>1, <1>2, <1>3
  <2>2. DOMAIN p = 1..(j - i + 1) /\ i - 1 \in Nat
    BY <1>2, <2>1
  <2>3. \A k \in DOMAIN p : k + (i - 1) \in DOMAIN q /\ i + k - 1 = k + (i - 1)
    BY <1>2, <1>3, <2>2
  <2>4. DOMAIN p \subseteq DOMAIN q
    BY <1>2, <2>2
  <2>5. \A k \in DOMAIN p : k + (i - 1) \in DOMAIN q /\ p[k] = q[k + (i - 1)]
    BY <2>1, <2>2, <2>3
  <2>6. QED
    BY <2>1, <2>2, <2>4, <2>5
<1>4. CASE ~(i =< j)
  <2>1. p = <<>>
    BY <1>1, <1>2, <1>4
  <2>2. p \in Seq(S) /\ DOMAIN p = {} /\ 0 \in Nat
    BY <2>1
  <2>3. QED
    BY <2>2
<1>5. QED
  BY <1>3, <1>4

-----------------------------------------------------------------------------
(* What a step does to the exchanges and to the open window *)

\* Requests stay what they are, and so does the outcome of one that has been answered.
HistoryKept ==
  /\ Ids \subseteq Ids'
  /\ \A n \in Ids : /\ exchanges'[n].conn = exchanges[n].conn
                    /\ exchanges[n].outcome # "pending" =>
                         exchanges'[n].outcome = exchanges[n].outcome

\* A new request has the next number.
LEMMA SendEffect ==
  ASSUME TypeOK, NEW c \in Connections, NEW s \in Schemas, Send(c, s)
  PROVE  /\ exchanges' \in Seq(Exchange)
         /\ Len(exchanges') \in Nat /\ Len(exchanges') =< MaxExchanges
         /\ Len(exchanges) + 1 \in Nat \ Ids
         /\ Ids' = Ids \union {Len(exchanges) + 1}
         /\ \A n \in Ids : exchanges'[n] = exchanges[n]
         /\ exchanges'[Len(exchanges) + 1].conn = c
         /\ exchanges'[Len(exchanges) + 1].outcome = "pending"
<1>1. [conn |-> c, schema |-> s, outcome |-> "pending"] \in Exchange
  BY CaptureAssumption DEF CaptureAssumption, Exchange, Schema
<1>2. exchanges \in Seq(Exchange) /\ Len(exchanges) < MaxExchanges /\ MaxExchanges \in Nat
  BY CaptureAssumption DEF CaptureAssumption, TypeOK, Send
<1>3. exchanges' = Append(exchanges, [conn |-> c, schema |-> s, outcome |-> "pending"])
  BY DEF Send
<1>4. exchanges'[Len(exchanges) + 1] = [conn |-> c, schema |-> s, outcome |-> "pending"]
  BY <1>1, <1>2, <1>3, AppendFacts
<1>5. QED
  BY <1>1, <1>2, <1>3, <1>4, AppendFacts DEF Ids

\* An answer changes the outcome of one pending request, and an open window sees it.
Answers(c, o, n) ==
  /\ exchanges' \in Seq(Exchange) /\ Len(exchanges') = Len(exchanges)
  /\ n \in Ids /\ n \in Nat /\ Ids' = Ids
  /\ exchanges[n].conn = c /\ exchanges[n].outcome = "pending"
  /\ exchanges'[n].conn = c /\ exchanges'[n].outcome = o
  /\ \A m \in Ids \ {n} : exchanges'[m] = exchanges[m]
  /\ seen' = IF sidecar = "capturing"
               THEN [seen EXCEPT ![c].responses = Append(@, n)] ELSE seen

LEMMA RespondEffect ==
  ASSUME TypeOK, NEW c \in Connections, NEW o \in {"ok", "error"}, Respond(c, o)
  PROVE  \E n \in Pending(c) : Answers(c, o, n)
<1>0. PICK n \in Pending(c) :
        /\ exchanges' = [exchanges EXCEPT ![n].outcome = o]
        /\ seen' = IF sidecar = "capturing"
                     THEN [seen EXCEPT ![c].responses = Append(@, n)] ELSE seen
  BY DEF Respond
<1>1. exchanges \in Seq(Exchange) /\ n \in Ids /\ n \in Nat
  BY DEF TypeOK, Pending, Ids
<1>2. exchanges[n] \in Exchange /\ exchanges[n].conn = c /\ exchanges[n].outcome = "pending"
  BY <1>1 DEF Pending, Ids
<1>3. [exchanges[n] EXCEPT !.outcome = o] \in Exchange
  BY <1>2 DEF Exchange
<1>4. exchanges' = [exchanges EXCEPT ![n] = [exchanges[n] EXCEPT !.outcome = o]]
  BY <1>0
<1>5. exchanges'[n] = [exchanges[n] EXCEPT !.outcome = o] /\ Ids' = Ids
  BY <1>1, <1>4 DEF Ids
<1>6. exchanges'[n].conn = c /\ exchanges'[n].outcome = o
  BY <1>2, <1>5 DEF Exchange
<1>7. exchanges' \in Seq(Exchange) /\ Len(exchanges') = Len(exchanges)
  BY <1>1, <1>3, <1>4 DEF Ids
<1>8. \A m \in Ids \ {n} : exchanges'[m] = exchanges[m]
  BY <1>4 DEF Ids
<1>9. QED
  BY <1>0, <1>1, <1>2, <1>5, <1>6, <1>7, <1>8 DEF Answers

LEMMA HistoryIsKept ==
  ASSUME TypeOK, Next
  PROVE  HistoryKept
<1>1. ASSUME NEW c \in Connections, NEW s \in Schemas, Send(c, s)
      PROVE  HistoryKept
  BY <1>1, SendEffect DEF HistoryKept
<1>2. ASSUME NEW c \in Connections, NEW o \in {"ok", "error"}, Respond(c, o)
      PROVE  HistoryKept
  <2>1. PICK n \in Pending(c) : Answers(c, o, n)
    BY <1>2, RespondEffect
  <2>2. QED
    BY <2>1 DEF HistoryKept, Answers
<1>3. CASE UNCHANGED exchanges
  BY <1>3 DEF HistoryKept, Ids
<1>4. OpenWindow \/ CloseWindow \/ FinishReport \/ Prune \/ CaptureFails => UNCHANGED exchanges
  BY DEF OpenWindow, CloseWindow, FinishReport, Prune, CaptureFails
<1>5. ListReports \/ ReportUnreadable => UNCHANGED exchanges
  BY DEF ListReports, ReportUnreadable
<1>6. Correlate => UNCHANGED exchanges
  BY DEF Correlate
<1>7. QED
  BY <1>1, <1>2, <1>3, <1>4, <1>5, <1>6 DEF Next

SeenType == [requests: Seq(Nat), responses: Seq(Nat)]

\* The open window sees a request at the end of those of its connection.
LEMMA SendSees ==
  ASSUME TypeOK, NEW c \in Connections, NEW s \in Schemas, Send(c, s)
  PROVE  /\ seen' \in [Connections -> SeenType]
         /\ \A d \in Connections : seen'[d].responses = seen[d].responses
         /\ \A d \in Connections \ {c} : seen'[d].requests = seen[d].requests
         /\ sidecar # "capturing" => seen' = seen
         /\ sidecar = "capturing" =>
              seen'[c].requests = Append(seen[c].requests, Len(exchanges) + 1)
<1>1. seen \in [Connections -> SeenType] /\ Len(exchanges) + 1 \in Nat
  BY SendEffect DEF TypeOK, SeenType
<1>2. CASE sidecar # "capturing"
  BY <1>1, <1>2 DEF Send
<1>3. CASE sidecar = "capturing"
  <2>1. PICK q : q = Append(seen[c].requests, Len(exchanges) + 1)
    OBVIOUS
  <2>2. q \in Seq(Nat)
    BY <1>1, <2>1, AppendFacts DEF SeenType
  <2>3. seen' = [seen EXCEPT ![c] = [seen[c] EXCEPT !.requests = q]]
    BY <1>3, <2>1 DEF Send
  <2>4. QED
    BY <1>1, <1>3, <2>1, <2>2, <2>3 DEF SeenType
<1>4. QED
  BY <1>2, <1>3

\* And an answer at the end of the responses.
LEMMA RespondSees ==
  ASSUME TypeOK, NEW c \in Connections, NEW o, NEW n, Answers(c, o, n)
  PROVE  /\ seen' \in [Connections -> SeenType]
         /\ \A d \in Connections : seen'[d].requests = seen[d].requests
         /\ \A d \in Connections \ {c} : seen'[d].responses = seen[d].responses
         /\ sidecar # "capturing" => seen' = seen
         /\ sidecar = "capturing" => seen'[c].responses = Append(seen[c].responses, n)
<1>1. seen \in [Connections -> SeenType] /\ n \in Nat
  BY DEF TypeOK, SeenType, Answers
<1>2. CASE sidecar # "capturing"
  BY <1>1, <1>2 DEF Answers
<1>3. CASE sidecar = "capturing"
  <2>1. PICK q : q = Append(seen[c].responses, n)
    OBVIOUS
  <2>2. q \in Seq(Nat)
    BY <1>1, <2>1, AppendFacts DEF SeenType
  <2>3. seen' = [seen EXCEPT ![c] = [seen[c] EXCEPT !.responses = q]]
    BY <1>3, <2>1 DEF Answers
  <2>4. [seen[c] EXCEPT !.responses = q] \in SeenType
    BY <1>1, <2>2 DEF SeenType
  <2>5. seen'[c].requests = seen[c].requests /\ seen'[c].responses = q
    BY <1>1, <2>3 DEF SeenType
  <2>6. QED
    BY <1>1, <1>3, <2>1, <2>3, <2>4, <2>5
<1>4. QED
  BY <1>2, <1>3

-----------------------------------------------------------------------------
(* Type correctness *)

Report == [name: Nat, whole: BOOLEAN, transactions: SUBSET Transaction]

Evidence == {None} \union {[baseline |-> p[1], failed |-> p[2]] :
                            p \in {q \in Ids \X Ids : q[1] < q[2]}}

LEMMA EvidenceKept ==
  ASSUME evidence \in Evidence, evidence' = evidence, Ids \subseteq Ids'
  PROVE  evidence' \in Evidence'
BY DEF Evidence

\* What is found of a connection has been seen: requests of the connection, each once, and
\* responses that are complete.
LEMMA FoundKnown ==
  ASSUME TypeOK, SeenKnown, NEW f \in FoundOfEach, NEW c \in Connections
  PROVE  /\ \A k \in DOMAIN f[c].requests :
              /\ f[c].requests[k] \in Ids /\ exchanges[f[c].requests[k]].conn = c
              /\ \E i \in DOMAIN seen[c].requests : f[c].requests[k] = seen[c].requests[i]
         /\ \A j, k \in DOMAIN f[c].requests : f[c].requests[j] = f[c].requests[k] => j = k
         /\ \A k \in DOMAIN f[c].responses :
              f[c].responses[k] \in Ids /\ exchanges[f[c].responses[k]].outcome # "pending"
         /\ DOMAIN f[c].requests \subseteq DOMAIN seen[c].requests
         /\ DOMAIN f[c].responses \subseteq DOMAIN seen[c].responses
<1>1. PICK p \in Seq(Nat), q \in Seq(Nat) : p = seen[c].requests /\ q = seen[c].responses
  BY DEF TypeOK
<1>2. f[c] \in FoundOf(seen[c])
  BY DEF FoundOfEach
<1>3. PICK u \in Pieces(p), v \in Pieces(q) : f[c] = [requests |-> u, responses |-> v]
  BY <1>1, <1>2 DEF FoundOf
<1>4. f[c].requests = u /\ f[c].responses = v
  BY <1>3
<1>5. u \in Seq(Nat) /\ DOMAIN u \subseteq DOMAIN p /\ v \in Seq(Nat) /\ DOMAIN v \subseteq DOMAIN q
  BY PieceFacts
<1>6. PICK d \in Nat : \A k \in DOMAIN u : k + d \in DOMAIN p /\ u[k] = p[k + d]
  BY PieceFacts
<1>7. PICK e \in Nat : \A k \in DOMAIN v : k + e \in DOMAIN q /\ v[k] = q[k + e]
  BY PieceFacts
<1>8. /\ \A k \in DOMAIN p : p[k] \in Ids /\ exchanges[p[k]].conn = c
      /\ \A j, k \in DOMAIN p : p[j] = p[k] => j = k
      /\ \A k \in DOMAIN q : q[k] \in Ids /\ exchanges[q[k]].outcome # "pending"
  BY <1>1 DEF SeenKnown
<1>9. \A k \in DOMAIN u : /\ u[k] \in Ids /\ exchanges[u[k]].conn = c
                          /\ \E i \in DOMAIN p : u[k] = p[i]
  BY <1>6, <1>8
<1>10. ASSUME NEW j \in DOMAIN u, NEW k \in DOMAIN u, u[j] = u[k]
       PROVE  j = k
  <2>1. j + d = k + d
    BY <1>6, <1>8, <1>10
  <2>2. j \in Nat /\ k \in Nat
    BY <1>5
  <2>3. QED
    BY <2>1, <2>2
<1>11. \A k \in DOMAIN v : v[k] \in Ids /\ exchanges[v[k]].outcome # "pending"
  BY <1>7, <1>8
<1>12. QED
  BY <1>1, <1>4, <1>5, <1>9, <1>10, <1>11

\* What a capture pairs is a set of transactions, of requests of the connection.
LEMMA PairedType ==
  ASSUME TypeOK, SeenKnown, NEW f \in FoundOfEach, NEW c \in Connections, NEW x \in Paired(f[c])
  PROVE  /\ x \in Transaction
         /\ x.request \in Ids
         /\ \E k \in DOMAIN f[c].requests :
              /\ x.request = f[c].requests[k]
              /\ x.status = IF k \in DOMAIN f[c].responses
                              THEN exchanges[f[c].responses[k]].outcome ELSE "none"
<1>1. PICK k \in DOMAIN f[c].requests :
        x = [request |-> f[c].requests[k],
             status |-> IF k \in DOMAIN f[c].responses
                          THEN exchanges[f[c].responses[k]].outcome ELSE "none"]
  BY DEF Paired
<1>2. f[c].requests[k] \in Ids /\ Ids \subseteq Nat
  BY FoundKnown DEF TypeOK, Ids
<1>3. ASSUME k \in DOMAIN f[c].responses
      PROVE  exchanges[f[c].responses[k]].outcome \in {"ok", "error"}
  <2>1. f[c].responses[k] \in Ids /\ exchanges[f[c].responses[k]].outcome # "pending"
    BY <1>3, FoundKnown
  <2>2. exchanges[f[c].responses[k]] \in Exchange
    BY <2>1 DEF TypeOK, Ids
  <2>3. QED
    BY <2>1, <2>2 DEF Exchange
<1>4. QED
  BY <1>1, <1>2, <1>3 DEF Transaction

\* What the Guardian reads are transactions of reports.
LEMMA ReadOrigin ==
  ASSUME TypeOK, NEW x \in Read
  PROVE  x \in Transaction /\ \E i \in DOMAIN reports : x \in reports[i].transactions
<1>1. PICK i \in DOMAIN reports : x \in reports[i].transactions
  BY DEF Read
<1>2. reports \in Seq(Report)
  BY DEF TypeOK, Report
<1>3. reports[i] \in Report
  BY <1>2
<1>4. reports[i].transactions \subseteq Transaction
  BY <1>3 DEF Report
<1>5. QED
  BY <1>1, <1>4

\* Evidence is a pair of requests that the reports say succeeded and failed.
LEMMA CorrelateEffect ==
  ASSUME TypeOK, ReportsKnown, Correlate
  PROVE  evidence' = None \/
         \E b, f \in Read :
           /\ b.status = "ok" /\ f.status = "error" /\ b.request < f.request
           /\ evidence' = [baseline |-> b.request, failed |-> f.request]
<1>1. PICK error \in {n \in Ids : exchanges[n].outcome = "error"} :
        LET found == {p \in Read \X ClosestFailed(Read, error) :
                        p[1] \in Baseline(Read, p[2]) /\ Supports(p[1], p[2])}
            pair == CHOOSE p \in found : TRUE
        IN  evidence' = IF found = {} THEN None
                        ELSE [baseline |-> pair[1].request, failed |-> pair[2].request]
  BY DEF Correlate
<1>2. PICK found : found = {p \in Read \X ClosestFailed(Read, error) :
                             p[1] \in Baseline(Read, p[2]) /\ Supports(p[1], p[2])}
  OBVIOUS
<1>3. CASE found = {}
  BY <1>1, <1>2, <1>3
<1>4. CASE found # {}
  <2>1. PICK pair : pair = CHOOSE p \in found : TRUE
    OBVIOUS
  <2>2. pair \in found
    BY <1>4, <2>1
  <2>3. evidence' = [baseline |-> pair[1].request, failed |-> pair[2].request]
    BY <1>1, <1>2, <1>4, <2>1
  <2>4. pair[1] \in Read /\ pair[2] \in ClosestFailed(Read, error) /\ pair[1] \in Baseline(Read, pair[2])
    BY <1>2, <2>2
  <2>5. pair[2] \in Read /\ pair[2].status = "error"
    BY <2>4 DEF ClosestFailed
  <2>6. pair[1].status = "ok" /\ pair[1].request < pair[2].request
    BY <2>4 DEF Baseline
  <2>7. QED
    BY <2>3, <2>4, <2>5, <2>6
<1>5. QED
  BY <1>3, <1>4

\* What is there is there from the first message of each direction on.
FromFirsts(f) ==
  \A c \in Connections : /\ FromFirst(f[c].requests, seen[c].requests)
                         /\ FromFirst(f[c].responses, seen[c].responses)

\* The report that a capture leaves.
LEMMA NewReport ==
  ASSUME TypeOK, SeenKnown, CloseWindow
  PROVE  \E f \in FoundOfEach, r \in Report :
           /\ reports' = Append(reports, r)
           /\ aligned' => FromFirsts(f)
           /\ \A x \in r.transactions : \E c \in Connections : x \in Paired(f[c])
           /\ \A x \in r.transactions : x.request \in Ids
<1>1. PICK f \in FoundOfEach :
        /\ reports' = Append(reports,
                        [name |-> windows, whole |-> FALSE,
                         transactions |-> UNION {Paired(f[c]) : c \in Connections}])
        /\ aligned' = (aligned /\ FromFirsts(f))
  BY Zenon DEF CloseWindow, FromFirsts
<1>2. PICK r : r = [name |-> windows, whole |-> FALSE,
                    transactions |-> UNION {Paired(f[c]) : c \in Connections}]
  OBVIOUS
<1>3. \A x \in r.transactions : \E c \in Connections : x \in Paired(f[c])
  BY <1>2
<1>4. \A x \in r.transactions : x \in Transaction /\ x.request \in Ids
  BY <1>3, PairedType
<1>5. windows \in Nat
  BY CaptureAssumption DEF CaptureAssumption, TypeOK
<1>6. r \in Report
  BY <1>2, <1>4, <1>5 DEF Report
<1>7. QED
  BY <1>1, <1>2, <1>3, <1>4, <1>6

\* Finishing, pruning and crashing leave reports that were there, in their order.
LEMMA ReportsRemain ==
  ASSUME TypeOK, HasReport, FinishReport \/ Prune \/ CaptureFails
  PROVE  /\ reports' \in Seq(Report)
         /\ Len(reports') =< Len(reports)
         /\ Prune => Len(reports') =< MaxReports
         /\ \E d \in Nat : \A i \in DOMAIN reports' :
              i + d \in DOMAIN reports /\ reports'[i].transactions = reports[i + d].transactions
<1>1. reports \in Seq(Report) /\ MaxReports \in Nat \ {0}
  BY CaptureAssumption DEF CaptureAssumption, TypeOK, Report
<1>2. CASE FinishReport
  <2>1. PICK n \in DOMAIN reports : n = Len(reports)
    BY <1>1, <1>2 DEF HasReport, FinishReport
  <2>2. reports[n] \in Report
    BY <1>1
  <2>3. PICK r : r = [reports[n] EXCEPT !.whole = TRUE]
    OBVIOUS
  <2>4. r \in Report /\ r.transactions = reports[n].transactions
    BY <2>2, <2>3 DEF Report
  <2>5. reports' = [reports EXCEPT ![n] = r]
    BY <1>2, <2>1, <2>3 DEF FinishReport
  <2>6. reports' \in Seq(Report) /\ Len(reports') = Len(reports) /\ DOMAIN reports' = DOMAIN reports
    BY <1>1, <2>4, <2>5
  <2>7. ASSUME NEW i \in DOMAIN reports'
        PROVE  i + 0 \in DOMAIN reports /\ reports'[i].transactions = reports[i + 0].transactions
    BY <1>1, <2>4, <2>5, <2>6
  <2>8. ~Prune /\ 0 \in Nat
    BY <1>2 DEF FinishReport, Prune
  <2>9. Len(reports') =< Len(reports)
    BY <1>1, <2>6
  <2>10. QED
    BY <2>6, <2>7, <2>8, <2>9
<1>3. CASE UNCHANGED reports /\ (Prune => Len(reports) =< MaxReports)
  <2>1. ASSUME NEW i \in DOMAIN reports'
        PROVE  i + 0 \in DOMAIN reports /\ reports'[i].transactions = reports[i + 0].transactions
    BY <1>1, <1>3
  <2>2. Len(reports') =< Len(reports) /\ 0 \in Nat
    BY <1>1, <1>3
  <2>3. QED
    BY <1>1, <1>3, <2>1, <2>2
<1>4. CASE reports' = Last(reports, MaxReports) /\ Len(reports) > MaxReports
  <2>1. PICK d \in Nat : d = Len(reports) - MaxReports
    BY <1>1, <1>4
  <2>2. /\ reports' \in Seq(Report) /\ Len(reports') = MaxReports
        /\ \A i \in DOMAIN reports' : i + d \in DOMAIN reports /\ reports'[i] = reports[i + d]
    BY <1>1, <1>4, <2>1, LastFacts
  <2>3. \A i \in DOMAIN reports' :
          i + d \in DOMAIN reports /\ reports'[i].transactions = reports[i + d].transactions
    BY <2>2
  <2>4. Len(reports') =< Len(reports) /\ Len(reports') =< MaxReports
    BY <1>1, <1>4, <2>2
  <2>5. QED
    BY <2>2, <2>3, <2>4
<1>5. QED
  BY <1>1, <1>2, <1>3, <1>4 DEF Prune, CaptureFails

LEMMA TypeStep ==
  ASSUME TypeOK, SeenKnown, ReportsKnown, HasReport, Next
  PROVE  TypeOK'
<1>0. /\ MaxReports \in Nat \ {0} /\ MaxWindows \in Nat /\ MaxCrashes \in Nat
      /\ Ids \subseteq Nat /\ reports \in Seq(Report) /\ evidence \in Evidence
      /\ seen \in [Connections -> SeenType]
  BY CaptureAssumption
     DEF CaptureAssumption, TypeOK, Ids, Report, Evidence, SeenType
<1>1. ASSUME NEW c \in Connections, NEW s \in Schemas, Send(c, s)
      PROVE  TypeOK'
  <2>1. exchanges' \in Seq(Exchange) /\ Len(exchanges') =< MaxExchanges /\ Ids \subseteq Ids'
    BY <1>1, SendEffect
  <2>2. seen' \in [Connections -> SeenType]
    BY <1>1, SendSees
  <2>3. evidence' \in Evidence'
    BY <1>0, <1>1, <2>1, EvidenceKept DEF Send
  <2>4. QED
    BY <1>1, <2>1, <2>2, <2>3 DEF TypeOK, Send, SeenType, Evidence
<1>2. ASSUME NEW c \in Connections, NEW o \in {"ok", "error"}, Respond(c, o)
      PROVE  TypeOK'
  <2>0. PICK n \in Pending(c) : Answers(c, o, n)
    BY <1>2, RespondEffect
  <2>1. exchanges' \in Seq(Exchange) /\ Len(exchanges') = Len(exchanges) /\ Ids' = Ids
    BY <2>0 DEF Answers
  <2>2. seen' \in [Connections -> SeenType]
    BY <2>0, RespondSees
  <2>3. evidence' \in Evidence'
    BY <1>0, <1>2, <2>1, EvidenceKept DEF Respond
  <2>4. Len(exchanges') =< MaxExchanges
    BY <2>1 DEF TypeOK
  <2>5. QED
    BY <1>2, <2>1, <2>2, <2>3, <2>4 DEF TypeOK, Respond, SeenType, Evidence
<1>3. CASE OpenWindow
  <2>1. seen' \in [Connections -> SeenType] /\ windows' \in 0..MaxWindows
    BY <1>0, <1>3 DEF OpenWindow, Nothing, SeenType, TypeOK
  <2>2. aligned' \in BOOLEAN
    BY <1>3 DEF OpenWindow
  <2>3. QED
    BY <1>3, <2>1, <2>2 DEF TypeOK, OpenWindow, SeenType, Ids
<1>4. CASE CloseWindow
  <2>1. PICK r \in Report : reports' = Append(reports, r)
    BY <1>4, NewReport
  <2>2. reports' \in Seq(Report)
    BY <1>0, <2>1
  <2>3. aligned' \in BOOLEAN
    BY <1>4 DEF CloseWindow
  <2>4. UNCHANGED <<exchanges, seen, windows, crashes, guardian, listed, evidence>> /\ sidecar' = "writing"
    BY <1>4 DEF CloseWindow
  <2>5. QED
    BY <2>2, <2>3, <2>4 DEF TypeOK, Report, Ids
<1>5. CASE FinishReport \/ Prune \/ CaptureFails
  <2>1. reports' \in Seq(Report)
    BY <1>5, ReportsRemain
  <2>2. crashes' \in 0..MaxCrashes
    BY <1>0, <1>5 DEF TypeOK, FinishReport, Prune, CaptureFails
  <2>3. QED
    BY <1>5, <2>1, <2>2 DEF TypeOK, FinishReport, Prune, CaptureFails, Report, Ids
<1>6. CASE ListReports
  <2>0. \A i \in DOMAIN reports : reports[i] \in Report
    BY <1>0
  <2>1. listed' \subseteq Nat /\ evidence' = None
    BY <1>6, <2>0 DEF ListReports, Report
  <2>2. QED
    BY <1>6, <2>1 DEF TypeOK, ListReports, Ids
<1>7. CASE ReportUnreadable
  BY <1>7 DEF TypeOK, ReportUnreadable, Ids
<1>8. CASE Correlate
  <2>1. UNCHANGED <<exchanges, sidecar, seen, reports, windows, crashes, aligned>>
    BY <1>8 DEF Correlate
  <2>2. evidence' \in Evidence
    <3>1. CASE evidence' = None
      BY <3>1 DEF Evidence
    <3>2. ASSUME NEW b \in Read, NEW f \in Read, b.request < f.request,
                 evidence' = [baseline |-> b.request, failed |-> f.request]
          PROVE  evidence' \in Evidence
      <4>1. b.request \in Ids /\ f.request \in Ids
        BY ReadOrigin DEF ReportsKnown
      <4>2. <<b.request, f.request>> \in {q \in Ids \X Ids : q[1] < q[2]}
        BY <3>2, <4>1
      <4>3. QED
        BY <3>2, <4>2 DEF Evidence
    <3>3. QED
      BY <1>8, <3>1, <3>2, CorrelateEffect
  <2>3. guardian' \in {"idle", "reading"} /\ listed' \subseteq Nat
    BY <1>8 DEF Correlate
  <2>4. QED
    BY <2>1, <2>2, <2>3 DEF TypeOK, Evidence, Ids
<1>9. QED
  BY <1>1, <1>2, <1>3, <1>4, <1>5, <1>6, <1>7, <1>8 DEF Next

-----------------------------------------------------------------------------
(* What windows have seen *)

LEMMA SeenKept ==
  ASSUME SeenKnown, HistoryKept, seen' = seen
  PROVE  SeenKnown'
BY DEF SeenKnown, HistoryKept

LEMMA SeenStep ==
  ASSUME TypeOK, SeenKnown, HistoryKept, Next
  PROVE  SeenKnown'
<1>0. seen \in [Connections -> SeenType]
  BY DEF TypeOK, SeenType
<1>1. ASSUME NEW c \in Connections, NEW s \in Schemas, Send(c, s), sidecar = "capturing"
      PROVE  SeenKnown'
  <2>1. PICK m \in Nat : m = Len(exchanges) + 1
    BY <1>1, SendEffect
  <2>2. m \notin Ids /\ m \in Ids' /\ exchanges'[m].conn = c
    BY <1>1, <2>1, SendEffect
  <2>3. PICK r \in Seq(Nat) : r = seen[c].requests
    BY <1>0 DEF SeenType
  <2>4. /\ \A d \in Connections : seen'[d].responses = seen[d].responses
        /\ \A d \in Connections \ {c} : seen'[d].requests = seen[d].requests
        /\ seen'[c].requests = Append(r, m)
    BY <1>1, <2>1, <2>3, SendSees
  <2>5. /\ DOMAIN Append(r, m) = DOMAIN r \union {Len(r) + 1}
        /\ \A k \in DOMAIN r : Append(r, m)[k] = r[k]
        /\ Append(r, m)[Len(r) + 1] = m
    BY AppendFacts
  <2>6. /\ \A k \in DOMAIN r : r[k] \in Ids /\ exchanges[r[k]].conn = c
        /\ \A j, k \in DOMAIN r : r[j] = r[k] => j = k
    BY <2>3 DEF SeenKnown
  <2>7. ASSUME NEW k \in DOMAIN Append(r, m)
        PROVE  Append(r, m)[k] \in Ids' /\ exchanges'[Append(r, m)[k]].conn = c
    BY <2>2, <2>5, <2>6 DEF HistoryKept
  <2>8. ASSUME NEW j \in DOMAIN Append(r, m), NEW k \in DOMAIN Append(r, m),
               Append(r, m)[j] = Append(r, m)[k]
        PROVE  j = k
    BY <2>2, <2>5, <2>6, <2>8
  <2>9. ASSUME NEW d \in Connections
        PROVE  \A k \in DOMAIN seen'[d].responses :
                 /\ seen'[d].responses[k] \in Ids'
                 /\ exchanges'[seen'[d].responses[k]].outcome # "pending"
    BY <2>4 DEF SeenKnown, HistoryKept
  <2>10. ASSUME NEW d \in Connections \ {c}
         PROVE  /\ \A k \in DOMAIN seen'[d].requests :
                     seen'[d].requests[k] \in Ids' /\ exchanges'[seen'[d].requests[k]].conn = d
                /\ \A j, k \in DOMAIN seen'[d].requests :
                     seen'[d].requests[j] = seen'[d].requests[k] => j = k
    <3>1. seen'[d].requests = seen[d].requests
      BY <2>4
    <3>2. /\ \A k \in DOMAIN seen[d].requests :
               seen[d].requests[k] \in Ids /\ exchanges[seen[d].requests[k]].conn = d
          /\ \A j, k \in DOMAIN seen[d].requests :
               seen[d].requests[j] = seen[d].requests[k] => j = k
      BY DEF SeenKnown
    <3>3. QED
      BY <3>1, <3>2 DEF HistoryKept
  <2>11. /\ \A k \in DOMAIN seen'[c].requests :
              seen'[c].requests[k] \in Ids' /\ exchanges'[seen'[c].requests[k]].conn = c
         /\ \A j, k \in DOMAIN seen'[c].requests :
              seen'[c].requests[j] = seen'[c].requests[k] => j = k
    <3>1. \A k \in DOMAIN Append(r, m) :
            Append(r, m)[k] \in Ids' /\ exchanges'[Append(r, m)[k]].conn = c
      BY <2>7
    <3>2. \A j, k \in DOMAIN Append(r, m) : Append(r, m)[j] = Append(r, m)[k] => j = k
      BY <2>8
    <3>3. QED
      BY <2>4, <3>1, <3>2
  <2>12. QED
    BY <2>9, <2>10, <2>11 DEF SeenKnown
<1>2. ASSUME NEW c \in Connections, NEW o \in {"ok", "error"}, Respond(c, o),
             sidecar = "capturing"
      PROVE  SeenKnown'
  <2>1. PICK n \in Pending(c) : Answers(c, o, n)
    BY <1>2, RespondEffect
  <2>2. n \in Nat /\ n \in Ids /\ Ids' = Ids /\ exchanges'[n].outcome # "pending"
    BY <1>2, <2>1 DEF Answers
  <2>3. PICK r \in Seq(Nat) : r = seen[c].responses
    BY <1>0 DEF SeenType
  <2>4. /\ \A d \in Connections : seen'[d].requests = seen[d].requests
        /\ \A d \in Connections \ {c} : seen'[d].responses = seen[d].responses
        /\ seen'[c].responses = Append(r, n)
    BY <1>2, <2>1, <2>3, RespondSees
  <2>5. /\ DOMAIN Append(r, n) = DOMAIN r \union {Len(r) + 1}
        /\ \A k \in DOMAIN r : Append(r, n)[k] = r[k]
        /\ Append(r, n)[Len(r) + 1] = n
    BY <2>2, AppendFacts
  <2>6. \A k \in DOMAIN r : r[k] \in Ids /\ exchanges[r[k]].outcome # "pending"
    BY <2>3 DEF SeenKnown
  <2>7. ASSUME NEW k \in DOMAIN Append(r, n)
        PROVE  Append(r, n)[k] \in Ids' /\ exchanges'[Append(r, n)[k]].outcome # "pending"
    BY <2>2, <2>5, <2>6 DEF HistoryKept
  <2>8. \A d \in Connections : \A k \in DOMAIN seen'[d].responses :
          /\ seen'[d].responses[k] \in Ids'
          /\ exchanges'[seen'[d].responses[k]].outcome # "pending"
    <3>1. SUFFICES ASSUME NEW d \in Connections, NEW k \in DOMAIN seen'[d].responses
                   PROVE  /\ seen'[d].responses[k] \in Ids'
                          /\ exchanges'[seen'[d].responses[k]].outcome # "pending"
      OBVIOUS
    <3>2. CASE d = c
      BY <2>4, <2>7, <3>2
    <3>3. CASE d # c
      BY <2>4, <3>3 DEF SeenKnown, HistoryKept
    <3>4. QED
      BY <3>2, <3>3
  <2>9. QED
    BY <2>4, <2>8 DEF SeenKnown, HistoryKept
<1>3. CASE OpenWindow
  BY <1>3 DEF SeenKnown, OpenWindow, Nothing
<1>4. CASE seen' = seen
  BY <1>4, SeenKept
<1>5. ASSUME sidecar # "capturing",
             \/ \E c \in Connections, s \in Schemas : Send(c, s)
             \/ \E c \in Connections, o \in {"ok", "error"} : Respond(c, o)
      PROVE  seen' = seen
  BY <1>5 DEF Send, Respond
<1>6. CloseWindow \/ FinishReport \/ Prune \/ CaptureFails => seen' = seen
  BY DEF CloseWindow, FinishReport, Prune, CaptureFails
<1>7. ListReports \/ ReportUnreadable => seen' = seen
  BY DEF ListReports, ReportUnreadable
<1>8. Correlate => seen' = seen
  BY DEF Correlate
<1>9. QED
  BY <1>1, <1>2, <1>3, <1>4, <1>5, <1>6, <1>7, <1>8 DEF Next

LEMMA InStepStep ==
  ASSUME TypeOK, SeenKnown, InStep, Next
  PROVE  InStep'
<1> SUFFICES ASSUME aligned', sidecar' = "capturing", NEW e \in Connections
             PROVE  /\ \A k \in DOMAIN seen'[e].responses :
                         /\ k \in DOMAIN seen'[e].requests
                         /\ seen'[e].responses[k] = seen'[e].requests[k]
                    /\ Pending(e)' = {} => Len(seen'[e].requests) = Len(seen'[e].responses)
                    /\ \A n \in Pending(e)' :
                         /\ Len(seen'[e].requests) = Len(seen'[e].responses) + 1
                         /\ seen'[e].requests[Len(seen'[e].requests)] = n
  BY DEF InStep
<1>0. seen \in [Connections -> SeenType]
  BY DEF TypeOK, SeenType
<1>1. PICK p \in Seq(Nat), q \in Seq(Nat) : p = seen[e].requests /\ q = seen[e].responses
  BY <1>0 DEF SeenType
<1>2. ASSUME aligned, sidecar = "capturing"
      PROVE  /\ \A k \in DOMAIN q : k \in DOMAIN p /\ q[k] = p[k]
             /\ Pending(e) = {} => Len(p) = Len(q)
             /\ \A n \in Pending(e) : Len(p) = Len(q) + 1 /\ p[Len(p)] = n
  BY <1>1, <1>2 DEF InStep
<1>3. ASSUME NEW s \in Schemas, Send(e, s)
      PROVE  /\ \A k \in DOMAIN seen'[e].responses :
                  /\ k \in DOMAIN seen'[e].requests
                  /\ seen'[e].responses[k] = seen'[e].requests[k]
             /\ Pending(e)' # {}
             /\ \A n \in Pending(e)' :
                  /\ Len(seen'[e].requests) = Len(seen'[e].responses) + 1
                  /\ seen'[e].requests[Len(seen'[e].requests)] = n
  <2>1. PICK m \in Nat : m = Len(exchanges) + 1
    BY <1>3, SendEffect
  <2>2. /\ m \notin Ids /\ Ids' = Ids \union {m}
        /\ \A n \in Ids : exchanges'[n] = exchanges[n]
        /\ exchanges'[m].conn = e /\ exchanges'[m].outcome = "pending"
    BY <1>3, <2>1, SendEffect
  <2>3. aligned /\ sidecar = "capturing" /\ Pending(e) = {}
    BY <1>3 DEF Send
  <2>4. seen'[e].responses = q /\ seen'[e].requests = Append(p, m)
    BY <1>1, <1>3, <2>1, <2>3, SendSees
  <2>5. /\ Len(Append(p, m)) = Len(p) + 1
        /\ \A k \in DOMAIN p : k \in DOMAIN Append(p, m) /\ Append(p, m)[k] = p[k]
        /\ Append(p, m)[Len(p) + 1] = m
    BY AppendFacts
  <2>6. Pending(e)' = {m}
    BY <2>2, <2>3 DEF Pending
  <2>7. Len(p) = Len(q) /\ \A k \in DOMAIN q : k \in DOMAIN p /\ q[k] = p[k]
    BY <1>2, <2>3
  <2>8. QED
    BY <2>4, <2>5, <2>6, <2>7
<1>4. ASSUME NEW c \in Connections \ {e}, NEW s \in Schemas, Send(c, s)
      PROVE  /\ aligned /\ sidecar = "capturing" /\ Pending(e)' = Pending(e)
             /\ seen'[e].requests = p /\ seen'[e].responses = q
  <2>1. PICK m \in Nat : m = Len(exchanges) + 1
    BY <1>4, SendEffect
  <2>2. /\ Ids' = Ids \union {m} /\ exchanges'[m].conn = c
        /\ \A n \in Ids : exchanges'[n] = exchanges[n]
    BY <1>4, <2>1, SendEffect
  <2>3. Pending(e)' = Pending(e)
    BY <2>2 DEF Pending
  <2>4. QED
    BY <1>1, <1>4, <2>3, SendSees DEF Send
<1>5. ASSUME NEW o \in {"ok", "error"}, Respond(e, o)
      PROVE  /\ \A k \in DOMAIN seen'[e].responses :
                  /\ k \in DOMAIN seen'[e].requests
                  /\ seen'[e].responses[k] = seen'[e].requests[k]
             /\ Pending(e)' = {} /\ Len(seen'[e].requests) = Len(seen'[e].responses)
  <2>1. PICK n \in Pending(e) : Answers(e, o, n)
    BY <1>5, RespondEffect
  <2>2. aligned /\ sidecar = "capturing"
    BY <1>5 DEF Respond
  <2>3. seen'[e].requests = p /\ seen'[e].responses = Append(q, n)
    BY <1>1, <2>1, <2>2, RespondSees
  <2>4. /\ \A k \in DOMAIN q : k \in DOMAIN p /\ q[k] = p[k]
        /\ \A m \in Pending(e) : Len(p) = Len(q) + 1 /\ p[Len(p)] = m
    BY <1>2, <2>2
  <2>5. Pending(e)' = {}
    <3>1. \A m \in Pending(e) : m = n
      BY <2>4
    <3>2. QED
      BY <1>5, <2>1, <3>1 DEF Pending, Answers
  <2>6. n \in Nat
    BY <2>1 DEF Answers
  <2>7. Len(q) + 1 \in DOMAIN p /\ p[Len(q) + 1] = n /\ Len(p) = Len(q) + 1
    <3>1. Len(p) = Len(q) + 1 /\ p[Len(p)] = n
      BY <2>4
    <3>2. QED
      BY <3>1
  <2>8. /\ Len(Append(q, n)) = Len(q) + 1
        /\ DOMAIN Append(q, n) = DOMAIN q \union {Len(q) + 1}
        /\ \A k \in DOMAIN q : Append(q, n)[k] = q[k]
        /\ Append(q, n)[Len(q) + 1] = n
    BY <2>6, AppendFacts
  <2>9. QED
    BY <2>3, <2>4, <2>5, <2>7, <2>8
<1>6. ASSUME NEW c \in Connections \ {e}, NEW o \in {"ok", "error"}, Respond(c, o)
      PROVE  /\ aligned /\ sidecar = "capturing" /\ Pending(e)' = Pending(e)
             /\ seen'[e].requests = p /\ seen'[e].responses = q
  <2>1. PICK n \in Pending(c) : Answers(c, o, n)
    BY <1>6, RespondEffect
  <2>2. Pending(e)' = Pending(e)
    BY <2>1 DEF Pending, Answers
  <2>3. aligned /\ sidecar = "capturing"
    BY <1>6 DEF Respond
  <2>4. QED
    BY <1>1, <2>1, <2>2, <2>3, RespondSees
<1>7. CASE OpenWindow
  <2>1. seen'[e].requests = <<>> /\ seen'[e].responses = <<>>
    BY <1>7 DEF OpenWindow, Nothing
  <2>2. Pending(e)' = {}
    BY <1>7 DEF OpenWindow, Pending, Ids
  <2>3. QED
    BY <2>1, <2>2
<1>8. CASE ListReports \/ ReportUnreadable \/ Correlate
  <2>1. UNCHANGED <<exchanges, seen, sidecar, aligned>>
    BY <1>8 DEF ListReports, ReportUnreadable, Correlate
  <2>2. QED
    BY <2>1 DEF InStep, Pending, Ids
<1>9. ~(CloseWindow \/ FinishReport \/ Prune \/ CaptureFails)
  BY DEF CloseWindow, FinishReport, Prune, CaptureFails
<1>10. QED
  BY <1>1, <1>2, <1>3, <1>4, <1>5, <1>6, <1>7, <1>8, <1>9 DEF Next
-----------------------------------------------------------------------------
(* The reports *)

\* A request is paired once in a window.
LEMMA PairedOnce ==
  ASSUME TypeOK, SeenKnown, NEW f \in FoundOfEach, NEW c \in Connections, NEW d \in Connections,
         NEW x \in Paired(f[c]), NEW y \in Paired(f[d]), x.request = y.request
  PROVE  x = y
<1>1. PICK k \in DOMAIN f[c].requests :
        /\ x.request = f[c].requests[k]
        /\ x.status = IF k \in DOMAIN f[c].responses
                        THEN exchanges[f[c].responses[k]].outcome ELSE "none"
  BY PairedType
<1>2. PICK j \in DOMAIN f[d].requests :
        /\ y.request = f[d].requests[j]
        /\ y.status = IF j \in DOMAIN f[d].responses
                        THEN exchanges[f[d].responses[j]].outcome ELSE "none"
  BY PairedType
<1>3. exchanges[f[c].requests[k]].conn = c /\ exchanges[f[d].requests[j]].conn = d
  BY FoundKnown
<1>4. c = d
  BY <1>1, <1>2, <1>3
<1>5. j = k
  <2>1. j \in DOMAIN f[c].requests /\ f[c].requests[j] = f[c].requests[k]
    BY <1>1, <1>2, <1>4
  <2>2. \A m, n \in DOMAIN f[c].requests : f[c].requests[m] = f[c].requests[n] => m = n
    BY FoundKnown
  <2>3. QED
    BY <2>1, <2>2
<1>6. x.status = y.status
  BY <1>1, <1>2, <1>4, <1>5
<1>7. x \in Transaction /\ y \in Transaction
  BY PairedType
<1>8. QED
  BY <1>6, <1>7 DEF Transaction

\* In step and from the first messages on, the status paired with a request is the one of
\* its own response.
LEMMA PairedTruth ==
  ASSUME TypeOK, SeenKnown, InStep, aligned, sidecar = "capturing",
         NEW f \in FoundOfEach, FromFirsts(f),
         NEW c \in Connections, NEW x \in Paired(f[c]), x.status # "none"
  PROVE  exchanges[x.request].outcome = x.status
<1>1. PICK k \in DOMAIN f[c].requests :
        /\ x.request = f[c].requests[k]
        /\ x.status = IF k \in DOMAIN f[c].responses
                        THEN exchanges[f[c].responses[k]].outcome ELSE "none"
  BY PairedType
<1>2. k \in DOMAIN f[c].responses
  BY <1>1
<1>3. f[c].requests[k] = seen[c].requests[k] /\ f[c].responses[k] = seen[c].responses[k]
  BY <1>1, <1>2 DEF FromFirsts, FromFirst
<1>4. k \in DOMAIN seen[c].responses
  BY <1>2, FoundKnown
<1>5. seen[c].responses[k] = seen[c].requests[k]
  BY <1>4 DEF InStep
<1>6. QED
  BY <1>1, <1>2, <1>3, <1>5

\* Every step but the sidecar's own leaves the reports alone, and none but the closing of
\* a window adds to them.
LEMMA ReportSteps ==
  ASSUME Next
  PROVE  \/ CloseWindow
         \/ FinishReport \/ Prune \/ CaptureFails
         \/ UNCHANGED reports
<1>1. ASSUME NEW c \in Connections, NEW s \in Schemas, Send(c, s)
      PROVE  UNCHANGED reports
  BY <1>1 DEF Send
<1>2. ASSUME NEW c \in Connections, NEW o \in {"ok", "error"}, Respond(c, o)
      PROVE  UNCHANGED reports
  BY <1>2 DEF Respond
<1>3. OpenWindow \/ ListReports \/ ReportUnreadable => UNCHANGED reports
  BY DEF OpenWindow, ListReports, ReportUnreadable
<1>4. Correlate => UNCHANGED reports
  BY DEF Correlate
<1>5. QED
  BY <1>1, <1>2, <1>3, <1>4 DEF Next

\* What an added report and the old ones hold.
LEMMA CloseFacts ==
  ASSUME TypeOK, SeenKnown, CloseWindow
  PROVE  \E f \in FoundOfEach, r \in Report :
           /\ aligned' => FromFirsts(f)
           /\ \A x \in r.transactions : \E c \in Connections : x \in Paired(f[c])
           /\ \A x \in r.transactions : x.request \in Ids
           /\ DOMAIN reports' = DOMAIN reports \union {Len(reports) + 1}
           /\ Len(reports') = Len(reports) + 1
           /\ \A i \in DOMAIN reports : reports'[i] = reports[i]
           /\ reports'[Len(reports) + 1] = r
<1>1. PICK f \in FoundOfEach, r \in Report :
        /\ reports' = Append(reports, r)
        /\ aligned' => FromFirsts(f)
        /\ \A x \in r.transactions : \E c \in Connections : x \in Paired(f[c])
        /\ \A x \in r.transactions : x.request \in Ids
  BY NewReport
<1>2. reports \in Seq(Report)
  BY DEF TypeOK, Report
<1>3. /\ DOMAIN Append(reports, r) = DOMAIN reports \union {Len(reports) + 1}
      /\ Len(Append(reports, r)) = Len(reports) + 1
      /\ \A i \in DOMAIN reports : Append(reports, r)[i] = reports[i]
      /\ Append(reports, r)[Len(reports) + 1] = r
  BY <1>2, AppendFacts
<1>4. QED
  BY <1>1, <1>3

LEMMA ReportsKnownStep ==
  ASSUME TypeOK, SeenKnown, ReportsKnown, HasReport, HistoryKept, Next
  PROVE  ReportsKnown'
<1>1. ASSUME UNCHANGED reports, NEW i \in DOMAIN reports', NEW x \in reports'[i].transactions
      PROVE  /\ x.request \in Ids'
             /\ sidecar' = "capturing" =>
                  \A c \in Connections : \A k \in DOMAIN seen'[c].requests :
                    seen'[c].requests[k] # x.request
  <2>0. /\ x.request \in Ids /\ x.request \in Ids'
        /\ sidecar = "capturing" =>
             \A c \in Connections : \A k \in DOMAIN seen[c].requests :
               seen[c].requests[k] # x.request
    BY <1>1 DEF ReportsKnown, HistoryKept
  <2>1. ASSUME NEW d \in Connections, NEW s \in Schemas, Send(d, s), sidecar = "capturing",
               NEW c \in Connections, NEW k \in DOMAIN seen'[c].requests
        PROVE  seen'[c].requests[k] # x.request
    <3>1. PICK m \in Nat : m = Len(exchanges) + 1
      BY <2>1, SendEffect
    <3>2. m \notin Ids
      BY <2>1, <3>1, SendEffect
    <3>3. PICK r \in Seq(Nat) : r = seen[d].requests
      BY DEF TypeOK
    <3>4. /\ \A e \in Connections \ {d} : seen'[e].requests = seen[e].requests
          /\ seen'[d].requests = Append(r, m)
      BY <2>1, <3>1, <3>3, SendSees
    <3>5. /\ DOMAIN Append(r, m) = DOMAIN r \union {Len(r) + 1}
          /\ \A j \in DOMAIN r : Append(r, m)[j] = r[j]
          /\ Append(r, m)[Len(r) + 1] = m
      BY AppendFacts
    <3>6. \A j \in DOMAIN r : r[j] # x.request
      BY <2>0, <2>1, <3>3
    <3>7. \A j \in DOMAIN Append(r, m) : Append(r, m)[j] # x.request
      BY <2>0, <3>2, <3>5, <3>6
    <3>8. CASE c # d
      BY <2>0, <2>1, <3>4, <3>8
    <3>9. CASE c = d
      <4>1. seen'[c].requests = Append(r, m)
        BY <3>4, <3>9
      <4>2. QED
        BY <3>7, <4>1
    <3>10. QED
      BY <3>8, <3>9
  <2>2. ASSUME NEW d \in Connections, NEW o \in {"ok", "error"}, Respond(d, o)
        PROVE  \A c \in Connections : seen'[c].requests = seen[c].requests
    <3>1. PICK n \in Pending(d) : Answers(d, o, n)
      BY <2>2, RespondEffect
    <3>2. QED
      BY <3>1, RespondSees
  <2>3. OpenWindow => \A c \in Connections : DOMAIN seen'[c].requests = {}
    BY DEF OpenWindow, Nothing
  <2>4. CloseWindow \/ FinishReport \/ Prune \/ CaptureFails => sidecar' # "capturing"
    BY DEF CloseWindow, FinishReport, Prune, CaptureFails
  <2>5. ListReports \/ ReportUnreadable => UNCHANGED <<seen, sidecar>>
    BY DEF ListReports, ReportUnreadable
  <2>6. Correlate => UNCHANGED <<seen, sidecar>>
    BY DEF Correlate
  <2>7. ASSUME NEW d \in Connections, NEW s \in Schemas, Send(d, s)
        PROVE  UNCHANGED sidecar
    BY <2>7 DEF Send
  <2>8. ASSUME NEW d \in Connections, NEW o \in {"ok", "error"}, Respond(d, o)
        PROVE  UNCHANGED sidecar
    BY <2>8 DEF Respond
  <2>9. QED
    BY <2>0, <2>1, <2>2, <2>3, <2>4, <2>5, <2>6, <2>7, <2>8 DEF Next
<1>2. CASE UNCHANGED reports
  BY <1>1, <1>2 DEF ReportsKnown
<1>3. CASE CloseWindow
  <2>1. PICK r \in Report :
          /\ \A x \in r.transactions : x.request \in Ids
          /\ DOMAIN reports' = DOMAIN reports \union {Len(reports) + 1}
          /\ \A i \in DOMAIN reports : reports'[i] = reports[i]
          /\ reports'[Len(reports) + 1] = r
    BY <1>3, CloseFacts
  <2>2. sidecar' # "capturing"
    BY <1>3 DEF CloseWindow
  <2>3. \A i \in DOMAIN reports' : \A x \in reports'[i].transactions : x.request \in Ids
    BY <2>1 DEF ReportsKnown
  <2>4. QED
    BY <2>2, <2>3 DEF ReportsKnown, HistoryKept
<1>4. CASE FinishReport \/ Prune \/ CaptureFails
  <2>1. PICK d \in Nat : \A i \in DOMAIN reports' :
          i + d \in DOMAIN reports /\ reports'[i].transactions = reports[i + d].transactions
    BY <1>4, ReportsRemain
  <2>2. sidecar' # "capturing"
    BY <1>4 DEF FinishReport, Prune, CaptureFails
  <2>3. \A i \in DOMAIN reports' : \A x \in reports'[i].transactions : x.request \in Ids
    BY <2>1 DEF ReportsKnown
  <2>4. QED
    BY <2>2, <2>3 DEF ReportsKnown, HistoryKept
<1>5. QED
  BY <1>2, <1>3, <1>4, ReportSteps

\* A report says of a response what it was, and goes on being right.
LEMMA TruthKept ==
  ASSUME TypeOK, ReportsKnown, Truthful, HistoryKept, aligned,
         NEW i \in DOMAIN reports, NEW x \in reports[i].transactions, x.status # "none"
  PROVE  exchanges'[x.request].outcome = x.status
<1>1. reports \in Seq(Report)
  BY DEF TypeOK, Report
<1>2. reports[i] \in Report
  BY <1>1
<1>3. x \in Transaction
  BY <1>2 DEF Report
<1>4. x.status # "pending"
  BY <1>3 DEF Transaction
<1>5. x.request \in Ids /\ exchanges[x.request].outcome = x.status
  BY DEF ReportsKnown, Truthful
<1>6. QED
  BY <1>4, <1>5 DEF HistoryKept

LEMMA AlignedBefore ==
  ASSUME Next, aligned'
  PROVE  aligned
<1>1. ASSUME NEW c \in Connections, NEW s \in Schemas, Send(c, s)
      PROVE  aligned
  BY <1>1 DEF Send
<1>2. ASSUME NEW c \in Connections, NEW o \in {"ok", "error"}, Respond(c, o)
      PROVE  aligned
  BY <1>2 DEF Respond
<1>3. OpenWindow \/ CloseWindow \/ FinishReport \/ Prune \/ CaptureFails => aligned
  BY DEF OpenWindow, CloseWindow, FinishReport, Prune, CaptureFails
<1>4. ListReports \/ ReportUnreadable => aligned
  BY DEF ListReports, ReportUnreadable
<1>5. Correlate => aligned
  BY DEF Correlate
<1>6. QED
  BY <1>1, <1>2, <1>3, <1>4, <1>5 DEF Next

LEMMA TruthfulStep ==
  ASSUME TypeOK, SeenKnown, ReportsKnown, InStep, Truthful, HasReport, HistoryKept, Next
  PROVE  Truthful'
<1> SUFFICES ASSUME aligned', NEW i \in DOMAIN reports', NEW x \in reports'[i].transactions,
                    x.status # "none"
             PROVE  exchanges'[x.request].outcome = x.status
  BY DEF Truthful
<1>0. aligned
  BY AlignedBefore
<1>1. CASE UNCHANGED reports
  BY <1>0, <1>1, TruthKept
<1>2. CASE CloseWindow
  <2>1. PICK f \in FoundOfEach, r \in Report :
          /\ FromFirsts(f)
          /\ \A y \in r.transactions : \E c \in Connections : y \in Paired(f[c])
          /\ DOMAIN reports' = DOMAIN reports \union {Len(reports) + 1}
          /\ \A j \in DOMAIN reports : reports'[j] = reports[j]
          /\ reports'[Len(reports) + 1] = r
    BY <1>2, CloseFacts
  <2>2. CASE i \in DOMAIN reports
    <3>1. x \in reports[i].transactions
      BY <2>1, <2>2
    <3>2. QED
      BY <1>0, <2>2, <3>1, TruthKept
  <2>3. CASE i = Len(reports) + 1
    <3>1. x \in r.transactions
      BY <2>1, <2>3
    <3>2. PICK c \in Connections : x \in Paired(f[c])
      BY <2>1, <3>1
    <3>3. sidecar = "capturing" /\ exchanges' = exchanges
      BY <1>2 DEF CloseWindow
    <3>4. QED
      BY <1>0, <2>1, <3>2, <3>3, PairedTruth
  <2>4. QED
    BY <2>1, <2>2, <2>3
<1>3. CASE FinishReport \/ Prune \/ CaptureFails
  <2>1. PICK d \in Nat : \A j \in DOMAIN reports' :
          j + d \in DOMAIN reports /\ reports'[j].transactions = reports[j + d].transactions
    BY <1>3, ReportsRemain
  <2>2. i + d \in DOMAIN reports /\ x \in reports[i + d].transactions
    BY <2>1
  <2>3. QED
    BY <1>0, <2>2, TruthKept
<1>4. QED
  BY <1>1, <1>2, <1>3, ReportSteps

LEMMA OnceStep ==
  ASSUME TypeOK, SeenKnown, ReportsKnown, HasReport, ReportedOnce, Next
  PROVE  ReportedOnce'
<1>1. CASE UNCHANGED reports
  BY <1>1 DEF ReportedOnce
<1>2. CASE CloseWindow
  <2>1. PICK f \in FoundOfEach, r \in Report :
          /\ \A y \in r.transactions : \E c \in Connections : y \in Paired(f[c])
          /\ DOMAIN reports' = DOMAIN reports \union {Len(reports) + 1}
          /\ \A j \in DOMAIN reports : reports'[j] = reports[j]
          /\ reports'[Len(reports) + 1] = r
    BY <1>2, CloseFacts
  <2>2. ASSUME NEW x \in r.transactions, NEW y \in r.transactions, x.request = y.request
        PROVE  x = y
    <3>1. PICK c \in Connections : x \in Paired(f[c])
      BY <2>1
    <3>2. PICK d \in Connections : y \in Paired(f[d])
      BY <2>1
    <3>3. QED
      BY <2>2, <3>1, <3>2, PairedOnce
  <2>3. ASSUME NEW i \in DOMAIN reports, NEW x \in reports[i].transactions,
               NEW y \in r.transactions
        PROVE  x.request # y.request
    <3>1. PICK c \in Connections : y \in Paired(f[c])
      BY <2>1
    <3>2. PICK k \in DOMAIN seen[c].requests : y.request = seen[c].requests[k]
      <4>1. PICK n \in DOMAIN f[c].requests : y.request = f[c].requests[n]
        BY <3>1, PairedType
      <4>2. \E k \in DOMAIN seen[c].requests : f[c].requests[n] = seen[c].requests[k]
        BY FoundKnown
      <4>3. QED
        BY <4>1, <4>2
    <3>3. sidecar = "capturing"
      BY <1>2 DEF CloseWindow
    <3>4. QED
      BY <3>2, <3>3 DEF ReportsKnown
  <2>4. SUFFICES ASSUME NEW i \in DOMAIN reports', NEW j \in DOMAIN reports',
                        NEW x \in reports'[i].transactions, NEW y \in reports'[j].transactions,
                        x.request = y.request
                 PROVE  i = j /\ x = y
    BY DEF ReportedOnce
  <2>5. CASE i \in DOMAIN reports /\ j \in DOMAIN reports
    <3>1. x \in reports[i].transactions /\ y \in reports[j].transactions
      BY <2>1, <2>5
    <3>2. QED
      BY <2>4, <2>5, <3>1 DEF ReportedOnce
  <2>6. CASE i \in DOMAIN reports /\ j = Len(reports) + 1
    <3>1. x \in reports[i].transactions /\ y \in r.transactions
      BY <2>1, <2>6
    <3>2. QED
      BY <2>3, <2>4, <2>6, <3>1
  <2>7. CASE i = Len(reports) + 1 /\ j \in DOMAIN reports
    <3>1. y \in reports[j].transactions /\ x \in r.transactions
      BY <2>1, <2>7
    <3>2. QED
      BY <2>3, <2>4, <2>7, <3>1
  <2>8. CASE i = Len(reports) + 1 /\ j = Len(reports) + 1
    <3>1. x \in r.transactions /\ y \in r.transactions
      BY <2>1, <2>8
    <3>2. QED
      BY <2>2, <2>4, <2>8, <3>1
  <2>9. QED
    BY <2>1, <2>5, <2>6, <2>7, <2>8
<1>3. CASE FinishReport \/ Prune \/ CaptureFails
  <2>1. PICK d \in Nat : \A j \in DOMAIN reports' :
          j + d \in DOMAIN reports /\ reports'[j].transactions = reports[j + d].transactions
    BY <1>3, ReportsRemain
  <2>2. SUFFICES ASSUME NEW i \in DOMAIN reports', NEW j \in DOMAIN reports',
                        NEW x \in reports'[i].transactions, NEW y \in reports'[j].transactions,
                        x.request = y.request
                 PROVE  i = j /\ x = y
    BY DEF ReportedOnce
  <2>3. /\ i + d \in DOMAIN reports /\ x \in reports[i + d].transactions
        /\ j + d \in DOMAIN reports /\ y \in reports[j + d].transactions
    BY <2>1
  <2>4. i + d = j + d /\ x = y
    BY <2>2, <2>3 DEF ReportedOnce
  <2>5. i \in Nat /\ j \in Nat
    <3>1. reports' \in Seq(Report)
      BY <1>3, ReportsRemain
    <3>2. QED
      BY <3>1
  <2>6. QED
    BY <2>4, <2>5
<1>4. QED
  BY <1>1, <1>2, <1>3, ReportSteps

LEMMA BoundStep ==
  ASSUME TypeOK, SeenKnown, HasReport, ReportsBounded, Next
  PROVE  ReportsBounded' /\ HasReport'
<1>0. reports \in Seq(Report) /\ Len(reports) \in Nat /\ crashes \in Nat /\ MaxReports \in Nat
  BY CaptureAssumption DEF CaptureAssumption, TypeOK, Report
<1>1. ASSUME UNCHANGED <<reports, crashes>>,
             sidecar' \in {"writing", "pruning"} <=> sidecar \in {"writing", "pruning"}
      PROVE  ReportsBounded' /\ HasReport'
  BY <1>1 DEF ReportsBounded, HasReport
<1>2. ASSUME NEW c \in Connections, NEW s \in Schemas, Send(c, s)
      PROVE  UNCHANGED <<reports, crashes, sidecar>>
  BY <1>2 DEF Send
<1>3. ASSUME NEW c \in Connections, NEW o \in {"ok", "error"}, Respond(c, o)
      PROVE  UNCHANGED <<reports, crashes, sidecar>>
  BY <1>3 DEF Respond
<1>4. ListReports \/ ReportUnreadable => UNCHANGED <<reports, crashes, sidecar>>
  BY DEF ListReports, ReportUnreadable
<1>5. Correlate => UNCHANGED <<reports, crashes, sidecar>>
  BY DEF Correlate
<1>6. CASE OpenWindow
  BY <1>1, <1>6 DEF OpenWindow
<1>7. CASE CloseWindow
  <2>1. Len(reports') = Len(reports) + 1
    BY <1>7, CloseFacts
  <2>2. sidecar = "capturing" /\ sidecar' = "writing" /\ crashes' = crashes
    BY <1>7 DEF CloseWindow
  <2>3. QED
    BY <1>0, <2>1, <2>2 DEF ReportsBounded, HasReport
<1>8. CASE FinishReport
  <2>1. sidecar = "writing" /\ sidecar' = "pruning" /\ crashes' = crashes
    BY <1>8 DEF FinishReport
  <2>2. Len(reports') = Len(reports)
    BY <1>0, <1>8 DEF FinishReport
  <2>3. QED
    BY <2>1, <2>2 DEF ReportsBounded, HasReport
<1>9. CASE Prune
  <2>1. Len(reports') =< MaxReports /\ Len(reports') \in Nat
    BY <1>9, ReportsRemain
  <2>2. sidecar' = "idle" /\ crashes' = crashes
    BY <1>9 DEF Prune
  <2>3. QED
    BY <1>0, <2>1, <2>2 DEF ReportsBounded, HasReport
<1>10. CASE CaptureFails
  <2>1. sidecar' = "idle" /\ crashes' = crashes + 1 /\ reports' = reports
    BY <1>10 DEF CaptureFails
  <2>2. QED
    BY <1>0, <2>1 DEF ReportsBounded, HasReport
<1>11. QED
  BY <1>1, <1>2, <1>3, <1>4, <1>5, <1>6, <1>7, <1>8, <1>9, <1>10 DEF Next

-----------------------------------------------------------------------------
(* The evidence *)

\* Evidence that was sound when it was found remains so.
LEMMA EvidenceLasts ==
  ASSUME TypeOK, HistoryKept, SupportIsSound, evidence' = evidence
  PROVE  SupportIsSound'
<1> SUFFICES ASSUME evidence # None
             PROVE  /\ exchanges'[evidence.baseline].outcome = "ok"
                    /\ exchanges'[evidence.failed].outcome = "error"
  BY DEF SupportIsSound
<1>1. PICK p \in Ids \X Ids : evidence = [baseline |-> p[1], failed |-> p[2]]
  BY DEF TypeOK
<1>2. evidence.baseline \in Ids /\ evidence.failed \in Ids
  BY <1>1
<1>3. exchanges[evidence.baseline].outcome = "ok" /\ exchanges[evidence.failed].outcome = "error"
  BY DEF SupportIsSound
<1>4. QED
  BY <1>2, <1>3 DEF HistoryKept

LEMMA SoundStep ==
  ASSUME TypeOK, ReportsKnown, Truthful, HistoryKept, SoundWhenAligned, Next
  PROVE  SoundWhenAligned'
<1> SUFFICES ASSUME aligned'
             PROVE  SupportIsSound'
  BY DEF SoundWhenAligned
<1>0. aligned /\ SupportIsSound
  BY AlignedBefore DEF SoundWhenAligned
<1>1. CASE evidence' = evidence
  BY <1>0, <1>1, EvidenceLasts
<1>2. CASE evidence' = None
  BY <1>2 DEF SupportIsSound
<1>3. CASE Correlate
  <2>1. ASSUME NEW b \in Read, NEW f \in Read, b.status = "ok", f.status = "error",
               evidence' = [baseline |-> b.request, failed |-> f.request]
        PROVE  SupportIsSound'
    <3>1. PICK i \in DOMAIN reports : b \in reports[i].transactions
      BY ReadOrigin
    <3>2. PICK j \in DOMAIN reports : f \in reports[j].transactions
      BY ReadOrigin
    <3>3. exchanges'[b.request].outcome = "ok"
      BY <1>0, <2>1, <3>1, TruthKept
    <3>4. exchanges'[f.request].outcome = "error"
      BY <1>0, <2>1, <3>2, TruthKept
    <3>5. QED
      BY <2>1, <3>3, <3>4 DEF SupportIsSound
  <2>2. QED
    BY <1>2, <1>3, <2>1, CorrelateEffect
<1>4. ASSUME NEW c \in Connections, NEW s \in Schemas, Send(c, s)
      PROVE  evidence' = evidence
  BY <1>4 DEF Send
<1>5. ASSUME NEW c \in Connections, NEW o \in {"ok", "error"}, Respond(c, o)
      PROVE  evidence' = evidence
  BY <1>5 DEF Respond
<1>6. OpenWindow \/ CloseWindow \/ FinishReport \/ Prune \/ CaptureFails => evidence' = evidence
  BY DEF OpenWindow, CloseWindow, FinishReport, Prune, CaptureFails
<1>7. ReportUnreadable => evidence' = evidence
  BY DEF ReportUnreadable
<1>8. ListReports => evidence' = None
  BY DEF ListReports
<1>9. QED
  BY <1>1, <1>2, <1>3, <1>4, <1>5, <1>6, <1>7, <1>8 DEF Next

-----------------------------------------------------------------------------
(* The invariant *)

LEMMA InitInv == Init => CaptureInv
<1> SUFFICES ASSUME Init PROVE CaptureInv
  OBVIOUS
<1>1. /\ MaxExchanges \in Nat /\ MaxReports \in Nat
      /\ 0 \in 0..MaxWindows /\ 0 \in 0..MaxCrashes
  BY CaptureAssumption DEF CaptureAssumption
<1>2. <<>> \in Seq(Nat) /\ <<>> \in Seq(Exchange) /\ Len(<<>>) = 0 /\ DOMAIN <<>> = {}
      /\ <<>> \in Seq([name: Nat, whole: BOOLEAN, transactions: SUBSET Transaction])
  OBVIOUS
<1>3. seen \in [Connections -> [requests: Seq(Nat), responses: Seq(Nat)]]
  BY <1>2 DEF Init, Nothing
<1>4. TypeOK
  BY <1>1, <1>2, <1>3 DEF Init, TypeOK
<1>5. SeenKnown
  BY DEF Init, SeenKnown, Nothing
<1>6. ReportsKnown /\ InStep /\ Truthful /\ HasReport
  BY <1>2 DEF Init, ReportsKnown, InStep, Truthful, HasReport
<1>7. ReportsBounded /\ ReportedOnce /\ SoundWhenAligned
  BY <1>1, <1>2 DEF Init, ReportsBounded, ReportedOnce, SoundWhenAligned, SupportIsSound
<1>8. QED
  BY <1>4, <1>5, <1>6, <1>7 DEF CaptureInv

LEMMA NextInv == CaptureInv /\ [Next]_vars => CaptureInv'
<1> SUFFICES ASSUME CaptureInv, [Next]_vars PROVE CaptureInv'
  OBVIOUS
<1>0. /\ TypeOK /\ SeenKnown /\ ReportsKnown /\ InStep /\ Truthful /\ HasReport
      /\ ReportsBounded /\ ReportedOnce /\ SoundWhenAligned
  BY DEF CaptureInv
<1>1. CASE Next
  <2>1. HistoryKept
    BY <1>0, <1>1, HistoryIsKept
  <2>2. TypeOK' /\ SeenKnown' /\ InStep'
    BY <1>0, <1>1, <2>1, TypeStep, SeenStep, InStepStep
  <2>3. ReportsKnown' /\ Truthful' /\ ReportedOnce'
    BY <1>0, <1>1, <2>1, ReportsKnownStep, TruthfulStep, OnceStep
  <2>4. ReportsBounded' /\ HasReport' /\ SoundWhenAligned'
    BY <1>0, <1>1, <2>1, BoundStep, SoundStep
  <2>5. QED
    BY <2>2, <2>3, <2>4 DEF CaptureInv
<1>2. CASE UNCHANGED vars
  <2>1. TypeOK' /\ SeenKnown'
    BY <1>0, <1>2 DEF vars, TypeOK, SeenKnown, Ids
  <2>2. ReportsKnown' /\ InStep' /\ Truthful' /\ HasReport'
    BY <1>0, <1>2 DEF vars, ReportsKnown, InStep, Truthful, HasReport, Ids, Pending
  <2>3. ReportsBounded' /\ ReportedOnce' /\ SoundWhenAligned'
    BY <1>0, <1>2 DEF vars, ReportsBounded, ReportedOnce, SoundWhenAligned, SupportIsSound
  <2>4. QED
    BY <2>1, <2>2, <2>3 DEF CaptureInv
<1>3. QED
  BY <1>1, <1>2

LEMMA Inductive == Spec => []CaptureInv
<1>1. QED
  BY InitInv, NextInv, PTL DEF Spec

\* The sidecar, its reports and the Guardian that reads them keep the types of TypeOK:
\* evidence is a pair of requests that were sent, the baseline before the failure
\* (capture_once, correlate_reports).
THEOREM TypeCorrect == Spec => []TypeOK
<1>1. CaptureInv => TypeOK
  BY DEF CaptureInv
<1>2. QED
  BY <1>1, Inductive, PTL

\* However often the sidecar dies, no more reports pile up than --max-reports, one for
\* each death, and the one being written (prune_old_reports).
THEOREM ReportsStayBounded == Spec => []ReportsBounded
<1>1. CaptureInv => ReportsBounded
  BY DEF CaptureInv
<1>2. QED
  BY <1>1, Inductive, PTL

\* However windows fall, a request is in at most one report, with one response
\* (capture_once, analyze_pcap).
THEOREM ReportedAtMostOnce == Spec => []ReportedOnce
<1>1. CaptureInv => ReportedOnce
  BY DEF CaptureInv
<1>2. QED
  BY <1>1, Inductive, PTL

\* As long as every window opened between exchanges and its capture has each direction of a
\* connection from the first message on, with nothing before it that looks like a message,
\* evidence that supports a repair rests on a request that did succeed and on one that did
\* fail, whatever is lost at the ends of windows (correlate_reports).
THEOREM EvidenceSoundWhenAligned == Spec => []SoundWhenAligned
<1>1. CaptureInv => SoundWhenAligned
  BY DEF CaptureInv
<1>2. QED
  BY <1>1, Inductive, PTL
=============================================================================
