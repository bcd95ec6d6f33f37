---------------------------- MODULE PassiveCapture ----------------------------
(***************************************************************************)
(* The passive capture sidecar (capture_once in src/src/passive_capture.rs *)
(* and the loop of context-guardian-passive-capture), the reports it       *)
(* leaves in a directory, and the Guardian that correlates them            *)
(* (correlate_reports) to decide whether the wire supports a repair.       *)
(*                                                                         *)
(* Codex talks HTTP/1.1 to a local provider over connections that stay     *)
(* open.  An exchange is a request and its response; its number stands for *)
(* its time.  A window sees the segments that pass while it is open, so it *)
(* may see a response and not the request that it answers; and tcpdump may *)
(* miss some of them, so that a capture need not hold all it saw.          *)
(***************************************************************************)
EXTENDS Integers, Sequences, FiniteSets

CONSTANTS
  Connections,
  SessionOf,      \* the hashed identifier in a connection's requests, or None
  Schemas,        \* what the schema of a request may be
  MaxExchanges,   \* bound: exchanges
  MaxWindows,     \* bound: capture windows
  MaxReports,     \* --max-reports
  MaxRead,        \* reports that a correlation reads, at most: 100 in the code
  Window,         \* message_format_capture_window
  MaxCrashes,     \* bound: times the sidecar dies or fails to parse a capture
  None

\* The schema of a request: the one the provider expects, the same but for a known
\* lossless transformation, or something else.
Schema == {"canonical", "variant", "other"}

ASSUME CaptureAssumption ==
  /\ Schemas \subseteq Schema
  /\ DOMAIN SessionOf = Connections
  /\ {MaxExchanges, MaxWindows, Window, MaxCrashes} \subseteq Nat
  /\ MaxReports \in Nat /\ MaxReports >= 2 /\ MaxRead \in Nat \ {0}

VARIABLES
  exchanges,  \* every exchange so far, in order
  sidecar,    \* where capture_once stands
  seen,       \* what the open window has seen of each connection
  reports,    \* report files, oldest first
  windows,    \* windows opened so far
  crashes,
  guardian,   \* where correlate_reports stands
  listed,     \* the report files it found
  evidence,   \* PassiveEvidence: what supports a repair, or None
  aligned     \* history: no window has opened in the middle of an exchange or missed
              \* the first messages of a direction

vars == <<exchanges, sidecar, seen, reports, windows, crashes, guardian, listed,
          evidence, aligned>>

Exchange == [conn: Connections, schema: Schema, outcome: {"pending", "ok", "error"}]

Ids == DOMAIN exchanges

\* The request, and the status read off the response it is paired with.
Transaction == [request: Nat, status: {"none", "ok", "error"}]

TypeOK ==
  /\ exchanges \in Seq(Exchange)
  /\ Len(exchanges) =< MaxExchanges
  /\ sidecar \in {"idle", "capturing", "writing", "pruning"}
  /\ seen \in [Connections -> [requests: Seq(Nat), responses: Seq(Nat)]]
  /\ reports \in Seq([name: Nat, whole: BOOLEAN, transactions: SUBSET Transaction])
  /\ windows \in 0..MaxWindows
  /\ crashes \in 0..MaxCrashes
  /\ guardian \in {"idle", "reading"}
  /\ listed \subseteq Nat
  /\ evidence \in {None} \union {[baseline |-> p[1], failed |-> p[2]] :
                                  p \in {q \in Ids \X Ids : q[1] < q[2]}}
  /\ aligned \in BOOLEAN

Nothing == [c \in Connections |-> [requests |-> <<>>, responses |-> <<>>]]

Init ==
  /\ exchanges = <<>>
  /\ sidecar = "idle"
  /\ seen = Nothing
  /\ reports = <<>>
  /\ windows = 0
  /\ crashes = 0
  /\ guardian = "idle"
  /\ listed = {}
  /\ evidence = None
  /\ aligned = TRUE

Pending(c) == {n \in Ids : exchanges[n].conn = c /\ exchanges[n].outcome = "pending"}

-----------------------------------------------------------------------------
(* Codex and the local provider, which are not part of the repository. *)

Send(c, s) ==
  /\ Len(exchanges) < MaxExchanges
  /\ Pending(c) = {}
  /\ exchanges' = Append(exchanges, [conn |-> c, schema |-> s, outcome |-> "pending"])
  /\ seen' = IF sidecar = "capturing"
               THEN [seen EXCEPT ![c].requests = Append(@, Len(exchanges) + 1)] ELSE seen
  /\ UNCHANGED <<sidecar, reports, windows, crashes, guardian, listed, evidence, aligned>>

Respond(c, o) ==
  /\ \E n \in Pending(c) :
       /\ exchanges' = [exchanges EXCEPT ![n].outcome = o]
       /\ seen' = IF sidecar = "capturing"
                    THEN [seen EXCEPT ![c].responses = Append(@, n)] ELSE seen
  /\ UNCHANGED <<sidecar, reports, windows, crashes, guardian, listed, evidence, aligned>>

-----------------------------------------------------------------------------
(* The sidecar *)

\* Mutant: the segments of the last capture are still there.
OpenWindow_Resumed ==
  /\ sidecar = "idle"
  /\ windows < MaxWindows
  /\ windows' = windows + 1
  /\ sidecar' = "capturing"
  /\ aligned' = (aligned /\ \A c \in Connections : Pending(c) = {})
  /\ UNCHANGED <<exchanges, seen, reports, crashes, guardian, listed, evidence>>

OpenWindow ==
  /\ sidecar = "idle"
  /\ windows < MaxWindows
  /\ windows' = windows + 1
  /\ sidecar' = "capturing"
  /\ seen' = Nothing
  /\ aligned' = (aligned /\ \A c \in Connections : Pending(c) = {})
  /\ UNCHANGED <<exchanges, reports, crashes, guardian, listed, evidence>>

\* Mutant: the responses are taken from the last one back.
Paired_Backwards(s) ==
  {[request |-> s.requests[i],
    status |-> IF i \in DOMAIN s.responses
                 THEN exchanges[s.responses[Len(s.responses) + 1 - i]].outcome ELSE "none"] :
     i \in DOMAIN s.requests}

\* analyze_pcap: of one connection, the i-th request gets the i-th response.
Paired(s) ==
  {[request |-> s.requests[i],
    status |-> IF i \in DOMAIN s.responses
                 THEN exchanges[s.responses[i]].outcome ELSE "none"] :
     i \in DOMAIN s.requests}

\* A segment that is missing, or sequence numbers that wrap, cost messages at the ends of
\* what passed in a direction.  What an unclean stream is read as (Clean of Reassembly) is
\* left out.
Pieces(q) == {SubSeq(q, i, j) : i \in 1..(Len(q) + 1), j \in 0..Len(q)}

FoundOf(s) ==
  {[requests |-> q, responses |-> r] : q \in Pieces(s.requests), r \in Pieces(s.responses)}

FoundOfEach ==
  {f \in [Connections -> UNION {FoundOf(seen[c]) : c \in Connections}] :
     \A c \in Connections : f[c] \in FoundOf(seen[c])}

\* What is there of a direction is there from its first message on.
FromFirst(found, q) == \A k \in DOMAIN found : found[k] = q[k]

\* The time is over or the file is full: the capture is parsed and the report is
\* created, but not yet complete.
CloseWindow ==
  /\ sidecar = "capturing"
  /\ \E found \in FoundOfEach :
       /\ reports' = Append(reports,
                       [name |-> windows, whole |-> FALSE,
                        transactions |-> UNION {Paired(found[c]) : c \in Connections}])
       /\ aligned' = (aligned /\ \A c \in Connections :
                                   /\ FromFirst(found[c].requests, seen[c].requests)
                                   /\ FromFirst(found[c].responses, seen[c].responses))
  /\ sidecar' = "writing"
  /\ UNCHANGED <<exchanges, seen, windows, crashes, guardian, listed, evidence>>

FinishReport ==
  /\ sidecar = "writing"
  /\ reports' = [reports EXCEPT ![Len(reports)].whole = TRUE]
  /\ sidecar' = "pruning"
  /\ UNCHANGED <<exchanges, seen, windows, crashes, guardian, listed, evidence, aligned>>

Last(s, n) == SubSeq(s, Len(s) - n + 1, Len(s))

\* Mutant: one report more stays.
Prune_OneMore ==
  /\ sidecar = "pruning"
  /\ reports' = IF Len(reports) > MaxReports + 1 THEN Last(reports, MaxReports + 1) ELSE reports
  /\ sidecar' = "idle"
  /\ UNCHANGED <<exchanges, seen, windows, crashes, guardian, listed, evidence, aligned>>

\* prune_old_reports: report names sort by the time their window began.
Prune ==
  /\ sidecar = "pruning"
  /\ reports' = IF Len(reports) > MaxReports THEN Last(reports, MaxReports) ELSE reports
  /\ sidecar' = "idle"
  /\ UNCHANGED <<exchanges, seen, windows, crashes, guardian, listed, evidence, aligned>>

\* The sidecar dies, or an error ends capture_once: whatever the file holds by then
\* stays as it is.
CaptureFails ==
  /\ sidecar # "idle"
  /\ crashes < MaxCrashes
  /\ crashes' = crashes + 1
  /\ sidecar' = "idle"
  /\ UNCHANGED <<exchanges, seen, reports, windows, guardian, listed, evidence, aligned>>

-----------------------------------------------------------------------------
(* correlate_reports *)

\* The pass that meets an unknown error lists the directory and reads the newest
\* reports.
ListReports ==
  /\ guardian = "idle"
  /\ \E n \in Ids : exchanges[n].outcome = "error"
  /\ listed' = {reports[i].name : i \in {j \in DOMAIN reports : j > Len(reports) - MaxRead}}
  /\ evidence' = None
  /\ guardian' = "reading"
  /\ UNCHANGED <<exchanges, sidecar, seen, reports, windows, crashes, aligned>>

\* A listed report has been pruned or is not complete: no support.
ReportUnreadable ==
  /\ guardian = "reading"
  /\ \E m \in listed : \A i \in DOMAIN reports : reports[i].name = m => ~reports[i].whole
  /\ guardian' = "idle"
  /\ listed' = {}
  /\ UNCHANGED <<exchanges, sidecar, seen, reports, windows, crashes, evidence, aligned>>

Distance(m, n) == IF m < n THEN n - m ELSE m - n

Read == UNION {reports[i].transactions : i \in {j \in DOMAIN reports : reports[j].name \in listed}}

\* The failed request closest to the error record; of two, the earlier one.
ClosestFailed(T, error) ==
  LET failed == {x \in T : x.status = "error" /\ Distance(x.request, error) =< Window}
      closer(x, y) == \/ Distance(x.request, error) < Distance(y.request, error)
                      \/ /\ Distance(x.request, error) = Distance(y.request, error)
                         /\ x.request =< y.request
  IN  {x \in failed : \A y \in failed : closer(x, y)}

Compatible(m, n) ==
  LET s == SessionOf[exchanges[m].conn]
      t == SessionOf[exchanges[n].conn]
  IN  s = None \/ t = None \/ s = t

\* Mutant: the baseline may come after the failure.
Baseline_AnyTime(T, failed) ==
  LET prior == {x \in T : x.status = "ok" /\ Compatible(x.request, failed.request)}
  IN  {x \in prior : \A y \in prior : y.request =< x.request}

\* The last successful request before it whose identifiers do not rule it out.  (The code
\* also asks for the same target, of which there is one here.)
Baseline(T, failed) ==
  LET prior == {x \in T : /\ x.status = "ok"
                          /\ x.request < failed.request
                          /\ Compatible(x.request, failed.request)}
  IN  {x \in prior : \A y \in prior : y.request =< x.request}

\* supports_lossless_repair
Supports(b, f) ==
  exchanges[b.request].schema = "canonical" /\ exchanges[f.request].schema = "variant"

\* error is the time of the newest unknown error in the rollout.
Correlate ==
  /\ guardian = "reading"
  /\ \A m \in listed : \E i \in DOMAIN reports : reports[i].name = m /\ reports[i].whole
  /\ \E error \in {n \in Ids : exchanges[n].outcome = "error"} :
       LET found == {p \in Read \X ClosestFailed(Read, error) :
                       p[1] \in Baseline(Read, p[2]) /\ Supports(p[1], p[2])}
           pair == CHOOSE p \in found : TRUE
       IN  evidence' = IF found = {} THEN None
                       ELSE [baseline |-> pair[1].request, failed |-> pair[2].request]
  /\ guardian' = "idle"
  /\ listed' = {}
  /\ UNCHANGED <<exchanges, sidecar, seen, reports, windows, crashes, aligned>>

-----------------------------------------------------------------------------
Next ==
  \/ \E c \in Connections : \/ \E s \in Schemas : Send(c, s)
                            \/ \E o \in {"ok", "error"} : Respond(c, o)
  \/ OpenWindow \/ CloseWindow \/ FinishReport \/ Prune \/ CaptureFails
  \/ ListReports \/ ReportUnreadable \/ Correlate

Spec == Init /\ [][Next]_vars

-----------------------------------------------------------------------------
(* Properties *)

\* Evidence that supports a repair rests on a request that did succeed and on one
\* that did fail (correlate_reports; README, exact passive request capture).
SupportIsSound ==
  evidence # None =>
    /\ exchanges[evidence.baseline].outcome = "ok"
    /\ exchanges[evidence.failed].outcome = "error"

\* So it does as long as every window opened between exchanges and its capture has each
\* direction of a connection from the first message on, and nothing before that looks like
\* a message (Clean of Reassembly): pairing by position survives the end of a window,
\* messages lost at its end, crashes of the sidecar and pruned reports.
SoundWhenAligned == aligned => SupportIsSound

\* The sidecar keeps at most max-reports, the one it is about to prune for, and one
\* for each time it died between writing and pruning (prune_old_reports).
ReportsBounded ==
  Len(reports) =< MaxReports + crashes + (IF sidecar \in {"writing", "pruning"} THEN 1 ELSE 0)

\* However windows fall, a request is in at most one report, with one response
\* (capture_once starts each capture afresh, analyze_pcap groups by connection).
ReportedOnce ==
  \A i, j \in DOMAIN reports : \A x \in reports[i].transactions, y \in reports[j].transactions :
    x.request = y.request => i = j /\ x = y
=============================================================================
