------------------------------ MODULE Guardian ------------------------------
(***************************************************************************)
(* The Guardian processes of src/src/main.rs at work on one Codex task:    *)
(* daemons (the loop of main), one-shot runs (--once), the rollout file    *)
(* they rewrite in place while Codex appends to it, the backups they take, *)
(* and the token counters in the two SQLite databases they repair.         *)
(*                                                                         *)
(* Each step of clean_rollout that touches the file system is an action of *)
(* its own, because Codex and other Guardians take no lock and can act     *)
(* between any two of them.  What one pass computes is in Rollout.         *)
(***************************************************************************)
EXTENDS Rollout, FiniteSets

CONSTANTS
  Daemons,          \* Guardians that run the loop of main
  OneShots,         \* Guardians run with --once, possibly again and again
  InitialRollouts,  \* the files a run may start from
  FirstPos,         \* a position after every record of those files
  Incoming,         \* what Codex may append: records whose position is ignored
  MaxAppends,       \* bound: records that Codex appends
  MaxFaults,        \* bound: crashes and failing system calls
  MaxWritebacks,    \* bound: times Codex writes a token counter back
  TokenValues,      \* values of a token counter
  TriggerTokens,    \* --context-trigger-tokens
  RecoveryTokens,   \* --recovery-tokens
  Preview,          \* --enable-message-format-preview
  Gated,            \* a live probe or passive capture must support a repair
  ShortInterval     \* --interval-ms is well below a second

Guardians == Daemons \union OneShots

\* validate_scope refuses recovery tokens that reach the trigger.
ASSUME GuardianAssumption ==
  /\ Daemons \intersect OneShots = {}
  /\ FirstPos \in Nat
  /\ \A F \in InitialRollouts :
       F \subseteq Record /\ Distinct(F) /\ \A r \in F : r.pos < FirstPos
  /\ Incoming \subseteq Record
  /\ {MaxAppends, MaxFaults, MaxWritebacks} \subseteq Nat
  /\ TokenValues \subseteq Nat
  /\ TriggerTokens \in Nat
  /\ RecoveryTokens \in TokenValues
  /\ RecoveryTokens < TriggerTokens
  /\ {Preview, Gated, ShortInterval} \subseteq BOOLEAN

VARIABLES
  rollout,      \* the complete JSON lines of the file
  torn,         \* "line": some line is not JSON; "tail": the file ends inside a line
  codex,        \* "midline": a line is half written; "headless": its first half is gone
  nextPos,      \* position of the next record Codex appends
  mtime,        \* version of the file, for its length and modification time
  backups,      \* backups named after an earlier second
  current,      \* the backup named after the current second, if there is one
  pc,           \* where each Guardian stands
  before,       \* version that clean_rollout saw before it read the file
  contents,     \* the records it read
  apply,        \* apply_message_repairs
  lastSeen,     \* last_seen of the daemon loop, 0 for None
  stateTokens,  \* threads.tokens_used
  goalTokens,   \* thread_goals.tokens_used
  writebacks,   \* times Codex has written a counter back
  faults,       \* crashes and failures so far
  log,          \* history: every record Codex has written, as it wrote it
  forfeit,      \* history: positions that a known window has put at risk
  settled,      \* history: the version the last undisturbed pass left behind
  overtaken     \* history: daemons whose fingerprint covers lines their pass never read

fileVars == <<rollout, torn, codex, nextPos, mtime>>
backupVars == <<backups, current>>
passVars == <<before, contents, apply>>
dbVars == <<stateTokens, goalTokens, writebacks>>
history == <<log, forfeit, settled, overtaken>>
vars == <<fileVars, backupVars, pc, passVars, lastSeen, dbVars, faults, history>>

PC == {"poll", "before", "read", "check", "backup", "truncate", "write",
       "seen", "state_db", "goals_db", "sleep", "exit", "down"}

TypeOK ==
  /\ rollout \subseteq Record
  /\ torn \in {"no", "line", "tail"}
  /\ codex \in {"idle", "midline", "headless"}
  /\ nextPos \in Nat
  /\ mtime \in Nat
  /\ backups \subseteq SUBSET Record
  /\ current \subseteq SUBSET Record
  /\ pc \in [Guardians -> PC]
  /\ before \in [Guardians -> Nat]
  /\ contents \in [Guardians -> SUBSET Record]
  /\ apply \in [Guardians -> BOOLEAN]
  /\ lastSeen \in [Guardians -> Nat]
  /\ stateTokens \in TokenValues
  /\ goalTokens \in TokenValues
  /\ writebacks \in 0..MaxWritebacks
  /\ faults \in 0..MaxFaults
  /\ log \subseteq Record
  /\ forfeit \subseteq Nat
  /\ settled \in Nat
  /\ overtaken \subseteq Guardians

Init ==
  /\ rollout \in InitialRollouts
  /\ torn = "no"
  /\ codex = "idle"
  /\ nextPos = FirstPos
  /\ mtime = 1
  /\ backups = {}
  /\ current = {}
  /\ pc = [p \in Guardians |-> IF p \in Daemons THEN "poll" ELSE "before"]
  /\ before = [p \in Guardians |-> 0]
  /\ contents = [p \in Guardians |-> {}]
  /\ apply = [p \in Guardians |-> FALSE]
  /\ lastSeen = [p \in Guardians |-> 0]
  /\ stateTokens \in TokenValues
  /\ goalTokens \in TokenValues
  /\ writebacks = 0
  /\ faults = 0
  /\ log = rollout
  /\ forfeit = {}
  /\ settled = 0
  /\ overtaken = {}

-----------------------------------------------------------------------------
(* Codex, which is not part of the repository: it appends JSON lines to the *)
(* rollout, possibly in two writes, and writes stale counters back.        *)

\* The pass of p no longer notices what is appended now, and will not back it up.
Unwatched(p) ==
  \/ pc[p] \in {"truncate", "write"}
  \/ pc[p] = "backup" /\ ~NeedsBackup(contents[p], apply[p])

BeginLine ==
  /\ codex = "idle"
  /\ Incoming # {}
  /\ nextPos < FirstPos + MaxAppends
  /\ codex' = IF torn = "tail" THEN "headless" ELSE "midline"
  /\ mtime' = mtime + 1
  /\ UNCHANGED <<rollout, torn, nextPos, backupVars, pc, passVars, lastSeen,
                 dbVars, faults, history>>

\* A line whose first half was truncated or glued to a torn tail is not JSON.
FinishLine ==
  /\ codex # "idle"
  /\ \E t \in Incoming :
       LET r == [t EXCEPT !.pos = nextPos]
       IN  /\ log' = log \union {r}
           /\ IF codex = "midline"
                THEN rollout' = rollout \union {r} /\ torn' = torn
                ELSE rollout' = rollout /\ torn' = "line"
  /\ forfeit' = IF codex = "headless" \/ \E p \in Guardians : Unwatched(p)
                  THEN forfeit \union {nextPos} ELSE forfeit
  /\ codex' = "idle"
  /\ nextPos' = nextPos + 1
  /\ mtime' = mtime + 1
  /\ UNCHANGED <<backupVars, pc, passVars, lastSeen, dbVars, faults, settled,
                 overtaken>>

WriteBack ==
  /\ writebacks < MaxWritebacks
  /\ writebacks' = writebacks + 1
  /\ \E n \in TokenValues : \/ stateTokens' = n /\ goalTokens' = goalTokens
                            \/ goalTokens' = n /\ stateTokens' = stateTokens
  /\ UNCHANGED <<fileVars, backupVars, pc, passVars, lastSeen, faults, history>>

\* A new second: a backup taken from now on gets a name of its own.
NewSecond == backups' = backups \union current /\ current' = {}

Tick ==
  /\ current # {}
  /\ NewSecond
  /\ UNCHANGED <<fileVars, pc, passVars, lastSeen, dbVars, faults, history>>

-----------------------------------------------------------------------------
(* The loop of main and the body of clean_rollout. *)

Goto(p, l) == pc' = [pc EXCEPT ![p] = l]

ForgetPass(p) ==
  /\ before' = [before EXCEPT ![p] = 0]
  /\ contents' = [contents EXCEPT ![p] = {}]
  /\ apply' = [apply EXCEPT ![p] = FALSE]

\* Mutant: the fingerprint is kept although the pass failed.
PassFails_Remembered(p) ==
  /\ ForgetPass(p)
  /\ lastSeen' = [lastSeen EXCEPT ![p] = mtime]
  /\ Goto(p, IF p \in Daemons THEN "state_db" ELSE "exit")

\* clean_rollout returns Err: the daemon forgets the fingerprint and goes on to
\* the databases; a one-shot run exits before it reaches them.
PassFails(p) ==
  /\ ForgetPass(p)
  /\ lastSeen' = [lastSeen EXCEPT ![p] = 0]
  /\ Goto(p, IF p \in Daemons THEN "state_db" ELSE "exit")

\* clean_rollout returns Ok: only the daemon then takes a new fingerprint.
PassReturns(p) ==
  /\ ForgetPass(p)
  /\ Goto(p, IF p \in Daemons THEN "seen" ELSE "state_db")

Poll(p) ==
  /\ pc[p] = "poll"
  /\ Goto(p, IF mtime # lastSeen[p] THEN "before" ELSE "state_db")
  /\ UNCHANGED <<fileVars, backupVars, passVars, lastSeen, dbVars, faults, history>>

\* After the quiet delay, clean_rollout starts with the metadata of the file.
StatBefore(p) ==
  /\ pc[p] = "before"
  /\ before' = [before EXCEPT ![p] = mtime]
  /\ Goto(p, "read")
  /\ UNCHANGED <<fileVars, backupVars, contents, apply, lastSeen, dbVars, faults, history>>

\* The message formats are diagnosed, and a report is written.
Diagnosed(F) == Preview /\ UnknownError(F)

\* Whether this pass may apply message repairs; a probe or the captured evidence
\* may support them or not.
RepairVerdicts(F) ==
  IF ~(Diagnosed(F) /\ Repairable(F)) THEN {FALSE}
  ELSE IF Gated THEN BOOLEAN ELSE {TRUE}

Read(p) ==
  /\ pc[p] = "read"
  /\ codex = "idle"
  /\ torn = "no"
  /\ contents' = [contents EXCEPT ![p] = rollout]
  /\ \E v \in RepairVerdicts(rollout) : apply' = [apply EXCEPT ![p] = v]
  /\ Goto(p, "check")
  /\ UNCHANGED <<fileVars, backupVars, before, lastSeen, dbVars, faults, history>>

\* parse_records meets a line that is not JSON, or not JSON yet.
ReadTorn(p) ==
  /\ pc[p] = "read"
  /\ codex # "idle" \/ torn # "no"
  /\ PassFails(p)
  /\ UNCHANGED <<fileVars, backupVars, dbVars, faults, history>>

\* Nothing to change: the pass returns without looking at the file again.
CheckUnchanged(p) ==
  /\ pc[p] = "check"
  /\ ~Changed(contents[p], apply[p])
  /\ settled' = before[p]
  /\ PassReturns(p)
  /\ UNCHANGED <<fileVars, backupVars, lastSeen, dbVars, faults, log, forfeit,
                 overtaken>>

\* The file has changed since the pass began: WouldBlock.
CheckRaced(p) ==
  /\ pc[p] = "check"
  /\ Changed(contents[p], apply[p])
  /\ mtime # before[p]
  /\ PassFails(p)
  /\ UNCHANGED <<fileVars, backupVars, dbVars, faults, history>>

CheckPassed(p) ==
  /\ pc[p] = "check"
  /\ Changed(contents[p], apply[p])
  /\ mtime = before[p]
  /\ Goto(p, "backup")
  /\ UNCHANGED <<fileVars, backupVars, passVars, lastSeen, dbVars, faults, history>>

\* Mutant: the backup is made of what the pass is about to write.
Backup_OfOutput(p) ==
  /\ pc[p] = "backup"
  /\ current' = IF NeedsBackup(contents[p], apply[p])
                  THEN {Output(contents[p], apply[p])} ELSE current
  /\ Goto(p, "truncate")
  /\ UNCHANGED <<fileVars, backups, passVars, lastSeen, dbVars, faults, history>>

\* fs::copy of the file as it is now; the name only tells seconds apart.
Backup(p) ==
  /\ pc[p] = "backup"
  /\ current' = IF NeedsBackup(contents[p], apply[p]) THEN {rollout} ELSE current
  /\ Goto(p, "truncate")
  /\ UNCHANGED <<fileVars, backups, passVars, lastSeen, dbVars, faults, history>>

\* write_same_inode opens the file with truncate.
Truncate(p) ==
  /\ pc[p] = "truncate"
  /\ rollout' = {}
  /\ torn' = "no"
  /\ codex' = IF codex = "midline" THEN "headless" ELSE codex
  /\ mtime' = mtime + 1
  /\ Goto(p, "write")
  /\ UNCHANGED <<nextPos, backupVars, passVars, lastSeen, dbVars, faults, history>>

\* The first records of F in the order of the file.
Prefixes(F) == {G \in SUBSET F : \A r \in G, s \in F : s.pos < r.pos => s \in G}

\* The bytes go to offset 0, over whatever was appended since the truncation: of
\* that, only a tail beyond them is left, and it may begin inside a line.
Overwrite(W) ==
  /\ \E G \in Prefixes(rollout) :
       /\ (W # {} /\ rollout # {}) => G # {}
       /\ rollout' = W \union {r \in rollout \ G : \A s \in W : s.pos < r.pos}
  /\ torn' \in IF rollout = {} /\ codex = "idle" /\ torn = "no" THEN {"no"}
               ELSE {"no", "line", torn}
  /\ codex' \in IF codex = "midline" THEN {"midline", "headless"} ELSE {codex}
  /\ mtime' = mtime + 1

Write(p) ==
  /\ pc[p] = "write"
  /\ Overwrite(Output(contents[p], apply[p]))
  /\ settled' = IF rollout = {} THEN mtime' ELSE settled
  /\ PassReturns(p)
  /\ UNCHANGED <<nextPos, backupVars, lastSeen, dbVars, faults, log, forfeit,
                 overtaken>>

\* last_seen becomes the fingerprint of the file as it is after the pass, lines that
\* were appended since the pass read it included.
Seen(p) ==
  /\ pc[p] = "seen"
  /\ lastSeen' = [lastSeen EXCEPT ![p] = mtime]
  /\ overtaken' = IF mtime = settled THEN overtaken \ {p} ELSE overtaken \union {p}
  /\ Goto(p, "state_db")
  /\ UNCHANGED <<fileVars, backupVars, passVars, dbVars, faults, log, forfeit, settled>>

\* Mutants: a counter that is exactly at the trigger stays; the trigger is taken off
\* the counter.
Lowered_Above(n) == IF n > TriggerTokens THEN RecoveryTokens ELSE n
Lowered_Subtracted(n) == IF n >= TriggerTokens THEN n - TriggerTokens ELSE n

\* UPDATE ... SET tokens_used = recovery WHERE tokens_used >= trigger.
Lowered(n) == IF n >= TriggerTokens THEN RecoveryTokens ELSE n

RepairStateDb(p) ==
  /\ pc[p] = "state_db"
  /\ stateTokens' = Lowered(stateTokens)
  /\ Goto(p, "goals_db")
  /\ UNCHANGED <<fileVars, backupVars, passVars, lastSeen, goalTokens, writebacks,
                 faults, history>>

RepairGoalsDb(p) ==
  /\ pc[p] = "goals_db"
  /\ goalTokens' = Lowered(goalTokens)
  /\ Goto(p, IF p \in Daemons THEN "sleep" ELSE "exit")
  /\ UNCHANGED <<fileVars, backupVars, passVars, lastSeen, stateTokens, writebacks,
                 faults, history>>

\* The default interval is a second, so the next backup cannot share a name.
Wake(p) ==
  /\ pc[p] = "sleep"
  /\ Goto(p, "poll")
  /\ IF ShortInterval THEN UNCHANGED backupVars ELSE NewSecond
  /\ UNCHANGED <<fileVars, passVars, lastSeen, dbVars, faults, history>>

\* The user, or the MCP server for him, runs --once again.
RunAgain(p) ==
  /\ pc[p] = "exit"
  /\ Goto(p, "before")
  /\ UNCHANGED <<fileVars, backupVars, passVars, lastSeen, dbVars, faults, history>>

-----------------------------------------------------------------------------
(* Failures: system calls, and the process itself. *)

Fault == faults < MaxFaults /\ faults' = faults + 1

\* The positions of a rewrite that no backup covers.
Unbacked(p) ==
  IF NeedsBackup(contents[p], apply[p]) THEN {}
  ELSE {r.pos : r \in contents[p]}

\* file_fingerprint fails: the pass is skipped, the databases are not.
StatFails(p) ==
  /\ pc[p] = "poll"
  /\ Fault
  /\ PassFails(p)
  /\ UNCHANGED <<fileVars, backupVars, dbVars, history>>

\* Metadata, reading, the report, the copy or opening the file fails.
StepFails(p) ==
  /\ \/ pc[p] \in {"before", "read", "truncate"}
     \/ pc[p] = "check" /\ (Changed(contents[p], apply[p]) \/ Diagnosed(contents[p]))
     \/ pc[p] = "backup" /\ (NeedsBackup(contents[p], apply[p]) \/ Diagnosed(contents[p]))
  /\ Fault
  /\ PassFails(p)
  /\ UNCHANGED <<fileVars, backupVars, dbVars, history>>

\* The backup is made, or cut short over one of the same second, and then the
\* copy or the report fails.
BackupFails(p) ==
  /\ pc[p] = "backup"
  /\ NeedsBackup(contents[p], apply[p])
  /\ Fault
  /\ \E G \in Prefixes(rollout) : current' = {G}
  /\ PassFails(p)
  /\ UNCHANGED <<fileVars, backups, dbVars, history>>

\* write_all or sync_all fails after part of the output.
WriteFails(p) ==
  /\ pc[p] = "write"
  /\ Fault
  /\ \E W \in Prefixes(Output(contents[p], apply[p])) :
       \/ Overwrite(W)
       \/ /\ rollout = {} /\ codex = "idle" /\ torn = "no"
          /\ rollout' = W /\ torn' = "tail" /\ codex' = codex
          /\ mtime' = mtime + 1
  /\ forfeit' = forfeit \union Unbacked(p)
  /\ PassFails(p)
  /\ UNCHANGED <<nextPos, backupVars, dbVars, log, settled, overtaken>>

\* sqlite_error: the rest of repair_databases is skipped.
DbFails(p) ==
  /\ pc[p] \in {"state_db", "goals_db"}
  /\ Fault
  /\ Goto(p, IF p \in Daemons THEN "sleep" ELSE "exit")
  /\ UNCHANGED <<fileVars, backupVars, passVars, lastSeen, dbVars, history>>

Crash(p) ==
  /\ pc[p] \notin {"down", "exit"}
  /\ Fault
  /\ Goto(p, IF p \in Daemons THEN "down" ELSE "exit")
  /\ ForgetPass(p)
  /\ lastSeen' = [lastSeen EXCEPT ![p] = 0]
  /\ forfeit' = IF pc[p] = "write" THEN forfeit \union Unbacked(p) ELSE forfeit
  /\ UNCHANGED <<fileVars, backupVars, dbVars, log, settled, overtaken>>

\* Both service managers wait more than a second before they restart a daemon.
Restart(p) ==
  /\ pc[p] = "down"
  /\ Goto(p, "poll")
  /\ NewSecond
  /\ UNCHANGED <<fileVars, passVars, lastSeen, dbVars, faults, history>>

-----------------------------------------------------------------------------
PassStep(p) ==
  \/ StatBefore(p) \/ Read(p) \/ ReadTorn(p)
  \/ CheckUnchanged(p) \/ CheckRaced(p) \/ CheckPassed(p)
  \/ Backup(p) \/ Truncate(p) \/ Write(p)

LoopStep(p) ==
  \/ Poll(p) \/ Seen(p) \/ RepairStateDb(p) \/ RepairGoalsDb(p) \/ Wake(p)
  \/ Restart(p)

Failure(p) ==
  \/ StatFails(p) \/ StepFails(p) \/ BackupFails(p) \/ WriteFails(p)
  \/ DbFails(p) \/ Crash(p)

Codex == BeginLine \/ FinishLine \/ WriteBack

Next ==
  \/ Codex
  \/ Tick
  \/ \E p \in Guardians : PassStep(p) \/ LoopStep(p) \/ RunAgain(p) \/ Failure(p)

Spec == Init /\ [][Next]_vars

\* Each Guardian is an operating-system process that keeps being scheduled, the
\* service manager restarts a daemon, and Codex finishes a line it has begun.
Fairness ==
  /\ WF_vars(FinishLine)
  /\ \A p \in Guardians : WF_vars(PassStep(p) \/ LoopStep(p))

FairSpec == Spec /\ Fairness

-----------------------------------------------------------------------------
(* Properties *)

\* Codex's own bytes for r are still there: in a backup, in the file, or in a
\* rewrite that is under way without a backup of what it replaces.
Saved(r) == \E b \in backups \union current : r \in b

InFlight(r, p) ==
  /\ pc[p] = "write"
  /\ ~NeedsBackup(contents[p], apply[p])
  /\ r \in Output(contents[p], apply[p])

Kept(r) == r \in rollout \/ Saved(r) \/ \E p \in Guardians : InFlight(r, p)

\* Of a lone daemon: whatever Codex wrote stays, byte for byte, in the file or in
\* a backup, save an alert, a line that was appended while a rewrite was no
\* longer looking, and an alerts-only rewrite that was cut short (clean_rollout,
\* write_same_inode).
NothingLost == \A r \in log : r.kind = "alert" \/ r.pos \in forfeit \/ Kept(r)

\* A Guardian only overwrites the file after a backup holds all that it read, if
\* the pass changes more than dropping alerts (needs_backup, fs::copy).
BackupCovers ==
  \A p \in Guardians :
    (pc[p] \in {"truncate", "write"} /\ NeedsBackup(contents[p], apply[p]))
      => \E b \in backups \union current : contents[p] \subseteq b

\* What any number of passes may make of r: three change it at most, as one may repair
\* it, one prune it, and one prune what the placeholder of another quotes.
AfterPass(S) == S \union {Cleaned(s, v) : s \in S, v \in BOOLEAN}
FormOf(s, r) == s \in AfterPass(AfterPass(AfterPass({r})))

\* Nobody's rewrite invents a record: all that is in the file or in a backup is
\* something Codex wrote, cleaned or not (clean_rollout's output loop).
NoInvention ==
  \A F \in {rollout} \union backups \union current :
    \A s \in F : \E r \in log : FormOf(s, r)

\* A pass that follows an undisturbed pass over a file nobody touched in between
\* folds nothing, drops no alert, prunes at most what the placeholders of that pass
\* quote, and leaves nothing of the kind to a third; with the preview it may still
\* repair what the first refused to (the conversions of clean_rollout).
SecondPassSettles ==
  \A p \in Guardians :
    (pc[p] = "check" /\ before[p] = mtime /\ settled = mtime)
      => Tidy(contents[p]) /\ ~Changed(Output(contents[p], apply[p]), FALSE)

\* An unknown error that is not folded away with all that precedes a summary leaves
\* the file only in a rewrite whose other records are all well formed
\* (apply_message_repairs asks for no unrepaired issue; folding asks for nothing).
ErrorKeptUntilSound ==
  \A p \in Guardians : \A r \in contents[p] :
    (/\ pc[p] = "write"
     /\ r.kind = "unknown"
     /\ ~Folded(r, contents[p])
     /\ r.pos \notin {s.pos : s \in Output(contents[p], apply[p])})
      => \A s \in Output(contents[p], apply[p]) : s.shape = "sound"

\* No rewrite of the file goes ahead without a backup of what it replaces (the
\* safety model of the README).
RewriteBackedUp ==
  \A p \in Guardians :
    pc[p] = "write" => \E b \in backups \union current : contents[p] \subseteq b

\* In the end the counters of both databases stay below the trigger, however often
\* Codex wrote stale ones back and whichever repair failed (repair_databases).
DbConverges == <>[](stateTokens < TriggerTokens /\ goalTokens < TriggerTokens)

\* In the end the file has nothing left to prune but what a placeholder quotes: the
\* loop retries a pass that failed (last_seen = None) until one goes through.  Two
\* files may stay as they are: one that cannot be parsed, and one that the daemon
\* takes for clean because its fingerprint covers lines its pass never read.
EventuallyClean ==
  <>[](\/ torn # "no"
       \/ Tidy(rollout)
       \/ \E p \in overtaken : lastSeen[p] = mtime)
=============================================================================
