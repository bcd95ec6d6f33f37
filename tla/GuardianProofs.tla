--------------------------- MODULE GuardianProofs ---------------------------
(***************************************************************************)
(* Theorems about one cleaning pass, for every file and every record, and  *)
(* about Guardian, for all files, all lines Codex may append, all sets of  *)
(* Guardians where not said otherwise, and all bounds.                     *)
(***************************************************************************)
EXTENDS Guardian, TLAPS

-----------------------------------------------------------------------------
(* One pass *)

\* Cleaning a record leaves a record, at the same place and of the same kind.
LEMMA CleanedType ==
  ASSUME NEW r \in Record, NEW a \in BOOLEAN
  PROVE  /\ Cleaned(r, a) \in Record
         /\ Cleaned(r, a).pos = r.pos
         /\ Cleaned(r, a).kind = r.kind
         /\ Cleaned(r, a).bulk \in {"none", "quoted"}
<1>1. Repaired(r) \in Record /\ Repaired(r).pos = r.pos /\ Repaired(r).kind = r.kind
  BY DEF Repaired, Record, Kind, Shape, Bulk
<1>2. ASSUME NEW s \in Record
      PROVE  /\ Scrubbed(s) \in Record
             /\ Scrubbed(s).pos = s.pos
             /\ Scrubbed(s).kind = s.kind
             /\ Scrubbed(s).bulk \in {"none", "quoted"}
  BY DEF Scrubbed, Record, Kind, Shape, Bulk
<1>3. CASE a
  BY <1>1, <1>2, <1>3 DEF Cleaned
<1>4. CASE ~a
  BY <1>2, <1>4 DEF Cleaned
<1>5. QED
  BY <1>3, <1>4

\* The output of a pass is a file of records.
LEMMA OutputType ==
  ASSUME NEW F \in SUBSET Record, NEW a \in BOOLEAN
  PROVE  Output(F, a) \subseteq Record
BY CleanedType DEF Output

\* What the output holds is a cleaned surviving record of the input.
LEMMA OutputOrigin ==
  ASSUME NEW F \in SUBSET Record, NEW a \in BOOLEAN, NEW s \in Output(F, a)
  PROVE  \E r \in F : Survives(r, F, a) /\ s = Cleaned(r, a)
BY DEF Output

\* What a pass writes has nothing left to fold or to drop and nothing to prune but
\* what a placeholder quotes, and the next pass, whatever repairs it applies, leaves
\* nothing at all to a third without repairs (clean_rollout).
THEOREM TwoPassesSettle ==
  ASSUME NEW F \in SUBSET Record, NEW a \in BOOLEAN
  PROVE  /\ Tidy(Output(F, a))
         /\ Tidy(F) => ~Changed(Output(F, a), FALSE)
<1>1. \A s \in Output(F, a) :
        \E r \in F : r.kind # "alert" /\ s = Cleaned(r, a) /\ s.kind = r.kind
  BY OutputOrigin, CleanedType DEF Survives, Dropped
<1>2. Tidy(Output(F, a))
  BY <1>1, CleanedType DEF Tidy
<1>3. ASSUME Tidy(F) PROVE ~Changed(Output(F, a), FALSE)
  <2>1. ASSUME NEW r \in F PROVE Cleaned(r, a).bulk = "none"
    <3>1. r.bulk # "quoting" /\ Repaired(r).bulk = r.bulk
      BY <1>3 DEF Tidy, Repaired, Record
    <3>2. CASE a
      BY <3>1, <3>2 DEF Cleaned, Scrubbed, Repaired, Record
    <3>3. CASE ~a
      BY <3>1, <3>3 DEF Cleaned, Scrubbed, Record
    <3>4. QED
      BY <3>2, <3>3
  <2>2. \A s \in Output(F, a) : s.kind # "alert" /\ s.bulk = "none"
    BY <1>1, <2>1
  <2>3. \A s \in Output(F, a) : ~Folded(s, Output(F, a))
    BY <2>2 DEF Folded
  <2>4. QED
    BY <2>2, <2>3 DEF Changed, NeedsBackup
<1>4. QED
  BY <1>2, <1>3

\* What holds nothing to prune stays as it is.
LEMMA PlainStays ==
  ASSUME NEW r \in Record, r.bulk = "none"
  PROVE  Scrubbed(r) = r
<1>1. r.residue = r.shape
  BY DEF Record
<1>2. Scrubbed(r) = [r EXCEPT !.bulk = r.bulk, !.shape = r.shape]
  BY <1>1 DEF Scrubbed
<1>3. r \in [pos: Nat, kind: Kind, bulk: Bulk, shape: Shape, residue: Shape]
  BY DEF Record
<1>4. QED
  BY <1>2, <1>3

\* A pass that takes no backup rewrites no record: it only drops alerts.
THEOREM UnbackedKeepsRecords ==
  ASSUME NEW F \in SUBSET Record, NEW a \in BOOLEAN, ~NeedsBackup(F, a), NEW r \in F
  PROVE  r.kind = "alert" \/ r \in Output(F, a)
<1>1. SUFFICES ASSUME r.kind # "alert" PROVE r \in Output(F, a)
  OBVIOUS
<1>2. ~a /\ Survives(r, F, a) /\ r.bulk = "none"
  BY <1>1 DEF NeedsBackup, Survives, Dropped
<1>3. Cleaned(r, a) = r
  <2>1. Cleaned(r, a) = Scrubbed(r)
    BY <1>2 DEF Cleaned
  <2>2. QED
    BY <1>2, <2>1, PlainStays
<1>4. QED
  BY <1>2, <1>3 DEF Output

\* After message repairs were applied no malformed record is left.
THEOREM RepairLeavesSound ==
  ASSUME NEW F \in SUBSET Record, Repairable(F), NEW s \in Output(F, TRUE)
  PROVE  s.shape = "sound"
<1>1. PICK r \in F : s = Cleaned(r, TRUE)
  BY OutputOrigin
<1>2. r \in Record /\ r.shape \in {"sound", "fixable"}
  BY DEF Repairable, Record, Shape
<1>3. Repaired(r) \in Record /\ Repaired(r).residue = "sound"
  BY <1>2 DEF Repaired, Record, Kind, Shape
<1>4. QED
  BY <1>1, <1>3 DEF Cleaned, Scrubbed, Record

-----------------------------------------------------------------------------
(* Type correctness *)

LEMMA InitType == Init => TypeOK
BY GuardianAssumption DEF GuardianAssumption, Init, TypeOK, Guardians, PC

\* Renumbering a line gives a record.
LEMMA RenumberType ==
  ASSUME NEW t \in Record, NEW n \in Nat
  PROVE  [t EXCEPT !.pos = n] \in Record
BY DEF Record, Kind, Shape, Bulk

LEMMA CodexType == TypeOK /\ (Codex \/ Tick) => TypeOK'
<1> SUFFICES ASSUME TypeOK, Codex \/ Tick PROVE TypeOK'
  OBVIOUS
<1>1. CASE BeginLine
  BY <1>1 DEF BeginLine, TypeOK, backupVars, passVars, dbVars, history
<1>2. CASE FinishLine
  <2>1. PICK t \in Incoming :
          /\ log' = log \union {[t EXCEPT !.pos = nextPos]}
          /\ rollout' \subseteq rollout \union {[t EXCEPT !.pos = nextPos]}
          /\ torn' \in {torn, "line"}
    BY <1>2 DEF FinishLine
  <2>2. [t EXCEPT !.pos = nextPos] \in Record
    BY RenumberType, GuardianAssumption DEF GuardianAssumption, TypeOK
  <2>3. nextPos' \in Nat /\ mtime' \in Nat /\ forfeit' \subseteq Nat
    BY <1>2 DEF FinishLine, TypeOK
  <2>4. QED
    BY <1>2, <2>1, <2>2, <2>3
       DEF FinishLine, TypeOK, backupVars, passVars, dbVars
<1>3. CASE WriteBack
  BY <1>3, GuardianAssumption
     DEF GuardianAssumption, WriteBack, TypeOK, fileVars, backupVars, passVars, history
<1>4. CASE Tick
  BY <1>4 DEF Tick, NewSecond, TypeOK, fileVars, passVars, dbVars, history
<1>5. QED
  BY <1>1, <1>2, <1>3, <1>4 DEF Codex

\* Moving a Guardian to another step.
LEMMA GotoType ==
  ASSUME TypeOK, NEW p \in Guardians, NEW l \in PC, Goto(p, l)
  PROVE  pc' \in [Guardians -> PC]
BY DEF TypeOK, Goto

\* Where a pass that ends leaves its own variables.
LEMMA EndType ==
  ASSUME TypeOK, NEW p \in Guardians, PassFails(p) \/ PassReturns(p)
  PROVE  /\ pc' \in [Guardians -> PC]
         /\ before' \in [Guardians -> Nat]
         /\ contents' \in [Guardians -> SUBSET Record]
         /\ apply' \in [Guardians -> BOOLEAN]
<1>1. ForgetPass(p) /\ \E l \in PC : Goto(p, l)
  BY DEF PassFails, PassReturns, PC
<1>2. pc' \in [Guardians -> PC]
  BY <1>1, GotoType
<1>3. QED
  BY <1>1, <1>2 DEF ForgetPass, TypeOK

\* What an overwrite of the file leaves.
LEMMA OverwriteType ==
  ASSUME TypeOK, NEW W \in SUBSET Record, Overwrite(W)
  PROVE  /\ rollout' \subseteq Record
         /\ torn' \in {"no", "line", "tail"}
         /\ codex' \in {"idle", "midline", "headless"}
         /\ mtime' \in Nat
BY DEF TypeOK, Overwrite

LEMMA PassStepType ==
  ASSUME TypeOK, NEW p \in Guardians, PassStep(p)
  PROVE  TypeOK'
<1>1. CASE StatBefore(p)
  <2>1. pc' \in [Guardians -> PC]
    BY <1>1, GotoType DEF StatBefore, PC
  <2>2. QED
    BY <1>1, <2>1 DEF StatBefore, TypeOK, fileVars, backupVars, dbVars, history
<1>2. CASE Read(p)
  <2>1. pc' \in [Guardians -> PC]
    BY <1>2, GotoType DEF Read, PC
  <2>2. RepairVerdicts(rollout) \subseteq BOOLEAN
    BY DEF RepairVerdicts
  <2>3. contents' \in [Guardians -> SUBSET Record] /\ apply' \in [Guardians -> BOOLEAN]
    BY <1>2, <2>2 DEF Read, TypeOK
  <2>4. QED
    BY <1>2, <2>1, <2>3 DEF Read, TypeOK, fileVars, backupVars, dbVars, history
<1>3. CASE ReadTorn(p)
  BY <1>3, EndType DEF ReadTorn, PassFails, TypeOK, fileVars, backupVars, dbVars, history
<1>4. CASE CheckUnchanged(p)
  <2>1. PassReturns(p) /\ settled' \in Nat
    BY <1>4 DEF CheckUnchanged, TypeOK
  <2>2. QED
    BY <1>4, <2>1, EndType
       DEF CheckUnchanged, TypeOK, fileVars, backupVars, dbVars
<1>5. CASE CheckRaced(p)
  BY <1>5, EndType DEF CheckRaced, PassFails, TypeOK, fileVars, backupVars, dbVars, history
<1>6. CASE CheckPassed(p)
  <2>1. pc' \in [Guardians -> PC]
    BY <1>6, GotoType DEF CheckPassed, PC
  <2>2. QED
    BY <1>6, <2>1
       DEF CheckPassed, TypeOK, fileVars, backupVars, passVars, dbVars, history
<1>7. CASE Backup(p)
  <2>1. pc' \in [Guardians -> PC]
    BY <1>7, GotoType DEF Backup, PC
  <2>2. current' \subseteq SUBSET Record
    BY <1>7 DEF Backup, TypeOK
  <2>3. QED
    BY <1>7, <2>1, <2>2 DEF Backup, TypeOK, fileVars, passVars, dbVars, history
<1>8. CASE Truncate(p)
  <2>1. pc' \in [Guardians -> PC]
    BY <1>8, GotoType DEF Truncate, PC
  <2>2. QED
    BY <1>8, <2>1 DEF Truncate, TypeOK, backupVars, passVars, dbVars, history
<1>9. CASE Write(p)
  <2>1. Output(contents[p], apply[p]) \in SUBSET Record
    BY OutputType DEF TypeOK
  <2>2. /\ rollout' \subseteq Record
        /\ torn' \in {"no", "line", "tail"}
        /\ codex' \in {"idle", "midline", "headless"}
        /\ mtime' \in Nat
    BY <1>9, <2>1, OverwriteType DEF Write
  <2>3. PassReturns(p) /\ settled' \in Nat
    BY <1>9, <2>2 DEF Write, TypeOK
  <2>4. QED
    BY <1>9, <2>2, <2>3, EndType DEF Write, TypeOK, backupVars, dbVars
<1>10. QED
  BY <1>1, <1>2, <1>3, <1>4, <1>5, <1>6, <1>7, <1>8, <1>9 DEF PassStep

LEMMA LoopStepType ==
  ASSUME TypeOK, NEW p \in Guardians, LoopStep(p) \/ RunAgain(p)
  PROVE  TypeOK'
<1>1. pc' \in [Guardians -> PC]
  <2>1. \E l \in PC : Goto(p, l)
    BY DEF LoopStep, Poll, Seen, RepairStateDb, RepairGoalsDb, Wake, Restart, RunAgain, PC
  <2>2. QED
    BY <2>1, GotoType
<1>2. CASE Poll(p) \/ RunAgain(p)
  BY <1>1, <1>2
     DEF Poll, RunAgain, TypeOK, fileVars, backupVars, passVars, dbVars, history
<1>3. CASE Seen(p)
  BY <1>1, <1>3 DEF Seen, TypeOK, fileVars, backupVars, passVars, dbVars, history
<1>4. CASE RepairStateDb(p) \/ RepairGoalsDb(p)
  BY <1>1, <1>4, GuardianAssumption
     DEF GuardianAssumption, RepairStateDb, RepairGoalsDb, Lowered, TypeOK,
         fileVars, backupVars, passVars, history
<1>5. CASE Wake(p) \/ Restart(p)
  BY <1>1, <1>5
     DEF Wake, Restart, NewSecond, TypeOK, fileVars, backupVars, passVars, dbVars, history
<1>6. QED
  BY <1>2, <1>3, <1>4, <1>5 DEF LoopStep

\* A prefix of a file is part of it.
LEMMA PrefixPart ==
  ASSUME NEW F, NEW G \in Prefixes(F)
  PROVE  G \subseteq F
BY DEF Prefixes

LEMMA UnbackedType ==
  ASSUME TypeOK, NEW p \in Guardians
  PROVE  Unbacked(p) \subseteq Nat
<1>1. \A r \in contents[p] : r.pos \in Nat
  BY DEF TypeOK, Record
<1>2. QED
  BY <1>1 DEF Unbacked

LEMMA FailureType ==
  ASSUME TypeOK, NEW p \in Guardians, Failure(p)
  PROVE  TypeOK'
<1>1. faults' \in 0..MaxFaults
  BY GuardianAssumption
     DEF GuardianAssumption, Failure, StatFails, StepFails, BackupFails, WriteFails,
         DbFails, Crash, Fault, TypeOK
<1>2. CASE StatFails(p) \/ StepFails(p)
  <2>1. PassFails(p) /\ UNCHANGED <<fileVars, backupVars, dbVars, history>>
    BY <1>2 DEF StatFails, StepFails
  <2>2. QED
    BY <1>1, <2>1, EndType
       DEF PassFails, TypeOK, fileVars, backupVars, dbVars, history
<1>3. CASE BackupFails(p)
  <2>1. current' \subseteq SUBSET Record
    BY <1>3, PrefixPart DEF BackupFails, TypeOK
  <2>2. QED
    BY <1>1, <1>3, <2>1, EndType
       DEF BackupFails, PassFails, TypeOK, fileVars, dbVars, history
<1>4. CASE WriteFails(p)
  <2>1. PICK W \in Prefixes(Output(contents[p], apply[p])) :
          \/ Overwrite(W)
          \/ rollout' = W /\ torn' = "tail" /\ codex' = codex /\ mtime' = mtime + 1
    BY <1>4 DEF WriteFails
  <2>2. W \in SUBSET Record
    BY PrefixPart, OutputType DEF TypeOK
  <2>3. /\ rollout' \subseteq Record
        /\ torn' \in {"no", "line", "tail"}
        /\ codex' \in {"idle", "midline", "headless"}
        /\ mtime' \in Nat
    BY <2>1, <2>2, OverwriteType DEF TypeOK
  <2>4. forfeit' \subseteq Nat
    BY <1>4, UnbackedType DEF WriteFails, TypeOK
  <2>5. QED
    BY <1>1, <1>4, <2>3, <2>4, EndType DEF WriteFails, PassFails, TypeOK, backupVars, dbVars
<1>5. CASE DbFails(p)
  <2>1. pc' \in [Guardians -> PC]
    BY <1>5, GotoType DEF DbFails, PC
  <2>2. QED
    BY <1>1, <1>5, <2>1 DEF DbFails, TypeOK, fileVars, backupVars, passVars, dbVars, history
<1>6. CASE Crash(p)
  <2>1. pc' \in [Guardians -> PC]
    BY <1>6, GotoType DEF Crash, PC
  <2>2. forfeit' \subseteq Nat
    BY <1>6, UnbackedType DEF Crash, TypeOK
  <2>3. QED
    BY <1>1, <1>6, <2>1, <2>2
       DEF Crash, ForgetPass, TypeOK, fileVars, backupVars, dbVars
<1>7. QED
  BY <1>2, <1>3, <1>4, <1>5, <1>6 DEF Failure

LEMMA NextType == TypeOK /\ [Next]_vars => TypeOK'
<1>1. ASSUME TypeOK, UNCHANGED vars PROVE TypeOK'
  BY <1>1
     DEF TypeOK, vars, fileVars, backupVars, passVars, dbVars, history
<1>2. QED
  BY <1>1, CodexType, PassStepType, LoopStepType, FailureType DEF Next

\* Every variable keeps its type, however the processes interleave.
THEOREM TypeCorrect == Spec => []TypeOK
BY InitType, NextType, PTL DEF Spec

-----------------------------------------------------------------------------
(* What a Guardian may rely on once the version check has passed *)

\* The check at the end of a pass is sound: as long as the version is the one that
\* was noted before the file was read, the file is what was read (clean_rollout).
CheckIsSound ==
  \A p \in Guardians :
    /\ pc[p] \in {"read", "check"} => before[p] =< mtime
    /\ (pc[p] = "check" /\ before[p] = mtime) => contents[p] = rollout

\* Whoever writes the file gives it a new version.
LEMMA VersionsGrow ==
  ASSUME TypeOK, [Next]_vars
  PROVE  /\ mtime =< mtime'
         /\ mtime' = mtime => rollout' = rollout
<1> USE DEF TypeOK
<1>1. CASE BeginLine \/ FinishLine
  BY <1>1 DEF BeginLine, FinishLine
<1>2. CASE WriteBack \/ Tick \/ UNCHANGED vars
  BY <1>2 DEF WriteBack, Tick, vars, fileVars
<1>3. ASSUME NEW p \in Guardians, PassStep(p)
      PROVE  /\ mtime =< mtime'
             /\ mtime' = mtime => rollout' = rollout
  BY <1>3
     DEF PassStep, StatBefore, Read, ReadTorn, CheckUnchanged, CheckRaced, CheckPassed,
         Backup, Truncate, Write, Overwrite, fileVars
<1>4. ASSUME NEW p \in Guardians, LoopStep(p) \/ RunAgain(p)
      PROVE  /\ mtime =< mtime'
             /\ mtime' = mtime => rollout' = rollout
  BY <1>4
     DEF LoopStep, Poll, Seen, RepairStateDb, RepairGoalsDb, Wake, Restart, RunAgain, fileVars
<1>5. ASSUME NEW p \in Guardians, Failure(p)
      PROVE  /\ mtime =< mtime'
             /\ mtime' = mtime => rollout' = rollout
  BY <1>5
     DEF Failure, StatFails, StepFails, BackupFails, WriteFails, Overwrite, DbFails, Crash, fileVars
<1>6. QED
  BY <1>1, <1>2, <1>3, <1>4, <1>5 DEF Next, Codex

\* How a step changes what a Guardian knows of the file: it notes the version, it
\* reads, it goes on as it was, or it is not about to check.
LEMMA PassMoves ==
  ASSUME TypeOK, [Next]_vars, NEW q \in Guardians
  PROVE  \/ /\ pc'[q] = "read" /\ before'[q] = mtime /\ mtime' = mtime
            /\ contents'[q] = contents[q] /\ apply'[q] = apply[q]
         \/ /\ pc[q] = "read" /\ pc'[q] = "check" /\ before'[q] = before[q]
            /\ contents'[q] = rollout /\ apply'[q] \in RepairVerdicts(rollout)
            /\ rollout' = rollout /\ mtime' = mtime
         \/ /\ pc'[q] = pc[q] /\ before'[q] = before[q]
            /\ contents'[q] = contents[q] /\ apply'[q] = apply[q]
         \/ /\ pc'[q] \notin {"read", "check", "backup", "truncate", "write"}
            /\ \/ contents'[q] = contents[q] /\ apply'[q] = apply[q]
               \/ contents'[q] = {} /\ apply'[q] = FALSE
         \/ /\ <<pc[q], pc'[q]>> \in {<<"check", "backup">>, <<"backup", "truncate">>,
                                    <<"truncate", "write">>}
            /\ contents'[q] = contents[q] /\ apply'[q] = apply[q]
<1> USE DEF TypeOK
<1>1. CASE Codex \/ Tick \/ UNCHANGED vars
  BY <1>1
     DEF Codex, BeginLine, FinishLine, WriteBack, Tick, vars, passVars
<1>2. ASSUME NEW p \in Guardians, p # q, PassStep(p) \/ LoopStep(p) \/ RunAgain(p) \/ Failure(p)
      PROVE  /\ pc'[q] = pc[q] /\ before'[q] = before[q]
             /\ contents'[q] = contents[q] /\ apply'[q] = apply[q]
  <2>1. CASE PassStep(p)
    BY <1>2, <2>1
       DEF PassStep, StatBefore, Read, ReadTorn, CheckUnchanged, CheckRaced, CheckPassed,
           Backup, Truncate, Write, PassFails, PassReturns, ForgetPass, Goto, passVars
  <2>2. CASE LoopStep(p) \/ RunAgain(p)
    BY <1>2, <2>2
       DEF LoopStep, Poll, Seen, RepairStateDb, RepairGoalsDb, Wake, Restart, RunAgain,
           Goto, passVars
  <2>3. CASE Failure(p)
    BY <1>2, <2>3
       DEF Failure, StatFails, StepFails, BackupFails, WriteFails, DbFails, Crash,
           PassFails, ForgetPass, Goto, passVars
  <2>4. QED
    BY <1>2, <2>1, <2>2, <2>3
<1>3. CASE StatBefore(q)
  BY <1>3 DEF StatBefore, Goto, fileVars
<1>4. CASE Read(q)
  BY <1>4 DEF Read, Goto, fileVars
<1>5. CASE CheckPassed(q) \/ Backup(q) \/ Truncate(q)
  BY <1>5 DEF CheckPassed, Backup, Truncate, Goto, passVars
<1>6. CASE ReadTorn(q) \/ CheckUnchanged(q) \/ CheckRaced(q) \/ Write(q)
  BY <1>6
     DEF ReadTorn, CheckUnchanged, CheckRaced, Write, PassFails, PassReturns, ForgetPass, Goto
<1>7. CASE LoopStep(q) \/ RunAgain(q)
  <2>1. contents' = contents /\ apply' = apply
    BY <1>7
       DEF LoopStep, Poll, Seen, RepairStateDb, RepairGoalsDb, Wake, Restart, RunAgain, passVars
  <2>2. \E l \in {"before", "state_db", "goals_db", "sleep", "exit", "poll"} : Goto(q, l)
    BY <1>7 DEF LoopStep, Poll, Seen, RepairStateDb, RepairGoalsDb, Wake, Restart, RunAgain
  <2>3. pc'[q] \notin {"read", "check", "backup", "truncate", "write"}
    BY <2>2 DEF Goto
  <2>4. contents'[q] = contents[q] /\ apply'[q] = apply[q]
    BY <2>1
  <2>5. QED
    BY <2>3, <2>4
<1>8. CASE Failure(q)
  <2>1. \E l \in {"state_db", "exit", "sleep", "down"} : Goto(q, l)
    BY <1>8
       DEF Failure, StatFails, StepFails, BackupFails, WriteFails, DbFails, Crash, PassFails
  <2>2. ForgetPass(q) \/ UNCHANGED passVars
    BY <1>8
       DEF Failure, StatFails, StepFails, BackupFails, WriteFails, DbFails, Crash, PassFails
  <2>3. pc'[q] \notin {"read", "check", "backup", "truncate", "write"}
    BY <2>1 DEF Goto
  <2>4. \/ contents'[q] = contents[q] /\ apply'[q] = apply[q]
        \/ contents'[q] = {} /\ apply'[q] = FALSE
    BY <2>2 DEF ForgetPass, passVars
  <2>5. QED
    BY <2>3, <2>4
<1>9. QED
  BY <1>1, <1>2, <1>3, <1>4, <1>5, <1>6, <1>7, <1>8 DEF Next, PassStep

\* What a Guardian holds of the file is what it held, nothing, or the file itself.
LEMMA ContentsMove ==
  ASSUME TypeOK, [Next]_vars, NEW q \in Guardians
  PROVE  \/ contents'[q] = contents[q] /\ apply'[q] = apply[q]
         \/ contents'[q] = {} /\ apply'[q] = FALSE
         \/ contents'[q] = rollout /\ apply'[q] \in RepairVerdicts(rollout)
BY PassMoves

LEMMA CheckIsSoundStep == TypeOK /\ CheckIsSound /\ [Next]_vars => CheckIsSound'
<1> SUFFICES ASSUME TypeOK, CheckIsSound, [Next]_vars, NEW q \in Guardians
             PROVE  /\ pc'[q] \in {"read", "check"} => before'[q] =< mtime'
                    /\ (pc'[q] = "check" /\ before'[q] = mtime') => contents'[q] = rollout'
  BY DEF CheckIsSound
<1>1. mtime \in Nat /\ mtime' \in Nat /\ before[q] \in Nat
  BY NextType DEF TypeOK
<1>2. mtime =< mtime' /\ (mtime' = mtime => rollout' = rollout)
  BY VersionsGrow
<1>3. /\ pc[q] \in {"read", "check"} => before[q] =< mtime
      /\ (pc[q] = "check" /\ before[q] = mtime) => contents[q] = rollout
  BY DEF CheckIsSound
<1>4. CASE pc'[q] = "read" /\ before'[q] = mtime /\ mtime' = mtime
  BY <1>1, <1>4
<1>5. CASE /\ pc[q] = "read" /\ pc'[q] = "check" /\ before'[q] = before[q]
           /\ contents'[q] = rollout /\ rollout' = rollout /\ mtime' = mtime
  BY <1>1, <1>3, <1>5
<1>6. CASE pc'[q] = pc[q] /\ before'[q] = before[q] /\ contents'[q] = contents[q]
  BY <1>1, <1>2, <1>3, <1>6
<1>7. CASE pc'[q] \notin {"read", "check"}
  BY <1>7
<1>8. QED
  BY <1>4, <1>5, <1>6, <1>7, PassMoves

THEOREM CheckSoundness == Spec => []CheckIsSound
<1>1. Init => CheckIsSound
  BY DEF Init, CheckIsSound
<1>2. QED
  BY <1>1, TypeCorrect, CheckIsSoundStep, PTL DEF Spec

-----------------------------------------------------------------------------
(* Message repairs *)

\* Only a file whose malformed records can all be repaired is repaired.
RepairsSupported == \A p \in Guardians : apply[p] => Repairable(contents[p])

LEMMA RepairsSupportedStep == TypeOK /\ RepairsSupported /\ [Next]_vars => RepairsSupported'
<1> SUFFICES ASSUME TypeOK, RepairsSupported, [Next]_vars, NEW q \in Guardians, apply'[q]
             PROVE  Repairable(contents'[q])
  BY DEF RepairsSupported
<1>1. apply[q] => Repairable(contents[q])
  BY DEF RepairsSupported
<1>2. CASE contents'[q] = rollout /\ apply'[q] \in RepairVerdicts(rollout)
  BY <1>2 DEF RepairVerdicts
<1>3. CASE contents'[q] = contents[q] /\ apply'[q] = apply[q]
  BY <1>1, <1>3, Zenon
<1>4. apply'[q] # FALSE
  BY Zenon
<1>5. QED
  BY <1>2, <1>3, <1>4, ContentsMove, Zenon

\* An unknown task error that is not folded away leaves the file only in a rewrite
\* that leaves no malformed record behind, whatever the probe, the capture and the
\* other processes do.
THEOREM ErrorsKept == Spec => []ErrorKeptUntilSound
<1>1. Init => RepairsSupported
  BY DEF Init, RepairsSupported
<1>2. TypeOK /\ RepairsSupported => ErrorKeptUntilSound
  <2> SUFFICES ASSUME TypeOK, RepairsSupported,
                      NEW p \in Guardians, NEW r \in contents[p],
                      r.kind = "unknown",
                      ~Folded(r, contents[p]),
                      r.pos \notin {s.pos : s \in Output(contents[p], apply[p])},
                      NEW s \in Output(contents[p], apply[p])
               PROVE  s.shape = "sound"
    BY DEF ErrorKeptUntilSound
  <2>1. contents[p] \in SUBSET Record /\ apply[p] \in BOOLEAN /\ r \in Record
    BY DEF TypeOK
  <2>2. CASE ~apply[p]
    <3>1. Survives(r, contents[p], apply[p])
      BY <2>2 DEF Survives, Dropped
    <3>2. Cleaned(r, apply[p]) \in Output(contents[p], apply[p])
      BY <3>1 DEF Output
    <3>3. Cleaned(r, apply[p]).pos = r.pos
      BY <2>1, CleanedType
    <3>4. QED
      BY <3>2, <3>3
  <2>3. CASE apply[p]
    <3>1. apply[p] = TRUE /\ Repairable(contents[p])
      BY <2>1, <2>3 DEF RepairsSupported
    <3>2. QED
      BY <2>1, <3>1, RepairLeavesSound
  <2>4. QED
    BY <2>2, <2>3
<1>3. QED
  BY <1>1, <1>2, TypeCorrect, RepairsSupportedStep, PTL DEF Spec

-----------------------------------------------------------------------------
(* A second pass only tidies up what the first one wrote *)

\* The file that an undisturbed pass left behind, until somebody writes to it.
SettledInv ==
  /\ settled =< mtime
  /\ settled = mtime => Tidy(rollout)

LEMMA SettledMoves ==
  ASSUME TypeOK, [Next]_vars
  PROVE  settled' = settled \/ \E p \in Guardians : CheckUnchanged(p) \/ Write(p)
BY DEF Next, Codex, BeginLine, FinishLine, WriteBack, Tick, PassStep, StatBefore, Read,
       ReadTorn, CheckRaced, CheckPassed, Backup, Truncate, LoopStep, Poll, Seen,
       RepairStateDb, RepairGoalsDb, Wake, Restart, RunAgain, Failure, StatFails,
       StepFails, BackupFails, WriteFails, DbFails, Crash, vars, history

\* A pass that finds nothing to change has read a tidy file.
LEMMA UnchangedIsTidy ==
  ASSUME NEW F \in SUBSET Record, NEW a \in BOOLEAN, ~Changed(F, a)
  PROVE  Tidy(F)
BY DEF Changed, NeedsBackup, Survives, Dropped, Tidy

LEMMA SettledStep == TypeOK /\ CheckIsSound /\ SettledInv /\ [Next]_vars => SettledInv'
<1> SUFFICES ASSUME TypeOK, CheckIsSound, SettledInv, [Next]_vars PROVE SettledInv'
  OBVIOUS
<1>1. /\ mtime \in Nat /\ mtime' \in Nat /\ settled \in Nat /\ mtime =< mtime'
      /\ mtime' = mtime => rollout' = rollout
  BY NextType, VersionsGrow DEF TypeOK
<1>2. CASE settled' = settled
  <2>1. settled =< mtime /\ (settled = mtime => Tidy(rollout))
    BY DEF SettledInv
  <2>2. settled' =< mtime' /\ (settled' = mtime' => settled = mtime /\ mtime' = mtime)
    BY <1>1, <1>2, <2>1
  <2>3. settled' = mtime' => Tidy(rollout')
    BY <1>1, <2>1, <2>2, Zenon
  <2>4. QED
    BY <2>2, <2>3 DEF SettledInv
<1>3. ASSUME NEW p \in Guardians, CheckUnchanged(p) PROVE SettledInv'
  <2>1. /\ settled' = before[p] /\ mtime' = mtime /\ rollout' = rollout
        /\ before[p] =< mtime
        /\ before[p] = mtime => contents[p] = rollout
    BY <1>3 DEF CheckUnchanged, CheckIsSound, fileVars
  <2>2. Tidy(contents[p])
    BY <1>3, UnchangedIsTidy DEF CheckUnchanged, TypeOK
  <2>3. settled' = mtime' => Tidy(rollout')
    BY <2>1, <2>2, Zenon
  <2>4. settled' =< mtime'
    BY <2>1
  <2>5. QED
    BY <2>3, <2>4 DEF SettledInv
<1>4. ASSUME NEW p \in Guardians, Write(p), settled' # settled PROVE SettledInv'
  <2>1. settled' = mtime' /\ rollout = {}
    BY <1>4 DEF Write
  <2>2. rollout' = Output(contents[p], apply[p])
    BY <1>4, <2>1 DEF Write, Overwrite
  <2>3. Tidy(rollout')
    BY <2>2, TwoPassesSettle DEF TypeOK
  <2>4. settled' =< mtime'
    BY <1>1, <2>1
  <2>5. QED
    BY <2>3, <2>4 DEF SettledInv
<1>5. QED
  BY <1>2, <1>3, <1>4, SettledMoves

\* A pass over a file that nobody has touched since an undisturbed pass folds nothing,
\* drops no alert, prunes at most what a placeholder quotes, and leaves nothing of the
\* kind to a third, for any number of Guardians and whatever repairs they apply.
THEOREM SecondPassOnlySettles == Spec => []SecondPassSettles
<1>1. Init => SettledInv
  BY GuardianAssumption DEF Init, SettledInv
<1>2. TypeOK /\ CheckIsSound /\ SettledInv => SecondPassSettles
  <2> SUFFICES ASSUME TypeOK, CheckIsSound, SettledInv, NEW p \in Guardians,
                      pc[p] = "check", before[p] = mtime, settled = mtime
               PROVE  Tidy(contents[p]) /\ ~Changed(Output(contents[p], apply[p]), FALSE)
    BY DEF SecondPassSettles
  <2>1. Tidy(rollout) /\ contents[p] = rollout
    BY DEF CheckIsSound, SettledInv
  <2>2. Tidy(contents[p])
    BY <2>1, Zenon
  <2>3. QED
    BY <2>2, TwoPassesSettle DEF TypeOK
<1>3. QED
  BY <1>1, <1>2, TypeCorrect, CheckSoundness, SettledStep, PTL DEF Spec

-----------------------------------------------------------------------------
(* A lone daemon loses nothing outside the known windows *)

\* What the file, the backups and the daemon d are to each other at every step of
\* a rewrite: the backup of this second is still to be made until the pass makes
\* it; from then on all that is about to be truncated or overwritten is either in
\* a backup, in the daemon's hands, or forfeited.
RewriteInv(d) ==
  /\ pc[d] # "exit"
  /\ pc[d] \in {"poll", "before", "read", "check", "backup"} => current = {}
  /\ pc[d] = "backup" =>
       /\ contents[d] \subseteq rollout
       /\ \A r \in rollout : \/ r \in contents[d]
                              \/ r.pos \in forfeit
                              \/ NeedsBackup(contents[d], apply[d])
  /\ pc[d] = "truncate" =>
       \A r \in rollout : r \in contents[d] \/ r.pos \in forfeit \/ Saved(r)
  /\ (pc[d] \in {"truncate", "write"} /\ NeedsBackup(contents[d], apply[d])) =>
       \E b \in backups \union current : contents[d] \subseteq b
  /\ pc[d] = "write" => \A r \in rollout : r.pos \in forfeit

LoneInv(d) == RewriteInv(d) /\ NothingLost

\* A step that takes nothing away and does not move a rewrite keeps everything.
LEMMA LoneQuietStep ==
  ASSUME NEW d, Guardians = {d}, LoneInv(d),
         rollout' = rollout, log' = log, forfeit \subseteq forfeit',
         backups' \union current' = backups \union current,
         \/ /\ pc'[d] = pc[d] /\ contents'[d] = contents[d] /\ apply'[d] = apply[d]
            /\ current' = current \/ current' = {}
         \/ /\ pc[d] # "write"
            /\ pc'[d] \in {"seen", "state_db", "goals_db", "sleep", "down"}
         \/ /\ pc[d] # "write"
            /\ pc'[d] \in {"poll", "before", "read", "check"}
            /\ current' = {}
  PROVE  LoneInv(d)'
<1>1. \A r : Saved(r)' <=> Saved(r)
  BY DEF Saved
<1>2. RewriteInv(d)'
  BY <1>1 DEF LoneInv, RewriteInv, Saved
<1>3. NothingLost'
  <2>1. \A r : InFlight(r, d) => InFlight(r, d)'
    BY DEF InFlight
  <2>2. \A r : Kept(r) => Kept(r)'
    BY <1>1, <2>1 DEF Kept
  <2>3. QED
    BY <2>2 DEF LoneInv, NothingLost
<1>4. QED
  BY <1>2, <1>3 DEF LoneInv

LEMMA LoneCodexStep ==
  ASSUME NEW d, Guardians = {d}, TypeOK, LoneInv(d), Codex \/ Tick
  PROVE  LoneInv(d)'
<1>1. CASE BeginLine \/ WriteBack \/ Tick
  BY <1>1, LoneQuietStep
     DEF BeginLine, WriteBack, Tick, NewSecond, fileVars, backupVars, passVars, history
<1>2. CASE FinishLine
  <2>1. \E t \in Incoming : \E r :
          /\ r = [t EXCEPT !.pos = nextPos]
          /\ log' = log \union {r}
          /\ \/ codex = "midline" /\ rollout' = rollout \union {r}
             \/ codex = "headless" /\ rollout' = rollout
    BY <1>2 DEF FinishLine, TypeOK
  <2>2. PICK new :
          /\ new.pos = nextPos
          /\ log' = log \union {new}
          /\ \/ codex = "midline" /\ rollout' = rollout \union {new}
             \/ codex = "headless" /\ rollout' = rollout
    BY <2>1, GuardianAssumption DEF GuardianAssumption, Record
  <2>3. /\ UNCHANGED <<pc, contents, apply, backups, current>>
        /\ forfeit \subseteq forfeit'
        /\ codex = "headless" \/ Unwatched(d) => new.pos \in forfeit'
    BY <1>2, <2>2 DEF FinishLine, backupVars, passVars
  <2>4. \A r : Saved(r) => Saved(r)'
    BY <2>3 DEF Saved
  <2>5. RewriteInv(d)'
    BY <2>2, <2>3, <2>4 DEF LoneInv, RewriteInv, Unwatched
  <2>6. \A r : InFlight(r, d) => InFlight(r, d)'
    BY <2>3 DEF InFlight
  <2>7. \A r : Kept(r) => Kept(r)'
    BY <2>2, <2>4, <2>6 DEF Kept
  <2>8. new.pos \in forfeit' \/ Kept(new)'
    BY <2>2, <2>3 DEF Kept
  <2>9. NothingLost'
    BY <2>2, <2>3, <2>7, <2>8 DEF LoneInv, NothingLost
  <2>10. QED
    BY <2>5, <2>9 DEF LoneInv
<1>3. QED
  BY <1>1, <1>2 DEF Codex

LEMMA LonePassStep ==
  ASSUME NEW d, Daemons = {d}, Guardians = {d}, TypeOK, CheckIsSound, LoneInv(d), PassStep(d)
  PROVE  LoneInv(d)'
<1> USE DEF TypeOK
<1>1. CASE StatBefore(d) \/ Read(d)
  <2>1. pc[d] \in {"before", "read"} /\ pc'[d] \in {"read", "check"} /\ current = {}
    BY <1>1 DEF StatBefore, Read, Goto, LoneInv, RewriteInv
  <2>2. QED
    BY <1>1, <2>1, LoneQuietStep
       DEF StatBefore, Read, fileVars, backupVars, history
<1>2. CASE ReadTorn(d) \/ CheckUnchanged(d) \/ CheckRaced(d)
  <2>1. pc[d] \in {"read", "check"} /\ pc'[d] \in {"state_db", "seen"}
    BY <1>2 DEF ReadTorn, CheckUnchanged, CheckRaced, PassFails, PassReturns, Goto
  <2>2. QED
    BY <1>2, <2>1, LoneQuietStep
       DEF ReadTorn, CheckUnchanged, CheckRaced, fileVars, backupVars, history
<1>3. CASE CheckPassed(d)
  <2>1. /\ pc'[d] = "backup" /\ pc[d] = "check"
        /\ UNCHANGED <<rollout, contents, apply, backups, current, log, forfeit>>
    BY <1>3 DEF CheckPassed, Goto, fileVars, passVars, backupVars, history
  <2>2. contents[d] = rollout
    BY <1>3 DEF CheckPassed, CheckIsSound
  <2>3. RewriteInv(d)'
    BY <2>1, <2>2 DEF LoneInv, RewriteInv
  <2>4. \A r : Kept(r) => Kept(r)'
    BY <2>1 DEF Kept, Saved, InFlight
  <2>5. QED
    BY <2>1, <2>3, <2>4 DEF LoneInv, NothingLost
<1>4. CASE Backup(d)
  <2>1. /\ pc'[d] = "truncate" /\ pc[d] = "backup" /\ current = {}
        /\ UNCHANGED <<rollout, contents, apply, backups, log, forfeit>>
        /\ current' = IF NeedsBackup(contents[d], apply[d]) THEN {rollout} ELSE current
    BY <1>4 DEF Backup, Goto, fileVars, passVars, history, LoneInv, RewriteInv
  <2>2. \A r \in rollout : r \in contents[d] \/ r.pos \in forfeit \/ Saved(r)'
    BY <2>1 DEF LoneInv, RewriteInv, Saved
  <2>3. NeedsBackup(contents[d], apply[d]) =>
          \E b \in backups' \union current' : contents[d] \subseteq b
    BY <2>1 DEF LoneInv, RewriteInv
  <2>4. RewriteInv(d)'
    BY <2>1, <2>2, <2>3 DEF RewriteInv
  <2>5. \A r : Kept(r) => Kept(r)'
    BY <2>1 DEF Kept, Saved, InFlight
  <2>6. QED
    BY <2>1, <2>4, <2>5 DEF LoneInv, NothingLost
<1>5. CASE Truncate(d)
  <2>1. /\ pc'[d] = "write" /\ pc[d] = "truncate" /\ rollout' = {}
        /\ UNCHANGED <<contents, apply, backups, current, log, forfeit>>
    BY <1>5 DEF Truncate, Goto, passVars, backupVars, history
  <2>2. \A r : Saved(r) => Saved(r)'
    BY <2>1 DEF Saved
  <2>3. RewriteInv(d)'
    BY <2>1 DEF LoneInv, RewriteInv
  <2>4. \A r \in contents[d] : r.kind = "alert" \/ Saved(r) \/ InFlight(r, d)'
    <3>1. CASE NeedsBackup(contents[d], apply[d])
      BY <2>1, <3>1 DEF LoneInv, RewriteInv, Saved
    <3>2. CASE ~NeedsBackup(contents[d], apply[d])
      BY <2>1, <3>2, UnbackedKeepsRecords DEF InFlight
    <3>3. QED
      BY <3>1, <3>2
  <2>5. \A r : Kept(r) => r \in rollout \/ Saved(r)
    BY <2>1 DEF Kept, InFlight
  <2>6. \A r : r \in rollout => r \in contents[d] \/ r.pos \in forfeit \/ Saved(r)
    BY <2>1 DEF LoneInv, RewriteInv
  <2>7. NothingLost'
    BY <2>1, <2>2, <2>4, <2>5, <2>6 DEF LoneInv, NothingLost, Kept
  <2>8. QED
    BY <2>3, <2>7 DEF LoneInv
<1>6. CASE Write(d)
  <2>1. /\ pc'[d] = "seen" /\ pc[d] = "write"
        /\ Output(contents[d], apply[d]) \subseteq rollout'
        /\ UNCHANGED <<backups, current, log, forfeit>>
    BY <1>6 DEF Write, Overwrite, PassReturns, Goto, backupVars
  <2>2. RewriteInv(d)'
    BY <2>1 DEF RewriteInv
  <2>3. \A r : Kept(r) => r.pos \in forfeit \/ Kept(r)'
    BY <2>1 DEF Kept, Saved, InFlight, LoneInv, RewriteInv
  <2>4. QED
    BY <2>1, <2>2, <2>3 DEF LoneInv, NothingLost
<1>7. QED
  BY <1>1, <1>2, <1>3, <1>4, <1>5, <1>6 DEF PassStep

LEMMA LoneLoopStep ==
  ASSUME NEW d, Daemons = {d}, OneShots = {}, Guardians = {d}, ShortInterval = FALSE,
         TypeOK, LoneInv(d), LoopStep(d) \/ RunAgain(d)
  PROVE  LoneInv(d)'
<1> USE DEF TypeOK
<1>1. CASE Poll(d)
  <2>1. /\ pc[d] = "poll" /\ current = {}
        /\ pc'[d] \in {"before", "state_db"}
        /\ UNCHANGED <<rollout, backups, current, log, forfeit>>
    BY <1>1 DEF Poll, Goto, fileVars, backupVars, history, LoneInv, RewriteInv
  <2>2. QED
    BY <2>1, LoneQuietStep
<1>2. CASE Seen(d) \/ RepairStateDb(d) \/ RepairGoalsDb(d)
  <2>1. /\ pc[d] \in {"seen", "state_db", "goals_db"}
        /\ pc'[d] \in {"state_db", "goals_db", "sleep"}
    BY <1>2 DEF Seen, RepairStateDb, RepairGoalsDb, Goto
  <2>2. UNCHANGED <<rollout, backups, current, log, forfeit>>
    BY <1>2 DEF Seen, RepairStateDb, RepairGoalsDb, fileVars, backupVars, history
  <2>3. QED
    BY <2>1, <2>2, LoneQuietStep
<1>3. CASE Wake(d) \/ Restart(d)
  <2>1. /\ pc[d] \in {"sleep", "down"} /\ pc'[d] = "poll"
        /\ NewSecond
        /\ UNCHANGED <<rollout, log, forfeit>>
    BY <1>3 DEF Wake, Restart, Goto, fileVars, history
  <2>2. QED
    BY <2>1, LoneQuietStep DEF NewSecond
<1>4. CASE RunAgain(d)
  BY <1>4 DEF RunAgain, LoneInv, RewriteInv
<1>5. QED
  BY <1>1, <1>2, <1>3, <1>4 DEF LoopStep

LEMMA LoneFailure ==
  ASSUME NEW d, Daemons = {d}, Guardians = {d}, TypeOK, LoneInv(d), Failure(d)
  PROVE  LoneInv(d)'
<1> USE DEF TypeOK
<1>1. CASE StatFails(d) \/ StepFails(d) \/ DbFails(d)
  <2>1. pc[d] # "write" /\ pc'[d] \in {"state_db", "sleep"}
    BY <1>1 DEF StatFails, StepFails, DbFails, PassFails, Goto
  <2>2. UNCHANGED <<rollout, backups, current, log, forfeit>>
    BY <1>1 DEF StatFails, StepFails, DbFails, fileVars, backupVars, history
  <2>3. QED
    BY <2>1, <2>2, LoneQuietStep
<1>2. CASE BackupFails(d)
  <2>1. /\ pc[d] = "backup" /\ pc'[d] = "state_db" /\ current = {}
        /\ UNCHANGED <<rollout, backups, log, forfeit>>
    BY <1>2 DEF BackupFails, PassFails, Goto, fileVars, history, LoneInv, RewriteInv
  <2>2. RewriteInv(d)'
    BY <2>1 DEF RewriteInv
  <2>3. \A r : Kept(r) => Kept(r)'
    BY <2>1 DEF Kept, Saved, InFlight
  <2>4. QED
    BY <2>1, <2>2, <2>3 DEF LoneInv, NothingLost
<1>3. CASE WriteFails(d) \/ (Crash(d) /\ pc[d] = "write")
  <2>1. /\ pc[d] = "write" /\ pc'[d] \in {"state_db", "down"}
        /\ UNCHANGED <<backups, current, log>>
        /\ forfeit' = forfeit \union Unbacked(d)
    BY <1>3 DEF WriteFails, Crash, PassFails, Goto, backupVars
  <2>2. RewriteInv(d)'
    BY <2>1 DEF RewriteInv
  <2>3. \A r : InFlight(r, d) => r.pos \in forfeit'
    <3>1. SUFFICES ASSUME NEW r, InFlight(r, d) PROVE r.pos \in Unbacked(d)
      BY <2>1
    <3>2. PICK s \in contents[d] : r = Cleaned(s, apply[d])
      BY <3>1, OutputOrigin DEF InFlight
    <3>3. r.pos = s.pos
      BY <3>2, CleanedType
    <3>4. QED
      BY <3>1, <3>3 DEF InFlight, Unbacked
  <2>4. \A r : Kept(r) => r.pos \in forfeit' \/ Kept(r)'
    BY <2>1, <2>3 DEF Kept, Saved, LoneInv, RewriteInv
  <2>5. QED
    BY <2>1, <2>2, <2>4 DEF LoneInv, NothingLost
<1>4. CASE Crash(d) /\ pc[d] # "write"
  <2>1. pc'[d] = "down" /\ UNCHANGED <<rollout, backups, current, log, forfeit>>
    BY <1>4 DEF Crash, Goto, fileVars, backupVars
  <2>2. QED
    BY <1>4, <2>1, LoneQuietStep
<1>5. QED
  BY <1>1, <1>2, <1>3, <1>4 DEF Failure

LEMMA LoneInvariant ==
  ASSUME NEW d, Daemons = {d}, OneShots = {}, ShortInterval = FALSE
  PROVE  Spec => []LoneInv(d)
<1>1. Guardians = {d}
  BY DEF Guardians
<1>2. Init => LoneInv(d)
  BY <1>1 DEF Init, LoneInv, RewriteInv, NothingLost, Kept
<1>3. TypeOK /\ CheckIsSound /\ LoneInv(d) /\ [Next]_vars => LoneInv(d)'
  <2>1. ASSUME LoneInv(d), UNCHANGED vars PROVE LoneInv(d)'
    BY <1>1, <2>1, LoneQuietStep
       DEF vars, fileVars, backupVars, passVars, history
  <2>2. QED
    BY <1>1, <2>1, LoneCodexStep, LonePassStep, LoneLoopStep, LoneFailure DEF Next
<1>4. QED
  BY <1>2, <1>3, TypeCorrect, CheckSoundness, PTL DEF Spec

\* A lone daemon with the default interval never costs Codex a record that is not
\* an alert, save in the windows that forfeit names.
THEOREM LoneDaemonLosesNothing ==
  ASSUME NEW d, Daemons = {d}, OneShots = {}, ShortInterval = FALSE
  PROVE  Spec => []NothingLost
<1>1. LoneInv(d) => NothingLost
  BY DEF LoneInv
<1>2. QED
  BY <1>1, LoneInvariant, PTL

\* And it overwrites the file only after a backup holds all that it read, unless
\* all the pass does is drop alerts.
THEOREM LoneDaemonBacksUp ==
  ASSUME NEW d, Daemons = {d}, OneShots = {}, ShortInterval = FALSE
  PROVE  Spec => []BackupCovers
<1>1. LoneInv(d) => BackupCovers
  BY DEF LoneInv, RewriteInv, BackupCovers, Guardians
<1>2. QED
  BY <1>1, LoneInvariant, PTL

-----------------------------------------------------------------------------
(* Nothing is invented, whoever rewrites *)

\* How many passes may still change a record: one if it can be repaired now or will be
\* once it is pruned, one for its bulk, and one for what the placeholder of that quotes.
Left(r) ==
  (IF r.shape = "fixable" \/ r.residue = "fixable" THEN 1 ELSE 0)
  + (IF r.bulk = "none" THEN 0 ELSE IF r.bulk = "quoting" THEN 2 ELSE 1)

\* A pass that changes a record leaves fewer passes to change it.
LEMMA LeftShrinks ==
  ASSUME NEW r \in Record, NEW a \in BOOLEAN
  PROVE  Cleaned(r, a) = r \/ Left(Cleaned(r, a)) < Left(r)
<1>1. CASE a /\ r.shape = "fixable"
  <2>1. Cleaned(r, a) = [r EXCEPT !.bulk = IF r.bulk = "quoting" THEN "quoted" ELSE "none",
                                  !.shape = "sound", !.residue = "sound"]
    BY <1>1 DEF Cleaned, Scrubbed, Repaired, Record
  <2>2. /\ Cleaned(r, a).shape = "sound" /\ Cleaned(r, a).residue = "sound"
        /\ Cleaned(r, a).bulk = IF r.bulk = "quoting" THEN "quoted" ELSE "none"
    BY <2>1 DEF Record
  <2>3. Left(Cleaned(r, a)) = IF r.bulk = "quoting" THEN 1 ELSE 0
    BY <2>2 DEF Left
  <2>4. Left(r) = 1 + (IF r.bulk = "none" THEN 0 ELSE IF r.bulk = "quoting" THEN 2 ELSE 1)
    BY <1>1 DEF Left
  <2>5. QED
    BY <2>3, <2>4
<1>2. CASE ~(a /\ r.shape = "fixable")
  <2>1. Cleaned(r, a) = Scrubbed(r)
    BY <1>2 DEF Cleaned, Repaired
  <2>2. CASE r.bulk = "none"
    BY <2>1, <2>2, PlainStays
  <2>3. CASE r.bulk # "none"
    <3>1. /\ Scrubbed(r).shape = r.residue /\ Scrubbed(r).residue = r.residue
          /\ Scrubbed(r).bulk = IF r.bulk = "quoting" THEN "quoted" ELSE "none"
      BY DEF Scrubbed, Record
    <3>2. QED
      BY <2>1, <2>3, <3>1 DEF Left
  <2>4. QED
    BY <2>2, <2>3
<1>3. QED
  BY <1>1, <1>2

LEMMA LeftBound ==
  ASSUME NEW r \in Record
  PROVE  Left(r) \in 0..3
BY DEF Left

\* What passes make of records of S are the records of S and what one more pass makes.
LEMMA AfterPassHas ==
  ASSUME NEW S, NEW r \in S, NEW a \in BOOLEAN
  PROVE  r \in AfterPass(S) /\ Cleaned(r, a) \in AfterPass(S)
BY DEF AfterPass

\* Every form of a record is reached by exactly three passes, some of which may leave
\* the record as it is, or by fewer.
LEMMA FormsOf ==
  ASSUME NEW r, NEW s, FormOf(s, r)
  PROVE  \/ s = r
         \/ \E a \in BOOLEAN : s = Cleaned(r, a)
         \/ \E a, b \in BOOLEAN : s = Cleaned(Cleaned(r, a), b)
         \/ \E a, b, c \in BOOLEAN : s = Cleaned(Cleaned(Cleaned(r, a), b), c)
BY DEF FormOf, AfterPass

LEMMA FormsAre ==
  ASSUME NEW r, NEW a \in BOOLEAN, NEW b \in BOOLEAN, NEW c \in BOOLEAN
  PROVE  /\ FormOf(r, r)
         /\ FormOf(Cleaned(r, a), r)
         /\ FormOf(Cleaned(Cleaned(r, a), b), r)
         /\ FormOf(Cleaned(Cleaned(Cleaned(r, a), b), c), r)
<1> DEFINE S1 == AfterPass({r})
           S2 == AfterPass(S1)
<1>1. r \in S1 /\ Cleaned(r, a) \in S1
  BY AfterPassHas
<1>2. r \in S2 /\ Cleaned(r, a) \in S2 /\ Cleaned(Cleaned(r, a), b) \in S2
  <2> HIDE DEF S1
  <2>1. QED
    BY <1>1, AfterPassHas
<1>3. /\ r \in AfterPass(S2) /\ Cleaned(r, a) \in AfterPass(S2)
      /\ Cleaned(Cleaned(r, a), b) \in AfterPass(S2)
      /\ Cleaned(Cleaned(Cleaned(r, a), b), c) \in AfterPass(S2)
  <2> HIDE DEF S1, S2
  <2>1. QED
    BY <1>2, AfterPassHas
<1>4. QED
  BY <1>3 DEF FormOf

\* Cleaning what passes have made of a record makes nothing else of it: of four passes
\* in a row one leaves the record as it is.
LEMMA FormsClosed ==
  ASSUME NEW r \in Record, NEW s, FormOf(s, r), NEW d \in BOOLEAN
  PROVE  FormOf(Cleaned(s, d), r) /\ s \in Record
<1>1. CASE \/ s = r
           \/ \E a \in BOOLEAN : s = Cleaned(r, a)
           \/ \E a, b \in BOOLEAN : s = Cleaned(Cleaned(r, a), b)
  BY <1>1, CleanedType, FormsAre
<1>2. ASSUME NEW a \in BOOLEAN, NEW b \in BOOLEAN, NEW c \in BOOLEAN,
             s = Cleaned(Cleaned(Cleaned(r, a), b), c)
      PROVE  FormOf(Cleaned(s, d), r) /\ s \in Record
  <2> DEFINE r1 == Cleaned(r, a)
             r2 == Cleaned(r1, b)
  <2>1. r1 \in Record
    BY CleanedType
  <2>2. r2 \in Record
    BY <2>1, CleanedType
  <2>3. s \in Record
    BY <1>2, <2>2, CleanedType
  <2>4. CASE r1 = r
    BY <1>2, <2>3, <2>4, FormsAre
  <2>5. CASE r2 = r1
    BY <1>2, <2>3, <2>5, FormsAre
  <2>6. CASE s = r2
    BY <1>2, <2>3, <2>6, FormsAre
  <2>7. CASE r1 # r /\ r2 # r1 /\ s # r2
    <3>1. Left(r1) < Left(r) /\ Left(r2) < Left(r1) /\ Left(s) < Left(r2)
      BY <1>2, <2>1, <2>2, <2>7, LeftShrinks
    <3>2. Left(r) \in 0..3 /\ Left(r1) \in 0..3 /\ Left(r2) \in 0..3 /\ Left(s) \in 0..3
      BY <2>1, <2>2, <2>3, LeftBound
    <3>3. Cleaned(s, d) \in Record
      BY <2>3, CleanedType
    <3>4. Left(Cleaned(s, d)) \in 0..3
      BY <3>3, LeftBound
    <3>5. Cleaned(s, d) = s
      <4> HIDE DEF r1, r2
      <4>1. QED
        BY <2>3, <3>1, <3>2, <3>4, LeftShrinks
    <3>6. QED
      BY <1>2, <2>3, <3>5, FormsAre
  <2>8. QED
    BY <2>4, <2>5, <2>6, <2>7
<1>3. QED
  BY <1>1, <1>2, FormsOf

\* Some record of Codex is the origin of s.
HasOrigin(s) == \E r \in log : FormOf(s, r)

\* Of the file, the backups, and what the Guardians hold of the file.
OriginInv ==
  /\ \A s \in rollout : HasOrigin(s)
  /\ \A b \in backups \union current : \A s \in b : HasOrigin(s)
  /\ \A p \in Guardians : \A s \in contents[p] : HasOrigin(s)

\* The origins survive as long as the history grows.
LEMMA OriginsStay ==
  ASSUME log \subseteq log'
  PROVE  \A s : HasOrigin(s) => HasOrigin(s)'
BY DEF HasOrigin

LEMMA OutputHasOrigin ==
  ASSUME TypeOK, OriginInv, NEW p \in Guardians
  PROVE  \A s \in Output(contents[p], apply[p]) : HasOrigin(s)
<1>1. SUFFICES ASSUME NEW s \in Output(contents[p], apply[p]) PROVE HasOrigin(s)
  OBVIOUS
<1>2. contents[p] \in SUBSET Record /\ apply[p] \in BOOLEAN /\ log \subseteq Record
  BY DEF TypeOK
<1>3. PICK q \in contents[p] : s = Cleaned(q, apply[p])
  BY <1>2, OutputOrigin
<1>4. PICK r \in log : FormOf(q, r)
  BY DEF OriginInv, HasOrigin
<1>5. FormOf(s, r)
  BY <1>2, <1>3, <1>4, FormsClosed
<1>6. QED
  BY <1>5 DEF HasOrigin

\* What a step may put into the file and into the backups.
LEMMA FileMoves ==
  ASSUME TypeOK, [Next]_vars
  PROVE  /\ log \subseteq log'
         /\ \A s \in rollout' : \/ s \in rollout
                               \/ s \in log'
                               \/ \E p \in Guardians : s \in Output(contents[p], apply[p])
         /\ \A b \in backups' \union current' :
              b \in backups \union current \/ b \subseteq rollout
<1> DEFINE Goal ==
         /\ log \subseteq log'
         /\ \A s \in rollout' : \/ s \in rollout
                               \/ s \in log'
                               \/ \E p \in Guardians : s \in Output(contents[p], apply[p])
         /\ \A b \in backups' \union current' :
              b \in backups \union current \/ b \subseteq rollout
<1>1. CASE BeginLine \/ WriteBack \/ Tick \/ UNCHANGED vars
  BY <1>1
     DEF BeginLine, WriteBack, Tick, NewSecond, vars, fileVars, backupVars, history
<1>2. CASE FinishLine
  BY <1>2 DEF FinishLine, backupVars
<1>3. ASSUME NEW p \in Guardians, PassStep(p) PROVE Goal
  <2>1. CASE Write(p)
    BY <2>1 DEF Write, Overwrite, backupVars
  <2>2. CASE ~Write(p)
    BY <1>3, <2>2
       DEF PassStep, StatBefore, Read, ReadTorn, CheckUnchanged, CheckRaced, CheckPassed,
           Backup, Truncate, fileVars, backupVars, history
  <2>3. QED
    BY <2>1, <2>2
<1>4. ASSUME NEW p \in Guardians, LoopStep(p) \/ RunAgain(p) PROVE Goal
  BY <1>4
     DEF LoopStep, Poll, Seen, RepairStateDb, RepairGoalsDb, Wake, Restart, RunAgain,
         NewSecond, fileVars, backupVars, history
<1>5. ASSUME NEW p \in Guardians, Failure(p) PROVE Goal
  <2>1. CASE WriteFails(p)
    <3>1. PICK W \in Prefixes(Output(contents[p], apply[p])) : Overwrite(W) \/ rollout' = W
      BY <2>1 DEF WriteFails
    <3>2. W \subseteq Output(contents[p], apply[p])
      BY PrefixPart
    <3>3. QED
      BY <2>1, <3>1, <3>2 DEF WriteFails, Overwrite, backupVars
  <2>2. CASE BackupFails(p)
    BY <2>2, PrefixPart DEF BackupFails, fileVars, history
  <2>3. CASE ~WriteFails(p) /\ ~BackupFails(p)
    BY <1>5, <2>3
       DEF Failure, StatFails, StepFails, DbFails, Crash, fileVars, backupVars, history
  <2>4. QED
    BY <2>1, <2>2, <2>3
<1>6. QED
  BY <1>1, <1>2, <1>3, <1>4, <1>5 DEF Next, Codex

LEMMA OriginStep == TypeOK /\ OriginInv /\ [Next]_vars => OriginInv'
<1> SUFFICES ASSUME TypeOK, OriginInv, [Next]_vars PROVE OriginInv'
  OBVIOUS
<1>1. \A s : HasOrigin(s) => HasOrigin(s)'
  BY FileMoves, OriginsStay
<1>2. \A s \in log' : HasOrigin(s)'
  BY FormsAre DEF HasOrigin
<1>3. \A s \in rollout' : HasOrigin(s)'
  BY <1>1, <1>2, FileMoves, OutputHasOrigin DEF OriginInv
<1>4. \A b \in backups' \union current' : \A s \in b : HasOrigin(s)'
  BY <1>1, FileMoves DEF OriginInv
<1>5. \A p \in Guardians : \A s \in contents'[p] : HasOrigin(s)'
  BY <1>1, ContentsMove DEF OriginInv
<1>6. QED
  BY <1>3, <1>4, <1>5 DEF OriginInv

\* All that is ever in the file or in a backup is something Codex wrote, cleaned or
\* not, however many Guardians overwrite each other.
THEOREM NothingInvented == Spec => []NoInvention
<1>1. Init => OriginInv
  BY FormsAre DEF Init, OriginInv, HasOrigin
<1>2. OriginInv => NoInvention
  BY DEF OriginInv, NoInvention, HasOrigin
<1>3. QED
  BY <1>1, <1>2, TypeCorrect, OriginStep, PTL DEF Spec
=============================================================================
