------------------------------ MODULE Rollout ------------------------------
(***************************************************************************)
(* One cleaning pass over the rollout file of a Codex task, as the pure    *)
(* part of clean_rollout in src/src/main.rs computes it: which records are *)
(* folded away, which are dropped, which are rewritten, and whether the    *)
(* pass counts as a change and as one that needs a backup.                 *)
(*                                                                         *)
(* A rollout is a set of records.  The position of a record stands for its *)
(* line number in the history of the file: cleaning removes and rewrites   *)
(* records but never reorders them, so the set determines the file.        *)
(***************************************************************************)
EXTENDS Naturals, FiniteSets

\* "alert" is a token_count event at or over the trigger or a recoverable task
\* error; "unknown" is a task error that is not recoverable; "item" is any
\* other record that is neither a session_meta nor a compacted summary.
Kind == {"session_meta", "compacted", "item", "alert", "unknown"}

\* What the message-format diagnosis says of a record: no issue, only issues
\* it can repair without loss, or at least one that it cannot.
Shape == {"sound", "fixable", "broken"}

\* What there is to prune in a record: nothing; an inline image, user attachments,
\* an oversized tool output or a stale goal counter; such an output whose
\* placeholder will quote a reference to an image, because it repeats the arguments
\* of the call as they were before the pass, or a summary; or that placeholder.
Bulk == {"none", "plain", "quoting", "quoted"}

\* residue is the shape the record is left with once its bulk is replaced: a pruned
\* tool output, say, becomes a plain string, and a placeholder stays one.
Record == {r \in [pos: Nat, kind: Kind, bulk: Bulk, shape: Shape, residue: Shape] :
             /\ r.kind \notin {"compacted", "item"} => r.shape = "sound"
             /\ r.bulk \in {"quoting", "quoted"} => r.kind = "item"
             /\ r.shape # "broken" => r.residue \in {"sound", r.shape}
             /\ r.bulk \in {"none", "quoted"} => r.residue = r.shape}

\* Every line of a file has its own position.
Distinct(F) == \A r, s \in F : r.pos = s.pos => r = s

LatestCompacted(c, F) ==
  /\ c \in F
  /\ c.kind = "compacted"
  /\ \A d \in F : d.kind = "compacted" => d.pos =< c.pos

\* Everything before the latest summary goes once an alert follows that summary.
Folded(r, F) ==
  /\ r.kind # "session_meta"
  /\ \E c, a \in F : /\ LatestCompacted(c, F)
                     /\ a.kind = "alert"
                     /\ c.pos < a.pos
                     /\ r.pos < c.pos

\* An unknown error is dropped only by the pass that applies message repairs.
Dropped(r, apply) == r.kind = "alert" \/ (apply /\ r.kind = "unknown")

Survives(r, F, apply) == ~Folded(r, F) /\ ~Dropped(r, apply)

Repaired(r) ==
  IF r.shape # "fixable" THEN r
  ELSE [r EXCEPT !.shape = "sound", !.residue = "sound"]

\* Mutant: what replaces a quoted reference quotes it again.
Scrubbed_Again(r) ==
  [r EXCEPT !.bulk = IF r.bulk \in {"quoting", "quoted"} THEN "quoted" ELSE "none",
            !.shape = r.residue]

\* Images are replaced first, then an oversized output: what its placeholder quotes
\* is found by the next pass only.
Scrubbed(r) ==
  [r EXCEPT !.bulk = IF r.bulk = "quoting" THEN "quoted" ELSE "none",
            !.shape = r.residue]

Cleaned(r, apply) == Scrubbed(IF apply THEN Repaired(r) ELSE r)

\* Mutant: a rewritten record lands at its index among the surviving ones.
Output_Reindexed(F, apply) ==
  {[Cleaned(r, apply) EXCEPT
      !.pos = Cardinality({s \in F : Survives(s, F, apply) /\ s.pos < r.pos})] :
     r \in {s \in F : Survives(s, F, apply)}}

Output(F, apply) == {Cleaned(r, apply) : r \in {s \in F : Survives(s, F, apply)}}

\* Mutant: scrubbing alone is not worth a backup.
NeedsBackup_Folding(F, apply) == apply \/ \E r \in F : Folded(r, F)

\* CleanStats::needs_backup: everything the pass did except dropping alerts.
\* An applied repair has repaired at least one record, so it always counts.
NeedsBackup(F, apply) ==
  \/ apply
  \/ \E r \in F : Folded(r, F)
  \/ \E r \in F : Survives(r, F, apply) /\ r.bulk # "none"

\* CleanStats::changed: an alert that is folded away is counted as folded.
Changed(F, apply) == NeedsBackup(F, apply) \/ \E r \in F : r.kind = "alert"

\* Nothing is left for a pass but references that a placeholder of an earlier pass
\* quotes.  Without an alert nothing is folded either.
Tidy(F) == \A r \in F : r.kind # "alert" /\ r.bulk \in {"none", "quoted"}

\* Mutant: one repairable record is enough.
Repairable_Some(F) == \E r \in F : r.shape = "fixable"

\* The diagnosis looks at every record, those about to be folded included.
UnknownError(F) == \E r \in F : r.kind = "unknown"

Repairable(F) ==
  /\ \E r \in F : r.shape = "fixable"
  /\ \A r \in F : r.shape # "broken"
=============================================================================
