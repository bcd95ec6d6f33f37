------------------------------ MODULE Identity ------------------------------
(***************************************************************************)
(* The identity file of the relay clients of one machine                   *)
(* (load_or_create_identity and replace_identity of client.rs).  Several   *)
(* clients may start at once, on no file, on a file whose proof an older   *)
(* version made and that is to be migrated, or on one that cannot be read; *)
(* they may die anywhere, and a later client may get the process id of a   *)
(* dead one.                                                               *)
(*                                                                         *)
(* A file holds a whole identity or is broken: nothing yet, part of one,   *)
(* or something else.  Nobody writes to a file that has been linked, so a  *)
(* link is a copy.  The tenant id is a function of the secret and stands   *)
(* for it.                                                                 *)
(***************************************************************************)
EXTENDS Naturals, FiniteSets

CONSTANTS
  Processes,  \* clients that may run at once
  Pids,
  Secrets,
  MaxStarts,  \* bound: clients that are started
  MaxFaults,  \* bound: clients that die and file operations that fail
  Broken,     \* what a file without an identity in it holds
  None

File == <<None, "identity">>
Temps == Pids \X {"tmp", "replace"}
Names == {File} \union Temps
Identities == [secret : Secrets, proven : BOOLEAN]

ASSUME IdentityAssumption ==
  /\ {MaxStarts, MaxFaults} \subseteq Nat
  /\ {Broken, None} \intersect (Secrets \union Pids \union Identities) = {}
  /\ Broken # None

VARIABLES
  data,    \* what the file of each name holds, if there is one
  pc,      \* where each client stands
  pid,
  hold,    \* the identity it has read, or has made and not yet installed
  made,    \* secrets that have been generated
  starts,
  faults

identityVars == <<data, pc, pid, hold, made, starts, faults>>

Stages == {"down", "load", "create", "write", "link", "unlink", "lost", "adopt",
           "copy", "rewrite", "rename", "own", "failed"}

IdentityTypeOK ==
  /\ data \in [Names -> Identities \union {Broken, None}]
  /\ pc \in [Processes -> Stages]
  /\ pid \in [Processes -> Pids \union {None}]
  /\ hold \in [Processes -> Identities \union {None}]
  /\ made \subseteq Secrets
  /\ starts \in 0..MaxStarts
  /\ faults \in 0..MaxFaults

\* No file, a file that is no identity, or one of an older version.
IdentityInit ==
  /\ \E c \in {None, Broken} \union [secret : Secrets, proven : {FALSE}] :
       /\ data = [n \in Names |-> IF n = File THEN c ELSE None]
       /\ made = IF c \in {None, Broken} THEN {} ELSE {c.secret}
  /\ pc = [p \in Processes |-> "down"]
  /\ pid = [p \in Processes |-> None]
  /\ hold = [p \in Processes |-> None]
  /\ starts = 0
  /\ faults = 0

-----------------------------------------------------------------------------
Temp(p, kind) == <<pid[p], kind>>

Goto(p, l) == pc' = [pc EXCEPT ![p] = l]

InFile == data[File]

Start(p) ==
  /\ pc[p] = "down"
  /\ starts < MaxStarts
  /\ starts' = starts + 1
  /\ \E i \in Pids \ {pid[q] : q \in Processes} : pid' = [pid EXCEPT ![p] = i]
  /\ Goto(p, "load")
  /\ UNCHANGED <<data, hold, made, faults>>

\* Nothing can be read: the client makes an identity of its own.
Generate(p) ==
  /\ pc[p] = "load"
  /\ InFile = None
  /\ \E s \in Secrets \ made :
       /\ made' = made \union {s}
       /\ hold' = [hold EXCEPT ![p] = [secret |-> s, proven |-> TRUE]]
  /\ Goto(p, "create")
  /\ UNCHANGED <<data, pid, starts, faults>>

\* A good identity is used, one with a bad proof is migrated, anything else is an error.
Load(p) ==
  /\ pc[p] = "load"
  /\ InFile # None
  /\ IF InFile = Broken
       THEN Goto(p, "failed") /\ hold' = hold
       ELSE /\ hold' = [hold EXCEPT ![p] = [InFile EXCEPT !.proven = TRUE]]
            /\ Goto(p, IF InFile.proven THEN "own" ELSE "copy")
  /\ UNCHANGED <<data, pid, made, starts, faults>>

\* Mutant: the temporary file is not named after the process.
OpenNew_Shared(p, kind, next) ==
  IF \E i \in Pids : data[<<i, kind>>] # None
    THEN Goto(p, "failed") /\ UNCHANGED data
    ELSE data' = [data EXCEPT ![Temp(p, kind)] = Broken] /\ Goto(p, next)

\* A temporary file that is there is an error: some dead client had the same process id.
OpenNew(p, kind, next) ==
  IF data[Temp(p, kind)] # None
    THEN Goto(p, "failed") /\ UNCHANGED data
    ELSE data' = [data EXCEPT ![Temp(p, kind)] = Broken] /\ Goto(p, next)

Create(p) ==
  /\ pc[p] = "create"
  /\ OpenNew(p, "tmp", "write")
  /\ UNCHANGED <<pid, hold, made, starts, faults>>

WriteIdentity(p) ==
  /\ pc[p] = "write"
  /\ data' = [data EXCEPT ![Temp(p, "tmp")] = hold[p]]
  /\ Goto(p, "link")
  /\ UNCHANGED <<pid, hold, made, starts, faults>>

\* Mutant: a rename, which replaces the file of the other client.
Link_Replacing(p) ==
  /\ pc[p] = "link"
  /\ data' = [data EXCEPT ![File] = data[Temp(p, "tmp")]]
  /\ Goto(p, "unlink")
  /\ UNCHANGED <<pid, hold, made, starts, faults>>

\* hard_link gives the file its name unless another client was faster.
Link(p) ==
  /\ pc[p] = "link"
  /\ IF InFile # None
       THEN Goto(p, "lost") /\ data' = data
       ELSE /\ data' = [data EXCEPT ![File] = data[Temp(p, "tmp")]]
            /\ Goto(p, "unlink")
  /\ UNCHANGED <<pid, hold, made, starts, faults>>

\* The temporary name goes, whether the link was made or not.
Unlink(p) ==
  /\ pc[p] \in {"unlink", "lost"}
  /\ data' = [data EXCEPT ![Temp(p, "tmp")] = None]
  /\ Goto(p, IF pc[p] = "unlink" THEN "own" ELSE "adopt")
  /\ UNCHANGED <<pid, hold, made, starts, faults>>

\* Mutant: the loser goes on with the identity it has made.
Adopt_Own(p) ==
  /\ pc[p] = "adopt"
  /\ Goto(p, "own")
  /\ UNCHANGED <<data, pid, hold, made, starts, faults>>

\* The loser reads the winner's identity and does not migrate it.
Adopt(p) ==
  /\ pc[p] = "adopt"
  /\ IF InFile \notin {None, Broken} /\ InFile.proven
       THEN hold' = [hold EXCEPT ![p] = InFile] /\ Goto(p, "own")
       ELSE hold' = hold /\ Goto(p, "failed")
  /\ UNCHANGED <<data, pid, made, starts, faults>>

-----------------------------------------------------------------------------
(* replace_identity *)

Copy(p) ==
  /\ pc[p] = "copy"
  /\ OpenNew(p, "replace", "rewrite")
  /\ UNCHANGED <<pid, hold, made, starts, faults>>

Rewrite(p) ==
  /\ pc[p] = "rewrite"
  /\ data' = [data EXCEPT ![Temp(p, "replace")] = hold[p]]
  /\ Goto(p, "rename")
  /\ UNCHANGED <<pid, hold, made, starts, faults>>

RenameOver(p) ==
  /\ pc[p] = "rename"
  /\ data' = [data EXCEPT ![File] = data[Temp(p, "replace")], ![Temp(p, "replace")] = None]
  /\ Goto(p, "own")
  /\ UNCHANGED <<pid, hold, made, starts, faults>>

-----------------------------------------------------------------------------
(* Failures *)

\* Opening, writing, synchronising, linking or renaming fails.  Only a link that fails
\* removes the temporary file.
FileFails(p) ==
  /\ pc[p] \in {"create", "write", "link", "copy", "rewrite", "rename"}
  /\ faults < MaxFaults
  /\ faults' = faults + 1
  /\ data' = IF pc[p] = "link" THEN [data EXCEPT ![Temp(p, "tmp")] = None] ELSE data
  /\ Goto(p, "failed")
  /\ UNCHANGED <<pid, hold, made, starts>>

Gone(p) ==
  /\ Goto(p, "down")
  /\ pid' = [pid EXCEPT ![p] = None]
  /\ hold' = [hold EXCEPT ![p] = None]
  /\ UNCHANGED <<data, made, starts>>

\* The client reports its error and exits.
Exit(p) == pc[p] = "failed" /\ Gone(p) /\ UNCHANGED faults

Crash(p) ==
  /\ pc[p] \notin {"down", "failed"}
  /\ faults < MaxFaults
  /\ faults' = faults + 1
  /\ Gone(p)

IdentityStep(p) ==
  \/ Generate(p) \/ Load(p)
  \/ Create(p) \/ WriteIdentity(p) \/ Link(p) \/ Unlink(p) \/ Adopt(p)
  \/ Copy(p) \/ Rewrite(p) \/ RenameOver(p) \/ FileFails(p)

-----------------------------------------------------------------------------
(* Properties *)

FileSecret == IF InFile \in {None, Broken} THEN None ELSE InFile.secret

\* All clients of a machine that have an identity have the one in the file, whichever of
\* them made it and whoever died meanwhile (load_or_create_identity).
Agreement == \A p \in Processes : pc[p] = "own" => hold[p].secret = FileSecret

\* Unless something has failed or the file was no identity from the start, no client
\* fails: those that start together do not get into each other's way.
NoSpuriousFailure ==
  (\E p \in Processes : pc[p] = "failed") => faults > 0 \/ InFile = Broken

\* An identity that is in the file stays, and no step leaves part of one there: neither
\* a migration nor a client with the process id of a dead one undoes it.
Lasting == [][FileSecret # None => FileSecret' = FileSecret]_identityVars
=============================================================================
