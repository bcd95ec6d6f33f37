---------------------------- MODULE TenantStore -----------------------------
(***************************************************************************)
(* The tenants of the relay and the file they are stored in (register,     *)
(* persist_tenants and load_tenants of server.rs).  A registration holds   *)
(* the write lock of the tenants over its check, its insertion and the     *)
(* rewrite of the store.  Each file operation runs in a thread of its own: *)
(* a caller that hangs up ends the handler and releases the lock, and what *)
(* has been handed to the thread is still done.                            *)
(*                                                                         *)
(* A file is a sequence of equally long entries; each stands for the set   *)
(* of tenants it was written with.  A write starts at the beginning and    *)
(* leaves what is behind its end, so it can be read back only when all     *)
(* entries were written together.                                          *)
(***************************************************************************)
EXTENDS Naturals, Sequences, FiniteSets

CONSTANTS
  Requests,    \* registrations that may be under way at once
  Tenants,     \* a tenant's id, secret and proof, all of which are good
  MaxTenants,
  MaxDrops,    \* bound: callers that hang up
  MaxErrors,   \* bound: file operations that fail and servers that die
  Absent

Files == 0..Cardinality(Requests) + 2

ASSUME StoreAssumption ==
  /\ {MaxTenants, MaxDrops, MaxErrors} \subseteq Nat
  /\ IsFiniteSet(Requests)
  /\ Absent \notin Requests \union Tenants \union Files

VARIABLES
  up,
  tenants,    \* the server's tenants
  lock,       \* the registration that holds the write lock
  stage,      \* where each registration stands
  want,       \* its tenant
  snapshot,   \* the tenants it writes
  handle,     \* the file it writes to
  orphan,     \* registrations without a caller whose last file operation goes on
  store,      \* the file the store's name leads to
  temporary,  \* the file json.tmp leads to
  content,
  confirmed,  \* history: tenants that were told that they are registered
  cut,        \* history: tenants whose caller hung up while they were stored
  forgotten,  \* history: tenants a server has not read, and none has stored since
  overlap,    \* history: a registration wrote while an orphan was still at work
  drops,
  errors

storeVars == <<up, tenants, lock, stage, want, snapshot, handle, orphan, store, temporary,
               content, confirmed, cut, forgotten, overlap, drops, errors>>

StoreTypeOK ==
  /\ up \in BOOLEAN
  /\ tenants \subseteq Tenants
  /\ Cardinality(tenants) =< MaxTenants
  /\ lock \in Requests \union {Absent}
  /\ stage \in [Requests -> {"none", "asked", "open", "write", "wrote", "rename"}]
  /\ want \in [Requests -> Tenants \union {Absent}]
  /\ snapshot \in [Requests -> SUBSET Tenants]
  /\ handle \in [Requests -> Files \union {Absent}]
  /\ orphan \subseteq Requests
  /\ {store, temporary} \subseteq Files \union {Absent}
  /\ \A f \in Files : Len(content[f]) =< MaxTenants /\ \A k \in 1..Len(content[f]) :
       content[f][k] \in SUBSET Tenants
  /\ {confirmed, cut, forgotten} \subseteq SUBSET Tenants
  /\ overlap \in BOOLEAN
  /\ drops \in 0..MaxDrops
  /\ errors \in 0..MaxErrors

StoreInit ==
  /\ up = TRUE
  /\ tenants = {}
  /\ lock = Absent
  /\ stage = [r \in Requests |-> "none"]
  /\ want = [r \in Requests |-> Absent]
  /\ snapshot = [r \in Requests |-> {}]
  /\ handle = [r \in Requests |-> Absent]
  /\ orphan = {}
  /\ store = Absent
  /\ temporary = Absent
  /\ content = [f \in Files |-> <<>>]
  /\ confirmed = {}
  /\ cut = {}
  /\ forgotten = {}
  /\ overlap = FALSE
  /\ drops = 0
  /\ errors = 0

-----------------------------------------------------------------------------
Loadable(f) ==
  /\ content[f] # <<>>
  /\ \A k \in 1..Len(content[f]) :
       content[f][k] = content[f][1] /\ Cardinality(content[f][1]) = Len(content[f])

Stored == IF store = Absent \/ content[store] = <<>> THEN {} ELSE content[store][1]

Unused == CHOOSE f \in Files : f \notin {store, temporary} \union {handle[r] : r \in Requests}

At(r, l) == stage' = [stage EXCEPT ![r] = l]

Register(r, t) ==
  /\ up
  /\ stage[r] = "none"
  /\ want' = [want EXCEPT ![r] = t]
  /\ At(r, "asked")
  /\ UNCHANGED <<up, tenants, lock, snapshot, handle, orphan, store, temporary, content,
                 confirmed, cut, forgotten, overlap, drops, errors>>

\* The registration is over, and its caller has the answer.
Done(r) ==
  /\ At(r, "none")
  /\ want' = [want EXCEPT ![r] = Absent]
  /\ snapshot' = [snapshot EXCEPT ![r] = {}]
  /\ handle' = [handle EXCEPT ![r] = Absent]
  /\ orphan' = orphan \ {r}

\* 204: the tenant is known.
Known(r) ==
  /\ stage[r] = "asked"
  /\ lock = Absent
  /\ want[r] \in tenants
  /\ confirmed' = confirmed \union {want[r]}
  /\ Done(r)
  /\ UNCHANGED <<up, tenants, lock, store, temporary, content, cut, forgotten, overlap, drops,
                 errors>>

\* 503
Refused(r) ==
  /\ stage[r] = "asked"
  /\ lock = Absent
  /\ want[r] \notin tenants
  /\ Cardinality(tenants) >= MaxTenants
  /\ Done(r)
  /\ UNCHANGED <<up, tenants, lock, store, temporary, content, confirmed, cut, forgotten,
                 overlap, drops, errors>>

\* Mutant: the lock is not kept while the store is written.
Insert_Unlocked(r) ==
  /\ stage[r] = "asked"
  /\ lock = Absent
  /\ want[r] \notin tenants
  /\ Cardinality(tenants) < MaxTenants
  /\ tenants' = tenants \union {want[r]}
  /\ snapshot' = [snapshot EXCEPT ![r] = tenants']
  /\ overlap' = (overlap \/ orphan # {})
  /\ At(r, "open")
  /\ UNCHANGED <<up, lock, want, handle, orphan, store, temporary, content, confirmed, cut,
                 forgotten, drops, errors>>

\* Mutant: one tenant too many.
Insert_AtLimit(r) ==
  /\ stage[r] = "asked"
  /\ lock = Absent
  /\ want[r] \notin tenants
  /\ Cardinality(tenants) =< MaxTenants
  /\ tenants' = tenants \union {want[r]}
  /\ lock' = r
  /\ snapshot' = [snapshot EXCEPT ![r] = tenants']
  /\ overlap' = (overlap \/ orphan # {})
  /\ At(r, "open")
  /\ UNCHANGED <<up, want, handle, orphan, store, temporary, content, confirmed, cut,
                 forgotten, drops, errors>>

Insert(r) ==
  /\ stage[r] = "asked"
  /\ lock = Absent
  /\ want[r] \notin tenants
  /\ Cardinality(tenants) < MaxTenants
  /\ tenants' = tenants \union {want[r]}
  /\ lock' = r
  /\ snapshot' = [snapshot EXCEPT ![r] = tenants']
  /\ overlap' = (overlap \/ orphan # {})
  /\ At(r, "open")
  /\ UNCHANGED <<up, want, handle, orphan, store, temporary, content, confirmed, cut,
                 forgotten, drops, errors>>

-----------------------------------------------------------------------------
(* persist_tenants *)

\* Mutant: the store is written in place.
Open_InPlace(r) ==
  /\ stage[r] = "open"
  /\ LET f == IF store = Absent THEN Unused ELSE store IN
       /\ store' = f
       /\ handle' = [handle EXCEPT ![r] = f]
       /\ content' = [content EXCEPT ![f] = <<>>]
  /\ At(r, "write")
  /\ UNCHANGED <<up, tenants, lock, want, snapshot, orphan, temporary, confirmed, cut, forgotten,
                 overlap, drops, errors>>

\* fs::write makes json.tmp or empties it, whoever may be writing to it ...
Open(r) ==
  /\ stage[r] = "open"
  /\ LET f == IF temporary = Absent THEN Unused ELSE temporary IN
       /\ temporary' = f
       /\ handle' = [handle EXCEPT ![r] = f]
       /\ content' = [content EXCEPT ![f] = <<>>]
  /\ At(r, "write")
  /\ UNCHANGED <<up, tenants, lock, want, snapshot, orphan, store, confirmed, cut, forgotten,
                 overlap, drops, errors>>

\* ... and writes, even if the file is the store by now.  An orphan's thread is done.
Write(r) ==
  /\ stage[r] = "write"
  /\ LET old == content[handle[r]]
         n == Cardinality(snapshot[r]) IN
       content' = [content EXCEPT ![handle[r]] =
                     [k \in 1..n |-> snapshot[r]] \o SubSeq(old, n + 1, Len(old))]
  /\ IF r \in orphan THEN Done(r)
                     ELSE At(r, "wrote") /\ UNCHANGED <<want, snapshot, handle, orphan>>
  /\ UNCHANGED <<up, tenants, lock, store, temporary, confirmed, cut, forgotten, overlap, drops,
                 errors>>

\* set_private_permissions finds the temporary file by its name.
Permit(r) ==
  /\ stage[r] = "wrote"
  /\ temporary # Absent
  /\ At(r, "rename")
  /\ UNCHANGED <<up, tenants, lock, want, snapshot, handle, orphan, store, temporary, content,
                 confirmed, cut, forgotten, overlap, drops, errors>>

\* 201, unless the caller is gone.  A file without a name and a writer is no more.
Rename(r) ==
  /\ stage[r] = "rename"
  /\ temporary # Absent
  /\ store' = temporary
  /\ temporary' = Absent
  /\ confirmed' = IF r \in orphan THEN confirmed ELSE confirmed \union {want[r]}
  /\ lock' = IF r \in orphan THEN lock ELSE Absent
  /\ forgotten' = forgotten \ snapshot[r]
  /\ Done(r)
  /\ content' = [f \in Files |-> IF f \in {store'} \union {handle'[q] : q \in Requests}
                                  THEN content[f] ELSE <<>>]
  /\ UNCHANGED <<up, tenants, cut, overlap, drops, errors>>

\* 500, unless the caller is gone: only its handler takes the tenant out again.
Undo(r) ==
  /\ tenants' = IF r \in orphan THEN tenants ELSE tenants \ {want[r]}
  /\ lock' = IF r \in orphan THEN lock ELSE Absent
  /\ Done(r)

\* An orphan has taken the temporary file away.
Missing(r) ==
  /\ stage[r] \in {"wrote", "rename"}
  /\ temporary = Absent
  /\ Undo(r)
  /\ UNCHANGED <<up, store, temporary, content, confirmed, cut, forgotten, overlap, drops, errors>>

StoreFails(r) ==
  /\ stage[r] \in {"open", "write", "wrote", "rename"}
  /\ errors < MaxErrors
  /\ errors' = errors + 1
  /\ Undo(r)
  /\ UNCHANGED <<up, store, temporary, content, confirmed, cut, forgotten, overlap, drops>>

\* The caller hangs up and the handler is dropped where it waits, for the directory of
\* the store too.  What it has inserted stays, what its thread does goes on.
Drop(r) ==
  /\ stage[r] # "none"
  /\ r \notin orphan
  /\ drops < MaxDrops
  /\ drops' = drops + 1
  /\ IF stage[r] = "asked"
       THEN Done(r) /\ UNCHANGED <<cut, lock>>
       ELSE /\ cut' = cut \union {want[r]}
            /\ lock' = Absent
            /\ \/ stage[r] \in {"open", "wrote"} /\ Done(r)
               \/ /\ stage[r] \in {"open", "write", "rename"}
                  /\ orphan' = orphan \union {r}
                  /\ UNCHANGED <<stage, want, snapshot, handle>>
  /\ UNCHANGED <<up, tenants, store, temporary, content, confirmed, forgotten, overlap, errors>>

-----------------------------------------------------------------------------
(* The server dies with its threads and starts again from the store. *)

ServerDies ==
  /\ up
  /\ errors < MaxErrors
  /\ errors' = errors + 1
  /\ up' = FALSE
  /\ tenants' = {}
  /\ lock' = Absent
  /\ stage' = [r \in Requests |-> "none"]
  /\ want' = [r \in Requests |-> Absent]
  /\ snapshot' = [r \in Requests |-> {}]
  /\ handle' = [r \in Requests |-> Absent]
  /\ orphan' = {}
  /\ UNCHANGED <<store, temporary, content, confirmed, cut, forgotten, overlap, drops>>

\* load_tenants: a store that is there and is not JSON keeps the server from starting, but
\* one that cannot be read is taken for none.
ServerStarts ==
  /\ ~up
  /\ up' = TRUE
  /\ \/ /\ store # Absent => Loadable(store)
        /\ tenants' = Stored
        /\ forgotten' = forgotten \ Stored
        /\ UNCHANGED errors
     \/ /\ store # Absent
        /\ errors < MaxErrors
        /\ errors' = errors + 1
        /\ tenants' = {}
        /\ forgotten' = forgotten \union Stored
  /\ UNCHANGED <<lock, stage, want, snapshot, handle, orphan, store, temporary, content,
                 confirmed, cut, overlap, drops>>

StoreStep(r) ==
  \/ Known(r) \/ Refused(r) \/ Insert(r)
  \/ Open(r) \/ Write(r) \/ Permit(r) \/ Rename(r) \/ Missing(r) \/ StoreFails(r)
  \/ Drop(r)

-----------------------------------------------------------------------------
(* Properties *)

\* The store can be read back in every state, so that the server can start, unless a
\* registration wrote it while the write of a caller that had hung up was still going on
\* (persist_tenants).
StoreWhole == store # Absent /\ ~overlap => Loadable(store)

\* A tenant that was told that it is registered is in the store, whatever fails, dies or
\* hangs up, unless its own caller hung up, two writes overlapped, or a server could not read
\* the store when it started and has not stored this tenant since (register, load_tenants).
ConfirmedStored == ~overlap => confirmed \ (cut \union forgotten) \subseteq Stored
=============================================================================
