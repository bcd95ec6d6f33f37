----------------------------- MODULE ImageCache -----------------------------
(***************************************************************************)
(* The image cache between the Guardians and the image gateway.  A pass    *)
(* of a Guardian (src/main.rs) stores every inline image of its rollout in *)
(* a directory that all Guardians of the machine share, in a file named    *)
(* after its digest and written in place, and puts a signed link into the  *)
(* rollout.  A thread of the gateway (src/bin/context-image-gateway.rs)    *)
(* answers one request for a link with what it reads from that file.       *)
(*                                                                         *)
(* An image is Blocks blocks long.  A write goes to the writer's own       *)
(* offset, so a file is the set of the blocks that are in it: it is as     *)
(* long as the last of them and has holes for the others.                  *)
(***************************************************************************)
EXTENDS Naturals, FiniteSets

CONSTANTS
  Publishers,  \* Guardians that run with --image-cache-dir
  Threads,     \* gateway threads
  Images,
  TooLarge,    \* images beyond MAX_IMAGE_BYTES
  Blocks,
  MaxViews,    \* bound: inline images that Codex records
  MaxCrashes,  \* bound: Guardians that die
  None

ASSUME ImageAssumption ==
  /\ TooLarge \subseteq Images
  /\ Blocks \in Nat \ {0}
  /\ {MaxViews, MaxCrashes} \subseteq Nat
  /\ None \notin Images

VARIABLES
  files,    \* images whose file exists
  blocks,   \* the blocks in an image's file
  full,     \* the cache can no longer be written
  cut,      \* history: images of which a write ended early
  inline,   \* inline images of each publisher's rollout
  links,    \* linked images of each publisher's rollout
  raced,    \* publishers whose rollout has grown since their pass read it
  pc,       \* where each publisher stands
  todo,     \* the inline images its pass has read and still has to publish
  work,     \* the image it publishes
  offset,   \* the block it writes next
  urls,     \* images the pass has a link for
  texts,    \* images the pass replaces by a plain notice
  thread,   \* where each gateway thread stands
  want,     \* the image it was asked for
  pos,      \* the block it reads next
  got,      \* the blocks it has read
  early,    \* history: a writer was under way when its request came
  views,
  crashes

fileVars == <<files, blocks>>
rolloutVars == <<inline, links, raced>>
passVars == <<pc, todo, work, offset, urls, texts>>
threadVars == <<thread, want, pos, got, early>>
counters == <<views, crashes>>
vars == <<fileVars, full, cut, rolloutVars, passVars, threadVars, counters>>

TypeOK ==
  /\ files \subseteq Images
  /\ blocks \in [Images -> SUBSET (1..Blocks)]
  /\ full \in BOOLEAN
  /\ cut \subseteq Images
  /\ inline \in [Publishers -> SUBSET Images]
  /\ links \in [Publishers -> SUBSET Images]
  /\ raced \subseteq Publishers
  /\ pc \in [Publishers -> {"idle", "pass", "exists", "create", "write", "sign"}]
  /\ todo \in [Publishers -> SUBSET Images]
  /\ work \in [Publishers -> Images \union {None}]
  /\ offset \in [Publishers -> 0..Blocks]
  /\ urls \in [Publishers -> SUBSET Images]
  /\ texts \in [Publishers -> SUBSET Images]
  /\ thread \in [Threads -> {"idle", "asked", "open", "read", "sent"}]
  /\ want \in [Threads -> Images \union {None}]
  /\ pos \in [Threads -> 0..(Blocks + 1)]
  /\ got \in [Threads -> SUBSET (1..Blocks)]
  /\ early \in [Threads -> BOOLEAN]
  /\ views \in 0..MaxViews
  /\ crashes \in 0..MaxCrashes

Init ==
  /\ files = {}
  /\ blocks = [i \in Images |-> {}]
  /\ full = FALSE
  /\ cut = {}
  /\ inline = [p \in Publishers |-> {}]
  /\ links = [p \in Publishers |-> {}]
  /\ raced = {}
  /\ pc = [p \in Publishers |-> "idle"]
  /\ todo = [p \in Publishers |-> {}]
  /\ work = [p \in Publishers |-> None]
  /\ offset = [p \in Publishers |-> 0]
  /\ urls = [p \in Publishers |-> {}]
  /\ texts = [p \in Publishers |-> {}]
  /\ thread = [g \in Threads |-> "idle"]
  /\ want = [g \in Threads |-> None]
  /\ pos = [g \in Threads |-> 0]
  /\ got = [g \in Threads |-> {}]
  /\ early = [g \in Threads |-> FALSE]
  /\ views = 0
  /\ crashes = 0

-----------------------------------------------------------------------------
(* The rollouts and the disk. *)

\* Codex records an inline image; a pass under way has not read it.
View(p, i) ==
  /\ views < MaxViews
  /\ views' = views + 1
  /\ inline' = [inline EXCEPT ![p] = @ \union {i}]
  /\ raced' = IF pc[p] = "idle" THEN raced ELSE raced \union {p}
  /\ UNCHANGED <<fileVars, full, cut, links, passVars, threadVars, crashes>>

DiskFills ==
  /\ ~full
  /\ full' = TRUE
  /\ UNCHANGED <<fileVars, cut, rolloutVars, passVars, threadVars, counters>>

-----------------------------------------------------------------------------
(* A pass: publish_bytes for each inline image, then the rewrite. *)

To(p, l) == pc' = [pc EXCEPT ![p] = l]

Writing(i) == {p \in Publishers : work[p] = i /\ pc[p] \in {"create", "write"}}

StartPass(p) ==
  /\ pc[p] = "idle"
  /\ inline[p] # {}
  /\ todo' = [todo EXCEPT ![p] = inline[p]]
  /\ To(p, "pass")
  /\ UNCHANGED <<fileVars, full, cut, rolloutVars, work, offset, urls, texts, threadVars,
                 counters>>

\* The images of the contents the pass has read, one after the other.
Publish(p, i) ==
  /\ pc[p] = "pass"
  /\ i \in todo[p]
  /\ todo' = [todo EXCEPT ![p] = @ \ {i}]
  /\ work' = [work EXCEPT ![p] = i]
  /\ To(p, "exists")
  /\ UNCHANGED <<fileVars, full, cut, rolloutVars, offset, urls, texts, threadVars, counters>>

\* Mutant: the file is written whether it exists or not.
Exists_Ignored(p) ==
  /\ pc[p] = "exists"
  /\ To(p, "create")
  /\ UNCHANGED <<fileVars, full, cut, rolloutVars, todo, work, offset, urls, texts,
                 threadVars, counters>>

Exists(p) ==
  /\ pc[p] = "exists"
  /\ To(p, IF work[p] \in files THEN "sign" ELSE "create")
  /\ UNCHANGED <<fileVars, full, cut, rolloutVars, todo, work, offset, urls, texts,
                 threadVars, counters>>

\* fs::write creates the file or empties it ...
Create(p) ==
  /\ pc[p] = "create"
  /\ files' = files \union {work[p]}
  /\ blocks' = [blocks EXCEPT ![work[p]] = {}]
  /\ offset' = [offset EXCEPT ![p] = 1]
  /\ To(p, "write")
  /\ UNCHANGED <<full, cut, rolloutVars, todo, work, urls, texts, threadVars, counters>>

\* Mutant: write instead of write_all, a short write passes for a complete one.
Write_Short(p) ==
  /\ pc[p] = "write"
  /\ ~full
  /\ blocks' = [blocks EXCEPT ![work[p]] = @ \union {offset[p]}]
  /\ offset' = [offset EXCEPT ![p] = 0]
  /\ To(p, "sign")
  /\ UNCHANGED <<files, full, cut, rolloutVars, todo, work, urls, texts, threadVars, counters>>

\* Mutant: the position is moved on before the end is noticed.
Write_Beyond(p) ==
  /\ pc[p] = "write"
  /\ ~full
  /\ blocks' = [blocks EXCEPT ![work[p]] = @ \union {offset[p]}]
  /\ IF offset[p] =< Blocks
       THEN offset' = [offset EXCEPT ![p] = @ + 1] /\ pc' = pc
       ELSE offset' = [offset EXCEPT ![p] = 0] /\ To(p, "sign")
  /\ UNCHANGED <<files, full, cut, rolloutVars, todo, work, urls, texts, threadVars, counters>>

\* ... and writes what it has, wherever the other writers are.
Write(p) ==
  /\ pc[p] = "write"
  /\ ~full
  /\ blocks' = [blocks EXCEPT ![work[p]] = @ \union {offset[p]}]
  /\ IF offset[p] < Blocks
       THEN offset' = [offset EXCEPT ![p] = @ + 1] /\ pc' = pc
       ELSE offset' = [offset EXCEPT ![p] = 0] /\ To(p, "sign")
  /\ UNCHANGED <<files, full, cut, rolloutVars, todo, work, urls, texts, threadVars, counters>>

Published(p) ==
  /\ work' = [work EXCEPT ![p] = None]
  /\ offset' = [offset EXCEPT ![p] = 0]
  /\ To(p, "pass")

EndPass(p) ==
  /\ todo' = [todo EXCEPT ![p] = {}]
  /\ urls' = [urls EXCEPT ![p] = {}]
  /\ texts' = [texts EXCEPT ![p] = {}]
  /\ raced' = raced \ {p}
  /\ To(p, "idle")


\* The error of either step is dropped and the image becomes a plain notice; the
\* file stays as it is.
PublishFails(p) ==
  /\ pc[p] \in {"create", "write"}
  /\ full
  /\ cut' = IF pc[p] = "write" THEN cut \union {work[p]} ELSE cut
  /\ texts' = [texts EXCEPT ![p] = @ \union {work[p]}]
  /\ Published(p)
  /\ UNCHANGED <<fileVars, full, rolloutVars, todo, urls, threadVars, counters>>

Sign(p) ==
  /\ pc[p] = "sign"
  /\ urls' = [urls EXCEPT ![p] = @ \union {work[p]}]
  /\ Published(p)
  /\ UNCHANGED <<fileVars, full, cut, rolloutVars, todo, texts, threadVars, counters>>

\* The pass has its output and either rewrites the rollout or finds it changed.
Rewrite(p) ==
  /\ pc[p] = "pass"
  /\ todo[p] = {}
  /\ p \notin raced
  /\ inline' = [inline EXCEPT ![p] = {}]
  /\ links' = [links EXCEPT ![p] = @ \union urls[p]]
  /\ EndPass(p)
  /\ UNCHANGED <<fileVars, full, cut, work, offset, threadVars, counters>>

Abandon(p) ==
  /\ pc[p] = "pass"
  /\ todo[p] = {}
  /\ p \in raced
  /\ EndPass(p)
  /\ UNCHANGED <<fileVars, full, cut, inline, links, work, offset, threadVars, counters>>

Crash(p) ==
  /\ pc[p] # "idle"
  /\ crashes < MaxCrashes
  /\ crashes' = crashes + 1
  /\ cut' = IF pc[p] = "write" THEN cut \union {work[p]} ELSE cut
  /\ work' = [work EXCEPT ![p] = None]
  /\ offset' = [offset EXCEPT ![p] = 0]
  /\ EndPass(p)
  /\ UNCHANGED <<fileVars, full, inline, links, threadVars, views>>

-----------------------------------------------------------------------------
(* handle of the gateway. *)

At(g, l) == thread' = [thread EXCEPT ![g] = l]

Request(g, i) ==
  /\ thread[g] = "idle"
  /\ \E p \in Publishers : i \in links[p]
  /\ want' = [want EXCEPT ![g] = i]
  /\ early' = [early EXCEPT ![g] = Writing(i) # {}]
  /\ At(g, "asked")
  /\ UNCHANGED <<fileVars, full, cut, rolloutVars, passVars, pos, got, counters>>

Close(g) ==
  /\ want' = [want EXCEPT ![g] = None]
  /\ pos' = [pos EXCEPT ![g] = 0]
  /\ got' = [got EXCEPT ![g] = {}]
  /\ early' = [early EXCEPT ![g] = FALSE]
  /\ At(g, "idle")
  /\ UNCHANGED <<fileVars, full, cut, rolloutVars, passVars, counters>>

\* 403: the link has expired.
Expired(g) == thread[g] = "asked" /\ Close(g)

Length(i) == IF blocks[i] = {} THEN 0
             ELSE CHOOSE n \in blocks[i] : \A b \in blocks[i] : b =< n

\* The signature is good and the metadata are read.  Only an image that is too large
\* can have a file that is too large.
Stat(g) ==
  /\ thread[g] = "asked"
  /\ want[g] \in files
  /\ want[g] \in TooLarge => Length(want[g]) < Blocks
  /\ At(g, "open")
  /\ UNCHANGED <<fileVars, full, cut, rolloutVars, passVars, want, pos, got, early, counters>>

\* 413, or no answer at all where there is no file.
StatRefused(g) ==
  /\ thread[g] = "asked"
  /\ want[g] \notin files \/ (want[g] \in TooLarge /\ Length(want[g]) = Blocks)
  /\ Close(g)

OpenFile(g) ==
  /\ thread[g] = "open"
  /\ pos' = [pos EXCEPT ![g] = 1]
  /\ At(g, "read")
  /\ UNCHANGED <<fileVars, full, cut, rolloutVars, passVars, want, got, early, counters>>

\* fs::read goes on to the end of the file as it is by then.
Read(g) ==
  /\ thread[g] = "read"
  /\ IF pos[g] =< Length(want[g])
       THEN /\ pos' = [pos EXCEPT ![g] = @ + 1]
            /\ got' = [got EXCEPT ![g] = @ \union ({pos[g]} \intersect blocks[want[g]])]
            /\ thread' = thread
       ELSE At(g, "sent") /\ UNCHANGED <<pos, got>>
  /\ UNCHANGED <<fileVars, full, cut, rolloutVars, passVars, want, early, counters>>

\* 200, with a length that agrees with what was read.
Sent(g) == thread[g] = "sent" /\ Close(g)

-----------------------------------------------------------------------------
PassStep(p) ==
  \/ StartPass(p) \/ \E i \in Images : Publish(p, i)
  \/ Exists(p) \/ Create(p) \/ Write(p) \/ PublishFails(p) \/ Sign(p)
  \/ Rewrite(p) \/ Abandon(p)

ThreadStep(g) ==
  \/ Expired(g) \/ Stat(g) \/ StatRefused(g) \/ OpenFile(g) \/ Read(g) \/ Sent(g)

Next ==
  \/ \E p \in Publishers : PassStep(p) \/ Crash(p) \/ \E i \in Images : View(p, i)
  \/ \E g \in Threads : ThreadStep(g) \/ \E i \in Images : Request(g, i)
  \/ DiskFills

Spec == Init /\ [][Next]_vars

\* A Guardian's loop goes on and launchd restarts it; a gateway thread runs.
Fairness ==
  /\ \A p \in Publishers : WF_vars(PassStep(p))
  /\ \A g \in Threads : WF_vars(ThreadStep(g))

FairSpec == Spec /\ Fairness

-----------------------------------------------------------------------------
(* Properties *)

Whole(i) == blocks[i] = 1..Blocks

\* Guardians that write the same image at once leave it whole, holes and truncations
\* in between notwithstanding, and no link is in a rollout before its file exists,
\* unless one of the writes ended early (publish_bytes).
SettledWhole ==
  \A i \in Images \ cut :
    Writing(i) = {} =>
      /\ i \in files => Whole(i)
      /\ (\E p \in Publishers : i \in links[p]) => i \in files

\* What the gateway sends is the whole image, whoever publishes it again meanwhile,
\* unless a Guardian that had found the file missing was still about to write it when
\* the request came, or a write of it ended early (publish_bytes, handle).
ServedWhole ==
  \A g \in Threads :
    thread[g] = "sent" /\ ~early[g] /\ want[g] \notin cut => got[g] = 1..Blocks

=============================================================================
