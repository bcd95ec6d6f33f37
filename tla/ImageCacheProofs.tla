-------------------------- MODULE ImageCacheProofs --------------------------
(***************************************************************************)
(* Theorems about ImageCache, for all sets of publishers, threads and      *)
(* images, images of any number of blocks, and all bounds.                 *)
(***************************************************************************)
EXTENDS ImageCache, Integers, FiniteSetTheorems, WellFoundedInduction, TLAPS

-----------------------------------------------------------------------------
(* The length of a file *)

\* Every nonempty set of natural numbers has a least element.
LEMMA LeastNumber ==
  ASSUME NEW S \in SUBSET Nat, S # {}
  PROVE  \E m \in S : \A k \in S : m =< k
<1>1. PICK D : D = {0..n : n \in S}
  OBVIOUS
<1>2. ASSUME NEW n \in S
      PROVE  0..n \in FiniteSubsetsOf(Nat)
  <2>1. 0..n \in SUBSET Nat /\ IsFiniteSet(0..n)
    BY FS_Interval
  <2>2. QED
    BY <2>1 DEF FiniteSubsetsOf
<1>3. D \subseteq FiniteSubsetsOf(Nat) /\ D # {}
  BY <1>1, <1>2
<1>4. IsWellFoundedOn(StrictSubsetOrdering(Nat), FiniteSubsetsOf(Nat))
  BY FS_StrictSubsetOrderingWellFounded
<1>5. \E x \in D : \A y \in D : ~ (<<y, x>> \in StrictSubsetOrdering(Nat))
  BY <1>3, <1>4, WFMin
<1>6. PICK m \in S : \A k \in S : ~ (<<0..k, 0..m>> \in StrictSubsetOrdering(Nat))
  BY <1>1, <1>5
<1>7. ASSUME NEW k \in S
      PROVE  m =< k
  <2>1. k \in Nat /\ m \in Nat
    OBVIOUS
  <2>2. k < m => <<0..k, 0..m>> \in StrictSubsetOrdering(Nat)
    BY <2>1 DEF StrictSubsetOrdering
  <2>3. QED
    BY <1>6, <2>1, <2>2
<1>8. QED
  BY <1>7

\* So a nonempty set of numbers up to n has a greatest one.
LEMMA GreatestNumber ==
  ASSUME NEW n \in Nat, NEW S \in SUBSET (1..n), S # {}
  PROVE  \E m \in S : \A k \in S : k =< m
<1>1. PICK D : D = {n - s : s \in S}
  OBVIOUS
<1>2. D \in SUBSET Nat /\ D # {}
  <2>1. \A s \in S : n - s \in Nat
    OBVIOUS
  <2>2. D \in SUBSET Nat
    BY <1>1, <2>1
  <2>3. D # {}
    BY <1>1
  <2>4. QED
    BY <2>2, <2>3
<1>3. PICK d \in D : \A e \in D : d =< e
  BY <1>2, LeastNumber
<1>4. PICK m \in S : d = n - m
  BY <1>1, <1>3
<1>5. ASSUME NEW k \in S
      PROVE  k =< m
  <2>1. n - k \in D
    BY <1>1
  <2>2. QED
    BY <1>3, <1>4, <2>1
<1>6. QED
  BY <1>5

\* A file is at most as long as its image.
LEMMA LengthType ==
  ASSUME TypeOK, NEW i \in Images
  PROVE  Length(i) \in 0..Blocks
<1>1. Blocks \in Nat /\ blocks[i] \in SUBSET (1..Blocks)
  BY ImageAssumption DEF ImageAssumption, TypeOK
<1>2. CASE blocks[i] = {}
  BY <1>1, <1>2 DEF Length
<1>3. CASE blocks[i] # {}
  <2>1. \E n \in blocks[i] : \A b \in blocks[i] : b =< n
    BY <1>1, <1>3, GreatestNumber
  <2>2. (CHOOSE n \in blocks[i] : \A b \in blocks[i] : b =< n) \in blocks[i]
    BY <2>1
  <2>3. QED
    BY <1>1, <1>3, <2>2 DEF Length
<1>4. QED
  BY <1>2, <1>3

\* The file of a whole image is as long as the image.
LEMMA WholeLength ==
  ASSUME NEW i \in Images, Whole(i)
  PROVE  Length(i) = Blocks
<1>1. Blocks \in Nat /\ Blocks \in blocks[i] /\ blocks[i] = 1..Blocks
  BY ImageAssumption DEF ImageAssumption, Whole
<1>2. \E n \in blocks[i] : \A b \in blocks[i] : b =< n
  BY <1>1
<1>3. PICK n : n = CHOOSE m \in blocks[i] : \A b \in blocks[i] : b =< m
  OBVIOUS
<1>4. n \in blocks[i] /\ \A b \in blocks[i] : b =< n
  BY <1>2, <1>3
<1>5. n = Blocks
  BY <1>1, <1>4
<1>6. QED
  BY <1>1, <1>3, <1>5 DEF Length

-----------------------------------------------------------------------------
(* The inductive invariant *)

\* A publisher works on an image between two steps of its pass, and writes at a block
\* of the image.
Working ==
  \A p \in Publishers :
    /\ pc[p] \in {"idle", "pass"} <=> work[p] = None
    /\ pc[p] = "write" => offset[p] # 0

\* What is written, signed or linked has a file.
Filed ==
  /\ \A p \in Publishers : pc[p] \in {"write", "sign"} => work[p] \in files
  /\ \A p \in Publishers : urls[p] \subseteq files /\ links[p] \subseteq files

\* A block that is missing from a file, of which no write ended early, is still to come
\* from a writer.
Covered ==
  \A i \in files \ cut : \A b \in (1..Blocks) \ blocks[i] :
    \E p \in Publishers : pc[p] = "write" /\ work[p] = i /\ offset[p] =< b

\* A request is for an image that has a file, and one that came when nobody was about to
\* write the image never meets a writer.
Calm ==
  \A g \in Threads : thread[g] # "idle" =>
    /\ want[g] \in files
    /\ ~early[g] => Writing(want[g]) = {}

\* What such a thread has read is the image as far as it has come.
Prefix ==
  \A g \in Threads :
    /\ thread[g] \in {"idle", "asked", "open"} => got[g] = {}
    /\ thread[g] = "read" => pos[g] # 0
    /\ thread[g] = "read" /\ ~early[g] /\ want[g] \notin cut => got[g] = 1..(pos[g] - 1)

CacheInv == TypeOK /\ Working /\ Filed /\ Covered /\ Calm /\ Prefix /\ ServedWhole

-----------------------------------------------------------------------------
(* Who changes what *)

\* What a publisher, Codex or the disk does, and what a gateway thread does.
CacheStep ==
  \/ \E p \in Publishers : PassStep(p) \/ Crash(p) \/ \E i \in Images : View(p, i)
  \/ DiskFills

GatewayStep == \E g \in Threads : ThreadStep(g) \/ \E i \in Images : Request(g, i)

\* The threads are left alone, and no file and no cut disappears.
LEMMA CacheFrame ==
  CacheStep => UNCHANGED threadVars /\ files \subseteq files' /\ cut \subseteq cut'
BY DEF CacheStep, PassStep, StartPass, Publish, Exists, Create, Write, PublishFails, Sign,
       Rewrite, Abandon, Crash, View, DiskFills, fileVars, counters

\* A thread changes nothing but itself.
LEMMA GatewayFrame ==
  GatewayStep => UNCHANGED <<fileVars, full, cut, rolloutVars, passVars, counters>>
BY DEF GatewayStep, ThreadStep, Expired, Stat, StatRefused, OpenFile, Read, Sent, Request, Close

LEMMA NextSplits == Next => CacheStep \/ GatewayStep
BY DEF Next, CacheStep, GatewayStep

-----------------------------------------------------------------------------
(* Type correctness *)

\* A publisher that ends its pass or its image.
LEMMA EndPassType ==
  ASSUME TypeOK, NEW p \in Publishers, EndPass(p)
  PROVE  /\ pc' \in [Publishers -> {"idle", "pass", "exists", "create", "write", "sign"}]
         /\ todo' \in [Publishers -> SUBSET Images]
         /\ urls' \in [Publishers -> SUBSET Images]
         /\ texts' \in [Publishers -> SUBSET Images]
         /\ raced' \subseteq Publishers
BY DEF TypeOK, EndPass, To

LEMMA PublishedType ==
  ASSUME TypeOK, NEW p \in Publishers, Published(p)
  PROVE  /\ pc' \in [Publishers -> {"idle", "pass", "exists", "create", "write", "sign"}]
         /\ work' \in [Publishers -> Images \union {None}]
         /\ offset' \in [Publishers -> 0..Blocks]
BY ImageAssumption DEF ImageAssumption, TypeOK, Published, To

LEMMA CacheStepType ==
  ASSUME TypeOK, Working, CacheStep
  PROVE  TypeOK'
<1> USE DEF fileVars, rolloutVars, passVars, threadVars, counters
<1>0. Blocks \in Nat \ {0} /\ MaxViews \in Nat /\ MaxCrashes \in Nat
  BY ImageAssumption DEF ImageAssumption
<1>1. ASSUME NEW p \in Publishers, StartPass(p)
      PROVE  TypeOK'
  BY <1>1 DEF TypeOK, StartPass, To
<1>2. ASSUME NEW p \in Publishers, NEW i \in Images, Publish(p, i)
      PROVE  TypeOK'
  BY <1>2 DEF TypeOK, Publish, To
<1>3. ASSUME NEW p \in Publishers, Exists(p)
      PROVE  TypeOK'
  BY <1>3 DEF TypeOK, Exists, To
<1>4. ASSUME NEW p \in Publishers, Create(p)
      PROVE  TypeOK'
  <2>1. work[p] \in Images
    BY <1>4 DEF TypeOK, Working, Create
  <2>2. QED
    BY <1>0, <1>4, <2>1 DEF TypeOK, Create, To
<1>5. ASSUME NEW p \in Publishers, Write(p)
      PROVE  TypeOK'
  <2>1. work[p] \in Images /\ offset[p] \in 1..Blocks
    BY <1>5 DEF TypeOK, Working, Write
  <2>2. blocks' \in [Images -> SUBSET (1..Blocks)]
    BY <1>5, <2>1 DEF TypeOK, Write
  <2>3. /\ offset' \in [Publishers -> 0..Blocks]
        /\ pc' \in [Publishers -> {"idle", "pass", "exists", "create", "write", "sign"}]
    BY <1>0, <1>5, <2>1 DEF TypeOK, Write, To
  <2>4. QED
    BY <1>5, <2>2, <2>3 DEF TypeOK, Write
<1>6. ASSUME NEW p \in Publishers, PublishFails(p)
      PROVE  TypeOK'
  <2>1. work[p] \in Images
    BY <1>6 DEF TypeOK, Working, PublishFails
  <2>2. QED
    BY <1>6, <2>1, PublishedType DEF TypeOK, PublishFails
<1>7. ASSUME NEW p \in Publishers, Sign(p)
      PROVE  TypeOK'
  <2>1. work[p] \in Images
    BY <1>7 DEF TypeOK, Working, Sign
  <2>2. QED
    BY <1>7, <2>1, PublishedType DEF TypeOK, Sign
<1>8. ASSUME NEW p \in Publishers, Rewrite(p) \/ Abandon(p)
      PROVE  TypeOK'
  BY <1>8, EndPassType DEF TypeOK, Rewrite, Abandon
<1>9. ASSUME NEW p \in Publishers, Crash(p)
      PROVE  TypeOK'
  <2>1. pc[p] = "write" => work[p] \in Images
    BY <1>9 DEF TypeOK, Working
  <2>2. /\ work' \in [Publishers -> Images \union {None}]
        /\ offset' \in [Publishers -> 0..Blocks]
        /\ crashes' \in 0..MaxCrashes
        /\ cut' \subseteq Images
    BY <1>0, <1>9, <2>1 DEF TypeOK, Crash
  <2>3. QED
    BY <1>9, <2>2, EndPassType DEF TypeOK, Crash
<1>10. ASSUME NEW p \in Publishers, NEW i \in Images, View(p, i)
       PROVE  TypeOK'
  BY <1>0, <1>10 DEF TypeOK, View
<1>11. CASE DiskFills
  BY <1>11 DEF TypeOK, DiskFills
<1>12. QED
  BY <1>1, <1>2, <1>3, <1>4, <1>5, <1>6, <1>7, <1>8, <1>9, <1>10, <1>11 DEF CacheStep, PassStep

LEMMA GatewayStepType ==
  ASSUME TypeOK, Calm, GatewayStep
  PROVE  TypeOK'
<1> USE DEF threadVars
<1>0. Blocks \in Nat \ {0}
  BY ImageAssumption DEF ImageAssumption
<1>1. UNCHANGED <<fileVars, full, cut, rolloutVars, passVars, counters>>
  BY GatewayFrame
<1>2. ASSUME NEW g \in Threads, NEW i \in Images, Request(g, i)
      PROVE  /\ thread' \in [Threads -> {"idle", "asked", "open", "read", "sent"}]
             /\ want' \in [Threads -> Images \union {None}]
             /\ pos' \in [Threads -> 0..(Blocks + 1)]
             /\ got' \in [Threads -> SUBSET (1..Blocks)]
             /\ early' \in [Threads -> BOOLEAN]
  BY <1>2 DEF TypeOK, Request, At
<1>3. ASSUME NEW g \in Threads, Close(g)
      PROVE  /\ thread' \in [Threads -> {"idle", "asked", "open", "read", "sent"}]
             /\ want' \in [Threads -> Images \union {None}]
             /\ pos' \in [Threads -> 0..(Blocks + 1)]
             /\ got' \in [Threads -> SUBSET (1..Blocks)]
             /\ early' \in [Threads -> BOOLEAN]
  BY <1>0, <1>3 DEF TypeOK, Close, At
<1>4. ASSUME NEW g \in Threads, Stat(g) \/ OpenFile(g)
      PROVE  /\ thread' \in [Threads -> {"idle", "asked", "open", "read", "sent"}]
             /\ want' \in [Threads -> Images \union {None}]
             /\ pos' \in [Threads -> 0..(Blocks + 1)]
             /\ got' \in [Threads -> SUBSET (1..Blocks)]
             /\ early' \in [Threads -> BOOLEAN]
  BY <1>0, <1>4 DEF TypeOK, Stat, OpenFile, At
<1>5. ASSUME NEW g \in Threads, Read(g)
      PROVE  /\ thread' \in [Threads -> {"idle", "asked", "open", "read", "sent"}]
             /\ want' \in [Threads -> Images \union {None}]
             /\ pos' \in [Threads -> 0..(Blocks + 1)]
             /\ got' \in [Threads -> SUBSET (1..Blocks)]
             /\ early' \in [Threads -> BOOLEAN]
  <2>1. want[g] \in Images
    BY <1>5 DEF TypeOK, Calm, Read
  <2>2. Length(want[g]) \in 0..Blocks /\ blocks[want[g]] \subseteq 1..Blocks
    BY <2>1, LengthType DEF TypeOK
  <2>3. CASE pos[g] =< Length(want[g])
    BY <1>0, <1>5, <2>2, <2>3 DEF TypeOK, Read
  <2>4. CASE ~(pos[g] =< Length(want[g]))
    BY <1>5, <2>4 DEF TypeOK, Read, At
  <2>5. QED
    BY <2>3, <2>4
<1>6. /\ thread' \in [Threads -> {"idle", "asked", "open", "read", "sent"}]
      /\ want' \in [Threads -> Images \union {None}]
      /\ pos' \in [Threads -> 0..(Blocks + 1)]
      /\ got' \in [Threads -> SUBSET (1..Blocks)]
      /\ early' \in [Threads -> BOOLEAN]
  BY <1>2, <1>3, <1>4, <1>5 DEF GatewayStep, ThreadStep, Expired, StatRefused, Sent
<1>7. QED
  BY <1>1, <1>6 DEF TypeOK, fileVars, rolloutVars, passVars, counters

-----------------------------------------------------------------------------
(* Publishers and files *)

LEMMA CacheStepWorking ==
  ASSUME TypeOK, Working, CacheStep
  PROVE  Working'
<1>0. None \notin Images /\ Blocks \in Nat \ {0}
  BY ImageAssumption DEF ImageAssumption
<1>1. ASSUME NEW p \in Publishers, PassStep(p)
      PROVE  Working'
  <2>1. CASE StartPass(p) \/ Rewrite(p) \/ Abandon(p)
    BY <2>1 DEF TypeOK, Working, StartPass, Rewrite, Abandon, EndPass, To
  <2>2. CASE \E i \in Images : Publish(p, i)
    BY <1>0, <2>2 DEF TypeOK, Working, Publish, To
  <2>3. CASE Exists(p) \/ Create(p)
    BY <2>3 DEF TypeOK, Working, Exists, Create, To
  <2>4. CASE Write(p)
    <3>1. offset[p] \in Nat
      BY <1>0 DEF TypeOK
    <3>2. QED
      BY <2>4, <3>1 DEF TypeOK, Working, Write, To
  <2>5. CASE PublishFails(p) \/ Sign(p)
    BY <2>5 DEF TypeOK, Working, PublishFails, Sign, Published, To
  <2>6. QED
    BY <1>1, <2>1, <2>2, <2>3, <2>4, <2>5 DEF PassStep
<1>2. ASSUME NEW p \in Publishers, Crash(p)
      PROVE  Working'
  BY <1>2 DEF TypeOK, Working, Crash, EndPass, To
<1>3. ASSUME NEW p \in Publishers, NEW i \in Images, View(p, i)
      PROVE  Working'
  BY <1>3 DEF Working, View, passVars
<1>4. CASE DiskFills
  BY <1>4 DEF Working, DiskFills, passVars
<1>5. QED
  BY <1>1, <1>2, <1>3, <1>4 DEF CacheStep

LEMMA CacheStepFiled ==
  ASSUME TypeOK, Filed, CacheStep
  PROVE  Filed'
<1> USE DEF passVars, rolloutVars, fileVars
<1>0. files \subseteq files'
  BY CacheFrame
<1>1. ASSUME NEW p \in Publishers, PassStep(p)
      PROVE  Filed'
  <2>1. CASE StartPass(p) \/ Rewrite(p) \/ Abandon(p)
    BY <2>1 DEF TypeOK, Filed, StartPass, Rewrite, Abandon, EndPass, To
  <2>2. CASE \E i \in Images : Publish(p, i)
    BY <2>2 DEF TypeOK, Filed, Publish, To
  <2>3. CASE Exists(p)
    BY <2>3 DEF TypeOK, Filed, Exists, To
  <2>4. CASE Create(p)
    BY <2>4 DEF TypeOK, Filed, Create, To
  <2>5. CASE Write(p)
    BY <2>5 DEF TypeOK, Filed, Write, To
  <2>6. CASE PublishFails(p)
    BY <2>6 DEF TypeOK, Filed, PublishFails, Published, To
  <2>7. CASE Sign(p)
    BY <2>7 DEF TypeOK, Filed, Sign, Published, To
  <2>8. QED
    BY <1>1, <2>1, <2>2, <2>3, <2>4, <2>5, <2>6, <2>7 DEF PassStep
<1>2. ASSUME NEW p \in Publishers, Crash(p)
      PROVE  Filed'
  BY <1>2 DEF TypeOK, Filed, Crash, EndPass, To
<1>3. ASSUME NEW p \in Publishers, NEW i \in Images, View(p, i)
      PROVE  Filed'
  BY <1>3 DEF Filed, View
<1>4. CASE DiskFills
  BY <1>4 DEF Filed, DiskFills
<1>5. QED
  BY <1>1, <1>2, <1>3, <1>4 DEF CacheStep

\* A step that changes no file and stops no writer but one whose image is cut keeps every
\* missing block covered.
LEMMA CoveredKept ==
  ASSUME Covered, UNCHANGED fileVars, cut \subseteq cut',
         \A p \in Publishers :
           pc[p] = "write" => \/ work[p] \in cut'
                              \/ pc'[p] = "write" /\ work'[p] = work[p] /\ offset'[p] = offset[p]
  PROVE  Covered'
BY DEF Covered, fileVars

LEMMA CacheStepCovered ==
  ASSUME TypeOK, Working, Covered, CacheStep
  PROVE  Covered'
<1>0. Blocks \in Nat \ {0} /\ cut \subseteq cut'
  BY ImageAssumption, CacheFrame DEF ImageAssumption
<1>1. ASSUME NEW p \in Publishers, PassStep(p), ~Create(p), ~Write(p), ~PublishFails(p)
      PROVE  Covered'
  <2>1. UNCHANGED fileVars
    BY <1>1 DEF PassStep, StartPass, Publish, Exists, Sign, Rewrite, Abandon
  <2>2. ASSUME NEW q \in Publishers, pc[q] = "write"
        PROVE  pc'[q] = "write" /\ work'[q] = work[q] /\ offset'[q] = offset[q]
    BY <1>1, <2>2 DEF TypeOK, PassStep, StartPass, Publish, Exists, Sign, Published,
                      Rewrite, Abandon, EndPass, To
  <2>3. QED
    BY <1>0, <2>1, <2>2, CoveredKept
<1>2. ASSUME NEW p \in Publishers, Create(p)
      PROVE  Covered'
  <2>1. SUFFICES ASSUME NEW i \in files' \ cut', NEW b \in (1..Blocks) \ blocks'[i]
                 PROVE  \E q \in Publishers : pc'[q] = "write" /\ work'[q] = i /\ offset'[q] =< b
    BY DEF Covered
  <2>2. CASE i = work[p]
    <3>1. pc'[p] = "write" /\ work'[p] = i /\ offset'[p] =< b
      BY <1>0, <1>2, <2>2 DEF TypeOK, Create, To
    <3>2. QED
      BY <3>1
  <2>3. CASE i # work[p]
    <3>1. i \in files \ cut /\ b \notin blocks[i]
      BY <1>2, <2>3 DEF TypeOK, Create
    <3>2. PICK q \in Publishers : pc[q] = "write" /\ work[q] = i /\ offset[q] =< b
      BY <3>1 DEF Covered
    <3>3. pc'[q] = "write" /\ work'[q] = i /\ offset'[q] =< b
      BY <1>2, <3>2 DEF TypeOK, Create, To
    <3>4. QED
      BY <3>3
  <2>4. QED
    BY <2>2, <2>3
<1>3. ASSUME NEW p \in Publishers, Write(p)
      PROVE  Covered'
  <2>1. SUFFICES ASSUME NEW i \in files' \ cut', NEW b \in (1..Blocks) \ blocks'[i]
                 PROVE  \E q \in Publishers : pc'[q] = "write" /\ work'[q] = i /\ offset'[q] =< b
    BY DEF Covered
  <2>2. i \in files \ cut /\ i \in Images /\ work[p] \in Images
    BY <1>3 DEF TypeOK, Working, Write
  <2>3. b \notin blocks[i] /\ (i = work[p] => b # offset[p])
    BY <1>3, <2>2 DEF TypeOK, Write
  <2>4. PICK q \in Publishers : pc[q] = "write" /\ work[q] = i /\ offset[q] =< b
    BY <2>2, <2>3 DEF Covered
  <2>5. CASE q # p
    <3>1. pc'[q] = "write" /\ work'[q] = i /\ offset'[q] =< b
      BY <1>3, <2>4, <2>5 DEF TypeOK, Write, To
    <3>2. QED
      BY <3>1
  <2>6. CASE q = p
    <3>1. offset[p] < b /\ offset[p] \in Nat /\ b =< Blocks
      <4>1. offset[p] \in Nat /\ b \in 1..Blocks
        BY <1>0, <2>1 DEF TypeOK
      <4>2. b # offset[p] /\ offset[p] =< b
        BY <2>3, <2>4, <2>6
      <4>3. QED
        BY <1>0, <4>1, <4>2
    <3>2. pc'[p] = "write" /\ work'[p] = i /\ offset'[p] =< b
      BY <1>0, <1>3, <2>4, <2>6, <3>1 DEF TypeOK, Write
    <3>3. QED
      BY <3>2
  <2>7. QED
    BY <2>5, <2>6
<1>4. ASSUME NEW p \in Publishers, PublishFails(p) \/ Crash(p)
      PROVE  Covered'
  <2>1. UNCHANGED fileVars
    BY <1>4 DEF PublishFails, Crash
  <2>2. ASSUME NEW q \in Publishers, pc[q] = "write"
        PROVE  \/ work[q] \in cut'
               \/ pc'[q] = "write" /\ work'[q] = work[q] /\ offset'[q] = offset[q]
    BY <1>4, <2>2 DEF TypeOK, PublishFails, Crash, Published, EndPass, To
  <2>3. QED
    BY <1>0, <2>1, <2>2, CoveredKept
<1>5. ASSUME NEW p \in Publishers, NEW i \in Images, View(p, i)
      PROVE  Covered'
  BY <1>0, <1>5, CoveredKept DEF View, passVars
<1>6. CASE DiskFills
  BY <1>0, <1>6, CoveredKept DEF DiskFills, passVars
<1>7. QED
  BY <1>1, <1>2, <1>3, <1>4, <1>5, <1>6 DEF CacheStep

\* What a thread does changes nothing that these three are about.
LEMMA GatewayStepFiles ==
  ASSUME GatewayStep
  PROVE  /\ Working => Working'
         /\ Filed => Filed'
         /\ Covered => Covered'
<1>1. UNCHANGED <<fileVars, cut, rolloutVars, passVars>>
  BY GatewayFrame
<1>2. QED
  BY <1>1 DEF Working, Filed, Covered, fileVars, rolloutVars, passVars

-----------------------------------------------------------------------------
(* Threads *)

\* Nobody who has not yet found the file missing goes on to write it.
LEMMA CacheStepCalm ==
  ASSUME TypeOK, Calm, CacheStep
  PROVE  Calm'
<1>0. UNCHANGED threadVars /\ files \subseteq files'
  BY CacheFrame
<1>1. ASSUME NEW i \in files, Writing(i) = {}
      PROVE  Writing(i)' = {}
  <2>1. SUFFICES ASSUME NEW q \in Publishers, work'[q] = i, pc'[q] \in {"create", "write"}
                 PROVE  work[q] = i /\ pc[q] \in {"create", "write"}
    BY <1>1 DEF Writing
  <2>2. ASSUME NEW p \in Publishers, PassStep(p)
        PROVE  work[q] = i /\ pc[q] \in {"create", "write"}
    <3>1. CASE StartPass(p) \/ Rewrite(p) \/ Abandon(p)
      BY <2>1, <3>1 DEF TypeOK, StartPass, Rewrite, Abandon, EndPass, To
    <3>2. CASE \E j \in Images : Publish(p, j)
      BY <2>1, <3>2 DEF TypeOK, Publish, To
    <3>3. CASE Exists(p)
      BY <2>1, <3>3 DEF TypeOK, Exists, To
    <3>4. CASE Create(p)
      BY <2>1, <3>4 DEF TypeOK, Create, To
    <3>5. CASE Write(p)
      BY <2>1, <3>5 DEF TypeOK, Write, To
    <3>6. CASE PublishFails(p) \/ Sign(p)
      BY <2>1, <3>6 DEF TypeOK, PublishFails, Sign, Published, To
    <3>7. QED
      BY <2>2, <3>1, <3>2, <3>3, <3>4, <3>5, <3>6 DEF PassStep
  <2>3. ASSUME NEW p \in Publishers, Crash(p)
        PROVE  work[q] = i /\ pc[q] \in {"create", "write"}
    BY <2>1, <2>3 DEF TypeOK, Crash, EndPass, To
  <2>4. ASSUME DiskFills \/ \E p \in Publishers, j \in Images : View(p, j)
        PROVE  work[q] = i /\ pc[q] \in {"create", "write"}
    BY <2>1, <2>4 DEF DiskFills, View, passVars
  <2>5. QED
    BY <2>2, <2>3, <2>4 DEF CacheStep
<1>2. QED
  BY <1>0, <1>1 DEF Calm, threadVars

LEMMA GatewayStepCalm ==
  ASSUME TypeOK, Filed, Calm, GatewayStep
  PROVE  Calm'
<1>0. UNCHANGED <<files, work, pc>>
  BY GatewayFrame DEF fileVars, passVars
<1>1. \A i \in Images : Writing(i)' = Writing(i)
  BY <1>0 DEF Writing
<1>2. ASSUME NEW g \in Threads, NEW i \in Images, Request(g, i)
      PROVE  Calm'
  <2>1. i \in files
    BY <1>2 DEF Filed, Request
  <2>2. QED
    BY <1>0, <1>1, <1>2, <2>1 DEF TypeOK, Calm, Request, At
<1>3. ASSUME NEW g \in Threads, ThreadStep(g)
      PROVE  Calm'
  <2>1. \A h \in Threads : thread'[h] # "idle" => /\ thread[h] # "idle"
                                                  /\ want'[h] = want[h]
                                                  /\ early'[h] = early[h]
    BY <1>3 DEF TypeOK, ThreadStep, Expired, Stat, StatRefused, OpenFile, Read, Sent, Close, At
  <2>2. \A h \in Threads : thread[h] # "idle" => want[h] \in Images
    BY DEF TypeOK, Calm
  <2>3. QED
    BY <1>0, <1>1, <2>1, <2>2 DEF Calm
<1>4. QED
  BY <1>2, <1>3 DEF GatewayStep

LEMMA CacheStepPrefix ==
  ASSUME Prefix, ServedWhole, CacheStep
  PROVE  Prefix' /\ ServedWhole'
<1>1. UNCHANGED threadVars /\ cut \subseteq cut'
  BY CacheFrame
<1>2. QED
  BY <1>1 DEF Prefix, ServedWhole, threadVars

\* An image that nobody writes and of which no write ended early is whole.
LEMMA UnwrittenIsWhole ==
  ASSUME TypeOK, Covered, NEW i \in files \ cut, Writing(i) = {}
  PROVE  Whole(i)
<1>1. (1..Blocks) \ blocks[i] = {}
  BY DEF Covered, Writing
<1>2. blocks[i] \subseteq 1..Blocks
  BY DEF TypeOK
<1>3. QED
  BY <1>1, <1>2 DEF Whole

LEMMA GatewayStepPrefix ==
  ASSUME TypeOK, Covered, Calm, Prefix, ServedWhole, GatewayStep
  PROVE  Prefix' /\ ServedWhole'
<1>0. Blocks \in Nat \ {0} /\ cut' = cut
  BY ImageAssumption, GatewayFrame DEF ImageAssumption
<1>1. ASSUME NEW g \in Threads, NEW i \in Images, Request(g, i)
      PROVE  Prefix' /\ ServedWhole'
  BY <1>0, <1>1 DEF TypeOK, Prefix, ServedWhole, Request, At
<1>2. ASSUME NEW g \in Threads, Close(g)
      PROVE  Prefix' /\ ServedWhole'
  BY <1>0, <1>2 DEF TypeOK, Prefix, ServedWhole, Close, At
<1>3. ASSUME NEW g \in Threads, Stat(g)
      PROVE  Prefix' /\ ServedWhole'
  BY <1>0, <1>3 DEF TypeOK, Prefix, ServedWhole, Stat, At
<1>4. ASSUME NEW g \in Threads, OpenFile(g)
      PROVE  Prefix' /\ ServedWhole'
  <2>1. pos'[g] = 1 /\ got'[g] = {}
    BY <1>4 DEF TypeOK, Prefix, OpenFile, At
  <2>2. pos'[g] # 0 /\ got'[g] = 1..(pos'[g] - 1)
    BY <2>1
  <2>3. ASSUME NEW h \in Threads, h # g
        PROVE  UNCHANGED <<thread[h], want[h], pos[h], got[h], early[h]>>
    BY <1>4, <2>3 DEF TypeOK, OpenFile, At
  <2>4. thread'[g] = "read" /\ want'[g] = want[g] /\ early'[g] = early[g]
    BY <1>4 DEF TypeOK, OpenFile, At
  <2>5. QED
    BY <1>0, <2>2, <2>3, <2>4 DEF Prefix, ServedWhole
<1>5. ASSUME NEW g \in Threads, Read(g)
      PROVE  Prefix' /\ ServedWhole'
  <2>1. want[g] \in files /\ want[g] \in Images /\ pos[g] \in 1..(Blocks + 1)
    BY <1>0, <1>5 DEF TypeOK, Calm, Prefix, Read
  <2>2. ASSUME NEW h \in Threads, h # g
        PROVE  UNCHANGED <<thread[h], want[h], pos[h], got[h], early[h]>>
    BY <1>5, <2>2 DEF TypeOK, Read, At
  <2>3. want'[g] = want[g] /\ early'[g] = early[g]
    BY <1>5 DEF Read
  <2>4. CASE early[g] \/ want[g] \in cut
    <3>1. thread'[g] \in {"read", "sent"} /\ (thread'[g] = "read" => pos'[g] # 0)
      BY <1>0, <1>5, <2>1, <2>4 DEF TypeOK, Read, At
    <3>2. QED
      BY <1>0, <2>2, <2>3, <2>4, <3>1 DEF Prefix, ServedWhole
  <2>5. CASE ~early[g] /\ want[g] \notin cut
    <3>1. blocks[want[g]] = 1..Blocks
      BY <1>5, <2>1, <2>5, UnwrittenIsWhole DEF Calm, Read, Whole
    <3>2. Length(want[g]) = Blocks
      BY <2>1, <3>1, WholeLength DEF Whole
    <3>3. got[g] = 1..(pos[g] - 1)
      BY <1>5, <2>5 DEF Prefix, Read
    <3>4. CASE pos[g] =< Blocks
      <4>1. /\ thread'[g] = "read" /\ pos'[g] = pos[g] + 1
            /\ got'[g] = got[g] \union ({pos[g]} \intersect blocks[want[g]])
        BY <1>5, <3>2, <3>4 DEF TypeOK, Read
      <4>2. got'[g] = 1..(pos'[g] - 1)
        BY <2>1, <3>1, <3>3, <3>4, <4>1
      <4>3. pos'[g] # 0
        BY <2>1, <4>1
      <4>4. QED
        BY <1>0, <2>2, <2>3, <4>1, <4>2, <4>3 DEF Prefix, ServedWhole
    <3>5. CASE ~(pos[g] =< Blocks)
      <4>1. thread'[g] = "sent" /\ got'[g] = got[g]
        BY <1>5, <3>2, <3>5 DEF TypeOK, Read, At
      <4>2. got'[g] = 1..Blocks
        BY <1>0, <2>1, <3>3, <3>5, <4>1
      <4>3. QED
        BY <1>0, <2>2, <2>3, <4>1, <4>2 DEF Prefix, ServedWhole
    <3>6. QED
      BY <3>4, <3>5
  <2>6. QED
    BY <2>4, <2>5
<1>6. QED
  BY <1>1, <1>2, <1>3, <1>4, <1>5 DEF GatewayStep, ThreadStep, Expired, StatRefused, Sent

-----------------------------------------------------------------------------
(* The theorems *)

LEMMA InitInv == Init => CacheInv
<1>1. Init => TypeOK
  <2>1. Blocks \in Nat /\ MaxViews \in Nat /\ MaxCrashes \in Nat
    BY ImageAssumption DEF ImageAssumption
  <2>2. 0 \in 0..MaxViews /\ 0 \in 0..MaxCrashes /\ 0 \in 0..Blocks /\ 0 \in 0..(Blocks + 1)
    BY <2>1
  <2>3. QED
    BY <2>2 DEF Init, TypeOK
<1>2. Init => Working /\ Filed /\ Covered /\ Calm /\ Prefix /\ ServedWhole
  BY DEF Init, Working, Filed, Covered, Calm, Prefix, ServedWhole
<1>3. QED
  BY <1>1, <1>2 DEF CacheInv

LEMMA NextInv == CacheInv /\ [Next]_vars => CacheInv'
<1> SUFFICES ASSUME CacheInv, [Next]_vars
             PROVE  CacheInv'
  OBVIOUS
<1>1. CASE CacheStep
  BY <1>1, CacheStepType, CacheStepWorking, CacheStepFiled, CacheStepCovered, CacheStepCalm,
     CacheStepPrefix DEF CacheInv
<1>2. CASE GatewayStep
  BY <1>2, GatewayStepType, GatewayStepFiles, GatewayStepCalm, GatewayStepPrefix DEF CacheInv
<1>3. CASE UNCHANGED vars
  BY <1>3 DEF CacheInv, TypeOK, Working, Filed, Covered, Calm, Prefix, ServedWhole, Writing,
              vars, fileVars, rolloutVars, passVars, threadVars, counters
<1>4. QED
  BY <1>1, <1>2, <1>3, NextSplits

LEMMA CacheInvariant == Spec => []CacheInv
<1>1. QED
  BY InitInv, NextInv, PTL DEF Spec

\* Every variable of the publishers, the files and the threads has its type: offsets and
\* positions stay within an image, whoever writes, truncates or fails meanwhile.
THEOREM TypeCorrect == Spec => []TypeOK
<1>1. CacheInv => TypeOK
  BY DEF CacheInv
<1>2. QED
  BY <1>1, CacheInvariant, PTL

\* An image that no Guardian is writing is whole and every link leads to a file, for any
\* number of Guardians that truncate and fill the same file at once, unless a write of it
\* ended early (publish_bytes).
THEOREM SettledFilesAreWhole == Spec => []SettledWhole
<1>1. CacheInv => SettledWhole
  <2> SUFFICES ASSUME CacheInv, NEW i \in Images \ cut, Writing(i) = {}
               PROVE  /\ i \in files => Whole(i)
                      /\ (\E p \in Publishers : i \in links[p]) => i \in files
    BY DEF SettledWhole
  <2>1. i \in files => Whole(i)
    BY UnwrittenIsWhole DEF CacheInv
  <2>2. (\E p \in Publishers : i \in links[p]) => i \in files
    BY DEF CacheInv, Filed
  <2>3. QED
    BY <2>1, <2>2
<1>2. QED
  BY <1>1, CacheInvariant, PTL

\* A gateway thread whose request came when nobody was about to write the image sends the
\* whole image, whoever publishes it again while the thread reads (handle).
THEOREM ThreadsServeWhole == Spec => []ServedWhole
<1>1. CacheInv => ServedWhole
  BY DEF CacheInv
<1>2. QED
  BY <1>1, CacheInvariant, PTL
=============================================================================
