----------------------------- MODULE Reassembly -----------------------------
(***************************************************************************)
(* From the packets of one direction of a connection to its messages       *)
(* (reassemble and parse_http_messages of src/passive_capture.rs).  What   *)
(* is on the wire is a sequence of cells: a message is a cell for its head *)
(* (start line, headers and empty line) and one for each unit of its body. *)
(* A body is anything: a unit of it may hold what looks like a start line, *)
(* an empty line or a content-length.  A window captures segments of the   *)
(* wire in any order, again, overlapping, or not at all.                   *)
(***************************************************************************)
EXTENDS Integers, Sequences, FiniteSets, FiniteSetsExt

CONSTANTS
  Bodies,     \* the length of the body of each message, which its head announces
  Lookalikes, \* cells of bodies that hold what looks like the start of a message
  Blanks,     \* cells of bodies that hold an empty line
  Lengths,    \* for the cells of bodies that hold a content-length, its value
  Modulus,    \* of the sequence numbers: 2^32 in the code
  Numbers,    \* sequence numbers that the first cell may have
  MaxSegments \* bound: segments of a capture

-----------------------------------------------------------------------------
(* The wire *)

\* Where a message ends and where it begins.
EndOf[m \in 0..Len(Bodies)] == IF m = 0 THEN 0 ELSE EndOf[m - 1] + Bodies[m] + 1

Place(m) == EndOf[m - 1] + 1

Wire ==
  [i \in 1..EndOf[Len(Bodies)] |->
     LET m == CHOOSE m \in 1..Len(Bodies) : i \in Place(m)..EndOf[m]
     IN  [message |-> m, part |-> i - Place(m)]]

\* A window is closed at 256 MiB, far below the modulus (validate_options).
ASSUME ReassemblyAssumption ==
  /\ Bodies \in Seq(Nat)
  /\ Modulus \in Nat \ {0}
  /\ EndOf[Len(Bodies)] < Modulus
  /\ Lookalikes \union Blanks \union DOMAIN Lengths \subseteq {c \in Range(Wire) : c.part # 0}
  /\ \A c \in DOMAIN Lengths : Lengths[c] \in Nat
  /\ Numbers \subseteq 0..(Modulus - 1)
  /\ MaxSegments \in Nat

\* The cells from the i-th to the j-th; its time is its place in the capture.
Segment(number, i, j, time) ==
  [sequence |-> (number + i) % Modulus, time |-> time, cells |-> SubSeq(Wire, i, j)]

Slices == {s \in (1..Len(Wire)) \X (1..Len(Wire)) : s[1] =< s[2]}

-----------------------------------------------------------------------------
(* The code *)

IsHead(cell) == cell.part = 0

\* find_http_start searches the bytes, whatever they belong to.
IsStart(cell) == IsHead(cell) \/ cell \in Lookalikes

IsBlank(cell) == IsHead(cell) \/ cell \in Blanks

Said(cell) == IF IsHead(cell) THEN Bodies[cell.message] ELSE Lengths[cell]

\* What headers say last of the length of the body, or nothing.
Length(head) ==
  LET saying == {i \in 1..Len(head) : IsHead(head[i]) \/ head[i] \in DOMAIN Lengths} IN
  IF saying = {} THEN 0 ELSE Said(head[Max(saying)])

\* sort_by_key is stable.
Before(s, t) == s.sequence < t.sequence \/ (s.sequence = t.sequence /\ s.time < t.time)

Sorted(segments) ==
  CHOOSE s \in Bijection(DOMAIN segments, Range(segments)) :
    \A j, k \in DOMAIN s : j < k => Before(s[j], s[k])

\* Mutant: what overlaps is appended again.
Extended_Overlapping(stream, segment, base) ==
  LET start == (segment.sequence - base) % Modulus
      n == Len(stream.cells) IN
  IF start > n \/ n - start >= Len(segment.cells) THEN stream
  ELSE [cells |-> stream.cells \o segment.cells,
        times |-> stream.times \o [k \in 1..Len(segment.cells) |-> segment.time]]

\* The step of the loop: a segment behind a gap or without anything new is left out.
\* times stands for the marks: the segment that each cell is from.
Extended(stream, segment, base) ==
  LET start == (segment.sequence - base) % Modulus
      n == Len(stream.cells)
      rest == SubSeq(segment.cells, n - start + 1, Len(segment.cells)) IN
  IF start > n \/ n - start >= Len(segment.cells) THEN stream
  ELSE [cells |-> stream.cells \o rest,
        times |-> stream.times \o [k \in 1..Len(rest) |-> segment.time]]

Reassembled(segments) ==
  LET sorted == Sorted(segments)
      stream[k \in 0..Len(sorted)] ==
        IF k = 0 THEN [cells |-> <<>>, times |-> <<>>]
        ELSE Extended(stream[k - 1], sorted[k], sorted[1].sequence)
  IN  stream[Len(sorted)]

\* A turn of the loop: from the offset look for a start, from there for an empty line,
\* and take the body that the headers between them announce.  A message that is not all
\* there ends the loop.  (A head that is not text, a chunk that is none or a body above
\* the limit end capture_once, which is CaptureFails of PassiveCapture.)
Parsed(stream, state) ==
  LET n == Len(stream.cells)
      starts == {i \in state.offset..n : IsStart(stream.cells[i])}
      start == Min(starts)
      blanks == {i \in start..n : IsBlank(stream.cells[i])}
      blank == Min(blanks)
      head == SubSeq(stream.cells, start, blank)
      end == blank + Length(head)
  IN  IF starts = {} \/ blanks = {} \/ end > n THEN state
      ELSE [offset |-> end + 1,
            found |-> Append(state.found,
                        [head |-> head, body |-> SubSeq(stream.cells, blank + 1, end),
                         time |-> stream.times[start]])]

\* No loop takes more turns than there are cells.
Messages(stream) ==
  LET n == Len(stream.cells)
      loop[k \in 0..n] == IF k = 0 THEN [offset |-> 1, found |-> <<>>]
                          ELSE Parsed(stream, loop[k - 1])
  IN  loop[n].found

-----------------------------------------------------------------------------
(* What it promises *)

Captures(number) ==
  UNION {{[t \in 1..n |-> Segment(number, s[t][1], s[t][2], t)] : s \in [1..n -> Slices]} :
         n \in 1..MaxSegments}

Wraps(number) == number + Len(Wire) >= Modulus

\* Whether a segment has the i-th cell of the wire.
Has(number, segment, i) ==
  \E k \in 1..Len(segment.cells) : (number + i) % Modulus = (segment.sequence + k - 1) % Modulus

\* The cells from the first captured one to the first that is missing.
Run(number, segments) ==
  LET seen == {i \in 1..Len(Wire) : \E s \in Range(segments) : Has(number, s, i)} IN
  {i \in seen : \A j \in Min(seen)..i : j \in seen}

\* A stream that begins in a body, whose head was not captured, may hold what looks like
\* a start before the first real one: then the code makes a message of what follows.
Clean(stream) ==
  \A i \in 1..Len(stream.cells) :
    IsStart(stream.cells[i]) => \E j \in 1..i : IsHead(stream.cells[j])

\* The messages that are wholly in the run, each with the time of the first segment, in
\* the order of the sequence numbers, that has its start.
Expected(number, segments) ==
  LET run == Run(number, segments)
      whole == {m \in 1..Len(Bodies) : Place(m)..EndOf[m] \subseteq run}
      first(m) == CHOOSE s \in Range(segments) :
                    /\ Has(number, s, Place(m))
                    /\ \A t \in Range(segments) : Has(number, t, Place(m)) => s = t \/ Before(s, t)
  IN [k \in 1..Cardinality(whole) |->
        LET m == CHOOSE m \in whole : Cardinality({l \in whole : l =< m}) = k IN
        [head |-> <<Wire[Place(m)]>>, body |-> SubSeq(Wire, Place(m) + 1, EndOf[m]),
         time |-> first(m).time]]

\* Unless the sequence numbers wrap or the stream is not clean, the messages are those
\* that are whole in what was captured without a gap.
AllFound ==
  \A number \in Numbers : \A segments \in Captures(number) :
    ~Wraps(number) /\ Clean(Reassembled(segments)) =>
      Messages(Reassembled(segments)) = Expected(number, segments)

\* If they wrap, some may be missing, but none is made up of the parts of others.
NoneMadeUp ==
  \A number \in Numbers : \A segments \in Captures(number) :
    Clean(Reassembled(segments)) =>
      \A k \in 1..Len(Messages(Reassembled(segments))) :
        \E m \in 1..Len(Bodies) :
          LET message == Messages(Reassembled(segments))[k] IN
          /\ message.head = <<Wire[Place(m)]>>
          /\ message.body = SubSeq(Wire, Place(m) + 1, EndOf[m])

\* Whatever order, repetition and loss the packets come with, a message is found when it
\* is whole in what was captured without a gap, from its own segment, and only as it was
\* sent, whatever the bodies hold after the first head: provided that what the stream has
\* before it does not look like a start (reassemble, parse_http_messages).
WholeMessages == AllFound /\ NoneMadeUp
=============================================================================
