----------------------------- MODULE MCGuardian -----------------------------
(***************************************************************************)
(* Files and lines for checking Guardian: a summary in the middle of the   *)
(* file, an alert after it, image bodies, tool outputs whose placeholder   *)
(* quotes an image, and message formats that can be repaired or not.       *)
(***************************************************************************)
EXTENDS Guardian, TLC

Line(n, k, b, s, e) == [pos |-> n, kind |-> k, bulk |-> b, shape |-> s, residue |-> e]
Plain(n, k) == Line(n, k, "none", "sound", "sound")

Meta == Plain(0, "session_meta")

\* A long task that ran into the context limit after its summary.
Overflowed ==
  {Meta, Plain(1, "item"), Plain(2, "compacted"), Line(3, "item", "plain", "sound", "sound"),
   Plain(4, "alert")}

\* A task without a summary, whose only trouble is a stale counter.
AlertOnly == {Meta, Plain(1, "item"), Plain(2, "alert")}

\* An image body in an item that scrubbing also puts right, and the output of a search
\* for images.
Bulky ==
  {Meta, Line(1, "item", "plain", "broken", "sound"),
   Line(2, "item", "quoting", "sound", "sound")}

ContextFiles == {Overflowed, AlertOnly, Bulky}

\* Small enough for two Guardians at once: formats that can be repaired, formats of
\* which one cannot, an error before a summary that cannot be repaired, and the output
\* of a search for images.
MisformedFiles ==
  {{Line(1, "item", "none", "fixable", "fixable"), Plain(2, "unknown")},
   {Line(1, "item", "none", "fixable", "fixable"), Line(2, "item", "none", "broken", "broken"),
    Plain(3, "unknown")},
   {Plain(1, "unknown"), Line(2, "compacted", "none", "broken", "broken"), Plain(3, "alert")},
   {Line(1, "item", "quoting", "broken", "sound")}}

AlertFiles == {AlertOnly}

Alert == Plain(0, "alert")
Item == Plain(0, "item")
Image == Line(0, "item", "plain", "sound", "sound")

AnyLine == {Alert, Item, Image}
AlertOrSearch == {Alert, Line(0, "item", "quoting", "sound", "sound")}
JustItem == {Item}
Nothing == {}

SameRuns == Permutations(OneShots)
=============================================================================
