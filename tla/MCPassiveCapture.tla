-------------------------- MODULE MCPassiveCapture --------------------------
(***************************************************************************)
(* One or two connections, of one session or of a session and none; and    *)
(* three messages, one without a body and two whose bodies look like       *)
(* messages, in at most three segments.                                    *)
(***************************************************************************)
EXTENDS Capture

CONSTANTS a, b

Sessions == [c \in Connections |-> IF c = a THEN "s" ELSE None]

ThreeBodies == <<1, 0, 2>>

\* The first and the third body begin like messages of their own, the latter one with an
\* empty line.
LikeStarts == {[message |-> 1, part |-> 1], [message |-> 3, part |-> 1]}

LikeBlanks == {[message |-> 3, part |-> 1]}

LikeLengths == [c \in LikeBlanks |-> 0]
=============================================================================
