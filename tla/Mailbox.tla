------------------------------ MODULE Mailbox -------------------------------
(***************************************************************************)
(* What version 1 of the relay promises for each request, without queues,  *)
(* polls, clients and tenants: its job is handed out at most once, whoever *)
(* holds it answers at most once and only while the requester still waits, *)
(* and the requester is served exactly when the answer is an image.        *)
(* Requests have nothing to do with each other, so several may step at     *)
(* once, as they do when the server restarts.                              *)
(***************************************************************************)
CONSTANT Requests

VARIABLES
  status,  \* of a request: new, open, served, hidden (404) or gone
  hand,    \* of its job: none yet, queued, held by a poll or a client, over
  answer   \* what the requester was sent

vars == <<status, hand, answer>>

Init ==
  /\ status = [r \in Requests |-> "new"]
  /\ hand = [r \in Requests |-> "none"]
  /\ answer = [r \in Requests |-> "none"]

Submit(r) ==
  /\ status[r] = "new"
  /\ status'[r] = "open" /\ hand'[r] = "queued" /\ answer'[r] = answer[r]

Refuse(r) ==
  /\ status[r] = "new"
  /\ status'[r] = "hidden" /\ hand'[r] = "over" /\ answer'[r] = answer[r]

\* Also after the requester has hung up: nobody takes its job out of the queue.
Take(r) ==
  /\ hand[r] = "queued"
  /\ status'[r] = status[r] /\ hand'[r] = "held" /\ answer'[r] = answer[r]

\* Whoever holds the job gives it up or dies.
Lose(r) ==
  /\ hand[r] = "held"
  /\ status'[r] = status[r] /\ hand'[r] = "over" /\ answer'[r] = answer[r]

Answer(r) ==
  /\ status[r] = "open" /\ hand[r] = "held" /\ answer[r] = "none"
  /\ answer'[r] \in {"image", "refused"}
  /\ status'[r] = "open" /\ hand'[r] = "over"

\* The requester is replied to; a job that nobody has taken is withdrawn.
Settle(r) ==
  /\ status[r] = "open"
  /\ status'[r] = IF answer[r] = "image" THEN "served" ELSE "hidden"
  /\ hand'[r] = IF hand[r] = "queued" THEN "over" ELSE hand[r]
  /\ answer'[r] = answer[r]

HangUp(r) ==
  /\ status[r] = "open"
  /\ status'[r] = "gone" /\ hand'[r] = hand[r] /\ answer'[r] = answer[r]

\* The server forgets the request; a client may still hold its job.
Forgotten(r) ==
  /\ status[r] # "new"
  /\ status'[r] = IF status[r] = "open" THEN "gone" ELSE status[r]
  /\ hand'[r] \in IF hand[r] = "held" THEN {"held", "over"} ELSE {"over"}
  /\ answer'[r] = answer[r]

Stays(r) == status'[r] = status[r] /\ hand'[r] = hand[r] /\ answer'[r] = answer[r]

Step(r) ==
  \/ Stays(r)
  \/ Submit(r) \/ Refuse(r) \/ Take(r) \/ Lose(r) \/ Answer(r) \/ Settle(r) \/ HangUp(r)
  \/ Forgotten(r)

Spec == Init /\ [][\A r \in Requests : Step(r)]_vars
=============================================================================
