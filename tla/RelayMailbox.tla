---------------------------- MODULE RelayMailbox ----------------------------
(***************************************************************************)
(* The refinement of Mailbox by ContextRelay, for each request: its job is *)
(* wherever its id is, in the tenant's queue, in a poll that is about to   *)
(* reply, or in a client.                                                  *)
(***************************************************************************)
EXTENDS ContextRelay

StatusOf(r) ==
  IF image[r] \in {"notify", "wait", "forget", "unqueue"} THEN "open" ELSE image[r]

HeldSomewhere(r) ==
  \/ \E h \in Polls : popped[h] = r
  \/ \E c \in Clients : job[c] = r

HandOf(r) ==
  IF image[r] = "new" THEN "none"
  ELSE IF r \in Elements(queue[TenantOf[r]]) THEN "queued"
  ELSE IF HeldSomewhere(r) THEN "held"
  ELSE "over"

MB == INSTANCE Mailbox WITH
  status <- [r \in Requests |-> StatusOf(r)],
  hand <- [r \in Requests |-> HandOf(r)]

\* The relay with its queues, polls, clients and failures does with a request nothing
\* that the abstract mailbox does not do: its job is not handed out twice and does not
\* come back, no late, second or foreign result reaches the requester, and it is
\* served nothing but an image (poll, result, image).
MailboxImplemented == MB!Spec
=============================================================================
