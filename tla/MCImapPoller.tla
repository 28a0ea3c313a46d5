---------------------------- MODULE MCImapPoller ----------------------------
(***************************************************************************)
(* Mailboxes with a message that cannot be parsed among others, which are  *)
(* the same email, delivered twice, or two emails.                         *)
(***************************************************************************)
EXTENDS ImapPoller, MCOrchestrator

CONSTANTS k1, k2   \* dedupe keys

MCMessage == 1 .. 3

DuplicateMail == (1 :> None) @@ (2 :> k1) @@ (3 :> k1)

FourMessages == 1 .. 4

TwoMailsAndACopy == (1 :> k1) @@ (2 :> None) @@ (3 :> k2) @@ (4 :> k1)

TwoMails == (1 :> k1) @@ (2 :> None) @@ (3 :> k2)

\* One that parks the ticket.
CriticalVerdict == {v \in MCVerdict : v.urgency = "critical"}

=============================================================================
