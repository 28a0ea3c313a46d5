------------------------------ MODULE ImapPoller ------------------------------
(***************************************************************************)
(* The IMAP poller (internal/ingest/imap) next to the other users of the   *)
(* orchestrator.  The poller is one goroutine: it searches the mailbox for *)
(* unseen messages and handles them one after the other, by a fetch, a     *)
(* parse, a call of Ingest and a store of the Seen flag.  Only the mailbox *)
(* outlives a crash.                                                       *)
(*                                                                         *)
(* The fetch asks for BODY[] and not for BODY.PEEK[], on which an IMAP     *)
(* server sets the Seen flag by itself (RFC 3501, section 6.4.5).          *)
(***************************************************************************)
EXTENDS OrchestratorProperties

CONSTANTS
  Message, \* messages that may be delivered, by their sequence number
  KeyOf,   \* the dedupe key ParseRFC822 gives a message, None if it fails
  Poller   \* the worker that polls

ASSUME PollerAssumption == Poller \in Worker
ASSUME MessageAssumption == /\ Message \subseteq Nat
                            /\ KeyOf \in [Message -> Key \cup {None}]
                            /\ None \notin Message

VARIABLES
  flag,    \* a message is not delivered yet, unseen or seen
  batch,   \* the messages of this poll that are still to handle
  current  \* the message that is being ingested

mailVars == <<flag, batch, current>>

pvars == <<vars, mailVars>>

Unseen == {m \in Message : flag[m] = "unseen"}

\* What is still to handle has not been handled before.
PollerTypeOK ==
  /\ flag    \in [Message -> {"absent", "unseen", "seen"}]
  /\ batch   \subseteq Unseen
  /\ current \in Message \cup {None}

PollerInit ==
  /\ Init
  /\ flag = [m \in Message |-> "absent"]
  /\ batch = {}
  /\ current = None

SetSeen(m) == flag' = [flag EXCEPT ![m] = "seen"]

-----------------------------------------------------------------------------
Deliver(m) ==
  /\ flag[m] = "absent"
  /\ flag' = [flag EXCEPT ![m] = "unseen"]
  /\ UNCHANGED <<vars, batch, current>>

\* Mutant: the search has no criteria.
SearchAll ==
  /\ current = None /\ batch = {} /\ Unseen # {}
  /\ batch' = {m \in Message : flag[m] # "absent"}
  /\ UNCHANGED <<vars, flag, current>>

\* pollOnce: search for unseen messages.
Poll ==
  /\ current = None /\ batch = {} /\ Unseen # {}
  /\ batch' = Unseen
  /\ UNCHANGED <<vars, flag, current>>

\* The next message of the batch, in the order of the sequence numbers.
InTurn(m) == current = None /\ m \in batch /\ \A n \in batch : m <= n

\* Mutant: a message that cannot be parsed ends the poll, and is left unseen
\* to be looked at again.
FetchOrStop(m) ==
  /\ InTurn(m)
  /\ \/ /\ KeyOf[m] = None
        /\ batch' = {}
        /\ UNCHANGED <<vars, current, flag>>
     \/ /\ KeyOf[m] # None
        /\ SetSeen(m)
        /\ batch' = batch \ {m}
        /\ ReceiveEmail(Poller, KeyOf[m])
        /\ current' = m

\* Mutant: one FETCH for the whole batch, which marks all of it.
FetchWholeBatch(m) ==
  /\ InTurn(m)
  /\ flag' = [n \in Message |-> IF n \in batch THEN "seen" ELSE flag[n]]
  /\ batch' = batch \ {m}
  /\ \/ /\ KeyOf[m] = None
        /\ UNCHANGED <<vars, current>>
     \/ /\ KeyOf[m] # None
        /\ ReceiveEmail(Poller, KeyOf[m])
        /\ current' = m

\* handleMessage up to the first store call of Ingest: the fetch sets the
\* flag; a message that cannot be parsed is skipped.
FetchMessage(m) ==
  /\ InTurn(m)
  /\ SetSeen(m)
  /\ batch' = batch \ {m}
  /\ \/ /\ KeyOf[m] = None
        /\ UNCHANGED <<vars, current>>
     \/ /\ KeyOf[m] # None
        /\ ReceiveEmail(Poller, KeyOf[m])
        /\ current' = m

\* The fetch fails, and the server may or may not have served it.
FetchFails(m) ==
  /\ InTurn(m)
  /\ SetSeen(m) \/ UNCHANGED flag
  /\ batch' = batch \ {m}
  /\ UNCHANGED <<vars, current>>

\* Ingest returned a ticket: mark the message seen.
MarkSeen ==
  /\ current # None /\ pc[Poller] = "done"
  /\ SetSeen(current)
  /\ current' = None
  /\ UNCHANGED <<vars, batch>>

\* Ingest returned an error: log it and go on with the batch.
IngestFailed ==
  /\ current # None /\ pc[Poller] = "failed"
  /\ current' = None
  /\ UNCHANGED <<vars, flag, batch>>

\* The store of the flag fails.
MarkFails ==
  /\ current # None /\ pc[Poller] = "done"
  /\ current' = None
  /\ UNCHANGED <<vars, flag, batch>>

Restart ==
  /\ Crash
  /\ batch' = {} /\ current' = None
  /\ UNCHANGED flag

-----------------------------------------------------------------------------
\* What the poller does by itself.
PollerStep ==
  \/ Poll \/ MarkSeen \/ IngestFailed
  \/ \E m \in Message : FetchMessage(m)

\* Requests come to the other workers; each worker is served.
OthersStep ==
  /\ \/ \E w \in Worker \ {Poller} : Request(w)
     \/ \E w \in Worker : Serve(w)
  /\ UNCHANGED mailVars

MailFault ==
  \/ Restart \/ MarkFails
  \/ \E m \in Message : FetchFails(m)
  \/ (\E w \in Worker : SkipAlert(w) \/ Interrupt(w)) /\ UNCHANGED mailVars

CalmMailNext == PollerStep \/ OthersStep \/ \E m \in Message : Deliver(m)

MailNext == CalmMailNext \/ MailFault

MailSpec == PollerInit /\ [][MailNext]_pvars

CalmMailSpec == PollerInit /\ [][CalmMailNext]_pvars

-----------------------------------------------------------------------------
(***************************************************************************)
(* Properties                                                              *)
(***************************************************************************)

\* The message in hand and the work of the poller's goroutine belong
\* together, whatever the other goroutines do to the same email: the key it
\* is about to insert, or the ticket it works on, is that of the message, and
\* when Ingest has returned without an error that ticket is in the database.
WorksOnCurrent ==
  current # None =>
    /\ KeyOf[current] # None
    /\ pc[Poller] = "insert" => job[Poller].key = KeyOf[current]
    /\ T(Poller) # None => email[T(Poller)] = KeyOf[current]
    /\ pc[Poller] = "done" => \E t \in Ticket : email[t] = KeyOf[current]

\* No poll looks for these again, and nothing came of them.
Lost ==
  {m \in Message :
     /\ flag[m] = "seen" /\ KeyOf[m] # None
     /\ current # m /\ m \notin batch
     /\ \A t \in Ticket : email[t] # KeyOf[m]}

\* What a crash, a failed fetch or a failed Ingest costs: the message in hand,
\* or the one whose turn it was.  The rest of the batch is still unseen, so
\* that a later poll finds it, and a mail that once had its ticket is safe.
FaultCostsOneMail ==
  [][\A m \in Lost' \ Lost :
       /\ m = current \/ InTurn(m)
       /\ \A n \in batch \ {m} : flag'[n] = "unseen"]_pvars

\* On a day without faults every delivered message that can be parsed gets to
\* a human as a ticket, or a human is done with that ticket already, although
\* bad messages are in the same batch and other goroutines ingest the same
\* email at the same time.
MailReachesHuman ==
  \A m \in Message :
    flag[m] = "unseen" /\ KeyOf[m] # None
      ~> \E t \in Ticket : email[t] = KeyOf[m] /\ state[t] \in Checkpoint \cup {"RESOLVED"}

\* "Marking \Seen only happens after a successful Ingest, so a crash between
\* ingest and flag-set is safe": a message that is seen and not in hand has
\* a ticket, so none is lost.
SeenIsIngested ==
  \A m \in Message :
    flag[m] = "seen" /\ current # m /\ KeyOf[m] # None =>
      \E t \in Ticket : email[t] = KeyOf[m]

=============================================================================
