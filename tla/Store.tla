-------------------------------- MODULE Store --------------------------------
(***************************************************************************)
(* The PostgreSQL database as internal/store uses it: one variable per     *)
(* table and one operator per statement or transaction.  Each operator is  *)
(* an atomic step, because each is a single statement or a transaction     *)
(* that takes the ticket row FOR UPDATE before it looks at it.             *)
(*                                                                         *)
(* Rows of a ticket are kept in insertion order, which is the created_at   *)
(* order the queries sort by; a row's position is its id.                  *)
(***************************************************************************)
EXTENDS Domain, Naturals, Sequences

CONSTANTS
  Ticket,   \* ticket ids uuid.New may return
  Key,      \* dedupe keys of the emails that may arrive (never empty:
            \* both adapters fall back to a hash of the message)
  Verdict,  \* classifications the model may return
  Decision, \* review decisions a human may post
  Text,     \* reply texts that are not blank
  None      \* absence: no row, no value

Blank  == ""         \* a reply text that is empty or only white space
Absent == "ABSENT"   \* the state of a ticket id that has no row yet

ASSUME VerdictAssumption  == Verdict  \subseteq Classification
ASSUME DecisionAssumption == Decision \subseteq ReviewDecision
ASSUME KeyAssumption      == None \notin Key
ASSUME TextAssumption     == Blank \notin Text /\ None \notin Text

VARIABLES
  state,           \* tickets.state
  labels,          \* tickets.urgency, .type, .department
  email,           \* the dedupe key of the email row of a ticket
  classifications, \* the classification rows of a ticket
  replies,         \* the reply rows of a ticket
  audit            \* the audit rows of a ticket

storeVars == <<state, labels, email, classifications, replies, audit>>

Actor == {"system", "qwen", "human"}   \* "human:<reviewer>" without the name

ReplyStatus == {"draft", "approved", "rejected"}

ReplyRow == [draft     : Text \cup {Blank},
             status    : ReplyStatus,
             finalText : Text \cup {Blank, None}]

\* The payload is kept only where it is the text of an approved reply.
AuditRow == [from : TicketState, to : TicketState, actor : Actor,
             text : Text \cup {None}]

StoreTypeOK ==
  /\ state           \in [Ticket -> TicketState \cup {Absent}]
  /\ labels          \in [Ticket -> Labels]
  /\ email           \in [Ticket -> Key \cup {None}]
  /\ classifications \in [Ticket -> Seq(Verdict)]
  /\ replies         \in [Ticket -> Seq(ReplyRow)]
  /\ audit           \in [Ticket -> Seq(AuditRow)]

StoreInit ==
  /\ state           = [t \in Ticket |-> Absent]
  /\ labels          = [t \in Ticket |-> Unlabelled]
  /\ email           = [t \in Ticket |-> None]
  /\ classifications = [t \in Ticket |-> << >>]
  /\ replies         = [t \in Ticket |-> << >>]
  /\ audit           = [t \in Ticket |-> << >>]

-----------------------------------------------------------------------------
(***************************************************************************)
(* CreateTicketWithEmail is a lookup by dedupe key and, when that finds no *)
(* row, two inserts that commit together.  The lookup takes no lock: what  *)
(* stops two transactions that both found nothing is the UNIQUE constraint *)
(* on emails.dedupe_key.                                                   *)
(***************************************************************************)
\* Mutant: the lookup has lost its WHERE clause.
AnyHolder(k) == {t \in Ticket : email[t] # None}

Holders(k) == {t \in Ticket : email[t] = k}

\* Mutant: the column is not UNIQUE.
AnyKey(k) == TRUE

UniqueKey(k) == Holders(k) = {}

InsertTicketAndEmail(t, k) ==
  /\ state' = [state EXCEPT ![t] = "NEW"]
  /\ email' = [email EXCEPT ![t] = k]
  /\ UNCHANGED <<labels, classifications, replies, audit>>

\* COALESCE($n, column): a field that is not set keeps the stored value.
Coalesce(set, stored) ==
  LET Or(new, old) == IF new = Unset THEN old ELSE new
  IN  [urgency    |-> Or(set.urgency,    stored.urgency),
       type       |-> Or(set.type,       stored.type),
       department |-> Or(set.department, stored.department)]

\* Mutant: Apply only looks whether the ticket exists.
Exists(t, from) == state[t] # Absent

\* The compare-and-set of Apply: ErrNotFound and ErrStateConflict otherwise.
Matches(t, from) == state[t] = from

\* Mutant: the ticket changes and no audit row is written.
Unaudited(t, to, actor, set, text) ==
  /\ state'  = [state  EXCEPT ![t] = to]
  /\ labels' = [labels EXCEPT ![t] = Coalesce(set, labels[t])]
  /\ UNCHANGED <<email, classifications, replies, audit>>

\* Apply once the guard has passed: the ticket's state and labels and the
\* audit row change in one transaction.
Transition(t, to, actor, set, text) ==
  /\ state'  = [state  EXCEPT ![t] = to]
  /\ labels' = [labels EXCEPT ![t] = Coalesce(set, labels[t])]
  /\ audit'  = [audit  EXCEPT ![t] = Append(@,
                 [from |-> state[t], to |-> to, actor |-> actor, text |-> text])]
  /\ UNCHANGED <<email, classifications, replies>>

SaveClassification(t, verdict) ==
  /\ classifications' = [classifications EXCEPT ![t] = Append(@, verdict)]
  /\ UNCHANGED <<state, labels, email, replies, audit>>

SaveReplyDraft(t, text) ==
  /\ replies' = [replies EXCEPT ![t] = Append(@,
                  [draft |-> text, status |-> "draft", finalText |-> None])]
  /\ UNCHANGED <<state, labels, email, classifications, audit>>

\* Mutant: ORDER BY created_at without DESC.
OldestReplyID(t) == IF replies[t] = << >> THEN 0 ELSE 1

\* LatestReplyID: ORDER BY created_at DESC LIMIT 1; 0 stands for ErrNotFound.
LatestReplyID(t) == Len(replies[t])

\* An UPDATE by id alone: neither the ticket's state nor the reply's status
\* is looked at.
FinalizeReply(t, id, status, text) ==
  /\ replies' = [replies EXCEPT ![t][id].status = status,
                                ![t][id].finalText = text]
  /\ UNCHANGED <<state, labels, email, classifications, audit>>

=============================================================================
