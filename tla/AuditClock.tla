----------------------------- MODULE AuditClock -----------------------------
(***************************************************************************)
(* The audit log as it is read back.  store.Apply is one transaction, but  *)
(* its row is stamped with now(), which in PostgreSQL is the moment the    *)
(* transaction began, and AuditLog sorts by that stamp.  The row lock is   *)
(* only taken after the transaction has begun, so the order of the stamps  *)
(* need not be the order in which the transitions were made.               *)
(*                                                                         *)
(* This module splits Apply in its begin and the rest.  Time is counted in *)
(* committed audit rows of the ticket: nothing finer can be told apart in  *)
(* its log.                                                                *)
(***************************************************************************)
EXTENDS OrchestratorProperties

VARIABLES
  begun,  \* when the open transaction of a worker began, None without one
  stamps  \* created_at of each audit row of a ticket

lvars == <<vars, begun, stamps>>

\* The steps of a worker that are a call of store.Apply.
ApplySteps == {"claim", "parkError", "park", "route", "startDraft",
               "parkReply", "resolve", "redraft"}

LogInit ==
  /\ Init
  /\ begun  = [w \in Worker |-> None]
  /\ stamps = [t \in Ticket |-> << >>]

Now(t) == Len(audit[t])

\* The row that this step adds to the log of t, if it adds one, has stamp s.
Stamp(t, s) ==
  stamps' = IF audit'[t] = audit[t] THEN stamps
            ELSE [stamps EXCEPT ![t] = Append(@, s)]

BeginTx(w) ==
  /\ pc[w] \in ApplySteps /\ begun[w] = None
  /\ begun' = [begun EXCEPT ![w] = Now(T(w))]
  /\ UNCHANGED <<vars, stamps>>

\* Mutant: the transaction is not ended, and the next one is part of it.
KeepTx(w) ==
  /\ pc[w] \in ApplySteps /\ begun[w] # None
  /\ Serve(w)
  /\ Stamp(T(w), begun[w])
  /\ UNCHANGED begun

\* The rest of Apply: lock the row, look at the state, write, commit or roll
\* back.
EndTx(w) ==
  /\ pc[w] \in ApplySteps /\ begun[w] # None
  /\ Serve(w)
  /\ Stamp(T(w), begun[w])
  /\ begun' = [begun EXCEPT ![w] = None]

\* A review does nothing before its transaction, so the moment that began is
\* any moment up to now.
ReviewAt(w, t, d, s) ==
  /\ ReviewClassification(w, t, d)
  /\ Stamp(t, s)
  /\ UNCHANGED begun

OtherStep(w) ==
  /\ \/ pc[w] \notin ApplySteps /\ Serve(w)
     \/ \E k \in Key : ReceiveEmail(w, k)
     \/ \E t \in Ticket, x \in Text \cup {Blank} : ApproveReply(w, t, x)
     \/ \E t \in Ticket : RejectReply(w, t)
  /\ UNCHANGED <<begun, stamps>>

\* Whatever ends a request rolls its transaction back.
LogFault ==
  /\ \/ Crash /\ begun' = [w \in Worker |-> None]
     \/ \E w \in Worker : /\ SkipAlert(w) \/ Interrupt(w)
                          /\ begun' = [begun EXCEPT ![w] = None]
  /\ UNCHANGED stamps

LogNext ==
  \/ LogFault
  \/ \E w \in Worker :
       \/ BeginTx(w) \/ EndTx(w) \/ OtherStep(w)
       \/ \E t \in Ticket, d \in Decision : \E s \in 0 .. Now(t) :
            ReviewAt(w, t, d, s)

\* A human acts on what the console shows: a review or a decision is sent
\* while the ticket waits for one.
ReviewsOnSight ==
  \A t \in Ticket :
    state[t] = "AWAITING_CLASSIFICATION_REVIEW" /\ state'[t] = "ROUTED" =>
      stamps'[t][Len(stamps'[t])] = Now(t)

DecidesOnSight ==
  \A w \in Worker : pc[w] \in Free /\ pc'[w] \in DecisionSteps =>
    state[job'[w].ticket] = "AWAITING_REPLY_APPROVAL"

LogSightSpec ==
  LogInit /\ [][LogNext /\ ReviewsOnSight /\ DecidesOnSight]_lvars

\* And besides, decisions about one ticket do not overlap.
LogTurnsSpec == LogInit /\ [][LogNext /\ ReviewsOnSight /\ TakesTurns]_lvars

-----------------------------------------------------------------------------
\* AuditLog: ORDER BY created_at, so row k of the answer is the one that has
\* k - 1 rows before it.  Equal stamps stand for transactions that began in
\* either order; the later row is put first, to see the difference.
AuditLog(t) ==
  LET Row       == 1 .. Now(t)
      Before(i) == {j \in Row : \/ stamps[t][j] < stamps[t][i]
                                \/ stamps[t][j] = stamps[t][i] /\ j > i}
  IN  [k \in Row |-> audit[t][CHOOSE i \in Row : Cardinality(Before(i)) = k - 1]]

\* "A complete, replayable history": what GET /audit returns of a ticket is a
\* path from NEW to the state the ticket is in, although the rows are sorted
\* by the moments their transactions began.
LogReplays == \A t \in Ticket : LeadsTo(AuditLog(t), state[t])

=============================================================================
