------------------------ MODULE OrchestratorProperties ------------------------
(***************************************************************************)
(* The correctness properties of the orchestrator over its database.       *)
(***************************************************************************)
EXTENDS Orchestrator, FiniteSets

-----------------------------------------------------------------------------
(***************************************************************************)
(* Workers that drive a ticket                                             *)
(***************************************************************************)

\* The state a ticket is in while a worker at step l works on it.
DrivenState(l) ==
  CASE l \in ClassifySteps -> "CLASSIFYING"
    [] l \in DraftSteps    -> "DRAFTING"
    [] l = "startDraft"    -> "ROUTED"
    [] OTHER               -> Absent

DriveSteps == ClassifySteps \cup DraftSteps \cup {"startDraft"}

Drives(w) == pc[w] \in DriveSteps

\* A ticket that a worker classifies, routes or drafts for is in the state
\* that work belongs to and no other worker drives it, however requests,
\* re-deliveries and faults interleave: the compare-and-set of store.Apply
\* is the only lock there is, and it is enough.
ExclusiveDriver ==
  \A w \in Worker : Drives(w) =>
    /\ state[T(w)] = DrivenState(pc[w])
    /\ \A v \in Worker \ {w} : Drives(v) => T(v) # T(w)

\* Hence a goroutine that has claimed a ticket is never turned away with a
\* state conflict later on, on a day without faults.
DriverNeverConflicts ==
  [][\A w \in Worker : Drives(w) => pc'[w] # "failed"]_vars

-----------------------------------------------------------------------------
(***************************************************************************)
(* The audit log and the human checkpoints                                 *)
(***************************************************************************)

\* The rows of log lead from NEW to state s.
LeadsTo(log, s) ==
  /\ Len(log) = 0 => s \in {Absent, "NEW"}
  /\ Len(log) > 0 => log[1].from = "NEW" /\ log[Len(log)].to = s
  /\ \A i \in 1 .. Len(log) - 1 : log[i].to = log[i + 1].from

\* "Full replay": the audit rows of a ticket are a path from NEW to the
\* state it is in, without a gap, a fork or a repetition.
AuditReplays == \A t \in Ticket : LeadsTo(audit[t], state[t])

Checkpoint == {"AWAITING_CLASSIFICATION_REVIEW", "AWAITING_REPLY_APPROVAL"}

Gated(row) ==
  /\ row.actor = "human" <=> row.from \in Checkpoint
  /\ row.to = "RESOLVED" => row.text \in Text

\* Only a human takes a ticket out of a checkpoint, a human does nothing
\* else to its state, and whoever resolved it gave a text.
HumanGates ==
  \A t \in Ticket : \A i \in 1 .. Len(audit[t]) : Gated(audit[t][i])

\* A ticket that the agent routed by itself has one classification, which is
\* not critical and whose confidence is the threshold or more; one that was
\* parked has none, for the classifier failed, or one that is critical or
\* below the threshold.
GateIsKept ==
  \A t \in Ticket : \A i \in 1 .. Len(audit[t]) :
    LET row    == audit[t][i]
        latest == classifications[t][1]
    IN  /\ row.from = "CLASSIFYING" /\ row.to = "ROUTED" =>
             /\ Len(classifications[t]) = 1
             /\ latest.urgency # "critical"
             /\ latest.confidence >= ConfidenceThreshold
        /\ row.to = "AWAITING_CLASSIFICATION_REVIEW" /\ classifications[t] # << >> =>
             /\ Len(classifications[t]) = 1
             /\ latest.urgency = "critical" \/ latest.confidence < ConfidenceThreshold

\* The orchestrator implements the lifecycle that the README draws.
Lifecycle == INSTANCE TicketLifecycle WITH stage <- state, history <- audit

LifecycleSpec == Lifecycle!LSpec

-----------------------------------------------------------------------------
(***************************************************************************)
(* Agreement between the tables                                            *)
(***************************************************************************)

\* An email becomes one ticket, also when it is submitted twice at a time or
\* delivered again: SELECT-then-INSERT is guarded by the unique constraint.
OneTicketPerEmail ==
  \A t, u \in Ticket : email[t] = email[u] /\ email[t] # None => t = u

\* At Checkpoint 1 the reviewer sees, next to each other, the labels of the
\* ticket and its latest classification row.  They were written by separate
\* statements and still agree: both are the model's, or both are missing.
ReviewShowsTheVerdict ==
  \A t \in Ticket : state[t] = "AWAITING_CLASSIFICATION_REVIEW" =>
    \/ classifications[t] = << >> /\ labels[t] = Unlabelled
    \/ /\ Len(classifications[t]) = 1
       /\ labels[t] = LabelsOf(classifications[t][1])

\* The model's labels reach the ticket all together or not at all, so a ticket
\* that has some and lacks others was reviewed after the classifier failed.
\* lookup_similar_tickets cannot read such a ticket: it scans the NULL urgency
\* of a ticket that has a type into a string.
PartialLabelsAreHuman ==
  \A t \in Ticket :
    labels[t] # Unlabelled /\ Unset \in {labels[t][f] : f \in DOMAIN labels[t]} =>
      /\ classifications[t] = << >>
      /\ \E i \in 1 .. Len(audit[t]) :
           audit[t][i].from = "AWAITING_CLASSIFICATION_REVIEW"

DraftRounds(t) == {i \in 1 .. Len(audit[t]) : audit[t][i].to = "DRAFTING"}

\* A ticket that waits for approval, or is resolved, has one reply row for
\* each time it went through DRAFTING: no draft is lost and none is doubled,
\* so the latest row belongs to the latest round.
OneDraftPerRound ==
  \A t \in Ticket : state[t] \in {"AWAITING_REPLY_APPROVAL", "RESOLVED"} =>
    Len(replies[t]) = Cardinality(DraftRounds(t))

CriticalSeen(t) ==
  \E i \in 1 .. Len(classifications[t]) : Critical(classifications[t][i])

\* Only a critical ticket is alerted about, once, and after it was parked.
AlertsAreForCritical ==
  \A t \in Ticket :
    /\ alerts[t] <= 1
    /\ alerts[t] = 1 =>
         /\ CriticalSeen(t)
         /\ \E i \in 1 .. Len(audit[t]) :
              audit[t][i].to = "AWAITING_CLASSIFICATION_REVIEW"

-----------------------------------------------------------------------------
(***************************************************************************)
(* Reviewers who take turns: a decision is about a ticket that waits for   *)
(* approval, and is answered before the next one about that ticket.  The   *)
(* code enforces neither, not even of one reviewer (module Dashboard).     *)
(***************************************************************************)
DecisionSteps == ApproveSteps \cup RejectSteps

TakesTurns ==
  \A w \in Worker : pc[w] \in Free /\ pc'[w] \in DecisionSteps =>
    /\ state[job'[w].ticket] = "AWAITING_REPLY_APPROVAL"
    /\ \A v \in Worker : pc[v] \in DecisionSteps => T(v) # job'[w].ticket

TurnsSpec == Init /\ [][Next /\ TakesTurns]_vars

LatestReply(t) == replies[t][Len(replies[t])]

\* "Every reply is human-approved": the latest reply of a resolved ticket,
\* the one that would be sent, is marked approved and is word for word the
\* text the audit log says was approved.
ResolvedReplyIsApproved ==
  \A t \in Ticket : state[t] = "RESOLVED" =>
    /\ LatestReply(t).status = "approved"
    /\ LatestReply(t).finalText = audit[t][Len(audit[t])].text

-----------------------------------------------------------------------------
(***************************************************************************)
(* Progress                                                                *)
(***************************************************************************)
Transient == {"NEW", "CLASSIFYING", "ROUTED", "DRAFTING"}

\* Worker w drives t, or is about to claim it while it is NEW.
TakesOn(w, t) ==
  T(w) = t /\ (Drives(w) \/ (pc[w] = "claim" /\ state[t] = "NEW"))

NobodyStranded ==
  \A t \in Ticket : state[t] \in Transient => \E w \in Worker : TakesOn(w, t)

\* On a day without faults a ticket that is at no checkpoint is in the hands
\* of a goroutine, also when several compete for it and the others are turned
\* away, and a goroutine that has claimed a ticket is not turned away.
TicketsAreCarried == []NobodyStranded /\ DriverNeverConflicts

WillAlert(w, t) ==
  /\ T(w) = t
  /\ pc[w] = "alert" \/ (pc[w] = "park" /\ Critical(job[w].verdict))

\* A critical verdict that was written has led to an alert, or a goroutine is
\* on its way to one: so it is on a day without faults.
CriticalIsInHand ==
  \A t \in Ticket : CriticalSeen(t) =>
    alerts[t] = 1 \/ \E w \in Worker : WillAlert(w, t)

\* "It never silently drops a ticket": whatever state the agent has a ticket
\* in, the ticket gets to a human checkpoint.
NeverDropped ==
  \A t \in Ticket :
    state[t] \in Transient ~> state[t] \in Checkpoint

=============================================================================
