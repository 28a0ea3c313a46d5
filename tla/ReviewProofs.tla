----------------------------- MODULE ReviewProofs -----------------------------
(***************************************************************************)
(* Agreement between the tables of a ticket: what the model said, what the *)
(* reviewer is shown, what is alerted about, drafted and approved.  The    *)
(* tables are written by separate statements of several goroutines, any of *)
(* which may be cut short.                                                 *)
(***************************************************************************)
EXTENDS OrchestratorProofs, FiniteSetTheorems

-----------------------------------------------------------------------------
(***************************************************************************)
(* The invariant: what the tables say of a ticket by its state, and what a *)
(* worker that classifies it or alerts about it knows of them              *)
(***************************************************************************)
Early == {Absent, "NEW", "CLASSIFYING"}

AutoRouted(t) ==
  \E i \in 1 .. Len(audit[t]) : audit[t][i].from = "CLASSIFYING"
                                /\ audit[t][i].to = "ROUTED"
Parked(t) ==
  \E i \in 1 .. Len(audit[t]) :
    audit[t][i].to = "AWAITING_CLASSIFICATION_REVIEW"
Reviewed(t) ==
  \E i \in 1 .. Len(audit[t]) :
    audit[t][i].from = "AWAITING_CLASSIFICATION_REVIEW"

Missing(l) == Unset \in {l.urgency, l.type, l.department}

OneVerdict(t, v) == classifications[t] = <<v>> /\ v \in Verdict

BeforeOK(t) ==
  /\ state[t] \in {Absent, "NEW"} => classifications[t] = << >>
  /\ state[t] \in Early =>
       labels[t] = Unlabelled /\ alerts[t] = 0 /\ ~AutoRouted(t) /\ ~Parked(t)

ShowsOK(t) ==
  state[t] = "AWAITING_CLASSIFICATION_REVIEW" =>
    \/ classifications[t] = << >> /\ labels[t] = Unlabelled
    \/ \E v \in Verdict : OneVerdict(t, v) /\ labels[t] = LabelsOf(v)

GateOK(t) ==
  /\ AutoRouted(t) => \E v \in Verdict : OneVerdict(t, v) /\ ~Parks(v)
  /\ Parked(t) => \/ classifications[t] = << >>
                  \/ \E v \in Verdict : OneVerdict(t, v) /\ Parks(v)

PartialOK(t) ==
  labels[t] # Unlabelled /\ Missing(labels[t]) =>
    classifications[t] = << >> /\ Reviewed(t)

AlertOK(t) ==
  /\ alerts[t] \in {0, 1}
  /\ alerts[t] = 1 => CriticalSeen(t) /\ Parked(t)

TicketOK(t) ==
  BeforeOK(t) /\ ShowsOK(t) /\ GateOK(t) /\ PartialOK(t) /\ AlertOK(t)

\* A worker may still have to alert about a ticket that others have in hand
\* by then.
AlertDue(t) ==
  state[t] \notin Early /\ alerts[t] = 0 /\ CriticalSeen(t) /\ Parked(t)

Knows(w) ==
  /\ pc[w] \in {"classify", "parkError", "saveClassification"} =>
       classifications[T(w)] = << >>
  /\ pc[w] \in {"park", "route"} => OneVerdict(T(w), job[w].verdict)
  /\ pc[w] = "park"  => Parks(job[w].verdict)
  /\ pc[w] = "route" => ~Parks(job[w].verdict)
  /\ pc[w] = "alert" => AlertDue(T(w))

AlertsApart ==
  \A w \in Worker : \A v \in Worker \ {w} :
    pc[w] = "alert" /\ pc[v] = "alert" => T(v) # T(w)

VerdictInv ==
  /\ \A t \in Ticket : TicketOK(t)
  /\ \A w \in Worker : Knows(w)
  /\ AlertsApart

verdictVars == <<state, labels, classifications, audit, alerts>>

-----------------------------------------------------------------------------
LEMMA CoalesceNothing ==
  ASSUME NEW l \in Labels
  PROVE  Coalesce(Unlabelled, l) = l
BY DEF Coalesce, Unlabelled, Labels

\* A verdict has every field, so it replaces every label.
LEMMA CoalesceVerdict ==
  ASSUME NEW v \in Verdict, NEW l
  PROVE  Coalesce(LabelsOf(v), l) = LabelsOf(v) /\ ~Missing(LabelsOf(v))
<1>1. v \in Classification
  BY VerdictAssumption
<1>2. v.urgency # Unset /\ v.type # Unset /\ v.department # Unset
  BY <1>1 DEF Classification, Urgency, TicketType, Department, Unset
<1> QED BY <1>2 DEF Coalesce, LabelsOf, Missing

\* A field that is missing after a review was missing before it.
LEMMA CoalesceKeeps ==
  ASSUME NEW d \in Labels, NEW l \in Labels, ~Missing(l)
  PROVE  ~Missing(Coalesce(d, l))
BY DEF Coalesce, Missing

\* What the row of a transition adds to the history of its ticket.
LEMMA RowAdded ==
  ASSUME TypeOK, NEW t \in Ticket, NEW to \in TicketState, NEW actor \in Actor,
         NEW set, NEW text \in Text \cup {None}, state[t] \in TicketState,
         Transition(t, to, actor, set, text)
  PROVE  /\ AutoRouted(t)' <=> AutoRouted(t) \/ (state[t] = "CLASSIFYING" /\ to = "ROUTED")
         /\ Parked(t)' <=> Parked(t) \/ to = "AWAITING_CLASSIFICATION_REVIEW"
         /\ Reviewed(t)' <=> Reviewed(t) \/ state[t] = "AWAITING_CLASSIFICATION_REVIEW"
<1> DEFINE row == [from |-> state[t], to |-> to, actor |-> actor, text |-> text]
           log == audit[t]
           new == Append(log, row)
<1>1. row \in AuditRow /\ row.from = state[t] /\ row.to = to
  BY DEF AuditRow
<1>2. audit'[t] = new
  BY DEF Transition, TypeOK, StoreTypeOK
<1>3. /\ Len(log) \in Nat
      /\ Len(new) = Len(log) + 1
      /\ new[Len(new)] = row
      /\ \A i \in 1 .. Len(log) : new[i] = log[i]
  BY <1>1, AppendRow DEF TypeOK, StoreTypeOK
<1> HIDE DEF row, new
<1>4. 1 .. Len(new) = 1 .. Len(log) \cup {Len(new)}
  BY <1>3
<1>5. AutoRouted(t)' <=> AutoRouted(t) \/ (state[t] = "CLASSIFYING" /\ to = "ROUTED")
  BY <1>1, <1>2, <1>3, <1>4 DEF AutoRouted
<1>6. Parked(t)' <=> Parked(t) \/ to = "AWAITING_CLASSIFICATION_REVIEW"
  BY <1>1, <1>2, <1>3, <1>4 DEF Parked
<1>7. Reviewed(t)' <=> Reviewed(t) \/ state[t] = "AWAITING_CLASSIFICATION_REVIEW"
  BY <1>1, <1>2, <1>3, <1>4 DEF Reviewed
<1> QED BY <1>5, <1>6, <1>7

\* Nothing is said anew of a ticket none of whose rows change.
LEMMA OtherTicket ==
  ASSUME NEW t \in Ticket, TicketOK(t),
         state'[t] = state[t], labels'[t] = labels[t], alerts'[t] = alerts[t],
         classifications'[t] = classifications[t], audit'[t] = audit[t]
  PROVE  TicketOK(t)'
<1>1. BeforeOK(t)'
  BY DEF TicketOK, BeforeOK, AutoRouted, Parked
<1>2. ShowsOK(t)' /\ GateOK(t)'
  BY DEF TicketOK, ShowsOK, GateOK, AutoRouted, Parked, OneVerdict
<1>3. PartialOK(t)' /\ AlertOK(t)'
  BY DEF TicketOK, PartialOK, AlertOK, Reviewed, Parked, CriticalSeen
<1> QED BY <1>1, <1>2, <1>3 DEF TicketOK

\* The moves of the agent and of the reviewer, with the labels they set and
\* what the mover knows of the classification.
VerdictMove(t, to, set) ==
  \/ state[t] = "NEW" /\ to = "CLASSIFYING" /\ set = Unlabelled
  \/ /\ state[t] = "CLASSIFYING" /\ to = "AWAITING_CLASSIFICATION_REVIEW"
     /\ \/ classifications[t] = << >> /\ set = Unlabelled
        \/ \E v \in Verdict : OneVerdict(t, v) /\ Parks(v) /\ set = LabelsOf(v)
  \/ /\ state[t] = "CLASSIFYING" /\ to = "ROUTED"
     /\ \E v \in Verdict : OneVerdict(t, v) /\ ~Parks(v) /\ set = LabelsOf(v)
  \/ state[t] = "AWAITING_CLASSIFICATION_REVIEW" /\ to = "ROUTED" /\ set \in Labels
  \/ /\ state[t] \in {"ROUTED", "DRAFTING", "AWAITING_REPLY_APPROVAL"}
     /\ to \in {"DRAFTING", "AWAITING_REPLY_APPROVAL", "RESOLVED"}
     /\ set = Unlabelled

LEMMA MoveTicket ==
  ASSUME TypeOK, NEW t \in Ticket, TicketOK(t), alerts' = alerts,
         NEW to \in TicketState, NEW actor \in Actor, NEW set,
         NEW text \in Text \cup {None},
         VerdictMove(t, to, set), Transition(t, to, actor, set, text)
  PROVE  TicketOK(t)'
<1>1. /\ state'[t] = to
      /\ labels'[t] = Coalesce(set, labels[t])
      /\ classifications' = classifications
      /\ labels[t] \in Labels
  BY DEF Transition, TypeOK, StoreTypeOK
<1>2. state[t] \in TicketState
  BY DEF VerdictMove, TicketState
<1>3. /\ AutoRouted(t)' <=> AutoRouted(t) \/ (state[t] = "CLASSIFYING" /\ to = "ROUTED")
      /\ Parked(t)' <=> Parked(t) \/ to = "AWAITING_CLASSIFICATION_REVIEW"
      /\ Reviewed(t)' <=> Reviewed(t) \/ state[t] = "AWAITING_CLASSIFICATION_REVIEW"
  BY <1>2, RowAdded
<1>4. AlertOK(t)'
  BY <1>1, <1>3 DEF TicketOK, AlertOK, CriticalSeen
<1>5. set = Unlabelled => labels'[t] = labels[t]
  BY <1>1, CoalesceNothing
<1>6. \A v \in Verdict : set = LabelsOf(v) => labels'[t] = LabelsOf(v) /\ ~Missing(labels'[t])
  BY <1>1, CoalesceVerdict
<1>7. BeforeOK(t)'
  <2>1. state'[t] \in Early => state[t] = "NEW" /\ to = "CLASSIFYING" /\ set = Unlabelled
    BY <1>1 DEF VerdictMove, Early, Absent
  <2>2. state'[t] \notin {Absent, "NEW"}
    BY <1>1 DEF VerdictMove, Absent
  <2> QED BY <1>3, <1>5, <2>1, <2>2 DEF TicketOK, BeforeOK, Early
<1>8. ShowsOK(t)'
  <2>1. ASSUME to = "AWAITING_CLASSIFICATION_REVIEW"
        PROVE  state[t] = "CLASSIFYING"
               /\ \/ classifications[t] = << >> /\ set = Unlabelled
                  \/ \E v \in Verdict : OneVerdict(t, v) /\ set = LabelsOf(v)
    BY <2>1 DEF VerdictMove
  <2>2. state[t] = "CLASSIFYING" => labels[t] = Unlabelled
    BY DEF TicketOK, BeforeOK, Early
  <2> QED BY <1>1, <1>5, <1>6, <2>1, <2>2 DEF ShowsOK, OneVerdict
<1>9. GateOK(t)'
  <2>1. CASE state[t] = "CLASSIFYING"
    <3>1. ~AutoRouted(t) /\ ~Parked(t)
      BY <2>1 DEF TicketOK, BeforeOK, Early
    <3>2. CASE to = "ROUTED"
      BY <1>1, <1>3, <2>1, <3>1, <3>2 DEF VerdictMove, GateOK, OneVerdict
    <3>3. CASE to # "ROUTED"
      BY <1>1, <1>3, <2>1, <3>1, <3>3 DEF VerdictMove, GateOK, OneVerdict
    <3> QED BY <3>2, <3>3
  <2>2. CASE state[t] # "CLASSIFYING"
    <3>1. to # "AWAITING_CLASSIFICATION_REVIEW"
      BY <2>2 DEF VerdictMove
    <3> QED BY <1>1, <1>3, <2>2, <3>1 DEF TicketOK, GateOK, OneVerdict
  <2> QED BY <2>1, <2>2
<1>10. PartialOK(t)'
  <2>1. CASE set = Unlabelled
    BY <1>1, <1>3, <1>5, <2>1 DEF TicketOK, PartialOK
  <2>2. CASE \E v \in Verdict : set = LabelsOf(v)
    BY <1>6, <2>2 DEF PartialOK
  <2>3. CASE state[t] = "AWAITING_CLASSIFICATION_REVIEW" /\ set \in Labels
    <3>1. CASE classifications[t] = << >>
      BY <1>1, <1>3, <2>3, <3>1 DEF PartialOK
    <3>2. CASE classifications[t] # << >>
      <4>1. PICK v \in Verdict : labels[t] = LabelsOf(v)
        BY <2>3, <3>2 DEF TicketOK, ShowsOK
      <4>2. ~Missing(labels'[t])
        BY <1>1, <2>3, <4>1, CoalesceVerdict, CoalesceKeeps
      <4> QED BY <4>2 DEF PartialOK
    <3> QED BY <3>1, <3>2
  <2> QED BY <2>1, <2>2, <2>3 DEF VerdictMove
<1> QED BY <1>4, <1>7, <1>8, <1>9, <1>10 DEF TicketOK

\* When worker w moves on, what the others know stays true as long as nobody
\* classifies their tickets or settles their alerts.
LEMMA OthersKnow ==
  ASSUME TypeOK, VerdictInv,
         NEW w \in Worker, NEW l \in Step, NEW j, Carry(w, l, j),
         \A v \in Worker \ {w} :
           /\ pc[v] \in ClassifySteps => classifications'[T(v)] = classifications[T(v)]
           /\ pc[v] = "alert" => AlertDue(T(v))',
         Knows(w)',
         l = "alert" => \A v \in Worker \ {w} : pc[v] = "alert" => T(v) # j.ticket
  PROVE  (\A v \in Worker : Knows(v)') /\ AlertsApart'
<1>1. pc'[w] = l /\ (l = "alert" => job'[w] = j)
  BY DEF TypeOK, Carry, Free
<1>2. \A v \in Worker \ {w} : pc'[v] = pc[v] /\ job'[v] = job[v] /\ T(v)' = T(v)
  BY DEF TypeOK, Carry, T
<1>3. ASSUME NEW v \in Worker \ {w}
      PROVE  Knows(v)'
  <2>1. Knows(v)
    BY DEF VerdictInv
  <2>2. pc'[v] = pc[v] /\ job'[v] = job[v] /\ T(v)' = T(v)
    BY <1>2
  <2>3. pc[v] \in ClassifySteps => classifications'[T(v)] = classifications[T(v)]
    OBVIOUS
  <2> QED BY <2>1, <2>2, <2>3 DEF Knows, ClassifySteps, OneVerdict
<1>4. AlertsApart'
  <2> SUFFICES ASSUME NEW u \in Worker, NEW v \in Worker \ {u},
                      pc'[u] = "alert", pc'[v] = "alert"
               PROVE  T(v)' # T(u)'
    BY DEF AlertsApart
  <2>1. CASE u = w
    BY <1>1, <1>2, <2>1 DEF T
  <2>2. CASE v = w
    BY <1>1, <1>2, <2>2 DEF T
  <2>3. CASE u # w /\ v # w
    BY <1>2, <2>3 DEF VerdictInv, AlertsApart
  <2> QED BY <2>1, <2>2, <2>3
<1> QED BY <1>3, <1>4

\* A step that touches none of these tables.
LEMMA SilentStep ==
  ASSUME TypeOK, VerdictInv, UNCHANGED verdictVars,
         NEW w \in Worker, NEW l \in Step, l # "alert", NEW j,
         Carry(w, l, j), Knows(w)'
  PROVE  VerdictInv'
<1>1. \A t \in Ticket : TicketOK(t)'
  BY OtherTicket DEF VerdictInv, verdictVars
<1>2. ASSUME NEW v \in Worker \ {w}, pc[v] = "alert"
      PROVE  AlertDue(T(v))'
  <2>1. AlertDue(T(v))
    BY <1>2 DEF VerdictInv, Knows
  <2>2. T(v)' = T(v)
    BY DEF TypeOK, Carry, T
  <2> QED BY <2>1, <2>2 DEF AlertDue, CriticalSeen, Parked, verdictVars
<1>3. (\A v \in Worker : Knows(v)') /\ AlertsApart'
  BY <1>2, OthersKnow DEF verdictVars
<1> QED BY <1>1, <1>3 DEF VerdictInv

\* A transition: the alerts that are due stay due, and a worker that is now
\* to alert about the ticket is the first to do so.
LEMMA MoveStep ==
  ASSUME TypeOK, VerdictInv, alerts' = alerts,
         NEW t \in Ticket, NEW to \in TicketState, NEW actor \in Actor,
         NEW set, NEW text \in Text \cup {None},
         VerdictMove(t, to, set), Transition(t, to, actor, set, text),
         NEW w \in Worker, NEW l \in Step, NEW j, Carry(w, l, j), Knows(w)',
         l = "alert" => j.ticket = t /\ state[t] \in Early
  PROVE  VerdictInv'
<1>1. ASSUME NEW u \in Ticket
      PROVE  TicketOK(u)'
  <2>1. TicketOK(u)
    BY DEF VerdictInv
  <2>2. CASE u = t
    BY <2>1, <2>2, MoveTicket
  <2>3. CASE u # t
    <3>1. /\ state'[u] = state[u] /\ labels'[u] = labels[u]
          /\ audit'[u] = audit[u] /\ classifications' = classifications
      BY <2>3 DEF Transition, TypeOK, StoreTypeOK
    <3> QED BY <2>1, <3>1, OtherTicket
  <2> QED BY <2>2, <2>3
<1>2. ASSUME NEW v \in Worker \ {w}, pc[v] = "alert"
      PROVE  AlertDue(T(v))'
  <2>1. AlertDue(T(v))
    BY <1>2 DEF VerdictInv, Knows
  <2>2. T(v)' = T(v) /\ T(v) \in Ticket
    BY <1>2 DEF TypeOK, JobOK, Carry, T, Free
  <2>3. CASE T(v) # t
    BY <2>1, <2>2, <2>3
    DEF AlertDue, CriticalSeen, Parked, Transition, TypeOK, StoreTypeOK
  <2>4. CASE T(v) = t
    <3>1. to \notin Early /\ state[t] \in TicketState
      BY <2>1, <2>4 DEF AlertDue, VerdictMove, Early, Absent, TicketState
    <3>2. Parked(t)'
      BY <2>1, <2>4, <3>1, RowAdded DEF AlertDue
    <3>3. state'[t] = to /\ classifications' = classifications
      BY DEF Transition, TypeOK, StoreTypeOK
    <3> QED BY <2>1, <2>2, <2>4, <3>1, <3>2, <3>3 DEF AlertDue, CriticalSeen
  <2> QED BY <2>3, <2>4
<1>3. l = "alert" => \A v \in Worker \ {w} : pc[v] = "alert" => T(v) # j.ticket
  BY DEF VerdictInv, Knows, AlertDue
<1>4. (\A v \in Worker : Knows(v)') /\ AlertsApart'
  BY <1>2, <1>3, OthersKnow DEF Transition
<1> QED BY <1>1, <1>4 DEF VerdictInv

\* A worker that goes on to a step of which Knows says nothing.
LEMMA KnowsNothing ==
  ASSUME TypeOK, NEW w \in Worker, NEW l, NEW j, Carry(w, l, j),
         l \notin ClassifySteps \cup {"alert"}
  PROVE  Knows(w)'
BY DEF TypeOK, Carry, Knows, ClassifySteps

\* store.Apply, whose guard is what VerdictMove asks of the state.
LEMMA ApplyVerdict ==
  ASSUME TypeOK, VerdictInv, NEW w \in Worker, T(w) \in Ticket,
         NEW from, NEW to \in TicketState, NEW actor \in Actor,
         NEW set, NEW text \in Text \cup {None}, NEW next \in Step,
         Apply(w, from, to, actor, set, text, next),
         state[T(w)] = from => VerdictMove(T(w), to, set),
         next = "alert" => from \in Early,
         Matches(T(w), from) /\ Transition(T(w), to, actor, set, text)
           /\ Goto(w, next) /\ UNCHANGED alerts => Knows(w)'
  PROVE  VerdictInv'
<1>1. CASE Matches(T(w), from) /\ Transition(T(w), to, actor, set, text) /\ Goto(w, next)
  <2>1. alerts' = alerts /\ Knows(w)' /\ state[T(w)] = from
    BY <1>1 DEF Apply, Matches
  <2> QED BY <1>1, <2>1, MoveStep DEF Goto, T
<1>2. CASE Goto(w, "failed") /\ UNCHANGED storeVars
  <2>1. UNCHANGED verdictVars /\ "failed" \in Step
    BY <1>2 DEF Apply, storeVars, verdictVars, Step, Free
  <2>2. Knows(w)'
    BY <1>2, KnowsNothing DEF Goto, ClassifySteps
  <2> QED BY <1>2, <2>1, <2>2, SilentStep DEF Goto
<1> QED BY <1>1, <1>2 DEF Apply

LEMMA RequestVerdict ==
  ASSUME TypeOK, VerdictInv, NEW w \in Worker, Request(w)
  PROVE  VerdictInv'
<1> USE DEF ClassifySteps, Free, Step
<1>1. ASSUME NEW l \in {"insert", "existing", "finalizeApproved", "finalizeRejected", "failed"},
             NEW j, Carry(w, l, j), UNCHANGED <<storeVars, alerts>>
      PROVE  VerdictInv'
  BY <1>1, KnowsNothing, SilentStep
  DEF storeVars, verdictVars, ApproveSteps, RejectSteps
<1>2. ASSUME NEW k \in Key, ReceiveEmail(w, k)  PROVE VerdictInv'
  BY <1>1, <1>2 DEF ReceiveEmail
<1>3. ASSUME NEW t \in Ticket, NEW d \in Decision, ReviewClassification(w, t, d)
      PROVE  VerdictInv'
  <2>1. CASE /\ ValidDecision(d)
             /\ Matches(t, "AWAITING_CLASSIFICATION_REVIEW")
             /\ Transition(t, "ROUTED", "human", d, None)
             /\ Carry(w, "startDraft", [NoJob EXCEPT !.ticket = t])
    <3>1. VerdictMove(t, "ROUTED", d)
      BY <2>1 DEF VerdictMove, Matches, ValidDecision
    <3>2. Knows(w)' /\ alerts' = alerts
      BY <1>3, <2>1, KnowsNothing DEF ReviewClassification
    <3> QED BY <2>1, <3>1, <3>2, MoveStep DEF TicketState, Actor
  <2>2. CASE Goto(w, "failed") /\ UNCHANGED storeVars
    BY <1>1, <1>3, <2>2 DEF Goto, ReviewClassification
  <2> QED BY <1>3, <2>1, <2>2 DEF ReviewClassification
<1>4. ASSUME NEW t, NEW x, NEW next \in {"finalizeApproved", "finalizeRejected"},
             BeginDecision(w, t, x, next)
      PROVE  VerdictInv'
  BY <1>1, <1>4 DEF BeginDecision, Goto
<1>5. ASSUME NEW t, NEW x, ApproveReply(w, t, x)
      PROVE  VerdictInv'
  BY <1>1, <1>4, <1>5 DEF ApproveReply, Goto
<1>6. ASSUME NEW t, RejectReply(w, t)
      PROVE  VerdictInv'
  BY <1>4, <1>6 DEF RejectReply
<1> QED BY <1>2, <1>3, <1>5, <1>6 DEF Request

\* The steps of runClassify.
LEMMA ClassifyVerdict ==
  ASSUME TypeOK, ExclusiveDriver, VerdictInv, NEW w \in Worker,
         \/ ClaimNew(w) \/ Classify(w) \/ ParkOnError(w)
         \/ RecordClassification(w) \/ ParkForReview(w) \/ AutoRoute(w)
  PROVE  VerdictInv'
<1> USE DEF ClassifySteps, Free, Step
<1>1. T(w) \in Ticket /\ Knows(w) /\ JobOK(w) /\ TicketOK(T(w))
  BY DEF TypeOK, JobOK, VerdictInv, ClaimNew, Classify, ParkOnError,
         RecordClassification, ParkForReview, AutoRoute, At
<1>2. pc[w] \in ClassifySteps => state[T(w)] = "CLASSIFYING"
  BY DEF ExclusiveDriver, Drives, DriveSteps, DrivenState, DraftSteps
<1>3. CASE ClaimNew(w)
  <2>1. state[T(w)] = "NEW" => classifications[T(w)] = << >>
    BY <1>1 DEF TicketOK, BeforeOK
  <2>2. Matches(T(w), "NEW") /\ Transition(T(w), "CLASSIFYING", "system", Unlabelled, None)
          /\ Goto(w, "classify") => Knows(w)'
    BY <2>1 DEF Matches, Transition, Goto, Carry, Knows, T, TypeOK
  <2>3. state[T(w)] = "NEW" => VerdictMove(T(w), "CLASSIFYING", Unlabelled)
    BY DEF VerdictMove
  <2>4. Apply(w, "NEW", "CLASSIFYING", "system", Unlabelled, None, "classify")
    BY <1>3 DEF ClaimNew
  <2>5. T(w) \in Ticket
    BY <1>1, <1>3 DEF ClaimNew, At
  <2> QED BY <2>2, <2>3, <2>4, <2>5, ApplyVerdict DEF TicketState, Actor
<1>4. CASE Classify(w)
  <2>1. PICK l, j : /\ l \in {"saveClassification", "parkError"}
                    /\ Carry(w, l, j) /\ j.ticket = T(w)
    <3>1. CASE Goto(w, "parkError")
      BY <3>1 DEF Goto, T
    <3>2. ASSUME NEW v \in Verdict,
                 Carry(w, "saveClassification", [job[w] EXCEPT !.verdict = v])
          PROVE  \E l, j : /\ l \in {"saveClassification", "parkError"}
                           /\ Carry(w, l, j) /\ j.ticket = T(w)
      <4> DEFINE k == [job[w] EXCEPT !.verdict = v]
      <4>1. k.ticket = T(w)
        BY DEF TypeOK, Job, T
      <4>2. Carry(w, "saveClassification", k)
        BY <3>2
      <4> HIDE DEF k
      <4> QED BY <4>1, <4>2
    <3> QED BY ONLY <1>4, <3>1, <3>2 DEF Classify
  <2>2. Knows(w)' /\ UNCHANGED verdictVars
    BY <1>1, <1>4, <2>1
    DEF Classify, At, Carry, Knows, T, TypeOK, storeVars, verdictVars
  <2> QED BY <2>1, <2>2, SilentStep
<1>5. CASE ParkOnError(w)
  <2>1. VerdictMove(T(w), "AWAITING_CLASSIFICATION_REVIEW", Unlabelled)
    BY <1>1, <1>2, <1>5 DEF ParkOnError, At, Knows, VerdictMove
  <2>2. Matches(T(w), "CLASSIFYING")
          /\ Transition(T(w), "AWAITING_CLASSIFICATION_REVIEW", "system", Unlabelled, None)
          /\ Goto(w, "done") => Knows(w)'
    BY KnowsNothing DEF Goto
  <2>3. Apply(w, "CLASSIFYING", "AWAITING_CLASSIFICATION_REVIEW", "system",
              Unlabelled, None, "done")
    BY <1>5 DEF ParkOnError
  <2>4. T(w) \in Ticket
    BY <1>1
  <2> QED BY <2>1, <2>2, <2>3, <2>4, ApplyVerdict DEF TicketState, Actor
<1>6. CASE RecordClassification(w)
  <2>0. PICK t \in Ticket, v \in Verdict : t = T(w) /\ v = job[w].verdict
    BY <1>1, <1>6 DEF RecordClassification, At, JobOK
  <2>1. classifications[t] = << >> /\ state[t] = "CLASSIFYING" /\ TicketOK(t)
    BY <1>1, <1>2, <1>6, <2>0 DEF RecordClassification, At, Knows
  <2>2. /\ classifications'[t] = <<v>>
        /\ \A u \in Ticket \ {t} : classifications'[u] = classifications[u]
        /\ UNCHANGED <<state, labels, audit, alerts>>
    <3>1. Append(<< >>, v) = <<v>>
      OBVIOUS
    <3> QED BY <1>6, <2>0, <2>1, <3>1
            DEF RecordClassification, SaveClassification, TypeOK, StoreTypeOK
  <2>3. TicketOK(t)'
    <3>1. state'[t] = "CLASSIFYING" /\ labels'[t] = Unlabelled /\ alerts'[t] = 0
            /\ ~AutoRouted(t)' /\ ~Parked(t)'
      BY <2>1, <2>2 DEF TicketOK, BeforeOK, Early, AutoRouted, Parked
    <3> QED BY <3>1
            DEF TicketOK, BeforeOK, ShowsOK, GateOK, PartialOK, AlertOK, Absent
  <2>4. \A u \in Ticket \ {t} : TicketOK(u)'
    BY <2>2, OtherTicket DEF VerdictInv
  <2>5. PICK l \in {"park", "route"} : Goto(w, l) /\ (l = "route" <=> ~Parks(v))
    BY <1>6, <2>0 DEF RecordClassification
  <2>6. Knows(w)'
    <3>1. pc'[w] = l /\ job'[w] = job[w]
      BY <2>5 DEF Goto, Carry, TypeOK
    <3> QED BY <2>0, <2>2, <2>5, <3>1 DEF Knows, OneVerdict, T
  <2>7. ASSUME NEW u \in Worker \ {w}
        PROVE  /\ pc[u] \in ClassifySteps => classifications'[T(u)] = classifications[T(u)]
               /\ pc[u] = "alert" => AlertDue(T(u))'
    <3>1. pc[u] \in ClassifySteps => T(u) # t /\ T(u) \in Ticket
      BY <1>6, <2>0
      DEF ExclusiveDriver, Drives, DriveSteps, RecordClassification, At, TypeOK, JobOK
    <3>2. CASE pc[u] = "alert"
      <4>1. AlertDue(T(u)) /\ T(u) \in Ticket
        BY <3>2 DEF VerdictInv, Knows, TypeOK, JobOK
      <4>2. T(u) # t
        BY <2>1, <4>1 DEF AlertDue, Early
      <4>3. T(u)' = T(u)
        BY <2>5 DEF Goto, Carry, T, TypeOK
      <4> QED BY <2>2, <4>1, <4>2, <4>3 DEF AlertDue, CriticalSeen, Parked
    <3> QED BY <2>2, <3>1, <3>2
  <2>8. (\A u \in Worker : Knows(u)') /\ AlertsApart'
    BY <2>5, <2>6, <2>7, OthersKnow DEF Goto
  <2> QED BY <2>3, <2>4, <2>8 DEF VerdictInv
<1>7. CASE ParkForReview(w)
  <2> DEFINE v == job[w].verdict
             next == IF Critical(v) THEN "alert" ELSE "done"
  <2>1. OneVerdict(T(w), v) /\ state[T(w)] = "CLASSIFYING" /\ v \in Verdict /\ Parks(v)
    BY <1>1, <1>2, <1>7 DEF ParkForReview, At, Knows, OneVerdict
  <2>2. VerdictMove(T(w), "AWAITING_CLASSIFICATION_REVIEW", LabelsOf(v))
    BY <2>1 DEF VerdictMove
  <2>3. ASSUME Transition(T(w), "AWAITING_CLASSIFICATION_REVIEW", "qwen", LabelsOf(v), None),
               Goto(w, next), UNCHANGED alerts
        PROVE  Knows(w)'
    <3>1. CASE Critical(v)
      <4>1. pc'[w] = "alert" /\ T(w)' = T(w)
        BY <2>3, <3>1 DEF Goto, Carry, TypeOK, T
      <4>2. Parked(T(w))'
        BY <1>1, <2>1, <2>3, <4>1, RowAdded DEF TicketState, Actor, Parked
      <4>3. alerts'[T(w)] = 0 /\ state'[T(w)] \notin Early
        BY <1>1, <2>1, <2>3
        DEF TicketOK, BeforeOK, Early, Absent, Transition, TypeOK, StoreTypeOK
      <4>4. CriticalSeen(T(w))'
        <5>1. classifications'[T(w)] = <<v>>
          BY <2>1, <2>3 DEF OneVerdict, Transition
        <5>2. Len(<<v>>) = 1 /\ <<v>>[1] = v
          OBVIOUS
        <5> QED BY <3>1, <4>1, <5>1, <5>2 DEF CriticalSeen
      <4> QED BY <4>1, <4>2, <4>3, <4>4 DEF Knows, AlertDue, CriticalSeen, Parked
    <3>2. CASE ~Critical(v)
      BY <2>3, <3>2, KnowsNothing DEF Goto
    <3> QED BY <3>1, <3>2
  <2>4. next \in Step
    OBVIOUS
  <2>5. Apply(w, "CLASSIFYING", "AWAITING_CLASSIFICATION_REVIEW", "qwen", LabelsOf(v), None, next)
    BY <1>7 DEF ParkForReview
  <2> HIDE DEF next, v
  <2> QED BY <1>1, <2>2, <2>3, <2>4, <2>5, ApplyVerdict DEF TicketState, Actor, Early
<1>8. CASE AutoRoute(w)
  <2> DEFINE set == LabelsOf(job[w].verdict)
  <2>1. VerdictMove(T(w), "ROUTED", set)
    BY <1>1, <1>2, <1>8 DEF AutoRoute, At, Knows, OneVerdict, VerdictMove
  <2>2. Matches(T(w), "CLASSIFYING") /\ Transition(T(w), "ROUTED", "qwen", set, None)
          /\ Goto(w, "startDraft") => Knows(w)'
    BY KnowsNothing DEF Goto
  <2>3. Apply(w, "CLASSIFYING", "ROUTED", "qwen", set, None, "startDraft")
    BY <1>8 DEF AutoRoute
  <2>4. T(w) \in Ticket
    BY <1>1
  <2>5. "startDraft" \in Step /\ "ROUTED" \in TicketState /\ "qwen" \in Actor
    BY DEF TicketState, Actor
  <2> HIDE DEF set, Step
  <2> QED BY <2>1, <2>2, <2>3, <2>4, <2>5, ApplyVerdict
<1> QED BY <1>3, <1>4, <1>5, <1>6, <1>7, <1>8

\* The steps before a ticket is classified.
LEMMA IngestVerdict ==
  ASSUME TypeOK, VerdictInv, NEW w \in Worker, CreateTicket(w) \/ ReadExisting(w)
  PROVE  VerdictInv'
<1> USE DEF ClassifySteps, Free, Step
<1>1. ASSUME NEW t \in Ticket, state[t] = Absent,
             InsertTicketAndEmail(t, job[w].key), UNCHANGED alerts,
             Carry(w, "claim", [NoJob EXCEPT !.ticket = t])
      PROVE  VerdictInv'
  <2>1. /\ state'[t] = "NEW" /\ \A u \in Ticket \ {t} : state'[u] = state[u]
        /\ UNCHANGED <<labels, classifications, audit, alerts>>
    BY <1>1 DEF InsertTicketAndEmail, TypeOK, StoreTypeOK
  <2>2. \A u \in Ticket \ {t} : TicketOK(u)'
    BY <2>1, OtherTicket DEF VerdictInv
  <2>3. TicketOK(t)'
    <3>1. TicketOK(t)
      BY DEF VerdictInv
    <3>2. BeforeOK(t)'
      BY <1>1, <2>1, <3>1 DEF TicketOK, BeforeOK, AutoRouted, Parked, Early
    <3>3. ShowsOK(t)' /\ GateOK(t)'
      BY <2>1, <3>1 DEF TicketOK, ShowsOK, GateOK, AutoRouted, Parked, OneVerdict
    <3>4. PartialOK(t)' /\ AlertOK(t)'
      BY <2>1, <3>1 DEF TicketOK, PartialOK, AlertOK, Reviewed, Parked, CriticalSeen
    <3> QED BY <3>2, <3>3, <3>4 DEF TicketOK
  <2>4. ASSUME NEW v \in Worker \ {w}, pc[v] = "alert"
        PROVE  AlertDue(T(v))'
    <3>1. AlertDue(T(v)) /\ T(v) \in Ticket
      BY <2>4 DEF VerdictInv, Knows, TypeOK, JobOK
    <3>2. T(v) # t
      BY <1>1, <3>1 DEF AlertDue, Early
    <3>3. T(v)' = T(v)
      BY <1>1 DEF Carry, T, TypeOK
    <3> QED BY <2>1, <3>1, <3>2, <3>3 DEF AlertDue, CriticalSeen, Parked
  <2>5. Knows(w)'
    BY <1>1, KnowsNothing
  <2>6. (\A v \in Worker : Knows(v)') /\ AlertsApart'
    BY <1>1, <2>1, <2>4, <2>5, OthersKnow
  <2> QED BY <2>2, <2>3, <2>6 DEF VerdictInv
<1>2. ASSUME NEW l \in {"failed", "claim", "done"}, Goto(w, l), UNCHANGED <<storeVars, alerts>>
      PROVE  VerdictInv'
  BY <1>2, KnowsNothing, SilentStep DEF Goto, storeVars, verdictVars
<1>3. CASE CreateTicket(w)
  BY <1>1, <1>2, <1>3 DEF CreateTicket
<1>4. CASE ReadExisting(w)
  BY <1>2, <1>4 DEF ReadExisting
<1> QED BY <1>3, <1>4

\* The alert is sent: it was due, and no other worker owes the same one.
LEMMA AlertVerdict ==
  ASSUME TypeOK, VerdictInv, NEW w \in Worker, SendAlert(w)
  PROVE  VerdictInv'
<1>1. PICK t \in Ticket : t = T(w) /\ AlertDue(t) /\ TicketOK(t)
  BY DEF SendAlert, At, TypeOK, JobOK, Free, VerdictInv, Knows
<1>2. /\ alerts'[t] = 1 /\ \A u \in Ticket \ {t} : alerts'[u] = alerts[u]
      /\ UNCHANGED <<state, labels, classifications, audit>>
  BY <1>1 DEF SendAlert, AlertDue, TypeOK, storeVars
<1>3. \A u \in Ticket \ {t} : TicketOK(u)'
  BY <1>2, OtherTicket DEF VerdictInv
<1>4. TicketOK(t)'
  <2>1. BeforeOK(t)'
    BY <1>1, <1>2 DEF BeforeOK, AlertDue, Early
  <2>2. ShowsOK(t)' /\ GateOK(t)'
    BY <1>1, <1>2 DEF TicketOK, ShowsOK, GateOK, AutoRouted, Parked, OneVerdict
  <2>3. PartialOK(t)' /\ AlertOK(t)'
    BY <1>1, <1>2 DEF TicketOK, PartialOK, AlertOK, AlertDue, Reviewed, Parked, CriticalSeen
  <2> QED BY <2>1, <2>2, <2>3 DEF TicketOK
<1>5. ASSUME NEW v \in Worker \ {w}, pc[v] = "alert"
      PROVE  AlertDue(T(v))'
  <2>1. AlertDue(T(v)) /\ T(v) \in Ticket /\ T(v) # t
    BY <1>1, <1>5
    DEF VerdictInv, Knows, AlertsApart, TypeOK, JobOK, Free, SendAlert, At
  <2>2. T(v)' = T(v)
    BY DEF SendAlert, Goto, Carry, T, TypeOK
  <2> QED BY <1>2, <2>1, <2>2 DEF AlertDue, CriticalSeen, Parked
<1>6. Knows(w)'
  BY KnowsNothing DEF SendAlert, Goto, ClassifySteps
<1>7. "done" \in Step /\ Goto(w, "done")
  BY DEF SendAlert, Step, Free
<1>8. (\A v \in Worker : Knows(v)') /\ AlertsApart'
  BY <1>2, <1>5, <1>6, <1>7, OthersKnow DEF Goto
<1> QED BY <1>3, <1>4, <1>8 DEF VerdictInv

\* The steps after a ticket is routed leave its labels alone.
LEMMA LateVerdict ==
  ASSUME TypeOK, VerdictInv, NEW w \in Worker,
         \/ StartDraft(w) \/ DraftReply(w) \/ RecordDraft(w) \/ ParkReply(w)
         \/ FinalizeApproved(w) \/ Resolve(w) \/ FinalizeRejected(w) \/ Redraft(w)
  PROVE  VerdictInv'
<1> USE DEF ClassifySteps, Free
<1>1. T(w) \in Ticket /\ JobOK(w)
  BY DEF TypeOK, JobOK, StartDraft, DraftReply, RecordDraft, ParkReply,
         FinalizeApproved, Resolve, FinalizeRejected, Redraft, At
<1>2. ASSUME NEW from \in {"ROUTED", "DRAFTING", "AWAITING_REPLY_APPROVAL"},
             NEW to \in {"DRAFTING", "AWAITING_REPLY_APPROVAL", "RESOLVED"},
             NEW actor \in Actor, NEW text \in Text \cup {None},
             NEW next \in {"draftReply", "done"},
             Apply(w, from, to, actor, Unlabelled, text, next)
      PROVE  VerdictInv'
  <2>1. state[T(w)] = from => VerdictMove(T(w), to, Unlabelled)
    BY <1>2 DEF VerdictMove
  <2>2. Matches(T(w), from) /\ Transition(T(w), to, actor, Unlabelled, text)
          /\ Goto(w, next) /\ UNCHANGED alerts => Knows(w)'
    BY KnowsNothing DEF Goto
  <2>3. next \in Step /\ next # "alert" /\ to \in TicketState /\ T(w) \in Ticket
    BY <1>1 DEF Step, DraftSteps, TicketState
  <2> QED BY <1>2, <2>1, <2>2, <2>3, ApplyVerdict
<1>3. ASSUME NEW l \in {"saveDraft", "parkReply", "resolve", "redraft"}, NEW j,
             Carry(w, l, j), UNCHANGED verdictVars
      PROVE  VerdictInv'
  BY <1>3, KnowsNothing, SilentStep DEF Step, DraftSteps, ApproveSteps, RejectSteps
<1>4. CASE StartDraft(w) \/ ParkReply(w)
  BY <1>2, <1>4 DEF StartDraft, ParkReply, Actor
<1>5. CASE Resolve(w)
  <2>1. job[w].text \in Text
    BY <1>1, <1>5 DEF Resolve, At, JobOK, ApproveSteps
  <2>2. Apply(w, "AWAITING_REPLY_APPROVAL", "RESOLVED", "human", Unlabelled,
              job[w].text, "done")
    BY <1>5 DEF Resolve
  <2> QED BY <1>2, <2>1, <2>2 DEF Actor
<1>6. CASE Redraft(w)
  BY <1>2, <1>6 DEF Redraft, Actor
<1>7. CASE DraftReply(w)
  BY <1>3, <1>7 DEF DraftReply, storeVars, verdictVars
<1>8. CASE RecordDraft(w) \/ FinalizeApproved(w) \/ FinalizeRejected(w)
  BY <1>3, <1>8
  DEF RecordDraft, SaveReplyDraft, FinalizeApproved, FinalizeRejected, FinalizeReply,
      Goto, verdictVars
<1> QED BY <1>4, <1>5, <1>6, <1>7, <1>8

LEMMA FaultVerdict ==
  ASSUME TypeOK, VerdictInv, Fault \/ UNCHANGED vars
  PROVE  VerdictInv'
<1>1. CASE Crash
  <2>1. UNCHANGED verdictVars
    BY <1>1 DEF Crash, storeVars, verdictVars
  <2>2. \A t \in Ticket : TicketOK(t)'
    BY <2>1, OtherTicket DEF VerdictInv, verdictVars
  <2> QED BY <1>1, <2>2 DEF Crash, VerdictInv, Knows, AlertsApart
<1>2. ASSUME NEW w \in Worker, SkipAlert(w) \/ Interrupt(w)
      PROVE  VerdictInv'
  BY <1>2, KnowsNothing, SilentStep
  DEF SkipAlert, Interrupt, Goto, storeVars, verdictVars, Free, Step, ClassifySteps
<1>3. CASE UNCHANGED vars
  <2>1. \A t \in Ticket : TicketOK(t)'
    BY <1>3, OtherTicket DEF VerdictInv, vars
  <2>2. (\A w \in Worker : Knows(w)') /\ AlertsApart'
    BY <1>3
    DEF vars, VerdictInv, Knows, AlertsApart, T, OneVerdict, AlertDue, CriticalSeen, Parked
  <2> QED BY <2>1, <2>2 DEF VerdictInv
<1> QED BY <1>1, <1>2, <1>3 DEF Fault

LEMMA VerdictStep == TypeOK /\ ExclusiveDriver /\ VerdictInv /\ [Next]_vars => VerdictInv'
BY RequestVerdict, IngestVerdict, ClassifyVerdict, AlertVerdict, LateVerdict, FaultVerdict
DEF Next, Serve

LEMMA VerdictInit == Init => VerdictInv
<1> SUFFICES ASSUME Init PROVE VerdictInv
  OBVIOUS
<1>1. ASSUME NEW t \in Ticket
      PROVE  /\ state[t] = Absent /\ labels[t] = Unlabelled /\ alerts[t] = 0
             /\ classifications[t] = << >> /\ ~AutoRouted(t) /\ ~Parked(t)
  BY EmptySeq DEF Init, StoreInit, AutoRouted, Parked
<1>2. \A t \in Ticket : TicketOK(t)
  BY <1>1 DEF TicketOK, BeforeOK, ShowsOK, GateOK, PartialOK, AlertOK, Absent
<1> QED BY <1>2 DEF Init, VerdictInv, Knows, AlertsApart

LEMMA VerdictHolds == Spec => []VerdictInv
BY VerdictInit, VerdictStep, TypeCorrect, DriverIsExclusive, PTL DEF Spec

\* At Checkpoint 1 the labels and the classification a reviewer sees are the
\* same verdict, or both are missing, whatever was cut short before.
THEOREM ReviewersSeeTheVerdict == Spec => []ReviewShowsTheVerdict
<1>1. VerdictInv => ReviewShowsTheVerdict
  <2>1. \A v \in Verdict : Len(<<v>>) = 1 /\ <<v>>[1] = v
    OBVIOUS
  <2> QED BY <2>1 DEF VerdictInv, TicketOK, ShowsOK, OneVerdict, ReviewShowsTheVerdict
<1> QED BY <1>1, VerdictHolds, PTL

\* The agent routes a ticket by itself on one verdict only, neither critical
\* nor below the threshold, and parks it on no other one: the gate of
\* runClassify cannot be passed by.
THEOREM GateStands == Spec => []GateIsKept
<1>1. VerdictInv => GateIsKept
  <2>1. \A v \in Verdict : Len(<<v>>) = 1 /\ <<v>>[1] = v /\ <<v>> # << >>
    OBVIOUS
  <2>2. \A v \in Verdict : v.confidence \in Nat
    BY VerdictAssumption DEF Classification
  <2> SUFFICES ASSUME VerdictInv, NEW t \in Ticket, NEW i \in 1 .. Len(audit[t])
               PROVE  LET row    == audit[t][i]
                          latest == classifications[t][1]
                      IN  /\ row.from = "CLASSIFYING" /\ row.to = "ROUTED" =>
                               /\ Len(classifications[t]) = 1
                               /\ latest.urgency # "critical"
                               /\ latest.confidence >= ConfidenceThreshold
                          /\ row.to = "AWAITING_CLASSIFICATION_REVIEW"
                               /\ classifications[t] # << >> =>
                               /\ Len(classifications[t]) = 1
                               /\ \/ latest.urgency = "critical"
                                  \/ latest.confidence < ConfidenceThreshold
    BY DEF GateIsKept
  <2>3. CASE audit[t][i].from = "CLASSIFYING" /\ audit[t][i].to = "ROUTED"
    <3>1. PICK v \in Verdict : OneVerdict(t, v) /\ ~Parks(v)
      BY <2>3 DEF VerdictInv, TicketOK, GateOK, AutoRouted
    <3>2. v.urgency # "critical" /\ v.confidence >= ConfidenceThreshold
      BY <2>2, <3>1, ThresholdAssumption DEF Parks, Critical, Unsure
    <3> QED BY <2>1, <2>3, <3>1, <3>2 DEF OneVerdict
  <2>4. CASE audit[t][i].to = "AWAITING_CLASSIFICATION_REVIEW" /\ classifications[t] # << >>
    <3>1. PICK v \in Verdict : OneVerdict(t, v) /\ Parks(v)
      BY <2>4 DEF VerdictInv, TicketOK, GateOK, Parked
    <3> QED BY <2>1, <2>4, <3>1 DEF OneVerdict, Parks, Critical, Unsure
  <2> QED BY <2>3, <2>4
<1> QED BY <1>1, VerdictHolds, PTL

\* A ticket with some labels and not others was reviewed after the classifier
\* had failed: the model's labels are stored together.
THEOREM PartialLabelsAreTheReviewers == Spec => []PartialLabelsAreHuman
<1>1. TypeOK /\ VerdictInv => PartialLabelsAreHuman
  <2> SUFFICES ASSUME TypeOK, VerdictInv, NEW t \in Ticket, labels[t] # Unlabelled,
                      NEW f \in DOMAIN labels[t], labels[t][f] = Unset
               PROVE  classifications[t] = << >> /\ Reviewed(t)
    BY DEF PartialLabelsAreHuman, Reviewed
  <2>1. Missing(labels[t])
    <3>1. labels[t] \in Labels
      BY DEF TypeOK, StoreTypeOK
    <3>2. DOMAIN labels[t] = {"urgency", "type", "department"}
      BY <3>1 DEF Labels
    <3> QED BY <3>2 DEF Missing
  <2> QED BY <2>1 DEF VerdictInv, TicketOK, PartialOK
<1> QED BY <1>1, VerdictHolds, TypeCorrect, PTL

\* A step of w loses no alert: a critical verdict that it writes is taken to
\* the alert, and one that others alert about stays theirs.
Warns(w) ==
  \A t \in Ticket : CriticalSeen(t)' =>
    \/ alerts'[t] > 0 \/ WillAlert(w, t)'
    \/ CriticalSeen(t) /\ alerts'[t] = alerts[t] /\ ~WillAlert(w, t)

AlertInHand ==
  \A t \in Ticket : CriticalSeen(t) =>
    alerts[t] > 0 \/ \E w \in Worker : WillAlert(w, t)

LEMMA WarningStays ==
  ASSUME TypeOK, AlertInHand, NEW w \in Worker, Request(w) \/ Serve(w), Warns(w)
  PROVE  AlertInHand'
<1> SUFFICES ASSUME NEW t \in Ticket, CriticalSeen(t)', ~(alerts'[t] > 0),
                    ~WillAlert(w, t)'
             PROVE  \E v \in Worker : WillAlert(v, t)'
  BY DEF AlertInHand
<1>1. CriticalSeen(t) /\ ~(alerts[t] > 0) /\ ~WillAlert(w, t)
  BY DEF Warns
<1>2. PICK v \in Worker : WillAlert(v, t)
  BY <1>1 DEF AlertInHand
<1>3. pc'[v] = pc[v] /\ job'[v] = job[v]
  BY <1>1, <1>2, OneAtATime
<1> QED
  BY <1>2, <1>3 DEF WillAlert, T

\* A worker that neither writes a classification nor is on its way to an
\* alert.
LEMMA OthersWarn ==
  ASSUME NEW w \in Worker, classifications' = classifications, alerts' = alerts,
         pc[w] \notin {"park", "alert"}
  PROVE  Warns(w)
BY DEF Warns, CriticalSeen, WillAlert

LEMMA RecordWarns ==
  ASSUME TypeOK, NEW w \in Worker, RecordClassification(w)
  PROVE  Warns(w)
<1>1. PICK u \in Ticket : u = T(w)
  BY DEF RecordClassification, At, TypeOK, JobOK, Free
<1> DEFINE v == job[w].verdict
<1>2. /\ classifications \in [Ticket -> Seq(Verdict)] /\ v \in Verdict
      /\ job \in [Worker -> Job] /\ pc \in [Worker -> Step]
  BY DEF RecordClassification, At, TypeOK, StoreTypeOK, JobOK
<1>3. /\ alerts' = alerts /\ pc[w] = "saveClassification"
      /\ \A t \in Ticket \ {u} : classifications'[t] = classifications[t]
      /\ classifications'[u] = Append(classifications[u], v)
      /\ Goto(w, IF Parks(v) THEN "park" ELSE "route")
  BY <1>1, <1>2 DEF RecordClassification, SaveClassification, At
<1>4. CASE Critical(v)
  <2>1. pc'[w] = "park" /\ job'[w] = job[w]
    BY <1>2, <1>3, <1>4 DEF Goto, Carry, Free, Parks
  <2>2. WillAlert(w, u)'
    BY <1>1, <1>4, <2>1 DEF WillAlert, T
  <2> QED
    BY <1>3, <2>2 DEF Warns, CriticalSeen, WillAlert
<1>5. CASE ~Critical(v)
  <2>1. CriticalSeen(u)' => CriticalSeen(u)
    <3> SUFFICES ASSUME NEW i \in 1 .. Len(classifications'[u]),
                        Critical(classifications'[u][i])
                 PROVE  CriticalSeen(u)
      BY DEF CriticalSeen
    <3> DEFINE rows == classifications[u]
    <3>1. rows \in Seq(Verdict) /\ classifications'[u] = Append(rows, v)
      BY <1>2, <1>3
    <3>2. Append(rows, v)[i] = IF i = Len(rows) + 1 THEN v ELSE rows[i]
      BY <1>2, <3>1
    <3>3. i \in 1 .. Len(rows) /\ Critical(rows[i])
      BY <1>2, <1>5, <3>1, <3>2
    <3> QED
      BY <3>3 DEF CriticalSeen
  <2> QED
    BY <1>3, <2>1 DEF Warns, CriticalSeen, WillAlert
<1> QED
  BY <1>4, <1>5

LEMMA ServeWarns ==
  ASSUME TypeOK, ExclusiveDriver, NEW w \in Worker, Serve(w)
  PROVE  Warns(w)
<1> USE DEF At
<1>1. job \in [Worker -> Job] /\ pc \in [Worker -> Step] /\ alerts \in [Ticket -> Nat]
  BY DEF TypeOK
<1>2. ASSUME NEW from, NEW to, NEW actor, NEW set, NEW text, NEW next,
             Apply(w, from, to, actor, set, text, next)
      PROVE  classifications' = classifications /\ alerts' = alerts
  BY <1>2 DEF Apply, Transition, storeVars
<1>3. CASE ParkForReview(w)
  <2>1. PICK u \in Ticket : u = T(w)
    BY <1>3 DEF ParkForReview, TypeOK, JobOK, Free
  <2>2. classifications' = classifications /\ alerts' = alerts
    BY <1>2, <1>3 DEF ParkForReview
  <2>3. Matches(T(w), "CLASSIFYING")
    <3>1. Drives(w) /\ DrivenState(pc[w]) = "CLASSIFYING"
      BY <1>3 DEF ParkForReview, Drives, DriveSteps, ClassifySteps, DraftSteps,
                       DrivenState
    <3> QED
      BY <3>1 DEF ExclusiveDriver, Matches
  <2>4. Goto(w, IF Critical(job[w].verdict) THEN "alert" ELSE "done")
    BY <1>3, <2>3 DEF ParkForReview, Apply
  <2>5. \A t \in Ticket : WillAlert(w, t) => WillAlert(w, t)'
    BY <1>1, <1>3, <2>4 DEF ParkForReview, Goto, Carry, Free, WillAlert, T
  <2> QED
    BY <2>2, <2>5 DEF Warns, CriticalSeen
<1>4. CASE SendAlert(w)
  <2>1. PICK u \in Ticket : u = T(w)
    BY <1>4 DEF SendAlert, TypeOK, JobOK, Free
  <2>2. /\ classifications' = classifications /\ alerts'[u] > 0
        /\ \A t \in Ticket \ {u} : alerts'[t] = alerts[t] /\ ~WillAlert(w, t)
    BY <1>1, <1>4, <2>1 DEF SendAlert, WillAlert, storeVars
  <2> QED
    BY <2>2 DEF Warns, CriticalSeen
<1>5. CASE CreateTicket(w) \/ ReadExisting(w) \/ Classify(w) \/ DraftReply(w)
  BY <1>5, OthersWarn DEF CreateTicket, InsertTicketAndEmail, ReadExisting, Classify,
                          DraftReply, storeVars
<1>6. CASE RecordDraft(w) \/ FinalizeApproved(w) \/ FinalizeRejected(w)
  BY <1>6, OthersWarn DEF RecordDraft, SaveReplyDraft, FinalizeApproved,
                          FinalizeRejected, FinalizeReply
<1>7. CASE ClaimNew(w) \/ ParkOnError(w) \/ AutoRoute(w) \/ StartDraft(w) \/ ParkReply(w)
             \/ Resolve(w) \/ Redraft(w)
  BY <1>2, <1>7, OthersWarn DEF ClaimNew, ParkOnError, AutoRoute, StartDraft, ParkReply,
                                Resolve, Redraft
<1> QED
  BY <1>3, <1>4, <1>5, <1>6, <1>7, RecordWarns DEF Serve

LEMMA RequestWarns ==
  ASSUME TypeOK, NEW w \in Worker, Request(w)
  PROVE  Warns(w)
<1>1. pc[w] \in Free /\ classifications' = classifications /\ alerts' = alerts
  BY DEF Request, ReceiveEmail, ReviewClassification, Transition, ApproveReply,
         RejectReply, BeginDecision, storeVars
<1> QED
  BY <1>1, OthersWarn DEF Free

\* On a day without faults a critical verdict that is in the database was
\* alerted about, or a goroutine is on its way to the alert, whatever other
\* goroutines do to the ticket meanwhile.
THEOREM AlertsAreInHand == CalmSpec => []CriticalIsInHand
<1>1. Init => AlertInHand
  BY EmptySeq DEF Init, StoreInit, AlertInHand, CriticalSeen
<1>2. TypeOK /\ ExclusiveDriver /\ AlertInHand /\ [CalmNext]_vars => AlertInHand'
  <2> SUFFICES ASSUME TypeOK, ExclusiveDriver, AlertInHand, [CalmNext]_vars
               PROVE  AlertInHand'
    OBVIOUS
  <2>1. CASE UNCHANGED vars
    BY <2>1 DEF vars, AlertInHand, CriticalSeen, WillAlert, T
  <2>2. ASSUME NEW w \in Worker, Request(w) \/ Serve(w) PROVE AlertInHand'
    BY <2>2, RequestWarns, ServeWarns, WarningStays
  <2> QED
    BY <2>1, <2>2 DEF CalmNext
<1>3. VerdictInv /\ AlertInHand => CriticalIsInHand
  BY DEF VerdictInv, TicketOK, AlertOK, AlertInHand, CriticalIsInHand
<1>4. CalmSpec => [](TypeOK /\ ExclusiveDriver)
  BY CalmIsSpec, TypeCorrect, DriverIsExclusive, PTL
<1>5. CalmSpec => []VerdictInv
  BY CalmIsSpec, VerdictHolds, PTL
<1> QED
  BY <1>1, <1>2, <1>3, <1>4, <1>5, PTL DEF CalmSpec

\* No ticket is alerted about twice, and none that is not critical or not
\* yet parked, with any number of submissions of its email.
THEOREM AlertsAreDeserved == Spec => []AlertsAreForCritical
<1>1. VerdictInv => AlertsAreForCritical
  BY DEF VerdictInv, TicketOK, AlertOK, CriticalSeen, Parked, AlertsAreForCritical
<1> QED BY <1>1, VerdictHolds, PTL

-----------------------------------------------------------------------------
(***************************************************************************)
(* One draft for each round: a round is opened by the transition to        *)
(* DRAFTING, and the ticket cannot leave that state before its one driver  *)
(* has added the row.                                                      *)
(***************************************************************************)
Rounds(t) == Cardinality(DraftRounds(t))

\* The row of the worker's round is still to be added, or was added.
DraftKnows(w) ==
  /\ pc[w] \in {"draftReply", "saveDraft"} => Len(replies[T(w)]) + 1 = Rounds(T(w))
  /\ pc[w] = "parkReply" => Len(replies[T(w)]) = Rounds(T(w))

Drafted(t) == state[t] # "DRAFTING" => Len(replies[t]) = Rounds(t)

DraftInv ==
  /\ \A t \in Ticket : Drafted(t)
  /\ \A w \in Worker : DraftKnows(w)

LEMMA RoundsFinite ==
  ASSUME TypeOK, NEW t \in Ticket
  PROVE  IsFiniteSet(DraftRounds(t)) /\ Rounds(t) \in Nat /\ Len(audit[t]) \in Nat
<1>1. Len(audit[t]) \in Nat
  BY LenProperties DEF TypeOK, StoreTypeOK
<1>2. IsFiniteSet(1 .. Len(audit[t]))
  BY <1>1, FS_Interval
<1>3. IsFiniteSet(DraftRounds(t))
  BY <1>2, FS_Subset DEF DraftRounds
<1> QED BY <1>1, <1>3, FS_CardinalityType DEF Rounds

LEMMA RoundAdded ==
  ASSUME TypeOK, NEW t \in Ticket, NEW to \in TicketState, NEW actor \in Actor,
         NEW set, NEW text \in Text \cup {None}, state[t] \in TicketState,
         Transition(t, to, actor, set, text)
  PROVE  Rounds(t)' = IF to = "DRAFTING" THEN Rounds(t) + 1 ELSE Rounds(t)
<1> DEFINE row == [from |-> state[t], to |-> to, actor |-> actor, text |-> text]
           log == audit[t]
           new == Append(log, row)
<1>1. row \in AuditRow /\ row.to = to
  BY DEF AuditRow
<1>2. audit'[t] = new
  BY DEF Transition, TypeOK, StoreTypeOK
<1>3. /\ Len(log) \in Nat
      /\ Len(new) = Len(log) + 1
      /\ new[Len(new)] = row
      /\ \A i \in 1 .. Len(log) : new[i] = log[i]
  BY <1>1, AppendRow DEF TypeOK, StoreTypeOK
<1>4. IsFiniteSet(DraftRounds(t))
  BY RoundsFinite
<1> HIDE DEF row, new
<1>5. 1 .. Len(new) = 1 .. Len(log) \cup {Len(log) + 1}
  BY <1>3
<1>6. CASE to = "DRAFTING"
  <2>1. DraftRounds(t)' = DraftRounds(t) \cup {Len(log) + 1}
    BY <1>1, <1>2, <1>3, <1>5, <1>6 DEF DraftRounds
  <2>2. Len(log) + 1 \notin DraftRounds(t)
    BY <1>3 DEF DraftRounds
  <2> QED BY <1>4, <1>6, <2>1, <2>2, FS_AddElement DEF Rounds
<1>7. CASE to # "DRAFTING"
  <2>1. DraftRounds(t)' = DraftRounds(t)
    BY <1>1, <1>2, <1>3, <1>5, <1>7 DEF DraftRounds
  <2> QED BY <1>7, <2>1 DEF Rounds
<1> QED BY <1>6, <1>7

\* Rows change only of tickets that nobody but w drives.
LEMMA DraftFrame ==
  ASSUME TypeOK, DraftInv, \A t \in Ticket : Drafted(t)',
         NEW w \in Worker, NEW l \in Step, NEW j, Carry(w, l, j), DraftKnows(w)',
         \A t \in Ticket :
           Alone(w, t) \/ (audit'[t] = audit[t] /\ Len(replies'[t]) = Len(replies[t]))
  PROVE  DraftInv'
<1> SUFFICES ASSUME NEW v \in Worker \ {w}
             PROVE  DraftKnows(v)'
  BY DEF DraftInv
<1>1. pc'[v] = pc[v] /\ T(v)' = T(v)
  BY DEF TypeOK, Carry, T
<1>2. CASE pc[v] \in DraftSteps
  <2>1. PICK t \in Ticket : t = T(v)
    BY <1>2 DEF TypeOK, JobOK, DraftSteps, Free
  <2>2. audit'[t] = audit[t] /\ Len(replies'[t]) = Len(replies[t])
    BY <1>2, <2>1 DEF Alone, Drives, DriveSteps
  <2>3. /\ pc[v] \in {"draftReply", "saveDraft"} => Len(replies[t]) + 1 = Rounds(t)
        /\ pc[v] = "parkReply" => Len(replies[t]) = Rounds(t)
    BY <2>1 DEF DraftInv, DraftKnows
  <2>4. Len(replies[T(v)])' = Len(replies[t]) /\ Rounds(T(v))' = Rounds(t)
    BY <1>1, <2>1, <2>2 DEF Rounds, DraftRounds
  <2> QED BY <1>1, <2>3, <2>4 DEF DraftKnows
<1>3. CASE pc[v] \notin DraftSteps
  BY <1>1, <1>3 DEF DraftKnows, DraftSteps
<1> QED BY <1>2, <1>3

\* A step that opens no round and adds no row.
LEMMA DraftSilent ==
  ASSUME TypeOK, DraftInv, NEW w \in Worker, NEW l \in Step, NEW j, Carry(w, l, j),
         \/ l \notin DraftSteps
         \/ l = "saveDraft" /\ pc[w] = "draftReply" /\ j.ticket = T(w),
         UNCHANGED audit,
         \A t \in Ticket :
           /\ state'[t] = "DRAFTING" <=> state[t] = "DRAFTING"
           /\ Len(replies'[t]) = Len(replies[t])
  PROVE  DraftInv'
<1>1. \A t \in Ticket : Drafted(t)'
  BY DEF DraftInv, Drafted, Rounds, DraftRounds
<1>2. DraftKnows(w)'
  <2>1. CASE l \notin DraftSteps
    BY <2>1 DEF TypeOK, Carry, DraftKnows, DraftSteps
  <2>2. CASE l = "saveDraft" /\ pc[w] = "draftReply" /\ j.ticket = T(w)
    <3>1. PICK t \in Ticket : t = T(w)
      BY <2>2 DEF TypeOK, JobOK, Free
    <3>2. pc'[w] = "saveDraft" /\ T(w)' = t
      BY <2>2, <3>1 DEF TypeOK, Carry, Free, T
    <3>3. Len(replies[t]) + 1 = Rounds(t)
      BY <2>2, <3>1 DEF DraftInv, DraftKnows
    <3>4. Len(replies[T(w)])' = Len(replies[t]) /\ Rounds(T(w))' = Rounds(t)
      BY <3>2 DEF Rounds, DraftRounds
    <3> QED BY <3>2, <3>3, <3>4 DEF DraftKnows
  <2> QED BY <2>1, <2>2
<1> QED BY <1>1, <1>2, DraftFrame

\* A transition out of a state nobody drives, or by the ticket's driver.  The
\* state DRAFTING is left by a worker that has added its row.
LEMMA DraftMove ==
  ASSUME TypeOK, DraftInv, NEW t \in Ticket, state[t] \in TicketState,
         NEW to \in TicketState, NEW actor \in Actor, NEW set, NEW text \in Text \cup {None},
         Transition(t, to, actor, set, text),
         NEW w \in Worker, NEW l \in Step, NEW j, Carry(w, l, j), Alone(w, t),
         state[t] = "DRAFTING" => pc[w] = "parkReply" /\ T(w) = t,
         to = "DRAFTING" => state[t] # "DRAFTING",
         l \in DraftSteps => l = "draftReply" /\ to = "DRAFTING" /\ j.ticket = t
  PROVE  DraftInv'
<1>1. /\ state'[t] = to /\ replies' = replies
      /\ \A u \in Ticket \ {t} : state'[u] = state[u] /\ audit'[u] = audit[u]
  BY DEF Transition, TypeOK, StoreTypeOK
<1>2. Rounds(t)' = IF to = "DRAFTING" THEN Rounds(t) + 1 ELSE Rounds(t)
  BY RoundAdded
<1>3. Len(replies[t]) = Rounds(t)
  BY DEF DraftInv, Drafted, DraftKnows
<1>4. ASSUME NEW u \in Ticket
      PROVE  Drafted(u)'
  <2>1. CASE u = t
    BY <1>1, <1>2, <1>3, <2>1 DEF Drafted
  <2>2. CASE u # t
    BY <1>1, <2>2 DEF DraftInv, Drafted, Rounds, DraftRounds
  <2> QED BY <2>1, <2>2
<1>5. DraftKnows(w)'
  <2>1. CASE l \in DraftSteps
    <3>1. pc'[w] = "draftReply" /\ T(w)' = t
      BY <2>1 DEF TypeOK, Carry, Free, T
    <3>2. Len(replies[T(w)])' = Len(replies[t]) /\ Rounds(T(w))' = Rounds(t)'
      BY <1>1, <3>1 DEF Rounds, DraftRounds
    <3> QED BY <1>2, <1>3, <2>1, <3>1, <3>2 DEF DraftKnows
  <2>2. CASE l \notin DraftSteps
    BY <2>2 DEF TypeOK, Carry, DraftKnows, DraftSteps
  <2> QED BY <2>1, <2>2
<1>6. \A u \in Ticket :
        Alone(w, u) \/ (audit'[u] = audit[u] /\ Len(replies'[u]) = Len(replies[u]))
  BY <1>1
<1> QED BY <1>4, <1>5, <1>6, DraftFrame

\* store.Apply by a driver of the ticket, or out of a quiet state.
LEMMA DraftApply ==
  ASSUME TypeOK, ExclusiveDriver, DraftInv, NEW w \in Worker, T(w) \in Ticket,
         NEW from \in TicketState, NEW to \in TicketState, NEW actor \in Actor,
         NEW set, NEW text \in Text \cup {None}, NEW next \in Step,
         Apply(w, from, to, actor, set, text, next),
         Drives(w) \/ from \in Quiet,
         from = "DRAFTING" => pc[w] = "parkReply",
         to = "DRAFTING" => from # "DRAFTING",
         next \in DraftSteps => next = "draftReply" /\ to = "DRAFTING"
  PROVE  DraftInv'
<1>1. CASE Matches(T(w), from) /\ Transition(T(w), to, actor, set, text) /\ Goto(w, next)
  <2>1. Alone(w, T(w))
    BY <1>1, QuietHasNoDriver DEF Alone, ExclusiveDriver, Matches
  <2>2. state[T(w)] = from /\ Carry(w, next, job[w]) /\ job[w].ticket = T(w)
    BY <1>1 DEF Matches, Goto, T
  <2>3. PICK t \in Ticket : t = T(w)
    OBVIOUS
  <2> QED BY <1>1, <2>1, <2>2, <2>3, DraftMove
<1>2. CASE Goto(w, "failed") /\ UNCHANGED storeVars
  BY <1>2, DraftSilent DEF Goto, storeVars, Step, Free, DraftSteps
<1> QED BY <1>1, <1>2 DEF Apply

\* Overwriting a reply row adds none.
LEMMA FinalizeKeepsLength ==
  ASSUME TypeOK, NEW t \in Ticket, NEW id \in 1 .. Len(replies[t]), NEW status, NEW x,
         FinalizeReply(t, id, status, x)
  PROVE  \A u \in Ticket : Len(replies'[u]) = Len(replies[u])
<1> DEFINE old == replies[t]
           new == [old EXCEPT ![id].status = status, ![id].finalText = x]
<1>1. old \in Seq(ReplyRow)
  BY DEF TypeOK, StoreTypeOK
<1>2. replies' = [replies EXCEPT ![t] = new]
  BY DEF FinalizeReply, TypeOK, StoreTypeOK
<1>3. DOMAIN new = 1 .. Len(old) /\ Len(old) \in Nat
  BY <1>1
<1>4. Len(new) = Len(old)
  BY <1>1, <1>3
<1> QED BY <1>2, <1>4 DEF TypeOK, StoreTypeOK

LEMMA RequestDraft ==
  ASSUME TypeOK, ExclusiveDriver, DraftInv, NEW w \in Worker, Request(w)
  PROVE  DraftInv'
<1> USE DEF DraftSteps, Free, Step
<1>1. ASSUME NEW l \in {"insert", "existing", "finalizeApproved", "finalizeRejected", "failed"},
             NEW j, Carry(w, l, j), UNCHANGED <<storeVars, alerts>>
      PROVE  DraftInv'
  BY <1>1, DraftSilent DEF storeVars, ApproveSteps, RejectSteps
<1>2. ASSUME NEW k \in Key, ReceiveEmail(w, k)  PROVE DraftInv'
  BY <1>1, <1>2 DEF ReceiveEmail
<1>3. ASSUME NEW t \in Ticket, NEW d \in Decision, ReviewClassification(w, t, d)
      PROVE  DraftInv'
  <2>1. CASE /\ Matches(t, "AWAITING_CLASSIFICATION_REVIEW")
             /\ Transition(t, "ROUTED", "human", d, None)
             /\ Carry(w, "startDraft", [NoJob EXCEPT !.ticket = t])
    <3>1. Alone(w, t)
      BY <2>1, QuietHasNoDriver DEF Alone, Matches, Quiet, Checkpoint
    <3> QED BY <2>1, <3>1, DraftMove DEF Matches, TicketState, Actor
  <2>2. CASE Goto(w, "failed") /\ UNCHANGED storeVars
    BY <1>1, <1>3, <2>2 DEF Goto, ReviewClassification
  <2> QED BY <1>3, <2>1, <2>2 DEF ReviewClassification
<1>4. ASSUME NEW t, NEW x, NEW next \in {"finalizeApproved", "finalizeRejected"},
             BeginDecision(w, t, x, next)
      PROVE  DraftInv'
  BY <1>1, <1>4 DEF BeginDecision, Goto
<1>5. ASSUME NEW t, NEW x, ApproveReply(w, t, x)
      PROVE  DraftInv'
  BY <1>1, <1>4, <1>5 DEF ApproveReply, Goto
<1>6. ASSUME NEW t, RejectReply(w, t)
      PROVE  DraftInv'
  BY <1>4, <1>6 DEF RejectReply
<1> QED BY <1>2, <1>3, <1>5, <1>6 DEF Request

LEMMA ServeDraft ==
  ASSUME TypeOK, ExclusiveDriver, DraftInv, NEW w \in Worker, Serve(w)
  PROVE  DraftInv'
<1> USE DEF DraftSteps, Free, Step
<1>1. pc[w] \notin Free \cup {"insert"} => T(w) \in Ticket
  BY DEF TypeOK, JobOK
<1>2. CASE CreateTicket(w)
  <2>1. ASSUME NEW t \in Ticket, state[t] = Absent,
               InsertTicketAndEmail(t, job[w].key),
               Carry(w, "claim", [NoJob EXCEPT !.ticket = t])
        PROVE  DraftInv'
    BY <2>1, DraftSilent DEF InsertTicketAndEmail, TypeOK, StoreTypeOK, Absent
  <2>2. CASE Goto(w, "failed") /\ UNCHANGED storeVars
    BY <2>2, DraftSilent DEF Goto, storeVars
  <2> QED BY <1>2, <2>1, <2>2 DEF CreateTicket
<1>3. CASE ClaimNew(w) \/ Resolve(w) \/ Redraft(w)
  <2>1. T(w) \in Ticket
    BY <1>1, <1>3 DEF ClaimNew, Resolve, Redraft, At
  <2>2. CASE ClaimNew(w)
    BY <2>1, <2>2, DraftApply DEF ClaimNew, Quiet, TicketState, Actor, ClassifySteps
  <2>3. CASE Resolve(w)
    <3>1. job[w].text \in Text \cup {None}
      BY <2>3 DEF Resolve, At, TypeOK, JobOK, ApproveSteps
    <3> QED BY <2>1, <2>3, <3>1, DraftApply DEF Resolve, Quiet, Checkpoint, TicketState, Actor
  <2>4. CASE Redraft(w)
    BY <2>1, <2>4, DraftApply DEF Redraft, Quiet, Checkpoint, TicketState, Actor
  <2> QED BY <1>3, <2>2, <2>3, <2>4
<1>4. CASE ParkOnError(w) \/ ParkForReview(w) \/ AutoRoute(w) \/ StartDraft(w) \/ ParkReply(w)
  <2>1. T(w) \in Ticket /\ Drives(w)
    BY <1>1, <1>4 DEF ParkOnError, ParkForReview, AutoRoute, StartDraft, ParkReply, At,
                      Drives, DriveSteps, ClassifySteps
  <2>2. CASE ParkOnError(w)
    BY <2>1, <2>2, DraftApply DEF ParkOnError, TicketState, Actor
  <2>3. CASE ParkForReview(w)
    BY <2>1, <2>3, DraftApply DEF ParkForReview, TicketState, Actor
  <2>4. CASE AutoRoute(w)
    BY <2>1, <2>4, DraftApply DEF AutoRoute, TicketState, Actor
  <2>5. CASE StartDraft(w)
    BY <2>1, <2>5, DraftApply DEF StartDraft, TicketState, Actor
  <2>6. CASE ParkReply(w)
    BY <2>1, <2>6, DraftApply DEF ParkReply, At, TicketState, Actor
  <2> QED BY <1>4, <2>2, <2>3, <2>4, <2>5, <2>6
<1>5. CASE ReadExisting(w) \/ SendAlert(w) \/ Classify(w) \/ RecordClassification(w)
  BY <1>5, DraftSilent
  DEF ReadExisting, SendAlert, Classify, RecordClassification, SaveClassification, Goto,
      storeVars, ClassifySteps
<1>6. CASE DraftReply(w)
  <2>1. PICK j \in Job : Carry(w, "saveDraft", j) /\ j.ticket = T(w)
    BY <1>6 DEF DraftReply, TypeOK, Job, T
  <2> QED BY <1>6, <2>1, DraftSilent DEF DraftReply, At, storeVars
<1>7. CASE RecordDraft(w)
  <2> DEFINE row == [draft |-> job[w].text, status |-> "draft", finalText |-> None]
  <2>1. PICK t \in Ticket : t = T(w)
    BY <1>1, <1>7 DEF RecordDraft, At
  <2>2. row \in ReplyRow /\ replies[t] \in Seq(ReplyRow)
    BY <1>7, <2>1 DEF RecordDraft, At, TypeOK, StoreTypeOK, JobOK, ReplyRow, ReplyStatus
  <2>3. /\ replies' = [replies EXCEPT ![t] = Append(replies[t], row)]
        /\ state' = state /\ audit' = audit /\ Goto(w, "parkReply")
    BY <1>7, <2>1 DEF RecordDraft, SaveReplyDraft
  <2>4. Len(Append(replies[t], row)) = Len(replies[t]) + 1
    BY <2>2, AppendProperties
  <2> HIDE DEF row
  <2>5. /\ Len(replies'[t]) = Len(replies[t]) + 1
        /\ \A u \in Ticket \ {t} : replies'[u] = replies[u]
    BY <2>3, <2>4 DEF TypeOK, StoreTypeOK
  <2>6. Alone(w, t) /\ state[t] = "DRAFTING"
    BY <1>7, <2>1
    DEF RecordDraft, At, ExclusiveDriver, Drives, DriveSteps, DrivenState, Alone, ClassifySteps
  <2>7. \A u \in Ticket : Drafted(u)'
    BY <2>3, <2>5, <2>6 DEF DraftInv, Drafted, Rounds, DraftRounds
  <2>8. DraftKnows(w)'
    <3>1. pc'[w] = "parkReply" /\ T(w)' = t
      BY <2>1, <2>3 DEF TypeOK, Goto, Carry, T
    <3>2. Len(replies[t]) + 1 = Rounds(t)
      BY <1>7, <2>1 DEF RecordDraft, At, DraftInv, DraftKnows
    <3>3. Len(replies[T(w)])' = Len(replies[t]) + 1 /\ Rounds(T(w))' = Rounds(t)
      BY <2>3, <2>5, <3>1 DEF Rounds, DraftRounds
    <3> QED BY <3>1, <3>2, <3>3 DEF DraftKnows
  <2>9. \A u \in Ticket :
          Alone(w, u) \/ (audit'[u] = audit[u] /\ Len(replies'[u]) = Len(replies[u]))
    BY <2>3, <2>5, <2>6
  <2> QED BY <2>3, <2>7, <2>8, <2>9, DraftFrame DEF Goto
<1>8. CASE FinalizeApproved(w)
  <2>1. \A u \in Ticket : Len(replies'[u]) = Len(replies[u])
    BY <1>1, <1>8, FinalizeKeepsLength DEF FinalizeApproved, At, TypeOK, JobOK
  <2> QED BY <1>8, <2>1, DraftSilent DEF FinalizeApproved, FinalizeReply, Goto, ApproveSteps
<1>9. CASE FinalizeRejected(w)
  <2>1. \A u \in Ticket : Len(replies'[u]) = Len(replies[u])
    BY <1>1, <1>9, FinalizeKeepsLength DEF FinalizeRejected, At, TypeOK, JobOK
  <2> QED BY <1>9, <2>1, DraftSilent DEF FinalizeRejected, FinalizeReply, Goto, RejectSteps
<1> QED BY <1>2, <1>3, <1>4, <1>5, <1>6, <1>7, <1>8, <1>9 DEF Serve

LEMMA FaultDraft ==
  ASSUME TypeOK, DraftInv, Fault \/ UNCHANGED vars
  PROVE  DraftInv'
<1>1. CASE Crash
  BY <1>1
  DEF Crash, storeVars, DraftInv, Drafted, DraftKnows, Rounds, DraftRounds
<1>2. ASSUME NEW w \in Worker, SkipAlert(w) \/ Interrupt(w)
      PROVE  DraftInv'
  BY <1>2, DraftSilent DEF SkipAlert, Interrupt, Goto, storeVars, Free, Step, DraftSteps
<1>3. CASE UNCHANGED vars
  BY <1>3 DEF vars, DraftInv, Drafted, DraftKnows, Rounds, DraftRounds, T
<1> QED BY <1>1, <1>2, <1>3 DEF Fault

LEMMA DraftInit == Init => DraftInv
<1> SUFFICES ASSUME Init, NEW t \in Ticket
             PROVE  Drafted(t)
  BY DEF Init, DraftInv, DraftKnows
<1>1. replies[t] = << >> /\ DraftRounds(t) = {}
  BY EmptySeq DEF Init, StoreInit, DraftRounds
<1> QED BY <1>1, EmptySeq, FS_EmptySet DEF Drafted, Rounds

LEMMA DraftsHold == Spec => []DraftInv
<1>1. TypeOK /\ ExclusiveDriver /\ DraftInv /\ [Next]_vars => DraftInv'
  BY RequestDraft, ServeDraft, FaultDraft DEF Next
<1> QED BY <1>1, DraftInit, TypeCorrect, DriverIsExclusive, PTL DEF Spec

\* The reply rows of a ticket that waits for approval, or is resolved, are
\* one for each round of drafting, however many drafts were rejected, cut
\* short or raced about: the latest row is the draft of the latest round.
THEOREM DraftsMatchRounds == Spec => []OneDraftPerRound
<1>1. DraftInv => OneDraftPerRound
  BY DEF DraftInv, Drafted, Rounds, OneDraftPerRound
<1> QED BY <1>1, DraftsHold, PTL

-----------------------------------------------------------------------------
(***************************************************************************)
(* What is resolved was approved, when reviewers take turns.  The goroutine *)
(* of a decision then has the ticket at its checkpoint, and the reply it   *)
(* decides about is the latest, until it makes its transition.             *)
(***************************************************************************)
TurnKnows(w) ==
  /\ pc[w] \in DecisionSteps => state[T(w)] = "AWAITING_REPLY_APPROVAL"
  /\ pc[w] \in {"finalizeApproved", "finalizeRejected"} =>
       job[w].reply = Len(replies[T(w)])
  /\ pc[w] = "resolve" => /\ LatestReply(T(w)).status = "approved"
                          /\ LatestReply(T(w)).finalText = job[w].text

TurnsApart ==
  \A w \in Worker : \A v \in Worker \ {w} :
    pc[w] \in DecisionSteps /\ pc[v] \in DecisionSteps => T(v) # T(w)

Approved(t) ==
  state[t] = "RESOLVED" =>
    /\ LatestReply(t).status = "approved"
    /\ LatestReply(t).finalText = audit[t][Len(audit[t])].text

TurnInv ==
  /\ \A t \in Ticket : Approved(t)
  /\ \A w \in Worker : TurnKnows(w)
  /\ TurnsApart

\* When worker w moves on, the tickets that others decide about stay as they
\* are.
LEMMA TurnFrame ==
  ASSUME TypeOK, TurnInv, \A t \in Ticket : Approved(t)',
         NEW w \in Worker, NEW l \in Step, NEW j, Carry(w, l, j), TurnKnows(w)',
         \A v \in Worker \ {w} : pc[v] \in DecisionSteps =>
           /\ state'[T(v)] = state[T(v)] /\ replies'[T(v)] = replies[T(v)]
           /\ l \in DecisionSteps => T(v) # j.ticket
  PROVE  TurnInv'
<1> USE DEF DecisionSteps, ApproveSteps, RejectSteps
<1>1. pc'[w] = l /\ (l \in DecisionSteps => job'[w] = j)
  BY DEF TypeOK, Carry, Free
<1>2. \A v \in Worker \ {w} : pc'[v] = pc[v] /\ job'[v] = job[v] /\ T(v)' = T(v)
  BY DEF TypeOK, Carry, T
<1>3. ASSUME NEW v \in Worker \ {w}
      PROVE  TurnKnows(v)'
  <2>1. TurnKnows(v)
    BY DEF TurnInv
  <2>2. pc[v] \in DecisionSteps => /\ state'[T(v)] = state[T(v)]
                                   /\ replies'[T(v)] = replies[T(v)]
    OBVIOUS
  <2> QED BY <1>2, <2>1, <2>2 DEF TurnKnows, LatestReply
<1>4. TurnsApart'
  <2> SUFFICES ASSUME NEW u \in Worker, NEW v \in Worker \ {u},
                      pc'[u] \in DecisionSteps, pc'[v] \in DecisionSteps
               PROVE  T(v)' # T(u)'
    BY DEF TurnsApart
  <2>1. CASE u = w
    BY <1>1, <1>2, <2>1 DEF T
  <2>2. CASE v = w
    BY <1>1, <1>2, <2>2 DEF T
  <2>3. CASE u # w /\ v # w
    BY <1>2, <2>3 DEF TurnInv, TurnsApart
  <2> QED BY <2>1, <2>2, <2>3
<1> QED BY <1>3, <1>4 DEF TurnInv

\* A step that decides nothing and touches no reply.
LEMMA TurnSilent ==
  ASSUME TypeOK, TurnInv, UNCHANGED <<state, replies, audit>>,
         NEW w \in Worker, NEW l \in Step \ DecisionSteps, NEW j, Carry(w, l, j)
  PROVE  TurnInv'
<1>1. TurnKnows(w)'
  BY DEF TypeOK, Carry, TurnKnows, DecisionSteps, ApproveSteps, RejectSteps
<1>2. \A t \in Ticket : Approved(t)'
  BY DEF TurnInv, Approved, LatestReply
<1> QED BY <1>1, <1>2, TurnFrame

\* A transition leaves the checkpoint only by the hand of the worker that has
\* decided, and resolves the ticket only after its reply was approved.
LEMMA TurnMove ==
  ASSUME TypeOK, TurnInv, NEW t \in Ticket, state[t] \in TicketState,
         NEW to \in TicketState, NEW actor \in Actor, NEW set, NEW text \in Text \cup {None},
         Transition(t, to, actor, set, text),
         NEW w \in Worker, NEW l \in Step \ DecisionSteps, NEW j, Carry(w, l, j),
         state[t] = "AWAITING_REPLY_APPROVAL" => pc[w] \in DecisionSteps /\ T(w) = t,
         to = "RESOLVED" => pc[w] = "resolve" /\ T(w) = t /\ text = job[w].text
  PROVE  TurnInv'
<1>1. /\ state'[t] = to /\ replies' = replies
      /\ \A u \in Ticket \ {t} : state'[u] = state[u] /\ audit'[u] = audit[u]
  BY DEF Transition, TypeOK, StoreTypeOK
<1>2. Approved(t)'
  <2> DEFINE row == [from |-> state[t], to |-> to, actor |-> actor, text |-> text]
  <2> SUFFICES ASSUME to = "RESOLVED"
               PROVE  /\ LatestReply(t)'.status = "approved"
                      /\ LatestReply(t)'.finalText = audit'[t][Len(audit'[t])].text
    BY <1>1 DEF Approved
  <2>1. LatestReply(t).status = "approved" /\ LatestReply(t).finalText = text
    BY DEF TurnInv, TurnKnows
  <2>2. row \in AuditRow /\ row.text = text
    BY DEF AuditRow
  <2>3. audit'[t] = Append(audit[t], row) /\ audit[t] \in Seq(AuditRow)
    BY DEF Transition, TypeOK, StoreTypeOK
  <2> HIDE DEF row
  <2>4. audit'[t][Len(audit'[t])].text = text
    BY <2>2, <2>3, AppendRow
  <2> QED BY <1>1, <2>1, <2>4 DEF LatestReply
<1>3. \A u \in Ticket : Approved(u)'
  BY <1>1, <1>2 DEF TurnInv, Approved, LatestReply
<1>4. TurnKnows(w)'
  BY DEF TypeOK, Carry, TurnKnows, DecisionSteps, ApproveSteps, RejectSteps
<1>5. ASSUME NEW v \in Worker \ {w}, pc[v] \in DecisionSteps
      PROVE  state'[T(v)] = state[T(v)] /\ replies'[T(v)] = replies[T(v)]
  <2>1. T(v) # t
    BY <1>5 DEF TurnInv, TurnKnows, TurnsApart
  <2>2. T(v) \in Ticket
    BY <1>5 DEF TypeOK, JobOK, Free, DecisionSteps, ApproveSteps, RejectSteps
  <2> QED BY <1>1, <2>1, <2>2
<1> QED BY <1>3, <1>4, <1>5, TurnFrame

LEMMA TurnApply ==
  ASSUME TypeOK, TurnInv, NEW w \in Worker, T(w) \in Ticket,
         NEW from \in TicketState, NEW to \in TicketState, NEW actor \in Actor,
         NEW set, NEW text \in Text \cup {None}, NEW next \in Step \ DecisionSteps,
         Apply(w, from, to, actor, set, text, next),
         from = "AWAITING_REPLY_APPROVAL" => pc[w] \in DecisionSteps,
         to = "RESOLVED" => pc[w] = "resolve" /\ text = job[w].text
  PROVE  TurnInv'
<1>1. CASE Matches(T(w), from) /\ Transition(T(w), to, actor, set, text) /\ Goto(w, next)
  <2>1. state[T(w)] = from /\ Carry(w, next, job[w])
    BY <1>1 DEF Matches, Goto
  <2>2. PICK t \in Ticket : t = T(w)
    OBVIOUS
  <2> QED BY <1>1, <2>1, <2>2, TurnMove
<1>2. CASE Goto(w, "failed") /\ UNCHANGED storeVars
  BY <1>2, TurnSilent
  DEF Goto, storeVars, Step, Free, DecisionSteps, ApproveSteps, RejectSteps
<1> QED BY <1>1, <1>2 DEF Apply

LEMMA RequestTurn ==
  ASSUME TypeOK, ExclusiveDriver, TurnInv, NEW w \in Worker, Request(w), TakesTurns
  PROVE  TurnInv'
<1> USE DEF Free, Step, DecisionSteps, ApproveSteps, RejectSteps
<1>1. ASSUME NEW l \in {"insert", "existing", "failed"},
             NEW j, Carry(w, l, j), UNCHANGED <<storeVars, alerts>>
      PROVE  TurnInv'
  BY <1>1, TurnSilent DEF storeVars
<1>2. ASSUME NEW k \in Key, ReceiveEmail(w, k)  PROVE TurnInv'
  BY <1>1, <1>2 DEF ReceiveEmail
<1>3. ASSUME NEW t \in Ticket, NEW d \in Decision, ReviewClassification(w, t, d)
      PROVE  TurnInv'
  <2>1. CASE /\ ValidDecision(d)
             /\ Matches(t, "AWAITING_CLASSIFICATION_REVIEW")
             /\ Transition(t, "ROUTED", "human", d, None)
             /\ Carry(w, "startDraft", [NoJob EXCEPT !.ticket = t])
    BY <2>1, TurnMove DEF Matches, TicketState, Actor
  <2>2. CASE Goto(w, "failed") /\ UNCHANGED storeVars
    BY <1>1, <1>3, <2>2 DEF Goto, ReviewClassification
  <2> QED BY <1>3, <2>1, <2>2 DEF ReviewClassification
<1>4. ASSUME NEW t \in Ticket, NEW x \in Text \cup {Blank},
             NEW next \in {"finalizeApproved", "finalizeRejected"},
             BeginDecision(w, t, x, next)
      PROVE  TurnInv'
  <2> DEFINE j == [NoJob EXCEPT !.ticket = t, !.text = x, !.reply = LatestReplyID(t)]
  <2>1. CASE Carry(w, next, j)
    <3>1. j.ticket = t /\ j.reply = Len(replies[t])
      BY DEF NoJob, LatestReplyID
    <3> HIDE DEF j
    <3>2. pc[w] \in Free /\ pc'[w] = next /\ job'[w] = j /\ T(w)' = t
      BY <1>4, <2>1, <3>1 DEF BeginDecision, TypeOK, Carry, T
    <3>3. /\ state[t] = "AWAITING_REPLY_APPROVAL"
          /\ \A v \in Worker : pc[v] \in DecisionSteps => T(v) # t
      BY <3>1, <3>2 DEF TakesTurns
    <3>4. UNCHANGED <<state, replies, audit>>
      BY <1>4 DEF BeginDecision, storeVars
    <3>5. TurnKnows(w)'
      BY <3>1, <3>2, <3>3, <3>4 DEF TurnKnows
    <3>6. \A u \in Ticket : Approved(u)'
      BY <3>4 DEF TurnInv, Approved, LatestReply
    <3> QED BY <2>1, <3>1, <3>3, <3>4, <3>5, <3>6, TurnFrame
  <2>2. CASE Goto(w, "failed")
    BY <1>1, <1>4, <2>2 DEF BeginDecision, Goto
  <2> QED BY <1>4, <2>1, <2>2 DEF BeginDecision
<1>5. ASSUME NEW t \in Ticket, NEW x \in Text \cup {Blank}, ApproveReply(w, t, x)
      PROVE  TurnInv'
  BY <1>1, <1>4, <1>5 DEF ApproveReply, Goto
<1>6. ASSUME NEW t \in Ticket, RejectReply(w, t)
      PROVE  TurnInv'
  BY <1>4, <1>6 DEF RejectReply
<1> QED BY <1>2, <1>3, <1>5, <1>6 DEF Request

\* FinalizeReply overwrites the latest row of a ticket that is not resolved.
LEMMA FinalizeTurn ==
  ASSUME TypeOK, TurnInv, NEW w \in Worker, NEW t \in Ticket, t = T(w),
         pc[w] \in {"finalizeApproved", "finalizeRejected"},
         NEW status \in ReplyStatus, NEW l \in {"resolve", "redraft"},
         l = "resolve" => status = "approved",
         FinalizeReply(t, job[w].reply, status, job[w].text), Goto(w, l)
  PROVE  TurnInv'
<1> USE DEF DecisionSteps, ApproveSteps, RejectSteps
<1> DEFINE old == replies[t]
           id == job[w].reply
           new == [old EXCEPT ![id].status = status, ![id].finalText = job[w].text]
<1>1. old \in Seq(ReplyRow) /\ id = Len(old) /\ id \in 1 .. Len(old)
  BY DEF TypeOK, StoreTypeOK, JobOK, TurnInv, TurnKnows
<1>2. state[t] = "AWAITING_REPLY_APPROVAL"
  BY DEF TurnInv, TurnKnows
<1>3. /\ replies' = [replies EXCEPT ![t] = new]
      /\ UNCHANGED <<state, audit>>
  BY DEF FinalizeReply, TypeOK, StoreTypeOK
<1>4. old[id] \in ReplyRow
  BY <1>1
<1>5. Len(new) = id /\ new[id].status = status /\ new[id].finalText = job[w].text
  <2>1. DOMAIN new = 1 .. Len(old)
    BY <1>1
  <2>2. Len(new) = Len(old)
    BY <1>1, <2>1
  <2>3. new[id].status = status /\ new[id].finalText = job[w].text
    BY <1>1, <1>4 DEF ReplyRow
  <2> QED BY <1>1, <2>2, <2>3
<1>6. /\ LatestReply(t)'.status = status
      /\ LatestReply(t)'.finalText = job[w].text
      /\ \A u \in Ticket \ {t} : replies'[u] = replies[u]
  BY <1>3, <1>5 DEF LatestReply, TypeOK, StoreTypeOK
<1>7. \A u \in Ticket : Approved(u)'
  BY <1>2, <1>3, <1>6 DEF TurnInv, Approved, LatestReply
<1>8. pc'[w] = l /\ job'[w] = job[w] /\ T(w)' = t
  BY DEF Goto, Carry, TypeOK, Free, T
<1>9. TurnKnows(w)'
  BY <1>2, <1>3, <1>6, <1>8 DEF TurnKnows, LatestReply
<1>10. ASSUME NEW v \in Worker \ {w}, pc[v] \in DecisionSteps
       PROVE  /\ state'[T(v)] = state[T(v)] /\ replies'[T(v)] = replies[T(v)]
              /\ T(v) # job[w].ticket
  <2>1. T(v) # t
    BY <1>10 DEF TurnInv, TurnsApart
  <2>2. T(v) \in Ticket
    BY <1>10 DEF TypeOK, JobOK, Free
  <2> QED BY <1>3, <1>6, <2>1, <2>2 DEF T
<1>11. l \in Step /\ Carry(w, l, job[w])
  BY DEF Step, Goto
<1> QED BY <1>7, <1>9, <1>10, <1>11, TurnFrame

LEMMA ServeTurn ==
  ASSUME TypeOK, ExclusiveDriver, TurnInv, NEW w \in Worker, Serve(w)
  PROVE  TurnInv'
<1> USE DEF Free, Step, DecisionSteps, ApproveSteps, RejectSteps
<1>1. pc[w] \notin Free \cup {"insert"} => T(w) \in Ticket
  BY DEF TypeOK, JobOK
<1>2. CASE CreateTicket(w)
  <2>1. ASSUME NEW t \in Ticket, state[t] = Absent,
               InsertTicketAndEmail(t, job[w].key),
               Carry(w, "claim", [NoJob EXCEPT !.ticket = t])
        PROVE  TurnInv'
    <3>1. /\ state'[t] = "NEW" /\ UNCHANGED <<replies, audit>>
          /\ \A u \in Ticket \ {t} : state'[u] = state[u]
      BY <2>1 DEF InsertTicketAndEmail, TypeOK, StoreTypeOK
    <3>2. \A u \in Ticket : Approved(u)'
      BY <3>1 DEF TurnInv, Approved, LatestReply
    <3>3. TurnKnows(w)'
      BY <2>1 DEF TypeOK, Carry, TurnKnows
    <3>4. ASSUME NEW v \in Worker \ {w}, pc[v] \in DecisionSteps
          PROVE  state'[T(v)] = state[T(v)] /\ replies'[T(v)] = replies[T(v)]
      BY <2>1, <3>1, <3>4 DEF TurnInv, TurnKnows, TypeOK, JobOK, Absent
    <3>5. "claim" \in Step /\ "claim" \notin DecisionSteps
      OBVIOUS
    <3> HIDE DEF Step, DecisionSteps
    <3> QED BY <2>1, <3>2, <3>3, <3>4, <3>5, TurnFrame
  <2>2. CASE Goto(w, "failed") /\ UNCHANGED storeVars
    BY <2>2, TurnSilent DEF Goto, storeVars
  <2> QED BY <1>2, <2>1, <2>2 DEF CreateTicket
<1>3. CASE ClaimNew(w)
  BY <1>1, <1>3, TurnApply DEF ClaimNew, At, TicketState, Actor, ClassifySteps
<1>4. CASE ParkOnError(w)
  BY <1>1, <1>4, TurnApply DEF ParkOnError, At, TicketState, Actor
<1>5. CASE ParkForReview(w)
  BY <1>1, <1>5, TurnApply DEF ParkForReview, At, TicketState, Actor
<1>6. CASE AutoRoute(w)
  BY <1>1, <1>6, TurnApply DEF AutoRoute, At, TicketState, Actor
<1>7. CASE StartDraft(w)
  BY <1>1, <1>7, TurnApply DEF StartDraft, At, TicketState, Actor, DraftSteps
<1>8. CASE ParkReply(w)
  BY <1>1, <1>8, TurnApply DEF ParkReply, At, TicketState, Actor
<1>9. CASE Resolve(w)
  <2>1. T(w) \in Ticket /\ job[w].text \in Text
    BY <1>1, <1>9 DEF Resolve, At, TypeOK, JobOK
  <2> QED BY <1>9, <2>1, TurnApply DEF Resolve, At, TicketState, Actor
<1>10. CASE Redraft(w)
  BY <1>1, <1>10, TurnApply DEF Redraft, At, TicketState, Actor, DraftSteps
<1>11. CASE ReadExisting(w) \/ SendAlert(w) \/ Classify(w) \/ RecordClassification(w)
            \/ DraftReply(w)
  BY <1>11, TurnSilent
  DEF ReadExisting, SendAlert, Classify, RecordClassification, SaveClassification, Goto,
      DraftReply, storeVars, ClassifySteps, DraftSteps
<1>12. CASE RecordDraft(w)
  <2>1. PICK t \in Ticket : t = T(w)
    BY <1>1, <1>12 DEF RecordDraft, At
  <2>2. state[t] = "DRAFTING"
    BY <1>12, <2>1
    DEF RecordDraft, At, ExclusiveDriver, Drives, DriveSteps, DrivenState, DraftSteps, ClassifySteps
  <2>3. /\ \A u \in Ticket \ {t} : replies'[u] = replies[u]
        /\ UNCHANGED <<state, audit>>
    BY <1>12, <2>1 DEF RecordDraft, SaveReplyDraft, TypeOK, StoreTypeOK
  <2>4. \A u \in Ticket : Approved(u)'
    BY <2>2, <2>3 DEF TurnInv, Approved, LatestReply
  <2>5. TurnKnows(w)' /\ Goto(w, "parkReply")
    BY <1>12 DEF RecordDraft, TypeOK, Goto, Carry, TurnKnows
  <2>6. ASSUME NEW v \in Worker \ {w}, pc[v] \in DecisionSteps
        PROVE  state'[T(v)] = state[T(v)] /\ replies'[T(v)] = replies[T(v)]
    BY <2>2, <2>3, <2>6 DEF TurnInv, TurnKnows, TypeOK, JobOK
  <2> QED BY <2>4, <2>5, <2>6, TurnFrame DEF Goto, DraftSteps
<1>13. CASE FinalizeApproved(w)
  <2>1. PICK t \in Ticket : t = T(w)
    BY <1>1, <1>13 DEF FinalizeApproved, At
  <2> QED BY <1>13, <2>1, FinalizeTurn DEF FinalizeApproved, At, ReplyStatus
<1>14. CASE FinalizeRejected(w)
  <2>1. PICK t \in Ticket : t = T(w)
    BY <1>1, <1>14 DEF FinalizeRejected, At
  <2> QED BY <1>14, <2>1, FinalizeTurn DEF FinalizeRejected, At, ReplyStatus
<1> QED BY <1>2, <1>3, <1>4, <1>5, <1>6, <1>7, <1>8, <1>9, <1>10, <1>11, <1>12,
           <1>13, <1>14 DEF Serve

LEMMA FaultTurn ==
  ASSUME TypeOK, TurnInv, Fault \/ UNCHANGED vars
  PROVE  TurnInv'
<1> USE DEF Free, Step, DecisionSteps, ApproveSteps, RejectSteps
<1>1. CASE Crash
  BY <1>1
  DEF Crash, storeVars, TurnInv, Approved, LatestReply, TurnKnows, TurnsApart
<1>2. ASSUME NEW w \in Worker, SkipAlert(w) \/ Interrupt(w)
      PROVE  TurnInv'
  BY <1>2, TurnSilent DEF SkipAlert, Interrupt, Goto, storeVars
<1>3. CASE UNCHANGED vars
  BY <1>3 DEF vars, TurnInv, Approved, LatestReply, TurnKnows, TurnsApart, T
<1> QED BY <1>1, <1>2, <1>3 DEF Fault

LEMMA TurnsHold == TurnsSpec => []TurnInv
<1>1. Init => TurnInv
  BY DEF Init, StoreInit, TurnInv, Approved, TurnKnows, TurnsApart, DecisionSteps,
         ApproveSteps, RejectSteps, Absent
<1>2. TypeOK /\ ExclusiveDriver /\ TurnInv /\ [Next /\ TakesTurns]_vars => TurnInv'
  BY RequestTurn, ServeTurn, FaultTurn DEF Next
<1>3. TurnsSpec => Spec
  BY PTL DEF TurnsSpec, Spec
<1>4. TurnsSpec => [](TypeOK /\ ExclusiveDriver)
  BY <1>3, TypeCorrect, DriverIsExclusive, PTL
<1> QED BY <1>1, <1>2, <1>4, PTL DEF TurnsSpec

\* "Every reply is human-approved", as long as nobody decides about a ticket
\* that another decision is about: the reply that would be sent is marked
\* approved, with the text of the audit log, whatever fails in between.
THEOREM ResolvedIsApproved == TurnsSpec => []ResolvedReplyIsApproved
<1>1. TurnInv => ResolvedReplyIsApproved
  BY DEF TurnInv, Approved, ResolvedReplyIsApproved
<1> QED BY <1>1, TurnsHold, PTL

-----------------------------------------------------------------------------
(***************************************************************************)
(* What a ticket has it keeps: once it has left CLASSIFYING it does not    *)
(* come back, and its classification is final; reply rows never go, and    *)
(* none is missing at Checkpoint 2.                                        *)
(***************************************************************************)
Waiting == {"AWAITING_REPLY_APPROVAL", "RESOLVED"}

RowsStay ==
  \A t \in Ticket :
    /\ state[t] \notin Early => /\ state'[t] \notin Early
                               /\ classifications'[t] = classifications[t]
    /\ Len(replies[t]) <= Len(replies'[t])

LEMMA LifecycleStays ==
  ASSUME TypeOK, [Lifecycle!LNext]_LifecycleVars,
         NEW t \in Ticket, state[t] \notin Early
  PROVE  state'[t] \notin Early
<1>1. ASSUME NEW u \in Ticket, NEW from, NEW to, NEW actor, NEW text,
             Lifecycle!Move(u, from, to, actor, text), to = "CLASSIFYING" => from = "NEW",
             to \notin {Absent, "NEW"}
      PROVE  state'[t] \notin Early
  BY <1>1 DEF Lifecycle!Move, TypeOK, StoreTypeOK, Early
<1>2. ASSUME NEW u \in Ticket, Lifecycle!Create(u)
      PROVE  state'[t] \notin Early
  BY <1>2 DEF Lifecycle!Create, TypeOK, StoreTypeOK, Early, Absent
<1>3. ASSUME NEW u \in Ticket, Lifecycle!AgentMove(u) \/ Lifecycle!HumanMove(u)
      PROVE  state'[t] \notin Early
  BY <1>1, <1>3 DEF Lifecycle!AgentMove, Lifecycle!HumanMove, Absent
<1>4. CASE UNCHANGED LifecycleVars
  BY <1>4 DEF LifecycleVars
<1> QED BY <1>2, <1>3, <1>4 DEF Lifecycle!LNext

LEMMA StepKeepsRows ==
  ASSUME TypeOK, ExclusiveDriver, [Next]_vars
  PROVE  RowsStay
<1>1. \A t \in Ticket : Len(replies[t]) \in Nat
  BY LenProperties DEF TypeOK, StoreTypeOK
<1>2. \A t \in Ticket : state[t] \notin Early => state'[t] \notin Early
  BY StepRefines, LifecycleStays
<1>3. ASSUME UNCHANGED <<classifications, replies>>
      PROVE  RowsStay
  BY <1>1, <1>2, <1>3 DEF RowsStay
<1>4. ASSUME NEW w \in Worker, pc[w] \notin Free \cup {"insert"}
      PROVE  T(w) \in Ticket /\ JobOK(w)
  BY <1>4 DEF TypeOK, JobOK
<1>5. ASSUME NEW w \in Worker, RecordClassification(w)
      PROVE  RowsStay
  <2>1. state[T(w)] = "CLASSIFYING"
    BY <1>5
    DEF RecordClassification, At, ExclusiveDriver, Drives, DriveSteps, DrivenState,
        ClassifySteps, DraftSteps
  <2>2. \A t \in Ticket : t # T(w) => classifications'[t] = classifications[t]
    BY <1>5 DEF RecordClassification, SaveClassification, TypeOK, StoreTypeOK
  <2>3. replies' = replies
    BY <1>5 DEF RecordClassification, SaveClassification
  <2> QED BY <1>1, <1>2, <2>1, <2>2, <2>3 DEF RowsStay, Early
<1>6. ASSUME NEW w \in Worker, RecordDraft(w)
      PROVE  RowsStay
  <2>1. PICK t \in Ticket : t = T(w) /\ job[w].text \in Text \cup {Blank}
    BY <1>4, <1>6 DEF RecordDraft, At, JobOK, Free
  <2> DEFINE row == [draft |-> job[w].text, status |-> "draft", finalText |-> None]
  <2>2. row \in ReplyRow /\ replies[t] \in Seq(ReplyRow)
    BY <2>1 DEF ReplyRow, ReplyStatus, TypeOK, StoreTypeOK
  <2>3. replies' = [replies EXCEPT ![t] = Append(replies[t], row)] /\ UNCHANGED classifications
    BY <1>6, <2>1 DEF RecordDraft, SaveReplyDraft
  <2>4. Len(Append(replies[t], row)) = Len(replies[t]) + 1
    BY <2>2, AppendProperties
  <2> HIDE DEF row
  <2>5. \A u \in Ticket : Len(replies[u]) <= Len(replies'[u])
    BY <1>1, <2>3, <2>4 DEF TypeOK, StoreTypeOK
  <2> QED BY <1>2, <2>3, <2>5 DEF RowsStay
<1>7. ASSUME NEW w \in Worker, FinalizeApproved(w) \/ FinalizeRejected(w)
      PROVE  RowsStay
  <2>1. PICK t \in Ticket : t = T(w) /\ job[w].reply \in 1 .. Len(replies[t])
    BY <1>4, <1>7 DEF FinalizeApproved, FinalizeRejected, At, JobOK, Free
  <2>2. PICK status : FinalizeReply(t, job[w].reply, status, job[w].text)
    BY <1>7, <2>1 DEF FinalizeApproved, FinalizeRejected
  <2>3. \A u \in Ticket : Len(replies'[u]) = Len(replies[u])
    BY <2>1, <2>2, FinalizeKeepsLength
  <2>4. classifications' = classifications
    BY <2>2 DEF FinalizeReply
  <2> QED BY <1>1, <1>2, <2>3, <2>4 DEF RowsStay
<1>8. ASSUME NEW w \in Worker, Request(w)
      PROVE  UNCHANGED <<classifications, replies>>
  BY <1>8 DEF Request, ReceiveEmail, ReviewClassification, ApproveReply, RejectReply,
              BeginDecision, Transition, storeVars
<1>9. ASSUME NEW w \in Worker,
             \/ CreateTicket(w) \/ ReadExisting(w) \/ Classify(w) \/ SendAlert(w)
             \/ DraftReply(w)
      PROVE  UNCHANGED <<classifications, replies>>
  BY <1>9 DEF CreateTicket, InsertTicketAndEmail, ReadExisting, Classify, SendAlert,
              DraftReply, storeVars
<1>10. ASSUME NEW w \in Worker,
              \/ ClaimNew(w) \/ ParkOnError(w) \/ ParkForReview(w) \/ AutoRoute(w)
              \/ StartDraft(w) \/ ParkReply(w) \/ Resolve(w) \/ Redraft(w)
       PROVE  UNCHANGED <<classifications, replies>>
  BY <1>10 DEF ClaimNew, ParkOnError, ParkForReview, AutoRoute, StartDraft, ParkReply,
               Resolve, Redraft, Apply, Transition, storeVars
<1>11. CASE Fault \/ UNCHANGED vars
  BY <1>3, <1>11 DEF Fault, Crash, SkipAlert, Interrupt, storeVars, vars
<1> QED BY <1>3, <1>5, <1>6, <1>7, <1>8, <1>9, <1>10, <1>11 DEF Next, Serve

Replied(t) == state[t] \in Waiting => Len(replies[t]) >= 1

RepliedInv == \A t \in Ticket : Replied(t)

\* A ticket gets to Checkpoint 2 out of DRAFTING, and only its driver takes
\* it there, after the row of that round was added.
LEMMA RepliedStep ==
  ASSUME TypeOK, ExclusiveDriver, AuditInv, DraftInv, RepliedInv, [Next]_vars
  PROVE  RepliedInv'
<1> SUFFICES ASSUME NEW t \in Ticket, state'[t] \in Waiting
             PROVE  Len(replies'[t]) >= 1
  BY DEF RepliedInv, Replied
<1>1. Len(replies[t]) \in Nat /\ Len(replies'[t]) \in Nat
  BY TypeStep, LenProperties DEF TypeOK, StoreTypeOK
<1>2. Len(replies[t]) <= Len(replies'[t])
  BY StepKeepsRows DEF RowsStay
<1>3. CASE state[t] \in Waiting
  BY <1>1, <1>2, <1>3 DEF RepliedInv, Replied
<1>4. CASE state[t] \notin Waiting
  <2>1. state[t] = "DRAFTING"
    BY <1>4, StepRefines
    DEF Lifecycle!LNext, Lifecycle!Create, Lifecycle!AgentMove, Lifecycle!HumanMove,
        Lifecycle!Move, LifecycleVars, Waiting, TypeOK, StoreTypeOK
  <2>2. Len(replies'[t]) = Rounds(t)'
    BY <2>1, RequestDraft, ServeDraft, FaultDraft DEF Next, DraftInv, Drafted, Waiting
  <2>3. /\ audit'[t] \in Seq(AuditRow) /\ Len(audit'[t]) \in Nat
        /\ LeadsTo(audit[t], state[t]) /\ Len(audit[t]) \in Nat
    BY TypeStep, LenProperties DEF AuditInv, AuditReplays, TypeOK, StoreTypeOK
  <2> DEFINE n == Len(audit[t])
             row == [from |-> "DRAFTING", to |-> "AWAITING_REPLY_APPROVAL",
                     actor |-> "system", text |-> None]
  <2>4. n \in 1 .. n /\ audit[t][n].to = "DRAFTING"
    BY <2>1, <2>3 DEF LeadsTo, Absent
  <2>5. audit'[t] = Append(audit[t], row)
    BY <1>4, <2>1, StepRefines
    DEF Lifecycle!LNext, Lifecycle!Create, Lifecycle!AgentMove, Lifecycle!HumanMove,
        Lifecycle!Move, LifecycleVars, Waiting, TypeOK, StoreTypeOK, Absent
  <2>6. row \in AuditRow /\ audit[t] \in Seq(AuditRow)
    BY DEF AuditRow, TicketState, Actor, TypeOK, StoreTypeOK
  <2>7. n \in 1 .. Len(audit'[t]) /\ audit'[t][n] = audit[t][n]
    BY <2>3, <2>4, <2>5, <2>6, AppendRow
  <2>8. n \in DraftRounds(t)'
    BY <2>4, <2>7 DEF DraftRounds
  <2>9. Rounds(t)' \in Nat /\ IsFiniteSet(DraftRounds(t))'
    <3>1. IsFiniteSet(1 .. Len(audit'[t]))
      BY <2>3, FS_Interval
    <3>2. IsFiniteSet(DraftRounds(t))'
      BY <3>1, FS_Subset DEF DraftRounds
    <3> QED BY <3>2, FS_CardinalityType DEF Rounds
  <2>10. Rounds(t)' # 0
    BY <2>8, <2>9, FS_EmptySet DEF Rounds
  <2> QED BY <1>1, <2>2, <2>9, <2>10
<1> QED BY <1>3, <1>4

LEMMA RepliedHolds == Spec => []RepliedInv
<1>1. Init => RepliedInv
  BY DEF Init, StoreInit, RepliedInv, Replied, Waiting, Absent
<1>2. Spec => [](TypeOK /\ ExclusiveDriver /\ AuditInv /\ DraftInv)
  BY TypeCorrect, DriverIsExclusive, AuditHolds, DraftsHold, PTL
<1> QED BY <1>1, <1>2, RepliedStep, PTL DEF Spec

=============================================================================
